----------------------------- MODULE RuleGatekeeper -----------------------------
(***************************************************************************)
(* rule_gatekeeper.py and proposal_planner.py: callers propose a rule for  *)
(* a profile file from the verdict of a guard, record a decision on the    *)
(* proposal and apply an approved one, while users edit the evidence and   *)
(* the profile.  A proposal and a decision are data that callers hold; the *)
(* only thing written is the profile, in place.                            *)
(*                                                                         *)
(* A profile has the rules, which a diff shows, and the rest of the file,  *)
(* which lies outside the context of the diff; both are in its hash, and   *)
(* so is its layout.                                                       *)
(***************************************************************************)
EXTENDS AuditRules

CONSTANTS
  Callers,                   \* those who call the gatekeeper, one call at a time
  Evidence,                  \* the files that verdicts cite
  Texts,                     \* what a rule may require
  FirstProfiles,             \* the profile to start from
  UserProfiles,              \* what users write into the profile
  MaxProposals, MaxWrites,   \* proposals made, profiles written (bounds)
  MaxDrafts                  \* calls that propose or decide at a time (a bound)

VARIABLES
  profile,         \* the profile file
  proposals,       \* the proposals made, in their order
  decisions,       \* the decisions recorded, in their order
  call,            \* the calls at work
  writes,          \* the profiles written, in their order
  saves            \* saves of the profile by users (history)

keeperVars == <<disk, edits, profile, proposals, decisions, call, writes, saves>>

GuardIds == {Callback, Loaded}
Torn == [state |-> "torn"]
Gone == [state |-> "gone"]
NoRule == "none"
Itself == "profile"
ProfileOf(rules, rest, layout) == [state |-> "json", rules |-> rules, rest |-> rest, layout |-> layout]

ASSUME GatekeeperAssumption ==
  /\ Evidence \subseteq Files /\ Itself \notin Files
  /\ NoRule \notin Texts
  /\ \A p \in FirstProfiles \cup UserProfiles :
       p = ProfileOf(p.rules, p.rest, p.layout) /\ DOMAIN p.rules = GuardIds
  /\ MaxProposals \in Nat /\ MaxWrites \in Nat /\ MaxDrafts \in Nat

NoCall ==
  [pc |-> "idle", rule |-> "none", text |-> NoRule, package |-> << >>, verified |-> << >>, left |-> {},
   seen |-> Gone, ref |-> Gone, n |-> 0, d |-> 0, purpose |-> "none", base |-> 0, held |-> {}]

KeeperInit ==
  /\ profile \in FirstProfiles
  /\ proposals = << >> /\ decisions = << >> /\ writes = << >> /\ saves = 0
  /\ call = [c \in Callers |-> NoCall]

-----------------------------------------------------------------------------
(* Profiles and diffs *)

\* A mutant of the next definition: the proposed rule replaces all the rules.
OnlyRule(p, rule, text) == [p EXCEPT !.rules = [r \in DOMAIN @ |-> IF r = rule THEN text ELSE NoRule]]

\* _updated_profile; the rule is stored under its id.
Updated(p, rule, text) == [p EXCEPT !.rules[rule] = text]

\* What write_text leaves: the updated profile in the layout of json.dumps.
Written(p, rule, text) == [Updated(p, rule, text) EXCEPT !.layout = "dumped"]

\* _profile_diff compares both profiles in the layout of json.dumps: it shows the rules
\* around the change, and nothing at all where the rule is there already.
Diff(p, rule, text) ==
  IF Updated(p, rule, text) = p THEN [around |-> << >>, rule |-> << >>]
  ELSE [around |-> p.rules, rule |-> <<rule, text>>]

\* A mutant of the next definition: the exact diff is not compared again.
SameHash(p, proposal) == p = proposal.target

\* The profile that was read still has the approved diff.
DiffHolds(p, proposal) == Diff(p, proposal.rule, proposal.text) = proposal.diff

-----------------------------------------------------------------------------
(* Callers *)

Set(c, rec) == call' = [call EXCEPT ![c] = rec]
Return(c) == Set(c, NoCall)
First(left) == CHOOSE f \in left : TRUE     \* in a fixed order: the references are sorted
Quiet == UNCHANGED <<disk, edits, profile, proposals, decisions, writes, saves>>

\* Calls that propose or decide write nothing; few of them need to overlap.
Drafting == {c \in Callers : call[c].pc # "idle" /\ call[c].d = 0}

\* A guard inspection judges the evidence as it is; with a drafted rule.
Judge(c) ==
  /\ call[c].pc = "idle" /\ Len(proposals) < MaxProposals /\ Cardinality(Drafting) < MaxDrafts
  /\ \E rule \in GuardIds, text \in Texts :
       Set(c, [NoCall EXCEPT !.pc = "judged", !.rule = rule, !.text = text,
                             !.package = [f \in {g \in Evidence : Readable(g)} |-> disk[f]]])
  /\ Quiet

\* ProposalCandidate, _validate_inputs and _profile_target: a malformed draft, a guard
\* that is not registered or another governance state ends in no proposal.
Propose(c) ==
  /\ call[c].pc = "judged"
  /\ \/ Return(c)
     \/ /\ call[c].package # << >> /\ profile # Gone
        /\ Set(c, [call[c] EXCEPT !.pc = "verify", !.left = DOMAIN call[c].package])
  /\ Quiet

With(verified, f) == [g \in DOMAIN verified \cup {f} |-> IF g = f THEN disk[f] ELSE verified[g]]

\* _current_workspace_evidence keeps the files that still have the cited content.
VerifyEvidence(c) ==
  LET v == call[c]
  IN /\ v.pc = "verify"
     /\ \/ LET f == First(v.left)
           IN /\ v.left # {}
              /\ Set(c, [v EXCEPT !.left = @ \ {f},
                    !.verified = IF Readable(f) /\ disk[f] = v.package[f] THEN With(@, f) ELSE @])
        \/ v.left = {} /\ v.verified = << >> /\ Return(c)
        \/ v.left = {} /\ v.verified # << >> /\ Set(c, [v EXCEPT !.pc = "load"])
     /\ Quiet

\* _load_profile, from which the diff is computed.
LoadProfile(c) ==
  /\ call[c].pc = "load"
  /\ IF profile.state = "json" THEN Set(c, [call[c] EXCEPT !.pc = "ref", !.seen = profile]) ELSE Return(c)
  /\ Quiet

\* The hash in the reference to the profile, and then the hash it is later checked by.
HashReference(c) ==
  /\ call[c].pc = "ref"
  /\ IF profile = Gone THEN Return(c) ELSE Set(c, [call[c] EXCEPT !.pc = "target", !.ref = profile])
  /\ Quiet

HashTarget(c) ==
  LET v == call[c]
  IN /\ v.pc = "target"
     /\ Return(c)
     /\ proposals' = IF profile = Gone \/ Len(proposals) >= MaxProposals THEN proposals
                     ELSE Append(proposals,
                            [rule |-> v.rule, text |-> v.text, diff |-> Diff(v.seen, v.rule, v.text),
                             refs |-> v.verified, ref |-> v.ref, target |-> profile])
     /\ UNCHANGED <<disk, edits, profile, decisions, writes, saves>>

-----------------------------------------------------------------------------
(* Revalidation *)

\* The references a revalidation reads after the target: the evidence and the profile.
Refs(proposal) == DOMAIN proposal.refs \cup {Itself}

\* A mutant of it: only the profile is checked.
NoRefs(proposal) == {Itself}

Checked(proposal) == Refs(proposal)

Enter(c, purpose, n, d) == Set(c, [NoCall EXCEPT !.pc = "check", !.purpose = purpose, !.n = n, !.d = d])

\* The reference still has the cited content.
Holds(proposal, f) ==
  IF f = Itself THEN profile = proposal.ref ELSE Readable(f) /\ disk[f] = proposal.refs[f]

\* The resolver may refuse; the hash of the target; then each reference.
\* base and held are history: the writes before the check of the target, and the evidence
\* that stood at that moment.
CheckTarget(c) ==
  LET proposal == proposals[call[c].n]
  IN /\ call[c].pc = "check"
     /\ \/ Return(c)
        \/ /\ profile = proposal.target
           /\ Set(c, [call[c] EXCEPT !.pc = "refs", !.left = Checked(proposal),
                                    !.base = Len(writes), !.held = {f \in DOMAIN proposal.refs : Holds(proposal, f)}])
     /\ Quiet

CheckReference(c) ==
  LET v == call[c]
      proposal == proposals[v.n]
  IN /\ v.pc = "refs"
     /\ \/ LET f == First(v.left)
           IN v.left # {} /\ IF Holds(proposal, f) THEN Set(c, [v EXCEPT !.left = @ \ {f}]) ELSE Return(c)
        \/ v.left = {} /\ Set(c, [v EXCEPT !.pc = v.purpose])
     /\ Quiet

-----------------------------------------------------------------------------
(* Decisions and their application *)

Consider(c) ==
  /\ call[c].pc = "idle" /\ Cardinality(Drafting) < MaxDrafts
  /\ \E n \in DOMAIN proposals : Enter(c, "record", n, 0)
  /\ Quiet

RecordDecision(c) ==
  /\ call[c].pc = "record"
  /\ \E decision \in {"APPROVED", "REJECTED"} :
       decisions' = IF \E d \in DOMAIN decisions : decisions[d].n = call[c].n THEN decisions
                    ELSE Append(decisions, [n |-> call[c].n, decision |-> decision])
  /\ Return(c)
  /\ UNCHANGED <<disk, edits, profile, proposals, writes, saves>>

\* The identity of a proposal: the rule's id and the evidence, not the text of the rule.
Identity(proposal) == <<proposal.rule, proposal.refs, proposal.ref>>

\* The decision names the proposal by its identity and by the hash of all of it.
Fits(d, n) ==
  /\ decisions[d].decision = "APPROVED"
  /\ Identity(proposals[decisions[d].n]) = Identity(proposals[n])
  /\ decisions[d].n = n

\* apply_approved_proposal up to the authorization, which may be denied.
Apply(c) ==
  /\ call[c].pc = "idle" /\ Len(writes) < MaxWrites
  /\ \E d \in DOMAIN decisions, n \in DOMAIN proposals : Fits(d, n) /\ Enter(c, "read", n, d)
  /\ Quiet

ReadProfile(c) ==
  LET proposal == proposals[call[c].n]
  IN /\ call[c].pc = "read"
     /\ IF profile.state = "json" /\ DiffHolds(profile, proposal)
        THEN Set(c, [call[c] EXCEPT !.pc = "truncate", !.seen = profile]) ELSE Return(c)
     /\ Quiet

\* write_text opens the file, which empties it, and writes.
Truncate(c) ==
  /\ call[c].pc = "truncate" /\ Len(writes) < MaxWrites
  /\ profile' = Torn
  /\ Set(c, [call[c] EXCEPT !.pc = "write"])
  /\ UNCHANGED <<disk, edits, proposals, decisions, writes, saves>>

WriteProfile(c) ==
  LET v == call[c]
      proposal == proposals[v.n]
  IN /\ v.pc = "write"
     /\ profile' = Written(v.seen, proposal.rule, proposal.text)
     /\ writes' = Append(writes, [n |-> v.n, d |-> v.d, read |-> v.seen, status |-> "none",
                                  base |-> v.base, held |-> v.held, saves |-> saves])
     /\ Set(c, [v EXCEPT !.pc = "activate", !.left = {Len(writes) + 1}])
     /\ UNCHANGED <<disk, edits, proposals, decisions, saves>>

\* The validator of the caller says yes or no, or raises and leaves no record.
Activate(c) ==
  /\ call[c].pc = "activate"
  /\ \E status \in {"APPLIED", "ACTIVATION_FAILED", "none"}, w \in call[c].left :
       writes' = [writes EXCEPT ![w].status = status]
  /\ Return(c)
  /\ UNCHANGED <<disk, edits, profile, proposals, decisions, saves>>

\* The process of a caller ends.
Kill(c) == call[c].pc # "idle" /\ Return(c) /\ Quiet

\* A user saves the profile, an older version of it perhaps, or deletes it.
EditProfile ==
  /\ edits < MaxEdits
  /\ edits' = edits + 1 /\ saves' = saves + 1
  /\ profile' \in UserProfiles \cup {Gone}
  /\ UNCHANGED <<disk, proposals, decisions, call, writes>>

KeeperStep(c) ==
  \/ Judge(c) \/ Propose(c) \/ VerifyEvidence(c) \/ LoadProfile(c) \/ HashReference(c) \/ HashTarget(c)
  \/ Consider(c) \/ CheckTarget(c) \/ CheckReference(c) \/ RecordDecision(c)
  \/ Apply(c) \/ ReadProfile(c) \/ Truncate(c) \/ WriteProfile(c) \/ Activate(c) \/ Kill(c)
KeeperNext == EditProfile \/ \E c \in Callers : KeeperStep(c)

-----------------------------------------------------------------------------
(* Properties *)

KeeperTyped ==
  /\ profile.state \in {"json", "torn", "gone"}
  /\ \A d \in DOMAIN decisions : decisions[d].n \in DOMAIN proposals
  /\ \A w \in DOMAIN writes : writes[w].d \in DOMAIN decisions /\ writes[w].base < w

\* A profile is written only for a decision that approved this very proposal, and only
\* where it shows what the approver was shown, also when the profile was saved while the
\* proposal was drawn up, between the diff and the hash it is later checked by.
ApprovedExactly ==
  \A w \in DOMAIN writes :
    LET proposal == proposals[writes[w].n]
    IN /\ decisions[writes[w].d] = [n |-> writes[w].n, decision |-> "APPROVED"]
       /\ proposal.diff.around \in {<< >>, writes[w].read.rules}
       /\ proposal.diff.around = << >> => writes[w].read.rules[proposal.rule] = proposal.text

\* Evidence outlives its approval: at one moment after the decision that a write rests
\* on, the profile was the one proposed for and every cited file had the cited content,
\* although each file is read in its own step and users edit in between.
StoodAfterApproval ==
  \A w \in DOMAIN writes : writes[w].held = DOMAIN proposals[writes[w].n].refs

Rule(w) == proposals[writes[w].n].rule

\* A rule reported as applied stays in the profile through later proposals, decisions and
\* writes of other callers until a user saves the profile or the same rule is applied
\* again.  Writes of calls that overlap are excepted: the later one loses the other's rule.
AppliedStays ==
  \A w \in DOMAIN writes :
    /\ writes[w].status = "APPLIED" /\ saves = writes[w].saves /\ profile.state = "json"
    /\ \A x \in DOMAIN writes : x > w => writes[x].base >= w /\ Rule(x) # Rule(w)
    => profile.rules[Rule(w)] = proposals[writes[w].n].text
=============================================================================
