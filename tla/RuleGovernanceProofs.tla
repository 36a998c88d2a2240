-------------------------- MODULE RuleGovernanceProofs --------------------------
(***************************************************************************)
(* Theorems about the rule gatekeeper and the audit controller, for any    *)
(* workspace, any number of callers, proposals, decisions, writes, audits  *)
(* and requested packs.  KeeperInv is the invariant of the gatekeeper and  *)
(* AuditInv that of the audits.                                            *)
(***************************************************************************)
EXTENDS RuleGovernance, DataLemmas, TLAPS

-----------------------------------------------------------------------------
(* The invariant of the gatekeeper *)

Json(p) == p.state = "json" /\ DOMAIN p = {"state", "rules", "rest", "layout"} /\ DOMAIN p.rules = GuardIds

\* A content that a file had and that is no other file's absence.
Cited(f, content) ==
  /\ f \in Evidence
  /\ content # Absent /\ content.kind \notin {Sealed, Locked}
  /\ content.edition \in Nat /\ content.edition <= edits

AllCited(contents) == \A f \in DOMAIN contents : Cited(f, contents[f])

ApprovedBy(d, n) == d \in DOMAIN decisions /\ decisions[d] = [n |-> n, decision |-> "APPROVED"]

ProposalFine(proposal) == proposal.rule \in GuardIds /\ AllCited(proposal.refs)

\* A write rests on a decision that approved its proposal, and on the evidence.
WriteFine(w, x) ==
  /\ DOMAIN x = {"n", "d", "read", "status", "base", "held", "saves"}
  /\ x.n \in DOMAIN proposals /\ ApprovedBy(x.d, x.n)
  /\ Json(x.read) /\ DiffHolds(x.read, proposals[x.n])
  /\ x.base \in Nat /\ x.base < w
  /\ x.held = DOMAIN proposals[x.n].refs
  /\ x.saves \in Nat /\ x.saves <= saves

\* No user saved the profile since the write w, and no later write overlapped with it or
\* was of the same rule.
Undisturbed(w) ==
  /\ saves = writes[w].saves
  /\ \A x \in DOMAIN writes : x > w => writes[x].base >= w /\ Rule(x) # Rule(w)

\* The profile p has the rule of each undisturbed write among the first n.
Carries(p, n) ==
  \A w \in DOMAIN writes : w <= n /\ Undisturbed(w) => p.rules[Rule(w)] = proposals[writes[w].n].text

CallFields ==
  {"pc", "rule", "text", "package", "verified", "left", "seen", "ref", "n", "d", "purpose", "base", "held"}

Drawing == {"judged", "verify", "load", "ref", "target"}
Applying == {"read", "truncate", "write"}

\* What a call relies on from one of its steps to the next.
CallFine(v) ==
  /\ DOMAIN v = CallFields
  /\ v.pc \in Drawing => v.rule \in GuardIds /\ AllCited(v.package) /\ AllCited(v.verified)
  /\ v.pc = "verify" => v.left \subseteq DOMAIN v.package
  /\ v.pc \in {"check", "refs", "record"} \cup Applying =>
       /\ v.n \in DOMAIN proposals /\ v.purpose \in {"record", "read"}
       /\ v.purpose = "read" => ApprovedBy(v.d, v.n)
  /\ v.pc \in {"refs"} \cup Applying => v.base \in Nat /\ v.base <= Len(writes)
  /\ v.pc = "refs" =>
       /\ v.held \subseteq DOMAIN proposals[v.n].refs
       /\ \A f \in DOMAIN proposals[v.n].refs \ v.held : f \in v.left /\ disk[f] # proposals[v.n].refs[f]
  /\ v.pc \in Applying => v.purpose = "read" /\ v.held = DOMAIN proposals[v.n].refs
  /\ v.pc \in {"truncate", "write"} =>
       Json(v.seen) /\ DiffHolds(v.seen, proposals[v.n]) /\ Carries(v.seen, v.base)
  /\ v.pc = "activate" => v.left \subseteq DOMAIN writes

WorkspaceFine ==
  /\ edits \in Nat /\ DOMAIN disk = Files
  /\ \A f \in Files : disk[f].edition \in Nat /\ disk[f].edition <= edits

KeeperInv ==
  /\ WorkspaceFine
  /\ profile \in {Torn, Gone} \/ Json(profile)
  /\ IsSequence(proposals) /\ IsSequence(decisions) /\ IsSequence(writes) /\ saves \in Nat
  /\ \A n \in DOMAIN proposals : ProposalFine(proposals[n])
  /\ \A d \in DOMAIN decisions :
       /\ decisions[d] = [n |-> decisions[d].n, decision |-> decisions[d].decision]
       /\ decisions[d].n \in DOMAIN proposals
  /\ \A w \in DOMAIN writes : WriteFine(w, writes[w])
  /\ DOMAIN call = Callers /\ \A c \in Callers : CallFine(call[c])
  /\ profile.state = "json" => Carries(profile, Len(writes))

-----------------------------------------------------------------------------
(* What stays while others work *)

\* Proposals, decisions and writes are only added; a user who edits does not bring an
\* earlier content back.
Grown ==
  /\ \A n \in DOMAIN proposals : n \in DOMAIN proposals' /\ proposals'[n] = proposals[n]
  /\ \A d \in DOMAIN decisions : d \in DOMAIN decisions' /\ decisions'[d] = decisions[d]
  /\ Len(writes) \in Nat /\ Len(writes') \in Nat /\ Len(writes) <= Len(writes')
  /\ DOMAIN writes = 1..Len(writes) /\ DOMAIN writes' = 1..Len(writes')
  /\ \A w \in DOMAIN writes :
       /\ w \in DOMAIN writes' /\ DOMAIN writes'[w] = DOMAIN writes[w]
       /\ writes'[w].n = writes[w].n /\ writes'[w].d = writes[w].d /\ writes'[w].read = writes[w].read
       /\ writes'[w].base = writes[w].base /\ writes'[w].held = writes[w].held /\ writes'[w].saves = writes[w].saves
  /\ \A f, content : Cited(f, content) => Cited(f, content)' /\ (disk[f] # content => disk'[f] # content)
  /\ saves \in Nat /\ saves' \in Nat /\ saves <= saves'

\* A profile carries the rules it carried, however the workspace and the lists grow.
LEMMA CarriesOn ==
  ASSUME KeeperInv, Grown, NEW p, NEW n \in Nat, n <= Len(writes), Carries(p, n)
  PROVE  Carries(p, n)'
<1> SUFFICES ASSUME NEW w \in DOMAIN writes', w <= n, Undisturbed(w)'
             PROVE  p.rules[Rule(w)'] = proposals'[writes'[w].n].text
  BY DEF Carries
<1>1. w \in DOMAIN writes
  BY DEF Grown
<1>2. \A x \in DOMAIN writes : writes[x].n \in DOMAIN proposals /\ writes[x].saves \in Nat /\ writes[x].saves <= saves
  BY DEF KeeperInv, WriteFine
<1>3. \A x \in DOMAIN writes : Rule(x)' = Rule(x) /\ proposals'[writes'[x].n] = proposals[writes[x].n]
  BY <1>2 DEF Grown, Rule
<1>4. saves = writes[w].saves
  BY <1>1, <1>2 DEF Grown, Undisturbed
<1>5. ASSUME NEW x \in DOMAIN writes, x > w PROVE writes[x].base >= w /\ Rule(x) # Rule(w)
  <2>1. x \in DOMAIN writes' /\ writes'[x].base = writes[x].base
    BY DEF Grown
  <2> QED BY <1>1, <1>3, <1>5, <2>1 DEF Undisturbed
<1>6. p.rules[Rule(w)] = proposals[writes[w].n].text
  BY <1>1, <1>4, <1>5 DEF Carries, Undisturbed
<1> QED BY <1>1, <1>3, <1>6

\* What a call knows stays true while others work,
LEMMA CallOn ==
  ASSUME KeeperInv, Grown, NEW v, CallFine(v)
  PROVE  CallFine(v)'
<1>1. ASSUME NEW contents, AllCited(contents) PROVE AllCited(contents)'
  BY <1>1 DEF AllCited, Grown
<1>2. ASSUME NEW d, NEW n, ApprovedBy(d, n) PROVE ApprovedBy(d, n)'
  BY <1>2 DEF ApprovedBy, Grown
<1>3. v.pc \in Drawing => v.rule \in GuardIds /\ AllCited(v.package)' /\ AllCited(v.verified)'
  BY <1>1 DEF CallFine
<1>4. v.pc \in {"check", "refs", "record"} \cup Applying =>
        /\ v.n \in DOMAIN proposals' /\ v.purpose \in {"record", "read"}
        /\ v.purpose = "read" => ApprovedBy(v.d, v.n)'
  BY <1>2 DEF CallFine, Grown
<1>5. v.pc \in {"refs"} \cup Applying => v.base \in Nat /\ v.base <= Len(writes')
  BY DEF CallFine, Grown
<1>6. ASSUME v.n \in DOMAIN proposals PROVE proposals'[v.n] = proposals[v.n] /\ ProposalFine(proposals[v.n])
  BY <1>6 DEF Grown, KeeperInv
<1>7. v.pc = "refs" =>
        /\ v.held \subseteq DOMAIN proposals'[v.n].refs
        /\ \A f \in DOMAIN proposals'[v.n].refs \ v.held : f \in v.left /\ disk'[f] # proposals'[v.n].refs[f]
  <2> SUFFICES ASSUME v.pc = "refs"
               PROVE  /\ v.held \subseteq DOMAIN proposals'[v.n].refs
                      /\ \A f \in DOMAIN proposals'[v.n].refs \ v.held : f \in v.left /\ disk'[f] # proposals'[v.n].refs[f]
    OBVIOUS
  <2>1. proposals'[v.n] = proposals[v.n] /\ AllCited(proposals[v.n].refs)
    BY <1>6 DEF CallFine, ProposalFine
  <2>2. \A f \in DOMAIN proposals[v.n].refs \ v.held : f \in v.left /\ disk[f] # proposals[v.n].refs[f]
    BY DEF CallFine
  <2>3. \A f \in DOMAIN proposals[v.n].refs : Cited(f, proposals[v.n].refs[f])
    BY <2>1 DEF AllCited
  <2>4. \A f \in DOMAIN proposals[v.n].refs \ v.held : disk'[f] # proposals[v.n].refs[f]
    BY <2>2, <2>3 DEF Grown
  <2> QED BY <2>1, <2>2, <2>4 DEF CallFine
<1>8. v.pc \in Applying => v.purpose = "read" /\ v.held = DOMAIN proposals'[v.n].refs
  BY <1>6 DEF CallFine
<1>9. v.pc \in {"truncate", "write"} =>
        Json(v.seen) /\ DiffHolds(v.seen, proposals[v.n])' /\ Carries(v.seen, v.base)'
  <2> SUFFICES ASSUME v.pc \in {"truncate", "write"}
               PROVE  Json(v.seen) /\ DiffHolds(v.seen, proposals[v.n])' /\ Carries(v.seen, v.base)'
    OBVIOUS
  <2>1. Json(v.seen) /\ DiffHolds(v.seen, proposals[v.n]) /\ Carries(v.seen, v.base)
    BY DEF CallFine
  <2>2. proposals'[v.n] = proposals[v.n] /\ v.base \in Nat /\ v.base <= Len(writes)
    BY <1>6 DEF CallFine, Applying
  <2>3. DiffHolds(v.seen, proposals[v.n])'
    BY <2>1, <2>2 DEF DiffHolds
  <2> QED BY <2>1, <2>2, <2>3, CarriesOn
<1>10. v.pc = "activate" => v.left \subseteq DOMAIN writes'
  BY DEF CallFine, Grown
<1> QED BY <1>3, <1>4, <1>5, <1>7, <1>8, <1>9, <1>10 DEF CallFine

\* and so does what is known of each write.
LEMMA WriteOn ==
  ASSUME KeeperInv, Grown, NEW w \in DOMAIN writes
  PROVE  WriteFine(w, writes[w])'
<1>1. WriteFine(w, writes[w])
  BY DEF KeeperInv
<1>2. proposals'[writes[w].n] = proposals[writes[w].n] /\ writes[w].n \in DOMAIN proposals'
  BY <1>1 DEF WriteFine, Grown
<1>3. ApprovedBy(writes[w].d, writes[w].n)'
  BY <1>1 DEF WriteFine, ApprovedBy, Grown
<1> QED BY <1>1, <1>2, <1>3 DEF WriteFine, Grown, DiffHolds, ApprovedBy

\* It is enough to look at what a step adds.
LEMMA GrownKeeps ==
  ASSUME KeeperInv, Grown, WorkspaceFine', profile' \in {Torn, Gone} \/ Json(profile'),
         IsSequence(proposals'), IsSequence(decisions'), IsSequence(writes'),
         \A n \in DOMAIN proposals' \ DOMAIN proposals : ProposalFine(proposals[n])',
         \A d \in DOMAIN decisions' \ DOMAIN decisions :
           /\ decisions'[d] = [n |-> decisions'[d].n, decision |-> decisions'[d].decision]
           /\ decisions'[d].n \in DOMAIN proposals',
         \A w \in DOMAIN writes' \ DOMAIN writes : WriteFine(w, writes[w])',
         DOMAIN call' = Callers, \A c \in Callers : call'[c] = call[c] \/ CallFine(call[c])',
         profile'.state = "json" => Carries(profile, Len(writes))'
  PROVE  KeeperInv'
<1>1. \A n \in DOMAIN proposals' : ProposalFine(proposals[n])'
  <2>1. ASSUME NEW n \in DOMAIN proposals PROVE ProposalFine(proposals[n])'
    <3>1. ProposalFine(proposals[n]) /\ proposals'[n] = proposals[n]
      BY DEF KeeperInv, Grown
    <3> QED BY <3>1 DEF ProposalFine, AllCited, Grown
  <2> QED BY <2>1
<1>2. \A d \in DOMAIN decisions' :
        /\ decisions'[d] = [n |-> decisions'[d].n, decision |-> decisions'[d].decision]
        /\ decisions'[d].n \in DOMAIN proposals'
  <2>1. ASSUME NEW d \in DOMAIN decisions
        PROVE  /\ decisions'[d] = [n |-> decisions'[d].n, decision |-> decisions'[d].decision]
               /\ decisions'[d].n \in DOMAIN proposals'
    BY DEF KeeperInv, Grown
  <2> QED BY <2>1
<1>3. \A w \in DOMAIN writes' : WriteFine(w, writes[w])'
  BY WriteOn
<1>4. ASSUME NEW c \in Callers PROVE CallFine(call[c])'
  <2>1. PICK v : v = call[c] /\ CallFine(v)
    BY DEF KeeperInv
  <2>2. CallFine(v)'
    BY <2>1, CallOn
  <2>3. CASE call'[c] = call[c]
    <3>1. call'[c] = v
      BY <2>1, <2>3
    <3> QED BY <2>2, <3>1 DEF CallFine, Carries, AllCited
  <2> QED BY <2>3
<1>5. saves' \in Nat
  BY DEF Grown
<1> QED BY <1>1, <1>2, <1>3, <1>4, <1>5 DEF KeeperInv

\* Setting one call leaves the others.
LEMMA SetDoes ==
  ASSUME KeeperInv, NEW c \in Callers, NEW rec, Set(c, rec)
  PROVE  DOMAIN call' = Callers /\ call'[c] = rec /\ \A b \in Callers \ {c} : call'[b] = call[b]
BY DEF KeeperInv, Set

\* A step that changes no file and no list is a growth, if an idle one.
LEMMA GrownIfQuiet ==
  ASSUME KeeperInv, UNCHANGED <<disk, edits, proposals, decisions, writes, saves>>
  PROVE  Grown /\ WorkspaceFine'
<1>1. Len(writes) \in Nat /\ DOMAIN writes = 1..Len(writes)
  BY LenOf DEF KeeperInv
<1>2. WorkspaceFine'
  BY DEF KeeperInv, WorkspaceFine
<1>3. \A f, content : Cited(f, content) => Cited(f, content)'
  BY DEF Cited
<1> QED BY <1>1, <1>2, <1>3 DEF Grown, KeeperInv

\* A step of one call that changes nothing else.
LEMMA QuietKeeps ==
  ASSUME KeeperInv, Quiet, NEW c \in Callers, NEW rec, Set(c, rec), CallFine(rec)
  PROVE  KeeperInv'
<1>1. DOMAIN call' = Callers /\ call'[c] = rec /\ \A b \in Callers \ {c} : call'[b] = call[b]
  BY SetDoes
<1>2. Grown /\ WorkspaceFine'
  BY GrownIfQuiet DEF Quiet
<1>3. CallFine(rec)'
  BY <1>2, CallOn
<1>4. CallFine(call[c])'
  BY <1>1, <1>3 DEF CallFine, Carries, AllCited
<1>5. \A b \in Callers : call'[b] = call[b] \/ CallFine(call[b])'
  BY <1>1, <1>4
<1>6. profile'.state = "json" => Carries(profile, Len(writes))'
  BY DEF Quiet, KeeperInv, Carries, Undisturbed, Rule
<1> QED BY <1>1, <1>2, <1>5, <1>6, GrownKeeps DEF Quiet, KeeperInv

\* A caller without a call knows nothing, which is fine.
LEMMA NoCallFine ==
  /\ CallFine(NoCall) /\ DOMAIN NoCall = CallFields
BY DEF NoCall, CallFine, CallFields, Drawing, Applying

\* A call that returns keeps the invariant;
LEMMA ReturnKeeps ==
  ASSUME KeeperInv, Quiet, NEW c \in Callers, Return(c)
  PROVE  KeeperInv'
BY NoCallFine, QuietKeeps DEF Return

\* A readable file has a content that can be cited.
LEMMA ReadableCited ==
  ASSUME WorkspaceFine, NEW f \in Evidence, Readable(f)
  PROVE  Cited(f, disk[f])
BY GatekeeperAssumption DEF WorkspaceFine, Readable, IsFile, Cited

-----------------------------------------------------------------------------
(* Drawing up a proposal *)

\* so does the inspection whose evidence is to be proposed,
LEMMA JudgeKeeps ==
  ASSUME KeeperInv, NEW c \in Callers, Judge(c)
  PROVE  KeeperInv'
<1>1. PICK rule, text, package :
        /\ rule \in GuardIds /\ text \in Texts
        /\ Set(c, [NoCall EXCEPT !.pc = "judged", !.rule = rule, !.text = text, !.package = package])
        /\ package = [f \in {g \in Evidence : Readable(g)} |-> disk[f]]
  BY DEF Judge
<1>2. AllCited(package) /\ rule \in GuardIds
  BY <1>1, ReadableCited DEF AllCited, KeeperInv
<1>3. PICK rec : rec = [NoCall EXCEPT !.pc = "judged", !.rule = rule, !.text = text, !.package = package]
  OBVIOUS
<1>4. DOMAIN rec = CallFields /\ rec.pc = "judged" /\ rec.rule = rule /\ rec.package = package /\ rec.verified = << >>
  BY <1>3 DEF NoCall, CallFields
<1>5. AllCited(<< >>)
  BY DEF AllCited
<1>6. CallFine(rec)
  BY <1>2, <1>4, <1>5 DEF CallFine, Drawing, Applying
<1> QED BY <1>1, <1>3, <1>6, QuietKeeps DEF Judge

\* a draft that is refused or accepted,
LEMMA ProposeKeeps ==
  ASSUME KeeperInv, NEW c \in Callers, Propose(c)
  PROVE  KeeperInv'
<1>1. CASE Return(c)
  BY <1>1, ReturnKeeps DEF Propose
<1>2. CASE Set(c, [call[c] EXCEPT !.pc = "verify", !.left = DOMAIN call[c].package])
  <2>1. PICK v : v = call[c] /\ CallFine(v) /\ v.pc = "judged"
    BY DEF KeeperInv, Propose
  <2>2. PICK rec : rec = [v EXCEPT !.pc = "verify", !.left = DOMAIN v.package]
    OBVIOUS
  <2>3. DOMAIN rec = CallFields /\ rec.pc = "verify" /\ rec.rule = v.rule /\ rec.package = v.package
        /\ rec.verified = v.verified /\ rec.left = DOMAIN v.package
    BY <2>1, <2>2 DEF CallFine, CallFields
  <2>4. CallFine(rec)
    BY <2>1, <2>3 DEF CallFine, Drawing, Applying
  <2> QED BY <1>2, <2>1, <2>2, <2>4, QuietKeeps DEF Propose
<1> QED BY <1>1, <1>2 DEF Propose

\* A step of drawing that leaves the draft as it is.
LEMMA DrawingKeeps ==
  ASSUME KeeperInv, Quiet, NEW c \in Callers, call[c].pc \in Drawing,
         NEW rec, Set(c, rec), DOMAIN rec = CallFields, rec.pc \in Drawing \ {"verify"},
         rec.rule = call[c].rule, rec.package = call[c].package, rec.verified = call[c].verified
  PROVE  KeeperInv'
<1>1. PICK v : v = call[c] /\ CallFine(v) /\ v.pc \in Drawing
  BY DEF KeeperInv
<1>2. rec.rule \in GuardIds /\ AllCited(rec.package) /\ AllCited(rec.verified)
  BY <1>1 DEF CallFine
<1>3. CallFine(rec)
  BY <1>2 DEF CallFine, Drawing, Applying
<1> QED BY <1>3, QuietKeeps

\* the verification of its evidence,
LEMMA VerifyKeeps ==
  ASSUME KeeperInv, NEW c \in Callers, VerifyEvidence(c)
  PROVE  KeeperInv'
<1>1. PICK v : v = call[c] /\ CallFine(v) /\ v.pc = "verify"
  BY DEF KeeperInv, VerifyEvidence
<1>2. DOMAIN v = CallFields /\ v.rule \in GuardIds /\ AllCited(v.package) /\ AllCited(v.verified)
      /\ v.left \subseteq DOMAIN v.package
  BY <1>1 DEF CallFine, Drawing
<1>3. ASSUME NEW left, left \subseteq DOMAIN v.package, NEW verified, AllCited(verified),
             Set(c, [v EXCEPT !.left = left, !.verified = verified])
      PROVE  KeeperInv'
  <2>1. PICK rec : rec = [v EXCEPT !.left = left, !.verified = verified]
    OBVIOUS
  <2>2. DOMAIN rec = CallFields /\ rec.pc = "verify" /\ rec.rule = v.rule /\ rec.package = v.package
        /\ rec.verified = verified /\ rec.left = left
    BY <1>1, <1>2, <2>1 DEF CallFields
  <2>3. CallFine(rec)
    BY <1>2, <1>3, <2>2 DEF CallFine, Drawing, Applying
  <2> QED BY <1>3, <2>1, <2>3, QuietKeeps DEF VerifyEvidence
<1>4. ASSUME NEW f, f = First(v.left), v.left # {},
             Set(c, [v EXCEPT !.left = @ \ {f},
                       !.verified = IF Readable(f) /\ disk[f] = v.package[f] THEN With(@, f) ELSE @])
      PROVE  KeeperInv'
  <2>1. PICK verified : verified = IF Readable(f) /\ disk[f] = v.package[f] THEN With(v.verified, f) ELSE v.verified
    OBVIOUS
  <2>2. [v EXCEPT !.left = @ \ {f}, !.verified = IF Readable(f) /\ disk[f] = v.package[f] THEN With(@, f) ELSE @]
        = [v EXCEPT !.left = v.left \ {f}, !.verified = verified]
    BY <1>2, <2>1 DEF CallFields
  <2>3. f \in v.left
    BY <1>4 DEF First
  <2>4. f \in Evidence
    BY <1>2, <2>3 DEF AllCited, Cited
  <2>5. ASSUME Readable(f) PROVE AllCited(With(v.verified, f))
    <3>1. Cited(f, disk[f])
      BY <2>4, <2>5, ReadableCited DEF KeeperInv
    <3> QED BY <1>2, <3>1 DEF AllCited, With
  <2>6. AllCited(verified)
    BY <1>2, <2>1, <2>5
  <2>7. v.left \ {f} \subseteq DOMAIN v.package
    BY <1>2
  <2> QED BY <1>3, <1>4, <2>2, <2>6, <2>7
<1>5. ASSUME Set(c, [v EXCEPT !.pc = "load"]) PROVE KeeperInv'
  <2>1. PICK rec : rec = [v EXCEPT !.pc = "load"]
    OBVIOUS
  <2>2. DOMAIN rec = CallFields /\ rec.pc = "load" /\ rec.rule = v.rule /\ rec.package = v.package
        /\ rec.verified = v.verified
    BY <1>2, <2>1 DEF CallFields
  <2> QED BY <1>1, <1>5, <2>1, <2>2, DrawingKeeps DEF VerifyEvidence, Drawing
<1> QED BY <1>1, <1>4, <1>5, ReturnKeeps DEF VerifyEvidence

\* the profile that is read for its diff,
LEMMA LoadKeeps ==
  ASSUME KeeperInv, NEW c \in Callers, LoadProfile(c)
  PROVE  KeeperInv'
<1>1. PICK v : v = call[c] /\ CallFine(v) /\ v.pc = "load"
  BY DEF KeeperInv, LoadProfile
<1>2. ASSUME Set(c, [v EXCEPT !.pc = "ref", !.seen = profile]) PROVE KeeperInv'
  <2>1. PICK rec : rec = [v EXCEPT !.pc = "ref", !.seen = profile]
    OBVIOUS
  <2>2. DOMAIN rec = CallFields /\ rec.pc = "ref" /\ rec.rule = v.rule /\ rec.package = v.package
        /\ rec.verified = v.verified
    BY <1>1, <2>1 DEF CallFields, CallFine
  <2> QED BY <1>1, <1>2, <2>1, <2>2, DrawingKeeps DEF LoadProfile, Drawing
<1> QED BY <1>1, <1>2, ReturnKeeps DEF LoadProfile

\* the reference to the profile,
LEMMA ReferenceKeeps ==
  ASSUME KeeperInv, NEW c \in Callers, HashReference(c)
  PROVE  KeeperInv'
<1>1. PICK v : v = call[c] /\ CallFine(v) /\ v.pc = "ref"
  BY DEF KeeperInv, HashReference
<1>2. ASSUME Set(c, [v EXCEPT !.pc = "target", !.ref = profile]) PROVE KeeperInv'
  <2>1. PICK rec : rec = [v EXCEPT !.pc = "target", !.ref = profile]
    OBVIOUS
  <2>2. DOMAIN rec = CallFields /\ rec.pc = "target" /\ rec.rule = v.rule /\ rec.package = v.package
        /\ rec.verified = v.verified
    BY <1>1, <2>1 DEF CallFields, CallFine
  <2> QED BY <1>1, <1>2, <2>1, <2>2, DrawingKeeps DEF HashReference, Drawing
<1> QED BY <1>1, <1>2, ReturnKeeps DEF HashReference

\* and the hash of the target, which completes the proposal.
LEMMA TargetKeeps ==
  ASSUME KeeperInv, NEW c \in Callers, HashTarget(c)
  PROVE  KeeperInv'
<1>1. PICK v : v = call[c] /\ CallFine(v) /\ v.pc = "target"
  BY DEF KeeperInv, HashTarget
<1>2. PICK made : made = [rule |-> v.rule, text |-> v.text, diff |-> Diff(v.seen, v.rule, v.text),
                          refs |-> v.verified, ref |-> v.ref, target |-> profile]
  OBVIOUS
<1>3. ProposalFine(made)
  BY <1>1, <1>2 DEF CallFine, Drawing, ProposalFine
<1>4. CASE proposals' = proposals
  BY <1>4, ReturnKeeps DEF HashTarget, Quiet
<1>5. CASE proposals' = Append(proposals, made)
  <2>1. /\ IsSequence(proposals') /\ DOMAIN proposals = 1..Len(proposals) /\ Len(proposals) \in Nat
        /\ DOMAIN proposals' = 1..(Len(proposals) + 1)
        /\ \A n \in DOMAIN proposals : n \in DOMAIN proposals' /\ proposals'[n] = proposals[n]
        /\ proposals'[Len(proposals) + 1] = made
    BY <1>5, AppendDoes DEF KeeperInv
  <2>2. Grown /\ WorkspaceFine'
    <3>1. Len(writes) \in Nat /\ DOMAIN writes = 1..Len(writes)
      BY LenOf DEF KeeperInv
    <3>2. WorkspaceFine'
      BY DEF KeeperInv, WorkspaceFine, HashTarget
    <3>3. \A f, content : Cited(f, content) => Cited(f, content)'
      BY DEF Cited, HashTarget
    <3> QED BY <2>1, <3>1, <3>2, <3>3 DEF Grown, KeeperInv, HashTarget
  <2>3. \A n \in DOMAIN proposals' \ DOMAIN proposals : ProposalFine(proposals[n])'
    <3>1. \A n \in DOMAIN proposals' \ DOMAIN proposals : proposals'[n] = made
      BY <2>1
    <3> QED BY <1>3, <2>2, <3>1 DEF ProposalFine, AllCited, Grown
  <2>4. DOMAIN call' = Callers /\ call'[c] = NoCall /\ \A b \in Callers \ {c} : call'[b] = call[b]
    BY SetDoes DEF HashTarget, Return
  <2>5. \A b \in Callers : call'[b] = call[b] \/ CallFine(call[b])'
    BY <2>4, NoCallFine, <2>2, CallOn DEF CallFine, Carries, AllCited
  <2>6. profile'.state = "json" => Carries(profile, Len(writes))'
    <3>1. ASSUME profile.state = "json" PROVE Carries(profile, Len(writes))'
      <4>1. PICK p, n : p = profile /\ n = Len(writes) /\ n \in Nat
        BY LenOf DEF KeeperInv
      <4>2. Carries(p, n)
        BY <3>1, <4>1 DEF KeeperInv
      <4>3. Carries(p, n)'
        BY <2>2, <4>1, <4>2, CarriesOn
      <4> QED BY <4>1, <4>3 DEF HashTarget, Carries
    <3> QED BY <3>1 DEF HashTarget
  <2> QED BY <2>1, <2>2, <2>3, <2>4, <2>5, <2>6, GrownKeeps DEF HashTarget, KeeperInv
<1> QED BY <1>1, <1>2, <1>4, <1>5 DEF HashTarget

-----------------------------------------------------------------------------
(* Revalidating a proposal *)

\* A call that enters the check of a proposal, to decide on it or to apply an approved one, keeps the invariant.
LEMMA EnterKeeps ==
  ASSUME KeeperInv, Quiet, NEW c \in Callers, NEW purpose \in {"record", "read"}, NEW n \in DOMAIN proposals, NEW d,
         purpose = "read" => ApprovedBy(d, n), Enter(c, purpose, n, d)
  PROVE  KeeperInv'
<1>1. PICK rec : rec = [NoCall EXCEPT !.pc = "check", !.purpose = purpose, !.n = n, !.d = d]
  OBVIOUS
<1>2. DOMAIN rec = CallFields /\ rec.pc = "check" /\ rec.purpose = purpose /\ rec.n = n /\ rec.d = d
  BY <1>1 DEF NoCall, CallFields
<1>3. CallFine(rec)
  BY <1>2 DEF CallFine, Drawing, Applying
<1> QED BY <1>1, <1>3, QuietKeeps DEF Enter

\* A decision that is considered keeps the invariant,
LEMMA ConsiderKeeps ==
  ASSUME KeeperInv, NEW c \in Callers, Consider(c)
  PROVE  KeeperInv'
BY EnterKeeps DEF Consider

\* The decision names the proposal itself.
LEMMA ApplyKeeps ==
  ASSUME KeeperInv, NEW c \in Callers, Apply(c)
  PROVE  KeeperInv'
<1>1. PICK d \in DOMAIN decisions, n \in DOMAIN proposals : Fits(d, n) /\ Enter(c, "read", n, d)
  BY DEF Apply
<1>2. decisions[d] = [n |-> decisions[d].n, decision |-> decisions[d].decision]
  BY DEF KeeperInv
<1>3. decisions[d].n = n /\ decisions[d].decision = "APPROVED"
  BY <1>1 DEF Fits
<1>4. ApprovedBy(d, n)
  BY <1>2, <1>3 DEF ApprovedBy
<1> QED BY <1>1, <1>4, EnterKeeps DEF Apply

\* What no longer has the cited content when the target is checked is still to be read.
LEMMA CheckTargetKeeps ==
  ASSUME KeeperInv, NEW c \in Callers, CheckTarget(c)
  PROVE  KeeperInv'
<1>1. PICK v : v = call[c] /\ CallFine(v) /\ v.pc = "check"
  BY DEF KeeperInv, CheckTarget
<1>2. PICK proposal : proposal = proposals[v.n]
  OBVIOUS
<1>3. v.n \in DOMAIN proposals /\ AllCited(proposal.refs)
  BY <1>1, <1>2 DEF CallFine, KeeperInv, ProposalFine
<1>4. PICK held, base : held = {f \in DOMAIN proposal.refs : Holds(proposal, f)} /\ base = Len(writes)
  OBVIOUS
<1>5. PICK rec : rec = [v EXCEPT !.pc = "refs", !.left = Checked(proposal), !.base = base, !.held = held]
  OBVIOUS
<1>6. CASE Set(c, rec)
  <2>1. /\ DOMAIN rec = CallFields /\ rec.pc = "refs" /\ rec.left = Checked(proposal)
        /\ rec.base = base /\ rec.held = held /\ rec.n = v.n /\ rec.d = v.d /\ rec.purpose = v.purpose
    BY <1>1, <1>5 DEF CallFine, CallFields
  <2>2. base \in Nat /\ base <= Len(writes)
    BY <1>4, LenOf DEF KeeperInv
  <2>3. ASSUME NEW f \in DOMAIN proposal.refs \ held PROVE f \in rec.left /\ disk[f] # proposal.refs[f]
    <3>1. Cited(f, proposal.refs[f])
      BY <1>3 DEF AllCited
    <3>2. f \in Files /\ f # Itself
      BY <3>1, GatekeeperAssumption DEF Cited
    <3>3. ~(Readable(f) /\ disk[f] = proposal.refs[f])
      BY <1>4, <2>3, <3>2 DEF Holds
    <3>4. proposal.refs[f] # Absent /\ proposal.refs[f].kind \notin {Sealed, Locked}
      BY <3>1 DEF Cited
    <3>5. disk[f] # proposal.refs[f]
      BY <3>2, <3>3, <3>4 DEF Readable, IsFile
    <3> QED BY <2>1, <2>3, <3>5 DEF Checked, Refs
  <2>4. CallFine(rec)
    BY <1>1, <1>2, <1>4, <2>1, <2>2, <2>3 DEF CallFine, Drawing, Applying
  <2> QED BY <1>6, <2>4, QuietKeeps DEF CheckTarget
<1>7. rec = [call[c] EXCEPT !.pc = "refs", !.left = Checked(proposals[call[c].n]), !.base = Len(writes),
                            !.held = {f \in DOMAIN proposals[call[c].n].refs : Holds(proposals[call[c].n], f)}]
  BY <1>1, <1>2, <1>4, <1>5
<1>8. Return(c) \/ Set(c, rec)
  BY <1>7 DEF CheckTarget
<1> QED BY <1>6, <1>8, ReturnKeeps DEF CheckTarget

\* A file that is read with the cited content had it when the target was checked, as no
\* edit brings an earlier content back.
LEMMA CheckReferenceKeeps ==
  ASSUME KeeperInv, NEW c \in Callers, CheckReference(c)
  PROVE  KeeperInv'
<1>1. PICK v : v = call[c] /\ CallFine(v) /\ v.pc = "refs"
  BY DEF KeeperInv, CheckReference
<1>2. PICK proposal : proposal = proposals[v.n]
  OBVIOUS
<1>3. /\ v.n \in DOMAIN proposals /\ AllCited(proposal.refs) /\ DOMAIN v = CallFields
      /\ v.held \subseteq DOMAIN proposal.refs
      /\ \A f \in DOMAIN proposal.refs \ v.held : f \in v.left /\ disk[f] # proposal.refs[f]
      /\ v.purpose \in {"record", "read"} /\ (v.purpose = "read" => ApprovedBy(v.d, v.n))
      /\ v.base \in Nat /\ v.base <= Len(writes)
  BY <1>1, <1>2 DEF CallFine, KeeperInv, ProposalFine
<1>4. ASSUME NEW f, f = First(v.left), v.left # {}, Holds(proposal, f), Set(c, [v EXCEPT !.left = @ \ {f}])
      PROVE  KeeperInv'
  <2>1. PICK rec : rec = [v EXCEPT !.left = @ \ {f}]
    OBVIOUS
  <2>2. /\ DOMAIN rec = CallFields /\ rec.pc = "refs" /\ rec.left = v.left \ {f}
        /\ rec.base = v.base /\ rec.held = v.held /\ rec.n = v.n /\ rec.d = v.d /\ rec.purpose = v.purpose
    BY <1>1, <1>3, <2>1 DEF CallFields
  <2>3. f \notin DOMAIN proposal.refs \ v.held
    <3>1. CASE f = Itself
      BY <1>3, <3>1, GatekeeperAssumption DEF AllCited, Cited
    <3>2. CASE f # Itself
      BY <1>3, <1>4, <3>2 DEF Holds
    <3> QED BY <3>1, <3>2
  <2>4. CallFine(rec)
    BY <1>2, <1>3, <2>2, <2>3 DEF CallFine, Drawing, Applying
  <2> QED BY <1>4, <2>1, <2>4, QuietKeeps DEF CheckReference
<1>5. ASSUME v.left = {}, Set(c, [v EXCEPT !.pc = v.purpose])
      PROVE  KeeperInv'
  <2>1. PICK rec : rec = [v EXCEPT !.pc = v.purpose]
    OBVIOUS
  <2>2. /\ DOMAIN rec = CallFields /\ rec.pc = v.purpose
        /\ rec.base = v.base /\ rec.held = v.held /\ rec.n = v.n /\ rec.d = v.d /\ rec.purpose = v.purpose
    BY <1>3, <2>1 DEF CallFields
  <2>3. v.held = DOMAIN proposal.refs
    BY <1>3, <1>5
  <2>4. CallFine(rec)
    BY <1>2, <1>3, <2>2, <2>3 DEF CallFine, Drawing, Applying
  <2> QED BY <1>5, <2>1, <2>4, QuietKeeps DEF CheckReference
<1> QED BY <1>1, <1>2, <1>4, <1>5, ReturnKeeps DEF CheckReference

\* one that is recorded does,
LEMMA RecordKeeps ==
  ASSUME KeeperInv, NEW c \in Callers, RecordDecision(c)
  PROVE  KeeperInv'
<1>1. PICK v : v = call[c] /\ CallFine(v) /\ v.pc = "record"
  BY DEF KeeperInv, RecordDecision
<1>2. v.n \in DOMAIN proposals
  BY <1>1 DEF CallFine
<1>3. PICK decision : decisions' = decisions \/ decisions' = Append(decisions, [n |-> v.n, decision |-> decision])
  BY <1>1 DEF RecordDecision
<1>4. CASE decisions' = decisions
  BY <1>4, ReturnKeeps DEF RecordDecision, Quiet
<1>5. CASE decisions' = Append(decisions, [n |-> v.n, decision |-> decision])
  <2>1. PICK made : made = [n |-> v.n, decision |-> decision]
    OBVIOUS
  <2>2. /\ IsSequence(decisions') /\ DOMAIN decisions = 1..Len(decisions) /\ Len(decisions) \in Nat
        /\ DOMAIN decisions' = 1..(Len(decisions) + 1)
        /\ \A n \in DOMAIN decisions : n \in DOMAIN decisions' /\ decisions'[n] = decisions[n]
        /\ decisions'[Len(decisions) + 1] = made
    BY <1>5, <2>1, AppendDoes DEF KeeperInv
  <2>3. Grown /\ WorkspaceFine'
    <3>1. Len(writes) \in Nat /\ DOMAIN writes = 1..Len(writes)
      BY LenOf DEF KeeperInv
    <3>2. WorkspaceFine'
      BY DEF KeeperInv, WorkspaceFine, RecordDecision
    <3>3. \A f, content : Cited(f, content) => Cited(f, content)'
      BY DEF Cited, RecordDecision
    <3> QED BY <2>2, <3>1, <3>2, <3>3 DEF Grown, KeeperInv, RecordDecision
  <2>4. \A d \in DOMAIN decisions' \ DOMAIN decisions :
          /\ decisions'[d] = [n |-> decisions'[d].n, decision |-> decisions'[d].decision]
          /\ decisions'[d].n \in DOMAIN proposals'
    <3>1. \A d \in DOMAIN decisions' \ DOMAIN decisions : decisions'[d] = made
      BY <2>2
    <3>2. proposals' = proposals
      BY DEF RecordDecision
    <3> QED BY <1>2, <2>1, <3>1, <3>2
  <2>5. DOMAIN call' = Callers /\ call'[c] = NoCall /\ \A b \in Callers \ {c} : call'[b] = call[b]
    BY SetDoes DEF RecordDecision, Return
  <2>6. \A b \in Callers : call'[b] = call[b] \/ CallFine(call[b])'
    BY <2>5, NoCallFine, <2>3, CallOn DEF CallFine, Carries, AllCited
  <2>7. profile'.state = "json" => Carries(profile, Len(writes))'
    BY DEF RecordDecision, KeeperInv, Carries, Undisturbed, Rule
  <2> QED BY <2>2, <2>3, <2>4, <2>5, <2>6, <2>7, GrownKeeps DEF RecordDecision, KeeperInv
<1> QED BY <1>3, <1>4, <1>5

-----------------------------------------------------------------------------
(* Applying a proposal *)

\* A call that goes on applying, while proposals, decisions and writes stay.
LEMMA ReadKeeps ==
  ASSUME KeeperInv, NEW c \in Callers, ReadProfile(c)
  PROVE  KeeperInv'
<1>1. PICK v : v = call[c] /\ CallFine(v) /\ v.pc = "read"
  BY DEF KeeperInv, ReadProfile
<1>2. PICK proposal : proposal = proposals[v.n]
  OBVIOUS
<1>3. ASSUME profile.state = "json", DiffHolds(profile, proposal), Set(c, [v EXCEPT !.pc = "truncate", !.seen = profile])
      PROVE  KeeperInv'
  <2>1. PICK rec : rec = [v EXCEPT !.pc = "truncate", !.seen = profile]
    OBVIOUS
  <2>2. /\ DOMAIN rec = CallFields /\ rec.pc = "truncate" /\ rec.seen = profile
        /\ rec.base = v.base /\ rec.held = v.held /\ rec.n = v.n /\ rec.d = v.d /\ rec.purpose = v.purpose
    BY <1>1, <2>1 DEF CallFine, CallFields
  <2>3. Json(profile)
    BY <1>3 DEF KeeperInv, Torn, Gone
  <2>4. Carries(profile, Len(writes)) /\ v.base \in Nat /\ v.base <= Len(writes)
    BY <1>1, <1>3 DEF KeeperInv, CallFine, Applying
  <2>5. Carries(profile, v.base)
    <3>1. Len(writes) \in Nat /\ DOMAIN writes = 1..Len(writes)
      BY LenOf DEF KeeperInv
    <3> QED BY <2>4, <3>1 DEF Carries
  <2>6. CallFine(rec)
    BY <1>1, <1>2, <1>3, <2>2, <2>3, <2>4, <2>5 DEF CallFine, Drawing, Applying
  <2> QED BY <1>3, <2>1, <2>6, QuietKeeps DEF ReadProfile
<1> QED BY <1>1, <1>2, <1>3, ReturnKeeps DEF ReadProfile

\* a profile that is opened and thereby emptied,
LEMMA TruncateKeeps ==
  ASSUME KeeperInv, NEW c \in Callers, Truncate(c)
  PROVE  KeeperInv'
<1>1. PICK v : v = call[c] /\ CallFine(v) /\ v.pc = "truncate"
  BY DEF KeeperInv, Truncate
<1>2. PICK rec : rec = [v EXCEPT !.pc = "write"]
  OBVIOUS
<1>3. /\ DOMAIN rec = CallFields /\ rec.pc = "write" /\ rec.seen = v.seen
      /\ rec.base = v.base /\ rec.held = v.held /\ rec.n = v.n /\ rec.d = v.d /\ rec.purpose = v.purpose
  BY <1>1, <1>2 DEF CallFine, CallFields
<1>4. CallFine(rec)
  BY <1>1, <1>3 DEF CallFine, Drawing, Applying
<1>5. Grown /\ WorkspaceFine'
  BY GrownIfQuiet DEF Truncate
<1>6. Set(c, rec)
  BY <1>1, <1>2 DEF Truncate
<1>7. DOMAIN call' = Callers /\ call'[c] = rec /\ \A b \in Callers \ {c} : call'[b] = call[b]
  BY <1>6, SetDoes
<1>8. CallFine(rec)'
  BY <1>4, <1>5, CallOn
<1>9. CallFine(call[c])'
  BY <1>7, <1>8 DEF CallFine, Carries, AllCited
<1>10. \A b \in Callers : call'[b] = call[b] \/ CallFine(call[b])'
  BY <1>7, <1>9
<1>11. profile' = Torn /\ profile'.state # "json"
  BY DEF Truncate, Torn
<1> QED BY <1>5, <1>7, <1>10, <1>11, GrownKeeps DEF Truncate, KeeperInv

\* The profile that is written still has every rule that the profile read had, and the one
\* proposed.
LEMMA WrittenShape ==
  ASSUME NEW p, Json(p), NEW rule \in GuardIds, NEW text
  PROVE  /\ Json(Written(p, rule, text))
         /\ \A r \in GuardIds : Written(p, rule, text).rules[r] = IF r = rule THEN text ELSE p.rules[r]
<1>1. PICK rules : rules = [p.rules EXCEPT ![rule] = text]
  OBVIOUS
<1>2. DOMAIN rules = GuardIds /\ \A r \in GuardIds : rules[r] = IF r = rule THEN text ELSE p.rules[r]
  BY <1>1 DEF Json
<1>3. PICK q : q = [p EXCEPT !.rules[rule] = text]
  OBVIOUS
<1>4. DOMAIN q = {"state", "rules", "rest", "layout"} /\ q.state = "json" /\ q.rules = rules
  BY <1>1, <1>3 DEF Json
<1>5. PICK r : r = [q EXCEPT !.layout = "dumped"]
  OBVIOUS
<1>6. DOMAIN r = {"state", "rules", "rest", "layout"} /\ r.state = "json" /\ r.rules = rules
  BY <1>4, <1>5
<1>7. r = Written(p, rule, text)
  BY <1>3, <1>5 DEF Written, Updated
<1> QED BY <1>2, <1>6, <1>7 DEF Json

\* one that is written,
LEMMA WriteKeeps ==
  ASSUME KeeperInv, NEW c \in Callers, WriteProfile(c)
  PROVE  KeeperInv'
<1>1. PICK v : v = call[c] /\ CallFine(v) /\ v.pc = "write"
  BY DEF KeeperInv, WriteProfile
<1>2. PICK proposal : proposal = proposals[v.n]
  OBVIOUS
<1>3. /\ v.n \in DOMAIN proposals /\ ProposalFine(proposal) /\ ApprovedBy(v.d, v.n)
      /\ v.base \in Nat /\ v.base <= Len(writes) /\ v.held = DOMAIN proposal.refs
      /\ Json(v.seen) /\ DiffHolds(v.seen, proposal) /\ Carries(v.seen, v.base)
  BY <1>1, <1>2 DEF CallFine, Applying, KeeperInv
<1>4. PICK made : made = [n |-> v.n, d |-> v.d, read |-> v.seen, status |-> "none",
                          base |-> v.base, held |-> v.held, saves |-> saves]
  OBVIOUS
<1>5. /\ DOMAIN made = {"n", "d", "read", "status", "base", "held", "saves"} /\ made.n = v.n /\ made.d = v.d
      /\ made.read = v.seen /\ made.base = v.base /\ made.held = v.held /\ made.saves = saves
  BY <1>4
<1>6. writes' = Append(writes, made)
  BY <1>1, <1>4 DEF WriteProfile
<1>7. /\ IsSequence(writes') /\ Len(writes') = Len(writes) + 1 /\ Len(writes) \in Nat
      /\ DOMAIN writes = 1..Len(writes) /\ DOMAIN writes' = 1..(Len(writes) + 1)
      /\ \A w \in DOMAIN writes : w \in DOMAIN writes' /\ writes'[w] = writes[w]
      /\ writes'[Len(writes) + 1] = made
  BY <1>6, AppendDoes DEF KeeperInv
<1>8. Grown /\ WorkspaceFine'
  <2>1. WorkspaceFine'
    BY DEF KeeperInv, WorkspaceFine, WriteProfile
  <2>2. \A f, content : Cited(f, content) => Cited(f, content)'
    BY DEF Cited, WriteProfile
  <2> QED BY <1>7, <2>1, <2>2 DEF Grown, KeeperInv, WriteProfile
<1>9. \A w \in DOMAIN writes' \ DOMAIN writes : WriteFine(w, writes[w])'
  <2>1. \A w \in DOMAIN writes' \ DOMAIN writes : w = Len(writes) + 1 /\ writes'[w] = made
    BY <1>7
  <2>2. proposals' = proposals /\ decisions' = decisions /\ saves' = saves /\ saves \in Nat
    BY DEF WriteProfile, KeeperInv
  <2> QED BY <1>2, <1>3, <1>5, <1>7, <2>1, <2>2 DEF WriteFine, ApprovedBy, DiffHolds
<1>10. profile' = Written(v.seen, proposal.rule, proposal.text)
  BY <1>1, <1>2 DEF WriteProfile
<1>11. /\ Json(profile')
       /\ \A r \in GuardIds : profile'.rules[r] = IF r = proposal.rule THEN proposal.text ELSE v.seen.rules[r]
  BY <1>3, <1>10, WrittenShape DEF ProposalFine
<1>12. Carries(v.seen, v.base)'
  BY <1>3, <1>8, CarriesOn
<1>13. Carries(profile, Len(writes))'
  <2>1. proposals' = proposals
    BY DEF WriteProfile
  <2> SUFFICES ASSUME NEW w \in DOMAIN writes', Undisturbed(w)'
               PROVE  profile'.rules[Rule(w)'] = proposals[writes'[w].n].text
    BY <2>1 DEF Carries
  <2>2. CASE w = Len(writes) + 1
    <3>1. Rule(w)' = proposal.rule /\ proposals[writes'[w].n] = proposal
      BY <1>2, <1>5, <1>7, <2>1, <2>2 DEF Rule
    <3> QED BY <1>3, <1>11, <3>1 DEF ProposalFine
  <2>3. CASE w # Len(writes) + 1
    <3>1. w \in DOMAIN writes /\ w < Len(writes) + 1
      BY <1>7, <2>3
    <3>2. PICK last : last = Len(writes) + 1
      OBVIOUS
    <3>3. last \in DOMAIN writes' /\ last > w /\ writes'[last] = made
      BY <1>7, <3>1, <3>2
    <3>4. v.base >= w /\ Rule(last)' # Rule(w)'
      BY <1>5, <3>3 DEF Undisturbed
    <3>5. Rule(last)' = proposal.rule
      BY <1>2, <1>5, <2>1, <3>3 DEF Rule
    <3>6. v.seen.rules[Rule(w)'] = proposals[writes'[w].n].text
      BY <1>3, <1>7, <1>12, <2>1, <3>1, <3>4 DEF Carries
    <3>7. Rule(w)' \in GuardIds
      <4>1. writes[w].n \in DOMAIN proposals /\ writes'[w] = writes[w]
        BY <1>7, <3>1 DEF KeeperInv, WriteFine
      <4> QED BY <2>1, <4>1 DEF Rule, KeeperInv, ProposalFine
    <3> QED BY <1>11, <3>4, <3>5, <3>6, <3>7
  <2> QED BY <2>2, <2>3
<1>14. PICK rec : rec = [v EXCEPT !.pc = "activate", !.left = {Len(writes) + 1}]
  OBVIOUS
<1>15. DOMAIN rec = CallFields /\ rec.pc = "activate" /\ rec.left = {Len(writes) + 1}
  BY <1>1, <1>14 DEF CallFine, CallFields
<1>16. Set(c, rec)
  BY <1>1, <1>14 DEF WriteProfile
<1>17. DOMAIN call' = Callers /\ call'[c] = rec /\ \A b \in Callers \ {c} : call'[b] = call[b]
  BY <1>16, SetDoes
<1>18. CallFine(call[c])'
  BY <1>7, <1>15, <1>17 DEF CallFine, Drawing, Applying
<1>19. \A b \in Callers : call'[b] = call[b] \/ CallFine(call[b])'
  BY <1>17, <1>18
<1> QED BY <1>7, <1>8, <1>9, <1>11, <1>13, <1>17, <1>19, GrownKeeps DEF WriteProfile, KeeperInv

\* and the activation that follows, whatever the validator says.
LEMMA ActivateKeeps ==
  ASSUME KeeperInv, NEW c \in Callers, Activate(c)
  PROVE  KeeperInv'
<1>1. PICK v : v = call[c] /\ CallFine(v) /\ v.pc = "activate"
  BY DEF KeeperInv, Activate
<1>2. PICK status \in {"APPLIED", "ACTIVATION_FAILED", "none"}, w \in v.left : writes' = [writes EXCEPT ![w].status = status]
  BY <1>1 DEF Activate
<1>3. w \in DOMAIN writes
  BY <1>1 DEF CallFine
<1>4. PICK made : made = [writes[w] EXCEPT !.status = status]
  OBVIOUS
<1>5. WriteFine(w, writes[w])
  BY <1>3 DEF KeeperInv
<1>6. /\ DOMAIN made = DOMAIN writes[w] /\ made.n = writes[w].n /\ made.d = writes[w].d
      /\ made.read = writes[w].read /\ made.base = writes[w].base /\ made.held = writes[w].held
      /\ made.saves = writes[w].saves
  BY <1>4, <1>5 DEF WriteFine
<1>7. writes' = [writes EXCEPT ![w] = made]
  BY <1>2, <1>4
<1>8. /\ IsSequence(writes') /\ Len(writes') = Len(writes) /\ DOMAIN writes' = DOMAIN writes
      /\ \A i \in DOMAIN writes : writes'[i] = IF i = w THEN made ELSE writes[i]
  BY <1>3, <1>7, ReplaceDoes DEF KeeperInv
<1>9. Grown /\ WorkspaceFine'
  <2>1. Len(writes) \in Nat /\ DOMAIN writes = 1..Len(writes)
    BY LenOf DEF KeeperInv
  <2>2. WorkspaceFine'
    BY DEF KeeperInv, WorkspaceFine, Activate
  <2>3. \A f, content : Cited(f, content) => Cited(f, content)'
    BY DEF Cited, Activate
  <2> QED BY <1>6, <1>8, <2>1, <2>2, <2>3 DEF Grown, KeeperInv, Activate
<1>10. DOMAIN call' = Callers /\ call'[c] = NoCall /\ \A b \in Callers \ {c} : call'[b] = call[b]
  BY SetDoes DEF Activate, Return
<1>11. \A b \in Callers : call'[b] = call[b] \/ CallFine(call[b])'
  BY <1>10, NoCallFine, <1>9, CallOn DEF CallFine, Carries, AllCited
<1>12. profile'.state = "json" => Carries(profile, Len(writes))'
  <2>1. ASSUME profile.state = "json" PROVE Carries(profile, Len(writes))'
    <3>1. PICK p, n : p = profile /\ n = Len(writes) /\ n \in Nat
      BY LenOf DEF KeeperInv
    <3>2. Carries(p, n)
      BY <2>1, <3>1 DEF KeeperInv
    <3>3. Carries(p, n)'
      BY <1>9, <3>1, <3>2, CarriesOn
    <3>4. profile' = p /\ Len(writes') = n
      BY <1>8, <3>1 DEF Activate
    <3> QED BY <3>3, <3>4 DEF Carries
  <2> QED BY <2>1 DEF Activate
<1> QED BY <1>8, <1>9, <1>10, <1>11, <1>12, GrownKeeps DEF Activate, KeeperInv

\* A call ends without an error, or its process is killed.
LEMMA KillKeeps ==
  ASSUME KeeperInv, NEW c \in Callers, Kill(c)
  PROVE  KeeperInv'
BY ReturnKeeps DEF Kill

-----------------------------------------------------------------------------
(* Users *)

\* A profile that a user saves, an older version perhaps, ends the claim of every write.
LEMMA EditProfileKeeps ==
  ASSUME KeeperInv, EditProfile
  PROVE  KeeperInv'
<1>1. profile' = Gone \/ Json(profile')
  <2>1. ASSUME profile' \in UserProfiles PROVE Json(profile')
    <3>1. /\ profile' = ProfileOf(profile'.rules, profile'.rest, profile'.layout)
          /\ DOMAIN profile'.rules = GuardIds
      BY <2>1, GatekeeperAssumption
    <3>2. PICK rules, rest, layout : rules = profile'.rules /\ rest = profile'.rest /\ layout = profile'.layout
      OBVIOUS
    <3>3. profile' = [state |-> "json", rules |-> rules, rest |-> rest, layout |-> layout]
      BY <3>1, <3>2 DEF ProfileOf
    <3> QED BY <3>1, <3>3 DEF Json
  <2> QED BY <2>1 DEF EditProfile
<1>2. Grown /\ WorkspaceFine'
  <2>1. Len(writes) \in Nat /\ DOMAIN writes = 1..Len(writes)
    BY LenOf DEF KeeperInv
  <2>2. WorkspaceFine'
    BY DEF KeeperInv, WorkspaceFine, EditProfile
  <2>3. \A f, content : Cited(f, content) => Cited(f, content)'
    BY DEF Cited, EditProfile, KeeperInv, WorkspaceFine
  <2> QED BY <2>1, <2>2, <2>3 DEF Grown, KeeperInv, EditProfile
<1>3. Carries(profile, Len(writes))'
  <2>1. \A w \in DOMAIN writes' : writes'[w].saves \in Nat /\ writes'[w].saves <= saves /\ saves' = saves + 1 /\ saves \in Nat
    BY DEF KeeperInv, WriteFine, EditProfile
  <2>2. \A w \in DOMAIN writes' : ~Undisturbed(w)'
    BY <2>1 DEF Undisturbed
  <2> QED BY <2>2 DEF Carries
<1> QED BY <1>1, <1>2, <1>3, GrownKeeps DEF EditProfile, KeeperInv

\* A file that was edited differs from whatever was cited before.
LEMMA UsersKeep ==
  ASSUME KeeperInv, Users
  PROVE  KeeperInv'
<1>1. PICK f, kind : <<f, kind>> \in Writings /\ EditFile(f, kind)
  <2>1. PICK w \in Writings : EditFile(w[1], w[2])
    BY DEF Users
  <2>2. w = <<w[1], w[2]>>
    BY WorkspaceAssumption
  <2> QED BY <2>1, <2>2
<1>2. f \in Files
  BY <1>1, WorkspaceAssumption
<1>3. PICK new : new = IF kind = "absent" THEN Absent ELSE [kind |-> kind, edition |-> edits + 1]
  OBVIOUS
<1>4. edits' = edits + 1 /\ edits \in Nat /\ disk' = [disk EXCEPT ![f] = new] /\ DOMAIN disk = Files
  BY <1>1, <1>3 DEF EditFile, KeeperInv, WorkspaceFine
<1>5. new = Absent \/ new.edition = edits + 1
  BY <1>3
<1>6. DOMAIN disk' = Files /\ disk'[f] = new /\ \A g \in Files \ {f} : disk'[g] = disk[g]
  BY <1>2, <1>4
<1>7. WorkspaceFine'
  <2>1. \A g \in Files : disk[g].edition \in Nat /\ disk[g].edition <= edits
    BY DEF KeeperInv, WorkspaceFine
  <2>2. new.edition \in Nat /\ new.edition <= edits + 1
    BY <1>4, <1>5 DEF Absent
  <2> QED BY <1>4, <1>6, <2>1, <2>2 DEF WorkspaceFine
<1>8. \A g, content : Cited(g, content) => Cited(g, content)' /\ (disk[g] # content => disk'[g] # content)
  <2>1. ASSUME NEW g, NEW content, Cited(g, content)
        PROVE  Cited(g, content)' /\ (disk[g] # content => disk'[g] # content)
    <3>1. content # Absent /\ content.edition \in Nat /\ content.edition <= edits /\ g \in Files
      BY <2>1, GatekeeperAssumption DEF Cited
    <3>2. Cited(g, content)'
      BY <1>4, <2>1 DEF Cited
    <3>3. new # content
      BY <1>4, <1>5, <3>1
    <3> QED BY <1>6, <3>1, <3>2, <3>3
  <2> QED BY <2>1
<1>9. UNCHANGED <<profile, proposals, decisions, call, writes, saves>>
  BY DEF Users
<1>10. Grown
  <2>1. Len(writes) \in Nat /\ DOMAIN writes = 1..Len(writes)
    BY LenOf DEF KeeperInv
  <2> QED BY <1>8, <1>9, <2>1 DEF Grown, KeeperInv
<1>11. profile'.state = "json" => Carries(profile, Len(writes))'
  BY <1>9 DEF KeeperInv, Carries, Undisturbed, Rule
<1> QED BY <1>7, <1>9, <1>10, <1>11, GrownKeeps DEF KeeperInv

-----------------------------------------------------------------------------
(* The gatekeeper beside users and audits *)

\* What the steps of audits leave as it is.
LEMMA AuditsKeep ==
  ASSUME KeeperInv, UNCHANGED keeperVars
  PROVE  KeeperInv'
<1>1. Grown /\ WorkspaceFine'
  BY GrownIfQuiet DEF keeperVars
<1>2. profile'.state = "json" => Carries(profile, Len(writes))'
  BY DEF keeperVars, KeeperInv, Carries, Undisturbed, Rule
<1> QED BY <1>1, <1>2, GrownKeeps DEF keeperVars, KeeperInv

\* An audit changes no file.
LEMMA AuditsRead ==
  ASSUME AuditNext
  PROVE  UNCHANGED <<disk, edits>>
BY DEF AuditNext, AuditStep, BeginAudit, FoundationGate, ProfileProject, LoadPack, Load, RunEntry, PackDone, Finish,
       Lookup, Continue

\* Every step of a call keeps the invariant.
LEMMA KeeperStepKeeps ==
  ASSUME KeeperInv, NEW c \in Callers, KeeperStep(c)
  PROVE  KeeperInv'
BY JudgeKeeps, ProposeKeeps, VerifyKeeps, LoadKeeps, ReferenceKeeps, TargetKeeps, ConsiderKeeps, CheckTargetKeeps,
   CheckReferenceKeeps, RecordKeeps, ApplyKeeps, ReadKeeps, TruncateKeeps, WriteKeeps, ActivateKeeps, KillKeeps
   DEF KeeperStep

\* The gatekeeper begins with its invariant.
LEMMA KeeperStarts ==
  ASSUME Init
  PROVE  KeeperInv
<1>1. WorkspaceFine
  BY StartAssumption DEF Init, WorkspaceFine
<1>2. Json(profile)
  <2>1. /\ profile = ProfileOf(profile.rules, profile.rest, profile.layout)
        /\ DOMAIN profile.rules = GuardIds
    BY GatekeeperAssumption DEF Init, KeeperInit
  <2>2. PICK rules, rest, layout : rules = profile.rules /\ rest = profile.rest /\ layout = profile.layout
    OBVIOUS
  <2>3. profile = [state |-> "json", rules |-> rules, rest |-> rest, layout |-> layout]
    BY <2>1, <2>2 DEF ProfileOf
  <2> QED BY <2>1, <2>3 DEF Json
<1>3. DOMAIN call = Callers /\ \A c \in Callers : CallFine(call[c])
  BY NoCallFine DEF Init, KeeperInit
<1>4. proposals = << >> /\ decisions = << >> /\ writes = << >> /\ saves = 0
  BY DEF Init, KeeperInit
<1> QED BY <1>1, <1>2, <1>3, <1>4, NoElements DEF KeeperInv, Carries

\* The invariant of the gatekeeper: what each call relies on between its steps, and what the
\* profile owes to the writes.
THEOREM KeeperHolds == Spec => []KeeperInv
<1>1. Init => KeeperInv
  BY KeeperStarts
<1>2. KeeperInv /\ [Next]_vars => KeeperInv'
  <2> SUFFICES ASSUME KeeperInv, [Next]_vars PROVE KeeperInv'
    OBVIOUS
  <2>1. CASE Users
    BY <2>1, UsersKeep
  <2>2. CASE Audits
    BY <2>2, AuditsRead, AuditsKeep DEF Audits, keeperVars
  <2>3. CASE Rules
    BY <2>3, EditProfileKeeps, KeeperStepKeeps DEF Rules, KeeperNext
  <2>4. CASE UNCHANGED vars
    BY <2>4, AuditsKeep DEF vars, keeperVars
  <2> QED BY <2>1, <2>2, <2>3, <2>4 DEF Next
<1> QED BY <1>1, <1>2, PTL DEF Spec

-----------------------------------------------------------------------------
(* The rules of an audit *)

Statuses == {"passed", "failed", "blocked", "not_applicable"}
RulesOf(pack) == ToSet(IdOrder[pack])
AuditGuards == CepGuards \cup Foundation \cup {Callback, Loaded}

\* Both ways to key a pack list every one of its rules.
LEMMA OrdersAgree ==
  ASSUME NEW p \in Packs
  PROVE  /\ DOMAIN IdOrder = Packs /\ DOMAIN NameOrder = Packs
         /\ IdOrder[p] \in Seq(AuditGuards) /\ NameOrder[p] \in Seq(AuditGuards)
         /\ \A g \in RulesOf(p) : (\E i \in DOMAIN IdOrder[p] : IdOrder[p][i] = g)
                               /\ (\E i \in DOMAIN NameOrder[p] : NameOrder[p][i] = g)
<1>1. /\ NameOrder.generic = <<ForbiddenRoots, IndexPresent>>
      /\ NameOrder.cep = <<"cep.debug_mode", "cep.host_version", "cep.manifest_exists", "cep.menubar_extension",
                           "cep.no_zip_in_repo", "cep.symlink_free">>
      /\ NameOrder.cep_callback = <<Callback>> /\ NameOrder.module_registry = <<Loaded>>
      /\ DOMAIN NameOrder = Packs
  BY DEF NameOrder, Packs
<1>2. /\ IdOrder.generic = <<IndexPresent, ForbiddenRoots>>
      /\ IdOrder.cep = <<"cep.manifest_exists", "cep.host_version", "cep.debug_mode",
                         "cep.no_zip_in_repo", "cep.symlink_free", "cep.menubar_extension">>
      /\ IdOrder.cep_callback = <<Callback>> /\ IdOrder.module_registry = <<Loaded>>
      /\ DOMAIN IdOrder = Packs
  BY <1>1 DEF IdOrder, Packs
<1>3. IdOrder[p] \in Seq(AuditGuards) /\ NameOrder[p] \in Seq(AuditGuards)
  <2>1. CASE p = "generic"
    <3>1. <<IndexPresent, ForbiddenRoots>> \in Seq(AuditGuards) /\ <<ForbiddenRoots, IndexPresent>> \in Seq(AuditGuards)
      BY DEF AuditGuards, Foundation
    <3> QED BY <1>1, <1>2, <2>1, <3>1
  <2>2. CASE p = "cep"
    <3>1. /\ "cep.manifest_exists" \in AuditGuards /\ "cep.host_version" \in AuditGuards
          /\ "cep.debug_mode" \in AuditGuards /\ "cep.no_zip_in_repo" \in AuditGuards
          /\ "cep.symlink_free" \in AuditGuards /\ "cep.menubar_extension" \in AuditGuards
      BY DEF AuditGuards, CepGuards, ManifestGuards
    <3>2. \A a, b, c, d, e, f \in AuditGuards : <<a, b, c, d, e, f>> \in Seq(AuditGuards)
      OBVIOUS
    <3>3. /\ IdOrder[p] = <<"cep.manifest_exists", "cep.host_version", "cep.debug_mode",
                            "cep.no_zip_in_repo", "cep.symlink_free", "cep.menubar_extension">>
          /\ NameOrder[p] = <<"cep.debug_mode", "cep.host_version", "cep.manifest_exists", "cep.menubar_extension",
                              "cep.no_zip_in_repo", "cep.symlink_free">>
      BY <1>1, <1>2, <2>2
    <3>4. IdOrder[p] \in Seq(AuditGuards)
      BY <3>1, <3>2, <3>3
    <3>5. NameOrder[p] \in Seq(AuditGuards)
      BY <3>1, <3>2, <3>3
    <3> QED BY <3>4, <3>5
  <2>3. CASE p \in {"cep_callback", "module_registry"}
    <3>1. <<Callback>> \in Seq(AuditGuards) /\ <<Loaded>> \in Seq(AuditGuards)
      BY DEF AuditGuards
    <3> QED BY <1>1, <1>2, <2>3, <3>1
  <2> QED BY <2>1, <2>2, <2>3 DEF Packs
<1>4. \A g \in RulesOf(p) : \E i \in DOMAIN IdOrder[p] : IdOrder[p][i] = g
  BY DEF RulesOf, ToSet
<1>5. \A g \in RulesOf(p) : \E i \in DOMAIN NameOrder[p] : NameOrder[p][i] = g
  <2>1. CASE p = "generic"
    <3>1. RulesOf(p) = {IndexPresent, ForbiddenRoots}
      BY <1>2, <2>1 DEF RulesOf, ToSet
    <3>2. NameOrder[p][1] = ForbiddenRoots /\ NameOrder[p][2] = IndexPresent /\ DOMAIN NameOrder[p] = 1..2
      BY <1>1, <2>1
    <3> QED BY <3>1, <3>2
  <2>2. CASE p = "cep"
    <3>1. RulesOf(p) = {"cep.manifest_exists", "cep.host_version", "cep.debug_mode",
                        "cep.no_zip_in_repo", "cep.symlink_free", "cep.menubar_extension"}
      BY <1>2, <2>2 DEF RulesOf, ToSet
    <3>2. /\ NameOrder[p][1] = "cep.debug_mode" /\ NameOrder[p][2] = "cep.host_version"
          /\ NameOrder[p][3] = "cep.manifest_exists" /\ NameOrder[p][4] = "cep.menubar_extension"
          /\ NameOrder[p][5] = "cep.no_zip_in_repo" /\ NameOrder[p][6] = "cep.symlink_free"
          /\ DOMAIN NameOrder[p] = 1..6
      BY <1>1, <2>2
    <3>3. ASSUME NEW g \in RulesOf(p) PROVE \E i \in 1..6 : NameOrder[p][i] = g
      BY <3>1, <3>2, <3>3
    <3> QED BY <3>2, <3>3
  <2>3. CASE p \in {"cep_callback", "module_registry"}
    BY <1>1, <1>2, <2>3 DEF RulesOf, ToSet
  <2> QED BY <2>1, <2>2, <2>3 DEF Packs
<1> QED BY <1>1, <1>2, <1>3, <1>4, <1>5

\* What a rule returns is a result of that rule.
LEMMA JudgedFine ==
  ASSUME NEW g \in AuditGuards, NEW inventory, NEW globs
  PROVE  LET r == Judged(g, inventory, globs)
         IN r.guard = g /\ r.status \in Statuses
<1>1. \A h, status : /\ Result(h, status).guard = h /\ Result(h, status).status = status
  BY DEF Result
<1>2. \A h, status : /\ Note(h, status).guard = h /\ Note(h, status).status = status
  BY DEF Note, Result
<1>3. \A part : ManifestStatus(part) \in Statuses
  BY DEF ManifestStatus, Statuses
<1>4. \A kinds : CallbackStatus(kinds) \in Statuses
  BY DEF CallbackStatus, Statuses
<1>5. \A kind : RegistryStatus(kind) \in Statuses
  BY DEF RegistryStatus, Statuses
<1>6. LET r == SymlinkStatus IN r.guard = "cep.symlink_free" /\ r.status \in Statuses
  BY <1>1, <1>2 DEF SymlinkStatus, Statuses
<1>7. g \in {IndexPresent, ForbiddenRoots, "cep.manifest_exists", "cep.host_version", "cep.menubar_extension",
             "cep.debug_mode", "cep.no_zip_in_repo", "cep.symlink_free", Callback, Loaded}
  BY DEF AuditGuards, CepGuards, ManifestGuards, Foundation
<1> USE DEF IndexPresent, ForbiddenRoots, Callback, Loaded, Statuses
<1>8. CASE g = IndexPresent
  BY <1>1, <1>8 DEF Judged
<1>9. CASE g = ForbiddenRoots
  BY <1>1, <1>9 DEF Judged
<1>10. CASE g = "cep.manifest_exists"
  BY <1>1, <1>10 DEF Judged
<1>11. CASE g = "cep.host_version"
  BY <1>1, <1>3, <1>11 DEF Judged
<1>12. CASE g = "cep.menubar_extension"
  BY <1>1, <1>3, <1>12 DEF Judged
<1>13. CASE g = "cep.debug_mode"
  BY <1>2, <1>13 DEF Judged
<1>14. CASE g = "cep.no_zip_in_repo"
  BY <1>1, <1>14 DEF Judged
<1>15. CASE g = "cep.symlink_free"
  BY <1>6, <1>15 DEF Judged
<1>16. CASE g = Callback
  BY <1>1, <1>4, <1>16 DEF Judged
<1>17. CASE g = Loaded
  BY <1>1, <1>5, <1>17 DEF Judged
<1> QED BY <1>7, <1>8, <1>9, <1>10, <1>11, <1>12, <1>13, <1>14, <1>15, <1>16, <1>17

\* Run by the audit, with or without the wrapper.
LEMMA ExecutedFine ==
  ASSUME NEW g \in AuditGuards, NEW key
  PROVE  LET r == Executed(key, g)
         IN r.guard = g /\ r.status \in Statuses
<1>1. \A h, status : /\ Result(h, status).guard = h /\ Result(h, status).status = status
  BY DEF Result
<1>2. \A h : Failure(h).guard = h /\ Failure(h).status = "failed"
  BY DEF Failure, Result
<1> QED BY <1>1, <1>2, JudgedFine DEF Executed, Statuses

\* The entries of a pack that is loaded have every rule of it.
LEMMA EntriesCover ==
  ASSUME NEW p \in Packs, NEW keys, "name" \in keys \/ "id" \in keys
  PROVE  /\ Entries(p, keys) \in Seq({"name", "id"} \X AuditGuards)
         /\ \A g \in RulesOf(p) : \E i \in DOMAIN Entries(p, keys) : Entries(p, keys)[i][2] = g
<1>1. ASSUME NEW key \in {"name", "id"}, NEW order \in Seq(AuditGuards)
      PROVE  /\ Keyed(key, order) \in Seq({"name", "id"} \X AuditGuards)
             /\ DOMAIN Keyed(key, order) = DOMAIN order
             /\ \A i \in DOMAIN order : Keyed(key, order)[i][2] = order[i]
  BY DEF Keyed
<1>2. PICK names : names = IF "name" \in keys THEN Keyed("name", NameOrder[p]) ELSE << >>
  OBVIOUS
<1>3. PICK ids : ids = IF "id" \in keys THEN Keyed("id", IdOrder[p]) ELSE << >>
  OBVIOUS
<1>4. names \in Seq({"name", "id"} \X AuditGuards) /\ ids \in Seq({"name", "id"} \X AuditGuards)
  BY <1>1, <1>2, <1>3, OrdersAgree
<1>5. \A g \in RulesOf(p) : (\E i \in DOMAIN names : names[i][2] = g) \/ (\E i \in DOMAIN ids : ids[i][2] = g)
  BY <1>1, <1>2, <1>3, OrdersAgree
<1>6. PICK all : all = names \o ids
  OBVIOUS
<1>7. PICK S : S = {"name", "id"} \X AuditGuards
  OBVIOUS
<1>8. /\ all \in Seq(S)
      /\ \A i \in DOMAIN names : i \in DOMAIN all /\ all[i] = names[i]
      /\ \A i \in DOMAIN ids : Len(names) + i \in DOMAIN all /\ all[Len(names) + i] = ids[i]
  BY <1>4, <1>6, <1>7
<1>9. \A g \in RulesOf(p) : \E i \in DOMAIN all : all[i][2] = g
  BY <1>5, <1>8
<1>10. all = Entries(p, keys)
  BY <1>2, <1>3, <1>6 DEF Entries
<1> QED BY <1>7, <1>8, <1>9, <1>10

-----------------------------------------------------------------------------
(* The invariant of the audits *)

AuditFields ==
  {"pc", "selection", "scoped", "override", "globs", "inventory", "signals", "packs", "requested", "entries", "closed",
   "results", "skippedPacks", "skippedGates", "overridden", "status", "summary", "comparison"}

Fails(r) == r.status = "failed" \/ (r.status = "blocked" /\ r.required)
Had(a, g) == \E r \in a.results : r.guard = g
Waits(a, g) == a.pc = "rules" /\ \E i \in DOMAIN a.entries : a.entries[i][2] = g

\* A requested pack is still to be loaded, or its loading failed, or each of its rules has
\* a result, is among the entries or was skipped.
Handled(a, p) ==
  \/ p \in a.packs
  \/ p \notin Packs /\ a.skippedPacks # {}
  \/ p \in Packs /\ \A g \in RulesOf(p) : Had(a, g) \/ Waits(a, g) \/ a.skippedGates > 0

Opened == {"profile", "packs", "rules"}

AuditFine(a) ==
  /\ DOMAIN a = AuditFields
  /\ a.pc # "over" => a.status = "none" /\ a.summary = "none"
  /\ a.pc = "gate" => a.skippedGates = 0 /\ ~a.closed
  /\ \A r \in a.results : r.status \in Statuses
  /\ a.skippedGates \in Nat
  /\ a.skippedGates > 0 \/ a.closed => \E r \in a.results : Fails(r)
  /\ a.pc = "rules" => a.entries \in Seq({"name", "id"} \X AuditGuards)
  /\ a.pc \in Opened /\ a.overridden = {} => \A g \in Foundation : Had(a, g)
  /\ a.pc \in {"packs", "rules"} /\ a.overridden = {} => \A p \in a.requested : Handled(a, p)

\* The gate has resolved its guards by their ids before any pack is loaded.
AuditInv ==
  /\ AuditTyped /\ SummaryCovers /\ AuditFine(audit)
  /\ audit.pc \in Opened => registry.generic = {"id"}

\* A step of an audit that is not its end.
LEMMA GoesOn ==
  ASSUME AuditInv, NEW rec, audit' = rec, AuditFine(rec), rec.pc \in {"gate", "profile", "packs", "rules"},
         rec.status = "none", registry' \in [Packs -> SUBSET {"name", "id"}], registry'.generic \subseteq {"id"},
         rec.pc \in Opened => registry'.generic = {"id"}
  PROVE  AuditInv'
<1>1. rec.summary = "none"
  BY DEF AuditFine
<1>2. AuditTyped'
  BY <1>1 DEF AuditTyped, Summaries
<1>3. SummaryCovers'
  BY <1>1 DEF SummaryCovers
<1>4. AuditFine(audit)'
  BY DEF AuditFine, Had, Handled, Waits
<1> QED BY <1>2, <1>3, <1>4 DEF AuditInv

\* An audit that ends without a favourable summary.
LEMMA GivesUp ==
  ASSUME AuditInv, NEW rec, audit' = rec, AuditFine(rec), rec.pc = "over",
         rec.status \in {"BLOCKED", "raised"}, rec.summary \in {"none", "foundation_gate_failed"},
         registry' \in [Packs -> SUBSET {"name", "id"}], registry'.generic \subseteq {"id"}
  PROVE  AuditInv'
<1>2. AuditTyped'
  BY DEF AuditTyped, Summaries
<1>3. SummaryCovers'
  BY DEF SummaryCovers
<1>4. AuditFine(audit)'
  BY DEF AuditFine, Had, Handled, Waits
<1> QED BY <1>2, <1>3, <1>4 DEF AuditInv, Opened

\* An audit that has not begun is fine.
LEMMA RestingFine == AuditFine(Resting) /\ DOMAIN Resting = AuditFields
BY DEF AuditFine, Resting, AuditFields, Opened

\* The audits begin with their invariant.
LEMMA AuditStarts ==
  ASSUME AuditInit
  PROVE  AuditInv
<1>1. AuditTyped
  BY DEF AuditTyped, AuditInit, Resting, Summaries, Packs
<1>2. SummaryCovers
  BY DEF SummaryCovers, AuditInit, Resting
<1> QED BY <1>1, <1>2, RestingFine DEF AuditInit, AuditInv, Resting, Opened

\* An audit that begins keeps it,
LEMMA BeginKeeps ==
  ASSUME AuditInv, BeginAudit
  PROVE  AuditInv'
<1>1. PICK r \in Requests, override \in OverrideInputs :
        audit' = Begun(r, override)
  BY DEF BeginAudit
<1>2. PICK rec : rec = Begun(r, override)
  OBVIOUS
<1>3. /\ DOMAIN rec = AuditFields /\ rec.pc = "gate" /\ rec.results = {} /\ rec.skippedGates = 0 /\ rec.closed = FALSE
      /\ rec.summary = "none" /\ rec.status = "none"
  BY <1>2 DEF Begun, Resting, AuditFields
<1>4. AuditFine(rec)
  BY <1>3 DEF AuditFine, Opened
<1>5. audit' = rec /\ registry' = registry
  BY <1>1, <1>2 DEF BeginAudit
<1> QED BY <1>3, <1>4, <1>5, GoesOn DEF AuditInv, AuditTyped, Opened

\* so does a pack that is looked up,
LEMMA LookupKeeps ==
  ASSUME AuditInv, NEW p \in Packs, Lookup(p)
  PROVE  AuditInv'
<1>1. registry' = [registry EXCEPT ![p] = registry[p] \cup {"id"}] /\ audit' = audit /\ audit.pc \in {"idle", "over"}
  BY DEF Lookup, Resolved
<1>2. registry' \in [Packs -> SUBSET {"name", "id"}] /\ registry'.generic \subseteq {"id"}
  BY <1>1 DEF AuditInv, AuditTyped, Packs
<1>3. AuditTyped'
  BY <1>1, <1>2 DEF AuditTyped, AuditInv
<1>4. SummaryCovers'
  BY <1>1 DEF SummaryCovers, AuditInv, Settled
<1>5. AuditFine(audit)'
  BY <1>1 DEF AuditFine, AuditInv, Had, Handled, Waits
<1> QED BY <1>1, <1>3, <1>4, <1>5 DEF AuditInv, Opened

\* When the gate opens, each guard that was not set aside has a result, and the pack of the
\* guards is resolved by ids: not all of them can be set aside.
LEMMA GateKeeps ==
  ASSUME AuditInv, FoundationGate
  PROVE  AuditInv'
<1>1. PICK set : set = OverrideOf(audit.override)
  OBVIOUS
<1>2. PICK results : results = GateResults(audit, set)
  OBVIOUS
<1>3. IndexPresent \in Due(set)
  BY <1>1 DEF OverrideOf, Overridable, Due, Foundation, IndexPresent, ForbiddenRoots
<1>4. /\ \A r \in results : r.status \in Statuses
      /\ Blocking(audit, set) = {} => \A g \in Due(set) : \E r \in results : r.guard = g
  <2>1. \A g \in Foundation : AtGate(audit, g).guard = g /\ AtGate(audit, g).status \in Statuses
    BY JudgedFine DEF AtGate, AuditGuards
  <2>2. \A r \in results : \E g \in Foundation : r = AtGate(audit, g)
    BY <1>2, <1>3 DEF GateResults, Due
  <2>3. Blocking(audit, set) = {} => results = {AtGate(audit, g) : g \in Due(set)}
    BY <1>2 DEF GateResults
  <2> QED BY <2>1, <2>2, <2>3 DEF Due
<1>5. PICK old : /\ old = audit /\ AuditFine(old) /\ old.pc = "gate" /\ old.summary = "none" /\ old.status = "none"
                  /\ old.skippedGates = 0 /\ old.closed # TRUE /\ DOMAIN old = AuditFields
  BY DEF AuditInv, AuditFine, FoundationGate
<1>6. registry \in [Packs -> SUBSET {"name", "id"}] /\ registry.generic \subseteq {"id"}
  BY DEF AuditInv, AuditTyped
<1>7. CASE OverrideRefused(audit.override)
  <2>1. PICK rec : rec = [old EXCEPT !.pc = "over", !.status = "BLOCKED", !.summary = "foundation_gate_failed"]
    OBVIOUS
  <2>2. /\ DOMAIN rec = AuditFields /\ rec.pc = "over" /\ rec.status = "BLOCKED" /\ rec.summary = "foundation_gate_failed"
        /\ rec.results = old.results /\ rec.skippedGates = old.skippedGates /\ rec.closed = old.closed
    BY <1>5, <2>1 DEF AuditFields
  <2>3. AuditFine(rec)
    BY <1>5, <2>2 DEF AuditFine, Opened
  <2>4. audit' = rec /\ registry' = registry
    BY <1>5, <1>7, <2>1 DEF FoundationGate, Continue, Over
  <2> QED BY <1>6, <2>2, <2>3, <2>4, GivesUp
<1>8. CASE ~OverrideRefused(audit.override)
  <2>1. PICK a : a = [old EXCEPT !.overridden = set, !.results = results]
    OBVIOUS
  <2>2. /\ DOMAIN a = AuditFields /\ a.results = results /\ a.overridden = set /\ a.status = old.status /\ a.summary = old.summary
        /\ a.skippedGates = old.skippedGates /\ a.closed = old.closed
    BY <1>5, <2>1 DEF AuditFields
  <2>3. CASE Blocking(audit, set) # {}
    <3>1. PICK rec : rec = [a EXCEPT !.pc = "over", !.status = "BLOCKED", !.summary = "foundation_gate_failed"]
      OBVIOUS
    <3>2. /\ DOMAIN rec = AuditFields /\ rec.pc = "over" /\ rec.status = "BLOCKED" /\ rec.summary = "foundation_gate_failed"
          /\ rec.results = results /\ rec.skippedGates = old.skippedGates /\ rec.closed = old.closed
      BY <2>2, <3>1 DEF AuditFields
    <3>3. AuditFine(rec)
      BY <1>4, <1>5, <3>2 DEF AuditFine, Opened
    <3>4. audit' = rec
      BY <1>1, <1>2, <1>5, <1>8, <2>1, <2>3, <3>1 DEF FoundationGate, Continue, Over
    <3>5. registry' \in [Packs -> SUBSET {"name", "id"}] /\ registry'.generic \subseteq {"id"}
      BY <1>6, <1>8 DEF FoundationGate, Resolved, Packs
    <3> QED BY <3>2, <3>3, <3>4, <3>5, GivesUp
  <2>4. CASE Blocking(audit, set) = {}
    <3>1. PICK rec : rec = [a EXCEPT !.pc = "profile"]
      OBVIOUS
    <3>2. /\ DOMAIN rec = AuditFields /\ rec.pc = "profile" /\ rec.status = "none" /\ rec.summary = "none"
          /\ rec.results = results /\ rec.skippedGates = 0 /\ rec.closed = old.closed /\ rec.overridden = set
      BY <1>5, <2>2, <3>1 DEF AuditFields, AuditFine
    <3>3. set = {} => \A g \in Foundation : Had(rec, g)
      BY <1>4, <2>4, <3>2 DEF Had, Due
    <3>4. AuditFine(rec)
      BY <1>4, <1>5, <3>2, <3>3 DEF AuditFine
    <3>5. audit' = rec
      BY <1>1, <1>2, <1>5, <1>8, <2>1, <2>4, <3>1 DEF FoundationGate, Continue
    <3>6. registry' \in [Packs -> SUBSET {"name", "id"}] /\ registry'.generic = {"id"} /\ registry'.generic \subseteq {"id"}
      BY <1>1, <1>3, <1>6, <1>8 DEF FoundationGate, Resolved, Packs
    <3> QED BY <3>2, <3>4, <3>5, <3>6, GoesOn
  <2> QED BY <2>3, <2>4
<1> QED BY <1>7, <1>8

\* The requested packs are all still to be loaded.
LEMMA ProfileKeeps ==
  ASSUME AuditInv, ProfileProject
  PROVE  AuditInv'
<1>1. PICK old : old = audit /\ AuditFine(old) /\ old.pc = "profile" /\ DOMAIN old = AuditFields
                 /\ old.status = "none" /\ old.summary = "none"
  BY DEF AuditInv, AuditFine, ProfileProject
<1>2. registry' \in [Packs -> SUBSET {"name", "id"}] /\ registry'.generic = {"id"} /\ registry'.generic \subseteq {"id"}
  BY <1>1 DEF AuditInv, AuditTyped, ProfileProject, Opened
<1>3. PICK there : there = {f \in Signals : IsFile(f)}
  OBVIOUS
<1>4. PICK chosen : chosen = IF old.selection # {} THEN old.selection \ {"blank"} ELSE ProfilePacks(there)
  OBVIOUS
<1>5. PICK signals : signals = [f \in there |-> disk[f]]
  OBVIOUS
<1>6. \/ audit' = [old EXCEPT !.pc = "over", !.status = "raised", !.summary = "none"]
      \/ audit' = [old EXCEPT !.pc = "packs", !.signals = signals, !.packs = chosen, !.requested = chosen]
  BY <1>1, <1>3, <1>4, <1>5 DEF ProfileProject, Continue, Over
<1>7. CASE audit' = [old EXCEPT !.pc = "over", !.status = "raised", !.summary = "none"]
  <2>1. PICK rec : rec = [old EXCEPT !.pc = "over", !.status = "raised", !.summary = "none"]
    OBVIOUS
  <2>2. /\ DOMAIN rec = AuditFields /\ rec.pc = "over" /\ rec.status = "raised" /\ rec.summary = "none"
        /\ rec.results = old.results /\ rec.skippedGates = old.skippedGates /\ rec.closed = old.closed
    BY <1>1, <2>1 DEF AuditFields
  <2>3. AuditFine(rec)
    BY <1>1, <2>2 DEF AuditFine, Opened
  <2> QED BY <1>2, <1>7, <2>1, <2>2, <2>3, GivesUp
<1>8. CASE audit' = [old EXCEPT !.pc = "packs", !.signals = signals, !.packs = chosen, !.requested = chosen]
  <2>1. PICK rec : rec = [old EXCEPT !.pc = "packs", !.signals = signals, !.packs = chosen, !.requested = chosen]
    OBVIOUS
  <2>2. /\ DOMAIN rec = AuditFields /\ rec.pc = "packs" /\ rec.status = "none" /\ rec.summary = "none"
        /\ rec.results = old.results /\ rec.skippedGates = old.skippedGates /\ rec.closed = old.closed
        /\ rec.overridden = old.overridden /\ rec.packs = rec.requested
    BY <1>1, <2>1 DEF AuditFields
  <2>3. AuditFine(rec)
    BY <1>1, <2>2 DEF AuditFine, Opened, Had, Handled
  <2> QED BY <1>2, <1>8, <2>1, <2>2, <2>3, GoesOn
<1> QED BY <1>6, <1>7, <1>8

\* one that is loaded,
LEMMA LoadKeepsAudit ==
  ASSUME AuditInv, LoadPack
  PROVE  AuditInv'
<1>1. PICK old : old = audit /\ AuditFine(old) /\ old.pc = "packs" /\ DOMAIN old = AuditFields
                 /\ old.status = "none" /\ old.summary = "none"
  BY DEF AuditInv, AuditFine, LoadPack
<1>2. registry \in [Packs -> SUBSET {"name", "id"}] /\ registry.generic = {"id"}
  BY <1>1 DEF AuditInv, AuditTyped, Opened
<1>3. PICK pack \in old.packs : Load(pack)
  BY <1>1 DEF LoadPack
<1>4. PICK a : a = [old EXCEPT !.packs = old.packs \ {pack}]
  OBVIOUS
<1>5. /\ DOMAIN a = AuditFields /\ a.packs = old.packs \ {pack} /\ a.status = "none" /\ a.summary = "none"
      /\ a.results = old.results /\ a.skippedGates = old.skippedGates /\ a.closed = old.closed
      /\ a.overridden = old.overridden /\ a.requested = old.requested /\ a.skippedPacks = old.skippedPacks
      /\ a.pc = "packs"
  BY <1>1, <1>4 DEF AuditFields
<1>6. CASE pack \notin Packs
  <2>1. PICK rec : rec = [[a EXCEPT !.skippedPacks = a.skippedPacks \cup {pack}] EXCEPT !.results = a.results \cup {Failure(pack)}]
    OBVIOUS
  <2>2. /\ DOMAIN rec = AuditFields /\ rec.packs = old.packs \ {pack} /\ rec.status = "none" /\ rec.summary = "none"
        /\ rec.results = old.results \cup {Failure(pack)} /\ rec.skippedGates = old.skippedGates /\ rec.closed = old.closed
        /\ rec.overridden = old.overridden /\ rec.requested = old.requested
        /\ rec.skippedPacks = old.skippedPacks \cup {pack} /\ rec.pc = "packs"
    BY <1>5, <2>1 DEF AuditFields
  <2>3. Failure(pack).status = "failed"
    BY DEF Failure, Result
  <2>4. \A p : Handled(old, p) => Handled(rec, p)
    BY <1>1, <1>6, <2>2 DEF Handled, Had, Waits
  <2>5. AuditFine(rec)
    BY <1>1, <2>2, <2>3, <2>4 DEF AuditFine, Opened, Had, Statuses
  <2>6. audit' = rec /\ registry' = registry
    BY <1>1, <1>3, <1>4, <1>5, <1>6, <2>1 DEF Load, Continue, RecordResult
  <2> QED BY <1>2, <2>2, <2>5, <2>6, GoesOn
<1>7. CASE pack \in Packs
  <2>1. PICK keys : keys = LoadedKeys(registry[pack])
    OBVIOUS
  <2>2. PICK entries : entries = Entries(pack, keys)
    OBVIOUS
  <2>3. keys \in SUBSET {"name", "id"} /\ keys # {} /\ (pack = "generic" => keys = {"id"})
    BY <1>2, <1>7, <2>1 DEF LoadedKeys
  <2>4. /\ entries \in Seq({"name", "id"} \X AuditGuards)
        /\ \A g \in RulesOf(pack) : \E i \in DOMAIN entries : entries[i][2] = g
    <3>1. "name" \in keys \/ "id" \in keys
      BY <2>3
    <3> QED BY <1>7, <2>2, <3>1, EntriesCover
  <2>5. PICK rec : rec = [a EXCEPT !.pc = "rules", !.closed = FALSE, !.entries = entries]
    OBVIOUS
  <2>6. /\ DOMAIN rec = AuditFields /\ rec.packs = old.packs \ {pack} /\ rec.status = "none" /\ rec.summary = "none"
        /\ rec.results = old.results /\ rec.skippedGates = old.skippedGates /\ rec.closed = FALSE
        /\ rec.overridden = old.overridden /\ rec.requested = old.requested
        /\ rec.skippedPacks = old.skippedPacks /\ rec.pc = "rules" /\ rec.entries = entries
    BY <1>5, <2>5 DEF AuditFields
  <2>7. \A p : Handled(old, p) => Handled(rec, p)
    BY <1>1, <1>7, <2>4, <2>6 DEF Handled, Had, Waits
  <2>8. AuditFine(rec)
    BY <1>1, <2>4, <2>6, <2>7 DEF AuditFine, Opened, Had
  <2>9. audit' = rec /\ registry' = [registry EXCEPT ![pack] = keys]
    BY <1>1, <1>3, <1>4, <1>7, <2>1, <2>2, <2>5 DEF Load, Continue
  <2>10. registry' \in [Packs -> SUBSET {"name", "id"}]
    BY <1>2, <1>7, <2>3, <2>9
  <2>11. registry'.generic = {"id"} /\ registry'.generic \subseteq {"id"}
    BY <1>2, <1>7, <2>3, <2>9 DEF Packs
  <2>12. rec.pc \in {"gate", "profile", "packs", "rules"} /\ rec.status = "none"
    BY <2>6
  <2> QED BY <2>8, <2>9, <2>10, <2>11, <2>12, GoesOn
<1> QED BY <1>6, <1>7

\* An element of a sequence is its head or in its tail.
LEMMA HeadOrTail ==
  ASSUME NEW S, NEW s \in Seq(S), s # << >>
  PROVE  /\ Head(s) \in S /\ Tail(s) \in Seq(S)
         /\ \A i \in DOMAIN s : s[i] = Head(s) \/ \E j \in DOMAIN Tail(s) : Tail(s)[j] = s[i]
<1>1. Head(s) = s[1] /\ Head(s) \in S /\ Tail(s) \in Seq(S) /\ DOMAIN Tail(s) = 1..(Len(s) - 1) /\ DOMAIN s = 1..Len(s)
  OBVIOUS
<1>2. \A j \in DOMAIN Tail(s) : Tail(s)[j] = s[j + 1]
  OBVIOUS
<1>3. ASSUME NEW i \in DOMAIN s, i # 1 PROVE \E j \in DOMAIN Tail(s) : Tail(s)[j] = s[i]
  <2>1. i - 1 \in DOMAIN Tail(s) /\ (i - 1) + 1 = i
    BY <1>1, <1>3
  <2> QED BY <1>2, <2>1
<1> QED BY <1>1, <1>3

\* The rule of an entry has a result afterwards, had one, or is skipped because another failed.
LEMMA EntryKeeps ==
  ASSUME AuditInv, RunEntry
  PROVE  AuditInv'
<1>1. PICK old : old = audit /\ AuditFine(old) /\ old.pc = "rules" /\ DOMAIN old = AuditFields
                 /\ old.status = "none" /\ old.summary = "none" /\ old.entries # << >>
  BY DEF AuditInv, AuditFine, RunEntry
<1>2. registry' \in [Packs -> SUBSET {"name", "id"}] /\ registry'.generic = {"id"} /\ registry'.generic \subseteq {"id"}
  BY <1>1 DEF AuditInv, AuditTyped, RunEntry, Opened
<1>3. PICK S : S = {"name", "id"} \X AuditGuards
  OBVIOUS
<1>4. old.entries \in Seq(S)
  BY <1>1, <1>3 DEF AuditFine
<1>5. PICK entry : entry = Head(old.entries)
  OBVIOUS
<1>6. PICK tail : tail = Tail(old.entries)
  OBVIOUS
<1>7. /\ entry \in S /\ tail \in Seq(S)
      /\ \A i \in DOMAIN old.entries : old.entries[i] = entry \/ \E j \in DOMAIN tail : tail[j] = old.entries[i]
  BY <1>1, <1>4, <1>5, <1>6, HeadOrTail
<1>8. entry[2] \in AuditGuards
  BY <1>3, <1>7
<1>9. PICK result : result = Executed(entry[1], entry[2])
  OBVIOUS
<1>10. result.guard = entry[2] /\ result.status \in Statuses
  BY <1>8, <1>9, ExecutedFine
<1>11. PICK a : a = [old EXCEPT !.entries = tail]
  OBVIOUS
<1>12. /\ DOMAIN a = AuditFields /\ a.entries = tail /\ a.packs = old.packs /\ a.status = "none" /\ a.summary = "none"
       /\ a.results = old.results /\ a.skippedGates = old.skippedGates /\ a.closed = old.closed
       /\ a.overridden = old.overridden /\ a.requested = old.requested /\ a.skippedPacks = old.skippedPacks
       /\ a.pc = "rules"
  BY <1>1, <1>11 DEF AuditFields
<1>13. \A g : Waits(old, g) => g = entry[2] \/ \E j \in DOMAIN tail : tail[j][2] = g
  BY <1>7 DEF Waits
<1>14. /\ \A r \in old.results : r.status \in Statuses
       /\ old.skippedGates \in Nat
       /\ old.skippedGates > 0 \/ old.closed => \E r \in old.results : Fails(r)
       /\ old.overridden = {} => (\A g \in Foundation : Had(old, g)) /\ (\A p \in old.requested : Handled(old, p))
  BY <1>1 DEF AuditFine, Opened
<1>15. CASE Foundational(entry)
  <2>1. audit' = a
    BY <1>1, <1>5, <1>6, <1>11, <1>15 DEF RunEntry, Continue
  <2>2. \A p : old.overridden = {} /\ Handled(old, p) => Handled(a, p)
    BY <1>12, <1>13, <1>14, <1>15 DEF Handled, Had, Waits, Foundational
  <2>3. AuditFine(a)
    BY <1>3, <1>7, <1>12, <1>14, <2>2 DEF AuditFine, Had
  <2> QED BY <1>2, <1>12, <2>1, <2>3, GoesOn
<1>16. CASE ~Foundational(entry) /\ old.closed
  <2>1. PICK rec : rec = [a EXCEPT !.skippedGates = a.skippedGates + 1]
    OBVIOUS
  <2>2. /\ DOMAIN rec = AuditFields /\ rec.entries = tail /\ rec.packs = old.packs /\ rec.status = "none" /\ rec.summary = "none"
        /\ rec.results = old.results /\ rec.skippedGates = old.skippedGates + 1 /\ rec.closed = old.closed
        /\ rec.overridden = old.overridden /\ rec.requested = old.requested /\ rec.skippedPacks = old.skippedPacks
        /\ rec.pc = "rules"
    BY <1>12, <2>1 DEF AuditFields
  <2>3. audit' = rec
    BY <1>1, <1>5, <1>6, <1>11, <1>16, <2>1 DEF RunEntry, Continue
  <2>4. \A p : Handled(old, p) => Handled(rec, p)
    BY <1>14, <2>2 DEF Handled, Had, Waits
  <2>5. AuditFine(rec)
    BY <1>3, <1>7, <1>14, <1>16, <2>2, <2>4 DEF AuditFine, Had
  <2> QED BY <1>2, <2>2, <2>3, <2>5, GoesOn
<1>17. CASE ~Foundational(entry) /\ ~old.closed
  <2>1. PICK closed : closed = Closes(result)
    OBVIOUS
  <2>2. PICK rec : rec = [[a EXCEPT !.results = a.results \cup {result}] EXCEPT !.closed = closed]
    OBVIOUS
  <2>3. /\ DOMAIN rec = AuditFields /\ rec.entries = tail /\ rec.packs = old.packs /\ rec.status = "none" /\ rec.summary = "none"
        /\ rec.results = old.results \cup {result} /\ rec.skippedGates = old.skippedGates /\ rec.closed = closed
        /\ rec.overridden = old.overridden /\ rec.requested = old.requested /\ rec.skippedPacks = old.skippedPacks
        /\ rec.pc = "rules"
    BY <1>12, <2>2 DEF AuditFields
  <2>4. audit' = rec
    BY <1>1, <1>5, <1>6, <1>9, <1>11, <1>12, <1>17, <2>1, <2>2 DEF RunEntry, Continue, RecordResult
  <2>5. closed => Fails(result)
    BY <2>1 DEF Fails, Closes
  <2>6. \A p : Handled(old, p) => Handled(rec, p)
    BY <1>10, <1>13, <2>3 DEF Handled, Had, Waits
  <2>7. AuditFine(rec)
    BY <1>3, <1>7, <1>10, <1>14, <2>3, <2>5, <2>6 DEF AuditFine, Had
  <2> QED BY <1>2, <2>3, <2>4, <2>7, GoesOn
<1> QED BY <1>15, <1>16, <1>17

\* A pack whose rules have run keeps the invariant of the audits.
LEMMA PackDoneKeeps ==
  ASSUME AuditInv, PackDone
  PROVE  AuditInv'
<1>1. PICK old : old = audit /\ AuditFine(old) /\ old.pc = "rules" /\ DOMAIN old = AuditFields
                 /\ old.status = "none" /\ old.summary = "none" /\ old.entries = << >>
  BY DEF AuditInv, AuditFine, PackDone
<1>2. registry' \in [Packs -> SUBSET {"name", "id"}] /\ registry'.generic = {"id"} /\ registry'.generic \subseteq {"id"}
  BY <1>1 DEF AuditInv, AuditTyped, PackDone, Opened
<1>3. PICK rec : rec = [old EXCEPT !.pc = "packs"]
  OBVIOUS
<1>4. /\ DOMAIN rec = AuditFields /\ rec.packs = old.packs /\ rec.status = "none" /\ rec.summary = "none"
      /\ rec.results = old.results /\ rec.skippedGates = old.skippedGates /\ rec.closed = old.closed
      /\ rec.overridden = old.overridden /\ rec.requested = old.requested /\ rec.skippedPacks = old.skippedPacks
      /\ rec.pc = "packs"
  BY <1>1, <1>3 DEF AuditFields
<1>5. \A p : Handled(old, p) => Handled(rec, p)
  <2>1. \A g : ~Waits(old, g)
    BY <1>1, NoElements DEF Waits
  <2> QED BY <1>4, <2>1 DEF Handled, Had
<1>6. AuditFine(rec)
  BY <1>1, <1>4, <1>5 DEF AuditFine, Had, Opened
<1>7. audit' = rec
  BY <1>1, <1>3 DEF PackDone, Continue
<1> QED BY <1>2, <1>4, <1>6, <1>7, GoesOn

\* Everything requested was handled, and nothing failed.
LEMMA FinishKeeps ==
  ASSUME AuditInv, Finish
  PROVE  AuditInv'
<1>1. PICK old : old = audit /\ AuditFine(old) /\ old.pc = "packs" /\ DOMAIN old = AuditFields /\ old.packs = {}
  BY DEF AuditInv, AuditFine, Finish
<1>2. PICK outcome : outcome = IF old.overridden # {} THEN "completed_with_overrides" ELSE Summary(old)
  OBVIOUS
<1>3. PICK status : status = IF old.overridden # {} THEN "completed_with_overrides" ELSE "completed"
  OBVIOUS
<1>4. PICK a : a = [old EXCEPT !.pc = "over", !.status = status, !.summary = outcome]
  OBVIOUS
<1>5. /\ DOMAIN a = AuditFields /\ a.pc = "over" /\ a.status = status /\ a.summary = outcome
      /\ a.results = old.results /\ a.skippedGates = old.skippedGates /\ a.closed = old.closed
      /\ a.requested = old.requested
  BY <1>1, <1>4 DEF AuditFields
<1>6. PICK comparison : audit' = a \/ audit' = [a EXCEPT !.comparison = comparison]
  <2>1. PICK comparison : comparison = Compare(snapshot, old.signals)
    OBVIOUS
  <2>2. audit' = a \/ audit' = [a EXCEPT !.comparison = comparison]
    BY <1>1, <1>2, <1>3, <1>4, <2>1 DEF Finish, Continue, Over
  <2> QED BY <2>2
<1>7. /\ DOMAIN audit' = AuditFields /\ audit'.pc = "over" /\ audit'.status = status /\ audit'.summary = outcome
      /\ audit'.results = old.results /\ audit'.skippedGates = old.skippedGates /\ audit'.closed = old.closed
      /\ audit'.requested = old.requested
  BY <1>5, <1>6 DEF AuditFields
<1>8. /\ \A r \in old.results : r.status \in Statuses
      /\ old.skippedGates \in Nat
      /\ old.skippedGates > 0 \/ old.closed => \E r \in old.results : Fails(r)
      /\ old.overridden = {} => (\A g \in Foundation : Had(old, g)) /\ (\A p \in old.requested : Handled(old, p))
  BY <1>1 DEF AuditFine, Opened
<1>9. outcome \in Summaries
  BY <1>2 DEF Summary, Summaries
<1>10. AuditTyped'
  BY <1>3, <1>7, <1>9 DEF AuditTyped, AuditInv, Finish
<1>11. AuditFine(audit)'
  BY <1>7, <1>8 DEF AuditFine, Opened
<1>12. SummaryCovers'
  <2> SUFFICES ASSUME outcome \in {"pass", "pass_with_notes", "not_applicable"}
               PROVE  /\ old.requested \subseteq Packs
                      /\ \A p \in old.requested : \A g \in RulesOf(p) : Settled(old, g)
                      /\ \A g \in Foundation : Settled(old, g)
                      /\ old.skippedGates = 0
    BY <1>7 DEF SummaryCovers, Settled, RulesOf
  <2>1. old.overridden = {} /\ outcome = Summary(old)
    BY <1>2
  <2>2. /\ old.skippedPacks = {} /\ \A r \in old.results : r.status # "failed"
        /\ \A r \in old.results : r.status = "blocked" => ~r.required
    BY <2>1 DEF Summary, Having
  <2>3. \A r \in old.results : ~Fails(r)
    BY <2>2 DEF Fails
  <2>4. old.skippedGates = 0
    BY <1>8, <2>3
  <2>5. \A g : Had(old, g) => Settled(old, g)
    BY <1>8, <2>2 DEF Had, Settled, Statuses
  <2>6. \A p \in old.requested : p \in Packs /\ \A g \in RulesOf(p) : Had(old, g)
    BY <1>1, <1>8, <2>1, <2>2, <2>4 DEF Handled, Waits
  <2> QED BY <1>8, <2>1, <2>4, <2>5, <2>6
<1> QED BY <1>7, <1>10, <1>11, <1>12 DEF AuditInv, Opened

\* The invariant of the audits: however calls of the process filled the registry before.
THEOREM AuditsHold == Spec => []AuditInv
<1>1. Init => AuditInv
  BY AuditStarts DEF Init
<1>2. AuditInv /\ [Next]_vars => AuditInv'
  <2> SUFFICES ASSUME AuditInv, [Next]_vars PROVE AuditInv'
    OBVIOUS
  <2>1. ASSUME UNCHANGED <<registry, audit>> PROVE AuditInv'
    BY <2>1 DEF AuditInv, AuditTyped, SummaryCovers
  <2>2. CASE Users
    BY <2>1, <2>2 DEF Users
  <2>3. CASE Audits
    BY <2>3, BeginKeeps, GateKeeps, ProfileKeeps, LoadKeepsAudit, EntryKeeps, PackDoneKeeps, FinishKeeps, LookupKeeps
       DEF Audits, AuditNext, AuditStep
  <2>4. CASE Rules
    BY <2>1, <2>4 DEF Rules
  <2>5. CASE UNCHANGED vars
    BY <2>1, <2>5 DEF vars
  <2> QED BY <2>2, <2>3, <2>4, <2>5 DEF Next
<1> QED BY <1>1, <1>2, PTL DEF Spec

-----------------------------------------------------------------------------
(* The theorems *)

\* The registry, the audit and what the gatekeeper keeps have their types: the pack of the
\* foundation guards is only ever keyed by ids, and a write names a decision that is there.
THEOREM RulesKeepTypes == Spec => []RuleTypeOK
<1>1. KeeperInv => KeeperTyped
  <2> SUFFICES ASSUME KeeperInv PROVE KeeperTyped
    OBVIOUS
  <2>1. profile.state \in {"json", "torn", "gone"}
    BY DEF KeeperInv, Json, Torn, Gone
  <2>2. \A d \in DOMAIN decisions : decisions[d].n \in DOMAIN proposals
    BY DEF KeeperInv
  <2>3. \A w \in DOMAIN writes : writes[w].d \in DOMAIN decisions /\ writes[w].base < w
    BY DEF KeeperInv, WriteFine, ApprovedBy
  <2> QED BY <2>1, <2>2, <2>3 DEF KeeperTyped
<1>2. AuditInv => AuditTyped
  BY DEF AuditInv
<1> QED BY <1>1, <1>2, KeeperHolds, AuditsHold, PTL DEF RuleTypeOK

\* A favourable summary of an audit covers every pack and rule that was asked for and the
\* foundation guards, whatever the earlier calls of the process left in the registry.
THEOREM SummariesCover == Spec => []SummaryCovers
<1>1. AuditInv => SummaryCovers
  BY DEF AuditInv
<1> QED BY <1>1, AuditsHold, PTL

\* apply_approved_proposal writes only for a decision that approved this very proposal, and
\* only where the profile still shows what the approver was shown.
THEOREM AppliedAsApproved == Spec => []ApprovedExactly
<1>1. KeeperInv => ApprovedExactly
  <2> SUFFICES ASSUME KeeperInv, NEW w \in DOMAIN writes
               PROVE  LET proposal == proposals[writes[w].n]
                      IN /\ decisions[writes[w].d] = [n |-> writes[w].n, decision |-> "APPROVED"]
                         /\ proposal.diff.around \in {<< >>, writes[w].read.rules}
                         /\ proposal.diff.around = << >> => writes[w].read.rules[proposal.rule] = proposal.text
    BY DEF ApprovedExactly
  <2>1. PICK read, proposal : read = writes[w].read /\ proposal = proposals[writes[w].n]
    OBVIOUS
  <2>2. /\ Json(read) /\ DiffHolds(read, proposal) /\ proposal.rule \in GuardIds
        /\ decisions[writes[w].d] = [n |-> writes[w].n, decision |-> "APPROVED"]
    BY <2>1 DEF KeeperInv, WriteFine, ApprovedBy, ProposalFine
  <2>3. CASE Updated(read, proposal.rule, proposal.text) = read
    <3>1. proposal.diff.around = << >>
      BY <2>2, <2>3 DEF DiffHolds, Diff
    <3>2. [read EXCEPT !.rules[proposal.rule] = proposal.text].rules[proposal.rule] = proposal.text
      BY <2>2 DEF Json
    <3>3. read.rules[proposal.rule] = proposal.text
      BY <2>3, <3>2 DEF Updated
    <3> QED BY <2>1, <2>2, <3>1, <3>3
  <2>4. CASE Updated(read, proposal.rule, proposal.text) # read
    <3>1. proposal.diff.around = read.rules
      BY <2>2, <2>4 DEF DiffHolds, Diff
    <3>2. read.rules # << >>
      BY <2>2, NoElements DEF Json
    <3> QED BY <2>1, <2>2, <3>1, <3>2
  <2> QED BY <2>3, <2>4
<1> QED BY <1>1, KeeperHolds, PTL

\* Evidence outlives its approval: at one moment after the decision every cited file had the
\* cited content at once, although the gatekeeper reads them one by one.
THEOREM EvidenceStood == Spec => []StoodAfterApproval
<1>1. KeeperInv => StoodAfterApproval
  BY DEF KeeperInv, StoodAfterApproval, WriteFine
<1> QED BY <1>1, KeeperHolds, PTL

\* A rule reported as applied stays in the profile until a user saves it or the rule is
\* applied again, for writes of calls that do not overlap.
THEOREM AppliedRulesStay == Spec => []AppliedStays
<1>1. KeeperInv => AppliedStays
  <2>1. ASSUME KeeperInv, NEW w \in DOMAIN writes PROVE w <= Len(writes)
    BY <2>1, LenOf DEF KeeperInv
  <2> QED BY <2>1 DEF KeeperInv, AppliedStays, Carries, Undisturbed
<1> QED BY <1>1, KeeperHolds, PTL

=============================================================================
