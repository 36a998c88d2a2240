----------------------------- MODULE AuditController -----------------------------
(***************************************************************************)
(* audit_controller.py: one process that runs audits one after the other   *)
(* and resolves single rules between them, while users edit the workspace. *)
(* The registry of rules lives as long as the process; a pack in it may    *)
(* be keyed by the names of its functions, by the ids of its rules, or by  *)
(* both.  The snapshot of the last profiled audit is a file.  The packs of *)
(* an audit, each named once, are taken in any order; of its results only  *)
(* which there are counts.                                                 *)
(***************************************************************************)
EXTENDS AuditRules

CONSTANTS
  Requests,        \* what callers ask for: the selected packs, {} to let the profile
                   \* choose; whether workspace_root is given; the override and the globs
  MaxAudits        \* audits of the process (a bound)

ASSUME AuditAssumption ==
  /\ \A r \in Requests : r.scoped \in BOOLEAN /\ r.globs \in BOOLEAN
  /\ MaxAudits \in Nat

VARIABLES
  registry,        \* _rule_registry: how the rules of a pack are keyed
  audit,           \* the audit at work, or the last one
  snapshot,        \* snapshot.json: the signals of the last profiled audit
  audits           \* audits begun

auditVars == <<disk, edits, registry, audit, snapshot, audits>>

OverrideInputs == {"none", "malformed", "both", "forbidden"}
NoSnapshot == << >>
NoComparison == [added |-> {}, removed |-> {}, changed |-> {}]

Resting ==
  [pc |-> "idle", selection |-> {}, scoped |-> FALSE, override |-> "none", globs |-> FALSE, inventory |-> 0,
   signals |-> << >>, packs |-> {}, requested |-> {}, entries |-> << >>, closed |-> FALSE, results |-> {},
   skippedPacks |-> {}, skippedGates |-> 0, overridden |-> {}, status |-> "none", summary |-> "none",
   comparison |-> NoComparison]

AuditInit ==
  /\ registry = [p \in Packs |-> {}]
  /\ audit = Resting
  /\ snapshot = NoSnapshot
  /\ audits = 0

-----------------------------------------------------------------------------
(* The registry *)

\* A mutant of the next definition: a resolved pack is keyed as a loaded one.
ByName(keys) == keys \cup {"name"}

\* resolve_rule: a pack without the id is loaded again, which registers its ids.
Resolved(keys) == keys \cup {"id"}

\* A mutant of the next definition: a pack that is not loaded is taken as it is.
LoadedAsIs(keys) == keys

\* _load_rule_pack: loading registers the ids, and the functions then replace them.
LoadedKeys(keys) == IF keys = {} THEN {"name"} ELSE keys

\* The entries of the dictionary in their order: the names are always the older ones.
Keyed(key, order) == [i \in DOMAIN order |-> <<key, order[i]>>]
Entries(pack, keys) ==
  (IF "name" \in keys THEN Keyed("name", NameOrder[pack]) ELSE << >>)
  \o (IF "id" \in keys THEN Keyed("id", IdOrder[pack]) ELSE << >>)

\* A guard run or the gatekeeper resolves a rule in this process.
Lookup(pack) ==
  /\ audit.pc \in {"idle", "over"} /\ "id" \notin registry[pack]
  /\ registry' = [registry EXCEPT ![pack] = Resolved(@)]
  /\ UNCHANGED <<disk, edits, audit, snapshot, audits>>

-----------------------------------------------------------------------------
(* The audit *)

Continue(a) == audit' = a /\ UNCHANGED <<disk, edits, audits>>
Over(a, status, summary) == [a EXCEPT !.pc = "over", !.status = status, !.summary = summary]

Inventory == Cardinality({f \in Files : IsFile(f)})

\* The inventory is taken before the gate.
Begun(r, override) ==
  [Resting EXCEPT !.pc = "gate", !.selection = r.selection, !.scoped = r.scoped,
                  !.override = override, !.globs = r.globs, !.inventory = Inventory]

BeginAudit ==
  /\ audit.pc \in {"idle", "over"} /\ audits < MaxAudits
  /\ \E r \in Requests, override \in OverrideInputs : audit' = Begun(r, override)
  /\ audits' = audits + 1
  /\ UNCHANGED <<disk, edits, registry, snapshot>>

Overridable == {ForbiddenRoots}

\* _validate_foundation_overrides: the guards set aside, or a refusal.
OverrideOf(input) ==
  CASE input = "forbidden" -> {ForbiddenRoots}
    [] input = "both" /\ IndexPresent \in Overridable -> Foundation
    [] OTHER -> {}
OverrideRefused(input) == input # "none" /\ OverrideOf(input) = {}

Due(set) == Foundation \ set
AtGate(a, guard) == Judged(guard, a.inventory, a.globs)
Blocking(a, set) == {g \in Due(set) : AtGate(a, g).status # "passed"}

\* The index goes first, and a guard that does not pass is the last.
GateResults(a, set) ==
  {AtGate(a, g) : g \in IF IndexPresent \in Blocking(a, set) THEN {IndexPresent} ELSE Due(set)}

\* _run_foundation_gate
FoundationGate ==
  LET set == OverrideOf(audit.override)
      a == [audit EXCEPT !.overridden = set, !.results = GateResults(audit, set)]
  IN /\ audit.pc = "gate"
     /\ IF OverrideRefused(audit.override)
        THEN UNCHANGED registry /\ Continue(Over(audit, "BLOCKED", "foundation_gate_failed"))
        ELSE /\ registry' = IF Due(set) = {} THEN registry ELSE [registry EXCEPT !.generic = Resolved(@)]
             /\ IF Blocking(audit, set) # {} THEN Continue(Over(a, "BLOCKED", "foundation_gate_failed"))
                ELSE Continue([a EXCEPT !.pc = "profile"])
     /\ UNCHANGED snapshot

\* The packs of a profile; without a signal, and without a choice, the generic one.
ProfilePacks(signals) ==
  {"generic"} \cup (IF Manifest \in signals THEN {"cep"} ELSE {})
              \cup (IF RegistryFile \in signals THEN {"module_registry"} ELSE {})

ProfileProject ==
  LET there == {f \in Signals : IsFile(f)}
      chosen == IF audit.selection # {} THEN audit.selection \ {"blank"} ELSE ProfilePacks(there)
  IN /\ audit.pc = "profile"
     /\ IF chosen = {} \/ \E f \in there : ~Readable(f)
        THEN Continue(Over(audit, "raised", "none"))
        ELSE Continue([audit EXCEPT !.pc = "packs", !.signals = [f \in there |-> disk[f]],
                                    !.packs = chosen, !.requested = chosen])
     /\ UNCHANGED <<registry, snapshot>>

RecordResult(a, result) == [a EXCEPT !.results = @ \cup {result}]

Load(pack) ==
  LET a == [audit EXCEPT !.packs = @ \ {pack}]
      keys == LoadedKeys(registry[pack])
  IN IF pack \in Packs
     THEN /\ Continue([a EXCEPT !.pc = "rules", !.closed = FALSE, !.entries = Entries(pack, keys)])
          /\ registry' = [registry EXCEPT ![pack] = keys]
     ELSE /\ Continue(RecordResult([a EXCEPT !.skippedPacks = @ \cup {pack}], Failure(pack)))
          /\ UNCHANGED registry

LoadPack ==
  /\ audit.pc = "packs"
  /\ \E pack \in audit.packs : Load(pack)
  /\ UNCHANGED snapshot

\* By its id a rule runs in the wrapper that turns GovernanceError into a result; by the
\* name of its function it raises into the handler of the audit.
Executed(key, guard) ==
  IF ~Raises(guard, audit.scoped) THEN Judged(guard, audit.inventory, audit.globs)
  ELSE IF key = "id" THEN Result(guard, "blocked") ELSE Failure(guard)

\* A required rule that fails fast closes the pack.
Closes(result) == result.fast /\ result.required /\ result.status \in {"failed", "blocked"}

\* The foundation guards are recognised by their ids.
Foundational(entry) == entry[1] = "id" /\ entry[2] \in Foundation

RunEntry ==
  LET entry == Head(audit.entries)
      result == Executed(entry[1], entry[2])
      a == [audit EXCEPT !.entries = Tail(@)]
  IN /\ audit.pc = "rules" /\ audit.entries # << >>
     /\ IF Foundational(entry) THEN Continue(a)
        ELSE IF audit.closed THEN Continue([a EXCEPT !.skippedGates = @ + 1])
        ELSE Continue([RecordResult(a, result) EXCEPT !.closed = Closes(result)])
     /\ UNCHANGED <<registry, snapshot>>

PackDone ==
  /\ audit.pc = "rules" /\ audit.entries = << >>
  /\ Continue([audit EXCEPT !.pc = "packs"])
  /\ UNCHANGED <<registry, snapshot>>

Having(a, status) == {r \in a.results : r.status = status}

\* _derive_summary
Summary(a) ==
  CASE a.skippedPacks # {} \/ Having(a, "failed") # {} -> "fail"
    [] a.skippedPacks = {} /\ Having(a, "failed") = {}
       /\ (\E r \in Having(a, "blocked") : r.required) -> "incomplete"
    [] OTHER ->
         IF Having(a, "blocked") # {} THEN "pass_with_notes"
         ELSE IF Having(a, "passed") = {} /\ Having(a, "not_applicable") # {} THEN "not_applicable"
         ELSE "pass"

Compare(previous, new) ==
  IF previous = NoSnapshot THEN NoComparison
  ELSE [added |-> DOMAIN new \ DOMAIN previous, removed |-> DOMAIN previous \ DOMAIN new,
        changed |-> {f \in DOMAIN previous \cap DOMAIN new : previous[f] # new[f]}]

\* The summary of an audit with overrides is fixed at the gate; a profiled audit
\* replaces the snapshot.
Finish ==
  LET outcome == IF audit.overridden # {} THEN "completed_with_overrides" ELSE Summary(audit)
      a == Over(audit, IF audit.overridden # {} THEN "completed_with_overrides" ELSE "completed", outcome)
  IN /\ audit.pc = "packs" /\ audit.packs = {}
     /\ IF audit.signals = << >> THEN UNCHANGED snapshot /\ Continue(a)
        ELSE /\ snapshot' = audit.signals
             /\ Continue([a EXCEPT !.comparison = Compare(snapshot, audit.signals)])
     /\ UNCHANGED registry

AuditStep == BeginAudit \/ FoundationGate \/ ProfileProject \/ LoadPack \/ RunEntry \/ PackDone \/ Finish
AuditNext == AuditStep \/ \E p \in Packs : Lookup(p)

-----------------------------------------------------------------------------
(* Properties *)

Summaries ==
  {"none", "foundation_gate_failed", "completed_with_overrides", "fail", "incomplete", "pass_with_notes",
   "not_applicable", "pass"}

AuditTyped ==
  /\ registry \in [Packs -> SUBSET {"name", "id"}] /\ registry.generic \subseteq {"id"}
  /\ audit.pc \in {"idle", "gate", "profile", "packs", "rules", "over"}
  /\ audit.summary \in Summaries
  /\ audit.status \in {"none", "BLOCKED", "completed", "completed_with_overrides", "raised"}

Settled(a, guard) ==
  \E r \in a.results :
    /\ r.guard = guard
    /\ r.status \in {"passed", "not_applicable"} \/ (r.status = "blocked" /\ ~r.required)

\* A favourable summary covers everything that was asked for: every requested pack was
\* loaded, each of its rules was run and settled, and the foundation guards passed,
\* however the registry was filled by the earlier calls of the process.
SummaryCovers ==
  audit.summary \in {"pass", "pass_with_notes", "not_applicable"} =>
    /\ audit.requested \subseteq Packs
    /\ \A p \in audit.requested : \A g \in ToSet(IdOrder[p]) : Settled(audit, g)
    /\ \A g \in Foundation : Settled(audit, g)
    /\ audit.skippedGates = 0
=============================================================================
