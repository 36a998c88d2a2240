----------------------------- MODULE RuleGovernance -----------------------------
(***************************************************************************)
(* Audits and the rule gatekeeper over one workspace that users edit.  The *)
(* processes share the files only; a behaviour has one of the two at work, *)
(* the other would only multiply the interleavings with the users' edits.  *)
(***************************************************************************)
EXTENDS AuditController, RuleGatekeeper

CONSTANT Starts       \* the workspaces each workload starts from (a bound)

\* The files of a start were there before the edits.
ASSUME StartAssumption ==
  \A w \in DOMAIN Starts : \A d \in Starts[w] : DOMAIN d = Files /\ \A f \in Files : d[f].edition = 0

VARIABLE workload     \* "audits" or "rules"

vars == <<disk, edits, registry, audit, snapshot, audits, profile, proposals, decisions, call, writes, saves, workload>>

Init ==
  /\ workload \in DOMAIN Starts /\ disk \in Starts[workload] /\ edits = 0
  /\ AuditInit /\ KeeperInit

\* The gatekeeper reads the evidence alone: edits of other files are left out beside it.
Users ==
  /\ \E w \in Writings : (workload = "audits" \/ w[1] \in Evidence) /\ EditFile(w[1], w[2])
  /\ UNCHANGED <<registry, audit, snapshot, audits, profile, proposals, decisions, call, writes, saves, workload>>

Audits ==
  /\ workload = "audits" /\ AuditNext
  /\ UNCHANGED <<profile, proposals, decisions, call, writes, saves, workload>>

Rules ==
  /\ workload = "rules" /\ KeeperNext
  /\ UNCHANGED <<registry, audit, snapshot, audits, workload>>

Next == Users \/ Audits \/ Rules

Spec == Init /\ [][Next]_vars

RuleTypeOK == AuditTyped /\ KeeperTyped
=============================================================================
