---------------------------- MODULE MCGovernedRun ----------------------------
(* Finite instances of GovernedRun. *)
EXTENDS GovernedRun, TLC

CONSTANTS r1, r2, c1, c2

\* A read, a file to make, and a call with arguments the tool does not have.
MCRequests ==
  {[tool |-> "read", path |-> "a", valid |-> TRUE],
   [tool |-> "create", path |-> "a", valid |-> TRUE],
   [tool |-> "create", path |-> "a", valid |-> FALSE]}
MCCircumstances == {{}, {"intent_scope_conflict"}, {"explicitly_forbidden"}}
=============================================================================
