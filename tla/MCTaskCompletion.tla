-------------------------- MODULE MCTaskCompletion --------------------------
(* Finite instances of TaskCompletion. *)
EXTENDS TaskCompletion, TLC

CONSTANTS p1, p2, p3

\* One process has the default catalog, the others run a version that requires no test.
MixedPolicy == [p \in Procs |-> IF p = p1 THEN Kinds ELSE Kinds \ {"focused_test"}]
=============================================================================
