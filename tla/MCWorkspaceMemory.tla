----------------------------- MODULE MCWorkspaceMemory -----------------------------
(***************************************************************************)
(* Two processes on one session, a fact of each sort and a query that      *)
(* returns one row: enough for a verified row beyond the limit, for an     *)
(* identity that is recorded again after its row was superseded, and for   *)
(* every pair of calls to overlap.                                         *)
(***************************************************************************)
EXTENDS WorkspaceMemory, TLC

Symmetry == Permutations(Callers) \cup Permutations(Contents) \cup Permutations(Providers)
=============================================================================
