----------------------------- MODULE MCRecovery -----------------------------
(* Finite instances of Recovery. *)
EXTENDS Recovery, TLC

CONSTANTS r1, r2, r3

Retry(max, evidence) ==
  [max |-> max, retryable |-> {"timeout"}, evidence |-> evidence,
   guarded |-> evidence, idempotent |-> evidence]

\* Three attempts with evidence between them, two without, and a single one.
ThreePolicies == r1 :> Retry(3, TRUE) @@ r2 :> Retry(2, FALSE) @@ r3 :> Retry(1, FALSE)
=============================================================================
