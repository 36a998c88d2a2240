------------------------------ MODULE Recovery ------------------------------
(***************************************************************************)
(* recovery.py: the bounded, persisted retry of ONE operation of a task.   *)
(*                                                                         *)
(* A runner is one call of run_with_recovery, in a process of its own or   *)
(* not; a restart is another runner.  Everything runners share is one      *)
(* workspace_memory row, written by MemoryPromoter.promote through         *)
(* WorkspaceMemoryStore.upsert, whose SELECT runs in autocommit mode and   *)
(* whose UPDATE or INSERT is a later statement.  The operation is opaque:  *)
(* it returns, or raises what the classifier maps to a failure class.      *)
(*                                                                         *)
(* starts, completed and overlapped are history: how often the operation   *)
(* was started, whether it ever returned, and whether two runners were     *)
(* ever active at once, which nothing in the code prevents.                *)
(***************************************************************************)
EXTENDS Naturals, FiniteSets, FiniteSetsExt

CONSTANTS
  Runners,     \* calls of run_with_recovery (a bound on restarts)
  CrashProne,  \* those that may be killed, or interrupted outside the operation
  Cancellable, \* those that were given a cancellation signal
  Policy,      \* per runner: its RetryPolicy
  Raised       \* the failure classes the operation's exceptions are classified as

FailureClasses ==
  {"provider_failure", "timeout", "temporary_tool_failure", "validation_failure",
   "permission_denial", "stale_workspace", "scope_conflict", "missing_dependency", "cancellation", "unknown"}

NeverRetryable ==
  {"permission_denial", "scope_conflict", "validation_failure", "cancellation"}

\* What RetryPolicy accepts, and run_with_recovery before it reads anything; guarded
\* is require_idempotent, idempotent what the caller declares of its operation.
Accepted(policy) ==
  /\ policy.max \in Nat \ {0}
  /\ policy.retryable \subseteq FailureClasses \ NeverRetryable
  /\ policy.evidence \in BOOLEAN
  /\ {policy.guarded, policy.idempotent} \subseteq BOOLEAN
  /\ policy.max > 1 /\ policy.guarded => policy.idempotent

ASSUME ConstantsAssumption ==
  /\ IsFiniteSet(Runners)
  /\ CrashProne \subseteq Runners /\ Cancellable \subseteq Runners
  /\ Raised \subseteq FailureClasses
  /\ \A r \in Runners : Accepted(Policy[r])

VARIABLES
  row,        \* the persisted RecoveryState
  run,        \* per runner: where its call is, its attempts, what it is persisting
  cancelled,  \* the runners whose signal is set
  starts, completed, overlapped

vars == <<row, run, cancelled, starts, completed, overlapped>>

Outcome(attempts, failure, terminal, succeeded) ==
  [attempts |-> attempts, failure |-> failure, terminal |-> terminal, succeeded |-> succeeded]
NoRow == Outcome(0, "absent", FALSE, FALSE)

\* found is what upsert's SELECT saw; unsaved is history: the runner has started
\* an attempt that no write of its own has recorded.
Ready == [pc |-> "ready", attempts |-> 0, state |-> NoRow, found |-> FALSE, unsaved |-> FALSE]

Init ==
  /\ row = NoRow
  /\ run = [r \in Runners |-> Ready]
  /\ cancelled = {}
  /\ starts = 0 /\ completed = FALSE /\ overlapped = FALSE

At(r, pc) == run[r].pc = pc
Goto(r, pc) == run' = [run EXCEPT ![r].pc = pc]
Ended(r) == run[r].pc \in {"ready", "returned", "stopped", "broken", "dead"}
Stored == row # NoRow

-----------------------------------------------------------------------------
(* Before the loop *)

\* A mutant of the next definition: a run that counts its attempts from zero.
LoadedFresh(r) ==
  run' = [run EXCEPT ![r].pc = IF row.terminal THEN "stopped" ELSE "checking"]
\* A mutant of the next definition: a run that does not ask whether the row is terminal.
LoadedOpen(r) ==
  run' = [run EXCEPT ![r].pc = "checking", ![r].attempts = row.attempts]

\* What the loaded row makes of the call: a terminal one stops it.
Loaded(r) ==
  run' = [run EXCEPT ![r].pc = IF row.terminal THEN "stopped" ELSE "checking",
                     ![r].attempts = row.attempts]

LoadState(r) ==
  /\ At(r, "ready")
  /\ Loaded(r)
  /\ overlapped' = (overlapped \/ \E q \in Runners : ~Ended(q))
  /\ UNCHANGED <<row, cancelled, starts, completed>>

-----------------------------------------------------------------------------
(* The loop: check, attempt, persist *)

\* A mutant of the next definition: one attempt more than the policy allows.
OneMore(r) == run[r].attempts <= Policy[r].max

AttemptsLeft(r) == run[r].attempts < Policy[r].max

\* RecoveryStoppedError, and nothing is persisted.
Exhausted(r) ==
  /\ At(r, "checking") /\ ~AttemptsLeft(r)
  /\ Goto(r, "stopped")
  /\ UNCHANGED <<row, cancelled, starts, completed, overlapped>>

Persist(r, state) ==
  run' = [run EXCEPT ![r].pc = "select", ![r].attempts = state.attempts, ![r].state = state]

\* A mutant of the next definition: a loop that does not look at the signal.
IgnoresSignal(r) == Goto(r, "attempt")

\* is_cancelled is asked once per turn of the loop.
Checked(r) ==
  IF r \in cancelled THEN Persist(r, Outcome(run[r].attempts, "cancellation", TRUE, FALSE))
  ELSE Goto(r, "attempt")

CheckCancelled(r) ==
  /\ At(r, "checking") /\ AttemptsLeft(r)
  /\ Checked(r)
  /\ UNCHANGED <<row, cancelled, starts, completed, overlapped>>

StartAttempt(r) ==
  /\ At(r, "attempt")
  /\ run' = [run EXCEPT ![r].pc = "operating", ![r].attempts = @ + 1, ![r].unsaved = TRUE]
  /\ starts' = starts + 1
  /\ UNCHANGED <<row, cancelled, completed, overlapped>>

\* A mutant of the next definition: the result is handed out and not recorded.
SucceedUnrecorded(r) == Goto(r, "returned")

Succeed(r) == Persist(r, Outcome(run[r].attempts, "none", TRUE, TRUE))

OperationReturns(r) ==
  /\ At(r, "operating")
  /\ Succeed(r)
  /\ completed' = TRUE
  /\ UNCHANGED <<row, cancelled, starts, overlapped>>

OperationRaises(r) ==
  /\ At(r, "operating")
  /\ \E failure \in Raised :
       Persist(r, Outcome(run[r].attempts, failure,
                          failure \notin Policy[r].retryable \/ ~AttemptsLeft(r), FALSE))
  /\ UNCHANGED <<row, cancelled, starts, completed, overlapped>>

\* upsert's SELECT.
SelectRow(r) ==
  /\ At(r, "select")
  /\ run' = [run EXCEPT ![r].pc = "write", ![r].found = Stored]
  /\ UNCHANGED <<row, cancelled, starts, completed, overlapped>>

\* Where a persisted state leads: out, or on to the evidence or the next turn.
AfterWrite(r) ==
  IF run[r].state.succeeded THEN "returned"
  ELSE IF run[r].state.terminal THEN "stopped"
  ELSE IF Policy[r].evidence THEN "evidence"
  ELSE "checking"

\* upsert's UPDATE of the row it found, or the INSERT where there is still none.
WriteRow(r) ==
  /\ At(r, "write")
  /\ run[r].found \/ ~Stored
  /\ row' = run[r].state
  /\ run' = [run EXCEPT ![r].pc = AfterWrite(r), ![r].unsaved = FALSE]
  /\ UNCHANGED <<cancelled, starts, completed, overlapped>>

\* The INSERT violates idx_workspace_memory_identity: the exception ends the call.
WriteRaises(r) ==
  /\ At(r, "write")
  /\ ~run[r].found /\ Stored
  /\ Goto(r, "broken")
  /\ UNCHANGED <<row, cancelled, starts, completed, overlapped>>

\* evidence_between_attempts answers True, and the loop goes on after the delay ...
EvidenceGiven(r) ==
  /\ At(r, "evidence")
  /\ Goto(r, "checking")
  /\ UNCHANGED <<row, cancelled, starts, completed, overlapped>>

\* A mutant of the next definition: the call stops and does not say so in the row.
StopUnrecorded(r) == Goto(r, "stopped")

\* ... or it is missing or answers False: the same failure, now terminal ...
StopForEvidence(r) == Persist(r, [run[r].state EXCEPT !.terminal = TRUE])

EvidenceMissing(r) ==
  /\ At(r, "evidence")
  /\ StopForEvidence(r)
  /\ UNCHANGED <<row, cancelled, starts, completed, overlapped>>

\* ... or it raises, and nothing is persisted.
EvidenceRaises(r) ==
  /\ At(r, "evidence")
  /\ Goto(r, "broken")
  /\ UNCHANGED <<row, cancelled, starts, completed, overlapped>>

-----------------------------------------------------------------------------
(* The environment *)

Cancel(r) ==
  /\ r \in Cancellable \ cancelled /\ ~Ended(r)
  /\ cancelled' = cancelled \cup {r}
  /\ UNCHANGED <<row, run, starts, completed, overlapped>>

Die(r) ==
  /\ r \in CrashProne /\ ~Ended(r)
  /\ Goto(r, "dead")
  /\ UNCHANGED <<row, cancelled, starts, completed, overlapped>>

RunnerStep(r) ==
  \/ LoadState(r) \/ Exhausted(r) \/ CheckCancelled(r) \/ StartAttempt(r)
  \/ OperationReturns(r) \/ OperationRaises(r)
  \/ SelectRow(r) \/ WriteRow(r) \/ WriteRaises(r)
  \/ EvidenceGiven(r) \/ EvidenceMissing(r) \/ EvidenceRaises(r)

Next == \E r \in Runners : RunnerStep(r) \/ Cancel(r) \/ Die(r)

Spec == Init /\ [][Next]_vars
-----------------------------------------------------------------------------
(* Properties *)

Budget == Max({0} \cup {Policy[r].max : r \in Runners})
States == [attempts : 0..Budget, failure : FailureClasses \cup {"none", "absent"},
           terminal : BOOLEAN, succeeded : BOOLEAN]
Pcs == {"ready", "checking", "attempt", "operating", "select", "write", "evidence",
        "returned", "stopped", "broken", "dead"}
Unsaved == {r \in Runners : run[r].unsaved}

\* The shape of the state; no count, stored or held, exceeds the largest policy.
TypeOK ==
  /\ row \in States
  /\ run \in [Runners -> [pc : Pcs, attempts : 0..Budget, state : States,
                          found : BOOLEAN, unsaved : BOOLEAN]]
  /\ cancelled \subseteq Runners
  /\ starts \in Nat /\ {completed, overlapped} \subseteq BOOLEAN

\* The persisted count is exact across restarts: every attempt ever started is in it,
\* but for those in progress and those whose runner was killed before it wrote.
\* Where runs overlap it may be too low, but never too high.
AttemptsAccounted ==
  /\ row.attempts <= starts
  /\ ~overlapped => starts = row.attempts + Cardinality(Unsaved)

\* Restarting does not buy attempts: the operation is started at most as often as
\* the largest policy says, and once more for every attempt a killed runner lost.
BudgetHeld ==
  ~overlapped => starts <= Budget + Cardinality(Unsaved)

\* A terminal row is the end, for later runs too: it is not written again and the
\* operation is not started again.
TerminalFinal ==
  [][~overlapped' /\ row.terminal => row' = row /\ starts' = starts]_vars

\* Each way a call ends is in the row: a result handed to the caller as a success,
\* a stop as terminal, unless the row leaves the caller's policy no attempt.
EndsRecorded ==
  ~overlapped => \A r \in Runners :
    /\ At(r, "returned") => row.succeeded
    /\ At(r, "stopped") => row.terminal \/ row.attempts >= Policy[r].max

\* A run cancelled while its operation is out starts no other attempt, whatever the
\* operation then does.
CancelStops ==
  \A r \in Cancellable : \A n \in 1..Policy[r].max :
    [](At(r, "operating") /\ r \in cancelled /\ run[r].attempts = n
         => [](run[r].attempts = n))

\* A completed operation is executed again only where its runner was killed before it
\* could say so: every other way on from a result leads to the row that blocks it.
CompletedOnce ==
  [][~overlapped' /\ completed /\ starts' # starts
       => \E r \in Runners : At(r, "dead") /\ run[r].unsaved]_vars
=============================================================================
