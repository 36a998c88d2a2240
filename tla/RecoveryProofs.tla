--------------------------- MODULE RecoveryProofs ---------------------------
(***************************************************************************)
(* Theorems about Recovery, for any finite set of runners and any accepted *)
(* policies.  SoundInv says what a runner knows whoever else runs;         *)
(* AloneInv that, while runs do not overlap, the one active runner and the *)
(* row agree but for one attempt; CompletedInv that a result is in the     *)
(* row, on its way to it, or lost with a killed runner.                    *)
(***************************************************************************)
EXTENDS Recovery, DataLemmas, FiniteSetTheorems, TLAPS

Active(r) == ~Ended(r)

\* What a runner knows, whoever else is running.
Sound(r) ==
  /\ At(r, "attempt") => AttemptsLeft(r)
  /\ run[r].attempts <= starts /\ run[r].state.attempts <= starts
  /\ run[r].pc \in {"select", "write", "evidence"} => run[r].state.attempts = run[r].attempts
  /\ run[r].state.succeeded => run[r].state.terminal
  /\ run[r].pc \in {"ready", "checking", "attempt", "evidence", "returned", "stopped"} => ~run[r].unsaved
  /\ At(r, "operating") => run[r].unsaved
  /\ At(r, "ready") => run[r].attempts = 0

SoundInv ==
  /\ \A r \in Runners : Sound(r)
  /\ row.attempts <= starts
  /\ row.succeeded => row.terminal

\* While runs do not overlap: one runner is active, on a row that is open, and the
\* row is the runner's count but for the attempt the runner has not saved.  What it
\* read of the row to write it is still so.
Alone(r) ==
  /\ \A q \in Runners : Active(q) => q = r
  /\ ~row.terminal
  /\ run[r].attempts = row.attempts + (IF run[r].unsaved THEN 1 ELSE 0)
  /\ At(r, "write") => run[r].found = Stored

AloneInv == ~overlapped => \A r \in Runners : Active(r) => Alone(r)

\* A runner with a result in its hands that is not in the row yet, or never will be.
Holding(r) ==
  /\ run[r].unsaved
  /\ At(r, "dead") \/ (run[r].pc \in {"select", "write"} /\ run[r].state.succeeded)

CompletedInv ==
  ~overlapped /\ completed => row.succeeded \/ \E r \in Runners : Holding(r)

RecoveryInv ==
  TypeOK /\ SoundInv /\ AloneInv /\ AttemptsAccounted /\ EndsRecorded /\ CompletedInv

Runs == [pc : Pcs, attempts : 0..Budget, state : States, found : BOOLEAN, unsaved : BOOLEAN]

-----------------------------------------------------------------------------
(* The budget, and the attempts that are not saved *)

\* No accepted policy exceeds the budget.
LEMMA BudgetBounds ==
  Budget \in Nat /\ \A r \in Runners : Policy[r].max \in Nat \ {0} /\ Policy[r].max <= Budget
<1> DEFINE T == {Policy[r].max : r \in Runners}
           f == [r \in Runners |-> Policy[r].max]
<1>1. IsFiniteSet(T)
  <2>1. f \in Surjection(Runners, T)
    BY DEF Surjection
  <2> QED BY <2>1, ConstantsAssumption, FS_Surjection
<1>2. \A r \in Runners : Policy[r].max \in Nat \ {0}
  BY ConstantsAssumption DEF Accepted
<1>3. {0} \cup T \in SUBSET Nat /\ {0} \cup T # {}
  BY <1>2
<1>4. IsFiniteSet({0} \cup T)
  <2>1. IsFiniteSet(T \cup {0})
    BY <1>1, FS_AddElement
  <2>2. T \cup {0} = {0} \cup T
    OBVIOUS
  <2> QED BY <2>1, <2>2
<1>5. Max({0} \cup T) \in {0} \cup T /\ \A y \in {0} \cup T : Max({0} \cup T) >= y
  BY <1>3, <1>4, MaxExists
<1>6. Budget = Max({0} \cup T)
  BY DEF Budget
<1> HIDE DEF T
<1>7. \A r \in Runners : Policy[r].max \in {0} \cup T
  BY DEF T
<1> QED BY <1>2, <1>3, <1>5, <1>6, <1>7

\* How the number of unsaved attempts follows a step of one runner.
LEMMA UnsavedCount ==
  ASSUME NEW r \in Runners, TypeOK, run' \in [Runners -> Runs],
         \A q \in Runners : q # r => run'[q] = run[q]
  PROVE  /\ Cardinality(Unsaved) \in Nat
         /\ run'[r].unsaved = run[r].unsaved => Cardinality(Unsaved') = Cardinality(Unsaved)
         /\ ~run[r].unsaved /\ run'[r].unsaved => Cardinality(Unsaved') = Cardinality(Unsaved) + 1
         /\ run[r].unsaved /\ ~run'[r].unsaved => Cardinality(Unsaved') = Cardinality(Unsaved) - 1
<1>1. IsFiniteSet(Unsaved)
  <2>1. Unsaved \in SUBSET Runners
    BY DEF Unsaved
  <2> QED BY <2>1, ConstantsAssumption, FS_Subset
<1>2. Cardinality(Unsaved) \in Nat
  BY <1>1, FS_CardinalityType
<1>3. ASSUME run'[r].unsaved = run[r].unsaved PROVE Unsaved' = Unsaved
  BY <1>3 DEF Unsaved
<1>4. ASSUME ~run[r].unsaved, run'[r].unsaved
      PROVE  Unsaved' = Unsaved \cup {r} /\ r \notin Unsaved
  BY <1>4 DEF Unsaved
<1>5. ASSUME run[r].unsaved, ~run'[r].unsaved
      PROVE  Unsaved' = Unsaved \ {r} /\ r \in Unsaved
  BY <1>5 DEF Unsaved
<1>6. Cardinality(Unsaved \cup {r}) = IF r \in Unsaved THEN Cardinality(Unsaved) ELSE Cardinality(Unsaved) + 1
  BY <1>1, FS_AddElement
<1>7. Cardinality(Unsaved \ {r}) = IF r \in Unsaved THEN Cardinality(Unsaved) - 1 ELSE Cardinality(Unsaved)
  BY <1>1, FS_RemoveElement
<1> QED BY <1>2, <1>3, <1>4, <1>5, <1>6, <1>7

-----------------------------------------------------------------------------
(* The initial state, and the shape of a step *)

\* A recovery begins with its invariant.
LEMMA RecoveryInit == Init => RecoveryInv
<1> SUFFICES ASSUME Init PROVE RecoveryInv
  OBVIOUS
<1>1. NoRow \in States
  BY BudgetBounds DEF NoRow, Outcome, States
<1>2. TypeOK
  <2>1. Ready \in Runs
    BY <1>1, BudgetBounds DEF Ready, Runs, Pcs
  <2> QED BY <1>1, <2>1 DEF Init, TypeOK, Runs
<1>3. SoundInv
  BY DEF Init, SoundInv, Sound, Ready, At, NoRow, Outcome
<1>4. AloneInv
  BY DEF Init, AloneInv, Active, Ended, Ready
<1>5. AttemptsAccounted
  <2>1. Unsaved = {}
    BY DEF Init, Ready, Unsaved
  <2> QED BY <2>1, FS_EmptySet DEF Init, AttemptsAccounted, NoRow, Outcome
<1>6. EndsRecorded
  BY DEF Init, EndsRecorded, Ready, At
<1>7. CompletedInv
  BY DEF Init, CompletedInv
<1> QED BY <1>2, <1>3, <1>4, <1>5, <1>6, <1>7 DEF RecoveryInv

\* A runner's record, as the types give it.
LEMMA RecordOf ==
  ASSUME TypeOK, NEW r \in Runners
  PROVE  /\ run \in [Runners -> Runs] /\ run[r] \in Runs
         /\ row \in States /\ row.attempts \in Nat /\ starts \in Nat
         /\ run[r].attempts \in Nat /\ run[r].attempts <= Budget
         /\ run[r].state \in States /\ run[r].state.attempts \in Nat
         /\ Policy[r].max \in Nat /\ Policy[r].max <= Budget /\ Budget \in Nat
BY BudgetBounds DEF TypeOK, Runs, States

\* The steps of a runner whose call is on its way, all but the one that starts it.
Loop(r) ==
  \/ Exhausted(r) \/ CheckCancelled(r) \/ StartAttempt(r)
  \/ OperationReturns(r) \/ OperationRaises(r) \/ SelectRow(r)
  \/ WriteRow(r) \/ WriteRaises(r) \/ EvidenceGiven(r)
  \/ EvidenceMissing(r) \/ EvidenceRaises(r) \/ Die(r)

\* Every step starts a call, is one of an active runner, or sets a signal.
LEMMA StepCases ==
  ASSUME Next
  PROVE  \E r \in Runners : LoadState(r) \/ (Active(r) /\ Loop(r)) \/ Cancel(r)
BY DEF Next, RunnerStep, Loop, Active, Ended, At, Exhausted, CheckCancelled, StartAttempt,
       OperationReturns, OperationRaises, SelectRow, WriteRow, WriteRaises, EvidenceGiven,
       EvidenceMissing, EvidenceRaises, Die

\* What each step of an active runner does to its record: the count moves only where
\* an attempt starts, and the row only where it is written.
Starts(r) ==
  /\ At(r, "attempt") /\ run'[r].pc = "operating" /\ run'[r].unsaved
  /\ run'[r].attempts = run[r].attempts + 1 /\ run'[r].state = run[r].state
  /\ starts' = starts + 1 /\ row' = row /\ completed' = completed

Writes(r) ==
  /\ At(r, "write") /\ run'[r].pc = AfterWrite(r) /\ ~run'[r].unsaved
  /\ run'[r].attempts = run[r].attempts /\ run'[r].state = run[r].state
  /\ starts' = starts /\ row' = run[r].state /\ completed' = completed

Saves(r) ==
  /\ run'[r].pc = "select" /\ run'[r].state.attempts = run[r].attempts
  /\ run'[r].state.succeeded => run'[r].state.terminal
  /\ \/ run[r].pc \in {"checking", "operating", "evidence"} /\ completed' = completed
     \/ At(r, "operating") /\ completed' = TRUE /\ run'[r].state.succeeded

Walks(r) ==
  /\ run'[r].state = run[r].state /\ completed' = completed
  /\ \/ run'[r].pc = "dead"
     \/ run'[r].pc = "broken" /\ (At(r, "evidence") \/ (At(r, "write") /\ run[r].found # Stored))
     \/ At(r, "select") /\ run'[r].pc = "write" /\ run'[r].found = Stored
     \/ At(r, "evidence") /\ run'[r].pc = "checking"
     \/ At(r, "checking") /\ run'[r].pc = "attempt" /\ AttemptsLeft(r) /\ r \notin cancelled
     \/ At(r, "checking") /\ run'[r].pc = "stopped" /\ ~AttemptsLeft(r)

Moves(r) ==
  /\ run[r].pc # "ready"
  /\ run'[r].unsaved = run[r].unsaved /\ run'[r].attempts = run[r].attempts
  /\ starts' = starts /\ row' = row
  /\ Saves(r) \/ Walks(r)

Effect(r) == overlapped' = overlapped /\ cancelled' = cancelled /\ (Starts(r) \/ Writes(r) \/ Moves(r))

\* Each action of the loop has one of the three effects, and leaves the other runners.
LEMMA LoopStep ==
  ASSUME TypeOK, SoundInv, NEW r \in Runners, Loop(r)
  PROVE  TypeOK' /\ Effect(r) /\ \A q \in Runners : q # r => run'[q] = run[q]
<1> USE RecordOf
<1>1. ASSUME NEW pc \in Pcs, Goto(r, pc)
      PROVE  /\ run' \in [Runners -> Runs]
             /\ run'[r].pc = pc /\ run'[r].attempts = run[r].attempts
             /\ run'[r].state = run[r].state /\ run'[r].unsaved = run[r].unsaved
             /\ \A q \in Runners : q # r => run'[q] = run[q]
  <2>1. run' = [run EXCEPT ![r] = [run[r] EXCEPT !.pc = pc]]
    BY <1>1 DEF Goto
  <2>2. [run[r] EXCEPT !.pc = pc] \in Runs
    BY DEF Runs
  <2> QED BY <2>1, <2>2 DEF Runs
<1>2. ASSUME NEW s \in States, Persist(r, s)
      PROVE  /\ run' \in [Runners -> Runs]
             /\ run'[r].pc = "select" /\ run'[r].attempts = s.attempts
             /\ run'[r].state = s /\ run'[r].unsaved = run[r].unsaved
             /\ \A q \in Runners : q # r => run'[q] = run[q]
  <2> DEFINE x == [run[r] EXCEPT !.pc = "select", !.attempts = s.attempts, !.state = s]
  <2>1. run' = [run EXCEPT ![r] = x]
    BY <1>2 DEF Persist
  <2>2. s.attempts \in 0..Budget
    BY DEF States
  <2>3. x \in Runs /\ x.pc = "select" /\ x.attempts = s.attempts /\ x.state = s
          /\ x.unsaved = run[r].unsaved
    BY <2>2 DEF Runs, Pcs
  <2> HIDE DEF x
  <2> QED BY <2>1, <2>3
<1>3. ASSUME NEW f \in FailureClasses \cup {"none", "absent"},
             NEW t \in BOOLEAN, NEW s \in BOOLEAN
      PROVE  /\ Outcome(run[r].attempts, f, t, s) \in States
             /\ Outcome(run[r].attempts, f, t, s).attempts = run[r].attempts
             /\ Outcome(run[r].attempts, f, t, s).terminal = t
             /\ Outcome(run[r].attempts, f, t, s).succeeded = s
  BY DEF Outcome, States
<1>4. CASE Exhausted(r)
  <2>1. Goto(r, "stopped") /\ "stopped" \in Pcs
    BY <1>4 DEF Exhausted, Pcs
  <2> QED BY <1>1, <1>4, <2>1 DEF Exhausted, TypeOK, Runs, Effect, Moves, Walks, At
<1>5. CASE CheckCancelled(r)
  <2>1. CASE r \in cancelled
    <3> DEFINE s == Outcome(run[r].attempts, "cancellation", TRUE, FALSE)
    <3>1. s \in States /\ s.attempts = run[r].attempts /\ ~s.succeeded
      BY <1>3 DEF FailureClasses
    <3>2. Persist(r, s)
      BY <1>5, <2>1 DEF CheckCancelled, Checked
    <3> HIDE DEF s
    <3> QED BY <1>2, <1>5, <3>1, <3>2 DEF CheckCancelled, TypeOK, Runs, Effect, Moves, Saves, At
  <2>2. CASE r \notin cancelled
    <3>1. Goto(r, "attempt") /\ "attempt" \in Pcs
      BY <1>5, <2>2 DEF CheckCancelled, Checked, Pcs
    <3> QED BY <1>1, <1>5, <2>2, <3>1 DEF CheckCancelled, TypeOK, Runs, Effect, Moves, Walks, At
  <2> QED BY <2>1, <2>2
<1>6. CASE StartAttempt(r)
  <2>1. run[r].attempts + 1 \in 0..Budget
    BY <1>6 DEF StartAttempt, SoundInv, Sound, AttemptsLeft
  <2>2. run' \in [Runners -> Runs]
    BY <1>6, <2>1 DEF StartAttempt, Runs, Pcs
  <2> QED BY <1>6, <2>2 DEF StartAttempt, TypeOK, Runs, Effect, Starts, At
<1>7. CASE OperationReturns(r)
  <2> DEFINE s == Outcome(run[r].attempts, "none", TRUE, TRUE)
  <2>1. s \in States /\ s.attempts = run[r].attempts /\ s.terminal /\ s.succeeded
    BY <1>3
  <2>2. Persist(r, s)
    BY <1>7 DEF OperationReturns, Succeed
  <2> HIDE DEF s
  <2> QED BY <1>2, <1>7, <2>1, <2>2 DEF OperationReturns, TypeOK, Runs, Effect, Moves, Saves, At
<1>8. CASE OperationRaises(r)
  <2>1. PICK failure \in Raised :
          Persist(r, Outcome(run[r].attempts, failure,
                             failure \notin Policy[r].retryable \/ ~AttemptsLeft(r), FALSE))
    BY <1>8 DEF OperationRaises
  <2> DEFINE t == failure \notin Policy[r].retryable \/ ~AttemptsLeft(r)
             s == Outcome(run[r].attempts, failure, t, FALSE)
  <2>2. s \in States /\ s.attempts = run[r].attempts /\ ~s.succeeded
    <3>1. t \in BOOLEAN /\ failure \in FailureClasses
      BY ConstantsAssumption
    <3> HIDE DEF t
    <3> QED BY <1>3, <3>1
  <2>3. Persist(r, s)
    BY <2>1
  <2> HIDE DEF s
  <2> QED BY <1>2, <1>8, <2>2, <2>3 DEF OperationRaises, TypeOK, Runs, Effect, Moves, Saves, At
<1>9. CASE SelectRow(r)
  <2>1. run' \in [Runners -> Runs]
    <3>1. Stored \in BOOLEAN
      BY DEF Stored
    <3> HIDE DEF Stored
    <3> QED BY <1>9, <3>1 DEF SelectRow, Runs, Pcs
  <2> QED BY <1>9, <2>1 DEF SelectRow, TypeOK, Runs, Effect, Moves, Walks, At
<1>10. CASE WriteRow(r)
  <2>1. AfterWrite(r) \in Pcs
    BY DEF AfterWrite, Pcs
  <2>2. run' \in [Runners -> Runs]
    BY <1>10, <2>1 DEF WriteRow, Runs
  <2> QED BY <1>10, <2>2 DEF WriteRow, TypeOK, Runs, Effect, Writes, At
<1>11. CASE WriteRaises(r)
  <2>1. Goto(r, "broken") /\ "broken" \in Pcs
    BY <1>11 DEF WriteRaises, Pcs
  <2> QED BY <1>1, <1>11, <2>1 DEF WriteRaises, TypeOK, Runs, Effect, Moves, Walks, At
<1>12. CASE EvidenceGiven(r)
  <2>1. Goto(r, "checking") /\ "checking" \in Pcs
    BY <1>12 DEF EvidenceGiven, Pcs
  <2> QED BY <1>1, <1>12, <2>1 DEF EvidenceGiven, TypeOK, Runs, Effect, Moves, Walks, At
<1>13. CASE EvidenceMissing(r)
  <2> DEFINE s == [run[r].state EXCEPT !.terminal = TRUE]
  <2>1. s \in States /\ s.terminal /\ s.attempts = run[r].attempts
    BY <1>13 DEF EvidenceMissing, States, SoundInv, Sound, At
  <2>2. Persist(r, s)
    BY <1>13 DEF EvidenceMissing, StopForEvidence
  <2> HIDE DEF s
  <2> QED BY <1>2, <1>13, <2>1, <2>2 DEF EvidenceMissing, TypeOK, Runs, Effect, Moves, Saves, At
<1>14. CASE EvidenceRaises(r)
  <2>1. Goto(r, "broken") /\ "broken" \in Pcs
    BY <1>14 DEF EvidenceRaises, Pcs
  <2> QED BY <1>1, <1>14, <2>1 DEF EvidenceRaises, TypeOK, Runs, Effect, Moves, Walks, At
<1>15. CASE Die(r)
  <2>1. Goto(r, "dead") /\ "dead" \in Pcs
    BY <1>15 DEF Die, Pcs
  <2> QED BY <1>1, <1>15, <2>1 DEF Die, TypeOK, Runs, Effect, Moves, Walks, At, Ended
<1> QED BY <1>4, <1>5, <1>6, <1>7, <1>8, <1>9, <1>10, <1>11, <1>12, <1>13, <1>14, <1>15 DEF Loop

-----------------------------------------------------------------------------
(* One step and each part of the invariant *)

\* A runner that loads its state takes the attempts of the row, and leaves everything else.
LEMMA LoadStep ==
  ASSUME TypeOK, SoundInv, NEW r \in Runners, LoadState(r)
  PROVE  /\ TypeOK' /\ row' = row /\ starts' = starts /\ cancelled' = cancelled
         /\ completed' = completed
         /\ run'[r].pc = (IF row.terminal THEN "stopped" ELSE "checking")
         /\ run'[r].attempts = row.attempts /\ run'[r].state = run[r].state
         /\ run'[r].unsaved = run[r].unsaved /\ ~run[r].unsaved
         /\ \A q \in Runners : q # r => run'[q] = run[q]
         /\ ~overlapped' => ~overlapped /\ \A q \in Runners : Ended(q)
<1> USE RecordOf
<1> DEFINE x == [run[r] EXCEPT !.pc = IF row.terminal THEN "stopped" ELSE "checking",
                               !.attempts = row.attempts]
<1>1. run' = [run EXCEPT ![r] = x]
  BY DEF LoadState, Loaded
<1>2. x \in Runs /\ x.pc = (IF row.terminal THEN "stopped" ELSE "checking")
        /\ x.attempts = row.attempts /\ x.state = run[r].state /\ x.unsaved = run[r].unsaved
  BY DEF Runs, Pcs, States
<1> HIDE DEF x
<1>3. run' \in [Runners -> Runs] /\ run'[r] = x /\ \A q \in Runners : q # r => run'[q] = run[q]
  BY <1>1, <1>2
<1>4. overlapped' \in BOOLEAN /\ (~overlapped' => ~overlapped /\ \A q \in Runners : Ended(q))
  BY DEF LoadState
<1>5. ~run[r].unsaved
  BY DEF LoadState, SoundInv, Sound, At
<1>6. row' = row /\ starts' = starts /\ cancelled' = cancelled
        /\ completed' = completed
  BY DEF LoadState
<1>7. TypeOK'
  BY <1>3, <1>4, <1>6 DEF TypeOK, Runs
<1> QED BY <1>2, <1>3, <1>4, <1>5, <1>6, <1>7

\* Every step keeps what a runner knows, whoever else runs.
LEMMA SoundStep ==
  ASSUME RecoveryInv, NEW r \in Runners, LoadState(r) \/ (Active(r) /\ Loop(r)) \/ Cancel(r)
  PROVE  TypeOK' /\ SoundInv'
<1> USE RecordOf DEF RecoveryInv
<1>1. ASSUME NEW q \in Runners, run'[q] = run[q], starts' >= starts, starts' \in Nat
      PROVE  Sound(q)'
  <2>1. Sound(q)
    BY DEF SoundInv
  <2>2. run[q].attempts \in Nat /\ run[q].state.attempts \in Nat /\ starts \in Nat
    BY RecordOf
  <2> QED BY <1>1, <2>1, <2>2 DEF Sound, At, AttemptsLeft
<1>2. CASE LoadState(r)
  <2>1. Sound(r)'
    BY <1>2, LoadStep DEF Sound, SoundInv, At
  <2> QED BY <1>1, <1>2, <2>1, LoadStep DEF SoundInv
<1>3. CASE Active(r) /\ Loop(r)
  <2>1. TypeOK' /\ Effect(r) /\ \A q \in Runners : q # r => run'[q] = run[q]
    BY <1>3, LoopStep
  <2>2. Sound(r)
    BY DEF SoundInv
  <2>3. Sound(r)' /\ starts' >= starts /\ row'.attempts <= starts' /\ (row'.succeeded => row'.terminal)
    <3>1. CASE Starts(r)
      BY <2>2, <3>1 DEF Sound, Starts, At, SoundInv
    <3>2. CASE Writes(r)
      BY <2>2, <3>2 DEF Sound, Writes, At, AfterWrite, SoundInv
    <3>3. CASE Moves(r)
      BY <2>2, <3>3 DEF Sound, Moves, Saves, Walks, At, AttemptsLeft, SoundInv
    <3> QED BY <2>1, <3>1, <3>2, <3>3 DEF Effect
  <2>4. starts' \in Nat
    BY <2>1 DEF TypeOK
  <2> QED BY <1>1, <2>1, <2>3, <2>4 DEF SoundInv
<1>4. CASE Cancel(r)
  <2>1. TypeOK' /\ run' = run /\ row' = row /\ starts' = starts
    BY <1>4, ConstantsAssumption DEF Cancel, TypeOK
  <2> QED BY <1>1, <2>1 DEF SoundInv
<1> QED BY <1>2, <1>3, <1>4

\* A step of an active runner, while runs do not overlap, is of the only one.
LEMMA AloneStep ==
  ASSUME RecoveryInv, NEW r \in Runners, LoadState(r) \/ (Active(r) /\ Loop(r)) \/ Cancel(r)
  PROVE  AloneInv'
<1> USE RecordOf DEF RecoveryInv
<1> SUFFICES ASSUME ~overlapped', NEW q \in Runners, Active(q)' PROVE Alone(q)'
  BY DEF AloneInv
<1>1. ASSUME \A p \in Runners : p # r => run'[p] = run[p] /\ Ended(p)
      PROVE  q = r /\ \A p \in Runners : Active(p)' => p = r
  BY <1>1 DEF Active, Ended
<1>2. CASE LoadState(r)
  BY <1>1, <1>2, LoadStep DEF Active, Ended, Alone, At
<1>3. CASE Active(r) /\ Loop(r)
  <2>1. Effect(r) /\ \A p \in Runners : p # r => run'[p] = run[p]
    BY <1>3, LoopStep
  <2>2. Alone(r) /\ Sound(r)
    BY <1>3, <2>1 DEF AloneInv, Effect, SoundInv
  <2>3. q = r /\ \A p \in Runners : Active(p)' => p = r
    BY <1>1, <2>1, <2>2 DEF Alone, Active
  <2>4. ~row'.terminal /\ run'[r].attempts = row'.attempts + (IF run'[r].unsaved THEN 1 ELSE 0)
    <3>1. CASE Starts(r)
      BY <2>2, <3>1 DEF Starts, Alone, Sound, At
    <3>2. CASE Writes(r)
      BY <2>2, <2>3, <3>2 DEF Writes, Alone, Sound, At, AfterWrite, Active, Ended
    <3>3. CASE Moves(r)
      BY <2>2, <3>3 DEF Moves, Alone
    <3> QED BY <2>1, <3>1, <3>2, <3>3 DEF Effect
  <2>5. run'[r].pc = "write" => run'[r].found = Stored'
    BY <2>1 DEF Effect, Starts, Writes, AfterWrite, Moves, Saves, Walks, Stored, At
  <2> QED BY <2>3, <2>4, <2>5 DEF Alone, At
<1>4. CASE Cancel(r)
  <2>1. run' = run /\ row' = row /\ overlapped' = overlapped
    BY <1>4 DEF Cancel
  <2> QED BY <2>1 DEF AloneInv, Alone, Active, Ended, Stored, At
<1> QED BY <1>2, <1>3, <1>4

\* Every step keeps the attempts accounted for.
LEMMA AccountedStep ==
  ASSUME RecoveryInv, NEW r \in Runners, LoadState(r) \/ (Active(r) /\ Loop(r)) \/ Cancel(r)
  PROVE  AttemptsAccounted'
<1> USE RecordOf DEF RecoveryInv
<1>1. TypeOK' /\ row'.attempts <= starts'
  BY SoundStep DEF SoundInv
<1>2. run' \in [Runners -> Runs]
  BY <1>1 DEF TypeOK, Runs
<1> SUFFICES ASSUME ~overlapped' PROVE starts' = row'.attempts + Cardinality(Unsaved')
  BY <1>1 DEF AttemptsAccounted, Unsaved
<1>3. CASE LoadState(r)
  <2>1. Cardinality(Unsaved') = Cardinality(Unsaved)
    BY <1>2, <1>3, LoadStep, UnsavedCount
  <2>2. starts = row.attempts + Cardinality(Unsaved) /\ row' = row /\ starts' = starts
    BY <1>3, LoadStep DEF AttemptsAccounted
  <2> QED BY <2>1, <2>2
<1>4. CASE Active(r) /\ Loop(r)
  <2>1. Effect(r) /\ \A q \in Runners : q # r => run'[q] = run[q]
    BY <1>4, LoopStep
  <2>2. Alone(r) /\ Sound(r) /\ starts = row.attempts + Cardinality(Unsaved)
    BY <1>4, <2>1 DEF AloneInv, Effect, SoundInv, AttemptsAccounted
  <2>3. /\ Cardinality(Unsaved) \in Nat
        /\ run'[r].unsaved = run[r].unsaved => Cardinality(Unsaved') = Cardinality(Unsaved)
        /\ ~run[r].unsaved /\ run'[r].unsaved => Cardinality(Unsaved') = Cardinality(Unsaved) + 1
        /\ run[r].unsaved /\ ~run'[r].unsaved => Cardinality(Unsaved') = Cardinality(Unsaved) - 1
    BY <1>2, <2>1, UnsavedCount
  <2> HIDE DEF RecoveryInv
  <2>4. CASE Starts(r)
    <3>1. ~run[r].unsaved /\ run'[r].unsaved /\ starts' = starts + 1 /\ row' = row
      BY <2>2, <2>4 DEF Starts, Sound, At
    <3>2. row.attempts \in Nat /\ starts \in Nat
      BY DEF RecoveryInv
    <3> QED BY <2>2, <2>3, <3>1, <3>2
  <2>5. CASE Writes(r)
    <3>1. row'.attempts = run[r].attempts /\ starts' = starts /\ ~run'[r].unsaved
      BY <2>2, <2>5 DEF Writes, Sound, At
    <3>2. run[r].attempts = row.attempts + (IF run[r].unsaved THEN 1 ELSE 0)
      BY <2>2 DEF Alone
    <3>3. run[r].unsaved \in BOOLEAN
      BY DEF Runs, RecoveryInv
    <3>4. CASE run[r].unsaved
      BY <2>2, <2>3, <3>1, <3>2, <3>4 DEF RecoveryInv
    <3>5. CASE ~run[r].unsaved
      <4>1. run'[r].unsaved = run[r].unsaved
        BY <1>2, <3>1, <3>3, <3>5 DEF Runs
      <4> QED BY <2>2, <2>3, <3>1, <3>2, <3>5, <4>1 DEF RecoveryInv
    <3> QED BY <3>4, <3>5
  <2>6. CASE Moves(r)
    BY <2>2, <2>3, <2>6 DEF Moves
  <2> QED BY <2>1, <2>4, <2>5, <2>6 DEF Effect
<1>5. CASE Cancel(r)
  <2>1. run' = run /\ row' = row /\ starts' = starts /\ overlapped' = overlapped
    BY <1>5 DEF Cancel
  <2>2. Unsaved' = Unsaved
    BY <2>1 DEF Unsaved
  <2> QED BY <2>1, <2>2 DEF AttemptsAccounted
<1> QED BY <1>3, <1>4, <1>5

\* Every step keeps that the way a call ended is in the row.
LEMMA EndsStep ==
  ASSUME RecoveryInv, NEW r \in Runners, LoadState(r) \/ (Active(r) /\ Loop(r)) \/ Cancel(r)
  PROVE  EndsRecorded'
<1> USE RecordOf DEF RecoveryInv
<1> SUFFICES ASSUME ~overlapped', NEW q \in Runners
             PROVE  /\ run'[q].pc = "returned" => row'.succeeded
                    /\ run'[q].pc = "stopped" => row'.terminal \/ row'.attempts >= Policy[q].max
  BY DEF EndsRecorded, At
<1>1. CASE LoadState(r)
  BY <1>1, LoadStep DEF EndsRecorded, At
<1>2. CASE Active(r) /\ Loop(r)
  <2>1. Effect(r) /\ \A p \in Runners : p # r => run'[p] = run[p]
    BY <1>2, LoopStep
  <2>2. Alone(r) /\ Sound(r) /\ Sound(q)
    BY <1>2, <2>1 DEF AloneInv, Effect, SoundInv
  <2>3. /\ run[q].pc = "returned" => row.succeeded
        /\ run[q].pc = "stopped" => row.terminal \/ row.attempts >= Policy[q].max
    BY <2>1 DEF EndsRecorded, At, Effect
  <2>4. ~row.terminal /\ ~row.succeeded
    BY <2>2 DEF Alone, SoundInv
  <2>5. CASE Starts(r)
    BY <2>1, <2>3, <2>5 DEF Starts
  <2>6. CASE Writes(r)
    <3>1. row' = run[r].state /\ run[r].state.attempts >= row.attempts
      BY <2>2, <2>6 DEF Writes, Alone, Sound, At
    <3>2. CASE q # r
      BY <2>1, <2>3, <2>4, <3>1, <3>2
    <3>3. CASE q = r
      BY <2>6, <3>1, <3>3 DEF Writes, AfterWrite
    <3> QED BY <3>2, <3>3
  <2>7. CASE Moves(r)
    BY <2>1, <2>2, <2>3, <2>7 DEF Moves, Saves, Walks, Alone, Sound, At, AttemptsLeft
  <2> QED BY <2>1, <2>5, <2>6, <2>7 DEF Effect
<1>3. CASE Cancel(r)
  BY <1>3 DEF Cancel, EndsRecorded, At
<1> QED BY <1>1, <1>2, <1>3

\* Every step keeps track of a result.
LEMMA CompletedStep ==
  ASSUME RecoveryInv, NEW r \in Runners, LoadState(r) \/ (Active(r) /\ Loop(r)) \/ Cancel(r)
  PROVE  CompletedInv'
<1> USE RecordOf DEF RecoveryInv
<1> SUFFICES ASSUME ~overlapped', completed'
             PROVE  row'.succeeded \/ \E q \in Runners : Holding(q)'
  BY DEF CompletedInv
<1>1. ASSUME NEW q \in Runners, Holding(q), run'[q] = run[q] PROVE Holding(q)'
  BY <1>1 DEF Holding, At
<1>2. CASE LoadState(r)
  <2>1. row.succeeded \/ \E q \in Runners : Holding(q)
    BY <1>2, LoadStep DEF CompletedInv
  <2>2. \A q \in Runners : Holding(q) => q # r
    BY <1>2, LoadStep DEF Holding
  <2> QED BY <1>1, <1>2, <2>1, <2>2, LoadStep
<1>3. CASE Active(r) /\ Loop(r)
  <2>1. Effect(r) /\ \A q \in Runners : q # r => run'[q] = run[q]
    BY <1>3, LoopStep
  <2>2. Alone(r) /\ Sound(r)
    BY <1>3, <2>1 DEF AloneInv, Effect, SoundInv
  <2>3. CASE ~completed
    <3>1. At(r, "operating") /\ Moves(r) /\ Saves(r) /\ run'[r].state.succeeded
      BY <2>1, <2>3 DEF Effect, Starts, Writes, Moves, Saves, Walks
    <3> QED BY <2>2, <3>1 DEF Sound, Moves, Saves, Holding, At
  <2>4. CASE completed
    <3>1. ~row.succeeded
      BY <2>2 DEF Alone, SoundInv
    <3>2. PICK q \in Runners : Holding(q)
      BY <2>1, <2>4, <3>1 DEF CompletedInv, Effect
    <3>3. CASE q # r
      BY <1>1, <2>1, <3>2, <3>3
    <3>4. CASE q = r
      <4>1. run[r].pc \in {"select", "write"} /\ run[r].state.succeeded /\ run[r].unsaved
        BY <1>3, <3>2, <3>4 DEF Holding, Active, Ended, At
      <4>2. CASE Starts(r)
        BY <4>1, <4>2 DEF Starts, At
      <4>3. CASE Writes(r)
        BY <4>1, <4>3 DEF Writes
      <4>4. CASE Moves(r)
        <5>1. Walks(r)
          BY <4>1, <4>4 DEF Moves, Saves, At
        <5>2. run'[r].pc = "dead" \/ run'[r].pc = "write"
          BY <2>2, <4>1, <5>1 DEF Walks, Alone, At
        <5> QED BY <4>1, <4>4, <5>1, <5>2 DEF Moves, Walks, Holding, At
      <4> QED BY <2>1, <4>2, <4>3, <4>4 DEF Effect
    <3> QED BY <3>3, <3>4
  <2> QED BY <2>3, <2>4
<1>4. CASE Cancel(r)
  BY <1>4 DEF Cancel, CompletedInv, Holding, At
<1> QED BY <1>2, <1>3, <1>4

-----------------------------------------------------------------------------
(* The theorems *)

\* Every step keeps the invariant of the recovery.
LEMMA RecoveryStep == RecoveryInv /\ [Next]_vars => RecoveryInv'
<1> SUFFICES ASSUME RecoveryInv, [Next]_vars PROVE RecoveryInv'
  OBVIOUS
<1>1. CASE Next
  <2>1. PICK r \in Runners : LoadState(r) \/ (Active(r) /\ Loop(r)) \/ Cancel(r)
    BY <1>1, StepCases
  <2> QED BY <2>1, SoundStep, AloneStep, AccountedStep, EndsStep, CompletedStep DEF RecoveryInv
<1>2. CASE UNCHANGED vars
  BY <1>2 DEF vars, RecoveryInv, TypeOK, SoundInv, Sound, AloneInv, Alone, Active, Ended,
              Stored, CompletedInv, Holding,
              AttemptsAccounted, Unsaved, EndsRecorded, At, AttemptsLeft
<1> QED BY <1>1, <1>2

\* What holds of the persisted row and of the runners in every reachable state.
THEOREM RecoveryInvariant == Spec => []RecoveryInv
BY RecoveryInit, RecoveryStep, PTL DEF Spec

\* Every reachable state has its declared shape; in particular no count exceeds the
\* largest policy.
THEOREM TypedRecovery == Spec => []TypeOK
<1>1. RecoveryInv => TypeOK
  BY DEF RecoveryInv
<1> QED BY <1>1, RecoveryInvariant, PTL

\* The persisted count of attempts is exact while runs do not overlap, and never too
\* high where they do (the count run_with_recovery loads and persists).
THEOREM Accounted == Spec => []AttemptsAccounted
<1>1. RecoveryInv => AttemptsAccounted
  BY DEF RecoveryInv
<1> QED BY <1>1, RecoveryInvariant, PTL

\* Restarting run_with_recovery does not buy attempts.
THEOREM Budgeted == Spec => []BudgetHeld
<1>1. RecoveryInv => BudgetHeld
  <2> SUFFICES ASSUME RecoveryInv, ~overlapped
               PROVE  starts <= Budget + Cardinality(Unsaved)
    BY DEF BudgetHeld
  <2>1. row.attempts \in Nat /\ row.attempts <= Budget /\ Budget \in Nat
    BY BudgetBounds DEF RecoveryInv, TypeOK, States
  <2>2. starts = row.attempts + Cardinality(Unsaved)
    BY DEF RecoveryInv, AttemptsAccounted
  <2>3. Unsaved \in SUBSET Runners
    BY DEF Unsaved
  <2>4. Cardinality(Unsaved) \in Nat
    BY <2>3, ConstantsAssumption, FS_Subset, FS_CardinalityType
  <2> QED BY <2>1, <2>2, <2>4
<1> QED BY <1>1, RecoveryInvariant, PTL

\* Each way a call ends is in the row it leaves.
THEOREM EndsInRow == Spec => []EndsRecorded
<1>1. RecoveryInv => EndsRecorded
  BY DEF RecoveryInv
<1> QED BY <1>1, RecoveryInvariant, PTL

\* A terminal row is never written again and no attempt starts after it: the check of
\* a loaded state at the head of run_with_recovery suffices while runs do not overlap.
THEOREM TerminalIsFinal == Spec => TerminalFinal
<1>1. RecoveryInv /\ [Next]_vars
        => (~overlapped' /\ row.terminal => row' = row /\ starts' = starts)
  <2> SUFFICES ASSUME RecoveryInv, [Next]_vars, ~overlapped', row.terminal
               PROVE  row' = row /\ starts' = starts
    OBVIOUS
  <2>1. CASE Next
    <3>1. PICK r \in Runners : LoadState(r) \/ (Active(r) /\ Loop(r)) \/ Cancel(r)
      BY <2>1, StepCases
    <3>2. CASE Active(r) /\ Loop(r)
      <4>1. overlapped' = overlapped
        BY <3>2, LoopStep DEF RecoveryInv, Effect
      <4> QED BY <3>2, <4>1 DEF RecoveryInv, AloneInv, Alone
    <3> QED BY <3>1, <3>2 DEF LoadState, Cancel
  <2>2. CASE UNCHANGED vars
    BY <2>2 DEF vars
  <2> QED BY <2>1, <2>2
<1> QED BY <1>1, RecoveryInvariant, PTL DEF Spec, TerminalFinal

\* run_with_recovery executes an operation again after it completed only where a killed
\* runner took the result with it.
THEOREM CompletedOnceUnlessKilled == Spec => CompletedOnce
<1> DEFINE Lost == \E r \in Runners : At(r, "dead") /\ run[r].unsaved
<1>1. RecoveryInv /\ [Next]_vars => (~overlapped' /\ completed /\ starts' # starts => Lost)
  <2> SUFFICES ASSUME RecoveryInv, [Next]_vars, ~overlapped', completed, starts' # starts
               PROVE  Lost
    OBVIOUS
  <2>1. Next
    BY DEF vars
  <2>2. PICK r \in Runners : LoadState(r) \/ (Active(r) /\ Loop(r)) \/ Cancel(r)
    BY <2>1, StepCases
  <2>3. Active(r) /\ Loop(r)
    BY <2>2 DEF LoadState, Cancel
  <2>4. Effect(r) /\ Starts(r)
    BY <2>3, LoopStep DEF RecoveryInv, Effect, Writes, Moves
  <2>5. Alone(r) /\ ~row.succeeded
    BY <2>3, <2>4 DEF RecoveryInv, Effect, AloneInv, Alone, SoundInv
  <2>6. PICK q \in Runners : Holding(q)
    BY <2>4, <2>5 DEF RecoveryInv, CompletedInv, Effect
  <2>7. At(q, "dead")
    <3>1. ~(run[q].pc \in {"select", "write"})
      BY <2>4, <2>5 DEF Alone, Active, Ended, Starts, At
    <3> QED BY <2>6, <3>1 DEF Holding
  <2> QED BY <2>6, <2>7 DEF Holding
<1> QED BY <1>1, RecoveryInvariant, PTL DEF Spec, CompletedOnce

\* Past the check of the signal, with the signal set, n attempts made.
Stopping(r, n) ==
  r \in cancelled /\ run[r].attempts = n /\ run[r].pc \notin {"ready", "attempt"}

\* A runner past the check of a signal that is set makes no further attempt.
LEMMA StoppingStep ==
  ASSUME RecoveryInv, [Next]_vars, NEW r \in Runners, NEW n, Stopping(r, n)
  PROVE  Stopping(r, n)'
<1>1. CASE Next
  <2>1. PICK q \in Runners : LoadState(q) \/ (Active(q) /\ Loop(q)) \/ Cancel(q)
    BY <1>1, StepCases
  <2>2. CASE LoadState(q)
    <3>1. q # r
      BY <2>2 DEF LoadState, At, Stopping
    <3> QED BY <2>2, <3>1, LoadStep DEF RecoveryInv, Stopping
  <2>3. CASE Active(q) /\ Loop(q)
    <3>1. Effect(q) /\ \A p \in Runners : p # q => run'[p] = run[p]
      BY <2>3, LoopStep DEF RecoveryInv
    <3>2. CASE q # r
      BY <3>1, <3>2 DEF Effect, Stopping
    <3>3. CASE q = r
      BY <3>1, <3>3 DEF Effect, Starts, Writes, Moves, Saves, Walks, AfterWrite, At, Stopping
    <3> QED BY <3>2, <3>3
  <2>4. CASE Cancel(q)
    BY <2>4 DEF Cancel, Stopping
  <2> QED BY <2>1, <2>2, <2>3, <2>4
<1>2. CASE UNCHANGED vars
  BY <1>2 DEF vars, Stopping
<1> QED BY <1>1, <1>2

\* A run whose signal is set while its operation is out starts no other attempt.
THEOREM CancelIsFinal == Spec => CancelStops
<1> SUFFICES ASSUME NEW r \in Cancellable, NEW n \in 1..Policy[r].max
             PROVE  Spec => [](At(r, "operating") /\ r \in cancelled /\ run[r].attempts = n
                                 => [](run[r].attempts = n))
  BY DEF CancelStops
<1>1. r \in Runners
  BY ConstantsAssumption
<1>2. RecoveryInv /\ [Next]_vars /\ Stopping(r, n) => Stopping(r, n)'
  BY <1>1, StoppingStep
<1>3. At(r, "operating") /\ r \in cancelled /\ run[r].attempts = n => Stopping(r, n)
  BY DEF At, Stopping
<1>4. Stopping(r, n) => run[r].attempts = n
  BY DEF Stopping
<1> QED BY <1>2, <1>3, <1>4, RecoveryInvariant, PTL DEF Spec
=============================================================================
