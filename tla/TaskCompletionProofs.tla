------------------------ MODULE TaskCompletionProofs ------------------------
(***************************************************************************)
(* Theorems about TaskCompletion, for any number of processes, files and   *)
(* edits and any completion policies of the processes.                     *)
(***************************************************************************)
EXTENDS TaskCompletion, DataLemmas, FiniteSetTheorems, SequenceTheorems, TLAPS

\* Every required kind has a row that passes.
Backed(rows) == contract # {} /\ \A k \in contract : "PASS" \in StatusesOf(rows, k)

\* A git_status row stands on an earlier source_change row of rows.
Reconciled(row, rows) ==
  row.kind = "git_status" /\ row.status = "PASS" =>
    /\ row.source \in DOMAIN rows
    /\ rows[row.source].kind = "source_change" /\ rows[row.source].status = "PASS"
    /\ TaskLines(rows[row.source].now, rows[row.source].base) = row.now.lines
    /\ rows[row.source].now.head = row.now.head

\* What a request holds between two of its steps.
Held(r) ==
  /\ r.pc = "record" => r.result \in Results
  /\ r.pc = "finalize" => r.result \in {"READY", "FAILED", "BLOCKED"}
  /\ r.pc = "finalize" /\ r.result = "READY" => Backed(evidence)
  /\ r.pc = "save" => r.row \in Rows /\ Reconciled(r.row, evidence)

HeldInv == \A p \in Procs : Held(req[p])

\* The request is reasoning, or about to take its COMPLETED back, or died at it.
Reasons(r) == r.pc \in {"reason", "record"} \/ (r.pc = "dead" /\ r.result \in {"reason", "record"})
TakesBack(r) == r.pc = "provisional" \/ (r.pc = "dead" /\ r.result = "provisional")

TaskInv ==
  TypeOK /\ HeldInv /\ ValidatedByEvidence /\ GitPassReconciled /\ NoOrphanedRun /\ ProvisionalOwned

-----------------------------------------------------------------------------
(* The operators *)

\* _latest_source_change_pass returns a passing source_change row or nothing.
LEMMA LatestPass ==
  ASSUME evidence \in Seq(Rows)
  PROVE  /\ LatestSourcePass \in Nat
         /\ LatestSourcePass # 0 =>
              /\ LatestSourcePass \in DOMAIN evidence
              /\ evidence[LatestSourcePass].kind = "source_change"
              /\ evidence[LatestSourcePass].status = "PASS"
<1> DEFINE passes == {i \in DOMAIN evidence :
                        evidence[i].kind = "source_change" /\ evidence[i].status = "PASS"}
           S == {0} \cup passes
<1>1. DOMAIN evidence = 1..Len(evidence) /\ Len(evidence) \in Nat
  BY LenProperties
<1>2. S \in SUBSET Nat /\ S # {} /\ \A s \in S : s <= Len(evidence)
  BY <1>1
<1>3. IsFiniteSet(S)
  BY <1>1, <1>2, FS_BoundedSetOfNaturals
<1>4. Max(S) \in S
  BY <1>2, <1>3, MaxExists
<1> QED BY <1>2, <1>4 DEF LatestSourcePass

\* The present state of the task is a snapshot.
LEMMA NowTyped == TypeOK => Now \in Snapshots
<1> SUFFICES ASSUME TypeOK PROVE Now \in Snapshots
  OBVIOUS
<1>1. repo.dirty \subseteq Paths /\ repo.head \in Nat
  BY DEF TypeOK
<1>2. Listing(repo.dirty) \subseteq Lines
  <2>1. \A f \in repo.dirty : [path |-> f, cut |-> \A g \in repo.dirty : f <= g] \in Lines
    <3> TAKE f \in repo.dirty
    <3>1. (\A g \in repo.dirty : f <= g) \in BOOLEAN
      OBVIOUS
    <3> QED BY <1>1, <3>1, Zenon DEF Lines
  <2> QED BY <2>1, Zenon DEF Listing
<1> QED BY <1>1, <1>2 DEF Now, Snapshots

\* What an appended row leaves: the rows before it, each at its place.
LEMMA Appended ==
  ASSUME evidence \in Seq(Rows), NEW row \in Rows
  PROVE  /\ Append(evidence, row) \in Seq(Rows)
         /\ DOMAIN Append(evidence, row) = DOMAIN evidence \cup {Len(evidence) + 1}
         /\ DOMAIN evidence = 1..Len(evidence) /\ Len(evidence) \in Nat
         /\ \A i \in DOMAIN evidence : Append(evidence, row)[i] = evidence[i]
         /\ Append(evidence, row)[Len(evidence) + 1] = row
  BY AppendProperties, LenProperties

\* A READY verdict means what the contract asks for.
LEMMA ReadyIsBacked ==
  ASSUME contract # {}, Verdict(contract, evidence) = "READY"
  PROVE  Backed(evidence)
  BY DEF Verdict, Backed

-----------------------------------------------------------------------------
(* The invariant is inductive: four kinds of steps *)

\* A task begins with its invariant.
LEMMA TaskInit == Init => TaskInv
<1> SUFFICES ASSUME Init PROVE TaskInv
  OBVIOUS
<1>1. NoSnapshot \in Snapshots /\ Fresh \in Requests
  BY DEF NoSnapshot, Snapshots, Fresh, Requests, Pcs
<1>2. TypeOK
  BY <1>1, ConstantsAssumption, EmptySeq DEF TypeOK, Init, Absent
<1>3. HeldInv /\ ValidatedByEvidence /\ NoOrphanedRun /\ ProvisionalOwned
  BY DEF Init, HeldInv, Held, Fresh, Absent, ValidatedByEvidence, NoOrphanedRun, ProvisionalOwned
<1>4. GitPassReconciled
  BY EmptySeq DEF Init, GitPassReconciled
<1> QED BY <1>2, <1>3, <1>4 DEF TaskInv

\* A step of p that replaces its request and nothing else.
LEMMA RequestOnly ==
  ASSUME TaskInv, NEW p \in Procs, NEW r \in Requests, req' = [req EXCEPT ![p] = r],
         UNCHANGED <<contract, task, evidence, repo, touched, edits>>,
         Held(r), Reasons(req[p]) => Reasons(r), TakesBack(req[p]) => TakesBack(r)
  PROVE  TaskInv'
<1>1. TypeOK'
  BY DEF TaskInv, TypeOK
<1>2. \A q \in Procs : req'[q] = IF q = p THEN r ELSE req[q]
  BY DEF TaskInv, TypeOK
<1>3. HeldInv'
  BY <1>2 DEF TaskInv, HeldInv, Held, Backed, Reconciled
<1>4. ValidatedByEvidence' /\ GitPassReconciled'
  BY DEF TaskInv, ValidatedByEvidence, GitPassReconciled
<1>5. NoOrphanedRun'
  BY <1>2 DEF TaskInv, NoOrphanedRun, Reasons, At
<1>6. ProvisionalOwned'
  BY <1>2 DEF TaskInv, ProvisionalOwned, TakesBack, At
<1> QED BY <1>1, <1>3, <1>4, <1>5, <1>6 DEF TaskInv

\* A step of p that also writes the task's row.
LEMMA StatusStep ==
  ASSUME TaskInv, NEW p \in Procs, NEW r \in Requests, req' = [req EXCEPT ![p] = r],
         UNCHANGED <<contract, evidence, repo, touched, edits>>,
         NEW status \in {"running", "completed", "failed", "blocked"},
         NEW outcome \in Results \cup {"none", "AWAITING_VALIDATION", "VALIDATED_COMPLETION",
                                       "VALIDATION_FAILED", "VALIDATION_INCOMPLETE"},
         Persist(status, outcome), Held(r),
         outcome = "VALIDATED_COMPLETION" => Backed(evidence),
         outcome = "none" => Reasons(r), outcome = "COMPLETED" => TakesBack(r)
  PROVE  TaskInv'
<1>1. task' = [status |-> status, outcome |-> outcome]
  BY DEF Persist
<1>2. TypeOK'
  BY <1>1 DEF TaskInv, TypeOK
<1>3. \A q \in Procs : req'[q] = IF q = p THEN r ELSE req[q]
  BY DEF TaskInv, TypeOK
<1>4. HeldInv'
  BY <1>3 DEF TaskInv, HeldInv, Held, Backed, Reconciled
<1>5. ValidatedByEvidence' /\ GitPassReconciled'
  BY <1>1 DEF TaskInv, ValidatedByEvidence, GitPassReconciled, Backed
<1>6. NoOrphanedRun'
  BY <1>1, <1>3 DEF NoOrphanedRun, Reasons, At
<1>7. ProvisionalOwned'
  BY <1>1, <1>3 DEF ProvisionalOwned, TakesBack, At
<1> QED BY <1>2, <1>4, <1>5, <1>6, <1>7 DEF TaskInv

\* People and agents change the workspace.
LEMMA WorkspaceStep ==
  ASSUME TaskInv,
         \/ \E path \in Paths : Edit(path) \/ Revert(path)
         \/ Commit
  PROVE  TaskInv'
<1>1. UNCHANGED <<contract, task, evidence, req>>
  BY DEF Edit, Revert, Commit, Change
<1>2. TypeOK'
  BY ConstantsAssumption DEF TaskInv, TypeOK, Edit, Revert, Commit, Change
<1>3. HeldInv' /\ ValidatedByEvidence' /\ GitPassReconciled' /\ NoOrphanedRun' /\ ProvisionalOwned'
  BY <1>1 DEF TaskInv, HeldInv, Held, Backed, Reconciled, ValidatedByEvidence,
             GitPassReconciled, NoOrphanedRun, ProvisionalOwned, At
<1> QED BY <1>2, <1>3 DEF TaskInv

\* A step of p that adopts the contract or saves a row, never taking one away.
LEMMA RowsOnlyGrow ==
  ASSUME evidence \in Seq(Rows), NEW row \in Rows, evidence' = Append(evidence, row),
         UNCHANGED contract
  PROVE  /\ Backed(evidence) => Backed(evidence)'
         /\ \A r : Reconciled(r, evidence) => Reconciled(r, evidence)'
<1>1. \A k : StatusesOf(evidence, k) \subseteq StatusesOf(evidence', k)
  BY Appended DEF StatusesOf
<1>2. Backed(evidence) => Backed(evidence)'
  BY <1>1 DEF Backed
<1>3. \A r : Reconciled(r, evidence) => Reconciled(r, evidence)'
  BY Appended DEF Reconciled
<1> QED BY <1>2, <1>3

-----------------------------------------------------------------------------
(* The actions *)

\* Every request but the saving of evidence and the status writes: only req changes.
LEMMA QuietRequest ==
  ASSUME TaskInv, NEW p \in Procs,
         \/ RequestCode(p) \/ AdoptRefused(p) \/ CaptureBaseline(p) \/ Reason(p)
         \/ ProducerRaises(p) \/ RequestValidate(p) \/ Die(p)
  PROVE  TaskInv'
<1> USE DEF At
<1>1. req[p] \in Requests /\ TypeOK
  BY DEF TaskInv, TypeOK
<1>2. Fresh \in Requests
  BY DEF NoSnapshot, Snapshots, Fresh, Requests, Pcs
<1>3. CASE RequestCode(p)
  <2> DEFINE r == [req[p] EXCEPT !.pc = IF contract = {} THEN "adopt" ELSE "baseline"]
  <2>1. r \in Requests /\ req' = [req EXCEPT ![p] = r]
    BY <1>1, <1>3 DEF RequestCode, Goto, Requests, Pcs
  <2>2. Held(r) /\ ~Reasons(req[p]) /\ ~TakesBack(req[p])
    BY <1>1, <1>3 DEF RequestCode, Held, Reasons, TakesBack, Requests
  <2> QED BY <2>1, <2>2, <1>3, RequestOnly DEF RequestCode
<1>4. CASE AdoptRefused(p)
  <2> DEFINE r == [Fresh EXCEPT !.pc = "done"]
  <2>1. r \in Requests /\ req' = [req EXCEPT ![p] = r]
    BY <1>2, <1>4 DEF AdoptRefused, Forget, Requests, Pcs
  <2>2. Held(r) /\ ~Reasons(req[p]) /\ ~TakesBack(req[p])
    BY <1>4 DEF AdoptRefused, Held, Reasons, TakesBack, Fresh
  <2> QED BY <2>1, <2>2, <1>4, RequestOnly DEF AdoptRefused
<1>5. CASE CaptureBaseline(p)
  <2> DEFINE r == [req[p] EXCEPT !.pc = "start", !.base = Now]
  <2>1. r \in Requests /\ req' = [req EXCEPT ![p] = r]
    BY <1>1, <1>5, NowTyped DEF CaptureBaseline, Requests, Pcs
  <2>2. Held(r) /\ ~Reasons(req[p]) /\ ~TakesBack(req[p])
    BY <1>1, <1>5 DEF CaptureBaseline, Held, Reasons, TakesBack, Requests
  <2> QED BY <2>1, <2>2, <1>5, RequestOnly DEF CaptureBaseline
<1>6. CASE Reason(p)
  <2>1. PICK result \in Results : req' = [req EXCEPT ![p].pc = "record", ![p].result = result]
    BY <1>6 DEF Reason
  <2> DEFINE r == [req[p] EXCEPT !.pc = "record", !.result = result]
  <2>2. r \in Requests /\ req' = [req EXCEPT ![p] = r]
    BY <1>1, <2>1 DEF Requests, Pcs
  <2>3. Held(r) /\ Reasons(r) /\ ~TakesBack(req[p])
    BY <1>1, <1>6 DEF Reason, Held, Reasons, TakesBack, Requests
  <2> QED BY <2>2, <2>3, <1>6, RequestOnly DEF Reason
<1>7. CASE ProducerRaises(p)
  <2> DEFINE r == [Fresh EXCEPT !.pc = "done"]
  <2>1. r \in Requests /\ req' = [req EXCEPT ![p] = r]
    BY <1>2, <1>7 DEF ProducerRaises, Forget, Requests, Pcs
  <2>2. Held(r) /\ ~Reasons(req[p]) /\ ~TakesBack(req[p])
    BY <1>7 DEF ProducerRaises, Held, Reasons, TakesBack, Fresh
  <2> QED BY <2>1, <2>2, <1>7, RequestOnly DEF ProducerRaises
<1>8. CASE RequestValidate(p)
  <2> DEFINE r == IF contract = {} THEN [req[p] EXCEPT !.pc = "done"]
                  ELSE [req[p] EXCEPT !.pc = "finalize", !.result = Verdict(contract, evidence)]
  <2>1. Verdict(contract, evidence) \in {"READY", "FAILED", "BLOCKED"}
    BY DEF Verdict
  <2>2. r \in Requests /\ req' = [req EXCEPT ![p] = r]
    BY <1>1, <1>8, <2>1 DEF RequestValidate, Requests, Pcs
  <2>3. Held(r)
    BY <1>1, <2>1, ReadyIsBacked DEF Held, Requests
  <2>4. ~Reasons(req[p]) /\ ~TakesBack(req[p])
    BY <1>8 DEF RequestValidate, Reasons, TakesBack
  <2> QED BY <2>2, <2>3, <2>4, <1>8, RequestOnly DEF RequestValidate
<1>9. CASE Die(p)
  <2> DEFINE r == [Fresh EXCEPT !.pc = "dead", !.result = req[p].pc]
  <2>1. r \in Requests /\ req' = [req EXCEPT ![p] = r]
    BY <1>1, <1>2, <1>9 DEF Die, Requests, Pcs
  <2>2. r.pc = "dead" /\ r.result = req[p].pc /\ req[p].pc # "dead"
    BY <1>9 DEF Die, Fresh
  <2>3. Held(r) /\ (Reasons(req[p]) => Reasons(r)) /\ (TakesBack(req[p]) => TakesBack(r))
    BY <2>2 DEF Held, Reasons, TakesBack
  <2> QED BY <2>1, <2>3, <1>9, RequestOnly DEF Die
<1> QED BY <1>3, <1>4, <1>5, <1>6, <1>7, <1>8, <1>9

\* The producers: what they draft is a row, and a passing git_status is reconciled.
LEMMA DraftStep ==
  ASSUME TaskInv, NEW p \in Procs, NEW kind \in Kinds, NEW status \in {"PASS", "FAIL", "STALE"},
         NEW base \in Snapshots, NEW source \in Nat, Draft(p, kind, status, base, source),
         req[p].pc \in {"source", "testing", "git"},
         Reconciled([kind |-> kind, status |-> status, now |-> Now, base |-> base,
                     source |-> source], evidence)
  PROVE  TaskInv'
<1> DEFINE row == [kind |-> kind, status |-> status, now |-> Now, base |-> base, source |-> source]
           r == [req[p] EXCEPT !.pc = "save", !.row = row]
<1>1. req[p] \in Requests /\ TypeOK
  BY DEF TaskInv, TypeOK
<1>2. row \in Rows
  BY <1>1, NowTyped DEF Rows
<1>3. r \in Requests /\ req' = [req EXCEPT ![p] = r] /\ r.pc = "save" /\ r.row = row
  BY <1>1, <1>2 DEF Draft, Requests, Pcs
<1>4. Held(r) /\ ~Reasons(req[p]) /\ ~TakesBack(req[p])
  BY <1>2, <1>3 DEF Held, Reasons, TakesBack
<1> QED BY <1>3, <1>4, RequestOnly DEF Draft

\* The producers of evidence keep it: what they have in hand is what they saw.
LEMMA ProducerStep ==
  ASSUME TaskInv, NEW p \in Procs,
         ObserveSource(p) \/ BeginTests(p) \/ EndTests(p) \/ ObserveGit(p)
  PROVE  TaskInv'
<1>1. req[p] \in Requests /\ req[p].base \in Snapshots /\ TypeOK /\ NoSnapshot \in Snapshots
  BY DEF TaskInv, TypeOK, Requests, NoSnapshot, Snapshots
<1>2. LatestSourcePass \in Nat
  BY <1>1, LatestPass DEF TypeOK
<1>3. CASE ObserveSource(p)
  <2> DEFINE status == IF TaskLines(Now, req[p].base) # {} THEN "PASS"
                       ELSE IF LatestSourcePass # 0 THEN "STALE" ELSE "FAIL"
  <2>1. Draft(p, "source_change", status, req[p].base, 0) /\ req[p].pc = "source"
    BY <1>3 DEF ObserveSource, At
  <2>2. status \in {"PASS", "FAIL", "STALE"}
    OBVIOUS
  <2>3. Reconciled([kind |-> "source_change", status |-> status, now |-> Now,
                    base |-> req[p].base, source |-> 0], evidence)
    BY DEF Reconciled
  <2> HIDE DEF status
  <2> QED BY <1>1, <2>1, <2>2, <2>3, DraftStep DEF Kinds
<1>4. CASE BeginTests(p)
  <2> DEFINE r == [req[p] EXCEPT !.pc = "testing", !.base = Now]
  <2>1. r \in Requests /\ req' = [req EXCEPT ![p] = r] /\ r.pc = "testing"
    BY <1>1, <1>4, NowTyped DEF BeginTests, Requests, Pcs
  <2>2. Held(r) /\ ~Reasons(req[p]) /\ ~TakesBack(req[p])
    BY <1>4, <2>1 DEF BeginTests, At, Held, Reasons, TakesBack
  <2> QED BY <2>1, <2>2, <1>4, RequestOnly DEF BeginTests
<1>5. CASE EndTests(p)
  <2>1. PICK status \in {"PASS", "FAIL"} : Draft(p, "focused_test", status, req[p].base, 0)
    BY <1>5 DEF EndTests
  <2>2. Reconciled([kind |-> "focused_test", status |-> status, now |-> Now,
                    base |-> req[p].base, source |-> 0], evidence)
    BY DEF Reconciled
  <2>3. req[p].pc = "testing"
    BY <1>5 DEF EndTests, At
  <2> QED BY <1>1, <2>1, <2>2, <2>3, DraftStep DEF Kinds
<1>6. CASE ObserveGit(p)
  <2> DEFINE source == LatestSourcePass
             status == IF source = 0 THEN "FAIL" ELSE GitVerdict(Now, evidence[source])
  <2>1. Draft(p, "git_status", status, NoSnapshot, source) /\ req[p].pc = "git"
    BY <1>6 DEF ObserveGit, At
  <2>2. status \in {"PASS", "FAIL", "STALE"}
    BY DEF GitVerdict
  <2>3. ASSUME status = "PASS"
        PROVE  /\ source \in DOMAIN evidence
               /\ evidence[source].kind = "source_change" /\ evidence[source].status = "PASS"
               /\ TaskLines(evidence[source].now, evidence[source].base) = Now.lines
               /\ evidence[source].now.head = Now.head
    <3>1. source # 0 /\ GitVerdict(Now, evidence[source]) = "PASS"
      BY <2>3
    <3>2. /\ TaskLines(evidence[source].now, evidence[source].base) = Now.lines
          /\ evidence[source].now.head = Now.head
      BY <3>1 DEF GitVerdict
    <3> QED BY <1>1, <3>1, <3>2, LatestPass DEF TypeOK
  <2> HIDE DEF status, source
  <2>4. Reconciled([kind |-> "git_status", status |-> status, now |-> Now,
                    base |-> NoSnapshot, source |-> source], evidence)
    BY <2>3 DEF Reconciled
  <2>5. source \in Nat
    BY <1>2 DEF source
  <2> QED BY <1>1, <2>1, <2>2, <2>4, <2>5, DraftStep DEF Kinds
<1> QED BY <1>3, <1>4, <1>5, <1>6

\* The steps of reasoning and of the gate that write the task's row.
LEMMA StatusWriteStep ==
  ASSUME TaskInv, NEW p \in Procs,
         StartReasoning(p) \/ RecordOutcome(p) \/ AwaitValidation(p) \/ Finalize(p)
  PROVE  TaskInv'
<1> USE DEF At
<1>1. req[p] \in Requests /\ Held(req[p])
  BY DEF TaskInv, TypeOK, HeldInv
<1>2. CASE StartReasoning(p)
  <2> DEFINE r == [req[p] EXCEPT !.pc = "reason"]
  <2>1. r \in Requests /\ req' = [req EXCEPT ![p] = r] /\ r.pc = "reason"
    BY <1>1, <1>2 DEF StartReasoning, Goto, Requests, Pcs
  <2>2. Held(r) /\ Reasons(r)
    BY <2>1 DEF Held, Reasons
  <2> QED BY <1>2, <2>1, <2>2, StatusStep DEF StartReasoning
<1>3. CASE RecordOutcome(p)
  <2> DEFINE result == req[p].result
             r == [req[p] EXCEPT !.pc = AfterRecord(result), !.result = "none"]
  <2>1. result \in Results
    BY <1>1, <1>3 DEF RecordOutcome, Held
  <2>2. AfterRecord(result) \in {"provisional", "done", "source"}
    BY DEF AfterRecord
  <2>3. r \in Requests /\ req' = [req EXCEPT ![p] = r] /\ r.pc = AfterRecord(result)
    BY <1>1, <1>3, <2>2 DEF RecordOutcome, Requests, Pcs
  <2>4. Held(r)
    BY <2>2, <2>3 DEF Held
  <2>5. result = "COMPLETED" => TakesBack(r)
    BY <2>3 DEF AfterRecord, TakesBack
  <2>6. StatusOf(result) \in {"completed", "failed", "blocked"}
    BY <2>1 DEF StatusOf, Results
  <2>7. result # "none" /\ result # "VALIDATED_COMPLETION"
    BY <2>1 DEF Results
  <2>8. Persist(StatusOf(result), result) /\ UNCHANGED <<contract, evidence, repo, touched, edits>>
    BY <1>3 DEF RecordOutcome
  <2> HIDE DEF result, r
  <2> QED BY <2>1, <2>3, <2>4, <2>5, <2>6, <2>7, <2>8, StatusStep
<1>4. CASE AwaitValidation(p)
  <2> DEFINE r == [req[p] EXCEPT !.pc = "source"]
  <2>1. r \in Requests /\ req' = [req EXCEPT ![p] = r] /\ r.pc = "source"
    BY <1>1, <1>4 DEF AwaitValidation, Goto, Requests, Pcs
  <2>2. Held(r)
    BY <2>1 DEF Held
  <2> QED BY <1>4, <2>1, <2>2, StatusStep DEF AwaitValidation
<1>5. CASE Finalize(p)
  <2> DEFINE r == [Fresh EXCEPT !.pc = "done"]
  <2>1. Fresh \in Requests
    BY DEF NoSnapshot, Snapshots, Fresh, Requests, Pcs
  <2>2. r \in Requests /\ req' = [req EXCEPT ![p] = r] /\ r.pc = "done"
    BY <1>5, <2>1 DEF Finalize, Forget, Requests, Pcs
  <2>3. Held(r)
    BY <2>2 DEF Held
  <2>4. req[p].result \in {"READY", "FAILED", "BLOCKED"}
    BY <1>1, <1>5 DEF Finalize, Held
  <2>5. UNCHANGED <<contract, evidence, repo, touched, edits>>
    BY <1>5 DEF Finalize
  <2> HIDE DEF r
  <2>6. CASE req[p].result = "READY"
    <3>1. Persist("completed", "VALIDATED_COMPLETION") /\ Backed(evidence)
      BY <1>1, <1>5, <2>6 DEF Finalize, Held
    <3> QED BY <2>2, <2>3, <2>5, <3>1, StatusStep
  <2>7. CASE req[p].result = "FAILED"
    <3>1. Persist("failed", "VALIDATION_FAILED")
      BY <1>5, <2>7 DEF Finalize
    <3> QED BY <2>2, <2>3, <2>5, <3>1, StatusStep
  <2>8. CASE req[p].result = "BLOCKED"
    <3>1. Persist("blocked", "VALIDATION_INCOMPLETE")
      BY <1>5, <2>8 DEF Finalize
    <3> QED BY <2>2, <2>3, <2>5, <3>1, StatusStep
  <2> QED BY <2>4, <2>6, <2>7, <2>8
<1> QED BY <1>2, <1>3, <1>4, <1>5

\* The contract is stored over no contract, or over the same one.
LEMMA AdoptStep ==
  ASSUME TaskInv, NEW p \in Procs, AdoptContract(p)
  PROVE  TaskInv'
<1> DEFINE r == [req[p] EXCEPT !.pc = "baseline"]
<1>1. req[p] \in Requests /\ TypeOK
  BY DEF TaskInv, TypeOK
<1>2. r \in Requests /\ req' = [req EXCEPT ![p] = r] /\ r.pc = "baseline"
  BY <1>1 DEF AdoptContract, Goto, Requests, Pcs
<1>3. \A q \in Procs : req'[q] = IF q = p THEN r ELSE req[q]
  BY <1>1, <1>2 DEF TypeOK
<1>4. contract' \in SUBSET Kinds /\ (contract # {} => contract' = contract)
  BY ConstantsAssumption DEF AdoptContract
<1>5. Backed(evidence) => Backed(evidence)'
  BY <1>4 DEF Backed, AdoptContract
<1>6. TypeOK'
  BY <1>1, <1>2, <1>4 DEF TypeOK, AdoptContract
<1>7. HeldInv'
  BY <1>2, <1>3, <1>5 DEF TaskInv, HeldInv, Held, Reconciled, AdoptContract
<1>8. ValidatedByEvidence'
  BY <1>5 DEF TaskInv, ValidatedByEvidence, Backed, AdoptContract
<1>9. GitPassReconciled'
  BY DEF TaskInv, GitPassReconciled, AdoptContract
<1>10. NoOrphanedRun' /\ ProvisionalOwned'
  BY <1>3 DEF TaskInv, NoOrphanedRun, ProvisionalOwned, AdoptContract, At
<1> QED BY <1>6, <1>7, <1>8, <1>9, <1>10 DEF TaskInv

\* Evidence that is stored keeps it: rows are only appended.
LEMMA SaveStep ==
  ASSUME TaskInv, NEW p \in Procs, SaveEvidence(p)
  PROVE  TaskInv'
<1> DEFINE row == req[p].row
           next == CASE row.kind = "source_change" -> "test"
                     [] row.kind = "focused_test" -> "git"
                     [] row.kind = "git_status" -> "done"
           r == [Fresh EXCEPT !.pc = next]
<1>1. TypeOK /\ evidence \in Seq(Rows) /\ row \in Rows /\ Reconciled(row, evidence)
  BY DEF TaskInv, TypeOK, HeldInv, Held, SaveEvidence, At
<1>2. next \in {"test", "git", "done"}
  BY <1>1 DEF Rows, Kinds
<1>3. Fresh \in Requests
  BY DEF NoSnapshot, Snapshots, Fresh, Requests, Pcs
<1>4. r \in Requests /\ req' = [req EXCEPT ![p] = r] /\ r.pc = next
  BY <1>2, <1>3 DEF SaveEvidence, Forget, Requests, Pcs
<1>5. Held(r) /\ ~Reasons(req[p]) /\ ~TakesBack(req[p])
  BY <1>2, <1>4 DEF Held, SaveEvidence, At, Reasons, TakesBack
<1> HIDE DEF next, r
<1>6. CASE evidence' = evidence
  BY <1>4, <1>5, <1>6, RequestOnly DEF SaveEvidence
<1>7. CASE evidence' = Append(evidence, row)
  <2>1. \A q \in Procs : req'[q] = IF q = p THEN r ELSE req[q]
    BY <1>1, <1>4 DEF TypeOK
  <2>2. TypeOK'
    BY <1>1, <1>4, <1>7, Appended DEF TypeOK, SaveEvidence
  <2>3. /\ Backed(evidence) => Backed(evidence)'
        /\ \A s : Reconciled(s, evidence) => Reconciled(s, evidence)'
    BY <1>1, <1>7, RowsOnlyGrow DEF SaveEvidence
  <2>4. HeldInv'
    BY <1>2, <1>4, <2>1, <2>3 DEF TaskInv, HeldInv, Held
  <2>5. ValidatedByEvidence'
    BY <2>3 DEF TaskInv, ValidatedByEvidence, Backed, SaveEvidence
  <2>6. GitPassReconciled'
    <3>1. \A i \in DOMAIN evidence' : i = Len(evidence) + 1 \/ i \in DOMAIN evidence
      BY <1>1, <1>7, Appended
    <3>2. \A i \in DOMAIN evidence : i \in Nat /\ evidence'[i] = evidence[i] /\ i <= Len(evidence)
      BY <1>1, <1>7, Appended
    <3>3. evidence'[Len(evidence) + 1] = row /\ Len(evidence) \in Nat
          /\ DOMAIN evidence = 1..Len(evidence)
      BY <1>1, <1>7, Appended
    <3>4. \A i \in DOMAIN evidence : \A j \in 1..(i - 1) : j \in DOMAIN evidence
      BY <3>3
    <3> QED BY <1>1, <3>1, <3>2, <3>3, <3>4 DEF TaskInv, GitPassReconciled, Reconciled
  <2>7. NoOrphanedRun' /\ ProvisionalOwned'
    BY <1>5, <2>1 DEF TaskInv, NoOrphanedRun, ProvisionalOwned, SaveEvidence, At, Reasons, TakesBack
  <2> QED BY <2>2, <2>4, <2>5, <2>6, <2>7 DEF TaskInv
<1> QED BY <1>6, <1>7 DEF SaveEvidence

\* Every step keeps the invariant of the task.
LEMMA TaskStep == TaskInv /\ [Next]_vars => TaskInv'
<1> SUFFICES ASSUME TaskInv, [Next]_vars PROVE TaskInv'
  OBVIOUS
<1>1. CASE \E path \in Paths : Edit(path) \/ Revert(path)
  BY <1>1, WorkspaceStep
<1>2. CASE Commit
  BY <1>2, WorkspaceStep
<1>3. ASSUME NEW p \in Procs,
             RequestCode(p) \/ RequestValidate(p) \/ CodeStep(p) \/ Finalize(p) \/ Die(p)
      PROVE  TaskInv'
  BY <1>3, QuietRequest, ProducerStep, StatusWriteStep, AdoptStep, SaveStep DEF CodeStep
<1>4. CASE UNCHANGED vars
  BY <1>4 DEF vars, TaskInv, TypeOK, HeldInv, Held, Backed, Reconciled, ValidatedByEvidence,
              StatusesOf, GitPassReconciled, NoOrphanedRun, ProvisionalOwned, At
<1> QED BY <1>1, <1>2, <1>3, <1>4 DEF Next

-----------------------------------------------------------------------------
(* The theorems *)

\* The state keeps its shape, a validated task has its evidence, a passing
\* git_status its source_change row, a transient status its owner.
THEOREM TaskInvariant == Spec => []TaskInv
<1>1. Init => TaskInv
  BY TaskInit
<1>2. TaskInv /\ [Next]_vars => TaskInv'
  BY TaskStep
<1> QED BY <1>1, <1>2, PTL DEF Spec

\* completion_runtime.py and completion_gate.py: every task row, request and
\* evidence row in every reachable state is one the schema and the code know.
THEOREM TypedTask == Spec => []TypeOK
<1>1. TaskInv => TypeOK
  BY DEF TaskInv
<1> QED BY <1>1, TaskInvariant, PTL

\* CodingCompletionRuntime.finalize: a task never reads validated without a
\* passing row for every kind its contract requires.
THEOREM Validated == Spec => []ValidatedByEvidence
<1>1. TaskInv => ValidatedByEvidence
  BY DEF TaskInv
<1> QED BY <1>1, TaskInvariant, PTL

\* produce_git_status: every passing git_status row is reconciled with an
\* earlier passing source_change row.
THEOREM GitReconciled == Spec => []GitPassReconciled
<1>1. TaskInv => GitPassReconciled
  BY DEF TaskInv
<1> QED BY <1>1, TaskInvariant, PTL

\* SessionMemoryRuntimeBridge.run_reasoning: a task that reads running with no
\* outcome has a process that reasons on it, or was killed while it did.
THEOREM RunOwned == Spec => []NoOrphanedRun
<1>1. TaskInv => NoOrphanedRun
  BY DEF TaskInv
<1> QED BY <1>1, TaskInvariant, PTL

\* CodingCompletionRuntime.run_reasoning: a COMPLETED that no gate has validated
\* is about to be taken back, or the process that would was killed.
THEOREM ProvisionalStatusOwned == Spec => []ProvisionalOwned
<1>1. TaskInv => ProvisionalOwned
  BY DEF TaskInv
<1> QED BY <1>1, TaskInvariant, PTL

\* TaskCompletionContractPersistence.save: a stored contract is never replaced,
\* however many coding requests race to store theirs.
THEOREM ContractNeverReplaced == Spec => ContractFixed
<1>1. [Next]_vars => [contract # {} => contract' = contract]_vars
  BY DEF Next, CodeStep, vars, Edit, Revert, Commit, Change, RequestCode, RequestValidate,
         AdoptContract, AdoptRefused, CaptureBaseline, StartReasoning, Reason, RecordOutcome,
         AwaitValidation, ObserveSource, BeginTests, EndTests, ObserveGit, Draft,
         ProducerRaises, SaveEvidence, Finalize, Die
<1> QED BY <1>1, PTL DEF Spec, ContractFixed
=============================================================================
