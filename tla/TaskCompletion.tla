--------------------------- MODULE TaskCompletion ---------------------------
(***************************************************************************)
(* One governed coding task from its first `lbe code` to its validation:   *)
(*   agent_integration.py                    GovernedAgentGateway.invoke,  *)
(*   session_memory_runtime.py               the task's status row,        *)
(*   runtime/completion_runtime.py           the provisional status and    *)
(*                                           the finalisation,             *)
(*   runtime/completion_evidence_producers.py the three evidence producers *)
(*   runtime/completion_gate.py              the verdict,                  *)
(*   memory/completion_contracts.py, memory/completion_evidence.py         *)
(*                                           the rows behind them.         *)
(*                                                                         *)
(* Procs are one-shot CLI processes on the same database and workspace:    *)
(* each runs one `lbe code` or one `lbe session validate` of the task, and *)
(* a retry or a restart is another process.  A step is one database        *)
(* transaction, one look at the workspace or one call out (the reasoning   *)
(* controller, the test command).  People, and the agent while it reasons, *)
(* edit the workspace at any moment.                                       *)
(***************************************************************************)
EXTENDS Naturals, Sequences, FiniteSets, FiniteSetsExt

CONSTANTS
  Procs,     \* CLI processes, each good for one request (a bound on retries)
  CrashProne, \* those that may be killed
  Paths,     \* the tracked files that get edited, numbered in the order git lists them
  Dirty,     \* those already modified before the first request
  MaxEdits,  \* a bound on the changes made to the workspace
  Policy     \* per process, the kinds its completion policy catalog requires

Kinds == {"source_change", "focused_test", "git_status"}

ASSUME ConstantsAssumption ==
  /\ CrashProne \subseteq Procs
  /\ Paths \subseteq Nat /\ Dirty \subseteq Paths
  /\ MaxEdits \in Nat
  /\ Policy \in [Procs -> (SUBSET Kinds) \ {{}}]

VARIABLES
  contract,  \* task_completion_contracts: the required kinds, {} for no row
  task,      \* session_tasks: [status, outcome]
  evidence,  \* task_completion_evidence in created_at order
  repo,      \* the git workspace: its HEAD and the files modified since
  req,       \* per process: where its request is and what it holds
  touched,   \* history: the files anyone has edited since the beginning
  edits      \* history: how many changes the workspace has seen

vars == <<contract, task, evidence, repo, req, touched, edits>>

\* A line of `git status --short` as inspect_git_state returns it.  It strips the
\* whole output, so the first line loses the blank that a modified file's line
\* (" M file") begins with, and reads "M file": the line is cut.
Lines == [path : Paths, cut : BOOLEAN]
Listing(dirty) == {[path |-> f, cut |-> \A g \in dirty : f <= g] : f \in dirty}

Snapshots == [head : Nat, lines : SUBSET Lines]
NoSnapshot == [head |-> 0, lines |-> {}]
Now == [head |-> repo.head, lines |-> Listing(repo.dirty)]

\* An evidence row: what was observed, the baseline it was compared with, and
\* the place of the source_change row a git_status row reconciles (0 for none).
Rows == [kind : Kinds, status : {"PASS", "FAIL", "STALE"},
         now : Snapshots, base : Snapshots, source : Nat]
NoRow == [kind |-> "none"]
Absent == [status |-> "absent", outcome |-> "none"]
Fresh == [pc |-> "ready", result |-> "none", base |-> NoSnapshot, row |-> NoRow]

Init ==
  /\ contract = {}
  /\ task = Absent
  /\ evidence = <<>>
  /\ repo = [head |-> 0, dirty |-> Dirty]
  /\ req = [p \in Procs |-> Fresh]
  /\ touched = {}
  /\ edits = 0

At(p, pc) == req[p].pc = pc
Goto(p, pc) == req' = [req EXCEPT ![p].pc = pc]
Forget(p, pc) == req' = [req EXCEPT ![p] = [Fresh EXCEPT !.pc = pc]]
Persist(status, outcome) == task' = [status |-> status, outcome |-> outcome]

-----------------------------------------------------------------------------
(* The workspace *)

Change(now) ==
  /\ edits < MaxEdits /\ edits' = edits + 1
  /\ repo' = now
  /\ UNCHANGED <<contract, task, evidence, req>>

Edit(path) ==
  /\ Change([repo EXCEPT !.dirty = @ \cup {path}])
  /\ touched' = touched \cup {path}

Revert(path) ==
  /\ path \in repo.dirty
  /\ Change([repo EXCEPT !.dirty = @ \ {path}])
  /\ touched' = touched \cup {path}

Commit ==
  /\ repo.dirty # {}
  /\ Change([head |-> repo.head + 1, dirty |-> {}])
  /\ UNCHANGED touched

-----------------------------------------------------------------------------
(* lbe code: the contract and the baseline *)

\* _establish_coding_contract looks for a contract before it persists one.
RequestCode(p) ==
  /\ At(p, "ready")
  /\ Goto(p, IF contract = {} THEN "adopt" ELSE "baseline")
  /\ UNCHANGED <<contract, task, evidence, repo, touched, edits>>

\* A mutant of the next definition: the stored contract is replaced.
AdoptAnyway(p) ==
  /\ At(p, "adopt")
  /\ contract' = Policy[p]
  /\ Goto(p, "baseline")
  /\ UNCHANGED <<task, evidence, repo, touched, edits>>

\* save looks again and inserts, or finds the same contract stored meanwhile.
AdoptContract(p) ==
  /\ At(p, "adopt")
  /\ contract \in {{}, Policy[p]}
  /\ contract' = Policy[p]
  /\ Goto(p, "baseline")
  /\ UNCHANGED <<task, evidence, repo, touched, edits>>

\* A different contract is stored (ValueError), or the insertion lost the race
\* to one (IntegrityError): the request ends.
AdoptRefused(p) ==
  /\ At(p, "adopt")
  /\ contract # {}
  /\ Forget(p, "done")
  /\ UNCHANGED <<contract, task, evidence, repo, touched, edits>>

CaptureBaseline(p) ==
  /\ At(p, "baseline")
  /\ req' = [req EXCEPT ![p].pc = "start", ![p].base = Now]
  /\ UNCHANGED <<contract, task, evidence, repo, touched, edits>>

-----------------------------------------------------------------------------
(* lbe code: reasoning and the task's status *)

StartReasoning(p) ==
  /\ At(p, "start")
  /\ Persist("running", "none")
  /\ Goto(p, "reason")
  /\ UNCHANGED <<contract, evidence, repo, touched, edits>>

\* What the controller may do: return one of the outcomes of the status map,
\* raise (or answer with no valid response), or be interrupted.
Results == {"COMPLETED", "ORCHESTRATION_ERROR", "INSUFFICIENT_EVIDENCE", "raised", "interrupted"}

Reason(p) ==
  /\ At(p, "reason")
  /\ \E result \in Results : req' = [req EXCEPT ![p].pc = "record", ![p].result = result]
  /\ UNCHANGED <<contract, task, evidence, repo, touched, edits>>

\* A mutant of the next definition: the outcome itself is stored as the status.
OutcomeAsStatus(result) == result

\* _REASONING_OUTCOME_TO_TASK_STATUS and the except blocks.
StatusOf(result) ==
  CASE result = "COMPLETED" -> "completed"
    [] result \in {"ORCHESTRATION_ERROR", "raised"} -> "failed"
    [] result \in {"INSUFFICIENT_EVIDENCE", "interrupted"} -> "blocked"

\* An exception ends the request; any returned outcome goes on to the evidence.
AfterRecord(result) ==
  CASE result = "COMPLETED" -> "provisional"
    [] result \in {"raised", "interrupted"} -> "done"
    [] OTHER -> "source"

\* A mutant of the next definition: an exception leaves without a status.
RecordReturned(p) ==
  LET result == req[p].result IN
  /\ At(p, "record")
  /\ IF result \in {"raised", "interrupted"} THEN UNCHANGED task
     ELSE Persist(StatusOf(result), result)
  /\ req' = [req EXCEPT ![p].pc = AfterRecord(result), ![p].result = "none"]
  /\ UNCHANGED <<contract, evidence, repo, touched, edits>>

\* run_reasoning persists the outcome, or the reason of the exception.
RecordOutcome(p) ==
  LET result == req[p].result IN
  /\ At(p, "record")
  /\ Persist(StatusOf(result), result)
  /\ req' = [req EXCEPT ![p].pc = AfterRecord(result), ![p].result = "none"]
  /\ UNCHANGED <<contract, evidence, repo, touched, edits>>

\* A mutant of the next definition: the reasoning outcome is left standing.
KeepOutcome(p) ==
  /\ At(p, "provisional")
  /\ Goto(p, "source")
  /\ UNCHANGED <<contract, task, evidence, repo, touched, edits>>

\* CodingCompletionRuntime.run_reasoning takes the COMPLETED status back.
AwaitValidation(p) ==
  /\ At(p, "provisional")
  /\ Persist("running", "AWAITING_VALIDATION")
  /\ Goto(p, "source")
  /\ UNCHANGED <<contract, evidence, repo, touched, edits>>

-----------------------------------------------------------------------------
(* lbe code: the evidence *)

\* The lines a source_change row credits to the task.
TaskLines(now, base) == now.lines \ base.lines

\* _latest_source_change_pass: its place in created_at order, 0 if there is none.
LatestSourcePass ==
  Max({0} \cup {i \in DOMAIN evidence :
                  evidence[i].kind = "source_change" /\ evidence[i].status = "PASS"})

\* Produce kind's row, which is saved by the next step; the kind must be declared
\* by the persisted contract.
Draft(p, kind, status, base, source) ==
  /\ kind \in contract
  /\ req' = [req EXCEPT ![p].pc = "save",
       ![p].row = [kind |-> kind, status |-> status, now |-> Now, base |-> base, source |-> source]]
  /\ UNCHANGED <<contract, task, evidence, repo, touched, edits>>

ObserveSource(p) ==
  /\ At(p, "source")
  /\ Draft(p, "source_change",
           IF TaskLines(Now, req[p].base) # {} THEN "PASS"
           ELSE IF LatestSourcePass # 0 THEN "STALE" ELSE "FAIL",
           req[p].base, 0)

BeginTests(p) ==
  /\ At(p, "test") /\ "focused_test" \in contract
  /\ req' = [req EXCEPT ![p].pc = "testing", ![p].base = Now]
  /\ UNCHANGED <<contract, task, evidence, repo, touched, edits>>

\* The command's exit status (a timeout is a FAIL).
EndTests(p) ==
  /\ At(p, "testing")
  /\ \E status \in {"PASS", "FAIL"} : Draft(p, "focused_test", status, req[p].base, 0)

\* A mutant of the next definition: lines that disappeared go unnoticed.
UnexpectedOnly(now, source) ==
  IF now.lines \ TaskLines(source.now, source.base) # {} THEN "FAIL" ELSE "PASS"

\* produce_git_status against the latest passing source_change row.
GitVerdict(now, source) ==
  LET expected == TaskLines(source.now, source.base) IN
  IF now.lines \ expected # {} THEN "FAIL"
  ELSE IF expected \ now.lines # {} \/ now.head # source.now.head THEN "STALE"
  ELSE "PASS"

ObserveGit(p) ==
  LET source == LatestSourcePass IN
  /\ At(p, "git")
  /\ Draft(p, "git_status",
           IF source = 0 THEN "FAIL" ELSE GitVerdict(Now, evidence[source]),
           NoSnapshot, source)

\* An undeclared kind, or git or the command cannot be run: the request ends.
ProducerRaises(p) ==
  /\ \E pc \in {"baseline", "source", "test", "git"} : At(p, pc)
  /\ Forget(p, "done")
  /\ UNCHANGED <<contract, task, evidence, repo, touched, edits>>

\* TaskCompletionEvidencePersistence.save: the identity of a row is a digest of
\* its content, so a row that is already stored keeps its old place.
SaveEvidence(p) ==
  LET row == req[p].row IN
  /\ At(p, "save")
  /\ evidence' = IF \E i \in DOMAIN evidence : evidence[i] = row THEN evidence
                 ELSE Append(evidence, row)
  /\ Forget(p, CASE row.kind = "source_change" -> "test"
                 [] row.kind = "focused_test" -> "git"
                 [] row.kind = "git_status" -> "done")
  /\ UNCHANGED <<contract, task, repo, touched, edits>>

-----------------------------------------------------------------------------
(* lbe session validate *)

StatusesOf(rows, kind) == {rows[i].status : i \in {j \in DOMAIN rows : rows[j].kind = kind}}

\* A mutant of the next definition: failures are reported, gaps are not.
NoFailure(kinds, rows) ==
  IF \E k \in kinds : "PASS" \notin StatusesOf(rows, k) /\ "FAIL" \in StatusesOf(rows, k)
  THEN "FAILED" ELSE "READY"

\* evaluate_completion with claimed_complete=True.
Verdict(kinds, rows) ==
  LET open == {k \in kinds : "PASS" \notin StatusesOf(rows, k)} IN
  IF \E k \in open : "FAIL" \in StatusesOf(rows, k) THEN "FAILED"
  ELSE IF open # {} THEN "BLOCKED" ELSE "READY"

\* load_contract and load_evidence: a stored contract does not change, so reading
\* it earlier than the evidence reads the same.
RequestValidate(p) ==
  /\ At(p, "ready")
  /\ req' = IF contract = {} THEN [req EXCEPT ![p].pc = "done"]
            ELSE [req EXCEPT ![p].pc = "finalize", ![p].result = Verdict(contract, evidence)]
  /\ UNCHANGED <<contract, task, evidence, repo, touched, edits>>

Finalize(p) ==
  /\ At(p, "finalize")
  /\ CASE req[p].result = "READY"   -> Persist("completed", "VALIDATED_COMPLETION")
       [] req[p].result = "FAILED"  -> Persist("failed", "VALIDATION_FAILED")
       [] req[p].result = "BLOCKED" -> Persist("blocked", "VALIDATION_INCOMPLETE")
  /\ Forget(p, "done")
  /\ UNCHANGED <<contract, evidence, repo, touched, edits>>

-----------------------------------------------------------------------------
(* The process is killed; result keeps what it was in the middle of. *)

Die(p) ==
  /\ p \in CrashProne /\ req[p].pc \notin {"ready", "done", "dead"}
  /\ req' = [req EXCEPT ![p] = [Fresh EXCEPT !.pc = "dead", !.result = req[p].pc]]
  /\ UNCHANGED <<contract, task, evidence, repo, touched, edits>>

CodeStep(p) ==
  \/ AdoptContract(p) \/ AdoptRefused(p) \/ CaptureBaseline(p)
  \/ StartReasoning(p) \/ Reason(p) \/ RecordOutcome(p) \/ AwaitValidation(p)
  \/ ObserveSource(p) \/ BeginTests(p) \/ EndTests(p) \/ ObserveGit(p)
  \/ ProducerRaises(p) \/ SaveEvidence(p)

Next ==
  \/ \E p \in Procs : RequestCode(p) \/ RequestValidate(p) \/ CodeStep(p) \/ Finalize(p) \/ Die(p)
  \/ \E path \in Paths : Edit(path) \/ Revert(path)
  \/ Commit

Spec == Init /\ [][Next]_vars
-----------------------------------------------------------------------------
(* Properties *)

Pcs == {"ready", "adopt", "baseline", "start", "reason", "record", "provisional", "source",
        "test", "testing", "git", "save", "finalize", "done", "dead"}
Requests == [pc : Pcs, result : Results \cup Pcs \cup {"none", "READY", "FAILED", "BLOCKED"},
             base : Snapshots, row : Rows \cup {NoRow}]

\* The shape of the rows and of the requests in flight.
TypeOK ==
  /\ contract \subseteq Kinds
  /\ task \in [status : {"absent", "running", "completed", "failed", "blocked"},
               outcome : Results \cup {"none", "AWAITING_VALIDATION", "VALIDATED_COMPLETION",
                                       "VALIDATION_FAILED", "VALIDATION_INCOMPLETE"}]
  /\ evidence \in Seq(Rows)
  /\ repo \in [head : Nat, dirty : SUBSET Paths]
  /\ req \in [Procs -> Requests]
  /\ touched \subseteq Paths
  /\ edits \in 0..MaxEdits

\* A task reads validated only if the database holds, for every kind its contract
\* requires, a row that passes: though the verdict is computed from what was
\* read before, by another process than those that write contract and evidence.
ValidatedByEvidence ==
  task.outcome = "VALIDATED_COMPLETION" =>
    contract # {} /\ \A k \in contract : "PASS" \in StatusesOf(evidence, k)

\* A passing git_status row stands on an earlier passing source_change row that
\* credits exactly the lines it saw, at the same HEAD, though the source row may
\* be another process's and the workspace changes all the time.
GitPassReconciled ==
  \A i \in DOMAIN evidence :
    evidence[i].kind = "git_status" /\ evidence[i].status = "PASS" =>
      LET j == evidence[i].source IN
      /\ j \in 1..(i - 1)
      /\ evidence[j].kind = "source_change" /\ evidence[j].status = "PASS"
      /\ TaskLines(evidence[j].now, evidence[j].base) = evidence[i].now.lines
      /\ evidence[j].now.head = evidence[i].now.head

\* The task reads running with no outcome only while a process is reasoning on it,
\* or because such a process was killed: every other way out leaves an outcome.
NoOrphanedRun ==
  task = [status |-> "running", outcome |-> "none"] =>
    \E p \in Procs :
      \/ At(p, "reason") \/ At(p, "record")
      \/ At(p, "dead") /\ req[p].result \in {"reason", "record"}

\* Two coding requests may race to store the contract: it is stored once.
ContractFixed == [][contract # {} => contract' = contract]_vars

\* The COMPLETED status that reasoning leaves is provisional: it stands only while
\* a process is about to take it back, or because that process was killed.
ProvisionalOwned ==
  task.outcome = "COMPLETED" =>
    \E p \in Procs : At(p, "provisional") \/ (At(p, "dead") /\ req[p].result = "provisional")

\* "coding reasoning success is provisional until the R6F gate validates the task
\* completion contract" (runtime/completion_runtime.py:4): once no process is at
\* work, a task that reads completed has been validated.
OnlyGateCompletes ==
  (\A p \in Procs : req[p].pc \in {"ready", "done", "dead"}) /\ task.status = "completed" =>
    task.outcome = "VALIDATED_COMPLETION"

\* "preexisting workspace change is not credited to the new task"
\* (tests/test_completion_evidence_producers.py:100): no source_change row credits
\* a file that nobody has touched since before the first request.
PreexistingNotCredited ==
  \A i \in DOMAIN evidence :
    evidence[i].kind = "source_change" =>
      {line.path : line \in TaskLines(evidence[i].now, evidence[i].base)} \subseteq touched
=============================================================================
