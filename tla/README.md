# lbe_guard_inspector in TLA+

A specification of the stateful parts of `lbe_guard_inspector`, the TLC runs that
check it on small instances, and theorems about it that TLAPS checks for all
instances. Paths below are relative to `src/lbe_guard_inspector/` unless they start with `src/`.

## 1. The system

`lbe` is a governed coding agent. A user opens a workspace with a terminal client
or one-shot CLI commands; reasoning planners and external providers do the work;
a database in SQLite, shared by every process that is started on the workspace,
remembers sessions, tasks, turns, evidence and recovery state; gates decide what
may be called done. Around it are tools that judge the workspace: an index of its files, guards and audits
made of deterministic rules, and a gatekeeper that lets rules into a profile. There is no server that
serialises the processes: most of
what is hard here comes from SQLite in autocommit mode, where a `SELECT` and the
`UPDATE` or `INSERT` that depends on it are separate steps, from the daemon thread
per provider turn, from processes that end between two writes, from two programs that talk over pipes,
and from files that their users edit between two looks at them.

| Component (code) | State | Operations | Talks to | Hard behaviour | Correct when |
|---|---|---|---|---|---|
| Turn control (`persistent_turn_control.py`, `provider_turn_runtime.py`, `provider_event_history.py`, `memory/operational_history.py`) | turn rows, journal of numbered rows, thread map, set of cancelled turns | start, steer, interrupt, cancel; provider thread: queue, call, project, close | clients, provider adapter, database | thread against cancel, stale sequence numbers, two processes, death with a turn open | journal numbered without gap; a turn closes once, for a recorded reason; a cancel suppresses the answer |
| Provider event adapter (`openai_compatible_event_adapter.py`) | none | `complete` | provider over HTTP, the thread | errors, malformed answers, late answers | at most one terminal event |
| Task completion, R6F (`runtime/completion_*.py`, `memory/completion_*.py`, `agent_integration.py`) | contract, evidence rows, task row, the workspace | code request: adopt contract, baseline, reason, record, three producers; validation: load, evaluate, finalise | git, test command, database | competing CLI processes, a workspace that changes meanwhile, death between status writes | validated means evidenced; evidence stands on what it names; no status without an owner |
| Bounded recovery, R5 (`recovery.py`) | one persisted row per operation | load, attempt, classify, persist, ask for evidence, cancel | workspace memory, the operation | restart between attempt and write, exceptions of callbacks, overlapping runs | attempts are counted and bounded across restarts; terminal is final |
| Invocation adapter (`invocation_adapter.py`) | worker threads, cancellation | invoke with timeout | transports | a timed-out call goes on running | one outcome per invocation |
| Workspace memory (`memory/store.py`, `promoter.py`, `context.py`, `compaction.py`, `integration.py`) | memory rows, checkpoints, session row | record, upsert, supersede, sweep, checkpoint, resume | everything that remembers | select-then-write, supersede in two transactions, a sweep while facts are recorded | one live row per identity; a resumption hands out facts that hold |
| Session and task state (`session_memory_runtime.py`) | session row, task rows | open, configure, record status, run reasoning | gateway, store | the whole row rewritten from a copy, transient statuses | a status has an owner; settings survive restarts |
| Cline stdio bridge (`runtime/cline_stdio_bridge.py`, `cline_stdio_protocol.py`, `governed_coding.py`, `cline_worker/`) | worker process, two pipes, pending calls of the worker | run turn, dispatch tool request, cancel, terminate | worker over pipes, tool orchestration | duplicate or late frames, read time-outs, writes without one, a worker that hangs, exits or lies | a run answers unless a write to its worker waits for good; no worker outlives it; the agent is told what was done |
| Tool orchestration, authorization (`runtime/tool_orchestration.py`, `authorization_resolver.py`, `mode_controller.py`) | receipts by operation identity | authorize, execute, replay | bridge, handlers | replay with other arguments, handler failing after its effect, users on the same file | no effect without authorization, each at most once; a receipt tells what was done |
| Module registry, runtime slice (`module_registry/`, `runtime_slice.py`) | registrations, in-flight requests, file watcher | register, update, request, snapshot | display | concurrent accounting | what is shown |
| Rule gatekeeper (`rule_gatekeeper.py`, `proposal_planner.py`) | the profile; proposals and decisions, which its callers hold | propose, revalidate, decide, apply | rule profile, verdicts of guards | hash-then-read and read-then-write of files that change; death inside the write; overlapping applies | what is written is what was approved, on evidence that stood |
| Audit controller (`src/audit_controller.py`) and rules (`src/rules/`) | registry of rules, results of the audit, snapshot of the last profile | gate, profile, packs, rules, summary | rules, workspace | a registry filled in different ways by earlier calls; rules that raise | a favourable summary covers what was asked for |
| Trace indexer (`src/agent.py`) | index rows, run rows, the write lock | walk, hash, upsert, commit, prune | files, SQLite | edits between stat and hash, failed stats, walks cut short, interrupts, kills, lock time-outs, competing traces | a row tells the content of its stamp; a lone trace loses no file but those it passed over |
| Request controller, guard runner (`request_controller.py`, `guard_runner.py`, `guard_inspector.py`, the vertical slices, `evidence_service.py`) | none | list, read and fingerprint files, judge, conclude | guards, index, reasoning backend | files that change, or change and change back, between the phases of one inspection | a verdict is true of one workspace, as far as a fingerprint can tell |
| Reasoning planners and providers, profiling, authority inspection, behaviour contracts, servers, tools | none, or configuration files | transformations and reads | - | - | - |

How a coding task flows: the gateway (`agent_integration.py`) establishes the
contract, captures the git baseline, runs reasoning through the session bridge,
which writes the task row before and after, has evidence produced and stored,
and a later `lbe session validate` computes the verdict from contract and evidence and
writes it over the task row. The coding itself is a governed run: the controller starts a Node worker,
the agent in it proposes tool calls over a pipe, the bridge has the orchestration authorize and execute them and
sends the receipts back. Turns are a separate conversation: the control
writes turn and journal rows, and the provider thread of each turn appends to the
same journal. Recovery wraps any one operation with persisted retries. Guards read the
workspace, and the index for what may be worth reading; audits run the same rules without the index; a guard's
FAIL may become a proposal to the gatekeeper.

## 2. Modules

| Module | Kind | Models |
|---|---|---|
| `OperationalHistory` | vocabulary and pure operators | tables of turns and events, sequence numbers, UNIQUE constraints, replay |
| `TurnLifecycle` | abstract specification | what a reader of the turn tables is promised |
| `TurnControl` | detailed specification | control requests, provider threads, projection, cancel, crash |
| `TaskCompletion` | specification | coding requests, evidence, validation, workspace |
| `Recovery` | specification | runs of `run_with_recovery` on one row |
| `WorkspaceMemory` | specification | rows of facts, their sweep, checkpoints and the session row, several processes |
| `ModePolicy` | pure operators | contracts of behaviours, modes, authorization |
| `ToolOrchestration` | actions without a specification of their own | receipts, refusals, the two tool handlers, users on the same files |
| `GovernedEffects` | abstract specification | what the governed coding runtime promises about the workspace |
| `GovernedRun` | composition | controller, bridge, worker, agent and pipes over `ToolOrchestration` |
| `WorkspaceIndex` | specification | traces of the indexer |
| `LoneTraces` | history | what each trace of `WorkspaceIndex` could rely on, for `AloneComplete` |
| `GuardRules` | pure operators | the deterministic rules with their limits, from status to verdict, selection of a guard, check of a plan |
| `GuardEvaluation` | composition | guard inspections over `WorkspaceIndex` and `GuardRules` |
| `SliceHistory` | history | what users did under an open inspection of `GuardEvaluation`, for `SliceExact` |
| `AuditRules` | operators | every rule of the four packs on a workspace, over `GuardRules` |
| `AuditController` | actions | audits of one process, its registry, the snapshot |
| `RuleGatekeeper` | actions | proposals, decisions and writes of a profile by several callers |
| `RuleGovernance` | composition | `AuditController` and `RuleGatekeeper` over one workspace |
| `MC...` | TLC instances | constants of the runs |
| `DataLemmas` | proofs | facts about the data the other proofs use: what `Max` of the community modules returns, what appending to and replacing in a sequence do |
| `TurnControlProofs`, `TaskCompletionProofs`, `RecoveryProofs`, `WorkspaceMemoryProofs`, `GovernedRunProofs`, `GuardEvaluationProofs`, `RuleGovernanceProofs` | proofs | see section 5 |

### TurnControl and TurnLifecycle

State: `turn` is `operational_turns.status`; `events` is `operational_events` with the
two numbers each row carries; `ctl[p]` is where process p is in
`PersistentTurnControl.handle`; `thr[t]` is the daemon thread of turn t; `draft` holds the
numbers `append_event` has read and not yet used; `cancelled` is `_cancelled_turns`.

Actions follow the SQL statements: `ControlRead`/`ControlWrite` and `ThreadRead`/`ThreadWrite`
are the two halves of `append_event`; the `...Raises` actions are the
`IntegrityError` of the UNIQUE constraints and the error of `finalize_turn`, each
leading where the code's `except` leads. `Crash` is the end of a process with its
daemon threads. `SupportsCancellation`, the answers of the adapter and which
processes have a provider are constants. A request without text
(`CreateTurnWithoutText`) raises after its turn was inserted, as the code does.

`TurnLifecycle` has three atomic actions (open, record, close with grounds). The
property `ImplementsLifecycle` says that every step of the detailed control is one of
them or a stutter, with the identity as refinement mapping: the tables are the same, but
the detailed steps read and write them at different moments.

### TaskCompletion

State: the rows `contract`, `task`, `evidence` (in `created_at` order); `repo` (HEAD and the
modified files); per process `req[p]`, one CLI request; `touched` and `edits` are history.
One action is one transaction, one look at the workspace or one call out. People and
the agent edit, revert and commit at any moment, up to `MaxEdits`.

The lines of `git status --short` keep the one detail the properties depend on:
`inspect_git_state` strips the whole output, so the first line loses its leading blank
(`Listing`). Evidence rows have content identity, as the digest of
`TaskCompletionEvidencePersistence.save` does: a row stored already keeps its place.

Simplifications: branch, HEAD and status of one look at git are one step, and so are that
look and the read of the latest source row by the same producer; of the reasoning
outcomes one is kept per status it maps to; "raised" stands for an exception, an invalid
response and a response for another task; only the coding branch of the gateway, whose
requests claim completion.

### Recovery

State: `row`, the persisted `RecoveryState`; `run[r]`, one call of `run_with_recovery` with
its counter and what it is persisting; `cancelled`; and history: `starts`, `completed`
and `overlapped`. A runner
is one call; a restart is another runner, and a process killed anywhere outside the
"ready" state is `Die`. `SelectRow` and `WriteRow` are the two statements of `upsert`;
`WriteRaises` is the identity index refusing a second INSERT. The operation is opaque: it returns,
or raises what `classify_failure` maps to one of `Raised`.

Nothing in the code keeps two runs of one operation apart, and when they overlap a
later write replaces an earlier one, success included. Most properties are therefore stated
for histories in which no two runs were active at once (`~overlapped`), which is what a
restart after a crash is. The upper bound in `AttemptsAccounted` and `CancelStops`
hold for overlapping runs too, and the run explores both; `TypeOK` does so by proof.

Left out: the delay between attempts, and the limit of 500 rows on the query that loads the state.

### WorkspaceMemory

State: `rows` and `age` (the table `workspace_memory`, and the place of each row in the order by `updated_at`), `points` and
`made` (checkpoints stored, and created), `session`, `file` (the workspace); `call[c]` is what process c is
in. A fact is recorded in three steps (the file is read, the identity is selected, the row is written), a
supersede in one more; the session row is loaded and saved as a whole by the opening of a bridge,
`configure_session` and a checkpoint (`RewriteOf`); a resumption queries, looks at one file after the other,
marks, and takes the latest checkpoint. `Leave` is an exception, a kill, or the use of a result, at any step.

History: `chosen` is what the session row has to show, and is given up (`Unknown`) when a process saves
a copy it loaded before another save; `crossed` says that two supersedes have overlapped; `disturbed`
that a file or a fact changed during a resumption. The properties are about what holds otherwise, and the run
explores the overlaps too: there settings are lost, two supersedes replace each other's record,
and `mark_stale`, which goes by id, marks a fact that was recorded anew meanwhile. None of this is against a
text of the repository. `Limit` is 1 for the code's 500: rows beyond it are neither handed out nor swept.
No production code calls `supersede`; it is a public method of the store and modelled as one.

### GovernedRun, ToolOrchestration, ModePolicy and GovernedEffects

State: `receipts` by operation identity, `owner` (who made what is at a path, or nobody) and `torn`
(files that a handler began and did not finish); `py` and `node`, where the two
programs are; `toNode` and `toPy`, the pipes; `pending`, the worker's calls that wait for a result; `reply`,
the answer of `controller.run`. One run is one worker process and one turn.

Every read of the bridge, and its wait for the exit of the worker, has a time-out (`ReadRaises`, `AwaitExit`), and every frame a
validation; the time-out of a read is per frame. A write has none: `send()` waits while the pipe has no room, for
a long frame or behind frames the worker has left unread (`WriteBlocks`), until the worker reads on
(`NodeDrains`) or exits. The worker may hang, exit or print to the pipe at any moment, and may stop to read. `MaxSteps` bounds what its agent does
in a turn. A frame carries what the two sides compare; one that is refused for
its form, its identity or its session is "malformed". Handlers are modelled call by call: the file may be
created or removed by users between the check of a path and the exclusive creation, and between
the creation and the write.

`GovernedEffects` is the promise: an operation makes a file where there is none, at most once, only authorized
and only while it is unsettled, and settles once, as EXECUTED only if it did what it was asked for. The
refinement maps the receipts to `settled` and what was authorized to `asked`; `ImplementsEffects` is checked, and proved, of
every behaviour of the bridge and the worker. `ToldTruth` relates what the agent was told to the receipts,
`ReadOnlyHonest` and `WorkerContained` are about runs that may not write, and about processes left behind;
`CompletedByAgent` says that only a final frame of the agent completes a turn, and `RunReplies` that every run answers unless a write to
the worker is left waiting for good, an exception the code needs (section 4).

### WorkspaceIndex

State: `disk` and `stamp`; `index` and `runs`, the committed rows; `writer`, the write lock; `trace[t]`, the walk with
its open batch. The content of a file is its kind with a number that tells contents of one kind apart (`Texts`); users write any
content, one that was there before included, and delete any file. The stamp stands for size and modification time, and is the number
of the edit that wrote the file: two edits that leave the same size and time are outside the model. A row is looked up, hashed and written in three steps, the batch is
committed every `Checkpoint` files, and the rows of other runs are deleted at the end of a full walk.

A walk may leave files out: an entry that is no file or whose `stat` fails is passed over (`Skip`), and an error of the operating system ends
the walk of a root as its last entry does (`WalkEnds`). The trace goes on, and its `DELETE` then removes the rows of those files although nobody
touched them; nothing in the repository promises that it does not. Two traces at once lose rows of one another too. `AloneComplete` says
that these are the only ways to lose one: it is about a trace without competitors and about the other files, which
`LoneTraces` keeps apart by three history variables: the files nobody touched since a trace began (`steady`), those it passed over (`missed`), and whether it
was alone (`alone`).

### GuardRules, GuardEvaluation and SliceHistory

A rule is a function of the kinds of content in the workspace; `Calls` and `Registry` say what a rule
reads in each kind. The callback rule has its limits: it opens the first `MaxScanned` scripts of its list in the order of their paths, stops with the
`MaxFiles`-th candidate, and stops in a file with the finding that reaches `MaxFindings` (`Firsts`, `CandidateFile`, `Findings`). An inspection lists the files of a phase and then reads them one by one, with edits in
between. The slices take a fingerprint before and after; `SliceExact` compares their answer with a reference that looks
once at the fingerprinted workspace (`CallbackReference`, `RegistryReference`), within the limits of the rule.

A fingerprint is a digest of contents, so it cannot see everything, and `SliceExact` says so in three exceptions. An unreadable file has no
hash, and its changes go unseen. What is undone before the second fingerprint (an edit and its reversal, a file created and removed) goes
unseen, while the rule may have judged what was there in between. And the fingerprint of the callback slice leaves out `.lbe`, whose scripts the rule reads
all the same (`Hidden`, `Excluded`). `SliceHistory` records what users did while an inspection was open: the contents each file had (`had`), the files that got
one of them back (`returned`); `Discernible` is that nothing came back and that no
script outside the fingerprint was touched. The model has all these behaviours and the run explores them; what a slice says in them is not
what its document promises (section 4). That the limits and the listing come from different moments is no exception: it is what makes the property hard.
The manifest of an extension, which only the pack selection would see, is absent here and present in `AuditRules`;
scores and limits of the search are abstracted to "mentions the problem". The index is that of one trace, completed
before the inspection begins.

### AuditRules, AuditController, RuleGatekeeper and RuleGovernance

An audit runs its gate, takes the profile, resolves the packs and runs their rules, each a step between which users
edit. Packs and rules are taken in any order and the results are a set: the summary counts them by status, and no
order the code could use is left out. The registry outlives it: a pack is keyed by names, by ids or by both, according to what the
process resolved before, and a rule keyed both ways runs twice; one that raises is "failed" when it is keyed by name
and "blocked" when keyed by id. With overrides the summary is fixed at the gate, whatever the rules then
return, which is why `SummaryCovers` speaks of the other favourable summaries only.

The gatekeeper writes nothing but the profile; proposals and decisions are data of its callers. Each
reading of a file is a step, in the order of the code: the profile is loaded, the references are hashed, the target
is hashed, and so on again when a decision is recorded and when it is applied. The write is two steps, the truncation
and the text, and a kill between them leaves a torn profile.

What the model shows and the code allows, so that the properties except it: two overlapping applies lose
the first one's rule; a save of a user between the last read and the write is overwritten; a failed
activation leaves the profile changed; a decision is not used up, so that it can be applied again when users
restore the profile it was made for.

`RuleGovernance` has both over one workspace. A behaviour has either audits or the gatekeeper at work (`workload`): they share
only files, which the users edit as they like in both. Other bounds of this composition: one configured
root, references read in the order of the code's sort, at most `MaxDrafts` calls that propose or
decide at a time (any number apply), only files that are evidence are edited beside the gatekeeper, and the
snapshot keeps the signals of a profile only.

## 3. Runs

| Run | Instance | Shows |
|---|---|---|
| `turn_control` | 2 processes (one with provider and killable), 2 turns, 2 answers, requests until the journal has 3 rows | `JournalNumbered`, `OutcomeGrounded`, `ReplayAgrees`, `ImplementsLifecycle`, `SuppressedInFlight` |
| `turn_single` | 1 process, 2 turns, all 7 shapes of answers, no steering, transport without cancel, fair | `OneActiveTurn`, `TurnSettles` |
| `turn_late` | 1 process, 1 turn | finding: model rows after an accepted cancel |
| `task_completion` | 2 processes of different policies, one killable, 2 files, one of them modified beforehand, 2 edits | `ValidatedByEvidence`, `GitPassReconciled`, `NoOrphanedRun`, `ProvisionalOwned`, `ContractFixed` |
| `task_provisional` | 1 killable process | finding: completed without a gate |
| `task_preexisting` | 1 process | finding: an untouched file credited to the task |
| `recovery` | 3 runs with policies of 3 (evidence required), 2 and 1 attempts, two killable, one cancellable | `AttemptsAccounted`, `EndsRecorded`, `TerminalFinal`, `CancelStops`, `CompletedOnce` |
| `workspace_memory` | 2 processes, 5 calls, a file, a fact of git and an observation, 3 rows, a query of 1 row, 1 edit, 2 checkpoints | `SweptClean`, `SupersessionEnds`, `SessionRestored` |
| `governed_run` | 1 run, 2 call identities, 3 requests, 2 steps of the agent, 1 edit, cancels, writes that wait, fair | `ToldTruth`, `ReadOnlyHonest`, `WorkerContained`, `ImplementsEffects`, `CompletedByAgent`, `RunReplies` |
| `workspace_index` | 2 traces, 2 roots, 2 edits (undone ones included), failed stats and walks cut short, batches of 2 | `IndexTruthful`, `AloneComplete` |
| `guard_evaluation` | 1 inspection of any kind, 4 workspaces of 6 files, one script and the registry under `.lbe`, 2 edits, limits of 3 scripts, 2 candidates and 3 findings | `SliceExact`, `ContradictionWithholds` |
| `rule_governance` | 2 audits over 4 workspaces, 6 requests; or 2 callers, 2 proposals, 2 writes; 1 edit | `SummaryCovers`, `ApprovedExactly`, `StoodAfterApproval`, `AppliedStays` |

Why the bounds are enough. Turn control: a clash of numbers needs two appenders and one
turn; a wrong close needs a thread, a cancelling client and a second process. Two turns show
rows of one turn between rows of another. `MaxEvents` bounds only new requests: requests
and threads under way finish, so answers, error rows and refused insertions all
happen beyond it. Task completion: a stale verdict or a lost contract needs two
processes; two files are the least for a listing whose first line changes; two edits allow
edit-and-revert and edit-and-commit. Recovery: three runs allow a kill, a kill of the restart and
a run that must see the terminal row; the largest policy has three attempts, so a
middle attempt exists. The theorems cover all other instances, of these three and of those below.

Workspace memory: a row brought back, a circle and a lost setting each need two calls that overlap and one before
them; a circle needs two rows, and a third for the identity recorded again. A limit of one is the
least that leaves a row out. One edit makes a fact wrong, and a file disappear. Governed run: the second call
identity makes parallel calls and a repeated identity possible; runs share receipts only by identities that contain
the run, so one run shows what several do; a path on which a handler, a user and another call meet is one path.
Index: two traces compete for the lock and prune each other; two edits are one between stat and hash
and one after, or an edit and its reversal; what a walk passes over needs one file. Guards: an inspection writes nothing, so one shows what several do; two edits change a file between
listing and reading, or undo a change before the second fingerprint, and the limits are the least that leave a script, a candidate and a finding out while
others are judged. `MCFirstDisks` has more scripts, candidates and findings than that. Rule governance: two proposals and two writes are what it takes to lose a
rule; two audits of one process are what it takes to find the registry filled; its workspaces have one script, so the limits of the callback rule are not reached there.

Deadlock is not checked in any run: every instance has a finite number of requests,
processes or runs, after which the system may rest.

Fairness. Two runs use it. `turn_single`: weak fairness of the steps of a control request under way and of the
steps of each thread. The code justifies it: a handler and a daemon thread are
ordinary running code, the HTTP call has a timeout, and neither waits for a user.
`StartRequest`, other requests and `Crash` have no fairness. `TurnSettles` excludes what
the code leaves open: a turn that asked for a tool, and a killed process.
With steering or a second process the property does not hold, because the fallback
error row can itself meet a refused insertion; the run's instance is the one where nobody
else appends. `governed_run`: weak fairness of the Python side for `RunReplies`. It is one running
program, its reads and its wait for an exit have time-outs, and the termination of a worker ends in a kill. Its writes have no time-out: one that
waits for room disables the Python side, and nothing but the worker's reading or its exit lets it go on, for which no fairness is assumed. `RunReplies` therefore has
`[]<>~Blocked` as its condition; without it TLC refutes the property with a worker that is blocked for ever. Nothing is
assumed of the worker, which may hang for ever, of the agent or of users.

Every property of a passing run has a mutant in `PROJECT.json`: a definition
changed as a plausible bug would, and refuted by that property. The mutated definitions
stand just before the definitions they replace, marked as mutants.

## 4. Disagreements between code and text

- **Late projection** (`turn_late`, `provider_turn_runtime.py:39`). The thread asks `was_cancelled` once; the
  projection loop never does. `src/docs/acceptance/P16_CANCELLATION_CHECKPOINT.md:137` says there is no late
  projection after an accepted cancel.
- **Completed without a gate** (`task_provisional`, `session_memory_runtime.py:261`). The bridge commits
  `completed`; the coding runtime takes it back in a second transaction.
- **Preexisting change credited** (`task_preexisting`, `memory/context.py:39`). `strip()` of the whole listing
  makes the first line differ from the same line elsewhere in the list.

Met while modelling and not given a run: an older PASS satisfies a requirement whatever the latest row
says (`runtime/completion_gate.py:108`, against `src/docs/acceptance/R6F_COMPLETION_VALIDATION_ACCEPTANCE_GATE.md:18`); a failure is persisted as open before its
evidence is asked for, so that a restart executes without it (`recovery.py:266`, against
`src/docs/acceptance/R5_BOUNDED_RECOVERY_ACCEPTANCE_GATE.md:54`); the request controller judges a package that was built without the index
rows it retrieved (`request_controller.py:93`), so that contradictions between the two do not
withhold a PASS there as `src/README.md:158` says of every inspection (`ContradictionWithholds` is
about the diagnostic guard run, where they do). And two that properties except and say so: `send()` writes and flushes without a time-out, so that a worker that
stops to read while a frame finds no room keeps its run from answering (`runtime/cline_stdio_bridge.py:100`, against the turn's time-out that fails closed in
`src/docs/acceptance/LBE_CLINE_GOVERNED_NODE_STDIO_ARCHITECTURE_GATE.md:311-317`; the condition of `RunReplies`); two digests of contents are compared, so that
what is undone between them, or done under `.lbe`, raises nothing (`callback_vertical_slice.py:65`, against "any mutation raises an error" in
`src/docs/PHASE_13_CALLBACK_VERTICAL_SLICE.md:38`; `Discernible`, the condition of `SliceExact`).

## 5. Theorems

All of these hold for every value of the constants that satisfies the modules' `ASSUME`s.

**TurnControlProofs.** `Typed`, `Numbered`, `Grounded`, `Implementation`, and `OneActive` for a single process.
`JournalNumbered` is not inductive: what keeps numbers from being reused is the pair of a reader's
draft and the UNIQUE constraint. `JournalInv` adds that a draft is either exactly the next numbers or
numbers already taken (`NextOrTaken`), so an insertion either appends or is refused. `WitnessInv` adds that whoever is about to
close a turn (a cancelling process past its insertion, a thread at "close") already has
its row in the journal; with it each close is a `Close` of `TurnLifecycle`. `SoleStarter` is the
strengthening for one process: no running turn while a start is between its check and its INSERT. `AnswerInv` follows the answer
of a provider: a turn has no model row before its answer (`Unanswered`), a thread with a terminal status in hand
has it as the last replayable row, and the thread of a turn it has closed appends no more. That a queue row starts one thread per turn (`OpeningInv`) keeps a finished
thread from being started again. From it `ReplayTold` and, as a stability argument over `Suppressed`, `CancelSuppresses`.

**TaskCompletionProofs.** One invariant, `TaskInv`, for `TypedTask`, `Validated`, `GitReconciled`, `RunOwned`
and `ProvisionalStatusOwned`: every request holds what its step relies on (a READY in hand is
backed by stored rows, a drafted git row is reconciled with a stored source row), which later steps of others
preserve because evidence is only appended and the contract is never replaced
(`ContractNeverReplaced`).

**RecoveryProofs.** `RecoveryInv` has three layers: `SoundInv`, what a runner knows whoever else runs;
`AloneInv`, that without overlap the one active runner's counter is the row's, plus one for an
attempt not yet saved, and the row is open; and `CompletedInv`, that a result is in the row, on
its way to it, or gone with a killed runner. `LoopStep` reduces the twelve loop actions to three effects (an attempt
starts, the row is written, neither), and the rest is about effects. From it:
`TypedRecovery`, `Accounted`, `Budgeted`, `EndsInRow`, `TerminalIsFinal`, `CompletedOnceUnlessKilled` and, as a
stability argument over `Stopping`, `CancelIsFinal`.

`TypedRecovery` and `Budgeted` state invariants of `Recovery` (`TypeOK`, `BudgetHeld`) that no run checks: the proof covers
every instance.

**WorkspaceMemoryProofs.** `MemoryInv` says what each call holds between its steps. A claim has the key and the hash its row
will have, and the id of a row that it found or wrote; a session row that is loaded is the row, or known to be outdated; an
undisturbed resumption knows the rows as they are and has among its facts those that match their files. `Apart` is the part
about `supersede`: while no two calls of it overlap, the record that is about to replace another one is live, so it is
neither that record nor replaced by it. `Stable` and `Grown` steps keep what other calls hold; each action is one of them and a change of its own call.
From it `MemoryKeepsTypes` (with one live row per identity), `SweepsClean`, `SupersedingEnds` and `SessionsAreRestored`.

**GovernedRunProofs.** Layers, each inductive relative to those before: `Shapes`, the types with what a frame of each kind
carries; `WorkerContained`; `OperationInv`, one operation from its grant to its receipt, with the handler at work in between (`Operated`);
`ReplyInv`, that the run at work has not replied and no operation of a run to come is made; `TellingInv`, that a result in the pipe has the status of its receipt;
`ResultInv`, that a worker gets one turn, so that its result stays once it is there. From them `TypedRun`,
`Contained`, `HonestlyReadOnly`, `TruthTold`, the action property `CompletedOnlyByAgent`, and `EffectsImplemented`: every step
of controller, bridge, pipes, worker and users is a step of `GovernedEffects` or a stutter.

**GuardEvaluationProofs.** `TruthInv` extends `IndexTruthful` to the rows of open batches and to the look in hand: all of them are truthful
about the content of their stamp, and no stamp is later than the last edit (`Faithful`). From it `RowsAreTruthful`, for traces that
compete and die. `LoneInv` follows the walk of a trace that was alone: each steady file is passed over (`missed`), still ahead of it (in the rest of its root, in a later root, in
hand) or covered, in the index or the open batch, by a current row that carries its run, which the DELETE spares; a lone trace finds the lock free and its
rows unchanged because no other trace is at work. With `TruthInv`, for the hashes it takes over from older rows, that gives `LoneTracesComplete`, which states
`AloneComplete`. `InspectionKeepsTypes`, and
`NoPassAgainstIndex` from `RequestTyped` (a verdict is reached once, by the decision) and `Diagnosed` (a diagnostic
inspection keeps the evidence its contradictions were looked for in until it decides). `SliceInv` is what `SlicesAreExact` needs, the
theorem about `SliceExact`, and part of it speaks of inspections that are `Clear`: every file could be read for the first fingerprint, and `Discernible` holds. `Witnessed` says that the history has every
content that a phase saw; as nothing came back, a file whose content is still that of the fingerprint was never anything else. While no file differs from its
fingerprint (`Steady`) each phase has gathered what one look at the fingerprinted workspace would give it, the scan in the order and to the limits of the rule, and the
verdict from it is the reference's. Once a file differs nothing is said about the
phases, but the file stays one that the second fingerprint shows to have changed, or will show (`Betrays`), and the slice answers "changed". That the limits of findings are counted alike by
the rule and the reference needs no induction: both use `Findings` on the same files. What the numbers of `Firsts` need about cardinalities is from `FiniteSetTheorems`.

**RuleGovernanceProofs.** `KeeperInv` says for each call of the gatekeeper what it has read so far: in "refs" it holds the references found
unchanged, and each other one is still to be read or has changed for good; before the write, the profile it read and what that carries. `Carries` is the strengthening of `AppliedStays`:
a profile has the rule of every write that no user's save, overlapping write or later write of the same rule disturbs, and so has each profile
in a call's hands. `AuditInv` says of every
requested pack that it is still to be loaded, or could not be, or that each of its rules has a result, waits or was skipped (`Handled`), and that a gate that was
closed or skipped left a failing result. From them `RulesKeepTypes`, `SummariesCover`, `AppliedAsApproved`, `EvidenceStood` and `AppliedRulesStay`.

The assumptions these proofs needed are in the modules: an index has at least one root, and what its workspaces begin with and users write
are contents (`IndexAssumption`), those of the governed workspace begin with files nobody has edited yet (`StartAssumption`), the limits of the callback rule
are at least one (`LimitAssumption`), and the profiles users save and begin with have a place for every
rule of a guard (`GatekeeperAssumption`), its text being `NoRule` where there is none. `GuardAssumption` says that the order of paths an inspection
goes by has exactly the files of the workspace, and that the registry lies under `.lbe` and, a JSON file, has no script's extension.

Only model-checked: `TurnSettles` and `RunReplies` (liveness under
fairness, beyond the prover, as is anything with ENABLED). No module that is proved about uses a RECURSIVE
operator, and induction over data is avoided: `Max` is characterised through well-founded minima in `DataLemmas`.

## 6. Not modelled, and the plan

Not modelled for good: argument parsing, rendering, HTTP and JSON decoding, planners
(pure transformations whose outcome is an input of the models), profiling, authority
inspection, the parsing inside the audit rules (their statuses are in `AuditRules` and `GuardRules`), one-shot scripts.
`PROJECT.json` lists each component with its status, and the hazards with the
line where each bites and the property that would catch it.

Not modelled so far:

- the store and the watcher of the module registry and the request counter of `runtime_slice.py`: they feed a display, and nothing
  decides by what they show;
- the invocation adapter beyond the outcomes of a call: its thread may outlive the call, but the only
  request it carries is an inspection that writes nothing, and no code wraps it in a recovery;
- the delivery of `process_events.py`, HTTP handlers and the configuration of the indexer;
- authority ownership inspection, a static analysis without state.

Done, in this order: turn control and lifecycle; task completion; recovery; the governed run over the tool
orchestration with its abstract specification; the index and the guards over it; audits and the gatekeeper; the workspace memory.

To follow: a small model of the runtime slice's counter, if anything comes to depend on it.
