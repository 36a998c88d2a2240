------------------------------ MODULE GovernedRun ------------------------------
(***************************************************************************)
(* Governed coding runs: the controller (runtime/governed_coding.py), the  *)
(* stdio bridge (runtime/cline_stdio_bridge.py, cline_stdio_protocol.py)   *)
(* and its Node worker (runtime/cline_worker/worker.mjs), over the tool    *)
(* orchestration.                                                          *)
(*                                                                         *)
(* One worker process and one turn per run.  The two sides exchange frames *)
(* over two pipes, in order.  The worker may hang, exit or be slow at any  *)
(* moment; inside it the agent of the provider proposes tool calls, in     *)
(* parallel if it likes, and may use a call identity again once its first  *)
(* use is no longer pending.  Frames carry what the two sides compare.     *)
(* "malformed" is a line that read() or execute_turn refuses: one that is  *)
(* no frame (a library of the agent that prints), one with the identity of *)
(* an earlier frame or with another session or turn.                       *)
(*                                                                         *)
(* A pipe holds so much: a long frame, or one behind frames the worker has *)
(* not read, waits for room, and nothing limits that wait (send()).        *)
(***************************************************************************)
EXTENDS ToolOrchestration, Sequences

CONSTANTS
  NoRun,
  MaxSteps,        \* of the agent in one turn: tool calls and events (a bound)
  MayCancel        \* whether a client of the bridge sends control.cancel

ASSUME RunAssumption ==
  /\ NoRun \notin Runs
  /\ MaxSteps \in Nat
  /\ MayCancel \in BOOLEAN

VARIABLES
  py,          \* controller.run and the bridge, on the Python side
  reply,       \* per run: the response of controller.run
  node,        \* the worker process
  pending,     \* pendingToolResults of the worker
  toNode,      \* stdin of the worker
  toPy,        \* stdout of the worker
  told         \* history: what the agent was told of its calls

bridge == <<py, reply, node, pending, toNode, toPy, told>>
vars == <<context, receipts, owner, granted, made, torn, edits,
          py, reply, node, pending, toNode, toPy, told>>

NoCall == [call |-> "none", request |-> NoRequest]
Resting == [pc |-> "idle", run |-> NoRun, job |-> NoCall, terminal |-> "none", error |-> FALSE,
            write |-> "new"]
NoWorker == [life |-> "none", started |-> FALSE, agent |-> "none", steps |-> 0,
             shutting |-> FALSE, cancelled |-> FALSE, result |-> "none"]
NoReply == [outcome |-> "none", read_only |-> TRUE]

Init ==
  /\ OrchestrationInit
  /\ py = Resting
  /\ reply = [r \in Runs |-> NoReply]
  /\ node = NoWorker
  /\ pending = {}
  /\ toNode = <<>>
  /\ toPy = <<>>
  /\ told = {}

Frame(type) == [type |-> type, job |-> NoCall, status |-> "none"]
Op(call) == <<py.run, call>>
IsRunning == node.life \in {"up", "closed"}
Send(frame) == toNode' = Append(toNode, frame)
Write(frame) == toPy' = Append(toPy, frame)

\* The write under way waits for room in the pipe of a worker that is there.
Blocked == py.write = "waits" /\ IsRunning

-----------------------------------------------------------------------------
(* Python: GovernedClineReasoningController.run *)

\* run() up to worker.start: a new worker process and its first frame, which
\* an empty pipe takes.
StartRun(r) ==
  /\ py.pc = "idle" /\ reply[r] = NoReply
  /\ context.decision.mode = "coding"
  /\ py' = [Resting EXCEPT !.pc = "starting", !.run = r]
  /\ node' = [NoWorker EXCEPT !.life = "up"]
  /\ pending' = {}
  /\ toNode' = <<Frame("runtime.start")>>
  /\ toPy' = <<>>
  /\ UNCHANGED <<orchestration, reply, told>>

\* The end of the worker process, with its memory and what it has not read.
Gone ==
  /\ node' = [NoWorker EXCEPT !.life = "dead", !.result = node.result]
  /\ pending' = {}
  /\ toNode' = <<>>
WorkerStill == UNCHANGED <<node, pending, toNode>>

\* terminate(): the process is gone when it returns.
Terminate == Gone

\* The except of run(): any exception of start or execute_turn.
FailClosed == py' = [py EXCEPT !.pc = "finally", !.job = NoCall, !.error = TRUE, !.write = "new"]

\* read() gets the next frame.  The process may exit between the check that
\* it runs and the readline, which still returns what is in the pipe.
ReadFrame(type) ==
  /\ toPy # <<>> /\ Head(toPy).type = type
  /\ toPy' = Tail(toPy)

\* A mutant of the next definition: a wait without a timeout.
WaitForever ==
  ~IsRunning /\ WorkerStill

\* read() raises without a frame: the process has exited, or the wait times
\* out and read terminates the worker.
ReadRaises ==
  \/ ~IsRunning /\ WorkerStill
  \/ IsRunning /\ toPy = <<>> /\ Terminate

Reading == py.pc \in {"starting", "turn"}

ReadFails ==
  /\ Reading /\ ReadRaises
  /\ FailClosed
  /\ UNCHANGED <<orchestration, reply, toPy, told>>

\* start() returns on runtime.ready.
ReadReady ==
  /\ py.pc = "starting" /\ ReadFrame("runtime.ready")
  /\ py' = [py EXCEPT !.pc = "execute"]
  /\ UNCHANGED <<orchestration, reply, node, pending, toNode, told>>

\* execute_turn sends its frame, or send() raises: the worker has exited, perhaps during the write.
SendTurn ==
  /\ py.pc = "execute" /\ ~Blocked
  /\ IF IsRunning
     THEN py' = [py EXCEPT !.pc = "turn", !.write = "new"] /\ Send(Frame("turn.execute"))
     ELSE FailClosed /\ UNCHANGED toNode
  /\ UNCHANGED <<orchestration, reply, node, pending, toPy, told>>

\* runtime.error, or a line that is refused: terminate and raise.
ReadError ==
  /\ Reading /\ (ReadFrame("runtime.error") \/ ReadFrame("malformed"))
  /\ Terminate
  /\ FailClosed
  /\ UNCHANGED <<orchestration, reply, told>>

ReadEvent ==
  /\ py.pc = "turn" /\ ReadFrame("provider.event")
  /\ UNCHANGED <<orchestration, py, reply, node, pending, toNode, told>>

\* turn.completed or turn.failed ends execute_turn.
ReadTerminal ==
  /\ py.pc = "turn"
  /\ \E type \in {"turn.completed", "turn.failed"} :
       /\ ReadFrame(type)
       /\ py' = [py EXCEPT !.pc = "finally",
                           !.terminal = IF type = "turn.completed" THEN Head(toPy).status ELSE "failed"]
  /\ UNCHANGED <<orchestration, reply, node, pending, toNode, told>>

ReadProposal ==
  /\ py.pc = "turn" /\ ReadFrame("tool.proposed")
  /\ py' = [py EXCEPT !.pc = "invoke", !.job = Head(toPy).job]
  /\ UNCHANGED <<orchestration, reply, node, pending, toNode, told>>

-----------------------------------------------------------------------------
(* Python: _mediate_tool_proposal *)

Goto(pc) == py' = [py EXCEPT !.pc = pc]
BridgeStill == UNCHANGED <<reply, node, pending, toNode, toPy, told>>

\* A mutant of the next definition: the handler runs again for a stored receipt.
InvokeAgain ==
  /\ py.pc = "invoke"
  /\ LET o == Op(py.job.call)
         r == py.job.request
     IN  IF Refusal(r) # "none" THEN Refuse(o, r) /\ Goto("answer")
         ELSE /\ granted' = [granted EXCEPT ![o] = r] /\ Goto(r.tool)
              /\ UNCHANGED <<context, receipts, owner, made, torn, edits>>
  /\ BridgeStill

\* orchestrator.invoke: the prior receipt, a refusal, or the handler.
Invoke ==
  /\ py.pc = "invoke"
  /\ LET o == Op(py.job.call)
         r == py.job.request
     IN  \/ Answered(o) /\ Goto("answer") /\ UNCHANGED orchestration
         \/ Refuse(o, r) /\ Goto("answer")
         \/ CallHandler(o, r) /\ Goto(r.tool)
  /\ BridgeStill

ReadHandler ==
  /\ py.pc = "read"
  /\ \E status \in {"EXECUTED", "FAILED"} : ReturnFrom(Op(py.job.call), "read", status)
  /\ Goto("answer")
  /\ BridgeStill

CheckTarget ==
  /\ py.pc = "create"
  /\ IF CreateChecks(py.job.request.path)
     THEN Goto("open") /\ UNCHANGED orchestration
     ELSE ReturnFrom(Op(py.job.call), "create", "FAILED") /\ Goto("answer")
  /\ BridgeStill

OpenTarget ==
  /\ py.pc = "open"
  /\ LET o == Op(py.job.call)
         p == py.job.request.path
     IN  \/ OpenExclusive(o, p) /\ Goto("write")
         \/ owner[p] # Nobody /\ ReturnFrom(o, "create", "FAILED") /\ Goto("answer")
  /\ BridgeStill

WriteTarget ==
  /\ py.pc = "write"
  /\ LET o == Op(py.job.call)
     IN  ReturnFrom(o, "create", "EXECUTED") \/ WriteRaises(o)
  /\ Goto("answer")
  /\ BridgeStill

\* The tool.result frame, or the exception of send() to a worker that has exited.
SendResult ==
  /\ py.pc = "answer" /\ ~Blocked
  /\ IF IsRunning
     THEN /\ Send([Frame("tool.result") EXCEPT !.job = py.job,
                                               !.status = receipts[Op(py.job.call)].status])
          /\ py' = [py EXCEPT !.pc = "turn", !.job = NoCall, !.write = "new"]
     ELSE FailClosed /\ UNCHANGED toNode
  /\ UNCHANGED <<orchestration, reply, node, pending, toPy, told>>
-----------------------------------------------------------------------------
(* Python: the finally clause and the response of run() *)

\* if worker.is_running: worker.shutdown(...)
Shutdown ==
  /\ py.pc = "finally" /\ ~Blocked
  /\ \/ IsRunning /\ py' = [py EXCEPT !.pc = "stopping", !.write = "new"] /\ Send(Frame("runtime.shutdown"))
     \/ ~IsRunning /\ py' = [py EXCEPT !.pc = "respond", !.write = "new"] /\ UNCHANGED toNode
  /\ UNCHANGED <<orchestration, reply, node, pending, toPy, told>>

\* A mutant of the next definition: the answer is taken for the exit of the process.
ReadShutdownOnly ==
  /\ py.pc = "stopping"
  /\ \/ toPy # <<>> /\ toPy' = Tail(toPy) /\ Goto("respond") /\ WorkerStill
     \/ ReadRaises /\ Goto("respond") /\ UNCHANGED toPy
  /\ UNCHANGED <<orchestration, reply, told>>

\* shutdown() takes the next frame, whatever it is, for the answer.
ReadShutdown ==
  /\ py.pc = "stopping"
  /\ \/ /\ toPy # <<>> /\ toPy' = Tail(toPy)
        /\ IF Head(toPy).type = "malformed"
           THEN Terminate /\ Goto("respond")
           ELSE WorkerStill /\ Goto("waiting")
     \/ ReadRaises /\ Goto("respond") /\ UNCHANGED toPy
  /\ UNCHANGED <<orchestration, reply, told>>

\* process.wait after closing stdin, and terminate when it times out.
AwaitExit ==
  /\ py.pc = "waiting"
  /\ IF IsRunning THEN Terminate ELSE WorkerStill
  /\ Goto("respond")
  /\ UNCHANGED <<orchestration, reply, toPy, told>>

\* A mutant of the next definition: any turn.completed frame will do.
AnyCompleted == ~py.error /\ py.terminal # "failed"

\* What run() asks of the terminal frame before it says COMPLETED.
TurnCompleted == ~py.error /\ py.terminal = "completed"

\* A mutant of the next definition: only an outcome that completed counts as a mutation.
MutatedIfCompleted ==
  TurnCompleted /\ \E o \in Operations : receipts[o] = [status |-> "EXECUTED", tool |-> "create"]

\* mutated, over all the receipts this controller has observed.
Mutated == \E o \in Operations : receipts[o] = [status |-> "EXECUTED", tool |-> "create"]

Respond ==
  /\ py.pc = "respond"
  /\ reply' = [reply EXCEPT ![py.run] =
                 [outcome |-> IF TurnCompleted THEN "COMPLETED" ELSE "ORCHESTRATION_ERROR",
                  read_only |-> ~Mutated]]
  /\ py' = Resting
  /\ UNCHANGED <<orchestration, node, pending, toNode, toPy, told>>

\* A client of the bridge cancels: its frame is read whenever the worker gets
\* to it, and follows the write under way.
Cancel ==
  /\ MayCancel /\ IsRunning /\ ~node.cancelled /\ ~Blocked
  /\ node' = [node EXCEPT !.cancelled = TRUE]
  /\ Send(Frame("control.cancel"))
  /\ UNCHANGED <<orchestration, py, reply, pending, toPy, told>>

\* A write finds no room: the frame is longer than the pipe, or the worker has
\* left others unread.  The frame of a shutdown is short.
WriteBlocks ==
  /\ py.pc \in {"execute", "answer", "finally"} /\ IsRunning /\ py.write = "new"
  /\ py.pc = "finally" => toNode # <<>>
  /\ py' = [py EXCEPT !.write = "waits"]
  /\ UNCHANGED <<orchestration, reply, node, pending, toNode, toPy, told>>

-----------------------------------------------------------------------------
(* Node: the line handler of the worker *)

\* The worker reads on until the write that waits has gone through.  One that
\* hangs does not, nor does one that has closed its input.
NodeDrains ==
  /\ node.life = "up" /\ py.write = "waits"
  /\ py' = [py EXCEPT !.write = "fits"]
  /\ UNCHANGED <<orchestration, reply, node, pending, toNode, toPy, told>>

Line(type) ==
  /\ node.life = "up"
  /\ toNode # <<>> /\ Head(toNode).type = type
  /\ toNode' = Tail(toNode)

NodeStart ==
  /\ Line("runtime.start")
  /\ \/ node' = [node EXCEPT !.started = TRUE] /\ Write(Frame("runtime.ready"))
     \/ node' = [node EXCEPT !.life = "closed"] /\ Write(Frame("runtime.error"))
  /\ UNCHANGED <<orchestration, py, reply, pending, told>>

NodeExecute ==
  /\ Line("turn.execute")
  /\ node' = [node EXCEPT !.agent = "running"]
  /\ UNCHANGED <<orchestration, py, reply, pending, toPy, told>>

\* settleToolResult: the result settles its pending call, or the worker gives up.
NodeResult ==
  /\ Line("tool.result")
  /\ LET frame == Head(toNode)
     IN  IF frame.job.call \in pending
         THEN /\ pending' = pending \ {frame.job.call}
              /\ told' = told \cup {[op |-> Op(frame.job.call), status |-> frame.status]}
              /\ UNCHANGED <<node, toPy>>
         ELSE /\ node' = [node EXCEPT !.life = "closed",
                                      !.agent = IF @ = "running" THEN "aborted" ELSE @]
              /\ Write(Frame("runtime.error"))
              /\ UNCHANGED <<pending, told>>
  /\ UNCHANGED <<orchestration, py, reply>>

NodeShutdown ==
  /\ Line("runtime.shutdown")
  /\ node' = [node EXCEPT !.life = "closed", !.shutting = TRUE,
                          !.agent = IF @ = "running" THEN "aborted" ELSE @]
  /\ pending' = {}
  /\ Write(Frame("turn.completed"))
  /\ UNCHANGED <<orchestration, py, reply, told>>

\* Before the first frame has been handled a cancel makes the worker give up.
NodeCancel ==
  /\ Line("control.cancel")
  /\ CASE ~node.started -> /\ node' = [node EXCEPT !.life = "closed"]
                           /\ Write(Frame("runtime.error"))
       [] node.agent = "none" /\ node.started -> Write(Frame("runtime.error")) /\ UNCHANGED node
       [] OTHER -> node' = [node EXCEPT !.agent = "aborted"] /\ UNCHANGED toPy
  /\ UNCHANGED <<orchestration, py, reply, pending, told>>

NodeDies ==
  /\ IsRunning
  /\ Gone
  /\ UNCHANGED <<orchestration, py, reply, toPy, told>>

-----------------------------------------------------------------------------
(* Node: the agent of the provider, behind the proxy tools *)

Step == IsRunning /\ node.steps < MaxSteps

\* execute() of a proxy tool
AgentProposes(c, r) ==
  /\ Step /\ node.agent = "running" /\ c \notin pending
  /\ pending' = pending \cup {c}
  /\ node' = [node EXCEPT !.steps = @ + 1]
  /\ Write([Frame("tool.proposed") EXCEPT !.job = [call |-> c, request |-> r]])
  /\ UNCHANGED <<orchestration, py, reply, toNode, told>>

AgentOutput ==
  /\ Step /\ node.agent # "none" /\ ~node.shutting
  /\ node' = [node EXCEPT !.steps = @ + 1]
  /\ \E type \in {"provider.event", "malformed"} : Write(Frame(type))
  /\ UNCHANGED <<orchestration, py, reply, pending, toNode, told>>

\* The timer of a pending call
ToolTimer(c) ==
  /\ IsRunning /\ c \in pending
  /\ pending' = pending \ {c}
  /\ UNCHANGED <<orchestration, py, reply, node, toNode, toPy, told>>

\* runtime.run returns or raises; executeTurn reports it and drops what is pending.
AgentEnds ==
  /\ IsRunning /\ node.agent # "none"
  /\ \E status \in (IF node.agent = "running" THEN {"completed", "failed"} ELSE {"aborted", "failed"}) :
       /\ node' = [node EXCEPT !.agent = "none", !.result = status]
       /\ IF node.shutting THEN UNCHANGED toPy
          ELSE Write([Frame(IF status = "failed" THEN "turn.failed" ELSE "turn.completed")
                        EXCEPT !.status = status])
  /\ pending' = {}
  /\ UNCHANGED <<orchestration, py, reply, toNode, told>>

UserStep ==
  /\ \E p \in Paths : UserEdits(p)
  /\ UNCHANGED bridge

-----------------------------------------------------------------------------

PyRead == \/ ReadReady \/ SendTurn \/ ReadError \/ ReadEvent \/ ReadTerminal \/ ReadProposal \/ ReadFails
PyMediate == \/ Invoke \/ ReadHandler \/ CheckTarget \/ OpenTarget \/ WriteTarget \/ SendResult
PyFinish == \/ Shutdown \/ ReadShutdown \/ AwaitExit \/ Respond
PyStep == PyRead \/ PyMediate \/ PyFinish

NodeStep ==
  \/ NodeStart \/ NodeExecute \/ NodeResult \/ NodeShutdown \/ NodeCancel \/ NodeDies
  \/ \E c \in Calls, r \in Requests : AgentProposes(c, r)
  \/ \E c \in Calls : ToolTimer(c)
  \/ AgentOutput \/ AgentEnds

Next == \/ \E r \in Runs : StartRun(r)
        \/ PyStep \/ NodeStep \/ Cancel \/ UserStep
        \/ WriteBlocks \/ NodeDrains

\* The Python side is running code, whose reads and waits have timeouts and
\* whose writes have none: one that waits for room disables it.  Nothing is
\* asked of the worker, the provider, the clients or the users.
Fairness == WF_vars(PyStep)

Spec == Init /\ [][Next]_vars /\ Fairness

-----------------------------------------------------------------------------

PyStates == {"idle", "starting", "execute", "turn", "invoke", "read", "create", "open", "write", "answer",
             "finally", "stopping", "waiting", "respond"}
Frames == [type : {"runtime.start", "turn.execute", "tool.result", "runtime.shutdown", "control.cancel",
                   "runtime.ready", "runtime.error", "provider.event", "turn.completed", "turn.failed",
                   "tool.proposed", "malformed"},
           job : [call : Calls \cup {"none"}, request : Requests \cup {NoRequest}],
           status : Statuses \cup {"none", "completed", "failed", "aborted"}]

\* Types: a job in hand is one of the run's, and what the two sides keep is well formed.
TypeOK ==
  /\ receipts \in [Operations -> [status : Statuses \cup {"none"}, tool : {"none", "read", "create"}]]
  /\ owner \in [Paths -> Operations \cup {Nobody, User}]
  /\ granted \in [Operations -> Requests \cup {NoRequest}]
  /\ made \in [Operations -> BOOLEAN]
  /\ torn \subseteq Operations
  /\ edits \in 0..MaxEdits
  /\ py.pc \in PyStates /\ py.run \in Runs \cup {NoRun}
  /\ (py.pc = "idle") <=> (py.run = NoRun)
  /\ py.write \in {"new", "waits", "fits"}
  /\ py.pc \in {"invoke", "read", "create", "open", "write", "answer"} => py.job.call \in Calls
  /\ reply \in [Runs -> [outcome : {"none", "COMPLETED", "ORCHESTRATION_ERROR"}, read_only : BOOLEAN]]
  /\ pending \subseteq Calls
  /\ toNode \in Seq(Frames) /\ toPy \in Seq(Frames)
  /\ node.steps \in 0..MaxSteps

\* The runtime keeps the promises of GovernedEffects: the receipts settle the
\* operations, and what has been granted is the request the handler was called with.
Settled == [o \in Operations |-> IF Answered(o) THEN receipts[o].status ELSE "open"]
AskedFor(r) ==
  IF r.tool = "read" THEN [kind |-> "look", path |-> Nobody]
  ELSE IF r.tool = "create" THEN [kind |-> "make", path |-> r.path]
  ELSE [kind |-> "nothing", path |-> Nobody]
Permitted ==
  {kind \in {"look", "make"} :
     /\ context.circumstances = {}
     /\ (IF kind = "look" THEN "inspect" ELSE "test_candidate") \in context.decision.capabilities}
Effects == INSTANCE GovernedEffects WITH
  settled <- Settled, asked <- [o \in Operations |-> AskedFor(granted[o])], permitted <- Permitted
ImplementsEffects == Effects!ESpec

\* Whatever the agent is told of a call is the receipt of that operation, and
\* EXECUTED for a file means that the file was made.  Nothing told is taken
\* back by a repeated call identity, a late result or a second run.
ToldTruth ==
  \A t \in told :
    /\ receipts[t.op].status = t.status
    /\ t.status = "EXECUTED" /\ receipts[t.op].tool = "create" => made[t.op]

\* A response says read_only only if no operation of its run made a file,
\* however the turn ended; excepted is a handler that raised after the open.
ReadOnlyHonest ==
  \A o \in Operations :
    made[o] /\ o \notin torn /\ reply[o[1]] # NoReply => ~reply[o[1]].read_only

\* No worker outlives its run, whichever way the run ended.
WorkerContained == py.pc \in {"idle", "respond"} => ~IsRunning

\* COMPLETED is said only of a turn whose agent completed: a cancelled or
\* failed turn, a dead worker or the answer to a shutdown is not taken for one.
CompletedByAgent ==
  [][\A r \in Runs : reply'[r].outcome = "COMPLETED" /\ reply[r] = NoReply => node.result = "completed"]_vars

\* A run answers whatever its worker says or does not say, does or dies of,
\* unless a write to the worker is left waiting for room for good.
RunReplies == \A r \in Runs : []<>~Blocked => (py.run = r ~> reply[r] # NoReply)
=============================================================================
