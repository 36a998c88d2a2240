--------------------------- MODULE GovernedRunProofs ---------------------------
(***************************************************************************)
(* Theorems about GovernedRun, for any number of runs, tool calls, paths   *)
(* and requests and any bounds on the agent and the users:                 *)
(*   TypedRun, Contained           what the controller and its worker are  *)
(*   TruthTold, HonestlyReadOnly   what the agent and the caller are told  *)
(*   CompletedOnlyByAgent          the action property of the run          *)
(*   EffectsImplemented            GovernedRun implements GovernedEffects  *)
(* The argument is in layers, each inductive relative to those before it.  *)
(* Shapes are the types with what a frame of each kind carries; Contained  *)
(* says that no worker is left when a run responds; OperationInv follows   *)
(* one operation from its grant to its receipt; TellingInv carries         *)
(* the status of a receipt through the pipe to the agent; ResultInv says   *)
(* that a worker executes one turn, so that its result stays.              *)
(***************************************************************************)
EXTENDS GovernedRun, SequenceTheorems, TLAPS

Outcomes == {"none", "completed", "failed", "aborted"}
Jobs == [call : Calls \cup {"none"}, request : Requests \cup {NoRequest}]
Controllers ==
  [pc : PyStates, run : Runs \cup {NoRun}, job : Jobs, terminal : Statuses \cup Outcomes, error : BOOLEAN,
   write : {"new", "waits", "fits"}]
Workers ==
  [life : {"none", "up", "closed", "dead"}, started : BOOLEAN, agent : {"none", "running", "aborted"},
   steps : 0..MaxSteps, shutting : BOOLEAN, cancelled : BOOLEAN, result : Outcomes]

\* A job is a tool call: the proposals and the results of calls carry one.
ToolCall(job) == job.call \in Calls /\ job.request \in Requests
CallFrames == {f \in Frames : f.type \in {"tool.proposed", "tool.result"} => ToolCall(f.job)}

Mediating == {"invoke", "read", "create", "open", "write", "answer"}

\* The types, with the shape of the records and the jobs in them.
OrchestrationTyped ==
  /\ receipts \in [Operations -> [status : Statuses \cup {"none"}, tool : {"none", "read", "create"}]]
  /\ owner \in [Paths -> Operations \cup {Nobody, User}]
  /\ granted \in [Operations -> Requests \cup {NoRequest}]
  /\ made \in [Operations -> BOOLEAN]
  /\ torn \subseteq Operations
  /\ edits \in 0..MaxEdits
ControllerTyped ==
  /\ py \in Controllers
  /\ (py.pc = "idle") <=> (py.run = NoRun)
  /\ py.pc \in Mediating => ToolCall(py.job)
  /\ reply \in [Runs -> [outcome : {"none", "COMPLETED", "ORCHESTRATION_ERROR"}, read_only : BOOLEAN]]
WorkerTyped ==
  /\ node \in Workers /\ pending \subseteq Calls
  /\ toNode \in Seq(CallFrames) /\ toPy \in Seq(CallFrames)
Shapes == OrchestrationTyped /\ ControllerTyped /\ WorkerTyped

\* The handler at work is that of the operation in hand, granted for its request.
Handling == {"read", "create", "open", "write"}
InHand(o) == py.pc \in Handling /\ o = Op(py.job.call)
Executed(o, tool) == receipts[o] = [status |-> "EXECUTED", tool |-> tool]

\* One operation, from the grant of its request over the file it makes to its receipt.
Operated(o) ==
  /\ InHand(o) => /\ ~Answered(o)
                  /\ granted[o] = py.job.request
                  /\ granted[o].tool = (IF py.pc = "read" THEN "read" ELSE "create")
                  /\ made[o] <=> py.pc = "write"
  /\ ~Answered(o) /\ ~InHand(o) => granted[o] = NoRequest /\ ~made[o]
  /\ Answered(o) => receipts[o].status \in Statuses
  /\ Executed(o, "create") => made[o]
  /\ made[o] /\ Answered(o) /\ o \notin torn => Executed(o, "create")

OperationInv ==
  /\ \A o \in Operations : Operated(o)
  /\ py.pc = "answer" => Answered(Op(py.job.call))
  /\ torn \subseteq {o \in Operations : Answered(o)}

\* What a run said stays said: the run at work has not replied yet.
ReplyInv ==
  /\ ReadOnlyHonest
  /\ py.run \in Runs => reply[py.run] = NoReply
  /\ \A r \in Runs \ {py.run} : reply[r] = NoReply => \A c \in Calls : ~made[<<r, c>>]

\* A result on its way to the agent has the status of its receipt.
Telling(f) ==
  f.type = "tool.result" /\ py.run \in Runs =>
    Answered(Op(f.job.call)) /\ receipts[Op(f.job.call)].status = f.status

Truthful == {f \in CallFrames : Telling(f)}

TellingInv ==
  /\ toNode \in Seq(Truthful)
  /\ told \subseteq [op : Operations, status : Statuses]
  /\ \A t \in told : Answered(t.op) /\ receipts[t.op].status = t.status

\* The worker gets one turn to execute, and its agent works on it or has ended it.
NoTurn(pipe) == \A i \in 1..Len(pipe) : pipe[i].type # "turn.execute"
OneTurn(pipe) ==
  \A i, j \in 1..Len(pipe) : pipe[i].type = "turn.execute" /\ pipe[j].type = "turn.execute" => i = j
Claims(f) == f.type = "turn.completed" /\ f.status = "completed"
Claimed(pipe) == \E i \in 1..Len(pipe) : Claims(pipe[i])
Unfinished == node.result = "none"
Launching == {"starting", "execute"}
ResultInv ==
  /\ py.pc \in Launching => Unfinished /\ node.agent = "none" /\ NoTurn(toNode)
  /\ OneTurn(toNode)
  /\ ~NoTurn(toNode) => Unfinished /\ node.agent = "none"
  /\ node.agent # "none" => Unfinished
  /\ Claimed(toPy) => node.result = "completed"
  /\ py.terminal = "completed" => node.result = "completed"

-----------------------------------------------------------------------------
(* Frames and pipes *)

\* What an appended frame and a frame taken leave of a pipe.
LEMMA Pipes ==
  ASSUME NEW S, NEW q \in Seq(S)
  PROVE  /\ \A e \in S : Append(q, e) \in Seq(S)
         /\ q # << >> => Head(q) \in S /\ Tail(q) \in Seq(S)
         /\ << >> \in Seq(S)
         /\ \A e \in S : << e >> \in Seq(S)
  OBVIOUS

\* A pipe whose frames keep their meaning keeps its type.
LEMMA PipeKept ==
  ASSUME NEW S, NEW T, S \subseteq T, NEW q \in Seq(S)
  PROVE  q \in Seq(T)
  OBVIOUS

\* Plain frames carry no tool call, and the two others the one they are given.
PlainTypes ==
  {"runtime.start", "turn.execute", "runtime.shutdown", "control.cancel", "runtime.ready", "runtime.error",
   "provider.event", "turn.completed", "turn.failed", "malformed"}

\* A frame without a job is a well-shaped frame of its type, with or without an outcome.
LEMMA PlainFrame ==
  ASSUME NEW type \in PlainTypes, NEW status \in Outcomes
  PROVE  /\ Frame(type) \in CallFrames /\ Frame(type).type = type /\ Frame(type).status = "none"
         /\ [Frame(type) EXCEPT !.status = status] \in CallFrames
         /\ [Frame(type) EXCEPT !.status = status].type = type
         /\ [Frame(type) EXCEPT !.status = status].status = status
<1>1. Frame(type) = [type |-> type, job |-> NoCall, status |-> "none"]
  BY DEF Frame
<1>2. NoCall \in Jobs
  BY DEF NoCall, Jobs
<1>3. Frames = [type : PlainTypes \cup {"tool.result", "tool.proposed"}, job : Jobs,
                status : Statuses \cup Outcomes]
  BY DEF Frames, Jobs, Outcomes, PlainTypes
<1>4. type \notin {"tool.proposed", "tool.result"} /\ "none" \in Outcomes
  BY DEF PlainTypes, Outcomes
<1> HIDE DEF Outcomes, PlainTypes
<1> QED BY <1>1, <1>2, <1>3, <1>4 DEF CallFrames

\* A frame that proposes a tool call, or tells its result, is well shaped.
LEMMA CallFrame ==
  ASSUME NEW job \in Jobs, ToolCall(job), NEW status \in Statuses \cup {"none"}
  PROVE  /\ [Frame("tool.proposed") EXCEPT !.job = job] \in CallFrames
         /\ [Frame("tool.result") EXCEPT !.job = job, !.status = status] \in CallFrames
  BY DEF Frame, CallFrames, Frames, Jobs

-----------------------------------------------------------------------------
(* Types *)

\* The shapes imply the type invariant of the run.
LEMMA ShapesTypes == Shapes => TypeOK
<1> SUFFICES ASSUME Shapes PROVE TypeOK
  OBVIOUS
<1>1. toNode \in Seq(Frames) /\ toPy \in Seq(Frames)
  BY PipeKept DEF Shapes, WorkerTyped, CallFrames
<1>2. /\ py.pc \in PyStates /\ py.run \in Runs \cup {NoRun} /\ node.steps \in 0..MaxSteps
      /\ py.write \in {"new", "waits", "fits"}
  BY DEF Shapes, ControllerTyped, WorkerTyped, Controllers, Workers
<1> QED BY <1>1, <1>2 DEF Shapes, OrchestrationTyped, ControllerTyped, WorkerTyped, TypeOK, ToolCall, Mediating

\* The run begins with its shapes.
LEMMA ShapesInit == Init => Shapes
<1> SUFFICES ASSUME Init PROVE Shapes
  OBVIOUS
<1>1. OrchestrationTyped
  BY OrchestrationAssumption DEF Init, OrchestrationInit, OrchestrationTyped, NoReceipt, Operations
<1>2. ControllerTyped
  BY DEF Init, ControllerTyped, Resting, NoReply, Controllers, Jobs, NoCall, Outcomes, PyStates, Mediating
<1>3. WorkerTyped
  BY RunAssumption DEF Init, WorkerTyped, NoWorker, Workers, Outcomes
<1> QED BY <1>1, <1>2, <1>3 DEF Shapes

\* Steps of the worker and of clients leave the operations and the controller alone.
LEMMA WorkerOnly ==
  ASSUME NodeStep \/ Cancel
  PROVE  UNCHANGED <<orchestration, py, reply>>
BY DEF NodeStep, Cancel, NodeStart, NodeExecute, NodeResult, NodeShutdown, NodeCancel, NodeDies,
       AgentProposes, ToolTimer, AgentOutput, AgentEnds

\* A write that waits, and one that gets its room, change nothing else.
LEMMA WriteOnly ==
  ASSUME Shapes, WriteBlocks \/ NodeDrains
  PROVE  /\ UNCHANGED <<orchestration, reply, node, pending, toNode, toPy, told>>
         /\ py' \in Controllers
         /\ UNCHANGED <<py.pc, py.run, py.job, py.terminal, py.error>>
<1>1. py \in Controllers
  BY DEF Shapes, ControllerTyped
<1>2. PICK w \in {"waits", "fits"} : py' = [py EXCEPT !.write = w]
  BY DEF WriteBlocks, NodeDrains
<1>3. UNCHANGED <<orchestration, reply, node, pending, toNode, toPy, told>>
  BY DEF WriteBlocks, NodeDrains
<1>4. py' \in Controllers /\ UNCHANGED <<py.pc, py.run, py.job, py.terminal, py.error>>
  BY <1>1, <1>2 DEF Controllers
<1> QED BY <1>3, <1>4

\* The worker's steps, and a cancellation, keep the shapes.
LEMMA ShapesWorker ==
  ASSUME Shapes, NodeStep \/ Cancel
  PROVE  Shapes'
<1>1. UNCHANGED <<orchestration, py, reply>>
  BY WorkerOnly
<1>2. /\ toNode \in Seq(CallFrames) /\ toPy \in Seq(CallFrames) /\ node \in Workers /\ pending \subseteq Calls
  BY DEF Shapes, WorkerTyped
<1>3. /\ \A e \in CallFrames : Append(toNode, e) \in Seq(CallFrames) /\ Append(toPy, e) \in Seq(CallFrames)
      /\ toNode # << >> => Head(toNode) \in CallFrames /\ Tail(toNode) \in Seq(CallFrames)
      /\ << >> \in Seq(CallFrames)
  BY <1>2, Pipes
<1>4. /\ \A type \in {"runtime.ready", "runtime.error", "turn.completed", "control.cancel", "provider.event",
                      "malformed"} : Frame(type) \in CallFrames
      /\ \A type \in {"turn.completed", "turn.failed"}, status \in Outcomes :
           [Frame(type) EXCEPT !.status = status] \in CallFrames
  <2>1. "none" \in Outcomes
    BY DEF Outcomes
  <2> QED BY <2>1, PlainFrame DEF PlainTypes
<1>5. ASSUME NodeStart PROVE WorkerTyped'
  <2>1. node' \in Workers
    BY <1>2, <1>5 DEF NodeStart, Workers
  <2> QED BY <1>2, <1>3, <1>4, <1>5, <2>1 DEF WorkerTyped, NodeStart, Line, Write
<1>6. ASSUME NodeExecute PROVE WorkerTyped'
  BY <1>2, <1>3, <1>4, <1>6 DEF WorkerTyped, NodeExecute, Line, Workers
<1>7. ASSUME NodeResult PROVE WorkerTyped'
  BY <1>2, <1>3, <1>4, <1>7 DEF WorkerTyped, NodeResult, Line, Write, Workers
<1>8. ASSUME NodeShutdown PROVE WorkerTyped'
  BY <1>2, <1>3, <1>4, <1>8 DEF WorkerTyped, NodeShutdown, Line, Write, Workers
<1>9. ASSUME NodeCancel PROVE WorkerTyped'
  BY <1>2, <1>3, <1>4, <1>9 DEF WorkerTyped, NodeCancel, Line, Write, Workers
<1>10. ASSUME NodeDies PROVE WorkerTyped'
  <2>1. NoWorker \in Workers
    BY RunAssumption DEF NoWorker, Workers, Outcomes
  <2> QED BY <1>2, <1>3, <1>10, <2>1 DEF WorkerTyped, NodeDies, Gone, Workers
<1>11. ASSUME NEW c \in Calls, NEW r \in Requests, AgentProposes(c, r) PROVE WorkerTyped'
  <2>1. [Frame("tool.proposed") EXCEPT !.job = [call |-> c, request |-> r]] \in CallFrames
    BY CallFrame DEF Jobs, ToolCall
  <2>2. node.steps + 1 \in 0..MaxSteps
    BY <1>2, <1>11, RunAssumption DEF AgentProposes, Step, Workers
  <2>3. node' \in Workers
    BY <1>2, <1>11, <2>2 DEF AgentProposes, Workers
  <2> QED BY <1>2, <1>3, <1>11, <2>1, <2>3 DEF WorkerTyped, AgentProposes, Write
<1>12. ASSUME NEW c \in Calls, ToolTimer(c) PROVE WorkerTyped'
  BY <1>2, <1>12 DEF WorkerTyped, ToolTimer
<1>13. ASSUME AgentOutput PROVE WorkerTyped'
  <2>1. node.steps + 1 \in 0..MaxSteps
    BY <1>2, <1>13, RunAssumption DEF AgentOutput, Step, Workers
  <2>2. node' \in Workers
    BY <1>2, <1>13, <2>1 DEF AgentOutput, Workers
  <2> QED BY <1>2, <1>3, <1>4, <1>13, <2>2 DEF WorkerTyped, AgentOutput, Write
<1>14. ASSUME AgentEnds PROVE WorkerTyped'
  <2>1. PICK status \in Outcomes :
          /\ node' = [node EXCEPT !.agent = "none", !.result = status]
          /\ IF node.shutting THEN UNCHANGED toPy
             ELSE Write([Frame(IF status = "failed" THEN "turn.failed" ELSE "turn.completed")
                           EXCEPT !.status = status])
    BY <1>14 DEF AgentEnds, Outcomes
  <2>2. node' \in Workers
    BY <1>2, <2>1 DEF Workers
  <2>3. toPy' \in Seq(CallFrames)
    BY <1>2, <1>3, <1>4, <2>1 DEF Write
  <2> QED BY <1>2, <1>14, <2>2, <2>3 DEF WorkerTyped, AgentEnds
<1>15. ASSUME Cancel PROVE WorkerTyped'
  BY <1>2, <1>3, <1>4, <1>15 DEF WorkerTyped, Cancel, Send, Workers
<1>16. WorkerTyped'
  BY <1>5, <1>6, <1>7, <1>8, <1>9, <1>10, <1>11, <1>12, <1>13, <1>14, <1>15 DEF NodeStep
<1> QED BY <1>1, <1>16 DEF Shapes, OrchestrationTyped, ControllerTyped, orchestration

\* The worker's side after the controller has left it, ended it or sent it a frame.
LEMMA WorkerAfter ==
  ASSUME WorkerTyped
  PROVE  /\ WorkerStill => node' \in Workers /\ pending' \subseteq Calls /\ toNode' \in Seq(CallFrames)
         /\ Terminate => node' \in Workers /\ pending' \subseteq Calls /\ toNode' \in Seq(CallFrames)
         /\ \A type \in PlainTypes : Send(Frame(type)) => toNode' \in Seq(CallFrames)
         /\ toPy # << >> => Head(toPy) \in CallFrames /\ Tail(toPy) \in Seq(CallFrames)
<1>1. node \in Workers /\ toNode \in Seq(CallFrames) /\ toPy \in Seq(CallFrames)
  BY DEF WorkerTyped
<1>2. WorkerStill => node' \in Workers /\ pending' \subseteq Calls /\ toNode' \in Seq(CallFrames)
  BY DEF WorkerTyped, WorkerStill
<1>3. Terminate => node' \in Workers /\ pending' \subseteq Calls /\ toNode' \in Seq(CallFrames)
  <2>1. NoWorker \in Workers
    BY RunAssumption DEF NoWorker, Workers, Outcomes
  <2>2. Terminate => node' \in Workers
    BY <1>1, <2>1 DEF Terminate, Gone, Workers
  <2> QED BY <2>2 DEF Terminate, Gone
<1>4. \A type \in PlainTypes : Send(Frame(type)) => toNode' \in Seq(CallFrames)
  <2>1. "none" \in Outcomes
    BY DEF Outcomes
  <2>2. \A type \in PlainTypes : Frame(type) \in CallFrames
    BY <2>1, PlainFrame
  <2>3. \A e \in CallFrames : Append(toNode, e) \in Seq(CallFrames)
    BY <1>1, Pipes
  <2> QED BY <2>2, <2>3 DEF Send
<1> QED BY <1>1, <1>2, <1>3, <1>4, Pipes

\* So does the controller when it reads a frame,
LEMMA ShapesRead ==
  ASSUME Shapes, PyRead
  PROVE  Shapes'
<1>1. UNCHANGED <<orchestration, reply, told>>
  BY DEF PyRead, ReadReady, SendTurn, ReadError, ReadEvent, ReadTerminal, ReadProposal, ReadFails
<1>2. WorkerTyped /\ ControllerTyped /\ OrchestrationTyped
  BY DEF Shapes
<1>3. py \in Controllers /\ node \in Workers /\ NoCall \in Jobs
  BY <1>2 DEF WorkerTyped, ControllerTyped, NoCall, Jobs
<1>4. FailClosed => py' \in Controllers /\ py'.pc = "finally" /\ py'.run = py.run
  BY <1>3 DEF FailClosed, Controllers, PyStates
<1>5. Reading => py.run # NoRun
  BY <1>2 DEF Reading, ControllerTyped
<1>6. ASSUME ReadReady PROVE ControllerTyped' /\ WorkerTyped'
  <2>1. py' \in Controllers /\ py'.pc = "execute" /\ py'.run = py.run
    BY <1>3, <1>6 DEF ReadReady, Controllers, PyStates
  <2> QED BY <1>1, <1>2, <1>5, <1>6, <2>1, WorkerAfter
          DEF ReadReady, ReadFrame, ControllerTyped, WorkerTyped, Reading, Mediating
<1>7. ASSUME ReadError PROVE ControllerTyped' /\ WorkerTyped'
  BY <1>1, <1>2, <1>4, <1>5, <1>7, WorkerAfter DEF ReadError, ReadFrame, ControllerTyped, WorkerTyped, Mediating
<1>8. ASSUME ReadEvent PROVE ControllerTyped' /\ WorkerTyped'
  BY <1>1, <1>2, <1>8, WorkerAfter DEF ReadEvent, ReadFrame, ControllerTyped, WorkerTyped
<1>9. ASSUME ReadTerminal PROVE ControllerTyped' /\ WorkerTyped'
  <2>1. toPy # << >> /\ toPy' = Tail(toPy) /\ Head(toPy) \in CallFrames
    BY <1>2, <1>9, WorkerAfter DEF ReadTerminal, ReadFrame
  <2>2. Head(toPy).status \in Statuses \cup Outcomes /\ "failed" \in Outcomes
    BY <2>1 DEF CallFrames, Frames, Outcomes
  <2>3. PICK status \in Statuses \cup Outcomes : py' = [py EXCEPT !.pc = "finally", !.terminal = status]
    BY <1>9, <2>2 DEF ReadTerminal
  <2>4. py' \in Controllers /\ py'.pc = "finally" /\ py'.run = py.run
    BY <1>3, <2>3 DEF Controllers, PyStates
  <2> QED BY <1>1, <1>2, <1>5, <1>9, <2>1, <2>4, WorkerAfter
          DEF ReadTerminal, ControllerTyped, WorkerTyped, Reading, Mediating
<1>10. ASSUME ReadProposal PROVE ControllerTyped' /\ WorkerTyped'
  <2>1. toPy # << >> /\ toPy' = Tail(toPy) /\ Head(toPy) \in CallFrames /\ Head(toPy).type = "tool.proposed"
    BY <1>2, <1>10, WorkerAfter DEF ReadProposal, ReadFrame
  <2>2. Head(toPy).job \in Jobs /\ ToolCall(Head(toPy).job)
    BY <2>1 DEF CallFrames, Frames, Jobs
  <2>3. py' \in Controllers /\ py'.pc = "invoke" /\ py'.run = py.run /\ py'.job = Head(toPy).job
    BY <1>3, <1>10, <2>2 DEF ReadProposal, Controllers, PyStates
  <2> QED BY <1>1, <1>2, <1>5, <1>10, <2>1, <2>2, <2>3, WorkerAfter
          DEF ReadProposal, ControllerTyped, WorkerTyped, Reading, Mediating
<1>11. ASSUME ReadFails PROVE ControllerTyped' /\ WorkerTyped'
  BY <1>1, <1>2, <1>4, <1>5, <1>11, WorkerAfter DEF ReadFails, ReadRaises, ControllerTyped, WorkerTyped, Mediating
<1>12. ASSUME SendTurn PROVE ControllerTyped' /\ WorkerTyped'
  <2>1. py' \in Controllers /\ py'.pc \in {"turn", "finally"} /\ py'.run = py.run
    BY <1>3, <1>4, <1>12 DEF SendTurn, Controllers, PyStates
  <2>2. toNode' \in Seq(CallFrames)
    BY <1>2, <1>12, WorkerAfter DEF SendTurn, PlainTypes, WorkerTyped
  <2> QED BY <1>1, <1>2, <1>12, <2>1, <2>2 DEF SendTurn, ControllerTyped, WorkerTyped, Mediating
<1>13. ControllerTyped' /\ WorkerTyped'
  BY <1>6, <1>7, <1>8, <1>9, <1>10, <1>11, <1>12 DEF PyRead
<1> QED BY <1>1, <1>2, <1>13 DEF Shapes, OrchestrationTyped, orchestration

\* when it ends a run,
LEMMA ShapesFinish ==
  ASSUME Shapes, PyFinish
  PROVE  Shapes'
<1>1. UNCHANGED <<orchestration, told>>
  BY DEF PyFinish, Shutdown, ReadShutdown, AwaitExit, Respond
<1>2. WorkerTyped /\ ControllerTyped /\ OrchestrationTyped
  BY DEF Shapes
<1>3. py \in Controllers /\ node \in Workers
  BY <1>2 DEF WorkerTyped, ControllerTyped
<1>4. \A pc \in {"stopping", "respond", "waiting"} : Goto(pc) =>
        py' \in Controllers /\ py'.pc \in {"stopping", "respond", "waiting"} /\ py'.run = py.run
  BY <1>3 DEF Goto, Controllers, PyStates
<1>5. py.pc \in {"finally", "stopping", "waiting", "respond"} => py.run \in Runs
  BY <1>2 DEF ControllerTyped, Controllers
<1>6. ASSUME Shutdown PROVE ControllerTyped' /\ WorkerTyped'
  <2>1. toNode' \in Seq(CallFrames)
    BY <1>2, <1>6, WorkerAfter DEF Shutdown, PlainTypes, WorkerTyped
  <2>2. py' \in Controllers /\ py'.pc \in {"stopping", "respond"} /\ py'.run = py.run
    BY <1>3, <1>6 DEF Shutdown, Controllers, PyStates
  <2> QED BY <1>2, <1>5, <1>6, <2>1, <2>2, RunAssumption DEF Shutdown, ControllerTyped, WorkerTyped, Mediating
<1>7. ASSUME ReadShutdown PROVE ControllerTyped' /\ WorkerTyped'
  <2>1. WorkerTyped'
    BY <1>2, <1>7, WorkerAfter DEF ReadShutdown, ReadRaises, WorkerTyped
  <2> QED BY <1>2, <1>4, <1>5, <1>7, <2>1, RunAssumption DEF ReadShutdown, ControllerTyped, Mediating
<1>8. ASSUME AwaitExit PROVE ControllerTyped' /\ WorkerTyped'
  <2>1. WorkerTyped'
    BY <1>2, <1>8, WorkerAfter DEF AwaitExit, WorkerTyped
  <2> QED BY <1>2, <1>4, <1>5, <1>8, <2>1, RunAssumption DEF AwaitExit, ControllerTyped, Mediating
<1>9. ASSUME Respond PROVE ControllerTyped' /\ WorkerTyped'
  <2>1. py' \in Controllers /\ py'.pc = "idle" /\ py'.run = NoRun
    BY <1>9 DEF Respond, Resting, Controllers, Jobs, NoCall, Outcomes, PyStates
  <2>2. Mutated \in BOOLEAN
    BY DEF Mutated
  <2>3. reply' \in [Runs -> [outcome : {"none", "COMPLETED", "ORCHESTRATION_ERROR"}, read_only : BOOLEAN]]
    BY <1>2, <1>5, <1>9, <2>2 DEF Respond, ControllerTyped
  <2> QED BY <1>2, <1>9, <2>1, <2>3 DEF Respond, ControllerTyped, WorkerTyped, Mediating
<1>10. ControllerTyped' /\ WorkerTyped'
  BY <1>6, <1>7, <1>8, <1>9 DEF PyFinish
<1> QED BY <1>1, <1>2, <1>10 DEF Shapes, OrchestrationTyped, orchestration

\* The operation in hand, its request and what may be stored for it.
LEMMA Mediated ==
  ASSUME Shapes, py.pc \in Mediating
  PROVE  /\ py.run \in Runs /\ ToolCall(py.job) /\ Op(py.job.call) \in Operations
         /\ Refusal(py.job.request) \in {"FAILED", "DENIED", "ESCALATED", "none"}
         /\ py.job.request.tool \in {"read", "create"} /\ py.job.request.path \in Paths
<1>1. py.run \in Runs /\ ToolCall(py.job)
  BY DEF Shapes, ControllerTyped, Controllers, Mediating
<1> QED BY <1>1, OrchestrationAssumption DEF ToolCall, Op, Operations, Refusal

\* A stored receipt leaves the orchestration typed.
LEMMA Remembered ==
  ASSUME OrchestrationTyped, NEW o \in Operations, NEW tool \in {"read", "create"}, NEW status \in Statuses,
         Remember(o, tool, status), UNCHANGED <<owner, granted, made, edits>>, torn' \subseteq Operations
  PROVE  OrchestrationTyped'
BY DEF OrchestrationTyped, Remember

\* Mediating a proposed call keeps the shapes, from the policy to the receipt.
LEMMA ShapesMediate ==
  ASSUME Shapes, PyMediate
  PROVE  Shapes'
<1>1. OrchestrationTyped /\ ControllerTyped /\ WorkerTyped /\ py \in Controllers
  BY DEF Shapes, ControllerTyped
<1>2. py.pc \in Mediating
  BY DEF PyMediate, Invoke, ReadHandler, CheckTarget, OpenTarget, WriteTarget, SendResult, Mediating
<1> DEFINE o == Op(py.job.call)
           r == py.job.request
<1>3. /\ py.run \in Runs /\ ToolCall(py.job) /\ o \in Operations
      /\ Refusal(r) \in {"FAILED", "DENIED", "ESCALATED", "none"}
      /\ r.tool \in {"read", "create"} /\ r.path \in Paths /\ r \in Requests
  BY <1>2, Mediated DEF ToolCall
<1>4. \A pc \in Mediating : Goto(pc) => py' \in Controllers /\ py'.pc = pc /\ py'.run = py.run /\ py'.job = py.job
  BY <1>1 DEF Goto, Controllers, Mediating, PyStates
<1>5. \A pc \in Mediating : Goto(pc) /\ BridgeStill => ControllerTyped' /\ WorkerTyped'
  BY <1>1, <1>3, <1>4, RunAssumption DEF ControllerTyped, WorkerTyped, BridgeStill, Mediating
<1>6. UNCHANGED orchestration => OrchestrationTyped'
  BY <1>1 DEF orchestration, OrchestrationTyped
<1> HIDE DEF o, r
<1>7. \A status \in {"EXECUTED", "FAILED"}, tool \in {"read", "create"} :
        ReturnFrom(o, tool, status) => OrchestrationTyped'
  BY <1>1, <1>3, Remembered DEF ReturnFrom, Statuses, OrchestrationTyped
<1>8. ASSUME Invoke PROVE Shapes'
  <2>1. CASE Answered(o) /\ Goto("answer") /\ UNCHANGED orchestration
    BY <1>5, <1>6, <1>8, <2>1 DEF Invoke, Shapes, Mediating
  <2>2. CASE Refuse(o, r) /\ Goto("answer")
    <3>1. OrchestrationTyped'
      BY <1>1, <1>3, <2>2, Remembered DEF Refuse, Statuses, OrchestrationTyped
    <3> QED BY <1>5, <1>8, <2>2, <3>1 DEF Invoke, Shapes, Mediating
  <2>3. CASE CallHandler(o, r) /\ Goto(r.tool)
    <3>1. OrchestrationTyped'
      BY <1>1, <1>3, <2>3 DEF CallHandler, OrchestrationTyped
    <3> QED BY <1>3, <1>5, <1>8, <2>3, <3>1 DEF Invoke, Shapes, Mediating
  <2> QED BY <1>8, <2>1, <2>2, <2>3 DEF Invoke, o, r
<1>9. ASSUME ReadHandler PROVE Shapes'
  BY <1>5, <1>7, <1>9 DEF ReadHandler, Shapes, Mediating, o
<1>10. ASSUME CheckTarget PROVE Shapes'
  BY <1>5, <1>6, <1>7, <1>10 DEF CheckTarget, Shapes, Mediating, o
<1>11. ASSUME OpenTarget PROVE Shapes'
  <2>1. CASE OpenExclusive(o, r.path) /\ Goto("write")
    <3>1. OrchestrationTyped'
      BY <1>1, <1>3, <2>1 DEF OpenExclusive, OrchestrationTyped
    <3> QED BY <1>5, <1>11, <2>1, <3>1 DEF OpenTarget, Shapes, Mediating
  <2>2. CASE ReturnFrom(o, "create", "FAILED") /\ Goto("answer")
    BY <1>5, <1>7, <1>11, <2>2 DEF OpenTarget, Shapes, Mediating
  <2> QED BY <1>11, <2>1, <2>2 DEF OpenTarget, o, r
<1>12. ASSUME WriteTarget PROVE Shapes'
  <2>1. CASE ReturnFrom(o, "create", "EXECUTED")
    BY <1>5, <1>7, <1>12, <2>1 DEF WriteTarget, Shapes, Mediating
  <2>2. CASE WriteRaises(o)
    <3>1. torn' \subseteq Operations
      BY <1>1, <1>3, <2>2 DEF WriteRaises, OrchestrationTyped
    <3>2. OrchestrationTyped'
      BY <1>1, <1>3, <2>2, <3>1, Remembered DEF WriteRaises, Statuses
    <3> QED BY <1>5, <1>12, <3>2 DEF WriteTarget, Shapes, Mediating
  <2> QED BY <1>12, <2>1, <2>2 DEF WriteTarget, o
<1>13. ASSUME SendResult PROVE Shapes'
  <2>1. receipts[o].status \in Statuses \cup {"none"}
    BY <1>1, <1>3 DEF OrchestrationTyped
  <2>2. [Frame("tool.result") EXCEPT !.job = py.job, !.status = receipts[o].status] \in CallFrames
    BY <1>1, <1>3, <2>1, CallFrame DEF Controllers
  <2>3. WorkerTyped'
    BY <1>1, <1>13, <2>2, Pipes DEF SendResult, Send, WorkerTyped, o
  <2>4. py' \in Controllers /\ py'.pc \in {"turn", "finally"} /\ py'.run = py.run
    <3>1. NoCall \in Jobs /\ {"turn", "finally"} \subseteq PyStates
      BY DEF NoCall, Jobs, PyStates
    <3> HIDE DEF PyStates
    <3> QED BY <1>1, <1>13, <3>1 DEF SendResult, FailClosed, Controllers
  <2>5. ControllerTyped'
    BY <1>1, <1>3, <1>13, <2>4, RunAssumption DEF SendResult, ControllerTyped, Mediating
  <2> QED BY <1>6, <1>13, <2>3, <2>5 DEF SendResult, Shapes
<1> QED BY <1>8, <1>9, <1>10, <1>11, <1>12, <1>13 DEF PyMediate

\* A run that starts keeps the shapes.
LEMMA ShapesStart ==
  ASSUME Shapes, NEW r \in Runs, StartRun(r)
  PROVE  Shapes'
<1>1. ControllerTyped'
  <2>1. py' \in Controllers /\ py'.pc = "starting" /\ py'.run = r
    BY DEF StartRun, Resting, Controllers, Jobs, NoCall, Outcomes, PyStates
  <2> QED BY <2>1, RunAssumption DEF StartRun, Shapes, ControllerTyped, Mediating
<1>2. WorkerTyped'
  <2>1. node' \in Workers
    <3>1. NoWorker \in Workers
      BY RunAssumption DEF NoWorker, Workers, Outcomes
    <3> QED BY <3>1 DEF StartRun, Workers
  <2>2. Frame("runtime.start") \in CallFrames
    <3>1. "none" \in Outcomes /\ "runtime.start" \in PlainTypes
      BY DEF Outcomes, PlainTypes
    <3> QED BY <3>1, PlainFrame
  <2> QED BY <2>1, <2>2, Pipes DEF StartRun, WorkerTyped
<1> QED BY <1>1, <1>2 DEF Shapes, StartRun, orchestration, OrchestrationTyped

\* Users, who only touch files, keep the shapes.
LEMMA ShapesUser ==
  ASSUME Shapes, UserStep
  PROVE  Shapes'
<1>1. OrchestrationTyped'
  BY OrchestrationAssumption DEF UserStep, UserEdits, Shapes, OrchestrationTyped
<1> QED BY <1>1 DEF UserStep, bridge, Shapes, ControllerTyped, WorkerTyped

\* Every step keeps the shapes.
LEMMA ShapesKept == Shapes /\ [Next]_vars => Shapes'
<1> SUFFICES ASSUME Shapes, [Next]_vars PROVE Shapes'
  OBVIOUS
<1>1. CASE UNCHANGED vars
  BY <1>1 DEF vars, Shapes, OrchestrationTyped, ControllerTyped, WorkerTyped
<1>2. CASE WriteBlocks \/ NodeDrains
  BY <1>2, WriteOnly DEF Shapes, OrchestrationTyped, ControllerTyped, WorkerTyped, orchestration
<1> QED BY <1>1, <1>2, ShapesStart, ShapesRead, ShapesMediate, ShapesFinish, ShapesWorker, ShapesUser DEF Next, PyStep

\* Jobs, frames, records and histories keep their form: see TypeOK.
THEOREM TypedRun == Spec => []TypeOK
<1>1. Spec => []Shapes
  BY ShapesInit, ShapesKept, PTL DEF Spec
<1> QED BY <1>1, ShapesTypes, PTL

-----------------------------------------------------------------------------
(* No worker is left *)

\* A worker that is gone does not come back by itself.
LEMMA NoRevival ==
  ASSUME Shapes, NodeStep \/ Cancel
  PROVE  IsRunning' => IsRunning
<1>1. node \in Workers
  BY DEF Shapes, WorkerTyped
<1>2. CASE NodeStart \/ NodeExecute \/ NodeResult \/ NodeShutdown \/ NodeCancel
  BY <1>2 DEF NodeStart, NodeExecute, NodeResult, NodeShutdown, NodeCancel, Line, IsRunning
<1>3. CASE NodeDies \/ AgentOutput \/ AgentEnds \/ Cancel
  BY <1>3 DEF NodeDies, AgentOutput, AgentEnds, Step, Cancel, IsRunning
<1>4. CASE \/ \E c \in Calls, r \in Requests : AgentProposes(c, r)
           \/ \E c \in Calls : ToolTimer(c)
  BY <1>4 DEF AgentProposes, ToolTimer, Step, IsRunning
<1> QED BY <1>2, <1>3, <1>4 DEF NodeStep

\* A terminated worker does not run; other steps of the controller leave it as it was.
LEMMA TerminateEnds ==
  ASSUME Shapes
  PROVE  /\ Terminate => ~IsRunning'
         /\ WorkerStill => (IsRunning' <=> IsRunning)
BY DEF Terminate, Gone, NoWorker, WorkerStill, IsRunning

\* No step leaves a worker running past the run that started it.
LEMMA ContainedKept == Shapes /\ WorkerContained /\ [Next]_vars => WorkerContained'
<1> SUFFICES ASSUME Shapes, WorkerContained, [Next]_vars PROVE WorkerContained'
  OBVIOUS
<1>1. py \in Controllers
  BY DEF Shapes, ControllerTyped
<1>2. \A pc \in PyStates : Goto(pc) => py'.pc = pc
  BY <1>1 DEF Goto, Controllers
<1>3. FailClosed => py'.pc = "finally"
  BY <1>1 DEF FailClosed, Controllers
<1>4. ASSUME NEW r \in Runs, StartRun(r) PROVE WorkerContained'
  BY <1>4 DEF StartRun, Resting, WorkerContained
<1>5. CASE PyRead
  <2>1. CASE ReadEvent
    BY <2>1 DEF ReadEvent, WorkerContained
  <2>2. CASE ReadReady \/ SendTurn \/ ReadError \/ ReadTerminal \/ ReadProposal \/ ReadFails
    <3>1. py'.pc \in {"execute", "turn", "finally", "invoke"}
      BY <1>1, <1>3, <2>2 DEF ReadReady, SendTurn, ReadError, ReadTerminal, ReadProposal, ReadFails, Controllers
    <3> QED BY <3>1 DEF WorkerContained
  <2> QED BY <1>5, <2>1, <2>2 DEF PyRead
<1>6. CASE PyMediate
  <2>1. CASE SendResult
    BY <1>1, <1>3, <2>1 DEF SendResult, Controllers, WorkerContained
  <2>2. CASE Invoke \/ ReadHandler \/ CheckTarget \/ OpenTarget \/ WriteTarget
    <3>1. py.job.request.tool \in {"read", "create"} \/ py.pc # "invoke"
      BY Mediated DEF Mediating
    <3>2. py'.pc \in Mediating
      BY <1>2, <2>2, <3>1 DEF Invoke, ReadHandler, CheckTarget, OpenTarget, WriteTarget, Mediating, PyStates
    <3> QED BY <3>2 DEF WorkerContained, Mediating
  <2> QED BY <1>6, <2>1, <2>2 DEF PyMediate
<1>7. CASE PyFinish
  <2>1. CASE Shutdown
    BY <1>1, <2>1 DEF Shutdown, WorkerContained, IsRunning, Controllers
  <2>2. CASE ReadShutdown
    BY <1>2, <2>2, TerminateEnds DEF ReadShutdown, ReadRaises, WorkerContained, PyStates
  <2>3. CASE AwaitExit
    BY <1>2, <2>3, TerminateEnds DEF AwaitExit, WorkerContained
  <2>4. CASE Respond
    BY <2>4 DEF Respond, WorkerContained, IsRunning
  <2> QED BY <1>7, <2>1, <2>2, <2>3, <2>4 DEF PyFinish
<1>8. CASE NodeStep \/ Cancel
  BY <1>8, WorkerOnly, NoRevival DEF WorkerContained
<1>9. CASE UserStep \/ UNCHANGED vars
  BY <1>9 DEF UserStep, bridge, vars, WorkerContained, IsRunning
<1>10. CASE WriteBlocks \/ NodeDrains
  BY <1>10, WriteOnly DEF WorkerContained, IsRunning
<1> QED BY <1>4, <1>5, <1>6, <1>7, <1>8, <1>9, <1>10 DEF Next, PyStep

\* No worker process outlives its run, whether the run ended with an answer, an error, a
\* worker that hung or one that died.
THEOREM Contained == Spec => []WorkerContained
<1>1. Init => Shapes /\ WorkerContained
  BY ShapesInit DEF Init, NoWorker, WorkerContained, IsRunning
<1>2. Shapes /\ WorkerContained /\ [Next]_vars => (Shapes /\ WorkerContained)'
  BY ShapesKept, ContainedKept
<1> QED BY <1>1, <1>2, PTL DEF Spec

-----------------------------------------------------------------------------
(* From the grant to the receipt *)

\* What a step outside of the handlers does to the operations: nothing.
Idly ==
  /\ UNCHANGED <<receipts, granted, made, torn>>
  /\ \/ UNCHANGED py
     \/ /\ py.pc \notin Handling \cup {"invoke"} /\ py'.pc \notin Handling \cup {"answer"}
        /\ py.pc = "respond" \/ py'.run = py.run \/ py.pc = "idle"

\* Steps that leave the operations, their receipts and the handler alone keep what is known of them.
LEMMA OperationIdly ==
  ASSUME OperationInv, Idly
  PROVE  OperationInv'
<1>1. \A o : InHand(o)' <=> InHand(o)
  BY DEF Idly, InHand, Op, Handling
<1>2. py'.pc = "answer" => UNCHANGED py
  BY DEF Idly
<1>3. \A o : /\ Answered(o)' <=> Answered(o)
             /\ Executed(o, "create")' <=> Executed(o, "create")
  BY DEF Idly, Answered, Executed
<1>4. ASSUME NEW o \in Operations, InHand(o) PROVE UNCHANGED py
  BY <1>4 DEF Idly, InHand
<1>5. \A o \in Operations : Operated(o)'
  BY <1>1, <1>3, <1>4 DEF Idly, OperationInv, Operated
<1> QED BY <1>2, <1>3, <1>5 DEF Idly, OperationInv, Op, Answered

\* The steps of the handlers, one operation at a time.
LEMMA OperationMediate ==
  ASSUME Shapes, OperationInv, Invoke \/ ReadHandler \/ CheckTarget \/ OpenTarget \/ WriteTarget
  PROVE  OperationInv' /\ py'.run = py.run
<1>1. py \in Controllers /\ OrchestrationTyped
  BY DEF Shapes, ControllerTyped
<1>2. py.pc \in Handling \cup {"invoke"}
  BY DEF Invoke, ReadHandler, CheckTarget, OpenTarget, WriteTarget, Handling
<1>3. PICK o \in Operations, r \in Requests :
        /\ o = Op(py.job.call) /\ r = py.job.request
        /\ Refusal(r) \in {"FAILED", "DENIED", "ESCALATED", "none"} /\ r.tool \in {"read", "create"}
  BY <1>2, Mediated DEF ToolCall, Mediating, Handling
<1>4. \A pc \in Mediating : Goto(pc) => py'.pc = pc /\ py'.run = py.run /\ py'.job = py.job /\ Op(py.job.call)' = o
  BY <1>1, <1>3 DEF Goto, Controllers, Mediating, Op
<1>5. \A x : InHand(x) <=> py.pc \in Handling /\ x = o
  BY <1>3 DEF InHand
<1>6. Operated(o) /\ \A x \in Operations : Operated(x)
  BY <1>3 DEF OperationInv
\* A receipt is stored for o, and the controller goes on to answer.
<1>7. ASSUME NEW status \in Statuses, NEW tool \in {"read", "create"}, Remember(o, tool, status),
             UNCHANGED <<granted, made>>, torn \subseteq torn', torn' \subseteq torn \cup {o}, Goto("answer"),
             ~Answered(o),
             status = "EXECUTED" => (tool = "create" <=> made[o]),
             status # "EXECUTED" => (made[o] => o \in torn')
      PROVE  OperationInv' /\ py'.run = py.run
  <2>1. /\ receipts'[o] = [status |-> status, tool |-> tool]
        /\ \A x \in Operations \ {o} : receipts'[x] = receipts[x]
    BY <1>1, <1>3, <1>7 DEF Remember, OrchestrationTyped
  <2>2. py'.pc = "answer" /\ py'.run = py.run /\ Op(py.job.call)' = o
    BY <1>4, <1>7 DEF Mediating
  <2>3. Answered(o)' /\ receipts'[o].status = status /\ (Executed(o, "create")' <=> status = "EXECUTED" /\ tool = "create")
    BY <2>1 DEF Answered, NoReceipt, Statuses, Executed
  <2>4. \A x : ~InHand(x)'
    BY <2>2 DEF InHand, Handling
  <2>5. Operated(o)'
    BY <1>7, <2>3, <2>4 DEF Operated
  <2>6. ASSUME NEW x \in Operations \ {o} PROVE Operated(x)'
    BY <1>5, <1>6, <1>7, <2>1, <2>4 DEF Operated, Answered, Executed
  <2>7. torn' \subseteq {x \in Operations : Answered(x)'}
    BY <1>3, <1>7, <2>1, <2>3 DEF OperationInv, Answered
  <2> QED BY <2>2, <2>3, <2>5, <2>6, <2>7 DEF OperationInv
\* The controller goes on with o, whose receipt is still to come.
<1>8. ASSUME NEW pc \in Handling, Goto(pc), UNCHANGED <<receipts, torn>>, ~Answered(o),
             granted' = [granted EXCEPT ![o] = r], r.tool = (IF pc = "read" THEN "read" ELSE "create"),
             made' = [made EXCEPT ![o] = pc = "write"]
      PROVE  OperationInv' /\ py'.run = py.run
  <2>1. py'.pc = pc /\ py'.run = py.run /\ py'.job = py.job /\ Op(py.job.call)' = o
    BY <1>4, <1>8 DEF Mediating, Handling
  <2>2. granted'[o] = r /\ made'[o] = (pc = "write")
        /\ \A x \in Operations \ {o} : granted'[x] = granted[x] /\ made'[x] = made[x]
    BY <1>1, <1>3, <1>8 DEF OrchestrationTyped
  <2>3. \A x : /\ InHand(x)' <=> x = o
               /\ Answered(x)' <=> Answered(x)
               /\ Executed(x, "create")' <=> Executed(x, "create")
    BY <1>8, <2>1 DEF InHand, Answered, Executed
  <2>4. Operated(o)'
    <3>1. ~Executed(o, "create")
      BY <1>8 DEF Executed, Answered, NoReceipt
    <3> QED BY <1>3, <1>8, <2>1, <2>2, <2>3, <3>1 DEF Operated
  <2>5. ASSUME NEW x \in Operations \ {o} PROVE Operated(x)'
    BY <1>5, <1>6, <1>8, <2>2, <2>3 DEF Operated
  <2> QED BY <1>8, <2>1, <2>3, <2>4, <2>5 DEF OperationInv, Handling
<1>9. CASE Invoke
  <2>1. ~InHand(o) /\ (~Answered(o) => ~made[o])
    BY <1>5, <1>6, <1>9 DEF Invoke, Handling, Operated
  <2>2. CASE Answered(o) /\ Goto("answer") /\ UNCHANGED orchestration
    <3>1. py'.pc = "answer" /\ py'.run = py.run /\ Op(py.job.call)' = o
      BY <1>4, <2>2 DEF Mediating
    <3>2. \A x : ~InHand(x)' /\ ~InHand(x) /\ (Answered(x)' <=> Answered(x))
      BY <1>5, <1>9, <2>2, <3>1 DEF Invoke, InHand, Handling, orchestration, Answered
    <3>3. UNCHANGED <<receipts, granted, made, torn>>
      BY <2>2 DEF orchestration
    <3>4. \A x \in Operations : Operated(x)'
      BY <1>6, <3>2, <3>3 DEF Operated, Executed
    <3>5. torn' = torn /\ \A x : Answered(x)' <=> Answered(x)
      BY <3>2, <3>3
    <3> QED BY <2>2, <3>1, <3>2, <3>4, <3>5 DEF OperationInv
  <2>3. CASE Refuse(o, r) /\ Goto("answer")
    BY <1>3, <1>7, <2>1, <2>3 DEF Refuse, Statuses
  <2>4. CASE CallHandler(o, r) /\ Goto(r.tool)
    <3>1. made' = [made EXCEPT ![o] = r.tool = "write"]
      BY <1>1, <1>3, <2>1, <2>4 DEF CallHandler, OrchestrationTyped
    <3> QED BY <1>3, <1>8, <2>4, <3>1 DEF CallHandler, Handling
  <2> QED BY <1>3, <1>9, <2>2, <2>3, <2>4 DEF Invoke
<1>10. ASSUME py.pc \in Handling
       PROVE  /\ InHand(o) /\ ~Answered(o) /\ (made[o] <=> py.pc = "write")
              /\ granted = [granted EXCEPT ![o] = r]
              /\ r.tool = (IF py.pc = "read" THEN "read" ELSE "create")
  <2>1. InHand(o) /\ ~Answered(o) /\ (made[o] <=> py.pc = "write") /\ granted[o] = r
        /\ granted[o].tool = (IF py.pc = "read" THEN "read" ELSE "create")
    BY <1>3, <1>5, <1>6, <1>10 DEF Operated
  <2> QED BY <1>1, <2>1 DEF OrchestrationTyped
<1>11. CASE ReadHandler
  <2>1. ~Answered(o) /\ ~made[o]
    BY <1>10, <1>11 DEF ReadHandler, Handling
  <2> QED BY <1>3, <1>7, <1>11, <2>1 DEF ReadHandler, ReturnFrom, Statuses
<1>12. CASE CheckTarget
  <2>1. ~Answered(o) /\ ~made[o] /\ r.tool = "create" /\ granted = [granted EXCEPT ![o] = r]
    BY <1>10, <1>12 DEF CheckTarget, Handling
  <2>2. CASE Goto("open") /\ UNCHANGED orchestration
    <3>1. made' = [made EXCEPT ![o] = "open" = "write"]
      BY <1>1, <1>3, <2>1, <2>2 DEF orchestration, OrchestrationTyped
    <3> QED BY <1>8, <2>1, <2>2, <3>1 DEF orchestration, Handling
  <2>3. CASE ReturnFrom(o, "create", "FAILED") /\ Goto("answer")
    BY <1>7, <2>1, <2>3 DEF ReturnFrom, Statuses
  <2> QED BY <1>3, <1>12, <2>2, <2>3 DEF CheckTarget
<1>13. CASE OpenTarget
  <2>1. ~Answered(o) /\ ~made[o] /\ r.tool = "create" /\ granted = [granted EXCEPT ![o] = r]
    BY <1>10, <1>13 DEF OpenTarget, Handling
  <2>2. CASE OpenExclusive(o, r.path) /\ Goto("write")
    <3>1. made' = [made EXCEPT ![o] = "write" = "write"]
      BY <2>2 DEF OpenExclusive
    <3> QED BY <1>8, <2>1, <2>2, <3>1 DEF OpenExclusive, Handling
  <2>3. CASE ReturnFrom(o, "create", "FAILED") /\ Goto("answer")
    BY <1>7, <2>1, <2>3 DEF ReturnFrom, Statuses
  <2> QED BY <1>3, <1>13, <2>2, <2>3 DEF OpenTarget
<1>14. CASE WriteTarget
  <2>1. ~Answered(o) /\ made[o]
    BY <1>10, <1>14 DEF WriteTarget, Handling
  <2>2. CASE ReturnFrom(o, "create", "EXECUTED") /\ Goto("answer")
    BY <1>7, <2>1, <2>2 DEF ReturnFrom, Statuses
  <2>3. CASE WriteRaises(o) /\ Goto("answer")
    BY <1>7, <2>1, <2>3 DEF WriteRaises, Statuses
  <2> QED BY <1>3, <1>14, <2>2, <2>3 DEF WriteTarget
<1> QED BY <1>9, <1>11, <1>12, <1>13, <1>14

\* Every step keeps what is known of each operation, and the run at work changes only between runs.
LEMMA OperationKept ==
  ASSUME Shapes, OperationInv, [Next]_vars
  PROVE  OperationInv' /\ (py'.run = py.run \/ py.pc \in {"idle", "respond"})
<1>1. py \in Controllers
  BY DEF Shapes, ControllerTyped
<1>2. FailClosed => py'.pc = "finally" /\ py'.run = py.run
  BY <1>1 DEF FailClosed, Controllers
<1>3. \A pc \in PyStates : Goto(pc) => py'.pc = pc /\ py'.run = py.run
  BY <1>1 DEF Goto, Controllers
<1>4. Idly /\ (py'.run = py.run \/ py.pc \in {"idle", "respond"}) => OperationInv' /\ (py'.run = py.run \/ py.pc \in {"idle", "respond"})
  BY OperationIdly
<1>5. ASSUME NEW r \in Runs, StartRun(r) PROVE Idly /\ py.pc = "idle"
  BY <1>5 DEF StartRun, Resting, Idly, Handling, orchestration
<1>6. CASE PyRead
  <2>1. Reading => py.pc \notin Handling \cup {"invoke"}
    BY DEF Reading, Handling
  <2>2. py.pc \in {"starting", "execute", "turn"} /\ (UNCHANGED py \/ (py'.pc \in {"execute", "turn", "finally", "invoke"} /\ py'.run = py.run))
    BY <1>1, <1>2, <1>6 DEF PyRead, Reading, ReadReady, SendTurn, ReadError, ReadEvent, ReadTerminal, ReadProposal, ReadFails, Controllers
  <2>3. UNCHANGED <<receipts, granted, made, torn>>
    BY <1>6 DEF PyRead, ReadReady, SendTurn, ReadError, ReadEvent, ReadTerminal, ReadProposal, ReadFails, orchestration
  <2> QED BY <1>4, <2>2, <2>3 DEF Idly, Handling
<1>7. CASE SendResult
  <2>1. py.pc = "answer" /\ py'.pc \in {"turn", "finally"} /\ py'.run = py.run
    BY <1>1, <1>2, <1>7 DEF SendResult, Controllers
  <2> QED BY <1>4, <1>7, <2>1 DEF SendResult, Idly, Handling, orchestration
<1>8. CASE PyFinish
  <2>1. CASE Respond
    BY <1>4, <2>1 DEF Respond, Resting, Idly, Handling, orchestration
  <2>2. CASE Shutdown \/ ReadShutdown \/ AwaitExit
    <3>1. py.pc \in {"finally", "stopping", "waiting"} /\ py'.pc \in {"stopping", "waiting", "respond"} /\ py'.run = py.run
      BY <1>1, <1>3, <2>2 DEF Shutdown, ReadShutdown, AwaitExit, PyStates, Controllers
    <3> QED BY <1>4, <2>2, <3>1 DEF Shutdown, ReadShutdown, AwaitExit, Idly, Handling, orchestration
  <2> QED BY <1>8, <2>1, <2>2 DEF PyFinish
<1>9. CASE NodeStep \/ Cancel
  <2>1. Idly
    BY <1>9, WorkerOnly DEF Idly, orchestration
  <2> QED BY <1>4, <1>9, <2>1, WorkerOnly
<1>10. CASE UserStep \/ UNCHANGED vars
  BY <1>4, <1>10 DEF UserStep, UserEdits, bridge, vars, Idly
<1>11. CASE Invoke \/ ReadHandler \/ CheckTarget \/ OpenTarget \/ WriteTarget
  BY <1>11, OperationMediate
<1>12. CASE WriteBlocks \/ NodeDrains
  <2>1. UNCHANGED <<receipts, granted, made, torn, py.pc, py.run, py.job>>
    BY <1>12, WriteOnly DEF orchestration
  <2> QED BY <2>1 DEF OperationInv, Operated, InHand, Op, Answered, Executed
<1> QED BY <1>4, <1>5, <1>6, <1>7, <1>8, <1>9, <1>10, <1>11, <1>12 DEF Next, PyStep, PyMediate

\* At first no operation was granted, made or answered.
LEMMA OperationInit == Init => OperationInv
<1> SUFFICES ASSUME Init PROVE OperationInv
  OBVIOUS
<1>1. \A o \in Operations : ~Answered(o) /\ ~InHand(o) /\ ~Executed(o, "create")
  BY DEF Init, OrchestrationInit, Answered, InHand, Executed, NoReceipt, Handling, Resting
<1> QED BY <1>1 DEF Init, OrchestrationInit, Resting, OperationInv, Operated

-----------------------------------------------------------------------------
(* What the caller is told *)

\* Every step keeps that the run at work has not replied, and that no operation of a run to come is made.
LEMMA ReplyKept ==
  ASSUME Shapes, OperationInv, ReplyInv, [Next]_vars
  PROVE  ReplyInv'
<1>1. py \in Controllers /\ OrchestrationTyped
  BY DEF Shapes, ControllerTyped
<1>2. OperationInv' /\ (py'.run = py.run \/ py.pc \in {"idle", "respond"})
  BY OperationKept
<1>3. CASE \E r \in Runs : StartRun(r)
  <2>1. PICK r \in Runs : StartRun(r)
    BY <1>3
  <2>2. py'.run = r /\ reply[r] = NoReply /\ UNCHANGED <<reply, made, torn>> /\ py.run = NoRun
    BY <2>1 DEF StartRun, Resting, orchestration, Shapes, ControllerTyped
  <2> QED BY <2>2, RunAssumption DEF ReplyInv, ReadOnlyHonest
<1>4. CASE Respond
  <2>1. PICK r \in Runs : r = py.run /\ py'.run = NoRun
    BY <1>1, <1>4 DEF Respond, Resting, Shapes, ControllerTyped, Controllers
  <2>2. /\ reply'[r].read_only = ~Mutated /\ reply'[r].outcome # "none"
        /\ \A x \in Runs \ {r} : reply'[x] = reply[x]
        /\ UNCHANGED <<made, torn, receipts>>
    BY <1>4, <2>1 DEF Respond, orchestration, Shapes, ControllerTyped
  <2>3. ASSUME NEW o \in Operations, made[o], o \notin torn PROVE Mutated
    <3>1. ~InHand(o)
      BY <1>4 DEF Respond, InHand, Handling
    <3>2. Executed(o, "create")
      BY <2>3, <3>1 DEF OperationInv, Operated
    <3> QED BY <3>2 DEF Mutated, Executed
  <2>4. ASSUME NEW o \in Operations, made'[o], o \notin torn', reply'[o[1]] # NoReply
        PROVE  ~reply'[o[1]].read_only
    <3>1. CASE o[1] = r
      BY <2>2, <2>3, <2>4, <3>1
    <3>2. CASE o[1] # r
      <4>1. o[1] \in Runs \ {r}
        BY <3>2 DEF Operations
      <4>2. made[o] /\ o \notin torn /\ reply[o[1]] # NoReply /\ reply'[o[1]] = reply[o[1]]
        BY <2>2, <2>4, <4>1
      <4> QED BY <4>2 DEF ReplyInv, ReadOnlyHonest
    <3> QED BY <3>1, <3>2
  <2>5. \A x \in Runs : reply'[x] = NoReply => \A c \in Calls : ~made'[<<x, c>>]
    BY <2>1, <2>2 DEF ReplyInv, NoReply
  <2>6. ReadOnlyHonest'
    BY <2>4 DEF ReadOnlyHonest
  <2> QED BY <2>1, <2>5, <2>6, RunAssumption DEF ReplyInv
<1>5. CASE OpenTarget
  <2>1. PICK o \in Operations : o = Op(py.job.call) /\ py.run \in Runs
    BY <1>5, Mediated DEF OpenTarget, Mediating
  <2>2. UNCHANGED <<reply, torn>> /\ \A x \in Operations \ {o} : made'[x] = made[x]
    BY <1>1, <1>5, <2>1 DEF OpenTarget, OpenExclusive, ReturnFrom, BridgeStill, OrchestrationTyped
  <2>3. o[1] = py.run /\ reply[py.run] = NoReply /\ py'.run = py.run
    BY <1>2, <1>5, <2>1 DEF OpenTarget, Op, ReplyInv
  <2>4. ReadOnlyHonest'
    BY <2>2, <2>3 DEF ReplyInv, ReadOnlyHonest
  <2>5. ASSUME NEW x \in Runs \ {py.run}, reply[x] = NoReply, NEW c \in Calls PROVE ~made'[<<x, c>>]
    <3>1. <<x, c>> \in Operations \ {o}
      BY <2>1 DEF Operations, Op
    <3> QED BY <2>2, <2>5, <3>1 DEF ReplyInv
  <2> QED BY <2>2, <2>3, <2>4, <2>5 DEF ReplyInv
<1>6. ASSUME UNCHANGED <<reply, made>>, torn \subseteq torn', py'.run = py.run PROVE ReplyInv'
  BY <1>6 DEF ReplyInv, ReadOnlyHonest
<1>7. CASE PyRead
  <2>1. py.pc \notin {"idle", "respond"}
    BY <1>7 DEF PyRead, Reading, ReadReady, SendTurn, ReadError, ReadEvent, ReadTerminal, ReadProposal, ReadFails
  <2>2. UNCHANGED <<reply, made, torn>>
    BY <1>7 DEF PyRead, ReadReady, SendTurn, ReadError, ReadEvent, ReadTerminal, ReadProposal, ReadFails, orchestration
  <2> QED BY <1>2, <1>6, <2>1, <2>2
<1>8. CASE Invoke \/ ReadHandler \/ CheckTarget \/ WriteTarget \/ SendResult
  <2>1. py.pc \notin {"idle", "respond"}
    BY <1>8 DEF Invoke, ReadHandler, CheckTarget, WriteTarget, SendResult
  <2>2. UNCHANGED <<reply, made>> /\ torn \subseteq torn'
    BY <1>8 DEF Invoke, ReadHandler, CheckTarget, WriteTarget, SendResult, Refuse, CallHandler, ReturnFrom,
                WriteRaises, BridgeStill, orchestration
  <2> QED BY <1>2, <1>6, <2>1, <2>2
<1>9. CASE Shutdown \/ ReadShutdown \/ AwaitExit
  <2>1. py.pc \notin {"idle", "respond"}
    BY <1>9 DEF Shutdown, ReadShutdown, AwaitExit
  <2> QED BY <1>2, <1>6, <1>9, <2>1 DEF Shutdown, ReadShutdown, AwaitExit, orchestration
<1>10. CASE NodeStep \/ Cancel
  BY <1>6, <1>10, WorkerOnly DEF orchestration
<1>11. CASE UserStep \/ UNCHANGED vars
  BY <1>6, <1>11 DEF UserStep, UserEdits, bridge, vars
<1>12. CASE WriteBlocks \/ NodeDrains
  BY <1>6, <1>12, WriteOnly DEF orchestration
<1> QED BY <1>3, <1>4, <1>5, <1>7, <1>8, <1>9, <1>10, <1>11, <1>12 DEF Next, PyStep, PyMediate, PyFinish

\* A response that says read_only is right about every operation of its run, however the
\* run ended, but for a handler that raised after it had made its file.
THEOREM HonestlyReadOnly == Spec => []ReadOnlyHonest
<1> DEFINE Inv == Shapes /\ OperationInv /\ ReplyInv
<1>1. Init => Inv
  BY ShapesInit, OperationInit, RunAssumption
     DEF Init, OrchestrationInit, Resting, ReplyInv, ReadOnlyHonest, Operations
<1>2. Inv /\ [Next]_vars => Inv'
  BY ShapesKept, OperationKept, ReplyKept
<1>3. Inv => ReadOnlyHonest
  BY DEF ReplyInv
<1> QED BY <1>1, <1>2, <1>3, PTL DEF Spec

-----------------------------------------------------------------------------
(* What the agent is told *)

\* The receipt of an operation is written once.
LEMMA ReceiptStays ==
  ASSUME Shapes, OperationInv, [Next]_vars, NEW o \in Operations, Answered(o)
  PROVE  receipts'[o] = receipts[o]
<1>1. CASE UNCHANGED receipts
  BY <1>1
<1>2. CASE Invoke \/ ReadHandler \/ CheckTarget \/ OpenTarget \/ WriteTarget
  <2>1. PICK x \in Operations : x = Op(py.job.call)
    BY <1>2, Mediated DEF Invoke, ReadHandler, CheckTarget, OpenTarget, WriteTarget, Mediating
  <2>2. py.pc \in Handling => ~Answered(x)
    BY <2>1 DEF OperationInv, Operated, InHand
  <2>3. UNCHANGED receipts \/ (~Answered(x) /\ \E tool, status : Remember(x, tool, status))
    <3>1. CASE Invoke
      BY <2>1, <3>1 DEF Invoke, Refuse, CallHandler, orchestration
    <3>2. CASE ReadHandler \/ CheckTarget \/ OpenTarget \/ WriteTarget
      <4>1. py.pc \in Handling
        BY <3>2 DEF ReadHandler, CheckTarget, OpenTarget, WriteTarget, Handling
      <4> QED BY <2>1, <2>2, <3>2, <4>1
              DEF ReadHandler, CheckTarget, OpenTarget, WriteTarget, ReturnFrom, OpenExclusive, WriteRaises, orchestration
    <3> QED BY <1>2, <3>1, <3>2
  <2> QED BY <2>3 DEF Remember, Shapes, OrchestrationTyped
<1>3. CASE (\E r \in Runs : StartRun(r)) \/ PyRead \/ SendResult \/ PyFinish
  BY <1>1, <1>3 DEF StartRun, PyRead, ReadReady, SendTurn, ReadError, ReadEvent, ReadTerminal, ReadProposal, ReadFails,
                    SendResult, PyFinish, Shutdown, ReadShutdown, AwaitExit, Respond, orchestration
<1>4. CASE NodeStep \/ Cancel \/ UserStep \/ UNCHANGED vars
  BY <1>1, <1>4, WorkerOnly DEF UserStep, UserEdits, orchestration, vars
<1>5. CASE WriteBlocks \/ NodeDrains
  BY <1>1, <1>5, WriteOnly DEF orchestration
<1> QED BY <1>2, <1>3, <1>4, <1>5 DEF Next, PyStep, PyMediate

\* What a step leaves true of the frames on their way to the worker.
LEMMA TruthfulKept ==
  ASSUME Shapes, OperationInv, [Next]_vars, py'.run = py.run \/ py'.run \notin Runs
  PROVE  Truthful \subseteq Truthful'
<1> SUFFICES ASSUME NEW f \in CallFrames, Telling(f), f.type = "tool.result", py'.run \in Runs PROVE Telling(f)'
  BY DEF Truthful, Telling
<1>1. Op(f.job.call)' = Op(f.job.call) /\ py.run = py'.run
  BY DEF Op
<1>2. Op(f.job.call) \in Operations
  BY <1>1 DEF CallFrames, ToolCall, Op, Operations
<1>3. PICK o \in Operations : o = Op(f.job.call) /\ Op(f.job.call)' = o
  BY <1>1, <1>2
<1>4. Answered(o) /\ receipts[o].status = f.status
  BY <1>1, <1>3 DEF Telling
<1>5. receipts'[o] = receipts[o]
  BY <1>4, ReceiptStays
<1> QED BY <1>3, <1>4, <1>5 DEF Telling, Answered

\* A frame without a job tells nothing of an operation, so it is truthful.
LEMMA PlainTruthful == \A type \in PlainTypes : Frame(type) \in Truthful /\ Frame(type) \in Truthful'
<1> SUFFICES ASSUME NEW type \in PlainTypes PROVE Frame(type) \in Truthful /\ Frame(type) \in Truthful'
  OBVIOUS
<1>1. "none" \in Outcomes /\ type # "tool.result"
  BY DEF Outcomes, PlainTypes
<1> QED BY <1>1, PlainFrame DEF Truthful, Telling

\* Every step keeps the results in the pipe truthful about their receipts.
LEMMA TellingKept ==
  ASSUME Shapes, WorkerContained, OperationInv, TellingInv, [Next]_vars
  PROVE  TellingInv'
<1> DEFINE Pipe == toNode' \in Seq(Truthful')
<1>1. py \in Controllers /\ toNode \in Seq(CallFrames) /\ toNode \in Seq(Truthful)
  BY DEF Shapes, ControllerTyped, WorkerTyped, TellingInv
<1>2. ASSUME UNCHANGED told, Pipe PROVE TellingInv'
  BY <1>2, ReceiptStays DEF TellingInv, Answered, Operations
<1>3. \A type \in {"runtime.start", "turn.execute", "runtime.shutdown", "control.cancel"} : Frame(type) \in Truthful'
  BY PlainTruthful DEF PlainTypes
\* The pipe keeps its meaning as long as the run does.
<1>4. ASSUME py'.run = py.run \/ py'.run \notin Runs,
             \/ toNode' \in {toNode, << >>}
             \/ toNode # << >> /\ toNode' = Tail(toNode)
             \/ \E f \in Truthful' : Send(f)
      PROVE  Pipe
  <2>1. toNode \in Seq(Truthful')
    BY <1>1, <1>4, TruthfulKept, PipeKept
  <2> QED BY <1>4, <2>1, Pipes DEF Send
<1>5. \A f \in {Frame("turn.execute"), Frame("runtime.shutdown"), Frame("control.cancel")} :
        Send(f) /\ py'.run = py.run => Pipe
  BY <1>3, <1>4
<1> HIDE DEF Pipe
<1>6. FailClosed => py'.run = py.run
  BY <1>1 DEF FailClosed, Controllers
<1>7. \A pc : Goto(pc) => py'.run = py.run
  BY <1>1 DEF Goto, Controllers
<1>8. CASE \E r \in Runs : StartRun(r)
  <2>1. toNode' = << Frame("runtime.start") >> /\ UNCHANGED told
    BY <1>8 DEF StartRun
  <2>2. Pipe
    BY <1>3, <2>1, Pipes DEF Pipe
  <2> QED BY <1>2, <2>1, <2>2
<1>9. CASE PyRead
  <2>1. UNCHANGED told /\ py'.run = py.run
    BY <1>1, <1>6, <1>9
       DEF PyRead, ReadReady, SendTurn, ReadError, ReadEvent, ReadTerminal, ReadProposal, ReadFails, Controllers
  <2>2. toNode' \in {toNode, << >>} \/ Send(Frame("turn.execute"))
    BY <1>9 DEF PyRead, ReadReady, SendTurn, ReadError, ReadEvent, ReadTerminal, ReadProposal, ReadFails, ReadRaises,
                Terminate, Gone, WorkerStill
  <2> QED BY <1>2, <1>4, <1>5, <2>1, <2>2
<1>10. CASE Invoke \/ ReadHandler \/ CheckTarget \/ OpenTarget \/ WriteTarget
  <2>1. UNCHANGED <<told, toNode>> /\ py'.run = py.run
    BY <1>10, OperationMediate DEF Invoke, ReadHandler, CheckTarget, OpenTarget, WriteTarget, BridgeStill
  <2> QED BY <1>2, <1>4, <2>1
<1>11. CASE SendResult
  <2>1. UNCHANGED <<told, receipts>> /\ py'.run = py.run /\ py.pc = "answer"
    BY <1>1, <1>6, <1>11 DEF SendResult, Controllers, orchestration
  <2>2. PICK o \in Operations : o = Op(py.job.call) /\ Answered(o) /\ ToolCall(py.job) /\ py.job \in Jobs
    BY <1>1, <2>1, Mediated DEF Mediating, OperationInv, Controllers
  <2>3. CASE ~IsRunning
    BY <1>2, <1>4, <1>11, <2>1, <2>3 DEF SendResult
  <2>4. CASE IsRunning
    <3>1. PICK status \in Statuses \cup {"none"} : status = receipts[o].status
      BY DEF Shapes, OrchestrationTyped
    <3>2. PICK f \in CallFrames : f = [Frame("tool.result") EXCEPT !.job = py.job, !.status = status]
      BY <2>2, CallFrame
    <3>3. Send(f)
      BY <1>11, <2>2, <2>4, <3>1, <3>2 DEF SendResult
    <3>4. f.job = py.job /\ f.status = status
      BY <3>2 DEF Frame
    <3>5. Op(f.job.call)' = o
      BY <2>1, <2>2, <3>4 DEF Op
    <3>6. Answered(o)' /\ receipts'[o].status = f.status
      BY <2>1, <2>2, <3>1, <3>4 DEF Answered
    <3>7. Telling(f)'
      BY <3>5, <3>6 DEF Telling
    <3> QED BY <1>2, <1>4, <2>1, <3>3, <3>7 DEF Truthful
  <2> QED BY <2>3, <2>4
<1>12. CASE Respond
  <2>1. UNCHANGED <<told, toNode>> /\ py'.run \notin Runs
    BY <1>12, RunAssumption DEF Respond, Resting
  <2> QED BY <1>2, <1>4, <2>1
<1>13. CASE Shutdown \/ ReadShutdown \/ AwaitExit
  <2>1. UNCHANGED told /\ py'.run = py.run
    BY <1>1, <1>7, <1>13 DEF Shutdown, ReadShutdown, AwaitExit, Controllers
  <2>2. toNode' \in {toNode, << >>} \/ Send(Frame("runtime.shutdown"))
    BY <1>13 DEF Shutdown, ReadShutdown, AwaitExit, ReadRaises, Terminate, Gone, WorkerStill
  <2> QED BY <1>2, <1>4, <1>5, <2>1, <2>2
<1>14. CASE NodeResult
  <2>1. /\ py'.run = py.run /\ UNCHANGED receipts /\ IsRunning
        /\ toNode # << >> /\ toNode' = Tail(toNode) /\ Head(toNode).type = "tool.result"
    BY <1>14 DEF NodeResult, Line, orchestration, IsRunning
  <2>2. Pipe
    BY <1>4, <2>1
  <2>3. py.run \in Runs
    BY <1>1, <2>1 DEF WorkerContained, Shapes, ControllerTyped, Controllers
  <2>4. Head(toNode) \in Truthful
    BY <1>1, <2>1, Pipes
  <2>5. PICK f \in Truthful : f = Head(toNode)
    BY <2>4
  <2>6. PICK o \in Operations : o = Op(f.job.call)
    BY <2>1, <2>3, <2>5 DEF Truthful, CallFrames, ToolCall, Op, Operations
  <2>7. Answered(o) /\ receipts[o].status = f.status /\ f.status \in Statuses
    <3>1. Answered(o) /\ receipts[o].status = f.status
      BY <2>1, <2>3, <2>5, <2>6 DEF Truthful, Telling
    <3> QED BY <3>1 DEF OperationInv, Operated
  <2>8. told' = told \/ told' = told \cup {[op |-> o, status |-> f.status]}
    BY <1>14, <2>5, <2>6 DEF NodeResult
  <2>9. told' \subseteq [op : Operations, status : Statuses]
    BY <2>7, <2>8 DEF TellingInv
  <2>10. \A t \in told' : (Answered(t.op))' /\ receipts'[t.op].status = t.status
    BY <2>1, <2>7, <2>8 DEF TellingInv, Answered
  <2> QED BY <2>2, <2>9, <2>10 DEF TellingInv, Pipe
<1>15. CASE Cancel \/ (NodeStep /\ ~NodeResult)
  <2>1. py'.run = py.run
    BY <1>15, WorkerOnly
  <2>2. UNCHANGED told
    BY <1>15 DEF NodeStep, NodeStart, NodeExecute, NodeShutdown, NodeCancel, NodeDies, AgentProposes, ToolTimer,
                 AgentOutput, AgentEnds, Cancel
  <2>3. toNode' \in {toNode, << >>} \/ (toNode # << >> /\ toNode' = Tail(toNode)) \/ Send(Frame("control.cancel"))
    BY <1>15 DEF NodeStep, NodeStart, NodeExecute, NodeShutdown, NodeCancel, NodeDies, AgentProposes, ToolTimer,
                 AgentOutput, AgentEnds, Cancel, Line, Gone
  <2> QED BY <1>2, <1>4, <1>5, <2>1, <2>2, <2>3
<1>16. CASE UserStep \/ UNCHANGED vars
  <2>1. UNCHANGED <<told, toNode, py>>
    BY <1>16 DEF UserStep, bridge, vars
  <2> QED BY <1>2, <1>4, <2>1
<1>17. CASE WriteBlocks \/ NodeDrains
  <2>1. UNCHANGED <<told, toNode, py.run>>
    BY <1>17, WriteOnly
  <2> QED BY <1>2, <1>4, <2>1
<1> QED BY <1>8, <1>9, <1>10, <1>11, <1>12, <1>13, <1>14, <1>15, <1>16, <1>17 DEF Next, PyStep, PyMediate, PyFinish

\* Whatever the agent has been told of a call is the receipt of that operation, and stays
\* so: EXECUTED for a file means that its handler made the file.
THEOREM TruthTold == Spec => []ToldTruth
<1> DEFINE Inv == Shapes /\ WorkerContained /\ OperationInv /\ TellingInv
<1>1. Init => Inv
  <2>1. Init => TellingInv
    BY Pipes DEF Init, TellingInv
  <2> QED BY <2>1, ShapesInit, OperationInit DEF Init, NoWorker, WorkerContained, IsRunning
<1>2. Inv /\ [Next]_vars => Inv'
  BY ShapesKept, ContainedKept, OperationKept, TellingKept
<1>3. Inv => ToldTruth
  <2> SUFFICES ASSUME Inv, NEW t \in told
               PROVE  /\ receipts[t.op].status = t.status
                      /\ t.status = "EXECUTED" /\ receipts[t.op].tool = "create" => made[t.op]
    BY DEF ToldTruth
  <2>1. PICK o \in Operations : o = t.op /\ receipts[o].status = t.status
    BY DEF TellingInv
  <2>2. Executed(o, "create") => made[o]
    BY DEF OperationInv, Operated
  <2>3. receipts[o] \in [status : Statuses \cup {"none"}, tool : {"none", "read", "create"}]
    BY DEF Shapes, OrchestrationTyped
  <2> QED BY <2>1, <2>2, <2>3 DEF Executed
<1> QED BY <1>1, <1>2, <1>3, PTL DEF Spec

-----------------------------------------------------------------------------
(* Who says that a turn is completed *)

\* Another frame adds no turn to a pipe, and one turn is the most a pipe without any gets.
LEMMA TurnsAppended ==
  ASSUME NEW S, NEW q \in Seq(S), NEW f \in S
  PROVE  /\ f.type # "turn.execute" /\ OneTurn(q) => OneTurn(Append(q, f))
         /\ f.type # "turn.execute" /\ NoTurn(q) => NoTurn(Append(q, f))
         /\ NoTurn(q) => OneTurn(Append(q, f))
<1>1. Len(Append(q, f)) = Len(q) + 1 /\ \A i \in 1..Len(q) + 1 : Append(q, f)[i] = IF i = Len(q) + 1 THEN f ELSE q[i]
  OBVIOUS
<1>2. Len(q) \in Nat
  OBVIOUS
<1> QED BY <1>1, <1>2 DEF NoTurn, OneTurn

\* Reading a pipe adds no turn to it, and takes the only one when it reads a turn.
LEMMA TurnsInPipe ==
  ASSUME NEW S, NEW q \in Seq(S)
  PROVE  /\ q # << >> => /\ NoTurn(q) => NoTurn(Tail(q))
                         /\ OneTurn(q) => OneTurn(Tail(q))
                         /\ Head(q).type = "turn.execute" => ~NoTurn(q) /\ (OneTurn(q) => NoTurn(Tail(q)))
         /\ NoTurn(<< >>) /\ OneTurn(<< >>)
<1>1. ASSUME q # << >>
      PROVE  Len(q) >= 1 /\ Head(q) = q[1] /\ Len(Tail(q)) = Len(q) - 1 /\ \A i \in 1..Len(q) - 1 : Tail(q)[i] = q[i + 1]
  BY <1>1
<1>2. Len(q) \in Nat
  OBVIOUS
<1>3. ASSUME q # << >>, NoTurn(q) PROVE NoTurn(Tail(q))
  BY <1>1, <1>2, <1>3 DEF NoTurn
<1>4. ASSUME q # << >>, OneTurn(q) PROVE OneTurn(Tail(q)) /\ (Head(q).type = "turn.execute" => NoTurn(Tail(q)))
  BY <1>1, <1>2, <1>4 DEF NoTurn, OneTurn
<1>5. ASSUME q # << >>, Head(q).type = "turn.execute" PROVE ~NoTurn(q)
  BY <1>1, <1>2, <1>5 DEF NoTurn
<1>6. NoTurn(<< >>) /\ OneTurn(<< >>)
  BY DEF NoTurn, OneTurn
<1> QED BY <1>3, <1>4, <1>5, <1>6

\* A pipe claims a completion only through a frame that was put into it.
LEMMA ClaimsInPipe ==
  ASSUME NEW S, NEW q \in Seq(S)
  PROVE  /\ \A f \in S : Claimed(Append(q, f)) => Claimed(q) \/ Claims(f)
         /\ q # << >> => /\ Claimed(Tail(q)) => Claimed(q)
                         /\ Claims(Head(q)) => Claimed(q)
         /\ ~Claimed(<< >>)
<1>1. ASSUME NEW f \in S
      PROVE  Len(Append(q, f)) = Len(q) + 1 /\ \A i \in 1..Len(q) + 1 : Append(q, f)[i] = IF i = Len(q) + 1 THEN f ELSE q[i]
  OBVIOUS
<1>2. ASSUME q # << >>
      PROVE  Len(q) >= 1 /\ Head(q) = q[1] /\ Len(Tail(q)) = Len(q) - 1 /\ \A i \in 1..Len(q) - 1 : Tail(q)[i] = q[i + 1]
  BY <1>2
<1>3. Len(q) \in Nat
  OBVIOUS
<1>4. ASSUME NEW f \in S, Claimed(Append(q, f)) PROVE Claimed(q) \/ Claims(f)
  BY <1>1, <1>3, <1>4 DEF Claimed
<1>5. ASSUME q # << >>, Claimed(Tail(q)) PROVE Claimed(q)
  BY <1>2, <1>3, <1>5 DEF Claimed
<1>6. ASSUME q # << >>, Claims(Head(q)) PROVE Claimed(q)
  BY <1>2, <1>3, <1>6 DEF Claimed
<1>7. ~Claimed(<< >>)
  BY DEF Claimed
<1> QED BY <1>4, <1>5, <1>6, <1>7
\* What sending does to the turns in the pipe to the worker.
LEMMA SendsTurns ==
  ASSUME toNode \in Seq(CallFrames), NEW f \in CallFrames, Send(f)
  PROVE  /\ f.type # "turn.execute" /\ OneTurn(toNode) => OneTurn(toNode')
         /\ f.type # "turn.execute" /\ NoTurn(toNode) => NoTurn(toNode')
         /\ NoTurn(toNode) => OneTurn(toNode')
BY TurnsAppended DEF Send

\* The same for a frame without a job.
LEMMA PlainSends ==
  ASSUME toNode \in Seq(CallFrames), NEW type \in PlainTypes, Send(Frame(type))
  PROVE  /\ type # "turn.execute" /\ OneTurn(toNode) => OneTurn(toNode')
         /\ type # "turn.execute" /\ NoTurn(toNode) => NoTurn(toNode')
         /\ NoTurn(toNode) => OneTurn(toNode')
<1>1. "none" \in Outcomes
  BY DEF Outcomes
<1>2. Frame(type) \in CallFrames /\ Frame(type).type = type
  BY <1>1, PlainFrame
<1> QED BY <1>2, SendsTurns

\* The steps of the worker and of clients.
LEMMA ResultWorker ==
  ASSUME Shapes, ResultInv, NodeStep \/ Cancel
  PROVE  ResultInv'
<1>1. node \in Workers /\ toNode \in Seq(CallFrames) /\ toPy \in Seq(CallFrames) /\ py' = py
  BY WorkerOnly DEF Shapes, WorkerTyped
<1>2. /\ \A type \in PlainTypes : Frame(type) \in CallFrames /\ Frame(type).type = type /\ Frame(type).status = "none"
      /\ "none" \in Outcomes
  <2>1. "none" \in Outcomes
    BY DEF Outcomes
  <2> QED BY <2>1, PlainFrame
\* What is written to the controller, and what is left to read for the worker.
<1>3. \A f \in CallFrames : Write(f) /\ ~Claims(f) /\ Claimed(toPy') => Claimed(toPy)
  BY <1>1, ClaimsInPipe DEF Write
<1>4. \A type \in PlainTypes : Write(Frame(type)) /\ Claimed(toPy') => Claimed(toPy)
  BY <1>2, <1>3 DEF Claims
<1>5. ASSUME toNode # << >>, toNode' = Tail(toNode)
      PROVE  /\ OneTurn(toNode') /\ (NoTurn(toNode) => NoTurn(toNode'))
             /\ Head(toNode).type = "turn.execute" => ~NoTurn(toNode) /\ NoTurn(toNode')
  BY <1>1, <1>5, TurnsInPipe DEF ResultInv
\* A step that keeps the result, starts no agent and writes no claim.
<1>6. ASSUME node'.result = node.result, node.agent = "none" => node'.agent = "none",
             Claimed(toPy') => Claimed(toPy), OneTurn(toNode'), NoTurn(toNode) => NoTurn(toNode')
      PROVE  ResultInv'
  BY <1>1, <1>6 DEF ResultInv, Unfinished
<1>7. CASE NodeStart \/ NodeResult \/ NodeShutdown \/ NodeCancel
  <2>1. node'.result = node.result /\ (node.agent = "none" => node'.agent = "none")
    BY <1>1, <1>7 DEF NodeStart, NodeResult, NodeShutdown, NodeCancel, Workers
  <2>2. Claimed(toPy') => Claimed(toPy)
    BY <1>4, <1>7 DEF NodeStart, NodeResult, NodeShutdown, NodeCancel, PlainTypes
  <2>3. toNode # << >> /\ toNode' = Tail(toNode)
    BY <1>7 DEF NodeStart, NodeResult, NodeShutdown, NodeCancel, Line
  <2> QED BY <1>5, <1>6, <2>1, <2>2, <2>3
<1>8. CASE NodeExecute
  <2>1. toNode # << >> /\ toNode' = Tail(toNode) /\ Head(toNode).type = "turn.execute" /\ UNCHANGED toPy
    BY <1>8 DEF NodeExecute, Line
  <2>2. node'.result = node.result
    BY <1>1, <1>8 DEF NodeExecute, Workers
  <2> QED BY <1>1, <1>5, <2>1, <2>2 DEF ResultInv, Unfinished
<1>9. CASE NodeDies
  <2>1. node'.result = node.result /\ node'.agent = "none" /\ toNode' = << >> /\ UNCHANGED toPy
    BY <1>9 DEF NodeDies, Gone, NoWorker
  <2> QED BY <1>1, <1>6, <2>1, TurnsInPipe
<1>10. CASE \/ \E c \in Calls, r \in Requests : AgentProposes(c, r)
            \/ \E c \in Calls : ToolTimer(c)
            \/ AgentOutput
  <2>1. node'.result = node.result /\ node'.agent = node.agent /\ UNCHANGED toNode
    BY <1>1, <1>10 DEF AgentProposes, ToolTimer, AgentOutput, Workers
  <2>2. Claimed(toPy') => Claimed(toPy)
    <3>1. CASE \E c \in Calls, r \in Requests : AgentProposes(c, r)
      <4>1. PICK c \in Calls, r \in Requests : AgentProposes(c, r)
        BY <3>1
      <4>2. PICK job \in Jobs : job = [call |-> c, request |-> r] /\ ToolCall(job)
        <5>1. [call |-> c, request |-> r] \in Jobs
          BY DEF Jobs
        <5> QED BY <5>1 DEF ToolCall
      <4>3. PICK f \in CallFrames : f = [Frame("tool.proposed") EXCEPT !.job = job]
        <5>1. [Frame("tool.proposed") EXCEPT !.job = job] \in CallFrames
          BY <4>2, CallFrame
        <5> QED BY <5>1
      <4>4. ~Claims(f)
        BY <4>3 DEF Frame, Claims
      <4> QED BY <1>3, <4>1, <4>2, <4>3, <4>4 DEF AgentProposes
    <3>2. CASE \E c \in Calls : ToolTimer(c)
      BY <3>2 DEF ToolTimer
    <3>3. CASE AgentOutput
      BY <1>4, <3>3 DEF AgentOutput, PlainTypes
    <3> QED BY <1>10, <3>1, <3>2, <3>3
  <2> QED BY <1>1, <1>6, <2>1, <2>2 DEF ResultInv
<1>11. CASE AgentEnds
  <2>1. PICK status \in Outcomes :
          /\ node' = [node EXCEPT !.agent = "none", !.result = status]
          /\ IF node.shutting THEN UNCHANGED toPy
             ELSE Write([Frame(IF status = "failed" THEN "turn.failed" ELSE "turn.completed")
                           EXCEPT !.status = status])
    BY <1>11 DEF AgentEnds, Outcomes
  <2>2. node.agent # "none" /\ UNCHANGED toNode
    BY <1>11 DEF AgentEnds
  <2>3. Unfinished /\ NoTurn(toNode) /\ ~Claimed(toPy) /\ py.pc \notin Launching /\ py.terminal # "completed" /\ OneTurn(toNode)
    BY <2>2 DEF ResultInv, Unfinished
  <2>4. node'.result = status /\ node'.agent = "none"
    BY <1>1, <2>1 DEF Workers
  <2>5. Claimed(toPy') => status = "completed"
    <3>1. CASE node.shutting
      BY <2>1, <2>3, <3>1
    <3>2. CASE ~node.shutting
      <4>1. PICK type \in {"turn.completed", "turn.failed"} :
              Write([Frame(type) EXCEPT !.status = status])
        BY <2>1, <3>2
      <4>2. PICK f \in CallFrames : f = [Frame(type) EXCEPT !.status = status] /\ f.status = status
        <5>1. type \in PlainTypes
          BY DEF PlainTypes
        <5> QED BY <5>1, PlainFrame
      <4> QED BY <1>3, <2>3, <4>1, <4>2 DEF Claims
    <3> QED BY <3>1, <3>2
  <2> QED BY <1>1, <2>2, <2>3, <2>4, <2>5 DEF ResultInv, Unfinished
<1>12. CASE Cancel
  <2>1. node'.result = node.result /\ node'.agent = node.agent /\ UNCHANGED toPy /\ Send(Frame("control.cancel"))
    BY <1>1, <1>12 DEF Cancel, Workers
  <2>2. OneTurn(toNode') /\ (NoTurn(toNode) => NoTurn(toNode'))
    <3>1. "control.cancel" \in PlainTypes
      BY DEF PlainTypes
    <3> QED BY <1>1, <2>1, <3>1, PlainSends DEF ResultInv
  <2> QED BY <1>6, <2>1, <2>2
<1> QED BY <1>7, <1>8, <1>9, <1>10, <1>11, <1>12 DEF NodeStep

\* Every step keeps that a worker has one turn, and its result once it is there.
LEMMA ResultKept ==
  ASSUME Shapes, ResultInv, [Next]_vars
  PROVE  ResultInv'
<1>1. /\ node \in Workers /\ toNode \in Seq(CallFrames) /\ toPy \in Seq(CallFrames) /\ py \in Controllers
      /\ NoWorker.result = "none" /\ NoWorker.agent = "none"
  BY DEF Shapes, WorkerTyped, ControllerTyped, NoWorker
<1>2. /\ \A type \in PlainTypes : Frame(type) \in CallFrames /\ Frame(type).type = type /\ Frame(type).status = "none"
      /\ "none" \in Outcomes
  <2>1. "none" \in Outcomes
    BY DEF Outcomes
  <2> QED BY <2>1, PlainFrame
<1>3. FailClosed => py'.pc = "finally" /\ py'.terminal = py.terminal
  BY <1>1 DEF FailClosed, Controllers
<1>4. \A pc \in PyStates : Goto(pc) => py'.pc = pc /\ py'.terminal = py.terminal
  BY <1>1 DEF Goto, Controllers
\* What the controller leaves of the worker.
<1>5. ASSUME WorkerStill \/ Terminate \/ (UNCHANGED node /\ \E type \in PlainTypes \ {"turn.execute"} : Send(Frame(type)))
      PROVE  /\ node'.result = node.result /\ (node.agent = "none" => node'.agent = "none")
             /\ node'.agent # "none" => node.agent # "none"
             /\ OneTurn(toNode') /\ (NoTurn(toNode) => NoTurn(toNode'))
  <2>1. CASE WorkerStill
    BY <2>1 DEF WorkerStill, ResultInv
  <2>2. CASE Terminate
    <3>1. node'.result = node.result /\ node'.agent = "none" /\ toNode' = << >>
      BY <2>2 DEF Terminate, Gone, NoWorker
    <3> QED BY <1>1, <3>1, TurnsInPipe
  <2>3. CASE UNCHANGED node /\ \E type \in PlainTypes \ {"turn.execute"} : Send(Frame(type))
    <3>1. PICK type \in PlainTypes \ {"turn.execute"} : Send(Frame(type))
      BY <2>3
    <3>2. OneTurn(toNode') /\ (NoTurn(toNode) => NoTurn(toNode'))
      BY <1>1, <3>1, PlainSends DEF ResultInv
    <3> QED BY <2>3, <3>2
  <2> QED BY <1>5, <2>1, <2>2, <2>3
<1>6. ASSUME node'.result = node.result, node'.agent # "none" => node.agent # "none",
             OneTurn(toNode'), NoTurn(toNode) => NoTurn(toNode'), Claimed(toPy') => Claimed(toPy),
             py'.pc \in Launching => py.pc \in Launching,
             py'.terminal = "completed" => py.terminal = "completed" \/ Claimed(toPy)
      PROVE  ResultInv'
  BY <1>6 DEF ResultInv, Unfinished
<1>7. toPy # << >> /\ toPy' = Tail(toPy) => (Claimed(toPy') => Claimed(toPy))
  BY <1>1, ClaimsInPipe
<1>8. CASE \E r \in Runs : StartRun(r)
  <2>1. /\ py'.pc = "starting" /\ py'.terminal = "none" /\ node'.result = "none" /\ node'.agent = "none"
        /\ toNode' = << Frame("runtime.start") >> /\ toPy' = << >>
    BY <1>1, <1>8 DEF StartRun, Resting, NoWorker
  <2>2. Len(toNode') = 1 /\ toNode'[1].type = "runtime.start"
    BY <2>1 DEF Frame
  <2>3. NoTurn(toNode') /\ OneTurn(toNode')
    BY <2>2 DEF NoTurn, OneTurn
  <2> QED BY <1>1, <2>1, <2>3, ClaimsInPipe DEF ResultInv, Unfinished
<1>9. CASE SendTurn
  <2>1. py.pc = "execute" /\ py'.terminal = py.terminal /\ py'.pc \in {"turn", "finally"} /\ UNCHANGED <<node, toPy>>
    BY <1>1, <1>3, <1>9 DEF SendTurn, Controllers
  <2>2. Unfinished /\ node.agent = "none" /\ NoTurn(toNode) /\ OneTurn(toNode)
    BY <2>1 DEF ResultInv, Launching
  <2>3. OneTurn(toNode')
    <3>1. "turn.execute" \in PlainTypes
      BY DEF PlainTypes
    <3> QED BY <1>1, <1>9, <2>2, <3>1, PlainSends DEF SendTurn
  <2> QED BY <2>1, <2>2, <2>3 DEF ResultInv, Unfinished, Launching
<1>10. CASE ReadReady \/ ReadError \/ ReadEvent \/ ReadProposal \/ ReadFails
  <2>1. py'.pc \in Launching => py.pc \in Launching
    BY <1>1, <1>3, <1>10 DEF ReadReady, ReadError, ReadEvent, ReadProposal, ReadFails, Controllers, Launching
  <2>2. py'.terminal = py.terminal
    BY <1>1, <1>3, <1>10 DEF ReadReady, ReadError, ReadEvent, ReadProposal, ReadFails, Controllers
  <2>3. WorkerStill \/ Terminate
    BY <1>10 DEF ReadReady, ReadError, ReadEvent, ReadProposal, ReadFails, ReadRaises, WorkerStill
  <2>4. Claimed(toPy') => Claimed(toPy)
    BY <1>7, <1>10 DEF ReadReady, ReadError, ReadEvent, ReadProposal, ReadFails, ReadFrame
  <2> QED BY <1>5, <1>6, <2>1, <2>2, <2>3, <2>4
<1>11. CASE ReadTerminal
  <2>1. toPy # << >> /\ toPy' = Tail(toPy) /\ WorkerStill
    BY <1>11 DEF ReadTerminal, ReadFrame, WorkerStill
  <2>2. PICK type \in {"turn.completed", "turn.failed"} :
          /\ Head(toPy).type = type
          /\ py' = [py EXCEPT !.pc = "finally",
                              !.terminal = IF type = "turn.completed" THEN Head(toPy).status ELSE "failed"]
    BY <1>11 DEF ReadTerminal, ReadFrame
  <2>3. py'.pc \notin Launching /\ (py'.terminal = "completed" => Claims(Head(toPy)))
    BY <1>1, <2>2 DEF Controllers, Claims, Launching
  <2>4. py'.terminal = "completed" => Claimed(toPy)
    BY <1>1, <2>1, <2>3, ClaimsInPipe
  <2> QED BY <1>5, <1>6, <1>7, <2>1, <2>3, <2>4
<1>12. CASE Invoke \/ ReadHandler \/ CheckTarget \/ OpenTarget \/ WriteTarget
  <2>1. UNCHANGED <<node, toNode, toPy>> /\ WorkerStill
    BY <1>12 DEF Invoke, ReadHandler, CheckTarget, OpenTarget, WriteTarget, BridgeStill, WorkerStill
  <2>2. \E pc \in {"answer", "read", "create", "open", "write"} : Goto(pc)
    <3>1. py.pc = "invoke" => py.job.request.tool \in {"read", "create"}
      BY Mediated DEF Mediating
    <3> QED BY <1>12, <3>1 DEF Invoke, ReadHandler, CheckTarget, OpenTarget, WriteTarget
  <2>3. py'.pc \notin Launching /\ py'.terminal = py.terminal
    BY <1>4, <2>2 DEF PyStates, Launching
  <2> QED BY <1>5, <1>6, <2>1, <2>3
<1>13. CASE SendResult
  <2>1. py'.pc \notin Launching /\ py'.terminal = py.terminal /\ UNCHANGED <<node, pending, toPy>>
    BY <1>1, <1>3, <1>13 DEF SendResult, Controllers, Launching
  <2>2. CASE UNCHANGED toNode
    BY <1>5, <1>6, <2>1, <2>2 DEF WorkerStill
  <2>3. CASE ~UNCHANGED toNode
    <3>1. py.job \in Jobs /\ ToolCall(py.job) /\ Op(py.job.call) \in Operations
      BY <1>1, <1>13, Mediated DEF SendResult, Mediating, Controllers
    <3>2. PICK status \in Statuses \cup {"none"} : status = receipts[Op(py.job.call)].status
      BY <3>1 DEF Shapes, OrchestrationTyped
    <3>3. PICK f \in CallFrames : f = [Frame("tool.result") EXCEPT !.job = py.job, !.status = status]
      BY <3>1, CallFrame
    <3>4. Send(f)
      BY <1>13, <2>3, <3>2, <3>3 DEF SendResult
    <3>5. f.type = "tool.result"
      BY <3>3 DEF Frame
    <3>6. OneTurn(toNode') /\ (NoTurn(toNode) => NoTurn(toNode'))
      BY <1>1, <3>4, <3>5, SendsTurns DEF ResultInv
    <3> QED BY <1>6, <2>1, <3>6
  <2> QED BY <2>2, <2>3
<1>14. CASE Shutdown \/ ReadShutdown \/ AwaitExit
  <2>1. py'.pc \notin Launching /\ py'.terminal = py.terminal
    BY <1>1, <1>4, <1>14 DEF Shutdown, ReadShutdown, AwaitExit, PyStates, Controllers, Launching
  <2>2. WorkerStill \/ Terminate \/ (UNCHANGED node /\ \E type \in PlainTypes \ {"turn.execute"} : Send(Frame(type)))
    BY <1>14 DEF Shutdown, ReadShutdown, AwaitExit, ReadRaises, WorkerStill, PlainTypes
  <2>3. Claimed(toPy') => Claimed(toPy)
    BY <1>7, <1>14 DEF Shutdown, ReadShutdown, AwaitExit
  <2> QED BY <1>5, <1>6, <2>1, <2>2, <2>3
<1>15. CASE Respond
  <2>1. py'.pc \notin Launching /\ py'.terminal = "none" /\ WorkerStill /\ UNCHANGED toPy
    BY <1>15 DEF Respond, Resting, WorkerStill, Launching
  <2> QED BY <1>5, <1>6, <2>1
<1>16. CASE NodeStep \/ Cancel
  BY <1>16, ResultWorker
<1>17. CASE UserStep \/ UNCHANGED vars
  BY <1>17 DEF UserStep, bridge, vars, ResultInv, Unfinished
<1>18. CASE WriteBlocks \/ NodeDrains
  BY <1>6, <1>18, WriteOnly DEF ResultInv
<1> QED BY <1>8, <1>9, <1>10, <1>11, <1>12, <1>13, <1>14, <1>15, <1>16, <1>17, <1>18
        DEF Next, PyStep, PyRead, PyMediate, PyFinish

\* COMPLETED is said only of a turn whose agent has completed.
THEOREM CompletedOnlyByAgent == Spec => CompletedByAgent
<1> DEFINE Inv == Shapes /\ ResultInv
           Step1 == \A r \in Runs : reply'[r].outcome = "COMPLETED" /\ reply[r] = NoReply => node.result = "completed"
<1>1. Init => Inv
  <2>1. Init => ResultInv
    <3>1. NoTurn(<< >>) /\ OneTurn(<< >>) /\ ~Claimed(<< >>)
      BY DEF NoTurn, OneTurn, Claimed
    <3> QED BY <3>1 DEF Init, Resting, NoWorker, ResultInv, Unfinished
  <2> QED BY <2>1, ShapesInit
<1>2. Inv /\ [Next]_vars => Inv'
  BY ShapesKept, ResultKept
<1>3. Inv /\ [Next]_vars => [Step1]_vars
  <2> SUFFICES ASSUME Inv, Next, NEW r \in Runs, reply'[r].outcome = "COMPLETED", reply[r] = NoReply
               PROVE  node.result = "completed"
    OBVIOUS
  <2>1. reply' # reply
    BY DEF NoReply
  <2>2. Respond
    BY <2>1, WorkerOnly, WriteOnly
       DEF Next, StartRun, PyStep, PyRead, ReadReady, SendTurn, ReadError, ReadEvent, ReadTerminal, ReadProposal, ReadFails,
           PyMediate, Invoke, ReadHandler, CheckTarget, OpenTarget, WriteTarget, SendResult, BridgeStill,
           PyFinish, Shutdown, ReadShutdown, AwaitExit, UserStep, bridge
  <2>3. TurnCompleted
    BY <2>2 DEF Respond, NoReply, Shapes, ControllerTyped
  <2> QED BY <2>3 DEF TurnCompleted, ResultInv
<1> QED BY <1>1, <1>2, <1>3, PTL DEF Spec, CompletedByAgent
-----------------------------------------------------------------------------
(* The refinement: each step is one of GovernedEffects or none *)

Asked == [o \in Operations |-> AskedFor(granted[o])]

\* The run begins as its abstract promise does.
LEMMA EffectsInit == Init => Effects!EInit
<1> SUFFICES ASSUME Init PROVE Effects!EInit
  OBVIOUS
<1>1. owner \in [Paths -> {Nobody, User}] /\ made = [o \in Operations |-> FALSE]
  BY DEF Init, OrchestrationInit
<1>2. \A o \in Operations : ~Answered(o) /\ AskedFor(granted[o]) = Effects!Nothing
  BY DEF Init, OrchestrationInit, Answered, NoRequest, AskedFor, Effects!Nothing
<1>3. Settled = [o \in Operations |-> "open"]
  BY <1>2 DEF Settled
<1>4. Permitted \in SUBSET {"look", "make"}
  BY DEF Permitted
<1> QED BY <1>1, <1>2, <1>3, <1>4 DEF Effects!EInit

\* A step that changes none of the four changes no effect.
LEMMA NoEffect ==
  ASSUME UNCHANGED <<receipts, granted, made, owner, context>>
  PROVE  UNCHANGED Effects!effects
<1>1. \A o : Answered(o)' <=> Answered(o)
  BY DEF Answered
<1>2. Settled' = Settled
  BY <1>1 DEF Settled
<1>3. Permitted' = Permitted
  BY DEF Permitted
<1> QED BY <1>2, <1>3 DEF Effects!effects

\* The handler is called with what the policy of the session allows.
LEMMA GrantStep ==
  ASSUME Shapes, NEW o \in Operations, NEW r \in Requests, CallHandler(o, r), granted[o] = NoRequest
  PROVE  Effects!ENext
<1>1. r.tool \in {"read", "create"} /\ r.path \in Paths
  BY OrchestrationAssumption
<1>2. PICK what \in {Effects!Look} \cup {Effects!File(p) : p \in Paths} : what = AskedFor(r)
  BY <1>1 DEF AskedFor, Effects!Look, Effects!File
<1>3. Settled[o] = "open" /\ Asked[o] = Effects!Nothing
  BY DEF CallHandler, Settled, Asked, AskedFor, NoRequest, Effects!Nothing
<1>4. what.kind \in Permitted
  <2>1. /\ context.circumstances = {}
        /\ ToolCapability[r.tool] \in context.decision.capabilities
    BY DEF CallHandler, Refusal, ResolveAuthorization
  <2> QED BY <1>1, <1>2, <2>1 DEF AskedFor, Permitted, ToolCapability
<1>5. Asked' = [Asked EXCEPT ![o] = what]
  <2>1. \A x \in Operations : granted'[x] = IF x = o THEN r ELSE granted[x]
    BY DEF CallHandler, Shapes, OrchestrationTyped
  <2> QED BY <1>2, <2>1 DEF Asked
<1>6. UNCHANGED <<owner, Settled, made, Permitted>>
  <2>1. UNCHANGED <<context, receipts, owner, made>>
    BY DEF CallHandler
  <2> QED BY <2>1 DEF Settled, Answered, Permitted
<1>7. Effects!Grant(o, what)
  BY <1>3, <1>4, <1>5, <1>6 DEF Effects!Grant, Asked
<1> QED BY <1>2, <1>7 DEF Effects!ENext

\* A handler that makes its file is the abstract step that makes one.
LEMMA MakeStep ==
  ASSUME Shapes, NEW o \in Operations, NEW r \in Requests, OpenExclusive(o, r.path),
         granted[o] = r, r.tool = "create", ~Answered(o), ~made[o]
  PROVE  Effects!ENext
<1>1. r.path \in Paths
  BY OrchestrationAssumption
<1>2. Settled[o] = "open" /\ Asked[o] = Effects!File(r.path)
  BY DEF Settled, Asked, AskedFor, Effects!File
<1>3. UNCHANGED <<Settled, Asked, Permitted>>
  <2>1. UNCHANGED <<context, receipts, granted>>
    BY DEF OpenExclusive
  <2> QED BY <2>1 DEF Settled, Answered, Asked, Permitted
<1>4. Effects!Make(o, r.path)
  BY <1>2, <1>3 DEF OpenExclusive, Effects!Make, Asked
<1> QED BY <1>1, <1>4 DEF Effects!ENext

\* A receipt settles its operation, as EXECUTED only for what has been done.
LEMMA SettleStep ==
  ASSUME Shapes, NEW o \in Operations, NEW tool, NEW status \in Statuses, Remember(o, tool, status),
         UNCHANGED <<context, owner, granted, made>>, ~Answered(o),
         status = "EXECUTED" => granted[o].tool = "read" \/ (granted[o].tool = "create" /\ made[o])
  PROVE  Effects!ENext
<1>1. /\ receipts'[o] = [status |-> status, tool |-> tool]
      /\ \A x \in Operations \ {o} : receipts'[x] = receipts[x]
  BY DEF Remember, Shapes, OrchestrationTyped
<1>2. Answered(o)' /\ \A x \in Operations \ {o} : Answered(x)' <=> Answered(x)
  BY <1>1 DEF Answered, NoReceipt, Statuses
<1>3. Settled[o] = "open" /\ Settled' = [Settled EXCEPT ![o] = status]
  <2>1. \A x \in Operations : (IF Answered(x)' THEN receipts'[x].status ELSE "open")
                              = IF x = o THEN status ELSE IF Answered(x) THEN receipts[x].status ELSE "open"
    BY <1>1, <1>2
  <2> QED BY <2>1 DEF Settled
<1>4. UNCHANGED <<Asked, Permitted>>
  BY DEF Asked, Permitted
<1>5. status = "EXECUTED" => Asked[o] = Effects!Look \/ (Asked[o].kind = "make" /\ made[o])
  BY DEF Asked, AskedFor, Effects!Look
<1>6. Effects!Settle(o, status)
  BY <1>3, <1>4, <1>5 DEF Effects!Settle, Asked
<1> QED BY <1>6 DEF Effects!ENext

\* Every step is an abstract one or leaves the effects as they were.
LEMMA EffectsStep ==
  ASSUME Shapes, OperationInv, [Next]_vars
  PROVE  [Effects!ENext]_Effects!effects
<1>1. CASE Invoke \/ ReadHandler \/ CheckTarget \/ OpenTarget \/ WriteTarget
  <2>1. py.pc \in Handling \cup {"invoke"}
    BY <1>1 DEF Invoke, ReadHandler, CheckTarget, OpenTarget, WriteTarget, Handling
  <2>2. PICK o \in Operations, r \in Requests :
          /\ o = Op(py.job.call) /\ r = py.job.request
          /\ Refusal(r) \in {"FAILED", "DENIED", "ESCALATED", "none"}
    BY <2>1, Mediated DEF ToolCall, Mediating, Handling
  <2>3. /\ InHand(o) <=> py.pc \in Handling
        /\ Operated(o)
    BY <2>2 DEF InHand, OperationInv
  <2>4. py.pc = "invoke" /\ ~Answered(o) => granted[o] = NoRequest
    BY <2>3 DEF Operated, Handling
  <2>5. py.pc \in Handling => /\ ~Answered(o) /\ granted[o] = r /\ (made[o] <=> py.pc = "write")
                              /\ granted[o].tool = (IF py.pc = "read" THEN "read" ELSE "create")
    BY <2>2, <2>3 DEF Operated
  <2>6. CASE Invoke
    <3>1. CASE UNCHANGED orchestration
      BY <3>1, NoEffect DEF orchestration
    <3>2. CASE Refuse(o, r)
      BY <2>2, <3>2, SettleStep DEF Refuse, Statuses
    <3>3. CASE CallHandler(o, r)
      <4>1. granted[o] = NoRequest
        BY <2>4, <2>6, <3>3 DEF Invoke, CallHandler
      <4> QED BY <3>3, <4>1, GrantStep
    <3> QED BY <2>2, <2>6, <3>1, <3>2, <3>3 DEF Invoke
  <2>7. CASE ReadHandler
    <3>1. ~Answered(o) /\ granted[o].tool = "read"
      BY <2>5, <2>7 DEF ReadHandler, Handling
    <3>2. PICK status \in Statuses : ReturnFrom(o, "read", status)
      BY <2>2, <2>7 DEF ReadHandler, Statuses
    <3> QED BY <3>1, <3>2, SettleStep DEF ReturnFrom
  <2>8. CASE CheckTarget
    <3>1. ~Answered(o)
      BY <2>5, <2>8 DEF CheckTarget, Handling
    <3>2. CASE UNCHANGED orchestration
      BY <3>2, NoEffect DEF orchestration
    <3>3. CASE ReturnFrom(o, "create", "FAILED")
      BY <3>1, <3>3, SettleStep DEF ReturnFrom, Statuses
    <3> QED BY <2>2, <2>8, <3>2, <3>3 DEF CheckTarget
  <2>9. CASE OpenTarget
    <3>1. ~Answered(o) /\ ~made[o] /\ granted[o] = r /\ r.tool = "create"
      BY <2>5, <2>9 DEF OpenTarget, Handling
    <3>2. CASE OpenExclusive(o, r.path)
      BY <3>1, <3>2, MakeStep
    <3>3. CASE ReturnFrom(o, "create", "FAILED")
      BY <3>1, <3>3, SettleStep DEF ReturnFrom, Statuses
    <3> QED BY <2>2, <2>9, <3>2, <3>3 DEF OpenTarget
  <2>10. CASE WriteTarget
    <3>1. ~Answered(o) /\ made[o] /\ granted[o].tool = "create"
      BY <2>5, <2>10 DEF WriteTarget, Handling
    <3>2. CASE ReturnFrom(o, "create", "EXECUTED")
      BY <3>1, <3>2, SettleStep DEF ReturnFrom, Statuses
    <3>3. CASE WriteRaises(o)
      BY <3>1, <3>3, SettleStep DEF WriteRaises, Statuses
    <3> QED BY <2>2, <2>10, <3>2, <3>3 DEF WriteTarget
  <2> QED BY <1>1, <2>6, <2>7, <2>8, <2>9, <2>10
<1>2. CASE (\E r \in Runs : StartRun(r)) \/ PyRead \/ SendResult \/ PyFinish
  <2>1. UNCHANGED orchestration
    BY <1>2 DEF StartRun, PyRead, ReadReady, SendTurn, ReadError, ReadEvent, ReadTerminal, ReadProposal, ReadFails,
                SendResult, PyFinish, Shutdown, ReadShutdown, AwaitExit, Respond
  <2> QED BY <2>1, NoEffect DEF orchestration
<1>3. CASE NodeStep \/ Cancel \/ UNCHANGED vars
  BY <1>3, WorkerOnly, NoEffect DEF orchestration, vars
<1>4. CASE UserStep
  <2>1. PICK p \in Paths, who \in {Nobody, User} :
          owner' = [owner EXCEPT ![p] = who] /\ UNCHANGED <<context, receipts, granted, made>>
    BY <1>4 DEF UserStep, UserEdits
  <2>2. UNCHANGED <<Settled, Asked, Permitted>>
    BY <2>1 DEF Settled, Answered, Asked, Permitted
  <2>3. Effects!UserWorks(p, who)
    BY <2>1, <2>2 DEF Effects!UserWorks, Asked
  <2> QED BY <2>3 DEF Effects!ENext
<1>5. CASE WriteBlocks \/ NodeDrains
  BY <1>5, WriteOnly, NoEffect DEF orchestration
<1> QED BY <1>1, <1>2, <1>3, <1>4, <1>5 DEF Next, PyStep, PyMediate

\* The runtime keeps the promises of GovernedEffects: whatever the agent asks and however
\* its worker and its users behave, each step makes one new file, settles one operation,
\* grants one request the policy allows, is a user's, or has no effect.
THEOREM EffectsImplemented == Spec => ImplementsEffects
<1>1. Init => Effects!EInit /\ Shapes /\ OperationInv
  BY EffectsInit, ShapesInit, OperationInit
<1>2. Shapes /\ OperationInv /\ [Next]_vars => (Shapes /\ OperationInv)'
  BY ShapesKept, OperationKept
<1>3. Shapes /\ OperationInv /\ [Next]_vars => [Effects!ENext]_Effects!effects
  BY EffectsStep
<1> QED BY <1>1, <1>2, <1>3, PTL DEF Spec, ImplementsEffects, Effects!ESpec
=============================================================================
