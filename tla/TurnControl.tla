----------------------------- MODULE TurnControl -----------------------------
(***************************************************************************)
(* The control of the turns of ONE persisted session:                      *)
(*   persistent_turn_control.py   the typed control requests,              *)
(*   provider_turn_runtime.py     the background provider thread,          *)
(*   provider_event_history.py    the projection of the provider's answer, *)
(*   memory/operational_history.py the SQLite tables they all write.       *)
(*                                                                         *)
(* Procs are runtime processes (one `lbe tui` each) that open the same     *)
(* database.  A process handles one control request at a time and runs one *)
(* daemon thread per turn it started.  Every SQL statement is a step of    *)
(* its own: append_event reads the next numbers in autocommit mode and     *)
(* inserts afterwards, so a reader's numbers may be taken when it inserts. *)
(* Its two SELECTs are one step here: a row that lands between them has    *)
(* the session number the first one returned, so the insertion fails just  *)
(* as if both numbers were stale.                                          *)
(***************************************************************************)
EXTENDS OperationalHistory, Sequences

CONSTANTS
  Procs,                 \* runtime processes sharing the database
  Providers,             \* those with a provider runtime (lbe tui --provider-config)
  CrashProne,            \* those that may be killed or quit with threads alive
  Turns,                 \* the turn identities start_turn may draw (a bound)
  NoTurn,                \* no turn
  Answers,               \* what the adapter may return: sequences of event types
  Notes,                 \* the steering methods clients use
  SupportsCancellation,  \* of the provider's transport
  MaxEvents              \* no new request once the journal has this many rows

ASSUME ConstantsAssumption ==
  /\ Providers \subseteq Procs
  /\ CrashProne \subseteq Procs
  /\ Procs \cap Turns = {}
  /\ NoTurn \notin Turns
  /\ Notes \subseteq NoteTypes
  /\ SupportsCancellation \in BOOLEAN
  /\ MaxEvents \in Nat

\* What OpenAICompatibleEventAdapter.complete can return: an error alone, or
\* a started turn that closes with at most one terminal event.
ASSUME AnswersAssumption ==
  \A a \in Answers :
    /\ a \in Seq(ModelTypes) /\ a # <<>>
    /\ \A i, j \in DOMAIN a :
         TerminalStatus(a[i]) # "none" /\ i < j => a[j] = "model.usage.updated"

VARIABLES
  turn,       \* operational_turns.status, "absent" before the row exists
  events,     \* operational_events
  ctl,        \* per process: the control request being handled
  thr,        \* per turn: its provider thread
  draft,      \* per control or provider thread: the numbers append_event read
  cancelled   \* _cancelled_turns of the process that runs the turn's thread

vars == <<turn, events, ctl, thr, draft, cancelled>>

Agents == Procs \cup Turns
NoDraft == [s |-> 0, n |-> 0]
Idle == [pc |-> "idle", turn |-> NoTurn, type |-> "none"]
NoThread(h) == [pc |-> "none", host |-> h, stage |-> "boot", todo |-> <<>>, term |-> "none"]

Init ==
  /\ turn = [t \in Turns |-> "absent"]
  /\ events = {}
  /\ ctl = [p \in Procs |-> Idle]
  /\ thr = [t \in Turns |-> NoThread(NoTurn)]
  /\ draft = [a \in Agents |-> NoDraft]
  /\ cancelled = {}

-----------------------------------------------------------------------------
(* The shared history operations *)

Started(t) == turn[t] # "absent"

\* append_event, first half: a (a process or a turn's thread) reads the numbers.
ReadSequences(a, t) ==
  draft' = [draft EXCEPT ![a] = [s |-> NextSession(events), n |-> NextOfTurn(events, t)]]

Insertable(a, t) == Unique(events, t, draft[a].s, draft[a].n)

\* append_event, second half, when the row is accepted.
Insert(a, t, type) ==
  /\ Insertable(a, t)
  /\ events' = events \cup {Row(t, type, draft[a].s, draft[a].n)}
  /\ draft' = [draft EXCEPT ![a] = NoDraft]

\* append_event, second half, when the insertion raises IntegrityError.
InsertRaises(a, t) ==
  /\ ~Insertable(a, t)
  /\ draft' = [draft EXCEPT ![a] = NoDraft]
  /\ UNCHANGED events

\* A mutant of the next definition: the UPDATE without AND status='running'.
BlindFinalize(t, st) == turn' = [turn EXCEPT ![t] = st]

\* finalize_turn where the UPDATE ... AND status='running' finds its row.
Finalize(t, st) ==
  /\ turn[t] = "running"
  /\ turn' = [turn EXCEPT ![t] = st]

Live(t) == thr[t].pc \notin {"none", "ended", "killed"}
IsRunning(p, t) == thr[t].host = p /\ Live(t)

-----------------------------------------------------------------------------
(* PersistentTurnControl.handle, in process p *)

MayRequest(p) == ctl[p].pc = "idle" /\ Cardinality(events) < MaxEvents

\* One fresh turn identity for every start that has passed its check.
FreshTurnLeft ==
  Cardinality({q \in Procs : ctl[q].pc = "create"})
    < Cardinality({t \in Turns : ~Started(t)})

\* A mutant of the next definition: a start that does not look for a running turn.
AnyStart(p) ==
  /\ MayRequest(p) /\ FreshTurnLeft
  /\ ctl' = [ctl EXCEPT ![p].pc = "create"]
  /\ UNCHANGED <<turn, events, thr, draft, cancelled>>

\* turn.start: rejected while latest_running_turn finds a running turn.
StartRequest(p) ==
  /\ MayRequest(p) /\ FreshTurnLeft
  /\ \A t \in Turns : turn[t] # "running"
  /\ ctl' = [ctl EXCEPT ![p].pc = "create"]
  /\ UNCHANGED <<turn, events, thr, draft, cancelled>>

\* start_turn inserts the row; the request's text is looked at only then.
CreateTurn(p) ==
  /\ ctl[p].pc = "create"
  /\ \E t \in Turns :
       /\ ~Started(t)
       /\ turn' = [turn EXCEPT ![t] = "running"]
       /\ ctl' = [ctl EXCEPT ![p] = [pc |-> "read", turn |-> t, type |-> "user.message"]]
  /\ UNCHANGED <<events, thr, draft, cancelled>>

\* ... and a request without text raises with the row already running.
CreateTurnWithoutText(p) ==
  /\ ctl[p].pc = "create"
  /\ \E t \in Turns : ~Started(t) /\ turn' = [turn EXCEPT ![t] = "running"]
  /\ ctl' = [ctl EXCEPT ![p] = Idle]
  /\ UNCHANGED <<events, thr, draft, cancelled>>

\* turn.steer and turn.interrupt of a turn seen running.
NoteRequest(p, t) ==
  /\ MayRequest(p) /\ turn[t] = "running"
  /\ \E type \in Notes : ctl' = [ctl EXCEPT ![p] = [pc |-> "read", turn |-> t, type |-> type]]
  /\ UNCHANGED <<turn, events, thr, draft, cancelled>>

\* turn.cancel of a turn seen running.
CancelRequest(p, t) ==
  /\ MayRequest(p) /\ turn[t] = "running"
  /\ ctl' = [ctl EXCEPT ![p] = [pc |-> "probe", turn |-> t, type |-> "turn.cancelled"]]
  /\ UNCHANGED <<turn, events, thr, draft, cancelled>>

\* A mutant of the next definition: a cancel that closes the turn before its row is appended.
ProbeThreadUnrecorded(p) ==
  /\ ctl[p].pc = "probe"
  /\ ctl' = [ctl EXCEPT ![p] = IF IsRunning(p, @.turn) THEN Idle ELSE [@ EXCEPT !.pc = "finalize"]]
  /\ UNCHANGED <<turn, events, thr, draft, cancelled>>

\* is_running asks this process's own thread map: a live thread is cancelled
\* through the transport or the request is rejected; no thread, no question.
ProbeThread(p) ==
  /\ ctl[p].pc = "probe"
  /\ ctl' = [ctl EXCEPT ![p] =
               IF ~IsRunning(p, ctl[p].turn) THEN [@ EXCEPT !.pc = "read"]
               ELSE IF SupportsCancellation THEN [@ EXCEPT !.pc = "signal"]
               ELSE Idle]
  /\ UNCHANGED <<turn, events, thr, draft, cancelled>>

\* BackgroundProviderTurnRuntime.cancel: flag the turn while its thread lives.
SignalCancel(p) ==
  /\ ctl[p].pc = "signal"
  /\ cancelled' = IF IsRunning(p, ctl[p].turn) THEN cancelled \cup {ctl[p].turn} ELSE cancelled
  /\ ctl' = [ctl EXCEPT ![p].pc = "read"]
  /\ UNCHANGED <<turn, events, thr, draft>>

ControlRead(p) ==
  /\ ctl[p].pc = "read"
  /\ ReadSequences(p, ctl[p].turn)
  /\ ctl' = [ctl EXCEPT ![p].pc = "write"]
  /\ UNCHANGED <<turn, events, thr, cancelled>>

\* What follows the accepted row: the queued row after the user's message, the
\* thread after the queued row, finalize_turn after turn.cancelled.
AfterInsert(p) ==
  LET c == ctl[p] IN
  CASE c.type = "user.message" /\ p \in Providers
         -> [c EXCEPT !.pc = "read", !.type = "runtime.provider.queued"]
    [] c.type = "turn.cancelled" -> [c EXCEPT !.pc = "finalize"]
    [] OTHER -> Idle

ControlWrite(p) ==
  /\ ctl[p].pc = "write"
  /\ Insert(p, ctl[p].turn, ctl[p].type)
  /\ ctl' = [ctl EXCEPT ![p] = AfterInsert(p)]
  /\ thr' = IF ctl[p].type = "runtime.provider.queued"
            THEN [thr EXCEPT ![ctl[p].turn] =
                    [NoThread(p) EXCEPT !.pc = "read", !.todo = <<"runtime.provider.running">>]]
            ELSE thr
  /\ UNCHANGED <<turn, cancelled>>

\* The IntegrityError leaves handle: nothing that was written is undone.
ControlWriteRaises(p) ==
  /\ ctl[p].pc = "write"
  /\ InsertRaises(p, ctl[p].turn)
  /\ ctl' = [ctl EXCEPT ![p] = Idle]
  /\ UNCHANGED <<turn, thr, cancelled>>

ControlFinalize(p) ==
  /\ ctl[p].pc = "finalize"
  /\ Finalize(ctl[p].turn, "cancelled")
  /\ ctl' = [ctl EXCEPT ![p] = Idle]
  /\ UNCHANGED <<events, thr, draft, cancelled>>

\* finalize_turn raises: the turn was closed since handle looked at it.
ControlFinalizeRaises(p) ==
  /\ ctl[p].pc = "finalize"
  /\ turn[ctl[p].turn] # "running"
  /\ ctl' = [ctl EXCEPT ![p] = Idle]
  /\ UNCHANGED <<turn, events, thr, draft, cancelled>>

-----------------------------------------------------------------------------
(* The daemon thread of turn t: BackgroundProviderTurnRuntime._run around  *)
(* NonStreamingProviderTurnRuntime.run around project_provider_events.     *)
(* Its stage is what it is appending: "boot" its own running row, "answer" *)
(* the adapter's events, "fallback" the one error row of the except block. *)

Goto(t, pc) == thr' = [thr EXCEPT ![t].pc = pc]

\* Where an exception leads: into run's except block, or out of the thread.
OnException(t) == IF thr[t].stage = "answer" THEN "except" ELSE "exit"

ThreadRead(t) ==
  /\ thr[t].pc = "read"
  /\ ReadSequences(t, t)
  /\ Goto(t, "write")
  /\ UNCHANGED <<turn, events, ctl, cancelled>>

\* One append of the loop; after the last, call the provider (boot), close the
\* turn if a terminal event was among them, or return with the turn running.
ThreadWrite(t) ==
  LET th == thr[t]
      type == Head(th.todo)
      term == IF TerminalStatus(type) # "none" THEN TerminalStatus(type) ELSE th.term
      next == IF Len(th.todo) > 1 THEN "read"
              ELSE IF th.stage = "boot" THEN "call"
              ELSE IF term # "none" THEN "close" ELSE "exit"
  IN  /\ th.pc = "write"
      /\ Insert(t, t, type)
      /\ thr' = [thr EXCEPT ![t] = [th EXCEPT !.todo = Tail(th.todo), !.term = term, !.pc = next]]
      /\ UNCHANGED <<turn, ctl, cancelled>>

ThreadWriteRaises(t) ==
  /\ thr[t].pc = "write"
  /\ InsertRaises(t, t)
  /\ Goto(t, OnException(t))
  /\ UNCHANGED <<turn, ctl, cancelled>>

\* adapter.complete returns one of its answers, whatever a cancel did to it.
ProviderAnswers(t) ==
  /\ thr[t].pc = "call"
  /\ \E a \in Answers :
       thr' = [thr EXCEPT ![t] = [@ EXCEPT !.pc = "check", !.stage = "answer", !.todo = a]]
  /\ UNCHANGED <<turn, events, ctl, draft, cancelled>>

\* ... or raises (a malformed response, a transport error that is no ProviderError).
ProviderRaises(t) ==
  /\ thr[t].pc = "call"
  /\ thr' = [thr EXCEPT ![t] = [@ EXCEPT !.pc = "except", !.stage = "answer"]]
  /\ UNCHANGED <<turn, events, ctl, draft, cancelled>>

\* A mutant of the next definition: an answer projected without asking was_cancelled.
NeverChecks(t) ==
  /\ thr[t].pc = "check"
  /\ Goto(t, "open")
  /\ UNCHANGED <<turn, events, ctl, draft, cancelled>>

\* was_cancelled: a cancelled turn's answer is dropped, if the flag is up by now.
CheckCancelled(t) ==
  /\ thr[t].pc = "check"
  /\ Goto(t, IF t \in cancelled THEN "exit" ELSE "open")
  /\ UNCHANGED <<turn, events, ctl, draft, cancelled>>

\* project_provider_events looks at the turn once, before its loop.
OpenProjection(t) ==
  /\ thr[t].pc = "open"
  /\ Goto(t, IF turn[t] = "running" THEN "read" ELSE OnException(t))
  /\ UNCHANGED <<turn, events, ctl, draft, cancelled>>

CloseTurn(t) ==
  /\ thr[t].pc = "close"
  /\ Finalize(t, thr[t].term)
  /\ Goto(t, "exit")
  /\ UNCHANGED <<events, ctl, draft, cancelled>>

CloseTurnRaises(t) ==
  /\ thr[t].pc = "close"
  /\ turn[t] # "running"
  /\ Goto(t, OnException(t))
  /\ UNCHANGED <<turn, events, ctl, draft, cancelled>>

\* A mutant of the next definition: an except block that reports nothing.
SwallowException(t) ==
  /\ thr[t].pc = "except"
  /\ Goto(t, "exit")
  /\ UNCHANGED <<turn, events, ctl, draft, cancelled>>

\* run's except block: silent for a cancelled turn, else project one error.
HandleException(t) ==
  /\ thr[t].pc = "except"
  /\ thr' = IF t \in cancelled THEN [thr EXCEPT ![t].pc = "exit"]
            ELSE [thr EXCEPT ![t] = [@ EXCEPT !.pc = "open", !.stage = "fallback",
                                              !.todo = <<"model.error">>, !.term = "none"]]
  /\ UNCHANGED <<turn, events, ctl, draft, cancelled>>

\* The finally block takes the runtime's lock, which start holds while it queues.
ThreadExit(t) ==
  /\ thr[t].pc = "exit"
  /\ ctl[thr[t].host].type # "runtime.provider.queued"
  /\ Goto(t, "ended")
  /\ UNCHANGED <<turn, events, ctl, draft, cancelled>>

-----------------------------------------------------------------------------
(* The process is killed, or the user quits it: its request and its daemon  *)
(* threads vanish with its memory; the database stays.                      *)

Hosted(p) == {t \in Turns : IsRunning(p, t)}

Crash(p) ==
  /\ p \in CrashProne
  /\ ctl[p].pc # "idle" \/ Hosted(p) # {}
  /\ ctl' = [ctl EXCEPT ![p] = Idle]
  /\ thr' = [t \in Turns |-> IF t \in Hosted(p) THEN [NoThread(p) EXCEPT !.pc = "killed"] ELSE thr[t]]
  /\ draft' = [a \in Agents |-> IF a = p \/ a \in Hosted(p) THEN NoDraft ELSE draft[a]]
  /\ cancelled' = cancelled \ Hosted(p)
  /\ UNCHANGED <<turn, events>>

-----------------------------------------------------------------------------
Request(p) ==
  \/ StartRequest(p)
  \/ \E t \in Turns : NoteRequest(p, t) \/ CancelRequest(p, t)

ControlStep(p) ==
  \/ CreateTurn(p) \/ CreateTurnWithoutText(p)
  \/ ProbeThread(p) \/ SignalCancel(p)
  \/ ControlRead(p) \/ ControlWrite(p) \/ ControlWriteRaises(p)
  \/ ControlFinalize(p) \/ ControlFinalizeRaises(p)

ThreadStep(t) ==
  \/ ThreadRead(t) \/ ThreadWrite(t) \/ ThreadWriteRaises(t)
  \/ ProviderAnswers(t) \/ ProviderRaises(t) \/ CheckCancelled(t)
  \/ OpenProjection(t) \/ CloseTurn(t) \/ CloseTurnRaises(t)
  \/ HandleException(t) \/ ThreadExit(t)

Next ==
  \/ \E p \in Procs : Request(p) \/ ControlStep(p) \/ Crash(p)
  \/ \E t \in Turns : ThreadStep(t)

Spec == Init /\ [][Next]_vars

\* Threads are scheduled and the provider call has a timeout; users owe nothing.
Fairness ==
  /\ \A p \in Procs : WF_vars(ControlStep(p))
  /\ \A t \in Turns : WF_vars(ThreadStep(t))

FairSpec == Spec /\ Fairness
-----------------------------------------------------------------------------
(* Properties *)

RequestStates ==
  [pc : {"idle", "create", "read", "write", "probe", "signal", "finalize"},
   turn : Turns \cup {NoTurn}, type : ControlTypes \cup {"none"}]
ThreadStates ==
  [pc : {"none", "read", "write", "call", "check", "open", "close", "except",
         "exit", "ended", "killed"},
   host : Procs \cup {NoTurn}, stage : {"boot", "answer", "fallback"},
   todo : Seq(EventTypes), term : FinalStatuses \cup {"none"}]

\* The shape of the state: table rows, program counters, numbers read.
TypeOK ==
  /\ turn \in [Turns -> TurnStatuses \cup {"absent"}]
  /\ events \subseteq [turn : Turns, type : EventTypes, sseq : Nat, tseq : Nat]
  /\ ctl \in [Procs -> RequestStates]
  /\ thr \in [Turns -> ThreadStates]
  /\ draft \in [Agents -> [s : Nat, n : Nat]]
  /\ cancelled \subseteq Turns

\* append_event computes its numbers outside the transaction that inserts them,
\* in several threads and processes, and yet the journal has no gap and no tie:
\* the session's rows are numbered 1..n, each turn's 1..k, in the same order.
JournalNumbered ==
  /\ {e.sseq : e \in events} = 1..Cardinality(events)
  /\ \A t \in Turns : {e.tseq : e \in RowsOf(events, t)} = 1..Cardinality(RowsOf(events, t))
  /\ \A e, f \in events : e.turn = f.turn => (e.sseq < f.sseq <=> e.tseq < f.tseq)

\* A turn reads closed only if the journal holds the row that says why, however
\* the provider thread, the cancelling clients and a crash interleave.
OutcomeGrounded ==
  \A t \in Turns : turn[t] \in FinalStatuses =>
    \/ turn[t] = "cancelled" /\ HasEvent(events, t, "turn.cancelled")
    \/ \E e \in events : e.turn = t /\ TerminalStatus(e.type) = turn[t]

\* Replaying the journal of a turn the provider closed gives the stored status:
\* its thread writes no other outcome before it or after it.
ReplayAgrees ==
  \A t \in Turns : turn[t] \in FinalStatuses \ {"cancelled"} =>
    ReplayStatus(events, t) = turn[t]

\* The detailed control implements the lifecycle a reader of the database sees.
Lifecycle == INSTANCE TurnLifecycle WITH Turns <- Turns, turn <- turn, events <- events
ImplementsLifecycle == Lifecycle!LSpec

\* With one process on the database a session never has two running turns, across
\* crashes and orphaned turns too (the check and the INSERT are two statements).
OneActiveTurn == \A t, u \in Turns : turn[t] = "running" /\ turn[u] = "running" => t = u

\* A cancel that is flagged while the provider call is out suppresses the whole
\* answer: no model row of that turn is ever written afterwards.
InFlight(t) == thr[t].pc = "call"
ModelRows(t) == {e \in RowsOf(events, t) : e.type \in ModelTypes}
SuppressedInFlight ==
  \A t \in Turns : [](InFlight(t) /\ t \in cancelled => [](ModelRows(t) = {}))

\* Where nobody else appends (one process, no steering, a transport that cannot
\* cancel), a turn whose thread was started does not stay running without it: it
\* closes, waits for a tool the provider asked for, or its process died.
AwaitsTool(t) == HasEvent(events, t, "model.turn.requires_tool")
TurnSettles ==
  \A t \in Turns :
    Live(t) ~> (turn[t] \in FinalStatuses \/ AwaitsTool(t) \/ thr[t].pc = "killed")

\* "no late provider projection after accepted cancellation"
\* (docs/acceptance/P16_CANCELLATION_CHECKPOINT.md:137): a turn stored as cancelled
\* gets no model row.
NoLateProjection ==
  [][\A e \in events' \ events : e.type \in ModelTypes => turn[e.turn] # "cancelled"]_vars
=============================================================================
