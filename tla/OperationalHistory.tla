------------------------- MODULE OperationalHistory -------------------------
(***************************************************************************)
(* The stored vocabulary of memory/operational_history.py: the statuses a  *)
(* turn row may hold, the journal rows of operational_events for ONE       *)
(* session, the numbers append_event gives them, and the status that       *)
(* replaying a turn's rows yields.                                         *)
(*                                                                         *)
(* A journal row is [turn, type, sseq, tseq]: sseq is session_sequence and *)
(* tseq is turn_sequence.  Payloads, provider identities and timestamps    *)
(* carry no control and are left out.                                      *)
(***************************************************************************)
EXTENDS Naturals, FiniteSets, FiniteSetsExt

FinalStatuses ==
  {"completed", "failed", "cancelled", "incomplete", "refused", "escalated"}
TurnStatuses == {"running"} \cup FinalStatuses

NoteTypes == {"turn.steering.received", "turn.interrupt.requested"}
ControlTypes ==
  NoteTypes \cup {"user.message", "turn.cancelled", "runtime.provider.queued"}
ModelTypes ==
  {"model.turn.started", "model.message.completed", "model.usage.updated",
   "model.turn.requires_tool", "model.turn.completed", "model.turn.incomplete",
   "model.turn.refused", "model.error"}
EventTypes == ControlTypes \cup ModelTypes \cup {"runtime.provider.running"}

\* A mutant of the next definition: a status the turn table does not know.
MisnamedStatus(type) == IF type = "model.turn.completed" THEN "complete" ELSE "none"

\* The turn status a terminal provider event stands for; "none" for the others.
TerminalStatus(type) ==
  CASE type = "model.turn.completed"  -> "completed"
    [] type = "model.turn.incomplete" -> "incomplete"
    [] type = "model.turn.refused"    -> "refused"
    [] type = "model.cancelled"       -> "cancelled"
    [] type = "model.error"           -> "failed"
    [] OTHER                          -> "none"

\* A mutant of the next definition: the error row is not replayed.
ReplayWithoutErrors(type) == IF type = "model.error" THEN "none" ELSE TerminalStatus(type)

\* The map of replay_turn_status: the same, and one type more.
ReplayMapping(type) ==
  IF type = "tool.escalated" THEN "escalated" ELSE TerminalStatus(type)

Row(t, type, s, n) == [turn |-> t, type |-> type, sseq |-> s, tseq |-> n]
RowsOf(rows, t) == {e \in rows : e.turn = t}

\* COALESCE(MAX(session_sequence),0)+1 and its turn_sequence counterpart.
NextSession(rows) == 1 + Max({0} \cup {e.sseq : e \in rows})
NextOfTurn(rows, t) == 1 + Max({0} \cup {e.tseq : e \in RowsOf(rows, t)})

\* A mutant of the next definition: the schema without its UNIQUE constraints.
NoConstraint(rows, t, s, n) == TRUE

\* The two UNIQUE constraints: may a row of turn t numbered s (session) and n (turn) be inserted?
Unique(rows, t, s, n) ==
  /\ \A e \in rows : e.sseq # s
  /\ \A e \in RowsOf(rows, t) : e.tseq # n

HasEvent(rows, t, type) == \E e \in rows : e.turn = t /\ e.type = type

\* replay_turn_status: the mapped type of the last replayable row of the
\* turn, "none" where the code raises because there is no such row.
ReplayStatus(rows, t) ==
  LET hits == {e \in RowsOf(rows, t) : ReplayMapping(e.type) # "none"}
  IN  IF hits = {} THEN "none"
      ELSE ReplayMapping((CHOOSE e \in hits : \A f \in hits : f.tseq <= e.tseq).type)
=============================================================================
