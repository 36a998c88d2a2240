---------------------------- MODULE TurnLifecycle ----------------------------
(***************************************************************************)
(* What the turn control of one session promises to a reader of the        *)
(* database, whoever writes to it and whatever crashes:                    *)
(*   - a turn row opens as running and closes at most once, for good;      *)
(*   - a turn closes only with the status that a row already in the        *)
(*     journal stands for;                                                 *)
(*   - the journal only grows, and its rows are numbered 1, 2, 3, ... in   *)
(*     the session and 1, 2, 3, ... in each turn, with no gap and no tie.  *)
(* TurnControl implements it with reads and writes that interleave.        *)
(***************************************************************************)
EXTENDS OperationalHistory

CONSTANT Turns
VARIABLES turn, events

lifecycleVars == <<turn, events>>

\* The journal row that must be present before a turn may close as st.
Grounds(rows, t, st) ==
  \/ st = "cancelled" /\ HasEvent(rows, t, "turn.cancelled")
  \/ \E e \in rows : e.turn = t /\ TerminalStatus(e.type) = st

LInit ==
  /\ turn = [t \in Turns |-> "absent"]
  /\ events = {}

Open(t) ==
  /\ turn[t] = "absent"
  /\ turn' = [turn EXCEPT ![t] = "running"]
  /\ UNCHANGED events

Record(t, type) ==
  /\ turn[t] # "absent"
  /\ events' = events \cup {Row(t, type, Cardinality(events) + 1,
                                Cardinality(RowsOf(events, t)) + 1)}
  /\ UNCHANGED turn

Close(t, st) ==
  /\ turn[t] = "running"
  /\ Grounds(events, t, st)
  /\ turn' = [turn EXCEPT ![t] = st]
  /\ UNCHANGED events

LNext ==
  \E t \in Turns :
    \/ Open(t)
    \/ \E type \in EventTypes : Record(t, type)
    \/ \E st \in FinalStatuses : Close(t, st)

LSpec == LInit /\ [][LNext]_lifecycleVars
=============================================================================
