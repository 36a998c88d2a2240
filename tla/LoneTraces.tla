------------------------------- MODULE LoneTraces -------------------------------
(***************************************************************************)
(* The knowledge index with a history of what each trace could rely on:    *)
(* nothing keeps two traces of agent.py from running at once, so what a    *)
(* trace leaves complete is stated for those that were alone.              *)
(***************************************************************************)
EXTENDS WorkspaceIndex

VARIABLES
  steady,      \* history: the files nobody touched since the trace started
  missed,      \* history: those it passed over, by a failed stat or the end of a walk
  alone        \* history: no other trace was at work since the trace started

historyVars == <<disk, stamp, edits, index, runs, writer, trace, steady, missed, alone>>

Busy(t) == trace[t].pc \notin {"none", "over", "completed"}
Begins(t) == runs[t] = "none" /\ runs'[t] = "running"

HistoryInit ==
  /\ IndexInit
  /\ steady = [t \in Traces |-> {}] /\ missed = [t \in Traces |-> {}] /\ alone = [t \in Traces |-> FALSE]

UsersTouch ==
  /\ Users
  /\ steady' = [t \in Traces |-> {f \in steady[t] : disk'[f] = disk[f] /\ stamp'[f] = stamp[f]}]
  /\ UNCHANGED <<missed, alone>>

\* What a step of t leaves unvisited although it no longer stands before t.
Passed(t) == IF trace[t].pc = "look" /\ trace'[t].pc = "look" /\ trace'[t].root = trace[t].root
             THEN trace[t].left \ trace'[t].left ELSE {}

Traced(t) ==
  /\ TraceStep(t)
  /\ \/ /\ Begins(t)
        /\ steady' = [steady EXCEPT ![t] = Files] /\ missed' = [missed EXCEPT ![t] = {}]
        /\ alone' = [u \in Traces |-> IF u = t THEN \A v \in Traces \ {t} : ~Busy(v) ELSE alone[u] /\ ~Busy(u)]
     \/ /\ ~Begins(t)
        /\ missed' = [missed EXCEPT ![t] = @ \cup Passed(t)]
        /\ UNCHANGED <<steady, alone>>

HistoryNext == UsersTouch \/ \E t \in Traces : Traced(t)
HistorySpec == HistoryInit /\ [][HistoryNext]_historyVars

-----------------------------------------------------------------------------
(* Properties *)

\* A trace that ends and during which no other trace was at work has left the index complete
\* for what it could rely on: every file that was there from its start to its end, in
\* the same state, has a row with its present stamp, and with its hash unless it is too
\* large or cannot be read, but for those whose own stat failed or that a walk cut short
\* did not reach.  Resumed hashes, batches, a skipped entry and the DELETE lose no other.
AloneComplete ==
  \A t \in Traces : trace[t].pc \in {"report", "record"} /\ alone[t] =>
    \A f \in steady[t] \ missed[t] : IsFile(f) =>
      /\ f \in DOMAIN index /\ index[f].stamp = stamp[f]
      /\ disk[f].kind \notin {Huge, Locked} => index[f].hash = disk[f]
=============================================================================
