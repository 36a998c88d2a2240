----------------------------- MODULE WorkspaceIndex -----------------------------
(***************************************************************************)
(* The knowledge index of agent.py: a trace walks the configured roots and *)
(* writes one row per file into a SQLite file in write-ahead mode; users   *)
(* edit the files meanwhile; searches read the committed rows.             *)
(*                                                                         *)
(* A trace commits its rows in batches, holds the single write lock of the *)
(* database from the first row of a batch to its commit, and at the end    *)
(* deletes the rows that carry another run.  It may be interrupted, be     *)
(* killed, or give up waiting for the lock.                                *)
(*                                                                         *)
(* Users may write any content, one that was there before included.  The   *)
(* stamp of a file stands for its size and modification time and is the    *)
(* number of the edit that wrote it: two edits that leave the same size    *)
(* and time are not modelled.                                              *)
(***************************************************************************)
EXTENDS Naturals, FiniteSets, Sequences, SequencesExt

CONSTANTS
  Traces,          \* the trace processes that are ever started
  Nobody,          \* no trace: the lock is free
  Roots,           \* the configured roots, a sequence of sets of files
  Kinds,           \* kinds of content
  Huge, Locked,    \* of them: above max_file_bytes, and not to be opened
  Editions,        \* numbers that tell the contents of one kind apart
  Writings,        \* what users write: pairs of a file and a content
  FirstDisks,      \* the workspaces to start from
  MaxEdits,        \* edits of the users (a bound)
  Checkpoint       \* checkpoint_every

Files == UNION Range(Roots)
Absent == [kind |-> "absent", edition |-> 0]
Texts == [kind : Kinds, edition : Editions]
Contents == {Absent} \cup Texts
NoHash == [kind |-> "null", edition |-> 0]

ASSUME IndexAssumption ==
  /\ Nobody \notin Traces
  /\ {"absent", "null"} \cap Kinds = {}
  /\ Roots \in Seq(SUBSET Files) /\ Roots # << >>
  /\ Writings \subseteq Files \X Texts
  /\ FirstDisks \subseteq [Files -> Contents]
  /\ MaxEdits \in Nat /\ Checkpoint \in Nat \ {0}

VARIABLES
  disk,        \* the content of each file, or Absent
  stamp,       \* size and modification time of each file
  edits,       \* number of edits so far
  index,       \* committed rows of the table files
  runs,        \* committed status of each row of the table runs
  writer,      \* who holds the write lock
  trace        \* the trace processes

indexVars == <<disk, stamp, edits, index, runs, writer, trace>>

Row(time, large, hash, run) == [stamp |-> time, large |-> large, hash |-> hash, run |-> run]
NoLook == [file |-> "none", stamp |-> 0, large |-> FALSE, hash |-> NoHash]
Asleep == [pc |-> "none", root |-> 0, left |-> {}, look |-> NoLook, seen |-> 0, batch |-> << >>]
Walking == {"look", "hash", "upsert", "end", "prune", "report", "record"}

IndexInit ==
  /\ disk \in FirstDisks
  /\ stamp = [f \in Files |-> 0]
  /\ edits = 0
  /\ index = << >>
  /\ runs = [t \in Traces |-> "none"]
  /\ writer = Nobody
  /\ trace = [t \in Traces |-> Asleep]

-----------------------------------------------------------------------------
(* The users *)

Edit(f, content) ==
  /\ edits < MaxEdits
  /\ disk' = [disk EXCEPT ![f] = content]
  /\ stamp' = [stamp EXCEPT ![f] = edits + 1]
  /\ edits' = edits + 1
  /\ UNCHANGED <<index, runs, writer, trace>>

Delete(f) ==
  /\ edits < MaxEdits /\ disk[f] # Absent
  /\ disk' = [disk EXCEPT ![f] = Absent]
  /\ edits' = edits + 1
  /\ UNCHANGED <<stamp, index, runs, writer, trace>>

Users == (\E f \in Files : Delete(f)) \/ \E w \in Writings : Edit(w[1], w[2])

-----------------------------------------------------------------------------
(* Reading files *)

IsFile(f) == disk[f] # Absent
Readable(f) == IsFile(f) /\ disk[f].kind # Locked

\* inspect_file: content and hash of one file, "missing", or a refusal.
InspectFile(f) ==
  CASE ~Readable(f) -> [got |-> "os_error", content |-> NoHash]
    [] Readable(f) /\ disk[f].kind = Huge -> [got |-> "governance_error", content |-> NoHash]
    [] OTHER -> [got |-> "content", content |-> disk[f]]

-----------------------------------------------------------------------------
(* A trace *)

Free(t) == writer \in {Nobody, t}
Put(t, rec) == trace' = [trace EXCEPT ![t] = rec]
Merge(rows, old) == [f \in DOMAIN rows \cup DOMAIN old |-> IF f \in DOMAIN rows THEN rows[f] ELSE old[f]]
Seen(t) == Merge(trace[t].batch, index)     \* the rows as t's connection reads them

\* commit: the batch and the status of the run become visible and the lock is free.
Commit(t, status) ==
  /\ index' = Seen(t)
  /\ runs' = [runs EXCEPT ![t] = status]
  /\ writer' = Nobody

Start(t) ==
  /\ trace[t].pc = "none" /\ writer = Nobody
  /\ runs' = [runs EXCEPT ![t] = "running"]
  /\ Put(t, [Asleep EXCEPT !.pc = "look", !.root = 1, !.left = Roots[1]])
  /\ UNCHANGED <<disk, stamp, edits, index, writer>>

\* The INSERT of the run waits for the lock and gives up: no run, no row.
StartFails(t) ==
  /\ trace[t].pc = "none" /\ writer # Nobody
  /\ Put(t, [Asleep EXCEPT !.pc = "over"])
  /\ UNCHANGED <<disk, stamp, edits, index, runs, writer>>

\* One entry of the walk that is no file, or one whose stat fails.
Skip(t, f) ==
  /\ trace[t].pc = "look" /\ f \in trace[t].left
  /\ Put(t, [trace[t] EXCEPT !.left = @ \ {f}])
  /\ UNCHANGED <<disk, stamp, edits, index, runs, writer>>

\* An error of the operating system ends the walk of a root as its last entry does.
WalkEnds(t) ==
  /\ trace[t].pc = "look" /\ trace[t].left # {}
  /\ Put(t, [trace[t] EXCEPT !.left = {}])
  /\ UNCHANGED <<disk, stamp, edits, index, runs, writer>>

\* The hash of the row that the connection reads, if size and time agree.
KnownHash(t, f) ==
  IF disk[f].kind # Huge /\ f \in DOMAIN Seen(t) /\ Seen(t)[f].stamp = stamp[f]
  THEN Seen(t)[f].hash ELSE NoHash

\* stat and the lookup; without a known hash the content is read in a later step.
Look(t, f) ==
  /\ trace[t].pc = "look" /\ f \in trace[t].left /\ IsFile(f)
  /\ Put(t, [trace[t] EXCEPT
               !.pc = IF disk[f].kind # Huge /\ KnownHash(t, f) = NoHash THEN "hash" ELSE "upsert",
               !.left = @ \ {f}, !.seen = @ + 1,
               !.look = [file |-> f, stamp |-> stamp[f], large |-> disk[f].kind = Huge,
                         hash |-> KnownHash(t, f)]])
  /\ UNCHANGED <<disk, stamp, edits, index, runs, writer>>

\* sha256_file, or unreadable.
Hash(t) ==
  /\ trace[t].pc = "hash"
  /\ Put(t, [trace[t] EXCEPT !.pc = "upsert",
               !.look.hash = IF Readable(trace[t].look.file) THEN disk[trace[t].look.file] ELSE NoHash])
  /\ UNCHANGED <<disk, stamp, edits, index, runs, writer>>

\* A mutant of the next definition: the stamp is taken when the row is written.
StampNow(look) == IF IsFile(look.file) THEN stamp[look.file] ELSE look.stamp

StampOf(look) == look.stamp

\* The row is written; every checkpoint_every files the batch is committed.
Upsert(t) ==
  LET look == trace[t].look
      row == [f \in {look.file} |-> Row(StampOf(look), look.large, look.hash, t)]
      rows == Merge(row, trace[t].batch)
      full == trace[t].seen % Checkpoint = 0
  IN /\ trace[t].pc = "upsert" /\ Free(t)
     /\ Put(t, [trace[t] EXCEPT !.pc = "look", !.look = NoLook, !.batch = IF full THEN << >> ELSE rows])
     /\ IF full
        THEN index' = Merge(rows, index) /\ runs' = [runs EXCEPT ![t] = "checkpoint_saved"] /\ writer' = Nobody
        ELSE writer' = t /\ UNCHANGED <<index, runs>>
     /\ UNCHANGED <<disk, stamp, edits>>

RootDone(t) ==
  /\ trace[t].pc = "look" /\ trace[t].left = {} /\ Free(t)
  /\ Commit(t, "root_completed")
  /\ LET next == trace[t].root + 1
     IN Put(t, IF next <= Len(Roots)
               THEN [trace[t] EXCEPT !.root = next, !.left = Roots[next], !.batch = << >>]
               ELSE [trace[t] EXCEPT !.pc = "prune", !.batch = << >>])
  /\ UNCHANGED <<disk, stamp, edits>>

\* A mutant of the next definition: the rows of this run are deleted.
OthersRows(t) == {f \in DOMAIN index : index[f].run # t}

\* The rows the DELETE leaves: those of this run.
Kept(t) == {f \in DOMAIN index : index[f].run = t}

Prune(t) ==
  /\ trace[t].pc = "prune" /\ Free(t)
  /\ index' = Restrict(index, Kept(t))
  /\ Put(t, [trace[t] EXCEPT !.pc = "report"])
  /\ UNCHANGED <<disk, stamp, edits, runs, writer>>

\* The totals and the summary file.
Report(t) ==
  /\ trace[t].pc = "report"
  /\ Put(t, [trace[t] EXCEPT !.pc = "record"])
  /\ UNCHANGED <<disk, stamp, edits, index, runs, writer>>

\* The final update of the run is not committed: close rolls it back.
Record(t) ==
  /\ trace[t].pc = "record" /\ Free(t)
  /\ Put(t, [Asleep EXCEPT !.pc = "completed"])
  /\ UNCHANGED <<disk, stamp, edits, index, runs, writer>>

\* A statement gives up waiting for the lock: the except of the trace tries to
\* record the failure, which may have to give up as well.
GiveUp(t) ==
  /\ \/ trace[t].pc \in {"upsert", "prune", "record"}
     \/ trace[t].pc = "look" /\ trace[t].left = {}
  /\ ~Free(t)
  /\ Put(t, [trace[t] EXCEPT !.pc = "failing", !.look = NoLook])
  /\ UNCHANGED <<disk, stamp, edits, index, runs, writer>>

\* KeyboardInterrupt or another exception at any point of the walk.
Raise(t) ==
  /\ trace[t].pc \in Walking
  /\ \E pc \in {"interrupting", "failing"} : Put(t, [trace[t] EXCEPT !.pc = pc, !.look = NoLook])
  /\ UNCHANGED <<disk, stamp, edits, index, runs, writer>>

\* Both handlers commit what the batch holds.
Handle(t) ==
  /\ trace[t].pc \in {"interrupting", "failing"}
  /\ \/ Free(t) /\ Commit(t, IF trace[t].pc = "failing" THEN "failed" ELSE "interrupted")
     \/ ~Free(t) /\ UNCHANGED <<index, runs, writer>>
  /\ Put(t, [Asleep EXCEPT !.pc = "over"])
  /\ UNCHANGED <<disk, stamp, edits>>

\* The end of the process: what is not committed is lost.
Kill(t) ==
  /\ trace[t].pc \notin {"none", "over", "completed"}
  /\ writer' = IF writer = t THEN Nobody ELSE writer
  /\ Put(t, [Asleep EXCEPT !.pc = "over"])
  /\ UNCHANGED <<disk, stamp, edits, index, runs>>

TraceStep(t) ==
  \/ Start(t) \/ StartFails(t)
  \/ \E f \in Files : Skip(t, f) \/ Look(t, f)
  \/ WalkEnds(t) \/ Hash(t) \/ Upsert(t) \/ RootDone(t) \/ Prune(t) \/ Report(t) \/ Record(t)
  \/ GiveUp(t) \/ Raise(t) \/ Handle(t) \/ Kill(t)

TraceNext == \E t \in Traces : TraceStep(t)

IndexNext == Users \/ TraceNext
IndexSpec == IndexInit /\ [][IndexNext]_indexVars

-----------------------------------------------------------------------------
(* Properties *)

Hashes == {NoHash} \cup Contents
Rows == [stamp : 0..MaxEdits, large : BOOLEAN, hash : Hashes, run : Traces]
Statuses == {"none", "running", "checkpoint_saved", "root_completed", "interrupted", "failed"}
Positions == Walking \cup {"none", "interrupting", "failing", "over", "completed"}

\* Types of the state; the lock is held exactly by the trace with an open batch, and
\* no status of a run says that it was completed.
IndexTypeOK ==
  /\ disk \in [Files -> Contents] /\ stamp \in [Files -> 0..MaxEdits] /\ edits \in 0..MaxEdits
  /\ DOMAIN index \subseteq Files /\ \A f \in DOMAIN index : index[f] \in Rows
  /\ runs \in [Traces -> Statuses]
  /\ writer \in Traces \cup {Nobody}
  /\ \A t \in Traces :
       /\ trace[t].pc \in Positions
       /\ DOMAIN trace[t].batch \subseteq Files
       /\ \A f \in DOMAIN trace[t].batch : trace[t].batch[f] \in Rows
       /\ writer = t <=> trace[t].batch # << >>

\* A committed row that matches the stamp of its file carries the hash of the file's
\* content or none: later traces and searches that trust the stamp are right, whatever
\* was edited between the stat, the hashing and the writing of the row, and however
\* the trace ended.
IndexTruthful ==
  \A f \in DOMAIN index :
    IsFile(f) /\ index[f].stamp = stamp[f] => index[f].hash \in {NoHash, disk[f]}
=============================================================================
