------------------------- MODULE GuardEvaluationProofs -------------------------
(***************************************************************************)
(* Theorems about the knowledge index and the guard inspections that rest  *)
(* on it, for any workspace, any number of traces and of edits.            *)
(***************************************************************************)
EXTENDS SliceHistory, LoneTraces, FiniteSetTheorems, TLAPS, WellFoundedInduction

-----------------------------------------------------------------------------
(* Tables of rows *)

\* The tables files and the batches: rows for some of the files.
Tables == UNION {[D -> Rows] : D \in SUBSET Files}

\* The empty table is one.
LEMMA EmptyTable == << >> \in Tables /\ DOMAIN << >> = {}
<1>1. DOMAIN << >> = {}
  OBVIOUS
<1>2. << >> \in [{} -> Rows]
  BY <1>1
<1> QED BY <1>1, <1>2 DEF Tables

\* Rows for some files make a table,
LEMMA TableOf ==
  ASSUME NEW D \in SUBSET Files, NEW T \in [D -> Rows]
  PROVE  T \in Tables
BY DEF Tables

\* and that is all a table has.
LEMMA TableHas ==
  ASSUME NEW T \in Tables
  PROVE  DOMAIN T \in SUBSET Files /\ \A f \in DOMAIN T : T[f] \in Rows
BY DEF Tables

\* What Merge and Restrict make of tables.
LEMMA Merged ==
  ASSUME NEW a \in Tables, NEW b \in Tables
  PROVE  /\ Merge(a, b) \in Tables
         /\ DOMAIN Merge(a, b) = DOMAIN a \cup DOMAIN b
         /\ \A f \in DOMAIN a \cup DOMAIN b : Merge(a, b)[f] = IF f \in DOMAIN a THEN a[f] ELSE b[f]
<1>1. /\ DOMAIN Merge(a, b) = DOMAIN a \cup DOMAIN b
      /\ \A f \in DOMAIN a \cup DOMAIN b : Merge(a, b)[f] = IF f \in DOMAIN a THEN a[f] ELSE b[f]
  BY DEF Merge
<1>2. DOMAIN a \cup DOMAIN b \in SUBSET Files
  BY TableHas
<1>3. Merge(a, b) \in [DOMAIN a \cup DOMAIN b -> Rows]
  BY TableHas DEF Merge
<1> QED BY <1>1, <1>2, <1>3, TableOf

\* Part of a table is a table with the same rows.
LEMMA Restricted ==
  ASSUME NEW T \in Tables, NEW S \in SUBSET DOMAIN T
  PROVE  /\ Restrict(T, S) \in Tables /\ DOMAIN Restrict(T, S) = S
         /\ \A f \in S : Restrict(T, S)[f] = T[f]
<1>1. S \in SUBSET Files /\ Restrict(T, S) \in [S -> Rows]
  BY TableHas DEF Restrict
<1> QED BY <1>1, TableOf DEF Restrict

-----------------------------------------------------------------------------
(* The types of the index *)

Looks == [file : Files \cup {"none"}, stamp : 0..MaxEdits, large : BOOLEAN, hash : Hashes]
Tracers == [pc : Positions, root : Nat, left : SUBSET Files, look : Looks, seen : Nat, batch : Tables]

\* A trace between batches has none, and one at a file has a look at it.
TraceShape(t) ==
  /\ trace[t].pc = "look" => trace[t].root \in 1..Len(Roots)
  /\ trace[t].pc \in {"hash", "upsert"} => trace[t].root \in 1..Len(Roots) /\ trace[t].look.file \in Files
  /\ trace[t].pc \notin {"look", "hash", "upsert", "interrupting", "failing"} => trace[t].batch = << >>
  /\ writer = t <=> trace[t].batch # << >>

IndexTyped ==
  /\ disk \in [Files -> Contents] /\ stamp \in [Files -> 0..MaxEdits] /\ edits \in 0..MaxEdits
  /\ index \in Tables
  /\ runs \in [Traces -> Statuses]
  /\ writer \in Traces \cup {Nobody}
  /\ trace \in [Traces -> Tracers]
  /\ \A t \in Traces : TraceShape(t)

\* What stands in a row, or in a look on its way to one, is not of a later edit than the
\* last, and has the hash of the content that its stamp stands for.
Faithful(f, row) ==
  /\ row.stamp <= edits
  /\ IsFile(f) /\ row.stamp = stamp[f] => row.hash \in {NoHash, disk[f]}

TruthInv ==
  /\ \A f \in Files : stamp[f] <= edits
  /\ \A f \in DOMAIN index : Faithful(f, index[f])
  /\ \A t \in Traces :
       /\ \A f \in DOMAIN trace[t].batch : Faithful(f, trace[t].batch[f])
       /\ trace[t].pc \in {"hash", "upsert"} => Faithful(trace[t].look.file, trace[t].look)

\* A trace that is asleep has its type, and so has one that is put to work.
LEMMA AsleepTyped ==
  /\ NoLook \in Looks /\ Asleep \in Tracers
  /\ \A pc \in Positions, root \in Nat, left \in SUBSET Files :
       /\ [Asleep EXCEPT !.pc = pc, !.root = root, !.left = left] \in Tracers
       /\ [Asleep EXCEPT !.pc = pc] \in Tracers
<1>1. NoLook \in Looks
  BY IndexAssumption DEF NoLook, Looks, Hashes
<1>2. "none" \in Positions /\ << >> \in Tables
  BY EmptyTable DEF Positions
<1> QED BY <1>1, <1>2 DEF Asleep, Tracers

\* A step of one trace puts one record, and takes the lock only when it is free.
LEMMA PutShape ==
  ASSUME IndexTyped, NEW t \in Traces, NEW rec \in Tracers, Put(t, rec),
         \/ writer' = writer
         \/ Free(t) /\ writer' \in {t, Nobody}
         \/ writer = t /\ writer' = Nobody
  PROVE  /\ trace' \in [Traces -> Tracers] /\ trace'[t] = rec
         /\ \A u \in Traces \ {t} : trace'[u] = trace[u]
         /\ \A u \in Traces \ {t} : TraceShape(u)'
         /\ writer' \in Traces \cup {Nobody}
<1>1. /\ trace' \in [Traces -> Tracers] /\ trace'[t] = rec
      /\ \A u \in Traces \ {t} : trace'[u] = trace[u]
  BY DEF Put, IndexTyped
<1>2. \A u \in Traces \ {t} : writer' = u <=> writer = u
  BY IndexAssumption DEF Free
<1>3. \A u \in Traces \ {t} : TraceShape(u)'
  BY <1>1, <1>2 DEF TraceShape, IndexTyped
<1>4. writer' \in Traces \cup {Nobody}
  BY DEF IndexTyped
<1> QED BY <1>1, <1>3, <1>4

\* The stamp and the content of a file have their types.
LEMMA StampTyped ==
  ASSUME IndexTyped, NEW f \in Files
  PROVE  stamp[f] \in 0..MaxEdits /\ disk[f] \in Hashes /\ NoHash \in Hashes
BY DEF IndexTyped, Hashes

\* What a connection reads is a table: its own rows before the committed ones.
LEMMA SeenTable ==
  ASSUME IndexTyped, NEW t \in Traces
  PROVE  /\ Seen(t) \in Tables /\ DOMAIN Seen(t) = DOMAIN trace[t].batch \cup DOMAIN index
         /\ \A f \in DOMAIN Seen(t) :
              Seen(t)[f] = IF f \in DOMAIN trace[t].batch THEN trace[t].batch[f] ELSE index[f]
<1>1. trace[t].batch \in Tables /\ index \in Tables
  BY DEF IndexTyped, Tracers
<1>2. PICK a \in Tables, b \in Tables : a = trace[t].batch /\ b = index
  BY <1>1
<1>3. Seen(t) = Merge(a, b)
  BY <1>2 DEF Seen
<1>4. /\ Merge(a, b) \in Tables
      /\ DOMAIN Merge(a, b) = DOMAIN a \cup DOMAIN b
      /\ \A f \in DOMAIN a \cup DOMAIN b : Merge(a, b)[f] = IF f \in DOMAIN a THEN a[f] ELSE b[f]
  BY Merged
<1> QED BY <1>2, <1>3, <1>4

\* The hash that a trace knows of a file is one.
LEMMA KnownTyped ==
  ASSUME IndexTyped, NEW t \in Traces, NEW f \in Files
  PROVE  KnownHash(t, f) \in Hashes
<1>1. NoHash \in Hashes
  BY DEF Hashes
<1>2. ASSUME f \in DOMAIN Seen(t) PROVE Seen(t)[f].hash \in Hashes
  <2>1. PICK rows \in Tables : rows = Seen(t)
    BY SeenTable
  <2>2. rows[f] \in Rows
    BY <1>2, <2>1, TableHas
  <2> QED BY <2>1, <2>2 DEF Rows
<1> QED BY <1>1, <1>2 DEF KnownHash

\* The batch with the row that a trace writes, and the index with that batch.
Written(t) ==
  Merge([f \in {trace[t].look.file} |-> Row(StampOf(trace[t].look), trace[t].look.large, trace[t].look.hash, t)],
        trace[t].batch)

\* The batch and the index after an upsert: the row in hand before the older ones.
LEMMA UpsertTable ==
  ASSUME IndexTyped, NEW t \in Traces, trace[t].look.file \in Files, NEW rows, rows = Written(t)
  PROVE  /\ rows \in Tables /\ trace[t].look.file \in DOMAIN rows /\ rows # << >>
         /\ DOMAIN rows = {trace[t].look.file} \cup DOMAIN trace[t].batch
         /\ rows[trace[t].look.file] = Row(trace[t].look.stamp, trace[t].look.large, trace[t].look.hash, t)
         /\ \A f \in DOMAIN rows : f # trace[t].look.file => rows[f] = trace[t].batch[f]
         /\ Merge(rows, index) \in Tables
         /\ DOMAIN Merge(rows, index) = DOMAIN rows \cup DOMAIN index
         /\ \A f \in DOMAIN rows \cup DOMAIN index :
              Merge(rows, index)[f] = IF f \in DOMAIN rows THEN rows[f] ELSE index[f]
<1>1. PICK batch \in Tables, old \in Tables, look \in Looks : batch = trace[t].batch /\ old = index /\ look = trace[t].look
  BY DEF IndexTyped, Tracers
<1>2. Row(look.stamp, look.large, look.hash, t) \in Rows
  BY DEF Row, Rows, Looks
<1>3. PICK file \in Files, r \in Rows :
        file = trace[t].look.file /\ r = Row(look.stamp, look.large, look.hash, t)
  BY <1>1, <1>2
<1>4. PICK row \in Tables : DOMAIN row = {file} /\ row = [f \in {file} |-> r] /\ row[file] = r
  <2>1. [f \in {file} |-> r] \in [{file} -> Rows] /\ {file} \in SUBSET Files
    OBVIOUS
  <2>2. [f \in {file} |-> r] \in Tables
    BY <2>1, TableOf
  <2> QED BY <2>2
<1>5. rows = Merge(row, batch)
  BY <1>1, <1>3, <1>4 DEF StampOf, Written
<1>6. /\ Merge(row, batch) \in Tables /\ DOMAIN Merge(row, batch) = DOMAIN row \cup DOMAIN batch
      /\ \A f \in DOMAIN row \cup DOMAIN batch : Merge(row, batch)[f] = IF f \in DOMAIN row THEN row[f] ELSE batch[f]
  BY Merged
<1>7. rows \in Tables /\ file \in DOMAIN rows /\ DOMAIN rows = {file} \cup DOMAIN batch
  BY <1>4, <1>5, <1>6
<1>8. \A f \in DOMAIN rows : rows[f] = IF f = file THEN r ELSE batch[f]
  BY <1>4, <1>5, <1>6
<1>9. /\ Merge(rows, old) \in Tables /\ DOMAIN Merge(rows, old) = DOMAIN rows \cup DOMAIN old
      /\ \A f \in DOMAIN rows \cup DOMAIN old : Merge(rows, old)[f] = IF f \in DOMAIN rows THEN rows[f] ELSE old[f]
  <2>1. rows \in Tables
    BY <1>7
  <2> QED BY <2>1, Merged
<1>10. rows # << >>
  BY <1>7, EmptyTable
<1> QED BY <1>1, <1>3, <1>7, <1>8, <1>9, <1>10

\* The other rows are those of the batch.
LEMMA BatchRow ==
  ASSUME NEW t \in Traces, NEW f \in DOMAIN Written(t), f # trace[t].look.file
  PROVE  Written(t)[f] = trace[t].batch[f]
BY DEF Written, Merge

\* The users keep the types of the index,
LEMMA TypedUsers ==
  ASSUME IndexTyped, Users
  PROVE  IndexTyped'
<1>1. /\ disk' \in [Files -> Contents] /\ stamp' \in [Files -> 0..MaxEdits] /\ edits' \in 0..MaxEdits
      /\ UNCHANGED <<index, runs, writer, trace>>
  <2>1. ASSUME NEW f \in Files, Delete(f)
        PROVE  disk' \in [Files -> Contents] /\ stamp' \in [Files -> 0..MaxEdits] /\ edits' \in 0..MaxEdits
    BY <2>1, IndexAssumption DEF Delete, IndexTyped, Contents
  <2>2. ASSUME NEW w \in Writings, Edit(w[1], w[2])
        PROVE  disk' \in [Files -> Contents] /\ stamp' \in [Files -> 0..MaxEdits] /\ edits' \in 0..MaxEdits
    <3>1. w[1] \in Files /\ w[2] \in Contents
      BY IndexAssumption DEF Contents
    <3>2. edits' \in 0..MaxEdits /\ edits' = edits + 1
      BY <2>2, IndexAssumption DEF Edit, IndexTyped
    <3> QED BY <2>2, <3>1, <3>2 DEF Edit, IndexTyped
  <2> QED BY <2>1, <2>2 DEF Users, Delete, Edit
<1> QED BY <1>1 DEF IndexTyped, TraceShape

\* every step of a trace does,
LEMMA TypedTrace ==
  ASSUME IndexTyped, NEW t \in Traces, TraceStep(t)
  PROVE  IndexTyped'
<1>1. /\ trace[t] \in Tracers /\ trace[t].batch \in Tables /\ index \in Tables /\ TraceShape(t)
      /\ disk \in [Files -> Contents] /\ edits \in 0..MaxEdits /\ runs \in [Traces -> Statuses]
  BY DEF IndexTyped, Tracers
<1>2. ASSUME NEW rec \in Tracers, Put(t, rec),
             \/ writer' = writer
             \/ Free(t) /\ writer' \in {t, Nobody}
             \/ writer = t /\ writer' = Nobody,
             index' \in Tables, runs' \in [Traces -> Statuses], UNCHANGED <<disk, stamp, edits>>,
             rec.pc = "look" => rec.root \in 1..Len(Roots),
             rec.pc \in {"hash", "upsert"} => rec.root \in 1..Len(Roots) /\ rec.look.file \in Files,
             rec.pc \notin {"look", "hash", "upsert", "interrupting", "failing"} => rec.batch = << >>,
             writer' = t <=> rec.batch # << >>
      PROVE  IndexTyped'
  <2>1. /\ trace' \in [Traces -> Tracers] /\ trace'[t] = rec /\ writer' \in Traces \cup {Nobody}
        /\ \A u \in Traces \ {t} : TraceShape(u)'
    BY <1>2, PutShape
  <2>2. TraceShape(t)'
    BY <1>2, <2>1 DEF TraceShape
  <2> QED BY <1>1, <1>2, <2>1, <2>2 DEF IndexTyped
<1>3. /\ NoLook \in Looks /\ << >> \in Tables
      /\ \A pc \in Positions : [Asleep EXCEPT !.pc = pc] \in Tracers
  BY AsleepTyped, EmptyTable
\* Steps that leave the batch, the lock and the tables alone.
<1>4. ASSUME NEW pc \in Positions, NEW left \in SUBSET Files, NEW seen \in Nat, NEW look \in Looks,
             Put(t, [trace[t] EXCEPT !.pc = pc, !.left = left, !.seen = seen, !.look = look]),
             UNCHANGED <<disk, stamp, edits, index, runs, writer>>,
             pc = "look" => trace[t].root \in 1..Len(Roots),
             pc \in {"hash", "upsert"} => trace[t].root \in 1..Len(Roots) /\ look.file \in Files,
             pc \notin {"look", "hash", "upsert", "interrupting", "failing"} => trace[t].batch = << >>
      PROVE  IndexTyped'
  <2>1. PICK rec \in Tracers : rec = [trace[t] EXCEPT !.pc = pc, !.left = left, !.seen = seen, !.look = look]
    BY <1>1 DEF Tracers
  <2>2. rec.pc = pc /\ rec.root = trace[t].root /\ rec.look = look /\ rec.batch = trace[t].batch
    BY <1>1, <2>1 DEF Tracers
  <2>3. writer' = t <=> rec.batch # << >>
    BY <1>1, <1>4, <2>2 DEF TraceShape
  <2> QED BY <1>1, <1>2, <1>4, <2>1, <2>2, <2>3
<1>5. CASE Start(t)
  <2>1. Roots[1] \in SUBSET Files /\ 1 \in 1..Len(Roots)
    BY IndexAssumption
  <2>2. PICK rec \in Tracers : rec = [Asleep EXCEPT !.pc = "look", !.root = 1, !.left = Roots[1]]
    BY <2>1, AsleepTyped DEF Positions, Walking
  <2>3. rec.pc = "look" /\ rec.root = 1 /\ rec.batch = << >>
    BY <2>2 DEF Asleep
  <2>4. writer' = writer /\ writer # t
    BY <1>5, IndexAssumption DEF Start
  <2>5. runs' \in [Traces -> Statuses]
    BY <1>1, <1>5 DEF Start, Statuses
  <2> QED BY <1>1, <1>2, <1>5, <2>1, <2>2, <2>3, <2>4, <2>5 DEF Start
\* A trace that ends keeps nothing.
<1>6. ASSUME NEW pc \in {"over", "completed"}, Put(t, [Asleep EXCEPT !.pc = pc]), UNCHANGED <<disk, stamp, edits>>,
             writer' # t, index' \in Tables, runs' \in [Traces -> Statuses],
             writer' = writer \/ (writer \in {t, Nobody} /\ writer' = Nobody)
      PROVE  IndexTyped'
  <2>1. PICK rec \in Tracers : rec = [Asleep EXCEPT !.pc = pc]
    BY <1>3 DEF Positions
  <2>2. rec.pc = pc /\ rec.batch = << >>
    BY <2>1 DEF Asleep
  <2> QED BY <1>2, <1>6, <2>1, <2>2 DEF Free
<1>7. CASE StartFails(t)
  BY <1>1, <1>6, <1>7 DEF StartFails, TraceShape
<1>8. ASSUME NEW f \in Files, Skip(t, f) PROVE IndexTyped'
  <2>1. Put(t, [trace[t] EXCEPT !.pc = "look", !.left = @ \ {f}, !.seen = trace[t].seen, !.look = trace[t].look])
    BY <1>1, <1>8 DEF Skip, Put, Tracers
  <2> QED BY <1>1, <1>4, <1>8, <2>1 DEF Skip, Positions, Walking, Tracers, TraceShape
<1>22. CASE WalkEnds(t)
  <2>1. Put(t, [trace[t] EXCEPT !.pc = "look", !.left = {}, !.seen = trace[t].seen, !.look = trace[t].look])
    BY <1>1, <1>22 DEF WalkEnds, Put, Tracers
  <2> QED BY <1>1, <1>4, <1>22, <2>1 DEF WalkEnds, Positions, Walking, Tracers, TraceShape
<1>9. ASSUME NEW f \in Files, Look(t, f) PROVE IndexTyped'
  <2>1. PICK look \in Looks : look = [file |-> f, stamp |-> stamp[f], large |-> disk[f].kind = Huge,
                                      hash |-> KnownHash(t, f)]
    <3>1. PICK hash \in Hashes : hash = KnownHash(t, f)
      BY KnownTyped
    <3>2. PICK time \in 0..MaxEdits : time = stamp[f]
      BY StampTyped
    <3>3. (disk[f].kind = Huge) \in BOOLEAN
      OBVIOUS
    <3>4. [file |-> f, stamp |-> time, large |-> disk[f].kind = Huge, hash |-> hash] \in Looks
      BY <3>3 DEF Looks
    <3> QED BY <3>1, <3>2, <3>4
  <2>2. PICK pc \in {"hash", "upsert"} :
          pc = IF disk[f].kind # Huge /\ KnownHash(t, f) = NoHash THEN "hash" ELSE "upsert"
    OBVIOUS
  <2>3. Put(t, [trace[t] EXCEPT !.pc = pc, !.left = @ \ {f}, !.seen = @ + 1, !.look = look])
    BY <1>9, <2>1, <2>2 DEF Look
  <2>4. pc \in Positions /\ trace[t].left \ {f} \in SUBSET Files /\ trace[t].seen + 1 \in Nat /\ look.file \in Files
    BY <1>1, <2>1, <2>2 DEF Positions, Walking, Tracers
  <2>5. trace[t].root \in 1..Len(Roots) /\ UNCHANGED <<disk, stamp, edits, index, runs, writer>>
    BY <1>1, <1>9 DEF Look, TraceShape
  <2> QED BY <1>4, <2>2, <2>3, <2>4, <2>5
<1>10. CASE Hash(t)
  <2>1. trace[t].look.file \in Files
    BY <1>1, <1>10 DEF Hash, TraceShape
  <2>2. PICK hash \in Hashes : hash = IF Readable(trace[t].look.file) THEN disk[trace[t].look.file] ELSE NoHash
    BY <2>1, StampTyped
  <2>3. PICK old \in Looks : old = trace[t].look
    BY <1>1 DEF Tracers
  <2>4. PICK look \in Looks : look = [old EXCEPT !.hash = hash] /\ look.file = old.file
    <3>1. [old EXCEPT !.hash = hash] \in Looks /\ [old EXCEPT !.hash = hash].file = old.file
      BY DEF Looks
    <3> QED BY <3>1
  <2>5. Put(t, [trace[t] EXCEPT !.pc = "upsert", !.look.hash = hash])
    BY <1>10, <2>2 DEF Hash
  <2>6. [trace[t] EXCEPT !.pc = "upsert", !.look.hash = hash]
        = [trace[t] EXCEPT !.pc = "upsert", !.left = trace[t].left, !.seen = trace[t].seen, !.look = look]
    <3>1. [old EXCEPT !.hash = hash] = look
      BY <2>4
    <3>2. trace[t].look = old
      BY <2>3
    <3>3. PICK tr \in Tracers : tr = trace[t]
      BY <1>1
    <3>4. [tr EXCEPT !.pc = "upsert", !.look.hash = hash]
          = [tr EXCEPT !.pc = "upsert", !.left = tr.left, !.seen = tr.seen, !.look = look]
      <4>1. [tr EXCEPT !.pc = "upsert", !.look.hash = hash] = [tr EXCEPT !.pc = "upsert", !.look = [old EXCEPT !.hash = hash]]
        BY <3>2, <3>3 DEF Tracers
      <4>2. [tr EXCEPT !.pc = "upsert", !.look = look]
            = [tr EXCEPT !.pc = "upsert", !.left = tr.left, !.seen = tr.seen, !.look = look]
        BY DEF Tracers
      <4> QED BY <3>1, <4>1, <4>2
    <3> QED BY <3>3, <3>4
  <2>7. trace[t].left \in SUBSET Files /\ trace[t].seen \in Nat /\ "upsert" \in Positions
        /\ UNCHANGED <<disk, stamp, edits, index, runs, writer>>
    BY <1>1, <1>10 DEF Hash, Positions, Walking, Tracers
  <2>8. trace[t].root \in 1..Len(Roots) /\ look.file \in Files
    BY <1>1, <1>10, <2>1, <2>3, <2>4 DEF Hash, TraceShape
  <2>9. PICK pc \in Positions, left \in SUBSET Files, seen \in Nat :
          pc = "upsert" /\ left = trace[t].left /\ seen = trace[t].seen
    BY <2>7
  <2>10. Put(t, [trace[t] EXCEPT !.pc = pc, !.left = left, !.seen = seen, !.look = look])
    BY <2>5, <2>6, <2>9
  <2>11. pc \notin {"look", "interrupting", "failing"} /\ pc \in {"hash", "upsert"}
    BY <2>9
  <2> QED BY <1>4, <2>7, <2>8, <2>10, <2>11
<1>11. CASE Upsert(t)
  <2>1. PICK rows \in Tables : rows = Written(t) /\ rows # << >> /\ Merge(rows, index) \in Tables
    <3>1. trace[t].look.file \in Files
      BY <1>1, <1>11 DEF Upsert, TraceShape
    <3> QED BY <3>1, UpsertTable
  <2>2. trace[t].root \in 1..Len(Roots) /\ UNCHANGED <<disk, stamp, edits>> /\ Free(t)
    BY <1>1, <1>11 DEF Upsert, TraceShape
  <2>3. "look" \in Positions
    BY DEF Positions, Walking
  <2>4. CASE trace[t].seen % Checkpoint = 0
    <3>1. PICK rec \in Tracers : rec = [trace[t] EXCEPT !.pc = "look", !.look = NoLook, !.batch = << >>]
      BY <1>1, <1>3, <2>3 DEF Tracers
    <3>2. rec.pc = "look" /\ rec.root = trace[t].root /\ rec.batch = << >>
      BY <1>1, <3>1 DEF Tracers
    <3>3. /\ Put(t, rec) /\ index' = Merge(rows, index) /\ runs' = [runs EXCEPT ![t] = "checkpoint_saved"]
          /\ writer' = Nobody
      BY <1>11, <2>1, <2>4, <3>1 DEF Upsert, Written
    <3>4. runs' \in [Traces -> Statuses] /\ Nobody # t
      BY <1>1, <3>3, IndexAssumption DEF Statuses
    <3> QED BY <1>2, <2>1, <2>2, <3>2, <3>3, <3>4
  <2>5. CASE trace[t].seen % Checkpoint # 0
    <3>1. PICK rec \in Tracers : rec = [trace[t] EXCEPT !.pc = "look", !.look = NoLook, !.batch = rows]
      BY <1>1, <1>3, <2>3 DEF Tracers
    <3>2. rec.pc = "look" /\ rec.root = trace[t].root /\ rec.batch = rows
      BY <1>1, <3>1 DEF Tracers
    <3>3. Put(t, rec) /\ writer' = t /\ UNCHANGED <<index, runs>>
      BY <1>11, <2>1, <2>5, <3>1 DEF Upsert, Written
    <3> QED BY <1>1, <1>2, <2>1, <2>2, <3>2, <3>3
  <2> QED BY <2>4, <2>5
<1>12. CASE RootDone(t)
  <2>1. /\ Free(t) /\ index' = Seen(t) /\ runs' = [runs EXCEPT ![t] = "root_completed"] /\ writer' = Nobody
        /\ UNCHANGED <<disk, stamp, edits>> /\ trace[t].root \in 1..Len(Roots)
    BY <1>1, <1>12 DEF RootDone, Commit, TraceShape
  <2>2. index' \in Tables /\ runs' \in [Traces -> Statuses] /\ Nobody # t
    BY <1>1, <2>1, SeenTable, IndexAssumption DEF Statuses
  <2>3. CASE trace[t].root + 1 <= Len(Roots)
    <3>1. Roots[trace[t].root + 1] \in SUBSET Files /\ trace[t].root + 1 \in 1..Len(Roots)
      BY <2>1, <2>3, IndexAssumption
    <3>2. PICK rec \in Tracers : rec = [trace[t] EXCEPT !.root = trace[t].root + 1, !.left = Roots[trace[t].root + 1],
                                                        !.batch = << >>]
      <4>1. PICK n \in Nat, left \in SUBSET Files : n = trace[t].root + 1 /\ left = Roots[trace[t].root + 1]
        BY <3>1
      <4>2. [trace[t] EXCEPT !.root = n, !.left = left, !.batch = << >>] \in Tracers
        BY <1>1, <1>3 DEF Tracers
      <4> QED BY <4>1, <4>2
    <3>3. rec.pc = "look" /\ rec.root = trace[t].root + 1 /\ rec.batch = << >> /\ Put(t, rec)
      BY <1>1, <1>12, <2>3, <3>2 DEF RootDone, Tracers
    <3> QED BY <1>2, <2>1, <2>2, <3>1, <3>3
  <2>4. CASE ~(trace[t].root + 1 <= Len(Roots))
    <3>1. PICK rec \in Tracers : rec = [trace[t] EXCEPT !.pc = "prune", !.batch = << >>]
      BY <1>1, <1>3 DEF Tracers, Positions, Walking
    <3>2. rec.pc = "prune" /\ rec.batch = << >> /\ Put(t, rec)
      BY <1>1, <1>12, <2>4, <3>1 DEF RootDone, Tracers
    <3> QED BY <1>2, <2>1, <2>2, <3>2
  <2> QED BY <2>3, <2>4
\* Steps that change the position only.
<1>13. ASSUME NEW pc \in Positions, Put(t, [trace[t] EXCEPT !.pc = pc]), index' \in Tables,
              UNCHANGED <<disk, stamp, edits, runs, writer>>, pc \notin {"look", "hash", "upsert"},
              pc \notin {"interrupting", "failing"} => trace[t].batch = << >>
       PROVE  IndexTyped'
  <2>1. PICK rec \in Tracers : rec = [trace[t] EXCEPT !.pc = pc]
    BY <1>1, <1>13 DEF Tracers
  <2>2. rec.pc = pc /\ rec.batch = trace[t].batch /\ (writer' = t <=> rec.batch # << >>)
    BY <1>1, <1>13, <2>1 DEF Tracers, TraceShape
  <2> QED BY <1>1, <1>2, <1>13, <2>1, <2>2
<1>14. CASE Prune(t)
  <2>1. PICK rows \in Tables : rows = index /\ Kept(t) \in SUBSET DOMAIN rows
    BY <1>1 DEF Kept
  <2>2. index' \in Tables
    BY <1>14, <2>1, Restricted DEF Prune
  <2>3. "report" \in Positions /\ trace[t].batch = << >> /\ UNCHANGED <<disk, stamp, edits, runs, writer>>
    BY <1>1, <1>14 DEF Prune, TraceShape, Positions, Walking
  <2>4. Put(t, [trace[t] EXCEPT !.pc = "report"])
    BY <1>14 DEF Prune
  <2> QED BY <1>13, <2>2, <2>3, <2>4
<1>15. CASE Report(t)
  <2>1. "record" \in Positions /\ trace[t].batch = << >> /\ UNCHANGED <<disk, stamp, edits, index, runs, writer>>
    BY <1>1, <1>15 DEF Report, TraceShape, Positions, Walking
  <2>2. Put(t, [trace[t] EXCEPT !.pc = "record"])
    BY <1>15 DEF Report
  <2> QED BY <1>1, <1>13, <2>1, <2>2
<1>16. CASE Record(t)
  <2>1. writer # t
    BY <1>1, <1>16 DEF Record, TraceShape
  <2> QED BY <1>1, <1>6, <1>16, <2>1 DEF Record
\* The except of the trace is entered with the batch as it is.
<1>17. ASSUME NEW pc \in {"interrupting", "failing"}, Put(t, [trace[t] EXCEPT !.pc = pc, !.look = NoLook]),
              UNCHANGED <<disk, stamp, edits, index, runs, writer>>
       PROVE  IndexTyped'
  <2>1. [trace[t] EXCEPT !.pc = pc, !.look = NoLook]
        = [trace[t] EXCEPT !.pc = pc, !.left = trace[t].left, !.seen = trace[t].seen, !.look = NoLook]
    BY <1>1 DEF Tracers
  <2>2. pc \in Positions /\ trace[t].left \in SUBSET Files /\ trace[t].seen \in Nat
    BY <1>1 DEF Tracers, Positions
  <2> QED BY <1>3, <1>4, <1>17, <2>1, <2>2
<1>18. CASE GiveUp(t)
  BY <1>17, <1>18 DEF GiveUp
<1>19. CASE Raise(t)
  BY <1>17, <1>19 DEF Raise
<1>20. CASE Handle(t)
  <2>1. PICK status \in Statuses : status = IF trace[t].pc = "failing" THEN "failed" ELSE "interrupted"
    BY DEF Statuses
  <2>2. Put(t, [Asleep EXCEPT !.pc = "over"]) /\ UNCHANGED <<disk, stamp, edits>>
    BY <1>20 DEF Handle
  <2>3. CASE Free(t) /\ Commit(t, status)
    <3>1. index' \in Tables /\ runs' \in [Traces -> Statuses]
      BY <1>1, <2>3, SeenTable DEF Commit
    <3>2. writer' = Nobody /\ writer \in {t, Nobody} /\ Nobody # t
      BY <2>3, IndexAssumption DEF Commit, Free
    <3> QED BY <1>6, <2>2, <3>1, <3>2
  <2>4. CASE ~Free(t) /\ UNCHANGED <<index, runs, writer>>
    BY <1>1, <1>6, <2>2, <2>4 DEF Free
  <2> QED BY <1>20, <2>1, <2>3, <2>4 DEF Handle
<1>21. CASE Kill(t)
  <2>1. writer' # t /\ (writer' = writer \/ (writer \in {t, Nobody} /\ writer' = Nobody))
    BY <1>21, IndexAssumption DEF Kill
  <2> QED BY <1>1, <1>6, <1>21, <2>1 DEF Kill
<1> QED BY <1>5, <1>7, <1>8, <1>9, <1>10, <1>11, <1>12, <1>14, <1>15, <1>16, <1>18, <1>19, <1>20, <1>21, <1>22 DEF TraceStep

\* and so every step does.
LEMMA TypedIndex ==
  ASSUME IndexTyped, [IndexNext]_indexVars
  PROVE  IndexTyped'
<1>1. CASE UNCHANGED indexVars
  BY <1>1 DEF IndexTyped, TraceShape, indexVars
<1>2. CASE IndexNext
  BY <1>2, TypedUsers, TypedTrace DEF IndexNext, TraceNext
<1> QED BY <1>1, <1>2

\* The invariant states the types that are checked.
LEMMA TypedIsTypeOK ==
  ASSUME IndexTyped
  PROVE  IndexTypeOK
<1>1. DOMAIN index \in SUBSET Files /\ \A f \in DOMAIN index : index[f] \in Rows
  BY TableHas DEF IndexTyped
<1>2. ASSUME NEW t \in Traces
      PROVE  /\ trace[t].pc \in Positions /\ DOMAIN trace[t].batch \subseteq Files
             /\ \A f \in DOMAIN trace[t].batch : trace[t].batch[f] \in Rows
             /\ writer = t <=> trace[t].batch # << >>
  <2>1. trace[t].pc \in Positions /\ trace[t].batch \in Tables /\ TraceShape(t)
    BY DEF IndexTyped, Tracers
  <2> QED BY <2>1, TableHas DEF TraceShape
<1> QED BY <1>1, <1>2 DEF IndexTyped, IndexTypeOK

\* An index begins with its types.
LEMMA TypedStart ==
  ASSUME IndexInit
  PROVE  IndexTyped
<1>1. /\ << >> \in Tables /\ Asleep \in Tracers /\ Asleep.batch = << >> /\ Asleep.pc = "none"
  BY AsleepTyped, EmptyTable DEF Asleep
<1>2. disk \in [Files -> Contents] /\ stamp \in [Files -> 0..MaxEdits] /\ edits \in 0..MaxEdits
  BY IndexAssumption DEF IndexInit
<1>3. runs \in [Traces -> Statuses] /\ trace \in [Traces -> Tracers]
  BY <1>1 DEF IndexInit, Statuses
<1>4. \A t \in Traces : TraceShape(t)
  BY <1>1, IndexAssumption DEF IndexInit, TraceShape
<1> QED BY <1>1, <1>2, <1>3, <1>4 DEF IndexInit, IndexTyped

-----------------------------------------------------------------------------
(* Rows are truthful *)

\* Users leave index and traces alone, and each of their steps is counted.
LEMMA UsersCount ==
  ASSUME IndexTyped, Users
  PROVE  UNCHANGED <<index, runs, writer, trace>> /\ edits' = edits + 1 /\ edits \in Nat
<1>1. edits \in Nat
  BY IndexAssumption DEF IndexTyped
<1>2. ASSUME NEW f \in Files, Delete(f) PROVE UNCHANGED <<index, runs, writer, trace>> /\ edits' = edits + 1
  BY <1>2 DEF Delete
<1>3. ASSUME NEW w \in Writings, Edit(w[1], w[2]) PROVE UNCHANGED <<index, runs, writer, trace>> /\ edits' = edits + 1
  BY <1>3 DEF Edit
<1> QED BY <1>1, <1>2, <1>3 DEF Users

\* An edit is newer than every row, and a deletion leaves no file to be wrong about.
LEMMA FaithfulUsers ==
  ASSUME IndexTyped, Users, NEW f \in Files, NEW row, row.stamp \in Nat, Faithful(f, row)
  PROVE  Faithful(f, row)'
<1>1. edits \in Nat /\ edits' = edits + 1
  BY UsersCount
<1>2. ASSUME NEW g \in Files, Delete(g) PROVE Faithful(f, row)'
  BY <1>1, <1>2, IndexAssumption DEF Delete, Faithful, IsFile, IndexTyped
<1>3. ASSUME NEW w \in Writings, Edit(w[1], w[2]) PROVE Faithful(f, row)'
  <2>1. w[1] \in Files
    BY IndexAssumption
  <2>2. CASE f = w[1]
    <3>1. stamp'[f] = edits + 1
      BY <1>3, <2>1, <2>2 DEF Edit, IndexTyped
    <3> QED BY <1>1, <3>1 DEF Faithful
  <2>3. CASE f # w[1]
    <3>1. disk'[f] = disk[f] /\ stamp'[f] = stamp[f]
      BY <1>3, <2>1, <2>3 DEF Edit, IndexTyped
    <3> QED BY <1>1, <3>1 DEF Faithful, IsFile
  <2> QED BY <2>2, <2>3
<1> QED BY <1>2, <1>3 DEF Users

\* The users keep the rows truthful: an edit gives its file a new stamp.
LEMMA TruthUsers ==
  ASSUME IndexTyped, TruthInv, Users
  PROVE  TruthInv'
<1>1. UNCHANGED <<index, runs, writer, trace>> /\ edits' = edits + 1 /\ edits \in Nat
  BY UsersCount
<1>2. ASSUME NEW f \in Files PROVE (stamp'[f] <= edits')
  <2>1. stamp[f] \in Nat /\ stamp[f] <= edits
    BY StampTyped, IndexAssumption DEF TruthInv
  <2>2. ASSUME NEW g \in Files, Delete(g) PROVE stamp'[f] = stamp[f]
    BY <2>2 DEF Delete
  <2>3. ASSUME NEW w \in Writings, Edit(w[1], w[2]) PROVE stamp'[f] \in {stamp[f], edits + 1}
    BY <2>3 DEF Edit, IndexTyped
  <2> QED BY <1>1, <2>1, <2>2, <2>3 DEF Users
<1>3. ASSUME NEW f \in DOMAIN index PROVE Faithful(f, index[f])'
  <2>1. PICK row \in Rows : row = index[f] /\ f \in Files /\ row.stamp \in Nat
    BY TableHas, IndexAssumption DEF IndexTyped, Rows
  <2>2. Faithful(f, row)
    BY <2>1 DEF TruthInv
  <2>3. Faithful(f, row)'
    BY <2>1, <2>2, FaithfulUsers
  <2> QED BY <1>1, <2>1, <2>3 DEF Faithful
<1>4. ASSUME NEW t \in Traces, NEW f \in DOMAIN trace[t].batch PROVE Faithful(f, trace[t].batch[f])'
  <2>1. PICK row \in Rows : row = trace[t].batch[f] /\ f \in Files /\ row.stamp \in Nat
    <3>1. PICK batch \in Tables : batch = trace[t].batch
      BY DEF IndexTyped, Tracers
    <3>2. batch[f] \in Rows /\ f \in Files
      BY <1>4, <3>1, TableHas
    <3> QED BY <3>1, <3>2, IndexAssumption DEF Rows
  <2>2. Faithful(f, row)
    BY <1>4, <2>1 DEF TruthInv
  <2>3. Faithful(f, row)'
    BY <2>1, <2>2, FaithfulUsers
  <2> QED BY <1>1, <2>1, <2>3 DEF Faithful
<1>5. ASSUME NEW t \in Traces, trace[t].pc \in {"hash", "upsert"} PROVE Faithful(trace[t].look.file, trace[t].look)'
  <2>1. PICK look \in Looks : look = trace[t].look /\ look.file \in Files /\ look.stamp \in Nat
    BY <1>5, IndexAssumption DEF IndexTyped, Tracers, TraceShape, Looks
  <2>2. Faithful(look.file, look)
    BY <1>5, <2>1 DEF TruthInv
  <2>3. Faithful(look.file, look)'
    BY <2>1, <2>2, FaithfulUsers
  <2> QED BY <1>1, <2>1, <2>3 DEF Faithful
<1> QED BY <1>1, <1>2, <1>3, <1>4, <1>5 DEF TruthInv

\* What a connection reads is faithful.
LEMMA SeenFaithful ==
  ASSUME IndexTyped, TruthInv, NEW t \in Traces
  PROVE  \A f \in DOMAIN Seen(t) : Faithful(f, Seen(t)[f])
<1> TAKE f \in DOMAIN Seen(t)
<1>1. CASE f \in DOMAIN trace[t].batch
  BY <1>1, SeenTable DEF TruthInv
<1>2. CASE f \notin DOMAIN trace[t].batch
  BY <1>2, SeenTable DEF TruthInv
<1> QED BY <1>1, <1>2

\* Every step of a trace keeps the rows truthful,
LEMMA TruthTrace ==
  ASSUME IndexTyped, TruthInv, NEW t \in Traces, TraceStep(t)
  PROVE  TruthInv'
<1>1. trace \in [Traces -> Tracers] /\ TraceShape(t) /\ index \in Tables
  BY DEF IndexTyped
<1>2. UNCHANGED <<disk, stamp, edits>>
  BY DEF TraceStep, Start, StartFails, Skip, WalkEnds, Look, Hash, Upsert, RootDone, Prune, Report, Record, GiveUp, Raise,
         Handle, Kill
<1>3. ASSUME NEW rec \in Tracers, Put(t, rec), \A f \in DOMAIN index' : Faithful(f, index'[f]),
             \A f \in DOMAIN rec.batch : Faithful(f, rec.batch[f]),
             rec.pc \in {"hash", "upsert"} => Faithful(rec.look.file, rec.look)
      PROVE  TruthInv'
  <2>1. \A u \in Traces : trace'[u] = IF u = t THEN rec ELSE trace[u]
    BY <1>1, <1>3 DEF Put
  <2> QED BY <1>2, <1>3, <2>1 DEF TruthInv, Faithful, IsFile
\* Steps of the trace that leave the index and take the batch along or drop it.
<1>4. ASSUME NEW rec \in Tracers, Put(t, rec), index' = index, rec.batch \in {<< >>, trace[t].batch},
             rec.pc \in {"hash", "upsert"} => Faithful(rec.look.file, rec.look)
      PROVE  TruthInv'
  <2>1. \A f \in DOMAIN index' : Faithful(f, index'[f])
    BY <1>4 DEF TruthInv
  <2>2. \A f \in DOMAIN rec.batch : Faithful(f, rec.batch[f])
    BY <1>4, EmptyTable DEF TruthInv
  <2> QED BY <1>3, <1>4, <2>1, <2>2
\* Ends of a trace.
<1>5. ASSUME NEW pc \in Positions, NEW root \in Nat, NEW left \in SUBSET Files, pc \notin {"hash", "upsert"},
             Put(t, [Asleep EXCEPT !.pc = pc, !.root = root, !.left = left]),
             index' = index \/ index' = Seen(t)
      PROVE  TruthInv'
  <2>1. PICK rec \in Tracers : rec = [Asleep EXCEPT !.pc = pc, !.root = root, !.left = left]
    BY AsleepTyped
  <2>2. rec.pc = pc /\ rec.batch = << >>
    BY <2>1 DEF Asleep
  <2>3. \A f \in DOMAIN index' : Faithful(f, index'[f])
    BY <1>5, SeenFaithful DEF TruthInv
  <2> QED BY <1>3, <1>5, <2>1, <2>2, <2>3, EmptyTable
<1>6. ASSUME NEW pc \in Positions \ {"hash", "upsert"}, Put(t, [Asleep EXCEPT !.pc = pc]), index' = index \/ index' = Seen(t)
      PROVE  TruthInv'
  <2>1. PICK rec \in Tracers : rec = [Asleep EXCEPT !.pc = pc]
    BY AsleepTyped
  <2>2. rec.pc = pc /\ rec.batch = << >>
    BY <2>1 DEF Asleep
  <2>3. \A f \in DOMAIN index' : Faithful(f, index'[f])
    BY <1>6, SeenFaithful DEF TruthInv
  <2> QED BY <1>3, <1>6, <2>1, <2>2, <2>3, EmptyTable
<1>7. {"over", "completed", "look"} \subseteq Positions \ {"hash", "upsert"}
  BY DEF Positions, Walking
<1>8. CASE Start(t)
  <2>1. PICK left \in SUBSET Files : left = Roots[1]
    BY IndexAssumption
  <2> QED BY <1>5, <1>7, <1>8, <2>1 DEF Start
<1>9. CASE StartFails(t)
  BY <1>6, <1>7, <1>9 DEF StartFails
<1>10. CASE Record(t)
  BY <1>6, <1>7, <1>10 DEF Record
<1>11. CASE Handle(t)
  BY <1>6, <1>7, <1>11 DEF Handle, Commit
<1>12. CASE Kill(t)
  BY <1>6, <1>7, <1>12 DEF Kill
<1>13. PICK tr \in Tracers : tr = trace[t]
  BY <1>1
<1>14. ASSUME NEW f \in Files, Skip(t, f) PROVE TruthInv'
  <2>1. PICK rec \in Tracers : rec = [tr EXCEPT !.left = @ \ {f}]
    BY DEF Tracers
  <2>2. rec.pc = "look" /\ rec.batch = tr.batch
    BY <1>13, <1>14, <2>1 DEF Skip, Tracers
  <2> QED BY <1>4, <1>13, <1>14, <2>1, <2>2 DEF Skip
<1>24. CASE WalkEnds(t)
  <2>1. PICK rec \in Tracers : rec = [tr EXCEPT !.left = {}]
    BY DEF Tracers
  <2>2. rec.pc = "look" /\ rec.batch = tr.batch
    BY <1>13, <1>24, <2>1 DEF WalkEnds, Tracers
  <2> QED BY <1>4, <1>13, <1>24, <2>1, <2>2 DEF WalkEnds
<1>15. ASSUME NEW f \in Files, Look(t, f) PROVE TruthInv'
  <2>1. PICK hash \in Hashes : hash = KnownHash(t, f)
    BY KnownTyped
  <2>2. PICK time \in 0..MaxEdits : time = stamp[f]
    BY StampTyped
  <2>3. PICK look \in Looks :
          /\ look = [file |-> f, stamp |-> time, large |-> disk[f].kind = Huge, hash |-> hash]
          /\ look.file = f /\ look.stamp = time /\ look.hash = hash
    <3>1. PICK large \in BOOLEAN : large = (disk[f].kind = Huge)
      OBVIOUS
    <3>2. [file |-> f, stamp |-> time, large |-> large, hash |-> hash] \in Looks
      BY DEF Looks
    <3> QED BY <3>1, <3>2
  <2>4. Faithful(f, look)
    <3>1. hash \in {NoHash, disk[f]}
      <4>1. CASE f \in DOMAIN Seen(t) /\ Seen(t)[f].stamp = stamp[f]
        <5>1. Faithful(f, Seen(t)[f]) /\ IsFile(f)
          BY <1>15, <4>1, SeenFaithful DEF Look
        <5> QED BY <2>1, <4>1, <5>1 DEF Faithful, KnownHash
      <4>2. CASE ~(f \in DOMAIN Seen(t) /\ Seen(t)[f].stamp = stamp[f])
        BY <2>1, <4>2 DEF KnownHash
      <4> QED BY <4>1, <4>2
    <3> QED BY <2>2, <2>3, <3>1 DEF Faithful, TruthInv
  <2>5. PICK pc \in {"hash", "upsert"} : pc = IF disk[f].kind # Huge /\ KnownHash(t, f) = NoHash THEN "hash" ELSE "upsert"
    OBVIOUS
  <2>6. pc \in Positions
    BY DEF Positions, Walking
  <2>7. PICK rec \in Tracers : rec = [tr EXCEPT !.pc = pc, !.left = @ \ {f}, !.seen = @ + 1, !.look = look]
    <3>1. tr.left \in SUBSET Files /\ tr.seen \in Nat
      BY DEF Tracers
    <3>2. PICK left \in SUBSET Files : left = tr.left \ {f}
      BY <3>1
    <3>3. PICK seen \in Nat : seen = tr.seen + 1
      BY <3>1
    <3>4. left = tr.left \ {f} /\ seen = tr.seen + 1
      BY <3>2, <3>3
    <3>5. PICK position \in Positions : position = pc
      BY <2>6
    <3>6. [tr EXCEPT !.pc = position, !.left = left, !.seen = seen, !.look = look] \in Tracers
      BY DEF Tracers
    <3>7. [tr EXCEPT !.pc = pc, !.left = @ \ {f}, !.seen = @ + 1, !.look = look]
          = [tr EXCEPT !.pc = pc, !.left = left, !.seen = seen, !.look = look]
      BY <3>4 DEF Tracers
    <3> QED BY <3>5, <3>6, <3>7
  <2>8. rec.batch = tr.batch /\ rec.look = look
    BY <2>7 DEF Tracers
  <2>9. Put(t, rec) /\ index' = index
    BY <1>13, <1>15, <2>1, <2>2, <2>3, <2>5, <2>7 DEF Look
  <2> QED BY <1>4, <1>13, <2>3, <2>4, <2>8, <2>9
<1>16. CASE Hash(t)
  <2>1. PICK old \in Looks : old = tr.look /\ old.file \in Files /\ Faithful(old.file, old)
    BY <1>1, <1>13, <1>16 DEF Hash, Tracers, TraceShape, TruthInv
  <2>2. PICK hash \in Hashes : hash = IF Readable(old.file) THEN disk[old.file] ELSE NoHash
    BY <2>1, StampTyped
  <2>3. PICK look : look = [old EXCEPT !.hash = hash]
    OBVIOUS
  <2>4. look \in Looks /\ look.file = old.file /\ look.stamp = old.stamp /\ look.hash = hash
    BY <2>3 DEF Looks
  <2>5. Faithful(look.file, look)
    BY <2>1, <2>2, <2>4 DEF Faithful
  <2>6. PICK rec \in Tracers : rec = [tr EXCEPT !.pc = "upsert", !.look = look]
    BY <2>4 DEF Tracers, Positions, Walking
  <2>7. rec.batch = tr.batch /\ rec.look = look
    BY <2>6 DEF Tracers
  <2>8. Put(t, [tr EXCEPT !.pc = "upsert", !.look.hash = hash]) /\ index' = index
    BY <1>13, <1>16, <2>1, <2>2 DEF Hash
  <2>9. [tr EXCEPT !.pc = "upsert", !.look.hash = hash] = [tr EXCEPT !.pc = "upsert", !.look = [old EXCEPT !.hash = hash]]
    BY <2>1 DEF Tracers
  <2> QED BY <1>4, <1>13, <2>3, <2>5, <2>6, <2>7, <2>8, <2>9
<1>17. CASE Upsert(t)
  <2>1. PICK file \in Files : file = trace[t].look.file
    BY <1>1, <1>17 DEF Upsert, TraceShape
  <2>2. PICK rows : rows = Written(t)
    OBVIOUS
  <2>3. /\ rows \in Tables
        /\ rows[trace[t].look.file] = Row(trace[t].look.stamp, trace[t].look.large, trace[t].look.hash, t)
        /\ DOMAIN rows = {trace[t].look.file} \cup DOMAIN trace[t].batch
    BY <2>1, <2>2, UpsertTable
  <2>4. \A f \in DOMAIN rows \ {trace[t].look.file} : rows[f] = trace[t].batch[f]
    <3>1. trace[t].look.file \in Files
      BY <2>1
    <3>2. ASSUME NEW f \in DOMAIN rows, f # trace[t].look.file PROVE rows[f] = trace[t].batch[f]
      BY <2>2, <3>1, <3>2, BatchRow
    <3> QED BY <3>2
  <2>5. /\ DOMAIN Merge(rows, index) = DOMAIN rows \cup DOMAIN index
        /\ \A f \in DOMAIN rows \cup DOMAIN index :
             Merge(rows, index)[f] = IF f \in DOMAIN rows THEN rows[f] ELSE index[f]
    BY <2>1, <2>2, UpsertTable
  <2>6. \A f \in DOMAIN rows : Faithful(f, rows[f])
    <3> TAKE f \in DOMAIN rows
    <3>1. CASE f = file
      <4>1. Faithful(file, trace[t].look)
        BY <1>17, <2>1 DEF Upsert, TruthInv
      <4> QED BY <2>1, <2>3, <3>1, <4>1 DEF Faithful, Row
    <3>2. CASE f # file
      BY <2>1, <2>3, <2>4, <3>2 DEF TruthInv
    <3> QED BY <3>1, <3>2
  <2>7. \A f \in DOMAIN Merge(rows, index) : Faithful(f, Merge(rows, index)[f])
    BY <2>5, <2>6 DEF TruthInv
  <2>8. PICK batch \in Tables : batch = IF trace[t].seen % Checkpoint = 0 THEN << >> ELSE rows
    BY <2>3, EmptyTable
  <2>9. PICK rec \in Tracers : rec = [tr EXCEPT !.pc = "look", !.look = NoLook, !.batch = batch]
    BY AsleepTyped DEF Tracers, Positions, Walking
  <2>10. rec.pc = "look" /\ rec.batch = batch /\ Put(t, rec)
    BY <1>13, <1>17, <2>2, <2>8, <2>9 DEF Tracers, Upsert, Written
  <2>11. index' \in {index, Merge(rows, index)}
    BY <1>17, <2>2 DEF Upsert, Written
  <2>12. \A f \in DOMAIN index' : Faithful(f, index'[f])
    BY <2>7, <2>11 DEF TruthInv
  <2>13. \A f \in DOMAIN rec.batch : Faithful(f, rec.batch[f])
    BY <2>6, <2>8, <2>10, EmptyTable
  <2> QED BY <1>3, <2>10, <2>12, <2>13
<1>18. CASE RootDone(t)
  <2>1. PICK rec : /\ Put(t, rec)
                   /\ rec = IF tr.root + 1 <= Len(Roots)
                            THEN [tr EXCEPT !.root = tr.root + 1, !.left = Roots[tr.root + 1], !.batch = << >>]
                            ELSE [tr EXCEPT !.pc = "prune", !.batch = << >>]
    BY <1>13, <1>18 DEF RootDone
  <2>2. rec.pc \in {"look", "prune"} /\ rec.batch = << >>
    BY <1>13, <1>18, <2>1 DEF RootDone, Tracers
  <2>3. rec \in Tracers
    <3>1. tr.root \in 1..Len(Roots)
      BY <1>1, <1>13, <1>18 DEF RootDone, TraceShape
    <3>2. CASE tr.root + 1 <= Len(Roots)
      <4>1. PICK n \in Nat, left \in SUBSET Files : n = tr.root + 1 /\ left = Roots[tr.root + 1]
        BY <3>1, <3>2, IndexAssumption
      <4>2. [tr EXCEPT !.root = n, !.left = left, !.batch = << >>] \in Tracers
        BY EmptyTable DEF Tracers
      <4> QED BY <2>1, <3>2, <4>1, <4>2
    <3>3. CASE ~(tr.root + 1 <= Len(Roots))
      BY <2>1, <3>3, EmptyTable DEF Tracers, Positions, Walking
    <3> QED BY <3>2, <3>3
  <2>4. \A f \in DOMAIN index' : Faithful(f, index'[f])
    BY <1>18, SeenFaithful DEF RootDone, Commit
  <2> QED BY <1>3, <2>1, <2>2, <2>3, <2>4, EmptyTable
<1>19. CASE Prune(t)
  <2>1. PICK rows \in Tables : rows = index
    BY <1>1
  <2>2. PICK S \in SUBSET DOMAIN rows : S = Kept(t)
    BY <2>1 DEF Kept
  <2>3. DOMAIN Restrict(rows, S) = S /\ \A f \in S : Restrict(rows, S)[f] = rows[f]
    BY Restricted
  <2>4. \A f \in DOMAIN index' : Faithful(f, index'[f])
    BY <1>19, <2>1, <2>2, <2>3 DEF Prune, TruthInv
  <2>5. PICK rec \in Tracers : rec = [tr EXCEPT !.pc = "report"]
    BY DEF Tracers, Positions, Walking
  <2>6. rec.pc = "report" /\ rec.batch = trace[t].batch /\ Put(t, rec)
    BY <1>13, <1>19, <2>5 DEF Prune, Tracers
  <2>7. \A f \in DOMAIN rec.batch : Faithful(f, rec.batch[f])
    BY <2>6 DEF TruthInv
  <2> QED BY <1>3, <2>4, <2>6, <2>7
<1>20. ASSUME NEW pc \in {"record", "interrupting", "failing"}, index' = index,
              \/ Put(t, [tr EXCEPT !.pc = pc])
              \/ Put(t, [tr EXCEPT !.pc = pc, !.look = NoLook])
       PROVE  TruthInv'
  <2>1. NoLook \in Looks /\ pc \in Positions
    BY AsleepTyped DEF Positions, Walking
  <2>2. /\ [tr EXCEPT !.pc = pc] \in Tracers /\ [tr EXCEPT !.pc = pc, !.look = NoLook] \in Tracers
        /\ [tr EXCEPT !.pc = pc].pc = pc /\ [tr EXCEPT !.pc = pc, !.look = NoLook].pc = pc
        /\ [tr EXCEPT !.pc = pc].batch = tr.batch /\ [tr EXCEPT !.pc = pc, !.look = NoLook].batch = tr.batch
    BY <2>1 DEF Tracers
  <2>3. PICK rec \in Tracers : Put(t, rec) /\ rec.pc = pc /\ rec.batch = trace[t].batch
    BY <1>13, <1>20, <2>2
  <2> QED BY <1>4, <1>20, <2>3
<1>21. CASE Report(t)
  BY <1>13, <1>20, <1>21 DEF Report
<1>22. CASE GiveUp(t)
  BY <1>13, <1>20, <1>22 DEF GiveUp
<1>23. CASE Raise(t)
  BY <1>13, <1>20, <1>23 DEF Raise
<1> QED
  BY <1>8, <1>9, <1>10, <1>11, <1>12, <1>14, <1>15, <1>16, <1>17, <1>18, <1>19, <1>21, <1>22, <1>23, <1>24 DEF
     TraceStep

\* and so every step does.
LEMMA TruthIndex ==
  ASSUME IndexTyped, TruthInv, [IndexNext]_indexVars
  PROVE  TruthInv'
<1>1. CASE UNCHANGED indexVars
  BY <1>1 DEF TruthInv, Faithful, IsFile, indexVars
<1>2. CASE IndexNext
  BY <1>2, TruthUsers, TruthTrace DEF IndexNext, TraceNext
<1> QED BY <1>1, <1>2

\* An empty index is truthful.
LEMMA TruthStart ==
  ASSUME IndexInit
  PROVE  TruthInv
<1>1. \A t \in Traces : trace[t].pc = "none" /\ trace[t].batch = << >>
  BY DEF IndexInit, Asleep
<1>2. \A f \in Files : stamp[f] <= edits
  BY DEF IndexInit
<1> QED BY <1>1, <1>2, EmptyTable DEF IndexInit, TruthInv

\* Truthful rows are what the property of the index says.
LEMMA TruthTells ==
  ASSUME TruthInv
  PROVE  IndexTruthful
BY DEF TruthInv, Faithful, IndexTruthful

-----------------------------------------------------------------------------
(* What holds of the index for every workspace and every number of traces *)

\* The types of the index, and the lock of the database is held exactly by the trace
\* that has an open batch.
THEOREM IndexKeepsTypes == IndexSpec => []IndexTypeOK
<1>1. IndexInit => IndexTyped
  BY TypedStart
<1>2. IndexTyped /\ [IndexNext]_indexVars => IndexTyped'
  BY TypedIndex
<1>3. IndexTyped => IndexTypeOK
  BY TypedIsTypeOK
<1> QED BY <1>1, <1>2, <1>3, PTL DEF IndexSpec

\* A committed row whose stamp is that of its file has the hash of the file's content or
\* none, however traces and edits interleave and wherever a trace stops.
THEOREM RowsAreTruthful == IndexSpec => []IndexTruthful
<1>1. IndexInit => IndexTyped /\ TruthInv
  BY TypedStart, TruthStart
<1>2. IndexTyped /\ TruthInv /\ [IndexNext]_indexVars => (IndexTyped /\ TruthInv)'
  BY TypedIndex, TruthIndex
<1>3. TruthInv => IndexTruthful
  BY TruthTells
<1> QED BY <1>1, <1>2, <1>3, PTL DEF IndexSpec

-----------------------------------------------------------------------------
(* What a trace that was alone leaves *)

Walked == {"look", "hash", "upsert"}
Afoot == Walked \cup {"prune", "report", "record"}

\* What a trace has still to look at or to write: the rest of its root, the roots after
\* it, and the file that it holds.
LaterRoots(n) == {f \in Files : \E i \in DOMAIN Roots : i > n /\ f \in Roots[i]}
Ahead(tr) ==
  IF tr.pc \in Walked
  THEN tr.left \cup LaterRoots(tr.root) \cup (IF tr.pc = "look" THEN {} ELSE {tr.look.file})
  ELSE {}

\* A row, or a look on its way to one, that tells the present state of its file.
Current(f, row) == row.stamp = stamp[f] /\ (disk[f].kind \notin {Huge, Locked} => row.hash = disk[f])
Covered(t, f) == f \in DOMAIN Seen(t) /\ Current(f, Seen(t)[f]) /\ Seen(t)[f].run = t

\* The look at a file that nobody touched is current as far as it goes.
LookCurrent(tr, S) ==
  tr.pc \in {"hash", "upsert"} /\ tr.look.file \in S =>
    /\ IsFile(tr.look.file) /\ tr.look.stamp = stamp[tr.look.file]
    /\ tr.pc = "upsert" => Current(tr.look.file, tr.look)

\* What a lone trace on its way has behind it and did not miss is covered, by a row of its own.
LoneFine(t) ==
  /\ \A u \in Traces \ {t} : ~Busy(u)
  /\ \A f \in (steady[t] \ missed[t]) \ Ahead(trace[t]) : IsFile(f) => Covered(t, f)
  /\ LookCurrent(trace[t], steady[t])

Lone(t) == alone[t] /\ trace[t].pc \in Afoot

LoneInv ==
  /\ steady \in [Traces -> SUBSET Files] /\ DOMAIN missed = Traces /\ DOMAIN alone = Traces
  /\ \A t \in Traces : trace[t].pc = "none" => runs[t] = "none"
  /\ \A t \in Traces : Lone(t) => LoneFine(t)

\* An empty batch adds nothing to what is committed.
LEMMA MergeEmpty ==
  ASSUME NEW T \in Tables
  PROVE  Merge(<< >>, T) = T
<1>1. PICK D \in SUBSET Files : T \in [D -> Rows]
  BY DEF Tables
<1>2. Merge(<< >>, T) = [f \in D |-> T[f]]
  BY <1>1, EmptyTable DEF Merge
<1> QED BY <1>1, <1>2

\* The roots that are left after a root, after the last and before the first.
LEMMA RootsLeft ==
  /\ \A n \in Nat : n + 1 <= Len(Roots) => LaterRoots(n) \subseteq Roots[n + 1] \cup LaterRoots(n + 1)
  /\ \A n \in Nat : ~(n + 1 <= Len(Roots)) => LaterRoots(n) = {}
  /\ Files \subseteq Roots[1] \cup LaterRoots(1)
<1>1. DOMAIN Roots = 1..Len(Roots) /\ Len(Roots) \in Nat /\ Len(Roots) >= 1
  BY IndexAssumption
<1>2. ASSUME NEW n \in Nat, n + 1 <= Len(Roots) PROVE LaterRoots(n) \subseteq Roots[n + 1] \cup LaterRoots(n + 1)
  BY <1>1, <1>2 DEF LaterRoots
<1>3. ASSUME NEW n \in Nat, ~(n + 1 <= Len(Roots)) PROVE LaterRoots(n) = {}
  BY <1>1, <1>3 DEF LaterRoots
<1>4. ASSUME NEW f \in Files PROVE f \in Roots[1] \cup LaterRoots(1)
  <2>1. PICK i \in DOMAIN Roots : f \in Roots[i]
    BY DEF Files, Range
  <2> QED BY <1>1, <2>1 DEF LaterRoots
<1> QED BY <1>2, <1>3, <1>4

\* The history of a lone trace after a step of its own: what is behind it then is covered.
LEMMA LoneMove ==
  ASSUME IndexTyped, NEW t \in Traces, LoneFine(t), NEW rec, Put(t, rec), UNCHANGED <<disk, stamp, steady>>,
         \A f \in (steady[t] \ missed'[t]) \ Ahead(rec) : IsFile(f) => Covered(t, f)', LookCurrent(rec, steady[t])
  PROVE  LoneFine(t)'
<1>1. trace'[t] = rec /\ \A u \in Traces \ {t} : trace'[u] = trace[u]
  BY DEF IndexTyped, Put
<1>2. \A u \in Traces \ {t} : ~Busy(u)'
  BY <1>1 DEF LoneFine, Busy
<1>3. \A f \in (steady'[t] \ missed'[t]) \ Ahead(trace'[t]) : IsFile(f)' => Covered(t, f)'
  BY <1>1 DEF IsFile
<1>4. LookCurrent(trace[t], steady[t])'
  BY <1>1 DEF LookCurrent, Current, IsFile
<1>5. (Ahead(trace[t]))' = Ahead(trace'[t])
  BY DEF Ahead
<1> QED BY <1>2, <1>3, <1>4, <1>5 DEF LoneFine

\* A step that writes no row.
LEMMA LoneLooks ==
  ASSUME IndexTyped, NEW t \in Traces, LoneFine(t), NEW rec, Put(t, rec), UNCHANGED <<disk, stamp, steady, index>>,
         missed[t] \subseteq missed'[t], rec.batch = trace[t].batch,
         \A f \in Ahead(trace[t]) : f \in Ahead(rec) \cup missed'[t], LookCurrent(rec, steady[t])
  PROVE  LoneFine(t)'
<1>1. trace'[t] = rec
  BY DEF IndexTyped, Put
<1>2. \A f : Covered(t, f) => Covered(t, f)'
  BY <1>1 DEF Covered, Current, Seen
<1>3. \A f \in (steady[t] \ missed'[t]) \ Ahead(rec) : IsFile(f) => Covered(t, f)'
  BY <1>2 DEF LoneFine
<1> QED BY <1>3, LoneMove

\* Only the INSERT of a run makes it running, and only a trace that has begun is busy.
LEMMA BeginsIsStart ==
  ASSUME IndexTyped, LoneInv, NEW t \in Traces, TraceStep(t)
  PROVE  /\ Begins(t) <=> Start(t)
         /\ ~Busy(t) => Start(t) \/ StartFails(t)
<1>1. runs \in [Traces -> Statuses]
  BY DEF IndexTyped
<1>2. Start(t) => Begins(t)
  BY <1>1 DEF Start, Begins, LoneInv
<1>3. ASSUME Begins(t), ~Start(t) PROVE FALSE
  <2>1. \/ runs' = runs
        \/ \E s \in {"checkpoint_saved", "root_completed", "failed", "interrupted"} : runs' = [runs EXCEPT ![t] = s]
    BY <1>3 DEF TraceStep, StartFails, Skip, WalkEnds, Look, Hash, Upsert, RootDone, Prune, Report, Record, GiveUp, Raise,
                Handle, Kill, Commit
  <2>2. runs'[t] # "running"
    BY <1>1, <1>3, <2>1 DEF Begins
  <2> QED BY <1>3, <2>2 DEF Begins
<1>4. ~Busy(t) => Start(t) \/ StartFails(t)
  BY DEF TraceStep, Skip, WalkEnds, Look, Hash, Upsert, RootDone, Prune, Report, Record, GiveUp, Raise, Handle, Kill, Busy,
         Walking
<1> QED BY <1>2, <1>3, <1>4

\* What is passed over is among the missed.
LEMMA LonePasses ==
  ASSUME IndexTyped, NEW t \in Traces, LoneFine(t), trace[t].pc = "look", NEW left \in SUBSET trace[t].left,
         Put(t, [trace[t] EXCEPT !.left = left]), UNCHANGED <<disk, stamp, steady, index>>,
         missed'[t] = missed[t] \cup Passed(t)
  PROVE  LoneFine(t)'
<1>1. PICK tr \in Tracers : tr = trace[t] /\ tr.pc = "look"
  BY DEF IndexTyped
<1>2. PICK rec : rec = [tr EXCEPT !.left = left]
  OBVIOUS
<1>3. rec.pc = "look" /\ rec.root = tr.root /\ rec.left = left /\ rec.batch = tr.batch
  BY <1>1, <1>2 DEF Tracers
<1>4. Put(t, rec) /\ trace'[t] = rec
  BY <1>1, <1>2 DEF Put, IndexTyped
<1>5. Passed(t) = tr.left \ left
  BY <1>1, <1>3, <1>4 DEF Passed
<1>6. \A g \in Ahead(trace[t]) : g \in Ahead(rec) \cup missed'[t]
  BY <1>1, <1>3, <1>5 DEF Ahead, Walked
<1>7. LookCurrent(rec, steady[t])
  BY <1>3 DEF LookCurrent
<1> QED BY <1>1, <1>3, <1>4, <1>6, <1>7, LoneLooks

\* A look at a file leaves it in the trace's hands,
LEMMA LoneLook ==
  ASSUME IndexTyped, TruthInv, NEW t \in Traces, LoneFine(t), NEW f \in Files, Look(t, f), steady' = steady, missed[t] \subseteq missed'[t]
  PROVE  LoneFine(t)'
<1>1. PICK tr \in Tracers : tr = trace[t] /\ tr.pc = "look"
  BY DEF IndexTyped, Look
<1>2. PICK hash \in Hashes : hash = KnownHash(t, f)
  BY KnownTyped
<1>3. PICK pc \in {"hash", "upsert"} : pc = IF disk[f].kind # Huge /\ hash = NoHash THEN "hash" ELSE "upsert"
  OBVIOUS
<1>4. PICK look :
        /\ look = [file |-> f, stamp |-> stamp[f], large |-> disk[f].kind = Huge, hash |-> hash]
        /\ look.file = f /\ look.stamp = stamp[f] /\ look.hash = hash
  <2>1. PICK large \in BOOLEAN : large = (disk[f].kind = Huge)
    OBVIOUS
  <2>2. PICK look : look = [file |-> f, stamp |-> stamp[f], large |-> large, hash |-> hash]
    OBVIOUS
  <2> QED BY <2>1, <2>2
<1>5. PICK left, seen : left = tr.left \ {f} /\ seen = tr.seen + 1
  OBVIOUS
<1>6. PICK rec : rec = [tr EXCEPT !.pc = pc, !.left = left, !.seen = seen, !.look = look]
  OBVIOUS
<1>7. rec.pc = pc /\ rec.root = tr.root /\ rec.left = left /\ rec.look = look /\ rec.batch = tr.batch
  BY <1>1, <1>6 DEF Tracers
<1>8. Put(t, rec) /\ IsFile(f) /\ UNCHANGED <<disk, stamp, index>>
  BY <1>1, <1>2, <1>3, <1>4, <1>5, <1>6 DEF Look
<1>9. \A g \in Ahead(trace[t]) : g \in Ahead(rec) \cup missed'[t]
  BY <1>1, <1>4, <1>5, <1>7 DEF Ahead, Walked
<1>10. ASSUME pc = "upsert", disk[f].kind # Huge PROVE hash = disk[f]
  <2>1. hash # NoHash
    BY <1>3, <1>10
  <2>2. f \in DOMAIN Seen(t) /\ Seen(t)[f].stamp = stamp[f] /\ hash = Seen(t)[f].hash
    BY <1>2, <2>1 DEF KnownHash
  <2>3. Faithful(f, Seen(t)[f])
    BY <2>2, SeenFaithful
  <2> QED BY <1>8, <2>1, <2>2, <2>3 DEF Faithful
<1>11. LookCurrent(rec, steady[t])
  BY <1>4, <1>7, <1>8, <1>10 DEF LookCurrent, Current
<1> QED BY <1>1, <1>7, <1>8, <1>9, <1>11, LoneLooks

\* and so does its hash.
LEMMA LoneHash ==
  ASSUME IndexTyped, NEW t \in Traces, LoneFine(t), Hash(t), steady' = steady, missed[t] \subseteq missed'[t], steady[t] \in SUBSET Files
  PROVE  LoneFine(t)'
<1>1. PICK tr \in Tracers : tr = trace[t] /\ tr.pc = "hash" /\ tr.look.file \in Files
  BY DEF IndexTyped, Hash, TraceShape
<1>2. PICK old \in Looks : old = tr.look
  BY <1>1 DEF Tracers
<1>3. PICK hash : hash = IF Readable(old.file) THEN disk[old.file] ELSE NoHash
  OBVIOUS
<1>4. PICK look : look = [old EXCEPT !.hash = hash]
  OBVIOUS
<1>5. look.file = old.file /\ look.stamp = old.stamp /\ look.hash = hash
  BY <1>2, <1>4 DEF Looks
<1>6. PICK rec : rec = [tr EXCEPT !.pc = "upsert", !.look = look]
  OBVIOUS
<1>7. rec.pc = "upsert" /\ rec.root = tr.root /\ rec.left = tr.left /\ rec.look = look /\ rec.batch = tr.batch
  BY <1>1, <1>6 DEF Tracers
<1>8. Put(t, rec) /\ UNCHANGED <<disk, stamp, index>>
  <2>1. Put(t, [tr EXCEPT !.pc = "upsert", !.look.hash = hash]) /\ UNCHANGED <<disk, stamp, index>>
    BY <1>1, <1>2, <1>3 DEF Hash
  <2>2. [tr EXCEPT !.pc = "upsert", !.look.hash = hash] = [tr EXCEPT !.pc = "upsert", !.look = [old EXCEPT !.hash = hash]]
    BY <1>2 DEF Tracers
  <2> QED BY <1>4, <1>6, <2>1, <2>2
<1>9. \A g \in Ahead(trace[t]) : g \in Ahead(rec) \cup missed'[t]
  BY <1>1, <1>2, <1>5, <1>7 DEF Ahead, Walked
<1>10. LookCurrent(rec, steady[t])
  <2> SUFFICES ASSUME old.file \in steady[t] PROVE IsFile(old.file) /\ old.stamp = stamp[old.file] /\ Current(old.file, look)
    BY <1>5, <1>7 DEF LookCurrent
  <2>1. IsFile(old.file) /\ old.stamp = stamp[old.file]
    BY <1>1, <1>2 DEF LoneFine, LookCurrent
  <2>2. disk[old.file].kind \notin {Huge, Locked} => hash = disk[old.file]
    BY <1>3, <2>1 DEF Readable
  <2> QED BY <1>5, <2>1, <2>2 DEF Current
<1> QED BY <1>1, <1>7, <1>8, <1>9, <1>10, LoneLooks

\* The row that is written tells what the look told.
LEMMA LoneUpsert ==
  ASSUME IndexTyped, NEW t \in Traces, LoneFine(t), Upsert(t), steady' = steady, missed[t] \subseteq missed'[t], steady[t] \in SUBSET Files
  PROVE  LoneFine(t)'
<1>1. PICK tr \in Tracers : tr = trace[t] /\ tr.pc = "upsert" /\ tr.look.file \in Files
  BY DEF IndexTyped, Upsert, TraceShape
<1>2. PICK file \in Files : file = tr.look.file
  BY <1>1
<1>3. PICK rows : rows = Written(t)
  OBVIOUS
<1>4. /\ rows \in Tables
      /\ rows[file] = Row(tr.look.stamp, tr.look.large, tr.look.hash, t)
      /\ DOMAIN rows = {file} \cup DOMAIN tr.batch
      /\ Merge(rows, index) \in Tables
      /\ DOMAIN Merge(rows, index) = DOMAIN rows \cup DOMAIN index
      /\ \A f \in DOMAIN rows \cup DOMAIN index : Merge(rows, index)[f] = IF f \in DOMAIN rows THEN rows[f] ELSE index[f]
  <2>1. trace[t].look.file \in Files
    BY <1>1
  <2>2. /\ rows \in Tables /\ Merge(rows, index) \in Tables
        /\ DOMAIN Merge(rows, index) = DOMAIN rows \cup DOMAIN index
        /\ \A f \in DOMAIN rows \cup DOMAIN index :
             Merge(rows, index)[f] = IF f \in DOMAIN rows THEN rows[f] ELSE index[f]
    BY <1>3, <2>1, UpsertTable
  <2>3. /\ rows[trace[t].look.file] = Row(trace[t].look.stamp, trace[t].look.large, trace[t].look.hash, t)
        /\ DOMAIN rows = {trace[t].look.file} \cup DOMAIN trace[t].batch
    BY <1>3, <2>1, UpsertTable
  <2> QED BY <1>1, <1>2, <2>2, <2>3
<1>5. \A f \in DOMAIN rows \ {file} : rows[f] = tr.batch[f]
  BY <1>1, <1>2, <1>3, BatchRow
<1>6. PICK batch \in Tables : batch = IF tr.seen % Checkpoint = 0 THEN << >> ELSE rows
  BY <1>4, EmptyTable
<1>7. PICK rec : rec = [tr EXCEPT !.pc = "look", !.look = NoLook, !.batch = batch]
  OBVIOUS
<1>8. rec.pc = "look" /\ rec.root = tr.root /\ rec.left = tr.left /\ rec.batch = batch
  BY <1>1, <1>7 DEF Tracers
<1>9. Put(t, rec) /\ UNCHANGED <<disk, stamp>>
  BY <1>1, <1>3, <1>6, <1>7 DEF Upsert, Written
<1>10. Seen(t)' = Merge(rows, index)
  <2>1. trace'[t].batch = batch
    BY <1>8, <1>9 DEF IndexTyped, Put
  <2>2. index' = IF tr.seen % Checkpoint = 0 THEN Merge(rows, index) ELSE index
    BY <1>1, <1>3 DEF Upsert, Written
  <2> QED BY <1>4, <1>6, <2>1, <2>2, MergeEmpty DEF Seen
<1>11. ASSUME NEW f \in (steady[t] \ missed'[t]) \ Ahead(rec), IsFile(f) PROVE Covered(t, f)'
  <2>1. PICK row : row = Merge(rows, index)[f]
    OBVIOUS
  <2>2. SUFFICES f \in DOMAIN Merge(rows, index) /\ Current(f, row) /\ row.run = t
    BY <1>9, <1>10, <2>1 DEF Covered, Current
  <2>3. CASE f = file
    <3>1. row = Row(tr.look.stamp, tr.look.large, tr.look.hash, t) /\ f \in DOMAIN rows
      BY <1>4, <2>1, <2>3
    <3>2. Current(file, tr.look)
      BY <1>1, <1>2, <2>3 DEF LoneFine, LookCurrent
    <3> QED BY <1>4, <2>3, <3>1, <3>2 DEF Current, Row
  <2>4. CASE f # file
    <3>1. f \in (steady[t] \ missed[t]) \ Ahead(trace[t])
      BY <1>1, <1>2, <1>8, <2>4 DEF Ahead, Walked
    <3>2. Covered(t, f)
      BY <1>11, <3>1 DEF LoneFine
    <3>3. /\ f \in DOMAIN tr.batch \cup DOMAIN index
          /\ Seen(t)[f] = IF f \in DOMAIN tr.batch THEN tr.batch[f] ELSE index[f]
      BY <1>1, <3>2, SeenTable DEF Covered
    <3>4. f \in DOMAIN rows \cup DOMAIN index /\ (f \in DOMAIN rows <=> f \in DOMAIN tr.batch)
      BY <1>4, <2>4, <3>3
    <3>5. f \in DOMAIN Merge(rows, index) /\ row = Seen(t)[f]
      BY <1>4, <1>5, <2>1, <2>4, <3>3, <3>4
    <3> QED BY <3>2, <3>5 DEF Covered
  <2> QED BY <2>3, <2>4
<1>12. LookCurrent(rec, steady[t])
  BY <1>8 DEF LookCurrent
<1> QED BY <1>9, <1>11, <1>12, LoneMove

\* After the last file of a root the files of the next are ahead.
LEMMA LoneRootDone ==
  ASSUME IndexTyped, NEW t \in Traces, LoneFine(t), RootDone(t), steady' = steady, missed[t] \subseteq missed'[t], steady[t] \in SUBSET Files
  PROVE  LoneFine(t)'
<1>1. PICK tr \in Tracers : tr = trace[t] /\ tr.pc = "look" /\ tr.left = {} /\ tr.root \in 1..Len(Roots)
  BY DEF IndexTyped, RootDone, TraceShape
<1>2. PICK next \in Nat : next = tr.root + 1
  BY <1>1
<1>3. PICK rec : /\ Put(t, rec)
                 /\ rec = IF next <= Len(Roots) THEN [tr EXCEPT !.root = next, !.left = Roots[next], !.batch = << >>]
                                                ELSE [tr EXCEPT !.pc = "prune", !.batch = << >>]
  BY <1>1, <1>2 DEF RootDone
<1>4. /\ rec.batch = << >>
      /\ \/ next <= Len(Roots) /\ rec.pc = "look" /\ rec.root = next /\ rec.left = Roots[next]
         \/ ~(next <= Len(Roots)) /\ rec.pc = "prune"
  BY <1>1, <1>3 DEF Tracers
<1>5. Seen(t)' = Seen(t)
  <2>1. trace'[t].batch = << >> /\ index' = Seen(t) /\ Seen(t) \in Tables
    BY <1>3, <1>4, SeenTable DEF IndexTyped, Put, RootDone, Commit
  <2>2. Seen(t)' = Merge(<< >>, Seen(t))
    BY <2>1 DEF Seen
  <2> QED BY <2>1, <2>2, MergeEmpty
<1>6. Ahead(trace[t]) \subseteq Ahead(rec)
  <2>1. Ahead(trace[t]) = LaterRoots(tr.root)
    BY <1>1 DEF Ahead, Walked
  <2>2. CASE next <= Len(Roots)
    BY <1>1, <1>2, <1>4, <2>1, <2>2, RootsLeft DEF Ahead, Walked
  <2>3. CASE ~(next <= Len(Roots))
    BY <1>1, <1>2, <2>1, <2>3, RootsLeft
  <2> QED BY <2>2, <2>3
<1>7. UNCHANGED <<disk, stamp>>
  BY DEF RootDone
<1>8. ASSUME NEW f \in (steady[t] \ missed'[t]) \ Ahead(rec), IsFile(f) PROVE Covered(t, f)'
  BY <1>5, <1>6, <1>7, <1>8 DEF LoneFine, Covered, Current
<1>9. LookCurrent(rec, steady[t])
  BY <1>4 DEF LookCurrent
<1> QED BY <1>3, <1>7, <1>8, <1>9, LoneMove

\* The DELETE spares the rows of the run, which are those that cover.
LEMMA LonePrune ==
  ASSUME IndexTyped, NEW t \in Traces, LoneFine(t), Prune(t), steady' = steady, missed[t] \subseteq missed'[t], steady[t] \in SUBSET Files
  PROVE  LoneFine(t)'
<1>1. PICK tr \in Tracers : tr = trace[t] /\ tr.pc = "prune" /\ tr.batch = << >>
  BY DEF IndexTyped, Prune, TraceShape
<1>2. PICK rows \in Tables : rows = index
  BY DEF IndexTyped
<1>3. PICK S \in SUBSET DOMAIN rows : S = Kept(t)
  BY <1>2 DEF Kept
<1>4. Restrict(rows, S) \in Tables /\ DOMAIN Restrict(rows, S) = S /\ \A f \in S : Restrict(rows, S)[f] = rows[f]
  BY Restricted
<1>5. PICK rec : rec = [tr EXCEPT !.pc = "report"]
  OBVIOUS
<1>6. rec.pc = "report" /\ rec.batch = << >>
  BY <1>1, <1>5 DEF Tracers
<1>7. Put(t, rec) /\ UNCHANGED <<disk, stamp>> /\ index' = Restrict(rows, S)
  BY <1>1, <1>2, <1>3, <1>5 DEF Prune
<1>8. Seen(t) = rows /\ Seen(t)' = Restrict(rows, S)
  <2>1. trace'[t].batch = << >>
    BY <1>6, <1>7 DEF IndexTyped, Put
  <2> QED BY <1>1, <1>2, <1>4, <1>7, <2>1, MergeEmpty DEF Seen
<1>9. ASSUME NEW f \in (steady[t] \ missed'[t]) \ Ahead(rec), IsFile(f) PROVE Covered(t, f)'
  <2>1. Covered(t, f)
    BY <1>1, <1>9 DEF LoneFine, Ahead, Walked
  <2>2. f \in S
    BY <1>2, <1>3, <1>8, <2>1 DEF Covered, Kept
  <2> QED BY <1>4, <1>7, <1>8, <2>1, <2>2 DEF Covered, Current
<1>10. LookCurrent(rec, steady[t])
  BY <1>6 DEF LookCurrent
<1> QED BY <1>7, <1>9, <1>10, LoneMove

\* The report leaves the rows.
LEMMA LoneReport ==
  ASSUME IndexTyped, NEW t \in Traces, LoneFine(t), Report(t), steady' = steady, missed[t] \subseteq missed'[t]
  PROVE  LoneFine(t)'
<1>1. PICK tr \in Tracers : tr = trace[t] /\ tr.pc = "report"
  BY DEF IndexTyped, Report
<1>2. PICK rec : rec = [tr EXCEPT !.pc = "record"]
  OBVIOUS
<1>3. rec.pc = "record" /\ rec.batch = tr.batch
  BY <1>1, <1>2 DEF Tracers
<1>4. Put(t, rec) /\ UNCHANGED <<disk, stamp, index>>
  BY <1>1, <1>2 DEF Report
<1>5. Ahead(trace[t]) = {} /\ LookCurrent(rec, steady[t])
  BY <1>1, <1>3 DEF Ahead, Walked, LookCurrent
<1> QED BY <1>1, <1>3, <1>4, <1>5, LoneLooks

\* A trace that begins has every file before it.
LEMMA LoneStart ==
  ASSUME IndexTyped, NEW t \in Traces, Start(t), steady'[t] = Files, \A u \in Traces \ {t} : ~Busy(u)
  PROVE  LoneFine(t)'
<1>1. PICK left \in SUBSET Files : left = Roots[1]
  BY IndexAssumption
<1>2. PICK rec : rec = [Asleep EXCEPT !.pc = "look", !.root = 1, !.left = left]
  OBVIOUS
<1>3. rec.pc = "look" /\ rec.root = 1 /\ rec.left = left
  BY <1>2 DEF Asleep
<1>4. trace'[t] = rec /\ \A u \in Traces \ {t} : trace'[u] = trace[u]
  BY <1>1, <1>2 DEF Start, Put, IndexTyped
<1>5. Files \subseteq Ahead(rec)
  BY <1>1, <1>3, RootsLeft DEF Ahead, Walked
<1>6. steady'[t] \ (Ahead(trace[t]))' = {}
  <2>1. (Ahead(trace[t]))' = Ahead(trace'[t])
    BY DEF Ahead
  <2> QED BY <1>4, <1>5, <2>1
<1>7. \A u \in Traces \ {t} : ~Busy(u)'
  BY <1>4 DEF Busy
<1>8. LookCurrent(trace[t], steady[t])'
  BY <1>3, <1>4 DEF LookCurrent
<1> QED BY <1>6, <1>7, <1>8 DEF LoneFine

\* The steps of a lone trace on its way.
LEMMA LoneGoesOn ==
  ASSUME IndexTyped, TruthInv, NEW t \in Traces, trace[t].pc \in Afoot => LoneFine(t), TraceStep(t), ~Start(t),
         (trace[t].pc \in Afoot)', steady' = steady, steady[t] \in SUBSET Files,
         missed'[t] = missed[t] \cup Passed(t)
  PROVE  LoneFine(t)'
<1>1. ASSUME NEW rec, Put(t, rec), rec.pc \notin Afoot PROVE FALSE
  <2>1. trace'[t] = rec
    BY <1>1 DEF Put, IndexTyped
  <2> QED BY <1>1, <2>1
<1>2. {"over", "completed", "failing", "interrupting"} \cap Afoot = {}
  BY DEF Afoot, Walked
<1>3. PICK tr \in Tracers : tr = trace[t]
  BY DEF IndexTyped
<1>4. ASSUME NEW pc, \/ Put(t, [Asleep EXCEPT !.pc = pc]) \/ Put(t, [trace[t] EXCEPT !.pc = pc, !.look = NoLook])
      PROVE  pc \in Afoot
  <2>1. PICK rec : Put(t, rec) /\ rec.pc = pc
    <3>1. [Asleep EXCEPT !.pc = pc].pc = pc /\ [tr EXCEPT !.pc = pc, !.look = NoLook].pc = pc
      BY DEF Asleep, Tracers
    <3> QED BY <1>3, <1>4, <3>1
  <2> QED BY <1>1, <2>1
<1>5. "completed" \notin Afoot
  BY DEF Afoot, Walked
<1>6. ~StartFails(t) /\ ~Record(t) /\ ~Handle(t) /\ ~Kill(t)
  BY <1>2, <1>4, <1>5 DEF StartFails, Record, Handle, Kill
<1>7. ~GiveUp(t) /\ ~Raise(t)
  BY <1>2, <1>4 DEF GiveUp, Raise
<1>8. LoneFine(t)
  BY <1>6, <1>7 DEF TraceStep, Skip, WalkEnds, Look, Hash, Upsert, RootDone, Prune, Report, Afoot, Walked
<1>9. ASSUME NEW f \in Files, Skip(t, f) PROVE LoneFine(t)'
  <2>1. PICK left \in SUBSET trace[t].left : left = trace[t].left \ {f}
    OBVIOUS
  <2>2. Put(t, [trace[t] EXCEPT !.left = left])
    BY <1>3, <1>9, <2>1 DEF Skip, Tracers
  <2> QED BY <1>8, <1>9, <2>2, LonePasses DEF Skip
<1>10. CASE WalkEnds(t)
  BY <1>8, <1>10, LonePasses DEF WalkEnds
<1> QED
  BY <1>6, <1>7, <1>8, <1>9, <1>10, LoneLook, LoneHash, LoneUpsert, LoneRootDone, LonePrune, LoneReport DEF TraceStep

\* A step is of one trace, and of a trace that has begun.
LEMMA OneTraceMoves ==
  ASSUME IndexTyped, NEW t \in Traces, TraceStep(t)
  PROVE  /\ \A u \in Traces \ {t} : trace'[u] = trace[u] /\ runs'[u] = runs[u]
         /\ trace'[t].pc # "none"
<1>1. PICK tr \in Tracers : tr = trace[t]
  BY DEF IndexTyped
<1>2. \A u \in Traces \ {t} : runs'[u] = runs[u]
  BY DEF TraceStep, Start, StartFails, Skip, WalkEnds, Look, Hash, Upsert, RootDone, Prune, Report, Record, GiveUp, Raise, Handle,
         Kill, Commit, IndexTyped
<1>3. ASSUME NEW rec, Put(t, rec), rec.pc # "none"
      PROVE  (\A u \in Traces \ {t} : trace'[u] = trace[u]) /\ trace'[t].pc # "none"
  BY <1>3 DEF Put, IndexTyped
<1>4. \E rec : Put(t, rec) /\ rec.pc # "none"
  <2>1. CASE Start(t) \/ StartFails(t) \/ Record(t) \/ Handle(t) \/ Kill(t)
    <3>1. PICK rec : /\ Put(t, rec)
                     /\ \/ rec = [Asleep EXCEPT !.pc = "look", !.root = 1, !.left = Roots[1]]
                        \/ rec = [Asleep EXCEPT !.pc = "over"]
                        \/ rec = [Asleep EXCEPT !.pc = "completed"]
      BY <2>1, Zenon DEF Start, StartFails, Record, Handle, Kill
    <3> QED BY <3>1 DEF Asleep
  <2>7. CASE WalkEnds(t)
    <3>1. PICK rec : Put(t, rec) /\ rec = [tr EXCEPT !.left = {}]
      BY <1>1, <2>7 DEF WalkEnds
    <3> QED BY <1>1, <2>7, <3>1 DEF WalkEnds, Tracers
  <2>2. ASSUME NEW f \in Files, Skip(t, f) \/ Look(t, f) PROVE \E rec : Put(t, rec) /\ rec.pc # "none"
    <3>1. CASE Skip(t, f)
      <4>1. PICK rec : Put(t, rec) /\ rec = [tr EXCEPT !.left = @ \ {f}]
        BY <1>1, <3>1 DEF Skip
      <4> QED BY <1>1, <3>1, <4>1 DEF Skip, Tracers
    <3>2. CASE Look(t, f)
      <4>1. PICK pc, left, seen, look : Put(t, [tr EXCEPT !.pc = pc, !.left = left, !.seen = seen, !.look = look]) /\ pc # "none"
        <5>1. PICK pc : /\ pc = IF disk[f].kind # Huge /\ KnownHash(t, f) = NoHash THEN "hash" ELSE "upsert"
                        /\ pc # "none"
          OBVIOUS
        <5> QED BY <1>1, <3>2, <5>1 DEF Look
      <4>2. [tr EXCEPT !.pc = pc, !.left = left, !.seen = seen, !.look = look].pc = pc
        BY DEF Tracers
      <4> QED BY <4>1, <4>2
    <3> QED BY <2>2, <3>1, <3>2
  <2>3. CASE Hash(t)
    <3>1. PICK hash : Put(t, [tr EXCEPT !.pc = "upsert", !.look.hash = hash])
      BY <1>1, <2>3 DEF Hash
    <3>2. [tr EXCEPT !.pc = "upsert", !.look.hash = hash].pc = "upsert"
      BY DEF Tracers
    <3> QED BY <3>1, <3>2
  <2>4. CASE Upsert(t)
    <3>1. PICK rows : rows = Written(t)
      OBVIOUS
    <3>2. PICK batch : batch = IF tr.seen % Checkpoint = 0 THEN << >> ELSE rows
      OBVIOUS
    <3>3. Put(t, [tr EXCEPT !.pc = "look", !.look = NoLook, !.batch = batch])
      BY <1>1, <2>4, <3>1, <3>2 DEF Upsert, Written
    <3>4. [tr EXCEPT !.pc = "look", !.look = NoLook, !.batch = batch].pc = "look"
      BY DEF Tracers
    <3> QED BY <3>3, <3>4
  <2>5. CASE RootDone(t)
    <3>1. PICK next, left : next = tr.root + 1 /\ left = Roots[next]
      OBVIOUS
    <3>2. PICK rec : /\ Put(t, rec)
                     /\ rec = IF next <= Len(Roots) THEN [tr EXCEPT !.root = next, !.left = left, !.batch = << >>]
                                                    ELSE [tr EXCEPT !.pc = "prune", !.batch = << >>]
      BY <1>1, <2>5, <3>1 DEF RootDone
    <3>3. rec.pc # "none"
      BY <1>1, <2>5, <3>2 DEF RootDone, Tracers
    <3> QED BY <3>2, <3>3
  <2>6. CASE Prune(t) \/ Report(t) \/ GiveUp(t) \/ Raise(t)
    <3>1. PICK pc \in {"report", "record", "failing", "interrupting"} :
            Put(t, [tr EXCEPT !.pc = pc]) \/ Put(t, [tr EXCEPT !.pc = pc, !.look = NoLook])
      BY <1>1, <2>6 DEF Prune, Report, GiveUp, Raise
    <3>2. [tr EXCEPT !.pc = pc].pc = pc /\ [tr EXCEPT !.pc = pc, !.look = NoLook].pc = pc
      BY DEF Tracers
    <3> QED BY <3>1, <3>2
  <2> QED BY <2>1, <2>2, <2>3, <2>4, <2>5, <2>6, <2>7 DEF TraceStep
<1> QED BY <1>2, <1>3, <1>4

\* Every step of a trace keeps what is known of those that were alone.
LEMMA LoneTraceStep ==
  ASSUME IndexTyped, TruthInv, LoneInv, NEW t \in Traces, Traced(t)
  PROVE  LoneInv'
<1>1. TraceStep(t) /\ (Begins(t) <=> Start(t)) /\ (~Busy(t) => Start(t) \/ StartFails(t))
  BY BeginsIsStart DEF Traced
<1>2. /\ \A u \in Traces \ {t} : trace'[u] = trace[u] /\ runs'[u] = runs[u]
      /\ trace'[t].pc # "none"
  BY <1>1, OneTraceMoves
<1>3. CASE Begins(t)
  <2>1. Start(t) /\ trace[t].pc = "none" /\ steady' = [steady EXCEPT ![t] = Files]
    BY <1>1, <1>3 DEF Traced, Start
  <2>2. alone' = [u \in Traces |-> IF u = t THEN \A v \in Traces \ {t} : ~Busy(v) ELSE alone[u] /\ ~Busy(u)]
    BY <1>3 DEF Traced
  <2>3. /\ steady' \in [Traces -> SUBSET Files] /\ DOMAIN alone' = Traces /\ steady'[t] = Files
        /\ DOMAIN missed' = Traces
    BY <1>3, <2>1, <2>2 DEF LoneInv, Traced
  <2>4. ASSUME Lone(t)' PROVE LoneFine(t)'
    <3>1. \A v \in Traces \ {t} : ~Busy(v)
      BY <2>2, <2>4, Zenon DEF Lone
    <3> QED BY <2>1, <2>3, <3>1, LoneStart
  <2>5. ASSUME NEW u \in Traces \ {t}, Lone(u)' PROVE FALSE
    <3>1. alone'[u] = (alone[u] /\ ~Busy(u))
      BY <2>2, Zenon
    <3>2. trace'[u].pc \in Afoot
      BY <2>5 DEF Lone
    <3>3. Busy(u)
      BY <1>2, <3>2 DEF Busy, Afoot, Walked
    <3> QED BY <2>5, <3>1, <3>3 DEF Lone
  <2> QED BY <1>2, <2>3, <2>4, <2>5 DEF LoneInv
<1>4. CASE ~Begins(t)
  <2>1. /\ UNCHANGED <<steady, alone>> /\ ~Start(t)
        /\ missed' = [missed EXCEPT ![t] = @ \cup Passed(t)] /\ DOMAIN missed' = Traces
        /\ missed'[t] = missed[t] \cup Passed(t) /\ \A u \in Traces \ {t} : missed'[u] = missed[u]
    BY <1>1, <1>4 DEF Traced, LoneInv
  <2>2. steady[t] \in SUBSET Files
    BY DEF LoneInv
  <2>3. ASSUME Lone(t)' PROVE LoneFine(t)'
    <3>1. alone[t] /\ (trace[t].pc \in Afoot)'
      BY <2>1, <2>3 DEF Lone
    <3>2. trace[t].pc \in Afoot => LoneFine(t)
      BY <3>1 DEF LoneInv, Lone
    <3> QED BY <1>1, <2>1, <2>2, <3>1, <3>2, LoneGoesOn
  <2>4. ASSUME NEW u \in Traces \ {t}, Lone(u)' PROVE LoneFine(u)'
    <3>1. LoneFine(u)
      BY <1>2, <2>1, <2>4 DEF Lone, LoneInv
    <3>2. StartFails(t)
      BY <1>1, <2>1, <2>4, <3>1 DEF LoneFine
    <3>3. UNCHANGED <<disk, stamp, index>> /\ trace'[t].pc = "over"
      <4>1. PICK rec : Put(t, rec) /\ rec.pc = "over"
        BY <3>2 DEF StartFails, Asleep
      <4> QED BY <3>2, <4>1 DEF StartFails, Put, IndexTyped
    <3>4. \A v \in Traces \ {u} : ~Busy(v)'
      BY <1>2, <3>1, <3>3 DEF LoneFine, Busy
    <3>5. \A f : Covered(u, f) => Covered(u, f)'
      BY <1>2, <3>3 DEF Covered, Current, Seen
    <3>6. Ahead(trace[u])' = Ahead(trace[u])
      BY <1>2 DEF Ahead
    <3>7. LookCurrent(trace[u], steady[u])'
      BY <1>2, <2>1, <3>1, <3>3 DEF LoneFine, LookCurrent, Current, IsFile
    <3> QED BY <2>1, <3>1, <3>3, <3>4, <3>5, <3>6, <3>7 DEF LoneFine, IsFile
  <2> QED BY <1>2, <2>1, <2>3, <2>4 DEF LoneInv
<1> QED BY <1>3, <1>4

\* So do the users, whose files are steady no more.
LEMMA LoneUsersStep ==
  ASSUME IndexTyped, LoneInv, UsersTouch
  PROVE  LoneInv'
<1>1. UNCHANGED <<index, runs, writer, trace, missed, alone>>
  BY DEF UsersTouch, Users, Edit, Delete
<1>2. steady' = [t \in Traces |-> {f \in steady[t] : disk'[f] = disk[f] /\ stamp'[f] = stamp[f]}]
  BY DEF UsersTouch
<1>3. steady' \in [Traces -> SUBSET Files]
  BY <1>2 DEF LoneInv
<1>4. ASSUME NEW t \in Traces, Lone(t)' PROVE LoneFine(t)'
  <2>1. LoneFine(t)
    BY <1>1, <1>4 DEF Lone, LoneInv
  <2>2. \A f \in steady'[t] : f \in steady[t] /\ disk'[f] = disk[f] /\ stamp'[f] = stamp[f]
    BY <1>2
  <2>3. (Ahead(trace[t]))' = Ahead(trace[t])
    BY <1>1 DEF Ahead
  <2>4. \A f \in steady'[t] : Covered(t, f) => Covered(t, f)'
    BY <1>1, <2>2 DEF Covered, Current, Seen
  <2>5. \A f \in (steady'[t] \ missed[t]) \ Ahead(trace[t]) : IsFile(f)' => Covered(t, f)'
    BY <2>1, <2>2, <2>4 DEF LoneFine, IsFile
  <2>6. LookCurrent(trace[t], steady[t])'
    BY <1>1, <2>1, <2>2 DEF LoneFine, LookCurrent, Current, IsFile
  <2> QED BY <1>1, <2>1, <2>3, <2>5, <2>6 DEF LoneFine, Busy
<1> QED BY <1>1, <1>3, <1>4 DEF LoneInv

\* So does a step that changes nothing.
LEMMA LoneStay ==
  ASSUME LoneInv, UNCHANGED historyVars
  PROVE  LoneInv'
BY DEF LoneInv, historyVars, Lone, LoneFine, Busy, Ahead, IsFile, Covered, Current, Seen, LookCurrent

\* At first no trace walks.
LEMMA LoneBegin ==
  ASSUME HistoryInit
  PROVE  LoneInv
<1>1. /\ steady \in [Traces -> SUBSET Files] /\ DOMAIN missed = Traces /\ DOMAIN alone = Traces
      /\ \A t \in Traces : ~alone[t]
  BY DEF HistoryInit
<1>2. \A t \in Traces : runs[t] = "none"
  BY DEF HistoryInit, IndexInit
<1> QED BY <1>1, <1>2 DEF LoneInv, Lone

\* A trace that ends and was alone has left the index complete for every file that nobody
\* touched from its start on and that it did not pass over, with the present stamp and hash:
\* the walk over the roots, the resumed hashes, the batches, the failures of other files and
\* the DELETE lose none, for every number of files, roots, traces and edits and every size
\* of the batches.
THEOREM LoneTracesComplete == HistorySpec => []AloneComplete
<1>1. HistoryInit => IndexTyped /\ TruthInv /\ LoneInv
  BY TypedStart, TruthStart, LoneBegin DEF HistoryInit
<1>2. IndexTyped /\ TruthInv /\ LoneInv /\ [HistoryNext]_historyVars => (IndexTyped /\ TruthInv /\ LoneInv)'
  <2> SUFFICES ASSUME IndexTyped, TruthInv, LoneInv, [HistoryNext]_historyVars
               PROVE  IndexTyped' /\ TruthInv' /\ LoneInv'
    OBVIOUS
  <2>1. [IndexNext]_indexVars
    BY DEF HistoryNext, historyVars, UsersTouch, Traced, IndexNext, TraceNext, indexVars
  <2>2. LoneInv'
    BY LoneUsersStep, LoneTraceStep, LoneStay DEF HistoryNext
  <2> QED BY <2>1, <2>2, TypedIndex, TruthIndex
<1>3. IndexTyped /\ LoneInv => AloneComplete
  <2> SUFFICES ASSUME IndexTyped, LoneInv, NEW t \in Traces, trace[t].pc \in {"report", "record"}, alone[t],
                      NEW f \in steady[t] \ missed[t], IsFile(f)
               PROVE  /\ f \in DOMAIN index /\ index[f].stamp = stamp[f]
                      /\ disk[f].kind \notin {Huge, Locked} => index[f].hash = disk[f]
    BY DEF AloneComplete
  <2>1. LoneFine(t)
    BY DEF LoneInv, Lone, Afoot
  <2>2. Ahead(trace[t]) = {}
    BY DEF Ahead, Walked
  <2>3. Covered(t, f)
    BY <2>1, <2>2 DEF LoneFine
  <2>4. Seen(t) = index
    BY MergeEmpty DEF IndexTyped, TraceShape, Seen
  <2> QED BY <2>3, <2>4 DEF Covered, Current
<1> QED BY <1>1, <1>2, <1>3, PTL DEF HistorySpec

-----------------------------------------------------------------------------
(* The inspection *)

\* The fields of an inspection; most of them may hold anything.
Fields ==
  {"flow", "pc", "scoped", "guard", "todo", "queue", "rows", "before", "after", "signals", "found",
   "evidence", "hits", "judged", "status", "support", "contradicted", "plan", "complete", "validated",
   "result", "outcome"}

Shape(r) == DOMAIN r = Fields

Same(r, s) ==
  /\ Shape(s) /\ s.flow = r.flow /\ s.scoped = r.scoped /\ s.guard = r.guard /\ s.result = r.result

\* An inspection that has not begun has all fields.
LEMMA IdleShape == Shape(Idle)
BY DEF Shape, Fields, Idle

\* Entering a phase keeps the request, its evidence apart.
LEMMA EnterKeeps ==
  ASSUME NEW r, Shape(r), NEW phase
  PROVE  LET s == Enter(r, phase) IN
         /\ Same(r, s) /\ s.pc = phase /\ s.found = r.found /\ s.contradicted = r.contradicted
         /\ s.outcome = r.outcome /\ s.complete = r.complete
         /\ phase \notin {"weigh", "collect"} => s.evidence = r.evidence
BY DEF Enter, Same, Shape, Fields

\* An answer keeps the request.
LEMMA AnswerKeeps ==
  ASSUME NEW r, Shape(r), NEW outcome
  PROVE  LET s == Answer(r, outcome) IN
         /\ Same(r, s) /\ s.pc = "answered" /\ s.outcome = outcome
BY DEF Answer, Same, Shape, Fields

\* Reading a file keeps the request and its phase, but for a signal that cannot be read.
LEMMA ReadOneDoes ==
  ASSUME Shape(req), ReadOne
  PROVE  /\ Same(req, req') /\ req.pc \in Reads
         /\ \/ req'.pc = req.pc /\ req'.outcome = req.outcome
            \/ req.pc = "profile" /\ req'.pc = "answered" /\ req'.outcome = "ORCHESTRATION_ERROR"
         /\ req.pc \in {"scan", "inspect"} =>
              req'.found = req.found /\ req'.evidence = req.evidence /\ req'.contradicted = req.contradicted
<1>1. PICK r : r = [req EXCEPT !.todo = @ \ {First(@)}]
  OBVIOUS
<1>2. /\ Same(req, r) /\ r.pc = req.pc /\ r.outcome = req.outcome
      /\ r.found = req.found /\ r.evidence = req.evidence /\ r.contradicted = req.contradicted
  BY <1>1 DEF Same, Shape, Fields
<1>3. r.todo = req.todo \ {First(req.todo)}
  BY <1>1 DEF Shape, Fields
<1>4. PICK f : f = First(req.todo)
  OBVIOUS
<1>5. /\ req.pc \in Reads
      /\ \/ req.pc \in Prints /\ req' = PrintFile(r, f)
         \/ req.pc = "profile" /\ req' \in {SignalFile(r, f), r}
         \/ req.pc = "search" /\ req' = SearchFile(r, f)
         \/ req.pc = "workscan" /\ req' = ScanFile(r, f)
         \/ req.pc \in {"collect", "weigh"} /\ req' = CollectFile(r, f)
         \/ req.pc = "scan" /\ req' = CandidateFile(r, f)
         \/ req.pc = "inspect" /\ req' = JudgeFile(r, f)
  BY <1>1, <1>4 DEF ReadOne, Proceed
<1>6. /\ Same(r, PrintFile(r, f)) /\ PrintFile(r, f).pc = r.pc /\ PrintFile(r, f).outcome = r.outcome
  BY <1>2 DEF PrintFile, Same, Shape, Fields
<1>7. /\ Same(r, SearchFile(r, f)) /\ SearchFile(r, f).pc = r.pc /\ SearchFile(r, f).outcome = r.outcome
  BY <1>2 DEF SearchFile, Same, Shape, Fields
<1>8. /\ Same(r, ScanFile(r, f)) /\ ScanFile(r, f).pc = r.pc /\ ScanFile(r, f).outcome = r.outcome
  BY <1>2 DEF ScanFile, Same, Shape, Fields
<1>9. /\ Same(r, CollectFile(r, f)) /\ CollectFile(r, f).pc = r.pc /\ CollectFile(r, f).outcome = r.outcome
  BY <1>2 DEF CollectFile, Same, Shape, Fields
<1>10. LET s == CandidateFile(r, f) IN
       /\ Same(r, s) /\ s.pc = r.pc /\ s.outcome = r.outcome
       /\ s.found = r.found /\ s.evidence = r.evidence /\ s.contradicted = r.contradicted
  BY <1>2 DEF CandidateFile, Same, Shape, Fields
<1>11. LET s == JudgeFile(r, f) IN
       /\ Same(r, s) /\ s.pc = r.pc /\ s.outcome = r.outcome
       /\ s.found = r.found /\ s.evidence = r.evidence /\ s.contradicted = r.contradicted
  BY <1>2 DEF JudgeFile, Same, Shape, Fields
<1>12. LET s == SignalFile(r, f) IN
       /\ Same(r, s)
       /\ \/ s.pc = r.pc /\ s.outcome = r.outcome
          \/ s.pc = "answered" /\ s.outcome = "ORCHESTRATION_ERROR"
  <2>1. Shape(r)
    BY <1>2 DEF Same
  <2> QED BY <2>1, AnswerKeeps DEF SignalFile, Same, Shape, Fields
<1>13. CASE req.pc \in Prints
  <2>1. req' = PrintFile(r, f) 
    BY <1>5, <1>13 DEF Prints
  <2> QED BY <1>2, <1>6, <1>13, <2>1 DEF Same, Prints, Reads
<1>14. CASE req.pc = "profile"
  BY <1>2, <1>5, <1>12, <1>14 DEF Same, Prints
<1>15. CASE req.pc = "search"
  BY <1>2, <1>5, <1>7, <1>15 DEF Same, Prints
<1>16. CASE req.pc = "workscan"
  BY <1>2, <1>5, <1>8, <1>16 DEF Same, Prints
<1>17. CASE req.pc \in {"collect", "weigh"}
  BY <1>2, <1>5, <1>9, <1>17 DEF Same, Prints
<1>18. CASE req.pc = "scan"
  BY <1>2, <1>5, <1>10, <1>18 DEF Same, Prints
<1>19. CASE req.pc = "inspect"
  BY <1>2, <1>5, <1>11, <1>19 DEF Same, Prints
<1> QED BY <1>5, <1>13, <1>14, <1>15, <1>16, <1>17, <1>18, <1>19

\* What comes after a phase.
LEMMA PhaseDoneDoes ==
  ASSUME Shape(req), PhaseDone
  PROVE  /\ Same(req, req') /\ req.pc \in Reads
         /\ \/ req.pc = "reprint" /\ req'.pc = "answered" /\ req'.outcome \in {"result", "changed"}
            \/ /\ req.pc # "reprint" /\ req'.outcome = req.outcome
               /\ req.pc = "search" => req'.pc = "workscan"
               /\ req.pc = "workscan" =>
                    \/ req.flow = "controller" /\ req'.pc = "plan"
                    \/ /\ req'.pc = "scan" /\ req'.contradicted = Contradicted(req)
                       /\ req'.found = req.found /\ req'.evidence = req.evidence
               /\ req.pc = "scan" => req'.pc \in {"inspect", "decide"}
               /\ req.pc = "inspect" => req'.pc = "decide"
         /\ req.pc \in {"scan", "inspect"} =>
              req'.found = req.found /\ req'.evidence = req.evidence /\ req'.contradicted = req.contradicted
<1>1. CASE req.pc = "print" /\ req' = Enter(req, "collect")
  BY <1>1, EnterKeeps DEF Reads, Prints
<1>2. CASE req.pc = "profile" /\ req' = Enter(req, "search")
  BY <1>2, EnterKeeps DEF Reads
<1>3. CASE req.pc = "search" /\ req' = Enter(req, "workscan")
  BY <1>3, EnterKeeps DEF Reads
<1>4. CASE req.pc = "workscan" /\ req' = PackageBuilt(req)
  <2>1. CASE req.flow = "controller"
    BY <1>4, <2>1 DEF PackageBuilt, Same, Shape, Fields, Reads
  <2>2. CASE req.flow # "controller"
    <3>1. PICK r : r = [req EXCEPT !.contradicted = Contradicted(req)]
      OBVIOUS
    <3>2. Same(req, r) /\ r.contradicted = Contradicted(req) /\ r.found = req.found /\ r.evidence = req.evidence
          /\ r.outcome = req.outcome
      BY <3>1 DEF Same, Shape, Fields
    <3>3. req' = Enter(r, "scan") /\ Shape(r)
      BY <1>4, <2>2, <3>1, <3>2 DEF PackageBuilt, Same
    <3>4. /\ Same(r, req') /\ req'.pc = "scan" /\ req'.found = r.found /\ req'.contradicted = r.contradicted
          /\ req'.outcome = r.outcome /\ req'.evidence = r.evidence
      BY <3>3, EnterKeeps
    <3> QED BY <1>4, <3>2, <3>4 DEF Same, Reads
  <2> QED BY <2>1, <2>2
<1>5. CASE req.pc = "weigh" /\ req' = Weighed(req)
  <2>1. PICK s : s = [req EXCEPT !.queue = Tail(@),
                        !.complete = IF req.evidence = << >> THEN @ ELSE @ \cup {Head(req.queue)}]
    OBVIOUS
  <2>2. Same(req, s) /\ s.outcome = req.outcome
    BY <2>1 DEF Same, Shape, Fields
  <2>3. req' \in {[s EXCEPT !.pc = "select"], Enter(s, "weigh")}
    BY <1>5, <2>1 DEF Weighed
  <2>4. Same(s, [s EXCEPT !.pc = "select"]) /\ [s EXCEPT !.pc = "select"].outcome = s.outcome
    BY <2>2 DEF Same, Shape, Fields
  <2>5. Same(s, Enter(s, "weigh")) /\ Enter(s, "weigh").outcome = s.outcome
    BY <2>2, EnterKeeps DEF Same
  <2> QED BY <1>5, <2>2, <2>3, <2>4, <2>5 DEF Same, Reads
<1>6. CASE req.pc = "collect" /\ req' = Enter(req, RulePhase(req))
  <2>1. PICK phase : phase = RulePhase(req)
    OBVIOUS
  <2> QED BY <1>6, <2>1, EnterKeeps DEF Reads
<1>7. CASE req.pc = "scan" /\ req' = Scanned(req)
  <2>1. CASE req.hits = {}
    BY <1>7, <2>1 DEF Scanned, RuleDone, Same, Shape, Fields, Reads
  <2>2. CASE req.hits # {}
    BY <1>7, <2>2, EnterKeeps DEF Scanned, Reads
  <2> QED BY <2>1, <2>2
<1>8. CASE req.pc = "inspect" /\ req' = Inspected(req)
  <2>1. PICK status, support : req' = RuleDone(req, status, support)
    BY <1>8 DEF Inspected
  <2> QED BY <1>8, <2>1 DEF RuleDone, Same, Shape, Fields, Reads
<1>9. CASE req.pc = "reprint" /\ req' = Reprinted(req)
  <2>1. PICK outcome \in {"result", "changed"} : req' = Answer(req, outcome)
    BY <1>9 DEF Reprinted
  <2> QED BY <1>9, <2>1, AnswerKeeps DEF Reads, Prints
<1> QED BY <1>1, <1>2, <1>3, <1>4, <1>5, <1>6, <1>7, <1>8, <1>9 DEF PhaseDone, Proceed

\* The rules end with a status, and only in front of the decision.
LEMMA RuleDoneKeeps ==
  ASSUME NEW r, Shape(r), NEW status, NEW support
  PROVE  LET s == RuleDone(r, status, support) IN
         Same(r, s) /\ s.pc = "decide" /\ s.outcome = r.outcome
BY DEF RuleDone, Same, Shape, Fields

-----------------------------------------------------------------------------
(* The invariant of the inspection *)

Late == {"investigate", "explain", "reprint", "answered"}
DiagnosticPhases == {"search", "workscan", "scan", "inspect", "decide", "investigate", "answered"}

ResultTyped ==
  /\ req.result.verdict \in {"none", "PASS", "FAIL", "NOT_APPLICABLE", "INSUFFICIENT_EVIDENCE"}
  /\ req.result.refs = DOMAIN req.result.cited
  /\ req.result.verdict \in {"PASS", "FAIL"} => req.result.refs # {} /\ req.guard # IndexPresent

\* A verdict is reached once, by the decision; from the end of the package to the decision
\* a diagnostic inspection keeps the evidence that its contradictions were looked for in.
RequestTyped ==
  /\ Shape(req)
  /\ req.flow \in Flows \cup {"none"} /\ req.outcome \in Outcomes
  /\ req.pc # "idle" => req.flow \in Flows
  /\ ResultTyped
  /\ req.result.verdict # "none" => req.pc \in Late

Diagnosed ==
  req.flow = "guard_run" =>
    /\ req.pc \in DiagnosticPhases
    /\ req.pc \in {"scan", "inspect", "decide"} => req.contradicted = Contradicted(req)

\* A step of the request that reaches no verdict.
LEMMA QuietStep ==
  ASSUME RequestTyped, ContradictionWithholds, Same(req, req'), req'.outcome \in Outcomes,
         req'.pc # "idle" => req.flow \in Flows, req.pc \notin Late \/ req'.pc \in Late,
         req.pc \notin Late \/ req'.found = req.found
  PROVE  RequestTyped' /\ ContradictionWithholds'
<1>1. req'.result = req.result /\ req'.flow = req.flow /\ req'.guard = req.guard /\ req'.scoped = req.scoped
      /\ Shape(req)'
  BY DEF Same, Shape
<1>2. RequestTyped'
  BY <1>1 DEF RequestTyped, ResultTyped
<1>3. ContradictionWithholds'
  <2>1. CASE req.result.verdict = "none"
    BY <1>1, <2>1 DEF ContradictionWithholds
  <2>2. CASE req.result.verdict # "none"
    BY <1>1, <2>2 DEF ContradictionWithholds, RequestTyped
  <2> QED BY <2>1, <2>2
<1> QED BY <1>2, <1>3

\* An inspection that opens keeps the invariant,
LEMMA OpenKeeps ==
  ASSUME RequestTyped, ContradictionWithholds, Diagnosed, NEW flow \in Flows, Open(flow)
  PROVE  RequestTyped' /\ ContradictionWithholds' /\ Diagnosed'
<1>1. PICK scoped, guard, phase :
        /\ req' = Enter([Idle EXCEPT !.flow = flow, !.scoped = scoped, !.guard = guard], phase)
        /\ phase \in {"print", "search", "profile"} /\ (flow = "guard_run" => phase = "search")
  BY DEF Open, Proceed, Slices
<1>2. PICK r : r = [Idle EXCEPT !.flow = flow, !.scoped = scoped, !.guard = guard]
  OBVIOUS
<1>3. Shape(r) /\ r.flow = flow /\ r.result = NoVerdict /\ r.outcome = "none"
  BY <1>2 DEF Idle, Shape, Fields
<1>4. Same(r, req') /\ req'.pc = phase /\ req'.outcome = "none"
  BY <1>1, <1>2, <1>3, EnterKeeps
<1>5. Shape(req)' /\ req'.flow = flow /\ req'.result = NoVerdict
  BY <1>3, <1>4 DEF Same, Shape
<1>6. RequestTyped'
  <2>1. NoVerdict.refs = DOMAIN NoVerdict.cited /\ NoVerdict.verdict = "none"
    BY DEF NoVerdict
  <2>2. req'.outcome \in Outcomes
    BY <1>4 DEF Outcomes
  <2> QED BY <1>4, <1>5, <2>1, <2>2 DEF RequestTyped, ResultTyped
<1>7. ContradictionWithholds'
  BY <1>5 DEF ContradictionWithholds, NoVerdict
<1>8. Diagnosed'
  BY <1>1, <1>4, <1>5 DEF Diagnosed, DiagnosticPhases
<1> QED BY <1>6, <1>7, <1>8

\* so does a file that is read,
LEMMA ReadOneKeeps ==
  ASSUME RequestTyped, ContradictionWithholds, Diagnosed, ReadOne
  PROVE  RequestTyped' /\ ContradictionWithholds' /\ Diagnosed'
<1>1. Shape(req)
  BY DEF RequestTyped
<1>2. /\ Same(req, req') /\ req.pc \in Reads
      /\ \/ req'.pc = req.pc /\ req'.outcome = req.outcome
         \/ req.pc = "profile" /\ req'.pc = "answered" /\ req'.outcome = "ORCHESTRATION_ERROR"
      /\ req.pc \in {"scan", "inspect"} =>
           req'.found = req.found /\ req'.evidence = req.evidence /\ req'.contradicted = req.contradicted
  BY <1>1, ReadOneDoes
<1>3. RequestTyped' /\ ContradictionWithholds'
  <2>1. req'.outcome \in Outcomes /\ req.flow \in Flows
    BY <1>2 DEF RequestTyped, Outcomes, Reads, Prints
  <2>2. CASE req.pc \notin Late
    BY <1>2, <2>1, <2>2, QuietStep
  <2>3. CASE req.pc \in Late
    <3>1. req.pc = "reprint" /\ req'.pc = "reprint" /\ req.flow # "guard_run"
      BY <1>2, <2>3 DEF Late, Reads, Prints, Diagnosed, DiagnosticPhases
    <3>2. RequestTyped' /\ req'.flow = req.flow
      BY <1>2, <2>1, <3>1 DEF RequestTyped, ResultTyped, Same, Shape, Late
    <3> QED BY <3>1, <3>2 DEF ContradictionWithholds
  <2> QED BY <2>2, <2>3
<1>4. Diagnosed'
  BY <1>2 DEF Diagnosed, DiagnosticPhases, Same, Reads, Prints, Contradicted
<1> QED BY <1>3, <1>4

\* a phase that is done,
LEMMA PhaseDoneKeeps ==
  ASSUME RequestTyped, ContradictionWithholds, Diagnosed, PhaseDone
  PROVE  RequestTyped' /\ ContradictionWithholds' /\ Diagnosed'
<1>1. Shape(req)
  BY DEF RequestTyped
<1>2. /\ Same(req, req') /\ req.pc \in Reads
      /\ \/ req.pc = "reprint" /\ req'.pc = "answered" /\ req'.outcome \in {"result", "changed"}
         \/ /\ req.pc # "reprint" /\ req'.outcome = req.outcome
            /\ req.pc = "search" => req'.pc = "workscan"
            /\ req.pc = "workscan" =>
                 \/ req.flow = "controller" /\ req'.pc = "plan"
                 \/ /\ req'.pc = "scan" /\ req'.contradicted = Contradicted(req)
                    /\ req'.found = req.found /\ req'.evidence = req.evidence
            /\ req.pc = "scan" => req'.pc \in {"inspect", "decide"}
            /\ req.pc = "inspect" => req'.pc = "decide"
      /\ req.pc \in {"scan", "inspect"} =>
           req'.found = req.found /\ req'.evidence = req.evidence /\ req'.contradicted = req.contradicted
  BY <1>1, PhaseDoneDoes
<1>3. req'.outcome \in Outcomes /\ req.flow \in Flows
  BY <1>2 DEF RequestTyped, Outcomes, Reads, Prints
<1>4. RequestTyped' /\ ContradictionWithholds'
  <2>1. CASE req.pc # "reprint"
    <3>1. req.pc \notin Late
      BY <1>2, <2>1 DEF Late, Reads, Prints
    <3> QED BY <1>2, <1>3, <3>1, QuietStep
  <2>2. CASE req.pc = "reprint"
    <3>1. req.flow # "guard_run"
      BY <2>2 DEF Diagnosed, DiagnosticPhases
    <3>2. RequestTyped' /\ req'.flow = req.flow
      BY <1>2, <1>3, <2>2 DEF RequestTyped, ResultTyped, Same, Shape, Late
    <3> QED BY <3>1, <3>2 DEF ContradictionWithholds
  <2> QED BY <2>1, <2>2
<1>5. Diagnosed'
  <2>1. CASE req.flow = "guard_run"
    <3>1. req.pc \in {"search", "workscan", "scan", "inspect"} /\ req'.scoped = req.scoped
      BY <1>2, <2>1 DEF Diagnosed, DiagnosticPhases, Reads, Prints, Same
    <3> QED BY <1>2, <2>1, <3>1 DEF Diagnosed, DiagnosticPhases, Contradicted
  <2>2. CASE req.flow # "guard_run"
    BY <1>2, <2>2 DEF Diagnosed, Same
  <2> QED BY <2>1, <2>2
<1> QED BY <1>4, <1>5

\* Steps outside the diagnostic flow that reach no verdict, and those that end a request.
LEMMA OtherKeeps ==
  ASSUME RequestTyped, ContradictionWithholds, Diagnosed, Same(req, req'), req'.outcome \in Outcomes,
         req.flow \in Flows, req.pc \notin Late, req.flow # "guard_run" \/ req'.pc = "answered"
  PROVE  RequestTyped' /\ ContradictionWithholds' /\ Diagnosed' /\ req'.flow = req.flow
<1>1. RequestTyped' /\ ContradictionWithholds'
  BY QuietStep
<1>2. Diagnosed' /\ req'.flow = req.flow
  BY DEF Diagnosed, DiagnosticPhases, Same
<1> QED BY <1>1, <1>2

\* a rule, a failed search, a plan and a selection,
LEMMA RestKeeps ==
  ASSUME RequestTyped, ContradictionWithholds, Diagnosed,
         SearchFails \/ ReadRegistry \/ StaticRule \/ BackendPlans \/ BackendRaises \/ Select
  PROVE  RequestTyped' /\ ContradictionWithholds' /\ Diagnosed' /\ req'.flow = req.flow
<1>1. Shape(req) /\ req.outcome \in Outcomes /\ (req.pc # "idle" => req.flow \in Flows)
  BY DEF RequestTyped
<1>2. CASE SearchFails
  <2>1. req' = Answer(req, "raised") /\ req.pc = "search"
    BY <1>2 DEF SearchFails, Proceed
  <2>2. Same(req, req') /\ req'.outcome \in Outcomes /\ req'.pc = "answered"
    BY <1>1, <2>1, AnswerKeeps DEF Outcomes
  <2> QED BY <1>1, <2>1, <2>2, OtherKeeps DEF Late
\* The rules and the controller are not reached by a diagnostic inspection.
<1>3. ASSUME req.pc \in {"read", "static", "plan", "select"}, Same(req, req'), req'.outcome \in Outcomes
      PROVE  RequestTyped' /\ ContradictionWithholds' /\ Diagnosed' /\ req'.flow = req.flow
  <2>1. req.flow # "guard_run" /\ req.flow \in Flows /\ req.pc \notin Late
    BY <1>1, <1>3 DEF Diagnosed, DiagnosticPhases, Late
  <2> QED BY <1>3, <2>1, OtherKeeps
<1>4. ASSUME NEW outcome \in Outcomes, req' = Answer(req, outcome)
      PROVE  Same(req, req') /\ req'.outcome \in Outcomes
  BY <1>1, <1>4, AnswerKeeps
<1>5. ASSUME NEW status, NEW support, req' = RuleDone(req, status, support)
      PROVE  Same(req, req') /\ req'.outcome \in Outcomes
  BY <1>1, <1>5, RuleDoneKeeps
<1>6. CASE ReadRegistry
  <2>1. PICK status, support : req' = RuleDone(req, status, support)
    BY <1>6 DEF ReadRegistry, Proceed
  <2> QED BY <1>3, <1>5, <1>6, <2>1 DEF ReadRegistry
<1>7. CASE StaticRule
  <2>1. PICK status, support : req' = RuleDone(req, status, support)
    BY <1>7 DEF StaticRule, Proceed
  <2> QED BY <1>3, <1>5, <1>7, <2>1 DEF StaticRule
<1>8. CASE BackendRaises
  <2>1. req' = Answer(req, "ORCHESTRATION_ERROR") /\ "ORCHESTRATION_ERROR" \in Outcomes
    BY <1>8 DEF BackendRaises, Proceed, Outcomes
  <2> QED BY <1>3, <1>4, <1>8, <2>1 DEF BackendRaises
<1>9. CASE BackendPlans
  <2>0. PICK approved : approved = Approved(DOMAIN req.signals)
    OBVIOUS
  <2>1. PICK plan \in Plans :
          \/ req' = Answer(req, PlanError(plan, approved))
          \/ req' = Answer([req EXCEPT !.plan = plan], "NO_GUARD_SELECTED")
          \/ req' = Enter([[req EXCEPT !.plan = plan] EXCEPT !.queue = SetToSeq(plan.guards)], "weigh")
    BY ONLY <1>9, <2>0, Zenon DEF BackendPlans, Proceed
  <2>2. PlanError(plan, approved) \in Outcomes
    BY DEF PlanError, Outcomes
  <2>3. PICK r : r = [req EXCEPT !.plan = plan]
    OBVIOUS
  <2>4. Same(req, r) /\ Shape(r) /\ r.outcome = req.outcome
    BY <1>1, <2>3 DEF Same, Shape, Fields
  <2>5. PICK s : s = [r EXCEPT !.queue = SetToSeq(plan.guards)]
    OBVIOUS
  <2>6. Same(r, s) /\ Shape(s) /\ s.outcome = r.outcome
    BY <2>4, <2>5 DEF Same, Shape, Fields
  <2>7. CASE req' = Answer(req, PlanError(plan, approved))
    BY <1>3, <1>4, <1>9, <2>2, <2>7 DEF BackendPlans
  <2>8. CASE req' = Answer(r, "NO_GUARD_SELECTED")
    <3>1. Same(r, req') /\ req'.outcome = "NO_GUARD_SELECTED"
      BY <2>4, <2>8, AnswerKeeps
    <3>2. Same(req, req') /\ req'.outcome \in Outcomes
      BY <2>4, <3>1 DEF Same, Outcomes
    <3> QED BY <1>3, <1>9, <3>2 DEF BackendPlans
  <2>9. CASE req' = Enter(s, "weigh")
    <3>1. Same(s, req') /\ req'.outcome = s.outcome
      BY <2>6, <2>9, EnterKeeps
    <3>2. Same(req, req') /\ req'.outcome \in Outcomes
      BY <1>1, <2>4, <2>6, <3>1 DEF Same
    <3> QED BY <1>3, <1>9, <3>2 DEF BackendPlans
  <2> QED BY <2>1, <2>3, <2>5, <2>7, <2>8, <2>9
<1>10. CASE Select
  <2>1. PICK stop, guard :
          \/ req' = Answer(req, stop) /\ stop \in Outcomes
          \/ req' = Enter([req EXCEPT !.guard = guard], "collect")
    <3>1. PICK stop : stop = SelectionStop(req.plan.guards, req.complete, Approved(DOMAIN req.signals)) /\ stop \in Outcomes
      BY DEF SelectionStop, Outcomes
    <3>2. PICK guard : guard = CHOOSE g \in req.complete : TRUE
      OBVIOUS
    <3>3. req' = Answer(req, stop) \/ req' = Enter([req EXCEPT !.guard = guard], "collect")
      BY <1>10, <3>1, <3>2 DEF Select, Proceed
    <3> QED BY <3>1, <3>3
  <2>2. CASE req' = Answer(req, stop) /\ stop \in Outcomes
    BY <1>3, <1>4, <1>10, <2>2 DEF Select
  <2>3. CASE req' = Enter([req EXCEPT !.guard = guard], "collect")
    <3>1. PICK r : r = [req EXCEPT !.guard = guard]
      OBVIOUS
    <3>2. Shape(r) /\ r.flow = req.flow /\ r.result = req.result /\ r.outcome = req.outcome
      BY <1>1, <3>1 DEF Shape, Fields
    <3>3. /\ Shape(req') /\ req'.flow = req.flow /\ req'.result = req.result /\ req'.outcome = req.outcome
          /\ req'.pc = "collect"
      <4>1. req' = Enter(r, "collect") /\ Shape(r)
        BY <2>3, <3>1, <3>2
      <4>2. Same(r, req') /\ req'.pc = "collect" /\ req'.outcome = r.outcome
        BY <4>1, EnterKeeps
      <4> QED BY <3>2, <4>2 DEF Same
    <3>4. req.flow # "guard_run" /\ req.flow \in Flows /\ req.result.verdict = "none"
      BY <1>1, <1>10 DEF Select, Diagnosed, DiagnosticPhases, RequestTyped, Late
    <3>5. RequestTyped' /\ ContradictionWithholds'
      BY <1>1, <3>3, <3>4 DEF RequestTyped, ResultTyped, Shape, ContradictionWithholds
    <3> QED BY <3>3, <3>4, <3>5 DEF Diagnosed
  <2> QED BY <2>1, <2>2, <2>3
<1> QED BY <1>2, <1>6, <1>7, <1>8, <1>9, <1>10

\* A closed inspection is printed again, explained or answered.
LEMMA CloseKeeps ==
  ASSUME NEW r, Shape(r), r.outcome \in Outcomes
  PROVE  LET s == Close(r) IN
         /\ Same(r, s) /\ s.pc \in {"reprint", "explain", "answered"} /\ s.outcome \in Outcomes
         /\ s.found = r.found
         /\ r.flow = "guard_run" => s.pc = "answered"
<1>1. CASE r.flow \in Slices
  BY <1>1, EnterKeeps DEF Close, Slices
<1>2. CASE r.flow = "controller"
  BY <1>2 DEF Close, Slices, Same, Shape, Fields
<1>3. CASE r.flow \notin Slices \cup {"controller"}
  BY <1>3 DEF Close, Answer, Same, Shape, Fields, Outcomes
<1> QED BY <1>1, <1>2, <1>3

\* The verdict and its files: a PASS or a FAIL has some, and a PASS none that contradicts.
LEMMA DecideKeeps ==
  ASSUME RequestTyped, ContradictionWithholds, Diagnosed, Decide
  PROVE  RequestTyped' /\ ContradictionWithholds' /\ Diagnosed' /\ req'.flow = req.flow
<1>1. Shape(req) /\ req.outcome \in Outcomes /\ req.pc = "decide" /\ req.flow \in Flows
  BY DEF RequestTyped, Decide
<1>2. PICK files, validated, verdict :
        /\ files = ScopedFiles(req)
        /\ verdict = Verdict(req.guard, req.status, files, validated, req.contradicted)
        /\ LET r == [req EXCEPT !.validated = validated,
                       !.result = [verdict |-> verdict, refs |-> files, cited |-> Restrict(req.evidence, files)]]
           IN req' = IF req.status = "failed" THEN [r EXCEPT !.pc = "investigate"] ELSE Close(r)
  BY DEF Decide, Proceed
<1>3. PICK result :
        result = [verdict |-> verdict, refs |-> files, cited |-> Restrict(req.evidence, files)]
  OBVIOUS
<1>4. PICK r : r = [req EXCEPT !.validated = validated, !.result = result]
  OBVIOUS
<1>5. /\ Shape(r) /\ r.flow = req.flow /\ r.scoped = req.scoped /\ r.guard = req.guard /\ r.result = result
      /\ r.outcome = req.outcome /\ r.found = req.found
  BY <1>1, <1>4 DEF Shape, Fields
<1>6. req' = IF req.status = "failed" THEN [r EXCEPT !.pc = "investigate"] ELSE Close(r)
  BY <1>2, <1>3, <1>4
<1>7. /\ Same(r, req') /\ req'.pc \in Late /\ req'.outcome \in Outcomes /\ req'.found = r.found
      /\ req.flow = "guard_run" => req'.pc \in {"investigate", "answered"}
  <2>1. CASE req.status = "failed"
    BY <1>1, <1>5, <1>6, <2>1 DEF Same, Shape, Fields, Late
  <2>2. CASE req.status # "failed"
    BY <1>1, <1>5, <1>6, <2>2, CloseKeeps DEF Late
  <2> QED BY <2>1, <2>2
<1>8. /\ Shape(req)' /\ req'.flow = req.flow /\ req'.scoped = req.scoped /\ req'.guard = req.guard
      /\ req'.result = result /\ req'.found = req.found
  BY <1>5, <1>7 DEF Same, Shape
<1>9. /\ files \subseteq DOMAIN req.evidence /\ result.refs = files
      /\ result.verdict = verdict /\ DOMAIN result.cited = files
      /\ \A f \in files : result.cited[f] = req.evidence[f]
  BY <1>2, <1>3 DEF ScopedFiles, Restrict
<1>10. /\ verdict \in {"PASS", "FAIL", "NOT_APPLICABLE", "INSUFFICIENT_EVIDENCE"}
       /\ verdict \in {"PASS", "FAIL"} => files # {} /\ req.guard # IndexPresent
       /\ verdict = "PASS" => ~req.contradicted
  BY <1>2 DEF Verdict, IndexOnly
<1>11. RequestTyped'
  BY <1>1, <1>7, <1>8, <1>9, <1>10 DEF RequestTyped, ResultTyped
<1>12. ContradictionWithholds'
  <2> SUFFICES ASSUME req.flow = "guard_run", req.scoped, verdict = "PASS", NEW f \in files \cap DOMAIN req.found
               PROVE  req.found[f] \in {NoHash, result.cited[f]}
    BY <1>8, <1>9 DEF ContradictionWithholds
  <2>1. ~Contradicted(req)
    BY <1>1, <1>10 DEF Diagnosed
  <2> QED BY <1>9, <2>1 DEF Contradicted
<1>13. Diagnosed'
  BY <1>7, <1>8 DEF Diagnosed, DiagnosticPhases
<1> QED BY <1>8, <1>11, <1>12, <1>13

\* and what follows the verdict.
LEMMA LastKeeps ==
  ASSUME RequestTyped, ContradictionWithholds, Diagnosed, Investigate \/ Explain
  PROVE  RequestTyped' /\ ContradictionWithholds' /\ Diagnosed' /\ req'.flow = req.flow
<1>1. Shape(req) /\ req.outcome \in Outcomes /\ req.flow \in Flows /\ req.pc \in Late
  BY DEF RequestTyped, Investigate, Explain, Late
<1>2. /\ Same(req, req') /\ req'.pc \in Late /\ req'.outcome \in Outcomes /\ req'.found = req.found
      /\ req.flow = "guard_run" => req'.pc = "answered"
  <2>1. ASSUME NEW outcome \in Outcomes, req' = Answer(req, outcome)
        PROVE  Same(req, req') /\ req'.pc = "answered" /\ req'.outcome \in Outcomes /\ req'.found = req.found
    BY <1>1, <2>1 DEF Answer, Same, Shape, Fields
  <2>2. CASE Investigate
    <3>1. req' = Close(req) \/ req' = Answer(req, "raised")
      BY <2>2 DEF Investigate, Proceed
    <3> QED BY <1>1, <2>1, <3>1, CloseKeeps DEF Late, Outcomes
  <2>3. CASE Explain
    <3>1. req' = Answer(req, "COMPLETED") \/ req' = Answer(req, "EXPLANATION_FAILED")
      BY <2>3 DEF Explain, Proceed
    <3> QED BY <2>1, <3>1 DEF Late, Outcomes
  <2> QED BY <2>2, <2>3
<1>3. RequestTyped' /\ ContradictionWithholds'
  BY <1>1, <1>2, QuietStep
<1>4. Diagnosed' /\ req'.flow = req.flow
  BY <1>2 DEF Diagnosed, DiagnosticPhases, Same
<1> QED BY <1>3, <1>4

\* Every step keeps the invariant of the inspection.
LEMMA RequestKept ==
  ASSUME RequestTyped, ContradictionWithholds, Diagnosed, [Next]_guardVars
  PROVE  RequestTyped' /\ ContradictionWithholds' /\ Diagnosed'
<1>1. CASE UNCHANGED req
  BY <1>1 DEF RequestTyped, ResultTyped, Shape, ContradictionWithholds, Diagnosed, Contradicted
<1>2. CASE RequestStep
  BY <1>2, ReadOneKeeps, PhaseDoneKeeps, RestKeeps, DecideKeeps, LastKeeps DEF RequestStep
<1>3. ASSUME NEW flow \in Flows, Open(flow) PROVE RequestTyped' /\ ContradictionWithholds' /\ Diagnosed'
  BY <1>3, OpenKeeps
<1> QED BY <1>1, <1>2, <1>3 DEF Next, guardVars

\* It holds before an inspection.
LEMMA RequestStart ==
  ASSUME Init
  PROVE  RequestTyped /\ ContradictionWithholds /\ Diagnosed
<1>1. /\ req.flow = "none" /\ req.outcome = "none" /\ req.pc = "idle" /\ req.result = NoVerdict
  BY DEF Init, Idle
<1>2. NoVerdict.refs = DOMAIN NoVerdict.cited /\ NoVerdict.verdict = "none"
  BY DEF NoVerdict
<1>3. Shape(req)
  BY IdleShape DEF Init
<1> QED BY <1>1, <1>2, <1>3 DEF RequestTyped, ResultTyped, Outcomes, ContradictionWithholds, Diagnosed

-----------------------------------------------------------------------------
(* An inspection of an indexed workspace *)

\* The index that the first trace left has the rows of its files.
LEMMA IndexedStart ==
  ASSUME Init
  PROVE  IndexTyped /\ TruthInv
<1>1. PICK t \in Traces :
        /\ index = [f \in {g \in Files : IsFile(g)} |-> TracedRow(f, t)]
        /\ runs = [u \in Traces |-> IF u = t THEN "root_completed" ELSE "none"]
        /\ trace = [u \in Traces |-> IF u = t THEN [Asleep EXCEPT !.pc = "completed"] ELSE Asleep]
  BY DEF Init
<1>2. /\ disk \in [Files -> Contents] /\ edits = 0 /\ edits \in 0..MaxEdits /\ writer = Nobody
      /\ stamp \in [Files -> 0..MaxEdits] /\ \A f \in Files : stamp[f] = 0
  BY IndexAssumption DEF Init
<1>3. ASSUME NEW f \in Files PROVE TracedRow(f, t) \in Rows
  <2>1. disk[f] \in Hashes /\ NoHash \in Hashes /\ stamp[f] \in 0..MaxEdits
    BY <1>2 DEF Hashes
  <2>2. PICK hash \in Hashes : hash = IF disk[f].kind \in {Huge, Locked} THEN NoHash ELSE disk[f]
    BY <2>1
  <2>3. PICK large \in BOOLEAN : large = (disk[f].kind = Huge)
    OBVIOUS
  <2>4. PICK time \in 0..MaxEdits : time = stamp[f]
    BY <2>1
  <2>5. [stamp |-> time, large |-> large, hash |-> hash, run |-> t] \in Rows
    BY DEF Rows
  <2> QED BY <2>2, <2>3, <2>4, <2>5 DEF TracedRow, Row
<1>4. index \in Tables /\ DOMAIN index = {g \in Files : IsFile(g)}
  <2>1. {g \in Files : IsFile(g)} \in SUBSET Files /\ index \in [{g \in Files : IsFile(g)} -> Rows]
    BY <1>1, <1>3
  <2>2. index \in Tables
    BY <2>1, TableOf
  <2> QED BY <1>1, <2>2
<1>5. /\ Asleep \in Tracers /\ [Asleep EXCEPT !.pc = "completed"] \in Tracers
      /\ Asleep.pc = "none" /\ Asleep.batch = << >>
      /\ [Asleep EXCEPT !.pc = "completed"].pc = "completed" /\ [Asleep EXCEPT !.pc = "completed"].batch = << >>
  <2>1. "completed" \in Positions
    BY DEF Positions
  <2>2. [Asleep EXCEPT !.pc = "completed"] \in Tracers
    BY <2>1, AsleepTyped
  <2> QED BY <2>2, AsleepTyped DEF Asleep
<1>6. /\ trace \in [Traces -> Tracers]
      /\ \A u \in Traces : trace[u].pc \in {"none", "completed"} /\ trace[u].batch = << >>
  BY <1>1, <1>5
<1>7. runs \in [Traces -> Statuses] /\ writer \notin Traces
  BY <1>1, <1>2, IndexAssumption DEF Statuses
<1>8. IndexTyped
  BY <1>2, <1>4, <1>6, <1>7 DEF IndexTyped, TraceShape
<1>9. \A f \in DOMAIN index : Faithful(f, index[f])
  BY <1>1, <1>2, <1>4 DEF Faithful, TracedRow, Row
<1>10. TruthInv
  BY <1>2, <1>6, <1>9, EmptyTable DEF TruthInv
<1> QED BY <1>8, <1>10

\* For the index an inspection is no step at all.
LEMMA InspectionKeepsIndex ==
  ASSUME IndexTyped, TruthInv, [Next]_guardVars
  PROVE  IndexTyped' /\ TruthInv'
<1>1. [IndexNext]_indexVars
  BY DEF Next, guardVars, indexVars, RequestStep, Open, Proceed, ReadOne, PhaseDone, SearchFails, ReadRegistry,
         StaticRule, Decide, Investigate, BackendPlans, BackendRaises, Select, Explain
<1> QED BY <1>1, TypedIndex, TruthIndex

\* The types of the index and of the inspection; an inspection says PASS or FAIL only
\* with files that it refers to, each with the content it was read with, and never for
\* the guard that only looks at the index.
THEOREM InspectionKeepsTypes == Spec => []TypeOK
<1>1. Init => IndexTyped /\ TruthInv /\ RequestTyped /\ ContradictionWithholds /\ Diagnosed
  BY IndexedStart, RequestStart
<1>2. IndexTyped /\ TruthInv /\ RequestTyped /\ ContradictionWithholds /\ Diagnosed /\ [Next]_guardVars
      => (IndexTyped /\ TruthInv /\ RequestTyped /\ ContradictionWithholds /\ Diagnosed)'
  BY InspectionKeepsIndex, RequestKept
<1>3. IndexTyped /\ RequestTyped => TypeOK
  BY TypedIsTypeOK DEF TypeOK, RequestTyped, ResultTyped
<1> QED BY <1>1, <1>2, <1>3, PTL DEF Spec

\* While an inspection runs the rows of the index stay truthful: it only reads.
THEOREM InspectionOnlyReads == Spec => []IndexTruthful
<1>1. Init => IndexTyped /\ TruthInv
  BY IndexedStart
<1>2. IndexTyped /\ TruthInv /\ [Next]_guardVars => (IndexTyped /\ TruthInv)'
  BY InspectionKeepsIndex
<1>3. TruthInv => IndexTruthful
  BY TruthTells
<1> QED BY <1>1, <1>2, <1>3, PTL DEF Spec

\* A diagnostic inspection under the identity of the index passes no file whose retrieved
\* row has another hash than the content that it cites.
THEOREM NoPassAgainstIndex == Spec => []ContradictionWithholds
<1>1. Init => RequestTyped /\ ContradictionWithholds /\ Diagnosed
  BY RequestStart
<1>2. RequestTyped /\ ContradictionWithholds /\ Diagnosed /\ [Next]_guardVars
      => (RequestTyped /\ ContradictionWithholds /\ Diagnosed)'
  BY RequestKept
<1> QED BY <1>1, <1>2, PTL DEF Spec

-----------------------------------------------------------------------------
(* What a vertical slice says *)

\* The history of an open inspection has the present contents.
Witnessed ==
  /\ had \in [Files -> SUBSET Contents]
  /\ req.pc \notin {"idle", "answered"} => \A f \in Files : disk[f] \in had[f]

\* The files that a fingerprint covers, and with the scripts those that decide.
Printed == Files \ Excluded(req.flow)
Watched == Printed \cup Scripts

\* What the fingerprint has of a file is one of the contents it had.
Known(f) ==
  /\ Held(f) = Unread \/ Held(f) \in had[f]
  /\ Held(f) \notin {Unread, Absent} => Held(f).kind # Locked

\* The workspace as the fingerprint has it, if it could read all of it and nothing
\* happened that it cannot see.
World == [f \in {g \in Files : Held(g) # Absent} |-> Held(f)]
Whole == Unread \notin Range(req.before)
Clear == Whole /\ Discernible
Steady == \A f \in Watched : disk[f] = Held(f)

Sources == IF req.flow = "callback" THEN Scripts ELSE {RegistryFile}
Legible == {f \in DOMAIN World : World[f].kind # Locked}
Scannable == Firsts(MaxScanned, Scripts \cap DOMAIN World)
Fit == {f \in Scannable : World[f].kind \in Named \ {Huge, Locked}}
Callers == Firsts(MaxFiles, Fit)

\* The evidence of the files that were read, all but those still to be read.
Gathered(todo) ==
  /\ todo \subseteq Sources \cap DOMAIN World
  /\ DOMAIN req.evidence \cup (todo \cap Legible) = Sources \cap Legible
  /\ \A f \in DOMAIN req.evidence : req.evidence[f] = World[f]

\* The candidates of the callback rule: of the files looked at, in their order, or all it wants.
Listed ==
  /\ req.todo \subseteq Scannable /\ req.judged = << >> /\ req.status = "none"
  /\ \/ /\ req.hits = Fit \ req.todo /\ Cardinality(req.hits) < MaxFiles
        /\ \A g \in Scannable \ req.todo, f \in req.todo : Before(g, f)
     \/ req.todo = {} /\ req.hits = Callers

SomeBinary == \E f \in Callers : World[f].kind \in Binary

\* The candidates that were inspected, all but those still to be.
Judged ==
  /\ req.hits = Callers /\ Callers # {} /\ req.todo \subseteq Callers
  /\ \/ /\ req.status = "none" /\ DOMAIN req.judged \cup req.todo = Callers
        /\ \A f \in DOMAIN req.judged : req.judged[f] = World[f] /\ World[f].kind \notin Binary
     \/ req.status = "blocked" /\ SomeBinary

\* What the rule says of the world.
CallbackSaid ==
  LET kinds == KindsOf(Restrict(World, Callers))
  IN CASE Callers = {} -> req.status = "not_applicable" /\ req.support = {}
       [] Callers # {} /\ SomeBinary -> req.status = "blocked" /\ req.support = {}
       [] OTHER -> req.status = CallbackStatus(kinds) /\ req.support = CallbackSupport(kinds, req.status)

RegistrySaid ==
  IF RegistryFile \in DOMAIN World
  THEN req.status = RegistryStatus(World[RegistryFile].kind) /\ req.support = {RegistryFile}
  ELSE req.status = "not_applicable" /\ req.support = {}

Exact ==
  LET said == IF req.flow = "callback" THEN CallbackReference(World) ELSE RegistryReference(World)
  IN /\ req.result.verdict = said[1]
     /\ said[1] \in {"PASS", "FAIL"} => req.result.cited = Restrict(World, said[2])

SoFar ==
  CASE req.pc = "collect" -> Gathered(req.todo) /\ req.hits = {} /\ req.judged = << >> /\ req.status = "none"
    [] req.pc = "scan" -> Gathered({}) /\ Listed
    [] req.pc = "inspect" -> Gathered({}) /\ Judged
    [] req.pc = "read" -> Gathered({})
    [] req.pc = "decide" -> Gathered({}) /\ (IF req.flow = "callback" THEN CallbackSaid ELSE RegistrySaid)
    [] OTHER -> Exact

\* A file that the second fingerprint shows to have changed, or will show.
Betrays(f) ==
  /\ disk[f] # Held(f)
  /\ \/ f \in req.todo
     \/ f \in DOMAIN req.after /\ (f \in DOMAIN req.before => req.after[f] # req.before[f])
     \/ f \in DOMAIN req.before \ DOMAIN req.after

PhasesOf == 
  IF req.flow = "callback" THEN {"collect", "scan", "inspect", "decide", "investigate"}
                           ELSE {"collect", "read", "decide", "investigate"}

SliceInv ==
  req.flow \in Slices =>
    /\ req.pc \in {"print", "reprint", "answered"} \cup PhasesOf
    /\ req.guard = (IF req.flow = "callback" THEN Callback ELSE Loaded) /\ ~req.contradicted
    /\ req.todo \cup req.hits \subseteq Files /\ DOMAIN req.before \subseteq Printed
    /\ req.pc = "print" =>
         /\ req.todo \subseteq Printed
         /\ \A f \in Printed \ req.todo : Known(f)
         /\ req.hits = {} /\ req.judged = << >> /\ req.status = "none" /\ req.after = << >>
    /\ req.pc \in PhasesOf =>
         /\ req.after = << >>
         /\ \A f \in Printed : Known(f)
         /\ Clear /\ Steady => SoFar
    /\ req.pc = "reprint" =>
         /\ \A f \in Printed : Known(f)
         /\ Clear => Exact \/ \E f \in Printed : Betrays(f)
    /\ req.pc = "answered" /\ req.outcome = "result" => (Clear => Exact)

\* A step of the inspection itself.
Still == disk' = disk /\ had' = had /\ returned' = returned

-----------------------------------------------------------------------------
\* All fields but some are as they were.
But(r, s, names) == Shape(s) /\ \A n \in Fields \ names : s[n] = r[n]

\* The first of some files is one of them, and before the others.
LEMMA FirstIs ==
  ASSUME NEW S, S \subseteq Files, S # {}
  PROVE  First(S) \in S /\ \A g \in S : g # First(S) => Before(First(S), g)
<1> DEFINE I == {i \in DOMAIN Order : Order[i] \in S}
<1>1. DOMAIN Order = 1..Len(Order) /\ Len(Order) \in Nat
  BY GuardAssumption
<1>2. I \subseteq Nat /\ I # {}
  <2>1. PICK f \in S : f \in Range(Order)
    BY GuardAssumption
  <2>2. PICK i \in DOMAIN Order : Order[i] = f
    BY <2>1 DEF Range
  <2> QED BY <1>1, <2>1, <2>2
<1>3. PICK i \in I : \A j \in I : ~(<<j, i>> \in OpToRel(<, Nat))
  BY <1>2, NatLessThanWellFounded, WFMin
<1>4. \A j \in 1..(i - 1) : Order[j] \notin S
  <2> SUFFICES ASSUME NEW j \in 1..(i - 1), Order[j] \in S PROVE FALSE
    OBVIOUS
  <2>1. i \in 1..Len(Order) /\ j \in I /\ j < i /\ i \in Nat /\ j \in Nat
    BY <1>1
  <2>2. <<j, i>> \in OpToRel(<, Nat)
    BY <2>1 DEF OpToRel
  <2> QED BY <1>3, <2>1, <2>2
<1>5. \E k \in DOMAIN Order : /\ First(S) = Order[k] /\ Order[k] \in S
                              /\ \A j \in 1..(k - 1) : Order[j] \notin S
  BY <1>4 DEF First
<1>6. PICK k \in DOMAIN Order : First(S) = Order[k] /\ Order[k] \in S /\ \A j \in 1..(k - 1) : Order[j] \notin S
  BY <1>5
<1>7. ASSUME NEW g \in S, g # First(S) PROVE Before(First(S), g)
  <2>1. \A j \in 1..k : Order[j] # g
    <3> SUFFICES ASSUME NEW j \in 1..k, Order[j] = g PROVE FALSE
      OBVIOUS
    <3>1. j = k \/ j \in 1..(k - 1)
      BY <1>1, <1>6
    <3> QED BY <1>6, <1>7, <3>1
  <2> QED BY <1>6, <2>1 DEF Before
<1> QED BY <1>6, <1>7

\* The order of the paths is one.
LEMMA BeforeOrders ==
  /\ \A f : ~Before(f, f)
  /\ \A f, g : ~(Before(f, g) /\ Before(g, f))
<1> SUFFICES ASSUME NEW f, NEW g, Before(f, g), Before(g, f) PROVE FALSE
  OBVIOUS
<1>1. DOMAIN Order = 1..Len(Order) /\ Len(Order) \in Nat
  BY GuardAssumption
<1>2. PICK i \in DOMAIN Order : Order[i] = f /\ \A k \in 1..i : Order[k] # g
  BY DEF Before
<1>3. PICK j \in DOMAIN Order : Order[j] = g /\ \A k \in 1..j : Order[k] # f
  BY DEF Before
<1>4. i \in 1..j \/ j \in 1..i
  BY <1>1
<1> QED BY <1>2, <1>3, <1>4

\* There are finitely many files.
LEMMA FilesFinite == IsFiniteSet(Files)
<1>1. Order \in Seq(Files) /\ Range(Order) = Files /\ Len(Order) \in Nat /\ DOMAIN Order = 1..Len(Order)
  BY GuardAssumption
<1>2. Order \in Surjection(1..Len(Order), Files)
  BY <1>1 DEF Surjection, Range
<1>3. IsFiniteSet(1..Len(Order))
  BY <1>1, FS_Interval
<1> QED BY <1>2, <1>3, FS_Surjection

\* The first of a set are all of it, if they are fewer,
LEMMA FirstsAll ==
  ASSUME NEW S, S \subseteq Files, NEW n \in Nat, Cardinality(S) < n
  PROVE  Firsts(n, S) = S
<1> SUFFICES ASSUME NEW f \in S PROVE Cardinality({g \in S : Before(g, f)}) < n
  BY DEF Firsts
<1>1. IsFiniteSet(S) /\ {g \in S : Before(g, f)} \in SUBSET S
  BY FilesFinite, FS_Subset
<1>2. Cardinality({g \in S : Before(g, f)}) <= Cardinality(S)
  BY <1>1, FS_Subset
<1>3. Cardinality({g \in S : Before(g, f)}) \in Nat /\ Cardinality(S) \in Nat
  BY <1>1, FS_Subset, FS_CardinalityType
<1> QED BY <1>2, <1>3

\* and as many as are wanted, if these come before the rest.
LEMMA FirstsMany ==
  ASSUME NEW S, S \subseteq Files, NEW n \in Nat, NEW H, NEW f, f \notin H, H \cup {f} \subseteq S,
         Cardinality(H) < n, ~(Cardinality(H \cup {f}) < n),
         \A g \in H \cup {f}, h \in S \ (H \cup {f}) : Before(g, h)
  PROVE  Firsts(n, S) = H \cup {f}
<1>1. IsFiniteSet(S) /\ IsFiniteSet(H) /\ IsFiniteSet(H \cup {f})
  <2>1. IsFiniteSet(S)
    BY FilesFinite, FS_Subset
  <2>2. H \in SUBSET S /\ H \cup {f} \in SUBSET S
    OBVIOUS
  <2> QED BY <2>1, <2>2, FS_Subset
<1>2. Cardinality(H) \in Nat /\ Cardinality(H \cup {f}) = Cardinality(H) + 1
  BY <1>1, FS_AddElement, FS_CardinalityType
<1>3. ASSUME NEW g \in H \cup {f} PROVE Cardinality({h \in S : Before(h, g)}) < n
  <2>1. {h \in S : Before(h, g)} \in SUBSET ((H \cup {f}) \ {g})
    BY BeforeOrders
  <2>2. /\ IsFiniteSet((H \cup {f}) \ {g}) /\ Cardinality((H \cup {f}) \ {g}) = Cardinality(H)
    <3>1. PICK K : K = H \cup {f}
      OBVIOUS
    <3>2. IsFiniteSet(K \ {g}) /\ Cardinality(K \ {g}) = Cardinality(K) - 1
      BY <1>1, <1>3, <3>1, FS_RemoveElement
    <3>3. Cardinality(K) - 1 = Cardinality(H)
      BY <1>2, <3>1
    <3> QED BY <3>1, <3>2, <3>3
  <2>3. /\ Cardinality({h \in S : Before(h, g)}) <= Cardinality(H)
        /\ Cardinality({h \in S : Before(h, g)}) \in Nat
    BY <2>1, <2>2, FS_Subset, FS_CardinalityType
  <2> QED BY <1>2, <2>3
<1>4. ASSUME NEW g \in S \ (H \cup {f}) PROVE ~(Cardinality({h \in S : Before(h, g)}) < n)
  <2>1. H \cup {f} \in SUBSET {h \in S : Before(h, g)} /\ {h \in S : Before(h, g)} \in SUBSET S
    BY <1>4
  <2>2. IsFiniteSet({h \in S : Before(h, g)})
    BY <1>1, <2>1, FS_Subset
  <2>3. /\ Cardinality(H \cup {f}) <= Cardinality({h \in S : Before(h, g)})
        /\ Cardinality({h \in S : Before(h, g)}) \in Nat
    BY <2>1, <2>2, FS_Subset, FS_CardinalityType
  <2> QED BY <1>2, <2>3
<1> QED BY <1>3, <1>4 DEF Firsts

\* The world is that of the fingerprint, whatever else of the request changes.
LEMMA WorldStays ==
  ASSUME Still, req'.before = req.before, req'.flow = req.flow
  PROVE  /\ Printed' = Printed /\ Watched' = Watched /\ World' = World /\ (Whole' <=> Whole) /\ (Clear' <=> Clear)
         /\ Sources' = Sources /\ Legible' = Legible /\ Scannable' = Scannable /\ Fit' = Fit /\ Callers' = Callers
         /\ (SomeBinary' <=> SomeBinary) /\ PhasesOf' = PhasesOf /\ \A f : Held(f)' = Held(f)
         /\ \A f : Known(f)' <=> Known(f)
         /\ req'.result = req.result => (Exact' <=> Exact)
<1>1. /\ Printed' = Printed /\ Watched' = Watched /\ Sources' = Sources /\ PhasesOf' = PhasesOf
      /\ Excluded(req.flow)' = Excluded(req.flow)
  BY DEF Printed, Watched, Sources, PhasesOf, Excluded
<1>2. \A f : Held(f)' = Held(f)
  BY <1>1 DEF Held, Still
<1>3. World' = World /\ (Whole' <=> Whole) /\ (Discernible' <=> Discernible)
  BY <1>1, <1>2 DEF World, Whole, Discernible, Still
<1>4. Legible' = Legible /\ Scannable' = Scannable /\ Fit' = Fit /\ Callers' = Callers
  BY <1>3 DEF Legible, Scannable, Fit, Callers
<1>5. SomeBinary' <=> SomeBinary
  BY <1>3, <1>4 DEF SomeBinary
<1>6. req'.result = req.result => (Exact' <=> Exact)
  BY <1>3 DEF Exact
<1>7. \A f : Known(f)' <=> Known(f)
  BY <1>2 DEF Known, Still
<1> QED BY <1>1, <1>2, <1>3, <1>4, <1>5, <1>6, <1>7 DEF Clear

\* What the phases have gathered is a matter of the request and its world.
LEMMA SoFarStays ==
  ASSUME req' = req, World' = World
  PROVE  (SoFar' <=> SoFar) /\ (Exact' <=> Exact)
<1>1. Sources' = Sources /\ Legible' = Legible /\ Scannable' = Scannable /\ Fit' = Fit /\ Callers' = Callers
  BY DEF Sources, Legible, Scannable, Fit, Callers
<1>2. (Gathered({})' <=> Gathered({})) /\ ((Gathered(req.todo))' <=> Gathered(req.todo))
  BY <1>1 DEF Gathered
<1>3. (SomeBinary' <=> SomeBinary) /\ (Exact' <=> Exact)
  BY <1>1 DEF SomeBinary, Exact
<1>4. (Listed' <=> Listed) /\ (Judged' <=> Judged)
  BY <1>1, <1>3 DEF Listed, Judged
<1>5. (CallbackSaid' <=> CallbackSaid) /\ (RegistrySaid' <=> RegistrySaid)
  BY <1>1, <1>3 DEF CallbackSaid, RegistrySaid
<1> QED BY <1>2, <1>3, <1>4, <1>5 DEF SoFar

\* The invariant is one of the request, the files and their history.
LEMMA SliceStays ==
  ASSUME SliceInv, req' = req, Still
  PROVE  SliceInv'
<1>1. /\ Printed' = Printed /\ Watched' = Watched /\ (Clear' <=> Clear) /\ PhasesOf' = PhasesOf /\ World' = World
      /\ \A f : Held(f)' = Held(f) /\ (Known(f)' <=> Known(f))
  BY WorldStays
<1>2. \A f : Betrays(f)' <=> Betrays(f)
  BY <1>1 DEF Betrays, Still
<1>3. (Steady' <=> Steady) /\ (SoFar' <=> SoFar) /\ (Exact' <=> Exact)
  BY <1>1, SoFarStays DEF Steady, Still
<1> QED BY <1>1, <1>2, <1>3 DEF SliceInv

\* What a fingerprint that could read everything has of a file.
LEMMA WholeHeld ==
  ASSUME Whole
  PROVE  \A f \in Printed : Held(f) # Unread
<1>1. Absent # Unread
  <2>1. Absent.kind = "absent" /\ Unread.kind = "null"
    BY DEF Absent, Unread, NoHash
  <2> QED BY <2>1
<1>2. \A f \in DOMAIN req.before : req.before[f] # Unread
  BY DEF Whole, Range
<1> QED BY <1>1, <1>2 DEF Held, Printed

\* The scripts that the fingerprint leaves out are as they were.
LEMMA HiddenHeld ==
  ASSUME Witnessed, Discernible, req.pc \notin {"idle", "answered"}, DOMAIN req.before \subseteq Printed,
         NEW f \in Watched \ Printed
  PROVE  disk[f] = Held(f) /\ had[f] = {disk[f]}
<1>1. f \in Scripts \cap Excluded(req.flow) /\ f \in Files /\ f \notin DOMAIN req.before
  BY GuardAssumption DEF Watched, Printed
<1>2. PICK content \in Contents : had[f] = {content}
  BY <1>1 DEF Discernible
<1>3. disk[f] = content
  BY <1>1, <1>2 DEF Witnessed
<1>4. Held(f) = CHOOSE c \in had[f] : TRUE
  BY <1>1 DEF Held
<1> QED BY <1>2, <1>3, <1>4

\* The history of an open inspection only grows.
LEMMA HistoryGrows ==
  ASSUME Witnessed, req.pc \notin {"idle", "answered"}, HistoryGoes
  PROVE  /\ returned \subseteq returned'
         /\ \A f \in Files : had[f] \subseteq had'[f] /\ disk'[f] \in had'[f]
         /\ \A f \in Files : returned' = {} /\ disk'[f] \in had[f] => disk'[f] = disk[f]
BY DEF Witnessed, HistoryGoes, Changes

\* Without a content that comes back a fingerprint that agrees again always did, and the
\* world is the same.
LEMMA ClearBack ==
  ASSUME Witnessed, SliceInv, req.flow \in Slices, req.pc \notin {"idle", "answered"}, req' = req,
         HistoryGoes, Clear'
  PROVE  /\ Clear /\ World' = World
         /\ \A f \in Printed : Known(f) /\ disk'[f] = Held(f) => disk[f] = Held(f)
         /\ Steady' => \A f \in Watched \ Printed : disk[f] = Held(f)
<1>1. DOMAIN req.before \subseteq Printed /\ Printed \subseteq Files /\ Scripts \subseteq Files
  BY GuardAssumption DEF SliceInv, Printed
<1>2. Excluded(req.flow)' = Excluded(req.flow) /\ (Whole' <=> Whole)
  BY DEF Excluded, Whole
<1>3. /\ returned' = {} /\ returned = {}
      /\ \A f \in Scripts \cap Excluded(req.flow) : \E content \in Contents : had'[f] = {content}
  BY <1>2, HistoryGrows DEF Clear, Discernible
<1>4. ASSUME NEW f \in Scripts \cap Excluded(req.flow) PROVE had'[f] = {disk[f]} /\ had[f] = {disk[f]}
  BY <1>1, <1>3, HistoryGrows DEF Witnessed
<1>5. \A f \in Files : disk[f] \in Contents \/ f \notin Scripts \cap Excluded(req.flow)
  <2> SUFFICES ASSUME NEW f \in Scripts \cap Excluded(req.flow) PROVE disk[f] \in Contents
    OBVIOUS
  <2> QED BY <1>1, <1>4 DEF Witnessed
<1>6. Clear
  <2>1. \A f \in Scripts \cap Excluded(req.flow) : \E content \in Contents : had[f] = {content}
    BY <1>1, <1>4, <1>5
  <2> QED BY <1>2, <1>3, <2>1 DEF Clear, Discernible
<1>7. \A f : Held(f)' = Held(f)
  BY <1>2, <1>4 DEF Held
<1>8. World' = World
  BY <1>7 DEF World
<1>9. ASSUME NEW f \in Printed, Known(f), disk'[f] = Held(f) PROVE disk[f] = Held(f)
  <2>1. Held(f) \in had[f]
    BY <1>2, <1>9, WholeHeld DEF Known, Clear
  <2> QED BY <1>1, <1>3, <1>9, <2>1, HistoryGrows
<1>10. \A f \in Watched \ Printed : disk[f] = Held(f)
  BY <1>1, <1>6, HiddenHeld DEF Clear
<1> QED BY <1>6, <1>8, <1>9, <1>10

\* Users keep it: once they edit nothing more is said of the phases, and a file that
\* betrays an edit still does.
LEMMA SliceUsers ==
  ASSUME Witnessed, SliceInv, req.flow \in Slices, req.pc \notin {"idle", "answered"}, req' = req, HistoryGoes
  PROVE  SliceInv'
<1>1. Printed' = Printed /\ Watched' = Watched /\ PhasesOf' = PhasesOf
  BY DEF Printed, Watched, PhasesOf, Excluded
<1>2. Printed \subseteq Files
  BY DEF Printed
<1>3. \A f \in Printed : Held(f)' = Held(f)
  BY DEF Held, Printed, Excluded
<1>4. ASSUME NEW f \in Printed, Known(f) PROVE Known(f)'
  BY <1>2, <1>3, <1>4, HistoryGrows DEF Known
<1>5. ASSUME Clear' PROVE Clear /\ (SoFar' <=> SoFar) /\ (Exact' <=> Exact)
  BY <1>5, ClearBack, SoFarStays
<1>6. ASSUME Clear', Steady', \A f \in Printed : Known(f) PROVE Steady
  <2>1. ASSUME NEW f \in Printed PROVE disk[f] = Held(f)
    <3>1. disk'[f] = Held(f)
      BY <1>1, <1>3, <1>6 DEF Steady, Watched
    <3> QED BY <1>6, <2>1, <3>1, ClearBack
  <2>2. \A f \in Watched \ Printed : disk[f] = Held(f)
    BY <1>6, ClearBack
  <2> QED BY <2>1, <2>2 DEF Steady
<1>7. ASSUME Clear', NEW f \in Printed, Known(f), Betrays(f) PROVE Betrays(f)'
  <2>1. disk'[f] # Held(f)
    BY <1>7, ClearBack DEF Betrays
  <2> QED BY <1>3, <1>7, <2>1 DEF Betrays
<1> QED BY <1>1, <1>4, <1>5, <1>6, <1>7 DEF SliceInv

\* A fingerprint of files that did not change tells what they are.
LEMMA WorldIs ==
  ASSUME Clear, Steady, \A f \in Printed : Known(f)
  PROVE  /\ \A f \in Watched : f \in DOMAIN World <=> IsFile(f)
         /\ \A f \in Watched \cap DOMAIN World :
              World[f] = disk[f] /\ (f \in Legible <=> Readable(f)) /\ (f \in Printed => f \in Legible)
<1>1. /\ DOMAIN World = {f \in Files : Held(f) # Absent}
      /\ \A f \in DOMAIN World : World[f] = Held(f)
  BY DEF World
<1>2. Watched \subseteq Files /\ \A f \in Watched : disk[f] = Held(f)
  BY GuardAssumption DEF Steady, Watched, Printed
<1>3. \A f \in Printed : Held(f) # Unread /\ Known(f)
  BY WholeHeld DEF Clear
<1> QED BY <1>1, <1>2, <1>3 DEF Known, IsFile, Readable, Legible

\* The files that a slice judges decide.
LEMMA SourcesWatched == req.flow \in Slices => Sources \subseteq Watched /\ Sources \subseteq Files
BY GuardAssumption DEF Sources, Printed, Watched, Excluded, Slices

\* A step in the middle.
LEMMA MidStep ==
  ASSUME SliceInv, req.flow \in Slices, req.pc \in PhasesOf, req'.pc \in PhasesOf, req'.flow = req.flow,
         req'.before = req.before, req'.after = req.after, req'.guard = req.guard, req'.contradicted = req.contradicted,
         req'.todo \cup req'.hits \subseteq Files, Still,
         Clear /\ Steady => SoFar'
  PROVE  SliceInv'
<1>1. /\ Printed' = Printed /\ Watched' = Watched /\ (Clear' <=> Clear) /\ PhasesOf' = PhasesOf
      /\ \A f : Held(f)' = Held(f) /\ (Known(f)' <=> Known(f))
  BY WorldStays
<1>2. Steady' <=> Steady
  BY <1>1 DEF Steady, Still
<1>3. {"print", "reprint", "answered"} \cap PhasesOf = {}
  BY DEF PhasesOf
<1> QED BY <1>1, <1>2, <1>3 DEF SliceInv

\* What holds in the middle, as hypotheses of the steps.
LEMMA MidIs ==
  ASSUME SliceInv, req.flow \in Slices, req.pc \in PhasesOf
  PROVE  /\ req.todo \subseteq Files /\ req.hits \subseteq Files
         /\ DOMAIN req.before \subseteq Printed /\ (\A f \in Printed : Known(f))
         /\ (Clear /\ Steady => SoFar) /\ req.after = << >> /\ ~req.contradicted
         /\ req.guard = (IF req.flow = "callback" THEN Callback ELSE Loaded)
BY DEF SliceInv

\* Reading takes the first of the files still to be read.
LEMMA ReadOneIs ==
  ASSUME Shape(req), ReadOne, req.todo \subseteq Files
  PROVE  \E r, f :
           /\ f \in req.todo /\ But(req, r, {"todo"}) /\ r.todo = req.todo \ {f}
           /\ \A g \in r.todo : Before(f, g)
           /\ \/ req.pc \in Prints /\ req' = PrintFile(r, f)
              \/ req.pc = "profile" /\ req' \in {SignalFile(r, f), r}
              \/ req.pc = "search" /\ req' = SearchFile(r, f)
              \/ req.pc = "workscan" /\ req' = ScanFile(r, f)
              \/ req.pc \in {"collect", "weigh"} /\ req' = CollectFile(r, f)
              \/ req.pc = "scan" /\ req' = CandidateFile(r, f)
              \/ req.pc = "inspect" /\ req' = JudgeFile(r, f)
<1>1. PICK f : f = First(req.todo)
  OBVIOUS
<1>2. PICK r : r = [req EXCEPT !.todo = @ \ {f}]
  OBVIOUS
<1>3. f \in req.todo /\ \A g \in req.todo \ {f} : Before(f, g)
  BY <1>1, FirstIs DEF ReadOne
<1>4. But(req, r, {"todo"}) /\ r.todo = req.todo \ {f}
  BY <1>2 DEF But, Shape, Fields
<1>5. \/ req.pc \in Prints /\ req' = PrintFile(r, f)
      \/ req.pc = "profile" /\ req' \in {SignalFile(r, f), r}
      \/ req.pc = "search" /\ req' = SearchFile(r, f)
      \/ req.pc = "workscan" /\ req' = ScanFile(r, f)
      \/ req.pc \in {"collect", "weigh"} /\ req' = CollectFile(r, f)
      \/ req.pc = "scan" /\ req' = CandidateFile(r, f)
      \/ req.pc = "inspect" /\ req' = JudgeFile(r, f)
  BY <1>1, <1>2 DEF ReadOne, Proceed
<1> QED BY <1>3, <1>4, <1>5

\* One file of the first fingerprint.
LEMMA SlicePrints ==
  ASSUME Still, Witnessed, Shape(req), SliceInv, req.flow \in Slices, req.pc = "print", ReadOne
  PROVE  SliceInv'
<1>0. /\ req.todo \subseteq Printed /\ req.todo \subseteq Files /\ DOMAIN req.before \subseteq Printed
      /\ \A f \in Printed \ req.todo : Known(f)
      /\ req.hits = {} /\ req.judged = << >> /\ req.status = "none" /\ req.after = << >>
  BY DEF SliceInv
<1>1. PICK r, f : /\ f \in req.todo /\ But(req, r, {"todo"}) /\ r.todo = req.todo \ {f}
                  /\ req' = PrintFile(r, f)
  BY <1>0, ReadOneIs DEF Prints
<1>2. PICK seen : seen = IF Readable(f) THEN disk[f] ELSE IF IsFile(f) THEN Unread ELSE Absent
  OBVIOUS
<1>3. r.pc = "print" /\ r.before = req.before /\ Shape(r)
  BY <1>1 DEF But, Fields
<1>4. PICK before : before = Add(req.before, f, seen)
  OBVIOUS
<1>5. req' = [r EXCEPT !.before = before]
  BY <1>1, <1>2, <1>3, <1>4 DEF PrintFile
<1>6. But(req, req', {"todo", "before"}) /\ req'.todo = req.todo \ {f} /\ req'.before = before
  BY <1>1, <1>3, <1>5 DEF But, Shape, Fields
<1>7. /\ req'.pc = "print" /\ req'.flow = req.flow /\ req'.guard = req.guard /\ req'.contradicted = req.contradicted
      /\ req'.hits = {} /\ req'.judged = << >> /\ req'.status = "none" /\ req'.after = << >>
  BY <1>0, <1>6 DEF But, Fields
<1>8. Printed' = Printed
  BY <1>7 DEF Printed, Excluded
<1>9. /\ DOMAIN before = DOMAIN req.before \cup {f} /\ before[f] = seen
      /\ \A g \in DOMAIN req.before : g # f => before[g] = req.before[g]
  BY <1>4 DEF Add
<1>10. Held(f)' = seen /\ \A g \in Printed : g # f => Held(g)' = Held(g)
  BY <1>6, <1>7, <1>9 DEF Held, Printed, Excluded
<1>11. Known(f)'
  <2>1. seen = Unread \/ seen = disk[f]
    BY <1>2 DEF IsFile
  <2>2. seen \notin {Unread, Absent} => seen.kind # Locked
    BY <1>2 DEF Readable
  <2>3. disk[f] \in had[f]
    BY <1>0, <1>1 DEF Witnessed
  <2> QED BY <1>1, <1>10, <2>1, <2>2, <2>3 DEF Known, Still
<1>12. ASSUME NEW g \in Printed \ req.todo, g # f PROVE Known(g)'
  <2>1. Known(g)
    BY <1>0
  <2> QED BY <1>10, <1>12, <2>1 DEF Known, Still
<1>13. req'.todo \subseteq Printed /\ req'.todo \cup req'.hits \subseteq Files /\ DOMAIN req'.before \subseteq Printed
  BY <1>0, <1>1, <1>6, <1>7, <1>9
<1>14. \A g \in Printed \ req'.todo : Known(g)'
  BY <1>6, <1>11, <1>12
<1> QED BY <1>7, <1>8, <1>13, <1>14 DEF SliceInv, PhasesOf

\* One file of the second.
LEMMA SliceReprints ==
  ASSUME Still, Shape(req), SliceInv, req.flow \in Slices, req.pc = "reprint", ReadOne
  PROVE  SliceInv'
<1>0. /\ req.todo \subseteq Files /\ req.hits \subseteq Files
      /\ DOMAIN req.before \subseteq Printed /\ \A f \in Printed : Known(f)
      /\ Clear => Exact \/ \E f \in Printed : Betrays(f)
  BY DEF SliceInv, PhasesOf
<1>1. PICK r, f : /\ f \in req.todo /\ But(req, r, {"todo"}) /\ r.todo = req.todo \ {f}
                  /\ req' = PrintFile(r, f)
  BY <1>0, ReadOneIs DEF Prints
<1>2. PICK seen : seen = IF Readable(f) THEN disk[f] ELSE IF IsFile(f) THEN Unread ELSE Absent
  OBVIOUS
<1>3. r.pc = "reprint" /\ r.after = req.after /\ Shape(r)
  BY <1>1 DEF But, Fields
<1>4. PICK after : after = Add(req.after, f, seen)
  OBVIOUS
<1>5. req' = [r EXCEPT !.after = after]
  BY <1>1, <1>2, <1>3, <1>4 DEF PrintFile
<1>6. But(req, req', {"todo", "after"}) /\ req'.todo = req.todo \ {f} /\ req'.after = after
  BY <1>1, <1>3, <1>5 DEF But, Shape, Fields
<1>7. /\ req'.pc = "reprint" /\ req'.flow = req.flow /\ req'.guard = req.guard /\ req'.contradicted = req.contradicted
      /\ req'.before = req.before /\ req'.result = req.result /\ req'.hits = req.hits
  BY <1>0, <1>6 DEF But, Fields
<1>8. Printed' = Printed /\ (Clear' <=> Clear) /\ (Exact' <=> Exact)
      /\ \A g : Held(g)' = Held(g) /\ (Known(g)' <=> Known(g))
  BY <1>7, WorldStays
<1>9. /\ DOMAIN after = DOMAIN req.after \cup {f} /\ after[f] = seen
      /\ \A g \in DOMAIN req.after : g # f => after[g] = req.after[g]
  BY <1>4 DEF Add
<1>10. ASSUME NEW g \in Printed, Betrays(g), Clear PROVE Betrays(g)'
  <2>1. disk[g] # Held(g) /\ (disk[g] # Held(g))'
    BY <1>8, <1>10 DEF Betrays, Still
  <2>2. CASE g = f
    <3>1. g \in DOMAIN req.before => seen # req.before[g]
      <4>1. g \in DOMAIN req.before => Held(g) = req.before[g]
        BY DEF Held
      <4>2. disk[g] # Held(g) /\ Held(g) # Unread
        BY <1>10, <2>1, WholeHeld DEF Clear
      <4> QED BY <1>2, <2>2, <4>1, <4>2 DEF Readable, IsFile
    <3> QED BY <1>6, <1>7, <1>9, <2>1, <2>2, <3>1 DEF Betrays
  <2>3. CASE g # f
    BY <1>6, <1>7, <1>9, <1>10, <2>1, <2>3 DEF Betrays
  <2> QED BY <2>2, <2>3
<1>11. \A g \in Printed : Known(g)'
  BY <1>0, <1>8
<1>12. Clear' => Exact' \/ \E g \in Printed : Betrays(g)'
  BY <1>0, <1>8, <1>10
<1>13. req'.todo \cup req'.hits \subseteq Files
  BY <1>0, <1>6, <1>7
<1> QED BY <1>7, <1>8, <1>11, <1>12, <1>13 DEF SliceInv, PhasesOf

\* One file of the evidence.
LEMMA SliceCollects ==
  ASSUME Still, Shape(req), SliceInv, req.flow \in Slices, req.pc = "collect", ReadOne
  PROVE  SliceInv'
<1>0. req.pc \in PhasesOf
  BY DEF PhasesOf
<1>1. PICK r, f : /\ f \in req.todo /\ But(req, r, {"todo"}) /\ r.todo = req.todo \ {f}
                  /\ req' = CollectFile(r, f)
  BY <1>0, MidIs, ReadOneIs DEF Prints
<1>2. PICK evidence : evidence = IF Readable(f) THEN Add(req.evidence, f, disk[f]) ELSE req.evidence
  OBVIOUS
<1>3. r.evidence = req.evidence /\ Shape(r)
  BY <1>1 DEF But, Fields
<1>4. But(req, req', {"todo", "evidence"}) /\ req'.todo = req.todo \ {f} /\ req'.evidence = evidence
  <2>1. CASE Readable(f)
    <3>1. req' = [r EXCEPT !.evidence = evidence]
      BY <1>1, <1>2, <1>3, <2>1 DEF CollectFile
    <3> QED BY <1>1, <1>3, <3>1 DEF But, Shape, Fields
  <2>2. CASE ~Readable(f)
    BY <1>1, <1>2, <1>3, <2>2 DEF CollectFile, But, Shape, Fields
  <2> QED BY <2>1, <2>2
<1>5. /\ req'.pc = "collect" /\ req'.flow = req.flow /\ req'.guard = req.guard /\ req'.contradicted = req.contradicted
      /\ req'.before = req.before /\ req'.after = req.after /\ req'.hits = req.hits /\ req'.judged = req.judged
      /\ req'.status = req.status
  BY <1>4 DEF But, Fields
<1>6. ASSUME Clear, Steady PROVE SoFar'
  <2>1. Gathered(req.todo) /\ req.hits = {} /\ req.judged = << >> /\ req.status = "none"
    BY <1>0, <1>6, MidIs DEF SoFar
  <2>2. World' = World /\ Sources' = Sources /\ Legible' = Legible
    BY <1>5, WorldStays
  <2>3. f \in Sources \cap DOMAIN World /\ World[f] = disk[f] /\ (f \in Legible <=> Readable(f))
    <3>1. f \in Sources \cap DOMAIN World
      BY <1>1, <2>1 DEF Gathered
    <3>2. f \in Watched
      BY <3>1, SourcesWatched
    <3> QED BY <1>0, <1>6, <3>1, <3>2, MidIs, WorldIs
  <2>4. /\ DOMAIN evidence = DOMAIN req.evidence \cup ({f} \cap Legible)
        /\ \A g \in DOMAIN evidence : evidence[g] = World[g]
    <3>1. CASE f \in Legible
      <4>1. evidence = Add(req.evidence, f, disk[f])
        BY <1>2, <2>3, <3>1
      <4>2. DOMAIN evidence = DOMAIN req.evidence \cup {f} /\ evidence[f] = disk[f]
            /\ \A g \in DOMAIN req.evidence : g # f => evidence[g] = req.evidence[g]
        BY <4>1 DEF Add
      <4> QED BY <2>1, <2>3, <3>1, <4>2 DEF Gathered
    <3>2. CASE f \notin Legible
      BY <1>2, <2>1, <2>3, <3>2 DEF Gathered
    <3> QED BY <3>1, <3>2
  <2>5. /\ req.todo \ {f} \subseteq Sources \cap DOMAIN World
        /\ DOMAIN evidence \cup ((req.todo \ {f}) \cap Legible) = Sources \cap Legible
    BY <1>1, <2>1, <2>4 DEF Gathered
  <2>6. Gathered(req.todo)'
    BY <1>4, <2>2, <2>4, <2>5 DEF Gathered
  <2> QED BY <1>5, <2>1, <2>6 DEF SoFar
<1>7. req'.todo \cup req'.hits \subseteq Files /\ req'.pc \in PhasesOf
  BY <1>0, <1>1, <1>2, <1>4, <1>5, MidIs DEF PhasesOf
<1> QED BY <1>0, <1>1, <1>5, <1>6, <1>7, MidStep

\* One script that may be a candidate of the callback rule.
LEMMA SliceScans ==
  ASSUME Still, Shape(req), SliceInv, req.flow = "callback", req.pc = "scan", ReadOne
  PROVE  SliceInv'
<1>0. req.pc \in PhasesOf /\ req.flow \in Slices
  BY DEF PhasesOf, Slices
<1>1. PICK r, f : /\ f \in req.todo /\ But(req, r, {"todo"}) /\ r.todo = req.todo \ {f}
                  /\ \A g \in req.todo \ {f} : Before(f, g)
                  /\ req' = CandidateFile(r, f)
  BY <1>0, MidIs, ReadOneIs DEF Prints
<1>2. PICK fits : fits = (Readable(f) /\ disk[f].kind # Huge /\ disk[f].kind \in Named)
  OBVIOUS
<1>3. r.hits = req.hits /\ Shape(r)
  BY <1>1 DEF But, Fields
<1>4. PICK hits, todo : /\ hits = IF fits THEN req.hits \cup {f} ELSE req.hits
                        /\ todo = IF fits /\ ~(Cardinality(hits) < MaxFiles) THEN {} ELSE req.todo \ {f}
  OBVIOUS
<1>5. But(req, req', {"todo", "hits"}) /\ req'.todo = todo /\ req'.hits = hits
  <2>1. CASE fits
    <3>1. req' = [r EXCEPT !.hits = hits, !.todo = todo]
      BY <1>1, <1>2, <1>3, <1>4, <2>1 DEF CandidateFile, Shape, Fields
    <3> QED BY <1>1, <1>3, <3>1 DEF But, Shape, Fields
  <2>2. CASE ~fits
    BY <1>1, <1>2, <1>3, <1>4, <2>2 DEF CandidateFile, But, Shape, Fields
  <2> QED BY <2>1, <2>2
<1>6. /\ req'.pc = "scan" /\ req'.flow = req.flow /\ req'.guard = req.guard /\ req'.contradicted = req.contradicted
      /\ req'.before = req.before /\ req'.after = req.after /\ req'.evidence = req.evidence /\ req'.judged = req.judged
      /\ req'.status = req.status
  BY <1>5 DEF But, Fields
<1>7. ASSUME Clear, Steady PROVE SoFar'
  <2>1. Gathered({}) /\ Listed
    BY <1>0, <1>7, MidIs DEF SoFar
  <2>2. /\ World' = World /\ Sources' = Sources /\ Legible' = Legible /\ Scannable' = Scannable /\ Fit' = Fit
        /\ Callers' = Callers
    BY <1>6, WorldStays
  <2>3. Scannable \subseteq Scripts \cap DOMAIN World /\ Fit \subseteq Scannable /\ Fit \subseteq Files
    BY GuardAssumption DEF Scannable, Fit, Firsts
  <2>4. /\ req.hits = Fit \ req.todo /\ Cardinality(req.hits) < MaxFiles
        /\ \A g \in Scannable \ req.todo, h \in req.todo : Before(g, h)
        /\ req.todo \subseteq Scannable /\ req.judged = << >> /\ req.status = "none"
    BY <1>1, <2>1 DEF Listed
  <2>5. f \in Scannable /\ (fits <=> f \in Fit)
    <3>1. f \in Scannable /\ f \in Watched \cap DOMAIN World
      BY <1>1, <2>3, <2>4 DEF Watched
    <3>2. World[f] = disk[f] /\ (f \in Legible <=> Readable(f))
      BY <1>0, <1>7, <3>1, MidIs, WorldIs
    <3> QED BY <1>2, <3>1, <3>2 DEF Fit, Legible
  <2>6. ASSUME todo = req.todo \ {f}, fits => Cardinality(hits) < MaxFiles PROVE Listed'
    <3>1. hits = Fit \ todo
      BY <1>1, <1>4, <2>4, <2>5, <2>6
    <3>2. Cardinality(hits) < MaxFiles
      BY <1>4, <2>4, <2>6
    <3>3. \A g \in Scannable \ todo, h \in todo : Before(g, h)
      BY <1>1, <2>4, <2>6
    <3>4. todo \subseteq Scannable
      BY <2>4, <2>6
    <3> QED BY <1>5, <1>6, <2>2, <2>4, <3>1, <3>2, <3>3, <3>4 DEF Listed
  <2>7. ASSUME fits, ~(Cardinality(hits) < MaxFiles) PROVE Listed'
    <3>1. hits = req.hits \cup {f} /\ todo = {} /\ f \notin req.hits /\ hits \subseteq Fit
      BY <1>1, <1>4, <2>4, <2>5, <2>7
    <3>2. \A g \in hits, h \in Fit \ hits : Before(g, h)
      BY <1>1, <2>3, <2>4, <3>1
    <3>3. MaxFiles \in Nat
      BY LimitAssumption
    <3>4. hits = Callers
      <4>1. PICK H, S : H = req.hits /\ S = Fit
        OBVIOUS
      <4>2. /\ S \subseteq Files /\ f \notin H /\ H \cup {f} \subseteq S /\ Cardinality(H) < MaxFiles
            /\ ~(Cardinality(H \cup {f}) < MaxFiles)
            /\ \A g \in H \cup {f}, h \in S \ (H \cup {f}) : Before(g, h)
        BY <2>3, <2>4, <2>7, <3>1, <3>2, <4>1
      <4>3. Firsts(MaxFiles, S) = H \cup {f}
        BY ONLY <3>3, <4>2, FirstsMany
      <4> QED BY <3>1, <4>1, <4>3 DEF Callers
    <3> QED BY <1>5, <1>6, <2>2, <2>4, <3>1, <3>4 DEF Listed
  <2>8. Gathered({})'
    BY <1>6, <2>1, <2>2 DEF Gathered
  <2>9. Listed'
    BY <1>4, <2>6, <2>7
  <2> QED BY <1>6, <2>8, <2>9 DEF SoFar
<1>8. req'.todo \cup req'.hits \subseteq Files /\ req'.pc \in PhasesOf
  BY <1>0, <1>1, <1>4, <1>5, <1>6, MidIs DEF PhasesOf
<1> QED BY <1>0, <1>6, <1>7, <1>8, MidStep

\* The candidates are scripts that can be read and are not too large.
LEMMA CallersAre ==
  /\ Callers \subseteq Scripts \cap Legible /\ Callers \subseteq Watched /\ Callers \subseteq Files
  /\ \A f \in Callers : World[f].kind \in Named /\ World[f].kind # Huge
BY GuardAssumption DEF Callers, Fit, Scannable, Firsts, Legible, Watched

\* One candidate.
LEMMA SliceInspects ==
  ASSUME Still, Shape(req), SliceInv, req.flow = "callback", req.pc = "inspect", ReadOne
  PROVE  SliceInv'
<1>0. req.pc \in PhasesOf /\ req.flow \in Slices
  BY DEF PhasesOf, Slices
<1>1. PICK r, f : /\ f \in req.todo /\ But(req, r, {"todo"}) /\ r.todo = req.todo \ {f}
                  /\ req' = JudgeFile(r, f)
  BY <1>0, MidIs, ReadOneIs DEF Prints
<1>2. PICK judged : judged = Add(req.judged, f, disk[f])
  OBVIOUS
<1>3. r.judged = req.judged /\ Shape(r)
  BY <1>1 DEF But, Fields
<1>4. \/ ~Readable(f) /\ req' = [r EXCEPT !.status = "failed", !.todo = {}]
      \/ Readable(f) /\ disk[f].kind \in Binary \cup {Huge} /\ req' = [r EXCEPT !.status = "blocked", !.todo = {}]
      \/ Readable(f) /\ disk[f].kind \notin Binary \cup {Huge} /\ req' = [r EXCEPT !.judged = judged]
  BY <1>1, <1>2, <1>3 DEF JudgeFile
<1>5. /\ But(req, req', {"todo", "status", "judged"}) /\ req'.todo \subseteq req.todo
      /\ \/ ~Readable(f)
         \/ Readable(f) /\ disk[f].kind \in Binary \cup {Huge} /\ req'.status = "blocked" /\ req'.todo = {}
         \/ /\ Readable(f) /\ disk[f].kind \notin Binary \cup {Huge} /\ req'.judged = judged /\ req'.status = req.status
            /\ req'.todo = req.todo \ {f}
  BY <1>1, <1>3, <1>4 DEF But, Shape, Fields
<1>6. /\ req'.pc = "inspect" /\ req'.flow = req.flow /\ req'.guard = req.guard /\ req'.contradicted = req.contradicted
      /\ req'.before = req.before /\ req'.after = req.after /\ req'.evidence = req.evidence /\ req'.hits = req.hits
  BY <1>5 DEF But, Fields
<1>7. ASSUME Clear, Steady PROVE SoFar'
  <2>1. Gathered({}) /\ Judged
    BY <1>0, <1>7, MidIs DEF SoFar
  <2>2. World' = World /\ Sources' = Sources /\ Legible' = Legible /\ Callers' = Callers /\ (SomeBinary' <=> SomeBinary)
    BY <1>6, WorldStays
  <2>3. f \in Callers /\ World[f] = disk[f] /\ Readable(f) /\ disk[f].kind # Huge
    <3>1. f \in Callers
      BY <1>1, <2>1 DEF Judged
    <3>2. f \in Watched /\ f \in Legible /\ World[f].kind # Huge
      BY <3>1, CallersAre
    <3> QED BY <1>0, <1>7, <3>1, <3>2, MidIs, WorldIs DEF Legible
  <2>4. Judged'
    <3>1. CASE disk[f].kind \in Binary
      BY <1>5, <1>6, <2>1, <2>2, <2>3, <3>1 DEF Judged, SomeBinary
    <3>2. CASE disk[f].kind \notin Binary
      <4>1. req'.judged = judged /\ req'.status = req.status /\ req'.todo = req.todo \ {f}
        BY <1>5, <2>3, <3>2
      <4>2. /\ DOMAIN judged = DOMAIN req.judged \cup {f} /\ judged[f] = World[f]
            /\ \A g \in DOMAIN req.judged : g # f => judged[g] = req.judged[g]
        BY <1>2, <2>3 DEF Add
      <4> QED BY <1>1, <1>6, <2>1, <2>2, <2>3, <3>2, <4>1, <4>2 DEF Judged
    <3> QED BY <3>1, <3>2
  <2>5. Gathered({})'
    BY <1>6, <2>1, <2>2 DEF Gathered
  <2> QED BY <1>6, <2>4, <2>5 DEF SoFar
<1>8. req'.todo \cup req'.hits \subseteq Files /\ req'.pc \in PhasesOf
  BY <1>0, <1>5, <1>6, MidIs DEF PhasesOf
<1> QED BY <1>0, <1>1, <1>6, <1>7, <1>8, MidStep

\* A phase begins with the files there are.
LEMMA EnterIs ==
  ASSUME NEW r, Shape(r), NEW phase
  PROVE  LET s == Enter(r, phase) IN
         /\ But(r, s, {"pc", "rows", "evidence", "todo"}) /\ s.pc = phase
         /\ s.evidence = IF phase \in {"weigh", "collect"} THEN << >> ELSE r.evidence
BY DEF Enter, But, Shape, Fields

\* The files of each phase of a slice.
LEMMA EnterTodo ==
  ASSUME NEW r, Shape(r), NEW phase
  PROVE  LET s == Enter(r, phase) IN
         /\ phase \in Prints => s.todo = {f \in Files \ Excluded(r.flow) : IsFile(f)}
         /\ phase = "collect" /\ r.guard = Callback => s.todo = {f \in Scripts : IsFile(f)}
         /\ phase = "collect" /\ r.guard = Loaded => s.todo = {f \in Files \cap {RegistryFile} : IsFile(f)}
         /\ phase = "scan" => s.todo = Firsts(MaxScanned, {f \in Scripts : IsFile(f)})
         /\ phase = "inspect" => s.todo = r.hits
         /\ phase = "read" => s.todo \subseteq Files
<1>1. PICK s : s = [r EXCEPT !.pc = phase, !.rows = IF phase = "search" THEN index ELSE @,
                             !.evidence = IF phase \in {"weigh", "collect"} THEN << >> ELSE @]
  OBVIOUS
<1>2. Shape(s) /\ s.pc = phase /\ s.flow = r.flow /\ s.guard = r.guard /\ s.hits = r.hits
  BY <1>1 DEF Shape, Fields
<1>3. LET files == {f \in Scope(s) : phase \in {"search", "inspect"} \/ IsFile(f)}
      IN Enter(r, phase).todo = IF phase = "scan" THEN Firsts(MaxScanned, files) ELSE files
  BY <1>1, <1>2 DEF Enter, Shape, Fields
<1>4. Patterns(Loaded, Files) = Files \cap {RegistryFile}
  BY DEF Patterns, Loaded, IndexPresent, ForbiddenRoots, ManifestGuards
<1>5. phase \in Prints => Scope(s) = Files \ Excluded(r.flow)
  BY <1>2 DEF Scope, Prints
<1>6. phase = "collect" => Scope(s) = IF r.guard = Callback THEN Scripts ELSE Patterns(r.guard, Files)
  BY <1>2 DEF Scope, Prints
<1>7. Callback # Loaded
  BY DEF Callback, Loaded
<1>8. phase = "scan" => Scope(s) = Scripts
  BY <1>2 DEF Scope, Prints
<1>9. phase = "inspect" => Scope(s) = r.hits
  BY <1>2 DEF Scope, Prints
<1>10. phase = "read" => Scope(s) = Files
  BY <1>2 DEF Scope, Prints
<1> QED BY <1>3, <1>4, <1>5, <1>6, <1>7, <1>8, <1>9, <1>10 DEF Prints

\* The evidence begins.
LEMMA SliceBegins ==
  ASSUME Still, Shape(req), SliceInv, req.flow \in Slices, req.pc = "print", PhaseDone
  PROVE  SliceInv'
<1>0. /\ req.todo = {} /\ req.hits \subseteq Files /\ DOMAIN req.before \subseteq Printed /\ (\A f \in Printed : Known(f))
      /\ req.hits = {} /\ req.judged = << >> /\ req.status = "none" /\ req.after = << >>
      /\ req.guard = (IF req.flow = "callback" THEN Callback ELSE Loaded) /\ ~req.contradicted
  BY DEF SliceInv, PhaseDone
<1>1. req' = Enter(req, "collect")
  BY DEF PhaseDone, Proceed
<1>2. But(req, req', {"pc", "rows", "evidence", "todo"}) /\ req'.pc = "collect" /\ req'.evidence = << >>
  BY <1>1, EnterIs
<1>3. /\ req'.flow = req.flow /\ req'.guard = req.guard /\ req'.contradicted = req.contradicted
      /\ req'.before = req.before /\ req'.after = req.after /\ req'.hits = req.hits /\ req'.judged = req.judged
      /\ req'.status = req.status
  BY <1>2 DEF But, Fields
<1>4. req'.todo = {f \in Sources : IsFile(f)}
  <2>1. req.guard = Callback => req'.todo = {f \in Scripts : IsFile(f)}
    BY <1>1, EnterTodo
  <2>2. req.guard = Loaded => req'.todo = {f \in Files \cap {RegistryFile} : IsFile(f)}
    BY <1>1, EnterTodo
  <2>3. Files \cap {RegistryFile} = {RegistryFile}
    BY GuardAssumption
  <2> QED BY <1>0, <2>1, <2>2, <2>3 DEF Sources
<1>5. /\ Printed' = Printed /\ Watched' = Watched /\ World' = World /\ Sources' = Sources /\ Legible' = Legible
      /\ (Clear' <=> Clear) /\ PhasesOf' = PhasesOf
      /\ \A f : Held(f)' = Held(f) /\ (Known(f)' <=> Known(f))
  BY <1>3, WorldStays
<1>6. Steady' <=> Steady
  BY <1>5 DEF Steady, Still
<1>7. ASSUME Clear, Steady PROVE SoFar'
  <2>1. \A f \in Watched : f \in DOMAIN World <=> IsFile(f)
    BY <1>0, <1>7, WorldIs
  <2>2. req'.todo = Sources \cap DOMAIN World
    BY <1>4, <2>1, SourcesWatched
  <2>3. Gathered(req.todo)'
    <3>1. Legible \subseteq DOMAIN World
      BY DEF Legible
    <3> QED BY <1>2, <1>5, <2>2, <3>1, EmptyTable DEF Gathered
  <2> QED BY <1>0, <1>2, <1>3, <2>3 DEF SoFar
<1>8. req'.todo \cup req'.hits \subseteq Files /\ "collect" \in PhasesOf
  BY <1>0, <1>3, <1>4, SourcesWatched DEF PhasesOf
<1> QED BY <1>0, <1>2, <1>3, <1>5, <1>6, <1>7, <1>8 DEF SliceInv

\* The rule begins.
LEMMA SliceRuleBegins ==
  ASSUME Still, Shape(req), SliceInv, req.flow \in Slices, req.pc = "collect", PhaseDone
  PROVE  SliceInv'
<1>0. req.pc \in PhasesOf /\ req.todo = {}
  BY DEF PhasesOf, PhaseDone
<1>1. req' = Enter(req, RulePhase(req))
  BY DEF PhaseDone, Proceed
<1>2. PICK phase : phase = RulePhase(req)
  OBVIOUS
<1>3. /\ req.flow = "callback" => phase = "scan"
      /\ req.flow = "registry" => phase = "read"
  <2>1. Callback # Loaded
    BY DEF Callback, Loaded
  <2>2. req.guard = (IF req.flow = "callback" THEN Callback ELSE Loaded)
    BY <1>0, MidIs
  <2> QED BY <1>2, <2>1, <2>2 DEF RulePhase
<1>4. req.flow \in {"callback", "registry"} /\ phase \in {"scan", "read"}
  BY <1>3 DEF Slices
<1>5. But(req, req', {"pc", "rows", "evidence", "todo"}) /\ req'.pc = phase /\ req'.evidence = req.evidence
  BY <1>1, <1>2, <1>4, EnterIs
<1>6. /\ req'.flow = req.flow /\ req'.guard = req.guard /\ req'.contradicted = req.contradicted
      /\ req'.before = req.before /\ req'.after = req.after /\ req'.hits = req.hits /\ req'.judged = req.judged
      /\ req'.status = req.status
  BY <1>5 DEF But, Fields
<1>7. (phase = "scan" => req'.todo = Firsts(MaxScanned, {f \in Scripts : IsFile(f)})) /\ (phase = "read" => req'.todo \subseteq Files)
  BY <1>1, <1>2, EnterTodo
<1>8. ASSUME Clear, Steady PROVE SoFar'
  <2>1. Gathered({}) /\ req.hits = {} /\ req.judged = << >> /\ req.status = "none"
    BY <1>0, <1>8, MidIs DEF SoFar
  <2>2. World' = World /\ Sources' = Sources /\ Legible' = Legible /\ Scannable' = Scannable /\ Fit' = Fit
    BY <1>6, WorldStays
  <2>3. Gathered({})'
    BY <1>5, <2>1, <2>2 DEF Gathered
  <2>4. CASE phase = "read"
    BY <1>5, <2>3, <2>4 DEF SoFar
  <2>5. CASE phase = "scan"
    <3>1. \A f \in Watched : f \in DOMAIN World <=> IsFile(f)
      BY <1>0, <1>8, MidIs, WorldIs
    <3>2. {f \in Scripts : IsFile(f)} = Scripts \cap DOMAIN World
      BY <3>1 DEF Watched
    <3>3. req'.todo = Scannable /\ Fit \subseteq Scannable
      BY <1>7, <2>5, <3>2 DEF Scannable, Fit
    <3>4. Cardinality({}) < MaxFiles
      BY LimitAssumption, FS_EmptySet
    <3>5. Listed'
      BY <1>6, <2>1, <2>2, <3>3, <3>4 DEF Listed
    <3> QED BY <1>5, <2>3, <2>5, <3>5 DEF SoFar
  <2> QED BY <1>4, <2>4, <2>5
<1>9. Firsts(MaxScanned, {f \in Scripts : IsFile(f)}) \subseteq Files
  BY GuardAssumption DEF Firsts
<1>10. req'.todo \cup req'.hits \subseteq Files /\ req'.pc \in PhasesOf
  BY <1>0, <1>3, <1>4, <1>5, <1>6, <1>7, <1>9, MidIs DEF PhasesOf
<1> QED BY <1>0, <1>6, <1>8, <1>10, MidStep

\* A rule ends.
LEMMA RuleDoneIs ==
  ASSUME NEW r, Shape(r), NEW status, NEW support
  PROVE  LET s == RuleDone(r, status, support) IN
         But(r, s, {"pc", "status", "support"}) /\ s.pc = "decide" /\ s.status = status /\ s.support = support
BY DEF RuleDone, But, Shape, Fields

\* A rule that says of the world what it should keeps the invariant.
LEMMA SliceRuleEnds ==
  ASSUME Still, Shape(req), SliceInv, req.flow \in Slices, req.pc \in PhasesOf, NEW status, NEW support,
         req' = RuleDone(req, status, support),
         Clear /\ Steady => Gathered({}),
         Clear /\ Steady /\ req.flow = "callback" =>
           CASE Callers = {} -> status = "not_applicable" /\ support = {}
             [] Callers # {} /\ SomeBinary -> status = "blocked" /\ support = {}
             [] OTHER -> LET kinds == KindsOf(Restrict(World, Callers))
                         IN status = CallbackStatus(kinds) /\ support = CallbackSupport(kinds, status),
         Clear /\ Steady /\ req.flow = "registry" =>
           IF RegistryFile \in DOMAIN World
           THEN status = RegistryStatus(World[RegistryFile].kind) /\ support = {RegistryFile}
           ELSE status = "not_applicable" /\ support = {}
  PROVE  SliceInv'
<1>1. But(req, req', {"pc", "status", "support"}) /\ req'.pc = "decide" /\ req'.status = status /\ req'.support = support
  BY RuleDoneIs
<1>2. /\ req'.flow = req.flow /\ req'.guard = req.guard /\ req'.contradicted = req.contradicted
      /\ req'.before = req.before /\ req'.after = req.after /\ req'.evidence = req.evidence /\ req'.todo = req.todo
      /\ req'.hits = req.hits
  BY <1>1 DEF But, Fields
<1>3. ASSUME Clear, Steady PROVE SoFar'
  <2>1. World' = World /\ Sources' = Sources /\ Legible' = Legible /\ Callers' = Callers /\ (SomeBinary' <=> SomeBinary)
    BY <1>2, WorldStays
  <2>2. Gathered({})'
    BY <1>2, <1>3, <2>1 DEF Gathered
  <2>3. req.flow = "callback" => CallbackSaid'
    BY <1>1, <1>3, <2>1 DEF CallbackSaid
  <2>4. req.flow = "registry" => RegistrySaid'
    BY <1>1, <1>3, <2>1 DEF RegistrySaid
  <2> QED BY <1>1, <1>2, <2>2, <2>3, <2>4 DEF SoFar, Slices
<1>4. req'.todo \cup req'.hits \subseteq Files /\ req'.pc \in PhasesOf
  BY <1>1, <1>2, MidIs DEF PhasesOf
<1> QED BY <1>1, <1>2, <1>3, <1>4, MidStep

\* The candidates are known.
LEMMA SliceScanned ==
  ASSUME Still, Shape(req), SliceInv, req.flow = "callback", req.pc = "scan", PhaseDone
  PROVE  SliceInv'
<1>0. req.pc \in PhasesOf /\ req.todo = {} /\ req.flow \in Slices
  BY DEF PhasesOf, PhaseDone, Slices
<1>1. req' = Scanned(req)
  BY DEF PhaseDone, Proceed
<1>2. ASSUME Clear, Steady PROVE Gathered({}) /\ req.hits = Callers /\ req.judged = << >> /\ req.status = "none"
  <2>1. Gathered({}) /\ Listed
    BY <1>0, <1>2, MidIs DEF SoFar
  <2>2. Fit = Callers \/ req.hits = Callers
    <3>1. Fit \subseteq Files /\ MaxFiles \in Nat
      BY LimitAssumption, GuardAssumption DEF Fit, Scannable, Firsts
    <3> QED BY <1>0, <2>1, <3>1, FirstsAll DEF Listed, Callers
  <2> QED BY <1>0, <2>1, <2>2 DEF Listed
<1>3. CASE req.hits = {}
  <2>1. req' = RuleDone(req, "not_applicable", {})
    BY <1>1, <1>3 DEF Scanned
  <2>2. Clear /\ Steady => Callers = {}
    BY <1>2, <1>3
  <2>3. req.flow # "registry"
    OBVIOUS
  <2> QED BY <1>0, <1>1, <1>2, <2>1, <2>2, <2>3, SliceRuleEnds
<1>4. CASE req.hits # {}
  <2>1. req' = Enter(req, "inspect")
    BY <1>1, <1>4 DEF Scanned
  <2>2. /\ But(req, req', {"pc", "rows", "evidence", "todo"}) /\ req'.pc = "inspect" /\ req'.evidence = req.evidence
        /\ req'.todo = req.hits
    BY <2>1, EnterIs, EnterTodo
  <2>3. /\ req'.flow = req.flow /\ req'.guard = req.guard /\ req'.contradicted = req.contradicted
        /\ req'.before = req.before /\ req'.after = req.after /\ req'.hits = req.hits /\ req'.judged = req.judged
        /\ req'.status = req.status
    BY <2>2 DEF But, Fields
  <2>4. ASSUME Clear, Steady PROVE SoFar'
    <3>1. World' = World /\ Sources' = Sources /\ Legible' = Legible /\ Callers' = Callers
      BY <2>3, WorldStays
    <3>2. Gathered({})'
      BY <1>2, <2>2, <2>4, <3>1 DEF Gathered
    <3>3. Judged'
      BY <1>2, <1>4, <2>2, <2>3, <2>4, <3>1, EmptyTable DEF Judged
    <3> QED BY <2>2, <3>2, <3>3 DEF SoFar
  <2>5. req'.todo \cup req'.hits \subseteq Files
    BY <1>0, <2>2, <2>3, MidIs
  <2>6. req'.pc \in PhasesOf
    BY <2>2 DEF PhasesOf
  <2> QED BY <1>0, <1>1, <2>3, <2>4, <2>5, <2>6, MidStep
<1> QED BY <1>3, <1>4

\* The candidates are judged.
LEMMA SliceInspected ==
  ASSUME Still, Shape(req), SliceInv, req.flow = "callback", req.pc = "inspect", PhaseDone
  PROVE  SliceInv'
<1>0. req.pc \in PhasesOf /\ req.todo = {} /\ req.flow \in Slices
  BY DEF PhasesOf, PhaseDone, Slices
<1>1. req' = Inspected(req)
  BY DEF PhaseDone, Proceed
<1>2. ASSUME Clear, Steady
      PROVE  /\ Gathered({}) /\ Callers # {}
             /\ \/ req.status = "none" /\ ~SomeBinary /\ KindsOf(req.judged) = KindsOf(Restrict(World, Callers))
                \/ req.status = "blocked" /\ SomeBinary
  <2>1. Gathered({}) /\ Judged
    BY <1>0, <1>2, MidIs DEF SoFar
  <2>2. CASE req.status = "blocked" /\ SomeBinary
    BY <2>1, <2>2 DEF Judged
  <2>3. CASE /\ req.status = "none" /\ DOMAIN req.judged = Callers
             /\ \A f \in DOMAIN req.judged : req.judged[f] = World[f] /\ World[f].kind \notin Binary
    <3>1. ~SomeBinary
      BY <2>3 DEF SomeBinary
    <3>2. DOMAIN Restrict(World, Callers) = Callers /\ \A f \in Callers : Restrict(World, Callers)[f] = World[f]
      BY DEF Restrict
    <3>3. KindsOf(req.judged) = [f \in Callers |-> World[f].kind]
      BY <2>3 DEF KindsOf
    <3>4. KindsOf(Restrict(World, Callers)) = [f \in Callers |-> World[f].kind]
      BY <3>2 DEF KindsOf
    <3> QED BY <2>1, <2>3, <3>1, <3>3, <3>4 DEF Judged
  <2> QED BY <1>0, <2>1, <2>2, <2>3 DEF Judged
<1>3. req.flow # "registry"
  OBVIOUS
<1>4. CASE req.status # "none"
  <2>1. req' = RuleDone(req, req.status, {})
    BY <1>1, <1>4 DEF Inspected
  <2>2. PICK status : status = req.status
    OBVIOUS
  <2>3. Clear /\ Steady => Gathered({}) /\ Callers # {} /\ SomeBinary /\ status = "blocked"
    BY <1>2, <1>4, <2>2
  <2>4. req' = RuleDone(req, status, {})
    BY <2>1, <2>2
  <2> QED BY ONLY Still, Shape(req), SliceInv, <1>0, <1>1, <1>3, <2>3, <2>4, SliceRuleEnds
<1>5. CASE req.status = "none"
  <2>1. PICK status, support :
          /\ status = CallbackStatus(KindsOf(req.judged)) /\ support = CallbackSupport(KindsOf(req.judged), status)
          /\ req' = RuleDone(req, status, support)
    BY <1>1, <1>5 DEF Inspected
  <2>2. ASSUME Clear, Steady
        PROVE /\ Gathered({}) /\ Callers # {} /\ ~SomeBinary
              /\ LET kinds == KindsOf(Restrict(World, Callers))
                 IN status = CallbackStatus(kinds) /\ support = CallbackSupport(kinds, status)
    BY <1>2, <1>5, <2>1, <2>2
  <2> QED BY ONLY Still, Shape(req), SliceInv, <1>0, <1>1, <1>3, <2>1, <2>2, SliceRuleEnds
<1> QED BY <1>4, <1>5

\* The registry slice leaves no file out.
LEMMA RegistryPrinted ==
  ASSUME req.flow = "registry"
  PROVE  RegistryFile \in Printed /\ RegistryFile \in Watched
BY GuardAssumption DEF Printed, Watched, Excluded

\* The registry is read.
LEMMA SliceReads ==
  ASSUME Still, Shape(req), SliceInv, req.flow = "registry", ReadRegistry
  PROVE  SliceInv'
<1>0. req.pc \in PhasesOf /\ req.flow \in Slices /\ req.pc = "read"
  BY DEF PhasesOf, Slices, ReadRegistry
<1>1. PICK status, support :
        /\ req' = RuleDone(req, status, support)
        /\ ~IsFile(RegistryFile) => status = "not_applicable" /\ support = {}
        /\ IsFile(RegistryFile) /\ Readable(RegistryFile) =>
             status = RegistryStatus(disk[RegistryFile].kind) /\ support = {RegistryFile}
  BY DEF ReadRegistry, Proceed, Readable
<1>2. ASSUME Clear, Steady
      PROVE  /\ Gathered({})
             /\ IF RegistryFile \in DOMAIN World
                THEN status = RegistryStatus(World[RegistryFile].kind) /\ support = {RegistryFile}
                ELSE status = "not_applicable" /\ support = {}
  <2>1. Gathered({})
    BY <1>0, <1>2, MidIs DEF SoFar
  <2>2. RegistryFile \in Printed /\ RegistryFile \in Watched
    BY RegistryPrinted
  <2>3. /\ RegistryFile \in DOMAIN World <=> IsFile(RegistryFile)
        /\ RegistryFile \in DOMAIN World =>
             World[RegistryFile] = disk[RegistryFile] /\ Readable(RegistryFile) /\ RegistryFile \in Legible
    BY <1>0, <1>2, <2>2, MidIs, WorldIs
  <2> QED BY <1>1, <2>1, <2>3
<1>3. req.flow # "callback"
  OBVIOUS
<1> QED BY ONLY Still, Shape(req), SliceInv, <1>0, <1>1, <1>2, <1>3, SliceRuleEnds

\* The second fingerprint is the first.
LEMMA SliceReprinted ==
  ASSUME Still, Shape(req), SliceInv, req.flow \in Slices, req.pc = "reprint", PhaseDone
  PROVE  SliceInv'
<1>0. /\ req.todo = {} /\ req.hits \subseteq Files /\ DOMAIN req.before \subseteq Printed
      /\ Clear => Exact \/ \E f \in Printed : Betrays(f)
      /\ req.guard = (IF req.flow = "callback" THEN Callback ELSE Loaded) /\ ~req.contradicted
  BY DEF SliceInv, PhaseDone
<1>1. req' = Reprinted(req)
  BY DEF PhaseDone, Proceed
<1>2. PICK outcome : outcome = IF req.before = req.after THEN "result" ELSE "changed"
  OBVIOUS
<1>3. But(req, req', {"pc", "outcome"}) /\ req'.pc = "answered" /\ req'.outcome = outcome
  BY <1>1, <1>2 DEF Reprinted, Answer, But, Shape, Fields
<1>4. /\ req'.flow = req.flow /\ req'.guard = req.guard /\ req'.contradicted = req.contradicted
      /\ req'.before = req.before /\ req'.todo = {} /\ req'.hits = req.hits /\ req'.result = req.result
  BY <1>0, <1>3 DEF But, Fields
<1>5. Printed' = Printed /\ (Clear' <=> Clear) /\ (Exact' <=> Exact)
  BY <1>4, WorldStays
<1>6. ASSUME outcome = "result", Clear PROVE Exact
  <2>1. req.before = req.after
    BY <1>2, <1>6
  <2>2. \A f : ~Betrays(f)
    BY <1>0, <2>1 DEF Betrays
  <2> QED BY <1>0, <1>6, <2>2
<1>7. "answered" \notin PhasesOf'
  BY DEF PhasesOf
<1> QED BY <1>0, <1>3, <1>4, <1>5, <1>6, <1>7 DEF SliceInv

\* The second fingerprint begins, with an exact verdict or with a file that betrays.
LEMMA SliceCloses ==
  ASSUME Still, Witnessed, SliceInv, Shape(req), req.flow \in Slices, req.pc \in PhasesOf,
         NEW r, But(req, r, {"validated", "result"}), req' = Close(r),
         Clear /\ Steady => Exact'
  PROVE  SliceInv'
<1>0. /\ DOMAIN req.before \subseteq Printed /\ (\A f \in Printed : Known(f)) /\ req.after = << >>
      /\ req.guard = (IF req.flow = "callback" THEN Callback ELSE Loaded) /\ ~req.contradicted
      /\ req.hits \subseteq Files
  BY MidIs
<1>1. r.flow = req.flow /\ Shape(r)
  BY DEF But, Fields
<1>2. req' = Enter(r, "reprint")
  BY <1>1 DEF Close, Slices
<1>3. /\ But(r, req', {"pc", "rows", "evidence", "todo"}) /\ req'.pc = "reprint"
      /\ req'.todo = {f \in Files \ Excluded(r.flow) : IsFile(f)}
  <2>1. But(r, req', {"pc", "rows", "evidence", "todo"}) /\ req'.pc = "reprint"
    BY <1>1, <1>2, EnterIs
  <2>2. "reprint" \in Prints
    BY DEF Prints
  <2>3. req'.todo = {f \in Files \ Excluded(r.flow) : IsFile(f)}
    BY ONLY <1>1, <1>2, <2>2, EnterTodo
  <2> QED BY <2>1, <2>3
<1>4. /\ req'.flow = req.flow /\ req'.guard = req.guard /\ req'.contradicted = req.contradicted
      /\ req'.before = req.before /\ req'.after = << >> /\ req'.hits = req.hits
  BY <1>0, <1>3 DEF But, Fields
<1>5. Printed' = Printed /\ (Clear' <=> Clear) 
      /\ \A f : Held(f)' = Held(f) /\ (Known(f)' <=> Known(f))
  BY <1>4, WorldStays
<1>7. ASSUME Clear, ~Steady PROVE \E f \in Printed : Betrays(f)'
  <2>1. PICK f \in Printed : disk[f] # Held(f)
    <3>1. PICK f \in Watched : disk[f] # Held(f)
      BY <1>7 DEF Steady
    <3>2. req.pc \notin {"idle", "answered"}
      BY DEF PhasesOf
    <3>3. f \in Printed
      BY <1>0, <1>7, <3>1, <3>2, HiddenHeld DEF Clear
    <3> QED BY <3>1, <3>3
  <2>2. (disk[f] # Held(f))'
    BY <1>5, <2>1 DEF Still
  <2>3. f \in req'.todo \/ f \in DOMAIN req'.before \ DOMAIN req'.after
    <3>1. CASE IsFile(f)
      BY <1>1, <1>3, <3>1 DEF Printed
    <3>2. CASE ~IsFile(f)
      <4>1. f \in DOMAIN req.before
        <5>1. f \notin Scripts \cap Excluded(req.flow)
          BY DEF Printed
        <5> QED BY <2>1, <3>2, <5>1 DEF IsFile, Held
      <4> QED BY <1>4, <4>1, EmptyTable
    <3> QED BY <3>1, <3>2
  <2> QED BY <2>2, <2>3 DEF Betrays
<1>8. req'.todo \cup req'.hits \subseteq Files /\ "reprint" \notin PhasesOf'
  BY <1>0, <1>3, <1>4 DEF PhasesOf
<1> QED BY <1>0, <1>3, <1>4, <1>5, <1>7, <1>8 DEF SliceInv

\* A class of calls names inspected files only.
LEMMA ClassIs ==
  ASSUME NEW sites, NEW class
  PROVE  WithCall(KindsOf(sites), class) \subseteq DOMAIN sites
BY DEF WithCall, KindsOf

\* The evidence that a slice cites is what the world has of those files.
LEMMA CitedIs ==
  ASSUME Gathered({}), NEW S, S \subseteq DOMAIN req.evidence
  PROVE  Restrict(req.evidence, S) = Restrict(World, S)
BY DEF Gathered, Restrict

\* From what the callback rule says of the world the decision makes the verdict of the reference.
LEMMA CallbackExact ==
  ASSUME SliceInv, req.flow = "callback", req.pc = "decide", Clear, Steady,
         NEW files, files = ScopedFiles(req),
         NEW validated, validated = (files # {} /\ Corroborates(req, First(files))),
         NEW verdict, verdict = Verdict(req.guard, req.status, files, validated, req.contradicted)
  PROVE  LET said == CallbackReference(World)
         IN verdict = said[1] /\ (said[1] \in {"PASS", "FAIL"} => Restrict(req.evidence, files) = Restrict(World, said[2]))
<1>0. req.pc \in PhasesOf /\ req.flow \in Slices
  BY DEF PhasesOf, Slices
<1>1. Gathered({}) /\ CallbackSaid /\ req.guard = Callback /\ ~req.contradicted
  BY <1>0, MidIs DEF SoFar
<1>2. /\ DOMAIN req.evidence = Scripts \cap Legible /\ Callers \subseteq DOMAIN req.evidence
      /\ Callers \subseteq Files /\ Callers \subseteq Watched
  BY <1>1, CallersAre DEF Gathered, Sources
<1>3. files = IF req.support = {} THEN DOMAIN req.evidence ELSE DOMAIN req.evidence \cap req.support
  BY DEF ScopedFiles, Supporting
<1>4. Callback \notin IndexOnly
  BY DEF Callback, IndexOnly, IndexPresent
<1>5. PICK sites : sites = Restrict(World, Callers)
  OBVIOUS
<1>6. PICK invalid, unresolved, valid :
        /\ invalid = WithCall(KindsOf(sites), "invalid") /\ unresolved = WithCall(KindsOf(sites), "unresolved")
        /\ valid = WithCall(KindsOf(sites), "valid")
        /\ invalid \subseteq Callers /\ valid \subseteq Callers
  <2>1. DOMAIN sites = Callers
    BY <1>5 DEF Restrict
  <2> QED BY <2>1, ClassIs
<1>7. CallbackReference(World) =
        CASE Callers = {} -> <<"NOT_APPLICABLE", {}>>
          [] SomeBinary -> <<"INSUFFICIENT_EVIDENCE", {}>>
          [] OTHER -> IF invalid # {} THEN <<"FAIL", invalid>>
                      ELSE IF unresolved # {} THEN <<"INSUFFICIENT_EVIDENCE", {}>>
                      ELSE IF valid # {} THEN <<"PASS", valid>>
                      ELSE <<"NOT_APPLICABLE", {}>>
  BY <1>5, <1>6 DEF CallbackReference, Callers, Fit, Scannable, SomeBinary
<1>8. CASE Callers = {}
  <2>1. CallbackReference(World) = <<"NOT_APPLICABLE", {}>> /\ req.status = "not_applicable"
    BY <1>1, <1>7, <1>8 DEF CallbackSaid, SomeBinary
  <2> QED BY <2>1 DEF Verdict
<1>9. CASE Callers # {} /\ SomeBinary
  <2>1. CallbackReference(World) = <<"INSUFFICIENT_EVIDENCE", {}>> /\ req.status = "blocked"
    BY <1>1, <1>7, <1>9 DEF CallbackSaid
  <2> QED BY <2>1 DEF Verdict
<1>10. CASE Callers # {} /\ ~SomeBinary
  <2>1. CallbackReference(World) =
          IF invalid # {} THEN <<"FAIL", invalid>>
          ELSE IF unresolved # {} THEN <<"INSUFFICIENT_EVIDENCE", {}>>
          ELSE IF valid # {} THEN <<"PASS", valid>>
          ELSE <<"NOT_APPLICABLE", {}>>
    BY <1>7, <1>10
  <2>2. /\ req.status = CallbackStatus(KindsOf(sites))
        /\ req.support = CallbackSupport(KindsOf(sites), req.status)
    BY <1>1, <1>5, <1>10 DEF CallbackSaid
  <2>3. req.status = IF invalid # {} THEN "failed" ELSE IF unresolved # {} THEN "blocked"
                     ELSE IF valid # {} THEN "passed" ELSE "not_applicable"
    BY <1>6, <2>2 DEF CallbackStatus
  <2>4. (req.status = "failed" => req.support = invalid) /\ (req.status = "passed" => req.support = valid)
    BY <1>6, <2>2 DEF CallbackSupport
  <2>5. CASE invalid # {}
    <3>1. req.status = "failed" /\ files = invalid
      BY <1>2, <1>3, <1>6, <2>3, <2>4, <2>5
    <3>2. verdict = "FAIL" /\ Restrict(req.evidence, files) = Restrict(World, invalid)
      BY <1>1, <1>2, <1>4, <1>6, <2>5, <3>1, CitedIs DEF Verdict
    <3> QED BY <2>1, <2>5, <3>2
  <2>6. CASE invalid = {} /\ unresolved # {}
    <3>1. verdict = "INSUFFICIENT_EVIDENCE"
      BY <2>3, <2>6 DEF Verdict
    <3> QED BY <2>1, <2>6, <3>1
  <2>7. CASE invalid = {} /\ unresolved = {} /\ valid # {}
    <3>1. req.status = "passed" /\ files = valid
      BY <1>2, <1>3, <1>6, <2>3, <2>4, <2>7
    <3>2. validated
      <4>1. First(files) \in Callers
        BY <1>2, <1>6, <2>7, <3>1, FirstIs
      <4>2. PICK f \in Callers : f = First(files)
        BY <4>1
      <4>3. f \in DOMAIN World /\ World[f].kind \in Named /\ World[f].kind # Huge /\ World[f].kind \notin Binary
        BY <1>10, CallersAre DEF SomeBinary, Legible
      <4>4. World[f] = disk[f] /\ Readable(f)
        <5>1. f \in Watched /\ f \in Legible
          BY CallersAre
        <5> QED BY <1>0, <4>3, <5>1, MidIs, WorldIs
      <4>5. InspectFile(f).got = "content"
        BY <4>3, <4>4 DEF InspectFile
      <4>6. Corroborates(req, f)
        BY <4>3, <4>4, <4>5 DEF Corroborates
      <4> QED BY <2>7, <3>1, <4>2, <4>6
    <3>3. verdict = "PASS" /\ Restrict(req.evidence, files) = Restrict(World, valid)
      BY <1>1, <1>2, <1>4, <1>6, <2>7, <3>1, <3>2, CitedIs DEF Verdict
    <3> QED BY <2>1, <2>7, <3>3
  <2>8. CASE invalid = {} /\ unresolved = {} /\ valid = {}
    <3>1. verdict = "NOT_APPLICABLE"
      BY <2>3, <2>8 DEF Verdict
    <3> QED BY <2>1, <2>8, <3>1
  <2> QED BY <2>5, <2>6, <2>7, <2>8
<1> QED BY <1>8, <1>9, <1>10

\* And so from what the registry rule says of it.
LEMMA RegistryExact ==
  ASSUME SliceInv, req.flow = "registry", req.pc = "decide", Clear, Steady,
         NEW files, files = ScopedFiles(req),
         NEW validated, validated = (files # {} /\ Corroborates(req, First(files))),
         NEW verdict, verdict = Verdict(req.guard, req.status, files, validated, req.contradicted)
  PROVE  LET said == RegistryReference(World)
         IN verdict = said[1] /\ (said[1] \in {"PASS", "FAIL"} => Restrict(req.evidence, files) = Restrict(World, said[2]))
<1>0. req.pc \in PhasesOf /\ req.flow \in Slices /\ req.flow # "callback"
  BY DEF PhasesOf, Slices
<1>1. Gathered({}) /\ RegistrySaid /\ req.guard = Loaded /\ ~req.contradicted
  BY <1>0, MidIs DEF SoFar
<1>2. RegistryFile \in Files /\ (RegistryFile \in DOMAIN World =>
        DOMAIN req.evidence = {RegistryFile} /\ World[RegistryFile] = disk[RegistryFile] /\ Readable(RegistryFile))
  <2>1. RegistryFile \in DOMAIN World =>
          World[RegistryFile] = disk[RegistryFile] /\ Readable(RegistryFile) /\ RegistryFile \in Legible
    BY <1>0, MidIs, WorldIs, RegistryPrinted
  <2> QED BY <1>0, <1>1, <2>1, GuardAssumption DEF Gathered, Sources
<1>3. files = IF req.support = {} THEN DOMAIN req.evidence ELSE DOMAIN req.evidence \cap req.support
  BY DEF ScopedFiles, Supporting
<1>4. Loaded \notin IndexOnly
  BY DEF Loaded, IndexOnly, IndexPresent
<1>5. CASE RegistryFile \notin DOMAIN World
  <2>1. RegistryReference(World) = <<"NOT_APPLICABLE", {}>> /\ req.status = "not_applicable"
    BY <1>1, <1>5 DEF RegistryReference, RegistrySaid
  <2> QED BY <2>1 DEF Verdict
<1>6. CASE RegistryFile \in DOMAIN World
  <2>1. PICK kind, r : kind = World[RegistryFile].kind /\ r = Registry[kind]
    OBVIOUS
  <2>2. RegistryReference(World) =
          IF ~r.parses \/ r.loaded = {} \/ Malformed \in r.loaded THEN <<"INSUFFICIENT_EVIDENCE", {}>>
          ELSE IF ~(r.loaded \subseteq r.declared) THEN <<"FAIL", {RegistryFile}>>
          ELSE IF kind \in {Huge} \cup Binary THEN <<"INSUFFICIENT_EVIDENCE", {}>>
          ELSE <<"PASS", {RegistryFile}>>
    BY <1>6, <2>1 DEF RegistryReference
  <2>3. req.support = {RegistryFile} /\ req.status = RegistryStatus(kind)
    BY <1>1, <1>6, <2>1 DEF RegistrySaid
  <2>4. req.status = IF ~r.parses \/ r.loaded = {} \/ Malformed \in r.loaded THEN "blocked"
                     ELSE IF ~(r.loaded \subseteq r.declared) THEN "failed" ELSE "passed"
    BY <2>1, <2>3 DEF RegistryStatus
  <2>5. files = {RegistryFile} /\ First(files) = RegistryFile
    <3>1. files = {RegistryFile}
      BY <1>2, <1>3, <1>6, <2>3
    <3>2. First(files) \in files
      BY <1>2, <3>1, FirstIs
    <3> QED BY <3>1, <3>2
  <2>6. Restrict(req.evidence, files) = Restrict(World, {RegistryFile})
    BY <1>1, <1>2, <1>6, <2>5, CitedIs
  <2>7. validated <=> kind \notin {Huge} \cup Binary
    <3>1. World[RegistryFile] = disk[RegistryFile] /\ Readable(RegistryFile)
      BY <1>2, <1>6
    <3>2. InspectFile(RegistryFile).got = "content" <=> kind # Huge
      BY <2>1, <3>1 DEF InspectFile
    <3>3. Corroborates(req, RegistryFile) <=> kind \notin {Huge} \cup Binary
      BY <2>1, <3>1, <3>2 DEF Corroborates
    <3> QED BY <2>5, <3>3
  <2>8. CASE ~r.parses \/ r.loaded = {} \/ Malformed \in r.loaded
    <3>1. verdict = "INSUFFICIENT_EVIDENCE"
      BY <2>4, <2>8 DEF Verdict
    <3> QED BY <2>2, <2>8, <3>1
  <2>9. CASE ~(~r.parses \/ r.loaded = {} \/ Malformed \in r.loaded) /\ ~(r.loaded \subseteq r.declared)
    <3>1. verdict = "FAIL"
      BY <1>1, <1>4, <2>4, <2>5, <2>9 DEF Verdict
    <3> QED BY <2>2, <2>6, <2>9, <3>1
  <2>10. CASE ~(~r.parses \/ r.loaded = {} \/ Malformed \in r.loaded) /\ r.loaded \subseteq r.declared
    <3>1. verdict = IF validated THEN "PASS" ELSE "INSUFFICIENT_EVIDENCE"
      BY <1>1, <1>4, <2>4, <2>5, <2>10 DEF Verdict
    <3> QED BY <2>2, <2>6, <2>7, <2>10, <3>1
  <2> QED BY <2>8, <2>9, <2>10
<1> QED BY <1>5, <1>6

\* The verdict of a slice.
LEMMA SliceDecides ==
  ASSUME Still, Witnessed, Shape(req), SliceInv, req.flow \in Slices, Decide
  PROVE  SliceInv'
<1>0. req.pc \in PhasesOf /\ req.pc = "decide"
  BY DEF PhasesOf, Decide
<1>1. PICK files : files = ScopedFiles(req)
  OBVIOUS
<1>2. PICK validated : validated = (files # {} /\ Corroborates(req, First(files)))
  OBVIOUS
<1>3. PICK verdict : verdict = Verdict(req.guard, req.status, files, validated, req.contradicted)
  OBVIOUS
<1>4. PICK result : result = [verdict |-> verdict, refs |-> files, cited |-> Restrict(req.evidence, files)]
  OBVIOUS
<1>5. PICK r : r = [req EXCEPT !.validated = validated, !.result = result]
  OBVIOUS
<1>6. /\ req' = IF req.status = "failed" THEN [r EXCEPT !.pc = "investigate"] ELSE Close(r)
     
  BY ONLY Decide, <1>1, <1>2, <1>3, <1>4, <1>5, Zenon DEF Decide, Proceed, indexVars
<1>7. But(req, r, {"validated", "result"}) /\ r.result = result
  BY <1>5 DEF But, Shape, Fields
<1>8. Shape(r) /\ r.flow = req.flow
  BY <1>7 DEF But, Fields
<1>9. But(r, req', {"pc", "rows", "evidence", "todo"}) /\ req'.pc \in {"investigate", "reprint"}
      /\ (req'.pc = "investigate" => req.status = "failed")
      /\ (req.status = "failed" => But(r, req', {"pc"}) /\ req'.pc = "investigate")
  <2>1. CASE req.status = "failed"
    BY <1>6, <1>8, <2>1 DEF But, Shape, Fields
  <2>2. CASE req.status # "failed"
    <3>1. req' = Enter(r, "reprint")
      BY <1>6, <1>8, <2>2 DEF Close, Slices
    <3> QED BY <1>8, <2>2, <3>1, EnterIs
  <2> QED BY <2>1, <2>2
<1>10. /\ req'.flow = req.flow /\ req'.before = req.before /\ req'.result = result
       /\ req'.guard = req.guard /\ req'.contradicted = req.contradicted /\ req'.after = req.after
       /\ req'.hits = req.hits
  BY <1>7, <1>9 DEF But, Fields
<1>11. ASSUME Clear, Steady PROVE Exact'
  <2>1. World' = World
    BY <1>10, WorldStays
  <2>2. result.verdict = verdict /\ result.cited = Restrict(req.evidence, files)
    BY <1>4
  <2>3. CASE req.flow = "callback"
    <3>1. LET said == CallbackReference(World)
          IN verdict = said[1] /\ (said[1] \in {"PASS", "FAIL"} => Restrict(req.evidence, files) = Restrict(World, said[2]))
      BY ONLY SliceInv, <1>0, <1>1, <1>2, <1>3, <1>11, <2>3, CallbackExact
    <3> QED BY <1>10, <2>1, <2>2, <2>3, <3>1 DEF Exact
  <2>4. CASE req.flow = "registry"
    <3>1. LET said == RegistryReference(World)
          IN verdict = said[1] /\ (said[1] \in {"PASS", "FAIL"} => Restrict(req.evidence, files) = Restrict(World, said[2]))
      BY ONLY SliceInv, <1>0, <1>1, <1>2, <1>3, <1>11, <2>4, RegistryExact
    <3> QED BY <1>10, <2>1, <2>2, <2>4, <3>1 DEF Exact
  <2> QED BY <2>3, <2>4 DEF Slices
<1>12. CASE req.status = "failed"
  <2>1. req'.pc = "investigate" /\ req'.todo = req.todo
    BY <1>7, <1>9, <1>12 DEF But, Fields
  <2>2. req'.todo \cup req'.hits \subseteq Files /\ req'.pc \in PhasesOf
    BY <1>0, <1>10, <2>1, MidIs DEF PhasesOf
  <2>3. Clear /\ Steady => SoFar'
    BY <1>11, <2>1 DEF SoFar
  <2> QED BY <1>0, <1>6, <1>10, <2>2, <2>3, MidStep
<1>13. CASE req.status # "failed"
  BY <1>0, <1>6, <1>7, <1>11, <1>13, SliceCloses
<1> QED BY <1>12, <1>13

\* What follows a failure.
LEMMA SliceInvestigates ==
  ASSUME Still, Witnessed, Shape(req), SliceInv, req.flow \in Slices, Investigate
  PROVE  SliceInv'
<1>0. req.pc = "investigate" /\ req.pc \in PhasesOf
  BY DEF Investigate, PhasesOf
<1>1. (req' = Close(req) \/ req' = Answer(req, "raised"))
  BY DEF Investigate, Proceed
<1>2. CASE req' = Close(req)
  <2>1. But(req, req, {"validated", "result"})
    BY DEF But
  <2>2. /\ But(req, req', {"pc", "rows", "evidence", "todo"})
    <3>1. req' = Enter(req, "reprint")
      BY <1>2 DEF Close, Slices
    <3> QED BY <3>1, EnterIs
  <2>3. req'.flow = req.flow /\ req'.before = req.before /\ req'.result = req.result
    BY <2>2 DEF But, Fields
  <2>4. Clear /\ Steady => Exact'
    BY <1>0, <2>3, MidIs, WorldStays DEF SoFar
  <2>5. PICK r : r = req
    OBVIOUS
  <2>6. But(req, r, {"validated", "result"}) /\ req' = Close(r)
    BY <1>2, <2>1, <2>5
  <2> QED BY <1>0, <1>1, <2>4, <2>6, SliceCloses
<1>3. CASE req' = Answer(req, "raised")
  <2>1. But(req, req', {"pc", "outcome"}) /\ req'.pc = "answered" /\ req'.outcome = "raised"
    BY <1>3 DEF Answer, But, Shape, Fields
  <2>2. /\ req'.flow = req.flow /\ req'.guard = req.guard /\ req'.contradicted = req.contradicted
        /\ req'.before = req.before /\ req'.todo = req.todo /\ req'.hits = req.hits
    BY <2>1 DEF But, Fields
  <2>3. Printed' = Printed
    BY <2>2, WorldStays
  <2>4. "answered" \notin PhasesOf'
    BY DEF PhasesOf
  <2> QED BY <1>0, <2>1, <2>2, <2>3, <2>4, MidIs DEF SliceInv
<1> QED BY <1>1, <1>2, <1>3

\* A slice begins with the first fingerprint.
LEMMA SliceOpens ==
  ASSUME HistoryOpens, NEW flow \in Flows, Open(flow)
  PROVE  SliceInv'
<1>0. disk' = disk
  BY DEF Open, Proceed, indexVars
<1>1. PICK scoped, guard, phase :
        /\ req' = Enter([Idle EXCEPT !.flow = flow, !.scoped = scoped, !.guard = guard], phase)
        /\ flow \in Slices => phase = "print" /\ guard = (IF flow = "callback" THEN Callback ELSE Loaded)
  BY DEF Open, Proceed, Slices
<1>2. PICK r : r = [Idle EXCEPT !.flow = flow, !.scoped = scoped, !.guard = guard]
  OBVIOUS
<1>3. /\ Shape(r) /\ r.flow = flow /\ r.guard = guard /\ r.before = << >> /\ r.after = << >> /\ r.hits = {}
      /\ r.judged = << >> /\ r.status = "none" /\ ~r.contradicted
  BY <1>2 DEF Idle, Shape, Fields
<1>4. req' = Enter(r, phase)
  BY <1>1, <1>2
<1>5. But(r, req', {"pc", "rows", "evidence", "todo"}) /\ req'.pc = phase
  BY <1>3, <1>4, EnterIs
<1>6. /\ req'.flow = flow /\ req'.guard = guard /\ req'.before = << >> /\ req'.after = << >> /\ req'.hits = {}
      /\ req'.judged = << >> /\ req'.status = "none" /\ ~req'.contradicted
  BY <1>3, <1>5 DEF But, Fields
<1>7. CASE flow \notin Slices
  BY <1>6, <1>7 DEF SliceInv
<1>8. CASE flow \in Slices
  <2>1. req'.pc = "print" /\ guard = (IF flow = "callback" THEN Callback ELSE Loaded)
    BY <1>1, <1>5, <1>8
  <2>2. req'.todo = {f \in Files \ Excluded(flow) : IsFile(f)}
    <3>1. "print" \in Prints /\ phase = "print"
      BY <1>1, <1>8 DEF Prints
    <3> QED BY ONLY <1>3, <1>4, <3>1, EnterTodo
  <2>3. Printed' = Files \ Excluded(flow)
    BY <1>6 DEF Printed
  <2>4. ASSUME NEW f \in Printed', f \notin req'.todo PROVE Known(f)'
    <3>1. f \in Files /\ disk'[f] = Absent
      BY <1>0, <2>2, <2>3, <2>4 DEF IsFile
    <3>2. Held(f)' = Absent
      BY <1>6, <2>3, <2>4, EmptyTable DEF Held, Excluded
    <3>3. Absent \in had'[f]
      BY <1>0, <3>1 DEF HistoryOpens
    <3> QED BY <3>1, <3>2, <3>3 DEF Known
  <2>5. DOMAIN req'.before = {}
    BY <1>6, EmptyTable
  <2> QED BY <1>6, <2>1, <2>2, <2>3, <2>4, <2>5 DEF SliceInv, PhasesOf
<1> QED BY <1>7, <1>8

\* Every step of a slice, and those of the other flows.
LEMMA SliceRequest ==
  ASSUME Still, Witnessed, RequestTyped, ContradictionWithholds, Diagnosed, SliceInv, RequestStep
  PROVE  SliceInv'
<1>1. Shape(req)
  BY DEF RequestTyped
<1>2. CASE req.flow \notin Slices
  <2>1. req'.flow = req.flow
    BY <1>1, ReadOneDoes, PhaseDoneDoes, RestKeeps, DecideKeeps, LastKeeps DEF RequestStep, Same
  <2> QED BY <1>2, <2>1 DEF SliceInv
<1>3. CASE req.flow \in Slices
  <2>1. /\ req.pc \in {"print", "reprint", "answered", "collect", "scan", "inspect", "read", "decide", "investigate"}
        /\ req.pc \in {"scan", "inspect"} => req.flow = "callback"
        /\ req.pc = "read" => req.flow = "registry"
    BY <1>3 DEF SliceInv, PhasesOf, Slices
  <2>2. CASE ReadOne
    <3>1. req.pc \in {"print", "collect", "scan", "inspect", "reprint"}
      BY <2>1, <2>2 DEF ReadOne, Reads, Prints
    <3> QED BY <1>1, <1>3, <2>1, <2>2, <3>1, SlicePrints, SliceCollects, SliceScans, SliceInspects, SliceReprints
  <2>3. CASE PhaseDone
    <3>1. req.pc \in {"print", "collect", "scan", "inspect", "reprint"}
      BY <2>1, <2>3 DEF PhaseDone, Reads, Prints
    <3> QED BY <1>1, <1>3, <2>1, <2>3, <3>1, SliceBegins, SliceRuleBegins, SliceScanned, SliceInspected, SliceReprinted
  <2>4. CASE ReadRegistry
    BY <1>1, <1>3, <2>1, <2>4, SliceReads DEF ReadRegistry
  <2>5. CASE Decide
    BY <1>1, <1>3, <2>5, SliceDecides
  <2>6. CASE Investigate
    BY <1>1, <1>3, <2>6, SliceInvestigates
  <2>7. ~(SearchFails \/ StaticRule \/ BackendPlans \/ BackendRaises \/ Select \/ Explain)
    BY <2>1 DEF SearchFails, StaticRule, BackendPlans, BackendRaises, Select, Explain
  <2> QED BY <2>2, <2>3, <2>4, <2>5, <2>6, <2>7 DEF RequestStep
<1> QED BY <1>2, <1>3

\* A step of an inspection begins while it is open, and changes neither files nor history.
LEMMA StepIsStill ==
  ASSUME IndexTyped, Witnessed, RequestStep
  PROVE  /\ req.pc \notin {"idle", "answered"} /\ disk' = disk
         /\ HistoryGoes => Still /\ \A f \in Files : disk'[f] \in had'[f]
<1>1. req.pc \notin {"idle", "answered"}
  BY DEF RequestStep, ReadOne, PhaseDone, SearchFails, ReadRegistry, StaticRule, Decide, Investigate, BackendPlans,
         BackendRaises, Select, Explain, Reads, Prints
<1>2. disk' = disk
  BY DEF RequestStep, Proceed, indexVars, ReadOne, PhaseDone, SearchFails, ReadRegistry,
         StaticRule, Decide, Investigate, BackendPlans, BackendRaises, Select, Explain
<1>3. ASSUME HistoryGoes PROVE Still
  <2>1. had' = [f \in Files |-> had[f] \cup {disk[f]}] /\ returned' = returned
    BY <1>1, <1>2, <1>3 DEF HistoryGoes, Changes
  <2>2. had' = had
    BY <1>1, <2>1 DEF Witnessed
  <2> QED BY <1>2, <2>1, <2>2 DEF Still
<1> QED BY <1>1, <1>2, <1>3 DEF Witnessed, Still

\* The history stays the one of the files.
LEMMA WitnessStays ==
  ASSUME IndexTyped, IndexTyped', Witnessed, [SliceNext]_sliceVars
  PROVE  Witnessed'
<1>1. disk \in [Files -> Contents] /\ disk' \in [Files -> Contents]
  BY DEF IndexTyped
<1>2. CASE UNCHANGED sliceVars
  BY <1>2 DEF sliceVars, Witnessed
<1>3. CASE (\E flow \in Flows : Open(flow)) /\ HistoryOpens
  <2>1. disk' = disk
    BY <1>3 DEF Open, Proceed, indexVars
  <2> QED BY <1>1, <1>3, <2>1 DEF HistoryOpens, Witnessed
<1>4. CASE RequestStep /\ HistoryGoes
  <2>1. Still /\ \A f \in Files : disk'[f] \in had'[f]
    BY <1>4, StepIsStill
  <2> QED BY <2>1 DEF Witnessed, Still
<1>5. CASE UNCHANGED req /\ HistoryGoes
  <2>1. CASE req.pc \in {"idle", "answered"}
    BY <1>5, <2>1 DEF HistoryGoes, Witnessed
  <2>2. CASE req.pc \notin {"idle", "answered"}
    <3>1. had' = [f \in Files |-> had[f] \cup {disk'[f]}]
      BY <1>5, <2>2 DEF HistoryGoes
    <3>2. \A f \in Files : had[f] \cup {disk'[f]} \in SUBSET Contents
      BY <1>1 DEF Witnessed
    <3> QED BY <3>1, <3>2 DEF Witnessed
  <2> QED BY <2>1, <2>2
<1> QED BY <1>2, <1>3, <1>4, <1>5 DEF SliceNext

\* Every step keeps the invariant of the slices.
LEMMA SliceKept ==
  ASSUME IndexTyped, Witnessed, RequestTyped, ContradictionWithholds, Diagnosed, SliceInv, [SliceNext]_sliceVars
  PROVE  SliceInv'
<1>1. CASE UNCHANGED sliceVars
  BY <1>1, SliceStays DEF sliceVars, Still
<1>2. CASE RequestStep /\ HistoryGoes
  BY <1>2, StepIsStill, SliceRequest
<1>3. ASSUME NEW flow \in Flows, Open(flow), HistoryOpens PROVE SliceInv'
  BY <1>3, SliceOpens
<1>4. CASE UNCHANGED req /\ HistoryGoes
  <2>1. CASE req.flow \notin Slices
    BY <1>4, <2>1 DEF SliceInv
  <2>2. CASE req.flow \in Slices /\ req.pc \notin {"idle", "answered"}
    BY <1>4, <2>2, SliceUsers
  <2>3. CASE req.flow \in Slices /\ req.pc \in {"idle", "answered"}
    <3>1. req.pc = "answered" /\ "answered" \notin PhasesOf
      BY <2>3 DEF SliceInv, PhasesOf
    <3>2. had' = had /\ returned' = returned
      BY <1>4, <2>3 DEF HistoryGoes
    <3>3. Printed' = Printed /\ Excluded(req.flow)' = Excluded(req.flow) /\ PhasesOf' = PhasesOf
      BY <1>4 DEF Printed, Excluded, PhasesOf
    <3>4. Clear' <=> Clear
      BY <1>4, <3>2, <3>3 DEF Clear, Whole, Discernible
    <3>5. World' = World
      BY <1>4, <3>2, <3>3 DEF World, Held
    <3>6. Exact' <=> Exact
      BY <1>4, <3>5, SoFarStays
    <3> QED BY <1>4, <2>3, <3>1, <3>3, <3>4, <3>6 DEF SliceInv
  <2> QED BY <2>1, <2>2, <2>3
<1> QED BY <1>1, <1>2, <1>3, <1>4 DEF SliceNext

\* A slice has no result before it answers.
Pending == req.flow \in Slices /\ req.pc # "answered" => req.outcome # "result"

\* No step gives a slice a result but its answer.
LEMMA PendingStays ==
  ASSUME RequestTyped, ContradictionWithholds, Diagnosed, SliceInv, Pending, [Next]_guardVars
  PROVE  Pending'
<1>1. Shape(req)
  BY DEF RequestTyped
<1>2. CASE UNCHANGED req
  BY <1>2 DEF Pending
<1>3. CASE RequestStep /\ req.flow \in Slices
  <2>1. req.pc \in {"print", "reprint", "answered", "collect", "scan", "inspect", "read", "decide", "investigate"}
    BY <1>3 DEF SliceInv, PhasesOf
  <2>2. CASE ReadOne
    BY <1>1, <1>3, <2>2, ReadOneDoes DEF Pending, Reads, Prints
  <2>3. CASE PhaseDone
    BY <1>1, <1>3, <2>3, PhaseDoneDoes DEF Pending, Reads, Prints
  <2>4. CASE ReadRegistry
    <3>1. PICK status, support : req' = RuleDone(req, status, support)
      BY <2>4 DEF ReadRegistry, Proceed
    <3> QED BY <1>1, <1>3, <2>4, <3>1, RuleDoneKeeps DEF Pending, ReadRegistry
  <2>5. CASE Decide
    <3>1. PICK r : /\ But(req, r, {"validated", "result"})
                   /\ req' = IF req.status = "failed" THEN [r EXCEPT !.pc = "investigate"] ELSE Close(r)
      <4>1. PICK validated, result :
              LET r == [req EXCEPT !.validated = validated, !.result = result]
              IN req' = IF req.status = "failed" THEN [r EXCEPT !.pc = "investigate"] ELSE Close(r)
        BY ONLY <2>5, Zenon DEF Decide, Proceed
      <4>2. PICK r : r = [req EXCEPT !.validated = validated, !.result = result]
        OBVIOUS
      <4>3. But(req, r, {"validated", "result"})
        BY <1>1, <4>2 DEF But, Shape, Fields
      <4> QED BY <4>1, <4>2, <4>3
    <3>2. Shape(r) /\ r.flow = req.flow /\ r.outcome = req.outcome
      BY <3>1 DEF But, Fields
    <3>3. req'.outcome = r.outcome
      <4>1. CASE req.status = "failed"
        BY <3>1, <3>2, <4>1 DEF Shape, Fields
      <4>2. CASE req.status # "failed"
        BY <1>3, <3>1, <3>2, <4>2, EnterKeeps DEF Close, Slices
      <4> QED BY <4>1, <4>2
    <3> QED BY <1>3, <2>5, <3>2, <3>3 DEF Pending, Decide
  <2>6. CASE Investigate
    <3>1. req' = Enter(req, "reprint") \/ req' = Answer(req, "raised")
      BY <1>3, <2>6 DEF Investigate, Proceed, Close, Slices
    <3> QED BY <1>1, <1>3, <2>6, <3>1, EnterKeeps, AnswerKeeps DEF Pending, Investigate
  <2>7. ~(SearchFails \/ StaticRule \/ BackendPlans \/ BackendRaises \/ Select \/ Explain)
    BY <2>1 DEF SearchFails, StaticRule, BackendPlans, BackendRaises, Select, Explain
  <2> QED BY <1>3, <2>2, <2>3, <2>4, <2>5, <2>6, <2>7 DEF RequestStep
<1>4. CASE RequestStep /\ req.flow \notin Slices
  <2>1. req'.flow = req.flow
    BY <1>1, <1>4, ReadOneDoes, PhaseDoneDoes, RestKeeps, DecideKeeps, LastKeeps DEF RequestStep, Same
  <2> QED BY <1>4, <2>1 DEF Pending
<1>5. ASSUME NEW flow \in Flows, Open(flow) PROVE Pending'
  <2>1. PICK scoped, guard, phase : req' = Enter([Idle EXCEPT !.flow = flow, !.scoped = scoped, !.guard = guard], phase)
    BY <1>5 DEF Open, Proceed
  <2>2. PICK r : r = [Idle EXCEPT !.flow = flow, !.scoped = scoped, !.guard = guard]
    OBVIOUS
  <2>3. Shape(r) /\ r.outcome = "none"
    BY <2>2 DEF Idle, Shape, Fields
  <2>4. req'.outcome = "none"
    BY <2>1, <2>2, <2>3, EnterKeeps
  <2> QED BY <2>4 DEF Pending
<1> QED BY <1>2, <1>3, <1>4, <1>5 DEF Next, guardVars

\* With its history an inspection takes the steps of one without.
LEMMA HistoryIsNoStep == [SliceNext]_sliceVars => [Next]_guardVars
BY DEF SliceNext, sliceVars, Next, guardVars

\* A vertical slice that answers, and could read every file for its fingerprint, says what
\* one look at the fingerprinted workspace would have said, within the limits of the rule,
\* and cites those files with that content, if no file got back a content that it had had
\* meanwhile and no script that the fingerprint leaves out was touched; its phases list and
\* read the files at different times while users edit them.
THEOREM SlicesAreExact == SliceSpec => []SliceExact
<1>1. SliceInit => IndexTyped /\ TruthInv /\ RequestTyped /\ ContradictionWithholds /\ Diagnosed
  BY IndexedStart, RequestStart DEF SliceInit
<1>2. SliceInit => Witnessed /\ SliceInv /\ Pending
  BY DEF SliceInit, Init, Idle, Witnessed, SliceInv, Pending, Slices
<1>3. /\ IndexTyped /\ TruthInv /\ RequestTyped /\ ContradictionWithholds /\ Diagnosed
      /\ Witnessed /\ SliceInv /\ Pending /\ [SliceNext]_sliceVars
      => (/\ IndexTyped /\ TruthInv /\ RequestTyped /\ ContradictionWithholds /\ Diagnosed
          /\ Witnessed /\ SliceInv /\ Pending)'
  BY HistoryIsNoStep, InspectionKeepsIndex, RequestKept, WitnessStays, SliceKept, PendingStays
<1>4. SliceInv /\ Pending => SliceExact
  <2> SUFFICES ASSUME SliceInv, Pending, req.flow \in Slices, req.outcome = "result", Whole, Discernible
               PROVE  Exact
    BY DEF SliceExact, Exact, World, Whole
  <2> QED BY DEF SliceInv, Pending, Clear
<1> QED BY <1>1, <1>2, <1>3, <1>4, PTL DEF SliceSpec

=============================================================================
