------------------------------ MODULE WorkspaceMemory ------------------------------
(***************************************************************************)
(* The validated memory of one workspace and the resumption of one session *)
(* from it (memory/store.py, memory/integration.py, memory/context.py and  *)
(* the bridge of session_memory_runtime.py).                               *)
(*                                                                         *)
(* Several processes share the database.  Every call of the store opens a  *)
(* connection of its own, and a SELECT is outside of the transaction that  *)
(* the statement after it begins: each read and each write is a step, and  *)
(* other processes, the users' edits and a kill come between any two.      *)
(*                                                                         *)
(* The rows are the facts file_sha256 of files, the facts of git, which    *)
(* name no source to compare with, and observations of an assistant; their *)
(* identity is the subject and the task they are recorded for.  Results of *)
(* commands are like facts of git but rank below them in a query; recovery *)
(* rows are the subject of Recovery.  Of the session row the model keeps   *)
(* the provider, which the callers configure, and the last checkpoint.     *)
(***************************************************************************)
EXTENDS Naturals, Sequences, FiniteSetsExt

CONSTANTS
  Callers,          \* processes with a bridge open on the session
  Files,            \* subjects of facts that name a source
  GitFacts,         \* subjects of verified facts without one
  Observations,     \* subjects of what an assistant observed
  Tasks,            \* what facts are recorded for
  Contents,         \* digests a file may have
  Absent,           \* the file does not exist
  Providers,        \* what configure_session may choose
  Unknown,          \* history: no choice that the row has to show
  Limit,            \* rows a query returns (500 in rehydrate_context)
  MaxRows, MaxCheckpoints, MaxEdits, MaxCalls  \* bounds of the model

ASSUME MemoryAssumption ==
  /\ Absent \notin Contents /\ Unknown \notin Providers
  /\ Files \cap (GitFacts \cup Observations) = {} /\ GitFacts \cap Observations = {}
  /\ {Limit, MaxRows, MaxCheckpoints} \subseteq Nat \ {0}
  /\ {MaxEdits, MaxCalls} \subseteq Nat

VARIABLES
  file,      \* the workspace: the content of each file
  edits,     \* number of edits by users
  rows,      \* workspace_memory: the row of identity i is rows[i]
  age,       \* the place of each row by updated_at as upsert set it, the latest first
  points,    \* memory_checkpoints: numbered in the order of created_at
  made,      \* checkpoints created, stored or not
  session,   \* the row of session_state, or NoSession
  call,      \* the call each process is in
  calls,     \* number of calls
  chosen,    \* history: what the session row has to show
  crossed    \* history: two calls of supersede have overlapped

vars == <<file, edits, rows, age, points, made, session, call, calls, chosen, crossed>>
memory == <<rows, age>>
sessions == <<points, made, session, chosen>>

Subjects == Files \cup GitFacts \cup Observations
Keys == Subjects \X Tasks
NoSession == [provider |-> Unknown, checkpoint |-> 0]
Idle == [pc |-> "idle"]
At(c, pc) == call[c].pc = pc

Init ==
  /\ file \in [Files -> Contents] /\ edits = 0
  /\ rows = << >> /\ age = << >>
  /\ points = {} /\ made = 0
  /\ session = NoSession /\ chosen = NoSession
  /\ call = [c \in Callers |-> Idle] /\ calls = 0
  /\ crossed = FALSE

-----------------------------------------------------------------------------
(* Calls begin and end *)

Begin(c, what) ==
  /\ At(c, "idle") /\ calls < MaxCalls
  /\ call' = [call EXCEPT ![c] = what] /\ calls' = calls + 1

\* The result of a call is used, an exception leaves it, or its process is killed and
\* another one takes its place.
Over(c) == call' = [call EXCEPT ![c] = Idle]
Leave(c) ==
  /\ ~At(c, "idle") /\ Over(c)
  /\ UNCHANGED <<file, edits, memory, sessions, calls, crossed>>

\* Every resumption under way is told (history) that a fact or a file has changed.
Disturbed(cs) ==
  [c \in Callers |-> IF "disturbed" \in DOMAIN cs[c] THEN [cs[c] EXCEPT !.disturbed = TRUE] ELSE cs[c]]

\* A user writes or removes a file.
Edit(f, content) ==
  /\ edits < MaxEdits /\ content # file[f]
  /\ file' = [file EXCEPT ![f] = content] /\ edits' = edits + 1
  /\ call' = Disturbed(call)
  /\ UNCHANGED <<memory, sessions, calls, crossed>>

-----------------------------------------------------------------------------
(* Recording and superseding facts *)

Live(table, id) == table[id].status # "superseded"

\* A mutant of the next definition: the index is not unique.
NeverClashes(table, id) == FALSE

\* The UNIQUE index on the identity, over the rows that are not superseded.
Clashes(table, id) == \E i \in DOMAIN table : i # id /\ Live(table, i) /\ table[i].key = table[id].key

\* The claim as its caller makes it: record_file_hash reads the file, which must be
\* there.  The promoter verifies what is deterministic, and no observation.
Claimable(k) == k[1] \in Files => file[k[1]] # Absent
HashNow(subject) == IF subject \in Files THEN file[subject] ELSE Absent
Status(subject) == IF subject \in Observations THEN "unverified" ELSE "verified"
Claim(k, old) == [pc |-> "select", key |-> k, hash |-> HashNow(k[1]), old |-> old, id |-> 0]

Record(c, k) ==
  /\ Claimable(k)
  /\ Begin(c, Claim(k, 0))
  /\ UNCHANGED <<file, edits, memory, sessions, crossed>>

Superseding(c) == call[c].pc \in {"select", "write", "replace"} /\ call[c].old # 0
Supersede(c, k, old) ==
  /\ Claimable(k)
  /\ Begin(c, Claim(k, old))
  /\ crossed' = (crossed \/ \E d \in Callers : Superseding(d))
  /\ UNCHANGED <<file, edits, memory, sessions>>

\* upsert: SELECT the live row of the identity ...
Found(k) == {i \in DOMAIN rows : Live(rows, i) /\ rows[i].key = k}
Select(c) ==
  /\ At(c, "select")
  /\ call' = [call EXCEPT ![c].pc = "write", ![c].id = Max(Found(call[c].key) \cup {0})]
  /\ UNCHANGED <<file, edits, memory, sessions, calls, crossed>>

\* ... and UPDATE it by its id, or INSERT a new one.  An UPDATE clears superseded_by.
\* The index refuses a second live row of an identity, and the error ends the call.
Written(c) ==
  LET row == [key |-> call[c].key, hash |-> call[c].hash,
             status |-> Status(call[c].key[1]), by |-> 0]
  IN IF call[c].id = 0 THEN Append(rows, row) ELSE [rows EXCEPT ![call[c].id] = row]
IdOf(c) == IF call[c].id = 0 THEN Len(rows) + 1 ELSE call[c].id
Touched(id) ==
  [i \in DOMAIN age \cup {id} |->
     IF i = id THEN 1 ELSE IF id \in DOMAIN age /\ age[i] > age[id] THEN age[i] ELSE age[i] + 1]

Write(c) ==
  /\ At(c, "write") /\ IdOf(c) <= MaxRows
  /\ \/ /\ Clashes(Written(c), IdOf(c))
        /\ Over(c) /\ UNCHANGED memory
     \/ /\ ~Clashes(Written(c), IdOf(c))
        /\ rows' = Written(c) /\ age' = Touched(IdOf(c))
        /\ call' = Disturbed([call EXCEPT ![c] = IF @.old = 0 THEN Idle
                                                 ELSE [@ EXCEPT !.pc = "replace", !.id = IdOf(c)]])
  /\ UNCHANGED <<file, edits, sessions, calls, crossed>>

\* A mutant of the next definition: the record may be the one it replaces.
AnyReplaceable(old, new) == old \in DOMAIN rows

\* The second transaction of supersede.  No row but another one than the new record's
\* is superseded: where there is none, KeyError, and the new record stays.
Replaceable(old, new) == old \in DOMAIN rows /\ old # new
Replace(c) ==
  /\ At(c, "replace")
  /\ IF Replaceable(call[c].old, call[c].id)
       THEN rows' = [rows EXCEPT ![call[c].old].status = "superseded", ![call[c].old].by = call[c].id]
       ELSE UNCHANGED rows
  /\ Over(c)
  /\ UNCHANGED <<file, edits, age, sessions, calls, crossed>>

-----------------------------------------------------------------------------
(* The session row: read, rewritten as a whole *)

\* A bridge is opened, a provider is selected, or a stored checkpoint is noted.  Opening
\* writes the row back as it was read: a process that has opened its bridge with no other
\* call in between has changed nothing, so the other calls do not ask who opened it.
RewriteOf(op, provider, point) ==
  [pc |-> "load", op |-> op, provider |-> provider, point |-> point, copy |-> NoSession, outdated |-> FALSE]

Open(c, p) ==
  /\ Begin(c, RewriteOf("open", p, 0))
  /\ UNCHANGED <<file, edits, memory, sessions, crossed>>
Configure(c, p) ==
  /\ session # NoSession
  /\ Begin(c, RewriteOf("configure", p, 0))
  /\ UNCHANGED <<file, edits, memory, sessions, crossed>>

\* checkpoint_compaction dates the checkpoint (the verified ids it lists are not read
\* again) and then stores it.
Checkpoint(c) ==
  /\ session # NoSession /\ made < MaxCheckpoints
  /\ made' = made + 1
  /\ Begin(c, [pc |-> "insert", point |-> made + 1])
  /\ UNCHANGED <<file, edits, memory, points, session, chosen, crossed>>
Insert(c) ==
  /\ At(c, "insert")
  /\ points' = points \cup {call[c].point}
  /\ call' = [call EXCEPT ![c] = RewriteOf("checkpoint", Unknown, @.point)]
  /\ UNCHANGED <<file, edits, memory, made, session, chosen, calls, crossed>>

Load(c) ==
  /\ At(c, "load")
  /\ call' = [call EXCEPT ![c].pc = "save", ![c].copy = session]
  /\ UNCHANGED <<file, edits, memory, sessions, calls, crossed>>

\* A bridge keeps what it finds and uses its own arguments only for a new session.
Opened(w) == IF w.copy = NoSession THEN [w.copy EXCEPT !.provider = w.provider] ELSE w.copy
Rewritten(w) ==
  CASE w.op = "open" -> Opened(w)
    [] w.op = "configure" -> [w.copy EXCEPT !.provider = w.provider]
    [] w.op = "checkpoint" -> [w.copy EXCEPT !.checkpoint = w.point]

\* What the row has to show after a call that read it since it was last written.
Asked(w) ==
  CASE w.op = "open" -> IF w.copy = NoSession THEN [chosen EXCEPT !.provider = w.provider] ELSE chosen
    [] w.op = "configure" -> [chosen EXCEPT !.provider = w.provider]
    [] w.op = "checkpoint" -> [chosen EXCEPT !.checkpoint = w.point]

\* Whoever has read the row before this write and writes it later undoes it.
Save(c) ==
  /\ At(c, "save")
  /\ session' = Rewritten(call[c])
  /\ chosen' = IF call[c].outdated THEN [provider |-> Unknown, checkpoint |-> Unknown] ELSE Asked(call[c])
  /\ call' = [d \in Callers |-> IF d = c THEN Idle
                                ELSE IF At(d, "save") THEN [call[d] EXCEPT !.outdated = TRUE]
                                ELSE call[d]]
  /\ UNCHANGED <<file, edits, memory, points, made, calls, crossed>>

-----------------------------------------------------------------------------
(* start_or_resume: the packet of a resumed session *)

Resume(c) ==
  /\ session # NoSession
  /\ Begin(c, [pc |-> "query", owed |-> points, disturbed |-> FALSE])
  /\ UNCHANGED <<file, edits, memory, sessions, crossed>>

\* The verified rows, the latest first (facts of files and of git are equal in authority and
\* confidence), up to the limit.
Verified(id) == rows[id].status = "verified"
Newer(id) == {i \in DOMAIN rows : Verified(i) /\ age[i] < age[id]}
Queried == {id \in DOMAIN rows : Verified(id) /\ Cardinality(Newer(id)) < Limit}
Query(c) ==
  /\ At(c, "query")
  /\ call' = [call EXCEPT ![c] = [pc |-> "look", owed |-> @.owed, disturbed |-> FALSE,
                                  asked |-> [id \in Queried |-> rows[id]],
                                  left |-> Queried, facts |-> {}]]
  /\ UNCHANGED <<file, edits, memory, sessions, calls, crossed>>

\* A mutant of the next definition: the fact of a file that is gone is kept.
MatchesOrGone(row) == row.key[1] \in Files => file[row.key[1]] \in {Absent, row.hash}

\* invalidate_changed_sources compares one row after the other with its file, if it has one;
\* in which order is left open.
Matches(row) == row.key[1] \in Files => file[row.key[1]] = row.hash
Look(c) ==
  /\ At(c, "look")
  /\ \E id \in call[c].left :
       call' = [call EXCEPT ![c].left = @ \ {id},
                            ![c].facts = IF Matches(call[c].asked[id]) THEN @ \cup {id} ELSE @]
  /\ UNCHANGED <<file, edits, memory, sessions, calls, crossed>>

\* mark_stale: by id, where the row is still verified, whatever hash it has by now.
Outdated(w) == {id \in DOMAIN w.asked \ w.facts : Verified(id)}
Mark(c) ==
  /\ At(c, "look") /\ call[c].left = {}
  /\ rows' = [id \in DOMAIN rows |-> IF id \in Outdated(call[c]) THEN [rows[id] EXCEPT !.status = "stale"]
                                     ELSE rows[id]]
  /\ call' = [call EXCEPT ![c].pc = "latest"]
  /\ UNCHANGED <<file, edits, age, sessions, calls, crossed>>

\* A mutant of the next definition: the checkpoint that the session row names.
PointedCheckpoint == session.checkpoint

\* latest_checkpoint goes by created_at and not by the session row.
LatestCheckpoint == Max(points \cup {0})
Latest(c) ==
  /\ At(c, "latest")
  /\ call' = [call EXCEPT ![c] = [pc |-> "resumed", owed |-> @.owed, disturbed |-> @.disturbed,
                                  asked |-> @.asked, facts |-> @.facts,
                                  restored |-> LatestCheckpoint]]
  /\ UNCHANGED <<file, edits, memory, sessions, calls, crossed>>

-----------------------------------------------------------------------------
Next ==
  \/ \E f \in Files, content \in Contents \cup {Absent} : Edit(f, content)
  \/ \E c \in Callers :
       \/ \E k \in Keys : Record(c, k) \/ \E old \in DOMAIN rows : Supersede(c, k, old)
       \/ Select(c) \/ Write(c) \/ Replace(c)
       \/ \E p \in Providers : Open(c, p) \/ Configure(c, p)
       \/ Checkpoint(c) \/ Insert(c) \/ Load(c) \/ Save(c)
       \/ Resume(c) \/ Query(c) \/ Look(c) \/ Mark(c) \/ Latest(c)
       \/ Leave(c)

Spec == Init /\ [][Next]_vars

-----------------------------------------------------------------------------
(* Properties *)

\* Types of the state, and what the keys of the tables promise: one live row of each
\* identity, and no reference to a row or a checkpoint that is not stored, although a
\* SELECT and the INSERT that relies on it are apart.
MemoryTypeOK ==
  /\ file \in [Files -> Contents \cup {Absent}] /\ edits \in 0..MaxEdits
  /\ \A i \in DOMAIN rows :
       /\ rows[i] \in [key : Keys, hash : Contents \cup {Absent},
                       status : {"verified", "unverified", "stale", "superseded"}, by : 0..Len(rows)]
       /\ rows[i].by # 0 <=> rows[i].status = "superseded"
       /\ \A j \in DOMAIN rows : Live(rows, i) /\ Live(rows, j) /\ rows[i].key = rows[j].key => i = j
  /\ Len(rows) <= MaxRows /\ age \in [DOMAIN rows -> 1..Len(rows)]
  /\ \A i, j \in DOMAIN age : age[i] = age[j] => i = j
  /\ points \subseteq 1..made /\ made <= MaxCheckpoints
  /\ session.provider \in Providers \cup {Unknown} /\ session.checkpoint \in points \cup {0}

\* "stale source evidence" does not appear "in resumed verified_facts"
\* (docs/acceptance/R4_CHECKPOINT_RESUME_ACCEPTANCE_GATE.md:95): a resumption that no edit
\* and no recorded fact overlapped hands out the facts that hold, and of the rows
\* it asked for leaves none verified that differs from its file.
SweptClean ==
  \A c \in Callers : At(c, "resumed") /\ ~call[c].disturbed =>
    /\ \A id \in DOMAIN call[c].asked : id \in call[c].facts <=> rows[id].hash = HashNow(rows[id].key[1])
    /\ \A id \in DOMAIN call[c].asked : Verified(id) => id \in call[c].facts

\* Superseding ends at a row that is not superseded: no fact is replaced by itself or
\* in a circle, whatever fails between the two transactions of supersede.  Two
\* overlapping calls can replace each other's records.
SupersessionEnds ==
  ~crossed => \A circle \in SUBSET {id \in DOMAIN rows : ~Live(rows, id)} :
                circle # {} => \E id \in circle : rows[id].by \notin circle

\* What a session keeps across processes: a provider and a checkpoint stay as last
\* chosen, unless a process wrote the row that it had read before; and a resumption
\* restores no checkpoint older than one that was stored when it began, even then.
SessionRestored ==
  /\ chosen.provider # Unknown => session.provider = chosen.provider
  /\ chosen.checkpoint # Unknown => session.checkpoint = chosen.checkpoint
  /\ \A c \in Callers : At(c, "resumed") => \A p \in call[c].owed : p <= call[c].restored
=============================================================================
