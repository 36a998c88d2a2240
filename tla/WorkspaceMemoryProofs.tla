-------------------------- MODULE WorkspaceMemoryProofs --------------------------
(***************************************************************************)
(* Theorems about the memory of a workspace and the resumption of a        *)
(* session, for any number of processes, subjects, rows, checkpoints,      *)
(* edits and calls and any limit of a query.  MemoryInv is the inductive   *)
(* invariant.                                                              *)
(***************************************************************************)
EXTENDS WorkspaceMemory, DataLemmas, TLAPS

-----------------------------------------------------------------------------
(* The inductive invariant *)

Claiming == {"select", "write", "replace"}
Rewriting == {"load", "save"}
Resuming == {"query", "look", "latest", "resumed"}

Row(r) ==
  /\ r = [key |-> r.key, hash |-> r.hash, status |-> r.status, by |-> r.by]
  /\ r.key \in Keys /\ r.hash \in Contents \cup {Absent}
  /\ r.status \in {"verified", "unverified", "stale", "superseded"}
  /\ r.by # 0 <=> r.status = "superseded"
  /\ r.key[1] \notin Files => r.hash = Absent

SessionRow(s) ==
  /\ s = [provider |-> s.provider, checkpoint |-> s.checkpoint]
  /\ s.provider \in Providers \cup {Unknown} /\ s.checkpoint \in points \cup {0}

\* A claim has what its row will have; its id is a row that it found or wrote.
ClaimFine(v) ==
  v.pc \in Claiming =>
    /\ DOMAIN v = {"pc", "key", "hash", "old", "id"}
    /\ v.key \in Keys /\ v.hash \in Contents \cup {Absent}
    /\ v.key[1] \notin Files => v.hash = Absent
    /\ v.old \in Nat /\ v.id \in 0..Len(rows)
    /\ v.pc = "replace" => v.id # 0 /\ v.old # 0

\* Between its read and its write a rewrite holds the row as it is, or is outdated.
RewriteFine(v) ==
  /\ v.pc = "insert" => DOMAIN v = {"pc", "point"} /\ v.point \in 1..made
  /\ v.pc \in Rewriting =>
       /\ DOMAIN v = {"pc", "op", "provider", "point", "copy", "outdated"}
       /\ v.op \in {"open", "configure", "checkpoint"}
       /\ v.op \in {"open", "configure"} => v.provider \in Providers
       /\ v.op = "checkpoint" => v.point \in points
       /\ v.pc = "save" => SessionRow(v.copy)
       /\ v.pc = "save" /\ v.outdated = FALSE => v.copy = session
       /\ v.outdated \in BOOLEAN

\* An undisturbed resumption knows the rows as they are, and of those it has compared
\* which ones match their files.
ResumeFine(v) ==
  /\ v.pc \in Resuming => "disturbed" \in DOMAIN v /\ v.disturbed \in BOOLEAN /\ v.owed \subseteq points
  /\ v.pc = "query" => DOMAIN v = {"pc", "owed", "disturbed"}
  /\ v.pc \in {"look", "latest"} => DOMAIN v = {"pc", "owed", "disturbed", "asked", "left", "facts"}
  /\ v.pc = "resumed" =>
       /\ DOMAIN v = {"pc", "owed", "disturbed", "asked", "facts", "restored"}
       /\ \A p \in v.owed : p <= v.restored
  /\ v.pc \in {"look", "latest", "resumed"} => DOMAIN v.asked \subseteq DOMAIN rows
  /\ v.pc = "look" => v.left \subseteq DOMAIN v.asked
  /\ v.pc \in {"look", "latest", "resumed"} /\ v.disturbed = FALSE =>
       \A id \in DOMAIN v.asked :
         /\ v.asked[id].hash = rows[id].hash /\ v.asked[id].key = rows[id].key
         /\ IF v.pc = "look" /\ id \in v.left THEN id \notin v.facts ELSE id \in v.facts <=> Matches(v.asked[id])
         /\ v.pc # "look" /\ Verified(id) => id \in v.facts

CallFine(v) ==
  /\ v.pc \in {"idle", "insert"} \cup Claiming \cup Rewriting \cup Resuming
  /\ v.pc = "idle" => v = Idle
  /\ v.pc \notin Resuming => "disturbed" \notin DOMAIN v
  /\ ClaimFine(v) /\ RewriteFine(v) /\ ResumeFine(v)

RowsFine ==
  /\ IsSequence(rows)
  /\ \A i \in DOMAIN rows : Row(rows[i]) /\ rows[i].by \in 0..Len(rows)
  /\ \A i, j \in DOMAIN rows : Live(rows, i) /\ Live(rows, j) /\ rows[i].key = rows[j].key => i = j
  /\ Len(rows) <= MaxRows
  /\ age \in [DOMAIN rows -> 1..Len(rows)] /\ \A i, j \in DOMAIN age : age[i] = age[j] => i = j

SessionsFine ==
  /\ made \in 0..MaxCheckpoints /\ points \subseteq 1..made
  /\ SessionRow(session)
  /\ chosen = [provider |-> chosen.provider, checkpoint |-> chosen.checkpoint]
  /\ chosen.provider # Unknown => session.provider = chosen.provider
  /\ chosen.checkpoint # Unknown => session.checkpoint = chosen.checkpoint

\* While no two calls of supersede overlap, the record that is about to replace another
\* one is still live.
Apart ==
  ~crossed =>
    /\ \A c, d \in Callers : Superseding(c) /\ Superseding(d) => c = d
    /\ \A c \in Callers : At(c, "replace") => Live(rows, call[c].id)

MemoryInv ==
  /\ file \in [Files -> Contents \cup {Absent}] /\ edits \in 0..MaxEdits
  /\ RowsFine /\ SessionsFine
  /\ DOMAIN call = Callers /\ \A c \in Callers : CallFine(call[c])
  /\ Apart /\ SupersessionEnds

-----------------------------------------------------------------------------
(* What stays while others work *)

\* A step that may add rows and checkpoints, make rows unverified, and nothing else that
\* a call relies on.
Stable ==
  /\ \A i \in DOMAIN rows :
       /\ i \in DOMAIN rows' /\ rows'[i].hash = rows[i].hash /\ rows'[i].key = rows[i].key
       /\ rows'[i].status = "verified" => rows[i].status = "verified"
  /\ Len(rows) \in Nat /\ Len(rows') \in Nat /\ Len(rows) <= Len(rows')
  /\ made \in Nat /\ made' \in Nat /\ made <= made' /\ points \subseteq points'
  /\ file' = file /\ session' = session

\* A step that may also write rows and files.
Growing ==
  /\ DOMAIN rows \subseteq DOMAIN rows'
  /\ Len(rows) \in Nat /\ Len(rows') \in Nat /\ Len(rows) <= Len(rows')
  /\ made' = made /\ points' = points /\ session' = session

\* The rows are numbered from 1.
LEMMA RowsDomain ==
  ASSUME RowsFine
  PROVE  Len(rows) \in Nat /\ DOMAIN rows = 1..Len(rows)
BY LenOf DEF RowsFine

\* A session row stays one when checkpoints are added.
LEMMA SessionRowOn ==
  ASSUME NEW s, SessionRow(s), points \subseteq points'
  PROVE  SessionRow(s)'
BY DEF SessionRow

\* The parts of CallFine, one by one.
LEMMA ClaimOn ==
  ASSUME NEW v, ClaimFine(v), Len(rows) \in Nat, Len(rows') \in Nat, Len(rows) <= Len(rows')
  PROVE  ClaimFine(v)'
BY DEF ClaimFine

\* A call that rewrites the session keeps what it knows while ids and points only grow, if the row it loaded
\* stays.
LEMMA RewriteOn ==
  ASSUME NEW v, RewriteFine(v), made \in Nat, made' \in Nat, made <= made', points \subseteq points',
         session' = session \/ v.pc # "save"
  PROVE  RewriteFine(v)'
<1>1. v.pc = "insert" => DOMAIN v = {"pc", "point"} /\ v.point \in 1..made'
  BY DEF RewriteFine
<1>2. v.pc = "save" => SessionRow(v.copy)'
  BY SessionRowOn DEF RewriteFine, Rewriting
<1> QED BY <1>1, <1>2 DEF RewriteFine, Rewriting

\* A resumption keeps what it knows through a stable step.
LEMMA ResumeOn ==
  ASSUME NEW v, ResumeFine(v), Stable
  PROVE  ResumeFine(v)'
<1>1. v.pc \in {"look", "latest", "resumed"} => DOMAIN v.asked \subseteq DOMAIN rows'
  BY DEF ResumeFine, Stable
<1>2. ASSUME v.pc \in {"look", "latest", "resumed"}, v.disturbed = FALSE, NEW id \in DOMAIN v.asked
      PROVE  /\ v.asked[id].hash = rows'[id].hash /\ v.asked[id].key = rows'[id].key
             /\ IF v.pc = "look" /\ id \in v.left THEN id \notin v.facts ELSE id \in v.facts <=> Matches(v.asked[id])'
             /\ v.pc # "look" /\ Verified(id)' => id \in v.facts
  <2>1. /\ v.asked[id].hash = rows[id].hash /\ v.asked[id].key = rows[id].key
        /\ IF v.pc = "look" /\ id \in v.left THEN id \notin v.facts ELSE id \in v.facts <=> Matches(v.asked[id])
        /\ v.pc # "look" /\ Verified(id) => id \in v.facts
    BY <1>2 DEF ResumeFine
  <2>2. id \in DOMAIN rows
    BY <1>2 DEF ResumeFine
  <2>3. Matches(v.asked[id])' = Matches(v.asked[id])
    BY DEF Matches, Stable
  <2>4. Verified(id)' => Verified(id)
    BY <2>2 DEF Verified, Stable
  <2> QED BY <2>1, <2>2, <2>3, <2>4 DEF Stable
<1>3. v.pc \in Resuming => "disturbed" \in DOMAIN v /\ v.disturbed \in BOOLEAN /\ v.owed \subseteq points'
  BY DEF ResumeFine, Stable
<1> QED BY <1>1, <1>2, <1>3 DEF ResumeFine

\* A call stays as fine as it is.
LEMMA CallOn ==
  ASSUME NEW v, CallFine(v), Stable
  PROVE  CallFine(v)'
<1>1. ClaimFine(v)' /\ RewriteFine(v)' /\ ResumeFine(v)'
  BY ClaimOn, RewriteOn, ResumeOn DEF CallFine, Stable
<1> QED BY <1>1 DEF CallFine

\* A resumption that is told of a change relies on none of the rows.
LEMMA DisturbedOn ==
  ASSUME NEW v, CallFine(v), Growing, made \in Nat,
         NEW w, w = IF "disturbed" \in DOMAIN v THEN [v EXCEPT !.disturbed = TRUE] ELSE v
  PROVE  CallFine(w)'
<1>1. CASE v.pc \notin Resuming
  <2>1. w = v
    BY <1>1 DEF CallFine
  <2>2. ClaimFine(v)' /\ RewriteFine(v)'
    BY ClaimOn, RewriteOn DEF CallFine, Growing
  <2>3. ResumeFine(v)'
    BY <1>1 DEF ResumeFine, Resuming
  <2> QED BY <2>1, <2>2, <2>3 DEF CallFine
<1>2. CASE v.pc \in Resuming
  <2>1. ResumeFine(v) /\ w = [v EXCEPT !.disturbed = TRUE]
    BY <1>2 DEF CallFine, ResumeFine
  <2>2. /\ DOMAIN w = DOMAIN v /\ w.pc = v.pc /\ w.disturbed = TRUE /\ w.owed = v.owed
        /\ w.left = v.left /\ w.asked = v.asked /\ w.restored = v.restored
    BY <1>2, <2>1 DEF ResumeFine
  <2>3. ClaimFine(w)' /\ RewriteFine(w)'
    BY <1>2, <2>2 DEF ClaimFine, RewriteFine, Claiming, Rewriting, Resuming
  <2>4. ResumeFine(w)'
    BY <1>2, <2>1, <2>2 DEF ResumeFine, Growing
  <2>5. w.pc \in Resuming /\ w.pc # "idle"
    BY <1>2, <2>2 DEF Resuming
  <2> QED BY <2>3, <2>4, <2>5 DEF CallFine
<1> QED BY <1>1, <1>2

\* What the store holds stays as it is.
LEMMA StoreOn ==
  ASSUME MemoryInv, UNCHANGED <<file, edits, rows, age, points, made, session, chosen>>
  PROVE  RowsFine' /\ SessionsFine' /\ file' \in [Files -> Contents \cup {Absent}] /\ edits' \in 0..MaxEdits
<1>1. RowsFine'
  BY DEF MemoryInv, RowsFine, Row, Live
<1>2. SessionsFine'
  BY DEF MemoryInv, SessionsFine, SessionRow
<1> QED BY <1>1, <1>2 DEF MemoryInv

\* A step that leaves the store is stable.
LEMMA StableIfQuiet ==
  ASSUME MemoryInv, UNCHANGED <<file, edits, rows, age, points, made, session, chosen>>
  PROVE  Stable
<1>1. Len(rows) \in Nat /\ made \in Nat
  BY RowsDomain DEF MemoryInv, SessionsFine
<1> QED BY <1>1 DEF Stable

\* It is enough to look at the call that steps.
LEMMA CallsOn ==
  ASSUME MemoryInv, Stable, NEW c \in Callers, NEW r,
         DOMAIN call' = Callers, call'[c] = r, \A d \in Callers \ {c} : call'[d] = call[d],
         CallFine(r)'
  PROVE  \A d \in Callers : CallFine(call[d])'
<1>1. CallFine(call[c])'
  <2> QED BY DEF CallFine, ClaimFine, RewriteFine, ResumeFine, SessionRow, Matches, Verified
<1>2. ASSUME NEW d \in Callers \ {c} PROVE CallFine(call[d])'
  <2>1. PICK v : v = call[d] /\ CallFine(v)
    BY DEF MemoryInv
  <2>2. CallFine(v)' /\ call'[d] = v
    BY <2>1, CallOn
  <2> QED BY <2>2 DEF CallFine, ClaimFine, RewriteFine, ResumeFine, SessionRow, Matches, Verified
<1> QED BY <1>1, <1>2

\* The records end where they did while no row changes.
LEMMA EndsOn ==
  ASSUME SupersessionEnds, rows' = rows, crossed => crossed'
  PROVE  SupersessionEnds'
BY DEF SupersessionEnds, Live

\* A step of one call that does not become a call of supersede.
LEMMA ApartOn ==
  ASSUME Apart, crossed' = crossed, NEW c \in Callers, DOMAIN call' = Callers,
         \A d \in Callers \ {c} : call'[d].pc = call[d].pc /\ call'[d].old = call[d].old /\ call'[d].id = call[d].id,
         Superseding(c)' => Superseding(c), call'[c].pc # "replace",
         \A d \in Callers \ {c} : At(d, "replace") /\ Live(rows, call[d].id) => Live(rows, call[d].id)'
  PROVE  Apart'
<1> SUFFICES ASSUME ~crossed
             PROVE  /\ \A b, d \in Callers : Superseding(b)' /\ Superseding(d)' => b = d
                    /\ \A d \in Callers : At(d, "replace")' => Live(rows, call[d].id)'
  BY DEF Apart
<1>1. \A d \in Callers : Superseding(d)' => Superseding(d)
  BY DEF Superseding
<1>2. ASSUME NEW d \in Callers, At(d, "replace")' PROVE Live(rows, call[d].id)'
  BY <1>2 DEF Apart, At
<1> QED BY <1>1, <1>2 DEF Apart

\* A step of one call that changes nothing of the store.
LEMMA QuietKeeps ==
  ASSUME MemoryInv, UNCHANGED <<file, edits, rows, age, points, made, session, chosen, crossed>>,
         NEW c \in Callers, NEW r,
         DOMAIN call' = Callers, call'[c] = r, \A d \in Callers \ {c} : call'[d] = call[d],
         CallFine(r), r.pc # "replace", r.pc \in Claiming /\ r.old # 0 => Superseding(c)
  PROVE  MemoryInv'
<1>1. RowsFine' /\ SessionsFine' /\ file' \in [Files -> Contents \cup {Absent}] /\ edits' \in 0..MaxEdits
  BY StoreOn
<1>2. Stable
  BY StableIfQuiet
<1>3. CallFine(r)'
  BY <1>2, CallOn
<1>4. \A d \in Callers : CallFine(call[d])'
  BY <1>2, <1>3, CallsOn
<1>5. Superseding(c)' => Superseding(c)
  BY DEF Superseding, Claiming
<1>6. \A d \in Callers : Live(rows, call[d].id) /\ call'[d] = call[d] => Live(rows, call[d].id)'
  BY DEF Live
<1>7. Apart'
  BY <1>5, <1>6, ApartOn DEF MemoryInv
<1>8. SupersessionEnds'
  BY EndsOn DEF MemoryInv
<1> QED BY <1>1, <1>4, <1>7, <1>8 DEF MemoryInv

\* Calls that begin and end.
LEMMA IdleFine == CallFine(Idle)
BY DEF CallFine, ClaimFine, RewriteFine, ResumeFine, Idle, Claiming, Rewriting, Resuming

\* A call that begins leaves the others,
LEMMA BeginDoes ==
  ASSUME MemoryInv, NEW c \in Callers, NEW r, Begin(c, r)
  PROVE  DOMAIN call' = Callers /\ call'[c] = r /\ \A d \in Callers \ {c} : call'[d] = call[d]
BY DEF MemoryInv, Begin

\* and so does one that is over.
LEMMA OverDoes ==
  ASSUME MemoryInv, NEW c \in Callers, Over(c)
  PROVE  DOMAIN call' = Callers /\ call'[c] = Idle /\ \A d \in Callers \ {c} : call'[d] = call[d]
BY DEF MemoryInv, Over

\* A call that returns keeps the invariant.
LEMMA LeaveKeeps ==
  ASSUME MemoryInv, NEW c \in Callers, Leave(c)
  PROVE  MemoryInv'
<1>1. DOMAIN call' = Callers /\ call'[c] = Idle /\ \A d \in Callers \ {c} : call'[d] = call[d]
  BY OverDoes DEF Leave
<1>2. CallFine(Idle) /\ Idle.pc = "idle"
  BY IdleFine DEF Idle
<1> QED BY <1>1, <1>2, QuietKeeps DEF Leave, memory, sessions, Claiming

-----------------------------------------------------------------------------
(* The initial states *)

\* The memory begins with its invariant.
LEMMA MemoryStarts == Init => MemoryInv
<1> SUFFICES ASSUME Init PROVE MemoryInv
  OBVIOUS
<1>1. RowsFine
  BY NoElements, MemoryAssumption DEF Init, RowsFine
<1>2. SessionsFine
  BY MemoryAssumption DEF Init, SessionsFine, SessionRow, NoSession
<1>3. DOMAIN call = Callers /\ \A c \in Callers : call[c] = Idle
  BY DEF Init
<1>4. \A c \in Callers : CallFine(call[c])
  BY <1>3, IdleFine
<1>5. Apart
  BY <1>3 DEF Apart, Superseding, At, Idle
<1>6. SupersessionEnds
  BY NoElements DEF Init, SupersessionEnds
<1>7. file \in [Files -> Contents \cup {Absent}] /\ edits \in 0..MaxEdits
  BY MemoryAssumption DEF Init
<1> QED BY <1>1, <1>2, <1>4, <1>5, <1>6, <1>7, <1>3 DEF MemoryInv

-----------------------------------------------------------------------------
(* Users edit files *)

\* Resumptions under way are told of the edit, and rely on nothing about files any more.
LEMMA EditKeeps ==
  ASSUME MemoryInv, NEW f \in Files, NEW content \in Contents \cup {Absent}, Edit(f, content)
  PROVE  MemoryInv'
<1>1. /\ file' = [file EXCEPT ![f] = content] /\ edits' = edits + 1 /\ edits < MaxEdits
      /\ call' = Disturbed(call)
      /\ UNCHANGED <<rows, age, points, made, session, chosen, crossed>>
  BY DEF Edit, memory, sessions
<1>2. file' \in [Files -> Contents \cup {Absent}] /\ edits' \in 0..MaxEdits
  BY <1>1, MemoryAssumption DEF MemoryInv
<1>3. RowsFine'
  BY <1>1 DEF MemoryInv, RowsFine, Row, Live
<1>4. SessionsFine'
  BY <1>1 DEF MemoryInv, SessionsFine, SessionRow
<1>5. Growing /\ made \in Nat
  BY <1>1, RowsDomain DEF Growing, MemoryInv, SessionsFine
<1>6. DOMAIN call' = Callers
  BY <1>1 DEF Disturbed
<1>7. ASSUME NEW c \in Callers
      PROVE  /\ CallFine(call[c])'
             /\ call'[c].pc = call[c].pc /\ call'[c].old = call[c].old /\ call'[c].id = call[c].id
  <2>1. PICK v : v = call[c] /\ CallFine(v)
    BY DEF MemoryInv
  <2>2. PICK w : w = IF "disturbed" \in DOMAIN v THEN [v EXCEPT !.disturbed = TRUE] ELSE v
    OBVIOUS
  <2>3. call'[c] = w
    BY <1>1, <2>1, <2>2 DEF Disturbed
  <2>4. CallFine(w)'
    BY <1>5, <2>1, <2>2, DisturbedOn
  <2>5. CallFine(call[c])'
    BY <2>3, <2>4 DEF CallFine, ClaimFine, RewriteFine, ResumeFine, SessionRow, Matches, Verified
  <2>6. w.pc = v.pc /\ w.old = v.old /\ w.id = v.id
    BY <2>2
  <2> QED BY <2>1, <2>3, <2>5, <2>6
<1>8. Apart'
  <2>1. \A c \in Callers : Superseding(c)' => Superseding(c)
    BY <1>7 DEF Superseding
  <2>2. \A c \in Callers : At(c, "replace")' => At(c, "replace") /\ Live(rows, call[c].id)' = Live(rows, call[c].id)
    BY <1>1, <1>7 DEF At, Live
  <2> QED BY <1>1, <2>1, <2>2 DEF MemoryInv, Apart
<1>9. SupersessionEnds'
  BY <1>1, EndsOn DEF MemoryInv
<1> QED BY <1>2, <1>3, <1>4, <1>6, <1>7, <1>8, <1>9 DEF MemoryInv

-----------------------------------------------------------------------------
(* Recording and superseding facts *)

\* What a claim records is of the sort that the rows have.
LEMMA ClaimStarts ==
  ASSUME MemoryInv, NEW k \in Keys, Claimable(k), NEW old \in Nat
  PROVE  CallFine(Claim(k, old))
<1>1. PICK v : v = Claim(k, old)
  OBVIOUS
<1>2. /\ DOMAIN v = {"pc", "key", "hash", "old", "id"} /\ v.pc = "select" /\ v.key = k
      /\ v.hash = HashNow(k[1]) /\ v.old = old /\ v.id = 0
  BY <1>1 DEF Claim
<1>3. v.hash \in Contents \cup {Absent} /\ (k[1] \notin Files => v.hash = Absent)
  BY <1>2 DEF HashNow, MemoryInv
<1>4. Len(rows) \in Nat
  BY RowsDomain DEF MemoryInv
<1>5. CallFine(v)
  BY <1>2, <1>3, <1>4 DEF CallFine, ClaimFine, RewriteFine, ResumeFine, Claiming, Rewriting, Resuming
<1> QED BY <1>1, <1>5

\* A call that claims a fact keeps the invariant.
LEMMA RecordKeeps ==
  ASSUME MemoryInv, NEW c \in Callers, NEW k \in Keys, Record(c, k)
  PROVE  MemoryInv'
<1>1. CallFine(Claim(k, 0)) /\ Claim(k, 0).pc = "select" /\ Claim(k, 0).old = 0
  BY ClaimStarts DEF Record, Claim
<1>2. /\ DOMAIN call' = Callers /\ call'[c] = Claim(k, 0)
      /\ \A d \in Callers \ {c} : call'[d] = call[d]
  BY BeginDoes DEF Record
<1> QED BY <1>1, <1>2, QuietKeeps DEF Record, memory, sessions

\* A call that overlaps with another one of supersede is seen to do so.
LEMMA SupersedeKeeps ==
  ASSUME MemoryInv, NEW c \in Callers, NEW k \in Keys, NEW old \in DOMAIN rows, Supersede(c, k, old)
  PROVE  MemoryInv'
<1>1. PICK r : r = Claim(k, old)
  OBVIOUS
<1>2. old \in Nat
  BY RowsDomain DEF MemoryInv
<1>3. CallFine(r) /\ r.pc = "select"
  BY <1>1, <1>2, ClaimStarts DEF Supersede, Claim
<1>4. DOMAIN call' = Callers /\ call'[c] = r /\ \A d \in Callers \ {c} : call'[d] = call[d]
  BY <1>1, BeginDoes DEF Supersede
<1>5. UNCHANGED <<file, edits, rows, age, points, made, session, chosen>>
  BY DEF Supersede, memory, sessions
<1>6. RowsFine' /\ SessionsFine' /\ file' \in [Files -> Contents \cup {Absent}] /\ edits' \in 0..MaxEdits
  BY <1>5, StoreOn
<1>7. \A d \in Callers : CallFine(call[d])'
  BY <1>3, <1>4, <1>5, StableIfQuiet, CallOn, CallsOn
<1>8. Apart'
  <2> SUFFICES ASSUME ~crossed'
               PROVE  /\ \A b, d \in Callers : Superseding(b)' /\ Superseding(d)' => b = d
                      /\ \A d \in Callers : At(d, "replace")' => Live(rows, call[d].id)'
    BY DEF Apart
  <2>1. ~crossed /\ \A d \in Callers : ~Superseding(d)
    BY DEF Supersede
  <2>2. \A d \in Callers \ {c} : ~Superseding(d)'
    BY <1>4, <2>1 DEF Superseding
  <2>3. \A d \in Callers : At(d, "replace")' => d # c /\ At(d, "replace")
    BY <1>3, <1>4 DEF At
  <2>4. \A d \in Callers : At(d, "replace") => Live(rows, call[d].id)
    BY <2>1 DEF MemoryInv, Apart
  <2> QED BY <1>4, <1>5, <2>2, <2>3, <2>4 DEF Live
<1>9. SupersessionEnds'
  BY <1>5, EndsOn DEF MemoryInv, Supersede
<1> QED BY <1>4, <1>6, <1>7, <1>8, <1>9 DEF MemoryInv

\* The id that is selected is that of a row, or 0.
LEMMA SelectKeeps ==
  ASSUME MemoryInv, NEW c \in Callers, Select(c)
  PROVE  MemoryInv'
<1>1. PICK v : v = call[c] /\ CallFine(v) /\ v.pc = "select"
  BY DEF MemoryInv, Select, At
<1>2. ClaimFine(v) /\ v.pc \in Claiming
  BY <1>1 DEF CallFine, Claiming
<1>3. PICK m : m = Max(Found(v.key) \cup {0})
  OBVIOUS
<1>4. m \in 0..Len(rows)
  <2>1. Len(rows) \in Nat /\ DOMAIN rows = 1..Len(rows)
    BY RowsDomain DEF MemoryInv
  <2>2. Found(v.key) \cup {0} \subseteq 0..Len(rows)
    BY <2>1 DEF Found
  <2>3. IsFiniteSet(0..Len(rows))
    BY <2>1, FS_Interval
  <2>4. IsFiniteSet(Found(v.key) \cup {0}) /\ Found(v.key) \cup {0} # {} /\ Found(v.key) \cup {0} \in SUBSET Nat
    BY <2>1, <2>2, <2>3, FS_Subset
  <2>5. m \in Found(v.key) \cup {0}
    BY <1>3, <2>4, MaxExists
  <2> QED BY <2>2, <2>5
<1>5. PICK r : r = [v EXCEPT !.pc = "write", !.id = m]
  OBVIOUS
<1>6. /\ DOMAIN r = {"pc", "key", "hash", "old", "id"} /\ r.pc = "write" /\ r.key = v.key
      /\ r.hash = v.hash /\ r.old = v.old /\ r.id = m
  BY <1>2, <1>5 DEF ClaimFine
<1>7. CallFine(r)
  <2>1. ClaimFine(r)
    BY <1>2, <1>4, <1>6 DEF ClaimFine
  <2> QED BY <1>6, <2>1 DEF CallFine, RewriteFine, ResumeFine, Claiming, Rewriting, Resuming
<1>8. DOMAIN call' = Callers /\ call'[c] = r /\ \A d \in Callers \ {c} : call'[d] = call[d]
  BY <1>1, <1>3, <1>5 DEF MemoryInv, Select
<1>9. r.old # 0 => Superseding(c)
  BY <1>1, <1>6 DEF Superseding
<1> QED BY <1>6, <1>7, <1>8, <1>9, QuietKeeps DEF Select, memory, sessions

\* What Write makes of the table: row id is the claim's, the others stay.
WritesRow(c, id, table) ==
  /\ IsSequence(table) /\ id \in 1..Len(table) /\ DOMAIN table = DOMAIN rows \cup {id}
  /\ DOMAIN table = 1..Len(table) /\ Len(table) \in Nat /\ DOMAIN rows = 1..Len(rows)
  /\ Len(rows) \in Nat /\ Len(rows) <= Len(table)
  /\ id \notin DOMAIN rows => id = Len(rows) + 1 /\ Len(table) = id
  /\ id \in DOMAIN rows => Len(table) = Len(rows)
  /\ table[id] = [key |-> call[c].key, hash |-> call[c].hash, status |-> Status(call[c].key[1]), by |-> 0]
  /\ \A i \in DOMAIN rows \ {id} : table[i] = rows[i]

\* A call at its write writes the row with the id that it found, or a new one.
LEMMA WrittenDoes ==
  ASSUME MemoryInv, NEW c \in Callers, At(c, "write")
  PROVE  WritesRow(c, IdOf(c), Written(c))
<1>0. PICK id, table : id = IdOf(c) /\ table = Written(c)
  OBVIOUS
<1>1. Len(rows) \in Nat /\ DOMAIN rows = 1..Len(rows) /\ IsSequence(rows)
  BY RowsDomain DEF MemoryInv, RowsFine
<1>2. call[c].id \in 0..Len(rows)
  BY DEF MemoryInv, CallFine, ClaimFine, At, Claiming
<1>3. PICK row : row = [key |-> call[c].key, hash |-> call[c].hash, status |-> Status(call[c].key[1]), by |-> 0]
  OBVIOUS
<1>4. CASE call[c].id = 0
  <2>1. table = Append(rows, row) /\ id = Len(rows) + 1
    BY <1>0, <1>3, <1>4 DEF Written, IdOf
  <2>2. /\ IsSequence(table) /\ Len(table) = Len(rows) + 1 /\ DOMAIN table = 1..(Len(rows) + 1)
        /\ \A i \in DOMAIN rows : table[i] = rows[i]
        /\ table[Len(rows) + 1] = row
    BY <1>1, <2>1, AppendDoes
  <2>3. id \notin DOMAIN rows /\ DOMAIN table = DOMAIN rows \cup {id} /\ id \in 1..Len(table)
    BY <1>1, <2>1, <2>2
  <2>4. Len(rows) <= Len(table) /\ Len(table) \in Nat /\ DOMAIN table = 1..Len(table) /\ Len(table) = id
    BY <1>1, <2>1, <2>2
  <2> QED BY <1>0, <1>1, <1>3, <2>1, <2>2, <2>3, <2>4 DEF WritesRow
<1>5. CASE call[c].id # 0
  <2>1. table = [rows EXCEPT ![id] = row] /\ id = call[c].id /\ id \in DOMAIN rows
    BY <1>0, <1>1, <1>2, <1>3, <1>5 DEF Written, IdOf
  <2>2. IsSequence(table) /\ Len(table) = Len(rows)
    <3>1. PICK s : s = rows /\ IsSequence(s) /\ id \in DOMAIN s
      BY <1>1, <2>1
    <3>2. IsSequence([s EXCEPT ![id] = row]) /\ Len([s EXCEPT ![id] = row]) = Len(s)
      BY ONLY <3>1, ReplaceDoes
    <3> QED BY <2>1, <3>1, <3>2
  <2>3. DOMAIN table = DOMAIN rows /\ table[id] = row /\ \A i \in DOMAIN rows \ {id} : table[i] = rows[i]
    BY <2>1
  <2> QED BY <1>0, <1>1, <1>3, <2>1, <2>2, <2>3 DEF WritesRow
<1> QED BY <1>4, <1>5

\* The places of the rows behind the one that moves to the front.
LEMMA Later ==
  ASSUME NEW n \in Nat, NEW a \in 1..n, NEW b \in 1..n, a # b
  PROVE  (IF a > b THEN a ELSE a + 1) \in 2..n
OBVIOUS

\* Different places stay different.
LEMMA LaterApart ==
  ASSUME NEW n \in Nat, NEW a \in 1..n, NEW d \in 1..n, NEW b \in 1..n, a # b, d # b,
         (IF a > b THEN a ELSE a + 1) = (IF d > b THEN d ELSE d + 1)
  PROVE  a = d
OBVIOUS

\* Different ids have different successors.
LEMMA NextApart ==
  ASSUME NEW n \in Nat, NEW a \in 1..n, NEW d \in 1..n, a + 1 = d + 1
  PROVE  a = d
OBVIOUS

\* An order of n rows, and one in which row id comes first and the others after it.
Ordering(a, n) == a \in [1..n -> 1..n] /\ \A i, j \in 1..n : a[i] = a[j] => i = j

FirstOf(id, new, m) ==
  /\ m \in Nat /\ id \in 1..m /\ DOMAIN new = 1..m /\ new = [i \in DOMAIN new |-> new[i]]
  /\ new[id] = 1 /\ \A i \in 1..m : i # id => new[i] \in 2..m
  /\ \A i, j \in 1..m : i # id /\ j # id /\ new[i] = new[j] => i = j

\* Such an order has one row at each place.
LEMMA TouchedShape ==
  ASSUME NEW m, NEW id, NEW new, FirstOf(id, new, m)
  PROVE  Ordering(new, m)
<1>1. \A i \in 1..m : new[i] \in 1..m
  <2>1. 1 \in 1..m /\ \A x : x \in 2..m => x \in 1..m /\ x # 1
    BY DEF FirstOf
  <2> QED BY <2>1 DEF FirstOf
<1>2. ASSUME NEW i \in 1..m, NEW j \in 1..m, new[i] = new[j] PROVE i = j
  <2>1. \A x : x \in 2..m => x # 1
    OBVIOUS
  <2> QED BY <1>2, <2>1 DEF FirstOf
<1> QED BY <1>1, <1>2 DEF FirstOf, Ordering

\* Of n rows the row id is written, and then there are m.
OneWritten(n, m, id) ==
  /\ n \in Nat /\ m \in Nat /\ id \in 1..m /\ n <= m /\ 1..m = 1..n \cup {id}
  /\ id \notin 1..n => id = n + 1 /\ m = id
  /\ id \in 1..n => m = n

\* The row that was written comes first, and the order of the others stays.
LEMMA TouchedDoes ==
  ASSUME NEW n, NEW m, NEW id, OneWritten(n, m, id), Ordering(age, n)
  PROVE  Ordering(Touched(id), m)
<1>1. PICK new : new = Touched(id)
  OBVIOUS
<1>2. /\ n \in Nat /\ m \in Nat /\ id \in 1..m /\ n <= m
      /\ id \notin 1..n => id = n + 1 /\ m = id
      /\ id \in 1..n => m = n
      /\ age \in [1..n -> 1..n] /\ \A i, j \in 1..n : age[i] = age[j] => i = j
  BY DEF OneWritten, Ordering
<1>3. DOMAIN age = 1..n /\ \A i \in 1..n : age[i] \in 1..n
  BY <1>2
<1>4. DOMAIN new = 1..m /\ new = [i \in DOMAIN new |-> new[i]]
  BY <1>1, <1>3 DEF Touched, OneWritten
<1>5. \A i \in 1..m : new[i] = IF i = id THEN 1
                               ELSE IF id \in 1..n /\ age[i] > age[id] THEN age[i] ELSE age[i] + 1
  BY <1>1, <1>3 DEF Touched, OneWritten
<1>6. \A i \in 1..m : i # id => i \in 1..n
  BY DEF OneWritten
<1>7. CASE id \in 1..n
  <2>1. PICK b : b = age[id] /\ b \in 1..n
    BY <1>2, <1>3, <1>7
  <2>2. \A i \in 1..m : i # id =>
          /\ age[i] \in 1..n /\ age[i] # b
          /\ new[i] = IF age[i] > b THEN age[i] ELSE age[i] + 1
    BY <1>2, <1>3, <1>5, <1>6, <1>7, <2>1
  <2>3. ASSUME NEW i \in 1..m, i # id PROVE new[i] \in 2..n
    <3>1. PICK a : a = age[i] /\ a \in 1..n /\ a # b /\ new[i] = IF a > b THEN a ELSE a + 1
      BY <2>2, <2>3
    <3>2. (IF a > b THEN a ELSE a + 1) \in 2..n
      BY <2>1, <3>1, <1>2, Later
    <3> QED BY ONLY <3>1, <3>2
  <2>4. ASSUME NEW i \in 1..m, NEW j \in 1..m, i # id, j # id, new[i] = new[j] PROVE i = j
    <3>1. PICK a : a = age[i] /\ a \in 1..n /\ a # b /\ new[i] = IF a > b THEN a ELSE a + 1
      BY <2>2, <2>4
    <3>2. PICK d : d = age[j] /\ d \in 1..n /\ d # b /\ new[j] = IF d > b THEN d ELSE d + 1
      BY <2>2, <2>4
    <3>3. a = d
      <4>1. (IF a > b THEN a ELSE a + 1) = (IF d > b THEN d ELSE d + 1)
        BY ONLY <2>4, <3>1, <3>2
      <4> QED BY <2>1, <3>1, <3>2, <4>1, <1>2, LaterApart
    <3> QED BY <1>2, <1>6, <2>4, <3>1, <3>2, <3>3
  <2>5. m = n /\ new[id] = 1 /\ 1 \in 1..n
    BY <1>2, <1>5, <1>7
  <2>6. m \in Nat /\ id \in 1..m /\ new[id] = 1 /\ \A i \in 1..m : i # id => new[i] \in 2..m
    BY <1>2, <2>3, <2>5
  <2>7. FirstOf(id, new, m)
    BY <1>4, <2>4, <2>6 DEF FirstOf
  <2> QED BY <1>1, <2>7, TouchedShape
<1>8. CASE id \notin 1..n
  <2>1. \A i \in 1..m : i # id => age[i] \in 1..n /\ new[i] = age[i] + 1
    BY <1>2, <1>3, <1>5, <1>6, <1>8
  <2>2. ASSUME NEW i \in 1..m, i # id PROVE new[i] \in 2..m
    <3>1. PICK a : a = age[i] /\ a \in 1..n /\ new[i] = a + 1
      BY <2>1, <2>2
    <3>2. m = n + 1 /\ n \in Nat
      BY <1>2, <1>8
    <3> QED BY ONLY <3>1, <3>2
  <2>3. ASSUME NEW i \in 1..m, NEW j \in 1..m, i # id, j # id, new[i] = new[j] PROVE i = j
    <3>1. PICK a : a = age[i] /\ a \in 1..n /\ new[i] = a + 1
      BY <2>1, <2>3
    <3>2. PICK d : d = age[j] /\ d \in 1..n /\ new[j] = d + 1
      BY <2>1, <2>3
    <3>3. a = d
      BY <2>3, <3>1, <3>2, <1>2, NextApart
    <3> QED BY <1>2, <1>6, <2>3, <3>1, <3>2, <3>3
  <2>4. m \in Nat /\ id \in 1..m /\ new[id] = 1 /\ \A i \in 1..m : i # id => new[i] \in 2..m
    BY <1>2, <1>5, <2>2
  <2>5. FirstOf(id, new, m)
    BY <1>4, <2>3, <2>4 DEF FirstOf
  <2> QED BY <1>1, <2>5, TouchedShape
<1> QED BY <1>7, <1>8

\* The table that is written.
LEMMA WrittenFine ==
  ASSUME MemoryInv, NEW c \in Callers, At(c, "write"), IdOf(c) <= MaxRows, ~Clashes(Written(c), IdOf(c)),
         rows' = Written(c), age' = Touched(IdOf(c))
  PROVE  RowsFine'
<1>1. PICK id, table : id = IdOf(c) /\ table = Written(c)
  OBVIOUS
<1>2. WritesRow(c, id, table)
  BY <1>1, WrittenDoes
<1>3. ClaimFine(call[c]) /\ call[c].pc \in Claiming
  BY DEF MemoryInv, CallFine, At, Claiming
<1>4. RowsFine
  BY DEF MemoryInv
<1>5. Row(table[id]) /\ table[id].by = 0
  BY <1>2, <1>3 DEF WritesRow, ClaimFine, Row, Status
<1>6. \A i \in DOMAIN table : Row(table[i]) /\ table[i].by \in 0..Len(table)
  <2>1. ASSUME NEW i \in DOMAIN rows \ {id} PROVE Row(table[i]) /\ table[i].by \in 0..Len(table)
    <3>1. Row(rows[i]) /\ rows[i].by \in 0..Len(rows) /\ table[i] = rows[i]
      BY <1>2, <1>4 DEF RowsFine, WritesRow
    <3> QED BY <1>2, <3>1 DEF WritesRow
  <2> QED BY <1>2, <1>5, <2>1 DEF WritesRow
<1>7. ASSUME NEW i \in DOMAIN table, NEW j \in DOMAIN table,
             Live(table, i), Live(table, j), table[i].key = table[j].key
      PROVE  i = j
  <2>1. \A k \in DOMAIN table : k # id /\ Live(table, k) => table[k].key # table[id].key
    BY <1>1 DEF Clashes
  <2>2. CASE i = id \/ j = id
    BY <1>7, <2>1, <2>2
  <2>3. CASE i # id /\ j # id
    <3>1. i \in DOMAIN rows /\ j \in DOMAIN rows /\ table[i] = rows[i] /\ table[j] = rows[j]
      BY <1>2, <2>3 DEF WritesRow
    <3> QED BY <1>4, <1>7, <3>1 DEF RowsFine, Live
  <2> QED BY <2>2, <2>3
<1>8. Len(table) <= MaxRows
  <2>1. MaxRows \in Nat
    BY MemoryAssumption
  <2> QED BY <1>1, <1>2, <1>4, <2>1 DEF RowsFine, WritesRow
<1>9. age' \in [DOMAIN table -> 1..Len(table)] /\ \A i, j \in DOMAIN age' : age'[i] = age'[j] => i = j
  <2>1. age' = Touched(id)
    BY <1>1
  <2>2. PICK n, m : n = Len(rows) /\ m = Len(table)
    OBVIOUS
  <2>3. OneWritten(n, m, id)
    BY <1>2, <2>2 DEF WritesRow, OneWritten
  <2>4. Ordering(age, n)
    BY <1>2, <1>4, <2>2 DEF RowsFine, WritesRow, Ordering
  <2>5. Ordering(age', m)
    BY <2>1, <2>3, <2>4, TouchedDoes
  <2>6. DOMAIN table = 1..m /\ m = Len(table) /\ DOMAIN age' = 1..m
    BY <1>2, <2>2, <2>5 DEF WritesRow, Ordering
  <2> QED BY <2>5, <2>6 DEF Ordering
<1>10. rows' = table
  BY <1>1
<1>11. IsSequence(table)
  BY <1>2 DEF WritesRow
<1> QED BY <1>6, <1>7, <1>8, <1>9, <1>10, <1>11 DEF RowsFine

\* The row that is written is live, so no circle goes through it.
LEMMA WriteKeeps ==
  ASSUME MemoryInv, NEW c \in Callers, Write(c)
  PROVE  MemoryInv'
<1>1. CASE Clashes(Written(c), IdOf(c))
  <2>1. Over(c) /\ UNCHANGED <<file, edits, rows, age, points, made, session, chosen, crossed>>
    BY <1>1 DEF Write, memory, sessions
  <2>2. DOMAIN call' = Callers /\ call'[c] = Idle /\ \A d \in Callers \ {c} : call'[d] = call[d]
    BY <2>1, OverDoes
  <2>3. CallFine(Idle) /\ Idle.pc = "idle"
    BY IdleFine DEF Idle
  <2> QED BY <2>1, <2>2, <2>3, QuietKeeps DEF Claiming
<1>2. CASE ~Clashes(Written(c), IdOf(c))
  <2>1. PICK v : v = call[c] /\ CallFine(v) /\ v.pc = "write"
    BY DEF MemoryInv, Write, At
  <2>2. PICK id : id = IdOf(c)
    OBVIOUS
  <2>3. PICK r : r = IF v.old = 0 THEN Idle ELSE [v EXCEPT !.pc = "replace", !.id = id]
    OBVIOUS
  <2>4. /\ rows' = Written(c) /\ age' = Touched(id) /\ IdOf(c) <= MaxRows
        /\ call' = Disturbed([call EXCEPT ![c] = r])
        /\ UNCHANGED <<file, edits, points, made, session, chosen, crossed>>
    BY <1>2, <2>1, <2>2, <2>3 DEF Write, sessions
  <2>5. RowsFine'
    BY <1>2, <2>2, <2>4, WrittenFine DEF Write
  <2>6. SessionsFine'
    BY <2>4 DEF MemoryInv, SessionsFine, SessionRow
  <2>7. /\ id \in 1..Len(rows') /\ DOMAIN rows' = DOMAIN rows \cup {id} /\ DOMAIN rows' = 1..Len(rows')
        /\ Len(rows') \in Nat /\ Len(rows) \in Nat /\ Len(rows) <= Len(rows')
        /\ rows'[id].status = Status(v.key[1])
        /\ \A i \in DOMAIN rows \ {id} : rows'[i] = rows[i]
    <3>1. PICK table : table = Written(c)
      OBVIOUS
    <3>2. WritesRow(c, id, table)
      BY <2>2, <3>1, WrittenDoes DEF Write
    <3> QED BY <2>1, <2>4, <3>1, <3>2 DEF WritesRow
  <2>8. Growing /\ made \in Nat
    BY <2>4, <2>7 DEF Growing, MemoryInv, SessionsFine
  <2>9. ClaimFine(v)
    BY <2>1 DEF CallFine
  <2>10. \/ v.old = 0 /\ r = Idle
         \/ /\ v.old # 0 /\ DOMAIN r = {"pc", "key", "hash", "old", "id"} /\ r.pc = "replace" /\ r.key = v.key
            /\ r.hash = v.hash /\ r.old = v.old /\ r.id = id
    BY <2>1, <2>3, <2>9 DEF ClaimFine, Claiming
  <2>11. CallFine(r)'
    <3>1. CASE r = Idle
      BY <3>1, IdleFine DEF CallFine, ClaimFine, RewriteFine, ResumeFine, Idle, Claiming, Rewriting, Resuming
    <3>2. CASE r # Idle
      <4>1. ClaimFine(r)'
        BY <2>1, <2>7, <2>9, <2>10, <3>2 DEF ClaimFine, Claiming
      <4> QED BY <2>10, <3>2, <4>1 DEF CallFine, RewriteFine, ResumeFine, Claiming, Rewriting, Resuming
    <3> QED BY <3>1, <3>2
  <2>12. "disturbed" \notin DOMAIN r
    BY <2>10 DEF Idle
  <2>13. DOMAIN call' = Callers /\ call'[c] = r
    BY <2>4, <2>12 DEF Disturbed, MemoryInv
  <2>14. ASSUME NEW d \in Callers \ {c}
         PROVE  /\ CallFine(call[d])'
                /\ call'[d].pc = call[d].pc /\ call'[d].old = call[d].old /\ call'[d].id = call[d].id
    <3>1. PICK w : w = call[d] /\ CallFine(w)
      BY DEF MemoryInv
    <3>2. PICK x : x = IF "disturbed" \in DOMAIN w THEN [w EXCEPT !.disturbed = TRUE] ELSE w
      OBVIOUS
    <3>3. call'[d] = x
      BY <2>4, <3>1, <3>2 DEF Disturbed, MemoryInv
    <3>4. CallFine(x)'
      BY <2>8, <3>1, <3>2, DisturbedOn
    <3>5. CallFine(call[d])'
      BY <3>3, <3>4 DEF CallFine, ClaimFine, RewriteFine, ResumeFine, SessionRow, Matches, Verified
    <3>6. x.pc = w.pc /\ x.old = w.old /\ x.id = w.id
      BY <3>2
    <3> QED BY <3>1, <3>3, <3>5, <3>6
  <2>15. CallFine(call[c])'
    BY <2>11, <2>13 DEF CallFine, ClaimFine, RewriteFine, ResumeFine, SessionRow, Matches, Verified
  <2>16. Live(rows, id)' /\ \A i \in DOMAIN rows : Live(rows, i) => Live(rows, i)'
    BY <2>7 DEF Live, Status
  <2>17. Apart'
    <3> SUFFICES ASSUME ~crossed
                 PROVE  /\ \A b, d \in Callers : Superseding(b)' /\ Superseding(d)' => b = d
                        /\ \A d \in Callers : At(d, "replace")' => Live(rows, call[d].id)'
      BY <2>4 DEF Apart
    <3>1. \A d \in Callers : Superseding(d)' => Superseding(d)
      <4>1. Superseding(c)' => Superseding(c)
        BY <2>1, <2>10, <2>13 DEF Superseding, Idle
      <4> QED BY <2>14, <4>1 DEF Superseding
    <3>2. ASSUME NEW d \in Callers, At(d, "replace")' PROVE Live(rows, call[d].id)'
      <4>1. CASE d = c
        BY <2>10, <2>13, <2>16, <3>2, <4>1 DEF At, Idle, Live
      <4>2. CASE d # c
        <5>1. At(d, "replace") /\ call'[d].id = call[d].id
          BY <2>14, <3>2, <4>2 DEF At
        <5>2. Live(rows, call[d].id) /\ call[d].id \in DOMAIN rows
          BY <5>1, RowsDomain DEF MemoryInv, Apart, CallFine, ClaimFine, At, Claiming
        <5> QED BY <2>16, <5>1, <5>2 DEF Live
      <4> QED BY <4>1, <4>2
    <3> QED BY <3>1, <3>2 DEF MemoryInv, Apart
  <2>18. SupersessionEnds'
    <3> SUFFICES ASSUME ~crossed, NEW circle \in SUBSET {i \in DOMAIN rows' : ~Live(rows, i)'}, circle # {}
                 PROVE  \E i \in circle : rows'[i].by \notin circle
      BY <2>4 DEF SupersessionEnds
    <3>1. \A i \in circle : i \in DOMAIN rows /\ i # id /\ ~Live(rows, i) /\ rows'[i] = rows[i]
      BY <2>7, <2>16 DEF Live
    <3>2. circle \in SUBSET {i \in DOMAIN rows : ~Live(rows, i)}
      BY <3>1
    <3>3. PICK i \in circle : rows[i].by \notin circle
      BY <3>2 DEF MemoryInv, SupersessionEnds
    <3> QED BY <3>1, <3>3
  <2> QED BY <2>4, <2>5, <2>6, <2>13, <2>14, <2>15, <2>17, <2>18 DEF MemoryInv
<1> QED BY <1>1, <1>2

\* Only another record is superseded by a new one, which still stands itself: so every
\* chain of superseded records goes on to it and ends there.
LEMMA ReplaceKeeps ==
  ASSUME MemoryInv, NEW c \in Callers, Replace(c)
  PROVE  MemoryInv'
<1>1. PICK v : v = call[c] /\ CallFine(v) /\ v.pc = "replace"
  BY DEF MemoryInv, Replace, At
<1>2. /\ v.old # 0 /\ v.id \in 0..Len(rows) /\ v.id # 0 /\ ClaimFine(v)
      /\ Len(rows) \in Nat /\ DOMAIN rows = 1..Len(rows) /\ v.id \in DOMAIN rows
  BY <1>1, RowsDomain DEF MemoryInv, CallFine, ClaimFine, Claiming
<1>3. DOMAIN call' = Callers /\ call'[c] = Idle /\ \A d \in Callers \ {c} : call'[d] = call[d]
  BY OverDoes DEF Replace
<1>4. UNCHANGED <<file, edits, age, points, made, session, chosen, crossed>>
  BY DEF Replace, sessions
<1>5. CASE ~Replaceable(v.old, v.id)
  <2>1. rows' = rows
    BY <1>1, <1>5 DEF Replace
  <2>2. CallFine(Idle) /\ Idle.pc = "idle"
    BY IdleFine DEF Idle
  <2> QED BY <1>3, <1>4, <2>1, <2>2, QuietKeeps DEF Claiming
<1>6. CASE Replaceable(v.old, v.id)
  <2>1. PICK old, row : old = v.old /\ row = [rows[old] EXCEPT !.status = "superseded", !.by = v.id]
    OBVIOUS
  <2>2. old \in DOMAIN rows /\ old # v.id
    BY <1>6, <2>1 DEF Replaceable
  <2>3. PICK o : o = rows[old] /\ Row(o)
    BY <2>2 DEF MemoryInv, RowsFine
  <2>4. /\ row = [key |-> row.key, hash |-> row.hash, status |-> row.status, by |-> row.by]
        /\ row.key = o.key /\ row.hash = o.hash /\ row.status = "superseded" /\ row.by = v.id
    BY <2>1, <2>3 DEF Row
  <2>5. Row(row)
    BY <1>2, <2>3, <2>4 DEF Row
  <2>6. rows' = [rows EXCEPT ![old] = row]
    BY <1>1, <1>6, <2>1 DEF Replace
  <2>7. /\ IsSequence(rows') /\ Len(rows') = Len(rows) /\ DOMAIN rows' = DOMAIN rows
        /\ \A i \in DOMAIN rows : rows'[i] = IF i = old THEN row ELSE rows[i]
    <3>1. PICK s : s = rows /\ IsSequence(s) /\ old \in DOMAIN s
      BY <2>2 DEF MemoryInv, RowsFine
    <3>2. IsSequence([s EXCEPT ![old] = row]) /\ Len([s EXCEPT ![old] = row]) = Len(s)
      BY ONLY <3>1, ReplaceDoes
    <3>3. DOMAIN rows' = DOMAIN rows /\ \A i \in DOMAIN rows : rows'[i] = IF i = old THEN row ELSE rows[i]
      BY <2>2, <2>6
    <3> QED BY <2>6, <3>1, <3>2, <3>3
  <2>8. \A i \in DOMAIN rows : Row(rows'[i]) /\ rows'[i].by \in 0..Len(rows)
    BY <1>2, <2>4, <2>5, <2>7 DEF MemoryInv, RowsFine
  <2>9. \A i \in DOMAIN rows : Live(rows', i) => i # old /\ rows'[i] = rows[i] /\ Live(rows, i)
    BY <2>4, <2>7 DEF Live
  <2>10. RowsFine'
    <3>1. \A i, j \in DOMAIN rows' : Live(rows', i) /\ Live(rows', j) /\ rows'[i].key = rows'[j].key => i = j
      BY <2>7, <2>9 DEF MemoryInv, RowsFine
    <3>2. Len(rows') <= MaxRows /\ age' \in [DOMAIN rows' -> 1..Len(rows')]
          /\ \A i, j \in DOMAIN age' : age'[i] = age'[j] => i = j
      BY <1>4, <2>7 DEF MemoryInv, RowsFine
    <3> QED BY <2>7, <2>8, <3>1, <3>2 DEF RowsFine
  <2>11. SessionsFine'
    BY <1>4 DEF MemoryInv, SessionsFine, SessionRow
  <2>12. Stable
    <3>1. made \in Nat
      BY DEF MemoryInv, SessionsFine
    <3>2. ASSUME NEW i \in DOMAIN rows
          PROVE  /\ rows'[i].hash = rows[i].hash /\ rows'[i].key = rows[i].key
                 /\ rows'[i].status = "verified" => rows[i].status = "verified"
      BY <2>3, <2>4, <2>7
    <3> QED BY <1>2, <1>4, <2>7, <3>1, <3>2 DEF Stable
  <2>13. \A d \in Callers : CallFine(call[d])'
    BY <1>3, <2>12, IdleFine, CallOn, CallsOn
  <2>14. ASSUME ~crossed PROVE Live(rows, v.id)' /\ \A d \in Callers \ {c} : ~Superseding(d)
    <3>1. At(c, "replace") /\ Superseding(c)
      BY <1>1, <1>2 DEF At, Superseding
    <3>2. Live(rows, v.id) /\ \A d \in Callers \ {c} : ~Superseding(d)
      BY <1>1, <2>14, <3>1 DEF MemoryInv, Apart
    <3> QED BY <1>2, <2>2, <2>7, <3>2 DEF Live
  <2>15. Apart'
    <3> SUFFICES ASSUME ~crossed
                 PROVE  /\ \A b, d \in Callers : Superseding(b)' /\ Superseding(d)' => b = d
                        /\ \A d \in Callers : At(d, "replace")' => Live(rows, call[d].id)'
      BY <1>4 DEF Apart
    <3>1. \A d \in Callers \ {c} : ~Superseding(d)'
      BY <1>3, <2>14 DEF Superseding
    <3>2. ~Superseding(c)' /\ ~At(c, "replace")'
      BY <1>3 DEF Superseding, At, Idle
    <3>3. ASSUME NEW d \in Callers \ {c}, At(d, "replace")' PROVE FALSE
      <4>1. call[d].pc = "replace" /\ CallFine(call[d])
        BY <1>3, <3>3 DEF At, MemoryInv
      <4>2. Superseding(d)
        BY <4>1 DEF CallFine, ClaimFine, Claiming, Superseding
      <4> QED BY <2>14, <4>2
    <3> QED BY <3>1, <3>2, <3>3
  <2>16. SupersessionEnds'
    <3> SUFFICES ASSUME ~crossed, NEW circle \in SUBSET {i \in DOMAIN rows' : ~Live(rows, i)'}, circle # {}
                 PROVE  \E i \in circle : rows'[i].by \notin circle
      BY <1>4 DEF SupersessionEnds
    <3>1. CASE old \in circle
      <4>1. rows'[old].by = v.id /\ v.id \notin circle
        BY <2>2, <2>4, <2>7, <2>14
      <4> QED BY <3>1, <4>1
    <3>2. CASE old \notin circle
      <4>1. \A i \in circle : i \in DOMAIN rows /\ ~Live(rows, i) /\ rows'[i] = rows[i]
        BY <2>7, <3>2 DEF Live
      <4>2. PICK i \in circle : rows[i].by \notin circle
        BY <4>1 DEF MemoryInv, SupersessionEnds
      <4> QED BY <4>1, <4>2
    <3> QED BY <3>1, <3>2
  <2>17. file' \in [Files -> Contents \cup {Absent}] /\ edits' \in 0..MaxEdits
    BY <1>4 DEF MemoryInv
  <2> QED BY <1>3, <2>10, <2>11, <2>13, <2>15, <2>16, <2>17 DEF MemoryInv
<1> QED BY <1>5, <1>6

-----------------------------------------------------------------------------
(* The session row *)

\* A call that is to rewrite the session first loads it.
LEMMA RewriteStarts ==
  ASSUME MemoryInv, NEW op \in {"open", "configure"}, NEW p \in Providers, NEW r, r = RewriteOf(op, p, 0)
  PROVE  CallFine(r) /\ r.pc = "load"
<1>1. /\ DOMAIN r = {"pc", "op", "provider", "point", "copy", "outdated"} /\ r.pc = "load" /\ r.op = op
      /\ r.provider = p /\ r.outdated = FALSE
  BY DEF RewriteOf
<1> QED BY <1>1 DEF CallFine, ClaimFine, RewriteFine, ResumeFine, Claiming, Rewriting, Resuming

\* What opens and configures, loads and saves.
LEMMA OpenKeeps ==
  ASSUME MemoryInv, NEW c \in Callers, NEW p \in Providers, Open(c, p)
  PROVE  MemoryInv'
<1>1. PICK r : r = RewriteOf("open", p, 0)
  OBVIOUS
<1>2. CallFine(r) /\ r.pc = "load"
  BY <1>1, RewriteStarts
<1>3. DOMAIN call' = Callers /\ call'[c] = r /\ \A d \in Callers \ {c} : call'[d] = call[d]
  BY <1>1, BeginDoes DEF Open
<1> QED BY <1>2, <1>3, QuietKeeps DEF Open, memory, sessions, Claiming

\* A call that is to choose a provider keeps the invariant.
LEMMA ConfigureKeeps ==
  ASSUME MemoryInv, NEW c \in Callers, NEW p \in Providers, Configure(c, p)
  PROVE  MemoryInv'
<1>1. PICK r : r = RewriteOf("configure", p, 0)
  OBVIOUS
<1>2. CallFine(r) /\ r.pc = "load"
  BY <1>1, RewriteStarts
<1>3. DOMAIN call' = Callers /\ call'[c] = r /\ \A d \in Callers \ {c} : call'[d] = call[d]
  BY <1>1, BeginDoes DEF Configure
<1> QED BY <1>2, <1>3, QuietKeeps DEF Configure, memory, sessions, Claiming

\* A step of one call that leaves the rows and the files and may add a checkpoint.
LEMMA SessionKeeps ==
  ASSUME MemoryInv, UNCHANGED <<file, edits, rows, age, session, chosen, crossed>>,
         made' \in 0..MaxCheckpoints, made <= made', points \subseteq points', points' \subseteq 1..made',
         NEW c \in Callers, NEW r,
         DOMAIN call' = Callers, call'[c] = r, \A d \in Callers \ {c} : call'[d] = call[d],
         CallFine(r)', r.pc \notin Claiming
  PROVE  MemoryInv'
<1>1. RowsFine' /\ file' \in [Files -> Contents \cup {Absent}] /\ edits' \in 0..MaxEdits
  BY DEF MemoryInv, RowsFine, Row, Live
<1>2. SessionsFine'
  <2>1. SessionRow(session)'
    BY DEF MemoryInv, SessionsFine, SessionRow
  <2> QED BY <2>1 DEF MemoryInv, SessionsFine
<1>3. Stable
  BY RowsDomain DEF Stable, MemoryInv, SessionsFine
<1>4. \A d \in Callers : CallFine(call[d])'
  BY <1>3, CallsOn
<1>5. ~Superseding(c)' /\ call'[c].pc # "replace"
  BY DEF Superseding, Claiming
<1>6. \A d \in Callers : Live(rows, call[d].id) /\ call'[d] = call[d] => Live(rows, call[d].id)'
  BY DEF Live
<1>7. Apart'
  BY <1>5, <1>6, ApartOn DEF MemoryInv
<1>8. SupersessionEnds'
  BY EndsOn DEF MemoryInv
<1> QED BY <1>1, <1>2, <1>4, <1>7, <1>8 DEF MemoryInv

\* A checkpoint is dated before it is stored, and stored before the session row names it.
LEMMA CheckpointKeeps ==
  ASSUME MemoryInv, NEW c \in Callers, Checkpoint(c)
  PROVE  MemoryInv'
<1>1. PICK r : r = [pc |-> "insert", point |-> made + 1]
  OBVIOUS
<1>2. DOMAIN call' = Callers /\ call'[c] = r /\ \A d \in Callers \ {c} : call'[d] = call[d]
  BY <1>1, BeginDoes DEF Checkpoint
<1>3. /\ made \in Nat /\ made' = made + 1 /\ made' \in 0..MaxCheckpoints /\ points' = points
      /\ points \subseteq 1..made' /\ UNCHANGED <<file, edits, rows, age, session, chosen, crossed>>
  <2>1. made \in 0..MaxCheckpoints /\ points \subseteq 1..made /\ MaxCheckpoints \in Nat
    BY MemoryAssumption DEF MemoryInv, SessionsFine
  <2>2. made' = made + 1 /\ made < MaxCheckpoints /\ points' = points
        /\ UNCHANGED <<file, edits, rows, age, session, chosen, crossed>>
    BY DEF Checkpoint, memory
  <2> QED BY <2>1, <2>2
<1>4. DOMAIN r = {"pc", "point"} /\ r.pc = "insert" /\ r.point \in 1..made'
  BY <1>1, <1>3
<1>5. CallFine(r)'
  BY <1>4 DEF CallFine, ClaimFine, RewriteFine, ResumeFine, Claiming, Rewriting, Resuming
<1> QED BY <1>2, <1>3, <1>4, <1>5, SessionKeeps DEF Claiming

\* A checkpoint that is stored keeps the invariant.
LEMMA InsertKeeps ==
  ASSUME MemoryInv, NEW c \in Callers, Insert(c)
  PROVE  MemoryInv'
<1>1. PICK v : v = call[c] /\ CallFine(v) /\ v.pc = "insert"
  BY DEF MemoryInv, Insert, At
<1>2. PICK r : r = RewriteOf("checkpoint", Unknown, v.point)
  OBVIOUS
<1>3. DOMAIN call' = Callers /\ call'[c] = r /\ \A d \in Callers \ {c} : call'[d] = call[d]
  BY <1>1, <1>2 DEF Insert, MemoryInv
<1>4. v.point \in 1..made /\ points' = points \cup {v.point} /\ made' = made
  BY <1>1 DEF Insert, CallFine, RewriteFine
<1>5. UNCHANGED <<file, edits, rows, age, session, chosen, crossed>>
  BY DEF Insert, memory
<1>6. made' \in 0..MaxCheckpoints /\ made <= made' /\ points \subseteq points' /\ points' \subseteq 1..made'
  BY <1>4 DEF MemoryInv, SessionsFine
<1>7. /\ DOMAIN r = {"pc", "op", "provider", "point", "copy", "outdated"} /\ r.pc = "load" /\ r.op = "checkpoint"
      /\ r.point \in points' /\ r.outdated = FALSE
  BY <1>2, <1>4 DEF RewriteOf
<1>8. CallFine(r)' /\ r.pc \notin Claiming
  BY <1>7 DEF CallFine, ClaimFine, RewriteFine, ResumeFine, Claiming, Rewriting, Resuming
<1> QED BY <1>3, <1>5, <1>6, <1>8, SessionKeeps

\* What is loaded is the row as it is, until another process saves.
LEMMA LoadKeeps ==
  ASSUME MemoryInv, NEW c \in Callers, Load(c)
  PROVE  MemoryInv'
<1>1. PICK v : v = call[c] /\ CallFine(v) /\ v.pc = "load"
  BY DEF MemoryInv, Load, At
<1>2. RewriteFine(v) /\ v.pc \in Rewriting
  BY <1>1 DEF CallFine, Rewriting
<1>3. PICK r : r = [v EXCEPT !.pc = "save", !.copy = session]
  OBVIOUS
<1>4. /\ DOMAIN r = {"pc", "op", "provider", "point", "copy", "outdated"} /\ r.pc = "save" /\ r.op = v.op
      /\ r.provider = v.provider /\ r.point = v.point /\ r.copy = session /\ r.outdated = v.outdated
  BY <1>2, <1>3 DEF RewriteFine
<1>5. DOMAIN call' = Callers /\ call'[c] = r /\ \A d \in Callers \ {c} : call'[d] = call[d]
  BY <1>1, <1>3 DEF Load, MemoryInv
<1>6. RewriteFine(r)
  BY <1>2, <1>4 DEF RewriteFine, Rewriting, MemoryInv, SessionsFine
<1>7. CallFine(r)
  BY <1>4, <1>6 DEF CallFine, ClaimFine, ResumeFine, Claiming, Rewriting, Resuming
<1> QED BY <1>4, <1>5, <1>7, QuietKeeps DEF Load, memory, sessions, Claiming

\* A rewrite stores the provider and the checkpoint of the row that it read, or those
\* that it was called with.
LEMMA RewrittenDoes ==
  ASSUME MemoryInv, NEW v, CallFine(v), v.pc = "save", NEW s, s = Rewritten(v)
  PROVE  /\ SessionRow(s)
         /\ \/ v.op = "open" /\ s = Opened(v)
            \/ v.op = "configure" /\ s = [v.copy EXCEPT !.provider = v.provider]
            \/ v.op = "checkpoint" /\ s = [v.copy EXCEPT !.checkpoint = v.point]
<1>1. /\ v.op \in {"open", "configure", "checkpoint"} /\ SessionRow(v.copy)
      /\ v.op \in {"open", "configure"} => v.provider \in Providers
      /\ v.op = "checkpoint" => v.point \in points
  BY DEF CallFine, RewriteFine, Rewriting
<1>2. \/ v.op = "open" /\ s = Opened(v)
      \/ v.op = "configure" /\ s = [v.copy EXCEPT !.provider = v.provider]
      \/ v.op = "checkpoint" /\ s = [v.copy EXCEPT !.checkpoint = v.point]
  BY <1>1 DEF Rewritten
<1>3. PICK o : o = v.copy /\ SessionRow(o)
  BY <1>1
<1>4. SessionRow(s)
  BY <1>1, <1>2, <1>3 DEF SessionRow, Opened
<1> QED BY <1>2, <1>4

\* What the row has to show, it shows.
LEMMA AskedDoes ==
  ASSUME MemoryInv, NEW v, CallFine(v), v.pc = "save", v.copy = session, NEW s, s = Rewritten(v), NEW a, a = Asked(v)
  PROVE  /\ a = [provider |-> a.provider, checkpoint |-> a.checkpoint]
         /\ a.provider # Unknown => s.provider = a.provider
         /\ a.checkpoint # Unknown => s.checkpoint = a.checkpoint
<1>1. PICK o, h : /\ o = session /\ h = chosen
                  /\ o = [provider |-> o.provider, checkpoint |-> o.checkpoint]
                  /\ h = [provider |-> h.provider, checkpoint |-> h.checkpoint]
                  /\ h.provider # Unknown => o.provider = h.provider
                  /\ h.checkpoint # Unknown => o.checkpoint = h.checkpoint
  BY DEF MemoryInv, SessionsFine, SessionRow
<1>2. CASE v.op = "open"
  <2>1. s = Opened(v) /\ a = IF o = NoSession THEN [h EXCEPT !.provider = v.provider] ELSE h
    BY <1>1, <1>2 DEF Rewritten, Asked
  <2>2. s = IF o = NoSession THEN [o EXCEPT !.provider = v.provider] ELSE o
    BY <1>1, <2>1 DEF Opened
  <2> QED BY <1>1, <2>1, <2>2
<1>3. CASE v.op = "configure"
  <2>1. s = [o EXCEPT !.provider = v.provider] /\ a = [h EXCEPT !.provider = v.provider]
    BY <1>1, <1>3 DEF Rewritten, Asked
  <2> QED BY <1>1, <2>1
<1>4. CASE v.op = "checkpoint"
  <2>1. s = [o EXCEPT !.checkpoint = v.point] /\ a = [h EXCEPT !.checkpoint = v.point]
    BY <1>1, <1>4 DEF Rewritten, Asked
  <2> QED BY <1>1, <2>1
<1>5. v.op \in {"open", "configure", "checkpoint"}
  BY DEF CallFine, RewriteFine, Rewriting
<1> QED BY <1>2, <1>3, <1>4, <1>5

\* Every other process that has loaded the row is outdated from now on.
LEMMA SaveKeeps ==
  ASSUME MemoryInv, NEW c \in Callers, Save(c)
  PROVE  MemoryInv'
<1>1. PICK v : v = call[c] /\ CallFine(v) /\ v.pc = "save"
  BY DEF MemoryInv, Save, At
<1>2. PICK s, a : s = Rewritten(v) /\ a = Asked(v)
  OBVIOUS
<1>3. /\ session' = s /\ chosen' = IF v.outdated THEN [provider |-> Unknown, checkpoint |-> Unknown] ELSE a
      /\ UNCHANGED <<file, edits, rows, age, points, made, crossed>>
  BY <1>1, <1>2 DEF Save, memory
<1>4. DOMAIN call' = Callers /\ call'[c] = Idle
  BY DEF Save
<1>5. ASSUME NEW d \in Callers \ {c}
      PROVE  /\ call'[d].pc = call[d].pc /\ call'[d].old = call[d].old /\ call'[d].id = call[d].id
             /\ CallFine(call[d])'
  <2>1. PICK w : w = call[d] /\ CallFine(w)
    BY DEF MemoryInv
  <2>2. PICK x : x = IF w.pc = "save" THEN [w EXCEPT !.outdated = TRUE] ELSE w
    OBVIOUS
  <2>3. call'[d] = x
    BY <2>1, <2>2 DEF Save, At
  <2>4. x.pc = w.pc /\ x.old = w.old /\ x.id = w.id
    BY <2>2
  <2>5. CallFine(x)'
    <3>1. made \in Nat /\ Len(rows) \in Nat
      BY RowsDomain DEF MemoryInv, SessionsFine
    <3>2. CASE w.pc # "save"
      <4>1. x = w /\ ClaimFine(w)' /\ RewriteFine(w)'
        BY <1>3, <2>1, <2>2, <3>1, <3>2, ClaimOn, RewriteOn DEF CallFine
      <4>2. ResumeFine(w)'
        BY <1>3, <2>1 DEF CallFine, ResumeFine, Matches, Verified
      <4> QED BY <2>1, <4>1, <4>2 DEF CallFine
    <3>3. CASE w.pc = "save"
      <4>1. RewriteFine(w) /\ x = [w EXCEPT !.outdated = TRUE]
        BY <2>1, <2>2, <3>3 DEF CallFine
      <4>2. /\ DOMAIN x = {"pc", "op", "provider", "point", "copy", "outdated"} /\ x.op = w.op /\ x.provider = w.provider
            /\ x.point = w.point /\ x.copy = w.copy /\ x.outdated = TRUE /\ x.pc = "save"
        BY <3>3, <4>1 DEF RewriteFine, Rewriting
      <4>3. SessionRow(x.copy)'
        BY <1>3, <3>3, <4>1, <4>2 DEF RewriteFine, Rewriting, SessionRow
      <4>4. RewriteFine(x)'
        BY <1>3, <3>3, <4>1, <4>2, <4>3 DEF RewriteFine, Rewriting
      <4> QED BY <4>2, <4>4 DEF CallFine, ClaimFine, ResumeFine, Claiming, Rewriting, Resuming
    <3> QED BY <3>2, <3>3
  <2>6. CallFine(call[d])'
    BY <2>3, <2>5 DEF CallFine, ClaimFine, RewriteFine, ResumeFine, SessionRow, Matches, Verified
  <2> QED BY <2>1, <2>3, <2>4, <2>6
<1>6. CallFine(call[c])'
  BY <1>4 DEF CallFine, ClaimFine, RewriteFine, ResumeFine, Idle, Claiming, Rewriting, Resuming
<1>7. RowsFine' /\ file' \in [Files -> Contents \cup {Absent}] /\ edits' \in 0..MaxEdits
  BY <1>3 DEF MemoryInv, RowsFine, Row, Live
<1>8. SessionsFine'
  <2>1. SessionRow(s)'
    <3>1. SessionRow(s)
      BY <1>1, <1>2, RewrittenDoes
    <3> QED BY <1>3, <3>1 DEF SessionRow
  <2>2. SessionRow(session)'
    BY <1>3, <2>1 DEF SessionRow
  <2>3. /\ chosen' = [provider |-> chosen'.provider, checkpoint |-> chosen'.checkpoint]
        /\ chosen'.provider # Unknown => session'.provider = chosen'.provider
        /\ chosen'.checkpoint # Unknown => session'.checkpoint = chosen'.checkpoint
    <3>1. CASE v.outdated = TRUE
      BY <1>3, <3>1
    <3>2. CASE v.outdated = FALSE
      <4>1. v.copy = session
        BY <1>1, <3>2 DEF CallFine, RewriteFine, Rewriting
      <4>2. /\ a = [provider |-> a.provider, checkpoint |-> a.checkpoint]
            /\ a.provider # Unknown => s.provider = a.provider
            /\ a.checkpoint # Unknown => s.checkpoint = a.checkpoint
        BY <1>1, <1>2, <4>1, AskedDoes
      <4> QED BY <1>3, <3>2, <4>2
    <3>3. v.outdated \in BOOLEAN
      BY <1>1 DEF CallFine, RewriteFine, Rewriting
    <3> QED BY <3>1, <3>2, <3>3
  <2>4. made' \in 0..MaxCheckpoints /\ points' \subseteq 1..made'
    BY <1>3 DEF MemoryInv, SessionsFine
  <2> QED BY <2>2, <2>3, <2>4 DEF SessionsFine
<1>9. Apart'
  <2>1. ~Superseding(c)' /\ call'[c].pc # "replace"
    BY <1>4 DEF Superseding, Idle
  <2>2. \A d \in Callers \ {c} : Live(rows, call[d].id) => Live(rows, call[d].id)'
    BY <1>3, <1>5 DEF Live
  <2> QED BY <1>3, <1>4, <1>5, <2>1, <2>2, ApartOn DEF MemoryInv
<1>10. SupersessionEnds'
  BY <1>3, EndsOn DEF MemoryInv
<1> QED BY <1>4, <1>5, <1>6, <1>7, <1>8, <1>9, <1>10 DEF MemoryInv

-----------------------------------------------------------------------------
(* The packet of a resumed session *)

\* A resumption that begins keeps the invariant.
LEMMA ResumeKeeps ==
  ASSUME MemoryInv, NEW c \in Callers, Resume(c)
  PROVE  MemoryInv'
<1>1. PICK r : r = [pc |-> "query", owed |-> points, disturbed |-> FALSE]
  OBVIOUS
<1>2. DOMAIN call' = Callers /\ call'[c] = r /\ \A d \in Callers \ {c} : call'[d] = call[d]
  BY <1>1, BeginDoes DEF Resume
<1>3. DOMAIN r = {"pc", "owed", "disturbed"} /\ r.pc = "query" /\ r.owed = points /\ r.disturbed = FALSE
  BY <1>1
<1>4. CallFine(r)
  BY <1>3 DEF CallFine, ClaimFine, RewriteFine, ResumeFine, Claiming, Rewriting, Resuming
<1> QED BY <1>2, <1>3, <1>4, QuietKeeps DEF Resume, memory, sessions, Claiming

\* The rows that are asked for are the rows as they are.
LEMMA QueryKeeps ==
  ASSUME MemoryInv, NEW c \in Callers, Query(c)
  PROVE  MemoryInv'
<1>1. PICK v : v = call[c] /\ CallFine(v) /\ v.pc = "query"
  BY DEF MemoryInv, Query, At
<1>2. PICK asked : asked = [id \in Queried |-> rows[id]]
  OBVIOUS
<1>3. PICK r : r = [pc |-> "look", owed |-> v.owed, disturbed |-> FALSE, asked |-> asked, left |-> Queried, facts |-> {}]
  OBVIOUS
<1>4. DOMAIN call' = Callers /\ call'[c] = r /\ \A d \in Callers \ {c} : call'[d] = call[d]
  BY <1>1, <1>2, <1>3 DEF Query, MemoryInv
<1>5. /\ DOMAIN r = {"pc", "owed", "disturbed", "asked", "left", "facts"} /\ r.pc = "look" /\ r.owed = v.owed
      /\ r.disturbed = FALSE /\ r.asked = asked /\ r.left = DOMAIN asked /\ r.facts = {}
      /\ DOMAIN asked \subseteq DOMAIN rows /\ \A id \in DOMAIN asked : asked[id] = rows[id]
  BY <1>2, <1>3 DEF Queried
<1>6. v.owed \subseteq points
  BY <1>1 DEF CallFine, ResumeFine, Resuming
<1>7. ResumeFine(r)
  BY <1>5, <1>6 DEF ResumeFine, Resuming
<1>8. CallFine(r)
  BY <1>5, <1>7 DEF CallFine, ClaimFine, RewriteFine, Claiming, Rewriting, Resuming
<1> QED BY <1>4, <1>5, <1>8, QuietKeeps DEF Query, memory, sessions, Claiming

\* The row that is looked at is a fact if it matches its file.
LEMMA LookKeeps ==
  ASSUME MemoryInv, NEW c \in Callers, Look(c)
  PROVE  MemoryInv'
<1>1. PICK v : v = call[c] /\ CallFine(v) /\ v.pc = "look"
  BY DEF MemoryInv, Look, At
<1>2. PICK id \in v.left :
        call' = [call EXCEPT ![c].left = @ \ {id},
                             ![c].facts = IF Matches(call[c].asked[id]) THEN @ \cup {id} ELSE @]
  BY <1>1 DEF Look
<1>3. PICK left, facts : left = v.left \ {id} /\ facts = IF Matches(v.asked[id]) THEN v.facts \cup {id} ELSE v.facts
  OBVIOUS
<1>4. PICK r : r = [v EXCEPT !.left = left, !.facts = facts]
  OBVIOUS
<1>5. DOMAIN call' = Callers /\ call'[c] = r /\ \A d \in Callers \ {c} : call'[d] = call[d]
  BY <1>1, <1>2, <1>3, <1>4 DEF MemoryInv
<1>6. ResumeFine(v) /\ v.pc \in Resuming
  BY <1>1 DEF CallFine, Resuming
<1>7. DOMAIN v = {"pc", "owed", "disturbed", "asked", "left", "facts"}
  BY <1>1, <1>6 DEF ResumeFine
<1>8. /\ DOMAIN r = DOMAIN v /\ r.pc = "look" /\ r.owed = v.owed /\ r.disturbed = v.disturbed
      /\ r.asked = v.asked /\ r.left = left /\ r.facts = facts
  BY <1>1, <1>4, <1>7
<1>9. ResumeFine(r)
  <2>1. ASSUME v.disturbed = FALSE, NEW i \in DOMAIN v.asked
        PROVE  /\ v.asked[i].hash = rows[i].hash /\ v.asked[i].key = rows[i].key
               /\ IF i \in left THEN i \notin facts ELSE i \in facts <=> Matches(v.asked[i])
    <3>1. /\ v.asked[i].hash = rows[i].hash /\ v.asked[i].key = rows[i].key
          /\ IF i \in v.left THEN i \notin v.facts ELSE i \in v.facts <=> Matches(v.asked[i])
      BY <1>1, <1>6, <2>1 DEF ResumeFine
    <3> QED BY <1>3, <3>1
  <2> QED BY <1>1, <1>3, <1>6, <1>7, <1>8, <2>1 DEF ResumeFine, Resuming
<1>10. CallFine(r)
  BY <1>8, <1>9 DEF CallFine, ClaimFine, RewriteFine, Claiming, Rewriting, Resuming
<1> QED BY <1>5, <1>8, <1>10, QuietKeeps DEF Look, memory, sessions, Claiming

\* A row that is marked is one that does not match its file, unless the resumption was
\* disturbed.
LEMMA MarkKeeps ==
  ASSUME MemoryInv, NEW c \in Callers, Mark(c)
  PROVE  MemoryInv'
<1>1. PICK v : v = call[c] /\ CallFine(v) /\ v.pc = "look" /\ v.left = {}
  BY DEF MemoryInv, Mark, At
<1>2. PICK r : r = [v EXCEPT !.pc = "latest"]
  OBVIOUS
<1>3. ResumeFine(v) /\ v.pc \in Resuming
  BY <1>1 DEF CallFine, Resuming
<1>4. DOMAIN v = {"pc", "owed", "disturbed", "asked", "left", "facts"}
  BY <1>1, <1>3 DEF ResumeFine
<1>5. /\ DOMAIN r = DOMAIN v /\ r.pc = "latest" /\ r.owed = v.owed /\ r.disturbed = v.disturbed
      /\ r.asked = v.asked /\ r.left = {} /\ r.facts = v.facts
  BY <1>1, <1>2, <1>4
<1>6. DOMAIN call' = Callers /\ call'[c] = r /\ \A d \in Callers \ {c} : call'[d] = call[d]
  BY <1>1, <1>2 DEF Mark, MemoryInv
<1>7. PICK gone : gone = Outdated(v)
  OBVIOUS
<1>8. /\ \A i \in DOMAIN rows : i \in gone <=> i \in DOMAIN v.asked /\ i \notin v.facts /\ rows[i].status = "verified"
      /\ \A i \in gone : rows[i].status = "verified"
  BY <1>7 DEF Outdated, Verified
<1>9. rows' = [i \in DOMAIN rows |-> IF i \in gone THEN [rows[i] EXCEPT !.status = "stale"] ELSE rows[i]]
  BY <1>1, <1>7 DEF Mark
<1>10. UNCHANGED <<file, edits, age, points, made, session, chosen, crossed>>
  BY DEF Mark, sessions
<1>11. Len(rows) \in Nat /\ DOMAIN rows = 1..Len(rows)
  BY RowsDomain DEF MemoryInv
<1>12. ASSUME NEW i \in DOMAIN rows
       PROVE  /\ Row(rows'[i]) /\ rows'[i].key = rows[i].key /\ rows'[i].hash = rows[i].hash
              /\ rows'[i].by = rows[i].by
              /\ rows'[i].status = IF i \in gone THEN "stale" ELSE rows[i].status
  <2>1. PICK o : o = rows[i] /\ Row(o)
    BY DEF MemoryInv, RowsFine
  <2>2. CASE i \in gone
    <3>1. PICK n : n = [o EXCEPT !.status = "stale"]
      OBVIOUS
    <3>2. /\ n = [key |-> n.key, hash |-> n.hash, status |-> n.status, by |-> n.by]
          /\ n.key = o.key /\ n.hash = o.hash /\ n.status = "stale" /\ n.by = o.by
      BY <2>1, <3>1 DEF Row
    <3>3. rows'[i] = n /\ o.status = "verified"
      BY <1>8, <1>9, <2>1, <2>2, <3>1
    <3>4. Row(n)
      BY <2>1, <3>2, <3>3 DEF Row
    <3> QED BY <2>1, <2>2, <3>2, <3>3, <3>4
  <2>3. CASE i \notin gone
    BY <1>9, <2>1, <2>3
  <2> QED BY <2>2, <2>3
<1>13. IsSequence(rows') /\ DOMAIN rows' = DOMAIN rows /\ Len(rows') = Len(rows)
  <2>1. PICK n : n = Len(rows) /\ n \in Nat
    BY <1>11
  <2>2. DOMAIN rows' = 1..n /\ rows' = [i \in 1..n |-> rows'[i]]
    BY <1>9, <1>11, <2>1
  <2>3. PICK S : S = {rows'[i] : i \in 1..n}
    OBVIOUS
  <2>4. rows' \in [1..n -> S]
    BY <2>2, <2>3
  <2>5. rows' \in Seq(S) /\ Len(rows') = n
    BY <2>1, <2>4
  <2> QED BY <1>9, <2>1, <2>5 DEF IsSequence
<1>14. \A i \in DOMAIN rows : Live(rows', i) <=> Live(rows, i)
  BY <1>8, <1>12 DEF Live
<1>15. RowsFine'
  <2>1. \A i \in DOMAIN rows' : Row(rows'[i]) /\ rows'[i].by \in 0..Len(rows')
    BY <1>12, <1>13 DEF MemoryInv, RowsFine
  <2>2. \A i, j \in DOMAIN rows' : Live(rows', i) /\ Live(rows', j) /\ rows'[i].key = rows'[j].key => i = j
    BY <1>12, <1>13, <1>14 DEF MemoryInv, RowsFine
  <2>3. Len(rows') <= MaxRows /\ age' \in [DOMAIN rows' -> 1..Len(rows')]
        /\ \A i, j \in DOMAIN age' : age'[i] = age'[j] => i = j
    BY <1>10, <1>13 DEF MemoryInv, RowsFine
  <2> QED BY <1>13, <2>1, <2>2, <2>3 DEF RowsFine
<1>16. SessionsFine' /\ file' \in [Files -> Contents \cup {Absent}] /\ edits' \in 0..MaxEdits
  BY <1>10 DEF MemoryInv, SessionsFine, SessionRow
<1>17. Stable
  BY <1>10, <1>11, <1>12, <1>13 DEF Stable, MemoryInv, SessionsFine
<1>18. CallFine(r)'
  <2>1. DOMAIN v.asked \subseteq DOMAIN rows
    BY <1>1, <1>3 DEF ResumeFine
  <2>2. ASSUME v.disturbed = FALSE, NEW i \in DOMAIN v.asked
        PROVE  /\ v.asked[i].hash = rows'[i].hash /\ v.asked[i].key = rows'[i].key
               /\ i \in v.facts <=> Matches(v.asked[i])'
               /\ Verified(i)' => i \in v.facts
    <3>1. /\ v.asked[i].hash = rows[i].hash /\ v.asked[i].key = rows[i].key
          /\ i \in v.facts <=> Matches(v.asked[i])
      BY <1>1, <1>3, <2>2 DEF ResumeFine
    <3>2. Matches(v.asked[i])' <=> Matches(v.asked[i])
      BY <1>10 DEF Matches
    <3>3. Verified(i)' => i \in v.facts
      BY <1>8, <1>12, <2>1, <2>2 DEF Verified
    <3> QED BY <1>12, <2>1, <3>1, <3>2, <3>3
  <2>3. ResumeFine(r)'
    BY <1>3, <1>5, <1>4, <1>10, <1>13, <2>1, <2>2 DEF ResumeFine, Resuming
  <2> QED BY <1>5, <2>3 DEF CallFine, ClaimFine, RewriteFine, Claiming, Rewriting, Resuming
<1>19. \A d \in Callers : CallFine(call[d])'
  BY <1>6, <1>17, <1>18, CallsOn
<1>20. Apart'
  <2>1. ~Superseding(c)' /\ call'[c].pc # "replace"
    BY <1>5, <1>6 DEF Superseding
  <2>2. ASSUME NEW d \in Callers \ {c}, At(d, "replace"), Live(rows, call[d].id) PROVE Live(rows, call[d].id)'
    <3>1. call[d].id \in DOMAIN rows
      BY <1>11, <2>2 DEF MemoryInv, CallFine, ClaimFine, At, Claiming
    <3> QED BY <1>6, <1>14, <2>2, <3>1
  <2> QED BY <1>6, <1>10, <2>1, <2>2, ApartOn DEF MemoryInv
<1>21. SupersessionEnds'
  <2> SUFFICES ASSUME ~crossed, NEW circle \in SUBSET {i \in DOMAIN rows' : ~Live(rows, i)'}, circle # {}
               PROVE  \E i \in circle : rows'[i].by \notin circle
    BY <1>10 DEF SupersessionEnds
  <2>1. \A i \in circle : i \in DOMAIN rows /\ ~Live(rows, i) /\ rows'[i].by = rows[i].by
    BY <1>12, <1>13, <1>14
  <2>2. PICK i \in circle : rows[i].by \notin circle
    BY <2>1 DEF MemoryInv, SupersessionEnds
  <2> QED BY <2>1, <2>2
<1> QED BY <1>6, <1>15, <1>16, <1>19, <1>20, <1>21 DEF MemoryInv

\* The checkpoint that is restored is none older than the stored ones.
LEMMA LatestKeeps ==
  ASSUME MemoryInv, NEW c \in Callers, Latest(c)
  PROVE  MemoryInv'
<1>1. PICK v : v = call[c] /\ CallFine(v) /\ v.pc = "latest"
  BY DEF MemoryInv, Latest, At
<1>2. PICK m : m = LatestCheckpoint
  OBVIOUS
<1>3. \A p \in points : p <= m
  <2>1. made \in Nat /\ points \subseteq 1..made
    BY DEF MemoryInv, SessionsFine
  <2>2. points \cup {0} \subseteq 0..made /\ IsFiniteSet(0..made)
    BY <2>1, FS_Interval
  <2>3. PICK P : P = points \cup {0}
    OBVIOUS
  <2>4. P \subseteq 0..made /\ P # {} /\ P \in SUBSET Nat
    BY <2>1, <2>2, <2>3
  <2>5. IsFiniteSet(P)
    BY <2>2, <2>4, FS_Subset
  <2>6. m = Max(P) /\ Max(P) \in P /\ \A y \in P : Max(P) >= y
    BY <1>2, <2>3, <2>4, <2>5, MaxExists DEF LatestCheckpoint
  <2>7. \A p \in points : p \in P /\ p \in Nat /\ m \in Nat
    BY <2>3, <2>4, <2>6
  <2> QED BY <2>6, <2>7
<1>4. PICK r : r = [pc |-> "resumed", owed |-> v.owed, disturbed |-> v.disturbed,
                    asked |-> v.asked, facts |-> v.facts, restored |-> m]
  OBVIOUS
<1>5. DOMAIN call' = Callers /\ call'[c] = r /\ \A d \in Callers \ {c} : call'[d] = call[d]
  BY <1>1, <1>2, <1>4 DEF Latest, MemoryInv
<1>6. /\ DOMAIN r = {"pc", "owed", "disturbed", "asked", "facts", "restored"} /\ r.pc = "resumed" /\ r.owed = v.owed
      /\ r.disturbed = v.disturbed /\ r.asked = v.asked /\ r.facts = v.facts /\ r.restored = m
  BY <1>4
<1>7. ResumeFine(v) /\ v.pc \in Resuming
  BY <1>1 DEF CallFine, Resuming
<1>8. ResumeFine(r)
  BY <1>1, <1>3, <1>6, <1>7 DEF ResumeFine, Resuming
<1>9. CallFine(r)
  BY <1>6, <1>8 DEF CallFine, ClaimFine, RewriteFine, Claiming, Rewriting, Resuming
<1> QED BY <1>5, <1>6, <1>9, QuietKeeps DEF Latest, memory, sessions, Claiming

-----------------------------------------------------------------------------
(* The theorems *)

\* MemoryInv holds in every reachable state.
THEOREM MemoryHolds == Spec => []MemoryInv
<1>1. MemoryInv /\ [Next]_vars => MemoryInv'
  <2> SUFFICES ASSUME MemoryInv, [Next]_vars PROVE MemoryInv'
    OBVIOUS
  <2>1. ASSUME NEW f \in Files, NEW content \in Contents \cup {Absent}, Edit(f, content) PROVE MemoryInv'
    BY <2>1, EditKeeps
  <2>2. ASSUME NEW c \in Callers, NEW k \in Keys, Record(c, k) PROVE MemoryInv'
    BY <2>2, RecordKeeps
  <2>3. ASSUME NEW c \in Callers, NEW k \in Keys, NEW old \in DOMAIN rows, Supersede(c, k, old) PROVE MemoryInv'
    BY <2>3, SupersedeKeeps
  <2>4. ASSUME NEW c \in Callers, Select(c) \/ Write(c) \/ Replace(c) PROVE MemoryInv'
    BY <2>4, SelectKeeps, WriteKeeps, ReplaceKeeps
  <2>5. ASSUME NEW c \in Callers, NEW p \in Providers, Open(c, p) \/ Configure(c, p) PROVE MemoryInv'
    BY <2>5, OpenKeeps, ConfigureKeeps
  <2>6. ASSUME NEW c \in Callers, Checkpoint(c) \/ Insert(c) \/ Load(c) \/ Save(c) PROVE MemoryInv'
    BY <2>6, CheckpointKeeps, InsertKeeps, LoadKeeps, SaveKeeps
  <2>7. ASSUME NEW c \in Callers, Resume(c) \/ Query(c) \/ Look(c) \/ Mark(c) \/ Latest(c) PROVE MemoryInv'
    BY <2>7, ResumeKeeps, QueryKeeps, LookKeeps, MarkKeeps, LatestKeeps
  <2>8. ASSUME NEW c \in Callers, Leave(c) PROVE MemoryInv'
    BY <2>8, LeaveKeeps
  <2>9. CASE UNCHANGED vars
    <3>1. RowsFine' /\ SessionsFine' /\ file' \in [Files -> Contents \cup {Absent}] /\ edits' \in 0..MaxEdits
      BY <2>9, StoreOn DEF vars
    <3>2. Stable /\ call' = call
      BY <2>9, StableIfQuiet DEF vars
    <3>3. \A c \in Callers : CallFine(call[c])'
      <4> TAKE c \in Callers
      <4>1. PICK v : v = call[c] /\ CallFine(v)
        BY DEF MemoryInv
      <4>2. CallFine(v)' /\ call'[c] = v
        BY <3>2, <4>1, CallOn
      <4> QED BY <4>2 DEF CallFine, ClaimFine, RewriteFine, ResumeFine, SessionRow, Matches, Verified
    <3>4. Apart' /\ SupersessionEnds'
      BY <2>9, EndsOn DEF vars, MemoryInv, Apart, Superseding, At, Live
    <3> QED BY <3>1, <3>2, <3>3, <3>4 DEF MemoryInv
  <2> QED BY <2>1, <2>2, <2>3, <2>4, <2>5, <2>6, <2>7, <2>8, <2>9 DEF Next
<1> QED BY <1>1, MemoryStarts, PTL DEF Spec

\* The tables have their types, and what their keys promise: one row of an identity is
\* live, whichever processes selected and wrote it at once (memory/store.py upsert).
THEOREM MemoryKeepsTypes == Spec => []MemoryTypeOK
<1>1. MemoryInv => MemoryTypeOK
  <2> SUFFICES ASSUME MemoryInv PROVE MemoryTypeOK
    OBVIOUS
  <2>1. ASSUME NEW i \in DOMAIN rows
        PROVE  /\ rows[i] \in [key : Keys, hash : Contents \cup {Absent},
                               status : {"verified", "unverified", "stale", "superseded"}, by : 0..Len(rows)]
               /\ rows[i].by # 0 <=> rows[i].status = "superseded"
    <3>1. PICK r : r = rows[i] /\ Row(r) /\ r.by \in 0..Len(rows)
      BY DEF MemoryInv, RowsFine
    <3> QED BY <3>1 DEF Row
  <2> QED BY <2>1 DEF MemoryInv, MemoryTypeOK, RowsFine, SessionsFine, SessionRow
<1> QED BY <1>1, MemoryHolds, PTL

\* An undisturbed resumption hands out the facts that hold and leaves no row that it asked
\* for verified that differs from its file (memory/context.py rehydrate_context).
THEOREM SweepsClean == Spec => []SweptClean
<1>1. MemoryInv => SweptClean
  <2> SUFFICES ASSUME MemoryInv, NEW c \in Callers, At(c, "resumed"), ~call[c].disturbed, NEW id \in DOMAIN call[c].asked
               PROVE  /\ id \in call[c].facts <=> rows[id].hash = HashNow(rows[id].key[1])
                      /\ Verified(id) => id \in call[c].facts
    BY DEF SweptClean
  <2>1. PICK v : v = call[c] /\ CallFine(v) /\ v.pc = "resumed" /\ v.disturbed = FALSE
    BY DEF MemoryInv, At, CallFine, ResumeFine, Resuming
  <2>2. /\ DOMAIN v.asked \subseteq DOMAIN rows
        /\ v.asked[id].hash = rows[id].hash /\ v.asked[id].key = rows[id].key
        /\ id \in v.facts <=> Matches(v.asked[id])
        /\ Verified(id) => id \in v.facts
    BY <2>1 DEF CallFine, ResumeFine, Resuming
  <2>3. Row(rows[id])
    BY <2>1, <2>2 DEF MemoryInv, RowsFine
  <2>4. Matches(v.asked[id]) <=> rows[id].hash = HashNow(rows[id].key[1])
    BY <2>2, <2>3 DEF Matches, HashNow, Row
  <2> QED BY <2>1, <2>2, <2>4
<1> QED BY <1>1, MemoryHolds, PTL

\* No record is replaced by itself or in a circle unless two calls of supersede overlapped
\* (memory/integration.py supersede).
THEOREM SupersedingEnds == Spec => []SupersessionEnds
<1>1. MemoryInv => SupersessionEnds
  BY DEF MemoryInv
<1> QED BY <1>1, MemoryHolds, PTL

\* The session row shows the provider and the checkpoint that were chosen last, and a
\* resumption restores the latest checkpoint (session_memory_runtime.py).
THEOREM SessionsAreRestored == Spec => []SessionRestored
<1>1. MemoryInv => SessionRestored
  <2> SUFFICES ASSUME MemoryInv PROVE SessionRestored
    OBVIOUS
  <2>1. ASSUME NEW c \in Callers, At(c, "resumed") PROVE \A p \in call[c].owed : p <= call[c].restored
    BY <2>1 DEF MemoryInv, At, CallFine, ResumeFine, Resuming
  <2> QED BY <2>1 DEF MemoryInv, SessionsFine, SessionRestored
<1> QED BY <1>1, MemoryHolds, PTL
=============================================================================
