-------------------------- MODULE TurnControlProofs --------------------------
(***************************************************************************)
(* Theorems about TurnControl, for any number of processes and turns, any  *)
(* answers of the provider and any bound on the journal:                   *)
(*   Typed, Numbered, Grounded     the invariants of the run MCTurnControl *)
(*   Implementation                TurnControl implements TurnLifecycle    *)
(*   ReplayTold                    what replaying the journal yields       *)
(*   CancelSuppresses              a cancel drops the answer it overtakes  *)
(*   OneActive                     one running turn for a single process   *)
(* The argument has three layers.  JournalInv says that the journal is     *)
(* numbered without gaps and that a pending insertion was numbered from a  *)
(* journal no longer than the present one: it either gets the very next    *)
(* numbers or is refused by the UNIQUE constraint.  WitnessInv says that   *)
(* whoever is about to close a turn already has the row that justifies it. *)
(* AnswerInv follows one answer from the start of its thread to the last   *)
(* replayable row of its turn.                                             *)
(***************************************************************************)
EXTENDS TurnControl, FiniteSetTheorems, TLAPS

Rows == [turn : Turns, type : EventTypes, sseq : Nat, tseq : Nat]

\* The journal rows are numbered without a gap, in the session and in each turn.
NumberedRows(rows) ==
  /\ rows \subseteq Rows
  /\ IsFiniteSet(rows)
  /\ {e.sseq : e \in rows} = 1..Cardinality(rows)
  /\ \A t \in Turns : {e.tseq : e \in RowsOf(rows, t)} = 1..Cardinality(RowsOf(rows, t))
  /\ \A e, f \in rows : e.turn = f.turn => (e.sseq < f.sseq <=> e.tseq < f.tseq)

\* Numbers read for turn t: the next ones, or numbers that are taken by now.
NextOrTaken(rows, d, t) ==
  /\ d.s \in 1..(Cardinality(rows) + 1)
  /\ d.s = Cardinality(rows) + 1 => d.n = Cardinality(RowsOf(rows, t)) + 1

\* A request past its checks names a stored turn; so does a thread.
ControlInv ==
  /\ \A p \in Procs : ctl[p].pc \notin {"idle", "create"} =>
       /\ ctl[p].turn \in Turns
       /\ turn[ctl[p].turn] # "absent"
       /\ ctl[p].type \in ControlTypes
  /\ \A t \in Turns : thr[t].pc # "none" => turn[t] # "absent"
  /\ \A t \in Turns : thr[t].pc \in {"read", "write", "check", "open"} => thr[t].todo # <<>>
  /\ \A t \in Turns : thr[t].pc = "close" => thr[t].term # "none"

DraftInv ==
  /\ \A p \in Procs : ctl[p].pc = "write" => NextOrTaken(events, draft[p], ctl[p].turn)
  /\ \A t \in Turns : thr[t].pc = "write" => NextOrTaken(events, draft[t], t)

JournalInv == TypeOK /\ NumberedRows(events) /\ ControlInv /\ DraftInv

-----------------------------------------------------------------------------
(* Numbering *)

\* The greatest of the numbers up to n is n.
LEMMA MaxUpTo ==
  ASSUME NEW n \in Nat
  PROVE  Max({0} \cup 1..n) = n
<1>1. n \in {0} \cup 1..n /\ \A y \in {0} \cup 1..n : n >= y
  OBVIOUS
<1>2. \A x \in {0} \cup 1..n : (\A y \in {0} \cup 1..n : x >= y) => x = n
  OBVIOUS
<1> QED BY <1>1, <1>2 DEF Max

\* append_event reads the successors of the lengths of the journal and of the turn.
LEMMA NextNumbers ==
  ASSUME NEW rows, NumberedRows(rows), NEW t \in Turns
  PROVE  /\ NextSession(rows) = Cardinality(rows) + 1
         /\ NextOfTurn(rows, t) = Cardinality(RowsOf(rows, t)) + 1
         /\ Cardinality(rows) \in Nat
         /\ Cardinality(RowsOf(rows, t)) \in Nat
<1>1. IsFiniteSet(RowsOf(rows, t))
  BY FS_Subset DEF RowsOf, NumberedRows
<1>2. Cardinality(rows) \in Nat /\ Cardinality(RowsOf(rows, t)) \in Nat
  BY <1>1, FS_CardinalityType DEF NumberedRows
<1> QED BY <1>2, MaxUpTo DEF NumberedRows, NextSession, NextOfTurn

\* A row with the next numbers keeps the journal numbered.
LEMMA AppendKeepsNumbers ==
  ASSUME NEW rows, NumberedRows(rows), NEW t \in Turns, NEW type \in EventTypes,
         NEW r, r = Row(t, type, Cardinality(rows) + 1, Cardinality(RowsOf(rows, t)) + 1)
  PROVE  /\ NumberedRows(rows \cup {r})
         /\ Cardinality(rows \cup {r}) = Cardinality(rows) + 1
<1> DEFINE n == Cardinality(rows)
           k(u) == Cardinality(RowsOf(rows, u))
           rows2 == rows \cup {r}
<1>1. n \in Nat /\ \A u \in Turns : k(u) \in Nat
  BY NextNumbers
<1>2. r \in Rows /\ r.turn = t /\ r.sseq = n + 1 /\ r.tseq = k(t) + 1
  BY <1>1 DEF Row, Rows
<1>3. \A e \in rows : e.sseq \in 1..n
  BY DEF NumberedRows
<1>4. r \notin rows
  BY <1>1, <1>2, <1>3
<1>5. IsFiniteSet(rows2) /\ Cardinality(rows2) = n + 1
  BY <1>4, FS_AddElement DEF NumberedRows
<1>6. {e.sseq : e \in rows2} = 1..(n + 1)
  <2>1. {e.sseq : e \in rows2} = {e.sseq : e \in rows} \cup {n + 1}
    BY <1>2
  <2>2. 1..(n + 1) = 1..n \cup {n + 1}
    BY <1>1
  <2> QED BY <2>1, <2>2 DEF NumberedRows
<1>7. \A e \in RowsOf(rows, t) : e.tseq \in 1..k(t)
  BY DEF NumberedRows
<1>8. ASSUME NEW u \in Turns
      PROVE  {e.tseq : e \in RowsOf(rows2, u)} = 1..Cardinality(RowsOf(rows2, u))
  <2>1. CASE u = t
    <3>1. RowsOf(rows2, t) = RowsOf(rows, t) \cup {r}
      BY <1>2 DEF RowsOf
    <3>2. IsFiniteSet(RowsOf(rows, t)) /\ r \notin RowsOf(rows, t)
      BY <1>4, FS_Subset DEF RowsOf, NumberedRows
    <3>3. Cardinality(RowsOf(rows, t) \cup {r}) = Cardinality(RowsOf(rows, t)) + 1
      BY <3>2, FS_AddElement
    <3>4. {e.tseq : e \in RowsOf(rows2, t)} = {e.tseq : e \in RowsOf(rows, t)} \cup {k(t) + 1}
      BY <1>2, <3>1
    <3>5. {e.tseq : e \in RowsOf(rows, t)} = 1..k(t)
      BY DEF NumberedRows
    <3>6. 1..(k(t) + 1) = 1..k(t) \cup {k(t) + 1}
      BY <1>1
    <3> QED BY <2>1, <3>1, <3>3, <3>4, <3>5, <3>6
  <2>2. CASE u # t
    <3>1. RowsOf(rows2, u) = RowsOf(rows, u)
      BY <1>2, <2>2 DEF RowsOf
    <3> QED BY <3>1 DEF NumberedRows
  <2> QED BY <2>1, <2>2
<1>9. ASSUME NEW e \in rows2, NEW f \in rows2, e.turn = f.turn
      PROVE  e.sseq < f.sseq <=> e.tseq < f.tseq
  <2>1. CASE e \in rows /\ f \in rows
    BY <2>1, <1>9 DEF NumberedRows
  <2>2. CASE e = r /\ f = r
    BY <2>2, <1>1, <1>2
  <2>3. CASE e \in rows /\ f = r
    <3>1. e.tseq \in 1..k(t)
      BY <2>3, <1>2, <1>7, <1>9 DEF RowsOf
    <3> QED BY <3>1, <2>3, <1>1, <1>2, <1>3
  <2>4. CASE e = r /\ f \in rows
    <3>1. f.tseq \in 1..k(t)
      BY <2>4, <1>2, <1>7, <1>9 DEF RowsOf
    <3> QED BY <3>1, <2>4, <1>1, <1>2, <1>3
  <2> QED BY <2>1, <2>2, <2>3, <2>4
<1>10. rows2 \subseteq Rows
  BY <1>2 DEF NumberedRows
<1> QED BY <1>5, <1>6, <1>8, <1>9, <1>10 DEF NumberedRows

\* An accepted insertion is an append: its numbers were not taken.
LEMMA InsertAppends ==
  ASSUME NumberedRows(events), NEW a, NEW t \in Turns, NEW type \in EventTypes,
         NextOrTaken(events, draft[a], t), Insert(a, t, type)
  PROVE  /\ events' = events \cup {Row(t, type, Cardinality(events) + 1,
                                       Cardinality(RowsOf(events, t)) + 1)}
         /\ NumberedRows(events')
         /\ Cardinality(events') = Cardinality(events) + 1
<1>1. Cardinality(events) \in Nat
  BY NextNumbers
<1>2. draft[a].s \notin 1..Cardinality(events)
  BY DEF Insert, Insertable, Unique, NumberedRows
<1>3. draft[a].s = Cardinality(events) + 1
  BY <1>1, <1>2 DEF NextOrTaken
<1>4. events' = events \cup {Row(t, type, Cardinality(events) + 1,
                                  Cardinality(RowsOf(events, t)) + 1)}
  BY <1>3 DEF Insert, NextOrTaken
<1> QED BY <1>4, AppendKeepsNumbers


-----------------------------------------------------------------------------
(* The journal invariant *)

\* A step that leaves the journal alone keeps it numbered.
LEMMA QuietStep ==
  ASSUME JournalInv, UNCHANGED events, TypeOK', ControlInv', DraftInv'
  PROVE  JournalInv'
BY DEF JournalInv, NumberedRows, RowsOf

\* The journal begins with its invariant.
LEMMA JournalInit == Init => JournalInv
<1> SUFFICES ASSUME Init PROVE JournalInv
  OBVIOUS
<1>1. TypeOK
  BY ConstantsAssumption DEF Init, TypeOK, RequestStates, ThreadStates, TurnStatuses, Idle, NoThread, NoDraft
<1>2. NumberedRows(events)
  <2>1. \A t \in Turns : RowsOf({}, t) = {}
    BY DEF RowsOf
  <2> QED BY <2>1, FS_EmptySet DEF Init, NumberedRows
<1>3. ControlInv /\ DraftInv
  BY DEF Init, ControlInv, DraftInv, Idle, NoThread
<1> QED BY <1>1, <1>2, <1>3 DEF JournalInv

\* What the stored names are.
LEMMA Vocabulary ==
  /\ TurnStatuses = FinalStatuses \cup {"running"}
  /\ "running" \notin FinalStatuses /\ "absent" \notin FinalStatuses /\ "none" \notin FinalStatuses
  /\ "cancelled" \in FinalStatuses
  /\ NoteTypes \subseteq ControlTypes
  /\ {"user.message", "turn.cancelled", "runtime.provider.queued"} \subseteq ControlTypes
  /\ ControlTypes \subseteq EventTypes /\ ModelTypes \subseteq EventTypes
  /\ "runtime.provider.running" \in EventTypes /\ "model.error" \in EventTypes
  /\ \A type \in EventTypes : TerminalStatus(type) \in FinalStatuses \cup {"none"}
BY DEF TurnStatuses, FinalStatuses, NoteTypes, ControlTypes, ModelTypes, EventTypes, TerminalStatus

\* A step that moves one request to c, and at most opens or closes turns.
LEMMA RequestMove ==
  ASSUME JournalInv, NEW p \in Procs, NEW c \in RequestStates,
         ctl' = [ctl EXCEPT ![p] = c],
         c.pc # "write",
         c.pc \in {"idle", "create"} \/ (c.turn \in Turns /\ turn'[c.turn] # "absent" /\ c.type \in ControlTypes),
         turn' \in [Turns -> TurnStatuses \cup {"absent"}],
         \A t \in Turns : turn[t] # "absent" => turn'[t] # "absent",
         cancelled' \subseteq Turns, UNCHANGED <<events, thr, draft>>
  PROVE  JournalInv'
<1>1. TypeOK'
  BY DEF JournalInv, TypeOK
<1>2. ControlInv'
  BY DEF JournalInv, TypeOK, ControlInv
<1>3. DraftInv'
  BY DEF JournalInv, TypeOK, DraftInv
<1> QED BY <1>1, <1>2, <1>3, QuietStep

\* The steps of a request that neither read the numbers nor append.
LEMMA RequestKeepsJournal ==
  ASSUME JournalInv, NEW p \in Procs,
         Request(p) \/ CreateTurn(p) \/ CreateTurnWithoutText(p) \/ ProbeThread(p)
           \/ SignalCancel(p) \/ ControlFinalize(p) \/ ControlFinalizeRaises(p)
  PROVE  JournalInv'
<1> DEFINE At(pc) == [ctl[p] EXCEPT !.pc = pc]
<1>1. /\ Idle \in RequestStates /\ Idle.pc = "idle"
      /\ \A pc \in {"create", "read", "signal", "finalize"} :
           At(pc) \in RequestStates /\ At(pc).pc = pc /\ At(pc).turn = ctl[p].turn /\ At(pc).type = ctl[p].type
  BY DEF JournalInv, TypeOK, RequestStates, Idle
<1>2. turn \in [Turns -> TurnStatuses \cup {"absent"}] /\ cancelled \subseteq Turns
  BY DEF JournalInv, TypeOK
<1>3. ctl[p].pc \notin {"idle", "create"} =>
        ctl[p].turn \in Turns /\ turn[ctl[p].turn] # "absent" /\ ctl[p].type \in ControlTypes
  BY DEF JournalInv, ControlInv
<1>4. CASE StartRequest(p)
  <2>1. ctl' = [ctl EXCEPT ![p] = At("create")]
    BY <1>4 DEF StartRequest
  <2> HIDE DEF At
  <2> QED BY <1>1, <1>2, <1>4, <2>1, RequestMove DEF StartRequest
<1>5. CASE CreateTurn(p)
  <2>1. PICK t \in Turns :
          /\ turn' = [turn EXCEPT ![t] = "running"]
          /\ ctl' = [ctl EXCEPT ![p] = [pc |-> "read", turn |-> t, type |-> "user.message"]]
    BY <1>5 DEF CreateTurn
  <2>2. [pc |-> "read", turn |-> t, type |-> "user.message"] \in RequestStates
    BY Vocabulary DEF RequestStates
  <2> QED BY <1>2, <1>5, <2>1, <2>2, RequestMove, Vocabulary DEF CreateTurn
<1>6. CASE CreateTurnWithoutText(p)
  <2>1. PICK t \in Turns : turn' = [turn EXCEPT ![t] = "running"]
    BY <1>6 DEF CreateTurnWithoutText
  <2> QED BY <1>1, <1>2, <1>6, <2>1, RequestMove, Vocabulary DEF CreateTurnWithoutText
<1>7. CASE ProbeThread(p)
  <2>1. \/ ctl' = [ctl EXCEPT ![p] = At("read")]
        \/ ctl' = [ctl EXCEPT ![p] = At("signal")]
        \/ ctl' = [ctl EXCEPT ![p] = Idle]
    BY <1>7 DEF ProbeThread
  <2> HIDE DEF At
  <2> QED BY <1>1, <1>2, <1>3, <1>7, <2>1, RequestMove DEF ProbeThread
<1>8. CASE SignalCancel(p)
  <2>1. ctl' = [ctl EXCEPT ![p] = At("read")]
    BY <1>8 DEF SignalCancel
  <2>2. cancelled' \subseteq Turns
    BY <1>2, <1>3, <1>8 DEF SignalCancel
  <2> HIDE DEF At
  <2> QED BY <1>1, <1>2, <1>3, <1>8, <2>1, <2>2, RequestMove DEF SignalCancel
<1>9. CASE ControlFinalize(p)
  <2>1. turn' = [turn EXCEPT ![ctl[p].turn] = "cancelled"]
    BY <1>9 DEF ControlFinalize, Finalize
  <2> QED BY <1>1, <1>2, <1>9, <2>1, RequestMove, Vocabulary DEF ControlFinalize
<1>10. CASE ControlFinalizeRaises(p)
  BY <1>1, <1>2, <1>10, RequestMove DEF ControlFinalizeRaises
<1>11. ASSUME NEW t \in Turns, NoteRequest(p, t)
       PROVE  JournalInv'
  <2>1. PICK type \in Notes : ctl' = [ctl EXCEPT ![p] = [pc |-> "read", turn |-> t, type |-> type]]
    BY <1>11 DEF NoteRequest
  <2>2. [pc |-> "read", turn |-> t, type |-> type] \in RequestStates /\ type \in ControlTypes
    BY Vocabulary, ConstantsAssumption DEF RequestStates
  <2> QED BY <1>2, <1>11, <2>1, <2>2, RequestMove DEF NoteRequest
<1>12. ASSUME NEW t \in Turns, CancelRequest(p, t)
       PROVE  JournalInv'
  <2>1. [pc |-> "probe", turn |-> t, type |-> "turn.cancelled"] \in RequestStates
    BY Vocabulary DEF RequestStates
  <2> QED BY <1>2, <1>12, <2>1, RequestMove, Vocabulary DEF CancelRequest
<1> QED BY <1>4, <1>5, <1>6, <1>7, <1>8, <1>9, <1>10, <1>11, <1>12 DEF Request

\* Reading the numbers makes the reader's draft the next numbers.
LEMMA ReadStep ==
  ASSUME JournalInv, NEW a \in Agents, NEW t \in Turns, ReadSequences(a, t), UNCHANGED events
  PROVE  /\ draft' \in [Agents -> [s : Nat, n : Nat]]
         /\ NextOrTaken(events, draft'[a], t)
         /\ \A b \in Agents \ {a} : draft'[b] = draft[b]
<1>1. draft \in [Agents -> [s : Nat, n : Nat]]
  BY DEF JournalInv, TypeOK
<1>2. /\ NextSession(events) = Cardinality(events) + 1
      /\ NextOfTurn(events, t) = Cardinality(RowsOf(events, t)) + 1
      /\ Cardinality(events) \in Nat
      /\ Cardinality(RowsOf(events, t)) \in Nat
  BY NextNumbers DEF JournalInv
<1> QED BY <1>1, <1>2 DEF ReadSequences, NextOrTaken

\* An accepted insertion numbers the row next, and every other pending draft is
\* now a taken number.
LEMMA InsertStep ==
  ASSUME JournalInv, NEW a \in Agents, NEW t \in Turns, NEW type \in EventTypes,
         NextOrTaken(events, draft[a], t), Insert(a, t, type)
  PROVE  /\ NumberedRows(events')
         /\ draft' \in [Agents -> [s : Nat, n : Nat]]
         /\ \A b \in Agents \ {a}, u \in Turns :
              NextOrTaken(events, draft[b], u) => NextOrTaken(events', draft'[b], u)
<1>1. NumberedRows(events') /\ Cardinality(events') = Cardinality(events) + 1
  BY InsertAppends DEF JournalInv
<1>2. draft \in [Agents -> [s : Nat, n : Nat]] /\ draft' = [draft EXCEPT ![a] = NoDraft]
  BY DEF JournalInv, TypeOK, Insert
<1>3. Cardinality(events) \in Nat
  BY NextNumbers DEF JournalInv
<1> QED BY <1>1, <1>2, <1>3 DEF NextOrTaken, NoDraft

\* The journal part of a refused insertion.
LEMMA RefusedStep ==
  ASSUME JournalInv, NEW a \in Agents, NEW t \in Turns, InsertRaises(a, t)
  PROVE  /\ draft' \in [Agents -> [s : Nat, n : Nat]]
         /\ \A b \in Agents \ {a} : draft'[b] = draft[b]
         /\ UNCHANGED events
BY DEF JournalInv, TypeOK, InsertRaises, NoDraft

\* A single element is a sequence, and not the empty one.
LEMMA OneElement ==
  ASSUME NEW S, NEW x \in S
  PROVE  <<x>> \in Seq(S) /\ <<x>> # <<>>
OBVIOUS

\* A sequence of more than one element has a tail.
LEMMA TailOfMore ==
  ASSUME NEW S, NEW q \in Seq(S), Len(q) > 1
  PROVE  Tail(q) # <<>>
<1>1. Len(Tail(q)) = Len(q) - 1
  OBVIOUS
<1>2. Len(Tail(q)) # 0
  <2>1. Len(q) \in Nat
    OBVIOUS
  <2>2. \A n \in Nat : n > 1 => n - 1 # 0
    OBVIOUS
  <2> QED BY <1>1, <2>1, <2>2
<1>3. Len(<<>>) = 0
  OBVIOUS
<1> QED BY <1>2, <1>3

\* The reads and writes of a request.
LEMMA AppendingRequestKeepsJournal ==
  ASSUME JournalInv, NEW p \in Procs, ControlRead(p) \/ ControlWrite(p) \/ ControlWriteRaises(p)
  PROVE  JournalInv'
<1> DEFINE t == ctl[p].turn
<1>1. t \in Turns /\ turn[t] # "absent" /\ ctl[p].type \in ControlTypes /\ ctl[p].type \in EventTypes
  BY Vocabulary DEF JournalInv, ControlInv, ControlRead, ControlWrite, ControlWriteRaises
<1>2. p \in Agents /\ Turns \subseteq Agents \ {p} /\ Procs \subseteq Agents
  BY ConstantsAssumption DEF Agents
<1>3. ctl \in [Procs -> RequestStates] /\ ctl[p] \in RequestStates /\ Idle \in RequestStates
  BY DEF JournalInv, TypeOK, RequestStates, Idle
<1> HIDE DEF t
<1>4. CASE ControlRead(p)
  <2>1. ctl' = [ctl EXCEPT ![p] = [ctl[p] EXCEPT !.pc = "write"]]
    BY <1>4 DEF ControlRead
  <2>2. /\ [ctl[p] EXCEPT !.pc = "write"] \in RequestStates
        /\ [ctl[p] EXCEPT !.pc = "write"].turn = t
        /\ [ctl[p] EXCEPT !.pc = "write"].type = ctl[p].type
    BY <1>3 DEF RequestStates, t
  <2>3. ReadSequences(p, t) /\ UNCHANGED <<turn, events, thr, cancelled>>
    BY <1>4 DEF ControlRead, t
  <2>4. /\ draft' \in [Agents -> [s : Nat, n : Nat]]
        /\ NextOrTaken(events, draft'[p], t)
        /\ \A b \in Agents \ {p} : draft'[b] = draft[b]
    BY <1>1, <1>2, <2>3, ReadStep
  <2>5. TypeOK'
    BY <1>3, <2>1, <2>2, <2>3, <2>4 DEF JournalInv, TypeOK
  <2>6. ControlInv'
    BY <1>1, <1>3, <2>1, <2>2, <2>3 DEF JournalInv, ControlInv
  <2>7. DraftInv'
    BY <1>2, <1>3, <2>1, <2>2, <2>3, <2>4 DEF JournalInv, DraftInv
  <2> QED BY <2>3, <2>5, <2>6, <2>7, QuietStep
<1>5. CASE ControlWrite(p)
  <2>1. Insert(p, t, ctl[p].type) /\ NextOrTaken(events, draft[p], t) /\ UNCHANGED <<turn, cancelled>>
    BY <1>5 DEF ControlWrite, JournalInv, DraftInv, t
  <2>2. /\ NumberedRows(events')
        /\ draft' \in [Agents -> [s : Nat, n : Nat]]
        /\ \A b \in Agents \ {p}, u \in Turns :
             NextOrTaken(events, draft[b], u) => NextOrTaken(events', draft'[b], u)
    BY <1>1, <1>2, <2>1, InsertStep
  <2>3. PICK c \in RequestStates :
          /\ ctl' = [ctl EXCEPT ![p] = c]
          /\ c.pc # "write"
          /\ c.pc = "idle" \/ (c.turn = t /\ c.type \in ControlTypes)
    <3>1. AfterInsert(p) \in RequestStates
      BY <1>3, Vocabulary DEF AfterInsert, RequestStates
    <3>2. AfterInsert(p).pc # "write"
      BY <1>3 DEF AfterInsert, RequestStates, Idle
    <3>3. AfterInsert(p).pc = "idle" \/ (AfterInsert(p).turn = t /\ AfterInsert(p).type \in ControlTypes)
      <4>1. CASE ctl[p].type = "turn.cancelled"
        BY <1>3, <4>1, Vocabulary DEF AfterInsert, RequestStates, t
      <4>2. CASE ctl[p].type = "user.message" /\ p \in Providers
        BY <1>3, <4>2, Vocabulary DEF AfterInsert, RequestStates, t
      <4> QED BY <4>1, <4>2 DEF AfterInsert, Idle
    <3> QED BY <3>1, <3>2, <3>3, <1>5 DEF ControlWrite
  <2>4. PICK h \in ThreadStates :
          /\ thr' = thr \/ thr' = [thr EXCEPT ![t] = h]
          /\ h.pc = "read" /\ h.todo # <<>>
    <3> DEFINE first == [NoThread(p) EXCEPT !.pc = "read", !.todo = <<"runtime.provider.running">>]
    <3>1. first \in ThreadStates /\ first.pc = "read" /\ first.todo # <<>>
      BY OneElement, Vocabulary DEF ThreadStates, NoThread
    <3>2. thr' = thr \/ thr' = [thr EXCEPT ![t] = first]
      BY <1>5 DEF ControlWrite, t
    <3> HIDE DEF first
    <3> QED BY <3>1, <3>2
  <2>5. TypeOK'
    BY <1>3, <2>1, <2>2, <2>3, <2>4 DEF JournalInv, TypeOK, NumberedRows, Rows
  <2>6. ControlInv'
    BY <1>1, <1>3, <2>1, <2>3, <2>4 DEF JournalInv, TypeOK, ControlInv
  <2>7. DraftInv'
    BY <1>1, <1>2, <1>3, <2>2, <2>3, <2>4 DEF JournalInv, TypeOK, ControlInv, DraftInv
  <2> QED BY <2>2, <2>5, <2>6, <2>7 DEF JournalInv
<1>6. CASE ControlWriteRaises(p)
  <2>1. InsertRaises(p, t) /\ ctl' = [ctl EXCEPT ![p] = Idle] /\ UNCHANGED <<turn, thr, cancelled>>
    BY <1>6 DEF ControlWriteRaises, t
  <2>2. /\ draft' \in [Agents -> [s : Nat, n : Nat]]
        /\ \A b \in Agents \ {p} : draft'[b] = draft[b]
        /\ UNCHANGED events
    BY <1>1, <1>2, <2>1, RefusedStep
  <2>3. TypeOK'
    BY <1>3, <2>1, <2>2 DEF JournalInv, TypeOK
  <2>4. ControlInv'
    BY <1>3, <2>1 DEF JournalInv, ControlInv, Idle
  <2>5. DraftInv'
    BY <1>2, <1>3, <2>1, <2>2 DEF JournalInv, DraftInv, Idle
  <2> QED BY <2>2, <2>3, <2>4, <2>5, QuietStep
<1> QED BY <1>4, <1>5, <1>6

\* A step of t's thread that leaves the journal alone: it moves to h, and at
\* most closes turns.
LEMMA ThreadMove ==
  ASSUME JournalInv, NEW t \in Turns, NEW h \in ThreadStates,
         thr' = [thr EXCEPT ![t] = h], turn[t] # "absent",
         h.pc # "write", h.pc \in {"read", "check", "open"} => h.todo # <<>>,
         h.pc = "close" => h.term # "none",
         turn' \in [Turns -> TurnStatuses \cup {"absent"}],
         \A u \in Turns : turn[u] # "absent" => turn'[u] # "absent",
         draft' \in [Agents -> [s : Nat, n : Nat]],
         \A b \in Agents \ {t} : draft'[b] = draft[b],
         UNCHANGED <<events, ctl, cancelled>>
  PROVE  JournalInv'
<1>1. TypeOK'
  BY DEF JournalInv, TypeOK
<1>2. ControlInv'
  BY DEF JournalInv, TypeOK, ControlInv
<1>3. DraftInv'
  BY ConstantsAssumption DEF JournalInv, TypeOK, DraftInv, Agents
<1> QED BY <1>1, <1>2, <1>3, QuietStep

\* The steps of a thread that neither read the numbers nor append.
LEMMA ThreadKeepsJournal ==
  ASSUME JournalInv, NEW t \in Turns,
         ThreadWriteRaises(t) \/ ProviderAnswers(t) \/ ProviderRaises(t) \/ CheckCancelled(t)
           \/ OpenProjection(t) \/ CloseTurn(t) \/ CloseTurnRaises(t) \/ HandleException(t)
           \/ ThreadExit(t)
  PROVE  JournalInv'
<1> DEFINE At(pc) == [thr[t] EXCEPT !.pc = pc]
<1>1. /\ thr[t] \in ThreadStates
      /\ \A pc \in {"read", "open", "close", "except", "exit", "ended"} :
           At(pc) \in ThreadStates /\ At(pc).pc = pc /\ At(pc).todo = thr[t].todo
  BY DEF JournalInv, TypeOK, ThreadStates
<1>2. /\ turn \in [Turns -> TurnStatuses \cup {"absent"}]
      /\ draft \in [Agents -> [s : Nat, n : Nat]]
      /\ t \in Agents
  BY DEF JournalInv, TypeOK, Agents
<1>3. thr[t].pc # "none" => turn[t] # "absent"
  BY DEF JournalInv, ControlInv
<1>4. thr[t].pc \in {"check", "open"} => thr[t].todo # <<>>
  BY DEF JournalInv, ControlInv
<1>6. OnException(t) \in {"except", "exit"}
  BY DEF OnException
<1>7. CASE ThreadWriteRaises(t)
  <2>1. thr' = [thr EXCEPT ![t] = At(OnException(t))]
    BY <1>7 DEF ThreadWriteRaises, Goto
  <2>2. /\ draft' \in [Agents -> [s : Nat, n : Nat]]
        /\ \A b \in Agents \ {t} : draft'[b] = draft[b]
        /\ UNCHANGED events
    BY <1>2, <1>7, RefusedStep DEF ThreadWriteRaises
  <2> HIDE DEF At
  <2> QED BY <1>1, <1>2, <1>3, <1>6, <1>7, <2>1, <2>2, ThreadMove DEF ThreadWriteRaises
<1>8. CASE ProviderAnswers(t)
  <2>1. PICK a \in Answers :
          thr' = [thr EXCEPT ![t] = [thr[t] EXCEPT !.pc = "check", !.stage = "answer", !.todo = a]]
    BY <1>8 DEF ProviderAnswers
  <2>2. a \in Seq(EventTypes) /\ a # <<>>
    BY AnswersAssumption, Vocabulary
  <2>3. [thr[t] EXCEPT !.pc = "check", !.stage = "answer", !.todo = a] \in ThreadStates
    BY <1>1, <2>2 DEF ThreadStates
  <2>4. /\ [thr[t] EXCEPT !.pc = "check", !.stage = "answer", !.todo = a].pc = "check"
        /\ [thr[t] EXCEPT !.pc = "check", !.stage = "answer", !.todo = a].todo = a
    BY <1>1 DEF ThreadStates
  <2> QED BY <1>2, <1>3, <1>8, <2>1, <2>2, <2>3, <2>4, ThreadMove DEF ProviderAnswers
<1>9. CASE ProviderRaises(t)
  <2> DEFINE h == [thr[t] EXCEPT !.pc = "except", !.stage = "answer"]
  <2>1. thr' = [thr EXCEPT ![t] = h] /\ h \in ThreadStates /\ h.pc = "except"
    BY <1>1, <1>9 DEF ProviderRaises, ThreadStates
  <2> HIDE DEF h
  <2> QED BY <1>2, <1>3, <1>9, <2>1, ThreadMove DEF ProviderRaises
<1>10. CASE CheckCancelled(t)
  <2>1. thr' = [thr EXCEPT ![t] = At("exit")] \/ thr' = [thr EXCEPT ![t] = At("open")]
    BY <1>10 DEF CheckCancelled, Goto
  <2> HIDE DEF At
  <2> QED BY <1>1, <1>2, <1>3, <1>4, <1>10, <2>1, ThreadMove DEF CheckCancelled
<1>11. CASE OpenProjection(t)
  <2>1. thr' = [thr EXCEPT ![t] = At("read")] \/ thr' = [thr EXCEPT ![t] = At(OnException(t))]
    BY <1>11 DEF OpenProjection, Goto
  <2> HIDE DEF At
  <2> QED BY <1>1, <1>2, <1>3, <1>4, <1>6, <1>11, <2>1, ThreadMove DEF OpenProjection
<1>12. CASE CloseTurn(t)
  <2>1. thr' = [thr EXCEPT ![t] = At("exit")]
    BY <1>12 DEF CloseTurn, Goto
  <2>2. turn' = [turn EXCEPT ![t] = thr[t].term]
    BY <1>12 DEF CloseTurn, Finalize
  <2>3. thr[t].term \in TurnStatuses
    BY <1>1, <1>12, Vocabulary DEF JournalInv, ControlInv, CloseTurn, ThreadStates
  <2> HIDE DEF At
  <2> QED BY <1>1, <1>2, <1>3, <1>12, <2>1, <2>2, <2>3, ThreadMove, Vocabulary DEF CloseTurn
<1>13. CASE CloseTurnRaises(t)
  <2>1. thr' = [thr EXCEPT ![t] = At(OnException(t))]
    BY <1>13 DEF CloseTurnRaises, Goto
  <2> HIDE DEF At
  <2> QED BY <1>1, <1>2, <1>3, <1>6, <1>13, <2>1, ThreadMove DEF CloseTurnRaises
<1>14. CASE HandleException(t)
  <2> DEFINE h == [thr[t] EXCEPT !.pc = "open", !.stage = "fallback",
                                 !.todo = <<"model.error">>, !.term = "none"]
  <2>1. h \in ThreadStates /\ h.pc = "open" /\ h.todo # <<>>
    BY <1>1, OneElement, Vocabulary DEF ThreadStates
  <2>2. thr' = [thr EXCEPT ![t] = At("exit")] \/ thr' = [thr EXCEPT ![t] = h]
    BY <1>14 DEF HandleException
  <2> HIDE DEF At, h
  <2> QED BY <1>1, <1>2, <1>3, <1>14, <2>1, <2>2, ThreadMove DEF HandleException
<1>15. CASE ThreadExit(t)
  <2>1. thr' = [thr EXCEPT ![t] = At("ended")]
    BY <1>15 DEF ThreadExit, Goto
  <2> HIDE DEF At
  <2> QED BY <1>1, <1>2, <1>3, <1>15, <2>1, ThreadMove DEF ThreadExit
<1> QED BY <1>7, <1>8, <1>9, <1>10, <1>11, <1>12, <1>13, <1>14, <1>15

\* A thread that reads the journal for its next number keeps the invariant,
LEMMA ThreadReadKeepsJournal ==
  ASSUME JournalInv, NEW t \in Turns, ThreadRead(t)
  PROVE  JournalInv'
<1> DEFINE h == [thr[t] EXCEPT !.pc = "write"]
<1>1. thr[t] \in ThreadStates /\ t \in Agents
  BY DEF JournalInv, TypeOK, Agents
<1>2. h \in ThreadStates /\ h.pc = "write" /\ h.todo = thr[t].todo
  BY <1>1 DEF ThreadStates
<1>3. thr' = [thr EXCEPT ![t] = h] /\ UNCHANGED <<turn, events, ctl, cancelled>>
  BY DEF ThreadRead, Goto
<1>4. turn[t] # "absent" /\ thr[t].todo # <<>>
  BY DEF JournalInv, ControlInv, ThreadRead
<1>5. /\ draft' \in [Agents -> [s : Nat, n : Nat]]
      /\ NextOrTaken(events, draft'[t], t)
      /\ \A b \in Agents \ {t} : draft'[b] = draft[b]
  BY <1>1, <1>3, ReadStep DEF ThreadRead
<1> HIDE DEF h
<1>6. TypeOK'
  BY <1>2, <1>3, <1>5 DEF JournalInv, TypeOK
<1>7. ControlInv'
  BY <1>2, <1>3, <1>4 DEF JournalInv, TypeOK, ControlInv
<1>8. DraftInv'
  BY <1>2, <1>3, <1>5, ConstantsAssumption DEF JournalInv, TypeOK, DraftInv, Agents
<1> QED BY <1>3, <1>6, <1>7, <1>8, QuietStep

\* What ThreadWrite makes of the thread.
LEMMA ThreadWriteMoves ==
  ASSUME JournalInv, NEW t \in Turns, ThreadWrite(t)
  PROVE  \E h \in ThreadStates :
           /\ thr' = [thr EXCEPT ![t] = h]
           /\ h.pc \in {"read", "call", "close", "exit"}
           /\ h.pc = "read" => h.todo # <<>>
           /\ h.pc = "close" => h.term # "none"
           /\ h.term = TerminalStatus(Head(thr[t].todo)) \/ h.term = thr[t].term
           /\ TerminalStatus(Head(thr[t].todo)) # "none" => h.term = TerminalStatus(Head(thr[t].todo))
           /\ h.stage = thr[t].stage
           /\ h.pc = "read" => Len(thr[t].todo) > 1
           /\ thr[t].stage = "boot" => h.pc \in {"read", "call"}
           /\ h.pc = "call" => thr[t].stage = "boot"
<1> DEFINE th == thr[t]
           type == Head(th.todo)
           term == IF TerminalStatus(type) # "none" THEN TerminalStatus(type) ELSE th.term
           next == IF Len(th.todo) > 1 THEN "read"
                   ELSE IF th.stage = "boot" THEN "call"
                   ELSE IF term # "none" THEN "close" ELSE "exit"
           h == [th EXCEPT !.todo = Tail(th.todo), !.term = term, !.pc = next]
<1>1. th \in ThreadStates /\ th.todo # <<>> /\ th.todo \in Seq(EventTypes)
  BY DEF JournalInv, TypeOK, ControlInv, ThreadWrite, ThreadStates
<1>2. type \in EventTypes /\ Tail(th.todo) \in Seq(EventTypes)
  BY <1>1
<1>3. term \in FinalStatuses \cup {"none"}
  BY <1>1, <1>2, Vocabulary DEF ThreadStates
<1>4. next = "read" => Tail(th.todo) # <<>>
  BY <1>1, TailOfMore
<1>5. next = "close" => term # "none"
  OBVIOUS
<1>6. next \in {"read", "call", "close", "exit"}
  OBVIOUS
<1>7. /\ term = TerminalStatus(type) \/ term = th.term
      /\ TerminalStatus(type) # "none" => term = TerminalStatus(type)
      /\ next = "read" => Len(th.todo) > 1
      /\ th.stage = "boot" => next \in {"read", "call"}
      /\ next = "call" => th.stage = "boot"
  OBVIOUS
<1>8. thr' = [thr EXCEPT ![t] = h]
  BY DEF ThreadWrite
<1> HIDE DEF term, next, type
<1>9. h \in ThreadStates /\ h.pc = next /\ h.term = term /\ h.todo = Tail(th.todo) /\ h.stage = th.stage
  BY <1>1, <1>2, <1>3, <1>6 DEF ThreadStates
<1> HIDE DEF h
<1> QED BY <1>4, <1>5, <1>6, <1>7, <1>8, <1>9 DEF type

\* so does one that inserts its row,
LEMMA ThreadWriteKeepsJournal ==
  ASSUME JournalInv, NEW t \in Turns, ThreadWrite(t)
  PROVE  JournalInv'
<1>1. PICK h \in ThreadStates :
        /\ thr' = [thr EXCEPT ![t] = h]
        /\ h.pc \in {"read", "call", "close", "exit"}
        /\ h.pc = "read" => h.todo # <<>>
        /\ h.pc = "close" => h.term # "none"
  BY ThreadWriteMoves
<1>2. turn[t] # "absent" /\ NextOrTaken(events, draft[t], t) /\ t \in Agents
  BY DEF JournalInv, ControlInv, DraftInv, ThreadWrite, Agents
<1>3. Head(thr[t].todo) \in EventTypes
  <2>1. thr[t].todo \in Seq(EventTypes) /\ thr[t].todo # <<>>
    BY DEF JournalInv, TypeOK, ControlInv, ThreadWrite, ThreadStates
  <2> QED BY <2>1
<1>4. Insert(t, t, Head(thr[t].todo)) /\ UNCHANGED <<turn, ctl, cancelled>>
  BY DEF ThreadWrite
<1>5. /\ NumberedRows(events')
      /\ draft' \in [Agents -> [s : Nat, n : Nat]]
      /\ \A b \in Agents \ {t}, u \in Turns :
           NextOrTaken(events, draft[b], u) => NextOrTaken(events', draft'[b], u)
  BY <1>2, <1>3, <1>4, InsertStep
<1>6. TypeOK'
  BY <1>1, <1>4, <1>5 DEF JournalInv, TypeOK, NumberedRows, Rows
<1>7. ControlInv'
  BY <1>1, <1>2, <1>4 DEF JournalInv, TypeOK, ControlInv
<1>8. DraftInv'
  BY <1>1, <1>4, <1>5, ConstantsAssumption DEF JournalInv, TypeOK, ControlInv, DraftInv, Agents
<1> QED BY <1>5, <1>6, <1>7, <1>8 DEF JournalInv

\* and a process that crashes.
LEMMA CrashKeepsJournal ==
  ASSUME JournalInv, NEW p \in Procs, Crash(p)
  PROVE  JournalInv'
<1> DEFINE dead == [NoThread(p) EXCEPT !.pc = "killed"]
<1>1. dead \in ThreadStates /\ dead.pc = "killed" /\ Idle \in RequestStates /\ Idle.pc = "idle"
  <2>1. <<>> \in Seq(EventTypes)
    OBVIOUS
  <2> QED BY <2>1 DEF ThreadStates, RequestStates, NoThread, Idle
<1>2. /\ ctl' = [ctl EXCEPT ![p] = Idle]
      /\ thr' = [t \in Turns |-> IF t \in Hosted(p) THEN dead ELSE thr[t]]
      /\ draft' = [a \in Agents |-> IF a = p \/ a \in Hosted(p) THEN NoDraft ELSE draft[a]]
      /\ cancelled' = cancelled \ Hosted(p)
      /\ UNCHANGED <<turn, events>>
  BY DEF Crash
<1>3. \A t \in Hosted(p) : thr[t].pc # "none"
  BY DEF Hosted, IsRunning, Live
<1> HIDE DEF dead
<1>4. TypeOK'
  BY <1>1, <1>2 DEF JournalInv, TypeOK, NoDraft
<1>5. ControlInv'
  BY <1>1, <1>2, <1>3 DEF JournalInv, ControlInv
<1>6. DraftInv'
  BY <1>1, <1>2, ConstantsAssumption DEF JournalInv, TypeOK, DraftInv, Agents, Hosted
<1> QED BY <1>2, <1>4, <1>5, <1>6, QuietStep

\* Every step keeps the invariant of the journal.
LEMMA JournalStep == JournalInv /\ [Next]_vars => JournalInv'
<1> SUFFICES ASSUME JournalInv, [Next]_vars PROVE JournalInv'
  OBVIOUS
<1>1. ASSUME NEW p \in Procs, Request(p) \/ ControlStep(p)
      PROVE  JournalInv'
  BY <1>1, RequestKeepsJournal, AppendingRequestKeepsJournal DEF ControlStep
<1>2. ASSUME NEW t \in Turns, ThreadStep(t)
      PROVE  JournalInv'
  BY <1>2, ThreadKeepsJournal, ThreadReadKeepsJournal, ThreadWriteKeepsJournal DEF ThreadStep
<1>3. CASE UNCHANGED vars
  BY <1>3 DEF vars, JournalInv, TypeOK, ControlInv, DraftInv, NumberedRows, NextOrTaken, RowsOf
<1> QED BY <1>1, <1>2, <1>3, CrashKeepsJournal DEF Next

\* JournalInv holds in every reachable state.
THEOREM JournalInvariant == Spec => []JournalInv
BY JournalInit, JournalStep, PTL DEF Spec

\* The tables and the program counters keep their types: every row that is ever
\* stored is a row of a known turn with natural numbers.
THEOREM Typed == Spec => []TypeOK
<1>1. JournalInv => TypeOK
  BY DEF JournalInv
<1> QED BY <1>1, JournalInvariant, PTL

\* The journal's numbers have no gap and no tie, however many processes append.
THEOREM Numbered == Spec => []JournalNumbered
<1>1. JournalInv => JournalNumbered
  BY DEF JournalInv, NumberedRows, JournalNumbered
<1> QED BY <1>1, JournalInvariant, PTL

-----------------------------------------------------------------------------
(* Every step is a step of the lifecycle or changes neither table *)

\* Who is about to close a turn has its row: a cancel at finalize_turn, and a
\* thread that has appended a terminal event.
WitnessInv ==
  /\ \A p \in Procs : ctl[p].pc = "finalize" => HasEvent(events, ctl[p].turn, "turn.cancelled")
  /\ \A t \in Turns : thr[t].term # "none" =>
       \E e \in events : e.turn = t /\ TerminalStatus(e.type) = thr[t].term

\* A row, once stored, stays.
LEMMA JournalGrows ==
  ASSUME JournalInv, [Next]_vars
  PROVE  events \subseteq events'
<1>1. ASSUME NEW p \in Procs, Request(p) \/ ControlStep(p) \/ Crash(p)
      PROVE  events \subseteq events'
  BY <1>1 DEF Request, ControlStep, StartRequest, NoteRequest, CancelRequest, CreateTurn,
    CreateTurnWithoutText, ProbeThread, SignalCancel, ControlRead, ControlWrite, Insert,
    ControlWriteRaises, InsertRaises, ControlFinalize, ControlFinalizeRaises, Crash
<1>2. ASSUME NEW t \in Turns, ThreadStep(t)
      PROVE  events \subseteq events'
  BY <1>2 DEF ThreadStep, ThreadRead, ThreadWrite, Insert, ThreadWriteRaises, InsertRaises,
    ProviderAnswers, ProviderRaises, CheckCancelled, OpenProjection, CloseTurn,
    CloseTurnRaises, HandleException, ThreadExit
<1> QED BY <1>1, <1>2 DEF Next, vars

\* A step of process p after which p is at finalize_turn, if it is at all, with
\* the row of its cancel stored, and which gives no thread a terminal status.
LEMMA RequestKeepsWitness ==
  ASSUME JournalInv, WitnessInv, NEW p \in Procs, events \subseteq events',
         \A q \in Procs \ {p} : ctl'[q] = ctl[q],
         ctl'[p].pc = "finalize" => HasEvent(events', ctl'[p].turn, "turn.cancelled"),
         \A t \in Turns : thr'[t].term = thr[t].term \/ thr'[t].term = "none"
  PROVE  WitnessInv'
BY DEF WitnessInv, HasEvent

\* An inserted row is in the journal.
LEMMA InsertedRow ==
  ASSUME NEW a, NEW t, NEW type, Insert(a, t, type)
  PROVE  \E e \in events' : e.turn = t /\ e.type = type
<1> DEFINE r == Row(t, type, draft[a].s, draft[a].n)
<1>1. r \in events'
  BY DEF Insert
<1>2. r.turn = t /\ r.type = type
  BY DEF Row
<1> HIDE DEF r
<1> QED BY <1>1, <1>2

\* A thread that has just been made has no terminal status in hand.
LEMMA FreshThread ==
  ASSUME NEW p
  PROVE  /\ [NoThread(p) EXCEPT !.pc = "killed"].term = "none"
         /\ [NoThread(p) EXCEPT !.pc = "read", !.todo = <<"runtime.provider.running">>].term = "none"
BY DEF NoThread

\* Every step keeps that whoever is about to close a turn has its row.
LEMMA WitnessStep ==
  ASSUME JournalInv, WitnessInv, [Next]_vars
  PROVE  WitnessInv'
<1>1. events \subseteq events'
  BY JournalGrows
<1>2. ctl \in [Procs -> RequestStates] /\ thr \in [Turns -> ThreadStates]
  BY DEF JournalInv, TypeOK
<1>3. ASSUME NEW p \in Procs, Request(p) \/ ControlStep(p) \/ Crash(p), ~ControlWrite(p)
      PROVE  WitnessInv'
  <2>1. /\ \A q \in Procs \ {p} : ctl'[q] = ctl[q]
        /\ ctl'[p].pc # "finalize"
    <3>1. CASE Request(p)
      BY <1>2, <3>1 DEF Request, StartRequest, NoteRequest, CancelRequest, RequestStates
    <3>2. CASE CreateTurn(p) \/ CreateTurnWithoutText(p)
      BY <1>2, <3>2 DEF CreateTurn, CreateTurnWithoutText, Idle
    <3>3. CASE ProbeThread(p)
      BY <1>2, <3>3 DEF ProbeThread, Idle, RequestStates
    <3>4. CASE SignalCancel(p) \/ ControlRead(p)
      BY <1>2, <3>4 DEF SignalCancel, ControlRead, RequestStates
    <3>5. CASE ControlWriteRaises(p) \/ ControlFinalize(p) \/ ControlFinalizeRaises(p) \/ Crash(p)
      BY <1>2, <3>5 DEF ControlWriteRaises, ControlFinalize, ControlFinalizeRaises, Crash, Idle
    <3> QED BY <1>3, <3>1, <3>2, <3>3, <3>4, <3>5 DEF ControlStep
  <2>2. \A t \in Turns : thr'[t].term = thr[t].term \/ thr'[t].term = "none"
    <3>1. CASE Crash(p)
      BY <3>1, FreshThread DEF Crash
    <3>2. CASE ~Crash(p)
      BY <1>3, <3>2 DEF Request, ControlStep, StartRequest, NoteRequest, CancelRequest, CreateTurn,
        CreateTurnWithoutText, ProbeThread, SignalCancel, ControlRead, ControlWriteRaises,
        ControlFinalize, ControlFinalizeRaises
    <3> QED BY <3>1, <3>2
  <2> QED BY <1>1, <2>1, <2>2, RequestKeepsWitness
<1>4. ASSUME NEW p \in Procs, ControlWrite(p)
      PROVE  WitnessInv'
  <2>1. ctl' = [ctl EXCEPT ![p] = AfterInsert(p)] /\ Insert(p, ctl[p].turn, ctl[p].type)
    BY <1>4 DEF ControlWrite
  <2>2. AfterInsert(p).pc = "finalize" =>
          ctl[p].type = "turn.cancelled" /\ AfterInsert(p).turn = ctl[p].turn
    BY <1>2, <1>4 DEF AfterInsert, ControlWrite, RequestStates, Idle
  <2>3. ctl[p].type = "turn.cancelled" => HasEvent(events', ctl[p].turn, "turn.cancelled")
    BY <2>1, InsertedRow DEF HasEvent
  <2>4. \A t \in Turns : thr'[t].term = thr[t].term \/ thr'[t].term = "none"
    BY <1>2, <1>4, FreshThread DEF ControlWrite
  <2> QED BY <1>1, <1>2, <2>1, <2>2, <2>3, <2>4, RequestKeepsWitness
<1>5. ASSUME NEW t \in Turns, ThreadStep(t), ~ThreadWrite(t)
      PROVE  WitnessInv'
  <2>1. \A u \in Turns : thr'[u].term = thr[u].term \/ thr'[u].term = "none"
    <3> DEFINE At(pc) == [thr[t] EXCEPT !.pc = pc]
    <3>1. \A pc : At(pc).term = thr[t].term
      BY <1>2 DEF ThreadStates
    <3>2. CASE \E pc : thr' = [thr EXCEPT ![t] = At(pc)]
      <4> HIDE DEF At
      <4> QED BY <1>2, <3>1, <3>2
    <3>3. CASE ThreadRead(t) \/ ThreadWriteRaises(t) \/ CheckCancelled(t) \/ OpenProjection(t)
                 \/ CloseTurn(t) \/ CloseTurnRaises(t) \/ ThreadExit(t)
      <4>1. \E pc : thr' = [thr EXCEPT ![t] = At(pc)]
        BY <3>3 DEF ThreadRead, ThreadWriteRaises, CheckCancelled, OpenProjection, CloseTurn,
          CloseTurnRaises, ThreadExit, Goto
      <4> QED BY <3>2, <4>1
    <3>4. CASE ProviderAnswers(t) \/ ProviderRaises(t)
      <4>1. \A a : [thr[t] EXCEPT !.pc = "check", !.stage = "answer", !.todo = a].term = thr[t].term
        BY <1>2 DEF ThreadStates
      <4>2. [thr[t] EXCEPT !.pc = "except", !.stage = "answer"].term = thr[t].term
        BY <1>2 DEF ThreadStates
      <4>3. CASE ProviderAnswers(t)
        <5>1. PICK a \in Answers :
                thr' = [thr EXCEPT ![t] = [thr[t] EXCEPT !.pc = "check", !.stage = "answer", !.todo = a]]
          BY <4>3 DEF ProviderAnswers
        <5> QED BY <1>2, <4>1, <5>1
      <4>4. CASE ProviderRaises(t)
        BY <1>2, <4>2, <4>4 DEF ProviderRaises
      <4> QED BY <3>4, <4>3, <4>4
    <3>5. CASE HandleException(t)
      BY <1>2, <3>5 DEF HandleException, ThreadStates
    <3> QED BY <1>5, <3>3, <3>4, <3>5 DEF ThreadStep
  <2>2. ctl' = ctl
    BY <1>5 DEF ThreadStep, ThreadRead, ThreadWriteRaises, ProviderAnswers, ProviderRaises,
      CheckCancelled, OpenProjection, CloseTurn, CloseTurnRaises, HandleException, ThreadExit
  <2> QED BY <1>1, <2>1, <2>2 DEF WitnessInv, HasEvent
<1>6. ASSUME NEW t \in Turns, ThreadWrite(t)
      PROVE  WitnessInv'
  <2>1. PICK h \in ThreadStates :
          /\ thr' = [thr EXCEPT ![t] = h]
          /\ h.term = TerminalStatus(Head(thr[t].todo)) \/ h.term = thr[t].term
    BY <1>6, ThreadWriteMoves
  <2>2. ctl' = ctl /\ Insert(t, t, Head(thr[t].todo))
    BY <1>6 DEF ThreadWrite
  <2>3. \E e \in events' : e.turn = t /\ TerminalStatus(e.type) = TerminalStatus(Head(thr[t].todo))
    BY <2>2, InsertedRow
  <2>4. \A u \in Turns : thr'[u].term # "none" =>
          \E e \in events' : e.turn = u /\ TerminalStatus(e.type) = thr'[u].term
    BY <1>1, <1>2, <2>1, <2>3 DEF WitnessInv
  <2> QED BY <1>1, <2>2, <2>4 DEF WitnessInv, HasEvent
<1>7. CASE UNCHANGED vars
  BY <1>7 DEF vars, WitnessInv, HasEvent
<1> QED BY <1>3, <1>4, <1>5, <1>6, <1>7 DEF Next

\* At first nobody is about to close one.
LEMMA WitnessInit == Init => WitnessInv
BY DEF Init, WitnessInv, Idle, NoThread

\* The instance's operators are the module's.
LEMMA SameCounting ==
  ASSUME NEW S
  PROVE  Lifecycle!Cardinality(S) = Cardinality(S)
BY DEF Lifecycle!Cardinality, Cardinality

\* Turn control and its abstract lifecycle use the same words for the same things.
LEMMA SameWords ==
  /\ Lifecycle!EventTypes = EventTypes
  /\ Lifecycle!FinalStatuses = FinalStatuses
  /\ \A type : Lifecycle!TerminalStatus(type) = TerminalStatus(type)
  /\ \A rows, t : Lifecycle!RowsOf(rows, t) = RowsOf(rows, t)
  /\ \A rows, t, type : Lifecycle!HasEvent(rows, t, type) = HasEvent(rows, t, type)
  /\ \A t, type, s, n : Lifecycle!Row(t, type, s, n) = Row(t, type, s, n)
<1>1. Lifecycle!EventTypes = EventTypes
  BY DEF Lifecycle!EventTypes, EventTypes, Lifecycle!ControlTypes, ControlTypes,
    Lifecycle!ModelTypes, ModelTypes, Lifecycle!NoteTypes, NoteTypes
<1>2. Lifecycle!FinalStatuses = FinalStatuses
  BY DEF Lifecycle!FinalStatuses, FinalStatuses
<1>3. \A type : Lifecycle!TerminalStatus(type) = TerminalStatus(type)
  BY DEF Lifecycle!TerminalStatus, TerminalStatus
<1>4. \A rows, t : Lifecycle!RowsOf(rows, t) = RowsOf(rows, t)
  BY DEF Lifecycle!RowsOf, RowsOf
<1>5. \A rows, t, type : Lifecycle!HasEvent(rows, t, type) = HasEvent(rows, t, type)
  BY DEF Lifecycle!HasEvent, HasEvent
<1>6. \A t, type, s, n : Lifecycle!Row(t, type, s, n) = Row(t, type, s, n)
  BY DEF Lifecycle!Row, Row
<1> QED BY <1>1, <1>2, <1>3, <1>4, <1>5, <1>6

\* A step that touches neither table, or one table as the lifecycle allows.
LEMMA LifecycleStep ==
  ASSUME JournalInv, WitnessInv, [Next]_vars
  PROVE  [Lifecycle!LNext]_(Lifecycle!lifecycleVars)
<1>1. CASE UNCHANGED <<turn, events>>
  BY <1>1 DEF Lifecycle!lifecycleVars
<1>2. ASSUME NEW p \in Procs, CreateTurn(p) \/ CreateTurnWithoutText(p)
      PROVE  Lifecycle!LNext
  <2>1. PICK t \in Turns : Lifecycle!Open(t)
    BY <1>2 DEF CreateTurn, CreateTurnWithoutText, Started, Lifecycle!Open
  <2> QED BY <2>1 DEF Lifecycle!LNext
<1>3. ASSUME NEW a, NEW t \in Turns, NEW type \in EventTypes, turn[t] # "absent",
             NextOrTaken(events, draft[a], t), Insert(a, t, type), UNCHANGED turn
      PROVE  Lifecycle!LNext
  <2>1. events' = events \cup {Row(t, type, Cardinality(events) + 1,
                                   Cardinality(RowsOf(events, t)) + 1)}
    BY <1>3, InsertAppends DEF JournalInv
  <2>2. Lifecycle!Record(t, type)
    BY <1>3, <2>1, SameCounting, SameWords DEF Lifecycle!Record
  <2> QED BY <2>2, SameWords DEF Lifecycle!LNext
<1>4. ASSUME NEW t \in Turns, NEW st \in FinalStatuses, turn[t] = "running",
             turn' = [turn EXCEPT ![t] = st], UNCHANGED events,
             \/ st = "cancelled" /\ HasEvent(events, t, "turn.cancelled")
             \/ \E e \in events : e.turn = t /\ TerminalStatus(e.type) = st
      PROVE  Lifecycle!LNext
  <2>1. Lifecycle!Close(t, st)
    BY <1>4, SameWords DEF Lifecycle!Close, Lifecycle!Grounds
  <2> QED BY <2>1, SameWords DEF Lifecycle!LNext
<1>5. ASSUME NEW p \in Procs, ControlWrite(p)
      PROVE  Lifecycle!LNext
  <2>1. /\ ctl[p].turn \in Turns /\ turn[ctl[p].turn] # "absent"
        /\ ctl[p].type \in EventTypes
        /\ NextOrTaken(events, draft[p], ctl[p].turn)
    BY <1>5, Vocabulary DEF JournalInv, ControlInv, DraftInv, ControlWrite
  <2>2. Insert(p, ctl[p].turn, ctl[p].type) /\ UNCHANGED turn
    BY <1>5 DEF ControlWrite
  <2> QED BY <1>3, <2>1, <2>2
<1>6. ASSUME NEW t \in Turns, ThreadWrite(t)
      PROVE  Lifecycle!LNext
  <2>1. turn[t] # "absent" /\ NextOrTaken(events, draft[t], t)
    BY <1>6 DEF JournalInv, ControlInv, DraftInv, ThreadWrite
  <2>2. thr[t].todo \in Seq(EventTypes) /\ thr[t].todo # <<>>
    BY <1>6 DEF JournalInv, TypeOK, ControlInv, ThreadWrite, ThreadStates
  <2>3. Insert(t, t, Head(thr[t].todo)) /\ UNCHANGED turn /\ Head(thr[t].todo) \in EventTypes
    BY <1>6, <2>2 DEF ThreadWrite
  <2> QED BY <1>3, <2>1, <2>3
<1>7. ASSUME NEW p \in Procs, ControlFinalize(p)
      PROVE  Lifecycle!LNext
  <2>1. ctl[p].turn \in Turns /\ HasEvent(events, ctl[p].turn, "turn.cancelled")
    BY <1>7 DEF JournalInv, ControlInv, WitnessInv, ControlFinalize
  <2> QED BY <1>4, <1>7, <2>1, Vocabulary DEF ControlFinalize, Finalize
<1>8. ASSUME NEW t \in Turns, CloseTurn(t)
      PROVE  Lifecycle!LNext
  <2>1. thr[t].term \in FinalStatuses
    BY <1>8 DEF JournalInv, TypeOK, ControlInv, CloseTurn, ThreadStates
  <2>2. \E e \in events : e.turn = t /\ TerminalStatus(e.type) = thr[t].term
    BY <1>8 DEF JournalInv, ControlInv, WitnessInv, CloseTurn
  <2> QED BY <1>4, <1>8, <2>1, <2>2 DEF CloseTurn, Finalize
<1>9. ASSUME NEW p \in Procs, Request(p) \/ ProbeThread(p) \/ SignalCancel(p) \/ ControlRead(p)
               \/ ControlWriteRaises(p) \/ ControlFinalizeRaises(p) \/ Crash(p)
      PROVE  UNCHANGED <<turn, events>>
  BY <1>9 DEF Request, StartRequest, NoteRequest, CancelRequest, ProbeThread, SignalCancel,
    ControlRead, ControlWriteRaises, InsertRaises, ControlFinalizeRaises, Crash
<1>10. ASSUME NEW t \in Turns, ThreadStep(t), ~ThreadWrite(t), ~CloseTurn(t)
       PROVE  UNCHANGED <<turn, events>>
  BY <1>10 DEF ThreadStep, ThreadRead, ThreadWriteRaises, InsertRaises, ProviderAnswers,
    ProviderRaises, CheckCancelled, OpenProjection, CloseTurnRaises, HandleException, ThreadExit
<1> QED BY <1>1, <1>2, <1>5, <1>6, <1>7, <1>8, <1>9, <1>10 DEF Next, ControlStep, ThreadStep, vars

\* TurnControl implements TurnLifecycle: whatever interleaves or crashes, the two
\* tables change only by opening a turn, appending the next row, or closing a
\* running turn with the status one of its rows stands for.
THEOREM Implementation == Spec => ImplementsLifecycle
<1>1. Init => Lifecycle!LInit
  BY DEF Init, Lifecycle!LInit
<1>2. JournalInv /\ WitnessInv /\ [Next]_vars => [Lifecycle!LNext]_(Lifecycle!lifecycleVars)
  BY LifecycleStep
<1>3. JournalInv /\ WitnessInv /\ [Next]_vars => WitnessInv'
  BY WitnessStep
<1> QED BY <1>1, <1>2, <1>3, WitnessInit, JournalInvariant, PTL
  DEF Spec, ImplementsLifecycle, Lifecycle!LSpec

\* A turn that reads closed has the row that says why, in every reachable state.
THEOREM Grounded == Spec => []OutcomeGrounded
<1>1. Init => OutcomeGrounded
  BY DEF Init, OutcomeGrounded, FinalStatuses
<1>2. TypeOK /\ OutcomeGrounded /\ [Lifecycle!LNext]_(Lifecycle!lifecycleVars) => OutcomeGrounded'
  <2> SUFFICES ASSUME TypeOK, OutcomeGrounded, [Lifecycle!LNext]_(Lifecycle!lifecycleVars)
               PROVE  OutcomeGrounded'
    OBVIOUS
  <2>1. events \subseteq events'
    BY DEF Lifecycle!LNext, Lifecycle!Open, Lifecycle!Record, Lifecycle!Close, Lifecycle!lifecycleVars
  <2>2. ASSUME NEW t \in Turns, turn'[t] \in FinalStatuses, turn'[t] # turn[t]
        PROVE  Lifecycle!Grounds(events, t, turn'[t])
    <3>1. turn \in [Turns -> TurnStatuses \cup {"absent"}]
      BY DEF TypeOK
    <3>2. PICK u \in Turns : Lifecycle!Open(u) \/ \E st \in FinalStatuses : Lifecycle!Close(u, st)
      BY <2>2, SameWords DEF Lifecycle!LNext, Lifecycle!Record, Lifecycle!lifecycleVars
    <3>3. ~Lifecycle!Open(u)
      BY <2>2, <3>1, Vocabulary DEF Lifecycle!Open
    <3>4. PICK st \in FinalStatuses : Lifecycle!Close(u, st)
      BY <3>2, <3>3
    <3>5. u = t /\ st = turn'[t]
      BY <2>2, <3>1, <3>4 DEF Lifecycle!Close
    <3> QED BY <3>4, <3>5 DEF Lifecycle!Close
  <2> QED BY <2>1, <2>2, SameWords DEF OutcomeGrounded, HasEvent, Lifecycle!Grounds
<1> QED BY <1>1, <1>2, Typed, Implementation, PTL
  DEF Spec, ImplementsLifecycle, Lifecycle!LSpec

-----------------------------------------------------------------------------
(* One process: one running turn *)

\* A start that has passed its check found no running turn, and in a single
\* process no other request opens one before it does.
SoleStarter ==
  /\ OneActiveTurn
  /\ \A p \in Procs : ctl[p].pc = "create" => \A t \in Turns : turn[t] # "running"

\* With one process on the database, a session has at most one running turn.
THEOREM OneActive ==
  ASSUME \A p, q \in Procs : p = q
  PROVE  Spec => []OneActiveTurn
<1>1. Init => SoleStarter
  BY DEF Init, SoleStarter, OneActiveTurn, Idle
<1>2. TypeOK /\ JournalInv /\ SoleStarter /\ [Next]_vars => SoleStarter'
  <2> SUFFICES ASSUME TypeOK, JournalInv, SoleStarter, [Next]_vars PROVE SoleStarter'
    OBVIOUS
  <2>1. /\ turn \in [Turns -> TurnStatuses \cup {"absent"}]
        /\ ctl \in [Procs -> RequestStates]
    BY DEF TypeOK
  <2>2. ASSUME NEW p \in Procs, CreateTurn(p) \/ CreateTurnWithoutText(p)
        PROVE  SoleStarter'
    <3>1. PICK t \in Turns : turn' = [turn EXCEPT ![t] = "running"]
      BY <2>2 DEF CreateTurn, CreateTurnWithoutText
    <3>2. \A u \in Turns : turn[u] # "running"
      BY <2>2 DEF SoleStarter, CreateTurn, CreateTurnWithoutText
    <3>3. ctl'[p].pc # "create"
      BY <2>1, <2>2 DEF CreateTurn, CreateTurnWithoutText, Idle
    <3> QED BY <2>1, <3>1, <3>2, <3>3 DEF SoleStarter, OneActiveTurn
  <2>3. ASSUME NEW p \in Procs, StartRequest(p)
        PROVE  SoleStarter'
    BY <2>3 DEF SoleStarter, OneActiveTurn, StartRequest
  <2>4. ASSUME \A t \in Turns : turn'[t] = "running" => turn[t] = "running",
               \A p \in Procs : ctl'[p].pc = "create" => ctl[p].pc = "create"
        PROVE  SoleStarter'
    BY <2>4 DEF SoleStarter, OneActiveTurn
  <2>5. ASSUME NEW p \in Procs, Request(p) \/ ControlStep(p) \/ Crash(p), ~StartRequest(p),
               ~CreateTurn(p), ~CreateTurnWithoutText(p)
        PROVE  SoleStarter'
    <3>1. ctl'[p].pc # "create" /\ \A q \in Procs : q = p
      <4>1. CASE Request(p)
        BY <2>1, <2>5, <4>1 DEF Request, NoteRequest, CancelRequest
      <4>2. CASE ProbeThread(p)
        BY <2>1, <4>2 DEF ProbeThread, Idle, RequestStates
      <4>3. CASE SignalCancel(p) \/ ControlRead(p)
        BY <2>1, <4>3 DEF SignalCancel, ControlRead, RequestStates
      <4>4. CASE ControlWrite(p)
        BY <2>1, <4>4 DEF ControlWrite, AfterInsert, Idle, RequestStates
      <4>5. CASE ControlWriteRaises(p) \/ ControlFinalize(p) \/ ControlFinalizeRaises(p) \/ Crash(p)
        BY <2>1, <4>5 DEF ControlWriteRaises, ControlFinalize, ControlFinalizeRaises, Crash, Idle
      <4> QED BY <2>5, <4>1, <4>2, <4>3, <4>4, <4>5 DEF ControlStep
    <3>2. turn' = turn \/ turn' = [turn EXCEPT ![ctl[p].turn] = "cancelled"]
      BY <2>5 DEF Request, ControlStep, NoteRequest, CancelRequest, ProbeThread, SignalCancel,
        ControlRead, ControlWrite, ControlWriteRaises, ControlFinalize, Finalize,
        ControlFinalizeRaises, Crash
    <3>3. \A t \in Turns : turn'[t] = "running" => turn[t] = "running"
      BY <2>1, <3>2
    <3> QED BY <2>4, <3>1, <3>3
  <2>6. ASSUME NEW t \in Turns, ThreadStep(t)
        PROVE  SoleStarter'
    <3>1. ctl' = ctl
      BY <2>6 DEF ThreadStep, ThreadRead, ThreadWrite, ThreadWriteRaises, ProviderAnswers,
        ProviderRaises, CheckCancelled, OpenProjection, CloseTurn, CloseTurnRaises,
        HandleException, ThreadExit
    <3>2. turn' = turn \/ (turn' = [turn EXCEPT ![t] = thr[t].term] /\ thr[t].term \in FinalStatuses)
      <4>1. thr[t].pc = "close" => thr[t].term \in FinalStatuses
        BY DEF TypeOK, JournalInv, ControlInv, ThreadStates
      <4> QED BY <2>6, <4>1 DEF ThreadStep, ThreadRead, ThreadWrite, ThreadWriteRaises,
        ProviderAnswers, ProviderRaises, CheckCancelled, OpenProjection, CloseTurn, Finalize,
        CloseTurnRaises, HandleException, ThreadExit
    <3>3. \A u \in Turns : turn'[u] = "running" => turn[u] = "running"
      BY <2>1, <3>2, Vocabulary
    <3> QED BY <2>4, <3>1, <3>3
  <2> QED BY <2>2, <2>3, <2>4, <2>5, <2>6 DEF Next, vars
<1>3. SoleStarter => OneActiveTurn
  BY DEF SoleStarter
<1> QED BY <1>1, <1>2, <1>3, Typed, JournalInvariant, PTL DEF Spec

-----------------------------------------------------------------------------
(* The answer of a provider, and what replaying its turn yields *)

\* Request p is opening turn t: the thread of t is still to be started.
Opens(p, t) ==
  ctl[p].pc \in {"read", "write"} /\ ctl[p].turn = t /\ ctl[p].type \in {"user.message", "runtime.provider.queued"}

\* One request opens a turn, and starts its thread once.
OpeningInv ==
  /\ \A p \in Procs : ctl[p].pc \in {"probe", "signal"} => ctl[p].type = "turn.cancelled"
  /\ \A p \in Procs, t \in Turns : Opens(p, t) =>
       thr[t].pc = "none" /\ \A q \in Procs : Opens(q, t) => q = p

\* A thread that has no answer yet, one that appends or will, and one that does no more.
Unanswered(h) == h.pc \in {"none", "call"} \/ (h.pc \in {"read", "write"} /\ h.stage = "boot")
Appending == {"call", "check", "open", "read", "write", "close"}
Over == {"exit", "ended", "killed"}

\* A terminal status in the thread's hands is that of the last replayable row of its turn.
AnswerFine(t) ==
  /\ thr[t].pc \in {"check", "open"} => thr[t].stage # "boot"
  /\ Unanswered(thr[t]) =>
       ModelRows(t) = {} /\ (thr[t].pc \in {"read", "write"} => thr[t].todo = <<"runtime.provider.running">>)
  /\ thr[t].pc \in Appending /\ thr[t].term # "none" => ReplayStatus(events, t) = thr[t].term
  /\ turn[t] \in FinalStatuses \ {"cancelled"} => ReplayStatus(events, t) = turn[t] /\ thr[t].pc \in Over

AnswerInv == OpeningInv /\ \A t \in Turns : AnswerFine(t)

\* Replaying maps a stored row to the status that projecting it gave.
LEMMA Replayed ==
  /\ \A type \in EventTypes : ReplayMapping(type) = TerminalStatus(type)
  /\ \A type \in ControlTypes \cup {"runtime.provider.running"} :
       type \notin ModelTypes /\ type \in EventTypes /\ TerminalStatus(type) = "none"
BY DEF ReplayMapping, TerminalStatus, EventTypes, ControlTypes, NoteTypes, ModelTypes

\* A row of another turn, or one that is not replayed, changes nothing.
LEMMA RowNotReplayed ==
  ASSUME NEW rows, NEW t, NEW r, r.turn # t \/ ReplayMapping(r.type) = "none"
  PROVE  ReplayStatus(rows \cup {r}, t) = ReplayStatus(rows, t)
<1> DEFINE Hits(s) == {e \in RowsOf(s, t) : ReplayMapping(e.type) # "none"}
<1>1. Hits(rows \cup {r}) = Hits(rows)
  BY DEF RowsOf
<1>2. \A s : ReplayStatus(s, t) =
        IF Hits(s) = {} THEN "none"
        ELSE ReplayMapping((CHOOSE e \in Hits(s) : \A f \in Hits(s) : f.tseq <= e.tseq).type)
  BY DEF ReplayStatus
<1> HIDE DEF Hits
<1> QED BY <1>1, <1>2

\* A row with the next number of its turn is the last one that is replayed.
LEMMA RowReplayed ==
  ASSUME NEW rows, NumberedRows(rows), NEW t \in Turns, NEW type \in EventTypes, TerminalStatus(type) # "none",
         NEW s, NEW r, r = Row(t, type, s, Cardinality(RowsOf(rows, t)) + 1)
  PROVE  ReplayStatus(rows \cup {r}, t) = TerminalStatus(type)
<1> DEFINE hits == {e \in RowsOf(rows \cup {r}, t) : ReplayMapping(e.type) # "none"}
           last == CHOOSE e \in hits : \A f \in hits : f.tseq <= e.tseq
           k == Cardinality(RowsOf(rows, t))
<1>1. r.turn = t /\ r.type = type /\ r.tseq = k + 1 /\ ReplayMapping(type) = TerminalStatus(type)
  BY Replayed DEF Row
<1>2. k \in Nat /\ \A e \in RowsOf(rows, t) : e.tseq \in 1..k
  BY NextNumbers DEF NumberedRows
<1>3. r \in hits
  BY <1>1 DEF RowsOf
<1>4. \A e \in hits : e = r \/ e \in RowsOf(rows, t)
  BY DEF RowsOf
<1> HIDE DEF k
<1>5. \A e \in hits : e.tseq \in Nat /\ e.tseq <= r.tseq /\ (r.tseq <= e.tseq => e = r)
  BY <1>1, <1>2, <1>4
<1>6. ReplayStatus(rows \cup {r}, t) = IF hits = {} THEN "none" ELSE ReplayMapping(last.type)
  BY DEF ReplayStatus
<1> HIDE DEF hits
<1>7. last \in hits /\ \A f \in hits : f.tseq <= last.tseq
  BY <1>3, <1>5
<1>8. last = r
  BY <1>3, <1>5, <1>7
<1> QED BY <1>1, <1>3, <1>6, <1>8

\* What an accepted insertion adds to the answers and to what replaying yields.
LEMMA InsertedAnswer ==
  ASSUME JournalInv, NEW a, NEW t \in Turns, NEW type \in EventTypes,
         NextOrTaken(events, draft[a], t), Insert(a, t, type)
  PROVE  /\ \A u \in Turns \ {t} : ModelRows(u)' = ModelRows(u) /\ ReplayStatus(events', u) = ReplayStatus(events, u)
         /\ type \notin ModelTypes => ModelRows(t)' = ModelRows(t)
         /\ TerminalStatus(type) = "none" => ReplayStatus(events', t) = ReplayStatus(events, t)
         /\ TerminalStatus(type) # "none" => ReplayStatus(events', t) = TerminalStatus(type)
<1>1. PICK s, r : /\ r = Row(t, type, s, Cardinality(RowsOf(events, t)) + 1)
                  /\ events' = events \cup {r}
  BY InsertAppends DEF JournalInv
<1>2. r.turn = t /\ r.type = type /\ ReplayMapping(type) = TerminalStatus(type)
  BY <1>1, Replayed DEF Row
<1>3. \A u \in Turns \ {t} : ModelRows(u)' = ModelRows(u)
  BY <1>1, <1>2 DEF ModelRows, RowsOf
<1>4. type \notin ModelTypes => ModelRows(t)' = ModelRows(t)
  BY <1>1, <1>2 DEF ModelRows, RowsOf
<1>5. \A u \in Turns \ {t} : ReplayStatus(events', u) = ReplayStatus(events, u)
  BY <1>1, <1>2, RowNotReplayed
<1>6. TerminalStatus(type) = "none" => ReplayStatus(events', t) = ReplayStatus(events, t)
  BY <1>1, <1>2, RowNotReplayed
<1>7. TerminalStatus(type) # "none" => ReplayStatus(events', t) = TerminalStatus(type)
  BY <1>1, RowReplayed DEF JournalInv
<1> QED BY <1>3, <1>4, <1>5, <1>6, <1>7

\* A thread g that goes on as h without appending.
Follows(h, g) ==
  /\ g.pc \in {"check", "open"} => g.stage # "boot"
  /\ Unanswered(g) => Unanswered(h) /\ (g.pc \in {"read", "write"} => h.pc \in {"read", "write"} /\ g.todo = h.todo)
  /\ g.pc \in Appending /\ g.term # "none" => h.pc \in Appending /\ g.term = h.term
  /\ h.pc \in Over => g.pc \in Over

\* A thread that goes on without a row, in a turn nobody closes, keeps what is known of its answer.
LEMMA FollowingThread ==
  ASSUME NEW t \in Turns, AnswerFine(t), Follows(thr[t], thr'[t]), events' = events,
         turn'[t] = turn[t] \/ turn'[t] \notin FinalStatuses \ {"cancelled"}
  PROVE  AnswerFine(t)'
BY DEF AnswerFine, Follows, ModelRows

\* The steps of a thread that do not append.
LEMMA ThreadFollows ==
  ASSUME JournalInv, NEW t \in Turns, AnswerFine(t), ThreadStep(t), ~ThreadWrite(t)
  PROVE  /\ \A u \in Turns \ {t} : thr'[u] = thr[u]
         /\ thr[t].pc # "none" /\ thr'[t].pc # "none"
         /\ Follows(thr[t], thr'[t])
         /\ UNCHANGED <<events, ctl>>
<1> DEFINE h == thr[t]
           At(pc) == [h EXCEPT !.pc = pc]
           Going(g) == thr' = [thr EXCEPT ![t] = g] /\ UNCHANGED <<events, ctl>>
<1>1. thr \in [Turns -> ThreadStates] /\ h \in ThreadStates
  BY DEF JournalInv, TypeOK
<1>2. \A pc \in {"read", "write", "open", "except", "exit", "ended"} :
        At(pc).pc = pc /\ At(pc).stage = h.stage /\ At(pc).todo = h.todo /\ At(pc).term = h.term
  BY <1>1 DEF ThreadStates
<1>3. ASSUME NEW g, Going(g), Follows(h, g), h.pc # "none", g.pc # "none"
      PROVE  /\ \A u \in Turns \ {t} : thr'[u] = thr[u]
             /\ thr[t].pc # "none" /\ thr'[t].pc # "none"
             /\ Follows(thr[t], thr'[t])
             /\ UNCHANGED <<events, ctl>>
  BY <1>1, <1>3
<1>4. OnException(t) \in {"except", "exit"}
  BY DEF OnException
<1>5. h.pc \in {"check", "open"} => h.stage # "boot"
  BY DEF AnswerFine
<1>6. CASE ThreadRead(t)
  <2>1. Going(At("write")) /\ h.pc = "read"
    BY <1>6 DEF ThreadRead, Goto
  <2> HIDE DEF At, h, Going
  <2>2. Follows(h, At("write"))
    BY <1>2, <2>1 DEF Follows, Unanswered, Appending, Over
  <2> QED BY <1>2, <1>3, <2>1, <2>2
<1>7. CASE ThreadWriteRaises(t) \/ CloseTurnRaises(t)
  <2>1. Going(At(OnException(t))) /\ h.pc \in {"write", "close"}
    BY <1>7 DEF ThreadWriteRaises, InsertRaises, CloseTurnRaises, Goto
  <2> HIDE DEF At, h, Going
  <2>2. Follows(h, At(OnException(t)))
    BY <1>2, <1>4, <2>1 DEF Follows, Unanswered, Appending, Over
  <2> QED BY <1>2, <1>3, <1>4, <2>1, <2>2
<1>8. CASE CheckCancelled(t)
  <2>1. PICK pc \in {"exit", "open"} : Going(At(pc)) /\ h.pc = "check"
    BY <1>8 DEF CheckCancelled, Goto
  <2> HIDE DEF At, h, Going
  <2>2. Follows(h, At(pc))
    BY <1>2, <1>5, <2>1 DEF Follows, Unanswered, Appending, Over
  <2> QED BY <1>2, <1>3, <2>1, <2>2
<1>9. CASE OpenProjection(t)
  <2>1. PICK pc \in {"read", "except", "exit"} : Going(At(pc)) /\ h.pc = "open"
    BY <1>4, <1>9 DEF OpenProjection, Goto
  <2> HIDE DEF At, h, Going
  <2>2. Follows(h, At(pc))
    BY <1>2, <1>5, <2>1 DEF Follows, Unanswered, Appending, Over
  <2> QED BY <1>2, <1>3, <2>1, <2>2
<1>10. CASE CloseTurn(t) \/ ThreadExit(t)
  <2>1. PICK pc \in {"exit", "ended"} : Going(At(pc)) /\ h.pc \in {"close", "exit"}
    BY <1>10 DEF CloseTurn, ThreadExit, Goto
  <2> HIDE DEF At, h, Going
  <2>2. Follows(h, At(pc))
    BY <1>2, <2>1 DEF Follows, Unanswered, Appending, Over
  <2> QED BY <1>2, <1>3, <2>1, <2>2
<1>11. CASE ProviderAnswers(t)
  <2>1. PICK a \in Answers : Going([h EXCEPT !.pc = "check", !.stage = "answer", !.todo = a]) /\ h.pc = "call"
    BY <1>11 DEF ProviderAnswers
  <2>2. PICK g : g = [h EXCEPT !.pc = "check", !.stage = "answer", !.todo = a]
    OBVIOUS
  <2>3. g.pc = "check" /\ g.stage = "answer" /\ g.term = h.term
    BY <1>1, <2>2 DEF ThreadStates
  <2> HIDE DEF At, h, Going
  <2>4. Follows(h, g)
    BY <2>1, <2>3 DEF Follows, Unanswered, Appending, Over
  <2> QED BY <1>3, <2>1, <2>2, <2>3, <2>4
<1>12. CASE ProviderRaises(t)
  <2>1. PICK g : g = [h EXCEPT !.pc = "except", !.stage = "answer"]
    OBVIOUS
  <2>2. Going(g) /\ h.pc = "call"
    BY <1>12, <2>1 DEF ProviderRaises
  <2>3. g.pc = "except"
    BY <1>1, <2>1 DEF ThreadStates
  <2> HIDE DEF At, h, Going
  <2>4. Follows(h, g)
    BY <2>2, <2>3 DEF Follows, Unanswered, Appending, Over
  <2> QED BY <1>3, <2>2, <2>3, <2>4
<1>13. CASE HandleException(t)
  <2>1. PICK g : g = [h EXCEPT !.pc = "open", !.stage = "fallback", !.todo = <<"model.error">>, !.term = "none"]
    OBVIOUS
  <2>2. (Going(g) \/ Going(At("exit"))) /\ h.pc = "except"
    BY <1>13, <2>1 DEF HandleException
  <2>3. g.pc = "open" /\ g.stage = "fallback" /\ g.term = "none"
    BY <1>1, <2>1 DEF ThreadStates
  <2> HIDE DEF At, h, Going
  <2>4. Follows(h, g) /\ Follows(h, At("exit"))
    BY <1>2, <2>2, <2>3 DEF Follows, Unanswered, Appending, Over
  <2> QED BY <1>2, <1>3, <2>2, <2>3, <2>4
<1> QED BY <1>6, <1>7, <1>8, <1>9, <1>10, <1>11, <1>12, <1>13 DEF ThreadStep

\* CloseTurn writes the status of the last replayable row.
LEMMA CloseKeepsAnswer ==
  ASSUME JournalInv, NEW t \in Turns, AnswerFine(t), CloseTurn(t)
  PROVE  AnswerFine(t)'
<1>1. thr[t] \in ThreadStates /\ thr \in [Turns -> ThreadStates] /\ turn \in [Turns -> TurnStatuses \cup {"absent"}]
  BY DEF JournalInv, TypeOK
<1>2. thr[t].pc = "close" /\ thr[t].term # "none"
  BY DEF CloseTurn, JournalInv, ControlInv
<1>3. thr'[t].pc = "exit" /\ turn'[t] = thr[t].term /\ events' = events
  BY <1>1 DEF CloseTurn, Goto, Finalize, ThreadStates
<1>4. ReplayStatus(events, t) = thr[t].term
  BY <1>2 DEF AnswerFine, Appending
<1>5. ~Unanswered(thr'[t]) /\ thr'[t].pc \in Over \ Appending /\ thr'[t].pc \notin {"check", "open"}
  BY <1>3 DEF Unanswered, Over, Appending
<1> QED BY <1>3, <1>4, <1>5 DEF AnswerFine

\* An append of the thread: its running row, or a row of the answer.
LEMMA WriteKeepsAnswer ==
  ASSUME JournalInv, NEW t \in Turns, AnswerFine(t), ThreadWrite(t)
  PROVE  AnswerFine(t)'
<1> DEFINE type == Head(thr[t].todo)
           old == thr[t]
<1>1. PICK h \in ThreadStates :
        /\ thr' = [thr EXCEPT ![t] = h]
        /\ h.pc \in {"read", "call", "close", "exit"}
        /\ h.term = TerminalStatus(type) \/ h.term = old.term
        /\ TerminalStatus(type) # "none" => h.term = TerminalStatus(type)
        /\ h.stage = old.stage
        /\ h.pc = "read" => Len(old.todo) > 1
        /\ h.pc = "call" => old.stage = "boot"
        /\ old.stage = "boot" => h.pc \in {"read", "call"}
  BY ThreadWriteMoves
<1>2. thr'[t] = h /\ turn' = turn
  BY <1>1 DEF JournalInv, TypeOK, ThreadWrite
<1>3. old.pc = "write" /\ Insert(t, t, type) /\ NextOrTaken(events, draft[t], t)
  BY DEF ThreadWrite, JournalInv, DraftInv
<1>4. type \in EventTypes
  <2>1. thr[t].todo \in Seq(EventTypes) /\ thr[t].todo # <<>>
    BY DEF JournalInv, TypeOK, ControlInv, ThreadWrite, ThreadStates
  <2> QED BY <2>1
<1>5. /\ type \notin ModelTypes => ModelRows(t)' = ModelRows(t)
      /\ TerminalStatus(type) = "none" => ReplayStatus(events', t) = ReplayStatus(events, t)
      /\ TerminalStatus(type) # "none" => ReplayStatus(events', t) = TerminalStatus(type)
  BY <1>3, <1>4, InsertedAnswer
\* In "boot" the one row is the running row.
<1>6. old.stage = "boot" => type \notin ModelTypes /\ ModelRows(t) = {} /\ h.pc = "call"
  <2> SUFFICES ASSUME old.stage = "boot" PROVE type \notin ModelTypes /\ ModelRows(t) = {} /\ h.pc = "call"
    OBVIOUS
  <2>1. old.todo = <<"runtime.provider.running">> /\ ModelRows(t) = {}
    BY <1>3 DEF AnswerFine, Unanswered
  <2>2. type = "runtime.provider.running" /\ ~(Len(old.todo) > 1)
    BY <2>1
  <2> HIDE DEF old, type
  <2> QED BY <1>1, <2>1, <2>2, Replayed
<1>7. turn[t] \notin FinalStatuses \ {"cancelled"}
  BY <1>3 DEF AnswerFine, Over
<1>8. old.term # "none" => ReplayStatus(events, t) = old.term
  BY <1>3 DEF AnswerFine, Appending
<1> HIDE DEF type, old
<1>9. h.term # "none" => ReplayStatus(events', t) = h.term
  BY <1>1, <1>5, <1>8
<1>10. Unanswered(h) => ModelRows(t)' = {} /\ h.pc \notin {"read", "write"}
  BY <1>1, <1>5, <1>6 DEF Unanswered
<1>11. h.pc \notin {"check", "open"}
  BY <1>1
<1> QED BY <1>2, <1>7, <1>9, <1>10, <1>11 DEF AnswerFine

\* The steps of a thread.
LEMMA ThreadKeepsAnswer ==
  ASSUME JournalInv, AnswerInv, NEW t \in Turns, ThreadStep(t)
  PROVE  AnswerInv'
<1>1. AnswerFine(t)
  BY DEF AnswerInv
<1>2. /\ \A u \in Turns \ {t} : thr'[u] = thr[u] /\ turn'[u] = turn[u]
      /\ thr[t].pc # "none" /\ ctl' = ctl
  <2>1. CASE ThreadWrite(t)
    BY <2>1 DEF ThreadWrite, JournalInv, TypeOK
  <2>2. CASE ~ThreadWrite(t)
    <3>1. turn' = turn \/ \E st : turn' = [turn EXCEPT ![t] = st]
      BY <2>2 DEF ThreadStep, ThreadRead, ThreadWriteRaises, ProviderAnswers, ProviderRaises, CheckCancelled,
        OpenProjection, CloseTurn, Finalize, CloseTurnRaises, HandleException, ThreadExit
    <3> QED BY <1>1, <2>2, <3>1, ThreadFollows DEF JournalInv, TypeOK
  <2> QED BY <2>1, <2>2
<1>3. AnswerFine(t)'
  <2>1. CASE ThreadWrite(t)
    BY <1>1, <2>1, WriteKeepsAnswer
  <2>2. CASE CloseTurn(t)
    BY <1>1, <2>2, CloseKeepsAnswer
  <2>3. CASE ~ThreadWrite(t) /\ ~CloseTurn(t)
    <3>1. turn' = turn
      BY <2>3 DEF ThreadStep, ThreadRead, ThreadWriteRaises, ProviderAnswers, ProviderRaises, CheckCancelled,
        OpenProjection, CloseTurnRaises, HandleException, ThreadExit
    <3> QED BY <1>1, <2>3, <3>1, ThreadFollows, FollowingThread
  <2> QED BY <2>1, <2>2, <2>3
<1>4. ASSUME NEW u \in Turns \ {t}
      PROVE  AnswerFine(u)'
  <2>1. ModelRows(u)' = ModelRows(u) /\ ReplayStatus(events', u) = ReplayStatus(events, u)
    <3>1. CASE ThreadWrite(t)
      <4>1. Insert(t, t, Head(thr[t].todo)) /\ NextOrTaken(events, draft[t], t) /\ Head(thr[t].todo) \in EventTypes
        <5>1. thr[t].todo \in Seq(EventTypes) /\ thr[t].todo # <<>>
          BY <3>1 DEF JournalInv, TypeOK, ControlInv, ThreadWrite, ThreadStates
        <5> QED BY <3>1, <5>1 DEF ThreadWrite, JournalInv, DraftInv
      <4> QED BY <4>1, InsertedAnswer
    <3>2. CASE ~ThreadWrite(t)
      BY <1>1, <3>2, ThreadFollows DEF ModelRows
    <3> QED BY <3>1, <3>2
  <2> QED BY <1>2, <2>1 DEF AnswerInv, AnswerFine
<1>5. OpeningInv'
  <2>1. \A p \in Procs : ~Opens(p, t)
    BY <1>2 DEF AnswerInv, OpeningInv
  <2>2. \A p, u : Opens(p, u)' = Opens(p, u)
    BY <1>2 DEF Opens
  <2> QED BY <1>2, <2>1, <2>2 DEF AnswerInv, OpeningInv
<1> QED BY <1>3, <1>4, <1>5 DEF AnswerInv

\* A step of process p: the turns that others open are left to them, and p opens at most a
\* turn that nobody else opens.
LEMMA OpeningMove ==
  ASSUME OpeningInv, NEW p \in Procs,
         \A q \in Procs \ {p} : ctl'[q] = ctl[q],
         ctl'[p].pc \in {"probe", "signal"} => ctl'[p].type = "turn.cancelled",
         \A t \in Turns, q \in Procs \ {p} : Opens(q, t) => thr'[t].pc = "none",
         \A t \in Turns : Opens(p, t)' => thr'[t].pc = "none" /\ \A q \in Procs \ {p} : ~Opens(q, t)
  PROVE  OpeningInv'
<1>1. \A q \in Procs \ {p}, t \in Turns : Opens(q, t)' <=> Opens(q, t)
  BY DEF Opens
<1> QED BY <1>1 DEF OpeningInv

\* The same for a step of p that moves no thread.
LEMMA OpeningKept ==
  ASSUME OpeningInv, NEW p \in Procs, NEW c, ctl' = [ctl EXCEPT ![p] = c], thr' = thr, DOMAIN ctl = Procs,
         c.pc \in {"probe", "signal"} => c.type = "turn.cancelled",
         \A t \in Turns : Opens(p, t)' => Opens(p, t)
  PROVE  OpeningInv'
<1>1. \A t \in Turns, q \in Procs \ {p} : Opens(q, t) => thr[t].pc = "none" /\ ~Opens(p, t)
  BY DEF OpeningInv
<1>2. \A t \in Turns : Opens(p, t) => thr[t].pc = "none"
  BY DEF OpeningInv
<1>3. ctl'[p] = c /\ \A q \in Procs \ {p} : ctl'[q] = ctl[q]
  OBVIOUS
<1> QED BY <1>1, <1>2, <1>3, OpeningMove

\* A step of p that adds no row and moves no thread, and closes no turn but as cancelled.
LEMMA TablesKeepAnswer ==
  ASSUME AnswerInv, OpeningInv', events' = events, thr' = thr,
         \A t \in Turns : turn'[t] = turn[t] \/ turn'[t] \in {"running", "cancelled"}
  PROVE  AnswerInv'
<1>1. "running" \notin FinalStatuses \ {"cancelled"} /\ "cancelled" \notin FinalStatuses \ {"cancelled"}
  BY Vocabulary
<1>2. ASSUME NEW t \in Turns PROVE AnswerFine(t)'
  BY <1>1 DEF AnswerInv, AnswerFine, ModelRows
<1> QED BY <1>2 DEF AnswerInv

\* The steps of a request that append nothing.
LEMMA RequestKeepsAnswer ==
  ASSUME JournalInv, AnswerInv, NEW p \in Procs, Request(p) \/ ControlStep(p), ~ControlWrite(p)
  PROVE  AnswerInv'
<1> DEFINE At(pc) == [ctl[p] EXCEPT !.pc = pc]
<1>1. ctl \in [Procs -> RequestStates] /\ ctl[p] \in RequestStates /\ DOMAIN ctl = Procs
      /\ turn \in [Turns -> TurnStatuses \cup {"absent"}]
  BY DEF JournalInv, TypeOK
<1>2. events' = events /\ thr' = thr
  BY DEF Request, ControlStep, StartRequest, NoteRequest, CancelRequest, CreateTurn, CreateTurnWithoutText, ProbeThread,
    SignalCancel, ControlRead, ControlWriteRaises, InsertRaises, ControlFinalize, ControlFinalizeRaises
<1>3. \A t \in Turns : turn'[t] = turn[t] \/ turn'[t] \in {"running", "cancelled"}
  <2>1. \/ turn' = turn \/ turn' = [turn EXCEPT ![ctl[p].turn] = "cancelled"]
        \/ \E t \in Turns : turn' = [turn EXCEPT ![t] = "running"]
    BY DEF Request, ControlStep, StartRequest, NoteRequest, CancelRequest, CreateTurn, CreateTurnWithoutText, ProbeThread,
      SignalCancel, ControlRead, ControlWriteRaises, ControlFinalize, Finalize, ControlFinalizeRaises
  <2> QED BY <1>1, <2>1
<1>4. \A pc : At(pc).pc = pc /\ At(pc).turn = ctl[p].turn /\ At(pc).type = ctl[p].type
  BY <1>1 DEF RequestStates
<1>5. OpeningInv
  BY DEF AnswerInv
<1> HIDE DEF At
\* The request moves on without opening a turn that it did not open already.
<1>6. ASSUME NEW c, ctl' = [ctl EXCEPT ![p] = c], c.pc \in {"probe", "signal"} => c.type = "turn.cancelled",
             c.pc \in {"read", "write"} /\ c.type \in {"user.message", "runtime.provider.queued"} =>
               ctl[p].pc \in {"read", "write"} /\ c.turn = ctl[p].turn /\ c.type = ctl[p].type
      PROVE  OpeningInv'
  <2>1. ctl'[p] = c
    BY <1>1, <1>6
  <2>2. \A t \in Turns : Opens(p, t)' => Opens(p, t)
    BY <1>6, <2>1 DEF Opens
  <2> QED BY <1>1, <1>2, <1>5, <1>6, <2>2, OpeningKept
<1>7. OpeningInv'
  <2>1. CASE StartRequest(p)
    <3>1. ctl' = [ctl EXCEPT ![p] = At("create")]
      BY <2>1 DEF StartRequest, At
    <3> QED BY <1>4, <1>6, <3>1
  <2>2. ASSUME NEW t \in Turns, NoteRequest(p, t) PROVE OpeningInv'
    <3>1. PICK type \in Notes : ctl' = [ctl EXCEPT ![p] = [pc |-> "read", turn |-> t, type |-> type]]
      BY <2>2 DEF NoteRequest
    <3>2. type \notin {"user.message", "runtime.provider.queued"}
      BY ConstantsAssumption DEF NoteTypes
    <3> QED BY <1>6, <3>1, <3>2
  <2>3. ASSUME NEW t \in Turns, CancelRequest(p, t) PROVE OpeningInv'
    BY <1>6, <2>3 DEF CancelRequest
  <2>4. CASE CreateTurn(p)
    <3>1. PICK t \in Turns : /\ turn[t] = "absent"
                             /\ ctl' = [ctl EXCEPT ![p] = [pc |-> "read", turn |-> t, type |-> "user.message"]]
      BY <2>4 DEF CreateTurn, Started
    <3>2. ctl'[p] = [pc |-> "read", turn |-> t, type |-> "user.message"] /\ \A q \in Procs \ {p} : ctl'[q] = ctl[q]
      BY <1>1, <3>1
    <3>3. thr[t].pc = "none" /\ \A q \in Procs : ~Opens(q, t)
      BY <3>1 DEF JournalInv, ControlInv, Opens
    <3>4. \A u \in Turns : Opens(p, u)' => u = t
      BY <3>2 DEF Opens
    <3>5. \A u \in Turns, q \in Procs : Opens(q, u) => thr[u].pc = "none"
      BY <1>5 DEF OpeningInv
    <3> QED BY <1>2, <1>5, <3>2, <3>3, <3>4, <3>5, OpeningMove
  <2>5. CASE CreateTurnWithoutText(p) \/ ControlWriteRaises(p) \/ ControlFinalize(p) \/ ControlFinalizeRaises(p)
    <3>1. ctl' = [ctl EXCEPT ![p] = Idle] /\ Idle.pc = "idle"
      BY <2>5 DEF CreateTurnWithoutText, ControlWriteRaises, ControlFinalize, ControlFinalizeRaises, Idle
    <3> QED BY <1>6, <3>1
  <2>6. CASE ProbeThread(p)
    <3>1. ctl[p].pc = "probe" /\ ctl[p].type = "turn.cancelled"
      BY <1>5, <2>6 DEF ProbeThread, OpeningInv
    <3>2. PICK c \in {At("read"), At("signal"), Idle} : ctl' = [ctl EXCEPT ![p] = c]
      BY <2>6 DEF ProbeThread, At
    <3>3. c.pc = "idle" \/ (c.pc \in {"read", "signal"} /\ c.type = "turn.cancelled")
      BY <1>4, <3>1, <3>2 DEF Idle
    <3> QED BY <1>6, <3>2, <3>3
  <2>7. CASE SignalCancel(p)
    <3>1. ctl[p].type = "turn.cancelled" /\ ctl' = [ctl EXCEPT ![p] = At("read")]
      BY <1>5, <2>7 DEF SignalCancel, OpeningInv, At
    <3> QED BY <1>4, <1>6, <3>1
  <2>8. CASE ControlRead(p)
    <3>1. ctl[p].pc = "read" /\ ctl' = [ctl EXCEPT ![p] = At("write")]
      BY <2>8 DEF ControlRead, At
    <3> QED BY <1>4, <1>6, <3>1
  <2> QED BY <2>1, <2>2, <2>3, <2>4, <2>5, <2>6, <2>7, <2>8 DEF Request, ControlStep
<1> QED BY <1>2, <1>3, <1>7, TablesKeepAnswer

\* A row of the request: replaying skips it; the queued row starts the thread of its turn.
LEMMA ControlWriteKeepsAnswer ==
  ASSUME JournalInv, AnswerInv, NEW p \in Procs, ControlWrite(p)
  PROVE  AnswerInv'
<1>1. PICK t, type, c : t = ctl[p].turn /\ type = ctl[p].type /\ c = AfterInsert(p)
  OBVIOUS
<1>2. /\ ctl \in [Procs -> RequestStates] /\ DOMAIN ctl = Procs /\ thr \in [Turns -> ThreadStates]
      /\ ctl[p] \in RequestStates
  BY DEF JournalInv, TypeOK
<1>3. /\ t \in Turns /\ type \in ControlTypes
      /\ ctl[p].pc = "write" /\ Insert(p, t, type) /\ NextOrTaken(events, draft[p], t)
      /\ turn' = turn /\ ctl' = [ctl EXCEPT ![p] = c]
  BY <1>1 DEF ControlWrite, JournalInv, ControlInv, DraftInv
<1>4. \A u \in Turns : ModelRows(u)' = ModelRows(u) /\ ReplayStatus(events', u) = ReplayStatus(events, u)
  BY <1>3, InsertedAnswer, Replayed
<1>5. OpeningInv /\ \A u \in Turns : AnswerFine(u)
  BY DEF AnswerInv
<1>6. CASE type = "runtime.provider.queued"
  <2>1. PICK h : /\ thr' = [thr EXCEPT ![t] = h]
                 /\ h = [NoThread(p) EXCEPT !.pc = "read", !.todo = <<"runtime.provider.running">>]
    BY <1>1, <1>6 DEF ControlWrite
  <2>2. h.pc = "read" /\ h.todo = <<"runtime.provider.running">> /\ h.term = "none"
    BY <2>1 DEF NoThread
  <2>3. thr'[t] = h /\ \A u \in Turns \ {t} : thr'[u] = thr[u]
    BY <1>2, <1>3, <2>1
  <2>4. Opens(p, t)
    BY <1>1, <1>3, <1>6 DEF Opens
  <2>5. thr[t].pc = "none" /\ \A q \in Procs : Opens(q, t) => q = p
    BY <1>3, <1>5, <2>4 DEF OpeningInv
  <2>6. ModelRows(t) = {} /\ turn[t] \notin FinalStatuses \ {"cancelled"}
    BY <1>3, <1>5, <2>5 DEF AnswerFine, Unanswered, Over
  <2>7. ASSUME NEW u \in Turns PROVE AnswerFine(u)'
    <3>1. CASE u = t
      BY <1>3, <1>4, <2>2, <2>3, <2>6, <3>1 DEF AnswerFine
    <3>2. CASE u # t
      BY <1>3, <1>4, <1>5, <2>3, <3>2 DEF AnswerFine
    <3> QED BY <3>1, <3>2
  <2>8. c.pc = "idle"
    BY <1>1, <1>6 DEF AfterInsert, Idle
  <2>9. ctl'[p].pc = "idle" /\ \A q \in Procs \ {p} : ctl'[q] = ctl[q]
    BY <1>2, <1>3, <2>8
  <2>10. \A u \in Turns : ~Opens(p, u)'
    BY <2>9 DEF Opens
  <2>11. \A u \in Turns, q \in Procs \ {p} : Opens(q, u) => thr'[u].pc = "none"
    BY <1>5, <2>3, <2>5 DEF OpeningInv
  <2>12. OpeningInv'
    BY <1>5, <2>9, <2>10, <2>11, OpeningMove
  <2> QED BY <2>7, <2>12 DEF AnswerInv
<1>7. CASE type # "runtime.provider.queued"
  <2>1. thr' = thr
    BY <1>1, <1>7 DEF ControlWrite
  <2>2. ASSUME NEW u \in Turns PROVE AnswerFine(u)'
    BY <1>3, <1>4, <1>5, <2>1 DEF AnswerFine
  <2>3. c.pc = "idle" \/ c.pc = "finalize" \/ (c.pc = "read" /\ c.turn = t /\ type = "user.message")
    <3>1. CASE type = "user.message" /\ p \in Providers
      BY <1>1, <1>2, <3>1 DEF AfterInsert, RequestStates
    <3>2. CASE type = "turn.cancelled"
      BY <1>1, <1>2, <3>2 DEF AfterInsert, RequestStates
    <3>3. CASE type # "turn.cancelled" /\ ~(type = "user.message" /\ p \in Providers)
      BY <1>1, <3>3 DEF AfterInsert, Idle
    <3> QED BY <3>1, <3>2, <3>3
  <2>4. ctl'[p] = c
    BY <1>2, <1>3
  <2>5. \A u \in Turns : Opens(p, u)' => Opens(p, u)
    BY <1>1, <1>3, <2>3, <2>4 DEF Opens
  <2>6. OpeningInv'
    BY <1>2, <1>3, <1>5, <2>1, <2>3, <2>5, OpeningKept
  <2> QED BY <2>2, <2>6 DEF AnswerInv
<1> QED BY <1>6, <1>7

\* A killed process leaves its threads where they can do no more.
LEMMA CrashKeepsAnswer ==
  ASSUME JournalInv, AnswerInv, NEW p \in Procs, Crash(p)
  PROVE  AnswerInv'
<1>1. ctl \in [Procs -> RequestStates] /\ OpeningInv
  BY DEF JournalInv, TypeOK, AnswerInv
<1>2. PICK dead : dead = [NoThread(p) EXCEPT !.pc = "killed"]
  OBVIOUS
<1>3. dead.pc = "killed"
  BY <1>2 DEF NoThread
<1>4. /\ \A t \in Turns : thr'[t] = IF t \in Hosted(p) THEN dead ELSE thr[t]
      /\ ctl' = [ctl EXCEPT ![p] = Idle] /\ events' = events /\ turn' = turn
  BY <1>2 DEF Crash
<1>5. \A t \in Turns : thr[t].pc = "none" => t \notin Hosted(p)
  BY DEF Hosted, IsRunning, Live
<1>6. ASSUME NEW t \in Turns PROVE AnswerFine(t)'
  <2>1. AnswerFine(t)
    BY DEF AnswerInv
  <2>2. CASE t \in Hosted(p)
    <3>1. thr'[t].pc = "killed"
      BY <1>3, <1>4, <2>2
    <3> QED BY <1>4, <2>1, <3>1 DEF AnswerFine, Unanswered, Appending, Over
  <2>3. CASE t \notin Hosted(p)
    BY <1>4, <2>1, <2>3 DEF AnswerFine, ModelRows
  <2> QED BY <2>2, <2>3
<1>7. ctl'[p].pc = "idle" /\ \A q \in Procs \ {p} : ctl'[q] = ctl[q]
  BY <1>1, <1>4 DEF Idle
<1>8. \A t \in Turns : ~Opens(p, t)'
  BY <1>7 DEF Opens
<1>9. \A t \in Turns, q \in Procs \ {p} : Opens(q, t) => thr'[t].pc = "none"
  BY <1>1, <1>4, <1>5 DEF OpeningInv
<1>10. OpeningInv'
  BY <1>1, <1>7, <1>8, <1>9, OpeningMove
<1> QED BY <1>6, <1>10 DEF AnswerInv

\* At first no thread has an answer.
LEMMA AnswerInit == Init => AnswerInv
<1> SUFFICES ASSUME Init PROVE AnswerInv
  OBVIOUS
<1>1. OpeningInv
  BY DEF Init, OpeningInv, Opens, Idle
<1>2. ASSUME NEW t \in Turns PROVE AnswerFine(t)
  <2>1. thr[t].pc = "none" /\ turn[t] = "absent" /\ events = {}
    BY DEF Init, NoThread
  <2>2. ModelRows(t) = {}
    BY <2>1 DEF ModelRows, RowsOf
  <2> QED BY <2>1, <2>2, Vocabulary DEF AnswerFine, Appending
<1> QED BY <1>1, <1>2 DEF AnswerInv

\* Every step keeps what is known of the answers.
LEMMA AnswerStep ==
  ASSUME JournalInv, AnswerInv, [Next]_vars
  PROVE  AnswerInv'
<1>1. ASSUME NEW p \in Procs, Request(p) \/ ControlStep(p) PROVE AnswerInv'
  BY <1>1, RequestKeepsAnswer, ControlWriteKeepsAnswer
<1>2. ASSUME NEW p \in Procs, Crash(p) PROVE AnswerInv'
  BY <1>2, CrashKeepsAnswer
<1>3. ASSUME NEW t \in Turns, ThreadStep(t) PROVE AnswerInv'
  BY <1>3, ThreadKeepsAnswer
<1>4. CASE UNCHANGED vars
  <2>1. \A p, t : Opens(p, t)' = Opens(p, t)
    BY <1>4 DEF vars, Opens
  <2>2. OpeningInv'
    BY <1>4, <2>1 DEF vars, AnswerInv, OpeningInv
  <2>3. ASSUME NEW t \in Turns PROVE AnswerFine(t)'
    BY <1>4 DEF vars, AnswerInv, AnswerFine, ModelRows
  <2> QED BY <2>2, <2>3 DEF AnswerInv
<1> QED BY <1>1, <1>2, <1>3, <1>4 DEF Next

\* The invariant of the answers holds always.
LEMMA AnswerInvariant == Spec => []AnswerInv
<1>1. JournalInv /\ AnswerInv /\ [Next]_vars => AnswerInv'
  BY AnswerStep
<1> QED BY <1>1, AnswerInit, JournalInvariant, PTL DEF Spec

\* Replaying the journal of a turn that its provider closed gives the stored status, for any
\* answers, however often an append was refused and the error row was projected instead.
THEOREM ReplayTold == Spec => []ReplayAgrees
<1>1. AnswerInv => ReplayAgrees
  BY DEF AnswerInv, AnswerFine, ReplayAgrees
<1> QED BY <1>1, AnswerInvariant, PTL

-----------------------------------------------------------------------------
(* A cancel that is flagged during the provider call *)

\* The answer of t is dropped: its thread has ended, or will find the flag.
Suppressed(t) ==
  /\ ModelRows(t) = {}
  /\ thr[t].pc \in Over \/ (t \in cancelled /\ thr[t].pc \in {"call", "check", "except"})

\* The rows of processes and of other turns are no model rows of t.
LEMMA NoModelRow ==
  ASSUME JournalInv, [Next]_vars, NEW t \in Turns, ~ThreadWrite(t)
  PROVE  ModelRows(t)' = ModelRows(t)
<1>1. ASSUME NEW p \in Procs, ControlWrite(p) PROVE ModelRows(t)' = ModelRows(t)
  <2>1. /\ ctl[p].turn \in Turns /\ ctl[p].type \in ControlTypes
        /\ Insert(p, ctl[p].turn, ctl[p].type) /\ NextOrTaken(events, draft[p], ctl[p].turn)
    BY <1>1 DEF ControlWrite, JournalInv, ControlInv, DraftInv
  <2> QED BY <2>1, InsertedAnswer, Replayed
<1>2. ASSUME NEW u \in Turns \ {t}, ThreadWrite(u) PROVE ModelRows(t)' = ModelRows(t)
  <2>1. thr[u].todo \in Seq(EventTypes) /\ thr[u].todo # <<>>
    BY <1>2 DEF JournalInv, TypeOK, ControlInv, ThreadWrite, ThreadStates
  <2>2. Insert(u, u, Head(thr[u].todo)) /\ NextOrTaken(events, draft[u], u) /\ Head(thr[u].todo) \in EventTypes
    BY <1>2, <2>1 DEF ThreadWrite, JournalInv, DraftInv
  <2> QED BY <2>2, InsertedAnswer
<1>3. ASSUME NEW p \in Procs, Request(p) \/ ControlStep(p) \/ Crash(p), ~ControlWrite(p) PROVE events' = events
  BY <1>3 DEF Request, ControlStep, StartRequest, NoteRequest, CancelRequest, CreateTurn, CreateTurnWithoutText, ProbeThread,
    SignalCancel, ControlRead, ControlWriteRaises, InsertRaises, ControlFinalize, ControlFinalizeRaises, Crash
<1>4. ASSUME NEW u \in Turns, ThreadStep(u), ~ThreadWrite(u) PROVE events' = events
  BY <1>4 DEF ThreadStep, ThreadRead, ThreadWriteRaises, InsertRaises, ProviderAnswers, ProviderRaises, CheckCancelled,
    OpenProjection, CloseTurn, CloseTurnRaises, HandleException, ThreadExit
<1>5. events' = events => ModelRows(t)' = ModelRows(t)
  BY DEF ModelRows
<1>6. CASE UNCHANGED vars
  BY <1>5, <1>6 DEF vars
<1> QED BY <1>1, <1>2, <1>3, <1>4, <1>5, <1>6 DEF Next, ControlStep

\* A turn whose answer is suppressed stays so.
LEMMA SuppressedStep ==
  ASSUME JournalInv, AnswerInv, [Next]_vars, NEW t \in Turns, Suppressed(t)
  PROVE  Suppressed(t)'
<1>1. thr \in [Turns -> ThreadStates]
  BY DEF JournalInv, TypeOK
<1>2. thr[t].pc \notin {"none", "read", "write", "open", "close"}
  BY DEF Suppressed, Over
<1>3. ModelRows(t)' = {}
  <2>1. ~ThreadWrite(t)
    BY <1>2 DEF ThreadWrite
  <2> QED BY <2>1, NoModelRow DEF Suppressed
<1>4. ASSUME thr'[t] = thr[t], cancelled \subseteq cancelled' PROVE Suppressed(t)'
  BY <1>3, <1>4 DEF Suppressed
<1>5. ASSUME NEW p \in Procs, Request(p) \/ ControlStep(p) PROVE Suppressed(t)'
  <2>1. cancelled \subseteq cancelled'
    BY <1>5 DEF Request, ControlStep, StartRequest, NoteRequest, CancelRequest, CreateTurn, CreateTurnWithoutText,
      ProbeThread, SignalCancel, ControlRead, ControlWrite, ControlWriteRaises, ControlFinalize, ControlFinalizeRaises
  <2>2. CASE ControlWrite(p)
    <3>1. thr' = thr \/ (ctl[p].type = "runtime.provider.queued" /\ \E h : thr' = [thr EXCEPT ![ctl[p].turn] = h])
      BY <2>2 DEF ControlWrite
    <3>2. ctl[p].type = "runtime.provider.queued" => ctl[p].turn # t
      BY <1>2, <2>2 DEF ControlWrite, AnswerInv, OpeningInv, Opens
    <3>3. thr'[t] = thr[t]
      BY <1>1, <3>1, <3>2
    <3> QED BY <1>4, <2>1, <3>3
  <2>3. CASE ~ControlWrite(p)
    <3>1. thr' = thr
      BY <1>5, <2>3 DEF Request, ControlStep, StartRequest, NoteRequest, CancelRequest, CreateTurn, CreateTurnWithoutText,
        ProbeThread, SignalCancel, ControlRead, ControlWriteRaises, ControlFinalize, ControlFinalizeRaises
    <3> QED BY <1>4, <2>1, <3>1
  <2> QED BY <2>2, <2>3
<1>6. ASSUME NEW p \in Procs, Crash(p) PROVE Suppressed(t)'
  <2>1. CASE t \in Hosted(p)
    <3>1. thr'[t].pc = "killed"
      BY <1>6, <2>1 DEF Crash, NoThread
    <3> QED BY <1>3, <3>1 DEF Suppressed, Over
  <2>2. CASE t \notin Hosted(p)
    <3>1. thr'[t] = thr[t] /\ (t \in cancelled => t \in cancelled')
      BY <1>6, <2>2 DEF Crash
    <3> QED BY <1>3, <3>1 DEF Suppressed
  <2> QED BY <2>1, <2>2
<1>7. ASSUME NEW u \in Turns, ThreadStep(u) PROVE Suppressed(t)'
  <2>1. cancelled' = cancelled
    BY <1>7 DEF ThreadStep, ThreadRead, ThreadWrite, ThreadWriteRaises, ProviderAnswers, ProviderRaises,
      CheckCancelled, OpenProjection, CloseTurn, CloseTurnRaises, HandleException, ThreadExit
  <2>2. CASE u # t
    <3>1. \E h : thr' = [thr EXCEPT ![u] = h]
      BY <1>7 DEF ThreadStep, ThreadRead, ThreadWrite, ThreadWriteRaises, ProviderAnswers, ProviderRaises,
        CheckCancelled, OpenProjection, CloseTurn, CloseTurnRaises, HandleException, ThreadExit, Goto
    <3> QED BY <1>1, <1>4, <2>1, <2>2, <3>1
  <2>3. CASE u = t
    <3>1. ProviderAnswers(t) \/ ProviderRaises(t) \/ CheckCancelled(t) \/ HandleException(t) \/ ThreadExit(t)
      BY <1>2, <1>7, <2>3 DEF ThreadStep, ThreadRead, ThreadWrite, ThreadWriteRaises, OpenProjection, CloseTurn,
        CloseTurnRaises
    <3>2. CASE ProviderAnswers(t) \/ ProviderRaises(t)
      <4>1. thr'[t].pc \in {"check", "except"} /\ thr[t].pc = "call"
        BY <1>1, <3>2 DEF ProviderAnswers, ProviderRaises, ThreadStates
      <4> QED BY <1>3, <2>1, <4>1 DEF Suppressed, Over
    <3>3. CASE CheckCancelled(t) \/ HandleException(t) \/ ThreadExit(t)
      <4>1. thr[t].pc \in {"check", "except"} => t \in cancelled
        BY DEF Suppressed, Over
      <4>2. thr'[t].pc \in {"exit", "ended"}
        BY <1>1, <3>3, <4>1 DEF CheckCancelled, HandleException, ThreadExit, Goto, ThreadStates
      <4> QED BY <1>3, <4>2 DEF Suppressed, Over
    <3> QED BY <3>1, <3>2, <3>3
  <2> QED BY <2>2, <2>3
<1>8. CASE UNCHANGED vars
  BY <1>4, <1>8 DEF vars
<1> QED BY <1>5, <1>6, <1>7, <1>8 DEF Next

\* A cancel that is flagged while the provider call is out suppresses the whole answer for
\* good: the flag stays until the thread has ended, and no second thread is started.
THEOREM CancelSuppresses == Spec => SuppressedInFlight
<1> SUFFICES ASSUME NEW t \in Turns
             PROVE  Spec => [](InFlight(t) /\ t \in cancelled => [](ModelRows(t) = {}))
  BY DEF SuppressedInFlight
<1>1. JournalInv /\ AnswerInv /\ [Next]_vars /\ Suppressed(t) => Suppressed(t)'
  BY SuppressedStep
<1>2. AnswerInv /\ InFlight(t) /\ t \in cancelled => Suppressed(t)
  BY DEF AnswerInv, AnswerFine, Unanswered, InFlight, Suppressed
<1>3. Suppressed(t) => ModelRows(t) = {}
  BY DEF Suppressed
<1> QED BY <1>1, <1>2, <1>3, AnswerInvariant, JournalInvariant, PTL DEF Spec

=============================================================================
