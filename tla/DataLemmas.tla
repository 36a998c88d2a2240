---------------------------- MODULE DataLemmas ----------------------------
(***************************************************************************)
(* The facts about finite sets of naturals and about sequences of anything *)
(* that the proofs of several components need.                             *)
(***************************************************************************)
EXTENDS Naturals, Sequences, FiniteSets, FiniteSetsExt, FiniteSetTheorems, WellFoundedInduction, TLAPS

\* A finite set of naturals that is not empty has a greatest element.
LEMMA MaxExists ==
  ASSUME NEW S \in SUBSET Nat, IsFiniteSet(S), S # {}
  PROVE  Max(S) \in S /\ \A y \in S : Max(S) >= y
<1> DEFINE Above(x) == {y \in S : y > x}
           F == {Above(x) : x \in S}
<1>1. F \subseteq FiniteSubsetsOf(S) /\ F # {}
  <2>1. \A x \in S : Above(x) \subseteq S /\ IsFiniteSet(Above(x))
    <3> TAKE x \in S
    <3>1. Above(x) \subseteq S
      OBVIOUS
    <3> QED BY <3>1, FS_Subset
  <2>2. \A x \in S : Above(x) \in FiniteSubsetsOf(S)
    BY <2>1, Zenon DEF FiniteSubsetsOf
  <2> QED BY <2>2
<1>2. IsWellFoundedOn(StrictSubsetOrdering(S), FiniteSubsetsOf(S))
  BY FS_StrictSubsetOrderingWellFounded
<1> HIDE DEF F
<1>3. PICK T \in F : \A U \in F : ~(<<U, T>> \in StrictSubsetOrdering(S))
  BY <1>1, <1>2, WFMin
<1>4. PICK x \in S : T = Above(x)
  BY <1>3 DEF F
<1>5. \A y \in S : x >= y
  <2> SUFFICES ASSUME NEW y \in S, y > x PROVE FALSE
    OBVIOUS
  <2>1. Above(y) \in F
    BY DEF F
  <2>2. Above(y) \subseteq Above(x) /\ y \in Above(x) /\ y \notin Above(y)
    <3>1. \A z \in S : z > y => z > x
      OBVIOUS
    <3>2. ~(y > y)
      OBVIOUS
    <3> QED BY <3>1, <3>2
  <2>3. <<Above(y), Above(x)>> \in StrictSubsetOrdering(S)
    <3>1. Above(y) \in SUBSET S /\ Above(x) \in SUBSET S /\ Above(y) # Above(x)
      BY <2>2
    <3> HIDE DEF Above
    <3> QED BY <2>2, <3>1 DEF StrictSubsetOrdering
  <2> QED BY <2>1, <2>3, <1>3, <1>4
<1> QED BY <1>5 DEF Max

-----------------------------------------------------------------------------
(* Sequences of anything *)

IsSequence(s) == \E S : s \in Seq(S)

\* The empty sequence.
LEMMA NoElements == IsSequence(<< >>) /\ Len(<< >>) = 0 /\ DOMAIN << >> = {}
<1>1. << >> \in Seq({})
  OBVIOUS
<1> QED BY <1>1 DEF IsSequence

\* The domain of a sequence.
LEMMA LenOf ==
  ASSUME NEW s, IsSequence(s)
  PROVE  Len(s) \in Nat /\ DOMAIN s = 1..Len(s)
<1>1. PICK S : s \in Seq(S)
  BY DEF IsSequence
<1> QED BY <1>1

\* What Append does.
LEMMA AppendDoes ==
  ASSUME NEW s, IsSequence(s), NEW e
  PROVE  /\ IsSequence(Append(s, e))
         /\ Len(Append(s, e)) = Len(s) + 1 /\ Len(s) \in Nat
         /\ DOMAIN s = 1..Len(s) /\ DOMAIN Append(s, e) = 1..(Len(s) + 1)
         /\ \A i \in DOMAIN s : i \in DOMAIN Append(s, e) /\ Append(s, e)[i] = s[i]
         /\ Append(s, e)[Len(s) + 1] = e
<1>1. PICK S : s \in Seq(S)
  BY DEF IsSequence
<1>2. PICK T : T = S \cup {e}
  OBVIOUS
<1>3. s \in Seq(T) /\ e \in T
  BY <1>1, <1>2
<1>4. Append(s, e) \in Seq(T) /\ Len(Append(s, e)) = Len(s) + 1 /\ Len(s) \in Nat /\ DOMAIN s = 1..Len(s)
  BY <1>3
<1>5. \A i \in DOMAIN s : i \in DOMAIN Append(s, e) /\ Append(s, e)[i] = s[i]
  BY <1>3
<1>6. Append(s, e)[Len(s) + 1] = e
  BY <1>3
<1> QED BY <1>4, <1>5, <1>6 DEF IsSequence

\* A sequence in which one element is another.
LEMMA ReplaceDoes ==
  ASSUME NEW s, IsSequence(s), NEW w \in DOMAIN s, NEW e
  PROVE  /\ IsSequence([s EXCEPT ![w] = e]) /\ Len([s EXCEPT ![w] = e]) = Len(s)
         /\ DOMAIN [s EXCEPT ![w] = e] = DOMAIN s
         /\ \A i \in DOMAIN s : [s EXCEPT ![w] = e][i] = IF i = w THEN e ELSE s[i]
<1>1. PICK S : s \in Seq(S)
  BY DEF IsSequence
<1>2. PICK T : T = S \cup {e}
  OBVIOUS
<1>3. s \in Seq(T) /\ e \in T
  BY <1>1, <1>2
<1>4. [s EXCEPT ![w] = e] \in Seq(T)
  BY <1>3
<1> QED BY <1>3, <1>4 DEF IsSequence
=============================================================================
