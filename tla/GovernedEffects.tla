---------------------------- MODULE GovernedEffects ----------------------------
(***************************************************************************)
(* What the governed coding runtime promises about the workspace,          *)
(* whatever the provider asks for, however its worker behaves and whoever  *)
(* else works on the files:                                                *)
(*   - an operation puts a file where there was none, at most once, only   *)
(*     while it is unsettled and only when it is authorized;               *)
(*   - it is settled at most once, for good, and as EXECUTED only if it    *)
(*     did what it was asked for;                                          *)
(*   - files change in no other way, except by the hands of their users.   *)
(***************************************************************************)
CONSTANTS
  Operations, Paths,
  Nobody,          \* the owner of a path where there is no file
  User,            \* the owner of a file no operation made
  Statuses         \* of a settled operation

VARIABLES
  owner,           \* per path: Nobody, User or the operation that made the file
  settled,         \* per operation: its status, or "open"
  asked,           \* per operation: Nothing, Look, or a file to make
  made,            \* per operation: it has made its file
  permitted        \* what the policy of the session allows: looking, making, or both

effects == <<owner, settled, asked, made, permitted>>

Nothing == [kind |-> "nothing", path |-> Nobody]
Look == [kind |-> "look", path |-> Nobody]
File(p) == [kind |-> "make", path |-> p]

EInit ==
  /\ owner \in [Paths -> {Nobody, User}]
  /\ settled = [o \in Operations |-> "open"]
  /\ asked = [o \in Operations |-> Nothing]
  /\ made = [o \in Operations |-> FALSE]
  /\ permitted \in SUBSET {"look", "make"}

\* The operation is asked for and authorized; what it is asked for stays.
Grant(o, what) ==
  /\ settled[o] = "open" /\ asked[o] = Nothing
  /\ what.kind \in permitted
  /\ asked' = [asked EXCEPT ![o] = what]
  /\ UNCHANGED <<owner, settled, made, permitted>>

Make(o, p) ==
  /\ settled[o] = "open" /\ asked[o] = File(p) /\ ~made[o]
  /\ owner[p] = Nobody
  /\ owner' = [owner EXCEPT ![p] = o]
  /\ made' = [made EXCEPT ![o] = TRUE]
  /\ UNCHANGED <<settled, asked, permitted>>

Settle(o, st) ==
  /\ settled[o] = "open"
  /\ st = "EXECUTED" => asked[o] = Look \/ (asked[o].kind = "make" /\ made[o])
  /\ settled' = [settled EXCEPT ![o] = st]
  /\ UNCHANGED <<owner, asked, made, permitted>>

UserWorks(p, who) ==
  /\ who \in {Nobody, User}
  /\ owner' = [owner EXCEPT ![p] = who]
  /\ UNCHANGED <<settled, asked, made, permitted>>

ENext ==
  \/ \E o \in Operations :
       \/ \E what \in {Look} \cup {File(p) : p \in Paths} : Grant(o, what)
       \/ \E p \in Paths : Make(o, p)
       \/ \E st \in Statuses : Settle(o, st)
  \/ \E p \in Paths, who \in {Nobody, User} : UserWorks(p, who)

ESpec == EInit /\ [][ENext]_effects
=============================================================================
