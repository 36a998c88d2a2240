---------------------------- MODULE MCWorkspaceIndex ----------------------------
(***************************************************************************)
(* Two traces over two roots with a file each, and users who edit and      *)
(* delete them; a text that was there before may come back.                *)
(***************************************************************************)
EXTENDS LoneTraces

MCRoots == <<{"a"}, {"b"}>>
Text(n) == [kind |-> "text", edition |-> n]
Other(kind) == [kind |-> kind, edition |-> 0]
MCWritings == {<<"a", Text(0)>>, <<"a", Text(1)>>, <<"b", Text(1)>>}
MCFirstDisks ==
  {[f \in {"a", "b"} |-> IF f = "a" THEN Text(0) ELSE c] : c \in {Absent, Other("huge"), Other("locked")}}
=============================================================================
