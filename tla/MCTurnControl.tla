---------------------------- MODULE MCTurnControl ----------------------------
(* Finite instances of TurnControl. *)
EXTENDS TurnControl, TLC

CONSTANTS p1, p2, t1, t2

\* Every shape of answer the adapter has: the error alone, a response with no
\* message, the four finish reasons, a tool call without a call identity
\* (its error may be followed by the usage row).
AllAnswers ==
  {<<"model.error">>,
   <<"model.turn.started", "model.error">>,
   <<"model.turn.started", "model.message.completed", "model.usage.updated", "model.turn.completed">>,
   <<"model.turn.started", "model.turn.incomplete">>,
   <<"model.turn.started", "model.turn.refused">>,
   <<"model.turn.started", "model.turn.requires_tool">>,
   <<"model.turn.started", "model.error", "model.usage.updated">>}

\* A two-row answer and the error alone.
FewAnswers == {<<"model.turn.started", "model.turn.completed">>, <<"model.error">>}

Steer == {"turn.steering.received"}
=============================================================================
