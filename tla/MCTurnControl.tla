--------------------------- MODULE MCTurnControl ---------------------------
(* TurnControl on small instances. *)
EXTENDS TurnControl
=============================================================================
