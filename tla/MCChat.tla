------------------------------- MODULE MCChat -------------------------------
(* One page over three conversations, one of them created on it, and one turn. *)
EXTENDS ChatView

MCTurns == 1..1
=============================================================================
