--------------------------- MODULE MCToolApproval ---------------------------
(* A small instance of ToolApproval for TLC.                               *)
EXTENDS ToolApproval, TLC

CONSTANTS c1, alice

\* alice's own call, and one that carries no actor
MCRequester == [c \in Calls |-> IF c = c1 THEN alice ELSE Nobody]

\* c1 is matched by its server's slug only, c2 by its tool name
MCMatchedBy == [c \in Calls |-> IF c = c1 THEN "name" ELSE "id"]

\* Replicas and decision requests are interchangeable.
Symmetry == Permutations(Replicas) \cup Permutations(Decisions)
=============================================================================
