------------------------------ MODULE MCRegistry ------------------------------
(* A small instance of Registry for TLC.                                   *)
EXTENDS Registry, TLC

Symmetry == Permutations(Replicas) \cup Permutations(Defs) \cup Permutations(Jobs)
=============================================================================
