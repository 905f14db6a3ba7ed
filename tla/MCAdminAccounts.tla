-------------------------- MODULE MCAdminAccounts --------------------------
(* A small instance of AdminAccounts for TLC.                              *)
EXTENDS AdminAccounts, TLC

Symmetry == Permutations(Requests)
=============================================================================
