---------------------------- MODULE MCOAuthServer ----------------------------
(* A small instance of OAuthServer for TLC.                                *)
EXTENDS OAuthServer, TLC

Symmetry == Permutations(Requests)
=============================================================================
