----------------------------- MODULE Deployment -----------------------------
(***************************************************************************)
(* What the parts of a starting gateway have in common: its replicas, all  *)
(* alike, over one database.                                               *)
(***************************************************************************)
CONSTANT Replicas
=============================================================================
