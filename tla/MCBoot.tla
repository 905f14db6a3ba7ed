------------------------------- MODULE MCBoot -------------------------------
(* Small instances of Boot for TLC.                                        *)
EXTENDS Boot

CONSTANTS vault

\* Nothing there, the bootstrap's tables, and hook chains from before overlays.
AnyDatabase ==
  { [legacy |-> FALSE, done |-> 0, rows |-> {}],
    [legacy |-> TRUE, done |-> 0, rows |-> {}],
    [legacy |-> FALSE, done |-> 7, rows |-> {"global"}] }

\* A KMS is adopted.
Adoption == { <<NoKey, vault>> }
=============================================================================
