---------------------------- MODULE MCScheduler ----------------------------
(* Small instances of Scheduler for TLC.                                   *)
EXTENDS Scheduler, TLC

CONSTANTS s1, s2

Hourly == [kind |-> "cron", n |-> 2]
OneOff == [kind |-> "once", n |-> 2]

\* A recurring schedule and a one-off, due together once the clock is at 2.
OneOfEach == s1 :> {Hourly} @@ s2 :> {OneOff}
=============================================================================
