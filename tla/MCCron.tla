------------------------------- MODULE MCCron -------------------------------
(***************************************************************************)
(* CronService with the constants of a small instance.  The expression     *)
(* ticks at every second instant; period 0 stands for every schedule that  *)
(* computeNextRun turns down.                                              *)
(***************************************************************************)
EXTENDS CronService

MCPeriods == {0, 1}

MCCronExprs == {2}

MCNextTick(e, t) == ((t \div e) + 1) * e

=============================================================================
