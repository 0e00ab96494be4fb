-------------------------- MODULE MCSchedulerDaemon --------------------------
(***************************************************************************)
(* Instances of SchedulerDaemon for TLC.  Start commands differ in whose   *)
(* pids are reused and whose identities are unreadable, and the run checks *)
(* liveness: there is no symmetry to use.                                  *)
(***************************************************************************)
EXTENDS SchedulerDaemon
=============================================================================
