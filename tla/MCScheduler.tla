----------------------------- MODULE MCScheduler -----------------------------
(* Small instances of Scheduler for TLC. *)
EXTENDS Scheduler

NoCalls == {}
StopCalls == {"remove"}
ShutdownCalls == {"remove", "shutdown"}
=============================================================================
