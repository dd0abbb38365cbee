---------------------------- MODULE MCScheduler ----------------------------
(***************************************************************************)
(* Scheduler on two table slots and up to three pids: the table fills up,  *)
(* the foreground stack and the event queues reach their limits, a process *)
(* is started that finds no slot.  The cfg files of this module differ in  *)
(* the properties they check and in MAX_PID.                               *)
(***************************************************************************)
EXTENDS Scheduler
=============================================================================
