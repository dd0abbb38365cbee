---------------------------- MODULE MCEventQueue ----------------------------
(***************************************************************************)
(* EventQueue on a ring of three slots: it fills, wraps around and drops.  *)
(***************************************************************************)
EXTENDS EventQueue

\* Counter values beyond the ring on both sides, and every value inside it.
MCGarbage == -2 .. 5
=============================================================================
