------------------------------- MODULE MCHeap -------------------------------
(***************************************************************************)
(* Heap with the 32-bit word as the unit: a header of 3 and an alignment   *)
(* of 4, as in the code, on a heap of a few blocks.  Request holds a size  *)
(* for one and for two alignment units and the largest that does not wrap  *)
(* around.                                                                 *)
(***************************************************************************)
EXTENDS Heap
=============================================================================
