---------------------------- MODULE BoundedFifo ----------------------------
(***************************************************************************)
(* What a process's IO event queue promises its users: a FIFO of at most   *)
(* Capacity events in which a push on a full queue discards the oldest     *)
(* event, never the new one.  There are no indices, counters or guards     *)
(* here.  The memory of the kernel is not protected, so the promise says   *)
(* also what is left of it after a fault: the content may be anything, but *)
(* the queue is a FIFO again from then on, or is refused altogether.       *)
(* EventQueue is shown to implement this module.                           *)
(***************************************************************************)
EXTENDS Naturals, Sequences

CONSTANTS Capacity,   \* MAX_EVENT_QUEUE_SIZE
          Event,      \* the events that can be queued
          Payload     \* Event and the content of a cleared slot

VARIABLES fifo,       \* the queued events, oldest first
          usable,     \* the owner of the queue is recognised as a process
          last        \* the last operation and its answer

fifoVars == <<fifo, usable, last>>

FifoInit ==
    /\ fifo = << >>
    /\ usable = TRUE
    /\ last = <<"start">>

\* A full queue makes room by forgetting its oldest event.
FifoPush(e) ==
    /\ usable
    /\ fifo' = Append(IF Len(fifo) = Capacity THEN Tail(fifo) ELSE fifo, e)
    /\ last' = <<"push", e>>
    /\ UNCHANGED usable

FifoPop ==
    /\ usable /\ fifo # << >>
    /\ last' = <<"pop", Head(fifo)>>
    /\ fifo' = Tail(fifo)
    /\ UNCHANGED usable

FifoPopEmpty ==
    /\ usable => fifo = << >>
    /\ last' = <<"empty">>
    /\ UNCHANGED <<fifo, usable>>

FifoPushRefused ==
    /\ ~usable
    /\ last' = <<"refused">>
    /\ UNCHANGED <<fifo, usable>>

FifoFault ==
    /\ fifo' \in Seq(Payload) /\ Len(fifo') <= Capacity
    /\ usable' \in {usable, FALSE}
    /\ last' = <<"fault">>

FifoNext ==
    \/ \E e \in Event : FifoPush(e)
    \/ FifoPop
    \/ FifoPopEmpty
    \/ FifoPushRefused
    \/ FifoFault

FifoSpec == FifoInit /\ [][FifoNext]_fifoVars
=============================================================================
