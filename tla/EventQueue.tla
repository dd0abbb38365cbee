----------------------------- MODULE EventQueue -----------------------------
(***************************************************************************)
(* The IO event queue of one process (struct EventQueue in process.h, the  *)
(* functions of process.cpp): a ring of MAX_EVENT_QUEUE_SIZE slots with a  *)
(* head (next slot to write), a tail (next slot to read) and a redundant   *)
(* count, bracketed by two guard words.  push_io_event and pop_io_event    *)
(* run with interrupts disabled (irq_save / irq_restore), so each is one   *)
(* atomic action; both begin with ensure_event_queue_integrity, which      *)
(* repairs counters that some other code has overwritten.  Fault is that   *)
(* other code: the guard words, the magic word and the repair exist for it.*)
(***************************************************************************)
EXTENDS Integers, Sequences

CONSTANTS MAX_EVENT_QUEUE_SIZE,
          Event,       \* events pushed by the interrupt handlers
          ZeroEvent,   \* IOEvent{}, the content of a cleared slot
          Garbage      \* the integers a fault may leave in a counter

ASSUME SizeAssumption == MAX_EVENT_QUEUE_SIZE \in Nat \ {0}
ASSUME GarbageAssumption == Garbage \subseteq Int

VARIABLES queue, head, tail, count,
          guard,       \* both guard words hold EVENT_QUEUE_GUARD
          magic,       \* the process's magic word holds PROCESS_MAGIC
          last         \* the last operation and its answer

vars == <<queue, head, tail, count, guard, magic, last>>

N == MAX_EVENT_QUEUE_SIZE
Slots == 0 .. (N - 1)
Payload == Event \cup {ZeroEvent}

-----------------------------------------------------------------------------
(* ensure_event_queue_integrity                                            *)

\* C's remainder is only ever applied to a non-negative operand here.
normalize_index(value) ==
    IF value < 0 THEN (N - ((-value) % N)) % N ELSE value % N

\* Mutant: the upper bound is off by one.
RepairedIndex_OffByOne(i) == IF i < 0 \/ i > N THEN normalize_index(i) ELSE i

RepairedIndex(i) == IF i < 0 \/ i >= N THEN normalize_index(i) ELSE i

Distance(h, t) == IF h - t < 0 THEN h - t + N ELSE h - t

\* Mutant: a full queue is taken for an inconsistent one.
RepairedCount_FullIsError(h, t, c) == Distance(h, t)

\* Mutant: an out-of-range count is believed to be an empty queue.
RepairedCount_ZeroWins(h, t, c) == IF c < 0 \/ c > N THEN 0 ELSE c

\* h and t are already repaired: the code checks the count last.
RepairedCount(h, t, c) ==
    LET inRange == IF c < 0 \/ c > N THEN 0 ELSE c
        d == Distance(h, t)
        agreed == IF inRange # d /\ inRange # N THEN d ELSE inRange
    IN  IF agreed = N /\ d # 0 THEN d ELSE agreed

\* The queue the operation proper works on.  A broken guard word means the
\* whole queue is cleared (reset_event_queue).
SafeHead  == IF guard THEN RepairedIndex(head) ELSE 0
SafeTail  == IF guard THEN RepairedIndex(tail) ELSE 0
SafeCount == IF guard THEN RepairedCount(SafeHead, SafeTail, count) ELSE 0

\* Mutant: the clearing loop of reset_event_queue runs one slot too far.
SafeQueue_Overrun == IF guard THEN queue ELSE [i \in 0 .. N |-> ZeroEvent]

SafeQueue == IF guard THEN queue ELSE [i \in Slots |-> ZeroEvent]

-----------------------------------------------------------------------------
(* The operations                                                          *)

\* k_start_process zeroes the struct and sets the guards and the magic.
Init ==
    /\ queue = [i \in Slots |-> ZeroEvent]
    /\ head = 0 /\ tail = 0 /\ count = 0
    /\ guard = TRUE
    /\ magic = TRUE
    /\ last = <<"start">>

Advance(i) == (i + 1) % N

\* Mutant: the drop-oldest branch is taken one event too late, that is never.
DropOldest_Never == SafeCount > N

DropOldest == SafeCount = N

push_io_event(e) ==
    /\ magic
    /\ queue' = [SafeQueue EXCEPT ![SafeHead] = e]
    /\ head' = Advance(SafeHead)
    /\ tail' = IF DropOldest THEN Advance(SafeTail) ELSE SafeTail
    /\ count' = IF DropOldest THEN SafeCount ELSE SafeCount + 1
    /\ guard' = TRUE
    /\ last' = <<"push", e>>
    /\ UNCHANGED magic

pop_io_event ==
    /\ magic /\ SafeCount # 0
    /\ tail' = Advance(SafeTail)
    /\ count' = SafeCount - 1
    /\ last' = <<"pop", SafeQueue[SafeTail]>>
    /\ queue' = SafeQueue /\ head' = SafeHead /\ guard' = TRUE
    /\ UNCHANGED magic

\* The repair is written back also when the queue turns out to be empty.
pop_io_event_empty ==
    /\ magic /\ SafeCount = 0
    /\ tail' = SafeTail
    /\ count' = SafeCount
    /\ last' = <<"empty">>
    /\ queue' = SafeQueue /\ head' = SafeHead /\ guard' = TRUE
    /\ UNCHANGED magic

\* process_is_valid fails: push and pop return at once and repair nothing.
invalid_process_access ==
    /\ ~magic
    /\ last' \in {<<"empty">>, <<"refused">>}
    /\ UNCHANGED <<queue, head, tail, count, guard, magic>>

Operation ==
    \/ \E e \in Event : push_io_event(e)
    \/ pop_io_event
    \/ pop_io_event_empty

\* Code outside the queue overwrites a word of the struct; several faults may
\* follow each other.  The slots' payload is not checked by anything and is
\* left alone.
Fault ==
    /\ \/ \E g \in Garbage : head' = g /\ UNCHANGED <<tail, count, guard, magic>>
       \/ \E g \in Garbage : tail' = g /\ UNCHANGED <<head, count, guard, magic>>
       \/ \E g \in Garbage : count' = g /\ UNCHANGED <<head, tail, guard, magic>>
       \/ guard' = FALSE /\ UNCHANGED <<head, tail, count, magic>>
       \/ magic' = FALSE /\ UNCHANGED <<head, tail, count, guard>>
    /\ last' = <<"fault">>
    /\ UNCHANGED queue

Next == Operation \/ invalid_process_access \/ Fault

Spec == Init /\ [][Next]_vars

-----------------------------------------------------------------------------
(* Properties                                                              *)

Answer == {<<"start">>, <<"empty">>, <<"refused">>, <<"fault">>}
            \cup ({"push"} \X Event) \cup ({"pop"} \X Payload)

\* The struct's fields (struct EventQueue, process.h): a fault may leave any
\* int in a counter, the slots hold events or zeroes.
TypeOK ==
    /\ queue \in [Slots -> Payload]
    /\ head \in Int /\ tail \in Int /\ count \in Int
    /\ guard \in BOOLEAN
    /\ magic \in BOOLEAN
    /\ last \in Answer

\* The redundant count agrees with the indices.  head = tail is ambiguous in a
\* ring: the queue is full or empty, and only the count tells which.
Consistent(h, t, c) ==
    /\ h \in Slots /\ t \in Slots
    /\ \/ c = Distance(h, t)
       \/ c = N /\ h = t

\* push_io_event and pop_io_event leave the count and the indices in step,
\* across wrap-around and the drop-oldest branch, and whatever values a fault
\* left in them before the call.
RepairRestores ==
    [][Operation => Consistent(head', tail', count') /\ guard']_vars

\* ensure_event_queue_integrity leaves a consistent queue alone: a false alarm
\* would change the count and silently lose or replay events.
RepairIsQuiet ==
    Consistent(head, tail, count) /\ guard =>
        SafeHead = head /\ SafeTail = tail /\ SafeCount = count

\* Overwriting the count alone loses no event of a queue that is not full: the
\* repair recomputes it from the indices.  (The one value it cannot tell from
\* a legal one is MAX_EVENT_QUEUE_SIZE while the queue is empty.)
CountIsRecovered ==
    Consistent(head, tail, count) /\ count < N =>
        \A c \in Garbage :
            (c = N /\ head = tail) \/ RepairedCount(head, tail, c) = count

\* The c events from slot t on, oldest first.
RingSeq(q, t, c) == [i \in 1 .. c |-> q[(t + i - 1) % N]]

\* The ring as the next operation will see it.
Contents == RingSeq(SafeQueue, SafeTail, SafeCount)

Fifo == INSTANCE BoundedFifo WITH Capacity <- MAX_EVENT_QUEUE_SIZE,
                                  fifo <- Contents, usable <- magic

\* The ring implements the drop-oldest FIFO: every pop answers what the
\* abstract queue answers, also after the repair of a corrupted struct.
ImplementsFifo == Fifo!FifoSpec
=============================================================================
