-------------------------- MODULE EventQueueProofs --------------------------
(***************************************************************************)
(* Theorems about EventQueue for every MAX_EVENT_QUEUE_SIZE > 0, every set *)
(* of events and every set of integers a fault may leave in a counter.     *)
(***************************************************************************)
EXTENDS EventQueue, SequenceTheorems, TLAPS

-----------------------------------------------------------------------------
(* Arithmetic of the ring                                                  *)

\* Index sums of the ring stay below twice its size, where % is one subtraction.
LEMMA ModWrap ==
  ASSUME NEW a \in Int, 0 <= a, a < 2 * N
  PROVE  a % N = IF a < N THEN a ELSE a - N
BY SizeAssumption DEF N

\* normalize_index maps every int into the ring.
LEMMA RepairedIndexRange ==
  ASSUME NEW i \in Int
  PROVE  RepairedIndex(i) \in Slots
BY SizeAssumption DEF RepairedIndex, normalize_index, N, Slots

\* The count that ensure_event_queue_integrity settles on agrees with indices
\* that are in range, whatever the count was.
LEMMA RepairedCountConsistent ==
  ASSUME NEW h \in Slots, NEW t \in Slots, NEW c \in Int
  PROVE  Consistent(h, t, RepairedCount(h, t, c))
BY SizeAssumption DEF Consistent, RepairedCount, Distance, N, Slots

\* A consistent queue passes through the repair unchanged.
LEMMA RepairKeepsConsistent ==
  ASSUME NEW h, NEW t, NEW c, Consistent(h, t, c)
  PROVE  /\ RepairedIndex(h) = h
         /\ RepairedIndex(t) = t
         /\ RepairedCount(h, t, c) = c
<1>1. h \in 0 .. (N - 1) /\ t \in 0 .. (N - 1) /\ N \in Int
  BY SizeAssumption DEF Consistent, Slots, N
<1>2. RepairedIndex(h) = h /\ RepairedIndex(t) = t
  BY <1>1 DEF RepairedIndex
<1> DEFINE d == Distance(h, t)
<1>3. d \in 0 .. (N - 1) /\ (h = t => d = 0)
  BY <1>1 DEF Distance
<1>4. c = d \/ (c = N /\ d = 0)
  BY <1>3 DEF Consistent
<1>5. RepairedCount(h, t, c) =
        LET inRange == IF c < 0 \/ c > N THEN 0 ELSE c
            agreed == IF inRange # d /\ inRange # N THEN d ELSE inRange
        IN  IF agreed = N /\ d # 0 THEN d ELSE agreed
  BY DEF RepairedCount
<1> HIDE DEF d
<1>6. c \in Int /\ d \in Int /\ N \in Int /\ 0 <= c /\ c <= N /\ d < N
  BY <1>1, <1>3, <1>4
<1>7. RepairedCount(h, t, c) = c
  BY <1>4, <1>5, <1>6
<1>8. QED
  BY <1>2, <1>7

\* What a push does to consistent counters, wrap-around and drop included.
LEMMA PushConsistent ==
  ASSUME NEW h, NEW t, NEW c, Consistent(h, t, c)
  PROVE  Consistent(Advance(h), IF c = N THEN Advance(t) ELSE t,
                    IF c = N THEN c ELSE c + 1)
<1>1. h \in Int /\ 0 <= h + 1 /\ h + 1 < 2 * N /\ t \in Int /\ 0 <= t + 1 /\ t + 1 < 2 * N
  BY SizeAssumption DEF Consistent, Slots, N
<1>2. Advance(h) = (IF h + 1 < N THEN h + 1 ELSE 0) /\ Advance(t) = (IF t + 1 < N THEN t + 1 ELSE 0)
  BY <1>1, ModWrap, SizeAssumption DEF Advance, Consistent, Slots, N
<1>3. QED
  BY <1>2, SizeAssumption DEF Consistent, Distance, N, Slots

\* What a pop does to consistent counters of a queue that is not empty.
LEMMA PopConsistent ==
  ASSUME NEW h, NEW t, NEW c, Consistent(h, t, c), c # 0
  PROVE  Consistent(h, Advance(t), c - 1)
<1>1. t \in Int /\ 0 <= t + 1 /\ t + 1 < 2 * N
  BY SizeAssumption DEF Consistent, Slots, N
<1>2. Advance(t) = (IF t + 1 < N THEN t + 1 ELSE 0)
  BY <1>1, ModWrap, SizeAssumption DEF Advance, Consistent, Slots, N
<1>3. QED
  BY <1>2, SizeAssumption DEF Consistent, Distance, N, Slots

\* A consistent count is a number of slots (ensure_event_queue_integrity).
LEMMA ConsistentCount ==
  ASSUME NEW h, NEW t, NEW c, Consistent(h, t, c)
  PROVE  h \in Slots /\ t \in Slots /\ c \in 0 .. N
BY SizeAssumption DEF Consistent, Distance, N, Slots

\* The view of the queue every operation works on is consistent.
LEMMA SafeIsConsistent ==
  ASSUME TypeOK
  PROVE  /\ Consistent(SafeHead, SafeTail, SafeCount)
         /\ SafeQueue \in [Slots -> Payload]
<1>1. CASE guard
  <2>1. SafeHead = RepairedIndex(head) /\ SafeTail = RepairedIndex(tail)
        /\ SafeCount = RepairedCount(SafeHead, SafeTail, count) /\ SafeQueue = queue
    BY <1>1 DEF SafeHead, SafeTail, SafeCount, SafeQueue
  <2>2. SafeHead \in Slots /\ SafeTail \in Slots
    BY <2>1, RepairedIndexRange DEF TypeOK
  <2>3. QED
    BY <2>1, <2>2, RepairedCountConsistent DEF TypeOK
<1>2. CASE ~guard
  <2>1. SafeHead = 0 /\ SafeTail = 0 /\ SafeCount = 0 /\ SafeQueue = [i \in Slots |-> ZeroEvent]
    BY <1>2 DEF SafeHead, SafeTail, SafeCount, SafeQueue
  <2>2. Consistent(0, 0, 0)
    BY SizeAssumption DEF Consistent, Distance, Slots, N
  <2>3. QED
    BY <2>1, <2>2 DEF Payload
<1>3. QED
  BY <1>1, <1>2

-----------------------------------------------------------------------------
(* Type correctness                                                        *)

\* What an operation leaves behind: consistent counters and whole guards.
LEMMA OperationRestores ==
  ASSUME TypeOK, Operation
  PROVE  /\ Consistent(head', tail', count') /\ guard' = TRUE
         /\ queue' \in [Slots -> Payload]
         /\ last' \in Answer
         /\ magic' = magic
<1> USE SafeIsConsistent
<1>1. CASE \E e \in Event : push_io_event(e)
  <2>1. PICK e \in Event : push_io_event(e)
    BY <1>1
  <2>2. Consistent(head', tail', count')
    BY <2>1, PushConsistent DEF push_io_event, DropOldest
  <2>3. queue' \in [Slots -> Payload]
    BY <2>1 DEF push_io_event, Payload
  <2>4. QED
    BY <2>1, <2>2, <2>3 DEF push_io_event, Answer
<1>2. CASE pop_io_event
  <2>1. Consistent(head', tail', count')
    BY <1>2, PopConsistent DEF pop_io_event
  <2>2. SafeQueue[SafeTail] \in Payload
    BY ConsistentCount
  <2>3. QED
    BY <1>2, <2>1, <2>2 DEF pop_io_event, Answer
<1>3. CASE pop_io_event_empty
  BY <1>3 DEF pop_io_event_empty, Answer
<1>4. QED
  BY <1>1, <1>2, <1>3 DEF Operation

\* The struct keeps its types: in particular every slot read by pop_io_event is
\* a slot of the ring and holds an event or zeroes.
THEOREM TypeCorrect == Spec => []TypeOK
<1>1. Init => TypeOK
  BY SizeAssumption DEF Init, TypeOK, Payload, Answer
<1>2. TypeOK /\ [Next]_vars => TypeOK'
  <2> SUFFICES ASSUME TypeOK, [Next]_vars PROVE TypeOK'
    OBVIOUS
  <2>1. CASE Operation
    <3>1. head' \in Int /\ tail' \in Int /\ count' \in Int
      BY <2>1, OperationRestores, ConsistentCount, SizeAssumption DEF Slots, N
    <3>2. QED
      BY <2>1, <3>1, OperationRestores DEF TypeOK
  <2>2. CASE invalid_process_access
    BY <2>2 DEF invalid_process_access, TypeOK, Answer
  <2>3. CASE Fault
    BY <2>3, GarbageAssumption DEF Fault, TypeOK, Answer
  <2>4. CASE UNCHANGED vars
    BY <2>4 DEF vars, TypeOK
  <2>5. QED
    BY <2>1, <2>2, <2>3, <2>4 DEF Next
<1>3. QED
  BY <1>1, <1>2, PTL DEF Spec

-----------------------------------------------------------------------------
(* The repair                                                              *)

\* After one push or pop the queue is consistent, whatever the counters were.
THEOREM RepairRestoresAlways == Spec => RepairRestores
<1>1. TypeOK /\ [Next]_vars => [Operation => Consistent(head', tail', count') /\ guard']_vars
  BY OperationRestores
<1>2. QED
  BY <1>1, TypeCorrect, PTL DEF Spec, RepairRestores

\* The repair never fires on a queue that no fault has touched.
THEOREM RepairIsQuietAlways == Spec => []RepairIsQuiet
<1>1. TypeOK => RepairIsQuiet
  BY RepairKeepsConsistent DEF RepairIsQuiet, SafeHead, SafeTail, SafeCount
<1>2. QED
  BY <1>1, TypeCorrect, PTL

\* A count overwritten on its own is recovered from the indices.
THEOREM CountIsRecoveredAlways == Spec => []CountIsRecovered
<1>1. TypeOK => CountIsRecovered
  BY SizeAssumption, GarbageAssumption
  DEF CountIsRecovered, Consistent, RepairedCount, Distance, Slots, N
<1>2. QED
  BY <1>1, TypeCorrect, PTL

-----------------------------------------------------------------------------
(* The ring is a sequence                                                  *)

\* Slot of the i-th oldest event: one conditional subtraction.
LEMMA SlotOf ==
  ASSUME NEW t \in Slots, NEW i \in 1 .. N
  PROVE  (t + i - 1) % N = IF t + i - 1 < N THEN t + i - 1 ELSE t + i - 1 - N
<1> DEFINE a == t + i - 1
<1>1. a \in Int /\ 0 <= a /\ a < 2 * N
  BY SizeAssumption DEF Slots, N
<1>2. a % N = IF a < N THEN a ELSE a - N
  <2> HIDE DEF a
  <2> QED BY <1>1, ModWrap
<1>3. QED
  BY <1>2, SizeAssumption DEF Slots, N

\* The events of a ring are a sequence of as many payloads.
LEMMA RingSeqType ==
  ASSUME NEW q \in [Slots -> Payload], NEW t \in Slots, NEW c \in 0 .. N
  PROVE  /\ RingSeq(q, t, c) \in Seq(Payload)
         /\ Len(RingSeq(q, t, c)) = c
         /\ \A i \in 1 .. c : RingSeq(q, t, c)[i] = q[(t + i - 1) % N]
<1>1. \A i \in 1 .. c : (t + i - 1) % N \in Slots
  BY SlotOf, SizeAssumption DEF Slots, N
<1>2. \A i \in 1 .. c : q[(t + i - 1) % N] \in Payload
  BY <1>1
<1>3. QED
  BY <1>2, SizeAssumption DEF RingSeq, N

\* The tail of the ring's sequence starts at the next slot.
LEMMA RingTail ==
  ASSUME NEW q \in [Slots -> Payload], NEW t \in Slots, NEW c \in 1 .. N
  PROVE  /\ Head(RingSeq(q, t, c)) = q[t]
         /\ Tail(RingSeq(q, t, c)) = RingSeq(q, Advance(t), c - 1)
<1>1. t + 1 \in Int /\ 0 <= t + 1 /\ t + 1 < 2 * N /\ N \in Nat \ {0} /\ t \in 0 .. (N - 1)
  BY SizeAssumption DEF Slots, N
<1>2. Advance(t) = IF t + 1 < N THEN t + 1 ELSE 0
  BY <1>1, ModWrap DEF Advance
<1>3. Advance(t) \in Slots
  BY <1>1, <1>2 DEF Slots
<1>4. \A i \in 1 .. (c - 1) : (t + (i + 1) - 1) % N = (Advance(t) + i - 1) % N
  <2> SUFFICES ASSUME NEW i \in 1 .. (c - 1)
               PROVE  (t + (i + 1) - 1) % N = (Advance(t) + i - 1) % N
    OBVIOUS
  <2>1. i \in 1 .. N /\ i + 1 \in 1 .. N
    BY <1>1
  <2>2. QED
    BY <1>1, <1>2, <1>3, <2>1, SlotOf
<1>5. (t + 1 - 1) % N = t
  BY <1>1, SlotOf
<1>6. QED
  <2> DEFINE s == RingSeq(q, t, c)
             r == RingSeq(q, Advance(t), c - 1)
  <2>1. s \in Seq(Payload) /\ Len(s) = c /\ \A i \in 1 .. c : s[i] = q[(t + i - 1) % N]
    BY <1>1, RingSeqType
  <2>2. r \in Seq(Payload) /\ Len(r) = c - 1
        /\ \A i \in 1 .. (c - 1) : r[i] = q[(Advance(t) + i - 1) % N]
    <3>1. c - 1 \in 0 .. N
      BY <1>1
    <3>2. QED
      BY <1>3, <3>1, RingSeqType
  <2> HIDE DEF s, r
  <2>3. Head(s) = q[t]
    <3>1. 1 \in 1 .. c /\ s # << >>
      BY <1>1, <2>1
    <3>2. Head(s) = s[1]
      BY <2>1, <3>1
    <3>3. QED
      BY <1>5, <2>1, <3>1, <3>2
  <2>4. Tail(s) \in Seq(Payload) /\ Len(Tail(s)) = c - 1
        /\ \A i \in 1 .. (c - 1) : Tail(s)[i] = s[i + 1]
    BY <1>1, <2>1
  <2>5. \A i \in 1 .. (c - 1) : Tail(s)[i] = r[i]
    <3> TAKE i \in 1 .. (c - 1)
    <3>1. i + 1 \in 1 .. c
      BY <1>1
    <3>2. QED
      BY <1>4, <2>1, <2>2, <2>4, <3>1
  <2>6. Tail(s) = r
    BY <2>2, <2>4, <2>5, SeqEqual
  <2>7. QED
    BY <2>3, <2>6 DEF s, r

\* A push appends: on a full ring the new event overwrites the oldest slot.
LEMMA RingPush ==
  ASSUME NEW q \in [Slots -> Payload], NEW h, NEW t, NEW c, NEW e \in Payload,
         Consistent(h, t, c),
         NEW p \in [Slots -> Payload],
         p[h] = e, \A i \in Slots \ {h} : p[i] = q[i]
  PROVE  /\ c = N => RingSeq(p, Advance(t), N) = Append(Tail(RingSeq(q, t, N)), e)
         /\ c # N => RingSeq(p, t, c + 1) = Append(RingSeq(q, t, c), e)
<1>1. h \in 0 .. (N - 1) /\ t \in 0 .. (N - 1) /\ c \in 0 .. N /\ N \in Nat \ {0}
      /\ h \in Slots /\ t \in Slots
  BY ConsistentCount, SizeAssumption DEF Slots, N
<1>2. p \in [Slots -> Payload]
  OBVIOUS
\* Appending to the k oldest events is writing slot t + k of the ring.
<1>3. ASSUME NEW u \in Slots, NEW k \in 0 .. (N - 1), (u + k) % N = h
      PROVE  RingSeq(p, u, k + 1) = Append(RingSeq(q, u, k), e)
  <2> DEFINE s == RingSeq(q, u, k)
             r == RingSeq(p, u, k + 1)
  <2>1. s \in Seq(Payload) /\ Len(s) = k /\ \A i \in 1 .. k : s[i] = q[(u + i - 1) % N]
    <3>1. k \in 0 .. N
      BY <1>1
    <3>2. QED
      BY <1>3, <3>1, RingSeqType
  <2>2. r \in Seq(Payload) /\ Len(r) = k + 1
        /\ \A i \in 1 .. (k + 1) : r[i] = p[(u + i - 1) % N]
    <3>1. k + 1 \in 0 .. N
      BY <1>1
    <3>2. QED
      BY <1>2, <1>3, <3>1, RingSeqType
  <2> HIDE DEF s, r
  <2>3. \A i \in 1 .. k : (u + i - 1) % N # h /\ (u + i - 1) % N \in Slots
    <3> TAKE i \in 1 .. k
    <3>1. i \in 1 .. N /\ k + 1 \in 1 .. N /\ u \in 0 .. (N - 1)
      BY <1>1 DEF Slots
    <3>2. (u + i - 1) % N = (IF u + i - 1 < N THEN u + i - 1 ELSE u + i - 1 - N)
      BY <3>1, SlotOf
    <3>3. (u + (k + 1) - 1) % N = (IF u + (k + 1) - 1 < N THEN u + (k + 1) - 1
                                                      ELSE u + (k + 1) - 1 - N)
      BY <3>1, SlotOf
    <3>4. h = IF u + k < N THEN u + k ELSE u + k - N
      <4>1. u + (k + 1) - 1 = u + k
        BY <1>1, <3>1
      <4>2. QED
        BY <1>3, <3>3, <4>1
    <3>5. QED
      BY <1>1, <3>1, <3>2, <3>4 DEF Slots
  <2>4. \A i \in 1 .. k : r[i] = s[i]
    <3> TAKE i \in 1 .. k
    <3>1. i \in 1 .. (k + 1)
      BY <1>1
    <3>2. p[(u + i - 1) % N] = q[(u + i - 1) % N]
      BY <2>3
    <3>3. QED
      BY <2>1, <2>2, <3>1, <3>2
  <2>5. r[k + 1] = e
    <3>1. k + 1 \in 1 .. (k + 1) /\ u + (k + 1) - 1 = u + k
      BY <1>1 DEF Slots
    <3>2. r[k + 1] = p[h]
      BY <1>3, <2>2, <3>1
    <3>3. QED
      BY <1>1, <3>2
  <2>6. Append(s, e) \in Seq(Payload) /\ Len(Append(s, e)) = k + 1
        /\ (\A i \in 1 .. k : Append(s, e)[i] = s[i]) /\ Append(s, e)[k + 1] = e
    BY <1>1, <2>1, AppendProperties
  <2>7. \A i \in 1 .. (k + 1) : r[i] = Append(s, e)[i]
    <3> TAKE i \in 1 .. (k + 1)
    <3>1. i \in 1 .. k \/ i = k + 1
      BY <1>1
    <3>2. QED
      BY <2>4, <2>5, <2>6, <3>1
  <2>8. r = Append(s, e)
    BY <2>2, <2>6, <2>7, SeqEqual
  <2>9. QED
    BY <2>8 DEF s, r
<1>4. CASE c # N
  <2>1. c \in 0 .. (N - 1) /\ c = Distance(h, t)
    BY <1>1, <1>4 DEF Consistent
  <2>2. (t + c) % N = h
    <3>1. t + c \in Int /\ 0 <= t + c /\ t + c < 2 * N
      BY <1>1, <2>1
    <3>2. (t + c) % N = IF t + c < N THEN t + c ELSE t + c - N
      <4> DEFINE a == t + c
      <4>1. a \in Int /\ 0 <= a /\ a < 2 * N
        BY <3>1
      <4> HIDE DEF a
      <4>2. a % N = IF a < N THEN a ELSE a - N
        BY <4>1, ModWrap
      <4>3. QED
        BY <1>1, <2>1, <4>2 DEF a
    <3>3. QED
      BY <1>1, <2>1, <3>2 DEF Distance
  <2>3. QED
    BY <1>1, <1>3, <1>4, <2>1, <2>2
<1>5. CASE c = N
  <2>1. h = t
    BY <1>1, <1>5 DEF Consistent, Distance
  <2>2. Advance(t) = (IF t + 1 < N THEN t + 1 ELSE 0) /\ Advance(t) \in Slots
    BY <1>1, SizeAssumption DEF Advance, Slots, N
  <2>3. Tail(RingSeq(q, t, N)) = RingSeq(q, Advance(t), N - 1)
    <3>1. N \in 1 .. N
      BY <1>1
    <3>2. QED
      BY <1>1, <3>1, RingTail
  <2>4. (Advance(t) + (N - 1)) % N = h
    BY <1>1, <2>1, <2>2, SizeAssumption DEF Slots, N
  <2>5. N - 1 \in 0 .. (N - 1) /\ (N - 1) + 1 = N
    BY <1>1
  <2>6. RingSeq(p, Advance(t), (N - 1) + 1) = Append(RingSeq(q, Advance(t), N - 1), e)
    BY <1>3, <2>2, <2>4, <2>5
  <2>7. QED
    BY <1>5, <2>3, <2>5, <2>6
<1>6. QED
  BY <1>4, <1>5

-----------------------------------------------------------------------------
(* The ring implements the drop-oldest FIFO                                *)

\* What the next operation sees is a sequence of at most N payloads.
LEMMA ContentsType ==
  ASSUME TypeOK
  PROVE  /\ Contents \in Seq(Payload)
         /\ Len(Contents) = SafeCount
         /\ SafeCount \in 0 .. N
BY SafeIsConsistent, ConsistentCount, RingSeqType DEF Contents

\* After an operation the repaired view of the queue is the queue itself.
LEMMA ContentsAfter ==
  ASSUME TypeOK, Operation
  PROVE  Contents' = RingSeq(queue', tail', count')
<1>1. Consistent(head', tail', count') /\ guard' = TRUE
  BY OperationRestores
<1>2. RepairedIndex(head') = head' /\ RepairedIndex(tail') = tail'
      /\ RepairedCount(head', tail', count') = count'
  BY <1>1, RepairKeepsConsistent
<1>3. SafeHead' = head' /\ SafeTail' = tail' /\ SafeQueue' = queue'
  BY <1>1, <1>2 DEF SafeHead, SafeTail, SafeQueue
<1>4. SafeCount' = count'
  BY <1>1, <1>2, <1>3 DEF SafeCount
<1>5. QED
  BY <1>3, <1>4 DEF Contents

\* push_io_event appends, and drops the oldest event of a full queue.
LEMMA PushRefines ==
  ASSUME TypeOK, NEW e \in Event, push_io_event(e)
  PROVE  Fifo!FifoPush(e)
<1>1. Consistent(SafeHead, SafeTail, SafeCount) /\ SafeQueue \in [Slots -> Payload] /\ e \in Payload
  BY SafeIsConsistent DEF Payload
<1>2. Contents' = RingSeq(queue', tail', count')
  BY ContentsAfter DEF Operation
<1>3. queue' = [SafeQueue EXCEPT ![SafeHead] = e]
  BY DEF push_io_event
<1>4. /\ queue' \in [Slots -> Payload] /\ queue'[SafeHead] = e
      /\ \A i \in Slots \ {SafeHead} : queue'[i] = SafeQueue[i]
  BY <1>1, <1>3, ConsistentCount
<1>5. Contents' = Append(IF SafeCount = N THEN Tail(Contents) ELSE Contents, e)
  <2>1. CASE SafeCount = N
    <3>1. tail' = Advance(SafeTail) /\ count' = N
      BY <2>1 DEF push_io_event, DropOldest
    <3>2. RingSeq(queue', Advance(SafeTail), N)
            = Append(Tail(RingSeq(SafeQueue, SafeTail, N)), e)
      BY <1>1, <1>4, <2>1, RingPush
    <3>3. QED
      BY <1>2, <2>1, <3>1, <3>2 DEF Contents
  <2>2. CASE SafeCount # N
    <3>1. tail' = SafeTail /\ count' = SafeCount + 1
      BY <2>2 DEF push_io_event, DropOldest
    <3>2. RingSeq(queue', SafeTail, SafeCount + 1)
            = Append(RingSeq(SafeQueue, SafeTail, SafeCount), e)
      BY <1>1, <1>4, <2>2, RingPush
    <3>3. QED
      BY <1>2, <2>2, <3>1, <3>2 DEF Contents
  <2>3. QED
    BY <2>1, <2>2
<1>6. QED
  BY <1>5, ContentsType DEF push_io_event, Fifo!FifoPush, N

\* pop_io_event removes the oldest event and answers it.
LEMMA PopRefines ==
  ASSUME TypeOK, pop_io_event
  PROVE  Fifo!FifoPop
<1>1. SafeTail \in Slots /\ SafeCount \in 1 .. N /\ SafeQueue \in [Slots -> Payload]
  BY SafeIsConsistent, ConsistentCount, SizeAssumption DEF pop_io_event, N
<1>2. Contents' = RingSeq(SafeQueue, Advance(SafeTail), SafeCount - 1)
  BY ContentsAfter DEF Operation, pop_io_event
<1>3. Head(Contents) = SafeQueue[SafeTail] /\ Tail(Contents) = Contents'
  BY <1>1, <1>2, RingTail DEF Contents
<1>4. Contents # << >>
  BY <1>1, ContentsType
<1>5. QED
  BY <1>3, <1>4 DEF pop_io_event, Fifo!FifoPop

\* pop_io_event answers "empty" only when nothing is queued.
LEMMA PopEmptyRefines ==
  ASSUME TypeOK, pop_io_event_empty
  PROVE  Fifo!FifoPopEmpty
<1>1. Contents' = RingSeq(SafeQueue, SafeTail, SafeCount)
  BY ContentsAfter DEF Operation, pop_io_event_empty
<1>2. Contents = << >>
  BY ContentsType DEF pop_io_event_empty
<1>3. QED
  BY <1>1, <1>2 DEF pop_io_event_empty, Fifo!FifoPopEmpty, Contents

\* Every behaviour of the ring, faults included, is one of the abstract queue.
THEOREM Refinement == Spec => ImplementsFifo
<1>1. Init => Fifo!FifoInit
  <2> SUFFICES ASSUME Init PROVE Fifo!FifoInit
    OBVIOUS
  <2>1. Consistent(head, tail, count) /\ guard
    BY SizeAssumption DEF Init, Consistent, Distance, Slots, N
  <2>2. SafeCount = 0
    BY <2>1, RepairKeepsConsistent DEF Init, SafeCount, SafeHead, SafeTail
  <2>3. Contents = << >>
    BY <2>2 DEF Contents, RingSeq
  <2>4. QED
    BY <2>3 DEF Init, Fifo!FifoInit
<1>2. TypeOK /\ TypeOK' /\ [Next]_vars => [Fifo!FifoNext]_(Fifo!fifoVars)
  <2> SUFFICES ASSUME TypeOK, TypeOK', [Next]_vars
               PROVE  [Fifo!FifoNext]_(Fifo!fifoVars)
    OBVIOUS
  <2>1. CASE Operation
    BY <2>1, PushRefines, PopRefines, PopEmptyRefines DEF Operation, Fifo!FifoNext
  <2>2. CASE invalid_process_access
    <3>1. Contents' = Contents
      BY <2>2 DEF invalid_process_access, Contents, SafeQueue, SafeTail, SafeCount, SafeHead
    <3>2. Fifo!FifoPopEmpty \/ Fifo!FifoPushRefused
      BY <2>2, <3>1 DEF invalid_process_access, Fifo!FifoPopEmpty, Fifo!FifoPushRefused
    <3>3. QED
      BY <3>2 DEF Fifo!FifoNext
  <2>3. CASE Fault
    <3>1. (Contents \in Seq(Payload) /\ Len(Contents) = SafeCount /\ SafeCount \in 0 .. N)'
      BY ContentsType, PTL
    <3>2. Len(Contents') <= N
      BY <3>1, SizeAssumption DEF N
    <3>3. Fifo!FifoFault
      BY <2>3, <3>1, <3>2 DEF Fault, Fifo!FifoFault, N
    <3>4. QED
      BY <3>3 DEF Fifo!FifoNext
  <2>4. CASE UNCHANGED vars
    <3>1. Contents' = Contents
      BY <2>4 DEF vars, Contents, SafeQueue, SafeTail, SafeCount, SafeHead
    <3>2. QED
      BY <2>4, <3>1 DEF vars, Fifo!fifoVars
  <2>5. QED
    BY <2>1, <2>2, <2>3, <2>4 DEF Next
<1>3. QED
  BY <1>1, <1>2, TypeCorrect, PTL DEF Spec, ImplementsFifo, Fifo!FifoSpec
=============================================================================
