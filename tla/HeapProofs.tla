----------------------------- MODULE HeapProofs -----------------------------
(***************************************************************************)
(* Theorems about Heap, for every heap, header, alignment and size_t size, *)
(* every set of requests and any number of processes: while no call of the *)
(* allocator is overtaken by another, its blocks tile the heap and what it *)
(* hands out is never handed out twice.  HeapRace.cfg shows that the       *)
(* condition is needed.                                                    *)
(***************************************************************************)
EXTENDS Heap, DataLemmas

\* Nobody owns the block at a.
Unowned(a) == \A q \in Process : \A h \in held[q] : h.addr # a

\* Where a call may be, and what it knows there about its block, and about the
\* block that krealloc is to replace: it is smaller than what is asked for.
CallOK(p) ==
    /\ pc[p].at \in {"walk", "split", "mark", "copy"} =>
          /\ pc[p].cur \in headers
          /\ pc[p].bytes \in Request
          /\ pc[p].size = align16(pc[p].bytes)
          /\ pc[p].old # NULL => /\ \E h \in held[p] : h.addr = pc[p].old
                                 /\ mem[pc[p].old].size < pc[p].bytes
    /\ pc[p].at \in {"split", "mark"} => mem[pc[p].cur].free
    /\ pc[p].at \in {"split", "mark", "copy"} => mem[pc[p].cur].size >= pc[p].size
    /\ pc[p].at = "copy" => pc[p].old # NULL /\ ~mem[pc[p].cur].free
    /\ pc[p].at \in {"copy", "free", "merge"} =>
          pc[p].cur \in headers /\ Unowned(pc[p].cur)
    /\ pc[p].at = "merge" => mem[pc[p].cur].free

HInv == TypeOK /\ Tiled /\ OwnedIsAllocated /\ Serial /\ \A p \in Process : CallOK(p)

-----------------------------------------------------------------------------
(* Arithmetic                                                              *)

\* align16 rounds up what callers ask for.
LEMMA AlignRoundsUp ==
  ASSUME NEW n \in Request
  PROVE  /\ align16(n) \in 0 .. (SIZE_RANGE - 1)
         /\ align16(n) >= n
<1> DEFINE x == n + ALIGN - 1
           y == x % SIZE_RANGE
<1>1. n \in Nat \ {0} /\ x \in Nat /\ SIZE_RANGE \in Nat \ {0} /\ ALIGN \in Nat \ {0}
  BY HeapAssumption
<1>2. y \in 0 .. (SIZE_RANGE - 1)
  BY <1>1
<1>3. y = x
  BY <1>1, HeapAssumption
<1> DEFINE z == (y \div ALIGN) * ALIGN
<1>4. align16(n) = z
  BY DEF align16
<1> HIDE DEF y
<1>5. z \in Nat /\ z > y - ALIGN /\ z <= y
  BY <1>1, <1>2
<1> HIDE DEF z
<1>6. QED
  BY <1>1, <1>2, <1>3, <1>4, <1>5

\* Types of the constants and of a block's fields.
LEMMA Sizes ==
  /\ HEADER \in Nat \ {0} /\ ALIGN \in Nat \ {0} /\ KERNEL_HEAP_SIZE \in Nat
  /\ START = 1 /\ NULL = 0 /\ END = 1 + KERNEL_HEAP_SIZE
  /\ Addr = 1 .. KERNEL_HEAP_SIZE
BY HeapAssumption DEF START, NULL, END, Addr

\* The sizes callers ask for are numbers.
LEMMA RequestIsNat ==
  ASSUME NEW n \in Request
  PROVE  n \in Nat
BY HeapAssumption

\* A list block's fields are numbers, its end is inside the heap.
LEMMA BlockFacts ==
  ASSUME HInv, NEW a \in headers
  PROVE  /\ a \in Addr /\ a \in Nat /\ mem[a] \in heap_block_t
         /\ mem[a].size \in Nat /\ mem[a].free \in BOOLEAN
         /\ mem[a].next \in Addr \cup {NULL}
         /\ BlockEnd(a) \in Nat /\ BlockEnd(a) <= END
<1>1. a \in Addr /\ mem[a] \in heap_block_t
  BY DEF HInv, TypeOK
<1>2. mem[a].size \in Nat /\ mem[a].free \in BOOLEAN /\ mem[a].next \in Addr \cup {NULL}
  BY <1>1, Sizes DEF heap_block_t
<1>3. a \in Nat
  BY <1>1, Sizes
<1>4. QED
  BY <1>1, <1>2, <1>3, Sizes DEF HInv, Tiled, BlockEnd

-----------------------------------------------------------------------------
\* init_heap establishes the invariant.
\* init_heap establishes the invariant.
LEMMA InitHInv == Init => HInv
<1> SUFFICES ASSUME Init PROVE HInv
  OBVIOUS
<1>1. START \in Addr /\ KERNEL_HEAP_SIZE - HEADER \in 0 .. KERNEL_HEAP_SIZE
  BY Sizes, HeapAssumption
<1>2. mem \in [Addr -> heap_block_t]
  BY <1>1, Sizes, HeapAssumption DEF Init, heap_block_t, Junk
<1>3. pc \in [Process -> Position]
  BY HeapAssumption DEF Init, Position, Idle
<1>4. TypeOK
  BY <1>1, <1>2, <1>3 DEF Init, TypeOK
<1>5. mem[START].size = KERNEL_HEAP_SIZE - HEADER /\ mem[START].next = NULL
  BY <1>1 DEF Init
<1>6. BlockEnd(START) = END
  BY <1>5, Sizes, HeapAssumption DEF BlockEnd
<1>7. Tiled
  BY <1>5, <1>6, Sizes DEF Init, Tiled
<1>8. Serial /\ OwnedIsAllocated /\ \A p \in Process : CallOK(p)
  BY DEF Init, CallOK, OwnedIsAllocated, Serial, Idle
<1>9. QED
  BY <1>4, <1>7, <1>8 DEF HInv

-----------------------------------------------------------------------------
(* Steps that leave memory alone                                           *)

\* Tiled depends on the memory and the list only.
LEMMA SameTiling ==
  ASSUME Tiled, UNCHANGED <<mem, headers>>
  PROVE  Tiled'
BY DEF Tiled, BlockEnd

\* While one call runs, the others have not started.
LEMMA MoveOnly ==
  ASSUME HInv, Serial', NEW p \in Process, NEW x \in Position,
         pc[p] # Idle \/ x # Idle, pc' = [pc EXCEPT ![p] = x]
  PROVE  /\ pc' \in [Process -> Position]
         /\ pc'[p] = x
         /\ \A q \in Process \ {p} : pc'[q] = Idle /\ CallOK(q)'
<1>1. pc' \in [Process -> Position] /\ pc'[p] = x /\ \A q \in Process \ {p} : pc'[q] = pc[q]
  BY DEF HInv, TypeOK
<1>2. \A q \in Process \ {p} : pc'[q] = Idle
  BY <1>1 DEF HInv, Serial
<1>3. QED
  BY <1>1, <1>2 DEF CallOK, Idle

\* Blocks that stay as they are stay owned.
LEMMA OwnedStays ==
  ASSUME HInv, held' \in [Process -> SUBSET Held],
         \A q \in Process : held'[q] \subseteq held[q],
         \A q \in Process : \A h \in held'[q] :
             /\ h.addr \in headers' /\ mem'[h.addr].free = mem[h.addr].free
             /\ mem'[h.addr].size = mem[h.addr].size
  PROVE  OwnedIsAllocated'
BY DEF HInv, OwnedIsAllocated

\* A step after which p owns S, part of what it owned, and new, which nobody else
\* owns and which is as large as it is to be.
Gains(p, S, new) ==
    /\ S \in SUBSET held[p] /\ new \in Held
    /\ held' = [held EXCEPT ![p] = S \cup {new}]
    /\ \A q \in Process : \A h \in held[q] : h.addr = new.addr => q = p /\ h \notin S
    /\ new.addr \in headers' /\ ~mem'[new.addr].free /\ mem'[new.addr].size >= new.bytes
    /\ \A q \in Process : \A h \in held[q] :
          h.addr # new.addr => h.addr \in headers' /\ mem'[h.addr] = mem[h.addr]

\* A block that nobody else owns becomes the caller's.
LEMMA OwnedGrows ==
  ASSUME HInv, NEW p \in Process, NEW S, NEW new, Gains(p, S, new)
  PROVE  held' \in [Process -> SUBSET Held] /\ OwnedIsAllocated'
<1>1. held' \in [Process -> SUBSET Held]
      /\ held'[p] = S \cup {new} /\ \A q \in Process \ {p} : held'[q] = held[q]
  BY DEF HInv, TypeOK, Gains
<1>2. \A q \in Process : \A h \in held'[q] : (q = p /\ h = new) \/ (h \in held[q] /\ h.addr # new.addr)
  BY <1>1 DEF Gains
<1>3. \A q \in Process : \A h \in held'[q] :
        /\ h.addr \in headers' /\ ~mem'[h.addr].free /\ mem'[h.addr].size >= h.bytes
  BY <1>2 DEF HInv, OwnedIsAllocated, Gains
<1>4. \A q, r \in Process : \A h \in held'[q], g \in held'[r] : g.addr = h.addr => q = r /\ g = h
  BY <1>2 DEF HInv, OwnedIsAllocated, Gains
<1>5. QED
  BY <1>1, <1>3, <1>4 DEF OwnedIsAllocated

\* kmalloc and krealloc start their search at the head of the list.
LEMMA WalkStarts ==
  ASSUME HInv, Serial', NEW p \in Process, NEW n \in Request, NEW old \in Addr \cup {NULL},
         Walk(p, n, old),
         old # NULL => (\E h \in held[p] : h.addr = old) /\ mem[old].size < n,
         UNCHANGED <<mem, headers, held>>
  PROVE  HInv'
<1> DEFINE x == [at |-> "walk", cur |-> START, size |-> align16(n), bytes |-> n, old |-> old]
<1>1. pc' = [pc EXCEPT ![p] = x]
  BY DEF Walk
<1>2. START \in headers /\ START \in Addr
  BY BlockFacts DEF HInv, Tiled
<1>3. x \in Position
  BY <1>2, AlignRoundsUp DEF Position
<1>4. x.at = "walk" /\ x.cur = START /\ x.size = align16(n) /\ x.bytes = n /\ x.old = old
  OBVIOUS
<1>5. x # Idle
  BY <1>4 DEF Idle
<1> HIDE DEF x
<1>6. pc' \in [Process -> Position] /\ pc'[p] = x /\ \A q \in Process \ {p} : CallOK(q)'
  BY <1>1, <1>3, <1>5, MoveOnly
<1>7. TypeOK'
  BY <1>6 DEF HInv, TypeOK
<1>8. Tiled'
  BY SameTiling DEF HInv
<1>9. CallOK(p)'
  BY <1>2, <1>4, <1>6 DEF CallOK
<1>10. OwnedIsAllocated'
  BY DEF HInv, OwnedIsAllocated
<1>11. QED
  BY <1>6, <1>7, <1>8, <1>9, <1>10 DEF HInv

\* kmalloc preserves the invariant.
LEMMA KmallocInv ==
  ASSUME HInv, Serial', NEW p \in Process, NEW n \in Request, kmalloc(p, n)
  PROVE  HInv'
BY WalkStarts DEF kmalloc

\* The search visits blocks of the list and stops at one that fits.
LEMMA WalkInv ==
  ASSUME HInv, Serial', NEW p \in Process, kmalloc_walk(p)
  PROVE  HInv'
<1> DEFINE c == pc[p].cur
<1>1. pc[p] \in Position /\ CallOK(p) /\ pc[p].at = "walk"
  BY DEF HInv, TypeOK, kmalloc_walk
<1>2. c \in headers /\ mem[c] \in heap_block_t
  BY <1>1, BlockFacts DEF CallOK
<1>3. mem[c].next # NULL => mem[c].next \in headers /\ mem[c].next \in Addr
  BY <1>2, BlockFacts DEF HInv, Tiled
<1>4. PICK x : pc' = [pc EXCEPT ![p] = x] /\
          \/ mem[c].free /\ mem[c].size >= pc[p].size /\ x = [pc[p] EXCEPT !.at = "split"]
          \/ mem[c].next # NULL /\ x = [pc[p] EXCEPT !.cur = mem[c].next]
          \/ x = Idle
  BY DEF kmalloc_walk, HInv, TypeOK
<1>5. Idle \in Position
  BY HeapAssumption DEF Idle, Position
<1> HIDE DEF c
<1>6. x \in Position
  BY <1>1, <1>3, <1>4, <1>5 DEF Position
<1>7. pc' \in [Process -> Position] /\ pc'[p] = x /\ \A q \in Process \ {p} : CallOK(q)'
  <2>1. pc[p] # Idle
    BY <1>1 DEF Idle
  <2>2. QED
    BY <1>4, <1>6, <2>1, MoveOnly
<1>8. UNCHANGED <<mem, headers, held>>
  BY DEF kmalloc_walk
<1>9. TypeOK'
  BY <1>7, <1>8 DEF HInv, TypeOK
<1>10. Tiled'
  BY <1>8, SameTiling DEF HInv
<1>11. CallOK(p)'
  <2>1. CASE mem[c].free /\ mem[c].size >= pc[p].size /\ x = [pc[p] EXCEPT !.at = "split"]
    <3>1. x.at = "split" /\ x.cur = c /\ x.size = pc[p].size /\ x.bytes = pc[p].bytes /\ x.old = pc[p].old
      BY <1>1, <2>1 DEF Position, c
    <3>2. QED
      BY <1>1, <1>2, <1>7, <1>8, <2>1, <3>1 DEF CallOK
  <2>2. CASE mem[c].next # NULL /\ x = [pc[p] EXCEPT !.cur = mem[c].next]
    <3>1. x.at = "walk" /\ x.cur = mem[c].next /\ x.size = pc[p].size /\ x.bytes = pc[p].bytes
          /\ x.old = pc[p].old
      BY <1>1, <2>2 DEF Position
    <3>2. QED
      BY <1>1, <1>3, <1>7, <1>8, <2>2, <3>1 DEF CallOK
  <2>3. CASE x = Idle
    BY <1>7, <2>3 DEF CallOK, Idle
  <2>4. QED
    BY <1>4, <2>1, <2>2, <2>3
<1>12. OwnedIsAllocated'
  BY <1>8 DEF HInv, OwnedIsAllocated
<1>13. QED
  BY <1>7, <1>9, <1>10, <1>11, <1>12 DEF HInv

-----------------------------------------------------------------------------
(* Steps that change one block's flag                                      *)

\* A flag does not move a block.
LEMMA FlagTiling ==
  ASSUME HInv, NEW c \in headers, NEW f \in BOOLEAN, UNCHANGED headers,
         mem' = [mem EXCEPT ![c].free = f]
  PROVE  /\ mem' \in [Addr -> heap_block_t]
         /\ Tiled'
         /\ mem'[c].free = f
         /\ \A a \in Addr : mem'[a].size = mem[a].size /\ mem'[a].next = mem[a].next
         /\ \A a \in Addr \ {c} : mem'[a] = mem[a]
<1>1. c \in Addr /\ mem \in [Addr -> heap_block_t] /\ headers \subseteq Addr
  BY DEF HInv, TypeOK
<1>2. mem'[c].free = f /\ mem'[c] \in heap_block_t
      /\ mem'[c].size = mem[c].size /\ mem'[c].next = mem[c].next
  BY <1>1 DEF heap_block_t
<1>3. \A a \in Addr \ {c} : mem'[a] = mem[a]
  BY <1>1
<1>4. \A a \in Addr : mem'[a].size = mem[a].size /\ mem'[a].next = mem[a].next
  BY <1>2, <1>3
<1>5. mem' \in [Addr -> heap_block_t]
  BY <1>1, <1>2
<1>6. \A a \in headers : BlockEnd(a)' = BlockEnd(a)
  BY <1>1, <1>4 DEF BlockEnd
<1>7. Tiled'
  BY <1>1, <1>4, <1>6 DEF HInv, Tiled
<1>8. QED
  BY <1>2, <1>3, <1>4, <1>5, <1>7

\* A position at which kfree or nothing runs.
LEMMA FreePosition ==
  ASSUME NEW a \in Addr
  PROVE  /\ Idle \in Position /\ Idle.at = "idle"
         /\ [Idle EXCEPT !.at = "free", !.cur = a] \in Position
         /\ [Idle EXCEPT !.at = "free", !.cur = a].at = "free"
         /\ [Idle EXCEPT !.at = "free", !.cur = a].cur = a
<1>1. Idle \in Position /\ Idle.at = "idle"
  BY HeapAssumption DEF Idle, Position
<1>2. QED
  BY <1>1 DEF Position

\* What kmalloc returns was free until now, so nobody owns it yet.
LEMMA MarkInv ==
  ASSUME HInv, Serial', NEW p \in Process, kmalloc_mark(p)
  PROVE  HInv'
<1> DEFINE c == pc[p].cur
           new == [addr |-> c, bytes |-> pc[p].bytes]
<1>1. pc[p] \in Position /\ CallOK(p) /\ pc[p].at = "mark" /\ pc[p] # Idle
  BY DEF HInv, TypeOK, kmalloc_mark, Idle
<1>2. c \in headers /\ c \in Addr /\ mem[c].free /\ mem[c].size >= pc[p].size
      /\ pc[p].bytes \in Request /\ pc[p].size = align16(pc[p].bytes)
  BY <1>1, BlockFacts DEF CallOK
<1>3. mem' = [mem EXCEPT ![c].free = FALSE] /\ UNCHANGED headers
  BY DEF kmalloc_mark
<1>4. /\ mem' \in [Addr -> heap_block_t] /\ Tiled' /\ ~mem'[c].free
      /\ \A a \in Addr : mem'[a].size = mem[a].size
      /\ \A a \in Addr \ {c} : mem'[a] = mem[a]
  BY <1>2, <1>3, FlagTiling
<1>5. Unowned(c)
  BY <1>2 DEF Unowned, HInv, OwnedIsAllocated
<1>6. \A q \in Process : \A h \in held[q] :
        h.addr \in headers' /\ h.addr # c /\ mem'[h.addr] = mem[h.addr]
  BY <1>3, <1>4, <1>5 DEF Unowned, HInv, OwnedIsAllocated, TypeOK
<1>7. mem[c].size >= pc[p].bytes /\ mem[c].size \in Nat
  <2>1. align16(pc[p].bytes) \in 0 .. (SIZE_RANGE - 1) /\ align16(pc[p].bytes) >= pc[p].bytes
    BY <1>2, AlignRoundsUp
  <2>2. mem[c].size \in Nat /\ pc[p].bytes \in Nat
    BY <1>2, BlockFacts, RequestIsNat
  <2>3. QED
    BY <1>2, <2>1, <2>2, HeapAssumption
<1>8. Idle \in Position
  BY <1>2, FreePosition
<1>9. CASE pc[p].old = NULL
  <2>1. pc' = [pc EXCEPT ![p] = Idle] /\ held' = [held EXCEPT ![p] = @ \cup {new}]
    BY <1>9 DEF kmalloc_mark
  <2>2. pc' \in [Process -> Position] /\ pc'[p] = Idle /\ \A q \in Process \ {p} : CallOK(q)'
    BY <1>1, <1>8, <2>1, MoveOnly
  <2>3. new \in Held /\ new.addr = c /\ new.bytes = pc[p].bytes
    BY <1>2 DEF Held
  <2>4. held' = [held EXCEPT ![p] = held[p] \cup {new}]
    BY <2>1 DEF HInv, TypeOK
  <2> HIDE DEF new, c
  <2>5. held' \in [Process -> SUBSET Held] /\ OwnedIsAllocated'
    <3>1. \A q \in Process : \A h \in held[q] : h.addr # new.addr
      BY <1>5, <2>3 DEF Unowned
    <3>2. new.addr \in headers' /\ ~mem'[new.addr].free /\ mem'[new.addr].size >= new.bytes
      BY <1>2, <1>3, <1>4, <1>7, <2>3
    <3>3. held[p] \in SUBSET held[p]
      OBVIOUS
    <3>4. Gains(p, held[p], new)
      BY <1>6, <2>3, <2>4, <3>1, <3>2, <3>3 DEF Gains
    <3>5. QED
      BY <3>4, OwnedGrows
  <2>6. TypeOK'
    BY <1>3, <1>4, <2>2, <2>5 DEF HInv, TypeOK
  <2>7. CallOK(p)'
    BY <2>2 DEF CallOK, Idle
  <2>8. QED
    BY <1>4, <2>2, <2>5, <2>6, <2>7 DEF HInv
<1>10. CASE pc[p].old # NULL
  <2> DEFINE x == [pc[p] EXCEPT !.at = "copy"]
  <2>1. pc' = [pc EXCEPT ![p] = x] /\ UNCHANGED held
    BY <1>10 DEF kmalloc_mark, HInv, TypeOK
  <2>2. x \in Position /\ x.at = "copy" /\ x.cur = c /\ x.size = pc[p].size
        /\ x.bytes = pc[p].bytes /\ x.old = pc[p].old
    BY <1>1 DEF Position
  <2> HIDE DEF x, c
  <2>3. pc' \in [Process -> Position] /\ pc'[p] = x /\ \A q \in Process \ {p} : CallOK(q)'
    BY <1>1, <2>1, <2>2, MoveOnly
  <2>4. TypeOK'
    BY <1>3, <1>4, <2>1, <2>3 DEF HInv, TypeOK
  <2>5. OwnedIsAllocated'
    BY <1>3, <1>6, <2>1 DEF HInv, OwnedIsAllocated
  <2>6. /\ \E h \in held[p] : h.addr = pc[p].old
        /\ mem[pc[p].old].size < pc[p].bytes /\ pc[p].old \in Addr
    BY <1>1, <1>10 DEF CallOK, Position
  <2>7. CallOK(p)'
    BY <1>2, <1>3, <1>4, <1>5, <1>10, <2>1, <2>2, <2>3, <2>6 DEF CallOK, Unowned
  <2>8. QED
    BY <1>4, <2>3, <2>4, <2>5, <2>7 DEF HInv
<1>11. QED
  BY <1>9, <1>10

\* krealloc's copy stays inside the new block: it hits no header.
LEMMA CopyInv ==
  ASSUME HInv, Serial', NEW p \in Process, krealloc_copy(p)
  PROVE  HInv'
<1> DEFINE c == pc[p].cur
           b == pc[p].old
           new == [addr |-> c, bytes |-> pc[p].bytes]
           x == [Idle EXCEPT !.at = "free", !.cur = b]
<1>1. pc[p] \in Position /\ CallOK(p) /\ pc[p].at = "copy" /\ pc[p] # Idle
  BY DEF HInv, TypeOK, krealloc_copy, Idle
<1>2. /\ c \in headers /\ c \in Nat /\ c \in Addr /\ ~mem[c].free /\ Unowned(c)
      /\ mem[c].size >= pc[p].size /\ mem[c].size \in Nat /\ BlockEnd(c) \in Nat
      /\ pc[p].bytes \in Request /\ pc[p].size = align16(pc[p].bytes)
  BY <1>1, BlockFacts DEF CallOK
<1>3. /\ b \in Addr /\ mem[b].size < pc[p].bytes
      /\ \E h \in held[p] : h.addr = b
  BY <1>1 DEF CallOK, Position
<1>4. b \in headers /\ b # c /\ mem[b].size \in Nat
  <2>1. b \in headers /\ b # c
    BY <1>2, <1>3 DEF HInv, OwnedIsAllocated, Unowned
  <2>2. QED
    BY <2>1, BlockFacts
<1>5. mem[c].size >= pc[p].bytes /\ pc[p].bytes \in Nat
  <2>1. align16(pc[p].bytes) \in 0 .. (SIZE_RANGE - 1) /\ align16(pc[p].bytes) >= pc[p].bytes
    BY <1>2, AlignRoundsUp
  <2>2. pc[p].bytes \in Nat
    BY <1>2, RequestIsNat
  <2>3. QED
    BY <1>2, <2>1, <2>2, HeapAssumption
<1>6. Hit(c, mem[b].size) = {}
  <2> SUFFICES ASSUME NEW a \in headers \cup {pc[q].cur : q \in Process}, c < a,
                      a < c + HEADER + mem[b].size
               PROVE  FALSE
    BY DEF Hit
  <2>1. CASE a \in headers
    <3>1. a \in Nat /\ BlockEnd(c) <= a /\ BlockEnd(c) = c + HEADER + mem[c].size
      BY <1>2, <2>1, BlockFacts DEF HInv, Tiled, BlockEnd
    <3>2. HEADER \in Nat
      BY Sizes
    <3> DEFINE u == mem[b].size
               v == mem[c].size
               k == pc[p].bytes
    <3>3. u \in Nat /\ v \in Nat /\ k \in Nat /\ u < k /\ k <= v
      BY <1>2, <1>3, <1>4, <1>5
    <3>4. c \in Nat /\ a < c + HEADER + u /\ c + HEADER + v <= a
      BY <1>2, <3>1
    <3> HIDE DEF u, v, k, c
    <3>5. QED
      BY <3>1, <3>2, <3>3, <3>4
  <2>2. CASE a \notin headers
    <3>1. PICK q \in Process : a = pc[q].cur
      BY <2>2
    <3>2. CASE q = p
      BY <1>2, <3>1, <3>2
    <3>3. CASE q # p
      <4>1. pc[q] = Idle
        BY <1>1, <3>3 DEF HInv, Serial
      <4>2. QED
        BY <1>2, <3>1, <4>1 DEF Idle, NULL
    <3>4. QED
      BY <3>2, <3>3
  <2>3. QED
    BY <2>1, <2>2
<1>7. UNCHANGED <<mem, headers>>
  <2>1. PICK data \in [Hit(c, mem[b].size) -> Garbage] :
          mem' = [a \in Addr |-> IF a \in DOMAIN data THEN data[a] ELSE mem[a]]
    BY DEF krealloc_copy
  <2>2. DOMAIN data = {}
    BY <1>6, <2>1
  <2>3. mem' = [a \in Addr |-> mem[a]] /\ mem = [a \in Addr |-> mem[a]]
    BY <2>1, <2>2 DEF HInv, TypeOK
  <2>4. QED
    BY <2>3 DEF krealloc_copy
<1>8. held' = [held EXCEPT ![p] = Without(p, b) \cup {new}] /\ pc' = [pc EXCEPT ![p] = x]
  BY DEF krealloc_copy
<1>9. x \in Position /\ x.at = "free" /\ x.cur = b
  BY <1>3, FreePosition
<1>10. new \in Held /\ new.addr = c /\ new.bytes = pc[p].bytes
  BY <1>2 DEF Held
<1> HIDE DEF x, c, b, new
<1>11. pc' \in [Process -> Position] /\ pc'[p] = x /\ \A q \in Process \ {p} : CallOK(q)'
  BY <1>1, <1>8, <1>9, MoveOnly
<1>12. held' \in [Process -> SUBSET Held] /\ OwnedIsAllocated'
  <2>1. \A q \in Process : \A h \in held[q] : h.addr # new.addr
    BY <1>2, <1>10 DEF Unowned
  <2>2. new.addr \in headers' /\ ~mem'[new.addr].free /\ mem'[new.addr].size >= new.bytes
    BY <1>2, <1>5, <1>7, <1>10
  <2>3. Without(p, b) \in SUBSET held[p]
    BY DEF Without
  <2>4. \A q \in Process : \A h \in held[q] : h.addr \in headers' /\ mem'[h.addr] = mem[h.addr]
    BY <1>7 DEF HInv, OwnedIsAllocated
  <2>5. Gains(p, Without(p, b), new)
    BY <1>8, <1>10, <2>1, <2>2, <2>3, <2>4 DEF Gains
  <2>6. QED
    BY <2>5, OwnedGrows
<1>13. TypeOK'
  BY <1>7, <1>11, <1>12 DEF HInv, TypeOK
<1>14. Tiled'
  BY <1>7, SameTiling DEF HInv
<1>15. \A q \in Process : \A h \in held'[q] : h.addr # b
  <2>1. \A q \in Process \ {p} : held'[q] = held[q]
    BY <1>8 DEF HInv, TypeOK
  <2>2. held'[p] = Without(p, b) \cup {new}
    BY <1>8 DEF HInv, TypeOK
  <2>3. \A q \in Process \ {p} : \A h \in held[q] : h.addr # b
    BY <1>3 DEF HInv, OwnedIsAllocated
  <2>4. QED
    BY <1>4, <1>10, <2>1, <2>2, <2>3 DEF Without
<1>16. CallOK(p)'
  BY <1>4, <1>7, <1>9, <1>11, <1>15 DEF CallOK, Unowned
<1>17. QED
  BY <1>11, <1>12, <1>13, <1>14, <1>16 DEF HInv

\* kfree gives up the ownership before it touches the block.
LEMMA KfreeInv ==
  ASSUME HInv, Serial', NEW p \in Process, NEW a \in Addr, kfree(p, a)
  PROVE  HInv'
<1> DEFINE x == [Idle EXCEPT !.at = "free", !.cur = a]
<1>1. held' = [held EXCEPT ![p] = Without(p, a)] /\ pc' = [pc EXCEPT ![p] = x]
      /\ UNCHANGED <<mem, headers>> /\ \E h \in held[p] : h.addr = a
  BY DEF kfree
<1>2. x \in Position /\ x.at = "free" /\ x.cur = a
  BY FreePosition
<1>3. x # Idle
  BY <1>2 DEF Idle
<1> HIDE DEF x
<1>4. pc' \in [Process -> Position] /\ pc'[p] = x /\ \A q \in Process \ {p} : CallOK(q)'
  BY <1>1, <1>2, <1>3, MoveOnly
<1>5. /\ held' \in [Process -> SUBSET Held] /\ held'[p] = Without(p, a)
      /\ \A q \in Process \ {p} : held'[q] = held[q]
  BY <1>1 DEF HInv, TypeOK, Without
<1>6. TypeOK'
  BY <1>1, <1>4, <1>5 DEF HInv, TypeOK
<1>7. Tiled'
  BY <1>1, SameTiling DEF HInv
<1>8. a \in headers /\ \A q \in Process \ {p} : \A h \in held[q] : h.addr # a
  BY <1>1 DEF HInv, OwnedIsAllocated
<1>9. Unowned(a)'
  BY <1>5, <1>8 DEF Unowned, Without
<1>10. CallOK(p)'
  BY <1>1, <1>2, <1>4, <1>8, <1>9 DEF CallOK, Unowned
<1>11. \A q \in Process : held'[q] \subseteq held[q]
  BY <1>5 DEF Without
<1>12. OwnedIsAllocated'
  BY <1>1, <1>5, <1>11, OwnedStays DEF HInv, OwnedIsAllocated
<1>13. QED
  BY <1>4, <1>6, <1>7, <1>10, <1>12 DEF HInv

\* The flag that kfree sets belongs to a block nobody owns.
LEMMA KfreeMarkInv ==
  ASSUME HInv, Serial', NEW p \in Process, kfree_mark(p)
  PROVE  HInv'
<1> DEFINE c == pc[p].cur
           x == [pc[p] EXCEPT !.at = "merge"]
<1>1. pc[p] \in Position /\ CallOK(p) /\ pc[p].at = "free" /\ pc[p] # Idle
  BY DEF HInv, TypeOK, kfree_mark, Idle
<1>2. c \in headers /\ Unowned(c)
  BY <1>1 DEF CallOK
<1>3. mem' = [mem EXCEPT ![c].free = TRUE] /\ pc' = [pc EXCEPT ![p] = x]
      /\ UNCHANGED <<headers, held>>
  BY DEF kfree_mark, HInv, TypeOK
<1>4. /\ mem' \in [Addr -> heap_block_t] /\ Tiled' /\ mem'[c].free
      /\ \A a \in Addr \ {c} : mem'[a] = mem[a]
  BY <1>2, <1>3, FlagTiling
<1>5. x \in Position /\ x.at = "merge" /\ x.cur = c
  BY <1>1 DEF Position
<1> HIDE DEF x, c
<1>6. pc' \in [Process -> Position] /\ pc'[p] = x /\ \A q \in Process \ {p} : CallOK(q)'
  BY <1>1, <1>3, <1>5, MoveOnly
<1>7. TypeOK'
  BY <1>3, <1>4, <1>6 DEF HInv, TypeOK
<1>8. CallOK(p)'
  BY <1>2, <1>3, <1>4, <1>5, <1>6 DEF CallOK, Unowned
<1>9. headers \subseteq Addr
  BY DEF HInv, TypeOK
<1>10. OwnedIsAllocated'
  BY <1>2, <1>3, <1>4, <1>9 DEF Unowned, HInv, OwnedIsAllocated
<1>11. QED
  BY <1>4, <1>6, <1>7, <1>8, <1>10 DEF HInv

\* krealloc keeps a block that is large enough.
LEMMA KreallocInv ==
  ASSUME HInv, Serial', NEW p \in Process, NEW a \in Addr, NEW n \in Request, krealloc(p, a, n)
  PROVE  HInv'
<1>1. mem[a].size \in Nat /\ n \in Nat
  BY HeapAssumption DEF HInv, TypeOK, heap_block_t
<1>2. CASE mem[a].size < n
  <2>1. ~(mem[a].size >= n)
    BY <1>1, <1>2
  <2>2. QED
    BY <1>2, <2>1, WalkStarts DEF krealloc
<1>3. CASE mem[a].size >= n
  <2> DEFINE new == [addr |-> a, bytes |-> n]
  <2>1. ~(mem[a].size < n)
    BY <1>1, <1>3
  <2>2. held' = [held EXCEPT ![p] = Without(p, a) \cup {new}] /\ UNCHANGED <<mem, headers, pc>>
        /\ pc[p] = Idle /\ \E h \in held[p] : h.addr = a
    BY <2>1 DEF krealloc
  <2>3. new \in Held /\ new.addr = a /\ new.bytes = n
    BY DEF Held
  <2> HIDE DEF new
  <2>4. a \in headers /\ ~mem[a].free
    BY <2>2 DEF HInv, OwnedIsAllocated
  <2>5. held' \in [Process -> SUBSET Held] /\ OwnedIsAllocated'
    <3>1. \A q \in Process : \A h \in held[q] : h.addr = new.addr => q = p /\ h \notin Without(p, a)
      BY <2>2, <2>3 DEF HInv, OwnedIsAllocated, Without
    <3>2. Without(p, a) \in SUBSET held[p]
      BY DEF Without
    <3>3. \A q \in Process : \A h \in held[q] : h.addr \in headers' /\ mem'[h.addr] = mem[h.addr]
      BY <2>2 DEF HInv, OwnedIsAllocated
    <3>4. new.addr \in headers' /\ ~mem'[new.addr].free /\ mem'[new.addr].size >= new.bytes
      BY <1>3, <2>2, <2>3, <2>4
    <3>5. Gains(p, Without(p, a), new)
      BY <2>2, <2>3, <3>1, <3>2, <3>3, <3>4 DEF Gains
    <3>6. QED
      BY <3>5, OwnedGrows
  <2>6. TypeOK'
    BY <2>2, <2>5 DEF HInv, TypeOK
  <2>7. Tiled'
    BY <2>2, SameTiling DEF HInv
  <2>8. \A q \in Process : CallOK(q)'
    <3>1. \A q \in Process : q # p /\ pc[q].at # "idle" => FALSE \/ held'[q] = held[q]
      BY <2>2 DEF HInv, TypeOK
    <3>2. \A b : Unowned(b) => Unowned(b)'
      BY <2>2, <2>3 DEF Unowned, Without, HInv, TypeOK
    <3>3. CallOK(p)'
      BY <2>2 DEF CallOK, Idle
    <3>4. ASSUME NEW q \in Process, q # p
          PROVE  CallOK(q)'
      <4>1. CallOK(q) /\ held'[q] = held[q]
        BY <2>2, <3>4 DEF HInv, TypeOK
      <4>2. QED
        BY <2>2, <3>2, <4>1 DEF CallOK
    <3>5. QED
      BY <3>3, <3>4
  <2>9. QED
    BY <2>5, <2>6, <2>7, <2>8 DEF HInv
<1>4. QED
  BY <1>1, <1>2, <1>3


-----------------------------------------------------------------------------
(* Splitting and merging                                                   *)

\* kmalloc cuts a block in two.
LEMMA SplitTiling ==
  ASSUME HInv, NEW c \in headers, NEW n \in Nat, CanSplit(mem[c], n),
         NEW d, d = c + HEADER + n,
         mem' = [mem EXCEPT ![d] = Remainder(mem[c], n), ![c] = [@ EXCEPT !.size = n, !.next = d]],
         headers' = headers \cup {d}
  PROVE  /\ mem' \in [Addr -> heap_block_t] /\ headers' \subseteq Addr
         /\ Tiled'
         /\ mem'[c].size = n /\ mem'[c].free = mem[c].free
         /\ d \notin headers
         /\ \A a \in headers \ {c} : mem'[a] = mem[a]
<1>1. /\ c \in Nat /\ c \in Addr /\ mem[c].size \in Nat /\ mem[c] \in heap_block_t
      /\ BlockEnd(c) \in Nat /\ BlockEnd(c) <= END
  BY BlockFacts
<1>2. mem[c].size >= n + HEADER + ALIGN /\ BlockEnd(c) = c + HEADER + mem[c].size
  BY DEF CanSplit, BlockEnd
<1>3. d \in Nat /\ c < d /\ d < BlockEnd(c)
  BY <1>1, <1>2, Sizes
<1>4. d \in Addr
  BY <1>1, <1>3, Sizes
<1>5. d \notin headers
  BY <1>1, <1>3 DEF HInv, Tiled
<1> DEFINE r == mem[c].size - n - HEADER
<1>6. r \in 0 .. KERNEL_HEAP_SIZE /\ n \in 0 .. KERNEL_HEAP_SIZE
  <2>1. mem[c].size \in 0 .. KERNEL_HEAP_SIZE
    BY <1>1 DEF heap_block_t
  <2>2. QED
    BY <1>2, <2>1, Sizes
<1>7. Remainder(mem[c], n) = [mem[c] EXCEPT !.size = r, !.free = TRUE]
  BY <1>1 DEF Remainder, heap_block_t
<1> HIDE DEF r
<1>8. mem \in [Addr -> heap_block_t] /\ headers \subseteq Addr
  BY DEF HInv, TypeOK
<1>9. mem'[d] = [mem[c] EXCEPT !.size = r, !.free = TRUE]
  BY <1>3, <1>4, <1>7, <1>8
<1>10. mem'[d] \in heap_block_t /\ mem'[d].size = r /\ mem'[d].next = mem[c].next
  BY <1>1, <1>6, <1>9 DEF heap_block_t
<1>11. mem'[c] = [mem[c] EXCEPT !.size = n, !.next = d]
  BY <1>1, <1>3, <1>8 DEF heap_block_t
<1>12. mem'[c] \in heap_block_t /\ mem'[c].size = n /\ mem'[c].next = d /\ mem'[c].free = mem[c].free
  <2>1. mem'[c].size = n /\ mem'[c].next = d /\ mem'[c].free = mem[c].free
    BY <1>1, <1>11 DEF heap_block_t
  <2>2. ASSUME NEW v \in 0 .. KERNEL_HEAP_SIZE, NEW a \in Addr
        PROVE  [mem[c] EXCEPT !.size = v, !.next = a] \in heap_block_t
    BY <1>1 DEF heap_block_t
  <2>3. QED
    BY <1>4, <1>6, <1>11, <2>1, <2>2
<1>13. \A a \in Addr \ {c, d} : mem'[a] = mem[a]
  BY <1>8
<1>14. mem' \in [Addr -> heap_block_t]
  BY <1>8, <1>10, <1>12, <1>13
<1>15. \A a \in headers \ {c} : mem'[a] = mem[a] /\ BlockEnd(a)' = BlockEnd(a)
  BY <1>5, <1>8, <1>13 DEF BlockEnd
<1>16. BlockEnd(c)' = d /\ BlockEnd(d)' = BlockEnd(c)
  BY <1>1, <1>2, <1>10, <1>12, Sizes DEF BlockEnd, r
<1>17. Tiled'
  <2>1. START \in headers'
    BY DEF HInv, Tiled
  <2>2. ASSUME NEW a \in headers'
        PROVE  /\ BlockEnd(a)' <= END
               /\ mem'[a].next = IF BlockEnd(a)' = END THEN NULL ELSE BlockEnd(a)'
               /\ mem'[a].next # NULL => mem'[a].next \in headers'
    <3>1. CASE a = c
      BY <1>1, <1>3, <1>12, <1>16, <3>1, Sizes
    <3>2. CASE a = d
      BY <1>1, <1>10, <1>16, <3>2 DEF HInv, Tiled
    <3>3. CASE a \in headers \ {c}
      <4>1. /\ BlockEnd(a) <= END
            /\ mem[a].next = IF BlockEnd(a) = END THEN NULL ELSE BlockEnd(a)
            /\ mem[a].next # NULL => mem[a].next \in headers
        BY <3>3 DEF HInv, Tiled
      <4>2. mem'[a] = mem[a] /\ BlockEnd(a)' = BlockEnd(a)
        BY <1>15, <3>3
      <4>3. mem'[a].next # NULL => mem'[a].next \in headers'
        BY <4>1, <4>2
      <4>4. BlockEnd(a)' <= END
        BY <4>1, <4>2
      <4>5. mem'[a].next = IF BlockEnd(a)' = END THEN NULL ELSE BlockEnd(a)'
        BY <4>1, <4>2, Zenon
      <4>6. QED
        BY <4>3, <4>4, <4>5
    <3>4. QED
      BY <2>2, <3>1, <3>2, <3>3
  <2>3. ASSUME NEW a \in headers', NEW b \in headers', a < b
        PROVE  BlockEnd(a)' <= b
    <3>1. CASE a \in headers \ {c} /\ b \in headers
      BY <1>15, <2>3, <3>1 DEF HInv, Tiled
    <3>2. CASE a = c /\ b \in headers
      <4>1. BlockEnd(c) <= b /\ b \in Nat
        BY <2>3, <3>2, BlockFacts DEF HInv, Tiled
      <4>2. QED
        BY <1>1, <1>3, <1>16, <3>2, <4>1
    <3>3. CASE a = d /\ b \in headers
      <4>1. b \in Nat
        BY <3>3, BlockFacts
      <4>2. BlockEnd(c) <= b
        BY <1>1, <1>3, <2>3, <3>3, <4>1 DEF HInv, Tiled
      <4>3. QED
        BY <1>16, <3>3, <4>2
    <3>4. CASE a \in headers \ {c} /\ b = d
      <4>1. a \in Nat /\ BlockEnd(a) \in Nat
        BY <3>4, BlockFacts
      <4>2. a < c
        <5>1. ~(c < a)
          BY <1>1, <1>3, <2>3, <3>4, <4>1 DEF HInv, Tiled
        <5>2. QED
          BY <1>1, <3>4, <4>1, <5>1
      <4>3. BlockEnd(a) <= c
        BY <3>4, <4>2 DEF HInv, Tiled
      <4>4. QED
        BY <1>1, <1>3, <1>15, <3>4, <4>1, <4>3
    <3>5. CASE a = c /\ b = d
      BY <1>3, <1>16, <3>5
    <3>6. QED
      BY <1>3, <2>3, <3>1, <3>2, <3>3, <3>4, <3>5
  <2>4. ASSUME NEW a \in headers', a # START
        PROVE  \E b \in headers' : mem'[b].next = a
    <3>1. CASE a = d
      BY <1>12, <3>1
    <3>2. CASE a \in headers
      <4>1. PICK b \in headers : mem[b].next = a
        BY <2>4, <3>2 DEF HInv, Tiled
      <4>2. CASE b = c
        BY <1>10, <4>1, <4>2
      <4>3. CASE b # c
        BY <1>15, <4>1, <4>3
      <4>4. QED
        BY <4>2, <4>3
    <3>3. QED
      BY <2>4, <3>1, <3>2
  <2>5. QED
    BY <2>1, <2>2, <2>3, <2>4 DEF Tiled
<1>18. QED
  BY <1>4, <1>5, <1>8, <1>12, <1>14, <1>15, <1>17

\* kmalloc's split leaves the caller a block of the size it asked for.
LEMMA SplitInv ==
  ASSUME HInv, Serial', NEW p \in Process, kmalloc_split(p)
  PROVE  HInv'
<1> DEFINE c == pc[p].cur
           n == pc[p].size
           x == [pc[p] EXCEPT !.at = "mark"]
<1>1. pc[p] \in Position /\ CallOK(p) /\ pc[p].at = "split" /\ pc[p] # Idle
  BY DEF HInv, TypeOK, kmalloc_split, Idle
<1>2. c \in headers /\ mem[c].free /\ mem[c].size >= n /\ n \in Nat /\ mem[c].size \in Nat
  BY <1>1, BlockFacts DEF CallOK, Position
<1>3. pc' = [pc EXCEPT ![p] = x] /\ UNCHANGED held
  BY DEF kmalloc_split, HInv, TypeOK
<1>4. x \in Position /\ x.at = "mark" /\ x.cur = c /\ x.size = n
      /\ x.bytes = pc[p].bytes /\ x.old = pc[p].old
  BY <1>1 DEF Position
<1>5. pc' \in [Process -> Position] /\ pc'[p] = x /\ \A q \in Process \ {p} : CallOK(q)'
  BY <1>1, <1>3, <1>4, MoveOnly
<1>6. /\ mem' \in [Addr -> heap_block_t] /\ headers' \subseteq Addr
      /\ Tiled'
      /\ mem'[c].free /\ mem'[c].size >= n
      /\ headers \subseteq headers'
      /\ \A a \in headers \ {c} : mem'[a] = mem[a]
  <2>1. CASE CanSplit(mem[c], n)
    <3>1. mem' = [mem EXCEPT ![c + HEADER + n] = Remainder(mem[c], n),
                             ![c] = [@ EXCEPT !.size = n, !.next = c + HEADER + n]]
          /\ headers' = headers \cup {c + HEADER + n}
      BY <2>1 DEF kmalloc_split
    <3> DEFINE d == c + HEADER + n
    <3>2. mem' = [mem EXCEPT ![d] = Remainder(mem[c], n), ![c] = [@ EXCEPT !.size = n, !.next = d]]
          /\ headers' = headers \cup {d}
      BY <3>1
    <3> HIDE DEF c, n
    <3>3. d = c + HEADER + n
      OBVIOUS
    <3> HIDE DEF d
    <3>4. /\ mem' \in [Addr -> heap_block_t] /\ headers' \subseteq Addr
          /\ Tiled'
          /\ mem'[c].size = n /\ mem'[c].free = mem[c].free
          /\ \A a \in headers \ {c} : mem'[a] = mem[a]
      BY <1>2, <2>1, <3>2, <3>3, SplitTiling
    <3>5. QED
      BY <1>2, <3>2, <3>4
  <2>2. CASE ~CanSplit(mem[c], n)
    <3>1. UNCHANGED <<mem, headers>>
      BY <2>2 DEF kmalloc_split
    <3>2. QED
      BY <1>2, <3>1, SameTiling DEF HInv, TypeOK
  <2>3. QED
    BY <2>1, <2>2
<1> HIDE DEF x, c, n
<1>7. TypeOK'
  BY <1>3, <1>5, <1>6 DEF HInv, TypeOK
<1>8. \A q \in Process : \A h \in held[q] : h.addr \in headers \ {c}
  BY <1>2 DEF HInv, OwnedIsAllocated
<1>9. CallOK(p)'
  <2>1. pc[p].old # NULL => mem'[pc[p].old] = mem[pc[p].old]
    BY <1>1, <1>6, <1>8 DEF CallOK
  <2>2. QED
    BY <1>1, <1>2, <1>3, <1>4, <1>5, <1>6, <2>1 DEF CallOK, c, n
<1>10. OwnedIsAllocated'
  BY <1>3, <1>6, <1>8 DEF HInv, OwnedIsAllocated
<1>11. QED
  BY <1>5, <1>6, <1>7, <1>9, <1>10 DEF HInv

\* kfree joins a block with its successor.
LEMMA MergeTiling ==
  ASSUME HInv, NEW c \in headers, NEW m, m = mem[c].next, m # NULL,
         NEW j \in heap_block_t,
         mem' = [mem EXCEPT ![c] = Merged(mem[c], mem[m]), ![m] = j],
         headers' = headers \ {m}
  PROVE  /\ mem' \in [Addr -> heap_block_t]
         /\ Tiled'
         /\ c # m
         /\ \A a \in headers \ {c, m} : mem'[a] = mem[a]
<1>1. /\ c \in Nat /\ c \in Addr /\ mem[c].size \in Nat /\ mem[c] \in heap_block_t
      /\ BlockEnd(c) \in Nat /\ BlockEnd(c) <= END
  BY BlockFacts
<1>2. m \in headers /\ m = BlockEnd(c)
  BY DEF HInv, Tiled
<1>3. /\ m \in Nat /\ m \in Addr /\ mem[m].size \in Nat /\ mem[m] \in heap_block_t
      /\ BlockEnd(m) \in Nat /\ BlockEnd(m) <= END /\ mem[m].next \in Addr \cup {NULL}
  BY <1>2, BlockFacts
<1>4. BlockEnd(c) = c + HEADER + mem[c].size /\ BlockEnd(m) = m + HEADER + mem[m].size
  BY DEF BlockEnd
<1>5. c < m /\ m < BlockEnd(m)
  <2>1. HEADER \in Nat \ {0} /\ m = c + HEADER + mem[c].size
    BY <1>2, <1>4, Sizes
  <2>2. \A x, y \in Nat : x < x + HEADER + y
    BY <2>1
  <2>3. QED
    BY <1>1, <1>3, <1>4, <2>1, <2>2
<1> DEFINE r == mem[c].size + mem[m].size + HEADER
<1>6. r \in 0 .. KERNEL_HEAP_SIZE /\ BlockEnd(m) = c + HEADER + r
  <2>1. HEADER \in Nat \ {0} /\ m = c + HEADER + mem[c].size /\ END = 1 + KERNEL_HEAP_SIZE
        /\ KERNEL_HEAP_SIZE \in Nat /\ c >= 1
    BY <1>1, <1>2, <1>4, Sizes
  <2>2. \A x, y, z \in Nat : (x + HEADER + y) + HEADER + z = x + HEADER + (y + z + HEADER)
    BY <2>1
  <2>3. BlockEnd(m) = c + HEADER + r /\ r \in Nat
    BY <1>1, <1>3, <1>4, <2>1, <2>2
  <2> HIDE DEF r
  <2>4. QED
    BY <1>1, <1>3, <2>1, <2>3
<1>7. Merged(mem[c], mem[m]) = [mem[c] EXCEPT !.size = r, !.next = mem[m].next]
  BY <1>1 DEF Merged, heap_block_t
<1> HIDE DEF r
<1>8. mem \in [Addr -> heap_block_t] /\ headers \subseteq Addr
  BY DEF HInv, TypeOK
<1>9. c # m
  BY <1>1, <1>3, <1>5
<1>10. mem'[c] = [mem[c] EXCEPT !.size = r, !.next = mem[m].next]
  BY <1>1, <1>7, <1>8, <1>9
<1>11. mem'[c] \in heap_block_t /\ mem'[c].size = r /\ mem'[c].next = mem[m].next
  <2>1. mem'[c].size = r /\ mem'[c].next = mem[m].next
    BY <1>1, <1>10 DEF heap_block_t
  <2>2. ASSUME NEW v \in 0 .. KERNEL_HEAP_SIZE, NEW a \in Addr \cup {NULL}
        PROVE  [mem[c] EXCEPT !.size = v, !.next = a] \in heap_block_t
    BY <1>1 DEF heap_block_t
  <2>3. QED
    BY <1>3, <1>6, <1>10, <2>1, <2>2
<1>12. mem'[m] = j
  BY <1>3, <1>8
<1>13. \A a \in Addr \ {c, m} : mem'[a] = mem[a]
  BY <1>8
<1>14. mem' \in [Addr -> heap_block_t]
  BY <1>8, <1>11, <1>12, <1>13
<1>15. \A a \in headers \ {c, m} : mem'[a] = mem[a] /\ BlockEnd(a)' = BlockEnd(a)
  BY <1>8, <1>13 DEF BlockEnd
<1>16. BlockEnd(c)' = BlockEnd(m)
  BY <1>6, <1>11 DEF BlockEnd
<1>17. \A a \in headers : mem[a].next = m => a = c
  <2> SUFFICES ASSUME NEW a \in headers, mem[a].next = m, a # c PROVE FALSE
    OBVIOUS
  <2>1. a \in Nat /\ BlockEnd(a) \in Nat /\ mem[a].size \in Nat /\ BlockEnd(a) = m
    BY BlockFacts DEF HInv, Tiled
  <2>2. CASE a < c
    <3>1. BlockEnd(a) <= c
      BY <2>2 DEF HInv, Tiled
    <3>2. QED
      BY <1>1, <1>3, <1>5, <2>1, <3>1
  <2>3. CASE c < a
    <3>1. BlockEnd(c) <= a
      BY <2>3 DEF HInv, Tiled
    <3>2. BlockEnd(a) = a + HEADER + mem[a].size
      BY DEF BlockEnd
    <3>3. QED
      BY <1>2, <1>3, <2>1, <3>1, <3>2, Sizes
  <2>4. QED
    BY <1>1, <2>1, <2>2, <2>3
<1>18. Tiled'
  <2>1. START \in headers'
    <3>1. START \in headers /\ START # m
      BY <1>1, <1>3, <1>5, Sizes DEF HInv, Tiled
    <3>2. QED
      BY <3>1
  <2>2. ASSUME NEW a \in headers'
        PROVE  /\ BlockEnd(a)' <= END
               /\ mem'[a].next = IF BlockEnd(a)' = END THEN NULL ELSE BlockEnd(a)'
               /\ mem'[a].next # NULL => mem'[a].next \in headers'
    <3>1. CASE a = c
      <4>1. /\ BlockEnd(m) <= END
            /\ mem[m].next = IF BlockEnd(m) = END THEN NULL ELSE BlockEnd(m)
            /\ mem[m].next # NULL => mem[m].next \in headers
        BY <1>2 DEF HInv, Tiled
      <4>2. mem[m].next # m
        BY <1>3, <1>5, <4>1, Sizes
      <4>3. mem'[a].next # NULL => mem'[a].next \in headers'
        BY <1>11, <3>1, <4>1, <4>2
      <4>4. BlockEnd(a)' <= END
        BY <1>16, <3>1, <4>1
      <4>5. mem'[a].next = IF BlockEnd(a)' = END THEN NULL ELSE BlockEnd(a)'
        BY <1>11, <1>16, <3>1, <4>1, Zenon
      <4>6. QED
        BY <4>3, <4>4, <4>5
    <3>2. CASE a \in headers \ {c, m}
      <4>1. /\ BlockEnd(a) <= END
            /\ mem[a].next = IF BlockEnd(a) = END THEN NULL ELSE BlockEnd(a)
            /\ mem[a].next # NULL => mem[a].next \in headers
        BY <3>2 DEF HInv, Tiled
      <4>2. mem'[a] = mem[a] /\ BlockEnd(a)' = BlockEnd(a) /\ mem[a].next # m
        BY <1>15, <1>17, <3>2
      <4>3. mem'[a].next # NULL => mem'[a].next \in headers'
        BY <4>1, <4>2
      <4>4. BlockEnd(a)' <= END
        BY <4>1, <4>2
      <4>5. mem'[a].next = IF BlockEnd(a)' = END THEN NULL ELSE BlockEnd(a)'
        BY <4>1, <4>2, Zenon
      <4>6. QED
        BY <4>3, <4>4, <4>5
    <3>3. QED
      BY <2>2, <3>1, <3>2
  <2>3. ASSUME NEW a \in headers', NEW b \in headers', a < b
        PROVE  BlockEnd(a)' <= b
    <3>1. CASE a \in headers \ {c, m}
      <4>1. BlockEnd(a) <= b
        BY <2>3, <3>1 DEF HInv, Tiled
      <4>2. QED
        BY <1>15, <3>1, <4>1
    <3>2. CASE a = c
      <4>1. b \in Nat /\ BlockEnd(c) <= b /\ b # m
        BY <2>3, <3>2, BlockFacts DEF HInv, Tiled
      <4>2. m < b
        BY <1>2, <1>3, <4>1
      <4>3. BlockEnd(m) <= b
        BY <1>2, <2>3, <4>2 DEF HInv, Tiled
      <4>4. QED
        BY <1>16, <3>2, <4>3
    <3>3. QED
      BY <2>3, <3>1, <3>2
  <2>4. ASSUME NEW a \in headers', a # START
        PROVE  \E b \in headers' : mem'[b].next = a
    <3>1. PICK b \in headers : mem[b].next = a
      BY <2>4 DEF HInv, Tiled
    <3>2. CASE b = m
      BY <1>9, <1>11, <3>1, <3>2
    <3>3. CASE b = c
      BY <2>4, <3>1, <3>3
    <3>4. CASE b \notin {c, m}
      BY <1>15, <3>1, <3>4
    <3>5. QED
      BY <3>2, <3>3, <3>4
  <2>5. QED
    BY <2>1, <2>2, <2>3, <2>4 DEF Tiled
<1>19. QED
  BY <1>9, <1>14, <1>15, <1>18
\* The block that kfree swallows is free, so nobody owns it.
LEMMA MergeInv ==
  ASSUME HInv, Serial', NEW p \in Process, kfree_merge(p)
  PROVE  HInv'
<1> DEFINE c == pc[p].cur
           m == mem[c].next
<1>1. pc[p] \in Position /\ CallOK(p) /\ pc[p].at = "merge" /\ pc[p] # Idle
  BY DEF HInv, TypeOK, kfree_merge, Idle
<1>2. c \in headers /\ c \in Addr /\ mem[c].free /\ Unowned(c)
  BY <1>1, BlockFacts DEF CallOK
<1>3. pc' = [pc EXCEPT ![p] = Idle] /\ UNCHANGED held
  BY DEF kfree_merge
<1>4. Idle \in Position /\ Idle.at = "idle"
  BY <1>2, FreePosition
<1>5. pc' \in [Process -> Position] /\ pc'[p] = Idle /\ \A q \in Process \ {p} : CallOK(q)'
  BY <1>1, <1>3, <1>4, MoveOnly
<1>6. /\ mem' \in [Addr -> heap_block_t] /\ headers' \subseteq Addr
      /\ Tiled'
      /\ \A q \in Process : \A h \in held[q] : h.addr \in headers' /\ mem'[h.addr] = mem[h.addr]
  <2>1. CASE CanMerge(mem[c])
    <3> DEFINE j == IF PointedTo(p, m) THEN mem[m] ELSE Junk
    <3>1. m # NULL /\ mem[m].free /\ headers' = headers \ {m}
          /\ mem' = [mem EXCEPT ![c] = Merged(mem[c], mem[m]),
                                ![m] = IF PointedTo(p, m) THEN @ ELSE Junk]
      BY <2>1 DEF kfree_merge, CanMerge
    <3>2. m \in headers /\ m \in Addr /\ m # c
      <4>1. m \in headers /\ m = BlockEnd(c)
        BY <1>2, <3>1 DEF HInv, Tiled
      <4>2. c \in Nat /\ mem[c].size \in Nat /\ BlockEnd(c) = c + HEADER + mem[c].size
        BY <1>2, BlockFacts DEF BlockEnd
      <4>3. c # BlockEnd(c)
        BY <4>2, Sizes
      <4>4. QED
        BY <4>1, <4>3, BlockFacts
    <3>3. Junk \in heap_block_t
      BY Sizes DEF Junk, heap_block_t
    <3>4. j \in heap_block_t
      BY <3>2, <3>3 DEF HInv, TypeOK
    <3>5. mem' = [mem EXCEPT ![c] = Merged(mem[c], mem[m]), ![m] = j]
      BY <1>2, <3>1, <3>2 DEF HInv, TypeOK
    <3> HIDE DEF j
    <3>6. \A q \in Process : \A h \in held[q] : h.addr \in headers \ {c, m}
      BY <1>2, <3>1 DEF Unowned, HInv, OwnedIsAllocated
    <3> HIDE DEF m, c
    <3>7. m = mem[c].next
      BY DEF m
    <3>8. m # NULL /\ headers' = headers \ {m}
      BY <3>1
    <3>9. mem' \in [Addr -> heap_block_t] /\ Tiled'
          /\ \A a \in headers \ {c, m} : mem'[a] = mem[a]
      BY <1>2, <3>4, <3>5, <3>7, <3>8, MergeTiling
    <3>10. headers' \subseteq Addr
      BY <3>1 DEF HInv, TypeOK
    <3>11. QED
      BY <3>1, <3>6, <3>9, <3>10
  <2>2. CASE ~CanMerge(mem[c])
    <3>1. UNCHANGED <<mem, headers>>
      BY <2>2 DEF kfree_merge
    <3>2. Tiled'
      BY <3>1, SameTiling DEF HInv
    <3>3. QED
      BY <1>1, <3>1, <3>2 DEF HInv, TypeOK, OwnedIsAllocated
  <2>3. QED
    BY <2>1, <2>2
<1>7. TypeOK'
  BY <1>3, <1>5, <1>6 DEF HInv, TypeOK
<1>8. CallOK(p)'
  BY <1>4, <1>5 DEF CallOK
<1>9. OwnedIsAllocated'
  BY <1>3, <1>6 DEF HInv, OwnedIsAllocated
<1>10. QED
  BY <1>5, <1>6, <1>7, <1>8, <1>9 DEF HInv

-----------------------------------------------------------------------------
(* Theorems                                                                *)

\* Every step of the allocator preserves the invariant: one case per action.
LEMMA NextHInv == HInv /\ [Next /\ Serial']_vars => HInv'
<1> SUFFICES ASSUME HInv, [Next /\ Serial']_vars PROVE HInv'
  OBVIOUS
<1>1. CASE UNCHANGED vars
  <2>1. Tiled'
    BY <1>1, SameTiling DEF HInv, vars
  <2>2. QED
    BY <1>1, <2>1 DEF vars, HInv, TypeOK, CallOK, Unowned, OwnedIsAllocated, Serial
<1>2. ASSUME NEW p \in Process, Step(p), Serial'
      PROVE  HInv'
  BY <1>2, WalkInv, SplitInv, MarkInv, CopyInv, KfreeMarkInv, MergeInv DEF Step
<1>3. ASSUME NEW p \in Process, Call(p), Serial'
      PROVE  HInv'
  BY <1>3, KmallocInv, KfreeInv, KreallocInv DEF Call
<1>4. QED
  BY <1>1, <1>2, <1>3 DEF Next

\* The inductive invariant of the allocator, kept while no call is overtaken by
\* another: besides the properties below, what a call knows at each of its steps
\* about its block and about the block krealloc replaces.
THEOREM HeapInvariant == SerialSpec => []HInv
<1>1. Init => HInv
  BY InitHInv
<1>2. HInv /\ [Next /\ Serial']_vars => HInv'
  BY NextHInv
<1>3. QED
  BY <1>1, <1>2, PTL DEF SerialSpec

\* Every header the allocator reads or writes stays a block header at an address
\* of the heap, and every pointer in it stays null or such an address: krealloc's
\* copy never writes over one.
THEOREM HeapTypeCorrect == SerialSpec => []TypeOK
<1>1. HInv => TypeOK
  BY DEF HInv
<1>2. QED
  BY <1>1, HeapInvariant, PTL

\* Through any sequence of kmalloc, kfree and krealloc of any number of processes
\* the block list tiles the heap: no gap, no overlap, no cycle (init_heap,
\* kmalloc, kfree, and the copy in krealloc).
THEOREM HeapIsTiled == SerialSpec => []Tiled
<1>1. HInv => Tiled
  BY DEF HInv
<1>2. QED
  BY <1>1, HeapInvariant, PTL

\* A block that was handed out stays marked as used, is as large as requested and
\* is not handed out again, to any process, before it is freed.
THEOREM HandedOutOnce == SerialSpec => []OwnedIsAllocated
<1>1. HInv => OwnedIsAllocated
  BY DEF HInv
<1>2. QED
  BY <1>1, HeapInvariant, PTL

-----------------------------------------------------------------------------
(* What get_heap_stats adds up                                             *)

\* f sums up the sizes of the blocks of every part of S that has at most n
\* elements, in the order in which the library's fold takes them.
Parts(S, n) == {s \in SUBSET S : Cardinality(s) <= n}

IsPartialSum(f, m, S, n) ==
    f = [s \in Parts(S, n) |->
            IF s = {} THEN 0
            ELSE m[CHOOSE x \in s : TRUE].size + f[s \ {CHOOSE x \in s : TRUE}]]

IsSum(f, m, S) ==
    f = [s \in SUBSET S |->
            IF s = {} THEN 0
            ELSE m[CHOOSE x \in s : TRUE].size + f[s \ {CHOOSE x \in s : TRUE}]]

LEMMA Picked ==
  ASSUME NEW S, IsFiniteSet(S), NEW s \in SUBSET S, NEW x \in s
  PROVE  /\ IsFiniteSet(s) /\ s \ {x} \in SUBSET S
         /\ Cardinality(s) \in Nat /\ Cardinality(s \ {x}) = Cardinality(s) - 1
         /\ Cardinality(s) > 0
<1>1. IsFiniteSet(s) /\ Cardinality(s) \in Nat
  BY FS_Subset, FS_CardinalityType
<1>2. IsFiniteSet(s \ {x}) /\ Cardinality(s \ {x}) = Cardinality(s) - 1
  BY <1>1, FS_RemoveElement
<1>3. Cardinality(s \ {x}) \in Nat
  BY <1>2, FS_CardinalityType
<1>4. QED
  BY <1>1, <1>2, <1>3

LEMMA NoParts ==
  ASSUME NEW S, IsFiniteSet(S)
  PROVE  \A s \in Parts(S, 0) : s = {}
<1> SUFFICES ASSUME NEW s \in Parts(S, 0), s # {} PROVE FALSE
  OBVIOUS
<1>1. s \in SUBSET S /\ Cardinality(s) <= 0
  BY DEF Parts
<1>2. PICK x \in s : TRUE
  OBVIOUS
<1>3. Cardinality(s) \in Nat /\ Cardinality(s) > 0
  BY <1>1, Picked
<1>4. QED
  BY <1>1, <1>3

LEMMA SumExists ==
  ASSUME NEW m, NEW S, IsFiniteSet(S)
  PROVE  \E f : IsSum(f, m, S)
<1> DEFINE N == Cardinality(S)
           T == {n \in 0 .. N : \E f : IsPartialSum(f, m, S, n)}
           c(s) == CHOOSE x \in s : TRUE
<1>1. N \in Nat
  BY FS_CardinalityType
<1>2. \A s \in SUBSET S : s # {} => c(s) \in s
  OBVIOUS
<1>3. 0 \in T
  <2> DEFINE f == [s \in Parts(S, 0) |-> 0]
  <2>1. \A s \in Parts(S, 0) : s = {}
    BY NoParts
  <2>2. IsPartialSum(f, m, S, 0)
    BY <2>1 DEF IsPartialSum
  <2>3. QED
    BY <1>1, <2>2
<1>4. ASSUME NEW n \in 1 .. N, n - 1 \in T PROVE n \in T
  <2>1. PICK g : IsPartialSum(g, m, S, n - 1)
    BY <1>4
  <2> DEFINE f == [s \in Parts(S, n) |-> IF s = {} THEN 0 ELSE m[c(s)].size + g[s \ {c(s)}]]
  <2> HIDE DEF c
  <2>2. \A s \in Parts(S, n - 1) :
            s \in Parts(S, n) /\ g[s] = IF s = {} THEN 0 ELSE m[c(s)].size + g[s \ {c(s)}]
    <3> TAKE s \in Parts(S, n - 1)
    <3>1. s \in SUBSET S /\ Cardinality(s) <= n - 1
      BY DEF Parts
    <3>2. Cardinality(s) \in Nat
      BY <3>1, FS_Subset, FS_CardinalityType
    <3>3. s \in Parts(S, n)
      BY <3>1, <3>2 DEF Parts
    <3>4. QED
      BY <2>1, <3>3 DEF IsPartialSum, c
  <2>3. \A s \in Parts(S, n - 1) : f[s] = g[s]
    BY <2>2
  <2>4. \A s \in Parts(S, n) : s # {} => s \ {c(s)} \in Parts(S, n - 1)
    <3> TAKE s \in Parts(S, n)
    <3> HAVE s # {}
    <3>1. s \in SUBSET S /\ Cardinality(s) <= n
      BY DEF Parts
    <3>2. c(s) \in s
      BY <1>2, <3>1
    <3>3. s \ {c(s)} \in SUBSET S /\ Cardinality(s \ {c(s)}) = Cardinality(s) - 1
          /\ Cardinality(s) \in Nat
      BY <3>1, <3>2, Picked
    <3>4. QED
      BY <3>1, <3>3 DEF Parts
  <2>5. \A s \in Parts(S, n) : f[s] = IF s = {} THEN 0 ELSE m[c(s)].size + f[s \ {c(s)}]
    BY <2>3, <2>4
  <2>6. f = [s \in Parts(S, n) |-> f[s]]
    OBVIOUS
  <2> HIDE DEF f
  <2>7. f = [s \in Parts(S, n) |-> IF s = {} THEN 0 ELSE m[c(s)].size + f[s \ {c(s)}]]
    BY <2>5, <2>6
  <2>8. IsPartialSum(f, m, S, n)
    BY <2>7 DEF IsPartialSum, c
  <2>9. QED
    BY <2>8
<1> HIDE DEF T
<1>5. N \in T
  BY <1>1, <1>3, <1>4, Induction
<1>6. PICK f : IsPartialSum(f, m, S, N)
  BY <1>5 DEF T
<1>7. Parts(S, N) = SUBSET S
  <2>1. \A s \in SUBSET S : Cardinality(s) <= N
    BY FS_Subset
  <2>2. QED
    BY <2>1 DEF Parts
<1>8. QED
  BY <1>6, <1>7 DEF IsPartialSum, IsSum

\* Whichever block is taken first, the rest adds up the same.
LEMMA SumStep ==
  ASSUME NEW m, NEW S, IsFiniteSet(S), \A a \in S : m[a].size \in Nat, NEW f, IsSum(f, m, S)
  PROVE  /\ f[{}] = 0
         /\ \A s \in SUBSET S : f[s] \in Nat
         /\ \A s \in SUBSET S : \A x \in s : f[s] = m[x].size + f[s \ {x}]
<1> DEFINE N == Cardinality(S)
           Right(s) == f[s] \in Nat /\ \A x \in s : f[s] = m[x].size + f[s \ {x}]
           T == {n \in 0 .. N : \A s \in Parts(S, n) : Right(s)}
           c(s) == CHOOSE x \in s : TRUE
<1>1. N \in Nat
  BY FS_CardinalityType
<1>2. \A s \in SUBSET S : s # {} => c(s) \in s
  OBVIOUS
<1>a. \A s \in SUBSET S : f[s] = IF s = {} THEN 0 ELSE m[c(s)].size + f[s \ {c(s)}]
  BY DEF IsSum
<1>b. f[{}] = 0
  BY <1>a
<1> HIDE DEF c
<1>3. 0 \in T
  <2>1. \A s \in Parts(S, 0) : s = {}
    BY NoParts
  <2>2. QED
    BY <1>1, <1>b, <2>1
<1>4. ASSUME NEW n \in 1 .. N, n - 1 \in T PROVE n \in T
  <2>1. \A s \in Parts(S, n - 1) : Right(s)
    BY <1>4
  <2>2. ASSUME NEW s \in Parts(S, n), s # {} PROVE Right(s)
    <3> DEFINE y == c(s)
    <3>1. s \in SUBSET S /\ Cardinality(s) <= n
      BY DEF Parts
    <3>2. y \in s
      BY <1>2, <2>2, <3>1
    <3>3. \A x \in s : s \ {x} \in Parts(S, n - 1)
      <4> TAKE x \in s
      <4>1. s \ {x} \in SUBSET S /\ Cardinality(s \ {x}) = Cardinality(s) - 1
            /\ Cardinality(s) \in Nat
        BY <3>1, Picked
      <4>2. QED
        BY <3>1, <4>1 DEF Parts
    <3>4. f[s] = m[y].size + f[s \ {y}]
      BY <1>a, <2>2, <3>1
    <3> HIDE DEF y, Right
    <3>5. \A x \in s : Right(s \ {x})
      BY <2>1, <3>3
    <3>6. \A x \in s : f[s \ {x}] \in Nat /\ m[x].size \in Nat
      BY <3>1, <3>5 DEF Right
    <3>7. f[s] \in Nat
      BY <3>2, <3>4, <3>6
    <3>8. ASSUME NEW x \in s, x # y PROVE f[s] = m[x].size + f[s \ {x}]
      <4> DEFINE r == (s \ {y}) \ {x}
      <4>1. r = (s \ {x}) \ {y} /\ x \in s \ {y} /\ y \in s \ {x}
        BY <3>2, <3>8
      <4>2. f[s \ {y}] = m[x].size + f[r] /\ f[s \ {x}] = m[y].size + f[r]
        BY <3>2, <3>5, <4>1 DEF Right
      <4>3. f[r] \in Nat
        <5>1. r \in SUBSET S /\ r \in Parts(S, n - 1)
          <6>1. s \ {y} \in SUBSET S /\ Cardinality(s \ {y}) \in Nat
                /\ Cardinality(s \ {y}) <= n - 1 /\ IsFiniteSet(s \ {y})
            <7>1. s \ {y} \in SUBSET S /\ Cardinality(s \ {y}) <= n - 1
              BY <3>2, <3>3 DEF Parts
            <7>2. QED
              BY <7>1, FS_Subset, FS_CardinalityType
          <6>2. Cardinality(r) = Cardinality(s \ {y}) - 1
            BY <4>1, <6>1, FS_RemoveElement
          <6> HIDE DEF r
          <6>3. r \in SUBSET S
            BY <3>1 DEF r
          <6>4. QED
            BY <6>1, <6>2, <6>3 DEF Parts
        <5> HIDE DEF r
        <5>2. QED
          BY <2>1, <5>1 DEF Right
      <4> HIDE DEF r
      <4>4. m[x].size \in Nat /\ m[y].size \in Nat
        BY <3>2, <3>6
      <4>5. QED
        BY <3>4, <4>2, <4>3, <4>4
    <3>9. QED
      BY <3>4, <3>7, <3>8 DEF Right
  <2>3. Right({})
    BY <1>b
  <2> HIDE DEF Right
  <2>4. \A s \in Parts(S, n) : Right(s)
    BY <2>2, <2>3, Zenon
  <2>5. n \in 0 .. N
    BY <1>1
  <2>6. QED
    BY <2>4, <2>5
<1> HIDE DEF T
<1>5. N \in T
  BY <1>1, <1>3, <1>4, Induction
<1>6. \A s \in SUBSET S : s \in Parts(S, N)
  BY FS_Subset DEF Parts
<1>7. \A s \in SUBSET S : Right(s)
  BY <1>5, <1>6 DEF T
<1>8. QED
  BY <1>b, <1>7

\* get_heap_stats adds up the sizes of the blocks of a set.
LEMMA StatsAreSums ==
  /\ IsFiniteSet({a \in headers : ~mem[a].free}) =>
        \E f : IsSum(f, mem, {a \in headers : ~mem[a].free})
                 /\ used_size = f[{a \in headers : ~mem[a].free}]
  /\ IsFiniteSet({a \in headers : mem[a].free}) =>
        \E f : IsSum(f, mem, {a \in headers : mem[a].free})
                 /\ free_size = f[{a \in headers : mem[a].free}]
<1> DEFINE U == {a \in headers : ~mem[a].free}
           F == {a \in headers : mem[a].free}
           f(S) == CHOOSE f : IsSum(f, mem, S)
<1>1. \A S : IsFiniteSet(S) => IsSum(f(S), mem, S)
  BY SumExists
<1>2. used_size = f(U)[U]
  BY DEF used_size, MapThenSumSet, MapThenFoldSet, IsSum
<1>3. free_size = f(F)[F]
  BY DEF free_size, MapThenSumSet, MapThenFoldSet, IsSum
<1> HIDE DEF f, U, F
<1>4. QED
  BY <1>1, <1>2, <1>3 DEF U, F

\* The blocks before an address.
Before(b) == {a \in headers : a < b}

\* Two parts of the list grow by the block that ends at b.
LEMMA BlockJoins ==
  ASSUME HInv, NEW a \in headers
  PROVE  /\ Before(BlockEnd(a)) = Before(a) \cup {a} /\ a \notin Before(a)
         /\ a < BlockEnd(a) /\ BlockEnd(a) = a + HEADER + mem[a].size
<1>1. \A c \in headers : c \in Nat
  BY BlockFacts
<1>2. a \in Nat /\ mem[a].size \in Nat /\ BlockEnd(a) \in Nat
  BY BlockFacts
<1>3. a < BlockEnd(a)
  BY <1>2, Sizes DEF BlockEnd
<1>4. \A c \in headers : a < c => BlockEnd(a) <= c
  BY DEF HInv, Tiled
<1> DEFINE e == BlockEnd(a)
<1>a. e \in Nat /\ a < e /\ \A c \in headers : a < c => e <= c
  BY <1>2, <1>3, <1>4
<1> HIDE DEF e
<1>5. \A c \in headers : c < e <=> c < a \/ c = a
  BY <1>1, <1>2, <1>a
<1>6. Before(e) = Before(a) \cup {a} /\ a \notin Before(a)
  <2>1. \A c : c \in Before(e) <=> c \in headers /\ c < e
    BY DEF Before
  <2>2. \A c : c \in Before(a) <=> c \in headers /\ c < a
    BY DEF Before
  <2>3. a \notin Before(a)
    BY <1>2, <2>2
  <2>4. \A c : c \in Before(e) <=> c \in Before(a) \/ c = a
    BY <1>5, <2>1, <2>2, Zenon
  <2>5. QED
    BY <2>3, <2>4
<1>7. QED
  BY <1>3, <1>6 DEF e, BlockEnd

\* f adds up the sizes of the used blocks and g those of the free ones.
Adds(f, g) ==
    /\ IsSum(f, mem, {a \in headers : ~mem[a].free})
    /\ IsSum(g, mem, {a \in headers : mem[a].free})

UsedBefore(b) == {a \in Before(b) : ~mem[a].free}
FreeBefore(b) == {a \in Before(b) : mem[a].free}

\* What lies before an address is accounted for.
AddsUpTo(f, g, b) ==
    f[UsedBefore(b)] + g[FreeBefore(b)] + Cardinality(Before(b)) * HEADER = b - START

LEMMA HeadersFinite ==
  ASSUME HInv
  PROVE  IsFiniteSet(headers)
<1>1. headers \in SUBSET Addr
  BY DEF HInv, TypeOK
<1>2. IsFiniteSet(Addr)
  BY Sizes, FS_Interval
<1>3. QED
  BY <1>1, <1>2, FS_Subset

LEMMA Distributes == \A k, h \in Nat : (k + 1) * h = k * h + h /\ k * h \in Nat /\ 0 * h = 0
OBVIOUS

LEMMA BlockAdds ==
  ASSUME HInv, NEW f, NEW g, Adds(f, g), NEW a \in headers, AddsUpTo(f, g, a)
  PROVE  AddsUpTo(f, g, BlockEnd(a))
<1> DEFINE U == {c \in headers : ~mem[c].free}
           F == {c \in headers : mem[c].free}
           e == BlockEnd(a)
           k == Cardinality(Before(a))
           l == Cardinality(Before(e))
           size == mem[a].size
<1>1. Before(e) = Before(a) \cup {a} /\ a \notin Before(a) /\ e = a + HEADER + size
  BY BlockJoins
<1>2. IsFiniteSet(headers)
  BY HeadersFinite
<1>3. \A c \in headers : mem[c].size \in Nat
  BY BlockFacts
<1>4. U \in SUBSET headers /\ F \in SUBSET headers
  OBVIOUS
<1>5. IsFiniteSet(U) /\ IsFiniteSet(F)
  <2> HIDE DEF U, F
  <2> QED
    BY <1>2, <1>4, FS_Subset
<1>6. /\ \A s \in SUBSET U : f[s] \in Nat
      /\ \A s \in SUBSET U : \A x \in s : f[s] = mem[x].size + f[s \ {x}]
  <2>1. IsSum(f, mem, U) /\ \A c \in U : mem[c].size \in Nat
    BY <1>3 DEF Adds
  <2> HIDE DEF U
  <2>2. QED
    BY <1>5, <2>1, SumStep
<1>7. /\ \A s \in SUBSET F : g[s] \in Nat
      /\ \A s \in SUBSET F : \A x \in s : g[s] = mem[x].size + g[s \ {x}]
  <2>1. IsSum(g, mem, F) /\ \A c \in F : mem[c].size \in Nat
    BY <1>3 DEF Adds
  <2> HIDE DEF F
  <2>2. QED
    BY <1>5, <2>1, SumStep
<1>8. k \in Nat /\ l = k + 1
  <2>1. Before(a) \in SUBSET headers
    BY DEF Before
  <2>2. IsFiniteSet(Before(a))
    BY <1>2, <2>1, FS_Subset
  <2>3. QED
    BY <1>1, <2>2, FS_AddElement, FS_CardinalityType
<1>9. /\ UsedBefore(a) \in SUBSET U /\ UsedBefore(e) \in SUBSET U
      /\ FreeBefore(a) \in SUBSET F /\ FreeBefore(e) \in SUBSET F
  BY DEF UsedBefore, FreeBefore, Before
<1>10. a \in Nat /\ size \in Nat /\ HEADER \in Nat /\ START = 1
  BY BlockFacts, Sizes
<1>11. l * HEADER = k * HEADER + HEADER /\ k * HEADER \in Nat
  BY <1>8, <1>10, Distributes
<1>12. f[UsedBefore(a)] \in Nat /\ g[FreeBefore(a)] \in Nat
  BY <1>6, <1>7, <1>9
<1>13. f[UsedBefore(a)] + g[FreeBefore(a)] + k * HEADER = a - START
  BY DEF AddsUpTo
<1> HIDE DEF U, F, e, k, l, size
<1>14. f[UsedBefore(e)] + g[FreeBefore(e)] = f[UsedBefore(a)] + g[FreeBefore(a)] + size
  <2>1. CASE mem[a].free
    <3>1. UsedBefore(e) = UsedBefore(a)
      BY <1>1, <2>1 DEF UsedBefore
    <3>2. a \in FreeBefore(e) /\ FreeBefore(e) \ {a} = FreeBefore(a)
      BY <1>1, <2>1 DEF FreeBefore
    <3>3. g[FreeBefore(e)] = mem[a].size + g[FreeBefore(e) \ {a}]
      BY <1>7, <1>9, <3>2
    <3>4. f[UsedBefore(e)] = f[UsedBefore(a)] /\ g[FreeBefore(e)] = size + g[FreeBefore(a)]
      BY <3>1, <3>2, <3>3, Zenon DEF size
    <3>5. QED
      BY <1>10, <1>12, <3>4
  <2>2. CASE ~mem[a].free
    <3>1. FreeBefore(e) = FreeBefore(a)
      BY <1>1, <2>2 DEF FreeBefore
    <3>2. a \in UsedBefore(e) /\ UsedBefore(e) \ {a} = UsedBefore(a)
      BY <1>1, <2>2 DEF UsedBefore
    <3>3. f[UsedBefore(e)] = mem[a].size + f[UsedBefore(e) \ {a}]
      BY <1>6, <1>9, <3>2
    <3>4. g[FreeBefore(e)] = g[FreeBefore(a)] /\ f[UsedBefore(e)] = size + f[UsedBefore(a)]
      BY <3>1, <3>2, <3>3, Zenon DEF size
    <3>5. QED
      BY <1>10, <1>12, <3>4
  <2>3. QED
    BY <2>1, <2>2
<1>15. f[UsedBefore(e)] \in Nat /\ g[FreeBefore(e)] \in Nat
  BY <1>6, <1>7, <1>9
<1>16. f[UsedBefore(e)] + g[FreeBefore(e)] + l * HEADER = e - START
  BY <1>1, <1>10, <1>11, <1>12, <1>13, <1>14, <1>15
<1>17. QED
  BY <1>16 DEF AddsUpTo, e, l

\* The walk from the start of the list accounts for every block it passes.
LEMMA WalkAddsUp ==
  ASSUME HInv, NEW f, NEW g, Adds(f, g)
  PROVE  \A a \in headers : AddsUpTo(f, g, a)
<1> DEFINE T == {a \in headers : ~AddsUpTo(f, g, a)}
<1> SUFFICES ASSUME T # {} PROVE FALSE
  OBVIOUS
<1>1. T \in SUBSET Nat
  BY BlockFacts
<1>2. PICK a \in T : \A j \in T : a <= j
  BY <1>1, LeastExists
<1>3. a \in headers /\ ~AddsUpTo(f, g, a)
  OBVIOUS
<1>4. a # START
  <2> SUFFICES ASSUME a = START PROVE AddsUpTo(f, g, START)
    BY <1>3
  <2>1. \A c \in headers : ~(c < START)
    <3>1. \A c \in headers : c \in Addr
      BY DEF HInv, TypeOK
    <3>2. QED
      BY <3>1, Sizes
  <2>2. Before(START) = {}
    BY <2>1 DEF Before
  <2>3. UsedBefore(START) = {} /\ FreeBefore(START) = {} /\ Cardinality(Before(START)) = 0
    BY <2>2, FS_EmptySet DEF UsedBefore, FreeBefore
  <2>4. f[{}] = 0 /\ g[{}] = 0
    BY DEF Adds, IsSum
  <2>5. 0 * HEADER = 0 /\ START = 1
    BY Sizes, Distributes
  <2>6. QED
    BY <2>3, <2>4, <2>5 DEF AddsUpTo
<1>5. PICK b \in headers : mem[b].next = a
  BY <1>3, <1>4 DEF HInv, Tiled
<1>6. a # NULL
  BY <1>3, BlockFacts, Sizes
<1>7. BlockEnd(b) = a
  BY <1>5, <1>6 DEF HInv, Tiled
<1>8. b < a
  BY <1>7, BlockJoins
<1>9. b \in Nat /\ a \in Nat
  BY <1>3, BlockFacts
<1>10. b \notin T
  BY <1>2, <1>8, <1>9
<1>11. AddsUpTo(f, g, b)
  BY <1>10
<1>12. QED
  BY <1>3, <1>7, <1>11, BlockAdds

\* No word of the heap leaks, whatever is allocated, split, freed and merged:
\* used, free and header words that get_heap_stats counts make up the heap.
THEOREM NoWordLeaks == SerialSpec => []StatsAddUp
<1>1. ASSUME HInv PROVE StatsAddUp
  <2> DEFINE U == {a \in headers : ~mem[a].free}
             F == {a \in headers : mem[a].free}
  <2>1. IsFiniteSet(headers) /\ U \in SUBSET headers /\ F \in SUBSET headers
    BY <1>1, HeadersFinite
  <2>2. IsFiniteSet(U) /\ IsFiniteSet(F)
    <3> HIDE DEF U, F
    <3> QED
      BY <2>1, FS_Subset
  <2>3. PICK f : IsSum(f, mem, U) /\ used_size = f[U]
    BY <2>2, StatsAreSums
  <2>4. PICK g : IsSum(g, mem, F) /\ free_size = g[F]
    BY <2>2, StatsAreSums
  <2>5. Adds(f, g)
    BY <2>3, <2>4 DEF Adds
  <2>6. PICK a \in headers : \A c \in headers : c <= a
    <3>1. START \in headers /\ headers \in SUBSET Addr
      BY <1>1 DEF HInv, Tiled, TypeOK
    <3>2. headers # {} /\ headers \in SUBSET (1 .. KERNEL_HEAP_SIZE)
      BY <3>1, Sizes
    <3>3. KERNEL_HEAP_SIZE \in Nat
      BY Sizes
    <3>4. QED
      BY <3>2, <3>3, GreatestExists
  <2>7. BlockEnd(a) = END
    <3>1. SUFFICES ASSUME BlockEnd(a) # END PROVE FALSE
      OBVIOUS
    <3>2. mem[a].next = BlockEnd(a)
      BY <1>1, <3>1 DEF HInv, Tiled
    <3>3. a < BlockEnd(a) /\ a \in Nat /\ BlockEnd(a) \in Nat
      BY <1>1, BlockJoins, BlockFacts
    <3>4. mem[a].next # NULL
      BY <3>2, <3>3, Sizes
    <3>5. BlockEnd(a) \in headers
      BY <1>1, <3>2, <3>4 DEF HInv, Tiled
    <3>6. QED
      BY <2>6, <3>3, <3>5
  <2>8. AddsUpTo(f, g, END)
    <3>1. AddsUpTo(f, g, BlockEnd(a))
      BY <1>1, <2>5, WalkAddsUp, BlockAdds
    <3>2. QED
      BY <2>7, <3>1
  <2>9. Before(END) = headers
    <3>1. \A c \in headers : c \in Addr
      BY <1>1 DEF HInv, TypeOK
    <3>2. \A c \in headers : c < END
      BY <3>1, Sizes
    <3>3. QED
      BY <3>2 DEF Before
  <2>10. UsedBefore(END) = U /\ FreeBefore(END) = F
    BY <2>9 DEF UsedBefore, FreeBefore
  <2>11. END - START = KERNEL_HEAP_SIZE
    BY Sizes
  <2> HIDE DEF U, F
  <2>12. QED
    BY <2>3, <2>4, <2>8, <2>9, <2>10, <2>11 DEF AddsUpTo, StatsAddUp, overhead
<1>2. HInv => StatsAddUp
  BY <1>1
<1>3. QED
  BY <1>2, HeapInvariant, PTL
=============================================================================
