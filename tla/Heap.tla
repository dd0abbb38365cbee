-------------------------------- MODULE Heap --------------------------------
(***************************************************************************)
(* The kernel heap: heap.cpp.  A list of blocks, each with a header, tiles *)
(* the heap; kmalloc takes the first free block that is large enough and   *)
(* splits it, kfree merges a block with its successor.                     *)
(*                                                                         *)
(* The unit is the 32-bit word: sizeof(heap_block_t) is 3, the alignment 4.*)
(* Nothing disables interrupts here, and the shell and the editor call     *)
(* these functions in their own context (through the file systems and      *)
(* k_start_process): each function is several steps, between which the     *)
(* timer may give the CPU to another process.  Spec allows all of that;    *)
(* SerialSpec is the part of it in which no call is overtaken by another.  *)
(*                                                                         *)
(* A header that was merged away is payload from then on.  Its last value  *)
(* is kept while another process still has a pointer to it and forgotten   *)
(* (Junk) otherwise, when nothing reads it until a split writes it anew.   *)
(***************************************************************************)
EXTENDS Integers, FiniteSets, FiniteSetsExt

CONSTANTS Process,
          KERNEL_HEAP_SIZE,
          HEADER,             \* sizeof(heap_block_t)
          ALIGN,              \* what align16 rounds up to
          SIZE_RANGE,         \* the number of values of a size_t
          Request             \* bound: the sizes callers ask for

ASSUME HeapAssumption ==
    /\ HEADER \in Nat \ {0}
    /\ ALIGN \in Nat \ {0}
    /\ KERNEL_HEAP_SIZE \in Nat /\ HEADER < KERNEL_HEAP_SIZE
    /\ SIZE_RANGE \in Nat /\ KERNEL_HEAP_SIZE + HEADER + ALIGN < SIZE_RANGE
    \* Callers ask for the size of a structure, of a cluster or of the contents
    \* of a file: nothing within an alignment unit of the end of the range,
    \* where align16 would wrap around to 0.
    /\ Request \subseteq 1 .. (SIZE_RANGE - ALIGN)

VARIABLES mem,        \* the header last written at each address
          headers,    \* history: the addresses of the blocks in the list
          held,       \* the blocks each process owns: address and bytes asked for
          pc          \* where each process is in heap.cpp

vars == <<mem, headers, held, pc>>

NULL == 0
START == 1                              \* KERNEL_HEAP_START
END == START + KERNEL_HEAP_SIZE
Addr == START .. (END - 1)

heap_block_t == [size : 0 .. KERNEL_HEAP_SIZE, next : Addr \cup {NULL}, free : BOOLEAN]

Held == [addr : Addr, bytes : Request]

\* cur is the function's block pointer, size its rounded argument, bytes the
\* argument as given; old is the block krealloc replaces.
Position == [at : {"idle", "walk", "split", "mark", "copy", "free", "merge"},
             cur : Addr \cup {NULL}, size : 0 .. (SIZE_RANGE - 1),
             bytes : Request \cup {0}, old : Addr \cup {NULL}]

Idle == [at |-> "idle", cur |-> NULL, size |-> 0, bytes |-> 0, old |-> NULL]

\* The sum wraps around.
align16(n) == (((n + ALIGN - 1) % SIZE_RANGE) \div ALIGN) * ALIGN

Junk == [size |-> 0, next |-> NULL, free |-> FALSE]

\* init_heap: one free block.
Init ==
    /\ mem = [a \in Addr |->
                IF a = START
                THEN [size |-> KERNEL_HEAP_SIZE - HEADER, next |-> NULL, free |-> TRUE]
                ELSE Junk]
    /\ headers = {START}
    /\ held = [p \in Process |-> {}]
    /\ pc = [p \in Process |-> Idle]

-----------------------------------------------------------------------------
Walk(p, bytes, old) ==
    pc' = [pc EXCEPT ![p] = [at |-> "walk", cur |-> START, size |-> align16(bytes),
                             bytes |-> bytes, old |-> old]]

kmalloc(p, bytes) ==
    /\ pc[p] = Idle
    /\ Walk(p, bytes, NULL)
    /\ UNCHANGED <<mem, headers, held>>

\* Mutant: the search starts over at the end of the list.
kmalloc_walk_Restarts(p) ==
    /\ pc[p].at = "walk"
    /\ LET current == mem[pc[p].cur]
       IN  \/ /\ current.free /\ current.size >= pc[p].size
              /\ pc' = [pc EXCEPT ![p].at = "split"]
           \/ /\ ~(current.free /\ current.size >= pc[p].size)
              /\ pc' = [pc EXCEPT ![p].cur = IF current.next = NULL THEN START ELSE current.next]
    /\ UNCHANGED <<mem, headers, held>>

\* One turn of the search loop; at the end of the list kmalloc returns NULL.
kmalloc_walk(p) ==
    /\ pc[p].at = "walk"
    /\ LET current == mem[pc[p].cur]
       IN  \/ /\ current.free /\ current.size >= pc[p].size
              /\ pc' = [pc EXCEPT ![p].at = "split"]
           \/ /\ ~(current.free /\ current.size >= pc[p].size)
              /\ current.next # NULL
              /\ pc' = [pc EXCEPT ![p].cur = current.next]
           \/ /\ ~(current.free /\ current.size >= pc[p].size)
              /\ current.next = NULL
              /\ pc' = [pc EXCEPT ![p] = Idle]
    /\ UNCHANGED <<mem, headers, held>>

\* Mutant: the new block forgets to account for its own header.
Remainder_NoHeader(block, size) == [block EXCEPT !.size = @ - size]

\* The block that is split off.
Remainder(block, size) == [block EXCEPT !.size = @ - size - HEADER, !.free = TRUE]

\* Mutant: a block is split although the rest has no room for a header.
CanSplit_NoHeader(block, size) == block.size >= size

CanSplit(block, size) == block.size >= size + HEADER + ALIGN

kmalloc_split(p) ==
    /\ pc[p].at = "split"
    /\ LET c == pc[p].cur
           current == mem[c]
           new_block == c + HEADER + pc[p].size
       IN  \/ /\ CanSplit(current, pc[p].size)
              /\ mem' = [mem EXCEPT ![new_block] = Remainder(current, pc[p].size),
                                    ![c] = [@ EXCEPT !.size = pc[p].size, !.next = new_block]]
              /\ headers' = headers \cup {new_block}
           \/ /\ ~CanSplit(current, pc[p].size)
              /\ UNCHANGED <<mem, headers>>
    /\ pc' = [pc EXCEPT ![p].at = "mark"]
    /\ UNCHANGED held

Without(p, a) == {h \in held[p] : h.addr # a}

\* The block is the caller's, which is krealloc when there is an old block.
kmalloc_mark(p) ==
    /\ pc[p].at = "mark"
    /\ mem' = [mem EXCEPT ![pc[p].cur].free = FALSE]
    /\ \/ /\ pc[p].old = NULL
          /\ held' = [held EXCEPT ![p] = @ \cup {[addr |-> pc[p].cur, bytes |-> pc[p].bytes]}]
          /\ pc' = [pc EXCEPT ![p] = Idle]
       \/ /\ pc[p].old # NULL
          /\ pc' = [pc EXCEPT ![p].at = "copy"]
          /\ UNCHANGED held
    /\ UNCHANGED headers

\* The headers of which a copy to the block at a of that many words hits a word,
\* in the list or still pointed to.
Hit(a, words) ==
    {b \in headers \cup {pc[q].cur : q \in Process} : a < b /\ b < a + HEADER + words}

\* What a header reads like when data was written over it.
Garbage == [size : 0 .. (SIZE_RANGE - 1), next : 0 .. (SIZE_RANGE - 1), free : BOOLEAN]

\* krealloc's memcpy of the old block, all of it, to the new one; the old block
\* is freed next.
krealloc_copy(p) ==
    /\ pc[p].at = "copy"
    /\ \E data \in [Hit(pc[p].cur, mem[pc[p].old].size) -> Garbage] :
          mem' = [a \in Addr |-> IF a \in DOMAIN data THEN data[a] ELSE mem[a]]
    /\ held' = [held EXCEPT ![p] = Without(p, pc[p].old)
                                    \cup {[addr |-> pc[p].cur, bytes |-> pc[p].bytes]}]
    /\ pc' = [pc EXCEPT ![p] = [Idle EXCEPT !.at = "free", !.cur = pc[p].old]]
    /\ UNCHANGED headers

kfree(p, a) ==
    /\ pc[p] = Idle /\ \E h \in held[p] : h.addr = a
    /\ held' = [held EXCEPT ![p] = Without(p, a)]
    /\ pc' = [pc EXCEPT ![p] = [Idle EXCEPT !.at = "free", !.cur = a]]
    /\ UNCHANGED <<mem, headers>>

kfree_mark(p) ==
    /\ pc[p].at = "free"
    /\ mem' = [mem EXCEPT ![pc[p].cur].free = TRUE]
    /\ pc' = [pc EXCEPT ![p].at = "merge"]
    /\ UNCHANGED <<headers, held>>

\* Mutant: the neighbour's header is not part of the merged block.
Merged_NoHeader(block, next) == [block EXCEPT !.size = @ + next.size, !.next = next.next]

\* The successor's space and its header join the block.
Merged(block, next) == [block EXCEPT !.size = @ + next.size + HEADER, !.next = next.next]

\* Mutant: the successor is merged whether or not it is free.
CanMerge_IgnoresFree(block) == block.next # NULL

CanMerge(block) == block.next # NULL /\ mem[block.next].free

PointedTo(p, a) == \E q \in Process \ {p} : pc[q].cur = a

kfree_merge(p) ==
    /\ pc[p].at = "merge"
    /\ LET b == mem[pc[p].cur]
       IN  \/ /\ CanMerge(b)
              /\ mem' = [mem EXCEPT ![pc[p].cur] = Merged(b, mem[b.next]),
                                    ![b.next] = IF PointedTo(p, b.next) THEN @ ELSE Junk]
              /\ headers' = headers \ {b.next}
           \/ /\ ~CanMerge(b)
              /\ UNCHANGED <<mem, headers>>
    /\ pc' = [pc EXCEPT ![p] = Idle]
    /\ UNCHANGED held

\* krealloc with a size that fits keeps the block; a size of 0 is kfree and no
\* pointer is kmalloc, which are the actions above.
krealloc(p, a, bytes) ==
    /\ pc[p] = Idle /\ \E h \in held[p] : h.addr = a
    /\ \/ /\ mem[a].size >= bytes
          /\ held' = [held EXCEPT ![p] = Without(p, a) \cup {[addr |-> a, bytes |-> bytes]}]
          /\ UNCHANGED pc
       \/ /\ mem[a].size < bytes
          /\ Walk(p, bytes, a)
          /\ UNCHANGED held
    /\ UNCHANGED <<mem, headers>>

Step(p) == \/ kmalloc_walk(p) \/ kmalloc_split(p) \/ kmalloc_mark(p)
           \/ krealloc_copy(p) \/ kfree_mark(p) \/ kfree_merge(p)

Call(p) == \/ \E n \in Request : kmalloc(p, n)
           \/ \E a \in Addr : kfree(p, a)
           \/ \E a \in Addr, n \in Request : krealloc(p, a, n)

Next == \E p \in Process : Step(p) \/ Call(p)

Spec == Init /\ [][Next]_vars

\* At most one process is inside the allocator.
Serial == \A p, q \in Process : pc[p] # Idle /\ pc[q] # Idle => p = q

\* Nothing in the code enforces this; HeapRace.cfg shows what happens without.
SerialSpec == Init /\ [][Next /\ Serial']_vars

\* A process that is inside the allocator gets to execute it.
FairSerialSpec == SerialSpec /\ \A p \in Process : WF_vars(Step(p))

-----------------------------------------------------------------------------
(* Properties                                                              *)

TypeOK ==
    /\ mem \in [Addr -> heap_block_t]
    /\ headers \in SUBSET Addr
    /\ held \in [Process -> SUBSET Held]
    /\ pc \in [Process -> Position]

\* Where a block's payload ends.
BlockEnd(a) == a + HEADER + mem[a].size

\* The blocks of the list lie one behind the other from the start of the heap
\* to its end, without gap or overlap, in the order of their next pointers:
\* what the search, the merge and get_heap_stats rely on.
Tiled ==
    /\ START \in headers
    /\ \A a \in headers :
          /\ BlockEnd(a) <= END
          /\ mem[a].next = IF BlockEnd(a) = END THEN NULL ELSE BlockEnd(a)
          /\ mem[a].next # NULL => mem[a].next \in headers
          /\ \A b \in headers : a < b => BlockEnd(a) <= b
          /\ a # START => \E b \in headers : mem[b].next = a

\* heap_block_t::free, "1 if the block is free, 0 if it's allocated": a block
\* that a process owns is a block of the list, marked as used and as large as
\* the process asked for, and no other pointer to it is owned.
OwnedIsAllocated ==
    \A p \in Process : \A h \in held[p] :
        /\ h.addr \in headers /\ ~mem[h.addr].free
        /\ mem[h.addr].size >= h.bytes
        /\ \A q \in Process : \A g \in held[q] :
              g.addr = h.addr => p = q /\ g = h

\* What get_heap_stats adds up on its walk of the list.
used_size == MapThenSumSet(LAMBDA a : mem[a].size, {a \in headers : ~mem[a].free})
free_size == MapThenSumSet(LAMBDA a : mem[a].size, {a \in headers : mem[a].free})
overhead == Cardinality(headers) * HEADER

\* No word of the heap leaks: used, free and header words make up the heap.
StatsAddUp == used_size + free_size + overhead = KERNEL_HEAP_SIZE

\* A call of kmalloc, kfree or krealloc returns: the list has no cycle.
CallsReturn == \A p \in Process : pc[p] # Idle ~> pc[p] = Idle
=============================================================================
