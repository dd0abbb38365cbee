-------------------------- MODULE Fat32ChainProofs --------------------------
(***************************************************************************)
(* Theorems about the chains and directories of Fat32: they stay sound, as *)
(* long as none of the causes in Harmful has come up.                      *)
(***************************************************************************)
EXTENDS Fat32Proofs

-----------------------------------------------------------------------------
(* Handles.                                                                *)

\* A handle that is open on a file which is still there.
Live(f) == f.in_use /\ ~f.removed

\* The forms of a cursor, see CursorIsPlaced.
Placed(f, chain) ==
    LET turn == f.position \div CellsPerCluster
    IN  \/ f.position = 0 /\ f.current_cluster = f.start_cluster /\ f.cluster_position = 0
        \/ /\ turn < Len(chain) /\ f.current_cluster = chain[turn + 1]
           /\ f.cluster_position = f.position % CellsPerCluster
        \/ /\ f.position = turn * CellsPerCluster /\ turn >= 1 /\ turn <= Len(chain)
           /\ f.current_cluster = chain[turn] /\ f.cluster_position = CellsPerCluster
        \/ /\ f.position = Len(chain) * CellsPerCluster
           /\ f.current_cluster = FAT32_END_CLUSTER /\ f.cluster_position = 0

LastOf(fat, start) == IF start = 0 THEN 0 ELSE Last(Chain(fat, start))

\* The entry of a handle is listed and leads where the handle does, or nowhere
\* yet; no other entry leads there.
EntryOfHandle(m, f) ==
    /\ f.dir_entry \in Places(m) /\ ~At(m, f.dir_entry).dir
    /\ At(m, f.dir_entry).start \in {0, f.start_cluster}
    /\ \A b \in Places(m) :
           f.start_cluster # 0 /\ At(m, b).start = f.start_cluster => b = f.dir_entry

\* The handle's chain has room for its size, and its cursor is in it.
ChainOfHandle(fat, f) ==
    /\ StartOK(fat, f.start_cluster)
    /\ f.file_size <= Room(fat, f.start_cluster) /\ f.position <= f.file_size
    /\ f.last_cluster = LastOf(fat, f.start_cluster)
    /\ Placed(f, Chain(fat, f.start_cluster))

HandleOK(m, fat, f) == EntryOfHandle(m, f) /\ ChainOfHandle(fat, f)

HandlesOK(m, fat, o) ==
    /\ \A fd \in Fd : Live(o[fd]) => HandleOK(m, fat, o[fd])
    /\ \A g, h \in Fd :
           /\ Live(o[g]) /\ Live(o[h]) /\ o[g].start_cluster # 0
           /\ o[g].start_cluster = o[h].start_cluster
           => o[g].dir_entry = o[h].dir_entry

\* Between two operators of a call the disk is sound, the kernel's table is the
\* one a mount would read, and the handles are in order ...
Firm(k) ==
    /\ Good(k) /\ ~k.dead /\ ~k.off
    /\ k.fat = k.disk.fat[1] /\ Sound(k.disk.cluster, k.fat)

Fine(k) == Firm(k) /\ HandlesOK(k.disk.cluster, k.fat, k.open)

\* ... or there is no power, and what is on the disk is sound ...
Rest(k) == Good(k) /\ k.dead /\ ~k.off /\ Sound(k.disk.cluster, k.disk.fat[1])

\* ... or one of the causes in Harmful has come up.
Spoilt(call, k) ==
    \/ k.off
    \/ k.hit = <<"clear">> /\ ~k.dead
    \/ ~k.dead /\ \E copy, sector \in Int :
           k.hit = <<"fat", copy, sector>> /\ (copy = 1 \/ call = "write")
    \/ k.dead /\ \E sector \in Int : sector > 1 /\ k.hit = <<"fat", 1, sector>>
    \/ call = "mkdir" /\ k.hit # << >> /\ k.fault.kind = "late"

Ends(call, k) == Good(k) /\ (Fine(k) \/ Rest(k) \/ Spoilt(call, k))

LEMMA FineQuiet ==
  ASSUME NEW k, NEW t, Good(t), Quiet(t, k)
  PROVE  /\ Fine(k) => Fine(t)
         /\ Firm(k) => Firm(t)
         /\ Rest(k) => Rest(t)
BY DEF Quiet, Fine, Firm, Rest

LEMMA SpoiltStays ==
  ASSUME NEW call, NEW k, Spoilt(call, k), NEW t, Running(t), Running(k), Later(t, k), t.off = k.off
  PROVE  Spoilt(call, t)
<1>1. k.off => Spoilt(call, t)
  BY DEF Spoilt
<1>2. ~k.off => k.hit # << >>
  BY DEF Spoilt
<1>3. ~k.off => t.hit = k.hit /\ t.dead = k.dead /\ t.fault = k.fault
  BY <1>2 DEF Later
<1>4. QED
  BY <1>1, <1>3 DEF Spoilt

LEMMA RestStays ==
  ASSUME NEW k, Rest(k), NEW t, Good(t), Later(t, k), t.off = k.off
  PROVE  Rest(t)
BY DEF Rest, Later

\* No transfer of the call has failed, and it has not left the disk.
Untouched(k) == k.hit = << >> /\ ~k.off

\* A part of a call that loses nothing.
Saves(t, k, X, Y) ==
    Untouched(t) => /\ Untouched(k)
                    /\ Whole(k.disk.cluster, k.fat, X) => Whole(t.disk.cluster, t.fat, Y)

Keeps(t, k) ==
    Untouched(t) => /\ Untouched(k)
                    /\ Tops(k.disk.cluster, k.fat) \subseteq Tops(t.disk.cluster, t.fat)
                    /\ \A X : Whole(k.disk.cluster, k.fat, X) => Whole(t.disk.cluster, t.fat, X)

LEMMA KeepsQuiet ==
  ASSUME NEW k, NEW t, Quiet(t, k)
  PROVE  Keeps(t, k)
BY DEF Quiet, Keeps, Untouched

LEMMA KeepsOn ==
  ASSUME NEW k, NEW u, NEW t, Keeps(u, k), Keeps(t, u)
  PROVE  Keeps(t, k)
BY DEF Keeps

LEMMA KeepsSaves ==
  ASSUME NEW k, NEW u, NEW t, NEW X, NEW Y
  PROVE  /\ Keeps(t, k) => Saves(t, k, X, X)
         /\ Keeps(u, k) /\ Saves(t, u, X, Y) => Saves(t, k, X, Y)
         /\ Saves(u, k, X, Y) /\ Keeps(t, u) => Saves(t, k, X, Y)
         /\ Saves(u, k, {}, Y) /\ Saves(t, u, Y, {}) => Saves(t, k, {}, {})
         /\ ~Untouched(t) => Saves(t, k, X, Y) /\ Keeps(t, k)
BY DEF Keeps, Saves

LEMMA SpoiltTouched ==
  ASSUME NEW call, NEW k, Good(k), Rest(k) \/ Spoilt(call, k)
  PROVE  ~Untouched(k)
<1>1. CASE Rest(k)
  BY <1>1 DEF Rest, Good, Running, Untouched
<1>2. CASE Spoilt(call, k)
  BY <1>2 DEF Spoilt, Untouched
<1>3. QED
  BY <1>1, <1>2

-----------------------------------------------------------------------------
(* Taking a cluster and giving a chain back.                               *)

\* The cluster was cleared and linked, and the table is on the disk.
Took(t, k, p, c) ==
    /\ CanGive(k.fat, p, c) /\ ~t.dead /\ ~t.off
    /\ t.disk.cluster = Refilled(k.disk.cluster, c, Zeros)
    /\ t.fat = Given(k.fat, p, c) /\ t.disk.fat[1] = t.fat

\* The power failed: the cluster may be cleared, and then the table on the disk.
HalfTook(t, k, p, c) ==
    /\ CanGive(k.fat, p, c) /\ t.dead /\ ~t.off
    /\ \/ t.disk = k.disk
       \/ /\ t.disk.cluster = Refilled(k.disk.cluster, c, Zeros)
          /\ t.disk.fat[1] \in {k.fat, Given(k.fat, p, c)}

Allocated(call, t, k, p) ==
    \/ t.ret = 0 /\ Quiet(t, k) /\ (t.hit # << >> \/ t.full)
    \/ \E c : Took(t, k, p, c) /\ (t.ret = c \/ (t.ret = 0 /\ call # "write" /\ t.hit # << >>))
    \/ t.ret = 0 /\ \E c : HalfTook(t, k, p, c)
    \/ t.ret = 0 /\ Spoilt(call, t)

LEMMA AllocateDoes ==
  ASSUME NEW call, NEW k, Firm(k), NEW p, IsCluster(p) => p \in OnDisk /\ k.fat[p] = FAT32_END_CLUSTER,
         NEW t, t = fat32_allocate_cluster(k, p)
  PROVE  Good(t) /\ Kept(t, k) /\ Allocated(call, t, k, p)
<1> DEFINE u == Transfer(k, <<"memory">>, {"error"})
           free == {c \in 2 .. FatEntries - 1 :
                        c < total_clusters /\ k.fat[c] = FAT32_FREE_CLUSTER}
           c == FirstOf(free)
           g == [n \in DOMAIN u.fat |-> IF n = p /\ IsCluster(n) THEN c
                                         ELSE IF n = c THEN FAT32_END_CLUSTER ELSE u.fat[n]]
           v == [u EXCEPT !.fat = g]
           x == fat32_write_cluster(v, c, Zeros, <<"clear">>)
           y == fat32_flush_fat(x)
<1>1. Running(k) /\ Good(k) /\ ~k.dead /\ ~k.off /\ k.fat = k.disk.fat[1] /\ TableOK(k.fat)
      /\ k.fat[2] # 0
  BY DEF Good, Firm, Sound, Begins, ROOT_CLUSTER
<1>2. Follows(u, k) /\ u.ok \in BOOLEAN /\ u.disk = k.disk /\ u.dead = k.dead
      /\ (u.ok => u.hit = k.hit) /\ (~u.ok => u.hit # << >>)
  <2>1. <<"memory">> \in Hit /\ <<"memory">> # << >> /\ "power" \notin {"error"}
    BY DEF Hit
  <2>2. QED
    <3>1. /\ Follows(u, k) /\ u.disk = k.disk /\ u.ok \in BOOLEAN /\ Transferred(u, k, <<"memory">>)
          /\ u.dead = k.dead /\ (~u.ok => u.hit # << >>)
      <4> DEFINE what == <<"memory">>
                 kinds == {"error"}
      <4>1. what \in Hit /\ what # << >> /\ "power" \notin kinds /\ u = Transfer(k, what, kinds)
        BY <2>1
      <4> HIDE DEF what, kinds, u
      <4>2. Follows(u, k) /\ u.disk = k.disk /\ u.ok \in BOOLEAN /\ Transferred(u, k, what) /\ u.dead = k.dead
            /\ (~u.ok => u.hit # << >>)
        BY <1>1, <4>1, TransferOK
      <4>3. QED
        BY <4>2 DEF what
    <3> HIDE DEF u
    <3>2. QED
      BY <3>1 DEF Transferred
<1>3. Running(u) /\ u.fat = k.fat /\ u.off = k.off
  BY <1>2 DEF Follows
<1>4. t = IF ~u.ok THEN [u EXCEPT !.ret = 0]
          ELSE IF free = {} THEN [u EXCEPT !.ret = 0, !.full = TRUE]
          ELSE IF x.ok THEN [y EXCEPT !.ret = IF y.ok THEN c ELSE 0]
          ELSE [x EXCEPT !.fat[c] = FAT32_FREE_CLUSTER, !.ret = 0, !.off = c \notin OnDisk]
  BY DEF fat32_allocate_cluster, Uncleared
<1>5. Good(t) /\ Kept(t, k)
  BY <1>1, AllocateOK DEF Passes
<1> HIDE DEF u
<1>6. CASE ~u.ok \/ free = {}
  <2>1. Follows(t, u) /\ t.ret = 0 /\ t.disk = u.disk /\ t.dead = u.dead /\ (t.hit # << >> \/ t.full)
    <3>1. (t = [u EXCEPT !.ret = 0] /\ ~u.ok) \/ t = [u EXCEPT !.ret = 0, !.full = TRUE]
      BY <1>4, <1>6
    <3>2. CASE t = [u EXCEPT !.ret = 0] /\ ~u.ok
      <4>1. Follows(t, u) /\ t.ret = 0 /\ t.disk = u.disk /\ t.dead = u.dead /\ t.hit = u.hit
        BY <1>3, <3>2, WithRet
      <4>2. QED
        BY <1>2, <3>2, <4>1
    <3>3. CASE t = [u EXCEPT !.ret = 0, !.full = TRUE]
      <4>1. Follows(t, u) /\ t.ret = 0 /\ t.disk = u.disk /\ t.dead = u.dead
        BY <1>3, <3>3, WithFull
      <4>2. t.full
        BY <1>3, <3>3 DEF Running, CallState
      <4>3. QED
        BY <4>1, <4>2
    <3>4. QED
      BY <3>1, <3>2, <3>3
  <2>2. Follows(t, k)
    BY <1>2, <2>1, FollowsOn
  <2>3. Quiet(t, k)
    BY <1>1, <1>2, <2>1, <2>2, FollowsQuiet
  <2>4. QED
    BY <1>5, <2>1, <2>3 DEF Allocated
<1>7. CASE u.ok /\ free # {}
  <2>1. c \in Number /\ c >= 2 /\ c < total_clusters /\ k.fat[c] = 0 /\ c # 0
    <3>1. free \in SUBSET Nat
      OBVIOUS
    <3>2. c \in free
      BY <1>7, <3>1, FirstOfSet
    <3>3. QED
      BY <3>2, Sizes DEF Number, FAT32_FREE_CLUSTER
  <2> HIDE DEF c, free
  <2>2. g \in Table /\ g = Given(k.fat, p, c)
    <3>1. k.fat \in Table
      BY <1>1 DEF Running, CallState
    <3>2. c \in Link
      BY <2>1, Numbers
    <3>3. DOMAIN k.fat = Number
      BY <3>1 DEF Table
    <3>4. QED
      BY <1>3, <3>1, <3>2, <3>3, Numbers DEF Table, Given
  <2> HIDE DEF g
  <2>3. Running(v) /\ v.fat = g /\ v.disk = k.disk /\ v.hit = k.hit /\ ~v.dead /\ v.off = k.off
    BY <1>1, <1>2, <1>3, <1>7, <2>2, WithFat
  <2> HIDE DEF v
  <2>4. /\ Follows(x, v) /\ x.ok \in BOOLEAN /\ (x.ok => c \in OnDisk)
        /\ c \in OnDisk => Wrote(x, v, c, Zeros, <<"clear">>)
    <3>1. <<"clear">> \in Hit /\ <<"clear">> # << >>
      BY DEF Hit
    <3>2. QED
      BY <2>3, <3>1, ZerosOK, WriteClusterOK
  <2> HIDE DEF x
  <2>5. Running(x) /\ x.fat = g /\ x.disk.fat = k.disk.fat /\ ~x.off
    BY <1>1, <2>3, <2>4 DEF Follows
  <2>6. c \in OnDisk => CanGive(k.fat, p, c)
    BY <1>1, <2>1 DEF CanGive
  <2>7. CASE x.ok
    <3>1. c \in OnDisk /\ x.disk.cluster = Refilled(k.disk.cluster, c, Zeros) /\ ~x.dead
          /\ CanGive(k.fat, p, c)
      BY <2>3, <2>4, <2>6, <2>7 DEF Wrote, Transferred
    <3>2. /\ Flushes(y, x) /\ y.ok \in BOOLEAN /\ (y.ok => Mirrored(y) /\ ~y.dead)
          /\ y.disk.cluster = x.disk.cluster
          /\ ~y.ok => Stopped(y, x)
      BY <2>5, FlushOK DEF Flushes
    <3> DEFINE r == IF y.ok THEN c ELSE 0
    <3>3. t = [y EXCEPT !.ret = r]
      BY <1>4, <1>7, <2>7
    <3>4. r \in Int
      BY <2>1, Numbers
    <3>5. Running(y) /\ y.fat = g /\ ~y.off
      BY <2>5, <3>2 DEF Flushes
    <3> HIDE DEF y
    <3>6. Follows(t, y) /\ t.ret = r /\ t.disk = y.disk /\ t.hit = y.hit /\ t.dead = y.dead
      <4> HIDE DEF r
      <4>1. QED
        BY <3>3, <3>4, <3>5, WithRet
    <3>7. t.fat = g /\ ~t.off
      BY <3>5, <3>6 DEF Follows
    <3>8. 1 \in 1 .. NumFats
      BY Sizes
    <3>9. CASE y.ok
      <4>1. t.disk.fat[1] = t.fat /\ t.ret = c
        BY <3>2, <3>5, <3>6, <3>7, <3>8, <3>9 DEF Mirrored
      <4>2. Took(t, k, p, c)
        BY <2>2, <3>1, <3>2, <3>6, <3>7, <3>9, <4>1 DEF Took
      <4>3. QED
        BY <1>5, <4>1, <4>2 DEF Allocated
    <3>10. CASE ~y.ok
      <4>1. t.ret = 0
        BY <3>6, <3>10
      <4>2. PICK copy \in 1 .. NumFats, sector \in 1 .. FatSectors :
               /\ y.hit = <<"fat", copy, sector>>
               /\ copy > 1 => y.disk.fat[1] = y.fat
               /\ copy = 1 /\ sector = 1 /\ y.dead => y.disk.fat = x.disk.fat
        BY <3>1, <3>2, <3>10 DEF Stopped
      <4>3. copy \in Int /\ sector \in Int /\ (copy # 1 => copy > 1) /\ (sector # 1 => sector > 1)
        BY <4>2
      <4>4. CASE ~t.dead /\ (copy = 1 \/ call = "write")
        <5>1. Spoilt(call, t)
          BY <3>6, <4>2, <4>3, <4>4 DEF Spoilt
        <5>2. QED
          BY <1>5, <4>1, <5>1 DEF Allocated
      <4>5. CASE ~t.dead /\ copy # 1 /\ call # "write"
        <5>1. Took(t, k, p, c)
          BY <2>2, <3>1, <3>2, <3>5, <3>6, <3>7, <4>2, <4>3, <4>5 DEF Took
        <5>2. t.hit # << >>
          BY <3>6, <4>2
        <5>3. QED
          BY <1>5, <4>1, <4>5, <5>1, <5>2 DEF Allocated
      <4>6. CASE t.dead /\ copy = 1 /\ sector # 1
        <5>1. Spoilt(call, t)
          BY <3>6, <4>2, <4>3, <4>6 DEF Spoilt
        <5>2. QED
          BY <1>5, <4>1, <5>1 DEF Allocated
      <4>7. CASE t.dead /\ ~(copy = 1 /\ sector # 1)
        <5>1. t.disk.fat[1] \in {k.fat, Given(k.fat, p, c)}
          BY <1>1, <2>2, <2>5, <3>5, <3>6, <4>2, <4>3, <4>7
        <5>2. HalfTook(t, k, p, c)
          BY <3>1, <3>2, <3>6, <3>7, <4>7, <5>1 DEF HalfTook
        <5>3. QED
          BY <1>5, <4>1, <5>2 DEF Allocated
      <4>8. QED
        BY <4>4, <4>5, <4>6, <4>7
    <3>11. QED
      BY <3>2, <3>9, <3>10
  <2>8. CASE ~x.ok
    <3> DEFINE b == c \notin OnDisk
    <3>1. t = [x EXCEPT !.fat[c] = FAT32_FREE_CLUSTER, !.ret = 0, !.off = b]
      BY <1>4, <1>7, <2>8
    <3>2. b \in BOOLEAN
      OBVIOUS
    <3>3. GivenBack(t, x, b)
      <4> HIDE DEF b
      <4>1. QED
        BY <2>1, <2>5, <3>1, <3>2, WithOff
    <3>4. t.ret = 0 /\ t.hit = x.hit /\ t.off = b /\ t.disk = x.disk /\ t.dead = x.dead
      BY <3>3 DEF GivenBack
    <3>5. CASE b
      <4>1. Spoilt(call, t)
        BY <3>4, <3>5 DEF Spoilt
      <4>2. QED
        BY <1>5, <3>4, <4>1 DEF Allocated
    <3>6. CASE ~b
      <4>1. x.hit = <<"clear">> /\ (x.dead => x.disk = k.disk) /\ CanGive(k.fat, p, c)
        BY <2>3, <2>4, <2>6, <2>8, <3>6 DEF Wrote, Transferred
      <4>2. CASE t.dead
        <5>1. HalfTook(t, k, p, c)
          BY <3>4, <3>6, <4>1, <4>2 DEF HalfTook
        <5>2. QED
          BY <1>5, <3>4, <5>1 DEF Allocated
      <4>3. CASE ~t.dead
        <5>1. Spoilt(call, t)
          BY <3>4, <4>1, <4>3 DEF Spoilt
        <5>2. QED
          BY <1>5, <3>4, <5>1 DEF Allocated
      <4>4. QED
        BY <4>2, <4>3
    <3>7. QED
      BY <3>5, <3>6
  <2>9. QED
    BY <2>4, <2>7, <2>8
<1>8. QED
  BY <1>2, <1>6, <1>7

\* The chain was given back; the table may not be on the disk.
Freed(call, t, k, h) ==
    /\ Good(t) /\ Kept(t, k) /\ t.ret = k.ret /\ t.off = k.off
    /\ t.disk.cluster = k.disk.cluster /\ t.fat = Without(k.fat, h)
    /\ \/ ~t.dead /\ t.disk.fat[1] = t.fat
       \/ t.dead /\ t.disk.fat[1] \in {k.disk.fat[1], t.fat}
       \/ Spoilt(call, t)
    /\ t.hit = << >> => k.hit = << >> /\ ~t.dead /\ t.disk.fat[1] = t.fat

LEMMA FreeDoes ==
  ASSUME NEW call, NEW k, Good(k), ~k.dead, NEW h \in OnDisk,
         NEW t, t = fat32_free_cluster_chain(k, h)
  PROVE  Freed(call, t, k, h)
<1> DEFINE chain == Walk(k.fat, h)
           g == [c \in DOMAIN k.fat |-> IF \E i \in DOMAIN chain : chain[i] = c
                                        THEN FAT32_FREE_CLUSTER ELSE k.fat[c]]
           u == [k EXCEPT !.fat = g]
<1>1. Running(k) /\ IsCluster(h)
  BY ClustersOnDisk DEF Good
<1>2. t = fat32_flush_fat(u)
  BY <1>1 DEF fat32_free_cluster_chain
<1>3. k.fat \in Table
  BY <1>1 DEF Running, CallState
<1>4. g \in Table /\ g = Without(k.fat, h)
  <2>1. DOMAIN k.fat = Number
    BY <1>3 DEF Table
  <2>2. \A c : (\E i \in DOMAIN chain : chain[i] = c) <=> c \in ClustersOf(chain)
    BY DEF ClustersOf
  <2>3. g = Without(k.fat, h)
    <3> HIDE DEF chain
    <3>1. g = [c \in Number |-> IF c \in ClustersOf(chain) THEN 0 ELSE k.fat[c]]
      BY <2>1, <2>2 DEF FAT32_FREE_CLUSTER
    <3>2. QED
      BY <3>1 DEF Without, chain
  <2> HIDE DEF chain
  <2>4. g \in Table
    BY <1>3, Numbers DEF Table
  <2>5. QED
    BY <2>3, <2>4
<1> HIDE DEF g
<1>5. /\ Running(u) /\ Kept(u, k) /\ u.ret = k.ret /\ u.fat = g /\ u.disk = k.disk
      /\ u.hit = k.hit /\ u.dead = k.dead /\ u.off = k.off
  BY <1>1, <1>4, WithFat
<1> HIDE DEF u
<1>6. /\ Flushes(t, u) /\ (t.ok => Mirrored(t) /\ t.hit = u.hit /\ ~t.dead)
      /\ t.disk.cluster = u.disk.cluster
      /\ ~t.ok => Stopped(t, u)
  BY <1>2, <1>5, FlushOK
<1>7. t.fat = g /\ t.off = k.off /\ t.ret = k.ret /\ t.ok \in BOOLEAN /\ (~t.ok => t.hit # << >>)
      /\ (t.hit = << >> => k.hit = << >>)
  BY <1>5, <1>6 DEF Flushes
<1>8. Good(t) /\ Kept(t, k)
  BY FreeChainOK DEF Passes
<1>9. 1 \in 1 .. NumFats
  BY Sizes
<1>10. CASE t.ok
  <2>1. ~t.dead /\ t.disk.fat[1] = t.fat
    BY <1>6, <1>9, <1>10 DEF Mirrored
  <2>2. QED
    BY <1>4, <1>5, <1>6, <1>7, <1>8, <2>1 DEF Freed
<1>11. CASE ~t.ok
  <2>1. PICK copy \in 1 .. NumFats, sector \in 1 .. FatSectors :
           /\ t.hit = <<"fat", copy, sector>>
           /\ copy > 1 => t.disk.fat[1] = t.fat
           /\ copy = 1 /\ sector = 1 /\ t.dead => t.disk.fat = u.disk.fat
    BY <1>5, <1>6, <1>11 DEF Stopped
  <2>2. copy \in Int /\ sector \in Int /\ (copy # 1 => copy > 1) /\ (sector # 1 => sector > 1)
    BY <2>1
  <2>3. t.hit # << >>
    BY <1>7, <1>11
  <2>4. \/ ~t.dead /\ t.disk.fat[1] = t.fat
        \/ t.dead /\ t.disk.fat[1] \in {k.disk.fat[1], t.fat}
        \/ Spoilt(call, t)
    <3>1. CASE copy # 1
      BY <2>1, <2>2, <3>1
    <3>2. CASE copy = 1 /\ ~t.dead
      BY <2>1, <2>2, <3>2 DEF Spoilt
    <3>3. CASE copy = 1 /\ t.dead /\ sector = 1
      BY <1>5, <2>1, <3>3
    <3>4. CASE copy = 1 /\ t.dead /\ sector # 1
      BY <2>1, <2>2, <3>4 DEF Spoilt
    <3>5. QED
      BY <3>1, <3>2, <3>3, <3>4
  <2>5. QED
    BY <1>4, <1>5, <1>6, <1>7, <1>8, <2>3, <2>4 DEF Freed
<1>12. QED
  BY <1>7, <1>10, <1>11

-----------------------------------------------------------------------------
(* Looking up.                                                             *)

LEMMA FirmIs ==
  ASSUME NEW k, Firm(k)
  PROVE  /\ k.disk \in SoundDisk /\ k.disk.cluster \in Map /\ k.fat \in Table /\ TableOK(k.fat)
         /\ Sound(k.disk.cluster, k.fat) /\ Begins(k.fat, ROOT_CLUSTER)
         /\ Good(k) /\ Running(k) /\ ~k.dead /\ ~k.off /\ k.fat = k.disk.fat[1]
         /\ k.open \in [Fd -> SoundFile]
<1>1. Good(k) /\ Running(k)
  BY DEF Firm, Good
<1>2. k.disk \in SoundDisk /\ k.fat \in Table /\ k.open \in [Fd -> SoundFile]
  BY <1>1 DEF Running, CallState
<1>3. k.disk.cluster \in Map
  BY <1>2 DEF SoundDisk, Map
<1>4. QED
  BY <1>1, <1>2, <1>3 DEF Firm, Sound

\* The places of a directory.
LEMMA DirectoryCells ==
  ASSUME NEW k, Firm(k), NEW dir \in Heads(k.disk.cluster)
  PROVE  LET W == Locations(k.fat, dir)
         IN  /\ AreLocations(W, Chain(k.fat, dir)) /\ Begins(k.fat, dir)
             /\ \A j \in DOMAIN W : /\ W[j] \in CellPlace /\ W[j][1] \in Owned(k.fat, dir)
                                    /\ CellAt(k.disk, W[j]) = At(k.disk.cluster, W[j])
                                    /\ KindAt(k.disk, W[j]) = At(k.disk.cluster, W[j]).kind
<1> DEFINE W == Locations(k.fat, dir)
           z == Chain(k.fat, dir)
<1>1. Begins(k.fat, dir) /\ TableOK(k.fat) /\ k.disk \in SoundDisk
  BY FirmIs, HeadsBegin
<1>2. AreLocations(W, z)
  BY <1>1, LocationsAre
<1>4. Owned(k.fat, dir) = ClustersOf(z)
  BY DEF Owned
<1> HIDE DEF W, z
<1>3. \A j \in DOMAIN W : W[j] \in CellPlace /\ W[j][1] \in ClustersOf(z)
  BY <1>2 DEF AreLocations
<1>5. QED
  BY <1>1, <1>2, <1>3, <1>4, CellIsAt DEF W, z

\* No name leads to a dot entry: what a name leads to is an entry that is listed.
LEMMA NamedIsPlace ==
  ASSUME NEW k, Firm(k), NEW dir \in Heads(k.disk.cluster), NEW name \in Name,
         NEW j \in Named(k, dir, name), NEW a, a = Locations(k.fat, dir)[j]
  PROVE  /\ a \in Places(k.disk.cluster) /\ a[1] \in Owned(k.fat, dir)
         /\ CellAt(k.disk, a) = At(k.disk.cluster, a)
<1> DEFINE W == Locations(k.fat, dir)
           m == k.disk.cluster
<1>1. /\ j \in DOMAIN W /\ KindAt(k.disk, W[j]) = "entry"
      /\ \/ LongNameOf(k.disk, W, j) = name
         \/ CellAt(k.disk, W[j]).name = Spelling[name].short
  BY DEF Named
<1>2. /\ AreLocations(W, Chain(k.fat, dir))
      /\ \A i \in DOMAIN W : /\ W[i] \in CellPlace /\ W[i][1] \in Owned(k.fat, dir)
                             /\ CellAt(k.disk, W[i]) = At(m, W[i])
                             /\ KindAt(k.disk, W[i]) = At(m, W[i]).kind
  BY DirectoryCells
<1>3. DOMAIN W = 1 .. Len(W) /\ Len(W) \in Nat
  BY <1>2 DEF AreLocations
<1>4. \A b \in CellPlace : LfnOK(At(m, b))
  BY FirmIs DEF Sound
<1>5. a = W[j]
  OBVIOUS
<1> HIDE DEF W, m
<1>6. At(m, a).name \notin {Dot, DotDot}
  <2>1. CASE CellAt(k.disk, W[j]).name = Spelling[name].short
    BY <1>1, <1>2, <1>5, <2>1, SpellingAssumption DEF Name, Dot, DotDot
  <2>2. CASE LongNameOf(k.disk, W, j) = name
    <3>1. name # ""
      BY SpellingAssumption DEF Name
    <3>2. /\ j > 1 /\ KindAt(k.disk, W[j - 1]) = "lfn"
          /\ CellAt(k.disk, W[j - 1]).checksum_of = CellAt(k.disk, W[j]).name
      BY <2>2, <3>1 DEF LongNameOf
    <3>3. j - 1 \in DOMAIN W
      BY <1>1, <1>3, <3>2
    <3>4. At(m, W[j - 1]).kind = "lfn" /\ At(m, W[j - 1]).checksum_of = At(m, a).name
          /\ W[j - 1] \in CellPlace
      BY <1>1, <1>2, <1>5, <3>2, <3>3
    <3>5. QED
      BY <1>4, <3>4 DEF LfnOK
  <2>3. QED
    BY <1>1, <2>1, <2>2
<1>7. QED
  BY <1>1, <1>2, <1>5, <1>6 DEF Places, IsListed, m

\* What a lookup of a path has found: an entry of a directory.
HasEntry(t, k) ==
    /\ t.at \in Places(k.disk.cluster) /\ t.entry = At(k.disk.cluster, t.at)
    /\ t.dir \in Heads(k.disk.cluster) /\ t.at[1] \in Owned(k.fat, t.dir)

LEMMA LookupDoes ==
  ASSUME NEW k, Firm(k), NEW path \in Seq(Name), NEW t, t = fat32_lookup_path(k, path)
  PROVE  /\ Quiet(t, k) /\ Good(t)
         /\ t.ret = 0 /\ t.entry.dir => t.entry.start \in Heads(k.disk.cluster)
         /\ t.ret = 0 /\ Len(path) # 0 => HasEntry(t, k)
<1> DEFINE D == Heads(k.disk.cluster)
<1>1. Running(k) /\ Good(k)
  BY FirmIs
<1>2. /\ LookedUp(t, k)
      /\ t.ret = 0 /\ Len(path) # 0 => \A E : Closed(k, E) => FoundIn(t, k, E)
  BY <1>1, LookupOK
<1>3. ROOT_CLUSTER \in D /\ \A a \in Places(k.disk.cluster) :
          At(k.disk.cluster, a).dir => At(k.disk.cluster, a).start \in D
  BY DEF Heads
<1> HIDE DEF D
<1>4. Closed(k, D)
  <2> SUFFICES ASSUME NEW dir \in D, NEW name \in Name, NEW j \in Named(k, dir, name),
                      CellAt(k.disk, Locations(k.fat, dir)[j]).dir
               PROVE  CellAt(k.disk, Locations(k.fat, dir)[j]).start \in D
    BY <1>3 DEF Closed
  <2>1. dir \in Heads(k.disk.cluster)
    BY DEF D
  <2> DEFINE a == Locations(k.fat, dir)[j]
  <2>2. a \in Places(k.disk.cluster) /\ CellAt(k.disk, a) = At(k.disk.cluster, a)
    BY <2>1, NamedIsPlace
  <2>3. QED
    BY <1>3, <2>2
<1>5. Quiet(t, k)
  BY <1>2 DEF LookedUp, Looks, Quiet
<1>6. Good(t)
  BY <1>1, <1>2, LooksGood DEF LookedUp
<1>7. t.ret = 0 /\ t.entry.dir => t.entry.start \in D
  BY <1>2, <1>4 DEF LookedUp
<1>8. ASSUME t.ret = 0, Len(path) # 0 PROVE HasEntry(t, k)
  <2>1. FoundIn(t, k, D)
    BY <1>2, <1>4, <1>8
  <2>2. PICK dir \in D, name \in Name : \E j \in Named(k, dir, name) : FoundAt(t, k, dir, j)
    BY <2>1 DEF FoundIn
  <2>3. PICK j \in Named(k, dir, name) : FoundAt(t, k, dir, j)
    BY <2>2
  <2>4. dir \in Heads(k.disk.cluster)
    BY DEF D
  <2> DEFINE a == Locations(k.fat, dir)[j]
  <2>5. a \in Places(k.disk.cluster) /\ a[1] \in Owned(k.fat, dir)
        /\ CellAt(k.disk, a) = At(k.disk.cluster, a)
    BY <2>4, NamedIsPlace
  <2>6. t.at = a /\ t.dir = dir /\ t.entry = CellAt(k.disk, a)
    BY <2>3 DEF FoundAt
  <2>7. QED
    BY <2>4, <2>5, <2>6 DEF HasEntry
<1>9. QED
  BY <1>5, <1>6, <1>7, <1>8 DEF D

\* A path of one name leads to a directory that the root lists.
LEMMA LookupTop ==
  ASSUME NEW k, Firm(k), NEW path \in Seq(Name), Len(path) <= 1,
         NEW t, t = fat32_lookup_path(k, path), t.ret = 0, t.entry.dir
  PROVE  t.entry.start \in Tops(k.disk.cluster, k.fat)
<1> DEFINE N == Len(path)
           b == [k EXCEPT !.ret = 0, !.entry = RootEntry]
           Into(u, name) ==
               IF u.ret # 0 THEN u
               ELSE IF ~u.entry.dir THEN [u EXCEPT !.ret = -1]
               ELSE fat32_find_entry_in_directory(u, u.entry.start, name)
           Is(f) == f = [i \in 0 .. N |-> IF i = 0 THEN b ELSE Into(f[i - 1], path[i])]
           w == CHOOSE f : Is(f)
<1>1. N \in {0, 1} /\ (N = 1 => path[1] \in Name)
  <2>1. N \in Nat /\ \A i \in 1 .. N : path[i] \in Name
    OBVIOUS
  <2> HIDE DEF N
  <2>2. N <= 1
    BY DEF N
  <2>3. QED
    BY <2>1, <2>2
<1>2. Running(k) /\ k \in CallState
  BY FirmIs DEF Running
<1>3. b.ret = 0 /\ b.entry = RootEntry /\ b.disk = k.disk /\ b.fat = k.fat
  BY <1>2 DEF CallState
<1>4. Running(b)
  <2>1. \A x : x = [k EXCEPT !.ret = 0, !.entry = RootEntry] => LookedUp(x, k)
    BY <1>2, AtTheRoot
  <2>2. QED
    BY <2>1 DEF LookedUp, Looks
<1>5. t = w[N]
  BY DEF fat32_lookup_path
<1> HIDE DEF Into, b, N
<1>6. Is(w)
  <2> DEFINE f == [i \in 0 .. N |-> IF i = 0 THEN b ELSE Into(b, path[1])]
  <2>1. \A i \in 0 .. N : i # 0 => i = 1 /\ f[i - 1] = b
    BY <1>1
  <2>2. Is(f)
    BY <2>1
  <2> HIDE DEF Is, f
  <2>3. QED
    BY <2>2
<1> HIDE DEF w
<1>7. w[0] = b /\ (N = 1 => w[1] = Into(b, path[1]))
  BY <1>1, <1>6
<1>8. RootEntry.dir /\ RootEntry.start = ROOT_CLUSTER
  BY DEF RootEntry, Entry
<1>9. CASE N = 0
  <2>1. t.entry.start = ROOT_CLUSTER
    BY <1>3, <1>5, <1>7, <1>8, <1>9
  <2>2. QED
    BY <2>1, TopIs
<1>10. CASE N = 1
  <2> DEFINE name == path[1]
  <2>1. t = fat32_find_entry_in_directory(b, ROOT_CLUSTER, name) /\ name \in Name
    BY <1>1, <1>3, <1>5, <1>7, <1>8, <1>10 DEF Into
  <2> HIDE DEF name
  <2>2. ROOT_CLUSTER \in Number
    BY Numbers DEF ROOT_CLUSTER
  <2>3. PICK j \in Named(b, ROOT_CLUSTER, name) : FoundAt(t, b, ROOT_CLUSTER, j)
    BY <1>4, <2>1, <2>2, FindEntryOK
  <2>4. j \in Named(k, ROOT_CLUSTER, name) /\ FoundAt(t, k, ROOT_CLUSTER, j)
    BY <1>3, <2>3 DEF Named, FoundAt
  <2> DEFINE a == Locations(k.fat, ROOT_CLUSTER)[j]
  <2>5. ROOT_CLUSTER \in Heads(k.disk.cluster)
    BY HeadIs
  <2>6. a \in Places(k.disk.cluster) /\ a[1] \in Owned(k.fat, ROOT_CLUSTER)
        /\ CellAt(k.disk, a) = At(k.disk.cluster, a)
    BY <2>1, <2>4, <2>5, NamedIsPlace
  <2>7. t.entry = At(k.disk.cluster, a)
    BY <2>4, <2>6 DEF FoundAt
  <2> HIDE DEF a
  <2>8. QED
    BY <2>6, <2>7, TopIs
<1>11. QED
  BY <1>1, <1>9, <1>10

-----------------------------------------------------------------------------
(* New entries.                                                            *)

\* Without power, or once it is spoilt, a call does no more harm.
Lost(call, k) == Rest(k) \/ Spoilt(call, k)

LEMMA LostStays ==
  ASSUME NEW call, NEW k, Good(k), Lost(call, k), NEW t, Good(t), Later(t, k), t.off = k.off
  PROVE  Lost(call, t)
BY RestStays, SpoiltStays DEF Lost, Good

LEMMA LostQuiet ==
  ASSUME NEW call, NEW k, Good(k), Lost(call, k), NEW t, Good(t), Quiet(t, k)
  PROVE  Lost(call, t)
BY LostStays DEF Quiet

LEMMA FailingQuiet ==
  ASSUME NEW k, Good(k), NEW t, t = Failing(k)
  PROVE  Quiet(t, k) /\ Good(t) /\ t.ret = -1
<1>1. Good(t) /\ t.ret = -1 /\ Kept(t, k) /\ Same(t, k)
  BY FailingOK
<1>2. Running(t) /\ t.open = k.open
  BY <1>1 DEF Good, Kept
<1>3. QED
  BY <1>1, <1>2, QuietSame

LEMMA ParentDoes ==
  ASSUME NEW k, Firm(k), NEW path \in Paths, NEW t, t = ParentOf(k, path)
  PROVE  /\ Quiet(t, k) /\ Good(t)
         /\ t.ret = 0 => /\ t.entry.start \in Heads(k.disk.cluster)
                         /\ t.entry.start \in Tops(k.disk.cluster, k.fat)
<1> DEFINE u == fat32_lookup_path(k, path)
           v == fat32_lookup_path(u, Front(path))
<1>1. path \in Seq(Name) /\ Front(path) \in Seq(Name) /\ Len(Front(path)) <= 1
  <2>1. path \in Seq(Name) /\ path # << >> /\ Len(path) \in Nat
    BY ThePaths
  <2>2. Len(path) <= 2
    BY Fat32Assumption
  <2>3. Front(path) \in Seq(Name) /\ Len(Front(path)) = Len(path) - 1
    BY <2>1, FrontElements
  <2>4. QED
    BY <2>1, <2>2, <2>3
<1>2. Quiet(u, k) /\ Good(u)
  BY <1>1, LookupDoes
<1>3. t = IF u.ret = 0 THEN Failing(u) ELSE IF v.ret # 0 \/ ~v.entry.dir THEN Failing(v) ELSE v
  BY DEF ParentOf
<1>4. Firm(u) /\ u.disk = k.disk /\ u.fat = k.fat
  BY <1>2, FineQuiet DEF Quiet
<1> HIDE DEF u
<1>5. /\ Quiet(v, u) /\ Good(v)
      /\ v.ret = 0 /\ v.entry.dir => /\ v.entry.start \in Heads(u.disk.cluster)
                                     /\ v.entry.start \in Tops(u.disk.cluster, u.fat)
  BY <1>1, <1>4, LookupDoes, LookupTop
<1> HIDE DEF v
<1>6. Quiet(v, k)
  BY <1>2, <1>5, QuietOn
<1>7. CASE u.ret = 0
  <2>1. Quiet(t, u) /\ Good(t) /\ t.ret = -1
    BY <1>2, <1>3, <1>7, FailingQuiet
  <2>2. Quiet(t, k)
    BY <1>2, <2>1, QuietOn
  <2>3. QED
    BY <2>1, <2>2
<1>8. CASE u.ret # 0 /\ (v.ret # 0 \/ ~v.entry.dir)
  <2>1. Quiet(t, v) /\ Good(t) /\ t.ret = -1
    BY <1>3, <1>5, <1>8, FailingQuiet
  <2>2. Quiet(t, k)
    BY <1>6, <2>1, QuietOn
  <2>3. QED
    BY <2>1, <2>2
<1>9. CASE u.ret # 0 /\ v.ret = 0 /\ v.entry.dir
  BY <1>3, <1>4, <1>5, <1>6, <1>9
<1>10. QED
  BY <1>7, <1>8, <1>9

\* The short name of a new entry is no one else's in the directory.
LEMMA PrepareDoes ==
  ASSUME NEW k, Firm(k), NEW dir \in Heads(k.disk.cluster), NEW name \in Name,
         NEW t, t = fat32_prepare_short_name(k, dir, name)
  PROVE  /\ Quiet(t, k) /\ Good(t)
         /\ t.ret = 0 => /\ t.short \in ShortName /\ t.short \notin {Dot, DotDot}
                         /\ \A a \in Places(k.disk.cluster) :
                                a[1] \in Owned(k.fat, dir) => At(k.disk.cluster, a).name # t.short
<1> DEFINE m == k.disk.cluster
           W == Locations(k.fat, dir)
<1>1. Running(k) /\ Good(k) /\ m \in Map /\ Sound(m, k.fat)
  BY FirmIs
<1>2. dir \in Number
  BY <1>1, HeadsBegin, Numbers DEF Begins
<1>3. NamedAs(t, k, dir)
  BY <1>1, <1>2, PrepareShortNameOK
<1>4. Quiet(t, k) /\ Good(t)
  BY <1>1, <1>3, LooksGood DEF NamedAs, Looks, Quiet
<1>5. /\ AreLocations(W, Chain(k.fat, dir))
      /\ \A j \in DOMAIN W : /\ CellAt(k.disk, W[j]) = At(m, W[j])
                             /\ KindAt(k.disk, W[j]) = At(m, W[j]).kind
  BY DirectoryCells
<1>6. Tidy(m, W)
  BY <1>1 DEF Sound, HeadOK
<1>7. ASSUME t.ret = 0, NEW a \in Places(m), a[1] \in Owned(k.fat, dir), At(m, a).name = t.short
      PROVE  FALSE
  <2>1. a \in CellPlace /\ a[1] \in ClustersOf(Chain(k.fat, dir)) /\ At(m, a).kind = "entry"
    BY <1>7 DEF Places, Owned, IsListed
  <2>2. PICK j \in DOMAIN W : W[j] = a
    BY <1>5, <2>1 DEF AreLocations
  <2>3. BehindMark(k, dir, j)
    BY <1>3, <1>5, <1>7, <2>1, <2>2 DEF NamedAs, NameIsFree
  <2>4. PICK i \in DOMAIN W : i < j /\ KindAt(k.disk, W[i]) = "zero"
    BY <2>3 DEF BehindMark
  <2>5. At(m, W[j]).kind = "zero"
    BY <1>5, <1>6, <2>2, <2>4 DEF Tidy
  <2>6. QED
    BY <2>1, <2>2, <2>5
<1>8. QED
  BY <1>3, <1>4, <1>7 DEF NamedAs

\* What was taken in one table has the cells and, but for the chain from dir, the
\* clusters it had.
Frame(t, k, dir) ==
    /\ SamePlaces(t.disk.cluster, k.disk.cluster)
    /\ \A a \in CellPlace : k.fat[a[1]] # 0 => At(t.disk.cluster, a) = At(k.disk.cluster, a)
    /\ \A h : Begins(k.fat, h) => /\ Begins(t.fat, h)
                                  /\ h # dir => Chain(t.fat, h) = Chain(k.fat, h)
    /\ \A a \in Places(k.disk.cluster) :
           a[1] \in Owned(t.fat, dir) => a[1] \in Owned(k.fat, dir)

LEMMA QuietFrame ==
  ASSUME NEW k, NEW t, NEW dir, Quiet(t, k)
  PROVE  Frame(t, k, dir)
BY DEF Quiet, Frame, SamePlaces

\* A cluster that is free belongs to no directory: it can be cleared.
LEMMA ClearedIsSound ==
  ASSUME NEW m \in Map, NEW fat, Sound(m, fat), NEW c \in OnDisk, fat[c] = 0,
         NEW n, n = Refilled(m, c, Zeros)
  PROVE  n \in Map /\ SamePlaces(n, m) /\ Sound(n, fat) /\ Heads(n) = Heads(m) /\ n[c] = Zeros
         /\ \A a \in CellPlace : a[1] # c => At(n, a) = At(m, a)
<1>1. \A h \in Heads(m) : c \notin Owned(fat, h)
  BY HeadsBegin, OwnedTaken
<1>2. n \in Map /\ n[c] = Zeros /\ \A x \in OnDisk : x # c => n[x] = m[x]
  BY ZerosOK DEF Refilled, Map
<1>3. \A a \in CellPlace : a[1] # c => At(n, a) = At(m, a)
  BY <1>2, PlaceIs DEF At
<1>4. QED
  BY <1>1, <1>2, <1>3, ZerosOK, ZerosAre, Aside

LEMMA TookSound ==
  ASSUME NEW k, Firm(k), NEW p, NEW c, NEW t, Good(t), Took(t, k, p, c)
  PROVE  /\ Firm(t) /\ SamePlaces(t.disk.cluster, k.disk.cluster)
         /\ \A a \in CellPlace : a[1] # c => At(t.disk.cluster, a) = At(k.disk.cluster, a)
<1> DEFINE m == k.disk.cluster
           n == t.disk.cluster
<1>1. m \in Map /\ Sound(m, k.fat)
  BY FirmIs
<1>2. CanGive(k.fat, p, c) /\ c \in OnDisk /\ k.fat[c] = 0 /\ n = Refilled(m, c, Zeros)
      /\ t.fat = Given(k.fat, p, c) /\ t.disk.fat[1] = t.fat /\ ~t.dead /\ ~t.off
  BY DEF Took, CanGive
<1> HIDE DEF m, n
<1>3. n \in Map /\ SamePlaces(n, m) /\ Sound(n, k.fat) /\ n[c] = Zeros
      /\ \A a \in CellPlace : a[1] # c => At(n, a) = At(m, a)
  BY <1>1, <1>2, ClearedIsSound
<1>4. Sound(n, Given(k.fat, p, c))
  BY <1>2, <1>3, GiveSound
<1>5. QED
  BY <1>2, <1>3, <1>4 DEF Firm, m, n

LEMMA HalfTookRests ==
  ASSUME NEW k, Firm(k), NEW p, NEW c, NEW t, Good(t), HalfTook(t, k, p, c)
  PROVE  Rest(t)
<1> DEFINE m == k.disk.cluster
<1>1. m \in Map /\ Sound(m, k.fat) /\ k.fat = k.disk.fat[1]
  BY FirmIs
<1>2. CanGive(k.fat, p, c) /\ c \in OnDisk /\ k.fat[c] = 0 /\ t.dead /\ ~t.off
  BY DEF HalfTook, CanGive
<1> DEFINE n == Refilled(m, c, Zeros)
<1>3. n \in Map /\ Sound(n, k.fat) /\ n[c] = Zeros
  BY <1>1, <1>2, ClearedIsSound
<1> HIDE DEF n
<1>4. Sound(n, Given(k.fat, p, c))
  BY <1>2, <1>3, GiveSound
<1>5. \/ t.disk = k.disk
      \/ t.disk.cluster = n /\ t.disk.fat[1] \in {k.fat, Given(k.fat, p, c)}
  BY DEF HalfTook, n
<1>6. Sound(t.disk.cluster, t.disk.fat[1])
  BY <1>1, <1>3, <1>4, <1>5
<1>7. QED
  BY <1>2, <1>6 DEF Rest

\* The cluster goes to the chain from dir, or to none.
LEMMA TookFrame ==
  ASSUME NEW k, Firm(k), NEW dir, Begins(k.fat, dir), NEW p, IsCluster(p) => p \in Owned(k.fat, dir),
         NEW c, NEW t, Good(t), Took(t, k, p, c)
  PROVE  Frame(t, k, dir)
<1>1. TableOK(k.fat) /\ k.disk.cluster \in Map
  BY FirmIs
<1>2. CanGive(k.fat, p, c) /\ k.fat[c] = 0 /\ t.fat = Given(k.fat, p, c)
  BY DEF Took, CanGive
<1>3. /\ SamePlaces(t.disk.cluster, k.disk.cluster)
      /\ \A a \in CellPlace : a[1] # c => At(t.disk.cluster, a) = At(k.disk.cluster, a)
  BY TookSound
<1>4. \A h : Begins(k.fat, h) =>
         /\ Begins(t.fat, h) /\ c \notin Owned(k.fat, h)
         /\ IsCluster(p) /\ p \in Owned(k.fat, h) => Owned(t.fat, h) = Owned(k.fat, h) \cup {c}
         /\ ~(IsCluster(p) /\ p \in Owned(k.fat, h)) => Chain(t.fat, h) = Chain(k.fat, h)
  BY <1>1, <1>2, GivenChains DEF Owned
<1>5. ASSUME NEW h, Begins(k.fat, h), h # dir PROVE Chain(t.fat, h) = Chain(k.fat, h)
  <2>1. ~(IsCluster(p) /\ p \in Owned(k.fat, h))
    BY <1>1, <1>5, OwnedApart
  <2>2. QED
    BY <1>4, <1>5, <2>1
<1>6. \A a \in Places(k.disk.cluster) : a[1] # c
  <2>1. \A h \in Heads(k.disk.cluster) : c \notin Owned(k.fat, h)
    BY <1>4, FirmIs, HeadsBegin
  <2>2. QED
    BY <2>1, NoPlaceIn, FirmIs
<1>7. ASSUME NEW a \in Places(k.disk.cluster), a[1] \in Owned(t.fat, dir)
      PROVE  a[1] \in Owned(k.fat, dir)
  <2>1. Owned(t.fat, dir) = Owned(k.fat, dir) \cup {c} \/ Chain(t.fat, dir) = Chain(k.fat, dir)
    BY <1>4
  <2>2. QED
    BY <1>6, <1>7, <2>1 DEF Owned
<1>8. QED
  BY <1>2, <1>3, <1>4, <1>5, <1>7 DEF Frame

\* What belongs to something, and what becomes of a cluster by itself.
LEMMA TookWhole ==
  ASSUME NEW k, Firm(k), NEW p, NEW c, NEW t, Good(t), Later(t, k), Took(t, k, p, c)
  PROVE  /\ Tops(k.disk.cluster, k.fat) \subseteq Tops(t.disk.cluster, t.fat)
         /\ Untouched(t) => Untouched(k)
         /\ \A X, Y : /\ Whole(k.disk.cluster, k.fat, X) /\ X \subseteq Y
                      /\ IF IsCluster(p) THEN HasOwner(k.disk.cluster, k.fat, Y, p) ELSE c \in Y
                      => Whole(t.disk.cluster, t.fat, Y)
<1>1. k.disk.cluster \in Map /\ Sound(k.disk.cluster, k.fat) /\ ~k.off
  BY FirmIs
<1>2. SamePlaces(t.disk.cluster, k.disk.cluster)
  BY TookSound
<1>3. CanGive(k.fat, p, c) /\ t.fat = Given(k.fat, p, c)
  BY DEF Took
<1>4. Untouched(t) => Untouched(k)
  BY <1>1 DEF Untouched, Later
<1>5. QED
  BY <1>1, <1>2, <1>3, <1>4, GivenWhole

LEMMA TookKeeps ==
  ASSUME NEW k, Firm(k), NEW p \in OnDisk, NEW c, NEW t, Good(t), Later(t, k), Took(t, k, p, c),
         NEW dir \in Tops(k.disk.cluster, k.fat), p \in Owned(k.fat, dir)
  PROVE  Keeps(t, k)
<1>1. IsCluster(p)
  BY ClustersOnDisk
<1>2. dir \in Starts(k.disk.cluster) /\ Begins(k.fat, dir)
  <2>1. dir \in Heads(k.disk.cluster)
    BY TopIs
  <2>2. QED
    BY <2>1, FirmIs, HeadsBegin DEF Heads, Starts
<1>3. \A X : HasOwner(k.disk.cluster, k.fat, X, p)
  BY <1>2 DEF HasOwner
<1>4. QED
  BY <1>1, <1>3, TookWhole DEF Keeps

\* Handles are in order as long as their entries and chains stay, and no other
\* entry gets to lead where a handle does.
LEMMA HandlesFrame ==
  ASSUME NEW m, NEW fat \in Table, NEW o, HandlesOK(m, fat, o), NEW n, NEW g \in Table, NEW q,
         \A fd \in Fd : Live(q[fd]) => q[fd] = o[fd],
         \A fd \in Fd : Live(q[fd]) =>
            /\ q[fd].dir_entry \in Places(n)
            /\ At(n, q[fd].dir_entry).dir = At(m, q[fd].dir_entry).dir
            /\ At(n, q[fd].dir_entry).start = At(m, q[fd].dir_entry).start
            /\ q[fd].start_cluster # 0 =>
                  /\ Begins(g, q[fd].start_cluster)
                  /\ Chain(g, q[fd].start_cluster) = Chain(fat, q[fd].start_cluster),
         \A fd \in Fd, b \in Places(n) :
            Live(q[fd]) /\ q[fd].start_cluster # 0 /\ At(n, b).start = q[fd].start_cluster
               => b \in Places(m) /\ At(m, b).start = q[fd].start_cluster
  PROVE  HandlesOK(n, g, q)
<1>1. Chain(fat, 0) = << >> /\ Chain(g, 0) = << >>
  BY NoChain
<1>2. ASSUME NEW fd \in Fd, Live(q[fd]) PROVE HandleOK(n, g, q[fd])
  <2> DEFINE f == q[fd]
             s == f.start_cluster
  <2>1. HandleOK(m, fat, f)
    BY <1>2 DEF HandlesOK
  <2>2. EntryOfHandle(n, f)
    <3>1. EntryOfHandle(m, f)
      BY <2>1 DEF HandleOK
    <3>2. QED
      BY <1>2, <3>1 DEF EntryOfHandle
  <2>3. ChainOfHandle(g, f)
    <3>1. ChainOfHandle(fat, f)
      BY <2>1 DEF HandleOK
    <3>2. Chain(g, s) = Chain(fat, s)
      BY <1>1, <1>2
    <3>3. StartOK(g, s)
      BY <1>2, <3>1 DEF ChainOfHandle, StartOK
    <3>4. Room(g, s) = Room(fat, s) /\ LastOf(g, s) = LastOf(fat, s)
      BY <3>2 DEF Room, LastOf
    <3> HIDE DEF f, s
    <3>5. QED
      BY <3>1, <3>2, <3>3, <3>4 DEF ChainOfHandle, s
  <2>4. QED
    BY <2>2, <2>3 DEF HandleOK
<1>3. QED
  BY <1>2 DEF HandlesOK

\* A handle is on a file: its chain is no directory's.
LEMMA HandleIsNoHead ==
  ASSUME NEW m, NEW fat, NEW f, HandleOK(m, fat, f), NEW h \in Heads(m), f.start_cluster # 0
  PROVE  f.start_cluster # h /\ Begins(fat, f.start_cluster)
<1>1. Begins(fat, f.start_cluster) /\ f.start_cluster # ROOT_CLUSTER
  BY DEF HandleOK, ChainOfHandle, StartOK
<1>2. \A a \in Places(m) : At(m, a).dir => At(m, a).start # f.start_cluster
  BY DEF HandleOK, EntryOfHandle
<1>3. QED
  BY <1>1, <1>2, HeadIs

LEMMA FrameFine ==
  ASSUME NEW k, Fine(k), NEW t, Firm(t), t.open = k.open, NEW dir \in Heads(k.disk.cluster),
         Frame(t, k, dir)
  PROVE  Fine(t)
<1> DEFINE m == k.disk.cluster
           n == t.disk.cluster
           o == k.open
<1>1. k.fat \in Table /\ t.fat \in Table /\ HandlesOK(m, k.fat, o) /\ Firm(k)
  BY FirmIs DEF Fine
<1>2. Places(n) = Places(m) /\ \A a \in Places(m) : At(n, a) = At(m, a)
  BY DEF Frame, SamePlaces
<1>3. \A h : Begins(k.fat, h) /\ h # dir => Begins(t.fat, h) /\ Chain(t.fat, h) = Chain(k.fat, h)
  BY DEF Frame
<1>4. ASSUME NEW fd \in Fd, Live(o[fd])
      PROVE  /\ o[fd].dir_entry \in Places(m)
             /\ o[fd].start_cluster # 0 => Begins(k.fat, o[fd].start_cluster) /\ o[fd].start_cluster # dir
  <2>1. HandleOK(m, k.fat, o[fd])
    BY <1>1, <1>4 DEF HandlesOK
  <2>2. QED
    BY <2>1, HandleIsNoHead DEF HandleOK, EntryOfHandle
<1> HIDE DEF m, n, o
<1>5. HandlesOK(n, t.fat, o)
  BY <1>1, <1>2, <1>3, <1>4, HandlesFrame
<1>6. QED
  BY <1>5 DEF Fine, m, n, o

\* Room in a directory: a run of free cells that no zero comes before.
HasRun(k, where, m, first, count) ==
    \A i \in 1 .. count :
        /\ first + i - 1 \in DOMAIN where /\ k.locations[i] = where[first + i - 1]
        /\ At(m, where[first + i - 1]).kind \in {"zero", "deleted"}

NoZeroBefore(m, where, first) ==
    \A j \in DOMAIN where : j < first => At(m, where[j]).kind # "zero"

HasRoom(k, dir, count) ==
    \E first \in Nat \ {0} :
        /\ HasRun(k, Locations(k.fat, dir), k.disk.cluster, first, count)
        /\ NoZeroBefore(k.disk.cluster, Locations(k.fat, dir), first)

LEMMA RunIsRoom ==
  ASSUME NEW k, Firm(k), NEW dir \in Heads(k.disk.cluster), NEW count \in {1, 2},
         NEW t, t.disk = k.disk, t.fat = k.fat, RunAt(t, k, Locations(k.fat, dir), count)
  PROVE  HasRoom(t, dir, count)
<1> DEFINE m == k.disk.cluster
           W == Locations(k.fat, dir)
<1>1. /\ AreLocations(W, Chain(k.fat, dir))
      /\ \A j \in DOMAIN W : KindAt(k.disk, W[j]) = At(m, W[j]).kind
  BY DirectoryCells
<1>2. Tidy(m, W)
  BY FirmIs DEF Sound, HeadOK
<1> HIDE DEF m, W
<1>3. DOMAIN W = 1 .. Len(W) /\ Len(W) \in Nat /\ count \in Nat
  BY <1>1 DEF AreLocations
<1>4. PICK first \in 1 .. Len(W) - count + 1 :
         /\ FreeFrom(k, W, first, first + count - 1)
         /\ \A j \in 1 .. Len(W) - count + 1 : FreeFrom(k, W, j, j + count - 1) => first <= j
         /\ \A i \in 1 .. count : t.locations[i] = W[first + i - 1]
  BY DEF RunAt, W
<1>5. ASSUME NEW i \in 1 .. count
      PROVE  /\ first + i - 1 \in DOMAIN W /\ first + i - 1 \in first .. first + count - 1
  BY <1>3, <1>4
<1>6. HasRun(t, W, m, first, count)
  BY <1>1, <1>4, <1>5 DEF HasRun, FreeFrom
<1>7. ASSUME NEW j \in DOMAIN W, j < first, At(m, W[j]).kind = "zero" PROVE FALSE
  <2>1. j \in 1 .. Len(W) - count + 1
    BY <1>3, <1>4, <1>7
  <2>2. ASSUME NEW n \in j .. j + count - 1 PROVE KindAt(k.disk, W[n]) = "zero"
    <3>1. n \in DOMAIN W /\ (n = j \/ j < n)
      BY <1>3, <2>1
    <3>2. QED
      BY <1>1, <1>2, <1>7, <3>1 DEF Tidy
  <2>3. first <= j
    BY <1>4, <2>1, <2>2 DEF FreeFrom
  <2>4. QED
    BY <1>3, <1>4, <1>7, <2>3
<1>8. NoZeroBefore(m, W, first)
  BY <1>7 DEF NoZeroBefore
<1>9. first \in Nat \ {0}
  BY <1>3, <1>4
<1>10. QED
  BY <1>6, <1>8, <1>9 DEF HasRoom, m, W

LEMMA TailIsRoom ==
  ASSUME NEW k, Firm(k), NEW dir \in Heads(k.disk.cluster), NEW count \in {1, 2}, NEW c \in OnDisk,
         NEW t, Firm(t), dir \in Heads(t.disk.cluster),
         Chain(t.fat, dir) = Append(Chain(k.fat, dir), c),
         \A i \in 1 .. CellsPerCluster : At(t.disk.cluster, <<c, i>>).kind = "zero",
         \A j \in DOMAIN Locations(k.fat, dir) :
            At(t.disk.cluster, Locations(k.fat, dir)[j]) = At(k.disk.cluster, Locations(k.fat, dir)[j]),
         TailAt(t, k, Locations(k.fat, dir), count, c)
  PROVE  HasRoom(t, dir, count)
<1> DEFINE m == k.disk.cluster
           n == t.disk.cluster
           W == Locations(k.fat, dir)
           V == Locations(t.fat, dir)
           C == CellsPerCluster
<1>1. /\ AreLocations(W, Chain(k.fat, dir))
      /\ \A j \in DOMAIN W : KindAt(k.disk, W[j]) = At(m, W[j]).kind
  BY DirectoryCells
<1>2. Tidy(m, W) /\ \A j \in DOMAIN W : At(n, W[j]) = At(m, W[j])
  BY FirmIs DEF Sound, HeadOK
<1>3. /\ DOMAIN W \subseteq DOMAIN V /\ Len(V) = Len(W) + C
      /\ \A j \in DOMAIN W : V[j] = W[j]
      /\ \A i \in 1 .. C : V[Len(W) + i] = <<c, i>>
  <2>1. TableOK(k.fat) /\ TableOK(t.fat) /\ Begins(k.fat, dir) /\ Begins(t.fat, dir)
    BY FirmIs, HeadsBegin
  <2>2. QED
    BY <2>1, LocationsGrow
<1>4. AreLocations(V, Chain(t.fat, dir))
  BY DirectoryCells
<1>5. \A i \in 1 .. C : At(n, <<c, i>>).kind = "zero"
  OBVIOUS
<1>6. PICK tail \in 1 .. Len(W) + 1 :
        /\ FreeFrom(k, W, tail, Len(W))
        /\ \A j \in 1 .. Len(W) + 1 : FreeFrom(k, W, j, Len(W)) => tail <= j
        /\ \A i \in 1 .. count :
               t.locations[i] = IF tail + i - 1 <= Len(W) THEN W[tail + i - 1]
                                ELSE <<c, (tail + i - 1) - Len(W)>>
  BY DEF TailAt
<1> HIDE DEF m, n, W, V
<1>7. DOMAIN W = 1 .. Len(W) /\ Len(W) \in Nat /\ DOMAIN V = 1 .. Len(V) /\ count \in Nat /\ count <= 2
      /\ C \in Nat /\ C >= 2
  BY <1>1, <1>4, Sizes DEF AreLocations
<1> HIDE DEF C
<1>8. ASSUME NEW i \in 1 .. count
      PROVE  /\ tail + i - 1 \in DOMAIN V /\ t.locations[i] = V[tail + i - 1]
             /\ At(n, V[tail + i - 1]).kind \in {"zero", "deleted"}
  <2>1. tail + i - 1 \in DOMAIN V
    BY <1>3, <1>6, <1>7
  <2>2. CASE tail + i - 1 <= Len(W)
    <3>1. tail + i - 1 \in DOMAIN W /\ tail + i - 1 \in tail .. Len(W)
      BY <1>6, <1>7, <2>2
    <3>2. QED
      BY <1>1, <1>2, <1>3, <1>6, <2>1, <2>2, <3>1 DEF FreeFrom
  <2>3. CASE ~(tail + i - 1 <= Len(W))
    <3>1. (tail + i - 1) - Len(W) \in 1 .. C /\ Len(W) + ((tail + i - 1) - Len(W)) = tail + i - 1
      BY <1>6, <1>7, <2>3
    <3>2. V[tail + i - 1] = <<c, (tail + i - 1) - Len(W)>>
      BY <1>3, <3>1
    <3>3. QED
      BY <1>5, <1>6, <2>1, <2>3, <3>1, <3>2
  <2>4. QED
    BY <2>2, <2>3
<1>9. HasRun(t, V, n, tail, count)
  BY <1>8 DEF HasRun
<1>10. ASSUME NEW j \in DOMAIN V, j < tail, At(n, V[j]).kind = "zero" PROVE FALSE
  <2>1. j \in DOMAIN W /\ j \in 1 .. Len(W) + 1
    BY <1>6, <1>7, <1>10
  <2>2. At(m, W[j]).kind = "zero"
    BY <1>2, <1>3, <1>10, <2>1
  <2>3. ASSUME NEW i \in j .. Len(W) PROVE KindAt(k.disk, W[i]) = "zero"
    <3>1. i \in DOMAIN W /\ (i = j \/ j < i)
      BY <1>7, <2>1
    <3>2. QED
      BY <1>1, <1>2, <2>1, <2>2, <3>1 DEF Tidy
  <2>4. tail <= j
    BY <1>6, <2>1, <2>3 DEF FreeFrom
  <2>5. QED
    BY <1>6, <1>7, <1>10, <2>1, <2>4
<1>11. NoZeroBefore(n, V, tail)
  BY <1>10 DEF NoZeroBefore
<1>12. tail \in Nat \ {0}
  BY <1>6, <1>7
<1>13. QED
  BY <1>9, <1>11, <1>12 DEF HasRoom, n, V

LEMMA LastLocation ==
  ASSUME NEW k, Firm(k), NEW dir \in Heads(k.disk.cluster), NEW p, p = Last(Locations(k.fat, dir))[1]
  PROVE  p \in Owned(k.fat, dir) /\ p \in OnDisk /\ k.fat[p] = FAT32_END_CLUSTER
<1> DEFINE z == Chain(k.fat, dir)
           W == Locations(k.fat, dir)
           C == CellsPerCluster
<1>1. AreLocations(W, z) /\ TableOK(k.fat) /\ Begins(k.fat, dir)
  BY DirectoryCells, FirmIs
<1>2. IsChain(k.fat, z)
  BY <1>1, ChainFrom
<1> HIDE DEF z, W
<1>3. /\ Len(z) \in Nat \ {0} /\ \A c : c \in ClustersOf(z) <=> \E i \in 1 .. Len(z) : z[i] = c
      /\ k.fat[z[Len(z)]] = FAT32_END_CLUSTER /\ z[Len(z)] \in OnDisk
  BY <1>1, <1>2, ChainElements DEF IsChain
<1>4. /\ Len(W) = Len(z) * C /\ W \in Seq(CellPlace)
      /\ \A q \in 0 .. Len(z) - 1, i \in 1 .. C : W[q * C + i] = <<z[q + 1], i>>
  BY <1>1 DEF AreLocations
<1> DEFINE N == Len(z)
<1> HIDE DEF N
<1>5. N \in Nat \ {0} /\ C \in Nat \ {0}
  BY <1>3, Sizes DEF N
<1>6. N - 1 \in 0 .. N - 1 /\ C \in 1 .. C /\ (N - 1) * C + C = N * C /\ (N - 1) + 1 = N
  BY <1>5
<1>7. W[N * C] = <<z[N], C>>
  <2>1. W[(N - 1) * C + C] = <<z[(N - 1) + 1], C>>
    BY <1>4, <1>6 DEF N
  <2>2. QED
    BY <1>6, <2>1
<1>8. Last(W) = W[N * C]
  BY <1>4 DEF Last, N
<1>9. p = z[N]
  BY <1>7, <1>8 DEF W
<1>10. N \in 1 .. N
  BY <1>5
<1>11. QED
  BY <1>3, <1>9, <1>10 DEF N, Owned, z

\* Room for the entries was made, or nothing changed that matters.
Roomy(call, t, k, dir, count) ==
    \/ /\ Fine(t) /\ Frame(t, k, dir) /\ t.open = k.open
       /\ dir \in Tops(k.disk.cluster, k.fat) => Keeps(t, k)
       /\ t.ret = 0 => HasRoom(t, dir, count) /\ Len(t.locations) = count
    \/ t.ret # 0 /\ Lost(call, t)

LEMMA ReserveDoes ==
  ASSUME NEW call, call # "write", NEW k, Fine(k), NEW dir \in Heads(k.disk.cluster), NEW count \in {1, 2},
         NEW t, t = fat32_directory_reserve_entries(k, dir, count)
  PROVE  Good(t) /\ t.short = k.short /\ t.lfn = k.lfn /\ Roomy(call, t, k, dir, count)
<1> DEFINE W == Locations(k.fat, dir)
           p == Last(W)[1]
<1>1. Good(k) /\ Firm(k) /\ TableOK(k.fat) /\ Begins(k.fat, dir) /\ dir \in Number
  <2>1. Firm(k)
    BY DEF Fine
  <2>2. Begins(k.fat, dir)
    BY <2>1, DirectoryCells
  <2>3. QED
    BY <2>1, <2>2, FirmIs, Numbers DEF Begins
<1>2. Reserves(t, k, count) /\ ReservedAs(t, k, W, count)
  BY <1>1, ReserveOK
<1>3. p \in Owned(k.fat, dir) /\ p \in OnDisk /\ k.fat[p] = FAT32_END_CLUSTER
  BY <1>1, LastLocation
<1>4. Good(t) /\ t.short = k.short /\ t.lfn = k.lfn /\ (t.ret = 0 => Len(t.locations) = count)
  BY <1>2 DEF Reserves
<1>5. CASE Quiet(t, k) /\ (t.ret = 0 => RunAt(t, k, W, count))
  <2>1. Fine(t) /\ Frame(t, k, dir) /\ t.open = k.open
    BY <1>4, <1>5, FineQuiet, QuietFrame DEF Quiet
  <2>2. t.disk = k.disk /\ t.fat = k.fat
    BY <1>5 DEF Quiet
  <2>3. t.ret = 0 => HasRoom(t, dir, count)
    BY <1>1, <1>5, <2>2, RunIsRoom
  <2>4. QED
    BY <1>4, <1>5, <2>1, <2>3, KeepsQuiet DEF Roomy
<1>6. CASE \E v, x : /\ Quiet(v, k) /\ Good(v) /\ Good(x) /\ Quiet(t, x)
                     /\ x = fat32_allocate_cluster(v, Last(W)[1])
                     /\ t.ret = 0 => x.ret # 0 /\ TailAt(t, k, W, count, x.ret)
  <2>1. PICK v, x : /\ Quiet(v, k) /\ Good(v) /\ Good(x) /\ Quiet(t, x)
                    /\ x = fat32_allocate_cluster(v, p)
                    /\ t.ret = 0 => x.ret # 0 /\ TailAt(t, k, W, count, x.ret)
    BY <1>6
  <2> HIDE DEF p, W
  <2>2. Firm(v) /\ v.disk = k.disk /\ v.fat = k.fat /\ v.open = k.open
    BY <1>1, <2>1, FineQuiet DEF Quiet
  <2>3. Kept(x, v) /\ Allocated(call, x, v, p)
    BY <1>3, <2>1, <2>2, AllocateDoes
  <2>4. x.open = k.open /\ t.open = x.open /\ t.disk = x.disk /\ t.fat = x.fat
    BY <2>1, <2>2, <2>3 DEF Kept, Quiet
  <2>5. CASE x.ret = 0 /\ Quiet(x, v)
    <3>1. Quiet(t, k)
      BY <2>1, <2>5, QuietOn
    <3>2. Fine(t) /\ Frame(t, k, dir) /\ t.open = k.open /\ t.ret # 0
      BY <1>4, <2>1, <2>4, <2>5, <3>1, FineQuiet, QuietFrame
    <3>3. QED
      BY <1>4, <3>1, <3>2, KeepsQuiet DEF Roomy
  <2>6. CASE \E c : Took(x, v, p, c) /\ x.ret \in {0, c}
    <3>1. PICK c : Took(x, v, p, c) /\ x.ret \in {0, c}
      BY <2>6
    <3>2. Took(x, k, p, c)
      BY <2>2, <3>1 DEF Took
    <3>3. /\ Firm(x) /\ SamePlaces(x.disk.cluster, k.disk.cluster)
          /\ \A a \in CellPlace : a[1] # c => At(x.disk.cluster, a) = At(k.disk.cluster, a)
      BY <1>1, <2>1, <3>2, TookSound
    <3>4. Frame(x, k, dir)
      BY <1>1, <1>3, <2>1, <3>2, TookFrame
    <3>5. Fine(x)
      BY <2>4, <3>3, <3>4, FrameFine
    <3>6. Fine(t) /\ Frame(t, k, dir) /\ t.open = k.open
      BY <1>4, <2>1, <2>4, <3>4, <3>5, FineQuiet DEF Frame
    <3>7. ASSUME t.ret = 0 PROVE HasRoom(t, dir, count)
      <4>1. x.ret = c /\ TailAt(t, k, W, count, c)
        BY <2>1, <3>1, <3>7
      <4>2. Firm(t) /\ dir \in Heads(t.disk.cluster)
        <5>1. Heads(x.disk.cluster) = Heads(k.disk.cluster)
          BY <3>3 DEF SamePlaces, Heads
        <5>2. QED
          BY <2>4, <3>6, <5>1 DEF Fine
      <4>3. /\ CanGive(k.fat, p, c) /\ c \in OnDisk /\ k.fat[c] = 0 /\ t.fat = Given(k.fat, p, c)
            /\ t.disk.cluster = Refilled(k.disk.cluster, c, Zeros)
        BY <2>4, <3>2 DEF Took, CanGive
      <4>4. Chain(t.fat, dir) = Append(Chain(k.fat, dir), c)
        <5>1. IsCluster(p) /\ p \in ClustersOf(Chain(k.fat, dir))
          BY <1>3, ClustersOnDisk DEF Owned
        <5>2. QED
          BY <1>1, <4>3, <5>1, GivenChains
      <4>5. \A i \in 1 .. CellsPerCluster : At(t.disk.cluster, <<c, i>>).kind = "zero"
        <5>1. k.disk.cluster \in Map
          BY <1>1, FirmIs
        <5>2. t.disk.cluster[c] = Zeros
          BY <4>3, <5>1 DEF Map, Refilled
        <5>3. QED
          BY <5>2, ZerosAre DEF At
      <4>6. \A j \in DOMAIN W : At(t.disk.cluster, W[j]) = At(k.disk.cluster, W[j])
        <5>1. \A j \in DOMAIN W : W[j] \in CellPlace /\ W[j][1] \in Owned(k.fat, dir)
          BY <1>1, DirectoryCells DEF W
        <5>2. c \notin Owned(k.fat, dir)
          BY <1>1, <4>3, OwnedTaken
        <5>3. QED
          BY <2>4, <3>3, <5>1, <5>2
      <4>7. QED
        BY <1>1, <4>1, <4>2, <4>3, <4>4, <4>5, <4>6, TailIsRoom DEF W
    <3>8. dir \in Tops(k.disk.cluster, k.fat) => Keeps(t, k)
      <4>1. Later(x, k)
        BY <2>1, <2>3 DEF Kept, Quiet, Later
      <4>2. dir \in Tops(k.disk.cluster, k.fat) => Keeps(x, k)
        BY <1>1, <1>3, <2>1, <3>2, <4>1, TookKeeps
      <4>3. QED
        BY <2>1, <4>2, KeepsQuiet, KeepsOn
    <3>9. QED
      BY <1>4, <3>6, <3>7, <3>8 DEF Roomy
  <2>7. CASE x.ret = 0 /\ \E c : HalfTook(x, v, p, c)
    <3>1. Rest(x)
      BY <2>1, <2>2, <2>7, HalfTookRests
    <3>2. Lost(call, t)
      BY <1>4, <2>1, <3>1, LostQuiet DEF Lost
    <3>3. QED
      BY <1>4, <2>1, <2>7, <3>2 DEF Roomy
  <2>8. CASE x.ret = 0 /\ Spoilt(call, x)
    <3>1. Lost(call, t)
      BY <1>4, <2>1, <2>8, LostQuiet DEF Lost
    <3>2. QED
      BY <1>4, <2>1, <2>8, <3>1 DEF Roomy
  <2>9. QED
    BY <2>3, <2>5, <2>6, <2>7, <2>8 DEF Allocated
<1>7. QED
  BY <1>2, <1>5, <1>6 DEF ReservedAs

\* What comes of the new cells when their cluster c is written.
AreApart(where) ==
    /\ \A i \in DOMAIN where : where[i] \in CellPlace
    /\ \A i, j \in DOMAIN where : where[i] = where[j] => i = j

HasCells(n, m, where, cells, c) ==
    /\ \A i \in DOMAIN where : where[i][1] = c => At(n, where[i]) = cells[i]
    /\ \A a \in CellPlace : a[1] # c => At(n, a) = At(m, a)
    /\ \A a \in CellPlace : (\A i \in DOMAIN where : where[i] # a) => At(n, a) = At(m, a)

LEMMA FilledAt ==
  ASSUME NEW m \in Map, NEW where, NEW cells, NEW u, u.disk.cluster = m, NEW c \in OnDisk,
         AreApart(where), NEW n, n = Refilled(m, c, FilledWith(u, where, cells, c)), n \in Map
  PROVE  HasCells(n, m, where, cells, c)
<1> USE DEF AreApart
<1> DEFINE new == FilledWith(u, where, cells, c)
<1>1. \A i \in 1 .. CellsPerCluster : new[i] =
         IF \E x \in DOMAIN where : where[x] = <<c, i>>
         THEN cells[CHOOSE x \in DOMAIN where : where[x] = <<c, i>>]
         ELSE m[c][i]
  BY DEF FilledWith
<1>2. n[c] = new /\ \A x \in OnDisk : x # c => n[x] = m[x]
  BY DEF Refilled, Map
<1> HIDE DEF new
<1>3. \A a \in CellPlace : a[1] # c => At(n, a) = At(m, a)
  BY <1>2 DEF At, CellPlace
<1>4. ASSUME NEW a \in CellPlace, a[1] = c
      PROVE  At(n, a) = new[a[2]] /\ At(m, a) = m[c][a[2]] /\ a = <<c, a[2]>> /\ a[2] \in 1 .. CellsPerCluster
  BY <1>2, <1>4 DEF At, CellPlace
<1>5. ASSUME NEW i \in DOMAIN where, where[i][1] = c PROVE At(n, where[i]) = cells[i]
  <2> DEFINE a == where[i]
             x == CHOOSE y \in DOMAIN where : where[y] = <<c, a[2]>>
  <2>1. At(n, a) = new[a[2]] /\ a = <<c, a[2]>> /\ a[2] \in 1 .. CellsPerCluster
    BY <1>4, <1>5
  <2>2. x \in DOMAIN where /\ where[x] = <<c, a[2]>>
    BY <2>1
  <2>3. x = i
    BY <2>1, <2>2
  <2>4. new[a[2]] = cells[x]
    BY <1>1, <2>1
  <2>5. QED
    BY <2>1, <2>3, <2>4
<1>6. ASSUME NEW a \in CellPlace, \A i \in DOMAIN where : where[i] # a PROVE At(n, a) = At(m, a)
  <2>1. CASE a[1] = c
    BY <1>1, <1>4, <1>6, <2>1
  <2>2. QED
    BY <1>3, <2>1
<1>7. QED
  BY <1>3, <1>5, <1>6 DEF HasCells

\* The directory has the entry e more, or has it not.
Listing(n, m, fat, dir, e) ==
    /\ Sound(n, fat) /\ Places(m) \subseteq Places(n)
    /\ \A a \in Places(m) : At(n, a) = At(m, a)
    /\ \A a \in Places(n) : a \in Places(m) \/ At(n, a) = e
    /\ \A a \in CellPlace : a[1] \notin Owned(fat, dir) => At(n, a) = At(m, a)

LEMMA ListingOn ==
  ASSUME NEW m, NEW l, NEW n, NEW fat, NEW dir, NEW e,
         Listing(l, m, fat, dir, e), Places(l) = Places(m), Listing(n, l, fat, dir, e)
  PROVE  Listing(n, m, fat, dir, e)
BY DEF Listing

\* A directory whose cells are the same.
LEMMA HeadFrame ==
  ASSUME NEW m, NEW n, NEW fat, TableOK(fat), NEW h, Begins(fat, h), HeadOK(m, fat, h),
         \A a \in CellPlace : a[1] \in Owned(fat, h) => At(n, a) = At(m, a)
  PROVE  HeadOK(n, fat, h)
<1> DEFINE W == Locations(fat, h)
<1>1. \A j \in DOMAIN W : W[j] \in CellPlace /\ W[j][1] \in Owned(fat, h)
  BY LocationsAre DEF AreLocations, Owned
<1>2. Tidy(n, W)
  BY <1>1 DEF HeadOK, Tidy
<1>3. \A a \in CellPlace : a[1] \in Owned(fat, h) => (a \in Places(n) <=> a \in Places(m))
  BY DEF Places
<1>4. \A a \in Places(n) : a \in CellPlace
  BY DEF Places
<1>5. QED
  BY <1>2, <1>3, <1>4 DEF HeadOK

LEMMA DottedFrame ==
  ASSUME NEW m, NEW n, NEW fat, TableOK(fat), NEW h, Begins(fat, h), Dotted(m, h),
         \A a \in CellPlace : a[1] \in Owned(fat, h) => At(n, a) = At(m, a)
  PROVE  Dotted(n, h)
<1>1. h \in OnDisk /\ h \in Owned(fat, h)
  BY OwnedTaken DEF Begins
<1>2. <<h, 1>> \in CellPlace /\ <<h, 2>> \in CellPlace
  BY <1>1, Sizes DEF CellPlace
<1>3. At(n, <<h, 1>>) = At(m, <<h, 1>>) /\ At(n, <<h, 2>>) = At(m, <<h, 2>>)
  BY <1>1, <1>2
<1>4. QED
  BY <1>3 DEF Dotted

\* The cell at the j-th place of a directory is free, and no zero comes before.
FreeAt(m, fat, h, j) ==
    /\ j \in DOMAIN Locations(fat, h) /\ At(m, Locations(fat, h)[j]).kind \in {"zero", "deleted"}
    /\ NoZeroBefore(m, Locations(fat, h), j)

LEMMA PutEntry ==
  ASSUME NEW m \in Map, NEW fat, Sound(m, fat), NEW h \in Heads(m), NEW j, FreeAt(m, fat, h, j),
         NEW e, Addable(m, fat, h, e),
         NEW n \in Map, Changed(n, m, Locations(fat, h)[j], e)
  PROVE  Listing(n, m, fat, h, e)
<1> DEFINE at == Locations(fat, h)[j]
<1>1. /\ Sound(n, fat) /\ Places(m) \subseteq Places(n)
      /\ \A a \in Places(m) : At(n, a) = At(m, a)
      /\ \A a \in Places(n) : a \in Places(m) \/ (a = at /\ e.kind = "entry")
  BY PutSound DEF FreeAt, NoZeroBefore
<1>2. at[1] \in Owned(fat, h)
  BY HeadsBegin, LocationsAre DEF FreeAt, AreLocations, Owned
<1>3. QED
  BY <1>1, <1>2 DEF Listing, Changed

LEMMA PutLfn ==
  ASSUME NEW m \in Map, NEW fat, Sound(m, fat), NEW h \in Heads(m), NEW j, FreeAt(m, fat, h, j),
         NEW e, Addable(m, fat, h, e), NEW cell, cell.kind = "lfn", LfnOK(cell),
         NEW n \in Map, Changed(n, m, Locations(fat, h)[j], cell)
  PROVE  Listing(n, m, fat, h, e) /\ Places(n) = Places(m) /\ Addable(n, fat, h, e) /\ h \in Heads(n)
<1> DEFINE at == Locations(fat, h)[j]
<1>1. /\ Sound(n, fat) /\ Places(m) \subseteq Places(n)
      /\ \A a \in Places(m) : At(n, a) = At(m, a)
      /\ \A a \in Places(n) : a \in Places(m) \/ (a = at /\ cell.kind = "entry")
  BY PutSound DEF FreeAt, NoZeroBefore
<1>2. at[1] \in Owned(fat, h)
  BY HeadsBegin, LocationsAre DEF FreeAt, AreLocations, Owned
<1>3. Places(n) = Places(m)
  BY <1>1
<1>4. \A a \in CellPlace : a[1] \notin Owned(fat, h) => At(n, a) = At(m, a)
  BY <1>2 DEF Changed
<1>5. Listing(n, m, fat, h, e)
  BY <1>1, <1>4 DEF Listing
<1>6. h \in Heads(n)
  BY <1>1, <1>3 DEF Heads
<1>7. ASSUME e.dir PROVE Dotted(n, e.start) /\ HeadOK(n, fat, e.start)
  <2>1. Begins(fat, e.start) /\ e.start # ROOT_CLUSTER /\ Dotted(m, e.start) /\ HeadOK(m, fat, e.start)
        /\ e.start # 0
    BY <1>7 DEF Addable, StartOK
  <2>2. e.start # h
    BY <2>1, HeadIs DEF Addable
  <2>3. TableOK(fat) /\ Begins(fat, h)
    BY HeadsBegin
  <2>4. \A a \in CellPlace : a[1] \in Owned(fat, e.start) => At(n, a) = At(m, a)
    BY <1>4, <2>1, <2>2, <2>3, OwnedApart
  <2>5. QED
    BY <2>1, <2>3, <2>4, HeadFrame, DottedFrame
<1>8. Addable(n, fat, h, e)
  BY <1>1, <1>3, <1>7 DEF Addable
<1>9. QED
  BY <1>3, <1>5, <1>6, <1>8

\* The outcomes of writing the cells of a new entry into the room for them: the
\* entry is there when all was well; otherwise it is not, but for a write that was
\* reported as failed and was not.
Listed1(t, k, dir, e) ==
    /\ Listing(t.disk.cluster, k.disk.cluster, k.fat, dir, e)
    /\ ~t.ok /\ k.fault.kind # "late" => Places(t.disk.cluster) = Places(k.disk.cluster)
    /\ ~t.ok => t.hit # << >>
    /\ t.ok => \E a \in Places(t.disk.cluster) : At(t.disk.cluster, a) = e

LEMMA PutIsThere ==
  ASSUME NEW m, NEW fat, NEW dir, NEW e, Addable(m, fat, dir, e),
         NEW l, NEW a \in CellPlace, NEW n, Changed(n, l, a, e)
  PROVE  a \in Places(n) /\ At(n, a) = e
BY DEF Addable, Changed, Places

LEMMA ListingSame ==
  ASSUME NEW m, NEW fat, Sound(m, fat), NEW dir, NEW e
  PROVE  Listing(m, m, fat, dir, e)
BY DEF Listing

LEMMA DiskMap ==
  ASSUME NEW k, Running(k)
  PROVE  k.disk.cluster \in Map
BY DEF Running, CallState, SoundDisk, Map

LEMMA RoomIs ==
  ASSUME NEW k, Firm(k), NEW dir \in Heads(k.disk.cluster), NEW count \in {1, 2},
         HasRoom(k, dir, count), Len(k.locations) = count
  PROVE  LET W == Locations(k.fat, dir)
             m == k.disk.cluster
         IN  \E j : /\ FreeAt(m, k.fat, dir, j) /\ k.locations[1] = W[j]
                    /\ count = 2 => /\ j + 1 \in DOMAIN W /\ k.locations[2] = W[j + 1]
                                    /\ At(m, W[j + 1]).kind \in {"zero", "deleted"}
                    /\ DOMAIN k.locations = 1 .. count
                    /\ \A i \in 1 .. count : k.locations[i] \in CellPlace
                    /\ \A i, l \in 1 .. count : k.locations[i] = k.locations[l] => i = l
<1> DEFINE W == Locations(k.fat, dir)
           m == k.disk.cluster
<1>1. PICK j \in Nat \ {0} : HasRun(k, W, m, j, count) /\ NoZeroBefore(m, W, j)
  BY DEF HasRoom
<1>2. AreLocations(W, Chain(k.fat, dir))
  BY DirectoryCells
<1>3. k.locations \in Seq(Spot)
  BY FirmIs DEF Running, CallState
<1> HIDE DEF W, m
<1>4. \A i \in DOMAIN W : W[i] \in CellPlace /\ \A l \in DOMAIN W : W[i] = W[l] => i = l
  BY <1>2 DEF AreLocations
<1>5. DOMAIN k.locations = 1 .. count
  BY <1>3
<1>6. j + 1 - 1 = j /\ j + 2 - 1 = j + 1 /\ j # j + 1
  OBVIOUS
<1>7. /\ j \in DOMAIN W /\ k.locations[1] = W[j] /\ At(m, W[j]).kind \in {"zero", "deleted"}
  <2>1. 1 \in 1 .. count
    OBVIOUS
  <2>2. QED
    BY <1>1, <1>6, <2>1 DEF HasRun
<1>8. ASSUME count = 2
      PROVE  j + 1 \in DOMAIN W /\ k.locations[2] = W[j + 1] /\ At(m, W[j + 1]).kind \in {"zero", "deleted"}
  <2>1. 2 \in 1 .. count
    BY <1>8
  <2>2. QED
    BY <1>1, <1>6, <2>1 DEF HasRun
<1>9. \A i \in 1 .. count : i = 1 \/ (i = 2 /\ count = 2)
  OBVIOUS
<1>10. \A i \in 1 .. count : k.locations[i] \in CellPlace
  BY <1>4, <1>7, <1>8, <1>9
<1>11. \A i, l \in 1 .. count : k.locations[i] = k.locations[l] => i = l
  BY <1>4, <1>6, <1>7, <1>8, <1>9
<1>12. FreeAt(m, k.fat, dir, j)
  BY <1>1, <1>7 DEF FreeAt, W
<1>13. QED
  BY <1>5, <1>7, <1>8, <1>10, <1>11, <1>12 DEF W, m

\* Behind a cell that was put the next one can be.
LEMMA NextIsFree ==
  ASSUME NEW m \in Map, NEW fat, Sound(m, fat), NEW h \in Heads(m), NEW j, FreeAt(m, fat, h, j),
         j + 1 \in DOMAIN Locations(fat, h),
         At(m, Locations(fat, h)[j + 1]).kind \in {"zero", "deleted"},
         NEW cell, cell.kind = "lfn", NEW n, Changed(n, m, Locations(fat, h)[j], cell)
  PROVE  FreeAt(n, fat, h, j + 1)
<1> DEFINE W == Locations(fat, h)
<1>1. AreLocations(W, Chain(fat, h))
  BY HeadsBegin, LocationsAre
<1> HIDE DEF W
<1>2. DOMAIN W = 1 .. Len(W) /\ Len(W) \in Nat
      /\ \A i \in DOMAIN W : W[i] \in CellPlace /\ \A l \in DOMAIN W : W[i] = W[l] => i = l
  BY <1>1 DEF AreLocations
<1>3. j \in DOMAIN W /\ j + 1 \in DOMAIN W /\ \A i \in DOMAIN W : i < j => At(m, W[i]).kind # "zero"
  BY DEF FreeAt, NoZeroBefore, W
<1>4. At(n, W[j]) = cell /\ \A a \in CellPlace : a # W[j] => At(n, a) = At(m, a)
  BY DEF Changed, W
<1>5. j + 1 # j /\ \A i \in DOMAIN W : i < j + 1 => i < j \/ i = j
  BY <1>2, <1>3
<1>6. At(n, W[j + 1]) = At(m, W[j + 1])
  BY <1>2, <1>3, <1>4, <1>5
<1>7. ASSUME NEW i \in DOMAIN W, i < j + 1 PROVE At(n, W[i]).kind # "zero"
  <2>1. CASE i = j
    BY <1>4, <2>1
  <2>2. CASE i < j
    <3>1. i # j
      BY <1>2, <1>3, <2>2
    <3>2. QED
      BY <1>2, <1>3, <1>4, <2>2, <3>1
  <2>3. QED
    BY <1>5, <1>7, <2>1, <2>2
<1>8. QED
  BY <1>3, <1>6, <1>7 DEF FreeAt, NoZeroBefore, W

\* A cluster that is written back with one cell changed.
LEMMA RefilledAt ==
  ASSUME NEW m \in Map, NEW a \in CellPlace, NEW cell \in SoundCell,
         NEW n, n = Refilled(m, a[1], [m[a[1]] EXCEPT ![a[2]] = cell])
  PROVE  n \in Map /\ Changed(n, m, a, cell)
<1> DEFINE z == [m[a[1]] EXCEPT ![a[2]] = cell]
<1>1. a[1] \in OnDisk /\ a[2] \in 1 .. CellsPerCluster /\ a = <<a[1], a[2]>> /\ m[a[1]] \in Cluster
  BY PlaceIs DEF Map
<1>2. z \in Cluster /\ z[a[2]] = cell /\ \A i \in 1 .. CellsPerCluster : i # a[2] => z[i] = m[a[1]][i]
  BY <1>1 DEF Cluster
<1> HIDE DEF z
<1>3. n \in Map /\ n[a[1]] = z /\ \A c \in OnDisk : c # a[1] => n[c] = m[c]
  BY <1>1, <1>2 DEF Map, Refilled, z
<1>4. At(n, a) = cell
  BY <1>2, <1>3 DEF At
<1>5. ASSUME NEW b \in CellPlace, b # a PROVE At(n, b) = At(m, b)
  <2>1. b = <<b[1], b[2]>> /\ b[1] \in OnDisk /\ b[2] \in 1 .. CellsPerCluster
    BY PlaceIs
  <2>2. CASE b[1] = a[1]
    <3>1. b[2] # a[2]
      BY <1>1, <1>5, <2>1, <2>2
    <3>2. QED
      BY <1>2, <1>3, <2>1, <2>2, <3>1 DEF At
  <2>3. CASE b[1] # a[1]
    BY <1>3, <2>1, <2>3 DEF At
  <2>4. QED
    BY <2>2, <2>3
<1>6. QED
  BY <1>3, <1>4, <1>5 DEF Changed

LEMMA PutMap ==
  ASSUME NEW m \in Map, NEW a \in CellPlace, NEW cell \in SoundCell
  PROVE  \E n \in Map : Changed(n, m, a, cell)
BY RefilledAt

LEMMA EnterOne ==
  ASSUME NEW k, Firm(k), NEW dir \in Heads(k.disk.cluster), HasRoom(k, dir, 1), Len(k.locations) = 1,
         NEW e, Addable(k.disk.cluster, k.fat, dir, e), NEW t, NEW w, Entering(w, k, <<e>>, t)
  PROVE  Listed1(t, k, dir, e)
<1> DEFINE m == k.disk.cluster
           n == t.disk.cluster
           where == k.locations
           c == where[1][1]
           new == FilledWith(w[0], where, <<e>>, c)
<1>1. m \in Map /\ Sound(m, k.fat)
  BY FirmIs
<1>2. PICK j : /\ FreeAt(m, k.fat, dir, j) /\ where[1] = Locations(k.fat, dir)[j]
               /\ DOMAIN where = 1 .. 1
               /\ \A i \in 1 .. 1 : where[i] \in CellPlace
               /\ \A i, l \in 1 .. 1 : where[i] = where[l] => i = l
  BY RoomIs
<1>3. Len(<<e>>) = 1 /\ <<e>>[1] = e
  OBVIOUS
<1>4. Quiet(w[0], k) /\ w[0].ok /\ t = w[1] /\ Entered(w[1], w[0], where, <<e>>, 1)
  <2>1. 1 \in 1 .. 1
    OBVIOUS
  <2>2. QED
    BY <1>3, <2>1 DEF Entering
<1>5. Written(t, w[0], c, new)
  BY <1>4 DEF Entered
<1>6. w[0].disk = k.disk /\ w[0].fault = k.fault
  BY <1>4 DEF Quiet, Later
<1>7. where[1] \in CellPlace /\ c \in OnDisk
  BY <1>2 DEF CellPlace
<1> HIDE DEF new, c
<1>8. /\ t.disk = k.disk \/ n = Refilled(m, c, new)
      /\ ~t.ok /\ k.fault.kind # "late" => t.disk = k.disk
      /\ ~t.ok => t.hit # << >>
      /\ t.ok => n = Refilled(m, c, new)
  BY <1>5, <1>6, <1>7 DEF Written
<1>9. n \in Map
  BY <1>5, DiskMap DEF Written, Follows
<1>10. Listing(m, m, k.fat, dir, e)
  BY <1>1, ListingSame
<1>11. ASSUME n = Refilled(m, c, new)
       PROVE  Listing(n, m, k.fat, dir, e) /\ \E a \in Places(n) : At(n, a) = e
  <2>1. /\ \A i \in DOMAIN where : where[i][1] = c => At(n, where[i]) = <<e>>[i]
        /\ \A a \in CellPlace : (\A i \in DOMAIN where : where[i] # a) => At(n, a) = At(m, a)
    <3>1. AreApart(where)
      BY <1>2 DEF AreApart
    <3>2. w[0].disk.cluster = m
      BY <1>6
    <3> DEFINE cells == <<e>>
               w0 == w[0]
    <3>3. n = Refilled(m, c, FilledWith(w0, where, cells, c)) /\ w0.disk.cluster = m
      BY <1>11, <3>2 DEF new
    <3> HIDE DEF cells, w0, where, m, n
    <3>4. HasCells(n, m, where, cells, c)
      BY <1>1, <1>7, <1>9, <3>1, <3>3, FilledAt
    <3>5. QED
      BY <3>4 DEF cells, HasCells
  <2>2. Changed(n, m, where[1], e)
    BY <1>2, <1>3, <2>1 DEF Changed, c
  <2>3. \E a \in Places(n) : At(n, a) = e
    BY <1>7, <2>2, PutIsThere
  <2>4. QED
    BY <1>1, <1>2, <1>9, <2>2, <2>3, PutEntry
<1>12. QED
  BY <1>8, <1>10, <1>11 DEF Listed1

LEMMA EnterTwo ==
  ASSUME NEW k, Firm(k), NEW dir \in Heads(k.disk.cluster), HasRoom(k, dir, 2), Len(k.locations) = 2,
         NEW e, Addable(k.disk.cluster, k.fat, dir, e),
         NEW cell \in SoundCell, cell.kind = "lfn", LfnOK(cell),
         NEW t, NEW w, Entering(w, k, <<cell, e>>, t)
  PROVE  Listed1(t, k, dir, e)
<1> DEFINE m == k.disk.cluster
           where == k.locations
           c == where[1][1]
           d == where[2][1]
           cells == <<cell, e>>
           u == w[1]
           new == FilledWith(w[0], where, cells, c)
           next == FilledWith(u, where, cells, d)
           n == u.disk.cluster
           W == Locations(k.fat, dir)
<1>1. m \in Map /\ Sound(m, k.fat)
  BY FirmIs
<1>2. PICK j : /\ FreeAt(m, k.fat, dir, j) /\ where[1] = W[j]
               /\ 2 = 2 => /\ j + 1 \in DOMAIN W /\ where[2] = W[j + 1]
                           /\ At(m, W[j + 1]).kind \in {"zero", "deleted"}
               /\ DOMAIN where = 1 .. 2
               /\ \A i \in 1 .. 2 : where[i] \in CellPlace
               /\ \A i, l \in 1 .. 2 : where[i] = where[l] => i = l
  BY RoomIs
<1>3. Len(cells) = 2 /\ cells[1] = cell /\ cells[2] = e
  OBVIOUS
<1>4. /\ Quiet(w[0], k) /\ w[0].ok /\ t = w[2]
      /\ Entered(u, w[0], where, cells, 1) /\ Entered(t, u, where, cells, 2)
  <2>1. 1 \in 1 .. 2 /\ 2 \in 1 .. 2 /\ 1 - 1 = 0 /\ 2 - 1 = 1
    OBVIOUS
  <2>2. Entering(w, k, cells, t)
    OBVIOUS
  <2> HIDE DEF cells
  <2>3. QED
    BY <1>3, <2>1, <2>2 DEF Entering
<1>5. Written(u, w[0], c, new)
  BY <1>4 DEF Entered
<1>6. IF ~u.ok \/ d = c THEN t = u ELSE Written(t, u, d, next)
  <2>1. 2 - 1 = 1 /\ 2 > 1
    OBVIOUS
  <2> HIDE DEF cells, next, u
  <2>2. QED
    BY <1>4, <2>1 DEF Entered, next
<1>7. w[0].disk = k.disk /\ w[0].fault = k.fault
  BY <1>4 DEF Quiet, Later
<1>8. where[1] \in CellPlace /\ where[2] \in CellPlace /\ where[1] # where[2] /\ c \in OnDisk /\ d \in OnDisk
  <2>1. 1 \in 1 .. 2 /\ 2 \in 1 .. 2 /\ 1 # 2
    OBVIOUS
  <2>2. where[1] \in CellPlace /\ where[2] \in CellPlace /\ where[1] # where[2]
    BY <1>2, <2>1
  <2>3. QED
    BY <2>2 DEF CellPlace
<1>9. \A i \in 1 .. 2 : i = 1 \/ i = 2
  OBVIOUS
<1> HIDE DEF new, next, c, d, u, n, cells, W
<1>10. /\ u.disk = k.disk \/ n = Refilled(m, c, new)
       /\ ~u.ok /\ k.fault.kind # "late" => u.disk = k.disk
       /\ u.ok => n = Refilled(m, c, new)
       /\ ~u.ok => u.hit # << >>
  BY <1>5, <1>7, <1>8 DEF Written, n
<1>11. n \in Map /\ u.fault = k.fault
  BY <1>5, <1>7, DiskMap DEF Written, Follows, Kept, Later, n
<1>12. Listing(m, m, k.fat, dir, e)
  BY <1>1, ListingSame
<1>13. ASSUME n = Refilled(m, c, new)
       PROVE  /\ \A i \in DOMAIN where : where[i][1] = c => At(n, where[i]) = cells[i]
              /\ \A a \in CellPlace : a[1] # c => At(n, a) = At(m, a)
              /\ \A a \in CellPlace : (\A i \in DOMAIN where : where[i] # a) => At(n, a) = At(m, a)
  <2> DEFINE w0 == w[0]
  <2>1. w0.disk.cluster = m /\ n = Refilled(m, c, FilledWith(w0, where, cells, c))
    BY <1>7, <1>13 DEF new
  <2>2. AreApart(where)
    BY <1>2 DEF AreApart
  <2> HIDE DEF w0, where, m
  <2>3. HasCells(n, m, where, cells, c)
    BY <1>1, <1>8, <1>11, <2>1, <2>2, FilledAt
  <2>4. QED
    BY <2>3 DEF HasCells
\* Both cells, one after the other.
<1>14. ASSUME NEW l \in Map, Changed(l, m, where[1], cell), NEW x \in Map, Changed(x, l, where[2], e)
       PROVE  Listing(x, m, k.fat, dir, e) /\ \E a \in Places(x) : At(x, a) = e
  <2>1. Listing(l, m, k.fat, dir, e) /\ Places(l) = Places(m) /\ Addable(l, k.fat, dir, e) /\ dir \in Heads(l)
    BY <1>1, <1>2, <1>14, PutLfn DEF W
  <2>2. FreeAt(l, k.fat, dir, j + 1)
    BY <1>1, <1>2, <1>14, NextIsFree DEF W
  <2>3. Listing(x, l, k.fat, dir, e)
    BY <1>2, <1>14, <2>1, <2>2, PutEntry DEF W, Listing
  <2>4. \E a \in Places(x) : At(x, a) = e
    BY <1>8, <1>14, PutIsThere
  <2>5. QED
    BY <2>1, <2>3, <2>4, ListingOn
<1>15. CASE d = c
  <2>1. t = u
    BY <1>6, <1>15
  <2>2. ASSUME n = Refilled(m, c, new)
        PROVE  Listing(n, m, k.fat, dir, e) /\ \E a \in Places(n) : At(n, a) = e
    <3>1. At(n, where[1]) = cell /\ At(n, where[2]) = e
          /\ \A a \in CellPlace : a # where[1] /\ a # where[2] => At(n, a) = At(m, a)
      BY <1>2, <1>3, <1>9, <1>13, <1>15, <2>2 DEF c, d
    <3>2. PICK l \in Map : Changed(l, m, where[1], cell)
      BY <1>1, <1>8, PutMap
    <3>3. Changed(n, l, where[2], e)
      BY <1>8, <3>1, <3>2 DEF Changed
    <3>4. QED
      BY <1>11, <1>14, <3>2, <3>3
  <2>3. QED
    BY <1>10, <1>12, <2>1, <2>2 DEF Listed1, n
<1>16. CASE d # c
  <2>1. ASSUME n = Refilled(m, c, new)
        PROVE  Changed(n, m, where[1], cell) /\ Listing(n, m, k.fat, dir, e) /\ Places(n) = Places(m)
    <3>1. At(n, where[1]) = cell /\ At(n, where[2]) = At(m, where[2])
          /\ \A a \in CellPlace : a # where[1] /\ a # where[2] => At(n, a) = At(m, a)
      BY <1>2, <1>3, <1>8, <1>9, <1>13, <1>16, <2>1 DEF c, d
    <3>2. Changed(n, m, where[1], cell)
      BY <3>1 DEF Changed
    <3>3. QED
      BY <1>1, <1>2, <1>11, <3>2, PutLfn DEF W
  <2>2. CASE ~u.ok
    <3>1. t = u
      BY <1>6, <2>2
    <3>2. QED
      BY <1>10, <1>12, <2>1, <2>2, <3>1 DEF Listed1, n
  <2>3. CASE u.ok
    <3>1. Written(t, u, d, next) /\ n = Refilled(m, c, new)
      BY <1>6, <1>10, <1>16, <2>3
    <3> DEFINE x == t.disk.cluster
    <3>2. /\ t.disk = u.disk \/ x = Refilled(n, d, next)
          /\ ~t.ok /\ k.fault.kind # "late" => t.disk = u.disk
          /\ ~t.ok => t.hit # << >>
          /\ t.ok => x = Refilled(n, d, next)
      BY <1>8, <1>11, <3>1 DEF Written, n
    <3>3. x \in Map
      BY <3>1, DiskMap DEF Written, Follows
    <3>4. Changed(n, m, where[1], cell) /\ Listing(n, m, k.fat, dir, e) /\ Places(n) = Places(m)
      BY <2>1, <3>1
    <3> HIDE DEF x
    <3>5. ASSUME x = Refilled(n, d, next)
          PROVE  Listing(x, m, k.fat, dir, e) /\ \E a \in Places(x) : At(x, a) = e
      <4>0. u.disk.cluster = n
        BY DEF n
      <4>1. /\ \A i \in DOMAIN where : where[i][1] = d => At(x, where[i]) = cells[i]
            /\ \A a \in CellPlace : a[1] # d => At(x, a) = At(n, a)
            /\ \A a \in CellPlace : (\A i \in DOMAIN where : where[i] # a) => At(x, a) = At(n, a)
        <5>1. x = Refilled(n, d, FilledWith(u, where, cells, d))
          BY <3>5 DEF next
        <5>2. AreApart(where)
          BY <1>2 DEF AreApart
        <5> HIDE DEF where
        <5>3. HasCells(x, n, where, cells, d)
          BY <1>8, <1>11, <3>3, <4>0, <5>1, <5>2, FilledAt
        <5>4. QED
          BY <5>3 DEF HasCells
      <4>2. At(x, where[2]) = e /\ \A a \in CellPlace : a # where[2] => At(x, a) = At(n, a)
        BY <1>2, <1>3, <1>8, <1>9, <1>16, <4>1 DEF c, d
      <4>3. Changed(x, n, where[2], e)
        BY <4>2 DEF Changed
      <4>4. QED
        BY <1>11, <1>14, <3>3, <3>4, <4>3
    <3>6. QED
      BY <3>2, <3>4, <3>5 DEF Listed1, x, n
  <2>4. QED
    BY <2>2, <2>3
<1>17. QED
  BY <1>15, <1>16

\* A chain that no entry and no handle leads to.
Spare(k, s) ==
    /\ Begins(k.fat, s) /\ s # ROOT_CLUSTER
    /\ \A a \in Places(k.disk.cluster) : At(k.disk.cluster, a).start # s
    /\ \A fd \in Fd : Live(k.open[fd]) => k.open[fd].start_cluster # s

\* It has what a directory needs.
SetUp(k, s) == Dotted(k.disk.cluster, s) /\ HeadOK(k.disk.cluster, k.fat, s)

LEMMA SpareQuiet ==
  ASSUME NEW k, NEW t, Quiet(t, k), NEW s, Spare(k, s)
  PROVE  Spare(t, s) /\ (SetUp(k, s) => SetUp(t, s))
BY DEF Quiet, Spare, SetUp

LEMMA SpareFrame ==
  ASSUME NEW k, Firm(k), NEW dir \in Heads(k.disk.cluster), NEW t, Firm(t), Frame(t, k, dir),
         t.open = k.open, NEW s, Spare(k, s)
  PROVE  Spare(t, s) /\ (SetUp(k, s) => SetUp(t, s))
<1> DEFINE m == k.disk.cluster
           n == t.disk.cluster
<1>1. s # dir
  BY HeadIs DEF Spare
<1>2. Begins(t.fat, s) /\ Chain(t.fat, s) = Chain(k.fat, s)
  BY <1>1 DEF Spare, Frame
<1>3. Places(n) = Places(m) /\ \A a \in Places(m) : At(n, a) = At(m, a)
  BY DEF Frame, SamePlaces
<1>4. Spare(t, s)
  BY <1>2, <1>3 DEF Spare
<1>5. ASSUME SetUp(k, s) PROVE SetUp(t, s)
  <2>1. TableOK(k.fat) /\ Begins(k.fat, s) /\ Dotted(m, s) /\ HeadOK(m, k.fat, s)
    BY <1>5, FirmIs DEF SetUp, Spare
  <2>2. \A c \in Owned(k.fat, s) : k.fat[c] # 0
    BY <2>1, OwnedTaken
  <2>3. \A a \in CellPlace : a[1] \in Owned(k.fat, s) => At(n, a) = At(m, a)
    BY <2>2 DEF Frame
  <2>4. Dotted(n, s) /\ HeadOK(n, k.fat, s)
    BY <2>1, <2>3, HeadFrame, DottedFrame
  <2>5. Owned(t.fat, s) = Owned(k.fat, s) /\ Locations(t.fat, s) = Locations(k.fat, s)
    BY <1>2 DEF Owned, Locations
  <2>6. HeadOK(n, t.fat, s)
    BY <2>4, <2>5 DEF HeadOK
  <2>7. QED
    BY <2>4, <2>6 DEF SetUp
<1>6. QED
  BY <1>4, <1>5

\* The handles do not mind a new entry that leads nowhere, or to a spare chain.
LEMMA ListingFine ==
  ASSUME NEW k, Fine(k), NEW dir, NEW e, e.start = 0 \/ Spare(k, e.start),
         NEW t, Good(t), Follows(t, k), Listing(t.disk.cluster, k.disk.cluster, k.fat, dir, e)
  PROVE  /\ t.dead => Rest(t)
         /\ ~t.dead => Fine(t)
         /\ Places(t.disk.cluster) = Places(k.disk.cluster) /\ Spare(k, e.start) => Spare(t, e.start)
<1> DEFINE m == k.disk.cluster
           n == t.disk.cluster
           o == k.open
<1>1. Firm(k) /\ HandlesOK(m, k.fat, o) /\ k.fat \in Table /\ k.fat = k.disk.fat[1] /\ ~k.off
  BY FirmIs DEF Fine
<1>2. /\ t.disk.fat = k.disk.fat /\ t.fat = k.fat /\ t.off = k.off /\ t.open = k.open
  BY DEF Follows, Kept
<1>3. /\ Sound(n, k.fat) /\ Places(m) \subseteq Places(n)
      /\ \A a \in Places(m) : At(n, a) = At(m, a)
      /\ \A a \in Places(n) : a \in Places(m) \/ At(n, a) = e
  BY DEF Listing
<1>4. t.dead => Rest(t)
  BY <1>1, <1>2, <1>3 DEF Rest
<1>5. ~t.dead => Firm(t)
  BY <1>1, <1>2, <1>3 DEF Firm
<1>6. HandlesOK(n, k.fat, o)
  <2>1. ASSUME NEW fd \in Fd, Live(o[fd])
        PROVE  /\ o[fd].dir_entry \in Places(m)
               /\ o[fd].start_cluster # 0 => Begins(k.fat, o[fd].start_cluster)
               /\ o[fd].start_cluster # 0 => o[fd].start_cluster # e.start
    <3>1. HandleOK(m, k.fat, o[fd])
      BY <1>1, <2>1 DEF HandlesOK
    <3>2. QED
      BY <2>1, <3>1 DEF HandleOK, EntryOfHandle, ChainOfHandle, StartOK, Spare
  <2> HIDE DEF m, n, o
  <2>2. QED
    BY <1>1, <1>3, <2>1, HandlesFrame
<1>7. ~t.dead => Fine(t)
  BY <1>2, <1>5, <1>6 DEF Fine
<1>8. Places(n) = Places(m) /\ Spare(k, e.start) => Spare(t, e.start)
  BY <1>2, <1>3 DEF Spare
<1>9. QED
  BY <1>4, <1>7, <1>8

LEMMA OneAndOne ==
  ASSUME NEW S, NEW a \in S, NEW b \in S
  PROVE  <<a>> \o <<b>> = <<a, b>>
<1> DEFINE z == <<a>> \o <<b>>
           y == <<a, b>>
<1>1. z \in Seq(S) /\ Len(z) = 2 /\ z[1] = a /\ z[2] = b
  OBVIOUS
<1>2. y \in Seq(S) /\ Len(y) = 2 /\ y[1] = a /\ y[2] = b
  OBVIOUS
<1> HIDE DEF z, y
<1>3. \A i \in 1 .. 2 : i = 1 \/ i = 2
  OBVIOUS
<1>4. z = [i \in 1 .. 2 |-> z[i]] /\ y = [i \in 1 .. 2 |-> y[i]]
  BY <1>1, <1>2
<1>5. z = y
  BY <1>1, <1>2, <1>3, <1>4
<1>6. QED
  BY <1>5 DEF z, y

\* The entry is there, or the room for it at most, or more is lost.
EntryAdded(call, t, s) ==
    /\ Good(t) /\ (Fine(t) \/ Lost(call, t))
    /\ t.ret # 0 => s = 0 \/ Lost(call, t) \/ Spare(t, s)

\* The entry owns what was set apart for it.
EntryOwns(t, k, dir, s) ==
    dir \in Tops(k.disk.cluster, k.fat) =>
        IF t.ret # 0 THEN Keeps(t, k)
        ELSE \A X, Y : X \subseteq Y \cup {s} => Saves(t, k, X, Y)

LEMMA ListedOwns ==
  ASSUME NEW v, Firm(v), NEW dir, NEW e, NEW x, Follows(x, v), x.ok, Listed1(x, v, dir, e),
         dir \in Tops(v.disk.cluster, v.fat), NEW X, NEW Y, X \subseteq Y \cup {e.start}
  PROVE  Saves(x, v, X, Y)
<1> DEFINE m == v.disk.cluster
           n == x.disk.cluster
<1>1. m \in Map /\ n \in Map /\ x.fat = v.fat /\ x.off = v.off /\ (x.hit = << >> => v.hit = << >>)
  BY FirmIs, DiskMap DEF Follows
<1>2. Listing(n, m, v.fat, dir, e) /\ \E a \in Places(n) : At(n, a) = e
  BY DEF Listed1
<1>3. /\ Places(m) \subseteq Places(n) /\ \A a \in Places(m) : At(n, a) = At(m, a)
      /\ \A a \in Places(n) : a \in Places(m) \/ At(n, a) = e
      /\ \A a \in CellPlace : a[1] \notin Owned(v.fat, dir) => At(n, a) = At(m, a)
  BY <1>2 DEF Listing
<1> HIDE DEF m, n
<1>4. Whole(m, v.fat, X) => Whole(n, v.fat, Y)
  <2>1. dir \in Tops(m, v.fat)
    BY DEF m
  <2>2. QED
    BY <1>1, <1>2, <1>3, <2>1, ListedWhole
<1>5. QED
  BY <1>1, <1>4 DEF Saves, Untouched, m, n

LEMMA AddEntryDoes ==
  ASSUME NEW call, call # "write", NEW k, Fine(k), NEW dir \in Heads(k.disk.cluster), NEW name \in Name,
         NEW is_dir \in BOOLEAN, NEW s \in Number, ~is_dir => s = 0,
         is_dir => call = "mkdir" /\ s # 0 /\ Spare(k, s) /\ SetUp(k, s),
         NEW t, t = AddEntry(k, dir, name, is_dir, s)
  PROVE  EntryAdded(call, t, s) /\ EntryOwns(t, k, dir, s)
<1> DEFINE u == fat32_prepare_short_name(k, dir, name)
           count == IF u.lfn THEN 2 ELSE 1
           v == fat32_directory_reserve_entries(u, dir, count)
           e == Entry(v.short, is_dir, s, 0)
           cell == Lfn(name, v.short)
           cells == (IF v.lfn THEN <<cell>> ELSE << >>) \o <<e>>
           x == fat32_write_directory_entries(v, cells)
           r == IF x.ok THEN 0 ELSE -1
<1>0. Good(k) /\ Firm(k)
  BY FirmIs DEF Fine
<1>1. /\ Quiet(u, k) /\ Good(u)
      /\ u.ret = 0 => /\ u.short \in ShortName /\ u.short \notin {Dot, DotDot}
                      /\ \A a \in Places(k.disk.cluster) :
                             a[1] \in Owned(k.fat, dir) => At(k.disk.cluster, a).name # u.short
  BY <1>0, PrepareDoes
<1>2. u.lfn \in BOOLEAN
  BY <1>1 DEF Good, Running, CallState
<1>3. t = IF u.ret # 0 THEN [u EXCEPT !.ret = -1]
          ELSE IF v.ret # 0 THEN v ELSE [x EXCEPT !.ret = r]
  BY DEF AddEntry
<1> HIDE DEF u
<1>4. Fine(u) /\ Firm(u) /\ u.disk = k.disk /\ u.fat = k.fat /\ (is_dir => Spare(u, s) /\ SetUp(u, s))
  <2>1. Fine(u) /\ u.disk = k.disk /\ u.fat = k.fat
    BY <1>1, FineQuiet DEF Quiet
  <2>2. QED
    BY <1>1, <2>1, SpareQuiet DEF Fine
<1>5. CASE u.ret # 0
  <2>1. t = [u EXCEPT !.ret = -1]
    BY <1>3, <1>5
  <2>2. Good(t) /\ Quiet(t, u)
    <3>1. t = Failing(u)
      BY <2>1 DEF Failing
    <3>2. QED
      BY <1>1, <3>1, FailingQuiet
  <2>3. Fine(t)
    BY <1>4, <2>2, FineQuiet
  <2>4. is_dir => Spare(t, s)
    BY <1>4, <2>2, SpareQuiet
  <2>5. Keeps(t, k) /\ t.ret # 0
    <3>1. t.ret = -1
      BY <2>1, <1>1 DEF Good, Running, CallState
    <3>2. QED
      BY <1>1, <2>2, <3>1, KeepsQuiet, KeepsOn
  <2>6. QED
    BY <2>2, <2>3, <2>4, <2>5 DEF EntryAdded, EntryOwns
<1>6. CASE u.ret = 0
  <2>1. count \in {1, 2} /\ (u.lfn => count = 2) /\ (~u.lfn => count = 1)
    OBVIOUS
  <2> HIDE DEF count
  <2>2. Good(v) /\ v.short = u.short /\ v.lfn = u.lfn /\ Roomy(call, v, u, dir, count)
    BY <1>4, <2>1, ReserveDoes
  <2> HIDE DEF v
  <2>3. CASE v.ret # 0
    <3>1. t = v
      BY <1>3, <1>6, <2>3
    <3>2. CASE Lost(call, v)
      <4>1. Keeps(t, k)
        BY <2>2, <3>1, <3>2, SpoiltTouched, KeepsSaves DEF Lost
      <4>2. QED
        BY <2>2, <2>3, <3>1, <3>2, <4>1 DEF EntryAdded, EntryOwns
    <3>3. CASE /\ Fine(v) /\ Frame(v, u, dir) /\ v.open = u.open
               /\ dir \in Tops(u.disk.cluster, u.fat) => Keeps(v, u)
      <4>1. is_dir => Spare(v, s)
        BY <1>4, <3>3, SpareFrame DEF Fine
      <4>2. EntryOwns(t, k, dir, s)
        BY <1>1, <1>4, <2>3, <3>1, <3>3, KeepsQuiet, KeepsOn DEF EntryOwns
      <4>3. QED
        BY <2>2, <3>1, <3>3, <4>1, <4>2 DEF EntryAdded
    <3>4. QED
      BY <2>2, <2>3, <3>2, <3>3 DEF Roomy
  <2>4. CASE v.ret = 0
    <3>1. /\ Fine(v) /\ Frame(v, u, dir) /\ v.open = u.open /\ HasRoom(v, dir, count)
          /\ Len(v.locations) = count /\ (dir \in Tops(u.disk.cluster, u.fat) => Keeps(v, u))
      BY <2>2, <2>4 DEF Roomy
    <3>2. Firm(v) /\ (is_dir => Spare(v, s) /\ SetUp(v, s))
      <4>1. Firm(v)
        BY <3>1 DEF Fine
      <4>2. QED
        BY <1>4, <3>1, <4>1, SpareFrame
    <3> DEFINE m == v.disk.cluster
    <3>3. Places(m) = Places(k.disk.cluster) /\ \A a \in Places(m) : At(m, a) = At(k.disk.cluster, a)
      BY <1>4, <3>1 DEF Frame, SamePlaces
    <3>4. dir \in Heads(m)
      BY <3>3 DEF Heads
    <3>5. /\ e \in EntryOf(ShortName) /\ e.kind = "entry" /\ e.name = v.short /\ e.size = 0
          /\ e.start = s /\ e.dir = is_dir
      BY <1>1, <1>6, <2>2 DEF Entry, EntryOf
    <3>6. cell \in SoundCell /\ cell.kind = "lfn" /\ LfnOK(cell)
      BY <1>1, <1>6, <2>2 DEF Lfn, SoundCell, LfnOK
    <3> HIDE DEF e, cell
    <3>7. Addable(m, v.fat, dir, e)
      <4>1. StartOK(v.fat, s) /\ \A a \in Places(m) : s # 0 => At(m, a).start # s
        BY <3>2 DEF StartOK, Spare
      <4>2. \A a \in Places(m) : a[1] \in Owned(v.fat, dir) => At(m, a).name # e.name
        BY <1>1, <1>4, <1>6, <2>2, <3>1, <3>3, <3>5 DEF Frame
      <4>3. IsListed(e)
        BY <1>1, <1>6, <2>2, <3>5 DEF IsListed
      <4>4. e.dir => e.start # 0 /\ Dotted(m, e.start) /\ HeadOK(m, v.fat, e.start)
        BY <3>2, <3>5 DEF SetUp
      <4>5. QED
        BY <3>5, <4>1, <4>2, <4>3, <4>4 DEF Addable
    <3>8. e \in SoundCell
      BY <3>5 DEF SoundCell
    <3>9. ASSUME NEW w, Entering(w, v, cells, x) PROVE Listed1(x, v, dir, e)
      <4>1. CASE v.lfn
        <5>1. cells = <<cell, e>> /\ count = 2
          <6>1. cells = <<cell>> \o <<e>> /\ count = 2
            BY <2>1, <2>2, <4>1
          <6> HIDE DEF cells
          <6>2. QED
            BY <3>6, <3>8, <6>1, OneAndOne
        <5>2. Entering(w, v, <<cell, e>>, x)
          BY <3>9, <5>1
        <5> HIDE DEF cells, x
        <5>3. QED
          BY <3>1, <3>2, <3>4, <3>6, <3>7, <5>1, <5>2, EnterTwo
      <4>2. CASE ~v.lfn
        <5>1. cells = <<e>> /\ count = 1
          BY <1>2, <2>1, <2>2, <4>2
        <5>2. Entering(w, v, <<e>>, x)
          BY <3>9, <5>1
        <5> HIDE DEF cells, x
        <5>3. QED
          BY <3>1, <3>2, <3>4, <3>7, <5>1, <5>2, EnterOne
      <4>3. QED
        BY <4>1, <4>2
    <3>10. Follows(x, v) /\ x.ok \in BOOLEAN /\ \E w : Entering(w, v, cells, x)
      <4>1. cells \in Seq(SoundCell) /\ Len(cells) = count
        <5>1. CASE v.lfn
          <6>1. cells = <<cell>> \o <<e>> /\ count = 2
            BY <2>1, <2>2, <5>1
          <6> HIDE DEF cells
          <6>2. QED
            BY <3>6, <3>8, <6>1
        <5>2. CASE ~v.lfn
          <6>1. cells = << >> \o <<e>> /\ count = 1
            BY <1>2, <2>1, <2>2, <5>2
          <6> HIDE DEF cells
          <6>2. QED
            BY <3>8, <6>1
        <5>3. QED
          BY <5>1, <5>2
      <4> HIDE DEF cells
      <4>2. QED
        BY <2>2, <3>1, <4>1, WriteEntriesOK DEF Good
    <3>11. Listed1(x, v, dir, e)
      BY <3>9, <3>10
    <3>12. r \in Int /\ t = [x EXCEPT !.ret = r] /\ (r # 0 <=> ~x.ok)
      BY <1>3, <1>6, <2>4, <3>10
    <3> HIDE DEF x, r, cells
    <3>13. Good(x)
      BY <2>2, <3>10, FollowsGood
    <3>14. Good(t) /\ t.ret = r /\ Quiet(t, x)
      <4>1. Good(t) /\ t.ret = r /\ Kept(t, x) /\ Same(t, x)
        BY <3>12, <3>13, GoodRet
      <4>2. QED
        BY <4>1, QuietSame DEF Good, Kept
    <3>15. /\ x.dead => Rest(x)
           /\ ~x.dead => Fine(x)
           /\ Places(x.disk.cluster) = Places(m) /\ Spare(v, s) => Spare(x, s)
      <4>1. Listing(x.disk.cluster, m, v.fat, dir, e)
        BY <3>11 DEF Listed1
      <4>2. e.start = 0 \/ Spare(v, e.start)
        BY <3>2, <3>5
      <4>3. QED
        BY <3>1, <3>5, <3>10, <3>13, <4>1, <4>2, ListingFine
    <3>16. x.dead => Lost(call, t)
      BY <3>13, <3>14, <3>15, LostQuiet DEF Lost
    <3>17. ~x.dead => Fine(t)
      BY <3>14, <3>15, FineQuiet
    <3>18. ASSUME is_dir, ~x.ok, ~x.dead PROVE Lost(call, t) \/ Spare(t, s)
      <4>1. CASE v.fault.kind = "late"
        <5>1. x.hit # << >> /\ x.fault = v.fault
          BY <3>10, <3>11, <3>18 DEF Listed1, Follows, Kept, Later
        <5>2. t.hit # << >> /\ t.fault = x.fault
          BY <3>14, <5>1 DEF Quiet, Later
        <5>3. Spoilt(call, t)
          BY <3>18, <4>1, <5>1, <5>2 DEF Spoilt
        <5>4. QED
          BY <5>3 DEF Lost
      <4>2. CASE v.fault.kind # "late"
        <5>1. Places(x.disk.cluster) = Places(m)
          BY <3>11, <3>18, <4>2 DEF Listed1
        <5>2. Spare(x, s)
          BY <3>2, <3>15, <3>18, <5>1
        <5>3. QED
          BY <3>14, <5>2, SpareQuiet
      <4>3. QED
        BY <4>1, <4>2
    <3>19. x.dead \in BOOLEAN
      BY <3>13 DEF Good, Running, CallState
    <3>20. ASSUME dir \in Tops(k.disk.cluster, k.fat)
           PROVE  IF t.ret # 0 THEN Keeps(t, k)
                  ELSE \A X, Y : X \subseteq Y \cup {s} => Saves(t, k, X, Y)
      <4>1. Keeps(v, k) /\ Keeps(t, x)
        BY <1>1, <1>4, <3>1, <3>14, <3>20, KeepsQuiet, KeepsOn
      <4>2. CASE ~x.ok
        <5>1. ~Untouched(x) /\ t.ret # 0
          BY <3>11, <3>12, <3>14, <4>2 DEF Listed1, Untouched
        <5>2. ~Untouched(t)
          BY <4>1, <5>1 DEF Keeps
        <5>3. QED
          BY <5>1, <5>2, KeepsSaves
      <4>3. CASE x.ok
        <5>1. t.ret = 0
          BY <3>12, <3>14, <4>3
        <5>2. ASSUME Untouched(v), NEW X, NEW Y, X \subseteq Y \cup {s} PROVE Saves(x, v, X, Y)
          <6>1. dir \in Tops(v.disk.cluster, v.fat)
            BY <3>20, <4>1, <5>2 DEF Keeps
          <6>2. QED
            BY <3>2, <3>5, <3>10, <3>11, <4>3, <5>2, <6>1, ListedOwns
        <5>3. Untouched(x) => Untouched(v)
          BY <3>10 DEF Follows, Untouched
        <5>4. ASSUME NEW X, NEW Y, X \subseteq Y \cup {s} PROVE Saves(x, v, X, Y)
          BY <5>2, <5>3, <5>4 DEF Saves
        <5>5. ASSUME NEW X, NEW Y, X \subseteq Y \cup {s} PROVE Saves(t, k, X, Y)
          <6>1. Saves(x, k, X, Y)
            BY <4>1, <5>4, <5>5, KeepsSaves
          <6>2. QED
            BY <4>1, <6>1, KeepsSaves
        <5>6. QED
          BY <5>1, <5>5
      <4>4. QED
        BY <3>10, <4>2, <4>3
    <3>21. EntryOwns(t, k, dir, s)
      BY <3>20 DEF EntryOwns
    <3>22. QED
      BY <3>12, <3>14, <3>16, <3>17, <3>18, <3>19, <3>21 DEF EntryAdded
  <2>5. QED
    BY <2>3, <2>4
<1>7. QED
  BY <1>5, <1>6

-----------------------------------------------------------------------------
(* create and mkdir.                                                       *)

LEMMA CreateDoes ==
  ASSUME NEW k, Fine(k), NEW path \in Paths, NEW t, t = fat32_create(k, path)
  PROVE  Ends("create", t) /\ Saves(t, k, {}, {})
<1> DEFINE p == ParentOf(k, path)
<1>1. Quiet(p, k) /\ Good(p) /\ (p.ret = 0 => /\ p.entry.start \in Heads(k.disk.cluster)
                                              /\ p.entry.start \in Tops(k.disk.cluster, k.fat))
  BY ParentDoes DEF Fine
<1>2. t = IF p.ret # 0 THEN p ELSE AddEntry(p, p.entry.start, Last(path), FALSE, 0)
  BY DEF fat32_create
<1> HIDE DEF p
<1>3. Fine(p) /\ p.disk = k.disk /\ p.fat = k.fat /\ Keeps(p, k)
  BY <1>1, FineQuiet, KeepsQuiet DEF Quiet
<1>4. CASE p.ret # 0
  BY <1>1, <1>2, <1>3, <1>4, KeepsSaves DEF Ends
<1>5. CASE p.ret = 0
  <2>1. t = AddEntry(p, p.entry.start, Last(path), FALSE, 0)
    BY <1>2, <1>5
  <2>2. Last(path) \in Name /\ FALSE \in BOOLEAN /\ 0 \in Number
        /\ p.entry.start \in Heads(p.disk.cluster) /\ "create" # "write"
    BY <1>1, <1>3, <1>5, ThePaths, Numbers
  <2>3. EntryAdded("create", t, 0) /\ EntryOwns(t, p, p.entry.start, 0)
    BY <1>3, <2>1, <2>2, AddEntryDoes
  <2>4. Saves(t, p, {}, {})
    <3>1. p.entry.start \in Tops(p.disk.cluster, p.fat)
      BY <1>1, <1>3, <1>5
    <3>2. QED
      BY <2>3, <3>1, KeepsSaves DEF EntryOwns
  <2>5. QED
    BY <1>3, <2>3, <2>4, KeepsSaves DEF EntryAdded, Ends, Lost
<1>6. QED
  BY <1>4, <1>5

\* A cluster of its own.
LEMMA TookSpare ==
  ASSUME NEW k, Fine(k), NEW c, NEW t, Good(t), Later(t, k), t.open = k.open, Took(t, k, 0, c)
  PROVE  /\ Fine(t) /\ Spare(t, c) /\ Chain(t.fat, c) = <<c>> /\ Heads(t.disk.cluster) = Heads(k.disk.cluster)
         /\ Tops(k.disk.cluster, k.fat) \subseteq Tops(t.disk.cluster, t.fat) /\ Saves(t, k, {}, {c})
<1>1. Firm(k) /\ TableOK(k.fat) /\ Begins(k.fat, ROOT_CLUSTER) /\ HandlesOK(k.disk.cluster, k.fat, k.open)
  BY FirmIs DEF Fine
<1>2. ~IsCluster(0)
  BY DEF IsCluster
<1>3. CanGive(k.fat, 0, c) /\ t.fat = Given(k.fat, 0, c) /\ k.fat[c] = 0
  BY DEF Took, CanGive
<1>4. Firm(t) /\ SamePlaces(t.disk.cluster, k.disk.cluster)
  BY <1>1, TookSound
<1>5. ROOT_CLUSTER \in Heads(k.disk.cluster)
  BY HeadIs
<1>6. Frame(t, k, ROOT_CLUSTER)
  BY <1>1, <1>2, TookFrame
<1>7. Fine(t)
  BY <1>4, <1>5, <1>6, FrameFine
<1>8. Begins(t.fat, c) /\ Chain(t.fat, c) = <<c>>
  BY <1>1, <1>2, <1>3, GivenChains
<1>9. c # ROOT_CLUSTER
  BY <1>1, <1>3 DEF Begins
<1>10. c \in OnDisk /\ c # 0
  BY <1>3, ClustersOnDisk DEF CanGive
<1>11. Places(t.disk.cluster) = Places(k.disk.cluster) /\ Heads(t.disk.cluster) = Heads(k.disk.cluster)
       /\ \A a \in Places(k.disk.cluster) : At(t.disk.cluster, a) = At(k.disk.cluster, a)
  BY <1>4 DEF SamePlaces, Heads
<1>12. \A a \in Places(k.disk.cluster) : At(k.disk.cluster, a).start # c
  <2>1. \A a \in Places(k.disk.cluster) : StartOK(k.fat, At(k.disk.cluster, a).start)
    BY <1>1, FirmIs DEF Sound, EntryOK
  <2>2. QED
    BY <1>3, <1>10, <2>1 DEF StartOK, Begins
<1>13. \A fd \in Fd : Live(k.open[fd]) => k.open[fd].start_cluster # c
  <2>1. \A fd \in Fd : Live(k.open[fd]) => StartOK(k.fat, k.open[fd].start_cluster)
    BY <1>1 DEF HandlesOK, HandleOK, ChainOfHandle
  <2>2. QED
    BY <1>3, <1>10, <2>1 DEF StartOK, Begins
<1>14. Spare(t, c)
  BY <1>8, <1>9, <1>11, <1>12, <1>13 DEF Spare
<1>15. Tops(k.disk.cluster, k.fat) \subseteq Tops(t.disk.cluster, t.fat) /\ Saves(t, k, {}, {c})
  BY <1>1, <1>2, TookWhole DEF Saves
<1>16. QED
  BY <1>7, <1>8, <1>11, <1>14, <1>15

DotCells(c, parent) ==
    [i \in 1 .. CellsPerCluster |->
        CASE i = 1 -> Entry(Dot, TRUE, c, 0)
          [] i = 2 -> Entry(DotDot, TRUE, parent, 0)
          [] OTHER -> Zero]

LEMMA DotCellsAre ==
  ASSUME NEW c \in Number, NEW parent \in Number
  PROVE  /\ DotCells(c, parent) \in Cluster
         /\ DotCells(c, parent)[1] = Entry(Dot, TRUE, c, 0)
         /\ DotCells(c, parent)[2].kind = "entry" /\ DotCells(c, parent)[2].name = DotDot
         /\ \A i \in 1 .. CellsPerCluster :
                /\ ~IsListed(DotCells(c, parent)[i]) /\ LfnOK(DotCells(c, parent)[i])
                /\ i > 2 => DotCells(c, parent)[i] = Zero
                /\ i <= 2 => DotCells(c, parent)[i].kind = "entry"
                /\ DotCells(c, parent)[i].kind \notin {"byte", "junk"}
<1> DEFINE z == DotCells(c, parent)
<1>1. Dot \in ShortName /\ DotDot \in ShortName
  BY DEF ShortName
<1>2. Entry(Dot, TRUE, c, 0) \in SoundCell /\ Entry(DotDot, TRUE, parent, 0) \in SoundCell
      /\ Zero \in SoundCell
  BY <1>1 DEF Entry, SoundCell, EntryOf
<1>3. z \in Cluster
  BY <1>2 DEF Cluster, DotCells
<1>4. \A i \in 1 .. CellsPerCluster :
         /\ i = 1 => z[i] = Entry(Dot, TRUE, c, 0)
         /\ i = 2 => z[i] = Entry(DotDot, TRUE, parent, 0)
         /\ i # 1 /\ i # 2 => z[i] = Zero
  <2> DEFINE e1 == Entry(Dot, TRUE, c, 0)
             e2 == Entry(DotDot, TRUE, parent, 0)
  <2>1. z = [i \in 1 .. CellsPerCluster |-> CASE i = 1 -> e1 [] i = 2 -> e2 [] OTHER -> Zero]
    BY DEF DotCells
  <2> HIDE DEF e1, e2, z
  <2>2. ASSUME NEW i \in 1 .. CellsPerCluster
        PROVE  (i = 1 => z[i] = e1) /\ (i = 2 => z[i] = e2) /\ (i # 1 /\ i # 2 => z[i] = Zero)
    BY <2>1
  <2>3. QED
    BY <2>2 DEF e1, e2
<1> HIDE DEF z
<1>5. /\ ~IsListed(Entry(Dot, TRUE, c, 0)) /\ LfnOK(Entry(Dot, TRUE, c, 0))
      /\ ~IsListed(Entry(DotDot, TRUE, parent, 0)) /\ LfnOK(Entry(DotDot, TRUE, parent, 0))
      /\ ~IsListed(Zero) /\ LfnOK(Zero)
  BY DEF IsListed, LfnOK, Entry, Zero
<1>6. /\ Entry(Dot, TRUE, c, 0).kind = "entry" /\ Entry(DotDot, TRUE, parent, 0).kind = "entry"
      /\ Entry(DotDot, TRUE, parent, 0).name = DotDot /\ Zero.kind = "zero"
  BY DEF Entry, Zero
<1>7. 1 \in 1 .. CellsPerCluster /\ 2 \in 1 .. CellsPerCluster
  BY Sizes
<1>8. \A i \in 1 .. CellsPerCluster : (i > 2 => i # 1 /\ i # 2) /\ (i <= 2 => i = 1 \/ i = 2)
  BY Sizes
<1>9. /\ z[1] = Entry(Dot, TRUE, c, 0) /\ z[2].kind = "entry" /\ z[2].name = DotDot
  BY <1>4, <1>6, <1>7
<1>10. ASSUME NEW i \in 1 .. CellsPerCluster
       PROVE  /\ ~IsListed(z[i]) /\ LfnOK(z[i])
              /\ i > 2 => z[i] = Zero
              /\ i <= 2 => z[i].kind = "entry"
              /\ z[i].kind \notin {"byte", "junk"}
  <2>1. CASE i = 1
    <3>0. ~(i > 2)
      BY <2>1
    <3>1. z[i] = Entry(Dot, TRUE, c, 0)
      BY <1>4, <2>1, Zenon
    <3>2. ~IsListed(z[i]) /\ LfnOK(z[i]) /\ z[i].kind = "entry"
      BY <1>5, <1>6, <3>1
    <3>3. QED
      BY <3>0, <3>1, <3>2
  <2>2. CASE i = 2
    <3>0. ~(i > 2)
      BY <2>2
    <3>1. z[i] = Entry(DotDot, TRUE, parent, 0)
      BY <1>4, <2>2, Zenon
    <3>2. ~IsListed(z[i]) /\ LfnOK(z[i]) /\ z[i].kind = "entry"
      BY <1>5, <1>6, <3>1
    <3>3. QED
      BY <3>0, <3>1, <3>2
  <2>3. CASE i # 1 /\ i # 2
    BY <1>4, <1>5, <1>6, <1>8, <2>3
  <2>4. QED
    BY <2>1, <2>2, <2>3
<1>11. QED
  BY <1>3, <1>9, <1>10 DEF z

\* One cluster with its dots is a directory.
LEMMA DottedIsHead ==
  ASSUME NEW m \in Map, NEW fat, TableOK(fat), NEW c, Begins(fat, c), Chain(fat, c) = <<c>>,
         NEW parent \in Number, m[c] = DotCells(c, parent)
  PROVE  Dotted(m, c) /\ HeadOK(m, fat, c)
<1> DEFINE z == DotCells(c, parent)
           W == Locations(fat, c)
<1>1. c \in OnDisk /\ c \in Number
  BY Numbers DEF Begins
<1>2. /\ z[1] = Entry(Dot, TRUE, c, 0) /\ z[2].kind = "entry" /\ z[2].name = DotDot
      /\ \A i \in 1 .. CellsPerCluster :
            /\ ~IsListed(z[i]) /\ (i > 2 => z[i] = Zero) /\ (i <= 2 => z[i].kind = "entry")
            /\ z[i].kind \notin {"byte", "junk"}
  BY <1>1, DotCellsAre
<1>3. AreLocations(W, <<c>>)
  BY LocationsAre
<1>4. m[c] = z
  OBVIOUS
<1> HIDE DEF z, W
<1>5. Dotted(m, c)
  BY <1>2, <1>4 DEF Dotted, At
<1>6. Owned(fat, c) = {c}
  <2>1. ClustersOf(<<c>>) = {c}
    BY DEF ClustersOf
  <2>2. QED
    BY <2>1 DEF Owned
<1>7. \A a \in CellPlace : a[1] = c => a[2] \in 1 .. CellsPerCluster /\ At(m, a) = z[a[2]]
  BY <1>4 DEF At, CellPlace
<1>8. /\ DOMAIN W = 1 .. CellsPerCluster /\ \A j \in DOMAIN W : W[j] = <<c, j>>
  <2>1. Len(<<c>>) = 1 /\ 0 \in 0 .. 1 - 1 /\ <<c>>[0 + 1] = c
    OBVIOUS
  <2>2. CellsPerCluster \in Nat /\ \A i \in 1 .. CellsPerCluster : 0 * CellsPerCluster + i = i
    BY Sizes
  <2>3. Len(W) = 1 * CellsPerCluster /\ DOMAIN W = 1 .. Len(W)
        /\ \A i \in 1 .. CellsPerCluster : W[0 * CellsPerCluster + i] = <<c, i>>
    BY <1>3, <2>1 DEF AreLocations
  <2>4. QED
    BY <2>2, <2>3
<1>9. \A j \in DOMAIN W : At(m, W[j]) = z[j]
  BY <1>4, <1>8 DEF At
<1>10. Tidy(m, W)
  <2> SUFFICES ASSUME NEW i \in DOMAIN W, NEW j \in DOMAIN W, i < j, At(m, W[i]).kind = "zero"
               PROVE  At(m, W[j]).kind = "zero"
    BY DEF Tidy
  <2>1. i > 2
    BY <1>2, <1>8, <1>9, Sizes
  <2>2. j > 2 /\ j \in 1 .. CellsPerCluster
    BY <1>8, <2>1, Sizes
  <2>3. At(m, W[j]) = Zero
    BY <1>2, <1>9, <2>2
  <2>4. QED
    BY <2>3 DEF Zero
<1>11. \A a \in Places(m) : a[1] # c
  BY <1>2, <1>7 DEF Places
<1>12. QED
  BY <1>2, <1>5, <1>6, <1>7, <1>10, <1>11 DEF HeadOK, W

\* A directory is set up before anything leads to it.
DotsWritten(t, k, c) ==
    /\ Good(t) /\ t.ok \in BOOLEAN
    /\ t.dead => Rest(t)
    /\ ~t.dead => Fine(t) /\ Spare(t, c)
    /\ t.ok => ~t.dead /\ SetUp(t, c)
    /\ Heads(t.disk.cluster) = Heads(k.disk.cluster)
    /\ Tops(t.disk.cluster, t.fat) = Tops(k.disk.cluster, k.fat) /\ Keeps(t, k)

LEMMA InitDirectoryDoes ==
  ASSUME NEW k, Fine(k), NEW c, Spare(k, c), Chain(k.fat, c) = <<c>>, NEW parent \in Number,
         NEW t, t = fat32_init_directory(k, c, parent)
  PROVE  DotsWritten(t, k, c)
<1> DEFINE m == k.disk.cluster
           n == t.disk.cluster
           z == DotCells(c, parent)
<1>1. /\ Good(k) /\ Running(k) /\ ~k.dead /\ ~k.off /\ Firm(k) /\ m \in Map /\ Sound(m, k.fat) /\ TableOK(k.fat)
      /\ k.fat = k.disk.fat[1]
  BY FirmIs DEF Fine
<1>2. c \in OnDisk /\ c \in Number /\ Begins(k.fat, c)
  BY Numbers DEF Spare, Begins
<1>3. z \in Cluster /\ \A i \in 1 .. CellsPerCluster : ~IsListed(z[i]) /\ LfnOK(z[i])
  BY <1>2, DotCellsAre
<1>4. t = fat32_write_cluster(k, c, z, <<"dots">>)
  BY DEF fat32_init_directory, DotCells
<1>5. <<"dots">> \in Hit /\ <<"dots">> # << >>
  BY DEF Hit
<1> HIDE DEF z
<1>6. Follows(t, k) /\ t.ok \in BOOLEAN /\ Wrote(t, k, c, z, <<"dots">>)
  BY <1>1, <1>2, <1>3, <1>4, <1>5, WriteClusterOK
<1>7. Good(t)
  BY <1>1, <1>6, FollowsGood
<1>8. /\ t.disk = k.disk \/ n = Refilled(m, c, z)
      /\ t.ok => n = Refilled(m, c, z) /\ ~t.dead
  BY <1>6 DEF Wrote, Transferred
<1>9. t.fat = k.fat /\ t.disk.fat = k.disk.fat /\ t.off = k.off /\ t.open = k.open
  BY <1>6 DEF Follows, Kept
<1> DEFINE x == Refilled(m, c, z)
<1>10. x \in Map /\ SamePlaces(x, m) /\ Sound(x, k.fat) /\ Heads(x) = Heads(m)
  <2>1. \A h \in Heads(m) : c \notin Owned(k.fat, h)
    <3>1. ASSUME NEW h \in Heads(m), c \in Owned(k.fat, h) PROVE FALSE
      <4>1. Begins(k.fat, h) /\ c \in Owned(k.fat, c)
        BY <1>1, <1>2, HeadsBegin, OwnedTaken
      <4>2. h = c
        BY <1>1, <1>2, <3>1, <4>1, OwnedApart
      <4>3. QED
        BY <4>2, HeadIs DEF Spare
    <3>2. QED
      BY <3>1
  <2> HIDE DEF m
  <2>2. QED
    BY <1>1, <1>2, <1>3, <2>1, Aside
<1>11. SamePlaces(n, m) /\ Sound(n, k.fat) /\ Heads(n) = Heads(m)
  <2>1. SamePlaces(m, m)
    BY DEF SamePlaces
  <2>2. QED
    BY <1>1, <1>8, <1>10, <2>1
<1>12. t.dead => Rest(t)
  BY <1>1, <1>7, <1>9, <1>11 DEF Rest
<1>13. ~t.dead => Firm(t)
  BY <1>1, <1>7, <1>9, <1>11 DEF Firm
<1>14. HandlesOK(n, k.fat, k.open)
  <2>1. HandlesOK(m, k.fat, k.open) /\ k.fat \in Table
    BY <1>1, FirmIs DEF Fine
  <2>2. Places(n) = Places(m) /\ \A a \in Places(m) : At(n, a) = At(m, a)
    BY <1>11 DEF SamePlaces
  <2>3. \A fd \in Fd : Live(k.open[fd]) => /\ k.open[fd].dir_entry \in Places(m)
                                           /\ StartOK(k.fat, k.open[fd].start_cluster)
    BY <2>1 DEF HandlesOK, HandleOK, EntryOfHandle, ChainOfHandle
  <2> HIDE DEF m, n
  <2>4. QED
    BY <2>1, <2>2, <2>3, HandlesFrame DEF StartOK
<1>15. ~t.dead => Fine(t)
  BY <1>9, <1>13, <1>14 DEF Fine
<1>16. Spare(t, c)
  BY <1>9, <1>11 DEF Spare, SamePlaces
<1>17. ASSUME t.ok PROVE SetUp(t, c)
  <2>1. n = x
    BY <1>8, <1>17
  <2>2. n[c] = z /\ n \in Map
    BY <1>1, <1>2, <1>10, <2>1 DEF Refilled, Map
  <2> HIDE DEF n, x
  <2>3. Dotted(n, c) /\ HeadOK(n, k.fat, c)
    BY <1>1, <1>2, <2>2, DottedIsHead DEF z
  <2>4. QED
    BY <1>9, <2>3 DEF SetUp, n
<1>18. Keeps(t, k) /\ Tops(n, t.fat) = Tops(m, k.fat)
  <2>1. Tops(n, k.fat) = Tops(m, k.fat) /\ \A X : Whole(m, k.fat, X) => Whole(n, k.fat, X)
    BY <1>11, SameWhole
  <2>2. QED
    BY <1>6, <1>9, <2>1 DEF Keeps, Untouched, Follows
<1>19. QED
  BY <1>6, <1>7, <1>8, <1>11, <1>12, <1>15, <1>16, <1>17, <1>18 DEF DotsWritten

\* A chain that nothing leads to is given back.
LEMMA FreedSpare ==
  ASSUME NEW call, NEW k, Fine(k), NEW h, Spare(k, h), NEW t, Freed(call, t, k, h)
  PROVE  Ends(call, t) /\ Saves(t, k, {h}, {})
<1> DEFINE m == k.disk.cluster
           g == Without(k.fat, h)
<1>1. Firm(k) /\ m \in Map /\ Sound(m, k.fat) /\ TableOK(k.fat) /\ k.fat = k.disk.fat[1] /\ ~k.off
      /\ HandlesOK(m, k.fat, k.open) /\ k.fat \in Table
  BY FirmIs DEF Fine
<1>2. /\ Good(t) /\ t.off = k.off /\ t.disk.cluster = m /\ t.fat = g /\ t.open = k.open
      /\ \/ ~t.dead /\ t.disk.fat[1] = t.fat
         \/ t.dead /\ t.disk.fat[1] \in {k.disk.fat[1], t.fat}
         \/ Spoilt(call, t)
  BY DEF Freed, Kept
<1>3. Sound(m, g)
  BY <1>1, ForgetSound DEF Spare
<1>4. TableOK(g) /\ \A x : Begins(k.fat, x) /\ x # h => Begins(g, x) /\ Chain(g, x) = Chain(k.fat, x)
  BY <1>1, WithoutChains DEF Spare
<1> HIDE DEF g
<1>5. HandlesOK(m, g, k.open)
  <2>1. \A fd \in Fd : Live(k.open[fd]) => /\ k.open[fd].dir_entry \in Places(m)
                                           /\ StartOK(k.fat, k.open[fd].start_cluster)
                                           /\ k.open[fd].start_cluster # h
    BY <1>1 DEF HandlesOK, HandleOK, EntryOfHandle, ChainOfHandle, Spare
  <2>2. g \in Table
    BY <1>4 DEF TableOK
  <2> HIDE DEF m
  <2>3. QED
    BY <1>1, <1>4, <2>1, <2>2, HandlesFrame DEF StartOK
<1>6. Saves(t, k, {h}, {})
  <2>1. Whole(m, k.fat, {h}) => Whole(m, g, {})
    BY <1>1, WithoutWhole DEF Spare, g
  <2>2. t.hit = << >> => k.hit = << >>
    BY DEF Freed
  <2>3. QED
    BY <1>2, <2>1, <2>2 DEF Saves, Untouched
<1>7. CASE ~t.dead /\ t.disk.fat[1] = t.fat
  BY <1>1, <1>2, <1>3, <1>5, <1>6, <1>7 DEF Ends, Fine, Firm
<1>8. CASE t.dead /\ t.disk.fat[1] \in {k.disk.fat[1], t.fat}
  BY <1>1, <1>2, <1>3, <1>6, <1>8 DEF Ends, Rest
<1>9. CASE Spoilt(call, t)
  BY <1>2, <1>6, <1>9 DEF Ends
<1>10. QED
  BY <1>2, <1>7, <1>8, <1>9

LEMMA FreeLost ==
  ASSUME NEW call, NEW k, Good(k), Lost(call, k), NEW h, NEW t, t = fat32_free_cluster_chain(k, h)
  PROVE  Good(t) /\ Lost(call, t)
<1> DEFINE chain == Walk(k.fat, h)
           g == [c \in DOMAIN k.fat |-> IF \E i \in DOMAIN chain : chain[i] = c
                                        THEN FAT32_FREE_CLUSTER ELSE k.fat[c]]
           u == [k EXCEPT !.fat = g]
<1>1. Good(t) /\ Later(t, k)
  BY FreeChainOK DEF Passes, Kept
<1>2. CASE ~IsCluster(h)
  <2>1. t = k
    BY <1>2 DEF fat32_free_cluster_chain
  <2>2. QED
    BY <2>1
<1>3. CASE IsCluster(h)
  <2>1. t = fat32_flush_fat(u)
    BY <1>3 DEF fat32_free_cluster_chain
  <2>2. k.fat \in Table /\ Running(k)
    BY DEF Good, Running, CallState
  <2>3. g \in Table
    <3>1. DOMAIN k.fat = Number
      BY <2>2 DEF Table
    <3> HIDE DEF chain
    <3>2. QED
      BY <2>2, <3>1, Numbers DEF Table
  <2> HIDE DEF g
  <2>4. Running(u) /\ u.off = k.off
    BY <2>2, <2>3, WithFat
  <2> HIDE DEF u
  <2>5. t.off = u.off
    BY <2>1, <2>4, FlushOK DEF Flushes
  <2>6. QED
    BY <1>1, <2>4, <2>5, LostStays
<1>4. QED
  BY <1>2, <1>3

LEMMA LostEnds ==
  ASSUME NEW call, NEW k, Good(k)
  PROVE  /\ Lost(call, k) => Ends(call, k)
         /\ Fine(k) => Ends(call, k)
BY DEF Lost, Ends

LEMMA EndsQuiet ==
  ASSUME NEW call, NEW k, Ends(call, k), NEW t, Good(t), Quiet(t, k)
  PROVE  Ends(call, t)
<1>1. Good(k) /\ (Fine(k) \/ Lost(call, k))
  BY DEF Ends, Lost
<1>2. QED
  BY <1>1, FineQuiet, LostQuiet, LostEnds

\* What is taken for a directory that does not come about is given back.
LEMMA GivesBack ==
  ASSUME NEW call, NEW k, Good(k), NEW c, Lost(call, k) \/ (Fine(k) /\ Spare(k, c)),
         NEW t, t = Failing(fat32_free_cluster_chain(k, c))
  PROVE  Ends(call, t) /\ Saves(t, k, {c}, {})
<1> DEFINE u == fat32_free_cluster_chain(k, c)
<1>1. Ends(call, u) /\ Saves(u, k, {c}, {})
  <2>1. CASE Lost(call, k)
    BY <2>1, FreeLost, LostEnds, SpoiltTouched, KeepsSaves DEF Lost
  <2>2. CASE Fine(k) /\ Spare(k, c)
    <3>1. ~k.dead /\ c \in OnDisk
      BY <2>2 DEF Fine, Firm, Spare, Begins
    <3>2. Freed(call, u, k, c)
      BY <3>1, FreeDoes
    <3>3. QED
      BY <2>2, <3>2, FreedSpare
  <2>3. QED
    BY <2>1, <2>2
<1>2. Good(u)
  BY <1>1 DEF Ends
<1> HIDE DEF u
<1>3. Quiet(t, u) /\ Good(t)
  BY <1>2, FailingQuiet DEF u
<1>4. Saves(t, k, {c}, {})
  BY <1>1, <1>3, KeepsQuiet, KeepsSaves
<1>5. QED
  BY <1>1, <1>3, <1>4, EndsQuiet

LEMMA MkdirDoes ==
  ASSUME NEW k, Fine(k), NEW path \in Paths, NEW t, t = fat32_mkdir_path(k, path)
  PROVE  Ends("mkdir", t) /\ Saves(t, k, {}, {})
<1> DEFINE p == ParentOf(k, path)
           dir == p.entry.start
           a == fat32_allocate_cluster(p, 0)
           c == a.ret
           d == fat32_init_directory(a, c, dir)
           e == AddEntry(d, dir, Last(path), TRUE, c)
           fd == Failing(fat32_free_cluster_chain(d, c))
           fe == Failing(fat32_free_cluster_chain(e, c))
<1>1. Quiet(p, k) /\ Good(p) /\ (p.ret = 0 => dir \in Heads(k.disk.cluster) /\ dir \in Tops(k.disk.cluster, k.fat))
  BY ParentDoes DEF Fine
<1>2. t = IF p.ret # 0 THEN p ELSE IF c = 0 THEN Failing(a)
          ELSE IF ~d.ok THEN fd
          ELSE IF e.ret # 0 THEN fe ELSE e
  BY DEF fat32_mkdir_path
<1> HIDE DEF p
<1>3. Fine(p) /\ Firm(p) /\ p.disk = k.disk /\ p.fat = k.fat /\ Keeps(p, k)
  BY <1>1, FineQuiet, KeepsQuiet DEF Quiet, Fine
<1>4. CASE p.ret # 0
  BY <1>1, <1>2, <1>3, <1>4, LostEnds, KeepsSaves
<1>5. CASE p.ret = 0
  <2>1. dir \in Heads(p.disk.cluster) /\ dir \in Tops(p.disk.cluster, p.fat)
    BY <1>1, <1>3, <1>5
  <2>2. dir \in Number
    <3>1. Sound(p.disk.cluster, p.fat)
      BY <1>3, FirmIs
    <3>2. Begins(p.fat, dir)
      BY <2>1, <3>1, HeadsBegin
    <3>3. QED
      BY <3>2, Numbers DEF Begins
  <2> HIDE DEF dir
  <2>3. Good(a) /\ Kept(a, p) /\ Allocated("mkdir", a, p, 0)
    <3>1. ~IsCluster(0)
      BY DEF IsCluster
    <3>2. QED
      BY <1>3, <3>1, AllocateDoes
  <2>4. a.open = p.open /\ Later(a, p)
    BY <2>3 DEF Kept
  <2> HIDE DEF a
  <2>5. CASE c = 0
    <3>1. t = Failing(a)
      BY <1>2, <1>5, <2>5
    <3>2. Ends("mkdir", a) /\ Keeps(a, p)
      <4>1. CASE Quiet(a, p)
        BY <1>3, <2>3, <4>1, FineQuiet, LostEnds, KeepsQuiet
      <4>2. CASE (\E x : Took(a, p, 0, x)) /\ a.hit # << >>
        <5>1. Ends("mkdir", a)
          BY <1>3, <2>3, <2>4, <4>2, TookSpare, LostEnds
        <5>2. QED
          BY <4>2, <5>1, KeepsSaves DEF Untouched
      <4>3. CASE \E x : HalfTook(a, p, 0, x)
        <5>1. Rest(a)
          BY <1>3, <2>3, <4>3, HalfTookRests
        <5>2. QED
          BY <2>3, <5>1, LostEnds, SpoiltTouched, KeepsSaves DEF Lost
      <4>4. CASE Spoilt("mkdir", a)
        BY <2>3, <4>4, LostEnds, SpoiltTouched, KeepsSaves DEF Lost
      <4>5. QED
        <5>1. \A x : Took(a, p, 0, x) => x # 0
          BY ClustersOnDisk DEF Took, CanGive
        <5>2. QED
          BY <2>3, <2>5, <4>1, <4>2, <4>3, <4>4, <5>1 DEF Allocated
    <3>3. Quiet(t, a) /\ Good(t)
      BY <2>3, <3>1, FailingQuiet
    <3>4. Saves(t, k, {}, {})
      BY <1>3, <3>2, <3>3, KeepsQuiet, KeepsOn, KeepsSaves
    <3>5. QED
      BY <3>2, <3>3, <3>4, EndsQuiet
  <2>6. CASE c # 0
    <3>1. Took(a, p, 0, c)
      BY <2>3, <2>6 DEF Allocated
    <3>2. /\ Fine(a) /\ Spare(a, c) /\ Chain(a.fat, c) = <<c>> /\ Heads(a.disk.cluster) = Heads(p.disk.cluster)
          /\ dir \in Tops(a.disk.cluster, a.fat) /\ Saves(a, k, {}, {c})
      <4>1. /\ Fine(a) /\ Spare(a, c) /\ Chain(a.fat, c) = <<c>> /\ Heads(a.disk.cluster) = Heads(p.disk.cluster)
            /\ Tops(p.disk.cluster, p.fat) \subseteq Tops(a.disk.cluster, a.fat) /\ Saves(a, p, {}, {c})
        BY <1>3, <2>3, <2>4, <3>1, TookSpare
      <4>2. QED
        BY <1>3, <2>1, <4>1, KeepsSaves
    <3>3. t = IF ~d.ok THEN fd ELSE IF e.ret # 0 THEN fe ELSE e
      BY <1>2, <1>5, <2>6
    <3> HIDE DEF c
    <3>4. DotsWritten(d, a, c)
      BY <2>2, <3>2, InitDirectoryDoes
    <3> HIDE DEF d
    <3>5. /\ Good(d) /\ d.ok \in BOOLEAN /\ (d.dead => Rest(d)) /\ (~d.dead => Fine(d) /\ Spare(d, c))
          /\ d.ok => ~d.dead /\ SetUp(d, c)
          /\ dir \in Heads(d.disk.cluster) /\ Saves(d, k, {}, {c})
          /\ dir \in Tops(d.disk.cluster, d.fat)
      <4>1. Keeps(d, a) /\ Tops(d.disk.cluster, d.fat) = Tops(a.disk.cluster, a.fat)
        BY <3>4 DEF DotsWritten
      <4>2. Saves(d, k, {}, {c}) /\ dir \in Tops(d.disk.cluster, d.fat)
        BY <3>2, <4>1, KeepsSaves
      <4>3. QED
        BY <2>1, <3>2, <3>4, <4>2 DEF DotsWritten
    <3>6. CASE ~d.ok
      <4>1. t = fd
        BY <3>3, <3>6
      <4>2. Lost("mkdir", d) \/ (Fine(d) /\ Spare(d, c))
        BY <3>5 DEF Lost
      <4>3. Ends("mkdir", t) /\ Saves(t, d, {c}, {})
        BY <3>5, <4>1, <4>2, GivesBack
      <4>4. QED
        BY <3>5, <4>3, KeepsSaves
    <3>7. CASE d.ok
      <4>1. EntryAdded("mkdir", e, c) /\ EntryOwns(e, d, dir, c)
        <5>1. c \in Number /\ c # 0 /\ TRUE \in BOOLEAN /\ Last(path) \in Name /\ "mkdir" # "write"
          BY <2>6, <3>2, ThePaths, Numbers DEF Spare, Begins, c
        <5>2. Fine(d) /\ Spare(d, c) /\ SetUp(d, c)
          BY <3>5, <3>7
        <5>3. QED
          BY <3>5, <5>1, <5>2, AddEntryDoes
      <4> HIDE DEF e
      <4>2. Good(e) /\ (Fine(e) \/ Lost("mkdir", e)) /\ (e.ret # 0 => Lost("mkdir", e) \/ Spare(e, c))
        BY <2>6, <4>1 DEF EntryAdded, c
      <4>3. CASE e.ret # 0
        <5>1. t = fe
          BY <3>3, <3>7, <4>3
        <5>2. Lost("mkdir", e) \/ (Fine(e) /\ Spare(e, c))
          BY <4>2, <4>3
        <5>3. Ends("mkdir", t) /\ Saves(t, e, {c}, {})
          BY <4>2, <5>1, <5>2, GivesBack
        <5>4. Keeps(e, d)
          BY <3>5, <4>1, <4>3 DEF EntryOwns
        <5>5. Saves(t, k, {}, {})
          BY <3>5, <5>3, <5>4, KeepsSaves
        <5>6. QED
          BY <5>3, <5>5
      <4>4. CASE e.ret = 0
        <5>1. t = e /\ Ends("mkdir", t)
          BY <3>3, <3>7, <4>2, <4>4, LostEnds
        <5>2. Saves(e, d, {c}, {})
          BY <3>5, <4>1, <4>4 DEF EntryOwns
        <5>3. Saves(t, k, {}, {})
          BY <3>5, <5>1, <5>2, KeepsSaves
        <5>4. QED
          BY <5>1, <5>3
      <4>5. QED
        BY <4>3, <4>4
    <3>8. QED
      BY <3>5, <3>6, <3>7
  <2>7. QED
    BY <2>5, <2>6
<1>6. QED
  BY <1>4, <1>5

-----------------------------------------------------------------------------
(* remove and rmdir.                                                       *)

\* The handles that are open on the entry at a place are marked.
Orphans(q, o, at) ==
    \A fd \in Fd : Live(q[fd]) => q[fd] = o[fd] /\ o[fd].dir_entry # at

LEMMA UnlinkIs ==
  ASSUME NEW k, Good(k), k.at \in Spot, NEW t, t = Unlink(k)
  PROVE  LET u == fat32_free_cluster_chain(k, k.entry.start)
             v == fat32_mark_entry_deleted(u, k.dir, k.at)
         IN  Good(t) /\ Same(t, v) /\ Orphans(t.open, k.open, k.at)
<1> DEFINE u == fat32_free_cluster_chain(k, k.entry.start)
           v == fat32_mark_entry_deleted(u, k.dir, k.at)
           r == IF v.ok THEN 0 ELSE -1
           x == [v EXCEPT !.ret = r]
           Gone(fd) == v.open[fd].removed \/ (k.open[fd].in_use /\ k.open[fd].dir_entry = k.at)
           o == [fd \in Fd |-> [v.open[fd] EXCEPT !.removed = Gone(fd)]]
<1>1. Good(u) /\ u.open = k.open
  BY FreeChainOK DEF Passes, Kept
<1>2. v = fat32_mark_entry_deleted(fat32_free_cluster_chain(k, k.entry.start), k.dir, k.at)
  OBVIOUS
<1>3. k.dir \in Number
  BY DEF Good, Running, CallState
<1> HIDE DEF u
<1>4. Follows(v, u) /\ v.ok \in BOOLEAN /\ v.open = k.open
  BY <1>1, <1>3, MarkDeletedOK DEF Good, Follows, Kept
<1> HIDE DEF v
<1>5. Good(v)
  BY <1>1, <1>4, FollowsGood
<1>6. v.open \in [Fd -> SoundFile] /\ k.open \in [Fd -> SoundFile]
  BY <1>5 DEF Good, Running, CallState
<1>7. \A fd \in Fd : v.open[fd].removed \in BOOLEAN /\ k.open[fd].in_use \in BOOLEAN
  BY <1>6 DEF SoundFile
<1>8. \A fd \in Fd : Gone(fd) \in BOOLEAN
  BY <1>7
<1>9. t = [x EXCEPT !.open = o]
  <2>1. \A fd \in Fd :
            [v.open[fd] EXCEPT !.removed =
                 @ \/ (k.open[fd].in_use /\ k.open[fd].dir_entry = k.at)]
            = [v.open[fd] EXCEPT !.removed = Gone(fd)]
    BY <1>6 DEF SoundFile
  <2>2. t = [v EXCEPT !.ret = r, !.open = [fd \in Fd |->
                [v.open[fd] EXCEPT !.removed =
                     @ \/ (k.open[fd].in_use /\ k.open[fd].dir_entry = k.at)]]]
    BY <1>2 DEF Unlink
  <2>3. QED
    BY <2>1, <2>2
<1>10. ASSUME NEW fd \in Fd
       PROVE  /\ o[fd] \in SoundFile
              /\ Live(o[fd]) => o[fd] = k.open[fd] /\ k.open[fd].dir_entry # k.at
  <2> DEFINE f == v.open[fd]
             g == [f EXCEPT !.removed = Gone(fd)]
  <2>1. o[fd] = g
    OBVIOUS
  <2>2. f \in SoundFile /\ f = k.open[fd] /\ Gone(fd) \in BOOLEAN
    BY <1>4, <1>6, <1>8
  <2>3. Gone(fd) = (f.removed \/ (f.in_use /\ f.dir_entry = k.at))
    BY <2>2
  <2> HIDE DEF f, Gone
  <2>4. g \in SoundFile /\ g.removed = Gone(fd) /\ g.in_use = f.in_use
    BY <2>2 DEF SoundFile
  <2>5. ~Gone(fd) => g = f
    BY <2>2, <2>3 DEF SoundFile
  <2> HIDE DEF g, o
  <2>6. QED
    BY <2>1, <2>2, <2>3, <2>4, <2>5 DEF Live
<1> HIDE DEF Gone
<1>11. o \in [Fd -> SoundFile]
  <2>1. \A fd \in Fd : [v.open[fd] EXCEPT !.removed = Gone(fd)] \in SoundFile
    BY <1>10
  <2>2. QED
    BY <2>1, Zenon
<1> HIDE DEF o
<1>12. Good(x) /\ Same(x, v)
  <2>1. r \in Int
    OBVIOUS
  <2> HIDE DEF r
  <2>2. Good(x)
    BY <1>5, <2>1, GoodRet
  <2>3. Follows(x, v) /\ x.disk = v.disk /\ x.hit = v.hit /\ x.dead = v.dead
    BY <1>5, <2>1, WithRet DEF Good
  <2>4. QED
    BY <2>2, <2>3 DEF Same, Follows, Kept, Later
<1> HIDE DEF x
<1>13. Good(t) /\ t.open = o /\ Same(t, x)
  BY <1>9, <1>11, <1>12, WithOpen
<1>14. Same(t, v)
  BY <1>12, <1>13 DEF Same
<1>15. QED
  BY <1>10, <1>13, <1>14 DEF Orphans, v, u

\* An entry is gone, and the chain it led to, if it led to one.
Delisted(n, m, at) ==
    /\ Places(n) \subseteq Places(m) /\ \A a \in Places(n) : At(n, a) = At(m, a)
    /\ \A a \in Places(m) : a # at => a \in Places(n)

OthersBegin(g, fat, s) ==
    \A x : Begins(fat, x) /\ x # s => Begins(g, x) /\ Chain(g, x) = Chain(fat, x)

LEMMA DelistedHandles ==
  ASSUME NEW m, NEW fat \in Table, NEW o, HandlesOK(m, fat, o), NEW n, NEW g \in Table, NEW q,
         NEW at \in Places(m), Orphans(q, o, at), Delisted(n, m, at), OthersBegin(g, fat, At(m, at).start)
  PROVE  HandlesOK(n, g, q)
<1>1. ASSUME NEW fd \in Fd, Live(q[fd])
      PROVE  /\ q[fd] = o[fd] /\ q[fd].dir_entry \in Places(m) /\ q[fd].dir_entry \in Places(n)
             /\ q[fd].start_cluster # 0 => /\ Begins(fat, q[fd].start_cluster)
                                           /\ q[fd].start_cluster # At(m, at).start
  <2>1. q[fd] = o[fd] /\ o[fd].dir_entry # at
    BY <1>1 DEF Orphans
  <2>2. HandleOK(m, fat, o[fd])
    BY <1>1, <2>1 DEF HandlesOK
  <2>3. QED
    BY <2>1, <2>2 DEF HandleOK, EntryOfHandle, ChainOfHandle, StartOK, Delisted
<1>2. /\ Places(n) \subseteq Places(m) /\ \A a \in Places(n) : At(n, a) = At(m, a)
      /\ \A x : Begins(fat, x) /\ x # At(m, at).start => Begins(g, x) /\ Chain(g, x) = Chain(fat, x)
  BY DEF Delisted, OthersBegin
<1>3. QED
  BY <1>1, <1>2, HandlesFrame

\* A directory that is removed is empty.
IsVacant(k, s) == \A a \in Places(k.disk.cluster) : a[1] \notin Owned(k.fat, s)

\* The chain was freed, but the table or the entry is not as it should be.
HalfGone(t, k) == Good(t) /\ t.hit # << >> /\ t.fat # k.fat

LEMMA UnlinkDoes ==
  ASSUME NEW call, NEW k, Fine(k), HasEntry(k, k), k.entry.dir => IsVacant(k, k.entry.start),
         NEW t, t = Unlink(k)
  PROVE  (Ends(call, t) \/ HalfGone(t, k)) /\ Saves(t, k, {}, {})
<1> DEFINE s == k.entry.start
           u == fat32_free_cluster_chain(k, s)
           v == fat32_mark_entry_deleted(u, k.dir, k.at)
           m == k.disk.cluster
           n == v.disk.cluster
           at == k.at
<1>1. Firm(k) /\ m \in Map /\ Sound(m, k.fat) /\ TableOK(k.fat) /\ k.fat = k.disk.fat[1] /\ ~k.off
      /\ HandlesOK(m, k.fat, k.open) /\ k.fat \in Table /\ Good(k) /\ ~k.dead
  BY FirmIs DEF Fine
<1>2. at \in Places(m) /\ k.entry = At(m, at) /\ at \in CellPlace /\ at \in Spot /\ at[1] \in OnDisk
      /\ at[2] \in 1 .. CellsPerCluster /\ at = <<at[1], at[2]>>
  <2>1. at \in Places(m) /\ k.entry = At(m, at)
    BY DEF HasEntry
  <2>2. at \in CellPlace /\ at[1] \in OnDisk /\ at[2] \in 1 .. CellsPerCluster /\ at = <<at[1], at[2]>>
    BY <1>1, <2>1, PlaceIs
  <2>3. at \in Spot
    BY <2>2, Numbers DEF Spot
  <2>4. QED
    BY <2>1, <2>2, <2>3
<1>3. Good(t) /\ Same(t, v) /\ Orphans(t.open, k.open, at)
  BY <1>1, <1>2, UnlinkIs
<1>4. StartOK(k.fat, s) /\ s = At(m, at).start
  BY <1>1, <1>2 DEF Sound, EntryOK
<1>5. Good(u) /\ Running(u) /\ k.dir \in Number
  BY <1>1, FreeChainOK DEF Passes, Good, Running, CallState
<1>6. u.disk.cluster = m
  <2>1. CASE s = 0
    BY <2>1 DEF fat32_free_cluster_chain, IsCluster
  <2>2. CASE s # 0
    <3>1. s \in OnDisk
      BY <1>4, <2>2 DEF StartOK, Begins
    <3>2. Freed(call, u, k, s)
      BY <1>1, <3>1, FreeDoes
    <3>3. QED
      BY <3>2 DEF Freed
  <2>3. QED
    BY <2>1, <2>2
<1>7. /\ Follows(v, u) /\ v.ok \in BOOLEAN /\ Erased(v, u, at)
      /\ v.hit = << >> => v.disk.cluster[at[1]][at[2]] = Deleted
  <2> HIDE DEF u
  <2>1. QED
    BY <1>2, <1>5, MarkDeletedOK
<1>8. n \in Map
  BY <1>7, DiskMap DEF Follows
<1>9. Struck(n, m, at)
  <2>1. \A c \in OnDisk, i \in 1 .. CellsPerCluster :
            \/ n[c][i] = m[c][i]
            \/ n[c][i] = Deleted /\ (<<c, i>> = at \/ m[c][i].kind = "lfn")
    BY <1>6, <1>7 DEF Erased
  <2> HIDE DEF n, m, at
  <2>2. SUFFICES ASSUME NEW a \in CellPlace
                 PROVE  \/ At(n, a) = At(m, a)
                        \/ At(n, a) = Deleted /\ (a = at \/ At(m, a).kind = "lfn")
    BY DEF Struck
  <2>3. a[1] \in OnDisk /\ a[2] \in 1 .. CellsPerCluster /\ a = <<a[1], a[2]>>
    BY DEF CellPlace
  <2>4. QED
    BY <2>1, <2>3 DEF At
<1>10. /\ Sound(n, k.fat) /\ Delisted(n, m, at)
       /\ at \in Places(n) => At(n, at) # Deleted
  <2>1. At(m, at).dir => \A a \in Places(m) : a[1] \notin Owned(k.fat, At(m, at).start)
    BY <1>2 DEF IsVacant
  <2> HIDE DEF n, m, at
  <2>2. QED
    BY <1>1, <1>2, <1>8, <1>9, <2>1, StrikeSound DEF Delisted
<1>11. /\ t.disk = v.disk /\ t.fat = v.fat /\ t.off = v.off /\ t.hit = v.hit /\ t.dead = v.dead
       /\ v.fat = u.fat /\ v.disk.fat = u.disk.fat /\ v.off = u.off
  BY <1>3, <1>7 DEF Same, Follows
<1> HIDE DEF v
<1>0. Saves(t, k, {}, {})
  <2>1. u.fat = (IF s = 0 THEN k.fat ELSE Without(k.fat, s)) /\ u.off = k.off /\ (u.hit = << >> => k.hit = << >>)
    <3>1. CASE s = 0
      BY <3>1 DEF fat32_free_cluster_chain, IsCluster
    <3>2. CASE s # 0
      <4>1. s \in OnDisk
        BY <1>4, <3>2 DEF StartOK, Begins
      <4>2. Freed(call, u, k, s)
        BY <1>1, <4>1, FreeDoes
      <4> HIDE DEF u
      <4>3. QED
        BY <3>2, <4>2 DEF Freed
    <3>3. QED
      BY <3>1, <3>2
  <2> DEFINE g == IF s = 0 THEN k.fat ELSE Without(k.fat, s)
  <2>2. u.fat = g
    BY <2>1
  <2>3. At(m, at).dir => \A a \in Places(m) : a[1] \notin Owned(k.fat, s)
    BY <1>2 DEF IsVacant
  <2>4. Whole(m, k.fat, {}) => Whole(n, g, {})
    <3> HIDE DEF n, m, at, s, u
    <3>1. QED
      BY <1>1, <1>2, <1>4, <1>10, <2>3, DelistedWhole DEF Delisted
  <2> HIDE DEF u, g
  <2>5. t.disk.cluster = n /\ t.fat = g /\ t.off = k.off /\ (t.hit = << >> => k.hit = << >>)
    BY <1>7, <1>11, <2>1, <2>2 DEF Follows
  <2>6. QED
    BY <2>4, <2>5 DEF Saves, Untouched
<1>12. CASE s = 0
  <2>1. u = k
    BY <1>12 DEF fat32_free_cluster_chain, IsCluster
  <2>2. OthersBegin(k.fat, k.fat, s)
    BY DEF OthersBegin
  <2> HIDE DEF n, m, at, s
  <2>3. HandlesOK(n, k.fat, t.open)
    BY <1>1, <1>2, <1>3, <1>4, <1>10, <2>2, DelistedHandles
  <2>4. t.fat = k.fat /\ t.disk.fat = k.disk.fat /\ ~t.off /\ t.disk.cluster = n
    BY <1>1, <1>11, <2>1 DEF n
  <2>5. CASE t.dead
    BY <1>0, <1>1, <1>3, <1>10, <2>4, <2>5 DEF Ends, Rest
  <2>6. CASE ~t.dead
    BY <1>0, <1>1, <1>3, <1>10, <2>3, <2>4, <2>6 DEF Ends, Fine, Firm
  <2>7. QED
    BY <2>5, <2>6
<1>13. CASE s # 0
  <2>1. s \in OnDisk /\ Begins(k.fat, s) /\ s # ROOT_CLUSTER
    BY <1>4, <1>13 DEF StartOK, Begins
  <2>2. Freed(call, u, k, s)
    BY <1>1, <2>1, FreeDoes
  <2> DEFINE g == Without(k.fat, s)
  <2>3. TableOK(g) /\ g # k.fat /\ OthersBegin(g, k.fat, s)
    BY <1>1, <2>1, WithoutChains DEF OthersBegin
  <2>4. u.fat = g /\ u.off = k.off /\ (u.hit = << >> => ~u.dead /\ u.disk.fat[1] = u.fat)
    BY <2>2 DEF Freed
  <2>5. CASE t.hit # << >>
    BY <1>0, <1>3, <1>11, <2>3, <2>4, <2>5 DEF HalfGone
  <2>6. CASE t.hit = << >>
    <3>1. u.hit = << >> /\ v.hit = << >> /\ ~t.dead
      BY <1>3, <1>7, <1>11, <2>6 DEF Follows, Good, Running
    <3>2. At(n, at) = Deleted
      BY <1>7, <3>1 DEF At
    <3>3. at \notin Places(n)
      BY <1>10, <3>2
    <3> HIDE DEF g
    <3>4. \A a \in Places(n) : At(n, a).start # s
      <4>1. StartsDiffer(m)
        BY <1>1 DEF Sound
      <4>2. QED
        BY <1>2, <1>4, <1>10, <1>13, <3>3, <4>1 DEF StartsDiffer, Delisted
    <3> HIDE DEF n, m, at, s
    <3>5. Sound(n, g)
      BY <1>8, <1>10, <2>1, <3>4, ForgetSound DEF g
    <3>6. HandlesOK(n, g, t.open)
      <4>1. g \in Table /\ OthersBegin(g, k.fat, At(m, at).start)
        BY <1>4, <2>3 DEF TableOK
      <4>2. QED
        BY <1>1, <1>2, <1>3, <1>10, <4>1, DelistedHandles
    <3>7. t.fat = g /\ t.disk.fat[1] = g /\ ~t.off /\ t.disk.cluster = n
      BY <1>1, <1>11, <2>4, <3>1 DEF n
    <3>8. QED
      BY <1>0, <1>3, <3>1, <3>5, <3>6, <3>7 DEF Ends, Fine, Firm
  <2>7. QED
    BY <2>5, <2>6
<1>14. QED
  BY <1>12, <1>13

LEMMA RemoveDoes ==
  ASSUME NEW call, NEW k, Fine(k), NEW path \in Paths, NEW t, t = fat32_remove(k, path)
  PROVE  (Ends(call, t) \/ HalfGone(t, k)) /\ Saves(t, k, {}, {})
<1> DEFINE u == fat32_lookup_path(k, path)
<1>1. Firm(k) /\ path \in Seq(Name) /\ Len(path) # 0
  BY ThePaths DEF Fine
<1>2. Quiet(u, k) /\ Good(u) /\ (u.ret = 0 => HasEntry(u, k))
  BY <1>1, LookupDoes
<1>3. t = IF u.ret # 0 \/ u.entry.dir THEN Failing(u) ELSE Unlink(u)
  BY DEF fat32_remove
<1> HIDE DEF u
<1>4. Fine(u) /\ u.disk = k.disk /\ u.fat = k.fat /\ Keeps(u, k)
  BY <1>2, FineQuiet, KeepsQuiet DEF Quiet
<1>5. CASE t = Failing(u)
  <2>1. Quiet(t, u) /\ Good(t)
    BY <1>2, <1>5, FailingQuiet
  <2>2. Saves(t, k, {}, {})
    BY <1>4, <2>1, KeepsQuiet, KeepsOn, KeepsSaves
  <2>3. QED
    BY <1>4, <2>1, <2>2, FineQuiet, LostEnds
<1>6. CASE u.ret = 0 /\ ~u.entry.dir /\ t = Unlink(u)
  <2>1. HasEntry(u, u)
    BY <1>2, <1>4, <1>6 DEF HasEntry
  <2>2. (Ends(call, t) \/ HalfGone(t, u)) /\ Saves(t, u, {}, {})
    BY <1>4, <1>6, <2>1, UnlinkDoes
  <2>3. Saves(t, k, {}, {})
    BY <1>4, <2>2, KeepsSaves
  <2>4. QED
    BY <1>4, <2>2, <2>3 DEF HalfGone
<1>7. QED
  BY <1>3, <1>5, <1>6

\* A listing that ends without an entry shows that there is none: nothing is
\* listed behind the end mark.
LEMMA NothingListed ==
  ASSUME NEW k, Firm(k), NEW s \in Heads(k.disk.cluster), NEW t,
         Sought(t, k, s, Listed(k.disk, Locations(k.fat, s))), t.ret = 0
  PROVE  IsVacant(k, s)
<1> DEFINE W == Locations(k.fat, s)
           m == k.disk.cluster
<1>1. /\ AreLocations(W, Chain(k.fat, s))
      /\ \A i \in DOMAIN W : /\ CellAt(k.disk, W[i]) = At(m, W[i])
                             /\ KindAt(k.disk, W[i]) = At(m, W[i]).kind
  BY DirectoryCells
<1>2. HeadOK(m, k.fat, s)
  BY FirmIs DEF Sound
<1>3. \A j \in Listed(k.disk, W) : \E i \in DOMAIN W : i < j /\ KindAt(k.disk, W[i]) = "zero"
  BY DEF Sought, BehindMark
<1>4. SUFFICES ASSUME NEW a \in Places(m), a[1] \in Owned(k.fat, s) PROVE FALSE
  BY DEF IsVacant
<1>5. a \in CellPlace /\ At(m, a).kind = "entry" /\ At(m, a).name \notin {Dot, DotDot}
  BY DEF Places, IsListed
<1>6. PICK j \in DOMAIN W : W[j] = a
  BY <1>1, <1>4, <1>5 DEF AreLocations, Owned
<1>7. j \in Listed(k.disk, W)
  BY <1>1, <1>5, <1>6 DEF Listed
<1>8. PICK i \in DOMAIN W : i < j /\ At(m, W[i]).kind = "zero"
  BY <1>1, <1>3, <1>7
<1>9. At(m, W[j]).kind = "zero"
  BY <1>2, <1>6, <1>8 DEF HeadOK, Tidy
<1>10. QED
  BY <1>5, <1>6, <1>9

LEMMA RmdirDoes ==
  ASSUME NEW call, NEW k, Fine(k), NEW path \in Paths, NEW t, t = fat32_rmdir_path(k, path)
  PROVE  (Ends(call, t) \/ HalfGone(t, k)) /\ Saves(t, k, {}, {})
<1> DEFINE u == fat32_lookup_path(k, path)
           listed == Listed(u.disk, Locations(u.fat, u.entry.start))
           v == fat32_iterate_directory(u, u.entry.start, listed)
<1>1. Firm(k) /\ path \in Seq(Name) /\ Len(path) # 0
  BY ThePaths DEF Fine
<1>2. /\ Quiet(u, k) /\ Good(u) /\ (u.ret = 0 => HasEntry(u, k))
      /\ u.ret = 0 /\ u.entry.dir => u.entry.start \in Heads(k.disk.cluster)
  BY <1>1, LookupDoes
<1>3. t = IF u.ret # 0 \/ ~u.entry.dir THEN Failing(u)
          ELSE IF v.ret # 0 THEN Failing(v) ELSE Unlink(v)
  BY DEF fat32_rmdir_path
<1> HIDE DEF u
<1>4. Fine(u) /\ Firm(u) /\ u.disk = k.disk /\ u.fat = k.fat /\ Keeps(u, k)
  BY <1>2, FineQuiet, KeepsQuiet DEF Quiet, Fine
<1>5. CASE u.ret # 0 \/ ~u.entry.dir
  <2>1. t = Failing(u)
    BY <1>3, <1>5
  <2>2. Quiet(t, u) /\ Good(t)
    BY <1>2, <2>1, FailingQuiet
  <2>3. Saves(t, k, {}, {})
    BY <1>4, <2>2, KeepsQuiet, KeepsOn, KeepsSaves
  <2>4. QED
    BY <1>4, <2>2, <2>3, FineQuiet, LostEnds
<1>6. CASE u.ret = 0 /\ u.entry.dir
  <2>1. u.entry.start \in Heads(u.disk.cluster) /\ HasEntry(u, k)
    BY <1>2, <1>4, <1>6
  <2>2. u.entry.start \in Number
    <3>1. Sound(u.disk.cluster, u.fat)
      BY <1>4, FirmIs
    <3>2. QED
      BY <2>1, <3>1, HeadsBegin, Numbers DEF Begins
  <2>3. Wanted(u, u.entry.start, listed)
    BY DEF Wanted, Listed
  <2>4. t = IF v.ret # 0 THEN Failing(v) ELSE Unlink(v)
    BY <1>3, <1>6
  <2>5. Iterated(v, u) /\ Sought(v, u, u.entry.start, listed)
    <3> HIDE DEF listed
    <3>1. QED
      BY <1>2, <2>2, <2>3, IterateOK DEF Good
  <2>6. v.ret = 0 => IsVacant(u, u.entry.start)
    <3> HIDE DEF v
    <3>1. QED
      BY <1>4, <2>1, <2>5, NothingListed
  <2> HIDE DEF v, listed
  <2>7. Good(v) /\ Quiet(v, u)
    BY <1>2, <2>5, LooksGood DEF Iterated, Looks, Quiet
  <2>8. Fine(v) /\ v.disk = u.disk /\ v.fat = u.fat /\ Keeps(v, k)
    BY <1>4, <2>7, FineQuiet, KeepsQuiet, KeepsOn DEF Quiet
  <2>9. CASE v.ret # 0
    <3>1. Quiet(t, v) /\ Good(t)
      BY <2>4, <2>7, <2>9, FailingQuiet
    <3>2. Saves(t, k, {}, {})
      BY <2>8, <3>1, KeepsQuiet, KeepsOn, KeepsSaves
    <3>3. QED
      BY <2>8, <3>1, <3>2, FineQuiet, LostEnds
  <2>10. CASE v.ret = 0
    <3>1. v.at = u.at /\ v.dir = u.dir /\ v.entry = u.entry
      BY <2>5, <2>10 DEF Iterated, Kept
    <3>2. HasEntry(v, v)
      BY <1>4, <2>1, <2>8, <3>1 DEF HasEntry
    <3>3. IsVacant(v, v.entry.start)
      BY <2>6, <2>8, <2>10, <3>1 DEF IsVacant
    <3>4. (Ends(call, t) \/ HalfGone(t, v)) /\ Saves(t, v, {}, {})
      BY <2>4, <2>8, <2>10, <3>2, <3>3, UnlinkDoes
    <3>5. Saves(t, k, {}, {})
      BY <2>8, <3>4, KeepsSaves
    <3>6. QED
      BY <1>4, <2>8, <3>4, <3>5 DEF HalfGone
  <2>11. QED
    BY <2>9, <2>10
<1>7. QED
  BY <1>5, <1>6

-----------------------------------------------------------------------------
(* open, close, read and seek.                                             *)

\* Handles that lead to one chain are open on one entry.
Agrees(o, fd, f) ==
    \A h \in Fd : /\ h # fd /\ Live(o[h]) /\ f.start_cluster # 0
                  /\ o[h].start_cluster = f.start_cluster
                  => o[h].dir_entry = f.dir_entry

LEMMA ReopenedHandles ==
  ASSUME NEW m, NEW fat, NEW o \in [Fd -> SoundFile], HandlesOK(m, fat, o), NEW fd \in Fd, NEW f,
         Live(f) => HandleOK(m, fat, f) /\ Agrees(o, fd, f), NEW q, q = Reopened(o, fd, f)
  PROVE  HandlesOK(m, fat, q)
<1>1. \A h \in Fd : q[h] = IF h = fd THEN f ELSE o[h]
  BY DEF Reopened
<1>2. ASSUME NEW h \in Fd, Live(q[h]) PROVE HandleOK(m, fat, q[h])
  BY <1>1, <1>2 DEF HandlesOK
<1>3. ASSUME NEW g \in Fd, NEW h \in Fd, Live(q[g]), Live(q[h]), q[g].start_cluster # 0,
             q[g].start_cluster = q[h].start_cluster
      PROVE  q[g].dir_entry = q[h].dir_entry
  <2>1. CASE g = fd /\ h = fd
    BY <2>1
  <2>2. CASE g = fd /\ h # fd
    BY <1>1, <1>3, <2>2 DEF Agrees
  <2>3. CASE g # fd /\ h = fd
    BY <1>1, <1>3, <2>3 DEF Agrees
  <2>4. CASE g # fd /\ h # fd
    BY <1>1, <1>3, <2>4 DEF HandlesOK
  <2>5. QED
    BY <2>1, <2>2, <2>3, <2>4
<1>4. QED
  BY <1>2, <1>3 DEF HandlesOK

\* Only the handles have changed.
Alike(t, k) == t.disk = k.disk /\ t.fat = k.fat /\ t.off = k.off /\ t.dead = k.dead

LEMMA ReopenedFine ==
  ASSUME NEW k, Fine(k), NEW t, Good(t), Alike(t, k), NEW fd \in Fd, NEW f,
         t.open = Reopened(k.open, fd, f),
         Live(f) => HandleOK(k.disk.cluster, k.fat, f) /\ Agrees(k.open, fd, f)
  PROVE  Fine(t)
<1>1. k.open \in [Fd -> SoundFile] /\ HandlesOK(k.disk.cluster, k.fat, k.open)
  BY FirmIs DEF Fine
<1>2. HandlesOK(k.disk.cluster, k.fat, t.open)
  BY <1>1, ReopenedHandles
<1>3. QED
  BY <1>2 DEF Fine, Firm, Alike

LEMMA CloseDoes ==
  ASSUME NEW k, Fine(k), NEW fd \in Fd, NEW t, t = fat32_close(k, fd)
  PROVE  Fine(t) /\ Alike(t, k)
<1>1. t = [k EXCEPT !.open[fd] = ClosedFile]
  BY DEF fat32_close
<1>2. Good(k)
  BY DEF Fine, Firm
<1>3. Good(t) /\ Same(t, k) /\ t.open = Reopened(k.open, fd, ClosedFile)
  <2>1. HasOpened(t, k, fd, ClosedFile)
    BY <1>1, <1>2, ClosedFileOK, WithHandle
  <2>2. QED
    BY <2>1 DEF HasOpened
<1>4. ~Live(ClosedFile)
  BY DEF Live, ClosedFile
<1>5. Alike(t, k)
  BY <1>3 DEF Alike, Same
<1>6. QED
  BY <1>3, <1>4, <1>5, ReopenedFine

LEMMA LastIs ==
  ASSUME NEW fat, TableOK(fat), NEW s, StartOK(fat, s)
  PROVE  fat32_get_last_cluster(fat, s) = LastOf(fat, s)
<1>1. CASE s = 0
  BY <1>1 DEF fat32_get_last_cluster, LastOf, IsCluster
<1>2. CASE s # 0
  BY <1>2, ChainFrom, ClustersOnDisk DEF fat32_get_last_cluster, LastOf, StartOK, Begins
<1>3. QED
  BY <1>1, <1>2

LEMMA OpenDoes ==
  ASSUME NEW call, NEW k, Fine(k), NEW path \in Paths, NEW t, t = fat32_open(k, path)
  PROVE  Ends(call, t) /\ Alike(t, k)
<1> DEFINE free == {fd \in Fd : ~k.open[fd].in_use}
           u == fat32_lookup_path(k, path)
           v == fat32_lookup_path(u, path)
           last1 == fat32_get_last_cluster(v.fat, v.entry.start)
           f == [ClosedFile EXCEPT
                    !.in_use = TRUE, !.start_cluster = v.entry.start,
                    !.current_cluster = v.entry.start, !.last_cluster = last1,
                    !.file_size = v.entry.size, !.dir_entry = v.at]
           fd == FirstOf(free)
<1>1. Firm(k) /\ path \in Seq(Name) /\ Len(path) # 0
  BY ThePaths DEF Fine
<1>2. Quiet(u, k) /\ Good(u)
  BY <1>1, LookupDoes
<1>3. t = IF u.ret # 0 \/ u.entry.dir THEN Failing(u)
          ELSE IF v.ret # 0 \/ v.entry.dir \/ free = {} THEN Failing(v)
          ELSE [v EXCEPT !.open[fd] = f]
  BY DEF fat32_open
<1>4. Good(t)
  BY <1>1, OpenOK DEF Firm
<1> HIDE DEF u, free
<1>5. Fine(u) /\ Firm(u) /\ u.disk = k.disk /\ u.fat = k.fat
  BY <1>2, FineQuiet DEF Quiet, Fine
<1>6. Quiet(v, u) /\ Good(v) /\ (v.ret = 0 => HasEntry(v, u))
  BY <1>1, <1>5, LookupDoes
<1> HIDE DEF v
<1>7. Fine(v) /\ Firm(v) /\ v.disk = u.disk /\ v.fat = u.fat /\ Alike(u, k) /\ Alike(v, k)
  BY <1>2, <1>5, <1>6, FineQuiet DEF Quiet, Fine, Alike
<1>8. CASE t = Failing(u)
  <2>1. Quiet(t, u) /\ Good(t)
    BY <1>2, <1>8, FailingQuiet
  <2>2. Ends(call, t)
    BY <1>5, <2>1, FineQuiet, LostEnds
  <2>3. QED
    BY <1>7, <2>1, <2>2 DEF Quiet, Alike
<1>9. CASE t = Failing(v)
  <2>1. Quiet(t, v) /\ Good(t)
    BY <1>6, <1>9, FailingQuiet
  <2>2. Ends(call, t)
    BY <1>7, <2>1, FineQuiet, LostEnds
  <2>3. QED
    BY <1>7, <2>1, <2>2 DEF Quiet, Alike
<1>10. CASE v.ret = 0 /\ ~v.entry.dir /\ free # {} /\ t = [v EXCEPT !.open[fd] = f]
  <2> DEFINE m == v.disk.cluster
             s == v.entry.start
             e == At(m, v.at)
  <2>1. v.at \in Places(m) /\ v.entry = e
    BY <1>6, <1>7, <1>10 DEF HasEntry
  <2>2. m \in Map /\ Sound(m, v.fat) /\ TableOK(v.fat) /\ HandlesOK(m, v.fat, v.open)
        /\ v.open \in [Fd -> SoundFile]
    BY <1>7, FirmIs DEF Fine
  <2>3. EntryOK(m, v.fat, v.at) /\ StartsDiffer(m) /\ ~e.dir /\ e.size \in Nat
    <3>1. e \in EntryOf(ShortName)
      BY <2>1, <2>2, PlaceIs
    <3>2. QED
      BY <1>10, <2>1, <2>2, <3>1 DEF Sound, EntryOf
  <2>4. StartOK(v.fat, s) /\ e.size <= Room(v.fat, s) /\ last1 = LastOf(v.fat, s) /\ s = e.start
    BY <2>1, <2>2, <2>3, LastIs DEF EntryOK
  <2>5. fd \in Fd
    <3>1. free \in SUBSET Fd
      BY DEF free
    <3>2. QED
      BY <1>10, <3>1, FirstOfHandles
  <2> HIDE DEF last1, fd
  <2>6. /\ f.in_use /\ ~f.removed /\ f.start_cluster = s /\ f.current_cluster = s
        /\ f.last_cluster = last1 /\ f.file_size = e.size /\ f.dir_entry = v.at
        /\ f.position = 0 /\ f.cluster_position = 0
    BY <2>1 DEF ClosedFile
  <2>7. t.open = Reopened(v.open, fd, f) /\ Alike(t, v)
    <3> HIDE DEF f
    <3>1. v.open = [h \in Fd |-> v.open[h]] /\ v \in CallState
      BY <1>6, <2>2 DEF Good, Running
    <3>2. t.open = [v.open EXCEPT ![fd] = f] /\ t.disk = v.disk /\ t.fat = v.fat /\ t.off = v.off
          /\ t.dead = v.dead
      BY <1>10, <3>1 DEF CallState
    <3>3. QED
      BY <3>2 DEF Reopened, Alike
  <2> HIDE DEF f, e, s, m
  <2>8. HandleOK(m, v.fat, f)
    <3>1. EntryOfHandle(m, f)
      BY <2>1, <2>3, <2>4, <2>6 DEF EntryOfHandle, StartsDiffer, e
    <3>2. Placed(f, Chain(v.fat, s))
      BY <2>6 DEF Placed
    <3>3. ChainOfHandle(v.fat, f)
      BY <2>3, <2>4, <2>6, <3>2 DEF ChainOfHandle
    <3>4. QED
      BY <3>1, <3>3 DEF HandleOK
  <2>9. Agrees(v.open, fd, f)
    <3> SUFFICES ASSUME NEW h \in Fd, Live(v.open[h]), f.start_cluster # 0,
                        v.open[h].start_cluster = f.start_cluster
                 PROVE  v.open[h].dir_entry = f.dir_entry
      BY DEF Agrees
    <3>1. EntryOfHandle(m, v.open[h])
      BY <2>2 DEF HandlesOK, HandleOK
    <3>2. QED
      BY <2>1, <2>4, <2>6, <3>1 DEF EntryOfHandle, e
  <2>10. Fine(t)
    BY <1>4, <1>7, <2>5, <2>7, <2>8, <2>9, ReopenedFine DEF m
  <2>11. Alike(t, k)
    BY <1>7, <2>7 DEF Alike
  <2>12. QED
    BY <1>4, <2>10, <2>11, LostEnds
<1>11. QED
  BY <1>3, <1>8, <1>9, <1>10

\* A handle that only its cursor, or its size, has changed of.
LEMMA MovedFine ==
  ASSUME NEW k, Fine(k), NEW t, Good(t), Alike(t, k), NEW fd \in Fd, NEW g,
         t.open = Reopened(k.open, fd, g), SameFile(g, k.open[fd]),
         Live(g) => ChainOfHandle(k.fat, g)
  PROVE  Fine(t)
<1> DEFINE f == k.open[fd]
<1>1. ASSUME Live(g) PROVE HandleOK(k.disk.cluster, k.fat, g) /\ Agrees(k.open, fd, g)
  <2>1. Live(f) /\ g.dir_entry = f.dir_entry /\ g.start_cluster = f.start_cluster
    BY <1>1 DEF SameFile, Live
  <2>2. HandlesOK(k.disk.cluster, k.fat, k.open)
    BY DEF Fine
  <2>3. EntryOfHandle(k.disk.cluster, f)
    BY <2>1, <2>2 DEF HandlesOK, HandleOK
  <2>4. HandleOK(k.disk.cluster, k.fat, g)
    BY <1>1, <2>1, <2>3 DEF HandleOK, EntryOfHandle
  <2>5. Agrees(k.open, fd, g)
    BY <2>1, <2>2 DEF Agrees, HandlesOK
  <2>6. QED
    BY <2>4, <2>5
<1>2. QED
  BY <1>1, ReopenedFine

\* The cluster that follows the first q of a chain.
Nth(z, q) == IF q < Len(z) THEN z[q + 1] ELSE FAT32_END_CLUSTER

\* Where a cursor is: in a cluster or right behind the last one, or at the end of
\* a cluster that it has not left yet.
AtCell(f, z, q, r) ==
    /\ q \in 0 .. Len(z) /\ r \in 0 .. CellsPerCluster - 1
    /\ f.position = q * CellsPerCluster + r
    /\ f.current_cluster = Nth(z, q) /\ f.cluster_position = r

AtEdge(f, z, q) ==
    /\ q \in 1 .. Len(z) /\ f.position = q * CellsPerCluster
    /\ f.current_cluster = z[q] /\ f.cluster_position = CellsPerCluster

LEMMA NextNth ==
  ASSUME NEW fat, TableOK(fat), NEW z, IsChain(fat, z), NEW q \in 1 .. Len(z)
  PROVE  fat32_get_next_cluster(fat, z[q]) = Nth(z, q) /\ fat[z[q]] = Nth(z, q)
<1>1. Len(z) \in Nat \ {0} /\ z[q] \in OnDisk /\ fat[z[q]] # 0
  BY ChainElements
<1>2. fat32_get_next_cluster(fat, z[q]) = fat[z[q]]
  BY <1>1, NextIsLink
<1>3. CASE q = Len(z)
  BY <1>1, <1>2, <1>3 DEF IsChain, Nth
<1>4. CASE q < Len(z)
  <2>1. q \in 1 .. Len(z) - 1
    BY <1>1, <1>4
  <2>2. QED
    BY <1>2, <1>4, <2>1 DEF IsChain, Nth
<1>5. QED
  BY <1>1, <1>3, <1>4

LEMMA Multiples ==
  ASSUME NEW q \in Nat, NEW r \in 0 .. CellsPerCluster - 1
  PROVE  /\ (q * CellsPerCluster + r) \div CellsPerCluster = q
         /\ (q * CellsPerCluster + r) % CellsPerCluster = r
         /\ q * CellsPerCluster \in Nat
<1>1. CellsPerCluster \in Nat \ {0}
  BY Sizes
<1>2. q * CellsPerCluster = CellsPerCluster * q /\ q * CellsPerCluster \in Nat
  BY <1>1
<1>3. QED
  BY <1>1, <1>2, DivisionIs

LEMMA PlacedCell ==
  ASSUME NEW f, NEW z, Len(z) \in Nat, NEW q, NEW r, AtCell(f, z, q, r),
         f.position <= Len(z) * CellsPerCluster
  PROVE  Placed(f, z)
<1>1. q \in Nat /\ r \in 0 .. CellsPerCluster - 1 /\ CellsPerCluster \in Nat \ {0}
  BY Sizes DEF AtCell
<1>2. f.position \div CellsPerCluster = q /\ f.position % CellsPerCluster = r
  BY <1>1, Multiples DEF AtCell
<1>3. CASE q < Len(z)
  BY <1>1, <1>2, <1>3 DEF AtCell, Placed, Nth
<1>4. CASE q = Len(z)
  <2>1. r = 0
    <3>1. \A x \in Nat, y \in Nat : x + y <= x => y = 0
      OBVIOUS
    <3>2. q * CellsPerCluster \in Nat /\ r \in Nat
      BY <1>1, Multiples
    <3>3. QED
      BY <1>4, <3>1, <3>2 DEF AtCell
  <2>2. f.position = Len(z) * CellsPerCluster
    BY <1>1, <1>4, <2>1, Multiples DEF AtCell
  <2>3. f.current_cluster = FAT32_END_CLUSTER /\ f.cluster_position = 0
    BY <1>4, <2>1 DEF AtCell, Nth
  <2>4. QED
    BY <2>2, <2>3 DEF Placed
<1>5. QED
  BY <1>1, <1>3, <1>4 DEF AtCell

LEMMA PlacedEdge ==
  ASSUME NEW f, NEW z, Len(z) \in Nat, NEW q, AtEdge(f, z, q)
  PROVE  Placed(f, z)
<1>1. q \in Nat /\ q >= 1 /\ q <= Len(z) /\ 0 \in 0 .. CellsPerCluster - 1
  BY Sizes DEF AtEdge
<1>2. f.position = q * CellsPerCluster + 0
  BY <1>1, Multiples DEF AtEdge
<1>3. f.position \div CellsPerCluster = q
  BY <1>1, <1>2, Multiples
<1>4. QED
  BY <1>1, <1>3 DEF AtEdge, Placed

\* A cursor is in a chain, or its file has none.
LEMMA CursorIs ==
  ASSUME NEW fat, TableOK(fat), NEW f \in SoundFile, ChainOfHandle(fat, f),
         NEW z, z = Chain(fat, f.start_cluster)
  PROVE  /\ f.start_cluster = 0 => /\ f.position = 0 /\ f.current_cluster \notin OnDisk /\ z = << >>
                                   /\ f.file_size = 0 /\ f.cluster_position = 0 /\ f.last_cluster = 0
                                   /\ f.current_cluster \in {0, FAT32_END_CLUSTER}
         /\ f.start_cluster # 0 => /\ IsChain(fat, z) /\ z[1] = f.start_cluster /\ Len(z) \in Nat \ {0}
                                   /\ \/ \E q, r : AtCell(f, z, q, r)
                                      \/ \E q : AtEdge(f, z, q)
<1>1. /\ f.position \in Nat /\ f.file_size \in Nat /\ CellsPerCluster \in Nat \ {0}
      /\ StartOK(fat, f.start_cluster) /\ f.position <= f.file_size
      /\ f.file_size <= Len(z) * CellsPerCluster /\ Placed(f, z)
      /\ f.last_cluster = LastOf(fat, f.start_cluster)
  BY Sizes DEF SoundFile, ChainOfHandle, Room
<1> DEFINE turn == f.position \div CellsPerCluster
<1>2. turn \in Nat /\ f.position % CellsPerCluster \in 0 .. CellsPerCluster - 1
      /\ f.position = turn * CellsPerCluster + (f.position % CellsPerCluster)
  <2>1. f.position = CellsPerCluster * turn + (f.position % CellsPerCluster) /\ turn \in Nat
        /\ f.position % CellsPerCluster \in 0 .. CellsPerCluster - 1
    BY <1>1, Division
  <2>2. turn * CellsPerCluster = CellsPerCluster * turn
    BY <1>1, <2>1
  <2>3. QED
    BY <2>1, <2>2
<1>3. /\ \/ f.position = 0 /\ f.current_cluster = f.start_cluster /\ f.cluster_position = 0
         \/ /\ turn < Len(z) /\ f.current_cluster = z[turn + 1]
            /\ f.cluster_position = f.position % CellsPerCluster
         \/ /\ f.position = turn * CellsPerCluster /\ turn >= 1 /\ turn <= Len(z)
            /\ f.current_cluster = z[turn] /\ f.cluster_position = CellsPerCluster
         \/ /\ f.position = Len(z) * CellsPerCluster
            /\ f.current_cluster = FAT32_END_CLUSTER /\ f.cluster_position = 0
  BY <1>1 DEF Placed
<1> HIDE DEF turn
<1>4. ASSUME f.start_cluster = 0
      PROVE  /\ f.position = 0 /\ f.current_cluster \notin OnDisk /\ z = << >>
             /\ f.file_size = 0 /\ f.cluster_position = 0 /\ f.last_cluster = 0
             /\ f.current_cluster \in {0, FAT32_END_CLUSTER}
  <2>1. z = << >> /\ Len(z) = 0
    BY <1>4, NoChain DEF TableOK
  <2>2. f.position = 0 /\ f.file_size = 0
    BY <1>1, <2>1
  <2>3. f.current_cluster \in {0, FAT32_END_CLUSTER} /\ f.cluster_position = 0
    BY <1>2, <1>3, <1>4, <2>1
  <2>4. f.last_cluster = 0
    BY <1>1, <1>4 DEF LastOf
  <2>5. QED
    BY <2>1, <2>2, <2>3, <2>4, ClustersOnDisk
<1>5. ASSUME f.start_cluster # 0
      PROVE  /\ IsChain(fat, z) /\ z[1] = f.start_cluster /\ Len(z) \in Nat \ {0}
             /\ \/ \E q, r : AtCell(f, z, q, r)
                \/ \E q : AtEdge(f, z, q)
  <2>1. IsChain(fat, z) /\ z[1] = f.start_cluster
    BY <1>1, <1>5, ChainFrom DEF StartOK
  <2>2. Len(z) \in Nat \ {0}
    BY <2>1, ChainElements
  <2>3. CASE f.position = 0 /\ f.current_cluster = f.start_cluster /\ f.cluster_position = 0
    <3>1. AtCell(f, z, 0, 0)
      <4>1. 0 < Len(z) /\ 0 + 1 = 1 /\ 0 \in 0 .. Len(z) /\ 0 \in 0 .. CellsPerCluster - 1
            /\ 0 * CellsPerCluster + 0 = 0
        BY <1>1, <2>2
      <4>2. QED
        BY <2>1, <2>3, <4>1 DEF AtCell, Nth
    <3>2. QED
      BY <2>1, <2>2, <3>1
  <2>4. CASE turn < Len(z) /\ f.current_cluster = z[turn + 1]
             /\ f.cluster_position = f.position % CellsPerCluster
    <3>1. AtCell(f, z, turn, f.position % CellsPerCluster)
      BY <1>2, <2>2, <2>4 DEF AtCell, Nth
    <3>2. QED
      BY <2>1, <2>2, <3>1
  <2>5. CASE /\ f.position = turn * CellsPerCluster /\ turn >= 1 /\ turn <= Len(z)
             /\ f.current_cluster = z[turn] /\ f.cluster_position = CellsPerCluster
    <3>1. AtEdge(f, z, turn)
      BY <1>2, <2>2, <2>5 DEF AtEdge
    <3>2. QED
      BY <2>1, <2>2, <3>1
  <2>6. CASE /\ f.position = Len(z) * CellsPerCluster
             /\ f.current_cluster = FAT32_END_CLUSTER /\ f.cluster_position = 0
    <3>1. AtCell(f, z, Len(z), 0)
      <4>1. ~(Len(z) < Len(z)) /\ Len(z) \in 0 .. Len(z) /\ 0 \in 0 .. CellsPerCluster - 1
            /\ Len(z) * CellsPerCluster + 0 = Len(z) * CellsPerCluster
        BY <1>1, <2>2, Multiples
      <4>2. QED
        BY <2>6, <4>1 DEF AtCell, Nth
    <3>2. QED
      BY <2>1, <2>2, <3>1
  <2>7. QED
    BY <1>3, <2>3, <2>4, <2>5, <2>6
<1>6. QED
  BY <1>4, <1>5

LEMMA TurnsWithin ==
  ASSUME NEW n \in Nat, NEW p \in Nat, p <= n * CellsPerCluster
  PROVE  p \div CellsPerCluster \in 0 .. n
<1>1. CellsPerCluster \in Nat \ {0}
  BY Sizes
<1>2. n * CellsPerCluster \in Nat /\ (n + 1) * CellsPerCluster = n * CellsPerCluster + CellsPerCluster
  BY <1>1
<1>3. p < (n + 1) * CellsPerCluster
  BY <1>1, <1>2
<1>4. p \div CellsPerCluster \in 0 .. (n + 1) - 1
  BY <1>1, <1>3, QuotientBelow
<1>5. QED
  BY <1>4

LEMMA SeekWalk ==
  ASSUME NEW fat, TableOK(fat), NEW z, IsChain(fat, z), NEW N \in 0 .. Len(z), NEW w, w[0] = z[1],
         \A i \in 1 .. N : w[i] = IF w[i - 1] >= FAT32_END_CLUSTER THEN w[i - 1]
                                  ELSE fat32_get_next_cluster(fat, w[i - 1])
  PROVE  w[N] = Nth(z, N)
<1>1. Len(z) \in Nat \ {0} /\ N \in Nat
  BY ChainElements
<1> DEFINE S == {i \in 0 .. N : w[i] = Nth(z, i)}
<1>2. 0 \in S
  BY <1>1 DEF Nth
<1>3. ASSUME NEW i \in 1 .. N, i - 1 \in S PROVE i \in S
  <2>1. i \in 1 .. Len(z) /\ i - 1 < Len(z) /\ (i - 1) + 1 = i
    BY <1>1
  <2>2. w[i - 1] = z[i]
    BY <1>3, <2>1 DEF Nth
  <2>3. z[i] \in OnDisk
    BY <2>1, ChainElements
  <2>4. ~(z[i] >= FAT32_END_CLUSTER)
    BY <2>3, Sizes DEF OnDisk
  <2>5. w[i] = fat32_get_next_cluster(fat, z[i])
    BY <2>2, <2>4
  <2>6. w[i] = Nth(z, i)
    BY <2>1, <2>5, NextNth
  <2>7. QED
    BY <2>6
<1> HIDE DEF S
<1>4. \A i \in 0 .. N : i \in S
  BY <1>1, <1>2, <1>3, Induction
<1>5. QED
  BY <1>1, <1>4 DEF S

LEMMA SeekDoes ==
  ASSUME NEW k, Fine(k), NEW fd \in Fd, NEW wanted \in Nat, NEW t, t = fat32_seek(k, fd, wanted)
  PROVE  Fine(t) /\ Alike(t, k)
<1> DEFINE f == k.open[fd]
           p == Least(wanted, f.file_size)
           N == p \div CellsPerCluster
           z == Chain(k.fat, f.start_cluster)
<1>1. Good(k) /\ TableOK(k.fat) /\ f \in SoundFile /\ HandlesOK(k.disk.cluster, k.fat, k.open)
  BY FirmIs DEF Fine
<1>2. Good(t) /\ \E w, g : Seeking(w, k, fd, wanted, g, t)
  BY <1>1, SeekOK
<1>3. PICK w, g : Seeking(w, k, fd, wanted, g, t)
  BY <1>2
<1>4. /\ Same(t, k) /\ t.open = Reopened(k.open, fd, g) /\ g \in SoundFile
      /\ Stands(g, f, p, p % CellsPerCluster, w[N])
      /\ w[0] = f.start_cluster
      /\ \A i \in 1 .. N : w[i] = IF w[i - 1] >= FAT32_END_CLUSTER THEN w[i - 1]
                                  ELSE fat32_get_next_cluster(k.fat, w[i - 1])
  BY <1>3 DEF Seeking
<1>5. f.file_size \in Nat /\ p \in Nat /\ p <= f.file_size
  BY <1>1 DEF SoundFile, Least
<1> HIDE DEF p
<1>6. ASSUME Live(g) PROVE ChainOfHandle(k.fat, g)
  <2>1. Live(f) /\ SameFile(g, f) /\ g.file_size = f.file_size /\ g.position = p
        /\ g.cluster_position = p % CellsPerCluster /\ g.current_cluster = w[N]
    BY <1>4, <1>6 DEF Stands, SameFile, Live
  <2>2. ChainOfHandle(k.fat, f)
    BY <1>1, <2>1 DEF HandlesOK, HandleOK
  <2>3. Placed(g, z)
    <3>1. CASE f.start_cluster = 0
      <4>1. f.file_size = 0
        BY <1>1, <2>2, <3>1, CursorIs
      <4>2. p = 0 /\ N = 0 /\ p % CellsPerCluster = 0
        <5>1. p = 0
          BY <1>5, <4>1
        <5>2. 0 \in Nat /\ 0 \in 0 .. CellsPerCluster - 1 /\ 0 * CellsPerCluster + 0 = 0
          BY Sizes
        <5>3. QED
          BY <5>1, <5>2, Multiples
      <4>3. QED
        BY <1>4, <2>1, <3>1, <4>2 DEF Placed, SameFile
    <3>2. CASE f.start_cluster # 0
      <4>1. IsChain(k.fat, z) /\ z[1] = f.start_cluster /\ Len(z) \in Nat \ {0}
        BY <1>1, <2>2, <3>2, CursorIs
      <4>2. p <= Len(z) * CellsPerCluster
        <5>1. f.file_size <= Len(z) * CellsPerCluster
          BY <2>2 DEF ChainOfHandle, Room
        <5>2. Len(z) * CellsPerCluster \in Nat
          BY <4>1, Sizes
        <5>3. QED
          BY <1>5, <5>1, <5>2
      <4>3. N \in 0 .. Len(z)
        BY <1>5, <4>1, <4>2, TurnsWithin
      <4> HIDE DEF z
      <4>4. w[N] = Nth(z, N)
        <5> HIDE DEF N
        <5>1. QED
          BY <1>1, <1>4, <4>1, <4>3, SeekWalk
      <4>5. p % CellsPerCluster \in 0 .. CellsPerCluster - 1
            /\ p = N * CellsPerCluster + (p % CellsPerCluster)
        <5>1. CellsPerCluster \in Nat \ {0}
          BY Sizes
        <5>2. p = CellsPerCluster * N + (p % CellsPerCluster) /\ N \in Nat
              /\ p % CellsPerCluster \in 0 .. CellsPerCluster - 1
          BY <1>5, <5>1, Division
        <5>3. CellsPerCluster * N = N * CellsPerCluster
          BY <5>1, <5>2
        <5>4. QED
          BY <5>2, <5>3
      <4>6. AtCell(g, z, N, p % CellsPerCluster)
        BY <2>1, <4>3, <4>4, <4>5 DEF AtCell
      <4>7. QED
        BY <2>1, <4>1, <4>2, <4>6, PlacedCell
    <3>3. QED
      BY <3>1, <3>2
  <2>4. QED
    BY <1>5, <2>1, <2>2, <2>3 DEF ChainOfHandle, SameFile
<1>7. Alike(t, k)
  BY <1>4 DEF Alike, Same
<1>8. QED
  BY <1>2, <1>4, <1>6, <1>7, MovedFine DEF Stands

\* One turn of a read moves the cursor on in its chain.
LEMMA MovedOn ==
  ASSUME NEW k, TableOK(k.fat), NEW f \in SoundFile, ChainOfHandle(k.fat, f),
         f.current_cluster \in OnDisk, NEW x \in Nat, NEW n, n = Least(x, CellsPerCluster - f.cluster_position),
         f.position + n <= f.file_size, NEW g, Moved(g, f, k, n)
  PROVE  ChainOfHandle(k.fat, g) /\ SameFile(g, f) /\ g.file_size = f.file_size
         /\ g.position = f.position + n
<1> DEFINE z == Chain(k.fat, f.start_cluster)
           used == f.cluster_position + n
<1>1. f.cluster_position \in 0 .. CellsPerCluster /\ f.position \in Nat /\ f.file_size \in Nat
      /\ CellsPerCluster \in Nat \ {0}
  BY Sizes DEF SoundFile
<1>2. n \in Nat /\ used \in 0 .. CellsPerCluster /\ (n = CellsPerCluster - f.cluster_position \/ n = x)
  BY <1>1 DEF Least
<1>3. /\ used >= CellsPerCluster => Stands(g, f, f.position + n, 0, fat32_get_next_cluster(k.fat, f.current_cluster))
      /\ used < CellsPerCluster => Stands(g, f, f.position + n, used, f.current_cluster)
  BY DEF Moved
<1>4. SameFile(g, f) /\ g.file_size = f.file_size /\ g.position = f.position + n
  <2>1. used >= CellsPerCluster \/ used < CellsPerCluster
    BY <1>1, <1>2
  <2>2. QED
    BY <1>3, <2>1 DEF Stands
<1>5. f.start_cluster # 0 /\ IsChain(k.fat, z) /\ z[1] = f.start_cluster /\ Len(z) \in Nat \ {0}
      /\ ((\E q, r : AtCell(f, z, q, r)) \/ (\E q : AtEdge(f, z, q)))
  BY CursorIs
<1>6. f.file_size <= Len(z) * CellsPerCluster /\ Len(z) * CellsPerCluster \in Nat
  BY <1>1, <1>5 DEF ChainOfHandle, Room
<1> HIDE DEF z
<1>7. g.position <= Len(z) * CellsPerCluster
  BY <1>1, <1>2, <1>4, <1>6
<1>8. Placed(g, z)
  <2>1. CASE \E q, r : AtCell(f, z, q, r)
    <3>1. PICK q, r : AtCell(f, z, q, r)
      BY <2>1
    <3>2. q \in 0 .. Len(z) /\ r \in 0 .. CellsPerCluster - 1 /\ f.position = q * CellsPerCluster + r
          /\ f.current_cluster = Nth(z, q) /\ f.cluster_position = r
      BY <3>1 DEF AtCell
    <3>3. q < Len(z) /\ f.current_cluster = z[q + 1] /\ q + 1 \in 1 .. Len(z) /\ q \in Nat /\ r \in Nat
      BY <1>1, <1>5, <3>2, ClustersOnDisk DEF Nth
    <3>4. /\ (q * CellsPerCluster + r) + n = q * CellsPerCluster + (r + n)
          /\ r + n = CellsPerCluster => (q * CellsPerCluster + r) + n = (q + 1) * CellsPerCluster + 0
      <4>1. n \in Nat /\ q \in Nat /\ r \in Nat /\ CellsPerCluster \in Nat
        BY <1>1, <1>2, <3>3
      <4>2. q * CellsPerCluster \in Nat /\ (q + 1) * CellsPerCluster = q * CellsPerCluster + CellsPerCluster
        BY <4>1
      <4>3. QED
        BY <4>1, <4>2
    <3>5. CASE used >= CellsPerCluster
      <4>1. r + n = CellsPerCluster
        BY <1>1, <1>2, <3>2, <3>5
      <4>2. fat32_get_next_cluster(k.fat, f.current_cluster) = Nth(z, q + 1)
        BY <1>5, <3>3, NextNth
      <4>3. Stands(g, f, f.position + n, 0, Nth(z, q + 1))
        BY <1>3, <3>5, <4>2
      <4>4. AtCell(g, z, q + 1, 0)
        <5>1. q + 1 \in 0 .. Len(z) /\ 0 \in 0 .. CellsPerCluster - 1
          BY <1>1, <1>5, <3>3
        <5>2. QED
          BY <3>2, <3>4, <4>1, <4>3, <5>1 DEF AtCell, Stands
      <4>5. QED
        BY <1>5, <1>7, <4>4, PlacedCell
    <3>6. CASE used < CellsPerCluster
      <4>1. Stands(g, f, f.position + n, used, f.current_cluster)
        BY <1>3, <3>6
      <4>2. AtCell(g, z, q, r + n)
        <5>1. r + n \in 0 .. CellsPerCluster - 1 /\ used = r + n
          BY <1>1, <1>2, <3>2, <3>6
        <5>2. QED
          BY <3>2, <3>4, <4>1, <5>1 DEF AtCell, Stands
      <4>3. QED
        BY <1>5, <1>7, <4>2, PlacedCell
    <3>7. QED
      BY <1>1, <1>2, <3>5, <3>6
  <2>2. CASE \E q : AtEdge(f, z, q)
    <3>1. PICK q : AtEdge(f, z, q)
      BY <2>2
    <3>2. q \in 1 .. Len(z) /\ f.position = q * CellsPerCluster /\ f.current_cluster = z[q]
          /\ f.cluster_position = CellsPerCluster /\ q \in Nat
      BY <3>1 DEF AtEdge
    <3>3. n = 0 /\ used >= CellsPerCluster
      BY <1>1, <1>2, <3>2
    <3>4. fat32_get_next_cluster(k.fat, f.current_cluster) = Nth(z, q)
      BY <1>5, <3>2, NextNth
    <3>5. Stands(g, f, f.position + n, 0, Nth(z, q))
      BY <1>3, <3>3, <3>4
    <3>6. AtCell(g, z, q, 0)
      <4>1. f.position + n = q * CellsPerCluster + 0
        <5>1. f.position = q * CellsPerCluster /\ q \in Nat /\ q * CellsPerCluster \in Nat
          BY <1>1, <3>2
        <5>2. QED
          BY <3>3, <5>1
      <4>2. q \in 0 .. Len(z) /\ 0 \in 0 .. CellsPerCluster - 1
        BY <1>1, <1>5, <3>2
      <4>3. QED
        BY <3>5, <4>1, <4>2 DEF AtCell, Stands
    <3>7. QED
      BY <1>5, <1>7, <3>6, PlacedCell
  <2>3. QED
    BY <1>5, <2>1, <2>2
<1>9. QED
  BY <1>4, <1>8 DEF ChainOfHandle, SameFile, z

\* What holds between two turns of a read.
ReadInv(u, k, fd, size) ==
    /\ Good(u) /\ Alike(u, k)
    /\ Len(u.data) \in Nat
    /\ \E g \in SoundFile :
           /\ u.open = Reopened(k.open, fd, g) /\ SameFile(g, k.open[fd])
           /\ g.file_size = k.open[fd].file_size
           /\ g.position + (size - Len(u.data)) <= g.file_size
           /\ Live(g) => ChainOfHandle(k.fat, g)

LEMMA ReopenedTwice ==
  ASSUME NEW o \in [Fd -> SoundFile], NEW fd \in Fd, NEW f, NEW g
  PROVE  /\ Reopened(Reopened(o, fd, f), fd, g) = Reopened(o, fd, g)
         /\ Reopened(o, fd, f)[fd] = f
BY DEF Reopened

LEMMA LeastIs ==
  ASSUME NEW x \in Nat, NEW p \in 0 .. CellsPerCluster, NEW n, n = Least(x, CellsPerCluster - p)
  PROVE  n \in Nat /\ p + n <= CellsPerCluster /\ n <= x
BY Sizes DEF Least

LEMMA ReadTurnDoes ==
  ASSUME NEW k, Fine(k), NEW fd \in Fd, NEW size \in Int, NEW u, ReadInv(u, k, fd, size),
         Len(u.data) < size, NEW t, t = ReadTurn(u, fd, size)
  PROVE  ReadInv(t, k, fd, size)
<1>1. Good(u) /\ Alike(u, k) /\ Len(u.data) \in Nat
  BY DEF ReadInv
<1>2. PICK f \in SoundFile :
           /\ u.open = Reopened(k.open, fd, f) /\ SameFile(f, k.open[fd])
           /\ f.file_size = k.open[fd].file_size
           /\ f.position + (size - Len(u.data)) <= f.file_size
           /\ Live(f) => ChainOfHandle(k.fat, f)
  BY DEF ReadInv
<1>3. Good(t) /\ ReadOn(t, u, fd, size)
  BY <1>1, ReadTurnOK
<1>4. k.open \in [Fd -> SoundFile] /\ TableOK(k.fat)
  BY FirmIs DEF Fine
<1>5. u.open[fd] = f
  BY <1>2, <1>4 DEF Reopened
<1>6. CASE Quiet(t, u) /\ t.data = u.data
  BY <1>1, <1>2, <1>3, <1>6 DEF ReadInv, Quiet, Alike
<1>7. CASE \E n, g : ReadSome(t, u, fd, size, u.open[fd], n, g)
  <2>1. PICK n, g : ReadSome(t, u, fd, size, f, n, g)
    BY <1>5, <1>7
  <2>2. /\ Still(t, u) /\ t.open = Reopened(u.open, fd, g) /\ g \in SoundFile
        /\ f.current_cluster \in OnDisk /\ Moved(g, f, u, n)
        /\ n = Least(size - Len(u.data), CellsPerCluster - f.cluster_position)
        /\ t.data = u.data \o SubSeq(u.disk.cluster[f.current_cluster],
                                     f.cluster_position + 1, f.cluster_position + n)
    BY <2>1 DEF ReadSome
  <2>3. t.open = Reopened(k.open, fd, g)
    BY <1>2, <1>4, <2>2, ReopenedTwice
  <2>4. Alike(t, k)
    BY <1>1, <2>2 DEF Still, Alike
  <2>5. f.cluster_position \in 0 .. CellsPerCluster /\ f.position \in Nat /\ f.file_size \in Nat
        /\ CellsPerCluster \in Nat \ {0}
    BY Sizes DEF SoundFile
  <2>6. n \in Nat /\ f.cluster_position + n <= CellsPerCluster /\ n <= size - Len(u.data)
    <3>1. size - Len(u.data) \in Nat
      BY <1>1
    <3>2. QED
      BY <2>2, <2>5, <3>1, LeastIs
  <2>7. Len(t.data) = Len(u.data) + n
    <3> DEFINE cells == u.disk.cluster[f.current_cluster]
               a == f.cluster_position + 1
               b == f.cluster_position + n
               s == SubSeq(cells, a, b)
    <3>1. u.disk \in SoundDisk /\ u.data \in Seq(SoundCell \cup Nat)
      BY <1>1 DEF Good, Running, CallState
    <3>2. cells \in Cluster
      BY <2>2, <3>1 DEF SoundDisk
    <3>3. cells \in Seq(SoundCell) /\ Len(cells) = CellsPerCluster
      <4> HIDE DEF cells
      <4>1. QED
        BY <3>2, Sizes DEF Cluster
    <3>4. a \in 1 .. Len(cells) + 1 /\ b \in a - 1 .. Len(cells) /\ (b - a) + 1 = n
      <4>1. \A p, x, y \in Nat : p + x <= y => /\ p + 1 \in 1 .. y + 1 /\ p + x \in (p + 1) - 1 .. y
                                              /\ ((p + x) - (p + 1)) + 1 = x
        OBVIOUS
      <4>2. f.cluster_position \in Nat
        BY <2>5
      <4> HIDE DEF cells
      <4>3. QED
        BY <2>5, <2>6, <3>3, <4>1, <4>2
    <3> HIDE DEF cells, a, b
    <3>5. s \in Seq(SoundCell) /\ Len(s) = b - a + 1
      BY <3>3, <3>4, SubSeqElements
    <3>6. t.data = u.data \o s
      BY <2>2 DEF cells, a, b
    <3>7. Len(s) = n /\ s \in Seq(SoundCell \cup Nat)
      BY <3>4, <3>5
    <3> HIDE DEF s
    <3> DEFINE y == u.data
    <3>8. y \in Seq(SoundCell \cup Nat) /\ t.data = y \o s
      BY <3>1, <3>6
    <3> HIDE DEF y
    <3>9. Len(t.data) = Len(y) + Len(s)
      BY <3>7, <3>8, ConcatElements
    <3>10. QED
      BY <3>7, <3>9 DEF y
  <2>8. f.position + n <= f.file_size
    <3> DEFINE x == size - Len(u.data)
               e == f.position
               w == f.file_size
    <3>1. x \in Nat
      BY <1>1
    <3>2. e + x <= w
      BY <1>2
    <3>3. e + x <= w /\ x \in Nat /\ e \in Nat /\ w \in Nat /\ n \in Nat /\ n <= x
      BY <2>5, <2>6, <3>1, <3>2
    <3> HIDE DEF x, e, w
    <3>4. e + n <= w
      BY <3>3
    <3>5. QED
      BY <3>4 DEF e, w
  <2>9. SameFile(g, f) /\ g.file_size = f.file_size /\ g.position = f.position + n
    <3>1. Stands(g, f, f.position + n, 0, fat32_get_next_cluster(u.fat, f.current_cluster))
          \/ Stands(g, f, f.position + n, f.cluster_position + n, f.current_cluster)
      BY <2>2, <2>5, <2>6 DEF Moved
    <3>2. QED
      BY <3>1 DEF Stands
  <2>10. Live(g) => ChainOfHandle(k.fat, g)
    <3>1. SUFFICES ASSUME Live(g) PROVE ChainOfHandle(k.fat, g)
      OBVIOUS
    <3>2. Live(f)
      BY <2>9, <3>1 DEF SameFile, Live
    <3>3. u.fat = k.fat /\ ChainOfHandle(k.fat, f) /\ size - Len(u.data) \in Nat
      BY <1>1, <1>2, <3>2 DEF Alike
    <3>4. QED
      BY <1>4, <2>2, <2>8, <3>3, MovedOn
  <2>11. Len(t.data) \in Nat /\ g.position + (size - Len(t.data)) <= g.file_size
    <3>1. \A p, x, y, z \in Int : (p + y) + (z - (x + y)) = p + (z - x)
      OBVIOUS
    <3>2. (f.position + n) + (size - (Len(u.data) + n)) = f.position + (size - Len(u.data))
      BY <1>1, <2>5, <2>6, <3>1
    <3>3. QED
      BY <1>1, <1>2, <2>6, <2>7, <2>9, <3>2
  <2>12. SameFile(g, k.open[fd]) /\ g.file_size = k.open[fd].file_size
    BY <1>2, <2>9 DEF SameFile
  <2>13. QED
    BY <1>3, <2>2, <2>3, <2>4, <2>10, <2>11, <2>12 DEF ReadInv
<1>8. QED
  BY <1>3, <1>6, <1>7 DEF ReadOn

LEMMA ReopenedSame ==
  ASSUME NEW o \in [Fd -> SoundFile], NEW fd \in Fd
  PROVE  Reopened(o, fd, o[fd]) = o
BY DEF Reopened

LEMMA ReadDoes ==
  ASSUME NEW k, Fine(k), NEW fd \in Fd, NEW wanted \in Nat, NEW t, t = fat32_read(k, fd, wanted)
  PROVE  Fine(t) /\ Alike(t, k)
<1> DEFINE f == k.open[fd]
           size == Least(wanted, f.file_size - f.position)
           S == {u \in CallState : ReadInv(u, k, fd, size)}
<1>1. Good(k) /\ TableOK(k.fat) /\ f \in SoundFile /\ HandlesOK(k.disk.cluster, k.fat, k.open)
      /\ k.open \in [Fd -> SoundFile]
  BY FirmIs DEF Fine
<1>2. Good(t) /\ \E w : Reading(w, k, fd, wanted, t)
  BY <1>1, ReadOK
<1>3. PICK w : Reading(w, k, fd, wanted, t)
  BY <1>2
<1>4. f.file_size \in Nat /\ f.position \in Nat
  BY <1>1 DEF SoundFile
<1>5. CASE f.position >= f.file_size
  <2>1. Same(t, k) /\ t.open = k.open
    BY <1>3, <1>5 DEF Reading
  <2>2. QED
    BY <1>2, <2>1 DEF Same, Alike, Fine, Firm
<1>6. CASE ~(f.position >= f.file_size)
  <2>1. /\ Good(w[0]) /\ Same(w[0], k) /\ w[0].open = k.open /\ w[0].data = << >>
        /\ t = w[wanted + 1]
        /\ \A i \in 1 .. wanted + 1 :
                    \/ w[i] = w[i - 1]
                    \/ /\ Len(w[i - 1].data) < size /\ Good(w[i - 1])
                       /\ w[i] = ReadTurn(w[i - 1], fd, size)
    BY <1>3, <1>6 DEF Reading
  <2>2. size \in Int /\ f.position + size <= f.file_size
    BY <1>4, <1>6 DEF Least
  <2> HIDE DEF size
  <2>3. ReadInv(w[0], k, fd, size)
    <3>1. w[0].open = Reopened(k.open, fd, f)
      BY <1>1, <2>1, ReopenedSame
    <3>2. SameFile(f, f) /\ (Live(f) => ChainOfHandle(k.fat, f))
      BY <1>1 DEF SameFile, HandlesOK, HandleOK
    <3>3. Len(w[0].data) = 0
      BY <2>1
    <3>4. f.position + (size - Len(w[0].data)) <= f.file_size
      BY <1>4, <2>2, <3>3
    <3>5. Alike(w[0], k)
      BY <2>1 DEF Same, Alike
    <3> HIDE DEF f
    <3>6. QED
      BY <1>1, <2>1, <3>1, <3>2, <3>3, <3>4, <3>5 DEF ReadInv, f
  <2>4. w[0] \in S
    BY <2>1, <2>3 DEF Good, Running
  <2>5. ASSUME NEW i \in 1 .. wanted + 1, w[i - 1] \in S PROVE w[i] \in S
    <3>1. ReadInv(w[i - 1], k, fd, size)
      BY <2>5
    <3>2. CASE w[i] = w[i - 1]
      BY <2>5, <3>2
    <3>3. CASE Len(w[i - 1].data) < size /\ w[i] = ReadTurn(w[i - 1], fd, size)
      <4>1. ReadInv(w[i], k, fd, size)
        BY <2>2, <3>1, <3>3, ReadTurnDoes
      <4>2. QED
        BY <4>1 DEF ReadInv, Good, Running
    <3>4. QED
      BY <2>1, <3>2, <3>3
  <2> HIDE DEF S
  <2>6. wanted + 1 \in Nat
    OBVIOUS
  <2>7. w[wanted + 1] \in S
    <3> DEFINE N == wanted + 1
    <3> HIDE DEF N
    <3>1. \A i \in 1 .. N : w[i - 1] \in S => w[i] \in S
      BY <2>5 DEF N
    <3>2. w[N] \in S
      BY <2>4, <2>6, <3>1, StaysIn DEF N
    <3>3. QED
      BY <3>2 DEF N
  <2>8. ReadInv(t, k, fd, size)
    BY <2>1, <2>7 DEF S
  <2>9. PICK g \in SoundFile : /\ t.open = Reopened(k.open, fd, g) /\ SameFile(g, k.open[fd])
                               /\ Live(g) => ChainOfHandle(k.fat, g)
    BY <2>8 DEF ReadInv
  <2>10. Good(t) /\ Alike(t, k)
    BY <2>8 DEF ReadInv
  <2>11. QED
    BY <2>9, <2>10, MovedFine
<1>7. QED
  BY <1>5, <1>6

-----------------------------------------------------------------------------
(* write, through a handle whose file is there and open nowhere else.      *)

Alone(o, fd) == \A h \in Fd : h # fd /\ o[h].in_use => o[h].dir_entry # o[fd].dir_entry

Holds(k, fd) == Fine(k) /\ Live(k.open[fd]) /\ Alone(k.open, fd)

\* Between two steps of a write all is well, or it has given up.
Turns(k, fd) == Good(k) /\ (Holds(k, fd) \/ (k.ret # 0 /\ Lost("write", k)))

\* The same entry, in the same state.
SameEntry(g, f) == g.in_use = f.in_use /\ g.removed = f.removed /\ g.dir_entry = f.dir_entry

LEMMA HeldOn ==
  ASSUME NEW k, NEW fd \in Fd, Holds(k, fd), NEW g, SameEntry(g, k.open[fd]),
         NEW t, Fine(t), t.open = Reopened(k.open, fd, g)
  PROVE  Holds(t, fd) /\ t.open[fd] = g
<1>1. k.open \in [Fd -> SoundFile]
  BY FirmIs DEF Holds, Fine
<1>2. \A h \in Fd : t.open[h] = IF h = fd THEN g ELSE k.open[h]
  BY <1>1 DEF Reopened
<1>3. QED
  BY <1>2 DEF Holds, Live, Alone, SameEntry

LEMMA HoldsQuiet ==
  ASSUME NEW k, NEW fd \in Fd, NEW t, Good(t), Quiet(t, k)
  PROVE  (Holds(k, fd) => Holds(t, fd)) /\ (Lost("write", k) /\ Good(k) => Lost("write", t))
BY FineQuiet, LostQuiet DEF Holds, Quiet

\* A step of a write loses nothing but, for now, the chain of its own file ...
Bears(t, k, fd) ==
    Untouched(t) => /\ Untouched(k)
                    /\ Whole(k.disk.cluster, k.fat, {k.open[fd].start_cluster})
                       => Whole(t.disk.cluster, t.fat, {t.open[fd].start_cluster})

\* ... and a write gives up only on a full disk, or for a cause.
GaveUp(t) == t.full \/ ~Untouched(t)

Carries(t, k, fd) == IF t.ret = 0 THEN Bears(t, k, fd) ELSE GaveUp(t)

Continues(t, k, fd) == IF k.ret = 0 THEN Carries(t, k, fd) ELSE t = k

LEMMA ContinuesOn ==
  ASSUME NEW k, NEW fd, NEW u, Continues(u, k, fd), NEW t, Continues(t, u, fd)
  PROVE  Continues(t, k, fd)
BY DEF Continues, Carries, Bears

LEMMA ContinuesItself ==
  ASSUME NEW k, NEW fd
  PROVE  Continues(k, k, fd)
BY DEF Continues, Carries, Bears

\* A file without a cluster sets nothing apart.
LEMMA NoneApart ==
  ASSUME NEW m, NEW fat, Whole(m, fat, {0})
  PROVE  Whole(m, fat, {})
<1>1. ~Begins(fat, 0)
  BY ClustersOnDisk DEF Begins
<1>2. QED
  BY <1>1 DEF Whole, HasOwner

LEMMA TakingIs ==
  ASSUME NEW k, Running(k), NEW fd \in Fd, NEW g, NEW t, t = Taking(k, fd, g)
  PROVE  t.open = Reopened(k.open, fd, g) /\ Alike(t, k) /\ t.ret = 0 /\ t.data = k.data /\ t.hit = k.hit
<1>1. k \in CallState
  BY DEF Running
<1>2. t.open = [k.open EXCEPT ![fd] = g] /\ t.disk = k.disk /\ t.fat = k.fat /\ t.off = k.off
      /\ t.dead = k.dead /\ t.ret = 0 /\ t.data = k.data /\ t.hit = k.hit
  BY <1>1 DEF CallState, Taking
<1>3. QED
  BY <1>2 DEF Reopened, Alike

\* An allocation that yields nothing: there is no cluster, no power, or a harm.
LEMMA NoneToBeHad ==
  ASSUME NEW k, NEW fd \in Fd, Holds(k, fd), NEW p, NEW u, Good(u), Allocated("write", u, k, p), u.ret = 0,
         NEW t, t = Failing(u)
  PROVE  Turns(t, fd) /\ t.ret # 0 /\ GaveUp(t)
<1>1. Good(t) /\ Quiet(t, u) /\ t.ret # 0
  BY FailingQuiet
<1>2. Firm(k)
  BY DEF Holds, Fine
<1>3. CASE Quiet(u, k) /\ (u.hit # << >> \/ u.full)
  <2>1. t.full = u.full
    BY DEF Failing, Good, Running, CallState
  <2>2. GaveUp(t)
    BY <1>1, <1>3, <2>1 DEF GaveUp, Untouched, Quiet
  <2>3. QED
    BY <1>1, <1>3, <2>2, HoldsQuiet DEF Turns
<1>4. CASE \E c : HalfTook(u, k, p, c)
  <2>1. Rest(u)
    BY <1>2, <1>4, HalfTookRests
  <2>2. Lost("write", t)
    BY <1>1, <2>1, HoldsQuiet DEF Lost
  <2>3. QED
    BY <1>1, <2>2, SpoiltTouched DEF Turns, Lost, GaveUp
<1>5. CASE Spoilt("write", u)
  <2>1. Lost("write", t)
    BY <1>1, <1>5, HoldsQuiet DEF Lost
  <2>2. QED
    BY <1>1, <2>1, SpoiltTouched DEF Turns, Lost, GaveUp
<1>6. CASE \E c : Took(u, k, p, c) /\ u.ret = c
  <2>1. PICK c : Took(u, k, p, c) /\ u.ret = c
    BY <1>6
  <2>2. c \in OnDisk
    BY <2>1 DEF Took, CanGive
  <2>3. QED
    BY <2>1, <2>2, ClustersOnDisk
<1>7. QED
  BY <1>3, <1>4, <1>5, <1>6 DEF Allocated

\* An allocation that yields a cluster.
LEMMA OneToBeHad ==
  ASSUME NEW u, NEW k, NEW p, Allocated("write", u, k, p), u.ret # 0
  PROVE  Took(u, k, p, u.ret)
BY DEF Allocated

\* A file without a cluster gets its first one.
LEMMA FirstClusterDoes ==
  ASSUME NEW k, NEW fd \in Fd, Holds(k, fd), NEW t, t = FirstCluster(k, fd), k.ret = 0
  PROVE  /\ Turns(t, fd) /\ (t.ret = 0 => Holds(t, fd) /\ t.open[fd].start_cluster # 0) /\ t.data = k.data
         /\ Carries(t, k, fd)
<1> DEFINE f == k.open[fd]
           u == fat32_allocate_cluster(k, f.start_cluster)
           c == u.ret
           g == [f EXCEPT !.start_cluster = c, !.last_cluster = c, !.current_cluster = c,
                          !.cluster_position = 0]
<1>1. t = IF f.start_cluster >= 2 THEN k ELSE IF c = 0 THEN Failing(u) ELSE Taking(u, fd, g)
  BY DEF FirstCluster, Taking
<1>2. Fine(k) /\ Firm(k) /\ Good(k) /\ f \in SoundFile /\ TableOK(k.fat) /\ k.fat \in Table
      /\ HandlesOK(k.disk.cluster, k.fat, k.open)
  BY FirmIs DEF Holds, Fine
<1>3. Good(t) /\ t.data = k.data
  BY <1>2, FirstClusterOK DEF Placing
<1>4. EntryOfHandle(k.disk.cluster, f) /\ ChainOfHandle(k.fat, f)
  BY <1>2 DEF HandlesOK, HandleOK, Holds
<1>5. CASE f.start_cluster >= 2
  <2>1. t = k
    BY <1>1, <1>5
  <2>2. Carries(t, k, fd)
    BY <2>1 DEF Carries, Bears
  <2>3. QED
    BY <1>2, <1>5, <2>1, <2>2 DEF Turns
<1>6. CASE ~(f.start_cluster >= 2)
  <2>1. f.start_cluster = 0
    <3>1. StartOK(k.fat, f.start_cluster)
      BY <1>4 DEF ChainOfHandle
    <3>2. QED
      BY <1>6, <3>1 DEF StartOK, Begins, OnDisk
  <2>2. f.position = 0 /\ f.file_size = 0
    BY <1>2, <1>4, <2>1, CursorIs
  <2>3. t = IF c = 0 THEN Failing(u) ELSE Taking(u, fd, g)
    BY <1>1, <1>6
  <2> HIDE DEF f
  <2>4. Good(u) /\ Kept(u, k) /\ Allocated("write", u, k, 0)
    <3>1. ~IsCluster(0)
      BY DEF IsCluster
    <3>2. QED
      BY <1>2, <2>1, <3>1, AllocateDoes
  <2> HIDE DEF u
  <2>5. CASE c = 0
    <3>1. Turns(t, fd) /\ t.ret # 0 /\ GaveUp(t)
      BY <2>3, <2>4, <2>5, NoneToBeHad
    <3>2. QED
      BY <1>3, <3>1 DEF Carries
  <2>6. CASE c # 0
    <3>1. Took(u, k, 0, c)
      BY <2>4, <2>6, OneToBeHad
    <3>2. u.open = k.open
      BY <2>4 DEF Kept
    <3>3. Fine(u) /\ Spare(u, c) /\ Chain(u.fat, c) = <<c>> /\ Saves(u, k, {}, {c})
      BY <1>2, <2>4, <3>1, <3>2, TookSpare DEF Kept
    <3>4. t.open = Reopened(u.open, fd, g) /\ Alike(t, u) /\ t.ret = 0 /\ t.hit = u.hit
      <4> HIDE DEF g, c
      <4>1. QED
        BY <2>3, <2>4, <2>6, TakingIs DEF Good
    <3>5. /\ g.in_use = f.in_use /\ g.removed = f.removed /\ g.dir_entry = f.dir_entry
          /\ g.position = 0 /\ g.file_size = 0 /\ g.start_cluster = c /\ g.last_cluster = c
          /\ g.current_cluster = c /\ g.cluster_position = 0
      <4> HIDE DEF c
      <4>1. QED
        BY <1>2, <2>2 DEF SoundFile
    <3> HIDE DEF g, c
    <3>6. HandleOK(u.disk.cluster, u.fat, g)
      <4>1. f.dir_entry \in Places(k.disk.cluster) /\ ~At(k.disk.cluster, f.dir_entry).dir
            /\ At(k.disk.cluster, f.dir_entry).start = 0
        BY <1>4, <2>1 DEF EntryOfHandle
      <4>2. SamePlaces(u.disk.cluster, k.disk.cluster)
        BY <1>2, <2>4, <3>1, TookSound
      <4>3. EntryOfHandle(u.disk.cluster, g)
        BY <3>3, <3>5, <4>1, <4>2 DEF EntryOfHandle, SamePlaces, Spare
      <4>4. Last(<<c>>) = c /\ Len(<<c>>) = 1
        BY DEF Last
      <4>5. StartOK(u.fat, c) /\ LastOf(u.fat, c) = c /\ 0 <= Room(u.fat, c)
        <5>1. Begins(u.fat, c) /\ c # ROOT_CLUSTER
          BY <3>3 DEF Spare
        <5>2. Room(u.fat, c) = 1 * CellsPerCluster
          BY <3>3, <4>4 DEF Room
        <5>3. 0 <= 1 * CellsPerCluster
          BY Sizes
        <5>4. QED
          BY <2>6, <3>3, <4>4, <5>1, <5>2, <5>3 DEF StartOK, LastOf, c
      <4>6. Placed(g, Chain(u.fat, c))
        BY <3>5 DEF Placed
      <4>7. ChainOfHandle(u.fat, g)
        BY <3>5, <4>5, <4>6 DEF ChainOfHandle
      <4>8. QED
        BY <4>3, <4>7 DEF HandleOK
    <3>7. Agrees(u.open, fd, g)
      BY <3>3, <3>5 DEF Agrees, Spare
    <3>8. Fine(t)
      BY <1>3, <3>3, <3>4, <3>6, <3>7, ReopenedFine
    <3>9. Holds(t, fd) /\ t.open[fd] = g
      <4>1. SameEntry(g, k.open[fd])
        BY <3>5 DEF SameEntry, f
      <4>2. QED
        BY <3>2, <3>4, <3>8, <4>1, HeldOn
    <3>10. Carries(t, k, fd)
      <4>1. ASSUME Untouched(t) PROVE Untouched(k)
        BY <3>3, <3>4, <4>1 DEF Untouched, Alike, Saves
      <4>2. ASSUME Untouched(t), Whole(k.disk.cluster, k.fat, {k.open[fd].start_cluster})
            PROVE  Whole(t.disk.cluster, t.fat, {t.open[fd].start_cluster})
        <5>1. Whole(k.disk.cluster, k.fat, {})
          BY <2>1, <4>2, NoneApart DEF f
        <5>2. Whole(u.disk.cluster, u.fat, {c})
          BY <3>3, <3>4, <4>2, <5>1 DEF Untouched, Alike, Saves
        <5>3. QED
          BY <3>4, <3>5, <3>9, <5>2 DEF Alike
      <4>3. QED
        BY <3>4, <4>1, <4>2 DEF Carries, Bears
    <3>11. QED
      BY <1>3, <2>6, <3>5, <3>9, <3>10 DEF Turns, c
  <2>7. QED
    BY <2>5, <2>6
<1>7. QED
  BY <1>5, <1>6

\* The handles other than the one that is written through.
Without1(o, fd) == Reopened(o, fd, ClosedFile)

LEMMA OtherHandles ==
  ASSUME NEW k, NEW fd \in Fd, Holds(k, fd), NEW h \in Fd, Live(Without1(k.open, fd)[h])
  PROVE  /\ h # fd /\ Without1(k.open, fd)[h] = k.open[h]
         /\ HandleOK(k.disk.cluster, k.fat, k.open[h])
         /\ k.open[h].dir_entry # k.open[fd].dir_entry
         /\ k.open[h].start_cluster # 0 => k.open[h].start_cluster # k.open[fd].start_cluster
<1>1. k.open \in [Fd -> SoundFile] /\ HandlesOK(k.disk.cluster, k.fat, k.open)
  BY FirmIs DEF Holds, Fine
<1>2. \A i \in Fd : Without1(k.open, fd)[i] = IF i = fd THEN ClosedFile ELSE k.open[i]
  BY <1>1 DEF Without1, Reopened
<1>3. ~Live(ClosedFile)
  BY DEF Live, ClosedFile
<1>4. h # fd /\ Without1(k.open, fd)[h] = k.open[h] /\ Live(k.open[h])
  BY <1>2, <1>3
<1>5. k.open[h].dir_entry # k.open[fd].dir_entry
  BY <1>4 DEF Holds, Alone, Live
<1>6. QED
  BY <1>1, <1>4, <1>5 DEF HandlesOK, Holds

LEMMA LastElement ==
  ASSUME NEW fat, TableOK(fat), NEW z, IsChain(fat, z), NEW c \in OnDisk
  PROVE  /\ Last(z) \in ClustersOf(z) /\ Last(z) \in OnDisk /\ fat[Last(z)] = FAT32_END_CLUSTER
         /\ Len(Append(z, c)) = Len(z) + 1 /\ Append(z, c)[Len(z) + 1] = c /\ Last(Append(z, c)) = c
<1>1. Len(z) \in Nat \ {0} /\ Last(z) = z[Len(z)] /\ z \in Seq(OnDisk)
  BY ChainElements DEF IsChain
<1>2. Last(z) \in ClustersOf(z) /\ Last(z) \in OnDisk
  BY <1>1, ChainElements
<1>3. fat[Last(z)] = FAT32_END_CLUSTER
  BY <1>1 DEF IsChain
<1>4. Append(z, c) \in Seq(OnDisk) /\ Len(Append(z, c)) = Len(z) + 1 /\ Append(z, c)[Len(z) + 1] = c
  BY <1>1, AppendElements
<1>5. Last(Append(z, c)) = Append(z, c)[Len(Append(z, c))]
  BY DEF Last
<1>6. QED
  BY <1>2, <1>3, <1>4, <1>5

\* The chain of a file has grown by a cluster, and the cursor stands at its begin.
Extends(g, f, z, c) ==
    /\ SameEntry(g, f) /\ g.start_cluster = f.start_cluster /\ g.file_size = f.file_size
    /\ g.position = f.position /\ f.position = Len(z) * CellsPerCluster
    /\ g.last_cluster = c /\ g.current_cluster = c /\ g.cluster_position = 0

LEMMA ExtendedHandle ==
  ASSUME NEW fat, TableOK(fat), NEW f \in SoundFile, ChainOfHandle(fat, f), f.start_cluster # 0,
         NEW z, z = Chain(fat, f.start_cluster), NEW c \in OnDisk,
         NEW g, Extends(g, f, z, c), NEW new, TableOK(new), Begins(new, f.start_cluster),
         Chain(new, f.start_cluster) = Append(z, c)
  PROVE  ChainOfHandle(new, g)
<1> DEFINE y == Append(z, c)
           C == CellsPerCluster
<1>1. IsChain(fat, z) /\ Len(z) \in Nat \ {0} /\ C \in Nat \ {0} /\ f.position \in Nat /\ f.file_size \in Nat
  BY CursorIs, Sizes DEF SoundFile
<1>2. Len(y) = Len(z) + 1 /\ y[Len(z) + 1] = c /\ Last(y) = c
  BY <1>1, LastElement
<1>3. StartOK(fat, f.start_cluster) /\ f.file_size <= Len(z) * C /\ f.position <= f.file_size
  BY DEF ChainOfHandle, Room
<1>4. StartOK(new, g.start_cluster)
  BY <1>3 DEF StartOK, Extends
<1>5. Len(z) * C \in Nat /\ Len(y) * C = Len(z) * C + C
  <2>1. \A x \in Nat : (x + 1) * C = x * C + C /\ x * C \in Nat
    BY <1>1
  <2>2. QED
    BY <1>1, <1>2, <2>1
<1> HIDE DEF y
<1>6. Chain(new, g.start_cluster) = y /\ Room(new, g.start_cluster) = Len(y) * C
  BY DEF Extends, Room, y
<1>7. g.file_size <= Len(y) * C /\ g.position <= g.file_size /\ g.position <= Len(y) * C
  BY <1>1, <1>3, <1>5 DEF Extends
<1>8. g.last_cluster = LastOf(new, g.start_cluster)
  BY <1>2, <1>6 DEF LastOf, Extends
<1>9. AtCell(g, y, Len(z), 0)
  <2>1. Len(z) \in 0 .. Len(y) /\ 0 \in 0 .. C - 1 /\ Len(z) < Len(y) /\ Len(z) * C + 0 = Len(z) * C
    BY <1>1, <1>2, <1>5
  <2>2. Nth(y, Len(z)) = c
    BY <1>2, <2>1 DEF Nth
  <2>3. g.position = Len(z) * C + 0 /\ g.current_cluster = c /\ g.cluster_position = 0
    BY <2>1 DEF Extends
  <2>4. QED
    BY <2>1, <2>2, <2>3 DEF AtCell
<1>10. Placed(g, y)
  BY <1>1, <1>2, <1>7, <1>9, PlacedCell
<1>11. QED
  BY <1>4, <1>6, <1>7, <1>8, <1>10 DEF ChainOfHandle

Grown(t, u, k, fd, f, z, g, c) ==
    /\ f = k.open[fd] /\ f.start_cluster # 0 /\ z = Chain(k.fat, f.start_cluster)
    /\ Good(u) /\ u.open = k.open /\ Took(u, k, Last(z), c) /\ Extends(g, f, z, c)
    /\ Good(t) /\ Alike(t, u) /\ t.open = Reopened(u.open, fd, g)

LEMMA GrownHolds ==
  ASSUME NEW k, NEW fd \in Fd, Holds(k, fd), NEW f, NEW z, NEW c, NEW u, NEW g, NEW t,
         Grown(t, u, k, fd, f, z, g, c)
  PROVE  Holds(t, fd) /\ t.open[fd] = g
<1> DEFINE m == k.disk.cluster
           n == u.disk.cluster
           o == Without1(k.open, fd)
           s == f.start_cluster
<1>0. /\ f = k.open[fd] /\ f.start_cluster # 0 /\ z = Chain(k.fat, f.start_cluster)
      /\ Good(u) /\ u.open = k.open /\ Took(u, k, Last(z), c) /\ Extends(g, f, z, c)
      /\ Good(t) /\ Alike(t, u) /\ t.open = Reopened(u.open, fd, g)
  BY DEF Grown
<1> USE <1>0
<1>1. Fine(k) /\ Firm(k) /\ f \in SoundFile /\ TableOK(k.fat) /\ k.fat \in Table
      /\ HandlesOK(m, k.fat, k.open) /\ k.open \in [Fd -> SoundFile]
  BY FirmIs DEF Holds, Fine
<1>2. EntryOfHandle(m, f) /\ ChainOfHandle(k.fat, f)
  BY <1>1 DEF HandlesOK, HandleOK, Holds
<1>3. IsChain(k.fat, z) /\ Begins(k.fat, s)
  <2>1. Begins(k.fat, s)
    BY <1>2 DEF ChainOfHandle, StartOK
  <2>2. QED
    BY <1>1, <2>1, ChainFrom
<1>4. CanGive(k.fat, Last(z), c) /\ c \in OnDisk /\ u.fat = Given(k.fat, Last(z), c)
  BY DEF Took, CanGive
<1>5. Last(z) \in ClustersOf(z) /\ Last(z) \in OnDisk /\ IsCluster(Last(z))
  BY <1>1, <1>3, <1>4, LastElement, ClustersOnDisk
<1>6. Firm(u) /\ SamePlaces(n, m)
  BY <1>1, TookSound
<1>7. /\ TableOK(u.fat) /\ u.fat \in Table /\ Begins(u.fat, s) /\ Chain(u.fat, s) = Append(z, c)
      /\ \A x : Begins(k.fat, x) /\ x # s => Begins(u.fat, x) /\ Chain(u.fat, x) = Chain(k.fat, x)
  <2>1. TableOK(u.fat) /\ u.fat \in Table
    BY <1>6, FirmIs
  <2>2. Begins(u.fat, s) /\ Chain(u.fat, s) = Append(z, c)
    BY <1>1, <1>3, <1>4, <1>5, GivenChains
  <2>3. Frame(u, k, s)
    BY <1>1, <1>3, <1>5, TookFrame DEF Owned
  <2>4. QED
    BY <2>1, <2>2, <2>3 DEF Frame
<1>8. HandlesOK(n, u.fat, o)
  <2>1. \A h \in Fd : Live(o[h]) =>
           /\ o[h] = k.open[h] /\ o[h].dir_entry \in Places(m)
           /\ o[h].start_cluster # 0 => Begins(k.fat, o[h].start_cluster) /\ o[h].start_cluster # s
    <3>1. SUFFICES ASSUME NEW h \in Fd, Live(o[h])
                   PROVE  /\ o[h] = k.open[h] /\ o[h].dir_entry \in Places(m)
                          /\ o[h].start_cluster # 0 => Begins(k.fat, o[h].start_cluster) /\ o[h].start_cluster # s
      OBVIOUS
    <3>2. o[h] = k.open[h] /\ HandleOK(m, k.fat, k.open[h])
          /\ (k.open[h].start_cluster # 0 => k.open[h].start_cluster # s)
      BY <3>1, OtherHandles
    <3>3. QED
      BY <3>2 DEF HandleOK, EntryOfHandle, ChainOfHandle, StartOK
  <2>2. Places(n) = Places(m) /\ \A a \in Places(m) : At(n, a) = At(m, a)
    BY <1>6 DEF SamePlaces
  <2>3. /\ HandlesOK(m, k.fat, k.open) /\ k.fat \in Table /\ u.fat \in Table
        /\ \A x : Begins(k.fat, x) /\ x # s => Begins(u.fat, x) /\ Chain(u.fat, x) = Chain(k.fat, x)
    BY <1>1, <1>7
  <2> HIDE DEF m, n, o, s
  <2>4. \A h \in Fd : Live(o[h]) => o[h] = k.open[h]
    BY <2>1
  <2>5. \A h \in Fd : Live(o[h]) =>
            /\ o[h].dir_entry \in Places(n)
            /\ At(n, o[h].dir_entry).dir = At(m, o[h].dir_entry).dir
            /\ At(n, o[h].dir_entry).start = At(m, o[h].dir_entry).start
            /\ o[h].start_cluster # 0 =>
                  /\ Begins(u.fat, o[h].start_cluster)
                  /\ Chain(u.fat, o[h].start_cluster) = Chain(k.fat, o[h].start_cluster)
    BY <2>1, <2>2, <2>3
  <2>6. \A h \in Fd, b \in Places(n) :
            Live(o[h]) /\ o[h].start_cluster # 0 /\ At(n, b).start = o[h].start_cluster
               => b \in Places(m) /\ At(m, b).start = o[h].start_cluster
    BY <2>2
  <2>7. QED
    BY <2>3, <2>4, <2>5, <2>6, HandlesFrame
<1>9. HandleOK(n, u.fat, g)
  <2>1. EntryOfHandle(n, g)
    BY <1>2, <1>6 DEF EntryOfHandle, Extends, SameEntry, SamePlaces
  <2>2. ChainOfHandle(u.fat, g)
    BY <1>1, <1>2, <1>4, <1>7, ExtendedHandle
  <2>3. QED
    BY <2>1, <2>2 DEF HandleOK
<1>10. Agrees(o, fd, g)
  <2>1. SUFFICES ASSUME NEW h \in Fd, Live(o[h]), g.start_cluster # 0, o[h].start_cluster = g.start_cluster
                 PROVE  FALSE
    BY DEF Agrees
  <2>2. o[h] = k.open[h] /\ (k.open[h].start_cluster # 0 => k.open[h].start_cluster # s)
    BY <2>1, OtherHandles
  <2>3. QED
    BY <2>1, <2>2 DEF Extends
<1>11. Reopened(o, fd, g) = Reopened(k.open, fd, g) /\ o \in [Fd -> SoundFile]
  BY <1>1, ClosedFileOK DEF Reopened, Without1
<1>12. HandlesOK(n, u.fat, Reopened(o, fd, g))
  <2> HIDE DEF o, n
  <2>1. QED
    BY <1>8, <1>9, <1>10, <1>11, ReopenedHandles
<1>13. Fine(t)
  BY <1>6, <1>11, <1>12 DEF Fine, Firm, Alike
<1>14. SameEntry(g, k.open[fd]) /\ t.open = Reopened(k.open, fd, g)
  BY DEF Extends
<1>15. QED
  BY <1>13, <1>14, HeldOn

\* What both ways of taking a further cluster come to.
LEMMA GrowDoes ==
  ASSUME NEW k, NEW fd \in Fd, Holds(k, fd), NEW f, f = k.open[fd], f.start_cluster # 0,
         NEW z, z = Chain(k.fat, f.start_cluster), NEW u, u = fat32_allocate_cluster(k, Last(z)),
         NEW g, Good(u) /\ u.ret # 0 => Extends(g, f, z, u.ret),
         NEW t, Good(t), t = IF u.ret = 0 THEN Failing(u) ELSE Taking(u, fd, g)
  PROVE  /\ Turns(t, fd) /\ Carries(t, k, fd)
         /\ t.ret = 0 => /\ Holds(t, fd) /\ t.open[fd] = g /\ Extends(g, f, z, u.ret) /\ u.ret \in OnDisk
<1>1. Fine(k) /\ Firm(k) /\ f \in SoundFile /\ TableOK(k.fat)
  BY FirmIs DEF Holds, Fine
<1>2. IsChain(k.fat, z)
  <2>1. ChainOfHandle(k.fat, f)
    BY <1>1 DEF HandlesOK, HandleOK, Holds, Fine
  <2>2. Begins(k.fat, f.start_cluster)
    BY <2>1 DEF ChainOfHandle, StartOK
  <2>3. QED
    BY <1>1, <2>2, ChainFrom
<1>3. Last(z) \in OnDisk /\ k.fat[Last(z)] = FAT32_END_CLUSTER
  <2>1. Len(z) \in Nat \ {0} /\ Last(z) = z[Len(z)] /\ \A i \in 1 .. Len(z) : z[i] \in OnDisk
    BY <1>1, <1>2, ChainElements
  <2>2. Len(z) \in 1 .. Len(z)
    <3>1. \A n \in Nat \ {0} : n \in 1 .. n
      OBVIOUS
    <3>2. QED
      BY <2>1, <3>1, Zenon
  <2>3. k.fat[z[Len(z)]] = FAT32_END_CLUSTER
    BY <1>2 DEF IsChain
  <2>4. QED
    BY <2>1, <2>2, <2>3
<1>4. Good(u) /\ Kept(u, k) /\ Allocated("write", u, k, Last(z))
  BY <1>1, <1>3, AllocateDoes
<1>5. u.open = k.open
  BY <1>4 DEF Kept
<1>6. CASE u.ret = 0
  <2>1. Turns(t, fd) /\ t.ret # 0 /\ GaveUp(t)
    BY <1>4, <1>6, NoneToBeHad
  <2>2. QED
    BY <2>1 DEF Carries
<1>7. CASE u.ret # 0
  <2>1. Took(u, k, Last(z), u.ret)
    BY <1>4, <1>7, OneToBeHad
  <2>2. t.open = Reopened(u.open, fd, g) /\ Alike(t, u) /\ t.ret = 0 /\ t.hit = u.hit
    <3>1. t = Taking(u, fd, g) /\ Running(u)
      BY <1>4, <1>7 DEF Good
    <3>2. QED
      BY <3>1, TakingIs
  <2>3. Extends(g, f, z, u.ret)
    BY <1>4, <1>7
  <2>4. Holds(t, fd) /\ t.open[fd] = g
    <3>1. Grown(t, u, k, fd, f, z, g, u.ret)
      BY <1>4, <1>5, <2>1, <2>2, <2>3 DEF Grown
    <3>2. QED
      BY <3>1, GrownHolds
  <2>5. u.ret \in OnDisk
    BY <2>1 DEF Took, CanGive
  <2>6. g.start_cluster = f.start_cluster
    BY <2>3 DEF Extends
  <2>7. HasOwner(k.disk.cluster, k.fat, {f.start_cluster}, Last(z))
    <3>1. Begins(k.fat, f.start_cluster)
      <4>1. ChainOfHandle(k.fat, f)
        BY <1>1 DEF HandlesOK, HandleOK, Holds, Fine
      <4>2. QED
        BY <4>1 DEF ChainOfHandle, StartOK
    <3>2. Last(z) \in Owned(k.fat, f.start_cluster)
      BY <1>1, <1>2, <2>5, LastElement DEF Owned
    <3>3. QED
      BY <3>1, <3>2 DEF HasOwner
  <2>8. /\ Untouched(u) => Untouched(k)
        /\ Whole(k.disk.cluster, k.fat, {f.start_cluster}) => Whole(u.disk.cluster, u.fat, {f.start_cluster})
    <3>1. IsCluster(Last(z)) /\ Later(u, k)
      BY <1>3, <1>4, ClustersOnDisk DEF Kept
    <3>2. QED
      BY <1>1, <1>4, <2>1, <2>7, <3>1, TookWhole
  <2>9. Carries(t, k, fd)
    BY <2>2, <2>4, <2>6, <2>8 DEF Carries, Bears, Alike, Untouched
  <2>10. QED
    BY <2>3, <2>4, <2>5, <2>9 DEF Turns
<1>8. QED
  BY <1>6, <1>7

\* All is well, and the cursor is in a cluster.
Into(t, k, fd) ==
    /\ Turns(t, fd) /\ t.data = k.data /\ Continues(t, k, fd)
    /\ t.ret = 0 => Holds(t, fd) /\ t.open[fd].start_cluster # 0 /\ t.open[fd].current_cluster \in OnDisk

LEMMA ClusterAfterEndDoes ==
  ASSUME NEW k, NEW fd \in Fd, Turns(k, fd), k.ret = 0 => Holds(k, fd) /\ k.open[fd].start_cluster # 0,
         NEW t, t = ClusterAfterEnd(k, fd)
  PROVE  Into(t, k, fd)
<1> DEFINE f == k.open[fd]
           s == f.start_cluster
           z == Chain(k.fat, s)
           u == fat32_allocate_cluster(k, IF f.last_cluster >= 2 THEN f.last_cluster ELSE s)
           c == u.ret
           d == IF IsCluster(f.last_cluster) THEN c ELSE s
           g == [f EXCEPT !.last_cluster = c, !.cluster_position = 0, !.current_cluster = d]
<1>1. t = IF k.ret # 0 \/ IsCluster(f.current_cluster) THEN k
          ELSE IF c = 0 THEN Failing(u) ELSE Taking(u, fd, g)
  BY DEF ClusterAfterEnd, Taking
<1>2. CASE k.ret # 0
  BY <1>1, <1>2, ContinuesItself DEF Into
<1>3. CASE k.ret = 0
  <2>1. Holds(k, fd) /\ s # 0 /\ Fine(k) /\ Firm(k) /\ f \in SoundFile /\ TableOK(k.fat)
        /\ HandlesOK(k.disk.cluster, k.fat, k.open)
    BY <1>3, FirmIs DEF Holds, Fine
  <2>2. ChainOfHandle(k.fat, f)
    BY <2>1 DEF HandlesOK, HandleOK, Holds
  <2>3. /\ IsChain(k.fat, z) /\ Len(z) \in Nat \ {0}
        /\ \/ \E q, r : AtCell(f, z, q, r)
           \/ \E q : AtEdge(f, z, q)
    BY <2>1, <2>2, CursorIs
  <2>4. f.last_cluster = Last(z)
    BY <2>1, <2>2 DEF ChainOfHandle, LastOf
  <2>5. \A i \in 1 .. Len(z) : z[i] \in OnDisk /\ IsCluster(z[i])
    BY <2>1, <2>3, ChainElements, ClustersOnDisk
  <2>6. \/ f.current_cluster \in OnDisk
        \/ f.current_cluster = FAT32_END_CLUSTER /\ f.position = Len(z) * CellsPerCluster
    <3>1. CASE \E q : AtEdge(f, z, q)
      BY <2>5, <3>1 DEF AtEdge
    <3>2. ASSUME NEW q, NEW r, AtCell(f, z, q, r) PROVE <2>6
      <4>1. CASE q < Len(z)
        <5>1. q + 1 \in 1 .. Len(z) /\ f.current_cluster = z[q + 1]
          BY <2>3, <3>2, <4>1 DEF AtCell, Nth
        <5>2. QED
          BY <2>5, <5>1
      <4>2. CASE ~(q < Len(z))
        <5>1. q = Len(z) /\ f.current_cluster = FAT32_END_CLUSTER /\ f.position = Len(z) * CellsPerCluster + r
          BY <2>3, <3>2, <4>2 DEF AtCell, Nth
        <5>2. f.position <= Len(z) * CellsPerCluster /\ r \in Nat /\ Len(z) * CellsPerCluster \in Nat
          <6>1. f.position <= f.file_size /\ f.file_size <= Len(z) * CellsPerCluster
            BY <2>2 DEF ChainOfHandle, Room
          <6>2. r \in Nat /\ CellsPerCluster \in Nat
            BY <3>2, Sizes DEF AtCell
          <6>3. f.position \in Nat /\ f.file_size \in Nat
            BY <2>1 DEF SoundFile
          <6>4. \A x \in Nat : x * CellsPerCluster \in Nat
            BY <6>2
          <6>5. Len(z) * CellsPerCluster \in Nat
            BY <2>3, <6>4
          <6>6. QED
            BY <6>1, <6>2, <6>3, <6>5
        <5>3. \A x \in Nat : x + r <= x => x + r = x
          BY <5>2
        <5>4. QED
          BY <5>1, <5>2, <5>3
      <4>3. QED
        BY <4>1, <4>2
    <3>3. QED
      BY <2>3, <3>1, <3>2
  <2>7. CASE f.current_cluster \in OnDisk
    <3>1. IsCluster(f.current_cluster)
      BY <2>7, ClustersOnDisk
    <3>2. QED
      BY <1>1, <1>3, <2>1, <2>7, <3>1, ContinuesItself DEF Into
  <2>8. CASE f.current_cluster = FAT32_END_CLUSTER /\ f.position = Len(z) * CellsPerCluster
    <3>1. t = IF c = 0 THEN Failing(u) ELSE Taking(u, fd, g)
      BY <1>1, <1>3, <2>8, ClustersOnDisk
    <3>2. Last(z) = z[Len(z)] /\ IsCluster(f.last_cluster)
      <4>1. Last(z) = z[Len(z)] /\ Len(z) \in 1 .. Len(z)
        BY <2>3 DEF Last
      <4>2. QED
        BY <2>4, <2>5, <4>1
    <3>3. u = fat32_allocate_cluster(k, Last(z)) /\ d = c
      <4>1. f.last_cluster >= 2
        BY <3>2 DEF IsCluster
      <4>2. QED
        BY <2>4, <3>2, <4>1
    <3>4. Extends(g, f, z, c) /\ g.start_cluster = s
      <4> HIDE DEF c, d, z
      <4>1. QED
        BY <2>1, <2>8, <3>3 DEF Extends, SameEntry, SoundFile
    <3>5. Good(t) /\ t.data = k.data
      <4>1. k.open[fd].start_cluster >= 2
        BY <2>1, <2>2 DEF ChainOfHandle, StartOK, Begins, OnDisk
      <4>2. Good(k)
        BY DEF Turns
      <4>3. QED
        BY <4>1, <4>2, ClusterAfterEndOK DEF Placing
    <3> HIDE DEF g, z, f, u
    <3>6. f = k.open[fd] /\ z = Chain(k.fat, f.start_cluster) /\ f.start_cluster # 0
      BY <2>1 DEF f, z
    <3>7. /\ Turns(t, fd) /\ Carries(t, k, fd)
          /\ t.ret = 0 => Holds(t, fd) /\ t.open[fd] = g /\ Extends(g, f, z, u.ret) /\ u.ret \in OnDisk
      BY <2>1, <3>1, <3>3, <3>4, <3>5, <3>6, GrowDoes
    <3>8. Continues(t, k, fd)
      BY <1>3, <3>7 DEF Continues
    <3>9. QED
      BY <2>1, <3>4, <3>5, <3>7, <3>8 DEF Into, Extends
  <2>9. QED
    BY <2>6, <2>7, <2>8
<1>4. QED
  BY <1>2, <1>3

\* All is well, and the cursor is in front of a cell.
Before(t, k, fd) == Into(t, k, fd) /\ (t.ret = 0 => t.open[fd].cluster_position < CellsPerCluster)

LEMMA NextClusterDoes ==
  ASSUME NEW b, NEW k, NEW fd \in Fd, Into(k, b, fd), NEW t, t = NextCluster(k, fd)
  PROVE  Before(t, b, fd)
<1> DEFINE f == k.open[fd]
           s == f.start_cluster
           z == Chain(k.fat, s)
           next == k.fat[f.current_cluster]
           h == [f EXCEPT !.current_cluster = next, !.cluster_position = 0]
           u == fat32_allocate_cluster(k, f.current_cluster)
           c == u.ret
           g == [f EXCEPT !.last_cluster = c, !.current_cluster = c, !.cluster_position = 0]
<1>1. t = IF k.ret # 0 \/ f.cluster_position < CellsPerCluster THEN k
          ELSE IF IsCluster(next) THEN [k EXCEPT !.open[fd] = h]
          ELSE IF c = 0 THEN Failing(u) ELSE Taking(u, fd, g)
  BY DEF NextCluster, Taking
<1>2. Turns(k, fd) /\ Good(k) /\ k.data = b.data
  BY DEF Into, Turns
<1>3. CASE k.ret # 0 \/ f.cluster_position < CellsPerCluster
  BY <1>1, <1>2, <1>3 DEF Before, Into
<1>4. CASE ~(k.ret # 0 \/ f.cluster_position < CellsPerCluster)
  <2>1. Holds(k, fd) /\ s # 0 /\ f.current_cluster \in OnDisk /\ Fine(k) /\ Firm(k) /\ f \in SoundFile
        /\ TableOK(k.fat) /\ HandlesOK(k.disk.cluster, k.fat, k.open) /\ Live(f)
    BY <1>4, FirmIs DEF Into, Holds, Fine
  <2>2. Good(t) /\ t.data = b.data
    <3>1. f.current_cluster \in Number
      BY <2>1, ClustersOnDisk
    <3>2. QED
      BY <1>2, <3>1, NextClusterOK
  <2>3. ChainOfHandle(k.fat, f)
    BY <2>1 DEF HandlesOK, HandleOK
  <2>4. /\ IsChain(k.fat, z) /\ Len(z) \in Nat \ {0}
        /\ \/ \E q, r : AtCell(f, z, q, r)
           \/ \E q : AtEdge(f, z, q)
    BY <2>1, <2>3, CursorIs
  <2>5. PICK q : AtEdge(f, z, q)
    <3>1. ASSUME NEW q, NEW r, AtCell(f, z, q, r) PROVE FALSE
      BY <1>4, <3>1, Sizes DEF AtCell
    <3>2. QED
      BY <2>4, <3>1
  <2>6. q \in 1 .. Len(z) /\ f.position = q * CellsPerCluster /\ f.current_cluster = z[q]
    BY <2>5 DEF AtEdge
  <2>7. next = Nth(z, q)
    BY <2>1, <2>4, <2>6, NextNth
  <2>8. CellsPerCluster \in Nat /\ 0 < CellsPerCluster
    BY Sizes
  <2>9. CASE q < Len(z)
    <3>1. q + 1 \in 1 .. Len(z) /\ next = z[q + 1]
      BY <2>4, <2>6, <2>7, <2>9 DEF Nth
    <3>2. next \in OnDisk /\ IsCluster(next) /\ next \in Link
      BY <2>1, <2>4, <3>1, ChainElements, ClustersOnDisk DEF Link
    <3> HIDE DEF next, z
    <3>3. t = [k EXCEPT !.open[fd] = h]
      BY <1>1, <1>4, <3>2
    <3>4. h \in SoundFile /\ SameFile(h, f) /\ h.file_size = f.file_size /\ h.position = f.position
          /\ h.current_cluster = next /\ h.cluster_position = 0
      <4>1. 0 \in 0 .. CellsPerCluster
        BY <2>8
      <4>2. QED
        BY <2>1, <3>2, <4>1 DEF SoundFile, SameFile
    <3> HIDE DEF h
    <3>5. t.open = Reopened(k.open, fd, h) /\ Same(t, k) /\ t.ret = k.ret
      <4>1. HasOpened(t, k, fd, h)
        BY <1>2, <3>3, <3>4, WithHandle
      <4>2. QED
        BY <4>1 DEF HasOpened
    <3>6. Alike(t, k)
      BY <3>5 DEF Same, Alike
    <3>7. ChainOfHandle(k.fat, h)
      <4>1. AtCell(h, z, q, 0)
        <5>1. q \in 0 .. Len(z) /\ 0 \in 0 .. CellsPerCluster - 1
          BY <2>6, <2>4, <2>8
        <5>2. h.position = q * CellsPerCluster + 0
          <6>1. q \in Nat
            BY <2>4, <5>1
          <6>2. q * CellsPerCluster + 0 = q * CellsPerCluster
            BY <2>8, <6>1
          <6>3. QED
            BY <2>6, <3>4, <6>2
        <5>3. QED
          BY <2>7, <3>4, <5>1, <5>2 DEF AtCell
      <4>2. f.position <= f.file_size /\ f.file_size <= Len(z) * CellsPerCluster
        BY <2>3 DEF ChainOfHandle, Room, z
      <4>3. h.position <= Len(z) * CellsPerCluster
        <5>1. f.position \in Nat /\ f.file_size \in Nat
          BY <2>1 DEF SoundFile
        <5>2. \A x \in Nat : x * CellsPerCluster \in Nat
          BY <2>8
        <5>3. Len(z) * CellsPerCluster \in Nat
          BY <2>4, <5>2
        <5>4. QED
          BY <3>4, <4>2, <5>1, <5>3
      <4>4. Placed(h, z)
        BY <2>4, <4>1, <4>3, PlacedCell
      <4>5. QED
        BY <2>3, <3>4, <4>4 DEF ChainOfHandle, SameFile, z
    <3>8. Fine(t)
      BY <2>1, <2>2, <3>4, <3>5, <3>6, <3>7, MovedFine
    <3>9. Holds(t, fd) /\ t.open[fd] = h
      <4>1. SameEntry(h, k.open[fd])
        BY <3>4 DEF SameFile, SameEntry
      <4>2. QED
        BY <2>1, <3>5, <3>8, <4>1, HeldOn
    <3>10. Continues(t, b, fd)
      <4>1. k.ret = 0 /\ t.ret = 0 /\ t.hit = k.hit
        BY <1>4, <3>5 DEF Same
      <4>2. h.start_cluster = f.start_cluster
        BY <3>4 DEF SameFile
      <4>3. Continues(t, k, fd)
        BY <3>6, <3>9, <4>1, <4>2 DEF Continues, Carries, Bears, Alike, Untouched
      <4>4. QED
        BY <4>3, ContinuesOn DEF Into
    <3>11. QED
      BY <2>1, <2>2, <2>8, <3>2, <3>4, <3>9, <3>10 DEF Before, Into, Turns, SameFile
  <2>10. CASE ~(q < Len(z))
    <3>1. q = Len(z) /\ next = FAT32_END_CLUSTER
      BY <2>4, <2>6, <2>7, <2>10 DEF Nth
    <3>2. t = IF c = 0 THEN Failing(u) ELSE Taking(u, fd, g)
      BY <1>1, <1>4, <3>1, ClustersOnDisk
    <3>3. u = fat32_allocate_cluster(k, Last(z))
      BY <2>6, <3>1 DEF Last
    <3>4. Extends(g, f, z, c) /\ g.start_cluster = s
      <4> HIDE DEF c, z
      <4>1. QED
        BY <2>1, <2>6, <3>1 DEF Extends, SameEntry, SoundFile
    <3> HIDE DEF g, z, f, u
    <3>6. f = k.open[fd] /\ z = Chain(k.fat, f.start_cluster) /\ f.start_cluster # 0
      BY <2>1 DEF f, z
    <3>7. /\ Turns(t, fd) /\ Carries(t, k, fd)
          /\ t.ret = 0 => Holds(t, fd) /\ t.open[fd] = g /\ Extends(g, f, z, u.ret) /\ u.ret \in OnDisk
      BY <2>1, <2>2, <3>2, <3>3, <3>4, <3>6, GrowDoes
    <3>8. Continues(t, b, fd)
      <4>1. Continues(t, k, fd)
        BY <1>4, <3>7 DEF Continues
      <4>2. QED
        BY <4>1, ContinuesOn DEF Into
    <3>9. QED
      BY <2>1, <2>2, <2>8, <3>4, <3>7, <3>8 DEF Before, Into, Extends
  <2>11. QED
    BY <2>9, <2>10
<1>5. QED
  BY <1>3, <1>4

LEMMA SamePlacesHandles ==
  ASSUME NEW m, NEW fat, NEW o, HandlesOK(m, fat, o), NEW n, SamePlaces(n, m)
  PROVE  HandlesOK(n, fat, o)
<1>1. ASSUME NEW fd \in Fd, Live(o[fd]) PROVE HandleOK(n, fat, o[fd])
  <2>1. EntryOfHandle(m, o[fd]) /\ ChainOfHandle(fat, o[fd])
    BY <1>1 DEF HandlesOK, HandleOK
  <2>2. EntryOfHandle(n, o[fd])
    BY <2>1 DEF EntryOfHandle, SamePlaces
  <2>3. QED
    BY <2>1, <2>2 DEF HandleOK
<1>2. QED
  BY <1>1 DEF HandlesOK

\* A cluster of the file gets bytes, or stays as it is.
Filled(t, k, fd) ==
    /\ Good(t) /\ t.data = k.data /\ t.ret = k.ret /\ t.open = k.open /\ t.fat = k.fat
    /\ Holds(t, fd) \/ Rest(t)
    /\ t.ok => Holds(t, fd)
    /\ ~t.ok => t.hit # << >>
    /\ Keeps(t, k)

LEMMA BytesWritten ==
  ASSUME NEW k, NEW fd \in Fd, Holds(k, fd), NEW s, s = k.open[fd].start_cluster, s # 0,
         NEW c, c \in Owned(k.fat, s), NEW cells \in Cluster,
         \A i \in 1 .. CellsPerCluster : cells[i].kind = "byte" \/ cells[i] = k.disk.cluster[c][i],
         NEW t, t = fat32_write_cluster(k, c, cells, <<"data">>)
  PROVE  Filled(t, k, fd)
<1> DEFINE m == k.disk.cluster
           n == t.disk.cluster
           f == k.open[fd]
<1>1. Fine(k) /\ Firm(k) /\ Good(k) /\ Running(k) /\ TableOK(k.fat) /\ m \in Map /\ Sound(m, k.fat)
      /\ HandlesOK(m, k.fat, k.open) /\ ~k.dead /\ ~k.off /\ k.fat = k.disk.fat[1] /\ Live(f)
  BY FirmIs DEF Holds, Fine, Firm, Good
<1>2. HandleOK(m, k.fat, f)
  BY <1>1 DEF HandlesOK
<1>3. Begins(k.fat, s)
  BY <1>2 DEF HandleOK, ChainOfHandle, StartOK
<1>4. c \in OnDisk
  BY <1>1, <1>3, OwnedTaken
<1>5. <<"data">> \in Hit /\ <<"data">> # << >>
  BY DEF Hit
<1>6. Follows(t, k) /\ t.ret = k.ret /\ t.ok \in BOOLEAN /\ Wrote(t, k, c, cells, <<"data">>)
  <2>1. Running(k) /\ (c \in OnDisk => cells \in Cluster) /\ c \in OnDisk
    BY <1>1, <1>4
  <2>2. PICK what : what = <<"data">>
    OBVIOUS
  <2>3. t = fat32_write_cluster(k, c, cells, what) /\ what \in Hit /\ what # << >>
    BY <1>5, <2>2
  <2>4. Follows(t, k) /\ t.ret = k.ret /\ t.ok \in BOOLEAN /\ (c \in OnDisk => Wrote(t, k, c, cells, what))
    BY <2>1, <2>3, WriteClusterOK
  <2>5. QED
    BY <2>1, <2>2, <2>4
<1>7. Good(t) /\ t.data = k.data /\ t.open = k.open /\ t.fat = k.fat /\ t.disk.fat = k.disk.fat /\ t.off = k.off
  BY <1>1, <1>6, FollowsGood DEF Follows, Kept
<1>8. \/ t.disk = k.disk
      \/ ~t.dead /\ n = Refilled(m, c, cells)
  BY <1>6 DEF Wrote
<1>9. (t.ok => ~t.dead) /\ (~t.ok => t.hit # << >>)
  BY <1>1, <1>5, <1>6 DEF Wrote, Transferred
<1>10. Untouched(t) => Untouched(k)
  BY <1>1, <1>6 DEF Untouched, Follows, Kept, Later
<1>11. CASE t.dead
  <2>1. t.disk = k.disk
    BY <1>8, <1>11
  <2>2. Keeps(t, k)
    BY <1>7, <1>10, <2>1 DEF Keeps
  <2>3. QED
    BY <1>1, <1>6, <1>7, <1>9, <1>11, <2>1, <2>2 DEF Rest, Filled
<1>12. CASE ~t.dead
  <2>1. SamePlaces(n, m) /\ Sound(n, k.fat)
    <3>1. CASE t.disk = k.disk
      BY <1>1, <3>1 DEF SamePlaces
    <3>2. CASE n = Refilled(m, c, cells)
      <4>1. \A h \in Heads(m) : c \notin Owned(k.fat, h)
        <5>1. SUFFICES ASSUME NEW h \in Heads(m), c \in Owned(k.fat, h) PROVE FALSE
          OBVIOUS
        <5>2. s # h
          BY <1>2, <5>1, HandleIsNoHead
        <5>3. Begins(k.fat, h)
          BY <1>1, <5>1, HeadsBegin
        <5>4. QED
          BY <1>1, <1>3, <5>1, <5>2, <5>3, OwnedApart
      <4>2. \A a \in Places(m) : a[1] # c
        <5> HIDE DEF m
        <5>1. QED
          BY <1>1, <4>1, NoPlaceIn
      <4>3. ASSUME NEW i \in 1 .. CellsPerCluster PROVE ~IsListed(cells[i]) /\ LfnOK(cells[i])
        <5>1. CASE cells[i].kind = "byte"
          BY <5>1 DEF IsListed, LfnOK
        <5>2. CASE cells[i] = m[c][i]
          <6>1. <<c, i>> \in CellPlace /\ At(m, <<c, i>>) = cells[i] /\ <<c, i>>[1] = c
            BY <1>4, <5>2 DEF CellPlace, At
          <6>2. ~IsListed(cells[i])
            BY <4>2, <6>1 DEF Places
          <6>3. LfnOK(cells[i])
            BY <1>1, <6>1 DEF Sound
          <6>4. QED
            BY <6>2, <6>3
        <5>3. QED
          BY <5>1, <5>2
      <4> HIDE DEF m, n
      <4>4. QED
        BY <1>1, <1>4, <3>2, <4>1, <4>3, Aside
    <3>3. QED
      BY <1>8, <3>1, <3>2
  <2>2. Firm(t)
    BY <1>1, <1>7, <1>12, <2>1 DEF Firm
  <2>3. HandlesOK(n, k.fat, k.open)
    <3> HIDE DEF m, n
    <3>1. QED
      BY <1>1, <2>1, SamePlacesHandles
  <2>4. Fine(t)
    BY <1>7, <2>2, <2>3 DEF Fine
  <2>5. Keeps(t, k)
    BY <1>7, <1>10, <2>1, SameWhole DEF Keeps
  <2>6. QED
    BY <1>6, <1>7, <1>9, <2>4, <2>5 DEF Holds, Filled
<1>13. QED
  BY <1>11, <1>12

\* The cursor moves on behind what was written.
LEMMA AdvancedHandle ==
  ASSUME NEW fat, TableOK(fat), NEW f \in SoundFile, ChainOfHandle(fat, f), f.start_cluster # 0,
         f.current_cluster \in OnDisk, f.cluster_position < CellsPerCluster,
         NEW n \in Nat, f.cluster_position + n <= CellsPerCluster, NEW g, g = Advancing(f, n)
  PROVE  ChainOfHandle(fat, g) /\ SameFile(g, f) /\ f.current_cluster \in Owned(fat, f.start_cluster)
<1> DEFINE z == Chain(fat, f.start_cluster)
           C == CellsPerCluster
           p == f.cluster_position
           size == IF f.position + n > f.file_size THEN f.position + n ELSE f.file_size
<1>1. f.position \in Nat /\ f.file_size \in Nat /\ C \in Nat \ {0} /\ p \in Nat
  BY Sizes DEF SoundFile
<1>2. /\ IsChain(fat, z) /\ Len(z) \in Nat \ {0}
      /\ \/ \E q, r : AtCell(f, z, q, r)
         \/ \E q : AtEdge(f, z, q)
  BY CursorIs
<1>3. PICK q : AtCell(f, z, q, p)
  <2>1. ASSUME NEW q, AtEdge(f, z, q) PROVE FALSE
    BY <1>1, <2>1 DEF AtEdge
  <2>2. ASSUME NEW q, NEW r, AtCell(f, z, q, r) PROVE r = p
    BY <2>2 DEF AtCell
  <2>3. QED
    BY <1>2, <2>1, <2>2
<1>4. /\ SameFile(g, f) /\ g.current_cluster = f.current_cluster /\ g.cluster_position = p + n
      /\ g.position = f.position + n /\ g.file_size = size
  <2> HIDE DEF size
  <2>1. g = [f EXCEPT !.cluster_position = p + n, !.position = f.position + n, !.file_size = size]
    BY DEF Advancing, size
  <2>2. QED
    BY <2>1 DEF SoundFile, SameFile
<1> HIDE DEF z
<1>5. q \in 0 .. Len(z) - 1 /\ f.current_cluster = z[q + 1] /\ f.position = q * C + p
  <2>1. q \in 0 .. Len(z) /\ f.current_cluster = Nth(z, q) /\ f.position = q * C + p
    BY <1>3 DEF AtCell
  <2>2. q < Len(z)
    BY <2>1, ClustersOnDisk DEF Nth
  <2>3. QED
    BY <1>2, <2>1, <2>2 DEF Nth
<1>6. q \in Nat /\ q + 1 \in 1 .. Len(z)
  BY <1>2, <1>5
<1>7. f.current_cluster \in Owned(fat, f.start_cluster)
  BY <1>2, <1>5, <1>6, ChainElements DEF Owned, z
<1>8. q * C \in Nat /\ (q + 1) * C = q * C + C /\ (q + 1) * C <= Len(z) * C /\ Len(z) * C \in Nat
  <2>1. \A a, b \in Nat : a <= b => a * C \in Nat /\ b * C \in Nat /\ a * C <= b * C
    BY <1>1
  <2>2. \A a \in Nat : (a + 1) * C = a * C + C
    BY <1>1
  <2>3. q + 1 <= Len(z) /\ q + 1 \in Nat /\ Len(z) \in Nat /\ q <= q + 1
    BY <1>2, <1>6
  <2>4. QED
    BY <1>6, <2>1, <2>2, <2>3
<1>9. f.file_size <= Len(z) * C /\ f.position <= f.file_size
  BY DEF ChainOfHandle, Room, z
<1>10. g.position <= (q + 1) * C /\ g.position \in Nat /\ g.position <= Len(z) * C
  <2> HIDE DEF z, C
  <2>1. f.position + n = q * C + (p + n)
    BY <1>1, <1>5, <1>8
  <2>2. QED
    BY <1>1, <1>4, <1>8, <2>1 DEF C
<1>11. g.file_size <= Len(z) * C /\ g.position <= g.file_size
  BY <1>1, <1>4, <1>8, <1>9, <1>10
<1>12. Placed(g, z)
  <2>1. CASE p + n < C
    <3>1. AtCell(g, z, q, p + n)
      <4>1. p + n \in 0 .. C - 1 /\ q \in 0 .. Len(z)
        BY <1>1, <1>2, <1>5, <2>1
      <4>2. f.position + n = q * C + (p + n)
        BY <1>1, <1>5, <1>8
      <4>3. Nth(z, q) = z[q + 1]
        BY <1>5, <1>2 DEF Nth
      <4>4. QED
        BY <1>4, <1>5, <4>1, <4>2, <4>3 DEF AtCell
    <3>2. QED
      BY <1>2, <1>10, <3>1, PlacedCell
  <2>2. CASE ~(p + n < C)
    <3>1. p + n = C
      BY <1>1, <2>2
    <3>2. f.position + n = (q + 1) * C
      <4> DEFINE a == q * C
                 b == (q + 1) * C
                 x == f.position
      <4>1. a \in Nat /\ b = a + C /\ x = a + p
        BY <1>5, <1>8
      <4> HIDE DEF a, b, x
      <4>2. x + n = b
        BY <1>1, <3>1, <4>1
      <4>3. QED
        BY <4>2 DEF b, x
    <3>3. AtEdge(g, z, q + 1)
      BY <1>4, <1>5, <1>6, <3>1, <3>2 DEF AtEdge
    <3>4. QED
      BY <1>2, <3>3, PlacedEdge
  <2>3. QED
    BY <2>1, <2>2
<1>13. QED
  BY <1>4, <1>7, <1>11, <1>12 DEF ChainOfHandle, SameFile, Room, z

\* Holds, or what is lost: the end of a turn that failed.
LEMMA GivenUp ==
  ASSUME NEW k, Good(k), NEW fd \in Fd, Holds(k, fd) \/ Rest(k), k.hit # << >>, NEW t, t = Failing(k)
  PROVE  Turns(t, fd) /\ t.ret # 0 /\ GaveUp(t)
<1>1. Good(t) /\ Quiet(t, k) /\ t.ret # 0
  BY FailingQuiet
<1>2. GaveUp(t)
  BY <1>1 DEF Quiet, GaveUp, Untouched
<1>3. QED
  BY <1>1, <1>2, HoldsQuiet DEF Turns, Lost

LEMMA WriteTurnDoes ==
  ASSUME NEW k, NEW fd \in Fd, Holds(k, fd), k.ret = 0, NEW text \in Seq(Nat), Len(k.data) < Len(text),
         NEW t, t = WriteTurn(k, fd, text)
  PROVE  Turns(t, fd) /\ (t.ret = 0 => Holds(t, fd)) /\ Continues(t, k, fd)
<1> DEFINE u == FirstCluster(k, fd)
           v == ClusterAfterEnd(u, fd)
           h == NextCluster(v, fd)
           f == h.open[fd]
           c == f.current_cluster
           offset == f.cluster_position
           n == Least(Len(text) - Len(h.data), CellsPerCluster - offset)
           x == IF offset # 0 \/ n < CellsPerCluster THEN fat32_read_cluster(h, c)
                ELSE [h EXCEPT !.ok = TRUE]
           cells == [i \in 1 .. CellsPerCluster |->
                        IF i \in offset + 1 .. offset + n THEN Byte(text[Len(x.data) + i - offset])
                        ELSE x.disk.cluster[c][i]]
           y == fat32_write_cluster(x, c, cells, <<"data">>)
           more == SubSeq(text, Len(y.data) + 1, Len(y.data) + n)
           z == y.data \o more
           g == Advancing(y.open[fd], n)
<1>1. t = IF h.ret # 0 THEN h
          ELSE IF c \notin OnDisk THEN Failing(h)
          ELSE IF ~x.ok THEN Failing(x)
          ELSE IF ~y.ok THEN Failing(y) ELSE Turning(y, z, fd, g)
  BY DEF WriteTurn, Turning, Advancing
<1>2. Before(h, k, fd)
  <2>1. /\ Turns(u, fd) /\ (u.ret = 0 => Holds(u, fd) /\ u.open[fd].start_cluster # 0) /\ u.data = k.data
        /\ Continues(u, k, fd)
    BY FirstClusterDoes DEF Continues
  <2> HIDE DEF u
  <2>2. Into(v, u, fd)
    BY <2>1, ClusterAfterEndDoes
  <2>3. Into(v, k, fd)
    BY <2>1, <2>2, ContinuesOn DEF Into
  <2> HIDE DEF v
  <2>4. QED
    BY <2>3, NextClusterDoes
<1> HIDE DEF h
<1>3. Turns(h, fd) /\ Good(h) /\ h.data = k.data /\ Continues(h, k, fd)
  BY <1>2 DEF Before, Into, Turns
<1>4. CASE h.ret # 0
  BY <1>1, <1>3, <1>4
<1>5. CASE h.ret = 0
  <2>1. Holds(h, fd) /\ f.start_cluster # 0 /\ c \in OnDisk /\ offset < CellsPerCluster
    BY <1>2, <1>5 DEF Before, Into
  <2>2. Fine(h) /\ Running(h) /\ TableOK(h.fat) /\ f \in SoundFile /\ HandlesOK(h.disk.cluster, h.fat, h.open)
        /\ Live(f)
    BY <1>3, <2>1, FirmIs DEF Holds, Fine, Good
  <2>3. ChainOfHandle(h.fat, f)
    BY <2>2 DEF HandlesOK, HandleOK
  <2>4. Len(h.data) \in Nat /\ Len(text) \in Nat /\ Len(h.data) < Len(text) /\ h.data \in Seq(SoundCell \cup Nat)
    BY <1>3 DEF Good, Running, CallState
  <2>5. offset \in 0 .. CellsPerCluster
    BY <2>2 DEF SoundFile
  <2>6. n \in Nat /\ offset + n <= CellsPerCluster /\ Len(h.data) + n <= Len(text)
    <3> DEFINE a == Len(h.data)
               e == Len(text)
    <3>1. a \in Nat /\ e \in Nat /\ a < e /\ n = Least(e - a, CellsPerCluster - offset)
      BY <2>4
    <3> HIDE DEF offset, f, n, a, e
    <3>2. e - a \in Nat
      BY <3>1
    <3>3. n \in Nat /\ offset + n <= CellsPerCluster /\ n <= e - a
      BY <2>5, <3>1, <3>2, LeastIs
    <3>4. a + n <= e
      BY <3>1, <3>3
    <3>5. QED
      BY <3>3, <3>4 DEF a, e
  <2> HIDE DEF n
  <2>7. ChainOfHandle(h.fat, Advancing(f, n)) /\ SameFile(Advancing(f, n), f)
        /\ c \in Owned(h.fat, f.start_cluster)
    BY <2>1, <2>2, <2>3, <2>6, AdvancedHandle
  <2>8. Follows(x, h) /\ x.disk = h.disk /\ x.ret = h.ret /\ x.dead = h.dead /\ (~x.ok => x.hit # << >>)
    <3>1. CASE x = fat32_read_cluster(h, c)
      <4> HIDE DEF x, c
      <4>1. QED
        BY <2>1, <2>2, <3>1, ReadClusterOK
    <3>2. CASE x = [h EXCEPT !.ok = TRUE]
      <4> HIDE DEF x
      <4>1. x.ok
        BY <2>2, <3>2 DEF Running, CallState
      <4>2. QED
        BY <2>2, <3>2, <4>1, WithOk
    <3>3. QED
      BY <3>1, <3>2
  <2> HIDE DEF x
  <2>9. Good(x) /\ Quiet(x, h) /\ x.data = h.data /\ x.open = h.open /\ x.fat = h.fat
    BY <1>3, <2>8, FollowsGood, FollowsQuiet DEF Follows, Kept
  <2>10. Holds(x, fd)
    BY <2>1, <2>9, HoldsQuiet
  <2>11. CASE ~x.ok
    <3>1. t = Failing(x)
      BY <1>1, <1>5, <2>1, <2>11
    <3>2. Turns(t, fd) /\ t.ret # 0 /\ GaveUp(t)
      BY <2>8, <2>9, <2>10, <2>11, <3>1, GivenUp
    <3>3. Continues(t, k, fd)
      BY <3>2 DEF Continues, Carries
    <3>4. QED
      BY <3>2, <3>3
  <2>12. CASE x.ok
    <3>1. x.disk.cluster[c] \in Cluster
      BY <2>1, <2>9 DEF Good, Running, CallState, SoundDisk
    <3>2. ASSUME NEW i \in 1 .. CellsPerCluster, i \in offset + 1 .. offset + n
          PROVE  /\ Byte(text[Len(x.data) + i - offset]) \in SoundCell
                 /\ Byte(text[Len(x.data) + i - offset]).kind = "byte"
      <4> DEFINE j == Len(x.data) + i - offset
      <4>1. j \in 1 .. Len(text)
        <5> HIDE DEF offset
        <5>1. QED
          BY <2>4, <2>5, <2>6, <2>9, <3>2
      <4> HIDE DEF j
      <4>2. text[j] \in Nat
        BY <4>1
      <4>3. Byte(text[j]) \in SoundCell /\ Byte(text[j]).kind = "byte"
        BY <4>2 DEF Byte, SoundCell
      <4>4. QED
        BY <4>3 DEF j
    <3>3. \A i \in 1 .. CellsPerCluster : x.disk.cluster[c][i] \in SoundCell
      BY <3>1 DEF Cluster
    <3>4. \A i \in 1 .. CellsPerCluster :
              (IF i \in offset + 1 .. offset + n THEN Byte(text[Len(x.data) + i - offset])
               ELSE x.disk.cluster[c][i]) \in SoundCell
      BY <3>2, <3>3, Zenon
    <3>5. cells \in Cluster
      BY <3>4, Zenon DEF Cluster
    <3>6. \A i \in 1 .. CellsPerCluster : cells[i].kind = "byte" \/ cells[i] = x.disk.cluster[c][i]
      BY <3>2, Zenon
    <3> HIDE DEF cells
    <3>7. c \in Owned(x.fat, x.open[fd].start_cluster) /\ x.open[fd].start_cluster # 0
      BY <2>1, <2>7, <2>9
    <3>8. /\ Good(y) /\ y.data = x.data /\ y.ret = x.ret /\ y.open = x.open /\ y.fat = x.fat
          /\ Holds(y, fd) \/ Rest(y)
          /\ y.ok => Holds(y, fd)
          /\ Keeps(y, x) /\ (~y.ok => y.hit # << >>)
      <4>1. y = fat32_write_cluster(x, c, cells, <<"data">>)
        OBVIOUS
      <4> HIDE DEF c, y
      <4>2. Filled(y, x, fd)
        BY <2>10, <3>5, <3>6, <3>7, <4>1, BytesWritten
      <4>3. QED
        BY <4>2 DEF Filled
    <3> HIDE DEF y
    <3>9. CASE ~y.ok
      <4>1. t = Failing(y)
        BY <1>1, <1>5, <2>1, <2>12, <3>9
      <4>2. Turns(t, fd) /\ t.ret # 0 /\ GaveUp(t)
        BY <3>8, <3>9, <4>1, GivenUp
      <4>3. Continues(t, k, fd)
        BY <4>2 DEF Continues, Carries
      <4>4. QED
        BY <4>2, <4>3
    <3>10. CASE y.ok
      <4>1. t = Turning(y, z, fd, g) /\ Holds(y, fd)
        BY <1>1, <1>5, <2>1, <2>12, <3>8, <3>10
      <4>2. z \in Seq(SoundCell \cup Nat)
        <5> DEFINE a == Len(y.data) + 1
                   e == Len(y.data) + n
        <5>1. a \in 1 .. Len(text) + 1 /\ e \in a - 1 .. Len(text)
          BY <2>4, <2>6, <2>9, <3>8
        <5>2. more = SubSeq(text, a, e)
          OBVIOUS
        <5> HIDE DEF a, e, more
        <5>3. more \in Seq(Nat)
          BY <5>1, <5>2, SubSeqElements
        <5>4. more \in Seq(SoundCell \cup Nat) /\ y.data \in Seq(SoundCell \cup Nat)
          <6>1. y.data = h.data
            BY <2>9, <3>8
          <6>2. more \in Seq(SoundCell \cup Nat)
            BY <5>3
          <6>3. QED
            BY <2>4, <6>1, <6>2
        <5>5. QED
          BY <5>4, ConcatElements
      <4>3. g = Advancing(f, n) /\ y.open[fd] = f
        BY <2>9, <3>8
      <4>4. g \in SoundFile
        BY <2>2, <2>6, <4>3, WithAdvance
      <4> HIDE DEF g, z, f
      <4>5. HasTurned(t, y, z, fd, g)
        BY <3>8, <4>1, <4>2, <4>4, WithTurn
      <4>6. Good(t) /\ Alike(t, y) /\ t.open = Reopened(y.open, fd, g)
        BY <4>5 DEF HasTurned, Same, Alike
      <4>7. SameFile(g, y.open[fd]) /\ ChainOfHandle(y.fat, g)
        BY <2>7, <2>9, <3>8, <4>3
      <4>8. Fine(y)
        BY <4>1 DEF Holds
      <4>9. Fine(t)
        BY <4>6, <4>7, <4>8, MovedFine
      <4>10. Holds(t, fd) /\ t.open[fd] = g
        <5>1. SameEntry(g, y.open[fd])
          BY <4>7 DEF SameFile, SameEntry
        <5>2. Holds(y, fd) /\ t.open = Reopened(y.open, fd, g)
          BY <4>1, <4>6
        <5>3. Holds(t, fd)
          BY <4>9, <5>1, <5>2, HeldOn
        <5>4. y.open \in [Fd -> SoundFile]
          BY <4>8, FirmIs DEF Fine
        <5>5. t.open[fd] = g
          BY <5>2, <5>4 DEF Reopened
        <5>6. QED
          BY <5>3, <5>5
      <4>11. t.open[fd].start_cluster = f.start_cluster /\ t.hit = y.hit /\ t.ret = 0
        BY <1>5, <2>8, <3>8, <4>3, <4>5, <4>7, <4>10 DEF SameFile, HasTurned, Same
      <4>12. Keeps(y, h)
        BY <2>9, <3>8, KeepsQuiet, KeepsOn
      <4>13. Bears(t, h, fd)
        BY <4>6, <4>11, <4>12 DEF Bears, Keeps, Alike, Untouched, f
      <4>14. Continues(t, k, fd)
        <5>1. Continues(t, h, fd)
          BY <1>5, <4>11, <4>13 DEF Continues, Carries
        <5>2. QED
          BY <1>3, <5>1, ContinuesOn
      <4>15. QED
        BY <4>6, <4>10, <4>14 DEF Turns
    <3>11. QED
      BY <3>9, <3>10
  <2>13. QED
    BY <2>11, <2>12
<1>6. QED
  BY <1>4, <1>5

\* The entry of the file that is written gets the handle's begin and size.
LEMMA PatchedHandles ==
  ASSUME NEW k, NEW fd \in Fd, Holds(k, fd), NEW f, f = k.open[fd], NEW n \in Map,
         Changed(n, k.disk.cluster, f.dir_entry,
                 Repointed(At(k.disk.cluster, f.dir_entry), f.start_cluster, f.file_size))
  PROVE  /\ Sound(n, k.fat) /\ HandlesOK(n, k.fat, k.open)
         /\ Whole(k.disk.cluster, k.fat, {f.start_cluster}) => Whole(n, k.fat, {})
<1> DEFINE m == k.disk.cluster
           o == Without1(k.open, fd)
           s == f.start_cluster
           at == f.dir_entry
<1>1. /\ Firm(k) /\ m \in Map /\ Sound(m, k.fat) /\ k.fat \in Table /\ HandlesOK(m, k.fat, k.open)
      /\ k.open \in [Fd -> SoundFile] /\ f \in SoundFile /\ Live(f)
  BY FirmIs DEF Holds, Fine
<1>2. HandleOK(m, k.fat, f) /\ EntryOfHandle(m, f) /\ ChainOfHandle(k.fat, f)
  BY <1>1 DEF HandlesOK, HandleOK
<1>3. /\ at \in Places(m) /\ ~At(m, at).dir /\ s \in Number /\ f.file_size \in Nat
      /\ StartOK(k.fat, s) /\ f.file_size <= Room(k.fat, s)
      /\ \A b \in Places(m) : s # 0 /\ At(m, b).start = s => b = at
  BY <1>1, <1>2 DEF EntryOfHandle, ChainOfHandle, SoundFile
<1>4. /\ Sound(n, k.fat) /\ Places(n) = Places(m)
      /\ \A a \in Places(m) : a # at => At(n, a) = At(m, a)
      /\ At(n, at).start = s /\ ~At(n, at).dir
  <2> DEFINE size == f.file_size
  <2>1. Changed(n, m, at, Repointed(At(m, at), s, size))
    OBVIOUS
  <2>2. size \in Nat /\ size <= Room(k.fat, s)
    BY <1>3
  <2> HIDE DEF m, s, at, size
  <2>3. QED
    BY <1>1, <1>3, <2>1, <2>2, PatchSound
<1>5. \A h \in Fd : Live(o[h]) =>
         /\ o[h] = k.open[h] /\ o[h].dir_entry \in Places(m) /\ o[h].dir_entry # at
         /\ o[h].start_cluster # 0 => Begins(k.fat, o[h].start_cluster) /\ o[h].start_cluster # s
  <2>1. SUFFICES ASSUME NEW h \in Fd, Live(o[h])
                 PROVE  /\ o[h] = k.open[h] /\ o[h].dir_entry \in Places(m) /\ o[h].dir_entry # at
                        /\ o[h].start_cluster # 0 => Begins(k.fat, o[h].start_cluster) /\ o[h].start_cluster # s
    OBVIOUS
  <2>2. o[h] = k.open[h] /\ HandleOK(m, k.fat, k.open[h]) /\ k.open[h].dir_entry # at
        /\ (k.open[h].start_cluster # 0 => k.open[h].start_cluster # s)
    BY <2>1, OtherHandles
  <2>3. QED
    BY <2>2 DEF HandleOK, EntryOfHandle, ChainOfHandle, StartOK
<1>6. HandlesOK(n, k.fat, o)
  <2> HIDE DEF m, o, s, at
  <2>1. \A h \in Fd : Live(o[h]) => o[h] = k.open[h]
    BY <1>5
  <2>2. \A h \in Fd : Live(o[h]) =>
            /\ o[h].dir_entry \in Places(n)
            /\ At(n, o[h].dir_entry).dir = At(m, o[h].dir_entry).dir
            /\ At(n, o[h].dir_entry).start = At(m, o[h].dir_entry).start
            /\ o[h].start_cluster # 0 =>
                  /\ Begins(k.fat, o[h].start_cluster)
                  /\ Chain(k.fat, o[h].start_cluster) = Chain(k.fat, o[h].start_cluster)
    BY <1>4, <1>5
  <2>3. \A h \in Fd, b \in Places(n) :
            Live(o[h]) /\ o[h].start_cluster # 0 /\ At(n, b).start = o[h].start_cluster
               => b \in Places(m) /\ At(m, b).start = o[h].start_cluster
    BY <1>4, <1>5
  <2>4. QED
    BY <1>1, <2>1, <2>2, <2>3, HandlesFrame
<1>7. HandleOK(n, k.fat, f)
  <2>1. EntryOfHandle(n, f)
    BY <1>3, <1>4 DEF EntryOfHandle
  <2>2. QED
    BY <1>2, <2>1 DEF HandleOK
<1>8. Agrees(o, fd, f)
  <2> HIDE DEF o
  <2>1. QED
    BY <1>5 DEF Agrees
<1>9. k.open = Reopened(o, fd, f) /\ o \in [Fd -> SoundFile]
  BY <1>1, ClosedFileOK DEF Reopened, Without1
<1>10. HandlesOK(n, k.fat, k.open)
  <2> HIDE DEF o
  <2>1. QED
    BY <1>6, <1>7, <1>8, <1>9, ReopenedHandles
<1>11. Whole(m, k.fat, {s}) => Whole(n, k.fat, {})
  <2>1. At(m, at).start \in {0, s}
    BY <1>2 DEF EntryOfHandle
  <2> HIDE DEF m, s, at
  <2>2. QED
    BY <1>3, <1>4, <2>1, PatchedWhole
<1>12. QED
  BY <1>4, <1>10, <1>11

LEMMA UpdateEntryDoes ==
  ASSUME NEW k, NEW fd \in Fd, Holds(k, fd), NEW t, t = fat32_update_file_entry(k, fd)
  PROVE  Ends("write", t) /\ Saves(t, k, {k.open[fd].start_cluster}, {})
<1> DEFINE f == k.open[fd]
           m == k.disk.cluster
           at == f.dir_entry
           c == at[1]
           i == at[2]
           u == fat32_read_cluster(k, c)
           cells == [u.disk.cluster[c] EXCEPT ![i] = Patched(u.disk.cluster[c][i], f)]
           v == fat32_write_cluster(u, c, cells, <<"update">>)
           r == IF v.ok THEN 0 ELSE -1
           e == Repointed(At(m, at), f.start_cluster, f.file_size)
<1>1. t = IF ~u.ok THEN Failing(u) ELSE [v EXCEPT !.ret = r]
  BY DEF fat32_update_file_entry
<1>2. /\ Fine(k) /\ Firm(k) /\ Good(k) /\ Running(k) /\ m \in Map /\ Sound(m, k.fat) /\ HandlesOK(m, k.fat, k.open)
      /\ f \in SoundFile /\ Live(f) /\ ~k.dead /\ ~k.off /\ k.fat = k.disk.fat[1]
  BY FirmIs DEF Holds, Fine, Firm, Good
<1>3. Good(t)
  BY <1>2, UpdateEntryOK
<1>4. at \in Places(m)
  BY <1>2 DEF HandlesOK, HandleOK, EntryOfHandle
<1>5. at \in CellPlace /\ c \in OnDisk /\ i \in 1 .. CellsPerCluster /\ At(m, at).kind = "entry"
  BY <1>2, <1>4, PlaceIs DEF IsListed
<1>6. Follows(u, k) /\ u.disk = k.disk /\ u.ok \in BOOLEAN /\ u.dead = k.dead /\ (~u.ok => u.hit # << >>)
  <2> HIDE DEF c
  <2>1. QED
    BY <1>2, <1>5, ReadClusterOK
<1>7. cells = [m[c] EXCEPT ![i] = e]
  <2>1. Patched(m[c][i], f) = e
    BY <1>5 DEF Patched, At, Repointed
  <2>2. QED
    BY <1>6, <2>1
<1>8. e \in SoundCell /\ cells \in Cluster
  <2>1. m[c] \in Cluster /\ m[c][i] \in SoundCell
    BY <1>2, <1>5 DEF Map, Cluster
  <2>2. Patched(m[c][i], f) \in SoundCell
    BY <1>2, <2>1, PatchedOK
  <2>3. Patched(m[c][i], f) = e
    BY <1>5 DEF Patched, At, Repointed
  <2> HIDE DEF e, cells, m, c, i
  <2>4. e \in SoundCell
    BY <2>2, <2>3
  <2>5. [m[c] EXCEPT ![i] = e] \in Cluster
    BY <2>1, <2>4 DEF Cluster
  <2>6. QED
    BY <1>7, <2>4, <2>5
<1> HIDE DEF u, cells, e
<1>9. Good(u) /\ Quiet(u, k) /\ u.open = k.open /\ u.fat = k.fat /\ Running(u)
  BY <1>2, <1>6, FollowsGood, FollowsQuiet DEF Follows, Kept
<1>10. Fine(u)
  BY <1>2, <1>9, FineQuiet
<1>11. CASE ~u.ok
  <2>1. t = Failing(u)
    BY <1>1, <1>11
  <2>2. Good(t) /\ Quiet(t, u)
    BY <1>9, <2>1, FailingQuiet
  <2>3. ~Untouched(t)
    BY <1>6, <1>11, <2>2 DEF Untouched, Quiet
  <2>4. QED
    BY <1>10, <2>2, <2>3, FineQuiet DEF Ends, Saves
<1>12. CASE u.ok
  <2>1. /\ Follows(v, u) /\ v.ok \in BOOLEAN /\ Wrote(v, u, c, cells, <<"update">>)
        /\ ~v.ok => v.hit # << >>
    <3>1. PICK what : what = <<"update">>
      OBVIOUS
    <3>2. v = fat32_write_cluster(u, c, cells, what) /\ what \in Hit /\ what # << >>
      BY <3>1 DEF Hit
    <3> HIDE DEF v, c
    <3>3. Follows(v, u) /\ v.ok \in BOOLEAN /\ (c \in OnDisk => Wrote(v, u, c, cells, what))
      BY <1>8, <1>9, <3>2, WriteClusterOK
    <3>4. ~v.ok => v.hit # << >>
      BY <1>2, <1>5, <1>6, <3>2, <3>3 DEF Wrote, Transferred
    <3>5. QED
      BY <1>5, <3>1, <3>3, <3>4
  <2>2. t = [v EXCEPT !.ret = r] /\ r \in Int
    BY <1>1, <1>12
  <2> HIDE DEF v, r
  <2>3. Good(v)
    BY <1>9, <2>1, FollowsGood
  <2>4. Quiet(t, v)
    <3>1. Good(t) /\ Kept(t, v) /\ Same(t, v)
      BY <2>2, <2>3, GoodRet
    <3>2. Running(t) /\ t.open = v.open
      BY <3>1 DEF Good, Kept
    <3>3. QED
      BY <3>1, <3>2 DEF Quiet, Same, Kept
  <2>5. v.open = k.open /\ v.fat = k.fat /\ v.disk.fat = k.disk.fat /\ v.off = k.off
    BY <1>2, <1>6, <1>9, <2>1 DEF Follows, Kept
  <2>6. /\ \/ v.disk = k.disk
           \/ ~v.dead /\ v.disk.cluster = Refilled(m, c, cells)
        /\ v.ok => ~v.dead /\ v.disk.cluster = Refilled(m, c, cells)
        /\ ~v.ok => v.hit # << >>
    <3>1. \/ v.disk = u.disk
          \/ ~v.dead /\ v.disk.cluster = Refilled(u.disk.cluster, c, cells)
      BY <2>1 DEF Wrote
    <3>2. v.ok => ~v.dead /\ v.disk.cluster = Refilled(u.disk.cluster, c, cells)
      BY <2>1 DEF Wrote, Transferred
    <3>3. QED
      BY <1>6, <2>1, <3>1, <3>2
  <2>7. Untouched(t) => v.ok /\ Untouched(k) /\ t.disk = v.disk /\ t.fat = v.fat
    BY <1>2, <1>9, <2>1, <2>4, <2>6 DEF Untouched, Quiet, Follows, Kept, Later
  <2>8. CASE ~v.ok /\ v.dead
    <3>1. Rest(v)
      BY <1>2, <2>3, <2>5, <2>6, <2>8 DEF Rest
    <3>2. QED
      BY <1>3, <2>4, <2>7, <2>8, <3>1, FineQuiet DEF Ends, Saves
  <2>9. CASE ~v.ok /\ ~v.dead /\ v.disk = k.disk
    <3>1. Fine(v)
      BY <1>2, <2>3, <2>5, <2>9 DEF Fine, Firm
    <3>2. QED
      BY <1>3, <2>4, <2>7, <2>9, <3>1, FineQuiet DEF Ends, Saves
  <2>10. CASE ~v.dead /\ v.disk.cluster = Refilled(m, c, cells)
    <3> DEFINE n == v.disk.cluster
    <3>1. n \in Map /\ Changed(n, m, at, e)
      <4> HIDE DEF m, at
      <4>1. n = Refilled(m, at[1], [m[at[1]] EXCEPT ![at[2]] = e])
        BY <1>7, <2>10
      <4> HIDE DEF n
      <4>2. QED
        BY <1>2, <1>5, <1>8, <4>1, RefilledAt
    <3>2. /\ Sound(n, k.fat) /\ HandlesOK(n, k.fat, k.open)
          /\ Whole(m, k.fat, {f.start_cluster}) => Whole(n, k.fat, {})
      <4>1. Changed(n, k.disk.cluster, f.dir_entry,
                 Repointed(At(k.disk.cluster, f.dir_entry), f.start_cluster, f.file_size))
        BY <3>1 DEF e
      <4> HIDE DEF n, f
      <4>2. f = k.open[fd]
        BY DEF f
      <4>3. QED
        BY <3>1, <4>1, <4>2, PatchedHandles
    <3>3. Fine(v)
      BY <1>2, <2>3, <2>5, <2>10, <3>2 DEF Fine, Firm
    <3>4. Saves(t, k, {f.start_cluster}, {})
      BY <2>5, <2>7, <3>2 DEF Saves
    <3>5. QED
      BY <1>3, <2>4, <3>3, <3>4, FineQuiet DEF Ends
  <2>11. QED
    BY <2>1, <2>6, <2>8, <2>9, <2>10
<1>13. QED
  BY <1>6, <1>11, <1>12

\* The invariant of the loop of fat32_write, which has begun at b.
WriteInv(k, b, fd) == Turns(k, fd) /\ (k.ret = 0 => Holds(k, fd)) /\ Continues(k, b, fd)

LEMMA WriteDoes ==
  ASSUME NEW k, NEW fd \in Fd, Holds(k, fd), NEW text \in Seq(Nat), NEW t, t = fat32_write(k, fd, text)
  PROVE  Ends("write", t) /\ (t.full \/ Saves(t, k, {}, {}))
<1> DEFINE N == Len(text)
<1>1. Good(k)
  BY DEF Holds, Fine, Firm
<1>2. Good(t) /\ \E w : Writing(w, k, fd, text, t)
  BY <1>1, WriteOK
<1>3. PICK w : Writing(w, k, fd, text, t)
  BY <1>2
<1>4. /\ Good(w[0]) /\ Same(w[0], k) /\ w[0].open = k.open /\ w[0].ret = 0
      /\ \A i \in 1 .. N :
               \/ w[i] = w[i - 1]
               \/ /\ w[i - 1].ret = 0 /\ Len(w[i - 1].data) < N
                  /\ w[i] = WriteTurn(w[i - 1], fd, text)
      /\ Good(w[N])
      /\ \/ t = w[N] /\ (w[N].ret # 0 \/ N = 0)
         \/ w[N].ret = 0 /\ t = fat32_update_file_entry(w[N], fd)
  BY <1>3 DEF Writing
<1>5. N \in Nat
  OBVIOUS
<1> DEFINE S == {u \in CallState : WriteInv(u, w[0], fd)}
<1>6. w[0] \in S
  <2>1. Fine(w[0])
    BY <1>4 DEF Holds, Fine, Firm, Same
  <2>2. Holds(w[0], fd)
    BY <1>4, <2>1 DEF Holds
  <2>3. QED
    BY <1>4, <2>2, ContinuesItself DEF WriteInv, Turns, Good, Running
<1>7. ASSUME NEW i \in 1 .. N, w[i - 1] \in S PROVE w[i] \in S
  <2> DEFINE b == w[i - 1]
  <2>1. CASE w[i] = b
    BY <1>7, <2>1
  <2>2. CASE b.ret = 0 /\ Len(b.data) < N /\ w[i] = WriteTurn(b, fd, text)
    <3>1. Holds(b, fd) /\ Continues(b, w[0], fd)
      BY <1>7, <2>2 DEF WriteInv
    <3> HIDE DEF b
    <3>2. WriteInv(w[i], w[0], fd)
      BY <2>2, <3>1, WriteTurnDoes, ContinuesOn DEF WriteInv
    <3>3. QED
      BY <3>2 DEF WriteInv, Turns, Good, Running
  <2>3. QED
    BY <1>4, <2>1, <2>2
<1>8. w[N] \in S
  <2> HIDE DEF S, N
  <2>1. QED
    BY <1>5, <1>6, <1>7, StaysIn
<1>9. WriteInv(w[N], w[0], fd)
  BY <1>8
<1>10. CASE t = w[N] /\ (w[N].ret # 0 \/ N = 0)
  <2>1. Turns(t, fd)
    BY <1>9, <1>10 DEF WriteInv
  <2>2. Ends("write", t)
    BY <1>2, <2>1 DEF Turns, Ends, Holds, Lost
  <2>3. CASE w[N].ret # 0
    BY <1>4, <1>9, <1>10, <2>2, <2>3 DEF WriteInv, Continues, Carries, GaveUp, Saves
  <2>4. CASE N = 0
    <3>1. t = w[0]
      BY <1>10, <2>4
    <3>2. Saves(t, k, {}, {})
      BY <1>4, <3>1 DEF Same, Saves, Untouched
    <3>3. QED
      BY <2>2, <3>2
  <2>5. QED
    BY <1>10, <2>3, <2>4
<1>11. CASE w[N].ret = 0 /\ t = fat32_update_file_entry(w[N], fd)
  <2> DEFINE e == w[N]
             s == e.open[fd].start_cluster
  <2>1. Holds(e, fd) /\ Bears(e, w[0], fd)
    BY <1>4, <1>9, <1>11 DEF WriteInv, Continues, Carries
  <2>2. t = fat32_update_file_entry(e, fd)
    BY <1>11
  <2> HIDE DEF N, e
  <2>3. Ends("write", t) /\ Saves(t, e, {s}, {})
    BY <2>1, <2>2, UpdateEntryDoes
  <2>4. ASSUME Untouched(t)
        PROVE  /\ Untouched(k)
               /\ Whole(k.disk.cluster, k.fat, {}) => Whole(t.disk.cluster, t.fat, {})
    <3>1. Untouched(e) /\ (Whole(e.disk.cluster, e.fat, {s}) => Whole(t.disk.cluster, t.fat, {}))
      BY <2>3, <2>4 DEF Saves
    <3>2. /\ Untouched(w[0])
          /\ Whole(w[0].disk.cluster, w[0].fat, {k.open[fd].start_cluster}) => Whole(e.disk.cluster, e.fat, {s})
      BY <1>4, <2>1, <3>1 DEF Bears
    <3>3. Untouched(k) /\ w[0].disk = k.disk /\ w[0].fat = k.fat
      BY <1>4, <3>2 DEF Same, Untouched
    <3>4. Whole(k.disk.cluster, k.fat, {}) => Whole(k.disk.cluster, k.fat, {k.open[fd].start_cluster})
      BY DEF Whole, HasOwner
    <3>5. QED
      BY <3>1, <3>2, <3>3, <3>4
  <2>5. QED
    BY <2>3, <2>4 DEF Saves
<1>12. QED
  BY <1>4, <1>10, <1>11

-----------------------------------------------------------------------------
(* Every step keeps what is sound, until a cause in Harmful comes up.      *)

HandlesHold ==
    IF mem.mounted THEN mem.fat = disk.fat[1] /\ HandlesOK(disk.cluster, mem.fat, mem.open)
    ELSE \A fd \in Fd : ~mem.open[fd].in_use

\* Until anything at all fails, nothing is lost either.
Steady ==
    /\ Unharmed => ~broken /\ Sound(disk.cluster, disk.fat[1]) /\ HandlesHold
    /\ causes = {} => Whole(disk.cluster, disk.fat[1], {})

\* A cause in Harmful is remembered.
Harms(call, t, special) == Causes(call, t, special) \cap Harmful # {}

LEMMA SpoiltHarms ==
  ASSUME NEW call, NEW t, Spoilt(call, t), NEW special
  PROVE  Harms(call, t, special)
<1> DEFINE cause == CauseOf(call, t)
<1>1. t.hit # << >> => cause \in Causes(call, t, special)
  BY DEF Causes
<1>2. CASE t.off
  BY <1>2 DEF Causes, Harms, Harmful
<1>3. CASE t.hit = <<"clear">> /\ ~t.dead
  <2>1. cause = "clear" /\ t.hit # << >>
    BY <1>3 DEF CauseOf
  <2>2. QED
    BY <1>1, <2>1 DEF Harms, Harmful
<1>4. CASE ~t.dead /\ \E copy, sector \in Int :
               t.hit = <<"fat", copy, sector>> /\ (copy = 1 \/ call = "write")
  <2>1. PICK copy \in Int, sector \in Int : t.hit = <<"fat", copy, sector>> /\ (copy = 1 \/ call = "write")
    BY <1>4
  <2>2. t.hit # << >> /\ t.hit # <<"clear">> /\ t.hit[1] = "fat" /\ t.hit[2] = copy
    BY <2>1
  <2>3. cause \in {"unlink", "table"}
    BY <1>4, <2>1, <2>2 DEF CauseOf
  <2>4. QED
    BY <1>1, <2>2, <2>3 DEF Harms, Harmful
<1>5. CASE t.dead /\ \E sector \in Int : sector > 1 /\ t.hit = <<"fat", 1, sector>>
  <2>1. PICK sector \in Int : sector > 1 /\ t.hit = <<"fat", 1, sector>>
    BY <1>5
  <2>2. t.hit # << >> /\ t.hit # <<"clear">> /\ t.hit[1] = "fat" /\ t.hit[2] = 1 /\ t.hit[3] > 1
    BY <2>1
  <2>3. cause \in {"unlink", "torn table"}
    BY <1>5, <2>2 DEF CauseOf
  <2>4. QED
    BY <1>1, <2>2, <2>3 DEF Harms, Harmful
<1>6. CASE call = "mkdir" /\ t.hit # << >> /\ t.fault.kind = "late"
  <2>1. cause \in {"clear", "unlink", "table", "torn table", "mkdir"}
    BY <1>6 DEF CauseOf
  <2>2. QED
    BY <1>1, <1>6, <2>1 DEF Harms, Harmful
<1>7. QED
  BY <1>2, <1>3, <1>4, <1>5, <1>6 DEF Spoilt

LEMMA HalfGoneHarms ==
  ASSUME NEW call \in {"remove", "rmdir"}, NEW t, t.hit # << >>, t.fat # mem.fat, NEW special
  PROVE  Harms(call, t, special)
<1>1. CauseOf(call, t) \in {"clear", "unlink"}
  BY DEF CauseOf
<1>2. QED
  BY <1>1 DEF Harms, Harmful, Causes

LEMMA BeginFine ==
  ASSUME Fat32Inv, Steady, Unharmed, mem.mounted, NEW fault \in Fault, NEW k, k = Begin(fault)
  PROVE  Fine(k) /\ k.fat = mem.fat /\ k.open = mem.open
<1>1. Good(k)
  BY BeginGood
<1>2. k.disk = disk /\ k.fat = mem.fat /\ k.open = mem.open /\ k.dead = FALSE /\ k.off = FALSE
  BY DEF Begin
<1>3. Sound(disk.cluster, disk.fat[1]) /\ mem.fat = disk.fat[1] /\ HandlesOK(disk.cluster, mem.fat, mem.open)
  BY DEF Steady, HandlesHold
<1>4. QED
  BY <1>1, <1>2, <1>3 DEF Fine, Firm

\* What is left of a call that has not come to harm.
LEMMA DoneSteady ==
  ASSUME NEW call, NEW fault, NEW t, NEW special, Done(call, fault, t, special), Fine(t) \/ Rest(t),
         causes' = {} => Whole(t.disk.cluster, t.disk.fat[1], {})
  PROVE  Steady'
<1> DEFINE table == IF t.dead THEN t.disk.fat[1] ELSE t.fat
           m == [mounted |-> TRUE, fat |-> t.fat, open |-> t.open]
<1>1. disk' = t.disk /\ (mem' = IF t.dead THEN Unmounted ELSE m) /\ broken' = ~IsSound(t.disk, table)
  BY DEF Done
<1>2. t.disk \in SoundDisk /\ t.dead \in BOOLEAN
  BY DEF Fine, Firm, Rest, Good, Running, CallState
<1>3. table = t.disk.fat[1] /\ Sound(t.disk.cluster, t.disk.fat[1])
  BY DEF Fine, Firm, Rest
<1> HIDE DEF table
<1>4. IsSound(t.disk, table)
  <2>1. DiskIsSound(t.disk, t.disk.fat[1])
    BY <1>2, <1>3, SoundIsSound
  <2>2. QED
    BY <1>3, <2>1 DEF IsSound
<1>5. CASE t.dead
  <2>1. mem' = Unmounted
    BY <1>1, <1>5
  <2>2. \A fd \in Fd : ~Unmounted.open[fd].in_use
    BY DEF Unmounted, ClosedFile
  <2>3. HandlesHold'
    BY <2>1, <2>2, UnmountedOK DEF HandlesHold
  <2>4. QED
    BY <1>1, <1>3, <1>4, <2>3 DEF Steady
<1>6. CASE ~t.dead
  <2>1. mem' = m
    BY <1>1, <1>6
  <2>2. Fine(t)
    BY <1>6 DEF Rest
  <2>3. mem'.mounted /\ mem'.fat = t.fat /\ mem'.open = t.open
    BY <2>1
  <2>4. HandlesHold'
    BY <1>1, <2>2, <2>3 DEF HandlesHold, Fine, Firm
  <2>5. QED
    BY <1>1, <1>3, <1>4, <2>4 DEF Steady
<1>7. QED
  BY <1>2, <1>5, <1>6

\* How a call ends.
Settles(call, t, k) ==
    /\ Ends(call, t) \/ (call \in {"remove", "rmdir"} /\ HalfGone(t, k))
    /\ t.full \/ Saves(t, k, {}, {})

\* A call that changes its handles only loses nothing.
LEMMA AlikeSaves ==
  ASSUME NEW fault, NEW k, k = Begin(fault), NEW t, Alike(t, k)
  PROVE  Saves(t, k, {}, {})
<1>1. k.hit = << >> /\ k.off = FALSE
  BY DEF Begin
<1>2. QED
  BY <1>1 DEF Saves, Untouched, Alike

\* A call without a cause has lost nothing.
LEMMA CallWhole ==
  ASSUME Steady, causes = {}, NEW fault, NEW k, k = Begin(fault), Fine(k), NEW call, NEW t,
         Settles(call, t, k), Fine(t) \/ Rest(t), NEW special, Causes(call, t, special) = {}
  PROVE  Whole(t.disk.cluster, t.disk.fat[1], {})
<1>1. k.disk = disk /\ k.fat = disk.fat[1]
  <2>1. k.disk = disk
    BY DEF Begin
  <2>2. QED
    BY <2>1 DEF Fine, Firm
<1>2. Untouched(t) /\ ~t.full
  BY DEF Causes, Untouched
<1>3. Whole(t.disk.cluster, t.fat, {})
  BY <1>1, <1>2 DEF Settles, Saves, Steady
<1>4. Good(t)
  BY DEF Fine, Firm, Rest
<1>5. Fine(t)
  BY <1>2, <1>4, SpoiltTouched
<1>6. QED
  BY <1>3, <1>5 DEF Fine, Firm

LEMMA CallSteady ==
  ASSUME Fat32Inv, Steady, Ready, NEW call, NEW fault \in Fault, NEW k, k = Begin(fault),
         NEW t, NEW special,
         Fine(k) /\ special \cap Harmful = {} => Settles(call, t, k),
         Done(call, fault, t, special)
  PROVE  Steady'
<1>1. causes' = causes \cup Causes(call, t, special)
  BY DEF Done
<1>2. CASE Harms(call, t, special)
  <2>1. causes' # {} /\ ~Unharmed'
    BY <1>1, <1>2 DEF Unharmed, Harms
  <2>2. QED
    BY <2>1 DEF Steady
<1>3. CASE ~Unharmed
  <2>1. causes' # {} /\ ~Unharmed'
    BY <1>1, <1>3 DEF Unharmed
  <2>2. QED
    BY <2>1 DEF Steady
<1>4. CASE Unharmed /\ ~Harms(call, t, special)
  <2>1. Fine(k) /\ k.fat = mem.fat
    BY <1>4, BeginFine DEF Ready
  <2>2. special \cap Harmful = {}
    BY <1>4 DEF Harms, Causes
  <2>3. CASE HalfGone(t, k) /\ call \in {"remove", "rmdir"}
    BY <1>4, <2>1, <2>3, HalfGoneHarms DEF HalfGone
  <2>4. CASE Ends(call, t)
    <3>1. ~Spoilt(call, t)
      BY <1>4, SpoiltHarms
    <3>2. Fine(t) \/ Rest(t)
      BY <2>4, <3>1 DEF Ends
    <3>3. ASSUME causes' = {} PROVE Whole(t.disk.cluster, t.disk.fat[1], {})
      <4>1. causes = {} /\ Causes(call, t, special) = {}
        BY <1>1, <3>3
      <4>2. QED
        BY <2>1, <2>2, <3>2, <4>1, CallWhole
    <3>4. QED
      BY <3>2, <3>3, DoneSteady
  <2>5. QED
    BY <2>1, <2>2, <2>3, <2>4 DEF Settles
<1>5. QED
  BY <1>2, <1>3, <1>4


LEMMA CreateSteady ==
  ASSUME Fat32Inv, Steady, NEW path \in Paths, create(path)
  PROVE  Steady'
<1>1. Ready /\ mem.mounted
  BY DEF create, Ready
<1>2. PICK fault \in Faults(fat32_create(Begin(NoFault), path)) :
          Done("create", fault, fat32_create(Begin(fault), path), {})
  BY DEF create, Calling
<1> DEFINE b == fat32_create(Begin(NoFault), path)
           k == Begin(fault)
           t == fat32_create(k, path)
<1>3. Good(b)
  BY <1>1, NoFaultOK, BeginGood, CreateOK
<1> HIDE DEF b
<1>4. fault \in Fault
  BY <1>2, <1>3, MadeOK DEF b
<1>5. Done("create", fault, t, {})
  BY <1>2
<1>6. k = Begin(fault)
  OBVIOUS
<1> HIDE DEF k
<1>7. Fine(k) => Settles("create", t, k)
  BY CreateDoes DEF Settles
<1> HIDE DEF t
<1>8. QED
  BY <1>1, <1>4, <1>5, <1>6, <1>7, CallSteady

LEMMA MkdirSteady ==
  ASSUME Fat32Inv, Steady, NEW path \in Paths, mkdir(path)
  PROVE  Steady'
<1>1. Ready /\ mem.mounted
  BY DEF mkdir, Ready
<1>2. PICK fault \in Faults(fat32_mkdir_path(Begin(NoFault), path)) :
          Done("mkdir", fault, fat32_mkdir_path(Begin(fault), path), {})
  BY DEF mkdir, Calling
<1> DEFINE b == fat32_mkdir_path(Begin(NoFault), path)
           k == Begin(fault)
           t == fat32_mkdir_path(k, path)
<1>3. Good(b)
  BY <1>1, NoFaultOK, BeginGood, MkdirOK
<1> HIDE DEF b
<1>4. fault \in Fault
  BY <1>2, <1>3, MadeOK DEF b
<1>5. Done("mkdir", fault, t, {})
  BY <1>2
<1>6. k = Begin(fault)
  OBVIOUS
<1> HIDE DEF k
<1>7. Fine(k) => Settles("mkdir", t, k)
  BY MkdirDoes DEF Settles
<1> HIDE DEF t
<1>8. QED
  BY <1>1, <1>4, <1>5, <1>6, <1>7, CallSteady

LEMMA RemoveSteady ==
  ASSUME Fat32Inv, Steady, NEW path \in Paths, remove(path)
  PROVE  Steady'
<1>1. Ready /\ mem.mounted
  BY DEF remove, Ready
<1>2. PICK fault \in Faults(fat32_remove(Begin(NoFault), path)) :
          Done("remove", fault, fat32_remove(Begin(fault), path), {})
  BY DEF remove, Calling
<1> DEFINE b == fat32_remove(Begin(NoFault), path)
           k == Begin(fault)
           t == fat32_remove(k, path)
<1>3. Good(b)
  BY <1>1, NoFaultOK, BeginGood, RemoveOK
<1> HIDE DEF b
<1>4. fault \in Fault
  BY <1>2, <1>3, MadeOK DEF b
<1>5. Done("remove", fault, t, {})
  BY <1>2
<1>6. k = Begin(fault)
  OBVIOUS
<1> HIDE DEF k
<1>7. Fine(k) => Settles("remove", t, k)
  BY RemoveDoes DEF Settles
<1> HIDE DEF t
<1>8. QED
  BY <1>1, <1>4, <1>5, <1>6, <1>7, CallSteady

LEMMA RmdirSteady ==
  ASSUME Fat32Inv, Steady, NEW path \in Paths, rmdir(path)
  PROVE  Steady'
<1>1. Ready /\ mem.mounted
  BY DEF rmdir, Ready
<1>2. PICK fault \in Faults(fat32_rmdir_path(Begin(NoFault), path)) :
          Done("rmdir", fault, fat32_rmdir_path(Begin(fault), path), {})
  BY DEF rmdir, Calling
<1> DEFINE b == fat32_rmdir_path(Begin(NoFault), path)
           k == Begin(fault)
           t == fat32_rmdir_path(k, path)
<1>3. Good(b)
  BY <1>1, NoFaultOK, BeginGood, RmdirOK
<1> HIDE DEF b
<1>4. fault \in Fault
  BY <1>2, <1>3, MadeOK DEF b
<1>5. Done("rmdir", fault, t, {})
  BY <1>2
<1>6. k = Begin(fault)
  OBVIOUS
<1> HIDE DEF k
<1>7. Fine(k) => Settles("rmdir", t, k)
  BY RmdirDoes DEF Settles
<1> HIDE DEF t
<1>8. QED
  BY <1>1, <1>4, <1>5, <1>6, <1>7, CallSteady

LEMMA OpenSteady ==
  ASSUME Fat32Inv, Steady, NEW path \in Paths, open(path)
  PROVE  Steady'
<1>1. Ready /\ mem.mounted
  BY DEF open, Ready
<1>2. PICK fault \in Faults(fat32_open(Begin(NoFault), path)) :
          Done("open", fault, fat32_open(Begin(fault), path), {})
  BY DEF open, Calling
<1> DEFINE b == fat32_open(Begin(NoFault), path)
           k == Begin(fault)
           t == fat32_open(k, path)
<1>3. Good(b)
  BY <1>1, NoFaultOK, BeginGood, OpenOK
<1> HIDE DEF b
<1>4. fault \in Fault
  BY <1>2, <1>3, MadeOK DEF b
<1>5. Done("open", fault, t, {})
  BY <1>2
<1>6. k = Begin(fault)
  OBVIOUS
<1> HIDE DEF k
<1>7. ASSUME Fine(k) PROVE Settles("open", t, k)
  <2>1. Ends("open", t) /\ Alike(t, k)
    BY <1>7, OpenDoes
  <2> HIDE DEF t
  <2>2. QED
    BY <1>6, <2>1, AlikeSaves DEF Settles
<1> HIDE DEF t
<1>8. QED
  BY <1>1, <1>4, <1>5, <1>6, <1>7, CallSteady

LEMMA ReadSteady ==
  ASSUME Fat32Inv, Steady, NEW fd \in Fd, NEW size \in Nat, read(fd, size)
  PROVE  Steady'
<1>1. Ready /\ mem.mounted
  BY DEF read, Ready
<1>2. PICK fault \in Faults(fat32_read(Begin(NoFault), fd, size)) :
          Done("read", fault, fat32_read(Begin(fault), fd, size), {})
  BY DEF read, Calling
<1> DEFINE b == fat32_read(Begin(NoFault), fd, size)
           k == Begin(fault)
           t == fat32_read(k, fd, size)
<1>3. Good(b)
  BY <1>1, NoFaultOK, BeginGood, ReadOK
<1> HIDE DEF b
<1>4. fault \in Fault
  BY <1>2, <1>3, MadeOK DEF b
<1>5. Done("read", fault, t, {})
  BY <1>2
<1>6. k = Begin(fault)
  OBVIOUS
<1> HIDE DEF k
<1>7. ASSUME Fine(k) PROVE Settles("read", t, k)
  <2>1. Fine(t) /\ Alike(t, k)
    BY <1>7, ReadDoes
  <2> HIDE DEF t
  <2>2. Ends("read", t)
    BY <2>1 DEF Ends, Fine, Firm
  <2>3. QED
    BY <1>6, <2>1, <2>2, AlikeSaves DEF Settles
<1> HIDE DEF t
<1>8. QED
  BY <1>1, <1>4, <1>5, <1>6, <1>7, CallSteady

\* A write through a handle that is neither orphaned nor one of two.
LEMMA WriteSteady ==
  ASSUME Fat32Inv, Steady, NEW fd \in Fd, NEW text \in Seq(Nat), write(fd, text)
  PROVE  Steady'
<1>1. Ready /\ mem.mounted /\ mem.open[fd].in_use
  BY DEF write, Ready
<1>2. PICK fault \in Faults(fat32_write(Begin(NoFault), fd, text)) :
          Done("write", fault, fat32_write(Begin(fault), fd, text), Hazards(fd))
  BY DEF write, Calling
<1> DEFINE b == fat32_write(Begin(NoFault), fd, text)
           k == Begin(fault)
           t == fat32_write(k, fd, text)
<1>3. Good(b)
  BY <1>1, NoFaultOK, BeginGood, WriteOK
<1> HIDE DEF b
<1>4. fault \in Fault
  BY <1>2, <1>3, MadeOK DEF b
<1>5. Done("write", fault, t, Hazards(fd))
  BY <1>2
<1>6. k = Begin(fault) /\ k.open = mem.open
  BY DEF Begin
<1> HIDE DEF k
<1>7. ASSUME Fine(k), Hazards(fd) \cap Harmful = {} PROVE Settles("write", t, k)
  <2>1. ~mem.open[fd].removed
    BY <1>7 DEF Hazards, Harmful
  <2>2. \A h \in Fd : h # fd /\ mem.open[h].in_use => mem.open[h].dir_entry # mem.open[fd].dir_entry
    BY <1>7 DEF Hazards, Harmful
  <2>3. Holds(k, fd)
    BY <1>1, <1>6, <1>7, <2>1, <2>2 DEF Holds, Live, Alone
  <2>4. QED
    BY <2>3, WriteDoes DEF Settles
<1> HIDE DEF t
<1>8. QED
  BY <1>1, <1>4, <1>5, <1>6, <1>7, CallSteady

LEMMA SeekSteady ==
  ASSUME Fat32Inv, Steady, NEW fd \in Fd, NEW position \in Nat, seek(fd, position)
  PROVE  Steady'
<1> DEFINE k == Begin(NoFault)
           t == fat32_seek(k, fd, position)
<1>1. Ready /\ mem.mounted /\ Done("seek", NoFault, t, {})
  BY DEF seek, Ready
<1>2. k = Begin(NoFault) /\ NoFault \in Fault
  BY NoFaultOK
<1> HIDE DEF k
<1>3. ASSUME Fine(k) PROVE Settles("seek", t, k)
  <2>1. Fine(t) /\ Alike(t, k)
    BY <1>3, SeekDoes
  <2> HIDE DEF t
  <2>2. Ends("seek", t)
    BY <2>1 DEF Ends, Fine, Firm
  <2>3. QED
    BY <1>2, <2>1, <2>2, AlikeSaves DEF Settles
<1> HIDE DEF t
<1>4. QED
  BY <1>1, <1>2, <1>3, CallSteady

LEMMA CloseSteady ==
  ASSUME Fat32Inv, Steady, NEW fd \in Fd, close(fd)
  PROVE  Steady'
<1> DEFINE k == Begin(NoFault)
           t == fat32_close(k, fd)
<1>1. Ready /\ mem.mounted /\ Done("close", NoFault, t, {})
  BY DEF close, Ready
<1>2. k = Begin(NoFault) /\ NoFault \in Fault
  BY NoFaultOK
<1> HIDE DEF k
<1>3. ASSUME Fine(k) PROVE Settles("close", t, k)
  <2>1. Fine(t) /\ Alike(t, k)
    BY <1>3, CloseDoes
  <2> HIDE DEF t
  <2>2. Ends("close", t)
    BY <2>1 DEF Ends, Fine, Firm
  <2>3. QED
    BY <1>2, <2>1, <2>2, AlikeSaves DEF Settles
<1> HIDE DEF t
<1>4. QED
  BY <1>1, <1>2, <1>3, CallSteady

LEMMA NoHandles ==
  ASSUME NEW m, NEW fat, NEW o, \A fd \in Fd : ~o[fd].in_use
  PROVE  HandlesOK(m, fat, o)
BY DEF HandlesOK, Live

LEMMA MountSteady ==
  ASSUME Fat32Inv, Steady, fat32_mount
  PROVE  Steady'
<1> DEFINE m == [Unmounted EXCEPT !.mounted = TRUE, !.fat = disk.fat[1]]
<1>1. /\ mem' \in {m, Unmounted} /\ \E x : causes' = causes \cup x
      /\ disk' = disk /\ broken' = broken
  <2>1. PICK fault \in Faults([made |-> 2]) :
          LET k == Begin(fault)
              boot == Transfer(k, <<"read">>, {"error"})
              table == IF boot.ok THEN Transfer(boot, <<"read">>, {"error"}) ELSE boot
          IN  /\ mem' = IF table.ok THEN [Unmounted EXCEPT !.mounted = TRUE, !.fat = disk.fat[1]]
                        ELSE Unmounted
              /\ causes' = causes \cup Causes("mount", table, {})
    BY MountReads DEF Fat32Inv, Typed
  <2>2. disk' = disk /\ broken' = broken
    BY DEF fat32_mount
  <2>3. QED
    BY <2>1, <2>2
<1>2. m.open = Unmounted.open /\ m.fat = disk.fat[1] /\ m.mounted
  BY DEF Unmounted
<1>3. \A fd \in Fd : ~Unmounted.open[fd].in_use
  BY DEF Unmounted, ClosedFile
<1> HIDE DEF m
<1>4. HandlesHold'
  <2>1. CASE mem' = m
    <3>1. HandlesOK(disk'.cluster, mem'.fat, mem'.open)
      BY <1>2, <1>3, <2>1, NoHandles
    <3>2. QED
      BY <1>1, <1>2, <2>1, <3>1 DEF HandlesHold
  <2>2. CASE mem' = Unmounted
    BY <1>3, <2>2, UnmountedOK DEF HandlesHold
  <2>3. QED
    BY <1>1, <2>1, <2>2
<1>5. (Unharmed' => Unharmed) /\ (causes' = {} => causes = {})
  BY <1>1 DEF Unharmed
<1>6. QED
  BY <1>1, <1>4, <1>5 DEF Steady

LEMMA UnmountSteady ==
  ASSUME Fat32Inv, Steady, fat32_unmount
  PROVE  Steady'
<1>1. mem' = Unmounted /\ disk' = disk /\ causes' = causes /\ broken' = broken
  BY DEF fat32_unmount
<1>2. \A fd \in Fd : ~Unmounted.open[fd].in_use
  BY DEF Unmounted, ClosedFile
<1>3. HandlesHold'
  BY <1>1, <1>2, UnmountedOK DEF HandlesHold
<1>4. QED
  BY <1>1, <1>3 DEF Steady, Unharmed

LEMMA StutterSteady ==
  ASSUME Steady, UNCHANGED vars
  PROVE  Steady'
BY DEF Steady, Unharmed, HandlesHold, vars

LEMMA SteadyIsInductive == Fat32Inv /\ Steady /\ [Next]_vars => Steady'
<1> SUFFICES ASSUME Fat32Inv, Steady, [Next]_vars PROVE Steady'
  OBVIOUS
<1>1. CASE \E path \in Paths : create(path)
  BY <1>1, CreateSteady
<1>2. CASE \E path \in Paths : mkdir(path)
  BY <1>2, MkdirSteady
<1>3. CASE \E path \in Paths : remove(path)
  BY <1>3, RemoveSteady
<1>4. CASE \E path \in Paths : rmdir(path)
  BY <1>4, RmdirSteady
<1>5. CASE \E path \in Paths : open(path)
  BY <1>5, OpenSteady
<1>6. CASE \E fd \in Fd, size \in ReadSizes : read(fd, size)
  <2>1. PICK fd \in Fd, size \in ReadSizes : read(fd, size)
    BY <1>6
  <2>2. size \in Nat
    BY Fat32Assumption
  <2>3. QED
    BY <2>1, <2>2, ReadSteady
<1>7. CASE \E fd \in Fd, text \in Texts : write(fd, text)
  <2>1. PICK fd \in Fd, text \in Texts : write(fd, text)
    BY <1>7
  <2>2. text \in Seq(Nat)
    BY Fat32Assumption
  <2>3. QED
    BY <2>1, <2>2, WriteSteady
<1>8. CASE \E fd \in Fd, position \in Positions : seek(fd, position)
  <2>1. PICK fd \in Fd, position \in Positions : seek(fd, position)
    BY <1>8
  <2>2. position \in Nat
    BY Fat32Assumption
  <2>3. QED
    BY <2>1, <2>2, SeekSteady
<1>9. CASE \E fd \in Fd : close(fd)
  BY <1>9, CloseSteady
<1>10. CASE fat32_mount
  BY <1>10, MountSteady
<1>11. CASE fat32_unmount
  BY <1>11, UnmountSteady
<1>12. CASE UNCHANGED vars
  BY <1>12, StutterSteady
<1>13. QED
  BY <1>1, <1>2, <1>3, <1>4, <1>5, <1>6, <1>7, <1>8, <1>9, <1>10, <1>11, <1>12 DEF Next

-----------------------------------------------------------------------------
(* The image as it is built.                                               *)

LEMMA OneCluster ==
  ASSUME NEW fat, TableOK(fat), NEW c \in OnDisk, fat[c] = FAT32_END_CLUSTER
  PROVE  Chain(fat, c) = <<c>> /\ Owned(fat, c) = {c} /\ Room(fat, c) = CellsPerCluster
<1>1. IsChain(fat, <<c>>)
  BY DEF IsChain
<1>2. Chain(fat, c) = <<c>>
  <2> DEFINE z == <<c>>
  <2>1. IsChain(fat, z) /\ z[1] = c
    BY <1>1
  <2> HIDE DEF z
  <2>2. Chain(fat, z[1]) = z
    BY <2>1, ChainUnique
  <2>3. QED
    BY <2>1, <2>2 DEF z
<1>3. Owned(fat, c) = {c}
  BY <1>2 DEF Owned, ClustersOf
<1>4. Room(fat, c) = 1 * CellsPerCluster
  BY <1>2 DEF Room
<1>5. QED
  BY <1>2, <1>3, <1>4, Sizes

\* The root holds one file of one cluster, everything else is free.
Built(m, fat, alias) ==
    /\ fat \in Table
    /\ \A c \in Number : fat[c] = IF c <= 3 THEN FAT32_END_CLUSTER ELSE 0
    /\ m \in Map
    /\ \A a \in CellPlace : a \notin {<<2, 1>>, <<2, 2>>, <<3, 1>>} => At(m, a) = Zero
    /\ At(m, <<2, 1>>) = Lfn(Readme, alias)
    /\ At(m, <<2, 2>>) = Entry(alias, FALSE, 3, 1)
    /\ At(m, <<3, 1>>) = Byte(0)
    /\ alias \notin {Dot, DotDot}

LEMMA FormattedIs ==
  ASSUME Formatted \in SoundDisk
  PROVE  \E alias : Built(Formatted.cluster, Formatted.fat[1], alias)
<1> DEFINE tab == [c \in 0 .. FatEntries - 1 |->
                      IF c <= ROOT_CLUSTER + 1 THEN FAT32_END_CLUSTER ELSE FAT32_FREE_CLUSTER]
           alias == <<Spelling[Readme].base, 1>>
           l == Lfn(Readme, alias)
           e == Entry(alias, FALSE, 3, 1)
           b == Byte(0)
           root == [Zeros EXCEPT ![1] = l, ![2] = e]
           file == [Zeros EXCEPT ![1] = b]
           m == [c \in OnDisk |-> CASE c = ROOT_CLUSTER -> root
                                    [] c = ROOT_CLUSTER + 1 -> file
                                    [] OTHER -> Zeros]
<1>1. Formatted = [fat |-> [copy \in 1 .. NumFats |-> tab], cluster |-> m]
  BY DEF Formatted
<1>2. alias \notin {Dot, DotDot}
  BY DEF Dot, DotDot
<1>3. Formatted.fat[1] = tab /\ Formatted.cluster = m /\ Formatted.fat[1] \in Table /\ m \in Map
  <2> HIDE DEF tab, m
  <2>1. 1 \in 1 .. NumFats
    BY Sizes
  <2>2. QED
    BY <1>1, <2>1 DEF SoundDisk, Map
<1>4. \A c \in Number : tab[c] = IF c <= 3 THEN FAT32_END_CLUSTER ELSE 0
  BY DEF Number, ROOT_CLUSTER, FAT32_FREE_CLUSTER
<1> HIDE DEF tab, l, e, b
<1>5. /\ \A i \in 1 .. CellsPerCluster : Zeros[i] = Zero
      /\ 1 \in 1 .. CellsPerCluster /\ 2 \in 1 .. CellsPerCluster /\ 2 \in OnDisk /\ 3 \in OnDisk
  BY Sizes DEF Zeros, OnDisk
<1>6. /\ root[1] = l /\ root[2] = e /\ file[1] = b
      /\ \A i \in 1 .. CellsPerCluster : i \notin {1, 2} => root[i] = Zero
      /\ \A i \in 1 .. CellsPerCluster : i # 1 => file[i] = Zero
  BY <1>5 DEF Zeros
<1> HIDE DEF root, file
<1>7. m[2] = root /\ m[3] = file /\ \A c \in OnDisk : c \notin {2, 3} => m[c] = Zeros
  BY <1>5 DEF ROOT_CLUSTER
<1> HIDE DEF m
<1>8. At(m, <<2, 1>>) = l /\ At(m, <<2, 2>>) = e /\ At(m, <<3, 1>>) = b
  BY <1>6, <1>7 DEF At
<1>9. ASSUME NEW a \in CellPlace, a \notin {<<2, 1>>, <<2, 2>>, <<3, 1>>} PROVE At(m, a) = Zero
  <2>1. a = <<a[1], a[2]>> /\ a[1] \in OnDisk /\ a[2] \in 1 .. CellsPerCluster
    BY DEF CellPlace
  <2>2. CASE a[1] = 2
    BY <1>6, <1>7, <1>9, <2>1, <2>2 DEF At
  <2>3. CASE a[1] = 3
    BY <1>6, <1>7, <1>9, <2>1, <2>3 DEF At
  <2>4. CASE a[1] \notin {2, 3}
    BY <1>5, <1>7, <2>1, <2>4 DEF At
  <2>5. QED
    BY <2>2, <2>3, <2>4
<1>10. Built(m, tab, alias)
  BY <1>2, <1>3, <1>4, <1>8, <1>9 DEF Built, l, e, b
<1>11. QED
  BY <1>3, <1>10

LEMMA BuiltIsSound ==
  ASSUME NEW m, NEW fat, NEW alias, Built(m, fat, alias)
  PROVE  Sound(m, fat) /\ Whole(m, fat, {})
<1> DEFINE at == <<2, 2>>
<1>1. /\ fat \in Table /\ m \in Map
      /\ \A c \in Number : fat[c] = IF c <= 3 THEN FAT32_END_CLUSTER ELSE 0
  BY DEF Built
<1>2. 2 \in OnDisk /\ 3 \in OnDisk /\ \A c \in Number : c \in {2, 3} => c \in OnDisk
  BY Sizes DEF OnDisk
<1>3. FAT32_END_CLUSTER \notin OnDisk /\ 0 \notin OnDisk /\ FAT32_END_CLUSTER # 0 /\ 2 \in Number /\ 3 \in Number
      /\ FAT32_END_CLUSTER \notin {2, 3}
  BY <1>2, ClustersOnDisk
<1>4. TableOK(fat)
  <2>1. \A c \in Number : ~Linked(fat, c)
    BY <1>1, <1>3 DEF Linked
  <2>2. \A c \in Number : c >= 2 /\ fat[c] # 0 => c \in OnDisk /\ c <= 3
    BY <1>1, <1>2 DEF Number
  <2>3. QED
    BY <1>1, <2>1, <2>2 DEF TableOK
<1>5. Begins(fat, 2) /\ Begins(fat, 3) /\ fat[2] = FAT32_END_CLUSTER /\ fat[3] = FAT32_END_CLUSTER
  BY <1>1, <1>2, <1>3 DEF Begins
<1>6. Owned(fat, 2) = {2} /\ Chain(fat, 2) = <<2>> /\ Room(fat, 3) = CellsPerCluster
  BY <1>2, <1>4, <1>5, OneCluster
<1>7. /\ At(m, <<2, 1>>).kind = "lfn" /\ At(m, <<2, 1>>).checksum_of = alias
      /\ At(m, at) = Entry(alias, FALSE, 3, 1)
      /\ At(m, <<3, 1>>).kind = "byte" /\ alias \notin {Dot, DotDot}
  BY DEF Built, Lfn, Byte
<1>8. at \in CellPlace /\ IsListed(At(m, at)) /\ ~At(m, at).dir /\ At(m, at).start = 3 /\ At(m, at).size = 1
      /\ At(m, at).kind = "entry"
  BY <1>2, <1>7, Sizes DEF CellPlace, IsListed, Entry
<1>9. \A a \in CellPlace : a \notin {<<2, 1>>, <<2, 2>>, <<3, 1>>} => At(m, a).kind = "zero"
  BY DEF Built, Zero
<1>10. Places(m) = {at}
  <2>1. \A a \in CellPlace : a # at => ~IsListed(At(m, a))
    BY <1>7, <1>9 DEF IsListed
  <2>2. QED
    BY <1>8, <2>1 DEF Places
<1>11. Heads(m) = {2}
  <2>1. \A a \in Places(m) : ~At(m, a).dir
    BY <1>8, <1>10
  <2>2. QED
    BY <2>1 DEF Heads, ROOT_CLUSTER
<1>12. EntryOK(m, fat, at)
  <2>1. StartOK(fat, 3)
    BY <1>5 DEF StartOK, ROOT_CLUSTER
  <2>2. 1 <= Room(fat, 3)
    BY <1>6, Sizes
  <2>3. at[1] = 2
    OBVIOUS
  <2>4. QED
    BY <1>6, <1>8, <1>11, <2>1, <2>2, <2>3 DEF EntryOK
<1>13. \A a \in CellPlace : LfnOK(At(m, a))
  BY <1>7, <1>8, <1>9 DEF LfnOK
<1>14. HeadOK(m, fat, 2)
  <2> DEFINE W == Locations(fat, 2)
  <2>1. AreLocations(W, <<2>>)
    BY <1>4, <1>5, <1>6, LocationsAre
  <2>2. CellsPerCluster \in Nat /\ 1 * CellsPerCluster = CellsPerCluster /\ Len(<<2>>) = 1
    BY Sizes
  <2>3. DOMAIN W = 1 .. CellsPerCluster
    BY <2>1, <2>2 DEF AreLocations
  <2>4. \A i \in 1 .. CellsPerCluster : W[i] = <<2, i>>
    <3>1. \A q \in 0 .. 0, i \in 1 .. CellsPerCluster : W[q * CellsPerCluster + i] = <<(<<2>>)[q + 1], i>>
      BY <2>1, <2>2 DEF AreLocations
    <3>2. \A i \in 1 .. CellsPerCluster : 0 * CellsPerCluster + i = i
      BY <2>2
    <3>3. 0 \in 0 .. 0 /\ (<<2>>)[0 + 1] = 2
      OBVIOUS
    <3>4. QED
      BY <3>1, <3>2, <3>3
  <2> HIDE DEF W
  <2>5. Tidy(m, W)
    <3>1. SUFFICES ASSUME NEW i \in 1 .. CellsPerCluster, NEW j \in 1 .. CellsPerCluster, i < j,
                          At(m, W[i]).kind = "zero"
                   PROVE  At(m, W[j]).kind = "zero"
      BY <2>3 DEF Tidy
    <3>2. i # 1 /\ i # 2
      BY <1>7, <1>8, <2>4, <3>1
    <3>3. j \notin {1, 2} /\ W[j] = <<2, j>> /\ <<2, j>> \in CellPlace
      BY <1>2, <2>4, <3>1, <3>2 DEF CellPlace
    <3>4. QED
      BY <1>9, <3>3
  <2>6. \A a \in CellPlace : a[1] = 2 => At(m, a).kind \notin {"byte", "junk"}
    <3>1. SUFFICES ASSUME NEW a \in CellPlace, a[1] = 2 PROVE At(m, a).kind \notin {"byte", "junk"}
      OBVIOUS
    <3>2. a # <<3, 1>>
      BY <3>1
    <3>3. QED
      BY <1>7, <1>8, <1>9, <3>2
  <2>7. QED
    BY <1>6, <1>10, <2>5, <2>6 DEF HeadOK, W
<1>15. Sound(m, fat)
  BY <1>4, <1>5, <1>10, <1>11, <1>12, <1>13, <1>14 DEF Sound, StartsDiffer, ROOT_CLUSTER
<1>16. Whole(m, fat, {})
  <2>1. 2 \in Starts(m) /\ 3 \in Starts(m)
    BY <1>8, <1>10, StartIs DEF ROOT_CLUSTER
  <2>2. Owned(fat, 3) = {3}
    BY <1>2, <1>4, <1>5, OneCluster
  <2>3. \A c \in OnDisk : fat[c] # 0 => c \in {2, 3}
    <3>1. \A c \in OnDisk : c \in Number /\ c \in Nat /\ c >= 2
      BY ClustersOnDisk DEF OnDisk
    <3>2. QED
      BY <1>1, <3>1
  <2>4. \A c \in OnDisk : fat[c] # 0 => HasOwner(m, fat, {}, c)
    BY <1>5, <1>6, <2>1, <2>2, <2>3 DEF HasOwner
  <2>5. 2 \in Tops(m, fat) /\ at[1] = 2
    BY TopIs DEF ROOT_CLUSTER
  <2>6. QED
    BY <1>6, <1>10, <2>4, <2>5 DEF Whole
<1>17. QED
  BY <1>15, <1>16

LEMMA InitSteady == Init => Steady
<1> SUFFICES ASSUME Init PROVE Steady
  OBVIOUS
<1>1. disk = Formatted /\ disk \in SoundDisk
  BY InitOK DEF Init, Fat32Inv, Typed
<1>2. Sound(disk.cluster, disk.fat[1]) /\ Whole(disk.cluster, disk.fat[1], {})
  BY <1>1, FormattedIs, BuiltIsSound
<1> DEFINE m == [Unmounted EXCEPT !.mounted = TRUE, !.fat = Formatted.fat[1]]
<1>3. m.mounted /\ m.fat = Formatted.fat[1] /\ m.open = Unmounted.open
  BY DEF Unmounted
<1>4. \A fd \in Fd : ~Unmounted.open[fd].in_use
  BY DEF Unmounted, ClosedFile
<1>5. mem = m /\ broken = FALSE
  BY DEF Init
<1> HIDE DEF m
<1>6. HandlesOK(disk.cluster, mem.fat, mem.open)
  BY <1>3, <1>4, <1>5, NoHandles
<1>7. QED
  BY <1>1, <1>2, <1>3, <1>5, <1>6 DEF Steady, HandlesHold

-----------------------------------------------------------------------------
(* Theorems                                                                *)

\* Whatever fails, and however often, as long as none of it is a cause in
\* Harmful: the chains are disjoint and end, every entry has its chain, the
\* directories are in order, the table in memory is the one a mount would read,
\* and the handles are where their files are.
THEOREM StaysSound == Spec => [](Fat32Inv /\ Steady)
<1>1. Init => Fat32Inv /\ Steady
  BY InitOK, InitSteady
<1>2. Fat32Inv /\ Steady /\ [Next]_vars => (Fat32Inv /\ Steady)'
  BY Fat32InvIsInductive, SteadyIsInductive
<1>3. QED
  BY <1>1, <1>2, PTL DEF Spec

\* The structure of the disk survives every sequence of calls with any number of
\* failing transfers and power cuts, but for the causes that Harmful names: the
\* order of the steps of fat32_allocate_cluster, fat32_create_file,
\* fat32_mkdir and fat32_write leaves at worst a cluster that nothing uses.
THEOREM DiskBreaksOnlyByHarm == Spec => []BreaksOnlyBy
<1>1. Steady => BreaksOnlyBy
  BY DEF Steady, Unharmed, BreaksOnlyBy
<1>2. QED
  BY StaysSound, <1>1, PTL

\* No two entries of a directory have the same short name:
\* fat32_generate_unique_short_name looks at every entry before it settles.
THEOREM ShortNamesStayUnique == Spec => []AliasesAreUnique
<1>1. Fat32Inv /\ Steady => AliasesAreUnique
  <2> SUFFICES ASSUME Fat32Inv, Steady, Unharmed,
                      NEW dir \in {ROOT_CLUSTER} \cup Subdirectories(disk, disk.fat[1]),
                      NEW a \in EntriesOf(disk, disk.fat[1], dir),
                      NEW b \in EntriesOf(disk, disk.fat[1], dir),
                      CellAt(disk, a).name = CellAt(disk, b).name
               PROVE  a = b
    BY DEF AliasesAreUnique
  <2>1. disk \in SoundDisk /\ Sound(disk.cluster, disk.fat[1])
    BY DEF Fat32Inv, Typed, Steady
  <2>2. dir \in Heads(disk.cluster)
    BY <2>1, SubdirectoriesAreHeads
  <2>3. \A x \in EntriesOf(disk, disk.fat[1], dir) :
            /\ x \in Places(disk.cluster) /\ x[1] \in Owned(disk.fat[1], dir)
            /\ CellAt(disk, x) = At(disk.cluster, x)
    BY <2>1, <2>2, EntriesArePlaces
  <2>4. HeadOK(disk.cluster, disk.fat[1], dir)
    BY <2>1, <2>2 DEF Sound
  <2>5. At(disk.cluster, a).name = At(disk.cluster, b).name
    BY <2>3
  <2>6. QED
    BY <2>3, <2>4, <2>5 DEF HeadOK
<1>2. QED
  BY StaysSound, <1>1, PTL

\* The cursor of a handle is where its position is in the chain of its file, in
\* one of the forms that fat32_open, fat32_read, fat32_write and fat32_seek leave
\* behind.
THEOREM CursorsStayPlaced == Spec => []CursorIsPlaced
<1>1. Fat32Inv /\ Steady => CursorIsPlaced
  <2> SUFFICES ASSUME Fat32Inv, Steady, Unharmed, NEW fd \in Fd,
                      mem.open[fd].in_use, ~mem.open[fd].removed
               PROVE  LET f == mem.open[fd]
                          chain == Chain(mem.fat, f.start_cluster)
                          turn == f.position \div CellsPerCluster
                      IN  \/ f.position = 0 /\ f.current_cluster = f.start_cluster
                             /\ f.cluster_position = 0
                          \/ /\ turn < Len(chain) /\ f.current_cluster = chain[turn + 1]
                             /\ f.cluster_position = f.position % CellsPerCluster
                          \/ /\ f.position = turn * CellsPerCluster /\ turn >= 1
                             /\ f.current_cluster = chain[turn] /\ f.cluster_position = CellsPerCluster
                          \/ /\ f.position = Len(chain) * CellsPerCluster
                             /\ f.current_cluster = FAT32_END_CLUSTER /\ f.cluster_position = 0
    BY DEF CursorIsPlaced
  <2>1. mem.mounted /\ HandlesOK(disk.cluster, mem.fat, mem.open)
    BY DEF Steady, HandlesHold
  <2>2. ChainOfHandle(mem.fat, mem.open[fd])
    BY <2>1 DEF HandlesOK, HandleOK, Live
  <2>3. Placed(mem.open[fd], Chain(mem.fat, mem.open[fd].start_cluster))
    BY <2>2 DEF ChainOfHandle
  <2> DEFINE f == mem.open[fd]
             chain == Chain(mem.fat, f.start_cluster)
  <2>4. Placed(f, chain)
    BY <2>3
  <2> HIDE DEF f, chain
  <2>5. LET turn == f.position \div CellsPerCluster
        IN  \/ f.position = 0 /\ f.current_cluster = f.start_cluster /\ f.cluster_position = 0
            \/ /\ turn < Len(chain) /\ f.current_cluster = chain[turn + 1]
               /\ f.cluster_position = f.position % CellsPerCluster
            \/ /\ f.position = turn * CellsPerCluster /\ turn >= 1
               /\ f.current_cluster = chain[turn] /\ f.cluster_position = CellsPerCluster
            \/ /\ f.position = Len(chain) * CellsPerCluster
               /\ f.current_cluster = FAT32_END_CLUSTER /\ f.cluster_position = 0
    BY <2>4, Zenon DEF Placed
  <2>6. QED
    BY <2>5 DEF f, chain
<1>2. QED
  BY StaysSound, <1>1, PTL

-----------------------------------------------------------------------------
(* What a read yields.                                                     *)

\* The cell at a position of a chain.
CellOf(m, z, p) == m[z[(p \div CellsPerCluster) + 1]][(p % CellsPerCluster) + 1]

\* A turn without a fault: it is read.
LEMMA PlainRead ==
  ASSUME NEW k \in CallState, ~k.dead, k.fault = NoFault, NEW c \in OnDisk
  PROVE  fat32_read_cluster(k, c).ok
<1>1. k.made \in Nat /\ k.fault.at = 0
  BY DEF CallState, NoFault
<1>2. k.made + 1 # k.fault.at
  BY <1>1
<1>3. QED
  BY <1>2 DEF fat32_read_cluster, Transfer, CallState

\* A cursor before the end of its file is in a cluster of the disk.
LEMMA CursorInside ==
  ASSUME NEW fat, TableOK(fat), NEW f \in SoundFile, ChainOfHandle(fat, f), f.position < f.file_size,
         NEW z, z = Chain(fat, f.start_cluster)
  PROVE  /\ IsChain(fat, z) /\ Len(z) \in Nat
         /\ f.current_cluster \in OnDisk /\ f.current_cluster < FAT32_END_CLUSTER
         /\ \/ \E q, r : AtCell(f, z, q, r) /\ q < Len(z)
            \/ \E q : AtEdge(f, z, q)
<1>1. f.position \in Nat /\ f.file_size \in Nat /\ CellsPerCluster \in Nat \ {0}
  BY Sizes DEF SoundFile
<1>2. f.start_cluster # 0
  BY <1>1, CursorIs
<1>3. /\ IsChain(fat, z) /\ Len(z) \in Nat \ {0}
      /\ \/ \E q, r : AtCell(f, z, q, r)
         \/ \E q : AtEdge(f, z, q)
  BY <1>2, CursorIs
<1>4. \A i \in 1 .. Len(z) : z[i] \in OnDisk
  BY <1>3, ChainElements
<1>5. \A c \in OnDisk : c < FAT32_END_CLUSTER
  BY Sizes DEF OnDisk
<1>6. f.position < Len(z) * CellsPerCluster
  <2>1. f.file_size <= Len(z) * CellsPerCluster
    BY DEF ChainOfHandle, Room
  <2>2. Len(z) * CellsPerCluster \in Nat
    BY <1>1, <1>3
  <2>3. QED
    BY <1>1, <2>1, <2>2
<1>7. CASE \E q, r : AtCell(f, z, q, r)
  <2>1. PICK q, r : AtCell(f, z, q, r)
    BY <1>7
  <2>2. q \in Nat /\ r \in 0 .. CellsPerCluster - 1 /\ f.position = q * CellsPerCluster + r
        /\ f.current_cluster = Nth(z, q)
    BY <1>3, <2>1 DEF AtCell
  <2>3. f.position \div CellsPerCluster = q
    BY <2>2, Multiples
  <2>4. q < Len(z)
    <3>1. f.position \div CellsPerCluster \in 0 .. Len(z) - 1
      BY <1>1, <1>3, <1>6, QuotientBelow
    <3>2. QED
      BY <1>3, <2>3, <3>1
  <2>5. f.current_cluster = z[q + 1] /\ q + 1 \in 1 .. Len(z)
    BY <1>3, <2>2, <2>4 DEF Nth
  <2>6. QED
    BY <1>3, <1>4, <1>5, <2>1, <2>4, <2>5
<1>8. CASE \E q : AtEdge(f, z, q)
  <2>1. PICK q : AtEdge(f, z, q)
    BY <1>8
  <2>2. q \in 1 .. Len(z) /\ f.current_cluster = z[q]
    BY <2>1 DEF AtEdge
  <2>3. QED
    BY <1>3, <1>4, <1>5, <1>8, <2>2
<1>9. QED
  BY <1>3, <1>7, <1>8

\* The cells that a turn takes are those at the next positions of the chain.
AlongChain(m, z, p, q, r, n) ==
    \A j \in 1 .. n : CellOf(m, z, p + j - 1) = m[z[q + 1]][r + j]

LEMMA TurnCells ==
  ASSUME NEW m, NEW z, NEW q \in Nat, NEW r \in Nat, NEW n \in Nat, r + n <= CellsPerCluster,
         NEW p, p = q * CellsPerCluster + r
  PROVE  AlongChain(m, z, p, q, r, n)
<1> SUFFICES ASSUME NEW j \in 1 .. n PROVE CellOf(m, z, p + j - 1) = m[z[q + 1]][r + j]
  BY DEF AlongChain
<1>1. CellsPerCluster \in Nat \ {0}
  BY Sizes
<1>2. (r + j) - 1 \in 0 .. CellsPerCluster - 1
  BY <1>1
<1>3. p + j - 1 = q * CellsPerCluster + ((r + j) - 1)
  <2>1. q * CellsPerCluster \in Nat
    BY <1>1
  <2>2. QED
    BY <2>1
<1>4. /\ (p + j - 1) \div CellsPerCluster = q
      /\ (p + j - 1) % CellsPerCluster = (r + j) - 1
  BY <1>2, <1>3, Multiples
<1>5. ((r + j) - 1) + 1 = r + j
  OBVIOUS
<1>6. QED
  BY <1>4, <1>5 DEF CellOf

\* What holds after i turns without a fault: data has the cells from the position
\* of the begin on, and every turn but one made it longer.
Fetched(u, k, fd, size, i) ==
    LET z == Chain(k.fat, k.open[fd].start_cluster)
        f == u.open[fd]
    IN  /\ ReadInv(u, k, fd, size) /\ u.ret = 0 /\ u.fault = NoFault /\ Len(u.data) <= size
        /\ f.position = k.open[fd].position + Len(u.data)
        /\ \A j \in 1 .. Len(u.data) :
               u.data[j] = CellOf(k.disk.cluster, z, k.open[fd].position + j - 1)
        /\ \/ Len(u.data) >= size
           \/ Len(u.data) >= i
           \/ Len(u.data) >= i - 1 /\ f.cluster_position < CellsPerCluster
\* Before a turn.
LEMMA BeforeTurn ==
  ASSUME NEW k, Fine(k), NEW fd \in Fd, Live(k.open[fd]), NEW size \in Int, NEW u, NEW i,
         Fetched(u, k, fd, size, i), NEW f, f = u.open[fd],
         NEW z, z = Chain(k.fat, k.open[fd].start_cluster)
  PROVE  /\ Good(u) /\ ~u.dead /\ u.fat = k.fat /\ u.disk = k.disk /\ Len(u.data) \in Nat
         /\ f \in SoundFile /\ u.fault = NoFault /\ u.ret = 0
         /\ z = Chain(k.fat, f.start_cluster)
         /\ ChainOfHandle(k.fat, f) /\ TableOK(k.fat)
         /\ f.position + (size - Len(u.data)) <= f.file_size
<1>1. ReadInv(u, k, fd, size) /\ u.fault = NoFault /\ u.ret = 0
  BY DEF Fetched
<1>2. PICK g \in SoundFile :
           /\ u.open = Reopened(k.open, fd, g) /\ SameFile(g, k.open[fd])
           /\ g.position + (size - Len(u.data)) <= g.file_size
           /\ Live(g) => ChainOfHandle(k.fat, g)
  BY <1>1 DEF ReadInv
<1>3. k.open \in [Fd -> SoundFile] /\ TableOK(k.fat) /\ ~k.dead
  BY FirmIs DEF Fine
<1>4. u.open[fd] = g
  BY <1>2, <1>3 DEF Reopened
<1>5. Live(g) /\ g.start_cluster = k.open[fd].start_cluster
  BY <1>2 DEF SameFile, Live
<1>6. Good(u) /\ Alike(u, k) /\ Len(u.data) \in Nat
  BY <1>1 DEF ReadInv
<1>7. QED
  BY <1>1, <1>2, <1>3, <1>4, <1>5, <1>6 DEF Alike

LEMMA FetchedTurn ==
  ASSUME NEW k, Fine(k), NEW fd \in Fd, Live(k.open[fd]), NEW size \in Int, NEW u, NEW i \in Nat,
         Fetched(u, k, fd, size, i), Len(u.data) < size, NEW t, t = ReadTurn(u, fd, size)
  PROVE  Fetched(t, k, fd, size, i + 1)
<1> DEFINE f == u.open[fd]
           z == Chain(k.fat, k.open[fd].start_cluster)
           m == k.disk.cluster
           P == k.open[fd].position
<1>1. /\ Good(u) /\ ~u.dead /\ u.fat = k.fat /\ u.disk = k.disk /\ Len(u.data) \in Nat
      /\ f \in SoundFile /\ u.fault = NoFault /\ u.ret = 0
      /\ z = Chain(k.fat, f.start_cluster)
      /\ ChainOfHandle(k.fat, f) /\ TableOK(k.fat)
      /\ f.position + (size - Len(u.data)) <= f.file_size
  BY BeforeTurn
<1>2. /\ ReadInv(u, k, fd, size) /\ f.position = P + Len(u.data)
      /\ \A j \in 1 .. Len(u.data) : u.data[j] = CellOf(m, z, P + j - 1)
      /\ \/ Len(u.data) >= i
         \/ Len(u.data) >= i - 1 /\ f.cluster_position < CellsPerCluster
  BY <1>1 DEF Fetched
<1>3. ReadInv(t, k, fd, size)
  BY <1>2, ReadTurnDoes
<1>4. Good(t) /\ ReadOn(t, u, fd, size)
  BY <1>1, ReadTurnOK
<1>5. /\ f.position \in Nat /\ f.file_size \in Nat /\ f.cluster_position \in 0 .. CellsPerCluster
      /\ CellsPerCluster \in Nat \ {0} /\ P \in Nat
  <2>1. k.open[fd] \in SoundFile
    BY FirmIs DEF Fine
  <2>2. \A g \in SoundFile : g.position \in Nat /\ g.file_size \in Nat
                             /\ g.cluster_position \in 0 .. CellsPerCluster
    BY DEF SoundFile
  <2>3. f \in SoundFile /\ CellsPerCluster \in Nat \ {0}
    BY <1>1, Sizes
  <2> HIDE DEF f
  <2>4. QED
    BY <2>1, <2>2, <2>3
<1>6. /\ IsChain(k.fat, z) /\ Len(z) \in Nat /\ f.current_cluster \in OnDisk
      /\ \/ \E q, r : AtCell(f, z, q, r) /\ q < Len(z)
         \/ \E q : AtEdge(f, z, q)
  <2>1. f.position < f.file_size
    <3> DEFINE x == size - Len(u.data)
               e == f.position
               w == f.file_size
    <3>1. x \in Nat /\ x >= 1
      BY <1>1
    <3>2. e + x <= w /\ e \in Nat /\ w \in Nat
      BY <1>1, <1>5
    <3> HIDE DEF x, e, w
    <3>3. e < w
      BY <3>1, <3>2
    <3>4. QED
      BY <3>3 DEF e, w
  <2> HIDE DEF f, z
  <2>2. QED
    BY <1>1, <2>1, CursorInside
<1>7. ~Unread(u, fd)
  <2>1. u \in CallState
    BY <1>1 DEF Good, Running
  <2>2. QED
    BY <1>1, <1>6, <2>1, PlainRead DEF Unread
<1>8. PICK n, g : ReadSome(t, u, fd, size, f, n, g)
  BY <1>4, <1>6, <1>7 DEF ReadOn
<1>9. /\ Still(t, u) /\ t.open = Reopened(u.open, fd, g) /\ t.ret = 0 /\ Moved(g, f, u, n)
      /\ n = Least(size - Len(u.data), CellsPerCluster - f.cluster_position)
      /\ t.data = u.data \o SubSeq(m[f.current_cluster], f.cluster_position + 1, f.cluster_position + n)
  BY <1>1, <1>8 DEF ReadSome
<1>10. t.open[fd] = g /\ t.fault = NoFault
  <2>1. u.open \in [Fd -> SoundFile]
    BY <1>1 DEF Good, Running, CallState
  <2>2. t.open[fd] = g
    BY <1>9, <2>1 DEF Reopened
  <2>3. QED
    BY <1>1, <1>9, <2>2 DEF Still, Later
<1>11. n \in Nat /\ f.cluster_position + n <= CellsPerCluster /\ n <= size - Len(u.data)
       /\ (f.cluster_position < CellsPerCluster => n >= 1)
  <2> DEFINE x == size - Len(u.data)
             p == f.cluster_position
  <2>1. x \in Nat /\ x >= 1
    BY <1>1
  <2>2. p \in 0 .. CellsPerCluster /\ n = Least(x, CellsPerCluster - p) /\ CellsPerCluster \in Nat
    BY <1>5, <1>9
  <2> HIDE DEF x, p
  <2>3. n \in Nat /\ p + n <= CellsPerCluster /\ n <= x
    BY <2>1, <2>2, LeastIs
  <2>4. p < CellsPerCluster => n >= 1
    BY <2>1, <2>2 DEF Least
  <2>5. QED
    BY <2>3, <2>4 DEF x, p
<1> DEFINE cells == m[f.current_cluster]
           a == f.cluster_position + 1
           b == f.cluster_position + n
           s == SubSeq(cells, a, b)
<1>12. cells \in Seq(SoundCell) /\ Len(cells) = CellsPerCluster
  <2>1. k.disk \in SoundDisk
    BY <1>1 DEF Good, Running, CallState
  <2>2. cells \in Cluster
    BY <1>6, <2>1 DEF SoundDisk
  <2> HIDE DEF cells
  <2>3. QED
    BY <2>2, Sizes DEF Cluster
<1>13. a \in 1 .. Len(cells) + 1 /\ b \in a - 1 .. Len(cells) /\ (b - a) + 1 = n
  <2>1. \A p, x, y \in Nat : p + x <= y => /\ p + 1 \in 1 .. y + 1 /\ p + x \in (p + 1) - 1 .. y
                                          /\ ((p + x) - (p + 1)) + 1 = x
    OBVIOUS
  <2>2. f.cluster_position \in Nat
    BY <1>5
  <2> HIDE DEF cells
  <2>3. QED
    BY <1>5, <1>11, <1>12, <2>1, <2>2
<1>14. s \in Seq(SoundCell) /\ Len(s) = n /\ \A j \in 1 .. n : s[j] = cells[f.cluster_position + j]
  <2>1. \A j \in 1 .. n : a + j - 1 = f.cluster_position + j
    BY <1>5, <1>11
  <2>2. f.cluster_position \in Nat
    BY <1>5
  <2> HIDE DEF cells, a, b
  <2>3. s \in Seq(SoundCell) /\ Len(s) = b - a + 1 /\ \A j \in 1 .. b - a + 1 : s[j] = cells[a + j - 1]
    BY <1>12, <1>13, SubSeqElements
  <2> HIDE DEF s
  <2>4. QED
    BY <1>13, <2>1, <2>3
<1>15. t.data = u.data \o s
  BY <1>9
<1> HIDE DEF s
<1>16. /\ Len(t.data) = Len(u.data) + n
       /\ \A j \in 1 .. Len(u.data) : t.data[j] = u.data[j]
       /\ \A j \in 1 .. n : t.data[Len(u.data) + j] = cells[f.cluster_position + j]
  <2>1. u.data \in Seq(SoundCell \cup Nat)
    BY <1>1 DEF Good, Running, CallState
  <2>2. s \in Seq(SoundCell \cup Nat)
    BY <1>14
  <2> DEFINE y == u.data
  <2>3. y \in Seq(SoundCell \cup Nat) /\ t.data = y \o s
    BY <1>15, <2>1
  <2> HIDE DEF y
  <2>4. /\ Len(t.data) = Len(y) + Len(s)
        /\ \A j \in 1 .. Len(y) : t.data[j] = y[j]
        /\ \A j \in 1 .. Len(s) : t.data[Len(y) + j] = s[j]
    BY <2>2, <2>3, ConcatElements
  <2> HIDE DEF cells, f
  <2>5. QED
    BY <1>14, <2>4 DEF y
<1>17. g.position = f.position + n /\ (g.cluster_position < CellsPerCluster)
  <2>1. \/ Stands(g, f, f.position + n, 0, fat32_get_next_cluster(u.fat, f.current_cluster))
        \/ /\ f.cluster_position + n < CellsPerCluster
           /\ Stands(g, f, f.position + n, f.cluster_position + n, f.current_cluster)
    <3>1. f.cluster_position + n >= CellsPerCluster \/ f.cluster_position + n < CellsPerCluster
      BY <1>5, <1>11
    <3>2. Moved(g, f, u, n)
      BY <1>9
    <3>3. QED
      BY <3>1, <3>2, Zenon DEF Moved
  <2>2. QED
    BY <1>5, <1>11, <2>1 DEF Stands
<1>18. \A j \in 1 .. n : cells[f.cluster_position + j] = CellOf(m, z, f.position + j - 1)
  <2>1. CASE \E q, r : AtCell(f, z, q, r) /\ q < Len(z)
    <3>1. PICK q, r : AtCell(f, z, q, r) /\ q < Len(z)
      BY <2>1
    <3>2. /\ q \in Nat /\ r \in Nat /\ f.position = q * CellsPerCluster + r
          /\ f.current_cluster = z[q + 1] /\ f.cluster_position = r
      BY <1>5, <1>6, <3>1 DEF AtCell, Nth
    <3> DEFINE p == f.position
    <3> HIDE DEF f, z, m
    <3>5. n \in Nat /\ r + n <= CellsPerCluster /\ q \in Nat /\ r \in Nat /\ p = q * CellsPerCluster + r
      BY <1>11, <3>2
    <3> HIDE DEF p
    <3>6. AlongChain(m, z, p, q, r, n)
      BY <3>5, TurnCells
    <3>3. \A j \in 1 .. n : CellOf(m, z, f.position + j - 1) = m[z[q + 1]][r + j]
      BY <3>6 DEF p, AlongChain
    <3>4. QED
      BY <3>2, <3>3 DEF cells
  <2>2. CASE \E q : AtEdge(f, z, q)
    <3>1. f.cluster_position = CellsPerCluster
      BY <2>2 DEF AtEdge
    <3>2. n = 0
      BY <1>5, <1>11, <3>1
    <3>3. QED
      BY <3>2
  <2>3. QED
    BY <1>6, <2>1, <2>2
<1>19. \A j \in 1 .. Len(t.data) : t.data[j] = CellOf(m, z, P + j - 1)
  <2> SUFFICES ASSUME NEW j \in 1 .. Len(t.data) PROVE t.data[j] = CellOf(m, z, P + j - 1)
    OBVIOUS
  <2> HIDE DEF m, z, cells
  <2>1. CASE j <= Len(u.data)
    BY <1>1, <1>2, <1>16, <2>1
  <2>2. CASE j > Len(u.data)
    <3> DEFINE h == j - Len(u.data)
    <3>3. \A x, y, p, e \in Nat : x > y /\ x <= y + e =>
              x - y \in 1 .. e /\ x = y + (x - y) /\ p + x - 1 = (p + y) + (x - y) - 1
      OBVIOUS
    <3>1. h \in 1 .. n /\ j = Len(u.data) + h /\ P + j - 1 = f.position + h - 1
      <4>1. j \in Nat /\ j <= Len(u.data) + n /\ Len(u.data) \in Nat /\ P \in Nat /\ n \in Nat
        BY <1>1, <1>5, <1>11, <1>16
      <4>2. f.position = P + Len(u.data)
        BY <1>2
      <4> DEFINE y == Len(u.data)
      <4> HIDE DEF P, f
      <4>3. j \in Nat /\ j <= y + n /\ y \in Nat /\ P \in Nat /\ n \in Nat /\ j > y /\ f.position = P + y
        BY <2>2, <4>1, <4>2
      <4> HIDE DEF y
      <4>4. j - y \in 1 .. n /\ j = y + (j - y) /\ P + j - 1 = (P + y) + (j - y) - 1
        BY <3>3, <4>3
      <4>5. QED
        BY <4>3, <4>4 DEF y
    <3> HIDE DEF h, f, P
    <3>2. QED
      BY <1>16, <1>18, <3>1
  <2>3. QED
    BY <1>1, <1>11, <1>16, <2>1, <2>2
<1>20. g.position = P + Len(t.data) /\ Len(t.data) <= size
  <2> HIDE DEF f, P
  <2>1. QED
    BY <1>1, <1>2, <1>5, <1>11, <1>16, <1>17
<1>21. \/ Len(t.data) >= i + 1
       \/ Len(t.data) >= (i + 1) - 1 /\ g.cluster_position < CellsPerCluster
  <2> HIDE DEF f, P
  <2>1. QED
    BY <1>1, <1>2, <1>5, <1>11, <1>16, <1>17
<1>22. QED
  BY <1>3, <1>9, <1>10, <1>19, <1>20, <1>21 DEF Fetched

\* A turn is idle only when all is read.
LEMMA FetchedAll ==
  ASSUME NEW k, Fine(k), NEW fd \in Fd, Live(k.open[fd]), NEW size \in Int, NEW u, NEW i,
         Fetched(u, k, fd, size, i), ReadEnds(u, fd, size)
  PROVE  Len(u.data) >= size
<1> DEFINE f == u.open[fd]
<1>1. /\ Len(u.data) \in Nat /\ f \in SoundFile /\ u.ret = 0
      /\ ChainOfHandle(k.fat, f) /\ TableOK(k.fat)
      /\ f.position + (size - Len(u.data)) <= f.file_size
  BY BeforeTurn
<1>2. CASE Len(u.data) < size
  <2>1. f.position \in Nat /\ f.file_size \in Nat
    <3> HIDE DEF f
    <3>1. QED
      BY <1>1 DEF SoundFile
  <2>2. f.position < f.file_size
    BY <1>1, <1>2, <2>1
  <2> HIDE DEF f
  <2>3. f.current_cluster < FAT32_END_CLUSTER /\ f.current_cluster \in OnDisk
    BY <1>1, <2>2, CursorInside
  <2>4. f.current_cluster \in Nat /\ FAT32_END_CLUSTER \in Nat
    BY <2>3, Sizes DEF OnDisk
  <2>5. f.current_cluster >= FAT32_END_CLUSTER
    BY <1>1, <1>2 DEF ReadEnds, f
  <2>6. QED
    BY <2>3, <2>4, <2>5
<1>3. QED
  BY <1>1, <1>2

\* What is to be read: up to wanted cells of what is left of the file.
ToRead(f, wanted) == IF f.position >= f.file_size THEN 0 ELSE Least(wanted, f.file_size - f.position)

LEMMA ReadYields ==
  ASSUME NEW k, Fine(k), NEW fd \in Fd, Live(k.open[fd]), k.fault = NoFault, NEW wanted \in Nat,
         NEW t, t = fat32_read(k, fd, wanted), NEW f, f = k.open[fd],
         NEW z, z = Chain(k.fat, f.start_cluster)
  PROVE  /\ DOMAIN t.data = 1 .. ToRead(f, wanted)
         /\ \A j \in 1 .. ToRead(f, wanted) :
                t.data[j] = CellOf(k.disk.cluster, z, f.position + j - 1)
<1> DEFINE size == Least(wanted, f.file_size - f.position)
           N == wanted + 1
<1>1. Good(k) /\ f \in SoundFile /\ HandlesOK(k.disk.cluster, k.fat, k.open)
      /\ k.open \in [Fd -> SoundFile]
  BY FirmIs DEF Fine
<1>2. Good(t) /\ \E w : Reading(w, k, fd, wanted, t)
  BY <1>1, ReadOK
<1>3. PICK w : Reading(w, k, fd, wanted, t)
  BY <1>2
<1>4. f.file_size \in Nat /\ f.position \in Nat
  BY <1>1 DEF SoundFile
<1>5. CASE f.position >= f.file_size
  <2>1. t.data = << >>
    BY <1>3, <1>5 DEF Reading
  <2>2. ToRead(f, wanted) = 0
    BY <1>5 DEF ToRead
  <2>3. QED
    BY <2>1, <2>2
<1>6. CASE ~(f.position >= f.file_size)
  <2>1. /\ Good(w[0]) /\ Same(w[0], k) /\ w[0].open = k.open /\ w[0].data = << >> /\ w[0].ret = 0
        /\ t = w[N]
        /\ \A i \in 1 .. N : \/ w[i] = w[i - 1] /\ ReadEnds(w[i], fd, size)
                             \/ /\ Len(w[i - 1].data) < size
                                /\ w[i] = ReadTurn(w[i - 1], fd, size)
    BY <1>3, <1>6 DEF Reading
  <2>2. size \in Nat /\ f.position + size <= f.file_size /\ size <= wanted /\ size = ToRead(f, wanted)
    BY <1>4, <1>6 DEF Least, ToRead
  <2> HIDE DEF size
  <2>3. Fetched(w[0], k, fd, size, 0)
    <3>1. w[0].open = Reopened(k.open, fd, f)
      BY <1>1, <2>1, ReopenedSame
    <3>2. SameFile(f, f) /\ ChainOfHandle(k.fat, f)
      BY <1>1 DEF SameFile, HandlesOK, HandleOK
    <3>3. Len(w[0].data) = 0
      BY <2>1
    <3>4. f.position + (size - Len(w[0].data)) <= f.file_size
      BY <1>4, <2>2, <3>3
    <3>5. Alike(w[0], k) /\ w[0].fault = NoFault
      BY <2>1 DEF Same, Alike
    <3>6. ReadInv(w[0], k, fd, size)
      BY <1>1, <2>1, <3>1, <3>2, <3>3, <3>4, <3>5 DEF ReadInv
    <3>7. w[0].open[fd] = f
      BY <2>1
    <3>8. f.position = f.position + Len(w[0].data) /\ Len(w[0].data) <= size
          /\ Len(w[0].data) >= 0 /\ 1 .. Len(w[0].data) = {}
      BY <1>4, <2>2, <3>3
    <3>9. QED
      BY <2>1, <3>5, <3>6, <3>7, <3>8 DEF Fetched
  <2> DEFINE W == [i \in 0 .. N |-> <<w[i], i>>]
             S == {x \in CallState \X (0 .. N) : Fetched(x[1], k, fd, size, x[2])}
  <2>4. N \in Nat
    OBVIOUS
  <2> HIDE DEF N
  <2>5. W[0] \in S
    <3>1. w[0] \in CallState /\ 0 \in 0 .. N
      BY <2>1, <2>4 DEF Good, Running
    <3>2. W[0] = <<w[0], 0>>
      BY <2>4
    <3> HIDE DEF W
    <3>3. QED
      BY <2>3, <3>1, <3>2
  <2>6. ASSUME NEW i \in 1 .. N, W[i - 1] \in S PROVE W[i] \in S
    <3> DEFINE u == w[i - 1]
               h == i - 1
    <3>1. W[i] = <<w[i], i>> /\ W[h] = <<u, h>> /\ h \in Nat /\ h + 1 = i /\ i \in 0 .. N
      BY <2>4
    <3> HIDE DEF W
    <3>2. W[h] \in S
      BY <2>6
    <3>3. Fetched(u, k, fd, size, h)
      BY <3>1, <3>2
    <3>4. Fetched(w[i], k, fd, size, i)
      <4>1. CASE w[i] = u /\ ReadEnds(w[i], fd, size)
        <5>1. Len(u.data) >= size
          BY <2>2, <3>3, <4>1, FetchedAll
        <5>2. QED
          BY <3>3, <4>1, <5>1 DEF Fetched
      <4>2. CASE Len(u.data) < size /\ w[i] = ReadTurn(u, fd, size)
        <5> HIDE DEF u, h
        <5>1. Fetched(w[i], k, fd, size, h + 1)
          BY <2>2, <3>1, <3>3, <4>2, FetchedTurn
        <5>2. QED
          BY <3>1, <5>1
      <4>3. QED
        BY <2>1, <4>1, <4>2
    <3>5. w[i] \in CallState
      BY <3>4 DEF Fetched, ReadInv, Good, Running
    <3>6. QED
      BY <3>1, <3>4, <3>5
  <2>7. W[N] = <<t, N>>
    BY <2>1, <2>4
  <2> HIDE DEF W, S
  <2>8. W[N] \in S
    BY <2>4, <2>5, <2>6, StaysIn
  <2>9. Fetched(t, k, fd, size, N)
    BY <2>7, <2>8 DEF S
  <2>10. t.data \in Seq(SoundCell \cup Nat) /\ Len(t.data) <= size
         /\ \A j \in 1 .. Len(t.data) : t.data[j] = CellOf(k.disk.cluster, z, f.position + j - 1)
    BY <1>2, <2>9 DEF Fetched, Good, Running, CallState
  <2>11. Len(t.data) \in Nat /\ (Len(t.data) >= size \/ Len(t.data) >= N \/ Len(t.data) >= N - 1)
    BY <2>9 DEF Fetched, ReadInv
  <2>12. Len(t.data) = size
    BY <2>2, <2>10, <2>11 DEF N
  <2>13. DOMAIN t.data = 1 .. Len(t.data)
    BY <2>10
  <2>14. QED
    BY <2>2, <2>10, <2>12, <2>13
<1>7. QED
  BY <1>5, <1>6

\* What a byte's cell holds.
ValueOf(cell) == IF cell.kind = "byte" THEN cell.value ELSE 0

\* x is a part of s, a function on 1 .. n.
IsPart(x, s, n, p, l) ==
    /\ DOMAIN s = 1 .. n /\ s = [i \in 1 .. n |-> s[i]]
    /\ x = [j \in 1 .. l |-> x[j]] /\ \A j \in 1 .. l : x[j] = s[p + j]

LEMMA PartIs ==
  ASSUME NEW n \in Nat, NEW s, NEW p \in Nat, NEW l \in Nat, p + l <= n,
         NEW x, IsPart(x, s, n, p, l)
  PROVE  x = SubSeq(s, p + 1, p + l)
<1> USE DEF IsPart
<1>1. SubSeq(s, p + 1, p + l) = [j \in 1 .. (p + l) - (p + 1) + 1 |-> s[(p + 1) + j - 1]]
  OBVIOUS
<1>2. (p + l) - (p + 1) + 1 = l /\ \A j \in 1 .. l : (p + 1) + j - 1 = p + j
  OBVIOUS
<1>3. QED
  BY <1>1, <1>2

\* A read through a handle yields what the file has from the handle's position
\* on: the loop of fat32_read follows the chain, takes what is left of each
\* cluster and leaves out nothing, wherever write and seek left the cursor.
THEOREM ReadsYieldTheFile == Spec => []ReadsBack
<1>1. Fat32Inv /\ Steady => ReadsBack
  <2> SUFFICES ASSUME Fat32Inv, Steady, Unharmed, mem.mounted,
                      NEW fd \in Fd, InStep(mem.open[fd]), NEW size \in ReadSizes
               PROVE  LET f == mem.open[fd]
                          content == Content(disk, mem.fat, CellAt(disk, f.dir_entry))
                          data == fat32_read(Begin(NoFault), fd, size).data
                      IN  [i \in DOMAIN data |-> IF data[i].kind = "byte" THEN data[i].value ELSE 0]
                              = SubSeq(content, f.position + 1, Least(f.position + size, f.file_size))
    BY DEF ReadsBack
  <2> DEFINE f == mem.open[fd]
             e == CellAt(disk, f.dir_entry)
             k == Begin(NoFault)
             t == fat32_read(k, fd, size)
             data == t.data
             z == Chain(mem.fat, f.start_cluster)
             l == ToRead(f, size)
             p == f.position
             n == f.file_size
             content == Content(disk, mem.fat, e)
             got == [i \in DOMAIN data |-> ValueOf(data[i])]
  <2>1. Fine(k) /\ k.fat = mem.fat /\ k.open = mem.open /\ k.fault = NoFault /\ k.disk = disk
    <3>1. Fine(k) /\ k.fat = mem.fat /\ k.open = mem.open
      BY NoFaultOK, BeginFine
    <3>2. QED
      BY <3>1 DEF Begin
  <2>2. Live(f) /\ e.start = f.start_cluster /\ e.size = f.file_size
    BY DEF InStep, Live
  <2>3. size \in Nat
    BY Fat32Assumption
  <2>4. f \in SoundFile /\ ChainOfHandle(mem.fat, f) /\ TableOK(mem.fat) /\ disk \in SoundDisk
    <3>1. k.open \in [Fd -> SoundFile] /\ TableOK(k.fat) /\ k.disk \in SoundDisk
          /\ HandlesOK(k.disk.cluster, k.fat, k.open)
      BY <2>1, FirmIs DEF Fine
    <3>2. QED
      BY <2>1, <2>2, <3>1 DEF HandlesOK, HandleOK
  <2> HIDE DEF k, e
  <2>5. /\ DOMAIN data = 1 .. l
        /\ \A j \in 1 .. l : data[j] = CellOf(disk.cluster, z, p + j - 1)
    BY <2>1, <2>2, <2>3, ReadYields
  <2>6. p \in Nat /\ n \in Nat /\ p <= n /\ n <= Len(z) * CellsPerCluster
    <3> HIDE DEF f
    <3>1. QED
      BY <2>4 DEF SoundFile, ChainOfHandle, Room
  <2>7. l \in Nat /\ Least(p + size, n) = p + l /\ p + l <= n
    <3> HIDE DEF f
    <3>1. QED
      BY <2>3, <2>6 DEF ToRead, Least
  <2> DEFINE Bytes == [i \in 1 .. n |-> ValueOf(CellAt(disk,
                          <<z[((i - 1) \div CellsPerCluster) + 1], ((i - 1) % CellsPerCluster) + 1>>))]
  <2>8. content = Bytes
    BY <2>2, Zenon DEF Content, ValueOf
  <2> HIDE DEF f, t, l, p, n, z, content
  <2>9. \A i \in 1 .. n : content[i] = ValueOf(CellOf(disk.cluster, z, i - 1))
    <3> SUFFICES ASSUME NEW i \in 1 .. n PROVE content[i] = ValueOf(CellOf(disk.cluster, z, i - 1))
      OBVIOUS
    <3> DEFINE q == (i - 1) \div CellsPerCluster
    <3>1. CellsPerCluster \in Nat \ {0} /\ i - 1 \in Nat /\ f.start_cluster # 0
      BY <2>4, <2>6, Sizes, CursorIs DEF n, z
    <3>2. IsChain(mem.fat, z) /\ Len(z) \in Nat
      BY <2>4, <3>1, CursorIs DEF z
    <3>3. q \in 0 .. Len(z) - 1
      <4>1. Len(z) * CellsPerCluster \in Nat
        BY <3>1, <3>2
      <4>2. i - 1 < Len(z) * CellsPerCluster
        BY <2>6, <3>1, <4>1
      <4>3. QED
        BY <3>1, <3>2, <4>2, QuotientBelow
    <3> HIDE DEF q
    <3>4. z[q + 1] \in OnDisk
      <4>1. q + 1 \in 1 .. Len(z)
        BY <3>2, <3>3
      <4>2. QED
        BY <2>4, <3>2, <4>1, ChainElements
    <3>5. CellAt(disk, <<z[q + 1], ((i - 1) % CellsPerCluster) + 1>>) = CellOf(disk.cluster, z, i - 1)
      BY <3>4 DEF CellAt, CellOf, q
    <3>6. content[i] = ValueOf(CellAt(disk, <<z[q + 1], ((i - 1) % CellsPerCluster) + 1>>))
      BY <2>8 DEF q
    <3>7. QED
      BY <3>5, <3>6
  <2>10. DOMAIN content = 1 .. n /\ content = [i \in 1 .. n |-> content[i]]
    BY <2>8
  <2>11. got = [j \in 1 .. l |-> got[j]] /\ \A j \in 1 .. l : got[j] = content[p + j]
    <3>1. got = [j \in 1 .. l |-> ValueOf(data[j])]
      BY <2>5
    <3>2. \A j \in 1 .. l : p + j \in 1 .. n /\ (p + j) - 1 = p + j - 1
      BY <2>6, <2>7
    <3> HIDE DEF data
    <3>3. \A j \in 1 .. l : ValueOf(data[j]) = content[p + j]
      BY <2>5, <2>9, <3>2
    <3>4. QED
      BY <3>1, <3>3
  <2> HIDE DEF got
  <2>15. IsPart(got, content, n, p, l)
    BY <2>10, <2>11 DEF IsPart
  <2>12. got = SubSeq(content, p + 1, p + l)
    BY <2>6, <2>7, <2>15, PartIs
  <2>13. [i \in DOMAIN data |-> IF data[i].kind = "byte" THEN data[i].value ELSE 0]
             = SubSeq(content, p + 1, Least(p + size, n))
    BY <2>7, <2>12 DEF got, ValueOf
  <2>14. QED
    BY <2>13 DEF f, t, k, e, content, p, n
<1>2. QED
  BY StaysSound, <1>1, PTL

-----------------------------------------------------------------------------
(* What is taken is used.                                                  *)

\* A directory lists every entry in its cells: none is behind its end mark.
LEMMA PlacesAreEntries ==
  ASSUME NEW d \in SoundDisk, NEW fat, Sound(d.cluster, fat), NEW h \in Heads(d.cluster),
         NEW a \in Places(d.cluster), a[1] \in Owned(fat, h)
  PROVE  a \in EntriesOf(d, fat, h) /\ CellAt(d, a) = At(d.cluster, a)
<1> DEFINE W == Locations(fat, h)
           m == d.cluster
<1>1. AreLocations(W, Chain(fat, h)) /\ HeadOK(m, fat, h)
  BY HeadsBegin, LocationsAre DEF Sound
<1>2. \A x \in CellPlace : CellAt(d, x) = At(m, x) /\ KindAt(d, x) = At(m, x).kind
  BY CellIsAt DEF KindAt
<1>3. a \in CellPlace /\ IsListed(At(m, a))
  BY DEF Places
<1> HIDE DEF W
<1>4. PICK j \in DOMAIN W : W[j] = a
  BY <1>1, <1>3 DEF AreLocations, Owned
<1>5. \A i \in DOMAIN W : i \in Nat /\ W[i] \in CellPlace
  BY <1>1 DEF AreLocations
<1>6. j \in Listed(d, W)
  BY <1>2, <1>3, <1>4 DEF Listed, IsListed
<1>7. ASSUME NEW end \in DOMAIN W, KindAt(d, W[end]) = "zero" PROVE j < end
  <2>1. At(m, W[end]).kind = "zero" /\ At(m, W[j]).kind = "entry"
    BY <1>2, <1>3, <1>4, <1>5, <1>7 DEF IsListed
  <2>2. ~(end < j) /\ end # j
    BY <1>1, <2>1 DEF HeadOK, Tidy, W
  <2>3. QED
    BY <1>5, <2>2
<1>8. a \in EntriesOf(d, fat, h)
  BY <1>4, <1>6, <1>7 DEF EntriesOf, W
<1>9. QED
  BY <1>2, <1>3, <1>8

LEMMA PlacesAreAll ==
  ASSUME NEW d \in SoundDisk, NEW fat, Sound(d.cluster, fat), NEW h \in Tops(d.cluster, fat),
         NEW a \in Places(d.cluster), a[1] \in Owned(fat, h)
  PROVE  a \in AllEntries(d, fat) /\ CellAt(d, a) = At(d.cluster, a)
<1>1. h \in Heads(d.cluster) /\ ROOT_CLUSTER \in Heads(d.cluster)
  BY TopIs, HeadIs
<1>2. a \in EntriesOf(d, fat, h) /\ CellAt(d, a) = At(d.cluster, a)
  BY <1>1, PlacesAreEntries
<1>3. h = ROOT_CLUSTER \/ h \in Subdirectories(d, fat)
  <2>1. ASSUME NEW b \in Places(d.cluster), At(d.cluster, b).dir, At(d.cluster, b).start = h,
               b[1] \in Owned(fat, ROOT_CLUSTER)
        PROVE  h \in Subdirectories(d, fat)
    <3>1. b \in EntriesOf(d, fat, ROOT_CLUSTER) /\ CellAt(d, b) = At(d.cluster, b)
      BY <1>1, <2>1, PlacesAreEntries
    <3>2. QED
      BY <2>1, <3>1 DEF Subdirectories
  <2>2. QED
    BY <2>1, TopIs
<1>4. QED
  BY <1>2, <1>3 DEF AllEntries

\* As long as nothing fails, every cluster that the table says is taken is in the
\* root directory or in the chain of a file or directory that a walk of the
\* directories finds: fat32_remove and fat32_rmdir free whole chains,
\* fat32_write lists the chain it has begun, fat32_create_file and
\* fat32_mkdir list what they have allocated.
THEOREM NothingIsLost == Spec => []NoLostClusters
<1>1. Fat32Inv /\ Steady => NoLostClusters
  <2> DEFINE m == disk.cluster
             fat == disk.fat[1]
  <2> SUFFICES ASSUME Fat32Inv, Steady, causes = {}, NEW c \in ROOT_CLUSTER .. FatEntries - 1,
                      fat[c] # FAT32_FREE_CLUSTER
               PROVE  \E start \in {ROOT_CLUSTER} \cup {CellAt(disk, at).start :
                                                           at \in AllEntries(disk, fat)} :
                          c \in ClustersOf(Chain(fat, start))
    BY DEF NoLostClusters
  <2>1. disk \in SoundDisk /\ Sound(m, fat) /\ Whole(m, fat, {})
    BY DEF Fat32Inv, Typed, Steady, Unharmed
  <2>2. c \in OnDisk /\ fat[c] # 0
    <3>1. c \in Number /\ c >= 2 /\ fat[c] # 0
      BY DEF Number, ROOT_CLUSTER, FAT32_FREE_CLUSTER
    <3>2. TableOK(fat)
      BY <2>1 DEF Sound
    <3> HIDE DEF fat
    <3>3. QED
      BY <3>1, <3>2 DEF TableOK
  <2> HIDE DEF fat, m
  <2>3. PICK s \in Starts(m) : c \in Owned(fat, s)
    BY <2>1, <2>2 DEF Whole, HasOwner
  <2>4. ASSUME NEW a \in Places(m), At(m, a).start = s
        PROVE  a \in AllEntries(disk, fat) /\ CellAt(disk, a).start = s
    <3>1. PICK h \in Tops(m, fat) : a[1] \in Owned(fat, h)
      BY <2>1, <2>4 DEF Whole
    <3>2. a \in AllEntries(disk, fat) /\ CellAt(disk, a) = At(m, a)
      BY <2>1, <2>4, <3>1, PlacesAreAll DEF m
    <3>3. QED
      BY <2>4, <3>2
  <2>5. s = ROOT_CLUSTER \/ \E a \in AllEntries(disk, fat) : CellAt(disk, a).start = s
    BY <2>3, <2>4, StartIs
  <2>6. QED
    BY <2>3, <2>5 DEF Owned
<1>2. QED
  BY StaysSound, <1>1, PTL

=============================================================================
