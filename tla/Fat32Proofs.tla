----------------------------- MODULE Fat32Proofs -----------------------------
(***************************************************************************)
(* Theorems about Fat32 for every size of disk, cluster and table, every   *)
(* number of copies and handles, every set of names, and any number of     *)
(* faults.                                                                 *)
(***************************************************************************)
EXTENDS Fat32, DataLemmas

-----------------------------------------------------------------------------
(* The inductive invariant.  A number of a cluster that is kept anywhere is *)
(* that of an entry of the table.                                          *)

Number == 0 .. FatEntries - 1
Link == Number \cup {FAT32_END_CLUSTER}
Table == [Number -> Link]

\* Where a cell is; the offset is 0 before a lookup has found anything.
Spot == Number \X (1 .. CellsPerCluster)
Place == Number \X (0 .. CellsPerCluster)

EntryOf(names) ==
    [kind : {"entry"}, name : names, dir : BOOLEAN, start : Number, size : Nat]

SoundCell == {Zero, Deleted, Junk} \cup [kind : {"byte"}, value : Nat]
             \cup [kind : {"lfn"}, name : Name, checksum_of : ShortName]
             \cup EntryOf(ShortName)

Cluster == [1 .. CellsPerCluster -> SoundCell]
SoundDisk == [fat : [1 .. NumFats -> Table], cluster : [OnDisk -> Cluster]]

SoundFile == [in_use : BOOLEAN, start_cluster : Number, current_cluster : Link,
              last_cluster : Number, position : Nat,
              cluster_position : 0 .. CellsPerCluster, file_size : Nat,
              dir_entry : Place, removed : BOOLEAN]

Fault == [at : Nat, kind : FaultKind \cup {"none"}]
Hit == {<< >>, <<"read">>, <<"memory">>, <<"clear">>, <<"dots">>, <<"unlist">>,
        <<"unlist_lfn">>, <<"data">>, <<"update">>}
       \cup {<<"entry", c>> : c \in Int} \cup {<<"fat", c, n>> : c \in Int, n \in Int}
Found == {Zero} \cup EntryOf(ShortName \cup {NoShort})

CallState ==
    [disk : SoundDisk, fat : Table, open : [Fd -> SoundFile], ok : BOOLEAN, ret : Int,
     made : Nat, fault : Fault, hit : Hit, dead : BOOLEAN, full : BOOLEAN, off : BOOLEAN,
     entry : Found, at : Place, dir : Number, short : ShortName \cup {NoShort},
     lfn : BOOLEAN, locations : Seq(Spot), data : Seq(SoundCell \cup Nat)]

Mirrored(k) == \A copy \in 1 .. NumFats : k.disk.fat[copy] = k.fat

\* A call has one fault, so nothing is hit after the first hit.
Running(k) ==
    /\ k \in CallState
    /\ k.dead => k.hit # << >>
    /\ k.hit # << >> => k.made >= k.fault.at

\* t comes after k in the call: a hit stays, and without power nothing is written.
Later(t, k) ==
    /\ t.fault = k.fault
    /\ k.hit # << >> => t.hit = k.hit /\ t.dead = k.dead
    /\ k.dead => t.dead /\ t.disk = k.disk

\* No transfer has failed in any call so far, and no cluster was off the disk.
Clean == IoFaults \cup (causes \cap {"off the disk"}) = {}

\* What holds of a call between any two of its operators: as long as nothing was
\* hit, in this call or before, the copies are those of the table.
Good(k) == Running(k) /\ (Clean /\ k.hit = << >> => k.off \/ Mirrored(k))

\* What a transfer leaves alone.
Kept(t, k) ==
    /\ Later(t, k)
    /\ t.open = k.open /\ t.entry = k.entry /\ t.at = k.at /\ t.dir = k.dir
    /\ t.short = k.short /\ t.lfn = k.lfn
    /\ t.locations = k.locations /\ t.data = k.data

\* t comes after k and has the tables that k has.
Follows(t, k) ==
    /\ Running(t) /\ Kept(t, k)
    /\ t.disk.fat = k.disk.fat /\ t.fat = k.fat /\ t.off = k.off
    /\ t.hit = << >> => k.hit = << >>

\* t comes after k, and neither the disk nor the memory changed.
Quiet(t, k) ==
    /\ Running(t) /\ Later(t, k)
    /\ t.disk = k.disk /\ t.fat = k.fat /\ t.off = k.off /\ t.open = k.open /\ t.dead = k.dead
    /\ t.hit = << >> => k.hit = << >>

\* Nothing happened from k to t but assignments to variables of the call.
Same(t, k) ==
    /\ t.disk = k.disk /\ t.fat = k.fat /\ t.off = k.off
    /\ t.hit = k.hit /\ t.dead = k.dead /\ t.fault = k.fault

\* t comes after k, and at most handles changed.
Still(t, k) ==
    /\ Running(t) /\ Later(t, k)
    /\ t.disk = k.disk /\ t.fat = k.fat /\ t.off = k.off /\ t.dead = k.dead
    /\ t.hit = << >> => k.hit = << >>

-----------------------------------------------------------------------------
(* Constants                                                               *)

LEMMA Sizes ==
  /\ CellsPerCluster \in Nat /\ CellsPerCluster >= 2
  /\ FatEntries \in Nat /\ DiskEnd \in Nat /\ DiskEnd > 3 /\ DiskEnd <= FatEntries
  /\ FAT32_END_CLUSTER \in Nat /\ FAT32_END_CLUSTER > FatEntries
  /\ NumFats \in Nat \ {0} /\ EntriesPerSector \in Nat \ {0}
BY Fat32Assumption

LEMMA Numbers ==
  /\ Number \in SUBSET Nat /\ Link \in SUBSET Nat /\ Number \in SUBSET Link
  /\ OnDisk \in SUBSET Number /\ FAT32_END_CLUSTER \in Link /\ FAT32_END_CLUSTER \notin Number
  /\ FAT32_FREE_CLUSTER \in Number /\ ROOT_CLUSTER \in Number /\ 0 \in Number
  /\ \A c \in Link : IsCluster(c) => c \in Number /\ c >= 2
  /\ \A c \in Link : c < FAT32_END_CLUSTER => c \in Number
BY Sizes DEF Number, Link, OnDisk, FAT32_FREE_CLUSTER, ROOT_CLUSTER, IsCluster

LEMMA TotalClusters == total_clusters \in Nat
BY Fat32Assumption DEF total_clusters

-----------------------------------------------------------------------------
(* Fields of the state of a call                                           *)

LEMMA FollowsGood ==
  ASSUME NEW k, Good(k), NEW t, Follows(t, k)
  PROVE  Good(t)
BY DEF Good, Follows, Mirrored

LEMMA FollowsOn ==
  ASSUME NEW k, NEW t, NEW u, Follows(t, k), Follows(u, t)
  PROVE  Follows(u, k)
BY DEF Follows, Kept, Later

LEMMA WithRet ==
  ASSUME NEW k, Running(k), NEW r \in Int, NEW t, t = [k EXCEPT !.ret = r]
  PROVE  Follows(t, k) /\ t.disk = k.disk /\ t.ret = r /\ t.ok = k.ok /\ t.hit = k.hit
         /\ t.dead = k.dead
<1>1. k \in CallState
  BY DEF Running
<1>2. t \in CallState
  BY <1>1 DEF CallState
<1>3. Kept(t, k) /\ t.disk = k.disk /\ t.fat = k.fat /\ t.ret = r /\ t.ok = k.ok
      /\ t.hit = k.hit /\ t.off = k.off /\ t.dead = k.dead
  BY <1>1 DEF CallState, Kept, Later
<1>4. QED
  BY <1>2, <1>3 DEF Running, Follows

LEMMA WithOk ==
  ASSUME NEW k, Running(k), NEW b \in BOOLEAN, NEW t, t = [k EXCEPT !.ok = b]
  PROVE  Follows(t, k) /\ t.disk = k.disk /\ t.ret = k.ret /\ t.ok = b /\ t.hit = k.hit
         /\ t.dead = k.dead
<1>1. k \in CallState
  BY DEF Running
<1>2. t \in CallState
  BY <1>1 DEF CallState
<1>3. Kept(t, k) /\ t.disk = k.disk /\ t.fat = k.fat /\ t.ret = k.ret
      /\ t.hit = k.hit /\ t.off = k.off /\ t.dead = k.dead
  BY <1>1 DEF CallState, Kept, Later
<1>4. t.ok = b
  BY <1>1 DEF CallState
<1>5. QED
  BY <1>2, <1>3, <1>4 DEF Running, Follows

\* How a transfer ends: it succeeds, or there is no power, or it is the one hit.
Transferred(t, k, what) ==
    /\ t.ok => t.hit = k.hit /\ ~k.dead /\ ~t.dead
    /\ ~t.ok /\ ~k.dead => /\ k.hit = << >> /\ t.hit = what
                           /\ t.dead <=> k.fault.kind = "power"

\* A transfer changes what is said of it.
LEMMA TransferOK ==
  ASSUME NEW k, Running(k), NEW what \in Hit, what # << >>, NEW kinds,
         NEW t, t = Transfer(k, what, kinds)
  PROVE  /\ Follows(t, k) /\ t.disk = k.disk /\ t.ret = k.ret /\ t.fault = k.fault
         /\ t.ok \in BOOLEAN /\ (~t.ok => t.hit # << >>)
         /\ Transferred(t, k, what) /\ (Landed(k, t) => ~t.dead)
         /\ "power" \notin kinds => t.dead = k.dead
<1> DEFINE struck == k.made + 1 = k.fault.at /\ k.fault.kind \in kinds
           m == k.made + 1
           ok == ~k.dead /\ ~struck
           h == IF struck THEN what ELSE k.hit
           d == k.dead \/ (struck /\ k.fault.kind = "power")
<1>1. k \in CallState
  BY DEF Running
<1>2. t = [k EXCEPT !.made = m, !.ok = ok, !.hit = h, !.dead = d]
  BY <1>1 DEF Transfer, CallState
<1>3. m \in Nat /\ h \in Hit
  BY <1>1 DEF CallState
<1>4. ok \in BOOLEAN /\ d \in BOOLEAN
  OBVIOUS
<1>5. (d => h # << >>) /\ (h = << >> => k.hit = << >>) /\ (~ok => h # << >>)
  BY DEF Running
<1>12. k.made \in Nat /\ k.fault.at \in Nat /\ k.dead \in BOOLEAN
  BY <1>1 DEF CallState, Fault
<1>13. k.hit # << >> => ~struck /\ k.made >= k.fault.at
  BY <1>12 DEF Running
<1>14. (h # << >> => m >= k.fault.at) /\ (k.hit # << >> => h = k.hit /\ d = k.dead) /\ (k.dead => d)
  BY <1>12, <1>13
<1>15. /\ ok => h = k.hit /\ ~k.dead /\ ~d
       /\ ~ok /\ ~k.dead => k.hit = << >> /\ h = what /\ (d <=> k.fault.kind = "power")
       /\ (h # k.hit /\ k.fault.kind = "late") => ~d
       /\ "power" \notin kinds => d = k.dead
  BY <1>12, <1>13 DEF Running
<1> HIDE DEF m, ok, h, d, struck
<1>6. t \in CallState
  BY <1>1, <1>2, <1>3, <1>4 DEF CallState
<1>8. t.hit = h
  BY <1>1, <1>2 DEF CallState
<1>9. t.dead = d
  BY <1>1, <1>2 DEF CallState
<1>10. t.ok = ok /\ t.made = m
  BY <1>1, <1>2 DEF CallState
<1>16. t.disk = k.disk /\ t.fat = k.fat /\ t.ret = k.ret /\ t.off = k.off /\ t.fault = k.fault
       /\ t.open = k.open /\ t.entry = k.entry /\ t.at = k.at /\ t.dir = k.dir
       /\ t.short = k.short /\ t.lfn = k.lfn /\ t.locations = k.locations /\ t.data = k.data
  BY <1>1, <1>2 DEF CallState
<1>7. Kept(t, k)
  BY <1>8, <1>9, <1>14, <1>16 DEF Kept, Later
<1>17. Running(t) /\ Follows(t, k)
  BY <1>5, <1>6, <1>7, <1>8, <1>9, <1>10, <1>14, <1>16 DEF Running, Follows
<1>18. Transferred(t, k, what) /\ (Landed(k, t) => ~t.dead)
  BY <1>8, <1>9, <1>10, <1>15, <1>16 DEF Transferred, Landed
<1>11. QED
  BY <1>4, <1>5, <1>8, <1>9, <1>10, <1>15, <1>16, <1>17, <1>18

LEMMA ReadClusterOK ==
  ASSUME NEW k, Running(k), NEW c, NEW t, t = fat32_read_cluster(k, c)
  PROVE  Follows(t, k) /\ t.disk = k.disk /\ t.ret = k.ret /\ t.ok \in BOOLEAN
         /\ (t.ok => c \in OnDisk /\ ~t.dead) /\ t.dead = k.dead
         /\ (c \in OnDisk /\ ~t.ok => t.hit # << >>)
<1>1. CASE c \in OnDisk
  <2>1. <<"read">> \in Hit /\ <<"read">> # << >>
    BY DEF Hit
  <2>2. t = Transfer(k, <<"read">>, {"error"})
    BY <1>1 DEF fat32_read_cluster
  <2>3. QED
    BY <1>1, <2>1, <2>2, TransferOK DEF Transferred
<1>2. CASE c \notin OnDisk
  <2>1. t = [k EXCEPT !.ok = FALSE]
    BY <1>2 DEF fat32_read_cluster
  <2>2. QED
    BY <1>2, <2>1, WithOk
<1>3. QED
  BY <1>1, <1>2

\* New cells of a cluster.
Refilled(m, c, cells) == [m EXCEPT ![c] = cells]
Filling(k, c, cells) == [k EXCEPT !.disk.cluster[c] = cells]

LEMMA WithCluster ==
  ASSUME NEW k, Running(k), ~k.dead, NEW c \in OnDisk, NEW cells \in Cluster,
         NEW t, t = Filling(k, c, cells)
  PROVE  Follows(t, k) /\ t.ret = k.ret /\ t.ok = k.ok /\ t.hit = k.hit /\ t.dead = k.dead
         /\ t.disk.cluster = Refilled(k.disk.cluster, c, cells)
<1> DEFINE d == [k.disk EXCEPT !.cluster = [k.disk.cluster EXCEPT ![c] = cells]]
<1>1. k \in CallState
  BY DEF Running
<1>2. k.disk \in SoundDisk
  BY <1>1 DEF CallState
<1>3. t = [k EXCEPT !.disk = d]
  BY <1>1, <1>2 DEF Filling, CallState, SoundDisk
<1>4. [k.disk.cluster EXCEPT ![c] = cells] \in [OnDisk -> Cluster]
  BY <1>2 DEF SoundDisk
<1>5. d \in SoundDisk /\ d.fat = k.disk.fat /\ d.cluster = [k.disk.cluster EXCEPT ![c] = cells]
  BY <1>2, <1>4 DEF SoundDisk
<1> HIDE DEF d
<1>6. t \in CallState /\ t.disk = d
  BY <1>1, <1>3, <1>5 DEF CallState
<1>10. t.fat = k.fat /\ t.ret = k.ret /\ t.ok = k.ok /\ t.made = k.made /\ t.fault = k.fault
       /\ t.hit = k.hit /\ t.off = k.off /\ t.dead = k.dead
       /\ t.open = k.open /\ t.entry = k.entry /\ t.at = k.at /\ t.dir = k.dir
       /\ t.short = k.short /\ t.lfn = k.lfn /\ t.locations = k.locations /\ t.data = k.data
  BY <1>1, <1>3 DEF CallState
<1>7. Kept(t, k)
  BY <1>10 DEF Kept, Later
<1>8. QED
  BY <1>5, <1>6, <1>7, <1>10 DEF Running, Follows, Refilled

\* How a write of a cluster ends.
Wrote(t, k, c, cells, what) ==
    /\ Transferred(t, k, what)
    /\ t.disk = k.disk \/ (~t.dead /\ t.disk.cluster = Refilled(k.disk.cluster, c, cells))
    /\ t.ok => t.disk.cluster = Refilled(k.disk.cluster, c, cells)
    /\ ~t.ok /\ k.fault.kind # "late" => t.disk = k.disk

LEMMA WriteClusterOK ==
  ASSUME NEW k, Running(k), NEW c, NEW cells, c \in OnDisk => cells \in Cluster,
         NEW what \in Hit, what # << >>, NEW t, t = fat32_write_cluster(k, c, cells, what)
  PROVE  /\ Follows(t, k) /\ t.ret = k.ret /\ t.ok \in BOOLEAN
         /\ t.ok => c \in OnDisk
         /\ ~t.ok => t.hit # << >> \/ c \notin OnDisk
         /\ c \in OnDisk => Wrote(t, k, c, cells, what)
<1>1. CASE c \in OnDisk
  <2> DEFINE u == Transfer(k, what, FaultKind)
  <2>1. /\ Follows(u, k) /\ u.ret = k.ret /\ u.disk = k.disk /\ u.fault = k.fault
        /\ Transferred(u, k, what)
        /\ u.ok \in BOOLEAN /\ (~u.ok => u.hit # << >>) /\ (Landed(k, u) => ~u.dead)
    BY TransferOK
  <2>2. t = IF Landed(k, u) THEN [u EXCEPT !.disk.cluster[c] = cells] ELSE u
    BY <1>1 DEF fat32_write_cluster
  <2> HIDE DEF u
  <2>3. Running(u)
    BY <2>1 DEF Follows
  <2>4. CASE Landed(k, u)
    <3>1. Follows(t, u) /\ t.ret = u.ret /\ t.ok = u.ok /\ t.hit = u.hit /\ t.dead = u.dead
          /\ t.disk.cluster = Refilled(u.disk.cluster, c, cells) /\ ~u.dead
      <4>1. ~u.dead /\ cells \in Cluster /\ t = Filling(u, c, cells)
        BY <1>1, <2>1, <2>2, <2>4 DEF Filling
      <4>2. QED
        BY <1>1, <2>3, <4>1, WithCluster
    <3>2. Transferred(t, k, what)
      BY <2>1, <3>1 DEF Transferred
    <3>3. u.ok \/ k.fault.kind = "late"
      BY <2>1, <2>4 DEF Landed
    <3>4. Wrote(t, k, c, cells, what)
      BY <2>1, <3>1, <3>2, <3>3 DEF Wrote
    <3>5. QED
      BY <1>1, <2>1, <3>1, <3>4, FollowsOn
  <2>5. CASE ~Landed(k, u)
    <3>1. t = u /\ ~u.ok
      BY <2>2, <2>5 DEF Landed
    <3>2. Wrote(t, k, c, cells, what)
      BY <2>1, <3>1 DEF Wrote
    <3>3. QED
      BY <1>1, <2>1, <3>1, <3>2
  <2>6. QED
    BY <2>4, <2>5
<1>2. CASE c \notin OnDisk
  <2>1. t = [k EXCEPT !.ok = FALSE]
    BY <1>2 DEF fat32_write_cluster
  <2>2. QED
    BY <1>2, <2>1, WithOk
<1>3. QED
  BY <1>1, <1>2

-----------------------------------------------------------------------------
(* The table goes to the disk                                              *)

\* One transfer takes all of it.
LEMMA AllSectors == Count = FatSectors
<1>1. FatSectors \in Nat /\ COUNT_RANGE \in Nat /\ FatSectors < COUNT_RANGE
  <2>1. FatEntries + EntriesPerSector - 1 \in Nat /\ EntriesPerSector \in Nat \ {0}
    BY Sizes
  <2>2. QED
    BY <2>1, TableAssumption DEF FatSectors
<1>2. \A a, b \in Nat : a < b => a % b = a
  OBVIOUS
<1>3. QED
  BY <1>1, <1>2 DEF Count

LEMMA Sectors ==
  FatSectors \in Nat \ {0} /\ \A c \in Number : SectorOf(c) \in 1 .. FatSectors
<1> DEFINE e == EntriesPerSector
           n == FatEntries + e - 1
<1>1. e \in Nat \ {0} /\ n \in Nat /\ FatEntries \in Nat /\ FatEntries > 3
  BY Sizes
<1>2. n \div e \in Nat /\ n % e \in 0 .. e - 1 /\ n = e * (n \div e) + (n % e)
  BY <1>1, Division
<1>3. FatSectors = n \div e
  BY DEF FatSectors
<1>4. ASSUME NEW c \in Nat, c < FatEntries PROVE c \div e \in 0 .. (n \div e) - 1
  <2>1. c \div e \in Nat /\ c % e \in 0 .. e - 1 /\ c = e * (c \div e) + (c % e)
    BY <1>1, Division
  <2> DEFINE p == c \div e
             q == n \div e
  <2>2. p \in Nat /\ q \in Nat /\ e * p <= c /\ n < e * q + e
    BY <1>1, <1>2, <2>1
  <2> HIDE DEF p, q
  <2>3. e * p < e * q
    BY <1>1, <1>4, <2>2
  <2>4. q <= p => e * q <= e * p
    BY <1>1, <2>2
  <2>5. e * q \in Int /\ e * p \in Int
    BY <1>1, <2>2
  <2>6. p < q
    BY <2>2, <2>3, <2>4, <2>5
  <2>7. QED
    BY <2>2, <2>6 DEF p, q
<1>5. n \div e # 0
  BY <1>1, <1>4
<1> HIDE DEF n
<1>6. FatSectors \in Nat \ {0}
  BY <1>2, <1>3, <1>5
<1>7. ASSUME NEW c \in Number PROVE SectorOf(c) \in 1 .. FatSectors
  <2>1. c \in Nat /\ c < FatEntries
    BY <1>1 DEF Number
  <2>2. c \div e \in 0 .. (n \div e) - 1
    BY <1>4, <2>1
  <2>3. QED
    BY <1>2, <1>3, <2>2 DEF SectorOf
<1>8. QED
  BY <1>6, <1>7

\* t comes after k: the copies on the disk may be other ones.
Flushes(t, k) ==
    /\ Running(t) /\ Kept(t, k)
    /\ t.fat = k.fat /\ t.off = k.off /\ t.ret = k.ret /\ t.ok \in BOOLEAN
    /\ t.hit = << >> => k.hit = << >>
    /\ ~t.ok => t.hit # << >>

LEMMA FlushesOn ==
  ASSUME NEW k, NEW t, NEW u, Flushes(t, k), Flushes(u, t)
  PROVE  Flushes(u, k)
BY DEF Flushes, Kept, Later

\* t is k with f as that copy of the table.
Copied(t, k, copy, f) ==
    /\ Running(t) /\ Kept(t, k) /\ t.fat = k.fat /\ t.off = k.off /\ t.ret = k.ret
    /\ t.ok = k.ok /\ t.hit = k.hit /\ t.dead = k.dead /\ t.disk.fat[copy] = f
    /\ t.disk.cluster = k.disk.cluster
    /\ \A n \in 1 .. NumFats : n # copy => t.disk.fat[n] = k.disk.fat[n]

LEMMA WithCopy ==
  ASSUME NEW k, Running(k), ~k.dead, NEW copy \in 1 .. NumFats, NEW f \in Table,
         NEW t, t = [k EXCEPT !.disk.fat[copy] = f]
  PROVE  Copied(t, k, copy, f)
<1> DEFINE d == [k.disk EXCEPT !.fat = [k.disk.fat EXCEPT ![copy] = f]]
<1>1. k \in CallState
  BY DEF Running
<1>2. k.disk \in SoundDisk
  BY <1>1 DEF CallState
<1>3. t = [k EXCEPT !.disk = d]
  BY <1>1, <1>2 DEF CallState, SoundDisk
<1>4. [k.disk.fat EXCEPT ![copy] = f] \in [1 .. NumFats -> Table]
  BY <1>2 DEF SoundDisk
<1>5. d \in SoundDisk /\ d.fat = [k.disk.fat EXCEPT ![copy] = f] /\ d.cluster = k.disk.cluster
  BY <1>2, <1>4 DEF SoundDisk
<1> HIDE DEF d
<1>6. t \in CallState /\ t.disk = d
  BY <1>1, <1>3, <1>5 DEF CallState
<1>10. t.fat = k.fat /\ t.ret = k.ret /\ t.ok = k.ok /\ t.made = k.made /\ t.fault = k.fault
       /\ t.hit = k.hit /\ t.off = k.off /\ t.dead = k.dead
       /\ t.open = k.open /\ t.entry = k.entry /\ t.at = k.at /\ t.dir = k.dir
       /\ t.short = k.short /\ t.lfn = k.lfn /\ t.locations = k.locations /\ t.data = k.data
  BY <1>1, <1>3 DEF CallState
<1>7. Kept(t, k)
  BY <1>10 DEF Kept, Later
<1>8. t.disk.fat[copy] = f /\ \A n \in 1 .. NumFats : n # copy => t.disk.fat[n] = k.disk.fat[n]
  BY <1>2, <1>5, <1>6 DEF SoundDisk
<1>9. QED
  BY <1>5, <1>6, <1>7, <1>8, <1>10 DEF Running, Copied

\* One sector: no other entry changes, and its own are those of the table.
LEMMA WriteFatSectorOK ==
  ASSUME NEW k, Running(k), NEW copy \in 1 .. NumFats, NEW sector \in Int,
         NEW t, t = WriteFatSector(k, copy, sector)
  PROVE  /\ Flushes(t, k)
         /\ \A n \in 1 .. NumFats, c \in Number :
                \/ t.disk.fat[n][c] = k.disk.fat[n][c]
                \/ t.disk.fat[n][c] = k.fat[c]
         /\ t.ok => \A c \in Number :
                SectorOf(c) = sector => t.disk.fat[copy][c] = k.fat[c]
         /\ Transferred(t, k, <<"fat", copy, sector>>) /\ t.disk.cluster = k.disk.cluster
         /\ t.dead => t.disk = k.disk
<1> DEFINE u == Transfer(k, <<"fat", copy, sector>>, FaultKind)
           f == [c \in DOMAIN u.disk.fat[copy] |->
                    IF SectorOf(c) = sector THEN k.fat[c] ELSE u.disk.fat[copy][c]]
<1>1. <<"fat", copy, sector>> \in Hit /\ <<"fat", copy, sector>> # << >>
  BY Sizes DEF Hit
<1>2. /\ Follows(u, k) /\ u.disk = k.disk /\ u.ret = k.ret /\ u.fault = k.fault
      /\ u.ok \in BOOLEAN /\ (~u.ok => u.hit # << >>) /\ (Landed(k, u) => ~u.dead)
      /\ Transferred(u, k, <<"fat", copy, sector>>)
  BY <1>1, TransferOK
<1>3. Running(u) /\ Flushes(u, k)
  BY <1>2 DEF Follows, Flushes
<1>4. t = IF ~Landed(k, u) THEN u ELSE [u EXCEPT !.disk.fat[copy] = f]
  BY DEF WriteFatSector
<1>5. u.ok => Landed(k, u)
  BY DEF Landed
<1> HIDE DEF u
<1>6. CASE ~Landed(k, u)
  BY <1>2, <1>3, <1>4, <1>5, <1>6
<1>7. CASE Landed(k, u)
  <2>1. k.fat \in Table /\ k.disk.fat \in [1 .. NumFats -> Table]
    BY DEF Running, CallState, SoundDisk
  <2>2. f = [c \in Number |-> IF SectorOf(c) = sector THEN k.fat[c] ELSE k.disk.fat[copy][c]]
    BY <1>2, <2>1 DEF Table
  <2> HIDE DEF f
  <2>3. f \in Table
    BY <2>1, <2>2 DEF Table
  <2>4. t = [u EXCEPT !.disk.fat[copy] = f]
    BY <1>4, <1>7
  <2>5. Copied(t, u, copy, f)
    BY <1>2, <1>3, <1>7, <2>3, <2>4, WithCopy
  <2>6. Flushes(t, u)
    BY <1>2, <2>5 DEF Flushes, Copied
  <2>7. Flushes(t, k)
    BY <1>3, <2>6, FlushesOn
  <2>8. \A c \in Number : f[c] = IF SectorOf(c) = sector THEN k.fat[c] ELSE k.disk.fat[copy][c]
    BY <2>2
  <2>9. Transferred(t, k, <<"fat", copy, sector>>) /\ t.disk.cluster = k.disk.cluster /\ ~t.dead
    BY <1>2, <1>7, <2>5 DEF Copied, Transferred
  <2>10. QED
    BY <1>2, <2>5, <2>7, <2>8, <2>9 DEF Copied
<1>8. QED
  BY <1>6, <1>7

\* The copies are written up to sector n, counted through all copies.
WrittenUpTo(t, n) ==
    \A copy \in 1 .. NumFats, c \in Number :
        \/ copy - 1 < n \div FatSectors
        \/ copy - 1 = n \div FatSectors /\ SectorOf(c) - 1 < n % FatSectors
        => t.disk.fat[copy][c] = t.fat[c]

\* A flush that is not finished: there is no power, or it is hit.  The first copy is
\* complete before the second one is begun.
Stopped(t, k) ==
    \/ k.dead
    \/ k.hit = << >> /\ \E copy \in 1 .. NumFats, sector \in 1 .. FatSectors :
           /\ t.hit = <<"fat", copy, sector>>
           /\ t.dead <=> k.fault.kind = "power"
           /\ copy > 1 => t.disk.fat[1] = t.fat
           /\ copy = 1 /\ sector = 1 /\ t.dead => t.disk.fat = k.disk.fat

\* Whatever the copies held, after a flush that was finished they are the table.
LEMMA FlushOK ==
  ASSUME NEW k, Running(k), NEW t, t = fat32_flush_fat(k)
  PROVE  /\ Flushes(t, k) /\ (t.ok => Mirrored(t) /\ t.hit = k.hit /\ ~t.dead)
         /\ t.disk.cluster = k.disk.cluster
         /\ ~t.ok => Stopped(t, k)
<1> DEFINE F == FatSectors
           N == NumFats * FatSectors
           b == [k EXCEPT !.ok = TRUE]
           S == {u \in CallState : Flushes(u, k)}
           Write(u, n) == IF u.ok THEN WriteFatSector(u, (n \div F) + 1, (n % F) + 1) ELSE u
           Is(f) == f = [n \in 0 .. N |-> IF n = 0 THEN b ELSE Write(f[n - 1], n - 1)]
           G == [x \in S \X (1 .. N) |-> Write(x[1], x[2] - 1)]
           w == CHOOSE f : Is(f)
<1>1. F \in Nat \ {0} /\ NumFats \in Nat \ {0} /\ N \in Nat
  BY Sectors, Sizes
<1>2. b \in S
  <2>1. Follows(b, k) /\ b.ret = k.ret /\ b.ok /\ b.hit = k.hit
    BY WithOk
  <2> HIDE DEF b
  <2>2. Flushes(b, k) /\ b \in CallState
    BY <2>1 DEF Follows, Flushes, Running
  <2>3. QED
    BY <2>2
<1>3. ASSUME NEW n \in 0 .. N - 1
      PROVE  (n \div F) + 1 \in 1 .. NumFats /\ n % F \in 0 .. F - 1 /\ n \div F \in Nat
  <2>1. n \in Nat /\ n < NumFats * F
    BY <1>1
  <2>2. n \div F \in 0 .. NumFats - 1
    BY <1>1, <2>1, QuotientBelow
  <2>3. n % F \in 0 .. F - 1
    BY <1>1, <2>1, Division
  <2>4. QED
    BY <1>1, <2>2, <2>3
<1>4. ASSUME NEW u \in S, NEW n \in 0 .. N - 1
      PROVE  /\ Flushes(Write(u, n), u) /\ Write(u, n) \in S
             /\ \A m \in 1 .. NumFats, c \in Number :
                    \/ Write(u, n).disk.fat[m][c] = u.disk.fat[m][c]
                    \/ Write(u, n).disk.fat[m][c] = u.fat[c]
             /\ Write(u, n).ok => \A c \in Number :
                    SectorOf(c) = (n % F) + 1 => Write(u, n).disk.fat[(n \div F) + 1][c] = u.fat[c]
             /\ Write(u, n).disk.cluster = u.disk.cluster
             /\ ~u.ok => Write(u, n) = u
             /\ u.ok => Transferred(Write(u, n), u, <<"fat", (n \div F) + 1, (n % F) + 1>>)
             /\ u.ok /\ Write(u, n).dead => Write(u, n).disk = u.disk
  <2>1. Running(u) /\ Flushes(u, k) /\ u.ok \in BOOLEAN
    BY <1>4 DEF Flushes
  <2>2. CASE u.ok
    <3> DEFINE v == WriteFatSector(u, (n \div F) + 1, (n % F) + 1)
    <3>1. (n \div F) + 1 \in 1 .. NumFats /\ (n % F) + 1 \in Int
      BY <1>1, <1>3
    <3>2. /\ Flushes(v, u)
          /\ \A m \in 1 .. NumFats, c \in Number :
                \/ v.disk.fat[m][c] = u.disk.fat[m][c]
                \/ v.disk.fat[m][c] = u.fat[c]
          /\ v.ok => \A c \in Number :
                SectorOf(c) = (n % F) + 1 => v.disk.fat[(n \div F) + 1][c] = u.fat[c]
          /\ Transferred(v, u, <<"fat", (n \div F) + 1, (n % F) + 1>>)
          /\ v.disk.cluster = u.disk.cluster /\ (v.dead => v.disk = u.disk)
      BY <2>1, <3>1, WriteFatSectorOK
    <3>3. Write(u, n) = v
      BY <2>2
    <3> HIDE DEF v, Write
    <3>4. Flushes(v, k)
      BY <2>1, <3>2, FlushesOn
    <3>5. v \in S
      BY <3>4 DEF Flushes, Running
    <3>6. QED
      BY <2>2, <3>2, <3>3, <3>5
  <2>3. CASE ~u.ok
    <3>1. Write(u, n) = u
      BY <2>3
    <3>2. Flushes(u, u)
      BY <2>1, <2>3 DEF Flushes, Kept, Later
    <3> HIDE DEF Write
    <3>3. QED
      BY <2>3, <3>1, <3>2
  <2>4. QED
    BY <2>1, <2>2, <2>3
<1> HIDE DEF Write, b, S
<1>5. Is(w)
  <2>1. \A x \in S \X (1 .. N) : Write(x[1], x[2] - 1) \in S
    <3> SUFFICES ASSUME NEW x \in S \X (1 .. N) PROVE Write(x[1], x[2] - 1) \in S
      OBVIOUS
    <3>1. x[1] \in S /\ x[2] - 1 \in 0 .. N - 1
      BY <1>1
    <3>2. QED
      BY <1>4, <3>1
  <2>2. G \in [S \X (1 .. N) -> S]
    BY <2>1
  <2>3. \A u \in S, n \in 1 .. N : G[<<u, n>>] = Write(u, n - 1)
    OBVIOUS
  <2> HIDE DEF G, N
  <2>4. PICK f : IsIteration(f, N, S, b, G)
    BY <1>1, <1>2, <2>2, IterationExists
  <2>5. f \in [0 .. N -> S] /\ f[0] = b /\ \A n \in 1 .. N : f[n] = Write(f[n - 1], n - 1)
    <3>1. f \in [0 .. N -> S] /\ f[0] = b /\ \A n \in 1 .. N : f[n] = G[<<f[n - 1], n>>]
      BY <2>4 DEF IsIteration
    <3>2. \A n \in 1 .. N : f[n - 1] \in S
      BY <1>1, <3>1
    <3>3. QED
      BY <2>3, <3>1, <3>2
  <2>6. f = [n \in 0 .. N |-> IF n = 0 THEN b ELSE Write(f[n - 1], n - 1)]
    BY <1>1, <2>5
  <2>7. Is(f)
    BY <2>6
  <2> HIDE DEF Is
  <2>8. QED
    BY <2>7
<1>6. t = w[N]
  BY AllSectors DEF fat32_flush_fat, Write, b
<1> HIDE DEF w
<1>7. w[0] = b /\ \A n \in 1 .. N : w[n] = Write(w[n - 1], n - 1)
  BY <1>1, <1>5
<1> DEFINE Told(u, n) ==
               /\ u.disk.cluster = k.disk.cluster
               /\ u.ok => WrittenUpTo(u, n) /\ u.hit = k.hit /\ (u.dead <=> k.dead) /\ (n # 0 => ~u.dead)
               /\ n = 0 => u.ok /\ u.disk = k.disk
               /\ ~u.ok => Stopped(u, k)
           T == {n \in 0 .. N : w[n] \in S /\ Told(w[n], n)}
<1>8. 0 \in T
  <2>1. 0 \div F = 0 /\ 0 % F = 0
    BY <1>1
  <2>2. \A c \in Number : SectorOf(c) - 1 \in Nat
    BY Sectors
  <2>3. WrittenUpTo(b, 0)
    <3>1. \A copy \in 1 .. NumFats, c \in Number :
             ~(copy - 1 < 0 \div F) /\ ~(SectorOf(c) - 1 < 0 % F)
      BY <1>1, <2>1, <2>2
    <3>2. QED
      BY <3>1, Zenon DEF WrittenUpTo
  <2>4. b.ok /\ b.disk = k.disk /\ b.hit = k.hit /\ b.dead = k.dead
    BY DEF b, Running, CallState
  <2>5. Told(b, 0)
    BY <2>3, <2>4
  <2> HIDE DEF Told
  <2>6. QED
    BY <1>1, <1>2, <1>7, <2>5
<1>9. ASSUME NEW n \in 1 .. N, n - 1 \in T PROVE n \in T
  <2> DEFINE u == w[n - 1]
             v == w[n]
             m == n - 1
             q == m \div F
             r == m % F
  <2>1. u \in S /\ Told(u, m) /\ m \in 0 .. N - 1
    <3> HIDE DEF Told
    <3>1. QED
      BY <1>1, <1>9
  <2>2. v = Write(u, m)
    BY <1>7
  <2> HIDE DEF u, v, Is
  <2>3. /\ Flushes(v, u) /\ v \in S
        /\ \A i \in 1 .. NumFats, c \in Number :
               \/ v.disk.fat[i][c] = u.disk.fat[i][c]
               \/ v.disk.fat[i][c] = u.fat[c]
        /\ v.ok => \A c \in Number :
               SectorOf(c) = r + 1 => v.disk.fat[q + 1][c] = u.fat[c]
        /\ v.disk.cluster = u.disk.cluster
        /\ ~u.ok => v = u
        /\ u.ok => Transferred(v, u, <<"fat", q + 1, r + 1>>)
        /\ u.ok /\ v.dead => v.disk = u.disk
    <3> HIDE DEF Told
    <3>1. QED
      BY <1>4, <2>1, <2>2
  <2>4. q \in Nat /\ r \in 0 .. F - 1 /\ m = F * q + r
    <3>1. m \in Nat
      BY <1>1, <2>1
    <3> HIDE DEF m
    <3>2. QED
      BY <1>1, <3>1, Division
  <2>5. \/ r + 1 < F /\ n \div F = q /\ n % F = r + 1
        \/ r + 1 = F /\ n \div F = q + 1 /\ n % F = 0
    <3>1. n = m + 1 /\ m \in Int
      OBVIOUS
    <3> HIDE DEF m, q, r
    <3>2. CASE r + 1 < F
      <4>1. r + 1 \in 0 .. F - 1 /\ n = F * q + (r + 1)
        BY <1>1, <2>4, <3>1, <3>2
      <4>2. QED
        BY <1>1, <2>4, <3>2, <4>1, DivisionIs
    <3>3. CASE r + 1 = F
      <4>1. 0 \in 0 .. F - 1 /\ n = F * (q + 1) + 0 /\ q + 1 \in Nat
        BY <1>1, <2>4, <3>1, <3>3
      <4>2. QED
        BY <1>1, <3>3, <4>1, DivisionIs
    <3>4. QED
      BY <1>1, <2>4, <3>2, <3>3
  <2> HIDE DEF q, r, m
  <2>6. ASSUME v.ok, NEW copy \in 1 .. NumFats, NEW c \in Number,
               \/ copy - 1 < n \div F
               \/ copy - 1 = n \div F /\ SectorOf(c) - 1 < n % F
        PROVE  v.disk.fat[copy][c] = v.fat[c]
    <3>1. u.ok /\ v.fat = u.fat
      BY <2>3, <2>6 DEF Flushes
    <3>2. WrittenUpTo(u, m)
      BY <2>1, <3>1
    <3>3. SectorOf(c) \in 1 .. F
      BY Sectors
    <3>4. \/ copy - 1 < q \/ (copy - 1 = q /\ SectorOf(c) - 1 < r)
          \/ copy = q + 1 /\ SectorOf(c) = r + 1
      BY <1>1, <2>4, <2>5, <2>6, <3>3
    <3>5. CASE copy - 1 < q \/ (copy - 1 = q /\ SectorOf(c) - 1 < r)
      <4>1. u.disk.fat[copy][c] = u.fat[c]
        BY <3>2, <3>5 DEF WrittenUpTo, q, r
      <4>2. QED
        BY <2>3, <3>1, <4>1
    <3>6. CASE copy = q + 1 /\ SectorOf(c) = r + 1
      BY <2>3, <2>6, <3>1, <3>6
    <3>7. QED
      BY <3>4, <3>5, <3>6
  <2>7. v.ok => WrittenUpTo(v, n)
    BY <2>6 DEF WrittenUpTo
  <2>9. v.fault = u.fault /\ u.fault = k.fault /\ v.fat = u.fat
    BY <2>1, <2>3 DEF S, Flushes, Kept, Later
  <2>10. ASSUME u.ok, ~v.ok PROVE Stopped(v, k)
    <3>1. Transferred(v, u, <<"fat", q + 1, r + 1>>) /\ u.hit = k.hit /\ (u.dead <=> k.dead)
      BY <2>1, <2>3, <2>10
    <3>2. CASE k.dead
      BY <3>2 DEF Stopped
    <3>3. CASE ~k.dead
      <4>1. k.hit = << >> /\ v.hit = <<"fat", q + 1, r + 1>> /\ (v.dead <=> k.fault.kind = "power")
        BY <2>9, <2>10, <3>1, <3>3 DEF Transferred
      <4>2. q + 1 \in 1 .. NumFats /\ r + 1 \in 1 .. F
        BY <1>1, <1>3, <2>1 DEF q, r
      <4>3. ASSUME q + 1 > 1 PROVE v.disk.fat[1] = v.fat
        <5>1. 1 \in 1 .. NumFats /\ 1 - 1 < q
          BY <1>1, <2>4, <4>2, <4>3
        <5>2. \A c \in Number : u.disk.fat[1][c] = u.fat[c]
          BY <2>1, <2>10, <5>1 DEF WrittenUpTo, q
        <5>3. \A c \in Number : v.disk.fat[1][c] = v.fat[c]
          BY <2>3, <2>9, <5>1, <5>2
        <5>4. v.disk.fat[1] \in Table /\ v.fat \in Table
          BY <2>3, <5>1 DEF S, CallState, SoundDisk
        <5>5. QED
          BY <5>3, <5>4 DEF Table
      <4>4. ASSUME q + 1 = 1, r + 1 = 1, v.dead PROVE v.disk.fat = k.disk.fat
        <5>1. m = 0
          BY <1>1, <2>4, <4>4
        <5>2. QED
          BY <2>1, <2>3, <2>10, <4>4, <5>1
      <4>5. QED
        BY <4>1, <4>2, <4>3, <4>4 DEF Stopped
    <3>4. QED
      BY <3>2, <3>3
  <2>11. ASSUME v.ok PROVE v.hit = k.hit /\ (v.dead <=> k.dead) /\ ~v.dead
    BY <2>1, <2>3, <2>11 DEF Transferred
  <2>12. ~v.ok => Stopped(v, k)
    BY <2>1, <2>3, <2>10
  <2>13. v.disk.cluster = k.disk.cluster /\ n # 0
    BY <2>1, <2>3
  <2>14. Told(v, n)
    BY <2>7, <2>11, <2>12, <2>13
  <2> HIDE DEF Told
  <2>8. QED
    BY <1>1, <2>3, <2>14 DEF v
<1> HIDE DEF T
<1>10. \A n \in 0 .. N : n \in T
  BY <1>1, <1>8, <1>9, Induction
<1>11. N \in T
  BY <1>1, <1>10
<1>12. t \in S /\ Told(t, N) /\ N # 0
  <2> HIDE DEF Told
  <2>1. QED
    BY <1>1, <1>6, <1>11 DEF T
<1>13. Flushes(t, k) /\ t \in CallState
  BY <1>12 DEF S
<1>14. N \div F = NumFats
  <2>1. 0 \in 0 .. F - 1 /\ N = F * NumFats + 0
    BY <1>1
  <2>2. QED
    BY <1>1, <2>1, DivisionIs
<1>15. ASSUME t.ok, NEW copy \in 1 .. NumFats PROVE t.disk.fat[copy] = t.fat
  <2>1. \A c \in Number : t.disk.fat[copy][c] = t.fat[c]
    <3>1. copy - 1 < N \div F
      BY <1>1, <1>14
    <3>2. QED
      BY <1>12, <1>15, <3>1 DEF WrittenUpTo
  <2>2. t.disk.fat[copy] \in Table /\ t.fat \in Table
    BY <1>13 DEF CallState, SoundDisk
  <2>3. QED
    BY <2>1, <2>2 DEF Table
<1>16. QED
  BY <1>12, <1>13, <1>15 DEF Mirrored

-----------------------------------------------------------------------------
(* Chains of clusters                                                      *)

ClusterNumber == {c \in Number : c >= 2}

LEMMA FirstOfSet ==
  ASSUME NEW S \in SUBSET Nat, S # {}
  PROVE  FirstOf(S) \in S /\ \A j \in S : FirstOf(S) <= j
BY LeastExists DEF FirstOf

LEMMA NextOK ==
  ASSUME NEW fat \in Table, NEW c \in Number
  PROVE  fat32_get_next_cluster(fat, c) \in Link
BY Numbers DEF fat32_get_next_cluster, Table

\* A walk has numbers of the table only.
LEMMA WalkOK ==
  ASSUME NEW link \in Table, NEW start \in Number
  PROVE  /\ Walk(link, start) \in Seq(ClusterNumber)
         /\ IsCluster(start) => Walk(link, start) # << >>
<1> DEFINE Extended(chain, next) ==
               IF IsCluster(next) /\ ~\E i \in DOMAIN chain : chain[i] = next
               THEN Append(chain, next) ELSE chain
           Followed(chain) ==
               IF chain = << >> THEN chain ELSE Extended(chain, link[Last(chain)])
           b == IF IsCluster(start) THEN <<start>> ELSE << >>
           S == {z \in Seq(ClusterNumber) : IsCluster(start) => z # << >>}
           Is(f) == f = [n \in 0 .. FatEntries |-> IF n = 0 THEN b ELSE Followed(f[n - 1])]
           G == [x \in S \X (1 .. FatEntries) |-> Followed(x[1])]
           w == CHOOSE f : Is(f)
<1>1. FatEntries \in Nat
  BY Sizes
<1>2. b \in S
  <2>1. CASE IsCluster(start)
    <3>1. start \in ClusterNumber
      BY <2>1, Numbers DEF ClusterNumber
    <3>2. <<start>> \in Seq(ClusterNumber) /\ <<start>> # << >>
      BY <3>1
    <3>3. QED
      BY <2>1, <3>2
  <2>2. CASE ~IsCluster(start)
    BY <2>2
  <2>3. QED
    BY <2>1, <2>2
<1>3. ASSUME NEW z \in S PROVE Followed(z) \in S
  <2>1. CASE z = << >>
    BY <2>1
  <2>2. CASE z # << >>
    <3> DEFINE next == link[Last(z)]
    <3>1. z \in Seq(ClusterNumber)
      OBVIOUS
    <3>2. Last(z) \in ClusterNumber
      BY <2>2, <3>1 DEF Last
    <3>3. next \in Link
      BY <3>2 DEF ClusterNumber, Table
    <3>4. Followed(z) = Extended(z, next)
      BY <2>2
    <3> HIDE DEF next
    <3>5. CASE Extended(z, next) = z
      BY <3>4, <3>5
    <3>6. CASE IsCluster(next) /\ Extended(z, next) = Append(z, next)
      <4>1. next \in ClusterNumber
        BY <3>3, <3>6, Numbers DEF ClusterNumber
      <4>2. Append(z, next) \in Seq(ClusterNumber) /\ Append(z, next) # << >>
        BY <3>1, <4>1
      <4> HIDE DEF Followed, Extended
      <4>3. QED
        BY <3>4, <3>6, <4>2
    <3>7. QED
      BY <3>5, <3>6
  <2>3. QED
    BY <2>1, <2>2
<1> HIDE DEF Followed, b, S
<1>4. Is(w)
  <2>1. G \in [S \X (1 .. FatEntries) -> S] /\ \A z \in S, n \in 1 .. FatEntries : G[<<z, n>>] = Followed(z)
    BY <1>3
  <2> HIDE DEF G
  <2>2. PICK f : IsIteration(f, FatEntries, S, b, G)
    BY <1>1, <1>2, <2>1, IterationExists
  <2>3. f \in [0 .. FatEntries -> S] /\ f[0] = b
        /\ \A n \in 1 .. FatEntries : f[n] = G[<<f[n - 1], n>>]
    BY <2>2 DEF IsIteration
  <2>4. \A n \in 1 .. FatEntries : f[n - 1] \in S
    BY <1>1, <2>3
  <2>5. \A n \in 1 .. FatEntries : f[n] = Followed(f[n - 1])
    BY <2>1, <2>3, <2>4
  <2>6. Is(f)
    BY <1>1, <2>3, <2>5
  <2> HIDE DEF Is
  <2>7. QED
    BY <2>6
<1>5. Walk(link, start) = w[FatEntries]
  BY DEF Walk, Followed, b
<1> HIDE DEF w
<1>6. w[0] \in S /\ \A n \in 1 .. FatEntries : w[n - 1] \in S => w[n] \in S
  BY <1>1, <1>2, <1>3, <1>4
<1>7. w[FatEntries] \in S
  BY <1>1, <1>6, StaysIn
<1>8. QED
  BY <1>5, <1>7 DEF S

LEMMA LinksOK ==
  ASSUME NEW fat \in Table
  PROVE  Links(fat) \in Table /\ \A c \in Number : Links(fat)[c] = fat32_get_next_cluster(fat, c)
<1>1. DOMAIN fat = Number
  BY DEF Table
<1>2. QED
  BY <1>1, NextOK DEF Links, Table

\* A chain has numbers of the table only.
LEMMA ChainOK ==
  ASSUME NEW fat \in Table, NEW start \in Number
  PROVE  /\ Chain(fat, start) \in Seq(ClusterNumber)
         /\ IsCluster(start) => Chain(fat, start) # << >>
BY LinksOK, WalkOK DEF Chain

-----------------------------------------------------------------------------
(* Allocating and freeing                                                  *)

\* t comes after k, and the copies are right again.
Passes(t, k) == Good(t) /\ Kept(t, k)

LEMMA FollowsPasses ==
  ASSUME NEW k, Good(k), NEW t, Follows(t, k)
  PROVE  Passes(t, k)
BY FollowsGood DEF Passes, Follows

LEMMA PassesOn ==
  ASSUME NEW k, NEW t, NEW u, Passes(t, k), Passes(u, t)
  PROVE  Passes(u, k)
BY DEF Passes, Kept, Later

LEMMA WithFat ==
  ASSUME NEW k, Running(k), NEW g \in Table, NEW t, t = [k EXCEPT !.fat = g]
  PROVE  /\ Running(t) /\ Kept(t, k) /\ t.fat = g /\ t.disk = k.disk /\ t.ret = k.ret
         /\ t.hit = k.hit /\ t.dead = k.dead /\ t.off = k.off /\ t.ok = k.ok
<1>1. k \in CallState
  BY DEF Running
<1>2. t \in CallState
  BY <1>1 DEF CallState
<1>3. Kept(t, k) /\ t.disk = k.disk /\ t.fat = g /\ t.ret = k.ret
      /\ t.hit = k.hit /\ t.dead = k.dead /\ t.off = k.off /\ t.ok = k.ok
  BY <1>1 DEF CallState, Kept, Later
<1>4. QED
  BY <1>2, <1>3 DEF Running

LEMMA WithFull ==
  ASSUME NEW k, Running(k), NEW t, t = [k EXCEPT !.ret = 0, !.full = TRUE]
  PROVE  Follows(t, k) /\ t.ret = 0 /\ t.disk = k.disk /\ t.hit = k.hit /\ t.dead = k.dead
<1> DEFINE u == [k EXCEPT !.ret = 0]
<1>1. Follows(u, k) /\ u.ret = 0 /\ u.disk = k.disk /\ u.hit = k.hit /\ u.dead = k.dead
  BY WithRet
<1>2. t = [u EXCEPT !.full = TRUE]
  OBVIOUS
<1> HIDE DEF u
<1>3. u \in CallState
  BY <1>1 DEF Follows, Running
<1>4. t \in CallState
  BY <1>2, <1>3 DEF CallState
<1>5. Kept(t, u) /\ t.disk = u.disk /\ t.fat = u.fat /\ t.ret = u.ret
      /\ t.hit = u.hit /\ t.off = u.off /\ t.dead = u.dead
  BY <1>2, <1>3 DEF CallState, Kept, Later
<1>6. Follows(t, u)
  BY <1>1, <1>4, <1>5 DEF Running, Follows
<1>7. QED
  BY <1>1, <1>5, <1>6, FollowsOn

\* t is k with that cluster free again.
GivenBack(t, k, b) ==
    /\ Running(t) /\ Kept(t, k) /\ t.ret = 0 /\ t.hit = k.hit /\ t.off = b
    /\ t.disk = k.disk /\ t.dead = k.dead

LEMMA WithOff ==
  ASSUME NEW k, Running(k), NEW c \in Number, NEW b \in BOOLEAN,
         NEW t, t = [k EXCEPT !.fat[c] = FAT32_FREE_CLUSTER, !.ret = 0, !.off = b]
  PROVE  GivenBack(t, k, b)
<1> DEFINE g == [k.fat EXCEPT ![c] = FAT32_FREE_CLUSTER]
           u == [k EXCEPT !.fat = g]
           v == [u EXCEPT !.ret = 0]
<1>1. k \in CallState
  BY DEF Running
<1>2. k.fat \in Table
  BY <1>1 DEF CallState
<1>3. g \in Table
  BY <1>2, Numbers DEF Table
<1>4. t = [v EXCEPT !.off = b]
  BY <1>1 DEF CallState
<1> HIDE DEF g
<1>5. Running(u) /\ Kept(u, k) /\ u.hit = k.hit /\ u.disk = k.disk /\ u.dead = k.dead
  BY <1>3, WithFat
<1> HIDE DEF u
<1>6. Follows(v, u) /\ v.ret = 0 /\ v.hit = u.hit /\ v.disk = u.disk /\ v.dead = u.dead
  BY <1>5, WithRet
<1> HIDE DEF v
<1>7. v \in CallState
  BY <1>6 DEF Follows, Running
<1>8. t \in CallState
  BY <1>4, <1>7 DEF CallState
<1>9. Kept(t, v) /\ t.ret = v.ret /\ t.hit = v.hit /\ t.dead = v.dead /\ t.disk = v.disk
  BY <1>4, <1>7 DEF CallState, Kept, Later
<1>10. t.off = b
  BY <1>4, <1>7 DEF CallState
<1>11. QED
  BY <1>5, <1>6, <1>8, <1>9, <1>10 DEF Running, Follows, Kept, Later, GivenBack

LEMMA ZerosOK == Zeros \in Cluster
BY DEF Zeros, Cluster, SoundCell

LEMMA FlushPasses ==
  ASSUME NEW k, Running(k), NEW t, t = fat32_flush_fat(k)
  PROVE  Passes(t, k) /\ t.ret = k.ret /\ t.ok \in BOOLEAN
<1>1. Flushes(t, k) /\ (t.ok => Mirrored(t))
  BY FlushOK
<1>2. QED
  BY <1>1 DEF Flushes, Passes, Good

LEMMA AllocateOK ==
  ASSUME NEW k, Good(k), NEW previous, NEW t, t = fat32_allocate_cluster(k, previous)
  PROVE  Passes(t, k) /\ t.ret \in {0} \cup ClusterNumber
<1> DEFINE u == Transfer(k, <<"memory">>, {"error"})
           free == {c \in 2 .. FatEntries - 1 :
                        c < total_clusters /\ k.fat[c] = FAT32_FREE_CLUSTER}
           c == FirstOf(free)
           g == [n \in DOMAIN u.fat |-> IF n = previous /\ IsCluster(n) THEN c
                                         ELSE IF n = c THEN FAT32_END_CLUSTER ELSE u.fat[n]]
           v == [u EXCEPT !.fat = g]
           x == fat32_write_cluster(v, c, Zeros, <<"clear">>)
           y == fat32_flush_fat(x)
<1>1. Running(k)
  BY DEF Good
<1>2. Follows(u, k) /\ u.ok \in BOOLEAN
  <2>1. <<"memory">> \in Hit /\ <<"memory">> # << >>
    BY DEF Hit
  <2>2. QED
    BY <1>1, <2>1, TransferOK
<1>3. Running(u) /\ Passes(u, k)
  BY <1>2, FollowsPasses DEF Follows
<1>4. t = IF ~u.ok THEN [u EXCEPT !.ret = 0]
          ELSE IF free = {} THEN [u EXCEPT !.ret = 0, !.full = TRUE]
          ELSE IF x.ok THEN [y EXCEPT !.ret = IF y.ok THEN c ELSE 0]
          ELSE [x EXCEPT !.fat[c] = FAT32_FREE_CLUSTER, !.ret = 0, !.off = c \notin OnDisk]
  BY DEF fat32_allocate_cluster, Uncleared
<1> HIDE DEF u
<1>5. CASE ~u.ok
  <2>1. t = [u EXCEPT !.ret = 0]
    BY <1>4, <1>5
  <2>2. Follows(t, u) /\ t.ret = 0
    BY <1>3, <2>1, WithRet
  <2>3. Follows(t, k)
    BY <1>2, <2>2, FollowsOn
  <2>4. QED
    BY <2>2, <2>3, FollowsPasses
<1>6. CASE u.ok /\ free = {}
  <2>1. t = [u EXCEPT !.ret = 0, !.full = TRUE]
    BY <1>4, <1>6
  <2>2. Follows(t, u) /\ t.ret = 0
    BY <1>3, <2>1, WithFull
  <2>3. Follows(t, k)
    BY <1>2, <2>2, FollowsOn
  <2>4. QED
    BY <2>2, <2>3, FollowsPasses
<1>7. CASE u.ok /\ free # {}
  <2>1. c \in ClusterNumber /\ c \in Number
    <3>1. free \in SUBSET Nat
      OBVIOUS
    <3>2. c \in free
      BY <1>7, <3>1, FirstOfSet
    <3>3. QED
      BY <3>2, Sizes DEF ClusterNumber, Number
  <2> HIDE DEF c, free
  <2>2. g \in Table
    <3>1. u.fat \in Table
      BY <1>3 DEF Running, CallState
    <3>2. c \in Link
      BY <2>1, Numbers
    <3>3. QED
      BY <3>1, <3>2, Numbers DEF Table
  <2> HIDE DEF g
  <2>3. Running(v) /\ Kept(v, u)
    BY <1>3, <2>2, WithFat
  <2> HIDE DEF v
  <2>4. /\ Follows(x, v) /\ x.ok \in BOOLEAN
        /\ ~x.ok => x.hit # << >> \/ c \notin OnDisk
    <3>1. <<"clear">> \in Hit /\ <<"clear">> # << >>
      BY DEF Hit
    <3>2. QED
      BY <2>3, <3>1, ZerosOK, WriteClusterOK
  <2> HIDE DEF x
  <2>5. Running(x) /\ Kept(x, k)
    BY <1>3, <2>3, <2>4 DEF Follows, Passes, Kept, Later
  <2>6. CASE x.ok
    <3>1. Passes(y, x) /\ y.ok \in BOOLEAN
      BY <2>5, FlushPasses
    <3> DEFINE r == IF y.ok THEN c ELSE 0
    <3>2. t = [y EXCEPT !.ret = r]
      BY <1>4, <1>7, <2>6
    <3>3. r \in {0} \cup ClusterNumber /\ r \in Int
      BY <2>1, Numbers DEF ClusterNumber
    <3> HIDE DEF y, r
    <3>4. Good(y) /\ Running(y)
      BY <3>1 DEF Passes, Good
    <3>5. Follows(t, y) /\ t.ret = r
      BY <3>2, <3>3, <3>4, WithRet
    <3>6. Passes(t, y)
      BY <3>4, <3>5, FollowsPasses
    <3>7. QED
      BY <2>5, <3>1, <3>3, <3>5, <3>6 DEF Passes, Kept, Later
  <2>7. CASE ~x.ok
    <3> DEFINE b == c \notin OnDisk
    <3>1. t = [x EXCEPT !.fat[c] = FAT32_FREE_CLUSTER, !.ret = 0, !.off = b]
      BY <1>4, <1>7, <2>7
    <3>2. b \in BOOLEAN /\ (x.hit = << >> => b)
      BY <2>4, <2>7
    <3> HIDE DEF b
    <3>3. GivenBack(t, x, b)
      BY <2>1, <2>5, <3>1, <3>2, WithOff
    <3>4. Good(t)
      BY <3>2, <3>3 DEF Good, GivenBack
    <3>5. QED
      BY <2>5, <3>3, <3>4 DEF Passes, Kept, Later, GivenBack
  <2>8. QED
    BY <2>4, <2>6, <2>7
<1>8. QED
  BY <1>2, <1>5, <1>6, <1>7

LEMMA FreeChainOK ==
  ASSUME NEW k, Good(k), NEW start, NEW t, t = fat32_free_cluster_chain(k, start)
  PROVE  Passes(t, k) /\ t.ret = k.ret
<1> DEFINE chain == Walk(k.fat, start)
           g == [c \in DOMAIN k.fat |-> IF \E i \in DOMAIN chain : chain[i] = c
                                        THEN FAT32_FREE_CLUSTER ELSE k.fat[c]]
           u == [k EXCEPT !.fat = g]
<1>1. Running(k)
  BY DEF Good
<1>2. CASE IsCluster(start)
  <2>1. t = fat32_flush_fat(u)
    BY <1>2 DEF fat32_free_cluster_chain
  <2>2. k.fat \in Table
    BY <1>1 DEF Running, CallState
  <2> HIDE DEF chain
  <2>3. g \in Table
    BY <2>2, Numbers DEF Table
  <2> HIDE DEF g
  <2>4. Running(u) /\ Kept(u, k) /\ u.ret = k.ret
    BY <1>1, <2>3, WithFat
  <2> HIDE DEF u
  <2>5. Passes(t, u) /\ t.ret = u.ret
    BY <2>1, <2>4, FlushPasses
  <2>6. QED
    BY <2>4, <2>5 DEF Passes, Kept, Later
<1>3. CASE ~IsCluster(start)
  BY <1>3 DEF fat32_free_cluster_chain, Passes, Kept, Later
<1>4. QED
  BY <1>2, <1>3

-----------------------------------------------------------------------------
(* Reading directories                                                     *)

LEMMA LocationsOK ==
  ASSUME NEW fat \in Table, NEW dir \in Number
  PROVE  Locations(fat, dir) \in Seq(Spot)
<1> DEFINE chain == Chain(fat, dir)
           N == Len(chain) * CellsPerCluster
           At(j) == <<chain[((j - 1) \div CellsPerCluster) + 1],
                      ((j - 1) % CellsPerCluster) + 1>>
<1>1. chain \in Seq(ClusterNumber) /\ Len(chain) \in Nat
  BY ChainOK
<1>2. Locations(fat, dir) = [j \in 1 .. N |-> At(j)]
  BY DEF Locations
<1> HIDE DEF chain
<1>3. CellsPerCluster \in Nat \ {0} /\ N \in Nat
  BY <1>1, Sizes
<1>4. ASSUME NEW j \in 1 .. N PROVE At(j) \in Spot
  <2>1. j - 1 \in Nat /\ j - 1 < Len(chain) * CellsPerCluster
    BY <1>3
  <2>2. (j - 1) \div CellsPerCluster \in 0 .. Len(chain) - 1
    BY <1>1, <1>3, <2>1, QuotientBelow
  <2>3. (j - 1) % CellsPerCluster \in 0 .. CellsPerCluster - 1
    BY <1>3, <2>1, Division
  <2> DEFINE q == (j - 1) \div CellsPerCluster
             r == (j - 1) % CellsPerCluster
  <2> HIDE DEF q, r
  <2>4. q + 1 \in 1 .. Len(chain) /\ r + 1 \in 1 .. CellsPerCluster
    BY <1>1, <1>3, <2>2, <2>3 DEF q, r
  <2>5. chain[q + 1] \in Number
    BY <1>1, <2>4 DEF ClusterNumber
  <2>6. <<chain[q + 1], r + 1>> \in Spot
    BY <2>4, <2>5 DEF Spot
  <2>7. QED
    BY <2>6 DEF q, r
<1> HIDE DEF At, N
<1>5. [j \in 1 .. N |-> At(j)] \in Seq(Spot)
  BY <1>3, <1>4
<1>6. QED
  BY <1>2, <1>5

LEMMA EntryCells ==
  ASSUME NEW c \in SoundCell, c.kind = "entry"
  PROVE  c \in EntryOf(ShortName)
BY DEF SoundCell, EntryOf, Zero, Deleted, Junk

LEMMA CellAtOK ==
  ASSUME NEW d \in SoundDisk, NEW at \in Spot
  PROVE  /\ CellAt(d, at) \in SoundCell
         /\ KindAt(d, at) = "entry" => CellAt(d, at) \in EntryOf(ShortName)
<1>1. at[2] \in 1 .. CellsPerCluster
  BY DEF Spot
<1>2. CASE at[1] \in OnDisk
  <2>1. d.cluster[at[1]] \in Cluster
    BY <1>2 DEF SoundDisk
  <2>2. d.cluster[at[1]][at[2]] \in SoundCell
    BY <1>1, <2>1 DEF Cluster
  <2>3. QED
    BY <1>2, <2>2, EntryCells DEF CellAt, KindAt
<1>3. CASE at[1] \notin OnDisk
  <2>1. CellAt(d, at) = Zero
    BY <1>3 DEF CellAt
  <2>2. Zero \in SoundCell
    BY DEF SoundCell
  <2>3. QED
    BY <2>1, <2>2, EntryCells DEF KindAt
<1>4. QED
  BY <1>2, <1>3

\* A lookup changes what was found and nothing else that matters here.
Looks(t, k) ==
    /\ Running(t) /\ Later(t, k)
    /\ t.disk = k.disk /\ t.fat = k.fat /\ t.off = k.off /\ t.open = k.open /\ t.dead = k.dead
    /\ t.locations = k.locations /\ t.data = k.data
    /\ t.hit = << >> => k.hit = << >>

LEMMA LooksGood ==
  ASSUME NEW k, Good(k), NEW t, Looks(t, k)
  PROVE  Good(t)
BY DEF Good, Looks, Later, Mirrored

LEMMA LooksOn ==
  ASSUME NEW k, NEW t, NEW u, Looks(t, k), Looks(u, t)
  PROVE  Looks(u, k)
BY DEF Looks, Later

LEMMA FollowsLooks ==
  ASSUME NEW k, NEW t, Follows(t, k), t.disk = k.disk, t.dead = k.dead
  PROVE  Looks(t, k)
BY DEF Follows, Kept, Later, Looks

LEMMA ReadClustersOK ==
  ASSUME NEW k, Running(k), NEW clusters, Len(clusters) \in Nat,
         NEW t, t = ReadClusters(k, clusters)
  PROVE  Follows(t, k) /\ t.disk = k.disk /\ t.ret = k.ret /\ t.ok \in BOOLEAN
         /\ t.dead = k.dead
<1> DEFINE N == Len(clusters)
           b == [k EXCEPT !.ok = TRUE]
           Read(u, c) == IF u.ok THEN fat32_read_cluster(u, c) ELSE u
           Ok(u) == Follows(u, k) /\ u.disk = k.disk /\ u.ret = k.ret /\ u.ok \in BOOLEAN /\ u.dead = k.dead
           S == {u \in CallState : Ok(u)}
           Is(f) == f = [i \in 0 .. N |-> IF i = 0 THEN b ELSE Read(f[i - 1], clusters[i])]
           G == [x \in S \X (1 .. N) |-> Read(x[1], clusters[x[2]])]
           w == CHOOSE f : Is(f)
<1>1. \A u : Ok(u) => u \in S
  BY DEF Follows, Running
<1>2. b \in S
  <2>1. Follows(b, k) /\ b.disk = k.disk /\ b.ret = k.ret /\ b.ok /\ b.dead = k.dead
    BY WithOk
  <2> HIDE DEF b
  <2>2. QED
    BY <1>1, <2>1
<1>3. ASSUME NEW u \in S, NEW c PROVE Read(u, c) \in S
  <2>1. Ok(u) /\ Running(u)
    BY <1>3 DEF Follows
  <2>2. CASE u.ok
    <3> DEFINE v == fat32_read_cluster(u, c)
    <3>1. Follows(v, u) /\ v.disk = u.disk /\ v.ret = u.ret /\ v.ok \in BOOLEAN /\ v.dead = u.dead
      BY <2>1, ReadClusterOK
    <3>2. Read(u, c) = v
      BY <2>2
    <3> HIDE DEF v, Read
    <3>3. Ok(v)
      BY <2>1, <3>1, FollowsOn
    <3>4. QED
      BY <1>1, <3>2, <3>3
  <2>3. CASE ~u.ok
    BY <2>3
  <2>4. QED
    BY <2>1, <2>2, <2>3
<1> HIDE DEF Read, b, S, N
<1>4. N \in Nat
  BY DEF N
<1>5. Is(w)
  <2>1. G \in [S \X (1 .. N) -> S]
        /\ \A u \in S, i \in 1 .. N : G[<<u, i>>] = Read(u, clusters[i])
    BY <1>3
  <2> HIDE DEF G
  <2>2. PICK f : IsIteration(f, N, S, b, G)
    BY <1>2, <1>4, <2>1, IterationExists
  <2>3. f \in [0 .. N -> S] /\ f[0] = b /\ \A i \in 1 .. N : f[i] = G[<<f[i - 1], i>>]
    BY <2>2 DEF IsIteration
  <2>4. \A i \in 1 .. N : f[i - 1] \in S
    BY <1>4, <2>3
  <2>5. \A i \in 1 .. N : f[i] = Read(f[i - 1], clusters[i])
    BY <2>1, <2>3, <2>4
  <2>6. Is(f)
    BY <1>4, <2>3, <2>5
  <2> HIDE DEF Is
  <2>7. QED
    BY <2>6
<1>6. t = w[N]
  BY DEF ReadClusters, Read, b, N
<1> HIDE DEF w
<1>7. w[0] \in S /\ \A i \in 1 .. N : w[i - 1] \in S => w[i] \in S
  BY <1>2, <1>3, <1>4, <1>5
<1>8. w[N] \in S
  BY <1>4, <1>7, StaysIn
<1>9. QED
  BY <1>6, <1>8 DEF S

LEMMA ClustersUpToLength ==
  ASSUME NEW where, NEW n \in Nat
  PROVE  Len(ClustersUpTo(where, n)) \in Nat
<1> DEFINE m == (n + CellsPerCluster - 1) \div CellsPerCluster
           At(q) == where[(q - 1) * CellsPerCluster + 1][1]
<1>1. m \in Nat
  <2>1. n + CellsPerCluster - 1 \in Nat /\ CellsPerCluster \in Nat \ {0}
    BY Sizes
  <2>2. QED
    BY <2>1, Division
<1>2. ClustersUpTo(where, n) = [q \in 1 .. m |-> At(q)]
  BY DEF ClustersUpTo
<1> HIDE DEF m, At
<1>3. Len([q \in 1 .. m |-> At(q)]) = m
  BY <1>1
<1>4. QED
  BY <1>1, <1>2, <1>3

\* The places that are wanted are entries of the directory.
Wanted(k, dir, wanted) ==
    wanted \subseteq {j \in DOMAIN Locations(k.fat, dir) :
                         KindAt(k.disk, Locations(k.fat, dir)[j]) = "entry"}

\* What a lookup has found.
HasFound(t) == t.entry \in EntryOf(ShortName) /\ t.at \in Spot

Finding(k, at, dir, e) == [k EXCEPT !.ret = 1, !.at = at, !.dir = dir, !.entry = e]

LEMMA WithFound ==
  ASSUME NEW k, Running(k), NEW at \in Spot, NEW dir \in Number, NEW e \in EntryOf(ShortName),
         NEW t, t = Finding(k, at, dir, e)
  PROVE  /\ Looks(t, k) /\ t.ret = 1 /\ HasFound(t)
         /\ t.at = at /\ t.dir = dir /\ t.entry = e
<1> DEFINE u == [k EXCEPT !.ret = 1]
           v == [u EXCEPT !.at = at]
           x == [v EXCEPT !.dir = dir]
<1>1. Follows(u, k) /\ u.disk = k.disk /\ u.ret = 1 /\ u.dead = k.dead
  BY WithRet
<1>2. t = [x EXCEPT !.entry = e]
  BY DEF Finding
<1>3. at \in Place /\ e \in Found
  BY DEF Spot, Place, EntryOf, Found
<1> HIDE DEF u
<1>4. u \in CallState
  BY <1>1 DEF Follows, Running
<1>5. v \in CallState /\ v.at = at
  BY <1>3, <1>4 DEF CallState
<1>6. v.disk = u.disk /\ v.fat = u.fat /\ v.off = u.off /\ v.open = u.open /\ v.ret = u.ret
      /\ v.locations = u.locations /\ v.data = u.data /\ v.hit = u.hit /\ v.dead = u.dead
      /\ v.made = u.made /\ v.fault = u.fault
  BY <1>4 DEF CallState
<1> HIDE DEF v
<1>7. x \in CallState /\ x.at = v.at /\ x.dir = dir
  BY <1>5 DEF CallState
<1>8. x.disk = v.disk /\ x.fat = v.fat /\ x.off = v.off /\ x.open = v.open /\ x.ret = v.ret
      /\ x.locations = v.locations /\ x.data = v.data /\ x.hit = v.hit /\ x.dead = v.dead
      /\ x.made = v.made /\ x.fault = v.fault
  BY <1>5 DEF CallState
<1> HIDE DEF x
<1>9. t \in CallState /\ t.at = x.at /\ t.entry = e /\ t.dir = x.dir
  BY <1>2, <1>3, <1>7 DEF CallState
<1>10. t.disk = x.disk /\ t.fat = x.fat /\ t.off = x.off /\ t.open = x.open /\ t.ret = x.ret
      /\ t.locations = x.locations /\ t.data = x.data /\ t.hit = x.hit /\ t.dead = x.dead
      /\ t.made = x.made /\ t.fault = x.fault
  BY <1>2, <1>7 DEF CallState
<1>11. Looks(t, u)
  BY <1>1, <1>6, <1>8, <1>9, <1>10 DEF Looks, Later, Follows, Running
<1>12. Looks(u, k)
  BY <1>1, FollowsLooks
<1>13. QED
  BY <1>1, <1>5, <1>6, <1>7, <1>8, <1>9, <1>10, <1>11, <1>12, LooksOn DEF HasFound

\* What an iteration of a directory ends with.
Iterated(t, k) ==
    /\ Looks(t, k) /\ t.ret \in {-1, 0, 1}
    /\ t.ret = 1 => HasFound(t)
    /\ t.ret # 1 => Kept(t, k)

\* t has found one of the places, or every one is behind an end mark.
FoundAt(t, k, dir, j) ==
    /\ t.at = Locations(k.fat, dir)[j] /\ t.dir = dir
    /\ t.entry = CellAt(k.disk, Locations(k.fat, dir)[j])

BehindMark(k, dir, j) ==
    \E i \in DOMAIN Locations(k.fat, dir) :
        i < j /\ KindAt(k.disk, Locations(k.fat, dir)[i]) = "zero"

Sought(t, k, dir, wanted) ==
    /\ t.ret = 1 => \E j \in wanted : FoundAt(t, k, dir, j)
    /\ t.ret = 0 => \A j \in wanted : BehindMark(k, dir, j)

LEMMA IterateOK ==
  ASSUME NEW k, Running(k), NEW dir \in Number, NEW wanted, Wanted(k, dir, wanted),
         NEW t, t = fat32_iterate_directory(k, dir, wanted)
  PROVE  Iterated(t, k) /\ Sought(t, k, dir, wanted)
<1> DEFINE where == Locations(k.fat, dir)
           zeros == {j \in DOMAIN where : KindAt(k.disk, where[j]) = "zero"}
           stops == (wanted \cup zeros) \cup {Len(where)}
           stop == FirstOf(stops)
           u == ReadClusters(k, ClustersUpTo(where, stop))
<1>1. k.fat \in Table /\ k.disk \in SoundDisk
  BY DEF Running, CallState
<1>2. where \in Seq(Spot)
  BY <1>1, LocationsOK
<1>3. t = IF ~u.ok THEN [u EXCEPT !.ret = -1]
          ELSE IF stop \in wanted
               THEN [u EXCEPT !.ret = 1, !.at = where[stop], !.dir = dir,
                              !.entry = CellAt(k.disk, where[stop])]
          ELSE [u EXCEPT !.ret = 0]
  BY DEF fat32_iterate_directory
<1>4. \A j \in wanted : j \in 1 .. Len(where) /\ KindAt(k.disk, where[j]) = "entry"
  BY <1>2 DEF Wanted
<1>13. DOMAIN where = 1 .. Len(where) /\ Len(where) \in Nat
  BY <1>2
<1> HIDE DEF where
<1>5. /\ stop \in Nat
      /\ stop \notin wanted => \A j \in wanted : \E i \in zeros : i < j
  <2>1. stops \in SUBSET Nat /\ stops # {}
    BY <1>4, <1>13
  <2> HIDE DEF stops
  <2>2. stop \in stops /\ \A j \in stops : stop <= j
    BY <2>1, FirstOfSet
  <2>3. ASSUME stop \notin wanted, NEW j \in wanted PROVE stop \in zeros /\ stop < j
    <3>1. stop <= j /\ stop # j /\ stop \in Nat /\ j \in Nat
      BY <1>4, <2>1, <2>2, <2>3 DEF stops
    <3>2. stop < j
      BY <3>1
    <3>3. j <= Len(where)
      BY <1>4, <1>13
    <3>4. stop # Len(where)
      BY <1>13, <3>1, <3>2, <3>3
    <3>5. QED
      BY <2>2, <2>3, <3>2, <3>4 DEF stops
  <2>4. QED
    BY <2>1, <2>2, <2>3
<1> HIDE DEF stop
<1>6. Follows(u, k) /\ u.disk = k.disk /\ u.ok \in BOOLEAN /\ u.dead = k.dead
  BY <1>5, ClustersUpToLength, ReadClustersOK
<1> HIDE DEF u
<1>7. Running(u) /\ Looks(u, k) /\ Kept(u, k)
  BY <1>6, FollowsLooks DEF Follows
<1>8. ASSUME NEW r \in {-1, 0}, t = [u EXCEPT !.ret = r] PROVE Iterated(t, k) /\ t.ret = r
  <2>1. Follows(t, u) /\ t.disk = u.disk /\ t.ret = r /\ t.dead = u.dead
    BY <1>7, <1>8, WithRet
  <2>2. Looks(t, k) /\ Kept(t, k)
    BY <1>7, <2>1, FollowsLooks, LooksOn DEF Follows, Kept, Later
  <2>3. QED
    BY <2>1, <2>2 DEF Iterated
<1>9. CASE ~u.ok
  <2>1. Iterated(t, k) /\ t.ret = -1
    BY <1>3, <1>8, <1>9
  <2>2. QED
    BY <2>1 DEF Sought
<1>10. CASE u.ok /\ stop \in wanted
  <2> DEFINE at == where[stop]
             e == CellAt(k.disk, at)
  <2>1. t = Finding(u, at, dir, e)
    BY <1>3, <1>10 DEF Finding
  <2>2. at \in Spot /\ KindAt(k.disk, at) = "entry"
    BY <1>2, <1>4, <1>10
  <2> HIDE DEF at
  <2>3. e \in EntryOf(ShortName)
    BY <1>1, <2>2, CellAtOK
  <2> HIDE DEF e
  <2>4. /\ Looks(t, u) /\ t.ret = 1 /\ HasFound(t)
        /\ t.at = at /\ t.dir = dir /\ t.entry = e
    BY <1>7, <2>1, <2>2, <2>3, WithFound
  <2>5. Iterated(t, k)
    BY <1>7, <2>4, LooksOn DEF Iterated
  <2>6. FoundAt(t, k, dir, stop)
    BY <2>4 DEF FoundAt, at, e, where
  <2>7. QED
    BY <1>10, <2>4, <2>5, <2>6 DEF Sought
<1>11. CASE u.ok /\ stop \notin wanted
  <2>1. Iterated(t, k) /\ t.ret = 0
    BY <1>3, <1>8, <1>11
  <2>2. \A j \in wanted : BehindMark(k, dir, j)
    BY <1>5, <1>11 DEF BehindMark, where
  <2>3. QED
    BY <2>1, <2>2 DEF Sought
<1>12. QED
  BY <1>6, <1>9, <1>10, <1>11

LEMMA FindEntryOK ==
  ASSUME NEW k, Running(k), NEW dir \in Number, NEW name,
         NEW t, t = fat32_find_entry_in_directory(k, dir, name)
  PROVE  /\ Looks(t, k) /\ t.ret \in {-1, 0} /\ (t.ret = 0 => HasFound(t))
         /\ t.ret = 0 => \E j \in Named(k, dir, name) : FoundAt(t, k, dir, j)
<1> DEFINE wanted == Named(k, dir, name)
           u == fat32_iterate_directory(k, dir, wanted)
           r == IF u.ret = 1 THEN 0 ELSE -1
<1>1. Wanted(k, dir, wanted)
  BY DEF Wanted, Named
<1> HIDE DEF wanted
<1>2. Iterated(u, k) /\ Sought(u, k, dir, wanted)
  BY <1>1, IterateOK
<1>3. t = [u EXCEPT !.ret = r]
  BY DEF fat32_find_entry_in_directory, wanted
<1> HIDE DEF u
<1>4. /\ Running(u) /\ Looks(u, k) /\ (r = 0 => HasFound(u)) /\ r \in {-1, 0}
      /\ r = 0 => \E j \in wanted : FoundAt(u, k, dir, j)
  BY <1>2 DEF Iterated, Looks, Later, Sought
<1> HIDE DEF r
<1>5. Follows(t, u) /\ t.disk = u.disk /\ t.ret = r /\ t.dead = u.dead
  BY <1>3, <1>4, WithRet
<1>6. Looks(t, k)
  BY <1>4, <1>5, FollowsLooks, LooksOn
<1>7. t.ret = 0 => \E j \in wanted : FoundAt(t, k, dir, j)
  BY <1>4, <1>5 DEF Follows, Kept, FoundAt
<1>8. QED
  BY <1>4, <1>5, <1>6, <1>7 DEF Follows, Kept, Later, HasFound, wanted

\* Directories that names of entries lead from one to the other.
Closed(k, D) ==
    /\ ROOT_CLUSTER \in D
    /\ \A dir \in D, name \in Name : \A j \in Named(k, dir, name) :
           CellAt(k.disk, Locations(k.fat, dir)[j]).dir
               => CellAt(k.disk, Locations(k.fat, dir)[j]).start \in D

FoundIn(t, k, D) ==
    \E dir \in D, name \in Name : \E j \in Named(k, dir, name) : FoundAt(t, k, dir, j)

\* What the lookup of a path ends with.
LookedUp(t, k) ==
    /\ Looks(t, k) /\ t.ret \in Int
    /\ t.ret = 0 => t.entry \in EntryOf(ShortName \cup {NoShort})
    /\ \A D : Closed(k, D) /\ t.ret = 0 /\ t.entry.dir => t.entry.start \in D

LEMMA AtTheRoot ==
  ASSUME NEW k, Running(k), NEW b, b = [k EXCEPT !.ret = 0, !.entry = RootEntry]
  PROVE  LookedUp(b, k)
<1> DEFINE u == [k EXCEPT !.ret = 0]
<1>1. Follows(u, k) /\ u.disk = k.disk /\ u.ret = 0 /\ u.dead = k.dead
  BY WithRet
<1>2. b = [u EXCEPT !.entry = RootEntry]
  OBVIOUS
<1>3. RootEntry \in EntryOf(ShortName \cup {NoShort})
  BY Numbers DEF RootEntry, Entry, EntryOf
<1>4. RootEntry \in Found
  BY <1>3 DEF Found
<1> HIDE DEF u
<1>5. u \in CallState
  BY <1>1 DEF Follows, Running
<1>6. b \in CallState /\ b.entry = RootEntry
  BY <1>2, <1>4, <1>5 DEF CallState
<1>7. b.disk = u.disk /\ b.fat = u.fat /\ b.off = u.off /\ b.open = u.open /\ b.ret = u.ret
      /\ b.locations = u.locations /\ b.data = u.data /\ b.hit = u.hit /\ b.dead = u.dead
      /\ b.made = u.made /\ b.fault = u.fault
  BY <1>2, <1>5 DEF CallState
<1>8. Looks(b, u)
  BY <1>1, <1>6, <1>7 DEF Looks, Later, Follows, Running
<1>9. RootEntry.start = ROOT_CLUSTER
  BY DEF RootEntry, Entry
<1>10. Looks(b, k)
  BY <1>1, <1>8, FollowsLooks, LooksOn
<1>11. QED
  BY <1>1, <1>3, <1>6, <1>7, <1>9, <1>10 DEF LookedUp, Closed

LEMMA NotADirectory ==
  ASSUME NEW k, NEW u, Running(u), LookedUp(u, k), NEW v, v = [u EXCEPT !.ret = -1]
  PROVE  LookedUp(v, k) /\ v.ret = -1
<1>1. Follows(v, u) /\ v.disk = u.disk /\ v.ret = -1 /\ v.dead = u.dead
  BY WithRet
<1>2. Looks(u, k) /\ Looks(v, u)
  BY <1>1, FollowsLooks DEF LookedUp
<1>3. Looks(v, k)
  BY <1>2, LooksOn
<1>4. QED
  BY <1>1, <1>3 DEF LookedUp

LEMMA LookupOK ==
  ASSUME NEW k, Running(k), NEW path \in Seq(Name), NEW t, t = fat32_lookup_path(k, path)
  PROVE  /\ LookedUp(t, k)
         /\ t.ret = 0 /\ Len(path) # 0 =>
                t.at \in Spot /\ \A D : Closed(k, D) => FoundIn(t, k, D)
<1> DEFINE N == Len(path)
           b == [k EXCEPT !.ret = 0, !.entry = RootEntry]
           Into(u, name) ==
               IF u.ret # 0 THEN u
               ELSE IF ~u.entry.dir THEN [u EXCEPT !.ret = -1]
               ELSE fat32_find_entry_in_directory(u, u.entry.start, name)
           S == {u \in CallState : LookedUp(u, k)}
           Is(f) == f = [i \in 0 .. N |-> IF i = 0 THEN b ELSE Into(f[i - 1], path[i])]
           G == [x \in S \X (1 .. N) |-> Into(x[1], path[x[2]])]
           w == CHOOSE f : Is(f)
<1>1. \A u : LookedUp(u, k) => u \in S
  BY DEF LookedUp, Looks, Later, Running
<1>2. b \in S
  <2>1. \A x : x = [k EXCEPT !.ret = 0, !.entry = RootEntry] => LookedUp(x, k)
    BY AtTheRoot
  <2>2. QED
    BY <1>1, <2>1
<1>3. ASSUME NEW u \in S, NEW name \in Name
      PROVE  /\ Into(u, name) \in S
             /\ Into(u, name).ret = 0 =>
                    /\ Into(u, name).at \in Spot
                    /\ \A D : Closed(k, D) => FoundIn(Into(u, name), k, D)
  <2>1. LookedUp(u, k) /\ Running(u) /\ Looks(u, k)
    BY <1>3 DEF LookedUp, Looks, Later
  <2>2. CASE u.ret # 0
    BY <2>2
  <2>3. CASE u.ret = 0
    <3>1. u.entry \in EntryOf(ShortName \cup {NoShort})
      BY <2>1, <2>3 DEF LookedUp
    <3>2. u.entry.start \in Number
      BY <3>1 DEF EntryOf
    <3>3. CASE u.entry.dir
      <4> DEFINE v == fat32_find_entry_in_directory(u, u.entry.start, name)
      <4>1. /\ Looks(v, u) /\ v.ret \in {-1, 0} /\ (v.ret = 0 => HasFound(v))
            /\ v.ret = 0 => \E j \in Named(u, u.entry.start, name) :
                                FoundAt(v, u, u.entry.start, j)
        BY <2>1, <3>2, FindEntryOK
      <4>2. Into(u, name) = v
        BY <2>3, <3>3
      <4> HIDE DEF v, Into
      <4>5. ASSUME v.ret = 0, NEW D, Closed(k, D)
            PROVE  FoundIn(v, k, D) /\ (v.entry.dir => v.entry.start \in D)
        <5> DEFINE dir == u.entry.start
        <5>1. dir \in D
          BY <2>1, <2>3, <3>3, <4>5 DEF LookedUp
        <5>2. u.disk = k.disk /\ u.fat = k.fat
          BY <2>1 DEF Looks
        <5>3. PICK j \in Named(u, dir, name) : FoundAt(v, u, dir, j)
          BY <4>1, <4>5
        <5> HIDE DEF dir
        <5>4. j \in Named(k, dir, name) /\ FoundAt(v, k, dir, j)
          BY <5>2, <5>3 DEF Named, FoundAt
        <5>5. QED
          BY <4>5, <5>1, <5>4 DEF FoundIn, Closed, FoundAt
      <4>3. LookedUp(v, k)
        BY <2>1, <4>1, <4>5, LooksOn DEF LookedUp, HasFound, EntryOf
      <4>4. QED
        BY <1>1, <4>1, <4>2, <4>3, <4>5 DEF HasFound
    <3>4. CASE ~u.entry.dir
      <4> DEFINE v == [u EXCEPT !.ret = -1]
      <4>1. Into(u, name) = v
        BY <2>3, <3>4
      <4>2. \A x : x = [u EXCEPT !.ret = -1] => LookedUp(x, k) /\ x.ret = -1
        BY <2>1, NotADirectory
      <4>3. LookedUp(v, k) /\ v.ret = -1
        BY <4>2
      <4> HIDE DEF v, Into
      <4>4. QED
        BY <1>1, <4>1, <4>3
    <3>5. QED
      BY <3>3, <3>4
  <2>4. QED
    BY <2>2, <2>3
<1> HIDE DEF Into, b, S, N
<1>4. N \in Nat /\ \A i \in 1 .. N : path[i] \in Name
  BY DEF N
<1>5. Is(w)
  <2>1. G \in [S \X (1 .. N) -> S]
        /\ \A u \in S, i \in 1 .. N : G[<<u, i>>] = Into(u, path[i])
    BY <1>3, <1>4
  <2> HIDE DEF G
  <2>2. PICK f : IsIteration(f, N, S, b, G)
    BY <1>2, <1>4, <2>1, IterationExists
  <2>3. f \in [0 .. N -> S] /\ f[0] = b /\ \A i \in 1 .. N : f[i] = G[<<f[i - 1], i>>]
    BY <2>2 DEF IsIteration
  <2>4. \A i \in 1 .. N : f[i - 1] \in S
    BY <1>4, <2>3
  <2>5. \A i \in 1 .. N : f[i] = Into(f[i - 1], path[i])
    BY <2>1, <2>3, <2>4
  <2>6. Is(f)
    BY <1>4, <2>3, <2>5
  <2> HIDE DEF Is
  <2>7. QED
    BY <2>6
<1>6. t = w[N]
  BY DEF fat32_lookup_path, Into, b, N
<1> HIDE DEF w
<1>7. \A i \in 1 .. N : w[i] = Into(w[i - 1], path[i])
  BY <1>4, <1>5
<1>8. w[0] \in S /\ \A i \in 1 .. N : w[i - 1] \in S => w[i] \in S
  BY <1>2, <1>3, <1>4, <1>5
<1>9. \A i \in 0 .. N : w[i] \in S
  BY <1>4, <1>8, StaysIn
<1>10. LookedUp(t, k)
  BY <1>4, <1>6, <1>9 DEF S
<1>11. ASSUME N # 0, t.ret = 0 PROVE t.at \in Spot /\ \A D : Closed(k, D) => FoundIn(t, k, D)
  <2>1. N \in 1 .. N /\ N - 1 \in 0 .. N
    BY <1>4, <1>11
  <2>2. w[N - 1] \in S /\ t = Into(w[N - 1], path[N]) /\ path[N] \in Name
    BY <1>4, <1>6, <1>7, <1>9, <2>1
  <2>3. QED
    BY <1>3, <1>11, <2>2
<1>12. QED
  BY <1>10, <1>11 DEF N

-----------------------------------------------------------------------------
(* Short names                                                             *)

LEMMA Names ==
  /\ Cardinality(Name) \in Nat
  /\ \A name \in Name : Spelling[name].short \in ShortName /\ Spelling[name].lfn \in BOOLEAN
  /\ \A name \in Name, i \in 1 .. Cardinality(Name) : <<Spelling[name].base, i>> \in ShortName
<1>1. Cardinality(Name) \in Nat
  <2>1. IsFiniteSet(Name)
    BY Fat32Assumption DEF Name
  <2>2. QED
    BY <2>1, FS_CardinalityType
<1>2. \A name \in Name : Spelling[name].lfn \in BOOLEAN
  BY Fat32Assumption, Zenon DEF Name
<1>3. \A name \in Name : Spelling[name].short \in ShortName
  BY DEF ShortName
<1>4. \A name \in Name, i \in 1 .. Cardinality(Name) : <<Spelling[name].base, i>> \in ShortName
  BY DEF ShortName
<1>5. QED
  BY <1>1, <1>2, <1>3, <1>4

LEMMA WithShort ==
  ASSUME NEW k, Running(k), NEW s \in ShortName \cup {NoShort}, NEW t, t = [k EXCEPT !.short = s]
  PROVE  Looks(t, k) /\ t.short = s /\ t.ret = k.ret
<1>1. k \in CallState
  BY DEF Running
<1>2. t \in CallState /\ t.short = s
  BY <1>1 DEF CallState
<1>3. t.disk = k.disk /\ t.fat = k.fat /\ t.off = k.off /\ t.open = k.open /\ t.ret = k.ret
      /\ t.locations = k.locations /\ t.data = k.data /\ t.hit = k.hit /\ t.dead = k.dead
  BY <1>1 DEF CallState
<1>4. QED
  BY <1>2, <1>3 DEF Running, Looks, Later

LEMMA WithLfn ==
  ASSUME NEW k, Running(k), NEW b \in BOOLEAN, NEW t, t = [k EXCEPT !.lfn = b]
  PROVE  Looks(t, k) /\ t.short = k.short /\ t.ret = k.ret
<1>1. k \in CallState
  BY DEF Running
<1>2. t \in CallState /\ t.short = k.short
  BY <1>1 DEF CallState
<1>3. t.disk = k.disk /\ t.fat = k.fat /\ t.off = k.off /\ t.open = k.open /\ t.ret = k.ret
      /\ t.locations = k.locations /\ t.data = k.data /\ t.hit = k.hit /\ t.dead = k.dead
  BY <1>1 DEF CallState
<1>4. QED
  BY <1>2, <1>3 DEF Running, Looks, Later

\* No entry before the end mark has the name.
NameIsFree(k, dir, short) ==
    \A j \in DOMAIN Locations(k.fat, dir) :
        /\ KindAt(k.disk, Locations(k.fat, dir)[j]) = "entry"
        /\ CellAt(k.disk, Locations(k.fat, dir)[j]).name = short
        => BehindMark(k, dir, j)

LEMMA ShortNameExistsOK ==
  ASSUME NEW k, Running(k), NEW dir \in Number, NEW short,
         NEW t, t = fat32_short_name_exists(k, dir, short)
  PROVE  Iterated(t, k) /\ (t.ret = 0 => NameIsFree(k, dir, short))
<1> DEFINE where == Locations(k.fat, dir)
           wanted == {j \in DOMAIN where : /\ KindAt(k.disk, where[j]) = "entry"
                                           /\ CellAt(k.disk, where[j]).name = short}
<1>1. Wanted(k, dir, wanted)
  BY DEF Wanted
<1>2. t = fat32_iterate_directory(k, dir, wanted)
  BY DEF fat32_short_name_exists
<1> HIDE DEF wanted
<1>3. Iterated(t, k) /\ Sought(t, k, dir, wanted)
  BY <1>1, <1>2, IterateOK
<1>4. QED
  BY <1>3 DEF Sought, NameIsFree, wanted

LEMMA NameIsFreeAfter ==
  ASSUME NEW k, NEW t, Looks(t, k), NEW dir, NEW short, NameIsFree(t, dir, short)
  PROVE  NameIsFree(k, dir, short)
BY DEF Looks, NameIsFree, BehindMark

\* A name that is answered is a short name that is free, and not a dot entry's.
NamedAs(t, k, dir) ==
    /\ Looks(t, k)
    /\ t.ret = 0 => /\ t.short \in ShortName /\ t.short \notin {Dot, DotDot}
                    /\ NameIsFree(k, dir, t.short)

LEMMA GenerateOK ==
  ASSUME NEW k, Running(k), NEW dir \in Number, NEW name \in Name,
         NEW t, t = fat32_generate_unique_short_name(k, dir, name)
  PROVE  NamedAs(t, k, dir)
<1> DEFINE N == Cardinality(Name)
           b == [k EXCEPT !.ret = 1]
           Tried(u, short) ==
               IF u.ret # 1 THEN u
               ELSE [fat32_short_name_exists(u, dir, short) EXCEPT !.short = short]
           S == {u \in CallState : NamedAs(u, k, dir)}
           Is(f) == f = [i \in 0 .. N |-> IF i = 0 THEN b
                                          ELSE Tried(f[i - 1], <<Spelling[name].base, i>>)]
           G == [x \in S \X (1 .. N) |-> Tried(x[1], <<Spelling[name].base, x[2]>>)]
           w == CHOOSE f : Is(f)
<1>1. \A u : NamedAs(u, k, dir) => u \in S
  BY DEF NamedAs, Looks, Later, Running
<1>2. b \in S
  <2>1. Follows(b, k) /\ b.disk = k.disk /\ b.ret = 1 /\ b.dead = k.dead
    BY WithRet
  <2> HIDE DEF b
  <2>2. NamedAs(b, k, dir)
    BY <2>1, FollowsLooks DEF NamedAs
  <2>3. QED
    BY <1>1, <2>2
<1>3. ASSUME NEW u \in S, NEW i \in 1 .. N PROVE Tried(u, <<Spelling[name].base, i>>) \in S
  <2> DEFINE short == <<Spelling[name].base, i>>
             v == fat32_short_name_exists(u, dir, short)
             x == [v EXCEPT !.short = short]
  <2>1. NamedAs(u, k, dir) /\ Running(u) /\ Looks(u, k)
    BY <1>3 DEF NamedAs, Looks, Later
  <2>2. short \in ShortName /\ short \notin {Dot, DotDot}
    BY Names DEF Dot, DotDot
  <2>3. Tried(u, short) = IF u.ret # 1 THEN u ELSE x
    OBVIOUS
  <2> HIDE DEF short
  <2>4. Iterated(v, u) /\ (v.ret = 0 => NameIsFree(u, dir, short))
    BY <2>1, ShortNameExistsOK
  <2> HIDE DEF v, Tried
  <2>5. Looks(v, u) /\ Running(v)
    BY <2>4 DEF Iterated, Looks, Later
  <2>6. Looks(x, v) /\ x.short = short /\ x.ret = v.ret
    BY <2>2, <2>5, WithShort
  <2> HIDE DEF x
  <2>7. NamedAs(x, k, dir)
    BY <2>1, <2>2, <2>4, <2>5, <2>6, LooksOn, NameIsFreeAfter DEF NamedAs
  <2>8. Tried(u, short) \in S
    BY <1>1, <2>3, <2>7
  <2>9. QED
    BY <2>8 DEF short
<1> HIDE DEF Tried, b, S, N
<1>4. N \in Nat
  BY Names DEF N
<1>5. Is(w)
  <2>1. G \in [S \X (1 .. N) -> S]
        /\ \A u \in S, i \in 1 .. N : G[<<u, i>>] = Tried(u, <<Spelling[name].base, i>>)
    BY <1>3
  <2> HIDE DEF G
  <2>2. PICK f : IsIteration(f, N, S, b, G)
    BY <1>2, <1>4, <2>1, IterationExists
  <2>3. f \in [0 .. N -> S] /\ f[0] = b /\ \A i \in 1 .. N : f[i] = G[<<f[i - 1], i>>]
    BY <2>2 DEF IsIteration
  <2>4. \A i \in 1 .. N : f[i - 1] \in S
    BY <1>4, <2>3
  <2>5. \A i \in 1 .. N : f[i] = Tried(f[i - 1], <<Spelling[name].base, i>>)
    BY <2>1, <2>3, <2>4
  <2>6. Is(f)
    BY <1>4, <2>3, <2>5
  <2> HIDE DEF Is
  <2>7. QED
    BY <2>6
<1>6. t = w[N]
  BY DEF fat32_generate_unique_short_name, Tried, b, N
<1> HIDE DEF w
<1>7. w[0] \in S /\ \A i \in 1 .. N : w[i - 1] \in S => w[i] \in S
  BY <1>2, <1>3, <1>4, <1>5
<1>8. w[N] \in S
  BY <1>4, <1>7, StaysIn
<1>9. QED
  BY <1>6, <1>8 DEF S

LEMMA PrepareShortNameOK ==
  ASSUME NEW k, Running(k), NEW dir \in Number, NEW name \in Name,
         NEW t, t = fat32_prepare_short_name(k, dir, name)
  PROVE  NamedAs(t, k, dir)
<1> DEFINE short == Spelling[name].short
           u == IF short = NoShort THEN k ELSE fat32_short_name_exists(k, dir, short)
           g == fat32_generate_unique_short_name(u, dir, name)
           s == [u EXCEPT !.short = short]
<1>1. /\ short \in ShortName /\ Spelling[name].lfn \in BOOLEAN
      /\ short \notin {Dot, DotDot}
  <2>1. short \notin {Dot, DotDot}
    BY SpellingAssumption DEF Dot, DotDot, Name
  <2>2. QED
    BY <2>1, Names
<1>2. /\ Looks(u, k) /\ Running(u)
      /\ short # NoShort /\ u.ret = 0 => NameIsFree(k, dir, short)
  <2>1. CASE short = NoShort
    BY <2>1 DEF Looks, Later
  <2>2. CASE short # NoShort
    <3>1. u = fat32_short_name_exists(k, dir, short)
      BY <2>2
    <3> HIDE DEF u
    <3>2. Iterated(u, k) /\ (u.ret = 0 => NameIsFree(k, dir, short))
      BY <3>1, ShortNameExistsOK
    <3>3. QED
      BY <3>2 DEF Iterated, Looks, Later
  <2>3. QED
    BY <2>1, <2>2
<1>3. t = IF short = NoShort \/ u.ret = 1 THEN [g EXCEPT !.lfn = TRUE]
          ELSE [u EXCEPT !.short = short, !.lfn = Spelling[name].lfn]
  BY DEF fat32_prepare_short_name
<1> HIDE DEF u
<1>4. CASE short = NoShort \/ u.ret = 1
  <2>1. NamedAs(g, u, dir)
    BY <1>2, GenerateOK
  <2>2. t = [g EXCEPT !.lfn = TRUE]
    BY <1>3, <1>4
  <2> HIDE DEF g
  <2>3. Running(g) /\ Looks(g, u)
    BY <2>1 DEF NamedAs, Looks, Later
  <2>4. Looks(t, g) /\ t.short = g.short /\ t.ret = g.ret
    BY <2>2, <2>3, WithLfn
  <2>5. QED
    BY <1>2, <2>1, <2>3, <2>4, LooksOn, NameIsFreeAfter DEF NamedAs
<1>5. CASE ~(short = NoShort \/ u.ret = 1)
  <2>1. t = [s EXCEPT !.lfn = Spelling[name].lfn]
    BY <1>3, <1>5
  <2>2. Looks(s, u) /\ s.short = short /\ s.ret = u.ret
    BY <1>1, <1>2, WithShort
  <2> HIDE DEF s
  <2>3. Running(s)
    BY <2>2 DEF Looks, Later
  <2>4. Looks(t, s) /\ t.short = s.short /\ t.ret = s.ret
    BY <1>1, <2>1, <2>3, WithLfn
  <2>5. QED
    BY <1>1, <1>2, <1>5, <2>2, <2>4, LooksOn DEF NamedAs
<1>6. QED
  BY <1>4, <1>5

-----------------------------------------------------------------------------
(* New entries of a directory                                              *)

Reserving(k, r, locations) == [k EXCEPT !.ret = r, !.locations = locations]

\* t comes after k and has room for that many entries.
Reserves(t, k, count) ==
    /\ Good(t) /\ t.short = k.short /\ t.lfn = k.lfn
    /\ t.ret = 0 => Len(t.locations) = count

LEMMA WithLocations ==
  ASSUME NEW k, Good(k), NEW r \in Int, NEW z \in Seq(Spot), NEW t, t = Reserving(k, r, z)
  PROVE  /\ Good(t) /\ t.short = k.short /\ t.lfn = k.lfn /\ t.locations = z /\ t.ret = r
         /\ Same(t, k) /\ t.open = k.open
<1> DEFINE u == [k EXCEPT !.ret = r]
<1>1. Running(k)
  BY DEF Good
<1>2. Follows(u, k) /\ u.ret = r /\ u.disk = k.disk /\ u.hit = k.hit /\ u.dead = k.dead
  BY <1>1, WithRet
<1>3. t = [u EXCEPT !.locations = z]
  BY DEF Reserving
<1> HIDE DEF u
<1>4. Good(u) /\ u.short = k.short /\ u.lfn = k.lfn /\ u.open = k.open /\ Same(u, k)
  BY <1>2, FollowsGood DEF Follows, Kept, Later, Same
<1>5. u \in CallState
  BY <1>4 DEF Good, Running
<1>6. t \in CallState /\ t.locations = z
  BY <1>3, <1>5 DEF CallState
<1>7. t.disk = u.disk /\ t.fat = u.fat /\ t.off = u.off /\ t.ret = u.ret
      /\ t.short = u.short /\ t.hit = u.hit /\ t.dead = u.dead /\ t.made = u.made /\ t.fault = u.fault
      /\ t.open = u.open
  BY <1>3, <1>5 DEF CallState
<1>8. t.lfn = u.lfn
  BY <1>3, <1>5 DEF CallState
<1>9. QED
  BY <1>2, <1>4, <1>6, <1>7, <1>8 DEF Good, Running, Mirrored, Same

LEMMA GoodRet ==
  ASSUME NEW k, Good(k), NEW r \in Int, NEW t, t = [k EXCEPT !.ret = r]
  PROVE  Good(t) /\ t.ret = r /\ Kept(t, k) /\ Same(t, k)
<1>1. Running(k)
  BY DEF Good
<1>2. Follows(t, k) /\ t.ret = r /\ t.disk = k.disk /\ t.hit = k.hit /\ t.dead = k.dead
  BY <1>1, WithRet
<1>3. Same(t, k)
  BY <1>2 DEF Same, Follows, Kept, Later
<1>4. QED
  BY <1>2, <1>3, FollowsGood DEF Follows

LEMMA FailingOK ==
  ASSUME NEW k, Good(k), NEW t, t = Failing(k)
  PROVE  Good(t) /\ t.ret = -1 /\ Kept(t, k) /\ Same(t, k)
<1>1. t = [k EXCEPT !.ret = -1]
  BY DEF Failing
<1>2. QED
  BY <1>1, GoodRet

\* Cells of a directory that an entry can go to.
FreeFrom(k, where, i, j) ==
    \A n \in i .. j : KindAt(k.disk, where[n]) \in {"zero", "deleted"}

\* The first run of free cells that is long enough ...
RunAt(t, k, where, count) ==
    \E first \in 1 .. Len(where) - count + 1 :
        /\ FreeFrom(k, where, first, first + count - 1)
        /\ \A j \in 1 .. Len(where) - count + 1 :
               FreeFrom(k, where, j, j + count - 1) => first <= j
        /\ \A i \in 1 .. count : t.locations[i] = where[first + i - 1]

\* ... or the free cells at the end, and the first ones of a new cluster.
TailAt(t, k, where, count, c) ==
    \E tail \in 1 .. Len(where) + 1 :
        /\ FreeFrom(k, where, tail, Len(where))
        /\ \A j \in 1 .. Len(where) + 1 : FreeFrom(k, where, j, Len(where)) => tail <= j
        /\ \A i \in 1 .. count :
               t.locations[i] = IF tail + i - 1 <= Len(where) THEN where[tail + i - 1]
                                ELSE <<c, (tail + i - 1) - Len(where)>>

ReservedAs(t, k, where, count) ==
    \/ Quiet(t, k) /\ (t.ret = 0 => RunAt(t, k, where, count))
    \/ \E v, x : /\ Quiet(v, k) /\ Good(v) /\ Good(x) /\ Quiet(t, x)
                 /\ x = fat32_allocate_cluster(v, Last(where)[1])
                 /\ t.ret = 0 => x.ret # 0 /\ TailAt(t, k, where, count, x.ret)

LEMMA QuietBy ==
  ASSUME NEW k, NEW t, NEW u, Quiet(u, k), Running(t), Same(t, u), t.open = u.open
  PROVE  Quiet(t, k)
BY DEF Quiet, Same, Later

LEMMA QuietOn ==
  ASSUME NEW k, NEW t, NEW u, Quiet(u, k), Quiet(t, u)
  PROVE  Quiet(t, k)
BY DEF Quiet, Later

LEMMA QuietSame ==
  ASSUME NEW t, NEW u, Running(t), Same(t, u), t.open = u.open
  PROVE  Quiet(t, u)
BY DEF Quiet, Same, Later

LEMMA FollowsQuiet ==
  ASSUME NEW k, NEW t, Follows(t, k), t.disk = k.disk, t.dead = k.dead
  PROVE  Quiet(t, k)
BY DEF Quiet, Follows, Kept

LEMMA ReserveOK ==
  ASSUME NEW k, Good(k), NEW dir \in Number, NEW count \in {1, 2},
         NEW t, t = fat32_directory_reserve_entries(k, dir, count)
  PROVE  Reserves(t, k, count) /\ ReservedAs(t, k, Locations(k.fat, dir), count)
<1> DEFINE where == Locations(k.fat, dir)
           Free(j) == KindAt(k.disk, where[j]) \in {"zero", "deleted"}
           runs == {j \in 1 .. Len(where) - count + 1 : \A i \in 0 .. count - 1 : Free(j + i)}
           first == FirstOf(runs)
           tails == {j \in 1 .. Len(where) + 1 : \A i \in j .. Len(where) : Free(i)}
           tail == FirstOf(tails)
           u == ReadClusters(k, ClustersUpTo(where, first + count - 1))
           v == ReadClusters(k, ClustersUpTo(where, Len(where)))
           x == fat32_allocate_cluster(v, Last(where)[1])
           y == fat32_read_cluster(x, x.ret)
           more == [i \in 1 .. CellsPerCluster |-> <<x.ret, i>>]
<1>1. Running(k) /\ k.fat \in Table
  BY DEF Good, Running, CallState
<1>2. where \in Seq(Spot) /\ Len(where) \in Nat
  BY <1>1, LocationsOK
<1>3. t = IF runs # {}
          THEN Reserving(u, IF u.ok THEN 0 ELSE -1, SubSeq(where, first, first + count - 1))
          ELSE IF ~v.ok THEN [v EXCEPT !.ret = -1]
          ELSE IF x.ret = 0 THEN [x EXCEPT !.ret = -1]
          ELSE Reserving(y, IF y.ok THEN 0 ELSE -1, SubSeq(where \o more, tail, tail + count - 1))
  BY DEF fat32_directory_reserve_entries, Reserving
<1> HIDE DEF where
<1>4. CASE runs # {}
  <2>1. runs \in SUBSET Nat
    BY <1>2
  <2>2. first \in 1 .. Len(where) - count + 1
    BY <1>4, <2>1, FirstOfSet
  <2>11. first \in runs /\ \A j \in runs : first <= j
    BY <1>4, <2>1, FirstOfSet
  <2>12. ASSUME NEW j \in 1 .. Len(where) - count + 1
         PROVE  FreeFrom(k, where, j, j + count - 1) <=> j \in runs
    <3>1. j \in Int /\ count \in Int
      BY <1>2
    <3>2. \A i \in 0 .. count - 1 : j + i \in j .. j + count - 1
      BY <3>1
    <3>3. \A n \in j .. j + count - 1 : n - j \in 0 .. count - 1 /\ j + (n - j) = n
      BY <3>1
    <3>4. j \in runs <=> \A i \in 0 .. count - 1 : Free(j + i)
      OBVIOUS
    <3>5. FreeFrom(k, where, j, j + count - 1) <=> \A n \in j .. j + count - 1 : Free(n)
      BY DEF FreeFrom
    <3> HIDE DEF Free, runs
    <3>6. QED
      BY <3>2, <3>3, <3>4, <3>5
  <2>13. FreeFrom(k, where, first, first + count - 1)
         /\ \A j \in 1 .. Len(where) - count + 1 :
                FreeFrom(k, where, j, j + count - 1) => first <= j
    BY <2>2, <2>11, <2>12
  <2> HIDE DEF first, runs
  <2> DEFINE last1 == first + count - 1
             z == SubSeq(where, first, last1)
             r == IF u.ok THEN 0 ELSE -1
  <2>3. t = Reserving(u, r, z)
    BY <1>3, <1>4
  <2>4. first \in 1 .. Len(where) + 1 /\ last1 \in first - 1 .. Len(where) /\ last1 \in Nat
        /\ last1 - first + 1 = count
    BY <1>2, <2>2
  <2> HIDE DEF last1
  <2>5. z \in Seq(Spot) /\ Len(z) = last1 - first + 1
        /\ \A i \in 1 .. last1 - first + 1 : z[i] = where[first + i - 1]
    BY <1>2, <2>4, SubSeqElements
  <2>6. Follows(u, k) /\ u.ok \in BOOLEAN /\ u.disk = k.disk /\ u.dead = k.dead
    BY <1>1, <2>4, ClustersUpToLength, ReadClustersOK DEF last1
  <2>7. r \in Int
    OBVIOUS
  <2> HIDE DEF z, u, r
  <2>8. Good(u) /\ u.short = k.short /\ u.lfn = k.lfn
    BY <2>6, FollowsGood DEF Follows, Kept, Later
  <2>9. Good(t) /\ t.short = u.short /\ t.lfn = u.lfn /\ t.locations = z
        /\ Same(t, u) /\ t.open = u.open
    BY <2>3, <2>5, <2>7, <2>8, WithLocations
  <2>14. Quiet(t, k)
    BY <2>6, <2>9, FollowsQuiet, QuietBy DEF Good
  <2>15. RunAt(t, k, where, count)
    BY <2>2, <2>4, <2>5, <2>9, <2>13 DEF RunAt
  <2>16. ReservedAs(t, k, where, count)
    BY <2>14, <2>15 DEF ReservedAs
  <2>10. QED
    BY <2>4, <2>5, <2>8, <2>9, <2>16 DEF Reserves, where
<1>5. CASE runs = {}
  <2>1. Follows(v, k) /\ v.ok \in BOOLEAN /\ v.disk = k.disk /\ v.dead = k.dead
    BY <1>1, <1>2, ClustersUpToLength, ReadClustersOK
  <2>2. t = IF ~v.ok THEN [v EXCEPT !.ret = -1]
          ELSE IF x.ret = 0 THEN [x EXCEPT !.ret = -1]
          ELSE Reserving(y, IF y.ok THEN 0 ELSE -1, SubSeq(where \o more, tail, tail + count - 1))
    BY <1>3, <1>5
  <2> HIDE DEF v, runs
  <2>3. Good(v) /\ Passes(v, k)
    BY <2>1, FollowsPasses DEF Passes
  <2>4. Passes(x, v) /\ x.ret \in {0} \cup ClusterNumber
    BY <2>3, AllocateOK
  <2>11. x = fat32_allocate_cluster(v, Last(where)[1])
    OBVIOUS
  <2>12. Quiet(v, k)
    BY <2>1, FollowsQuiet
  <2> HIDE DEF x
  <2>5. Good(x) /\ Passes(x, k)
    BY <2>3, <2>4, PassesOn DEF Passes
  <2>6. ASSUME NEW q, Passes(q, k), t = [q EXCEPT !.ret = -1]
        PROVE  Reserves(t, k, count) /\ Quiet(t, q) /\ t.ret = -1
    <3>1. Good(q) /\ Running(q)
      BY <2>6 DEF Passes, Good
    <3>2. Good(t) /\ t.ret = -1 /\ Kept(t, q) /\ Same(t, q)
      BY <2>6, <3>1, GoodRet
    <3>3. Quiet(t, q)
      BY <3>2, QuietSame DEF Good, Kept
    <3>4. QED
      BY <2>6, <3>2, <3>3 DEF Reserves, Passes, Kept, Later
  <2>7. CASE ~v.ok
    <3>1. Reserves(t, k, count) /\ Quiet(t, v) /\ t.ret = -1
      BY <2>2, <2>3, <2>6, <2>7
    <3>2. Quiet(t, k)
      BY <2>12, <3>1, QuietOn
    <3>3. QED
      BY <3>1, <3>2 DEF ReservedAs, where
  <2>8. CASE v.ok /\ x.ret = 0
    <3>1. Reserves(t, k, count) /\ Quiet(t, x) /\ t.ret = -1
      BY <2>2, <2>5, <2>6, <2>8
    <3>2. ReservedAs(t, k, where, count)
      BY <2>3, <2>5, <2>11, <2>12, <3>1 DEF ReservedAs
    <3>3. QED
      BY <3>1, <3>2 DEF where
  <2>9. CASE v.ok /\ x.ret # 0
    <3>1. x.ret \in Number
      BY <2>4, <2>9 DEF ClusterNumber
    <3>2. more \in Seq(Spot) /\ Len(more) = CellsPerCluster
      <4>1. \A i \in 1 .. CellsPerCluster : <<x.ret, i>> \in Spot
        BY <3>1 DEF Spot
      <4>2. QED
        BY <4>1, Sizes
    <3>3. /\ tail \in 1 .. Len(where) + 1
          /\ FreeFrom(k, where, tail, Len(where))
          /\ \A j \in 1 .. Len(where) + 1 : FreeFrom(k, where, j, Len(where)) => tail <= j
      <4>1. tails \in SUBSET Nat
        OBVIOUS
      <4>2. Len(where) + 1 \in tails
        BY <1>2
      <4> HIDE DEF tails
      <4>3. tail \in tails /\ \A j \in tails : tail <= j
        BY <4>1, <4>2, FirstOfSet
      <4> HIDE DEF tail
      <4>4. QED
        BY <4>3 DEF tails, FreeFrom
    <3>13. \A i \in 1 .. CellsPerCluster : more[i] = <<x.ret, i>>
      OBVIOUS
    <3> HIDE DEF more, tail
    <3> DEFINE last1 == tail + count - 1
               all == where \o more
               z == SubSeq(all, tail, last1)
               r == IF y.ok THEN 0 ELSE -1
    <3>4. t = Reserving(y, r, z)
      BY <2>2, <2>9
    <3>5. all \in Seq(Spot) /\ Len(all) = Len(where) + CellsPerCluster
          /\ (\A j \in 1 .. Len(where) : all[j] = where[j])
          /\ (\A j \in 1 .. CellsPerCluster : all[Len(where) + j] = more[j])
      <4>1. all \in Seq(Spot) /\ Len(all) = Len(where) + Len(more)
            /\ (\A j \in 1 .. Len(where) : all[j] = where[j])
            /\ (\A j \in 1 .. Len(more) : all[Len(where) + j] = more[j])
        BY <1>2, <3>2
      <4> HIDE DEF all
      <4>2. QED
        BY <3>2, <4>1
    <3> HIDE DEF all
    <3>6. tail \in 1 .. Len(all) + 1 /\ last1 \in tail - 1 .. Len(all) /\ last1 - tail + 1 = count
      BY <1>2, <3>3, <3>5, Sizes
    <3> HIDE DEF last1
    <3>7. z \in Seq(Spot) /\ Len(z) = last1 - tail + 1
          /\ \A i \in 1 .. last1 - tail + 1 : z[i] = all[tail + i - 1]
      BY <3>5, <3>6, SubSeqElements
    <3>14. ASSUME NEW i \in 1 .. count
           PROVE  z[i] = IF tail + i - 1 <= Len(where) THEN where[tail + i - 1]
                         ELSE <<x.ret, (tail + i - 1) - Len(where)>>
      <4> DEFINE n == tail + i - 1
                 p == n - Len(where)
      <4>1. z[i] = all[n] /\ n \in Nat \ {0} /\ n <= Len(where) + 2
        BY <1>2, <3>3, <3>6, <3>7
      <4>2. ~(n <= Len(where)) => p \in 1 .. CellsPerCluster /\ n = Len(where) + p
        BY <1>2, <4>1, Sizes
      <4> HIDE DEF n, p, z
      <4>3. ~(n <= Len(where)) => all[n] = <<x.ret, p>>
        BY <3>5, <3>13, <4>2
      <4>4. n <= Len(where) => all[n] = where[n]
        BY <1>2, <3>5, <4>1
      <4>5. z[i] = IF n <= Len(where) THEN where[n] ELSE <<x.ret, p>>
        BY <4>1, <4>3, <4>4
      <4>6. QED
        BY <4>5 DEF n, p
    <3>8. Follows(y, x) /\ y.ok \in BOOLEAN /\ y.disk = x.disk /\ y.dead = x.dead
      BY <2>5, ReadClusterOK DEF Good
    <3>9. r \in Int
      OBVIOUS
    <3> HIDE DEF z, y, r
    <3>10. Good(y) /\ Passes(y, k)
      BY <2>5, <3>8, FollowsPasses, PassesOn DEF Passes
    <3>11. Good(t) /\ t.short = y.short /\ t.lfn = y.lfn /\ t.locations = z
           /\ Same(t, y) /\ t.open = y.open
      BY <3>4, <3>7, <3>9, <3>10, WithLocations
    <3>15. Quiet(t, x)
      BY <3>8, <3>11, FollowsQuiet, QuietBy DEF Good
    <3>16. TailAt(t, k, where, count, x.ret)
      BY <3>3, <3>11, <3>14 DEF TailAt
    <3>17. ReservedAs(t, k, where, count)
      BY <2>3, <2>5, <2>9, <2>11, <2>12, <3>15, <3>16 DEF ReservedAs
    <3>12. QED
      BY <3>6, <3>7, <3>10, <3>11, <3>17 DEF Reserves, Passes, Kept, Later, where
  <2>10. QED
    BY <2>1, <2>7, <2>8, <2>9
<1>6. QED
  BY <1>4, <1>5

\* A cluster was read and then written, or was to be.
Written(t, k, c, cells) ==
    /\ Follows(t, k) /\ (t.ok => c \in OnDisk)
    /\ \/ t.disk = k.disk
       \/ c \in OnDisk /\ ~t.dead /\ t.disk.cluster = Refilled(k.disk.cluster, c, cells)
    /\ t.ok => t.disk.cluster = Refilled(k.disk.cluster, c, cells)
    /\ ~t.ok /\ k.fault.kind # "late" => t.disk = k.disk
    /\ ~t.ok /\ c \in OnDisk => t.hit # << >>

FilledWith(k, where, cells, c) ==
    [i \in 1 .. CellsPerCluster |->
        IF \E n \in DOMAIN where : where[n] = <<c, i>>
        THEN cells[CHOOSE n \in DOMAIN where : where[n] = <<c, i>>]
        ELSE k.disk.cluster[c][i]]

\* One turn over the locations.
Entered(t, k, where, cells, i) ==
    IF ~k.ok \/ (i > 1 /\ where[i][1] = where[i - 1][1]) THEN t = k
    ELSE Written(t, k, where[i][1], FilledWith(k, where, cells, where[i][1]))

Entering(w, k, cells, t) ==
    /\ Quiet(w[0], k) /\ w[0].ok /\ t = w[Len(cells)]
    /\ \A i \in 1 .. Len(cells) : Entered(w[i], w[i - 1], k.locations, cells, i)

LEMMA WriteEntriesOK ==
  ASSUME NEW k, Running(k), NEW cells \in Seq(SoundCell), Len(cells) = Len(k.locations),
         NEW t, t = fat32_write_directory_entries(k, cells)
  PROVE  Follows(t, k) /\ t.ok \in BOOLEAN /\ \E w : Entering(w, k, cells, t)
<1> DEFINE where == k.locations
           N == Len(where)
           clusters == [i \in DOMAIN where |-> where[i][1]]
           b == [k EXCEPT !.ok = TRUE]
           Filled(u, c) == [i \in 1 .. CellsPerCluster |->
               IF \E n \in DOMAIN where : where[n] = <<c, i>>
               THEN cells[CHOOSE n \in DOMAIN where : where[n] = <<c, i>>]
               ELSE u.disk.cluster[c][i]]
           Fill(u, c) ==
               IF u.ok THEN fat32_write_cluster(u, c, Filled(u, c), <<"entry", c>>) ELSE u
           Write(u, i) ==
               IF ~u.ok \/ (i > 1 /\ clusters[i] = clusters[i - 1]) THEN u
               ELSE Fill(fat32_read_cluster(u, clusters[i]), clusters[i])
           Ok(u) == Follows(u, k) /\ u.ok \in BOOLEAN
           S == {u \in CallState : Ok(u)}
           Is(f) == f = [i \in 0 .. N |-> IF i = 0 THEN b ELSE Write(f[i - 1], i)]
           G == [x \in S \X (1 .. N) |-> Write(x[1], x[2])]
           w == CHOOSE f : Is(f)
<1>1. where \in Seq(Spot) /\ N \in Nat /\ DOMAIN where = 1 .. N /\ Len(cells) = N
  BY DEF Running, CallState
<1>2. t = w[N]
  BY DEF fat32_write_directory_entries
<1>3. \A u : Ok(u) => u \in S
  BY DEF Follows, Running
<1>4. b \in S
  <2>1. Follows(b, k) /\ b.ok
    BY WithOk
  <2> HIDE DEF b
  <2>2. QED
    BY <1>3, <2>1
<1>12. \A u, c : Filled(u, c) = FilledWith(u, where, cells, c)
  BY DEF FilledWith
<1>5. ASSUME NEW u, Ok(u), NEW c \in OnDisk PROVE Filled(u, c) \in Cluster
  <2>1. u.disk.cluster[c] \in Cluster
    BY <1>5 DEF Follows, Running, CallState, SoundDisk
  <2>2. ASSUME NEW i \in 1 .. CellsPerCluster
        PROVE  (IF \E n \in DOMAIN where : where[n] = <<c, i>>
                THEN cells[CHOOSE n \in DOMAIN where : where[n] = <<c, i>>]
                ELSE u.disk.cluster[c][i]) \in SoundCell
    <3>1. CASE \E n \in DOMAIN where : where[n] = <<c, i>>
      <4> DEFINE n == CHOOSE m \in DOMAIN where : where[m] = <<c, i>>
      <4>1. n \in DOMAIN where
        BY <3>1
      <4> HIDE DEF n
      <4>2. cells[n] \in SoundCell
        BY <1>1, <4>1
      <4>3. QED
        BY <3>1, <4>2 DEF n
    <3>2. CASE ~\E n \in DOMAIN where : where[n] = <<c, i>>
      <4>1. u.disk.cluster[c][i] \in SoundCell
        BY <2>1 DEF Cluster
      <4>2. QED
        BY <3>2, <4>1, Zenon
    <3>3. QED
      BY <3>1, <3>2
  <2>3. QED
    BY <2>2, Zenon DEF Cluster
<1> HIDE DEF Filled
<1>6. ASSUME NEW u, Ok(u), NEW c \in Number, u.ok => c \in OnDisk,
             c \in OnDisk /\ ~u.ok => u.hit # << >>
      PROVE  Ok(Fill(u, c)) /\ Written(Fill(u, c), u, c, Filled(u, c))
  <2>1. CASE u.ok
    <3> DEFINE cs == Filled(u, c)
               v == fat32_write_cluster(u, c, cs, <<"entry", c>>)
    <3>1. <<"entry", c>> \in Hit /\ <<"entry", c>> # << >>
      BY Numbers DEF Hit
    <3>2. c \in OnDisk => cs \in Cluster
      BY <1>5, <1>6
    <3>3. Running(u)
      BY <1>6 DEF Follows
    <3>4. Fill(u, c) = v
      BY <2>1
    <3> HIDE DEF Fill, cs
    <3>5. Follows(v, u) /\ v.ok \in BOOLEAN /\ Wrote(v, u, c, cs, <<"entry", c>>) /\ c \in OnDisk
          /\ (~v.ok => v.hit # << >>)
      BY <1>6, <2>1, <3>1, <3>2, <3>3, WriteClusterOK
    <3> HIDE DEF v
    <3>7. Written(v, u, c, cs)
      BY <3>5 DEF Written, Wrote
    <3>6. QED
      BY <1>6, <3>4, <3>5, <3>7, FollowsOn DEF cs
  <2>2. CASE ~u.ok
    <3>1. Fill(u, c) = u /\ Running(u)
      BY <1>6, <2>2 DEF Follows
    <3> HIDE DEF Fill
    <3>2. Follows(u, u)
      BY <3>1 DEF Follows, Kept, Later
    <3>3. QED
      BY <1>6, <2>2, <3>1, <3>2 DEF Written
  <2>3. QED
    BY <1>6, <2>1, <2>2
<1> HIDE DEF Fill
<1>7. ASSUME NEW u \in S, NEW i \in 1 .. N
      PROVE  Write(u, i) \in S /\ Entered(Write(u, i), u, where, cells, i)
  <2>1. Ok(u) /\ Running(u)
    BY <1>7 DEF Follows
  <2>5. clusters[i] = where[i][1] /\ (i > 1 => clusters[i - 1] = where[i - 1][1])
    BY <1>1
  <2>2. CASE ~u.ok \/ (i > 1 /\ clusters[i] = clusters[i - 1])
    <3>1. Write(u, i) = u
      BY <2>2
    <3> HIDE DEF Write, clusters
    <3>2. QED
      BY <2>2, <2>5, <3>1 DEF Entered
  <2>3. CASE ~(~u.ok \/ (i > 1 /\ clusters[i] = clusters[i - 1]))
    <3> DEFINE c == clusters[i]
               v == fat32_read_cluster(u, c)
    <3>1. c \in Number
      BY <1>1 DEF Spot
    <3>2. Write(u, i) = Fill(v, c)
      BY <2>3
    <3>7. c = where[i][1]
      BY <2>5
    <3>8. ~(~u.ok \/ (i > 1 /\ where[i][1] = where[i - 1][1]))
      BY <2>3, <2>5
    <3> HIDE DEF Write, c, clusters
    <3>3. Follows(v, u) /\ v.ok \in BOOLEAN /\ v.disk = u.disk /\ v.dead = u.dead
          /\ (v.ok => c \in OnDisk) /\ (c \in OnDisk /\ ~v.ok => v.hit # << >>)
      BY <2>1, ReadClusterOK
    <3> HIDE DEF v
    <3>4. Ok(v)
      BY <2>1, <3>3, FollowsOn
    <3> DEFINE y == Fill(v, c)
    <3>5. Ok(y) /\ Written(y, v, c, Filled(v, c))
      BY <1>6, <3>1, <3>3, <3>4
    <3>9. Filled(v, c) = FilledWith(u, where, cells, c)
      BY <1>12, <3>3 DEF FilledWith
    <3> HIDE DEF y
    <3>11. Follows(y, u) /\ v.fault = u.fault
      BY <3>3, <3>5, FollowsOn DEF Written, Follows, Kept, Later
    <3>10. Written(y, u, c, FilledWith(u, where, cells, c))
      BY <3>3, <3>5, <3>9, <3>11 DEF Written
    <3>12. Entered(y, u, where, cells, i)
      BY <3>7, <3>8, <3>10 DEF Entered
    <3>6. QED
      BY <1>3, <3>2, <3>5, <3>12 DEF y
  <2>4. QED
    BY <2>2, <2>3
<1> HIDE DEF Write, b, S, N
<1>8. Is(w)
  <2>1. G \in [S \X (1 .. N) -> S] /\ \A u \in S, i \in 1 .. N : G[<<u, i>>] = Write(u, i)
    BY <1>7
  <2> HIDE DEF G
  <2>2. PICK f : IsIteration(f, N, S, b, G)
    BY <1>1, <1>4, <2>1, IterationExists
  <2>3. f \in [0 .. N -> S] /\ f[0] = b /\ \A i \in 1 .. N : f[i] = G[<<f[i - 1], i>>]
    BY <2>2 DEF IsIteration
  <2>4. \A i \in 1 .. N : f[i - 1] \in S
    BY <1>1, <2>3
  <2>5. \A i \in 1 .. N : f[i] = Write(f[i - 1], i)
    BY <2>1, <2>3, <2>4
  <2>6. Is(f)
    BY <1>1, <2>3, <2>5
  <2> HIDE DEF Is
  <2>7. QED
    BY <2>6
<1> HIDE DEF w
<1>9. w[0] \in S /\ \A i \in 1 .. N : w[i - 1] \in S => w[i] \in S
  BY <1>1, <1>4, <1>7, <1>8
<1>10. w[N] \in S /\ \A i \in 0 .. N : w[i] \in S
  BY <1>1, <1>9, StaysIn
<1>13. w[0] = b /\ \A i \in 1 .. N : w[i - 1] \in S /\ w[i] = Write(w[i - 1], i)
  BY <1>1, <1>8, <1>10
<1>14. \A i \in 1 .. N : Entered(w[i], w[i - 1], where, cells, i)
  BY <1>7, <1>13
<1>15. Quiet(b, k) /\ b.ok
  <2>1. Follows(b, k) /\ b.ok /\ b.disk = k.disk /\ b.dead = k.dead
    BY WithOk DEF b
  <2>2. QED
    BY <2>1 DEF Quiet, Follows, Kept
<1>16. Entering(w, k, cells, t)
  BY <1>1, <1>2, <1>13, <1>14, <1>15 DEF Entering, N
<1>11. QED
  BY <1>2, <1>10, <1>16 DEF S

LEMMA AddEntryOK ==
  ASSUME NEW k, Good(k), NEW dir \in Number, NEW name \in Name, NEW is_dir \in BOOLEAN,
         NEW start \in Number, NEW t, t = AddEntry(k, dir, name, is_dir, start)
  PROVE  Good(t)
<1> DEFINE u == fat32_prepare_short_name(k, dir, name)
           count == IF u.lfn THEN 2 ELSE 1
           v == fat32_directory_reserve_entries(u, dir, count)
           cells == (IF v.lfn THEN <<Lfn(name, v.short)>> ELSE << >>)
                    \o <<Entry(v.short, is_dir, start, 0)>>
           x == fat32_write_directory_entries(v, cells)
           r == IF x.ok THEN 0 ELSE -1
<1>1. NamedAs(u, k, dir)
  BY PrepareShortNameOK DEF Good
<1>2. Good(u) /\ u.lfn \in BOOLEAN /\ (u.ret = 0 => u.short \in ShortName)
  <2>1. Good(u)
    BY <1>1, LooksGood DEF NamedAs
  <2>2. u.lfn \in BOOLEAN
    BY <2>1 DEF Good, Running, CallState
  <2>3. QED
    BY <1>1, <2>1, <2>2 DEF NamedAs
<1>3. t = IF u.ret # 0 THEN [u EXCEPT !.ret = -1]
          ELSE IF v.ret # 0 THEN v ELSE [x EXCEPT !.ret = r]
  BY DEF AddEntry
<1> HIDE DEF u
<1>4. CASE u.ret # 0
  <2>1. t = [u EXCEPT !.ret = -1]
    BY <1>3, <1>4
  <2>2. QED
    BY <1>2, <2>1, GoodRet
<1>5. CASE u.ret = 0
  <2>1. count \in {1, 2}
    OBVIOUS
  <2> HIDE DEF count
  <2>2. Reserves(v, u, count)
    BY <1>2, <2>1, ReserveOK
  <2> HIDE DEF v
  <2>3. Good(v) /\ v.short \in ShortName /\ v.lfn = u.lfn
        /\ (v.ret = 0 => Len(v.locations) = count)
    BY <1>2, <1>5, <2>2 DEF Reserves
  <2>4. CASE v.ret # 0
    BY <1>3, <1>5, <2>3, <2>4
  <2>5. CASE v.ret = 0
    <3>1. cells \in Seq(SoundCell) /\ Len(cells) = count
      <4>1. Lfn(name, v.short) \in SoundCell
        BY <2>3 DEF Lfn, SoundCell
      <4>2. Entry(v.short, is_dir, start, 0) \in SoundCell
        BY <2>3 DEF Entry, SoundCell, EntryOf
      <4>3. CASE v.lfn
        <5>1. cells = <<Lfn(name, v.short)>> \o <<Entry(v.short, is_dir, start, 0)>> /\ count = 2
          BY <2>3, <4>3 DEF count
        <5> HIDE DEF cells
        <5>2. QED
          BY <4>1, <4>2, <5>1
      <4>4. CASE ~v.lfn
        <5>1. cells = << >> \o <<Entry(v.short, is_dir, start, 0)>> /\ count = 1
          BY <2>3, <4>4 DEF count
        <5> HIDE DEF cells
        <5>2. QED
          BY <4>2, <5>1
      <4>5. QED
        BY <4>3, <4>4
    <3> HIDE DEF cells
    <3>2. Follows(x, v)
      BY <2>3, <2>5, <3>1, WriteEntriesOK DEF Good
    <3>3. r \in Int /\ t = [x EXCEPT !.ret = r]
      BY <1>3, <1>5, <2>5
    <3> HIDE DEF x, r
    <3>4. Good(x)
      BY <2>3, <3>2, FollowsGood
    <3>5. QED
      BY <3>3, <3>4, GoodRet
  <2>6. QED
    BY <2>4, <2>5
<1>6. QED
  BY <1>4, <1>5

-----------------------------------------------------------------------------
(* create, mkdir, remove, rmdir                                            *)

LEMMA ThePaths ==
  ASSUME NEW path \in Paths
  PROVE  /\ path \in Seq(Name) /\ path # << >> /\ Len(path) \in Nat \ {0}
         /\ Front(path) \in Seq(Name) /\ Last(path) \in Name
<1>1. path \in Seq(Name) /\ path # << >>
  BY Fat32Assumption DEF Name
<1>2. Len(path) \in Nat \ {0}
  BY <1>1
<1>3. Front(path) \in Seq(Name)
  BY <1>1, <1>2, FrontElements
<1>4. QED
  BY <1>1, <1>2, <1>3 DEF Last

LEMMA ParentOK ==
  ASSUME NEW k, Good(k), NEW path \in Paths, NEW t, t = ParentOf(k, path)
  PROVE  Good(t) /\ (t.ret = 0 => t.entry.start \in Number)
<1> DEFINE u == fat32_lookup_path(k, path)
           v == fat32_lookup_path(u, Front(path))
<1>1. LookedUp(u, k)
  BY LookupOK, ThePaths DEF Good
<1>2. t = IF u.ret = 0 THEN Failing(u)
          ELSE IF v.ret # 0 \/ ~v.entry.dir THEN Failing(v) ELSE v
  BY DEF ParentOf
<1> HIDE DEF u
<1>3. Good(u)
  BY <1>1, LooksGood DEF LookedUp
<1>4. LookedUp(v, u)
  BY <1>3, LookupOK, ThePaths DEF Good
<1> HIDE DEF v
<1>5. Good(v)
  BY <1>3, <1>4, LooksGood DEF LookedUp
<1>6. CASE t = Failing(u)
  BY <1>3, <1>6, FailingOK
<1>7. CASE t = Failing(v)
  BY <1>5, <1>7, FailingOK
<1>8. CASE t = v
  BY <1>4, <1>5, <1>8 DEF LookedUp, EntryOf
<1>9. QED
  BY <1>2, <1>6, <1>7, <1>8

LEMMA CreateOK ==
  ASSUME NEW k, Good(k), NEW path \in Paths, NEW t, t = fat32_create(k, path)
  PROVE  Good(t)
<1> DEFINE p == ParentOf(k, path)
<1>1. Good(p) /\ (p.ret = 0 => p.entry.start \in Number)
  BY ParentOK
<1>2. t = IF p.ret # 0 THEN p ELSE AddEntry(p, p.entry.start, Last(path), FALSE, 0)
  BY DEF fat32_create
<1> HIDE DEF p
<1>3. CASE p.ret # 0
  BY <1>1, <1>2, <1>3
<1>4. CASE p.ret = 0
  <2>1. t = AddEntry(p, p.entry.start, Last(path), FALSE, 0)
    BY <1>2, <1>4
  <2>2. Last(path) \in Name /\ FALSE \in BOOLEAN /\ 0 \in Number /\ p.entry.start \in Number
    BY <1>1, <1>4, ThePaths, Numbers
  <2>3. QED
    BY <1>1, <2>1, <2>2, AddEntryOK
<1>5. QED
  BY <1>3, <1>4

LEMMA InitDirectoryOK ==
  ASSUME NEW k, Good(k), NEW c \in Number, NEW parent \in Number,
         NEW t, t = fat32_init_directory(k, c, parent)
  PROVE  Good(t)
<1> DEFINE cells == [i \in 1 .. CellsPerCluster |->
               CASE i = 1 -> Entry(Dot, TRUE, c, 0)
                 [] i = 2 -> Entry(DotDot, TRUE, parent, 0)
                 [] OTHER -> Zero]
<1>1. cells \in Cluster
  <2>1. Dot \in ShortName /\ DotDot \in ShortName
    BY DEF ShortName
  <2>2. Entry(Dot, TRUE, c, 0) \in SoundCell /\ Entry(DotDot, TRUE, parent, 0) \in SoundCell
        /\ Zero \in SoundCell
    BY <2>1 DEF Entry, SoundCell, EntryOf
  <2>3. QED
    BY <2>2 DEF Cluster
<1>2. t = fat32_write_cluster(k, c, cells, <<"dots">>)
  BY DEF fat32_init_directory
<1>3. <<"dots">> \in Hit /\ <<"dots">> # << >>
  BY DEF Hit
<1> HIDE DEF cells
<1>4. Follows(t, k)
  BY <1>1, <1>2, <1>3, WriteClusterOK DEF Good
<1>5. QED
  BY <1>4, FollowsGood

LEMMA MkdirOK ==
  ASSUME NEW k, Good(k), NEW path \in Paths, NEW t, t = fat32_mkdir_path(k, path)
  PROVE  Good(t)
<1> DEFINE p == ParentOf(k, path)
           dir == p.entry.start
           a == fat32_allocate_cluster(p, 0)
           c == a.ret
           d == fat32_init_directory(a, c, dir)
           e == AddEntry(d, dir, Last(path), TRUE, c)
           fd == fat32_free_cluster_chain(d, c)
           fe == fat32_free_cluster_chain(e, c)
<1>1. Good(p) /\ (p.ret = 0 => dir \in Number)
  BY ParentOK
<1>2. t = IF p.ret # 0 THEN p ELSE IF c = 0 THEN Failing(a)
          ELSE IF ~d.ok THEN Failing(fd)
          ELSE IF e.ret # 0 THEN Failing(fe) ELSE e
  BY DEF fat32_mkdir_path
<1> HIDE DEF p
<1>3. CASE p.ret # 0
  BY <1>1, <1>2, <1>3
<1>4. CASE p.ret = 0
  <2>1. dir \in Number
    BY <1>1, <1>4
  <2> HIDE DEF dir
  <2>2. Passes(a, p) /\ a.ret \in {0} \cup ClusterNumber
    BY <1>1, AllocateOK
  <2> HIDE DEF a
  <2>3. Good(a)
    BY <2>2 DEF Passes
  <2>4. CASE c = 0
    <3>1. t = Failing(a)
      BY <1>2, <1>4, <2>4
    <3>2. QED
      BY <2>3, <3>1, FailingOK
  <2>5. CASE c # 0
    <3>1. c \in Number
      BY <2>2, <2>5 DEF ClusterNumber
    <3>2. t = IF ~d.ok THEN Failing(fd) ELSE IF e.ret # 0 THEN Failing(fe) ELSE e
      BY <1>2, <1>4, <2>5
    <3> HIDE DEF c
    <3>3. Good(d)
      BY <2>1, <2>3, <3>1, InitDirectoryOK
    <3> HIDE DEF d
    <3>4. Good(e)
      BY <2>1, <3>1, <3>3, AddEntryOK, ThePaths
    <3> HIDE DEF e
    <3>5. Good(fd) /\ Good(fe)
      BY <3>3, <3>4, FreeChainOK DEF Passes
    <3> HIDE DEF fd, fe
    <3>6. QED
      BY <3>2, <3>4, <3>5, FailingOK
  <2>6. QED
    BY <2>4, <2>5
<1>5. QED
  BY <1>3, <1>4

\* Some cells were deleted: the one at that place, and LFN entries.
Erased(t, k, at) ==
    \A c \in OnDisk, i \in 1 .. CellsPerCluster :
        \/ t.disk.cluster[c][i] = k.disk.cluster[c][i]
        \/ /\ t.disk.cluster[c][i] = Deleted
           /\ <<c, i>> = at \/ k.disk.cluster[c][i].kind = "lfn"

LEMMA MarkDeletedOK ==
  ASSUME NEW k, Running(k), NEW dir \in Number, NEW at \in Spot,
         NEW t, t = fat32_mark_entry_deleted(k, dir, at)
  PROVE  /\ Follows(t, k) /\ t.ok \in BOOLEAN /\ Erased(t, k, at)
         /\ at[1] \in OnDisk /\ t.hit = << >> => t.disk.cluster[at[1]][at[2]] = Deleted
<1> DEFINE ClusterOf(j) == ((j - 1) \div CellsPerCluster) + 1
           Cleared(u, c, gone) == [i \in 1 .. CellsPerCluster |->
               IF <<c, i>> \in gone THEN Deleted ELSE u.disk.cluster[c][i]]
           Clear(u, c, gone, what) ==
               IF ~u.ok \/ gone = {} THEN u
               ELSE fat32_write_cluster(u, c, Cleared(u, c, gone), what)
           Step(u, c, gone, is_own) ==
               Clear(IF is_own THEN u ELSE fat32_read_cluster(u, c), c, gone, <<"unlist_lfn">>)
           located == Locations(k.fat, dir)
           where == IF \E j \in DOMAIN located : located[j] = at THEN located
                    ELSE [i \in 1 .. CellsPerCluster |-> <<at[1], i>>]
           own == CHOOSE j \in DOMAIN where : where[j] = at
           first == FirstOf({i \in 1 .. own : \A m \in i .. own - 1 :
                                 KindAt(k.disk, where[m]) = "lfn"})
           LfnIn(q) == {where[j] : j \in {i \in first .. own - 1 : ClusterOf(i) = q}}
           Through(u, q) ==
               IF u.ok /\ (q = ClusterOf(own) \/ first <= q * CellsPerCluster + 1)
               THEN Step(u, where[(q - 1) * CellsPerCluster + 1][1], LfnIn(q), q = ClusterOf(own))
               ELSE u
           N == ClusterOf(own)
           b == Clear(fat32_read_cluster(k, at[1]), at[1], {at}, <<"unlist">>)
           Gone(u) == u.disk.cluster[at[1]][at[2]] = Deleted
           Ok(u) == /\ Follows(u, k) /\ u.ok \in BOOLEAN /\ Erased(u, k, at)
                    /\ at[1] \in OnDisk /\ b.ok => Gone(u)
           May(gone) == \A c \in OnDisk, i \in 1 .. CellsPerCluster : <<c, i>> \in gone =>
                            <<c, i>> = at \/ k.disk.cluster[c][i].kind = "lfn"
           S == {u \in CallState : Ok(u)}
           Is(f) == f = [n \in 0 .. N |-> IF n = 0 THEN b ELSE Through(f[n - 1], N + 1 - n)]
           G == [x \in S \X (1 .. N) |-> Through(x[1], N + 1 - x[2])]
           w == CHOOSE f : Is(f)
<1>1. t = IF b.ok THEN w[N] ELSE b
  BY DEF fat32_mark_entry_deleted
<1>2. own \in Nat \ {0}
  <2>1. located \in Seq(Spot)
    <3>1. k.fat \in Table
      BY DEF Running, CallState
    <3>2. QED
      BY <3>1, LocationsOK
  <2>2. CASE \E j \in DOMAIN located : located[j] = at
    <3> HIDE DEF located
    <3>1. where = located
      BY <2>2
    <3> HIDE DEF where
    <3>2. own \in DOMAIN located
      BY <2>2, <3>1
    <3> HIDE DEF own
    <3>3. QED
      BY <2>1, <3>2
  <2>3. CASE ~\E j \in DOMAIN located : located[j] = at
    <3> HIDE DEF located
    <3>1. where = [i \in 1 .. CellsPerCluster |-> <<at[1], i>>]
      BY <2>3
    <3> HIDE DEF where
    <3>2. at[2] \in 1 .. CellsPerCluster /\ at = <<at[1], at[2]>>
      BY DEF Spot
    <3>3. at[2] \in DOMAIN where /\ where[at[2]] = at
      BY <3>1, <3>2
    <3>4. own \in DOMAIN where
      BY <3>3
    <3> HIDE DEF own
    <3>5. QED
      BY <3>1, <3>4, Sizes
  <2>4. QED
    BY <2>2, <2>3
<1>15. \A m \in first .. own - 1 : KindAt(k.disk, where[m]) = "lfn"
  <2> DEFINE X == {i \in 1 .. own : \A m \in i .. own - 1 : KindAt(k.disk, where[m]) = "lfn"}
  <2> HIDE DEF own, where
  <2>1. X \in SUBSET Nat /\ own \in X
    BY <1>2
  <2>2. first \in X
    <3> HIDE DEF X
    <3>1. FirstOf(X) \in X
      BY <2>1, FirstOfSet
    <3>2. first = FirstOf(X)
      BY DEF X
    <3>3. QED
      BY <3>1, <3>2
  <2>3. QED
    BY <2>2
<1> HIDE DEF own, where, first
<1>3. N \in Nat
  <2>1. own - 1 \in Nat /\ CellsPerCluster \in Nat \ {0}
    BY <1>2, Sizes
  <2>2. QED
    BY <2>1, Division
<1>4. \A u : Ok(u) => u \in S
  BY DEF Follows, Running
<1>16. \A q : May(LfnIn(q))
  <2> SUFFICES ASSUME NEW q, NEW c \in OnDisk, NEW i \in 1 .. CellsPerCluster, <<c, i>> \in LfnIn(q)
               PROVE  k.disk.cluster[c][i].kind = "lfn"
    OBVIOUS
  <2>1. PICK j \in first .. own - 1 : where[j] = <<c, i>>
    OBVIOUS
  <2>2. KindAt(k.disk, <<c, i>>) = "lfn"
    BY <1>15, <2>1
  <2>3. QED
    BY <2>2 DEF KindAt, CellAt
<1>17. May({at})
  OBVIOUS
<1> HIDE DEF May
\* Striking more cells out.
<1>18. ASSUME NEW u, Follows(u, k), Erased(u, k, at), NEW c, NEW gone, May(gone),
              NEW what \in Hit, what # << >>, NEW y, y = Clear(u, c, gone, what)
       PROVE  /\ Follows(y, k) /\ (u.ok \in BOOLEAN => y.ok \in BOOLEAN) /\ Erased(y, k, at)
              /\ at[1] \in OnDisk /\ Gone(u) => Gone(y)
              /\ u.ok /\ y.ok /\ gone # {} => \A i \in 1 .. CellsPerCluster :
                     <<c, i>> \in gone => y.disk.cluster[c][i] = Deleted
              /\ u.ok /\ ~y.ok /\ c \in OnDisk => y.hit # << >>
  <2> DEFINE cells == Cleared(u, c, gone)
             v == fat32_write_cluster(u, c, cells, what)
  <2>1. Running(u)
    BY <1>18 DEF Follows
  <2>2. y = IF ~u.ok \/ gone = {} THEN u ELSE v
    BY <1>18
  <2>3. ASSUME c \in OnDisk PROVE cells \in Cluster
    <3>1. u.disk.cluster[c] \in Cluster
      BY <2>1, <2>3 DEF Running, CallState, SoundDisk
    <3>2. Deleted \in SoundCell
      BY DEF SoundCell
    <3>3. QED
      BY <3>1, <3>2 DEF Cluster
  <2>7. \A i \in 1 .. CellsPerCluster :
            cells[i] = IF <<c, i>> \in gone THEN Deleted ELSE u.disk.cluster[c][i]
    OBVIOUS
  <2> HIDE DEF cells, Clear
  <2>4. Follows(v, u) /\ v.ok \in BOOLEAN /\ (c \in OnDisk => Wrote(v, u, c, cells, what))
        /\ (v.ok => c \in OnDisk) /\ (~v.ok => v.hit # << >> \/ c \notin OnDisk)
        /\ (c \notin OnDisk => v.disk = u.disk)
    <3>1. c \notin OnDisk => v = [u EXCEPT !.ok = FALSE]
      BY DEF fat32_write_cluster
    <3>2. c \notin OnDisk => v.disk = u.disk
      BY <2>1, <3>1, WithOk
    <3>3. QED
      BY <1>18, <2>1, <2>3, <3>2, WriteClusterOK
  <2>8. c \in OnDisk => u.disk.cluster \in [OnDisk -> Cluster]
    BY <2>1 DEF Running, CallState, SoundDisk
  <2> HIDE DEF v
  <2>9. \A n \in OnDisk, i \in 1 .. CellsPerCluster :
            \/ v.disk.cluster[n][i] = u.disk.cluster[n][i]
            \/ v.disk.cluster[n][i] = Deleted /\ <<n, i>> \in gone
    <3>1. CASE v.disk = u.disk
      BY <3>1
    <3>2. CASE c \in OnDisk /\ v.disk.cluster = Refilled(u.disk.cluster, c, cells)
      <4>1. \A n \in OnDisk : v.disk.cluster[n] = IF n = c THEN cells ELSE u.disk.cluster[n]
        BY <2>8, <3>2 DEF Refilled
      <4>2. QED
        BY <2>7, <4>1
    <3>3. QED
      BY <2>4, <3>1, <3>2 DEF Wrote
  <2>10. v.ok => \A i \in 1 .. CellsPerCluster : <<c, i>> \in gone => v.disk.cluster[c][i] = Deleted
    <3> SUFFICES ASSUME v.ok PROVE \A i \in 1 .. CellsPerCluster :
                                       <<c, i>> \in gone => v.disk.cluster[c][i] = Deleted
      OBVIOUS
    <3>1. c \in OnDisk /\ v.disk.cluster = Refilled(u.disk.cluster, c, cells)
      BY <2>4 DEF Wrote
    <3>2. v.disk.cluster[c] = cells
      BY <2>8, <3>1 DEF Refilled
    <3>3. QED
      BY <2>7, <3>2
  <2>11. Erased(v, k, at)
    <3> SUFFICES ASSUME NEW n \in OnDisk, NEW i \in 1 .. CellsPerCluster
                 PROVE  \/ v.disk.cluster[n][i] = k.disk.cluster[n][i]
                        \/ /\ v.disk.cluster[n][i] = Deleted
                           /\ <<n, i>> = at \/ k.disk.cluster[n][i].kind = "lfn"
      BY DEF Erased
    <3>1. CASE v.disk.cluster[n][i] = u.disk.cluster[n][i]
      BY <1>18, <3>1 DEF Erased
    <3>2. CASE v.disk.cluster[n][i] = Deleted /\ <<n, i>> \in gone
      BY <1>18, <3>2 DEF May
    <3>3. QED
      BY <2>9, <3>1, <3>2
  <2>12. at[1] \in OnDisk /\ Gone(u) => Gone(v)
    <3>1. at[2] \in 1 .. CellsPerCluster
      BY DEF Spot
    <3>2. QED
      BY <2>9, <3>1
  <2>5. Follows(v, k)
    BY <1>18, <2>4, FollowsOn
  <2> HIDE DEF Gone
  <2>13. CASE ~u.ok \/ gone = {}
    BY <1>18, <2>2, <2>13
  <2>14. CASE ~(~u.ok \/ gone = {})
    BY <2>2, <2>4, <2>5, <2>10, <2>11, <2>12, <2>14
  <2>6. QED
    BY <2>13, <2>14
<1>5. ASSUME NEW u, Ok(u), NEW c, NEW gone, May(gone), NEW what \in Hit, what # << >>
      PROVE  Ok(Clear(u, c, gone, what))
  <2> DEFINE y == Clear(u, c, gone, what)
  <2> HIDE DEF Clear, Gone, b
  <2>1. Follows(y, k) /\ y.ok \in BOOLEAN /\ Erased(y, k, at)
        /\ (at[1] \in OnDisk /\ Gone(u) => Gone(y))
    BY <1>5, <1>18
  <2> HIDE DEF y
  <2>2. Ok(y)
    BY <1>5, <2>1
  <2>3. QED
    BY <2>2 DEF y
<1> HIDE DEF Clear
<1>6. <<"unlist">> \in Hit /\ <<"unlist">> # << >>
      /\ <<"unlist_lfn">> \in Hit /\ <<"unlist_lfn">> # << >>
  BY DEF Hit
<1>7. ASSUME NEW u, Ok(u), NEW c PROVE Ok(fat32_read_cluster(u, c))
  <2> DEFINE v == fat32_read_cluster(u, c)
  <2>1. Running(u)
    BY <1>7 DEF Follows
  <2>2. Follows(v, u) /\ v.ok \in BOOLEAN /\ v.disk = u.disk
    BY <2>1, ReadClusterOK
  <2> HIDE DEF v, b
  <2>3. Ok(v)
    BY <1>7, <2>2, FollowsOn DEF Erased
  <2>4. QED
    BY <2>3 DEF v
<1>8. Ok(b) /\ (at[1] \in OnDisk /\ ~b.ok => b.hit # << >>)
  <2> DEFINE v == fat32_read_cluster(k, at[1])
  <2>1. Follows(v, k) /\ v.ok \in BOOLEAN /\ v.disk = k.disk
        /\ (at[1] \in OnDisk /\ ~v.ok => v.hit # << >>)
    BY ReadClusterOK
  <2>4. b = Clear(v, at[1], {at}, <<"unlist">>)
    OBVIOUS
  <2> HIDE DEF v, b
  <2>5. Erased(v, k, at)
    BY <2>1 DEF Erased
  <2>6. at[2] \in 1 .. CellsPerCluster /\ <<at[1], at[2]>> \in {at}
    BY DEF Spot
  <2> HIDE DEF Gone
  <2>2. /\ Follows(b, k) /\ b.ok \in BOOLEAN /\ Erased(b, k, at)
        /\ v.ok /\ b.ok => \A i \in 1 .. CellsPerCluster :
                <<at[1], i>> \in {at} => b.disk.cluster[at[1]][i] = Deleted
        /\ v.ok /\ ~b.ok /\ at[1] \in OnDisk => b.hit # << >>
    <3> DEFINE gone == {at}
               what == <<"unlist">>
    <3>1. gone # {} /\ May(gone) /\ what \in Hit /\ what # << >>
      BY <1>6, <1>17
    <3>2. b = Clear(v, at[1], gone, what)
      BY <2>4
    <3> HIDE DEF gone, what, Clear, Gone
    <3>3. /\ Follows(b, k) /\ b.ok \in BOOLEAN /\ Erased(b, k, at)
          /\ v.ok /\ b.ok => \A i \in 1 .. CellsPerCluster :
                <<at[1], i>> \in gone => b.disk.cluster[at[1]][i] = Deleted
          /\ v.ok /\ ~b.ok /\ at[1] \in OnDisk => b.hit # << >>
      BY <1>18, <2>1, <2>5, <3>1, <3>2
    <3>4. QED
      BY <3>3 DEF gone
  <2>7. ~v.ok => b = v
    BY <2>4 DEF Clear
  <2>8. b.ok => v.ok
    BY <2>7
  <2>9. at[1] \in OnDisk /\ b.ok => Gone(b)
    BY <2>2, <2>6, <2>8 DEF Gone
  <2>3. QED
    BY <2>1, <2>2, <2>7, <2>9
<1>9. ASSUME NEW u \in S, NEW q PROVE Through(u, q) \in S
  <2>1. Ok(u)
    BY <1>9
  <2>2. ASSUME NEW c, NEW gone, May(gone), NEW is_own \in BOOLEAN
        PROVE  Ok(Step(u, c, gone, is_own))
    <3> DEFINE v == IF is_own THEN u ELSE fat32_read_cluster(u, c)
    <3>1. Ok(v)
      <4> HIDE DEF Ok
      <4>1. QED
        BY <1>7, <2>1
    <3> HIDE DEF v, Ok
    <3>2. Ok(Clear(v, c, gone, <<"unlist_lfn">>))
      BY <1>5, <1>6, <2>2, <3>1
    <3>3. QED
      BY <3>2 DEF v
  <2> DEFINE c == where[(q - 1) * CellsPerCluster + 1][1]
             gone == LfnIn(q)
             is_own == q = ClusterOf(own)
  <2>3. Through(u, q) = Step(u, c, gone, is_own) \/ Through(u, q) = u
    OBVIOUS
  <2>4. is_own \in BOOLEAN /\ May(gone)
    BY <1>16
  <2> HIDE DEF Ok, Step, Through, c, gone, is_own, S
  <2>5. Ok(Through(u, q))
    BY <2>1, <2>2, <2>3, <2>4
  <2>6. QED
    BY <1>4, <2>5
<1> HIDE DEF Through, b, N
<1>10. b \in S
  BY <1>4, <1>8
<1> HIDE DEF S
<1>11. Is(w)
  <2>1. G \in [S \X (1 .. N) -> S]
        /\ \A u \in S, n \in 1 .. N : G[<<u, n>>] = Through(u, N + 1 - n)
    BY <1>9
  <2> HIDE DEF G
  <2>2. PICK f : IsIteration(f, N, S, b, G)
    BY <1>3, <1>10, <2>1, IterationExists
  <2>3. f \in [0 .. N -> S] /\ f[0] = b /\ \A i \in 1 .. N : f[i] = G[<<f[i - 1], i>>]
    BY <2>2 DEF IsIteration
  <2>4. \A i \in 1 .. N : f[i - 1] \in S
    BY <1>3, <2>3
  <2>5. \A i \in 1 .. N : f[i] = Through(f[i - 1], N + 1 - i)
    BY <2>1, <2>3, <2>4
  <2>6. Is(f)
    BY <1>3, <2>3, <2>5
  <2> HIDE DEF Is
  <2>7. QED
    BY <2>6
<1> HIDE DEF w
<1>12. w[0] \in S /\ \A n \in 1 .. N : w[n - 1] \in S => w[n] \in S
  BY <1>3, <1>9, <1>10, <1>11
<1>13. w[N] \in S
  BY <1>3, <1>12, StaysIn
<1>19. Ok(w[N])
  BY <1>13 DEF S
<1>14. QED
  <2>1. CASE b.ok
    <3>1. t = w[N]
      BY <1>1, <2>1
    <3>2. QED
      BY <1>19, <2>1, <3>1
  <2>2. CASE ~b.ok
    <3>1. t = b
      BY <1>1, <2>2
    <3>2. QED
      BY <1>8, <2>2, <3>1
  <2>3. QED
    BY <2>1, <2>2

\* Other handles.
LEMMA WithOpen ==
  ASSUME NEW k, Good(k), NEW o \in [Fd -> SoundFile], NEW t, t = [k EXCEPT !.open = o]
  PROVE  /\ Good(t) /\ t.open = o /\ t.ret = k.ret /\ t.data = k.data /\ t.fat = k.fat
         /\ Same(t, k)
<1>1. k \in CallState
  BY DEF Good, Running
<1>2. t \in CallState /\ t.open = o
  BY <1>1 DEF CallState
<1>3. t.disk = k.disk /\ t.fat = k.fat /\ t.off = k.off /\ t.ret = k.ret
      /\ t.data = k.data /\ t.hit = k.hit /\ t.dead = k.dead /\ t.fault = k.fault
  BY <1>1 DEF CallState
<1>4. QED
  BY <1>2, <1>3 DEF Good, Running, Mirrored, Same

Reopened(o, fd, f) == [o EXCEPT ![fd] = f]

LEMMA WithOpenFile ==
  ASSUME NEW k, Good(k), NEW fd \in Fd, NEW f \in SoundFile, NEW t, t = [k EXCEPT !.open[fd] = f]
  PROVE  /\ Good(t) /\ t.open[fd] = f /\ t.ret = k.ret /\ t.data = k.data /\ t.fat = k.fat
         /\ Same(t, k) /\ t.open = Reopened(k.open, fd, f)
<1> DEFINE o == [k.open EXCEPT ![fd] = f]
<1>1. k \in CallState
  BY DEF Good, Running
<1>2. k.open \in [Fd -> SoundFile]
  BY <1>1 DEF CallState
<1>3. o \in [Fd -> SoundFile] /\ o[fd] = f
  BY <1>2
<1> DEFINE u == [k EXCEPT !.open = o]
<1>4. t = u
  BY <1>1 DEF CallState
<1> HIDE DEF o
<1>5. Good(u) /\ u.open = o /\ u.ret = k.ret /\ u.data = k.data /\ u.fat = k.fat /\ Same(u, k)
  BY <1>3, WithOpen
<1> HIDE DEF u
<1>6. QED
  BY <1>3, <1>4, <1>5 DEF o, Reopened

\* t is k with another handle.
HasOpened(t, k, fd, f) ==
    /\ Good(t) /\ t.ret = k.ret /\ t.data = k.data
    /\ Same(t, k) /\ t.open = Reopened(k.open, fd, f)

LEMMA WithHandle ==
  ASSUME NEW k, Good(k), NEW fd \in Fd, NEW f \in SoundFile, NEW t, t = [k EXCEPT !.open[fd] = f]
  PROVE  HasOpened(t, k, fd, f)
<1> DEFINE o == [k.open EXCEPT ![fd] = f]
<1>1. k \in CallState
  BY DEF Good, Running
<1>2. k.open \in [Fd -> SoundFile]
  BY <1>1 DEF CallState
<1>3. o \in [Fd -> SoundFile]
  BY <1>2
<1> DEFINE u == [k EXCEPT !.open = o]
<1>4. t = u
  BY <1>1 DEF CallState
<1> HIDE DEF o
<1>5. Good(u) /\ u.open = o /\ u.ret = k.ret /\ u.data = k.data /\ Same(u, k)
  BY <1>3, WithOpen
<1> HIDE DEF u
<1>6. QED
  BY <1>4, <1>5 DEF o, Reopened, HasOpened

LEMMA UnlinkOK ==
  ASSUME NEW k, Good(k), k.at \in Spot, NEW t, t = Unlink(k)
  PROVE  Good(t)
<1> DEFINE u == fat32_free_cluster_chain(k, k.entry.start)
           v == fat32_mark_entry_deleted(u, k.dir, k.at)
           r == IF v.ok THEN 0 ELSE -1
           x == [v EXCEPT !.ret = r]
           Gone(fd) == v.open[fd].removed \/ (k.open[fd].in_use /\ k.open[fd].dir_entry = k.at)
           o == [fd \in Fd |-> [v.open[fd] EXCEPT !.removed = Gone(fd)]]
<1>1. Good(u)
  BY FreeChainOK DEF Passes
<1>2. v = fat32_mark_entry_deleted(fat32_free_cluster_chain(k, k.entry.start), k.dir, k.at)
  OBVIOUS
<1>3. k.dir \in Number
  BY DEF Good, Running, CallState
<1> HIDE DEF u
<1>4. Follows(v, u) /\ v.ok \in BOOLEAN
  BY <1>1, <1>3, MarkDeletedOK DEF Good
<1> HIDE DEF v
<1>5. Good(v)
  BY <1>1, <1>4, FollowsGood
<1>6. v.open \in [Fd -> SoundFile] /\ k.open \in [Fd -> SoundFile]
  BY <1>5 DEF Good, Running, CallState
<1>7. \A fd \in Fd : v.open[fd].removed \in BOOLEAN /\ k.open[fd].in_use \in BOOLEAN
  BY <1>6 DEF SoundFile
<1>8. \A fd \in Fd : Gone(fd) \in BOOLEAN
  BY <1>7
<1>9. t = [x EXCEPT !.open = o]
  <2>1. \A fd \in Fd :
            [v.open[fd] EXCEPT !.removed =
                 @ \/ (k.open[fd].in_use /\ k.open[fd].dir_entry = k.at)]
            = [v.open[fd] EXCEPT !.removed = Gone(fd)]
    BY <1>6 DEF SoundFile
  <2>2. t = [v EXCEPT !.ret = r, !.open = [fd \in Fd |->
                [v.open[fd] EXCEPT !.removed =
                     @ \/ (k.open[fd].in_use /\ k.open[fd].dir_entry = k.at)]]]
    BY <1>2 DEF Unlink
  <2>3. QED
    BY <2>1, <2>2
<1> HIDE DEF Gone
<1>10. ASSUME NEW fd \in Fd PROVE [v.open[fd] EXCEPT !.removed = Gone(fd)] \in SoundFile
  BY <1>6, <1>8 DEF SoundFile
<1>11. o \in [Fd -> SoundFile]
  BY <1>10, Zenon
<1>12. Good(x)
  <2>1. r \in Int
    OBVIOUS
  <2> HIDE DEF r
  <2>2. QED
    BY <1>5, <2>1, GoodRet
<1> HIDE DEF x, o
<1>13. QED
  BY <1>9, <1>11, <1>12, WithOpen

LEMMA RemoveOK ==
  ASSUME NEW k, Good(k), NEW path \in Paths, NEW t, t = fat32_remove(k, path)
  PROVE  Good(t)
<1> DEFINE u == fat32_lookup_path(k, path)
<1>1. LookedUp(u, k) /\ (u.ret = 0 => u.at \in Spot)
  BY LookupOK, ThePaths DEF Good
<1>2. t = IF u.ret # 0 \/ u.entry.dir THEN Failing(u) ELSE Unlink(u)
  BY DEF fat32_remove
<1> HIDE DEF u
<1>3. Good(u)
  BY <1>1, LooksGood DEF LookedUp
<1>4. CASE t = Failing(u)
  BY <1>3, <1>4, FailingOK
<1>5. CASE u.ret = 0 /\ t = Unlink(u)
  BY <1>1, <1>3, <1>5, UnlinkOK
<1>6. QED
  BY <1>2, <1>4, <1>5

LEMMA RmdirOK ==
  ASSUME NEW k, Good(k), NEW path \in Paths, NEW t, t = fat32_rmdir_path(k, path)
  PROVE  Good(t)
<1> DEFINE u == fat32_lookup_path(k, path)
           listed == Listed(u.disk, Locations(u.fat, u.entry.start))
           v == fat32_iterate_directory(u, u.entry.start, listed)
<1>1. LookedUp(u, k) /\ (u.ret = 0 => u.at \in Spot)
  BY LookupOK, ThePaths DEF Good
<1>2. t = IF u.ret # 0 \/ ~u.entry.dir THEN Failing(u)
          ELSE IF v.ret # 0 THEN Failing(v) ELSE Unlink(v)
  BY DEF fat32_rmdir_path
<1> HIDE DEF u
<1>3. Good(u) /\ Running(u)
  BY <1>1, LooksGood DEF LookedUp, Good
<1>4. CASE u.ret # 0 \/ ~u.entry.dir
  <2>1. t = Failing(u)
    BY <1>2, <1>4
  <2>2. QED
    BY <1>3, <2>1, FailingOK
<1>5. CASE ~(u.ret # 0 \/ ~u.entry.dir)
  <2>1. u.entry.start \in Number
    BY <1>1, <1>5 DEF LookedUp, EntryOf
  <2>2. Wanted(u, u.entry.start, listed)
    BY DEF Wanted, Listed
  <2>3. t = IF v.ret # 0 THEN Failing(v) ELSE Unlink(v)
    BY <1>2, <1>5
  <2> HIDE DEF listed
  <2>4. Iterated(v, u)
    BY <1>3, <2>1, <2>2, IterateOK
  <2> HIDE DEF v
  <2>5. Good(v)
    BY <1>3, <2>4, LooksGood DEF Iterated
  <2>6. CASE v.ret # 0
    BY <2>3, <2>5, <2>6, FailingOK
  <2>7. CASE v.ret = 0
    <3>1. v.at \in Spot
      BY <1>1, <1>5, <2>4, <2>7 DEF Iterated, Kept, Later
    <3>2. QED
      BY <2>3, <2>5, <2>7, <3>1, UnlinkOK
  <2>8. QED
    BY <2>6, <2>7
<1>6. QED
  BY <1>4, <1>5

-----------------------------------------------------------------------------
(* open, close, read, seek                                                 *)

LEMMA ClosedFileOK == ClosedFile \in SoundFile
BY Sizes, Numbers DEF ClosedFile, SoundFile, Place

LEMMA FirstOfHandles ==
  ASSUME NEW free \in SUBSET Fd, free # {}
  PROVE  FirstOf(free) \in Fd
<1>1. free \in SUBSET Nat
  BY DEF Fd
<1>2. FirstOf(free) \in free
  BY <1>1, FirstOfSet
<1>3. QED
  BY <1>2

LEMMA OpenOK ==
  ASSUME NEW k, Good(k), NEW path \in Paths, NEW t, t = fat32_open(k, path)
  PROVE  Good(t)
<1> DEFINE free == {fd \in Fd : ~k.open[fd].in_use}
           u == fat32_lookup_path(k, path)
           v == fat32_lookup_path(u, path)
           last1 == fat32_get_last_cluster(v.fat, v.entry.start)
           f == [ClosedFile EXCEPT
                    !.in_use = TRUE, !.start_cluster = v.entry.start,
                    !.current_cluster = v.entry.start, !.last_cluster = last1,
                    !.file_size = v.entry.size, !.dir_entry = v.at]
           fd == FirstOf(free)
<1>1. LookedUp(u, k)
  BY LookupOK, ThePaths DEF Good
<1>2. t = IF u.ret # 0 \/ u.entry.dir THEN Failing(u)
          ELSE IF v.ret # 0 \/ v.entry.dir \/ free = {} THEN Failing(v)
          ELSE [v EXCEPT !.open[fd] = f]
  BY DEF fat32_open
<1> HIDE DEF u, free
<1>3. Good(u)
  BY <1>1, LooksGood DEF LookedUp
<1>4. LookedUp(v, u) /\ (v.ret = 0 => v.at \in Spot)
  BY <1>3, LookupOK, ThePaths DEF Good
<1> HIDE DEF v
<1>5. Good(v)
  BY <1>3, <1>4, LooksGood DEF LookedUp
<1>6. CASE t = Failing(u)
  BY <1>3, <1>6, FailingOK
<1>7. CASE t = Failing(v)
  BY <1>5, <1>7, FailingOK
<1>8. CASE v.ret = 0 /\ free # {} /\ t = [v EXCEPT !.open[fd] = f]
  <2>1. v.entry \in EntryOf(ShortName \cup {NoShort}) /\ v.at \in Spot /\ v.fat \in Table
    BY <1>4, <1>5, <1>8 DEF LookedUp, Good, Running, CallState
  <2>2. v.entry.start \in Number /\ v.entry.size \in Nat /\ v.at \in Place
    BY <2>1 DEF EntryOf, Spot, Place
  <2>3. last1 \in Number
    <3>1. CASE IsCluster(v.entry.start)
      <4> DEFINE chain == Walk(v.fat, v.entry.start)
      <4>1. chain \in Seq(ClusterNumber) /\ chain # << >>
        BY <2>1, <2>2, <3>1, WalkOK
      <4>2. last1 = Last(chain)
        BY <3>1 DEF fat32_get_last_cluster
      <4> HIDE DEF chain, last1
      <4>3. QED
        BY <4>1, <4>2 DEF Last, ClusterNumber
    <3>2. CASE ~IsCluster(v.entry.start)
      BY <2>2, <3>2 DEF fat32_get_last_cluster
    <3>3. QED
      BY <3>1, <3>2
  <2> HIDE DEF last1
  <2>4. f \in SoundFile
    <3> DEFINE f1 == [ClosedFile EXCEPT !.in_use = TRUE]
               f2 == [f1 EXCEPT !.start_cluster = v.entry.start]
               f3 == [f2 EXCEPT !.current_cluster = v.entry.start]
               f4 == [f3 EXCEPT !.last_cluster = last1]
               f5 == [f4 EXCEPT !.file_size = v.entry.size]
    <3>1. f = [f5 EXCEPT !.dir_entry = v.at]
      OBVIOUS
    <3>2. v.entry.start \in Link
      BY <2>2, Numbers
    <3> HIDE DEF f
    <3>3. f1 \in SoundFile
      BY ClosedFileOK DEF SoundFile
    <3> HIDE DEF f1
    <3>4. f2 \in SoundFile
      BY <2>2, <3>3 DEF SoundFile
    <3> HIDE DEF f2
    <3>5. f3 \in SoundFile
      BY <3>2, <3>4 DEF SoundFile
    <3> HIDE DEF f3
    <3>6. f4 \in SoundFile
      BY <2>3, <3>5 DEF SoundFile
    <3> HIDE DEF f4
    <3>7. f5 \in SoundFile
      BY <2>2, <3>6 DEF SoundFile
    <3> HIDE DEF f5
    <3>8. QED
      BY <2>2, <3>1, <3>7 DEF SoundFile
  <2>5. fd \in Fd
    <3>1. free \in SUBSET Fd
      BY DEF free
    <3>2. QED
      BY <1>8, <3>1, FirstOfHandles
  <2> HIDE DEF f, fd
  <2>6. QED
    BY <1>5, <1>8, <2>4, <2>5, WithOpenFile
<1>9. QED
  BY <1>2, <1>6, <1>7, <1>8

LEMMA CloseOK ==
  ASSUME NEW k, Good(k), NEW fd \in Fd, NEW t, t = fat32_close(k, fd)
  PROVE  Good(t)
<1>1. t = [k EXCEPT !.open[fd] = ClosedFile]
  BY DEF fat32_close
<1>2. QED
  BY <1>1, ClosedFileOK, WithOpenFile

\* Where a handle stands.
Standing(f, position, offset, c) ==
    [f EXCEPT !.position = position, !.cluster_position = offset, !.current_cluster = c]

\* g is f, but for its cursor.
SameFile(g, f) ==
    /\ g.in_use = f.in_use /\ g.removed = f.removed /\ g.dir_entry = f.dir_entry
    /\ g.start_cluster = f.start_cluster /\ g.last_cluster = f.last_cluster

Stands(g, f, position, offset, c) ==
    /\ SameFile(g, f) /\ g.file_size = f.file_size
    /\ g.position = position /\ g.cluster_position = offset /\ g.current_cluster = c

LEMMA WithStanding ==
  ASSUME NEW f \in SoundFile, NEW p \in Nat, NEW o \in 0 .. CellsPerCluster, NEW c \in Link,
         NEW g, g = Standing(f, p, o, c)
  PROVE  g \in SoundFile /\ Stands(g, f, p, o, c)
<1> DEFINE f1 == [f EXCEPT !.position = p]
           f2 == [f1 EXCEPT !.cluster_position = o]
<1>1. g = [f2 EXCEPT !.current_cluster = c]
  BY DEF Standing
<1>2. f1 \in SoundFile /\ SameFile(f1, f) /\ f1.position = p /\ f1.file_size = f.file_size
  BY DEF SoundFile, SameFile
<1> HIDE DEF f1
<1>3. f2 \in SoundFile /\ SameFile(f2, f) /\ f2.position = p /\ f2.cluster_position = o
      /\ f2.file_size = f.file_size
  BY <1>2 DEF SoundFile, SameFile
<1> HIDE DEF f2
<1>4. g \in SoundFile
  BY <1>1, <1>3 DEF SoundFile
<1>5. SameFile(g, f) /\ g.position = p /\ g.cluster_position = o /\ g.current_cluster = c
      /\ g.file_size = f.file_size
  BY <1>1, <1>3 DEF SoundFile, SameFile
<1>6. QED
  BY <1>4, <1>5 DEF Stands

Turning(k, z, fd, f) == [k EXCEPT !.data = z, !.open[fd] = f]

HasData(t, k, z) ==
    Good(t) /\ t.data = z /\ t.ret = k.ret /\ t.open = k.open /\ Same(t, k)

LEMMA WithData ==
  ASSUME NEW k, Good(k), NEW z \in Seq(SoundCell \cup Nat), NEW t, t = [k EXCEPT !.data = z]
  PROVE  HasData(t, k, z)
<1>1. k \in CallState
  BY DEF Good, Running
<1>2. t \in CallState /\ t.data = z
  BY <1>1 DEF CallState
<1>3. t.disk = k.disk /\ t.fat = k.fat /\ t.off = k.off /\ t.ret = k.ret
      /\ t.open = k.open /\ t.hit = k.hit /\ t.dead = k.dead /\ t.fault = k.fault
  BY <1>1 DEF CallState
<1>4. QED
  BY <1>2, <1>3 DEF Good, Running, Mirrored, Same, HasData

\* t is k with other data and another handle.
HasTurned(t, k, z, fd, f) ==
    /\ Good(t) /\ t.data = z /\ t.ret = k.ret
    /\ Same(t, k) /\ t.open = Reopened(k.open, fd, f)

LEMMA WithTurn ==
  ASSUME NEW k, Good(k), NEW z \in Seq(SoundCell \cup Nat), NEW fd \in Fd, NEW f \in SoundFile,
         NEW t, t = Turning(k, z, fd, f)
  PROVE  HasTurned(t, k, z, fd, f)
<1> DEFINE u == [k EXCEPT !.data = z]
           v == [u EXCEPT !.open[fd] = f]
<1>1. Good(u) /\ u.data = z /\ u.ret = k.ret /\ Same(u, k) /\ u.open = k.open
  <2>1. HasData(u, k, z)
    BY WithData
  <2>2. QED
    BY <2>1 DEF HasData
<1>2. t = v
  BY DEF Turning
<1> HIDE DEF u
<1>3. Good(v) /\ v.ret = u.ret /\ v.data = u.data /\ Same(v, u)
      /\ v.open = Reopened(u.open, fd, f)
  <2>1. Good(u)
    BY <1>1
  <2>2. \A x : x = [u EXCEPT !.open[fd] = f] => HasOpened(x, u, fd, f)
    BY <2>1, WithHandle
  <2>3. QED
    BY <2>2 DEF HasOpened
<1> HIDE DEF v
<1>4. Same(v, k)
  BY <1>1, <1>3 DEF Same
<1>5. QED
  BY <1>1, <1>2, <1>3, <1>4 DEF HasTurned

\* What a turn of the loop of fat32_read does: it fails, or n cells are read.
Moved(g, f, k, n) ==
    LET used == f.cluster_position + n
    IN  /\ used >= CellsPerCluster =>
               Stands(g, f, f.position + n, 0, fat32_get_next_cluster(k.fat, f.current_cluster))
        /\ used < CellsPerCluster => Stands(g, f, f.position + n, used, f.current_cluster)

ReadSome(t, k, fd, size, f, n, g) ==
    /\ Still(t, k) /\ t.open = Reopened(k.open, fd, g) /\ g \in SoundFile
    /\ f.current_cluster \in OnDisk /\ Moved(g, f, k, n)
    /\ n = Least(size - Len(k.data), CellsPerCluster - f.cluster_position)
    /\ t.data = k.data \o SubSeq(k.disk.cluster[f.current_cluster],
                                 f.cluster_position + 1, f.cluster_position + n)
    /\ t.ret = k.ret

\* The cluster could not be read.
Unread(k, fd) == ~fat32_read_cluster(k, k.open[fd].current_cluster).ok

ReadOn(t, k, fd, size) ==
    \/ Quiet(t, k) /\ t.data = k.data /\ t.hit # << >> /\ Unread(k, fd)
    \/ Quiet(t, k) /\ t.data = k.data /\ k.open[fd].current_cluster \notin OnDisk
    \/ \E n, g : ReadSome(t, k, fd, size, k.open[fd], n, g)

LEMMA StillSame ==
  ASSUME NEW k, NEW t, NEW u, Quiet(u, k), Running(t), Same(t, u)
  PROVE  Still(t, k)
BY DEF Quiet, Same, Still, Later

LEMMA ReadClusterRet ==
  ASSUME NEW k \in CallState, NEW c
  PROVE  fat32_read_cluster(k, c).ret = k.ret
BY DEF fat32_read_cluster, Transfer, CallState

LEMMA ReadTurnOK ==
  ASSUME NEW k, Good(k), NEW fd \in Fd, NEW size \in Int, Len(k.data) < size,
         NEW t, t = ReadTurn(k, fd, size)
  PROVE  Good(t) /\ ReadOn(t, k, fd, size)
<1> DEFINE f == k.open[fd]
           c == f.current_cluster
           r == fat32_read_cluster(k, c)
           n == Least(size - Len(k.data), CellsPerCluster - f.cluster_position)
           used == f.cluster_position + n
           z == r.data \o SubSeq(k.disk.cluster[c], f.cluster_position + 1, used)
           offset == IF used >= CellsPerCluster THEN 0 ELSE used
           next == IF used >= CellsPerCluster THEN fat32_get_next_cluster(k.fat, c) ELSE c
           g == Standing(f, f.position + n, offset, next)
<1>1. t = IF ~r.ok THEN Failing(r) ELSE Turning(r, z, fd, g)
  BY DEF ReadTurn, Turning, Standing
<1>2. f \in SoundFile /\ k.data \in Seq(SoundCell \cup Nat) /\ k.fat \in Table
      /\ k.disk \in SoundDisk
  BY DEF Good, Running, CallState
<1> HIDE DEF f
<1>3. c \in Link /\ f.cluster_position \in 0 .. CellsPerCluster /\ f.position \in Nat
  BY <1>2 DEF SoundFile
<1>4. n \in Nat /\ used \in f.cluster_position .. CellsPerCluster
  BY <1>2, <1>3, Sizes DEF Least
<1> HIDE DEF n
<1>5. Follows(r, k) /\ r.ok \in BOOLEAN /\ (r.ok => c \in OnDisk)
      /\ r.disk = k.disk /\ r.dead = k.dead /\ (c \in OnDisk /\ ~r.ok => r.hit # << >>)
  BY ReadClusterOK DEF Good
<1>6. Good(r) /\ r.data = k.data /\ r.open = k.open /\ Quiet(r, k)
  BY <1>5, FollowsGood, FollowsQuiet DEF Follows, Kept, Later
<1>10. r.ret = k.ret
  BY ReadClusterRet DEF Good, Running
<1>11. ~r.ok => Unread(k, fd)
  BY DEF Unread, f
<1> HIDE DEF r
<1>7. CASE ~r.ok
  <2>1. t = Failing(r)
    BY <1>1, <1>7
  <2>2. Good(t) /\ Same(t, r) /\ Kept(t, r)
    BY <1>6, <2>1, FailingOK
  <2>3. Quiet(t, k) /\ t.hit = r.hit
    BY <1>6, <2>2, QuietBy DEF Good, Kept, Same
  <2>4. QED
    BY <1>5, <1>6, <1>7, <1>11, <2>2, <2>3 DEF ReadOn, Kept, f
<1>8. CASE r.ok
  <2>1. c \in OnDisk /\ c \in Number
    BY <1>5, <1>8, Numbers
  <2> DEFINE cells == k.disk.cluster[c]
             m == f.cluster_position + 1
             s == SubSeq(cells, m, used)
  <2>2. cells \in Cluster
    BY <1>2, <2>1 DEF SoundDisk
  <2>3. cells \in Seq(SoundCell) /\ Len(cells) = CellsPerCluster
    <3> HIDE DEF cells
    <3>1. QED
      BY <2>2, Sizes DEF Cluster
  <2>4. m \in 1 .. Len(cells) + 1 /\ used \in m - 1 .. Len(cells)
    <3> HIDE DEF cells, used
    <3>1. QED
      BY <1>3, <1>4, <2>3, Sizes
  <2>5. offset \in 0 .. CellsPerCluster /\ f.position + n \in Nat
    BY <1>3, <1>4, Sizes
  <2>6. next \in Link
    BY <1>2, <1>3, <2>1, NextOK
  <2>7. z = r.data \o s /\ t = Turning(r, z, fd, g)
    BY <1>1, <1>8
  <2>13. used = f.cluster_position + n /\ s = SubSeq(k.disk.cluster[c], f.cluster_position + 1, used)
    OBVIOUS
  <2>14. /\ used >= CellsPerCluster => offset = 0 /\ next = fat32_get_next_cluster(k.fat, c)
         /\ used < CellsPerCluster => offset = used /\ next = c
    BY <1>3, <1>4, Sizes
  <2> HIDE DEF cells, m, used
  <2>8. s \in Seq(SoundCell)
    BY <2>3, <2>4, SubSeqElements
  <2> HIDE DEF s, z
  <2>9. z \in Seq(SoundCell \cup Nat)
    <3>1. s \in Seq(SoundCell \cup Nat) /\ r.data \in Seq(SoundCell \cup Nat)
      BY <1>2, <1>6, <2>8
    <3>2. QED
      BY <2>7, <3>1, ConcatElements
  <2> HIDE DEF offset, next
  <2>10. g \in SoundFile /\ Stands(g, f, f.position + n, offset, next)
    BY <1>2, <2>5, <2>6, WithStanding
  <2> HIDE DEF g
  <2>11. \A u : u = Turning(r, z, fd, g) => HasTurned(u, r, z, fd, g)
    BY <1>6, <2>9, <2>10, WithTurn
  <2>15. Good(t) /\ t.data = z /\ Same(t, r) /\ t.open = Reopened(k.open, fd, g) /\ t.ret = k.ret
    BY <1>6, <1>10, <2>7, <2>11 DEF HasTurned
  <2>16. Still(t, k)
    BY <1>6, <2>15, StillSame DEF Good
  <2>17. Moved(g, f, k, n)
    BY <2>10, <2>13, <2>14 DEF Moved
  <2>18. t.data = k.data \o SubSeq(k.disk.cluster[c], f.cluster_position + 1, f.cluster_position + n)
    BY <1>6, <2>7, <2>13, <2>15
  <2>19. ReadSome(t, k, fd, size, f, n, g)
    BY <2>1, <2>10, <2>15, <2>16, <2>17, <2>18 DEF ReadSome, n
  <2>12. QED
    BY <2>15, <2>19 DEF ReadOn, f
<1>9. QED
  BY <1>5, <1>7, <1>8

LEMMA NoData ==
  ASSUME NEW k, Good(k), NEW t, t = [k EXCEPT !.ret = 0, !.data = << >>]
  PROVE  Good(t) /\ t.ret = 0 /\ t.data = << >> /\ Same(t, k) /\ t.open = k.open
<1> DEFINE u == [k EXCEPT !.ret = 0]
           v == [u EXCEPT !.data = << >>]
<1>1. Good(u) /\ u.ret = 0 /\ Same(u, k) /\ u.open = k.open
  BY GoodRet DEF Kept
<1>2. t = v
  OBVIOUS
<1>3. << >> \in Seq(SoundCell \cup Nat)
  OBVIOUS
<1> HIDE DEF u
<1>4. Good(v) /\ v.ret = u.ret /\ v.data = << >> /\ Same(v, u) /\ v.open = u.open
  <2>1. Good(u)
    BY <1>1
  <2>2. HasData(v, u, << >>)
    BY <1>3, <2>1, WithData
  <2>3. QED
    BY <2>2 DEF HasData
<1> HIDE DEF v
<1>5. Same(v, k)
  BY <1>1, <1>4 DEF Same
<1>6. QED
  BY <1>1, <1>2, <1>4, <1>5

\* The loop of fat32_read ends.
ReadEnds(u, fd, size) ==
    u.ret # 0 \/ Len(u.data) >= size \/ u.open[fd].current_cluster >= FAT32_END_CLUSTER

\* The turns of the loop of fat32_read.
Reading(w, k, fd, wanted, t) ==
    LET f == k.open[fd]
        size == Least(wanted, f.file_size - f.position)
    IN  IF f.position >= f.file_size THEN Same(t, k) /\ t.open = k.open /\ t.data = << >>
        ELSE /\ Good(w[0]) /\ Same(w[0], k) /\ w[0].open = k.open /\ w[0].data = << >>
             /\ w[0].ret = 0
             /\ t = w[wanted + 1]
             /\ \A i \in 1 .. wanted + 1 :
                    \/ w[i] = w[i - 1] /\ ReadEnds(w[i], fd, size)
                    \/ /\ Len(w[i - 1].data) < size /\ Good(w[i - 1])
                       /\ w[i] = ReadTurn(w[i - 1], fd, size)

LEMMA ReadOK ==
  ASSUME NEW k, Good(k), NEW fd \in Fd, NEW wanted \in Nat, NEW t, t = fat32_read(k, fd, wanted)
  PROVE  Good(t) /\ \E w : Reading(w, k, fd, wanted, t)
<1> DEFINE N == wanted + 1
           f == k.open[fd]
           size == Least(wanted, f.file_size - f.position)
           b == [k EXCEPT !.ret = 0, !.data = << >>]
           Turned(u) ==
               IF u.ret # 0 \/ Len(u.data) >= size \/ u.open[fd].current_cluster >= FAT32_END_CLUSTER
               THEN u ELSE ReadTurn(u, fd, size)
           S == {u \in CallState : Good(u)}
           Is(h) == h = [i \in 0 .. N |-> IF i = 0 THEN b ELSE Turned(h[i - 1])]
           G == [x \in S \X (1 .. N) |-> Turned(x[1])]
           w == CHOOSE h : Is(h)
<1>1. t = IF f.position >= f.file_size THEN [k EXCEPT !.data = << >>] ELSE w[N]
  BY DEF fat32_read
<1>2. \A u : Good(u) => u \in S
  BY DEF Good, Running
<1>3. b \in S /\ Same(b, k) /\ b.open = k.open /\ b.data = << >> /\ b.ret = 0
  <2>1. Good(b) /\ Same(b, k) /\ b.open = k.open /\ b.data = << >> /\ b.ret = 0
    BY NoData
  <2> HIDE DEF b
  <2>2. QED
    BY <1>2, <2>1
<1>4. size \in Int
  <2>1. f \in SoundFile
    BY DEF Good, Running, CallState
  <2>2. f.file_size \in Nat /\ f.position \in Nat
    BY <2>1 DEF SoundFile
  <2>3. QED
    BY <2>2 DEF Least
<1> HIDE DEF size
<1>5. ASSUME NEW u \in S PROVE Turned(u) \in S
  <2>1. Good(u) /\ Len(u.data) \in Nat
    BY <1>5 DEF Good, Running, CallState
  <2>2. CASE Turned(u) = u
    BY <2>2
  <2>3. CASE ~(Len(u.data) >= size) /\ Turned(u) = ReadTurn(u, fd, size)
    <3> DEFINE v == ReadTurn(u, fd, size)
    <3>1. Len(u.data) < size
      BY <1>4, <2>1, <2>3
    <3> HIDE DEF Turned
    <3>2. Good(v)
      BY <1>4, <2>1, <3>1, ReadTurnOK
    <3> HIDE DEF v
    <3>3. v \in S
      BY <1>2, <3>2
    <3>4. QED
      BY <2>3, <3>3 DEF v
  <2>4. QED
    BY <2>2, <2>3
<1>12. N \in Nat
  OBVIOUS
<1>13. ASSUME NEW u \in S
       PROVE  \/ Turned(u) = u /\ ReadEnds(u, fd, size)
              \/ Len(u.data) < size /\ Good(u) /\ Turned(u) = ReadTurn(u, fd, size)
  <2>1. Good(u) /\ Len(u.data) \in Nat
    BY <1>13 DEF Good, Running, CallState
  <2>2. CASE ~(Len(u.data) >= size) /\ Turned(u) = ReadTurn(u, fd, size)
    BY <1>4, <2>1, <2>2
  <2>3. QED
    BY <2>2 DEF ReadEnds
<1> HIDE DEF Turned, b, S, N
<1>6. Is(w)
  <2>1. G \in [S \X (1 .. N) -> S] /\ \A u \in S, i \in 1 .. N : G[<<u, i>>] = Turned(u)
    BY <1>5
  <2> HIDE DEF G
  <2>2. PICK h : IsIteration(h, N, S, b, G)
    BY <1>3, <1>12, <2>1, IterationExists
  <2>3. h \in [0 .. N -> S] /\ h[0] = b /\ \A i \in 1 .. N : h[i] = G[<<h[i - 1], i>>]
    BY <2>2 DEF IsIteration
  <2>4. \A i \in 1 .. N : h[i - 1] \in S
    BY <1>12, <2>3
  <2>5. \A i \in 1 .. N : h[i] = Turned(h[i - 1])
    BY <2>1, <2>3, <2>4
  <2>6. Is(h)
    BY <1>12, <2>3, <2>5
  <2> HIDE DEF Is
  <2>7. QED
    BY <2>6
<1> HIDE DEF w
<1>7. w[0] \in S /\ \A i \in 1 .. N : w[i - 1] \in S => w[i] \in S
  BY <1>3, <1>5, <1>6, <1>12
<1>8. w[N] \in S
  BY <1>7, <1>12, StaysIn
<1>9. CASE f.position >= f.file_size
  <2>1. t = [k EXCEPT !.data = << >>] /\ << >> \in Seq(SoundCell \cup Nat)
    BY <1>1, <1>9
  <2>2. HasData(t, k, << >>)
    BY <2>1, WithData
  <2>3. QED
    BY <1>9, <2>2 DEF HasData, Reading
<1>10. CASE ~(f.position >= f.file_size)
  <2>1. t = w[N] /\ Good(t)
    BY <1>1, <1>8, <1>10 DEF S
  <2>2. \A i \in 0 .. N : w[i] \in S
    BY <1>7, <1>12, StaysIn
  <2>3. \A i \in 1 .. N : \/ w[i] = w[i - 1] /\ ReadEnds(w[i], fd, size)
                          \/ /\ Len(w[i - 1].data) < size /\ Good(w[i - 1])
                             /\ w[i] = ReadTurn(w[i - 1], fd, size)
    <3> SUFFICES ASSUME NEW i \in 1 .. N
                 PROVE  \/ w[i] = w[i - 1] /\ ReadEnds(w[i], fd, size)
                        \/ /\ Len(w[i - 1].data) < size /\ Good(w[i - 1])
                           /\ w[i] = ReadTurn(w[i - 1], fd, size)
      OBVIOUS
    <3>1. i - 1 \in 0 .. N /\ i \in 0 .. N /\ i # 0
      BY <1>12
    <3>2. w[i] = Turned(w[i - 1]) /\ w[i - 1] \in S
      BY <1>6, <2>2, <3>1
    <3>3. QED
      BY <1>13, <3>2
  <2>4. w[0] = b
    BY <1>6, <1>12
  <2>5. Good(w[0]) /\ Same(w[0], k) /\ w[0].open = k.open /\ w[0].data = << >> /\ w[0].ret = 0
    BY <1>3, <2>4 DEF S
  <2>6. Reading(w, k, fd, wanted, t)
    BY <1>10, <2>1, <2>3, <2>5 DEF Reading, N, size
  <2>7. QED
    BY <2>1, <2>6
<1>11. QED
  BY <1>9, <1>10

\* The steps along the chain in fat32_seek.
Seeking(w, k, fd, wanted, g, t) ==
    LET f == k.open[fd]
        position == Least(wanted, f.file_size)
        N == position \div CellsPerCluster
    IN  /\ Same(t, k) /\ t.open = Reopened(k.open, fd, g) /\ g \in SoundFile
        /\ Stands(g, f, position, position % CellsPerCluster, w[N])
        /\ w[0] = f.start_cluster
        /\ \A i \in 1 .. N : w[i] = IF w[i - 1] >= FAT32_END_CLUSTER THEN w[i - 1]
                                  ELSE fat32_get_next_cluster(k.fat, w[i - 1])

LEMMA SeekOK ==
  ASSUME NEW k, Good(k), NEW fd \in Fd, NEW wanted \in Nat, NEW t, t = fat32_seek(k, fd, wanted)
  PROVE  Good(t) /\ \E w, g : Seeking(w, k, fd, wanted, g, t)
<1> DEFINE f == k.open[fd]
           position == Least(wanted, f.file_size)
           N == position \div CellsPerCluster
           Skip(c) == IF c >= FAT32_END_CLUSTER THEN c ELSE fat32_get_next_cluster(k.fat, c)
           b == f.start_cluster
           Is(h) == h = [i \in 0 .. N |-> IF i = 0 THEN b ELSE Skip(h[i - 1])]
           G == [x \in Link \X (1 .. N) |-> Skip(x[1])]
           w == CHOOSE h : Is(h)
           g == Standing(f, position, position % CellsPerCluster, w[N])
           u == [k EXCEPT !.open[fd] = g]
<1>1. t = u
  BY DEF fat32_seek, Standing
<1>2. f \in SoundFile /\ k.fat \in Table
  BY DEF Good, Running, CallState
<1> HIDE DEF f
<1>3. f.file_size \in Nat /\ b \in Link
  BY <1>2, Numbers DEF SoundFile
<1>4. position \in Nat
  BY <1>3 DEF Least
<1> HIDE DEF position
<1>5. N \in Nat /\ position % CellsPerCluster \in 0 .. CellsPerCluster
  <2>1. CellsPerCluster \in Nat \ {0}
    BY Sizes
  <2>2. N \in Nat /\ position % CellsPerCluster \in 0 .. CellsPerCluster - 1
    BY <1>4, <2>1, Division
  <2>3. QED
    BY <2>1, <2>2
<1>6. ASSUME NEW c \in Link PROVE Skip(c) \in Link
  <2>1. CASE c >= FAT32_END_CLUSTER
    BY <2>1
  <2>2. CASE ~(c >= FAT32_END_CLUSTER)
    <3>1. c \in Number
      BY <2>2, Numbers, Sizes
    <3>2. fat32_get_next_cluster(k.fat, c) \in Link
      BY <1>2, <3>1, NextOK
    <3>3. QED
      BY <2>2, <3>2
  <2>3. QED
    BY <2>1, <2>2
<1> HIDE DEF Skip, b, N
<1>7. Is(w)
  <2>1. G \in [Link \X (1 .. N) -> Link] /\ \A c \in Link, i \in 1 .. N : G[<<c, i>>] = Skip(c)
    BY <1>6
  <2> HIDE DEF G
  <2>2. PICK h : IsIteration(h, N, Link, b, G)
    BY <1>3, <1>5, <2>1, IterationExists
  <2>3. h \in [0 .. N -> Link] /\ h[0] = b /\ \A i \in 1 .. N : h[i] = G[<<h[i - 1], i>>]
    BY <2>2 DEF IsIteration
  <2>4. \A i \in 1 .. N : h[i - 1] \in Link
    BY <1>5, <2>3
  <2>5. \A i \in 1 .. N : h[i] = Skip(h[i - 1])
    BY <2>1, <2>3, <2>4
  <2>6. Is(h)
    BY <1>5, <2>3, <2>5
  <2> HIDE DEF Is
  <2>7. QED
    BY <2>6
<1> HIDE DEF w
<1>8. w[0] \in Link /\ \A i \in 1 .. N : w[i - 1] \in Link => w[i] \in Link
  BY <1>3, <1>5, <1>6, <1>7
<1>9. w[N] \in Link
  BY <1>5, <1>8, StaysIn
<1>10. g \in SoundFile /\ Stands(g, f, position, position % CellsPerCluster, w[N])
  BY <1>2, <1>4, <1>5, <1>9, WithStanding
<1> HIDE DEF g
<1>11. HasOpened(t, k, fd, g)
  <2>1. \A x : x = [k EXCEPT !.open[fd] = g] => HasOpened(x, k, fd, g)
    BY <1>10, WithHandle
  <2>2. QED
    BY <1>1, <2>1
<1>13. w[0] = b /\ \A i \in 1 .. N : w[i] = Skip(w[i - 1])
  BY <1>5, <1>7
<1>14. Good(t) /\ Same(t, k) /\ t.open = Reopened(k.open, fd, g)
  BY <1>11 DEF HasOpened
<1>15. Seeking(w, k, fd, wanted, g, t)
  BY <1>10, <1>13, <1>14 DEF Seeking, Skip, b, f, position, N
<1>12. QED
  BY <1>14, <1>15

-----------------------------------------------------------------------------
(* write                                                                   *)

Taking(k, fd, f) == [k EXCEPT !.ret = 0, !.open[fd] = f]

\* t is k with a handle that has a cluster to write to.
HasTaken(t, k, fd, f) ==
    /\ Good(t) /\ t.open[fd] = f /\ t.ret = 0 /\ t.data = k.data
    /\ Same(t, k) /\ t.open = Reopened(k.open, fd, f)

LEMMA WithTaken ==
  ASSUME NEW k, Good(k), NEW fd \in Fd, NEW f \in SoundFile, NEW t, t = Taking(k, fd, f)
  PROVE  HasTaken(t, k, fd, f)
<1> DEFINE u == [k EXCEPT !.ret = 0]
<1>1. Good(u) /\ u.ret = 0 /\ u.data = k.data /\ Same(u, k) /\ u.open = k.open
  BY GoodRet DEF Kept
<1> HIDE DEF u
<1> DEFINE o == [u.open EXCEPT ![fd] = f]
           v == [u EXCEPT !.open = o]
<1>2. t = v
  BY DEF Taking, u
<1>3. u.open \in [Fd -> SoundFile]
  BY <1>1 DEF Good, Running, CallState
<1>4. o \in [Fd -> SoundFile] /\ o[fd] = f
  BY <1>3
<1> HIDE DEF o
<1>5. Good(v) /\ v.open = o /\ v.ret = u.ret /\ v.data = u.data /\ Same(v, u)
  BY <1>1, <1>4, WithOpen
<1> HIDE DEF v
<1>7. Same(v, k) /\ o = Reopened(k.open, fd, f)
  BY <1>1, <1>5 DEF Same, Reopened, o
<1>6. QED
  BY <1>1, <1>2, <1>4, <1>5, <1>7 DEF HasTaken

\* A handle with a cluster to write to, or none to be had.
Placing(t, k, b) == Good(t) /\ t.data = k.data /\ (t.ret = 0 => b)

LEMMA FirstClusterOK ==
  ASSUME NEW k, Good(k), NEW fd \in Fd, NEW t, t = FirstCluster(k, fd)
  PROVE  Placing(t, k, t.open[fd].start_cluster >= 2)
<1> DEFINE f == k.open[fd]
           u == fat32_allocate_cluster(k, f.start_cluster)
           c == u.ret
           g == [f EXCEPT !.start_cluster = c, !.last_cluster = c, !.current_cluster = c,
                          !.cluster_position = 0]
<1>1. t = IF f.start_cluster >= 2 THEN k ELSE IF c = 0 THEN Failing(u) ELSE Taking(u, fd, g)
  BY DEF FirstCluster, Taking
<1>2. f \in SoundFile
  BY DEF Good, Running, CallState
<1>3. CASE f.start_cluster >= 2
  <2>1. t = k
    BY <1>1, <1>3
  <2>2. QED
    BY <1>3, <2>1 DEF Placing
<1>4. CASE ~(f.start_cluster >= 2)
  <2>1. t = IF c = 0 THEN Failing(u) ELSE Taking(u, fd, g)
    BY <1>1, <1>4
  <2> HIDE DEF f
  <2>2. Passes(u, k) /\ c \in {0} \cup ClusterNumber
    BY AllocateOK
  <2> HIDE DEF u
  <2>3. Good(u) /\ u.data = k.data
    BY <2>2 DEF Passes, Kept, Later
  <2>4. CASE c = 0
    <3>1. t = Failing(u)
      BY <2>1, <2>4
    <3>2. Good(t) /\ t.ret = -1 /\ Kept(t, u)
      BY <2>3, <3>1, FailingOK
    <3>3. QED
      BY <2>3, <3>2 DEF Placing, Kept, Later
  <2>5. CASE c # 0
    <3>1. t = Taking(u, fd, g)
      BY <2>1, <2>5
    <3>2. c \in Number /\ c \in Link /\ c >= 2
      BY <2>2, <2>5, Numbers DEF ClusterNumber
    <3> DEFINE f1 == [f EXCEPT !.start_cluster = c]
               f2 == [f1 EXCEPT !.last_cluster = c]
               f3 == [f2 EXCEPT !.current_cluster = c]
    <3>3. g = [f3 EXCEPT !.cluster_position = 0]
      OBVIOUS
    <3> HIDE DEF c, g
    <3>4. f1 \in SoundFile /\ f1.start_cluster = c
      BY <1>2, <3>2 DEF SoundFile
    <3> HIDE DEF f1
    <3>5. f2 \in SoundFile /\ f2.start_cluster = c
      BY <3>2, <3>4 DEF SoundFile
    <3> HIDE DEF f2
    <3>6. f3 \in SoundFile /\ f3.start_cluster = c
      BY <3>2, <3>5 DEF SoundFile
    <3> HIDE DEF f3
    <3>7. g \in SoundFile /\ g.start_cluster = c
      BY <3>3, <3>6, Sizes DEF SoundFile
    <3>8. Good(t) /\ t.open[fd] = g /\ t.data = u.data
      BY <2>3, <3>1, <3>7, WithTaken DEF HasTaken
    <3>9. QED
      BY <2>3, <3>2, <3>7, <3>8 DEF Placing
  <2>6. QED
    BY <2>4, <2>5
<1>5. QED
  BY <1>3, <1>4

LEMMA ClusterAfterEndOK ==
  ASSUME NEW k, Good(k), NEW fd \in Fd, k.ret = 0 => k.open[fd].start_cluster >= 2,
         NEW t, t = ClusterAfterEnd(k, fd)
  PROVE  Placing(t, k, t.open[fd].current_cluster \in Number)
<1> DEFINE f == k.open[fd]
           u == fat32_allocate_cluster(k, IF f.last_cluster >= 2 THEN f.last_cluster
                                          ELSE f.start_cluster)
           c == u.ret
           d == IF IsCluster(f.last_cluster) THEN c ELSE f.start_cluster
           g == [f EXCEPT !.last_cluster = c, !.cluster_position = 0, !.current_cluster = d]
<1>1. t = IF k.ret # 0 \/ IsCluster(f.current_cluster) THEN k
          ELSE IF c = 0 THEN Failing(u) ELSE Taking(u, fd, g)
  BY DEF ClusterAfterEnd, Taking
<1>2. f \in SoundFile
  BY DEF Good, Running, CallState
<1>3. f.start_cluster \in Number /\ f.current_cluster \in Link
  BY <1>2 DEF SoundFile
<1>4. CASE k.ret # 0 \/ IsCluster(f.current_cluster)
  <2>1. t = k
    BY <1>1, <1>4
  <2>2. QED
    BY <1>3, <1>4, <2>1, Numbers DEF Placing
<1>5. CASE ~(k.ret # 0 \/ IsCluster(f.current_cluster))
  <2>1. t = IF c = 0 THEN Failing(u) ELSE Taking(u, fd, g)
    BY <1>1, <1>5
  <2> HIDE DEF f
  <2>2. Passes(u, k) /\ c \in {0} \cup ClusterNumber
    BY AllocateOK
  <2> HIDE DEF u
  <2>3. Good(u) /\ u.data = k.data
    BY <2>2 DEF Passes, Kept, Later
  <2>4. CASE c = 0
    <3>1. t = Failing(u)
      BY <2>1, <2>4
    <3>2. Good(t) /\ t.ret = -1 /\ Kept(t, u)
      BY <2>3, <3>1, FailingOK
    <3>3. QED
      BY <2>3, <3>2 DEF Placing, Kept, Later
  <2>5. CASE c # 0
    <3>1. t = Taking(u, fd, g)
      BY <2>1, <2>5
    <3>2. c \in Number
      BY <2>2, <2>5 DEF ClusterNumber
    <3>3. d \in Number /\ d \in Link
      BY <1>3, <3>2, Numbers
    <3> DEFINE f1 == [f EXCEPT !.last_cluster = c]
               f2 == [f1 EXCEPT !.cluster_position = 0]
    <3>4. g = [f2 EXCEPT !.current_cluster = d]
      OBVIOUS
    <3> HIDE DEF c, d, g
    <3>5. f1 \in SoundFile
      BY <1>2, <3>2 DEF SoundFile
    <3> HIDE DEF f1
    <3>6. f2 \in SoundFile
      BY <3>5, Sizes DEF SoundFile
    <3> HIDE DEF f2
    <3>7. g \in SoundFile /\ g.current_cluster = d
      BY <3>3, <3>4, <3>6 DEF SoundFile
    <3>8. Good(t) /\ t.open[fd] = g /\ t.data = u.data
      BY <2>3, <3>1, <3>7, WithTaken DEF HasTaken
    <3>9. QED
      BY <2>3, <3>3, <3>7, <3>8 DEF Placing
  <2>6. QED
    BY <2>4, <2>5
<1>6. QED
  BY <1>4, <1>5

LEMMA NextClusterOK ==
  ASSUME NEW k, Good(k), NEW fd \in Fd, k.ret = 0 => k.open[fd].current_cluster \in Number,
         NEW t, t = NextCluster(k, fd)
  PROVE  Good(t) /\ t.data = k.data
<1> DEFINE f == k.open[fd]
           next == k.fat[f.current_cluster]
           h == [f EXCEPT !.current_cluster = next, !.cluster_position = 0]
           u == fat32_allocate_cluster(k, f.current_cluster)
           c == u.ret
           g == [f EXCEPT !.last_cluster = c, !.current_cluster = c, !.cluster_position = 0]
<1>1. t = IF k.ret # 0 \/ f.cluster_position < CellsPerCluster THEN k
          ELSE IF IsCluster(next) THEN [k EXCEPT !.open[fd] = h]
          ELSE IF c = 0 THEN Failing(u) ELSE Taking(u, fd, g)
  BY DEF NextCluster, Taking
<1>2. f \in SoundFile /\ k.fat \in Table
  BY DEF Good, Running, CallState
<1>3. CASE t = k
  BY <1>3
<1>4. CASE k.ret = 0 /\ IsCluster(next) /\ t = [k EXCEPT !.open[fd] = h]
  <2>1. next \in Link
    BY <1>2, <1>4 DEF Table
  <2> HIDE DEF f, next
  <2> DEFINE f1 == [f EXCEPT !.current_cluster = next]
  <2>2. h = [f1 EXCEPT !.cluster_position = 0]
    OBVIOUS
  <2>3. f1 \in SoundFile
    BY <1>2, <2>1 DEF SoundFile
  <2> HIDE DEF f1, h
  <2>4. h \in SoundFile
    BY <2>2, <2>3, Sizes DEF SoundFile
  <2>5. QED
    BY <1>4, <2>4, WithOpenFile
<1>5. CASE t = IF c = 0 THEN Failing(u) ELSE Taking(u, fd, g)
  <2> HIDE DEF f
  <2>2. Passes(u, k) /\ c \in {0} \cup ClusterNumber
    BY AllocateOK
  <2> HIDE DEF u
  <2>3. Good(u) /\ u.data = k.data
    BY <2>2 DEF Passes, Kept, Later
  <2>4. CASE c = 0
    <3>1. t = Failing(u)
      BY <1>5, <2>4
    <3>2. Good(t) /\ Kept(t, u)
      BY <2>3, <3>1, FailingOK
    <3>3. QED
      BY <2>3, <3>2 DEF Kept, Later
  <2>5. CASE c # 0
    <3>1. t = Taking(u, fd, g)
      BY <1>5, <2>5
    <3>2. c \in Number /\ c \in Link
      BY <2>2, <2>5, Numbers DEF ClusterNumber
    <3> DEFINE f1 == [f EXCEPT !.last_cluster = c]
               f2 == [f1 EXCEPT !.current_cluster = c]
    <3>4. g = [f2 EXCEPT !.cluster_position = 0]
      OBVIOUS
    <3> HIDE DEF c, g
    <3>5. f1 \in SoundFile
      BY <1>2, <3>2 DEF SoundFile
    <3> HIDE DEF f1
    <3>6. f2 \in SoundFile
      BY <3>2, <3>5 DEF SoundFile
    <3> HIDE DEF f2
    <3>7. g \in SoundFile
      BY <3>4, <3>6, Sizes DEF SoundFile
    <3>8. Good(t) /\ t.data = u.data
      BY <2>3, <3>1, <3>7, WithTaken DEF HasTaken
    <3>9. QED
      BY <2>3, <3>8
  <2>6. QED
    BY <2>4, <2>5
<1>6. QED
  BY <1>1, <1>3, <1>4, <1>5

\* A handle that has moved on by n.
Advancing(f, n) ==
    [f EXCEPT !.cluster_position = f.cluster_position + n,
              !.position = f.position + n,
              !.file_size = IF f.position + n > f.file_size THEN f.position + n ELSE f.file_size]

LEMMA WithAdvance ==
  ASSUME NEW f \in SoundFile, NEW n \in Nat, f.cluster_position + n <= CellsPerCluster,
         NEW g, g = Advancing(f, n)
  PROVE  g \in SoundFile
<1> DEFINE cp == f.cluster_position + n
           p == f.position + n
           s == IF f.position + n > f.file_size THEN f.position + n ELSE f.file_size
           f1 == [f EXCEPT !.cluster_position = cp]
           f2 == [f1 EXCEPT !.position = p]
<1>1. f.cluster_position \in Nat /\ f.position \in Nat /\ f.file_size \in Nat
  BY DEF SoundFile
<1>2. cp \in 0 .. CellsPerCluster /\ p \in Nat /\ s \in Nat
  BY <1>1, Sizes
<1>3. g = [f2 EXCEPT !.file_size = s]
  BY DEF Advancing
<1> HIDE DEF cp, p, s
<1>4. f1 \in SoundFile
  BY <1>2 DEF SoundFile
<1> HIDE DEF f1
<1>5. f2 \in SoundFile
  BY <1>2, <1>4 DEF SoundFile
<1> HIDE DEF f2
<1>6. QED
  BY <1>2, <1>3, <1>5 DEF SoundFile

LEMMA WriteTurnOK ==
  ASSUME NEW k, Good(k), NEW fd \in Fd, NEW text \in Seq(Nat), Len(k.data) < Len(text),
         NEW t, t = WriteTurn(k, fd, text)
  PROVE  Good(t)
<1> DEFINE u == FirstCluster(k, fd)
           v == ClusterAfterEnd(u, fd)
           h == NextCluster(v, fd)
           f == h.open[fd]
           c == f.current_cluster
           offset == f.cluster_position
           n == Least(Len(text) - Len(h.data), CellsPerCluster - offset)
           x == IF offset # 0 \/ n < CellsPerCluster THEN fat32_read_cluster(h, c)
                ELSE [h EXCEPT !.ok = TRUE]
           cells == [i \in 1 .. CellsPerCluster |->
                        IF i \in offset + 1 .. offset + n THEN Byte(text[Len(x.data) + i - offset])
                        ELSE x.disk.cluster[c][i]]
           y == fat32_write_cluster(x, c, cells, <<"data">>)
           more == SubSeq(text, Len(y.data) + 1, Len(y.data) + n)
           z == y.data \o more
           g == Advancing(y.open[fd], n)
<1>1. t = IF h.ret # 0 THEN h
          ELSE IF c \notin OnDisk THEN Failing(h)
          ELSE IF ~x.ok THEN Failing(x)
          ELSE IF ~y.ok THEN Failing(y) ELSE Turning(y, z, fd, g)
  BY DEF WriteTurn, Turning, Advancing
<1>2. Good(h) /\ h.data = k.data
  <2>1. Placing(u, k, u.open[fd].start_cluster >= 2)
    BY FirstClusterOK
  <2> HIDE DEF u
  <2>2. Good(u) /\ u.data = k.data /\ (u.ret = 0 => u.open[fd].start_cluster >= 2)
    BY <2>1 DEF Placing
  <2>3. Placing(v, u, v.open[fd].current_cluster \in Number)
    BY <2>2, ClusterAfterEndOK
  <2> HIDE DEF v
  <2>4. Good(v) /\ v.data = u.data /\ (v.ret = 0 => v.open[fd].current_cluster \in Number)
    BY <2>3 DEF Placing
  <2>5. Good(h) /\ h.data = v.data
    BY <2>4, NextClusterOK
  <2>6. QED
    BY <2>2, <2>4, <2>5
<1> HIDE DEF h
<1>3. f \in SoundFile /\ h.data \in Seq(SoundCell \cup Nat) /\ Len(h.data) \in Nat
      /\ Len(text) \in Nat /\ Len(h.data) < Len(text)
  BY <1>2 DEF Good, Running, CallState
<1> HIDE DEF f
<1>4. offset \in 0 .. CellsPerCluster
  BY <1>3 DEF SoundFile
<1>5. n \in Nat /\ offset + n <= CellsPerCluster /\ Len(h.data) + n <= Len(text)
  BY <1>3, <1>4, Sizes DEF Least
<1> HIDE DEF n, offset
<1>6. CASE t = h
  BY <1>2, <1>6
<1>7. CASE t = Failing(h)
  BY <1>2, <1>7, FailingOK
<1>8. CASE c \in OnDisk /\ t = IF ~x.ok THEN Failing(x)
                            ELSE IF ~y.ok THEN Failing(y) ELSE Turning(y, z, fd, g)
  <2>1. Follows(x, h)
    <3>1. Running(h)
      BY <1>2 DEF Good
    <3>2. CASE x = fat32_read_cluster(h, c)
      <4> HIDE DEF x
      <4>1. QED
        BY <3>1, <3>2, ReadClusterOK
    <3>3. CASE x = [h EXCEPT !.ok = TRUE]
      <4> HIDE DEF x
      <4>1. QED
        BY <3>1, <3>3, WithOk
    <3>4. QED
      BY <3>2, <3>3
  <2> HIDE DEF x
  <2>2. Good(x) /\ x.data = h.data /\ x.open = h.open
    BY <1>2, <2>1, FollowsGood DEF Follows, Kept, Later
  <2>3. cells \in Cluster
    <3>1. x.disk.cluster[c] \in Cluster
      BY <1>8, <2>2 DEF Good, Running, CallState, SoundDisk
    <3>2. ASSUME NEW i \in 1 .. CellsPerCluster, i \in offset + 1 .. offset + n
          PROVE  Byte(text[Len(x.data) + i - offset]) \in SoundCell
      <4> DEFINE j == Len(x.data) + i - offset
      <4>1. j \in 1 .. Len(text)
        BY <1>3, <1>4, <1>5, <2>2, <3>2
      <4> HIDE DEF j
      <4>2. text[j] \in Nat
        BY <4>1
      <4>3. Byte(text[j]) \in SoundCell
        BY <4>2 DEF Byte, SoundCell
      <4>4. QED
        BY <4>3 DEF j
    <3>3. \A i \in 1 .. CellsPerCluster : x.disk.cluster[c][i] \in SoundCell
      BY <3>1 DEF Cluster
    <3>4. \A i \in 1 .. CellsPerCluster :
              (IF i \in offset + 1 .. offset + n THEN Byte(text[Len(x.data) + i - offset])
               ELSE x.disk.cluster[c][i]) \in SoundCell
      BY <3>2, <3>3, Zenon
    <3>5. QED
      BY <3>4, Zenon DEF Cluster
  <2> HIDE DEF cells
  <2>4. Follows(y, x)
    <3>1. <<"data">> \in Hit /\ <<"data">> # << >>
      BY DEF Hit
    <3>2. QED
      BY <2>2, <2>3, <3>1, WriteClusterOK DEF Good
  <2> HIDE DEF y
  <2>5. Good(y) /\ y.data = h.data /\ y.open[fd] = f
    BY <2>2, <2>4, FollowsGood DEF Follows, Kept, Later, f
  <2>6. CASE t = Failing(x)
    BY <2>2, <2>6, FailingOK
  <2>7. CASE t = Failing(y)
    BY <2>5, <2>7, FailingOK
  <2>8. CASE t = Turning(y, z, fd, g)
    <3> DEFINE m == Len(y.data) + 1
               e == Len(y.data) + n
    <3>1. m \in 1 .. Len(text) + 1 /\ e \in m - 1 .. Len(text)
      BY <1>3, <1>5, <2>5
    <3>2. more = SubSeq(text, m, e)
      OBVIOUS
    <3> HIDE DEF m, e, more
    <3>3. more \in Seq(Nat)
      BY <3>1, <3>2, SubSeqElements
    <3>4. z \in Seq(SoundCell \cup Nat)
      <4>1. more \in Seq(SoundCell \cup Nat) /\ y.data \in Seq(SoundCell \cup Nat)
        BY <1>3, <2>5, <3>3
      <4>2. QED
        BY <4>1, ConcatElements
    <3>5. y.open[fd] \in SoundFile /\ y.open[fd].cluster_position + n <= CellsPerCluster
      BY <1>3, <1>5, <2>5 DEF offset
    <3>6. g \in SoundFile
      BY <1>5, <3>5, WithAdvance
    <3> HIDE DEF z, g
    <3>7. Good(y)
      BY <2>5
    <3>8. QED
      <4>1. \A s \in Seq(SoundCell \cup Nat), r \in SoundFile : Good(Turning(y, s, fd, r))
        BY <3>7, WithTurn DEF HasTurned
      <4>2. QED
        BY <2>8, <3>4, <3>6, <4>1
  <2>9. QED
    BY <1>8, <2>6, <2>7, <2>8
<1>9. QED
  BY <1>1, <1>6, <1>7, <1>8

LEMMA PatchedOK ==
  ASSUME NEW cell \in SoundCell, NEW f \in SoundFile
  PROVE  Patched(cell, f) \in SoundCell
<1>1. f.start_cluster \in Number /\ f.file_size \in Nat
  BY DEF SoundFile
<1>2. CASE cell.kind = "entry"
  <2> DEFINE p == [cell EXCEPT !.start = f.start_cluster]
             q == [p EXCEPT !.size = f.file_size]
  <2>1. Patched(cell, f) = q
    BY <1>2 DEF Patched
  <2>2. cell \in EntryOf(ShortName)
    BY <1>2, EntryCells
  <2>3. p \in EntryOf(ShortName)
    BY <1>1, <2>2 DEF EntryOf
  <2> HIDE DEF p
  <2>4. q \in EntryOf(ShortName)
    BY <1>1, <2>3 DEF EntryOf
  <2> HIDE DEF q
  <2>5. QED
    BY <2>1, <2>4 DEF SoundCell
<1>3. CASE cell.kind \in {"deleted", "zero"}
  BY <1>3 DEF Patched
<1>4. CASE cell.kind \notin {"entry", "deleted", "zero"}
  <2>1. Patched(cell, f) = Junk
    BY <1>4 DEF Patched
  <2>2. QED
    BY <2>1 DEF SoundCell
<1>5. QED
  BY <1>2, <1>3, <1>4

LEMMA UpdateEntryOK ==
  ASSUME NEW k, Good(k), NEW fd \in Fd, NEW t, t = fat32_update_file_entry(k, fd)
  PROVE  Good(t)
<1> DEFINE f == k.open[fd]
           c == f.dir_entry[1]
           i == f.dir_entry[2]
           u == fat32_read_cluster(k, c)
           cells == [u.disk.cluster[c] EXCEPT ![i] = Patched(u.disk.cluster[c][i], f)]
           v == fat32_write_cluster(u, c, cells, <<"update">>)
           r == IF v.ok THEN 0 ELSE -1
<1>1. t = IF ~u.ok THEN Failing(u) ELSE [v EXCEPT !.ret = r]
  BY DEF fat32_update_file_entry
<1>2. f \in SoundFile
  BY DEF Good, Running, CallState
<1> HIDE DEF f
<1>3. Follows(u, k) /\ u.ok \in BOOLEAN
  BY ReadClusterOK DEF Good
<1> HIDE DEF u
<1>4. Good(u)
  BY <1>3, FollowsGood
<1>5. CASE ~u.ok
  <2>1. t = Failing(u)
    BY <1>1, <1>5
  <2>2. QED
    BY <1>4, <2>1, FailingOK
<1>6. CASE u.ok
  <2>1. ASSUME c \in OnDisk PROVE cells \in Cluster
    <3> DEFINE d == u.disk.cluster[c]
    <3>1. d \in Cluster
      BY <1>4, <2>1 DEF Good, Running, CallState, SoundDisk
    <3>2. cells = [d EXCEPT ![i] = Patched(d[i], f)]
      OBVIOUS
    <3> HIDE DEF d, cells
    <3>3. CASE i \in 1 .. CellsPerCluster
      <4>1. d[i] \in SoundCell
        BY <3>1, <3>3 DEF Cluster
      <4>2. Patched(d[i], f) \in SoundCell
        BY <1>2, <4>1, PatchedOK
      <4>3. QED
        BY <3>1, <3>2, <4>2 DEF Cluster
    <3>4. CASE i \notin 1 .. CellsPerCluster
      BY <3>1, <3>2, <3>4 DEF Cluster
    <3>5. QED
      BY <3>3, <3>4
  <2> HIDE DEF cells
  <2>2. <<"update">> \in Hit /\ <<"update">> # << >>
    BY DEF Hit
  <2>3. Follows(v, u)
    BY <1>4, <2>1, <2>2, WriteClusterOK DEF Good
  <2>4. t = [v EXCEPT !.ret = r] /\ r \in Int
    BY <1>1, <1>6
  <2> HIDE DEF v, r
  <2>5. Good(v)
    BY <1>4, <2>3, FollowsGood
  <2>6. QED
    BY <2>4, <2>5, GoodRet
<1>7. QED
  BY <1>3, <1>5, <1>6

\* The turns of the loop of fat32_write, and the update of the entry after them.
Writing(w, k, fd, text, t) ==
    LET N == Len(text)
        e == w[N]
    IN  /\ Good(w[0]) /\ Same(w[0], k) /\ w[0].open = k.open
        /\ w[0].data = << >> /\ w[0].ret = 0
        /\ \A i \in 1 .. N :
               \/ w[i] = w[i - 1]
               \/ /\ w[i - 1].ret = 0 /\ Len(w[i - 1].data) < N /\ Good(w[i - 1])
                  /\ w[i] = WriteTurn(w[i - 1], fd, text)
        /\ Good(e)
        /\ \/ t = e /\ (e.ret # 0 \/ text = << >>)
           \/ e.ret = 0 /\ text # << >> /\ t = fat32_update_file_entry(e, fd)

LEMMA WriteOK ==
  ASSUME NEW k, Good(k), NEW fd \in Fd, NEW text \in Seq(Nat), NEW t, t = fat32_write(k, fd, text)
  PROVE  Good(t) /\ \E w : Writing(w, k, fd, text, t)
<1> DEFINE N == Len(text)
           b == [k EXCEPT !.ret = 0, !.data = << >>]
           Turned(u) == IF u.ret # 0 \/ Len(u.data) >= N THEN u ELSE WriteTurn(u, fd, text)
           S == {u \in CallState : Good(u)}
           Is(h) == h = [i \in 0 .. N |-> IF i = 0 THEN b ELSE Turned(h[i - 1])]
           G == [x \in S \X (1 .. N) |-> Turned(x[1])]
           w == CHOOSE h : Is(h)
           e == w[N]
<1>1. t = IF e.ret # 0 \/ text = << >> THEN e ELSE fat32_update_file_entry(e, fd)
  BY DEF fat32_write
<1>2. \A u : Good(u) => u \in S
  BY DEF Good, Running
<1>3. b \in S /\ Same(b, k) /\ b.open = k.open /\ b.data = << >> /\ b.ret = 0
  <2>1. Good(b) /\ Same(b, k) /\ b.open = k.open /\ b.data = << >> /\ b.ret = 0
    BY NoData
  <2> HIDE DEF b
  <2>2. QED
    BY <1>2, <2>1
<1>4. N \in Nat
  OBVIOUS
<1>5. ASSUME NEW u \in S PROVE Turned(u) \in S
  <2>1. Good(u) /\ Len(u.data) \in Nat
    BY <1>5 DEF Good, Running, CallState
  <2>2. CASE Turned(u) = u
    BY <2>2
  <2>3. CASE ~(Len(u.data) >= N) /\ Turned(u) = WriteTurn(u, fd, text)
    <3> DEFINE v == WriteTurn(u, fd, text)
    <3>1. Len(u.data) < N
      BY <1>4, <2>1, <2>3
    <3> HIDE DEF Turned
    <3>2. Good(v)
      BY <2>1, <3>1, WriteTurnOK
    <3> HIDE DEF v
    <3>3. v \in S
      BY <1>2, <3>2
    <3>4. QED
      BY <2>3, <3>3 DEF v
  <2>4. QED
    BY <2>2, <2>3
<1>13. ASSUME NEW u \in S
       PROVE  \/ Turned(u) = u
              \/ u.ret = 0 /\ Len(u.data) < N /\ Good(u) /\ Turned(u) = WriteTurn(u, fd, text)
  <2>1. Good(u) /\ Len(u.data) \in Nat
    BY <1>13 DEF Good, Running, CallState
  <2>2. CASE u.ret = 0 /\ ~(Len(u.data) >= N) /\ Turned(u) = WriteTurn(u, fd, text)
    BY <1>4, <2>1, <2>2
  <2>3. QED
    BY <2>2
<1> HIDE DEF Turned, b, S, N
<1>6. Is(w)
  <2>1. G \in [S \X (1 .. N) -> S] /\ \A u \in S, i \in 1 .. N : G[<<u, i>>] = Turned(u)
    BY <1>5
  <2> HIDE DEF G
  <2>2. PICK h : IsIteration(h, N, S, b, G)
    BY <1>3, <1>4, <2>1, IterationExists
  <2>3. h \in [0 .. N -> S] /\ h[0] = b /\ \A i \in 1 .. N : h[i] = G[<<h[i - 1], i>>]
    BY <2>2 DEF IsIteration
  <2>4. \A i \in 1 .. N : h[i - 1] \in S
    BY <1>4, <2>3
  <2>5. \A i \in 1 .. N : h[i] = Turned(h[i - 1])
    BY <2>1, <2>3, <2>4
  <2>6. Is(h)
    BY <1>4, <2>3, <2>5
  <2> HIDE DEF Is
  <2>7. QED
    BY <2>6
<1> HIDE DEF w
<1>7. w[0] \in S /\ \A i \in 1 .. N : w[i - 1] \in S => w[i] \in S
  BY <1>3, <1>4, <1>5, <1>6
<1>8. w[N] \in S
  BY <1>4, <1>7, StaysIn
<1>9. Good(e)
  BY <1>8 DEF S
<1>14. \A i \in 0 .. N : w[i] \in S
  BY <1>4, <1>7, StaysIn
<1>15. \A i \in 1 .. N : \/ w[i] = w[i - 1]
                         \/ /\ w[i - 1].ret = 0 /\ Len(w[i - 1].data) < N /\ Good(w[i - 1])
                            /\ w[i] = WriteTurn(w[i - 1], fd, text)
  <2> SUFFICES ASSUME NEW i \in 1 .. N
               PROVE  \/ w[i] = w[i - 1]
                      \/ /\ w[i - 1].ret = 0 /\ Len(w[i - 1].data) < N /\ Good(w[i - 1])
                         /\ w[i] = WriteTurn(w[i - 1], fd, text)
    OBVIOUS
  <2>1. i - 1 \in 0 .. N /\ i \in 0 .. N /\ i # 0
    BY <1>4
  <2>2. w[i] = Turned(w[i - 1]) /\ w[i - 1] \in S
    BY <1>6, <1>14, <2>1
  <2>3. QED
    BY <1>13, <2>2
<1>16. Good(w[0]) /\ Same(w[0], k) /\ w[0].open = k.open /\ w[0].data = << >> /\ w[0].ret = 0
  <2>1. w[0] = b
    BY <1>4, <1>6
  <2>2. QED
    BY <1>3, <2>1 DEF S
<1>17. ASSUME \/ t = e /\ (e.ret # 0 \/ text = << >>)
              \/ e.ret = 0 /\ text # << >> /\ t = fat32_update_file_entry(e, fd)
       PROVE  Writing(w, k, fd, text, t)
  BY <1>9, <1>15, <1>16, <1>17 DEF Writing, N
<1> HIDE DEF e
<1>10. CASE e.ret # 0 \/ text = << >>
  BY <1>1, <1>9, <1>10, <1>17
<1>11. CASE ~(e.ret # 0 \/ text = << >>)
  <2>1. t = fat32_update_file_entry(e, fd)
    BY <1>1, <1>11
  <2>2. QED
    BY <1>9, <1>11, <1>17, <2>1, UpdateEntryOK
<1>12. QED
  BY <1>10, <1>11

-----------------------------------------------------------------------------
(* The invariant                                                           *)

Memory == [mounted : BOOLEAN, fat : Table, open : [Fd -> SoundFile]]

\* All copies are equal, mounted or not; the table in memory is theirs while the
\* file system is mounted.
CopiesAgree ==
    Clean => /\ \A copy \in 1 .. NumFats : disk.fat[copy] = disk.fat[1]
             /\ mem.mounted => disk.fat[1] = mem.fat

Typed == disk \in SoundDisk /\ mem \in Memory

Fat32Inv ==
    /\ Typed
    /\ calls \in 0 .. MAX_CALLS /\ broken \in BOOLEAN
    /\ CopiesAgree

LEMMA UnmountedOK == Unmounted \in Memory /\ Unmounted.mounted = FALSE
<1>1. NoTable \in Table
  BY Numbers DEF NoTable, Table, Number
<1>2. [fd \in Fd |-> ClosedFile] \in [Fd -> SoundFile]
  BY ClosedFileOK
<1>3. Unmounted \in Memory
  BY <1>1, <1>2 DEF Unmounted, Memory
<1>4. Unmounted.mounted = FALSE
  BY DEF Unmounted
<1>5. QED
  BY <1>3, <1>4

LEMMA BeginRuns ==
  ASSUME Typed, NEW fault \in Fault, NEW t, t = Begin(fault)
  PROVE  Running(t) /\ t.hit = << >> /\ t.disk = disk /\ t.fat = mem.fat
<1>1. disk \in SoundDisk /\ mem.fat \in Table /\ mem.open \in [Fd -> SoundFile]
  BY DEF Typed, Memory
<1>2. Zero \in Found
  BY DEF Found
<1>3. <<0, 0>> \in Place /\ ROOT_CLUSTER \in Number
  BY Sizes, Numbers DEF Place
<1>4. << >> \in Hit
  BY DEF Hit
<1>5. << >> \in Seq(Spot) /\ << >> \in Seq(SoundCell \cup Nat)
  OBVIOUS
<1>6. NoShort \in ShortName \cup {NoShort} /\ 0 \in Int /\ 0 \in Nat
  OBVIOUS
<1>7. t \in CallState
  BY <1>1, <1>2, <1>3, <1>4, <1>5, <1>6 DEF Begin, CallState
<1>8. t.hit = << >> /\ t.disk = disk /\ t.fat = mem.fat
  BY DEF Begin
<1>9. t.dead = FALSE
  BY DEF Begin
<1>10. QED
  BY <1>7, <1>8, <1>9 DEF Running

LEMMA BeginGood ==
  ASSUME Fat32Inv, mem.mounted, NEW fault \in Fault, NEW t, t = Begin(fault)
  PROVE  Good(t)
<1>1. Running(t) /\ t.hit = << >> /\ t.disk = disk /\ t.fat = mem.fat
  BY BeginRuns DEF Fat32Inv
<1>2. Clean => Mirrored(t)
  BY <1>1 DEF Fat32Inv, CopiesAgree, Mirrored
<1>3. QED
  BY <1>1, <1>2 DEF Good

LEMMA NoFaultOK == NoFault \in Fault
BY DEF NoFault, Fault

LEMMA FaultsOK ==
  ASSUME NEW t, t.made \in Nat, NEW fault \in Faults(t)
  PROVE  fault \in Fault
<1>1. CASE fault = NoFault
  BY <1>1, NoFaultOK
<1>2. CASE fault \in [at : 1 .. t.made, kind : FaultKind]
  BY <1>2 DEF Fault
<1>3. QED
  BY <1>1, <1>2 DEF Faults

\* Whatever is hit, it is remembered.
LEMMA CauseIsKept ==
  ASSUME NEW call, NEW t
  PROVE  CauseOf(call, t) \notin {"full", "off the disk", "removed", "shared"}
<1>1. CauseOf(call, t) \in {"clear", "unlink", "table", "torn table", "mkdir", "read", "other"}
  BY DEF CauseOf
<1>2. QED
  BY <1>1

LEMMA CleanAfter ==
  ASSUME NEW call, NEW t, NEW special, t.off \in BOOLEAN,
         causes' = causes \cup Causes(call, t, special), Clean'
  PROVE  Clean /\ t.hit = << >> /\ ~t.off
<1>1. \A c \in causes' : c \in {"full", "removed", "shared"}
  BY DEF Clean, IoFaults
<1>2. Clean
  BY <1>1 DEF Clean, IoFaults
<1>3. ASSUME t.hit # << >> PROVE FALSE
  <2>1. CauseOf(call, t) \in causes'
    BY <1>3 DEF Causes
  <2>2. QED
    BY <1>1, <2>1, CauseIsKept
<1>4. ASSUME t.off PROVE FALSE
  <2>1. "off the disk" \in causes'
    BY <1>4 DEF Causes
  <2>2. QED
    BY <1>1, <2>1
<1>5. QED
  BY <1>2, <1>3, <1>4

LEMMA DoneOK ==
  ASSUME Fat32Inv, Ready, NEW call, NEW fault, NEW t, Good(t), NEW special,
         Done(call, fault, t, special)
  PROVE  Fat32Inv'
<1>1. t \in CallState /\ (t.dead => t.hit # << >>)
  BY DEF Good, Running
<1>2. t.disk \in SoundDisk /\ t.fat \in Table /\ t.open \in [Fd -> SoundFile]
  BY <1>1 DEF CallState
<1>3. t.dead \in BOOLEAN
  BY <1>1 DEF CallState
<1>4. t.off \in BOOLEAN
  BY <1>1 DEF CallState
<1> DEFINE m == [mounted |-> TRUE, fat |-> t.fat, open |-> t.open]
<1>5. disk' = t.disk /\ mem' = IF t.dead THEN Unmounted ELSE m
  BY DEF Done
<1>6. m \in Memory
  BY <1>2 DEF Memory
<1>7. m.fat = t.fat
  OBVIOUS
<1> HIDE DEF m
<1>8. Typed'
  BY <1>2, <1>3, <1>5, <1>6, UnmountedOK DEF Typed
<1>9. calls' \in 0 .. MAX_CALLS
  BY Fat32Assumption DEF Done, Ready, Fat32Inv
<1>10. broken' \in BOOLEAN
  BY DEF Done
<1>12. CopiesAgree'
  <2>1. SUFFICES ASSUME Clean'
                 PROVE  /\ \A copy \in 1 .. NumFats : disk'.fat[copy] = disk'.fat[1]
                        /\ mem'.mounted => disk'.fat[1] = mem'.fat
    BY DEF CopiesAgree
  <2>2. causes' = causes \cup Causes(call, t, special)
    BY DEF Done
  <2>3. Clean /\ t.hit = << >> /\ ~t.off
    BY <1>4, <2>1, <2>2, CleanAfter
  <2>4. Mirrored(t)
    BY <2>3 DEF Good
  <2>5. mem' = m
    BY <1>1, <1>5, <2>3
  <2>6. 1 \in 1 .. NumFats
    BY Sizes
  <2>7. QED
    BY <1>5, <1>7, <2>4, <2>5, <2>6 DEF Mirrored
<1>13. QED
  BY <1>8, <1>9, <1>10, <1>12 DEF Fat32Inv

LEMMA InitOK == Init => Fat32Inv
<1> SUFFICES ASSUME Init PROVE Fat32Inv
  OBVIOUS
<1> DEFINE tab == [c \in 0 .. FatEntries - 1 |->
                      IF c <= ROOT_CLUSTER + 1 THEN FAT32_END_CLUSTER ELSE FAT32_FREE_CLUSTER]
           alias == <<Spelling[Readme].base, 1>>
           root == [Zeros EXCEPT ![1] = Lfn(Readme, alias), ![2] = Entry(alias, FALSE, 3, 1)]
           file == [Zeros EXCEPT ![1] = Byte(0)]
           cl == [c \in OnDisk |-> CASE c = ROOT_CLUSTER -> root
                                     [] c = ROOT_CLUSTER + 1 -> file
                                     [] OTHER -> Zeros]
<1>1. tab \in Table
  BY Numbers DEF Table, Number
<1>2. alias \in ShortName /\ Readme \in Name
  <2>1. Readme \in Name
    BY Fat32Assumption DEF Name
  <2>2. Cardinality(Name) \in Nat /\ Cardinality(Name) # 0
    <3>1. IsFiniteSet(Name)
      BY Fat32Assumption DEF Name
    <3>2. QED
      BY <2>1, <3>1, FS_CardinalityType, FS_EmptySet
  <2>3. 1 \in 1 .. Cardinality(Name)
    BY <2>2
  <2>4. QED
    BY <2>1, <2>3, Names
<1> HIDE DEF alias
<1>3. Lfn(Readme, alias) \in SoundCell /\ Byte(0) \in SoundCell
  BY <1>2 DEF Lfn, Byte, SoundCell
<1>4. Entry(alias, FALSE, 3, 1) \in SoundCell
  <2>1. 3 \in Number
    BY Sizes DEF Number
  <2>2. QED
    BY <1>2, <2>1 DEF Entry, SoundCell, EntryOf
<1>5. root \in Cluster /\ file \in Cluster
  <2> DEFINE e == Lfn(Readme, alias)
             f == Entry(alias, FALSE, 3, 1)
             g == Byte(0)
  <2> HIDE DEF e, f, g
  <2>1. e \in SoundCell /\ f \in SoundCell /\ g \in SoundCell
    BY <1>3, <1>4 DEF e, f, g
  <2>2. [Zeros EXCEPT ![1] = e, ![2] = f] \in Cluster /\ [Zeros EXCEPT ![1] = g] \in Cluster
    BY <2>1, ZerosOK DEF Cluster
  <2>3. QED
    BY <2>2 DEF e, f, g
<1> HIDE DEF root, file
<1>6. cl \in [OnDisk -> Cluster]
  BY <1>5, ZerosOK
<1>7. Formatted = [fat |-> [copy \in 1 .. NumFats |-> tab], cluster |-> cl]
  BY DEF Formatted, root, file, alias
<1> HIDE DEF tab, cl
<1>8. Formatted \in SoundDisk
  BY <1>1, <1>6, <1>7 DEF SoundDisk
<1>9. \A copy \in 1 .. NumFats : Formatted.fat[copy] = tab
  BY <1>7
<1>10. 1 \in 1 .. NumFats
  BY Sizes
<1> DEFINE m == [Unmounted EXCEPT !.mounted = TRUE, !.fat = Formatted.fat[1]]
<1>11. Formatted.fat[1] \in Table
  BY <1>1, <1>9, <1>10
<1>12. m \in Memory /\ m.fat = Formatted.fat[1]
  <2> DEFINE u == [Unmounted EXCEPT !.mounted = TRUE]
  <2>1. u \in Memory
    BY UnmountedOK DEF Memory
  <2>2. m = [u EXCEPT !.fat = Formatted.fat[1]]
    OBVIOUS
  <2> HIDE DEF u, m
  <2>3. QED
    BY <1>11, <2>1, <2>2 DEF Memory
<1>13. disk = Formatted /\ mem = m /\ broken = FALSE /\ calls = 0
  BY DEF Init
<1> HIDE DEF m
<1>14. Typed
  BY <1>8, <1>12, <1>13 DEF Typed
<1>15. CopiesAgree
  BY <1>9, <1>10, <1>12, <1>13 DEF CopiesAgree
<1>16. calls \in 0 .. MAX_CALLS
  BY <1>13, Fat32Assumption
<1>17. broken \in BOOLEAN
  BY <1>13
<1>18. QED
  BY <1>14, <1>15, <1>16, <1>17 DEF Fat32Inv

-----------------------------------------------------------------------------
(* Every step keeps the invariant                                          *)

\* A call, undisturbed or not, that ends well whatever befalls it.
LEMMA MadeOK ==
  ASSUME NEW t, Good(t), NEW fault \in Faults(t)
  PROVE  fault \in Fault
<1>1. t.made \in Nat
  BY DEF Good, Running, CallState
<1>2. QED
  BY <1>1, FaultsOK

LEMMA CreateKeeps ==
  ASSUME Fat32Inv, NEW path \in Paths, create(path)
  PROVE  Fat32Inv'
<1>1. Ready /\ mem.mounted
  BY DEF create, Ready
<1>2. PICK fault \in Faults(fat32_create(Begin(NoFault), path)) :
          Done("create", fault, fat32_create(Begin(fault), path), {})
  BY DEF create, Calling
<1> DEFINE t == fat32_create(Begin(NoFault), path)
           u == fat32_create(Begin(fault), path)
<1>3. Good(t)
  BY <1>1, NoFaultOK, BeginGood, CreateOK
<1> HIDE DEF t
<1>4. fault \in Fault
  BY <1>2, <1>3, MadeOK DEF t
<1>5. Good(u)
  BY <1>1, <1>4, BeginGood, CreateOK
<1>6. Done("create", fault, u, {})
  BY <1>2
<1> HIDE DEF u
<1>7. QED
  BY <1>1, <1>5, <1>6, DoneOK

LEMMA MkdirKeeps ==
  ASSUME Fat32Inv, NEW path \in Paths, mkdir(path)
  PROVE  Fat32Inv'
<1>1. Ready /\ mem.mounted
  BY DEF mkdir, Ready
<1>2. PICK fault \in Faults(fat32_mkdir_path(Begin(NoFault), path)) :
          Done("mkdir", fault, fat32_mkdir_path(Begin(fault), path), {})
  BY DEF mkdir, Calling
<1> DEFINE t == fat32_mkdir_path(Begin(NoFault), path)
           u == fat32_mkdir_path(Begin(fault), path)
<1>3. Good(t)
  BY <1>1, NoFaultOK, BeginGood, MkdirOK
<1> HIDE DEF t
<1>4. fault \in Fault
  BY <1>2, <1>3, MadeOK DEF t
<1>5. Good(u)
  BY <1>1, <1>4, BeginGood, MkdirOK
<1>6. Done("mkdir", fault, u, {})
  BY <1>2
<1> HIDE DEF u
<1>7. QED
  BY <1>1, <1>5, <1>6, DoneOK

LEMMA RemoveKeeps ==
  ASSUME Fat32Inv, NEW path \in Paths, remove(path)
  PROVE  Fat32Inv'
<1>1. Ready /\ mem.mounted
  BY DEF remove, Ready
<1>2. PICK fault \in Faults(fat32_remove(Begin(NoFault), path)) :
          Done("remove", fault, fat32_remove(Begin(fault), path), {})
  BY DEF remove, Calling
<1> DEFINE t == fat32_remove(Begin(NoFault), path)
           u == fat32_remove(Begin(fault), path)
<1>3. Good(t)
  BY <1>1, NoFaultOK, BeginGood, RemoveOK
<1> HIDE DEF t
<1>4. fault \in Fault
  BY <1>2, <1>3, MadeOK DEF t
<1>5. Good(u)
  BY <1>1, <1>4, BeginGood, RemoveOK
<1>6. Done("remove", fault, u, {})
  BY <1>2
<1> HIDE DEF u
<1>7. QED
  BY <1>1, <1>5, <1>6, DoneOK

LEMMA RmdirKeeps ==
  ASSUME Fat32Inv, NEW path \in Paths, rmdir(path)
  PROVE  Fat32Inv'
<1>1. Ready /\ mem.mounted
  BY DEF rmdir, Ready
<1>2. PICK fault \in Faults(fat32_rmdir_path(Begin(NoFault), path)) :
          Done("rmdir", fault, fat32_rmdir_path(Begin(fault), path), {})
  BY DEF rmdir, Calling
<1> DEFINE t == fat32_rmdir_path(Begin(NoFault), path)
           u == fat32_rmdir_path(Begin(fault), path)
<1>3. Good(t)
  BY <1>1, NoFaultOK, BeginGood, RmdirOK
<1> HIDE DEF t
<1>4. fault \in Fault
  BY <1>2, <1>3, MadeOK DEF t
<1>5. Good(u)
  BY <1>1, <1>4, BeginGood, RmdirOK
<1>6. Done("rmdir", fault, u, {})
  BY <1>2
<1> HIDE DEF u
<1>7. QED
  BY <1>1, <1>5, <1>6, DoneOK

LEMMA OpenKeeps ==
  ASSUME Fat32Inv, NEW path \in Paths, open(path)
  PROVE  Fat32Inv'
<1>1. Ready /\ mem.mounted
  BY DEF open, Ready
<1>2. PICK fault \in Faults(fat32_open(Begin(NoFault), path)) :
          Done("open", fault, fat32_open(Begin(fault), path), {})
  BY DEF open, Calling
<1> DEFINE t == fat32_open(Begin(NoFault), path)
           u == fat32_open(Begin(fault), path)
<1>3. Good(t)
  BY <1>1, NoFaultOK, BeginGood, OpenOK
<1> HIDE DEF t
<1>4. fault \in Fault
  BY <1>2, <1>3, MadeOK DEF t
<1>5. Good(u)
  BY <1>1, <1>4, BeginGood, OpenOK
<1>6. Done("open", fault, u, {})
  BY <1>2
<1> HIDE DEF u
<1>7. QED
  BY <1>1, <1>5, <1>6, DoneOK

LEMMA ReadKeeps ==
  ASSUME Fat32Inv, NEW fd \in Fd, NEW size \in Nat, read(fd, size)
  PROVE  Fat32Inv'
<1>1. Ready /\ mem.mounted
  BY DEF read, Ready
<1>2. PICK fault \in Faults(fat32_read(Begin(NoFault), fd, size)) :
          Done("read", fault, fat32_read(Begin(fault), fd, size), {})
  BY DEF read, Calling
<1> DEFINE t == fat32_read(Begin(NoFault), fd, size)
           u == fat32_read(Begin(fault), fd, size)
<1>3. Good(t)
  BY <1>1, NoFaultOK, BeginGood, ReadOK
<1> HIDE DEF t
<1>4. fault \in Fault
  BY <1>2, <1>3, MadeOK DEF t
<1>5. Good(u)
  BY <1>1, <1>4, BeginGood, ReadOK
<1>6. Done("read", fault, u, {})
  BY <1>2
<1> HIDE DEF u
<1>7. QED
  BY <1>1, <1>5, <1>6, DoneOK

LEMMA WriteKeeps ==
  ASSUME Fat32Inv, NEW fd \in Fd, NEW text \in Seq(Nat), write(fd, text)
  PROVE  Fat32Inv'
<1>1. Ready /\ mem.mounted
  BY DEF write, Ready
<1>2. PICK fault \in Faults(fat32_write(Begin(NoFault), fd, text)) :
          Done("write", fault, fat32_write(Begin(fault), fd, text), Hazards(fd))
  BY DEF write, Calling
<1> DEFINE t == fat32_write(Begin(NoFault), fd, text)
           u == fat32_write(Begin(fault), fd, text)
<1>3. Good(t)
  BY <1>1, NoFaultOK, BeginGood, WriteOK
<1> HIDE DEF t
<1>4. fault \in Fault
  BY <1>2, <1>3, MadeOK DEF t
<1>5. Good(u)
  BY <1>1, <1>4, BeginGood, WriteOK
<1>6. Done("write", fault, u, Hazards(fd))
  BY <1>2
<1> HIDE DEF u
<1>7. QED
  BY <1>1, <1>5, <1>6, DoneOK

LEMMA SeekKeeps ==
  ASSUME Fat32Inv, NEW fd \in Fd, NEW position \in Nat, seek(fd, position)
  PROVE  Fat32Inv'
<1> DEFINE t == fat32_seek(Begin(NoFault), fd, position)
<1>1. Ready /\ mem.mounted /\ Done("seek", NoFault, t, {})
  BY DEF seek, Ready
<1>2. Good(t)
  BY <1>1, NoFaultOK, BeginGood, SeekOK
<1> HIDE DEF t
<1>3. QED
  BY <1>1, <1>2, DoneOK

LEMMA CloseKeeps ==
  ASSUME Fat32Inv, NEW fd \in Fd, close(fd)
  PROVE  Fat32Inv'
<1> DEFINE t == fat32_close(Begin(NoFault), fd)
<1>1. Ready /\ mem.mounted /\ Done("close", NoFault, t, {})
  BY DEF close, Ready
<1>2. Good(t)
  BY <1>1, NoFaultOK, BeginGood, CloseOK
<1> HIDE DEF t
<1>3. QED
  BY <1>1, <1>2, DoneOK

LEMMA AllRead == NotRead = {}
<1>1. \A c \in Number : SectorOf(c) \in 1 .. Count
  BY Sectors, AllSectors
<1>2. Number = 0 .. FatEntries - 1 /\ Count \in Nat
  BY Sectors, AllSectors DEF Number
<1>3. QED
  BY <1>1, <1>2 DEF NotRead

\* A mount reads the first copy, all of it.
LEMMA MountReads ==
  ASSUME disk \in SoundDisk, fat32_mount
  PROVE  \E fault \in Faults([made |-> 2]) :
             LET k == Begin(fault)
                 boot == Transfer(k, <<"read">>, {"error"})
                 table == IF boot.ok THEN Transfer(boot, <<"read">>, {"error"}) ELSE boot
             IN  /\ mem' = IF table.ok THEN [Unmounted EXCEPT !.mounted = TRUE, !.fat = disk.fat[1]]
                           ELSE Unmounted
                 /\ causes' = causes \cup Causes("mount", table, {})
<1> DEFINE Read(rest) == [c \in DOMAIN Unmounted.fat |-> IF c \in NotRead THEN rest[c] ELSE disk.fat[1][c]]
<1>1. \A rest : Read(rest) = disk.fat[1]
  <2>1. 1 \in 1 .. NumFats
    BY Sizes
  <2>2. disk.fat[1] \in [Number -> Link]
    BY <2>1 DEF SoundDisk, Table
  <2>3. DOMAIN Unmounted.fat = Number
    BY DEF Unmounted, NoTable, Number
  <2>4. QED
    BY <2>2, <2>3, AllRead
<1>2. PICK fault \in Faults([made |-> 2]), rest \in [NotRead -> 0 .. FAT32_END_CLUSTER] :
        LET k == Begin(fault)
            boot == Transfer(k, <<"read">>, {"error"})
            table == IF boot.ok THEN Transfer(boot, <<"read">>, {"error"}) ELSE boot
        IN  /\ mem' = IF table.ok THEN [Unmounted EXCEPT !.mounted = TRUE, !.fat = Read(rest)]
                      ELSE Unmounted
            /\ causes' = causes \cup Causes("mount", table, {})
  BY DEF fat32_mount
<1> HIDE DEF Read
<1>3. QED
  BY <1>1, <1>2

LEMMA MountKeeps ==
  ASSUME Fat32Inv, fat32_mount
  PROVE  Fat32Inv'
<1>1. PICK fault \in Faults([made |-> 2]) :
        LET k == Begin(fault)
            boot == Transfer(k, <<"read">>, {"error"})
            table == IF boot.ok THEN Transfer(boot, <<"read">>, {"error"}) ELSE boot
        IN  /\ mem' = IF table.ok THEN [Unmounted EXCEPT !.mounted = TRUE, !.fat = disk.fat[1]]
                      ELSE Unmounted
            /\ causes' = causes \cup Causes("mount", table, {})
  <2>1. disk \in SoundDisk
    BY DEF Fat32Inv, Typed
  <2>2. QED
    BY <2>1, MountReads
<1> DEFINE k == Begin(fault)
           boot == Transfer(k, <<"read">>, {"error"})
           table == IF boot.ok THEN Transfer(boot, <<"read">>, {"error"}) ELSE boot
           m == [Unmounted EXCEPT !.mounted = TRUE, !.fat = disk.fat[1]]
<1>2. (mem' = IF table.ok THEN m ELSE Unmounted) /\ causes' = causes \cup Causes("mount", table, {})
  BY <1>1
<1>3. fault \in Fault
  <2> DEFINE r == [made |-> 2]
  <2>1. r.made \in Nat /\ fault \in Faults(r)
    OBVIOUS
  <2> HIDE DEF r
  <2>2. QED
    BY <2>1, FaultsOK
<1>4. Running(k)
  BY <1>3, BeginRuns DEF Fat32Inv
<1> HIDE DEF k
<1>5. <<"read">> \in Hit /\ <<"read">> # << >>
  BY DEF Hit
<1>6. Running(boot)
  <2>1. Follows(boot, k)
    BY <1>4, <1>5, TransferOK
  <2>2. QED
    BY <2>1 DEF Follows
<1> HIDE DEF boot
<1>7. Running(table)
  <2> DEFINE v == Transfer(boot, <<"read">>, {"error"})
  <2>1. Follows(v, boot)
    BY <1>5, <1>6, TransferOK
  <2>2. Running(v)
    BY <2>1 DEF Follows
  <2>3. table = v \/ table = boot
    OBVIOUS
  <2> HIDE DEF v, table
  <2>4. QED
    BY <1>6, <2>2, <2>3
<1> HIDE DEF table
<1>8. table.off \in BOOLEAN
  BY <1>7 DEF Running, CallState
<1>9. disk' = disk /\ broken' = broken /\ calls' = calls
  BY DEF fat32_mount
<1>10. disk.fat[1] \in Table
  <2>1. 1 \in 1 .. NumFats /\ disk \in SoundDisk
    BY Sizes DEF Fat32Inv, Typed
  <2>2. QED
    BY <2>1 DEF SoundDisk
<1>11. m \in Memory /\ m.fat = disk.fat[1]
  <2> DEFINE u == [Unmounted EXCEPT !.mounted = TRUE]
  <2>1. u \in Memory
    BY UnmountedOK DEF Memory
  <2>2. m = [u EXCEPT !.fat = disk.fat[1]]
    OBVIOUS
  <2> HIDE DEF u, m
  <2>3. QED
    BY <1>10, <2>1, <2>2 DEF Memory
<1> HIDE DEF m
<1>12. mem' = m \/ mem' = Unmounted
  BY <1>2
<1>13. Typed'
  BY <1>9, <1>11, <1>12, UnmountedOK DEF Fat32Inv, Typed
<1>14. CopiesAgree'
  <2>1. SUFFICES ASSUME Clean'
                 PROVE  /\ \A copy \in 1 .. NumFats : disk'.fat[copy] = disk'.fat[1]
                        /\ mem'.mounted => disk'.fat[1] = mem'.fat
    BY DEF CopiesAgree
  <2>2. Clean
    BY <1>2, <1>8, <2>1, CleanAfter
  <2>3. \A copy \in 1 .. NumFats : disk.fat[copy] = disk.fat[1]
    BY <2>2 DEF Fat32Inv, CopiesAgree
  <2>4. QED
    BY <1>9, <1>11, <1>12, <2>3, UnmountedOK
<1>15. QED
  BY <1>9, <1>13, <1>14 DEF Fat32Inv

LEMMA UnmountKeeps ==
  ASSUME Fat32Inv, fat32_unmount
  PROVE  Fat32Inv'
<1>1. mem' = Unmounted /\ disk' = disk /\ causes' = causes
      /\ broken' = broken /\ calls' = calls
  BY DEF fat32_unmount
<1>2. Typed'
  BY <1>1, UnmountedOK DEF Fat32Inv, Typed
<1>3. Clean' = Clean
  BY <1>1 DEF Clean, IoFaults
<1>4. CopiesAgree'
  BY <1>1, <1>3, UnmountedOK DEF Fat32Inv, CopiesAgree
<1>5. QED
  BY <1>1, <1>2, <1>4 DEF Fat32Inv

LEMMA StutterKeeps ==
  ASSUME Fat32Inv, UNCHANGED vars
  PROVE  Fat32Inv'
<1>1. mem' = mem /\ disk' = disk /\ causes' = causes
      /\ broken' = broken /\ calls' = calls
  BY DEF vars
<1>2. Clean' = Clean
  BY <1>1 DEF Clean, IoFaults
<1>3. Typed' /\ CopiesAgree'
  BY <1>1, <1>2 DEF Fat32Inv, Typed, CopiesAgree
<1>4. QED
  BY <1>1, <1>3 DEF Fat32Inv

LEMMA Fat32InvIsInductive == Fat32Inv /\ [Next]_vars => Fat32Inv'
<1> SUFFICES ASSUME Fat32Inv, [Next]_vars PROVE Fat32Inv'
  OBVIOUS
<1>1. CASE \E path \in Paths : create(path)
  BY <1>1, CreateKeeps
<1>2. CASE \E path \in Paths : mkdir(path)
  BY <1>2, MkdirKeeps
<1>3. CASE \E path \in Paths : remove(path)
  BY <1>3, RemoveKeeps
<1>4. CASE \E path \in Paths : rmdir(path)
  BY <1>4, RmdirKeeps
<1>5. CASE \E path \in Paths : open(path)
  BY <1>5, OpenKeeps
<1>6. CASE \E fd \in Fd, size \in ReadSizes : read(fd, size)
  <2>1. PICK fd \in Fd, size \in ReadSizes : read(fd, size)
    BY <1>6
  <2>2. size \in Nat
    BY Fat32Assumption
  <2>3. QED
    BY <2>1, <2>2, ReadKeeps
<1>7. CASE \E fd \in Fd, text \in Texts : write(fd, text)
  <2>1. PICK fd \in Fd, text \in Texts : write(fd, text)
    BY <1>7
  <2>2. text \in Seq(Nat)
    BY Fat32Assumption
  <2>3. QED
    BY <2>1, <2>2, WriteKeeps
<1>8. CASE \E fd \in Fd, position \in Positions : seek(fd, position)
  <2>1. PICK fd \in Fd, position \in Positions : seek(fd, position)
    BY <1>8
  <2>2. position \in Nat
    BY Fat32Assumption
  <2>3. QED
    BY <2>1, <2>2, SeekKeeps
<1>9. CASE \E fd \in Fd : close(fd)
  BY <1>9, CloseKeeps
<1>10. CASE fat32_mount
  BY <1>10, MountKeeps
<1>11. CASE fat32_unmount
  BY <1>11, UnmountKeeps
<1>12. CASE UNCHANGED vars
  BY <1>12, StutterKeeps
<1>13. QED
  BY <1>1, <1>2, <1>3, <1>4, <1>5, <1>6, <1>7, <1>8, <1>9, <1>10, <1>11, <1>12 DEF Next

LEMMA TypesOfInv == Fat32Inv => TypeOK
<1> SUFFICES ASSUME Fat32Inv PROVE TypeOK
  OBVIOUS
<1>1. disk \in SoundDisk /\ mem \in Memory
  BY DEF Fat32Inv, Typed
<1>2. SoundCell \in SUBSET Cell
  <2>1. EntryOf(ShortName) \in SUBSET [kind : {"entry"}, name : ShortName, dir : BOOLEAN,
                                       start : 0 .. FatEntries, size : Nat]
    <3>1. Number \in SUBSET (0 .. FatEntries)
      BY Sizes DEF Number
    <3>2. QED
      BY <3>1 DEF EntryOf
  <2>2. QED
    BY <2>1, Zenon DEF SoundCell, Cell
<1>3. Table \in SUBSET [0 .. FatEntries - 1 -> Nat]
  BY Numbers DEF Table, Number
<1>4. SoundFile \in SUBSET OpenFile
  <2>1. /\ Number \in SUBSET (0 .. FatEntries)
        /\ Link \in SUBSET (0 .. FatEntries \cup {FAT32_END_CLUSTER})
    BY Sizes DEF Number, Link
  <2>2. Place \in SUBSET ((0 .. FatEntries) \X (0 .. CellsPerCluster))
    BY <2>1 DEF Place
  <2>3. QED
    BY <2>1, <2>2 DEF SoundFile, OpenFile
<1>5. disk \in Disk
  <2>1. disk.fat \in [1 .. NumFats -> Table] /\ disk.cluster \in [OnDisk -> Cluster]
        /\ disk = [fat |-> disk.fat, cluster |-> disk.cluster]
    BY <1>1 DEF SoundDisk
  <2>2. disk.fat \in [1 .. NumFats -> [0 .. FatEntries - 1 -> Nat]]
    BY <1>3, <2>1
  <2>3. Cluster \in SUBSET [1 .. CellsPerCluster -> Cell]
    BY <1>2 DEF Cluster
  <2>4. disk.cluster \in [OnDisk -> [1 .. CellsPerCluster -> Cell]]
    BY <2>1, <2>3
  <2>5. QED
    BY <2>1, <2>2, <2>4 DEF Disk
<1>6. mem.fat \in [0 .. FatEntries - 1 -> Nat] /\ mem.open \in [Fd -> OpenFile]
  BY <1>1, <1>3, <1>4 DEF Memory
<1>7. mem.mounted \in BOOLEAN
  BY <1>1 DEF Memory
<1>8. QED
  BY <1>5, <1>6, <1>7 DEF Fat32Inv, TypeOK

-----------------------------------------------------------------------------
(* Theorems                                                                *)

\* Through every call of fat32.cpp and every fault in it, a number of a cluster
\* that the table, an entry or a handle keeps is one that fat_table has an entry
\* for, or the end mark of a chain where there may be one; and until a transfer
\* fails, the copies of the table agree.
THEOREM Fat32Invariant == Spec => []Fat32Inv
  BY InitOK, Fat32InvIsInductive, PTL DEF Spec

\* The disk, the table in memory and the handles keep their fields and ranges
\* through every call and every fault; a cursor stays within a cluster.
THEOREM Fat32TypeCorrect == Spec => []TypeOK
  BY Fat32Invariant, TypesOfInv, PTL

\* fat32_flush_fat writes every copy of the table and every call that changes the
\* table ends with it, the error paths included: until a transfer fails, all the
\* copies are the table in memory.
THEOREM MirrorsStayEqual == Spec => []MirrorsAgree
<1>1. Fat32Inv => MirrorsAgree
  BY DEF Fat32Inv, CopiesAgree, Clean, MirrorsAgree
<1>2. QED
  BY Fat32Invariant, <1>1, PTL

-----------------------------------------------------------------------------
(* The table.  No two clusters have the same successor, and a successor is *)
(* taken: chains that begin where no link leads to are disjoint.           *)

Linked(fat, c) == fat[c] \in OnDisk

TableOK(fat) ==
    /\ fat \in Table
    /\ \A c \in Number : fat[c] \in {0, FAT32_END_CLUSTER} \cup OnDisk
    /\ \A c \in Number : c >= 2 /\ fat[c] # 0 => c \in OnDisk /\ (c < total_clusters \/ c <= 3)
    /\ \A c \in Number : Linked(fat, c) => c \in OnDisk /\ c < total_clusters /\ fat[fat[c]] # 0
    /\ \A a, b \in Number : Linked(fat, a) /\ fat[a] = fat[b] => a = b

\* A chain can begin at h: h is taken, and no link leads to it.
Begins(fat, h) == h \in OnDisk /\ fat[h] # 0 /\ \A c \in Number : fat[c] # h

\* z is a whole chain of the table.
IsChain(fat, z) ==
    /\ z \in Seq(OnDisk) /\ z # << >>
    /\ \A i, j \in 1 .. Len(z) : z[i] = z[j] => i = j
    /\ \A i \in 1 .. Len(z) - 1 : fat[z[i]] = z[i + 1]
    /\ fat[z[Len(z)]] = FAT32_END_CLUSTER

\* One turn of the walk along a chain.
WalkOn(link, z) ==
    LET next == link[Last(z)]
    IN  IF z # << >> /\ IsCluster(next) /\ ~\E i \in DOMAIN z : z[i] = next
        THEN Append(z, next) ELSE z

IsWalk(w, link, start) ==
    /\ w[0] = IF IsCluster(start) THEN <<start>> ELSE << >>
    /\ \A n \in 1 .. FatEntries : w[n] = WalkOn(link, w[n - 1])

LEMMA WalkTurns ==
  ASSUME NEW link \in Table, NEW start \in Number
  PROVE  \E w : IsWalk(w, link, start) /\ Walk(link, start) = w[FatEntries]
<1> DEFINE Extended(chain, next) ==
               IF IsCluster(next) /\ ~\E i \in DOMAIN chain : chain[i] = next
               THEN Append(chain, next) ELSE chain
           Followed(chain) ==
               IF chain = << >> THEN chain ELSE Extended(chain, link[Last(chain)])
           b == IF IsCluster(start) THEN <<start>> ELSE << >>
           S == Seq(ClusterNumber)
           Is(f) == f = [n \in 0 .. FatEntries |-> IF n = 0 THEN b ELSE Followed(f[n - 1])]
           G == [x \in S \X (1 .. FatEntries) |-> Followed(x[1])]
           w == CHOOSE f : Is(f)
<1>1. FatEntries \in Nat
  BY Sizes
<1>2. b \in S
  <2>1. CASE IsCluster(start)
    <3>1. start \in ClusterNumber
      BY <2>1, Numbers DEF ClusterNumber
    <3>2. QED
      BY <2>1, <3>1
  <2>2. CASE ~IsCluster(start)
    BY <2>2
  <2>3. QED
    BY <2>1, <2>2
<1>3. ASSUME NEW z \in S PROVE Followed(z) \in S
  <2>1. CASE z = << >>
    BY <2>1
  <2>2. CASE z # << >>
    <3> DEFINE next == link[Last(z)]
    <3>1. z \in Seq(ClusterNumber)
      OBVIOUS
    <3>2. Last(z) \in ClusterNumber
      BY <2>2, <3>1 DEF Last
    <3>3. next \in Link
      BY <3>2 DEF ClusterNumber, Table, Number
    <3>4. Followed(z) = Extended(z, next)
      BY <2>2
    <3> HIDE DEF next
    <3>5. CASE Extended(z, next) = z
      BY <3>4, <3>5
    <3>6. CASE IsCluster(next) /\ Extended(z, next) = Append(z, next)
      <4>1. next \in ClusterNumber
        BY <3>3, <3>6, Numbers DEF ClusterNumber
      <4>2. Append(z, next) \in Seq(ClusterNumber)
        BY <3>1, <4>1, AppendElements
      <4> HIDE DEF Followed, Extended
      <4>3. QED
        BY <3>4, <3>6, <4>2
    <3>7. QED
      BY <3>5, <3>6
  <2>3. QED
    BY <2>1, <2>2
<1>4. \A z : Followed(z) = WalkOn(link, z)
  BY DEF WalkOn
<1> HIDE DEF Followed, b, S
<1>5. Is(w)
  <2>1. G \in [S \X (1 .. FatEntries) -> S] /\ \A z \in S, n \in 1 .. FatEntries : G[<<z, n>>] = Followed(z)
    BY <1>3
  <2> HIDE DEF G
  <2>2. PICK f : IsIteration(f, FatEntries, S, b, G)
    BY <1>1, <1>2, <2>1, IterationExists
  <2>3. f \in [0 .. FatEntries -> S] /\ f[0] = b
        /\ \A n \in 1 .. FatEntries : f[n] = G[<<f[n - 1], n>>]
    BY <2>2 DEF IsIteration
  <2>4. \A n \in 1 .. FatEntries : f[n - 1] \in S
    BY <1>1, <2>3
  <2>5. \A n \in 1 .. FatEntries : f[n] = Followed(f[n - 1])
    BY <2>1, <2>3, <2>4
  <2>6. Is(f)
    BY <1>1, <2>3, <2>5
  <2> HIDE DEF Is
  <2>7. QED
    BY <2>6
<1>6. Walk(link, start) = w[FatEntries]
  BY DEF Walk, Followed, b
<1> HIDE DEF w
<1>7. w[0] = b /\ \A n \in 1 .. FatEntries : w[n] = Followed(w[n - 1])
  BY <1>1, <1>5
<1>8. IsWalk(w, link, start)
  BY <1>4, <1>7 DEF IsWalk, b
<1>9. QED
  BY <1>6, <1>8

LEMMA SeqWithin ==
  ASSUME NEW S, NEW T, S \subseteq T, NEW z \in Seq(S)
  PROVE  z \in Seq(T)
<1>1. Len(z) \in Nat /\ z \in [1 .. Len(z) -> T]
  OBVIOUS
<1>2. QED
  BY <1>1

\* A sequence of clusters without repetition is no longer than the table.
LEMMA NoLongerThanTable ==
  ASSUME NEW z \in Seq(Number), \A i, j \in 1 .. Len(z) : z[i] = z[j] => i = j
  PROVE  Len(z) <= FatEntries
<1> DEFINE D == 1 .. Len(z)
<1>1. Len(z) \in Nat /\ z \in [D -> Number] /\ FatEntries \in Nat
  BY Sizes
<1>2. z \in Injection(D, Number)
  BY <1>1 DEF Injection, IsInjective
<1>3. IsFiniteSet(Number) /\ Cardinality(Number) = FatEntries
  BY <1>1, FS_Interval, Sizes DEF Number
<1>4. Cardinality(D) = Len(z)
  BY <1>1, FS_Interval
<1>5. Cardinality(D) <= Cardinality(Number)
  BY <1>2, <1>3, FS_Injection
<1>6. QED
  BY <1>3, <1>4, <1>5

LEMMA NoWalk ==
  ASSUME NEW link \in Table
  PROVE  Walk(link, 0) = << >>
<1>1. PICK w : IsWalk(w, link, 0) /\ Walk(link, 0) = w[FatEntries]
  BY WalkTurns, Numbers
<1>2. w[0] = << >>
  BY <1>1 DEF IsWalk, IsCluster
<1>3. \A n \in 1 .. FatEntries : w[n - 1] \in {<< >>} => w[n] \in {<< >>}
  BY <1>1 DEF IsWalk, WalkOn
<1> DEFINE S == {<< >>}
<1>4. FatEntries \in Nat /\ w[0] \in S /\ \A n \in 1 .. FatEntries : w[n - 1] \in S => w[n] \in S
  BY <1>2, <1>3, Sizes
<1> HIDE DEF S
<1>5. w[FatEntries] \in S
  BY <1>4, StaysIn
<1>6. QED
  BY <1>1, <1>5 DEF S

LEMMA NoChain ==
  ASSUME NEW fat \in Table
  PROVE  Chain(fat, 0) = << >>
BY LinksOK, NoWalk DEF Chain

\* Along the clusters in use the code follows the table itself.
LEMMA NextIsLink ==
  ASSUME NEW fat, TableOK(fat), NEW c \in OnDisk, fat[c] # 0
  PROVE  /\ fat32_get_next_cluster(fat, c) = fat[c]
         /\ fat[c] = FAT32_END_CLUSTER \/ fat[c] \in OnDisk
<1>1. c \in Number
  BY Numbers
<1>2. fat[c] = FAT32_END_CLUSTER \/ fat[c] \in OnDisk
  BY <1>1 DEF TableOK
<1>3. fat[c] \in OnDisk => c < total_clusters
  BY <1>1 DEF TableOK, Linked
<1>4. c \in Nat /\ total_clusters \in Nat
  BY <1>1, Numbers, TotalClusters
<1>5. fat32_get_next_cluster(fat, c) = fat[c]
  BY <1>2, <1>3, <1>4 DEF fat32_get_next_cluster
<1>6. QED
  BY <1>2, <1>5

LEMMA ClustersOnDisk ==
  /\ \A c \in OnDisk : IsCluster(c) /\ c \in Number /\ c \in ClusterNumber /\ c # 0
  /\ ~IsCluster(FAT32_END_CLUSTER) /\ FAT32_END_CLUSTER \notin OnDisk /\ 0 \notin OnDisk
  /\ FAT32_END_CLUSTER # 0
BY Sizes DEF OnDisk, IsCluster, ClusterNumber, Number

\* The code's walk finds the whole chain.
LEMMA WalkUnique ==
  ASSUME NEW fat \in Table, NEW z, IsChain(fat, z)
  PROVE  Walk(fat, z[1]) = z
<1> DEFINE Short(n) == IF n < Len(z) THEN n ELSE Len(z)
           Part(n) == SubSeq(z, 1, Short(n + 1))
<1>1. fat \in Table /\ z \in Seq(OnDisk) /\ Len(z) \in Nat \ {0} /\ z[1] \in OnDisk /\ z[1] \in Number
  <2>1. fat \in Table /\ z \in Seq(OnDisk) /\ z # << >>
    BY DEF IsChain
  <2>2. Len(z) \in Nat \ {0}
    BY <2>1
  <2>3. z[1] \in OnDisk
    BY <2>1, <2>2
  <2>4. QED
    BY <2>1, <2>2, <2>3, Numbers
<1>2. z \in Seq(Number) /\ Len(z) <= FatEntries /\ FatEntries \in Nat
  <2>1. z \in Seq(Number)
    BY <1>1, Numbers, SeqWithin
  <2>2. QED
    BY <2>1, NoLongerThanTable, Sizes DEF IsChain
<1>3. \A i \in 1 .. Len(z) : z[i] \in OnDisk
  BY <1>1
<1>4. PICK w : IsWalk(w, fat, z[1]) /\ Walk(fat, z[1]) = w[FatEntries]
  BY <1>1, WalkTurns
<1>5. ASSUME NEW n \in 0 .. FatEntries
      PROVE  /\ Part(n) \in Seq(OnDisk) /\ Part(n) # << >>
             /\ Len(Part(n)) = Short(n + 1) /\ Short(n + 1) \in 1 .. Len(z)
             /\ \A i \in 1 .. Short(n + 1) : Part(n)[i] = z[i]
             /\ Last(Part(n)) = z[Short(n + 1)]
  <2>1. Short(n + 1) \in 1 .. Len(z)
    BY <1>1
  <2> DEFINE m == Short(n + 1)
  <2> HIDE DEF m
  <2>2. m \in 1 .. Len(z)
    BY <2>1 DEF m
  <2>3. SubSeq(z, 1, m) \in Seq(OnDisk) /\ Len(SubSeq(z, 1, m)) = m /\ \A i \in 1 .. m : SubSeq(z, 1, m)[i] = z[i]
    BY <2>2, <1>1, SubSeqElements
  <2>4. SubSeq(z, 1, m) # << >> /\ Last(SubSeq(z, 1, m)) = z[m]
    BY <2>2, <2>3 DEF Last
  <2>5. QED
    BY <2>2, <2>3, <2>4 DEF m
<1>6. w[0] = Part(0)
  <2>1. w[0] = <<z[1]>>
    BY <1>1, <1>4, ClustersOnDisk DEF IsWalk
  <2>2. Short(1) = 1 /\ 0 + 1 = 1
    <3>1. \A n \in Nat \ {0} : (IF 1 < n THEN 1 ELSE n) = 1
      OBVIOUS
    <3>2. QED
      BY <1>1, <3>1
  <2>3. Part(0) \in Seq(OnDisk) /\ Len(Part(0)) = 1 /\ Part(0)[1] = z[1]
    BY <1>2, <1>5, <2>2
  <2>4. QED
    BY <2>1, <2>3, <1>1
<1>7. ASSUME NEW n \in 1 .. FatEntries, w[n - 1] = Part(n - 1) PROVE w[n] = Part(n)
  <2> DEFINE m == Short(n)
             p == Part(n - 1)
             next == fat[Last(p)]
  <2>1. n - 1 \in 0 .. FatEntries /\ n \in 0 .. FatEntries /\ n - 1 + 1 = n
    BY <1>2
  <2>2. p \in Seq(OnDisk) /\ p # << >> /\ Len(p) = m /\ m \in 1 .. Len(z)
        /\ (\A i \in 1 .. m : p[i] = z[i]) /\ Last(p) = z[m]
    BY <2>1, <1>5
  <2>3. w[n] = WalkOn(fat, p)
    BY <1>4, <1>7 DEF IsWalk
  <2>4. next = fat[z[m]]
    BY <2>2
  <2> HIDE DEF next
  <2>5. CASE m = Len(z)
    <3>1. ~IsCluster(next)
      BY <2>4, <2>5, ClustersOnDisk DEF IsChain
    <3>2. WalkOn(fat, p) = p
      BY <3>1 DEF WalkOn, next
    <3>3. Short(n + 1) = m
      BY <2>5, <1>1, <2>1
    <3>4. Part(n) = p
      BY <3>3, <2>1
    <3>5. QED
      BY <2>3, <3>2, <3>4
  <2>6. CASE m # Len(z)
    <3>1. m = n /\ m + 1 \in 1 .. Len(z) /\ m \in 1 .. Len(z) - 1 /\ Short(n + 1) = m + 1
      BY <2>6, <2>2, <1>1, <2>1
    <3>2. next = z[m + 1]
      BY <2>4, <3>1 DEF IsChain
    <3>3. IsCluster(next) /\ next \in OnDisk
      BY <3>1, <3>2, <1>1, ClustersOnDisk
    <3>4. ~\E i \in DOMAIN p : p[i] = next
      <4>1. DOMAIN p = 1 .. m
        BY <2>2
      <4>2. ASSUME NEW i \in 1 .. m, p[i] = next PROVE FALSE
        <5>1. z[i] = z[m + 1] /\ i \in 1 .. Len(z) /\ m + 1 \in 1 .. Len(z)
          BY <4>2, <2>2, <3>1, <3>2
        <5>2. i = m + 1
          BY <5>1 DEF IsChain
        <5>3. QED
          BY <5>2, <2>2
      <4>3. QED
        BY <4>1, <4>2
    <3>5. WalkOn(fat, p) = Append(p, next)
      BY <2>2, <3>3, <3>4 DEF WalkOn, next
    <3>6. Append(p, next) \in Seq(OnDisk) /\ Len(Append(p, next)) = m + 1
          /\ (\A i \in 1 .. m : Append(p, next)[i] = p[i]) /\ Append(p, next)[m + 1] = next
      BY <2>2, <3>3, AppendElements
    <3>7. Part(n) \in Seq(OnDisk) /\ Len(Part(n)) = m + 1 /\ \A i \in 1 .. m + 1 : Part(n)[i] = z[i]
      BY <2>1, <1>5, <3>1
    <3> DEFINE x == Append(p, next)
               y == Part(n)
    <3> HIDE DEF x, y, p
    <3>8. x \in Seq(OnDisk) /\ y \in Seq(OnDisk) /\ Len(x) = Len(y)
      BY <3>6, <3>7 DEF x, y
    <3>9. \A i \in 1 .. Len(x) : x[i] = y[i]
      BY <3>2, <3>6, <3>7, <2>2 DEF x, y
    <3>10. x = y
      BY <3>8, <3>9, SeqEqual
    <3>11. QED
      BY <2>3, <3>5, <3>10 DEF x, y
  <2>7. QED
    BY <2>5, <2>6
<1> HIDE DEF Part
<1>8. \A n \in 0 .. FatEntries : w[n] = Part(n)
  <2> DEFINE S == {n \in 0 .. FatEntries : w[n] = Part(n)}
  <2>1. 0 \in S
    BY <1>6, <1>2
  <2>2. \A n \in 1 .. FatEntries : n - 1 \in S => n \in S
    BY <1>7, <1>2
  <2> HIDE DEF S
  <2>3. \A n \in 0 .. FatEntries : n \in S
    BY <2>1, <2>2, <1>2, Induction
  <2>4. QED
    BY <2>3 DEF S
<1>9. Part(FatEntries) = z
  <2>1. FatEntries \in 0 .. FatEntries /\ Short(FatEntries + 1) = Len(z)
    BY <1>1, <1>2
  <2>2. Part(FatEntries) \in Seq(OnDisk) /\ Len(Part(FatEntries)) = Len(z)
        /\ \A i \in 1 .. Len(z) : Part(FatEntries)[i] = z[i]
    BY <2>1, <1>5
  <2>3. QED
    BY <2>2, <1>1, SeqEqual
<1>10. QED
  BY <1>2, <1>4, <1>8, <1>9

LEMMA ChainUnique ==
  ASSUME NEW fat, TableOK(fat), NEW z, IsChain(fat, z)
  PROVE  Chain(fat, z[1]) = z /\ Walk(fat, z[1]) = z
<1>1. fat \in Table /\ z \in Seq(OnDisk) /\ Len(z) \in Nat \ {0}
  <2>1. fat \in Table /\ z \in Seq(OnDisk) /\ z # << >>
    BY DEF TableOK, IsChain
  <2>2. QED
    BY <2>1
<1>2. ASSUME NEW i \in 1 .. Len(z) PROVE Links(fat)[z[i]] = fat[z[i]]
  <2>1. z[i] \in OnDisk /\ z[i] \in Number
    BY <1>1, ClustersOnDisk
  <2>2. fat[z[i]] # 0
    <3>1. CASE i = Len(z)
      BY <3>1, ClustersOnDisk DEF IsChain
    <3>2. CASE i # Len(z)
      <4>1. i \in 1 .. Len(z) - 1 /\ i + 1 \in 1 .. Len(z)
        BY <3>2, <1>1
      <4>2. fat[z[i]] = z[i + 1] /\ z[i + 1] \in OnDisk
        BY <4>1, <1>1 DEF IsChain
      <4>3. QED
        BY <4>2, ClustersOnDisk
    <3>3. QED
      BY <3>1, <3>2
  <2>3. QED
    BY <2>1, <2>2, <1>1, LinksOK, NextIsLink
<1>3. IsChain(Links(fat), z)
  <2>1. Len(z) \in 1 .. Len(z) /\ \A i \in 1 .. Len(z) - 1 : i \in 1 .. Len(z)
    BY <1>1
  <2>2. QED
    BY <2>1, <1>2 DEF IsChain
<1>4. QED
  BY <1>1, <1>3, LinksOK, WalkUnique DEF Chain

\* Where a chain can begin there is one, and it has an end.
LEMMA ChainFrom ==
  ASSUME NEW fat, TableOK(fat), NEW h, Begins(fat, h)
  PROVE  IsChain(fat, Chain(fat, h)) /\ Chain(fat, h)[1] = h /\ Walk(fat, h) = Chain(fat, h)
<1> DEFINE Part(z) ==
               /\ z \in Seq(OnDisk) /\ z # << >> /\ z[1] = h
               /\ \A i, j \in 1 .. Len(z) : z[i] = z[j] => i = j
               /\ \A i \in 1 .. Len(z) - 1 : fat[z[i]] = z[i + 1]
               /\ fat[z[Len(z)]] # 0
           S(n) == {z \in Seq(OnDisk) : Part(z) /\ (fat[z[Len(z)]] = FAT32_END_CLUSTER \/ Len(z) > n)}
<1>1. fat \in Table /\ h \in OnDisk /\ h \in Number /\ IsCluster(h)
  BY ClustersOnDisk DEF TableOK, Begins
<1>2. PICK w : IsWalk(w, fat, h) /\ Walk(fat, h) = w[FatEntries]
  BY <1>1, WalkTurns
<1>3. w[0] \in S(0)
  <2>1. w[0] = <<h>>
    BY <1>1, <1>2 DEF IsWalk
  <2>2. <<h>> \in Seq(OnDisk) /\ Len(<<h>>) = 1 /\ <<h>>[1] = h /\ <<h>> # << >>
    BY <1>1
  <2>3. fat[h] # 0
    BY DEF Begins
  <2>4. QED
    BY <2>1, <2>2, <2>3
<1>4. ASSUME NEW n \in 1 .. FatEntries, w[n - 1] \in S(n - 1) PROVE w[n] \in S(n)
  <2> DEFINE z == w[n - 1]
             L == Len(z)
             next == fat[Last(z)]
  <2>1. w[n] = WalkOn(fat, z)
    BY <1>2 DEF IsWalk
  <2>2. Part(z) /\ (fat[z[L]] = FAT32_END_CLUSTER \/ L > n - 1)
    BY <1>4
  <2> HIDE DEF z
  <2>3. z \in Seq(OnDisk) /\ L \in Nat \ {0} /\ z # << >>
    BY <2>2
  <2>4. z[L] \in OnDisk /\ fat[z[L]] # 0 /\ Last(z) = z[L]
    BY <2>2, <2>3 DEF Last
  <2>5. next = fat[z[L]] /\ (next = FAT32_END_CLUSTER \/ next \in OnDisk)
    BY <2>4, NextIsLink
  <2> HIDE DEF next
  <2>6. CASE next = FAT32_END_CLUSTER
    <3>1. WalkOn(fat, z) = z
      BY <2>6, ClustersOnDisk DEF WalkOn, next
    <3>2. QED
      BY <2>1, <2>2, <2>3, <2>5, <2>6, <3>1
  <2>7. CASE next \in OnDisk
    <3>1. L > n - 1
      BY <2>2, <2>5, <2>7, ClustersOnDisk
    <3>2. fat[z[L]] = next /\ z[L] \in Number /\ Linked(fat, z[L])
      BY <2>4, <2>5, <2>7, ClustersOnDisk DEF Linked
    <3>3. ASSUME NEW i \in 1 .. L, z[i] = next PROVE FALSE
      <4>1. CASE i = 1
        <5>1. fat[z[L]] = h
          BY <4>1, <3>3, <3>2, <2>2
        <5>2. QED
          BY <5>1, <3>2 DEF Begins
      <4>2. CASE i # 1
        <5>1. i - 1 \in 1 .. L - 1 /\ i - 1 \in 1 .. L /\ L \in 1 .. L /\ i - 1 + 1 = i
          BY <4>2, <2>3
        <5>2. fat[z[i - 1]] = z[i]
          BY <5>1, <2>2
        <5>3. z[i - 1] \in Number
          BY <5>1, <2>3, ClustersOnDisk
        <5>4. z[i - 1] = z[L]
          BY <5>2, <5>3, <3>2, <3>3 DEF TableOK
        <5>5. i - 1 = L
          BY <5>1, <5>4, <2>2
        <5>6. QED
          BY <5>1, <5>5
      <4>3. QED
        BY <4>1, <4>2
    <3>4. WalkOn(fat, z) = Append(z, next)
      <4>1. DOMAIN z = 1 .. L
        BY <2>3
      <4>2. QED
        BY <4>1, <3>3, <2>3, <2>7, ClustersOnDisk DEF WalkOn, next
    <3> DEFINE y == Append(z, next)
    <3>5. y \in Seq(OnDisk) /\ Len(y) = L + 1 /\ (\A i \in 1 .. L : y[i] = z[i]) /\ y[L + 1] = next
      BY <2>3, <2>7, AppendElements
    <3> HIDE DEF y
    <3>6. y # << >> /\ y[1] = h
      BY <3>5, <2>2, <2>3
    <3>7. ASSUME NEW i \in 1 .. Len(y), NEW j \in 1 .. Len(y), y[i] = y[j] PROVE i = j
      <4>1. CASE i \in 1 .. L /\ j \in 1 .. L
        BY <4>1, <3>5, <3>7, <2>2
      <4>2. CASE i = L + 1 /\ j = L + 1
        BY <4>2
      <4>3. CASE i = L + 1 /\ j \in 1 .. L
        <5>1. z[j] = next
          BY <4>3, <3>5, <3>7
        <5>2. QED
          BY <4>3, <5>1, <3>3
      <4>4. CASE j = L + 1 /\ i \in 1 .. L
        <5>1. z[i] = next
          BY <4>4, <3>5, <3>7
        <5>2. QED
          BY <4>4, <5>1, <3>3
      <4>5. QED
        BY <4>1, <4>2, <4>3, <4>4, <3>5, <2>3
    <3>8. ASSUME NEW i \in 1 .. Len(y) - 1 PROVE fat[y[i]] = y[i + 1]
      <4>1. CASE i = L
        BY <4>1, <3>5, <3>2, <2>3
      <4>2. CASE i # L
        <5>1. i \in 1 .. L - 1 /\ i \in 1 .. L /\ i + 1 \in 1 .. L
          BY <4>2, <3>5, <2>3
        <5>2. QED
          BY <5>1, <3>5, <2>2
      <4>3. QED
        BY <4>1, <4>2
    <3>9. fat[y[Len(y)]] # 0
      <4>1. fat[next] # 0
        BY <3>2 DEF TableOK
      <4>2. QED
        BY <4>1, <3>5
    <3>10. Len(y) > n
      BY <3>1, <3>5, <2>3
    <3>11. y \in S(n)
      BY <3>5, <3>6, <3>7, <3>8, <3>9, <3>10
    <3>12. QED
      BY <2>1, <3>4, <3>11 DEF y
  <2>8. QED
    BY <2>5, <2>6, <2>7
<1> HIDE DEF S
<1>5. \A n \in 0 .. FatEntries : w[n] \in S(n)
  <2> DEFINE N == {n \in 0 .. FatEntries : w[n] \in S(n)}
  <2>1. 0 \in N /\ FatEntries \in Nat
    BY <1>3, Sizes
  <2>2. \A n \in 1 .. FatEntries : n - 1 \in N => n \in N
    BY <1>4, Sizes
  <2> HIDE DEF N
  <2>3. \A n \in 0 .. FatEntries : n \in N
    BY <2>1, <2>2, Induction
  <2>4. QED
    BY <2>3 DEF N
<1> DEFINE z == w[FatEntries]
<1>6. Part(z) /\ (fat[z[Len(z)]] = FAT32_END_CLUSTER \/ Len(z) > FatEntries)
  <2>1. FatEntries \in 0 .. FatEntries
    BY Sizes
  <2>2. QED
    BY <2>1, <1>5 DEF S
<1> HIDE DEF z
<1>7. fat[z[Len(z)]] = FAT32_END_CLUSTER
  <2>1. z \in Seq(Number)
    BY <1>6, Numbers, SeqWithin
  <2>2. Len(z) <= FatEntries
    BY <2>1, <1>6, NoLongerThanTable
  <2>3. Len(z) \in Nat /\ FatEntries \in Nat
    BY <2>1, Sizes
  <2>4. QED
    BY <2>2, <2>3, <1>6
<1>8. IsChain(fat, z) /\ z[1] = h
  BY <1>6, <1>7 DEF IsChain
<1>9. Chain(fat, h) = z /\ Walk(fat, h) = z
  BY <1>8, ChainUnique
<1>10. QED
  BY <1>8, <1>9

\* Facts about the elements of a chain.
LEMMA ChainElements ==
  ASSUME NEW fat, TableOK(fat), NEW z, IsChain(fat, z)
  PROVE  /\ Len(z) \in Nat \ {0} /\ DOMAIN z = 1 .. Len(z) /\ Last(z) = z[Len(z)]
         /\ \A i \in 1 .. Len(z) : z[i] \in OnDisk /\ z[i] \in Number /\ fat[z[i]] # 0
         /\ \A c : c \in ClustersOf(z) <=> \E i \in 1 .. Len(z) : z[i] = c
         /\ \A c \in ClustersOf(z) : c \in OnDisk /\ c \in Number /\ fat[c] # 0
         /\ \A i \in 1 .. Len(z) : fat[z[i]] = FAT32_END_CLUSTER => i = Len(z)
<1>0. z \in Seq(OnDisk) /\ z # << >>
  BY DEF IsChain
<1>1. z \in Seq(OnDisk) /\ Len(z) \in Nat \ {0}
  BY <1>0
<1>5. DOMAIN z = 1 .. Len(z) /\ Last(z) = z[Len(z)]
  BY <1>0 DEF Last
<1>2. ASSUME NEW i \in 1 .. Len(z)
      PROVE  /\ z[i] \in OnDisk /\ z[i] \in Number /\ fat[z[i]] # 0
             /\ fat[z[i]] = FAT32_END_CLUSTER => i = Len(z)
  <2>1. z[i] \in OnDisk /\ z[i] \in Number
    BY <1>1, ClustersOnDisk
  <2>2. CASE i = Len(z)
    BY <2>1, <2>2, ClustersOnDisk DEF IsChain
  <2>3. CASE i # Len(z)
    <3>1. i \in 1 .. Len(z) - 1 /\ i + 1 \in 1 .. Len(z)
      BY <2>3, <1>1
    <3>2. fat[z[i]] = z[i + 1] /\ z[i + 1] \in OnDisk
      BY <3>1, <1>1 DEF IsChain
    <3>3. QED
      BY <2>1, <3>2, ClustersOnDisk
  <2>4. QED
    BY <2>2, <2>3
<1>3. \A c : c \in ClustersOf(z) <=> \E i \in 1 .. Len(z) : z[i] = c
  BY <1>5 DEF ClustersOf
<1>4. \A c \in ClustersOf(z) : c \in OnDisk /\ c \in Number /\ fat[c] # 0
  BY <1>2, <1>3
<1>6. QED
  BY <1>1, <1>2, <1>3, <1>4, <1>5

\* Chains that begin at different clusters have no cluster in common.
LEMMA ChainsDisjoint ==
  ASSUME NEW fat, TableOK(fat), NEW g, Begins(fat, g), NEW h, Begins(fat, h), g # h
  PROVE  ClustersOf(Chain(fat, g)) \cap ClustersOf(Chain(fat, h)) = {}
<1> DEFINE y == Chain(fat, g)
           z == Chain(fat, h)
<1>1. IsChain(fat, y) /\ y[1] = g /\ IsChain(fat, z) /\ z[1] = h
  BY ChainFrom
<1> HIDE DEF y, z
<1>2. /\ Len(y) \in Nat \ {0} /\ Len(z) \in Nat \ {0}
      /\ \A i \in 1 .. Len(y) : y[i] \in Number /\ y[i] \in OnDisk
      /\ \A i \in 1 .. Len(z) : z[i] \in Number /\ z[i] \in OnDisk
      /\ \A i \in 1 .. Len(y) - 1 : fat[y[i]] = y[i + 1]
      /\ \A i \in 1 .. Len(z) - 1 : fat[z[i]] = z[i + 1]
  BY <1>1, ChainElements DEF IsChain
<1> DEFINE S == {n \in 0 .. Len(y) - 1 : \A j \in 1 .. Len(z) : y[n + 1] # z[j]}
<1>3. 0 \in S
  <2>1. ASSUME NEW j \in 1 .. Len(z), z[j] = g PROVE FALSE
    <3>1. CASE j = 1
      BY <3>1, <2>1, <1>1
    <3>2. CASE j # 1
      <4>1. j - 1 \in 1 .. Len(z) - 1 /\ j - 1 \in 1 .. Len(z) /\ j - 1 + 1 = j
        BY <3>2, <1>2
      <4>2. fat[z[j - 1]] = g /\ z[j - 1] \in Number
        BY <4>1, <1>2, <2>1
      <4>3. QED
        BY <4>2 DEF Begins
    <3>3. QED
      BY <3>1, <3>2
  <2>2. QED
    BY <2>1, <1>1, <1>2
<1>4. ASSUME NEW n \in 1 .. Len(y) - 1, n - 1 \in S PROVE n \in S
  <2>1. n \in 1 .. Len(y) /\ n + 1 \in 1 .. Len(y) /\ n - 1 + 1 = n
    BY <1>2
  <2>2. fat[y[n]] = y[n + 1] /\ y[n] \in Number /\ y[n + 1] \in OnDisk
    BY <2>1, <1>2
  <2>3. ASSUME NEW j \in 1 .. Len(z), y[n + 1] = z[j] PROVE FALSE
    <3>1. CASE j = 1
      <4>1. fat[y[n]] = h
        BY <3>1, <2>2, <2>3, <1>1
      <4>2. QED
        BY <4>1, <2>2 DEF Begins
    <3>2. CASE j # 1
      <4>1. j - 1 \in 1 .. Len(z) - 1 /\ j - 1 \in 1 .. Len(z) /\ j - 1 + 1 = j
        BY <3>2, <1>2
      <4>2. fat[z[j - 1]] = fat[y[n]] /\ z[j - 1] \in Number
        BY <4>1, <1>2, <2>2, <2>3
      <4>3. y[n] = z[j - 1]
        BY <4>2, <2>2 DEF TableOK, Linked
      <4>4. QED
        BY <4>1, <4>3, <2>1, <1>4
    <3>3. QED
      BY <3>1, <3>2
  <2>4. QED
    BY <2>3, <1>2
<1>5. \A n \in 0 .. Len(y) - 1 : n \in S
  <2>1. Len(y) - 1 \in Nat
    BY <1>2
  <2> HIDE DEF S
  <2>2. QED
    BY <2>1, <1>3, <1>4, Induction
<1>6. ASSUME NEW c, c \in ClustersOf(y), c \in ClustersOf(z) PROVE FALSE
  <2>1. PICK i \in 1 .. Len(y) : y[i] = c
    BY <1>1, <1>6, ChainElements
  <2>2. PICK j \in 1 .. Len(z) : z[j] = c
    BY <1>1, <1>6, ChainElements
  <2>3. i - 1 \in 0 .. Len(y) - 1 /\ i - 1 + 1 = i
    BY <1>2
  <2>4. QED
    BY <2>1, <2>2, <2>3, <1>5
<1>7. QED
  BY <1>6 DEF y, z

\* A chain depends on the entries of its own clusters only.
LEMMA ChainFrame ==
  ASSUME NEW fat, TableOK(fat), NEW h, Begins(fat, h), NEW g, TableOK(g),
         \A c \in ClustersOf(Chain(fat, h)) : g[c] = fat[c]
  PROVE  Chain(g, h) = Chain(fat, h)
<1> DEFINE z == Chain(fat, h)
<1>1. IsChain(fat, z) /\ z[1] = h
  BY ChainFrom
<1> HIDE DEF z
<1>2. Len(z) \in Nat \ {0} /\ \A i \in 1 .. Len(z) : g[z[i]] = fat[z[i]]
  BY <1>1, ChainElements DEF z
<1>3. IsChain(g, z)
  <2>1. Len(z) \in 1 .. Len(z) /\ \A i \in 1 .. Len(z) - 1 : i \in 1 .. Len(z)
    BY <1>2
  <2>2. QED
    BY <1>1, <1>2, <2>1 DEF IsChain
<1>4. QED
  BY <1>1, <1>3, ChainUnique DEF z

-----------------------------------------------------------------------------
(* Changes of the table                                                    *)

\* The table when c is taken and linked from p, if p is a cluster.
Given(fat, p, c) ==
    [n \in Number |-> IF n = p /\ IsCluster(n) THEN c
                      ELSE IF n = c THEN FAT32_END_CLUSTER ELSE fat[n]]

\* c is free, and p no cluster or the last one of a chain.
CanGive(fat, p, c) ==
    /\ c \in OnDisk /\ c < total_clusters /\ fat[c] = 0 /\ fat[2] # 0
    /\ IsCluster(p) => p \in OnDisk /\ fat[p] = FAT32_END_CLUSTER

\* The table without the chain that begins at h.
Without(fat, h) ==
    [n \in Number |-> IF n \in ClustersOf(Walk(fat, h)) THEN 0 ELSE fat[n]]

LEMMA GivenEntries ==
  ASSUME NEW fat, TableOK(fat), NEW p, NEW c, CanGive(fat, p, c)
  PROVE  LET g == Given(fat, p, c)
         IN  /\ g \in Table /\ g[c] = FAT32_END_CLUSTER /\ c \in Number
             /\ \A n \in Number : IF n = p /\ IsCluster(n) THEN g[n] = c
                                  ELSE IF n = c THEN g[n] = FAT32_END_CLUSTER ELSE g[n] = fat[n]
             /\ \A n \in Number : fat[n] # 0 => g[n] # 0
             /\ \A n \in Number : g[n] = c => n = p
             /\ \A n \in Number : fat[n] # c
<1>1. fat \in Table /\ c \in Number /\ c \in Link /\ FAT32_END_CLUSTER \in Link /\ c # 0
      /\ FAT32_END_CLUSTER # 0 /\ c # FAT32_END_CLUSTER
  BY Numbers, ClustersOnDisk DEF TableOK, CanGive
<1>2. Given(fat, p, c) \in Table
  BY <1>1 DEF Given, Table
<1>3. IsCluster(p) => p # c
  BY <1>1 DEF CanGive
<1>4. \A n \in Number : fat[n] # c
  BY DEF TableOK, CanGive, Linked
<1>5. QED
  BY <1>1, <1>2, <1>3, <1>4 DEF Given

LEMMA GivenTable ==
  ASSUME NEW fat, TableOK(fat), NEW p, NEW c, CanGive(fat, p, c)
  PROVE  TableOK(Given(fat, p, c))
<1> DEFINE g == Given(fat, p, c)
<1>1. /\ g \in Table /\ g[c] = FAT32_END_CLUSTER /\ c \in Number
      /\ \A n \in Number : IF n = p /\ IsCluster(n) THEN g[n] = c
                           ELSE IF n = c THEN g[n] = FAT32_END_CLUSTER ELSE g[n] = fat[n]
      /\ \A n \in Number : fat[n] # 0 => g[n] # 0
      /\ \A n \in Number : g[n] = c => n = p
      /\ \A n \in Number : fat[n] # c
  BY GivenEntries
<1> HIDE DEF g
<1>2. c \in OnDisk /\ c < total_clusters /\ fat[c] = 0 /\ fat[2] # 0
      /\ (IsCluster(p) => p \in OnDisk /\ fat[p] = FAT32_END_CLUSTER)
  BY DEF CanGive
<1>3. c \in Nat /\ total_clusters \in Nat /\ c >= 2 /\ c # 2
  BY <1>2, TotalClusters, Sizes DEF OnDisk
<1>4. ASSUME IsCluster(p) PROVE p \in OnDisk /\ p \in Number /\ p < total_clusters /\ p # c
  <2>1. p \in OnDisk /\ p \in Number /\ p \in Nat /\ p >= 2 /\ fat[p] # 0 /\ p # c
    BY <1>2, <1>4, ClustersOnDisk, Sizes DEF OnDisk
  <2>2. p < total_clusters \/ p <= 3
    BY <2>1 DEF TableOK
  <2>3. QED
    BY <2>1, <2>2, <1>2, <1>3
<1>5. \A n \in Number : g[n] \in {0, FAT32_END_CLUSTER} \cup OnDisk
  <2>1. ASSUME NEW n \in Number PROVE g[n] \in {0, FAT32_END_CLUSTER} \cup OnDisk
    <3>1. fat[n] \in {0, FAT32_END_CLUSTER} \cup OnDisk
      BY DEF TableOK
    <3>2. QED
      BY <3>1, <1>1, <1>2
  <2>2. QED
    BY <2>1
<1>6. ASSUME NEW n \in Number, n >= 2, g[n] # 0
      PROVE  n \in OnDisk /\ (n < total_clusters \/ n <= 3)
  <2>1. CASE n = c
    BY <2>1, <1>2
  <2>2. CASE n # c
    <3>1. fat[n] # 0
      BY <1>1, <1>2, <1>6, <2>2, ClustersOnDisk
    <3>2. QED
      BY <3>1, <1>6 DEF TableOK
  <2>3. QED
    BY <2>1, <2>2
<1>7. ASSUME NEW n \in Number, Linked(g, n)
      PROVE  n \in OnDisk /\ n < total_clusters /\ g[g[n]] # 0
  <2>1. CASE n = p /\ IsCluster(n)
    BY <2>1, <1>1, <1>4, ClustersOnDisk
  <2>2. CASE ~(n = p /\ IsCluster(n))
    <3>1. g[n] = fat[n] /\ g[n] \in OnDisk /\ g[n] \in Number
      BY <2>2, <1>1, <1>7, ClustersOnDisk DEF Linked
    <3>2. Linked(fat, n)
      BY <3>1 DEF Linked
    <3>3. n \in OnDisk /\ n < total_clusters /\ fat[fat[n]] # 0
      BY <3>2 DEF TableOK
    <3>4. QED
      BY <3>1, <3>3, <1>1
  <2>3. QED
    BY <2>1, <2>2
<1>8. ASSUME NEW a \in Number, NEW b \in Number, Linked(g, a), g[a] = g[b] PROVE a = b
  <2>1. CASE g[a] = c
    BY <2>1, <1>1, <1>8
  <2>2. CASE g[a] # c
    <3>1. g[a] = fat[a] /\ g[b] = fat[b] /\ Linked(fat, a)
      BY <2>2, <1>1, <1>8, ClustersOnDisk DEF Linked
    <3>2. QED
      BY <3>1, <1>8 DEF TableOK
  <2>3. QED
    BY <2>1, <2>2
<1>9. QED
  BY <1>1, <1>5, <1>6, <1>7, <1>8 DEF TableOK, g

\* The other chains stay, the chain of p grows, and c without p begins a chain.
LEMMA GivenChains ==
  ASSUME NEW fat, TableOK(fat), NEW p, NEW c, CanGive(fat, p, c)
  PROVE  LET g == Given(fat, p, c)
         IN  /\ ~IsCluster(p) => Begins(g, c) /\ Chain(g, c) = <<c>>
             /\ \A h : Begins(fat, h) =>
                  /\ Begins(g, h) /\ c \notin ClustersOf(Chain(fat, h)) /\ h # c
                  /\ IsCluster(p) /\ p \in ClustersOf(Chain(fat, h))
                         => Chain(g, h) = Append(Chain(fat, h), c)
                            /\ ClustersOf(Chain(g, h)) = ClustersOf(Chain(fat, h)) \cup {c}
                  /\ ~(IsCluster(p) /\ p \in ClustersOf(Chain(fat, h))) => Chain(g, h) = Chain(fat, h)
<1> DEFINE g == Given(fat, p, c)
<1>1. /\ g \in Table /\ g[c] = FAT32_END_CLUSTER /\ c \in Number
      /\ \A n \in Number : IF n = p /\ IsCluster(n) THEN g[n] = c
                           ELSE IF n = c THEN g[n] = FAT32_END_CLUSTER ELSE g[n] = fat[n]
      /\ \A n \in Number : fat[n] # 0 => g[n] # 0
      /\ \A n \in Number : g[n] = c => n = p
      /\ \A n \in Number : fat[n] # c
  BY GivenEntries
<1>2. TableOK(g)
  BY GivenTable
<1> HIDE DEF g
<1>3. c \in OnDisk /\ fat[c] = 0
      /\ (IsCluster(p) => p \in OnDisk /\ fat[p] = FAT32_END_CLUSTER)
  BY DEF CanGive
<1>4. ASSUME ~IsCluster(p) PROVE Begins(g, c) /\ Chain(g, c) = <<c>>
  <2>1. \A n \in Number : g[n] # c
    BY <1>1, <1>4, <1>3, ClustersOnDisk
  <2>2. Begins(g, c)
    BY <2>1, <1>1, <1>3, ClustersOnDisk DEF Begins
  <2> DEFINE z == <<c>>
  <2>3. z \in Seq(OnDisk) /\ Len(z) = 1 /\ z[1] = c /\ z # << >>
    BY <1>3
  <2> HIDE DEF z
  <2>4. IsChain(g, z)
    BY <2>3, <1>1 DEF IsChain
  <2>5. QED
    BY <2>2, <2>3, <2>4, <1>2, ChainUnique DEF z
<1>5. ASSUME NEW h, Begins(fat, h)
      PROVE  /\ Begins(g, h) /\ c \notin ClustersOf(Chain(fat, h)) /\ h # c
             /\ IsCluster(p) /\ p \in ClustersOf(Chain(fat, h))
                    => Chain(g, h) = Append(Chain(fat, h), c)
                       /\ ClustersOf(Chain(g, h)) = ClustersOf(Chain(fat, h)) \cup {c}
             /\ ~(IsCluster(p) /\ p \in ClustersOf(Chain(fat, h))) => Chain(g, h) = Chain(fat, h)
  <2> DEFINE z == Chain(fat, h)
             L == Len(z)
  <2>1. IsChain(fat, z) /\ z[1] = h
    BY <1>5, ChainFrom
  <2> HIDE DEF z
  <2>2. L \in Nat \ {0} /\ (\A i \in 1 .. L : z[i] \in OnDisk /\ z[i] \in Number /\ fat[z[i]] # 0)
        /\ \A i \in 1 .. L : fat[z[i]] = FAT32_END_CLUSTER => i = L
    BY <2>1, ChainElements
  <2>3. \A n : n \in ClustersOf(z) <=> \E i \in 1 .. L : z[i] = n
    BY <2>1, ChainElements
  <2>4. c \notin ClustersOf(z)
    BY <2>2, <2>3, <1>3
  <2>5. h # c /\ h \in OnDisk /\ h \in Number /\ fat[h] # 0
    BY <1>3, <1>5, ClustersOnDisk DEF Begins
  <2>6. Begins(g, h)
    <3>1. ASSUME NEW n \in Number, g[n] = h PROVE FALSE
      <4>1. g[n] # c /\ g[n] # FAT32_END_CLUSTER
        BY <3>1, <2>5, ClustersOnDisk
      <4>2. g[n] = fat[n]
        BY <4>1, <1>1
      <4>3. QED
        BY <3>1, <4>2, <1>5 DEF Begins
    <3>2. QED
      BY <3>1, <2>5, <1>1 DEF Begins
  <2>7. ASSUME ~(IsCluster(p) /\ p \in ClustersOf(z)) PROVE Chain(g, h) = z
    <3>1. ASSUME NEW n \in ClustersOf(z) PROVE g[n] = fat[n]
      <4>1. n \in Number /\ n # c /\ IsCluster(n)
        BY <3>1, <2>2, <2>3, <2>4, ClustersOnDisk
      <4>2. QED
        BY <4>1, <3>1, <2>7, <1>1
    <3>2. QED
      BY <3>1, <1>2, <1>5, ChainFrame DEF z
  <2>8. ASSUME IsCluster(p), p \in ClustersOf(z)
        PROVE  Chain(g, h) = Append(z, c) /\ ClustersOf(Chain(g, h)) = ClustersOf(z) \cup {c}
    <3> DEFINE y == Append(z, c)
    <3>0. z \in Seq(OnDisk) /\ \A i, j \in 1 .. L : z[i] = z[j] => i = j
      BY <2>1 DEF IsChain
    <3>1. y \in Seq(OnDisk) /\ Len(y) = L + 1 /\ (\A i \in 1 .. L : y[i] = z[i]) /\ y[L + 1] = c
      BY <3>0, <1>3, AppendElements
    <3> HIDE DEF y
    <3>2. z[L] = p /\ p \in Number
      <4>1. PICK i \in 1 .. L : z[i] = p
        BY <2>8, <2>3
      <4>2. QED
        BY <4>1, <2>2, <1>3, <2>8
    <3>3. ASSUME NEW i \in 1 .. L - 1 PROVE g[z[i]] = z[i + 1]
      <4>1. i \in 1 .. L /\ i # L /\ L \in 1 .. L
        BY <2>2
      <4>2. z[i] # p /\ z[i] # c /\ z[i] \in Number
        BY <4>1, <3>0, <3>2, <2>2, <2>3, <2>4
      <4>3. g[z[i]] = fat[z[i]]
        BY <4>2, <1>1
      <4>4. QED
        BY <4>3, <2>1 DEF IsChain
    <3>4. ASSUME NEW i \in 1 .. Len(y), NEW j \in 1 .. Len(y), y[i] = y[j] PROVE i = j
      <4>1. CASE i \in 1 .. L /\ j \in 1 .. L
        BY <4>1, <3>0, <3>1, <3>4
      <4>2. CASE i = L + 1 /\ j = L + 1
        BY <4>2
      <4>3. CASE i = L + 1 /\ j \in 1 .. L
        <5>1. z[j] = c
          BY <4>3, <3>1, <3>4
        <5>2. QED
          BY <4>3, <5>1, <2>3, <2>4
      <4>4. CASE j = L + 1 /\ i \in 1 .. L
        <5>1. z[i] = c
          BY <4>4, <3>1, <3>4
        <5>2. QED
          BY <4>4, <5>1, <2>3, <2>4
      <4>5. QED
        BY <4>1, <4>2, <4>3, <4>4, <3>1, <2>2
    <3>5. ASSUME NEW i \in 1 .. Len(y) - 1 PROVE g[y[i]] = y[i + 1]
      <4>1. CASE i = L
        BY <4>1, <3>1, <3>2, <2>2, <2>8, <1>1
      <4>2. CASE i # L
        <5>1. i \in 1 .. L - 1 /\ i \in 1 .. L /\ i + 1 \in 1 .. L
          BY <4>2, <3>1, <2>2
        <5>2. QED
          BY <5>1, <3>1, <3>3
      <4>3. QED
        BY <4>1, <4>2
    <3>6. y # << >> /\ y[1] = h /\ g[y[Len(y)]] = FAT32_END_CLUSTER
      BY <3>1, <2>1, <2>2, <1>1
    <3>7. IsChain(g, y)
      BY <3>1, <3>4, <3>5, <3>6 DEF IsChain
    <3>8. Chain(g, h) = y
      BY <3>6, <3>7, <1>2, ChainUnique
    <3>9. \A n : n \in ClustersOf(y) <=> \E i \in 1 .. L + 1 : y[i] = n
      BY <3>7, <3>1, <1>2, ChainElements
    <3>10. ASSUME NEW n PROVE n \in ClustersOf(y) <=> n \in ClustersOf(z) \/ n = c
      <4>1. ASSUME n \in ClustersOf(y) PROVE n \in ClustersOf(z) \/ n = c
        <5>1. PICK i \in 1 .. L + 1 : y[i] = n
          BY <4>1, <3>9
        <5>2. CASE i = L + 1
          BY <5>1, <5>2, <3>1
        <5>3. CASE i \in 1 .. L
          BY <5>1, <5>3, <3>1, <2>3
        <5>4. QED
          BY <5>2, <5>3, <2>2
      <4>2. ASSUME n \in ClustersOf(z) PROVE n \in ClustersOf(y)
        <5>1. PICK i \in 1 .. L : z[i] = n
          BY <4>2, <2>3
        <5>2. i \in 1 .. L + 1 /\ y[i] = n
          BY <5>1, <3>1, <2>2
        <5>3. QED
          BY <5>2, <3>9
      <4>3. c \in ClustersOf(y)
        <5>1. L + 1 \in 1 .. L + 1
          BY <2>2
        <5>2. QED
          BY <5>1, <3>1, <3>9
      <4>4. QED
        BY <4>1, <4>2, <4>3
    <3>11. QED
      BY <3>8, <3>10 DEF y
  <2>9. QED
    BY <2>4, <2>5, <2>6, <2>7, <2>8 DEF z
<1>6. QED
  BY <1>4, <1>5 DEF g

LEMMA WithoutChains ==
  ASSUME NEW fat, TableOK(fat), NEW h, Begins(fat, h)
  PROVE  LET g == Without(fat, h)
         IN  /\ TableOK(g) /\ g # fat /\ \A n \in Number : g[n] = fat[n] \/ g[n] = 0
             /\ \A x : Begins(fat, x) /\ x # h => Begins(g, x) /\ Chain(g, x) = Chain(fat, x)
<1> DEFINE g == Without(fat, h)
           z == Chain(fat, h)
           L == Len(z)
<1>1. IsChain(fat, z) /\ z[1] = h
  BY ChainFrom
<1> HIDE DEF z
<1>2. L \in Nat \ {0} /\ (\A i \in 1 .. L : z[i] \in OnDisk /\ z[i] \in Number /\ fat[z[i]] # 0)
      /\ \A n \in ClustersOf(z) : n \in OnDisk /\ n \in Number /\ fat[n] # 0
  BY <1>1, ChainElements
<1>3. \A n : n \in ClustersOf(z) <=> \E i \in 1 .. L : z[i] = n
  BY <1>1, ChainElements
<1>4. fat \in Table
  BY DEF TableOK
<1>5. g \in Table /\ \A n \in Number : g[n] = IF n \in ClustersOf(z) THEN 0 ELSE fat[n]
  BY <1>4, ChainFrom, Numbers DEF Without, Table, z
<1> HIDE DEF g
<1>6. ASSUME NEW n \in Number, Linked(fat, n), fat[n] \in ClustersOf(z) PROVE n \in ClustersOf(z)
  <2>1. PICK i \in 1 .. L : z[i] = fat[n]
    BY <1>3, <1>6
  <2>2. CASE i = 1
    BY <2>1, <2>2, <1>1 DEF Begins
  <2>3. CASE i # 1
    <3>1. i - 1 \in 1 .. L - 1 /\ i - 1 \in 1 .. L /\ i - 1 + 1 = i
      BY <2>3, <1>2
    <3>2. fat[z[i - 1]] = z[i] /\ z[i - 1] \in Number
      BY <3>1, <1>1, <1>2 DEF IsChain
    <3>3. n = z[i - 1]
      BY <3>2, <2>1, <1>6 DEF TableOK
    <3>4. QED
      BY <3>1, <3>3, <1>3
  <2>4. QED
    BY <2>2, <2>3
<1>7. TableOK(g)
  <2>1. \A n \in Number : g[n] \in {0, FAT32_END_CLUSTER} \cup OnDisk
    BY <1>5 DEF TableOK
  <2>2. ASSUME NEW n \in Number, n >= 2, g[n] # 0 PROVE n \in OnDisk /\ (n < total_clusters \/ n <= 3)
    <3>1. fat[n] # 0
      BY <2>2, <1>5
    <3>2. QED
      BY <2>2, <3>1 DEF TableOK
  <2>3. ASSUME NEW n \in Number, Linked(g, n) PROVE n \in OnDisk /\ n < total_clusters /\ g[g[n]] # 0
    <3>1. n \notin ClustersOf(z) /\ g[n] = fat[n] /\ Linked(fat, n) /\ g[n] \in Number
      BY <2>3, <1>5, ClustersOnDisk DEF Linked
    <3>2. n \in OnDisk /\ n < total_clusters /\ fat[fat[n]] # 0
      BY <3>1 DEF TableOK
    <3>3. fat[n] \notin ClustersOf(z)
      BY <3>1, <1>6
    <3>4. QED
      BY <3>1, <3>2, <3>3, <1>5
  <2>4. ASSUME NEW a \in Number, NEW b \in Number, Linked(g, a), g[a] = g[b] PROVE a = b
    <3>1. g[a] = fat[a] /\ g[b] = fat[b] /\ Linked(fat, a)
      BY <2>4, <1>5, ClustersOnDisk DEF Linked
    <3>2. QED
      BY <3>1, <2>4 DEF TableOK
  <2>5. QED
    BY <1>5, <2>1, <2>2, <2>3, <2>4 DEF TableOK
<1>8. ASSUME NEW x, Begins(fat, x), x # h PROVE Begins(g, x) /\ Chain(g, x) = Chain(fat, x)
  <2>1. ClustersOf(Chain(fat, x)) \cap ClustersOf(z) = {}
    BY <1>8, ChainsDisjoint DEF z
  <2>2. x \in ClustersOf(Chain(fat, x)) /\ \A n \in ClustersOf(Chain(fat, x)) : n \in Number
    <3> DEFINE y == Chain(fat, x)
    <3>1. IsChain(fat, y) /\ y[1] = x
      BY <1>8, ChainFrom
    <3> HIDE DEF y
    <3>2. 1 \in 1 .. Len(y)
      BY <3>1, ChainElements
    <3>3. QED
      BY <3>1, <3>2, ChainElements DEF y
  <2>3. \A n \in ClustersOf(Chain(fat, x)) : g[n] = fat[n]
    BY <2>1, <2>2, <1>5
  <2>4. Chain(g, x) = Chain(fat, x)
    BY <2>3, <1>7, <1>8, ChainFrame
  <2>5. x \in OnDisk /\ fat[x] # 0 /\ x # 0 /\ \A n \in Number : fat[n] # x
    BY <1>8, ClustersOnDisk DEF Begins
  <2>6. g[x] = fat[x]
    BY <2>2, <2>3
  <2>7. \A n \in Number : g[n] # x
    BY <2>5, <1>5
  <2>8. QED
    BY <2>4, <2>5, <2>6, <2>7 DEF Begins
<1>9. \A n \in Number : g[n] = fat[n] \/ g[n] = 0
  BY <1>5
<1>10. g # fat
  <2>1. h \in ClustersOf(z)
    BY <1>1, <1>2, <1>3
  <2>2. g[h] = 0 /\ fat[h] # 0
    BY <2>1, <1>2, <1>5
  <2>3. QED
    BY <2>2
<1>11. QED
  BY <1>7, <1>8, <1>9, <1>10 DEF g

-----------------------------------------------------------------------------
(* What is sound: a map m of the clusters to their cells, seen through a    *)
(* table fat.  The directories are the root and what a listed entry says    *)
(* is one; their chains hold every entry that is listed anywhere.           *)

Map == [OnDisk -> Cluster]
CellPlace == OnDisk \X (1 .. CellsPerCluster)
At(m, a) == m[a[1]][a[2]]
IsListed(cell) == cell.kind = "entry" /\ cell.name \notin {Dot, DotDot}
Places(m) == {a \in CellPlace : IsListed(At(m, a))}
Owned(fat, h) == ClustersOf(Chain(fat, h))
Room(fat, h) == Len(Chain(fat, h)) * CellsPerCluster
Heads(m) == {ROOT_CLUSTER} \cup {At(m, a).start : a \in {b \in Places(m) : At(m, b).dir}}

\* No cell in use behind a zero.
Tidy(m, where) ==
    \A i, j \in DOMAIN where :
        i < j /\ At(m, where[i]).kind = "zero" => At(m, where[j]).kind = "zero"

\* A directory: tidy, without foreign cells, no name twice.
HeadOK(m, fat, h) ==
    /\ Tidy(m, Locations(fat, h))
    /\ \A a \in CellPlace : a[1] \in Owned(fat, h) => At(m, a).kind \notin {"byte", "junk"}
    /\ \A a, b \in Places(m) :
           /\ a[1] \in Owned(fat, h) /\ b[1] \in Owned(fat, h)
           /\ At(m, a).name = At(m, b).name
           => a = b

Dotted(m, c) ==
    /\ At(m, <<c, 1>>) = Entry(Dot, TRUE, c, 0)
    /\ At(m, <<c, 2>>).kind = "entry" /\ At(m, <<c, 2>>).name = DotDot

\* A chain of its own, none or not the root's.
StartOK(fat, start) == start = 0 \/ (Begins(fat, start) /\ start # ROOT_CLUSTER)

EntryOK(m, fat, a) ==
    /\ StartOK(fat, At(m, a).start)
    /\ At(m, a).size <= Room(fat, At(m, a).start)
    /\ At(m, a).dir => At(m, a).start # 0 /\ Dotted(m, At(m, a).start)
    /\ \E h \in Heads(m) : a[1] \in Owned(fat, h)

StartsDiffer(m) ==
    \A a, b \in Places(m) : At(m, a).start # 0 /\ At(m, a).start = At(m, b).start => a = b

LfnOK(cell) == cell.kind = "lfn" => cell.checksum_of \notin {Dot, DotDot}

Sound(m, fat) ==
    /\ TableOK(fat) /\ Begins(fat, ROOT_CLUSTER)
    /\ \A a \in Places(m) : EntryOK(m, fat, a)
    /\ StartsDiffer(m)
    /\ \A a \in CellPlace : LfnOK(At(m, a))
    /\ \A h \in Heads(m) : HeadOK(m, fat, h)

LEMMA PlaceIs ==
  ASSUME NEW m \in Map, NEW a
  PROVE  /\ a \in CellPlace => At(m, a) \in SoundCell /\ a = <<a[1], a[2]>>
                               /\ a[1] \in OnDisk /\ a[2] \in 1 .. CellsPerCluster
         /\ a \in Places(m) => /\ a \in CellPlace /\ At(m, a) \in EntryOf(ShortName)
                               /\ IsListed(At(m, a))
<1>1. ASSUME a \in CellPlace
      PROVE  At(m, a) \in SoundCell /\ a[1] \in OnDisk /\ a[2] \in 1 .. CellsPerCluster
             /\ a = <<a[1], a[2]>>
  <2>1. a[1] \in OnDisk /\ a[2] \in 1 .. CellsPerCluster /\ a = <<a[1], a[2]>>
    BY <1>1 DEF CellPlace
  <2>2. m[a[1]] \in Cluster
    BY <2>1 DEF Map
  <2>3. QED
    BY <2>1, <2>2 DEF Cluster, At
<1>2. QED
  BY <1>1, EntryCells DEF Places, IsListed

LEMMA HeadIs ==
  ASSUME NEW m, NEW h
  PROVE  h \in Heads(m) <=> h = ROOT_CLUSTER \/ \E a \in Places(m) : At(m, a).dir /\ At(m, a).start = h
BY DEF Heads

LEMMA HeadsBegin ==
  ASSUME NEW m, NEW fat, Sound(m, fat), NEW h \in Heads(m)
  PROVE  Begins(fat, h) /\ TableOK(fat)
BY HeadIs DEF Sound, EntryOK, StartOK

\* Chains that begin differently share nothing.
LEMMA OwnedApart ==
  ASSUME NEW fat, TableOK(fat), NEW g, Begins(fat, g), NEW h, Begins(fat, h),
         NEW c, c \in Owned(fat, g), c \in Owned(fat, h)
  PROVE  g = h
BY ChainsDisjoint DEF Owned

\* A chain owns its begin, and only clusters that are taken.
LEMMA OwnedTaken ==
  ASSUME NEW fat, TableOK(fat), NEW h, Begins(fat, h)
  PROVE  h \in Owned(fat, h) /\ \A c \in Owned(fat, h) : c \in OnDisk /\ c \in Number /\ fat[c] # 0
<1> DEFINE z == Chain(fat, h)
<1>1. IsChain(fat, z) /\ z[1] = h
  BY ChainFrom
<1> HIDE DEF z
<1>2. Len(z) \in Nat \ {0} /\ \A c : c \in ClustersOf(z) <=> \E i \in 1 .. Len(z) : z[i] = c
  BY <1>1, ChainElements
<1>3. 1 \in 1 .. Len(z)
  BY <1>2
<1>4. h \in ClustersOf(z)
  BY <1>1, <1>2, <1>3
<1>5. QED
  BY <1>1, <1>4, ChainElements DEF Owned, z

\* W is the cells of the clusters of z, each of them once.
AreLocations(W, z) ==
    /\ W \in Seq(CellPlace) /\ Len(W) \in Nat /\ DOMAIN W = 1 .. Len(W)
    /\ Len(W) = Len(z) * CellsPerCluster
    /\ \A j \in DOMAIN W : W[j] \in CellPlace /\ W[j][1] \in ClustersOf(z)
    /\ \A i, j \in DOMAIN W : W[i] = W[j] => i = j
    /\ \A a \in CellPlace : a[1] \in ClustersOf(z) => \E j \in DOMAIN W : W[j] = a
    /\ \A q \in 0 .. Len(z) - 1, i \in 1 .. CellsPerCluster :
           q * CellsPerCluster + i \in DOMAIN W /\ W[q * CellsPerCluster + i] = <<z[q + 1], i>>

LEMMA LocationsAre ==
  ASSUME NEW fat, TableOK(fat), NEW h, Begins(fat, h)
  PROVE  AreLocations(Locations(fat, h), Chain(fat, h))
<1> DEFINE z == Chain(fat, h)
           C == CellsPerCluster
           N == Len(z) * C
           Cell1(j) == <<z[((j - 1) \div C) + 1], ((j - 1) % C) + 1>>
           W == Locations(fat, h)
<1>1. IsChain(fat, z) /\ C \in Nat \ {0}
  BY ChainFrom, Sizes
<1>2. W = [j \in 1 .. N |-> Cell1(j)]
  BY DEF Locations
<1> HIDE DEF z, W
<1>3. /\ Len(z) \in Nat \ {0}
      /\ \A i \in 1 .. Len(z) : z[i] \in OnDisk
      /\ \A c : c \in ClustersOf(z) <=> \E i \in 1 .. Len(z) : z[i] = c
  BY <1>1, ChainElements
<1>4. N \in Nat
  BY <1>1, <1>3
<1> DEFINE q(j) == (j - 1) \div C
           r(j) == (j - 1) % C
<1>5. ASSUME NEW j \in 1 .. N
      PROVE  q(j) \in 0 .. Len(z) - 1 /\ r(j) \in 0 .. C - 1 /\ j = C * q(j) + r(j) + 1
  <2>1. j - 1 \in Nat /\ j - 1 < Len(z) * C
    BY <1>4
  <2>2. q(j) \in 0 .. Len(z) - 1
    BY <1>1, <1>3, <2>1, QuotientBelow
  <2>3. q(j) \in Nat /\ r(j) \in 0 .. C - 1 /\ j - 1 = C * q(j) + r(j)
    BY <1>1, <2>1, Division
  <2> HIDE DEF q, r
  <2>4. C * q(j) \in Int /\ r(j) \in Int
    BY <1>1, <2>3
  <2>5. QED
    BY <1>4, <2>2, <2>3, <2>4
<1>6. ASSUME NEW p \in 0 .. Len(z) - 1, NEW i \in 1 .. C
      PROVE  p * C + i \in 1 .. N /\ q(p * C + i) = p /\ r(p * C + i) = i - 1
  <2> DEFINE n == p * C + i
  <2>1. p \in Nat /\ i - 1 \in 0 .. C - 1 /\ p + 1 <= Len(z)
    BY <1>1, <1>3
  <2>2. p * C \in Nat /\ (p + 1) * C = p * C + C /\ (p + 1) * C <= Len(z) * C
    BY <1>1, <1>3, <2>1
  <2>3. n - 1 = C * p + (i - 1)
    BY <1>1, <2>1, <2>2
  <2>4. (C * p + (i - 1)) \div C = p /\ (C * p + (i - 1)) % C = i - 1
    BY <1>1, <2>1, DivisionIs
  <2>5. q(n) = p /\ r(n) = i - 1
    BY <2>3, <2>4
  <2>6. n \in 1 .. N
    BY <1>1, <1>4, <2>1, <2>2
  <2>7. QED
    BY <2>5, <2>6
<1>7. \A j \in 1 .. N : W[j] = <<z[q(j) + 1], r(j) + 1>>
  BY <1>2
<1> HIDE DEF q, r, N
<1>8. DOMAIN W = 1 .. N
  BY <1>2
<1>9. ASSUME NEW j \in 1 .. N PROVE W[j] \in CellPlace /\ W[j][1] \in ClustersOf(z)
  <2>1. q(j) + 1 \in 1 .. Len(z) /\ r(j) + 1 \in 1 .. C
    BY <1>1, <1>3, <1>5
  <2>2. z[q(j) + 1] \in OnDisk /\ z[q(j) + 1] \in ClustersOf(z)
    BY <1>3, <2>1
  <2>3. W[j] = <<z[q(j) + 1], r(j) + 1>>
    BY <1>7
  <2>4. <<z[q(j) + 1], r(j) + 1>> \in CellPlace
    BY <2>1, <2>2 DEF CellPlace
  <2>5. QED
    BY <2>2, <2>3, <2>4
<1>10. W \in Seq(CellPlace) /\ Len(W) = N
  <2>1. W = [j \in 1 .. N |-> W[j]]
    BY <1>2
  <2>2. W \in [1 .. N -> CellPlace]
    BY <1>9, <2>1
  <2>3. QED
    BY <1>4, <2>2
<1>11. ASSUME NEW i \in 1 .. N, NEW j \in 1 .. N, W[i] = W[j] PROVE i = j
  <2>1. z[q(i) + 1] = z[q(j) + 1] /\ r(i) + 1 = r(j) + 1
    BY <1>7, <1>11
  <2>2. q(i) + 1 \in 1 .. Len(z) /\ q(j) + 1 \in 1 .. Len(z)
    BY <1>3, <1>5
  <2>3. q(i) + 1 = q(j) + 1
    BY <1>1, <2>1, <2>2 DEF IsChain
  <2>4. q(i) \in Int /\ q(j) \in Int /\ r(i) \in Int /\ r(j) \in Int
    BY <1>1, <1>3, <1>5
  <2>5. q(i) = q(j) /\ r(i) = r(j)
    BY <2>1, <2>3, <2>4
  <2>6. QED
    BY <1>5, <2>5
<1>12. ASSUME NEW p \in 0 .. Len(z) - 1, NEW i \in 1 .. C
       PROVE  p * C + i \in 1 .. N /\ W[p * C + i] = <<z[p + 1], i>>
  <2>1. p * C + i \in 1 .. N /\ q(p * C + i) = p /\ r(p * C + i) = i - 1
    BY <1>6 DEF N
  <2>2. (i - 1) + 1 = i
    BY <1>1
  <2>3. QED
    BY <1>7, <2>1, <2>2
<1>13. ASSUME NEW a \in CellPlace, a[1] \in ClustersOf(z) PROVE \E j \in 1 .. N : W[j] = a
  <2>1. PICK n \in 1 .. Len(z) : z[n] = a[1]
    BY <1>3, <1>13
  <2>2. a[2] \in 1 .. C /\ a = <<a[1], a[2]>>
    BY DEF CellPlace
  <2>3. n - 1 \in 0 .. Len(z) - 1 /\ (n - 1) + 1 = n
    BY <1>3
  <2>4. W[(n - 1) * C + a[2]] = a /\ (n - 1) * C + a[2] \in 1 .. N
    BY <1>12, <2>1, <2>2, <2>3
  <2>5. QED
    BY <2>4
<1>14. AreLocations(W, z)
  BY <1>4, <1>8, <1>9, <1>10, <1>11, <1>12, <1>13 DEF N, AreLocations
<1>15. QED
  BY <1>14 DEF W, z

-----------------------------------------------------------------------------
(* Changes that keep it sound                                              *)

SamePlaces(n, m) == Places(n) = Places(m) /\ \A a \in Places(m) : At(n, a) = At(m, a)

\* The first two cells of a directory are its dots, not entries that are listed.
LEMMA DotsAreApart ==
  ASSUME NEW m \in Map, NEW c \in OnDisk, Dotted(m, c)
  PROVE  /\ <<c, 1>> \in CellPlace /\ <<c, 2>> \in CellPlace
         /\ \A i \in 1 .. 2 : At(m, <<c, i>>).kind = "entry" /\ ~IsListed(At(m, <<c, i>>))
<1>1. <<c, 1>> \in CellPlace /\ <<c, 2>> \in CellPlace
  BY Sizes DEF CellPlace
<1>2. At(m, <<c, 1>>).kind = "entry" /\ At(m, <<c, 1>>).name = Dot
  BY DEF Dotted, Entry
<1>3. At(m, <<c, 2>>).kind = "entry" /\ At(m, <<c, 2>>).name = DotDot
  BY DEF Dotted
<1>4. \A i \in 1 .. 2 : i = 1 \/ i = 2
  OBVIOUS
<1>5. QED
  BY <1>1, <1>2, <1>3, <1>4 DEF IsListed

\* Another cell of no directory changes nothing.
LEMMA SoundFrame ==
  ASSUME NEW m \in Map, NEW fat, Sound(m, fat), NEW n \in Map, SamePlaces(n, m),
         \A a \in CellPlace : LfnOK(At(n, a)),
         \A h \in Heads(m), a \in CellPlace : a[1] \in Owned(fat, h) => At(n, a) = At(m, a)
  PROVE  Sound(n, fat) /\ Heads(n) = Heads(m)
<1>1. Places(n) = Places(m) /\ \A a \in Places(m) : At(n, a) = At(m, a)
  BY DEF SamePlaces
<1>2. Heads(n) = Heads(m)
  BY <1>1 DEF Heads
<1>3. ASSUME NEW h \in Heads(m) PROVE HeadOK(n, fat, h)
  <2>1. HeadOK(m, fat, h) /\ Begins(fat, h) /\ TableOK(fat)
    BY HeadsBegin DEF Sound
  <2> DEFINE W == Locations(fat, h)
  <2>2. \A j \in DOMAIN W : W[j] \in CellPlace /\ W[j][1] \in Owned(fat, h)
    BY <2>1, LocationsAre DEF AreLocations, Owned
  <2>3. \A j \in DOMAIN W : At(n, W[j]) = At(m, W[j])
    BY <2>2
  <2>4. Tidy(n, W)
    BY <2>1, <2>3 DEF HeadOK, Tidy
  <2>5. QED
    BY <1>1, <2>1, <2>4 DEF HeadOK
<1>4. ASSUME NEW a \in Places(m) PROVE EntryOK(n, fat, a)
  <2>1. EntryOK(m, fat, a) /\ At(n, a) = At(m, a)
    BY <1>1 DEF Sound
  <2> DEFINE s == At(m, a).start
  <2>2. ASSUME At(m, a).dir PROVE s # 0 /\ Dotted(n, s)
    <3>1. s # 0 /\ Dotted(m, s) /\ Begins(fat, s) /\ TableOK(fat)
      BY <2>1, <2>2 DEF EntryOK, StartOK, Sound
    <3>2. s \in Heads(m) /\ s \in OnDisk /\ s \in Owned(fat, s)
      BY <2>2, <3>1, HeadIs, OwnedTaken DEF Begins
    <3>3. <<s, 1>> \in CellPlace /\ <<s, 2>> \in CellPlace
      BY <3>1, <3>2, DotsAreApart
    <3>4. At(n, <<s, 1>>) = At(m, <<s, 1>>) /\ At(n, <<s, 2>>) = At(m, <<s, 2>>)
      BY <3>2, <3>3
    <3>5. QED
      BY <3>1, <3>4 DEF Dotted
  <2>3. QED
    BY <1>2, <2>1, <2>2 DEF EntryOK
<1>5. StartsDiffer(n)
  BY <1>1 DEF Sound, StartsDiffer
<1>6. QED
  BY <1>1, <1>2, <1>3, <1>4, <1>5 DEF Sound

\* A cluster that belongs to no directory holds no entry.
LEMMA NoPlaceIn ==
  ASSUME NEW m \in Map, NEW fat, Sound(m, fat), NEW c, \A h \in Heads(m) : c \notin Owned(fat, h)
  PROVE  \A a \in Places(m) : a[1] # c
BY DEF Sound, EntryOK

\* A cluster that belongs to no directory can be written: a new one is cleared or
\* gets its dots, a file's gets its bytes.
LEMMA Aside ==
  ASSUME NEW m \in Map, NEW fat, Sound(m, fat), NEW c \in OnDisk, NEW cells \in Cluster,
         \A h \in Heads(m) : c \notin Owned(fat, h),
         \A i \in 1 .. CellsPerCluster : ~IsListed(cells[i]) /\ LfnOK(cells[i]),
         NEW n, n = Refilled(m, c, cells)
  PROVE  n \in Map /\ SamePlaces(n, m) /\ Sound(n, fat) /\ Heads(n) = Heads(m)
<1>1. n \in Map /\ n[c] = cells /\ \A x \in OnDisk : x # c => n[x] = m[x]
  BY DEF Refilled, Map
<1>2. \A a \in CellPlace : a[1] # c => At(n, a) = At(m, a)
  BY <1>1, PlaceIs DEF At
<1>3. \A a \in CellPlace : a[1] = c => ~IsListed(At(n, a)) /\ LfnOK(At(n, a))
  BY <1>1, PlaceIs DEF At
<1>4. \A a \in Places(m) : a[1] # c
  BY NoPlaceIn
<1>5. Places(n) = Places(m)
  BY <1>2, <1>3, <1>4 DEF Places
<1>6. SamePlaces(n, m)
  BY <1>2, <1>4, <1>5 DEF SamePlaces, Places
<1>7. \A a \in CellPlace : LfnOK(At(n, a))
  BY <1>2, <1>3 DEF Sound
<1>8. QED
  BY <1>1, <1>2, <1>6, <1>7, SoundFrame

\* Chains that no entry leads to come and go.
LEMMA TableFrame ==
  ASSUME NEW m \in Map, NEW fat, Sound(m, fat), NEW g, TableOK(g),
         \A h : Begins(fat, h) /\ (h = ROOT_CLUSTER \/ \E a \in Places(m) : At(m, a).start = h)
                => Begins(g, h) /\ Chain(g, h) = Chain(fat, h)
  PROVE  Sound(m, g)
<1>1. \A h \in Heads(m) : Begins(g, h) /\ Chain(g, h) = Chain(fat, h)
  BY HeadsBegin, HeadIs
<1>2. \A h \in Heads(m) : Owned(g, h) = Owned(fat, h) /\ Locations(g, h) = Locations(fat, h)
  BY <1>1 DEF Owned, Locations
<1>3. \A h \in Heads(m) : HeadOK(m, g, h)
  BY <1>2 DEF Sound, HeadOK
<1>4. Chain(fat, 0) = << >> /\ Chain(g, 0) = << >>
  BY NoChain DEF Sound, TableOK
<1>5. ASSUME NEW a \in Places(m) PROVE EntryOK(m, g, a)
  <2>1. EntryOK(m, fat, a)
    BY DEF Sound
  <2>2. StartOK(g, At(m, a).start) /\ Chain(g, At(m, a).start) = Chain(fat, At(m, a).start)
    BY <1>4, <2>1 DEF EntryOK, StartOK
  <2>3. QED
    BY <1>2, <2>1, <2>2 DEF EntryOK, Room
<1>6. ROOT_CLUSTER \in Heads(m)
  BY HeadIs
<1>7. QED
  BY <1>1, <1>3, <1>5, <1>6 DEF Sound

LEMMA ForgetSound ==
  ASSUME NEW m \in Map, NEW fat, Sound(m, fat), NEW h, Begins(fat, h), h # ROOT_CLUSTER,
         \A a \in Places(m) : At(m, a).start # h
  PROVE  Sound(m, Without(fat, h))
<1> DEFINE g == Without(fat, h)
<1>1. TableOK(g) /\ \A x : Begins(fat, x) /\ x # h => Begins(g, x) /\ Chain(g, x) = Chain(fat, x)
  BY WithoutChains DEF Sound
<1> HIDE DEF g
<1>2. Sound(m, g)
  BY <1>1, TableFrame
<1>3. QED
  BY <1>2 DEF g

LEMMA Split ==
  ASSUME NEW n \in Nat, NEW j \in 1 .. n * CellsPerCluster
  PROVE  \E q \in 0 .. n - 1, i \in 1 .. CellsPerCluster : j = q * CellsPerCluster + i
<1> DEFINE C == CellsPerCluster
           q == (j - 1) \div C
           r == (j - 1) % C
<1>1. C \in Nat \ {0} /\ j \in Nat \ {0} /\ j - 1 \in Nat /\ j - 1 < n * C
  BY Sizes
<1>2. q \in 0 .. n - 1
  BY <1>1, QuotientBelow
<1>3. q \in Nat /\ r \in 0 .. C - 1 /\ j - 1 = C * q + r
  BY <1>1, Division
<1> HIDE DEF q, r
<1>4. C * q = q * C /\ q * C \in Nat
  BY <1>1, <1>3
<1>5. j = q * C + (r + 1) /\ r + 1 \in 1 .. C
  BY <1>1, <1>3, <1>4
<1>6. QED
  BY <1>2, <1>5

\* A directory that grows keeps its locations and gets those of the new cluster.
LEMMA LocationsGrow ==
  ASSUME NEW fat, TableOK(fat), NEW h, Begins(fat, h), NEW g, TableOK(g), Begins(g, h),
         NEW c, Chain(g, h) = Append(Chain(fat, h), c)
  PROVE  LET W == Locations(fat, h)
             V == Locations(g, h)
         IN  /\ DOMAIN W \subseteq DOMAIN V /\ Len(V) = Len(W) + CellsPerCluster
             /\ \A j \in DOMAIN W : V[j] = W[j]
             /\ \A j \in DOMAIN V : j \notin DOMAIN W => V[j][1] = c
             /\ \A i \in 1 .. CellsPerCluster : V[Len(W) + i] = <<c, i>>
<1> DEFINE W == Locations(fat, h)
           V == Locations(g, h)
           z == Chain(fat, h)
           y == Chain(g, h)
           C == CellsPerCluster
<1>1. IsChain(fat, z) /\ y = Append(z, c)
  BY ChainFrom
<1>12. AreLocations(W, z) /\ AreLocations(V, y)
  BY LocationsAre
<1> HIDE DEF z, y, W, V
<1>2. /\ Len(W) = Len(z) * C /\ DOMAIN W = 1 .. Len(z) * C
      /\ \A q \in 0 .. Len(z) - 1, i \in 1 .. C : W[q * C + i] = <<z[q + 1], i>>
  BY <1>12 DEF AreLocations
<1>3. /\ Len(V) = Len(y) * C /\ DOMAIN V = 1 .. Len(y) * C
      /\ \A q \in 0 .. Len(y) - 1, i \in 1 .. C : V[q * C + i] = <<y[q + 1], i>>
  BY <1>12 DEF AreLocations
<1>4. z \in Seq(OnDisk) /\ Len(z) \in Nat \ {0}
  BY <1>1, ChainElements DEF IsChain
<1>5. Len(y) = Len(z) + 1 /\ y[Len(z) + 1] = c /\ \A q \in 1 .. Len(z) : y[q] = z[q]
  BY <1>1, <1>4
<1> DEFINE N == Len(z)
<1> HIDE DEF N
<1>6. N \in Nat /\ C \in Nat \ {0} /\ N * C \in Nat /\ (N + 1) * C = N * C + C
  BY <1>4, Sizes DEF N
<1>7. Len(V) = Len(W) + C /\ DOMAIN W \subseteq DOMAIN V /\ DOMAIN V = 1 .. N * C + C
      /\ DOMAIN W = 1 .. N * C /\ Len(W) = N * C
  BY <1>2, <1>3, <1>5, <1>6 DEF N
<1>8. ASSUME NEW j \in DOMAIN W PROVE V[j] = W[j]
  <2>1. PICK q \in 0 .. N - 1, i \in 1 .. C : j = q * C + i
    <3>1. j \in 1 .. N * C
      BY <1>7
    <3> HIDE DEF C
    <3>2. QED
      BY <1>6, <3>1, Split DEF C
  <2>2. q + 1 \in 1 .. Len(z) /\ q \in 0 .. Len(y) - 1 /\ q \in 0 .. Len(z) - 1
    BY <1>4, <1>5, <1>6, <2>1 DEF N
  <2>3. y[q + 1] = z[q + 1]
    BY <1>5, <2>2
  <2>4. QED
    BY <1>2, <1>3, <2>1, <2>2, <2>3
<1>9. ASSUME NEW i \in 1 .. C PROVE V[N * C + i] = <<c, i>>
  <2>1. N \in 0 .. Len(y) - 1 /\ y[N + 1] = c
    BY <1>5, <1>6 DEF N
  <2>2. QED
    BY <1>3, <2>1
<1>10. ASSUME NEW j \in DOMAIN V, j \notin DOMAIN W PROVE V[j][1] = c
  <2>1. j - N * C \in 1 .. C /\ N * C + (j - N * C) = j
    BY <1>6, <1>7, <1>10
  <2>2. V[j] = <<c, j - N * C>>
    BY <1>9, <2>1
  <2>3. QED
    BY <2>2
<1>11. QED
  BY <1>7, <1>8, <1>9, <1>10 DEF W, V

LEMMA ZerosAre ==
  \A i \in 1 .. CellsPerCluster : Zeros[i] = Zero /\ Zeros[i].kind = "zero" /\ ~IsListed(Zeros[i]) /\ LfnOK(Zeros[i])
BY DEF Zeros, Zero, IsListed, LfnOK

\* A cluster of zeros is taken, by itself or at the end of a chain.
LEMMA GiveSound ==
  ASSUME NEW m \in Map, NEW fat, Sound(m, fat), NEW p, NEW c, CanGive(fat, p, c), m[c] = Zeros
  PROVE  Sound(m, Given(fat, p, c))
<1> DEFINE g == Given(fat, p, c)
<1>1. TableOK(fat) /\ TableOK(g)
  BY GivenTable DEF Sound
<1>2. \A h : Begins(fat, h) =>
         /\ Begins(g, h) /\ c \notin Owned(fat, h)
         /\ \/ Chain(g, h) = Append(Chain(fat, h), c) /\ Owned(g, h) = Owned(fat, h) \cup {c}
            \/ Chain(g, h) = Chain(fat, h) /\ Owned(g, h) = Owned(fat, h)
  BY <1>1, GivenChains DEF Owned
<1> HIDE DEF g
<1>3. c \in OnDisk /\ \A i \in 1 .. CellsPerCluster : At(m, <<c, i>>).kind = "zero"
  BY ZerosAre DEF CanGive, At
<1>4. \A a \in CellPlace : a[1] = c => At(m, a).kind = "zero"
  BY <1>3, PlaceIs
<1>5. \A a \in Places(m) : a[1] # c
  BY <1>4 DEF Places, IsListed
<1>6. ASSUME NEW h \in Heads(m) PROVE HeadOK(m, g, h)
  <2>1. HeadOK(m, fat, h) /\ Begins(fat, h) /\ Begins(g, h)
    BY <1>2, HeadsBegin DEF Sound
  <2>2. Owned(g, h) \subseteq Owned(fat, h) \cup {c}
    BY <1>2, <2>1
  <2>3. \A a \in CellPlace : a[1] \in Owned(g, h) => At(m, a).kind \notin {"byte", "junk"}
    BY <1>4, <2>1, <2>2 DEF HeadOK
  <2>4. \A a, b \in Places(m) : /\ a[1] \in Owned(g, h) /\ b[1] \in Owned(g, h)
                                /\ At(m, a).name = At(m, b).name
                                => a = b
    BY <1>5, <2>1, <2>2 DEF HeadOK
  <2>5. Tidy(m, Locations(g, h))
    <3>1. CASE Chain(g, h) = Chain(fat, h)
      BY <2>1, <3>1 DEF Locations, HeadOK
    <3>2. CASE Chain(g, h) = Append(Chain(fat, h), c)
      <4> DEFINE W == Locations(fat, h)
                 V == Locations(g, h)
      <4>1. /\ \A j \in DOMAIN W : V[j] = W[j]
            /\ \A j \in DOMAIN V : j \notin DOMAIN W => V[j][1] = c
        BY <1>1, <2>1, <3>2, LocationsGrow
      <4>2. DOMAIN W = 1 .. Len(W) /\ DOMAIN V = 1 .. Len(V) /\ Len(W) \in Nat /\ Len(V) \in Nat
            /\ \A j \in DOMAIN V : V[j] \in CellPlace
        BY <1>1, <2>1, LocationsAre DEF AreLocations
      <4> HIDE DEF W, V
      <4>3. ASSUME NEW i \in DOMAIN V, NEW j \in DOMAIN V, i < j, At(m, V[i]).kind = "zero"
            PROVE  At(m, V[j]).kind = "zero"
        <5>1. CASE j \notin DOMAIN W
          BY <1>4, <4>1, <4>2, <5>1
        <5>2. CASE j \in DOMAIN W
          <6>1. i \in DOMAIN W
            BY <4>2, <4>3, <5>2
          <6>2. Tidy(m, W)
            BY <2>1 DEF HeadOK, W
          <6>3. QED
            BY <4>1, <4>3, <5>2, <6>1, <6>2 DEF Tidy
        <5>3. QED
          BY <5>1, <5>2
      <4>4. QED
        BY <4>3 DEF Tidy, V
    <3>3. QED
      BY <1>2, <2>1, <3>1, <3>2
  <2>6. QED
    BY <2>3, <2>4, <2>5 DEF HeadOK
<1>7. \A h : Begins(fat, h) => Room(g, h) >= Room(fat, h) /\ Room(g, h) \in Nat /\ Room(fat, h) \in Nat
  <2> SUFFICES ASSUME NEW h, Begins(fat, h)
               PROVE  Room(g, h) >= Room(fat, h) /\ Room(g, h) \in Nat /\ Room(fat, h) \in Nat
    OBVIOUS
  <2> DEFINE z == Chain(fat, h)
             y == Chain(g, h)
  <2>1. IsChain(fat, z) /\ (y = z \/ y = Append(z, c))
    BY <1>1, <1>2, ChainFrom
  <2> HIDE DEF z, y
  <2>2. z \in Seq(OnDisk) /\ Len(z) \in Nat
    BY <1>1, <2>1, ChainElements DEF IsChain
  <2>3. Len(y) \in Nat /\ (Len(y) = Len(z) \/ Len(y) = Len(z) + 1)
    BY <1>3, <2>1, <2>2
  <2>4. \A a, b \in Nat : b = a \/ b = a + 1 =>
           b * CellsPerCluster >= a * CellsPerCluster
           /\ a * CellsPerCluster \in Nat /\ b * CellsPerCluster \in Nat
    BY Sizes
  <2>5. Len(y) * CellsPerCluster >= Len(z) * CellsPerCluster
        /\ Len(z) * CellsPerCluster \in Nat /\ Len(y) * CellsPerCluster \in Nat
    BY <2>2, <2>3, <2>4
  <2>6. QED
    BY <2>5 DEF Room, z, y
<1>8. Chain(fat, 0) = << >> /\ Chain(g, 0) = << >>
  BY <1>1, NoChain DEF TableOK
<1>9. ASSUME NEW a \in Places(m) PROVE EntryOK(m, g, a)
  <2> DEFINE s == At(m, a).start
  <2>1. EntryOK(m, fat, a) /\ At(m, a).size \in Nat
    BY PlaceIs DEF Sound, EntryOf
  <2>2. StartOK(g, s)
    BY <1>2, <2>1 DEF EntryOK, StartOK
  <2>3. At(m, a).size <= Room(g, s)
    <3>1. CASE s = 0
      BY <1>8, <2>1, <3>1 DEF EntryOK, Room
    <3>2. CASE s # 0
      <4>1. Begins(fat, s) /\ At(m, a).size <= Room(fat, s)
        BY <2>1, <3>2 DEF EntryOK, StartOK
      <4>2. QED
        BY <1>7, <2>1, <4>1
    <3>3. QED
      BY <3>1, <3>2
  <2>4. \E h \in Heads(m) : a[1] \in Owned(g, h)
    BY <1>2, <2>1, HeadsBegin DEF EntryOK
  <2>5. QED
    BY <2>1, <2>2, <2>3, <2>4 DEF EntryOK
<1>10. Sound(m, g)
  BY <1>1, <1>2, <1>6, <1>9 DEF Sound
<1>11. QED
  BY <1>10 DEF g

\* The entry at a place, and LFN entries anywhere, may be marked as deleted.
Struck(n, m, at) ==
    \A a \in CellPlace :
        \/ At(n, a) = At(m, a)
        \/ At(n, a) = Deleted /\ (a = at \/ At(m, a).kind = "lfn")

LEMMA StrikeSound ==
  ASSUME NEW m \in Map, NEW fat, Sound(m, fat), NEW at \in Places(m), NEW n \in Map, Struck(n, m, at),
         At(m, at).dir => \A a \in Places(m) : a[1] \notin Owned(fat, At(m, at).start)
  PROVE  /\ Sound(n, fat) /\ Places(n) \subseteq Places(m)
         /\ \A a \in Places(n) : At(n, a) = At(m, a)
         /\ \A a \in Places(m) : a # at => a \in Places(n)
         /\ at \in Places(n) => At(n, at) # Deleted
<1>1. \A a \in CellPlace : At(n, a) = At(m, a)
                           \/ (At(n, a) = Deleted /\ (a = at \/ At(m, a).kind = "lfn"))
  BY DEF Struck
<1>2. Deleted.kind = "deleted" /\ ~IsListed(Deleted) /\ LfnOK(Deleted)
  BY DEF Deleted, IsListed, LfnOK
<1>3. /\ Places(n) \subseteq Places(m)
      /\ \A a \in Places(n) : At(n, a) = At(m, a)
      /\ \A a \in Places(m) : a # at => a \in Places(n)
      /\ at \in Places(n) => At(n, at) # Deleted
  BY <1>1, <1>2 DEF Places, IsListed
<1>4. \A h \in Heads(n) : h \in Heads(m)
  BY <1>3, HeadIs
<1>5. ASSUME NEW a \in CellPlace
      PROVE  /\ At(n, a).kind = "zero" <=> At(m, a).kind = "zero"
             /\ At(n, a).kind \in {"byte", "junk"} => At(m, a).kind \in {"byte", "junk"}
  <2>1. At(m, at).kind = "entry"
    BY DEF Places, IsListed
  <2>2. QED
    BY <1>1, <1>2, <2>1
<1>6. ASSUME NEW h \in Heads(n) PROVE HeadOK(n, fat, h)
  <2>1. HeadOK(m, fat, h) /\ Begins(fat, h) /\ TableOK(fat)
    BY <1>4, HeadsBegin DEF Sound
  <2> DEFINE W == Locations(fat, h)
  <2>2. \A j \in DOMAIN W : W[j] \in CellPlace
    BY <2>1, LocationsAre DEF AreLocations
  <2>3. Tidy(n, W)
    BY <1>5, <2>1, <2>2 DEF HeadOK, Tidy
  <2>4. QED
    BY <1>3, <1>5, <2>1, <2>3 DEF HeadOK
<1>7. ASSUME NEW a \in Places(n) PROVE EntryOK(n, fat, a)
  <2>1. EntryOK(m, fat, a) /\ At(n, a) = At(m, a) /\ a \in Places(m)
    BY <1>3 DEF Sound
  <2> DEFINE s == At(m, a).start
  <2>2. ASSUME At(m, a).dir PROVE s # 0 /\ Dotted(n, s)
    <3>1. s # 0 /\ Dotted(m, s) /\ s \in OnDisk
      BY <2>1, <2>2 DEF EntryOK, StartOK, Begins
    <3>2. /\ <<s, 1>> \in CellPlace /\ <<s, 2>> \in CellPlace
          /\ \A i \in 1 .. 2 : At(m, <<s, i>>).kind = "entry" /\ ~IsListed(At(m, <<s, i>>))
      BY <3>1, DotsAreApart
    <3>3. \A i \in 1 .. 2 : <<s, i>> # at
      BY <3>2 DEF Places
    <3>4. At(n, <<s, 1>>) = At(m, <<s, 1>>) /\ At(n, <<s, 2>>) = At(m, <<s, 2>>)
      BY <1>1, <3>2, <3>3
    <3>5. QED
      BY <3>1, <3>4 DEF Dotted
  <2>3. \E h \in Heads(n) : a[1] \in Owned(fat, h)
    <3>1. PICK h \in Heads(m) : a[1] \in Owned(fat, h)
      BY <2>1 DEF EntryOK
    <3>2. ~(At(m, at).dir /\ At(m, at).start = h)
      BY <2>1, <3>1
    <3>3. h \in Heads(n)
      BY <1>3, <3>2, HeadIs
    <3>4. QED
      BY <3>1, <3>3
  <2>4. QED
    BY <2>1, <2>2, <2>3 DEF EntryOK
<1>8. StartsDiffer(n) /\ \A a \in CellPlace : LfnOK(At(n, a))
  BY <1>1, <1>2, <1>3 DEF Sound, StartsDiffer
<1>9. QED
  BY <1>3, <1>6, <1>7, <1>8 DEF Sound

\* One cell is another.
Changed(n, m, at, cell) ==
    At(n, at) = cell /\ \A a \in CellPlace : a # at => At(n, a) = At(m, a)

\* What an entry that is new must be: a name of its own in its directory, and
\* no cluster, or one that is set up and that nothing leads to.
Addable(m, fat, h, e) ==
    /\ e \in EntryOf(ShortName) /\ IsListed(e) /\ e.size = 0
    /\ StartOK(fat, e.start)
    /\ \A a \in Places(m) : e.start # 0 => At(m, a).start # e.start
    /\ \A a \in Places(m) : a[1] \in Owned(fat, h) => At(m, a).name # e.name
    /\ e.dir => e.start # 0 /\ Dotted(m, e.start) /\ HeadOK(m, fat, e.start)

\* A free cell that no zero comes before gets an LFN entry or an entry.
LEMMA PutSound ==
  ASSUME NEW m \in Map, NEW fat, Sound(m, fat), NEW h \in Heads(m),
         NEW j \in DOMAIN Locations(fat, h), NEW at, at = Locations(fat, h)[j],
         At(m, at).kind \in {"zero", "deleted"},
         \A i \in DOMAIN Locations(fat, h) : i < j => At(m, Locations(fat, h)[i]).kind # "zero",
         NEW cell, (cell.kind = "lfn" /\ LfnOK(cell)) \/ Addable(m, fat, h, cell),
         NEW n \in Map, Changed(n, m, at, cell)
  PROVE  /\ Sound(n, fat) /\ Places(m) \subseteq Places(n)
         /\ \A a \in Places(m) : At(n, a) = At(m, a)
         /\ \A a \in Places(n) : a \in Places(m) \/ (a = at /\ cell.kind = "entry")
<1> DEFINE W == Locations(fat, h)
<1>1. Begins(fat, h) /\ TableOK(fat)
  BY HeadsBegin
<1>2. AreLocations(W, Chain(fat, h))
  BY <1>1, LocationsAre
<1>3. at \in CellPlace /\ at[1] \in Owned(fat, h) /\ (\A i \in DOMAIN W : W[i] = at => i = j)
      /\ \A i \in DOMAIN W : W[i] \in CellPlace /\ i \in Nat
  BY <1>2 DEF AreLocations, Owned
<1>4. At(n, at) = cell /\ \A a \in CellPlace : a # at => At(n, a) = At(m, a)
  BY DEF Changed
<1>5. at \notin Places(m)
  BY DEF Places, IsListed
<1>6. /\ cell.kind \in {"lfn", "entry"} /\ LfnOK(cell) /\ (cell.kind = "lfn" => ~IsListed(cell))
      /\ cell.kind = "entry" => Addable(m, fat, h, cell) /\ IsListed(cell)
  BY DEF Addable, IsListed, LfnOK, EntryOf
<1>7. /\ Places(m) \subseteq Places(n)
      /\ \A a \in Places(m) : At(n, a) = At(m, a)
      /\ \A a \in Places(n) : a \in Places(m) \/ (a = at /\ cell.kind = "entry")
  BY <1>4, <1>5, <1>6 DEF Places
<1>8. ASSUME NEW c, Dotted(m, c), c \in OnDisk PROVE Dotted(n, c)
  <2>1. /\ <<c, 1>> \in CellPlace /\ <<c, 2>> \in CellPlace
        /\ \A i \in 1 .. 2 : At(m, <<c, i>>).kind = "entry"
    BY <1>8, DotsAreApart
  <2>2. \A i \in 1 .. 2 : <<c, i>> # at
    BY <2>1
  <2>3. At(n, <<c, 1>>) = At(m, <<c, 1>>) /\ At(n, <<c, 2>>) = At(m, <<c, 2>>)
    BY <1>4, <2>1, <2>2
  <2>4. QED
    BY <1>8, <2>3 DEF Dotted
<1>9. ASSUME NEW g, Begins(fat, g), HeadOK(m, fat, g), g # h PROVE HeadOK(n, fat, g)
  <2>1. at[1] \notin Owned(fat, g)
    BY <1>1, <1>3, <1>9, OwnedApart
  <2> DEFINE V == Locations(fat, g)
  <2>2. \A i \in DOMAIN V : V[i] \in CellPlace /\ V[i] # at
    BY <1>1, <1>9, <2>1, LocationsAre DEF AreLocations, Owned
  <2>3. Tidy(n, V)
    BY <1>4, <1>9, <2>2 DEF HeadOK, Tidy
  <2>4. \A a \in CellPlace : a[1] \in Owned(fat, g) => At(n, a) = At(m, a)
    BY <1>4, <2>1
  <2>5. \A a \in Places(n) : a[1] \in Owned(fat, g) => a \in Places(m)
    BY <1>7, <2>1
  <2>6. QED
    BY <1>7, <1>9, <2>3, <2>4, <2>5 DEF HeadOK
<1>10. HeadOK(n, fat, h)
  <2>1. HeadOK(m, fat, h)
    BY DEF Sound
  <2>2. ASSUME NEW i \in DOMAIN W, NEW l \in DOMAIN W, i < l, At(n, W[i]).kind = "zero"
        PROVE  At(n, W[l]).kind = "zero"
    <3>1. W[i] # at
      BY <1>4, <1>6, <2>2
    <3>2. At(m, W[i]).kind = "zero"
      BY <1>3, <1>4, <2>2, <3>1
    <3>3. l # j
      BY <2>2, <3>2
    <3>4. At(m, W[l]).kind = "zero" /\ W[l] # at
      BY <1>3, <2>1, <2>2, <3>2, <3>3 DEF HeadOK, Tidy
    <3>5. QED
      BY <1>3, <1>4, <3>4
  <2>3. Tidy(n, W)
    BY <2>2 DEF Tidy
  <2>4. \A a \in CellPlace : a[1] \in Owned(fat, h) => At(n, a).kind \notin {"byte", "junk"}
    BY <1>4, <1>6, <2>1 DEF HeadOK
  <2>5. ASSUME NEW a \in Places(n), NEW b \in Places(n), a[1] \in Owned(fat, h), b[1] \in Owned(fat, h),
               At(n, a).name = At(n, b).name
        PROVE  a = b
    <3>1. CASE a \in Places(m) /\ b \in Places(m)
      BY <1>7, <2>1, <2>5, <3>1 DEF HeadOK
    <3>2. CASE a \in Places(m) /\ b \notin Places(m)
      BY <1>4, <1>6, <1>7, <2>5, <3>2 DEF Addable
    <3>3. CASE a \notin Places(m) /\ b \in Places(m)
      BY <1>4, <1>6, <1>7, <2>5, <3>3 DEF Addable
    <3>4. CASE a \notin Places(m) /\ b \notin Places(m)
      BY <1>7, <3>4
    <3>5. QED
      BY <3>1, <3>2, <3>3, <3>4
  <2>6. QED
    BY <2>3, <2>4, <2>5 DEF HeadOK
<1>11. ASSUME NEW g \in Heads(n)
       PROVE  HeadOK(n, fat, g) /\ (g \in Heads(m) \/ (g = cell.start /\ cell.kind = "entry" /\ cell.dir))
  <2>1. g \in Heads(m) \/ (g = cell.start /\ cell.kind = "entry" /\ cell.dir)
    <3>1. CASE g = ROOT_CLUSTER
      BY <3>1, HeadIs
    <3>2. CASE g # ROOT_CLUSTER
      <4>1. PICK a \in Places(n) : At(n, a).dir /\ At(n, a).start = g
        BY <3>2, HeadIs
      <4>2. QED
        BY <1>4, <1>7, <4>1, HeadIs
    <3>3. QED
      BY <3>1, <3>2
  <2>2. CASE g \in Heads(m)
    <3>1. HeadOK(m, fat, g) /\ Begins(fat, g)
      BY <2>2, HeadsBegin DEF Sound
    <3>2. QED
      BY <1>9, <1>10, <2>2, <3>1
  <2>3. CASE g \notin Heads(m)
    <3>1. HeadOK(m, fat, g) /\ Begins(fat, g) /\ g # h
      BY <1>6, <2>1, <2>3 DEF Addable, StartOK
    <3>2. QED
      BY <1>9, <2>1, <3>1
  <2>4. QED
    BY <2>2, <2>3
<1>12. \A g \in Heads(m) : g \in Heads(n)
  BY <1>7, HeadIs
<1>13. ASSUME NEW a \in Places(n) PROVE EntryOK(n, fat, a)
  <2>1. CASE a \in Places(m)
    <3>1. EntryOK(m, fat, a) /\ At(n, a) = At(m, a)
      BY <1>7, <2>1 DEF Sound
    <3>2. At(m, a).dir => At(m, a).start # 0 /\ Dotted(n, At(m, a).start)
      BY <1>8, <3>1 DEF EntryOK, StartOK, Begins
    <3>3. QED
      BY <1>12, <3>1, <3>2 DEF EntryOK
  <2>2. CASE a \notin Places(m)
    <3>1. a = at /\ cell.kind = "entry" /\ Addable(m, fat, h, cell) /\ At(n, a) = cell
      BY <1>4, <1>6, <1>7, <2>2
    <3>2. cell.dir => cell.start # 0 /\ Dotted(n, cell.start)
      BY <1>8, <3>1 DEF Addable, StartOK, Begins
    <3>3. Room(fat, cell.start) \in Nat
      <4>1. CASE cell.start = 0
        <5>1. Chain(fat, 0) = << >>
          BY <1>1, NoChain DEF TableOK
        <5>2. QED
          BY <4>1, <5>1, Sizes DEF Room
      <4>2. CASE cell.start # 0
        <5>1. Begins(fat, cell.start)
          BY <3>1, <4>2 DEF Addable, StartOK
        <5>2. Len(Chain(fat, cell.start)) \in Nat
          BY <1>1, <5>1, ChainFrom, ChainElements
        <5>3. \A x \in Nat : x * CellsPerCluster \in Nat
          BY Sizes
        <5>4. QED
          BY <5>2, <5>3 DEF Room
      <4>3. QED
        BY <4>1, <4>2
    <3>4. cell.size <= Room(fat, cell.start)
      BY <3>1, <3>3 DEF Addable
    <3>5. QED
      BY <1>3, <1>12, <3>1, <3>2, <3>4 DEF EntryOK, Addable
  <2>3. QED
    BY <2>1, <2>2
<1>14. StartsDiffer(n)
  <2> SUFFICES ASSUME NEW a \in Places(n), NEW b \in Places(n),
                      At(n, a).start # 0, At(n, a).start = At(n, b).start
               PROVE  a = b
    BY DEF StartsDiffer
  <2>1. CASE a \in Places(m) /\ b \in Places(m)
    BY <1>7, <2>1 DEF Sound, StartsDiffer
  <2>2. CASE a \in Places(m) /\ b \notin Places(m)
    BY <1>4, <1>6, <1>7, <2>2 DEF Addable
  <2>3. CASE a \notin Places(m) /\ b \in Places(m)
    BY <1>4, <1>6, <1>7, <2>3 DEF Addable
  <2>4. CASE a \notin Places(m) /\ b \notin Places(m)
    BY <1>7, <2>4
  <2>5. QED
    BY <2>1, <2>2, <2>3, <2>4
<1>15. \A a \in CellPlace : LfnOK(At(n, a))
  BY <1>4, <1>6 DEF Sound
<1>16. Sound(n, fat)
  BY <1>1, <1>11, <1>13, <1>14, <1>15 DEF Sound
<1>17. QED
  BY <1>7, <1>16

\* A file's entry gets the start and the size that a handle has.
Repointed(e, start, size) == [e EXCEPT !.start = start, !.size = size]

LEMMA PatchSound ==
  ASSUME NEW m \in Map, NEW fat, Sound(m, fat), NEW at \in Places(m), ~At(m, at).dir,
         NEW start \in Number, NEW size \in Nat, StartOK(fat, start), size <= Room(fat, start),
         \A b \in Places(m) : start # 0 /\ At(m, b).start = start => b = at,
         NEW n \in Map, Changed(n, m, at, Repointed(At(m, at), start, size))
  PROVE  /\ Sound(n, fat) /\ Places(n) = Places(m)
         /\ \A a \in Places(m) : a # at => At(n, a) = At(m, a)
         /\ At(n, at).start = start /\ At(n, at).size = size /\ ~At(n, at).dir
<1> DEFINE e == Repointed(At(m, at), start, size)
<1>1. at \in CellPlace /\ At(m, at) \in EntryOf(ShortName) /\ IsListed(At(m, at))
  BY PlaceIs
<1>2. e.kind = "entry" /\ e.name = At(m, at).name /\ e.dir = At(m, at).dir /\ e.start = start
      /\ e.size = size
  BY <1>1 DEF EntryOf, Repointed
<1>3. At(n, at) = e /\ \A a \in CellPlace : a # at => At(n, a) = At(m, a)
  BY DEF Changed
<1> HIDE DEF e
<1>4. IsListed(e) /\ LfnOK(e) /\ ~e.dir
  BY <1>1, <1>2 DEF IsListed, LfnOK
<1>5. Places(n) = Places(m) /\ \A a \in Places(m) : a # at => At(n, a) = At(m, a)
  BY <1>1, <1>3, <1>4 DEF Places
<1>6. \A a \in Places(m) : At(n, a).dir = At(m, a).dir /\ At(n, a).name = At(m, a).name
                           /\ (At(m, a).dir => At(n, a) = At(m, a))
  BY <1>2, <1>3, <1>4, <1>5
<1>7. \A h : h \in Heads(n) <=> h \in Heads(m)
  BY <1>5, <1>6, HeadIs
<1>8. \A a \in CellPlace : At(n, a).kind = At(m, a).kind
  BY <1>1, <1>2, <1>3 DEF IsListed
<1>9. ASSUME NEW h \in Heads(n) PROVE HeadOK(n, fat, h)
  <2>1. HeadOK(m, fat, h) /\ Begins(fat, h) /\ TableOK(fat)
    BY <1>7, HeadsBegin DEF Sound
  <2> DEFINE W == Locations(fat, h)
  <2>2. \A j \in DOMAIN W : W[j] \in CellPlace
    BY <2>1, LocationsAre DEF AreLocations
  <2>3. Tidy(n, W)
    BY <1>8, <2>1, <2>2 DEF HeadOK, Tidy
  <2>4. QED
    BY <1>5, <1>6, <1>8, <2>1, <2>3 DEF HeadOK
<1>10. ASSUME NEW a \in Places(n) PROVE EntryOK(n, fat, a)
  <2>1. EntryOK(m, fat, a) /\ a \in Places(m)
    BY <1>5 DEF Sound
  <2>2. \E h \in Heads(n) : a[1] \in Owned(fat, h)
    BY <1>7, <2>1 DEF EntryOK
  <2>3. CASE a = at
    BY <1>2, <1>3, <1>4, <2>2, <2>3 DEF EntryOK
  <2>4. CASE a # at
    <3> DEFINE s == At(m, a).start
    <3>1. At(n, a) = At(m, a)
      BY <1>5, <2>1, <2>4
    <3>2. ASSUME At(m, a).dir PROVE s # 0 /\ Dotted(n, s)
      <4>1. s # 0 /\ Dotted(m, s) /\ s \in OnDisk
        BY <2>1, <3>2 DEF EntryOK, StartOK, Begins
      <4>2. /\ <<s, 1>> \in CellPlace /\ <<s, 2>> \in CellPlace
            /\ \A i \in 1 .. 2 : At(m, <<s, i>>).kind = "entry" /\ ~IsListed(At(m, <<s, i>>))
        BY <4>1, DotsAreApart
      <4>3. \A i \in 1 .. 2 : <<s, i>> # at
        BY <1>1, <4>2
      <4>4. At(n, <<s, 1>>) = At(m, <<s, 1>>) /\ At(n, <<s, 2>>) = At(m, <<s, 2>>)
        BY <1>3, <4>2, <4>3
      <4>5. QED
        BY <4>1, <4>4 DEF Dotted
    <3>3. QED
      BY <2>1, <2>2, <3>1, <3>2 DEF EntryOK
  <2>5. QED
    BY <2>3, <2>4
<1>11. StartsDiffer(n)
  <2> SUFFICES ASSUME NEW a \in Places(n), NEW b \in Places(n),
                      At(n, a).start # 0, At(n, a).start = At(n, b).start
               PROVE  a = b
    BY DEF StartsDiffer
  <2>1. CASE a # at /\ b # at
    BY <1>5, <2>1 DEF Sound, StartsDiffer
  <2>2. CASE a = at /\ b # at
    BY <1>2, <1>3, <1>5, <2>2
  <2>3. CASE a # at /\ b = at
    BY <1>2, <1>3, <1>5, <2>3
  <2>4. QED
    BY <2>1, <2>2, <2>3
<1>12. \A a \in CellPlace : LfnOK(At(n, a))
  BY <1>3, <1>4 DEF Sound
<1>13. QED
  BY <1>2, <1>3, <1>4, <1>5, <1>9, <1>10, <1>11, <1>12 DEF Sound

-----------------------------------------------------------------------------
(* What the properties say follows from it                                 *)

LEMMA CellIsAt ==
  ASSUME NEW d \in SoundDisk, NEW a \in CellPlace
  PROVE  CellAt(d, a) = At(d.cluster, a) /\ KindAt(d, a) = At(d.cluster, a).kind
BY PlaceIs DEF CellAt, KindAt, At, CellPlace

LEMMA EntriesArePlaces ==
  ASSUME NEW d \in SoundDisk, NEW fat, Sound(d.cluster, fat), NEW h \in Heads(d.cluster)
  PROVE  \A a \in EntriesOf(d, fat, h) : a \in Places(d.cluster) /\ a[1] \in Owned(fat, h)
                                         /\ CellAt(d, a) = At(d.cluster, a)
<1> DEFINE W == Locations(fat, h)
<1>1. \A j \in DOMAIN W : W[j] \in CellPlace /\ W[j][1] \in Owned(fat, h)
  BY HeadsBegin, LocationsAre DEF AreLocations, Owned
<1>2. \A a \in EntriesOf(d, fat, h) : \E j \in DOMAIN W : a = W[j] /\ j \in Listed(d, W)
  BY DEF EntriesOf, Listed
<1> HIDE DEF W
<1>3. \A j \in Listed(d, W) : j \in DOMAIN W /\ IsListed(CellAt(d, W[j]))
  BY DEF Listed, IsListed, KindAt
<1>4. QED
  BY <1>1, <1>2, <1>3, CellIsAt DEF Places

LEMMA SubdirectoriesAreHeads ==
  ASSUME NEW d \in SoundDisk, NEW fat, Sound(d.cluster, fat)
  PROVE  \A h \in {ROOT_CLUSTER} \cup Subdirectories(d, fat) : h \in Heads(d.cluster)
<1>1. ROOT_CLUSTER \in Heads(d.cluster)
  BY HeadIs
<1>2. QED
  BY <1>1, EntriesArePlaces, HeadIs DEF Subdirectories

LEMMA AllArePlaces ==
  ASSUME NEW d \in SoundDisk, NEW fat, Sound(d.cluster, fat)
  PROVE  \A a \in AllEntries(d, fat) : a \in Places(d.cluster) /\ CellAt(d, a) = At(d.cluster, a)
<1>1. \A a \in AllEntries(d, fat) : \E h \in {ROOT_CLUSTER} \cup Subdirectories(d, fat) : a \in EntriesOf(d, fat, h)
  BY DEF AllEntries
<1>2. QED
  BY <1>1, SubdirectoriesAreHeads, EntriesArePlaces

LEMMA ChainSound ==
  ASSUME NEW fat, TableOK(fat), NEW h, Begins(fat, h)
  PROVE  ChainIsSound(fat, Chain(fat, h))
<1> DEFINE z == Chain(fat, h)
<1>1. IsChain(fat, z)
  BY ChainFrom
<1> HIDE DEF z
<1>2. /\ DOMAIN z = 1 .. Len(z) /\ Last(z) = z[Len(z)]
      /\ \A i \in 1 .. Len(z) : z[i] \in OnDisk /\ fat[z[i]] # 0
      /\ fat[z[Len(z)]] = FAT32_END_CLUSTER
  BY <1>1, ChainElements DEF IsChain
<1>3. QED
  BY <1>2 DEF ChainIsSound, FAT32_FREE_CLUSTER, z

LEMMA EntrySound ==
  ASSUME NEW d \in SoundDisk, NEW fat, Sound(d.cluster, fat), NEW a \in Places(d.cluster)
  PROVE  EntryIsSound(d, fat, At(d.cluster, a), Chain(fat, At(d.cluster, a).start))
<1> DEFINE m == d.cluster
           e == At(m, a)
           s == e.start
           z == Chain(fat, s)
<1>1. EntryOK(m, fat, a) /\ TableOK(fat) /\ m \in Map
  BY DEF Sound, SoundDisk, Map
<1>2. ChainIsSound(fat, z)
  <2>1. CASE s = 0
    <3>1. z = << >>
      BY <1>1, <2>1, NoChain DEF TableOK
    <3>2. QED
      BY <3>1 DEF ChainIsSound
  <2>2. CASE s # 0
    BY <1>1, <2>2, ChainSound DEF EntryOK, StartOK
  <2>3. QED
    BY <2>1, <2>2
<1>3. e.size <= Len(z) * CellsPerCluster
  BY <1>1 DEF EntryOK, Room
<1>4. ASSUME e.dir
      PROVE  /\ z # << >>
             /\ CellAt(d, <<s, 1>>) = Entry(Dot, TRUE, s, 0)
             /\ KindAt(d, <<s, 2>>) = "entry"
             /\ \A c \in ClustersOf(z), i \in 1 .. CellsPerCluster :
                    KindAt(d, <<c, i>>) \notin {"byte", "junk"}
  <2>1. s # 0 /\ Dotted(m, s) /\ Begins(fat, s) /\ s \in OnDisk
    BY <1>1, <1>4 DEF EntryOK, StartOK, Begins
  <2>2. z # << >>
    BY <1>1, <2>1, ChainFrom DEF IsChain
  <2>3. <<s, 1>> \in CellPlace /\ <<s, 2>> \in CellPlace
    BY <1>1, <2>1, DotsAreApart
  <2>4. CellAt(d, <<s, 1>>) = Entry(Dot, TRUE, s, 0) /\ KindAt(d, <<s, 2>>) = "entry"
    BY <2>1, <2>3, CellIsAt DEF Dotted
  <2>5. HeadOK(m, fat, s)
    BY <1>4, HeadIs DEF Sound
  <2>6. ASSUME NEW c \in ClustersOf(z), NEW i \in 1 .. CellsPerCluster
        PROVE  KindAt(d, <<c, i>>) \notin {"byte", "junk"}
    <3>1. c \in Owned(fat, s) /\ c \in OnDisk
      BY <1>1, <2>1, OwnedTaken DEF Owned
    <3>2. <<c, i>> \in CellPlace /\ <<c, i>>[1] = c
      BY <3>1 DEF CellPlace
    <3>3. QED
      BY <2>5, <3>1, <3>2, CellIsAt DEF HeadOK
  <2>7. QED
    BY <2>2, <2>4, <2>6
<1>5. QED
  BY <1>2, <1>3, <1>4 DEF EntryIsSound

LEMMA SoundIsSound ==
  ASSUME NEW d \in SoundDisk, NEW fat, Sound(d.cluster, fat)
  PROVE  DiskIsSound(d, fat)
<1> DEFINE m == d.cluster
           A == AllEntries(d, fat)
           s(a) == CellAt(d, a).start
           root == Chain(fat, ROOT_CLUSTER)
           chains == [a \in A |-> Chain(fat, s(a))]
<1>1. \A a \in A : a \in Places(m) /\ CellAt(d, a) = At(m, a)
  BY AllArePlaces
<1>2. TableOK(fat) /\ Begins(fat, ROOT_CLUSTER)
  BY DEF Sound
<1>3. ChainIsSound(fat, root)
  BY <1>2, ChainSound
<1>4. ASSUME NEW a \in A
      PROVE  s(a) = At(m, a).start /\ StartOK(fat, s(a)) /\ (s(a) = 0 => ClustersOf(Chain(fat, s(a))) = {})
  <2>1. s(a) = At(m, a).start
    BY <1>1
  <2>2. StartOK(fat, At(m, a).start)
    BY <1>1 DEF Sound, EntryOK
  <2>3. Chain(fat, 0) = << >>
    BY <1>2, NoChain DEF TableOK
  <2>4. ClustersOf(<< >>) = {}
    BY DEF ClustersOf
  <2>5. QED
    BY <2>1, <2>2, <2>3, <2>4
<1>5. \A a \in A : chains[a] = Chain(fat, s(a)) /\ EntryIsSound(d, fat, CellAt(d, a), chains[a])
  BY <1>1, EntrySound
<1>6. \A a \in A : ClustersOf(root) \cap ClustersOf(chains[a]) = {}
  BY <1>2, <1>4, ChainsDisjoint DEF StartOK
<1>7. ASSUME NEW a \in A, NEW b \in A, a # b
      PROVE  ClustersOf(chains[a]) \cap ClustersOf(chains[b]) = {}
  <2>1. CASE s(a) = 0 \/ s(b) = 0
    BY <1>4, <2>1
  <2>2. CASE s(a) # 0 /\ s(b) # 0
    <3>1. s(a) # s(b)
      BY <1>1, <1>4, <1>7, <2>2 DEF Sound, StartsDiffer
    <3>2. QED
      BY <1>2, <1>4, <2>2, <3>1, ChainsDisjoint DEF StartOK
  <2>3. QED
    BY <2>1, <2>2
<1>8. DOMAIN chains = A
  OBVIOUS
<1> HIDE DEF chains, root, A, s
<1>9. DiskIsSound(d, fat) <=>
         /\ ChainIsSound(fat, root)
         /\ \A at \in DOMAIN chains :
                /\ EntryIsSound(d, fat, CellAt(d, at), chains[at])
                /\ ClustersOf(root) \cap ClustersOf(chains[at]) = {}
         /\ \A a, b \in DOMAIN chains :
                a # b => ClustersOf(chains[a]) \cap ClustersOf(chains[b]) = {}
  BY DEF DiskIsSound, chains, root, A, s
<1>10. QED
  BY <1>3, <1>5, <1>6, <1>7, <1>8, <1>9

-----------------------------------------------------------------------------
(* Nothing is lost: every cluster that is taken belongs to the root, to what  *)
(* an entry leads to, or to a chain that is set apart in X; and every entry   *)
(* is in the root or in a directory that the root lists.                      *)

Starts(m) == {ROOT_CLUSTER} \cup {At(m, a).start : a \in Places(m)}
Tops(m, fat) ==
    {ROOT_CLUSTER} \cup {At(m, a).start : a \in {b \in Places(m) :
                            At(m, b).dir /\ b[1] \in Owned(fat, ROOT_CLUSTER)}}

HasOwner(m, fat, X, c) == \E s \in Starts(m) \cup X : Begins(fat, s) /\ c \in Owned(fat, s)

Whole(m, fat, X) ==
    /\ \A c \in OnDisk : fat[c] # 0 => HasOwner(m, fat, X, c)
    /\ \A a \in Places(m) : \E h \in Tops(m, fat) : a[1] \in Owned(fat, h)

LEMMA TopIs ==
  ASSUME NEW m, NEW fat, NEW h
  PROVE  /\ h \in Tops(m, fat) <=> \/ h = ROOT_CLUSTER
                                   \/ \E b \in Places(m) : /\ At(m, b).dir /\ At(m, b).start = h
                                                           /\ b[1] \in Owned(fat, ROOT_CLUSTER)
         /\ h \in Tops(m, fat) => h \in Heads(m)
BY DEF Tops, Heads

LEMMA StartIs ==
  ASSUME NEW m, NEW s
  PROVE  s \in Starts(m) <=> s = ROOT_CLUSTER \/ \E a \in Places(m) : At(m, a).start = s
BY DEF Starts

\* The directories of the root stay when the entries do.
LEMMA TopsStay ==
  ASSUME NEW m, NEW fat, NEW n, NEW g,
         \A a \in Places(m) : a \in Places(n) /\ At(n, a) = At(m, a),
         \A c \in Owned(fat, ROOT_CLUSTER) : c \in Owned(g, ROOT_CLUSTER)
  PROVE  Tops(m, fat) \subseteq Tops(n, g)
<1> SUFFICES ASSUME NEW h \in Tops(m, fat) PROVE h \in Tops(n, g)
  OBVIOUS
<1>1. CASE h = ROOT_CLUSTER
  BY <1>1, TopIs
<1>2. ASSUME NEW b \in Places(m), At(m, b).dir, At(m, b).start = h, b[1] \in Owned(fat, ROOT_CLUSTER)
      PROVE  h \in Tops(n, g)
  <2>1. b \in Places(n) /\ At(n, b).dir /\ At(n, b).start = h /\ b[1] \in Owned(g, ROOT_CLUSTER)
    BY <1>2
  <2>2. QED
    BY <2>1, TopIs
<1>3. QED
  BY <1>1, <1>2, TopIs

\* A cluster that is taken goes to a chain that belongs to something, or is set apart.
LEMMA GivenWhole ==
  ASSUME NEW m \in Map, NEW fat, Sound(m, fat), NEW p, NEW c, CanGive(fat, p, c),
         NEW n, SamePlaces(n, m), NEW g, g = Given(fat, p, c)
  PROVE  /\ Tops(m, fat) \subseteq Tops(n, g)
         /\ \A X, Y : /\ Whole(m, fat, X) /\ X \subseteq Y
                      /\ IF IsCluster(p) THEN HasOwner(m, fat, Y, p) ELSE c \in Y
                      => Whole(n, g, Y)
<1>1. TableOK(fat) /\ Begins(fat, ROOT_CLUSTER)
  BY DEF Sound
<1>2. \A h : Begins(fat, h) => Begins(g, h) /\ \A x \in Owned(fat, h) : x \in Owned(g, h)
  BY <1>1, GivenChains DEF Owned
<1>3. \A h : Begins(fat, h) /\ IsCluster(p) /\ p \in Owned(fat, h) => c \in Owned(g, h)
  BY <1>1, GivenChains DEF Owned
<1>4. ~IsCluster(p) => Begins(g, c) /\ c \in Owned(g, c)
  <2>1. TableOK(g)
    BY <1>1, GivenTable
  <2>2. QED
    BY <1>1, <2>1, GivenChains, OwnedTaken
<1>5. \A x \in OnDisk : g[x] # 0 => x = c \/ fat[x] # 0
  <2>1. \A x \in OnDisk : x \in Number
    BY ClustersOnDisk
  <2>2. IsCluster(p) => fat[p] # 0
    BY ClustersOnDisk DEF CanGive
  <2>3. QED
    BY <1>1, <2>1, <2>2, GivenEntries
<1>6. Places(n) = Places(m) /\ (\A a \in Places(m) : At(n, a) = At(m, a)) /\ Starts(n) = Starts(m)
  BY DEF SamePlaces, Starts
<1>7. Tops(m, fat) \subseteq Tops(n, g)
  BY <1>1, <1>2, <1>6, TopsStay
<1>8. ASSUME NEW X, NEW Y, Whole(m, fat, X), X \subseteq Y,
             IF IsCluster(p) THEN HasOwner(m, fat, Y, p) ELSE c \in Y
      PROVE  Whole(n, g, Y)
  <2>1. ASSUME NEW x \in OnDisk, g[x] # 0
        PROVE  HasOwner(n, g, Y, x)
    <3>1. CASE x # c
      <4>1. HasOwner(m, fat, X, x)
        BY <1>5, <1>8, <2>1, <3>1 DEF Whole
      <4>2. QED
        BY <1>2, <1>6, <1>8, <4>1 DEF HasOwner
    <3>2. CASE x = c /\ IsCluster(p)
      <4>1. PICK s \in Starts(m) \cup Y : Begins(fat, s) /\ p \in Owned(fat, s)
        BY <1>8, <3>2 DEF HasOwner
      <4>2. Begins(g, s) /\ x \in Owned(g, s)
        BY <1>2, <1>3, <3>2, <4>1
      <4>3. QED
        BY <1>6, <4>1, <4>2 DEF HasOwner
    <3>3. CASE x = c /\ ~IsCluster(p)
      BY <1>4, <1>8, <3>3 DEF HasOwner
    <3>4. QED
      BY <3>1, <3>2, <3>3
  <2>2. ASSUME NEW a \in Places(n)
        PROVE  \E h \in Tops(n, g) : a[1] \in Owned(g, h)
    <3>1. PICK h \in Tops(m, fat) : a[1] \in Owned(fat, h)
      BY <1>6, <1>8, <2>2 DEF Whole
    <3>2. Begins(fat, h)
      BY <3>1, TopIs, HeadsBegin
    <3>3. QED
      BY <1>2, <1>7, <3>1, <3>2
  <2>3. QED
    BY <2>1, <2>2 DEF Whole
<1>9. QED
  BY <1>7, <1>8

\* A chain that is set apart is given back.
LEMMA WithoutWhole ==
  ASSUME NEW m \in Map, NEW fat, Sound(m, fat), NEW h, Begins(fat, h), h # ROOT_CLUSTER,
         \A a \in Places(m) : At(m, a).start # h, Whole(m, fat, {h}),
         NEW g, g = Without(fat, h)
  PROVE  Whole(m, g, {})
<1>1. TableOK(fat) /\ Begins(fat, ROOT_CLUSTER)
  BY DEF Sound
<1>2. \A x : Begins(fat, x) /\ x # h => Begins(g, x) /\ Owned(g, x) = Owned(fat, x)
  BY <1>1, WithoutChains DEF Owned
<1>3. h \notin Starts(m)
  BY StartIs
<1>4. ASSUME NEW c \in OnDisk, g[c] # 0
      PROVE  HasOwner(m, g, {}, c)
  <2>1. c \in Number
    BY ClustersOnDisk
  <2>2. c \notin Owned(fat, h) /\ fat[c] # 0
    BY <1>1, <1>4, <2>1, ChainFrom DEF Without, Owned
  <2>3. PICK s \in Starts(m) \cup {h} : Begins(fat, s) /\ c \in Owned(fat, s)
    BY <2>2 DEF Whole, HasOwner
  <2>4. s # h /\ s \in Starts(m)
    BY <2>2, <2>3
  <2>5. QED
    BY <1>2, <2>3, <2>4 DEF HasOwner
<1>5. Tops(m, fat) \subseteq Tops(m, g)
  BY <1>1, <1>2, TopsStay
<1>6. ASSUME NEW a \in Places(m)
      PROVE  \E t \in Tops(m, g) : a[1] \in Owned(g, t)
  <2>1. PICK t \in Tops(m, fat) : a[1] \in Owned(fat, t)
    BY DEF Whole
  <2>2. t \in Heads(m)
    BY <2>1, TopIs
  <2>3. t # h
    BY <2>2, HeadIs
  <2>4. Begins(fat, t)
    BY <2>2, HeadsBegin
  <2>5. QED
    BY <1>2, <1>5, <2>1, <2>3, <2>4
<1>7. QED
  BY <1>4, <1>6 DEF Whole

\* An entry goes, and the chain that it leads to.
LEMMA DelistedWhole ==
  ASSUME NEW m \in Map, NEW fat, Sound(m, fat), NEW at \in Places(m), NEW s, s = At(m, at).start,
         At(m, at).dir => \A a \in Places(m) : a[1] \notin Owned(fat, s),
         NEW n, Places(n) \subseteq Places(m), \A a \in Places(n) : At(n, a) = At(m, a),
         \A a \in Places(m) : a # at => a \in Places(n),
         NEW g, g = IF s = 0 THEN fat ELSE Without(fat, s), Whole(m, fat, {})
  PROVE  Whole(n, g, {})
<1>1. TableOK(fat) /\ Begins(fat, ROOT_CLUSTER) /\ StartsDiffer(m) /\ EntryOK(m, fat, at)
  BY DEF Sound
<1>2. s = 0 \/ (Begins(fat, s) /\ s # ROOT_CLUSTER)
  BY <1>1 DEF EntryOK, StartOK
<1>3. ~Begins(fat, 0)
  BY ClustersOnDisk DEF Begins
<1>4. \A x : Begins(fat, x) /\ x # s => Begins(g, x) /\ Owned(g, x) = Owned(fat, x)
  <2>1. CASE s = 0
    BY <2>1
  <2>2. CASE s # 0
    BY <1>1, <1>2, <2>2, WithoutChains DEF Owned
  <2>3. QED
    BY <2>1, <2>2
<1>5. ROOT_CLUSTER # s
  BY <1>1, <1>2, <1>3
<1>6. ASSUME NEW c \in OnDisk, g[c] # 0
      PROVE  HasOwner(n, g, {}, c)
  <2>1. c \in Number
    BY ClustersOnDisk
  <2>2. (s # 0 => c \notin Owned(fat, s)) /\ fat[c] # 0
    BY <1>1, <1>2, <1>6, <2>1, ChainFrom DEF Without, Owned
  <2>3. PICK r \in Starts(m) : Begins(fat, r) /\ c \in Owned(fat, r)
    BY <2>2 DEF Whole, HasOwner
  <2>4. r # s
    BY <1>3, <2>2, <2>3
  <2>5. r \in Starts(n)
    <3>1. CASE r = ROOT_CLUSTER
      BY <3>1, StartIs
    <3>2. ASSUME NEW b \in Places(m), At(m, b).start = r
          PROVE  r \in Starts(n)
      <4>1. b \in Places(n) /\ At(n, b).start = r
        BY <2>4, <3>2
      <4>2. QED
        BY <4>1, StartIs
    <3>3. QED
      BY <2>3, <3>1, <3>2, StartIs
  <2>6. QED
    BY <1>4, <2>3, <2>4, <2>5 DEF HasOwner
<1>7. ASSUME NEW a \in Places(n)
      PROVE  \E t \in Tops(n, g) : a[1] \in Owned(g, t)
  <2>1. PICK t \in Tops(m, fat) : a[1] \in Owned(fat, t)
    BY DEF Whole
  <2>2. t \in Heads(m) /\ Begins(fat, t)
    BY <2>1, TopIs, HeadsBegin
  <2>3. CASE t = ROOT_CLUSTER
    BY <1>1, <1>4, <1>5, <2>1, <2>3, TopIs
  <2>4. ASSUME NEW b \in Places(m), At(m, b).dir, At(m, b).start = t, b[1] \in Owned(fat, ROOT_CLUSTER)
        PROVE  t # s /\ t \in Tops(n, g)
    <3>1. b # at
      <4>1. b = at => a[1] \notin Owned(fat, t)
        BY <1>7, <2>4
      <4>2. QED
        BY <2>1, <4>1
    <3>2. t # 0
      BY <1>3, <2>2
    <3>3. t # s
      BY <1>1, <2>4, <3>1, <3>2 DEF StartsDiffer
    <3>4. b \in Places(n) /\ At(n, b) = At(m, b) /\ b[1] \in Owned(g, ROOT_CLUSTER)
      BY <1>1, <1>4, <1>5, <2>4, <3>1
    <3>5. QED
      BY <2>4, <3>3, <3>4, TopIs
  <2>5. QED
    BY <1>4, <2>1, <2>2, <2>3, <2>4, TopIs
<1>8. QED
  BY <1>6, <1>7 DEF Whole

\* A directory of the root has an entry more, which may lead to what was set apart.
LEMMA ListedWhole ==
  ASSUME NEW m \in Map, NEW fat, NEW dir, dir \in Tops(m, fat), NEW e,
         NEW n \in Map, Places(m) \subseteq Places(n), \A a \in Places(m) : At(n, a) = At(m, a),
         \A a \in Places(n) : a \in Places(m) \/ At(n, a) = e,
         \A a \in CellPlace : a[1] \notin Owned(fat, dir) => At(n, a) = At(m, a)
  PROVE  /\ Tops(m, fat) \subseteq Tops(n, fat)
         /\ \A X, Y : /\ Whole(m, fat, X)
                      /\ X \subseteq Y \/ (X \subseteq Y \cup {e.start} /\ \E a \in Places(n) : At(n, a) = e)
                      => Whole(n, fat, Y)
<1>1. Tops(m, fat) \subseteq Tops(n, fat)
  BY TopsStay
<1>2. \A s \in Starts(m) : s \in Starts(n)
  BY DEF Starts
<1>3. ASSUME NEW X, NEW Y, Whole(m, fat, X),
             X \subseteq Y \/ (X \subseteq Y \cup {e.start} /\ \E a \in Places(n) : At(n, a) = e)
      PROVE  Whole(n, fat, Y)
  <2>1. X \subseteq Y \cup Starts(n)
    BY <1>3, StartIs
  <2>2. ASSUME NEW c \in OnDisk, fat[c] # 0
        PROVE  HasOwner(n, fat, Y, c)
    <3>1. HasOwner(m, fat, X, c)
      BY <1>3, <2>2 DEF Whole
    <3>2. QED
      BY <1>2, <2>1, <3>1 DEF HasOwner
  <2>3. ASSUME NEW a \in Places(n)
        PROVE  \E t \in Tops(n, fat) : a[1] \in Owned(fat, t)
    <3>1. CASE a \in Places(m)
      BY <1>1, <1>3, <3>1 DEF Whole
    <3>2. CASE a \notin Places(m)
      <4>1. a \in CellPlace /\ At(n, a) # At(m, a)
        BY <2>3, <3>2 DEF Places
      <4>2. QED
        BY <1>1, <4>1
    <3>3. QED
      BY <3>1, <3>2
  <2>4. QED
    BY <2>2, <2>3 DEF Whole
<1>4. QED
  BY <1>1, <1>3

\* Other cells change nothing.
LEMMA SameWhole ==
  ASSUME NEW m, NEW n, SamePlaces(n, m), NEW fat
  PROVE  Tops(n, fat) = Tops(m, fat) /\ \A X : Whole(m, fat, X) => Whole(n, fat, X)
<1>1. Places(n) = Places(m) /\ \A a \in Places(m) : At(n, a) = At(m, a)
  BY DEF SamePlaces
<1>2. Starts(n) = Starts(m)
  BY <1>1 DEF Starts
<1>3. Tops(n, fat) = Tops(m, fat)
  BY <1>1 DEF Tops
<1>4. QED
  BY <1>1, <1>2, <1>3 DEF Whole, HasOwner

\* A file's entry that led nowhere, or there already, leads to what was set apart.
LEMMA PatchedWhole ==
  ASSUME NEW m, NEW fat, NEW at \in Places(m), NEW s, ~At(m, at).dir, At(m, at).start \in {0, s},
         NEW n, Places(n) = Places(m), \A a \in Places(m) : a # at => At(n, a) = At(m, a),
         At(n, at).start = s, Whole(m, fat, {s})
  PROVE  Whole(n, fat, {})
<1>1. ~Begins(fat, 0)
  BY ClustersOnDisk DEF Begins
<1>2. \A r \in Starts(m) \cup {s} : r # 0 => r \in Starts(n)
  <2> SUFFICES ASSUME NEW r \in Starts(m) \cup {s}, r # 0 PROVE r \in Starts(n)
    OBVIOUS
  <2>1. CASE r = s
    BY <2>1, StartIs
  <2>2. CASE r = ROOT_CLUSTER
    BY <2>2, StartIs
  <2>3. ASSUME NEW b \in Places(m), At(m, b).start = r
        PROVE  r \in Starts(n)
    <3>1. CASE b = at
      BY <2>1, <2>3, <3>1
    <3>2. CASE b # at
      BY <2>3, <3>2, StartIs
    <3>3. QED
      BY <3>1, <3>2
  <2>4. QED
    BY <2>1, <2>2, <2>3, StartIs
<1>3. ASSUME NEW c \in OnDisk, fat[c] # 0
      PROVE  HasOwner(n, fat, {}, c)
  <2>1. PICK r \in Starts(m) \cup {s} : Begins(fat, r) /\ c \in Owned(fat, r)
    BY <1>3 DEF Whole, HasOwner
  <2>2. QED
    BY <1>1, <1>2, <2>1 DEF HasOwner
<1>4. \A h \in Tops(m, fat) : h \in Tops(n, fat)
  <2> SUFFICES ASSUME NEW h \in Tops(m, fat), h # ROOT_CLUSTER PROVE h \in Tops(n, fat)
    BY TopIs
  <2>1. PICK b \in Places(m) : At(m, b).dir /\ At(m, b).start = h /\ b[1] \in Owned(fat, ROOT_CLUSTER)
    BY TopIs
  <2>2. b # at
    BY <2>1
  <2>3. QED
    BY <2>1, <2>2, TopIs
<1>5. QED
  BY <1>3, <1>4 DEF Whole

=============================================================================
