------------------------------- MODULE Fat32 --------------------------------
(***************************************************************************)
(* The FAT32 file system (fat32.cpp) on its disk (blockdev.cpp, ide.cpp),  *)
(* called by its VFS adapter (fat32_vfs.cpp).                              *)
(*                                                                         *)
(* A call runs to its end before the next one begins, but its transfers    *)
(* are told apart: one of them may fail (the drive reports an error or     *)
(* times out), fail although the sector was written (the wait after the    *)
(* last word fails), or be the first one that a power cut prevents.  A     *)
(* call is a chain of operators on a record k: the memory, the disk and    *)
(* the fault still to come.                                                *)
(*                                                                         *)
(* A cluster is one sector, as on the repository's image, of CellsPer-     *)
(* Cluster cells; a cell is a directory entry or a byte of a file.  A long *)
(* name takes one LFN entry (at most 13 characters).  kmalloc returning    *)
(* null has the outcome of the next transfer failing, except in            *)
(* fat32_allocate_cluster, which counts it as a transfer of its own.       *)
(***************************************************************************)
EXTENDS Integers, Sequences, FiniteSets, SequencesExt

CONSTANTS CellsPerCluster,     \* cluster_size, in cells
          DiskEnd,             \* the clusters of the disk are 2 .. DiskEnd - 1
          FatEntries,          \* entries of fat_table
          EntriesPerSector,    \* entries of one sector of the table
          NumFats,             \* boot_sector.num_fats
          TotalSectors32,      \* boot_sector.total_sectors_32
          DataStart,           \* data_start_sector
          WordSize,            \* 2^32, scaled to what TLC can count
          COUNT_RANGE,         \* 2^8: blockdev_read and blockdev_write count in a byte
          FAT32_END_CLUSTER,
          FAT32_MAX_OPEN_FILES,
          Spelling,            \* name -> its short form, alias base and need of an LFN
          Readme,              \* the file on the image
          Paths,               \* bound: the paths that are used
          Texts,               \* bound: what is written in one call
          ReadSizes,           \* bound: how much is read in one call
          Positions,           \* bound: where a file is positioned
          MAX_FAULTS,          \* bound: failing transfers and power cuts
          MAX_CALLS            \* bound: calls that change anything

\* fat32_mount: the 16-bit count of sectors, the one of the repository's image,
\* is not looked at.
total_clusters == (TotalSectors32 - DataStart) % WordSize

FatSectors == (FatEntries + EntriesPerSector - 1) \div EntriesPerSector

ASSUME Fat32Assumption ==
    /\ CellsPerCluster \in Nat /\ CellsPerCluster >= 2
    /\ DiskEnd \in Nat /\ DiskEnd > 3
    /\ FatEntries \in Nat /\ FatEntries >= DiskEnd
    /\ EntriesPerSector \in Nat \ {0}
    /\ NumFats \in Nat \ {0}
    /\ TotalSectors32 \in Nat /\ DataStart \in Nat
    /\ WordSize \in Nat \ {0}
    /\ FAT32_END_CLUSTER \in Nat /\ FAT32_END_CLUSTER > FatEntries
    /\ FAT32_MAX_OPEN_FILES \in Nat \ {0}
    /\ IsFiniteSet(DOMAIN Spelling) /\ \A n \in DOMAIN Spelling : Spelling[n].lfn \in BOOLEAN
    /\ Readme \in DOMAIN Spelling /\ Spelling[Readme].lfn
    /\ Texts \subseteq Seq(Nat) /\ ReadSizes \subseteq Nat /\ Positions \subseteq Nat
    /\ \A p \in Paths : p \in Seq(DOMAIN Spelling) /\ p # << >> /\ Len(p) <= 2
    /\ MAX_FAULTS \in Nat /\ MAX_CALLS \in Nat

\* No name that is used is empty or spelled like a dot entry.
ASSUME SpellingAssumption ==
    /\ "" \notin DOMAIN Spelling
    /\ \A n \in DOMAIN Spelling : Spelling[n].short \notin {<<".", 0>>, <<"..", 0>>}

\* The table fits one transfer: the repository's image has 252 sectors of it.  And
\* when the count of clusters is past the table, the table has an entry that
\* stands for no sector of the disk: 32256 entries on the image, for clusters up
\* to 32233.
ASSUME TableAssumption ==
    /\ COUNT_RANGE \in Nat /\ FatSectors < COUNT_RANGE
    /\ total_clusters > FatEntries => FatEntries > DiskEnd

VARIABLES disk,      \* the FAT copies and the clusters, see Disk
          mem,       \* mounted, fs_info.fat_table and open_files
          causes,    \* history: what has gone wrong, see CauseOf
          broken,    \* the disk is no longer sound, see DiskIsSound
          shown,     \* the tree that the disk shows, see Tree
          last,      \* history: the last call and its outcome, see Answer
          calls      \* how many calls changed anything

vars == <<disk, mem, causes, broken, shown, last, calls>>

FAT32_FREE_CLUSTER == 0
ROOT_CLUSTER == 2
Fd == 1 .. FAT32_MAX_OPEN_FILES
Name == DOMAIN Spelling
NoShort == <<"", 0>>                      \* the name does not fit 8.3
OnDisk == 2 .. DiskEnd - 1                \* what the device's range check lets through

FirstOf(S) == CHOOSE i \in S : \A j \in S : i <= j

-----------------------------------------------------------------------------
(* Cells.  A zero is the end mark of a directory and a byte of a file.     *)

Zero == [kind |-> "zero"]
Deleted == [kind |-> "deleted"]
Lfn(name, short) == [kind |-> "lfn", name |-> name, checksum_of |-> short]
Entry(short, dir, start, size) ==
    [kind |-> "entry", name |-> short, dir |-> dir, start |-> start, size |-> size]
Byte(b) == [kind |-> "byte", value |-> b]
Junk == [kind |-> "junk"]

Dot == <<".", 0>>
DotDot == <<"..", 0>>
Zeros == [i \in 1 .. CellsPerCluster |-> Zero]
ShortName == {Spelling[n].short : n \in Name} \cup {Dot, DotDot}
             \cup {<<Spelling[n].base, i>> : n \in Name, i \in 1 .. Cardinality(Name)}

Cell == {Zero, Deleted, Junk} \cup [kind : {"byte"}, value : Nat]
        \cup [kind : {"lfn"}, name : Name, checksum_of : ShortName]
        \cup [kind : {"entry"}, name : ShortName, dir : BOOLEAN,
              start : 0 .. FatEntries, size : Nat]

Disk == [fat : [1 .. NumFats -> [0 .. FatEntries - 1 -> Nat]],
         cluster : [OnDisk -> [1 .. CellsPerCluster -> Cell]]]

ClosedFile == [in_use |-> FALSE, start_cluster |-> 0, current_cluster |-> 0,
               last_cluster |-> 0, position |-> 0, cluster_position |-> 0,
               file_size |-> 0, dir_entry |-> <<0, 0>>, removed |-> FALSE]

\* removed is history: the file was removed while it was open.
OpenFile == [in_use : BOOLEAN, start_cluster : 0 .. FatEntries,
             current_cluster : 0 .. FatEntries \cup {FAT32_END_CLUSTER},
             last_cluster : 0 .. FatEntries, position : Nat,
             cluster_position : 0 .. CellsPerCluster, file_size : Nat,
             dir_entry : (0 .. FatEntries) \X (0 .. CellsPerCluster),
             removed : BOOLEAN]

NoTable == [c \in 0 .. FatEntries - 1 |-> 0]
Unmounted == [mounted |-> FALSE, fat |-> NoTable, open |-> [fd \in Fd |-> ClosedFile]]

-----------------------------------------------------------------------------
(* blockdev.cpp, ide.cpp: one transfer, which may be the one that fails.   *)

FaultKind == {"error", "late", "power"}
NoFault == [at |-> 0, kind |-> "none"]

Begin(fault) ==
    [disk |-> disk, fat |-> mem.fat, open |-> mem.open,
     ok |-> TRUE,          \* whether the last transfer succeeded
     ret |-> 0,            \* what the last operator answered
     made |-> 0,           \* transfers so far
     fault |-> fault,      \* the transfer to fail, and how
     hit |-> << >>,        \* which transfer was hit
     dead |-> FALSE,       \* the power is off
     full |-> FALSE,       \* no free cluster was found
     off |-> FALSE,        \* the free cluster that was found is not on the disk
     entry |-> Zero, at |-> <<0, 0>>, dir |-> ROOT_CLUSTER,   \* what a lookup found
     short |-> NoShort, lfn |-> FALSE,                        \* the name of a new entry
     locations |-> << >>, data |-> << >>]

Transfer(k, what, kinds) ==
    LET struck == k.made + 1 = k.fault.at /\ k.fault.kind \in kinds
    IN  [k EXCEPT !.made = @ + 1,
                  !.ok = ~k.dead /\ ~struck,
                  !.hit = IF struck THEN what ELSE @,
                  !.dead = @ \/ (struck /\ k.fault.kind = "power")]

\* A write that is reported as failed may have reached the disk.
Landed(before, after) ==
    after.ok \/ (after.hit # before.hit /\ after.fault.kind = "late")

fat32_read_cluster(k, c) ==
    IF c \in OnDisk THEN Transfer(k, <<"read">>, {"error"}) ELSE [k EXCEPT !.ok = FALSE]

fat32_write_cluster(k, c, cells, what) ==
    LET Written(t) == IF Landed(k, t) THEN [t EXCEPT !.disk.cluster[c] = cells] ELSE t
    IN  IF c \in OnDisk THEN Written(Transfer(k, what, FaultKind)) ELSE [k EXCEPT !.ok = FALSE]

\* The sectors of the table that a call transfers: fat_size, made a uint8_t.  They
\* are transferred one by one.
Count == FatSectors % COUNT_RANGE
SectorOf(c) == (c \div EntriesPerSector) + 1

WriteFatSector(k, copy, sector) ==
    LET Written(t) ==
            IF ~Landed(k, t) THEN t
            ELSE [t EXCEPT !.disk.fat[copy] =
                      [c \in DOMAIN @ |-> IF SectorOf(c) = sector THEN k.fat[c] ELSE @[c]]]
    IN  Written(Transfer(k, <<"fat", copy, sector>>, FaultKind))

\* Mutant: only the copy that is read is written.
fat32_flush_fat_FirstCopy(k) ==
    LET Write(t, n) == IF t.ok THEN WriteFatSector(t, 1, n) ELSE t
        flush[n \in 0 .. Count] ==
            IF n = 0 THEN [k EXCEPT !.ok = TRUE] ELSE Write(flush[n - 1], n)
    IN  flush[Count]

\* Copy after copy, until one fails.
fat32_flush_fat(k) ==
    LET Write(t, n) ==
            IF t.ok THEN WriteFatSector(t, (n \div Count) + 1, (n % Count) + 1) ELSE t
        flush[n \in 0 .. NumFats * Count] ==
            IF n = 0 THEN [k EXCEPT !.ok = TRUE] ELSE Write(flush[n - 1], n - 1)
    IN  flush[NumFats * Count]

-----------------------------------------------------------------------------
(* Chains of clusters.                                                     *)

fat32_get_next_cluster(fat, c) ==
    IF c >= total_clusters THEN FAT32_END_CLUSTER ELSE fat[c]

IsCluster(c) == c >= 2 /\ c < FAT32_END_CLUSTER

\* The clusters from start on, link after link; a walk that meets one again ends
\* here.
Walk(link, start) ==
    LET Extended(chain, next) ==
            IF IsCluster(next) /\ ~\E i \in DOMAIN chain : chain[i] = next
            THEN Append(chain, next) ELSE chain
        Followed(chain) ==
            IF chain = << >> THEN chain ELSE Extended(chain, link[Last(chain)])
        walk[n \in 0 .. FatEntries] ==
            IF n = 0 THEN IF IsCluster(start) THEN <<start>> ELSE << >>
            ELSE Followed(walk[n - 1])
    IN  walk[FatEntries]

\* Files and directories are read along fat32_get_next_cluster ...
Links(fat) == [c \in DOMAIN fat |-> fat32_get_next_cluster(fat, c)]
Chain(fat, start) == Walk(Links(fat), start)

\* ... but the end of a chain is found, and a chain is freed, along fat_table.
fat32_get_last_cluster(fat, start) ==
    IF IsCluster(start) THEN Last(Walk(fat, start)) ELSE start

\* Mutant: the entry of a cluster that cannot be cleared stays taken.
Uncleared_Taken(t, c) == [t EXCEPT !.ret = 0, !.off = c \notin OnDisk]

\* The new cluster could not be cleared.
Uncleared(t, c) ==
    [t EXCEPT !.fat[c] = FAT32_FREE_CLUSTER, !.ret = 0, !.off = c \notin OnDisk]

\* The link of the previous cluster stays when clearing the new one fails.  The
\* search goes up to total_clusters; SearchStaysInTable says why it ends in the
\* table.
fat32_allocate_cluster(k, previous) ==
    LET Flushed(t, c) == [t EXCEPT !.ret = IF t.ok THEN c ELSE 0]
        Cleared(t, c) ==
            IF t.ok THEN Flushed(fat32_flush_fat(t), c)
            ELSE Uncleared(t, c)
        Taken(t, c) ==
            [t EXCEPT !.fat = [n \in DOMAIN @ |-> IF n = previous /\ IsCluster(n) THEN c
                                                  ELSE IF n = c THEN FAT32_END_CLUSTER
                                                  ELSE @[n]]]
        Take(t, c) == Cleared(fat32_write_cluster(Taken(t, c), c, Zeros, <<"clear">>), c)
        Search(t, free) ==
            IF ~t.ok THEN [t EXCEPT !.ret = 0]
            ELSE IF free = {} THEN [t EXCEPT !.ret = 0, !.full = TRUE]
            ELSE Take(t, FirstOf(free))
    IN  Search(Transfer(k, <<"memory">>, {"error"}),
               {c \in 2 .. FatEntries - 1 :
                    c < total_clusters /\ k.fat[c] = FAT32_FREE_CLUSTER})

\* Nobody learns whether the table reached the disk.
fat32_free_cluster_chain(k, start) ==
    LET Freed(chain) ==
            [k EXCEPT !.fat = [c \in DOMAIN @ |-> IF \E i \in DOMAIN chain : chain[i] = c
                                                  THEN FAT32_FREE_CLUSTER ELSE @[c]]]
    IN  IF IsCluster(start) THEN fat32_flush_fat(Freed(Walk(k.fat, start))) ELSE k

-----------------------------------------------------------------------------
(* Directories: the cells of a directory's clusters, in order.             *)

Locations(fat, dir) ==
    LET Cells(chain) ==
            [j \in 1 .. Len(chain) * CellsPerCluster |->
                <<chain[((j - 1) \div CellsPerCluster) + 1], ((j - 1) % CellsPerCluster) + 1>>]
    IN  Cells(Chain(fat, dir))

\* The clusters of the first n locations.
ClustersUpTo(where, n) ==
    [q \in 1 .. (n + CellsPerCluster - 1) \div CellsPerCluster |->
        where[(q - 1) * CellsPerCluster + 1][1]]

CellAt(d, at) == IF at[1] \in OnDisk THEN d.cluster[at[1]][at[2]] ELSE Zero
KindAt(d, at) == CellAt(d, at).kind

ReadClusters(k, clusters) ==
    LET Read(t, c) == IF t.ok THEN fat32_read_cluster(t, c) ELSE t
        read[i \in 0 .. Len(clusters)] ==
            IF i = 0 THEN [k EXCEPT !.ok = TRUE] ELSE Read(read[i - 1], clusters[i])
    IN  read[Len(clusters)]

\* Stops at the end mark or at the first location the callback wants; answers
\* 1 and the location, 0 when there is none, -1 when a cluster is not readable.
fat32_iterate_directory(k, dir, wanted) ==
    LET Answer(t, where, stop) ==
            IF ~t.ok THEN [t EXCEPT !.ret = -1]
            ELSE IF stop \in wanted
                 THEN [t EXCEPT !.ret = 1, !.at = where[stop], !.dir = dir,
                                !.entry = CellAt(k.disk, where[stop])]
            ELSE [t EXCEPT !.ret = 0]
        Until(where, stop) ==
            Answer(ReadClusters(k, ClustersUpTo(where, stop)), where, stop)
        Stops(where) ==
            wanted \cup {j \in DOMAIN where : KindAt(k.disk, where[j]) = "zero"}
        Iterate(where) ==
            Until(where, FirstOf(Stops(where) \cup {Len(where)}))
    IN  Iterate(Locations(k.fat, dir))

\* The long name of the entry, if the LFN before it carries its checksum.
LongNameOf(d, where, j) ==
    IF /\ j > 1
       /\ KindAt(d, where[j - 1]) = "lfn"
       /\ CellAt(d, where[j - 1]).checksum_of = CellAt(d, where[j]).name
    THEN CellAt(d, where[j - 1]).name ELSE ""

Named(k, dir, name) ==
    LET Matching(where) ==
            {j \in DOMAIN where :
                /\ KindAt(k.disk, where[j]) = "entry"
                /\ \/ LongNameOf(k.disk, where, j) = name
                   \/ CellAt(k.disk, where[j]).name = Spelling[name].short}
    IN  Matching(Locations(k.fat, dir))

\* find_entry_in_directory: not readable is as good as not there.
fat32_find_entry_in_directory(k, dir, name) ==
    LET t == fat32_iterate_directory(k, dir, Named(k, dir, name))
    IN  [t EXCEPT !.ret = IF @ = 1 THEN 0 ELSE -1]

RootEntry == Entry(NoShort, TRUE, ROOT_CLUSTER, 0)

fat32_lookup_path(k, path) ==
    LET Into(t, name) ==
            IF t.ret # 0 THEN t
            ELSE IF ~t.entry.dir THEN [t EXCEPT !.ret = -1]
            ELSE fat32_find_entry_in_directory(t, t.entry.start, name)
        walk[i \in 0 .. Len(path)] ==
            IF i = 0 THEN [k EXCEPT !.ret = 0, !.entry = RootEntry]
            ELSE Into(walk[i - 1], path[i])
    IN  walk[Len(path)]

\* The callback of rmdir's listing stops at the first entry but the dots.
Listed(d, where) ==
    {j \in DOMAIN where : /\ KindAt(d, where[j]) = "entry"
                          /\ CellAt(d, where[j]).name \notin {Dot, DotDot}}

fat32_short_name_exists(k, dir, short) ==
    LET Same(where) ==
            {j \in DOMAIN where : /\ KindAt(k.disk, where[j]) = "entry"
                                  /\ CellAt(k.disk, where[j]).name = short}
    IN  fat32_iterate_directory(k, dir, Same(Locations(k.fat, dir)))

\* The first alias that is not taken; every one is looked up on the disk.
fat32_generate_unique_short_name(k, dir, name) ==
    LET Tried(t, short) ==
            IF t.ret # 1 THEN t
            ELSE [fat32_short_name_exists(t, dir, short) EXCEPT !.short = short]
        try[i \in 0 .. Cardinality(Name)] ==
            IF i = 0 THEN [k EXCEPT !.ret = 1]
            ELSE Tried(try[i - 1], <<Spelling[name].base, i>>)
    IN  try[Cardinality(Name)]

\* Mutant: a long name takes its first alias unseen.
fat32_prepare_short_name_Unseen(k, dir, name) ==
    IF Spelling[name].short # NoShort
    THEN [k EXCEPT !.ret = 0, !.short = Spelling[name].short, !.lfn = Spelling[name].lfn]
    ELSE [k EXCEPT !.ret = 0, !.short = <<Spelling[name].base, 1>>, !.lfn = TRUE]

fat32_prepare_short_name(k, dir, name) ==
    LET short == Spelling[name].short
        Prepared(t, taken) ==
            IF taken THEN [fat32_generate_unique_short_name(t, dir, name) EXCEPT !.lfn = TRUE]
            ELSE [t EXCEPT !.short = short, !.lfn = Spelling[name].lfn]
        Seen(t) == Prepared(t, short = NoShort \/ t.ret = 1)
    IN  Seen(IF short = NoShort THEN k ELSE fat32_short_name_exists(k, dir, short))

\* The first run of free cells; if there is none the directory grows, and the
\* run may begin in its old last cluster.
fat32_directory_reserve_entries(k, dir, count) ==
    LET Free(where, j) == KindAt(k.disk, where[j]) \in {"zero", "deleted"}
        Runs(where) == {j \in 1 .. Len(where) - count + 1 :
                            \A i \in 0 .. count - 1 : Free(where, j + i)}
        TailOf(where) == FirstOf({j \in 1 .. Len(where) + 1 :
                                      \A i \in j .. Len(where) : Free(where, i)})
        Answer(t, where, first) ==
            [t EXCEPT !.ret = IF t.ok THEN 0 ELSE -1,
                      !.locations = SubSeq(where, first, first + count - 1)]
        Found(where, first) ==
            Answer(ReadClusters(k, ClustersUpTo(where, first + count - 1)), where, first)
        Grown(t, where) ==
            IF t.ret = 0 THEN [t EXCEPT !.ret = -1]
            ELSE Answer(fat32_read_cluster(t, t.ret),
                        where \o [i \in 1 .. CellsPerCluster |-> <<t.ret, i>>], TailOf(where))
        Grow(t, where) ==
            IF t.ok THEN Grown(fat32_allocate_cluster(t, Last(where)[1]), where)
            ELSE [t EXCEPT !.ret = -1]
        Reserve(where) ==
            IF Runs(where) # {} THEN Found(where, FirstOf(Runs(where)))
            ELSE Grow(ReadClusters(k, ClustersUpTo(where, Len(where))), where)
    IN  Reserve(Locations(k.fat, dir))

\* Cluster by cluster: read it, put its new entries in, write it.
fat32_write_directory_entries(k, cells) ==
    LET where == k.locations
        clusters == [i \in DOMAIN where |-> where[i][1]]
        Filled(t, c) == [i \in 1 .. CellsPerCluster |->
            IF \E n \in DOMAIN where : where[n] = <<c, i>>
            THEN cells[CHOOSE n \in DOMAIN where : where[n] = <<c, i>>]
            ELSE t.disk.cluster[c][i]]
        Fill(t, c) ==
            IF t.ok THEN fat32_write_cluster(t, c, Filled(t, c), <<"entry", c>>) ELSE t
        Write(t, i) ==
            IF ~t.ok \/ (i > 1 /\ clusters[i] = clusters[i - 1]) THEN t
            ELSE Fill(fat32_read_cluster(t, clusters[i]), clusters[i])
        write[i \in 0 .. Len(where)] ==
            IF i = 0 THEN [k EXCEPT !.ok = TRUE] ELSE Write(write[i - 1], i)
    IN  write[Len(where)]

\* What create and mkdir share: a short name, room for the entries, the entries.
AddEntry(k, dir, name, is_dir, start) ==
    LET Answer(t) == [t EXCEPT !.ret = IF t.ok THEN 0 ELSE -1]
        Cells(short, lfn) ==
            (IF lfn THEN <<Lfn(name, short)>> ELSE << >>) \o <<Entry(short, is_dir, start, 0)>>
        Reserved(t) ==
            IF t.ret # 0 THEN t
            ELSE Answer(fat32_write_directory_entries(t, Cells(t.short, t.lfn)))
        Prepared(t) ==
            IF t.ret # 0 THEN [t EXCEPT !.ret = -1]
            ELSE Reserved(fat32_directory_reserve_entries(t, dir, IF t.lfn THEN 2 ELSE 1))
    IN  Prepared(fat32_prepare_short_name(k, dir, name))

Failing(k) == [k EXCEPT !.ret = -1]

\* The directory a new entry goes to: the path itself must not be found.
ParentOf(k, path) ==
    LET Parent(t) == IF t.ret # 0 \/ ~t.entry.dir THEN Failing(t) ELSE t
        Looked(t) == IF t.ret = 0 THEN Failing(t) ELSE Parent(fat32_lookup_path(t, Front(path)))
    IN  Looked(fat32_lookup_path(k, path))

fat32_create(k, path) ==
    LET In(parent) == IF parent.ret # 0 THEN parent
                      ELSE AddEntry(parent, parent.entry.start, Last(path), FALSE, 0)
    IN  In(ParentOf(k, path))

\* "." and "..", and nothing behind them.
fat32_init_directory(k, c, parent) ==
    fat32_write_cluster(k, c, [i \in 1 .. CellsPerCluster |->
        CASE i = 1 -> Entry(Dot, TRUE, c, 0)
          [] i = 2 -> Entry(DotDot, TRUE, parent, 0)
          [] OTHER -> Zero], <<"dots">>)

\* Mutant: the directory's entry is written before its cluster is set up.
fat32_mkdir_path_EntryFirst(k, path) ==
    LET parent == ParentOf(k, path)
        allocated == fat32_allocate_cluster(parent, 0)
        c == allocated.ret
        added == AddEntry(allocated, parent.entry.start, Last(path), TRUE, c)
        dotted == fat32_init_directory(added, c, parent.entry.start)
    IN  IF parent.ret # 0 THEN parent
        ELSE IF c = 0 THEN Failing(allocated)
        ELSE IF added.ret # 0 THEN Failing(fat32_free_cluster_chain(added, c))
        ELSE dotted

\* Whatever fails after the allocation gives the cluster back.
fat32_mkdir_path(k, path) ==
    LET Added(t, c) == IF t.ret # 0 THEN Failing(fat32_free_cluster_chain(t, c)) ELSE t
        Dotted(t, dir, c) ==
            IF ~t.ok THEN Failing(fat32_free_cluster_chain(t, c))
            ELSE Added(AddEntry(t, dir, Last(path), TRUE, c), c)
        Allocated(t, dir) ==
            IF t.ret = 0 THEN Failing(t)
            ELSE Dotted(fat32_init_directory(t, t.ret, dir), dir, t.ret)
        In(parent) == IF parent.ret # 0 THEN parent
                      ELSE Allocated(fat32_allocate_cluster(parent, 0), parent.entry.start)
    IN  In(ParentOf(k, path))

\* The entry, then the LFN entries right before it, cluster by cluster; a cluster
\* that is not the directory's (any more) has none before it.
fat32_mark_entry_deleted(k, dir, at) ==
    LET ClusterOf(j) == ((j - 1) \div CellsPerCluster) + 1
        Cleared(t, c, gone) == [i \in 1 .. CellsPerCluster |->
            IF <<c, i>> \in gone THEN Deleted ELSE t.disk.cluster[c][i]]
        Clear(t, c, gone, what) ==
            IF ~t.ok \/ gone = {} THEN t
            ELSE fat32_write_cluster(t, c, Cleared(t, c, gone), what)
        LfnIn(where, first, own, q) ==
            {where[j] : j \in {i \in first .. own - 1 : ClusterOf(i) = q}}
        Step(t, c, gone, is_own) ==
            Clear(IF is_own THEN t ELSE fat32_read_cluster(t, c), c, gone, <<"unlist_lfn">>)
        Through(t, where, first, own, q) ==
            IF t.ok /\ (q = ClusterOf(own) \/ first <= q * CellsPerCluster + 1)
            THEN Step(t, where[(q - 1) * CellsPerCluster + 1][1],
                      LfnIn(where, first, own, q), q = ClusterOf(own))
            ELSE t
        Back(t, where, first, own) ==
            LET back[n \in 0 .. ClusterOf(own)] ==
                    IF n = 0 THEN t
                    ELSE Through(back[n - 1], where, first, own, ClusterOf(own) + 1 - n)
            IN  back[ClusterOf(own)]
        FirstLfn(where, own) ==
            FirstOf({i \in 1 .. own : \A m \in i .. own - 1 :
                         KindAt(k.disk, where[m]) = "lfn"})
        Marked(t, where, own) == IF t.ok THEN Back(t, where, FirstLfn(where, own), own) ELSE t
        Mark(where) ==
            Marked(Clear(fat32_read_cluster(k, at[1]), at[1], {at}, <<"unlist">>), where,
                   CHOOSE j \in DOMAIN where : where[j] = at)
        Around(where) ==
            IF \E j \in DOMAIN where : where[j] = at THEN where
            ELSE [i \in 1 .. CellsPerCluster |-> <<at[1], i>>]
    IN  Mark(Around(Locations(k.fat, dir)))

\* Mutant: the clusters stay allocated.
Unlink_KeepClusters(k) == fat32_mark_entry_deleted(k, k.dir, k.at)

\* What remove and rmdir share: the clusters go first, then the entry.  An
\* open file is not looked for.
Unlink(k) ==
    LET Answer(t) ==
            [t EXCEPT
                !.ret = IF t.ok THEN 0 ELSE -1,
                !.open = [fd \in Fd |-> [t.open[fd] EXCEPT
                             !.removed = @ \/ (k.open[fd].in_use /\ k.open[fd].dir_entry = k.at)]]]
    IN  Answer(fat32_mark_entry_deleted(fat32_free_cluster_chain(k, k.entry.start), k.dir, k.at))

fat32_remove(k, path) ==
    LET Found(t) == IF t.ret # 0 \/ t.entry.dir THEN Failing(t) ELSE Unlink(t)
    IN  Found(fat32_lookup_path(k, path))

fat32_rmdir_path(k, path) ==
    LET Seen(t) == IF t.ret # 0 THEN Failing(t) ELSE Unlink(t)
        Found(t) ==
            IF t.ret # 0 \/ ~t.entry.dir THEN Failing(t)
            ELSE Seen(fat32_iterate_directory(t, t.entry.start,
                          Listed(t.disk, Locations(t.fat, t.entry.start))))
    IN  Found(fat32_lookup_path(k, path))

-----------------------------------------------------------------------------
(* Open files.                                                             *)

\* The adapter looks the path up before fat32_open does.
fat32_open(k, path) ==
    LET free == {fd \in Fd : ~k.open[fd].in_use}
        Opened(t) ==
            IF t.ret # 0 \/ t.entry.dir \/ free = {} THEN Failing(t)
            ELSE [t EXCEPT !.open[FirstOf(free)] =
                     [ClosedFile EXCEPT
                         !.in_use = TRUE, !.start_cluster = t.entry.start,
                         !.current_cluster = t.entry.start,
                         !.last_cluster = fat32_get_last_cluster(t.fat, t.entry.start),
                         !.file_size = t.entry.size, !.dir_entry = t.at]]
        Found(t) == IF t.ret # 0 \/ t.entry.dir THEN Failing(t)
                    ELSE Opened(fat32_lookup_path(t, path))
    IN  Found(fat32_lookup_path(k, path))

fat32_close(k, fd) == [k EXCEPT !.open[fd] = ClosedFile]

Least(a, b) == IF a < b THEN a ELSE b

\* Mutant: the next turn begins in the cluster that was read to its end.
ReadTurn_StayInCluster(k, fd, size) ==
    LET f == k.open[fd]
        r == fat32_read_cluster(k, f.current_cluster)
        n == Least(size - Len(k.data), CellsPerCluster - f.cluster_position)
        used == f.cluster_position + n
    IN  IF ~r.ok THEN Failing(r)
        ELSE [r EXCEPT
                 !.data = @ \o SubSeq(k.disk.cluster[f.current_cluster],
                                      f.cluster_position + 1, used),
                 !.open[fd].position = @ + n,
                 !.open[fd].cluster_position = IF used >= CellsPerCluster THEN 0 ELSE used]

\* One turn of the loop: what is wanted of the current cluster.
ReadTurn(k, fd, size) ==
    LET f == k.open[fd]
        r == fat32_read_cluster(k, f.current_cluster)
        n == Least(size - Len(k.data), CellsPerCluster - f.cluster_position)
        used == f.cluster_position + n
    IN  IF ~r.ok THEN Failing(r)
        ELSE [r EXCEPT
                 !.data = @ \o SubSeq(k.disk.cluster[f.current_cluster],
                                      f.cluster_position + 1, used),
                 !.open[fd] = [f EXCEPT
                     !.position = f.position + n,
                     !.cluster_position = IF used >= CellsPerCluster THEN 0 ELSE used,
                     !.current_cluster = IF used >= CellsPerCluster
                                         THEN fat32_get_next_cluster(k.fat, f.current_cluster)
                                         ELSE f.current_cluster]]

\* A turn reads something, but for the first one after a write up to a boundary.
fat32_read(k, fd, wanted) ==
    LET f == k.open[fd]
        size == Least(wanted, f.file_size - f.position)
        Turned(t) ==
            IF t.ret # 0 \/ Len(t.data) >= size \/ t.open[fd].current_cluster >= FAT32_END_CLUSTER
            THEN t ELSE ReadTurn(t, fd, size)
        turn[i \in 0 .. wanted + 1] ==
            IF i = 0 THEN [k EXCEPT !.ret = 0, !.data = << >>] ELSE Turned(turn[i - 1])
    IN  IF f.position >= f.file_size THEN [k EXCEPT !.data = << >>] ELSE turn[wanted + 1]

\* Mutant: the cluster is the right one, the offset is that of the position.
fat32_seek_WholeOffset(k, fd, wanted) ==
    LET f == k.open[fd]
        position == Least(wanted, f.file_size)
        chain == Chain(k.fat, f.start_cluster)
        skipped == position \div CellsPerCluster
    IN  [k EXCEPT !.open[fd].position = position,
                  !.open[fd].cluster_position = Least(position, CellsPerCluster),
                  !.open[fd].current_cluster = IF skipped < Len(chain) THEN chain[skipped + 1]
                                               ELSE FAT32_END_CLUSTER]

\* From the start, one cluster after the other.
fat32_seek(k, fd, wanted) ==
    LET f == k.open[fd]
        position == Least(wanted, f.file_size)
        skip[i \in 0 .. position \div CellsPerCluster] ==
            IF i = 0 THEN f.start_cluster
            ELSE LET c == skip[i - 1]
                 IN  IF c >= FAT32_END_CLUSTER THEN c ELSE fat32_get_next_cluster(k.fat, c)
    IN  [k EXCEPT !.open[fd] = [f EXCEPT
             !.position = position,
             !.cluster_position = position % CellsPerCluster,
             !.current_cluster = skip[position \div CellsPerCluster]]]

\* The three places where the loop of fat32_write takes a cluster; ret is -1
\* when there is none to be had.
FirstCluster(k, fd) ==
    LET f == k.open[fd]
        Taken(t) ==
            IF t.ret = 0 THEN Failing(t)
            ELSE [t EXCEPT !.ret = 0,
                           !.open[fd] = [f EXCEPT
                               !.start_cluster = t.ret, !.last_cluster = t.ret,
                               !.current_cluster = t.ret, !.cluster_position = 0]]
    IN  IF f.start_cluster >= 2 THEN k ELSE Taken(fat32_allocate_cluster(k, f.start_cluster))

ClusterAfterEnd(k, fd) ==
    LET f == k.open[fd]
        Taken(t) ==
            IF t.ret = 0 THEN Failing(t)
            ELSE [t EXCEPT !.ret = 0,
                           !.open[fd] = [f EXCEPT
                               !.last_cluster = t.ret, !.cluster_position = 0,
                               !.current_cluster = IF IsCluster(f.last_cluster) THEN t.ret
                                                   ELSE f.start_cluster]]
    IN  IF k.ret # 0 \/ IsCluster(f.current_cluster) THEN k
        ELSE Taken(fat32_allocate_cluster(k, IF f.last_cluster >= 2 THEN f.last_cluster
                                             ELSE f.start_cluster))

NextCluster(k, fd) ==
    LET f == k.open[fd]
        next == k.fat[f.current_cluster]
        Taken(t) ==
            IF t.ret = 0 THEN Failing(t)
            ELSE [t EXCEPT !.ret = 0,
                           !.open[fd] = [f EXCEPT !.last_cluster = t.ret, !.current_cluster = t.ret,
                                                  !.cluster_position = 0]]
    IN  IF k.ret # 0 \/ f.cluster_position < CellsPerCluster THEN k
        ELSE IF IsCluster(next)
             THEN [k EXCEPT !.open[fd] = [f EXCEPT !.current_cluster = next,
                                                   !.cluster_position = 0]]
        ELSE Taken(fat32_allocate_cluster(k, f.current_cluster))

\* Mutant: all of the text goes to the current cluster.
WriteTurn_PastEnd(k, fd, text) ==
    LET here == NextCluster(ClusterAfterEnd(FirstCluster(k, fd), fd), fd)
        f == here.open[fd]
        n == Len(text) - Len(k.data)
    IN  IF here.ret # 0 THEN here
        ELSE [here EXCEPT !.data = text,
                          !.open[fd].cluster_position = @ + n,
                          !.open[fd].position = @ + n,
                          !.open[fd].file_size = IF f.position + n > @ THEN f.position + n ELSE @]

\* One turn of the loop: what of the text goes to the current cluster.
WriteTurn(k, fd, text) ==
    LET Advanced(f, n) ==
            [f EXCEPT !.cluster_position = f.cluster_position + n,
                      !.position = f.position + n,
                      !.file_size = IF f.position + n > f.file_size THEN f.position + n
                                    ELSE f.file_size]
        Wrote(t, n) ==
            IF ~t.ok THEN Failing(t)
            ELSE [t EXCEPT !.data = t.data \o SubSeq(text, Len(t.data) + 1, Len(t.data) + n),
                           !.open[fd] = Advanced(t.open[fd], n)]
        Read(t, c, offset, n) ==
            IF ~t.ok THEN Failing(t)
            ELSE Wrote(fat32_write_cluster(t, c, [i \in 1 .. CellsPerCluster |->
                           IF i \in offset + 1 .. offset + n
                           THEN Byte(text[Len(t.data) + i - offset])
                           ELSE t.disk.cluster[c][i]], <<"data">>), n)
        Fill(t, c, offset, n) ==
            IF c \notin OnDisk THEN Failing(t)
            ELSE Read(IF offset # 0 \/ n < CellsPerCluster THEN fat32_read_cluster(t, c)
                      ELSE [t EXCEPT !.ok = TRUE], c, offset, n)
        At(t, f) ==
            IF t.ret # 0 THEN t
            ELSE Fill(t, f.current_cluster, f.cluster_position,
                      Least(Len(text) - Len(t.data), CellsPerCluster - f.cluster_position))
        Here(t) == At(t, t.open[fd])
    IN  Here(NextCluster(ClusterAfterEnd(FirstCluster(k, fd), fd), fd))

\* What the two fields of a directory entry are in any other cell.
Patched(cell, f) ==
    CASE cell.kind = "entry" -> [cell EXCEPT !.start = f.start_cluster, !.size = f.file_size]
      [] cell.kind \in {"deleted", "zero"} -> cell
      [] OTHER -> Junk

\* Mutant: the entry's size is not updated.
fat32_update_file_entry_NoSize(k, fd) ==
    LET f == k.open[fd]
        c == f.dir_entry[1]
        read == fat32_read_cluster(k, c)
    IN  IF ~read.ok THEN Failing(read)
        ELSE fat32_write_cluster(read, c, [k.disk.cluster[c] EXCEPT
                 ![f.dir_entry[2]] = Patched(@, [f EXCEPT !.file_size = 0])], <<"update">>)

\* It trusts the place the entry was at when the file was opened.
fat32_update_file_entry(k, fd) ==
    LET f == k.open[fd]
        Written(t) == [t EXCEPT !.ret = IF t.ok THEN 0 ELSE -1]
        Read(t, c) ==
            IF ~t.ok THEN Failing(t)
            ELSE Written(fat32_write_cluster(t, c, [t.disk.cluster[c] EXCEPT
                             ![f.dir_entry[2]] = Patched(@, f)], <<"update">>))
    IN  Read(fat32_read_cluster(k, f.dir_entry[1]), f.dir_entry[1])

\* Ended early, it leaves the entry as it was.
fat32_write(k, fd, text) ==
    LET Turned(t) == IF t.ret # 0 \/ Len(t.data) >= Len(text) THEN t ELSE WriteTurn(t, fd, text)
        turn[i \in 0 .. Len(text)] ==
            IF i = 0 THEN [k EXCEPT !.ret = 0, !.data = << >>] ELSE Turned(turn[i - 1])
        Finish(t) == IF t.ret # 0 \/ text = << >> THEN t ELSE fat32_update_file_entry(t, fd)
    IN  Finish(turn[Len(text)])

-----------------------------------------------------------------------------
(* What is on the disk, seen through a table.                              *)

\* The places of a directory's entries, up to its end mark.
EntriesOf(d, fat, dir) ==
    LET Ended(where) == {j \in DOMAIN where : KindAt(d, where[j]) = "zero"}
        Entries(where) ==
            {where[j] : j \in {i \in Listed(d, where) : \A end \in Ended(where) : i < end}}
    IN  Entries(Locations(fat, dir))

\* The tree is two levels deep, as the paths are.
Subdirectories(d, fat) ==
    {CellAt(d, at).start : at \in {a \in EntriesOf(d, fat, ROOT_CLUSTER) : CellAt(d, a).dir}}

AllEntries(d, fat) ==
    EntriesOf(d, fat, ROOT_CLUSTER)
        \cup UNION {EntriesOf(d, fat, dir) : dir \in Subdirectories(d, fat)}

ClustersOf(chain) == {chain[i] : i \in DOMAIN chain}

\* A chain of clusters of the disk that are taken, with an end.
ChainIsSound(fat, chain) ==
    /\ \A i \in DOMAIN chain : chain[i] \in OnDisk /\ fat[chain[i]] # FAT32_FREE_CLUSTER
    /\ chain # << >> => fat[Last(chain)] = FAT32_END_CLUSTER

\* A directory has a cluster of its own, with its dots and no foreign cells;
\* a file's chain is long enough for its size.
EntryIsSound(d, fat, e, chain) ==
    /\ ChainIsSound(fat, chain)
    /\ e.size <= Len(chain) * CellsPerCluster
    /\ e.dir => /\ chain # << >>
                /\ CellAt(d, <<e.start, 1>>) = Entry(Dot, TRUE, e.start, 0)
                /\ KindAt(d, <<e.start, 2>>) = "entry"
                /\ \A c \in ClustersOf(chain), i \in 1 .. CellsPerCluster :
                       KindAt(d, <<c, i>>) \notin {"byte", "junk"}

\* Every entry that can be reached is sound, and no two share a cluster.
DiskIsSound(d, fat) ==
    LET Sound(root, chains) ==
            /\ ChainIsSound(fat, root)
            /\ \A at \in DOMAIN chains :
                   /\ EntryIsSound(d, fat, CellAt(d, at), chains[at])
                   /\ ClustersOf(root) \cap ClustersOf(chains[at]) = {}
            /\ \A a, b \in DOMAIN chains :
                   a # b => ClustersOf(chains[a]) \cap ClustersOf(chains[b]) = {}
    IN  Sound(Chain(fat, ROOT_CLUSTER),
              [at \in AllEntries(d, fat) |-> Chain(fat, CellAt(d, at).start)])

\* Both what the kernel goes by and what the next mount will read.
IsSound(d, table) ==
    /\ DiskIsSound(d, table)
    /\ table # d.fat[1] => DiskIsSound(d, d.fat[1])

\* A file's bytes, and the tree of the paths that are used.
Content(d, fat, e) ==
    LET Value(cell) == IF cell.kind = "byte" THEN cell.value ELSE 0
        Bytes(chain) ==
            [i \in 1 .. e.size |->
                Value(CellAt(d, <<chain[((i - 1) \div CellsPerCluster) + 1],
                                  ((i - 1) % CellsPerCluster) + 1>>))]
    IN  Bytes(Chain(fat, e.start))

Tree(d, fat) ==
    LET Node(k) ==
            IF k.ret # 0 THEN [kind |-> "absent", data |-> << >>]
            ELSE IF k.entry.dir THEN [kind |-> "directory", data |-> << >>]
            ELSE [kind |-> "file", data |-> Content(d, fat, k.entry)]
        start == [Begin(NoFault) EXCEPT !.disk = d, !.fat = fat]
    IN  [p \in Paths |-> Node(fat32_lookup_path(start, p))]

-----------------------------------------------------------------------------
(* Actions: one per call.                                                  *)

\* What a fault did, told apart as far as the properties need it.
CauseOf(call, t) ==
    IF t.hit = <<"clear">> /\ ~t.dead THEN "clear"
    ELSE IF call \in {"remove", "rmdir"} /\ t.fat # mem.fat THEN "unlink"
    ELSE IF t.hit[1] = "fat" /\ (t.hit[2] = 1 \/ call = "write") /\ ~t.dead THEN "table"
    ELSE IF t.hit[1] = "fat" /\ t.hit[2] = 1 /\ t.hit[3] > 1 THEN "torn table"
    ELSE IF call = "mkdir" /\ t.fault.kind = "late" THEN "mkdir"
    ELSE IF t.hit = <<"read">> THEN "read"
    ELSE "other"

Causes(call, t, special) ==
    (IF t.hit = << >> THEN {} ELSE {CauseOf(call, t)})
    \cup (IF t.full THEN {"full"} ELSE {})
    \cup (IF t.off THEN {"off the disk"} ELSE {})
    \cup special

IoFaults == causes \ {"full", "off the disk", "removed", "shared"}

\* The faults that can befall a call which undisturbed ends in t.
Faults(t) ==
    {NoFault} \cup IF Cardinality(IoFaults) < MAX_FAULTS
                   THEN [at : 1 .. t.made, kind : FaultKind] ELSE {}

\* The outcome of a call whose fault, if it was to have one, has come.
Done(call, fault, t, special) ==
    /\ fault # NoFault => t.hit # << >>
    /\ disk' = t.disk
    /\ mem' = IF t.dead THEN Unmounted
              ELSE [mounted |-> TRUE, fat |-> t.fat, open |-> t.open]
    /\ causes' = causes \cup Causes(call, t, special)
    /\ LET table == IF t.dead THEN t.disk.fat[1] ELSE t.fat
       IN  /\ broken' = ~IsSound(t.disk, table)
           /\ shown' = IF broken' THEN shown ELSE Tree(t.disk, table)
    /\ calls' = IF t.disk = disk /\ t.open = mem.open /\ ~t.dead THEN calls ELSE calls + 1

\* On a disk that is no longer sound the model ends.
Ready == mem.mounted /\ calls < MAX_CALLS /\ ~broken

\* What a call is asked: by its path, or through a handle, whose file is named by
\* the paths that lead to its entry.
OnNothing == [paths |-> {}, text |-> << >>, position |-> 0]
OnPath(path) == [OnNothing EXCEPT !.paths = {path}]
OnFile(fd, text) ==
    [paths |-> {path \in Paths : LET k == fat32_lookup_path(Begin(NoFault), path)
                                 IN  k.ret = 0 /\ k.at = mem.open[fd].dir_entry},
     text |-> text, position |-> mem.open[fd].position]

\* The call, whether it answers that it did all it was asked, and whether
\* something went wrong.
Answer(call, asked, t, special) ==
    [op |-> call, paths |-> asked.paths, text |-> asked.text, position |-> asked.position,
     done |-> ~t.dead /\ t.ret = 0,
     failed |-> t.hit # << >> \/ t.full \/ t.off \/ special # {}]

\* A call with or without a fault.
Calling(call, asked, Run(_), special) ==
    \E fault \in Faults(Run(Begin(NoFault))) :
        /\ Done(call, fault, Run(Begin(fault)), special)
        /\ last' = Answer(call, asked, Run(Begin(fault)), special)

create(path) == Ready /\ Calling("create", OnPath(path), LAMBDA k : fat32_create(k, path), {})

mkdir(path) == Ready /\ Calling("mkdir", OnPath(path), LAMBDA k : fat32_mkdir_path(k, path), {})

remove(path) == Ready /\ Calling("remove", OnPath(path), LAMBDA k : fat32_remove(k, path), {})

rmdir(path) == Ready /\ Calling("rmdir", OnPath(path), LAMBDA k : fat32_rmdir_path(k, path), {})

open(path) == Ready /\ Calling("open", OnPath(path), LAMBDA k : fat32_open(k, path), {})

read(fd, size) ==
    /\ Ready
    /\ mem.open[fd].in_use
    /\ Calling("read", OnFile(fd, << >>), LAMBDA k : fat32_read(k, fd, size), {})

\* What a write through this handle can harm beyond its own transfers.
Hazards(fd) ==
    (IF mem.open[fd].removed THEN {"removed"} ELSE {})
    \cup (IF \E other \in Fd \ {fd} : /\ mem.open[other].in_use
                                      /\ mem.open[other].dir_entry = mem.open[fd].dir_entry
          THEN {"shared"} ELSE {})

write(fd, text) ==
    /\ Ready
    /\ mem.open[fd].in_use
    /\ Calling("write", OnFile(fd, text), LAMBDA k : fat32_write(k, fd, text), Hazards(fd))

seek(fd, position) ==
    /\ Ready
    /\ mem.open[fd].in_use
    /\ Done("seek", NoFault, fat32_seek(Begin(NoFault), fd, position), {})
    /\ last' = Answer("seek", OnFile(fd, << >>), fat32_seek(Begin(NoFault), fd, position), {})

close(fd) ==
    /\ Ready
    /\ mem.open[fd].in_use
    /\ Done("close", NoFault, fat32_close(Begin(NoFault), fd), {})
    /\ last' = Answer("close", OnFile(fd, << >>), fat32_close(Begin(NoFault), fd), {})

\* The entries that a mount does not read are what kmalloc found in memory.
NotRead == {c \in 0 .. FatEntries - 1 : SectorOf(c) > Count}

\* The boot sector, then the first copy of the table; either may fail.
fat32_mount ==
    /\ ~mem.mounted /\ ~broken
    /\ \E fault \in Faults([made |-> 2]), rest \in [NotRead -> 0 .. FAT32_END_CLUSTER] :
           LET k == Begin(fault)
               boot == Transfer(k, <<"read">>, {"error"})
               table == IF boot.ok THEN Transfer(boot, <<"read">>, {"error"}) ELSE boot
           IN  /\ fault # NoFault => table.hit # << >>
               /\ mem' = IF table.ok THEN [Unmounted EXCEPT !.mounted = TRUE,
                             !.fat = [c \in DOMAIN @ |-> IF c \in NotRead THEN rest[c]
                                                         ELSE disk.fat[1][c]]]
                         ELSE Unmounted
               /\ causes' = causes \cup Causes("mount", table, {})
               /\ last' = Answer("mount", OnNothing, table, {})
    /\ shown' = Tree(disk, disk.fat[1])
    /\ UNCHANGED <<disk, broken, calls>>

\* vfs_unmount closes the files of the mount first.
fat32_unmount ==
    /\ mem.mounted /\ ~broken
    /\ mem' = Unmounted
    /\ shown' = Tree(disk, disk.fat[1])
    /\ last' = Answer("unmount", OnNothing, Begin(NoFault), {})
    /\ UNCHANGED <<disk, causes, broken, calls>>

\* The image as it is built: the root directory with one file of one cluster,
\* whose long name has an alias.
Formatted ==
    [fat |-> [copy \in 1 .. NumFats |-> [c \in 0 .. FatEntries - 1 |->
                 IF c <= ROOT_CLUSTER + 1 THEN FAT32_END_CLUSTER ELSE FAT32_FREE_CLUSTER]],
     cluster |-> [c \in OnDisk |->
         CASE c = ROOT_CLUSTER ->
                  [Zeros EXCEPT ![1] = Lfn(Readme, <<Spelling[Readme].base, 1>>),
                                ![2] = Entry(<<Spelling[Readme].base, 1>>, FALSE, 3, 1)]
           [] c = ROOT_CLUSTER + 1 -> [Zeros EXCEPT ![1] = Byte(0)]
           [] OTHER -> Zeros]]

Init ==
    /\ disk = Formatted
    /\ mem = [Unmounted EXCEPT !.mounted = TRUE, !.fat = Formatted.fat[1]]
    /\ causes = {}
    /\ broken = FALSE
    /\ shown = Tree(disk, disk.fat[1])
    /\ last = Answer("mount", OnNothing, Begin(NoFault), {})
    /\ calls = 0

Next ==
    \/ \E path \in Paths : create(path)
    \/ \E path \in Paths : mkdir(path)
    \/ \E path \in Paths : remove(path)
    \/ \E path \in Paths : rmdir(path)
    \/ \E path \in Paths : open(path)
    \/ \E fd \in Fd, size \in ReadSizes : read(fd, size)
    \/ \E fd \in Fd, text \in Texts : write(fd, text)
    \/ \E fd \in Fd, position \in Positions : seek(fd, position)
    \/ \E fd \in Fd : close(fd)
    \/ fat32_mount
    \/ fat32_unmount

Spec == Init /\ [][Next]_vars

-----------------------------------------------------------------------------
(* Properties.                                                             *)

\* The disk holds cells and a table; the handles hold clusters, offsets and the
\* place of a directory entry.  No call leaves a field outside its range.
TypeOK ==
    /\ disk \in Disk
    /\ mem.mounted \in BOOLEAN
    /\ mem.fat \in [0 .. FatEntries - 1 -> Nat]
    /\ mem.open \in [Fd -> OpenFile]
    /\ calls \in 0 .. MAX_CALLS
    /\ broken \in BOOLEAN

\* A new cluster that could not be cleared but is linked; a chain that is freed
\* before the entry that leads to it is deleted; a table that reached memory but
\* not the disk, or the disk in part, or whose flush failed in any copy during a
\* write, which leaves the handle's last_cluster before the end of its chain and
\* lets a later write cut the chain there; a directory's entry that is on the disk
\* although its write was reported as failed; a write through a handle whose
\* file was removed, or that another handle has also open.  And a full disk, when
\* the boot sector has its 16-bit count: total_clusters then underflows, and the
\* file that is extended is linked to a cluster behind the end of the disk.
Harmful == {"clear", "unlink", "table", "torn table", "mkdir", "removed", "shared",
            "off the disk"}

\* The structure of the disk survives every sequence of calls, every single
\* transfer error and every power cut, but for the ones that Harmful names: the
\* order in which create, write and mkdir take, clear, link, flush and list
\* leaves at worst a cluster that nothing uses.
BreaksOnlyBy == broken => causes \cap Harmful # {}

\* None of them has happened.
Unharmed == causes \cap Harmful = {}

\* A mount reads the first copy of the table only, yet after calls without a
\* failed transfer all copies are equal, and equal to the table in memory: every call that
\* changes the table flushes all of it (fat32_flush_fat).
MirrorsAgree ==
    mem.mounted /\ IoFaults \cup (causes \cap {"off the disk"}) = {}
        => \A copy \in 1 .. NumFats : disk.fat[copy] = mem.fat

\* Without a fault and with room on the disk no cluster stays taken that no entry
\* leads to: create, mkdir and write list or link what they allocate, remove and
\* rmdir give all of it back.
NoLostClusters ==
    causes = {} =>
        \A c \in ROOT_CLUSTER .. FatEntries - 1 :
            disk.fat[1][c] # FAT32_FREE_CLUSTER =>
                \E start \in {ROOT_CLUSTER} \cup {CellAt(disk, at).start :
                                                     at \in AllEntries(disk, disk.fat[1])} :
                    c \in ClustersOf(Chain(disk.fat[1], start))

\* fat32_allocate_cluster searches up to total_clusters, which on the repository's
\* image has underflowed and is far past fat_table.  It does not read behind the
\* table, also on a full disk: the entries that stand for no sector are given back
\* whenever clearing their cluster fails, so that one of them is always found.
\* Only where a file has been extended to such an entry can a later extension take
\* the entry for good; the image has 22 of them.
SearchStaysInTable ==
    mem.mounted /\ total_clusters > FatEntries
        /\ (\A c \in DOMAIN mem.fat : mem.fat[c] \notin DiskEnd .. FatEntries - 1)
        => \E c \in 2 .. FatEntries - 1 : mem.fat[c] = FAT32_FREE_CLUSTER

\* A short name or alias names one entry of its directory, whatever read, entry
\* or update failed: fat32_generate_unique_short_name sees every entry before it
\* settles.
AliasesAreUnique ==
    Unharmed => \A dir \in {ROOT_CLUSTER} \cup Subdirectories(disk, disk.fat[1]) :
        \A a, b \in EntriesOf(disk, disk.fat[1], dir) :
            CellAt(disk, a).name = CellAt(disk, b).name => a = b

\* A handle whose file is still there and in step with its entry.
InStep(f) ==
    LET e == CellAt(disk, f.dir_entry)
    IN  /\ f.in_use /\ ~f.removed
        /\ e.kind = "entry" /\ e.start = f.start_cluster /\ e.size = f.file_size

\* A handle's cluster and offset are where its position is in the chain, in one
\* of the forms that open, read, write and seek leave behind: a boundary is the
\* end of a cluster after a write and the begin of the next after a read.
CursorIsPlaced ==
    Unharmed => \A fd \in Fd :
        LET f == mem.open[fd]
            chain == Chain(mem.fat, f.start_cluster)
            turn == f.position \div CellsPerCluster
        IN  f.in_use /\ ~f.removed =>
               \/ f.position = 0 /\ f.current_cluster = f.start_cluster
                  /\ f.cluster_position = 0
               \/ /\ turn < Len(chain) /\ f.current_cluster = chain[turn + 1]
                  /\ f.cluster_position = f.position % CellsPerCluster
               \/ /\ f.position = turn * CellsPerCluster /\ turn >= 1
                  /\ f.current_cluster = chain[turn] /\ f.cluster_position = CellsPerCluster
               \/ /\ f.position = Len(chain) * CellsPerCluster
                  /\ f.current_cluster = FAT32_END_CLUSTER /\ f.cluster_position = 0

\* A read through a handle yields the bytes that the path shows from the
\* handle's position on, whatever was written, sought and read before.
ReadsBack ==
    mem.mounted /\ Unharmed => \A fd \in {f \in Fd : InStep(mem.open[f])}, size \in ReadSizes :
        LET f == mem.open[fd]
            content == Content(disk, mem.fat, CellAt(disk, f.dir_entry))
            data == fat32_read(Begin(NoFault), fd, size).data
        IN  [i \in DOMAIN data |-> IF data[i].kind = "byte" THEN data[i].value ELSE 0]
                = SubSeq(content, f.position + 1, Least(f.position + size, f.file_size))

\* A write that was accepted in part has left a handle ahead of its entry.
Behind == \E fd \in Fd : mem.open[fd].in_use /\ ~InStep(mem.open[fd])

\* The table in memory is ahead of the one a mount would read.
Unsaved == mem.mounted /\ mem.fat # disk.fat[1]

Damaged == broken \/ Unsaved \/ causes \cap {"read", "removed", "shared"} # {}

Store == INSTANCE FileStore WITH tree <- shown, call <- last,
                                 damaged <- Damaged, behind <- Behind

\* The clusters, chains and entries implement a tree of paths: create, mkdir,
\* remove, rmdir and write change the path they name and no other, as they are
\* asked to and wholly or not at all, whatever transfer fails; when they answer
\* that they did, the tree shows it.  A power cut leaves the tree as it was before
\* the call it falls into or as it is after it, but a write that fails may have
\* replaced some of the old bytes; mount and unmount leave the tree alone.
\* Excepted are the damages that Damaged names.
ImplementsStore == Store!Spec
=============================================================================
