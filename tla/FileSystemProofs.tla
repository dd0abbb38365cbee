-------------------------- MODULE FileSystemProofs --------------------------
(***************************************************************************)
(* Theorems about FileSystem for every number of nodes, mounts, handles    *)
(* and descriptors, every capacity of a directory and every set of command *)
(* lines.                                                                  *)
(***************************************************************************)
EXTENDS FileSystem, DataLemmas

-----------------------------------------------------------------------------
(* The inductive invariant, as predicates on the state of the kernel       *)

\* The tree of the RAM file system: links down and up agree, the root is above
\* all and only directories have children.
LinkedDown(s, n) ==
    \A i \in DOMAIN s.node[n].children :
        /\ s.node[n].children[i] \in s.allocated
        /\ s.node[s.node[n].children[i]].parent = n
        /\ \A j \in DOMAIN s.node[n].children :
               s.node[n].children[i] = s.node[n].children[j] => i = j

LinkedUp(s, n) ==
    s.node[n].parent # NULL =>
        /\ s.node[n].parent \in s.allocated
        /\ \E i \in DOMAIN s.node[s.node[n].parent].children :
               s.node[s.node[n].parent].children[i] = n

Tree(s) ==
    /\ Root \in s.allocated
    /\ s.node[Root].type = FS_DIRECTORY /\ s.node[Root].parent = NULL
    /\ \A n \in s.allocated :
           /\ LinkedDown(s, n) /\ LinkedUp(s, n)
           /\ s.node[n].type = FS_FILE => s.node[n].children = << >>
           /\ s.node[n].name \notin {".", ".."}
    /\ \A n \in NodeId : Len(s.node[n].children) <= MAX_CHILDREN

\* No child before this one has its name: a lookup finds it.
FirstOfName(s, n) ==
    /\ s.node[n].parent # NULL
    /\ LET above == s.node[s.node[n].parent].children
       IN  \A i, j \in DOMAIN above :
               above[j] = n /\ s.node[above[i]].name = s.node[n].name => j <= i

\* A node that no lookup finds, because another of its name comes first, is empty.
HiddenAreEmpty(s) ==
    \A n \in s.allocated : s.node[n].data # << >> => FirstOfName(s, n)

\* Which file system is mounted where.
MountsOK(s) ==
    /\ \A i \in Slot : s.mounts[i].mounted <=> s.mounts[i].ops # NULL
    /\ \A i \in Slot : s.mounts[i].ops = "ramfs" => i = 1 /\ s.mounts[i].point = << >>
    /\ \A i \in Slot : s.mounts[i].ops = "fat32" =>
           /\ s.mounts[i].point = MNT_FAT32 /\ s.fat.mounted
           /\ \A j \in Slot : s.mounts[j].ops = "fat32" => j = i

OnDisk(s, h) == s.open_files[h].in_use /\ s.mounts[s.open_files[h].mount].ops = "fat32"

\* The table of open files: every entry is of a mounted file system, and those of
\* the disk are its descriptors in use, each once.
HandlesOK(s) ==
    /\ \A h \in Handle : s.open_files[h].in_use =>
           s.open_files[h].mount \in Slot /\ s.mounts[s.open_files[h].mount].mounted
    /\ s.fat.fds = {s.open_files[h].fs_handle : h \in {g \in Handle : OnDisk(s, g)}}
    /\ \A g, h \in Handle : OnDisk(s, g) /\ OnDisk(s, h)
           /\ s.open_files[g].fs_handle = s.open_files[h].fs_handle => g = h

Good(s) ==
    /\ s \in FsState
    /\ Tree(s) /\ HiddenAreEmpty(s)
    /\ MountsOK(s) /\ HandlesOK(s)
    /\ \A i \in DOMAIN s.cwd : s.cwd[i] \notin {".", ".."}

\* A client holds a file exactly between its open and its close; as long as the
\* node is not freed it is a file that lookups find, and the position is in it.
ClientOK(s, me) ==
    IF me.pc \in FileCalls
    THEN /\ me.file.in_use /\ me.file.mount \in Slot
         /\ s.mounts[me.file.mount].ops = "ramfs" =>
                /\ me.file.fs_handle \in NodeId
                /\ ~me.file.dangling => /\ me.file.fs_handle \in s.allocated
                                        /\ s.node[me.file.fs_handle].type = FS_FILE
                                        /\ FirstOfName(s, me.file.fs_handle)
                                        /\ me.file.position
                                               <= Len(s.node[me.file.fs_handle].data)
    ELSE ~me.file.in_use

\* Every entry of the table has a client of its own that holds its file; which
\* entry is whose may change when a file that both have open is closed.
Owns(s, cl, owner) ==
    \A h \in Handle : s.open_files[h].in_use =>
        LET file == cl[owner[h]].file
        IN  /\ file.in_use /\ file.fs_handle = s.open_files[h].fs_handle
            /\ file.mount = s.open_files[h].mount
            /\ \A g \in Handle : s.open_files[g].in_use /\ owner[g] = owner[h] => g = h

Owned(s, cl) == \E owner \in [Handle -> Client] : Owns(s, cl, owner)

\* The shell starts an editor only when there is none.
OneEditor(cl) ==
    /\ cl["shell"].pc # "edit_stat"
    /\ cl["shell"].pc = "edit_parent" => cl["editor"].pc \in {"idle", "saved"}

\* What the editor's path leads to, step by step, while it saves alone.
Saving(s, me) ==
    LET at == vfs_resolve_path(s, me.path)
        n == fs_find_by_path(s, at.path)
    IN  me.alone /\ at.ops = "ramfs" =>
            /\ me.pc \in {"save_create", "save_open"} => n = NULL \/ s.node[n].data = << >>
            /\ me.pc \in {"save_seek", "save_write", "save_close"} =>
                   /\ n # NULL /\ me.file.fs_handle = n /\ ~me.file.dangling
                   /\ me.file.mount = at.mount
            /\ me.pc \in {"save_seek", "save_write"} =>
                   s.node[n].data = << >> /\ me.file.position = 0
            /\ me.pc \in {"save_close", "saved"} => n # NULL /\ s.node[n].data = EditorText

\* The clients cl fit the kernel's state s.
ClientsOK(s, cl) ==
    /\ cl \in [Client -> ClientState]
    /\ \A c \in Client : ClientOK(s, cl[c])
    /\ Owned(s, cl) /\ OneEditor(cl)
    /\ Saving(s, cl["editor"])

FInv == wild \in BOOLEAN /\ Good(fs) /\ ClientsOK(fs, client)

-----------------------------------------------------------------------------
(* The first element of a set of numbers                                   *)

LEMMA FirstOfLeast ==
  ASSUME NEW S \in SUBSET Nat, S # {}
  PROVE  FirstOf(S) \in S /\ \A j \in S : FirstOf(S) <= j
BY LeastExists DEF FirstOf

LEMMA Slots ==
  /\ Slot \in SUBSET Nat /\ Handle \in SUBSET Nat /\ Fd \in SUBSET Nat
  /\ NO_MOUNT \notin Slot /\ NULL \notin NodeId
BY FileSystemAssumption DEF Slot, Handle, Fd, NO_MOUNT, NULL

-----------------------------------------------------------------------------
(* vfs_resolve_dots                                                        *)

\* f holds what the first n components of a path resolve to.
IsResolution(f, path, n) ==
    f = [i \in 0 .. n |-> IF i = 0 THEN << >> ELSE ResolveComponent(f[i - 1], path[i])]

LEMMA ResolutionSteps ==
  ASSUME NEW path, NEW n \in Nat, NEW f, IsResolution(f, path, n)
  PROVE  f[0] = << >> /\ \A i \in 1 .. n : f[i] = ResolveComponent(f[i - 1], path[i])
BY DEF IsResolution

LEMMA ResolutionExists ==
  ASSUME NEW path \in Seq(Text), NEW n \in 0 .. Len(path)
  PROVE  \E f : IsResolution(f, path, n)
<1> DEFINE S == {i \in 0 .. Len(path) : \E f : IsResolution(f, path, i)}
<1>1. 0 \in S
  <2> DEFINE f == [i \in 0 .. 0 |-> << >>]
  <2>1. IsResolution(f, path, 0)
    BY DEF IsResolution
  <2>2. QED
    BY <2>1
<1>2. ASSUME NEW i \in 1 .. Len(path), i - 1 \in S PROVE i \in S
  <2>1. PICK f : IsResolution(f, path, i - 1)
    BY <1>2
  <2> DEFINE g == [j \in 0 .. i |-> IF j = i THEN ResolveComponent(f[i - 1], path[i]) ELSE f[j]]
  <2>2. \A j \in 0 .. i : g[j] = IF j = 0 THEN << >> ELSE ResolveComponent(g[j - 1], path[j])
    BY <2>1 DEF IsResolution
  <2>3. IsResolution(g, path, i)
    BY <2>2 DEF IsResolution
  <2>4. QED
    BY <2>3
<1> HIDE DEF S
<1>3. Len(path) \in Nat /\ \A i \in 1 .. Len(path) : i - 1 \in S => i \in S
  BY <1>2
<1>4. \A i \in 0 .. Len(path) : i \in S
  BY <1>1, <1>3, Induction
<1>5. QED
  BY <1>4 DEF S

\* The function in the definition of vfs_resolve_dots is such a resolution.
LEMMA ResolvedBy ==
  ASSUME NEW path \in Seq(Text)
  PROVE  \E f : IsResolution(f, path, Len(path)) /\ vfs_resolve_dots(path) = f[Len(path)]
<1> DEFINE f == CHOOSE f : IsResolution(f, path, Len(path))
<1>1. Len(path) \in 0 .. Len(path)
  OBVIOUS
<1>2. IsResolution(f, path, Len(path))
  BY <1>1, ResolutionExists
<1>3. vfs_resolve_dots(path) = f[Len(path)]
  BY DEF vfs_resolve_dots, IsResolution
<1>4. QED
  BY <1>2, <1>3

\* Two resolutions of paths that begin alike begin alike.
LEMMA ResolutionsAgree ==
  ASSUME NEW p \in Seq(Text), NEW q \in Seq(Text), NEW n \in Nat, n <= Len(p), n <= Len(q),
         \A i \in 1 .. n : p[i] = q[i],
         NEW f, IsResolution(f, p, Len(p)), NEW g, IsResolution(g, q, Len(q))
  PROVE  \A i \in 0 .. n : f[i] = g[i]
<1> DEFINE S == {i \in 0 .. n : f[i] = g[i]}
<1>1. 0 \in S
  BY DEF IsResolution
<1>2. ASSUME NEW i \in 1 .. n, i - 1 \in S PROVE i \in S
  <2>1. i \in 1 .. Len(p) /\ i \in 1 .. Len(q) /\ p[i] = q[i] /\ f[i - 1] = g[i - 1]
    BY <1>2
  <2>2. f[i] = ResolveComponent(f[i - 1], p[i]) /\ g[i] = ResolveComponent(g[i - 1], q[i])
    <3>1. Len(p) \in Nat /\ Len(q) \in Nat
      OBVIOUS
    <3>2. QED
      BY <2>1, <3>1, ResolutionSteps
  <2>3. QED
    BY <2>1, <2>2
<1> HIDE DEF S
<1>3. \A i \in 0 .. n : i \in S
  BY <1>1, <1>2, Induction
<1>4. QED
  BY <1>3 DEF S

\* One component: no ".." is left, and none but the array's length is kept.
LEMMA ResolveComponentOK ==
  ASSUME NEW path \in Seq(Text), NEW token \in Text
  PROVE  /\ ResolveComponent(path, token) \in Seq(Text)
         /\ \A i \in DOMAIN ResolveComponent(path, token) :
                \/ i \in DOMAIN path /\ ResolveComponent(path, token)[i] = path[i]
                \/ ResolveComponent(path, token)[i] = token /\ token # ".."
                   /\ Len(path) < MAX_COMPONENTS
<1>1. CASE token # ".." /\ Len(path) < MAX_COMPONENTS
  <2>1. ResolveComponent(path, token) = Append(path, token)
    BY <1>1, FileSystemAssumption DEF ResolveComponent
  <2>2. Append(path, token) \in Seq(Text) /\ Len(Append(path, token)) = Len(path) + 1
        /\ \A i \in 1 .. Len(path) : Append(path, token)[i] = path[i]
        /\ Append(path, token)[Len(path) + 1] = token
    BY AppendElements
  <2>3. QED
    BY <1>1, <2>1, <2>2
<1>2. CASE token = ".." /\ Len(path) < MAX_COMPONENTS /\ path # << >>
  <2>1. ResolveComponent(path, token) = Front(path)
    BY <1>2, FileSystemAssumption DEF ResolveComponent, ParentPath
  <2>2. Front(path) \in Seq(Text) /\ Len(Front(path)) = Len(path) - 1
        /\ \A i \in 1 .. Len(path) - 1 : Front(path)[i] = path[i]
    BY <1>2, FrontElements
  <2>3. QED
    BY <2>1, <2>2
<1>3. CASE Len(path) >= MAX_COMPONENTS \/ (path = << >> /\ token = "..")
  BY <1>3, FileSystemAssumption DEF ResolveComponent, ParentPath
<1>4. Len(path) \in Nat /\ MAX_COMPONENTS \in Nat
  BY FileSystemAssumption
<1>5. QED
  BY <1>1, <1>2, <1>3, <1>4

\* A resolved path is a path, and the dots are gone from one that is resolved in
\* finite time.
LEMMA ResolveDots ==
  ASSUME NEW path \in Seq(Text)
  PROVE  /\ vfs_resolve_dots(path) \in Seq(Text)
         /\ ~NeverReturns(path) =>
                \A i \in DOMAIN vfs_resolve_dots(path) : vfs_resolve_dots(path)[i] \notin {".", ".."}
<1>1. PICK f : IsResolution(f, path, Len(path)) /\ vfs_resolve_dots(path) = f[Len(path)]
  BY ResolvedBy
<1> DEFINE Clean(p) == \A i \in DOMAIN p : p[i] \notin {".", ".."}
           S == {i \in 0 .. Len(path) : f[i] \in Seq(Text) /\ (~NeverReturns(path) => Clean(f[i]))}
<1>2. Len(path) \in Nat /\ f[0] = << >>
      /\ \A i \in 1 .. Len(path) : f[i] = ResolveComponent(f[i - 1], path[i])
  BY <1>1, ResolutionSteps
<1>3. 0 \in S
  <2>1. << >> \in Seq(Text) /\ Clean(<< >>)
    OBVIOUS
  <2> HIDE DEF Clean
  <2>2. 0 \in 0 .. Len(path) /\ f[0] \in Seq(Text) /\ Clean(f[0])
    BY <1>2, <2>1
  <2>3. QED
    BY <2>2, Zenon
<1>4. ASSUME NEW i \in 1 .. Len(path), i - 1 \in S PROVE i \in S
  <2>1. f[i - 1] \in Seq(Text) /\ path[i] \in Text /\ (~NeverReturns(path) => Clean(f[i - 1]))
    BY <1>4
  <2>2. f[i] = ResolveComponent(f[i - 1], path[i]) /\ i \in 0 .. Len(path)
    BY <1>2
  <2>3. ASSUME ~NeverReturns(path), path[i] = "." PROVE Len(f[i - 1]) >= MAX_COMPONENTS
    <3> DEFINE q == SubSeq(path, 1, i - 1)
    <3>1. q \in Seq(Text) /\ Len(q) = i - 1 /\ \A j \in 1 .. i - 1 : q[j] = path[j]
      OBVIOUS
    <3>2. ~(Len(vfs_resolve_dots(q)) < MAX_COMPONENTS)
      <4>1. i \in DOMAIN path
        OBVIOUS
      <4>2. QED
        BY <2>3, <4>1 DEF NeverReturns
    <3> HIDE DEF q
    <3>3. PICK g : IsResolution(g, q, Len(q)) /\ vfs_resolve_dots(q) = g[Len(q)]
      BY <3>1, ResolvedBy
    <3>4. \A j \in 0 .. (i - 1) : g[j] = f[j]
      BY <1>1, <3>1, <3>3, ResolutionsAgree
    <3>5. vfs_resolve_dots(q) = f[i - 1]
      BY <3>1, <3>3, <3>4
    <3>6. QED
      BY <2>1, <3>2, <3>5, FileSystemAssumption
  <2> DEFINE r == ResolveComponent(f[i - 1], path[i])
  <2>4. /\ r \in Seq(Text)
        /\ \A j \in DOMAIN r : \/ j \in DOMAIN f[i - 1] /\ r[j] = f[i - 1][j]
                               \/ r[j] = path[i] /\ path[i] # ".." /\ Len(f[i - 1]) < MAX_COMPONENTS
    BY <2>1, ResolveComponentOK
  <2> HIDE DEF r
  <2>5. ASSUME ~NeverReturns(path) PROVE Clean(r)
    <3>1. Clean(f[i - 1])
      BY <2>1, <2>5
    <3>2. Len(f[i - 1]) \in Nat /\ MAX_COMPONENTS \in Nat
      BY <2>1, FileSystemAssumption
    <3>3. path[i] = "." => ~(Len(f[i - 1]) < MAX_COMPONENTS)
      BY <2>3, <2>5, <3>2
    <3>4. QED
      BY <2>4, <3>1, <3>3
  <2>6. QED
    BY <2>2, <2>4, <2>5 DEF r
<1> HIDE DEF S
<1>5. \A i \in 0 .. Len(path) : i \in S
  BY <1>2, <1>3, <1>4, Induction
<1>6. Len(path) \in S
  BY <1>2, <1>5
<1>7. QED
  BY <1>1, <1>6 DEF S
-----------------------------------------------------------------------------
(* Lookups in the tree                                                     *)

\* c is the first child of d of that name ...
FirstNamed(s, d, name, c) ==
    /\ d # NULL /\ s.node[d].type = FS_DIRECTORY
    /\ \E i \in DOMAIN s.node[d].children :
           /\ s.node[d].children[i] = c /\ s.node[c].name = name
           /\ \A j \in DOMAIN s.node[d].children :
                  s.node[s.node[d].children[j]].name = name => i <= j

\* ... or there is none.
NoneNamed(s, d, name) ==
    \/ d = NULL \/ s.node[d].type # FS_DIRECTORY
    \/ \A j \in DOMAIN s.node[d].children : s.node[s.node[d].children[j]].name # name

\* fs_find_child finds the first, if there is one.
LEMMA FindChild ==
  ASSUME NEW s \in FsState, NEW d \in NodeId \cup {NULL}, NEW name
  PROVE  /\ fs_find_child(s, d, name) \in NodeId \cup {NULL}
         /\ fs_find_child(s, d, name) = NULL <=> NoneNamed(s, d, name)
         /\ fs_find_child(s, d, name) # NULL =>
                FirstNamed(s, d, name, fs_find_child(s, d, name))
<1>1. CASE d = NULL \/ s.node[d].type # FS_DIRECTORY
  BY <1>1 DEF fs_find_child, NoneNamed
<1>2. CASE ~(d = NULL \/ s.node[d].type # FS_DIRECTORY)
  <2> DEFINE z == s.node[d].children
             named == {i \in DOMAIN z : s.node[z[i]].name = name}
  <2>1. d \in NodeId /\ s.node[d] \in FSNode
    BY <1>2 DEF FsState
  <2>2. z \in Seq(NodeId)
    BY <2>1 DEF FSNode
  <2>3. fs_find_child(s, d, name) = IF named = {} THEN NULL ELSE z[FirstOf(named)]
    BY <1>2 DEF fs_find_child
  <2>4. NoneNamed(s, d, name) <=> named = {}
    BY <1>2 DEF NoneNamed
  <2> HIDE DEF z
  <2>5. CASE named = {}
    BY <2>3, <2>4, <2>5
  <2>6. CASE named # {}
    <3>1. named \in SUBSET Nat
      BY <2>2
    <3>2. FirstOf(named) \in named /\ \A j \in named : FirstOf(named) <= j
      BY <2>6, <3>1, FirstOfLeast
    <3> DEFINE i == FirstOf(named)
    <3>3. i \in DOMAIN z /\ s.node[z[i]].name = name
          /\ \A j \in DOMAIN z : s.node[z[j]].name = name => i <= j
      BY <3>2
    <3>4. z[i] \in NodeId
      BY <2>2, <3>3
    <3>5. fs_find_child(s, d, name) = z[i]
      BY <2>3, <2>6
    <3> HIDE DEF i, named
    <3>6. FirstNamed(s, d, name, z[i])
      BY <1>2, <3>3 DEF FirstNamed, z
    <3>7. z[i] # NULL
      BY <3>4, Slots
    <3>8. QED
      BY <2>4, <2>6, <3>4, <3>5, <3>6, <3>7
  <2>7. QED
    BY <2>5, <2>6
<1>3. QED
  BY <1>1, <1>2

LEMMA FindChildUnique ==
  ASSUME NEW s \in FsState, NEW d \in NodeId \cup {NULL}, NEW name, NEW c, FirstNamed(s, d, name, c)
  PROVE  fs_find_child(s, d, name) = c
<1> DEFINE e == fs_find_child(s, d, name)
           z == s.node[d].children
<1>1. d \in NodeId /\ s.node[d] \in FSNode
  BY DEF FirstNamed, FsState
<1>2. z \in Seq(NodeId)
  BY <1>1 DEF FSNode
<1>3. PICK i \in DOMAIN z : z[i] = c /\ s.node[c].name = name
                            /\ \A j \in DOMAIN z : s.node[z[j]].name = name => i <= j
  BY DEF FirstNamed
<1>4. ~NoneNamed(s, d, name)
  BY <1>3 DEF FirstNamed, NoneNamed
<1>5. FirstNamed(s, d, name, e)
  BY <1>4, FindChild
<1> HIDE DEF e
<1>6. PICK k \in DOMAIN z : z[k] = e /\ s.node[e].name = name
                            /\ \A j \in DOMAIN z : s.node[z[j]].name = name => k <= j
  BY <1>5 DEF FirstNamed
<1> HIDE DEF z
<1>7. i <= k /\ k <= i
  BY <1>3, <1>6
<1>8. i = k
  BY <1>2, <1>7
<1>9. QED
  BY <1>3, <1>6, <1>8 DEF e

\* f holds the nodes that fs_find_by_path passes on the first n components.
IsWalk(f, s, path, n) ==
    f = [i \in 0 .. n |-> IF i = 0 THEN Root ELSE fs_find_child(s, f[i - 1], path[i])]

LEMMA WalkSteps ==
  ASSUME NEW s, NEW path, NEW n \in Nat, NEW f, IsWalk(f, s, path, n)
  PROVE  f[0] = Root /\ \A i \in 1 .. n : f[i] = fs_find_child(s, f[i - 1], path[i])
BY DEF IsWalk

LEMMA WalkExists ==
  ASSUME NEW s, NEW path \in Seq(Text), NEW n \in 0 .. Len(path)
  PROVE  \E f : IsWalk(f, s, path, n)
<1> DEFINE S == {i \in 0 .. Len(path) : \E f : IsWalk(f, s, path, i)}
<1>1. 0 \in S
  <2> DEFINE f == [i \in 0 .. 0 |-> Root]
  <2>1. IsWalk(f, s, path, 0)
    BY DEF IsWalk
  <2>2. QED
    BY <2>1
<1>2. ASSUME NEW i \in 1 .. Len(path), i - 1 \in S PROVE i \in S
  <2>1. PICK f : IsWalk(f, s, path, i - 1)
    BY <1>2
  <2> DEFINE g == [j \in 0 .. i |-> IF j = i THEN fs_find_child(s, f[i - 1], path[i]) ELSE f[j]]
  <2>2. \A j \in 0 .. i : g[j] = IF j = 0 THEN Root ELSE fs_find_child(s, g[j - 1], path[j])
    BY <2>1 DEF IsWalk
  <2>3. IsWalk(g, s, path, i)
    BY <2>2 DEF IsWalk
  <2>4. QED
    BY <2>3
<1> HIDE DEF S
<1>3. Len(path) \in Nat /\ \A i \in 1 .. Len(path) : i - 1 \in S => i \in S
  BY <1>2
<1>4. \A i \in 0 .. Len(path) : i \in S
  BY <1>1, <1>3, Induction
<1>5. QED
  BY <1>4 DEF S

LEMMA FoundBy ==
  ASSUME NEW s, NEW path \in Seq(Text)
  PROVE  \E f : IsWalk(f, s, path, Len(path)) /\ fs_find_by_path(s, path) = f[Len(path)]
<1> DEFINE f == CHOOSE f : IsWalk(f, s, path, Len(path))
<1>1. Len(path) \in 0 .. Len(path)
  OBVIOUS
<1>2. IsWalk(f, s, path, Len(path))
  BY <1>1, WalkExists
<1>3. fs_find_by_path(s, path) = f[Len(path)]
  BY DEF fs_find_by_path, IsWalk
<1>4. QED
  BY <1>2, <1>3

SameNames(p, q, n) == \A i \in 1 .. n : p[i] = q[i]

SameSteps(s, t, f, p, n) ==
    \A i \in 1 .. n : fs_find_child(s, f[i - 1], p[i]) = fs_find_child(t, f[i - 1], p[i])

\* Walks along the same names are the same where each step finds the same.
LEMMA WalksAgree ==
  ASSUME NEW s, NEW t, NEW p \in Seq(Text), NEW q \in Seq(Text),
         NEW n \in Nat, n <= Len(p), n <= Len(q), SameNames(p, q, n),
         NEW f, IsWalk(f, s, p, Len(p)), NEW g, IsWalk(g, t, q, Len(q)),
         SameSteps(s, t, f, p, n)
  PROVE  \A i \in 0 .. n : f[i] = g[i]
<1> DEFINE S == {i \in 0 .. n : f[i] = g[i]}
<1>1. Len(p) \in Nat /\ Len(q) \in Nat
  OBVIOUS
<1>2. /\ f[0] = Root /\ \A i \in 1 .. Len(p) : f[i] = fs_find_child(s, f[i - 1], p[i])
      /\ g[0] = Root /\ \A i \in 1 .. Len(q) : g[i] = fs_find_child(t, g[i - 1], q[i])
  BY <1>1, WalkSteps
<1>3. 0 \in S
  BY <1>2
<1>4. ASSUME NEW i \in 1 .. n, i - 1 \in S PROVE i \in S
  <2>1. i \in 1 .. Len(p) /\ i \in 1 .. Len(q) /\ p[i] = q[i] /\ f[i - 1] = g[i - 1]
    BY <1>4 DEF SameNames
  <2>2. f[i] = fs_find_child(s, f[i - 1], p[i]) /\ g[i] = fs_find_child(t, f[i - 1], p[i])
    BY <1>2, <2>1
  <2>3. QED
    BY <2>2 DEF SameSteps
<1> HIDE DEF S
<1>5. \A i \in 0 .. n : i \in S
  BY <1>3, <1>4, Induction
<1>6. QED
  BY <1>5 DEF S

\* A lookup is a lookup of the parent and then one among its children.
LEMMA FindLast ==
  ASSUME NEW s, NEW path \in Seq(Text), NEW name \in Text
  PROVE  fs_find_by_path(s, Append(path, name)) = fs_find_child(s, fs_find_by_path(s, path), name)
<1> DEFINE q == Append(path, name)
<1>1. /\ q \in Seq(Text) /\ Len(q) = Len(path) + 1 /\ Len(path) \in Nat
      /\ \A j \in 1 .. Len(path) : q[j] = path[j]
      /\ q[Len(path) + 1] = name
  BY AppendElements
<1> HIDE DEF q
<1>2. PICK f : IsWalk(f, s, path, Len(path)) /\ fs_find_by_path(s, path) = f[Len(path)]
  BY FoundBy
<1>3. PICK g : IsWalk(g, s, q, Len(q)) /\ fs_find_by_path(s, q) = g[Len(q)]
  BY <1>1, FoundBy
<1>4. \A i \in 0 .. Len(path) : f[i] = g[i]
  <2> DEFINE n == Len(path)
  <2>1. n \in Nat /\ n <= Len(path) /\ n <= Len(q)
    BY <1>1
  <2>2. SameNames(path, q, n)
    BY <1>1 DEF SameNames
  <2>3. SameSteps(s, s, f, path, n)
    BY DEF SameSteps
  <2> HIDE DEF n
  <2>4. \A i \in 0 .. n : f[i] = g[i]
    BY <1>1, <1>2, <1>3, <2>1, <2>2, <2>3, WalksAgree
  <2>5. QED
    BY <2>4 DEF n
<1>5. g[Len(q)] = fs_find_child(s, g[Len(q) - 1], q[Len(q)])
  BY <1>1, <1>3, WalkSteps
<1>6. g[Len(path)] = f[Len(path)] /\ Len(q) - 1 = Len(path)
  BY <1>1, <1>4
<1>7. QED
  BY <1>1, <1>2, <1>3, <1>5, <1>6 DEF q

LEMMA FindRoot == \A s : fs_find_by_path(s, << >>) = Root
<1> SUFFICES ASSUME NEW s PROVE fs_find_by_path(s, << >>) = Root
  OBVIOUS
<1>1. << >> \in Seq(Text) /\ Len(<< >>) = 0
  OBVIOUS
<1>2. PICK f : IsWalk(f, s, << >>, 0) /\ fs_find_by_path(s, << >>) = f[0]
  BY <1>1, FoundBy
<1>3. QED
  BY <1>2, WalkSteps

\* Parent and name of a path.
LEMMA PathParts ==
  ASSUME NEW path \in Seq(Text)
  PROVE  /\ ParentPath(path) \in Seq(Text) /\ NameOf(path) \in Text
         /\ path # << >> => path = Append(ParentPath(path), NameOf(path))
<1>1. CASE path = << >>
  <2>1. "" \in Text
    BY TextAssumption
  <2>2. QED
    BY <1>1, <2>1 DEF ParentPath, NameOf
<1>2. CASE path # << >>
  <2>1. ParentPath(path) = Front(path) /\ NameOf(path) = path[Len(path)]
    BY <1>2 DEF ParentPath, NameOf, Last
  <2>2. /\ Front(path) \in Seq(Text) /\ Len(Front(path)) = Len(path) - 1
        /\ \A j \in 1 .. Len(path) - 1 : Front(path)[j] = path[j]
    BY <1>2, FrontElements
  <2>3. path[Len(path)] \in Text /\ Len(path) \in Nat \ {0}
    BY <1>2
  <2> DEFINE p == Front(path)
             q == Append(p, path[Len(path)])
  <2> HIDE DEF p
  <2>4. /\ q \in Seq(Text) /\ Len(q) = Len(p) + 1
        /\ \A j \in 1 .. Len(p) : q[j] = p[j]
        /\ q[Len(p) + 1] = path[Len(path)]
    BY <2>2, <2>3, AppendElements DEF p
  <2> HIDE DEF q
  <2>5. Len(q) = Len(path) /\ \A j \in 1 .. Len(path) : q[j] = path[j]
    BY <2>2, <2>3, <2>4 DEF p
  <2>6. q = path
    BY <2>4, <2>5, SeqEqual
  <2>7. QED
    BY <2>1, <2>2, <2>3, <2>6 DEF p, q
<1>3. QED
  BY <1>1, <1>2

\* What a lookup among the children of a directory finds.
LEMMA ChildInTree ==
  ASSUME NEW s \in FsState, Tree(s), NEW d \in s.allocated \cup {NULL}, NEW name,
         fs_find_child(s, d, name) # NULL
  PROVE  LET c == fs_find_child(s, d, name)
         IN  /\ c \in s.allocated /\ c # Root /\ d \in s.allocated
             /\ s.node[d].type = FS_DIRECTORY
             /\ s.node[c].parent = d /\ s.node[c].name = name
             /\ FirstOfName(s, c)
<1> DEFINE c == fs_find_child(s, d, name)
           z == s.node[d].children
<1>1. s.allocated \subseteq NodeId
  BY DEF FsState
<1>2. FirstNamed(s, d, name, c)
  BY <1>1, FindChild
<1> HIDE DEF c
<1>3. d \in s.allocated /\ s.node[d].type = FS_DIRECTORY
  BY <1>2 DEF FirstNamed
<1>4. PICK i \in DOMAIN z : z[i] = c /\ s.node[c].name = name
                            /\ \A j \in DOMAIN z : s.node[z[j]].name = name => i <= j
  BY <1>2 DEF FirstNamed
<1>5. LinkedDown(s, d)
  BY <1>3 DEF Tree
<1>6. c \in s.allocated /\ s.node[c].parent = d /\ \A j \in DOMAIN z : z[j] = c => j = i
  BY <1>4, <1>5 DEF LinkedDown
<1>7. d # NULL
  BY <1>1, <1>3, Slots
<1>8. c # Root
  BY <1>6, <1>7 DEF Tree
<1>9. FirstOfName(s, c)
  BY <1>4, <1>6, <1>7 DEF FirstOfName
<1>10. QED
  BY <1>3, <1>4, <1>6, <1>8, <1>9 DEF c

LEMMA ChildIsLive ==
  ASSUME NEW s \in FsState, Tree(s), NEW d \in s.allocated \cup {NULL}, NEW name
  PROVE  fs_find_child(s, d, name) \in s.allocated \cup {NULL}
<1>1. CASE fs_find_child(s, d, name) = NULL
  BY <1>1, Zenon
<1>2. CASE fs_find_child(s, d, name) # NULL
  <2>1. fs_find_child(s, d, name) \in s.allocated
    BY <1>2, ChildInTree
  <2>2. QED
    BY <2>1, Zenon
<1>3. QED
  BY <1>1, <1>2, Zenon

\* A walk passes live nodes, and then none.
LEMMA WalkIsLive ==
  ASSUME NEW s \in FsState, Tree(s), NEW path, NEW n \in Nat, NEW f, IsWalk(f, s, path, n)
  PROVE  \A i \in 0 .. n : f[i] \in s.allocated \cup {NULL}
<1> DEFINE S == {i \in 0 .. n : f[i] \in s.allocated \cup {NULL}}
<1>1. f[0] = Root /\ \A i \in 1 .. n : f[i] = fs_find_child(s, f[i - 1], path[i])
  BY WalkSteps
<1>2. 0 \in S
  BY <1>1 DEF Tree
<1>3. ASSUME NEW i \in 1 .. n, i - 1 \in S PROVE i \in S
  <2> DEFINE d == f[i - 1]
             name == path[i]
  <2>1. d \in s.allocated \cup {NULL} /\ f[i] = fs_find_child(s, d, name) /\ i \in 0 .. n
    BY <1>1, <1>3
  <2> HIDE DEF d, name
  <2>2. fs_find_child(s, d, name) \in s.allocated \cup {NULL}
    BY <2>1, ChildIsLive
  <2>3. QED
    BY <2>1, <2>2
<1> HIDE DEF S
<1>4. \A i \in 0 .. n : i \in S
  BY <1>2, <1>3, Induction
<1>5. QED
  BY <1>4 DEF S

\* A lookup ends at a live node or nowhere, and at the root only for "/".
LEMMA FindInTree ==
  ASSUME NEW s \in FsState, Tree(s), NEW path \in Seq(Text)
  PROVE  /\ fs_find_by_path(s, path) \in s.allocated \cup {NULL}
         /\ path # << >> /\ fs_find_by_path(s, path) # NULL =>
                LET c == fs_find_by_path(s, path)
                    d == fs_find_by_path(s, ParentPath(path))
                IN  /\ d \in s.allocated /\ s.node[d].type = FS_DIRECTORY
                    /\ c # Root /\ s.node[c].parent = d /\ s.node[c].name = NameOf(path)
                    /\ FirstOfName(s, c)
<1>1. ASSUME NEW p \in Seq(Text) PROVE fs_find_by_path(s, p) \in s.allocated \cup {NULL}
  <2>1. PICK f : IsWalk(f, s, p, Len(p)) /\ fs_find_by_path(s, p) = f[Len(p)]
    BY <1>1, FoundBy
  <2>2. Len(p) \in Nat
    OBVIOUS
  <2>3. f[Len(p)] \in s.allocated \cup {NULL}
    BY <2>1, <2>2, WalkIsLive
  <2>4. QED
    BY <2>1, <2>3
<1>2. ASSUME path # << >>, fs_find_by_path(s, path) # NULL
      PROVE  LET c == fs_find_by_path(s, path)
                 d == fs_find_by_path(s, ParentPath(path))
             IN  /\ d \in s.allocated /\ s.node[d].type = FS_DIRECTORY
                 /\ c # Root /\ s.node[c].parent = d /\ s.node[c].name = NameOf(path)
                 /\ FirstOfName(s, c)
  <2>1. ParentPath(path) \in Seq(Text) /\ NameOf(path) \in Text
        /\ path = Append(ParentPath(path), NameOf(path))
    BY <1>2, PathParts
  <2> DEFINE d == fs_find_by_path(s, ParentPath(path))
             c == fs_find_by_path(s, path)
  <2>2. d \in s.allocated \cup {NULL}
    BY <1>1, <2>1
  <2>3. c = fs_find_child(s, d, NameOf(path))
    BY <2>1, FindLast
  <2> HIDE DEF d, c
  <2>4. c # NULL
    BY <1>2 DEF c
  <2>5. /\ d \in s.allocated /\ s.node[d].type = FS_DIRECTORY
        /\ c # Root /\ s.node[c].parent = d /\ s.node[c].name = NameOf(path)
        /\ FirstOfName(s, c)
    BY <2>2, <2>3, <2>4, ChildInTree
  <2>6. QED
    BY <2>5 DEF c, d
<1>3. QED
  BY <1>1, <1>2

\* A change that keeps the directories that lookups find keeps the lookups of
\* directories.
KeepsDirectories(s, t) ==
    \A d \in s.allocated : \A name \in Text :
        LET c == fs_find_child(s, d, name)
        IN  c # NULL /\ s.node[c].type = FS_DIRECTORY => fs_find_child(t, d, name) = c

LEMMA DirectoriesKept ==
  ASSUME NEW s \in FsState, Tree(s), NEW t, KeepsDirectories(s, t), NEW path \in Seq(Text),
         IsDirectory(s, fs_find_by_path(s, path))
  PROVE  fs_find_by_path(t, path) = fs_find_by_path(s, path)
<1>1. PICK f : IsWalk(f, s, path, Len(path)) /\ fs_find_by_path(s, path) = f[Len(path)]
  BY FoundBy
<1>2. PICK g : IsWalk(g, t, path, Len(path)) /\ fs_find_by_path(t, path) = g[Len(path)]
  BY FoundBy
<1> DEFINE n == Len(path)
<1>3. n \in Nat /\ IsWalk(f, s, path, n) /\ IsWalk(g, t, path, n) /\ \A i \in 1 .. n : path[i] \in Text
  BY <1>1, <1>2
<1> HIDE DEF n
<1>4. f[0] = Root /\ \A i \in 1 .. n : f[i] = fs_find_child(s, f[i - 1], path[i])
  <2>1. n \in Nat
    BY <1>3
  <2>2. IsWalk(f, s, path, n)
    BY <1>3
  <2>3. QED
    BY <2>1, <2>2 DEF IsWalk
<1> DEFINE S == {j \in 0 .. n : f[n - j] # NULL /\ s.node[f[n - j]].type = FS_DIRECTORY}
<1>7. \A j \in 0 .. n : f[j] \in s.allocated \cup {NULL}
  BY <1>3, WalkIsLive
<1>8. \A j \in 0 .. n : f[j] \in s.allocated /\ s.node[f[j]].type = FS_DIRECTORY
  <2>1. 0 \in S
    BY <1>1, <1>3 DEF IsDirectory, n
  <2>2. ASSUME NEW j \in 1 .. n, j - 1 \in S PROVE j \in S
    <3> DEFINE i == n - j + 1
    <3>1. i \in 1 .. n /\ i - 1 = n - j /\ n - (j - 1) = i /\ j \in 0 .. n
      BY <1>3
    <3> HIDE DEF i
    <3>2. f[i] # NULL
      BY <2>2, <3>1
    <3>3. f[i] = fs_find_child(s, f[i - 1], path[i]) /\ f[i - 1] \in s.allocated \cup {NULL}
      <4>1. i - 1 \in 0 .. n
        BY <1>3, <3>1
      <4>2. QED
        BY <1>4, <1>7, <3>1, <4>1
    <3>4. f[i - 1] \in s.allocated /\ s.node[f[i - 1]].type = FS_DIRECTORY
      BY <3>2, <3>3, ChildInTree
    <3>5. f[i - 1] # NULL
      BY <3>4, Slots DEF FsState
    <3>6. QED
      BY <3>1, <3>4, <3>5
  <2> HIDE DEF S
  <2>3. \A j \in 0 .. n : j \in S
    BY <1>3, <2>1, <2>2, Induction
  <2>4. ASSUME NEW j \in 0 .. n PROVE f[j] # NULL /\ s.node[f[j]].type = FS_DIRECTORY
    <3>1. n - j \in 0 .. n /\ n - (n - j) = j
      BY <1>3
    <3>2. n - j \in S
      BY <2>3, <3>1
    <3>3. QED
      BY <3>1, <3>2 DEF S
  <2>5. QED
    BY <1>7, <2>4
<1>9. SameSteps(s, t, f, path, n)
  <2> SUFFICES ASSUME NEW i \in 1 .. n
               PROVE  fs_find_child(s, f[i - 1], path[i]) = fs_find_child(t, f[i - 1], path[i])
    BY DEF SameSteps
  <2>1. i - 1 \in 0 .. n /\ i \in 0 .. n
    BY <1>3
  <2>2. f[i - 1] \in s.allocated /\ f[i] = fs_find_child(s, f[i - 1], path[i])
        /\ f[i] # NULL /\ s.node[f[i]].type = FS_DIRECTORY /\ path[i] \in Text
    BY <1>3, <1>4, <1>8, <2>1, Slots DEF FsState
  <2>3. QED
    BY <2>2 DEF KeepsDirectories
<1>10. SameNames(path, path, n) /\ n <= n /\ n = Len(path)
  BY <1>3 DEF SameNames, n
<1>11. \A i \in 0 .. n : f[i] = g[i]
  BY <1>1, <1>2, <1>3, <1>9, <1>10, WalksAgree
<1>12. QED
  BY <1>1, <1>2, <1>3, <1>10, <1>11

\* A change that keeps every lookup among children keeps every lookup.
KeepsLookups(s, t) ==
    \A d \in s.allocated \cup {NULL} : \A name : fs_find_child(t, d, name) = fs_find_child(s, d, name)

LEMMA LookupsKept ==
  ASSUME NEW s \in FsState, Tree(s), NEW t, NEW path \in Seq(Text),
         KeepsLookups(s, t)
  PROVE  fs_find_by_path(t, path) = fs_find_by_path(s, path)
<1>2. PICK f : IsWalk(f, s, path, Len(path)) /\ fs_find_by_path(s, path) = f[Len(path)]
  BY FoundBy
<1>3. PICK g : IsWalk(g, t, path, Len(path)) /\ fs_find_by_path(t, path) = g[Len(path)]
  BY FoundBy
<1> DEFINE n == Len(path)
<1>4. n \in Nat /\ IsWalk(f, s, path, n)
  BY <1>2
<1> HIDE DEF n
<1>6. \A j \in 0 .. n : f[j] \in s.allocated \cup {NULL}
  BY <1>4, WalkIsLive
<1>7. SameSteps(s, t, f, path, n)
  <2> SUFFICES ASSUME NEW i \in 1 .. n
               PROVE  fs_find_child(s, f[i - 1], path[i]) = fs_find_child(t, f[i - 1], path[i])
    BY DEF SameSteps
  <2>1. i - 1 \in 0 .. n
    BY <1>4
  <2>2. QED
    BY <1>6, <2>1 DEF KeepsLookups
<1>8. SameNames(path, path, n) /\ n <= n /\ n = Len(path)
  BY <1>4 DEF SameNames, n
<1>9. \A i \in 0 .. n : f[i] = g[i]
  BY <1>2, <1>3, <1>4, <1>7, <1>8, WalksAgree
<1>10. QED
  BY <1>2, <1>3, <1>4, <1>8, <1>9

-----------------------------------------------------------------------------
(* Mounts and paths                                                        *)

LEMMA Points ==
  /\ << >> \in Seq(Text) /\ MNT_FAT32 \in Seq(Text)
  /\ Len(<< >>) = 0 /\ Len(MNT_FAT32) = 2 /\ MNT_FAT32 # << >>
<1>1. "mnt" \in Text /\ "fat32" \in Text
  BY TextAssumption
<1>2. MNT_FAT32 \in Seq(Text)
  BY <1>1 DEF MNT_FAT32
<1>3. Len(MNT_FAT32) = 2
  BY DEF MNT_FAT32
<1>4. QED
  BY <1>2, <1>3

\* The innermost mount of a path.
LEMMA FindMount ==
  ASSUME NEW s \in FsState, NEW whole \in Seq(Text)
  PROVE  LET m == vfs_find_mount(s, whole)
             fits == {i \in Slot : s.mounts[i].mounted /\ IsPrefix(s.mounts[i].point, whole)}
         IN  IF fits = {} THEN m = NO_MOUNT
             ELSE m \in fits /\ \A i \in fits : Len(s.mounts[i].point) <= Len(s.mounts[m].point)
<1> DEFINE fits == {i \in Slot : s.mounts[i].mounted /\ IsPrefix(s.mounts[i].point, whole)}
           Longest(i) == \A j \in fits : Len(s.mounts[j].point) <= Len(s.mounts[i].point)
<1>1. \A i \in Slot : s.mounts[i].point \in {<< >>, MNT_FAT32}
  BY DEF FsState, Mount
<1>2. \A i \in Slot : Len(s.mounts[i].point) = IF s.mounts[i].point = MNT_FAT32 THEN 2 ELSE 0
  BY <1>1, Points
<1>3. ASSUME fits # {} PROVE \E i \in fits : Longest(i)
  <2>1. CASE \E i \in fits : s.mounts[i].point = MNT_FAT32
    BY <1>2, <2>1
  <2>2. CASE ~\E i \in fits : s.mounts[i].point = MNT_FAT32
    BY <1>2, <1>3, <2>2
  <2>3. QED
    BY <2>1, <2>2
<1>4. vfs_find_mount(s, whole) = IF fits = {} THEN NO_MOUNT ELSE CHOOSE i \in fits : Longest(i)
  BY DEF vfs_find_mount
<1> HIDE DEF fits
<1>5. QED
  BY <1>3, <1>4 DEF fits

\* A resolved path: a mount, its file system, and the rest of the path.
LEMMA ResolvePath ==
  ASSUME NEW s \in FsState, NEW path \in Seq(Text)
  PROVE  LET at == vfs_resolve_path(s, path)
             whole == vfs_resolve_dots(path)
         IN  /\ at.path \in Seq(Text) /\ whole \in Seq(Text)
             /\ at.mount = NO_MOUNT => at.ops = NULL /\ at.path = << >>
             /\ at.mount # NO_MOUNT =>
                    /\ at.mount \in Slot /\ s.mounts[at.mount].mounted
                    /\ at.ops = s.mounts[at.mount].ops
                    /\ s.mounts[at.mount].point \o at.path = whole
             /\ \A i \in Slot : s.mounts[i].mounted /\ IsPrefix(s.mounts[i].point, whole) =>
                    at.mount # NO_MOUNT /\ Len(s.mounts[i].point) <= Len(s.mounts[at.mount].point)
             /\ ~NeverReturns(path) => NameOf(at.path) \notin {".", ".."}
<1> DEFINE at == vfs_resolve_path(s, path)
           whole == vfs_resolve_dots(path)
           m == vfs_find_mount(s, whole)
           fits == {i \in Slot : s.mounts[i].mounted /\ IsPrefix(s.mounts[i].point, whole)}
<1>1. whole \in Seq(Text) /\ (~NeverReturns(path) => \A i \in DOMAIN whole : whole[i] \notin {".", ".."})
  BY ResolveDots
<1>2. at = IF m = NO_MOUNT THEN [mount |-> m, ops |-> NULL, path |-> << >>]
           ELSE [mount |-> m, ops |-> s.mounts[m].ops,
                 path |-> SubSeq(whole, Len(s.mounts[m].point) + 1, Len(whole))]
  BY DEF vfs_resolve_path
<1>a. IF fits = {} THEN m = NO_MOUNT
      ELSE m \in fits /\ \A i \in fits : Len(s.mounts[i].point) <= Len(s.mounts[m].point)
  BY <1>1, FindMount
<1> HIDE DEF at, whole, m
<1>3. CASE fits = {}
  <2>1. at.mount = NO_MOUNT /\ at.ops = NULL /\ at.path = << >>
    BY <1>a, <1>2, <1>3
  <2>2. << >> \in Seq(Text) /\ NameOf(<< >>) = ""
    BY DEF NameOf
  <2>3. QED
    BY <1>1, <1>3, <2>1, <2>2 DEF at, whole
<1>4. CASE fits # {}
  <2>1. m \in Slot /\ s.mounts[m].mounted /\ IsPrefix(s.mounts[m].point, whole)
        /\ \A i \in fits : Len(s.mounts[i].point) <= Len(s.mounts[m].point)
    BY <1>a, <1>4
  <2>2. m # NO_MOUNT
    BY <2>1, Slots
  <2> DEFINE point == s.mounts[m].point
             rest == SubSeq(whole, Len(point) + 1, Len(whole))
  <2>3. at.mount = m /\ at.ops = s.mounts[m].ops /\ at.path = rest
    BY <1>2, <2>2
  <2>4. point \in Seq(Text)
    <3>1. point \in {<< >>, MNT_FAT32}
      BY <2>1 DEF FsState, Mount
    <3>2. QED
      BY <3>1, Points
  <2> HIDE DEF point
  <2> DEFINE n == Len(point)
  <2>5. n \in Nat /\ n <= Len(whole) /\ Len(whole) \in Nat
    BY <1>1, <2>1, <2>4 DEF IsPrefix, point
  <2>6. \A j \in 1 .. n : point[j] = whole[j]
    <3>1. SubSeq(point, 1, n) = SubSeq(whole, 1, n)
      BY <2>1 DEF IsPrefix, point
    <3>2. \A j \in 1 .. n : SubSeq(point, 1, n)[j] = point[j]
      BY <2>4
    <3>3. \A j \in 1 .. n : SubSeq(whole, 1, n)[j] = whole[j]
      BY <1>1, <2>5
    <3>4. QED
      BY <3>1, <3>2, <3>3
  <2>7. /\ rest \in Seq(Text) /\ Len(rest) = Len(whole) - n
        /\ \A j \in 1 .. Len(whole) - n : rest[j] = whole[n + j]
    <3>1. n + 1 \in 1 .. Len(whole) + 1 /\ Len(whole) \in (n + 1) - 1 .. Len(whole)
      BY <2>5
    <3> DEFINE k == n + 1
    <3> HIDE DEF k
    <3>2. /\ SubSeq(whole, k, Len(whole)) \in Seq(Text)
          /\ Len(SubSeq(whole, k, Len(whole))) = Len(whole) - k + 1
          /\ \A j \in 1 .. Len(whole) - k + 1 : SubSeq(whole, k, Len(whole))[j] = whole[k + j - 1]
      BY <1>1, <3>1, SubSeqElements DEF k
    <3>3. Len(whole) - k + 1 = Len(whole) - n /\ \A j \in Int : k + j - 1 = n + j
      BY <2>5 DEF k
    <3>4. rest = SubSeq(whole, k, Len(whole))
      BY DEF k
    <3> HIDE DEF rest, n
    <3>5. ASSUME NEW j \in 1 .. Len(whole) - n PROVE rest[j] = whole[n + j]
      <4>1. j \in Int /\ j \in 1 .. Len(whole) - k + 1
        BY <3>3
      <4>2. SubSeq(whole, k, Len(whole))[j] = whole[k + j - 1] /\ k + j - 1 = n + j
        BY <3>2, <3>3, <4>1
      <4>3. QED
        BY <3>4, <4>2
    <3>6. QED
      BY <3>2, <3>3, <3>4, <3>5
  <2> HIDE DEF rest
  <2>8. point \o rest = whole
    <3>1. /\ point \o rest \in Seq(Text) /\ Len(point \o rest) = Len(point) + Len(rest)
          /\ \A j \in 1 .. Len(point) : (point \o rest)[j] = point[j]
          /\ \A j \in 1 .. Len(rest) : (point \o rest)[Len(point) + j] = rest[j]
      BY <2>4, <2>7, ConcatElements
    <3> DEFINE y == point \o rest
    <3> HIDE DEF y
    <3>2. Len(y) = Len(whole)
      BY <2>5, <2>7, <3>1 DEF y
    <3>3. ASSUME NEW j \in 1 .. Len(y) PROVE y[j] = whole[j]
      <4>1. CASE j <= n
        <5>1. j \in 1 .. n
          BY <2>5, <3>2, <4>1
        <5>2. QED
          BY <2>6, <3>1, <5>1 DEF y
      <4>2. CASE j > n
        <5>1. j - n \in 1 .. Len(rest) /\ n + (j - n) = j
          BY <2>5, <2>7, <3>2, <4>2
        <5>2. y[n + (j - n)] = rest[j - n] /\ rest[j - n] = whole[n + (j - n)]
          BY <2>7, <3>1, <5>1 DEF y
        <5>3. QED
          BY <5>1, <5>2
      <4>3. QED
        BY <2>5, <4>1, <4>2
    <3>4. QED
      BY <1>1, <3>1, <3>2, <3>3, SeqEqual DEF y
  <2>9. ~NeverReturns(path) => NameOf(rest) \notin {".", ".."}
    <3> SUFFICES ASSUME ~NeverReturns(path) PROVE NameOf(rest) \notin {".", ".."}
      OBVIOUS
    <3>1. CASE rest = << >>
      BY <3>1 DEF NameOf
    <3>2. CASE rest # << >>
      <4>1. Len(rest) \in Nat \ {0} /\ NameOf(rest) = rest[Len(rest)]
        BY <2>7, <3>2 DEF NameOf, Last
      <4>2. rest[Len(rest)] = whole[n + Len(rest)] /\ n + Len(rest) \in DOMAIN whole
        BY <1>1, <2>5, <2>7, <4>1
      <4>3. QED
        BY <1>1, <4>1, <4>2
    <3>3. QED
      BY <3>1, <3>2
  <2>10. QED
    BY <1>1, <2>1, <2>2, <2>3, <2>7, <2>8, <2>9 DEF at, whole, point
<1>5. QED
  BY <1>3, <1>4
-----------------------------------------------------------------------------
(* What creating and removing a node changes                               *)

\* The tables other than the tree.
SameTables(s, t) ==
    t.mounts = s.mounts /\ t.open_files = s.open_files /\ t.cwd = s.cwd /\ t.fat = s.fat

LEMMA NodeFields ==
  ASSUME NEW s \in FsState, NEW n \in NodeId
  PROVE  /\ s.node[n] \in FSNode /\ s.node[n].name \in Text
         /\ s.node[n].type \in {FS_FILE, FS_DIRECTORY}
         /\ s.node[n].parent \in NodeId \cup {NULL}
         /\ s.node[n].children \in Seq(NodeId) /\ s.node[n].data \in Seq(Text)
<1>1. s.node[n] \in FSNode
  BY DEF FsState
<1>2. QED
  BY <1>1 DEF FSNode

LEMMA StateFields ==
  ASSUME NEW s \in FsState
  PROVE  /\ s.allocated \subseteq NodeId /\ s.node \in [NodeId -> FSNode]
         /\ s.mounts \in [Slot -> Mount] /\ s.open_files \in [Handle -> OpenEntry]
         /\ s.cwd \in Seq(Text) /\ s.fat.fds \subseteq Fd
         /\ s.fat \in [mounted : BOOLEAN, fds : SUBSET Fd]
BY DEF FsState

Fresh(name, type) == [FreeMemory EXCEPT !.name = name, !.type = type]

LEMMA EmptySeqs == << >> \in Seq(NodeId) /\ << >> \in Seq(Text) /\ "" \in Text
<1>1. << >> \in Seq(NodeId)
  OBVIOUS
<1>2. << >> \in Seq(Text)
  OBVIOUS
<1>3. "" \in Text
  BY TextAssumption
<1>4. QED
  BY <1>1, <1>2, <1>3, Zenon

LEMMA FreeMemoryNode ==
  /\ FreeMemory \in FSNode
  /\ FreeMemory.parent = NULL /\ FreeMemory.children = << >> /\ FreeMemory.data = << >>
<1> DEFINE z == << >>
<1>1. z \in Seq(NodeId) /\ z \in Seq(Text) /\ "" \in Text
  BY EmptySeqs
<1>2. FreeMemory = [name |-> "", type |-> FS_FILE, parent |-> NULL, children |-> z, data |-> z]
  BY DEF FreeMemory
<1> HIDE DEF z
<1>3. FreeMemory \in FSNode
  BY <1>1, <1>2 DEF FSNode
<1>4. FreeMemory.parent = NULL /\ FreeMemory.children = z /\ FreeMemory.data = z
  BY <1>2
<1>5. QED
  BY <1>3, <1>4 DEF z

LEMMA FreshNode ==
  ASSUME NEW name \in Text, NEW type \in {FS_FILE, FS_DIRECTORY}
  PROVE  /\ Fresh(name, type) \in FSNode
         /\ Fresh(name, type).name = name /\ Fresh(name, type).type = type
         /\ Fresh(name, type).parent = NULL /\ Fresh(name, type).children = << >>
         /\ Fresh(name, type).data = << >>
<1> DEFINE x == FreeMemory
           y == [x EXCEPT !.name = name, !.type = type]
<1>1. x \in FSNode /\ x.parent = NULL /\ x.children = << >> /\ x.data = << >>
  BY FreeMemoryNode
<1> HIDE DEF x
<1>2. y \in FSNode /\ y.name = name /\ y.type = type /\ y.parent = x.parent
      /\ y.children = x.children /\ y.data = x.data
  BY <1>1 DEF FSNode
<1>3. Fresh(name, type) = y
  BY DEF Fresh, x
<1> HIDE DEF y
<1>4. QED
  BY <1>1, <1>2, <1>3

\* One field of a node changes, or the nodes of a state.
WithChildren(x, z) == [x EXCEPT !.children = z]
WithParent(x, p) == [x EXCEPT !.parent = p]
WithData(x, z) == [x EXCEPT !.data = z]
WithNodes(s, allocated, node) == [s EXCEPT !.allocated = allocated, !.node = node]

LEMMA NodeWithChildren ==
  ASSUME NEW x \in FSNode, NEW z \in Seq(NodeId)
  PROVE  LET y == WithChildren(x, z)
         IN  /\ y \in FSNode /\ y.children = z
             /\ y.name = x.name /\ y.type = x.type /\ y.parent = x.parent /\ y.data = x.data
BY DEF FSNode, WithChildren

LEMMA NodeWithParent ==
  ASSUME NEW x \in FSNode, NEW p \in NodeId \cup {NULL}
  PROVE  LET y == WithParent(x, p)
         IN  /\ y \in FSNode /\ y.parent = p
             /\ y.name = x.name /\ y.type = x.type /\ y.children = x.children /\ y.data = x.data
BY DEF FSNode, WithParent

LEMMA NodeWithData ==
  ASSUME NEW x \in FSNode, NEW z \in Seq(Text)
  PROVE  LET y == WithData(x, z)
         IN  /\ y \in FSNode /\ y.data = z
             /\ y.name = x.name /\ y.type = x.type /\ y.children = x.children /\ y.parent = x.parent
BY DEF FSNode, WithData

LEMMA StateWithNodes ==
  ASSUME NEW s \in FsState, NEW allocated \in SUBSET NodeId, NEW node \in [NodeId -> FSNode]
  PROVE  LET t == WithNodes(s, allocated, node)
         IN  t \in FsState /\ SameTables(s, t) /\ t.allocated = allocated /\ t.node = node
BY DEF FsState, SameTables, WithNodes

LEMMA CreateEffect ==
  ASSUME NEW s \in FsState, NEW id \in NodeId, NEW name \in Text, NEW type \in {FS_FILE, FS_DIRECTORY},
         NEW t, t = fs_create_node(s, id, name, type)
  PROVE  /\ t \in FsState /\ SameTables(s, t) /\ t.allocated = s.allocated \cup {id}
         /\ t.node[id] = Fresh(name, type)
         /\ \A n \in NodeId \ {id} : t.node[n] = s.node[n]
<1> DEFINE a == s.allocated \cup {id}
           f == [s.node EXCEPT ![id] = Fresh(name, type)]
<1>1. t = WithNodes(s, a, f)
  BY DEF fs_create_node, Fresh, FsState, WithNodes
<1>2. Fresh(name, type) \in FSNode
  BY FreshNode
<1>3. s.node \in [NodeId -> FSNode] /\ a \in SUBSET NodeId
  BY StateFields
<1>4. f \in [NodeId -> FSNode]
  BY <1>2, <1>3
<1>5. f[id] = Fresh(name, type) /\ \A n \in NodeId \ {id} : f[n] = s.node[n]
  BY <1>3
<1> HIDE DEF a, f
<1>6. t \in FsState /\ SameTables(s, t) /\ t.allocated = a /\ t.node = f
  BY <1>1, <1>3, <1>4, StateWithNodes
<1>7. QED
  BY <1>5, <1>6 DEF a

LEMMA AddChildEffect ==
  ASSUME NEW s \in FsState, NEW parent \in NodeId, NEW child \in NodeId, parent # child,
         Len(s.node[parent].children) < MAX_CHILDREN,
         NEW t, t = fs_add_child(s, parent, child)
  PROVE  /\ t \in FsState /\ SameTables(s, t) /\ t.allocated = s.allocated
         /\ t.node[parent] = WithChildren(s.node[parent], Append(s.node[parent].children, child))
         /\ t.node[child] = WithParent(s.node[child], parent)
         /\ \A n \in NodeId \ {parent, child} : t.node[n] = s.node[n]
<1> DEFINE z == Append(s.node[parent].children, child)
           a == WithChildren(s.node[parent], z)
           b == WithParent(s.node[child], parent)
           f == [[s.node EXCEPT ![parent] = a] EXCEPT ![child] = b]
<1>1. s.node[parent] \in FSNode /\ s.node[child] \in FSNode /\ s.node \in [NodeId -> FSNode]
      /\ s.node[parent].children \in Seq(NodeId) /\ s.allocated \in SUBSET NodeId
  BY NodeFields, StateFields
<1>2. z \in Seq(NodeId)
  BY <1>1, AppendElements
<1>3. ~(Len(s.node[parent].children) >= MAX_CHILDREN)
  BY <1>1, FileSystemAssumption
<1>4. t = [s EXCEPT !.node[parent].children = z, !.node[child].parent = parent]
  BY <1>3 DEF fs_add_child
<1> HIDE DEF z
<1>5. a \in FSNode /\ b \in FSNode
  BY <1>1, <1>2, NodeWithChildren, NodeWithParent
<1>6. t = WithNodes(s, s.allocated, f)
  BY <1>1, <1>4 DEF FsState, WithNodes, WithChildren, WithParent
<1> HIDE DEF a, b
<1>7. f \in [NodeId -> FSNode] /\ f[parent] = a /\ f[child] = b
      /\ \A n \in NodeId \ {parent, child} : f[n] = s.node[n]
  BY <1>1, <1>5
<1> HIDE DEF f
<1>8. t \in FsState /\ SameTables(s, t) /\ t.allocated = s.allocated /\ t.node = f
  BY <1>1, <1>6, <1>7, StateWithNodes
<1>9. QED
  BY <1>7, <1>8 DEF a, b, z

\* A node was added: below d, or below nothing when d is full.
Added(s, t, d, id, name, type) ==
    /\ SameTables(s, t) /\ t.allocated = s.allocated \cup {id}
    /\ t.node[id].name = name /\ t.node[id].type = type
    /\ t.node[id].children = << >> /\ t.node[id].data = << >>
    /\ \A n \in NodeId \ {id} :
           /\ t.node[n].name = s.node[n].name /\ t.node[n].type = s.node[n].type
           /\ t.node[n].parent = s.node[n].parent /\ t.node[n].data = s.node[n].data
           /\ n # d => t.node[n].children = s.node[n].children
    /\ IF Len(s.node[d].children) >= MAX_CHILDREN
       THEN t.node[id].parent = NULL /\ t.node[d].children = s.node[d].children
       ELSE t.node[id].parent = d /\ t.node[d].children = Append(s.node[d].children, id)

LEMMA AddEffect ==
  ASSUME NEW s \in FsState, NEW id \in NodeId, NEW path \in Seq(Text), NEW type \in {FS_FILE, FS_DIRECTORY},
         NEW d \in NodeId \ {id}, d = fs_find_by_path(s, ParentPath(path)),
         NEW t, t = AddNode(s, path, id, type)
  PROVE  t \in FsState /\ Added(s, t, d, id, NameOf(path), type)
<1> DEFINE name == NameOf(path)
           u == fs_create_node(s, id, name, type)
<1>1. name \in Text
  BY PathParts
<1>2. t = fs_add_child(u, d, id)
  BY DEF AddNode
<1> HIDE DEF name
<1>3. /\ u \in FsState /\ SameTables(s, u) /\ u.allocated = s.allocated \cup {id}
      /\ u.node[id] = Fresh(name, type)
      /\ \A n \in NodeId \ {id} : u.node[n] = s.node[n]
  BY <1>1, CreateEffect
<1> HIDE DEF u
<1>4. /\ u.node[id].name = name /\ u.node[id].type = type
      /\ u.node[id].children = << >> /\ u.node[id].data = << >> /\ u.node[id].parent = NULL
  BY <1>1, <1>3, FreshNode
<1>5. u.node[d] = s.node[d]
  BY <1>3
<1>6. CASE Len(s.node[d].children) >= MAX_CHILDREN
  <2>1. t = u
    BY <1>2, <1>5, <1>6 DEF fs_add_child
  <2>2. QED
    BY <1>3, <1>4, <1>6, <2>1 DEF Added, name
<1>7. CASE ~(Len(s.node[d].children) >= MAX_CHILDREN)
  <2>1. s.node[d].children \in Seq(NodeId) /\ s.node[d] \in FSNode
    BY NodeFields
  <2>2. Len(u.node[d].children) < MAX_CHILDREN
    BY <1>5, <1>7, <2>1, FileSystemAssumption
  <2>3. /\ t \in FsState /\ SameTables(u, t) /\ t.allocated = u.allocated
        /\ t.node[d] = WithChildren(u.node[d], Append(u.node[d].children, id))
        /\ t.node[id] = WithParent(u.node[id], d)
        /\ \A n \in NodeId \ {d, id} : t.node[n] = u.node[n]
    <3>1. u \in FsState /\ d \in NodeId /\ d # id
      BY <1>3
    <3>2. QED
      BY <1>2, <2>2, <3>1, AddChildEffect
  <2>4. SameTables(s, t) /\ t.allocated = s.allocated \cup {id}
    BY <1>3, <2>3 DEF SameTables
  <2>5. u.node[id] \in FSNode /\ u.node[d] \in FSNode /\ Append(u.node[d].children, id) \in Seq(NodeId)
    <3>1. u.node[id] \in FSNode /\ u.node[d] \in FSNode /\ u.node[d].children \in Seq(NodeId)
      BY <1>3, NodeFields
    <3>2. QED
      BY <3>1, AppendElements
  <2>6. /\ t.node[id].name = name /\ t.node[id].type = type
        /\ t.node[id].children = << >> /\ t.node[id].data = << >> /\ t.node[id].parent = d
    BY <1>4, <2>3, <2>5, NodeWithParent
  <2>7. /\ t.node[d].name = s.node[d].name /\ t.node[d].type = s.node[d].type
        /\ t.node[d].parent = s.node[d].parent /\ t.node[d].data = s.node[d].data
        /\ t.node[d].children = Append(s.node[d].children, id)
    <3> DEFINE x == u.node[d]
               z == Append(x.children, id)
               y == t.node[d]
    <3>1. x \in FSNode /\ z \in Seq(NodeId) /\ y = WithChildren(x, z) /\ x = s.node[d]
      BY <1>5, <2>3, <2>5
    <3> HIDE DEF x, y, z
    <3>2. /\ y.children = z /\ y.name = x.name /\ y.type = x.type
          /\ y.parent = x.parent /\ y.data = x.data
      BY <3>1, NodeWithChildren
    <3>3. QED
      BY <3>1, <3>2 DEF y, z
  <2>8. \A n \in NodeId \ {d, id} : t.node[n] = s.node[n]
    BY <1>3, <2>3
  <2>9. QED
    BY <1>7, <2>3, <2>4, <2>6, <2>7, <2>8 DEF Added, name
<1>8. QED
  BY <1>6, <1>7
\* Facts about a live node and its links.
LEMMA TreeLinks ==
  ASSUME NEW s \in FsState, Tree(s), NEW n \in s.allocated
  PROVE  /\ n \in NodeId /\ s.node[n].children \in Seq(NodeId)
         /\ LinkedDown(s, n) /\ LinkedUp(s, n)
         /\ \A i \in DOMAIN s.node[n].children :
                s.node[n].children[i] \in s.allocated /\ s.node[s.node[n].children[i]].parent = n
BY NodeFields, StateFields DEF Tree, LinkedDown

\* y is z with a new last element, or z itself.
Longer(y, z, e) ==
    /\ \A i \in DOMAIN z : i \in DOMAIN y /\ y[i] = z[i]
    /\ \A i \in DOMAIN y : i \notin DOMAIN z => y[i] = e /\ \A j \in DOMAIN z : j <= i
    /\ \A i, j \in DOMAIN y : i \notin DOMAIN z /\ j \notin DOMAIN z => i = j

\* The children of the directory that got one more.
LEMMA AddedChildren ==
  ASSUME NEW s \in FsState, Tree(s), NEW d \in s.allocated, NEW id \in NodeId \ s.allocated,
         NEW t, NEW name, NEW type, Added(s, t, d, id, name, type)
  PROVE  /\ Longer(t.node[d].children, s.node[d].children, id)
         /\ Len(t.node[d].children) <= MAX_CHILDREN
         /\ \/ t.node[id].parent = NULL /\ t.node[d].children = s.node[d].children
            \/ t.node[id].parent = d /\ \E i \in DOMAIN t.node[d].children : t.node[d].children[i] = id
<1> DEFINE z == s.node[d].children
           y == t.node[d].children
<1>1. z \in Seq(NodeId) /\ d \in NodeId
  BY TreeLinks
<1>2. Len(z) \in Nat /\ DOMAIN z = 1 .. Len(z) /\ MAX_CHILDREN \in Nat /\ Len(z) <= MAX_CHILDREN
  BY <1>1, FileSystemAssumption DEF Tree
<1>3. IF Len(z) >= MAX_CHILDREN THEN t.node[id].parent = NULL /\ y = z
      ELSE t.node[id].parent = d /\ y = Append(z, id)
  BY DEF Added
<1> HIDE DEF z, y
<1>4. CASE Len(z) >= MAX_CHILDREN
  <2>1. Longer(z, z, id)
    BY DEF Longer
  <2>2. QED
    BY <1>2, <1>3, <1>4, <2>1 DEF y, z
<1>5. CASE ~(Len(z) >= MAX_CHILDREN)
  <2> DEFINE k == Len(z)
  <2>1. y \in Seq(NodeId) /\ Len(y) = k + 1 /\ y[k + 1] = id
        /\ \A i \in 1 .. k : y[i] = z[i]
    BY <1>1, <1>3, <1>5, AppendElements
  <2>2. DOMAIN y = 1 .. (k + 1) /\ DOMAIN z = 1 .. k /\ k \in Nat /\ k + 1 <= MAX_CHILDREN
    BY <1>2, <1>5, <2>1
  <2> HIDE DEF k
  <2>3. Longer(y, z, id)
    BY <2>1, <2>2 DEF Longer
  <2>4. k + 1 \in DOMAIN y /\ y[k + 1] = id
    BY <2>1, <2>2
  <2>5. QED
    BY <1>3, <1>5, <2>1, <2>2, <2>3, <2>4 DEF y, z
<1>6. QED
  BY <1>4, <1>5

\* The tree stays a tree.
LEMMA AddedTree ==
  ASSUME NEW s \in FsState, Tree(s), NEW d \in s.allocated, s.node[d].type = FS_DIRECTORY,
         NEW id \in NodeId \ s.allocated, NEW t \in FsState,
         NEW name, name \notin {".", ".."}, NEW type, Added(s, t, d, id, name, type)
  PROVE  Tree(t)
<1> DEFINE z == s.node[d].children
           y == t.node[d].children
<1>1. /\ Longer(y, z, id) /\ Len(y) <= MAX_CHILDREN
      /\ \/ t.node[id].parent = NULL /\ y = z
         \/ t.node[id].parent = d /\ \E i \in DOMAIN y : y[i] = id
  BY AddedChildren
<1>2. t.allocated = s.allocated \cup {id} /\ s.allocated \subseteq NodeId
  BY StateFields DEF Added
<1>3. \A n \in s.allocated : t.node[n].parent = s.node[n].parent /\ n # id
                             /\ t.node[n].name = s.node[n].name /\ t.node[n].type = s.node[n].type
                             /\ (n # d => t.node[n].children = s.node[n].children)
  BY <1>2 DEF Added
<1>4. t.node[id].children = << >> /\ t.node[id].name = name
  BY DEF Added
<1> HIDE DEF z, y
<1>5. Root \in t.allocated /\ t.node[Root].type = FS_DIRECTORY /\ t.node[Root].parent = NULL
  BY <1>2, <1>3 DEF Tree
<1>6. ASSUME NEW n \in t.allocated PROVE LinkedDown(t, n)
  <2>1. CASE n = id
    BY <1>4, <2>1 DEF LinkedDown
  <2>2. CASE n \in s.allocated /\ n # d
    <3>1. t.node[n].children = s.node[n].children
      BY <1>3, <2>2
    <3>2. LinkedDown(s, n)
      BY <2>2, TreeLinks
    <3>3. QED
      BY <1>2, <1>3, <3>1, <3>2 DEF LinkedDown
  <2>3. CASE n = d
    <3>1. \A i \in DOMAIN z : /\ z[i] \in s.allocated /\ s.node[z[i]].parent = d
                              /\ \A j \in DOMAIN z : z[i] = z[j] => i = j
      <4>1. LinkedDown(s, d)
        BY TreeLinks
      <4>2. QED
        BY <4>1 DEF LinkedDown, z
    <3>2. ASSUME NEW i \in DOMAIN y
          PROVE  y[i] \in t.allocated /\ t.node[y[i]].parent = d
      <4>1. CASE i \in DOMAIN z
        <5>1. y[i] = z[i] /\ z[i] \in s.allocated /\ s.node[z[i]].parent = d
          BY <1>1, <3>1, <4>1 DEF Longer
        <5>2. QED
          BY <1>2, <1>3, <5>1
      <4>2. CASE i \notin DOMAIN z
        BY <1>1, <1>2, <4>2 DEF Longer
      <4>3. QED
        BY <4>1, <4>2
    <3>3. ASSUME NEW i \in DOMAIN y, NEW j \in DOMAIN y, y[i] = y[j] PROVE i = j
      <4>1. \A k \in DOMAIN z : y[k] = z[k] /\ z[k] # id
        BY <1>1, <3>1 DEF Longer
      <4>2. \A k \in DOMAIN y : k \notin DOMAIN z => y[k] = id
        BY <1>1 DEF Longer
      <4>3. CASE i \in DOMAIN z /\ j \in DOMAIN z
        BY <3>1, <3>3, <4>1, <4>3
      <4>4. CASE i \notin DOMAIN z /\ j \notin DOMAIN z
        BY <1>1, <4>4 DEF Longer
      <4>5. QED
        BY <3>3, <4>1, <4>2, <4>3, <4>4
    <3>4. QED
      BY <2>3, <3>2, <3>3 DEF LinkedDown, y
  <2>4. QED
    BY <1>2, <2>1, <2>2, <2>3
<1>7. ASSUME NEW n \in t.allocated PROVE LinkedUp(t, n)
  <2>1. CASE n = id
    <3>1. CASE t.node[id].parent = NULL
      BY <2>1, <3>1 DEF LinkedUp
    <3>2. CASE t.node[id].parent = d /\ \E i \in DOMAIN y : y[i] = id
      BY <1>2, <2>1, <3>2 DEF LinkedUp, y
    <3>3. QED
      BY <1>1, <3>1, <3>2
  <2>2. CASE n \in s.allocated
    <3> SUFFICES ASSUME t.node[n].parent # NULL PROVE LinkedUp(t, n)
      BY DEF LinkedUp
    <3> DEFINE p == s.node[n].parent
    <3>1. p # NULL /\ t.node[n].parent = p
      BY <1>3, <2>2
    <3>2. LinkedUp(s, n)
      BY <2>2, TreeLinks
    <3>3. p \in s.allocated
      BY <3>1, <3>2 DEF LinkedUp
    <3>4. PICK i \in DOMAIN s.node[p].children : s.node[p].children[i] = n
      BY <3>1, <3>2 DEF LinkedUp
    <3> HIDE DEF p
    <3>5. i \in DOMAIN t.node[p].children /\ t.node[p].children[i] = n
      <4>1. CASE p # d
        BY <1>3, <3>3, <3>4, <4>1
      <4>2. CASE p = d
        <5>1. i \in DOMAIN z /\ z[i] = n
          BY <3>4, <4>2 DEF z
        <5>2. i \in DOMAIN y /\ y[i] = n
          BY <1>1, <5>1 DEF Longer
        <5>3. QED
          BY <4>2, <5>2 DEF y
      <4>3. QED
        BY <4>1, <4>2
    <3>6. QED
      BY <1>2, <3>1, <3>3, <3>5 DEF LinkedUp
  <2>3. QED
    BY <1>2, <2>1, <2>2
<1>8. ASSUME NEW n \in t.allocated
      PROVE  (t.node[n].type = FS_FILE => t.node[n].children = << >>) /\ t.node[n].name \notin {".", ".."}
  <2>1. CASE n = id
    BY <1>4, <2>1
  <2>2. CASE n \in s.allocated
    <3>1. s.node[n].type = FS_FILE => n # d
      BY DEF FS_FILE, FS_DIRECTORY
    <3>2. (s.node[n].type = FS_FILE => s.node[n].children = << >>) /\ s.node[n].name \notin {".", ".."}
      BY <2>2 DEF Tree
    <3>3. QED
      BY <1>3, <2>2, <3>1, <3>2
  <2>3. QED
    BY <1>2, <2>1, <2>2
<1>9. ASSUME NEW n \in NodeId PROVE Len(t.node[n].children) <= MAX_CHILDREN
  <2>1. Len(s.node[n].children) <= MAX_CHILDREN /\ MAX_CHILDREN \in Nat
    BY FileSystemAssumption DEF Tree
  <2>2. CASE n = id
    <3>1. Len(<< >>) = 0
      OBVIOUS
    <3>2. QED
      BY <1>4, <2>1, <2>2, <3>1
  <2>3. CASE n # id /\ n # d
    <3>1. t.node[n].children = s.node[n].children
      BY <2>3 DEF Added
    <3>2. QED
      BY <2>1, <3>1
  <2>4. CASE n = d
    BY <1>1, <2>4 DEF y
  <2>5. QED
    BY <2>2, <2>3, <2>4
<1>10. QED
  BY <1>5, <1>6, <1>7, <1>8, <1>9 DEF Tree

\* What was first of its name stays so.
LEMMA AddedFirst ==
  ASSUME NEW s \in FsState, Tree(s), NEW d \in s.allocated, NEW id \in NodeId \ s.allocated,
         NEW t, NEW name, NEW type, Added(s, t, d, id, name, type),
         NEW n \in s.allocated, FirstOfName(s, n)
  PROVE  FirstOfName(t, n)
<1> DEFINE p == s.node[n].parent
           above == s.node[p].children
           after == t.node[p].children
<1>1. p # NULL /\ \A i, j \in DOMAIN above : above[j] = n /\ s.node[above[i]].name = s.node[n].name => j <= i
  BY DEF FirstOfName
<1>2. p \in s.allocated
  <2>1. LinkedUp(s, n)
    BY TreeLinks
  <2>2. QED
    BY <1>1, <2>1 DEF LinkedUp
<1>3. s.allocated \subseteq NodeId /\ id \notin s.allocated
  BY StateFields
<1>4. \A m \in s.allocated : t.node[m].parent = s.node[m].parent /\ t.node[m].name = s.node[m].name
                             /\ (m # d => t.node[m].children = s.node[m].children)
  BY <1>3 DEF Added
<1>5. \A i \in DOMAIN above : above[i] \in s.allocated
  BY <1>2, TreeLinks
<1>6. Longer(after, above, id)
  <2>1. CASE p # d
    <3>1. after = above
      BY <1>2, <1>4, <2>1
    <3>2. QED
      BY <3>1 DEF Longer
  <2>2. CASE p = d
    BY <2>2, AddedChildren
  <2>3. QED
    BY <2>1, <2>2
<1> HIDE DEF p, above, after
<1>7. ASSUME NEW i \in DOMAIN after, NEW j \in DOMAIN after,
             after[j] = n, t.node[after[i]].name = t.node[n].name
      PROVE  j <= i
  <2>1. j \in DOMAIN above /\ above[j] = n
    BY <1>3, <1>6, <1>7 DEF Longer
  <2>2. CASE i \in DOMAIN above
    <3>1. after[i] = above[i] /\ above[i] \in s.allocated
      BY <1>5, <1>6, <2>2 DEF Longer
    <3>2. s.node[above[i]].name = s.node[n].name
      BY <1>4, <1>7, <3>1
    <3>3. QED
      BY <1>1, <2>1, <2>2, <3>2
  <2>3. CASE i \notin DOMAIN above
    BY <1>6, <2>1, <2>3 DEF Longer
  <2>4. QED
    BY <2>2, <2>3
<1>8. t.node[n].parent = p
  BY <1>4 DEF p
<1>9. QED
  BY <1>1, <1>7, <1>8 DEF FirstOfName, after
\* A node was freed and taken from the children of its parent d.
Removed(s, t, d, n) ==
    /\ SameTables(s, t) /\ t.allocated = s.allocated \ {n}
    /\ t.node[n] = FreeMemory
    /\ \A m \in NodeId \ {n} :
           /\ t.node[m].name = s.node[m].name /\ t.node[m].type = s.node[m].type
           /\ t.node[m].parent = s.node[m].parent /\ t.node[m].data = s.node[m].data
           /\ m # d => t.node[m].children = s.node[m].children
    /\ \E p \in DOMAIN s.node[d].children :
           /\ s.node[d].children[p] = n
           /\ t.node[d].children = RemoveAt(s.node[d].children, p)

LEMMA RemoveEffect ==
  ASSUME NEW s \in FsState, Tree(s), NEW n \in s.allocated, s.node[n].children = << >>,
         NEW d, d = s.node[n].parent, d # NULL, NEW t, t = Unlink(s, n)
  PROVE  t \in FsState /\ d \in s.allocated /\ d # n /\ Removed(s, t, d, n)
<1> DEFINE z == s.node[d].children
           places == {i \in DOMAIN z : z[i] = n}
           u == fs_remove_child(s, d, n)
<1>1. LinkedUp(s, n) /\ n \in NodeId
  BY TreeLinks
<1>2. d \in s.allocated /\ places # {}
  BY <1>1 DEF LinkedUp
<1>3. d # n
  <2>1. DOMAIN << >> = {}
    OBVIOUS
  <2>2. QED
    BY <1>2, <2>1
<1>4. d \in NodeId /\ z \in Seq(NodeId) /\ s.node[d] \in FSNode
  BY <1>2, TreeLinks, NodeFields
<1> DEFINE p == FirstOf(places)
<1>5. p \in DOMAIN z /\ z[p] = n
  <2>1. places \in SUBSET Nat
    <3> HIDE DEF z
    <3>1. QED
      BY <1>4
  <2>2. p \in places
    BY <1>2, <2>1, FirstOfLeast
  <2>3. QED
    BY <2>2
<1> DEFINE r == RemoveAt(z, p)
           x == WithChildren(s.node[d], r)
           f == [s.node EXCEPT ![d] = x]
           g == [f EXCEPT ![n] = FreeMemory]
<1>6. u = [s EXCEPT !.node[d].children = r]
  BY <1>2 DEF fs_remove_child
<1>7. t = [u EXCEPT !.allocated = @ \ {n}, !.node[n] = FreeMemory]
  BY DEF Unlink, fs_free_node
<1> HIDE DEF p
<1>8. r \in Seq(NodeId)
  <2>1. p \in 1 .. Len(z)
    BY <1>4, <1>5
  <2>2. QED
    BY <1>4, <2>1, RemoveAtElements
<1> HIDE DEF r, places
<1>9. u = WithNodes(s, s.allocated, f)
  BY <1>6 DEF WithNodes, WithChildren, FsState
<1>10. x \in FSNode /\ x.children = r /\ x.name = s.node[d].name /\ x.type = s.node[d].type
       /\ x.parent = s.node[d].parent /\ x.data = s.node[d].data
  BY <1>4, <1>8, NodeWithChildren
<1> HIDE DEF x
<1>11. s.node \in [NodeId -> FSNode] /\ s.allocated \in SUBSET NodeId /\ FreeMemory \in FSNode
  BY StateFields, FreeMemoryNode
<1>12. f \in [NodeId -> FSNode]
  BY <1>10, <1>11
<1>13. u \in FsState /\ SameTables(s, u) /\ u.allocated = s.allocated /\ u.node = f
  <2> HIDE DEF f, u
  <2>1. QED
    BY <1>9, <1>11, <1>12, StateWithNodes
<1>14. g \in [NodeId -> FSNode] /\ g[n] = FreeMemory /\ g[d] = x
       /\ \A m \in NodeId \ {n, d} : g[m] = s.node[m]
  BY <1>1, <1>3, <1>4, <1>11, <1>12
<1> DEFINE a == u.allocated \ {n}
<1> HIDE DEF u
<1>15. t = WithNodes(u, a, g)
  BY <1>7, <1>13 DEF WithNodes, FsState
<1> HIDE DEF f, g
<1>16. a \in SUBSET NodeId
  BY <1>11, <1>13
<1> HIDE DEF a
<1>17. t \in FsState /\ SameTables(u, t) /\ t.allocated = a /\ t.node = g
  BY <1>13, <1>14, <1>15, <1>16, StateWithNodes
<1>18. SameTables(s, t) /\ t.allocated = s.allocated \ {n}
  BY <1>13, <1>17 DEF SameTables, a
<1>19. ASSUME NEW m \in NodeId \ {n}
       PROVE  /\ t.node[m].name = s.node[m].name /\ t.node[m].type = s.node[m].type
              /\ t.node[m].parent = s.node[m].parent /\ t.node[m].data = s.node[m].data
              /\ m # d => t.node[m].children = s.node[m].children
  <2>1. CASE m = d
    BY <1>10, <1>14, <1>17, <2>1
  <2>2. CASE m # d
    <3>1. t.node[m] = s.node[m]
      BY <1>14, <1>17, <2>2
    <3>2. QED
      BY <3>1
  <2>3. QED
    BY <2>1, <2>2
<1>20. t.node[d].children = RemoveAt(z, p) /\ t.node[n] = FreeMemory
  BY <1>10, <1>14, <1>17 DEF r
<1>21. QED
  BY <1>2, <1>3, <1>5, <1>17, <1>18, <1>19, <1>20 DEF Removed

\* y is z without the element at p; f says where each element was.
Shorter(y, z, p, f) ==
    /\ \A i \in DOMAIN y : f[i] \in DOMAIN z /\ f[i] # p /\ y[i] = z[f[i]]
    /\ \A k \in DOMAIN z : k # p => \E i \in DOMAIN y : f[i] = k
    /\ \A i, j \in DOMAIN y : (f[i] <= f[j] => i <= j) /\ (f[i] = f[j] => i = j)

LEMMA RemoveAtShorter ==
  ASSUME NEW z \in Seq(NodeId), NEW p \in DOMAIN z
  PROVE  /\ \E f : Shorter(RemoveAt(z, p), z, p, f)
         /\ Len(RemoveAt(z, p)) <= Len(z)
<1> DEFINE y == RemoveAt(z, p)
           k == Len(z)
           f == [i \in 1 .. k - 1 |-> IF i < p THEN i ELSE i + 1]
<1>1. p \in 1 .. k /\ k \in Nat /\ DOMAIN z = 1 .. k
  OBVIOUS
<1>2. y \in Seq(NodeId) /\ Len(y) = k - 1 /\ \A j \in 1 .. k - 1 : y[j] = z[IF j < p THEN j ELSE j + 1]
  BY <1>1, RemoveAtElements
<1>3. DOMAIN y = 1 .. k - 1
  BY <1>2
<1> HIDE DEF y, k
<1>4. \A i \in DOMAIN y : f[i] \in DOMAIN z /\ f[i] # p /\ y[i] = z[f[i]]
  BY <1>1, <1>2, <1>3
<1>5. ASSUME NEW i \in DOMAIN z, i # p PROVE \E j \in DOMAIN y : f[j] = i
  <2>1. CASE i < p
    <3>1. i \in DOMAIN y /\ f[i] = i
      BY <1>1, <1>3, <2>1
    <3>2. QED
      BY <3>1
  <2>2. CASE i > p
    <3>1. i - 1 \in DOMAIN y /\ f[i - 1] = i
      BY <1>1, <1>3, <2>2
    <3>2. QED
      BY <3>1
  <2>3. QED
    BY <1>1, <1>5, <2>1, <2>2
<1>6. \A i, j \in DOMAIN y : (f[i] <= f[j] => i <= j) /\ (f[i] = f[j] => i = j)
  BY <1>1, <1>3
<1> HIDE DEF f
<1>7. Shorter(y, z, p, f)
  BY <1>4, <1>5, <1>6 DEF Shorter
<1>8. Len(y) <= k
  BY <1>1, <1>2
<1>9. QED
  BY <1>7, <1>8 DEF y, k

LEMMA RemovedTree ==
  ASSUME NEW s \in FsState, Tree(s), NEW n \in s.allocated, n # Root, s.node[n].children = << >>,
         NEW d \in s.allocated, d # n, s.node[n].parent = d, NEW t \in FsState, Removed(s, t, d, n)
  PROVE  Tree(t)
<1> DEFINE z == s.node[d].children
           y == t.node[d].children
<1>1. PICK p \in DOMAIN z : z[p] = n /\ y = RemoveAt(z, p)
  BY DEF Removed
<1>2. z \in Seq(NodeId) /\ s.allocated \subseteq NodeId /\ d \in NodeId
  BY TreeLinks, StateFields
<1>3. (\E f : Shorter(y, z, p, f)) /\ Len(y) <= Len(z)
  BY <1>1, <1>2, RemoveAtShorter
<1>4. PICK f : Shorter(y, z, p, f)
  BY <1>3
<1>5. t.allocated = s.allocated \ {n}
  BY DEF Removed
<1>6. \A m \in t.allocated : t.node[m].parent = s.node[m].parent /\ t.node[m].name = s.node[m].name
                             /\ t.node[m].type = s.node[m].type
                             /\ (m # d => t.node[m].children = s.node[m].children)
  BY <1>2, <1>5 DEF Removed
<1> HIDE DEF z, y
<1>7. Root \in t.allocated /\ t.node[Root].type = FS_DIRECTORY /\ t.node[Root].parent = NULL
  <2>1. Root \in t.allocated
    BY <1>5 DEF Tree
  <2>2. QED
    BY <1>6, <2>1 DEF Tree
<1>8. ASSUME NEW m \in t.allocated PROVE LinkedDown(t, m)
  <2>1. CASE m # d
    <3>1. t.node[m].children = s.node[m].children /\ m \in s.allocated
      BY <1>5, <1>6, <2>1
    <3>2. LinkedDown(s, m)
      BY <3>1, TreeLinks
    <3> DEFINE c == s.node[m].children
    <3>3. \A i \in DOMAIN c : c[i] \in s.allocated /\ s.node[c[i]].parent = m
                              /\ \A j \in DOMAIN c : c[i] = c[j] => i = j
      BY <3>2 DEF LinkedDown
    <3> HIDE DEF c
    <3>4. \A i \in DOMAIN c : c[i] \in t.allocated /\ t.node[c[i]].parent = m
      BY <1>5, <1>6, <2>1, <3>3
    <3>5. QED
      BY <3>1, <3>3, <3>4 DEF LinkedDown, c
  <2>2. CASE m = d
    <3>1. \A i \in DOMAIN z : /\ z[i] \in s.allocated /\ s.node[z[i]].parent = d
                              /\ \A j \in DOMAIN z : z[i] = z[j] => i = j
      <4>1. LinkedDown(s, d)
        BY TreeLinks
      <4>2. QED
        BY <4>1 DEF LinkedDown, z
    <3>2. ASSUME NEW i \in DOMAIN y
          PROVE  y[i] \in t.allocated /\ t.node[y[i]].parent = d
                 /\ \A j \in DOMAIN y : y[i] = y[j] => i = j
      <4>1. f[i] \in DOMAIN z /\ f[i] # p /\ y[i] = z[f[i]]
        BY <1>4 DEF Shorter
      <4>2. y[i] \in t.allocated
        BY <1>1, <1>5, <3>1, <4>1
      <4>3. t.node[y[i]].parent = d
        BY <1>6, <3>1, <4>1, <4>2
      <4>4. \A j \in DOMAIN y : y[i] = y[j] => i = j
        BY <1>4, <3>1, <4>1 DEF Shorter
      <4>5. QED
        BY <4>2, <4>3, <4>4
    <3>3. QED
      BY <2>2, <3>2 DEF LinkedDown, y
  <2>3. QED
    BY <2>1, <2>2
<1>9. ASSUME NEW m \in t.allocated PROVE LinkedUp(t, m)
  <2> SUFFICES ASSUME t.node[m].parent # NULL PROVE LinkedUp(t, m)
    BY DEF LinkedUp
  <2> DEFINE q == s.node[m].parent
  <2>1. q # NULL /\ t.node[m].parent = q /\ m \in s.allocated /\ m # n
    BY <1>5, <1>6
  <2>2. LinkedUp(s, m)
    BY <2>1, TreeLinks
  <2>3. PICK i \in DOMAIN s.node[q].children : s.node[q].children[i] = m
    BY <2>1, <2>2 DEF LinkedUp
  <2>4. q \in s.allocated
    BY <2>1, <2>2 DEF LinkedUp
  <2> HIDE DEF q
  <2>5. q # n
    <3>1. DOMAIN << >> = {}
      OBVIOUS
    <3>2. QED
      BY <2>3, <3>1
  <2>6. q \in t.allocated
    BY <1>5, <2>4, <2>5
  <2>7. \E j \in DOMAIN t.node[q].children : t.node[q].children[j] = m
    <3>1. CASE q # d
      BY <1>6, <2>3, <2>6, <3>1
    <3>2. CASE q = d
      <4>1. i \in DOMAIN z /\ z[i] = m /\ i # p
        BY <1>1, <2>1, <2>3, <3>2 DEF z
      <4>2. PICK j \in DOMAIN y : f[j] = i
        BY <1>4, <4>1 DEF Shorter
      <4>3. y[j] = m
        BY <1>4, <4>1, <4>2 DEF Shorter
      <4>4. QED
        BY <3>2, <4>3 DEF y
    <3>3. QED
      BY <3>1, <3>2
  <2>8. QED
    BY <2>1, <2>6, <2>7 DEF LinkedUp
<1>10. ASSUME NEW m \in t.allocated
       PROVE  (t.node[m].type = FS_FILE => t.node[m].children = << >>) /\ t.node[m].name \notin {".", ".."}
  <2>1. m \in s.allocated /\ s.node[d].type # FS_FILE
    <3>1. z # << >>
      BY <1>1
    <3>2. QED
      BY <1>5, <3>1 DEF Tree, z
  <2>2. (s.node[m].type = FS_FILE => s.node[m].children = << >>) /\ s.node[m].name \notin {".", ".."}
    BY <2>1 DEF Tree
  <2>3. QED
    BY <1>6, <2>1, <2>2
<1>11. ASSUME NEW m \in NodeId PROVE Len(t.node[m].children) <= MAX_CHILDREN
  <2>1. Len(s.node[m].children) <= MAX_CHILDREN /\ MAX_CHILDREN \in Nat
    BY FileSystemAssumption DEF Tree
  <2>2. CASE m = n
    <3>1. Len(<< >>) = 0 /\ t.node[m].children = << >>
      BY <2>2, FreeMemoryNode DEF Removed
    <3>2. QED
      BY <2>1, <3>1
  <2>3. CASE m # n /\ m # d
    <3>1. t.node[m].children = s.node[m].children
      BY <2>3 DEF Removed
    <3>2. QED
      BY <2>1, <3>1
  <2>4. CASE m = d
    <3>1. t \in FsState /\ y \in Seq(NodeId)
      BY <1>2, NodeFields DEF y
    <3>2. Len(y) \in Nat /\ Len(z) \in Nat /\ Len(z) <= MAX_CHILDREN
      BY <1>2, <2>1, <2>4, <3>1 DEF z
    <3>3. Len(y) <= MAX_CHILDREN
      BY <1>3, <2>1, <3>2
    <3>4. QED
      BY <2>4, <3>3 DEF y
  <2>5. QED
    BY <2>2, <2>3, <2>4
<1>12. QED
  BY <1>7, <1>8, <1>9, <1>10, <1>11 DEF Tree

LEMMA RemovedFirst ==
  ASSUME NEW s \in FsState, Tree(s), NEW n \in s.allocated, s.node[n].children = << >>,
         NEW d \in s.allocated, d # n, s.node[n].parent = d, NEW t, Removed(s, t, d, n),
         NEW m \in s.allocated, m # n, FirstOfName(s, m)
  PROVE  FirstOfName(t, m)
<1> DEFINE q == s.node[m].parent
           above == s.node[q].children
           after == t.node[q].children
<1>1. q # NULL /\ \A i, j \in DOMAIN above : above[j] = m /\ s.node[above[i]].name = s.node[m].name => j <= i
  BY DEF FirstOfName
<1>2. q \in s.allocated /\ q # n
  <2>1. LinkedUp(s, m)
    BY TreeLinks
  <2>2. DOMAIN << >> = {}
    OBVIOUS
  <2>3. QED
    BY <1>1, <2>1, <2>2 DEF LinkedUp
<1>3. s.allocated \subseteq NodeId
  BY StateFields
<1>4. \A k \in s.allocated \ {n} :
          t.node[k].parent = s.node[k].parent /\ t.node[k].name = s.node[k].name
          /\ (k # d => t.node[k].children = s.node[k].children)
  BY <1>3 DEF Removed
<1>5. /\ above \in Seq(NodeId)
      /\ \A i \in DOMAIN above : above[i] \in s.allocated /\ s.node[above[i]].parent = q
                                 /\ \A j \in DOMAIN above : above[i] = above[j] => i = j
  <2>1. LinkedDown(s, q) /\ above \in Seq(NodeId)
    BY <1>2, TreeLinks
  <2>2. QED
    BY <2>1 DEF LinkedDown
<1>6. CASE q # d
  <2>1. after = above /\ t.node[m].parent = q /\ t.node[m].name = s.node[m].name
    BY <1>2, <1>4, <1>6
  <2> HIDE DEF q, above, after
  <2>2. \A i \in DOMAIN above : t.node[above[i]].name = s.node[above[i]].name
    BY <1>4, <1>5, <1>6
  <2>3. \A i, j \in DOMAIN after : after[j] = m /\ t.node[after[i]].name = t.node[m].name => j <= i
    BY <1>1, <2>1, <2>2
  <2>4. QED
    BY <1>1, <2>1, <2>3 DEF FirstOfName, after
<1>7. CASE q = d
  <2>1. PICK p \in DOMAIN above : above[p] = n /\ after = RemoveAt(above, p)
    BY <1>7 DEF Removed
  <2>2. PICK f : Shorter(after, above, p, f)
    BY <1>5, <2>1, RemoveAtShorter
  <2>3. t.node[m].parent = q /\ t.node[m].name = s.node[m].name
    BY <1>4
  <2> HIDE DEF q, above, after
  <2>4. ASSUME NEW i \in DOMAIN after, NEW j \in DOMAIN after,
               after[j] = m, t.node[after[i]].name = t.node[m].name
        PROVE  j <= i
    <3>1. /\ f[i] \in DOMAIN above /\ f[i] # p /\ after[i] = above[f[i]]
          /\ f[j] \in DOMAIN above /\ after[j] = above[f[j]]
      BY <2>2 DEF Shorter
    <3>2. above[f[i]] \in s.allocated \ {n}
      BY <1>5, <2>1, <3>1
    <3>3. s.node[above[f[i]]].name = s.node[m].name
      BY <1>4, <2>3, <2>4, <3>1, <3>2
    <3>4. f[j] <= f[i]
      BY <1>1, <2>4, <3>1, <3>3
    <3>5. QED
      BY <2>2, <3>4 DEF Shorter
  <2>5. QED
    BY <1>1, <2>3, <2>4 DEF FirstOfName, after
<1>8. QED
  BY <1>6, <1>7
\* A lookup finds the node that is first of its name.
LEMMA FirstIsFound ==
  ASSUME NEW s \in FsState, Tree(s), NEW c \in s.allocated, FirstOfName(s, c)
  PROVE  fs_find_child(s, s.node[c].parent, s.node[c].name) = c
<1> DEFINE d == s.node[c].parent
           z == s.node[d].children
           name == s.node[c].name
<1>1. d # NULL /\ \A i, j \in DOMAIN z : z[j] = c /\ s.node[z[i]].name = name => j <= i
  BY DEF FirstOfName
<1>2. d \in s.allocated /\ \E i \in DOMAIN z : z[i] = c
  <2>1. LinkedUp(s, c)
    BY TreeLinks
  <2>2. QED
    BY <1>1, <2>1 DEF LinkedUp
<1>3. s.node[d].type = FS_DIRECTORY
  <2>1. DOMAIN << >> = {}
    OBVIOUS
  <2>2. s.node[d].type # FS_FILE
    BY <1>2, <2>1 DEF Tree
  <2>3. d \in NodeId
    BY <1>2, TreeLinks
  <2>4. QED
    BY <2>2, <2>3, NodeFields
<1> HIDE DEF z
<1>4. PICK i \in DOMAIN z : z[i] = c
  BY <1>2
<1>5. FirstNamed(s, d, name, c)
  BY <1>1, <1>3, <1>4 DEF FirstNamed, z
<1>6. d \in NodeId \cup {NULL}
  BY <1>2, StateFields
<1> HIDE DEF d, name
<1>7. fs_find_child(s, d, name) = c
  BY <1>5, <1>6, FindChildUnique
<1>8. QED
  BY <1>7 DEF d, name

\* A change of the tree frees no directory and keeps first what is first.
DirectoriesStay(s, t) ==
    \A c \in s.allocated : s.node[c].type = FS_DIRECTORY =>
        /\ c \in t.allocated /\ t.node[c].parent = s.node[c].parent /\ t.node[c].name = s.node[c].name
        /\ FirstOfName(s, c) => FirstOfName(t, c)

LEMMA DirectoriesFound ==
  ASSUME NEW s \in FsState, Tree(s), NEW t \in FsState, Tree(t), DirectoriesStay(s, t)
  PROVE  KeepsDirectories(s, t)
<1> SUFFICES ASSUME NEW d \in s.allocated, NEW name \in Text,
                    fs_find_child(s, d, name) # NULL,
                    s.node[fs_find_child(s, d, name)].type = FS_DIRECTORY
             PROVE  fs_find_child(t, d, name) = fs_find_child(s, d, name)
  BY DEF KeepsDirectories
<1> DEFINE c == fs_find_child(s, d, name)
<1>1. c \in s.allocated /\ s.node[c].parent = d /\ s.node[c].name = name /\ FirstOfName(s, c)
  BY ChildInTree
<1>2. s.node[c].type = FS_DIRECTORY
  OBVIOUS
<1> HIDE DEF c
<1>3. c \in t.allocated /\ t.node[c].parent = d /\ t.node[c].name = name /\ FirstOfName(t, c)
  BY <1>1, <1>2 DEF DirectoriesStay
<1>4. fs_find_child(t, t.node[c].parent, t.node[c].name) = c
  BY <1>3, FirstIsFound
<1>5. QED
  BY <1>3, <1>4 DEF c

-----------------------------------------------------------------------------
(* Steps of the kernel                                                     *)

\* What a step of the kernel keeps for the clients: the RAM file system is not
\* mounted anew, and files that are not freed stay files that lookups find and
\* do not shrink.
StepOK(s, t) ==
    /\ Good(t)
    /\ \A i \in Slot : t.mounts[i].ops = "ramfs" => s.mounts[i].ops = "ramfs"
    /\ \A n \in s.allocated : n \in t.allocated =>
           /\ t.node[n].type = s.node[n].type
           /\ FirstOfName(s, n) => FirstOfName(t, n)
           /\ Len(s.node[n].data) <= Len(t.node[n].data)

\* A length that stays does not shrink.
LEMMA SameLength ==
  ASSUME NEW s \in FsState, NEW n \in s.allocated, NEW z, z = s.node[n].data
  PROVE  Len(s.node[n].data) <= Len(z)
<1>1. z \in Seq(Text)
  BY NodeFields, StateFields
<1>2. Len(z) \in Nat
  BY <1>1
<1>3. Len(z) <= Len(z)
  BY <1>2
<1>4. QED
  BY <1>3

LEMMA SameTablesGood ==
  ASSUME NEW s, Good(s), NEW t, SameTables(s, t)
  PROVE  /\ MountsOK(t) /\ HandlesOK(t) /\ \A i \in DOMAIN t.cwd : t.cwd[i] \notin {".", ".."}
         /\ \A i \in Slot : t.mounts[i].ops = "ramfs" => s.mounts[i].ops = "ramfs"
<1>1. MountsOK(t)
  BY DEF Good, MountsOK, SameTables
<1>2. \A h \in Handle : OnDisk(t, h) <=> OnDisk(s, h)
  BY DEF OnDisk, SameTables
<1>3. HandlesOK(t)
  <2>1. \A h \in Handle : t.open_files[h].in_use =>
           t.open_files[h].mount \in Slot /\ t.mounts[t.open_files[h].mount].mounted
    BY DEF Good, HandlesOK, SameTables
  <2>2. t.fat.fds = {t.open_files[h].fs_handle : h \in {g \in Handle : OnDisk(t, g)}}
    BY <1>2 DEF Good, HandlesOK, SameTables
  <2>3. \A g, h \in Handle : OnDisk(t, g) /\ OnDisk(t, h)
           /\ t.open_files[g].fs_handle = t.open_files[h].fs_handle => g = h
    BY <1>2 DEF Good, HandlesOK, SameTables
  <2>4. QED
    BY <2>1, <2>2, <2>3 DEF HandlesOK
<1>4. QED
  BY <1>1, <1>3 DEF Good, SameTables

\* fs_touch and fs_mkdir.
LEMMA AddStep ==
  ASSUME NEW s, Good(s), NEW path \in Seq(Text), NameOf(path) \notin {".", ".."},
         IsDirectory(s, fs_find_by_path(s, ParentPath(path))),
         NEW type \in {FS_FILE, FS_DIRECTORY}, NEW id \in FreeNodes(s),
         NEW t, t = AddNode(s, path, id, type)
  PROVE  /\ StepOK(s, t) /\ SameTables(s, t) /\ KeepsDirectories(s, t)
         /\ t.allocated = s.allocated \cup {id} /\ t.node[id].data = << >>
         /\ \A n \in s.allocated : t.node[n].data = s.node[n].data /\ t.node[n].name = s.node[n].name
                                   /\ t.node[n].parent = s.node[n].parent
<1> DEFINE d == fs_find_by_path(s, ParentPath(path))
           name == NameOf(path)
<1>1. s \in FsState /\ Tree(s) /\ HiddenAreEmpty(s)
  BY DEF Good
<1>2. ParentPath(path) \in Seq(Text)
  BY PathParts
<1>3. d \in s.allocated \cup {NULL}
  BY <1>1, <1>2, FindInTree
<1>4. d \in s.allocated /\ s.node[d].type = FS_DIRECTORY
  BY <1>3 DEF IsDirectory
<1>5. id \in NodeId \ s.allocated /\ s.allocated \subseteq NodeId
  BY <1>1, StateFields DEF FreeNodes
<1>6. d \in NodeId \ {id} /\ id \in NodeId
  BY <1>4, <1>5
<1>7. t \in FsState /\ Added(s, t, d, id, name, type)
  BY <1>1, <1>6, AddEffect
<1>8. name \notin {".", ".."}
  OBVIOUS
<1> HIDE DEF d, name
<1>9. Tree(t)
  BY <1>1, <1>4, <1>5, <1>7, <1>8, AddedTree
<1>10. \A n \in s.allocated : FirstOfName(s, n) => FirstOfName(t, n)
  BY <1>1, <1>4, <1>5, <1>7, AddedFirst
<1>11. SameTables(s, t) /\ t.allocated = s.allocated \cup {id} /\ t.node[id].data = << >>
  BY <1>7 DEF Added
<1>12. \A n \in s.allocated :
           /\ t.node[n].data = s.node[n].data /\ t.node[n].name = s.node[n].name
           /\ t.node[n].parent = s.node[n].parent /\ t.node[n].type = s.node[n].type
  BY <1>5, <1>7 DEF Added
<1>13. HiddenAreEmpty(t)
  BY <1>1, <1>10, <1>11, <1>12 DEF HiddenAreEmpty
<1>14. DirectoriesStay(s, t)
  BY <1>10, <1>11, <1>12 DEF DirectoriesStay
<1>15. KeepsDirectories(s, t)
  BY <1>1, <1>7, <1>9, <1>14, DirectoriesFound
<1>16. Good(t)
  BY <1>7, <1>9, <1>11, <1>13, SameTablesGood DEF Good
<1>17. StepOK(s, t)
  <2>1. \A n \in s.allocated : Len(s.node[n].data) <= Len(t.node[n].data)
    BY <1>1, <1>12, SameLength
  <2>2. QED
    BY <1>10, <1>11, <1>12, <1>16, <2>1, SameTablesGood DEF StepOK
<1>18. QED
  BY <1>11, <1>12, <1>15, <1>17

\* fs_remove and fs_rmdir.
LEMMA RemoveStep ==
  ASSUME NEW s, Good(s), NEW path \in Seq(Text), path # << >>,
         NEW n, n = fs_find_by_path(s, path), n # NULL, s.node[n].children = << >>,
         NEW t, t = Unlink(s, n)
  PROVE  /\ StepOK(s, t) /\ SameTables(s, t) /\ t.allocated = s.allocated \ {n}
         /\ s.node[n].type = FS_FILE => KeepsDirectories(s, t)
         /\ \A m \in t.allocated : t.node[m].data = s.node[m].data /\ t.node[m].name = s.node[m].name
                                   /\ t.node[m].parent = s.node[m].parent
<1>1. s \in FsState /\ Tree(s) /\ HiddenAreEmpty(s)
  BY DEF Good
<1> DEFINE d == fs_find_by_path(s, ParentPath(path))
<1>2. n \in s.allocated \cup {NULL}
  BY <1>1, FindInTree
<1>3. d \in s.allocated /\ n # Root /\ s.node[n].parent = d
  BY <1>1, FindInTree
<1> HIDE DEF d
<1>4. n \in s.allocated /\ d # NULL
  BY <1>1, <1>2, <1>3, Slots, StateFields
<1>5. t \in FsState /\ d # n /\ Removed(s, t, d, n)
  BY <1>1, <1>3, <1>4, RemoveEffect
<1>6. Tree(t)
  BY <1>1, <1>3, <1>4, <1>5, RemovedTree
<1>7. \A m \in s.allocated : m # n /\ FirstOfName(s, m) => FirstOfName(t, m)
  BY <1>1, <1>3, <1>4, <1>5, RemovedFirst
<1>8. SameTables(s, t) /\ t.allocated = s.allocated \ {n} /\ s.allocated \subseteq NodeId
  BY <1>1, <1>5, StateFields DEF Removed
<1>9. \A m \in t.allocated :
           /\ t.node[m].data = s.node[m].data /\ t.node[m].name = s.node[m].name
           /\ t.node[m].parent = s.node[m].parent /\ t.node[m].type = s.node[m].type
  BY <1>5, <1>8 DEF Removed
<1>10. HiddenAreEmpty(t)
  BY <1>1, <1>7, <1>8, <1>9 DEF HiddenAreEmpty
<1>11. ASSUME s.node[n].type = FS_FILE PROVE KeepsDirectories(s, t)
  <2>1. \A c \in s.allocated : s.node[c].type = FS_DIRECTORY => c # n
    BY <1>11 DEF FS_FILE, FS_DIRECTORY
  <2>2. DirectoriesStay(s, t)
    BY <1>7, <1>8, <1>9, <2>1 DEF DirectoriesStay
  <2>3. QED
    BY <1>1, <1>5, <1>6, <2>2, DirectoriesFound
<1>12. Good(t)
  BY <1>5, <1>6, <1>8, <1>10, SameTablesGood DEF Good
<1>13. StepOK(s, t)
  <2>1. \A m \in t.allocated : m \in s.allocated
    BY <1>8
  <2>2. \A m \in t.allocated : Len(s.node[m].data) <= Len(t.node[m].data)
    BY <1>1, <1>9, <2>1, SameLength
  <2>3. QED
    BY <1>7, <1>8, <1>9, <1>12, <2>2, SameTablesGood DEF StepOK
<1>14. QED
  BY <1>8, <1>9, <1>11, <1>13
\* Nothing of the tree changes but what files hold.
SameShape(s, t) ==
    /\ t.allocated = s.allocated
    /\ \A n \in NodeId :
           /\ t.node[n].name = s.node[n].name /\ t.node[n].type = s.node[n].type
           /\ t.node[n].parent = s.node[n].parent /\ t.node[n].children = s.node[n].children

LEMMA SameShapeTree ==
  ASSUME NEW s \in FsState, Tree(s), NEW t, SameShape(s, t)
  PROVE  /\ Tree(t) /\ KeepsLookups(s, t)
         /\ \A n \in s.allocated : FirstOfName(s, n) => FirstOfName(t, n)
<1>1. /\ t.allocated = s.allocated /\ s.allocated \subseteq NodeId
      /\ \A n \in NodeId : /\ t.node[n].name = s.node[n].name /\ t.node[n].type = s.node[n].type
                           /\ t.node[n].parent = s.node[n].parent
                           /\ t.node[n].children = s.node[n].children
  BY StateFields DEF SameShape
<1>2. ASSUME NEW n \in s.allocated PROVE LinkedDown(t, n)
  <2>1. LinkedDown(s, n)
    BY TreeLinks
  <2>2. QED
    BY <1>1, <2>1 DEF LinkedDown
<1>3. ASSUME NEW n \in s.allocated PROVE LinkedUp(t, n)
  <2>1. LinkedUp(s, n)
    BY TreeLinks
  <2>2. QED
    BY <1>1, <2>1 DEF LinkedUp
<1>4. Tree(t)
  <2>1. Root \in t.allocated /\ t.node[Root].type = FS_DIRECTORY /\ t.node[Root].parent = NULL
    BY <1>1 DEF Tree
  <2>2. \A n \in t.allocated : /\ t.node[n].type = FS_FILE => t.node[n].children = << >>
                               /\ t.node[n].name \notin {".", ".."}
    BY <1>1 DEF Tree
  <2>3. \A n \in NodeId : Len(t.node[n].children) <= MAX_CHILDREN
    BY <1>1 DEF Tree
  <2>4. QED
    BY <1>1, <1>2, <1>3, <2>1, <2>2, <2>3 DEF Tree
<1>5. KeepsLookups(s, t)
  <2> SUFFICES ASSUME NEW d \in s.allocated \cup {NULL}, NEW name
               PROVE  fs_find_child(t, d, name) = fs_find_child(s, d, name)
    BY DEF KeepsLookups
  <2>1. CASE d = NULL
    BY <2>1 DEF fs_find_child
  <2>2. CASE d # NULL
    <3> DEFINE z == s.node[d].children
               named == {i \in DOMAIN z : s.node[z[i]].name = name}
               found == {i \in DOMAIN z : t.node[z[i]].name = name}
    <3>1. d \in NodeId /\ d \in s.allocated /\ t.node[d].children = z /\ t.node[d].type = s.node[d].type
      BY <1>1, <2>2
    <3>2. \A i \in DOMAIN z : z[i] \in NodeId
      BY <1>1, <3>1, TreeLinks
    <3>3. named = found
      BY <1>1, <3>2
    <3>4. fs_find_child(s, d, name) = IF s.node[d].type # FS_DIRECTORY THEN NULL
                                      ELSE IF named = {} THEN NULL ELSE z[FirstOf(named)]
      BY <2>2 DEF fs_find_child
    <3>5. fs_find_child(t, d, name) = IF t.node[d].type # FS_DIRECTORY THEN NULL
                                      ELSE IF found = {} THEN NULL ELSE z[FirstOf(found)]
      BY <2>2, <3>1 DEF fs_find_child
    <3> HIDE DEF z, named, found
    <3>6. QED
      BY <3>1, <3>3, <3>4, <3>5
  <2>3. QED
    BY <2>1, <2>2
<1>6. ASSUME NEW n \in s.allocated, FirstOfName(s, n) PROVE FirstOfName(t, n)
  <2> DEFINE d == s.node[n].parent
             z == s.node[d].children
  <2>1. d # NULL /\ \A i, j \in DOMAIN z : z[j] = n /\ s.node[z[i]].name = s.node[n].name => j <= i
    BY <1>6 DEF FirstOfName
  <2>2. d \in s.allocated
    <3>1. LinkedUp(s, n)
      BY TreeLinks
    <3>2. QED
      BY <2>1, <3>1 DEF LinkedUp
  <2>3. \A i \in DOMAIN z : z[i] \in NodeId
    BY <1>1, <2>2, TreeLinks
  <2>4. t.node[n].parent = d /\ t.node[d].children = z /\ t.node[n].name = s.node[n].name
    BY <1>1, <2>2
  <2>5. \A i, j \in DOMAIN z : z[j] = n /\ t.node[z[i]].name = t.node[n].name => j <= i
    <3> HIDE DEF z, d
    <3>1. QED
      BY <1>1, <2>1, <2>3, <2>4
  <2>6. QED
    BY <2>1, <2>4, <2>5 DEF FirstOfName
<1>7. QED
  BY <1>4, <1>5, <1>6

\* Only the tables change.
LEMMA SameNodes ==
  ASSUME NEW s, Good(s), NEW t \in FsState, t.node = s.node, t.allocated = s.allocated,
         MountsOK(t), HandlesOK(t), \A i \in DOMAIN t.cwd : t.cwd[i] \notin {".", ".."},
         \A i \in Slot : t.mounts[i].ops = "ramfs" => s.mounts[i].ops = "ramfs"
  PROVE  StepOK(s, t) /\ KeepsLookups(s, t)
<1>1. s \in FsState /\ Tree(s) /\ HiddenAreEmpty(s)
  BY DEF Good
<1>2. SameShape(s, t)
  BY DEF SameShape
<1>3. /\ Tree(t) /\ KeepsLookups(s, t)
      /\ \A n \in s.allocated : FirstOfName(s, n) => FirstOfName(t, n)
  BY <1>1, <1>2, SameShapeTree
<1>4. HiddenAreEmpty(t)
  BY <1>1, <1>3 DEF HiddenAreEmpty
<1>5. Good(t)
  BY <1>3, <1>4 DEF Good
<1>6. \A n \in s.allocated : Len(s.node[n].data) <= Len(t.node[n].data)
  BY <1>1, SameLength
<1>7. QED
  BY <1>3, <1>5, <1>6 DEF StepOK

\* Nothing changes at all.
LEMMA NoStep ==
  ASSUME NEW s, Good(s)
  PROVE  StepOK(s, s) /\ KeepsLookups(s, s)
BY SameNodes DEF Good

LEMMA WrittenOK ==
  ASSUME NEW data \in Seq(Text), NEW position \in Nat, position <= Len(data), NEW text \in Seq(Text)
  PROVE  LET w == Written(data, position, text)
         IN  w \in Seq(Text) /\ Len(data) <= Len(w) /\ position + Len(text) <= Len(w)
<1> DEFINE a == SubSeq(data, 1, position)
           k == position + Len(text) + 1
           b == SubSeq(data, k, Len(data))
           n == Len(data)
<1>1. n \in Nat /\ Len(text) \in Nat /\ k \in Nat \ {0}
  OBVIOUS
<1>2. a \in Seq(Text) /\ Len(a) = position
  <2>1. 1 \in 1 .. n + 1 /\ position \in 1 - 1 .. n
    BY <1>1
  <2>2. a \in Seq(Text) /\ Len(a) = position - 1 + 1
    BY <2>1, SubSeqElements
  <2>3. QED
    BY <2>2
<1> HIDE DEF k, a
<1>3. b \in Seq(Text) /\ Len(b) = IF k <= n THEN n - k + 1 ELSE 0
  <2>1. CASE k <= n
    <3>1. k \in 1 .. n + 1 /\ n \in k - 1 .. n
      BY <1>1, <2>1
    <3>2. b \in Seq(Text) /\ Len(b) = n - k + 1
      BY <3>1, SubSeqElements
    <3>3. QED
      BY <2>1, <3>2
  <2>2. CASE k > n
    <3>1. b = << >>
      BY <1>1, <2>2
    <3>2. << >> \in Seq(Text) /\ Len(<< >>) = 0
      OBVIOUS
    <3>3. QED
      BY <1>1, <2>2, <3>1, <3>2
  <2>3. QED
    BY <1>1, <2>1, <2>2
<1> HIDE DEF b, n
<1>4. a \o text \in Seq(Text) /\ Len(a \o text) = position + Len(text)
  BY <1>2, ConcatElements
<1> DEFINE c == a \o text
           w == c \o b
<1> HIDE DEF c
<1>5. w \in Seq(Text) /\ Len(w) = Len(c) + Len(b)
  BY <1>3, <1>4, ConcatElements DEF c
<1>6. Written(data, position, text) = w
  BY DEF Written, a, b, c, k
<1> HIDE DEF w
<1>7. Len(w) \in Nat /\ n <= Len(w) /\ position + Len(text) <= Len(w)
  <2> DEFINE l == Len(text)
             m == Len(b)
  <2>1. Len(w) = position + l + m /\ l \in Nat /\ m \in Nat
    BY <1>1, <1>3, <1>4, <1>5 DEF c
  <2>2. k = position + l + 1
    BY DEF k
  <2>3. m = IF k <= n THEN n - k + 1 ELSE 0
    BY <1>3
  <2> HIDE DEF l, m
  <2>4. n <= position + l + m
    BY <1>1, <2>1, <2>2, <2>3
  <2>5. QED
    BY <2>1, <2>4 DEF l
<1>8. QED
  BY <1>5, <1>6, <1>7 DEF n

LEMMA WrittenToEmpty ==
  ASSUME NEW text \in Seq(Text)
  PROVE  Written(<< >>, 0, text) = text
<1>1. SubSeq(<< >>, 1, 0) = << >>
  OBVIOUS
<1>2. SubSeq(<< >>, 0 + Len(text) + 1, Len(<< >>)) = << >>
  OBVIOUS
<1>3. << >> \o text \o << >> = text
  OBVIOUS
<1>4. QED
  BY <1>1, <1>2, <1>3 DEF Written

\* A file that lookups find is written.
WriteTo(s, n, z) == [s EXCEPT !.node[n].data = z]

LEMMA WriteStep ==
  ASSUME NEW s, Good(s), NEW n \in s.allocated, FirstOfName(s, n),
         NEW z \in Seq(Text), Len(s.node[n].data) <= Len(z),
         NEW t, t = WriteTo(s, n, z)
  PROVE  /\ StepOK(s, t) /\ KeepsLookups(s, t) /\ SameTables(s, t)
         /\ t.allocated = s.allocated /\ t.node[n].data = z
<1>1. s \in FsState /\ Tree(s) /\ HiddenAreEmpty(s)
  BY DEF Good
<1>2. n \in NodeId /\ s.node[n] \in FSNode /\ s.node \in [NodeId -> FSNode] /\ s.allocated \in SUBSET NodeId
  BY <1>1, TreeLinks, NodeFields, StateFields
<1> DEFINE x == WithData(s.node[n], z)
           f == [s.node EXCEPT ![n] = x]
<1>3. t = WithNodes(s, s.allocated, f)
  BY <1>1, <1>2 DEF WriteTo, WithNodes, WithData, FsState
<1>4. /\ x \in FSNode /\ x.data = z /\ x.name = s.node[n].name /\ x.type = s.node[n].type
      /\ x.children = s.node[n].children /\ x.parent = s.node[n].parent
  BY <1>2, NodeWithData
<1> HIDE DEF x
<1>5. f \in [NodeId -> FSNode] /\ f[n] = x /\ \A m \in NodeId \ {n} : f[m] = s.node[m]
  BY <1>2, <1>4
<1> HIDE DEF f
<1>6. t \in FsState /\ SameTables(s, t) /\ t.allocated = s.allocated /\ t.node = f
  BY <1>1, <1>2, <1>3, <1>5, StateWithNodes
<1>7. SameShape(s, t)
  <2> SUFFICES ASSUME NEW m \in NodeId
               PROVE  /\ f[m].name = s.node[m].name /\ f[m].type = s.node[m].type
                      /\ f[m].parent = s.node[m].parent /\ f[m].children = s.node[m].children
    BY <1>6 DEF SameShape
  <2>1. CASE m = n
    BY <1>4, <1>5, <2>1
  <2>2. CASE m # n
    BY <1>5, <2>2
  <2>3. QED
    BY <2>1, <2>2
<1>8. /\ Tree(t) /\ KeepsLookups(s, t)
      /\ \A m \in s.allocated : FirstOfName(s, m) => FirstOfName(t, m)
  BY <1>1, <1>7, SameShapeTree
<1>9. \A m \in s.allocated : m # n => t.node[m].data = s.node[m].data
  BY <1>2, <1>5, <1>6
<1>10. HiddenAreEmpty(t)
  BY <1>1, <1>6, <1>8, <1>9 DEF HiddenAreEmpty
<1>11. Good(t)
  BY <1>6, <1>8, <1>10, SameTablesGood DEF Good
<1>12. \A m \in s.allocated : Len(s.node[m].data) <= Len(t.node[m].data)
  BY <1>1, <1>4, <1>5, <1>6, <1>9, SameLength
<1>13. \A m \in s.allocated : t.node[m].type = s.node[m].type
  BY <1>2, <1>7 DEF SameShape
<1>14. StepOK(s, t)
  BY <1>6, <1>8, <1>11, <1>12, <1>13, SameTablesGood DEF StepOK
<1>15. QED
  BY <1>4, <1>5, <1>6, <1>8, <1>14
-----------------------------------------------------------------------------
(* What mounting, opening and closing change                               *)

Disk(mounted, fds) == [mounted |-> mounted, fds |-> fds]
WithTables(s, mounts, open_files, fat) ==
    [s EXCEPT !.mounts = mounts, !.open_files = open_files, !.fat = fat]

\* The kernel after a step that changed these tables only.
TablesAre(s, t, mounts, open_files, fat) ==
    /\ t \in FsState /\ t.node = s.node /\ t.allocated = s.allocated /\ t.cwd = s.cwd
    /\ t.mounts = mounts /\ t.open_files = open_files /\ t.fat = fat

LEMMA StateWithTables ==
  ASSUME NEW s \in FsState, NEW mounts \in [Slot -> Mount], NEW open_files \in [Handle -> OpenEntry],
         NEW fat \in [mounted : BOOLEAN, fds : SUBSET Fd]
  PROVE  TablesAre(s, WithTables(s, mounts, open_files, fat), mounts, open_files, fat)
BY DEF FsState, TablesAre, WithTables

LEMMA DiskIs ==
  ASSUME NEW mounted \in BOOLEAN, NEW fds \in SUBSET Fd
  PROVE  Disk(mounted, fds) \in [mounted : BOOLEAN, fds : SUBSET Fd]
         /\ Disk(mounted, fds).mounted = mounted /\ Disk(mounted, fds).fds = fds
BY DEF Disk

LEMMA MountFields ==
  ASSUME NEW s \in FsState, NEW i \in Slot
  PROVE  /\ s.mounts[i] \in Mount /\ s.mounts[i].mounted \in BOOLEAN
         /\ s.mounts[i].point \in {<< >>, MNT_FAT32} /\ s.mounts[i].ops \in {"ramfs", "fat32", NULL}
<1>1. s.mounts[i] \in Mount
  BY DEF FsState
<1>2. QED
  BY <1>1 DEF Mount

LEMMA EntryFields ==
  ASSUME NEW s \in FsState, NEW h \in Handle
  PROVE  /\ s.open_files[h] \in OpenEntry /\ s.open_files[h].in_use \in BOOLEAN
         /\ s.open_files[h].fs_handle \in FsHandle /\ s.open_files[h].mount \in Slot \cup {NO_MOUNT}
<1>1. s.open_files[h] \in OpenEntry
  BY DEF FsState
<1>2. QED
  BY <1>1 DEF OpenEntry

\* Handles stay right when their mounts stay.
LEMMA HandlesStay ==
  ASSUME NEW s, Good(s), NEW t, t.open_files = s.open_files, t.fat.fds = s.fat.fds,
         \A h \in Handle : s.open_files[h].in_use =>
             t.mounts[s.open_files[h].mount] = s.mounts[s.open_files[h].mount]
  PROVE  HandlesOK(t)
<1>1. \A h \in Handle : OnDisk(t, h) <=> OnDisk(s, h)
  BY DEF OnDisk
<1>2. \A h \in Handle : t.open_files[h].in_use =>
          t.open_files[h].mount \in Slot /\ t.mounts[t.open_files[h].mount].mounted
  BY DEF Good, HandlesOK
<1>3. t.fat.fds = {t.open_files[h].fs_handle : h \in {g \in Handle : OnDisk(t, g)}}
  BY <1>1 DEF Good, HandlesOK
<1>4. \A g, h \in Handle : OnDisk(t, g) /\ OnDisk(t, h)
          /\ t.open_files[g].fs_handle = t.open_files[h].fs_handle => g = h
  BY <1>1 DEF Good, HandlesOK
<1>5. QED
  BY <1>2, <1>3, <1>4 DEF HandlesOK

\* The program's names of the file systems differ.
LEMMA OpsDiffer == "fat32" # "ramfs" /\ "fat32" # NULL /\ "ramfs" # NULL
BY DEF NULL

\* fat32_vfs_mount.
LEMMA MountStep ==
  ASSUME NEW s, Good(s), NEW t \in fat32_vfs_mount(s)
  PROVE  StepOK(s, t) /\ t.open_files = s.open_files /\ t.allocated = s.allocated
<1>1. CASE t = s
  BY <1>1, NoStep
<1>2. CASE t # s
  <2> DEFINE u == [s EXCEPT !.fat.mounted = TRUE]
             fat == Disk(TRUE, s.fat.fds)
             free == {i \in Slot : ~s.mounts[i].mounted}
             j == FirstOf(free)
             entry == [mounted |-> TRUE, point |-> MNT_FAT32, ops |-> "fat32"]
             mounts == [s.mounts EXCEPT ![j] = entry]
  <2>1. ~s.fat.mounted /\ t = vfs_mount(u, MNT_FAT32, "fat32")
    BY <1>2 DEF fat32_vfs_mount
  <2>2. s \in FsState /\ MountsOK(s) /\ HandlesOK(s)
        /\ \A i \in DOMAIN s.cwd : s.cwd[i] \notin {".", ".."}
    BY DEF Good
  <2>3. s.mounts \in [Slot -> Mount] /\ s.open_files \in [Handle -> OpenEntry]
        /\ s.fat.fds \in SUBSET Fd
    BY <2>2, StateFields
  <2>4. fat \in [mounted : BOOLEAN, fds : SUBSET Fd] /\ fat.mounted = TRUE /\ fat.fds = s.fat.fds
    BY <2>3, DiskIs
  <2>5. u = [s EXCEPT !.fat = fat]
    <3>1. s.fat \in [mounted : BOOLEAN, fds : SUBSET Fd]
      BY <2>2, StateFields
    <3> DEFINE x == s.fat
               b == TRUE
    <3>2. x \in [mounted : BOOLEAN, fds : SUBSET Fd] /\ b \in BOOLEAN
      BY <3>1
    <3> HIDE DEF x, b
    <3>3. [x EXCEPT !.mounted = b] = Disk(b, x.fds)
      BY <3>2 DEF Disk
    <3>4. QED
      BY <3>3 DEF x, b
  <2>6. u.mounts = s.mounts
    BY <2>2 DEF FsState
  <2>7. \A i \in Slot : s.mounts[i].ops # "fat32"
    BY <2>1, <2>2 DEF MountsOK
  <2>8. CASE t = u
    <3> HIDE DEF fat
    <3>a. u = WithTables(s, s.mounts, s.open_files, fat)
      BY <2>2, <2>5 DEF WithTables, FsState
    <3> HIDE DEF u
    <3>1. TablesAre(s, t, s.mounts, s.open_files, fat)
      BY <2>2, <2>3, <2>4, <2>8, <3>a, StateWithTables
    <3>2. t \in FsState /\ t.node = s.node /\ t.allocated = s.allocated /\ t.cwd = s.cwd
          /\ t.mounts = s.mounts /\ t.open_files = s.open_files /\ t.fat = fat
      BY <3>1 DEF TablesAre
    <3>3. MountsOK(t)
      BY <2>2, <2>7, <3>2 DEF MountsOK
    <3>4. HandlesOK(t)
      BY <2>4, <3>2, HandlesStay
    <3>5. StepOK(s, t)
      BY <2>2, <3>2, <3>3, <3>4, SameNodes
    <3>6. QED
      BY <3>2, <3>5
  <2>9. CASE t # u
    <3>1. free # {} /\ t = [u EXCEPT !.mounts[j] = entry]
      BY <2>1, <2>6, <2>9 DEF vfs_mount
    <3>2. j \in Slot /\ ~s.mounts[j].mounted
      <4>1. free \in SUBSET Nat
        BY Slots
      <4>2. j \in free
        BY <3>1, <4>1, FirstOfLeast
      <4>3. QED
        BY <4>2
    <3>3. t = WithTables(s, mounts, s.open_files, fat)
      <4> HIDE DEF fat, u, entry, j
      <4>1. t = [u EXCEPT !.mounts = mounts]
        BY <2>6, <3>1
      <4> HIDE DEF mounts
      <4>2. QED
        BY <2>2, <2>5, <4>1 DEF WithTables, FsState
    <3>4. entry \in Mount
      BY DEF Mount
    <3> HIDE DEF u, fat, j
    <3>5. mounts \in [Slot -> Mount] /\ mounts[j] = entry /\ \A i \in Slot \ {j} : mounts[i] = s.mounts[i]
      BY <2>3, <3>2, <3>4
    <3> HIDE DEF mounts
    <3>6. TablesAre(s, t, mounts, s.open_files, fat)
      BY <2>2, <2>3, <2>4, <3>3, <3>5, StateWithTables
    <3>7. t \in FsState /\ t.node = s.node /\ t.allocated = s.allocated /\ t.cwd = s.cwd
          /\ t.mounts = mounts /\ t.open_files = s.open_files /\ t.fat = fat
      BY <3>6 DEF TablesAre
    <3>8. t.mounts[j].mounted /\ t.mounts[j].ops = "fat32" /\ t.mounts[j].point = MNT_FAT32 /\ t.fat.mounted
      BY <2>4, <3>5, <3>7
    <3>9. \A i \in Slot : i # j => t.mounts[i] = s.mounts[i]
      BY <3>5, <3>7
    <3>10. \A i \in Slot : (t.mounts[i].ops = "ramfs" => s.mounts[i].ops = "ramfs")
                           /\ (t.mounts[i].ops = "fat32" => i = j)
      BY <2>7, <3>8, <3>9, OpsDiffer
    <3>11. \A i \in Slot : t.mounts[i].mounted <=> t.mounts[i].ops # NULL
      BY <2>2, <3>8, <3>9, OpsDiffer DEF MountsOK
    <3>12. \A i \in Slot : t.mounts[i].ops = "ramfs" => i = 1 /\ t.mounts[i].point = << >>
      BY <2>2, <3>8, <3>9, OpsDiffer DEF MountsOK
    <3>13. MountsOK(t)
      BY <3>8, <3>10, <3>11, <3>12 DEF MountsOK
    <3>14. \A h \in Handle : s.open_files[h].in_use =>
               t.mounts[s.open_files[h].mount] = s.mounts[s.open_files[h].mount]
      BY <2>2, <3>2, <3>9 DEF HandlesOK
    <3>15. HandlesOK(t)
      BY <2>4, <3>7, <3>14, HandlesStay
    <3>16. StepOK(s, t)
      BY <2>2, <3>7, <3>10, <3>13, <3>15, SameNodes
    <3>17. QED
      BY <3>7, <3>16
  <2>10. QED
    BY <2>8, <2>9
<1>3. QED
  BY <1>1, <1>2

\* vfs_unmount.
LEMMA UnmountStep ==
  ASSUME NEW s, Good(s), NEW point, NEW t, t = vfs_unmount(s, point)
  PROVE  /\ StepOK(s, t) /\ t.allocated = s.allocated
         /\ \A h \in Handle : t.open_files[h] = s.open_files[h] \/ t.open_files[h] = ClosedEntry
         /\ \A g, h \in Handle : s.open_files[g] = s.open_files[h] => t.open_files[g] = t.open_files[h]
<1> DEFINE slots == {i \in Slot : s.mounts[i].mounted /\ s.mounts[i].point = point}
           i == FirstOf(slots)
<1>1. CASE slots = {}
  <2>1. t = s
    BY <1>1 DEF vfs_unmount
  <2>2. QED
    BY <2>1, NoStep
<1>2. CASE slots # {}
  <2>1. i \in Slot /\ s.mounts[i].mounted
    <3>1. slots \in SUBSET Nat
      BY Slots
    <3>2. i \in slots
      BY <1>2, <3>1, FirstOfLeast
    <3>3. QED
      BY <3>2
  <2> DEFINE ours == {h \in Handle : s.open_files[h].in_use /\ s.open_files[h].mount = i}
             files == [h \in Handle |-> IF h \in ours THEN ClosedEntry ELSE s.open_files[h]]
             disk == s.mounts[i].ops = "fat32"
             fds == IF disk THEN s.fat.fds \ {s.open_files[h].fs_handle : h \in ours} ELSE s.fat.fds
             fat == Disk(IF disk THEN FALSE ELSE s.fat.mounted, fds)
             entry == [mounted |-> FALSE, point |-> s.mounts[i].point, ops |-> NULL]
             mounts == [s.mounts EXCEPT ![i] = entry]
  <2>2. s \in FsState /\ MountsOK(s) /\ HandlesOK(s)
        /\ \A k \in DOMAIN s.cwd : s.cwd[k] \notin {".", ".."}
    BY DEF Good
  <2>3. s.mounts \in [Slot -> Mount] /\ s.open_files \in [Handle -> OpenEntry]
        /\ s.fat.fds \in SUBSET Fd /\ s.fat \in [mounted : BOOLEAN, fds : SUBSET Fd]
    BY <2>2, StateFields
  <2>4. t = [CloseAllOf(s, i) EXCEPT !.mounts[i].mounted = FALSE, !.mounts[i].ops = NULL,
                                     !.fat.mounted = IF disk THEN FALSE ELSE @]
    BY <1>2 DEF vfs_unmount
  <2>5. CloseAllOf(s, i) = [s EXCEPT !.open_files = files, !.fat.fds = fds]
    BY DEF CloseAllOf
  <2> HIDE DEF files, fds, i
  <2>6. t = WithTables(s, mounts, files, fat)
    <3> DEFINE c == CloseAllOf(s, i)
               x == s.fat
               y == Disk(x.mounted, fds)
               b == IF disk THEN FALSE ELSE s.fat.mounted
               e == s.mounts[i]
               m == [s.mounts EXCEPT ![i] = [e EXCEPT !.mounted = FALSE]]
    <3>1. x \in [mounted : BOOLEAN, fds : SUBSET Fd] /\ e \in Mount /\ x.mounted \in BOOLEAN
          /\ fds \in SUBSET Fd /\ b \in BOOLEAN
      BY <2>1, <2>3 DEF fds
    <3>2. c = [s EXCEPT !.open_files = files, !.fat = [x EXCEPT !.fds = fds]]
      BY <2>2, <2>5 DEF FsState
    <3> HIDE DEF x, b, e
    <3>3. [x EXCEPT !.fds = fds] = y
      BY <3>1 DEF Disk
    <3>4. [y EXCEPT !.mounted = b] = Disk(b, fds)
      BY <3>1 DEF Disk
    <3>5. [[e EXCEPT !.mounted = FALSE] EXCEPT !.ops = NULL] = [mounted |-> FALSE, point |-> e.point, ops |-> NULL]
      <4> DEFINE P == {<< >>, MNT_FAT32}
                 O == {"ramfs", "fat32", NULL}
                 B == BOOLEAN
                 null == NULL
                 no == FALSE
      <4>1. e \in [mounted : B, point : P, ops : O] /\ null \in O /\ no \in B
        BY <3>1 DEF Mount
      <4> HIDE DEF P, O, B, null, no
      <4>2. [e EXCEPT !.mounted = no] = [mounted |-> no, point |-> e.point, ops |-> e.ops]
        BY <4>1
      <4>3. [[mounted |-> no, point |-> e.point, ops |-> e.ops] EXCEPT !.ops = null]
                = [mounted |-> no, point |-> e.point, ops |-> null]
        OBVIOUS
      <4>4. QED
        BY <4>2, <4>3 DEF null, no
    <3>6. c = [s EXCEPT !.open_files = files, !.fat = y]
      BY <3>2, <3>3
    <3> HIDE DEF y, c
    <3>7. c.mounts = s.mounts /\ c.fat = y
      BY <2>2, <3>6 DEF FsState
    <3>8. y.mounted = s.fat.mounted
      BY DEF y, x, Disk
    <3>9. t = [[c EXCEPT !.mounts[i].mounted = FALSE, !.mounts[i].ops = NULL] EXCEPT !.fat = [y EXCEPT !.mounted = b]]
      BY <2>2, <2>4, <3>6, <3>7, <3>8 DEF FsState, c, b
    <3>10. [m EXCEPT ![i] = [m[i] EXCEPT !.ops = NULL]] = mounts
      <4>1. m[i] = [e EXCEPT !.mounted = FALSE]
        BY <2>1, <2>3
      <4>2. [m[i] EXCEPT !.ops = NULL] = entry
        BY <3>5, <4>1 DEF e
      <4>3. QED
        BY <2>1, <2>3, <4>2
    <3>11. t = [[c EXCEPT !.mounts = mounts] EXCEPT !.fat = fat]
      <4> DEFINE d == [c EXCEPT !.mounts = m]
                 z == [y EXCEPT !.mounted = b]
      <4>1. [c.mounts EXCEPT ![i] = [c.mounts[i] EXCEPT !.mounted = FALSE]] = m
        BY <3>7 DEF e
      <4>2. t = [[d EXCEPT !.mounts = [d.mounts EXCEPT ![i] = [d.mounts[i] EXCEPT !.ops = NULL]]] EXCEPT !.fat = z]
        BY <3>9, <4>1
      <4> HIDE DEF z, m
      <4>3. d.mounts = m
        BY <2>2, <3>6 DEF FsState
      <4>4. t = [[d EXCEPT !.mounts = mounts] EXCEPT !.fat = z]
        BY <3>10, <4>2, <4>3
      <4> HIDE DEF mounts
      <4>5. [d EXCEPT !.mounts = mounts] = [c EXCEPT !.mounts = mounts]
        BY <2>2, <3>6 DEF FsState
      <4>6. z = fat
        BY <3>4 DEF z, b
      <4>7. QED
        BY <4>4, <4>5, <4>6
    <3> HIDE DEF mounts, fat
    <3>12. QED
      BY <2>2, <3>6, <3>11 DEF WithTables, FsState
  <2>7. ClosedEntry \in OpenEntry
    BY DEF ClosedEntry, OpenEntry, FsHandle
  <2>8. files \in [Handle -> OpenEntry]
        /\ \A h \in Handle : files[h] = IF h \in ours THEN ClosedEntry ELSE s.open_files[h]
    BY <2>3, <2>7 DEF files
  <2>9. fds \in SUBSET Fd
    BY <2>3 DEF fds
  <2>10. /\ fat \in [mounted : BOOLEAN, fds : SUBSET Fd] /\ fat.fds = fds
         /\ fat.mounted = IF disk THEN FALSE ELSE s.fat.mounted
    <3> DEFINE b == IF disk THEN FALSE ELSE s.fat.mounted
    <3>1. b \in BOOLEAN
      BY <2>3
    <3> HIDE DEF b
    <3>2. Disk(b, fds) \in [mounted : BOOLEAN, fds : SUBSET Fd]
          /\ Disk(b, fds).mounted = b /\ Disk(b, fds).fds = fds
      BY <2>9, <3>1, DiskIs
    <3>3. QED
      BY <3>2 DEF b
  <2>11. entry \in Mount /\ entry.ops = NULL
    <3>1. s.mounts[i] \in Mount /\ s.mounts[i].point \in {<< >>, MNT_FAT32}
      BY <2>1, <2>2, MountFields
    <3> DEFINE q == s.mounts[i].point
    <3> HIDE DEF q
    <3>2. [mounted |-> FALSE, point |-> q, ops |-> NULL] \in Mount
      BY <3>1 DEF Mount, q
    <3>3. QED
      BY <3>2 DEF q
  <2>12. ~entry.mounted
    OBVIOUS
  <2> HIDE DEF entry, fat
  <2>13. mounts \in [Slot -> Mount] /\ mounts[i] = entry /\ \A k \in Slot \ {i} : mounts[k] = s.mounts[k]
    BY <2>1, <2>3, <2>11
  <2> HIDE DEF mounts
  <2>14. TablesAre(s, t, mounts, files, fat)
    BY <2>2, <2>6, <2>8, <2>10, <2>13, StateWithTables
  <2>15. t \in FsState /\ t.node = s.node /\ t.allocated = s.allocated /\ t.cwd = s.cwd
         /\ t.mounts = mounts /\ t.open_files = files /\ t.fat = fat
    BY <2>14 DEF TablesAre
  <2>16. \A k \in Slot : k # i => t.mounts[k] = s.mounts[k]
    BY <2>13, <2>15
  <2>17. ~t.mounts[i].mounted /\ t.mounts[i].ops = NULL
    BY <2>11, <2>12, <2>13, <2>15
  <2>18. \A k \in Slot : t.mounts[k].ops # NULL => k # i
    BY <2>17
  <2>19. MountsOK(t)
    <3>1. \A k \in Slot : t.mounts[k].mounted <=> t.mounts[k].ops # NULL
      BY <2>2, <2>16, <2>17 DEF MountsOK
    <3>2. \A k \in Slot : t.mounts[k].ops = "ramfs" => k = 1 /\ t.mounts[k].point = << >>
      BY <2>2, <2>16, <2>18, OpsDiffer DEF MountsOK
    <3>3. ASSUME NEW k \in Slot, t.mounts[k].ops = "fat32"
          PROVE  /\ t.mounts[k].point = MNT_FAT32 /\ t.fat.mounted
                 /\ \A j \in Slot : t.mounts[j].ops = "fat32" => j = k
      <4>1. k # i /\ t.mounts[k] = s.mounts[k]
        BY <2>16, <2>18, <3>3, OpsDiffer
      <4>2. /\ s.mounts[k].point = MNT_FAT32 /\ s.fat.mounted
            /\ \A j \in Slot : s.mounts[j].ops = "fat32" => j = k
        BY <2>2, <3>3, <4>1 DEF MountsOK
      <4>3. ~disk
        BY <2>1, <4>1, <4>2
      <4>4. t.fat.mounted
        BY <2>10, <2>15, <4>2, <4>3
      <4>5. \A j \in Slot : t.mounts[j].ops = "fat32" => j = k
        BY <2>16, <2>18, <4>2, OpsDiffer
      <4>6. QED
        BY <4>1, <4>2, <4>4, <4>5
    <3>4. QED
      BY <3>1, <3>2, <3>3 DEF MountsOK
  <2>20. \A h \in Handle : (h \in ours => ~t.open_files[h].in_use)
                            /\ (h \notin ours => t.open_files[h] = s.open_files[h])
    BY <2>8, <2>15 DEF ClosedEntry
  <2>21. ASSUME NEW h \in Handle, t.open_files[h].in_use
         PROVE  /\ h \notin ours /\ t.open_files[h] = s.open_files[h] /\ s.open_files[h].in_use
                /\ s.open_files[h].mount \in Slot /\ s.open_files[h].mount # i
                /\ t.mounts[s.open_files[h].mount] = s.mounts[s.open_files[h].mount]
                /\ s.mounts[s.open_files[h].mount].mounted
    <3>1. h \notin ours /\ t.open_files[h] = s.open_files[h]
      BY <2>20, <2>21
    <3>2. s.open_files[h].in_use
      BY <2>21, <3>1
    <3>3. s.open_files[h].mount \in Slot /\ s.mounts[s.open_files[h].mount].mounted
      BY <2>2, <3>2 DEF HandlesOK
    <3>4. s.open_files[h].mount # i
      BY <3>1, <3>2
    <3>5. QED
      BY <2>16, <3>1, <3>2, <3>3, <3>4
  <2>22. \A h \in Handle : OnDisk(t, h) <=> OnDisk(s, h) /\ h \notin ours
    <3>1. \A h \in Handle : OnDisk(t, h) => OnDisk(s, h) /\ h \notin ours
      BY <2>21 DEF OnDisk
    <3>2. ASSUME NEW h \in Handle, OnDisk(s, h), h \notin ours PROVE OnDisk(t, h)
      <4>1. t.open_files[h] = s.open_files[h] /\ s.open_files[h].in_use
            /\ s.mounts[s.open_files[h].mount].ops = "fat32"
        BY <2>20, <3>2 DEF OnDisk
      <4>2. t.open_files[h].in_use
        BY <4>1
      <4>3. QED
        BY <2>21, <4>1, <4>2 DEF OnDisk
    <3>3. QED
      BY <3>1, <3>2
  <2>23. disk => \A h \in Handle : OnDisk(s, h) => h \in ours
    <3>1. \A h \in Handle : OnDisk(s, h) => s.open_files[h].in_use /\ s.open_files[h].mount \in Slot
      BY <2>2 DEF OnDisk, HandlesOK
    <3>2. QED
      BY <2>1, <2>2, <3>1 DEF OnDisk, MountsOK
  <2>24. ~disk => \A h \in Handle : OnDisk(s, h) => h \notin ours
    BY DEF OnDisk
  <2> DEFINE S(u) == {u.open_files[h].fs_handle : h \in {g \in Handle : OnDisk(u, g)}}
  <2>25. s.fat.fds = S(s) /\ t.fat.fds = fds
    BY <2>2, <2>10, <2>15 DEF HandlesOK
  <2>26. fds = S(t)
    <3>1. CASE disk
      <4>1. S(t) = {}
        BY <2>22, <2>23, <3>1
      <4>2. \A x \in s.fat.fds : x \in {s.open_files[h].fs_handle : h \in ours}
        BY <2>23, <2>25, <3>1
      <4>3. fds = {}
        BY <3>1, <4>2 DEF fds
      <4>4. QED
        BY <4>1, <4>3
    <3>2. CASE ~disk
      <4>1. \A h \in Handle : OnDisk(t, h) <=> OnDisk(s, h)
        BY <2>22, <2>24, <3>2
      <4>2. \A h \in Handle : OnDisk(s, h) => t.open_files[h].fs_handle = s.open_files[h].fs_handle
        BY <2>20, <2>24, <3>2
      <4>3. S(t) = S(s)
        BY <4>1, <4>2
      <4>4. QED
        BY <2>25, <3>2, <4>3 DEF fds
    <3>3. QED
      BY <3>1, <3>2
  <2>27. \A g, h \in Handle : OnDisk(t, g) /\ OnDisk(t, h)
             /\ t.open_files[g].fs_handle = t.open_files[h].fs_handle => g = h
    BY <2>2, <2>20, <2>22 DEF HandlesOK
  <2>28. HandlesOK(t)
    <3>1. \A h \in Handle : t.open_files[h].in_use =>
              t.open_files[h].mount \in Slot /\ t.mounts[t.open_files[h].mount].mounted
      BY <2>21
    <3>2. QED
      BY <2>25, <2>26, <2>27, <3>1 DEF HandlesOK
  <2>29. \A k \in Slot : t.mounts[k].ops = "ramfs" => s.mounts[k].ops = "ramfs"
    BY <2>16, <2>18, OpsDiffer
  <2>30. StepOK(s, t)
    BY <2>2, <2>15, <2>19, <2>28, <2>29, SameNodes
  <2>31. \A g, h \in Handle : s.open_files[g] = s.open_files[h] => t.open_files[g] = t.open_files[h]
    BY <2>8, <2>15
  <2>32. QED
    BY <2>8, <2>15, <2>30, <2>31
<1>3. QED
  BY <1>1, <1>2
\* vfs_open: the first free handle gets the entry.
LEMMA OpenStep ==
  ASSUME NEW s, Good(s), NEW at, at.path \in Seq(Text), at.mount \in Slot,
         s.mounts[at.mount].mounted, at.ops = s.mounts[at.mount].ops,
         FreeHandles(s) # {}, NEW handle \in FsHandles(s, at), NEW t, t = vfs_open(s, at, handle)
  PROVE  /\ StepOK(s, t) /\ KeepsLookups(s, t)
         /\ t.node = s.node /\ t.allocated = s.allocated /\ t.mounts = s.mounts
         /\ handle \in FsHandle
         /\ at.ops = "ramfs" => /\ handle = fs_find_by_path(s, at.path) /\ handle \in s.allocated
                                /\ handle # NULL /\ s.node[handle].type = FS_FILE
         /\ \E g \in Handle :
                /\ ~s.open_files[g].in_use
                /\ t.open_files[g] = [in_use |-> TRUE, fs_handle |-> handle, mount |-> at.mount]
                /\ \A h \in Handle \ {g} : t.open_files[h] = s.open_files[h]
<1> DEFINE m == at.mount
           g == FirstOf(FreeHandles(s))
           entry == [in_use |-> TRUE, fs_handle |-> handle, mount |-> m]
           files == [s.open_files EXCEPT ![g] = entry]
           disk == at.ops = "fat32"
           fds == IF disk THEN s.fat.fds \cup {handle} ELSE s.fat.fds
           fat == Disk(s.fat.mounted, fds)
<1>1. s \in FsState /\ Tree(s) /\ MountsOK(s) /\ HandlesOK(s)
      /\ \A k \in DOMAIN s.cwd : s.cwd[k] \notin {".", ".."}
  BY DEF Good
<1>2. s.mounts \in [Slot -> Mount] /\ s.open_files \in [Handle -> OpenEntry]
      /\ s.fat.fds \in SUBSET Fd /\ s.fat \in [mounted : BOOLEAN, fds : SUBSET Fd]
      /\ s.allocated \subseteq NodeId
  BY <1>1, StateFields
<1>3. g \in Handle /\ ~s.open_files[g].in_use
  <2>1. FreeHandles(s) \in SUBSET Nat
    BY Slots DEF FreeHandles
  <2>2. g \in FreeHandles(s)
    BY <2>1, FirstOfLeast
  <2>3. QED
    BY <2>2 DEF FreeHandles
<1>4. at.ops \in {"ramfs", "fat32"}
  BY <1>1, MountFields DEF MountsOK
<1>5. at.ops = "ramfs" => /\ handle = fs_find_by_path(s, at.path) /\ handle \in s.allocated
                          /\ handle # NULL /\ s.node[handle].type = FS_FILE
  <2> SUFFICES ASSUME at.ops = "ramfs"
               PROVE  /\ handle = fs_find_by_path(s, at.path) /\ handle \in s.allocated
                      /\ handle # NULL /\ s.node[handle].type = FS_FILE
    OBVIOUS
  <2> DEFINE n == fs_find_by_path(s, at.path)
  <2>1. handle = n /\ IsFile(s, n)
    BY DEF FsHandles
  <2>2. n \in s.allocated \cup {NULL}
    BY <1>1, FindInTree
  <2>3. QED
    BY <2>1, <2>2 DEF IsFile
<1>6. disk => handle \in Fd /\ handle \notin s.fat.fds
  <2> SUFFICES ASSUME disk PROVE handle \in Fd /\ handle \notin s.fat.fds
    OBVIOUS
  <2>1. ~(Fd \subseteq s.fat.fds) /\ handle = FirstOf(Fd \ s.fat.fds)
    BY OpsDiffer DEF FsHandles
  <2>2. Fd \ s.fat.fds \in SUBSET Nat /\ Fd \ s.fat.fds # {}
    BY <2>1, Slots
  <2>3. QED
    BY <2>1, <2>2, FirstOfLeast
<1>7. handle \in FsHandle
  BY <1>2, <1>4, <1>5, <1>6 DEF FsHandle
<1>8. entry \in OpenEntry /\ entry.in_use /\ entry.fs_handle = handle /\ entry.mount = m
  BY <1>7 DEF OpenEntry
<1>9. fds \in SUBSET Fd
  BY <1>2, <1>6
<1>10. t = WithTables(s, s.mounts, files, fat)
  <2> DEFINE x == s.fat
             y == [x EXCEPT !.fds = fds]
  <2>1. t = [s EXCEPT !.open_files = files, !.fat = y]
    BY <1>1 DEF vfs_open, FsState
  <2>2. x \in [mounted : BOOLEAN, fds : SUBSET Fd]
    BY <1>2
  <2> HIDE DEF x, fds
  <2>3. y = Disk(x.mounted, fds)
    BY <1>9, <2>2 DEF Disk
  <2>4. y = fat
    BY <2>3 DEF x
  <2> HIDE DEF y, fat, files
  <2>5. QED
    BY <1>1, <2>1, <2>4 DEF WithTables, FsState
<1>11. fat \in [mounted : BOOLEAN, fds : SUBSET Fd] /\ fat.mounted = s.fat.mounted /\ fat.fds = fds
  <2> HIDE DEF fds
  <2>1. s.fat.mounted \in BOOLEAN
    BY <1>2
  <2>2. QED
    BY <1>9, <2>1, DiskIs
<1> HIDE DEF entry, g, fat, fds
<1>12. files \in [Handle -> OpenEntry] /\ files[g] = entry /\ \A h \in Handle \ {g} : files[h] = s.open_files[h]
  BY <1>2, <1>3, <1>8
<1> HIDE DEF files
<1>13. TablesAre(s, t, s.mounts, files, fat)
  <2>1. s \in FsState
    BY <1>1
  <2>2. s.mounts \in [Slot -> Mount]
    BY <1>2
  <2>3. files \in [Handle -> OpenEntry]
    BY <1>12
  <2>4. fat \in [mounted : BOOLEAN, fds : SUBSET Fd]
    BY <1>11
  <2>5. TablesAre(s, WithTables(s, s.mounts, files, fat), s.mounts, files, fat)
    BY <2>1, <2>2, <2>3, <2>4, StateWithTables
  <2>6. QED
    BY <1>10, <2>5
<1>14. t \in FsState /\ t.node = s.node /\ t.allocated = s.allocated /\ t.cwd = s.cwd
       /\ t.mounts = s.mounts /\ t.open_files = files /\ t.fat = fat
  BY <1>13 DEF TablesAre
<1>15. t.open_files[g] = entry /\ \A h \in Handle \ {g} : t.open_files[h] = s.open_files[h]
  BY <1>12, <1>14
<1>16. MountsOK(t)
  BY <1>1, <1>11, <1>14 DEF MountsOK
<1>17. OnDisk(t, g) <=> disk
  BY <1>8, <1>14, <1>15 DEF OnDisk
<1>18. \A h \in Handle \ {g} : OnDisk(t, h) <=> OnDisk(s, h)
  BY <1>14, <1>15 DEF OnDisk
<1>19. ~OnDisk(s, g)
  BY <1>3 DEF OnDisk
<1> DEFINE S(u) == {u.open_files[h].fs_handle : h \in {k \in Handle : OnDisk(u, k)}}
<1>20. s.fat.fds = S(s)
  BY <1>1 DEF HandlesOK
<1>21. t.fat.fds = S(t)
  <2>1. CASE disk
    <3>1. S(t) = S(s) \cup {handle}
      BY <1>3, <1>8, <1>15, <1>17, <1>18, <1>19, <2>1
    <3>2. QED
      BY <1>11, <1>14, <1>20, <2>1, <3>1 DEF fds
  <2>2. CASE ~disk
    <3>1. S(t) = S(s)
      BY <1>15, <1>17, <1>18, <1>19, <2>2
    <3>2. QED
      BY <1>11, <1>14, <1>20, <2>2, <3>1 DEF fds
  <2>3. QED
    BY <2>1, <2>2
<1>22. ASSUME NEW h \in Handle, NEW k \in Handle, OnDisk(t, h), OnDisk(t, k),
              t.open_files[h].fs_handle = t.open_files[k].fs_handle
       PROVE  h = k
  <2>1. CASE h # g /\ k # g
    BY <1>1, <1>15, <1>18, <1>22, <2>1 DEF HandlesOK
  <2>2. \A l \in Handle : l # g /\ OnDisk(t, l) => t.open_files[l].fs_handle \in s.fat.fds
    BY <1>15, <1>18, <1>20
  <2>3. OnDisk(t, g) => t.open_files[g].fs_handle \notin s.fat.fds
    BY <1>6, <1>8, <1>15, <1>17
  <2>4. QED
    BY <1>22, <2>1, <2>2, <2>3
<1>23. HandlesOK(t)
  <2>1. ASSUME NEW h \in Handle, t.open_files[h].in_use
        PROVE  t.open_files[h].mount \in Slot /\ t.mounts[t.open_files[h].mount].mounted
    <3>1. CASE h = g
      BY <1>8, <1>14, <1>15, <3>1
    <3>2. CASE h # g
      BY <1>1, <1>14, <1>15, <2>1, <3>2 DEF HandlesOK
    <3>3. QED
      BY <3>1, <3>2
  <2>2. QED
    BY <1>21, <1>22, <2>1 DEF HandlesOK
<1>24. StepOK(s, t) /\ KeepsLookups(s, t)
  BY <1>1, <1>14, <1>16, <1>23, SameNodes
<1>25. QED
  BY <1>3, <1>5, <1>7, <1>14, <1>15, <1>24 DEF entry

\* An entry of the table is that of a file.
IsEntryOf(s, h, handle, mount) ==
    s.open_files[h].in_use /\ s.open_files[h].fs_handle = handle /\ s.open_files[h].mount = mount

\* vfs_close: the first entry of the file is cleared, if there is one.
LEMMA CloseStep ==
  ASSUME NEW s, Good(s), NEW file, file.mount \in Slot, NEW t, t = vfs_close(s, file)
  PROVE  /\ StepOK(s, t) /\ KeepsLookups(s, t)
         /\ t.node = s.node /\ t.allocated = s.allocated /\ t.mounts = s.mounts
         /\ \/ /\ t.open_files = s.open_files
               /\ \A h \in Handle : ~IsEntryOf(s, h, file.fs_handle, file.mount)
            \/ \E g \in Handle :
                   /\ IsEntryOf(s, g, file.fs_handle, file.mount)
                   /\ t.open_files[g] = ClosedEntry
                   /\ \A h \in Handle \ {g} : t.open_files[h] = s.open_files[h]
<1> DEFINE m == file.mount
           x == file.fs_handle
           same == {h \in Handle : /\ s.open_files[h].in_use
                                   /\ s.open_files[h].fs_handle = x
                                   /\ s.open_files[h].mount = m}
           g == FirstOf(same)
           files == IF same = {} THEN s.open_files ELSE [s.open_files EXCEPT ![g] = ClosedEntry]
           disk == s.mounts[m].ops = "fat32"
           fds == IF disk THEN s.fat.fds \ {x} ELSE s.fat.fds
           fat == Disk(s.fat.mounted, fds)
<1>1. s \in FsState /\ Tree(s) /\ MountsOK(s) /\ HandlesOK(s)
      /\ \A k \in DOMAIN s.cwd : s.cwd[k] \notin {".", ".."}
  BY DEF Good
<1>2. s.mounts \in [Slot -> Mount] /\ s.open_files \in [Handle -> OpenEntry]
      /\ s.fat.fds \in SUBSET Fd /\ s.fat \in [mounted : BOOLEAN, fds : SUBSET Fd]
  BY <1>1, StateFields
<1>3. \A h \in Handle : h \in same <=> IsEntryOf(s, h, x, m)
  BY DEF IsEntryOf
<1>4. fds \in SUBSET Fd /\ s.fat.mounted \in BOOLEAN
  BY <1>2
<1>5. FsClose(s, file) = WithTables(s, s.mounts, s.open_files, fat)
  <2> DEFINE f == s.fat
  <2>1. f \in [mounted : BOOLEAN, fds : SUBSET Fd]
    BY <1>2
  <2>2. f = Disk(f.mounted, f.fds)
    <3> HIDE DEF f
    <3>1. QED
      BY <2>1 DEF Disk
  <2>3. CASE disk
    <3> DEFINE y == [f EXCEPT !.fds = fds]
    <3>1. FsClose(s, file) = [s EXCEPT !.fat = y]
      BY <2>3 DEF FsClose
    <3> HIDE DEF f, fds
    <3>2. y = Disk(f.mounted, fds)
      BY <1>4, <2>1 DEF Disk
    <3>3. y = fat
      BY <3>2 DEF f
    <3> HIDE DEF y, fat
    <3>4. QED
      BY <1>1, <3>1, <3>3 DEF WithTables, FsState
  <2>4. CASE ~disk
    <3>1. FsClose(s, file) = s /\ s.fat = fat
      BY <2>2, <2>4 DEF FsClose
    <3> HIDE DEF fat
    <3>2. s = WithTables(s, s.mounts, s.open_files, s.fat)
      BY <1>1 DEF WithTables, FsState
    <3>3. QED
      BY <3>1, <3>2
  <2>5. QED
    BY <2>3, <2>4
<1>6. fat \in [mounted : BOOLEAN, fds : SUBSET Fd] /\ fat.mounted = s.fat.mounted /\ fat.fds = fds
  <2> HIDE DEF fds
  <2>1. QED
    BY <1>4, DiskIs
<1>7. t = IF same = {} THEN FsClose(s, file)
          ELSE [FsClose(s, file) EXCEPT !.open_files[g] = ClosedEntry]
  BY DEF vfs_close
<1>8. same # {} => g \in Handle /\ IsEntryOf(s, g, x, m)
  <2>1. same \in SUBSET Nat
    BY Slots
  <2>2. same # {} => g \in same
    BY <2>1, FirstOfLeast
  <2>3. QED
    BY <1>3, <2>2
<1>9. ClosedEntry \in OpenEntry /\ ~ClosedEntry.in_use
  BY DEF ClosedEntry, OpenEntry, FsHandle
<1> HIDE DEF same, g, fat, fds
<1>10. /\ files \in [Handle -> OpenEntry]
       /\ same = {} => files = s.open_files
       /\ same # {} => files[g] = ClosedEntry /\ \A h \in Handle \ {g} : files[h] = s.open_files[h]
  BY <1>2, <1>8, <1>9
<1>11. t = WithTables(s, s.mounts, files, fat)
  <2>1. CASE same = {}
    BY <1>5, <1>7, <2>1
  <2>2. CASE same # {}
    <3> DEFINE c == FsClose(s, file)
               z == [s.open_files EXCEPT ![g] = ClosedEntry]
    <3>1. c.open_files = s.open_files
      BY <1>1, <1>5 DEF WithTables, FsState
    <3>2. t = [c EXCEPT !.open_files = z]
      BY <1>7, <2>2, <3>1
    <3>3. c = WithTables(s, s.mounts, s.open_files, fat)
      BY <1>5
    <3> HIDE DEF c, z
    <3>4. t = WithTables(s, s.mounts, z, fat)
      BY <1>1, <3>2, <3>3 DEF WithTables, FsState
    <3>5. QED
      BY <2>2, <3>4 DEF z
  <2>3. QED
    BY <2>1, <2>2
<1> HIDE DEF files
<1>12. TablesAre(s, t, s.mounts, files, fat)
  BY <1>1, <1>2, <1>6, <1>10, <1>11, StateWithTables
<1>13. t \in FsState /\ t.node = s.node /\ t.allocated = s.allocated /\ t.cwd = s.cwd
       /\ t.mounts = s.mounts /\ t.open_files = files /\ t.fat = fat
  BY <1>12 DEF TablesAre
<1>14. MountsOK(t)
  BY <1>1, <1>6, <1>13 DEF MountsOK
<1> DEFINE S(u) == {u.open_files[h].fs_handle : h \in {k \in Handle : OnDisk(u, k)}}
<1>15. s.fat.fds = S(s) /\ t.fat.fds = fds
  BY <1>1, <1>6, <1>13 DEF HandlesOK
<1>16. disk => \A h \in Handle : OnDisk(s, h) /\ s.open_files[h].fs_handle = x => h \in same
  <2>1. \A h \in Handle : OnDisk(s, h) => s.open_files[h].in_use /\ s.open_files[h].mount \in Slot
    BY <1>1 DEF OnDisk, HandlesOK
  <2>2. disk => \A h \in Handle : OnDisk(s, h) => s.open_files[h].mount = m
    BY <1>1, <2>1 DEF OnDisk, MountsOK
  <2>3. QED
    BY <1>3, <2>1, <2>2 DEF IsEntryOf
<1>17. CASE same = {}
  <2>1. t.open_files = s.open_files
    BY <1>10, <1>13, <1>17
  <2>2. t.fat.fds = s.fat.fds
    <3>1. disk => x \notin s.fat.fds
      BY <1>15, <1>16, <1>17
    <3>2. QED
      BY <1>15, <3>1 DEF fds
  <2>3. HandlesOK(t)
    BY <1>13, <2>1, <2>2, HandlesStay
  <2>4. StepOK(s, t) /\ KeepsLookups(s, t)
    BY <1>1, <1>13, <1>14, <2>3, SameNodes
  <2>5. QED
    BY <1>3, <1>13, <1>17, <2>1, <2>4
<1>18. CASE same # {}
  <2>1. t.open_files[g] = ClosedEntry /\ \A h \in Handle \ {g} : t.open_files[h] = s.open_files[h]
    BY <1>10, <1>13, <1>18
  <2>2. g \in Handle /\ s.open_files[g].in_use /\ s.open_files[g].fs_handle = x /\ s.open_files[g].mount = m
    BY <1>8, <1>18 DEF IsEntryOf
  <2>3. ~OnDisk(t, g) /\ \A h \in Handle \ {g} : OnDisk(t, h) <=> OnDisk(s, h)
    BY <1>9, <1>13, <2>1 DEF OnDisk
  <2>4. OnDisk(s, g) <=> disk
    BY <2>2 DEF OnDisk
  <2>5. \A h \in Handle \ {g} : OnDisk(s, h) /\ disk => s.open_files[h].fs_handle # x
    BY <1>1, <2>2, <2>4 DEF HandlesOK
  <2>6. t.fat.fds = S(t)
    <3>1. CASE disk
      <4>1. S(t) = S(s) \ {x}
        BY <2>1, <2>2, <2>3, <2>5, <3>1
      <4>2. QED
        BY <1>15, <3>1, <4>1 DEF fds
    <3>2. CASE ~disk
      <4>1. S(t) = S(s)
        BY <2>1, <2>3, <2>4, <3>2
      <4>2. QED
        BY <1>15, <3>2, <4>1 DEF fds
    <3>3. QED
      BY <3>1, <3>2
  <2>7. \A h, k \in Handle : OnDisk(t, h) /\ OnDisk(t, k)
            /\ t.open_files[h].fs_handle = t.open_files[k].fs_handle => h = k
    BY <1>1, <2>1, <2>3 DEF HandlesOK
  <2>8. \A h \in Handle : t.open_files[h].in_use =>
            t.open_files[h].mount \in Slot /\ t.mounts[t.open_files[h].mount].mounted
    BY <1>1, <1>9, <1>13, <2>1 DEF HandlesOK
  <2>9. HandlesOK(t)
    BY <2>6, <2>7, <2>8 DEF HandlesOK
  <2>10. StepOK(s, t) /\ KeepsLookups(s, t)
    BY <1>1, <1>13, <1>14, <2>9, SameNodes
  <2>11. QED
    BY <1>8, <1>13, <1>18, <2>1, <2>10
<1>19. QED
  BY <1>17, <1>18

\* sys_chdir.
LEMMA ChdirStep ==
  ASSUME NEW s, Good(s), NEW p \in Seq(Text), \A i \in DOMAIN p : p[i] \notin {".", ".."},
         NEW t, t = [s EXCEPT !.cwd = p]
  PROVE  StepOK(s, t) /\ t.open_files = s.open_files /\ t.allocated = s.allocated
<1>1. s \in FsState /\ MountsOK(s)
  BY DEF Good
<1>2. t \in FsState /\ t.cwd = p
  BY <1>1 DEF FsState
<1>3. t.node = s.node /\ t.allocated = s.allocated
      /\ t.mounts = s.mounts /\ t.open_files = s.open_files /\ t.fat = s.fat
  BY <1>1 DEF FsState
<1>4. MountsOK(t)
  BY <1>1, <1>3 DEF MountsOK
<1>5. HandlesOK(t)
  BY <1>3, HandlesStay
<1>6. StepOK(s, t)
  BY <1>2, <1>3, <1>4, <1>5, SameNodes
<1>7. QED
  BY <1>3, <1>6
-----------------------------------------------------------------------------
(* The clients                                                             *)

Pc == PathCalls \cup FileCalls \cup Resting \cup {"hung"}

LEMMA ClientFields ==
  ASSUME NEW me \in ClientState
  PROVE  /\ me.pc \in Pc /\ me.path \in Seq(Text) /\ me.file \in OpenFile /\ me.alone \in BOOLEAN
         /\ me.file.in_use \in BOOLEAN /\ me.file.fs_handle \in FsHandle
         /\ me.file.mount \in Slot \cup {NO_MOUNT}
         /\ me.file.position \in Nat /\ me.file.dangling \in BOOLEAN
<1>1. me.pc \in Pc /\ me.path \in Seq(Text) /\ me.file \in OpenFile /\ me.alone \in BOOLEAN
  BY DEF ClientState, Pc
<1>2. QED
  BY <1>1 DEF OpenFile

\* A client in words: where it is, what it works on and the file it holds.
File(in_use, fs_handle, mount, position, dangling) ==
    [in_use |-> in_use, fs_handle |-> fs_handle, mount |-> mount,
     position |-> position, dangling |-> dangling]
State(pc, path, file, alone) == [pc |-> pc, path |-> path, file |-> file, alone |-> alone]

LEMMA FileIs ==
  ASSUME NEW in_use \in BOOLEAN, NEW fs_handle \in FsHandle, NEW mount \in Slot \cup {NO_MOUNT},
         NEW position \in Nat, NEW dangling \in BOOLEAN,
         NEW file, file = File(in_use, fs_handle, mount, position, dangling)
  PROVE  /\ file \in OpenFile /\ file.in_use = in_use /\ file.fs_handle = fs_handle
         /\ file.mount = mount /\ file.position = position /\ file.dangling = dangling
BY DEF OpenFile, File

LEMMA StateIs ==
  ASSUME NEW pc \in Pc, NEW path \in Seq(Text), NEW file \in OpenFile, NEW alone \in BOOLEAN,
         NEW me, me = State(pc, path, file, alone)
  PROVE  /\ me \in ClientState /\ me.pc = pc /\ me.path = path
         /\ me.file = file /\ me.alone = alone
BY DEF ClientState, State, Pc

LEMMA ClosedFileIs == ClosedFile \in OpenFile /\ ~ClosedFile.in_use
<1> DEFINE no == FALSE
<1>1. 0 \in FsHandle /\ 0 \in Nat /\ NO_MOUNT \in Slot \cup {NO_MOUNT}
  BY DEF FsHandle
<1>2. ClosedFile = File(no, 0, NO_MOUNT, 0, no) /\ no \in BOOLEAN
  BY DEF ClosedFile, File
<1> HIDE DEF no
<1>3. ClosedFile \in OpenFile
  BY <1>1, <1>2, FileIs
<1>4. ClosedFile.in_use = FALSE
  BY DEF ClosedFile
<1>5. QED
  BY <1>3, <1>4

LEMMA OpenedFileIs ==
  ASSUME NEW handle \in FsHandle, NEW mount \in Slot, NEW file, file = OpenedFile(handle, mount)
  PROVE  /\ file \in OpenFile /\ file.in_use /\ file.fs_handle = handle /\ file.mount = mount
         /\ file.position = 0 /\ ~file.dangling
<1> DEFINE yes == TRUE
           no == FALSE
<1>1. file = File(yes, handle, mount, 0, no)
  BY DEF OpenedFile, ClosedFile, File
<1>2. yes \in BOOLEAN /\ no \in BOOLEAN /\ 0 \in Nat /\ mount \in Slot \cup {NO_MOUNT}
  OBVIOUS
<1> HIDE DEF yes, no
<1>3. /\ file \in OpenFile /\ file.in_use = yes /\ file.fs_handle = handle /\ file.mount = mount
      /\ file.position = 0 /\ file.dangling = no
  BY <1>1, <1>2, FileIs
<1>4. QED
  BY <1>3 DEF yes, no

LEMMA AtRestIs ==
  /\ AtRest \in ClientState /\ AtRest.pc = "idle" /\ AtRest.path = << >>
  /\ AtRest.file = ClosedFile /\ AtRest.alone = FALSE
<1> DEFINE no == FALSE
           idle == "idle"
           none == << >>
<1>1. idle \in Pc /\ no \in BOOLEAN
  BY DEF Pc, Resting
<1>2. AtRest = State(idle, none, ClosedFile, no)
  BY DEF AtRest, State
<1>3. ClosedFile \in OpenFile /\ none \in Seq(Text)
  BY ClosedFileIs, EmptySeqs
<1> HIDE DEF no, idle, none
<1>4. /\ AtRest \in ClientState /\ AtRest.pc = idle /\ AtRest.path = none
      /\ AtRest.file = ClosedFile /\ AtRest.alone = no
  BY <1>1, <1>2, <1>3, StateIs
<1>5. QED
  BY <1>4 DEF no, idle, none

\* What the client that makes the call is after it, by its own account.
LEMMA EnterIs ==
  ASSUME NEW c \in Client, client \in [Client -> ClientState], NEW pc \in Pc, NEW path \in Seq(Text),
         NEW me, me = Enter(c, pc, path)
  PROVE  /\ me \in ClientState /\ me.pc = pc
         /\ me.file = IF pc = "idle" THEN ClosedFile ELSE client[c].file
         /\ pc # "idle" => me.alone = client[c].alone
         /\ c = "editor" /\ pc # "idle" => me.path = path
<1> DEFINE old == client[c]
           p == IF c = "editor" \/ pc \in PathCalls THEN path ELSE << >>
<1>1. CASE pc = "idle"
  BY <1>1, AtRestIs DEF Enter
<1>2. CASE pc # "idle"
  <2>1. old \in ClientState
    OBVIOUS
  <2>2. p \in Seq(Text)
    BY EmptySeqs
  <2>3. me = [old EXCEPT !.pc = pc, !.path = p]
    BY <1>2 DEF Enter
  <2> HIDE DEF old, p
  <2>4. me = State(pc, p, old.file, old.alone)
    BY <2>1, <2>3 DEF ClientState, State
  <2>5. old.file \in OpenFile /\ old.alone \in BOOLEAN
    BY <2>1, ClientFields
  <2>6. me \in ClientState /\ me.pc = pc /\ me.path = p /\ me.file = old.file /\ me.alone = old.alone
    BY <2>2, <2>4, <2>5, StateIs
  <2>7. QED
    BY <1>2, <2>6 DEF old, p
<1>3. QED
  BY <1>1, <1>2
\* What a client is after another one's call, which took the kernel from s to t.
Seen(me, s, t) ==
    [me EXCEPT !.alone = FALSE,
               !.file.dangling = @ \/ me.file.fs_handle \in s.allocated \ t.allocated]

LEMMA SeenIs ==
  ASSUME NEW me \in ClientState, NEW s, NEW t, NEW you, you = Seen(me, s, t)
  PROVE  /\ you \in ClientState /\ you.pc = me.pc /\ you.path = me.path /\ ~you.alone
         /\ you.file.in_use = me.file.in_use /\ you.file.fs_handle = me.file.fs_handle
         /\ you.file.mount = me.file.mount /\ you.file.position = me.file.position
         /\ ~you.file.dangling =>
                ~me.file.dangling /\ me.file.fs_handle \notin s.allocated \ t.allocated
<1> DEFINE old == me.file
           lost == old.dangling \/ old.fs_handle \in s.allocated \ t.allocated
           new == [old EXCEPT !.dangling = lost]
           no == FALSE
<1>1. old \in OpenFile /\ old.in_use \in BOOLEAN /\ old.fs_handle \in FsHandle
      /\ old.mount \in Slot \cup {NO_MOUNT} /\ old.position \in Nat /\ old.dangling \in BOOLEAN
  BY ClientFields
<1>2. me.pc \in Pc /\ me.path \in Seq(Text)
  BY ClientFields
<1>3. lost \in BOOLEAN /\ no \in BOOLEAN
  BY <1>1
<1>4. you = [me EXCEPT !.alone = no, !.file = new]
  BY DEF Seen, ClientState
<1>5. ~lost => ~old.dangling /\ old.fs_handle \notin s.allocated \ t.allocated
  OBVIOUS
<1>6. ~no
  OBVIOUS
<1> HIDE DEF old, lost, no
<1>7. new = File(old.in_use, old.fs_handle, old.mount, old.position, lost)
  BY <1>1 DEF File, OpenFile
<1>8. /\ new \in OpenFile /\ new.in_use = old.in_use /\ new.fs_handle = old.fs_handle
      /\ new.mount = old.mount /\ new.position = old.position /\ new.dangling = lost
  BY <1>1, <1>3, <1>7, FileIs
<1> HIDE DEF new
<1>9. you = State(me.pc, me.path, new, no)
  BY <1>4 DEF State, ClientState
<1>10. you \in ClientState /\ you.pc = me.pc /\ you.path = me.path /\ you.file = new /\ you.alone = no
  BY <1>2, <1>3, <1>8, <1>9, StateIs
<1>11. ~you.alone
  BY <1>6, <1>10
<1>12. ~you.file.dangling => ~old.dangling /\ old.fs_handle \notin s.allocated \ t.allocated
  BY <1>5, <1>8, <1>10
<1>13. QED
  BY <1>8, <1>10, <1>11, <1>12 DEF old

LEMMA WithinLonger ==
  ASSUME NEW y \in Seq(Text), NEW z \in Seq(Text), NEW k \in Nat, k <= Len(y), Len(y) <= Len(z)
  PROVE  k <= Len(z)
OBVIOUS

\* A file held by a client that makes no call is kept or dangles.
LEMMA SeenOK ==
  ASSUME NEW s, NEW t, s \in FsState, StepOK(s, t), NEW me \in ClientState, ClientOK(s, me),
         NEW you, you = Seen(me, s, t)
  PROVE  ClientOK(t, you)
<1> DEFINE n == me.file.fs_handle
           m == me.file.mount
<1>1. /\ you \in ClientState /\ you.pc = me.pc
      /\ you.file.in_use = me.file.in_use /\ you.file.fs_handle = n
      /\ you.file.mount = m /\ you.file.position = me.file.position
      /\ ~you.file.dangling => ~me.file.dangling /\ n \notin s.allocated \ t.allocated
  BY SeenIs
<1>2. CASE me.pc \notin FileCalls
  BY <1>1, <1>2 DEF ClientOK
<1>3. CASE me.pc \in FileCalls
  <2>1. /\ me.file.in_use /\ m \in Slot
        /\ s.mounts[m].ops = "ramfs" =>
               /\ n \in NodeId
               /\ ~me.file.dangling => /\ n \in s.allocated /\ s.node[n].type = FS_FILE
                                       /\ FirstOfName(s, n)
                                       /\ me.file.position <= Len(s.node[n].data)
    BY <1>3 DEF ClientOK
  <2>2. ASSUME t.mounts[m].ops = "ramfs", ~you.file.dangling
        PROVE  /\ n \in t.allocated /\ t.node[n].type = FS_FILE
               /\ FirstOfName(t, n) /\ me.file.position <= Len(t.node[n].data)
    <3>1. s.mounts[m].ops = "ramfs"
      BY <2>1, <2>2 DEF StepOK
    <3>2. ~me.file.dangling /\ n \notin s.allocated \ t.allocated
      BY <1>1, <2>2
    <3>3. n \in s.allocated /\ n \in t.allocated /\ s.node[n].type = FS_FILE
          /\ FirstOfName(s, n) /\ me.file.position <= Len(s.node[n].data)
      BY <2>1, <3>1, <3>2
    <3>4. t.node[n].type = FS_FILE /\ FirstOfName(t, n) /\ Len(s.node[n].data) <= Len(t.node[n].data)
      BY <3>3 DEF StepOK
    <3>5. n \in NodeId /\ t \in FsState
      BY <2>1, <3>1 DEF StepOK, Good
    <3>6. s.node[n].data \in Seq(Text) /\ t.node[n].data \in Seq(Text)
      BY <3>5, NodeFields
    <3>7. me.file.position \in Nat
      BY ClientFields
    <3>8. me.file.position <= Len(t.node[n].data)
      <4> DEFINE y == s.node[n].data
                 z == t.node[n].data
                 k == me.file.position
      <4>1. y \in Seq(Text) /\ z \in Seq(Text) /\ k \in Nat /\ k <= Len(y) /\ Len(y) <= Len(z)
        BY <3>3, <3>4, <3>6, <3>7
      <4> HIDE DEF y, z, k
      <4>2. k <= Len(z)
        BY <4>1, WithinLonger
      <4>3. QED
        BY <4>2 DEF z, k
    <3>9. QED
      BY <3>3, <3>4, <3>8
  <2>3. t.mounts[m].ops = "ramfs" => n \in NodeId
    BY <2>1 DEF StepOK
  <2>4. QED
    BY <1>1, <1>3, <2>1, <2>2, <2>3 DEF ClientOK
<1>4. QED
  BY <1>2, <1>3
\* The clients after a call of c, which took the kernel from s to t.
After(cl, c, mine, s, t) == [d \in Client |-> IF d = c THEN mine ELSE Seen(cl[d], s, t)]

LEMMA CallIs ==
  ASSUME NEW c, NEW t, NEW mine, Call(c, t, mine)
  PROVE  fs' = t /\ client' = After(client, c, mine, fs, t) /\ wild' = FALSE
BY DEF Call, After, Seen

SameFile(f, g) == f.in_use => g.in_use /\ g.fs_handle = f.fs_handle /\ g.mount = f.mount

EntriesStay(s, t) ==
    \A h \in Handle : t.open_files[h].in_use => t.open_files[h] = s.open_files[h]

\* An entry that stays keeps its owner.
LEMMA OwnersStay ==
  ASSUME NEW s, NEW t, NEW cl, NEW new, Owned(s, cl), EntriesStay(s, t),
         \A d \in Client : SameFile(cl[d].file, new[d].file)
  PROVE  Owned(t, new)
<1>1. PICK owner \in [Handle -> Client] : Owns(s, cl, owner)
  BY DEF Owned
<1>2. ASSUME NEW h \in Handle, t.open_files[h].in_use
      PROVE  /\ new[owner[h]].file.in_use
             /\ new[owner[h]].file.fs_handle = t.open_files[h].fs_handle
             /\ new[owner[h]].file.mount = t.open_files[h].mount
  <2> DEFINE f == cl[owner[h]].file
             e == t.open_files[h]
  <2>1. e = s.open_files[h] /\ s.open_files[h].in_use
    BY <1>2 DEF EntriesStay
  <2>2. f.in_use /\ f.fs_handle = s.open_files[h].fs_handle /\ f.mount = s.open_files[h].mount
    BY <1>1, <2>1 DEF Owns
  <2>3. owner[h] \in Client
    OBVIOUS
  <2>4. QED
    BY <2>1, <2>2, <2>3 DEF SameFile
<1>3. ASSUME NEW g \in Handle, NEW h \in Handle, t.open_files[g].in_use, t.open_files[h].in_use,
             owner[g] = owner[h]
      PROVE  g = h
  <2>1. s.open_files[g].in_use /\ s.open_files[h].in_use
    BY <1>3 DEF EntriesStay
  <2>2. QED
    BY <1>1, <1>3, <2>1 DEF Owns
<1>4. Owns(t, new, owner)
  BY <1>2, <1>3 DEF Owns
<1>5. QED
  BY <1>4 DEF Owned

LEMMA AfterIs ==
  ASSUME NEW cl \in [Client -> ClientState], NEW c \in Client, NEW mine, NEW s, NEW t,
         NEW new, new = After(cl, c, mine, s, t)
  PROVE  /\ new[c] = mine
         /\ \A d \in Client \ {c} : /\ new[d] = Seen(cl[d], s, t) /\ SameFile(cl[d].file, new[d].file)
                                    /\ new[d].pc = cl[d].pc /\ ~new[d].alone
<1>1. new[c] = mine /\ \A d \in Client \ {c} : new[d] = Seen(cl[d], s, t)
  BY DEF After
<1>2. ASSUME NEW d \in Client \ {c}
      PROVE  SameFile(cl[d].file, new[d].file) /\ new[d].pc = cl[d].pc /\ ~new[d].alone
  <2> DEFINE me == cl[d]
             you == new[d]
  <2>1. me \in ClientState /\ you = Seen(me, s, t)
    BY <1>1
  <2> HIDE DEF me, you
  <2>2. /\ you.pc = me.pc /\ ~you.alone /\ you.file.in_use = me.file.in_use
        /\ you.file.fs_handle = me.file.fs_handle /\ you.file.mount = me.file.mount
    BY <2>1, SeenIs
  <2>3. QED
    BY <2>2 DEF SameFile, me, you
<1>3. QED
  BY <1>1, <1>2

\* What the client that makes a call owes to the other one.
Yields(cl, c, mine, t) ==
    IF c = "shell"
    THEN /\ mine.pc # "edit_stat"
         /\ mine.pc = "edit_parent" => cl["editor"].pc \in {"idle", "saved"}
    ELSE cl["editor"].pc \notin {"idle", "saved"} /\ Saving(t, mine)

LEMMA CallStep ==
  ASSUME NEW s, Good(s), NEW t, StepOK(s, t), NEW cl, ClientsOK(s, cl),
         NEW c \in Client, NEW mine \in ClientState, ClientOK(t, mine), Yields(cl, c, mine, t),
         NEW new, new = After(cl, c, mine, s, t), Owned(t, new)
  PROVE  Good(t) /\ ClientsOK(t, new)
<1>1. Good(t)
  BY DEF StepOK
<1>2. cl \in [Client -> ClientState] /\ OneEditor(cl) /\ \A d \in Client : ClientOK(s, cl[d])
  BY DEF ClientsOK
<1>3. /\ new[c] = mine
      /\ \A d \in Client \ {c} : new[d] = Seen(cl[d], s, t) /\ new[d].pc = cl[d].pc /\ ~new[d].alone
  BY <1>2, AfterIs
<1>4. ASSUME NEW d \in Client \ {c} PROVE new[d] \in ClientState /\ ClientOK(t, new[d])
  <2> DEFINE me == cl[d]
             you == new[d]
  <2>1. me \in ClientState /\ you = Seen(me, s, t) /\ ClientOK(s, me)
    BY <1>2, <1>3
  <2>2. s \in FsState
    BY DEF Good
  <2> HIDE DEF me, you
  <2>3. you \in ClientState
    BY <2>1, SeenIs
  <2>4. ClientOK(t, you)
    BY <2>1, <2>2, SeenOK
  <2>5. QED
    BY <2>3, <2>4 DEF you
<1>5. \A d \in Client : new[d] \in ClientState /\ ClientOK(t, new[d])
  BY <1>3, <1>4
<1>6. new \in [Client -> ClientState]
  BY <1>5 DEF After
<1>7. "shell" \in Client /\ "editor" \in Client /\ "shell" # "editor"
  BY DEF Client
<1>8. OneEditor(new)
  <2>1. CASE c = "shell"
    BY <1>3, <1>7, <2>1 DEF OneEditor, Yields
  <2>2. CASE c = "editor"
    <3>1. cl["shell"].pc # "edit_parent" /\ cl["shell"].pc # "edit_stat"
      BY <1>2, <1>7, <2>2 DEF OneEditor, Yields
    <3>2. QED
      BY <1>3, <1>7, <2>2, <3>1 DEF OneEditor
  <2>3. QED
    BY <2>1, <2>2 DEF Client
<1>9. Saving(t, new["editor"])
  <2>1. CASE c = "shell"
    BY <1>3, <1>7, <2>1 DEF Saving
  <2>2. CASE c = "editor"
    BY <1>3, <1>7, <2>2 DEF Yields
  <2>3. QED
    BY <2>1, <2>2 DEF Client
<1>10. QED
  BY <1>1, <1>5, <1>6, <1>8, <1>9 DEF ClientsOK

\* A call after which no client has another file than before.
LEMMA QuietStep ==
  ASSUME NEW s, Good(s), NEW t, StepOK(s, t), EntriesStay(s, t), NEW cl, ClientsOK(s, cl),
         NEW c \in Client, NEW mine \in ClientState, ClientOK(t, mine), Yields(cl, c, mine, t),
         SameFile(cl[c].file, mine.file),
         NEW new, new = After(cl, c, mine, s, t)
  PROVE  Good(t) /\ ClientsOK(t, new)
<1>1. cl \in [Client -> ClientState] /\ Owned(s, cl)
  BY DEF ClientsOK
<1>2. \A d \in Client : SameFile(cl[d].file, new[d].file)
  BY <1>1, AfterIs
<1>3. Owned(t, new)
  BY <1>1, <1>2, OwnersStay
<1>4. QED
  BY <1>3, CallStep
-----------------------------------------------------------------------------
(* The actions                                                             *)

\* A client that asks for a call with a path holds no file.
Ready(c) ==
    ~client[c].file.in_use /\ (c = "editor" => client[c].pc \notin {"idle", "saved"})

Requested(c, r) ==
    /\ r.call \in PathCalls /\ r.path \in Seq(Text)
    /\ ~wild /\ Ready(c)
    /\ \/ r.call = client[c].pc /\ r.path = client[c].path
       \/ /\ c = "shell" /\ r.call \in FirstCalls
          /\ r.call = "edit_stat" => client["editor"].pc \in {"idle", "saved"}

LEMMA Kinds ==
  /\ FirstCalls \subseteq PathCalls /\ PathCalls \cap FileCalls = {}
  /\ "idle" \notin FileCalls /\ "saved" \notin FileCalls
  /\ "idle" \notin PathCalls /\ "saved" \notin PathCalls /\ "edit_parent" \notin FirstCalls
BY DEF PathCalls, FileCalls, FirstCalls

LEMMA RequestOK ==
  ASSUME FInv, NEW c \in Client, NEW r \in Requests(c), r.call \in PathCalls
  PROVE  Requested(c, r)
<1>1. fs \in FsState /\ client \in [Client -> ClientState] /\ ClientOK(fs, client[c])
  BY DEF FInv, Good, ClientsOK
<1>2. ~wild
  BY DEF Requests
<1>3. CASE c = "shell" /\ client[c].pc = "idle"
  <2>1. r \in Typed
    BY <1>2, <1>3 DEF Requests
  <2>2. PICK line \in CommandLines :
            /\ r = [call |-> line.call, path |-> Whole(line)]
            /\ line.call = "edit_stat" => client["editor"].pc \in {"idle", "saved"}
    BY <2>1 DEF Typed
  <2>3. line.call \in FirstCalls /\ line.parts \in Seq(Text)
    BY CommandsAssumption
  <2>4. fs.cwd \in Seq(Text)
    BY <1>1, StateFields
  <2>5. Whole(line) \in Seq(Text)
    BY <2>3, <2>4, ConcatElements DEF Whole
  <2>6. r.call \in FirstCalls /\ r.path \in Seq(Text)
        /\ (r.call = "edit_stat" => client["editor"].pc \in {"idle", "saved"})
    BY <2>2, <2>3, <2>5
  <2>7. client[c].pc \notin FileCalls
    BY <1>3, Kinds
  <2>8. ~client[c].file.in_use
    BY <1>1, <2>7 DEF ClientOK
  <2>9. c # "editor"
    BY <1>3
  <2>10. QED
    BY <1>2, <1>3, <2>6, <2>8, <2>9 DEF Requested, Ready
<1>4. CASE ~(c = "shell" /\ client[c].pc = "idle")
  <2> DEFINE me == client[c]
  <2>1. r = [call |-> me.pc, path |-> me.path]
    BY <1>2, <1>4 DEF Requests
  <2>2. me \in ClientState
    BY <1>1
  <2> HIDE DEF me
  <2>3. r.call = me.pc /\ r.path = me.path /\ me.path \in Seq(Text)
    BY <2>1, <2>2, ClientFields
  <2>4. me.pc \notin FileCalls /\ me.pc \notin {"idle", "saved"}
    BY <2>3, Kinds
  <2>5. ~me.file.in_use
    BY <1>1, <2>4 DEF ClientOK, me
  <2>6. QED
    BY <1>2, <2>3, <2>4, <2>5 DEF Requested, Ready, me
<1>5. QED
  BY <1>3, <1>4

\* An asked call comes from a request, and its path can be resolved.
LEMMA AskedIs ==
  ASSUME FInv, NEW c \in Client, NEW calls \in SUBSET PathCalls, NEW r \in Asked(c, calls)
  PROVE  /\ Requested(c, r) /\ r.call \in calls /\ ~NeverReturns(r.path)
         /\ vfs_resolve_path(fs, r.path).path \in Seq(Text)
         /\ NameOf(vfs_resolve_path(fs, r.path).path) \notin {".", ".."}
<1>1. r \in Requests(c) /\ r.call \in calls /\ ~NeverReturns(r.path)
  BY DEF Asked
<1>2. Requested(c, r)
  BY <1>1, RequestOK
<1>3. r.path \in Seq(Text) /\ fs \in FsState
  BY <1>2 DEF Requested, FInv, Good
<1>4. QED
  BY <1>1, <1>2, <1>3, ResolvePath

\* A call with a path that opens nothing.
LEMMA PathStep ==
  ASSUME FInv, NEW c \in Client, Ready(c),
         NEW t, StepOK(fs, t), EntriesStay(fs, t),
         NEW pc \in Pc, pc \notin FileCalls, NEW path \in Seq(Text),
         NEW mine, mine = Enter(c, pc, path), Call(c, t, mine),
         c = "shell" => /\ pc # "edit_stat"
                        /\ pc = "edit_parent" => client["editor"].pc \in {"idle", "saved"},
         c = "editor" => Saving(t, mine)
  PROVE  FInv'
<1>1. Good(fs) /\ ClientsOK(fs, client) /\ client \in [Client -> ClientState]
  BY DEF FInv, ClientsOK
<1>2. mine \in ClientState /\ mine.pc = pc
      /\ mine.file = IF pc = "idle" THEN ClosedFile ELSE client[c].file
  BY <1>1, EnterIs
<1>3. ~client[c].file.in_use /\ ~ClosedFile.in_use
  BY ClosedFileIs DEF Ready
<1>4. ~mine.file.in_use
  BY <1>2, <1>3
<1>5. ClientOK(t, mine)
  BY <1>2, <1>4 DEF ClientOK
<1>6. SameFile(client[c].file, mine.file)
  BY <1>3 DEF SameFile
<1>7. Yields(client, c, mine, t)
  <2>1. c \in {"shell", "editor"}
    BY DEF Client
  <2>2. QED
    BY <1>2, <2>1 DEF Yields, Ready
<1>8. fs' = t /\ client' = After(client, c, mine, fs, t) /\ wild' = FALSE
  BY CallIs
<1>9. Good(t) /\ ClientsOK(t, client')
  BY <1>1, <1>2, <1>5, <1>6, <1>7, <1>8, QuietStep
<1>10. QED
  BY <1>8, <1>9 DEF FInv

LEMMA StayingEntries ==
  ASSUME NEW s, NEW t, t.open_files = s.open_files
  PROVE  EntriesStay(s, t)
BY DEF EntriesStay

LEMMA Staying ==
  ASSUME FInv
  PROVE  StepOK(fs, fs) /\ EntriesStay(fs, fs)
BY NoStep, StayingEntries DEF FInv

\* Away from the steps of a save nothing is asked of the editor.
LEMMA NotSaving ==
  ASSUME NEW s, NEW me,
         me.pc \notin {"save_create", "save_open", "save_seek", "save_write", "save_close", "saved"}
  PROVE  Saving(s, me)
BY DEF Saving
LEMMA WildInv ==
  ASSUME FInv, GoWild
  PROVE  FInv'
<1>1. wild' \in BOOLEAN /\ fs' = fs /\ client' = client
  BY DEF GoWild
<1>2. QED
  BY <1>1 DEF FInv

\* Nothing but where the client is changes.
LEMMA GotoStep ==
  ASSUME FInv, NEW c \in Client, Ready(c), NEW pc \in Pc, pc \notin FileCalls, NEW path \in Seq(Text),
         Goto(c, pc, path),
         c = "shell" => /\ pc # "edit_stat"
                        /\ pc = "edit_parent" => client["editor"].pc \in {"idle", "saved"},
         c = "editor" => pc \notin {"save_create", "save_open", "save_seek", "save_write",
                                    "save_close", "saved"}
  PROVE  FInv'
<1> DEFINE mine == Enter(c, pc, path)
<1>1. client \in [Client -> ClientState]
  BY DEF FInv, ClientsOK
<1>2. mine.pc = pc
  BY <1>1, EnterIs
<1>3. StepOK(fs, fs) /\ EntriesStay(fs, fs)
  BY Staying
<1>4. Call(c, fs, mine)
  BY DEF Goto
<1>5. c = "editor" => Saving(fs, mine)
  BY <1>2, NotSaving
<1> HIDE DEF mine
<1>6. mine = Enter(c, pc, path)
  BY DEF mine
<1>7. QED
  BY <1>3, <1>4, <1>5, <1>6, PathStep

\* A call of the shell after which it has its prompt again.
LEMMA PromptStep ==
  ASSUME FInv, Ready("shell"), NEW t, StepOK(fs, t), EntriesStay(fs, t), Call("shell", t, AtRest)
  PROVE  FInv'
<1> DEFINE c == "shell"
           pc == "idle"
           path == << >>
<1>1. c \in Client /\ c # "editor"
  BY DEF Client
<1>2. pc \in Pc /\ pc \notin FileCalls /\ pc # "edit_stat" /\ pc # "edit_parent"
  BY Kinds DEF Pc, Resting
<1>3. AtRest = Enter(c, pc, path)
  BY DEF Enter
<1>4. path \in Seq(Text)
  BY EmptySeqs
<1>5. Ready(c) /\ Call(c, t, AtRest)
  OBVIOUS
<1> HIDE DEF c, pc, path
<1>6. QED
  BY <1>1, <1>2, <1>3, <1>4, <1>5, PathStep

LEMMA NeverReturnsInv ==
  ASSUME FInv, NEW c \in Client, never_returns(c)
  PROVE  FInv'
<1>1. PICK r \in Requests(c) : r.call \in PathCalls /\ Goto(c, "hung", << >>)
  BY DEF never_returns
<1>2. Ready(c)
  BY <1>1, RequestOK DEF Requested
<1> DEFINE pc == "hung"
           path == << >>
<1>3. /\ pc \in Pc /\ pc \notin FileCalls /\ pc # "edit_stat" /\ pc # "edit_parent"
      /\ pc \notin {"save_create", "save_open", "save_seek", "save_write", "save_close", "saved"}
  BY DEF Pc, FileCalls
<1>4. path \in Seq(Text)
  BY EmptySeqs
<1>5. Goto(c, pc, path)
  BY <1>1
<1> HIDE DEF pc, path
<1>6. QED
  BY <1>2, <1>3, <1>4, <1>5, GotoStep

LEMMA StatForCdInv ==
  ASSUME FInv, call_stat_for_cd
  PROVE  FInv'
<1> DEFINE c == "shell"
<1>1. PICK r \in Asked(c, {"cd_stat"}) :
          \E answer \in vfs_stat(fs, r.path) :
              Goto(c, IF answer = FS_DIRECTORY THEN "chdir" ELSE "idle", r.path)
  BY DEF call_stat_for_cd
<1>2. c \in Client /\ c # "editor" /\ {"cd_stat"} \in SUBSET PathCalls
  BY DEF Client, PathCalls, FirstCalls
<1>3. Requested(c, r)
  BY <1>1, <1>2, AskedIs
<1>4. Ready(c) /\ r.path \in Seq(Text)
  BY <1>3 DEF Requested
<1>5. PICK pc \in {"chdir", "idle"} : Goto(c, pc, r.path)
  BY <1>1
<1>6. pc \in Pc /\ pc \notin FileCalls /\ pc # "edit_stat" /\ pc # "edit_parent"
  BY DEF Pc, PathCalls, FileCalls, Resting
<1> HIDE DEF c
<1>7. QED
  BY <1>2, <1>4, <1>5, <1>6, GotoStep

LEMMA ChdirInv ==
  ASSUME FInv, call_chdir
  PROVE  FInv'
<1> DEFINE c == "shell"
<1>1. PICK r \in Asked(c, {"chdir"}) :
          Call(c, IF vfs_resolve_path(fs, r.path).mount = NO_MOUNT THEN fs
                  ELSE [fs EXCEPT !.cwd = vfs_resolve_dots(r.path)], AtRest)
  BY DEF call_chdir
<1>2. c \in Client /\ {"chdir"} \in SUBSET PathCalls
  BY DEF Client, PathCalls
<1>3. Requested(c, r) /\ ~NeverReturns(r.path)
  BY <1>1, <1>2, AskedIs
<1>4. Ready(c) /\ r.path \in Seq(Text)
  BY <1>3 DEF Requested
<1> DEFINE p == vfs_resolve_dots(r.path)
           there == [fs EXCEPT !.cwd = p]
<1>5. p \in Seq(Text) /\ \A i \in DOMAIN p : p[i] \notin {".", ".."}
  BY <1>3, <1>4, ResolveDots
<1>6. PICK t \in {fs, there} : Call(c, t, AtRest)
  BY <1>1
<1> HIDE DEF p
<1>7. StepOK(fs, t) /\ EntriesStay(fs, t)
  <2>1. CASE t = fs
    BY <2>1, Staying
  <2>2. CASE t = there
    <3>1. Good(fs)
      BY DEF FInv
    <3>2. StepOK(fs, t) /\ t.open_files = fs.open_files
      BY <1>5, <2>2, <3>1, ChdirStep
    <3>3. QED
      BY <3>2, StayingEntries
  <2>3. QED
    BY <2>1, <2>2
<1>8. QED
  BY <1>4, <1>6, <1>7, PromptStep

LEMMA StatForEditInv ==
  ASSUME FInv, call_stat_for_edit
  PROVE  FInv'
<1> DEFINE c == "shell"
<1>1. PICK r \in Asked(c, {"edit_stat"}) :
          \E answer \in vfs_stat(fs, r.path) :
              Goto(c, IF answer = FS_DIRECTORY THEN "idle" ELSE "edit_parent",
                   vfs_resolve_dots(r.path))
  BY DEF call_stat_for_edit
<1>2. c \in Client /\ c # "editor" /\ {"edit_stat"} \in SUBSET PathCalls
  BY DEF Client, PathCalls, FirstCalls
<1>3. Requested(c, r) /\ r.call = "edit_stat"
  BY <1>1, <1>2, AskedIs
<1>4. Ready(c) /\ r.path \in Seq(Text)
  BY <1>3 DEF Requested
<1>5. client["editor"].pc \in {"idle", "saved"}
  <2>1. client["shell"].pc # "edit_stat"
    BY DEF FInv, ClientsOK, OneEditor
  <2>2. QED
    BY <1>3, <2>1 DEF Requested
<1> DEFINE path == vfs_resolve_dots(r.path)
<1>6. path \in Seq(Text)
  BY <1>4, ResolveDots
<1>7. PICK pc \in {"idle", "edit_parent"} : Goto(c, pc, path)
  BY <1>1
<1>8. pc \in Pc /\ pc \notin FileCalls /\ pc # "edit_stat"
  BY DEF Pc, PathCalls, FileCalls, Resting
<1> HIDE DEF c, path
<1>9. QED
  BY <1>2, <1>4, <1>5, <1>6, <1>7, <1>8, GotoStep
GoesOn(old, pc, path) == [old EXCEPT !.pc = pc, !.path = path]

LEMMA GoesOnIs ==
  ASSUME NEW old \in ClientState, NEW pc, NEW path, NEW me, me = GoesOn(old, pc, path)
  PROVE  me = State(pc, path, old.file, old.alone)
BY DEF GoesOn, State, ClientState

\* The editor starts: neither client holds a file.
LEMMA StartStep ==
  ASSUME FInv, NEW path \in Seq(Text), Ready("shell"), client["editor"].pc \in {"idle", "saved"},
         client' = [shell |-> AtRest, editor |-> [AtRest EXCEPT !.pc = "load_open", !.path = path]],
         UNCHANGED <<fs, wild>>
  PROVE  FInv'
<1> DEFINE pc == "load_open"
           old == AtRest
           me == GoesOn(old, pc, path)
           new == [shell |-> old, editor |-> me]
<1>1. pc \in Pc /\ pc \notin FileCalls
      /\ pc \notin {"save_create", "save_open", "save_seek", "save_write", "save_close", "saved"}
  BY DEF Pc, PathCalls, FileCalls
<1>2. /\ old \in ClientState /\ old.pc = "idle" /\ ~old.file.in_use
      /\ old.file \in OpenFile /\ old.alone \in BOOLEAN
  BY AtRestIs, ClosedFileIs
<1> HIDE DEF pc, old
<1>3. me = State(pc, path, old.file, old.alone)
  BY <1>1, <1>2, GoesOnIs
<1>4. me \in ClientState /\ me.pc = pc /\ me.file = old.file
  BY <1>1, <1>2, <1>3, StateIs
<1> HIDE DEF me
<1>5. new["shell"] = old /\ new["editor"] = me /\ new \in [Client -> ClientState]
  BY <1>2, <1>4 DEF Client
<1>6. client' = new
  BY DEF new, old, me, pc, GoesOn
<1>7. "idle" \notin FileCalls
  BY Kinds
<1>8. ClientOK(fs, old) /\ ClientOK(fs, me)
  BY <1>1, <1>2, <1>4, <1>7 DEF ClientOK
<1>9. OneEditor(new)
  <2>1. old.pc # "edit_stat" /\ old.pc # "edit_parent"
    BY <1>2
  <2>2. QED
    BY <1>5, <2>1 DEF OneEditor
<1>10. Saving(fs, me)
  BY <1>1, <1>4, NotSaving
<1>11. Owned(fs, new)
  <2>1. Owned(fs, client) /\ ClientOK(fs, client["editor"])
    BY DEF FInv, ClientsOK, Client
  <2>2. client["editor"].pc \notin FileCalls
    BY Kinds
  <2>3. ~client["editor"].file.in_use /\ ~client["shell"].file.in_use
    BY <2>1, <2>2 DEF ClientOK, Ready
  <2>4. \A d \in Client : SameFile(client[d].file, new[d].file)
    BY <2>3 DEF SameFile, Client
  <2>5. EntriesStay(fs, fs)
    BY Staying
  <2>6. QED
    BY <2>1, <2>4, <2>5, OwnersStay
<1>12. \A d \in Client : ClientOK(fs, new[d])
  BY <1>5, <1>8 DEF Client
<1> HIDE DEF new
<1>13. ClientsOK(fs, new)
  BY <1>5, <1>9, <1>10, <1>11, <1>12 DEF ClientsOK
<1>14. QED
  BY <1>6, <1>13 DEF FInv

LEMMA StatOfParentInv ==
  ASSUME FInv, call_stat_of_parent
  PROVE  FInv'
<1> DEFINE c == "shell"
<1>1. PICK r \in Asked(c, {"edit_parent"}) :
        \/ /\ client' = [shell |-> AtRest,
                         editor |-> [AtRest EXCEPT !.pc = "load_open", !.path = r.path]]
           /\ UNCHANGED <<fs, wild>>
        \/ Goto(c, "idle", << >>)
  BY DEF call_stat_of_parent
<1>2. c \in Client /\ {"edit_parent"} \in SUBSET PathCalls
  BY DEF Client, PathCalls
<1>3. Requested(c, r) /\ r.call = "edit_parent"
  BY <1>1, <1>2, AskedIs
<1>4. Ready(c) /\ r.path \in Seq(Text)
  BY <1>3 DEF Requested
<1>5. client["editor"].pc \in {"idle", "saved"}
  <2>1. client["shell"].pc = "edit_parent"
    BY <1>3, Kinds DEF Requested
  <2>2. QED
    BY <2>1 DEF FInv, ClientsOK, OneEditor
<1>6. CASE Goto(c, "idle", << >>)
  <2>1. Call(c, fs, AtRest)
    BY <1>6 DEF Goto, Enter
  <2>2. QED
    BY <1>4, <2>1, Staying, PromptStep
<1>7. CASE ~Goto(c, "idle", << >>)
  <2> DEFINE path == r.path
  <2>1. /\ client' = [shell |-> AtRest, editor |-> [AtRest EXCEPT !.pc = "load_open", !.path = path]]
        /\ UNCHANGED <<fs, wild>>
    BY <1>1, <1>7
  <2>2. path \in Seq(Text)
    BY <1>4
  <2> HIDE DEF path
  <2>3. QED
    BY <1>4, <1>5, <2>1, <2>2, StartStep
<1>8. QED
  BY <1>6, <1>7

\* What touch and mkdir make of the kernel's state.
LEMMA AddedStep ==
  ASSUME FInv, NEW path \in Seq(Text), ~NeverReturns(path), NEW at, at = vfs_resolve_path(fs, path),
         HasParent(fs, at), NEW type \in {FS_FILE, FS_DIRECTORY}, NEW id \in FreeNodes(fs),
         NEW t, t = AddNode(fs, at.path, id, type)
  PROVE  StepOK(fs, t) /\ EntriesStay(fs, t)
<1>1. Good(fs) /\ fs \in FsState
  BY DEF FInv, Good
<1>2. at.path \in Seq(Text) /\ NameOf(at.path) \notin {".", ".."}
  BY <1>1, ResolvePath
<1>3. IsDirectory(fs, fs_find_by_path(fs, ParentPath(at.path)))
  BY DEF HasParent
<1>4. StepOK(fs, t) /\ SameTables(fs, t)
  BY <1>1, <1>2, <1>3, AddStep
<1>5. QED
  BY <1>4, StayingEntries DEF SameTables

LEMMA MkdirInv ==
  ASSUME FInv, call_mkdir
  PROVE  FInv'
<1> DEFINE c == "shell"
<1>1. PICK r \in Asked(c, {"mkdir"}) : \E t \in vfs_mkdir(fs, r.path) : Call(c, t, AtRest)
  BY DEF call_mkdir
<1>2. PICK t \in vfs_mkdir(fs, r.path) : Call(c, t, AtRest)
  BY <1>1
<1>3. c \in Client /\ {"mkdir"} \in SUBSET PathCalls
  BY DEF Client, PathCalls, FirstCalls
<1>4. Requested(c, r) /\ ~NeverReturns(r.path)
  BY <1>3, AskedIs
<1>5. Ready(c) /\ r.path \in Seq(Text)
  BY <1>4 DEF Requested
<1>6. StepOK(fs, t) /\ EntriesStay(fs, t)
  <2> DEFINE at == vfs_resolve_path(fs, r.path)
  <2>1. CASE HasParent(fs, at)
    <3>1. PICK id \in FreeNodes(fs) : t = AddNode(fs, at.path, id, FS_DIRECTORY)
      BY <2>1 DEF vfs_mkdir
    <3>2. QED
      BY <1>4, <1>5, <2>1, <3>1, AddedStep
  <2>2. CASE ~HasParent(fs, at)
    <3>1. t = fs
      BY <2>2 DEF vfs_mkdir
    <3>2. QED
      BY <3>1, Staying
  <2>3. QED
    BY <2>1, <2>2
<1>7. QED
  BY <1>2, <1>5, <1>6, PromptStep

LEMMA MkdirWildInv ==
  ASSUME FInv, mkdir_without_memory
  PROVE  FInv'
BY WildInv DEF mkdir_without_memory

\* What is unlinked is an empty directory or a file.
LEMMA UnlinkedStep ==
  ASSUME FInv, NEW path \in Seq(Text), path # << >>, NEW n, n = fs_find_by_path(fs, path), n # NULL,
         fs.node[n].children = << >>, NEW t, t = Unlink(fs, n)
  PROVE  StepOK(fs, t) /\ EntriesStay(fs, t)
<1>1. Good(fs)
  BY DEF FInv
<1>2. StepOK(fs, t) /\ SameTables(fs, t)
  BY <1>1, RemoveStep
<1>3. QED
  BY <1>2, StayingEntries DEF SameTables

LEMMA RmdirInv ==
  ASSUME FInv, call_rmdir
  PROVE  FInv'
<1> DEFINE c == "shell"
<1>1. PICK r \in Asked(c, {"rmdir"}) : Call(c, vfs_rmdir(fs, r.path), AtRest)
  BY DEF call_rmdir
<1>2. c \in Client /\ {"rmdir"} \in SUBSET PathCalls
  BY DEF Client, PathCalls, FirstCalls
<1> DEFINE at == vfs_resolve_path(fs, r.path)
           n == fs_find_by_path(fs, at.path)
           t == vfs_rmdir(fs, r.path)
<1>3. Requested(c, r) /\ at.path \in Seq(Text)
  BY <1>2, AskedIs
<1>4. Ready(c)
  BY <1>3 DEF Requested
<1>5. StepOK(fs, t) /\ EntriesStay(fs, t)
  <2>1. CASE at.ops = "ramfs" /\ fs_rmdir_allowed(fs, at.path)
    <3>1. t = Unlink(fs, n)
      BY <2>1 DEF vfs_rmdir
    <3>2. at.path # << >> /\ n # NULL /\ fs.node[n].children = << >>
      BY <2>1 DEF fs_rmdir_allowed, IsDirectory
    <3> HIDE DEF t
    <3>3. QED
      BY <1>3, <3>1, <3>2, UnlinkedStep
  <2>2. CASE ~(at.ops = "ramfs" /\ fs_rmdir_allowed(fs, at.path))
    <3>1. t = fs
      BY <2>2 DEF vfs_rmdir
    <3>2. QED
      BY <3>1, Staying
  <2>3. QED
    BY <2>1, <2>2
<1>6. Call(c, t, AtRest)
  BY <1>1
<1> HIDE DEF t
<1>7. QED
  BY <1>4, <1>5, <1>6, PromptStep

\* vfs_remove, whoever calls it.
LEMMA RemovedStep ==
  ASSUME FInv, NEW path \in Seq(Text), NEW t, t = vfs_remove(fs, path)
  PROVE  StepOK(fs, t) /\ EntriesStay(fs, t)
<1> DEFINE at == vfs_resolve_path(fs, path)
           n == fs_find_by_path(fs, at.path)
<1>1. fs \in FsState /\ Tree(fs)
  BY DEF FInv, Good
<1>2. at.path \in Seq(Text)
  BY <1>1, ResolvePath
<1>3. CASE at.ops = "ramfs" /\ fs_remove_allowed(fs, at.path)
  <2>1. t = Unlink(fs, n) /\ n # NULL /\ fs.node[n].type = FS_FILE
    BY <1>3 DEF vfs_remove, fs_remove_allowed, IsFile
  <2>2. n \in fs.allocated
    BY <1>1, <1>2, <2>1, FindInTree
  <2>3. fs.node[n].children = << >>
    BY <1>1, <2>1, <2>2 DEF Tree
  <2>4. at.path # << >>
    <3>1. FS_FILE # FS_DIRECTORY
      BY DEF FS_FILE, FS_DIRECTORY
    <3>2. n # Root
      BY <1>1, <2>1, <3>1 DEF Tree
    <3>3. QED
      BY <3>2, FindRoot
  <2>5. QED
    BY <1>2, <2>1, <2>3, <2>4, UnlinkedStep
<1>4. CASE ~(at.ops = "ramfs" /\ fs_remove_allowed(fs, at.path))
  <2>1. t = fs
    BY <1>4 DEF vfs_remove
  <2>2. QED
    BY <2>1, Staying
<1>5. QED
  BY <1>3, <1>4

LEMMA RemoveInv ==
  ASSUME FInv, call_remove
  PROVE  FInv'
<1> DEFINE c == "shell"
<1>1. PICK r \in Asked(c, {"rm"}) : Call(c, vfs_remove(fs, r.path), AtRest)
  BY DEF call_remove
<1>2. c \in Client /\ {"rm"} \in SUBSET PathCalls
  BY DEF Client, PathCalls, FirstCalls
<1>3. Requested(c, r)
  BY <1>2, AskedIs
<1>4. Ready(c) /\ r.path \in Seq(Text)
  BY <1>3 DEF Requested
<1> DEFINE t == vfs_remove(fs, r.path)
<1>5. StepOK(fs, t) /\ EntriesStay(fs, t)
  BY <1>4, RemovedStep
<1>6. Call(c, t, AtRest)
  BY <1>1
<1> HIDE DEF t
<1>7. QED
  BY <1>4, <1>5, <1>6, PromptStep

LEMMA IdleIsReady ==
  ASSUME FInv, Calling("shell", {"idle"})
  PROVE  Ready("shell")
<1>1. ClientOK(fs, client["shell"]) /\ client["shell"].pc = "idle"
  BY DEF FInv, ClientsOK, Client, Calling
<1>2. client["shell"].pc \notin FileCalls
  BY <1>1, Kinds
<1>3. QED
  BY <1>1, <1>2 DEF ClientOK, Ready

LEMMA MountInv ==
  ASSUME FInv, call_mount
  PROVE  FInv'
<1>1. Ready("shell") /\ Good(fs)
  BY IdleIsReady DEF call_mount, FInv
<1>2. PICK t \in fat32_vfs_mount(fs) : Call("shell", t, AtRest)
  BY DEF call_mount
<1>3. StepOK(fs, t) /\ t.open_files = fs.open_files
  BY <1>1, MountStep
<1>4. QED
  BY <1>1, <1>2, <1>3, StayingEntries, PromptStep

LEMMA UnmountInv ==
  ASSUME FInv, call_unmount
  PROVE  FInv'
<1>1. Ready("shell") /\ Good(fs)
  BY IdleIsReady DEF call_unmount, FInv
<1>2. PICK point \in {<< >>, MNT_FAT32} : Call("shell", vfs_unmount(fs, point), AtRest)
  BY DEF call_unmount
<1> DEFINE t == vfs_unmount(fs, point)
<1>3. StepOK(fs, t)
      /\ \A h \in Handle : t.open_files[h] = fs.open_files[h] \/ t.open_files[h] = ClosedEntry
  BY <1>1, UnmountStep
<1>4. ClosedEntry.in_use = FALSE
  BY DEF ClosedEntry
<1>5. Call("shell", t, AtRest)
  BY <1>2
<1> HIDE DEF t
<1>6. EntriesStay(fs, t)
  BY <1>3, <1>4 DEF EntriesStay
<1>7. QED
  BY <1>1, <1>3, <1>5, <1>6, PromptStep
\* A client that holds no file and goes on without one.
LEMMA FreeStep ==
  ASSUME FInv, NEW c \in Client, Ready(c), NEW t, StepOK(fs, t), EntriesStay(fs, t),
         NEW mine \in ClientState, mine.pc \notin FileCalls, ~mine.file.in_use,
         Call(c, t, mine), Yields(client, c, mine, t)
  PROVE  FInv'
<1>1. Good(fs) /\ ClientsOK(fs, client)
  BY DEF FInv
<1>2. ClientOK(t, mine)
  BY DEF ClientOK
<1>3. SameFile(client[c].file, mine.file)
  BY DEF SameFile, Ready
<1>4. fs' = t /\ client' = After(client, c, mine, fs, t) /\ wild' = FALSE
  BY CallIs
<1>5. Good(t) /\ ClientsOK(t, client')
  BY <1>1, <1>2, <1>3, <1>4, QuietStep
<1>6. QED
  BY <1>4, <1>5 DEF FInv

StartsToSave(me, pc) == [me EXCEPT !.pc = pc, !.alone = TRUE]

LEMMA StartsToSaveIs ==
  ASSUME NEW me \in ClientState, NEW pc \in Pc, NEW you, you = StartsToSave(me, pc)
  PROVE  you \in ClientState /\ you.pc = pc /\ you.file = me.file
<1> DEFINE yes == TRUE
<1>1. you = [me EXCEPT !.pc = pc, !.alone = yes]
  BY DEF StartsToSave
<1>2. yes \in BOOLEAN
  OBVIOUS
<1> HIDE DEF yes
<1>3. you = State(pc, me.path, me.file, yes)
  BY <1>1 DEF State, ClientState
<1>4. me.path \in Seq(Text) /\ me.file \in OpenFile
  BY ClientFields
<1>5. QED
  BY <1>2, <1>3, <1>4, StateIs

LEMMA EditorExitInv ==
  ASSUME FInv, NEW save \in BOOLEAN, editor_exit(save)
  PROVE  FInv'
<1> DEFINE c == "editor"
           old == client["editor"]
           pc == "save_remove"
<1>1. old \in ClientState /\ ClientOK(fs, old) /\ old.pc = "editing" /\ c \in Client /\ c # "shell"
  BY DEF FInv, ClientsOK, Client, editor_exit, Calling
<1>2. old.pc \notin FileCalls /\ old.pc \notin {"idle", "saved"}
  BY <1>1 DEF FileCalls
<1>3. ~old.file.in_use
  BY <1>1, <1>2 DEF ClientOK
<1>4. Ready(c)
  BY <1>2, <1>3 DEF Ready
<1>5. pc \in Pc /\ pc \notin FileCalls
      /\ pc \notin {"save_create", "save_open", "save_seek", "save_write", "save_close", "saved"}
  BY DEF Pc, PathCalls, FileCalls
<1> DEFINE busy == StartsToSave(old, pc)
<1>6. PICK mine \in {busy, AtRest} : Call(c, fs, mine)
  <2>1. Call(c, fs, IF save THEN busy ELSE AtRest)
    BY DEF editor_exit, StartsToSave, FirstCallOfSave
  <2>2. QED
    BY <2>1
<1> HIDE DEF pc, old
<1>7. busy \in ClientState /\ busy.pc = pc /\ busy.file = old.file
  BY <1>1, <1>5, StartsToSaveIs
<1> HIDE DEF busy
<1>8. /\ mine \in ClientState /\ mine.pc \notin FileCalls /\ ~mine.file.in_use
      /\ mine.pc \notin {"save_create", "save_open", "save_seek", "save_write", "save_close", "saved"}
  <2>1. CASE mine = busy
    BY <1>3, <1>5, <1>7, <2>1
  <2>2. CASE mine = AtRest
    BY <2>2, AtRestIs, ClosedFileIs, Kinds
  <2>3. QED
    BY <2>1, <2>2
<1>9. Saving(fs, mine)
  BY <1>8, NotSaving
<1>10. Yields(client, c, mine, fs)
  BY <1>1, <1>2, <1>9 DEF Yields, old
<1>11. QED
  BY <1>1, <1>4, <1>6, <1>8, <1>10, Staying, FreeStep

\* Paths are resolved alike while the mounts stay.
LEMMA ResolveSame ==
  ASSUME NEW s, NEW t, t.mounts = s.mounts, NEW path
  PROVE  vfs_resolve_path(t, path) = vfs_resolve_path(s, path)
BY DEF vfs_resolve_path, vfs_find_mount

\* A file with something in it that is found after a change of the tree was found
\* before it.
LEMMA FoundBefore ==
  ASSUME NEW s, Good(s), NEW t, Good(t), KeepsDirectories(s, t),
         NEW path \in Seq(Text), path # << >>,
         IsDirectory(s, fs_find_by_path(s, ParentPath(path))),
         NEW n, n = fs_find_by_path(t, path), n # NULL, n \in s.allocated,
         t.node[n].parent = s.node[n].parent, t.node[n].name = s.node[n].name,
         s.node[n].data # << >>
  PROVE  fs_find_by_path(s, path) = n
<1>1. s \in FsState /\ Tree(s) /\ HiddenAreEmpty(s) /\ t \in FsState /\ Tree(t)
  BY DEF Good
<1> DEFINE above == ParentPath(path)
           name == NameOf(path)
           d == fs_find_by_path(s, above)
           e == fs_find_by_path(t, above)
<1>2. above \in Seq(Text) /\ name \in Text /\ path = Append(above, name)
  BY PathParts
<1>3. t.node[n].parent = e /\ t.node[n].name = name
  BY <1>1, FindInTree
<1>4. e = d
  BY <1>1, <1>2, DirectoriesKept
<1>5. FirstOfName(s, n)
  BY <1>1 DEF HiddenAreEmpty
<1>6. fs_find_child(s, s.node[n].parent, s.node[n].name) = n
  BY <1>1, <1>5, FirstIsFound
<1>7. fs_find_child(s, d, name) = n
  BY <1>3, <1>4, <1>6
<1> HIDE DEF above, name
<1>8. fs_find_by_path(s, Append(above, name)) = fs_find_child(s, d, name)
  BY <1>2, FindLast
<1>9. QED
  BY <1>2, <1>7, <1>8

\* What a new name leads to is empty, if what it led to before was.
LEMMA CreatedIsEmpty ==
  ASSUME NEW s, Good(s), NEW path \in Seq(Text), NameOf(path) \notin {".", ".."},
         IsDirectory(s, fs_find_by_path(s, ParentPath(path))), NEW id \in FreeNodes(s),
         NEW t, t = AddNode(s, path, id, FS_FILE),
         NEW m, m = fs_find_by_path(s, path), m = NULL \/ s.node[m].data = << >>,
         NEW n, n = fs_find_by_path(t, path), n # NULL
  PROVE  t.node[n].data = << >>
<1>1. FS_FILE \in {FS_FILE, FS_DIRECTORY}
  OBVIOUS
<1>2. /\ StepOK(s, t) /\ KeepsDirectories(s, t)
      /\ t.allocated = s.allocated \cup {id} /\ t.node[id].data = << >>
      /\ \A k \in s.allocated : t.node[k].data = s.node[k].data /\ t.node[k].name = s.node[k].name
                                /\ t.node[k].parent = s.node[k].parent
  BY <1>1, AddStep
<1>3. Good(t) /\ t \in FsState /\ Tree(t) /\ Tree(s)
  BY <1>2 DEF StepOK, Good
<1>4. n \in t.allocated
  BY <1>3, FindInTree
<1>5. CASE n = id
  BY <1>2, <1>5
<1>6. CASE n # id
  <2>1. n \in s.allocated
    BY <1>2, <1>4, <1>6
  <2>2. CASE path = << >>
    <3>1. m = Root /\ n = Root /\ Root \in s.allocated
      BY <1>3, <2>2, FindRoot DEF Tree
    <3>2. Root # NULL
      BY FileSystemAssumption DEF NULL
    <3>3. QED
      BY <1>2, <3>1, <3>2
  <2>3. CASE path # << >>
    <3> SUFFICES ASSUME s.node[n].data # << >> PROVE FALSE
      BY <1>2, <2>1
    <3>1. m = n
      BY <1>2, <1>3, <2>1, <2>3, FoundBefore
    <3>2. QED
      BY <3>1
  <2>4. QED
    BY <2>2, <2>3
<1>7. QED
  BY <1>5, <1>6

\* So is what a name leads to after the file it led to was removed.
LEMMA RemovedIsEmpty ==
  ASSUME NEW s, Good(s), NEW path \in Seq(Text), path # << >>,
         NEW m, m = fs_find_by_path(s, path), m # NULL, s.node[m].type = FS_FILE,
         s.node[m].children = << >>,
         NEW t, t = Unlink(s, m), NEW n, n = fs_find_by_path(t, path), n # NULL
  PROVE  t.node[n].data = << >>
<1>1. /\ StepOK(s, t) /\ KeepsDirectories(s, t) /\ t.allocated = s.allocated \ {m}
      /\ \A k \in t.allocated : t.node[k].data = s.node[k].data /\ t.node[k].name = s.node[k].name
                                /\ t.node[k].parent = s.node[k].parent
  BY RemoveStep
<1>2. Good(t) /\ t \in FsState /\ Tree(t) /\ s \in FsState /\ Tree(s)
  BY <1>1 DEF StepOK, Good
<1>3. n \in t.allocated /\ n \in s.allocated /\ n # m
  BY <1>1, <1>2, FindInTree
<1>4. IsDirectory(s, fs_find_by_path(s, ParentPath(path)))
  <2> DEFINE d == fs_find_by_path(s, ParentPath(path))
  <2>1. d \in s.allocated /\ s.node[d].type = FS_DIRECTORY
    BY <1>2, FindInTree
  <2>2. d # NULL
    BY <1>2, <2>1, StateFields, Slots
  <2>3. QED
    BY <2>1, <2>2 DEF IsDirectory
<1> SUFFICES ASSUME s.node[n].data # << >> PROVE FALSE
  BY <1>1, <1>3
<1>5. fs_find_by_path(s, path) = n
  BY <1>1, <1>2, <1>3, <1>4, FoundBefore
<1>6. QED
  BY <1>3, <1>5
\* Nothing but emptiness is asked of a save before the file is open.
LEMMA EmptyToSave ==
  ASSUME NEW t, NEW me, me.pc \in {"save_create", "save_open"},
         NEW at, at = vfs_resolve_path(t, me.path), NEW n, n = fs_find_by_path(t, at.path),
         me.alone /\ at.ops = "ramfs" => n = NULL \/ t.node[n].data = << >>
  PROVE  Saving(t, me)
BY DEF Saving

LEMMA CreateToSave ==
  ASSUME NEW s, Good(s), NEW path \in Seq(Text), ~NeverReturns(path), NEW t \in vfs_create(s, path),
         NEW me, Saving(s, me), me.pc = "save_create", me.path = path,
         NEW you, you.pc = "save_open", you.path = path, you.alone = me.alone
  PROVE  Saving(t, you)
<1> DEFINE at == vfs_resolve_path(s, path)
           m == fs_find_by_path(s, at.path)
           n == fs_find_by_path(t, at.path)
<1>1. s \in FsState
  BY DEF Good
<1>2. at.path \in Seq(Text) /\ NameOf(at.path) \notin {".", ".."}
  BY <1>1, ResolvePath
<1>3. me.alone /\ at.ops = "ramfs" => m = NULL \/ s.node[m].data = << >>
  BY DEF Saving
<1>4. \/ t = s
      \/ HasParent(s, at) /\ \E id \in FreeNodes(s) : t = AddNode(s, at.path, id, FS_FILE)
  BY DEF vfs_create
<1>5. CASE t = s
  <2>1. you.alone /\ at.ops = "ramfs" => n = NULL \/ t.node[n].data = << >>
    BY <1>3, <1>5
  <2>2. at = vfs_resolve_path(t, you.path)
    BY <1>5
  <2> HIDE DEF at, n
  <2>3. n = fs_find_by_path(t, at.path)
    BY DEF n
  <2>4. QED
    BY <2>1, <2>2, <2>3, EmptyToSave
<1>6. CASE HasParent(s, at) /\ \E id \in FreeNodes(s) : t = AddNode(s, at.path, id, FS_FILE)
  <2>1. PICK id \in FreeNodes(s) : t = AddNode(s, at.path, id, FS_FILE)
    BY <1>6
  <2>2. IsDirectory(s, fs_find_by_path(s, ParentPath(at.path)))
    BY <1>6 DEF HasParent
  <2>3. SameTables(s, t)
    <3>1. FS_FILE \in {FS_FILE, FS_DIRECTORY}
      OBVIOUS
    <3>2. QED
      BY <1>2, <2>1, <2>2, <3>1, AddStep
  <2>4. vfs_resolve_path(t, path) = at
    BY <2>3, ResolveSame DEF SameTables
  <2>5. ASSUME you.alone, at.ops = "ramfs", n # NULL PROVE t.node[n].data = << >>
    <3>1. m = NULL \/ s.node[m].data = << >>
      BY <1>3, <2>5
    <3> HIDE DEF at
    <3>2. QED
      BY <1>2, <2>1, <2>2, <2>5, <3>1, CreatedIsEmpty
  <2> HIDE DEF at, n
  <2>6. n = fs_find_by_path(t, at.path)
    BY DEF n
  <2>7. QED
    BY <2>4, <2>5, <2>6, EmptyToSave
<1>7. QED
  BY <1>4, <1>5, <1>6

LEMMA RemoveToSave ==
  ASSUME NEW s, Good(s), NEW path \in Seq(Text), NEW t, t = vfs_remove(s, path),
         NEW answer \in RemoveResults(s, path), answer # VFS_ERROR,
         NEW you, you.pc = "save_create", you.path = path
  PROVE  Saving(t, you)
<1> DEFINE at == vfs_resolve_path(s, path)
           m == fs_find_by_path(s, at.path)
           n == fs_find_by_path(t, at.path)
<1>1. s \in FsState /\ Tree(s)
  BY DEF Good
<1>2. at.path \in Seq(Text)
  BY <1>1, ResolvePath
<1>3. CASE at.ops = "ramfs"
  <2>1. fs_remove_allowed(s, at.path)
    BY <1>3 DEF RemoveResults
  <2>2. t = Unlink(s, m) /\ m # NULL /\ s.node[m].type = FS_FILE
    BY <1>3, <2>1 DEF vfs_remove, fs_remove_allowed, IsFile
  <2>3. m \in s.allocated
    BY <1>1, <1>2, <2>2, FindInTree
  <2>4. s.node[m].children = << >>
    BY <1>1, <2>2, <2>3 DEF Tree
  <2>5. at.path # << >>
    <3>1. FS_FILE # FS_DIRECTORY
      BY DEF FS_FILE, FS_DIRECTORY
    <3>2. m # Root
      BY <1>1, <2>2, <3>1 DEF Tree
    <3>3. QED
      BY <3>2, FindRoot
  <2>6. SameTables(s, t)
    BY <1>2, <2>2, <2>4, <2>5, RemoveStep
  <2>7. vfs_resolve_path(t, path) = at
    BY <2>6, ResolveSame DEF SameTables
  <2>8. n # NULL => t.node[n].data = << >>
    <3> HIDE DEF at
    <3>1. QED
      BY <1>2, <2>2, <2>4, <2>5, RemovedIsEmpty
  <2> HIDE DEF at, n
  <2>9. n = fs_find_by_path(t, at.path)
    BY DEF n
  <2>10. QED
    BY <2>7, <2>8, <2>9, EmptyToSave
<1>4. CASE at.ops # "ramfs"
  <2>1. t = s
    BY <1>4 DEF vfs_remove
  <2>2. vfs_resolve_path(t, you.path).ops # "ramfs"
    BY <1>4, <2>1
  <2>3. QED
    BY <2>2 DEF Saving
<1>5. QED
  BY <1>3, <1>4

LEMMA CreateCalls ==
  /\ DOMAIN AfterCreate \in SUBSET PathCalls
  /\ \A call \in DOMAIN AfterCreate :
         /\ AfterCreate[call] \in Pc /\ AfterCreate[call] \notin FileCalls
         /\ AfterCreate[call] # "edit_stat" /\ AfterCreate[call] # "edit_parent"
         /\ IF call = "save_create" THEN AfterCreate[call] = "save_open"
            ELSE AfterCreate[call] \notin {"save_create", "save_open", "save_seek", "save_write",
                                           "save_close", "saved"}
<1>1. DOMAIN AfterCreate = {"touch", "echo_create", "load_create", "save_create"}
  BY DEF AfterCreate
<1>2. /\ AfterCreate["touch"] = "idle" /\ AfterCreate["echo_create"] = "echo_open"
      /\ AfterCreate["load_create"] = "editing" /\ AfterCreate["save_create"] = "save_open"
  BY DEF AfterCreate
<1>3. DOMAIN AfterCreate \in SUBSET PathCalls
  BY <1>1 DEF PathCalls, FirstCalls
<1>4. \A call \in DOMAIN AfterCreate :
          AfterCreate[call] \in {"idle", "echo_open", "editing", "save_open"}
  BY <1>1, <1>2
<1>5. \A call \in DOMAIN AfterCreate :
         IF call = "save_create" THEN AfterCreate[call] = "save_open"
         ELSE AfterCreate[call] \in {"idle", "echo_open", "editing"}
  BY <1>1, <1>2
<1>6. \A pc \in {"idle", "echo_open", "editing", "save_open"} :
          pc \in Pc /\ pc \notin FileCalls /\ pc # "edit_stat" /\ pc # "edit_parent"
  BY DEF Pc, PathCalls, FileCalls, Resting
<1>7. \A pc \in {"idle", "echo_open", "editing"} :
          pc \notin {"save_create", "save_open", "save_seek", "save_write", "save_close", "saved"}
  OBVIOUS
<1>8. QED
  BY <1>3, <1>4, <1>5, <1>6, <1>7

LEMMA CreateInv ==
  ASSUME FInv, NEW c \in Client, call_create(c)
  PROVE  FInv'
<1>1. PICK r \in Asked(c, DOMAIN AfterCreate) :
          \E t \in vfs_create(fs, r.path) : Call(c, t, Enter(c, AfterCreate[r.call], r.path))
  BY DEF call_create
<1>2. PICK t \in vfs_create(fs, r.path) : Call(c, t, Enter(c, AfterCreate[r.call], r.path))
  BY <1>1
<1> DEFINE pc == AfterCreate[r.call]
           path == r.path
           at == vfs_resolve_path(fs, path)
           mine == Enter(c, pc, path)
<1>3. Requested(c, r) /\ r.call \in DOMAIN AfterCreate /\ ~NeverReturns(path)
  BY CreateCalls, AskedIs
<1>4. Ready(c) /\ path \in Seq(Text)
  BY <1>3 DEF Requested
<1>5. /\ pc \in Pc /\ pc \notin FileCalls /\ pc # "edit_stat" /\ pc # "edit_parent"
      /\ IF r.call = "save_create" THEN pc = "save_open"
         ELSE pc \notin {"save_create", "save_open", "save_seek", "save_write",
                         "save_close", "saved"}
  BY <1>3, CreateCalls
<1>6. StepOK(fs, t) /\ EntriesStay(fs, t)
  <2>1. CASE t = fs
    BY <2>1, Staying
  <2>2. CASE t # fs
    <3>1. HasParent(fs, at) /\ \E id \in FreeNodes(fs) : t = AddNode(fs, at.path, id, FS_FILE)
      BY <2>2 DEF vfs_create
    <3>2. PICK id \in FreeNodes(fs) : t = AddNode(fs, at.path, id, FS_FILE)
      BY <3>1
    <3>3. QED
      BY <1>3, <1>4, <3>1, <3>2, AddedStep
  <2>3. QED
    BY <2>1, <2>2
<1>7. client \in [Client -> ClientState] /\ Good(fs) /\ Saving(fs, client["editor"])
  BY DEF FInv, ClientsOK
<1>8. /\ mine.pc = pc
      /\ pc # "idle" => mine.alone = client[c].alone
      /\ c = "editor" /\ pc # "idle" => mine.path = path
  <2> HIDE DEF pc, path
  <2>1. QED
    BY <1>4, <1>5, <1>7, EnterIs
<1>9. Call(c, t, mine)
  BY <1>2
<1> HIDE DEF mine, pc
<1>10. ASSUME c = "editor" PROVE Saving(t, mine)
  <2>1. CASE r.call = "save_create"
    <3>1. client["editor"].pc = "save_create" /\ client["editor"].path = path
      BY <1>3, <1>10, <2>1 DEF Requested
    <3>2. mine.pc = "save_open" /\ mine.path = path /\ mine.alone = client["editor"].alone
      BY <1>5, <1>8, <1>10, <2>1
    <3>3. QED
      BY <1>3, <1>4, <1>7, <3>1, <3>2, CreateToSave
  <2>2. CASE r.call # "save_create"
    BY <1>5, <1>8, <2>2, NotSaving
  <2>3. QED
    BY <2>1, <2>2
<1>11. mine = Enter(c, pc, path)
  BY DEF mine
<1> HIDE DEF path
<1>12. QED
  BY <1>4, <1>5, <1>6, <1>9, <1>10, <1>11, PathStep

LEMMA RemoveToSaveInv ==
  ASSUME FInv, call_remove_to_save
  PROVE  FInv'
<1> DEFINE c == "editor"
<1>1. PICK r \in Asked(c, {"save_remove"}) : \E answer \in RemoveResults(fs, r.path) :
          Call(c, vfs_remove(fs, r.path),
               Enter(c, IF answer = VFS_ERROR THEN "idle" ELSE "save_create", r.path))
  BY DEF call_remove_to_save
<1> DEFINE path == r.path
           t == vfs_remove(fs, path)
<1>2. PICK answer \in RemoveResults(fs, path) :
          Call(c, t, Enter(c, IF answer = VFS_ERROR THEN "idle" ELSE "save_create", path))
  BY <1>1
<1> DEFINE pc == IF answer = VFS_ERROR THEN "idle" ELSE "save_create"
           mine == Enter(c, pc, path)
<1>3. c \in Client /\ c # "shell" /\ {"save_remove"} \in SUBSET PathCalls
  BY DEF Client, PathCalls
<1>4. Requested(c, r)
  BY <1>3, AskedIs
<1>5. Ready(c) /\ path \in Seq(Text)
  BY <1>4 DEF Requested
<1>6. pc \in Pc /\ pc \notin FileCalls
  BY DEF Pc, PathCalls, FileCalls, Resting
<1>7. StepOK(fs, t) /\ EntriesStay(fs, t)
  BY <1>5, RemovedStep
<1>8. client \in [Client -> ClientState] /\ Good(fs)
  BY DEF FInv, ClientsOK
<1>9. mine.pc = pc /\ (pc # "idle" => mine.path = path)
  <2> HIDE DEF pc, path
  <2>1. c = "editor"
    OBVIOUS
  <2> HIDE DEF c
  <2>2. QED
    BY <1>3, <1>5, <1>6, <1>8, <2>1, EnterIs
<1>10. Call(c, t, mine)
  BY <1>2
<1> HIDE DEF mine
<1>11. Saving(t, mine)
  <2>1. CASE answer = VFS_ERROR
    BY <1>9, <2>1, NotSaving
  <2>2. CASE answer # VFS_ERROR
    <3>1. mine.pc = "save_create" /\ mine.path = path
      BY <1>9, <2>2
    <3> HIDE DEF path
    <3>2. QED
      BY <1>5, <1>8, <2>2, <3>1, RemoveToSave
  <2>3. QED
    BY <2>1, <2>2
<1>12. mine = Enter(c, pc, path)
  BY DEF mine
<1> HIDE DEF c, pc, path, t
<1>13. QED
  BY <1>3, <1>5, <1>6, <1>7, <1>10, <1>11, <1>12, PathStep
-----------------------------------------------------------------------------
(* Opening a file                                                          *)

\* The client takes the new entry; it owned none before.
LEMMA OpenOwned ==
  ASSUME NEW s, NEW t, NEW cl, NEW new, Owned(s, cl), NEW c \in Client, ~cl[c].file.in_use,
         \A d \in Client \ {c} : SameFile(cl[d].file, new[d].file),
         NEW g \in Handle, IsEntryOf(t, g, new[c].file.fs_handle, new[c].file.mount),
         new[c].file.in_use, \A h \in Handle \ {g} : t.open_files[h] = s.open_files[h]
  PROVE  Owned(t, new)
<1>1. PICK old \in [Handle -> Client] : Owns(s, cl, old)
  BY DEF Owned
<1> DEFINE owner == [old EXCEPT ![g] = c]
<1>2. owner \in [Handle -> Client] /\ owner[g] = c /\ \A h \in Handle \ {g} : owner[h] = old[h]
  OBVIOUS
<1> HIDE DEF owner
<1>3. ASSUME NEW h \in Handle \ {g}, t.open_files[h].in_use
      PROVE  /\ s.open_files[h].in_use /\ old[h] \in Client \ {c}
             /\ cl[old[h]].file.in_use
             /\ cl[old[h]].file.fs_handle = t.open_files[h].fs_handle
             /\ cl[old[h]].file.mount = t.open_files[h].mount
  BY <1>1, <1>3 DEF Owns
<1>4. ASSUME NEW h \in Handle, t.open_files[h].in_use
      PROVE  /\ new[owner[h]].file.in_use
             /\ new[owner[h]].file.fs_handle = t.open_files[h].fs_handle
             /\ new[owner[h]].file.mount = t.open_files[h].mount
  <2>1. CASE h = g
    BY <1>2, <2>1 DEF IsEntryOf
  <2>2. CASE h # g
    BY <1>2, <1>3, <1>4, <2>2 DEF SameFile
  <2>3. QED
    BY <2>1, <2>2
<1>5. ASSUME NEW k \in Handle, NEW h \in Handle, t.open_files[k].in_use, t.open_files[h].in_use,
             owner[k] = owner[h]
      PROVE  k = h
  <2>1. CASE h = g \/ k = g
    BY <1>2, <1>3, <1>5, <2>1
  <2>2. CASE h # g /\ k # g
    <3>1. old[k] = old[h] /\ s.open_files[k].in_use /\ s.open_files[h].in_use
      BY <1>2, <1>3, <1>5, <2>2
    <3>2. QED
      BY <1>1, <3>1 DEF Owns
  <2>3. QED
    BY <2>1, <2>2
<1>6. Owns(t, new, owner)
  BY <1>4, <1>5 DEF Owns
<1>7. QED
  BY <1>2, <1>6 DEF Owned

Takes(me, file) == [me EXCEPT !.file = file]

LEMMA TakesIs ==
  ASSUME NEW me \in ClientState, NEW file \in OpenFile, NEW you, you = Takes(me, file)
  PROVE  /\ you \in ClientState /\ you.pc = me.pc /\ you.path = me.path
         /\ you.file = file /\ you.alone = me.alone
<1>1. you = State(me.pc, me.path, file, me.alone)
  BY DEF Takes, State, ClientState
<1>2. me.pc \in Pc /\ me.path \in Seq(Text) /\ me.alone \in BOOLEAN
  BY ClientFields
<1>3. QED
  BY <1>1, <1>2, StateIs

LEMMA OpenCalls ==
  /\ DOMAIN AfterOpen \in SUBSET PathCalls
  /\ \A call \in DOMAIN AfterOpen :
         /\ AfterOpen[call].opened \in FileCalls
         /\ AfterOpen[call].opened \in {"save_seek", "save_write", "save_close"} =>
                call = "save_open" /\ AfterOpen[call].opened = "save_seek"
         /\ AfterOpen[call].not_found \in {"idle", "load_create"}
         /\ AfterOpen[call].failed \in {"idle", "editing"}
<1>1. DOMAIN AfterOpen = {"cat_open", "echo_open", "load_open", "save_open"}
  BY DEF AfterOpen
<1>2. DOMAIN AfterOpen \in SUBSET PathCalls
  BY <1>1 DEF PathCalls, FirstCalls
<1>3. /\ AfterOpen["cat_open"].opened = "cat_read" /\ AfterOpen["echo_open"].opened = "echo_text"
      /\ AfterOpen["load_open"].opened = "load_read" /\ AfterOpen["save_open"].opened = "save_seek"
  BY DEF AfterOpen
<1>4. \A call \in DOMAIN AfterOpen : AfterOpen[call].opened \in FileCalls
  BY <1>1, <1>3 DEF FileCalls
<1>5. \A call \in DOMAIN AfterOpen :
          AfterOpen[call].opened \in {"save_seek", "save_write", "save_close"} =>
              call = "save_open" /\ AfterOpen[call].opened = "save_seek"
  BY <1>1, <1>3
<1>6. \A call \in DOMAIN AfterOpen : /\ AfterOpen[call].not_found \in {"idle", "load_create"}
                                     /\ AfterOpen[call].failed \in {"idle", "editing"}
  <2>1. /\ AfterOpen["cat_open"].not_found = "idle" /\ AfterOpen["echo_open"].not_found = "idle"
        /\ AfterOpen["load_open"].not_found = "load_create"
        /\ AfterOpen["save_open"].not_found = "idle"
    BY DEF AfterOpen
  <2>2. /\ AfterOpen["cat_open"].failed = "idle" /\ AfterOpen["echo_open"].failed = "idle"
        /\ AfterOpen["load_open"].failed = "editing" /\ AfterOpen["save_open"].failed = "idle"
    BY DEF AfterOpen
  <2>3. QED
    BY <1>1, <2>1, <2>2
<1>7. QED
  BY <1>2, <1>4, <1>5, <1>6

\* What the file that was opened is for the client.
LEMMA OpenedOK ==
  ASSUME NEW s, Good(s), NEW t, StepOK(s, t), t.mounts = s.mounts, t.allocated = s.allocated,
         NEW path \in Seq(Text), NEW m \in Slot, NEW handle,
         s.mounts[m].ops = "ramfs" => /\ handle = fs_find_by_path(s, path) /\ handle \in s.allocated
                                      /\ s.node[handle].type = FS_FILE,
         NEW me \in ClientState, me.pc \in FileCalls, me.file = OpenedFile(handle, m),
         me.file.in_use, me.file.fs_handle = handle, me.file.mount = m, me.file.position = 0
  PROVE  ClientOK(t, me)
<1>1. s \in FsState /\ Tree(s) /\ t \in FsState
  BY DEF StepOK, Good
<1>2. ASSUME t.mounts[m].ops = "ramfs"
      PROVE  /\ handle \in NodeId /\ handle \in t.allocated /\ t.node[handle].type = FS_FILE
             /\ FirstOfName(t, handle) /\ 0 <= Len(t.node[handle].data)
  <2>1. handle = fs_find_by_path(s, path) /\ handle \in s.allocated /\ s.node[handle].type = FS_FILE
    BY <1>2
  <2>2. handle \in NodeId /\ handle # NULL
    BY <1>1, <2>1, StateFields, Slots
  <2>3. path # << >>
    <3>1. FS_FILE # FS_DIRECTORY
      BY DEF FS_FILE, FS_DIRECTORY
    <3>2. handle # Root
      BY <1>1, <2>1, <3>1 DEF Tree
    <3>3. QED
      BY <2>1, <3>2, FindRoot
  <2>4. FirstOfName(s, handle)
    BY <1>1, <2>1, <2>2, <2>3, FindInTree
  <2>5. t.node[handle].type = FS_FILE /\ FirstOfName(t, handle) /\ handle \in t.allocated
    BY <2>1, <2>4 DEF StepOK
  <2> DEFINE z == t.node[handle].data
  <2>6. z \in Seq(Text)
    BY <1>1, <2>2, NodeFields
  <2> HIDE DEF z
  <2>7. 0 <= Len(z)
    BY <2>6
  <2>8. QED
    BY <2>2, <2>5, <2>7 DEF z
<1>3. QED
  BY <1>2 DEF ClientOK

\* The editor has just opened what it will save to.
HasOpened(old, me, path, handle, mount) ==
    /\ old.pc = "save_open" /\ old.path = path
    /\ me.pc = "save_seek" /\ me.path = path /\ (me.alone => old.alone)
    /\ me.file.fs_handle = handle /\ me.file.mount = mount
    /\ me.file.position = 0 /\ ~me.file.dangling

OpensAt(s, t, at, handle) ==
    /\ KeepsLookups(s, t) /\ t.node = s.node /\ t.mounts = s.mounts
    /\ at.ops = "ramfs" => handle = fs_find_by_path(s, at.path) /\ handle # NULL

\* A save has an empty file open.
LEMMA OpenToSave ==
  ASSUME NEW s, Good(s), NEW t, NEW path \in Seq(Text), NEW at, at = vfs_resolve_path(s, path),
         NEW handle, OpensAt(s, t, at, handle),
         NEW old, Saving(s, old), NEW me, HasOpened(old, me, path, handle, at.mount)
  PROVE  Saving(t, me)
<1>1. s \in FsState /\ Tree(s)
  BY DEF Good
<1>2. at.path \in Seq(Text)
  BY <1>1, ResolvePath
<1>3. vfs_resolve_path(t, me.path) = at
  BY ResolveSame DEF HasOpened, OpensAt
<1>4. fs_find_by_path(t, at.path) = fs_find_by_path(s, at.path)
  BY <1>1, <1>2, LookupsKept DEF OpensAt
<1>5. ASSUME me.alone, at.ops = "ramfs" PROVE s.node[handle].data = << >>
  BY <1>5 DEF Saving, HasOpened, OpensAt
<1>6. QED
  BY <1>3, <1>4, <1>5 DEF Saving, HasOpened, OpensAt
LEMMA OpenedInv ==
  ASSUME FInv, NEW c \in Client, NEW r, Requested(c, r), r.call \in DOMAIN AfterOpen,
         NEW pc, pc = AfterOpen[r.call].opened,
         NEW at, at = vfs_resolve_path(fs, r.path), NEW handle \in OpenHandles(fs, at),
         NEW t, t = vfs_open(fs, at, handle),
         NEW mine, mine = Takes(Enter(c, pc, r.path), OpenedFile(handle, at.mount)),
         Call(c, t, mine)
  PROVE  FInv'
<1> DEFINE path == r.path
           me == Enter(c, pc, path)
           file == OpenedFile(handle, at.mount)
<1>1. Good(fs) /\ ClientsOK(fs, client) /\ client \in [Client -> ClientState] /\ fs \in FsState
      /\ Owned(fs, client) /\ Saving(fs, client["editor"])
  BY DEF FInv, ClientsOK, Good
<1>2. path \in Seq(Text) /\ Ready(c)
  BY DEF Requested
<1>3. at.mount # NO_MOUNT /\ FreeHandles(fs) # {} /\ handle \in FsHandles(fs, at)
  BY DEF OpenHandles
<1>4. at.path \in Seq(Text) /\ at.mount \in Slot /\ fs.mounts[at.mount].mounted
      /\ at.ops = fs.mounts[at.mount].ops
  BY <1>1, <1>2, <1>3, ResolvePath
<1>5. /\ StepOK(fs, t) /\ KeepsLookups(fs, t)
      /\ t.node = fs.node /\ t.allocated = fs.allocated /\ t.mounts = fs.mounts
      /\ handle \in FsHandle
      /\ at.ops = "ramfs" => /\ handle = fs_find_by_path(fs, at.path) /\ handle \in fs.allocated
                             /\ handle # NULL /\ fs.node[handle].type = FS_FILE
      /\ \E g \in Handle :
             /\ ~fs.open_files[g].in_use
             /\ t.open_files[g] = [in_use |-> TRUE, fs_handle |-> handle, mount |-> at.mount]
             /\ \A h \in Handle \ {g} : t.open_files[h] = fs.open_files[h]
  BY <1>1, <1>3, <1>4, OpenStep
<1>6. /\ file \in OpenFile /\ file.in_use /\ file.fs_handle = handle /\ file.mount = at.mount
      /\ file.position = 0 /\ ~file.dangling
  BY <1>4, <1>5, OpenedFileIs
<1>7. pc \in FileCalls /\ (pc \in {"save_seek", "save_write", "save_close"} =>
                               r.call = "save_open" /\ pc = "save_seek")
  BY OpenCalls
<1>8. pc \in Pc /\ pc # "idle" /\ pc # "saved" /\ pc # "edit_stat" /\ pc # "edit_parent"
      /\ pc # "save_create" /\ pc # "save_open"
  BY <1>7 DEF Pc, FileCalls
<1>9. me \in ClientState /\ me.pc = pc /\ me.alone = client[c].alone /\ (c = "editor" => me.path = path)
  <2> HIDE DEF path
  <2>1. QED
    BY <1>1, <1>2, <1>8, EnterIs
<1>10. mine = Takes(me, file)
  OBVIOUS
<1>11. file = OpenedFile(handle, at.mount)
  OBVIOUS
<1> HIDE DEF me, file
<1>12. /\ mine \in ClientState /\ mine.pc = pc /\ mine.path = me.path
       /\ mine.file = file /\ mine.alone = client[c].alone
  BY <1>6, <1>9, <1>10, TakesIs
<1>13. ClientOK(t, mine)
  BY <1>1, <1>4, <1>5, <1>6, <1>7, <1>11, <1>12, OpenedOK
<1>14. ASSUME c = "editor" PROVE Saving(t, mine)
  <2>1. CASE pc = "save_seek"
    <3>1. client["editor"].pc = "save_open" /\ client["editor"].path = path
      BY <1>7, <1>14, <2>1 DEF Requested
    <3>2. mine.pc = "save_seek" /\ mine.path = path /\ mine.alone = client["editor"].alone
      BY <1>9, <1>12, <1>14, <2>1
    <3>3. mine.file.fs_handle = handle /\ mine.file.mount = at.mount /\ mine.file.position = 0
          /\ ~mine.file.dangling
      BY <1>6, <1>12
    <3>4. OpensAt(fs, t, at, handle)
      BY <1>5 DEF OpensAt
    <3>5. Good(fs) /\ Saving(fs, client["editor"]) /\ path \in Seq(Text)
          /\ at = vfs_resolve_path(fs, path)
      BY <1>1, <1>2
    <3>6. HasOpened(client["editor"], mine, path, handle, at.mount)
      BY <3>1, <3>2, <3>3 DEF HasOpened
    <3> HIDE DEF path
    <3>7. QED
      BY <3>4, <3>5, <3>6, OpenToSave
  <2>2. CASE pc # "save_seek"
    BY <1>7, <1>8, <1>12, <2>2, NotSaving
  <2>3. QED
    BY <2>1, <2>2
<1>15. Yields(client, c, mine, t)
  <2>1. c \in {"shell", "editor"}
    BY DEF Client
  <2>2. QED
    BY <1>2, <1>8, <1>12, <1>14, <2>1 DEF Yields, Ready
<1> DEFINE new == After(client, c, mine, fs, t)
<1>16. fs' = t /\ client' = new /\ wild' = FALSE
  BY CallIs
<1>17. Owned(t, new)
  <2>1. PICK g \in Handle :
            /\ t.open_files[g] = [in_use |-> TRUE, fs_handle |-> handle, mount |-> at.mount]
            /\ \A h \in Handle \ {g} : t.open_files[h] = fs.open_files[h]
    BY <1>5
  <2>2. new[c] = mine /\ \A d \in Client \ {c} : SameFile(client[d].file, new[d].file)
    BY <1>1, AfterIs
  <2> HIDE DEF new
  <2>3. new[c].file.in_use /\ new[c].file.fs_handle = handle /\ new[c].file.mount = at.mount
    BY <1>6, <1>12, <2>2
  <2>4. IsEntryOf(t, g, handle, at.mount)
    BY <2>1 DEF IsEntryOf
  <2>5. IsEntryOf(t, g, new[c].file.fs_handle, new[c].file.mount)
    BY <2>3, <2>4
  <2>6. ~client[c].file.in_use
    BY <1>2 DEF Ready
  <2>7. QED
    BY <1>1, <2>1, <2>2, <2>3, <2>5, <2>6, OpenOwned
<1>18. Good(t) /\ ClientsOK(t, client')
  BY <1>1, <1>5, <1>12, <1>13, <1>15, <1>16, <1>17, CallStep
<1>19. QED
  BY <1>16, <1>18 DEF FInv

LEMMA OpenInv ==
  ASSUME FInv, NEW c \in Client, call_open(c)
  PROVE  FInv'
<1>1. PICK r \in Asked(c, DOMAIN AfterOpen) :
        LET next == AfterOpen[r.call]
            at == vfs_resolve_path(fs, r.path)
        IN  \/ \E handle \in OpenHandles(fs, at) :
                   Call(c, vfs_open(fs, at, handle),
                        Takes(Enter(c, next.opened, r.path), OpenedFile(handle, at.mount)))
            \/ \E answer \in OpenErrors(fs, at) :
                   Goto(c, IF answer = VFS_NOT_FOUND THEN next.not_found
                           ELSE next.failed, r.path)
  BY DEF call_open, Takes
<1> DEFINE next == AfterOpen[r.call]
           at == vfs_resolve_path(fs, r.path)
<1>2. Requested(c, r) /\ r.call \in DOMAIN AfterOpen
  BY OpenCalls, AskedIs
<1>3. Ready(c) /\ r.path \in Seq(Text)
  BY <1>2 DEF Requested
<1>4. CASE \E handle \in OpenHandles(fs, at) :
               Call(c, vfs_open(fs, at, handle),
                    Takes(Enter(c, next.opened, r.path), OpenedFile(handle, at.mount)))
  <2>1. PICK handle \in OpenHandles(fs, at) :
               Call(c, vfs_open(fs, at, handle),
                    Takes(Enter(c, next.opened, r.path), OpenedFile(handle, at.mount)))
    BY <1>4
  <2>2. QED
    BY <1>2, <2>1, OpenedInv
<1>5. CASE \E answer \in OpenErrors(fs, at) :
               Goto(c, IF answer = VFS_NOT_FOUND THEN next.not_found ELSE next.failed, r.path)
  <2>1. PICK pc \in {next.not_found, next.failed} : Goto(c, pc, r.path)
    BY <1>5
  <2>2. pc \in {"idle", "load_create", "editing"}
    BY <1>2, <2>1, OpenCalls
  <2>3. /\ pc \in Pc /\ pc \notin FileCalls /\ pc # "edit_stat" /\ pc # "edit_parent"
        /\ pc \notin {"save_create", "save_open", "save_seek", "save_write", "save_close", "saved"}
    BY <2>2 DEF Pc, PathCalls, FileCalls, Resting
  <2>4. QED
    BY <1>3, <2>1, <2>3, GotoStep
<1>6. QED
  BY <1>1, <1>4, <1>5

-----------------------------------------------------------------------------
(* Calls on an open file                                                   *)

\* The client holds the same file before and after.
Holds(old, me) ==
    /\ me.file.in_use = old.file.in_use /\ me.file.fs_handle = old.file.fs_handle
    /\ me.file.mount = old.file.mount /\ me.file.dangling = old.file.dangling

LEMMA HoldStep ==
  ASSUME FInv, NEW c \in Client, client[c].pc \in FileCalls, NEW t, StepOK(fs, t), SameTables(fs, t),
         t.allocated = fs.allocated, NEW mine \in ClientState, mine.pc \in FileCalls,
         Holds(client[c], mine), Call(c, t, mine),
         LET n == mine.file.fs_handle
         IN  fs.mounts[mine.file.mount].ops = "ramfs" /\ ~mine.file.dangling =>
                 mine.file.position <= Len(t.node[n].data),
         c = "editor" => Saving(t, mine)
  PROVE  FInv'
<1> DEFINE old == client[c]
           n == old.file.fs_handle
           m == old.file.mount
<1>1. Good(fs) /\ ClientsOK(fs, client) /\ client \in [Client -> ClientState] /\ ClientOK(fs, old)
  BY DEF FInv, ClientsOK
<1>2. t.mounts = fs.mounts /\ t.open_files = fs.open_files
  BY DEF SameTables
<1>3. mine.file.in_use = old.file.in_use /\ mine.file.fs_handle = n /\ mine.file.mount = m
      /\ mine.file.dangling = old.file.dangling
  BY DEF Holds
<1>4. /\ old.file.in_use /\ m \in Slot
      /\ fs.mounts[m].ops = "ramfs" =>
             /\ n \in NodeId
             /\ ~old.file.dangling => /\ n \in fs.allocated /\ fs.node[n].type = FS_FILE
                                      /\ FirstOfName(fs, n)
  BY <1>1 DEF ClientOK
<1>5. ASSUME t.mounts[m].ops = "ramfs", ~mine.file.dangling
      PROVE  /\ n \in t.allocated /\ t.node[n].type = FS_FILE /\ FirstOfName(t, n)
             /\ mine.file.position <= Len(t.node[n].data)
  <2>1. n \in fs.allocated /\ fs.node[n].type = FS_FILE /\ FirstOfName(fs, n)
    BY <1>2, <1>3, <1>4, <1>5
  <2>2. n \in t.allocated /\ t.node[n].type = FS_FILE /\ FirstOfName(t, n)
    BY <2>1 DEF StepOK
  <2>3. mine.file.position <= Len(t.node[n].data)
    BY <1>2, <1>3, <1>5
  <2>4. QED
    BY <2>2, <2>3
<1>6. ClientOK(t, mine)
  BY <1>2, <1>3, <1>4, <1>5 DEF ClientOK
<1>7. SameFile(client[c].file, mine.file)
  BY <1>3 DEF SameFile
<1>8. Yields(client, c, mine, t)
  <2>1. c \in {"shell", "editor"}
    BY DEF Client
  <2>2. old.pc \notin {"idle", "saved"}
    BY Kinds
  <2>3. mine.pc # "edit_stat" /\ mine.pc # "edit_parent"
    BY DEF FileCalls
  <2>4. QED
    BY <2>1, <2>2, <2>3 DEF Yields
<1>9. fs' = t /\ client' = After(client, c, mine, fs, t) /\ wild' = FALSE
  BY CallIs
<1>10. EntriesStay(fs, t)
  BY <1>2, StayingEntries
<1>11. Good(t) /\ ClientsOK(t, client')
  BY <1>1, <1>6, <1>7, <1>8, <1>9, <1>10, QuietStep
<1>12. QED
  BY <1>9, <1>11 DEF FInv

\* Only where the client is changes.
LEMMA HoldGoto ==
  ASSUME FInv, NEW c \in Client, client[c].pc \in FileCalls, NEW pc \in FileCalls,
         Goto(c, pc, client[c].path),
         c = "editor" => Saving(fs, Enter(c, pc, client[c].path))
  PROVE  FInv'
<1> DEFINE old == client[c]
           mine == Enter(c, pc, old.path)
<1>1. client \in [Client -> ClientState] /\ ClientOK(fs, old)
  BY DEF FInv, ClientsOK
<1>2. pc \in Pc /\ pc # "idle"
  BY Kinds DEF Pc
<1>3. old \in ClientState /\ old.path \in Seq(Text)
  BY <1>1, ClientFields
<1>4. mine \in ClientState /\ mine.pc = pc /\ mine.file = old.file
  BY <1>1, <1>2, <1>3, EnterIs
<1>5. Call(c, fs, mine)
  BY DEF Goto
<1>6. c = "editor" => Saving(fs, mine)
  OBVIOUS
<1> HIDE DEF mine
<1>7. Holds(old, mine)
  BY <1>4 DEF Holds
<1>8. fs.mounts[mine.file.mount].ops = "ramfs" /\ ~mine.file.dangling =>
          mine.file.position <= Len(fs.node[mine.file.fs_handle].data)
  BY <1>1, <1>4 DEF ClientOK
<1>9. SameTables(fs, fs)
  BY DEF SameTables
<1>10. QED
  BY <1>4, <1>5, <1>6, <1>7, <1>8, <1>9, Staying, HoldStep
\* The client moves on, in its program and in its file.
MovesTo(me, pc, position) == [me EXCEPT !.pc = pc, !.file.position = position]

LEMMA MovesIs ==
  ASSUME NEW me \in ClientState, NEW pc \in Pc, NEW position \in Nat,
         NEW you, you = MovesTo(me, pc, position)
  PROVE  /\ you \in ClientState /\ you.pc = pc /\ you.path = me.path /\ you.alone = me.alone
         /\ you.file.position = position /\ Holds(me, you)
<1> DEFINE old == me.file
           new == [old EXCEPT !.position = position]
<1>1. old \in OpenFile /\ old.in_use \in BOOLEAN /\ old.fs_handle \in FsHandle
      /\ old.mount \in Slot \cup {NO_MOUNT} /\ old.dangling \in BOOLEAN
  BY ClientFields
<1>2. me.path \in Seq(Text) /\ me.alone \in BOOLEAN
  BY ClientFields
<1>3. you = [me EXCEPT !.pc = pc, !.file = new]
  BY DEF MovesTo, ClientState
<1> HIDE DEF old
<1>4. new = File(old.in_use, old.fs_handle, old.mount, position, old.dangling)
  BY <1>1 DEF File, OpenFile
<1>5. /\ new \in OpenFile /\ new.in_use = old.in_use /\ new.fs_handle = old.fs_handle
      /\ new.mount = old.mount /\ new.position = position /\ new.dangling = old.dangling
  BY <1>1, <1>4, FileIs
<1> HIDE DEF new
<1>6. you = State(pc, me.path, new, me.alone)
  BY <1>3 DEF State, ClientState
<1>7. you \in ClientState /\ you.pc = pc /\ you.path = me.path /\ you.file = new /\ you.alone = me.alone
  BY <1>2, <1>5, <1>6, StateIs
<1>8. Holds(me, you)
  BY <1>5, <1>7 DEF Holds, old
<1>9. QED
  BY <1>5, <1>7, <1>8

\* What a client holds during a call on its file.
LEMMA Holding ==
  ASSUME FInv, NEW c \in Client, client[c].pc \in FileCalls
  PROVE  /\ client[c] \in ClientState /\ client[c].file.in_use /\ client[c].file.mount \in Slot
         /\ client[c].path \in Seq(Text) /\ client[c].file.position \in Nat
         /\ OpsOf(c) = "ramfs" =>
                /\ client[c].file.fs_handle \in NodeId
                /\ fs.node[client[c].file.fs_handle].data \in Seq(Text)
                /\ ~client[c].file.dangling =>
                       /\ client[c].file.fs_handle \in fs.allocated
                       /\ FirstOfName(fs, client[c].file.fs_handle)
                       /\ client[c].file.position <= Len(fs.node[client[c].file.fs_handle].data)
<1>1. client[c] \in ClientState /\ ClientOK(fs, client[c]) /\ fs \in FsState
  BY DEF FInv, ClientsOK, Good
<1>2. client[c].path \in Seq(Text) /\ client[c].file.position \in Nat
  BY <1>1, ClientFields
<1>3. client[c].file.in_use /\ client[c].file.mount \in Slot
  BY <1>1 DEF ClientOK
<1>4. ASSUME OpsOf(c) = "ramfs"
      PROVE  /\ client[c].file.fs_handle \in NodeId
             /\ ~client[c].file.dangling =>
                    /\ client[c].file.fs_handle \in fs.allocated
                    /\ FirstOfName(fs, client[c].file.fs_handle)
                    /\ client[c].file.position <= Len(fs.node[client[c].file.fs_handle].data)
  BY <1>1, <1>4 DEF ClientOK, OpsOf
<1>5. OpsOf(c) = "ramfs" => fs.node[client[c].file.fs_handle].data \in Seq(Text)
  BY <1>1, <1>4, NodeFields
<1>6. QED
  BY <1>1, <1>2, <1>3, <1>4, <1>5

ReadCalls == {"cat_read", "load_read"}

LEMMA ReadCallsAre ==
  /\ DOMAIN AfterReads = ReadCalls /\ ReadCalls \subseteq FileCalls
  /\ \A call \in ReadCalls : AfterReads[call] \in {"cat_close", "load_close"}
BY DEF AfterReads, ReadCalls, FileCalls

LEMMA ReadInv ==
  ASSUME FInv, NEW c \in Client, call_read(c)
  PROVE  FInv'
<1> DEFINE old == client[c]
           n == old.file.fs_handle
           k == IF OpsOf(c) = "ramfs" THEN Len(fs.node[n].data) ELSE old.file.position
<1>1. old.pc \in ReadCalls /\ old.pc \in FileCalls
  BY ReadCallsAre DEF call_read, Calling
<1>2. CASE GoWild
  BY <1>2, WildInv
<1>3. CASE Call(c, fs, MovesTo(old, old.pc, k))
  <2> DEFINE pc == old.pc
             mine == MovesTo(old, pc, k)
  <2>1. /\ old \in ClientState /\ old.file.position \in Nat
        /\ OpsOf(c) = "ramfs" => fs.node[n].data \in Seq(Text)
    BY <1>1, Holding
  <2>2. k \in Nat
    <3> DEFINE z == fs.node[n].data
    <3> HIDE DEF z
    <3>1. z \in Seq(Text) => Len(z) \in Nat
      OBVIOUS
    <3>2. QED
      BY <2>1, <3>1 DEF z
  <2>3. pc \in Pc
    BY <1>1 DEF Pc
  <2> HIDE DEF k, pc
  <2>4. mine \in ClientState /\ mine.pc = pc /\ mine.file.position = k /\ Holds(old, mine)
    BY <2>1, <2>2, <2>3, MovesIs
  <2> HIDE DEF mine
  <2>5. mine.pc \in FileCalls /\ mine.pc \in ReadCalls
    BY <1>1, <2>4 DEF pc
  <2>6. fs.mounts[mine.file.mount].ops = "ramfs" /\ ~mine.file.dangling =>
            mine.file.position <= Len(fs.node[mine.file.fs_handle].data)
    <3> SUFFICES ASSUME fs.mounts[mine.file.mount].ops = "ramfs"
                 PROVE  mine.file.position <= Len(fs.node[mine.file.fs_handle].data)
      OBVIOUS
    <3>1. mine.file.fs_handle = n /\ OpsOf(c) = "ramfs"
      BY <2>4 DEF Holds, OpsOf
    <3>2. mine.file.position = Len(fs.node[n].data)
      BY <2>4, <3>1 DEF k
    <3> DEFINE z == fs.node[n].data
    <3>3. z \in Seq(Text)
      BY <2>1, <3>1
    <3> HIDE DEF z
    <3>4. Len(z) <= Len(z)
      BY <3>3
    <3>5. QED
      BY <3>1, <3>2, <3>4 DEF z
  <2>7. Saving(fs, mine)
    BY <2>5, NotSaving DEF ReadCalls
  <2>8. SameTables(fs, fs)
    BY DEF SameTables
  <2>9. Call(c, fs, mine)
    BY <1>3 DEF mine, pc
  <2>10. QED
    BY <1>1, <2>4, <2>5, <2>6, <2>7, <2>8, <2>9, Staying, HoldStep
<1>4. CASE Goto(c, AfterReads[old.pc], old.path)
  <2> DEFINE pc == AfterReads[old.pc]
             path == old.path
  <2>1. pc \in {"cat_close", "load_close"}
    BY <1>1, ReadCallsAre
  <2>2. pc \in FileCalls /\ pc \in Pc
    BY <2>1 DEF FileCalls, Pc
  <2>3. path \in Seq(Text) /\ client \in [Client -> ClientState]
    BY <1>1, Holding DEF FInv, ClientsOK
  <2>4. Goto(c, pc, path)
    BY <1>4
  <2> HIDE DEF pc, path
  <2>5. Enter(c, pc, path).pc = pc
    BY <2>2, <2>3, EnterIs
  <2>6. Saving(fs, Enter(c, pc, path))
    BY <2>1, <2>5, NotSaving
  <2>7. QED
    BY <1>1, <2>2, <2>4, <2>6, HoldGoto DEF path
<1>5. old \in ClientState
  BY <1>1, Holding
<1>6. [old EXCEPT !.file.position = IF OpsOf(c) = "ramfs" THEN Len(fs.node[n].data) ELSE @]
          = MovesTo(old, old.pc, k)
  BY <1>5 DEF MovesTo, ClientState, OpenFile
<1>7. QED
  BY <1>2, <1>3, <1>4, <1>6 DEF call_read
\* An empty file under the editor's path stays one while it seeks.
LEMMA SeekToSave ==
  ASSUME NEW s, NEW old, Saving(s, old), old.pc = "save_seek",
         NEW me, me.pc = "save_write", me.path = old.path, me.alone => old.alone,
         me.file.position = 0, Holds(old, me)
  PROVE  Saving(s, me)
<1>1. me.file.fs_handle = old.file.fs_handle /\ me.file.mount = old.file.mount
      /\ (old.file.dangling = me.file.dangling)
  BY DEF Holds
<1>2. QED
  BY <1>1 DEF Saving

LEMMA SeekInv ==
  ASSUME FInv, call_seek
  PROVE  FInv'
<1> DEFINE c == "editor"
           old == client["editor"]
           n == old.file.fs_handle
<1>1. c \in Client /\ old.pc = "save_seek" /\ old.pc \in FileCalls
  BY DEF call_seek, Calling, Client, FileCalls
<1>2. /\ old \in ClientState /\ old.file.position \in Nat
      /\ OpsOf(c) = "ramfs" =>
             /\ fs.node[n].data \in Seq(Text)
             /\ ~old.file.dangling => old.file.position <= Len(fs.node[n].data)
  BY <1>1, Holding
<1>3. [old EXCEPT !.pc = "save_failed"] = MovesTo(old, "save_failed", old.file.position)
  BY <1>2 DEF MovesTo, ClientState, OpenFile
<1>4. \/ Call(c, fs, MovesTo(old, "save_write", 0))
      \/ Call(c, fs, MovesTo(old, "save_failed", old.file.position))
  <2>1. Call(c, fs, IF Answers(c) THEN MovesTo(old, "save_write", 0)
                    ELSE [old EXCEPT !.pc = "save_failed"])
    BY DEF call_seek, MovesTo
  <2>2. QED
    BY <1>3, <2>1
<1>5. PICK pc \in {"save_write", "save_failed"}, k \in {0, old.file.position} :
          /\ Call(c, fs, MovesTo(old, pc, k))
          /\ pc = "save_write" => k = 0
  BY <1>4
<1>6. pc \in Pc /\ pc \in FileCalls /\ k \in Nat
  BY <1>2 DEF Pc, FileCalls
<1> DEFINE mine == MovesTo(old, pc, k)
<1>7. /\ mine \in ClientState /\ mine.pc = pc /\ mine.path = old.path /\ mine.alone = old.alone
      /\ mine.file.position = k /\ Holds(old, mine)
  <2> HIDE DEF old
  <2>1. QED
    BY <1>2, <1>6, MovesIs
<1> HIDE DEF mine
<1>8. fs.mounts[mine.file.mount].ops = "ramfs" /\ ~mine.file.dangling =>
          mine.file.position <= Len(fs.node[mine.file.fs_handle].data)
  <2> SUFFICES ASSUME fs.mounts[mine.file.mount].ops = "ramfs", ~mine.file.dangling
               PROVE  mine.file.position <= Len(fs.node[mine.file.fs_handle].data)
    OBVIOUS
  <2>1. mine.file.fs_handle = n /\ OpsOf(c) = "ramfs" /\ ~old.file.dangling
    BY <1>7 DEF Holds, OpsOf
  <2> DEFINE z == fs.node[n].data
  <2>2. z \in Seq(Text) /\ old.file.position <= Len(z)
    BY <1>2, <2>1
  <2> HIDE DEF z
  <2>3. 0 <= Len(z)
    BY <2>2
  <2>4. k <= Len(z)
    BY <2>2, <2>3
  <2>5. QED
    BY <1>7, <2>1, <2>4 DEF z
<1>9. Saving(fs, mine)
  <2>1. CASE pc = "save_write"
    <3>1. Saving(fs, old)
      BY DEF FInv, ClientsOK
    <3>2. mine.pc = "save_write" /\ mine.path = old.path /\ (mine.alone => old.alone)
          /\ mine.file.position = 0
      BY <1>5, <1>7, <2>1
    <3> HIDE DEF old
    <3>3. QED
      BY <1>1, <1>7, <3>1, <3>2, SeekToSave
  <2>2. CASE pc = "save_failed"
    BY <1>7, <2>2, NotSaving
  <2>3. QED
    BY <2>1, <2>2
<1>10. SameTables(fs, fs)
  BY DEF SameTables
<1>11. Call(c, fs, mine)
  BY <1>5 DEF mine
<1>12. mine.pc \in FileCalls
  BY <1>6, <1>7
<1>13. client[c].pc \in FileCalls /\ Holds(client[c], mine)
  BY <1>1, <1>7
<1> HIDE DEF c
<1>14. QED
  BY <1>1, <1>7, <1>8, <1>9, <1>10, <1>11, <1>12, <1>13, Staying, HoldStep

\* What the clients write.
LEMMA TextsAre == EchoText \in Seq(Text) /\ Newline \in Seq(Text) /\ EditorText \in Seq(Text)
<1>1. "t" \in Text /\ "n" \in Text /\ "e" \in Text
  BY TextAssumption
<1>2. \A x \in Text : <<x>> \in Seq(Text)
  OBVIOUS
<1>3. QED
  BY <1>1, <1>2 DEF EchoText, Newline, EditorText

WriteCalls == {"echo_text", "echo_newline", "save_write"}

LEMMA WriteCallsAre ==
  /\ DOMAIN AfterWrite = WriteCalls /\ WriteCalls \subseteq FileCalls
  /\ \A call \in WriteCalls :
         /\ AfterWrite[call].text \in Seq(Text)
         /\ AfterWrite[call].written \in FileCalls
         /\ AfterWrite[call].failed \in {"echo_close", "save_failed"}
         /\ IF call = "save_write"
            THEN AfterWrite[call].written = "save_close" /\ AfterWrite[call].text = EditorText
            ELSE AfterWrite[call].written \in {"echo_newline", "echo_close"}
<1>1. DOMAIN AfterWrite = WriteCalls /\ WriteCalls \subseteq FileCalls
  BY DEF AfterWrite, WriteCalls, FileCalls
<1>2. EchoText \in Seq(Text) /\ Newline \in Seq(Text) /\ EditorText \in Seq(Text)
  BY TextsAre
<1>3. /\ AfterWrite["echo_text"].text = EchoText /\ AfterWrite["echo_newline"].text = Newline
      /\ AfterWrite["save_write"].text = EditorText
  BY DEF AfterWrite
<1>4. /\ AfterWrite["echo_text"].written = "echo_newline"
      /\ AfterWrite["echo_newline"].written = "echo_close"
      /\ AfterWrite["save_write"].written = "save_close"
  BY DEF AfterWrite
<1>5. /\ AfterWrite["echo_text"].failed = "echo_close"
      /\ AfterWrite["echo_newline"].failed = "echo_close"
      /\ AfterWrite["save_write"].failed = "save_failed"
  BY DEF AfterWrite
<1>6. \A call \in WriteCalls : AfterWrite[call].text \in Seq(Text)
  BY <1>2, <1>3 DEF WriteCalls
<1>7. \A call \in WriteCalls : AfterWrite[call].written \in FileCalls
  BY <1>4 DEF WriteCalls, FileCalls
<1>8. \A call \in WriteCalls : AfterWrite[call].failed \in {"echo_close", "save_failed"}
  BY <1>5 DEF WriteCalls
<1>9. \A call \in WriteCalls :
         IF call = "save_write"
         THEN AfterWrite[call].written = "save_close" /\ AfterWrite[call].text = EditorText
         ELSE AfterWrite[call].written \in {"echo_newline", "echo_close"}
  BY <1>3, <1>4 DEF WriteCalls
<1>10. QED
  BY <1>1, <1>6, <1>7, <1>8, <1>9

\* The editor has written: its text is all there is.
HasWritten(s, t, old, me) ==
    /\ old.pc = "save_write" /\ me.pc = "save_close" /\ me.path = old.path /\ (me.alone => old.alone)
    /\ Holds(old, me)
    /\ t.node[old.file.fs_handle].data
           = Written(s.node[old.file.fs_handle].data, old.file.position, EditorText)

LEMMA WriteToSave ==
  ASSUME NEW s, Good(s), NEW t, KeepsLookups(s, t), t.mounts = s.mounts,
         NEW old \in ClientState, Saving(s, old), NEW me, HasWritten(s, t, old, me)
  PROVE  Saving(t, me)
<1> DEFINE at == vfs_resolve_path(s, old.path)
           n == fs_find_by_path(s, at.path)
<1>1. s \in FsState /\ Tree(s) /\ old.path \in Seq(Text)
  BY ClientFields DEF Good
<1>2. at.path \in Seq(Text)
  BY <1>1, ResolvePath
<1>3. vfs_resolve_path(t, me.path) = at
  BY ResolveSame DEF HasWritten
<1>4. fs_find_by_path(t, at.path) = n
  BY <1>1, <1>2, LookupsKept
<1>5. ASSUME me.alone, at.ops = "ramfs"
      PROVE  /\ n # NULL /\ me.file.fs_handle = n /\ ~me.file.dangling /\ me.file.mount = at.mount
             /\ t.node[n].data = EditorText
  <2>1. old.alone /\ old.pc = "save_write"
    BY <1>5 DEF HasWritten
  <2>2. /\ n # NULL /\ old.file.fs_handle = n /\ ~old.file.dangling /\ old.file.mount = at.mount
        /\ s.node[n].data = << >> /\ old.file.position = 0
    BY <1>5, <2>1 DEF Saving
  <2>3. t.node[n].data = Written(<< >>, 0, EditorText)
    BY <2>2 DEF HasWritten
  <2>4. EditorText \in Seq(Text)
    BY TextsAre
  <2>5. t.node[n].data = EditorText
    BY <2>3, <2>4, WrittenToEmpty
  <2>6. /\ me.file.fs_handle = old.file.fs_handle /\ me.file.mount = old.file.mount
        /\ me.file.dangling = old.file.dangling
    BY DEF HasWritten, Holds
  <2>7. QED
    BY <2>2, <2>5, <2>6
<1>6. me.pc = "save_close"
  BY DEF HasWritten
<1>7. QED
  BY <1>3, <1>4, <1>5, <1>6 DEF Saving

\* On the disk nothing is asked of a save.
LEMMA DiskToSave ==
  ASSUME NEW s \in FsState, NEW old \in ClientState, Saving(s, old), old.pc = "save_write",
         old.file.mount \in Slot, s.mounts[old.file.mount].ops # "ramfs",
         NEW me, me.path = old.path, me.alone => old.alone
  PROVE  Saving(s, me)
<1> DEFINE at == vfs_resolve_path(s, old.path)
<1>1. old.path \in Seq(Text)
  BY ClientFields
<1>2. at.mount # NO_MOUNT => at.ops = s.mounts[at.mount].ops
  BY <1>1, ResolvePath
<1>3. ~(old.alone /\ at.ops = "ramfs")
  <2> SUFFICES ASSUME old.alone, at.ops = "ramfs" PROVE FALSE
    OBVIOUS
  <2>1. old.file.mount = at.mount
    BY DEF Saving
  <2>2. QED
    BY <1>2, <2>1, Slots
<1>4. QED
  BY <1>3 DEF Saving
\* A write to the RAM file system.
LEMMA WrittenInv ==
  ASSUME FInv, NEW c \in Client, client[c].pc \in WriteCalls, OpsOf(c) = "ramfs",
         ~client[c].file.dangling,
         NEW next, next = AfterWrite[client[c].pc],
         NEW n, n = client[c].file.fs_handle, NEW k, k = client[c].file.position,
         NEW t, t = WriteTo(fs, n, Written(fs.node[n].data, k, next.text)),
         NEW mine, mine = MovesTo(client[c], next.written, k + Len(next.text)),
         Call(c, t, mine)
  PROVE  FInv'
<1> DEFINE old == client[c]
           z == fs.node[n].data
           w == Written(z, k, next.text)
           pc == next.written
           l == k + Len(next.text)
<1>1. old.pc \in FileCalls /\ next.text \in Seq(Text) /\ pc \in FileCalls
      /\ IF old.pc = "save_write" THEN pc = "save_close" /\ next.text = EditorText
         ELSE pc \in {"echo_newline", "echo_close"}
  BY WriteCallsAre
<1>2. /\ old \in ClientState /\ z \in Seq(Text) /\ k \in Nat /\ k <= Len(z)
      /\ n \in fs.allocated /\ FirstOfName(fs, n)
  BY <1>1, Holding
<1>3. w \in Seq(Text) /\ Len(z) <= Len(w) /\ l <= Len(w)
  <2> HIDE DEF z
  <2>1. QED
    BY <1>1, <1>2, WrittenOK
<1>4. l \in Nat
  <2> DEFINE text == next.text
  <2>1. text \in Seq(Text) /\ k \in Nat
    BY <1>1, <1>2
  <2> HIDE DEF text
  <2>2. k + Len(text) \in Nat
    BY <2>1
  <2>3. QED
    BY <2>2 DEF text
<1>5. Good(fs) /\ client \in [Client -> ClientState] /\ Saving(fs, client["editor"])
  BY DEF FInv, ClientsOK
<1>6. /\ StepOK(fs, t) /\ KeepsLookups(fs, t) /\ SameTables(fs, t)
      /\ t.allocated = fs.allocated /\ t.node[n].data = w
  <2>1. t = WriteTo(fs, n, w)
    OBVIOUS
  <2> HIDE DEF w
  <2>2. QED
    BY <1>2, <1>3, <1>5, <2>1, WriteStep
<1>7. pc \in Pc
  BY <1>1 DEF Pc
<1>8. mine = MovesTo(old, pc, l)
  OBVIOUS
<1> HIDE DEF pc, l, w
<1>9. /\ mine \in ClientState /\ mine.pc = pc /\ mine.path = old.path /\ mine.alone = old.alone
      /\ mine.file.position = l /\ Holds(old, mine)
  <2>1. old \in ClientState
    BY <1>2
  <2> HIDE DEF old
  <2>2. QED
    BY <1>4, <1>7, <1>8, <2>1, MovesIs
<1>10. mine.pc \in FileCalls
  BY <1>1, <1>9
<1>11. mine.file.position <= Len(t.node[mine.file.fs_handle].data)
  <2>1. mine.file.fs_handle = n
    BY <1>9 DEF Holds
  <2>2. QED
    BY <1>3, <1>6, <1>9, <2>1
<1>12. ASSUME c = "editor" PROVE Saving(t, mine)
  <2>1. CASE old.pc = "save_write"
    <3>1. t.node[n].data = Written(z, k, EditorText)
      BY <1>1, <1>6, <2>1 DEF w
    <3>2. HasWritten(fs, t, old, mine)
      BY <1>1, <1>9, <2>1, <3>1 DEF HasWritten
    <3>3. Saving(fs, old) /\ t.mounts = fs.mounts
      BY <1>5, <1>6, <1>12 DEF SameTables
    <3> HIDE DEF old
    <3>4. QED
      BY <1>2, <1>5, <1>6, <3>2, <3>3, WriteToSave
  <2>2. CASE old.pc # "save_write"
    BY <1>1, <1>9, <2>2, NotSaving
  <2>3. QED
    BY <2>1, <2>2
<1>13. QED
  BY <1>1, <1>6, <1>9, <1>10, <1>11, <1>12, HoldStep

LEMMA WriteInv ==
  ASSUME FInv, NEW c \in Client, call_write(c)
  PROVE  FInv'
<1> DEFINE old == client[c]
           next == AfterWrite[old.pc]
           n == old.file.fs_handle
           k == old.file.position
           path == old.path
<1>1. old.pc \in WriteCalls
  BY WriteCallsAre DEF call_write, Calling
<1>2. old.pc \in FileCalls /\ next.written \in FileCalls /\ next.failed \in {"echo_close", "save_failed"}
      /\ IF old.pc = "save_write" THEN next.written = "save_close"
         ELSE next.written \in {"echo_newline", "echo_close"}
  BY <1>1, WriteCallsAre
<1>3. /\ old \in ClientState /\ path \in Seq(Text) /\ old.file.mount \in Slot
      /\ client \in [Client -> ClientState] /\ fs \in FsState /\ Saving(fs, client["editor"])
  BY <1>2, Holding DEF FInv, ClientsOK, Good
<1>4. CASE GoWild
  BY <1>4, WildInv
<1>5. ASSUME ~GoWild
      PROVE  /\ ~(OpsOf(c) = "ramfs" /\ old.file.dangling)
             /\ \/ /\ OpsOf(c) = "ramfs"
                   /\ Call(c, WriteTo(fs, n, Written(fs.node[n].data, k, next.text)),
                           MovesTo(old, next.written, k + Len(next.text)))
                \/ OpsOf(c) = "fat32" /\ Goto(c, next.written, path)
                \/ Goto(c, next.failed, path)
  <2>1. ~(OpsOf(c) = "ramfs" /\ old.file.dangling)
    BY <1>5 DEF call_write
  <2>2. \/ /\ OpsOf(c) = "ramfs"
           /\ Call(c, [fs EXCEPT !.node[n].data = Written(@, k, next.text)],
                   [client[c] EXCEPT !.pc = next.written, !.file.position = @ + Len(next.text)])
        \/ OpsOf(c) = "fat32" /\ Goto(c, next.written, path)
        \/ Goto(c, next.failed, path)
    BY <2>1 DEF call_write
  <2>3. [client[c] EXCEPT !.pc = next.written, !.file.position = @ + Len(next.text)]
            = MovesTo(old, next.written, k + Len(next.text))
    BY <1>3 DEF MovesTo, ClientState
  <2>4. OpsOf(c) = "ramfs" => [fs EXCEPT !.node[n].data = Written(@, k, next.text)]
                                  = WriteTo(fs, n, Written(fs.node[n].data, k, next.text))
    <3>1. OpsOf(c) = "ramfs" => n \in NodeId
      BY <1>2, Holding
    <3>2. QED
      BY <1>3, <3>1 DEF WriteTo, FsState
  <2>5. QED
    BY <2>1, <2>2, <2>3, <2>4
<1>6. CASE /\ OpsOf(c) = "ramfs" /\ ~old.file.dangling
           /\ Call(c, WriteTo(fs, n, Written(fs.node[n].data, k, next.text)),
                   MovesTo(old, next.written, k + Len(next.text)))
  BY <1>1, <1>6, WrittenInv
<1>7. CASE OpsOf(c) = "fat32" /\ Goto(c, next.written, path)
  <2> DEFINE pc == next.written
             mine == Enter(c, pc, path)
  <2>1. pc \in FileCalls /\ pc \in Pc /\ pc # "idle"
    BY <1>2, Kinds DEF Pc
  <2>2. Goto(c, pc, path)
    BY <1>7
  <2>3. mine.pc = pc /\ mine.alone = old.alone /\ (c = "editor" => mine.path = path)
    <3> HIDE DEF pc, path
    <3>1. QED
      BY <1>3, <2>1, EnterIs
  <2> HIDE DEF mine
  <2>4. ASSUME c = "editor" PROVE Saving(fs, mine)
    <3>1. CASE old.pc = "save_write"
      <4>1. fs.mounts[old.file.mount].ops # "ramfs"
        BY <1>7, OpsDiffer DEF OpsOf
      <4>2. Saving(fs, old) /\ mine.path = old.path /\ (mine.alone => old.alone)
        BY <1>3, <2>3, <2>4
      <4> HIDE DEF old
      <4>3. QED
        BY <1>3, <3>1, <4>1, <4>2, DiskToSave
    <3>2. CASE old.pc # "save_write"
      BY <1>2, <2>3, <3>2, NotSaving
    <3>3. QED
      BY <3>1, <3>2
  <2>5. QED
    BY <1>2, <2>1, <2>2, <2>4, HoldGoto DEF mine
<1>8. CASE Goto(c, next.failed, path)
  <2> DEFINE pc == next.failed
  <2>1. pc \in FileCalls /\ pc \in Pc
    BY <1>2 DEF FileCalls, Pc
  <2>2. Goto(c, pc, path)
    BY <1>8
  <2>3. Enter(c, pc, path).pc = pc
    <3> HIDE DEF pc, path
    <3>1. QED
      BY <1>3, <2>1, EnterIs
  <2>4. Saving(fs, Enter(c, pc, path))
    BY <1>2, <2>3, NotSaving
  <2>5. QED
    BY <1>2, <2>1, <2>2, <2>4, HoldGoto
<1>9. QED
  BY <1>4, <1>5, <1>6, <1>7, <1>8
-----------------------------------------------------------------------------
(* Closing a file                                                          *)

\* An entry of the file goes; if it was the other client's, that client gets the
\* one which this client leaves.
LEMMA CloseOwned ==
  ASSUME NEW s, NEW t, NEW cl, NEW new, Owned(s, cl), NEW c \in Client,
         NEW x, x = cl[c].file.fs_handle, NEW m, m = cl[c].file.mount,
         \A d \in Client \ {c} : SameFile(cl[d].file, new[d].file),
         NEW g \in Handle, IsEntryOf(s, g, x, m), ~t.open_files[g].in_use,
         \A h \in Handle \ {g} : t.open_files[h] = s.open_files[h]
  PROVE  Owned(t, new)
<1>1. PICK old \in [Handle -> Client] : Owns(s, cl, old)
  BY DEF Owned
<1> DEFINE owner == [h \in Handle |-> IF old[h] = c THEN old[g] ELSE old[h]]
<1>2. owner \in [Handle -> Client] /\ \A h \in Handle : owner[h] = IF old[h] = c THEN old[g] ELSE old[h]
  OBVIOUS
<1> HIDE DEF owner
<1>3. s.open_files[g].in_use /\ s.open_files[g].fs_handle = x /\ s.open_files[g].mount = m
  BY DEF IsEntryOf
<1>4. ASSUME NEW h \in Handle, t.open_files[h].in_use
      PROVE  /\ h # g /\ s.open_files[h].in_use /\ t.open_files[h] = s.open_files[h]
             /\ owner[h] \in Client \ {c} /\ old[h] # old[g]
             /\ cl[owner[h]].file.in_use
             /\ cl[owner[h]].file.fs_handle = t.open_files[h].fs_handle
             /\ cl[owner[h]].file.mount = t.open_files[h].mount
  <2>1. h # g /\ s.open_files[h].in_use /\ t.open_files[h] = s.open_files[h]
    BY <1>4
  <2>2. old[h] # old[g]
    BY <1>1, <1>3, <2>1 DEF Owns
  <2>3. /\ cl[old[h]].file.in_use /\ cl[old[h]].file.fs_handle = s.open_files[h].fs_handle
        /\ cl[old[h]].file.mount = s.open_files[h].mount
    BY <1>1, <2>1 DEF Owns
  <2>4. /\ cl[old[g]].file.in_use /\ cl[old[g]].file.fs_handle = x /\ cl[old[g]].file.mount = m
    BY <1>1, <1>3 DEF Owns
  <2>5. CASE old[h] = c
    <3>1. owner[h] = old[g] /\ owner[h] \in Client \ {c}
      BY <1>2, <2>2, <2>5
    <3>2. s.open_files[h].fs_handle = x /\ s.open_files[h].mount = m
      BY <2>3, <2>5
    <3>3. QED
      BY <2>1, <2>2, <2>4, <3>1, <3>2
  <2>6. CASE old[h] # c
    <3>1. owner[h] = old[h] /\ owner[h] \in Client \ {c}
      BY <1>2, <2>6
    <3>2. QED
      BY <2>1, <2>2, <2>3, <3>1
  <2>7. QED
    BY <2>5, <2>6
<1>5. ASSUME NEW h \in Handle, t.open_files[h].in_use
      PROVE  /\ new[owner[h]].file.in_use
             /\ new[owner[h]].file.fs_handle = t.open_files[h].fs_handle
             /\ new[owner[h]].file.mount = t.open_files[h].mount
  BY <1>4, <1>5 DEF SameFile
<1>6. ASSUME NEW k \in Handle, NEW h \in Handle, t.open_files[k].in_use, t.open_files[h].in_use,
             owner[k] = owner[h]
      PROVE  k = h
  <2>1. old[k] # old[g] /\ old[h] # old[g] /\ s.open_files[k].in_use /\ s.open_files[h].in_use
    BY <1>4, <1>6
  <2>2. old[k] = old[h]
    BY <1>2, <1>6, <2>1
  <2>3. QED
    BY <1>1, <2>1, <2>2 DEF Owns
<1>7. Owns(t, new, owner)
  BY <1>5, <1>6 DEF Owns
<1>8. QED
  BY <1>2, <1>7 DEF Owned

\* No entry is left of the file, since its mount was unmounted: the client owns none.
LEMMA CloseNothing ==
  ASSUME NEW s, NEW t, t.open_files = s.open_files, NEW cl, NEW new, Owned(s, cl), NEW c \in Client,
         NEW x, x = cl[c].file.fs_handle, NEW m, m = cl[c].file.mount,
         \A d \in Client \ {c} : SameFile(cl[d].file, new[d].file),
         \A h \in Handle : ~IsEntryOf(s, h, x, m)
  PROVE  Owned(t, new)
<1>1. PICK old \in [Handle -> Client] : Owns(s, cl, old)
  BY DEF Owned
<1>2. ASSUME NEW h \in Handle, t.open_files[h].in_use
      PROVE  /\ new[old[h]].file.in_use
             /\ new[old[h]].file.fs_handle = t.open_files[h].fs_handle
             /\ new[old[h]].file.mount = t.open_files[h].mount
  <2>1. /\ cl[old[h]].file.in_use /\ cl[old[h]].file.fs_handle = s.open_files[h].fs_handle
        /\ cl[old[h]].file.mount = s.open_files[h].mount
    BY <1>1, <1>2 DEF Owns
  <2>2. old[h] \in Client \ {c}
    BY <1>2, <2>1 DEF IsEntryOf
  <2>3. QED
    BY <2>1, <2>2 DEF SameFile
<1>3. \A k, h \in Handle : t.open_files[k].in_use /\ t.open_files[h].in_use /\ old[k] = old[h] => k = h
  BY <1>1 DEF Owns
<1>4. Owns(t, new, old)
  BY <1>2, <1>3 DEF Owns
<1>5. QED
  BY <1>4 DEF Owned

\* The editor has closed the file it saved.
HasClosed(old, me) ==
    old.pc = "save_close" /\ me.pc = "saved" /\ me.path = old.path /\ (me.alone => old.alone)

LEMMA CloseToSave ==
  ASSUME NEW s, Good(s), NEW t, KeepsLookups(s, t), t.node = s.node, t.mounts = s.mounts,
         NEW old \in ClientState, Saving(s, old), NEW me, HasClosed(old, me)
  PROVE  Saving(t, me)
<1> DEFINE at == vfs_resolve_path(s, old.path)
           n == fs_find_by_path(s, at.path)
<1>1. s \in FsState /\ Tree(s) /\ old.path \in Seq(Text)
  BY ClientFields DEF Good
<1>2. at.path \in Seq(Text)
  BY <1>1, ResolvePath
<1>3. vfs_resolve_path(t, me.path) = at
  BY ResolveSame DEF HasClosed
<1>4. fs_find_by_path(t, at.path) = n
  BY <1>1, <1>2, LookupsKept
<1>5. me.alone /\ at.ops = "ramfs" => n # NULL /\ s.node[n].data = EditorText
  BY DEF Saving, HasClosed
<1>6. me.pc = "saved"
  BY DEF HasClosed
<1>7. QED
  BY <1>3, <1>4, <1>5, <1>6 DEF Saving

CloseCalls == {"cat_close", "echo_close", "load_close", "save_close", "save_failed"}

LEMMA CloseCallsAre ==
  /\ DOMAIN AfterClose = CloseCalls /\ CloseCalls \subseteq FileCalls
  /\ \A call \in CloseCalls :
         IF call = "save_close" THEN AfterClose[call] = "saved"
         ELSE AfterClose[call] \in {"idle", "editing"}
<1>1. DOMAIN AfterClose = CloseCalls /\ CloseCalls \subseteq FileCalls
  BY DEF AfterClose, CloseCalls, FileCalls
<1>2. /\ AfterClose["cat_close"] = "idle" /\ AfterClose["echo_close"] = "idle"
      /\ AfterClose["load_close"] = "editing" /\ AfterClose["save_close"] = "saved"
      /\ AfterClose["save_failed"] = "idle"
  BY DEF AfterClose
<1>3. QED
  BY <1>1, <1>2 DEF CloseCalls

LEMMA CloseInv ==
  ASSUME FInv, NEW c \in Client, call_close(c)
  PROVE  FInv'
<1> DEFINE old == client[c]
           file == old.file
           path == old.path
           pc == AfterClose[old.pc]
           me == Enter(c, pc, path)
           mine == Takes(me, ClosedFile)
           t == vfs_close(fs, file)
           new == After(client, c, mine, fs, t)
<1>1. old.pc \in CloseCalls
  BY CloseCallsAre DEF call_close, Calling
<1>2. old.pc \in FileCalls /\ IF old.pc = "save_close" THEN pc = "saved" ELSE pc \in {"idle", "editing"}
  BY <1>1, CloseCallsAre
<1>3. pc \in Pc /\ pc \notin FileCalls /\ pc # "edit_stat" /\ pc # "edit_parent"
  BY <1>2 DEF Pc, Resting, FileCalls
<1>4. old \in ClientState /\ path \in Seq(Text) /\ file.mount \in Slot
  BY <1>2, Holding
<1>5. Good(fs) /\ ClientsOK(fs, client) /\ client \in [Client -> ClientState]
      /\ Owned(fs, client) /\ Saving(fs, client["editor"])
  BY DEF FInv, ClientsOK
<1>6. me \in ClientState /\ me.pc = pc /\ (pc # "idle" => me.alone = old.alone)
      /\ (c = "editor" /\ pc # "idle" => me.path = path)
  <2> HIDE DEF pc, path
  <2>1. QED
    BY <1>3, <1>4, <1>5, EnterIs
<1> HIDE DEF me
<1>7. /\ mine \in ClientState /\ mine.pc = pc /\ mine.path = me.path
      /\ mine.file = ClosedFile /\ mine.alone = me.alone
  BY <1>6, ClosedFileIs, TakesIs
<1>8. Call(c, t, mine)
  BY DEF call_close, Takes, me
<1> HIDE DEF mine
<1>9. /\ StepOK(fs, t) /\ KeepsLookups(fs, t)
      /\ t.node = fs.node /\ t.allocated = fs.allocated /\ t.mounts = fs.mounts
      /\ \/ /\ t.open_files = fs.open_files
            /\ \A h \in Handle : ~IsEntryOf(fs, h, file.fs_handle, file.mount)
         \/ \E g \in Handle :
                /\ IsEntryOf(fs, g, file.fs_handle, file.mount)
                /\ t.open_files[g] = ClosedEntry
                /\ \A h \in Handle \ {g} : t.open_files[h] = fs.open_files[h]
  <2> HIDE DEF file
  <2>1. QED
    BY <1>4, <1>5, CloseStep
<1> HIDE DEF t
<1>10. ClientOK(t, mine)
  BY <1>3, <1>7, ClosedFileIs DEF ClientOK
<1>11. ASSUME c = "editor" PROVE Saving(t, mine)
  <2>1. CASE old.pc = "save_close"
    <3>1. pc = "saved" /\ pc # "idle"
      BY <1>2, <2>1
    <3>2. mine.pc = "saved" /\ mine.path = path /\ (mine.alone => old.alone)
      BY <1>6, <1>7, <1>11, <3>1
    <3>3. HasClosed(old, mine)
      BY <2>1, <3>2 DEF HasClosed
    <3>4. Saving(fs, old)
      BY <1>5, <1>11
    <3> HIDE DEF old
    <3>5. QED
      BY <1>4, <1>5, <1>9, <3>3, <3>4, CloseToSave
  <2>2. CASE old.pc # "save_close"
    BY <1>2, <1>7, <2>2, NotSaving
  <2>3. QED
    BY <2>1, <2>2
<1>12. Yields(client, c, mine, t)
  <2>1. c \in {"shell", "editor"}
    BY DEF Client
  <2>2. old.pc \notin {"idle", "saved"}
    BY <1>2, Kinds
  <2>3. QED
    BY <1>3, <1>7, <1>11, <2>1, <2>2 DEF Yields
<1>13. fs' = t /\ client' = new /\ wild' = FALSE
  BY <1>8, CallIs
<1>14. Owned(t, new)
  <2>1. \A d \in Client \ {c} : SameFile(client[d].file, new[d].file)
    BY <1>5, AfterIs
  <2> HIDE DEF new
  <2>2. CASE /\ t.open_files = fs.open_files
             /\ \A h \in Handle : ~IsEntryOf(fs, h, file.fs_handle, file.mount)
    BY <1>5, <2>1, <2>2, CloseNothing
  <2>3. CASE \E g \in Handle :
                 /\ IsEntryOf(fs, g, file.fs_handle, file.mount)
                 /\ t.open_files[g] = ClosedEntry
                 /\ \A h \in Handle \ {g} : t.open_files[h] = fs.open_files[h]
    <3>1. PICK g \in Handle :
                 /\ IsEntryOf(fs, g, file.fs_handle, file.mount)
                 /\ t.open_files[g] = ClosedEntry
                 /\ \A h \in Handle \ {g} : t.open_files[h] = fs.open_files[h]
      BY <2>3
    <3>2. ~t.open_files[g].in_use
      <4>1. ClosedEntry.in_use = FALSE
        BY DEF ClosedEntry
      <4>2. QED
        BY <3>1, <4>1
    <3>3. QED
      BY <1>5, <2>1, <3>1, <3>2, CloseOwned
  <2>4. QED
    BY <1>9, <2>2, <2>3
<1>15. Good(t) /\ ClientsOK(t, client')
  <2> HIDE DEF new
  <2>1. client' = After(client, c, mine, fs, t)
    BY <1>13 DEF new
  <2>2. Owned(t, client')
    BY <1>13, <1>14
  <2>3. QED
    BY <1>5, <1>7, <1>9, <1>10, <1>12, <2>1, <2>2, CallStep
<1>16. QED
  BY <1>13, <1>15 DEF FInv
-----------------------------------------------------------------------------
(* The first state                                                         *)

Node(name, type, parent, children, data) ==
    [name |-> name, type |-> type, parent |-> parent, children |-> children, data |-> data]

IsNode(x, name, type, parent, children, data) ==
    /\ x \in FSNode /\ x.name = name /\ x.type = type /\ x.parent = parent
    /\ x.children = children /\ x.data = data

LEMMA NodeIs ==
  \A name \in Text, type \in {FS_FILE, FS_DIRECTORY}, parent \in NodeId \cup {NULL},
     children \in Seq(NodeId), data \in Seq(Text) :
      IsNode(Node(name, type, parent, children, data), name, type, parent, children, data)
<1> SUFFICES ASSUME NEW name \in Text, NEW type \in {FS_FILE, FS_DIRECTORY},
                    NEW parent \in NodeId \cup {NULL},
                    NEW children \in Seq(NodeId), NEW data \in Seq(Text)
             PROVE  IsNode(Node(name, type, parent, children, data),
                           name, type, parent, children, data)
  OBVIOUS
<1> QED
  BY DEF FSNode, Node, IsNode

\* The three nodes that kernel_main makes.
Boots(s, mnt, readme) ==
    /\ s.allocated = {Root, mnt, readme}
    /\ s.node[Root].name = "/" /\ s.node[Root].type = FS_DIRECTORY /\ s.node[Root].parent = NULL
    /\ s.node[mnt].name = "mnt" /\ s.node[mnt].type = FS_DIRECTORY /\ s.node[mnt].parent = Root
    /\ s.node[readme].name = "README" /\ s.node[readme].type = FS_FILE
    /\ s.node[readme].parent = Root
    /\ s.node[Root].children = <<mnt, readme>>
    /\ \A n \in NodeId \ {Root} : s.node[n].children = << >>
    /\ s.node[Root].data = << >> /\ s.node[mnt].data = << >>

LEMMA BootIs ==
  ASSUME NEW mnt \in NodeId \ {Root}, NEW readme \in NodeId \ {Root}, mnt # readme,
         NEW s, s = Booted(mnt, readme)
  PROVE  /\ s.node \in [NodeId -> FSNode] /\ Boots(s, mnt, readme)
<1> DEFINE f == BootNodes(mnt, readme)
           slash == "/"
           mount == "mnt"
           file == "README"
           none == << >>
           both == <<mnt, readme>>
           dir == FS_DIRECTORY
           reg == FS_FILE
           text == Greeting
<1>1. Root \in NodeId /\ f \in [NodeId -> {f[n] : n \in NodeId}] /\ Root \in NodeId \cup {NULL}
      /\ NULL \in NodeId \cup {NULL}
  BY FileSystemAssumption DEF BootNodes
<1>2. none \in Seq(NodeId) /\ none \in Seq(Text) /\ both \in Seq(NodeId)
  <2>1. both \in Seq(NodeId)
    OBVIOUS
  <2>2. none \in Seq(NodeId) /\ none \in Seq(Text)
    BY EmptySeqs
  <2> HIDE DEF none, both
  <2>3. QED
    BY <2>1, <2>2
<1>3. text \in Seq(Text)
  <2>1. "r" \in Text
    BY TextAssumption
  <2>2. \A x \in Text : <<x, x>> \in Seq(Text)
    OBVIOUS
  <2>3. QED
    BY <2>1, <2>2 DEF Greeting
<1>4. slash \in Text /\ mount \in Text /\ file \in Text
  BY TextAssumption
<1>5. dir \in {FS_FILE, FS_DIRECTORY} /\ reg \in {FS_FILE, FS_DIRECTORY}
  OBVIOUS
<1>6. f[Root] = Node(slash, dir, NULL, both, none)
  <2>1. f[Root] = [FreeMemory EXCEPT !.name = "/", !.type = FS_DIRECTORY, !.children = <<mnt, readme>>]
    BY <1>1 DEF BootNodes
  <2>2. QED
    BY <2>1 DEF FreeMemory, Node
<1>7. f[mnt] = Node(mount, dir, Root, none, none)
  <2>1. f[mnt] = [FreeMemory EXCEPT !.name = "mnt", !.type = FS_DIRECTORY, !.parent = Root]
    BY DEF BootNodes
  <2>2. QED
    BY <2>1 DEF FreeMemory, Node
<1>8. f[readme] = Node(file, reg, Root, none, text)
  <2>1. f[readme] = [FreeMemory EXCEPT !.name = "README", !.parent = Root, !.data = Greeting]
    BY DEF BootNodes
  <2>2. QED
    BY <2>1 DEF FreeMemory, Node
<1>9. \A n \in NodeId \ {Root, mnt, readme} : f[n] = FreeMemory
  BY DEF BootNodes
<1> HIDE DEF f, slash, mount, file, none, both, dir, reg, text
<1>10. /\ f[Root] \in FSNode /\ f[Root].name = slash /\ f[Root].type = dir /\ f[Root].parent = NULL
       /\ f[Root].children = both /\ f[Root].data = none
  <2>1. IsNode(Node(slash, dir, NULL, both, none), slash, dir, NULL, both, none)
    BY <1>1, <1>2, <1>4, <1>5, NodeIs, Zenon
  <2>2. QED
    BY <1>6, <2>1, Zenon DEF IsNode
<1>11. /\ f[mnt] \in FSNode /\ f[mnt].name = mount /\ f[mnt].type = dir /\ f[mnt].parent = Root
       /\ f[mnt].children = none /\ f[mnt].data = none
  <2>1. IsNode(Node(mount, dir, Root, none, none), mount, dir, Root, none, none)
    BY <1>1, <1>2, <1>4, <1>5, NodeIs, Zenon
  <2>2. QED
    BY <1>7, <2>1, Zenon DEF IsNode
<1>12. /\ f[readme] \in FSNode /\ f[readme].name = file /\ f[readme].type = reg
       /\ f[readme].parent = Root /\ f[readme].children = none
  <2>1. IsNode(Node(file, reg, Root, none, text), file, reg, Root, none, text)
    BY <1>1, <1>2, <1>3, <1>4, <1>5, NodeIs, Zenon
  <2>2. QED
    BY <1>8, <2>1, Zenon DEF IsNode
<1>13. \A n \in NodeId \ {Root, mnt, readme} : f[n] \in FSNode /\ f[n].children = none
  BY <1>9, FreeMemoryNode DEF none
<1>14. f \in [NodeId -> FSNode]
  BY <1>1, <1>10, <1>11, <1>12, <1>13
<1>15. s.node = f /\ s.allocated = {Root, mnt, readme}
  BY DEF Booted, f
<1>16. \A n \in NodeId \ {Root} : f[n].children = none
  BY <1>11, <1>12, <1>13
<1>17. /\ s.node[Root].name = "/" /\ s.node[mnt].name = "mnt" /\ s.node[readme].name = "README"
  BY <1>10, <1>11, <1>12, <1>15 DEF slash, mount, file
<1>18. /\ s.node[Root].type = FS_DIRECTORY /\ s.node[mnt].type = FS_DIRECTORY
       /\ s.node[readme].type = FS_FILE
  BY <1>10, <1>11, <1>12, <1>15 DEF dir, reg
<1>19. /\ s.node[Root].children = <<mnt, readme>>
       /\ \A n \in NodeId \ {Root} : s.node[n].children = << >>
       /\ s.node[Root].data = << >> /\ s.node[mnt].data = << >>
  BY <1>10, <1>11, <1>15, <1>16 DEF both, none
<1>20. QED
  BY <1>10, <1>11, <1>12, <1>14, <1>15, <1>17, <1>18, <1>19 DEF Boots

LEMMA BootTree ==
  ASSUME NEW mnt \in NodeId \ {Root}, NEW readme \in NodeId \ {Root}, mnt # readme,
         NEW s \in FsState, Boots(s, mnt, readme)
  PROVE  Tree(s) /\ HiddenAreEmpty(s)
<1> DEFINE z == <<mnt, readme>>
<1>1. DOMAIN z = {1, 2} /\ z[1] = mnt /\ z[2] = readme /\ Len(z) = 2
  OBVIOUS
<1>2. DOMAIN << >> = {} /\ Len(<< >>) = 0
  OBVIOUS
<1>3. Root \in NodeId /\ MAX_CHILDREN \in Nat /\ MAX_CHILDREN >= 2
  BY FileSystemAssumption
<1>4. /\ s.allocated = {Root, mnt, readme} /\ s.node[Root].children = z
      /\ \A n \in NodeId \ {Root} : s.node[n].children = << >>
  BY DEF Boots
<1>5. s.node[Root].parent = NULL /\ s.node[mnt].parent = Root /\ s.node[readme].parent = Root
  BY DEF Boots
<1> HIDE DEF z
<1>6. \A n \in s.allocated : LinkedDown(s, n)
  BY <1>1, <1>2, <1>4, <1>5 DEF LinkedDown
<1>7. \A n \in s.allocated : LinkedUp(s, n)
  <2>1. LinkedUp(s, Root)
    BY <1>5 DEF LinkedUp
  <2>2. LinkedUp(s, mnt)
    BY <1>1, <1>4, <1>5 DEF LinkedUp
  <2>3. LinkedUp(s, readme)
    BY <1>1, <1>4, <1>5 DEF LinkedUp
  <2>4. QED
    BY <1>4, <2>1, <2>2, <2>3
<1>8. \A n \in s.allocated : s.node[n].type = FS_FILE => s.node[n].children = << >>
  <2>1. s.node[Root].type # FS_FILE
    BY DEF Boots, FS_FILE, FS_DIRECTORY
  <2>2. QED
    BY <1>4, <2>1
<1>9. \A n \in s.allocated : s.node[n].name \notin {".", ".."}
  <2>1. /\ s.node[Root].name = "/" /\ s.node[mnt].name = "mnt" /\ s.node[readme].name = "README"
    BY DEF Boots
  <2>2. QED
    BY <1>4, <2>1
<1>10. \A n \in NodeId : Len(s.node[n].children) <= MAX_CHILDREN
  <2>1. Len(s.node[Root].children) <= MAX_CHILDREN
    BY <1>1, <1>3, <1>4
  <2>2. \A n \in NodeId \ {Root} : Len(s.node[n].children) = 0
    BY <1>2, <1>4
  <2>3. \A n \in NodeId \ {Root} : Len(s.node[n].children) <= MAX_CHILDREN
    BY <1>3, <2>2
  <2>4. QED
    BY <2>1, <2>3
<1>11. Root \in s.allocated /\ s.node[Root].type = FS_DIRECTORY
  BY <1>4 DEF Boots
<1>12. Tree(s)
  BY <1>5, <1>6, <1>7, <1>8, <1>9, <1>10, <1>11 DEF Tree
<1>13. FirstOfName(s, readme)
  <2>1. s.node[mnt].name # s.node[readme].name
    BY DEF Boots
  <2>2. Root # NULL
    BY <1>3, Slots
  <2>3. \A i, j \in DOMAIN z : z[j] = readme /\ s.node[z[i]].name = s.node[readme].name => i = 2 /\ j = 2
    BY <1>1, <2>1
  <2>4. QED
    BY <1>4, <1>5, <2>2, <2>3 DEF FirstOfName
<1>14. \A n \in s.allocated : s.node[n].data # << >> => n = readme
  BY DEF Boots
<1>15. HiddenAreEmpty(s)
  BY <1>13, <1>14 DEF HiddenAreEmpty
<1>16. QED
  BY <1>12, <1>15

LEMMA BootGood ==
  ASSUME NEW mnt \in NodeId \ {Root}, NEW readme \in NodeId \ {Root}, mnt # readme,
         NEW s, s = Booted(mnt, readme)
  PROVE  Good(s) /\ \A h \in Handle : ~s.open_files[h].in_use
<1> DEFINE allocated == {Root, mnt, readme}
           nodes == BootNodes(mnt, readme)
           files == [h \in Handle |-> ClosedEntry]
           none == << >>
           fat == Disk(FALSE, {})
<1>1. s = [allocated |-> allocated, node |-> nodes, mounts |-> BootMounts, open_files |-> files,
           cwd |-> none, fat |-> fat]
  BY DEF Booted, Disk
<1>2. s.node \in [NodeId -> FSNode] /\ Boots(s, mnt, readme)
  BY BootIs
<1>3. allocated \in SUBSET NodeId
  BY FileSystemAssumption
<1>4. none \in Seq(Text) /\ \A i \in DOMAIN none : none[i] \notin {".", ".."}
  <2>1. none \in Seq(Text)
    BY EmptySeqs
  <2>2. DOMAIN none = {}
    OBVIOUS
  <2> HIDE DEF none
  <2>3. QED
    BY <2>1, <2>2
<1>5. fat \in [mounted : BOOLEAN, fds : SUBSET Fd] /\ fat.fds = {}
  BY DEF Disk
<1>6. ClosedEntry \in OpenEntry /\ ClosedEntry.in_use = FALSE
  BY DEF ClosedEntry, OpenEntry, FsHandle
<1>7. files \in [Handle -> OpenEntry] /\ \A h \in Handle : files[h] = ClosedEntry
  BY <1>6
<1>8. \A i \in Slot : /\ BootMounts[i] \in Mount
                      /\ BootMounts[i].mounted = (i = 1) /\ BootMounts[i].point = << >>
                      /\ BootMounts[i].ops = IF i = 1 THEN "ramfs" ELSE NULL
  <2> TAKE i \in Slot
  <2> DEFINE first == (i = 1)
             ops == IF i = 1 THEN "ramfs" ELSE NULL
             kinds == {"ramfs", "fat32", NULL}
             points == {<< >>, MNT_FAT32}
  <2>1. BootMounts[i] = [mounted |-> first, point |-> none, ops |-> ops]
    BY DEF BootMounts
  <2>2. first \in BOOLEAN
    OBVIOUS
  <2>3. ops \in kinds
    OBVIOUS
  <2>4. none \in points
    OBVIOUS
  <2>5. Mount = [mounted : BOOLEAN, point : points, ops : kinds]
    BY DEF Mount
  <2> HIDE DEF first, ops, kinds, points, none
  <2>6. BootMounts[i] \in Mount
    BY <2>1, <2>2, <2>3, <2>4, <2>5
  <2>7. BootMounts[i].mounted = first
    BY <2>1
  <2>8. BootMounts[i].point = none /\ BootMounts[i].ops = ops
    BY <2>1
  <2>9. QED
    BY <2>6, <2>7, <2>8, Zenon DEF first, none, ops
<1>10. BootMounts \in [Slot -> Mount]
  <2>1. \A i \in Slot : BootMounts[i] \in Mount
    BY <1>8
  <2>2. BootMounts = [i \in Slot |-> BootMounts[i]]
    BY DEF BootMounts
  <2>3. QED
    BY <2>1, <2>2
<1> HIDE DEF nodes, files, fat, none, allocated
<1>11. /\ s.allocated = allocated /\ s.node = nodes /\ s.mounts = BootMounts
       /\ s.open_files = files /\ s.cwd = none /\ s.fat = fat
  BY <1>1
<1>12. s \in FsState
  <2>1. nodes \in [NodeId -> FSNode]
    BY <1>2, <1>11
  <2>2. QED
    BY <1>1, <1>3, <1>4, <1>5, <1>7, <1>10, <2>1 DEF FsState
<1>13. Tree(s) /\ HiddenAreEmpty(s)
  BY <1>2, <1>12, BootTree
<1>14. MountsOK(s)
  <2>1. \A i \in Slot : s.mounts[i].mounted <=> s.mounts[i].ops # NULL
    BY <1>8, <1>11, OpsDiffer
  <2>2. \A i \in Slot : s.mounts[i].ops = "ramfs" => i = 1 /\ s.mounts[i].point = << >>
    BY <1>8, <1>11, OpsDiffer
  <2>3. \A i \in Slot : s.mounts[i].ops # "fat32"
    BY <1>8, <1>11, OpsDiffer
  <2>4. QED
    BY <2>1, <2>2, <2>3 DEF MountsOK
<1>15. \A h \in Handle : ~s.open_files[h].in_use
  BY <1>6, <1>7, <1>11
<1>16. HandlesOK(s)
  <2>1. {g \in Handle : OnDisk(s, g)} = {}
    BY <1>15 DEF OnDisk
  <2>2. s.fat.fds = {}
    BY <1>5, <1>11
  <2>3. s.fat.fds = {s.open_files[h].fs_handle : h \in {g \in Handle : OnDisk(s, g)}}
    BY <2>1, <2>2
  <2>4. QED
    BY <1>15, <2>3 DEF HandlesOK, OnDisk
<1>17. QED
  BY <1>4, <1>11, <1>12, <1>13, <1>14, <1>15, <1>16 DEF Good
\* A client at rest fits any state of the kernel, and holds nothing.
LEMMA InitInv ==
  ASSUME Init
  PROVE  FInv
<1>1. PICK mnt \in NodeId \ {Root}, readme \in NodeId \ {Root} :
          mnt # readme /\ fs \in fat32_vfs_mount(Booted(mnt, readme))
  BY DEF Init
<1> DEFINE s == Booted(mnt, readme)
<1>2. Good(s) /\ \A h \in Handle : ~s.open_files[h].in_use
  BY <1>1, BootGood
<1>3. fs \in fat32_vfs_mount(s)
  BY <1>1
<1> HIDE DEF s
<1>4. Good(fs) /\ fs.open_files = s.open_files
  BY <1>2, <1>3, MountStep DEF StepOK
<1>5. \A h \in Handle : ~fs.open_files[h].in_use
  BY <1>2, <1>4
<1>6. client = [c \in Client |-> AtRest] /\ wild = FALSE
  BY DEF Init
<1>7. \A c \in Client : client[c] = AtRest
  BY <1>6
<1>8. "shell" \in Client /\ "editor" \in Client
  BY DEF Client
<1>9. client \in [Client -> ClientState]
  BY <1>6, AtRestIs
<1>10. \A c \in Client : ClientOK(fs, client[c])
  <2>1. AtRest.pc \notin FileCalls /\ ~AtRest.file.in_use
    BY AtRestIs, ClosedFileIs, Kinds
  <2>2. QED
    BY <1>7, <2>1 DEF ClientOK
<1>11. Owned(fs, client)
  <2> DEFINE owner == [h \in Handle |-> "shell"]
  <2>1. owner \in [Handle -> Client]
    BY <1>8
  <2>2. Owns(fs, client, owner)
    BY <1>5 DEF Owns
  <2> HIDE DEF owner
  <2>3. QED
    BY <2>1, <2>2 DEF Owned
<1>12. OneEditor(client)
  BY <1>7, <1>8, AtRestIs DEF OneEditor
<1>13. Saving(fs, client["editor"])
  <2>1. client["editor"].pc = "idle"
    BY <1>7, <1>8, AtRestIs
  <2>2. QED
    BY <2>1, NotSaving
<1>14. QED
  BY <1>4, <1>6, <1>9, <1>10, <1>11, <1>12, <1>13 DEF FInv, ClientsOK
-----------------------------------------------------------------------------
(* The invariant and the properties                                        *)

LEMMA StutterInv ==
  ASSUME FInv, UNCHANGED vars
  PROVE  FInv'
BY DEF FInv, vars

LEMMA ClientStepInv ==
  ASSUME FInv, NEW c \in Client, ClientStep(c)
  PROVE  FInv'
<1>1. CASE never_returns(c)
  BY <1>1, NeverReturnsInv
<1>2. CASE spin(c)
  BY <1>2, StutterInv DEF spin
<1>3. CASE call_open(c)
  BY <1>3, OpenInv
<1>4. CASE call_create(c)
  BY <1>4, CreateInv
<1>5. CASE call_read(c)
  BY <1>5, ReadInv
<1>6. CASE call_write(c)
  BY <1>6, WriteInv
<1>7. CASE call_close(c)
  BY <1>7, CloseInv
<1>8. CASE call_stat_for_cd
  BY <1>8, StatForCdInv
<1>9. CASE call_chdir
  BY <1>9, ChdirInv
<1>10. CASE call_stat_for_edit
  BY <1>10, StatForEditInv
<1>11. CASE call_stat_of_parent
  BY <1>11, StatOfParentInv
<1>12. CASE call_mkdir
  BY <1>12, MkdirInv
<1>13. CASE mkdir_without_memory
  BY <1>13, MkdirWildInv
<1>14. CASE call_rmdir
  BY <1>14, RmdirInv
<1>15. CASE call_remove
  BY <1>15, RemoveInv
<1>16. CASE call_mount
  BY <1>16, MountInv
<1>17. CASE call_unmount
  BY <1>17, UnmountInv
<1>18. CASE call_remove_to_save
  BY <1>18, RemoveToSaveInv
<1>19. CASE call_seek
  BY <1>19, SeekInv
<1>20. QED
  BY <1>1, <1>2, <1>3, <1>4, <1>5, <1>6, <1>7, <1>8, <1>9, <1>10, <1>11, <1>12, <1>13,
     <1>14, <1>15, <1>16, <1>17, <1>18, <1>19 DEF ClientStep

(* Whatever the shell and the editor call, in whatever order, the tables   *)
(* of the kernel stay sound and fit what the two remember: the tree, the   *)
(* mounts, the open files and who holds them, and the editor's save.       *)
THEOREM FileSystemInvariant == Spec => []FInv
<1>1. Init => FInv
  BY InitInv
<1>2. FInv /\ [Next]_vars => FInv'
  <2> SUFFICES ASSUME FInv, [Next]_vars PROVE FInv'
    OBVIOUS
  <2>1. ASSUME NEW save \in BOOLEAN, editor_exit(save) PROVE FInv'
    BY <2>1, EditorExitInv
  <2>2. ASSUME NEW c \in Client, ClientStep(c) PROVE FInv'
    BY <2>2, ClientStepInv
  <2>3. CASE undefined \/ UNCHANGED vars
    BY <2>3, StutterInv DEF undefined
  <2>4. QED
    BY <2>1, <2>2, <2>3 DEF Next
<1>3. QED
  BY <1>1, <1>2, PTL DEF Spec

(* The tables and the clients keep their types, no directory has more      *)
(* children than its array holds, and the working directory has no dots    *)
(* left, after any commands (fs_add_child, vfs_chdir).                     *)
THEOREM FileSystemTypes == Spec => []TypeOK
<1>1. FInv => TypeOK
  BY DEF FInv, Good, Tree, ClientsOK, TypeOK
<1>2. QED
  BY <1>1, FileSystemInvariant, PTL

(* The RAM file system is a tree of live nodes, however many names are     *)
(* taken twice, directories full and addresses used again: no lookup walks *)
(* into freed memory (fs_add_child, fs_remove, fs_rmdir).                  *)
THEOREM TreeStaysSound == Spec => []TreeIsSound
<1>1. FInv => TreeIsSound
  <2> SUFFICES ASSUME FInv PROVE TreeIsSound
    OBVIOUS
  <2>1. Tree(fs)
    BY DEF FInv, Good
  <2>2. QED
    BY <2>1 DEF Tree, LinkedDown, LinkedUp, TreeIsSound
<1>2. QED
  BY <1>1, FileSystemInvariant, PTL

(* An open handle belongs to a mounted file system, and FAT32's table of   *)
(* open files has exactly the files the VFS has handles for, although an   *)
(* unmount closes handles behind their clients' backs (vfs_unmount).       *)
THEOREM HandlesStayMounted == Spec => []HandlesAreMounted
<1>1. FInv => HandlesAreMounted
  <2> SUFFICES ASSUME FInv PROVE HandlesAreMounted
    OBVIOUS
  <2>1. HandlesOK(fs)
    BY DEF FInv, Good
  <2>2. QED
    BY <2>1 DEF HandlesOK, OnDisk, HandlesAreMounted
<1>2. QED
  BY <1>1, FileSystemInvariant, PTL

\* The owners of the entries of one file are as many holders of it.
LEMMA OwnersAreHolders ==
  ASSUME FInv, NEW h \in Handle, fs.open_files[h].in_use
  PROVE  LET e == fs.open_files[h]
         IN  Cardinality(Entries(e.fs_handle, e.mount)) <= Cardinality(Holders(e.fs_handle, e.mount))
<1> DEFINE handle == fs.open_files[h].fs_handle
           mount == fs.open_files[h].mount
           E == Entries(handle, mount)
           H == Holders(handle, mount)
<1>1. PICK owner \in [Handle -> Client] : Owns(fs, client, owner)
  BY DEF FInv, ClientsOK, Owned
<1> DEFINE f == [g \in E |-> owner[g]]
<1> HIDE DEF handle, mount
<1>2. \A g \in E : g \in Handle /\ fs.open_files[g] = [in_use |-> TRUE, fs_handle |-> handle, mount |-> mount]
  BY DEF Entries
<1>3. \A g \in E : g \in Handle /\ fs.open_files[g].in_use /\ fs.open_files[g].fs_handle = handle
                   /\ fs.open_files[g].mount = mount
  BY <1>2
<1> HIDE DEF E
<1>4. \A g \in E : owner[g] \in H
  BY <1>1, <1>3 DEF Owns, Holders
<1>5. \A g, k \in E : owner[g] = owner[k] => g = k
  BY <1>1, <1>3 DEF Owns
<1> HIDE DEF H
<1>6. f \in Injection(E, H)
  <2>1. f \in [E -> H]
    BY <1>4
  <2>2. \A g, k \in E : f[g] = f[k] => g = k
    BY <1>5
  <2> HIDE DEF f
  <2>3. QED
    BY <2>1, <2>2 DEF Injection, IsInjective
<1>7. IsFiniteSet(H)
  <2>1. IsFiniteSet(Client)
    <3>1. Client = {"shell"} \cup {"editor"}
      BY DEF Client
    <3>2. IsFiniteSet({"shell"}) /\ IsFiniteSet({"editor"})
      BY FS_Singleton
    <3>3. QED
      BY <3>1, <3>2, FS_Union
  <2>2. H \in SUBSET Client
    BY DEF H, Holders
  <2>3. QED
    BY <2>1, <2>2, FS_Subset
<1> HIDE DEF f
<1>8. Cardinality(E) <= Cardinality(H)
  BY <1>6, <1>7, FS_Injection
<1>9. QED
  BY <1>8 DEF E, H, handle, mount

(* No handle leaks: the table never holds more handles of a file than      *)
(* there are clients with that file open, although vfs_close cannot tell   *)
(* two opens of one file apart and an address may be used again.           *)
THEOREM NoHandlesLeak == Spec => []NoHandleLeaks
<1>1. FInv => NoHandleLeaks
  BY OwnersAreHolders DEF NoHandleLeaks
<1>2. QED
  BY <1>1, FileSystemInvariant, PTL

(* A save that nobody interfered with is exact: the path the editor        *)
(* reports as saved leads to its text and to nothing else, whatever        *)
(* duplicates of the name there are (Editor::exit).                        *)
THEOREM SavesAreExact == Spec => []SaveIsExact
<1>1. FInv => SaveIsExact
  <2> SUFFICES ASSUME FInv PROVE SaveIsExact
    OBVIOUS
  <2>1. Saving(fs, client["editor"])
    BY DEF FInv, ClientsOK
  <2>2. QED
    BY <2>1 DEF Saving, SaveIsExact
<1>2. QED
  BY <1>1, FileSystemInvariant, PTL

\* A path with one more component resolves to what that component makes of it.
LEMMA ResolveAppend ==
  ASSUME NEW p \in Seq(Text), NEW name \in Text
  PROVE  vfs_resolve_dots(Append(p, name)) = ResolveComponent(vfs_resolve_dots(p), name)
<1> DEFINE q == Append(p, name)
           n == Len(p)
<1>1. /\ q \in Seq(Text) /\ Len(q) = n + 1 /\ n \in Nat
      /\ \A j \in 1 .. n : q[j] = p[j]
      /\ q[n + 1] = name
  BY AppendElements
<1> HIDE DEF q
<1>2. PICK f : IsResolution(f, p, Len(p)) /\ vfs_resolve_dots(p) = f[Len(p)]
  BY ResolvedBy
<1>3. PICK g : IsResolution(g, q, Len(q)) /\ vfs_resolve_dots(q) = g[Len(q)]
  BY <1>1, ResolvedBy
<1>4. \A i \in 0 .. n : f[i] = g[i]
  BY <1>1, <1>2, <1>3, ResolutionsAgree
<1>5. g[Len(q)] = ResolveComponent(g[Len(q) - 1], q[Len(q)])
  BY <1>1, <1>3, ResolutionSteps
<1>6. g[n] = f[n] /\ Len(q) - 1 = n
  BY <1>1, <1>4
<1>7. QED
  BY <1>1, <1>2, <1>3, <1>5, <1>6 DEF q

\* What is listed is the name of a child or of a mount, and no dots.
LEMMA ListedNames ==
  ASSUME NEW s, Good(s), NEW p \in Seq(Text), NEW d \in s.allocated,
         d = fs_find_by_path(s, vfs_resolve_path(s, p).path),
         NEW name \in vfs_readdir(s, p)
  PROVE  /\ name \in Text /\ name \notin {".", ".."}
         /\ \/ \E i \in DOMAIN s.node[d].children : s.node[s.node[d].children[i]].name = name
            \/ \E i \in Slot : /\ s.mounts[i].mounted
                               /\ s.mounts[i].point = Append(vfs_resolve_dots(p), name)
<1>1. s \in FsState /\ Tree(s)
  BY DEF Good
<1>2. CASE \E i \in DOMAIN s.node[d].children : s.node[s.node[d].children[i]].name = name
  <2>1. PICK i \in DOMAIN s.node[d].children : s.node[s.node[d].children[i]].name = name
    BY <1>2
  <2> DEFINE c == s.node[d].children[i]
  <2>2. c \in s.allocated
    BY <1>1, <2>1 DEF Tree, LinkedDown
  <2> HIDE DEF c
  <2>3. s.node[c].name \notin {".", ".."}
    BY <1>1, <2>2 DEF Tree
  <2>4. c \in NodeId
    BY <1>1, <2>2, StateFields
  <2>5. s.node[c].name \in Text
    BY <1>1, <2>4, NodeFields
  <2>6. s.node[c].name = name
    BY <2>1 DEF c
  <2>7. QED
    BY <1>2, <2>3, <2>5, <2>6
<1>3. CASE name \in MountPointNames(s, p)
  <2>1. PICK i \in Slot : /\ s.mounts[i].mounted /\ s.mounts[i].point # << >>
                          /\ Front(s.mounts[i].point) = vfs_resolve_dots(p)
                          /\ Last(s.mounts[i].point) = name
    BY <1>3 DEF MountPointNames
  <2>2. s.mounts[i].point \in {<< >>, MNT_FAT32}
    BY <1>1, <2>1, StateFields, MountFields
  <2>3. s.mounts[i].point = MNT_FAT32
    BY <2>1, <2>2
  <2>4. MNT_FAT32 \in Seq(Text)
    BY Points
  <2>5. Last(MNT_FAT32) = "fat32"
    BY DEF MNT_FAT32, Last
  <2>6. MNT_FAT32 # << >>
    BY <2>1, <2>3
  <2>7. MNT_FAT32 = Append(ParentPath(MNT_FAT32), NameOf(MNT_FAT32))
    BY <2>4, <2>6, PathParts
  <2>8. ParentPath(MNT_FAT32) = Front(MNT_FAT32) /\ NameOf(MNT_FAT32) = Last(MNT_FAT32)
    BY <2>6, Zenon DEF ParentPath, NameOf
  <2>9. name = "fat32"
    BY <2>1, <2>3, <2>5
  <2>10. s.mounts[i].point = Append(vfs_resolve_dots(p), name)
    BY <2>1, <2>3, <2>7, <2>8, Zenon
  <2>11. name \in Text /\ name \notin {".", ".."}
    BY <2>9, TextAssumption
  <2>12. QED
    BY <2>1, <2>10, <2>11
<1>4. QED
  BY <1>2, <1>3 DEF vfs_readdir

\* Types are answers other than that nothing is there.
LEMMA AnswersDiffer ==
  VFS_NOT_FOUND # FS_FILE /\ VFS_NOT_FOUND # FS_DIRECTORY
BY DEF VFS_NOT_FOUND, FS_FILE, FS_DIRECTORY

\* A directory of the RAM file system is where the normalised path leads in it.
LEMMA RamDirectory ==
  ASSUME NEW s, Good(s), NEW p \in Seq(Text), vfs_resolve_path(s, p).ops = "ramfs"
  PROVE  LET at == vfs_resolve_path(s, p)
         IN  /\ at.mount \in Slot /\ s.mounts[at.mount].mounted
             /\ s.mounts[at.mount].point = << >>
             /\ at.path = vfs_resolve_dots(p)
             /\ \A i \in Slot : s.mounts[i].mounted /\ IsPrefix(s.mounts[i].point, at.path) =>
                    Len(s.mounts[i].point) = 0
<1> DEFINE at == vfs_resolve_path(s, p)
           whole == vfs_resolve_dots(p)
           m == at.mount
<1>1. s \in FsState /\ MountsOK(s)
  BY DEF Good
<1>2. /\ at.path \in Seq(Text) /\ whole \in Seq(Text)
      /\ m = NO_MOUNT => at.ops = NULL
      /\ m # NO_MOUNT => /\ m \in Slot /\ s.mounts[m].mounted
                         /\ at.ops = s.mounts[m].ops
                         /\ s.mounts[m].point \o at.path = whole
      /\ \A i \in Slot : s.mounts[i].mounted /\ IsPrefix(s.mounts[i].point, whole) =>
             m # NO_MOUNT /\ Len(s.mounts[i].point) <= Len(s.mounts[m].point)
  BY <1>1, ResolvePath
<1> HIDE DEF at, whole, m
<1>3. at.ops = "ramfs"
  BY DEF at
<1>4. m \in Slot /\ s.mounts[m].mounted /\ s.mounts[m].ops = "ramfs"
      /\ s.mounts[m].point \o at.path = whole
  BY <1>2, <1>3, OpsDiffer
<1>5. s.mounts[m].point = << >>
  BY <1>1, <1>4 DEF MountsOK
<1>6. at.path = whole
  <2>1. << >> \o at.path = at.path
    BY <1>2
  <2>2. QED
    BY <1>4, <1>5, <2>1
<1>7. \A i \in Slot : s.mounts[i].mounted /\ IsPrefix(s.mounts[i].point, whole) =>
          Len(s.mounts[i].point) = 0
  <2> TAKE i \in Slot
  <2> HAVE s.mounts[i].mounted /\ IsPrefix(s.mounts[i].point, whole)
  <2>1. Len(s.mounts[i].point) <= Len(s.mounts[m].point)
    BY <1>2
  <2>2. Len(s.mounts[m].point) = 0
    BY <1>5
  <2>3. s.mounts[i].point \in Seq(Text)
    BY <1>1, StateFields, MountFields, Points
  <2>4. Len(s.mounts[i].point) \in Nat
    BY <2>3
  <2>5. QED
    BY <2>1, <2>2, <2>4
<1>8. QED
  BY <1>4, <1>5, <1>6, <1>7 DEF at, whole, m
\* What is before the last component of a path begins it without that component.
LEMMA PrefixOfFront ==
  ASSUME NEW a \in Seq(Text), NEW b \in Seq(Text), NEW c \in Seq(Text), NEW x \in Text,
         a \o b = Append(c, x), b # << >>
  PROVE  IsPrefix(a, c)
<1> DEFINE z == Append(c, x)
           n == Len(a)
           y == SubSeq(a, 1, n)
           w == SubSeq(c, 1, n)
<1>1. n \in Nat /\ Len(b) \in Nat /\ Len(c) \in Nat /\ Len(b) # 0
  OBVIOUS
<1>2. Len(z) = Len(c) + 1 /\ \A i \in 1 .. Len(c) : z[i] = c[i]
  BY AppendElements
<1>3. Len(z) = n + Len(b) /\ \A i \in 1 .. n : z[i] = a[i]
  <2>1. Len(a \o b) = n + Len(b) /\ \A i \in 1 .. n : (a \o b)[i] = a[i]
    BY ConcatElements
  <2>2. QED
    BY <2>1
<1> HIDE DEF z, n
<1>4. n <= Len(c)
  BY <1>1, <1>2, <1>3
<1>5. \A i \in 1 .. n : a[i] = c[i]
  BY <1>1, <1>2, <1>3, <1>4
<1>6. y \in Seq(Text) /\ Len(y) = n /\ \A i \in 1 .. n : y[i] = a[i]
  BY <1>1, SubSeqElements DEF n
<1>7. w \in Seq(Text) /\ Len(w) = n /\ \A i \in 1 .. n : w[i] = c[i]
  BY <1>1, <1>4, SubSeqElements
<1> HIDE DEF y, w
<1>8. y = w
  BY <1>5, <1>6, <1>7, SeqEqual
<1>9. QED
  BY <1>4, <1>8 DEF IsPrefix, y, w, n

LEMMA PrefixOfItself ==
  ASSUME NEW a \in Seq(Text)
  PROVE  IsPrefix(a, a)
BY DEF IsPrefix

LEMMA ListedFound ==
  ASSUME NEW s, Good(s), NEW p \in Seq(Text), vfs_resolve_path(s, p).ops = "ramfs",
         vfs_stat(s, p) = {FS_DIRECTORY}, NEW name \in vfs_readdir(s, p)
  PROVE  VFS_NOT_FOUND \notin vfs_stat(s, Append(p, name))
<1> DEFINE at == vfs_resolve_path(s, p)
           whole == vfs_resolve_dots(p)
           d == fs_find_by_path(s, at.path)
           q == Append(p, name)
           there == vfs_resolve_path(s, q)
           n == fs_find_by_path(s, there.path)
<1>1. s \in FsState /\ Tree(s) /\ MountsOK(s)
  BY DEF Good
<1>2. /\ at.mount \in Slot /\ s.mounts[at.mount].mounted /\ s.mounts[at.mount].point = << >>
      /\ at.path = whole
      /\ \A i \in Slot : s.mounts[i].mounted /\ IsPrefix(s.mounts[i].point, whole) =>
             Len(s.mounts[i].point) = 0
  BY RamDirectory
<1>3. whole \in Seq(Text)
  BY ResolveDots
<1>4. vfs_stat(s, p) = {IF d = NULL THEN VFS_NOT_FOUND ELSE s.node[d].type}
  BY DEF vfs_stat
<1>5. d # NULL /\ s.node[d].type = FS_DIRECTORY
  BY <1>4, AnswersDiffer
<1>6. d \in s.allocated
  BY <1>1, <1>2, <1>3, <1>5, FindInTree
<1>7. /\ name \in Text /\ name \notin {".", ".."}
      /\ \/ \E i \in DOMAIN s.node[d].children : s.node[s.node[d].children[i]].name = name
         \/ \E i \in Slot : s.mounts[i].mounted /\ s.mounts[i].point = Append(whole, name)
  BY <1>6, ListedNames
<1>8. q \in Seq(Text)
  BY <1>7
<1>9. vfs_resolve_dots(q) = ResolveComponent(whole, name)
  BY <1>7, ResolveAppend
<1>10. vfs_stat(s, q) = CASE there.ops = "ramfs" -> {IF n = NULL THEN VFS_NOT_FOUND ELSE s.node[n].type}
          [] there.ops = "fat32" -> IF there.path = << >> THEN {FS_DIRECTORY}
                                    ELSE {FS_FILE, FS_DIRECTORY, VFS_NOT_FOUND}
          [] OTHER -> {VFS_NOT_FOUND}
  BY DEF vfs_stat
<1> HIDE DEF at, whole, d, q, there, n
<1>11. CASE Len(whole) >= MAX_COMPONENTS
  <2>1. vfs_resolve_dots(q) = vfs_resolve_dots(p)
    BY <1>9, <1>11 DEF ResolveComponent, whole
  <2>2. vfs_resolve_path(s, q) = vfs_resolve_path(s, p)
    BY <2>1 DEF vfs_resolve_path
  <2>3. vfs_stat(s, q) = vfs_stat(s, p)
    BY <2>2 DEF vfs_stat
  <2>4. QED
    BY <2>3, AnswersDiffer DEF q
<1>12. CASE ~(Len(whole) >= MAX_COMPONENTS)
  <2> DEFINE long == Append(whole, name)
             m == there.mount
  <2>1. vfs_resolve_dots(q) = long
    BY <1>7, <1>9, <1>12 DEF ResolveComponent
  <2>2. long \in Seq(Text)
    BY <1>3, <1>7
  <2>3. /\ there.path \in Seq(Text)
        /\ m # NO_MOUNT => /\ m \in Slot /\ s.mounts[m].mounted
                           /\ there.ops = s.mounts[m].ops
                           /\ s.mounts[m].point \o there.path = vfs_resolve_dots(q)
        /\ \A i \in Slot : s.mounts[i].mounted /\ IsPrefix(s.mounts[i].point, vfs_resolve_dots(q)) =>
               m # NO_MOUNT /\ Len(s.mounts[i].point) <= Len(s.mounts[m].point)
    BY <1>1, <1>8, ResolvePath DEF there
  <2>4. m # NO_MOUNT
    <3>1. IsPrefix(<< >>, vfs_resolve_dots(q))
      BY <2>1, <2>2 DEF IsPrefix
    <3>2. QED
      BY <1>2, <2>3, <3>1
  <2> HIDE DEF m, long
  <2>5. m \in Slot /\ s.mounts[m].mounted /\ there.ops = s.mounts[m].ops
        /\ s.mounts[m].point \o there.path = long
    BY <2>1, <2>3, <2>4
  <2>6. s.mounts[m].ops \in {"ramfs", "fat32"}
    <3>1. s.mounts[m].ops \in {"ramfs", "fat32", NULL}
      BY <1>1, <2>5, MountFields
    <3>2. s.mounts[m].ops # NULL
      BY <1>1, <2>5 DEF MountsOK
    <3>3. QED
      BY <3>1, <3>2
  <2>7. CASE s.mounts[m].ops = "fat32"
    <3>1. s.mounts[m].point = MNT_FAT32
      BY <1>1, <2>5, <2>7 DEF MountsOK
    <3>2. ~IsPrefix(MNT_FAT32, whole)
      BY <1>2, <2>5, <3>1, Points
    <3>3. there.path = << >>
      BY <1>3, <1>7, <2>3, <2>5, <3>1, <3>2, Points, PrefixOfFront DEF long
    <3>4. there.ops = "fat32"
      BY <2>5, <2>7
    <3>5. vfs_stat(s, q) = {FS_DIRECTORY}
      BY <1>10, <3>3, <3>4, OpsDiffer
    <3>6. QED
      BY <3>5, AnswersDiffer DEF q
  <2>8. CASE s.mounts[m].ops = "ramfs"
    <3>1. s.mounts[m].point = << >>
      BY <1>1, <2>5, <2>8 DEF MountsOK
    <3>2. there.path = long
      <4>1. << >> \o there.path = there.path
        BY <2>3
      <4>2. QED
        BY <2>5, <3>1, <4>1
    <3>3. ~\E i \in Slot : s.mounts[i].mounted /\ s.mounts[i].point = long
      <4> SUFFICES ASSUME NEW i \in Slot, s.mounts[i].mounted, s.mounts[i].point = long PROVE FALSE
        OBVIOUS
      <4>1. Len(long) <= Len(s.mounts[m].point)
        BY <2>1, <2>2, <2>3, PrefixOfItself
      <4>2. Len(s.mounts[m].point) = 0
        BY <3>1
      <4>3. Len(long) = Len(whole) + 1 /\ Len(whole) \in Nat
        BY <1>3, <1>7, AppendElements DEF long
      <4>4. QED
        BY <4>1, <4>2, <4>3
    <3>4. PICK i \in DOMAIN s.node[d].children : s.node[s.node[d].children[i]].name = name
      BY <1>7, <3>3 DEF long
    <3>5. ~NoneNamed(s, d, name)
      BY <1>5, <3>4 DEF NoneNamed
    <3>6. n = fs_find_child(s, d, name)
      BY <1>2, <1>3, <1>7, <3>2, FindLast DEF n, long, d
    <3>7. n # NULL /\ n \in s.allocated
      <4>1. n \in s.allocated \cup {NULL}
        BY <1>1, <2>3, FindInTree DEF n
      <4>2. n # NULL
        BY <1>1, <1>6, <3>5, <3>6, FindChild, StateFields
      <4>3. QED
        BY <4>1, <4>2
    <3>8. s.node[n].type \in {FS_FILE, FS_DIRECTORY}
      BY <1>1, <3>7, StateFields, NodeFields
    <3>9. vfs_stat(s, q) = {s.node[n].type}
      <4>1. there.ops = "ramfs"
        BY <2>5, <2>8
      <4>2. QED
        BY <1>10, <3>7, <4>1
    <3>10. QED
      BY <3>8, <3>9, AnswersDiffer DEF q
  <2>9. QED
    BY <2>6, <2>7, <2>8
<1>13. QED
  BY <1>11, <1>12

(* Whatever a directory lists can be looked up under that directory, mount *)
(* points included, and although a path that fills the array of components *)
(* takes no more (vfs_readdir, vfs_stat).                                  *)
THEOREM ListedAreFound == Spec => []ListedIsFound
<1>1. FInv => ListedIsFound
  <2> SUFFICES ASSUME FInv, NEW p \in TypedPaths, vfs_resolve_path(fs, p).ops = "ramfs",
                      vfs_stat(fs, p) = {FS_DIRECTORY}, NEW name \in vfs_readdir(fs, p) \ {""}
               PROVE  VFS_NOT_FOUND \notin vfs_stat(fs, Append(p, name))
    BY DEF ListedIsFound
  <2>1. Good(fs)
    BY DEF FInv
  <2>2. p \in Seq(Text)
    BY CommandsAssumption DEF TypedPaths
  <2>3. QED
    BY <2>1, <2>2, ListedFound
<1>2. QED
  BY <1>1, FileSystemInvariant, PTL
=============================================================================
