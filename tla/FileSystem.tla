----------------------------- MODULE FileSystem -----------------------------
(***************************************************************************)
(* The virtual file system (vfs.cpp) over the RAM file system (ramfs.cpp,  *)
(* ramfs_vfs.cpp) and the handle side of the FAT32 adapter                 *)
(* (fat32_vfs.cpp), with their clients: the shell's file commands and the  *)
(* editor, which are processes that preempt each other between any two     *)
(* calls.  A call of the VFS is one action; what preemption inside one     *)
(* call can do is left to the hazards listed in PROJECT.json.              *)
(*                                                                         *)
(* A path is the sequence of its components, the root the empty sequence.  *)
(* A FSNode pointer is the node's name in NodeId; a freed node's name may  *)
(* be handed out again.  fd_table is left out: fs_open's only caller,      *)
(* sys_open, is not a system call, so the table stays empty and the loops  *)
(* over it in fs_remove and fs_rmdir never refuse.  What is on the FAT32   *)
(* disk is not modelled: what its operations answer is a free choice.      *)
(***************************************************************************)
EXTENDS Integers, Sequences, FiniteSets, SequencesExt

CONSTANTS NodeId,              \* the addresses kmalloc can give a FSNode
          Root,                \* the root directory, which is never freed
          VFS_MAX_MOUNTS,
          VFS_MAX_OPEN_FILES,
          FAT32_MAX_OPEN_FILES,
          MAX_CHILDREN,
          MAX_COMPONENTS,      \* the array components of vfs_resolve_dots
          Text,                \* names in a path, and the pieces of what a file holds
          DiskPresent,         \* whether there is a disk to mount
          CommandLines,        \* bound: what is typed at the shell
          MAX_DEPTH            \* bound: components of a path that is typed

\* The first call of each command; a command is a sequence of calls.
FirstCalls == {"cd_stat", "cat_open", "touch", "mkdir", "rm", "rmdir",
               "echo_create", "edit_stat"}

ASSUME FileSystemAssumption ==
    /\ IsFiniteSet(NodeId)
    /\ Root \in NodeId /\ "NULL" \notin NodeId
    /\ VFS_MAX_MOUNTS \in Nat /\ VFS_MAX_MOUNTS >= 2
    /\ VFS_MAX_OPEN_FILES \in Nat \ {0}
    /\ FAT32_MAX_OPEN_FILES \in Nat \ {0}
    /\ MAX_CHILDREN \in Nat /\ MAX_CHILDREN >= 2
    /\ MAX_COMPONENTS \in Nat \ {0}
    /\ DiskPresent \in BOOLEAN
    /\ MAX_DEPTH \in Nat

\* The names and texts that the kernel and its clients use by themselves.
ASSUME TextAssumption ==
    {"", "/", "mnt", "fat32", "README", "r", "t", "n", "e"} \subseteq Text

ASSUME CommandsAssumption ==
    \A line \in CommandLines : /\ line.call \in FirstCalls
                               /\ line.absolute \in BOOLEAN
                               /\ line.parts \in Seq(Text)

VARIABLES fs,        \* what the kernel keeps, see FsState
          client,    \* where the shell and the editor are, see ClientState
          wild       \* freed or null memory was used: anything may follow

vars == <<fs, client, wild>>

NULL == "NULL"
NO_MOUNT == 0                             \* the null vfs_mount_t pointer
Client == {"shell", "editor"}
Slot == 1 .. VFS_MAX_MOUNTS
Handle == 1 .. VFS_MAX_OPEN_FILES
Fd == 1 .. FAT32_MAX_OPEN_FILES

\* The program's error codes.
VFS_SUCCESS == "VFS_SUCCESS"
VFS_ERROR == "VFS_ERROR"
VFS_NOT_FOUND == "VFS_NOT_FOUND"
VFS_NO_SPACE == "VFS_NO_SPACE"

FS_FILE == "FS_FILE"
FS_DIRECTORY == "FS_DIRECTORY"

MNT_FAT32 == <<"mnt", "fat32">>           \* the only place FAT32 is mounted

\* The texts the clients write.
Greeting == <<"r", "r">>                  \* kernel_main, to /README
EchoText == <<"t">>
Newline == <<"n">>
EditorText == <<"e">>                     \* one line; shorter than Greeting

-----------------------------------------------------------------------------
(* ramfs.cpp: the tree.                                                    *)

FSNode == [name : Text, type : {FS_FILE, FS_DIRECTORY},
           parent : NodeId \cup {NULL}, children : Seq(NodeId),
           data : Seq(Text)]

FreeMemory == [name |-> "", type |-> FS_FILE, parent |-> NULL,
               children |-> << >>, data |-> << >>]

FirstOf(S) == CHOOSE i \in S : \A j \in S : i <= j

FreeNodes(s) == NodeId \ s.allocated

fs_create_node(s, id, name, type) ==
    [s EXCEPT !.allocated = @ \cup {id},
              !.node[id] = [FreeMemory EXCEPT !.name = name, !.type = type]]

\* Mutant: one child too many.
fs_add_child_OffByOne(s, parent, child) ==
    IF Len(s.node[parent].children) > MAX_CHILDREN THEN s
    ELSE [s EXCEPT !.node[parent].children = Append(@, child),
                   !.node[child].parent = parent]

\* A full directory drops the child, and its caller is not told.
fs_add_child(s, parent, child) ==
    IF Len(s.node[parent].children) >= MAX_CHILDREN THEN s
    ELSE [s EXCEPT !.node[parent].children = Append(@, child),
                   !.node[child].parent = parent]

\* Takes the child out where it is found first.
fs_remove_child(s, parent, child) ==
    LET places == {i \in DOMAIN s.node[parent].children :
                       s.node[parent].children[i] = child}
    IN  IF places = {} THEN s
        ELSE [s EXCEPT !.node[parent].children = RemoveAt(@, FirstOf(places))]

fs_free_node(s, id) ==
    [s EXCEPT !.allocated = @ \ {id}, !.node[id] = FreeMemory]

\* The first child of that name; there may be several.
fs_find_child(s, parent, name) ==
    IF parent = NULL \/ s.node[parent].type # FS_DIRECTORY THEN NULL
    ELSE LET named == {i \in DOMAIN s.node[parent].children :
                           s.node[s.node[parent].children[i]].name = name}
         IN  IF named = {} THEN NULL ELSE s.node[parent].children[FirstOf(named)]

fs_find_by_path(s, path) ==
    LET reached[i \in 0 .. Len(path)] ==
            IF i = 0 THEN Root ELSE fs_find_child(s, reached[i - 1], path[i])
    IN  reached[Len(path)]

\* split_path: "/" splits into the parent "/" and the empty name.
ParentPath(path) == IF path = << >> THEN << >> ELSE Front(path)
NameOf(path) == IF path = << >> THEN "" ELSE Last(path)

IsDirectory(s, n) == n # NULL /\ s.node[n].type = FS_DIRECTORY
IsFile(s, n) == n # NULL /\ s.node[n].type = FS_FILE

\* fs_touch and fs_mkdir: neither looks whether the name is taken.
AddNode(s, path, id, type) ==
    LET parent == fs_find_by_path(s, ParentPath(path))
    IN  fs_add_child(fs_create_node(s, id, NameOf(path), type), parent, id)

Unlink(s, n) == fs_free_node(fs_remove_child(s, s.node[n].parent, n), n)

\* Mutant: a directory may go although it has children.
fs_rmdir_allowed_NotEmpty(s, path) ==
    path # << >> /\ IsDirectory(s, fs_find_by_path(s, path))

fs_rmdir_allowed(s, path) ==
    /\ path # << >>
    /\ IsDirectory(s, fs_find_by_path(s, path))
    /\ s.node[fs_find_by_path(s, path)].children = << >>

fs_remove_allowed(s, path) == IsFile(s, fs_find_by_path(s, path))

-----------------------------------------------------------------------------
(* vfs.cpp: paths, mounts and handles.                                     *)

\* One token of vfs_resolve_dots; components beyond the array are ignored.
ResolveComponent(path, token) ==
    IF Len(path) >= MAX_COMPONENTS THEN path
    ELSE IF token = ".." THEN ParentPath(path)
    ELSE Append(path, token)

vfs_resolve_dots(path) ==
    LET resolved[i \in 0 .. Len(path)] ==
            IF i = 0 THEN << >> ELSE ResolveComponent(resolved[i - 1], path[i])
    IN  resolved[Len(path)]

\* On a "." the loop continues without fetching the next token.
NeverReturns(path) ==
    \E i \in DOMAIN path :
        /\ path[i] = "."
        /\ Len(vfs_resolve_dots(SubSeq(path, 1, i - 1))) < MAX_COMPONENTS

vfs_find_mount(s, path) ==
    LET fits == {i \in Slot : s.mounts[i].mounted
                                 /\ IsPrefix(s.mounts[i].point, path)}
    IN  IF fits = {} THEN NO_MOUNT
        ELSE CHOOSE i \in fits : \A j \in fits :
                 Len(s.mounts[j].point) <= Len(s.mounts[i].point)

\* The mount of a path, its file system and the path within that.
vfs_resolve_path(s, path) ==
    LET whole == vfs_resolve_dots(path)
        m == vfs_find_mount(s, whole)
    IN  IF m = NO_MOUNT THEN [mount |-> m, ops |-> NULL, path |-> << >>]
        ELSE [mount |-> m, ops |-> s.mounts[m].ops,
              path |-> SubSeq(whole, Len(s.mounts[m].point) + 1, Len(whole))]

\* Mutant: a mount point is listed after it was unmounted.
MountPointNames_Stale(s, path) ==
    {Last(s.mounts[i].point) : i \in {j \in Slot :
        s.mounts[j].point # << >> /\ Front(s.mounts[j].point) = vfs_resolve_dots(path)}}

\* The mount points that are direct children of a directory.
MountPointNames(s, path) ==
    {Last(s.mounts[i].point) : i \in {j \in Slot :
        /\ s.mounts[j].mounted
        /\ s.mounts[j].point # << >>
        /\ Front(s.mounts[j].point) = vfs_resolve_dots(path)}}

\* What a directory of the RAM file system lists.
vfs_readdir(s, path) ==
    LET dir == s.node[fs_find_by_path(s, vfs_resolve_path(s, path).path)]
    IN  {s.node[dir.children[i]].name : i \in DOMAIN dir.children}
            \cup MountPointNames(s, path)

\* The answers stat can give: a type, or that nothing is there.
vfs_stat(s, path) ==
    LET at == vfs_resolve_path(s, path)
        n == fs_find_by_path(s, at.path)
    IN  CASE at.ops = "ramfs" -> {IF n = NULL THEN VFS_NOT_FOUND ELSE s.node[n].type}
          [] at.ops = "fat32" -> IF at.path = << >> THEN {FS_DIRECTORY}
                                 ELSE {FS_FILE, FS_DIRECTORY, VFS_NOT_FOUND}
          [] OTHER -> {VFS_NOT_FOUND}

\* A path of the RAM file system whose parent is a directory.
HasParent(s, at) ==
    at.ops = "ramfs" /\ IsDirectory(s, fs_find_by_path(s, ParentPath(at.path)))

\* The file systems after touching path: a node of any free address, or none
\* when the parent is no directory or memory is short.
vfs_create(s, path) ==
    LET at == vfs_resolve_path(s, path)
    IN  {s} \cup IF HasParent(s, at)
                 THEN {AddNode(s, at.path, id, FS_FILE) : id \in FreeNodes(s)}
                 ELSE {}

vfs_mkdir(s, path) ==
    LET at == vfs_resolve_path(s, path)
    IN  IF HasParent(s, at)
        THEN {AddNode(s, at.path, id, FS_DIRECTORY) : id \in FreeNodes(s)}
        ELSE {s}

vfs_rmdir(s, path) ==
    LET at == vfs_resolve_path(s, path)
    IN  IF at.ops = "ramfs" /\ fs_rmdir_allowed(s, at.path)
        THEN Unlink(s, fs_find_by_path(s, at.path))
        ELSE s

vfs_remove(s, path) ==
    LET at == vfs_resolve_path(s, path)
    IN  IF at.ops = "ramfs" /\ fs_remove_allowed(s, at.path)
        THEN Unlink(s, fs_find_by_path(s, at.path))
        ELSE s

\* The adapters map every failure of a removal to VFS_ERROR.
RemoveResults(s, path) ==
    LET at == vfs_resolve_path(s, path)
    IN  CASE at.ops = "ramfs" -> {IF fs_remove_allowed(s, at.path) THEN VFS_SUCCESS
                                  ELSE VFS_ERROR}
          [] at.ops = "fat32" -> {VFS_SUCCESS, VFS_ERROR}
          [] OTHER -> {VFS_NOT_FOUND}

ClosedFile == [in_use |-> FALSE, fs_handle |-> 0, mount |-> NO_MOUNT,
               position |-> 0, dangling |-> FALSE]
OpenedFile(handle, mount) ==
    [ClosedFile EXCEPT !.in_use = TRUE, !.fs_handle = handle, !.mount = mount]
ClosedEntry == [in_use |-> FALSE, fs_handle |-> 0, mount |-> NO_MOUNT]

FreeHandles(s) == {h \in Handle : ~s.open_files[h].in_use}

\* The handles that the file system's own open can give; a disk's is a free
\* descriptor, if there is one and the path names a file.
FsHandles(s, at) ==
    IF at.ops = "ramfs"
    THEN LET n == fs_find_by_path(s, at.path)
         IN  IF IsFile(s, n) THEN {n} ELSE {}
    ELSE IF at.path = << >> \/ Fd \subseteq s.fat.fds THEN {}
    ELSE {FirstOf(Fd \ s.fat.fds)}

FsErrors(s, at) ==
    IF at.ops = "ramfs"
    THEN LET n == fs_find_by_path(s, at.path)
         IN  IF n = NULL THEN {VFS_NOT_FOUND}
             ELSE IF IsFile(s, n) THEN {} ELSE {VFS_ERROR}
    ELSE IF at.path = << >> THEN {VFS_ERROR}
    ELSE {VFS_NOT_FOUND, VFS_ERROR}

\* What vfs_open can answer: an open file or an error.
OpenHandles(s, at) ==
    IF at.mount = NO_MOUNT \/ FreeHandles(s) = {} THEN {} ELSE FsHandles(s, at)

OpenErrors(s, at) ==
    IF at.mount = NO_MOUNT THEN {VFS_NOT_FOUND}
    ELSE IF FreeHandles(s) = {} THEN {VFS_NO_SPACE}
    ELSE FsErrors(s, at)

\* The tables after an open that answered with a handle.
vfs_open(s, at, handle) ==
    [s EXCEPT !.open_files[FirstOf(FreeHandles(s))] =
                  [in_use |-> TRUE, fs_handle |-> handle, mount |-> at.mount],
              !.fat.fds = IF at.ops = "fat32" THEN @ \cup {handle} ELSE @]

FsClose(s, file) ==
    IF s.mounts[file.mount].ops = "fat32"
    THEN [s EXCEPT !.fat.fds = @ \ {file.fs_handle}] ELSE s

\* Mutant: the adapter's close, which clears fs_handle, comes first.
vfs_close_FsFirst(s, file) == FsClose(s, file)

vfs_close(s, file) ==
    LET same == {h \in Handle : /\ s.open_files[h].in_use
                                /\ s.open_files[h].fs_handle = file.fs_handle
                                /\ s.open_files[h].mount = file.mount}
        closed == FsClose(s, file)
    IN  IF same = {} THEN closed
        ELSE [closed EXCEPT !.open_files[FirstOf(same)] = ClosedEntry]

\* Mutant: the handles of the mount stay.
CloseAllOf_None(s, slot) == s

CloseAllOf(s, slot) ==
    LET ours == {h \in Handle : s.open_files[h].in_use
                                  /\ s.open_files[h].mount = slot}
    IN  [s EXCEPT !.open_files = [h \in Handle |->
                      IF h \in ours THEN ClosedEntry ELSE s.open_files[h]],
                  !.fat.fds = IF s.mounts[slot].ops = "fat32"
                              THEN @ \ {s.open_files[h].fs_handle : h \in ours}
                              ELSE @]

\* The mount point's name stays in the table.
vfs_unmount(s, point) ==
    LET slots == {i \in Slot : s.mounts[i].mounted /\ s.mounts[i].point = point}
    IN  IF slots = {} THEN s
        ELSE LET i == FirstOf(slots)
                 closed == CloseAllOf(s, i)
             IN  [closed EXCEPT !.mounts[i].mounted = FALSE, !.mounts[i].ops = NULL,
                                !.fat.mounted = IF s.mounts[i].ops = "fat32"
                                                THEN FALSE ELSE @]

vfs_mount(s, point, ops) ==
    LET free == {i \in Slot : ~s.mounts[i].mounted}
    IN  IF free = {} \/ (\E i \in Slot : s.mounts[i].mounted /\ s.mounts[i].point = point)
        THEN s
        ELSE [s EXCEPT !.mounts[FirstOf(free)] =
                  [mounted |-> TRUE, point |-> point, ops |-> ops]]

\* fat32_mount may fail: mounted already, no disk, or an unreadable one.
fat32_vfs_mount(s) ==
    {s} \cup IF s.fat.mounted \/ ~DiskPresent THEN {}
             ELSE {vfs_mount([s EXCEPT !.fat.mounted = TRUE], MNT_FAT32, "fat32")}

-----------------------------------------------------------------------------
(* The state, and the clients: the shell and the editor.                   *)

Mount == [mounted : BOOLEAN, point : {<< >>, MNT_FAT32}, ops : {"ramfs", "fat32", NULL}]
FsHandle == NodeId \cup Fd \cup {0}
OpenEntry == [in_use : BOOLEAN, fs_handle : FsHandle, mount : Slot \cup {NO_MOUNT}]

FsState ==
    [allocated : SUBSET NodeId, node : [NodeId -> FSNode],
     mounts : [Slot -> Mount], open_files : [Handle -> OpenEntry], cwd : Seq(Text),
     fat : [mounted : BOOLEAN, fds : SUBSET Fd]]

\* The call a client makes next.
PathCalls == FirstCalls \cup {"chdir", "echo_open", "edit_parent", "load_open",
                              "load_create", "save_remove", "save_create", "save_open"}
FileCalls == {"cat_read", "cat_close", "echo_text", "echo_newline", "echo_close",
              "load_read", "load_close", "save_seek", "save_write", "save_close",
              "save_failed"}
Resting == {"idle", "editing", "saved"}

\* A client's copy of what vfs_open filled in; dangling: its node was freed.
OpenFile == [in_use : BOOLEAN, fs_handle : FsHandle, mount : Slot \cup {NO_MOUNT},
             position : Nat, dangling : BOOLEAN]

\* alone: since the editor began to save, nobody else made a call.
ClientState ==
    [pc : PathCalls \cup FileCalls \cup Resting \cup {"hung"},
     path : Seq(Text), file : OpenFile, alone : BOOLEAN]

AtRest == [pc |-> "idle", path |-> << >>, file |-> ClosedFile, alone |-> FALSE]

\* kernel_main: /mnt, /README with its greeting, and FAT32 if there is a disk.
BootNodes(mnt, readme) ==
    [n \in NodeId |->
        IF n = Root THEN [FreeMemory EXCEPT !.name = "/", !.type = FS_DIRECTORY,
                                            !.children = <<mnt, readme>>]
        ELSE IF n = mnt THEN [FreeMemory EXCEPT !.name = "mnt", !.type = FS_DIRECTORY,
                                                !.parent = Root]
        ELSE IF n = readme THEN [FreeMemory EXCEPT !.name = "README", !.parent = Root,
                                                   !.data = Greeting]
        ELSE FreeMemory]

BootMounts ==
    [i \in Slot |-> [mounted |-> i = 1, point |-> << >>,
                     ops |-> IF i = 1 THEN "ramfs" ELSE NULL]]

Booted(mnt, readme) ==
    [allocated |-> {Root, mnt, readme}, node |-> BootNodes(mnt, readme),
     mounts |-> BootMounts, open_files |-> [h \in Handle |-> ClosedEntry],
     cwd |-> << >>, fat |-> [mounted |-> FALSE, fds |-> {}]]

Init ==
    /\ \E mnt, readme \in NodeId \ {Root} :
           mnt # readme /\ fs \in fat32_vfs_mount(Booted(mnt, readme))
    /\ client = [c \in Client |-> AtRest]
    /\ wild = FALSE

\* A client's call: its effect on the file systems and on the client.  A file
\* whose node the call frees dangles from now on.
Call(c, s, mine) ==
    /\ fs' = s
    /\ client' = [d \in Client |->
           IF d = c THEN mine
           ELSE [client[d] EXCEPT
                    !.alone = FALSE,
                    !.file.dangling = @ \/ client[d].file.fs_handle
                                              \in fs.allocated \ s.allocated]]
    /\ wild' = FALSE

\* What the client remembers when it goes on with pc, having used path.
Enter(c, pc, path) ==
    IF pc = "idle" THEN AtRest
    ELSE [client[c] EXCEPT !.pc = pc,
             !.path = IF c = "editor" \/ pc \in PathCalls THEN path ELSE << >>]

\* A call that changes nothing but where the client is.
Goto(c, pc, path) == Call(c, fs, Enter(c, pc, path))

\* Undefined behaviour: the model says nothing about what comes after it.
GoWild == wild' = TRUE /\ UNCHANGED <<fs, client>>

\* A line is typed when the shell is idle; the cmd_ functions prefix a
\* relative path with the working directory.  Bound: one editor at a time.
Whole(line) == IF line.absolute THEN line.parts ELSE fs.cwd \o line.parts

Typed ==
    {[call |-> line.call, path |-> Whole(line)] : line \in
        {l \in CommandLines :
            /\ Len(Whole(l)) <= MAX_DEPTH
            /\ l.call = "edit_stat" => client["editor"].pc \in {"idle", "saved"}}}

\* The calls with a path that a client may make now.
Requests(c) ==
    IF wild THEN {}
    ELSE IF c = "shell" /\ client[c].pc = "idle" THEN Typed
    ELSE {[call |-> client[c].pc, path |-> client[c].path]}

\* The requests for one of some calls that come to an end.
Asked(c, calls) == {r \in Requests(c) : r.call \in calls /\ ~NeverReturns(r.path)}

Calling(c, calls) == ~wild /\ client[c].pc \in calls

-----------------------------------------------------------------------------
(* Actions: one per call of the VFS, whatever command makes it.            *)

\* Mutant: the old file is overwritten, not removed first.
FirstCallOfSave_Overwrite == "save_create"

FirstCallOfSave == "save_remove"

editor_exit(save) ==
    /\ Calling("editor", {"editing"})
    /\ Call("editor", fs,
            IF save THEN [client["editor"] EXCEPT !.pc = FirstCallOfSave, !.alone = TRUE]
            ELSE AtRest)

never_returns(c) ==
    \E r \in Requests(c) :
        r.call \in PathCalls /\ NeverReturns(r.path) /\ Goto(c, "hung", << >>)

spin(c) == Calling(c, {"hung"}) /\ UNCHANGED vars

call_stat_for_cd ==
    \E r \in Asked("shell", {"cd_stat"}) : \E answer \in vfs_stat(fs, r.path) :
        Goto("shell", IF answer = FS_DIRECTORY THEN "chdir" ELSE "idle", r.path)

call_chdir ==
    \E r \in Asked("shell", {"chdir"}) :
        Call("shell", IF vfs_resolve_path(fs, r.path).mount = NO_MOUNT THEN fs
                      ELSE [fs EXCEPT !.cwd = vfs_resolve_dots(r.path)], AtRest)

\* cmd_edit: the path must not be a directory, its parent must be one.
call_stat_for_edit ==
    \E r \in Asked("shell", {"edit_stat"}) : \E answer \in vfs_stat(fs, r.path) :
        Goto("shell", IF answer = FS_DIRECTORY THEN "idle" ELSE "edit_parent",
             vfs_resolve_dots(r.path))

\* The editor's process may fail to start.
call_stat_of_parent ==
    \E r \in Asked("shell", {"edit_parent"}) :
        \/ /\ FS_DIRECTORY \in vfs_stat(fs, ParentPath(r.path))
           /\ client' = [shell |-> AtRest,
                         editor |-> [AtRest EXCEPT !.pc = "load_open", !.path = r.path]]
           /\ UNCHANGED <<fs, wild>>
        \/ Goto("shell", "idle", << >>)

\* Where a client goes after vfs_open, by what it answered.
AfterOpen ==
    [cat_open  |-> [opened |-> "cat_read", not_found |-> "idle", failed |-> "idle"],
     echo_open |-> [opened |-> "echo_text", not_found |-> "idle", failed |-> "idle"],
     load_open |-> [opened |-> "load_read", not_found |-> "load_create",
                    failed |-> "editing"],
     save_open |-> [opened |-> "save_seek", not_found |-> "idle", failed |-> "idle"]]

call_open(c) ==
    \E r \in Asked(c, DOMAIN AfterOpen) :
        LET next == AfterOpen[r.call]
            at == vfs_resolve_path(fs, r.path)
        IN  \/ \E handle \in OpenHandles(fs, at) :
                   Call(c, vfs_open(fs, at, handle),
                        [Enter(c, next.opened, r.path) EXCEPT
                            !.file = OpenedFile(handle, at.mount)])
            \/ \E answer \in OpenErrors(fs, at) :
                   Goto(c, IF answer = VFS_NOT_FOUND THEN next.not_found
                           ELSE next.failed, r.path)

\* Where a client goes after vfs_create, whatever it answered.
AfterCreate == [touch |-> "idle", echo_create |-> "echo_open",
                load_create |-> "editing", save_create |-> "save_open"]

call_create(c) ==
    \E r \in Asked(c, DOMAIN AfterCreate) : \E s \in vfs_create(fs, r.path) :
        Call(c, s, Enter(c, AfterCreate[r.call], r.path))

call_mkdir ==
    \E r \in Asked("shell", {"mkdir"}) : \E s \in vfs_mkdir(fs, r.path) :
        Call("shell", s, AtRest)

\* fs_mkdir does not look whether it got a node.
mkdir_without_memory ==
    \E r \in Asked("shell", {"mkdir"}) : HasParent(fs, vfs_resolve_path(fs, r.path)) /\ GoWild

call_rmdir ==
    \E r \in Asked("shell", {"rmdir"}) : Call("shell", vfs_rmdir(fs, r.path), AtRest)

call_remove ==
    \E r \in Asked("shell", {"rm"}) : Call("shell", vfs_remove(fs, r.path), AtRest)

call_remove_to_save ==
    \E r \in Asked("editor", {"save_remove"}) :
        \E answer \in RemoveResults(fs, r.path) :
            Call("editor", vfs_remove(fs, r.path),
                 Enter("editor", IF answer = VFS_ERROR THEN "idle" ELSE "save_create",
                       r.path))

call_mount ==
    /\ Calling("shell", {"idle"})
    /\ \E s \in fat32_vfs_mount(fs) : Call("shell", s, AtRest)

call_unmount ==
    /\ Calling("shell", {"idle"})
    /\ \E point \in {<< >>, MNT_FAT32} : Call("shell", vfs_unmount(fs, point), AtRest)

\* A file whose mount is gone answers every call with an error.
OpsOf(c) == fs.mounts[client[c].file.mount].ops

\* A disk's descriptor that was closed meanwhile does so too.
Answers(c) == \/ OpsOf(c) = "ramfs"
              \/ OpsOf(c) = "fat32" /\ client[c].file.fs_handle \in fs.fat.fds

AfterReads == [cat_read |-> "cat_close", load_read |-> "load_close"]

\* Whether a read can give something; what a disk's file holds is open.
Readable(c) ==
    LET file == client[c].file
    IN  IF OpsOf(c) = "ramfs" THEN {file.position < Len(fs.node[file.fs_handle].data)}
        ELSE IF Answers(c) THEN BOOLEAN ELSE {FALSE}

\* One read of a loop that reads until nothing is left; the files of the model
\* are shorter than the buffer.
call_read(c) ==
    /\ Calling(c, DOMAIN AfterReads)
    /\ IF OpsOf(c) = "ramfs" /\ client[c].file.dangling THEN GoWild
       ELSE \E some \in Readable(c) :
                IF some
                THEN Call(c, fs, [client[c] EXCEPT !.file.position =
                             IF OpsOf(c) = "ramfs"
                             THEN Len(fs.node[client[c].file.fs_handle].data) ELSE @])
                ELSE Goto(c, AfterReads[client[c].pc], client[c].path)

call_seek ==
    /\ Calling("editor", {"save_seek"})
    /\ Call("editor", fs,
            IF Answers("editor")
            THEN [client["editor"] EXCEPT !.pc = "save_write", !.file.position = 0]
            ELSE [client["editor"] EXCEPT !.pc = "save_failed"])

AfterWrite ==
    [echo_text    |-> [text |-> EchoText, written |-> "echo_newline", failed |-> "echo_close"],
     echo_newline |-> [text |-> Newline, written |-> "echo_close", failed |-> "echo_close"],
     save_write   |-> [text |-> EditorText, written |-> "save_close", failed |-> "save_failed"]]

\* Overwrite from position on; the file grows when it must and never shrinks.
Written(data, position, text) ==
    SubSeq(data, 1, position) \o text
        \o SubSeq(data, position + Len(text) + 1, Len(data))

\* To grow takes memory, and may fail; so may anything on a disk.
MayFail(c, text) ==
    OpsOf(c) = "ramfs" =>
        client[c].file.position + Len(text) > Len(fs.node[client[c].file.fs_handle].data)

call_write(c) ==
    /\ Calling(c, DOMAIN AfterWrite)
    /\ LET file == client[c].file
           next == AfterWrite[client[c].pc]
       IN  IF OpsOf(c) = "ramfs" /\ file.dangling THEN GoWild
           ELSE \/ /\ OpsOf(c) = "ramfs"
                   /\ Call(c, [fs EXCEPT !.node[file.fs_handle].data =
                                   Written(@, file.position, next.text)],
                           [client[c] EXCEPT !.pc = next.written,
                               !.file.position = @ + Len(next.text)])
                \/ /\ OpsOf(c) = "fat32" /\ Answers(c)
                   /\ Goto(c, next.written, client[c].path)
                \/ MayFail(c, next.text) /\ Goto(c, next.failed, client[c].path)

AfterClose == [cat_close |-> "idle", echo_close |-> "idle", load_close |-> "editing",
               save_close |-> "saved", save_failed |-> "idle"]

call_close(c) ==
    /\ Calling(c, DOMAIN AfterClose)
    /\ Call(c, vfs_close(fs, client[c].file),
            [Enter(c, AfterClose[client[c].pc], client[c].path) EXCEPT
                !.file = ClosedFile])

\* What a client does by itself once a command has begun.
ClientStep(c) ==
    \/ never_returns(c) \/ spin(c) \/ call_open(c) \/ call_create(c)
    \/ call_read(c) \/ call_write(c) \/ call_close(c)
    \/ /\ c = "shell"
       /\ \/ call_stat_for_cd \/ call_chdir \/ call_stat_for_edit \/ call_stat_of_parent
          \/ call_mkdir \/ mkdir_without_memory \/ call_rmdir \/ call_remove
          \/ call_mount \/ call_unmount
    \/ c = "editor" /\ (call_remove_to_save \/ call_seek)

undefined == wild /\ UNCHANGED vars

Next ==
    \/ \E save \in BOOLEAN : editor_exit(save)
    \/ \E c \in Client : ClientStep(c)
    \/ undefined

Spec == Init /\ [][Next]_vars

\* The scheduler gives every runnable process the CPU again and again.
FairSpec == Spec /\ \A c \in Client : WF_vars(client[c].pc # "idle" /\ ClientStep(c))

-----------------------------------------------------------------------------
(* Properties.                                                             *)

(* The tables keep their types, no directory has more children than its    *)
(* array holds (fs_add_child), and the working directory has no dots left. *)
TypeOK ==
    /\ fs \in FsState
    /\ client \in [Client -> ClientState]
    /\ wild \in BOOLEAN
    /\ \A n \in NodeId : Len(fs.node[n].children) <= MAX_CHILDREN
    /\ \A i \in DOMAIN fs.cwd : fs.cwd[i] \notin {".", ".."}

(* The RAM file system is a tree of live nodes: whatever was created,      *)
(* linked, unlinked and freed, by whichever client, every child is         *)
(* allocated, knows its parent and is linked once, and every parent that   *)
(* a node remembers is allocated and links it (fs_add_child, fs_remove,    *)
(* fs_rmdir): no lookup walks into freed memory.                           *)
TreeIsSound ==
    /\ Root \in fs.allocated
    /\ \A n \in fs.allocated :
           LET node == fs.node[n]
           IN  /\ \A i \in DOMAIN node.children :
                      /\ node.children[i] \in fs.allocated
                      /\ fs.node[node.children[i]].parent = n
                      /\ \A j \in DOMAIN node.children :
                             node.children[i] = node.children[j] => i = j
               /\ node.parent # NULL =>
                      /\ node.parent \in fs.allocated
                      /\ \E i \in DOMAIN fs.node[node.parent].children :
                             fs.node[node.parent].children[i] = n

Entries(handle, mount) ==
    {h \in Handle : fs.open_files[h] =
        [in_use |-> TRUE, fs_handle |-> handle, mount |-> mount]}
Holders(handle, mount) ==
    {c \in Client : /\ client[c].file.in_use
                    /\ client[c].file.fs_handle = handle
                    /\ client[c].file.mount = mount}

(* No handle leaks: the table never holds more handles of a file than      *)
(* there are clients with that file open, although vfs_close finds a       *)
(* handle only by comparing the client's copy, although two opens of one   *)
(* file look alike in it, and although an address may be used again.       *)
NoHandleLeaks ==
    \A h \in Handle : fs.open_files[h].in_use =>
        LET e == fs.open_files[h]
        IN  Cardinality(Entries(e.fs_handle, e.mount))
                <= Cardinality(Holders(e.fs_handle, e.mount))

(* An open handle belongs to a mounted file system (vfs_unmount closes     *)
(* what is open), and FAT32's own table of open files has exactly the      *)
(* files that the VFS has handles for.                                     *)
HandlesAreMounted ==
    /\ \A h \in Handle : fs.open_files[h].in_use =>
           fs.mounts[fs.open_files[h].mount].mounted
    /\ fs.fat.fds = {fs.open_files[h].fs_handle : h \in
           {g \in Handle : /\ fs.open_files[g].in_use
                           /\ fs.mounts[fs.open_files[g].mount].ops = "fat32"}}

(* When the editor reports a file of the RAM file system as saved, and     *)
(* nobody else made a call meanwhile, opening the path finds exactly the   *)
(* editor's text: no rest of the old file is left behind it, although      *)
(* names may be taken twice and writes never shrink a file (Editor::exit). *)
SaveIsExact ==
    LET editor == client["editor"]
        at == vfs_resolve_path(fs, editor.path)
        n == fs_find_by_path(fs, at.path)
    IN  editor.pc = "saved" /\ editor.alone /\ at.ops = "ramfs" =>
            n # NULL /\ fs.node[n].data = EditorText

TypedPaths == {p \in {line.parts : line \in CommandLines} : ~NeverReturns(p)}

(* Whatever a directory lists can be looked up under that directory, mount *)
(* points included, whatever was mounted and unmounted before.             *)
ListedIsFound ==
    \A p \in TypedPaths :
        /\ vfs_resolve_path(fs, p).ops = "ramfs"
        /\ vfs_stat(fs, p) = {FS_DIRECTORY}
        => \A name \in vfs_readdir(fs, p) \ {""} :
               VFS_NOT_FOUND \notin vfs_stat(fs, Append(p, name))

(* A file that is open is not removed: fs_remove says that it checks       *)
(* whether the file is currently open, and refuses.                        *)
OpenFilesAreKept == \A c \in Client : ~client[c].file.dangling

(* Every command comes to its end: no path makes a call run for ever.      *)
(* vfs_resolve_dots says that a "." component is skipped.                  *)
CommandsEnd ==
    \A c \in Client :
        client[c].pc \notin Resting ~> (client[c].pc \in Resting \/ wild)

=============================================================================
