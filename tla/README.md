# Formal verification of the ContinuumOS kernel

TLA+ modules of the parts of ContinuumOS that decide who runs, who is woken, who
gets the input, who owns which memory, what the file systems' tables and the disk
say, and which window is where; TLC configurations that check them on small
instances; and proofs, checked by TLAPS, that hold for every size of the
tables, queues, heap, trees and screen.

Paths are relative to the repository's parent: `src/src/kernel/scheduler.cpp` is
`src/kernel/scheduler.cpp` of the repository.

## 1. Inventory of the system

ContinuumOS is a single-CPU 32-bit kernel. Processes run in kernel mode in one
address space; the shell and the editor are processes that also call kernel
functions directly. There are three sources of concurrency:

* *interrupts* (timer, keyboard, mouse), which enter through interrupt gates, so
  that a handler runs with interrupts disabled, to its end;
* *system calls* (`int 0x80`), which enter the same way and are atomic as well;
* *preemption*: every `SCHEDULER_QUANTUM_TICKS` ticks the timer handler switches
  processes, wherever the running one is, also in the middle of a kernel function
  it called without a system call (`scheduler_set_foreground`, `kmalloc`, the
  file systems).

| Component | State | Operations | Talks to | What is hard | What makes it correct |
|---|---|---|---|---|---|
| IO event queue (`process.cpp`) | ring, head, tail, count, guard words | push, pop, integrity check, reset | filled by interrupt handlers and the scheduler, read by system calls | full queue, wrap-around, corrupted counters | is a drop-oldest FIFO; the repair is invisible on a healthy queue |
| Scheduler (`scheduler.cpp`) | process table, current index, quantum, foreground process and stack | add, lottery, context switch, exit, hooks, set and restore foreground | timer, syscalls, input drivers, windows | races between waiting and waking, exit and focus changes | no lost wake-up, nobody runs who may not, nobody starves |
| Process life cycle (`process.cpp`) | pid counter, per process alive flag and hooks | start, kill, register and remove hook | heap, scheduler, windows | table full, death at any point | the foreground always passes to somebody awake |
| System calls (`syscalls.cpp`) | character ring | dispatch of 0x80 to 0x89 | all of the above | the answer of a call that switches away | an answer means what the header says |
| Timer (`timer.cpp`) | tick counter | tick | scheduler | ticks that pass unnoticed | a process that waits for a tick runs again |
| Keyboard, mouse | decoder state, position, packet | interrupt handlers, event dispatch | foreground process, windows | whose event is it | events go to somebody alive |
| Terminal windows (`terminal_windows.cpp`) | 8 slots, z-order, active slot, drag and resize | open, close, focus, press, drag, resize | scheduler (a click moves the foreground, the close button kills), GUI | slots reused while dragged, four records of one fact, cell rounding against screen limits | one window per process, active window on top and of the foreground process, frames on the screen |
| GUI and drawing (`gui.cpp`, `framebuffer.cpp`, `graphics.cpp`) | cursor, what lies under it, back buffer | commands, cursor, redraw | windows | what is erased and redrawn in which order | the screen shows the state |
| Kernel heap (`heap.cpp`) | block list with headers | kmalloc, kfree, krealloc, statistics | everybody | header arithmetic, preemption | blocks tile the heap, nobody's block is free |
| Physical memory, paging | frame bitmap and counter, page tables | allocate, free, map, unmap | boot, heap | double free, counter drift | counter = number of bits set |
| VFS (`vfs.cpp`) | mount table, open handles, working directory | mount, unmount, open, read, write, seek, close, create, remove, mkdir, rmdir, stat, readdir, chdir, path resolution | RAM FS and FAT32 through tables of functions; called by shell and editor | handles copied to the caller, unmounting with files open, paths with dots | no handle leaks or survives its mount, a path reaches the innermost mount |
| RAM FS (`ramfs.cpp`, `ramfs_vfs.cpp`) | tree of nodes, descriptor table | create, link, unlink, free, look up | heap, VFS | nodes freed while open, names taken twice, full directories | the tree links live nodes only, a save leaves exactly its text |
| FAT32 (`fat32.cpp`) | table in memory and two copies on the disk, clusters, open files | mount, open, read, write, seek, close, create, remove, mkdir, rmdir | VFS, block devices | several sector writes per operation, errors and power cuts between them, cursors at cluster boundaries | chains disjoint, directory and table agree, a call changes its path wholly or not at all |
| Block devices, IDE | device table | read and write sectors | FAT32 | errors, time-outs after the data was written | a reported success is one |
| PCI | device list, listeners | register, unregister, notify | event queues | events pushed without a resume | listeners are woken |
| Shell, editor, test process | line and text buffers | event loop, commands | all of the above | spurious answers of a wait | |
| Boot, GDT, IDT, PIC, drawing, serial, libc | | | | | pure set-up, formatting or output |

`PROJECT.json` lists every component with its status, and every hazard with the
line where it bites.

## 2. Modules

| Module | Models | Kind |
|---|---|---|
| `BoundedFifo` | what an event queue promises: a FIFO that drops the oldest event when full | abstract specification |
| `EventQueue` | the ring, its repair and the faults it repairs | component |
| `Scheduler` | processes, lottery, hooks, foreground, and their callers: system calls, timer, keyboard, mouse, shell, editor, test process | component, composes the process parts of the drivers |
| `Heap` | `kmalloc`, `kfree`, `krealloc` at the grain of single accesses | component |
| `FileSystem` | the VFS, the RAM file system, the FAT32 adapter's handles, and their clients, the shell's file commands and the editor | component, composes the layers and their callers |
| `FileStore` | what a file system promises its callers: a tree in which a call changes one path | abstract specification |
| `Fat32` | FAT32 on its disk, transfer by transfer | component, composes file system, block device and drive |
| `Windows` | the windows, the mouse, the foreground that follows them and what of it is on the screen | component, composes windows, GUI and the foreground part of the scheduler |
| `MCEventQueue`, `MCScheduler`, `MCHeap`, `MCFileSystem`, `MCFat32`, `MCWindows` | instances for TLC | |
| `EventQueueProofs`, `SchedulerProofs`, `HeapProofs`, `FileSystemProofs`, `Fat32Proofs`, `Fat32ChainProofs`, `WindowsProofs` | | theorems |
| `DataLemmas` | | facts about numbers and sequences that the proofs share |

### EventQueue

`queue`, `head`, `tail`, `count` are the fields of `struct EventQueue`; `guard`
says whether both guard words are intact, `magic` whether the process's magic
word is. `last` records the last operation and its answer. `push_io_event` and
`pop_io_event` disable interrupts, so each is one action; it works on the
*repaired* queue `SafeHead`, `SafeTail`, `SafeCount`, `SafeQueue`, which is
`ensure_event_queue_integrity` followed by the operation, and it writes the repair
back. `Fault` overwrites one word with anything in `Garbage`: the guard words
exist because other code may do so. The payload of a slot is not overwritten,
since nothing in the code would notice.

Refinement: `fifo <- Contents` (the events the next operation will see, oldest
first) and `usable <- magic`. A fault is a step in which the abstract queue may
lose or replay its content; operations must then answer from what is left.

### Scheduler

`k` is the record of what the handlers share: who is alive, the hooks of each
process, the length of each event queue, `foreground_proc`, `foreground_stack`
and the owners of windows. Kernel functions that are called inside a handler are
operators from such a record to such a record (`push_io_event`,
`scheduler_resume_processes_for_signal`, `scheduler_set_foreground`,
`scheduler_restore_foreground`, `kill_process`), composed in the code's order, and
each handler is one action.

`pc[p]` is where process `p` is in its own code, with the locals of the kernel
function it is inside: `scheduler_set_foreground`, called by the shell and the
editor with interrupts enabled, is four actions (`set_foreground_begin`,
`switch_foreground_lost`, `switch_foreground_gained`, `switch_foreground_done`)
and the interrupts and other processes act in between. The grain ends there: the
resume, which tests, shifts and counts down the hooks with interrupts enabled
(`process.cpp:235-247`), is one step. Reading the tick and
registering the hook (`get_ticks`, `sys_yield_for_event`) are two actions for the
same reason. `answer[p]` is what the last poll or wait returned.

Abstractions. The draw of `xorshift32` is a free choice among the tickets; every
process has one ticket, because `set_process_tickets` has no caller. A queue is
its length. A `TIME_REACHED` hook is the number of ticks until it fires, at most
`MAX_DELAY` = 1, which is what the only program that waits for ticks asks for; a
tick that is past is a number below 1. Registers are abstracted to `pc`, except
for `eax` at the one place where its value matters (`SavedAnswer`). `PANIC` stops
the machine: `panicked`.

### Heap

The unit is the 32-bit word, so a header is 3 units and `align16` rounds to 4.
`mem` has the header last written at every address, `headers` (a history
variable) the addresses of the blocks in the list, `held` the pointers each
process owns with the size it asked for. `kmalloc` is search (one action per
block), split and mark; `kfree` is mark and merge. Nothing in `heap.cpp` disables
interrupts, so another process may act between any two of them. `size_t` wraps
around at `SIZE_RANGE`.

`krealloc` that moves the block copies the content of the old one (`krealloc_copy`)
and ends with `kfree` of it; the caller's pointer changes hands when the new block is
marked. The copy is as long as the old block, whatever the size of the new one: the
headers it hits (`Hit`) become anything (`Garbage`). That it hits none is a
consequence of `OwnedIsAllocated`, and of `HeapAssumption`, by which no request is so
near the width of `size_t` that `align16` wraps: no caller computes a size within 15
bytes of 4 GiB. With such a request the new block has size 0 and `Tiled` is lost, in
the model as in the code.

`Spec` lets the calls of several processes overlap; `SerialSpec` is the part of it in
which a call ends before another begins (`Serial`), with any number of processes.

### FileSystem

`fs` is what the kernel keeps: the nodes and which addresses are allocated, the
mount table, the VFS's `open_files`, the working directory, and of FAT32 whether
it is mounted and which descriptors are in use. The functions of `vfs.cpp` and
`ramfs.cpp` are operators from `fs` to `fs`, or to the set of answers and states
they can end with; `client[c]` is the call the shell or the editor makes next,
with its path and its copy of the handle. An action is one call of the VFS,
whichever command makes it: `AfterOpen`, `AfterCreate`, `AfterReads`, `AfterWrite`
and `AfterClose` say where each command goes on. The two clients interleave call
by call.

A path is the sequence of its components; `vfs_resolve_dots` works token by token
as the code does, and `NeverReturns` says on which paths its loop does not end.
Freed addresses are handed out again. `dangling` (a history flag of the client's
copy) says that the node behind a handle was freed; a read or write through such
a handle, and a `mkdir` that got no memory, set `wild`, after which the model
claims nothing. `alone` records that nobody else made a call since the editor
began to save.

Abstractions. A call of the VFS is atomic: preemption inside one is listed as a
hazard and not yet modelled. `fd_table` is left out, since only functions that no
system call dispatches to fill it. What is on the disk is a free choice. Files
hold a few letters, shorter than any client's buffer, so that a read either gives
the rest or nothing. One editor runs at a time (`MAX_DEPTH` and `CommandLines`
bound what is typed). Running out of memory is possible at every allocation that
the code checks.

### Fat32

`disk` has the copies of the table and the clusters with their cells; `mem` the
table in memory and `open_files`. A call of the adapter runs to its end before the
next, but it is a chain of operators on a record `k` that counts its *transfers*:
the fault of the call, if it has one, strikes one of them. It is an error (nothing
was transferred), `late` (the sector was written, the wait after the last word
failed, so the caller is told of an error), or a power cut (this and all later
transfers of the call do not happen, and memory is lost). Every transfer of every
call is struck in turn: `Calling` explores the call undisturbed, then once for each
of its transfers and each kind of fault. All early returns and the roll-backs after a
failed transfer are the code's.

A cell is a directory entry, an LFN entry, a byte or a zero; a zero is the end mark
of a directory, so clearing a new cluster and stopping a listing are modelled by
what they do. Names are model data with the short form, alias base and need of an
LFN entry that the code computes from the characters (`Spelling`); numbering the
aliases is the code's algorithm.

`causes` is a history variable: what a fault did, told apart as far as the
properties need it, and the hazardous uses of handles (a write through a handle
whose file was removed, or that another handle has also open). `broken` says that
the disk is no longer sound (`DiskIsSound`); the model ends there. `Harmful` lists
the causes after which this can happen; `BreaksOnlyBy` says that there are no others.
TLC reaches a broken disk by each of them alone, except by two handles of one file
(`shared`) and by a flush that fails during a write in a copy other than the first
(part of `table`), which take more calls than the run's bound. After a cause in
`Harmful` the names in a directory, the cursors and what is read can be wrong as
well, before the disk is; `AliasesAreUnique`, `CursorIsPlaced` and `ReadsBack` are
about the states without one (`Unharmed`).

A transfer counts sectors in a byte: `blockdev_read` and `blockdev_write` get
`fat_size` as a `uint8_t`, so that a mount reads, and a flush writes, `Count` =
`FatSectors % COUNT_RANGE` of them, and what a mount does not read is what memory held
(`NotRead`). `TableAssumption` says that the table of the disk fits, as on the
repository's image with its 252 sectors. The search for a free cluster goes up to
`total_clusters`, which underflows on that image. `TableAssumption` also says that the
table then has entries behind the end of the disk (32256 entries for clusters up to
32233); `SearchStaysInTable` that one of them ends the search. Directories and files
are followed along `fat32_get_next_cluster` (`Chain`), the end of a file is found and
a chain is freed along `fat_table` itself (`Walk`).

Refinement to `FileStore`: `tree <- shown` (the paths with what a lookup and a read
would find), `call <- last` (the call, the paths that lead to what it was asked to
change, the text and position of a write, whether it answered that it did it, and
whether something went wrong in it), `damaged` (broken, or table in memory ahead of the
disk, or one of the three causes that make lookups see different things), `behind` (a
handle ahead of its entry after a write that was accepted in part). A step of the store
is bound to its call: only the paths the call names may change, only as that call may
change them, an answer of success has to show, and a mount or unmount changes nothing.

Abstractions. One sector per cluster, as on the repository's image; an LFN takes one
entry; `kmalloc` returning null has the outcome of the next transfer failing, or
counts as a transfer where it leaves more behind. Times and dates are left out, and
so is everything that only prints. Preemption inside a call is left out: see the
plan.

### Windows

`desk` is the record of `terminal_windows.cpp`'s statics (slots, z-order, count,
active slot, drag, resize), the scheduler's foreground process and stack, and the
screen. System calls and the mouse's handler are one action each;
`scheduler_set_foreground`, which `shell_entry`, `editor_entry` and `cmd_edit` call
with interrupts enabled, is more: `calls` has the ones to come and under way. Storing
the foreground is one step (`set_foreground_begin`). The activation of the window is
another when nothing comes into it (`set_foreground_done`); otherwise
(`set_foreground_interrupted`) it goes on in the `focus_` steps, which are the single
accesses of `focus_window` and `push_slot_to_top` to the stack and to the active slot,
each turn of the shift loop, and the begin and end of the redraw. `halfway` has these
activations with their locals; clicks, drags, exits, other windows and other
activations come between any two of their steps.
`context_switch` is there for one reason: a process killed by its close button runs
on until the next switch (`lingering`) and may still make system calls.

Geometry is that of the code, in pixels and with its constants; resizing rounds to
cells, is limited to the least and largest size and clamped to the screen, for each
edge and corner. The differences that are unsigned in the code are taken where they
cannot wrap (`AtLeastZero`, `clamp_u32`) as the code's guards do.

The screen is, for each slot, the frame it was last drawn with (`picture`), frames
left behind (`residue`), which window was drawn last (`on_top`), whether the cursor
is drawn and whether an old one is still in the picture (`ghost`).

History variables: `astray` (a window came up that is not the foreground's), `late`
(processes that opened a window when dead), `moved` (a program moved a window that
the mouse holds), `torn` (an activation was interrupted). Each names an exception that
the code really has, and each property is claimed for everything else. What holds in
spite of `torn`, on the run's instance: the types, the count of the windows, one window
per process, grabs, frames and owners. What does not: a close button pressed after
`window_slot_valid` leaves a freed slot in `g_z_order` and active, a press inside the
shift loop loses a window from the order, and the cursor may be drawn twice.

## 3. Runs

| Run | Instance | States | Shows |
|---|---|---|---|
| `event_queue` | 3 slots, 2 events, counters overwritten by -2..5 | 111 079 | `TypeOK`, `RepairIsQuiet`, `CountIsRecovered`, `RepairRestores`, `ImplementsFifo` |
| `scheduler` | 2 table slots, 3 pids, 2 hooks, 1-event queues, 2 windows, quantum 1 | 1.26 million | `TypeOK`, `NoLostWakeup`, `SwitchRespectsHooks`, `HeirIsAwake` |
| `scheduler_liveness` | 2 pids, 1 window, quantum 2 | 107 000 | `RunnableRuns`, `FocusChangeEnds` |
| `heap` | 30 words, requests 1, 5, 60, two callers one after the other | 42 534 | `TypeOK`, `Tiled`, `OwnedIsAllocated`, `StatsAddUp`, `CallsReturn` |
| `files` | 3 addresses beside the root's, 2 mounts, 2 handles, 1 FAT32 descriptor, 2 children per directory, paths of up to 3 components | 542 268 | `TypeOK`, `TreeIsSound`, `NoHandleLeaks`, `HandlesAreMounted`, `SaveIsExact`, `ListedIsFound` |
| `fat32` | 5 clusters of 2 cells, 2 copies of a table of 2 sectors, 2 open files, 1 fault, 4 changing calls | 54 125 | `TypeOK`, `BreaksOnlyBy`, `MirrorsAgree`, `NoLostClusters`, `SearchStaysInTable`, `AliasesAreUnique`, `CursorIsPlaced`, `ReadsBack`, `ImplementsStore` |
| `windows` | 3 processes, 2 windows, stack of 2, 4 mouse positions, 3 mouse events with the button down, an interrupted activation counting as two | 672 587 | `TypeOK`, `StackIsExact`, `GrabsAreLive`, `FramesFit`, `FocusAgrees`, `DeadOwnNoWindow`, `ScreenIsCurrent`, `ResizeAnchors`, `ClickTakesFocus` |
| `open_file_removed` | as `files` | violation | a file that is open is removed |
| `dot_path` | no disk, fair clients | violation | a command never ends |
| `input_to_the_dead` | 2 pids | violation | a dead process gets input |
| `wait_answer` | 2 pids | violation | a wait answers without an event |
| `heap_race` | 17 words, two callers | violation | one block owned twice |

**Why the bounds are enough.** Three slots are the least in which a ring is
empty, partly filled on either side of the wrap, and full; the garbage covers
every value in range and values beyond it on both sides of zero. Two table slots
and three pids make the table overflow, the foreground stack fill up, a dead
process be remembered, and a process be started that is never scheduled; queues
of one event are full after one push; in `scheduler` every tick draws, which admits
every preemption point, and the quantum of two of `scheduler_liveness` has a tick
that switches and one that does not. Thirty words hold three blocks and the copy of one
of them, so that a split, an exact fit, a block too small to split, a merge, a failed
search, a `krealloc` that moves and the largest request that does not wrap around all
occur. `MAX_PID` bounds the number of processes started
in one behaviour and `Request` the sizes asked for; neither bounds the length of a
behaviour. The proofs remove the other bounds for most of the safety properties.

For the files: the root is full from the start, so that a create is dropped, and
not full after a removal; three addresses let one be freed and handed out again
while a client still holds it; two handles and one descriptor run out when both
clients have a file open; the commands of `Session` make twins, nest directories,
leave and remove them, and reach the disk while it is mounted and after it is
not. Addresses other than the root's are interchangeable, which is what `SYMMETRY`
uses; the run checks invariants only.

For FAT32: five clusters are enough for a root directory that grows, a
subdirectory and a file of two clusters to exist together and for the disk to be
full; the table has two sectors, so that a flush can stop between them and between
the copies; it has one entry that is behind the end of the disk, the least that
`TableAssumption` admits. `TotalSectors32` is 0, as on the image that the repository ships: there
`total_clusters` underflows. States that differ only in `last`, which nothing reads of
the state before a step, are taken as one (`VIEW`). The run has one fault per behaviour; that more of them
do no more harm is what the theorems say. Four calls that change something are the least with which a fault,
its roll-back, an allocation of what was rolled back and a look at the result
happen. The names have one alias base in common.

For the windows: two windows and three processes make the table full, a slot be
reused, and a process print that gets none; a stack of two overflows. The mouse
positions are the first window's title bar, close button and left edge and the second
one's lower right corner; each is also a place to drag to, with both limits of the
screen and of the size among the results, and lies in the other window or beside
it; three events with the
button down are a press, a move and another; an activation that is interrupted
counts as two of them, so that a press can come before it or into it, beside everything
that the bound does not count: exits, new windows, switches and other focus changes. The two programs are
interchangeable; a `VIEW` takes states that differ in nothing the actions or properties
read as one.

The scheduler runs do not check for deadlock: after a `PANIC` the machine stops.
Neither does `fat32`: the model ends when a bound is reached or the disk is broken.

**Fairness.** `scheduler_liveness` assumes that the PIT keeps
ticking (`WF` of `timer_handler`), that the CPU executes the process it was given
(`WF` of the process steps), and that the lottery is fair: a process that takes
part in infinitely many draws of the timer handler wins one (`SF`). `xorshift32`
has period 2^32 - 1 and visits every residue, so no ticket loses forever as long
as the set of tickets is stable; the assumption is still an idealisation of the
generator. `heap` assumes that a process inside the allocator gets to go on, and `dot_path`
that each client does once a command has begun; both follow from `RunnableRuns`.

**What the violations show**

* `NoInputToTheDead`: `kill_process` says that clearing the keyboard handler
  "ensures no more input is routed to the dying process". The input drivers route
  by `foreground_proc` and `g_shell_process`, not by the handler. Dead processes
  stay on `foreground_stack` and come back as the foreground process.
* `WaitAnswersWithEvent`: `process_wait_event` "blocks cooperatively until an event
  arrives". The context is saved, with the syscall number in `eax`, before the
  answer is stored; the process resumes with 0x85, takes it for "event" and reads
  a structure that nobody filled in. The shell and the editor survive because the
  old content of the structure is usually a handled event.
* `OwnedIsAllocated` with two callers: `kmalloc` tests and clears `free` with
  interrupts enabled.
* `OpenFilesAreKept`: `fs_remove` checks "if file is currently open" in a table that
  nobody fills; the VFS's handles are not looked at. `rm` frees the node under the
  editor, which then reads freed memory.
* `CommandsEnd`: the `continue` for a "." component skips the `strtok` at the end of
  the loop. `cat ./a` hangs the shell.

**Observations.** The models show more about the code that no document of the
repository contradicts, and that the properties therefore state as exceptions.

* Timer and heap: the timer compares for equality (`timer.cpp`), so a tick between
  `get_ticks` and the system call leaves a process on a hook that never fires.
* Wake-ups: a process that waits when no other can run keeps its hook and runs on. When
  it then gives the foreground away and is preempted between the push to itself and its
  own resume, it sleeps with the event in its queue; a close button that kills the process
  in between leaves the one it was about to resume asleep. Both last until the next event.
  `kfree` merges with the following block only.
* FAT32, full disk: with the 16-bit count of sectors `total_clusters` underflows
  and a search for a free cluster goes on behind the end of the disk. The cluster
  it finds cannot be cleared, but the file already has a link to it. When clusters come
  free and the file is extended once more, the entry that was linked stays taken; after
  22 of these the search finds no end in the table (`SearchStaysInTable` excepts tables
  with such a link).
* FAT32, allocation: the new cluster is linked before it is cleared, and a failed
  clear frees the cluster without the link. The loop stops two clusters early
  when the count is right.
* FAT32, table: a failed flush leaves the change in memory, from where a later
  flush may or may not take it; a power cut can leave half of a copy. When the flush
  after an allocation fails in `fat32_write`, whichever copy it was, the caller gets 0
  although the chain has grown in memory: `last_cluster` of the handle stays at the
  cluster before (`fat32.cpp:1415`), and the next allocation through the handle links
  from there and cuts the chain.
* FAT32, removal: `fat32_remove` and `fat32_rmdir` free and flush the clusters before
  they delete the entry. `fat32_mkdir` frees the cluster when the write of the entry
  is reported as failed, also when it reached the disk.
* FAT32, handles: nothing stops a remove of an open file, or two handles of one
  file; each writes its own size and clusters to the entry.
* FAT32, lookups: a read error while `fat32_create` looks for the name counts as
  "not there" and makes a twin. `fat32_write` that ends early leaves the entry as it
  was, although bytes were written.
* Windows: a process killed by its close button runs to the next switch, and can
  open a window or take the foreground that nothing takes from it. A new window
  of a background program is on top while the keyboard stays with the foreground.
  `scheduler_set_foreground` can be overtaken by a click, and interrupted between the
  accesses of the activation: see `torn` in section 2. `cmd_edit` can make an
  editor the foreground that is already dead. When a program moves the window the
  mouse holds, a second cursor stays on the screen.

## 4. Proofs

| Theorem | States | For every |
|---|---|---|
| `EventQueueProofs!TypeCorrect`, `RepairRestoresAlways`, `RepairIsQuietAlways`, `CountIsRecoveredAlways` | the properties of the run | queue size, event set, set of garbage |
| `EventQueueProofs!Refinement` | `Spec => ImplementsFifo` | the same |
| `SchedulerProofs!InvariantHolds`, `TypeCorrect`, `WakeupsAreKept` | `Spec => []IInv`, `[]TypeOK`, `[]NoLostWakeup` | number of slots, pids, hooks, events, windows, quantum |
| `SchedulerProofs!SwitchesRespectHooks`, `HeirsAreAwake` | `Spec => SwitchRespectsHooks`, `HeirIsAwake` | the same |
| `HeapProofs!HeapInvariant`, `HeapTypeCorrect`, `HeapIsTiled`, `HandedOutOnce`, `NoWordLeaks` | `SerialSpec => []HInv`, `[]TypeOK`, `[]Tiled`, `[]OwnedIsAllocated`, `[]StatsAddUp` | number of callers, heap size, header size, alignment, width of `size_t`, requests that do not wrap |
| `FileSystemProofs!FileSystemInvariant`, `FileSystemTypes`, `TreeStaysSound`, `HandlesStayMounted`, `NoHandlesLeak`, `SavesAreExact`, `ListedAreFound` | `Spec => []FInv`, and all invariants of the run | number of nodes, mounts, handles, descriptors, children of a directory, components of a path, set of command lines |
| `Fat32Proofs!Fat32Invariant`, `Fat32TypeCorrect`, `MirrorsStayEqual` | `Spec => []Fat32Inv`, `[]TypeOK`, `[]MirrorsAgree` | size of disk, sector and cluster, table of up to 255 sectors, number of copies and handles, names, texts, paths, number of calls and faults |
| `Fat32ChainProofs!StaysSound`, `DiskBreaksOnlyByHarm`, `ShortNamesStayUnique`, `CursorsStayPlaced`, `ReadsYieldTheFile`, `NothingIsLost` | `Spec => [](Fat32Inv /\ Steady)`, `[]BreaksOnlyBy`, `[]AliasesAreUnique`, `[]CursorIsPlaced`, `[]ReadsBack`, `[]NoLostClusters` | the same |
| `WindowsProofs!DesktopInvariant`, `WindowsTypeCorrect`, `StackStaysExact`, `GrabsStayLive`, `FramesStayFit`, `WindowsOfTheLiving`, `FocusStaysTogether`, `ScreenStaysCurrent` | `Spec => [](~torn => IInv)`, and for the states without `torn` all invariants of the run | number of windows and processes, screen, font, frame and margins, positions of the mouse |
| `WindowsProofs!ResizingAnchors`, `ClickFocuses` | `Spec => [][~torn => ResizeStep]_vars`, `ClickTakesFocus` | the same |

**Assumptions.** `SizeAssumption`, `GarbageAssumption` (a ring has a slot, a
counter holds an integer), `SchedulerAssumption` (all sizes positive),
`HeapAssumption` (the heap holds a header, its size is far enough from the
width of `size_t` that sums of valid sizes do not wrap, and no request wraps in
`align16`). `FileSystemAssumption`:
finitely many addresses, none of them null; two mounts and two children per directory
at least, which is what the boot needs. `TextAssumption` and `CommandsAssumption`:
the texts have the kernel's own names among them, a command line is a call and a
path. `Fat32Assumption`: the disk has a cluster beside the root's, the table has an
entry for every cluster of it, the end mark is no entry of the table, there is a copy, and a
cluster holds two entries at least; names are finitely many and paths as deep as the
model's directories. `TableAssumption`: the sectors of the table can be counted in a
byte, and when the count of clusters is past the table, the table has an entry behind the
end of the disk; both are true of the repository's image. `SpellingAssumption`: no name is empty or spelled like a dot entry
(the VFS resolves the dots before it calls FAT32). `WindowsAssumption`: all lengths are
natural numbers, the screen holds a window of `VGA_WIDTH` by `VGA_HEIGHT` cells, and
the two margins of a frame in which a press resizes do not overlap in the smallest
one; the code's constants satisfy it, on every screen that is not too small for the
console. TLC evaluates all of them in
every run. The heap theorems are about `SerialSpec`: any number of processes use the
allocator, but a call ends before another begins. `heap_race` shows that this cannot
be dropped. The shell and the editor call `kmalloc` with interrupts enabled, so the
theorems say what holds as long as no preemption falls into a call, and what would
always hold if the allocator were protected; the run says that it is not.

**Induction.** The library's induction theorems take a predicate as parameter, which
the provers cannot instantiate; its least-element principle takes a set. `DataLemmas`
derives from it induction over an interval of numbers, again with a set in the place
of the predicate. A recursive function local to an operator (the walk of
`fs_find_by_path`, the tokens of `vfs_resolve_dots`, the fold under `StatsAddUp`) is
given a predicate that states its equations on a domain, and lemmas that such a
function exists and that two of them agree.

**Event queue.** `TypeOK` is inductive. The lemmas are about the repair:
`RepairedIndex` lands in the ring for every integer, `RepairedCount` agrees with the
distance of the indices or is the full count with equal indices, and both leave
consistent values alone. The refinement then is one lemma per operation about
`RingSeq`: writing at the head appends, advancing the tail drops the first.

**Scheduler.** `NoLostWakeup` and `TypeOK` are together inductive (`IInv`). The
argument is about sets of sleepers: `Awake` says that no process outside a given
set of processes under resumption sleeps on a non-empty queue. Every kernel
function has a lemma that it keeps the state well typed and `Awake` (`deliver`
pushes and resumes; restore clears hooks; the others do not touch queues). Then
one lemma per action. The four steps of an interruptible focus change are where
the exception `Resuming` is needed: the push makes the target an exception, the
resume ends it. `HeirIsAwake` is about one action at a time: only an exit and the
close button kill, the restore empties the heir's hooks, and what follows in the same
handler, deliveries and the draw, gives nobody a hook (`Quieter`).

**Heap.** `Tiled` and `OwnedIsAllocated` are not inductive: one has to know what
the process inside the allocator knows. `HInv` adds that its block pointer is a
block of the list, that a block about to be split or marked is free and large
enough, that a block about to be freed or merged belongs to nobody, and, for the copy of
a `krealloc`, that the new block is at least as large as the old one, so that no header
is hit. The work
is in the split (the new header lies inside the old block, hence between two
neighbours) and the merge (the successor is a free block, hence nobody's).
`StatsAddUp` follows from `Tiled`: the lemmas on folds show that a sum over a set does
not depend on the order and grows by the element added; the walk from block to block
then accounts for every word up to the block it has reached.

**Files.** `FInv` has four parts.
*The tree*: links down and up agree, the root has no parent, a file has no children,
nobody is named "." or "..", and `HiddenAreEmpty`: a node that is not the first of its
name in its directory has no data. The last is what `SaveIsExact` needs, since the
names in a directory are not unique: only what a lookup finds is ever written.
*The tables*: the RAM file system is in slot 1 at the root, the disk in at most one
slot, every open entry is of a mounted file system, and the descriptors of FAT32 in
use are exactly those of the entries on the disk, each of one entry.
*The clients*: a client holds a file exactly between its open and its close; unless
`dangling`, it is a live file that lookups find, and the position lies within it.
`NoHandleLeaks` compares two cardinalities; its inductive form is an injection from
the entries in use to the clients (`Owned`). Which entry is whose may change: two
clients that opened the same file cannot be told apart by `vfs_close`, which closes the
first entry that matches.
*The save*: `Saving` says for each of the editor's calls, as long as it is `alone`,
what its path leads to.
Every operation of the RAM file system is then described by what it does to lookups
(`KeepsLookups`, `Added`, `Removed`): a node added at the end of a directory is found
if nobody had its name, the removal of a first-of-name node may bring an empty one
to light.
`ListedIsFound` follows from `FInv`, by induction over the components of the path.

**FAT32.** `Fat32Inv` strengthens `TypeOK`: a cluster number that the table, a directory
entry or a handle keeps has an entry in the table, or is the end mark where one may be.
That is what the code relies on when it follows a chain, and without it a link out of
the table could be looked up. `CopiesAgree` says of the copies what `MirrorsAgree` does
not: they are equal to each other while nothing is mounted, which a mount needs, as it
reads only the first. Inside a call both are `Good`, a predicate of the record `k` between
two operators of the chain: it is well formed, and as long as nothing was struck the
copies are the table, except when the chain has left the disk (`off`), which is a cause of
its own. Each of the operators has a lemma that it keeps `Good`; those between a change
of the table and its flush have one that they keep `Running`, and `FlushOK` then restores
`Good`: sector after sector, what was flushed so far is the table, and after the last
sector of the last copy all of it is, unless a transfer was struck. The loops are recursive
functions, handled as under *Induction* (`IterationExists`, `StaysIn`).

**FAT32, chains and directories.** `BreaksOnlyBy` says that `DiskIsSound` is lost only by
a cause in `Harmful`, but `DiskIsSound` is not inductive: it is about the entries that are
reached, and says nothing of the free clusters, of a cluster that is taken and not linked
yet, or of the handles, through which the next write goes. `Steady` is the inductive form,
in three parts, each of them for the states that are `Unharmed`.
*The table* (`TableOK`): only clusters of the disk are taken, a link leads to a taken
cluster, and no two links lead to the same one. Chains from clusters that no link leads to
(`Begins`) then end and are disjoint (`ChainFrom`, `ChainsDisjoint`); an allocation takes a
cluster without a link to it and makes one chain longer by it (`GivenChains`), a release
takes one chain away and leaves the others (`WithoutChains`).
*The directories* (`Sound`): every cell that lists an entry, wherever it is, lies in a
directory's chain; the chains of two entries begin at different clusters and not at the
root's; a directory has its dots, no foreign cell, no name twice and nothing in use behind
its end mark; and no LFN entry has the checksum of a dot. The last two are what a new entry
needs: it is put behind the last cell in use, or in a run of deleted ones, and a removal
strikes out the LFN entries of the name and no other's.
*The handles* (`HandlesOK`): a handle whose file is there is at an entry that is listed, has
the start and the last cluster of that entry's chain, a size that the chain has room for
and a cursor that is `Placed`; and handles with one chain are at one entry. Nothing is said
of the size in the entry, which is behind the handle's until `fat32_update_file_entry`.
Each way to change the map of the clusters has a lemma that it keeps `Sound`: cells outside
every directory change (`SoundFrame`), a directory grows (`GiveSound`), an entry is struck
out (`StrikeSound`), put in (`PutSound`), or gets another start and size (`PatchSound`). The
operators of a call are then described by how they end: `Fine` (sound, the handles too),
`Rest` (the power is off, and what a mount would read is sound) or `Spoilt` (a transfer was
struck that is a cause in `Harmful`). The second is where the order of the steps in the code
matters, since it has to hold after every single transfer: the cluster is cleared before the
entry leads to it, the first copy of the table is written before the entry is, sector after
sector. Inside a write there are states in which the handle has a chain that its entry does
not lead to yet; they are `Fine` because the chain begins at a cluster that no entry and no
link leads to.
`ReadsBack` is about the loop of `fat32_read` alone, in a state that is `Steady`: after `i`
turns `data` has the cells from the handle's position on, and at least `i - 1` of them, since
every turn takes one but for the first after a write up to the end of a cluster; so the
bound of the loop in the model is never what ends it.
`NoLostClusters` is the other direction of `Sound`: `Whole` says that every taken cluster is
in the chain of the root, of an entry, or of a set of chains that a call has in hand, and
that every entry is in a directory that is itself reached. Each operator has a lemma on
what it adds to that set and takes from it; a call that was not disturbed ends with none.

The proof found four properties of the run that did not hold beyond its bounds. As they stood
before, `BreaksOnlyBy` counted a failed flush only in the first copy, and the three about
names, cursors and reads had no condition; a failed flush during a write, two handles of one
file or three failed flushes refuted them. The observation on `last_cluster` in section 3 is
what came of it.

**Windows.** `IInv` has `Exact` (stack, slots in use, count and active slot
agree, and every process has one window at most), `AllFit`, `Held` (what the mouse holds is in
use, is held in one way, and, for a resizing, began from a frame that fitted, with no
two opposite edges), the owners are alive or `late`, and were started; `Agrees` only
when nothing went `astray` and no focus change is under way; the screen shows the
windows; and the held window is where the mouse puts it (`Settled`) unless a program
`moved` it, without which no ghost of the cursor appears. `Settled` is what
`ScreenIsCurrent` needs for the cursor: a mouse event of a button that is held moves
the window exactly when the position changed. The geometry is in a few
lemmas about one axis (`Sized`, `Anchored`), with the products of cells and font as
unknowns; width and height are two instances. The handlers are chains of operators
on `desk`, each with a lemma that it keeps `Good` and what else it leaves alone.
`torn` never goes back (`TornStays`), and as long as it is not set no activation is
`halfway`; that is why the invariant is an implication.

**Only model-checked**: liveness (`RunnableRuns`, `FocusChangeEnds`, `CallsReturn`),
which is outside the reach of the prover; of `Fat32` the refinement of `FileStore`, which
needs to know what a lookup of every path finds after a call, and `SearchStaysInTable`,
which is about the states after a cluster behind the end of the disk was tried, where
`Steady` ends; and of `Windows` what is left of the desktop in the `torn` states.
The five violations are TLC's alone: they are behaviours, not theorems.

## 5. Not modelled

Drawing of pixels, fonts, formatting, serial and debug output, the boot assembler,
GDT, IDT and PIC set-up, port I/O of IDE and PCI detection: straight-line code or
output. Functions without a caller (`scheduler_remove_process`,
`set_process_tickets`, the file-descriptor functions of `ramfs.cpp` and
`syscalls.cpp`, `heap_test`).

Not modelled yet: the text inside a window, the scancode and packet decoders, the
physical frames and page tables, the register save and restore of a switch, the
listeners of PCI, and preemption inside a call of the VFS.

Further hazards of the code, less than those that `PROJECT.json` lists or seen only
as an ordinary behaviour of a model:

| Line | What can go wrong |
|---|---|
| `scheduler.cpp:86` | a process that waits, or is dead, is drawn after a long sequence of waits, exits and focus changes (`SwitchRespectsHooks`) |
| `scheduler.cpp:219` | the saved `esp` and the frame the trampoline rebuilds differ by the words the interrupt pushed |
| `scheduler.cpp:235` | the close button kills the running process while all others wait: `PANIC`, an ordinary end of a behaviour of `Scheduler` |
| `scheduler.cpp:358` | `foreground_proc` is read and used after interrupts may have changed it (`NoInputToTheDead`) |
| `process.cpp:298` | the process table is full (dead processes never leave it): a process is started that is never scheduled |
| `heap.cpp:92` | blocks freed in address order never merge |
| `ramfs.cpp:46` | a directory is full: the child is dropped, success is reported |
| `ramfs.cpp:379` | `fs_mkdir` hands a null node to `fs_add_child` when memory is short |
| `vfs.cpp:99` | a handle kept across unmount and mount names a slot that was reused |
| `fat32.cpp:1988` | `fat32_mkdir` fills a cluster before it writes the entry and has to give it back on each later failure (`BreaksOnlyBy`) |
| `editor.cpp:214` | the old file is removed before the new one is written |
| `memory.cpp:76` | `free_frame` of a free frame decrements the counter |

## 6. Plan

1. `WindowText`: the snapshot of a window, its dirty rows, the caret and what
   `graphics.cpp` draws; composed with `Windows`.
2. More of `Fat32ChainProofs`: the refinement of `FileStore`, with a lemma per call on
   what a lookup finds after it.
3. `ContextSwitch`: what is saved where, the trampoline, and the interrupts that
   hit it; each process resumes with the registers it was interrupted with. This
   refines the `pc` of `Scheduler`.
4. `PhysicalMemory`, `Paging`: bitmap, counter and mappings.
5. `KeyboardInput`, `MouseInput`: the scancode and packet decoders, the character
   ring and its refinement of a bounded queue that refuses the newest.
6. `PciListeners`, `BlockDevices`: tables and listeners.
7. Inside a call of the VFS or of FAT32: split `vfs_open` at its search for a
   handle, and let clients die between calls (the close button), composed with
   `Scheduler`.

The runs are kept to about a dozen: a new one takes the place of the least
informative.
