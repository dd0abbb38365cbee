------------------------------ MODULE Scheduler ------------------------------
(***************************************************************************)
(* Processes, the lottery scheduler, hooks (what a process waits for) and  *)
(* the foreground process: scheduler.cpp, the process half of process.cpp, *)
(* the process syscalls of syscalls.cpp, the timer interrupt and the       *)
(* input-dispatch half of the keyboard and mouse interrupts.               *)
(*                                                                         *)
(* There is one CPU.  Interrupt and syscall gates are interrupt gates, so  *)
(* every handler is one atomic action; code that a process runs inside the *)
(* kernel without a syscall (scheduler_set_foreground, called by the shell *)
(* and the editor) runs with interrupts enabled and is several actions,    *)
(* between which the timer, the keyboard, the mouse and, after a           *)
(* preemption, other processes act.                                        *)
(*                                                                         *)
(* The lottery is a free choice among the processes it admits: every       *)
(* process has one ticket (set_process_tickets is never called).  A queue  *)
(* is abstracted to its length (BoundedFifo has its content), a TIME hook  *)
(* to the number of ticks until it fires.  A hook on a tick that is past   *)
(* never fires; such hooks, which all have different ticks, are numbered   *)
(* 0, -1, -2 ... so that they fill the hook array as they do in the code.  *)
(***************************************************************************)
EXTENDS Integers, Sequences, FiniteSets

CONSTANTS MAX_PROCESSES,
          MAX_HOOKS_PER_PROCESS,
          MAX_EVENT_QUEUE_SIZE,
          MAX_WINDOWS,
          SCHEDULER_QUANTUM_TICKS,
          MAX_PID               \* bound: pids handed out in one behaviour

ASSUME SchedulerAssumption ==
    /\ MAX_PROCESSES \in Nat \ {0}
    /\ MAX_HOOKS_PER_PROCESS \in Nat \ {0}
    /\ MAX_EVENT_QUEUE_SIZE \in Nat \ {0}
    /\ MAX_WINDOWS \in Nat \ {0}
    /\ SCHEDULER_QUANTUM_TICKS \in Nat \ {0}
    /\ MAX_PID \in Nat \ {0}

VARIABLES
    k,                    \* what handlers share, see KernelState
    process_table,
    current_process_idx,
    next_pid,
    quantum_counter,
    shell_process,        \* g_shell_process
    pc,                   \* where each process is in its own code
    answer,               \* what its last poll or wait told each process
    panicked              \* PANIC was called: the machine stands still

vars == <<k, process_table, current_process_idx, next_pid, quantum_counter,
          shell_process, pc, answer, panicked>>

NULL == 0
Pid == 1 .. MAX_PID
SHELL == 1                \* the first process that kernel_main starts
TableIndex == 0 .. (MAX_PROCESSES - 1)

SIGNAL == <<"SIGNAL", 0>>                 \* SIGNAL hook on the own pid
MAX_DELAY == 1                            \* get_ticks() + 1 (test_proc.cpp)
TIME_REACHED(n) == <<"TIME_REACHED", n>>  \* n ticks from now
Hook == {SIGNAL} \cup ({"TIME_REACHED"} \X Int)

KernelState ==
    [alive   : [Pid -> BOOLEAN],
     hooks   : [Pid -> SUBSET Hook],
     pending : [Pid -> 0 .. MAX_EVENT_QUEUE_SIZE],  \* io_events.count
     fg      : Pid \cup {NULL},                     \* foreground_proc
     stack   : Seq(Pid),                            \* foreground_stack
     windows : SUBSET Pid]                          \* owners of a window

\* Where a process is: in its own code, or inside a kernel function it called
\* with interrupts enabled, with that function's locals.
Position == [at : {"entry", "user", "due", "set_foreground", "switch",
                   "resume_prev", "resume_next"},
             prev : Pid \cup {NULL}, next : Pid \cup {NULL}, ticks : 0 .. MAX_DELAY]

User == [at |-> "user", prev |-> NULL, next |-> NULL, ticks |-> 0]

Current == process_table[current_process_idx]

-----------------------------------------------------------------------------
(* Functions of the kernel: state in, state out.                           *)

push_io_event(s, p) ==
    [s EXCEPT !.pending[p] = IF @ = MAX_EVENT_QUEUE_SIZE THEN @ ELSE @ + 1]

\* Mutant: the event is queued but nobody is resumed.
resume_Missing(s, p) == s

scheduler_resume_processes_for_signal(s, p) ==
    [s EXCEPT !.hooks[p] = @ \ {SIGNAL}]

deliver(s, p) == scheduler_resume_processes_for_signal(push_io_event(s, p), p)

IsAlive(s, p) == p # NULL /\ s.alive[p]

dispatch_focus_event(s, p) == IF IsAlive(s, p) THEN deliver(s, p) ELSE s

scheduler_switch_foreground(s, prev, next) ==
    IF prev = next THEN s
    ELSE dispatch_focus_event(
             dispatch_focus_event([s EXCEPT !.fg = next], prev), next)

\* Mutant: the bound of the stack is off by one.
RememberForeground_OffByOne(s) ==
    IF s.fg # NULL /\ Len(s.stack) <= MAX_PROCESSES
    THEN [s EXCEPT !.stack = Append(@, s.fg)]
    ELSE s

RememberForeground(s) ==
    IF s.fg # NULL /\ Len(s.stack) < MAX_PROCESSES
    THEN [s EXCEPT !.stack = Append(@, s.fg)]
    ELSE s

\* Called by an interrupt handler: no step of it can be interrupted.
scheduler_set_foreground(s, p) ==
    IF s.fg = p THEN s
    ELSE scheduler_switch_foreground(RememberForeground(s), s.fg, p)

\* Mutant: the heir of the foreground keeps its hooks.
restore_KeepsHooks(s, owner) ==
    IF owner # s.fg THEN s
    ELSE LET target == IF s.stack = << >> THEN NULL ELSE s.stack[Len(s.stack)]
             popped == IF s.stack = << >> THEN s
                       ELSE [s EXCEPT !.stack = SubSeq(@, 1, Len(@) - 1)]
         IN  [popped EXCEPT !.fg = target]

scheduler_restore_foreground(s, owner) ==
    IF owner # s.fg THEN s
    ELSE LET target == IF s.stack = << >> THEN NULL ELSE s.stack[Len(s.stack)]
             popped == IF s.stack = << >> THEN s
                       ELSE [s EXCEPT !.stack = SubSeq(@, 1, Len(@) - 1)]
             awake  == IF IsAlive(s, target)
                       THEN [popped EXCEPT !.hooks[target] = {}] ELSE popped
         IN  scheduler_switch_foreground(awake, s.fg, target)

kill_process(s, p) ==
    scheduler_restore_foreground(
        [s EXCEPT !.alive[p] = FALSE, !.windows = @ \ {p}], p)

\* dispatch_keyboard_event and the mouse's dispatch_event choose alike.
InputTarget(s) ==
    IF s.fg # NULL THEN s.fg
    ELSE IF shell_process # NULL THEN shell_process ELSE Current

process_yield_for_event(s, p, hook) ==
    IF Cardinality(s.hooks[p]) < MAX_HOOKS_PER_PROCESS
    THEN [s EXCEPT !.hooks[p] = @ \cup {hook}]
    ELSE s

\* timer_ticks++ and the resumption of the processes waiting for this tick.
NextTick(n) == IF n = 0 THEN 0 ELSE n - 1

Elapsed(hooks) ==
    (hooks \ {TIME_REACHED(n) : n \in 1 .. MAX_DELAY})
      \cup {TIME_REACHED(n - 1) : n \in {m \in 2 .. MAX_DELAY : TIME_REACHED(m) \in hooks}}

-----------------------------------------------------------------------------
(* The scheduler proper                                                    *)

Occupied == {i \in TableIndex : process_table[i] # NULL}

LiveSlots(s) == {i \in Occupied : s.alive[process_table[i]]}

\* Mutant: the lottery's loop ends one slot early.
RunnableSlots_OneShort(s) ==
    {i \in LiveSlots(s) : s.hooks[process_table[i]] = {} /\ i < MAX_PROCESSES - 1}

\* Mutant: the lottery sells tickets to processes that wait.
RunnableSlots_IgnoresHooks(s) == LiveSlots(s)

RunnableSlots(s) == {i \in LiveSlots(s) : s.hooks[process_table[i]] = {}}

\* context_switch, entered with state s: the lottery's winner runs next.
context_switch(s) ==
    LET lottery == RunnableSlots(s)
    IN  \/ /\ lottery # {}
           /\ current_process_idx' \in lottery
           /\ UNCHANGED panicked
        \/ /\ lottery = {}
           /\ panicked' = ~s.alive[Current]
           /\ UNCHANGED current_process_idx

\* scheduler_exit_current_and_switch: hooks do not count here.
scheduler_exit_current_and_switch(s) ==
    \/ /\ LiveSlots(s) # {}
       /\ current_process_idx' \in LiveSlots(s)
       /\ UNCHANGED panicked
    \/ /\ LiveSlots(s) = {}
       /\ panicked' = TRUE
       /\ UNCHANGED current_process_idx

\* scheduler_add_process, whose result k_start_process ignores: a process that
\* found the table full is handed to the caller all the same.
scheduler_add_process(p) ==
    process_table' =
        IF Occupied = TableIndex THEN process_table
        ELSE [process_table EXCEPT
                 ![CHOOSE i \in TableIndex \ Occupied :
                       \A j \in TableIndex \ Occupied : i <= j] = p]

-----------------------------------------------------------------------------
(* Steps of the running process                                            *)

Init ==
    /\ k = [alive |-> [p \in Pid |-> p = SHELL],
            hooks |-> [p \in Pid |-> {}],
            pending |-> [p \in Pid |-> 0],
            fg |-> NULL, stack |-> << >>, windows |-> {SHELL}]
    /\ process_table = [i \in TableIndex |-> IF i = 0 THEN SHELL ELSE NULL]
    /\ current_process_idx = 0
    /\ next_pid = SHELL + 1
    /\ quantum_counter = 0
    /\ shell_process = NULL
    /\ pc = [p \in Pid |-> [User EXCEPT !.at = IF p = SHELL THEN "entry" ELSE "user"]]
    /\ answer = [p \in Pid |-> "none"]
    /\ panicked = FALSE

OnCpu(p) == ~panicked /\ p = Current

\* Between two calls into the kernel, with no answer left to look at.
InUser(p) == OnCpu(p) /\ pc[p].at = "user" /\ answer[p] = "none"

sys_yield(p) ==
    /\ InUser(p)
    /\ context_switch(k)
    /\ UNCHANGED <<k, process_table, next_pid, quantum_counter, shell_process, pc, answer>>

\* get_ticks() + 1 (test_proc_entry): the program computes the tick it wants to
\* wait for ...
get_ticks(p) ==
    /\ InUser(p) /\ p # SHELL
    /\ pc' = [pc EXCEPT ![p] = [User EXCEPT !.at = "due", !.ticks = MAX_DELAY]]
    /\ UNCHANGED <<k, process_table, current_process_idx, next_pid, quantum_counter,
                   shell_process, answer, panicked>>

\* The hook on that tick; if it is past, the first number that is not taken.
DueHooks(p) ==
    IF pc[p].ticks > 0 THEN {TIME_REACHED(pc[p].ticks)}
    ELSE {TIME_REACHED(-n) : n \in {m \in 0 .. MAX_HOOKS_PER_PROCESS :
             /\ TIME_REACHED(-m) \notin k.hooks[p]
             /\ \A l \in 0 .. (m - 1) : TIME_REACHED(-l) \in k.hooks[p]}}

\* ... and waits for it, which may be in the past by now.
sys_yield_for_event(p) ==
    /\ OnCpu(p) /\ pc[p].at = "due"
    /\ \E hook \in DueHooks(p) :
          LET s == process_yield_for_event(k, p, hook)
          IN  k' = s /\ context_switch(s)
    /\ pc' = [pc EXCEPT ![p] = User]
    /\ UNCHANGED <<process_table, next_pid, quantum_counter, shell_process, answer>>

\* pop_io_event found something: both calls answer 1 and fill the buffer.
PopEvent(p) ==
    /\ k.pending[p] > 0
    /\ k' = [k EXCEPT !.pending[p] = @ - 1]
    /\ answer' = [answer EXCEPT ![p] = "event"]

sys_get_io_event(p) ==
    /\ InUser(p)
    /\ PopEvent(p) \/ (k.pending[p] = 0 /\ UNCHANGED <<k, answer>>)
    /\ UNCHANGED <<process_table, current_process_idx, next_pid, quantum_counter,
                   shell_process, pc, panicked>>

sys_wait_io_event_ready(p) ==
    /\ InUser(p) /\ PopEvent(p)
    /\ UNCHANGED <<process_table, current_process_idx, next_pid, quantum_counter,
                   shell_process, pc, panicked>>

\* context_switch saves regs->eax before syscall_dispatch stores the 0 that
\* sys_wait_io_event returns, so a process that was switched away finds the
\* syscall number 0x85 in eax when it resumes: not zero, and no event.
SavedAnswer(switched) == IF switched THEN "0x85" ELSE "none"

sys_wait_io_event_blocks(p) ==
    /\ InUser(p) /\ k.pending[p] = 0
    /\ LET s == process_yield_for_event(k, p, SIGNAL)
       IN  k' = s /\ context_switch(s)
    /\ answer' = [answer EXCEPT ![p] = SavedAnswer(current_process_idx' # current_process_idx)]
    /\ UNCHANGED <<process_table, next_pid, quantum_counter, shell_process, pc>>

\* The program acts on an answer that is not zero (shell_entry, editor_entry).
handle_event(p) ==
    /\ OnCpu(p) /\ answer[p] # "none"
    /\ answer' = [answer EXCEPT ![p] = "none"]
    /\ UNCHANGED <<k, process_table, current_process_idx, next_pid, quantum_counter,
                   shell_process, pc, panicked>>

sys_exit(p) ==
    /\ InUser(p)
    /\ LET s == kill_process(k, p)
       IN  k' = s /\ scheduler_exit_current_and_switch(s)
    /\ UNCHANGED <<process_table, next_pid, quantum_counter, shell_process, pc, answer>>

\* The first output of a process creates its window (write_text).
sys_console_write(p) ==
    /\ InUser(p)
    /\ p \notin k.windows /\ Cardinality(k.windows) < MAX_WINDOWS
    /\ k' = [k EXCEPT !.windows = @ \cup {p}]
    /\ UNCHANGED <<process_table, current_process_idx, next_pid, quantum_counter,
                   shell_process, pc, answer, panicked>>

\* k_start_process: the second kmalloc fails after the pid is taken ...
start_process_fails(p) ==
    /\ InUser(p) /\ next_pid \in Pid
    /\ next_pid' = next_pid + 1
    /\ UNCHANGED <<k, process_table, current_process_idx, quantum_counter,
                   shell_process, pc, answer, panicked>>

\* ... or the process is created.
CreateProcess ==
    /\ next_pid \in Pid
    /\ next_pid' = next_pid + 1
    /\ k' = [k EXCEPT !.alive[next_pid] = TRUE]
    /\ scheduler_add_process(next_pid)

sys_start_process(p) ==
    /\ InUser(p) /\ CreateProcess
    /\ UNCHANGED <<current_process_idx, quantum_counter, shell_process, pc, answer, panicked>>

-----------------------------------------------------------------------------
(* scheduler_set_foreground in a process: interrupts are enabled.          *)

CallSetForeground(p, next) ==
    pc' = [pc EXCEPT ![p] = [User EXCEPT !.at = "set_foreground", !.next = next]]

shell_entry(p) ==
    /\ OnCpu(p) /\ pc[p].at = "entry"
    /\ shell_process' = p
    /\ CallSetForeground(p, p)
    /\ UNCHANGED <<k, process_table, current_process_idx, next_pid, quantum_counter,
                   answer, panicked>>

editor_entry(p) ==
    /\ InUser(p) /\ p # SHELL
    /\ CallSetForeground(p, p)
    /\ UNCHANGED <<k, process_table, current_process_idx, next_pid, quantum_counter,
                   shell_process, answer, panicked>>

\* The edit command starts the editor and gives it the foreground.
cmd_edit(p) ==
    /\ InUser(p) /\ p = SHELL
    /\ CreateProcess
    /\ CallSetForeground(p, next_pid)
    /\ UNCHANGED <<current_process_idx, quantum_counter, shell_process, answer, panicked>>

\* The old foreground process is read and remembered on the stack.
set_foreground_begin(p) ==
    /\ OnCpu(p) /\ pc[p].at = "set_foreground"
    /\ \/ /\ k.fg = pc[p].next
          /\ pc' = [pc EXCEPT ![p] = User]
          /\ UNCHANGED k
       \/ /\ k.fg # pc[p].next
          /\ pc' = [pc EXCEPT ![p].at = "switch", ![p].prev = k.fg]
          /\ k' = RememberForeground(k)
    /\ UNCHANGED <<process_table, current_process_idx, next_pid, quantum_counter,
                   shell_process, answer, panicked>>

PushFocus(s, p) == IF IsAlive(s, p) THEN push_io_event(s, p) ELSE s

\* foreground_proc is stored and the loser told.
switch_foreground_lost(p) ==
    /\ OnCpu(p) /\ pc[p].at = "switch"
    /\ k' = PushFocus([k EXCEPT !.fg = pc[p].next], pc[p].prev)
    /\ pc' = [pc EXCEPT ![p].at = "resume_prev",
                        ![p].prev = IF IsAlive(k, @) THEN @ ELSE NULL]
    /\ UNCHANGED <<process_table, current_process_idx, next_pid, quantum_counter,
                   shell_process, answer, panicked>>

Resume(s, p) == IF p = NULL THEN s ELSE scheduler_resume_processes_for_signal(s, p)

\* The loser is resumed and the winner told.
switch_foreground_gained(p) ==
    /\ OnCpu(p) /\ pc[p].at = "resume_prev"
    /\ k' = PushFocus(Resume(k, pc[p].prev), pc[p].next)
    /\ pc' = [pc EXCEPT ![p].at = "resume_next",
                        ![p].next = IF IsAlive(k, @) THEN @ ELSE NULL]
    /\ UNCHANGED <<process_table, current_process_idx, next_pid, quantum_counter,
                   shell_process, answer, panicked>>

switch_foreground_done(p) ==
    /\ OnCpu(p) /\ pc[p].at = "resume_next"
    /\ k' = Resume(k, pc[p].next)
    /\ pc' = [pc EXCEPT ![p] = User]
    /\ UNCHANGED <<process_table, current_process_idx, next_pid, quantum_counter,
                   shell_process, answer, panicked>>

-----------------------------------------------------------------------------
(* Interrupts                                                              *)

\* timer_handler and scheduler_on_tick.
timer_handler ==
    /\ ~panicked
    /\ LET s == [k EXCEPT !.hooks = [p \in Pid |-> Elapsed(k.hooks[p])]]
       IN  /\ k' = s
           /\ \/ /\ quantum_counter + 1 >= SCHEDULER_QUANTUM_TICKS
                 /\ quantum_counter' = 0
                 /\ context_switch(s)
              \/ /\ quantum_counter + 1 < SCHEDULER_QUANTUM_TICKS
                 /\ quantum_counter' = quantum_counter + 1
                 /\ UNCHANGED <<current_process_idx, panicked>>
    /\ pc' = [p \in Pid |-> [pc[p] EXCEPT !.ticks = NextTick(@)]]
    /\ UNCHANGED <<process_table, next_pid, shell_process, answer>>

InterruptFrame == UNCHANGED <<process_table, current_process_idx, next_pid, quantum_counter,
                              shell_process, pc, answer, panicked>>

\* A key, or a mouse packet that presses no button on a window.
input_event ==
    /\ ~panicked
    /\ k' = deliver(k, InputTarget(k))
    /\ InterruptFrame

\* handle_packet: the window takes the foreground, then the packet is queued.
mouse_click(p) ==
    /\ ~panicked /\ p \in k.windows
    /\ LET s == scheduler_set_foreground(k, p)
       IN  k' = deliver(s, InputTarget(s))
    /\ InterruptFrame

\* The close button kills the owner, also when the owner is running.
mouse_close(p) ==
    /\ ~panicked /\ p \in k.windows
    /\ LET s == kill_process(scheduler_set_foreground(k, p), p)
       IN  k' = deliver(s, InputTarget(s))
    /\ InterruptFrame

-----------------------------------------------------------------------------
ProcessStep(p) ==
    \/ sys_yield(p) \/ get_ticks(p) \/ sys_yield_for_event(p)
    \/ sys_get_io_event(p) \/ sys_wait_io_event_ready(p)
    \/ sys_wait_io_event_blocks(p) \/ handle_event(p)
    \/ sys_exit(p) \/ sys_console_write(p)
    \/ start_process_fails(p) \/ sys_start_process(p) \/ cmd_edit(p)
    \/ shell_entry(p) \/ editor_entry(p)
    \/ set_foreground_begin(p) \/ switch_foreground_lost(p)
    \/ switch_foreground_gained(p) \/ switch_foreground_done(p)

Next ==
    \/ \E p \in Pid : ProcessStep(p)
    \/ timer_handler
    \/ input_event
    \/ \E p \in Pid : mouse_click(p) \/ mouse_close(p)

Spec == Init /\ [][Next]_vars

\* The PIT never stops, the CPU executes the process it is given, and the
\* lottery draws every ticket again and again: a process that can win
\* infinitely many draws wins one.
Fairness ==
    /\ WF_vars(timer_handler)
    /\ WF_vars(\E p \in Pid : ProcessStep(p))
    /\ \A p \in Pid : SF_vars(timer_handler /\ Current' = p)

FairSpec == Spec /\ Fairness

-----------------------------------------------------------------------------
(* Properties                                                              *)

\* Types of the scheduler's state; the CPU always belongs to a table entry.
TypeOK ==
    /\ k \in KernelState
    /\ Len(k.stack) <= MAX_PROCESSES
    /\ process_table \in [TableIndex -> Pid \cup {NULL}]
    /\ current_process_idx \in Occupied
    /\ next_pid \in 2 .. (MAX_PID + 1)
    /\ quantum_counter \in 0 .. (SCHEDULER_QUANTUM_TICKS - 1)
    /\ shell_process \in Pid \cup {NULL}
    /\ pc \in [Pid -> Position]
    /\ answer \in [Pid -> {"none", "event", "0x85"}]
    /\ panicked \in BOOLEAN

\* Process d has pushed an event for p and is about to resume p.
ResumedBy(p, d) == \/ pc[d].at = "resume_prev" /\ pc[d].prev = p
                   \/ pc[d].at = "resume_next" /\ pc[d].next = p
Resuming(p) == \E d \in Pid : ResumedBy(p, d)

\* process_wait_for_io_event tests the queue and registers the hook with
\* interrupts disabled, and whoever pushes resumes afterwards: a process never
\* sleeps on its SIGNAL hook with an event in its queue, except between the
\* push and the resume of dispatch_focus_event.
NoLostWakeup ==
    \A p \in Pid :
        SIGNAL \in k.hooks[p] /\ k.pending[p] > 0 => Resuming(p)

\* The CPU only ever moves to a live process, and unless the process it leaves
\* is dead, to one that waits for nothing (scheduler_next_process).
SwitchRespectsHooks ==
    [][current_process_idx' # current_process_idx =>
          /\ k'.alive[Current']
          /\ k'.alive[Current] => k'.hooks[Current'] = {}]_vars

\* When the owner of the foreground dies, by sys_exit or by its close button,
\* the process that inherits the foreground is made runnable at once
\* (scheduler_restore_foreground clears its hooks): the screen is never left
\* to a process that sleeps.
HeirIsAwake ==
    [][\A p \in Pid :
          k.fg = p /\ k.alive[p] /\ ~k'.alive[p] /\ k'.fg \notin {p, NULL}
              => k'.hooks[k'.fg] = {} \/ ~k'.alive[k'.fg]]_vars

\* kill_process, process.cpp: "This ensures no more input is routed to the
\* dying process".  An input event is only queued to a process that is alive,
\* or that was killed while it runs and has not left the CPU yet.
NoInputToTheDead ==
    [][\A p \in Pid : input_event /\ p = InputTarget(k) => k.alive[p] \/ p = Current]_vars

\* libc/include/process.h: process_wait_event "blocks cooperatively until an
\* event arrives".  An answer other than 0 comes with an event.
WaitAnswersWithEvent == \A p \in Pid : answer[p] # "0x85"

Runnable(p) ==
    k.alive[p] /\ k.hooks[p] = {} /\ \E i \in TableIndex : process_table[i] = p

\* Starvation freedom: under a timer that keeps ticking and a lottery that is
\* fair, a live process without hooks gets the CPU, whatever the others do.
RunnableRuns ==
    \A p \in Pid : Runnable(p) ~> (Current = p \/ ~Runnable(p) \/ panicked)

\* The window that NoLostWakeup leaves open closes again: a process that told
\* another one of a focus change and lost the CPU before it could resume it gets
\* the CPU back and does, unless its close button is pressed before.
FocusChangeEnds ==
    \A p \in Pid : \A d \in Pid \ {p} :
        Runnable(d) /\ ResumedBy(p, d) ~> (SIGNAL \notin k.hooks[p] \/ ~k.alive[d] \/ panicked)
=============================================================================
