-------------------------- MODULE SchedulerProofs --------------------------
(***************************************************************************)
(* Theorems about Scheduler for every table size, queue size, hook limit,  *)
(* quantum and number of processes.                                        *)
(***************************************************************************)
EXTENDS Scheduler, TLAPS

\* No process outside W sleeps on its SIGNAL hook with an event queued.
Awake(s, W) ==
    \A p \in Pid : SIGNAL \in s.hooks[p] /\ s.pending[p] > 0 => p \in W

\* The part of the invariant that is about the shared kernel state.
Good(s, W) ==
    /\ s \in KernelState
    /\ Len(s.stack) <= MAX_PROCESSES
    /\ Awake(s, W)

-----------------------------------------------------------------------------
(* The kernel's functions preserve Good                                    *)

\* push_io_event(p) can only disturb the wake-up of p.
LEMMA PushGood ==
  ASSUME NEW s, NEW W, Good(s, W), NEW p \in Pid
  PROVE  /\ Good(push_io_event(s, p), W \cup {p})
         /\ push_io_event(s, p).alive = s.alive
         /\ push_io_event(s, p).fg = s.fg
         /\ push_io_event(s, p).hooks = s.hooks
<1> DEFINE n == IF s.pending[p] = MAX_EVENT_QUEUE_SIZE THEN s.pending[p] ELSE s.pending[p] + 1
           t == push_io_event(s, p)
<1>1. s \in KernelState
  BY DEF Good
<1>2. n \in 0 .. MAX_EVENT_QUEUE_SIZE
  BY <1>1, SchedulerAssumption DEF KernelState
<1>3. t = [s EXCEPT !.pending = [s.pending EXCEPT ![p] = n]]
  BY <1>1 DEF push_io_event, KernelState
<1> HIDE DEF n, t
<1>4. t \in KernelState /\ t.alive = s.alive /\ t.fg = s.fg /\ t.hooks = s.hooks /\ t.stack = s.stack
  BY <1>1, <1>2, <1>3 DEF KernelState
<1>5. \A q \in Pid \ {p} : t.pending[q] = s.pending[q]
  BY <1>1, <1>3 DEF KernelState
<1>6. QED
  BY <1>4, <1>5 DEF Good, Awake, t

\* scheduler_resume_processes_for_event takes p off the list of the endangered.
LEMMA ResumeGood ==
  ASSUME NEW s, NEW W, NEW p \in Pid, Good(s, W \cup {p})
  PROVE  /\ Good(scheduler_resume_processes_for_signal(s, p), W)
         /\ scheduler_resume_processes_for_signal(s, p).alive = s.alive
         /\ scheduler_resume_processes_for_signal(s, p).fg = s.fg
BY DEF Good, Awake, scheduler_resume_processes_for_signal, KernelState

\* A push followed by the resumption endangers nobody.
LEMMA DeliverGood ==
  ASSUME NEW s, NEW W, Good(s, W), NEW p \in Pid
  PROVE  /\ Good(deliver(s, p), W)
         /\ deliver(s, p).alive = s.alive
         /\ deliver(s, p).fg = s.fg
<1> DEFINE t == push_io_event(s, p)
<1>1. Good(t, W \cup {p}) /\ t.alive = s.alive /\ t.fg = s.fg
  BY PushGood
<1> HIDE DEF t
<1>2. LET r == scheduler_resume_processes_for_signal(t, p)
      IN  Good(r, W) /\ r.alive = s.alive /\ r.fg = s.fg
  BY <1>1, ResumeGood
<1>3. QED
  BY <1>2 DEF deliver, t

\* dispatch_focus_event, to a live process, a dead one or nobody.
LEMMA FocusGood ==
  ASSUME NEW s, NEW W, Good(s, W), NEW p \in Pid \cup {NULL}
  PROVE  /\ Good(dispatch_focus_event(s, p), W)
         /\ dispatch_focus_event(s, p).alive = s.alive
         /\ dispatch_focus_event(s, p).fg = s.fg
BY DeliverGood DEF dispatch_focus_event, IsAlive

\* scheduler_switch_foreground in an interrupt handler.
LEMMA SwitchForegroundGood ==
  ASSUME NEW s, NEW W, Good(s, W), NEW prev \in Pid \cup {NULL}, NEW next \in Pid \cup {NULL}
  PROVE  /\ Good(scheduler_switch_foreground(s, prev, next), W)
         /\ scheduler_switch_foreground(s, prev, next).alive = s.alive
<1> DEFINE t == [s EXCEPT !.fg = next]
<1>1. Good(t, W) /\ t.alive = s.alive
  BY DEF Good, Awake, KernelState
<1> HIDE DEF t
<1>2. Good(dispatch_focus_event(t, prev), W) /\ dispatch_focus_event(t, prev).alive = s.alive
  BY <1>1, FocusGood
<1>3. Good(dispatch_focus_event(dispatch_focus_event(t, prev), next), W)
      /\ dispatch_focus_event(dispatch_focus_event(t, prev), next).alive = s.alive
  BY <1>2, FocusGood
<1>4. QED
  BY <1>3 DEF scheduler_switch_foreground, t

\* The foreground stack is only pushed below its capacity.
LEMMA RememberGood ==
  ASSUME NEW s, NEW W, Good(s, W)
  PROVE  /\ Good(RememberForeground(s), W)
         /\ RememberForeground(s).alive = s.alive
         /\ RememberForeground(s).fg = s.fg
<1>1. CASE s.fg # NULL /\ Len(s.stack) < MAX_PROCESSES
  <2>1. s.fg \in Pid /\ s.stack \in Seq(Pid) /\ s \in KernelState
    BY <1>1 DEF Good, KernelState
  <2>2. Append(s.stack, s.fg) \in Seq(Pid) /\ Len(Append(s.stack, s.fg)) <= MAX_PROCESSES
    BY <1>1, <2>1, SchedulerAssumption
  <2>3. RememberForeground(s) = [s EXCEPT !.stack = Append(s.stack, s.fg)]
    BY <1>1 DEF RememberForeground
  <2>4. QED
    BY <2>1, <2>2, <2>3 DEF Good, Awake, KernelState
<1>2. CASE ~(s.fg # NULL /\ Len(s.stack) < MAX_PROCESSES)
  BY <1>2 DEF RememberForeground
<1>3. QED
  BY <1>1, <1>2

\* scheduler_set_foreground in an interrupt handler.
LEMMA SetForegroundGood ==
  ASSUME NEW s, NEW W, Good(s, W), NEW p \in Pid
  PROVE  /\ Good(scheduler_set_foreground(s, p), W)
         /\ scheduler_set_foreground(s, p).alive = s.alive
<1>1. s.fg \in Pid \cup {NULL}
  BY DEF Good, KernelState
<1> DEFINE t == RememberForeground(s)
<1>2. Good(t, W) /\ t.alive = s.alive
  BY RememberGood
<1> HIDE DEF t
<1>3. LET r == scheduler_switch_foreground(t, s.fg, p)
      IN  Good(r, W) /\ r.alive = s.alive
  BY <1>1, <1>2, SwitchForegroundGood
<1>4. QED
  BY <1>3 DEF scheduler_set_foreground, t

\* Clearing the hooks of a process wakes it.
LEMMA DropHooksGood ==
  ASSUME NEW s, NEW W, Good(s, W), NEW p \in Pid,
         NEW t, t = [s EXCEPT !.hooks[p] = {}]
  PROVE  Good(t, W) /\ t.alive = s.alive
BY DEF Good, Awake, KernelState

\* scheduler_restore_foreground pops the stack and wakes the heir.
LEMMA RestoreForegroundGood ==
  ASSUME NEW s, NEW W, Good(s, W), NEW owner \in Pid
  PROVE  /\ Good(scheduler_restore_foreground(s, owner), W)
         /\ scheduler_restore_foreground(s, owner).alive = s.alive
<1>1. CASE owner # s.fg
  BY <1>1 DEF scheduler_restore_foreground
<1>2. CASE owner = s.fg
  <2> DEFINE target == IF s.stack = << >> THEN NULL ELSE s.stack[Len(s.stack)]
             popped == IF s.stack = << >> THEN s
                       ELSE [s EXCEPT !.stack = SubSeq(@, 1, Len(@) - 1)]
             awake  == IF IsAlive(s, target)
                       THEN [popped EXCEPT !.hooks[target] = {}] ELSE popped
  <2>1. target \in Pid \cup {NULL} /\ s.fg \in Pid \cup {NULL}
    BY DEF Good, KernelState
  <2>2. Good(popped, W) /\ popped.alive = s.alive
    <3>1. CASE s.stack = << >>
      BY <3>1
    <3>2. CASE s.stack # << >>
      <4>1. s \in KernelState /\ s.stack \in Seq(Pid) /\ Len(s.stack) <= MAX_PROCESSES
        BY DEF Good, KernelState
      <4>2. SubSeq(s.stack, 1, Len(s.stack) - 1) \in Seq(Pid)
            /\ Len(SubSeq(s.stack, 1, Len(s.stack) - 1)) <= MAX_PROCESSES
        BY <3>2, <4>1, SchedulerAssumption
      <4>3. popped = [s EXCEPT !.stack = SubSeq(s.stack, 1, Len(s.stack) - 1)]
        BY <3>2
      <4> HIDE DEF popped
      <4>4. QED
        BY <4>1, <4>2, <4>3 DEF Good, Awake, KernelState
    <3>3. QED
      BY <3>1, <3>2
  <2> HIDE DEF target, popped
  <2>3. Good(awake, W) /\ awake.alive = s.alive
    <3>1. CASE IsAlive(s, target)
      <4>1. target \in Pid /\ awake = [popped EXCEPT !.hooks[target] = {}]
        BY <2>1, <3>1 DEF IsAlive
      <4>2. QED
        BY <2>2, <4>1, DropHooksGood
    <3>2. CASE ~IsAlive(s, target)
      BY <2>2, <3>2
    <3>3. QED
      BY <3>1, <3>2
  <2>4. scheduler_restore_foreground(s, owner) = scheduler_switch_foreground(awake, s.fg, target)
    BY <1>2 DEF scheduler_restore_foreground, target, popped
  <2> HIDE DEF awake
  <2>5. Good(scheduler_switch_foreground(awake, s.fg, target), W)
        /\ scheduler_switch_foreground(awake, s.fg, target).alive = awake.alive
    BY <2>1, <2>3, SwitchForegroundGood
  <2>6. QED
    BY <2>3, <2>4, <2>5
<1>3. QED
  BY <1>1, <1>2

\* kill_process, and the process is dead afterwards.
LEMMA KillGood ==
  ASSUME NEW s, NEW W, Good(s, W), NEW p \in Pid
  PROVE  /\ Good(kill_process(s, p), W)
         /\ kill_process(s, p).alive[p] = FALSE
<1> DEFINE t == [s EXCEPT !.alive[p] = FALSE, !.windows = @ \ {p}]
<1>1. Good(t, W) /\ t.alive[p] = FALSE
  BY DEF Good, Awake, KernelState
<1> HIDE DEF t
<1>2. QED
  BY <1>1, RestoreForegroundGood DEF kill_process, t

\* A SIGNAL hook is registered on an empty queue, a TIME hook at any time.
LEMMA HookGood ==
  ASSUME NEW s, NEW W, Good(s, W), NEW p \in Pid, NEW hook \in Hook,
         hook = SIGNAL => s.pending[p] = 0
  PROVE  Good(process_yield_for_event(s, p, hook), W)
<1>1. CASE Cardinality(s.hooks[p]) < MAX_HOOKS_PER_PROCESS
  <2> DEFINE t == [s EXCEPT !.hooks[p] = @ \cup {hook}]
  <2>1. t \in KernelState /\ t.stack = s.stack /\ t.pending = s.pending
        /\ \A q \in Pid : t.hooks[q] = IF q = p THEN s.hooks[p] \cup {hook} ELSE s.hooks[q]
    BY DEF Good, KernelState
  <2>2. process_yield_for_event(s, p, hook) = t
    BY <1>1 DEF process_yield_for_event
  <2> HIDE DEF t
  <2>3. ASSUME NEW q \in Pid, SIGNAL \in t.hooks[q], t.pending[q] > 0
        PROVE  q \in W
    <3>1. SIGNAL \in s.hooks[q] \/ (q = p /\ hook = SIGNAL)
      BY <2>1, <2>3
    <3>2. ~(q = p /\ hook = SIGNAL)
      BY <2>1, <2>3
    <3>3. QED
      BY <2>1, <2>3, <3>1, <3>2 DEF Good, Awake
  <2>4. QED
    BY <2>1, <2>2, <2>3 DEF Good, Awake
<1>2. CASE ~(Cardinality(s.hooks[p]) < MAX_HOOKS_PER_PROCESS)
  BY <1>2 DEF process_yield_for_event
<1>3. QED
  BY <1>1, <1>2

-----------------------------------------------------------------------------
(* The inductive invariant                                                 *)

Resumed == {p \in Pid : Resuming(p)}

\* TypeOK without the shared kernel state.
Shape ==
    /\ process_table \in [TableIndex -> Pid \cup {NULL}]
    /\ current_process_idx \in Occupied
    /\ next_pid \in 2 .. (MAX_PID + 1)
    /\ quantum_counter \in 0 .. (SCHEDULER_QUANTUM_TICKS - 1)
    /\ shell_process \in Pid \cup {NULL}
    /\ pc \in [Pid -> Position]
    /\ answer \in [Pid -> {"none", "event", "0x85"}]
    /\ panicked \in BOOLEAN

IInv == Good(k, Resumed) /\ Shape

\* The invariant of the proof is the conjunction of the two invariants.
LEMMA IInvMeans == IInv <=> TypeOK /\ NoLostWakeup
BY DEF IInv, Good, Awake, Resumed, Shape, TypeOK, NoLostWakeup

\* More processes may be excused.
LEMMA GoodWeaken ==
  ASSUME NEW s, NEW V, NEW W, Good(s, V), V \subseteq W
  PROVE  Good(s, W)
BY DEF Good, Awake

\* A step in which nobody leaves the middle of dispatch_focus_event.
LEMMA KeepResumed ==
  ASSUME \A d \in Pid : pc[d].at \in {"resume_prev", "resume_next"} =>
            pc'[d].at = pc[d].at /\ pc'[d].prev = pc[d].prev /\ pc'[d].next = pc[d].next
  PROVE  Resumed \subseteq Resumed'
BY DEF Resumed, Resuming, ResumedBy

\* The CPU belongs to a process (scheduler_current_process).
LEMMA CurrentIsPid ==
  ASSUME Shape
  PROVE  Current \in Pid
BY DEF Shape, Current, Occupied

\* context_switch leaves the CPU with a table entry.
LEMMA ContextSwitchShape ==
  ASSUME Shape, NEW s, s \in KernelState, context_switch(s)
  PROVE  current_process_idx' \in Occupied /\ panicked' \in BOOLEAN
<1>1. s.alive[Current] \in BOOLEAN
  BY CurrentIsPid DEF KernelState
<1>2. current_process_idx' \in Occupied
  BY DEF context_switch, RunnableSlots, LiveSlots, Shape
<1>3. panicked' \in BOOLEAN
  BY <1>1 DEF context_switch, Shape
<1>4. QED
  BY <1>2, <1>3

\* scheduler_exit_current_and_switch leaves the CPU with a table entry.
LEMMA ExitSwitchShape ==
  ASSUME Shape, NEW s, scheduler_exit_current_and_switch(s)
  PROVE  current_process_idx' \in Occupied /\ panicked' \in BOOLEAN
BY DEF scheduler_exit_current_and_switch, LiveSlots, Shape

\* scheduler_add_process fills a free slot and empties none.
LEMMA AddProcessShape ==
  ASSUME Shape, NEW p \in Pid, scheduler_add_process(p)
  PROVE  process_table' \in [TableIndex -> Pid \cup {NULL}] /\ Occupied \subseteq Occupied'
<1> DEFINE i == CHOOSE i \in TableIndex \ Occupied : \A j \in TableIndex \ Occupied : i <= j
<1>1. process_table' = process_table \/ process_table' = [process_table EXCEPT ![i] = p]
  BY DEF scheduler_add_process
<1> HIDE DEF i
<1>2. p # NULL
  BY DEF Pid, NULL
<1>3. QED
  BY <1>1, <1>2 DEF Shape, Occupied

\* dispatch_keyboard_event and dispatch_event always find a target.
LEMMA InputTargetIsPid ==
  ASSUME Shape, NEW s, s \in KernelState
  PROVE  InputTarget(s) \in Pid
BY CurrentIsPid DEF InputTarget, Shape, KernelState

\* The state kernel_main leaves satisfies the invariant.
LEMMA InitInv == Init => IInv
<1> SUFFICES ASSUME Init PROVE IInv
  OBVIOUS
<1>1. SHELL \in Pid /\ 0 \in TableIndex /\ SHELL # NULL
  BY SchedulerAssumption DEF SHELL, Pid, TableIndex, NULL
<1>2. k \in KernelState /\ Len(k.stack) <= MAX_PROCESSES
  BY <1>1, SchedulerAssumption DEF Init, KernelState
<1>3. Awake(k, Resumed)
  BY DEF Init, Awake
<1>4. pc \in [Pid -> Position]
  BY DEF Init, Position, User, MAX_DELAY
<1>5. current_process_idx \in Occupied /\ process_table \in [TableIndex -> Pid \cup {NULL}]
  BY <1>1 DEF Init, Occupied
<1>6. next_pid \in 2 .. (MAX_PID + 1) /\ quantum_counter \in 0 .. (SCHEDULER_QUANTUM_TICKS - 1)
  BY SchedulerAssumption DEF Init, SHELL
<1>7. answer \in [Pid -> {"none", "event", "0x85"}]
  BY DEF Init
<1>8. shell_process \in Pid \cup {NULL} /\ panicked \in BOOLEAN
  BY DEF Init
<1>9. QED
  BY <1>2, <1>3, <1>4, <1>5, <1>6, <1>7, <1>8 DEF IInv, Good, Shape

-----------------------------------------------------------------------------
(* Steps of a process preserve the invariant                               *)

\* What a step of process p leaves of the invariant when p was in its own code.
LEMMA OwnStep ==
  ASSUME IInv, NEW p \in Pid, pc[p].at \notin {"resume_prev", "resume_next"},
         \E x \in Position : pc' = [pc EXCEPT ![p] = x]
  PROVE  Resumed \subseteq Resumed' /\ pc' \in [Pid -> Position]
<1>1. PICK x \in Position : pc' = [pc EXCEPT ![p] = x]
  OBVIOUS
<1>2. pc \in [Pid -> Position]
  BY DEF IInv, Shape
<1>3. \A d \in Pid \ {p} : pc'[d] = pc[d]
  BY <1>1, <1>2
<1>4. Resumed \subseteq Resumed'
  BY <1>3, KeepResumed
<1>5. QED
  BY <1>1, <1>2, <1>4

\* A step that leaves every position as it is.
LEMMA SamePositions ==
  ASSUME UNCHANGED pc
  PROVE  Resumed' = Resumed
BY DEF Resumed, Resuming, ResumedBy

\* The positions the actions construct have the type of a position.
LEMMA UserInPosition ==
  /\ User \in Position
  /\ [User EXCEPT !.at = "due", !.ticks = MAX_DELAY] \in Position
  /\ \A n \in Pid : [User EXCEPT !.at = "set_foreground", !.next = n] \in Position
<1>1. User \in Position
  BY DEF User, Position, MAX_DELAY
<1>2. [User EXCEPT !.at = "due", !.ticks = MAX_DELAY] \in Position
  <2>1. MAX_DELAY \in 0 .. MAX_DELAY
    BY DEF MAX_DELAY
  <2>2. QED
    BY <1>1, <2>1 DEF Position
<1>3. ASSUME NEW n \in Pid
      PROVE  [User EXCEPT !.at = "set_foreground", !.next = n] \in Position
  BY <1>1 DEF Position
<1>4. QED
  BY <1>1, <1>2, <1>3

\* sys_yield preserves the invariant.
LEMMA YieldInv ==
  ASSUME IInv, NEW p \in Pid, sys_yield(p)
  PROVE  IInv'
<1>1. k \in KernelState /\ Shape
  BY DEF IInv, Good
<1>2. current_process_idx' \in Occupied /\ panicked' \in BOOLEAN
  BY <1>1, ContextSwitchShape DEF sys_yield
<1>3. Resumed' = Resumed
  BY SamePositions DEF sys_yield
<1>4. Good(k, Resumed)'
  BY <1>3 DEF sys_yield, IInv, Good, Awake
<1>5. Shape'
  BY <1>1, <1>2 DEF sys_yield, Shape, Occupied
<1>6. QED
  BY <1>4, <1>5 DEF IInv

\* Reading the tick counter preserves the invariant.
LEMMA GetTicksInv ==
  ASSUME IInv, NEW p \in Pid, get_ticks(p)
  PROVE  IInv'
<1>1. Resumed \subseteq Resumed' /\ pc' \in [Pid -> Position]
  BY OwnStep, UserInPosition DEF get_ticks, InUser
<1>2. Good(k, Resumed)'
  BY <1>1 DEF get_ticks, IInv, Good, Awake
<1>3. Shape'
  BY <1>1 DEF get_ticks, IInv, Shape, Occupied
<1>4. QED
  BY <1>2, <1>3 DEF IInv

\* sys_yield_for_event preserves the invariant.
LEMMA YieldForEventInv ==
  ASSUME IInv, NEW p \in Pid, sys_yield_for_event(p)
  PROVE  IInv'
<1>0. PICK h \in DueHooks(p) :
          k' = process_yield_for_event(k, p, h) /\ context_switch(process_yield_for_event(k, p, h))
  BY DEF sys_yield_for_event
<1> DEFINE s == process_yield_for_event(k, p, h)
<1>1. h \in Hook /\ h # SIGNAL
  <2>1. pc[p].ticks \in Int
    BY DEF IInv, Shape, Position
  <2>2. PICK n \in Int : h = TIME_REACHED(n)
    BY <2>1, SchedulerAssumption DEF DueHooks
  <2>3. QED
    BY <2>2 DEF Hook, TIME_REACHED, SIGNAL
<1>2. k' = s /\ context_switch(s)
  BY <1>0
<1>3. Good(s, Resumed)
  BY <1>1, HookGood DEF IInv
<1> HIDE DEF s
<1>4. Resumed \subseteq Resumed' /\ pc' \in [Pid -> Position]
  BY OwnStep, UserInPosition DEF sys_yield_for_event
<1>5. Good(k, Resumed)'
  BY <1>2, <1>3, <1>4 DEF Good, Awake
<1>6. current_process_idx' \in Occupied /\ panicked' \in BOOLEAN
  BY <1>2, <1>3, ContextSwitchShape DEF IInv, Good
<1>7. Shape'
  BY <1>4, <1>6 DEF sys_yield_for_event, IInv, Shape, Occupied
<1>8. QED
  BY <1>5, <1>7 DEF IInv

\* Taking an event from the queue endangers nobody.
LEMMA PopGood ==
  ASSUME IInv, NEW p \in Pid, PopEvent(p)
  PROVE  Good(k', Resumed) /\ answer' \in [Pid -> {"none", "event", "0x85"}]
<1>1. k \in KernelState /\ k' = [k EXCEPT !.pending[p] = @ - 1] /\ k.pending[p] > 0
  BY DEF IInv, Good, PopEvent
<1>2. k.pending[p] - 1 \in 0 .. MAX_EVENT_QUEUE_SIZE
  BY <1>1, SchedulerAssumption DEF KernelState
<1>3. k' \in KernelState /\ k'.stack = k.stack /\ k'.hooks = k.hooks
      /\ \A q \in Pid : k'.pending[q] > 0 => k.pending[q] > 0
  BY <1>1, <1>2 DEF KernelState
<1>4. Good(k', Resumed)
  BY <1>3 DEF IInv, Good, Awake
<1>5. answer' \in [Pid -> {"none", "event", "0x85"}]
  BY DEF PopEvent, IInv, Shape
<1>6. QED
  BY <1>4, <1>5

\* The calls that find an event, or do not wait for one, preserve the invariant.
LEMMA GetEventInv ==
  ASSUME IInv, NEW p \in Pid, sys_get_io_event(p) \/ sys_wait_io_event_ready(p)
  PROVE  IInv'
<1>1. Good(k', Resumed) /\ answer' \in [Pid -> {"none", "event", "0x85"}]
  BY PopGood DEF sys_get_io_event, sys_wait_io_event_ready, IInv, Shape
<1>2. UNCHANGED <<process_table, current_process_idx, next_pid, quantum_counter,
                  shell_process, pc, panicked>>
  BY DEF sys_get_io_event, sys_wait_io_event_ready
<1>3. Resumed' = Resumed
  BY <1>2, SamePositions
<1>4. Good(k, Resumed)'
  BY <1>1, <1>3 DEF Good, Awake
<1>5. Shape'
  BY <1>1, <1>2 DEF IInv, Shape, Occupied
<1>6. QED
  BY <1>4, <1>5 DEF IInv

\* sys_wait_io_event hooks a process whose queue is empty.
LEMMA WaitBlocksInv ==
  ASSUME IInv, NEW p \in Pid, sys_wait_io_event_blocks(p)
  PROVE  IInv'
<1> DEFINE s == process_yield_for_event(k, p, SIGNAL)
<1>1. k' = s /\ context_switch(s) /\ k.pending[p] = 0
  BY DEF sys_wait_io_event_blocks
<1>2. Good(s, Resumed)
  BY <1>1, HookGood DEF IInv, Hook
<1> HIDE DEF s
<1>3. Resumed' = Resumed
  BY SamePositions DEF sys_wait_io_event_blocks
<1>4. Good(k, Resumed)'
  BY <1>1, <1>2, <1>3 DEF Good, Awake
<1>5. current_process_idx' \in Occupied /\ panicked' \in BOOLEAN
  BY <1>1, <1>2, ContextSwitchShape DEF IInv, Good
<1>6. answer' \in [Pid -> {"none", "event", "0x85"}]
  BY DEF sys_wait_io_event_blocks, SavedAnswer, IInv, Shape
<1>7. Shape'
  BY <1>5, <1>6 DEF sys_wait_io_event_blocks, IInv, Shape, Occupied
<1>8. QED
  BY <1>4, <1>7 DEF IInv

\* Acting on an answer preserves the invariant.
LEMMA HandleEventInv ==
  ASSUME IInv, NEW p \in Pid, handle_event(p)
  PROVE  IInv'
<1>1. Resumed' = Resumed
  BY SamePositions DEF handle_event
<1>2. Good(k, Resumed)'
  BY <1>1 DEF handle_event, IInv, Good, Awake
<1>3. answer' \in [Pid -> {"none", "event", "0x85"}]
  BY DEF handle_event, IInv, Shape
<1>4. Shape'
  BY <1>3 DEF handle_event, IInv, Shape, Occupied
<1>5. QED
  BY <1>2, <1>4 DEF IInv

\* sys_exit preserves the invariant.
LEMMA ExitInv ==
  ASSUME IInv, NEW p \in Pid, sys_exit(p)
  PROVE  IInv'
<1> DEFINE s == kill_process(k, p)
<1>1. k' = s /\ scheduler_exit_current_and_switch(s)
  BY DEF sys_exit
<1>2. Good(s, Resumed)
  BY KillGood DEF IInv
<1> HIDE DEF s
<1>3. Resumed' = Resumed
  BY SamePositions DEF sys_exit
<1>4. Good(k, Resumed)'
  BY <1>1, <1>2, <1>3 DEF Good, Awake
<1>5. current_process_idx' \in Occupied /\ panicked' \in BOOLEAN
  BY <1>1, ExitSwitchShape DEF IInv
<1>6. Shape'
  BY <1>5 DEF sys_exit, IInv, Shape, Occupied
<1>7. QED
  BY <1>4, <1>6 DEF IInv

\* The creation of a window preserves the invariant.
LEMMA ConsoleWriteInv ==
  ASSUME IInv, NEW p \in Pid, sys_console_write(p)
  PROVE  IInv'
<1>1. Resumed' = Resumed
  BY SamePositions DEF sys_console_write
<1>2. k \in KernelState /\ k' = [k EXCEPT !.windows = @ \cup {p}]
  BY DEF sys_console_write, IInv, Good
<1>3. k' \in KernelState /\ k'.hooks = k.hooks /\ k'.pending = k.pending /\ k'.stack = k.stack
  BY <1>2 DEF KernelState
<1>4. Good(k, Resumed)'
  BY <1>1, <1>3 DEF IInv, Good, Awake
<1>5. Shape'
  BY DEF sys_console_write, IInv, Shape, Occupied
<1>6. QED
  BY <1>4, <1>5 DEF IInv

\* A k_start_process that fails preserves the invariant.
LEMMA StartFailsInv ==
  ASSUME IInv, NEW p \in Pid, start_process_fails(p)
  PROVE  IInv'
<1>1. Resumed' = Resumed
  BY SamePositions DEF start_process_fails
<1>2. Good(k, Resumed)'
  BY <1>1 DEF start_process_fails, IInv, Good, Awake
<1>3. next_pid' \in 2 .. (MAX_PID + 1)
  BY SchedulerAssumption DEF start_process_fails, Pid, IInv, Shape
<1>4. Shape'
  BY <1>3 DEF start_process_fails, IInv, Shape, Occupied
<1>5. QED
  BY <1>2, <1>4 DEF IInv

\* k_start_process creates a process that has no hook.
LEMMA CreateGood ==
  ASSUME IInv, CreateProcess
  PROVE  /\ Good(k', Resumed)
         /\ next_pid' \in 2 .. (MAX_PID + 1)
         /\ process_table' \in [TableIndex -> Pid \cup {NULL}]
         /\ Occupied \subseteq Occupied'
<1>1. next_pid \in Pid /\ k \in KernelState /\ k' = [k EXCEPT !.alive[next_pid] = TRUE]
  BY DEF CreateProcess, IInv, Good
<1>2. k' \in KernelState /\ k'.hooks = k.hooks /\ k'.pending = k.pending /\ k'.stack = k.stack
  BY <1>1 DEF KernelState
<1>3. Good(k', Resumed)
  BY <1>2 DEF IInv, Good, Awake
<1>4. next_pid' \in 2 .. (MAX_PID + 1)
  BY SchedulerAssumption DEF CreateProcess, Pid, IInv, Shape
<1>5. process_table' \in [TableIndex -> Pid \cup {NULL}] /\ Occupied \subseteq Occupied'
  BY <1>1, AddProcessShape DEF CreateProcess, IInv
<1>6. QED
  BY <1>3, <1>4, <1>5

\* sys_start_process preserves the invariant.
LEMMA StartProcessInv ==
  ASSUME IInv, NEW p \in Pid, sys_start_process(p)
  PROVE  IInv'
<1>1. /\ Good(k', Resumed)
      /\ next_pid' \in 2 .. (MAX_PID + 1)
      /\ process_table' \in [TableIndex -> Pid \cup {NULL}]
      /\ Occupied \subseteq Occupied'
  BY CreateGood DEF sys_start_process
<1>2. Resumed' = Resumed
  BY SamePositions DEF sys_start_process
<1>3. Good(k, Resumed)'
  BY <1>1, <1>2 DEF Good, Awake
<1>4. Shape'
  BY <1>1 DEF sys_start_process, IInv, Shape
<1>5. QED
  BY <1>3, <1>4 DEF IInv

\* cmd_edit preserves the invariant.
LEMMA EditInv ==
  ASSUME IInv, NEW p \in Pid, cmd_edit(p)
  PROVE  IInv'
<1>1. /\ Good(k', Resumed)
      /\ next_pid' \in 2 .. (MAX_PID + 1)
      /\ process_table' \in [TableIndex -> Pid \cup {NULL}]
      /\ Occupied \subseteq Occupied'
  BY CreateGood DEF cmd_edit
<1>2. next_pid \in Pid
  BY DEF cmd_edit, CreateProcess
<1>3. Resumed \subseteq Resumed' /\ pc' \in [Pid -> Position]
  BY <1>2, OwnStep, UserInPosition DEF cmd_edit, InUser, CallSetForeground
<1>4. Good(k, Resumed)'
  BY <1>1, <1>3 DEF Good, Awake
<1>5. Shape'
  BY <1>1, <1>3 DEF cmd_edit, IInv, Shape
<1>6. QED
  BY <1>4, <1>5 DEF IInv

\* shell_entry and editor_entry preserve the invariant.
LEMMA EntryInv ==
  ASSUME IInv, NEW p \in Pid, shell_entry(p) \/ editor_entry(p)
  PROVE  IInv'
<1>1. Resumed \subseteq Resumed' /\ pc' \in [Pid -> Position]
  BY OwnStep, UserInPosition DEF shell_entry, editor_entry, InUser, CallSetForeground
<1>2. Good(k, Resumed)'
  BY <1>1 DEF shell_entry, editor_entry, IInv, Good, Awake
<1>3. shell_process' \in Pid \cup {NULL}
  BY DEF shell_entry, editor_entry, IInv, Shape
<1>4. Shape'
  BY <1>1, <1>3 DEF shell_entry, editor_entry, IInv, Shape, Occupied
<1>5. QED
  BY <1>2, <1>4 DEF IInv

-----------------------------------------------------------------------------
(* The steps of scheduler_set_foreground in a process                      *)

\* The processes that some process other than d is about to resume.
Others(d) ==
    {p \in Pid : \E e \in Pid \ {d} :
                     \/ pc[e].at = "resume_prev" /\ pc[e].prev = p
                     \/ pc[e].at = "resume_next" /\ pc[e].next = p}

\* A step of p leaves the resumptions of the other processes pending.
LEMMA OthersStay ==
  ASSUME IInv, NEW p \in Pid, NEW x, pc' = [pc EXCEPT ![p] = x]
  PROVE  Others(p) \subseteq Resumed'
<1>1. \A d \in Pid \ {p} : pc'[d] = pc[d]
  BY DEF IInv, Shape
<1>2. QED
  BY <1>1 DEF Others, Resumed, Resuming, ResumedBy

\* The push of dispatch_focus_event endangers only its target.
LEMMA PushFocusGood ==
  ASSUME NEW s, NEW W, Good(s, W), NEW p \in Pid \cup {NULL}
  PROVE  /\ Good(PushFocus(s, p), W \cup {p})
         /\ ~IsAlive(s, p) => Good(PushFocus(s, p), W)
<1>1. CASE IsAlive(s, p)
  BY <1>1, PushGood DEF PushFocus, IsAlive
<1>2. CASE ~IsAlive(s, p)
  BY <1>2 DEF PushFocus, Good, Awake
<1>3. QED
  BY <1>1, <1>2

\* The resumption of dispatch_focus_event, or none for a dead target.
LEMMA ResumeOrNotGood ==
  ASSUME NEW s, NEW W, NEW p \in Pid \cup {NULL}, Good(s, W \cup {p})
  PROVE  Good(Resume(s, p), W) /\ Resume(s, p).alive = s.alive
<1>1. CASE p = NULL
  <2>1. \A q \in Pid : q # NULL
    BY DEF Pid, NULL
  <2>2. QED
    BY <1>1, <2>1 DEF Resume, Good, Awake
<1>2. CASE p # NULL
  BY <1>2, ResumeGood DEF Resume
<1>3. QED
  BY <1>1, <1>2

\* The locals of scheduler_set_foreground are processes or NULL.
LEMMA PositionField ==
  ASSUME IInv, NEW p \in Pid
  PROVE  /\ pc[p] \in Position
         /\ pc[p].prev \in Pid \cup {NULL}
         /\ pc[p].next \in Pid \cup {NULL}
BY DEF IInv, Shape, Position

\* The first step of scheduler_set_foreground preserves the invariant.
LEMMA BeginInv ==
  ASSUME IInv, NEW p \in Pid, set_foreground_begin(p)
  PROVE  IInv'
<1>1. k.fg \in Pid \cup {NULL} /\ pc[p] \in Position
  BY PositionField DEF IInv, Good, KernelState
<1> DEFINE x == [pc[p] EXCEPT !.at = "switch", !.prev = k.fg]
<1>2. x \in Position
  BY <1>1 DEF Position
<1>3. pc' = [pc EXCEPT ![p] = User] \/ pc' = [pc EXCEPT ![p] = x]
  BY DEF set_foreground_begin, IInv, Shape
<1> HIDE DEF x
<1>4. Resumed \subseteq Resumed' /\ pc' \in [Pid -> Position]
  BY <1>2, <1>3, OwnStep, UserInPosition DEF set_foreground_begin
<1>5. Good(k', Resumed)
  BY RememberGood DEF set_foreground_begin, IInv
<1>6. Good(k, Resumed)'
  BY <1>4, <1>5 DEF Good, Awake
<1>7. Shape'
  BY <1>4 DEF set_foreground_begin, IInv, Shape, Occupied
<1>8. QED
  BY <1>6, <1>7 DEF IInv

\* The loser of the foreground has an event and is about to be resumed.
LEMMA LostInv ==
  ASSUME IInv, NEW p \in Pid, switch_foreground_lost(p)
  PROVE  IInv'
<1> DEFINE q == pc[p].prev
           n == IF IsAlive(k, q) THEN q ELSE NULL
           x == [pc[p] EXCEPT !.at = "resume_prev", !.prev = n]
           t == [k EXCEPT !.fg = pc[p].next]
<1>1. pc[p] \in Position /\ q \in Pid \cup {NULL} /\ pc[p].next \in Pid \cup {NULL}
  BY PositionField
<1>2. Good(t, Resumed) /\ t.alive = k.alive
  BY <1>1 DEF IInv, Good, Awake, KernelState
<1>3. x \in Position /\ x.at = "resume_prev" /\ x.prev = n
  BY <1>1 DEF Position
<1>4. pc' = [pc EXCEPT ![p] = x]
  BY DEF switch_foreground_lost, IInv, Shape
<1>5. k' = PushFocus(t, q)
  BY DEF switch_foreground_lost
<1> HIDE DEF x, t, q
<1>6. Resumed \subseteq Resumed' /\ pc' \in [Pid -> Position]
  BY <1>3, <1>4, OwnStep DEF switch_foreground_lost
<1>7. Good(k', Resumed')
  <2>1. CASE IsAlive(k, q)
    <3>1. q \in Pid
      BY <1>1, <2>1 DEF IsAlive
    <3>2. pc'[p] = x
      BY <1>4 DEF IInv, Shape
    <3>3. q \in Resumed'
      BY <2>1, <3>1, <3>2, <1>3 DEF Resumed, Resuming, ResumedBy
    <3>4. Good(k', Resumed \cup {q})
      BY <1>1, <1>2, <1>5, PushFocusGood
    <3>5. QED
      BY <1>6, <3>3, <3>4, GoodWeaken
  <2>2. CASE ~IsAlive(k, q)
    <3>1. ~IsAlive(t, q)
      BY <1>2, <2>2 DEF IsAlive
    <3>2. Good(k', Resumed)
      BY <1>1, <1>2, <1>5, <3>1, PushFocusGood
    <3>3. QED
      BY <1>6, <3>2, GoodWeaken
  <2>3. QED
    BY <2>1, <2>2
<1>8. Good(k, Resumed)'
  BY <1>7 DEF Good, Awake
<1>9. Shape'
  BY <1>6 DEF switch_foreground_lost, IInv, Shape, Occupied
<1>10. QED
  BY <1>8, <1>9 DEF IInv

\* The loser is resumed; the winner has an event and is about to be resumed.
LEMMA GainedInv ==
  ASSUME IInv, NEW p \in Pid, switch_foreground_gained(p)
  PROVE  IInv'
<1> DEFINE q == pc[p].next
           n == IF IsAlive(k, q) THEN q ELSE NULL
           x == [pc[p] EXCEPT !.at = "resume_next", !.next = n]
           t == Resume(k, pc[p].prev)
<1>1. pc[p] \in Position /\ q \in Pid \cup {NULL} /\ pc[p].prev \in Pid \cup {NULL}
  BY PositionField
<1>2. Resumed \subseteq Others(p) \cup {pc[p].prev}
  BY DEF switch_foreground_gained, Resumed, Resuming, ResumedBy, Others
<1>3. Good(k, Others(p) \cup {pc[p].prev})
  BY <1>2, GoodWeaken DEF IInv
<1>4. Good(t, Others(p)) /\ t.alive = k.alive
  BY <1>1, <1>3, ResumeOrNotGood
<1>5. x \in Position /\ x.at = "resume_next" /\ x.next = n
  BY <1>1 DEF Position
<1>6. pc' = [pc EXCEPT ![p] = x]
  BY DEF switch_foreground_gained, IInv, Shape
<1>7. k' = PushFocus(t, q)
  BY DEF switch_foreground_gained
<1> HIDE DEF x, t, q
<1>8. Others(p) \subseteq Resumed' /\ pc' \in [Pid -> Position]
  BY <1>5, <1>6, OthersStay DEF IInv, Shape
<1>9. Good(k', Resumed')
  <2>1. CASE IsAlive(k, q)
    <3>1. q \in Pid
      BY <1>1, <2>1 DEF IsAlive
    <3>2. pc'[p] = x
      BY <1>6 DEF IInv, Shape
    <3>3. q \in Resumed'
      BY <2>1, <3>1, <3>2, <1>5 DEF Resumed, Resuming, ResumedBy
    <3>4. Good(k', Others(p) \cup {q})
      BY <1>1, <1>4, <1>7, PushFocusGood
    <3>5. QED
      BY <1>8, <3>3, <3>4, GoodWeaken
  <2>2. CASE ~IsAlive(k, q)
    <3>1. ~IsAlive(t, q)
      BY <1>4, <2>2 DEF IsAlive
    <3>2. Good(k', Others(p))
      BY <1>1, <1>4, <1>7, <3>1, PushFocusGood
    <3>3. QED
      BY <1>8, <3>2, GoodWeaken
  <2>3. QED
    BY <2>1, <2>2
<1>10. Good(k, Resumed)'
  BY <1>9 DEF Good, Awake
<1>11. Shape'
  BY <1>8 DEF switch_foreground_gained, IInv, Shape, Occupied
<1>12. QED
  BY <1>10, <1>11 DEF IInv

\* The last step of scheduler_set_foreground resumes the winner.
LEMMA DoneInv ==
  ASSUME IInv, NEW p \in Pid, switch_foreground_done(p)
  PROVE  IInv'
<1>1. pc[p].next \in Pid \cup {NULL}
  BY PositionField
<1>2. Resumed \subseteq Others(p) \cup {pc[p].next}
  BY DEF switch_foreground_done, Resumed, Resuming, ResumedBy, Others
<1>3. Good(k, Others(p) \cup {pc[p].next})
  BY <1>2, GoodWeaken DEF IInv
<1>4. Good(k', Others(p))
  BY <1>1, <1>3, ResumeOrNotGood DEF switch_foreground_done
<1>5. pc' = [pc EXCEPT ![p] = User]
  BY DEF switch_foreground_done
<1>6. Others(p) \subseteq Resumed' /\ pc' \in [Pid -> Position]
  BY <1>5, OthersStay, UserInPosition DEF IInv, Shape
<1>7. Good(k', Resumed')
  BY <1>4, <1>6, GoodWeaken
<1>8. Good(k, Resumed)'
  BY <1>7 DEF Good, Awake
<1>9. Shape'
  BY <1>6 DEF switch_foreground_done, IInv, Shape, Occupied
<1>10. QED
  BY <1>8, <1>9 DEF IInv

-----------------------------------------------------------------------------
(* Interrupts preserve the invariant                                       *)

\* A tick only takes TIME hooks away.
LEMMA ElapsedHooks ==
  ASSUME NEW H \in SUBSET Hook
  PROVE  Elapsed(H) \in SUBSET Hook /\ (SIGNAL \in Elapsed(H) => SIGNAL \in H)
<1>1. \A m : m \notin 2 .. MAX_DELAY
  BY DEF MAX_DELAY
<1>2. Elapsed(H) \subseteq H
  BY <1>1 DEF Elapsed
<1>3. QED
  BY <1>2

\* The resumptions of timer_handler endanger nobody.
LEMMA TimerGood ==
  ASSUME NEW s, NEW W, Good(s, W), NEW t,
         t = [s EXCEPT !.hooks = [p \in Pid |-> Elapsed(s.hooks[p])]]
  PROVE  Good(t, W)
<1>1. \A p \in Pid : s.hooks[p] \in SUBSET Hook
  BY DEF Good, KernelState
<1>2. \A p \in Pid : Elapsed(s.hooks[p]) \in SUBSET Hook
                     /\ (SIGNAL \in Elapsed(s.hooks[p]) => SIGNAL \in s.hooks[p])
  BY <1>1, ElapsedHooks
<1> DEFINE h == [p \in Pid |-> Elapsed(s.hooks[p])]
<1>3. h \in [Pid -> SUBSET Hook]
  BY <1>2
<1>4. \A p \in Pid : SIGNAL \in h[p] => SIGNAL \in s.hooks[p]
  BY <1>2
<1> HIDE DEF h
<1>5. t \in KernelState /\ t.hooks = h /\ t.pending = s.pending /\ t.stack = s.stack
  BY <1>3 DEF Good, KernelState, h
<1>6. QED
  BY <1>4, <1>5 DEF Good, Awake

\* timer_handler preserves the invariant, with and without a switch.
LEMMA TimerInv ==
  ASSUME IInv, timer_handler
  PROVE  IInv'
<1> DEFINE s == [k EXCEPT !.hooks = [p \in Pid |-> Elapsed(k.hooks[p])]]
<1>1. /\ k' = s
      /\ \/ quantum_counter' = 0 /\ context_switch(s)
         \/ /\ quantum_counter + 1 < SCHEDULER_QUANTUM_TICKS
            /\ quantum_counter' = quantum_counter + 1
            /\ UNCHANGED <<current_process_idx, panicked>>
  BY DEF timer_handler
<1>2. Good(s, Resumed)
  BY TimerGood DEF IInv
<1> HIDE DEF s
<1>3. current_process_idx' \in Occupied /\ panicked' \in BOOLEAN
  BY <1>1, <1>2, ContextSwitchShape DEF IInv, Good, Shape
<1>4. quantum_counter' \in 0 .. (SCHEDULER_QUANTUM_TICKS - 1)
  BY <1>1, SchedulerAssumption DEF IInv, Shape
<1>5. \A d \in Pid : [pc[d] EXCEPT !.ticks = NextTick(@)] \in Position
  <2> SUFFICES ASSUME NEW d \in Pid
               PROVE  [pc[d] EXCEPT !.ticks = NextTick(@)] \in Position
    OBVIOUS
  <2>1. pc[d] \in Position
    BY DEF IInv, Shape
  <2>2. NextTick(pc[d].ticks) \in 0 .. MAX_DELAY
    BY <2>1 DEF Position, NextTick, MAX_DELAY
  <2>3. QED
    BY <2>1, <2>2 DEF Position
<1>6. pc' = [d \in Pid |-> [pc[d] EXCEPT !.ticks = NextTick(@)]]
  BY DEF timer_handler
<1>7. pc' \in [Pid -> Position]
  BY <1>5, <1>6
<1>8. \A d \in Pid : pc'[d].at = pc[d].at /\ pc'[d].prev = pc[d].prev /\ pc'[d].next = pc[d].next
  <2> SUFFICES ASSUME NEW d \in Pid
               PROVE  pc'[d].at = pc[d].at /\ pc'[d].prev = pc[d].prev /\ pc'[d].next = pc[d].next
    OBVIOUS
  <2>1. pc[d] \in Position
    BY DEF IInv, Shape
  <2>2. pc'[d] = [pc[d] EXCEPT !.ticks = NextTick(@)]
    BY <1>6
  <2>3. QED
    BY <2>1, <2>2 DEF Position
<1>9. Resumed \subseteq Resumed'
  BY <1>8, KeepResumed
<1>10. Good(k, Resumed)'
  BY <1>1, <1>2, <1>9 DEF Good, Awake
<1>11. Shape'
  BY <1>3, <1>4, <1>7 DEF timer_handler, IInv, Shape, Occupied
<1>12. QED
  BY <1>10, <1>11 DEF IInv

\* An interrupt that only touches the shared kernel state.
LEMMA InterruptInv ==
  ASSUME IInv, InterruptFrame, Good(k', Resumed)
  PROVE  IInv'
<1>1. Resumed' = Resumed
  BY SamePositions DEF InterruptFrame
<1>2. Good(k, Resumed)'
  BY <1>1 DEF Good, Awake
<1>3. Shape'
  BY DEF InterruptFrame, IInv, Shape, Occupied
<1>4. QED
  BY <1>2, <1>3 DEF IInv

\* The delivery of an input event preserves the invariant.
LEMMA InputInv ==
  ASSUME IInv, NEW s, Good(s, Resumed), InterruptFrame, k' = deliver(s, InputTarget(s))
  PROVE  IInv'
<1>1. InputTarget(s) \in Pid
  BY InputTargetIsPid DEF IInv, Good
<1>2. Good(k', Resumed)
  BY <1>1, DeliverGood
<1>3. QED
  BY <1>2, InterruptInv

\* A press on a window preserves the invariant.
LEMMA ClickInv ==
  ASSUME IInv, NEW p \in Pid, mouse_click(p)
  PROVE  IInv'
<1> DEFINE s == scheduler_set_foreground(k, p)
<1>1. InterruptFrame /\ k' = deliver(s, InputTarget(s))
  BY DEF mouse_click
<1>2. Good(s, Resumed)
  BY SetForegroundGood DEF IInv
<1> HIDE DEF s
<1>3. QED
  BY <1>1, <1>2, InputInv

\* A press on a close button preserves the invariant.
LEMMA CloseInv ==
  ASSUME IInv, NEW p \in Pid, mouse_close(p)
  PROVE  IInv'
<1> DEFINE t == scheduler_set_foreground(k, p)
           s == kill_process(t, p)
<1>1. InterruptFrame /\ k' = deliver(s, InputTarget(s))
  BY DEF mouse_close
<1>2. Good(t, Resumed)
  BY SetForegroundGood DEF IInv
<1> HIDE DEF t
<1>3. Good(s, Resumed)
  BY <1>2, KillGood
<1> HIDE DEF s
<1>4. QED
  BY <1>1, <1>3, InputInv

-----------------------------------------------------------------------------
(* Theorems                                                                *)

\* Every step preserves the invariant: one case per action.
LEMMA NextInv == IInv /\ [Next]_vars => IInv'
<1> SUFFICES ASSUME IInv, [Next]_vars PROVE IInv'
  OBVIOUS
<1>1. CASE UNCHANGED vars
  <2>1. Resumed' = Resumed
    BY <1>1, SamePositions DEF vars
  <2>2. Good(k, Resumed)'
    BY <1>1, <2>1 DEF vars, IInv, Good, Awake
  <2>3. Shape'
    BY <1>1 DEF vars, IInv, Shape, Occupied
  <2>4. QED
    BY <2>2, <2>3 DEF IInv
<1>2. ASSUME NEW p \in Pid, ProcessStep(p)
      PROVE  IInv'
  BY <1>2, YieldInv, GetTicksInv, YieldForEventInv, GetEventInv, WaitBlocksInv, HandleEventInv,
     ExitInv, ConsoleWriteInv, StartFailsInv, StartProcessInv, EditInv, EntryInv,
     BeginInv, LostInv, GainedInv, DoneInv DEF ProcessStep
<1>3. CASE timer_handler
  BY <1>3, TimerInv
<1>4. CASE input_event
  BY <1>4, InputInv DEF input_event, IInv
<1>5. ASSUME NEW p \in Pid, mouse_click(p) \/ mouse_close(p)
      PROVE  IInv'
  BY <1>5, ClickInv, CloseInv
<1>6. QED
  BY <1>1, <1>2, <1>3, <1>4, <1>5 DEF Next

\* The inductive invariant holds: TypeOK and NoLostWakeup together.
THEOREM InvariantHolds == Spec => []IInv
<1>1. Init => IInv
  BY InitInv
<1>2. IInv /\ [Next]_vars => IInv'
  BY NextInv
<1>3. QED
  BY <1>1, <1>2, PTL DEF Spec

\* The types of the scheduler's state hold, the foreground stack never outgrows
\* the process table and the CPU always belongs to a table entry.
THEOREM TypeCorrect == Spec => []TypeOK
<1>1. IInv => TypeOK
  BY IInvMeans
<1>2. QED
  BY <1>1, InvariantHolds, PTL

\* No interleaving of waits, polls, input interrupts and foreground changes
\* leaves a process asleep on its SIGNAL hook with an event in its queue and
\* nobody about to resume it (process_wait_for_io_event, push_io_event,
\* scheduler_resume_processes_for_event).
THEOREM WakeupsAreKept == Spec => []NoLostWakeup
<1>1. IInv => NoLostWakeup
  BY IInvMeans
<1>2. QED
  BY <1>1, InvariantHolds, PTL

\* context_switch hands the CPU only to a slot the lottery admits.
LEMMA LotteryRespectsHooks ==
  ASSUME context_switch(k'), UNCHANGED process_table, current_process_idx' # current_process_idx
  PROVE  k'.alive[Current'] /\ k'.hooks[Current'] = {}
BY DEF context_switch, RunnableSlots, LiveSlots, Occupied, Current

\* scheduler_exit_current_and_switch leaves a dead process for a live one.
LEMMA ExitRespectsLife ==
  ASSUME IInv, NEW p \in Pid, sys_exit(p), current_process_idx' # current_process_idx
  PROVE  k'.alive[Current'] /\ ~k'.alive[Current]
<1>1. k' = kill_process(k, p) /\ scheduler_exit_current_and_switch(k') /\ p = Current
  BY DEF sys_exit, InUser, OnCpu
<1>2. k'.alive[p] = FALSE
  BY <1>1, KillGood DEF IInv
<1>3. current_process_idx' \in LiveSlots(k')
  BY <1>1 DEF scheduler_exit_current_and_switch
<1>4. k'.alive[process_table[current_process_idx']]
  BY <1>3 DEF LiveSlots
<1>5. QED
  BY <1>1, <1>2, <1>4 DEF sys_exit, Current

\* Only five steps move the CPU: a yield, the two waits, the timer and exit.
LEMMA WhoSwitches ==
  ASSUME Next, current_process_idx' # current_process_idx
  PROVE  \/ context_switch(k') /\ UNCHANGED process_table
         \/ \E p \in Pid : sys_exit(p)
<1>1. ASSUME NEW p \in Pid, ProcessStep(p)
      PROVE  (context_switch(k') /\ UNCHANGED process_table) \/ sys_exit(p)
  <2>1. CASE sys_yield(p)
    <3>1. context_switch(k) /\ k' = k /\ UNCHANGED process_table
      BY <2>1 DEF sys_yield
    <3>2. QED
      BY <3>1
  <2>2. CASE sys_yield_for_event(p)
    BY <2>2 DEF sys_yield_for_event
  <2>3. CASE sys_wait_io_event_blocks(p)
    BY <2>3 DEF sys_wait_io_event_blocks
  <2>4. QED
    BY <1>1, <2>1, <2>2, <2>3 DEF ProcessStep, get_ticks, sys_get_io_event,
       sys_wait_io_event_ready, handle_event, sys_console_write, start_process_fails,
       sys_start_process, cmd_edit, shell_entry, editor_entry, set_foreground_begin,
       switch_foreground_lost, switch_foreground_gained, switch_foreground_done
<1>2. CASE timer_handler
  BY <1>2 DEF timer_handler
<1>3. CASE input_event \/ \E p \in Pid : mouse_click(p) \/ mouse_close(p)
  BY <1>3 DEF input_event, mouse_click, mouse_close, InterruptFrame
<1>4. QED
  BY <1>1, <1>2, <1>3 DEF Next

\* Whatever moves the CPU, a yield, a wait, the timer or an exit, moves it to a
\* live process, and to one that waits for nothing unless the process it
\* leaves is dead (scheduler_next_process, scheduler_exit_current_and_switch).
THEOREM SwitchesRespectHooks == Spec => SwitchRespectsHooks
<1>1. ASSUME IInv, [Next]_vars, current_process_idx' # current_process_idx
      PROVE  /\ k'.alive[Current']
             /\ k'.alive[Current] => k'.hooks[Current'] = {}
  <2>1. Next
    BY <1>1 DEF vars
  <2>2. QED
    BY <1>1, <2>1, WhoSwitches, LotteryRespectsHooks, ExitRespectsLife
<1>2. IInv /\ [Next]_vars =>
        [current_process_idx' # current_process_idx =>
          /\ k'.alive[Current']
          /\ k'.alive[Current] => k'.hooks[Current'] = {}]_vars
  BY <1>1
<1>3. QED
  BY <1>2, InvariantHolds, PTL DEF Spec, SwitchRespectsHooks
-----------------------------------------------------------------------------
(* The heir of the foreground                                              *)

\* t differs from s by deliveries only: nobody got a hook, died or came to the
\* foreground.
Quieter(t, s) ==
    /\ t \in KernelState
    /\ t.alive = s.alive /\ t.fg = s.fg
    /\ \A q \in Pid : t.hooks[q] \subseteq s.hooks[q]

\* Delivering an event takes hooks away and gives none.
LEMMA DeliverQuiet ==
  ASSUME NEW s \in KernelState, NEW p \in Pid
  PROVE  Quieter(deliver(s, p), s)
<1> DEFINE n == IF s.pending[p] = MAX_EVENT_QUEUE_SIZE THEN s.pending[p] ELSE s.pending[p] + 1
           t == push_io_event(s, p)
           r == scheduler_resume_processes_for_signal(t, p)
<1>1. n \in 0 .. MAX_EVENT_QUEUE_SIZE
  BY SchedulerAssumption DEF KernelState
<1>2. t = [s EXCEPT !.pending = [s.pending EXCEPT ![p] = n]]
  BY DEF push_io_event, KernelState
<1> HIDE DEF n, t
<1>3. t \in KernelState /\ t.alive = s.alive /\ t.fg = s.fg /\ t.hooks = s.hooks
  BY <1>1, <1>2 DEF KernelState
<1>4. r = [t EXCEPT !.hooks = [t.hooks EXCEPT ![p] = @ \ {SIGNAL}]]
  BY <1>3 DEF scheduler_resume_processes_for_signal, KernelState
<1> HIDE DEF r
<1>5. r \in KernelState /\ r.alive = t.alive /\ r.fg = t.fg
  BY <1>3, <1>4 DEF KernelState
<1>6. \A q \in Pid : r.hooks[q] \subseteq t.hooks[q]
  BY <1>3, <1>4 DEF KernelState
<1>7. deliver(s, p) = r
  BY DEF deliver, r, t
<1>8. QED
  BY <1>3, <1>5, <1>6, <1>7 DEF Quieter

\* So does a focus event, whoever it is for.
LEMMA FocusQuiet ==
  ASSUME NEW s \in KernelState, NEW p \in Pid \cup {NULL}
  PROVE  Quieter(dispatch_focus_event(s, p), s)
<1>1. Quieter(s, s)
  BY DEF Quieter
<1>2. QED
  BY <1>1, DeliverQuiet DEF dispatch_focus_event, IsAlive

\* The process that has the foreground in s waits for nothing, or is dead.
HeirReady(s, p) ==
    s.fg \notin {p, NULL} => s.hooks[s.fg] = {} \/ ~s.alive[s.fg]

\* A delivery does not put the heir to sleep again.
LEMMA QuietHeir ==
  ASSUME NEW s \in KernelState, NEW t, Quieter(t, s), NEW p \in Pid, HeirReady(s, p)
  PROVE  HeirReady(t, p)
BY DEF Quieter, HeirReady, KernelState

\* scheduler_restore_foreground clears the hooks of a live heir before it hands
\* the foreground over, and the focus events that follow add none.
LEMMA RestoreHeir ==
  ASSUME NEW s, NEW W, Good(s, W), NEW p \in Pid, s.fg = p
  PROVE  HeirReady(scheduler_restore_foreground(s, p), p)
<1> DEFINE target == IF s.stack = << >> THEN NULL ELSE s.stack[Len(s.stack)]
           popped == IF s.stack = << >> THEN s
                     ELSE [s EXCEPT !.stack = SubSeq(@, 1, Len(@) - 1)]
           awake  == IF IsAlive(s, target)
                     THEN [popped EXCEPT !.hooks[target] = {}] ELSE popped
           given  == [awake EXCEPT !.fg = target]
           told   == dispatch_focus_event(given, p)
<1>1. s \in KernelState /\ target \in Pid \cup {NULL}
  BY DEF Good, KernelState
<1>2. popped \in KernelState /\ popped.alive = s.alive /\ popped.fg = s.fg
  <2>1. CASE s.stack = << >>
    BY <1>1, <2>1
  <2>2. CASE s.stack # << >>
    <3>1. SubSeq(s.stack, 1, Len(s.stack) - 1) \in Seq(Pid)
      BY <1>1, <2>2 DEF KernelState
    <3>2. QED
      BY <1>1, <2>2, <3>1 DEF KernelState
  <2>3. QED
    BY <2>1, <2>2
<1>3. scheduler_restore_foreground(s, p) = scheduler_switch_foreground(awake, s.fg, target)
  BY DEF scheduler_restore_foreground
<1> HIDE DEF target, popped
<1>4. awake \in KernelState /\ awake.alive = s.alive /\ awake.fg = s.fg
  BY <1>1, <1>2 DEF KernelState, IsAlive
<1>5. target \in Pid /\ s.alive[target] => awake.hooks[target] = {}
  <2> SUFFICES ASSUME target \in Pid, s.alive[target] PROVE awake.hooks[target] = {}
    OBVIOUS
  <2>1. target # NULL
    BY SchedulerAssumption DEF Pid, NULL
  <2>2. awake = [popped EXCEPT !.hooks[target] = {}]
    BY <2>1 DEF IsAlive
  <2> HIDE DEF awake
  <2>3. QED
    BY <1>2, <2>2 DEF KernelState
<1> HIDE DEF awake
<1>6. CASE target = p
  BY <1>3, <1>4, <1>6 DEF scheduler_switch_foreground, HeirReady
<1>7. CASE target # p
  <2>1. given \in KernelState /\ given.alive = s.alive /\ given.fg = target
        /\ given.hooks = awake.hooks
    BY <1>1, <1>4 DEF KernelState
  <2>2. HeirReady(given, p)
    BY <1>1, <1>5, <2>1 DEF HeirReady
  <2>3. scheduler_restore_foreground(s, p) = dispatch_focus_event(told, target)
    BY <1>3, <1>7 DEF scheduler_switch_foreground
  <2> HIDE DEF given
  <2>4. Quieter(told, given)
    BY <2>1, FocusQuiet
  <2> HIDE DEF told
  <2>5. told \in KernelState /\ HeirReady(told, p)
    BY <2>1, <2>2, <2>4, QuietHeir DEF Quieter
  <2>6. Quieter(dispatch_focus_event(told, target), told)
    BY <1>1, <2>5, FocusQuiet
  <2>7. QED
    BY <2>3, <2>5, <2>6, QuietHeir
<1>8. QED
  BY <1>6, <1>7

\* kill_process ends p and nobody else; the heir of its foreground is ready.
LEMMA KillHeir ==
  ASSUME NEW s, NEW W, Good(s, W), NEW p \in Pid
  PROVE  /\ kill_process(s, p) \in KernelState
         /\ \A q \in Pid \ {p} : kill_process(s, p).alive[q] = s.alive[q]
         /\ s.fg = p => HeirReady(kill_process(s, p), p)
<1> DEFINE t == [s EXCEPT !.alive[p] = FALSE, !.windows = @ \ {p}]
<1>1. s \in KernelState
  BY DEF Good
<1>2. Good(t, W) /\ t.fg = s.fg /\ \A q \in Pid \ {p} : t.alive[q] = s.alive[q]
  BY <1>1 DEF Good, Awake, KernelState
<1>3. kill_process(s, p) = scheduler_restore_foreground(t, p)
  BY DEF kill_process
<1> HIDE DEF t
<1>4. Good(scheduler_restore_foreground(t, p), W)
      /\ scheduler_restore_foreground(t, p).alive = t.alive
  BY <1>2, RestoreForegroundGood
<1>5. t.fg = p => HeirReady(scheduler_restore_foreground(t, p), p)
  BY <1>2, RestoreHeir
<1>6. QED
  BY <1>2, <1>3, <1>4, <1>5 DEF Good

\* Only an exit and a close button end a process, and only their own.
LEMMA WhoDies ==
  ASSUME IInv, [Next]_vars, NEW p \in Pid, k.alive[p], ~k'.alive[p]
  PROVE  sys_exit(p) \/ mouse_close(p)
<1>1. k \in KernelState /\ Good(k, Resumed)
  BY DEF IInv, Good
<1>2. CASE UNCHANGED vars
  BY <1>2 DEF vars
<1>3. ASSUME NEW q \in Pid, ProcessStep(q)
      PROVE  sys_exit(p)
  <2>1. CASE sys_exit(q)
    <3>1. k' = kill_process(k, q)
      BY <2>1 DEF sys_exit
    <3>2. q = p
      BY <1>1, <3>1, KillHeir
    <3>3. QED
      BY <2>1, <3>2
  <2>2. CASE k' = k
    BY <2>2
  <2>3. CASE sys_yield_for_event(q) \/ sys_wait_io_event_blocks(q)
    <3>1. k'.alive = k.alive
      BY <1>1, <2>3 DEF sys_yield_for_event, sys_wait_io_event_blocks, process_yield_for_event,
         KernelState
    <3>2. QED
      BY <3>1
  <2>4. CASE PopEvent(q) \/ sys_console_write(q)
    <3>1. k'.alive = k.alive
      BY <1>1, <2>4 DEF PopEvent, sys_console_write, KernelState
    <3>2. QED
      BY <3>1
  <2>5. CASE CreateProcess
    <3>1. next_pid \in Pid /\ k' = [k EXCEPT !.alive[next_pid] = TRUE]
      BY <2>5 DEF CreateProcess
    <3>2. k'.alive[p] = k.alive[p] \/ k'.alive[p] = TRUE
      BY <1>1, <3>1 DEF KernelState
    <3>3. QED
      BY <3>2
  <2>6. CASE set_foreground_begin(q)
    <3>1. k' = k \/ k' = RememberForeground(k)
      BY <2>6 DEF set_foreground_begin
    <3>2. QED
      BY <1>1, <3>1, RememberGood
  <2>7. CASE switch_foreground_lost(q) \/ switch_foreground_gained(q) \/ switch_foreground_done(q)
    <3>1. k'.alive = k.alive
      BY <1>1, <2>7 DEF switch_foreground_lost, switch_foreground_gained, switch_foreground_done,
         PushFocus, Resume, push_io_event, scheduler_resume_processes_for_signal, KernelState
    <3>2. QED
      BY <3>1
  <2>8. QED
    BY <1>3, <2>1, <2>2, <2>3, <2>4, <2>5, <2>6, <2>7 DEF ProcessStep, sys_yield, get_ticks,
       sys_get_io_event, sys_wait_io_event_ready, handle_event, start_process_fails,
       sys_start_process, cmd_edit, shell_entry, editor_entry
<1>4. CASE timer_handler
  <2>1. k'.alive = k.alive
    BY <1>1, <1>4 DEF timer_handler, KernelState
  <2>2. QED
    BY <2>1
<1>5. CASE input_event
  <2>1. InputTarget(k) \in Pid
    BY <1>1, InputTargetIsPid DEF IInv
  <2>2. Quieter(k', k)
    BY <1>1, <1>5, <2>1, DeliverQuiet DEF input_event
  <2>3. QED
    BY <2>2 DEF Quieter
<1>6. ASSUME NEW q \in Pid, mouse_click(q)
      PROVE  FALSE
  <2> DEFINE s == scheduler_set_foreground(k, q)
  <2>1. Good(s, Resumed) /\ s.alive = k.alive
    BY <1>1, SetForegroundGood
  <2>2. k' = deliver(s, InputTarget(s))
    BY <1>6 DEF mouse_click
  <2> HIDE DEF s
  <2>3. InputTarget(s) \in Pid
    BY <2>1, InputTargetIsPid DEF IInv, Good
  <2>4. Quieter(k', s)
    BY <2>1, <2>2, <2>3, DeliverQuiet DEF Good
  <2>5. QED
    BY <2>1, <2>4 DEF Quieter
<1>7. ASSUME NEW q \in Pid, mouse_close(q)
      PROVE  q = p
  <2> DEFINE t == scheduler_set_foreground(k, q)
             s == kill_process(t, q)
  <2>1. Good(t, Resumed) /\ t.alive = k.alive
    BY <1>1, SetForegroundGood
  <2>2. k' = deliver(s, InputTarget(s))
    BY <1>7 DEF mouse_close
  <2> HIDE DEF t
  <2>3. Good(s, Resumed) /\ \A r \in Pid \ {q} : s.alive[r] = t.alive[r]
    BY <2>1, KillGood, KillHeir
  <2> HIDE DEF s
  <2>4. InputTarget(s) \in Pid
    BY <2>3, InputTargetIsPid DEF IInv, Good
  <2>5. Quieter(k', s)
    BY <2>2, <2>3, <2>4, DeliverQuiet DEF Good
  <2>6. QED
    BY <2>1, <2>3, <2>5 DEF Quieter
<1>8. QED
  BY <1>2, <1>3, <1>4, <1>5, <1>6, <1>7 DEF Next

\* Whoever dies while it owns the foreground, by its exit or by its close button,
\* and whatever was on the stack of earlier owners: the heir, if it lives, waits
\* for nothing (scheduler_restore_foreground).
THEOREM HeirsAreAwake == Spec => HeirIsAwake
<1>1. ASSUME IInv, [Next]_vars, NEW p \in Pid, k.fg = p, k.alive[p], ~k'.alive[p]
      PROVE  HeirReady(k', p)
  <2>1. Good(k, Resumed)
    BY <1>1 DEF IInv
  <2>2. CASE sys_exit(p)
    <3>1. k' = kill_process(k, p)
      BY <2>2 DEF sys_exit
    <3>2. QED
      BY <1>1, <2>1, <3>1, KillHeir
  <2>3. CASE mouse_close(p)
    <3> DEFINE s == kill_process(k, p)
    <3>1. scheduler_set_foreground(k, p) = k
      BY <1>1 DEF scheduler_set_foreground
    <3>2. k' = deliver(s, InputTarget(s))
      BY <2>3, <3>1 DEF mouse_close
    <3>3. s \in KernelState /\ HeirReady(s, p)
      BY <1>1, <2>1, KillHeir
    <3> HIDE DEF s
    <3>4. InputTarget(s) \in Pid
      BY <1>1, <3>3, InputTargetIsPid DEF IInv
    <3>5. QED
      BY <3>2, <3>3, <3>4, DeliverQuiet, QuietHeir
  <2>4. QED
    BY <1>1, <2>2, <2>3, WhoDies
<1>2. IInv /\ [Next]_vars =>
        [\A p \in Pid :
          k.fg = p /\ k.alive[p] /\ ~k'.alive[p] /\ k'.fg \notin {p, NULL}
              => k'.hooks[k'.fg] = {} \/ ~k'.alive[k'.fg]]_vars
  BY <1>1 DEF HeirReady
<1>3. QED
  BY <1>2, InvariantHolds, PTL DEF Spec, HeirIsAwake
=============================================================================
