---------------------------- MODULE Scheduler ----------------------------
(***************************************************************************)
(* The process table and the scheduler of the kernel                       *)
(* (Kernel/c/process/process.c, Kernel/c/scheduler/scheduler.c) and the    *)
(* interrupt handlers that drive them (Kernel/asm/interrupts.asm).         *)
(*                                                                         *)
(* Every handler runs with interrupts disabled (interrupt gates), so one   *)
(* action is one whole handler: the C function it calls, and the context   *)
(* switch that _irq128Handler and _irq01Handler make on the way out when   *)
(* force_switch was set.  The C functions are operators from a kernel      *)
(* state k to a kernel state, with the names they have in the source.      *)
(*                                                                         *)
(* Semaphores and pipes appear by what they do to scheduling: a process    *)
(* that waits in one of their queues is in wait_queues, and is taken out   *)
(* of it and unblocked by another process's operation or death.            *)
(***************************************************************************)
EXTENDS Integers, Sequences, FiniteSets, FiniteSetsExt

CONSTANTS
  MaxProcesses,     \* slots of process_table
  MinPriority, MaxPriority, DefaultPriority,
  AgingInterval,    \* waiting ticks for one point of aging bonus
  MaxAgingBonus,
  MaxPid,           \* bound: pids handed out in a behaviour
  UserPids,         \* the pids processes name in kill, nice, block, waitpid
  NicePriorities,   \* the priorities processes ask for in nice
  Meddle            \* may a process block/unblock one that waits in the kernel?

ASSUME SchedulerAssumption ==
  /\ MaxProcesses \in Nat /\ MaxProcesses >= 2
  /\ MinPriority \in Nat /\ DefaultPriority \in Nat /\ MaxPriority \in Nat
  /\ 1 <= MinPriority
  /\ MinPriority <= DefaultPriority
  /\ DefaultPriority <= MaxPriority
  /\ AgingInterval \in Nat \ {0}
  /\ MaxAgingBonus \in Nat
  /\ MaxPid \in Nat /\ MaxPid >= 2
  /\ UserPids \subseteq Nat
  /\ NicePriorities \subseteq Nat
  /\ Meddle \in BOOLEAN

VARIABLES
  process_table,        \* slot -> PCB
  run_queue,            \* sequence of slots, highest priority first
  queue_idx,            \* 0-based round-robin position in run_queue
  current_process,      \* slot of the process that has the CPU
  idle_pcb,             \* slot of the idle process, outside run_queue
  kbd_waiting_process,  \* slot of the process blocked on the keyboard
  next_pid,             \* the last pid handed out
  wait_queues           \* pids in the wait queue of a semaphore or a pipe

vars == <<process_table, run_queue, queue_idx, current_process, idle_pcb,
          kbd_waiting_process, next_pid, wait_queues>>

NULL == -1
Slots == 0 .. MaxProcesses - 1
States == {"FREE", "READY", "RUNNING", "BLOCKED", "ZOMBIE"}
IdlePid == 1     \* initializeKernelBinary creates idle first ...
ShellPid == 2    \* ... and the shell second
TicksCap == AgingInterval * MaxAgingBonus

PCB == [pid : Nat, state : States, priority : MinPriority .. MaxPriority,
        remaining_quanta : 0 .. MaxPriority, wait_ticks : 0 .. TicksCap,
        foreground : BOOLEAN, parent_pid : Nat, waiting_for : Nat]

\* A slot nobody uses.  The fields the code leaves in it are overwritten by
\* process_create before anything reads them.
FreePCB == [pid |-> 0, state |-> "FREE", priority |-> MinPriority,
            remaining_quanta |-> 0, wait_ticks |-> 0, foreground |-> FALSE,
            parent_pid |-> 0, waiting_for |-> 0]

(***************************************************************************)
(* Kernel states                                                           *)
(***************************************************************************)
\* The state a handler starts from; force is the global force_switch.
Kernel == [tab |-> process_table, rq |-> run_queue, idx |-> queue_idx,
           cur |-> current_process, idle |-> idle_pcb,
           kbd |-> kbd_waiting_process, npid |-> next_pid,
           waitq |-> wait_queues, force |-> FALSE]

\* The handler leaves the kernel in state k.
Install(k) == /\ process_table' = k.tab
              /\ run_queue' = k.rq
              /\ queue_idx' = k.idx
              /\ current_process' = k.cur
              /\ idle_pcb' = k.idle
              /\ kbd_waiting_process' = k.kbd
              /\ next_pid' = k.npid
              /\ wait_queues' = k.waitq

Live(k, s) == k.tab[s].state # "FREE"
Pid(k, s) == k.tab[s].pid

\* The slot of a live process with this pid, or NULL.
process_get(k, pid) ==
  LET found == {s \in Slots : Pid(k, s) = pid /\ Live(k, s)}
  IN  IF pid = 0 \/ found = {} THEN NULL ELSE CHOOSE s \in found : TRUE

(***************************************************************************)
(* The run queue                                                           *)
(***************************************************************************)
\* Where scheduler_add inserts s: before the first process of lower priority.
insert_pos(k, s) ==
  Min({i \in 1 .. Len(k.rq) : k.tab[k.rq[i]].priority < k.tab[s].priority}
      \cup {Len(k.rq) + 1})

\* run_queue with s at position pos and the rest shifted right.
shift_right(q, pos, s) ==
  [j \in 1 .. Len(q) + 1 |->
     IF j < pos THEN q[j] ELSE IF j = pos THEN s ELSE q[j - 1]]

\* run_queue without position pos and the rest shifted left.
shift_left(q, pos) ==
  [j \in 1 .. Len(q) - 1 |-> IF j < pos THEN q[j] ELSE q[j + 1]]

\* queue_idx after an insertion at position pos of a queue of n processes.
idx_after_add(idx, pos, n) == IF pos - 1 <= idx /\ n > 0 THEN idx + 1 ELSE idx

\* queue_idx after the removal of position pos, which leaves n processes.
idx_after_remove(idx, pos, n) ==
  IF idx >= n /\ n > 0 THEN n - 1
  ELSE IF pos - 1 < idx THEN idx - 1 ELSE idx

scheduler_add(k, s) ==
  IF Len(k.rq) >= MaxProcesses \/ s = k.idle THEN k
  ELSE LET pos == insert_pos(k, s)
       IN  [k EXCEPT !.rq = shift_right(k.rq, pos, s),
                     !.idx = idx_after_add(k.idx, pos, Len(k.rq))]

scheduler_remove(k, s) ==
  LET at == {i \in 1 .. Len(k.rq) : k.rq[i] = s}
  IN  IF at = {} THEN k
      ELSE LET pos == Min(at)
           IN  [k EXCEPT !.rq = shift_left(k.rq, pos),
                         !.idx = idx_after_remove(k.idx, pos, Len(k.rq) - 1)]

(***************************************************************************)
(* Choosing the next process                                               *)
(***************************************************************************)
aging_bonus(p) == LET b == p.wait_ticks \div AgingInterval
                  IN  IF b > MaxAgingBonus THEN MaxAgingBonus ELSE b

eff(p) == p.priority + (IF p.foreground THEN 1 ELSE 0) + aging_bonus(p)

\* Positions of run_queue: the READY ones, those of highest effective
\* priority, and the foreground ones of these if there is one.
ReadyPositions(k) ==
  {i \in 1 .. Len(k.rq) : k.tab[k.rq[i]].state = "READY"}

HighestPositions(k) ==
  {i \in ReadyPositions(k) :
     \A j \in ReadyPositions(k) : eff(k.tab[k.rq[j]]) <= eff(k.tab[k.rq[i]])}

\* Mutant of Candidates: the second pass over background processes is missing.
only_foreground(k) ==
  {i \in HighestPositions(k) : k.tab[k.rq[i]].foreground}

Candidates(k) ==
  LET fg == {i \in HighestPositions(k) : k.tab[k.rq[i]].foreground}
  IN  IF fg # {} THEN fg ELSE HighestPositions(k)

\* Steps of the scan that starts after queue_idx until it meets position i.
ScanDistance(k, i) == (i - 1 - (k.idx + 1)) % Len(k.rq)

\* The choice and the new queue_idx; idle if nobody is READY (NULL if the
\* kernel has not registered it yet).
scheduler_next_ready(k) ==
  IF Candidates(k) = {} THEN [slot |-> k.idle, idx |-> k.idx]
  ELSE LET i == CHOOSE i \in Candidates(k) : \A j \in Candidates(k) :
                  ScanDistance(k, i) <= ScanDistance(k, j)
       IN  [slot |-> k.rq[i], idx |-> i - 1]

(***************************************************************************)
(* Context switches                                                        *)
(***************************************************************************)
\* Free the slot (and the stack and argv) of a process that left the CPU.
free_slot(k, s) == [k EXCEPT !.tab[s] = FreePCB]

\* Mutant of reap: the freed slot stays in run_queue.
reap_keeps_queued(k) ==
  IF k.cur # NULL /\ k.tab[k.cur].state = "ZOMBIE"
  THEN free_slot(k, k.cur) ELSE k

reap(k) ==
  IF k.cur # NULL /\ k.tab[k.cur].state = "ZOMBIE"
  THEN free_slot(scheduler_remove(k, k.cur), k.cur) ELSE k

dispatch(k, s) ==
  [k EXCEPT !.tab[s] = [@ EXCEPT !.wait_ticks = 0, !.state = "RUNNING"],
            !.cur = s]

\* The common end of scheduler_tick and scheduler_yield_impl.
switch_to_next(k) ==
  LET next == scheduler_next_ready(k)
  IN  IF next.slot # NULL
      THEN dispatch(reap([k EXCEPT !.idx = next.idx]), next.slot)
      ELSE IF k.cur # NULL /\ k.tab[k.cur].state = "READY"
           THEN [k EXCEPT !.tab[k.cur].state = "RUNNING"]
           ELSE k

\* One more tick for every READY process of the queue but the running one.
\* The count stops at TicksCap, where aging_bonus has reached its maximum.
age(k) ==
  LET waits(s) == /\ s # k.cur
                  /\ k.tab[s].state = "READY"
                  /\ \E i \in 1 .. Len(k.rq) : k.rq[i] = s
  IN  [k EXCEPT !.tab = [s \in Slots |->
         IF waits(s) /\ k.tab[s].wait_ticks < TicksCap
         THEN [k.tab[s] EXCEPT !.wait_ticks = @ + 1] ELSE k.tab[s]]]

scheduler_tick(k) ==
  LET a == age(k)
      q == a.tab[a.cur].remaining_quanta
  IN  IF a.cur # NULL /\ a.tab[a.cur].state = "RUNNING"
      THEN IF q > 1
           THEN [a EXCEPT !.tab[a.cur].remaining_quanta = q - 1]
           ELSE switch_to_next(
                  [a EXCEPT !.tab[a.cur] =
                     [@ EXCEPT !.state = "READY",
                               !.remaining_quanta = a.tab[a.cur].priority]])
      ELSE switch_to_next(a)

scheduler_yield_impl(k) ==
  LET p == k.tab[k.cur]
      st == IF p.state = "RUNNING" THEN "READY" ELSE p.state
  IN  IF k.cur = NULL THEN switch_to_next(k)
      ELSE switch_to_next(
             [k EXCEPT !.tab[k.cur] =
                [p EXCEPT !.state = st, !.remaining_quanta = p.priority]])

\* The way out of _irq128Handler and _irq01Handler.
irq_return(k) ==
  IF k.force THEN scheduler_yield_impl([k EXCEPT !.force = FALSE]) ELSE k

(***************************************************************************)
(* Processes                                                               *)
(***************************************************************************)
\* fg: bit 0 foreground, bit 1 born BLOCKED (the shell's pipelines use 3).
NewPCB(k, fg) ==
  [pid |-> k.npid + 1,
   state |-> IF fg \in {2, 3} THEN "BLOCKED" ELSE "READY",
   priority |-> DefaultPriority, remaining_quanta |-> DefaultPriority,
   wait_ticks |-> 0, foreground |-> fg # 0,
   parent_pid |-> IF k.cur # NULL THEN Pid(k, k.cur) ELSE 0,
   waiting_for |-> 0]

\* Mutant of process_create: next_pid is not advanced.
create_reuses_pid(k, fg) ==
  LET free == {s \in Slots : ~Live(k, s)}
  IN  IF free = {} THEN k
      ELSE scheduler_add([k EXCEPT !.tab[Min(free)] = NewPCB(k, fg)], Min(free))

\* Returns without effect when no slot (or no memory) is left.
process_create(k, fg) ==
  LET free == {s \in Slots : ~Live(k, s)}
  IN  IF free = {} THEN k
      ELSE LET s == Min(free)
           IN  scheduler_add([k EXCEPT !.tab[s] = NewPCB(k, fg),
                                       !.npid = @ + 1], s)

\* process_unblock of each pid of W, with the soft boost.
unblock_all(k, W) ==
  LET woken == {s \in Slots : Pid(k, s) \in W /\ k.tab[s].state = "BLOCKED"}
  IN  [k EXCEPT
         !.tab = [s \in Slots |->
           IF s \in woken
           THEN [k.tab[s] EXCEPT !.state = "READY", !.wait_ticks = 0]
           ELSE k.tab[s]],
         !.force = \/ @
                   \/ /\ k.cur # NULL
                      /\ \E s \in woken :
                           k.tab[s].priority > k.tab[k.cur].priority]

process_unblock(k, pid) == IF pid = 0 THEN k ELSE unblock_all(k, {pid})

process_block(k, pid) ==
  LET s == process_get(k, pid)
  IN  IF s = NULL \/ k.tab[s].state \in {"ZOMBIE", "BLOCKED"} THEN k
      ELSE [k EXCEPT !.tab[s].state = "BLOCKED",
                     !.force = @ \/ s = k.cur]

\* Mutant of release_resources: kbd_clear_waiting is not called.
release_keeps_keyboard(k, s, W) ==
  unblock_all([k EXCEPT !.waitq = (@ \ {Pid(k, s)}) \ W], W)

\* Slot s is dying: sem_cleanup_for_process, pipe_cleanup_for_process and
\* kbd_clear_waiting take it out of every queue and wake the processes W that
\* waited for what it held.
release_resources(k, s, W) ==
  unblock_all([k EXCEPT !.waitq = (@ \ {Pid(k, s)}) \ W,
                        !.kbd = IF @ = s THEN NULL ELSE @], W)

\* Mutant of wake_parent: waiting_for is not cleared.
wake_keeps_waiting_for(k, s) ==
  LET parent == process_get(k, k.tab[s].parent_pid)
  IN  IF /\ parent # NULL
         /\ k.tab[parent].state = "BLOCKED"
         /\ k.tab[parent].waiting_for = Pid(k, s)
      THEN [k EXCEPT !.tab[parent].state = "READY"] ELSE k

\* The parent of s, if it is blocked in waitpid for s, becomes READY.
wake_parent(k, s) ==
  LET parent == process_get(k, k.tab[s].parent_pid)
  IN  IF /\ parent # NULL
         /\ k.tab[parent].state = "BLOCKED"
         /\ k.tab[parent].waiting_for = Pid(k, s)
      THEN [k EXCEPT !.tab[parent] =
              [@ EXCEPT !.waiting_for = 0, !.state = "READY",
                        !.wait_ticks = 0]]
      ELSE k

\* Its descriptors go: the processes V that slept on a pipe of which it was
\* the last reader or writer are woken.
process_release_fds(k, V) ==
  unblock_all([k EXCEPT !.waitq = @ \ V], V \cap k.waitq)

\* The descriptors go before the parent is woken, right after the rest, so
\* that W stands for those woken by either.
process_exit(k, W) ==
  LET w == wake_parent(release_resources(k, k.cur, W), k.cur)
  IN  [w EXCEPT !.tab[k.cur].state = "ZOMBIE", !.force = TRUE]

\* Mutant of process_kill: only process_exit wakes the parent.
kill_forgets_parent(k, pid, W, V) ==
  LET s == process_get(k, pid)
      w == process_release_fds(release_resources(k, s, W), V)
  IN  IF s = NULL \/ k.tab[s].state = "ZOMBIE" THEN k
      ELSE IF s = k.cur
           THEN [w EXCEPT !.tab[s].state = "ZOMBIE", !.force = TRUE]
           ELSE free_slot(scheduler_remove(w, s), s)

\* The descriptors go after the parent was woken.  (The code marks the ZOMBIE
\* or calls scheduler_remove in between: neither looks at anyone woken here.)
process_kill(k, pid, W, V) ==
  LET s == process_get(k, pid)
      w == process_release_fds(wake_parent(release_resources(k, s, W), s), V)
  IN  IF s = NULL \/ k.tab[s].state = "ZOMBIE" THEN k
      ELSE IF s = k.cur
           THEN [w EXCEPT !.tab[s].state = "ZOMBIE", !.force = TRUE]
           ELSE free_slot(scheduler_remove(w, s), s)

\* Ctrl+C: the youngest foreground process, if it is not the only one.
process_kill_foreground(k, W, V) ==
  LET fg == {Pid(k, s) : s \in {t \in Slots : Live(k, t)
                                              /\ k.tab[t].foreground}}
  IN  IF Cardinality(fg) > 1 THEN process_kill(k, Max(fg), W, V) ELSE k

\* Mutant of clamp: the priority is not checked.
unclamped(prio) == prio

clamp(prio) == IF prio < MinPriority THEN MinPriority
               ELSE IF prio > MaxPriority THEN MaxPriority ELSE prio

\* Mutant of process_nice: the process keeps its place in run_queue.
nice_in_place(k, pid, prio) ==
  LET s == process_get(k, pid)
  IN  IF s = NULL THEN k ELSE [k EXCEPT !.tab[s].priority = clamp(prio)]

process_nice(k, pid, prio) ==
  LET s == process_get(k, pid)
      set == [k EXCEPT !.tab[s] =
                [@ EXCEPT !.priority = clamp(prio), !.wait_ticks = 0,
                          !.remaining_quanta = clamp(prio)]]
  IN  IF s = NULL THEN k
      ELSE IF k.tab[s].state = "ZOMBIE" THEN set
      ELSE scheduler_add(scheduler_remove(set, s), s)

\* Mutant of process_waitpid: force_switch is not set.
waitpid_without_switch(k, pid) ==
  IF process_get(k, pid) = NULL THEN k
  ELSE [k EXCEPT !.tab[k.cur].state = "BLOCKED",
                 !.tab[k.cur].waiting_for = pid]

process_waitpid(k, pid) ==
  LET child == process_get(k, pid)
  IN  IF child = NULL THEN k
      ELSE IF k.tab[child].state = "ZOMBIE" THEN free_slot(k, child)
      ELSE IF k.cur = NULL THEN [k EXCEPT !.force = TRUE]
      ELSE [k EXCEPT !.tab[k.cur] =
              [@ EXCEPT !.state = "BLOCKED", !.waiting_for = pid],
                     !.force = TRUE]

(***************************************************************************)
(* System calls and interrupts                                             *)
(***************************************************************************)
\* A user process has the CPU (idle only halts) and makes a system call.
UserRunning == /\ current_process # NULL
               /\ Pid(Kernel, current_process) \notin {0, IdlePid}

Syscall(k) == UserRunning /\ Install(irq_return(k))

CurrentPid == Pid(Kernel, current_process)

\* The processes a death may wake: any of those waiting in a queue.
Woken == SUBSET wait_queues

\* pid waits inside the kernel for a semaphore, a pipe or the keyboard.
InKernelWait(pid) ==
  \/ pid \in wait_queues
  \/ /\ kbd_waiting_process # NULL
     /\ Pid(Kernel, kbd_waiting_process) = pid

InWaitpid(pid) == \E s \in Slots : /\ Live(Kernel, s)
                                   /\ Pid(Kernel, s) = pid
                                   /\ process_table[s].waiting_for # 0

sys_create_process(fg) == /\ next_pid < MaxPid
                          /\ Syscall(process_create(Kernel, fg))

sys_exit == \E W \in Woken : Syscall(process_exit(Kernel, W))

sys_kill(pid) == \E W, V \in Woken : Syscall(process_kill(Kernel, pid, W, V))

\* The priority is a register of 64 bits, of which process_nice gets 8.
sys_nice(pid, prio) == Syscall(process_nice(Kernel, pid, prio % 256))

\* The block command: it toggles, and refuses a process in waitpid.
sys_block(pid) ==
  LET s == process_get(Kernel, pid)
  IN  /\ s # NULL
      /\ Meddle \/ ~InKernelWait(pid)
      /\ ~(process_table[s].state = "BLOCKED"
             /\ process_table[s].waiting_for # 0)
      /\ Syscall(IF process_table[s].state = "BLOCKED"
                 THEN process_unblock(Kernel, pid)
                 ELSE process_block(Kernel, pid))

sys_unblock(pid) == /\ Meddle \/ ~(InKernelWait(pid) \/ InWaitpid(pid))
                    /\ Syscall(process_unblock(Kernel, pid))

sys_yield ==
  Syscall([Kernel EXCEPT !.tab[current_process].state = "READY",
                         !.force = TRUE])

sys_waitpid(pid) == Syscall(process_waitpid(Kernel, pid))

\* sem_wait, pipe_read or pipe_write of the current process finds nothing.
KernelWait == Syscall(process_block([Kernel EXCEPT !.waitq = @ \cup {CurrentPid}],
                                    CurrentPid))

\* sem_post, pipe_read, pipe_write or a close of the current process takes
\* pid out of a queue and unblocks it.
KernelWake(pid) == Syscall(process_unblock([Kernel EXCEPT !.waitq = @ \ {pid}],
                                           pid))

\* fd_read of a foreground process on the terminal with no input.
KbdWait ==
  /\ current_process # NULL
  /\ process_table[current_process].foreground
  /\ Syscall([Kernel EXCEPT !.tab[current_process].state = "BLOCKED",
                            !.kbd = current_process, !.force = TRUE])

\* handlePressedKey completes what kbd_waiting_process waits for.
KeyWake ==
  /\ kbd_waiting_process # NULL
  /\ Install(irq_return(
       [Kernel EXCEPT !.tab[kbd_waiting_process].state = "READY",
                      !.kbd = NULL]))

\* handlePressedKey on Ctrl+C.
CtrlC ==
  \E W, V \in Woken : Install(irq_return(process_kill_foreground(Kernel, W, V)))

\* _irq00Handler, at any moment.
Tick == Install(scheduler_tick(Kernel))

Init ==
  /\ process_table = [s \in Slots |->
       IF s = 0 THEN [FreePCB EXCEPT !.pid = IdlePid, !.state = "READY",
                                     !.remaining_quanta = 1]
       ELSE IF s = 1
       THEN [FreePCB EXCEPT !.pid = ShellPid, !.state = "RUNNING",
                            !.priority = DefaultPriority,
                            !.remaining_quanta = DefaultPriority,
                            !.foreground = TRUE]
       ELSE FreePCB]
  /\ run_queue = <<1>>
  /\ queue_idx = 0
  /\ current_process = 1
  /\ idle_pcb = 0
  /\ kbd_waiting_process = NULL
  /\ next_pid = ShellPid
  /\ wait_queues = {}

\* Everything but the timer.
Handlers ==
  \/ \E fg \in {0, 1, 3} : sys_create_process(fg)
  \/ sys_exit
  \/ \E pid \in UserPids : sys_kill(pid)
  \/ \E pid \in UserPids, prio \in NicePriorities : sys_nice(pid, prio)
  \/ \E pid \in UserPids : sys_block(pid)
  \/ \E pid \in UserPids : sys_unblock(pid)
  \/ sys_yield
  \/ \E pid \in UserPids : sys_waitpid(pid)
  \/ KernelWait
  \/ \E pid \in wait_queues : KernelWake(pid)
  \/ KbdWait
  \/ KeyWake
  \/ CtrlC

Next == Handlers \/ Tick

\* The timer interrupt keeps coming; nothing else is owed by anyone.
Spec == Init /\ [][Next]_vars /\ WF_vars(Tick)

(***************************************************************************)
(* Properties                                                              *)
(***************************************************************************)
\* The types of the kernel's variables: a priority stays in its range, a quantum
\* never exceeds the highest priority, and there is always a current process.
TypeOK ==
  /\ process_table \in [Slots -> PCB]
  /\ run_queue \in Seq(Slots)
  /\ queue_idx \in Nat
  /\ current_process \in Slots
  /\ idle_pcb \in Slots
  /\ kbd_waiting_process \in Slots \cup {NULL}
  /\ next_pid \in Nat
  /\ wait_queues \in SUBSET Nat

\* run_queue holds every live process but idle exactly once, and queue_idx is
\* one of its positions: scheduler_add/remove, the reaper and process_kill
\* agree on who is schedulable and never leave the scan out of bounds.
RunQueueExact ==
  /\ \A i, j \in 1 .. Len(run_queue) : run_queue[i] = run_queue[j] => i = j
  /\ \A s \in Slots : (s # idle_pcb /\ process_table[s].state # "FREE")
                      <=> \E i \in 1 .. Len(run_queue) : run_queue[i] = s
  /\ queue_idx < Len(run_queue) \/ (queue_idx = 0 /\ Len(run_queue) = 0)

\* run_queue is ordered by descending priority after every create, nice, kill
\* and reap (scheduler.c: "ordenada por prioridad descendente").
RunQueueSorted ==
  \A i, j \in 1 .. Len(run_queue) :
    i < j => process_table[run_queue[i]].priority
               >= process_table[run_queue[j]].priority

\* Between two handlers the CPU runs on the stack of a live process that may
\* run, nobody else is marked RUNNING, and every ZOMBIE has been reaped by the
\* handler that made it one.
CpuOwned ==
  /\ process_table[current_process].state \in {"RUNNING", "READY"}
  /\ \A s \in Slots : process_table[s].state = "RUNNING" => s = current_process
  /\ \A s \in Slots : process_table[s].state # "ZOMBIE"

\* Live processes have different pids, none above the last one handed out;
\* only a FREE slot has pid 0.
UniquePids ==
  /\ \A s \in Slots : process_table[s].state = "FREE" <=> process_table[s].pid = 0
  /\ \A s \in Slots : process_table[s].pid <= next_pid
  /\ \A s, t \in Slots :
       process_table[s].pid = process_table[t].pid /\ process_table[s].pid # 0
         => s = t

\* Nothing refers to the dead: the keyboard's waiter is a live process, and so
\* is every pid in a wait queue, however its owner died.
NoDanglingWaiter ==
  /\ kbd_waiting_process # NULL
       => process_table[kbd_waiting_process].state # "FREE"
  /\ \A pid \in wait_queues : \E s \in Slots :
       process_table[s].pid = pid /\ process_table[s].state # "FREE"

\* If nobody unblocks a process from outside the operation it waits in, a
\* process that waits in waitpid, in a wait queue or on the keyboard is
\* BLOCKED and waits in one of them only: no wake-up is taken for another.
OneWait ==
  \A s \in Slots :
    LET p == process_table[s]
        inWaitpid == p.waiting_for # 0
        inQueue == p.state # "FREE" /\ p.pid \in wait_queues
        onKeyboard == kbd_waiting_process = s
    IN  /\ inWaitpid \/ inQueue \/ onKeyboard => p.state = "BLOCKED"
        /\ ~(inWaitpid /\ inQueue)
        /\ ~(inWaitpid /\ onKeyboard)
        /\ ~(inQueue /\ onKeyboard)

\* process_table[s] is the parent of a live child[t] and waits for it.
AwaitsChild(tab, s, t) ==
  /\ tab[s].state = "BLOCKED"
  /\ tab[t].state # "FREE"
  /\ tab[s].waiting_for = tab[t].pid
  /\ tab[t].parent_pid = tab[s].pid

\* Whoever ends a process (itself, another process, Ctrl+C), a parent blocked
\* in waitpid for it is awake when it is gone, unless the parent died first.
ChildDeathWakes ==
  [][\A s, t \in Slots :
       /\ AwaitsChild(process_table, s, t)
       /\ process_table'[s].pid = process_table[s].pid
       /\ process_table'[t].pid # process_table[t].pid
       => /\ process_table'[s].state \in {"READY", "RUNNING"}
          /\ process_table'[s].waiting_for = 0]_vars

\* The CPU goes to idle only when no process of the queue is READY, and a
\* tick that finds idle running while one is READY takes the CPU from it
\* (kernel.c: "cede apenas haya trabajo").
IdleOnlyWhenNobodyReady ==
  [][/\ current_process' = idle_pcb'
     /\ current_process # idle_pcb \/ Tick
     => \A i \in 1 .. Len(run_queue') :
          process_table'[run_queue'[i]].state # "READY"]_vars

IsReady(pid) ==
  \E s \in Slots : process_table[s].pid = pid /\ process_table[s].state = "READY"

\* A READY process does not stay READY for ever: it runs, or is blocked or
\* killed.  (scheduler.c: aging lets a process of low priority "eventualmente
\* compita con los de mayor prioridad (anti-starvation)".)
NoStarvation ==
  \A pid \in ShellPid .. MaxPid : IsReady(pid) ~> ~IsReady(pid)

=============================================================================
