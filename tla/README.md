# A TLA+ model of the MASS kernel

The repository is a small 64-bit teaching kernel: preemptive processes with priorities and
aging, named semaphores, pipes, a terminal, two interchangeable memory managers, and a shell
with test programs. It runs on one core, without paging: every process sees the same memory.
This directory models the kernel and the part of the shell that drives it, checks the models with
TLC and proves, with TLAPS, the safety properties of the scheduler, of the semaphores, of the MVar
protocol over them, of pipes and descriptors, of the first-fit memory manager and of the shell's use
of the keyboard.

## 1. The system

| Part | State it keeps | Operations | Modelled in |
|---|---|---|---|
| Process table (`process.c`) | `process_table[64]`, `next_pid`, `current_process` | create, exit, kill, Ctrl+C kill, block, unblock, nice, waitpid | `Scheduler` |
| Scheduler (`scheduler.c`) | `run_queue`, `queue_size`, `queue_idx`, `idle_pcb`, `force_switch` | add, remove, next_ready, tick, yield | `Scheduler` |
| Interrupt handlers (`interrupts.asm`) | the CPU's stack pointer | timer, keyboard, `int 0x80`; switch on the way out | `Scheduler` |
| Boot (`kernel.c`, `idtLoader.c`) | position in the boot code | create idle and shell, start | `Boot` |
| Semaphores (`semaphore.c`) | `sem_table[32]`, `held_sems` and `opened_sems` of each PCB | open, wait, post, close, cleanup of a dying process | `Semaphore` |
| MVar command (`mvar.c`) | `umvar_table`, two semaphores per MVar | writers put, readers take | `MVar`, `OnePlaceBuffer` |
| Pipes (`pipe.c`) | `pipe_table[32]`: ring buffer, open ends, two wait queues each | open, read, write, close, cleanup of a dying process | `Pipe`, `PipeCalls` |
| Descriptors (`fd.c`, dispatcher, `process.c`) | `fd_table[130]`, `fd[2]` of each PCB | pipe, pipe_open, dup2, close, pipe_setup, read, write | `FileDescriptor`, `PipeCalls` |
| Terminal (`keyboardDriver.c`, `fd_read`) | key buffer, cooked line, `kbd_waiting_process` | key, Ctrl+C, Ctrl+D, read, mode | `Terminal`, `Shell`; the waiter also in `Scheduler` |
| Memory managers (`memoryManagerFF.c`, `memoryManagerBuddy.c`) | block list / buddy lists | malloc, free, status | `Heap`, `FirstFit`, `Buddy`, `MemoryManager`, `MemoryStatus` |
| Shell (`userlib.c`, `shell.c`) | the command line, its pipe | read a line, run a command, a pipeline | `Shell` |
| Text commands (`cat.c`, `wc.c`, `filter.c`, `help.c`) | | read and write until the end | children in `Shell` |
| Test programs | | clients of the calls above | no |
| Video, console, sound, clock, exceptions, boot loader, tools | | device output | no |

How the parts interact. A system call is `int 0x80` through an interrupt gate, so the C code
runs with interrupts off and is atomic. It may set `force_switch`; the assembly then calls
`scheduler_yield_impl`, which picks another process, frees the current one if it is a
ZOMBIE and returns the other stack. The timer calls `scheduler_tick`, the keyboard interrupt
calls `handlePressedKey`, which wakes the one process waiting for input or, on Ctrl+C, kills
the youngest foreground process. Semaphores, pipes and the keyboard block and wake processes
by writing their state. A dying process is taken out of every queue
(`sem_cleanup_for_process`, `pipe_cleanup_for_process`, `kbd_clear_waiting`), its parent is
woken if it waits, and its slot is freed: at once when somebody else kills it, by the switch
when it ends itself.

What is hard in it: everything is interleaved at system-call granularity; a process can be
killed at any point, holding and waiting for things; several tables must change together (slot,
queue, index, bits, reference counts); wake-ups must not be lost; aging must prevent
starvation; boot runs with interrupts already on. `PROJECT.json` lists these hazards with
their lines and the properties that would catch them.

What makes each part correct. *Scheduler*: the run queue is exactly the live processes, the CPU
is always owned by a process that may run, nothing refers to a dead process, a READY process
runs some day. *Boot*: it ends in the state the scheduler expects. *Semaphores*: value, queue,
bits and references agree; no lost or duplicated resource; mutual exclusion; waiters served.
*MVar*: a one-place buffer. *Pipes*: bytes in order, no lost wake-up, EOF when the last writer
is gone. *Descriptors*: references counted exactly, what nobody refers to is given back.
*Terminal*: the driver knows who waits for a key. *Memory*: blocks tile the heap, nothing is
handed out twice, what is freed merges back. *Shell*: a line that ran, failed or was interrupted
leaves nothing behind; the prompt comes back.

## 2. The modules

**`Scheduler`.** The C functions are operators with their source names that map a kernel state
`k` (a record of all variables and `force_switch`) to the next one, so that a handler is a
composition like the source's (`process_exit` = release resources, wake parent, become ZOMBIE,
force a switch; then `irq_return`). `Install(k)` assigns the variables. One action per system
call or interrupt: `sys_create_process`, `sys_exit`, `sys_kill`, `sys_nice`, `sys_block`,
`sys_unblock`, `sys_yield`, `sys_waitpid`, `KernelWait`/`KernelWake` (a semaphore or pipe makes
the caller wait, or wakes somebody), `KbdWait` (terminal read without input), `KeyWake`,
`CtrlC`, `Tick`. Slots are numbers, pointers to PCBs are slots (`NULL` = -1). Left out: stacks,
argv, names, return values, `sys_ps`. `wait_ticks` stops at the value where the bonus is maximal,
which is all that anything reads of it. Which processes a death wakes through semaphores and pipes
is any subset of those waiting (`Woken`): a process that ends itself gives up everything before it wakes
its parent, one that is killed gives up its descriptors after that, so that a kill has two such subsets.
`sys_nice` keeps 8 bits of the priority it is given, as its conversion to `uint8_t` does.

A process may call block and unblock on one that waits inside the kernel only if `Meddle` is
TRUE. That is legal for the code, and the structural invariants do not mind; `OneWait` does:
an outside unblock leaves `waiting_for` or a queue entry behind.

**`Boot`** extends `Scheduler` with the boot code as a sequence of steps that run while
`current_process` is NULL. Each process creation is one step: the timer scans only `run_queue`,
and the insertion into it is the last thing the creation does. It shows that `Scheduler!Init` is what booting
produces.

**`WaitQueue`** has the queues of pids that `semaphore.c` and `pipe.c` each implement with the same
functions, as sequences.

**`Semaphore`** is the semaphore table with the bits of the PCBs; any READY process may make the
next call. `state` is the part of the PCB that semaphores read and write. `Usage` says how
processes behave: `"lock"` (as `test_sync` does), `"opener"` (use only between open and close) or
`"any"`. Names are atoms, the ring buffer of waiters is a sequence, the spinlock, which the code
itself says never spins, is omitted. `initial`, `entered` and `suspended` are history variables.

**`MVar`** composes `Semaphore` with the program counters of writers and readers;
**`OnePlaceBuffer`** is what it promises. A participant's loop is the source's: busy wait
(`idle`), `sem_wait`, access, `sem_post`. Before it come the two calls that open the semaphores; one that
finds no slot makes the participant close what it opened and exit (`open_fails`).

**`Heap`** is what `memoryManager.h` promises: chunks that lie in the heap and do not overlap.
**`FirstFit`** is the list of block headers inside the heap, where the pointer arithmetic of the
code puts them; an iteration of a loop is a step, so that termination of the walks is a liveness
property, and no call starts before the last one has returned (calls run with interrupts off).
**`Buddy`** has the headers and the free lists, and an iteration of a split or merge is a step
too. **`MemoryManager`** is the kernel built with either (`MM`); it implements `Heap` with `live`
as the refinement mapping. **`MemoryStatus`** adds `mm_status` of both, whose walks are recursive.
Arithmetic is modulo `Word` where the code's can wrap.

**`Pipe`** and **`FileDescriptor`** hold the functions of `pipe.c`, of `fd.c` and of the calls
around them as operators from kernel state to kernel state. Bytes are numbered in the order in
which they enter a pipe, modulo `Stream`; `sent` and `got` are history. `opens` stops at 2, which is
all that the code compares it with. **`PipeCalls`** lets processes make these calls in any order;
it assumes of them that they close a descriptor from `sys_pipe` once at most and only their own,
that `sys_pipe_setup` is used on children that have not started, and that standard input is
redirected to a read end and output to a write end. The shell keeps to this. `orphans`, `leaked` and `crowded` are
history: descriptors of processes that died without closing them, pipes whose creation found
no descriptor, and pipes at one end of which two processes have waited.

**`Terminal`** adds the keyboard driver and `fd_read`/`fd_write` of any descriptor. A key is a
character (newline, backspace or another) or Ctrl with C or D; echo and shift are left out.
`readKeyBuff` gives half of what is buffered, as its loop does.

**`Shell`** composes all of these with the shell, system call by system call (`sh.at` is the place
in `shell_run`, `processLine` and `handle_pipe`), and with the children it starts: a reader
stands for cat, wc and filter, help for what only prints. There is one process for the left half
of a pipeline, one for the right, one for a command of its own. What else runs on the machine shows by
what it takes: at any time there may be no slot or memory for a process, or no pipe, so that every
error path of a line is taken at any point, that of a foreground command which cannot be created and
leaves the terminal cooked (`userlib.c:557`) included. `Writes` is a write
whose result nobody looks at: a child put to sleep by a full pipe goes on with its next write.

**`MCSemaphore`**, **`MCPipe`** and **`MCSchedulerLive`** are instances for TLC; the last adds the
bit `tick` that alternates with the timer, and starts with a shell and a child of any two
priorities, under the constants of `process.h` and `scheduler.c`.

**`NatLemmas`**, **`SchedulerProofs`**, **`SchedulerWaitProofs`**, **`SemaphoreProofs`**,
**`MVarProofs`**, **`PipeProofs`**, **`MemoryProofs`** and **`ShellProofs`** hold the proofs.

Definitions named "Mutant of ..." are wrong versions of the definition they precede. Nothing uses
them; putting one in the place of the original must break the property it is listed for.

## 3. The runs

| Run | Result | Shows |
|---|---|---|
| `Scheduler` | holds | structure (`TypeOK`, `RunQueueExact`, `RunQueueSorted`, `CpuOwned`, `UniquePids`, `NoDanglingWaiter`), `OneWait`, `ChildDeathWakes`, `IdleOnlyWhenNobodyReady` |
| `SchedulerLive` | fails | `NoStarvation`: with the kernel's constants a background process of priority 1 never runs beside a foreground one of priority 4 that never blocks |
| `Boot` | holds | `ShellStartsInInit` |
| `BootRace` | fails | `ShellBoots`: a tick during boot loses the boot code |
| `SemaphoreLock` | holds | `HeldBitsTrue`, `Conservation`, `Exclusion`, `WaiterServed` |
| `SemaphoreOpener` | holds | `SemTypeOK`, `NoLostWaiter`, `ValueCountsWaiters`, `OpenCountExact` |
| `MVar` | holds | `OneAtATime`, `ImplementsBuffer`, `EveryoneServed` |
| `MVarKill` | fails | `OneAtATime` when a participant is killed in its busy wait (stale held bit) |
| `Pipe` | holds | `ReferencesExact`, `PipesReclaimed`, `StreamInOrder`, `SleepersCanBeWoken`, `NoLostWakeup` |
| `Memory` | holds | `MemoryTypeOK`, `Tiles`, `ChunksHaveBlocks`, `FreeBlocksMerged`, `FreeListsExact`, `StatusAddsUp`, `ImplementsHeap`, `CallReturns` |
| `Shell` | holds | `ShellTypeOK`, `KeyboardHasOwner`, `NothingLeft`, `ShellComesBack`, `PipelineEnds` |
| `ShellJobs` | fails | `ShellHearsKeys`: a background pipeline takes the keyboard from the shell |

The four failing runs are disagreements between the code and what its comments or README
say; `PROJECT.json` quotes each. Two more have no run, and are reproduced by a change to a
configuration:

- `SemaphoreLock` with `Meddle = TRUE`: the block command, which says (`block.c:19`) that it
  cannot modify such a process, lets a waiter past `sem_wait`, and `Exclusion` fails;
- `MVarKill` with `NeverStuck` instead of `OneAtATime`: if the only participant that has both
  semaphores is killed while others are between their two opens, one semaphore is created anew and
  all wait for ever, although `mvar.c:90-92` calls the order of opening irrelevant.

What some of the properties leave out on purpose, because the code does not do it:
`PipesReclaimed` excepts a pipe whose creation found the descriptor table full (`sys_pipe` forgets
it); `NoLostWakeup` is for pipes at each end of which at most one process has waited (with two, the woken one may
die or leave bytes, and the other sleeps on); `NothingLeft` excepts the terminal mode after a
foreground command that could not be created, until the next one runs; `KeyboardHasOwner` promises every reader a wake-up
only while no pipeline runs in the background; nothing claims that all bytes of a
pipeline arrive, since the commands ignore the result of a write.

**Bounds.** `Scheduler`: four slots (idle, shell and two more, so that a queue has a front,
a middle and an end), two priorities, aging of one step, four pids, so that slots are
reused once; 371,585 states. Nice asks for priorities below the range, above it, and for one that 8 bits bring
back into it. The theorems
below cover the other sizes, and `Meddle`. `SchedulerLive` has the kernel's constants and bounds only
the processes: the shell and one child of any two priorities. Semaphores: three processes (one inside, two queued), two slots, in
`SemaphoreOpener` three names for them so that the table is full and slots change their name;
`MaxValue`, `MaxDebt` and `MaxOpens` bound values that could grow for ever. `MVar`: two
writers and two readers, so that both queues hold somebody while somebody is inside; kills while
opening, waiting in a queue and inside, that is anywhere but in the busy wait (which `MVarKill` adds).
`Pipe`: three processes (two at one end, one at the other), two pipes and four descriptors, so
that only one pipe can have both ends and `sys_pipe` fails for want of the second descriptor, of the first, or of
a pipe; a buffer of two bytes with reads and writes of none, one and three goes round and fills;
657,500 states. `Memory`: 160 bytes, which the buddies cut into 128 + 32; sizes of different
orders, one that never fits, one for the kernel; up to five blocks; 165,845 states. `Shell`: a
second pipe, so that a foreground pipeline coexists with one in the background, and five descriptors, so that
`sys_pipe` fails for want of its second one as long as both halves of the other are there; pipe and key
ring of one place, lines of two, so that all of them fill; 343,740 states.
Symmetry is used in `SemaphoreOpener` and `Pipe` only: the processes differ by nothing but their
names, and no liveness is checked there.

**Deadlock** is checked for `Scheduler` and `Boot`, where the timer can always tick. It is off for
semaphores, MVars and `Pipe`: when all processes are dead or wait, the system really stops. In
`Memory` and `Shell` there is always another call or key.

**Fairness.** `Scheduler`, `Boot`, `MCSchedulerLive`: the timer keeps ticking (100 Hz, masked only
inside a handler), nothing else. `Boot` adds that the CPU goes on with the boot code while it has
it. `FairSemSpec`: a process inside a lock and able to run posts some day or dies, which
is a property of the program that uses the lock. `MVarSpec`: each participant goes on if it can,
as processes of equal priority do, which these are: with all three priorities of `SchedulerLive.cfg` set to 3,
`NoStarvation` holds. `Shell`: the same
for the shell and each child, all of which have the default priority; no key is ever promised.
`MemorySpec`: a walk that can go on goes on, interrupts being off. In `FairSemSpec` and `Shell` the
condition of weak fairness is written out instead of `ENABLED`: whoever is ready, or inside, has a
step to take.

## 4. The proofs

Every theorem holds for all values of the constants that satisfy the named assumptions of the
module and what the table lists besides.

| Theorem | Property | Assumes |
|---|---|---|
| `SchedulerProofs!TypeCorrect` | `TypeOK` | idle |
| `SchedulerProofs!RunQueueIsExact` | `RunQueueExact` | idle |
| `SchedulerProofs!RunQueueIsSorted` | `RunQueueSorted` | idle |
| `SchedulerProofs!CpuIsOwned` | `CpuOwned` | idle |
| `SchedulerProofs!PidsAreUnique` | `UniquePids` | idle |
| `SchedulerProofs!NobodyWaitsDead` | `NoDanglingWaiter` | idle |
| `SchedulerWaitProofs!WaitsForOneThing` | `OneWait` | idle, no meddling |
| `SchedulerWaitProofs!ChildDeathIsNoticed` | `ChildDeathWakes` | idle, no meddling |
| `SchedulerWaitProofs!IdleGivesWay` | `IdleOnlyWhenNobodyReady` | idle, `MinPriority = 1` |
| `SemaphoreProofs!SemTypes` | `SemTypeOK` | |
| `SemaphoreProofs!SemNoLostWaiter` | `NoLostWaiter` | used while open, no meddling |
| `SemaphoreProofs!SemValueCountsWaiters` | `ValueCountsWaiters` | used while open, no meddling |
| `SemaphoreProofs!SemOpenCountExact` | `OpenCountExact` | used while open, no meddling |
| `SemaphoreProofs!SemHeldBitsTrue` | `HeldBitsTrue` | lock, no meddling |
| `SemaphoreProofs!SemConservation` | `Conservation` | lock, no meddling |
| `SemaphoreProofs!SemExclusion` | `Exclusion` | lock, no meddling |
| `MVarProofs!MVarOneAtATime` | `OneAtATime` | not killed in the busy wait |
| `MVarProofs!MVarImplementsBuffer` | `ImplementsBuffer` | not killed in the busy wait |
| `PipeProofs!PipeInvariant` | the inductive invariant `PipeInv` | |
| `PipeProofs!PipeStreamInOrder` | `StreamInOrder` | |
| `PipeProofs!PipeReferencesExact` | `ReferencesExact` | |
| `PipeProofs!PipePipesReclaimed` | `PipesReclaimed` | |
| `PipeProofs!PipeSleepersCanBeWoken` | `SleepersCanBeWoken` | |
| `PipeProofs!PipeNoLostWakeup` | `NoLostWakeup` | |
| `MemoryProofs!FirstFitTypes` | types of headers and locals | |
| `MemoryProofs!FirstFitImplementsHeap` | refinement of `Heap` | |
| `MemoryProofs!MemoryTiles` | `Tiles` | |
| `MemoryProofs!FirstFitMemoryTypes` | `MemoryTypeOK` | `MM = "FF"` |
| `MemoryProofs!FirstFitChunksHaveBlocks` | `ChunksHaveBlocks` | `MM = "FF"` |
| `MemoryProofs!FirstFitFreeBlocksMerged` | `FreeBlocksMerged` | `MM = "FF"` |
| `MemoryProofs!FirstFitKernelImplementsHeap` | `ImplementsHeap` | `MM = "FF"` |
| `ShellProofs!ShellTypes` | `ShellTypeOK` | |
| `ShellProofs!ShellKeyboardHasOwner` | `KeyboardHasOwner` | |

The assumptions.

- *The modules' own.* `SchedulerAssumption`: at least two slots and two pids, 1 <= min <= default
  <= max priority, a positive aging interval. `SemaphoreAssumption`: finitely many
  processes, no more than the ring of waiters has places (`MAX_PROCESSES`), initial values that are
  not negative; the bounds `MaxValue`, `MaxDebt` and `MaxOpens` are any numbers. `MVarAssumption`: room
  for the two semaphores of the MVar in the table. `PipeAssumption`, `FDAssumption` and
  `CountsAssumption`: finitely many processes, at least one pipe and one byte of buffer, room for
  the two terminal descriptors, sizes of reads and writes that are not negative; `TerminalAssumption` and `ShellAssumption`: a ring and a line of at least one character, keys that are characters, a command that prints something, and
  no process but the shell and its three children. What `PipeCalls`
  expects of processes (section 2) is in the guards of its actions. `FirstFitAssumption`:
  the heap holds more than a header, and neither it nor a request is so close to 2^64 that a sum
  with a header wraps (one that does is a hazard of `PROJECT.json` without a property).
- *idle* is `IdlePid \notin UserPids`: no process names idle in kill, nice, block or waitpid. It is
  needed: the code does not protect idle, and a killed idle is dispatched from a freed slot.
- *No meddling* is `Meddle = FALSE`: nobody uses block or unblock on a process that waits in the
  kernel. Section 3 says what goes wrong otherwise. The six theorems of `SchedulerProofs` and
  `SemTypes` do without it.
- *`MinPriority = 1`* is `process.h:10`. Idle runs at the lowest priority, and its quantum must be
  over at the next tick for the tick to take the CPU away.
- *Used while open* is `Usage # "any"`, *lock* is `Usage = "lock"`: the client's discipline, that of
  `test_sync`. The code enforces neither.
- *Not killed in the busy wait* is `"idle" \notin Killable`: a participant of an MVar is killed, if at all,
  while it opens its semaphores, in its `sem_wait` or between that and its `sem_post`. The run `MVarKill` shows
  why: killed in its busy wait, it gives back a unit it does not have.

**Scheduler, structure** (`SchedulerProofs`). None of the six is inductive alone: that `run_queue`
is exact after a kill needs unique pids (the slot found must be the one freed), that the CPU is
owned after a switch needs idle alive and out of the queue, that the keyboard's wake-up keeps the
states right needs its waiter to be alive. `IInv` is their conjunction with what they rest on: the
pid of the idle slot, and the pids of waiters. It is stated on kernel states `k`, and in two
strengths: `Mid(k)` holds between the C functions of a handler, when the current process may be
BLOCKED or a ZOMBIE provided `force` is set; `Done(k)` holds when the handler returns. There is one
lemma per C function (what it keeps of `Mid`), one for the switch (`Mid` with `force` gives
`Done`), and one step per action. The lemmas on `insert_pos`, `shift_right`, `shift_left` and the
index rest on `NatLemmas` (least and greatest elements of bounded sets of numbers).

**Scheduler, waiting** (`SchedulerWaitProofs`). `WaitInv` adds to `IInv` that each slot waits in at
most one place, and is BLOCKED if it does, and that idle is never BLOCKED. A handler is an
operation followed by scheduling. The operation satisfies `Step`: it keeps `Mid` and `WaitInv`, no
process dies without its waiting parent being woken (`Served`), and the CPU and idle's quantum stay
as they are (`Steady`). The scheduling after it is `Calm`: it changes who is RUNNING and frees the
ZOMBIE, and touches no wait. `OneWait` is a conjunct of the invariant; `ChildDeathWakes` follows from
the two halves of the step: the operation wakes the parent, and nothing puts it back to sleep. For
`IdleOnlyWhenNobodyReady` the invariant is `IInv` with `ShortQuantum`: idle never has more than
one tick; the rest is that `next_ready` returns idle only if its scan of the whole queue found nobody.

**Semaphores** (`SemaphoreProofs`). `SemInv` is the conjunction of types, `QueuesOK` (a process
stands in at most one queue, once), `SleepersOK` (it is BLOCKED exactly then, the dead have no
bits), `OpenOK` (reference counts are cardinalities of sets of openers), `DebtOK` (queue length and
value), and under lock usage `BitsOK` (who holds, who is inside, who sleeps) and `ConservedOK`. They need each
other: a post that finds a queue must find a sleeper in it to hand the unit to, the cleanup of a
dying waiter is right only if it stands in one queue, and counts stay exact only if a close
comes from an opener. `sem_cleanup_for_process` goes through all slots, so its effect is first
stated slot by slot, then lifted. `Exclusion` follows from `HeldBitsTrue` and `Conservation`.

**MVar** (`MVarProofs`). There is one token: a unit of one of the two semaphores, or a participant
past its `sem_wait` (`TokenOK`: at most one of these). `sem_wait` turns a unit into a participant,
`sem_post` a participant into a unit or into the participant it wakes, the death of a participant
inside gives its token back, and one that has not yet opened both semaphores, killed or
without a slot for one, changes no more than references. For this each name must have one semaphore only (`NamesOK`), every
participant must have open, hold and wait for what its place in the loop says (`ParticipantOK`),
and the table must be as `SemInv` says, which comes from `SemaphoreProofs`. While `Full`
holds (a value is there, or being handled), `value` is one that a writer wrote; with one token, a
put finds the buffer of `OnePlaceBuffer` empty and a take finds it full.

**Pipes and descriptors** (`PipeProofs`). The functions of `pipe.c` and `fd.c` take tables to
tables, so there is one lemma per function, and a system call is a chain of them. `PipeInv` is
`KInv` on the tables with `OwnersOK` on who was given what. Of each pipe, `KInv` says that the
bytes are in order (`RingOK`), that its queues hold nobody twice and nobody who could not be woken
(`QueueOK`), that it is as new when it is not in use, and, where no end was crowded, that its
sleepers have to sleep (`Calm`). Of all of them together: who sleeps is in the queue of one pipe
(`SleepOK`); with `N[T]` the number of references to a set `T` of descriptors, each descriptor
counts `N[{f}]` and each end of a pipe `N` of the descriptors that are that end (`TablesOK`); a
pipe is in use while an end is open or it was forgotten (`UseOK`); and whoever sleeps at an end
has a reference to it (`HeldOK`, `WaitersOwn`). `N` is any measure (`Measure`), which `fd_incref`
and `fd_decref` move by one at one descriptor: so a lemma on a C function says nothing about PCBs,
and only the steps of system calls count entries of PCBs. `HeldOK` is what makes a close safe: the
last reference to an end does not go, and its pipe is not reset, with somebody asleep at that end;
whoever closes or dies is not asleep elsewhere, or has just left the queues. `Apart` (no
descriptor was given to two processes) is needed for the close of one not to take the reference of
another. With `RingOK`, the wrap-around of both indices is arithmetic modulo the size of the
buffer, for which `NatLemmas` proves the laws (`ModSum`, `ModNear`).

**First fit** (`MemoryProofs`). `FFInv` is `Layout` (the list links headers in
ascending order, each ends where the next begins, the first at 0 and the last at the end of the heap, so that
blocks are disjoint), `Owned` (chunks and allocated blocks correspond), `CallOK` (the locals of a
call in progress point at headers of the list), `WalkOK` (the search for the block before has not
passed it) and `FreePairs` (two free neighbours exist only while mm_free is at work, and only where it is about to
merge). The steps that matter are the split and the two merges: each changes one header and the links
around it, and a lemma for each says that the layout stays one. `HeapSpec` follows since a chunk
lies inside its block and blocks are disjoint. `MemoryTiles` has no condition on `MM`, as a kernel built with the other manager leaves this list alone; the theorems
on `MM = "FF"` are the same facts about the composed kernel.

**Shell** (`ShellProofs`). Two of the ranges in `ShellTypeOK` are bounds of C arrays: the keyboard's ring and
the cooked line (`buff`, `tty.line`). That the line keeps its room for the newline is not inductive
alone. `LineOK` says that the line has that room as long as it is being typed, and that a line for
which somebody waits is not ready; the second is what makes the wake-up after the newline right. The
other conjuncts of `ShellInv` are that the keyboard's waiter is alive, that a pipe's descriptor
names a pipe (`DataOK`), that the list of live processes has everybody alive once and the shell first (`BornOK`: Ctrl+C,
which takes the youngest foreground process, never takes the shell), and that the shell
holds two descriptors between `sys_pipe` and its closes (`ShOK`). There is one lemma per C
function (`Keeps`: it leaves the terminal alone and frees nobody; `Turns`: at most p's own slot
changes hands) and one step per action.

`KeyboardHasOwner` needs to know of everybody who sleeps why. `KeyInv`, inductive on top of
`ShellInv`, has three parts. `Sleeping` holds for every behaviour: nobody is in two queues or twice in one, and
who is in one is asleep (`QueuesOK`); no queue of an end without a peer has anybody in it, which
needs the counts of a pipe to be those of its descriptors (`TablesOK`); the keyboard's waiter is
asleep in a read of the terminal and in no queue, a child not yet started sleeps outside all queues, and who sleeps in `pipe_read`
does not have the terminal as input. `PlaceOK` ties the places of the shell to the
children: neither half of a pipeline runs before it is started, and the right one is redirected
by then. `NoJobs` is what holds until a pipeline goes to the background: at
each place of the shell only certain children can be alive (`Cast`), and everyone asleep is in a
queue, is the keyboard's waiter, waits for a child or is not started. That a second reader never displaces
the first in `kbd_waiting_process` follows from both: the shell is not at its prompt while a
command of the foreground is there, and of a pipeline only the left half reads the terminal. TLC checked `KeyInv` before it was
proved.

Only model-checked:

- `WaiterServed`, `EveryoneServed`, `CallReturns`, `ShellComesBack`,
  `PipelineEnds`: liveness, which the prover does not reach.
- `ShellStartsInInit`: boot is a fixed sequence of few steps, which TLC explores whole.
- `Buddy`: `FreeListsExact`, and the properties of `MemoryManager` with `MM = "BUDDY"`. They rest on divisibility
  by powers of two and on `SelectSeq`, about which the provers know nothing and which need induction
  over data.
- `StatusAddsUp`: sums along a list, by recursive operators.
- The shell: `NothingLeft`. `TablesOK` of the proofs has the counts of the pipes, but not who
  holds each reference: the shell's `fds` and the standard descriptors of its children, at each of
  some twenty places of its code. The fixed cast of one shell and three children is what TLC
  explores whole.

## 5. Plan

1. The table of MVars and the reclaiming of its slots (`mvar.c:116-147`).
2. Proofs: the references of descriptors in `Shell` added to `KeyInv`, for `NothingLeft`; the split
   and the merge of the buddies, once the laws of powers of two are proved.

## 6. Not modelled

- Video, console, sound, clock, exceptions, module loading: device output and input that no other
  component's state depends on. The font size and the redraw buffer of the shell belong to this.
- The text handling of the shell and the commands: splitting a line into words, numbers, names,
  counting lines and words, vowels. What it decides (which command, child or not, background or
  not) is a choice of the model.
- In `Shell`: single commands in the background (they may not read the terminal and nobody waits for
  them), a second shell (`sh`), zombies and slots (`Scheduler` has them), the built-ins.
- The block command used on a process that sleeps in a pipe: as with semaphores it would run with
  its queue entry left behind.
- `mm_free` of a pointer that `malloc` did not return, or twice: the code does not check.
- Stacks, registers and memory contents; paging does not exist.
- Test programs: clients of the modelled calls. `Bootloader` and `Toolchain`: third-party code and host tools.
