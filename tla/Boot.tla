------------------------------- MODULE Boot -------------------------------
(***************************************************************************)
(* From load_idt() to the first process (Kernel/c/kernel/kernel.c,         *)
(* scheduler_start).  load_idt() ends with sti, so the timer may interrupt *)
(* the rest of the boot code.  That code is no process: with               *)
(* current_process = NULL scheduler_tick saves nothing, and once a tick    *)
(* has dispatched a process the boot code never continues.                 *)
(***************************************************************************)
EXTENDS Scheduler

VARIABLE boot_pc     \* the next statement of initializeKernelBinary and main

BootSteps == {"create_idle", "lower_idle", "set_idle", "remove_idle",
              "create_shell", "start", "done"}

IdleSlot == process_get(Kernel, IdlePid)

\* The boot code executes one statement, if it still has the CPU.
BootStep(from, to, k) ==
  /\ current_process = NULL
  /\ boot_pc = from
  /\ boot_pc' = to
  /\ Install(k)

create_idle == BootStep("create_idle", "lower_idle", process_create(Kernel, 0))

\* Mutant of lower_idle: idle keeps the default priority.
idle_not_lowered == BootStep("lower_idle", "set_idle", Kernel)

lower_idle == BootStep("lower_idle", "set_idle",
  [Kernel EXCEPT !.tab[IdleSlot].priority = MinPriority,
                 !.tab[IdleSlot].remaining_quanta = 1])

scheduler_set_idle == BootStep("set_idle", "remove_idle",
                               [Kernel EXCEPT !.idle = IdleSlot])

remove_idle == BootStep("remove_idle", "create_shell",
                        scheduler_remove(Kernel, IdleSlot))

create_shell == BootStep("create_shell", "start", process_create(Kernel, 1))

scheduler_start ==
  LET first == scheduler_next_ready(Kernel)
  IN  BootStep("start", "done",
        [Kernel EXCEPT !.tab[first.slot].state = "RUNNING",
                       !.cur = first.slot, !.idx = first.idx])

BootCode == \/ create_idle
            \/ lower_idle
            \/ scheduler_set_idle
            \/ remove_idle
            \/ create_shell
            \/ scheduler_start

\* process_init, scheduler_init and sem_init have run: nothing exists yet.
BootInit ==
  /\ boot_pc = "create_idle"
  /\ process_table = [s \in Slots |-> FreePCB]
  /\ run_queue = <<>>
  /\ queue_idx = 0
  /\ current_process = NULL
  /\ idle_pcb = NULL
  /\ kbd_waiting_process = NULL
  /\ next_pid = 0
  /\ wait_queues = {}

bootVars == <<vars, boot_pc>>

BootNext == BootCode \/ (Next /\ UNCHANGED boot_pc)

\* The CPU executes the boot code as long as it has it, and ticks come.
BootSpec == /\ BootInit /\ [][BootNext]_bootVars
            /\ WF_bootVars(BootCode)
            /\ WF_bootVars(Tick /\ UNCHANGED boot_pc)

(***************************************************************************)
(* Properties                                                              *)
(***************************************************************************)
\* If the boot code itself, or a tick, gives the CPU to the shell for the
\* first time, the kernel is in the initial state of module Scheduler: the
\* states that module starts from are the ones booting produces.
ShellStartsInInit ==
  [][/\ current_process = NULL
     /\ current_process' # NULL
     /\ process_table'[current_process'].pid = ShellPid
     => Init']_bootVars

\* README: "Al bootear se inicia una shell interactiva."
ShellBoots ==
  <>(\E s \in Slots : /\ process_table[s].pid = ShellPid
                      /\ process_table[s].state = "RUNNING")

=============================================================================
