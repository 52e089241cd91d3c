-------------------------- MODULE MCSchedulerLive --------------------------
(***************************************************************************)
(* Starvation: a foreground shell and a background child of any two        *)
(* priorities compete for the CPU, with the kernel's constants.  They      *)
(* start after the child was created and the priorities were set with      *)
(* nice, because nice also restarts the aging of a process and calling it  *)
(* for ever would defeat any aging scheme.  tick alternates on every timer *)
(* interrupt, so that the fairness of the timer is a formula about one     *)
(* variable.  The bonus does not bridge the range of priorities and the    *)
(* one that is added to the foreground: NoStarvation fails.                *)
(***************************************************************************)
EXTENDS Scheduler

VARIABLE tick

ChildPid == ShellPid + 1

InitLive ==
  /\ tick = 0
  /\ \E shellPrio, childPrio \in MinPriority .. MaxPriority :
       /\ process_table = [s \in Slots |->
            CASE s = 0 -> [FreePCB EXCEPT !.pid = IdlePid, !.state = "READY",
                                          !.remaining_quanta = 1]
              [] s = 1 -> [FreePCB EXCEPT !.pid = ShellPid,
                             !.state = "RUNNING", !.priority = shellPrio,
                             !.remaining_quanta = shellPrio,
                             !.foreground = TRUE]
              [] s = 2 -> [FreePCB EXCEPT !.pid = ChildPid,
                             !.state = "READY", !.priority = childPrio,
                             !.remaining_quanta = childPrio,
                             !.parent_pid = ShellPid]
              [] OTHER -> FreePCB]
       /\ run_queue = IF childPrio > shellPrio THEN <<2, 1>> ELSE <<1, 2>>
       /\ queue_idx = IF childPrio > shellPrio THEN 1 ELSE 0
  /\ current_process = 1
  /\ idle_pcb = 0
  /\ kbd_waiting_process = NULL
  /\ next_pid = ChildPid
  /\ wait_queues = {}

TimerFires == tick' = 1 - tick

NextLive == \/ Tick /\ TimerFires
            \/ Handlers /\ UNCHANGED tick

\* The timer interrupt (100 Hz, never masked outside a handler) keeps coming.
SpecLive == InitLive /\ [][NextLive]_<<vars, tick>> /\ WF_tick(TimerFires)

=============================================================================
