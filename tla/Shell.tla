------------------------------- MODULE Shell -------------------------------
(***************************************************************************)
(* The shell (Userland/c/shell) with the children it starts, on top of     *)
(* descriptors, pipes and the terminal.  An action is one system call of   *)
(* one process, or one key.                                                *)
(*                                                                         *)
(* There is a process for each part a child can play: the two halves of a  *)
(* pipeline and a command of its own.  The other processes there may be,   *)
(* commands and pipelines in the background, appear by what they take from *)
(* the shell: at any time there may be no slot or memory left for a new    *)
(* process, or no pipe.  An exiting process is gone at once; module        *)
(* Scheduler has the zombies.                                              *)
(***************************************************************************)
EXTENDS Terminal

CONSTANTS
  Keys,        \* the characters that are typed
  PrintSize    \* how many characters help and wc print

Sh == "sh"
Left == "left"
Right == "right"
Single == "single"
Children == {Left, Right, Single}

ASSUME ShellAssumption == /\ Procs = {Sh} \cup Children
                          /\ Keys \subseteq Characters
                          /\ PrintSize \in Nat \ {0}

\* The programs a child can be started with: a reader stands for cat, wc and
\* filter, help for the commands that only print.
Programs == {"reader", "help"}

\* What a line can ask for.  A command of its own in the background is left out:
\* it may not read the terminal, has no pipe, and nobody waits for it.
Commands == [kind : {"single"}, bg : {FALSE}] \cup [kind : {"pipeline"}, bg : BOOLEAN]

VARIABLES
  k,       \* the kernel's state
  sh,      \* the shell: where it is, the command it runs, the pipe it has open
  kids,    \* the children: program, where they are, how many characters they hold
  jobs     \* has there been a pipeline in the background?

vars == <<k, sh, kids, jobs>>

NoCommand == [kind |-> "none", bg |-> FALSE]
NoKid == [prog |-> "none", at |-> "gone", n |-> 0]

Kernel0 == [state |-> [p \in Procs |-> "FREE"],
            fd |-> [p \in Procs |-> [s \in 0 .. 1 |-> NoFD]],
            fd_table |-> fd_init,
            pipe_table |-> [i \in Pipes |-> FreePipe],
            buff |-> <<>>,
            tty |-> NewLine("RAW"),
            kbd_waiting_process |-> Nobody,
            foreground |-> {Sh},
            waiting_for |-> Nobody,      \* the shell's; nobody else waits
            born |-> <<Sh>>]             \* the processes there are, oldest first

Init == /\ k = create_fds(Kernel0, Sh, FALSE)
        /\ sh = [at |-> "prompt", cmd |-> NoCommand, fds |-> <<>>, failed |-> FALSE]
        /\ kids = [p \in Children |-> NoKid]
        /\ jobs = FALSE

Alive(p) == k.state[p] # "FREE"

(***************************************************************************)
(* Processes end: process_exit, process_kill                               *)
(***************************************************************************)
\* Mutant of ends: nobody tells the shell.
ends_unnoticed(p) ==
  LET k1 == process_ends(kbd_clear_waiting(k, p), p)
  IN [k1 EXCEPT !.foreground = @ \ {p}, !.born = queue_remove_pid(@, p)]

ends(p) ==
  LET k1 == process_ends(kbd_clear_waiting(k, p), p)
      k2 == IF k1.waiting_for = p
            THEN [k1 EXCEPT !.state[Sh] = "READY", !.waiting_for = Nobody] ELSE k1
  IN [k2 EXCEPT !.foreground = @ \ {p}, !.born = queue_remove_pid(@, p)]

Ends(p) == k' = ends(p) /\ kids' = [kids EXCEPT ![p] = NoKid]

(***************************************************************************)
(* Keys                                                                    *)
(***************************************************************************)
Type(c) == k' = press(k, c) /\ UNCHANGED <<sh, kids, jobs>>

TypeCtrlD == k' = press_ctrl_d(k) /\ UNCHANGED <<sh, kids, jobs>>

\* process_kill_foreground: the youngest, if there are two.
TypeCtrlC ==
  LET fg == {i \in 1 .. Len(k.born) : k.born[i] \in k.foreground}
  IN /\ Cardinality(fg) > 1
     /\ \E i \in fg : (\A j \in fg : j <= i) /\ Ends(k.born[i])
     /\ UNCHANGED <<sh, jobs>>

Key == (\E c \in Keys : Type(c)) \/ TypeCtrlD \/ TypeCtrlC

(***************************************************************************)
(* The shell                                                               *)
(***************************************************************************)
At(l) == k.state[Sh] = "READY" /\ sh.at = l
Goto(l) == sh' = [sh EXCEPT !.at = l]

\* Back to the prompt, the line is done.
Done == sh' = [sh EXCEPT !.at = "prompt", !.cmd = NoCommand, !.fds = <<>>]

\* shellReadLine: one key at a time, until the end of a line.
ReadLine ==
  LET r == fd_read(k, k.fd[Sh][FD_STDIN], Sh, 1) IN
  /\ At("prompt")
  /\ k' = r.k
  /\ Goto(IF r.bytes = <<Newline>> THEN "line" ELSE "prompt")
  /\ UNCHANGED <<kids, jobs>>

\* processLine: a built-in or a mistake is over at once.
ProcessLine ==
  /\ At("line")
  /\ \/ Done /\ UNCHANGED jobs
     \/ \E c \in Commands :
          /\ sh' = [sh EXCEPT !.cmd = c,
                              !.at = IF c.kind = "pipeline" THEN "pipe" ELSE "cooked"]
          /\ jobs' = (jobs \/ (c.kind = "pipeline" /\ c.bg))
  /\ UNCHANGED <<k, kids>>

\* sys_create_process of p with the foreground flags fg: 1, or 3 for asleep.
created(p, fg) ==
  [create_fds(k, p, fg = 3) EXCEPT
     !.foreground = @ \cup {p}, !.born = Append(@, p)]

\* Where a program starts.
Entry(prog) == IF prog = "help" THEN "print" ELSE "read"

NewKid(prog, asleep) == [prog |-> prog,
                         at |-> IF asleep THEN "new" ELSE Entry(prog),
                         n |-> IF prog = "help" THEN PrintSize ELSE 0]

\* process_create finds a slot and memory, or it does not.  Nobody else can
\* play the part of p while it is alive.
Create(p, fg, ok, failed) ==
  \/ /\ ~Alive(p)
     /\ k' = created(p, fg)
     /\ \E prog \in Programs : kids' = [kids EXCEPT ![p] = NewKid(prog, fg = 3)]
     /\ ok
  \/ /\ UNCHANGED <<k, kids>>
     /\ failed

\* A command of its own.  When it cannot be created the terminal stays cooked.
SetCooked(next) == /\ At("cooked")
                   /\ k' = tty_set_mode(k, "COOKED")
                   /\ sh' = [sh EXCEPT !.at = next, !.failed = FALSE]
                   /\ UNCHANGED <<kids, jobs>>

CreateSingle ==
  /\ At("create")
  /\ Create(Single, 1, Goto("wait"),
            sh' = [sh EXCEPT !.at = "prompt", !.cmd = NoCommand, !.failed = TRUE])
  /\ UNCHANGED jobs

\* sys_waitpid: asleep until p ends, unless it has.
Wait(l, p, next) ==
  /\ At(l)
  /\ k' = IF Alive(p) THEN [k EXCEPT !.state[Sh] = "BLOCKED", !.waiting_for = p] ELSE k
  /\ Goto(next)
  /\ UNCHANGED <<kids, jobs>>

SetRaw == /\ At("raw")
          /\ k' = tty_set_mode(k, "RAW")
          /\ Done
          /\ UNCHANGED <<kids, jobs>>

\* handle_pipe, call by call.  Only child commands can be in a pipeline.
MakePipe == \E child_commands \in BOOLEAN :
  LET r == sys_pipe(k, Anonymous) IN
  /\ At("pipe")
  /\ \/ /\ k' = r.k
        /\ IF r.fds = <<>> THEN Done
           ELSE sh' = [sh EXCEPT !.fds = r.fds,
                                 !.at = IF child_commands THEN "left" ELSE "drop_read"]
     \/ UNCHANGED k /\ Done      \* others have all the pipes
  /\ UNCHANGED <<kids, jobs>>

CreateLeft == /\ At("left")
              /\ Create(Left, 3, Goto("right"), Goto("drop_read"))
              /\ UNCHANGED jobs

CreateRight == /\ At("right")
               /\ Create(Right, 3, Goto("setup_left"), Goto("kill_left"))
               /\ UNCHANGED jobs

\* sys_kill of the left half, which may have been killed already.
KillLeft == /\ At("kill_left")
            /\ IF Alive(Left) THEN Ends(Left) ELSE UNCHANGED <<k, kids>>
            /\ Goto("drop_read")
            /\ UNCHANGED jobs

Setup(l, p, fd, target, next) ==
  /\ At(l)
  /\ k' = process_pipe_setup(k, p, fd, target)
  /\ Goto(next)
  /\ UNCHANGED <<kids, jobs>>

SetupLeft == Setup("setup_left", Left, sh.fds[2], FD_STDOUT, "setup_right")
SetupRight == Setup("setup_right", Right, sh.fds[1], FD_STDIN, "close_read")

CloseEnd(l, fd, next) ==
  /\ At(l)
  /\ k' = sys_close(k, fd)
  /\ IF next = "prompt" THEN Done ELSE Goto(next)
  /\ UNCHANGED <<kids, jobs>>

\* Mutant of DropWrite: a line that fails leaves a write end open.
drop_write_forgotten == At("drop_write") /\ Done /\ UNCHANGED <<k, kids, jobs>>

\* Mutant of CloseWrite: the shell keeps its write end.
close_write_forgotten == At("close_write") /\ Goto("start_left") /\ UNCHANGED <<k, kids, jobs>>

CloseRead == CloseEnd("close_read", sh.fds[1], "close_write")
CloseWrite == CloseEnd("close_write", sh.fds[2], IF sh.cmd.bg THEN "start_left" ELSE "cooked")
DropRead == CloseEnd("drop_read", sh.fds[1], "drop_write")
DropWrite == CloseEnd("drop_write", sh.fds[2], "prompt")

Start(l, p, next) ==
  /\ At(l)
  /\ k' = process_unblock(k, p)
  /\ kids' = [kids EXCEPT ![p].at = IF @ = "new" THEN Entry(kids[p].prog) ELSE @]
  /\ IF next = "prompt" THEN Done ELSE Goto(next)
  /\ UNCHANGED jobs

StartLeft == Start("start_left", Left, "start_right")
StartRight == Start("start_right", Right, IF sh.cmd.bg THEN "prompt" ELSE "wait_left")

RunSingle == \/ sh.cmd.kind = "single" /\ SetCooked("create")
             \/ CreateSingle
             \/ Wait("wait", Single, "raw")

RunPipeline == \/ MakePipe \/ CreateLeft \/ CreateRight \/ KillLeft
               \/ SetupLeft \/ SetupRight \/ CloseRead \/ CloseWrite
               \/ DropRead \/ DropWrite
               \/ sh.cmd.kind = "pipeline" /\ SetCooked("start_left")
               \/ StartLeft \/ StartRight
               \/ Wait("wait_left", Left, "wait_right")
               \/ Wait("wait_right", Right, "raw")

ShellStep == ReadLine \/ ProcessLine \/ RunSingle \/ RunPipeline \/ SetRaw

(***************************************************************************)
(* The children                                                            *)
(***************************************************************************)
KidAt(p, l) == k.state[p] = "READY" /\ kids[p].at = l

\* cat, wc and filter read until there is nothing more to read; then wc prints
\* its counts and the others are done.
ReaderReads(p) == \E wc \in BOOLEAN :
  LET r == fd_read(k, k.fd[p][FD_STDIN], p, PIPE_BUFFER_SIZE) IN
  /\ KidAt(p, "read")
  /\ k' = r.k
  /\ kids' = [kids EXCEPT ![p] =
                CASE r.ret = BLOCKED_CALL -> @
                  [] r.ret = 0 /\ wc -> [@ EXCEPT !.at = "print", !.n = PrintSize]
                  [] r.ret = 0 /\ ~wc -> [@ EXCEPT !.at = "exit"]
                  [] OTHER -> [@ EXCEPT !.at = "copy", !.n = r.ret]]
  /\ UNCHANGED <<sh, jobs>>

\* Write m characters and look at nothing: a sleeping writer does not try again.
Writes(p, m) == k' = IF m = 0 THEN k ELSE fd_write(k, k.fd[p][FD_STDOUT], p, m).k

\* cat copies all, filter what is no vowel, wc nothing.
ReaderCopies(p) == \E m \in 0 .. kids[p].n :
  /\ KidAt(p, "copy")
  /\ Writes(p, m)
  /\ kids' = [kids EXCEPT ![p] = [@ EXCEPT !.at = "read", !.n = 0]]
  /\ UNCHANGED <<sh, jobs>>

\* shellPrintString, character by character.
Prints(p) ==
  /\ KidAt(p, "print")
  /\ Writes(p, 1)
  /\ kids' = [kids EXCEPT ![p].n = @ - 1,
                          ![p].at = IF kids[p].n = 1 THEN "exit" ELSE "print"]
  /\ UNCHANGED <<sh, jobs>>

Exit(p) == KidAt(p, "exit") /\ Ends(p) /\ UNCHANGED <<sh, jobs>>

KidStep(p) == ReaderReads(p) \/ ReaderCopies(p) \/ Prints(p) \/ Exit(p)

Next == \/ Key
        \/ ShellStep
        \/ \E p \in Children : KidStep(p)

\* All run with the default priority, so the scheduler runs a process that stays
\* ready.  Whoever is ready has a step to take: this is weak fairness of the
\* steps of each process, with the condition for a step written out.
ShellRuns == []<>(k.state[Sh] # "READY") \/ []<><<ShellStep>>_vars
ChildRuns(p) == []<>(k.state[p] # "READY") \/ []<><<KidStep(p)>>_vars

Spec == /\ Init
        /\ [][Next]_vars
        /\ ShellRuns
        /\ \A p \in Children : ChildRuns(p)

(***************************************************************************)
(* Properties                                                              *)
(***************************************************************************)
\* Nothing outgrows its array: the newline is appended to tty_line unchecked.
ShellTypeOK ==
  /\ k.state \in [Procs -> {"FREE", "READY", "BLOCKED"}]
  /\ k.fd \in [Procs -> [0 .. 1 -> FDs \cup {NoFD}]]
  /\ k.fd_table \in [FDs -> FDRecord]
  /\ k.pipe_table \in [Pipes -> PipeRecord]
  /\ Len(k.buff) <= BUFF_LENGTH
  /\ Len(k.tty.line) <= TTY_LINE_SIZE
  /\ ToSet(k.born) = {p \in Procs : Alive(p)}

\* Asleep in a read of the terminal: not in waitpid, not in a pipe, and started.
TerminalSleepers ==
  {p \in Procs : /\ k.state[p] = "BLOCKED"
                 /\ \A i \in Pipes : ~Contains(k.pipe_table[i].wait_writers, p)
                 /\ IF p = Sh THEN k.waiting_for = Nobody
                    ELSE /\ kids[p].at = "read"
                         /\ k.fd_table[k.fd[p][FD_STDIN]].type = "TERMINAL"}

\* The one process the driver knows of is asleep in a read, never one that has
\* ended or sleeps elsewhere; and as long as no pipeline runs in the background
\* every process asleep in a read is known to the driver.
KeyboardHasOwner ==
  /\ k.kbd_waiting_process # Nobody => k.kbd_waiting_process \in TerminalSleepers
  /\ ~jobs => TerminalSleepers \subseteq {k.kbd_waiting_process}

\* keyboardDriver.c: a key wakes "al proceso que esperaba input".  The shell at
\* its prompt, the only process asleep in a read of the terminal, hears the next
\* key.
ShellHearsKeys ==
  TerminalSleepers = {Sh} => k.kbd_waiting_process = Sh

\* Once the children are gone and the shell is back at its prompt nothing of the
\* line is left, whether it ran, was interrupted or failed on the way: no pipe,
\* no descriptor, no reference.  Nor does the prompt inherit a cooked terminal,
\* except from a command in the foreground that could not be created.
NothingLeft ==
  sh.at = "prompt" =>
    /\ ~sh.failed => k.tty.mode = "RAW"
    /\ (\A p \in Children : ~Alive(p)) =>
         /\ k.fd_table = create_fds(Kernel0, Sh, FALSE).fd_table
         /\ \A i \in Pipes : ~k.pipe_table[i].in_use

\* The shell comes back: after a line in the background whatever its processes
\* do, after one in the foreground when they are gone.
ShellComesBack ==
  \/ sh.cmd.bg
  \/ sh.at \in {"wait", "wait_left", "wait_right", "raw"} /\ \A p \in Children : ~Alive(p)
  ~> sh.at = "prompt"

\* A pipeline ends from the left: a producer is never stuck at a full pipe, and
\* once the left half is gone the right half reads to the end and goes.
PipelineEnds ==
  /\ kids[Left].prog = "help" ~> kids[Left].prog # "help"
  /\ Alive(Right) /\ ~Alive(Left) ~> ~Alive(Right)

=============================================================================
