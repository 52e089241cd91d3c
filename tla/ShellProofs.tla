---------------------------- MODULE ShellProofs ----------------------------
(***************************************************************************)
(* Proofs about module Shell, for every number of pipes and descriptors    *)
(* and every size of buffers, lines and rings.                             *)
(*                                                                         *)
(* The operations of pipe.c and fd.c leave the terminal alone and start or *)
(* end no process (Keeps); those of keyboardDriver.c leave pipes and       *)
(* descriptors alone.  There is a lemma for each.                          *)
(*                                                                         *)
(* The second half is about who sleeps where.  It proves that the queues   *)
(* of the pipes are exact and that the places of the shell and its         *)
(* children account for every process that sleeps, and from that           *)
(* that the keyboard belongs to one sleeper (KeyboardHasOwner).            *)
(***************************************************************************)
EXTENDS Shell, NatLemmas

(***************************************************************************)
(* The inductive invariant                                                 *)
(***************************************************************************)
\* The values of the kernel's state.
ShellKernel ==
  [state : [Procs -> {"FREE", "READY", "BLOCKED"}],
   fd : [Procs -> [0 .. 1 -> FDs \cup {NoFD}]],
   fd_table : [FDs -> FDRecord],
   pipe_table : [Pipes -> PipeRecord],
   buff : Seq(Characters \cup {EndOfFile}),
   tty : [mode : {"RAW", "COOKED"}, line : Seq(Characters), line_ready : BOOLEAN,
          eof : BOOLEAN],
   kbd_waiting_process : Procs \cup {Nobody},
   foreground : SUBSET Procs,
   waiting_for : Procs \cup {Nobody},
   born : Seq(Procs)]

\* A descriptor of a pipe says which.
DataOK(a) == \A f \in FDs : a.fd_table[f].type \in {"PIPE_READ", "PIPE_WRITE"}
                              => a.fd_table[f].data \in Pipes

\* There is room for the newline as long as the line is being typed, and while
\* somebody waits it is.
LineOK(t, waiting) ==
  /\ Len(t.line) <= TTY_LINE_SIZE
  /\ ~t.line_ready => Len(t.line) <= TTY_LINE_SIZE - 1
  /\ t.mode = "RAW" => ~t.line_ready
  /\ waiting # Nobody => ~t.line_ready

\* The processes there are, the shell the oldest.
BornOK(a) ==
  /\ Injective(a.born) /\ Len(a.born) > 0 /\ a.born[1] = Sh
  /\ \A p \in Procs : InQueue(a.born, p) <=> a.state[p] # "FREE"

KernelOK(a) ==
  /\ a \in ShellKernel /\ DataOK(a)
  /\ Len(a.buff) <= BUFF_LENGTH /\ LineOK(a.tty, a.kbd_waiting_process)
  /\ a.kbd_waiting_process # Nobody => a.state[a.kbd_waiting_process] # "FREE"
  /\ BornOK(a)

\* Where the shell is and has a pipe open.
PipeOpen == {"left", "right", "kill_left", "setup_left", "setup_right",
             "close_read", "close_write", "drop_read", "drop_write"}

Places == PipeOpen \cup {"prompt", "line", "pipe", "cooked", "create", "wait", "raw",
                         "start_left", "start_right", "wait_left", "wait_right"}

ShOK == /\ sh \in [at : Places, cmd : Commands \cup {NoCommand},
                   fds : {<<>>} \cup (FDs \X FDs), failed : BOOLEAN]
        /\ sh.at \in PipeOpen => sh.fds \in FDs \X FDs

Kids == [prog : {"none", "reader", "help"},
         at : {"gone", "new", "read", "copy", "print", "exit"}, n : Int]

\* The inductive invariant.
ShellInv == KernelOK(k) /\ ShOK /\ kids \in [Children -> Kids]

(***************************************************************************)
(* One part of the kernel's state is written                               *)
(***************************************************************************)
\* The parts of the kernel's state.
LEMMA ShellFields ==
  ASSUME NEW a \in ShellKernel
  PROVE  /\ a.state \in [Procs -> {"FREE", "READY", "BLOCKED"}]
         /\ a.fd \in [Procs -> [0 .. 1 -> FDs \cup {NoFD}]]
         /\ a.fd_table \in [FDs -> FDRecord]
         /\ a.pipe_table \in [Pipes -> PipeRecord]
         /\ a.buff \in Seq(Characters \cup {EndOfFile})
         /\ a.kbd_waiting_process \in Procs \cup {Nobody}
         /\ a.foreground \in SUBSET Procs
         /\ a.waiting_for \in Procs \cup {Nobody}
         /\ a.born \in Seq(Procs)
         /\ a.tty \in [mode : {"RAW", "COOKED"}, line : Seq(Characters),
                       line_ready : BOOLEAN, eof : BOOLEAN]
BY DEF ShellKernel

\* The processes that are there in a are those in b.
SameAlive(a, b) == \A p \in Procs : b.state[p] = "FREE" <=> a.state[p] = "FREE"

\* From a to b the terminal is left alone, and no process starts or ends.
Keeps(a, b) ==
  /\ b \in ShellKernel /\ DataOK(b)
  /\ b.buff = a.buff /\ b.tty = a.tty /\ b.kbd_waiting_process = a.kbd_waiting_process
  /\ b.foreground = a.foreground /\ b.waiting_for = a.waiting_for /\ b.born = a.born
  /\ SameAlive(a, b)

\* A state the pipes and descriptors can be in.
Sane(a) == a \in ShellKernel /\ DataOK(a)

\* What is kept twice is kept.
LEMMA KeepsTwice ==
  ASSUME NEW a, NEW b, NEW c, Keeps(a, b), Keeps(b, c)
  PROVE  Keeps(a, c)
BY DEF Keeps, SameAlive

\* What is not touched is kept.
LEMMA KeepsSame ==
  ASSUME NEW a, Sane(a)
  PROVE  Keeps(a, a)
BY DEF Keeps, SameAlive, Sane

\* Afterwards the state is sane, and what else was right still is.
LEMMA KeepsOK ==
  ASSUME NEW a, NEW b, Keeps(a, b)
  PROVE  Sane(b) /\ (KernelOK(a) => KernelOK(b))
<1>1. Sane(b)
  BY DEF Keeps, Sane
<1>2. ASSUME KernelOK(a) PROVE KernelOK(b)
  <2>1. BornOK(b)
    BY <1>2 DEF KernelOK, BornOK, Keeps, SameAlive
  <2>2. b.kbd_waiting_process # Nobody => b.state[b.kbd_waiting_process] # "FREE"
    BY <1>2, ShellFields DEF KernelOK, Keeps, SameAlive
  <2> QED BY <1>2, <2>1, <2>2 DEF KernelOK, Keeps
<1> QED BY <1>1, <1>2

\* The states of the processes, one pipe, one descriptor, or the tables of the PCBs.
StateIn(a, st) == [a EXCEPT !.state = st]
PipeIn(a, i, u) == [a EXCEPT !.pipe_table[i] = u]
FDIn(a, f, d) == [a EXCEPT !.fd_table[f] = d]
FDsIn(a, fd) == [a EXCEPT !.fd = fd]

\* New states of the processes, with nobody started or ended.
LEMMA StateInKeeps ==
  ASSUME NEW a, Sane(a), NEW st \in [Procs -> {"FREE", "READY", "BLOCKED"}],
         \A p \in Procs : st[p] = "FREE" <=> a.state[p] = "FREE"
  PROVE  Keeps(a, StateIn(a, st))
BY DEF Keeps, Sane, DataOK, SameAlive, StateIn, ShellKernel

\* One pipe is written.
LEMMA PipeInKeeps ==
  ASSUME NEW a, Sane(a), NEW i \in Pipes, NEW u \in PipeRecord
  PROVE  Keeps(a, PipeIn(a, i, u)) /\ PipeIn(a, i, u).pipe_table[i] = u
BY DEF Keeps, Sane, DataOK, SameAlive, PipeIn, ShellKernel

\* One descriptor is written.
LEMMA FDInKeeps ==
  ASSUME NEW a, Sane(a), NEW f \in FDs, NEW d \in FDRecord,
         d.type \in {"PIPE_READ", "PIPE_WRITE"} => d.data \in Pipes
  PROVE  Keeps(a, FDIn(a, f, d)) /\ FDIn(a, f, d).fd_table[f] = d
<1> DEFINE b == FDIn(a, f, d)
<1>1. /\ b \in ShellKernel /\ b.fd_table = [a.fd_table EXCEPT ![f] = d]
      /\ b.buff = a.buff /\ b.tty = a.tty /\ b.kbd_waiting_process = a.kbd_waiting_process
      /\ b.foreground = a.foreground /\ b.waiting_for = a.waiting_for /\ b.born = a.born
      /\ b.state = a.state
  BY DEF Sane, FDIn, ShellKernel
<1> HIDE DEF b
<1>2. a.fd_table \in [FDs -> FDRecord]
  BY ShellFields DEF Sane
<1>3. DataOK(b) /\ b.fd_table[f] = d
  BY <1>1, <1>2 DEF DataOK, Sane
<1> QED BY <1>1, <1>3 DEF Keeps, SameAlive, b

\* The tables of the PCBs are written.
LEMMA FDsInKeeps ==
  ASSUME NEW a, Sane(a), NEW fd \in [Procs -> [0 .. 1 -> FDs \cup {NoFD}]]
  PROVE  Keeps(a, FDsIn(a, fd))
BY DEF Keeps, Sane, DataOK, SameAlive, FDsIn, ShellKernel

(***************************************************************************)
(* Pipes                                                                   *)
(***************************************************************************)
\* The fields of a pipe.
LEMMA PipeFields ==
  ASSUME NEW q \in PipeRecord
  PROVE  /\ q.buffer \in [Cells -> 0 .. Stream] /\ q.read_idx \in Cells /\ q.write_idx \in Cells
         /\ q.count \in 0 .. PIPE_BUFFER_SIZE /\ q.sent \in 0 .. Stream - 1 /\ q.got \in 0 .. Stream - 1
         /\ q.open_read \in Nat /\ q.open_write \in Nat
         /\ q.wait_readers \in Seq(Procs) /\ q.wait_writers \in Seq(Procs)
         /\ q.in_use \in BOOLEAN /\ q.name \in Names \cup {Anonymous} /\ q.eof \in BOOLEAN
         /\ q.opens \in 0 .. MaxOpens
BY DEF PipeRecord

\* A free pipe is a pipe.
LEMMA FreePipeType == FreePipe \in PipeRecord
<1>1. 0 \in Cells /\ Stale \in 0 .. Stream /\ 0 \in 0 .. PIPE_BUFFER_SIZE /\ 0 \in 0 .. Stream - 1
  BY PipeAssumption DEF Cells, Stale
<1>2. <<>> \in Seq(Procs)
  OBVIOUS
<1> QED BY <1>1, <1>2 DEF FreePipe, PipeRecord, MaxOpens

\* A pipe in a sane state.
LEMMA PipeAt ==
  ASSUME NEW a, Sane(a), NEW i \in Pipes
  PROVE  a.pipe_table[i] \in PipeRecord
BY ShellFields DEF Sane

\* The queues and counts of a pipe are written.
LEMMA PipeWrites ==
  ASSUME NEW q \in PipeRecord
  PROVE  /\ \A s \in Seq(Procs) : /\ [q EXCEPT !.wait_readers = s] \in PipeRecord
                                  /\ [q EXCEPT !.wait_writers = s] \in PipeRecord
         /\ \A n \in Nat : /\ [q EXCEPT !.open_read = n] \in PipeRecord
                           /\ [q EXCEPT !.open_write = n] \in PipeRecord
         /\ \A e \in BOOLEAN : [q EXCEPT !.eof = e] \in PipeRecord
BY DEF PipeRecord

\* What readers take (pipe_read) leaves a pipe.
LEMMA TakeType ==
  ASSUME NEW q \in PipeRecord, NEW n \in 0 .. q.count
  PROVE  take_bytes(q, n) \in PipeRecord
<1> DEFINE B == PIPE_BUFFER_SIZE
           buf == [c \in Cells |-> IF (c - q.read_idx) % B < n THEN Stale ELSE q.buffer[c]]
           x == q.read_idx + n
           y == q.got + n
<1>1. /\ B \in Nat \ {0} /\ Stream \in Nat \ {0} /\ q.buffer \in [Cells -> 0 .. Stream]
      /\ q.count \in 0 .. B /\ x \in Int /\ y \in Int /\ q.count - n \in 0 .. B
      /\ Stale \in 0 .. Stream
  BY PipeAssumption, PipeFields DEF Cells, Stale
<1>2. take_bytes(q, n) = [q EXCEPT !.buffer = buf, !.read_idx = x % B,
                                   !.count = q.count - n, !.got = y % Stream]
  BY DEF take_bytes
<1>3. buf \in [Cells -> 0 .. Stream]
  BY <1>1
<1> HIDE DEF buf, x, y
<1>4. x % B \in 0 .. B - 1 /\ y % Stream \in 0 .. Stream - 1
  BY <1>1, DivMod
<1> QED BY <1>1, <1>2, <1>3, <1>4 DEF PipeRecord, Cells

\* And so does what writers put (pipe_write).
LEMMA PutType ==
  ASSUME NEW q \in PipeRecord, NEW n \in 0 .. PIPE_BUFFER_SIZE - q.count
  PROVE  put_bytes(q, n) \in PipeRecord
<1> DEFINE B == PIPE_BUFFER_SIZE
           buf == [c \in Cells |-> IF (c - q.write_idx) % B < n
                                   THEN (q.sent + ((c - q.write_idx) % B)) % Stream
                                   ELSE q.buffer[c]]
           x == q.write_idx + n
           y == q.sent + n
<1>0. /\ B \in Nat \ {0} /\ Stream \in Nat \ {0} /\ q.buffer \in [Cells -> 0 .. Stream]
      /\ q.count \in 0 .. B /\ q.write_idx \in 0 .. B - 1 /\ q.sent \in 0 .. Stream - 1
  BY PipeAssumption, PipeFields DEF Cells
<1>1. /\ B \in Nat \ {0} /\ Stream \in Nat \ {0} /\ q.buffer \in [Cells -> 0 .. Stream]
      /\ q.count \in 0 .. B /\ x \in Int /\ y \in Int /\ q.count + n \in 0 .. B
      /\ q.write_idx \in Int /\ q.sent \in Int
  <2>1. q.count \in Int /\ q.write_idx \in Int /\ q.sent \in Int /\ n \in Int
        /\ 0 <= n /\ n <= B - q.count /\ 0 <= q.count
    BY ONLY <1>0, n \in 0 .. B - q.count
  <2>2. x \in Int /\ y \in Int
    BY <2>1
  <2>3. q.count + n \in 0 .. B
    BY <1>0, <2>1
  <2> QED BY <1>0, <2>1, <2>2, <2>3
<1>2. put_bytes(q, n) = [q EXCEPT !.buffer = buf, !.write_idx = x % B,
                                  !.count = q.count + n, !.sent = y % Stream]
  BY DEF put_bytes
<1>3. ASSUME NEW c \in Cells PROVE (q.sent + ((c - q.write_idx) % B)) % Stream \in 0 .. Stream
  <2> DEFINE z == c - q.write_idx
  <2>1. z \in Int
    BY <1>1 DEF Cells
  <2> HIDE DEF z
  <2>2. z % B \in Int
    BY <1>1, <2>1, DivMod
  <2> DEFINE w == q.sent + (z % B)
  <2>3. w \in Int
    BY <1>1, <2>2
  <2> HIDE DEF w
  <2>4. w % Stream \in 0 .. Stream - 1
    BY <1>1, <2>3, DivMod
  <2>5. w % Stream \in 0 .. Stream
    BY <1>1, <2>4
  <2> QED BY <2>5 DEF w, z
<1>4. buf \in [Cells -> 0 .. Stream]
  BY <1>1, <1>3
<1> HIDE DEF buf, x, y
<1>5. x % B \in 0 .. B - 1 /\ y % Stream \in 0 .. Stream - 1
  BY <1>1, DivMod
<1> QED BY <1>1, <1>2, <1>4, <1>5 DEF PipeRecord, Cells

\* process_unblock wakes whoever is asleep.
LEMMA UnblockKeeps ==
  ASSUME NEW a, Sane(a), NEW p \in Procs
  PROVE  Keeps(a, process_unblock(a, p))
<1> DEFINE st == [a.state EXCEPT ![p] = IF @ = "BLOCKED" THEN "READY" ELSE @]
<1>1. a.state \in [Procs -> {"FREE", "READY", "BLOCKED"}]
  BY ShellFields DEF Sane
<1>2. st \in [Procs -> {"FREE", "READY", "BLOCKED"}] /\ \A x \in Procs : st[x] = "FREE" <=> a.state[x] = "FREE"
  BY <1>1
<1>3. process_unblock(a, p) = StateIn(a, st)
  BY DEF process_unblock, StateIn
<1> HIDE DEF st
<1> QED BY <1>2, <1>3, StateInKeeps

\* process_block puts p to sleep.
LEMMA BlockKeeps ==
  ASSUME NEW a, Sane(a), NEW p \in Procs
  PROVE  Keeps(a, process_block(a, p))
<1> DEFINE st == [a.state EXCEPT ![p] = IF @ = "READY" THEN "BLOCKED" ELSE @]
<1>1. a.state \in [Procs -> {"FREE", "READY", "BLOCKED"}]
  BY ShellFields DEF Sane
<1>2. st \in [Procs -> {"FREE", "READY", "BLOCKED"}] /\ \A x \in Procs : st[x] = "FREE" <=> a.state[x] = "FREE"
  BY <1>1
<1>3. process_block(a, p) = StateIn(a, st)
  BY DEF process_block, StateIn
<1> HIDE DEF st
<1> QED BY <1>2, <1>3, StateInKeeps

\* All of a queue are woken.
LEMMA UnblockAllKeeps ==
  ASSUME NEW a, Sane(a), NEW s
  PROVE  Keeps(a, unblock_all(a, s))
<1> DEFINE st == [p \in Procs |-> IF InQueue(s, p) /\ a.state[p] = "BLOCKED"
                                  THEN "READY" ELSE a.state[p]]
<1>1. a.state \in [Procs -> {"FREE", "READY", "BLOCKED"}]
  BY ShellFields DEF Sane
<1>2. st \in [Procs -> {"FREE", "READY", "BLOCKED"}] /\ \A x \in Procs : st[x] = "FREE" <=> a.state[x] = "FREE"
  BY <1>1
<1>3. unblock_all(a, s) = StateIn(a, st)
  BY DEF unblock_all, StateIn
<1> HIDE DEF st
<1> QED BY <1>2, <1>3, StateInKeeps

\* pipe_wake_reader and pipe_wake_writer wake the first of a queue.
LEMMA WakeKeeps ==
  ASSUME NEW a, Sane(a), NEW i \in Pipes
  PROVE  Keeps(a, pipe_wake_reader(a, i)) /\ Keeps(a, pipe_wake_writer(a, i))
<1> DEFINE q == a.pipe_table[i]
<1>1. q \in PipeRecord /\ q.wait_readers \in Seq(Procs) /\ q.wait_writers \in Seq(Procs)
  BY PipeAt, PipeFields
<1>2. Keeps(a, pipe_wake_reader(a, i))
  <2> DEFINE s == q.wait_readers
             u == [q EXCEPT !.wait_readers = queue_pop(s)]
             b == PipeIn(a, i, u)
  <2>1. pipe_wake_reader(a, i) = IF s = <<>> THEN a ELSE process_unblock(b, Head(s))
    BY DEF pipe_wake_reader, PipeIn
  <2>2. CASE s = <<>>
    BY <2>1, <2>2, KeepsSame
  <2>3. CASE s # <<>>
    <3>1. queue_pop(s) \in Seq(Procs) /\ Head(s) \in Procs
      BY <1>1, <2>3 DEF queue_pop
    <3>2. u \in PipeRecord
      BY <1>1, <3>1, PipeWrites
    <3> HIDE DEF u
    <3>3. Keeps(a, b)
      BY <3>2, PipeInKeeps
    <3> HIDE DEF b
    <3>4. Keeps(b, process_unblock(b, Head(s)))
      BY <3>1, <3>3, KeepsOK, UnblockKeeps
    <3> QED BY <2>1, <2>3, <3>3, <3>4, KeepsTwice
  <2> QED BY <2>2, <2>3
<1>3. Keeps(a, pipe_wake_writer(a, i))
  <2> DEFINE s == q.wait_writers
             u == [q EXCEPT !.wait_writers = queue_pop(s)]
             b == PipeIn(a, i, u)
  <2>1. pipe_wake_writer(a, i) = IF s = <<>> THEN a ELSE process_unblock(b, Head(s))
    BY DEF pipe_wake_writer, PipeIn
  <2>2. CASE s = <<>>
    BY <2>1, <2>2, KeepsSame
  <2>3. CASE s # <<>>
    <3>1. queue_pop(s) \in Seq(Procs) /\ Head(s) \in Procs
      BY <1>1, <2>3 DEF queue_pop
    <3>2. u \in PipeRecord
      BY <1>1, <3>1, PipeWrites
    <3> HIDE DEF u
    <3>3. Keeps(a, b)
      BY <3>2, PipeInKeeps
    <3> HIDE DEF b
    <3>4. Keeps(b, process_unblock(b, Head(s)))
      BY <3>1, <3>3, KeepsOK, UnblockKeeps
    <3> QED BY <2>1, <2>3, <3>3, <3>4, KeepsTwice
  <2> QED BY <2>2, <2>3
<1> QED BY <1>2, <1>3

\* pipe_wake_all_readers and pipe_wake_all_writers empty a queue.
LEMMA WakeAllKeeps ==
  ASSUME NEW a, Sane(a), NEW i \in Pipes
  PROVE  Keeps(a, pipe_wake_all_readers(a, i)) /\ Keeps(a, pipe_wake_all_writers(a, i))
<1> DEFINE q == a.pipe_table[i]
           r == PipeIn(a, i, [q EXCEPT !.wait_readers = <<>>])
           w == PipeIn(a, i, [q EXCEPT !.wait_writers = <<>>])
<1>1. /\ pipe_wake_all_readers(a, i) = unblock_all(r, q.wait_readers)
      /\ pipe_wake_all_writers(a, i) = unblock_all(w, q.wait_writers)
  BY DEF pipe_wake_all_readers, pipe_wake_all_writers, PipeIn
<1>2. <<>> \in Seq(Procs)
  OBVIOUS
<1>3. Keeps(a, r) /\ Keeps(a, w)
  BY <1>2, PipeAt, PipeWrites, PipeInKeeps
<1> HIDE DEF r, w, q
<1>4. /\ Keeps(r, unblock_all(r, q.wait_readers))
      /\ Keeps(w, unblock_all(w, q.wait_writers))
  BY <1>3, KeepsOK, UnblockAllKeeps
<1> QED BY <1>1, <1>3, <1>4, KeepsTwice

\* The caller of pipe_read or pipe_write goes to sleep.
LEMMA SleepKeeps ==
  ASSUME NEW a, Sane(a), NEW i \in Pipes, NEW p \in Procs
  PROVE  Keeps(a, sleep_reader(a, i, p)) /\ Keeps(a, sleep_writer(a, i, p))
<1> DEFINE q == a.pipe_table[i]
           r == PipeIn(a, i, [q EXCEPT !.wait_readers = queue_push(@, p)])
           w == PipeIn(a, i, [q EXCEPT !.wait_writers = queue_push(@, p)])
<1>1. /\ sleep_reader(a, i, p) = process_block(r, p)
      /\ sleep_writer(a, i, p) = process_block(w, p)
  BY DEF sleep_reader, sleep_writer, PipeIn
<1>2. q \in PipeRecord /\ q.wait_readers \in Seq(Procs) /\ q.wait_writers \in Seq(Procs)
  BY PipeAt, PipeFields
<1>3. queue_push(q.wait_readers, p) \in Seq(Procs) /\ queue_push(q.wait_writers, p) \in Seq(Procs)
  BY <1>2 DEF queue_push
<1>4. /\ [q EXCEPT !.wait_readers = queue_push(@, p)] \in PipeRecord
      /\ [q EXCEPT !.wait_writers = queue_push(@, p)] \in PipeRecord
  BY <1>2, <1>3, PipeWrites
<1>5. Keeps(a, r) /\ Keeps(a, w)
  BY <1>4, PipeInKeeps
<1> HIDE DEF r, w, q
<1>6. Keeps(r, process_block(r, p)) /\ Keeps(w, process_block(w, p))
  BY <1>5, KeepsOK, BlockKeeps
<1> QED BY <1>1, <1>5, <1>6, KeepsTwice

\* pipe_cleanup_for_process takes p out of all queues.
LEMMA CleanupKeeps ==
  ASSUME NEW a, Sane(a), NEW p \in Procs
  PROVE  Keeps(a, pipe_cleanup_for_process(a, p))
<1> DEFINE t == [i \in Pipes |-> IF a.pipe_table[i].in_use THEN leave_queues(a.pipe_table[i], p)
                                 ELSE a.pipe_table[i]]
<1>1. pipe_cleanup_for_process(a, p) = [a EXCEPT !.pipe_table = t]
  BY DEF pipe_cleanup_for_process
<1>2. ASSUME NEW i \in Pipes PROVE leave_queues(a.pipe_table[i], p) \in PipeRecord
  <2> DEFINE q == a.pipe_table[i]
             r == queue_remove_pid(q.wait_readers, p)
             w == queue_remove_pid(q.wait_writers, p)
  <2>1. q \in PipeRecord /\ q.wait_readers \in Seq(Procs) /\ q.wait_writers \in Seq(Procs)
    BY PipeAt, PipeFields
  <2>2. r \in Seq(Procs) /\ w \in Seq(Procs)
    BY <2>1, QueueRemove
  <2>3. leave_queues(q, p) = [q EXCEPT !.wait_readers = r, !.wait_writers = w]
    BY DEF leave_queues
  <2> HIDE DEF q, r, w
  <2>4. leave_queues(q, p) \in PipeRecord
    BY <2>1, <2>2, <2>3 DEF PipeRecord
  <2> QED BY <2>4 DEF q
<1>3. t \in [Pipes -> PipeRecord]
  BY <1>2, PipeAt
<1> HIDE DEF t
<1> QED BY <1>1, <1>3 DEF Keeps, Sane, DataOK, SameAlive, ShellKernel

\* pipe_maybe_free gives back a pipe without ends.
LEMMA MaybeFreeKeeps ==
  ASSUME NEW a, Sane(a), NEW i \in Pipes
  PROVE  Keeps(a, pipe_maybe_free(a, i))
<1> DEFINE q == a.pipe_table[i]
           u == [pipe_reset(q) EXCEPT !.in_use = FALSE]
<1>1. pipe_maybe_free(a, i) = IF q.open_read = 0 /\ q.open_write = 0 THEN PipeIn(a, i, u) ELSE a
  BY DEF pipe_maybe_free, PipeIn
<1>2. u \in PipeRecord
  BY PipeAt, PipeFields, FreePipeType DEF pipe_reset, PipeRecord
<1> HIDE DEF u, q
<1>3. Keeps(a, PipeIn(a, i, u)) /\ Keeps(a, a)
  BY <1>2, PipeInKeeps, KeepsSame
<1> QED BY <1>1, <1>3

\* pipe_open_read and pipe_open_write count an end more.
LEMMA OpenKeeps ==
  ASSUME NEW a, Sane(a), NEW i \in Pipes
  PROVE  Keeps(a, pipe_open_read(a, i)) /\ Keeps(a, pipe_open_write(a, i))
<1> DEFINE q == a.pipe_table[i]
           u == [q EXCEPT !.open_read = @ + 1]
           v == [q EXCEPT !.open_write = @ + 1]
           w == [v EXCEPT !.eof = FALSE]
<1>1. q \in PipeRecord /\ q.open_read + 1 \in Nat /\ q.open_write + 1 \in Nat
  BY PipeAt, PipeFields
<1>2. u \in PipeRecord /\ v \in PipeRecord
  BY <1>1, PipeWrites
<1>3. w \in PipeRecord
  BY <1>2, PipeWrites
<1>4. pipe_open_read(a, i) = IF is_named(PipeIn(a, i, u).pipe_table[i])
                             THEN pipe_wake_all_writers(PipeIn(a, i, u), i) ELSE PipeIn(a, i, u)
  BY DEF pipe_open_read, PipeIn
<1>5. pipe_open_write(a, i) =
        IF is_named(PipeIn(a, i, v).pipe_table[i])
        THEN pipe_wake_all_readers([PipeIn(a, i, v) EXCEPT !.pipe_table[i].eof = FALSE], i)
        ELSE PipeIn(a, i, v)
  BY DEF pipe_open_write, PipeIn
<1>6. /\ Keeps(a, PipeIn(a, i, u)) /\ Keeps(a, PipeIn(a, i, v))
      /\ PipeIn(a, i, v).pipe_table[i] = v
  BY <1>2, PipeInKeeps
<1> HIDE DEF u, v
<1> DEFINE c == PipeIn(a, i, v)
           e == PipeIn(c, i, w)
<1>7. [c EXCEPT !.pipe_table[i].eof = FALSE] = e
  BY <1>6 DEF PipeIn
<1> HIDE DEF w
<1>8. Keeps(c, e)
  BY <1>3, <1>6, KeepsOK, PipeInKeeps
<1> HIDE DEF e
<1>9. Keeps(e, pipe_wake_all_readers(e, i))
  BY <1>8, KeepsOK, WakeAllKeeps
<1>10. Keeps(PipeIn(a, i, u), pipe_wake_all_writers(PipeIn(a, i, u), i))
  BY <1>6, KeepsOK, WakeAllKeeps
<1>11. Keeps(a, pipe_open_read(a, i))
  BY <1>4, <1>6, <1>10, KeepsTwice
<1>12. Keeps(a, pipe_open_write(a, i))
  BY <1>5, <1>6, <1>7, <1>8, <1>9, KeepsTwice
<1> QED BY <1>11, <1>12

\* pipe_close_read counts an end less, and wakes the writers when it was the last.
LEMMA CloseReadKeeps ==
  ASSUME NEW a, Sane(a), NEW i \in Pipes
  PROVE  Keeps(a, pipe_close_read(a, i))
<1> DEFINE q == a.pipe_table[i]
           u == [q EXCEPT !.open_read = IF @ > 0 THEN @ - 1 ELSE @]
           b == PipeIn(a, i, u)
           c == IF b.pipe_table[i].open_read = 0 THEN pipe_wake_all_writers(b, i) ELSE b
<1>1. pipe_close_read(a, i) = pipe_maybe_free(c, i)
  BY DEF pipe_close_read, PipeIn
<1>2. q \in PipeRecord /\ (IF q.open_read > 0 THEN q.open_read - 1 ELSE q.open_read) \in Nat
  BY PipeAt, PipeFields
<1>3. u \in PipeRecord
  BY <1>2, PipeWrites
<1> HIDE DEF u
<1>4. Keeps(a, b)
  BY <1>3, PipeInKeeps
<1> HIDE DEF b
<1>5. Keeps(b, b) /\ Keeps(b, pipe_wake_all_writers(b, i))
  BY <1>4, KeepsOK, KeepsSame, WakeAllKeeps
<1>6. Keeps(b, c)
  BY <1>5
<1> HIDE DEF c
<1>7. Keeps(c, pipe_maybe_free(c, i))
  BY <1>6, KeepsOK, MaybeFreeKeeps
<1> QED BY <1>1, <1>4, <1>6, <1>7, KeepsTwice

\* pipe_close_write does the same for writers, and remembers the end of a named pipe.
LEMMA CloseWriteKeeps ==
  ASSUME NEW a, Sane(a), NEW i \in Pipes
  PROVE  Keeps(a, pipe_close_write(a, i))
<1> DEFINE q == a.pipe_table[i]
           u == [q EXCEPT !.open_write = IF @ > 0 THEN @ - 1 ELSE @]
           b == [a EXCEPT !.pipe_table[i].open_write = IF @ > 0 THEN @ - 1 ELSE @]
           r == b.pipe_table[i]
           d == [b EXCEPT !.pipe_table[i].eof = @ \/ (is_named(r) /\ r.opens >= 2)]
           c == IF r.open_write = 0 THEN pipe_wake_all_readers(d, i) ELSE b
<1>1. q \in PipeRecord /\ (IF q.open_write > 0 THEN q.open_write - 1 ELSE q.open_write) \in Nat
  BY PipeAt, PipeFields
<1>2. u \in PipeRecord
  BY <1>1, PipeWrites
<1>3. pipe_close_write(a, i) = pipe_maybe_free(c, i)
  BY DEF pipe_close_write
<1>4. b = PipeIn(a, i, u)
  BY DEF PipeIn
<1> HIDE DEF u, b
<1>5. Keeps(a, b)
  BY <1>2, <1>4, PipeInKeeps
<1> DEFINE e == r.eof \/ (is_named(r) /\ r.opens >= 2)
           v == [r EXCEPT !.eof = e]
<1>6. d = PipeIn(b, i, v)
  BY DEF PipeIn
<1>7. r \in PipeRecord
  BY <1>5, KeepsOK, PipeAt
<1> HIDE DEF d, r
<1>8. e \in BOOLEAN
  BY <1>7, PipeFields
<1>9. v \in PipeRecord
  BY <1>7, <1>8, PipeWrites
<1> HIDE DEF v, e
<1>10. Keeps(b, d)
  BY <1>5, <1>6, <1>9, KeepsOK, PipeInKeeps
<1>11. Keeps(b, b) /\ Keeps(d, pipe_wake_all_readers(d, i))
  BY <1>5, <1>10, KeepsOK, KeepsSame, WakeAllKeeps
<1>12. Keeps(b, c)
  BY <1>10, <1>11, KeepsTwice
<1> HIDE DEF c
<1>13. Keeps(c, pipe_maybe_free(c, i))
  BY <1>12, KeepsOK, MaybeFreeKeeps
<1> QED BY <1>3, <1>5, <1>12, <1>13, KeepsTwice

\* The least of two numbers.
LEMMA MinOfTwo ==
  ASSUME NEW x \in Nat, NEW y \in Nat
  PROVE  Min({x, y}) \in 0 .. x /\ Min({x, y}) \in 0 .. y
<1>1. Min({x, y}) \in {x, y} /\ \A z \in {x, y} : Min({x, y}) <= z
  BY MinOfNat
<1> QED BY <1>1

\* pipe_read takes bytes and wakes a writer, or puts the caller to sleep.
LEMMA ReadKeeps ==
  ASSUME NEW a, Sane(a), NEW i \in Pipes, NEW p \in Procs, NEW n \in Nat
  PROVE  Keeps(a, pipe_read(a, i, p, n).k) /\ pipe_read(a, i, p, n).ret \in Int
<1> DEFINE q == a.pipe_table[i]
           m == Min({n, q.count})
           u == take_bytes(q, m)
           b == PipeIn(a, i, u)
<1>1. pipe_read(a, i, p, n) =
        IF n = 0 THEN [k |-> a, ret |-> 0]
        ELSE IF q.count > 0 THEN [k |-> pipe_wake_writer(b, i), ret |-> m]
        ELSE IF at_eof(q) THEN [k |-> a, ret |-> 0]
        ELSE [k |-> sleep_reader(a, i, p), ret |-> -1]
  BY DEF pipe_read, PipeIn, BLOCKED_CALL
<1>2. q \in PipeRecord /\ q.count \in Nat
  BY PipeAt, PipeFields
<1>3. m \in 0 .. q.count
  BY <1>2, MinOfTwo
<1> HIDE DEF m
<1>4. u \in PipeRecord
  BY <1>2, <1>3, TakeType
<1> HIDE DEF u
<1>5. Keeps(a, b)
  BY <1>4, PipeInKeeps
<1> HIDE DEF b
<1>6. Keeps(b, pipe_wake_writer(b, i))
  BY <1>5, KeepsOK, WakeKeeps
<1>7. Keeps(a, pipe_wake_writer(b, i)) /\ Keeps(a, a) /\ Keeps(a, sleep_reader(a, i, p))
  BY <1>5, <1>6, KeepsTwice, KeepsSame, SleepKeeps
<1> HIDE DEF q
<1> QED BY <1>1, <1>3, <1>7

\* pipe_write puts bytes and wakes a reader, or puts the caller to sleep.
LEMMA WriteKeeps ==
  ASSUME NEW a, Sane(a), NEW i \in Pipes, NEW p \in Procs, NEW n \in Nat
  PROVE  Keeps(a, pipe_write(a, i, p, n).k)
<1> DEFINE q == a.pipe_table[i]
           m == Min({n, PIPE_BUFFER_SIZE - q.count})
           u == put_bytes(q, m)
           b == PipeIn(a, i, u)
<1>1. pipe_write(a, i, p, n) =
        IF n = 0 \/ (q.open_read = 0 /\ (~is_named(q) \/ q.eof)) THEN [k |-> a, ret |-> 0]
        ELSE IF q.open_read = 0 \/ q.count >= PIPE_BUFFER_SIZE
        THEN [k |-> sleep_writer(a, i, p), ret |-> BLOCKED_CALL]
        ELSE [k |-> pipe_wake_reader(b, i), ret |-> m]
  BY DEF pipe_write, PipeIn
<1>2. q \in PipeRecord /\ PIPE_BUFFER_SIZE - q.count \in Nat
  BY PipeAt, PipeFields, PipeAssumption
<1>3. m \in 0 .. PIPE_BUFFER_SIZE - q.count
  BY <1>2, MinOfTwo
<1> HIDE DEF m
<1>4. u \in PipeRecord
  BY <1>2, <1>3, PutType
<1> HIDE DEF u
<1>5. Keeps(a, b)
  BY <1>4, PipeInKeeps
<1> HIDE DEF b
<1>6. Keeps(b, pipe_wake_reader(b, i))
  BY <1>5, KeepsOK, WakeKeeps
<1>7. Keeps(a, pipe_wake_reader(b, i)) /\ Keeps(a, a) /\ Keeps(a, sleep_writer(a, i, p))
  BY <1>5, <1>6, KeepsTwice, KeepsSame, SleepKeeps
<1> HIDE DEF q
<1> QED BY <1>1, <1>7

\* pipe_open finds a free pipe, or none.
LEMMA PipeOpenKeeps ==
  ASSUME NEW a, Sane(a)
  PROVE  LET o == pipe_open(a, Anonymous)
         IN  o.pipe # NULL => o.pipe \in Pipes /\ Keeps(a, o.k)
<1> DEFINE o == pipe_open(a, Anonymous)
           free == {i \in Pipes : ~a.pipe_table[i].in_use}
           i == Min(free)
           u == [pipe_reset(a.pipe_table[i]) EXCEPT !.in_use = TRUE, !.name = Anonymous, !.opens = 0]
<1>1. o = IF free # {} THEN [pipe |-> i, k |-> PipeIn(a, i, u)] ELSE [pipe |-> NULL, k |-> a]
  <2>1. {m \in Pipes : a.pipe_table[m].in_use /\ Anonymous # Anonymous
                         /\ a.pipe_table[m].name = Anonymous} = {}
    OBVIOUS
  <2> QED BY <2>1 DEF pipe_open, PipeIn
<1>2. ASSUME free # {} PROVE i \in Pipes
  <2>1. free \in SUBSET Nat
    BY DEF Pipes
  <2> QED BY <1>2, <2>1, MinOfNat
<1> HIDE DEF free, i
<1>3. u \in PipeRecord
  <2>1. u = [FreePipe EXCEPT !.in_use = TRUE, !.name = Anonymous, !.opens = 0]
    BY DEF pipe_reset, FreePipe
  <2> HIDE DEF u
  <2>2. ASSUME NEW q \in PipeRecord, NEW e \in BOOLEAN, NEW m \in Names \cup {Anonymous},
               NEW n \in 0 .. MaxOpens
        PROVE  [q EXCEPT !.in_use = e, !.name = m, !.opens = n] \in PipeRecord
    BY ONLY q \in PipeRecord, e \in BOOLEAN, m \in Names \cup {Anonymous}, n \in 0 .. MaxOpens
       DEF PipeRecord
  <2>3. 0 \in 0 .. MaxOpens /\ Anonymous \in Names \cup {Anonymous} /\ TRUE \in BOOLEAN
    BY DEF MaxOpens
  <2> QED BY <2>1, <2>2, <2>3, FreePipeType
<1> HIDE DEF u
<1>4. ASSUME free # {} PROVE Keeps(a, PipeIn(a, i, u))
  BY <1>2, <1>3, <1>4, PipeInKeeps
<1> QED BY <1>1, <1>2, <1>4

(***************************************************************************)
(* Descriptors                                                             *)
(***************************************************************************)
\* A descriptor in a sane state.
LEMMA FDAt ==
  ASSUME NEW a, Sane(a), NEW f \in FDs
  PROVE  /\ a.fd_table[f] \in FDRecord /\ a.fd_table[f].refcount \in Nat
         /\ a.fd_table[f].type \in {"PIPE_READ", "PIPE_WRITE"} => a.fd_table[f].data \in Pipes
<1>1. a.fd_table[f] \in FDRecord
  BY ShellFields DEF Sane
<1> QED BY <1>1 DEF FDRecord, Sane, DataOK

\* The references to a descriptor are counted anew.
LEMMA RecountKeeps ==
  ASSUME NEW a, Sane(a), NEW f \in FDs, NEW n \in Nat
  PROVE  Keeps(a, [a EXCEPT !.fd_table[f].refcount = n])
<1> DEFINE d == [a.fd_table[f] EXCEPT !.refcount = n]
<1>1. /\ d \in FDRecord
      /\ d.type \in {"PIPE_READ", "PIPE_WRITE"} => d.data \in Pipes
  BY FDAt DEF FDRecord
<1>2. [a EXCEPT !.fd_table[f].refcount = n] = FDIn(a, f, d)
  BY DEF FDIn
<1> HIDE DEF d
<1> QED BY <1>1, <1>2, FDInKeeps

\* fd_incref counts a reference more, at the descriptor and its pipe.
LEMMA IncrefKeeps ==
  ASSUME NEW a, Sane(a), NEW f \in FDs
  PROVE  Keeps(a, fd_incref(a, f))
<1> DEFINE d == a.fd_table[f]
           b == [a EXCEPT !.fd_table[f].refcount = @ + 1]
<1>1. CASE ~fd_valid(a, f)
  <2>1. d.type = "NONE"
    BY <1>1 DEF fd_valid
  <2>2. fd_incref(a, f) = a
    BY <1>1, <2>1 DEF fd_incref
  <2> QED BY <2>2, KeepsSame
<1>2. CASE fd_valid(a, f)
  <2>1. f \in FDs
    BY <1>2 DEF fd_valid
  <2>2. d.refcount + 1 \in Nat /\ (d.type \in {"PIPE_READ", "PIPE_WRITE"} => d.data \in Pipes)
    BY <2>1, FDAt
  <2>3. Keeps(a, b)
    BY <2>1, <2>2, RecountKeeps
  <2>4. fd_incref(a, f) = CASE d.type = "PIPE_READ" -> pipe_open_read(b, d.data)
                            [] d.type = "PIPE_WRITE" -> pipe_open_write(b, d.data)
                            [] OTHER -> b
    BY <1>2 DEF fd_incref
  <2> HIDE DEF b, d
  <2>5. CASE d.type = "PIPE_READ"
    <3>1. Keeps(b, pipe_open_read(b, d.data))
      BY <2>2, <2>3, <2>5, KeepsOK, OpenKeeps
    <3> QED BY <2>3, <2>4, <2>5, <3>1, KeepsTwice
  <2>6. CASE d.type = "PIPE_WRITE"
    <3>1. Keeps(b, pipe_open_write(b, d.data))
      BY <2>2, <2>3, <2>6, KeepsOK, OpenKeeps
    <3> QED BY <2>3, <2>4, <2>6, <3>1, KeepsTwice
  <2>7. CASE d.type \notin {"PIPE_READ", "PIPE_WRITE"}
    BY <2>3, <2>4, <2>7
  <2> QED BY <2>5, <2>6, <2>7
<1> QED BY <1>1, <1>2

\* The pipe learns of it when a reference goes.
LEMMA CloseEndKeeps ==
  ASSUME NEW a, Sane(a), NEW d, d.type \in {"PIPE_READ", "PIPE_WRITE"} => d.data \in Pipes
  PROVE  Keeps(a, close_end(a, d))
<1>1. CASE d.type = "PIPE_READ"
  <2>1. close_end(a, d) = pipe_close_read(a, d.data)
    BY <1>1 DEF close_end
  <2> QED BY <1>1, <2>1, CloseReadKeeps
<1>2. CASE d.type = "PIPE_WRITE"
  <2>1. close_end(a, d) = pipe_close_write(a, d.data)
    BY <1>2 DEF close_end
  <2> QED BY <1>2, <2>1, CloseWriteKeeps
<1>3. CASE d.type \notin {"PIPE_READ", "PIPE_WRITE"}
  <2>1. close_end(a, d) = a
    BY <1>3 DEF close_end
  <2> QED BY <2>1, KeepsSame
<1> QED BY <1>1, <1>2, <1>3

\* fd_decref counts a reference less, and frees a descriptor without references.
LEMMA DecrefKeeps ==
  ASSUME NEW a, Sane(a), NEW f
  PROVE  Keeps(a, fd_decref(a, f))
<1> DEFINE d == a.fd_table[f]
           b == [a EXCEPT !.fd_table[f].refcount = @ - 1]
           c == IF d.refcount > 0 THEN close_end(b, d) ELSE a
           e == [c.fd_table[f] EXCEPT !.type = "NONE", !.data = NULL]
<1>1. CASE ~fd_valid(a, f)
  BY <1>1, KeepsSame DEF fd_decref
<1>2. CASE fd_valid(a, f)
  <2>1. f \in FDs
    BY <1>2 DEF fd_valid
  <2>2. d.refcount \in Nat /\ (d.type \in {"PIPE_READ", "PIPE_WRITE"} => d.data \in Pipes)
    BY <2>1, FDAt
  <2>3. ASSUME d.refcount > 0 PROVE Keeps(a, close_end(b, d))
    <3>1. d.refcount - 1 \in Nat
      BY <2>2, <2>3
    <3>2. Keeps(a, b)
      BY <2>1, <3>1, RecountKeeps
    <3> HIDE DEF b, d
    <3>3. Keeps(b, close_end(b, d))
      BY <2>2, <3>2, KeepsOK, CloseEndKeeps
    <3> QED BY <3>2, <3>3, KeepsTwice
  <2>4. fd_decref(a, f) = IF c.fd_table[f].refcount > 0 \/ d.type = "TERMINAL" THEN c
                          ELSE [c EXCEPT !.fd_table[f] = [@ EXCEPT !.type = "NONE", !.data = NULL]]
    BY <1>2 DEF fd_decref
  <2>5. Keeps(a, c)
    BY <2>3, KeepsSame
  <2> HIDE DEF c, d
  <2>6. [c EXCEPT !.fd_table[f] = [@ EXCEPT !.type = "NONE", !.data = NULL]] = FDIn(c, f, e)
    BY DEF FDIn
  <2>7. Sane(c)
    BY <2>5, KeepsOK
  <2>8. e \in FDRecord /\ e.type = "NONE"
    BY <2>1, <2>7, FDAt DEF FDRecord
  <2> HIDE DEF e
  <2>9. Keeps(c, FDIn(c, f, e))
    BY <2>1, <2>7, <2>8, FDInKeeps
  <2> QED BY <2>4, <2>5, <2>6, <2>9, KeepsTwice
<1> QED BY <1>1, <1>2

\* fd_create_pipe takes a free descriptor, or finds none.
LEMMA CreatePipeKeeps ==
  ASSUME NEW a, Sane(a), NEW i \in Pipes, NEW type \in {"PIPE_READ", "PIPE_WRITE"}
  PROVE  LET r == fd_create_pipe(a, i, type)
         IN  Keeps(a, r.k) /\ (r.fd # NoFD => r.fd \in FDs)
<1> DEFINE r == fd_create_pipe(a, i, type)
           free == {f \in FDs : a.fd_table[f].type = "NONE"}
           f == Min(free)
           d == [type |-> type, refcount |-> 0, data |-> i]
           b == FDIn(a, f, d)
<1>1. r = IF free = {} THEN [fd |-> NoFD, k |-> a] ELSE [fd |-> f, k |-> fd_incref(b, f)]
  BY DEF fd_create_pipe, FDIn
<1>2. ASSUME free # {} PROVE f \in FDs
  <2>1. free \in SUBSET Nat
    BY FDAssumption DEF FDs
  <2> QED BY <1>2, <2>1, MinOfNat
<1> HIDE DEF free, f
<1>3. d \in FDRecord /\ (d.type \in {"PIPE_READ", "PIPE_WRITE"} => d.data \in Pipes)
  BY DEF FDRecord
<1> HIDE DEF d
<1>4. ASSUME free # {} PROVE Keeps(a, fd_incref(b, f))
  <2>1. Keeps(a, b)
    BY <1>2, <1>3, <1>4, FDInKeeps
  <2> HIDE DEF b
  <2>2. Keeps(b, fd_incref(b, f))
    BY <1>2, <1>4, <2>1, KeepsOK, IncrefKeeps
  <2> QED BY <2>1, <2>2, KeepsTwice
<1>5. Keeps(a, a)
  BY KeepsSame
<1> QED BY <1>1, <1>2, <1>4, <1>5

\* sys_pipe gives two descriptors, or none.
LEMMA SysPipeKeeps ==
  ASSUME NEW a, Sane(a)
  PROVE  LET r == sys_pipe(a, Anonymous)
         IN  Keeps(a, r.k) /\ r.fds \in {<<>>} \cup (FDs \X FDs)
<1> DEFINE s == sys_pipe(a, Anonymous)
           o == pipe_open(a, Anonymous)
           r == fd_create_pipe(o.k, o.pipe, "PIPE_READ")
           w == fd_create_pipe(r.k, o.pipe, "PIPE_WRITE")
           g == pipe_create_fds(o.k, o.pipe)
<1>1. s = IF o.pipe = NULL THEN [k |-> a, fds |-> <<>>] ELSE g
  BY DEF sys_pipe
<1>2. g = IF r.fd = NoFD THEN [k |-> o.k, fds |-> <<>>]
          ELSE IF w.fd = NoFD THEN [k |-> fd_decref(r.k, r.fd), fds |-> <<>>]
          ELSE [k |-> w.k, fds |-> <<r.fd, w.fd>>]
  BY DEF pipe_create_fds
<1>3. CASE o.pipe = NULL
  BY <1>1, <1>3, KeepsSame
<1>4. CASE o.pipe # NULL
  <2>1. o.pipe \in Pipes /\ Keeps(a, o.k)
    BY <1>4, PipeOpenKeeps
  <2> HIDE DEF o
  <2>2. Sane(o.k) /\ "PIPE_READ" \in {"PIPE_READ", "PIPE_WRITE"}
    BY <2>1, KeepsOK
  <2>3. Keeps(o.k, r.k) /\ (r.fd # NoFD => r.fd \in FDs)
    BY <2>1, <2>2, CreatePipeKeeps
  <2> HIDE DEF r
  <2>4. Sane(r.k) /\ "PIPE_WRITE" \in {"PIPE_READ", "PIPE_WRITE"} /\ Keeps(a, r.k)
    BY <2>1, <2>3, KeepsOK, KeepsTwice
  <2>5. Keeps(r.k, w.k) /\ (w.fd # NoFD => w.fd \in FDs)
    BY <2>1, <2>4, CreatePipeKeeps
  <2> HIDE DEF w
  <2>6. Keeps(a, w.k) /\ Keeps(a, fd_decref(r.k, r.fd))
    BY <2>4, <2>5, KeepsTwice, DecrefKeeps
  <2> HIDE DEF g
  <2>7. s = g
    BY <1>1, <1>4
  <2> HIDE DEF s
  <2> QED BY <1>2, <2>1, <2>3, <2>5, <2>6, <2>7 DEF s
<1> QED BY <1>3, <1>4

(***************************************************************************)
(* Processes come and go                                                   *)
(***************************************************************************)
\* process_pipe_setup redirects a child.
LEMMA SetupKeeps ==
  ASSUME NEW a, Sane(a), NEW p \in Procs, NEW f \in FDs, NEW s \in 0 .. 1
  PROVE  Keeps(a, process_pipe_setup(a, p, f, s))
<1> DEFINE b == IF a.fd[p][s] >= 0 THEN fd_decref(a, a.fd[p][s]) ELSE a
           c == [b EXCEPT !.fd[p][s] = f]
<1>1. process_pipe_setup(a, p, f, s) = IF a.state[p] = "FREE" THEN a ELSE fd_incref(c, f)
  BY DEF process_pipe_setup
<1>2. Keeps(a, b) /\ Keeps(a, a)
  BY DecrefKeeps, KeepsSame
<1> HIDE DEF b
<1>3. Sane(b) /\ b.fd \in [Procs -> [0 .. 1 -> FDs \cup {NoFD}]]
  BY <1>2, KeepsOK, ShellFields DEF Sane
<1> DEFINE fd == [b.fd EXCEPT ![p][s] = f]
<1>4. c = FDsIn(b, fd)
  BY DEF FDsIn
<1>5. fd \in [Procs -> [0 .. 1 -> FDs \cup {NoFD}]]
  BY <1>3
<1> HIDE DEF fd, c
<1>6. Keeps(b, c)
  BY <1>3, <1>4, <1>5, FDsInKeeps
<1>7. Keeps(c, fd_incref(c, f))
  BY <1>6, KeepsOK, IncrefKeeps
<1> QED BY <1>1, <1>2, <1>6, <1>7, KeepsTwice

\* process_release_fds lets go of both descriptors of a PCB.
LEMMA ReleaseKeeps ==
  ASSUME NEW a, Sane(a), NEW p \in Procs
  PROVE  Keeps(a, process_release_fds(a, p))
<1> DEFINE b == IF a.fd[p][0] >= 0 THEN fd_decref(a, a.fd[p][0]) ELSE a
           c == IF a.fd[p][1] >= 0 THEN fd_decref(b, a.fd[p][1]) ELSE b
           e == [c EXCEPT !.fd[p] = [s \in 0 .. 1 |-> NoFD]]
<1>1. process_release_fds(a, p) = e
  BY DEF process_release_fds
<1>2. Keeps(a, b)
  BY DecrefKeeps, KeepsSame
<1> HIDE DEF b
<1>3. Keeps(b, c)
  BY <1>2, KeepsOK, DecrefKeeps, KeepsSame
<1> HIDE DEF c
<1>4. Sane(c) /\ c.fd \in [Procs -> [0 .. 1 -> FDs \cup {NoFD}]]
  BY <1>3, KeepsOK, ShellFields DEF Sane
<1> DEFINE fd == [c.fd EXCEPT ![p] = [s \in 0 .. 1 |-> NoFD]]
<1>5. e = FDsIn(c, fd)
  BY DEF FDsIn
<1>6. fd \in [Procs -> [0 .. 1 -> FDs \cup {NoFD}]]
  BY <1>4
<1> HIDE DEF fd, e
<1>7. Keeps(c, e)
  BY <1>4, <1>5, <1>6, FDsInKeeps
<1> QED BY <1>1, <1>2, <1>3, <1>7, KeepsTwice

\* From a to b the terminal is left alone, and no process but p starts or ends.
Turns(a, b, p) ==
  /\ Sane(b)
  /\ b.buff = a.buff /\ b.tty = a.tty /\ b.kbd_waiting_process = a.kbd_waiting_process
  /\ b.foreground = a.foreground /\ b.born = a.born
  /\ \A x \in Procs \ {p} : b.state[x] = "FREE" <=> a.state[x] = "FREE"

\* The state of one process is written.
StateAt(a, p, st) == [a EXCEPT !.state[p] = st]

\* A process gets or loses its slot.
LEMMA StateInTurns ==
  ASSUME NEW a, Sane(a), NEW p \in Procs, NEW st \in {"FREE", "READY", "BLOCKED"}
  PROVE  Turns(a, StateAt(a, p, st), p) /\ StateAt(a, p, st).state[p] = st
<1> DEFINE b == StateAt(a, p, st)
<1>1. a.state \in [Procs -> {"FREE", "READY", "BLOCKED"}]
  BY ShellFields DEF Sane
<1>2. /\ b \in ShellKernel /\ b.fd_table = a.fd_table
      /\ b.buff = a.buff /\ b.tty = a.tty /\ b.kbd_waiting_process = a.kbd_waiting_process
      /\ b.foreground = a.foreground /\ b.waiting_for = a.waiting_for /\ b.born = a.born
      /\ b.state = [a.state EXCEPT ![p] = st]
  BY DEF Sane, ShellKernel, StateAt
<1> HIDE DEF b
<1>3. Turns(a, b, p) /\ b.state[p] = st
  BY <1>1, <1>2 DEF Turns, Sane, DataOK
<1> QED BY <1>3 DEF b

\* process_exit and process_kill, as far as pipes and descriptors go.
LEMMA EndsTurns ==
  ASSUME NEW a, Sane(a), NEW p \in Procs
  PROVE  Turns(a, process_ends(a, p), p) /\ process_ends(a, p).state[p] = "FREE"
<1> DEFINE b == pipe_cleanup_for_process(a, p)
           c == process_release_fds(b, p)
<1>1. process_ends(a, p) = StateAt(c, p, "FREE")
  BY DEF process_ends, StateAt
<1>2. Keeps(a, b)
  BY CleanupKeeps
<1> HIDE DEF b
<1>3. Keeps(b, c)
  BY <1>2, KeepsOK, ReleaseKeeps
<1> HIDE DEF c
<1>4. Keeps(a, c) /\ Sane(c)
  BY <1>2, <1>3, KeepsTwice, KeepsOK
<1> DEFINE e == StateAt(c, p, "FREE")
<1>5. Turns(c, e, p) /\ e.state[p] = "FREE"
  BY <1>4, StateInTurns
<1> HIDE DEF e
<1>6. Turns(a, e, p)
  BY <1>4, <1>5 DEF Turns, Keeps, SameAlive
<1> QED BY <1>1, <1>5, <1>6 DEF e

\* process_create, as far as descriptors go.
LEMMA CreateTurns ==
  ASSUME NEW a, Sane(a), NEW p \in Procs, NEW asleep
  PROVE  Turns(a, create_fds(a, p, asleep), p) /\ create_fds(a, p, asleep).state[p] # "FREE"
<1> DEFINE st == IF asleep THEN "BLOCKED" ELSE "READY"
           b == StateAt(a, p, st)
           fd == [b.fd EXCEPT ![p] = [s \in 0 .. 1 |-> s]]
           c == FDsIn(b, fd)
           d == fd_incref(c, FD_STDIN)
           e == fd_incref(d, FD_STDOUT)
<1>1. create_fds(a, p, asleep) = e
  BY DEF create_fds, FDsIn, StateAt
<1>2. st \in {"FREE", "READY", "BLOCKED"} /\ st # "FREE" /\ FD_STDIN \in FDs /\ FD_STDOUT \in FDs
  BY FDAssumption DEF FDs, FD_STDIN, FD_STDOUT
<1> HIDE DEF st
<1>3. Turns(a, b, p) /\ b.state[p] = st
  BY <1>2, StateInTurns
<1> HIDE DEF b
<1>4. Sane(b) /\ b.fd \in [Procs -> [0 .. 1 -> FDs \cup {NoFD}]]
  BY <1>3, ShellFields DEF Turns, Sane
<1>5. fd \in [Procs -> [0 .. 1 -> FDs \cup {NoFD}]]
  BY <1>2, <1>4 DEF FD_STDIN, FD_STDOUT
<1> HIDE DEF fd
<1>6. Keeps(b, c)
  BY <1>4, <1>5, FDsInKeeps
<1> HIDE DEF c
<1>7. Keeps(c, d)
  BY <1>2, <1>6, KeepsOK, IncrefKeeps
<1> HIDE DEF d
<1>8. Keeps(d, e)
  BY <1>2, <1>7, KeepsOK, IncrefKeeps
<1> HIDE DEF e
<1>9. Keeps(b, e) /\ Sane(e)
  BY <1>6, <1>7, <1>8, KeepsTwice, KeepsOK
<1>10. Turns(a, e, p) /\ e.state[p] # "FREE"
  BY <1>2, <1>3, <1>9 DEF Turns, Keeps, SameAlive
<1> QED BY <1>1, <1>10

(***************************************************************************)
(* The terminal                                                            *)
(***************************************************************************)
\* The processes, and nobody else.
LEMMA ProcNames ==
  /\ Sh \in Procs /\ Nobody \notin Procs /\ Children \subseteq Procs /\ Sh \notin Children
  /\ Procs = Children \cup {Sh}
BY ShellAssumption DEF Sh, Left, Right, Single, Children, Nobody

\* What the driver has typed, and for whom: new keys t, new line y, new waiter w.
TermIn(a, t, y, w) == [a EXCEPT !.buff = t, !.tty = y, !.kbd_waiting_process = w]

Lines == [mode : {"RAW", "COOKED"}, line : Seq(Characters), line_ready : BOOLEAN, eof : BOOLEAN]

\* The driver writes its own state and leaves the rest alone.
LEMMA TermInOK ==
  ASSUME NEW a, KernelOK(a), NEW t \in Seq(Characters \cup {EndOfFile}), Len(t) <= BUFF_LENGTH,
         NEW y \in Lines, NEW w \in Procs \cup {Nobody}, LineOK(y, w),
         w # Nobody => a.state[w] # "FREE"
  PROVE  KernelOK(TermIn(a, t, y, w))
<1> DEFINE b == TermIn(a, t, y, w)
<1>1. /\ b \in ShellKernel /\ b.buff = t /\ b.tty = y /\ b.kbd_waiting_process = w
      /\ b.state = a.state /\ b.fd_table = a.fd_table /\ b.born = a.born
  BY DEF TermIn, KernelOK, ShellKernel, Lines
<1> HIDE DEF b
<1>2. KernelOK(b)
  BY <1>1 DEF KernelOK, DataOK, BornOK
<1> QED BY <1>2 DEF b

\* A process that is there changes its state.
LEMMA StateOK ==
  ASSUME NEW a, KernelOK(a), NEW p \in Procs, a.state[p] # "FREE", NEW st \in {"READY", "BLOCKED"}
  PROVE  KernelOK([a EXCEPT !.state[p] = st])
<1> DEFINE u == [a.state EXCEPT ![p] = st]
<1>1. Sane(a) /\ a.state \in [Procs -> {"FREE", "READY", "BLOCKED"}]
  BY ShellFields DEF Sane, KernelOK
<1>2. u \in [Procs -> {"FREE", "READY", "BLOCKED"}] /\ \A x \in Procs : u[x] = "FREE" <=> a.state[x] = "FREE"
  BY <1>1
<1>3. [a EXCEPT !.state[p] = st] = StateIn(a, u)
  BY DEF StateIn
<1> HIDE DEF u
<1>4. Keeps(a, StateIn(a, u))
  BY <1>1, <1>2, StateInKeeps
<1> QED BY <1>3, <1>4, KeepsOK

\* The fields of the line being typed.
LEMMA LineFields ==
  ASSUME NEW a, KernelOK(a)
  PROVE  /\ a.tty \in Lines /\ a.tty.line \in Seq(Characters) /\ Len(a.tty.line) \in Nat
         /\ a.buff \in Seq(Characters \cup {EndOfFile}) /\ Len(a.buff) \in Nat
         /\ a.kbd_waiting_process \in Procs \cup {Nobody}
         /\ Len(a.buff) <= BUFF_LENGTH /\ LineOK(a.tty, a.kbd_waiting_process)
         /\ a.kbd_waiting_process # Nobody => a.state[a.kbd_waiting_process] # "FREE"
BY ShellFields DEF KernelOK, Lines

\* A new line, in either mode, is as it should be whoever waits.
LEMMA NewLineOK ==
  ASSUME NEW m \in {"RAW", "COOKED"}
  PROVE  NewLine(m) \in Lines /\ \A w : LineOK(NewLine(m), w)
<1>1. <<>> \in Seq(Characters) /\ Len(<<>>) = 0
  OBVIOUS
<1> QED BY <1>1, TerminalAssumption DEF NewLine, Lines, LineOK

\* tty_set_mode forgets the line.
LEMMA SetModeOK ==
  ASSUME NEW a, KernelOK(a), NEW m \in {"RAW", "COOKED"}
  PROVE  KernelOK(tty_set_mode(a, m))
<1>1. tty_set_mode(a, m) = TermIn(a, a.buff, NewLine(m), a.kbd_waiting_process)
  BY DEF tty_set_mode, TermIn, KernelOK, ShellKernel
<1> QED BY <1>1, LineFields, NewLineOK, TermInOK

\* wake_waiting, after the driver has put a key somewhere.
LEMMA WakeWaitingOK ==
  ASSUME NEW a, KernelOK(a), NEW t \in Seq(Characters \cup {EndOfFile}), Len(t) <= BUFF_LENGTH,
         NEW y \in Lines, LineOK(y, Nobody)
  PROVE  KernelOK(wake_waiting(TermIn(a, t, y, a.kbd_waiting_process)))
<1> DEFINE w == a.kbd_waiting_process
           b == TermIn(a, t, y, w)
           c == TermIn(a, t, y, Nobody)
<1>1. /\ b.kbd_waiting_process = w /\ b.state = a.state
      /\ c = [b EXCEPT !.kbd_waiting_process = Nobody]
      /\ c.state = a.state /\ (w = Nobody => b = c)
  BY DEF TermIn, KernelOK, ShellKernel
<1>2. KernelOK(c)
  BY TermInOK
<1>3. CASE w = Nobody
  BY <1>1, <1>2, <1>3 DEF wake_waiting
<1>4. CASE w # Nobody
  <2>1. w \in Procs /\ a.state[w] # "FREE"
    BY <1>4, LineFields
  <2>2. KernelOK([c EXCEPT !.state[w] = "READY"])
    BY <1>1, <1>2, <2>1, StateOK
  <2>3. wake_waiting(b) = [c EXCEPT !.state[w] = "READY"]
    BY <1>1, <1>4 DEF wake_waiting
  <2> QED BY <2>2, <2>3
<1> QED BY <1>3, <1>4

\* A key goes into the ring, for which the oldest may have to go.
LEMMA WriteBuffOK ==
  ASSUME NEW a, KernelOK(a), NEW c \in Characters \cup {EndOfFile}
  PROVE  KernelOK(wake_waiting(writeBuff(a, c)))
<1> DEFINE s == a.buff
           t == IF Len(s) < BUFF_LENGTH THEN Append(s, c) ELSE Append(Tail(s), c)
<1>1. s \in Seq(Characters \cup {EndOfFile}) /\ Len(s) \in Nat /\ Len(s) <= BUFF_LENGTH
  BY LineFields
<1>2. t \in Seq(Characters \cup {EndOfFile}) /\ Len(t) <= BUFF_LENGTH
  <2>1. CASE Len(s) < BUFF_LENGTH
    BY <1>1, <2>1, TerminalAssumption
  <2>2. CASE ~(Len(s) < BUFF_LENGTH)
    <3>1. Len(s) = BUFF_LENGTH /\ s # <<>>
      BY <1>1, <2>2, TerminalAssumption
    <3>2. Tail(s) \in Seq(Characters \cup {EndOfFile}) /\ Len(Tail(s)) = Len(s) - 1
      BY <1>1, <3>1
    <3>3. /\ Append(Tail(s), c) \in Seq(Characters \cup {EndOfFile})
          /\ Len(Append(Tail(s), c)) = Len(Tail(s)) + 1
      BY <3>2
    <3> QED BY <1>1, <2>2, <3>1, <3>2, <3>3
  <2> QED BY <2>1, <2>2
<1>3. writeBuff(a, c) = TermIn(a, t, a.tty, a.kbd_waiting_process)
  BY DEF writeBuff, TermIn, KernelOK, ShellKernel
<1>4. a.tty \in Lines /\ LineOK(a.tty, Nobody)
  BY LineFields DEF LineOK
<1> HIDE DEF t
<1> QED BY <1>2, <1>3, <1>4, WakeWaitingOK

\* The parts of a line are written.
LEMMA LineWrites ==
  ASSUME NEW y \in Lines
  PROVE  /\ y.line \in Seq(Characters) /\ y.line_ready \in BOOLEAN /\ y.mode \in {"RAW", "COOKED"}
         /\ \A s \in Seq(Characters) :
              LET z == [y EXCEPT !.line = s]
              IN  /\ z \in Lines /\ z.line = s
                  /\ z.line_ready = y.line_ready /\ z.mode = y.mode
         /\ \A e \in BOOLEAN :
              LET z == [y EXCEPT !.eof = e]
              IN  /\ z \in Lines /\ z.line = y.line
                  /\ z.line_ready = y.line_ready /\ z.mode = y.mode
         /\ \A e \in BOOLEAN :
              LET z == [y EXCEPT !.line_ready = e]
              IN  z \in Lines /\ z.line = y.line /\ z.line_ready = e /\ z.mode = y.mode
BY DEF Lines

\* The parts of the kernel that the driver writes.
LEMMA TermWrites ==
  ASSUME NEW a, KernelOK(a)
  PROVE  /\ \A y : [a EXCEPT !.tty = y] = TermIn(a, a.buff, y, a.kbd_waiting_process)
         /\ \A t : [a EXCEPT !.buff = t] = TermIn(a, t, a.tty, a.kbd_waiting_process)
BY DEF TermIn, KernelOK, ShellKernel

\* The text of the line is written, and whether it is complete.
TextIn(y, s, r) == [y EXCEPT !.line = s, !.line_ready = r]

\* What the line is then.
LEMMA TextInLines ==
  ASSUME NEW y \in Lines, NEW s \in Seq(Characters), NEW r \in BOOLEAN
  PROVE  LET z == TextIn(y, s, r)
         IN  z \in Lines /\ z.line = s /\ z.line_ready = r /\ z.mode = y.mode
BY DEF Lines, TextIn

\* A key while a line is being typed: there is room for it.
LEMMA LineCharOK ==
  ASSUME NEW a, KernelOK(a), edits_line(a), NEW c \in Characters
  PROVE  KernelOK(line_char(a, c))
<1> DEFINE s == a.tty.line
           w == a.kbd_waiting_process
           u == a.buff
<1>1. /\ a.tty \in Lines /\ s \in Seq(Characters) /\ Len(s) \in Nat
      /\ Len(s) <= TTY_LINE_SIZE - 1 /\ ~a.tty.line_ready /\ a.tty.mode = "COOKED"
      /\ w \in Procs \cup {Nobody} /\ (w # Nobody => a.state[w] # "FREE")
      /\ u \in Seq(Characters \cup {EndOfFile}) /\ Len(u) <= BUFF_LENGTH
      /\ TTY_LINE_SIZE \in Nat
  BY LineFields, TerminalAssumption DEF edits_line, LineOK
<1>a. FALSE \in BOOLEAN /\ TRUE \in BOOLEAN
  OBVIOUS
<1>2. CASE c = Newline
  <2> DEFINE r == Append(s, c)
             y == TextIn(a.tty, r, TRUE)
  <2>1. r \in Seq(Characters) /\ Len(r) = Len(s) + 1
    BY <1>1
  <2>2. line_char(a, c) = wake_waiting([a EXCEPT !.tty.line = r, !.tty.line_ready = TRUE])
    BY <1>2 DEF line_char, Newline, Backspace
  <2> HIDE DEF r
  <2>3. [a EXCEPT !.tty.line = r, !.tty.line_ready = TRUE] = TermIn(a, u, y, w)
    BY DEF TermIn, TextIn, KernelOK, ShellKernel
  <2>4. y \in Lines /\ y.line = r /\ y.line_ready = TRUE /\ y.mode = "COOKED"
    BY <1>1, <1>a, <2>1, TextInLines
  <2> HIDE DEF y
  <2>5. LineOK(y, Nobody)
    BY <1>1, <2>1, <2>4 DEF LineOK
  <2> HIDE DEF u
  <2>6. KernelOK(wake_waiting(TermIn(a, u, y, w)))
    BY <1>1, <2>4, <2>5, WakeWaitingOK
  <2> QED BY <2>2, <2>3, <2>6
<1>3. ASSUME NEW r \in Seq(Characters), Len(r) <= TTY_LINE_SIZE - 1
      PROVE  KernelOK([a EXCEPT !.tty.line = r])
  <2> DEFINE y == TextIn(a.tty, r, FALSE)
  <2>1. y \in Lines /\ y.line = r /\ y.line_ready = FALSE /\ y.mode = a.tty.mode
    BY <1>1, <1>a, TextInLines
  <2>2. [a EXCEPT !.tty.line = r] = TermIn(a, u, y, w)
    BY <1>1 DEF TermIn, TextIn, KernelOK, ShellKernel
  <2> HIDE DEF y
  <2>3. LineOK(y, w)
    <3>1. Len(r) \in Nat
      OBVIOUS
    <3> QED BY <1>1, <1>3, <2>1, <3>1 DEF LineOK
  <2> HIDE DEF u, w
  <2>4. KernelOK(TermIn(a, u, y, w))
    BY <1>1, <2>1, <2>3, TermInOK
  <2> QED BY <2>2, <2>4
<1>4. CASE c = Backspace
  <2> DEFINE r == IF s = <<>> THEN s ELSE Front(s)
  <2>1. r \in Seq(Characters) /\ Len(r) <= TTY_LINE_SIZE - 1
    <3>1. CASE s = <<>>
      BY <1>1, <3>1
    <3>2. CASE s # <<>>
      <4>1. Len(s) > 0
        BY <1>1, <3>2
      <4>2. Front(s) = SubSeq(s, 1, Len(s) - 1)
        BY DEF Front
      <4>3. SubSeq(s, 1, Len(s) - 1) \in Seq(Characters) /\ Len(SubSeq(s, 1, Len(s) - 1)) = Len(s) - 1
        BY <1>1, <4>1
      <4> QED BY <1>1, <3>2, <4>2, <4>3
    <3> QED BY <3>1, <3>2
  <2>2. line_char(a, c) = [a EXCEPT !.tty.line = r]
    BY <1>4 DEF line_char, Newline, Backspace
  <2> HIDE DEF r
  <2> QED BY <1>3, <2>1, <2>2
<1>5. CASE c \notin {Newline, Backspace}
  <2> DEFINE r == IF Len(s) < TTY_LINE_SIZE - 1 THEN Append(s, c) ELSE s
  <2>1. r \in Seq(Characters) /\ Len(r) <= TTY_LINE_SIZE - 1
    BY <1>1
  <2>2. line_char(a, c) = [a EXCEPT !.tty.line = r]
    BY <1>5 DEF line_char
  <2> HIDE DEF r
  <2> QED BY <1>3, <2>1, <2>2
<1> QED BY <1>2, <1>4, <1>5

\* Any key.
LEMMA PressOK ==
  ASSUME NEW a, KernelOK(a), NEW c \in Characters
  PROVE  KernelOK(press(a, c))
<1>1. CASE edits_line(a)
  BY <1>1, LineCharOK DEF press
<1>2. CASE ~edits_line(a)
  <2>1. c \in Characters \cup {EndOfFile}
    OBVIOUS
  <2> QED BY <1>2, <2>1, WriteBuffOK DEF press
<1> QED BY <1>1, <1>2

\* Ctrl+D ends a line, or the input.
LEMMA CtrlDOK ==
  ASSUME NEW a, KernelOK(a)
  PROVE  KernelOK(press_ctrl_d(a))
<1> DEFINE w == a.kbd_waiting_process
<1>1. CASE edits_line(a)
  <2> DEFINE y == IF a.tty.line # <<>> THEN [a.tty EXCEPT !.line_ready = TRUE]
                  ELSE [a.tty EXCEPT !.eof = TRUE]
  <2>1. /\ a.tty \in Lines /\ a.tty.mode = "COOKED" /\ LineOK(a.tty, w)
        /\ a.buff \in Seq(Characters \cup {EndOfFile}) /\ Len(a.buff) <= BUFF_LENGTH
    BY <1>1, LineFields DEF edits_line
  <2>2. /\ y \in Lines /\ y.line = a.tty.line /\ y.mode = a.tty.mode
        /\ ~y.line_ready => ~a.tty.line_ready
    <3>1. CASE a.tty.line # <<>>
      <4>1. y = [a.tty EXCEPT !.line_ready = TRUE]
        BY <3>1
      <4> QED BY <2>1, <4>1, LineWrites
    <3>2. CASE a.tty.line = <<>>
      <4>1. y = [a.tty EXCEPT !.eof = TRUE]
        BY <3>2
      <4> HIDE DEF y
      <4>2. /\ y \in Lines /\ y.line = a.tty.line /\ y.mode = a.tty.mode
            /\ y.line_ready = a.tty.line_ready
        BY ONLY <2>1, <4>1 DEF Lines
      <4> QED BY <4>2
    <3> QED BY <3>1, <3>2
  <2>3. press_ctrl_d(a) = wake_waiting([a EXCEPT !.tty = y])
    BY <1>1 DEF press_ctrl_d
  <2> HIDE DEF y
  <2>4. LineOK(y, Nobody)
    BY <2>1, <2>2 DEF LineOK
  <2>5. [a EXCEPT !.tty = y] = TermIn(a, a.buff, y, w)
    BY TermWrites
  <2> QED BY <2>1, <2>2, <2>3, <2>4, <2>5, WakeWaitingOK
<1>2. CASE ~edits_line(a)
  <2>1. EndOfFile \in Characters \cup {EndOfFile}
    OBVIOUS
  <2> QED BY <1>2, <2>1, WriteBuffOK DEF press_ctrl_d
<1> QED BY <1>1, <1>2

\* The caller of fd_read waits for a key.
LEMMA SetWaitingOK ==
  ASSUME NEW a, KernelOK(a), NEW p \in Procs, a.state[p] # "FREE", ~a.tty.line_ready
  PROVE  KernelOK(kbd_set_waiting(a, p))
<1> DEFINE b == StateAt(a, p, "BLOCKED")
<1>1. KernelOK(b)
  BY StateOK DEF StateAt
<1>2. /\ b.buff = a.buff /\ b.tty = a.tty /\ b.state[p] = "BLOCKED"
      /\ kbd_set_waiting(a, p) = TermIn(b, b.buff, b.tty, p)
  BY DEF kbd_set_waiting, StateAt, TermIn, KernelOK, ShellKernel
<1> HIDE DEF b
<1>3. b.tty \in Lines /\ LineOK(b.tty, p) /\ b.buff \in Seq(Characters \cup {EndOfFile}) /\ Len(b.buff) <= BUFF_LENGTH
  BY <1>1, <1>2, LineFields DEF LineOK
<1>4. p \in Procs \cup {Nobody}
  OBVIOUS
<1> QED BY <1>1, <1>2, <1>3, <1>4, TermInOK

\* What is left of a sequence when the first n are taken, and the first n.
LEMMA Taken ==
  ASSUME NEW S, NEW s \in Seq(S), NEW n \in 0 .. Len(s)
  PROVE  /\ SubSeq(s, n + 1, Len(s)) \in Seq(S) /\ Len(SubSeq(s, n + 1, Len(s))) = Len(s) - n
         /\ SubSeq(s, 1, n) \in Seq(S) /\ Len(SubSeq(s, 1, n)) = n
<1>1. Len(s) \in Nat /\ n \in Nat
  OBVIOUS
<1>2. \A i \in 1 .. Len(s) : s[i] \in S
  OBVIOUS
<1>3. /\ SubSeq(s, n + 1, Len(s)) \in Seq(S)
      /\ Len(SubSeq(s, n + 1, Len(s))) = Len(s) - n
  BY <1>1, <1>2
<1>4. SubSeq(s, 1, n) \in Seq(S) /\ Len(SubSeq(s, 1, n)) = n
  BY <1>1, <1>2
<1> QED BY <1>3, <1>4

\* The answer to a read.
ReadOK(r) == KernelOK(r.k) /\ r.ret \in Int

\* A read that finds something, or the end.
LEMMA GotOK ==
  ASSUME NEW a, KernelOK(a), NEW S, NEW b \in Seq(S)
  PROVE  ReadOK(Got(a, b))
BY DEF ReadOK, Got

\* A read that finds nothing.
LEMMA GotNothingOK ==
  ASSUME NEW a, KernelOK(a)
  PROVE  ReadOK(GotNothing(a))
BY DEF ReadOK, Got, GotNothing

\* A read that puts the caller to sleep.
LEMMA SleepsOK ==
  ASSUME NEW a, KernelOK(a), NEW p \in Procs, a.state[p] # "FREE", ~a.tty.line_ready
  PROVE  ReadOK(Sleeps(a, p))
BY SetWaitingOK DEF ReadOK, Sleeps, BLOCKED_CALL

\* A read of a complete line, or of a line that is still typed.
LEMMA CookedOK ==
  ASSUME NEW a, KernelOK(a), NEW p \in Procs, a.state[p] # "FREE", NEW count \in Nat
  PROVE  ReadOK(read_cooked(a, p, count))
<1> DEFINE s == a.tty.line
           n == Min({count, Len(s)})
           rest == SubSeq(s, n + 1, Len(s))
           w == a.kbd_waiting_process
           u == a.buff
           x == [a EXCEPT !.tty.eof = FALSE]
           y == IF rest = <<>> THEN NewLine("COOKED") ELSE [a.tty EXCEPT !.line = rest]
           z == [a EXCEPT !.tty = y]
<1>1. /\ a.tty \in Lines /\ s \in Seq(Characters) /\ Len(s) \in Nat
      /\ w \in Procs \cup {Nobody} /\ (w # Nobody => a.state[w] # "FREE")
      /\ u \in Seq(Characters \cup {EndOfFile}) /\ Len(u) <= BUFF_LENGTH
      /\ LineOK(a.tty, w) /\ a.tty.line_ready \in BOOLEAN
  BY LineFields DEF Lines
<1>2. n \in 0 .. Len(s)
  BY <1>1, MinOfTwo
<1>3. read_cooked(a, p, count) =
        IF a.tty.eof /\ s = <<>> THEN GotNothing(x)
        ELSE IF a.tty.line_ready \/ a.tty.eof THEN Got(z, SubSeq(s, 1, n))
        ELSE Sleeps(a, p)
  BY DEF read_cooked
<1> HIDE DEF n
<1>4. /\ rest \in Seq(Characters) /\ Len(rest) = Len(s) - n
      /\ SubSeq(s, 1, n) \in Seq(Characters)
  BY <1>1, <1>2, Taken
<1> HIDE DEF rest
<1>5. KernelOK(x)
  <2> DEFINE v == [a.tty EXCEPT !.eof = FALSE]
  <2>1. v \in Lines /\ v.line = s /\ v.line_ready = a.tty.line_ready /\ v.mode = a.tty.mode
    BY <1>1 DEF Lines
  <2>2. x = TermIn(a, u, v, w)
    BY DEF TermIn, KernelOK, ShellKernel
  <2> HIDE DEF v, u
  <2>3. LineOK(v, w)
    BY <1>1, <2>1 DEF LineOK
  <2> HIDE DEF w
  <2>4. KernelOK(TermIn(a, u, v, w))
    BY <1>1, <2>1, <2>3, TermInOK
  <2> QED BY <2>2, <2>4
<1>6. KernelOK(z)
  <2>1. z = TermIn(a, u, y, w)
    BY TermWrites
  <2>2. y \in Lines /\ LineOK(y, w)
    <3>1. CASE rest = <<>>
      BY <3>1, NewLineOK
    <3>2. CASE rest # <<>>
      <4>1. y = TextIn(a.tty, rest, a.tty.line_ready)
        BY <1>1, <3>2 DEF TextIn, Lines
      <4>2. y \in Lines /\ y.line = rest /\ y.line_ready = a.tty.line_ready /\ y.mode = a.tty.mode
        BY <1>1, <1>4, <4>1, TextInLines
      <4> QED BY <1>1, <1>2, <1>4, <4>2, TerminalAssumption DEF LineOK
    <3> QED BY <3>1, <3>2
  <2> HIDE DEF y, u, w
  <2>3. KernelOK(TermIn(a, u, y, w))
    BY <1>1, <2>2, TermInOK
  <2> QED BY <2>1, <2>3
<1> HIDE DEF x, z
<1>7. ReadOK(GotNothing(x))
  BY <1>5, GotNothingOK
<1>8. ReadOK(Got(z, SubSeq(s, 1, n)))
  BY <1>4, <1>6, GotOK
<1>9. ~a.tty.line_ready => ReadOK(Sleeps(a, p))
  BY SleepsOK
<1> HIDE DEF s
<1> QED BY <1>3, <1>7, <1>8, <1>9

\* A read of the ring of keys.
LEMMA RawOK ==
  ASSUME NEW a, KernelOK(a), NEW p \in Procs, a.state[p] # "FREE", NEW count \in Nat,
         a.tty.mode = "RAW"
  PROVE  ReadOK(read_raw(a, p, count))
<1> DEFINE u == a.buff
           C == Characters \cup {EndOfFile}
           n == readKeyBuff(a, count)
           b == SubSeq(u, 1, n)
           v == SubSeq(u, n + 1, Len(u))
           w == a.kbd_waiting_process
           x == [a EXCEPT !.buff = v]
<1>1. /\ a.tty \in Lines /\ u \in Seq(C) /\ Len(u) \in Nat /\ Len(u) <= BUFF_LENGTH
      /\ w \in Procs \cup {Nobody} /\ (w # Nobody => a.state[w] # "FREE")
      /\ LineOK(a.tty, w) /\ ~a.tty.line_ready
  BY LineFields DEF LineOK
<1>2. n \in 0 .. Len(u)
  <2> DEFINE m == Len(u)
             h == (m + 1) \div 2
  <2>1. h \in Nat /\ h <= m
    <3>1. m \in Nat
      BY <1>1
    <3> HIDE DEF m
    <3> QED BY ONLY <3>1
  <2>2. n = Min({count, h})
    BY DEF readKeyBuff
  <2>3. m \in Nat
    BY <1>1
  <2> HIDE DEF h, n, m
  <2>4. n \in 0 .. h
    BY <2>1, <2>2, MinOfTwo
  <2>5. n \in 0 .. m
    BY <2>1, <2>3, <2>4
  <2> QED BY <2>5 DEF m
<1>3. read_raw(a, p, count) = IF n = 0 THEN Sleeps(a, p)
                              ELSE IF Head(b) = EndOfFile THEN GotNothing(x)
                              ELSE Got(x, b)
  BY DEF read_raw
<1> HIDE DEF n
<1>4. b \in Seq(C) /\ v \in Seq(C) /\ Len(v) <= BUFF_LENGTH
  <2> HIDE DEF C
  <2>1. b \in Seq(C) /\ v \in Seq(C) /\ Len(v) = Len(u) - n
    BY <1>1, <1>2, Taken
  <2> QED BY <1>1, <1>2, <2>1, TerminalAssumption
<1> HIDE DEF b, v
<1>5. KernelOK(x)
  <2>1. x = TermIn(a, v, a.tty, w)
    BY TermWrites
  <2> HIDE DEF w
  <2>2. KernelOK(TermIn(a, v, a.tty, w))
    BY <1>1, <1>4, TermInOK
  <2> QED BY <2>1, <2>2
<1> HIDE DEF x
<1>6. ReadOK(GotNothing(x)) /\ ReadOK(Got(x, b)) /\ ReadOK(Sleeps(a, p))
  BY <1>1, <1>4, <1>5, GotNothingOK, GotOK, SleepsOK
<1> QED BY <1>3, <1>6

\* A read of the terminal.
LEMMA TerminalReadOK ==
  ASSUME NEW a, KernelOK(a), NEW p \in Procs, a.state[p] # "FREE", NEW count \in Nat
  PROVE  ReadOK(terminal_read(a, p, count))
<1>1. a.tty.mode \in {"RAW", "COOKED"}
  BY LineFields DEF Lines
<1>2. ReadOK(GotNothing(a)) /\ ReadOK(read_cooked(a, p, count))
  BY GotNothingOK, CookedOK
<1>3. a.tty.mode = "RAW" => ReadOK(read_raw(a, p, count))
  BY RawOK
<1> QED BY <1>1, <1>2, <1>3 DEF terminal_read

\* fd_read of any descriptor.
LEMMA FDReadOK ==
  ASSUME NEW a, KernelOK(a), NEW p \in Procs, a.state[p] # "FREE", NEW count \in Nat, NEW f
  PROVE  ReadOK(fd_read(a, f, p, count))
<1> DEFINE d == a.fd_table[f]
           r == pipe_read(a, d.data, p, count)
           g == [k |-> r.k, ret |-> r.ret, bytes |-> <<>>]
<1>1. Sane(a) /\ ReadOK(GotNothing(a)) /\ ReadOK(terminal_read(a, p, count))
  BY GotNothingOK, TerminalReadOK DEF KernelOK, Sane
<1>2. fd_read(a, f, p, count) =
        IF ~fd_valid(a, f) THEN GotNothing(a)
        ELSE CASE d.type = "TERMINAL" -> terminal_read(a, p, count)
               [] d.type = "PIPE_READ" -> g
               [] OTHER -> GotNothing(a)
  BY DEF fd_read
<1>3. ASSUME fd_valid(a, f), d.type = "PIPE_READ" PROVE ReadOK(g)
  <2>1. d.data \in Pipes
    BY <1>1, <1>3, FDAt DEF fd_valid
  <2>2. Keeps(a, r.k) /\ r.ret \in Int
    BY <1>1, <2>1, ReadKeeps
  <2> HIDE DEF r
  <2>3. KernelOK(r.k)
    BY <2>2, KeepsOK
  <2> QED BY <2>2, <2>3 DEF ReadOK
<1> HIDE DEF g, d
<1>4. CASE ~fd_valid(a, f)
  BY <1>1, <1>2, <1>4
<1>5. CASE fd_valid(a, f) /\ d.type = "TERMINAL"
  <2>1. fd_read(a, f, p, count) = terminal_read(a, p, count)
    BY <1>2, <1>5
  <2> QED BY <1>1, <2>1
<1>6. CASE fd_valid(a, f) /\ d.type = "PIPE_READ"
  <2>1. fd_read(a, f, p, count) = g
    BY <1>2, <1>6
  <2> QED BY <1>3, <1>6, <2>1
<1>7. CASE fd_valid(a, f) /\ d.type \notin {"TERMINAL", "PIPE_READ"}
  <2>1. fd_read(a, f, p, count) = GotNothing(a)
    BY <1>2, <1>7
  <2> QED BY <1>1, <2>1
<1> QED BY <1>4, <1>5, <1>6, <1>7

\* fd_write of any descriptor.
LEMMA FDWriteOK ==
  ASSUME NEW a, KernelOK(a), NEW p \in Procs, NEW count \in Nat, NEW f
  PROVE  KernelOK(fd_write(a, f, p, count).k)
<1> DEFINE d == a.fd_table[f]
           g == pipe_write(a, d.data, p, count)
<1>1. Sane(a)
  BY DEF KernelOK, Sane
<1>2. fd_write(a, f, p, count) =
        IF ~fd_valid(a, f) THEN [k |-> a, ret |-> 0]
        ELSE CASE d.type = "TERMINAL" -> [k |-> a, ret |-> count]
               [] d.type = "PIPE_WRITE" -> g
               [] OTHER -> [k |-> a, ret |-> 0]
  BY DEF fd_write
<1>3. ASSUME fd_valid(a, f), d.type = "PIPE_WRITE" PROVE KernelOK(g.k)
  <2>1. d.data \in Pipes
    BY <1>1, <1>3, FDAt DEF fd_valid
  <2>2. Keeps(a, g.k)
    BY <1>1, <2>1, WriteKeeps
  <2> HIDE DEF g
  <2> QED BY <2>2, KeepsOK
<1> HIDE DEF g, d
<1>4. CASE fd_valid(a, f) /\ d.type = "PIPE_WRITE"
  <2>1. fd_write(a, f, p, count) = g
    BY <1>2, <1>4
  <2> QED BY <1>3, <1>4, <2>1
<1>5. CASE ~(fd_valid(a, f) /\ d.type = "PIPE_WRITE")
  <2>1. fd_write(a, f, p, count).k = a
    BY <1>2, <1>5
  <2> QED BY <2>1
<1> QED BY <1>4, <1>5

(***************************************************************************)
(* The processes there are                                                 *)
(***************************************************************************)
\* The first of a queue stays first when another goes.
LEMMA FirstStays ==
  ASSUME NEW P, NEW q \in Seq(P), NEW p \in P, Len(q) > 0, q[1] # p
  PROVE  LET r == queue_remove_pid(q, p) IN Len(r) > 0 /\ r[1] = q[1]
<1> DEFINE K == {i \in 1 .. Len(q) : q[i] # p}
           N == Len(q)
           r == queue_remove_pid(q, p)
           c == Cardinality(K)
<1>1. N \in Nat /\ 1 \in K /\ K \in SUBSET (1 .. N)
  OBVIOUS
<1>2. r = [n \in 1 .. c |-> q[Nth(K, n)]]
  BY DEF queue_remove_pid
<1> HIDE DEF N, K, r
<1>3. Cardinality({m \in K : m <= 1}) \in 1 .. c /\ Nth(K, Cardinality({m \in K : m <= 1})) = 1
  BY <1>1, Rank
<1>4. {m \in K : m <= 1} = {1}
  <2>1. \A m \in K : m \in Nat /\ 1 <= m
    BY <1>1
  <2>2. \A m \in K : m <= 1 => m = 1
    BY <2>1
  <2>3. 1 \in K /\ 1 <= 1
    BY <1>1
  <2> QED BY <2>2, <2>3
<1>5. Cardinality({1}) = 1
  BY FS_Singleton
<1>6. IsFiniteSet(1 .. N)
  BY <1>1, FS_Interval
<1>7. c \in Nat
  BY <1>1, <1>6, FS_Subset, FS_CardinalityType
<1>8. 1 \in 1 .. c /\ Nth(K, 1) = 1
  BY <1>3, <1>4, <1>5
<1> HIDE DEF c
<1>9. r[1] = q[1]
  BY <1>2, <1>8
<1>10. Len(r) = c
  BY <1>2, <1>7
<1> QED BY <1>7, <1>8, <1>9, <1>10 DEF r

\* The shell is there.
LEMMA ShellIsThere ==
  ASSUME NEW a, KernelOK(a)
  PROVE  a.state[Sh] # "FREE"
<1>1. Len(a.born) \in Nat
  BY ShellFields DEF KernelOK
<1>2. InQueue(a.born, Sh)
  BY <1>1 DEF KernelOK, BornOK, InQueue
<1> QED BY <1>2, ProcNames DEF KernelOK, BornOK

\* The processes there are and who may read the terminal are written.
BornIn(a, g, q) == [a EXCEPT !.foreground = g, !.born = q]

\* Nothing else changes then.
LEMMA BornInFields ==
  ASSUME NEW a, Sane(a), NEW g \in SUBSET Procs, NEW q \in Seq(Procs)
  PROVE  LET b == BornIn(a, g, q)
         IN  /\ Sane(b) /\ b.born = q
             /\ b.buff = a.buff /\ b.tty = a.tty
             /\ b.kbd_waiting_process = a.kbd_waiting_process
             /\ b.state = a.state
<1> DEFINE b == BornIn(a, g, q)
<1>1. /\ b \in ShellKernel /\ b.born = q /\ b.fd_table = a.fd_table
      /\ b.buff = a.buff /\ b.tty = a.tty
      /\ b.kbd_waiting_process = a.kbd_waiting_process /\ b.state = a.state
  BY DEF BornIn, Sane, ShellKernel
<1> HIDE DEF b
<1>2. Sane(b)
  BY <1>1 DEF Sane, DataOK
<1> QED BY <1>1, <1>2 DEF b

\* A process less or more: the terminal stays right when the waiter is not the one.
LEMMA BornChanges ==
  ASSUME NEW a, KernelOK(a), NEW b, NEW p \in Procs, Turns(a, b, p),
         a.kbd_waiting_process # p,
         NEW g \in SUBSET Procs, NEW q \in Seq(Procs), BornOK(BornIn(b, g, q))
  PROVE  KernelOK(BornIn(b, g, q))
<1> DEFINE c == BornIn(b, g, q)
<1>1. Sane(b)
  BY DEF Turns
<1>2. /\ Sane(c) /\ c.buff = b.buff /\ c.tty = b.tty
      /\ c.kbd_waiting_process = b.kbd_waiting_process /\ c.state = b.state
  BY <1>1, BornInFields
<1> HIDE DEF c
<1>3. /\ c.buff = a.buff /\ c.tty = a.tty /\ c.kbd_waiting_process = a.kbd_waiting_process
      /\ \A x \in Procs \ {p} : c.state[x] = "FREE" <=> a.state[x] = "FREE"
  BY <1>2 DEF Turns
<1>4. a.kbd_waiting_process \in Procs \cup {Nobody}
  BY LineFields
<1>5. a.kbd_waiting_process # Nobody => c.state[a.kbd_waiting_process] # "FREE"
  BY <1>3, <1>4 DEF KernelOK
<1>6. BornOK(c)
  BY DEF c
<1> QED BY <1>2, <1>3, <1>5, <1>6 DEF KernelOK, Sane, c

\* kbd_clear_waiting: the driver forgets p.
LEMMA ClearOK ==
  ASSUME NEW a, KernelOK(a), NEW p \in Procs
  PROVE  LET b == kbd_clear_waiting(a, p)
         IN  KernelOK(b) /\ b.kbd_waiting_process # p /\ b.state = a.state /\ b.born = a.born
<1> DEFINE b == kbd_clear_waiting(a, p)
           v == a.kbd_waiting_process
           w == IF v = p THEN Nobody ELSE v
           u == a.buff
<1>1. /\ b = TermIn(a, u, a.tty, w)
      /\ b.kbd_waiting_process = w /\ b.state = a.state /\ b.born = a.born
  BY DEF kbd_clear_waiting, TermIn, KernelOK, ShellKernel
<1>2. /\ a.tty \in Lines /\ u \in Seq(Characters \cup {EndOfFile}) /\ Len(u) <= BUFF_LENGTH
      /\ v \in Procs \cup {Nobody} /\ (v # Nobody => a.state[v] # "FREE") /\ LineOK(a.tty, v)
  BY LineFields
<1>3. /\ w \in Procs \cup {Nobody} /\ w # p /\ (w # Nobody => a.state[w] # "FREE")
      /\ LineOK(a.tty, w)
  BY <1>2, ProcNames DEF LineOK
<1> HIDE DEF w, u
<1>4. KernelOK(TermIn(a, u, a.tty, w))
  BY <1>2, <1>3, TermInOK
<1> HIDE DEF b
<1>5. KernelOK(b) /\ b.kbd_waiting_process # p /\ b.state = a.state /\ b.born = a.born
  BY <1>1, <1>3, <1>4
<1> QED BY <1>5 DEF b

\* The shell, if it waits for p, is woken.
NoticedIn(b, p) ==
  IF b.waiting_for = p THEN [b EXCEPT !.state[Sh] = "READY", !.waiting_for = Nobody] ELSE b

\* That is all that happens to it.
LEMMA Noticed ==
  ASSUME NEW b, Sane(b), NEW p, b.state[Sh] # "FREE"
  PROVE  LET c == NoticedIn(b, p)
         IN  /\ Sane(c) /\ c.buff = b.buff /\ c.tty = b.tty
             /\ c.kbd_waiting_process = b.kbd_waiting_process
             /\ c.foreground = b.foreground /\ c.born = b.born
             /\ \A x \in Procs : c.state[x] = "FREE" <=> b.state[x] = "FREE"
<1> DEFINE c == [b EXCEPT !.state[Sh] = "READY", !.waiting_for = Nobody]
<1>1. b.state \in [Procs -> {"FREE", "READY", "BLOCKED"}]
  BY ShellFields DEF Sane
<1>0. b \in ShellKernel /\ Sh \in Procs /\ "READY" \in {"FREE", "READY", "BLOCKED"}
  BY ProcNames DEF Sane
<1>2. /\ c.fd_table = b.fd_table /\ c.buff = b.buff /\ c.tty = b.tty
      /\ c.kbd_waiting_process = b.kbd_waiting_process
      /\ c.foreground = b.foreground /\ c.born = b.born
      /\ c.state = [b.state EXCEPT ![Sh] = "READY"]
  BY <1>0 DEF ShellKernel
<1>4. c \in ShellKernel
  BY <1>0 DEF ShellKernel
<1> HIDE DEF c
<1>3. /\ Sane(c) /\ c.buff = b.buff /\ c.tty = b.tty
      /\ c.kbd_waiting_process = b.kbd_waiting_process
      /\ c.foreground = b.foreground /\ c.born = b.born
      /\ \A x \in Procs : c.state[x] = "FREE" <=> b.state[x] = "FREE"
  BY <1>1, <1>2, <1>4, ProcNames DEF Sane, DataOK
<1> QED BY <1>3 DEF NoticedIn, c

\* A child ends.
LEMMA EndsOK ==
  ASSUME KernelOK(k), NEW p \in Children
  PROVE  KernelOK(ends(p))
<1> DEFINE a == kbd_clear_waiting(k, p)
           b == process_ends(a, p)
           c == NoticedIn(b, p)
           g == c.foreground \ {p}
           q == queue_remove_pid(c.born, p)
           e == BornIn(c, g, q)
<1>1. ends(p) = e
  BY DEF ends, NoticedIn, BornIn
<1>2. p \in Procs /\ p # Sh /\ Sh \in Procs
  BY ProcNames
<1>3. KernelOK(a) /\ a.kbd_waiting_process # p
  BY <1>2, ClearOK
<1> HIDE DEF a
<1>4. Sane(a) /\ a.state[Sh] # "FREE" /\ a.born \in Seq(Procs) /\ a.foreground \in SUBSET Procs
  BY <1>3, ShellIsThere, ShellFields DEF KernelOK, Sane
<1>5. Turns(a, b, p) /\ b.state[p] = "FREE"
  BY <1>2, <1>4, EndsTurns
<1> HIDE DEF b
<1>6. Sane(b) /\ b.state[Sh] # "FREE"
  BY <1>2, <1>4, <1>5 DEF Turns
<1>7. /\ Sane(c) /\ c.buff = b.buff /\ c.tty = b.tty
      /\ c.kbd_waiting_process = b.kbd_waiting_process
      /\ c.foreground = b.foreground /\ c.born = b.born
      /\ \A x \in Procs : c.state[x] = "FREE" <=> b.state[x] = "FREE"
  BY <1>6, Noticed
<1> HIDE DEF c
<1>8. c.born = a.born /\ c.foreground = a.foreground
  BY <1>5, <1>7 DEF Turns
<1>9. g \in SUBSET Procs
  BY <1>4, <1>8
<1>10. Injective(c.born) /\ Len(c.born) > 0 /\ c.born[1] = Sh /\ c.born \in Seq(Procs)
  BY <1>3, <1>4, <1>8 DEF KernelOK, BornOK
<1>11. /\ q \in Seq(Procs) /\ Injective(q)
       /\ \A x \in Procs : InQueue(q, x) <=> InQueue(c.born, x) /\ x # p
  BY <1>2, <1>10, QueueRemove
<1>12. Len(q) > 0 /\ q[1] = Sh
  <2> HIDE DEF q
  <2> QED BY <1>2, <1>10, FirstStays DEF q
<1> HIDE DEF q, g
<1>13. e.born = q /\ e.state = c.state
  BY <1>7, <1>9, <1>11, BornInFields
<1>14. Turns(a, c, p)
  BY <1>5, <1>7 DEF Turns
<1>15. BornOK(e)
  <2>1. ASSUME NEW x \in Procs PROVE InQueue(q, x) <=> c.state[x] # "FREE"
    <3>1. CASE x = p
      BY <1>5, <1>7, <1>11, <3>1
    <3>2. CASE x # p
      BY <1>3, <1>8, <1>11, <1>14, <3>2 DEF KernelOK, BornOK, Turns
    <3> QED BY <3>1, <3>2
  <2> HIDE DEF e
  <2> QED BY <1>11, <1>12, <1>13, <2>1 DEF BornOK
<1>16. KernelOK(e)
  BY <1>2, <1>3, <1>9, <1>11, <1>14, <1>15, BornChanges
<1> QED BY <1>1, <1>16

\* The youngest comes last.
LEMMA Appended ==
  ASSUME NEW P, NEW q \in Seq(P), NEW p \in P, Injective(q), ~InQueue(q, p)
  PROVE  LET r == Append(q, p)
         IN  /\ r \in Seq(P) /\ Injective(r) /\ Len(r) > 0
             /\ \A x \in P : InQueue(r, x) <=> InQueue(q, x) \/ x = p
             /\ Len(q) > 0 => r[1] = q[1]
<1> DEFINE r == Append(q, p)
<1>1. /\ r \in Seq(P) /\ Len(q) \in Nat /\ Len(r) = Len(q) + 1 /\ r[Len(q) + 1] = p
      /\ \A i \in 1 .. Len(q) : r[i] = q[i] /\ q[i] # p
  BY DEF InQueue
<1> HIDE DEF r
<1>2. Injective(r)
  <2>1. ASSUME NEW i \in 1 .. Len(r), NEW j \in 1 .. Len(r), r[i] = r[j] PROVE i = j
    <3>1. (i \in 1 .. Len(q) \/ i = Len(q) + 1) /\ (j \in 1 .. Len(q) \/ j = Len(q) + 1)
      BY <1>1
    <3> QED BY <1>1, <2>1, <3>1 DEF Injective
  <2> QED BY <2>1 DEF Injective
<1>3. ASSUME NEW x \in P PROVE InQueue(r, x) <=> InQueue(q, x) \/ x = p
  <2>1. ASSUME InQueue(r, x) PROVE InQueue(q, x) \/ x = p
    <3>1. PICK i \in 1 .. Len(r) : r[i] = x
      BY <2>1 DEF InQueue
    <3>2. i \in 1 .. Len(q) \/ i = Len(q) + 1
      BY <1>1
    <3> QED BY <1>1, <3>1, <3>2 DEF InQueue
  <2>2. ASSUME InQueue(q, x) PROVE InQueue(r, x)
    <3>1. PICK i \in 1 .. Len(q) : q[i] = x
      BY <2>2 DEF InQueue
    <3>2. i \in 1 .. Len(r) /\ r[i] = x
      BY <1>1, <3>1
    <3> QED BY <3>2 DEF InQueue
  <2>3. ASSUME x = p PROVE InQueue(r, x)
    <3>1. Len(q) + 1 \in 1 .. Len(r)
      BY <1>1
    <3> QED BY <1>1, <2>3, <3>1 DEF InQueue
  <2> QED BY <2>1, <2>2, <2>3
<1>4. Len(r) > 0 /\ (Len(q) > 0 => r[1] = q[1])
  BY <1>1
<1> QED BY <1>1, <1>2, <1>3, <1>4 DEF r

\* A child is created.
LEMMA CreatedOK ==
  ASSUME KernelOK(k), NEW p \in Children, k.state[p] = "FREE", NEW fg
  PROVE  KernelOK(created(p, fg))
<1> DEFINE c == create_fds(k, p, fg = 3)
           g == c.foreground \cup {p}
           q == Append(c.born, p)
           e == BornIn(c, g, q)
<1>1. created(p, fg) = e
  BY DEF created, BornIn
<1>2. p \in Procs
  BY ProcNames
<1>3. Sane(k) /\ k.born \in Seq(Procs) /\ k.foreground \in SUBSET Procs
  BY ShellFields DEF KernelOK, Sane
<1>4. Turns(k, c, p) /\ c.state[p] # "FREE"
  BY <1>2, <1>3, CreateTurns
<1> HIDE DEF c
<1>5. c.born = k.born /\ c.foreground = k.foreground /\ Sane(c)
  BY <1>4 DEF Turns
<1>6. k.kbd_waiting_process # p
  BY LineFields, <1>2, ProcNames
<1>7. /\ Injective(c.born) /\ c.born \in Seq(Procs) /\ ~InQueue(c.born, p)
      /\ Len(c.born) > 0 /\ c.born[1] = Sh
  BY <1>2, <1>3, <1>5 DEF KernelOK, BornOK
<1>8. g \in SUBSET Procs
  BY <1>2, <1>3, <1>5
<1>9. /\ q \in Seq(Procs) /\ Injective(q) /\ Len(q) > 0 /\ q[1] = Sh
      /\ \A x \in Procs : InQueue(q, x) <=> InQueue(c.born, x) \/ x = p
  BY <1>2, <1>7, Appended
<1> HIDE DEF q, g
<1>10. e.born = q /\ e.state = c.state
  BY <1>5, <1>8, <1>9, BornInFields
<1>11. BornOK(e)
  <2>1. ASSUME NEW x \in Procs PROVE InQueue(q, x) <=> c.state[x] # "FREE"
    <3>1. CASE x = p
      BY <1>4, <1>9, <3>1
    <3>2. CASE x # p
      BY <1>4, <1>5, <1>9, <3>2 DEF KernelOK, BornOK, Turns
    <3> QED BY <3>1, <3>2
  <2> HIDE DEF e
  <2> QED BY <1>9, <1>10, <2>1 DEF BornOK
<1>12. KernelOK(e)
  BY <1>2, <1>4, <1>6, <1>8, <1>9, <1>11, BornChanges
<1> QED BY <1>1, <1>12

(***************************************************************************)
(* The steps of the shell and its children                                 *)
(***************************************************************************)
\* The shell goes on, with the pipe it has.
LEMMA GotoOK ==
  ASSUME ShOK, NEW l \in Places, l \in PipeOpen => sh.at \in PipeOpen, Goto(l)
  PROVE  ShOK'
<1>1. /\ sh' = [sh EXCEPT !.at = l] /\ sh.fds \in {<<>>} \cup (FDs \X FDs)
      /\ l \in PipeOpen => sh.fds \in FDs \X FDs
  BY DEF ShOK, Goto
<1>2. /\ sh' \in [at : Places, cmd : Commands \cup {NoCommand},
                  fds : {<<>>} \cup (FDs \X FDs), failed : BOOLEAN]
      /\ sh'.at = l /\ sh'.fds = sh.fds
  BY <1>1 DEF ShOK
<1> QED BY <1>1, <1>2 DEF ShOK

\* The shell is back at its prompt.
LEMMA DoneOK ==
  ASSUME ShOK, Done
  PROVE  ShOK'
<1>1. "prompt" \in Places /\ "prompt" \notin PipeOpen
  BY DEF Places, PipeOpen
<1>2. /\ sh' \in [at : Places, cmd : Commands \cup {NoCommand},
                  fds : {<<>>} \cup (FDs \X FDs), failed : BOOLEAN]
      /\ sh'.at = "prompt"
  BY <1>1 DEF ShOK, Done
<1> QED BY <1>1, <1>2 DEF ShOK

\* What the parts of the invariant say.
LEMMA InvParts ==
  ASSUME ShellInv
  PROVE  /\ KernelOK(k) /\ Sane(k) /\ ShOK /\ kids \in [Children -> Kids]
         /\ k.state[Sh] # "FREE" /\ Children \subseteq Procs /\ Sh \in Procs
         /\ sh.at \in PipeOpen => sh.fds[1] \in FDs /\ sh.fds[2] \in FDs
<1>1. KernelOK(k) /\ Sane(k) /\ ShOK /\ kids \in [Children -> Kids]
  BY DEF ShellInv, KernelOK, Sane
<1>2. sh.at \in PipeOpen => sh.fds[1] \in FDs /\ sh.fds[2] \in FDs
  BY <1>1 DEF ShOK
<1> QED BY <1>1, <1>2, ShellIsThere, ProcNames

\* Ends keeps the kernel and the children right.
LEMMA EndsStep ==
  ASSUME ShellInv, NEW p \in Children, Ends(p)
  PROVE  KernelOK(k') /\ kids' \in [Children -> Kids]
<1>1. KernelOK(k')
  BY EndsOK DEF Ends, ShellInv
<1>2. NoKid \in Kids
  BY DEF NoKid, Kids
<1>3. kids' \in [Children -> Kids]
  BY <1>2 DEF Ends, ShellInv
<1> QED BY <1>1, <1>3

\* A key in the ring or the line.
LEMMA TypeStep ==
  ASSUME ShellInv, NEW c \in Keys, Type(c)
  PROVE  ShellInv'
<1>1. c \in Characters
  BY ShellAssumption
<1> QED BY <1>1, PressOK DEF Type, ShellInv, ShOK

\* Ctrl+D.
LEMMA TypeCtrlDStep ==
  ASSUME ShellInv, TypeCtrlD
  PROVE  ShellInv'
BY CtrlDOK DEF TypeCtrlD, ShellInv, ShOK

\* Ctrl+C never ends the shell: it is the oldest.
LEMMA CtrlCEnds ==
  ASSUME ShellInv, TypeCtrlC
  PROVE  \E p \in Children : Ends(p)
<1> DEFINE N == Len(k.born)
           fg == {i \in 1 .. N : k.born[i] \in k.foreground}
<1>1. N \in Nat /\ k.born \in Seq(Procs) /\ BornOK(k)
  BY ShellFields DEF ShellInv, KernelOK
<1>2. /\ Cardinality(fg) > 1
      /\ \E i \in fg : (\A j \in fg : j <= i) /\ Ends(k.born[i])
  BY DEF TypeCtrlC
<1>3. PICK i \in fg : (\A j \in fg : j <= i) /\ Ends(k.born[i])
  BY <1>2
<1>4. i # 1
  <2>1. SUFFICES ASSUME i = 1 PROVE FALSE
    OBVIOUS
  <2>2. \A j \in fg : j \in Nat /\ 1 <= j /\ j <= 1
    BY <1>1, <1>3, <2>1
  <2>3. \A j \in fg : j = 1
    BY <2>2
  <2>4. fg = {1}
    BY <1>3, <2>1, <2>3
  <2>5. Cardinality({1}) = 1
    BY FS_Singleton
  <2> HIDE DEF fg
  <2> QED BY <1>2, <2>4, <2>5
<1>5. k.born[i] \in Procs /\ k.born[i] # Sh
  <2>1. i \in 1 .. N /\ 1 \in 1 .. N
    BY <1>1, <1>3
  <2> QED BY <1>1, <1>4, <2>1 DEF BornOK, Injective
<1>6. k.born[i] \in Children
  BY <1>5, ProcNames
<1> QED BY <1>3, <1>6

\* It leaves the rest right.
LEMMA TypeCtrlCStep ==
  ASSUME ShellInv, TypeCtrlC
  PROVE  ShellInv'
<1>1. PICK p \in Children : Ends(p)
  BY CtrlCEnds
<1>2. KernelOK(k') /\ kids' \in [Children -> Kids]
  BY <1>1, EndsStep
<1>3. UNCHANGED <<sh, jobs>>
  BY DEF TypeCtrlC
<1> QED BY <1>2, <1>3 DEF ShellInv, ShOK

\* shellReadLine.
LEMMA ReadLineStep ==
  ASSUME ShellInv, ReadLine
  PROVE  ShellInv'
<1> DEFINE r == fd_read(k, k.fd[Sh][FD_STDIN], Sh, 1)
           l == IF r.bytes = <<Newline>> THEN "line" ELSE "prompt"
<1>1. k' = r.k /\ Goto(l) /\ UNCHANGED <<kids, jobs>>
  BY DEF ReadLine
<1>2. 1 \in Nat
  OBVIOUS
<1>3. ReadOK(r)
  BY <1>2, InvParts, FDReadOK
<1>4. l \in Places /\ l \notin PipeOpen
  BY DEF Places, PipeOpen
<1> HIDE DEF r, l
<1>5. ShOK'
  BY <1>1, <1>4, InvParts, GotoOK
<1> QED BY <1>1, <1>3, <1>5 DEF ReadOK, ShellInv

\* processLine.
LEMMA ProcessLineStep ==
  ASSUME ShellInv, ProcessLine
  PROVE  ShellInv'
<1>1. k' = k /\ kids' = kids
  BY DEF ProcessLine
<1>2. CASE Done
  BY <1>1, <1>2, DoneOK DEF ShellInv
<1>3. ASSUME NEW c \in Commands,
             sh' = [sh EXCEPT !.cmd = c, !.at = IF c.kind = "pipeline" THEN "pipe" ELSE "cooked"]
      PROVE  ShOK'
  <2>1. /\ (IF c.kind = "pipeline" THEN "pipe" ELSE "cooked") \in Places
        /\ (IF c.kind = "pipeline" THEN "pipe" ELSE "cooked") \notin PipeOpen
    BY DEF Places, PipeOpen
  <2>2. c \in Commands \cup {NoCommand}
    OBVIOUS
  <2> QED BY <1>3, <2>1, <2>2 DEF ShellInv, ShOK
<1> QED BY <1>1, <1>2, <1>3 DEF ProcessLine, ShellInv

\* A new child is one.
LEMMA NewKidOK ==
  ASSUME NEW p \in Children, NEW prog \in Programs, NEW asleep
  PROVE  NewKid(prog, asleep) \in Kids
BY ShellAssumption DEF NewKid, Kids, Programs, Entry

\* sys_create_process: a child that is not there, with any of its programs.
LEMMA CreateStep ==
  ASSUME ShellInv, NEW p \in Children, NEW fg, ~Alive(p), k' = created(p, fg),
         \E prog \in Programs : kids' = [kids EXCEPT ![p] = NewKid(prog, fg = 3)]
  PROVE  KernelOK(k') /\ kids' \in [Children -> Kids]
<1>1. KernelOK(k')
  <2>1. k.state[p] = "FREE"
    BY DEF Alive
  <2> QED BY <2>1, CreatedOK DEF ShellInv
<1>2. PICK prog \in Programs : kids' = [kids EXCEPT ![p] = NewKid(prog, fg = 3)]
  OBVIOUS
<1>3. kids' \in [Children -> Kids]
  BY <1>2, NewKidOK DEF ShellInv
<1> QED BY <1>1, <1>3

\* A command of its own is created, or cannot be.
LEMMA CreateSingleStep ==
  ASSUME ShellInv, CreateSingle
  PROVE  ShellInv'
<1>1. Single \in Children /\ "wait" \in Places /\ "wait" \notin PipeOpen
  BY DEF Children, Places, PipeOpen
<1>2. CASE /\ ~Alive(Single) /\ k' = created(Single, 1) /\ Goto("wait")
           /\ \E prog \in Programs : kids' = [kids EXCEPT ![Single] = NewKid(prog, 1 = 3)]
  <2>1. KernelOK(k') /\ kids' \in [Children -> Kids]
    BY <1>1, <1>2, CreateStep
  <2>2. ShOK'
    BY <1>1, <1>2, InvParts, GotoOK
  <2> QED BY <2>1, <2>2 DEF ShellInv
<1>3. CASE /\ UNCHANGED <<k, kids>>
           /\ sh' = [sh EXCEPT !.at = "prompt", !.cmd = NoCommand, !.failed = TRUE]
  <2>1. "prompt" \in Places /\ "prompt" \notin PipeOpen
    BY DEF Places, PipeOpen
  <2>2. ShOK'
    BY <1>3, <2>1 DEF ShellInv, ShOK
  <2> QED BY <1>3, <2>2 DEF ShellInv
<1> QED BY <1>2, <1>3 DEF CreateSingle, Create

\* The halves of a pipeline are created, or cannot be.
LEMMA CreateHalfStep ==
  ASSUME ShellInv, CreateLeft \/ CreateRight
  PROVE  ShellInv'
<1>1. /\ Left \in Children /\ Right \in Children
      /\ {"left", "right", "drop_read", "setup_left", "kill_left"} \subseteq PipeOpen
      /\ PipeOpen \subseteq Places
  BY DEF Children, Places, PipeOpen
<1>2. sh.at \in PipeOpen
  BY <1>1 DEF CreateLeft, CreateRight, At
<1>3. ASSUME NEW l \in PipeOpen, Goto(l) PROVE ShOK'
  BY <1>1, <1>2, <1>3, InvParts, GotoOK
<1>4. \E l \in PipeOpen : Goto(l)
  BY <1>1 DEF CreateLeft, CreateRight, Create
<1>5. ShOK'
  BY <1>3, <1>4
<1>6. CASE UNCHANGED <<k, kids>>
  BY <1>5, <1>6 DEF ShellInv
<1>7. CASE /\ ~Alive(Left) /\ k' = created(Left, 3)
           /\ \E prog \in Programs : kids' = [kids EXCEPT ![Left] = NewKid(prog, 3 = 3)]
  <2>1. KernelOK(k') /\ kids' \in [Children -> Kids]
    BY <1>1, <1>7, CreateStep
  <2> QED BY <1>5, <2>1 DEF ShellInv
<1>8. CASE /\ ~Alive(Right) /\ k' = created(Right, 3)
           /\ \E prog \in Programs : kids' = [kids EXCEPT ![Right] = NewKid(prog, 3 = 3)]
  <2>1. KernelOK(k') /\ kids' \in [Children -> Kids]
    BY <1>1, <1>8, CreateStep
  <2> QED BY <1>5, <2>1 DEF ShellInv
<1> QED BY <1>6, <1>7, <1>8 DEF CreateLeft, CreateRight, Create

\* What setting the terminal's mode does to the shell.
LEMMA CookedShell ==
  ASSUME ShellInv, NEW next \in Places, next \notin PipeOpen, SetCooked(next)
  PROVE  ShOK' /\ sh'.at = next /\ sh'.cmd = sh.cmd /\ sh'.fds = sh.fds
<1>1. sh' = [sh EXCEPT !.at = next, !.failed = FALSE]
  BY DEF SetCooked
<1> QED BY <1>1 DEF ShellInv, ShOK

\* The terminal's mode is set.
LEMMA SetCookedStep ==
  ASSUME ShellInv, NEW next \in {"create", "start_left"}, SetCooked(next)
  PROVE  ShellInv'
<1>1. next \in Places /\ next \notin PipeOpen
  BY DEF Places, PipeOpen
<1>2. ShOK'
  BY <1>1, CookedShell
<1>3. "COOKED" \in {"RAW", "COOKED"}
  OBVIOUS
<1>4. KernelOK(k')
  BY <1>3, InvParts, SetModeOK DEF SetCooked
<1> QED BY <1>2, <1>4 DEF SetCooked, ShellInv

\* And set back.
LEMMA SetRawStep ==
  ASSUME ShellInv, SetRaw
  PROVE  ShellInv'
<1>1. "RAW" \in {"RAW", "COOKED"}
  OBVIOUS
<1>2. ShOK'
  BY InvParts, DoneOK DEF SetRaw
<1>3. KernelOK(k')
  BY <1>1, InvParts, SetModeOK DEF SetRaw
<1> QED BY <1>2, <1>3 DEF SetRaw, ShellInv

\* sys_waitpid.
LEMMA WaitStep ==
  ASSUME ShellInv, NEW l, NEW p \in Children, NEW next \in {"raw", "wait_right"}, Wait(l, p, next)
  PROVE  ShellInv'
<1>1. next \in Places /\ next \notin PipeOpen /\ p \in Procs
  BY InvParts DEF Places, PipeOpen
<1>2. ShOK'
  BY <1>1, InvParts, GotoOK DEF Wait
<1>3. KernelOK(k')
  <2> DEFINE a == [k EXCEPT !.waiting_for = p]
             b == [a EXCEPT !.state[Sh] = "BLOCKED"]
  <2>1. KernelOK(a)
    <3>1. /\ a \in ShellKernel /\ a.fd_table = k.fd_table /\ a.buff = k.buff /\ a.tty = k.tty
          /\ a.kbd_waiting_process = k.kbd_waiting_process /\ a.state = k.state /\ a.born = k.born
      BY <1>1 DEF ShellInv, KernelOK, ShellKernel
    <3> HIDE DEF a
    <3> QED BY <3>1 DEF ShellInv, KernelOK, DataOK, BornOK
  <2>2. b = [k EXCEPT !.state[Sh] = "BLOCKED", !.waiting_for = p]
    BY DEF ShellInv, KernelOK, ShellKernel
  <2> HIDE DEF a
  <2>3. KernelOK(b)
    <3>1. Sh \in Procs /\ a.state[Sh] # "FREE" /\ "BLOCKED" \in {"READY", "BLOCKED"}
      BY <2>1, ShellIsThere, ProcNames
    <3> QED BY <2>1, <3>1, StateOK
  <2> HIDE DEF b
  <2>4. k' = b \/ k' = k
    BY <2>2 DEF Wait
  <2> QED BY <2>3, <2>4, InvParts
<1> QED BY <1>2, <1>3 DEF Wait, ShellInv

\* sys_pipe.
LEMMA MakePipeStep ==
  ASSUME ShellInv, MakePipe
  PROVE  ShellInv'
<1> DEFINE r == sys_pipe(k, Anonymous)
<1>1. KernelOK(r.k) /\ r.fds \in {<<>>} \cup (FDs \X FDs)
  BY InvParts, SysPipeKeeps, KeepsOK
<1>2. PICK child_commands \in BOOLEAN :
        /\ UNCHANGED <<kids, jobs>>
        /\ \/ /\ k' = r.k
              /\ IF r.fds = <<>> THEN Done
                 ELSE sh' = [sh EXCEPT !.fds = r.fds,
                                       !.at = IF child_commands THEN "left" ELSE "drop_read"]
           \/ UNCHANGED k /\ Done
  BY DEF MakePipe
<1> HIDE DEF r
<1>3. ShOK'
  <2>1. CASE Done
    BY <2>1, InvParts, DoneOK
  <2>2. CASE ~Done
    <3>1. r.fds # <<>> /\ r.fds \in FDs \X FDs
      BY <1>1, <1>2, <2>2
    <3>2. (IF child_commands THEN "left" ELSE "drop_read") \in Places
      BY DEF Places, PipeOpen
    <3> QED BY <1>1, <1>2, <2>2, <3>1, <3>2 DEF ShellInv, ShOK
  <2> QED BY <2>1, <2>2
<1>4. KernelOK(k')
  BY <1>1, <1>2, InvParts
<1> QED BY <1>2, <1>3, <1>4 DEF ShellInv

\* sys_kill of the left half.
LEMMA KillLeftStep ==
  ASSUME ShellInv, KillLeft
  PROVE  ShellInv'
<1>1. Left \in Children /\ "drop_read" \in Places /\ sh.at \in PipeOpen
  BY DEF KillLeft, At, Children, Places, PipeOpen
<1>2. ShOK'
  BY <1>1, InvParts, GotoOK DEF KillLeft
<1>3. CASE Ends(Left)
  BY <1>1, <1>2, <1>3, EndsStep DEF ShellInv
<1>4. CASE UNCHANGED <<k, kids>>
  BY <1>2, <1>4 DEF ShellInv
<1> QED BY <1>3, <1>4 DEF KillLeft

\* process_pipe_setup of a half.
LEMMA SetupStep ==
  ASSUME ShellInv, SetupLeft \/ SetupRight
  PROVE  ShellInv'
<1>1. /\ Left \in Procs /\ Right \in Procs /\ FD_STDIN \in 0 .. 1 /\ FD_STDOUT \in 0 .. 1
      /\ {"setup_left", "setup_right", "close_read"} \subseteq PipeOpen /\ PipeOpen \subseteq Places
  BY InvParts DEF Children, FD_STDIN, FD_STDOUT, Places, PipeOpen
<1>2. sh.at \in PipeOpen /\ UNCHANGED <<kids, jobs>>
  BY <1>1 DEF SetupLeft, SetupRight, Setup, At
<1>3. \E l \in PipeOpen : Goto(l)
  BY <1>1 DEF SetupLeft, SetupRight, Setup
<1>4. ShOK'
  BY <1>1, <1>2, <1>3, InvParts, GotoOK
<1>5. sh.fds[1] \in FDs /\ sh.fds[2] \in FDs
  BY <1>2, InvParts
<1>6. /\ KernelOK(process_pipe_setup(k, Left, sh.fds[2], FD_STDOUT))
      /\ KernelOK(process_pipe_setup(k, Right, sh.fds[1], FD_STDIN))
  BY <1>1, <1>5, InvParts, SetupKeeps, KeepsOK
<1>7. KernelOK(k')
  BY <1>6 DEF SetupLeft, SetupRight, Setup
<1> QED BY <1>2, <1>4, <1>7 DEF ShellInv

\* sys_close of an end.
LEMMA CloseStep ==
  ASSUME ShellInv, CloseRead \/ CloseWrite \/ DropRead \/ DropWrite
  PROVE  ShellInv'
<1>1. /\ {"close_read", "close_write", "drop_read", "drop_write"} \subseteq PipeOpen
      /\ PipeOpen \cup {"start_left", "cooked"} \subseteq Places
  BY DEF Places, PipeOpen
<1>2. sh.at \in PipeOpen /\ UNCHANGED <<kids, jobs>>
  BY <1>1 DEF CloseRead, CloseWrite, DropRead, DropWrite, CloseEnd, At
<1>3. Done \/ \E l \in PipeOpen \cup {"start_left", "cooked"} : Goto(l)
  BY <1>1 DEF CloseRead, CloseWrite, DropRead, DropWrite, CloseEnd
<1>4. ShOK'
  BY <1>1, <1>2, <1>3, InvParts, GotoOK, DoneOK
<1>5. \A f : KernelOK(sys_close(k, f))
  BY InvParts, DecrefKeeps, KeepsOK DEF sys_close
<1>6. KernelOK(k')
  BY <1>5 DEF CloseRead, CloseWrite, DropRead, DropWrite, CloseEnd
<1> QED BY <1>2, <1>4, <1>6 DEF ShellInv

\* process_unblock of a half.
LEMMA StartStep ==
  ASSUME ShellInv, NEW l, NEW p \in Children, NEW next \in {"start_right", "prompt", "wait_left"},
         Start(l, p, next)
  PROVE  ShellInv'
<1>1. next \in Places /\ next \notin PipeOpen /\ p \in Procs
  BY InvParts DEF Places, PipeOpen
<1>2. ShOK'
  BY <1>1, InvParts, GotoOK, DoneOK DEF Start
<1>3. KernelOK(k')
  BY <1>1, InvParts, UnblockKeeps, KeepsOK DEF Start
<1>4. kids' \in [Children -> Kids]
  <2> DEFINE e == IF kids[p].at = "new" THEN Entry(kids[p].prog) ELSE kids[p].at
  <2>1. kids[p] \in Kids
    BY InvParts
  <2>2. [kids[p] EXCEPT !.at = e] \in Kids
    BY <2>1 DEF Kids, Entry
  <2>3. kids' = [kids EXCEPT ![p] = [kids[p] EXCEPT !.at = e]]
    BY DEF Start
  <2> HIDE DEF e
  <2> QED BY <2>2, <2>3, InvParts
<1> QED BY <1>2, <1>3, <1>4 DEF ShellInv

\* A child reads.
LEMMA ReaderReadsStep ==
  ASSUME ShellInv, NEW p \in Children, ReaderReads(p)
  PROVE  ShellInv'
<1> DEFINE r == fd_read(k, k.fd[p][FD_STDIN], p, PIPE_BUFFER_SIZE)
<1>1. PICK wc \in BOOLEAN :
        /\ KidAt(p, "read") /\ k' = r.k
        /\ kids' = [kids EXCEPT ![p] =
                      CASE r.ret = BLOCKED_CALL -> @
                        [] r.ret = 0 /\ wc -> [@ EXCEPT !.at = "print", !.n = PrintSize]
                        [] r.ret = 0 /\ ~wc -> [@ EXCEPT !.at = "exit"]
                        [] OTHER -> [@ EXCEPT !.at = "copy", !.n = r.ret]]
        /\ UNCHANGED <<sh, jobs>>
  BY DEF ReaderReads
<1>2. p \in Procs /\ k.state[p] # "FREE" /\ PIPE_BUFFER_SIZE \in Nat /\ PrintSize \in Int
  BY <1>1, InvParts, PipeAssumption, ShellAssumption DEF KidAt
<1>3. ReadOK(r)
  BY <1>2, InvParts, FDReadOK
<1> HIDE DEF r
<1>4. KernelOK(k') /\ r.ret \in Int
  BY <1>1, <1>3 DEF ReadOK
<1> DEFINE x == kids[p]
           n == r.ret
           y == CASE n = BLOCKED_CALL -> x
                  [] n = 0 /\ wc -> [x EXCEPT !.at = "print", !.n = PrintSize]
                  [] n = 0 /\ ~wc -> [x EXCEPT !.at = "exit"]
                  [] OTHER -> [x EXCEPT !.at = "copy", !.n = n]
<1>5. x \in Kids
  BY InvParts
<1>6. kids' = [kids EXCEPT ![p] = y]
  BY <1>1
<1> HIDE DEF x, n
<1>7. n \in Int
  BY <1>4 DEF n
<1>8. y \in Kids
  <2>1. /\ [x EXCEPT !.at = "print", !.n = PrintSize] \in Kids /\ [x EXCEPT !.at = "exit"] \in Kids
        /\ [x EXCEPT !.at = "copy", !.n = n] \in Kids
    BY <1>2, <1>5, <1>7 DEF Kids
  <2> QED BY <1>5, <2>1 DEF BLOCKED_CALL
<1> HIDE DEF y
<1>9. kids' \in [Children -> Kids]
  BY <1>6, <1>8, InvParts
<1> QED BY <1>1, <1>4, <1>9 DEF ShellInv, ShOK

\* A write leaves the kernel right.
LEMMA WritesOK ==
  ASSUME ShellInv, NEW p \in Children, NEW m \in Nat, Writes(p, m)
  PROVE  KernelOK(k')
<1>1. KernelOK(fd_write(k, k.fd[p][FD_STDOUT], p, m).k)
  BY InvParts, FDWriteOK
<1> QED BY <1>1, InvParts DEF Writes

\* Where a child is and what it holds are written.
KidIn(x, e, n) == [x EXCEPT !.at = e, !.n = n]

\* A child it is.
LEMMA KidInOK ==
  ASSUME NEW x \in Kids, NEW e \in {"read", "print", "exit"}, NEW n \in Int
  PROVE  KidIn(x, e, n) \in Kids
<1>1. e \in {"gone", "new", "read", "copy", "print", "exit"}
  OBVIOUS
<1> QED BY <1>1 DEF Kids, KidIn

\* A child copies what it has read, and one prints.
LEMMA KidWritesStep ==
  ASSUME ShellInv, NEW p \in Children, ReaderCopies(p) \/ Prints(p)
  PROVE  ShellInv'
<1>1. kids[p] \in Kids /\ kids[p].n \in Int
  BY InvParts DEF Kids
<1>2. CASE ReaderCopies(p)
  <2>1. PICK m \in 0 .. kids[p].n :
          /\ Writes(p, m) /\ UNCHANGED <<sh, jobs>>
          /\ kids' = [kids EXCEPT ![p] = [@ EXCEPT !.at = "read", !.n = 0]]
    BY <1>2 DEF ReaderCopies
  <2>2. m \in Nat
    BY <1>1
  <2>3. KernelOK(k')
    BY <2>1, <2>2, WritesOK
  <2>4. KidIn(kids[p], "read", 0) \in Kids
    BY <1>1, KidInOK
  <2>5. kids' = [kids EXCEPT ![p] = KidIn(kids[p], "read", 0)]
    BY <2>1 DEF KidIn
  <2>6. kids' \in [Children -> Kids]
    BY <2>4, <2>5, InvParts
  <2> QED BY <2>1, <2>3, <2>6 DEF ShellInv, ShOK
<1>3. CASE Prints(p)
  <2> DEFINE e == IF kids[p].n = 1 THEN "exit" ELSE "print"
             y == KidIn(kids[p], e, kids[p].n - 1)
  <2>1. Writes(p, 1) /\ UNCHANGED <<sh, jobs>> /\ kids' = [kids EXCEPT ![p] = y]
    BY <1>1, <1>3, InvParts DEF Prints, KidIn, Kids
  <2>2. KernelOK(k')
    <3>1. 1 \in Nat
      OBVIOUS
    <3> QED BY <2>1, <3>1, WritesOK
  <2>3. y \in Kids
    <3>1. kids[p].n - 1 \in Int /\ e \in {"read", "print", "exit"}
      BY <1>1
    <3> HIDE DEF e
    <3> QED BY <1>1, <3>1, KidInOK
  <2> HIDE DEF y
  <2>4. kids' \in [Children -> Kids]
    BY <2>1, <2>3, InvParts
  <2> QED BY <2>1, <2>2, <2>4 DEF ShellInv, ShOK
<1> QED BY <1>2, <1>3

\* A child exits.
LEMMA ExitStep ==
  ASSUME ShellInv, NEW p \in Children, Exit(p)
  PROVE  ShellInv'
BY EndsStep DEF Exit, ShellInv, ShOK

(***************************************************************************)
(* The invariant holds                                                     *)
(***************************************************************************)
\* Before there is a process.
LEMMA Kernel0Sane == Sane(Kernel0)
<1> DEFINE a == Kernel0
<1>1. Sane(a)
  <2>1. fd_init \in [FDs -> FDRecord]
    BY FDAssumption DEF fd_init, FDRecord, FDs
  <2>2. /\ [p \in Procs |-> "FREE"] \in [Procs -> {"FREE", "READY", "BLOCKED"}]
        /\ [p \in Procs |-> [s \in 0 .. 1 |-> NoFD]] \in [Procs -> [0 .. 1 -> FDs \cup {NoFD}]]
        /\ [i \in Pipes |-> FreePipe] \in [Pipes -> PipeRecord]
    BY FreePipeType
  <2>3. <<>> \in Seq(Characters \cup {EndOfFile}) /\ <<Sh>> \in Seq(Procs) /\ {Sh} \in SUBSET Procs
    BY ProcNames
  <2>4. NewLine("RAW") \in Lines
    BY NewLineOK
  <2>5. a \in ShellKernel
    BY <2>1, <2>2, <2>3, <2>4 DEF Kernel0, ShellKernel, Lines
  <2>6. \A f \in FDs : a.fd_table[f].type \in {"TERMINAL", "NONE"}
    BY DEF Kernel0, fd_init
  <2> QED BY <2>5, <2>6 DEF Sane, DataOK
<1> QED BY <1>1

\* The first state: the shell is the only process.
LEMMA InitInv ==
  ASSUME Init
  PROVE  ShellInv
<1> DEFINE a == Kernel0
           b == create_fds(a, Sh, FALSE)
<1>1. Sane(a)
  BY Kernel0Sane
<1>2. /\ a.buff = <<>> /\ a.tty = NewLine("RAW") /\ a.kbd_waiting_process = Nobody
      /\ a.born = <<Sh>> /\ \A p \in Procs : a.state[p] = "FREE"
  BY DEF Kernel0
<1> HIDE DEF a
<1>3. Turns(a, b, Sh) /\ b.state[Sh] # "FREE"
  BY <1>1, ProcNames, CreateTurns
<1>4. k = b
  BY DEF Init, a
<1> HIDE DEF b
<1>5. KernelOK(b)
  <2>1. Len(b.buff) <= BUFF_LENGTH /\ LineOK(b.tty, b.kbd_waiting_process)
    <3>1. b.buff = <<>> /\ b.tty = NewLine("RAW") /\ Len(<<>>) = 0
      BY <1>2, <1>3 DEF Turns
    <3> QED BY <3>1, NewLineOK, TerminalAssumption
  <2>2. b.kbd_waiting_process = Nobody
    BY <1>2, <1>3 DEF Turns
  <2>3. BornOK(b)
    <3>1. b.born = <<Sh>> /\ Len(<<Sh>>) = 1 /\ <<Sh>>[1] = Sh
      BY <1>2, <1>3 DEF Turns
    <3>2. \A p \in Procs : b.state[p] # "FREE" <=> p = Sh
      BY <1>2, <1>3 DEF Turns
    <3>3. \A p \in Procs : InQueue(b.born, p) <=> p = Sh
      BY <3>1 DEF InQueue
    <3>4. Injective(b.born)
      BY <3>1 DEF Injective
    <3> QED BY <3>1, <3>2, <3>3, <3>4 DEF BornOK
  <2> QED BY <1>3, <2>1, <2>2, <2>3 DEF KernelOK, Turns, Sane
<1>6. ShOK
  <2>1. "prompt" \in Places /\ "prompt" \notin PipeOpen
    BY DEF Places, PipeOpen
  <2> QED BY <2>1 DEF Init, ShOK
<1>7. NoKid \in Kids
  BY DEF NoKid, Kids
<1> QED BY <1>4, <1>5, <1>6, <1>7 DEF ShellInv, Init

\* Every key and every system call keeps the invariant.
LEMMA ShellInvStep ==
  ASSUME ShellInv, [Next]_vars
  PROVE  ShellInv'
<1>1. CASE Key
  BY <1>1, TypeStep, TypeCtrlDStep, TypeCtrlCStep DEF Key
<1>2. CASE RunSingle
  <2>1. Single \in Children
    BY DEF Children
  <2>2. CASE SetCooked("create")
    BY <2>2, SetCookedStep
  <2>3. CASE CreateSingle
    BY <2>3, CreateSingleStep
  <2>4. CASE Wait("wait", Single, "raw")
    BY <2>1, <2>4, WaitStep
  <2> QED BY <1>2, <2>2, <2>3, <2>4 DEF RunSingle
<1>3. CASE RunPipeline
  <2>1. Left \in Children /\ Right \in Children
    BY DEF Children
  <2>2. CASE MakePipe \/ CreateLeft \/ CreateRight \/ KillLeft
    BY <2>2, MakePipeStep, CreateHalfStep, KillLeftStep
  <2>3. CASE SetupLeft \/ SetupRight \/ CloseRead \/ CloseWrite \/ DropRead \/ DropWrite
    BY <2>3, SetupStep, CloseStep
  <2>4. CASE SetCooked("start_left")
    BY <2>4, SetCookedStep
  <2>5. CASE StartLeft
    BY <2>1, <2>5, StartStep DEF StartLeft
  <2>6. CASE StartRight
    <3>1. (IF sh.cmd.bg THEN "prompt" ELSE "wait_left") \in {"start_right", "prompt", "wait_left"}
      OBVIOUS
    <3> QED BY <2>1, <2>6, <3>1, StartStep DEF StartRight
  <2>7. CASE Wait("wait_left", Left, "wait_right") \/ Wait("wait_right", Right, "raw")
    BY <2>1, <2>7, WaitStep
  <2> QED BY <1>3, <2>2, <2>3, <2>4, <2>5, <2>6, <2>7 DEF RunPipeline
<1>4. CASE ReadLine \/ ProcessLine \/ SetRaw
  BY <1>4, ReadLineStep, ProcessLineStep, SetRawStep
<1>5. ASSUME NEW p \in Children, KidStep(p) PROVE ShellInv'
  BY <1>5, ReaderReadsStep, KidWritesStep, ExitStep DEF KidStep
<1>6. CASE UNCHANGED vars
  BY <1>6 DEF vars, ShellInv, ShOK
<1> QED BY <1>1, <1>2, <1>3, <1>4, <1>5, <1>6 DEF Next, ShellStep

\* Whatever is typed and however the shell and its children take turns, keys and
\* lines stay within their arrays, although keyboardDriver.c appends the newline
\* that ends a line without looking; the table of descriptors and the pipes keep
\* their form; and Ctrl+C, process_exit and process_create keep the list of
\* processes and the states of their slots together.
THEOREM ShellTypes == Spec => []ShellTypeOK
<1>1. ASSUME ShellInv PROVE ShellTypeOK
  <2>1. /\ k.state \in [Procs -> {"FREE", "READY", "BLOCKED"}]
        /\ k.fd \in [Procs -> [0 .. 1 -> FDs \cup {NoFD}]]
        /\ k.fd_table \in [FDs -> FDRecord]
        /\ k.pipe_table \in [Pipes -> PipeRecord]
        /\ k.born \in Seq(Procs)
    BY <1>1, ShellFields DEF ShellInv, KernelOK
  <2>2. Len(k.buff) <= BUFF_LENGTH /\ Len(k.tty.line) <= TTY_LINE_SIZE
    BY <1>1 DEF ShellInv, KernelOK, LineOK
  <2>3. ToSet(k.born) = {p \in Procs : Alive(p)}
    <3>1. \A p \in Procs : InQueue(k.born, p) <=> Alive(p)
      BY <1>1 DEF ShellInv, KernelOK, BornOK, Alive
    <3>2. ToSet(k.born) = {k.born[i] : i \in DOMAIN k.born} /\ DOMAIN k.born = 1 .. Len(k.born)
      BY <2>1 DEF ToSet
    <3>3. \A i \in 1 .. Len(k.born) : k.born[i] \in Procs
      BY <2>1
    <3> QED BY <3>1, <3>2, <3>3 DEF InQueue
  <2> QED BY <2>1, <2>2, <2>3 DEF ShellTypeOK
<1> QED BY <1>1, InitInv, ShellInvStep, PTL DEF Spec

(***************************************************************************)
(* Who sleeps where                                                        *)
(***************************************************************************)
InPipe(q, x) == InQueue(q.wait_readers, x) \/ InQueue(q.wait_writers, x)

\* x sleeps in pipe_read, in pipe_write, in either.
Reads(a, x) == \E i \in Pipes : InQueue(a.pipe_table[i].wait_readers, x)
Queued(a, x) == \E i \in Pipes : InPipe(a.pipe_table[i], x)

\* Nobody is in the queues of pipe i twice, and who is in one is asleep.
PipeOK(a, i) ==
  LET q == a.pipe_table[i] IN
  /\ Injective(q.wait_readers) /\ Injective(q.wait_writers)
  /\ \A x \in Procs : /\ ~(InQueue(q.wait_readers, x) /\ InQueue(q.wait_writers, x))
                      /\ InPipe(q, x) => a.state[x] = "BLOCKED"

\* Without a name, nobody sleeps at a pipe whose other end is closed.
QuietPipe(q) ==
  /\ q.name = Anonymous
  /\ \A x \in Procs : /\ q.open_read = 0 => ~InQueue(q.wait_writers, x)
                      /\ q.open_write = 0 => ~InQueue(q.wait_readers, x)
                      /\ ~q.in_use => ~InPipe(q, x)

\* Nobody sleeps at two pipes.
QueuesOK(a) ==
  /\ \A i \in Pipes : PipeOK(a, i) /\ QuietPipe(a.pipe_table[i])
  /\ \A i, j \in Pipes, x \in Procs :
       InPipe(a.pipe_table[i], x) /\ InPipe(a.pipe_table[j], x) => i = j

\* From a to b nothing but pipe i is touched, nobody goes to sleep, and who
\* leaves its queues is ready.
Stirs(a, b, i) ==
  LET q == a.pipe_table[i]
      u == b.pipe_table[i] IN
  /\ b.fd = a.fd /\ b.fd_table = a.fd_table
  /\ \A m \in Pipes : m # i => b.pipe_table[m] = a.pipe_table[m]
  /\ PipeOK(b, i)
  /\ \A x \in Procs :
       /\ InQueue(u.wait_readers, x) => InQueue(q.wait_readers, x)
       /\ InQueue(u.wait_writers, x) => InQueue(q.wait_writers, x)
       /\ InPipe(q, x) /\ ~InPipe(u, x) => b.state[x] = "READY"
       /\ ~InPipe(q, x) \/ InPipe(u, x) => b.state[x] = a.state[x]

\* One thing after the other.
LEMMA StirsTwice ==
  ASSUME NEW a, NEW b, NEW c, NEW i, Stirs(a, b, i), Stirs(b, c, i)
  PROVE  Stirs(a, c, i)
BY DEF Stirs, InPipe

\* Nothing at all.
LEMMA StirsSame ==
  ASSUME NEW a, NEW i, PipeOK(a, i)
  PROVE  Stirs(a, a, i)
BY DEF Stirs

\* What u and st say of pipe i and of the states of processes is such a step.
Shrinks(a, i, u, st) ==
  LET q == a.pipe_table[i] IN
  /\ Injective(u.wait_readers) /\ Injective(u.wait_writers)
  /\ \A x \in Procs :
       /\ InQueue(u.wait_readers, x) => InQueue(q.wait_readers, x)
       /\ InQueue(u.wait_writers, x) => InQueue(q.wait_writers, x)
       /\ InPipe(q, x) /\ ~InPipe(u, x) => st[x] = "READY"
       /\ ~InPipe(q, x) \/ InPipe(u, x) => st[x] = a.state[x]

\* Pipe i and the states are written.
MoveIn(a, i, u, st) == [a EXCEPT !.pipe_table[i] = u, !.state = st]

\* The step is taken.
LEMMA MoveInStirs ==
  ASSUME NEW a, Sane(a), NEW i \in Pipes, PipeOK(a, i), NEW u, NEW st, Shrinks(a, i, u, st)
  PROVE  Stirs(a, MoveIn(a, i, u, st), i) /\ MoveIn(a, i, u, st).pipe_table[i] = u
<1> DEFINE b == MoveIn(a, i, u, st)
<1>1. /\ b.fd = a.fd /\ b.fd_table = a.fd_table /\ b.state = st
      /\ b.pipe_table = [a.pipe_table EXCEPT ![i] = u]
  BY DEF MoveIn, Sane, ShellKernel
<1> HIDE DEF b
<1>2. b.pipe_table[i] = u /\ \A m \in Pipes : m # i => b.pipe_table[m] = a.pipe_table[m]
  BY <1>1, ShellFields DEF Sane
<1>3. PipeOK(b, i)
  BY <1>1, <1>2 DEF PipeOK, Shrinks, InPipe
<1>4. Stirs(a, b, i)
  BY <1>1, <1>2, <1>3 DEF Stirs, Shrinks
<1> QED BY <1>2, <1>4 DEF b

\* The ends, and whether the pipe is one.
SameEnds(q, u) == /\ u.name = q.name /\ u.in_use = q.in_use
                  /\ u.open_read = q.open_read /\ u.open_write = q.open_write

\* pipe_wake_reader and pipe_wake_writer.
LEMMA WakeStirs ==
  ASSUME NEW a, Sane(a), NEW i \in Pipes, PipeOK(a, i)
  PROVE  LET b == pipe_wake_reader(a, i)
             c == pipe_wake_writer(a, i)
         IN  /\ Stirs(a, b, i) /\ SameEnds(a.pipe_table[i], b.pipe_table[i])
             /\ Stirs(a, c, i) /\ SameEnds(a.pipe_table[i], c.pipe_table[i])
<1> DEFINE q == a.pipe_table[i]
<1>1. /\ q \in PipeRecord /\ q.wait_readers \in Seq(Procs) /\ q.wait_writers \in Seq(Procs)
      /\ a.state \in [Procs -> {"FREE", "READY", "BLOCKED"}]
  BY PipeAt, PipeFields, ShellFields DEF Sane
<1>2. Stirs(a, a, i) /\ SameEnds(q, q)
  BY StirsSame DEF SameEnds
<1>3. LET b == pipe_wake_reader(a, i) IN Stirs(a, b, i) /\ SameEnds(q, b.pipe_table[i])
  <2> DEFINE s == q.wait_readers
             r == queue_pop(s)
             u == [q EXCEPT !.wait_readers = r]
             st == [a.state EXCEPT ![Head(s)] = IF @ = "BLOCKED" THEN "READY" ELSE @]
             b == MoveIn(a, i, u, st)
  <2>1. pipe_wake_reader(a, i) = IF s = <<>> THEN a ELSE b
    BY DEF pipe_wake_reader, process_unblock, MoveIn
  <2>2. ASSUME s # <<>> PROVE Stirs(a, b, i) /\ SameEnds(q, b.pipe_table[i])
    <3>1. /\ u.wait_readers = r /\ u.wait_writers = q.wait_writers /\ SameEnds(q, u)
      BY <1>1 DEF PipeRecord, SameEnds
    <3>2. Len(s) > 0 /\ Injective(s)
      BY <1>1, <2>2 DEF PipeOK
    <3>3. /\ Head(s) \in Procs /\ InQueue(s, Head(s)) /\ Injective(r)
          /\ \A x \in Procs : InQueue(r, x) <=> InQueue(s, x) /\ x # Head(s)
      BY <1>1, <3>2, QueuePop
    <3> HIDE DEF r, u
    <3>4. Shrinks(a, i, u, st)
      BY <1>1, <3>1, <3>3 DEF Shrinks, PipeOK, InPipe
    <3> HIDE DEF st
    <3>5. Stirs(a, b, i) /\ b.pipe_table[i] = u
      BY <3>4, MoveInStirs
    <3> QED BY <3>1, <3>5
  <2> HIDE DEF b, s
  <2> QED BY <1>2, <2>1, <2>2
<1>4. LET b == pipe_wake_writer(a, i) IN Stirs(a, b, i) /\ SameEnds(q, b.pipe_table[i])
  <2> DEFINE s == q.wait_writers
             r == queue_pop(s)
             u == [q EXCEPT !.wait_writers = r]
             st == [a.state EXCEPT ![Head(s)] = IF @ = "BLOCKED" THEN "READY" ELSE @]
             b == MoveIn(a, i, u, st)
  <2>1. pipe_wake_writer(a, i) = IF s = <<>> THEN a ELSE b
    BY DEF pipe_wake_writer, process_unblock, MoveIn
  <2>2. ASSUME s # <<>> PROVE Stirs(a, b, i) /\ SameEnds(q, b.pipe_table[i])
    <3>1. /\ u.wait_writers = r /\ u.wait_readers = q.wait_readers /\ SameEnds(q, u)
      BY <1>1 DEF PipeRecord, SameEnds
    <3>2. Len(s) > 0 /\ Injective(s)
      BY <1>1, <2>2 DEF PipeOK
    <3>3. /\ Head(s) \in Procs /\ InQueue(s, Head(s)) /\ Injective(r)
          /\ \A x \in Procs : InQueue(r, x) <=> InQueue(s, x) /\ x # Head(s)
      BY <1>1, <3>2, QueuePop
    <3> HIDE DEF r, u
    <3>4. Shrinks(a, i, u, st)
      BY <1>1, <3>1, <3>3 DEF Shrinks, PipeOK, InPipe
    <3> HIDE DEF st
    <3>5. Stirs(a, b, i) /\ b.pipe_table[i] = u
      BY <3>4, MoveInStirs
    <3> QED BY <3>1, <3>5
  <2> HIDE DEF b, s
  <2> QED BY <1>2, <2>1, <2>2
<1> QED BY <1>3, <1>4

\* pipe_wake_all_readers and pipe_wake_all_writers.
LEMMA WakeAllStirs ==
  ASSUME NEW a, Sane(a), NEW i \in Pipes, PipeOK(a, i)
  PROVE  LET b == pipe_wake_all_readers(a, i)
             c == pipe_wake_all_writers(a, i)
         IN  /\ Stirs(a, b, i) /\ SameEnds(a.pipe_table[i], b.pipe_table[i])
             /\ \A x \in Procs : ~InQueue(b.pipe_table[i].wait_readers, x)
             /\ Stirs(a, c, i) /\ SameEnds(a.pipe_table[i], c.pipe_table[i])
             /\ \A x \in Procs : ~InQueue(c.pipe_table[i].wait_writers, x)
<1> DEFINE q == a.pipe_table[i]
<1>1. /\ q \in PipeRecord /\ q.wait_readers \in Seq(Procs) /\ q.wait_writers \in Seq(Procs)
      /\ a.state \in [Procs -> {"FREE", "READY", "BLOCKED"}]
  BY PipeAt, PipeFields, ShellFields DEF Sane
<1>2. Injective(<<>>) /\ \A x \in Procs : ~InQueue(<<>>, x)
  BY DEF Injective, InQueue
<1>3. LET b == pipe_wake_all_readers(a, i)
      IN  /\ Stirs(a, b, i) /\ SameEnds(q, b.pipe_table[i])
          /\ \A x \in Procs : ~InQueue(b.pipe_table[i].wait_readers, x)
  <2> DEFINE s == q.wait_readers
             u == [q EXCEPT !.wait_readers = <<>>]
             st == [x \in Procs |-> IF InQueue(s, x) /\ a.state[x] = "BLOCKED"
                                    THEN "READY" ELSE a.state[x]]
             b == MoveIn(a, i, u, st)
  <2>1. pipe_wake_all_readers(a, i) = b
    BY DEF pipe_wake_all_readers, unblock_all, MoveIn
  <2>2. /\ u.wait_readers = <<>> /\ u.wait_writers = q.wait_writers /\ SameEnds(q, u)
    BY <1>1 DEF PipeRecord, SameEnds
  <2> HIDE DEF u
  <2>3. Shrinks(a, i, u, st)
    BY <1>1, <1>2, <2>2 DEF Shrinks, PipeOK, InPipe
  <2> HIDE DEF st
  <2>4. Stirs(a, b, i) /\ b.pipe_table[i] = u
    BY <2>3, MoveInStirs
  <2> HIDE DEF b
  <2> QED BY <1>2, <2>1, <2>2, <2>4
<1>4. LET b == pipe_wake_all_writers(a, i)
      IN  /\ Stirs(a, b, i) /\ SameEnds(q, b.pipe_table[i])
          /\ \A x \in Procs : ~InQueue(b.pipe_table[i].wait_writers, x)
  <2> DEFINE s == q.wait_writers
             u == [q EXCEPT !.wait_writers = <<>>]
             st == [x \in Procs |-> IF InQueue(s, x) /\ a.state[x] = "BLOCKED"
                                    THEN "READY" ELSE a.state[x]]
             b == MoveIn(a, i, u, st)
  <2>1. pipe_wake_all_writers(a, i) = b
    BY DEF pipe_wake_all_writers, unblock_all, MoveIn
  <2>2. /\ u.wait_writers = <<>> /\ u.wait_readers = q.wait_readers /\ SameEnds(q, u)
    BY <1>1 DEF PipeRecord, SameEnds
  <2> HIDE DEF u
  <2>3. Shrinks(a, i, u, st)
    BY <1>1, <1>2, <2>2 DEF Shrinks, PipeOK, InPipe
  <2> HIDE DEF st
  <2>4. Stirs(a, b, i) /\ b.pipe_table[i] = u
    BY <2>3, MoveInStirs
  <2> HIDE DEF b
  <2> QED BY <1>2, <2>1, <2>2, <2>4
<1> QED BY <1>3, <1>4

\* From a to b nobody goes to sleep, and who leaves the queues is ready.
Waits(a, b) ==
  /\ QueuesOK(b) /\ b.fd = a.fd
  /\ \A x \in Procs : /\ Reads(b, x) => Reads(a, x)
                      /\ Queued(b, x) => Queued(a, x)
                      /\ ~Queued(a, x) => b.state[x] = a.state[x]
                      /\ Queued(a, x) /\ ~Queued(b, x) => b.state[x] = "READY"

\* One thing after the other.
LEMMA WaitsTwice ==
  ASSUME NEW a, NEW b, NEW c, Waits(a, b), Waits(b, c)
  PROVE  Waits(a, c)
BY DEF Waits

\* Neither queues nor states are touched.
LEMMA WaitsSame ==
  ASSUME NEW a, NEW b, QueuesOK(a), b.pipe_table = a.pipe_table, b.state = a.state, b.fd = a.fd
  PROVE  Waits(a, b)
<1>1. QueuesOK(b)
  BY DEF QueuesOK, PipeOK
<1>2. \A x : (Reads(b, x) <=> Reads(a, x)) /\ (Queued(b, x) <=> Queued(a, x))
  BY DEF Reads, Queued
<1> QED BY <1>1, <1>2 DEF Waits

\* A step at one pipe is one of all.
LEMMA StirsWaits ==
  ASSUME NEW a, NEW b, NEW i \in Pipes, QueuesOK(a), Stirs(a, b, i), QuietPipe(b.pipe_table[i])
  PROVE  Waits(a, b)
<1>1. ASSUME NEW m \in Pipes, NEW x \in Procs
      PROVE  /\ InQueue(b.pipe_table[m].wait_readers, x) => InQueue(a.pipe_table[m].wait_readers, x)
             /\ InPipe(b.pipe_table[m], x) => InPipe(a.pipe_table[m], x)
             /\ m # i => (InPipe(b.pipe_table[m], x) <=> InPipe(a.pipe_table[m], x))
  <2>1. CASE m = i
    BY <2>1 DEF Stirs, InPipe
  <2>2. CASE m # i
    BY <2>2 DEF Stirs
  <2> QED BY <2>1, <2>2
<1>2. ASSUME NEW m \in Pipes, NEW x \in Procs, InPipe(b.pipe_table[m], x)
      PROVE  b.state[x] = "BLOCKED"
  <2>1. CASE m = i
    BY <1>2, <2>1 DEF Stirs, PipeOK
  <2>2. CASE m # i
    <3>1. InPipe(a.pipe_table[m], x) /\ ~InPipe(a.pipe_table[i], x)
      BY <1>1, <1>2, <2>2 DEF QueuesOK
    <3>2. b.state[x] = a.state[x]
      BY <3>1 DEF Stirs
    <3> QED BY <3>1, <3>2 DEF QueuesOK, PipeOK
  <2> QED BY <2>1, <2>2
<1>3. ASSUME NEW m \in Pipes PROVE PipeOK(b, m) /\ QuietPipe(b.pipe_table[m])
  <2>1. CASE m = i
    BY <2>1 DEF Stirs
  <2>2. CASE m # i
    <3>1. b.pipe_table[m] = a.pipe_table[m]
      BY <2>2 DEF Stirs
    <3> QED BY <1>2, <3>1 DEF QueuesOK, PipeOK
  <2> QED BY <2>1, <2>2
<1>4. QueuesOK(b)
  BY <1>1, <1>3 DEF QueuesOK
<1>5. ASSUME NEW x \in Procs
      PROVE  /\ Reads(b, x) => Reads(a, x)
             /\ Queued(b, x) => Queued(a, x)
             /\ ~Queued(a, x) => b.state[x] = a.state[x]
             /\ Queued(a, x) /\ ~Queued(b, x) => b.state[x] = "READY"
  <2>1. (Reads(b, x) => Reads(a, x)) /\ (Queued(b, x) => Queued(a, x))
    BY <1>1 DEF Reads, Queued
  <2>2. ~Queued(a, x) => b.state[x] = a.state[x]
    BY DEF Queued, Stirs
  <2>3. ASSUME Queued(a, x), ~Queued(b, x) PROVE b.state[x] = "READY"
    <3>1. PICK m \in Pipes : InPipe(a.pipe_table[m], x)
      BY <2>3 DEF Queued
    <3>2. ~InPipe(b.pipe_table[m], x) /\ ~InPipe(b.pipe_table[i], x)
      BY <2>3 DEF Queued
    <3>3. m = i
      BY <1>1, <3>1, <3>2
    <3> QED BY <3>1, <3>2, <3>3 DEF Stirs
  <2> QED BY <2>1, <2>2, <2>3
<1>6. b.fd = a.fd
  BY DEF Stirs
<1> QED BY <1>4, <1>5, <1>6 DEF Waits

\* Other parts of a pipe than its queues are written.
LEMMA OtherStirs ==
  ASSUME NEW a, Sane(a), NEW i \in Pipes, PipeOK(a, i), NEW u,
         u.wait_readers = a.pipe_table[i].wait_readers,
         u.wait_writers = a.pipe_table[i].wait_writers
  PROVE  Stirs(a, PipeIn(a, i, u), i) /\ PipeIn(a, i, u).pipe_table[i] = u
<1>1. PipeIn(a, i, u) = MoveIn(a, i, u, a.state)
  BY DEF PipeIn, MoveIn, Sane, ShellKernel
<1>2. Shrinks(a, i, u, a.state)
  BY DEF Shrinks, PipeOK, InPipe
<1> QED BY <1>1, <1>2, MoveInStirs

\* A pipe in a state where nobody sleeps twice.
LEMMA PipeOf ==
  ASSUME NEW a, Sane(a), QueuesOK(a), NEW i \in Pipes
  PROVE  /\ a.pipe_table[i] \in PipeRecord /\ a.pipe_table[i].open_read \in Nat
         /\ a.pipe_table[i].open_write \in Nat /\ a.pipe_table[i].in_use \in BOOLEAN
         /\ PipeOK(a, i) /\ QuietPipe(a.pipe_table[i]) /\ ~is_named(a.pipe_table[i])
<1>1. a.pipe_table[i] \in PipeRecord
  BY PipeAt
<1>2. PipeOK(a, i) /\ QuietPipe(a.pipe_table[i])
  BY DEF QueuesOK
<1> QED BY <1>1, <1>2, PipeFields DEF QuietPipe, is_named

\* An end is counted anew, r readers and w writers.
CountIn(q, r, w) == [q EXCEPT !.open_read = r, !.open_write = w]

\* That leaves the queues alone.
LEMMA CountFields ==
  ASSUME NEW q \in PipeRecord, NEW r, NEW w
  PROVE  LET u == CountIn(q, r, w)
         IN  /\ u.wait_readers = q.wait_readers /\ u.wait_writers = q.wait_writers
             /\ u.name = q.name /\ u.in_use = q.in_use /\ u.open_read = r /\ u.open_write = w
             /\ \A x : InPipe(u, x) <=> InPipe(q, x)
BY DEF CountIn, PipeRecord, InPipe

\* pipe_open_read and pipe_open_write, of a pipe without a name.
LEMMA OpenWaits ==
  ASSUME NEW a, Sane(a), QueuesOK(a), NEW i \in Pipes
  PROVE  LET q == a.pipe_table[i] IN
         /\ Waits(a, pipe_open_read(a, i)) /\ Waits(a, pipe_open_write(a, i))
         /\ pipe_open_read(a, i) = PipeIn(a, i, CountIn(q, q.open_read + 1, q.open_write))
         /\ pipe_open_write(a, i) = PipeIn(a, i, CountIn(q, q.open_read, q.open_write + 1))
<1> DEFINE q == a.pipe_table[i]
           u == CountIn(q, q.open_read + 1, q.open_write)
           v == CountIn(q, q.open_read, q.open_write + 1)
<1>1. /\ q \in PipeRecord /\ q.open_read \in Nat /\ q.open_write \in Nat /\ q.name = Anonymous
      /\ PipeOK(a, i) /\ QuietPipe(q)
  BY PipeOf DEF is_named
<1>2. pipe_open_read(a, i) = PipeIn(a, i, u) /\ pipe_open_write(a, i) = PipeIn(a, i, v)
  <2> DEFINE b == [a EXCEPT !.pipe_table[i].open_read = @ + 1]
             c == [a EXCEPT !.pipe_table[i].open_write = @ + 1]
  <2>1. b = PipeIn(a, i, u) /\ c = PipeIn(a, i, v)
    BY <1>1 DEF PipeIn, CountIn, PipeRecord
  <2>2. ~is_named(b.pipe_table[i]) /\ ~is_named(c.pipe_table[i])
    <3> HIDE DEF b, c, u, v
    <3>1. b.pipe_table[i] = u /\ c.pipe_table[i] = v
      BY <2>1, ShellFields DEF Sane, PipeIn, ShellKernel
    <3>2. u.name = Anonymous /\ v.name = Anonymous
      BY <1>1, CountFields DEF u, v
    <3> QED BY <3>1, <3>2 DEF is_named
  <2> QED BY <2>1, <2>2 DEF pipe_open_read, pipe_open_write
<1>3. /\ u.wait_readers = q.wait_readers /\ u.wait_writers = q.wait_writers /\ QuietPipe(u)
      /\ v.wait_readers = q.wait_readers /\ v.wait_writers = q.wait_writers /\ QuietPipe(v)
  BY <1>1, CountFields DEF QuietPipe
<1> HIDE DEF u, v
<1>4. /\ Stirs(a, PipeIn(a, i, u), i) /\ PipeIn(a, i, u).pipe_table[i] = u
      /\ Stirs(a, PipeIn(a, i, v), i) /\ PipeIn(a, i, v).pipe_table[i] = v
  BY <1>1, <1>3, OtherStirs
<1>5. Waits(a, PipeIn(a, i, u)) /\ Waits(a, PipeIn(a, i, v))
  BY <1>3, <1>4, StirsWaits
<1> QED BY <1>2, <1>5 DEF u, v

\* From a to b pipe i comes to have r readers and w writers, or goes if that is none.
Counted(a, b, i, r, w) ==
  /\ b.fd_table = a.fd_table
  /\ \A m \in Pipes : m # i => b.pipe_table[m] = a.pipe_table[m]
  /\ LET u == b.pipe_table[i]
     IN  /\ u.open_read = r /\ u.open_write = w
         /\ u.in_use <=> a.pipe_table[i].in_use /\ ~(r = 0 /\ w = 0)

\* pipe_maybe_free: nobody sleeps at a pipe that goes.
LEMMA MaybeFreeWaits ==
  ASSUME NEW a, Sane(a), QueuesOK(a), NEW i \in Pipes
  PROVE  /\ Waits(a, pipe_maybe_free(a, i))
         /\ Counted(a, pipe_maybe_free(a, i), i,
                    a.pipe_table[i].open_read, a.pipe_table[i].open_write)
<1> DEFINE q == a.pipe_table[i]
           u == [pipe_reset(q) EXCEPT !.in_use = FALSE]
           b == MoveIn(a, i, u, a.state)
<1>1. pipe_maybe_free(a, i) = IF q.open_read = 0 /\ q.open_write = 0 THEN b ELSE a
  BY DEF pipe_maybe_free, MoveIn, Sane, ShellKernel
<1>2. PipeOK(a, i) /\ QuietPipe(q)
  BY PipeOf
<1>3. /\ u.wait_readers = <<>> /\ u.wait_writers = <<>> /\ u.name = Anonymous
      /\ u.open_read = 0 /\ u.open_write = 0 /\ u.in_use = FALSE
  BY DEF pipe_reset, FreePipe
<1>4. Injective(<<>>) /\ \A x \in Procs : ~InQueue(<<>>, x)
  BY DEF Injective, InQueue
<1> HIDE DEF u
<1>5. ASSUME q.open_read = 0, q.open_write = 0 PROVE Waits(a, b) /\ Counted(a, b, i, 0, 0)
  <2>1. Shrinks(a, i, u, a.state)
    BY <1>2, <1>3, <1>4, <1>5 DEF Shrinks, QuietPipe, InPipe
  <2>2. QuietPipe(u)
    BY <1>3, <1>4 DEF QuietPipe, InPipe
  <2>3. Stirs(a, b, i) /\ b.pipe_table[i] = u
    BY <1>2, <2>1, MoveInStirs
  <2> HIDE DEF b
  <2>4. Counted(a, b, i, 0, 0)
    BY <1>3, <2>3 DEF Counted, Stirs
  <2> QED BY <2>2, <2>3, <2>4, StirsWaits
<1>6. Waits(a, a)
  BY WaitsSame
<1>7. ~(q.open_read = 0 /\ q.open_write = 0) => Counted(a, a, i, q.open_read, q.open_write)
  BY DEF Counted
<1> HIDE DEF b
<1> QED BY <1>1, <1>5, <1>6, <1>7

\* A reference goes, if there is one.
Less(n) == IF n > 0 THEN n - 1 ELSE n

\* pipe_close_read and pipe_close_write: whoever sleeps at the other end is woken
\* with the last reference, so nobody sleeps at a pipe that goes.
LEMMA CloseWaits ==
  ASSUME NEW a, Sane(a), QueuesOK(a), NEW i \in Pipes
  PROVE  LET q == a.pipe_table[i]
             b == pipe_close_read(a, i)
             c == pipe_close_write(a, i)
         IN  /\ Waits(a, b) /\ Counted(a, b, i, Less(q.open_read), q.open_write)
             /\ Waits(a, c) /\ Counted(a, c, i, q.open_read, Less(q.open_write))
<1> DEFINE q == a.pipe_table[i]
           less(n) == IF n > 0 THEN n - 1 ELSE n
<1>1. /\ q \in PipeRecord /\ q.open_read \in Nat /\ q.open_write \in Nat /\ q.name = Anonymous
      /\ PipeOK(a, i) /\ QuietPipe(q) /\ q.eof \in BOOLEAN
  BY PipeOf, PipeFields DEF is_named
<1>2. ASSUME NEW r \in Nat, NEW w \in Nat
      PROVE  LET u == CountIn(q, r, w)
                 b == PipeIn(a, i, u)
             IN  /\ Keeps(a, b) /\ Sane(b) /\ Stirs(a, b, i) /\ b.pipe_table[i] = u /\ PipeOK(b, i)
                 /\ u \in PipeRecord
  <2> DEFINE u == CountIn(q, r, w)
             b == PipeIn(a, i, u)
  <2>1. u \in PipeRecord
    BY <1>1 DEF CountIn, PipeRecord
  <2>2. u.wait_readers = q.wait_readers /\ u.wait_writers = q.wait_writers
    BY <1>1, CountFields
  <2> HIDE DEF u
  <2>3. Keeps(a, b) /\ b.pipe_table[i] = u
    BY <2>1, PipeInKeeps
  <2>4. Stirs(a, b, i)
    BY <1>1, <2>2, OtherStirs
  <2> HIDE DEF b
  <2>5. Sane(b) /\ PipeOK(b, i)
    BY <2>3, <2>4, KeepsOK DEF Stirs
  <2> QED BY <2>1, <2>3, <2>4, <2>5 DEF b, u
<1>3. /\ Waits(a, pipe_close_read(a, i))
      /\ Counted(a, pipe_close_read(a, i), i, less(q.open_read), q.open_write)
  <2> DEFINE r == less(q.open_read)
             w == q.open_write
             u == CountIn(q, r, w)
             b == PipeIn(a, i, u)
             c == IF u.open_read = 0 THEN pipe_wake_all_writers(b, i) ELSE b
  <2>1. r \in Nat /\ w \in Nat
    BY <1>1
  <2>2. /\ Keeps(a, b) /\ Sane(b) /\ Stirs(a, b, i) /\ b.pipe_table[i] = u /\ PipeOK(b, i)
        /\ u \in PipeRecord
    BY <1>2, <2>1
  <2>3. pipe_close_read(a, i) = pipe_maybe_free(c, i)
    <3>1. [a EXCEPT !.pipe_table[i].open_read = IF @ > 0 THEN @ - 1 ELSE @] = b
      BY <1>1 DEF PipeIn, CountIn, PipeRecord
    <3> HIDE DEF b, u
    <3> QED BY <2>2, <3>1 DEF pipe_close_read
  <2>4. /\ u.open_read = r /\ u.open_write = w /\ u.name = Anonymous /\ u.in_use = q.in_use
        /\ \A x \in Procs : /\ InQueue(u.wait_readers, x) <=> InQueue(q.wait_readers, x)
                            /\ InQueue(u.wait_writers, x) <=> InQueue(q.wait_writers, x)
    BY <1>1, CountFields
  <2> HIDE DEF b, u, r, w
  <2>5. /\ Stirs(a, c, i) /\ Keeps(b, c) /\ SameEnds(u, c.pipe_table[i])
        /\ r = 0 => \A x \in Procs : ~InQueue(c.pipe_table[i].wait_writers, x)
    <3>1. CASE r = 0
      <4> DEFINE d == pipe_wake_all_writers(b, i)
      <4>1. /\ Stirs(b, d, i) /\ SameEnds(u, d.pipe_table[i])
            /\ \A x \in Procs : ~InQueue(d.pipe_table[i].wait_writers, x)
        BY <2>2, WakeAllStirs
      <4>2. Keeps(b, d)
        BY <2>2, WakeAllKeeps
      <4>3. c = d
        BY <2>4, <3>1
      <4> HIDE DEF c, d
      <4> QED BY <2>2, <4>1, <4>2, <4>3, StirsTwice
    <3>2. CASE r # 0
      <4>1. c = b
        BY <2>4, <3>2
      <4> HIDE DEF c
      <4>2. Keeps(b, b) /\ SameEnds(u, u)
        BY <2>2, KeepsSame DEF SameEnds
      <4> QED BY <2>2, <3>2, <4>1, <4>2
    <3> QED BY <3>1, <3>2
  <2> HIDE DEF c
  <2>6. QuietPipe(c.pipe_table[i])
    <3> DEFINE v == c.pipe_table[i]
    <3>1. \A x \in Procs : /\ InQueue(v.wait_readers, x) => InQueue(q.wait_readers, x)
                           /\ InQueue(v.wait_writers, x) => InQueue(q.wait_writers, x)
      BY <2>5 DEF Stirs
    <3>2. v.name = Anonymous /\ v.open_read = r /\ v.open_write = q.open_write /\ v.in_use = q.in_use
      BY <2>4, <2>5 DEF SameEnds, w
    <3> HIDE DEF v
    <3>3. r = 0 => \A x \in Procs : ~InQueue(v.wait_writers, x)
      BY <2>5 DEF v
    <3>4. QuietPipe(v)
      BY <1>1, <3>1, <3>2, <3>3 DEF QuietPipe, InPipe
    <3> QED BY <3>4 DEF v
  <2>7. Waits(a, c) /\ Sane(c)
    BY <2>5, <2>6, StirsWaits, KeepsOK
  <2> DEFINE z == pipe_maybe_free(c, i)
  <2>8. /\ Waits(c, z)
        /\ Counted(c, z, i, c.pipe_table[i].open_read, c.pipe_table[i].open_write)
    BY <2>7, MaybeFreeWaits DEF Waits
  <2>9. c.pipe_table[i].open_read = r /\ c.pipe_table[i].open_write = w
        /\ c.pipe_table[i].in_use = q.in_use
    BY <2>4, <2>5 DEF SameEnds
  <2> HIDE DEF z
  <2>10. Counted(a, z, i, r, w)
    BY <2>5, <2>8, <2>9 DEF Counted, Stirs
  <2>11. Waits(a, z)
    BY <2>7, <2>8, WaitsTwice
  <2> QED BY <2>3, <2>10, <2>11 DEF z, r, w
<1>4. /\ Waits(a, pipe_close_write(a, i))
      /\ Counted(a, pipe_close_write(a, i), i, q.open_read, less(q.open_write))
  <2> DEFINE r == q.open_read
             w == less(q.open_write)
             u == CountIn(q, r, w)
             b == PipeIn(a, i, u)
             c == IF u.open_write = 0 THEN pipe_wake_all_readers(b, i) ELSE b
  <2>1. r \in Nat /\ w \in Nat
    BY <1>1
  <2>2. /\ Keeps(a, b) /\ Sane(b) /\ Stirs(a, b, i) /\ b.pipe_table[i] = u /\ PipeOK(b, i)
        /\ u \in PipeRecord
    BY <1>2, <2>1
  <2>3. /\ u.open_read = r /\ u.open_write = w /\ u.name = Anonymous /\ u.in_use = q.in_use
        /\ \A x \in Procs : /\ InQueue(u.wait_readers, x) <=> InQueue(q.wait_readers, x)
                            /\ InQueue(u.wait_writers, x) <=> InQueue(q.wait_writers, x)
    BY <1>1, CountFields
  <2>4. [a EXCEPT !.pipe_table[i].open_write = IF @ > 0 THEN @ - 1 ELSE @] = b
    BY <1>1 DEF PipeIn, CountIn, PipeRecord
  <2> HIDE DEF b, u, r, w
  <2>5. pipe_close_write(a, i) = pipe_maybe_free(c, i)
    <3> DEFINE e == [a EXCEPT !.pipe_table[i].open_write = IF @ > 0 THEN @ - 1 ELSE @]
               v == e.pipe_table[i]
               d == [e EXCEPT !.pipe_table[i].eof = @ \/ (is_named(v) /\ v.opens >= 2)]
    <3>0. pipe_close_write(a, i) =
            pipe_maybe_free(IF v.open_write = 0 THEN pipe_wake_all_readers(d, i) ELSE e, i)
      BY DEF pipe_close_write
    <3>1. e = b
      BY <2>4
    <3> HIDE DEF e
    <3>2. u.eof \in BOOLEAN /\ ~is_named(u) /\ v = u
      BY <2>2, <2>3, <3>1, PipeFields DEF is_named
    <3>3. (v.eof \/ (is_named(v) /\ v.opens >= 2)) = u.eof
      BY <3>2
    <3>4. d = [e EXCEPT !.pipe_table[i].eof = u.eof]
      BY <3>3
    <3>5. [b EXCEPT !.pipe_table[i].eof = u.eof] = b
      BY <2>2, ShellFields DEF Sane, ShellKernel, PipeRecord
    <3> HIDE DEF d
    <3>6. d = b
      BY <3>1, <3>4, <3>5
    <3> HIDE DEF v
    <3> QED BY <3>0, <3>1, <3>2, <3>6
  <2>6. /\ Stirs(a, c, i) /\ Keeps(b, c) /\ SameEnds(u, c.pipe_table[i])
        /\ w = 0 => \A x \in Procs : ~InQueue(c.pipe_table[i].wait_readers, x)
    <3>1. CASE w = 0
      <4> DEFINE d == pipe_wake_all_readers(b, i)
      <4>1. /\ Stirs(b, d, i) /\ SameEnds(u, d.pipe_table[i])
            /\ \A x \in Procs : ~InQueue(d.pipe_table[i].wait_readers, x)
        BY <2>2, WakeAllStirs
      <4>2. Keeps(b, d)
        BY <2>2, WakeAllKeeps
      <4>3. c = d
        BY <2>3, <3>1
      <4> HIDE DEF c, d
      <4> QED BY <2>2, <4>1, <4>2, <4>3, StirsTwice
    <3>2. CASE w # 0
      <4>1. c = b
        BY <2>3, <3>2
      <4> HIDE DEF c
      <4>2. Keeps(b, b) /\ SameEnds(u, u)
        BY <2>2, KeepsSame DEF SameEnds
      <4> QED BY <2>2, <3>2, <4>1, <4>2
    <3> QED BY <3>1, <3>2
  <2> HIDE DEF c
  <2>7. QuietPipe(c.pipe_table[i])
    <3> DEFINE v == c.pipe_table[i]
    <3>1. \A x \in Procs : /\ InQueue(v.wait_readers, x) => InQueue(q.wait_readers, x)
                           /\ InQueue(v.wait_writers, x) => InQueue(q.wait_writers, x)
      BY <2>6 DEF Stirs
    <3>2. v.name = Anonymous /\ v.open_read = q.open_read /\ v.open_write = w /\ v.in_use = q.in_use
      BY <2>3, <2>6 DEF SameEnds, r
    <3> HIDE DEF v
    <3>3. w = 0 => \A x \in Procs : ~InQueue(v.wait_readers, x)
      BY <2>6 DEF v
    <3>4. QuietPipe(v)
      BY <1>1, <3>1, <3>2, <3>3 DEF QuietPipe, InPipe
    <3> QED BY <3>4 DEF v
  <2>8. Waits(a, c) /\ Sane(c)
    BY <2>6, <2>7, StirsWaits, KeepsOK
  <2> DEFINE z == pipe_maybe_free(c, i)
  <2>9. /\ Waits(c, z)
        /\ Counted(c, z, i, c.pipe_table[i].open_read, c.pipe_table[i].open_write)
    BY <2>8, MaybeFreeWaits DEF Waits
  <2>10. c.pipe_table[i].open_read = r /\ c.pipe_table[i].open_write = w
         /\ c.pipe_table[i].in_use = q.in_use
    BY <2>3, <2>6 DEF SameEnds
  <2> HIDE DEF z
  <2>11. Counted(a, z, i, r, w)
    BY <2>6, <2>9, <2>10 DEF Counted, Stirs
  <2>12. Waits(a, z)
    BY <2>8, <2>9, WaitsTwice
  <2> QED BY <2>5, <2>11, <2>12 DEF z, r, w
<1> QED BY <1>3, <1>4 DEF Less

(***************************************************************************)
(* Descriptors and the ends of pipes                                       *)
(***************************************************************************)
Terms == {FD_STDIN, FD_STDOUT}
PipeEnds == {"PIPE_READ", "PIPE_WRITE"}

\* How many references pipe i counts at its end of that type.
EndCount(a, type, i) ==
  IF type = "PIPE_READ" THEN a.pipe_table[i].open_read ELSE a.pipe_table[i].open_write

\* The terminal has its two descriptors, an end of a pipe at most one; the pipe is
\* in use and counts the descriptor's references; and there are some, but for g.
TablesBut(a, g) ==
  /\ \A f \in FDs : a.fd_table[f].type = "TERMINAL" <=> f \in Terms
  /\ \A f \in FDs : LET d == a.fd_table[f] IN
       d.type \in PipeEnds => /\ a.pipe_table[d.data].in_use
                              /\ EndCount(a, d.type, d.data) = d.refcount
                              /\ f # g => d.refcount > 0
  /\ \A f, h \in FDs : LET d == a.fd_table[f]
                           e == a.fd_table[h]
                       IN  d.type \in PipeEnds /\ e.type = d.type /\ e.data = d.data => f = h

TablesOK(a) == TablesBut(a, NoFD)

\* Neither descriptors nor the ends of pipes change.
SameTables(a, b) == /\ b.fd_table = a.fd_table
                    /\ \A m \in Pipes : SameEnds(a.pipe_table[m], b.pipe_table[m])

\* Then they are as right as they were.
LEMMA SameTablesOK ==
  ASSUME NEW a, Sane(a), NEW b, NEW g, TablesBut(a, g), SameTables(a, b)
  PROVE  TablesBut(b, g)
<1>1. \A f \in FDs : b.fd_table[f] = a.fd_table[f]
  BY DEF SameTables
<1>2. ASSUME NEW f \in FDs, a.fd_table[f].type \in PipeEnds
      PROVE  LET d == a.fd_table[f] IN
             /\ b.pipe_table[d.data].in_use = a.pipe_table[d.data].in_use
             /\ EndCount(b, d.type, d.data) = EndCount(a, d.type, d.data)
  <2>1. a.fd_table[f].data \in Pipes
    BY <1>2, FDAt DEF PipeEnds
  <2> QED BY <2>1 DEF SameTables, SameEnds, EndCount
<1> QED BY <1>1, <1>2 DEF TablesBut

\* From a to b descriptor f comes to have n references, at both tables; without
\* any it is free, and the pipe goes if that was its last.
Moved(a, b, f, n) ==
  LET d == a.fd_table[f]
      e == b.fd_table[f]
      q == a.pipe_table[d.data]
      u == b.pipe_table[d.data] IN
  /\ \A h \in FDs : h # f => b.fd_table[h] = a.fd_table[h]
  /\ IF n = 0 THEN e.type = "NONE" ELSE e.type = d.type /\ e.data = d.data /\ e.refcount = n
  /\ \A m \in Pipes : m # d.data => b.pipe_table[m] = a.pipe_table[m]
  /\ u.open_read = (IF d.type = "PIPE_READ" THEN n ELSE q.open_read)
  /\ u.open_write = (IF d.type = "PIPE_WRITE" THEN n ELSE q.open_write)
  /\ u.in_use <=> q.in_use /\ ~(u.open_read = 0 /\ u.open_write = 0)

\* The tables agree afterwards.
LEMMA MovedOK ==
  ASSUME NEW a, Sane(a), NEW b, NEW f \in FDs, TablesBut(a, f), NEW n \in Nat,
         a.fd_table[f].type \in PipeEnds, Moved(a, b, f, n)
  PROVE  TablesOK(b)
<1> DEFINE d == a.fd_table[f]
           e == b.fd_table[f]
           i == d.data
           q == a.pipe_table[i]
           u == b.pipe_table[i]
<1>1. /\ d.type \in PipeEnds /\ i \in Pipes /\ q.in_use /\ q.open_read \in Nat /\ q.open_write \in Nat
      /\ f \notin Terms
  <2>1. i \in Pipes
    BY FDAt DEF PipeEnds
  <2>2. q \in PipeRecord
    BY <2>1, PipeAt
  <2>3. f \notin Terms
    BY DEF TablesBut, PipeEnds
  <2> QED BY <2>1, <2>2, <2>3, PipeFields DEF TablesBut
<1>2. /\ \A h \in FDs : h # f => b.fd_table[h] = a.fd_table[h]
      /\ IF n = 0 THEN e.type = "NONE" ELSE e.type = d.type /\ e.data = i /\ e.refcount = n
      /\ \A m \in Pipes : m # i => b.pipe_table[m] = a.pipe_table[m]
      /\ u.open_read = (IF d.type = "PIPE_READ" THEN n ELSE q.open_read)
      /\ u.open_write = (IF d.type = "PIPE_WRITE" THEN n ELSE q.open_write)
      /\ u.in_use <=> ~(u.open_read = 0 /\ u.open_write = 0)
  BY <1>1 DEF Moved
<1>3. ASSUME NEW h \in FDs
      PROVE  b.fd_table[h].type = "TERMINAL" <=> h \in Terms
  <2>1. CASE h = f
    BY <1>1, <1>2, <2>1 DEF PipeEnds
  <2>2. CASE h # f
    BY <1>2, <2>2 DEF TablesBut
  <2> QED BY <2>1, <2>2
<1>4. ASSUME NEW h \in FDs, b.fd_table[h].type \in PipeEnds
      PROVE  LET x == b.fd_table[h] IN
             /\ x.type = a.fd_table[h].type /\ x.data = a.fd_table[h].data
             /\ b.pipe_table[x.data].in_use
             /\ EndCount(b, x.type, x.data) = x.refcount
             /\ x.refcount > 0
  <2> DEFINE x == b.fd_table[h]
  <2>1. CASE h = f
    <3>1. n # 0 /\ x.type = d.type /\ x.data = i /\ x.refcount = n
      BY <1>2, <1>4, <2>1 DEF PipeEnds
    <3>2. n > 0
      BY <3>1
    <3>3. EndCount(b, d.type, i) = n
      BY <1>1, <1>2 DEF EndCount, PipeEnds
    <3>4. u.in_use
      BY <1>1, <1>2, <3>1 DEF PipeEnds
    <3> QED BY <2>1, <3>1, <3>2, <3>3, <3>4
  <2>2. CASE h # f
    <3>1. x = a.fd_table[h] /\ x.type \in PipeEnds
      BY <1>2, <1>4, <2>2
    <3>2. /\ a.pipe_table[x.data].in_use /\ EndCount(a, x.type, x.data) = x.refcount
          /\ x.refcount > 0 /\ (x.data = i => x.type # d.type)
      BY <2>2, <3>1 DEF TablesBut
    <3>3. x.data \in Pipes
      BY <3>1, FDAt DEF PipeEnds
    <3> HIDE DEF x
    <3>4. CASE x.data # i
      BY <1>2, <3>1, <3>2, <3>3, <3>4 DEF EndCount, x
    <3>5. CASE x.data = i
      <4>1. EndCount(b, x.type, i) = EndCount(a, x.type, i)
        BY <1>1, <1>2, <3>1, <3>2, <3>5 DEF EndCount, PipeEnds
      <4>2. u.in_use
        BY <1>2, <3>1, <3>2, <3>5, <4>1 DEF EndCount, PipeEnds
      <4> QED BY <3>1, <3>2, <3>5, <4>1, <4>2 DEF x
    <3> QED BY <3>4, <3>5
  <2> QED BY <2>1, <2>2
<1>5. ASSUME NEW g \in FDs, NEW h \in FDs, b.fd_table[g].type \in PipeEnds,
             b.fd_table[h].type = b.fd_table[g].type, b.fd_table[h].data = b.fd_table[g].data
      PROVE  g = h
  <2>1. /\ a.fd_table[g].type \in PipeEnds /\ a.fd_table[h].type = a.fd_table[g].type
        /\ a.fd_table[h].data = a.fd_table[g].data
    BY <1>4, <1>5
  <2> QED BY <2>1 DEF TablesBut
<1> QED BY <1>3, <1>4, <1>5 DEF TablesOK, TablesBut

\* A descriptor is written.
LEMMA FDInFields ==
  ASSUME NEW a, Sane(a), QueuesOK(a), NEW f \in FDs, NEW d
  PROVE  LET b == FDIn(a, f, d)
         IN  /\ b.state = a.state /\ b.fd = a.fd /\ b.pipe_table = a.pipe_table
             /\ b.fd_table[f] = d
             /\ \A h \in FDs : h # f => b.fd_table[h] = a.fd_table[h]
             /\ Waits(a, b) /\ QueuesOK(b)
<1> DEFINE b == FDIn(a, f, d)
<1>1. /\ b.state = a.state /\ b.fd = a.fd /\ b.pipe_table = a.pipe_table
      /\ b.fd_table = [a.fd_table EXCEPT ![f] = d]
  BY DEF FDIn, Sane, ShellKernel
<1> HIDE DEF b
<1>2. b.fd_table[f] = d /\ \A h \in FDs : h # f => b.fd_table[h] = a.fd_table[h]
  BY <1>1, ShellFields DEF Sane
<1>3. Waits(a, b)
  BY <1>1, WaitsSame
<1> QED BY <1>1, <1>2, <1>3 DEF b, Waits

\* A descriptor with n references.
RefsIn(d, n) == [d EXCEPT !.refcount = n]

\* The references to descriptor f are counted anew.
LEMMA RecountWaits ==
  ASSUME NEW a, Sane(a), QueuesOK(a), NEW f \in FDs, NEW n \in Nat
  PROVE  LET d == a.fd_table[f]
             e == RefsIn(d, n)
             b == FDIn(a, f, e)
         IN  /\ Keeps(a, b) /\ Sane(b) /\ QueuesOK(b) /\ Waits(a, b)
             /\ [a EXCEPT !.fd_table[f].refcount = n] = b
             /\ b.fd = a.fd /\ b.pipe_table = a.pipe_table /\ b.fd_table[f] = e
             /\ \A h \in FDs : h # f => b.fd_table[h] = a.fd_table[h]
             /\ e.type = d.type /\ e.data = d.data /\ e.refcount = n
<1> DEFINE d == a.fd_table[f]
           e == RefsIn(d, n)
           b == FDIn(a, f, e)
<1>1. d \in FDRecord /\ (d.type \in {"PIPE_READ", "PIPE_WRITE"} => d.data \in Pipes)
  BY FDAt
<1>2. e \in FDRecord /\ e.type = d.type /\ e.data = d.data /\ e.refcount = n
  BY <1>1 DEF FDRecord, RefsIn
<1>3. [a EXCEPT !.fd_table[f].refcount = n] = b
  BY DEF FDIn, RefsIn
<1> HIDE DEF e, d
<1>4. Keeps(a, b)
  BY <1>1, <1>2, FDInKeeps
<1>5. Sane(b)
  BY <1>4, KeepsOK
<1>6. /\ b.fd = a.fd /\ b.pipe_table = a.pipe_table /\ b.fd_table[f] = e
      /\ \A h \in FDs : h # f => b.fd_table[h] = a.fd_table[h]
      /\ Waits(a, b) /\ QueuesOK(b)
  BY FDInFields
<1> HIDE DEF b
<1>7. /\ Keeps(a, b) /\ Sane(b) /\ QueuesOK(b) /\ Waits(a, b)
      /\ [a EXCEPT !.fd_table[f].refcount = n] = b
      /\ b.fd = a.fd /\ b.pipe_table = a.pipe_table /\ b.fd_table[f] = e
      /\ \A h \in FDs : h # f => b.fd_table[h] = a.fd_table[h]
      /\ e.type = d.type /\ e.data = d.data /\ e.refcount = n
  BY <1>2, <1>3, <1>4, <1>5, <1>6
<1> QED BY <1>7 DEF b, d, e

\* A descriptor of the terminal, or of nothing, is recounted.
LEMMA OtherTables ==
  ASSUME NEW a, Sane(a), NEW f \in FDs, TablesBut(a, f), a.fd_table[f].type \notin PipeEnds, NEW b,
         b.pipe_table = a.pipe_table, b.fd_table[f].type = a.fd_table[f].type,
         \A h \in FDs : h # f => b.fd_table[h] = a.fd_table[h]
  PROVE  TablesOK(b)
<1>1. \A h \in FDs : /\ b.fd_table[h].type = a.fd_table[h].type
                     /\ b.fd_table[h].type \in PipeEnds => h # f /\ b.fd_table[h] = a.fd_table[h]
  OBVIOUS
<1>2. \A type, i : EndCount(b, type, i) = EndCount(a, type, i)
  BY DEF EndCount
<1> QED BY <1>1, <1>2 DEF TablesOK, TablesBut

\* fd_incref.
LEMMA IncrefWaits ==
  ASSUME NEW a, Sane(a), QueuesOK(a), NEW f \in FDs, TablesBut(a, f)
  PROVE  LET c == fd_incref(a, f)
             d == a.fd_table[f]
         IN  /\ Waits(a, c) /\ TablesOK(c)
             /\ d.type \in PipeEnds => Moved(a, c, f, d.refcount + 1)
<1> DEFINE d == a.fd_table[f]
           n == d.refcount + 1
           b == [a EXCEPT !.fd_table[f].refcount = @ + 1]
           c == fd_incref(a, f)
<1>1. /\ d.refcount \in Nat /\ n \in Nat /\ n # 0
      /\ (d.type \in {"PIPE_READ", "PIPE_WRITE"} => d.data \in Pipes)
  BY FDAt
<1>2. CASE d.type = "NONE"
  <2>1. c = a
    BY <1>2 DEF fd_incref, fd_valid
  <2>2. Waits(a, a) /\ TablesOK(a)
    BY <1>2, WaitsSame, OtherTables DEF PipeEnds
  <2> QED BY <1>2, <2>1, <2>2 DEF PipeEnds
<1>3. CASE d.type # "NONE"
  <2>1. fd_valid(a, f)
    BY <1>3 DEF fd_valid
  <2>2. c = CASE d.type = "PIPE_READ" -> pipe_open_read(b, d.data)
              [] d.type = "PIPE_WRITE" -> pipe_open_write(b, d.data)
              [] OTHER -> b
    BY <2>1 DEF fd_incref
  <2> DEFINE e == RefsIn(d, n)
             z == FDIn(a, f, e)
  <2>3. /\ Sane(z) /\ QueuesOK(z) /\ Waits(a, z)
        /\ [a EXCEPT !.fd_table[f].refcount = n] = z
        /\ z.fd = a.fd /\ z.pipe_table = a.pipe_table /\ z.fd_table[f] = e
        /\ \A h \in FDs : h # f => z.fd_table[h] = a.fd_table[h]
        /\ e.type = d.type /\ e.data = d.data /\ e.refcount = n
    BY <1>1, RecountWaits
  <2>4. b = z
    BY <2>3
  <2> HIDE DEF b, c, z, e, n
  <2> DEFINE i == d.data
             q == a.pipe_table[i]
             v == pipe_open_read(b, i)
             w == pipe_open_write(b, i)
  <2>5. ASSUME i \in Pipes
        PROVE  /\ Waits(b, v) /\ Counted(b, v, i, q.open_read + 1, q.open_write)
               /\ Waits(b, w) /\ Counted(b, w, i, q.open_read, q.open_write + 1)
               /\ q.open_read \in Nat /\ q.open_write \in Nat
    <3> DEFINE x == CountIn(q, q.open_read + 1, q.open_write)
               y == CountIn(q, q.open_read, q.open_write + 1)
    <3>1. /\ Waits(b, v) /\ Waits(b, w) /\ v = PipeIn(b, i, x) /\ w = PipeIn(b, i, y)
      BY <2>3, <2>4, <2>5, OpenWaits
    <3>2. q \in PipeRecord /\ q.open_read \in Nat /\ q.open_write \in Nat
      BY <2>5, PipeAt, PipeFields
    <3>3. /\ x.open_read = q.open_read + 1 /\ x.open_write = q.open_write /\ x.in_use = q.in_use
          /\ y.open_read = q.open_read /\ y.open_write = q.open_write + 1 /\ y.in_use = q.in_use
      <4>1. \A r, s : LET u == CountIn(q, r, s)
                     IN  u.open_read = r /\ u.open_write = s /\ u.in_use = q.in_use
        BY <3>2, CountFields
      <4> HIDE DEF q
      <4> QED BY ONLY <4>1
    <3> HIDE DEF x, y, v, w
    <3>4. b.pipe_table = a.pipe_table /\ b.pipe_table \in [Pipes -> PipeRecord]
      BY <2>3, <2>4, ShellFields DEF Sane
    <3>5. /\ v.fd_table = b.fd_table /\ v.pipe_table = [b.pipe_table EXCEPT ![i] = x]
          /\ w.fd_table = b.fd_table /\ w.pipe_table = [b.pipe_table EXCEPT ![i] = y]
      BY <2>3, <2>4, <3>1 DEF PipeIn, Sane, ShellKernel
    <3>6. /\ v.pipe_table[i] = x /\ \A m \in Pipes : m # i => v.pipe_table[m] = b.pipe_table[m]
          /\ w.pipe_table[i] = y /\ \A m \in Pipes : m # i => w.pipe_table[m] = b.pipe_table[m]
      BY <2>5, <3>4, <3>5
    <3>7. b.pipe_table[i].in_use = q.in_use
      BY <3>4
    <3>8. ~(q.open_read + 1 = 0) /\ ~(q.open_write + 1 = 0)
      BY <3>2
    <3> HIDE DEF q
    <3>9. Counted(b, v, i, q.open_read + 1, q.open_write)
      BY ONLY <3>3, <3>5, <3>6, <3>7, <3>8 DEF Counted
    <3>10. Counted(b, w, i, q.open_read, q.open_write + 1)
      BY ONLY <3>3, <3>5, <3>6, <3>7, <3>8 DEF Counted
    <3> QED BY <3>1, <3>2, <3>9, <3>10
  <2> HIDE DEF d, v, w, q
  <2>6. CASE d.type = "PIPE_READ"
    <3>1. c = v /\ i \in Pipes
      BY <1>1, <2>2, <2>6 DEF v
    <3>2. EndCount(a, d.type, i) = d.refcount
      BY <2>6 DEF TablesBut, PipeEnds, d
    <3>3. q.open_read = d.refcount
      BY <2>6, <3>2 DEF EndCount, q
    <3>4. Moved(a, c, f, n)
      <4>1. /\ \A h \in FDs : h # f => c.fd_table[h] = a.fd_table[h]
            /\ c.fd_table[f].type = d.type /\ c.fd_table[f].data = i
            /\ c.fd_table[f].refcount = n
        BY <2>3, <2>4, <2>5, <3>1 DEF Counted
      <4>2. /\ \A m \in Pipes : m # i => c.pipe_table[m] = a.pipe_table[m]
            /\ c.pipe_table[i].open_read = n
            /\ c.pipe_table[i].open_write = q.open_write
            /\ c.pipe_table[i].in_use <=> q.in_use
        BY <1>1, <2>3, <2>4, <2>5, <3>1, <3>3 DEF Counted, n, q
      <4> QED BY <1>1, <2>6, <4>1, <4>2 DEF Moved, d, q
    <3>5. TablesOK(c)
      BY <1>1, <2>6, <3>4, MovedOK DEF d, n, PipeEnds
    <3>6. Waits(a, c)
      BY <2>3, <2>4, <2>5, <3>1, WaitsTwice
    <3> QED BY <3>4, <3>5, <3>6 DEF c, d, n
  <2>7. CASE d.type = "PIPE_WRITE"
    <3>1. c = w /\ i \in Pipes
      BY <1>1, <2>2, <2>7 DEF w
    <3>2. EndCount(a, d.type, i) = d.refcount
      BY <2>7 DEF TablesBut, PipeEnds, d
    <3>3. q.open_write = d.refcount
      BY <2>7, <3>2 DEF EndCount, q
    <3>4. Moved(a, c, f, n)
      <4>1. /\ \A h \in FDs : h # f => c.fd_table[h] = a.fd_table[h]
            /\ c.fd_table[f].type = d.type /\ c.fd_table[f].data = i
            /\ c.fd_table[f].refcount = n
        BY <2>3, <2>4, <2>5, <3>1 DEF Counted
      <4>2. /\ \A m \in Pipes : m # i => c.pipe_table[m] = a.pipe_table[m]
            /\ c.pipe_table[i].open_read = q.open_read
            /\ c.pipe_table[i].open_write = n
            /\ c.pipe_table[i].in_use <=> q.in_use
        BY <1>1, <2>3, <2>4, <2>5, <3>1, <3>3 DEF Counted, n, q
      <4> QED BY <1>1, <2>7, <4>1, <4>2 DEF Moved, d, q
    <3>5. TablesOK(c)
      BY <1>1, <2>7, <3>4, MovedOK DEF d, n, PipeEnds
    <3>6. Waits(a, c)
      BY <2>3, <2>4, <2>5, <3>1, WaitsTwice
    <3> QED BY <3>4, <3>5, <3>6 DEF c, d, n
  <2>8. CASE d.type \notin PipeEnds
    <3>1. c = b
      BY <2>2, <2>8 DEF PipeEnds
    <3>2. TablesOK(z)
      BY <2>3, <2>8, OtherTables DEF d
    <3> QED BY <2>3, <2>4, <2>8, <3>1, <3>2 DEF c, d
  <2> QED BY <2>6, <2>7, <2>8 DEF PipeEnds
<1> QED BY <1>2, <1>3

\* What holds of all descriptors.
LEMMA TablesAll ==
  ASSUME NEW a, Sane(a), TablesOK(a), NEW f \in FDs
  PROVE  /\ TablesBut(a, f)
         /\ LET d == a.fd_table[f] IN
            /\ d.type = "TERMINAL" <=> f \in Terms
            /\ d.type \in PipeEnds => /\ d.data \in Pipes /\ a.pipe_table[d.data].in_use
                                      /\ EndCount(a, d.type, d.data) = d.refcount
                                      /\ d.refcount > 0
<1>1. \A h \in FDs : h # NoFD
  BY FDAssumption DEF FDs, NoFD
<1>2. a.fd_table[f].type \in PipeEnds => a.fd_table[f].data \in Pipes
  BY FDAt DEF PipeEnds
<1> QED BY <1>1, <1>2 DEF TablesOK, TablesBut

\* close_end of a descriptor of a pipe.
LEMMA CloseEndWaits ==
  ASSUME NEW a, Sane(a), QueuesOK(a), NEW d, d.type \in PipeEnds, d.data \in Pipes
  PROVE  LET q == a.pipe_table[d.data]
             c == close_end(a, d)
         IN  /\ Waits(a, c)
             /\ Counted(a, c, d.data,
                        IF d.type = "PIPE_READ" THEN Less(q.open_read) ELSE q.open_read,
                        IF d.type = "PIPE_WRITE" THEN Less(q.open_write) ELSE q.open_write)
<1>1. CASE d.type = "PIPE_READ"
  <2>1. close_end(a, d) = pipe_close_read(a, d.data)
    BY <1>1 DEF close_end
  <2> QED BY <1>1, <2>1, CloseWaits
<1>2. CASE d.type = "PIPE_WRITE"
  <2>1. close_end(a, d) = pipe_close_write(a, d.data)
    BY <1>2 DEF close_end
  <2> QED BY <1>2, <2>1, CloseWaits
<1> QED BY <1>1, <1>2 DEF PipeEnds

\* fd_decref.
LEMMA DecrefWaits ==
  ASSUME NEW a, Sane(a), QueuesOK(a), TablesOK(a), NEW f
  PROVE  Waits(a, fd_decref(a, f)) /\ TablesOK(fd_decref(a, f))
<1> DEFINE d == a.fd_table[f]
           n == d.refcount - 1
           b == [a EXCEPT !.fd_table[f].refcount = @ - 1]
           c == IF d.refcount > 0 THEN close_end(b, d) ELSE a
           y == [c EXCEPT !.fd_table[f] = [@ EXCEPT !.type = "NONE", !.data = NULL]]
<1>0. Waits(a, a)
  BY WaitsSame
<1>1. CASE ~fd_valid(a, f)
  BY <1>0, <1>1 DEF fd_decref
<1>2. CASE fd_valid(a, f)
  <2>1. f \in FDs /\ d.type # "NONE"
    BY <1>2 DEF fd_valid
  <2>2. /\ TablesBut(a, f)
        /\ d.type \in PipeEnds => /\ d.data \in Pipes /\ a.pipe_table[d.data].in_use
                                  /\ EndCount(a, d.type, d.data) = d.refcount
                                  /\ d.refcount > 0
    BY <2>1, TablesAll
  <2>3. d.refcount \in Nat /\ d.type \in {"NONE", "TERMINAL", "PIPE_READ", "PIPE_WRITE"}
    BY <2>1, FDAt DEF FDRecord
  <2>4. fd_decref(a, f) = IF c.fd_table[f].refcount > 0 \/ d.type = "TERMINAL" THEN c ELSE y
    BY <1>2 DEF fd_decref
  <2> DEFINE e == RefsIn(d, n)
             z == FDIn(a, f, e)
  <2>5. ASSUME d.refcount > 0
        PROVE  /\ n \in Nat /\ b = z
               /\ Sane(z) /\ QueuesOK(z) /\ Waits(a, z)
               /\ z.fd = a.fd /\ z.pipe_table = a.pipe_table /\ z.fd_table[f] = e
               /\ \A h \in FDs : h # f => z.fd_table[h] = a.fd_table[h]
               /\ e.type = d.type /\ e.data = d.data /\ e.refcount = n
    <3>1. n \in Nat
      BY <2>3, <2>5
    <3>2. /\ Sane(z) /\ QueuesOK(z) /\ Waits(a, z)
          /\ [a EXCEPT !.fd_table[f].refcount = n] = z
          /\ z.fd = a.fd /\ z.pipe_table = a.pipe_table /\ z.fd_table[f] = e
          /\ \A h \in FDs : h # f => z.fd_table[h] = a.fd_table[h]
          /\ e.type = d.type /\ e.data = d.data /\ e.refcount = n
      BY <2>1, <3>1, RecountWaits
    <3> QED BY <3>1, <3>2
  <2> HIDE DEF b, z, e
  <2>6. CASE d.type = "TERMINAL"
    <3>1. fd_decref(a, f) = c
      BY <2>4, <2>6
    <3>2. close_end(b, d) = b
      BY <2>6 DEF close_end
    <3>3. c = IF d.refcount > 0 THEN b ELSE a
      BY <3>2
    <3>4. d.refcount > 0 => TablesOK(z)
      BY <2>1, <2>2, <2>5, <2>6, OtherTables DEF PipeEnds
    <3> HIDE DEF c, d
    <3> QED BY <1>0, <2>5, <3>1, <3>3, <3>4
  <2>7. CASE d.type \in PipeEnds
    <3> DEFINE i == d.data
               q == a.pipe_table[i]
               u == c.pipe_table[i]
               x == [c.fd_table[f] EXCEPT !.type = "NONE", !.data = NULL]
    <3>1. d.refcount > 0 /\ i \in Pipes /\ q.in_use /\ EndCount(a, d.type, i) = d.refcount
      BY <2>2, <2>7
    <3>2. c = close_end(b, d) /\ b = z /\ n \in Nat
      BY <2>5, <3>1
    <3>3. y = FDIn(c, f, x)
      BY DEF FDIn
    <3> HIDE DEF c, y
    <3>4. /\ Waits(z, c)
          /\ Counted(z, c, i, IF d.type = "PIPE_READ" THEN Less(q.open_read) ELSE q.open_read,
                              IF d.type = "PIPE_WRITE" THEN Less(q.open_write) ELSE q.open_write)
      BY <2>5, <2>7, <3>1, <3>2, CloseEndWaits
    <3>5. /\ c.fd_table = z.fd_table /\ \A m \in Pipes : m # i => c.pipe_table[m] = a.pipe_table[m]
          /\ u.open_read = (IF d.type = "PIPE_READ" THEN n ELSE q.open_read)
          /\ u.open_write = (IF d.type = "PIPE_WRITE" THEN n ELSE q.open_write)
          /\ u.in_use <=> q.in_use /\ ~(u.open_read = 0 /\ u.open_write = 0)
      BY <2>5, <2>7, <3>1, <3>4 DEF Counted, Less, EndCount, PipeEnds
    <3>6. Keeps(z, c)
      BY <2>5, <2>7, <3>1, <3>2, CloseEndKeeps DEF PipeEnds
    <3>7. Waits(a, c) /\ Sane(c)
      BY <2>5, <3>1, <3>4, <3>6, WaitsTwice, KeepsOK
    <3>8. c.fd_table[f].refcount = n
      BY <2>5, <3>1, <3>5
    <3>9. CASE n > 0
      <4>1. fd_decref(a, f) = c
        BY <2>4, <3>8, <3>9
      <4>2. Moved(a, c, f, n)
        BY <2>5, <3>1, <3>5, <3>8, <3>9 DEF Moved
      <4>3. TablesOK(c)
        BY <2>1, <2>2, <2>7, <3>2, <4>2, MovedOK
      <4> QED BY <3>7, <4>1, <4>3
    <3>10. CASE ~(n > 0)
      <4>1. n = 0
        <5> HIDE DEF n
        <5> QED BY <3>2, <3>10
      <4>2. fd_decref(a, f) = y
        BY <2>4, <2>7, <3>8, <3>10 DEF PipeEnds
      <4>3. c.fd_table[f] \in FDRecord
        BY <2>1, <3>7, FDAt
      <4>4. x.type = "NONE"
        BY <4>3 DEF FDRecord
      <4> HIDE DEF x
      <4>5. /\ y.pipe_table = c.pipe_table /\ y.fd_table[f] = x
            /\ \A h \in FDs : h # f => y.fd_table[h] = c.fd_table[h]
            /\ Waits(c, y)
        BY <2>1, <3>3, <3>7, FDInFields DEF Waits
      <4>6. Moved(a, y, f, 0)
        BY <2>5, <3>1, <3>5, <4>1, <4>4, <4>5 DEF Moved
      <4>7. TablesOK(y)
        BY <2>1, <2>2, <2>7, <4>6, MovedOK
      <4>8. Waits(a, y)
        BY <3>7, <4>5, WaitsTwice
      <4> QED BY <4>2, <4>7, <4>8
    <3> QED BY <3>9, <3>10
  <2> QED BY <2>1, <2>3, <2>6, <2>7 DEF PipeEnds
<1> QED BY <1>1, <1>2

\* Pipe i has no descriptor of that type.
FreshEnd(a, i, type) ==
  /\ a.pipe_table[i].in_use /\ EndCount(a, type, i) = 0
  /\ \A h \in FDs : ~(a.fd_table[h].type = type /\ a.fd_table[h].data = i)

\* pipe_open, without a name: nobody refers to a pipe that was not in use.
LEMMA PipeOpenWaits ==
  ASSUME NEW a, Sane(a), QueuesOK(a), TablesOK(a)
  PROVE  LET o == pipe_open(a, Anonymous)
         IN  o.pipe # NULL => /\ o.pipe \in Pipes /\ Keeps(a, o.k)
                              /\ Waits(a, o.k) /\ TablesOK(o.k)
                              /\ FreshEnd(o.k, o.pipe, "PIPE_READ")
                              /\ FreshEnd(o.k, o.pipe, "PIPE_WRITE")
<1> DEFINE o == pipe_open(a, Anonymous)
           free == {i \in Pipes : ~a.pipe_table[i].in_use}
           i == Min(free)
           q == a.pipe_table[i]
           u == [pipe_reset(q) EXCEPT !.in_use = TRUE, !.name = Anonymous, !.opens = 0]
           b == MoveIn(a, i, u, a.state)
<1>1. o = IF free # {} THEN [pipe |-> i, k |-> b] ELSE [pipe |-> NULL, k |-> a]
  <2>1. {j \in Pipes : a.pipe_table[j].in_use /\ Anonymous # Anonymous
                       /\ a.pipe_table[j].name = Anonymous} = {}
    OBVIOUS
  <2>2. o = IF free # {} THEN [pipe |-> i, k |-> [a EXCEPT !.pipe_table[i] = u]]
            ELSE [pipe |-> NULL, k |-> a]
    BY <2>1, Zenon DEF pipe_open
  <2>3. [a EXCEPT !.pipe_table[i] = u] = b
    BY DEF MoveIn, Sane, ShellKernel
  <2> QED BY <2>2, <2>3
<1>2. SUFFICES ASSUME o.pipe # NULL
               PROVE  /\ o.pipe \in Pipes /\ Keeps(a, o.k)
                      /\ Waits(a, o.k) /\ TablesOK(o.k)
                      /\ FreshEnd(o.k, o.pipe, "PIPE_READ")
                      /\ FreshEnd(o.k, o.pipe, "PIPE_WRITE")
  OBVIOUS
<1>3. o.pipe \in Pipes /\ Keeps(a, o.k)
  BY <1>2, PipeOpenKeeps
<1>4. /\ u.wait_readers = <<>> /\ u.wait_writers = <<>> /\ u.name = Anonymous
      /\ u.open_read = 0 /\ u.open_write = 0 /\ u.in_use = TRUE
  BY DEF pipe_reset, FreePipe
<1> HIDE DEF u, b, free
<1>5. free # {} /\ o.pipe = i /\ o.k = b
  BY <1>1, <1>2
<1>6. i \in free
  <2>1. free \in SUBSET Nat
    BY PipeAssumption DEF free, Pipes
  <2> QED BY <1>5, <2>1, MinOfNat
<1>7. i \in Pipes /\ ~q.in_use
  BY <1>6 DEF free
<1> HIDE DEF i, o
<1>8. PipeOK(a, i) /\ QuietPipe(q)
  BY <1>7, PipeOf
<1>9. Injective(<<>>) /\ \A x \in Procs : ~InQueue(<<>>, x)
  BY DEF Injective, InQueue
<1>10. Shrinks(a, i, u, a.state) /\ QuietPipe(u)
  BY <1>4, <1>7, <1>8, <1>9 DEF Shrinks, QuietPipe, InPipe
<1>11. Stirs(a, b, i) /\ b.pipe_table[i] = u
  BY <1>7, <1>8, <1>10, MoveInStirs DEF b
<1>12. Waits(a, b)
  BY <1>7, <1>10, <1>11, StirsWaits
<1>13. /\ b.fd_table = a.fd_table /\ \A m \in Pipes : m # i => b.pipe_table[m] = a.pipe_table[m]
  BY <1>11 DEF Stirs
<1>14. ASSUME NEW h \in FDs, a.fd_table[h].type \in PipeEnds
       PROVE  /\ a.fd_table[h].data \in Pipes /\ a.fd_table[h].data # i
              /\ b.pipe_table[a.fd_table[h].data] = a.pipe_table[a.fd_table[h].data]
  <2>1. a.fd_table[h].data \in Pipes /\ a.pipe_table[a.fd_table[h].data].in_use
    BY <1>14, TablesAll
  <2> QED BY <1>7, <1>13, <2>1
<1>15. TablesOK(b)
  BY <1>13, <1>14 DEF TablesOK, TablesBut, EndCount
<1>16. FreshEnd(b, i, "PIPE_READ") /\ FreshEnd(b, i, "PIPE_WRITE")
  BY <1>4, <1>11, <1>13, <1>14 DEF FreshEnd, EndCount, PipeEnds
<1> QED BY <1>3, <1>5, <1>12, <1>15, <1>16

\* fd_create_pipe.
LEMMA CreatePipeWaits ==
  ASSUME NEW a, Sane(a), QueuesOK(a), TablesOK(a), NEW i \in Pipes, NEW type \in PipeEnds,
         FreshEnd(a, i, type)
  PROVE  LET r == fd_create_pipe(a, i, type)
         IN  /\ Waits(a, r.k) /\ TablesOK(r.k) /\ (r.fd # NoFD => r.fd \in FDs \ Terms)
             /\ type = "PIPE_READ" /\ FreshEnd(a, i, "PIPE_WRITE") => FreshEnd(r.k, i, "PIPE_WRITE")
<1> DEFINE r == fd_create_pipe(a, i, type)
           free == {f \in FDs : a.fd_table[f].type = "NONE"}
           f == Min(free)
           d == [type |-> type, refcount |-> 0, data |-> i]
           b == FDIn(a, f, d)
           c == fd_incref(b, f)
<1>1. r = IF free = {} THEN [fd |-> NoFD, k |-> a] ELSE [fd |-> f, k |-> c]
  BY DEF fd_create_pipe, FDIn
<1>2. CASE free = {}
  <2>1. r.k = a /\ r.fd = NoFD
    BY <1>1, <1>2
  <2> HIDE DEF r
  <2>2. Waits(a, a)
    BY WaitsSame
  <2> QED BY <2>1, <2>2 DEF r
<1>3. CASE free # {}
  <2>1. f \in free
    <3>1. free \in SUBSET Nat
      BY FDAssumption DEF FDs
    <3> QED BY <1>3, <3>1, MinOfNat
  <2>2. f \in FDs /\ a.fd_table[f].type = "NONE"
    BY <2>1
  <2>3. r.fd = f /\ r.k = c
    BY <1>1, <1>3
  <2>4. d \in FDRecord /\ d.type = type /\ d.refcount = 0 /\ d.data = i
    BY DEF FDRecord, PipeEnds
  <2> HIDE DEF r, f, d
  <2>5. f \notin Terms
    BY <2>2, TablesAll
  <2>6. Keeps(a, b)
    BY <2>2, <2>4, FDInKeeps
  <2>7. /\ b.fd = a.fd /\ b.pipe_table = a.pipe_table /\ b.fd_table[f] = d
        /\ \A h \in FDs : h # f => b.fd_table[h] = a.fd_table[h]
        /\ Waits(a, b) /\ QueuesOK(b)
    BY <2>2, FDInFields
  <2> HIDE DEF b
  <2>8. Sane(b)
    BY <2>6, KeepsOK
  <2>9. TablesBut(b, f)
    <3>1. \A t, j : EndCount(b, t, j) = EndCount(a, t, j)
      BY <2>7 DEF EndCount
    <3>2. \A h \in FDs : b.fd_table[h].type = "TERMINAL" <=> h \in Terms
      BY <2>4, <2>5, <2>7 DEF TablesOK, TablesBut, PipeEnds
    <3>3. ASSUME NEW h \in FDs, b.fd_table[h].type \in PipeEnds
          PROVE  LET x == b.fd_table[h] IN
                 /\ b.pipe_table[x.data].in_use /\ EndCount(b, x.type, x.data) = x.refcount
                 /\ h # f => x.refcount > 0
      <4>1. CASE h = f
        BY <2>4, <2>7, <3>1, <4>1 DEF FreshEnd
      <4>2. CASE h # f
        BY <2>7, <3>1, <3>3, <4>2, TablesAll
      <4> QED BY <4>1, <4>2
    <3>4. ASSUME NEW g \in FDs, NEW h \in FDs, b.fd_table[g].type \in PipeEnds,
                 b.fd_table[h].type = b.fd_table[g].type, b.fd_table[h].data = b.fd_table[g].data
          PROVE  g = h
      <4>1. CASE g = f
        BY <2>4, <2>7, <3>4, <4>1 DEF FreshEnd
      <4>2. CASE h = f
        BY <2>4, <2>7, <3>4, <4>2 DEF FreshEnd
      <4>3. CASE g # f /\ h # f
        BY <2>7, <3>4, <4>3 DEF TablesOK, TablesBut
      <4> QED BY <4>1, <4>2, <4>3
    <3> QED BY <3>2, <3>3, <3>4 DEF TablesBut
  <2>10. /\ Waits(b, c) /\ TablesOK(c)
         /\ b.fd_table[f].type \in PipeEnds => Moved(b, c, f, b.fd_table[f].refcount + 1)
    BY <2>2, <2>7, <2>8, <2>9, IncrefWaits
  <2> HIDE DEF c
  <2>11. Moved(b, c, f, 1)
    BY <2>4, <2>7, <2>10
  <2>12. ASSUME type = "PIPE_READ", FreshEnd(a, i, "PIPE_WRITE") PROVE FreshEnd(c, i, "PIPE_WRITE")
    <3>1. /\ \A h \in FDs : h # f => c.fd_table[h] = a.fd_table[h]
          /\ c.fd_table[f].type = "PIPE_READ"
          /\ c.pipe_table[i].open_write = a.pipe_table[i].open_write
          /\ c.pipe_table[i].open_read = 1 /\ c.pipe_table[i].in_use
      BY <2>4, <2>7, <2>11, <2>12 DEF Moved, FreshEnd
    <3> QED BY <2>12, <3>1 DEF FreshEnd, EndCount
  <2>13. Waits(a, c)
    BY <2>7, <2>10, WaitsTwice
  <2> QED BY <2>2, <2>3, <2>5, <2>10, <2>12, <2>13 DEF r
<1> QED BY <1>2, <1>3

\* sys_pipe: neither end is a descriptor of the terminal.
LEMMA SysPipeWaits ==
  ASSUME NEW a, Sane(a), QueuesOK(a), TablesOK(a)
  PROVE  LET r == sys_pipe(a, Anonymous)
         IN  Waits(a, r.k) /\ TablesOK(r.k) /\ (r.fds # <<>> => r.fds[1] \notin Terms)
<1> DEFINE s == sys_pipe(a, Anonymous)
           o == pipe_open(a, Anonymous)
           r == fd_create_pipe(o.k, o.pipe, "PIPE_READ")
           w == fd_create_pipe(r.k, o.pipe, "PIPE_WRITE")
           g == pipe_create_fds(o.k, o.pipe)
           z == fd_decref(r.k, r.fd)
<1>1. s = IF o.pipe = NULL THEN [k |-> a, fds |-> <<>>] ELSE g
  BY DEF sys_pipe
<1>2. g = IF r.fd = NoFD THEN [k |-> o.k, fds |-> <<>>]
          ELSE IF w.fd = NoFD THEN [k |-> z, fds |-> <<>>]
          ELSE [k |-> w.k, fds |-> <<r.fd, w.fd>>]
  BY DEF pipe_create_fds
<1>3. CASE o.pipe = NULL
  BY <1>1, <1>3, WaitsSame
<1>4. CASE o.pipe # NULL
  <2>1. /\ o.pipe \in Pipes /\ Keeps(a, o.k) /\ Waits(a, o.k) /\ TablesOK(o.k)
        /\ FreshEnd(o.k, o.pipe, "PIPE_READ") /\ FreshEnd(o.k, o.pipe, "PIPE_WRITE")
    BY <1>4, PipeOpenWaits
  <2> HIDE DEF o
  <2>2. Sane(o.k) /\ QueuesOK(o.k) /\ "PIPE_READ" \in {"PIPE_READ", "PIPE_WRITE"}
        /\ "PIPE_WRITE" \in {"PIPE_READ", "PIPE_WRITE"}
    BY <2>1, KeepsOK DEF Waits
  <2>3. /\ Waits(o.k, r.k) /\ TablesOK(r.k) /\ (r.fd # NoFD => r.fd \in FDs \ Terms)
        /\ FreshEnd(r.k, o.pipe, "PIPE_WRITE")
    BY <2>1, <2>2, CreatePipeWaits DEF PipeEnds
  <2>4. Keeps(o.k, r.k)
    BY <2>1, <2>2, CreatePipeKeeps
  <2> HIDE DEF r
  <2>5. Sane(r.k) /\ QueuesOK(r.k) /\ Waits(a, r.k)
    BY <2>1, <2>3, <2>4, KeepsOK, WaitsTwice DEF Waits
  <2>6. Waits(r.k, w.k) /\ TablesOK(w.k)
    BY <2>1, <2>2, <2>3, <2>5, CreatePipeWaits DEF PipeEnds
  <2>7. Waits(r.k, z) /\ TablesOK(z)
    BY <2>3, <2>5, DecrefWaits
  <2> HIDE DEF w, z
  <2>8. Waits(a, w.k) /\ Waits(a, z)
    BY <2>5, <2>6, <2>7, WaitsTwice
  <2> HIDE DEF g
  <2>9. s = g
    BY <1>1, <1>4
  <2> HIDE DEF s
  <2> QED BY <1>2, <2>1, <2>3, <2>6, <2>7, <2>8, <2>9 DEF s
<1> QED BY <1>3, <1>4

\* pipe_wake_reader and pipe_wake_writer, after bytes have moved.
LEMMA BytesWaits ==
  ASSUME NEW a, Sane(a), QueuesOK(a), NEW i \in Pipes, NEW u \in PipeRecord,
         SameEnds(a.pipe_table[i], u),
         u.wait_readers = a.pipe_table[i].wait_readers,
         u.wait_writers = a.pipe_table[i].wait_writers
  PROVE  LET b == PipeIn(a, i, u)
         IN  /\ Waits(a, pipe_wake_reader(b, i)) /\ SameTables(a, pipe_wake_reader(b, i))
             /\ Waits(a, pipe_wake_writer(b, i)) /\ SameTables(a, pipe_wake_writer(b, i))
<1> DEFINE b == PipeIn(a, i, u)
<1>1. PipeOK(a, i) /\ QuietPipe(a.pipe_table[i])
  BY PipeOf
<1>2. Keeps(a, b) /\ Stirs(a, b, i) /\ b.pipe_table[i] = u
  BY <1>1, PipeInKeeps, OtherStirs
<1>3. QuietPipe(u)
  BY <1>1 DEF QuietPipe, SameEnds, InPipe
<1> HIDE DEF b
<1>4. Waits(a, b) /\ Sane(b) /\ PipeOK(b, i)
  BY <1>2, <1>3, StirsWaits, KeepsOK DEF Stirs
<1> DEFINE c == pipe_wake_reader(b, i)
           d == pipe_wake_writer(b, i)
<1>5. /\ Stirs(b, c, i) /\ SameEnds(u, c.pipe_table[i])
      /\ Stirs(b, d, i) /\ SameEnds(u, d.pipe_table[i])
  BY <1>2, <1>4, WakeStirs
<1> HIDE DEF c, d
<1>6. QuietPipe(c.pipe_table[i]) /\ QuietPipe(d.pipe_table[i])
  BY <1>2, <1>3, <1>5 DEF QuietPipe, SameEnds, InPipe, Stirs
<1>7. Waits(b, c) /\ Waits(b, d)
  BY <1>4, <1>5, <1>6, StirsWaits DEF Waits
<1>8. Waits(a, c) /\ Waits(a, d)
  BY <1>4, <1>7, WaitsTwice
<1>9. SameTables(a, c) /\ SameTables(a, d)
  BY <1>2, <1>5 DEF SameTables, SameEnds, Stirs
<1> QED BY <1>8, <1>9 DEF b, c, d

(***************************************************************************)
(* Going to sleep at a pipe                                                *)
(***************************************************************************)
\* From a to b, p goes to sleep at a pipe: as a reader, or as a writer.
Dozes(a, b, p, reader) ==
  /\ QueuesOK(b) /\ b.fd = a.fd /\ SameTables(a, b)
  /\ b.state[p] = "BLOCKED" /\ Queued(b, p) /\ (Reads(b, p) <=> reader)
  /\ \A x \in Procs : x # p => /\ b.state[x] = a.state[x]
                               /\ Reads(b, x) <=> Reads(a, x)
                               /\ Queued(b, x) <=> Queued(a, x)

\* p is added to one of the queues of pipe i.
Joins(q, u, p, reader) ==
  /\ Injective(u.wait_readers) /\ Injective(u.wait_writers) /\ SameEnds(q, u)
  /\ \A x \in Procs : /\ InQueue(u.wait_readers, x) <=> InQueue(q.wait_readers, x) \/ (x = p /\ reader)
                      /\ InQueue(u.wait_writers, x) <=> InQueue(q.wait_writers, x) \/ (x = p /\ ~reader)

\* That is all right at a pipe with an open end.
LEMMA JoinsDozes ==
  ASSUME NEW a, Sane(a), QueuesOK(a), NEW i \in Pipes, NEW p \in Procs, a.state[p] = "READY",
         a.pipe_table[i].in_use, NEW reader \in BOOLEAN,
         reader => a.pipe_table[i].open_write # 0, ~reader => a.pipe_table[i].open_read # 0,
         NEW u, Joins(a.pipe_table[i], u, p, reader), NEW st, st = [a.state EXCEPT ![p] = "BLOCKED"]
  PROVE  Dozes(a, MoveIn(a, i, u, st), p, reader)
<1> DEFINE b == MoveIn(a, i, u, st)
           q == a.pipe_table[i]
<1>1. /\ b.fd = a.fd /\ b.fd_table = a.fd_table /\ b.state = st
      /\ b.pipe_table = [a.pipe_table EXCEPT ![i] = u]
  BY DEF MoveIn, Sane, ShellKernel
<1> HIDE DEF b
<1>2. b.pipe_table[i] = u /\ \A m \in Pipes : m # i => b.pipe_table[m] = a.pipe_table[m]
  BY <1>1, ShellFields DEF Sane
<1>3. st[p] = "BLOCKED" /\ \A x \in Procs : x # p => st[x] = a.state[x]
  BY ShellFields DEF Sane
<1>4. \A m \in Pipes : ~InPipe(a.pipe_table[m], p) /\ PipeOK(a, m) /\ QuietPipe(a.pipe_table[m])
  BY DEF QueuesOK, PipeOK
<1>5. /\ \A x \in Procs : x # p => /\ InQueue(u.wait_readers, x) <=> InQueue(q.wait_readers, x)
                                   /\ InQueue(u.wait_writers, x) <=> InQueue(q.wait_writers, x)
      /\ InQueue(u.wait_readers, p) <=> reader
      /\ InQueue(u.wait_writers, p) <=> ~reader
      /\ Injective(u.wait_readers) /\ Injective(u.wait_writers) /\ SameEnds(q, u)
  BY <1>4 DEF Joins, InPipe
<1>6. PipeOK(b, i)
  BY <1>1, <1>2, <1>3, <1>4, <1>5 DEF PipeOK, InPipe
<1>7. QuietPipe(u)
  BY <1>4, <1>5 DEF QuietPipe, SameEnds, InPipe
<1>8. ASSUME NEW m \in Pipes, m # i PROVE PipeOK(b, m) /\ QuietPipe(b.pipe_table[m])
  <2>1. \A x \in Procs : InPipe(a.pipe_table[m], x) => x # p
    BY <1>4
  <2> QED BY <1>1, <1>2, <1>3, <1>4, <1>8, <2>1 DEF PipeOK
<1>9. ASSUME NEW x \in Procs, NEW m \in Pipes
      PROVE  /\ x # p => /\ InPipe(b.pipe_table[m], x) <=> InPipe(a.pipe_table[m], x)
                         /\ InQueue(b.pipe_table[m].wait_readers, x)
                              <=> InQueue(a.pipe_table[m].wait_readers, x)
             /\ InPipe(b.pipe_table[m], p) <=> m = i
             /\ InQueue(b.pipe_table[m].wait_readers, p) <=> m = i /\ reader
  BY <1>2, <1>4, <1>5 DEF InPipe
<1>10. ASSUME NEW m \in Pipes, NEW n \in Pipes, NEW x \in Procs,
              InPipe(b.pipe_table[m], x), InPipe(b.pipe_table[n], x)
       PROVE  m = n
  <2>1. CASE x = p
    BY <1>9, <1>10, <2>1
  <2>2. CASE x # p
    BY <1>9, <1>10, <2>2 DEF QueuesOK
  <2> QED BY <2>1, <2>2
<1>11. QueuesOK(b)
  BY <1>2, <1>6, <1>7, <1>8, <1>10 DEF QueuesOK
<1>12. SameTables(a, b)
  BY <1>1, <1>2, <1>5 DEF SameTables, SameEnds
<1>13. Queued(b, p) /\ (Reads(b, p) <=> reader)
  BY <1>9 DEF Queued, Reads
<1>14. \A x \in Procs : x # p => (Reads(b, x) <=> Reads(a, x)) /\ (Queued(b, x) <=> Queued(a, x))
  BY <1>9 DEF Queued, Reads
<1>15. Dozes(a, b, p, reader)
  BY <1>1, <1>3, <1>11, <1>12, <1>13, <1>14 DEF Dozes
<1> QED BY <1>15 DEF b

\* sleep_reader and sleep_writer.
LEMMA SleepDozes ==
  ASSUME NEW a, Sane(a), QueuesOK(a), NEW i \in Pipes, NEW p \in Procs, a.state[p] = "READY",
         a.pipe_table[i].in_use
  PROVE  /\ a.pipe_table[i].open_write # 0 => Dozes(a, sleep_reader(a, i, p), p, TRUE)
         /\ a.pipe_table[i].open_read # 0 => Dozes(a, sleep_writer(a, i, p), p, FALSE)
<1> DEFINE q == a.pipe_table[i]
           st == [a.state EXCEPT ![p] = "BLOCKED"]
           r == queue_push(q.wait_readers, p)
           w == queue_push(q.wait_writers, p)
           u == [q EXCEPT !.wait_readers = r]
           v == [q EXCEPT !.wait_writers = w]
<1>1. /\ q \in PipeRecord /\ q.wait_readers \in Seq(Procs) /\ q.wait_writers \in Seq(Procs)
      /\ PipeOK(a, i)
  BY PipeOf, PipeFields
<1>2. /\ ~InQueue(q.wait_readers, p) /\ ~InQueue(q.wait_writers, p)
      /\ Injective(q.wait_readers) /\ Injective(q.wait_writers)
  BY <1>1 DEF PipeOK, InPipe
<1>3. r = Append(q.wait_readers, p) /\ w = Append(q.wait_writers, p)
  BY <1>2 DEF queue_push
<1>4. /\ Injective(r) /\ \A x \in Procs : InQueue(r, x) <=> InQueue(q.wait_readers, x) \/ x = p
      /\ Injective(w) /\ \A x \in Procs : InQueue(w, x) <=> InQueue(q.wait_writers, x) \/ x = p
  BY <1>1, <1>2, <1>3, Appended
<1>5. /\ sleep_reader(a, i, p) = MoveIn(a, i, u, st)
      /\ sleep_writer(a, i, p) = MoveIn(a, i, v, st)
  <2>1. /\ [a EXCEPT !.pipe_table[i].wait_readers = queue_push(@, p)] = PipeIn(a, i, u)
        /\ [a EXCEPT !.pipe_table[i].wait_writers = queue_push(@, p)] = PipeIn(a, i, v)
    BY DEF PipeIn
  <2>2. ASSUME NEW z PROVE process_block(PipeIn(a, i, z), p) = MoveIn(a, i, z, st)
    BY DEF process_block, PipeIn, MoveIn, Sane, ShellKernel
  <2> HIDE DEF u, v, st
  <2> QED BY <2>1, <2>2 DEF sleep_reader, sleep_writer
<1> HIDE DEF r, w
<1>6. /\ u.wait_readers = r /\ u.wait_writers = q.wait_writers /\ SameEnds(q, u)
      /\ v.wait_writers = w /\ v.wait_readers = q.wait_readers /\ SameEnds(q, v)
  BY <1>1 DEF PipeRecord, SameEnds
<1> HIDE DEF u, v
<1>7. Joins(q, u, p, TRUE) /\ Joins(q, v, p, FALSE)
  BY <1>2, <1>4, <1>6 DEF Joins
<1>8. TRUE \in BOOLEAN /\ FALSE \in BOOLEAN
  OBVIOUS
<1>9. q.open_write # 0 => Dozes(a, MoveIn(a, i, u, st), p, TRUE)
  BY <1>7, <1>8, JoinsDozes
<1>10. q.open_read # 0 => Dozes(a, MoveIn(a, i, v, st), p, FALSE)
  BY <1>7, <1>8, JoinsDozes
<1> HIDE DEF q, st
<1> QED BY <1>5, <1>9, <1>10 DEF q

\* Bytes leave or enter a pipe: its queues and ends stay.
LEMMA BytesFields ==
  ASSUME NEW q \in PipeRecord, NEW n
  PROVE  LET u == take_bytes(q, n)
             v == put_bytes(q, n)
         IN  /\ SameEnds(q, u) /\ u.wait_readers = q.wait_readers /\ u.wait_writers = q.wait_writers
             /\ SameEnds(q, v) /\ v.wait_readers = q.wait_readers /\ v.wait_writers = q.wait_writers
<1> DEFINE ti(b, x, c, y) == [q EXCEPT !.buffer = b, !.read_idx = x, !.count = c, !.got = y]
           pu(b, x, c, y) == [q EXCEPT !.buffer = b, !.write_idx = x, !.count = c, !.sent = y]
<1>1. \A b, x, c, y :
        /\ LET u == ti(b, x, c, y) IN
           SameEnds(q, u) /\ u.wait_readers = q.wait_readers /\ u.wait_writers = q.wait_writers
        /\ LET u == pu(b, x, c, y) IN
           SameEnds(q, u) /\ u.wait_readers = q.wait_readers /\ u.wait_writers = q.wait_writers
  BY DEF PipeRecord, SameEnds
<1>2. \E b, x, c, y : take_bytes(q, n) = ti(b, x, c, y)
  BY DEF take_bytes
<1>3. \E b, x, c, y : put_bytes(q, n) = pu(b, x, c, y)
  BY DEF put_bytes
<1> HIDE DEF ti, pu
<1> QED BY <1>1, <1>2, <1>3

\* pipe_read: it moves bytes and returns, or p goes to sleep.
LEMMA ReadWaits ==
  ASSUME NEW a, Sane(a), QueuesOK(a), NEW i \in Pipes, NEW p \in Procs, a.state[p] = "READY",
         a.pipe_table[i].in_use, NEW n \in Nat
  PROVE  LET r == pipe_read(a, i, p, n)
         IN  \/ Waits(a, r.k) /\ SameTables(a, r.k) /\ r.ret # BLOCKED_CALL
             \/ Dozes(a, r.k, p, TRUE) /\ r.ret = BLOCKED_CALL
<1> DEFINE q == a.pipe_table[i]
           m == Min({n, q.count})
           u == take_bytes(q, m)
           b == PipeIn(a, i, u)
           r == pipe_read(a, i, p, n)
<1>1. r = IF n = 0 THEN [k |-> a, ret |-> 0]
          ELSE IF q.count > 0 THEN [k |-> pipe_wake_writer(b, i), ret |-> m]
          ELSE IF at_eof(q) THEN [k |-> a, ret |-> 0]
          ELSE [k |-> sleep_reader(a, i, p), ret |-> BLOCKED_CALL]
  BY DEF pipe_read, PipeIn
<1>2. q \in PipeRecord /\ q.count \in Nat /\ ~is_named(q)
  BY PipeOf, PipeFields
<1>3. m \in 0 .. q.count
  BY <1>2, MinOfTwo
<1> HIDE DEF m
<1>4. /\ u \in PipeRecord /\ SameEnds(q, u)
      /\ u.wait_readers = q.wait_readers /\ u.wait_writers = q.wait_writers
  BY <1>2, <1>3, TakeType, BytesFields
<1> HIDE DEF u
<1>5. Waits(a, pipe_wake_writer(b, i)) /\ SameTables(a, pipe_wake_writer(b, i))
  BY <1>4, BytesWaits
<1>6. Waits(a, a) /\ SameTables(a, a)
  BY WaitsSame DEF SameTables, SameEnds
<1>7. ~at_eof(q) => Dozes(a, sleep_reader(a, i, p), p, TRUE)
  BY <1>2, SleepDozes DEF at_eof
<1>8. m # BLOCKED_CALL /\ 0 # BLOCKED_CALL
  BY <1>3 DEF BLOCKED_CALL
<1> HIDE DEF b, q, r
<1> DEFINE G == \/ Waits(a, r.k) /\ SameTables(a, r.k) /\ r.ret # BLOCKED_CALL
                \/ Dozes(a, r.k, p, TRUE) /\ r.ret = BLOCKED_CALL
<1>9. ASSUME n # 0, q.count > 0 PROVE G
  <2>1. r.k = pipe_wake_writer(b, i) /\ r.ret = m
    BY <1>1, <1>9
  <2> QED BY <1>5, <1>8, <2>1
<1>10. ASSUME n = 0 \/ (~(q.count > 0) /\ at_eof(q)) PROVE G
  <2>1. r.k = a /\ r.ret = 0
    BY <1>1, <1>10
  <2> QED BY <1>6, <1>8, <2>1
<1>11. ASSUME n # 0, ~(q.count > 0), ~at_eof(q) PROVE G
  <2>1. r.k = sleep_reader(a, i, p) /\ r.ret = BLOCKED_CALL
    BY <1>1, <1>11
  <2> QED BY <1>7, <1>11, <2>1
<1> QED BY <1>9, <1>10, <1>11 DEF r

\* pipe_write: it moves bytes, or finds no reader, or p goes to sleep.
LEMMA WriteWaits ==
  ASSUME NEW a, Sane(a), QueuesOK(a), NEW i \in Pipes, NEW p \in Procs, a.state[p] = "READY",
         a.pipe_table[i].in_use, NEW n \in Nat
  PROVE  LET r == pipe_write(a, i, p, n)
         IN  \/ Waits(a, r.k) /\ SameTables(a, r.k)
             \/ Dozes(a, r.k, p, FALSE)
<1> DEFINE q == a.pipe_table[i]
           m == Min({n, PIPE_BUFFER_SIZE - q.count})
           u == put_bytes(q, m)
           b == PipeIn(a, i, u)
           r == pipe_write(a, i, p, n)
<1>1. r = IF n = 0 \/ (q.open_read = 0 /\ (~is_named(q) \/ q.eof)) THEN [k |-> a, ret |-> 0]
          ELSE IF q.open_read = 0 \/ q.count >= PIPE_BUFFER_SIZE
          THEN [k |-> sleep_writer(a, i, p), ret |-> BLOCKED_CALL]
          ELSE [k |-> pipe_wake_reader(b, i), ret |-> m]
  BY DEF pipe_write, PipeIn
<1>2. q \in PipeRecord /\ PIPE_BUFFER_SIZE - q.count \in Nat /\ ~is_named(q)
  BY PipeOf, PipeFields, PipeAssumption
<1>3. m \in 0 .. PIPE_BUFFER_SIZE - q.count
  BY <1>2, MinOfTwo
<1> HIDE DEF m
<1>4. /\ u \in PipeRecord /\ SameEnds(q, u)
      /\ u.wait_readers = q.wait_readers /\ u.wait_writers = q.wait_writers
  BY <1>2, <1>3, PutType, BytesFields
<1> HIDE DEF u
<1>5. Waits(a, pipe_wake_reader(b, i)) /\ SameTables(a, pipe_wake_reader(b, i))
  BY <1>4, BytesWaits
<1>6. Waits(a, a) /\ SameTables(a, a)
  BY WaitsSame DEF SameTables, SameEnds
<1>7. q.open_read # 0 => Dozes(a, sleep_writer(a, i, p), p, FALSE)
  BY SleepDozes
<1> HIDE DEF b, q, r
<1> DEFINE G == \/ Waits(a, r.k) /\ SameTables(a, r.k)
                \/ Dozes(a, r.k, p, FALSE)
<1>8. ASSUME n = 0 \/ q.open_read = 0 PROVE G
  <2>1. r.k = a
    BY <1>1, <1>2, <1>8
  <2> QED BY <1>6, <2>1
<1>9. ASSUME n # 0, q.open_read # 0, q.count >= PIPE_BUFFER_SIZE PROVE G
  <2>1. r.k = sleep_writer(a, i, p)
    BY <1>1, <1>9
  <2> QED BY <1>7, <1>9, <2>1
<1>10. ASSUME n # 0, q.open_read # 0, ~(q.count >= PIPE_BUFFER_SIZE) PROVE G
  <2>1. r.k = pipe_wake_reader(b, i)
    BY <1>1, <1>10
  <2> QED BY <1>5, <2>1
<1> QED BY <1>8, <1>9, <1>10 DEF r

(***************************************************************************)
(* A process comes, goes or is redirected                                  *)
(***************************************************************************)
\* From a to b only p's own descriptors may change; nobody goes to sleep, and who
\* leaves the queues is ready.
Stays(a, b, p) ==
  /\ QueuesOK(b) /\ TablesOK(b) /\ b.waiting_for = a.waiting_for
  /\ \A x \in Procs : /\ x # p => b.fd[x] = a.fd[x]
                      /\ Reads(b, x) => Reads(a, x)
                      /\ Queued(b, x) => Queued(a, x)
                      /\ ~Queued(a, x) => b.state[x] = a.state[x]
                      /\ Queued(a, x) /\ ~Queued(b, x) => b.state[x] = "READY"

\* The same, but for p, which is in no queue afterwards.
Parts(a, b, p) ==
  /\ QueuesOK(b) /\ TablesOK(b) /\ ~Queued(b, p) /\ b.waiting_for = a.waiting_for
  /\ \A x \in Procs : x # p => /\ b.fd[x] = a.fd[x]
                               /\ Reads(b, x) => Reads(a, x)
                               /\ Queued(b, x) => Queued(a, x)
                               /\ ~Queued(a, x) => b.state[x] = a.state[x]
                               /\ Queued(a, x) /\ ~Queued(b, x) => b.state[x] = "READY"

\* One thing after the other.
LEMMA StaysThen ==
  ASSUME NEW a, NEW b, NEW c, NEW p \in Procs, Stays(b, c, p)
  PROVE  (Stays(a, b, p) => Stays(a, c, p)) /\ (Parts(a, b, p) => Parts(a, c, p))
BY DEF Stays, Parts

\* What pipes and descriptors do is such a step.
LEMMA WaitsStays ==
  ASSUME NEW a, NEW b, NEW p, Waits(a, b), TablesOK(b), b.waiting_for = a.waiting_for
  PROVE  Stays(a, b, p)
BY DEF Waits, Stays

\* The entries of p's PCB are written.
LEMMA FDsInStays ==
  ASSUME NEW a, Sane(a), QueuesOK(a), TablesOK(a), NEW p \in Procs, NEW fd,
         \A x \in Procs : x # p => fd[x] = a.fd[x]
  PROVE  LET b == FDsIn(a, fd)
         IN  Stays(a, b, p) /\ b.fd = fd /\ b.state = a.state
<1> DEFINE b == FDsIn(a, fd)
<1>1. /\ b.pipe_table = a.pipe_table /\ b.fd_table = a.fd_table /\ b.state = a.state
      /\ b.fd = fd /\ b.waiting_for = a.waiting_for
  BY DEF FDsIn, Sane, ShellKernel
<1> HIDE DEF b
<1>2. QueuesOK(b)
  BY <1>1 DEF QueuesOK, PipeOK
<1>3. SameTables(a, b)
  BY <1>1 DEF SameTables, SameEnds
<1>4. TablesOK(b)
  BY <1>3, SameTablesOK DEF TablesOK
<1>5. \A x : (Reads(b, x) <=> Reads(a, x)) /\ (Queued(b, x) <=> Queued(a, x))
  BY <1>1 DEF Reads, Queued
<1>6. Stays(a, b, p)
  BY <1>1, <1>2, <1>4, <1>5 DEF Stays
<1> QED BY <1>1, <1>6 DEF b

\* p, in no queue, gets another state.
LEMMA StateAtParts ==
  ASSUME NEW a, NEW b, Sane(b), NEW p \in Procs, Parts(a, b, p), NEW st
  PROVE  LET c == StateAt(b, p, st)
         IN  Parts(a, c, p) /\ c.state[p] = st /\ c.fd = b.fd
<1> DEFINE c == StateAt(b, p, st)
<1>1. /\ c.pipe_table = b.pipe_table /\ c.fd_table = b.fd_table /\ c.fd = b.fd
      /\ c.waiting_for = b.waiting_for /\ c.state = [b.state EXCEPT ![p] = st]
  BY DEF StateAt, Sane, ShellKernel
<1> HIDE DEF c
<1>2. c.state[p] = st /\ \A x \in Procs : x # p => c.state[x] = b.state[x]
  BY <1>1, ShellFields DEF Sane
<1>3. \A x : (Reads(c, x) <=> Reads(b, x)) /\ (Queued(c, x) <=> Queued(b, x))
  BY <1>1 DEF Reads, Queued
<1>4. \A m \in Pipes, x \in Procs : InPipe(c.pipe_table[m], x) => x # p
  BY <1>1 DEF Parts, Queued
<1>5. \A m \in Pipes : PipeOK(c, m)
  BY <1>1, <1>2, <1>4 DEF PipeOK, Parts, QueuesOK
<1>6. QueuesOK(c)
  BY <1>1, <1>5 DEF QueuesOK, Parts
<1>7. SameTables(b, c)
  BY <1>1 DEF SameTables, SameEnds
<1>8. TablesOK(c)
  BY <1>7, SameTablesOK DEF TablesOK, Parts
<1>9. Parts(a, c, p)
  BY <1>1, <1>2, <1>3, <1>6, <1>8 DEF Parts
<1> QED BY <1>1, <1>2, <1>9 DEF c

\* A reference is dropped if there is one.
LEMMA DropStays ==
  ASSUME NEW a, Sane(a), QueuesOK(a), TablesOK(a), NEW f, NEW p \in Procs
  PROVE  LET b == IF f >= 0 THEN fd_decref(a, f) ELSE a
         IN  Keeps(a, b) /\ Sane(b) /\ Stays(a, b, p) /\ QueuesOK(b) /\ TablesOK(b) /\ b.fd = a.fd
<1>1. Waits(a, a) /\ Keeps(a, a)
  BY WaitsSame, KeepsSame
<1>2. /\ Waits(a, fd_decref(a, f)) /\ TablesOK(fd_decref(a, f)) /\ Keeps(a, fd_decref(a, f))
  BY DecrefWaits, DecrefKeeps
<1> DEFINE b == IF f >= 0 THEN fd_decref(a, f) ELSE a
<1>3. Waits(a, b) /\ TablesOK(b) /\ Keeps(a, b)
  BY <1>1, <1>2
<1> HIDE DEF b
<1>4. Stays(a, b, p)
  BY <1>3, WaitsStays DEF Keeps
<1> QED BY <1>3, <1>4, KeepsOK DEF b, Waits

\* process_pipe_setup.
LEMMA SetupStays ==
  ASSUME NEW a, Sane(a), QueuesOK(a), TablesOK(a), NEW p \in Procs, a.state[p] # "FREE",
         NEW f \in FDs, NEW s \in 0 .. 1
  PROVE  LET b == process_pipe_setup(a, p, f, s)
         IN  /\ Stays(a, b, p)
             /\ b.fd[p][FD_STDIN] = IF s = FD_STDIN THEN f ELSE a.fd[p][FD_STDIN]
<1> DEFINE b == IF a.fd[p][s] >= 0 THEN fd_decref(a, a.fd[p][s]) ELSE a
           fd == [a.fd EXCEPT ![p][s] = f]
           c == FDsIn(b, fd)
           d == fd_incref(c, f)
<1>1. process_pipe_setup(a, p, f, s) = fd_incref([b EXCEPT !.fd[p][s] = f], f)
  BY DEF process_pipe_setup
<1>2. Keeps(a, b) /\ Sane(b) /\ Stays(a, b, p) /\ QueuesOK(b) /\ TablesOK(b) /\ b.fd = a.fd
  BY DropStays
<1> HIDE DEF b
<1>3. [b EXCEPT !.fd[p][s] = f] = c
  BY <1>2 DEF FDsIn
<1>4. /\ \A x \in Procs : x # p => fd[x] = b.fd[x]
      /\ fd \in [Procs -> [0 .. 1 -> FDs \cup {NoFD}]]
      /\ fd[p][FD_STDIN] = IF s = FD_STDIN THEN f ELSE a.fd[p][FD_STDIN]
  BY <1>2, ShellFields DEF Sane, FD_STDIN
<1> HIDE DEF fd
<1>5. Stays(b, c, p) /\ c.fd = fd /\ Keeps(b, c)
  BY <1>2, <1>4, FDsInStays, FDsInKeeps
<1> HIDE DEF c
<1>6. Sane(c) /\ QueuesOK(c) /\ TablesBut(c, f)
  BY <1>5, KeepsOK, TablesAll DEF Stays
<1>7. Waits(c, d) /\ TablesOK(d) /\ Keeps(c, d)
  BY <1>6, IncrefWaits, IncrefKeeps
<1> HIDE DEF d
<1>8. Stays(c, d, p) /\ d.fd = fd
  BY <1>5, <1>7, WaitsStays DEF Keeps, Waits
<1>9. Stays(a, d, p)
  BY <1>2, <1>5, <1>8, StaysThen
<1> QED BY <1>1, <1>3, <1>4, <1>8, <1>9 DEF d

\* pipe_cleanup_for_process: p leaves every queue, as nobody is in one of a pipe
\* that is not in use.
LEMMA CleanupParts ==
  ASSUME NEW a, Sane(a), QueuesOK(a), TablesOK(a), NEW p \in Procs
  PROVE  LET b == pipe_cleanup_for_process(a, p)
         IN  Parts(a, b, p) /\ b.fd = a.fd
<1> DEFINE b == pipe_cleanup_for_process(a, p)
           t == [i \in Pipes |-> IF a.pipe_table[i].in_use THEN leave_queues(a.pipe_table[i], p)
                                 ELSE a.pipe_table[i]]
<1>1. b = [a EXCEPT !.pipe_table = t]
  BY DEF pipe_cleanup_for_process
<1>2. /\ b.pipe_table = t /\ b.fd_table = a.fd_table /\ b.fd = a.fd /\ b.state = a.state
      /\ b.waiting_for = a.waiting_for
  BY <1>1 DEF Sane, ShellKernel
<1>3. ASSUME NEW i \in Pipes
      PROVE  /\ SameEnds(a.pipe_table[i], t[i])
             /\ Injective(t[i].wait_readers) /\ Injective(t[i].wait_writers)
             /\ \A x \in Procs :
                  /\ InQueue(t[i].wait_readers, x) <=> InQueue(a.pipe_table[i].wait_readers, x) /\ x # p
                  /\ InQueue(t[i].wait_writers, x) <=> InQueue(a.pipe_table[i].wait_writers, x) /\ x # p
  <2> DEFINE q == a.pipe_table[i]
             r == queue_remove_pid(q.wait_readers, p)
             w == queue_remove_pid(q.wait_writers, p)
             u == [q EXCEPT !.wait_readers = r, !.wait_writers = w]
  <2>1. /\ q \in PipeRecord /\ q.wait_readers \in Seq(Procs) /\ q.wait_writers \in Seq(Procs)
        /\ PipeOK(a, i) /\ QuietPipe(q)
    BY PipeOf, PipeFields
  <2>2. t[i] = IF q.in_use THEN u ELSE q
    BY DEF leave_queues
  <2> HIDE DEF t
  <2>3. /\ Injective(r) /\ \A x \in Procs : InQueue(r, x) <=> InQueue(q.wait_readers, x) /\ x # p
        /\ Injective(w) /\ \A x \in Procs : InQueue(w, x) <=> InQueue(q.wait_writers, x) /\ x # p
    <3>1. Injective(q.wait_readers) /\ Injective(q.wait_writers)
      BY <2>1 DEF PipeOK
    <3> HIDE DEF q
    <3>2. Injective(r) /\ \A x \in Procs : InQueue(r, x) <=> InQueue(q.wait_readers, x) /\ x # p
      BY <2>1, <3>1, QueueRemove
    <3>3. Injective(w) /\ \A x \in Procs : InQueue(w, x) <=> InQueue(q.wait_writers, x) /\ x # p
      BY <2>1, <3>1, QueueRemove
    <3> QED BY <3>2, <3>3
  <2> HIDE DEF r, w
  <2>4. u.wait_readers = r /\ u.wait_writers = w /\ SameEnds(q, u)
    BY <2>1 DEF PipeRecord, SameEnds
  <2> HIDE DEF u
  <2>5. CASE q.in_use
    BY <2>2, <2>3, <2>4, <2>5
  <2>6. CASE ~q.in_use
    BY <2>1, <2>2, <2>6 DEF PipeOK, QuietPipe, InPipe, SameEnds
  <2> QED BY <2>5, <2>6
<1> HIDE DEF t, b
<1>4. \A m \in Pipes, x \in Procs :
        /\ InPipe(b.pipe_table[m], x) <=> InPipe(a.pipe_table[m], x) /\ x # p
        /\ InQueue(b.pipe_table[m].wait_readers, x)
             <=> InQueue(a.pipe_table[m].wait_readers, x) /\ x # p
  BY <1>2, <1>3 DEF InPipe
<1>5. \A x \in Procs : /\ Reads(b, x) => Reads(a, x)
                       /\ Queued(b, x) <=> Queued(a, x) /\ x # p
  BY <1>4 DEF Reads, Queued
<1>6. ASSUME NEW m \in Pipes PROVE PipeOK(b, m) /\ QuietPipe(b.pipe_table[m])
  <2>1. PipeOK(a, m) /\ QuietPipe(a.pipe_table[m])
    BY DEF QueuesOK
  <2>2. b.pipe_table[m] = t[m]
    BY <1>2
  <2>3. PipeOK(b, m)
    BY <1>2, <1>3, <2>1, <2>2 DEF PipeOK, InPipe
  <2>4. QuietPipe(t[m])
    BY <1>3, <2>1 DEF QuietPipe, SameEnds, InPipe
  <2> QED BY <2>2, <2>3, <2>4
<1>7. QueuesOK(b)
  BY <1>4, <1>6 DEF QueuesOK
<1>8. SameTables(a, b)
  BY <1>2, <1>3 DEF SameTables
<1>9. TablesOK(b)
  BY <1>8, SameTablesOK DEF TablesOK
<1>10. Parts(a, b, p)
  BY <1>2, <1>5, <1>7, <1>9 DEF Parts
<1> QED BY <1>2, <1>10 DEF b

\* process_release_fds.
LEMMA ReleaseStays ==
  ASSUME NEW a, Sane(a), QueuesOK(a), TablesOK(a), NEW p \in Procs
  PROVE  Stays(a, process_release_fds(a, p), p)
<1> DEFINE b == IF a.fd[p][0] >= 0 THEN fd_decref(a, a.fd[p][0]) ELSE a
           c == IF a.fd[p][1] >= 0 THEN fd_decref(b, a.fd[p][1]) ELSE b
           fd == [c.fd EXCEPT ![p] = [s \in 0 .. 1 |-> NoFD]]
           e == FDsIn(c, fd)
<1>1. process_release_fds(a, p) = e
  BY DEF process_release_fds, FDsIn
<1>2. Sane(b) /\ Stays(a, b, p) /\ QueuesOK(b) /\ TablesOK(b)
  BY DropStays
<1> HIDE DEF b
<1>3. Sane(c) /\ Stays(b, c, p) /\ QueuesOK(c) /\ TablesOK(c)
  BY <1>2, DropStays
<1> HIDE DEF c
<1>4. \A x \in Procs : x # p => fd[x] = c.fd[x]
  BY <1>3, ShellFields DEF Sane
<1> HIDE DEF fd
<1>5. Stays(c, e, p)
  BY <1>3, <1>4, FDsInStays
<1> HIDE DEF e
<1> QED BY <1>1, <1>2, <1>3, <1>5, StaysThen

\* process_exit and process_kill.
LEMMA EndsParts ==
  ASSUME NEW a, Sane(a), QueuesOK(a), TablesOK(a), NEW p \in Procs
  PROVE  LET b == process_ends(a, p)
         IN  Parts(a, b, p) /\ b.state[p] = "FREE"
<1> DEFINE b == pipe_cleanup_for_process(a, p)
           c == process_release_fds(b, p)
           e == StateAt(c, p, "FREE")
<1>1. process_ends(a, p) = e
  BY DEF process_ends, StateAt
<1>2. Keeps(a, b) /\ Parts(a, b, p)
  BY CleanupKeeps, CleanupParts
<1> HIDE DEF b
<1>3. Sane(b) /\ QueuesOK(b) /\ TablesOK(b)
  BY <1>2, KeepsOK DEF Parts
<1>4. Keeps(b, c) /\ Stays(b, c, p)
  BY <1>3, ReleaseKeeps, ReleaseStays
<1> HIDE DEF c
<1>5. Sane(c) /\ Parts(a, c, p)
  BY <1>2, <1>4, KeepsOK, StaysThen
<1>6. Parts(a, e, p) /\ e.state[p] = "FREE"
  BY <1>5, StateAtParts
<1> QED BY <1>1, <1>6

\* process_create.
LEMMA CreateParts ==
  ASSUME NEW a, Sane(a), QueuesOK(a), TablesOK(a), NEW p \in Procs, ~Queued(a, p), NEW asleep
  PROVE  LET b == create_fds(a, p, asleep)
         IN  /\ Parts(a, b, p) /\ b.fd[p][FD_STDIN] = FD_STDIN
             /\ b.state[p] = IF asleep THEN "BLOCKED" ELSE "READY"
<1> DEFINE st == IF asleep THEN "BLOCKED" ELSE "READY"
           b == StateAt(a, p, st)
           fd == [b.fd EXCEPT ![p] = [s \in 0 .. 1 |-> s]]
           c == FDsIn(b, fd)
           d == fd_incref(c, FD_STDIN)
           e == fd_incref(d, FD_STDOUT)
<1>1. create_fds(a, p, asleep) = e
  BY DEF create_fds, FDsIn, StateAt
<1>2. st \in {"FREE", "READY", "BLOCKED"} /\ FD_STDIN \in FDs /\ FD_STDOUT \in FDs
  BY FDAssumption DEF FDs, FD_STDIN, FD_STDOUT
<1>3. Parts(a, a, p)
  BY DEF Parts
<1> HIDE DEF st
<1>4. Parts(a, b, p) /\ b.state[p] = st /\ Sane(b)
  BY <1>2, <1>3, StateAtParts, StateInTurns DEF Turns
<1> HIDE DEF b
<1>5. QueuesOK(b) /\ TablesOK(b) /\ b.fd \in [Procs -> [0 .. 1 -> FDs \cup {NoFD}]]
  BY <1>4, ShellFields DEF Parts, Sane
<1>6. /\ \A x \in Procs : x # p => fd[x] = b.fd[x]
      /\ fd \in [Procs -> [0 .. 1 -> FDs \cup {NoFD}]] /\ fd[p][FD_STDIN] = FD_STDIN
  BY <1>2, <1>5 DEF FD_STDIN, FD_STDOUT
<1> HIDE DEF fd
<1>7. Stays(b, c, p) /\ c.fd = fd /\ c.state = b.state /\ Keeps(b, c)
  BY <1>4, <1>5, <1>6, FDsInStays, FDsInKeeps
<1> HIDE DEF c
<1>8. Sane(c) /\ QueuesOK(c) /\ TablesBut(c, FD_STDIN)
  BY <1>2, <1>7, KeepsOK, TablesAll DEF Stays
<1>9. Waits(c, d) /\ TablesOK(d) /\ Keeps(c, d)
  BY <1>2, <1>8, IncrefWaits, IncrefKeeps
<1> HIDE DEF d
<1>10. Sane(d) /\ QueuesOK(d) /\ TablesBut(d, FD_STDOUT) /\ Stays(c, d, p)
  BY <1>2, <1>9, KeepsOK, TablesAll, WaitsStays DEF Waits, Keeps
<1>11. Waits(d, e) /\ TablesOK(e) /\ Keeps(d, e)
  BY <1>2, <1>10, IncrefWaits, IncrefKeeps
<1> HIDE DEF e
<1>12. Stays(d, e, p)
  BY <1>11, WaitsStays DEF Keeps
<1>13. Parts(a, e, p)
  BY <1>4, <1>7, <1>10, <1>12, StaysThen
<1>14. e.fd[p][FD_STDIN] = FD_STDIN
  BY <1>6, <1>7, <1>9, <1>11 DEF Waits
<1>15. e.state[p] = st
  BY <1>4, <1>7, <1>10, <1>12, <1>4 DEF Stays, Parts
<1> QED BY <1>1, <1>13, <1>14, <1>15 DEF st

(***************************************************************************)
(* Who waits for what                                                      *)
(***************************************************************************)
\* Whom the driver knows of is asleep in a read of the terminal.
WaiterOK(a, c) ==
  LET w == a.kbd_waiting_process IN
  w # Nobody => /\ a.state[w] = "BLOCKED" /\ ~Queued(a, w)
                /\ IF w = Sh THEN a.waiting_for = Nobody
                   ELSE c[w].at = "read" /\ a.fd[w][FD_STDIN] \in Terms

\* A child that is not started sleeps, and in no queue; who sleeps in pipe_read
\* does not read the terminal.
KidsOK(a, c) ==
  \A p \in Children :
    /\ a.state[p] = "FREE" <=> c[p].at = "gone"
    /\ c[p].at = "new" => a.state[p] = "BLOCKED" /\ ~Queued(a, p)
    /\ Reads(a, p) => a.fd[p][FD_STDIN] \notin Terms
    /\ a.state[p] # "FREE" => a.fd[p][FD_STDIN] \in FDs

\* The shell reads the terminal, and waits for a child if it waits.
ShellOK(a) == /\ ~Queued(a, Sh) /\ a.fd[Sh][FD_STDIN] = FD_STDIN
              /\ a.waiting_for # Nobody => a.state[Sh] = "BLOCKED" /\ a.waiting_for \in Children

Sleeping(a, c) == QueuesOK(a) /\ TablesOK(a) /\ WaiterOK(a, c) /\ KidsOK(a, c) /\ ShellOK(a)

\* Whoever sleeps has a reason.
Accounted(a, c) ==
  \A p \in Procs : a.state[p] = "BLOCKED" =>
     \/ Queued(a, p) \/ p = a.kbd_waiting_process
     \/ IF p = Sh THEN a.waiting_for # Nobody ELSE c[p].at = "new"

\* The right half of a pipeline does not read the terminal once it is set up.
Redirected(a) == a.state[Right] # "FREE" => a.fd[Right][FD_STDIN] \notin Terms

Unstarted == {"gone", "new"}
Piped == sh.cmd.kind = "pipeline"

\* Where the shell is when the right half is set up and not started.
SetUp == sh.at \in {"close_read", "close_write", "start_left", "start_right"}
           \/ (sh.at = "cooked" /\ Piped)

\* What holds at the places of the shell: the pipe it made is not a terminal,
\* the halves wait until they are started, the right one is redirected by then.
PlaceOK ==
  /\ sh.at \in PipeOpen => sh.fds[1] \notin Terms
  /\ sh.at \in PipeOpen \cup {"pipe"} => Piped
  /\ sh.at \in {"right", "setup_left", "setup_right", "close_read", "close_write", "start_left"}
       \/ (sh.at = "cooked" /\ Piped) => kids[Left].at \in Unstarted
  /\ SetUp \/ sh.at \in {"setup_left", "setup_right"} => kids[Right].at \in Unstarted
  /\ SetUp \/ kids[Right].at \notin Unstarted => Redirected(k)
  /\ k.waiting_for # Nobody => sh.at \in {"wait_right", "raw"}
  /\ k.kbd_waiting_process = Sh => sh.at = "prompt"

\* Who can be there at each place, if no pipeline was put in the background.
Cast ==
  IF sh.at \in {"prompt", "line", "pipe", "left", "drop_read", "drop_write", "create"} THEN {}
  ELSE IF sh.at = "cooked" THEN (IF Piped THEN {Left, Right} ELSE {})
  ELSE IF sh.at \in {"right", "kill_left"} THEN {Left}
  ELSE IF sh.at = "wait" THEN {Single}
  ELSE IF sh.at = "raw" THEN {k.waiting_for}
  ELSE IF sh.at = "wait_right" THEN {k.waiting_for, Right}
  ELSE {Left, Right}

\* If no pipeline was put in the background, only the cast is there and
\* whoever sleeps has a reason.
NoJobs == ~jobs =>
  /\ ~sh.cmd.bg
  /\ \A p \in Children : Alive(p) => p \in Cast
  /\ sh.at = "wait_right" => k.waiting_for \in {Nobody, Left}
  /\ Accounted(k, kids)

\* The inductive invariant behind KeyboardHasOwner, on top of ShellInv.
KeyInv == Sleeping(k, kids) /\ PlaceOK /\ NoJobs

\* From c to d a child goes on if it runs, and stays where it is otherwise.
KidsMove(a, c, d) ==
  \A x \in Children :
    \/ d[x].at = c[x].at
    \/ a.state[x] = "READY" /\ c[x].at \notin Unstarted /\ d[x].at \notin Unstarted

\* Who runs is in no queue.
LEMMA ReadyFree ==
  ASSUME NEW a, QueuesOK(a), NEW x \in Procs, a.state[x] # "BLOCKED"
  PROVE  ~Queued(a, x)
BY DEF QueuesOK, PipeOK, Queued

\* Who is in a queue is asleep.
LEMMA QueuedSleeps ==
  ASSUME NEW a, QueuesOK(a), NEW x \in Procs, Queued(a, x)
  PROVE  a.state[x] = "BLOCKED"
BY ReadyFree

\* A step in which nobody goes to sleep.
LEMMA CalmSleeping ==
  ASSUME NEW a, NEW b, NEW c, NEW d, Sleeping(a, c), Waits(a, b), TablesOK(b), KidsMove(a, c, d),
         a.kbd_waiting_process \in Procs \cup {Nobody},
         b.kbd_waiting_process = a.kbd_waiting_process, b.waiting_for = a.waiting_for
  PROVE  Sleeping(b, d) /\ (Accounted(a, c) => Accounted(b, d))
<1> DEFINE w == a.kbd_waiting_process
<1>1. /\ QueuesOK(a) /\ WaiterOK(a, c) /\ KidsOK(a, c) /\ ShellOK(a)
      /\ QueuesOK(b) /\ b.fd = a.fd
  BY DEF Sleeping, Waits
<1>2. ASSUME NEW x \in Procs
      PROVE  /\ Reads(b, x) => Reads(a, x)
             /\ Queued(b, x) => Queued(a, x)
             /\ ~Queued(a, x) => b.state[x] = a.state[x]
             /\ Queued(a, x) /\ ~Queued(b, x) => b.state[x] = "READY"
             /\ Queued(a, x) => a.state[x] = "BLOCKED"
             /\ Queued(b, x) => b.state[x] = "BLOCKED"
             /\ b.state[x] = "FREE" <=> a.state[x] = "FREE"
  <2>1. /\ Queued(a, x) => a.state[x] = "BLOCKED"
        /\ Queued(b, x) => b.state[x] = "BLOCKED"
    BY <1>1, QueuedSleeps
  <2> QED BY <2>1 DEF Waits
<1>3. WaiterOK(b, d)
  <2>1. SUFFICES ASSUME w # Nobody
                 PROVE  /\ b.state[w] = "BLOCKED" /\ ~Queued(b, w)
                        /\ IF w = Sh THEN b.waiting_for = Nobody
                           ELSE d[w].at = "read" /\ b.fd[w][FD_STDIN] \in Terms
    BY DEF WaiterOK
  <2>2. /\ w \in Procs /\ a.state[w] = "BLOCKED" /\ ~Queued(a, w)
        /\ IF w = Sh THEN a.waiting_for = Nobody
           ELSE c[w].at = "read" /\ a.fd[w][FD_STDIN] \in Terms
    BY <1>1, <2>1 DEF WaiterOK
  <2>3. b.state[w] = "BLOCKED" /\ ~Queued(b, w)
    BY <1>2, <2>2
  <2>4. w # Sh => d[w].at = "read"
    BY <2>2, ProcNames DEF KidsMove
  <2> QED BY <1>1, <2>2, <2>3, <2>4
<1>4. KidsOK(b, d)
  <2> SUFFICES ASSUME NEW p \in Children
               PROVE  /\ b.state[p] = "FREE" <=> d[p].at = "gone"
                      /\ d[p].at = "new" => b.state[p] = "BLOCKED" /\ ~Queued(b, p)
                      /\ Reads(b, p) => b.fd[p][FD_STDIN] \notin Terms
                      /\ b.state[p] # "FREE" => b.fd[p][FD_STDIN] \in FDs
    BY DEF KidsOK
  <2>1. p \in Procs
    BY ProcNames
  <2>2. /\ a.state[p] = "FREE" <=> c[p].at = "gone"
        /\ c[p].at = "new" => a.state[p] = "BLOCKED" /\ ~Queued(a, p)
        /\ Reads(a, p) => a.fd[p][FD_STDIN] \notin Terms
        /\ a.state[p] # "FREE" => a.fd[p][FD_STDIN] \in FDs
    BY <1>1 DEF KidsOK
  <2>3. \/ d[p].at = c[p].at
        \/ a.state[p] = "READY" /\ c[p].at \notin Unstarted /\ d[p].at \notin Unstarted
    BY DEF KidsMove
  <2> QED BY <1>1, <1>2, <2>1, <2>2, <2>3 DEF Unstarted
<1>5. ShellOK(b)
  BY <1>1, <1>2, ProcNames DEF ShellOK
<1>6. ASSUME Accounted(a, c) PROVE Accounted(b, d)
  <2> SUFFICES ASSUME NEW p \in Procs, b.state[p] = "BLOCKED"
               PROVE  \/ Queued(b, p) \/ p = b.kbd_waiting_process
                      \/ IF p = Sh THEN b.waiting_for # Nobody ELSE d[p].at = "new"
    BY DEF Accounted
  <2>1. a.state[p] = "BLOCKED"
    BY <1>2
  <2>2. \/ Queued(a, p) \/ p = w
        \/ IF p = Sh THEN a.waiting_for # Nobody ELSE c[p].at = "new"
    BY <1>6, <2>1 DEF Accounted
  <2>3. p # Sh => d[p].at = c[p].at
    BY <2>1, ProcNames DEF KidsMove
  <2>4. Queued(a, p) => Queued(b, p)
    BY <1>2
  <2> QED BY <2>2, <2>3, <2>4
<1> QED BY <1>1, <1>3, <1>4, <1>5, <1>6 DEF Sleeping

\* A child goes to sleep at a pipe.
LEMMA DozesSleeping ==
  ASSUME NEW a, Sane(a), NEW b, NEW c, NEW d, Sleeping(a, c), NEW p \in Children, NEW reader,
         Dozes(a, b, p, reader), KidsMove(a, c, d), a.state[p] = "READY",
         reader => a.fd[p][FD_STDIN] \notin Terms,
         b.kbd_waiting_process = a.kbd_waiting_process, b.waiting_for = a.waiting_for
  PROVE  Sleeping(b, d) /\ (Accounted(a, c) => Accounted(b, d))
<1> DEFINE w == a.kbd_waiting_process
<1>1. /\ QueuesOK(a) /\ TablesOK(a) /\ WaiterOK(a, c) /\ KidsOK(a, c) /\ ShellOK(a)
      /\ QueuesOK(b) /\ b.fd = a.fd /\ SameTables(a, b)
  BY DEF Sleeping, Dozes
<1>2. TablesOK(b)
  BY <1>1, SameTablesOK DEF TablesOK
<1>3. /\ b.state[p] = "BLOCKED" /\ Queued(b, p) /\ (Reads(b, p) <=> reader)
      /\ \A x \in Procs : x # p => /\ b.state[x] = a.state[x]
                                   /\ Reads(b, x) <=> Reads(a, x)
                                   /\ Queued(b, x) <=> Queued(a, x)
  BY DEF Dozes
<1>4. p # Sh /\ p \in Procs /\ w \in Procs \cup {Nobody}
  BY ProcNames, ShellFields DEF Sane
<1>5. WaiterOK(b, d)
  <2>1. w # Nobody => w # p /\ (w # Sh => d[w].at = "read")
    BY <1>1, <1>4, ProcNames DEF WaiterOK, KidsMove
  <2> QED BY <1>1, <1>3, <1>4, <2>1 DEF WaiterOK
<1>6. KidsOK(b, d)
  <2> SUFFICES ASSUME NEW x \in Children
               PROVE  /\ b.state[x] = "FREE" <=> d[x].at = "gone"
                      /\ d[x].at = "new" => b.state[x] = "BLOCKED" /\ ~Queued(b, x)
                      /\ Reads(b, x) => b.fd[x][FD_STDIN] \notin Terms
                      /\ b.state[x] # "FREE" => b.fd[x][FD_STDIN] \in FDs
    BY DEF KidsOK
  <2>1. x \in Procs
    BY ProcNames
  <2>2. /\ a.state[x] = "FREE" <=> c[x].at = "gone"
        /\ c[x].at = "new" => a.state[x] = "BLOCKED" /\ ~Queued(a, x)
        /\ Reads(a, x) => a.fd[x][FD_STDIN] \notin Terms
        /\ a.state[x] # "FREE" => a.fd[x][FD_STDIN] \in FDs
    BY <1>1 DEF KidsOK
  <2>3. \/ d[x].at = c[x].at
        \/ a.state[x] = "READY" /\ c[x].at \notin Unstarted /\ d[x].at \notin Unstarted
    BY DEF KidsMove
  <2>4. CASE x = p
    BY <1>1, <1>3, <2>2, <2>3, <2>4 DEF Unstarted
  <2>5. CASE x # p
    BY <1>1, <1>3, <2>1, <2>2, <2>3, <2>5 DEF Unstarted
  <2> QED BY <2>4, <2>5
<1>7. ShellOK(b)
  BY <1>1, <1>3, <1>4, ProcNames DEF ShellOK
<1>8. ASSUME Accounted(a, c) PROVE Accounted(b, d)
  <2> SUFFICES ASSUME NEW x \in Procs, b.state[x] = "BLOCKED"
               PROVE  \/ Queued(b, x) \/ x = b.kbd_waiting_process
                      \/ IF x = Sh THEN b.waiting_for # Nobody ELSE d[x].at = "new"
    BY DEF Accounted
  <2>1. CASE x = p
    BY <1>3, <2>1
  <2>2. CASE x # p
    <3>1. a.state[x] = "BLOCKED"
      BY <1>3, <2>2
    <3>2. \/ Queued(a, x) \/ x = w
          \/ IF x = Sh THEN a.waiting_for # Nobody ELSE c[x].at = "new"
      BY <1>8, <3>1 DEF Accounted
    <3>3. x # Sh => d[x].at = c[x].at
      BY <3>1, ProcNames DEF KidsMove
    <3> QED BY <1>3, <2>2, <3>2, <3>3
  <2> QED BY <2>1, <2>2
<1> QED BY <1>1, <1>2, <1>5, <1>6, <1>7, <1>8 DEF Sleeping

\* From a to b nothing that a sleeper waits for is touched.
Untouched(a, b) ==
  /\ b.state = a.state /\ b.fd = a.fd /\ b.fd_table = a.fd_table /\ b.pipe_table = a.pipe_table
  /\ b.kbd_waiting_process = a.kbd_waiting_process /\ b.waiting_for = a.waiting_for

\* Then everybody sleeps on.
LEMMA FieldSleeping ==
  ASSUME NEW a, Sane(a), NEW b, NEW c, Sleeping(a, c), Untouched(a, b)
  PROVE  Sleeping(b, c) /\ (Accounted(a, c) => Accounted(b, c))
<1>0. /\ b.state = a.state /\ b.fd = a.fd /\ b.fd_table = a.fd_table
      /\ b.pipe_table = a.pipe_table
      /\ b.kbd_waiting_process = a.kbd_waiting_process /\ b.waiting_for = a.waiting_for
  BY DEF Untouched
<1>1. QueuesOK(a) /\ TablesOK(a) /\ a.kbd_waiting_process \in Procs \cup {Nobody}
  BY ShellFields DEF Sleeping, Sane
<1>2. Waits(a, b)
  BY <1>0, <1>1, WaitsSame
<1>3. SameTables(a, b)
  BY <1>0 DEF SameTables, SameEnds
<1>4. TablesOK(b)
  BY <1>1, <1>3, SameTablesOK DEF TablesOK
<1>5. KidsMove(a, c, c)
  BY DEF KidsMove
<1> QED BY <1>0, <1>1, <1>2, <1>4, <1>5, CalmSleeping

\* Only states change, and not of those in a queue.
LEMMA StatesQueues ==
  ASSUME NEW a, Sane(a), NEW b, QueuesOK(a), TablesOK(a), b.pipe_table = a.pipe_table,
         b.fd_table = a.fd_table, \A x \in Procs : Queued(a, x) => b.state[x] = "BLOCKED"
  PROVE  /\ QueuesOK(b) /\ TablesOK(b)
         /\ \A x : (Reads(b, x) <=> Reads(a, x)) /\ (Queued(b, x) <=> Queued(a, x))
<1>1. SameTables(a, b)
  BY DEF SameTables, SameEnds
<1>2. TablesOK(b)
  BY <1>1, SameTablesOK DEF TablesOK
<1>3. \A x : (Reads(b, x) <=> Reads(a, x)) /\ (Queued(b, x) <=> Queued(a, x))
  BY DEF Reads, Queued
<1>4. ASSUME NEW i \in Pipes PROVE PipeOK(b, i)
  BY DEF PipeOK, QueuesOK, Queued
<1>5. QueuesOK(b)
  BY <1>4 DEF QueuesOK
<1> QED BY <1>2, <1>3, <1>5

\* kbd_set_waiting: somebody goes to sleep in a read of the terminal.
LEMMA TermSleeping ==
  ASSUME NEW a, Sane(a), NEW c, Sleeping(a, c), NEW p \in Procs, a.state[p] = "READY",
         p # Sh => c[p].at = "read" /\ a.fd[p][FD_STDIN] \in Terms
  PROVE  LET b == kbd_set_waiting(a, p)
         IN  /\ Sleeping(b, c)
             /\ a.kbd_waiting_process = Nobody /\ Accounted(a, c) => Accounted(b, c)
             /\ b.fd = a.fd /\ b.waiting_for = a.waiting_for /\ b.kbd_waiting_process = p
             /\ \A x \in Procs : b.state[x] = "FREE" <=> a.state[x] = "FREE"
<1> DEFINE b == kbd_set_waiting(a, p)
           G == /\ Sleeping(b, c)
                /\ a.kbd_waiting_process = Nobody /\ Accounted(a, c) => Accounted(b, c)
                /\ b.fd = a.fd /\ b.waiting_for = a.waiting_for /\ b.kbd_waiting_process = p
                /\ \A x \in Procs : b.state[x] = "FREE" <=> a.state[x] = "FREE"
<1>1. /\ b.state[p] = "BLOCKED" /\ b.kbd_waiting_process = p
      /\ \A x \in Procs : x # p => b.state[x] = a.state[x]
      /\ b.fd = a.fd /\ b.fd_table = a.fd_table /\ b.pipe_table = a.pipe_table
      /\ b.waiting_for = a.waiting_for
  BY DEF Sane, ShellKernel, kbd_set_waiting
<1> HIDE DEF b
<1>2. QueuesOK(a) /\ TablesOK(a) /\ WaiterOK(a, c) /\ KidsOK(a, c) /\ ShellOK(a)
  BY DEF Sleeping
<1>3. \A x \in Procs : Queued(a, x) => b.state[x] = "BLOCKED"
  BY <1>1, <1>2, QueuedSleeps
<1>4. /\ QueuesOK(b) /\ TablesOK(b)
      /\ \A x : (Reads(b, x) <=> Reads(a, x)) /\ (Queued(b, x) <=> Queued(a, x))
  BY <1>1, <1>2, <1>3, StatesQueues
<1>5. ~Queued(a, p)
  BY <1>2, ReadyFree
<1>6. \A x \in Procs : b.state[x] = "FREE" <=> a.state[x] = "FREE"
  BY <1>1
<1>7. WaiterOK(b, c)
  <2>1. p = Sh => b.waiting_for = Nobody
    BY <1>1, <1>2 DEF ShellOK
  <2> QED BY <1>1, <1>4, <1>5, <2>1 DEF WaiterOK
<1>8. KidsOK(b, c)
  <2> SUFFICES ASSUME NEW x \in Children
               PROVE  /\ b.state[x] = "FREE" <=> c[x].at = "gone"
                      /\ c[x].at = "new" => b.state[x] = "BLOCKED" /\ ~Queued(b, x)
                      /\ Reads(b, x) => b.fd[x][FD_STDIN] \notin Terms
                      /\ b.state[x] # "FREE" => b.fd[x][FD_STDIN] \in FDs
    BY DEF KidsOK
  <2>1. x \in Procs
    BY ProcNames
  <2>2. /\ a.state[x] = "FREE" <=> c[x].at = "gone"
        /\ c[x].at = "new" => a.state[x] = "BLOCKED" /\ ~Queued(a, x)
        /\ Reads(a, x) => a.fd[x][FD_STDIN] \notin Terms
        /\ a.state[x] # "FREE" => a.fd[x][FD_STDIN] \in FDs
    BY <1>2 DEF KidsOK
  <2> QED BY <1>1, <1>4, <1>6, <2>1, <2>2
<1>9. ShellOK(b)
  <2>1. a.waiting_for # Nobody => p # Sh
    BY <1>2 DEF ShellOK
  <2> QED BY <1>1, <1>2, <1>4, <2>1, ProcNames DEF ShellOK
<1>10. ASSUME a.kbd_waiting_process = Nobody, Accounted(a, c) PROVE Accounted(b, c)
  <2> SUFFICES ASSUME NEW x \in Procs, b.state[x] = "BLOCKED"
               PROVE  \/ Queued(b, x) \/ x = b.kbd_waiting_process
                      \/ IF x = Sh THEN b.waiting_for # Nobody ELSE c[x].at = "new"
    BY DEF Accounted
  <2>1. CASE x = p
    BY <1>1, <2>1
  <2>2. CASE x # p
    <3>1. a.state[x] = "BLOCKED" /\ x # a.kbd_waiting_process
      BY <1>1, <1>10, <2>2, ProcNames
    <3>2. \/ Queued(a, x) \/ x = a.kbd_waiting_process
          \/ IF x = Sh THEN a.waiting_for # Nobody ELSE c[x].at = "new"
      BY <1>10, <3>1 DEF Accounted
    <3> QED BY <1>1, <1>4, <3>1, <3>2
  <2> QED BY <2>1, <2>2
<1>11. G
  BY <1>1, <1>2, <1>4, <1>6, <1>7, <1>8, <1>9, <1>10 DEF Sleeping
<1> QED BY <1>11 DEF b

\* wake_waiting: the driver forgets whom it wakes.
LEMMA WakeSleeping ==
  ASSUME NEW a, Sane(a), NEW c, Sleeping(a, c)
  PROVE  LET b == wake_waiting(a)
         IN  /\ Sane(b) /\ Sleeping(b, c) /\ (Accounted(a, c) => Accounted(b, c))
             /\ b.fd = a.fd /\ b.waiting_for = a.waiting_for /\ b.kbd_waiting_process = Nobody
             /\ \A x \in Procs : b.state[x] = "FREE" <=> a.state[x] = "FREE"
<1> DEFINE b == wake_waiting(a)
           w == a.kbd_waiting_process
           G == /\ Sane(b) /\ Sleeping(b, c) /\ (Accounted(a, c) => Accounted(b, c))
                /\ b.fd = a.fd /\ b.waiting_for = a.waiting_for /\ b.kbd_waiting_process = Nobody
                /\ \A x \in Procs : b.state[x] = "FREE" <=> a.state[x] = "FREE"
<1>1. CASE w = Nobody
  BY <1>1 DEF wake_waiting
<1>2. CASE w # Nobody
  <2>0. w \in Procs
    BY <1>2, ShellFields DEF Sane
  <2>1. /\ b.state[w] = "READY" /\ b.kbd_waiting_process = Nobody
        /\ \A x \in Procs : x # w => b.state[x] = a.state[x]
        /\ b.fd = a.fd /\ b.fd_table = a.fd_table /\ b.pipe_table = a.pipe_table
        /\ b.waiting_for = a.waiting_for
    BY <1>2, <2>0 DEF Sane, ShellKernel, wake_waiting
  <2>a. b \in ShellKernel
    BY <1>2, <2>0 DEF Sane, ShellKernel, wake_waiting
  <2> HIDE DEF b
  <2>b. Sane(b)
    BY <2>1, <2>a DEF Sane, DataOK
  <2>2. QueuesOK(a) /\ TablesOK(a) /\ WaiterOK(a, c) /\ KidsOK(a, c) /\ ShellOK(a)
    BY DEF Sleeping
  <2>3. /\ a.state[w] = "BLOCKED" /\ ~Queued(a, w)
        /\ IF w = Sh THEN a.waiting_for = Nobody
           ELSE c[w].at = "read" /\ a.fd[w][FD_STDIN] \in Terms
    BY <1>2, <2>2 DEF WaiterOK
  <2>4. \A x \in Procs : Queued(a, x) => b.state[x] = "BLOCKED"
    BY <2>1, <2>2, <2>3, QueuedSleeps
  <2>5. /\ QueuesOK(b) /\ TablesOK(b)
        /\ \A x : (Reads(b, x) <=> Reads(a, x)) /\ (Queued(b, x) <=> Queued(a, x))
    BY <2>1, <2>2, <2>4, StatesQueues
  <2>6. \A x \in Procs : b.state[x] = "FREE" <=> a.state[x] = "FREE"
    BY <2>1, <2>3
  <2>7. WaiterOK(b, c)
    BY <2>1 DEF WaiterOK
  <2>8. KidsOK(b, c)
    <3> SUFFICES ASSUME NEW x \in Children
                 PROVE  /\ b.state[x] = "FREE" <=> c[x].at = "gone"
                        /\ c[x].at = "new" => b.state[x] = "BLOCKED" /\ ~Queued(b, x)
                        /\ Reads(b, x) => b.fd[x][FD_STDIN] \notin Terms
                        /\ b.state[x] # "FREE" => b.fd[x][FD_STDIN] \in FDs
      BY DEF KidsOK
    <3>1. x \in Procs /\ x # Sh
      BY ProcNames
    <3>2. /\ a.state[x] = "FREE" <=> c[x].at = "gone"
          /\ c[x].at = "new" => a.state[x] = "BLOCKED" /\ ~Queued(a, x)
          /\ Reads(a, x) => a.fd[x][FD_STDIN] \notin Terms
          /\ a.state[x] # "FREE" => a.fd[x][FD_STDIN] \in FDs
      BY <2>2 DEF KidsOK
    <3>3. c[x].at = "new" => x # w
      BY <2>3, <3>1
    <3> QED BY <2>1, <2>5, <2>6, <3>1, <3>2, <3>3
  <2>9. ShellOK(b)
    BY <2>1, <2>2, <2>3, <2>5, ProcNames DEF ShellOK
  <2>10. ASSUME Accounted(a, c) PROVE Accounted(b, c)
    <3> SUFFICES ASSUME NEW x \in Procs, b.state[x] = "BLOCKED"
                 PROVE  \/ Queued(b, x) \/ x = b.kbd_waiting_process
                        \/ IF x = Sh THEN b.waiting_for # Nobody ELSE c[x].at = "new"
      BY DEF Accounted
    <3>1. a.state[x] = "BLOCKED" /\ x # w
      BY <2>1
    <3>2. \/ Queued(a, x) \/ x = w
          \/ IF x = Sh THEN a.waiting_for # Nobody ELSE c[x].at = "new"
      BY <2>10, <3>1 DEF Accounted
    <3> QED BY <2>1, <2>5, <3>1, <3>2
  <2>11. G
    BY <2>1, <2>b, <2>5, <2>6, <2>7, <2>8, <2>9, <2>10 DEF Sleeping
  <2> QED BY <2>11 DEF b
<1>3. G
  BY <1>1, <1>2
<1> QED BY <1>3 DEF b

\* From a to b nobody comes or goes, whom the driver knows of it may forget, and
\* everybody who sleeps has a reason if that was so before; c and d say where the
\* children are.
Wakes(a, b, c, d) ==
  /\ Sleeping(b, d) /\ (Accounted(a, c) => Accounted(b, d))
  /\ b.fd = a.fd /\ b.waiting_for = a.waiting_for
  /\ b.kbd_waiting_process \in {a.kbd_waiting_process, Nobody}
  /\ \A x \in Procs : b.state[x] = "FREE" <=> a.state[x] = "FREE"

\* What the driver does with a key: it is put somewhere, and somebody may be woken.
LEMMA TermInWakes ==
  ASSUME NEW a, Sane(a), NEW c, Sleeping(a, c), NEW t, NEW y
  PROVE  LET b == TermIn(a, t, y, a.kbd_waiting_process)
         IN  Wakes(a, b, c, c) /\ Wakes(a, wake_waiting(b), c, c)
<1> DEFINE w == a.kbd_waiting_process
           b == TermIn(a, t, y, w)
           e == wake_waiting(a)
           f == wake_waiting(b)
<1>1. Untouched(a, b)
  BY DEF Untouched, TermIn, Sane, ShellKernel
<1>2. Untouched(e, f)
  <2>1. CASE w = Nobody
    <3>1. e = a /\ f = b
      BY <1>1, <2>1 DEF wake_waiting, Untouched
    <3> QED BY <1>1, <3>1
  <2>2. CASE w # Nobody
    <3>1. /\ e = [a EXCEPT !.state[w] = "READY", !.kbd_waiting_process = Nobody]
          /\ f = [b EXCEPT !.state[w] = "READY", !.kbd_waiting_process = Nobody]
      BY <1>1, <2>2 DEF wake_waiting, Untouched
    <3> DEFINE st == [a.state EXCEPT ![w] = "READY"]
    <3>2. /\ e = [a EXCEPT !.state = st, !.kbd_waiting_process = Nobody]
          /\ f = [b EXCEPT !.state = st, !.kbd_waiting_process = Nobody]
      BY <1>1, <3>1 DEF Untouched
    <3>3. f = [a EXCEPT !.buff = t, !.tty = y, !.state = st, !.kbd_waiting_process = Nobody]
      BY <3>2 DEF TermIn
    <3> HIDE DEF e, f, st
    <3>4. a \in ShellKernel
      BY DEF Sane
    <3> QED BY ONLY <3>2, <3>3, <3>4 DEF Untouched, ShellKernel
  <2> QED BY <2>1, <2>2
<1>3. /\ Sane(e) /\ Sleeping(e, c) /\ (Accounted(a, c) => Accounted(e, c))
      /\ e.fd = a.fd /\ e.waiting_for = a.waiting_for /\ e.kbd_waiting_process = Nobody
      /\ \A x \in Procs : e.state[x] = "FREE" <=> a.state[x] = "FREE"
  BY WakeSleeping
<1> HIDE DEF e, f, b
<1>4. Sleeping(b, c) /\ (Accounted(a, c) => Accounted(b, c))
  BY <1>1, FieldSleeping
<1>5. Sleeping(f, c) /\ (Accounted(e, c) => Accounted(f, c))
  BY <1>2, <1>3, FieldSleeping
<1>6. Wakes(a, b, c, c)
  BY <1>1, <1>4 DEF Wakes, Untouched
<1>7. Wakes(a, f, c, c)
  BY <1>2, <1>3, <1>5 DEF Wakes, Untouched
<1> QED BY <1>6, <1>7 DEF b, f

\* Any key.
LEMMA KeyWakes ==
  ASSUME NEW a, KernelOK(a), NEW c, Sleeping(a, c), NEW ch
  PROVE  Wakes(a, press(a, ch), c, c) /\ Wakes(a, press_ctrl_d(a), c, c)
<1> DEFINE w == a.kbd_waiting_process
           u == a.buff
           s == a.tty.line
<1>1. Sane(a) /\ a.tty \in Lines
  BY LineFields DEF KernelOK, Sane
<1>2. ASSUME NEW t, NEW y
      PROVE  Wakes(a, TermIn(a, t, y, w), c, c) /\ Wakes(a, wake_waiting(TermIn(a, t, y, w)), c, c)
  BY <1>1, TermInWakes
<1>3. ASSUME NEW e PROVE Wakes(a, wake_waiting(writeBuff(a, e)), c, c)
  <2> DEFINE t == IF Len(u) < BUFF_LENGTH THEN Append(u, e) ELSE Append(Tail(u), e)
  <2>1. writeBuff(a, e) = TermIn(a, t, a.tty, w)
    BY DEF writeBuff, TermIn, KernelOK, ShellKernel
  <2> HIDE DEF t
  <2> QED BY <1>2, <2>1
<1>4. Wakes(a, line_char(a, ch), c, c)
  <2>1. CASE ch = Newline
    <3> DEFINE r == Append(s, ch)
               y == TextIn(a.tty, r, TRUE)
    <3>1. line_char(a, ch) = wake_waiting([a EXCEPT !.tty.line = r, !.tty.line_ready = TRUE])
      BY <2>1 DEF line_char, Newline, Backspace
    <3> HIDE DEF r
    <3>2. [a EXCEPT !.tty.line = r, !.tty.line_ready = TRUE] = TermIn(a, u, y, w)
      BY DEF TermIn, TextIn, KernelOK, ShellKernel
    <3> HIDE DEF y
    <3> QED BY <1>2, <3>1, <3>2
  <2>2. ASSUME NEW r PROVE Wakes(a, [a EXCEPT !.tty.line = r], c, c)
    <3> DEFINE y == [a.tty EXCEPT !.line = r]
    <3>1. [a EXCEPT !.tty.line = r] = TermIn(a, u, y, w)
      BY DEF TermIn, KernelOK, ShellKernel
    <3> HIDE DEF y
    <3> QED BY <1>2, <3>1
  <2>3. CASE ch = Backspace
    <3> DEFINE r == IF s = <<>> THEN s ELSE Front(s)
    <3>1. line_char(a, ch) = [a EXCEPT !.tty.line = r]
      BY <2>3 DEF line_char, Newline, Backspace
    <3> HIDE DEF r
    <3> QED BY <2>2, <3>1
  <2>4. CASE ch \notin {Newline, Backspace}
    <3> DEFINE r == IF Len(s) < TTY_LINE_SIZE - 1 THEN Append(s, ch) ELSE s
    <3>1. line_char(a, ch) = [a EXCEPT !.tty.line = r]
      BY <2>4 DEF line_char
    <3> HIDE DEF r
    <3> QED BY <2>2, <3>1
  <2> QED BY <2>1, <2>3, <2>4
<1>5. Wakes(a, press(a, ch), c, c)
  BY <1>3, <1>4 DEF press
<1>6. Wakes(a, press_ctrl_d(a), c, c)
  <2> DEFINE y == IF s # <<>> THEN [a.tty EXCEPT !.line_ready = TRUE]
                  ELSE [a.tty EXCEPT !.eof = TRUE]
  <2>1. edits_line(a) => press_ctrl_d(a) = wake_waiting([a EXCEPT !.tty = y])
    BY DEF press_ctrl_d
  <2> HIDE DEF y
  <2>2. [a EXCEPT !.tty = y] = TermIn(a, u, y, w)
    BY TermWrites
  <2>3. CASE edits_line(a)
    BY <1>2, <2>1, <2>2, <2>3
  <2>4. CASE ~edits_line(a)
    BY <1>3, <2>4 DEF press_ctrl_d
  <2> QED BY <2>3, <2>4
<1> QED BY <1>5, <1>6

\* A read of the terminal takes what there is, or the caller waits for a key.
LEMMA TerminalReads ==
  ASSUME NEW a, KernelOK(a), NEW p, NEW count
  PROVE  LET r == terminal_read(a, p, count)
         IN  \/ Untouched(a, r.k)
             \/ /\ r.k = kbd_set_waiting(a, p)
                /\ r.ret = BLOCKED_CALL /\ r.bytes = <<>>
<1> DEFINE R(r) == \/ Untouched(a, r.k)
                   \/ /\ r.k = kbd_set_waiting(a, p)
                      /\ r.ret = BLOCKED_CALL /\ r.bytes = <<>>
<1>1. ASSUME NEW t, NEW y
      PROVE  Untouched(a, TermIn(a, t, y, a.kbd_waiting_process))
  BY DEF Untouched, TermIn, KernelOK, ShellKernel
<1>2. ASSUME NEW y PROVE Untouched(a, [a EXCEPT !.tty = y])
  BY <1>1, TermWrites
<1>3. ASSUME NEW t PROVE Untouched(a, [a EXCEPT !.buff = t])
  BY <1>1, TermWrites
<1>4. R(GotNothing(a)) /\ R(Sleeps(a, p))
  <2>1. R(GotNothing(a))
    BY DEF Untouched, GotNothing, Got
  <2>2. R(Sleeps(a, p))
    BY DEF Sleeps
  <2> QED BY <2>1, <2>2
<1>5. ASSUME NEW b, Untouched(a, b), NEW bytes PROVE R(Got(b, bytes)) /\ R(GotNothing(b))
  BY <1>5 DEF GotNothing, Got
<1> HIDE DEF R
<1>6. R(read_cooked(a, p, count))
  <2> DEFINE n == Min({count, Len(a.tty.line)})
             rest == SubSeq(a.tty.line, n + 1, Len(a.tty.line))
             x == [a EXCEPT !.tty.eof = FALSE]
             v == [a.tty EXCEPT !.eof = FALSE]
             y == IF rest = <<>> THEN NewLine("COOKED") ELSE [a.tty EXCEPT !.line = rest]
             z == [a EXCEPT !.tty = y]
             bytes == SubSeq(a.tty.line, 1, n)
  <2>1. read_cooked(a, p, count) =
          IF a.tty.eof /\ a.tty.line = <<>> THEN GotNothing(x)
          ELSE IF a.tty.line_ready \/ a.tty.eof THEN Got(z, bytes) ELSE Sleeps(a, p)
    BY DEF read_cooked
  <2>2. x = [a EXCEPT !.tty = v]
    OBVIOUS
  <2> HIDE DEF v, y, x, bytes
  <2>3. Untouched(a, x) /\ Untouched(a, z)
    BY <1>2, <2>2
  <2> HIDE DEF z
  <2> QED BY <1>4, <1>5, <2>1, <2>3
<1>7. R(read_raw(a, p, count))
  <2> DEFINE n == readKeyBuff(a, count)
             bytes == SubSeq(a.buff, 1, n)
             t == SubSeq(a.buff, n + 1, Len(a.buff))
             z == [a EXCEPT !.buff = t]
  <2>1. read_raw(a, p, count) = IF n = 0 THEN Sleeps(a, p)
                                ELSE IF Head(bytes) = EndOfFile THEN GotNothing(z)
                                ELSE Got(z, bytes)
    BY DEF read_raw
  <2> HIDE DEF n, bytes, t
  <2>2. Untouched(a, z)
    BY <1>3
  <2> HIDE DEF z
  <2> QED BY <1>4, <1>5, <2>1, <2>2
<1>8. R(terminal_read(a, p, count))
  BY <1>4, <1>6, <1>7 DEF terminal_read
<1> QED BY <1>8 DEF R

\* fd_read of p's standard input: there is something, or p goes to sleep.
Reading(a, r, p, f) ==
  \/ Untouched(a, r.k)
  \/ r.k = kbd_set_waiting(a, p) /\ r.ret = BLOCKED_CALL /\ r.bytes = <<>> /\ f \in Terms
  \/ Keeps(a, r.k) /\ Waits(a, r.k) /\ SameTables(a, r.k) /\ f \notin Terms
  \/ Keeps(a, r.k) /\ Dozes(a, r.k, p, TRUE) /\ r.ret = BLOCKED_CALL /\ f \notin Terms

\* Nothing else can happen.
LEMMA FDReads ==
  ASSUME NEW a, KernelOK(a), QueuesOK(a), TablesOK(a), NEW p \in Procs, a.state[p] = "READY",
         NEW count \in Nat, NEW f \in FDs
  PROVE  Reading(a, fd_read(a, f, p, count), p, f)
<1> DEFINE d == a.fd_table[f]
           i == d.data
           r == pipe_read(a, i, p, count)
           g == [k |-> r.k, ret |-> r.ret, bytes |-> <<>>]
<1>1. Sane(a)
  BY DEF KernelOK, Sane
<1>2. /\ d.type = "TERMINAL" <=> f \in Terms
      /\ d.type \in PipeEnds => i \in Pipes /\ a.pipe_table[i].in_use
  BY <1>1, TablesAll
<1>3. fd_read(a, f, p, count) =
        IF ~fd_valid(a, f) THEN GotNothing(a)
        ELSE CASE d.type = "TERMINAL" -> terminal_read(a, p, count)
               [] d.type = "PIPE_READ" -> g
               [] OTHER -> GotNothing(a)
  BY DEF fd_read
<1>4. Reading(a, GotNothing(a), p, f)
  BY DEF Reading, Untouched, GotNothing, Got
<1>5. ASSUME d.type = "PIPE_READ" PROVE Reading(a, g, p, f)
  <2>1. i \in Pipes /\ a.pipe_table[i].in_use /\ f \notin Terms
    BY <1>2, <1>5 DEF PipeEnds
  <2> HIDE DEF d, i
  <2>2. Keeps(a, r.k)
    BY <1>1, <2>1, ReadKeeps
  <2>3. \/ Waits(a, r.k) /\ SameTables(a, r.k) /\ r.ret # BLOCKED_CALL
        \/ Dozes(a, r.k, p, TRUE) /\ r.ret = BLOCKED_CALL
    BY <1>1, <2>1, ReadWaits
  <2>4. g.k = r.k /\ g.ret = r.ret
    OBVIOUS
  <2> HIDE DEF g, r
  <2> QED BY <2>1, <2>2, <2>3, <2>4 DEF Reading
<1>6. ASSUME d.type = "TERMINAL" PROVE Reading(a, terminal_read(a, p, count), p, f)
  BY <1>2, <1>6, TerminalReads DEF Reading
<1> HIDE DEF d, g
<1>7. CASE ~fd_valid(a, f)
  <2>1. fd_read(a, f, p, count) = GotNothing(a)
    BY <1>3, <1>7
  <2> QED BY <1>4, <2>1
<1>8. CASE fd_valid(a, f) /\ d.type = "TERMINAL"
  <2>1. fd_read(a, f, p, count) = terminal_read(a, p, count)
    BY <1>3, <1>8
  <2> QED BY <1>6, <1>8, <2>1
<1>9. CASE fd_valid(a, f) /\ d.type = "PIPE_READ"
  <2>1. fd_read(a, f, p, count) = g
    BY <1>3, <1>9
  <2> QED BY <1>5, <1>9, <2>1
<1>10. CASE fd_valid(a, f) /\ d.type \notin {"TERMINAL", "PIPE_READ"}
  <2>1. fd_read(a, f, p, count) = GotNothing(a)
    BY <1>3, <1>10
  <2> QED BY <1>4, <2>1
<1> QED BY <1>7, <1>8, <1>9, <1>10

\* From a to b, p has read, and may have gone to sleep over it; whoever
\* sleeps has a reason if p did not take the place of another at the keyboard.
Tries(a, b, c, d, p) ==
  /\ Sleeping(b, d)
  /\ Accounted(a, c) /\ (a.fd[p][FD_STDIN] \in Terms => a.kbd_waiting_process = Nobody)
       => Accounted(b, d)
  /\ b.fd = a.fd /\ b.waiting_for = a.waiting_for
  /\ b.kbd_waiting_process \in {a.kbd_waiting_process, p}
  /\ \A x \in Procs : b.state[x] = "FREE" <=> a.state[x] = "FREE"

\* A child reads, and stays where it is if it sleeps.
LEMMA KidReads ==
  ASSUME NEW a, KernelOK(a), NEW c, NEW d, Sleeping(a, c), NEW p \in Children, a.state[p] = "READY",
         c[p].at = "read", NEW r, Reading(a, r, p, a.fd[p][FD_STDIN]), KidsMove(a, c, d),
         r.ret = BLOCKED_CALL => d = c
  PROVE  Tries(a, r.k, c, d, p)
<1> DEFINE f == a.fd[p][FD_STDIN]
           b == r.k
<1>1. /\ Sane(a) /\ p \in Procs /\ p # Sh /\ QueuesOK(a) /\ TablesOK(a)
      /\ a.kbd_waiting_process \in Procs \cup {Nobody}
  BY ProcNames, LineFields DEF KernelOK, Sane, Sleeping
<1> HIDE DEF b
<1>2. CASE Untouched(a, b)
  <2>1. Waits(a, b)
    BY <1>1, <1>2, WaitsSame DEF Untouched
  <2>2. SameTables(a, b)
    BY <1>2 DEF SameTables, SameEnds, Untouched
  <2>3. TablesOK(b)
    BY <1>1, <2>2, SameTablesOK DEF TablesOK
  <2>4. /\ b.fd = a.fd /\ b.waiting_for = a.waiting_for
        /\ b.kbd_waiting_process = a.kbd_waiting_process /\ b.state = a.state
    BY <1>2 DEF Untouched
  <2>5. Sleeping(b, d) /\ (Accounted(a, c) => Accounted(b, d))
    BY <1>1, <2>1, <2>3, <2>4, CalmSleeping
  <2> QED BY <2>4, <2>5 DEF Tries, b
<1>3. CASE b = kbd_set_waiting(a, p) /\ r.ret = BLOCKED_CALL /\ f \in Terms
  <2>1. d = c
    BY <1>3
  <2>2. /\ Sleeping(b, c)
        /\ a.kbd_waiting_process = Nobody /\ Accounted(a, c) => Accounted(b, c)
        /\ b.fd = a.fd /\ b.waiting_for = a.waiting_for /\ b.kbd_waiting_process = p
        /\ \A x \in Procs : b.state[x] = "FREE" <=> a.state[x] = "FREE"
    BY <1>1, <1>3, TermSleeping
  <2> QED BY <1>3, <2>1, <2>2 DEF Tries, b
<1>4. CASE Keeps(a, b) /\ Waits(a, b) /\ SameTables(a, b)
  <2>1. TablesOK(b)
    BY <1>1, <1>4, SameTablesOK DEF TablesOK
  <2>2. /\ b.fd = a.fd /\ b.waiting_for = a.waiting_for
        /\ b.kbd_waiting_process = a.kbd_waiting_process
        /\ \A x \in Procs : b.state[x] = "FREE" <=> a.state[x] = "FREE"
    BY <1>4 DEF Keeps, SameAlive, Waits
  <2>3. Sleeping(b, d) /\ (Accounted(a, c) => Accounted(b, d))
    BY <1>1, <1>4, <2>1, <2>2, CalmSleeping
  <2> QED BY <2>2, <2>3 DEF Tries, b
<1>5. CASE Keeps(a, b) /\ Dozes(a, b, p, TRUE) /\ f \notin Terms
  <2>1. /\ b.fd = a.fd /\ b.waiting_for = a.waiting_for
        /\ b.kbd_waiting_process = a.kbd_waiting_process
        /\ \A x \in Procs : b.state[x] = "FREE" <=> a.state[x] = "FREE"
    BY <1>5 DEF Keeps, SameAlive, Dozes
  <2>2. Sleeping(b, d) /\ (Accounted(a, c) => Accounted(b, d))
    BY <1>1, <1>5, <2>1, DozesSleeping
  <2> QED BY <2>1, <2>2 DEF Tries, b
<1> QED BY <1>2, <1>3, <1>4, <1>5 DEF Reading, b

\* fd_write of any descriptor: a child's bytes go somewhere, or it sleeps.
LEMMA KidWrites ==
  ASSUME NEW a, KernelOK(a), NEW c, NEW d, Sleeping(a, c), NEW p \in Children, a.state[p] = "READY",
         NEW count \in Nat, NEW f, KidsMove(a, c, d)
  PROVE  Wakes(a, fd_write(a, f, p, count).k, c, d) /\ Wakes(a, a, c, d)
<1> DEFINE e == a.fd_table[f]
           i == e.data
           g == pipe_write(a, i, p, count)
           b == g.k
           W == fd_write(a, f, p, count)
<1>1. /\ Sane(a) /\ p \in Procs /\ p # Sh /\ QueuesOK(a) /\ TablesOK(a)
      /\ a.kbd_waiting_process \in Procs \cup {Nobody}
  BY ProcNames, LineFields DEF KernelOK, Sane, Sleeping
<1>2. Wakes(a, a, c, d)
  <2>1. Waits(a, a)
    BY <1>1, WaitsSame
  <2>2. Sleeping(a, d) /\ (Accounted(a, c) => Accounted(a, d))
    BY <1>1, <2>1, CalmSleeping
  <2> QED BY <2>2 DEF Wakes
<1>3. W = IF ~fd_valid(a, f) THEN [k |-> a, ret |-> 0]
          ELSE CASE e.type = "TERMINAL" -> [k |-> a, ret |-> count]
                 [] e.type = "PIPE_WRITE" -> g
                 [] OTHER -> [k |-> a, ret |-> 0]
  BY DEF fd_write
<1>4. ASSUME fd_valid(a, f), e.type = "PIPE_WRITE"
      PROVE  Wakes(a, b, c, d)
  <2>1. f \in FDs
    BY <1>4 DEF fd_valid
  <2>2. i \in Pipes /\ a.pipe_table[i].in_use
    BY <1>1, <1>4, <2>1, TablesAll DEF PipeEnds
  <2> HIDE DEF e, i
  <2>3. Keeps(a, b)
    BY <1>1, <2>2, WriteKeeps
  <2>4. \/ Waits(a, b) /\ SameTables(a, b)
        \/ Dozes(a, b, p, FALSE)
    BY <1>1, <2>2, WriteWaits
  <2> HIDE DEF b
  <2>5. /\ b.fd = a.fd /\ b.waiting_for = a.waiting_for
        /\ b.kbd_waiting_process = a.kbd_waiting_process
        /\ \A x \in Procs : b.state[x] = "FREE" <=> a.state[x] = "FREE"
    BY <2>3, <2>4 DEF Keeps, SameAlive, Waits, Dozes
  <2>6. CASE Waits(a, b) /\ SameTables(a, b)
    <3>1. TablesOK(b)
      BY <1>1, <2>6, SameTablesOK DEF TablesOK
    <3>2. Sleeping(b, d) /\ (Accounted(a, c) => Accounted(b, d))
      BY <1>1, <2>5, <2>6, <3>1, CalmSleeping
    <3> QED BY <2>5, <3>2 DEF Wakes
  <2>7. CASE Dozes(a, b, p, FALSE)
    <3>1. Sleeping(b, d) /\ (Accounted(a, c) => Accounted(b, d))
      BY <1>1, <2>5, <2>7, DozesSleeping
    <3> QED BY <2>5, <3>1 DEF Wakes
  <2> QED BY <2>4, <2>6, <2>7
<1> HIDE DEF e, g, W
<1>5. CASE fd_valid(a, f) /\ e.type = "PIPE_WRITE"
  <2>1. W = g
    BY <1>3, <1>5
  <2> QED BY <1>2, <1>4, <1>5, <2>1 DEF W
<1>6. CASE ~(fd_valid(a, f) /\ e.type = "PIPE_WRITE")
  <2>1. W.k = a
    BY <1>3, <1>6
  <2> QED BY <1>2, <2>1 DEF W
<1> QED BY <1>5, <1>6

\* Who sleeps in pipe_read is in a queue.
LEMMA ReadsQueued ==
  ASSUME NEW a, NEW x, Reads(a, x)
  PROVE  Queued(a, x)
BY DEF Reads, Queued, InPipe

\* From c to d it is child p that comes, goes or starts.
OnlyKid(c, d, p) == \A x \in Children : x # p => d[x] = c[x]

\* p is where its state in b says.
KidFits(b, d, p) ==
  /\ b.state[p] = "FREE" <=> d[p].at = "gone"
  /\ b.state[p] = "BLOCKED" <=> d[p].at = "new"
  /\ b.state[p] # "FREE" => b.fd[p][FD_STDIN] \in FDs

\* Child p comes, goes, starts or is redirected.
LEMMA PartsSleeping ==
  ASSUME NEW a, NEW b, NEW c, NEW d, Sleeping(a, c), NEW p \in Children, Parts(a, b, p),
         OnlyKid(c, d, p), KidFits(b, d, p), a.kbd_waiting_process \in Procs \cup {Nobody},
         a.kbd_waiting_process # p, b.kbd_waiting_process = a.kbd_waiting_process
  PROVE  /\ Sleeping(b, d)
         /\ \A x \in Procs : x # p => b.fd[x] = a.fd[x]
                                      /\ (b.state[x] = "FREE" <=> a.state[x] = "FREE")
<1> DEFINE w == a.kbd_waiting_process
<1>1. /\ QueuesOK(a) /\ WaiterOK(a, c) /\ KidsOK(a, c) /\ ShellOK(a)
      /\ QueuesOK(b) /\ TablesOK(b) /\ ~Queued(b, p) /\ b.waiting_for = a.waiting_for
  BY DEF Sleeping, Parts
<1>2. ASSUME NEW x \in Procs, x # p
      PROVE  /\ b.fd[x] = a.fd[x]
             /\ Reads(b, x) => Reads(a, x)
             /\ Queued(b, x) => Queued(a, x)
             /\ ~Queued(a, x) => b.state[x] = a.state[x]
             /\ Queued(a, x) /\ ~Queued(b, x) => b.state[x] = "READY"
             /\ Queued(a, x) => a.state[x] = "BLOCKED"
             /\ Queued(b, x) => b.state[x] = "BLOCKED"
             /\ b.state[x] = "FREE" <=> a.state[x] = "FREE"
  <2>1. /\ Queued(a, x) => a.state[x] = "BLOCKED"
        /\ Queued(b, x) => b.state[x] = "BLOCKED"
    BY <1>1, QueuedSleeps
  <2> QED BY <1>2, <2>1 DEF Parts
<1>3. p \in Procs /\ p # Sh
  BY ProcNames
<1>4. WaiterOK(b, d)
  <2>1. SUFFICES ASSUME w # Nobody
                 PROVE  /\ b.state[w] = "BLOCKED" /\ ~Queued(b, w)
                        /\ IF w = Sh THEN b.waiting_for = Nobody
                           ELSE d[w].at = "read" /\ b.fd[w][FD_STDIN] \in Terms
    BY DEF WaiterOK
  <2>2. /\ w \in Procs /\ a.state[w] = "BLOCKED" /\ ~Queued(a, w)
        /\ IF w = Sh THEN a.waiting_for = Nobody
           ELSE c[w].at = "read" /\ a.fd[w][FD_STDIN] \in Terms
    BY <1>1, <2>1 DEF WaiterOK
  <2>3. b.state[w] = "BLOCKED" /\ ~Queued(b, w) /\ b.fd[w] = a.fd[w]
    BY <1>2, <2>2
  <2>4. w # Sh => d[w] = c[w]
    BY <2>2, ProcNames DEF OnlyKid
  <2> QED BY <1>1, <2>2, <2>3, <2>4
<1>5. KidsOK(b, d)
  <2> SUFFICES ASSUME NEW x \in Children
               PROVE  /\ b.state[x] = "FREE" <=> d[x].at = "gone"
                      /\ d[x].at = "new" => b.state[x] = "BLOCKED" /\ ~Queued(b, x)
                      /\ Reads(b, x) => b.fd[x][FD_STDIN] \notin Terms
                      /\ b.state[x] # "FREE" => b.fd[x][FD_STDIN] \in FDs
    BY DEF KidsOK
  <2>1. x \in Procs
    BY ProcNames
  <2>2. CASE x = p
    BY <1>1, <2>2, ReadsQueued DEF KidFits
  <2>3. CASE x # p
    <3>1. /\ a.state[x] = "FREE" <=> c[x].at = "gone"
          /\ c[x].at = "new" => a.state[x] = "BLOCKED" /\ ~Queued(a, x)
          /\ Reads(a, x) => a.fd[x][FD_STDIN] \notin Terms
          /\ a.state[x] # "FREE" => a.fd[x][FD_STDIN] \in FDs
      BY <1>1 DEF KidsOK
    <3>2. d[x] = c[x]
      BY <2>3 DEF OnlyKid
    <3> QED BY <1>2, <2>1, <2>3, <3>1, <3>2
  <2> QED BY <2>2, <2>3
<1>6. ShellOK(b)
  BY <1>1, <1>2, <1>3, ProcNames DEF ShellOK
<1> QED BY <1>1, <1>2, <1>4, <1>5, <1>6 DEF Sleeping

\* The others sleep for the reasons they had.
LEMMA PartsAccounted ==
  ASSUME NEW a, NEW b, NEW c, NEW d, Sleeping(a, c), Accounted(a, c), NEW p \in Children,
         Parts(a, b, p), OnlyKid(c, d, p), KidFits(b, d, p),
         \A x \in Procs : x = a.kbd_waiting_process /\ x # p => x = b.kbd_waiting_process
  PROVE  Accounted(b, d)
<1>1. QueuesOK(a) /\ ~Queued(b, p) /\ b.waiting_for = a.waiting_for
  BY DEF Sleeping, Parts
<1> SUFFICES ASSUME NEW x \in Procs, b.state[x] = "BLOCKED"
             PROVE  \/ Queued(b, x) \/ x = b.kbd_waiting_process
                    \/ IF x = Sh THEN b.waiting_for # Nobody ELSE d[x].at = "new"
  BY DEF Accounted
<1>2. CASE x = p
  BY <1>2, ProcNames DEF KidFits
<1>3. CASE x # p
  <2>1. Queued(a, x) => a.state[x] = "BLOCKED"
    BY <1>1, QueuedSleeps
  <2>2. /\ ~Queued(a, x) => b.state[x] = a.state[x]
        /\ Queued(a, x) /\ ~Queued(b, x) => b.state[x] = "READY"
    BY <1>3 DEF Parts
  <2>3. a.state[x] = "BLOCKED" /\ (Queued(a, x) => Queued(b, x))
    BY <2>1, <2>2
  <2>4. \/ Queued(a, x) \/ x = a.kbd_waiting_process
        \/ IF x = Sh THEN a.waiting_for # Nobody ELSE c[x].at = "new"
    BY <2>3 DEF Accounted
  <2>5. x # Sh => d[x] = c[x]
    BY <1>3, ProcNames DEF OnlyKid
  <2> QED BY <1>1, <1>3, <2>3, <2>4, <2>5
<1> QED BY <1>2, <1>3

\* Nobody comes from a to b; the shell may have stopped waiting for one that went.
Fewer(a, b, c, d) ==
  /\ \A x \in Children : /\ b.state[x] # "FREE" => a.state[x] # "FREE" /\ b.fd[x] = a.fd[x]
                         /\ c[x].at \in Unstarted => d[x].at \in Unstarted
  /\ \/ b.waiting_for = a.waiting_for
     \/ b.waiting_for = Nobody /\ b.state[a.waiting_for] = "FREE"

\* The shell hears of p's end.
LEMMA NoticedSleeping ==
  ASSUME NEW b, Sane(b), NEW d, Sleeping(b, d), NEW p \in Children
  PROVE  LET c == NoticedIn(b, p)
         IN  /\ Sleeping(c, d) /\ (Accounted(b, d) => Accounted(c, d))
             /\ c.fd = b.fd /\ c.kbd_waiting_process = b.kbd_waiting_process
             /\ c.waiting_for = (IF b.waiting_for = p THEN Nobody ELSE b.waiting_for)
             /\ \A x \in Children : c.state[x] = b.state[x]
<1> DEFINE e == [b EXCEPT !.state[Sh] = "READY", !.waiting_for = Nobody]
           c == NoticedIn(b, p)
           w == b.kbd_waiting_process
           G == /\ Sleeping(c, d) /\ (Accounted(b, d) => Accounted(c, d))
                /\ c.fd = b.fd /\ c.kbd_waiting_process = b.kbd_waiting_process
                /\ c.waiting_for = (IF b.waiting_for = p THEN Nobody ELSE b.waiting_for)
                /\ \A x \in Children : c.state[x] = b.state[x]
<1>1. CASE b.waiting_for # p
  <2>1. c = b
    BY <1>1 DEF NoticedIn
  <2> HIDE DEF c
  <2>2. G
    BY <1>1, <2>1
  <2> QED BY <2>2 DEF c
<1>2. CASE b.waiting_for = p
  <2>1. /\ e.state[Sh] = "READY" /\ e.waiting_for = Nobody
        /\ \A x \in Procs : x # Sh => e.state[x] = b.state[x]
        /\ e.fd = b.fd /\ e.fd_table = b.fd_table /\ e.pipe_table = b.pipe_table
        /\ e.kbd_waiting_process = w
    BY ProcNames DEF Sane, ShellKernel
  <2>2. c = e
    BY <1>2 DEF NoticedIn
  <2> HIDE DEF e, c
  <2>3. /\ QueuesOK(b) /\ TablesOK(b) /\ WaiterOK(b, d) /\ KidsOK(b, d) /\ ShellOK(b)
        /\ w \in Procs \cup {Nobody}
    BY ShellFields DEF Sleeping, Sane
  <2>4. ~Queued(b, Sh) /\ b.fd[Sh][FD_STDIN] = FD_STDIN /\ b.waiting_for # Nobody
    BY <1>2, <2>3, ProcNames DEF ShellOK
  <2>5. \A x \in Procs : Queued(b, x) => e.state[x] = "BLOCKED"
    BY <2>1, <2>3, <2>4, QueuedSleeps
  <2>6. /\ QueuesOK(e) /\ TablesOK(e)
        /\ \A x : (Reads(e, x) <=> Reads(b, x)) /\ (Queued(e, x) <=> Queued(b, x))
    BY <2>1, <2>3, <2>5, StatesQueues
  <2>7. WaiterOK(e, d)
    BY <2>1, <2>3, <2>4, <2>6 DEF WaiterOK
  <2>8. KidsOK(e, d)
    <3>1. \A x \in Children : e.state[x] = b.state[x]
      BY <2>1, ProcNames
    <3> QED BY <2>1, <2>3, <2>6, <3>1 DEF KidsOK
  <2>9. ShellOK(e)
    BY <2>1, <2>4, <2>6 DEF ShellOK
  <2>10. ASSUME Accounted(b, d) PROVE Accounted(e, d)
    BY <2>1, <2>6, <2>10 DEF Accounted
  <2>11. G
    <3>1. \A x \in Children : c.state[x] = b.state[x]
      BY <2>1, <2>2, ProcNames
    <3> QED BY <1>2, <2>1, <2>2, <2>6, <2>7, <2>8, <2>9, <2>10, <3>1 DEF Sleeping
  <2> QED BY <2>11 DEF c
<1> QED BY <1>1, <1>2

\* process_exit and process_kill of a child.
LEMMA EndsSleeping ==
  ASSUME KernelOK(k), NEW c, NEW d, Sleeping(k, c), NEW p \in Children,
         OnlyKid(c, d, p), d[p].at = "gone"
  PROVE  /\ Sleeping(ends(p), d) /\ (Accounted(k, c) => Accounted(ends(p), d))
         /\ Fewer(k, ends(p), c, d) /\ ends(p).state[p] = "FREE"
         /\ ends(p).kbd_waiting_process \in {k.kbd_waiting_process, Nobody}
<1> DEFINE a == kbd_clear_waiting(k, p)
           b == process_ends(a, p)
           e == NoticedIn(b, p)
           g == e.foreground \ {p}
           q == queue_remove_pid(e.born, p)
           f == BornIn(e, g, q)
           w == k.kbd_waiting_process
<1>1. ends(p) = f
  BY DEF ends, NoticedIn, BornIn
<1>2. p \in Procs /\ p # Sh /\ Sane(k) /\ w \in Procs \cup {Nobody} /\ p # Nobody
  BY ProcNames, LineFields DEF KernelOK, Sane
<1>3. /\ a.state = k.state /\ a.fd = k.fd /\ a.fd_table = k.fd_table /\ a.pipe_table = k.pipe_table
      /\ a.waiting_for = k.waiting_for
      /\ a.kbd_waiting_process = IF w = p THEN Nobody ELSE w
  BY DEF kbd_clear_waiting, KernelOK, ShellKernel
<1>4. Sane(a) /\ a.state[Sh] # "FREE"
  BY <1>2, ClearOK, ShellIsThere DEF KernelOK, Sane
<1> HIDE DEF a
<1>5. /\ QueuesOK(a) /\ TablesOK(a)
      /\ \A x : (Reads(a, x) <=> Reads(k, x)) /\ (Queued(a, x) <=> Queued(k, x))
  <2>1. QueuesOK(k) /\ TablesOK(k)
    BY DEF Sleeping
  <2>2. \A x \in Procs : Queued(k, x) => a.state[x] = "BLOCKED"
    BY <1>3, <2>1, QueuedSleeps
  <2> QED BY <1>2, <1>3, <2>1, <2>2, StatesQueues
<1>6. Parts(a, b, p) /\ b.state[p] = "FREE"
  BY <1>2, <1>4, <1>5, EndsParts
<1>7. Turns(a, b, p)
  BY <1>2, <1>4, EndsTurns
<1> HIDE DEF b
<1>8. Parts(k, b, p)
  BY <1>3, <1>5, <1>6 DEF Parts
<1>9. Sane(b) /\ b.kbd_waiting_process = a.kbd_waiting_process /\ b.state[Sh] # "FREE"
  BY <1>2, <1>4, <1>7, ProcNames DEF Turns
<1>10. Sleeping(a, c)
  <2>1. WaiterOK(a, c)
    BY <1>3, <1>5 DEF Sleeping, WaiterOK
  <2>2. KidsOK(a, c)
    BY <1>3, <1>5 DEF Sleeping, KidsOK
  <2>3. ShellOK(a)
    BY <1>3, <1>5 DEF Sleeping, ShellOK
  <2> QED BY <1>5, <2>1, <2>2, <2>3 DEF Sleeping
<1>11. KidFits(b, d, p)
  BY <1>6 DEF KidFits
<1>12. a.kbd_waiting_process \in Procs \cup {Nobody} /\ a.kbd_waiting_process # p
  BY <1>2, <1>3
<1>13. /\ Sleeping(b, d)
       /\ \A x \in Procs : x # p => b.fd[x] = a.fd[x]
                                    /\ (b.state[x] = "FREE" <=> a.state[x] = "FREE")
  BY <1>6, <1>9, <1>10, <1>11, <1>12, PartsSleeping
<1>14. ASSUME Accounted(k, c) PROVE Accounted(b, d)
  <2>1. \A x \in Procs : x = w /\ x # p => x = b.kbd_waiting_process
    BY <1>3, <1>9
  <2> QED BY <1>8, <1>11, <1>14, <2>1, PartsAccounted
<1>15. /\ Sane(e) /\ e.foreground = b.foreground /\ e.born = b.born
  BY <1>9, Noticed
<1>16. /\ Sleeping(e, d) /\ (Accounted(b, d) => Accounted(e, d))
       /\ e.fd = b.fd /\ e.kbd_waiting_process = b.kbd_waiting_process
       /\ e.waiting_for = (IF b.waiting_for = p THEN Nobody ELSE b.waiting_for)
       /\ \A x \in Children : e.state[x] = b.state[x]
  BY <1>9, <1>13, NoticedSleeping
<1> HIDE DEF e, g, q
<1>17. Untouched(e, f)
  BY <1>15 DEF Untouched, BornIn, Sane, ShellKernel
<1> HIDE DEF f
<1>18. Sleeping(f, d) /\ (Accounted(e, d) => Accounted(f, d))
  BY <1>15, <1>16, <1>17, FieldSleeping
<1>19. /\ f.state = e.state /\ f.fd = e.fd /\ f.waiting_for = e.waiting_for
       /\ f.kbd_waiting_process = e.kbd_waiting_process
  BY <1>17 DEF Untouched
<1>20. b.waiting_for = k.waiting_for
  BY <1>8 DEF Parts
<1>21. Fewer(k, f, c, d)
  <2>1. ASSUME NEW x \in Children
        PROVE  /\ f.state[x] # "FREE" => k.state[x] # "FREE" /\ f.fd[x] = k.fd[x]
               /\ c[x].at \in Unstarted => d[x].at \in Unstarted
    <3>1. CASE x = p
      BY <1>6, <1>16, <1>19, <3>1 DEF Unstarted
    <3>2. CASE x # p
      <4>1. x \in Procs /\ d[x] = c[x]
        BY <3>2, ProcNames DEF OnlyKid
      <4> QED BY <1>3, <1>13, <1>16, <1>19, <3>2, <4>1
    <3> QED BY <3>1, <3>2
  <2>2. \/ f.waiting_for = k.waiting_for
        \/ f.waiting_for = Nobody /\ f.state[k.waiting_for] = "FREE"
    BY <1>6, <1>16, <1>19, <1>20
  <2> QED BY <2>1, <2>2 DEF Fewer
<1>22. /\ f.kbd_waiting_process \in {w, Nobody} /\ f.state[p] = "FREE"
  BY <1>3, <1>6, <1>9, <1>16, <1>19
<1> QED BY <1>1, <1>14, <1>16, <1>18, <1>21, <1>22

\* From a to b only child p's slot and descriptors change, and everybody who
\* sleeps has a reason if that was so before.
Alters(a, b, c, d, p) ==
  /\ Sleeping(b, d) /\ (Accounted(a, c) => Accounted(b, d))
  /\ b.waiting_for = a.waiting_for /\ b.kbd_waiting_process = a.kbd_waiting_process
  /\ \A x \in Procs : x # p => b.fd[x] = a.fd[x]
                               /\ (b.state[x] = "FREE" <=> a.state[x] = "FREE")

\* Whom the driver knows of is not a child that is gone or was not started.
LEMMA NotWaiter ==
  ASSUME NEW a, NEW c, Sleeping(a, c), NEW p \in Children, c[p].at \in Unstarted
  PROVE  a.kbd_waiting_process # p /\ ~Queued(a, p)
<1>1. p \in Procs /\ p # Sh /\ p # Nobody /\ QueuesOK(a)
  BY ProcNames DEF Sleeping
<1>2. a.kbd_waiting_process # p
  BY <1>1 DEF Sleeping, WaiterOK, Unstarted
<1>3. ~Queued(a, p)
  <2>1. CASE c[p].at = "gone"
    <3>1. a.state[p] = "FREE"
      BY <2>1 DEF Sleeping, KidsOK
    <3> QED BY <1>1, <3>1, ReadyFree
  <2>2. CASE c[p].at = "new"
    BY <2>2 DEF Sleeping, KidsOK
  <2> QED BY <2>1, <2>2 DEF Unstarted
<1> QED BY <1>2, <1>3

\* Such a child comes, starts or is redirected.
LEMMA PartsAlters ==
  ASSUME NEW a, Sane(a), NEW b, NEW c, NEW d, Sleeping(a, c), NEW p \in Children,
         c[p].at \in Unstarted, Parts(a, b, p), OnlyKid(c, d, p), KidFits(b, d, p),
         b.kbd_waiting_process = a.kbd_waiting_process
  PROVE  Alters(a, b, c, d, p)
<1>1. a.kbd_waiting_process # p /\ a.kbd_waiting_process \in Procs \cup {Nobody}
  BY NotWaiter, ShellFields DEF Sane
<1>2. /\ Sleeping(b, d)
      /\ \A x \in Procs : x # p => b.fd[x] = a.fd[x]
                                   /\ (b.state[x] = "FREE" <=> a.state[x] = "FREE")
  BY <1>1, PartsSleeping
<1>3. ASSUME Accounted(a, c) PROVE Accounted(b, d)
  BY <1>3, PartsAccounted
<1>4. b.waiting_for = a.waiting_for
  BY DEF Parts
<1> QED BY <1>2, <1>3, <1>4 DEF Alters

\* process_create of a child.
LEMMA CreatedAlters ==
  ASSUME KernelOK(k), NEW c, NEW d, Sleeping(k, c), NEW p \in Children, k.state[p] = "FREE", NEW fg,
         OnlyKid(c, d, p), d[p].at # "gone", d[p].at = "new" <=> fg = 3
  PROVE  Alters(k, created(p, fg), c, d, p)
<1> DEFINE asleep == fg = 3
           b == create_fds(k, p, asleep)
           g == b.foreground \cup {p}
           q == Append(b.born, p)
           f == BornIn(b, g, q)
<1>1. created(p, fg) = f
  BY DEF created, BornIn
<1>a. (asleep <=> d[p].at = "new") /\ asleep \in BOOLEAN
  OBVIOUS
<1> HIDE DEF asleep
<1>2. p \in Procs /\ Sane(k) /\ QueuesOK(k) /\ TablesOK(k) /\ c[p].at \in Unstarted
  BY ProcNames DEF KernelOK, Sane, Sleeping, KidsOK, Unstarted
<1>3. ~Queued(k, p)
  BY <1>2, ReadyFree
<1>4. /\ Parts(k, b, p) /\ b.fd[p][FD_STDIN] = FD_STDIN
      /\ b.state[p] = IF asleep THEN "BLOCKED" ELSE "READY"
  BY <1>2, <1>3, CreateParts
<1>5. Turns(k, b, p)
  BY <1>2, CreateTurns
<1> HIDE DEF b, g, q
<1>6. Sane(b) /\ b.kbd_waiting_process = k.kbd_waiting_process
  BY <1>5 DEF Turns
<1>7. KidFits(b, d, p)
  <2>1. FD_STDIN \in FDs
    BY FDAssumption DEF FDs, FD_STDIN
  <2> QED BY <1>4, <1>a, <2>1 DEF KidFits
<1>8. Alters(k, b, c, d, p)
  BY <1>2, <1>4, <1>6, <1>7, PartsAlters
<1>9. Untouched(b, f)
  BY <1>6 DEF Untouched, BornIn, Sane, ShellKernel
<1> HIDE DEF f
<1>10. Sleeping(f, d) /\ (Accounted(b, d) => Accounted(f, d))
  BY <1>6, <1>8, <1>9, FieldSleeping DEF Alters
<1>11. Alters(k, f, c, d, p)
  BY <1>8, <1>9, <1>10 DEF Alters, Untouched
<1> QED BY <1>1, <1>11

\* process_unblock of a child that was not started.
LEMMA StartAlters ==
  ASSUME NEW a, Sane(a), NEW c, NEW d, Sleeping(a, c), NEW p \in Children, c[p].at \in Unstarted,
         OnlyKid(c, d, p), c[p].at = "gone" => d[p].at = "gone",
         c[p].at = "new" => d[p].at \notin Unstarted
  PROVE  /\ Alters(a, process_unblock(a, p), c, d, p) /\ process_unblock(a, p).fd = a.fd
         /\ process_unblock(a, p).state[p] = "FREE" <=> a.state[p] = "FREE"
<1> DEFINE b == process_unblock(a, p)
<1>1. p \in Procs /\ QueuesOK(a) /\ TablesOK(a) /\ KidsOK(a, c)
  BY ProcNames DEF Sleeping
<1>2. /\ b.state[p] = (IF a.state[p] = "BLOCKED" THEN "READY" ELSE a.state[p])
      /\ \A x \in Procs : x # p => b.state[x] = a.state[x]
      /\ b.fd = a.fd /\ b.fd_table = a.fd_table /\ b.pipe_table = a.pipe_table
      /\ b.waiting_for = a.waiting_for /\ b.kbd_waiting_process = a.kbd_waiting_process
  BY <1>1 DEF process_unblock, Sane, ShellKernel
<1> HIDE DEF b
<1>3. ~Queued(a, p)
  BY NotWaiter
<1>4. \A x \in Procs : Queued(a, x) => b.state[x] = "BLOCKED"
  BY <1>1, <1>2, <1>3, QueuedSleeps
<1>5. /\ QueuesOK(b) /\ TablesOK(b)
      /\ \A x : (Reads(b, x) <=> Reads(a, x)) /\ (Queued(b, x) <=> Queued(a, x))
  BY <1>1, <1>2, <1>4, StatesQueues
<1>6. Parts(a, b, p)
  BY <1>2, <1>3, <1>5 DEF Parts
<1>7. KidFits(b, d, p)
  <2>1. /\ a.state[p] = "FREE" <=> c[p].at = "gone"
        /\ c[p].at = "new" => a.state[p] = "BLOCKED"
        /\ a.state[p] # "FREE" => a.fd[p][FD_STDIN] \in FDs
    BY <1>1 DEF KidsOK
  <2> QED BY <1>2, <2>1 DEF KidFits, Unstarted
<1>8. Alters(a, b, c, d, p)
  BY <1>2, <1>6, <1>7, PartsAlters
<1>9. b.state[p] = "FREE" <=> a.state[p] = "FREE"
  BY <1>2
<1> QED BY <1>2, <1>8, <1>9 DEF b

\* process_pipe_setup of a child that was not started.
LEMMA SetupAlters ==
  ASSUME NEW a, Sane(a), NEW c, Sleeping(a, c), NEW p \in Children, c[p].at \in Unstarted,
         NEW f \in FDs, NEW s \in 0 .. 1
  PROVE  LET b == process_pipe_setup(a, p, f, s)
         IN  /\ Alters(a, b, c, c, p)
             /\ b.state[p] = "FREE" <=> a.state[p] = "FREE"
             /\ s = FD_STDIN /\ b.state[p] # "FREE" => b.fd[p][FD_STDIN] = f
<1> DEFINE b == process_pipe_setup(a, p, f, s)
           G == /\ Alters(a, b, c, c, p)
                /\ b.state[p] = "FREE" <=> a.state[p] = "FREE"
                /\ s = FD_STDIN /\ b.state[p] # "FREE" => b.fd[p][FD_STDIN] = f
<1>1. p \in Procs /\ QueuesOK(a) /\ TablesOK(a) /\ KidsOK(a, c) /\ ~Queued(a, p)
  BY ProcNames, NotWaiter DEF Sleeping
<1>2. CASE a.state[p] = "FREE"
  <2>1. b = a
    BY <1>2 DEF process_pipe_setup
  <2> HIDE DEF b
  <2>2. G
    BY <1>2, <2>1 DEF Alters
  <2> QED BY <2>2 DEF b
<1>3. CASE a.state[p] # "FREE"
  <2>1. /\ Stays(a, b, p)
        /\ b.fd[p][FD_STDIN] = IF s = FD_STDIN THEN f ELSE a.fd[p][FD_STDIN]
    BY <1>1, <1>3, SetupStays
  <2>2. Keeps(a, b)
    BY <1>1, SetupKeeps
  <2> HIDE DEF b
  <2>3. b.kbd_waiting_process = a.kbd_waiting_process
    BY <2>2 DEF Keeps
  <2>4. ~Queued(b, p) /\ b.state[p] = a.state[p]
    BY <1>1, <2>1 DEF Stays
  <2>5. Parts(a, b, p)
    BY <2>1, <2>4 DEF Stays, Parts
  <2>6. /\ s = FD_STDIN => b.fd[p][FD_STDIN] = f
        /\ s # FD_STDIN => b.fd[p][FD_STDIN] = a.fd[p][FD_STDIN]
    BY <2>1
  <2>7. KidFits(b, c, p)
    <3>1. /\ a.state[p] = "FREE" <=> c[p].at = "gone"
          /\ c[p].at = "new" => a.state[p] = "BLOCKED"
          /\ a.state[p] # "FREE" => a.fd[p][FD_STDIN] \in FDs
      BY <1>1 DEF KidsOK
    <3> QED BY <2>4, <2>6, <3>1 DEF KidFits, Unstarted
  <2>8. OnlyKid(c, c, p)
    BY DEF OnlyKid
  <2>9. Alters(a, b, c, c, p)
    BY <2>3, <2>5, <2>7, <2>8, PartsAlters
  <2>10. G
    BY <2>4, <2>6, <2>9
  <2> QED BY <2>10 DEF b
<1> QED BY <1>2, <1>3

\* sys_waitpid: the shell goes to sleep until p ends.
LEMMA WaitSleeping ==
  ASSUME NEW a, Sane(a), NEW c, Sleeping(a, c), NEW p \in Children, a.state[Sh] = "READY"
  PROVE  LET b == [a EXCEPT !.state[Sh] = "BLOCKED", !.waiting_for = p]
         IN  /\ Sleeping(b, c) /\ (Accounted(a, c) => Accounted(b, c))
             /\ b.fd = a.fd /\ b.kbd_waiting_process = a.kbd_waiting_process /\ b.waiting_for = p
             /\ \A x \in Children : b.state[x] = a.state[x]
<1> DEFINE b == [a EXCEPT !.state[Sh] = "BLOCKED", !.waiting_for = p]
<1>1. /\ b.state[Sh] = "BLOCKED" /\ b.waiting_for = p
      /\ \A x \in Procs : x # Sh => b.state[x] = a.state[x]
      /\ b.fd = a.fd /\ b.fd_table = a.fd_table /\ b.pipe_table = a.pipe_table
      /\ b.kbd_waiting_process = a.kbd_waiting_process
  BY ProcNames DEF Sane, ShellKernel
<1> HIDE DEF b
<1>2. QueuesOK(a) /\ TablesOK(a) /\ WaiterOK(a, c) /\ KidsOK(a, c) /\ ShellOK(a)
      /\ a.kbd_waiting_process \in Procs \cup {Nobody}
  BY ShellFields DEF Sleeping, Sane
<1>3. \A x \in Procs : Queued(a, x) => b.state[x] = "BLOCKED"
  BY <1>1, <1>2, QueuedSleeps
<1>4. /\ QueuesOK(b) /\ TablesOK(b)
      /\ \A x : (Reads(b, x) <=> Reads(a, x)) /\ (Queued(b, x) <=> Queued(a, x))
  BY <1>1, <1>2, <1>3, StatesQueues
<1>5. \A x \in Children : b.state[x] = a.state[x]
  BY <1>1, ProcNames
<1>6. WaiterOK(b, c)
  <2>1. a.kbd_waiting_process # Nobody => a.kbd_waiting_process # Sh
    BY <1>2 DEF WaiterOK
  <2> QED BY <1>1, <1>2, <1>4, <2>1 DEF WaiterOK
<1>7. KidsOK(b, c)
  BY <1>1, <1>2, <1>4, <1>5 DEF KidsOK
<1>8. ShellOK(b)
  BY <1>1, <1>2, <1>4 DEF ShellOK
<1>9. ASSUME Accounted(a, c) PROVE Accounted(b, c)
  <2>1. p # Nobody
    BY ProcNames
  <2> QED BY <1>1, <1>4, <1>9, <2>1 DEF Accounted
<1>10. Sleeping(b, c)
  BY <1>4, <1>6, <1>7, <1>8 DEF Sleeping
<1> QED BY <1>1, <1>5, <1>9, <1>10 DEF b

(***************************************************************************)
(* The keyboard has one owner                                              *)
(***************************************************************************)
\* Keys, and the steps of children: the shell stays where it is.
LEMMA OthersKeyInv ==
  ASSUME ShellInv, KeyInv, UNCHANGED <<sh, jobs>>, Sleeping(k', kids'),
         ~jobs => Accounted(k', kids'), Fewer(k, k', kids, kids'),
         k'.kbd_waiting_process = Sh => k.kbd_waiting_process = Sh
  PROVE  KeyInv'
<1>1. /\ sh' = sh /\ jobs' = jobs /\ Right \in Children /\ Left \in Children
      /\ Piped' = Piped /\ SetUp' = SetUp
  BY DEF Children, Piped, SetUp
<1>2. ASSUME NEW x \in Children
      PROVE  /\ k'.state[x] # "FREE" => k.state[x] # "FREE" /\ k'.fd[x] = k.fd[x]
             /\ kids[x].at \in Unstarted => kids'[x].at \in Unstarted
  BY DEF Fewer
<1>3. \/ k'.waiting_for = k.waiting_for
      \/ k'.waiting_for = Nobody /\ k'.state[k.waiting_for] = "FREE"
  BY DEF Fewer
<1>4. PlaceOK'
  <2>1. Redirected(k) => Redirected(k')
    BY <1>1, <1>2 DEF Redirected
  <2> QED BY <1>1, <1>2, <1>3, <2>1 DEF KeyInv, PlaceOK
<1>5. NoJobs'
  <2> SUFFICES ASSUME ~jobs
               PROVE  /\ ~sh'.cmd.bg
                      /\ \A p \in Children : k'.state[p] # "FREE" => p \in Cast'
                      /\ sh'.at = "wait_right" => k'.waiting_for \in {Nobody, Left}
                      /\ Accounted(k', kids')
    BY <1>1 DEF NoJobs, Alive
  <2>1. /\ ~sh.cmd.bg
        /\ \A p \in Children : k.state[p] # "FREE" => p \in Cast
        /\ sh.at = "wait_right" => k.waiting_for \in {Nobody, Left}
    BY DEF KeyInv, NoJobs, Alive
  <2>2. ASSUME NEW p \in Children, k'.state[p] # "FREE" PROVE p \in Cast'
    <3>1. p \in Cast /\ p # Nobody
      BY <1>2, <2>1, <2>2, ProcNames
    <3>2. CASE k'.waiting_for = k.waiting_for
      <4>1. Cast' = Cast
        BY <1>1, <3>2 DEF Cast
      <4> QED BY <3>1, <4>1
    <3>3. CASE k'.state[k.waiting_for] = "FREE"
      <4>1. p # k.waiting_for
        BY <2>2, <3>3
      <4> QED BY <1>1, <3>1, <4>1 DEF Cast
    <3> QED BY <1>3, <3>2, <3>3
  <2> QED BY <1>1, <1>3, <2>1, <2>2
<1> QED BY <1>4, <1>5 DEF KeyInv

\* What the parts of the two invariants say.
LEMMA KeyParts ==
  ASSUME ShellInv, KeyInv
  PROVE  /\ KernelOK(k) /\ Sane(k) /\ Sleeping(k, kids) /\ PlaceOK /\ NoJobs
         /\ QueuesOK(k) /\ TablesOK(k) /\ WaiterOK(k, kids) /\ KidsOK(k, kids) /\ ShellOK(k)
         /\ k.kbd_waiting_process \in Procs \cup {Nobody}
         /\ (~jobs => Accounted(k, kids))
<1>1. KernelOK(k) /\ Sane(k)
  BY InvParts
<1> QED BY <1>1, LineFields DEF KeyInv, Sleeping, NoJobs

\* A step in which nobody comes or goes.
LEMMA WakesKeyInv ==
  ASSUME ShellInv, KeyInv, UNCHANGED <<sh, jobs>>, Wakes(k, k', kids, kids'),
         \A x \in Children : kids[x].at \in Unstarted => kids'[x].at \in Unstarted
  PROVE  KeyInv'
<1>1. Fewer(k, k', kids, kids')
  BY ProcNames DEF Wakes, Fewer
<1>2. k'.kbd_waiting_process = Sh => k.kbd_waiting_process = Sh
  BY ProcNames DEF Wakes
<1>3. Sleeping(k', kids') /\ (~jobs => Accounted(k', kids'))
  BY KeyParts DEF Wakes
<1> QED BY <1>1, <1>2, <1>3, OthersKeyInv

\* A key in the ring or the line, and Ctrl+D.
LEMMA TypeKeys ==
  ASSUME ShellInv, KeyInv, (\E c \in Keys : Type(c)) \/ TypeCtrlD
  PROVE  KeyInv'
<1>1. Wakes(k, k', kids, kids) /\ UNCHANGED <<sh, kids, jobs>>
  BY KeyParts, KeyWakes DEF Type, TypeCtrlD
<1> QED BY <1>1, WakesKeyInv

\* What an end does to those who sleep.
LEMMA EndsKeys ==
  ASSUME ShellInv, KeyInv, NEW p \in Children, Ends(p)
  PROVE  /\ Sleeping(k', kids') /\ (~jobs => Accounted(k', kids'))
         /\ Fewer(k, k', kids, kids') /\ k'.state[p] = "FREE"
         /\ k'.kbd_waiting_process \in {k.kbd_waiting_process, Nobody}
<1>1. k' = ends(p) /\ kids' = [kids EXCEPT ![p] = NoKid]
  BY DEF Ends
<1>2. OnlyKid(kids, kids', p) /\ kids'[p].at = "gone"
  BY <1>1, InvParts DEF OnlyKid, NoKid
<1>3. /\ Sleeping(ends(p), kids') /\ (Accounted(k, kids) => Accounted(ends(p), kids'))
      /\ Fewer(k, ends(p), kids, kids') /\ ends(p).state[p] = "FREE"
      /\ ends(p).kbd_waiting_process \in {k.kbd_waiting_process, Nobody}
  BY <1>2, KeyParts, EndsSleeping
<1> QED BY <1>1, <1>3, KeyParts

\* Ctrl+C, and a child that exits.
LEMMA GoneKeys ==
  ASSUME ShellInv, KeyInv, NEW p \in Children, Ends(p), UNCHANGED <<sh, jobs>>
  PROVE  KeyInv'
<1>1. k'.kbd_waiting_process = Sh => k.kbd_waiting_process = Sh
  BY EndsKeys, ProcNames
<1> QED BY <1>1, EndsKeys, OthersKeyInv

\* Without a job in the background a child that reads the terminal finds nobody
\* else waiting: the shell is not at its prompt, and the right half of the
\* pipeline does not read it.
LEMMA OnlyReader ==
  ASSUME ShellInv, KeyInv, ~jobs, NEW p \in Children, k.state[p] = "READY",
         kids[p].at = "read", k.fd[p][FD_STDIN] \in Terms
  PROVE  k.kbd_waiting_process = Nobody
<1> DEFINE w == k.kbd_waiting_process
<1> SUFFICES ASSUME w # Nobody PROVE FALSE
  OBVIOUS
<1>1. /\ w \in Procs /\ k.state[w] = "BLOCKED"
      /\ w # Sh => kids[w].at = "read" /\ k.fd[w][FD_STDIN] \in Terms
  BY KeyParts DEF WaiterOK
<1>2. /\ \A x \in Children : k.state[x] # "FREE" => x \in Cast
      /\ sh.at = "wait_right" => k.waiting_for \in {Nobody, Left}
  BY KeyParts DEF NoJobs, Alive
<1>3. p \in Cast
  BY <1>2
<1>4. w # Sh
  <2>1. SUFFICES ASSUME w = Sh PROVE FALSE
    OBVIOUS
  <2>2. sh.at = "prompt"
    BY <2>1, KeyParts DEF PlaceOK
  <2> QED BY <1>3, <2>2 DEF Cast
<1>5. w \in Children /\ w \in Cast /\ w # p
  BY <1>1, <1>2, <1>4, ProcNames
<1>6. w = Right \/ p = Right
  BY <1>2, <1>3, <1>5 DEF Cast, Children, Nobody, Left, Right, Single
<1>7. kids[Right].at = "read" /\ k.fd[Right][FD_STDIN] \in Terms /\ k.state[Right] # "FREE"
  BY <1>1, <1>4, <1>6
<1>8. Redirected(k)
  BY <1>7, KeyParts DEF PlaceOK, Unstarted
<1> QED BY <1>7, <1>8 DEF Redirected

\* From kids to kids', child p goes on.
LEMMA KidGoesOn ==
  ASSUME ShellInv, NEW p \in Children, k.state[p] = "READY", kids[p].at \notin Unstarted,
         NEW y, y.at \notin Unstarted, kids' = [kids EXCEPT ![p] = y]
  PROVE  /\ KidsMove(k, kids, kids')
         /\ \A x \in Children : kids[x].at \in Unstarted => kids'[x].at \in Unstarted
<1>1. ASSUME NEW x \in Children PROVE kids'[x] = IF x = p THEN y ELSE kids[x]
  BY InvParts
<1> QED BY <1>1 DEF KidsMove

\* A child reads.
LEMMA ReaderReadsKeys ==
  ASSUME ShellInv, KeyInv, NEW p \in Children, ReaderReads(p)
  PROVE  KeyInv'
<1> DEFINE f == k.fd[p][FD_STDIN]
           r == fd_read(k, f, p, PIPE_BUFFER_SIZE)
<1>1. PICK wc \in BOOLEAN :
        /\ KidAt(p, "read") /\ k' = r.k
        /\ kids' = [kids EXCEPT ![p] =
                      CASE r.ret = BLOCKED_CALL -> @
                        [] r.ret = 0 /\ wc -> [@ EXCEPT !.at = "print", !.n = PrintSize]
                        [] r.ret = 0 /\ ~wc -> [@ EXCEPT !.at = "exit"]
                        [] OTHER -> [@ EXCEPT !.at = "copy", !.n = r.ret]]
        /\ UNCHANGED <<sh, jobs>>
  BY DEF ReaderReads
<1>2. k.state[p] = "READY" /\ kids[p].at = "read" /\ kids[p] \in Kids /\ p \in Procs
  BY <1>1, InvParts DEF KidAt
<1>3. f \in FDs /\ PIPE_BUFFER_SIZE \in Nat
  BY <1>2, KeyParts, PipeAssumption DEF KidsOK
<1>4. Reading(k, r, p, f)
  BY <1>2, <1>3, KeyParts, FDReads
<1> HIDE DEF r
<1> DEFINE x == kids[p]
           n == r.ret
           y == CASE n = BLOCKED_CALL -> x
                  [] n = 0 /\ wc -> [x EXCEPT !.at = "print", !.n = PrintSize]
                  [] n = 0 /\ ~wc -> [x EXCEPT !.at = "exit"]
                  [] OTHER -> [x EXCEPT !.at = "copy", !.n = n]
<1>5. kids' = [kids EXCEPT ![p] = y]
  BY <1>1
<1>6. n = BLOCKED_CALL => y = x
  BY DEF BLOCKED_CALL
<1>7. y.at \notin Unstarted
  <2>1. /\ [x EXCEPT !.at = "print", !.n = PrintSize].at = "print" /\ [x EXCEPT !.at = "exit"].at = "exit"
        /\ [x EXCEPT !.at = "copy", !.n = n].at = "copy" /\ x.at = "read"
    BY <1>2 DEF Kids
  <2> HIDE DEF x, n
  <2> QED BY <2>1 DEF BLOCKED_CALL, Unstarted
<1> HIDE DEF y
<1>8. /\ KidsMove(k, kids, kids')
      /\ \A z \in Children : kids[z].at \in Unstarted => kids'[z].at \in Unstarted
  <2>1. kids[p].at \notin Unstarted
    BY <1>2 DEF Unstarted
  <2> QED BY <1>2, <1>5, <1>7, <2>1, KidGoesOn
<1>9. r.ret = BLOCKED_CALL => kids' = kids
  BY <1>5, <1>6, InvParts
<1>10. Tries(k, k', kids, kids', p)
  BY <1>1, <1>2, <1>4, <1>8, <1>9, KeyParts, KidReads
<1>11. Sleeping(k', kids') /\ Fewer(k, k', kids, kids')
  BY <1>8, <1>10, ProcNames DEF Tries, Fewer
<1>12. k'.kbd_waiting_process = Sh => k.kbd_waiting_process = Sh
  BY <1>10, ProcNames DEF Tries
<1>13. ~jobs => Accounted(k', kids')
  <2>1. ~jobs /\ f \in Terms => k.kbd_waiting_process = Nobody
    BY <1>2, OnlyReader
  <2> QED BY <1>10, <2>1, KeyParts DEF Tries
<1> QED BY <1>1, <1>11, <1>12, <1>13, OthersKeyInv

\* A child copies what it has read, or prints.
LEMMA KidWritesKeys ==
  ASSUME ShellInv, KeyInv, NEW p \in Children, ReaderCopies(p) \/ Prints(p)
  PROVE  KeyInv'
<1>1. kids[p] \in Kids /\ kids[p].n \in Int
  BY InvParts DEF Kids
<1>2. /\ k.state[p] = "READY" /\ kids[p].at \notin Unstarted /\ UNCHANGED <<sh, jobs>>
      /\ \E m \in Nat : Writes(p, m)
  <2>1. CASE ReaderCopies(p)
    <3>1. PICK m \in 0 .. kids[p].n : Writes(p, m)
      BY <2>1 DEF ReaderCopies
    <3>2. m \in Nat
      BY <1>1
    <3> QED BY <2>1, <3>1, <3>2 DEF ReaderCopies, KidAt, Unstarted
  <2>2. CASE Prints(p)
    <3>1. 1 \in Nat /\ Writes(p, 1)
      BY <2>2 DEF Prints
    <3> QED BY <2>2, <3>1 DEF Prints, KidAt, Unstarted
  <2> QED BY <2>1, <2>2
<1>3. \E e \in {"read", "print", "exit"}, n \in Int : kids' = [kids EXCEPT ![p] = KidIn(kids[p], e, n)]
  <2>1. CASE ReaderCopies(p)
    <3>1. kids' = [kids EXCEPT ![p] = [@ EXCEPT !.at = "read", !.n = 0]]
      BY <2>1 DEF ReaderCopies
    <3> DEFINE e == "read"
               n == 0
    <3>2. kids' = [kids EXCEPT ![p] = KidIn(kids[p], e, n)]
      BY <3>1 DEF KidIn
    <3>3. e \in {"read", "print", "exit"} /\ n \in Int
      OBVIOUS
    <3> HIDE DEF e, n
    <3> QED BY <3>2, <3>3
  <2>2. CASE Prints(p)
    <3> DEFINE e == IF kids[p].n = 1 THEN "exit" ELSE "print"
               n == kids[p].n - 1
    <3>1. kids' = [kids EXCEPT ![p] = KidIn(kids[p], e, n)]
      BY <1>1, <2>2, InvParts DEF Prints, KidIn, Kids
    <3>2. e \in {"read", "print", "exit"} /\ n \in Int
      BY <1>1
    <3> HIDE DEF e, n
    <3> QED BY <3>1, <3>2
  <2> QED BY <2>1, <2>2
<1>4. PICK e \in {"read", "print", "exit"}, n \in Int :
        kids' = [kids EXCEPT ![p] = KidIn(kids[p], e, n)]
  BY <1>3
<1>5. KidIn(kids[p], e, n).at \notin Unstarted
  BY <1>1 DEF KidIn, Kids, Unstarted
<1>6. /\ KidsMove(k, kids, kids')
      /\ \A z \in Children : kids[z].at \in Unstarted => kids'[z].at \in Unstarted
  BY <1>2, <1>4, <1>5, KidGoesOn
<1>7. PICK m \in Nat : Writes(p, m)
  BY <1>2
<1>8. Wakes(k, fd_write(k, k.fd[p][FD_STDOUT], p, m).k, kids, kids') /\ Wakes(k, k, kids, kids')
  BY <1>2, <1>6, KeyParts, KidWrites
<1>9. Wakes(k, k', kids, kids')
  BY <1>7, <1>8 DEF Writes
<1> QED BY <1>2, <1>6, <1>9, WakesKeyInv

\* The shell makes a call in which no child comes, goes or starts.
ShellCalm ==
  /\ kids' = kids /\ Sleeping(k', kids') /\ (~jobs => Accounted(k', kids'))
  /\ k.waiting_for = Nobody /\ k'.waiting_for = Nobody /\ k'.kbd_waiting_process # Sh
  /\ Redirected(k') <=> Redirected(k)
  /\ \A x \in Children : k'.state[x] = "FREE" <=> k.state[x] = "FREE"

\* The shell waits neither for a child nor for a key while it runs.
LEMMA ShellReady ==
  ASSUME ShellInv, KeyInv, k.state[Sh] = "READY"
  PROVE  k.waiting_for = Nobody /\ k.kbd_waiting_process # Sh
<1>1. Sh # Nobody
  BY ProcNames
<1> QED BY <1>1, KeyParts DEF ShellOK, WaiterOK

\* Such calls change nothing a sleeper waits for,
LEMMA UntouchedWakes ==
  ASSUME NEW a, Sane(a), NEW b, NEW c, Sleeping(a, c), Untouched(a, b)
  PROVE  Wakes(a, b, c, c)
<1>1. Sleeping(b, c) /\ (Accounted(a, c) => Accounted(b, c))
  BY FieldSleeping
<1> QED BY <1>1 DEF Wakes, Untouched

\* or are about pipes,
LEMMA WaitsWakes ==
  ASSUME NEW a, Sane(a), NEW b, NEW c, Sleeping(a, c), Keeps(a, b), Waits(a, b), TablesOK(b)
  PROVE  Wakes(a, b, c, c)
<1>1. /\ b.waiting_for = a.waiting_for /\ b.kbd_waiting_process = a.kbd_waiting_process
      /\ b.fd = a.fd /\ \A x \in Procs : b.state[x] = "FREE" <=> a.state[x] = "FREE"
  BY DEF Keeps, SameAlive, Waits
<1>2. a.kbd_waiting_process \in Procs \cup {Nobody} /\ KidsMove(a, c, c)
  BY ShellFields DEF Sane, KidsMove
<1>3. Sleeping(b, c) /\ (Accounted(a, c) => Accounted(b, c))
  BY <1>1, <1>2, CalmSleeping
<1> QED BY <1>1, <1>3 DEF Wakes

\* and that is enough.
LEMMA WakesCalm ==
  ASSUME ShellInv, KeyInv, k.state[Sh] = "READY", Wakes(k, k', kids, kids), kids' = kids
  PROVE  ShellCalm
<1>1. /\ Sleeping(k', kids) /\ (Accounted(k, kids) => Accounted(k', kids))
      /\ k'.fd = k.fd /\ k'.waiting_for = k.waiting_for
      /\ k'.kbd_waiting_process \in {k.kbd_waiting_process, Nobody}
      /\ \A x \in Procs : k'.state[x] = "FREE" <=> k.state[x] = "FREE"
  BY DEF Wakes
<1>2. Right \in Procs /\ Sh # Nobody /\ Children \subseteq Procs
  BY ProcNames DEF Children
<1> QED BY <1>1, <1>2, ShellReady, KeyParts DEF ShellCalm, Redirected

\* Where the shell is after Goto and Done.
LEMMA ShellFieldsThen ==
  ASSUME ShellInv
  PROVE  /\ \A l : Goto(l) => sh'.at = l /\ sh'.cmd = sh.cmd /\ sh'.fds = sh.fds
         /\ Done => sh'.at = "prompt" /\ sh'.cmd = NoCommand
<1>1. /\ sh \in [at : Places, cmd : Commands \cup {NoCommand},
                 fds : {<<>>} \cup (FDs \X FDs), failed : BOOLEAN]
  BY DEF ShellInv, ShOK
<1> QED BY <1>1 DEF Goto, Done

\* A place where the shell has no pipe and expects nobody.
Empty == {"prompt", "line", "create"}

\* It comes to such a place from one.
LEMMA EmptyKeys ==
  ASSUME ShellInv, KeyInv, ShellCalm, sh'.at \in Empty, jobs' = jobs, ~sh'.cmd.bg \/ jobs,
         ~jobs => \A x \in Children : k.state[x] = "FREE"
  PROVE  KeyInv'
<1>1. Sleeping(k', kids') /\ (~jobs => Accounted(k', kids'))
  BY DEF ShellCalm
<1>2. PlaceOK'
  BY KeyParts DEF ShellCalm, PlaceOK, SetUp, PipeOpen, Empty
<1>3. NoJobs'
  BY <1>1 DEF ShellCalm, NoJobs, Alive, Cast, Empty
<1> QED BY <1>1, <1>2, <1>3 DEF KeyInv

\* tty_set_mode.
LEMMA SetModeCalm ==
  ASSUME ShellInv, KeyInv, k.state[Sh] = "READY", NEW m, k' = tty_set_mode(k, m), kids' = kids
  PROVE  ShellCalm
<1>1. Untouched(k, k')
  BY KeyParts DEF Untouched, tty_set_mode, Sane, ShellKernel
<1> QED BY <1>1, KeyParts, UntouchedWakes, WakesCalm

\* A command of its own gets the terminal cooked.
LEMMA SetCookedKeys ==
  ASSUME ShellInv, KeyInv, sh.cmd.kind = "single" /\ SetCooked("create")
  PROVE  KeyInv'
<1>1. /\ k.state[Sh] = "READY" /\ sh.at = "cooked" /\ ~Piped
      /\ k' = tty_set_mode(k, "COOKED") /\ kids' = kids /\ jobs' = jobs
  BY DEF SetCooked, At, Piped
<1>2. ShellCalm
  BY <1>1, SetModeCalm
<1>3. sh'.at = "create" /\ sh'.cmd = sh.cmd
  BY CookedShell DEF Places, PipeOpen
<1>4. ~jobs => ~sh.cmd.bg /\ \A x \in Children : k.state[x] = "FREE"
  BY <1>1, KeyParts DEF NoJobs, Alive, Cast
<1> QED BY <1>1, <1>2, <1>3, <1>4, EmptyKeys DEF Empty

\* The terminal is set back to raw.
LEMMA SetRawKeys ==
  ASSUME ShellInv, KeyInv, SetRaw
  PROVE  KeyInv'
<1>1. /\ k.state[Sh] = "READY" /\ sh.at = "raw" /\ kids' = kids /\ jobs' = jobs
      /\ k' = tty_set_mode(k, "RAW") /\ Done
  BY DEF SetRaw, At
<1>2. ShellCalm
  BY <1>1, SetModeCalm
<1>3. sh'.at = "prompt" /\ ~sh'.cmd.bg
  BY <1>1, ShellFieldsThen DEF NoCommand
<1>4. ~jobs => \A x \in Children : k.state[x] = "FREE"
  <2>1. k.waiting_for \notin Children
    BY <1>1, ShellReady, ProcNames
  <2> QED BY <1>1, <2>1, KeyParts DEF NoJobs, Alive, Cast
<1> QED BY <1>1, <1>2, <1>3, <1>4, EmptyKeys DEF Empty

\* processLine.
LEMMA ProcessLineKeys ==
  ASSUME ShellInv, KeyInv, ProcessLine
  PROVE  KeyInv'
<1>1. k.state[Sh] = "READY" /\ sh.at = "line" /\ k' = k /\ kids' = kids
  BY DEF ProcessLine, At
<1>2. ShellCalm
  <2>1. Untouched(k, k')
    BY <1>1 DEF Untouched
  <2> QED BY <1>1, <2>1, KeyParts, UntouchedWakes, WakesCalm
<1>3. ~jobs => \A x \in Children : k.state[x] = "FREE"
  BY <1>1, KeyParts DEF NoJobs, Alive, Cast
<1>4. CASE Done /\ jobs' = jobs
  <2>1. sh'.at = "prompt" /\ ~sh'.cmd.bg
    BY <1>4, ShellFieldsThen DEF NoCommand
  <2> QED BY <1>2, <1>3, <1>4, <2>1, EmptyKeys DEF Empty
<1>5. ASSUME NEW c \in Commands,
             sh' = [sh EXCEPT !.cmd = c, !.at = IF c.kind = "pipeline" THEN "pipe" ELSE "cooked"],
             jobs' = (jobs \/ (c.kind = "pipeline" /\ c.bg))
      PROVE  KeyInv'
  <2>1. sh'.cmd = c /\ sh'.at = IF c.kind = "pipeline" THEN "pipe" ELSE "cooked"
    BY <1>5 DEF ShellInv, ShOK
  <2>2. c.kind = "pipeline" \/ (c.kind = "single" /\ ~c.bg)
    BY DEF Commands
  <2>3. Sleeping(k', kids') /\ (~jobs' => ~jobs /\ ~c.bg /\ Accounted(k', kids'))
    BY <1>2, <1>5, <2>2 DEF ShellCalm
  <2>4. PlaceOK'
    BY <1>1, <1>2, <2>1, <2>2, KeyParts DEF ShellCalm, PlaceOK, SetUp, Piped, PipeOpen
  <2>5. NoJobs'
    BY <1>1, <1>3, <2>1, <2>2, <2>3 DEF NoJobs, Alive, Cast, Piped
  <2> QED BY <2>3, <2>4, <2>5 DEF KeyInv
<1> QED BY <1>4, <1>5 DEF ProcessLine

\* shellReadLine: without a job in the background the shell finds nobody waiting.
LEMMA ReadLineKeys ==
  ASSUME ShellInv, KeyInv, ReadLine
  PROVE  KeyInv'
<1> DEFINE f == k.fd[Sh][FD_STDIN]
           r == fd_read(k, f, Sh, 1)
           l == IF r.bytes = <<Newline>> THEN "line" ELSE "prompt"
<1>1. /\ k.state[Sh] = "READY" /\ sh.at = "prompt" /\ k' = r.k /\ Goto(l)
      /\ kids' = kids /\ jobs' = jobs
  BY DEF ReadLine, At
<1>2. f = FD_STDIN /\ f \in FDs /\ f \in Terms /\ Sh \in Procs /\ 1 \in Nat
  BY KeyParts, FDAssumption, ProcNames DEF ShellOK, FDs, FD_STDIN, Terms
<1>3. Reading(k, r, Sh, f)
  BY <1>1, <1>2, KeyParts, FDReads
<1>4. sh'.at = l /\ sh'.cmd = sh.cmd
  BY <1>1, ShellFieldsThen
<1>5. ~jobs => ~sh.cmd.bg /\ \A x \in Children : k.state[x] = "FREE"
  BY <1>1, KeyParts DEF NoJobs, Alive, Cast
<1> HIDE DEF r
<1>6. CASE Untouched(k, k')
  <2>1. ShellCalm
    BY <1>1, <1>6, KeyParts, UntouchedWakes, WakesCalm
  <2>2. sh'.at \in Empty
    BY <1>4 DEF Empty
  <2> QED BY <1>1, <1>4, <1>5, <2>1, <2>2, EmptyKeys
<1>7. CASE k' = kbd_set_waiting(k, Sh) /\ r.bytes = <<>>
  <2>1. /\ Sleeping(k', kids)
        /\ k.kbd_waiting_process = Nobody /\ Accounted(k, kids) => Accounted(k', kids)
        /\ k'.fd = k.fd /\ k'.waiting_for = k.waiting_for /\ k'.kbd_waiting_process = Sh
        /\ \A x \in Procs : k'.state[x] = "FREE" <=> k.state[x] = "FREE"
    BY <1>1, <1>2, <1>7, KeyParts, TermSleeping
  <2>2. sh'.at = "prompt"
    BY <1>4, <1>7
  <2>3. ~jobs => k.kbd_waiting_process = Nobody
    <3>1. SUFFICES ASSUME ~jobs, k.kbd_waiting_process # Nobody PROVE FALSE
      OBVIOUS
    <3>2. k.state[k.kbd_waiting_process] = "BLOCKED" /\ k.kbd_waiting_process \in Procs
      BY <3>1, KeyParts DEF WaiterOK
    <3> QED BY <1>1, <1>5, <3>1, <3>2, ProcNames
  <2>4. ~jobs => Accounted(k', kids')
    BY <1>1, <2>1, <2>3, KeyParts
  <2>5. \A x \in Children : k'.state[x] = "FREE" <=> k.state[x] = "FREE"
    BY <2>1, ProcNames
  <2>6. Right \in Procs /\ k.waiting_for = Nobody
    BY <1>1, ProcNames, ShellReady DEF Children
  <2>7. PlaceOK'
    <3>1. Redirected(k') <=> Redirected(k)
      BY <2>1, <2>6 DEF Redirected
    <3> QED BY <1>1, <2>1, <2>2, <2>6, <3>1, KeyParts DEF PlaceOK, SetUp, PipeOpen
  <2>8. NoJobs'
    BY <1>1, <1>4, <1>5, <2>2, <2>4, <2>5 DEF NoJobs, Alive, Cast
  <2> QED BY <1>1, <2>1, <2>7, <2>8 DEF KeyInv
<1> QED BY <1>1, <1>2, <1>3, <1>6, <1>7 DEF Reading

\* What sys_create_process does to those who sleep.
LEMMA CreateKeys ==
  ASSUME ShellInv, KeyInv, k.state[Sh] = "READY", NEW p \in Children, NEW fg, ~Alive(p),
         k' = created(p, fg),
         \E prog \in Programs : kids' = [kids EXCEPT ![p] = NewKid(prog, fg = 3)]
  PROVE  /\ Sleeping(k', kids') /\ (~jobs => Accounted(k', kids'))
         /\ k.waiting_for = Nobody /\ k'.waiting_for = Nobody /\ k'.kbd_waiting_process # Sh
         /\ \A x \in Children : x # p => /\ k'.fd[x] = k.fd[x] /\ kids'[x] = kids[x]
                                         /\ k'.state[x] = "FREE" <=> k.state[x] = "FREE"
         /\ fg = 3 => kids'[p].at = "new"
<1>1. PICK prog \in Programs : kids' = [kids EXCEPT ![p] = NewKid(prog, fg = 3)]
  OBVIOUS
<1>2. /\ kids'[p] = NewKid(prog, fg = 3)
      /\ \A x \in Children : x # p => kids'[x] = kids[x]
  BY <1>1, InvParts
<1>3. kids'[p].at # "gone" /\ (kids'[p].at = "new" <=> fg = 3)
  BY <1>2 DEF NewKid, Entry
<1>4. OnlyKid(kids, kids', p) /\ k.state[p] = "FREE"
  BY <1>2 DEF OnlyKid, Alive
<1>5. Alters(k, created(p, fg), kids, kids', p)
  BY <1>3, <1>4, KeyParts, CreatedAlters
<1>6. Children \subseteq Procs
  BY ProcNames
<1> QED BY <1>2, <1>3, <1>5, <1>6, KeyParts, ShellReady DEF Alters

\* A command of its own.
LEMMA CreateSingleKeys ==
  ASSUME ShellInv, KeyInv, CreateSingle
  PROVE  KeyInv'
<1>1. /\ k.state[Sh] = "READY" /\ sh.at = "create" /\ jobs' = jobs /\ Single \in Children
      /\ Right \in Children /\ Right # Single
  BY DEF CreateSingle, At, Children, Right, Single
<1>2. ~jobs => ~sh.cmd.bg /\ \A x \in Children : k.state[x] = "FREE"
  BY <1>1, KeyParts DEF NoJobs, Alive, Cast
<1>3. CASE /\ ~Alive(Single) /\ k' = created(Single, 1) /\ Goto("wait")
           /\ \E prog \in Programs : kids' = [kids EXCEPT ![Single] = NewKid(prog, 1 = 3)]
  <2>1. /\ Sleeping(k', kids') /\ (~jobs => Accounted(k', kids'))
        /\ k.waiting_for = Nobody /\ k'.waiting_for = Nobody /\ k'.kbd_waiting_process # Sh
        /\ \A x \in Children : x # Single => /\ k'.fd[x] = k.fd[x] /\ kids'[x] = kids[x]
                                             /\ k'.state[x] = "FREE" <=> k.state[x] = "FREE"
    <3> DEFINE fg == 1
    <3>1. /\ k' = created(Single, fg)
          /\ \E prog \in Programs : kids' = [kids EXCEPT ![Single] = NewKid(prog, fg = 3)]
      BY <1>3
    <3>2. ShellInv /\ KeyInv /\ k.state[Sh] = "READY" /\ Single \in Children /\ ~Alive(Single)
      BY <1>1, <1>3
    <3> HIDE DEF fg
    <3> QED BY ONLY <3>1, <3>2, CreateKeys
  <2>2. sh'.at = "wait" /\ sh'.cmd = sh.cmd
    BY <1>3, ShellFieldsThen
  <2>3. PlaceOK'
    <3>1. Redirected(k') <=> Redirected(k)
      BY <1>1, <2>1 DEF Redirected
    <3> QED BY <1>1, <2>1, <2>2, <3>1, KeyParts DEF PlaceOK, SetUp, PipeOpen
  <2>4. NoJobs'
    BY <1>1, <1>2, <2>1, <2>2 DEF NoJobs, Alive, Cast
  <2> QED BY <2>1, <2>3, <2>4 DEF KeyInv
<1>4. CASE /\ UNCHANGED <<k, kids>>
           /\ sh' = [sh EXCEPT !.at = "prompt", !.cmd = NoCommand, !.failed = TRUE]
  <2>1. ShellCalm
    <3>1. Untouched(k, k')
      BY <1>4 DEF Untouched
    <3> QED BY <1>1, <1>4, <3>1, KeyParts, UntouchedWakes, WakesCalm
  <2>2. sh'.at = "prompt" /\ ~sh'.cmd.bg
    BY <1>4 DEF ShellInv, ShOK, NoCommand
  <2> QED BY <1>1, <1>2, <2>1, <2>2, EmptyKeys DEF Empty
<1> QED BY <1>3, <1>4 DEF CreateSingle, Create

\* The halves of a pipeline.
LEMMA CreateHalfKeys ==
  ASSUME ShellInv, KeyInv, CreateLeft \/ CreateRight
  PROVE  KeyInv'
<1>1. /\ k.state[Sh] = "READY" /\ sh.at \in {"left", "right"} /\ jobs' = jobs
      /\ Left \in Children /\ Right \in Children /\ Left # Right /\ Piped /\ sh.fds[1] \notin Terms
  BY KeyParts DEF CreateLeft, CreateRight, At, Children, Right, Left, PlaceOK, PipeOpen
<1>2. ~jobs => ~sh.cmd.bg /\ \A x \in Children : k.state[x] # "FREE" => x = Left /\ sh.at = "right"
  BY <1>1, KeyParts DEF NoJobs, Alive, Cast
<1>3. ASSUME NEW p \in {Left, Right}, ~Alive(p), k' = created(p, 3),
             p = Left => Goto("right") /\ sh.at = "left",
             p = Right => Goto("setup_left") /\ sh.at = "right",
             \E prog \in Programs : kids' = [kids EXCEPT ![p] = NewKid(prog, 3 = 3)]
      PROVE  KeyInv'
  <2>1. /\ Sleeping(k', kids') /\ (~jobs => Accounted(k', kids'))
        /\ k.waiting_for = Nobody /\ k'.waiting_for = Nobody /\ k'.kbd_waiting_process # Sh
        /\ \A x \in Children : x # p => /\ k'.fd[x] = k.fd[x] /\ kids'[x] = kids[x]
                                        /\ k'.state[x] = "FREE" <=> k.state[x] = "FREE"
        /\ kids'[p].at = "new"
    <3>1. p \in Children
      BY <1>1
    <3> QED BY <1>1, <1>3, <3>1, CreateKeys
  <2>2. /\ sh'.at = IF p = Left THEN "right" ELSE "setup_left"
        /\ sh'.cmd = sh.cmd /\ sh'.fds = sh.fds
    BY <1>1, <1>3, ShellFieldsThen
  <2>3. PlaceOK'
    <3>1. p = Left => (Redirected(k') <=> Redirected(k)) /\ kids'[Right] = kids[Right]
      BY <1>1, <2>1 DEF Redirected
    <3>2. p = Right => kids'[Left] = kids[Left] /\ kids[Left].at \in Unstarted
      BY <1>1, <1>3, <2>1, KeyParts DEF PlaceOK
    <3> QED BY <1>1, <2>1, <2>2, <3>1, <3>2, KeyParts DEF PlaceOK, SetUp, PipeOpen, Piped, Unstarted
  <2>4. NoJobs'
    BY <1>1, <1>2, <1>3, <2>1, <2>2 DEF NoJobs, Alive, Cast
  <2> QED BY <2>1, <2>3, <2>4 DEF KeyInv
<1>4. ASSUME UNCHANGED <<k, kids>>, NEW l \in {"drop_read", "kill_left"}, Goto(l),
             l = "drop_read" => sh.at = "left", l = "kill_left" => sh.at = "right"
      PROVE  KeyInv'
  <2>1. ShellCalm
    <3>1. Untouched(k, k')
      BY <1>4 DEF Untouched
    <3> QED BY <1>1, <1>4, <3>1, KeyParts, UntouchedWakes, WakesCalm
  <2>2. sh'.at = l /\ sh'.cmd = sh.cmd /\ sh'.fds = sh.fds
    BY <1>4, ShellFieldsThen
  <2>3. PlaceOK'
    BY <1>1, <1>4, <2>1, <2>2, KeyParts DEF ShellCalm, PlaceOK, SetUp, PipeOpen, Piped
  <2>4. NoJobs'
    BY <1>1, <1>2, <1>4, <2>1, <2>2 DEF ShellCalm, NoJobs, Alive, Cast
  <2> QED BY <2>1, <2>3, <2>4 DEF KeyInv, ShellCalm
<1>5. CASE CreateLeft
  BY <1>3, <1>4, <1>5 DEF CreateLeft, Create, At, Left, Right
<1>6. CASE CreateRight
  BY <1>3, <1>4, <1>6 DEF CreateRight, Create, At, Left, Right
<1> QED BY <1>5, <1>6

\* sys_waitpid.
LEMMA WaitKeys ==
  ASSUME ShellInv, KeyInv, NEW l, NEW p \in Children, NEW next, Wait(l, p, next),
         \/ l = "wait" /\ p = Single /\ next = "raw"
         \/ l = "wait_left" /\ p = Left /\ next = "wait_right"
         \/ l = "wait_right" /\ p = Right /\ next = "raw"
  PROVE  KeyInv'
<1> DEFINE b == [k EXCEPT !.state[Sh] = "BLOCKED", !.waiting_for = p]
<1>1. /\ k.state[Sh] = "READY" /\ sh.at = l /\ kids' = kids /\ jobs' = jobs /\ Goto(next)
      /\ k' = IF k.state[p] # "FREE" THEN b ELSE k
  BY DEF Wait, At, Alive
<1>2. k.waiting_for = Nobody /\ k.kbd_waiting_process # Sh /\ p # Nobody
  BY <1>1, ShellReady, ProcNames
<1>3. /\ Sleeping(b, kids) /\ (Accounted(k, kids) => Accounted(b, kids))
      /\ b.fd = k.fd /\ b.kbd_waiting_process = k.kbd_waiting_process /\ b.waiting_for = p
      /\ \A x \in Children : b.state[x] = k.state[x]
  BY <1>1, KeyParts, WaitSleeping
<1> HIDE DEF b
<1>4. /\ Sleeping(k', kids') /\ (~jobs => Accounted(k', kids')) /\ k'.fd = k.fd
      /\ k'.kbd_waiting_process # Sh /\ \A x \in Children : k'.state[x] = k.state[x]
      /\ k'.waiting_for = IF k.state[p] # "FREE" THEN p ELSE Nobody
  BY <1>1, <1>2, <1>3, KeyParts
<1>5. sh'.at = next /\ sh'.cmd = sh.cmd
  BY <1>1, ShellFieldsThen
<1>6. PlaceOK'
  <2>1. Right \in Children
    BY DEF Children
  <2>2. Redirected(k') <=> Redirected(k)
    BY <1>4, <2>1 DEF Redirected
  <2> QED BY <1>1, <1>4, <1>5, <2>2, KeyParts DEF PlaceOK, SetUp, PipeOpen
<1>7. NoJobs'
  <2> SUFFICES ASSUME ~jobs
               PROVE  /\ ~sh'.cmd.bg
                      /\ \A x \in Children : k'.state[x] # "FREE" => x \in Cast'
                      /\ sh'.at = "wait_right" => k'.waiting_for \in {Nobody, Left}
                      /\ Accounted(k', kids')
    BY <1>1 DEF NoJobs, Alive
  <2>1. /\ ~sh.cmd.bg /\ \A x \in Children : k.state[x] # "FREE" => x \in Cast
    BY KeyParts DEF NoJobs, Alive
  <2>2. ASSUME NEW x \in Children, k'.state[x] # "FREE" PROVE x \in Cast'
    <3>1. x \in Cast /\ k.state[x] # "FREE" /\ x # Nobody
      BY <1>4, <2>1, <2>2, ProcNames
    <3> QED BY <1>1, <1>2, <1>4, <1>5, <3>1 DEF Cast
  <2> QED BY <1>1, <1>4, <1>5, <2>1, <2>2
<1> QED BY <1>4, <1>6, <1>7 DEF KeyInv

\* sys_pipe.
LEMMA MakePipeKeys ==
  ASSUME ShellInv, KeyInv, MakePipe
  PROVE  KeyInv'
<1> DEFINE r == sys_pipe(k, Anonymous)
<1>1. PICK child_commands \in BOOLEAN :
        /\ At("pipe") /\ UNCHANGED <<kids, jobs>>
        /\ \/ /\ k' = r.k
              /\ IF r.fds = <<>> THEN Done
                 ELSE sh' = [sh EXCEPT !.fds = r.fds,
                                       !.at = IF child_commands THEN "left" ELSE "drop_read"]
           \/ UNCHANGED k /\ Done
  BY DEF MakePipe
<1>2. Waits(k, r.k) /\ TablesOK(r.k) /\ (r.fds # <<>> => r.fds[1] \notin Terms)
  BY KeyParts, SysPipeWaits
<1>3. Keeps(k, r.k)
  BY KeyParts, SysPipeKeeps
<1> HIDE DEF r
<1>4. /\ k.state[Sh] = "READY" /\ sh.at = "pipe" /\ kids' = kids /\ jobs' = jobs /\ Piped
  BY <1>1, KeyParts DEF At, PlaceOK
<1>5. ShellCalm
  <2>1. CASE k' = r.k
    BY <1>2, <1>3, <1>4, <2>1, KeyParts, WaitsWakes, WakesCalm
  <2>2. CASE k' = k
    <3>1. Untouched(k, k')
      BY <2>2 DEF Untouched
    <3> QED BY <1>4, <3>1, KeyParts, UntouchedWakes, WakesCalm
  <2> QED BY <1>1, <2>1, <2>2
<1>6. ~jobs => ~sh.cmd.bg /\ \A x \in Children : k.state[x] = "FREE"
  BY <1>4, KeyParts DEF NoJobs, Alive, Cast
<1>7. CASE Done
  <2>1. sh'.at = "prompt" /\ ~sh'.cmd.bg
    BY <1>1, <1>7, ShellFieldsThen DEF NoCommand
  <2> QED BY <1>4, <1>5, <1>6, <2>1, EmptyKeys DEF Empty
<1>8. CASE ~Done
  <2>1. /\ sh'.at \in {"left", "drop_read"} /\ sh'.cmd = sh.cmd /\ sh'.fds = r.fds
        /\ r.fds # <<>>
    BY <1>1, <1>8 DEF ShellInv, ShOK
  <2>2. PlaceOK'
    BY <1>2, <1>4, <1>5, <1>8, <2>1, KeyParts DEF ShellCalm, PlaceOK, SetUp, PipeOpen, Piped
  <2>3. NoJobs'
    BY <1>4, <1>5, <1>6, <2>1 DEF ShellCalm, NoJobs, Alive, Cast
  <2> QED BY <1>5, <2>2, <2>3 DEF KeyInv, ShellCalm
<1> QED BY <1>7, <1>8

\* sys_kill of the left half: nobody else of the line is there.
LEMMA KillLeftKeys ==
  ASSUME ShellInv, KeyInv, KillLeft
  PROVE  KeyInv'
<1>1. /\ k.state[Sh] = "READY" /\ sh.at = "kill_left" /\ jobs' = jobs /\ Goto("drop_read")
      /\ Left \in Children /\ Right \in Children
      /\ Ends(Left) \/ (k.state[Left] = "FREE" /\ UNCHANGED <<k, kids>>)
  BY DEF KillLeft, At, Children, Alive
<1>2. /\ Piped /\ sh.fds[1] \notin Terms
      /\ ~jobs => ~sh.cmd.bg /\ \A x \in Children : k.state[x] # "FREE" => x = Left
  BY <1>1, KeyParts DEF NoJobs, PlaceOK, PipeOpen, Alive, Cast
<1>3. sh'.at = "drop_read" /\ sh'.cmd = sh.cmd /\ sh'.fds = sh.fds
  BY <1>1, ShellFieldsThen
<1>4. k.waiting_for = Nobody /\ k.kbd_waiting_process # Sh /\ Sh # Nobody /\ Nobody \notin Procs
  BY <1>1, ShellReady, ProcNames
<1>5. /\ Sleeping(k', kids') /\ k'.waiting_for = Nobody /\ k'.kbd_waiting_process # Sh
      /\ Redirected(k) => Redirected(k')
      /\ kids[Right].at \in Unstarted => kids'[Right].at \in Unstarted
      /\ ~jobs => Accounted(k', kids') /\ \A x \in Children : k'.state[x] = "FREE"
  <2>1. CASE Ends(Left)
    BY <1>1, <1>2, <1>4, <2>1, EndsKeys DEF Fewer, Redirected
  <2>2. CASE k.state[Left] = "FREE" /\ UNCHANGED <<k, kids>>
    BY <1>2, <1>4, <2>2, KeyParts DEF NoJobs
  <2> QED BY <1>1, <2>1, <2>2
<1>6. PlaceOK'
  BY <1>2, <1>3, <1>5, KeyParts DEF PlaceOK, SetUp, PipeOpen, Piped
<1>7. NoJobs'
  BY <1>1, <1>2, <1>3, <1>5 DEF NoJobs, Alive
<1> QED BY <1>5, <1>6, <1>7 DEF KeyInv

\* process_pipe_setup: the right half does not read the terminal from here on.
LEMMA SetupKeys ==
  ASSUME ShellInv, KeyInv, SetupLeft \/ SetupRight
  PROVE  KeyInv'
<1>1. /\ Left \in Children /\ Right \in Children /\ Left # Right
      /\ FD_STDIN \in 0 .. 1 /\ FD_STDOUT \in 0 .. 1 /\ FD_STDIN # FD_STDOUT
  BY DEF Children, Left, Right, FD_STDIN, FD_STDOUT
<1>2. /\ k.state[Sh] = "READY" /\ sh.at \in {"setup_left", "setup_right"}
      /\ kids' = kids /\ jobs' = jobs
  BY DEF SetupLeft, SetupRight, Setup, At
<1>3. /\ Piped /\ sh.fds[1] \notin Terms /\ sh.fds[1] \in FDs /\ sh.fds[2] \in FDs
      /\ kids[Left].at \in Unstarted /\ kids[Right].at \in Unstarted
      /\ k.waiting_for = Nobody /\ k.kbd_waiting_process # Sh
  BY <1>2, KeyParts, InvParts, ShellReady DEF PlaceOK, PipeOpen
<1>4. ASSUME NEW p \in {Left, Right}, NEW next \in {"setup_right", "close_read"},
             p = Left => next = "setup_right", Goto(next),
             Alters(k, k', kids, kids, p), k'.state[p] = "FREE" <=> k.state[p] = "FREE",
             p = Right => (k'.state[Right] # "FREE" => k'.fd[Right][FD_STDIN] \notin Terms)
      PROVE  KeyInv'
  <2>1. sh'.at = next /\ sh'.cmd = sh.cmd /\ sh'.fds = sh.fds
    BY <1>4, ShellFieldsThen
  <2>2. /\ Sleeping(k', kids') /\ (~jobs => Accounted(k', kids'))
        /\ k'.waiting_for = Nobody /\ k'.kbd_waiting_process # Sh
        /\ \A x \in Children : k'.state[x] = "FREE" <=> k.state[x] = "FREE"
    BY <1>2, <1>3, <1>4, KeyParts, ProcNames DEF Alters
  <2>3. next = "close_read" => Redirected(k')
    BY <1>1, <1>4 DEF Redirected
  <2>4. PlaceOK'
    BY <1>2, <1>3, <2>1, <2>2, <2>3 DEF PlaceOK, SetUp, PipeOpen, Piped
  <2>5. NoJobs'
    BY <1>2, <2>1, <2>2, KeyParts DEF NoJobs, Alive, Cast
  <2> QED BY <2>2, <2>4, <2>5 DEF KeyInv
<1>5. CASE SetupLeft
  <2> DEFINE f == sh.fds[2]
  <2>1. k' = process_pipe_setup(k, Left, f, FD_STDOUT) /\ Goto("setup_right")
    BY <1>5 DEF SetupLeft, Setup
  <2>2. f \in FDs
    BY <1>3
  <2> HIDE DEF f
  <2>3. Alters(k, k', kids, kids, Left) /\ (k'.state[Left] = "FREE" <=> k.state[Left] = "FREE")
    BY <1>1, <1>3, <2>1, <2>2, KeyParts, SetupAlters
  <2> QED BY <1>1, <1>4, <2>1, <2>3
<1>6. CASE SetupRight
  <2> DEFINE f == sh.fds[1]
  <2>1. k' = process_pipe_setup(k, Right, f, FD_STDIN) /\ Goto("close_read")
    BY <1>6 DEF SetupRight, Setup
  <2>2. f \in FDs /\ f \notin Terms
    BY <1>3
  <2> HIDE DEF f
  <2>3. /\ Alters(k, k', kids, kids, Right)
        /\ k'.state[Right] = "FREE" <=> k.state[Right] = "FREE"
        /\ k'.state[Right] # "FREE" => k'.fd[Right][FD_STDIN] = f
    BY <1>1, <1>3, <2>1, <2>2, KeyParts, SetupAlters
  <2> QED BY <1>1, <1>4, <2>1, <2>2, <2>3
<1> QED BY <1>5, <1>6

\* sys_close of an end.
LEMMA CloseKeys ==
  ASSUME ShellInv, KeyInv, CloseRead \/ CloseWrite \/ DropRead \/ DropWrite
  PROVE  KeyInv'
<1>1. /\ k.state[Sh] = "READY" /\ kids' = kids /\ jobs' = jobs
      /\ sh.at \in {"close_read", "close_write", "drop_read", "drop_write"}
      /\ \E f : k' = fd_decref(k, f)
  BY DEF CloseRead, CloseWrite, DropRead, DropWrite, CloseEnd, At, sys_close
<1>2. ShellCalm
  <2>1. PICK f : k' = fd_decref(k, f)
    BY <1>1
  <2>2. Waits(k, k') /\ TablesOK(k') /\ Keeps(k, k')
    BY <2>1, KeyParts, DecrefWaits, DecrefKeeps
  <2> QED BY <1>1, <2>2, KeyParts, WaitsWakes, WakesCalm
<1>3. Piped /\ sh.fds[1] \notin Terms
  BY <1>1, KeyParts DEF PlaceOK, PipeOpen
<1>4. ASSUME NEW l \in {"close_write", "start_left", "cooked", "drop_write"}, Goto(l),
             l = "drop_write" => sh.at = "drop_read",
             l # "drop_write" => sh.at \in {"close_read", "close_write"}
      PROVE  KeyInv'
  <2>1. sh'.at = l /\ sh'.cmd = sh.cmd /\ sh'.fds = sh.fds
    BY <1>4, ShellFieldsThen
  <2>2. PlaceOK'
    BY <1>2, <1>3, <1>4, <2>1, KeyParts DEF ShellCalm, PlaceOK, SetUp, PipeOpen, Piped
  <2>3. NoJobs'
    BY <1>1, <1>2, <1>3, <1>4, <2>1, KeyParts DEF ShellCalm, NoJobs, Alive, Cast, Piped
  <2> QED BY <1>2, <2>2, <2>3 DEF KeyInv, ShellCalm
<1>5. CASE CloseRead
  BY <1>4, <1>5 DEF CloseRead, CloseEnd, At
<1>6. CASE CloseWrite
  BY <1>4, <1>6 DEF CloseWrite, CloseEnd, At
<1>7. CASE DropRead
  BY <1>4, <1>7 DEF DropRead, CloseEnd, At
<1>8. CASE DropWrite
  <2>1. sh.at = "drop_write" /\ Done
    BY <1>8 DEF DropWrite, CloseEnd, At
  <2>2. ~jobs => \A x \in Children : k.state[x] = "FREE"
    BY <2>1, KeyParts DEF NoJobs, Alive, Cast
  <2>3. sh'.at = "prompt" /\ ~sh'.cmd.bg
    BY <2>1, ShellFieldsThen DEF NoCommand
  <2> QED BY <1>1, <1>2, <2>2, <2>3, EmptyKeys DEF Empty
<1> QED BY <1>5, <1>6, <1>7, <1>8

\* A pipeline gets the terminal cooked.
LEMMA SetCookedPipelineKeys ==
  ASSUME ShellInv, KeyInv, sh.cmd.kind = "pipeline" /\ SetCooked("start_left")
  PROVE  KeyInv'
<1>1. /\ k.state[Sh] = "READY" /\ sh.at = "cooked" /\ Piped
      /\ k' = tty_set_mode(k, "COOKED") /\ kids' = kids /\ jobs' = jobs
  BY DEF SetCooked, At, Piped
<1>2. ShellCalm
  BY <1>1, SetModeCalm
<1>3. sh'.at = "start_left" /\ sh'.cmd = sh.cmd /\ sh'.fds = sh.fds
  BY CookedShell DEF Places, PipeOpen
<1>4. PlaceOK'
  BY <1>1, <1>2, <1>3, KeyParts DEF ShellCalm, PlaceOK, SetUp, PipeOpen, Piped
<1>5. NoJobs'
  BY <1>1, <1>2, <1>3, KeyParts DEF ShellCalm, NoJobs, Alive, Cast, Piped
<1> QED BY <1>2, <1>4, <1>5 DEF KeyInv, ShellCalm

\* process_unblock of a half, which was not started and is set up.
LEMMA StartKeys ==
  ASSUME ShellInv, KeyInv, StartLeft \/ StartRight
  PROVE  KeyInv'
<1>1. Left \in Children /\ Right \in Children /\ Left # Right
  BY DEF Children, Left, Right
<1>2. ASSUME NEW p \in {Left, Right}, k.state[Sh] = "READY", k' = process_unblock(k, p),
             kids' = [kids EXCEPT ![p].at = IF @ = "new" THEN Entry(kids[p].prog) ELSE @],
             jobs' = jobs, sh.at = IF p = Left THEN "start_left" ELSE "start_right",
             NEW next \in {"start_right", "prompt", "wait_left"}, sh'.at = next,
             sh'.cmd \in {sh.cmd, NoCommand},
             p = Left => next = "start_right",
             p = Right => next = IF sh.cmd.bg THEN "prompt" ELSE "wait_left"
      PROVE  KeyInv'
  <2>1. /\ Redirected(k) /\ kids[p].at \in Unstarted /\ kids[Right].at \in Unstarted
        /\ k.waiting_for = Nobody /\ k.kbd_waiting_process # Sh /\ p \in Children
    BY <1>1, <1>2, KeyParts, ShellReady DEF PlaceOK, SetUp
  <2>2. kids[p] \in Kids
    BY <2>1, InvParts
  <2>3. /\ kids'[p].at = IF kids[p].at = "new" THEN Entry(kids[p].prog) ELSE kids[p].at
        /\ \A x \in Children : x # p => kids'[x] = kids[x]
    BY <1>2, <2>1, <2>2, InvParts DEF Kids
  <2>4. /\ kids[p].at = "gone" => kids'[p].at = "gone"
        /\ kids[p].at = "new" => kids'[p].at \notin Unstarted
        /\ OnlyKid(kids, kids', p)
    BY <2>1, <2>3 DEF Unstarted, Entry, OnlyKid
  <2>5. /\ Alters(k, k', kids, kids', p) /\ k'.fd = k.fd
        /\ k'.state[p] = "FREE" <=> k.state[p] = "FREE"
    <3>1. Sane(k) /\ Sleeping(k, kids) /\ p \in Children /\ k' = process_unblock(k, p)
      BY <1>2, <2>1, KeyParts
    <3> QED BY ONLY <2>1, <2>4, <3>1, StartAlters
  <2>6. /\ Sleeping(k', kids') /\ (~jobs => Accounted(k', kids'))
        /\ k'.waiting_for = Nobody /\ k'.kbd_waiting_process # Sh
        /\ \A x \in Children : k'.state[x] = "FREE" <=> k.state[x] = "FREE"
    BY <2>1, <2>5, KeyParts, ProcNames DEF Alters
  <2>7. Redirected(k')
    BY <1>1, <2>1, <2>5, <2>6 DEF Redirected
  <2>8. next = "start_right" => kids'[Right].at \in Unstarted
    BY <1>1, <1>2, <2>1, <2>3
  <2>9. PlaceOK'
    BY <1>2, <2>6, <2>7, <2>8 DEF PlaceOK, SetUp, PipeOpen, Piped
  <2>10. NoJobs'
    <3>1. ~NoCommand.bg
      BY DEF NoCommand
    <3> QED BY <1>2, <2>6, <3>1, KeyParts DEF NoJobs, Alive, Cast
  <2> QED BY <2>6, <2>9, <2>10 DEF KeyInv
<1>3. CASE StartLeft
  <2>1. /\ k.state[Sh] = "READY" /\ sh.at = "start_left" /\ k' = process_unblock(k, Left)
        /\ kids' = [kids EXCEPT ![Left].at = IF @ = "new" THEN Entry(kids[Left].prog) ELSE @]
        /\ jobs' = jobs /\ Goto("start_right")
    BY <1>3 DEF StartLeft, Start, At
  <2>2. sh'.at = "start_right" /\ sh'.cmd = sh.cmd
    BY <2>1, ShellFieldsThen
  <2> QED BY <1>1, <1>2, <2>1, <2>2
<1>4. CASE StartRight
  <2> DEFINE next == IF sh.cmd.bg THEN "prompt" ELSE "wait_left"
  <2>1. /\ k.state[Sh] = "READY" /\ sh.at = "start_right" /\ k' = process_unblock(k, Right)
        /\ kids' = [kids EXCEPT ![Right].at = IF @ = "new" THEN Entry(kids[Right].prog) ELSE @]
        /\ jobs' = jobs /\ IF next = "prompt" THEN Done ELSE Goto(next)
    BY <1>4 DEF StartRight, Start, At
  <2>2. sh'.at = next /\ sh'.cmd \in {sh.cmd, NoCommand}
    BY <2>1, ShellFieldsThen
  <2> QED BY <1>1, <1>2, <2>1, <2>2
<1> QED BY <1>3, <1>4

\* The first state: nobody sleeps.
LEMMA InitKeys ==
  ASSUME Init
  PROVE  KeyInv
<1> DEFINE a == Kernel0
           asleep == FALSE
           b == create_fds(a, Sh, asleep)
<1>0. Sane(a)
  BY Kernel0Sane
<1>a. ~asleep
  OBVIOUS
<1>b. /\ k = b /\ sh = [at |-> "prompt", cmd |-> NoCommand, fds |-> <<>>, failed |-> FALSE]
      /\ kids = [p \in Children |-> NoKid] /\ jobs = FALSE
  BY DEF Init, a
<1>1. /\ a.waiting_for = Nobody /\ a.kbd_waiting_process = Nobody
      /\ \A x \in Procs : a.state[x] = "FREE"
      /\ \A i \in Pipes : a.pipe_table[i] = FreePipe
      /\ a.fd_table = fd_init
  BY DEF Kernel0
<1> HIDE DEF a, asleep
<1>2. QueuesOK(a)
  <2>1. /\ FreePipe.wait_readers = <<>> /\ FreePipe.wait_writers = <<>>
        /\ FreePipe.name = Anonymous /\ Len(<<>>) = 0
    BY DEF FreePipe
  <2>2. \A x : ~InPipe(FreePipe, x)
    BY <2>1 DEF InPipe, InQueue
  <2>3. Injective(<<>>)
    BY DEF Injective
  <2>4. QuietPipe(FreePipe)
    BY <2>1, <2>2 DEF QuietPipe, InPipe
  <2>5. \A i \in Pipes : PipeOK(a, i)
    BY <1>1, <2>1, <2>2, <2>3 DEF PipeOK, InPipe
  <2> QED BY <1>1, <2>2, <2>4, <2>5 DEF QueuesOK
<1>3. TablesOK(a)
  <2>1. \A f \in FDs : a.fd_table[f].type = IF f \in Terms THEN "TERMINAL" ELSE "NONE"
    BY <1>1 DEF fd_init, Terms
  <2> QED BY <2>1 DEF TablesOK, TablesBut, PipeEnds
<1>4. Sh \in Procs /\ ~Queued(a, Sh)
  BY <1>1, <1>2, ReadyFree, ProcNames
<1>5. Parts(a, b, Sh) /\ b.fd[Sh][FD_STDIN] = FD_STDIN /\ b.state[Sh] = "READY"
  <2>1. /\ Parts(a, b, Sh) /\ b.fd[Sh][FD_STDIN] = FD_STDIN
        /\ b.state[Sh] = IF asleep THEN "BLOCKED" ELSE "READY"
    BY <1>0, <1>2, <1>3, <1>4, CreateParts
  <2> QED BY <1>a, <2>1
<1>6. Turns(a, b, Sh)
  BY <1>0, <1>4, CreateTurns
<1> HIDE DEF b
<1>8. /\ QueuesOK(b) /\ TablesOK(b) /\ ~Queued(b, Sh) /\ b.waiting_for = Nobody
      /\ b.kbd_waiting_process = Nobody
      /\ \A x \in Children : b.state[x] = "FREE"
  BY <1>1, <1>5, <1>6, ProcNames DEF Parts, Turns
<1>9. \A p \in Children : kids[p].at = "gone"
  BY <1>b DEF NoKid
<1>10. \A p \in Children : ~Reads(b, p)
  BY <1>8, ProcNames, ReadyFree, ReadsQueued
<1>11. Sleeping(b, kids)
  <2>1. WaiterOK(b, kids)
    BY <1>8 DEF WaiterOK
  <2>2. KidsOK(b, kids)
    BY <1>8, <1>9, <1>10 DEF KidsOK
  <2>3. ShellOK(b)
    BY <1>5, <1>8 DEF ShellOK
  <2> QED BY <1>8, <2>1, <2>2, <2>3 DEF Sleeping
<1>12. Accounted(b, kids)
  BY <1>5, <1>8, ProcNames DEF Accounted
<1>13. PlaceOK
  <2>1. Left \in Children /\ Right \in Children /\ Sh # Nobody
    BY ProcNames DEF Children
  <2> QED BY <1>b, <1>8, <1>9, <2>1 DEF PlaceOK, SetUp, PipeOpen, Unstarted
<1>14. NoJobs
  BY <1>b, <1>8, <1>12 DEF NoJobs, Alive, NoCommand
<1> QED BY <1>b, <1>11, <1>13, <1>14 DEF KeyInv

\* Every key and every system call keeps it.
LEMMA KeyInvStep ==
  ASSUME ShellInv, KeyInv, [Next]_vars
  PROVE  KeyInv'
<1>1. CASE Key
  <2>1. CASE TypeCtrlC
    <3>1. PICK p \in Children : Ends(p)
      BY <2>1, CtrlCEnds
    <3>2. UNCHANGED <<sh, jobs>>
      BY <2>1 DEF TypeCtrlC
    <3> QED BY <3>1, <3>2, GoneKeys
  <2> QED BY <1>1, <2>1, TypeKeys DEF Key
<1>2. CASE RunSingle
  <2>1. Single \in Children
    BY DEF Children
  <2>2. CASE sh.cmd.kind = "single" /\ SetCooked("create")
    BY <2>2, SetCookedKeys
  <2>3. CASE CreateSingle
    BY <2>3, CreateSingleKeys
  <2>4. CASE Wait("wait", Single, "raw")
    BY <2>1, <2>4, WaitKeys
  <2> QED BY <1>2, <2>2, <2>3, <2>4 DEF RunSingle
<1>3. CASE RunPipeline
  <2>1. Left \in Children /\ Right \in Children
    BY DEF Children
  <2>2. CASE MakePipe \/ CreateLeft \/ CreateRight \/ KillLeft
    BY <2>2, MakePipeKeys, CreateHalfKeys, KillLeftKeys
  <2>3. CASE SetupLeft \/ SetupRight
    BY <2>3, SetupKeys
  <2>4. CASE CloseRead \/ CloseWrite \/ DropRead \/ DropWrite
    BY <2>4, CloseKeys
  <2>5. CASE sh.cmd.kind = "pipeline" /\ SetCooked("start_left")
    BY <2>5, SetCookedPipelineKeys
  <2>6. CASE StartLeft \/ StartRight
    BY <2>6, StartKeys
  <2>7. CASE Wait("wait_left", Left, "wait_right")
    BY <2>1, <2>7, WaitKeys
  <2>8. CASE Wait("wait_right", Right, "raw")
    BY <2>1, <2>8, WaitKeys
  <2> QED BY <1>3, <2>2, <2>3, <2>4, <2>5, <2>6, <2>7, <2>8 DEF RunPipeline
<1>4. CASE ReadLine \/ ProcessLine \/ SetRaw
  BY <1>4, ReadLineKeys, ProcessLineKeys, SetRawKeys
<1>5. ASSUME NEW p \in Children, KidStep(p) PROVE KeyInv'
  <2>1. CASE Exit(p)
    BY <2>1, GoneKeys DEF Exit
  <2> QED BY <1>5, <2>1, ReaderReadsKeys, KidWritesKeys DEF KidStep
<1>6. CASE UNCHANGED vars
  BY <1>6 DEF vars, KeyInv, PlaceOK, NoJobs, SetUp, Piped, Cast, Alive
<1> QED BY <1>1, <1>2, <1>3, <1>4, <1>5, <1>6 DEF Next, ShellStep

\* Who waits for a key: the process the driver has on record is asleep in a read
\* of the terminal, never one that has ended, waits for a child or sleeps at a
\* pipe; and without a pipeline in the background nobody sleeps in such a read
\* behind its back, although kbd_set_waiting overwrites the record unchecked.
THEOREM ShellKeyboardHasOwner == Spec => []KeyboardHasOwner
<1>1. ASSUME ShellInv, KeyInv PROVE KeyboardHasOwner
  <2> DEFINE w == k.kbd_waiting_process
  <2>0. /\ Children \subseteq Procs /\ Sh \in Procs /\ Procs = Children \cup {Sh} /\ Sh \notin Children
        /\ k.pipe_table \in [Pipes -> PipeRecord]
    BY ProcNames, ShellFields, <1>1, KeyParts DEF Sane
  <2>1. ASSUME NEW p \in Procs
        PROVE  (\A i \in Pipes : ~Contains(k.pipe_table[i].wait_writers, p))
                 <=> (Queued(k, p) => Reads(k, p))
    <3>1. ASSUME NEW i \in Pipes
          PROVE  Contains(k.pipe_table[i].wait_writers, p) <=> InQueue(k.pipe_table[i].wait_writers, p)
      BY DEF Contains, InQueue
    <3>2. ASSUME NEW i \in Pipes, NEW j \in Pipes
          PROVE  ~(InQueue(k.pipe_table[i].wait_writers, p) /\ InQueue(k.pipe_table[j].wait_readers, p))
      <4>1. QueuesOK(k)
        BY <1>1, KeyParts
      <4> QED BY <4>1 DEF QueuesOK, PipeOK, InPipe
    <3> QED BY <3>1, <3>2 DEF Queued, Reads, InPipe
  <2>2. ASSUME NEW p \in Children, k.state[p] # "FREE"
        PROVE  k.fd_table[k.fd[p][FD_STDIN]].type = "TERMINAL" <=> k.fd[p][FD_STDIN] \in Terms
    <3>1. k.fd[p][FD_STDIN] \in FDs
      BY <1>1, <2>2, KeyParts DEF KidsOK
    <3> QED BY <1>1, <3>1, KeyParts, TablesAll
  <2>3. ASSUME w # Nobody PROVE w \in TerminalSleepers
    <3>1. /\ w \in Procs /\ k.state[w] = "BLOCKED" /\ ~Queued(k, w)
          /\ IF w = Sh THEN k.waiting_for = Nobody
             ELSE kids[w].at = "read" /\ k.fd[w][FD_STDIN] \in Terms
      BY <1>1, <2>3, KeyParts DEF WaiterOK
    <3> QED BY <2>0, <2>1, <2>2, <3>1 DEF TerminalSleepers
  <2>4. ASSUME ~jobs, NEW p \in TerminalSleepers PROVE p = w
    <3>1. /\ p \in Procs /\ k.state[p] = "BLOCKED" /\ (Queued(k, p) => Reads(k, p))
          /\ IF p = Sh THEN k.waiting_for = Nobody
             ELSE kids[p].at = "read" /\ k.fd_table[k.fd[p][FD_STDIN]].type = "TERMINAL"
      BY <2>1 DEF TerminalSleepers
    <3>2. p # Sh => k.fd[p][FD_STDIN] \in Terms
      BY <2>0, <2>2, <3>1
    <3>3. ~Queued(k, p)
      <4>1. CASE p = Sh
        BY <1>1, <4>1, KeyParts DEF ShellOK
      <4>2. CASE p # Sh
        BY <1>1, <2>0, <3>1, <3>2, <4>2, KeyParts DEF KidsOK
      <4> QED BY <4>1, <4>2
    <3>4. \/ Queued(k, p) \/ p = w
          \/ IF p = Sh THEN k.waiting_for # Nobody ELSE kids[p].at = "new"
      BY <1>1, <2>4, <3>1, KeyParts DEF Accounted
    <3> QED BY <3>1, <3>3, <3>4
  <2> QED BY <2>3, <2>4 DEF KeyboardHasOwner
<1> QED BY <1>1, InitInv, ShellInvStep, InitKeys, KeyInvStep, PTL DEF Spec
=============================================================================
