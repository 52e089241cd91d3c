-------------------------------- MODULE Pipe --------------------------------
(***************************************************************************)
(* Pipes (Kernel/c/pipe/pipe.c).  An operation takes the kernel's state k  *)
(* and gives the state after it; of k it uses                              *)
(*   k.pipe_table  the pipes, by their index                               *)
(*   k.state       the states of the processes                             *)
(* A system call runs with interrupts off, so a whole operation is part of *)
(* one step of the system that calls it.                                   *)
(*                                                                         *)
(* Bytes are numbered, modulo Stream, in the order in which they enter a   *)
(* pipe; sent and got, the number of the next byte to enter and to leave,  *)
(* record the traffic and are not in the code.  A byte that has been read  *)
(* is Stale, although the code leaves it where it is.                      *)
(***************************************************************************)
EXTENDS WaitQueue, FiniteSetsExt, SequencesExt

CONSTANTS
  Procs,              \* the slots of process_table
  MAX_PIPES,
  PIPE_BUFFER_SIZE,
  Stream,             \* bytes are numbered modulo this
  Names               \* the names of named pipes

ASSUME PipeAssumption == /\ IsFiniteSet(Procs)
                         /\ MAX_PIPES \in Nat \ {0}
                         /\ PIPE_BUFFER_SIZE \in Nat \ {0}
                         /\ Stream \in Nat \ {0}

Cells == 0 .. PIPE_BUFFER_SIZE - 1
Pipes == 1 .. MAX_PIPES
NULL == 0             \* no pipe
Stale == Stream       \* what a cell holds whose byte has been read
Anonymous == "anonymous"
BLOCKED_CALL == -1    \* (uint64_t)-1: the caller has been put to sleep

\* opens is only ever compared with 2, so counting stops there.
MaxOpens == 2

PipeRecord ==
  [buffer : [Cells -> 0 .. Stream], read_idx : Cells, write_idx : Cells,
   count : 0 .. PIPE_BUFFER_SIZE, open_read : Nat, open_write : Nat,
   wait_readers : Seq(Procs), wait_writers : Seq(Procs),
   in_use : BOOLEAN, name : Names \cup {Anonymous}, eof : BOOLEAN,
   opens : 0 .. MaxOpens, sent : 0 .. Stream - 1, got : 0 .. Stream - 1]

is_named(q) == q.name # Anonymous

\* pipe_init: all zeroes, and no byte yet.
FreePipe ==
  [buffer |-> [c \in Cells |-> Stale], read_idx |-> 0, write_idx |-> 0, count |-> 0,
   open_read |-> 0, open_write |-> 0, wait_readers |-> <<>>, wait_writers |-> <<>>,
   in_use |-> FALSE, name |-> Anonymous, eof |-> FALSE, opens |-> 0,
   sent |-> 0, got |-> 0]

(***************************************************************************)
(* Sleeping and waking                                                     *)
(***************************************************************************)
\* A process is in a queue at most once.
queue_push(s, p) == IF InQueue(s, p) THEN s ELSE Append(s, p)

process_block(k, p) == [k EXCEPT !.state[p] = IF @ = "READY" THEN "BLOCKED" ELSE @]
process_unblock(k, p) == [k EXCEPT !.state[p] = IF @ = "BLOCKED" THEN "READY" ELSE @]

sleep_reader(k, i, p) ==
  process_block([k EXCEPT !.pipe_table[i].wait_readers = queue_push(@, p)], p)

sleep_writer(k, i, p) ==
  process_block([k EXCEPT !.pipe_table[i].wait_writers = queue_push(@, p)], p)

pipe_wake_reader(k, i) ==
  LET s == k.pipe_table[i].wait_readers
  IN IF s = <<>> THEN k
     ELSE process_unblock([k EXCEPT !.pipe_table[i].wait_readers = queue_pop(s)], Head(s))

pipe_wake_writer(k, i) ==
  LET s == k.pipe_table[i].wait_writers
  IN IF s = <<>> THEN k
     ELSE process_unblock([k EXCEPT !.pipe_table[i].wait_writers = queue_pop(s)], Head(s))

\* Everybody in the queue s, which the caller has emptied, becomes ready.
unblock_all(k, s) ==
  [k EXCEPT !.state = [p \in Procs |-> IF InQueue(s, p) /\ @[p] = "BLOCKED"
                                       THEN "READY" ELSE @[p]]]

pipe_wake_all_readers(k, i) ==
  unblock_all([k EXCEPT !.pipe_table[i].wait_readers = <<>>], k.pipe_table[i].wait_readers)

pipe_wake_all_writers(k, i) ==
  unblock_all([k EXCEPT !.pipe_table[i].wait_writers = <<>>], k.pipe_table[i].wait_writers)

\* p leaves the queues of pipe q.
leave_queues(q, p) == [q EXCEPT !.wait_readers = queue_remove_pid(@, p),
                                !.wait_writers = queue_remove_pid(@, p)]

pipe_cleanup_for_process(k, p) ==
  [k EXCEPT !.pipe_table =
     [i \in Pipes |-> IF @[i].in_use THEN leave_queues(@[i], p) ELSE @[i]]]

(***************************************************************************)
(* The table of pipes                                                      *)
(***************************************************************************)
pipe_reset(q) == [FreePipe EXCEPT !.in_use = q.in_use]

\* Mutant of pipe_maybe_free: the pipe goes with its last reader.
free_with_readers(k, i) ==
  LET q == k.pipe_table[i]
  IN IF q.open_read = 0
     THEN [k EXCEPT !.pipe_table[i] = [pipe_reset(q) EXCEPT !.in_use = FALSE]]
     ELSE k

pipe_maybe_free(k, i) ==
  LET q == k.pipe_table[i]
  IN IF q.open_read = 0 /\ q.open_write = 0
     THEN [k EXCEPT !.pipe_table[i] = [pipe_reset(q) EXCEPT !.in_use = FALSE]]
     ELSE k

\* The index pipe_open returns and the table it leaves; NULL when all are in use.
pipe_open(k, name) ==
  LET same == {i \in Pipes : k.pipe_table[i].in_use /\ name # Anonymous
                               /\ k.pipe_table[i].name = name}
      free == {i \in Pipes : ~k.pipe_table[i].in_use}
      i == Min(IF same # {} THEN same ELSE free)
      q == k.pipe_table[i]
  IN IF same # {}
     THEN [pipe |-> i,
           k |-> [k EXCEPT !.pipe_table[i].opens = IF @ = MaxOpens THEN @ ELSE @ + 1]]
     ELSE IF free # {}
     THEN [pipe |-> i,
           k |-> [k EXCEPT !.pipe_table[i] =
                    [pipe_reset(q) EXCEPT !.in_use = TRUE, !.name = name,
                                          !.opens = IF name = Anonymous THEN 0 ELSE 1]]]
     ELSE [pipe |-> NULL, k |-> k]

pipe_open_read(k, i) ==
  LET k1 == [k EXCEPT !.pipe_table[i].open_read = @ + 1]
  IN IF is_named(k1.pipe_table[i]) THEN pipe_wake_all_writers(k1, i) ELSE k1

pipe_open_write(k, i) ==
  LET k1 == [k EXCEPT !.pipe_table[i].open_write = @ + 1]
  IN IF is_named(k1.pipe_table[i])
     THEN pipe_wake_all_readers([k1 EXCEPT !.pipe_table[i].eof = FALSE], i)
     ELSE k1

pipe_close_read(k, i) ==
  LET k1 == [k EXCEPT !.pipe_table[i].open_read = IF @ > 0 THEN @ - 1 ELSE @]
  IN pipe_maybe_free(IF k1.pipe_table[i].open_read = 0
                     THEN pipe_wake_all_writers(k1, i) ELSE k1, i)

\* Mutant of pipe_close_write: the readers sleep on when the last writer leaves.
close_write_in_silence(k, i) ==
  pipe_maybe_free([k EXCEPT !.pipe_table[i].open_write = IF @ > 0 THEN @ - 1 ELSE @], i)

pipe_close_write(k, i) ==
  LET k1 == [k EXCEPT !.pipe_table[i].open_write = IF @ > 0 THEN @ - 1 ELSE @]
      q == k1.pipe_table[i]
      k2 == [k1 EXCEPT !.pipe_table[i].eof = @ \/ (is_named(q) /\ q.opens >= 2)]
  IN pipe_maybe_free(IF q.open_write = 0 THEN pipe_wake_all_readers(k2, i) ELSE k1, i)

(***************************************************************************)
(* Reading and writing: the state after the call and what the call returns *)
(***************************************************************************)
\* An empty pipe nobody will write to.
at_eof(q) == IF is_named(q) THEN q.eof ELSE q.open_write = 0

take_bytes(q, n) ==
  [q EXCEPT !.buffer = [c \in Cells |->
                          IF (c - q.read_idx) % PIPE_BUFFER_SIZE < n THEN Stale ELSE q.buffer[c]],
            !.read_idx = (@ + n) % PIPE_BUFFER_SIZE,
            !.count = @ - n,
            !.got = (@ + n) % Stream]

\* Mutant of pipe_read: writers are woken once the pipe is empty.
read_wakes_when_empty(k, i, p, n) ==
  LET q == k.pipe_table[i]
      to_read == Min({n, q.count})
      k1 == [k EXCEPT !.pipe_table[i] = take_bytes(q, to_read)]
  IN IF n = 0 THEN [k |-> k, ret |-> 0]
     ELSE IF q.count > 0
     THEN [k |-> IF to_read = q.count THEN pipe_wake_writer(k1, i) ELSE k1, ret |-> to_read]
     ELSE IF at_eof(q) THEN [k |-> k, ret |-> 0]
     ELSE [k |-> sleep_reader(k, i, p), ret |-> BLOCKED_CALL]

pipe_read(k, i, p, n) ==
  LET q == k.pipe_table[i]
      to_read == Min({n, q.count})
  IN IF n = 0 THEN [k |-> k, ret |-> 0]
     ELSE IF q.count > 0
     THEN [k |-> pipe_wake_writer([k EXCEPT !.pipe_table[i] = take_bytes(q, to_read)], i),
           ret |-> to_read]
     ELSE IF at_eof(q) THEN [k |-> k, ret |-> 0]
     ELSE [k |-> sleep_reader(k, i, p), ret |-> BLOCKED_CALL]

\* Mutant of put_bytes: the buffer is written without going round.
put_bytes_no_wrap(q, n) ==
  [q EXCEPT !.buffer = [c \in Cells |->
                          IF c - q.write_idx \in 0 .. n - 1
                          THEN (q.sent + c - q.write_idx) % Stream ELSE @[c]],
            !.write_idx = (@ + n) % PIPE_BUFFER_SIZE,
            !.count = @ + n,
            !.sent = (@ + n) % Stream]

put_bytes(q, n) ==
  [q EXCEPT !.buffer = [c \in Cells |->
                          LET j == (c - q.write_idx) % PIPE_BUFFER_SIZE
                          IN IF j < n THEN (q.sent + j) % Stream ELSE q.buffer[c]],
            !.write_idx = (@ + n) % PIPE_BUFFER_SIZE,
            !.count = @ + n,
            !.sent = (@ + n) % Stream]

pipe_write(k, i, p, n) ==
  LET q == k.pipe_table[i]
      to_write == Min({n, PIPE_BUFFER_SIZE - q.count})
  IN IF n = 0 \/ (q.open_read = 0 /\ (~is_named(q) \/ q.eof)) THEN [k |-> k, ret |-> 0]
     ELSE IF q.open_read = 0 \/ q.count >= PIPE_BUFFER_SIZE
     THEN [k |-> sleep_writer(k, i, p), ret |-> BLOCKED_CALL]
     ELSE [k |-> pipe_wake_reader([k EXCEPT !.pipe_table[i] = put_bytes(q, to_write)], i),
           ret |-> to_write]

=============================================================================
