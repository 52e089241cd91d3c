---------------------------- MODULE PipeProofs ----------------------------
(***************************************************************************)
(* Proofs about module PipeCalls: pipes, file descriptors and the system   *)
(* calls on them, for every number of processes, pipes and descriptors,    *)
(* every size of the buffer and all bounds.                                *)
(*                                                                         *)
(* The operations of pipe.c and fd.c take the kernel's tables to tables,   *)
(* so there is one lemma per function of the code that says what it does   *)
(* to the invariant KInv of the tables, and a system call or the end of a  *)
(* process is a chain of them.  References are counted by a function N on  *)
(* sets of descriptors, which every function of the code moves by one.     *)
(***************************************************************************)
EXTENDS PipeCalls, NatLemmas

\* The values of the kernel's tables.
PipeKernel ==
  [state : [Procs -> {"FREE", "READY", "BLOCKED"}],
   fd : [Procs -> [0 .. 1 -> FDs \cup {NoFD}]],
   fd_table : [FDs -> FDRecord],
   pipe_table : [Pipes -> PipeRecord]]

\* The parts of the kernel's state.
LEMMA KernelFields ==
  ASSUME NEW a \in PipeKernel
  PROVE  /\ a.state \in [Procs -> {"FREE", "READY", "BLOCKED"}]
         /\ a.fd \in [Procs -> [0 .. 1 -> FDs \cup {NoFD}]]
         /\ a.fd_table \in [FDs -> FDRecord]
         /\ a.pipe_table \in [Pipes -> PipeRecord]
BY DEF PipeKernel

\* The fields of a pipe.
LEMMA PipeFields ==
  ASSUME NEW q \in PipeRecord
  PROVE  /\ q.buffer \in [Cells -> 0 .. Stream] /\ q.read_idx \in Cells /\ q.write_idx \in Cells
         /\ q.count \in 0 .. PIPE_BUFFER_SIZE /\ q.sent \in 0 .. Stream - 1 /\ q.got \in 0 .. Stream - 1
         /\ q.open_read \in Nat /\ q.open_write \in Nat
         /\ q.wait_readers \in Seq(Procs) /\ q.wait_writers \in Seq(Procs)
         /\ q.in_use \in BOOLEAN /\ q.name \in Names \cup {Anonymous} /\ q.eof \in BOOLEAN
         /\ q.opens \in 0 .. MaxOpens
BY DEF PipeRecord

(***************************************************************************)
(* The ring of bytes                                                       *)
(***************************************************************************)
\* The bytes in the pipe are the ones that have entered and not left, in order.
RingOK(q) ==
  /\ q.count \in 0 .. PIPE_BUFFER_SIZE
  /\ q.sent = (q.got + q.count) % Stream
  /\ q.write_idx = (q.read_idx + q.count) % PIPE_BUFFER_SIZE
  /\ \A j \in 0 .. q.count - 1 :
       q.buffer[(q.read_idx + j) % PIPE_BUFFER_SIZE] = (q.got + j) % Stream

\* What an operation on a pipe leaves alone: the bytes, the numbers of open ends, the
\* queues, the name.
SameRing(q, u) == /\ u.buffer = q.buffer /\ u.read_idx = q.read_idx /\ u.write_idx = q.write_idx
                  /\ u.count = q.count /\ u.sent = q.sent /\ u.got = q.got

SameEnds(q, u) == u.open_read = q.open_read /\ u.open_write = q.open_write

SameQueues(q, u) == u.wait_readers = q.wait_readers /\ u.wait_writers = q.wait_writers

SameName(q, u) == u.in_use = q.in_use /\ u.name = q.name /\ u.eof = q.eof /\ u.opens = q.opens

\* What is taken leaves in order.
LEMMA TakeBytes ==
  ASSUME NEW q \in PipeRecord, RingOK(q), NEW n \in 0 .. q.count, NEW u, u = take_bytes(q, n)
  PROVE  /\ u \in PipeRecord /\ RingOK(u) /\ u.count = q.count - n
         /\ SameEnds(q, u) /\ SameQueues(q, u) /\ SameName(q, u)
<1> DEFINE B == PIPE_BUFFER_SIZE
           buf == [c \in Cells |-> IF (c - q.read_idx) % B < n THEN Stale ELSE q.buffer[c]]
           rd == (q.read_idx + n) % B
           gt == (q.got + n) % Stream
           v == [q EXCEPT !.buffer = buf, !.read_idx = rd, !.count = q.count - n, !.got = gt]
<1>1. /\ B \in Nat \ {0} /\ Stream \in Nat \ {0}
      /\ q.count \in 0 .. B /\ q.read_idx \in 0 .. B - 1 /\ q.got \in 0 .. Stream - 1
      /\ q.buffer \in [Cells -> 0 .. Stream] /\ n \in Nat
  BY PipeAssumption, PipeFields DEF Cells
<1>2. u = v
  BY DEF take_bytes
<1>3. /\ buf \in [Cells -> 0 .. Stream] /\ rd \in 0 .. B - 1 /\ q.count - n \in 0 .. B
      /\ gt \in 0 .. Stream - 1
  <2>1. Stale \in 0 .. Stream
    BY <1>1 DEF Stale
  <2>2. rd \in 0 .. B - 1 /\ gt \in 0 .. Stream - 1
    <3> DEFINE x == q.read_idx + n
               y == q.got + n
    <3>1. x \in Int /\ y \in Int
      BY <1>1
    <3> HIDE DEF x, y
    <3>2. x % B \in 0 .. B - 1 /\ y % Stream \in 0 .. Stream - 1
      BY <1>1, <3>1, DivMod
    <3> QED BY <3>2 DEF x, y
  <2> QED BY <1>1, <2>1, <2>2
<1> HIDE DEF buf, rd, gt
<1>4. u \in PipeRecord
  BY <1>2, <1>3 DEF PipeRecord, Cells
<1>5. u.buffer = buf /\ u.read_idx = rd /\ u.count = q.count - n /\ u.got = gt
  BY <1>2 DEF PipeRecord
<1>6. /\ u.write_idx = q.write_idx /\ u.sent = q.sent
      /\ SameEnds(q, u) /\ SameQueues(q, u) /\ SameName(q, u)
  BY <1>2 DEF PipeRecord, SameEnds, SameQueues, SameName
<1> HIDE DEF v
<1>7. u.sent = (u.got + u.count) % Stream
  <2> DEFINE x == q.got + n
             y == q.count - n
  <2>1. x \in Int /\ y \in Int /\ x + y = q.got + q.count
    BY <1>1
  <2> HIDE DEF x, y
  <2>2. ((x % Stream) + y) % Stream = (x + y) % Stream
    BY <1>1, <2>1, ModSum
  <2> QED BY <1>5, <1>6, <2>1, <2>2 DEF RingOK, gt, x, y
<1>8. u.write_idx = (u.read_idx + u.count) % B
  <2> DEFINE x == q.read_idx + n
             y == q.count - n
  <2>1. x \in Int /\ y \in Int /\ x + y = q.read_idx + q.count
    BY <1>1
  <2> HIDE DEF x, y
  <2>2. ((x % B) + y) % B = (x + y) % B
    BY <1>1, <2>1, ModSum
  <2> QED BY <1>5, <1>6, <2>1, <2>2 DEF RingOK, rd, x, y
<1>9. ASSUME NEW j \in 0 .. u.count - 1
      PROVE  u.buffer[(u.read_idx + j) % B] = (u.got + j) % Stream
  <2> DEFINE m == n + j
             c == (q.read_idx + m) % B
  <2>1. j \in Int /\ m \in 0 .. q.count - 1 /\ m >= n /\ m \in 0 .. B - 1
        /\ q.read_idx + m \in Int /\ q.read_idx \in Int
    BY <1>1, <1>5
  <2>2. (rd + j) % B = c
    <3> DEFINE x == q.read_idx + n
    <3>1. x \in Int /\ x + j = q.read_idx + m
      BY <1>1, <2>1
    <3> HIDE DEF x
    <3>2. ((x % B) + j) % B = (x + j) % B
      BY <1>1, <2>1, <3>1, ModSum
    <3> QED BY <3>1, <3>2 DEF rd, x
  <2>3. (gt + j) % Stream = (q.got + m) % Stream
    <3> DEFINE x == q.got + n
    <3>1. x \in Int /\ x + j = q.got + m
      BY <1>1, <2>1
    <3> HIDE DEF x
    <3>2. ((x % Stream) + j) % Stream = (x + j) % Stream
      BY <1>1, <2>1, <3>1, ModSum
    <3> QED BY <3>1, <3>2 DEF gt, x
  <2> HIDE DEF m
  <2>4. c \in Cells
    BY <1>1, <2>1, DivMod DEF Cells
  <2>5. (c - q.read_idx) % B = m
    <3> DEFINE x == q.read_idx
               y == x + m
    <3>1. x \in Int /\ y \in Int /\ x \in 0 .. B - 1 /\ y - x = m
      BY <1>1, <2>1
    <3> HIDE DEF x, y
    <3>2. ((y % B) - (x % B)) % B = (y - x) % B
      BY <1>1, <3>1, ModSum
    <3>3. ASSUME NEW z \in 0 .. B - 1 PROVE z % B = z
      <4>1. B \in Nat \ {0} /\ z \in Int /\ z \in 0 .. B - 1
        BY <1>1
      <4> QED BY ONLY <4>1, ModNear
    <3> QED BY <2>1, <3>1, <3>2, <3>3 DEF x, y
  <2>6. buf[c] = q.buffer[c]
    BY <1>1, <2>1, <2>4, <2>5 DEF buf
  <2>7. q.buffer[c] = (q.got + m) % Stream
    BY <2>1 DEF RingOK
  <2> QED BY <1>5, <2>2, <2>3, <2>6, <2>7
<1>10. RingOK(u)
  BY <1>3, <1>5, <1>7, <1>8, <1>9 DEF RingOK
<1> QED BY <1>4, <1>5, <1>6, <1>10

\* What is put enters behind the rest, and overwrites none of it.
LEMMA PutBytes ==
  ASSUME NEW q \in PipeRecord, RingOK(q), NEW n \in 0 .. PIPE_BUFFER_SIZE - q.count,
         NEW u, u = put_bytes(q, n)
  PROVE  /\ u \in PipeRecord /\ RingOK(u) /\ u.count = q.count + n
         /\ SameEnds(q, u) /\ SameQueues(q, u) /\ SameName(q, u)
<1> DEFINE B == PIPE_BUFFER_SIZE
           buf == [c \in Cells |->
                     LET j == (c - q.write_idx) % B
                     IN IF j < n THEN (q.sent + j) % Stream ELSE q.buffer[c]]
           wr == (q.write_idx + n) % B
           st == (q.sent + n) % Stream
           v == [q EXCEPT !.buffer = buf, !.write_idx = wr, !.count = q.count + n, !.sent = st]
<1>1. /\ B \in Nat \ {0} /\ Stream \in Nat \ {0}
      /\ q.count \in 0 .. B /\ q.read_idx \in 0 .. B - 1 /\ q.got \in 0 .. Stream - 1
      /\ q.write_idx \in 0 .. B - 1 /\ q.sent \in 0 .. Stream - 1
      /\ q.buffer \in [Cells -> 0 .. Stream] /\ n \in Nat /\ q.count + n \in 0 .. B
  BY PipeAssumption, PipeFields, SMTT(60) DEF Cells
<1>2. u = v
  BY DEF put_bytes
<1>3. /\ buf \in [Cells -> 0 .. Stream] /\ wr \in 0 .. B - 1 /\ st \in 0 .. Stream - 1
  <2>1. wr \in 0 .. B - 1 /\ st \in 0 .. Stream - 1
    <3> DEFINE x == q.write_idx + n
               y == q.sent + n
    <3>1. x \in Int /\ y \in Int
      BY <1>1
    <3> HIDE DEF x, y
    <3>2. x % B \in 0 .. B - 1 /\ y % Stream \in 0 .. Stream - 1
      BY <1>1, <3>1, DivMod
    <3> QED BY <3>2 DEF x, y
  <2>2. ASSUME NEW c \in Cells PROVE (q.sent + ((c - q.write_idx) % B)) % Stream \in 0 .. Stream
    <3>1. c - q.write_idx \in Int
      BY <1>1 DEF Cells
    <3>2. (c - q.write_idx) % B \in 0 .. B - 1
      BY <1>1, <3>1, DivMod
    <3>3. q.sent + ((c - q.write_idx) % B) \in Int
      BY <1>1, <3>2
    <3> HIDE DEF B
    <3>4. (q.sent + ((c - q.write_idx) % B)) % Stream \in 0 .. Stream - 1
      BY <1>1, <3>3, DivMod
    <3> QED BY <1>1, <3>4
  <2> QED BY <1>1, <2>1, <2>2
<1> HIDE DEF buf, wr, st
<1>4. u \in PipeRecord
  BY <1>1, <1>2, <1>3 DEF PipeRecord, Cells
<1>5. u.buffer = buf /\ u.write_idx = wr /\ u.count = q.count + n /\ u.sent = st
  BY <1>2 DEF PipeRecord
<1>6. /\ u.read_idx = q.read_idx /\ u.got = q.got
      /\ SameEnds(q, u) /\ SameQueues(q, u) /\ SameName(q, u)
  BY <1>2 DEF PipeRecord, SameEnds, SameQueues, SameName
<1> HIDE DEF v
<1>7. u.sent = (u.got + u.count) % Stream
  <2> DEFINE x == q.got + q.count
  <2>1. x \in Int /\ n \in Int /\ Stream \in Nat \ {0} /\ x + n = q.got + (q.count + n)
    BY <1>1
  <2> HIDE DEF x
  <2>2. ((x % Stream) + n) % Stream = (x + n) % Stream
    BY <2>1, ModSum
  <2> QED BY <1>5, <1>6, <2>1, <2>2 DEF RingOK, st, x
<1>8. u.write_idx = (u.read_idx + u.count) % B
  <2> DEFINE x == q.read_idx + q.count
  <2>1. x \in Int /\ n \in Int /\ B \in Nat \ {0} /\ x + n = q.read_idx + (q.count + n)
    BY <1>1
  <2> HIDE DEF x
  <2>2. ((x % B) + n) % B = (x + n) % B
    BY <2>1, ModSum
  <2> QED BY <1>5, <1>6, <2>1, <2>2 DEF RingOK, wr, x
<1>9. ASSUME NEW j \in 0 .. u.count - 1
      PROVE  u.buffer[(u.read_idx + j) % B] = (u.got + j) % Stream
  <2> DEFINE c == (q.read_idx + j) % B
             m == (c - q.write_idx) % B
  <2>1. j \in 0 .. q.count + n - 1 /\ j \in 0 .. B - 1 /\ j - q.count \in -B .. B - 1
        /\ q.read_idx + j \in Int /\ q.read_idx + q.count \in Int
    BY <1>1, <1>5
  <2>2. c \in Cells
    BY <1>1, <2>1, DivMod DEF Cells
  <2>3. m = (j - q.count) % B
    <3>1. (((q.read_idx + j) % B) - ((q.read_idx + q.count) % B)) % B
            = ((q.read_idx + j) - (q.read_idx + q.count)) % B
      BY <1>1, <2>1, ModSum
    <3>2. (q.read_idx + j) - (q.read_idx + q.count) = j - q.count
      BY <1>1, <2>1
    <3> QED BY <3>1, <3>2 DEF RingOK
  <2> HIDE DEF m
  <2>4. CASE j < q.count
    <3>1. j - q.count \in -B .. -1
      BY <1>1, <2>1, <2>4
    <3>2. m = j - q.count + B
      BY <1>1, <2>1, <2>3, <3>1, ModNear, SMTT(60)
    <3>3. ~(m < n)
      BY <1>1, <2>1, <3>2
    <3>4. buf[c] = q.buffer[c]
      BY <2>2, <3>3 DEF buf, m
    <3>5. q.buffer[c] = (q.got + j) % Stream
      BY <2>1, <2>4 DEF RingOK
    <3> QED BY <1>5, <1>6, <3>4, <3>5
  <2>5. CASE j >= q.count
    <3>1. j - q.count \in 0 .. B - 1
      BY <1>1, <2>1, <2>5
    <3>2. m = j - q.count
      BY <1>1, <2>1, <2>3, <3>1, ModNear
    <3>3. m < n /\ m \in Int
      BY <1>1, <2>1, <3>2
    <3>4. buf[c] = (q.sent + m) % Stream
      BY <2>2, <3>3 DEF buf, m
    <3> DEFINE x == q.got + q.count
    <3>5. x \in Int /\ x + m = q.got + j
      BY <1>1, <2>1, <3>2
    <3> HIDE DEF x
    <3>6. ((x % Stream) + m) % Stream = (x + m) % Stream
      BY <1>1, <3>3, <3>5, ModSum
    <3> QED BY <1>5, <1>6, <3>4, <3>5, <3>6 DEF RingOK, x
  <2> QED BY <1>1, <2>1, <2>4, <2>5
<1>10. RingOK(u)
  BY <1>1, <1>5, <1>7, <1>8, <1>9 DEF RingOK
<1> QED BY <1>4, <1>5, <1>6, <1>10

(***************************************************************************)
(* What the operations of pipe.c change                                    *)
(***************************************************************************)
Reads(q, p) == InQueue(q.wait_readers, p)
Writes(q, p) == InQueue(q.wait_writers, p)

Readers(q) == {p \in Procs : Reads(q, p)}
Writers(q) == {p \in Procs : Writes(q, p)}

\* The states of the processes once those of W have been woken.
Woken(st, W) == [p \in Procs |-> IF p \in W /\ st[p] = "BLOCKED" THEN "READY" ELSE st[p]]

\* From a to b only pipe i changes, and the processes W are woken.
On(a, b, i, W) == /\ b \in PipeKernel /\ b.fd = a.fd /\ b.fd_table = a.fd_table
                  /\ \A j \in Pipes \ {i} : b.pipe_table[j] = a.pipe_table[j]
                  /\ b.state = Woken(a.state, W)

\* From q to u the ends, the queues and eof become the ones given.
Changes(q, u, nr, nw, rs, ws, e) ==
  /\ u \in PipeRecord /\ SameRing(q, u)
  /\ u.open_read = nr /\ u.open_write = nw
  /\ u.wait_readers = rs /\ u.wait_writers = ws
  /\ u.eof = e /\ u.in_use = q.in_use /\ u.name = q.name /\ u.opens = q.opens

\* One change after another.
LEMMA OnTwice ==
  ASSUME NEW a \in PipeKernel, NEW b, NEW c, NEW i \in Pipes, NEW V, NEW W,
         On(a, b, i, V), On(b, c, i, W)
  PROVE  On(a, c, i, V \cup W)
<1>1. Woken(Woken(a.state, V), W) = Woken(a.state, V \cup W)
  BY DEF Woken
<1> QED BY <1>1 DEF On

\* One pipe is written.
PipeIn(a, i, u) == [a EXCEPT !.pipe_table[i] = u]

\* A write to one pipe.
LEMMA PipeInOn ==
  ASSUME NEW a \in PipeKernel, NEW i \in Pipes, NEW u \in PipeRecord, NEW b, b = PipeIn(a, i, u)
  PROVE  On(a, b, i, {}) /\ b.pipe_table[i] = u
<1>1. /\ b \in PipeKernel /\ b.pipe_table = [a.pipe_table EXCEPT ![i] = u]
      /\ b.state = a.state /\ b.fd = a.fd /\ b.fd_table = a.fd_table
  BY DEF PipeIn, PipeKernel
<1>2. a.state = Woken(a.state, {})
  <2>1. a.state \in [Procs -> {"FREE", "READY", "BLOCKED"}]
    BY KernelFields
  <2> QED BY <2>1 DEF Woken
<1> QED BY <1>1, <1>2, KernelFields DEF On

\* The states of the processes are written.
StateIn(a, st) == [a EXCEPT !.state = st]

\* A write to the states of the processes.
LEMMA StateInFields ==
  ASSUME NEW a \in PipeKernel, NEW st \in [Procs -> {"FREE", "READY", "BLOCKED"}],
         NEW b, b = StateIn(a, st)
  PROVE  /\ b \in PipeKernel /\ b.state = st
         /\ b.pipe_table = a.pipe_table /\ b.fd = a.fd /\ b.fd_table = a.fd_table
BY DEF StateIn, PipeKernel

\* unblock_all wakes the processes in the queue.
LEMMA UnblockAll ==
  ASSUME NEW a \in PipeKernel, NEW i \in Pipes, NEW s \in Seq(Procs), NEW b, b = unblock_all(a, s),
         NEW W, \A p \in Procs : p \in W <=> InQueue(s, p)
  PROVE  On(a, b, i, W) /\ b.pipe_table[i] = a.pipe_table[i]
<1> DEFINE st == [p \in Procs |-> IF InQueue(s, p) /\ a.state[p] = "BLOCKED"
                                  THEN "READY" ELSE a.state[p]]
<1>1. b = StateIn(a, st)
  BY DEF unblock_all, StateIn
<1>2. st \in [Procs -> {"FREE", "READY", "BLOCKED"}]
  BY KernelFields
<1>3. st = Woken(a.state, W)
  BY DEF Woken
<1> HIDE DEF st
<1>4. /\ b \in PipeKernel /\ b.state = st
      /\ b.pipe_table = a.pipe_table /\ b.fd = a.fd /\ b.fd_table = a.fd_table
  BY <1>1, <1>2, StateInFields
<1> QED BY ONLY <1>3, <1>4 DEF On

\* process_unblock wakes one.
LEMMA Unblock ==
  ASSUME NEW a \in PipeKernel, NEW i \in Pipes, NEW p \in Procs, NEW b, b = process_unblock(a, p)
  PROVE  On(a, b, i, {p}) /\ b.pipe_table[i] = a.pipe_table[i]
<1> DEFINE st == [a.state EXCEPT ![p] = IF @ = "BLOCKED" THEN "READY" ELSE @]
<1>1. b = StateIn(a, st)
  BY DEF process_unblock, StateIn
<1>2. st \in [Procs -> {"FREE", "READY", "BLOCKED"}] /\ st = Woken(a.state, {p})
  BY KernelFields DEF Woken
<1> HIDE DEF st
<1> QED BY <1>1, <1>2, StateInFields DEF On

\* The fields of a pipe, one at a time.
LEMMA FieldChanges ==
  ASSUME NEW q \in PipeRecord
  PROVE  /\ \A v \in Nat :
              Changes(q, [q EXCEPT !.open_read = v], v, q.open_write,
                      q.wait_readers, q.wait_writers, q.eof)
         /\ \A v \in Nat :
              Changes(q, [q EXCEPT !.open_write = v], q.open_read, v,
                      q.wait_readers, q.wait_writers, q.eof)
         /\ \A s \in Seq(Procs) :
              Changes(q, [q EXCEPT !.wait_readers = s], q.open_read, q.open_write,
                      s, q.wait_writers, q.eof)
         /\ \A s \in Seq(Procs) :
              Changes(q, [q EXCEPT !.wait_writers = s], q.open_read, q.open_write,
                      q.wait_readers, s, q.eof)
         /\ \A e \in BOOLEAN :
              Changes(q, [q EXCEPT !.eof = e], q.open_read, q.open_write,
                      q.wait_readers, q.wait_writers, e)
<1>1. ASSUME NEW v \in Nat
      PROVE  Changes(q, [q EXCEPT !.open_read = v], v, q.open_write,
                     q.wait_readers, q.wait_writers, q.eof)
  BY DEF PipeRecord, Changes, SameRing
<1>2. ASSUME NEW v \in Nat
      PROVE  Changes(q, [q EXCEPT !.open_write = v], q.open_read, v,
                     q.wait_readers, q.wait_writers, q.eof)
  BY DEF PipeRecord, Changes, SameRing
<1>3. ASSUME NEW s \in Seq(Procs)
      PROVE  Changes(q, [q EXCEPT !.wait_readers = s], q.open_read, q.open_write,
                     s, q.wait_writers, q.eof)
  BY DEF PipeRecord, Changes, SameRing
<1>4. ASSUME NEW s \in Seq(Procs)
      PROVE  Changes(q, [q EXCEPT !.wait_writers = s], q.open_read, q.open_write,
                     q.wait_readers, s, q.eof)
  BY DEF PipeRecord, Changes, SameRing
<1>5. ASSUME NEW e \in BOOLEAN
      PROVE  Changes(q, [q EXCEPT !.eof = e], q.open_read, q.open_write,
                     q.wait_readers, q.wait_writers, e)
  BY DEF PipeRecord, Changes, SameRing
<1> QED BY <1>1, <1>2, <1>3, <1>4, <1>5

\* Everybody who waits for one end is woken, and its queue is empty.
LEMMA WakeAll ==
  ASSUME NEW a \in PipeKernel, NEW i \in Pipes, NEW q, q = a.pipe_table[i], NEW b
  PROVE  /\ b = pipe_wake_all_readers(a, i) =>
              /\ On(a, b, i, Readers(q))
              /\ Changes(q, b.pipe_table[i], q.open_read, q.open_write,
                         <<>>, q.wait_writers, q.eof)
         /\ b = pipe_wake_all_writers(a, i) =>
              /\ On(a, b, i, Writers(q))
              /\ Changes(q, b.pipe_table[i], q.open_read, q.open_write,
                         q.wait_readers, <<>>, q.eof)
<1>1. q \in PipeRecord /\ q.wait_readers \in Seq(Procs) /\ q.wait_writers \in Seq(Procs)
  BY KernelFields, PipeFields
<1> DEFINE e == <<>>
<1>2. e \in Seq(Procs)
  OBVIOUS
<1> HIDE DEF e
<1>3. ASSUME b = pipe_wake_all_readers(a, i)
      PROVE  /\ On(a, b, i, Readers(q))
             /\ Changes(q, b.pipe_table[i], q.open_read, q.open_write, e, q.wait_writers, q.eof)
  <2> DEFINE u == [q EXCEPT !.wait_readers = e]
             c == PipeIn(a, i, u)
  <2>1. Changes(q, u, q.open_read, q.open_write, e, q.wait_writers, q.eof)
    BY <1>1, <1>2, FieldChanges
  <2>2. b = unblock_all(c, q.wait_readers)
    BY <1>3 DEF pipe_wake_all_readers, PipeIn, e
  <2> HIDE DEF u, c
  <2>3. u \in PipeRecord
    BY <2>1 DEF Changes
  <2>4. On(a, c, i, {}) /\ c.pipe_table[i] = u
    BY <2>3, PipeInOn DEF c
  <2>5. On(c, b, i, Readers(q)) /\ b.pipe_table[i] = u
    <3>1. c \in PipeKernel
      BY <2>4 DEF On
    <3> DEFINE s == q.wait_readers
               W == Readers(q)
    <3>2. s \in Seq(Procs) /\ b = unblock_all(c, s) /\ \A p \in Procs : p \in W <=> InQueue(s, p)
      BY <1>1, <2>2 DEF Readers, Reads
    <3> HIDE DEF s, W
    <3>3. On(c, b, i, W) /\ b.pipe_table[i] = c.pipe_table[i]
      BY ONLY <3>1, <3>2, i \in Pipes, UnblockAll
    <3> QED BY <2>4, <3>3 DEF W
  <2>6. On(a, b, i, {} \cup Readers(q))
    BY <2>4, <2>5, OnTwice
  <2> QED BY <2>1, <2>5, <2>6
<1>4. ASSUME b = pipe_wake_all_writers(a, i)
      PROVE  /\ On(a, b, i, Writers(q))
             /\ Changes(q, b.pipe_table[i], q.open_read, q.open_write, q.wait_readers, e, q.eof)
  <2> DEFINE u == [q EXCEPT !.wait_writers = e]
             c == PipeIn(a, i, u)
  <2>1. Changes(q, u, q.open_read, q.open_write, q.wait_readers, e, q.eof)
    BY <1>1, <1>2, FieldChanges
  <2>2. b = unblock_all(c, q.wait_writers)
    BY <1>4 DEF pipe_wake_all_writers, PipeIn, e
  <2> HIDE DEF u, c
  <2>3. u \in PipeRecord
    BY <2>1 DEF Changes
  <2>4. On(a, c, i, {}) /\ c.pipe_table[i] = u
    BY <2>3, PipeInOn DEF c
  <2>5. On(c, b, i, Writers(q)) /\ b.pipe_table[i] = u
    <3>1. c \in PipeKernel
      BY <2>4 DEF On
    <3> DEFINE s == q.wait_writers
               W == Writers(q)
    <3>2. s \in Seq(Procs) /\ b = unblock_all(c, s) /\ \A p \in Procs : p \in W <=> InQueue(s, p)
      BY <1>1, <2>2 DEF Writers, Writes
    <3> HIDE DEF s, W
    <3>3. On(c, b, i, W) /\ b.pipe_table[i] = c.pipe_table[i]
      BY ONLY <3>1, <3>2, i \in Pipes, UnblockAll
    <3> QED BY <2>4, <3>3 DEF W
  <2>6. On(a, b, i, {} \cup Writers(q))
    BY <2>4, <2>5, OnTwice
  <2> QED BY <2>1, <2>5, <2>6
<1> QED BY <1>3, <1>4 DEF e

\* The queue s without its first, the only one in W, or an empty s.
FirstGone(s, r, W) == \/ r = s /\ W = {} /\ r = <<>>
                      \/ s # <<>> /\ r = queue_pop(s) /\ W = {Head(s)}

\* The first who waits for one end, if any, is woken.
LEMMA WakeOne ==
  ASSUME NEW a \in PipeKernel, NEW i \in Pipes, NEW q, q = a.pipe_table[i], NEW b
  PROVE  /\ b = pipe_wake_reader(a, i) => \E s \in Seq(Procs), W \in SUBSET Procs :
              /\ On(a, b, i, W)
              /\ Changes(q, b.pipe_table[i], q.open_read, q.open_write,
                         s, q.wait_writers, q.eof)
              /\ FirstGone(q.wait_readers, s, W)
         /\ b = pipe_wake_writer(a, i) => \E s \in Seq(Procs), W \in SUBSET Procs :
              /\ On(a, b, i, W)
              /\ Changes(q, b.pipe_table[i], q.open_read, q.open_write,
                         q.wait_readers, s, q.eof)
              /\ FirstGone(q.wait_writers, s, W)
<1>1. q \in PipeRecord /\ q.wait_readers \in Seq(Procs) /\ q.wait_writers \in Seq(Procs)
  BY KernelFields, PipeFields
<1>2. /\ On(a, a, i, {})
      /\ Changes(q, q, q.open_read, q.open_write, q.wait_readers, q.wait_writers, q.eof)
  <2>1. a.state = Woken(a.state, {})
    <3>1. a.state \in [Procs -> {"FREE", "READY", "BLOCKED"}]
      BY KernelFields
    <3> QED BY <3>1 DEF Woken
  <2> QED BY <1>1, <2>1 DEF On, Changes, SameRing
<1>3. \A s \in Seq(Procs) : s # <<>> => queue_pop(s) \in Seq(Procs) /\ Head(s) \in Procs
  BY DEF queue_pop
<1>4. ASSUME b = pipe_wake_reader(a, i), q.wait_readers # <<>>
      PROVE  /\ On(a, b, i, {Head(q.wait_readers)})
             /\ Changes(q, b.pipe_table[i], q.open_read, q.open_write,
                        queue_pop(q.wait_readers), q.wait_writers, q.eof)
  <2> DEFINE s == queue_pop(q.wait_readers)
             h == Head(q.wait_readers)
             u == [q EXCEPT !.wait_readers = s]
             c == PipeIn(a, i, u)
  <2>1. s \in Seq(Procs) /\ h \in Procs
    BY <1>1, <1>3, <1>4
  <2>2. b = process_unblock(c, h)
    BY <1>4 DEF pipe_wake_reader, PipeIn
  <2> HIDE DEF s, h
  <2>3. Changes(q, u, q.open_read, q.open_write, s, q.wait_writers, q.eof)
    BY <1>1, <2>1, FieldChanges
  <2> HIDE DEF u, c
  <2>4. u \in PipeRecord
    BY <2>3 DEF Changes
  <2>5. On(a, c, i, {}) /\ c.pipe_table[i] = u
    BY <2>4, PipeInOn DEF c
  <2>6. On(c, b, i, {h}) /\ b.pipe_table[i] = u
    <3>1. c \in PipeKernel
      BY <2>5 DEF On
    <3> QED BY <2>1, <2>2, <2>5, <3>1, Unblock
  <2>7. On(a, b, i, {} \cup {h})
    BY <2>5, <2>6, OnTwice
  <2> QED BY <2>3, <2>6, <2>7 DEF s, h
<1>5. ASSUME b = pipe_wake_writer(a, i), q.wait_writers # <<>>
      PROVE  /\ On(a, b, i, {Head(q.wait_writers)})
             /\ Changes(q, b.pipe_table[i], q.open_read, q.open_write,
                        q.wait_readers, queue_pop(q.wait_writers), q.eof)
  <2> DEFINE s == queue_pop(q.wait_writers)
             h == Head(q.wait_writers)
             u == [q EXCEPT !.wait_writers = s]
             c == PipeIn(a, i, u)
  <2>1. s \in Seq(Procs) /\ h \in Procs
    BY <1>1, <1>3, <1>5
  <2>2. b = process_unblock(c, h)
    BY <1>5 DEF pipe_wake_writer, PipeIn
  <2> HIDE DEF s, h
  <2>3. Changes(q, u, q.open_read, q.open_write, q.wait_readers, s, q.eof)
    BY <1>1, <2>1, FieldChanges
  <2> HIDE DEF u, c
  <2>4. u \in PipeRecord
    BY <2>3 DEF Changes
  <2>5. On(a, c, i, {}) /\ c.pipe_table[i] = u
    BY <2>4, PipeInOn DEF c
  <2>6. On(c, b, i, {h}) /\ b.pipe_table[i] = u
    <3>1. c \in PipeKernel
      BY <2>5 DEF On
    <3> QED BY <2>1, <2>2, <2>5, <3>1, Unblock
  <2>7. On(a, b, i, {} \cup {h})
    BY <2>5, <2>6, OnTwice
  <2> QED BY <2>3, <2>6, <2>7 DEF s, h
<1>6. b = pipe_wake_reader(a, i) /\ q.wait_readers = <<>> => b = a
  BY DEF pipe_wake_reader
<1>7. b = pipe_wake_writer(a, i) /\ q.wait_writers = <<>> => b = a
  BY DEF pipe_wake_writer
<1>8. /\ b = pipe_wake_reader(a, i) => \E s \in Seq(Procs), W \in SUBSET Procs :
           /\ On(a, b, i, W)
           /\ Changes(q, b.pipe_table[i], q.open_read, q.open_write, s, q.wait_writers, q.eof)
           /\ FirstGone(q.wait_readers, s, W)
  <2>1. CASE q.wait_readers = <<>>
    BY <1>1, <1>2, <1>6, <2>1 DEF FirstGone
  <2>2. CASE q.wait_readers # <<>>
    BY <1>1, <1>3, <1>4, <2>2 DEF FirstGone
  <2> QED BY <2>1, <2>2
<1>9. /\ b = pipe_wake_writer(a, i) => \E s \in Seq(Procs), W \in SUBSET Procs :
           /\ On(a, b, i, W)
           /\ Changes(q, b.pipe_table[i], q.open_read, q.open_write, q.wait_readers, s, q.eof)
           /\ FirstGone(q.wait_writers, s, W)
  <2>1. CASE q.wait_writers = <<>>
    BY <1>1, <1>2, <1>7, <2>1 DEF FirstGone
  <2>2. CASE q.wait_writers # <<>>
    BY <1>1, <1>3, <1>5, <2>2 DEF FirstGone
  <2> QED BY <2>1, <2>2
<1> QED BY <1>8, <1>9

(***************************************************************************)
(* The invariant, for one pipe and for the kernel                          *)
(***************************************************************************)
\* Nobody is queued twice, and whoever is queued can be woken.
QueueOK(q) ==
  /\ Injective(q.wait_readers) /\ Injective(q.wait_writers)
  /\ \A p \in Procs : /\ ~(Reads(q, p) /\ Writes(q, p))
                      /\ Reads(q, p) => ~at_eof(q)
                      /\ Writes(q, p) => q.open_read > 0 \/ (is_named(q) /\ ~q.eof)

\* What holds of every pipe.
Local(q) == RingOK(q) /\ QueueOK(q) /\ (~q.in_use => q = FreePipe)

\* At most one waits at each end, and has to.
Calm(q) ==
  /\ Len(q.wait_readers) <= 1 /\ Len(q.wait_writers) <= 1
  /\ \A p \in Procs : /\ Reads(q, p) => q.count = 0
                      /\ Writes(q, p) => q.count = PIPE_BUFFER_SIZE \/ q.open_read = 0

\* p is in a queue of the pipe.
Waits(q, p) == Reads(q, p) \/ Writes(q, p)

\* Who sleeps is in the queue of one pipe, except for the processes fr, which
\* are in none.
SleepOK(a, fr) ==
  /\ \A i \in Pipes, p \in Procs : Waits(a.pipe_table[i], p) =>
       /\ a.state[p] = "BLOCKED" /\ p \notin fr
       /\ \A j \in Pipes \ {i} : ~Waits(a.pipe_table[j], p)
  /\ \A p \in Procs : a.state[p] = "BLOCKED" /\ p \notin fr =>
       \E i \in Pipes : Waits(a.pipe_table[i], p)

\* A count of references to sets of descriptors.
Measure(N) ==
  /\ N \in [SUBSET FDs -> Nat] /\ N[{}] = 0
  /\ \A T \in SUBSET FDs : \A f \in T : N[T] = N[T \ {f}] + N[{f}]

\* The descriptors of pipe i of a type.
Ends(a, i, type) == {f \in FDs : a.fd_table[f].type = type /\ a.fd_table[f].data = i}

\* Descriptor f is d, with n references.
DescriptorOK(f, d, n) ==
  /\ f \in {0, 1} <=> d.type = "TERMINAL"
  /\ d.type \in {"PIPE_READ", "PIPE_WRITE"} => d.data \in Pipes
  /\ d.type = "NONE" => n = 0
  /\ d.refcount = n

\* N counts the references the tables know of.
TablesOK(a, N) ==
  /\ \A f \in FDs : DescriptorOK(f, a.fd_table[f], N[{f}])
  /\ \A i \in Pipes : /\ a.pipe_table[i].open_read = N[Ends(a, i, "PIPE_READ")]
                      /\ a.pipe_table[i].open_write = N[Ends(a, i, "PIPE_WRITE")]

\* For whoever waits there is a reference to the end it waits for.
HeldOK(a, N) == \A i \in Pipes, p \in Procs :
  /\ Reads(a.pipe_table[i], p) => \E f \in Ends(a, i, "PIPE_READ") : N[{f}] > 0
  /\ Writes(a.pipe_table[i], p) => \E f \in Ends(a, i, "PIPE_WRITE") : N[{f}] > 0

\* A pipe is in use as long as an end is open, and without one if it is in L.
UseOK(q, leak) == /\ q.in_use <=> q.open_read > 0 \/ q.open_write > 0 \/ leak
                  /\ leak => q.open_read = 0 /\ q.open_write = 0

\* What holds of the kernel's tables, with the references N, the processes fr that have
\* not started, the leaked pipes L and the crowded ones C.
KInv(a, N, fr, L, C) ==
  /\ a \in PipeKernel /\ Measure(N)
  /\ \A i \in Pipes : /\ Local(a.pipe_table[i])
                      /\ i \notin C => Calm(a.pipe_table[i])
                      /\ UseOK(a.pipe_table[i], i \in L)
  /\ SleepOK(a, fr) /\ TablesOK(a, N) /\ HeldOK(a, N)

\* References to a set of descriptors: from the tables fd of the PCBs, and those given to
\* the processes themselves, G.
RefsOf(fd, G) ==
  [T \in SUBSET FDs |-> Cardinality({u \in Procs \X (0 .. 1) : fd[u[1]][u[2]] \in T})
                          + Cardinality(G \cap T)]

\* p has descriptor f as its own.
Owns(fd, rw, p, f) == f \in rw[p] \/ fd[p][0] = f \/ fd[p][1] = f

\* Whoever waits owns the end it waits for.
WaitersOwn(a, fd, rw) == \A i \in Pipes, p \in Procs :
  /\ Reads(a.pipe_table[i], p) => \E f \in Ends(a, i, "PIPE_READ") : Owns(fd, rw, p, f)
  /\ Writes(a.pipe_table[i], p) => \E f \in Ends(a, i, "PIPE_WRITE") : Owns(fd, rw, p, f)

\* No descriptor was given to two.
Apart(rw, lost) == \A p \in Procs : /\ rw[p] \cap lost = {}
                                    /\ \A q \in Procs \ {p} : rw[p] \cap rw[q] = {}

\* The processes fr have not started.
FreshOK(a, fr) == fr \subseteq Procs /\ \A p \in fr : a.state[p] = "BLOCKED"

\* A process has standard input and output, a free slot has not.
FreeOK(a) == \A p \in Procs, s \in 0 .. 1 : a.state[p] = "FREE" <=> a.fd[p][s] = NoFD

\* rw says what the processes were given, and lost what nobody will close.
OwnersOK(a, rw, fr, lost) ==
  /\ rw \in [Procs -> SUBSET FDs] /\ lost \subseteq FDs /\ Apart(rw, lost)
  /\ FreshOK(a, fr) /\ FreeOK(a) /\ WaitersOwn(a, a.fd, rw)

\* The inductive invariant.
PipeInv == /\ KInv(k, RefsOf(k.fd, Given), fresh, leaked, crowded)
           /\ OwnersOK(k, raw, fresh, orphans)

(***************************************************************************)
(* One pipe                                                                *)
(***************************************************************************)
\* From q to u the processes W leave the queues, nobody else does, and what holds
\* of a pipe is kept.
Settles(q, u, W) ==
  /\ u \in PipeRecord /\ Local(u) /\ (Calm(q) => Calm(u))
  /\ W \subseteq Procs
  /\ \A p \in Procs : /\ p \in W => Waits(q, p)
                      /\ Reads(u, p) <=> Reads(q, p) /\ p \notin W
                      /\ Writes(u, p) <=> Writes(q, p) /\ p \notin W

\* The bytes are in order whatever else changes in the pipe.
LEMMA SameRingOK ==
  ASSUME NEW q, NEW u, RingOK(q), SameRing(q, u)
  PROVE  RingOK(u)
BY DEF RingOK, SameRing

\* The empty queue.
LEMMA NobodyWaits ==
  /\ <<>> \in Seq(Procs) /\ Injective(<<>>) /\ Len(<<>>) = 0 /\ \A p : ~InQueue(<<>>, p)
BY DEF Injective, InQueue

\* A queue that is not empty has somebody in it.
LEMMA SomebodyWaits ==
  ASSUME NEW s \in Seq(Procs)
  PROVE  /\ s # <<>> => \E p \in Procs : InQueue(s, p)
         /\ Len(s) \in Nat /\ (Len(s) = 0 <=> s = <<>>)
<1>1. Len(s) \in Nat /\ (Len(s) = 0 <=> s = <<>>)
  OBVIOUS
<1>2. s # <<>> => s[1] \in Procs /\ 1 \in 1 .. Len(s)
  OBVIOUS
<1> QED BY <1>1, <1>2 DEF InQueue

\* A pipe that has been given back.
LEMMA FreePipeOK ==
  /\ FreePipe \in PipeRecord /\ Local(FreePipe) /\ Calm(FreePipe)
  /\ FreePipe.open_read = 0 /\ FreePipe.open_write = 0 /\ ~FreePipe.in_use
  /\ FreePipe.count = 0 /\ \A p : ~Reads(FreePipe, p) /\ ~Writes(FreePipe, p)
<1>1. /\ PIPE_BUFFER_SIZE \in Nat \ {0} /\ Stream \in Nat \ {0}
      /\ 0 \in Cells /\ Stale \in 0 .. Stream /\ 0 \in 0 .. Stream - 1 /\ 0 \in 0 .. MaxOpens
  BY PipeAssumption DEF Cells, Stale, MaxOpens
<1>2. FreePipe \in PipeRecord
  BY <1>1, NobodyWaits DEF FreePipe, PipeRecord
<1>3. /\ FreePipe.open_read = 0 /\ FreePipe.open_write = 0 /\ ~FreePipe.in_use
      /\ FreePipe.count = 0 /\ FreePipe.wait_readers = <<>> /\ FreePipe.wait_writers = <<>>
      /\ FreePipe.sent = 0 /\ FreePipe.got = 0 /\ FreePipe.read_idx = 0 /\ FreePipe.write_idx = 0
  BY DEF FreePipe
<1>4. \A p : ~Reads(FreePipe, p) /\ ~Writes(FreePipe, p)
  BY <1>3, NobodyWaits DEF Reads, Writes
<1>5. RingOK(FreePipe)
  <2>1. (0 + 0) % Stream = 0 /\ (0 + 0) % PIPE_BUFFER_SIZE = 0
    BY <1>1
  <2> QED BY <1>1, <1>3, <2>1 DEF RingOK
<1>6. QueueOK(FreePipe)
  BY <1>3, <1>4, NobodyWaits DEF QueueOK
<1>7. Calm(FreePipe)
  BY <1>3, <1>4, NobodyWaits DEF Calm
<1> QED BY <1>2, <1>3, <1>4, <1>5, <1>6, <1>7 DEF Local

\* Ends and eof may change, and all who wait at one end may be woken, as long as
\* the ones who stay can still be woken, and writers do not miss a first reader.
LEMMA Settled ==
  ASSUME NEW q \in PipeRecord, Local(q), q.in_use, NEW u, NEW nr \in Nat, NEW nw \in Nat,
         NEW rs, NEW ws, NEW e, NEW W, Changes(q, u, nr, nw, rs, ws, e),
         \/ rs = q.wait_readers /\ ws = q.wait_writers /\ W = {}
         \/ rs = <<>> /\ ws = q.wait_writers /\ W = Readers(q)
         \/ rs = q.wait_readers /\ ws = <<>> /\ W = Writers(q),
         \A p \in Procs : /\ Reads(u, p) => ~at_eof(u)
                          /\ Writes(u, p) => nr > 0 \/ (is_named(u) /\ ~u.eof)
                          /\ Writes(u, p) => nr = 0 \/ q.open_read > 0
  PROVE  Settles(q, u, W)
<1>1. /\ q.wait_readers \in Seq(Procs) /\ q.wait_writers \in Seq(Procs)
      /\ Injective(q.wait_readers) /\ Injective(q.wait_writers) /\ q.open_read \in Nat
      /\ Len(q.wait_readers) \in Nat /\ Len(q.wait_writers) \in Nat
      /\ \A p \in Procs : ~(Reads(q, p) /\ Writes(q, p))
  BY PipeFields, SomebodyWaits DEF Local, QueueOK
<1>2. /\ u \in PipeRecord /\ u.wait_readers = rs /\ u.wait_writers = ws /\ u.in_use
      /\ u.open_read = nr /\ u.count = q.count
  BY DEF Changes, SameRing
<1>3. \A p \in Procs : /\ p \in W => Waits(q, p)
                       /\ Reads(u, p) <=> Reads(q, p) /\ p \notin W
                       /\ Writes(u, p) <=> Writes(q, p) /\ p \notin W
  BY <1>1, <1>2, NobodyWaits DEF Reads, Writes, Readers, Writers, Waits
<1>4. /\ W \subseteq Procs /\ Injective(rs) /\ Injective(ws)
      /\ Len(rs) \in Nat /\ Len(rs) <= Len(q.wait_readers)
      /\ Len(ws) \in Nat /\ Len(ws) <= Len(q.wait_writers)
  BY <1>1, NobodyWaits DEF Readers, Writers
<1>5. QueueOK(u)
  BY <1>1, <1>2, <1>3, <1>4 DEF QueueOK
<1>6. RingOK(u)
  BY SameRingOK DEF Changes, Local
<1>7. ASSUME Calm(q) PROVE Calm(u)
  <2>1. Len(rs) <= 1 /\ Len(ws) <= 1
    BY <1>1, <1>4, <1>7 DEF Calm
  <2>2. ASSUME NEW p \in Procs, Reads(u, p) PROVE u.count = 0
    BY <1>2, <1>3, <1>7, <2>2 DEF Calm
  <2>3. ASSUME NEW p \in Procs, Writes(u, p) PROVE u.count = PIPE_BUFFER_SIZE \/ u.open_read = 0
    BY <1>1, <1>2, <1>3, <1>7, <2>3 DEF Calm
  <2> QED BY <1>2, <2>1, <2>2, <2>3 DEF Calm
<1> QED BY <1>2, <1>3, <1>4, <1>5, <1>6, <1>7 DEF Settles, Local

\* The second of two changes of a pipe is the one seen.
LEMMA ChangesTwice ==
  ASSUME NEW q, NEW v, NEW u, NEW nr, NEW nw, NEW rs, NEW ws, NEW e,
         NEW nr1, NEW nw1, NEW rs1, NEW ws1, NEW e1,
         Changes(q, v, nr1, nw1, rs1, ws1, e1), Changes(v, u, nr, nw, rs, ws, e)
  PROVE  Changes(q, u, nr, nw, rs, ws, e)
BY DEF Changes, SameRing

\* One field of one pipe, and then all who wait at one end, or nobody.
LEMMA ThenWake ==
  ASSUME NEW a \in PipeKernel, NEW i \in Pipes, NEW q, q = a.pipe_table[i],
         NEW v, NEW nr, NEW nw, NEW e,
         Changes(q, v, nr, nw, q.wait_readers, q.wait_writers, e),
         NEW c, c = PipeIn(a, i, v), NEW b
  PROVE  /\ b = c =>
              /\ On(a, b, i, {})
              /\ Changes(q, b.pipe_table[i], nr, nw, q.wait_readers, q.wait_writers, e)
         /\ b = pipe_wake_all_readers(c, i) =>
              /\ On(a, b, i, Readers(q))
              /\ Changes(q, b.pipe_table[i], nr, nw, <<>>, q.wait_writers, e)
         /\ b = pipe_wake_all_writers(c, i) =>
              /\ On(a, b, i, Writers(q))
              /\ Changes(q, b.pipe_table[i], nr, nw, q.wait_readers, <<>>, e)
<1>1. /\ v \in PipeRecord /\ v.open_read = nr /\ v.open_write = nw /\ v.eof = e
      /\ v.wait_readers = q.wait_readers /\ v.wait_writers = q.wait_writers
  BY DEF Changes
<1>2. On(a, c, i, {}) /\ c.pipe_table[i] = v /\ c \in PipeKernel
  BY <1>1, PipeInOn DEF On
<1>3. Readers(v) = Readers(q) /\ Writers(v) = Writers(q)
  BY <1>1 DEF Readers, Writers, Reads, Writes
<1>4. ASSUME b = pipe_wake_all_readers(c, i)
      PROVE  /\ On(a, b, i, Readers(q))
             /\ Changes(q, b.pipe_table[i], nr, nw, <<>>, q.wait_writers, e)
  <2>1. /\ On(c, b, i, Readers(v))
        /\ Changes(v, b.pipe_table[i], nr, nw, <<>>, q.wait_writers, e)
    BY <1>1, <1>2, <1>4, WakeAll
  <2>2. On(a, b, i, {} \cup Readers(v))
    BY <1>2, <2>1, OnTwice
  <2>3. Changes(q, b.pipe_table[i], nr, nw, <<>>, q.wait_writers, e)
    BY <2>1, ChangesTwice
  <2> QED BY <1>3, <2>2, <2>3
<1>5. ASSUME b = pipe_wake_all_writers(c, i)
      PROVE  /\ On(a, b, i, Writers(q))
             /\ Changes(q, b.pipe_table[i], nr, nw, q.wait_readers, <<>>, e)
  <2>1. /\ On(c, b, i, Writers(v))
        /\ Changes(v, b.pipe_table[i], nr, nw, q.wait_readers, <<>>, e)
    BY <1>1, <1>2, <1>5, WakeAll
  <2>2. On(a, b, i, {} \cup Writers(v))
    BY <1>2, <2>1, OnTwice
  <2>3. Changes(q, b.pipe_table[i], nr, nw, q.wait_readers, <<>>, e)
    BY <2>1, ChangesTwice
  <2> QED BY <1>3, <2>2, <2>3
<1> QED BY <1>2, <1>4, <1>5

\* pipe_open_read: writers of a named pipe have somebody to write to.
LEMMA OpenRead ==
  ASSUME NEW a \in PipeKernel, NEW i \in Pipes, NEW q, q = a.pipe_table[i], Local(q), q.in_use,
         NEW b, b = pipe_open_read(a, i)
  PROVE  \E W : /\ On(a, b, i, W) /\ Settles(q, b.pipe_table[i], W)
                /\ b.pipe_table[i].open_read = q.open_read + 1
                /\ b.pipe_table[i].open_write = q.open_write /\ b.pipe_table[i].in_use
<1> DEFINE n == q.open_read + 1
           v == [q EXCEPT !.open_read = n]
           c == PipeIn(a, i, v)
<1>1. q \in PipeRecord /\ q.open_read \in Nat /\ q.open_write \in Nat /\ n \in Nat /\ n > 0
  BY KernelFields, PipeFields
<1>2. Changes(q, v, n, q.open_write, q.wait_readers, q.wait_writers, q.eof)
  <2> HIDE DEF n
  <2> QED BY <1>1, FieldChanges
<1>3. b = IF is_named(v) THEN pipe_wake_all_writers(c, i) ELSE c
  <2>1. c = [a EXCEPT !.pipe_table[i].open_read = @ + 1] /\ c.pipe_table[i] = v
    BY KernelFields DEF PipeIn, PipeKernel
  <2> HIDE DEF c, v
  <2> QED BY <2>1 DEF pipe_open_read
<1>4. is_named(v) <=> is_named(q)
  BY <1>2 DEF Changes, is_named
<1> HIDE DEF n, v, c
<1>5. CASE is_named(q)
  <2> DEFINE u == b.pipe_table[i]
  <2>1. On(a, b, i, Writers(q)) /\ Changes(q, u, n, q.open_write, q.wait_readers, <<>>, q.eof)
    BY <1>2, <1>3, <1>4, <1>5, ThenWake DEF c
  <2> HIDE DEF u
  <2>2. ASSUME NEW p \in Procs PROVE (Reads(u, p) => ~at_eof(u)) /\ ~Writes(u, p)
    BY <2>1, NobodyWaits DEF Changes, Reads, Writes, at_eof, is_named, Local, QueueOK
  <2>3. Settles(q, u, Writers(q))
    BY <1>1, <2>1, <2>2, Settled
  <2> QED BY <2>1, <2>3 DEF Changes, u, n
<1>6. CASE ~is_named(q)
  <2> DEFINE u == b.pipe_table[i]
  <2>1. On(a, b, i, {}) /\ Changes(q, u, n, q.open_write, q.wait_readers, q.wait_writers, q.eof)
    BY <1>2, <1>3, <1>4, <1>6, ThenWake DEF c
  <2> HIDE DEF u
  <2>2. ASSUME NEW p \in Procs
        PROVE  (Reads(u, p) => ~at_eof(u)) /\ (Writes(u, p) => q.open_read > 0)
    BY <1>6, <2>1 DEF Changes, Reads, Writes, at_eof, is_named, Local, QueueOK
  <2>3. Settles(q, u, {})
    BY <1>1, <2>1, <2>2, Settled
  <2> QED BY <2>1, <2>3 DEF Changes, u, n
<1> QED BY <1>5, <1>6

\* pipe_open_write: readers of a named pipe have somebody to read from, and its end
\* of file is over.
LEMMA OpenWrite ==
  ASSUME NEW a \in PipeKernel, NEW i \in Pipes, NEW q, q = a.pipe_table[i], Local(q), q.in_use,
         NEW b, b = pipe_open_write(a, i)
  PROVE  \E W : /\ On(a, b, i, W) /\ Settles(q, b.pipe_table[i], W)
                /\ b.pipe_table[i].open_write = q.open_write + 1
                /\ b.pipe_table[i].open_read = q.open_read /\ b.pipe_table[i].in_use
<1> DEFINE n == q.open_write + 1
           v == [q EXCEPT !.open_write = n]
           c == PipeIn(a, i, v)
           w == [v EXCEPT !.eof = FALSE]
           d == PipeIn(a, i, w)
<1>1. q \in PipeRecord /\ q.open_read \in Nat /\ q.open_write \in Nat /\ n \in Nat /\ n > 0
  BY KernelFields, PipeFields
<1>2. Changes(q, v, q.open_read, n, q.wait_readers, q.wait_writers, q.eof)
  <2> HIDE DEF n
  <2> QED BY <1>1, FieldChanges
<1>3. b = IF is_named(v) THEN pipe_wake_all_readers(d, i) ELSE c
  <2>1. c = [a EXCEPT !.pipe_table[i].open_write = @ + 1] /\ c.pipe_table[i] = v
    BY KernelFields DEF PipeIn, PipeKernel
  <2>2. d = [c EXCEPT !.pipe_table[i].eof = FALSE]
    BY KernelFields DEF PipeIn, PipeKernel
  <2> DEFINE b1(x) == IF is_named(x.pipe_table[i])
                      THEN pipe_wake_all_readers([x EXCEPT !.pipe_table[i].eof = FALSE], i) ELSE x
  <2>3. b = b1([a EXCEPT !.pipe_table[i].open_write = @ + 1])
    BY ONLY b = pipe_open_write(a, i) DEF pipe_open_write
  <2>4. b = b1(c)
    <3> HIDE DEF b1, c, v, d
    <3> QED BY ONLY <2>1, <2>3
  <2> HIDE DEF c, v, d
  <2> QED BY ONLY <2>1, <2>2, <2>4
<1>4. is_named(v) <=> is_named(q)
  BY <1>2 DEF Changes, is_named
<1> HIDE DEF n, v, c
<1>5. CASE is_named(q)
  <2> DEFINE u == b.pipe_table[i]
  <2>1. v \in PipeRecord /\ Changes(v, w, v.open_read, v.open_write, v.wait_readers, v.wait_writers, FALSE)
    BY <1>2, FieldChanges DEF Changes
  <2> HIDE DEF w, d
  <2>2. Changes(q, w, q.open_read, n, q.wait_readers, q.wait_writers, FALSE)
    BY <1>2, <2>1 DEF Changes, SameRing
  <2>3. On(a, b, i, Readers(q)) /\ Changes(q, u, q.open_read, n, <<>>, q.wait_writers, FALSE)
    BY <1>3, <1>4, <1>5, <2>2, ThenWake DEF d
  <2> HIDE DEF u
  <2>4. ASSUME NEW p \in Procs
        PROVE  /\ ~Reads(u, p) /\ (Writes(u, p) => q.open_read > 0 \/ (is_named(u) /\ ~u.eof))
               /\ q.open_read = 0 \/ q.open_read > 0
    BY <1>1, <1>5, <2>3, NobodyWaits DEF Changes, Reads, Writes, is_named, Local, QueueOK
  <2>5. Changes(q, u, q.open_read, n, <<>>, q.wait_writers, u.eof)
    BY <2>3 DEF Changes
  <2>6. Settles(q, u, Readers(q))
    BY <1>1, <2>4, <2>5, Settled
  <2> QED BY <2>3, <2>6 DEF Changes, u, n
<1>6. CASE ~is_named(q)
  <2> DEFINE u == b.pipe_table[i]
  <2>1. On(a, b, i, {}) /\ Changes(q, u, q.open_read, n, q.wait_readers, q.wait_writers, q.eof)
    BY <1>2, <1>3, <1>4, <1>6, ThenWake DEF c
  <2> HIDE DEF u
  <2>2. ASSUME NEW p \in Procs
        PROVE  (Reads(u, p) => ~at_eof(u)) /\ (Writes(u, p) => q.open_read > 0)
    BY <1>1, <1>6, <2>1 DEF Changes, Reads, Writes, at_eof, is_named, Local, QueueOK
  <2>3. Settles(q, u, {})
    BY <1>1, <2>1, <2>2, Settled
  <2> QED BY <2>1, <2>3 DEF Changes, u, n
<1> QED BY <1>5, <1>6

\* pipe_maybe_free gives a pipe back whose ends are both closed.
LEMMA MaybeFree ==
  ASSUME NEW a \in PipeKernel, NEW i \in Pipes, NEW q, q = a.pipe_table[i], q.in_use,
         NEW c, NEW W, On(a, c, i, W), Settles(q, c.pipe_table[i], W), c.pipe_table[i].in_use,
         \A p \in Procs : /\ Reads(c.pipe_table[i], p) => c.pipe_table[i].open_read > 0
                          /\ Writes(c.pipe_table[i], p) => c.pipe_table[i].open_write > 0,
         NEW b, b = pipe_maybe_free(c, i)
  PROVE  /\ On(a, b, i, W) /\ Settles(q, b.pipe_table[i], W)
         /\ b.pipe_table[i].open_read = c.pipe_table[i].open_read
         /\ b.pipe_table[i].open_write = c.pipe_table[i].open_write
         /\ b.pipe_table[i].in_use <=> \/ c.pipe_table[i].open_read > 0
                                       \/ c.pipe_table[i].open_write > 0
<1> DEFINE u == c.pipe_table[i]
<1>1. c \in PipeKernel /\ u \in PipeRecord /\ u.open_read \in Nat /\ u.open_write \in Nat
  BY KernelFields, PipeFields DEF On
<1>2. CASE u.open_read = 0 /\ u.open_write = 0
  <2>1. b = PipeIn(c, i, FreePipe)
    <3>1. [pipe_reset(u) EXCEPT !.in_use = FALSE] = FreePipe
      <4>1. FreePipe \in PipeRecord /\ FreePipe.in_use = FALSE
        BY FreePipeOK DEF FreePipe
      <4> QED BY ONLY <4>1 DEF pipe_reset, PipeRecord
    <3> QED BY <1>2, <3>1 DEF pipe_maybe_free, PipeIn
  <2>2. On(c, b, i, {}) /\ b.pipe_table[i] = FreePipe
    BY <1>1, <2>1, FreePipeOK, PipeInOn
  <2>3. On(a, b, i, W \cup {})
    BY <2>2, OnTwice
  <2>4. \A p \in Procs : ~Reads(u, p) /\ ~Writes(u, p)
    BY <1>2
  <2>5. Settles(q, FreePipe, W)
    <3> HIDE DEF u
    <3>1. Settles(q, u, W)
      BY DEF u
    <3> QED BY <2>4, <3>1, FreePipeOK DEF Settles
  <2> QED BY <1>2, <2>2, <2>3, <2>5, FreePipeOK
<1>3. CASE ~(u.open_read = 0 /\ u.open_write = 0)
  <2>1. b = c
    BY <1>3 DEF pipe_maybe_free
  <2>2. u.open_read > 0 \/ u.open_write > 0
    BY <1>1, <1>3
  <2> QED BY <2>1, <2>2
<1> QED BY <1>2, <1>3

\* pipe_close_read: writers learn that nobody reads any more.
LEMMA CloseRead ==
  ASSUME NEW a \in PipeKernel, NEW i \in Pipes, NEW q, q = a.pipe_table[i], Local(q), q.in_use,
         q.open_read > 0,
         \A p \in Procs : /\ Reads(q, p) => q.open_read > 1
                          /\ Writes(q, p) => q.open_write > 0,
         NEW b, b = pipe_close_read(a, i)
  PROVE  \E W : /\ On(a, b, i, W) /\ Settles(q, b.pipe_table[i], W)
                /\ b.pipe_table[i].open_read = q.open_read - 1
                /\ b.pipe_table[i].open_write = q.open_write
                /\ b.pipe_table[i].in_use <=> \/ b.pipe_table[i].open_read > 0
                                              \/ b.pipe_table[i].open_write > 0
<1> DEFINE n == q.open_read - 1
           v == [q EXCEPT !.open_read = n]
           c == PipeIn(a, i, v)
           x == IF n = 0 THEN pipe_wake_all_writers(c, i) ELSE c
           u == x.pipe_table[i]
<1>1. /\ q \in PipeRecord /\ q.open_read \in Nat /\ q.open_write \in Nat
      /\ n \in Nat /\ (n = 0 <=> ~(n > 0)) /\ (q.open_read > 1 <=> n > 0)
  BY KernelFields, PipeFields
<1>2. Changes(q, v, n, q.open_write, q.wait_readers, q.wait_writers, q.eof)
  <2> HIDE DEF n
  <2> QED BY <1>1, FieldChanges
<1>3. b = pipe_maybe_free(x, i)
  <2>1. /\ c = [a EXCEPT !.pipe_table[i].open_read = IF @ > 0 THEN @ - 1 ELSE @]
        /\ c.pipe_table[i] = v /\ v.open_read = n
    BY <1>1, KernelFields DEF PipeIn, PipeKernel, PipeRecord
  <2> DEFINE b1(y) == pipe_maybe_free(IF y.pipe_table[i].open_read = 0
                                      THEN pipe_wake_all_writers(y, i) ELSE y, i)
  <2>2. b = b1([a EXCEPT !.pipe_table[i].open_read = IF @ > 0 THEN @ - 1 ELSE @])
    BY ONLY b = pipe_close_read(a, i) DEF pipe_close_read
  <2>3. b = b1(c)
    <3> HIDE DEF b1, c, v
    <3> QED BY ONLY <2>1, <2>2
  <2> HIDE DEF c, v, n
  <2> QED BY ONLY <2>1, <2>3
<1> HIDE DEF n, v, c
<1>4. \E W : On(a, x, i, W) /\ Settles(q, u, W)
             /\ \E rs, ws : Changes(q, u, n, q.open_write, rs, ws, q.eof)
  <2>1. CASE n = 0
    <3>1. On(a, x, i, Writers(q)) /\ Changes(q, u, n, q.open_write, q.wait_readers, <<>>, q.eof)
      BY <1>2, <2>1, ThenWake DEF c
    <3> HIDE DEF u, x
    <3>2. ASSUME NEW p \in Procs PROVE ~Reads(u, p) /\ ~Writes(u, p)
      BY <1>1, <2>1, <3>1, NobodyWaits DEF Changes, Reads, Writes
    <3>3. Settles(q, u, Writers(q))
      BY <1>1, <3>1, <3>2, Settled
    <3> QED BY <3>1, <3>3
  <2>2. CASE n # 0
    <3>1. On(a, x, i, {}) /\ Changes(q, u, n, q.open_write, q.wait_readers, q.wait_writers, q.eof)
      BY <1>2, <2>2, ThenWake DEF c
    <3> HIDE DEF u, x
    <3>2. ASSUME NEW p \in Procs PROVE (Reads(u, p) => ~at_eof(u)) /\ n > 0 /\ q.open_read > 0
      BY <1>1, <2>2, <3>1 DEF Changes, Reads, Writes, at_eof, is_named, Local, QueueOK
    <3>3. Settles(q, u, {})
      BY <1>1, <3>1, <3>2, Settled
    <3> QED BY <3>1, <3>3
  <2> QED BY <2>1, <2>2
<1> HIDE DEF x
<1>5. PICK W : On(a, x, i, W) /\ Settles(q, u, W)
               /\ \E rs, ws : Changes(q, u, n, q.open_write, rs, ws, q.eof)
  BY <1>4
<1> HIDE DEF u
<1>6. u.open_read = n /\ u.open_write = q.open_write /\ u.in_use
  BY <1>5 DEF Changes
<1>7. \A p \in Procs : (Reads(u, p) => u.open_read > 0) /\ (Writes(u, p) => u.open_write > 0)
  BY <1>1, <1>5, <1>6 DEF Settles
<1>8. /\ On(a, b, i, W) /\ Settles(q, b.pipe_table[i], W)
      /\ b.pipe_table[i].open_read = u.open_read /\ b.pipe_table[i].open_write = u.open_write
      /\ b.pipe_table[i].in_use <=> u.open_read > 0 \/ u.open_write > 0
  BY <1>3, <1>5, <1>6, <1>7, MaybeFree DEF u
<1> QED BY <1>6, <1>8 DEF n

\* pipe_close_write: readers learn that nobody writes any more.
LEMMA CloseWrite ==
  ASSUME NEW a \in PipeKernel, NEW i \in Pipes, NEW q, q = a.pipe_table[i], Local(q), q.in_use,
         q.open_write > 0,
         \A p \in Procs : /\ Reads(q, p) => q.open_read > 0
                          /\ Writes(q, p) => q.open_write > 1,
         NEW b, b = pipe_close_write(a, i)
  PROVE  \E W : /\ On(a, b, i, W) /\ Settles(q, b.pipe_table[i], W)
                /\ b.pipe_table[i].open_write = q.open_write - 1
                /\ b.pipe_table[i].open_read = q.open_read
                /\ b.pipe_table[i].in_use <=> \/ b.pipe_table[i].open_read > 0
                                              \/ b.pipe_table[i].open_write > 0
<1> DEFINE n == q.open_write - 1
           v == [q EXCEPT !.open_write = n]
           c == PipeIn(a, i, v)
           e == v.eof \/ (is_named(v) /\ v.opens >= 2)
           w == [v EXCEPT !.eof = e]
           d == PipeIn(a, i, w)
           x == IF n = 0 THEN pipe_wake_all_readers(d, i) ELSE c
           u == x.pipe_table[i]
<1>1. /\ q \in PipeRecord /\ q.open_read \in Nat /\ q.open_write \in Nat
      /\ n \in Nat /\ (n = 0 <=> ~(n > 0)) /\ (q.open_write > 1 <=> n > 0)
  BY KernelFields, PipeFields
<1>2. Changes(q, v, q.open_read, n, q.wait_readers, q.wait_writers, q.eof)
  <2> HIDE DEF n
  <2> QED BY <1>1, FieldChanges
<1>3. b = pipe_maybe_free(x, i)
  <2>1. /\ c = [a EXCEPT !.pipe_table[i].open_write = IF @ > 0 THEN @ - 1 ELSE @]
        /\ c.pipe_table[i] = v /\ v.open_write = n
    BY <1>1, KernelFields DEF PipeIn, PipeKernel, PipeRecord
  <2>2. d = [c EXCEPT !.pipe_table[i].eof = @ \/ (is_named(v) /\ v.opens >= 2)]
    BY KernelFields DEF PipeIn, PipeKernel
  <2> DEFINE b1(y) == LET q1 == y.pipe_table[i]
                          k2 == [y EXCEPT !.pipe_table[i].eof = @ \/ (is_named(q1) /\ q1.opens >= 2)]
                      IN pipe_maybe_free(IF q1.open_write = 0
                                         THEN pipe_wake_all_readers(k2, i) ELSE y, i)
  <2>3. b = b1([a EXCEPT !.pipe_table[i].open_write = IF @ > 0 THEN @ - 1 ELSE @])
    BY ONLY b = pipe_close_write(a, i) DEF pipe_close_write
  <2>4. b = b1(c)
    <3> HIDE DEF b1, c, v
    <3> QED BY ONLY <2>1, <2>3
  <2> HIDE DEF c, v, n, d
  <2> QED BY ONLY <2>1, <2>2, <2>4
<1> HIDE DEF n, v, c
<1>4. \E W : On(a, x, i, W) /\ Settles(q, u, W)
             /\ \E rs, ws, e1 : Changes(q, u, q.open_read, n, rs, ws, e1)
  <2>1. CASE n = 0
    <3>1. v \in PipeRecord /\ e \in BOOLEAN
      BY <1>2, PipeFields DEF Changes
    <3> HIDE DEF e
    <3>2. Changes(v, w, v.open_read, v.open_write, v.wait_readers, v.wait_writers, e)
      BY <3>1, FieldChanges
    <3> HIDE DEF w, d
    <3>3. Changes(q, w, q.open_read, n, q.wait_readers, q.wait_writers, e)
      BY <1>2, <3>2 DEF Changes, SameRing
    <3>4. On(a, x, i, Readers(q)) /\ Changes(q, u, q.open_read, n, <<>>, q.wait_writers, e)
      BY <2>1, <3>3, ThenWake DEF d
    <3> HIDE DEF u, x
    <3>5. ASSUME NEW p \in Procs PROVE ~Reads(u, p) /\ ~Writes(u, p)
      BY <1>1, <2>1, <3>4, NobodyWaits DEF Changes, Reads, Writes
    <3>6. Settles(q, u, Readers(q))
      BY <1>1, <3>4, <3>5, Settled
    <3> QED BY <3>4, <3>6
  <2>2. CASE n # 0
    <3>1. On(a, x, i, {}) /\ Changes(q, u, q.open_read, n, q.wait_readers, q.wait_writers, q.eof)
      BY <1>2, <2>2, ThenWake DEF c
    <3> HIDE DEF u, x
    <3>2. ASSUME NEW p \in Procs
          PROVE  /\ Reads(u, p) => ~at_eof(u)
                 /\ Writes(u, p) => q.open_read > 0 \/ (is_named(u) /\ ~u.eof)
                 /\ q.open_read = 0 \/ q.open_read > 0
      BY <1>1, <2>2, <3>1 DEF Changes, Reads, Writes, at_eof, is_named, Local, QueueOK
    <3>3. Settles(q, u, {})
      BY <1>1, <3>1, <3>2, Settled
    <3> QED BY <3>1, <3>3
  <2> QED BY <2>1, <2>2
<1> HIDE DEF x
<1>5. PICK W : On(a, x, i, W) /\ Settles(q, u, W)
               /\ \E rs, ws, e1 : Changes(q, u, q.open_read, n, rs, ws, e1)
  BY <1>4
<1> HIDE DEF u
<1>6. u.open_write = n /\ u.open_read = q.open_read /\ u.in_use
  BY <1>5 DEF Changes
<1>7. \A p \in Procs : (Reads(u, p) => u.open_read > 0) /\ (Writes(u, p) => u.open_write > 0)
  BY <1>1, <1>5, <1>6 DEF Settles
<1>8. /\ On(a, b, i, W) /\ Settles(q, b.pipe_table[i], W)
      /\ b.pipe_table[i].open_read = u.open_read /\ b.pipe_table[i].open_write = u.open_write
      /\ b.pipe_table[i].in_use <=> u.open_read > 0 \/ u.open_write > 0
  BY <1>3, <1>5, <1>6, <1>7, MaybeFree DEF u
<1> QED BY <1>6, <1>8 DEF n

\* The first leaves a queue, if there is one.
LEMMA FirstLeaves ==
  ASSUME NEW s \in Seq(Procs), Injective(s), NEW r, NEW W, FirstGone(s, r, W)
  PROVE  /\ Injective(r) /\ W \subseteq Procs /\ Len(r) \in Nat /\ Len(r) <= Len(s)
         /\ \A p \in Procs : /\ p \in W => InQueue(s, p)
                             /\ InQueue(r, p) <=> InQueue(s, p) /\ p \notin W
         /\ Len(s) <= 1 => \A p \in Procs : ~InQueue(r, p)
<1>1. CASE r = s /\ W = {} /\ r = <<>>
  BY <1>1, NobodyWaits
<1>2. CASE s # <<>> /\ r = queue_pop(s) /\ W = {Head(s)}
  <2>1. Len(s) \in Nat /\ Len(s) > 0
    BY <1>2, SomebodyWaits
  <2>2. /\ r \in Seq(Procs) /\ Head(s) \in Procs /\ Len(r) = Len(s) - 1 /\ InQueue(s, Head(s))
        /\ Injective(r) /\ \A x \in Procs : InQueue(r, x) <=> InQueue(s, x) /\ x # Head(s)
    BY <1>2, <2>1, QueuePop
  <2>3. Len(s) <= 1 => \A p \in Procs : ~InQueue(r, p)
    <3>1. Len(s) <= 1 => r = <<>>
      BY <2>1, <2>2, SomebodyWaits
    <3> QED BY <3>1, NobodyWaits
  <2> QED BY <1>2, <2>1, <2>2, <2>3
<1> QED BY <1>1, <1>2 DEF FirstGone

\* Bytes move from q to v, and one process is woken at the other end.
LEMMA SettledOne ==
  ASSUME NEW q \in PipeRecord, Local(q), q.in_use, NEW v \in PipeRecord, RingOK(v),
         SameEnds(q, v), SameQueues(q, v), SameName(q, v),
         NEW u, NEW rs, NEW ws, NEW W, Changes(v, u, v.open_read, v.open_write, rs, ws, v.eof),
         \/ /\ rs = q.wait_readers
            /\ FirstGone(q.wait_writers, ws, W)
            /\ Calm(q) => \A p \in Procs : ~Reads(q, p)
         \/ /\ ws = q.wait_writers
            /\ FirstGone(q.wait_readers, rs, W)
            /\ Calm(q) => \A p \in Procs : ~Writes(q, p)
  PROVE  /\ Settles(q, u, W) /\ u.in_use
         /\ u.open_read = q.open_read /\ u.open_write = q.open_write
<1>1. /\ q.wait_readers \in Seq(Procs) /\ q.wait_writers \in Seq(Procs)
      /\ Injective(q.wait_readers) /\ Injective(q.wait_writers)
      /\ Len(q.wait_readers) \in Nat /\ Len(q.wait_writers) \in Nat
      /\ \A p \in Procs : ~(Reads(q, p) /\ Writes(q, p))
  BY PipeFields, SomebodyWaits DEF Local, QueueOK
<1>2. /\ u \in PipeRecord /\ u.wait_readers = rs /\ u.wait_writers = ws /\ u.in_use
      /\ u.open_read = q.open_read /\ u.open_write = q.open_write
      /\ u.name = q.name /\ u.eof = q.eof /\ RingOK(u)
  BY SameRingOK DEF Changes, SameEnds, SameName
<1>3. /\ Injective(rs) /\ Injective(ws) /\ W \subseteq Procs
      /\ Len(rs) \in Nat /\ Len(rs) <= Len(q.wait_readers)
      /\ Len(ws) \in Nat /\ Len(ws) <= Len(q.wait_writers)
      /\ \A p \in Procs : /\ p \in W => Waits(q, p)
                          /\ Reads(u, p) <=> Reads(q, p) /\ p \notin W
                          /\ Writes(u, p) <=> Writes(q, p) /\ p \notin W
      /\ Calm(q) => \A p \in Procs : ~Reads(u, p) /\ ~Writes(u, p)
  <2>1. CASE /\ rs = q.wait_readers
             /\ FirstGone(q.wait_writers, ws, W)
             /\ Calm(q) => \A p \in Procs : ~Reads(q, p)
    <3>1. /\ Injective(ws) /\ W \subseteq Procs /\ Len(ws) \in Nat /\ Len(ws) <= Len(q.wait_writers)
          /\ \A p \in Procs : /\ p \in W => InQueue(q.wait_writers, p)
                              /\ InQueue(ws, p) <=> InQueue(q.wait_writers, p) /\ p \notin W
          /\ Len(q.wait_writers) <= 1 => \A p \in Procs : ~InQueue(ws, p)
      BY <1>1, <2>1, FirstLeaves
    <3> QED BY <1>1, <1>2, <2>1, <3>1 DEF Reads, Writes, Waits, Calm
  <2>2. CASE /\ ws = q.wait_writers
             /\ FirstGone(q.wait_readers, rs, W)
             /\ Calm(q) => \A p \in Procs : ~Writes(q, p)
    <3>1. /\ Injective(rs) /\ W \subseteq Procs /\ Len(rs) \in Nat /\ Len(rs) <= Len(q.wait_readers)
          /\ \A p \in Procs : /\ p \in W => InQueue(q.wait_readers, p)
                              /\ InQueue(rs, p) <=> InQueue(q.wait_readers, p) /\ p \notin W
          /\ Len(q.wait_readers) <= 1 => \A p \in Procs : ~InQueue(rs, p)
      BY <1>1, <2>2, FirstLeaves
    <3> QED BY <1>1, <1>2, <2>2, <3>1 DEF Reads, Writes, Waits, Calm
  <2> QED BY <2>1, <2>2
<1>4. QueueOK(u)
  BY <1>1, <1>2, <1>3 DEF QueueOK, Local, at_eof, is_named
<1>5. ASSUME Calm(q) PROVE Calm(u)
  BY <1>1, <1>2, <1>3, <1>5 DEF Calm
<1> QED BY <1>2, <1>3, <1>4, <1>5 DEF Settles, Local

\* pipe_read where there is something to read.
LEMMA ReadSome ==
  ASSUME NEW a \in PipeKernel, NEW i \in Pipes, NEW q, q = a.pipe_table[i], Local(q), q.in_use,
         NEW n \in Nat, n # 0, NEW p, q.count > 0, NEW b, b = pipe_read(a, i, p, n).k
  PROVE  \E W : /\ On(a, b, i, W) /\ Settles(q, b.pipe_table[i], W) /\ b.pipe_table[i].in_use
                /\ b.pipe_table[i].open_read = q.open_read
                /\ b.pipe_table[i].open_write = q.open_write
<1> DEFINE m == Min({n, q.count})
           v == take_bytes(q, m)
           c == PipeIn(a, i, v)
<1>1. q \in PipeRecord /\ q.count \in Nat /\ RingOK(q)
  BY PipeAssumption, KernelFields, PipeFields DEF Local
<1>2. m \in 0 .. q.count
  <2>1. m \in {n, q.count} /\ \A y \in {n, q.count} : m <= y
    BY <1>1, MinOfNat
  <2> QED BY <1>1, <2>1
<1>3. b = pipe_wake_writer(c, i)
  BY DEF pipe_read, PipeIn
<1> HIDE DEF m
<1>4. v \in PipeRecord /\ RingOK(v) /\ SameEnds(q, v) /\ SameQueues(q, v) /\ SameName(q, v)
  BY <1>1, <1>2, TakeBytes
<1> HIDE DEF v
<1>5. On(a, c, i, {}) /\ c.pipe_table[i] = v /\ c \in PipeKernel
  BY <1>4, PipeInOn DEF On
<1> HIDE DEF c
<1>6. PICK s \in Seq(Procs), W \in SUBSET Procs :
        /\ On(c, b, i, W)
        /\ Changes(v, b.pipe_table[i], v.open_read, v.open_write, v.wait_readers, s, v.eof)
        /\ FirstGone(v.wait_writers, s, W)
  BY ONLY <1>3, <1>5, i \in Pipes, WakeOne
<1>7. On(a, b, i, {} \cup W)
  BY <1>5, <1>6, OnTwice
<1>8. Calm(q) => \A x \in Procs : ~Reads(q, x)
  BY <1>1 DEF Calm
<1>9. v.wait_readers = q.wait_readers /\ v.wait_writers = q.wait_writers
  BY <1>4 DEF SameQueues
<1> DEFINE u == b.pipe_table[i]
<1> HIDE DEF u
<1>10. /\ Settles(q, u, W) /\ u.in_use
       /\ u.open_read = q.open_read /\ u.open_write = q.open_write
  BY ONLY <1>1, <1>4, <1>6, <1>8, <1>9, Local(q), q.in_use, SettledOne, ZenonT(60) DEF u
<1> QED BY <1>7, <1>10 DEF u

\* pipe_write where somebody reads and there is room.
LEMMA WriteSome ==
  ASSUME NEW a \in PipeKernel, NEW i \in Pipes, NEW q, q = a.pipe_table[i], Local(q), q.in_use,
         NEW n \in Nat, n # 0, NEW p, q.open_read # 0, q.count < PIPE_BUFFER_SIZE,
         NEW b, b = pipe_write(a, i, p, n).k
  PROVE  \E W : /\ On(a, b, i, W) /\ Settles(q, b.pipe_table[i], W) /\ b.pipe_table[i].in_use
                /\ b.pipe_table[i].open_read = q.open_read
                /\ b.pipe_table[i].open_write = q.open_write
<1> DEFINE t == PIPE_BUFFER_SIZE - q.count
           m == Min({n, t})
           v == put_bytes(q, m)
           c == PipeIn(a, i, v)
<1>1. q \in PipeRecord /\ q.count \in Nat /\ RingOK(q) /\ PIPE_BUFFER_SIZE \in Nat /\ t \in Nat
  BY PipeAssumption, KernelFields, PipeFields DEF Local
<1>2. m \in 0 .. t
  <2> HIDE DEF t
  <2>1. m \in {n, t} /\ \A y \in {n, t} : m <= y
    BY <1>1, MinOfNat
  <2> QED BY <1>1, <2>1
<1>3. b = pipe_wake_reader(c, i)
  <2>1. ~(q.count >= PIPE_BUFFER_SIZE)
    BY <1>1
  <2> QED BY <2>1 DEF pipe_write, PipeIn
<1> HIDE DEF m
<1>4. v \in PipeRecord /\ RingOK(v) /\ SameEnds(q, v) /\ SameQueues(q, v) /\ SameName(q, v)
  BY <1>1, <1>2, PutBytes
<1> HIDE DEF v
<1>5. On(a, c, i, {}) /\ c.pipe_table[i] = v /\ c \in PipeKernel
  BY <1>4, PipeInOn DEF On
<1> HIDE DEF c
<1>6. PICK s \in Seq(Procs), W \in SUBSET Procs :
        /\ On(c, b, i, W)
        /\ Changes(v, b.pipe_table[i], v.open_read, v.open_write, s, v.wait_writers, v.eof)
        /\ FirstGone(v.wait_readers, s, W)
  BY ONLY <1>3, <1>5, i \in Pipes, WakeOne
<1>7. On(a, b, i, {} \cup W)
  BY <1>5, <1>6, OnTwice
<1>8. Calm(q) => \A x \in Procs : ~Writes(q, x)
  BY <1>1 DEF Calm
<1>9. v.wait_readers = q.wait_readers /\ v.wait_writers = q.wait_writers
  BY <1>4 DEF SameQueues
<1> DEFINE u == b.pipe_table[i]
<1> HIDE DEF u
<1>10. /\ Settles(q, u, W) /\ u.in_use
       /\ u.open_read = q.open_read /\ u.open_write = q.open_write
  BY ONLY <1>1, <1>4, <1>6, <1>8, <1>9, Local(q), q.in_use, SettledOne, ZenonT(60) DEF u
<1> QED BY <1>7, <1>10 DEF u

\* queue_push: one more waits.
LEMMA QueuePush ==
  ASSUME NEW s \in Seq(Procs), NEW p \in Procs, ~InQueue(s, p), NEW r, r = queue_push(s, p)
  PROVE  /\ r \in Seq(Procs) /\ (Injective(s) => Injective(r))
         /\ \A x \in Procs : InQueue(r, x) <=> InQueue(s, x) \/ x = p
<1>1. /\ r \in Seq(Procs) /\ Len(s) \in Nat /\ Len(r) = Len(s) + 1 /\ r[Len(s) + 1] = p
      /\ \A j \in 1 .. Len(s) : r[j] = s[j]
  BY DEF queue_push
<1>2. \A j \in 1 .. Len(r) : j \in 1 .. Len(s) \/ j = Len(s) + 1
  BY <1>1
<1>3. Injective(s) => Injective(r)
  BY <1>1, <1>2 DEF Injective, InQueue
<1>4. ASSUME NEW x \in Procs PROVE InQueue(r, x) <=> InQueue(s, x) \/ x = p
  <2>1. 1 .. Len(s) \subseteq 1 .. Len(r) /\ Len(s) + 1 \in 1 .. Len(r)
    BY <1>1
  <2> QED BY <1>1, <1>2, <2>1 DEF InQueue
<1> QED BY <1>1, <1>3, <1>4

\* From a to b process p falls asleep in a queue of pipe i.
Sleeps(a, b, i, p) ==
  /\ b \in PipeKernel /\ b.fd = a.fd /\ b.fd_table = a.fd_table
  /\ \A j \in Pipes \ {i} : b.pipe_table[j] = a.pipe_table[j]
  /\ b.state = [a.state EXCEPT ![p] = "BLOCKED"]
  /\ b.pipe_table[i].open_read = a.pipe_table[i].open_read
  /\ b.pipe_table[i].open_write = a.pipe_table[i].open_write
  /\ b.pipe_table[i].in_use = a.pipe_table[i].in_use
  /\ \A x \in Procs \ {p} : /\ Reads(b.pipe_table[i], x) <=> Reads(a.pipe_table[i], x)
                            /\ Writes(b.pipe_table[i], x) <=> Writes(a.pipe_table[i], x)

\* process_block puts a running process to sleep.
LEMMA Block ==
  ASSUME NEW a \in PipeKernel, NEW i \in Pipes, NEW p \in Procs, a.state[p] = "READY",
         NEW q, q = a.pipe_table[i], NEW u, NEW rs, NEW ws,
         Changes(q, u, q.open_read, q.open_write, rs, ws, q.eof),
         \A x \in Procs \ {p} : (Reads(u, x) <=> Reads(q, x)) /\ (Writes(u, x) <=> Writes(q, x)),
         NEW b, b = process_block(PipeIn(a, i, u), p)
  PROVE  Sleeps(a, b, i, p) /\ b.pipe_table[i] = u
<1> DEFINE c == PipeIn(a, i, u)
           st == [a.state EXCEPT ![p] = "BLOCKED"]
<1>1. u \in PipeRecord
  BY DEF Changes
<1>2. /\ c \in PipeKernel /\ c.pipe_table = [a.pipe_table EXCEPT ![i] = u]
      /\ c.state = a.state /\ c.fd = a.fd /\ c.fd_table = a.fd_table
  BY <1>1 DEF PipeIn, PipeKernel
<1>3. st \in [Procs -> {"FREE", "READY", "BLOCKED"}]
  BY KernelFields
<1>4. b = StateIn(c, st)
  <2> HIDE DEF c
  <2> QED BY <1>2 DEF process_block, StateIn, c
<1> HIDE DEF c, st
<1>5. /\ b \in PipeKernel /\ b.state = st
      /\ b.pipe_table = c.pipe_table /\ b.fd = c.fd /\ b.fd_table = c.fd_table
  BY <1>2, <1>3, <1>4, StateInFields
<1>6. b.pipe_table[i] = u /\ \A j \in Pipes \ {i} : b.pipe_table[j] = a.pipe_table[j]
  BY <1>2, <1>5, KernelFields
<1> QED BY <1>2, <1>5, <1>6 DEF Sleeps, Changes, st

\* sleep_reader, of an empty pipe not at its end.
LEMMA SleepReader ==
  ASSUME NEW a \in PipeKernel, NEW i \in Pipes, NEW p \in Procs, a.state[p] = "READY",
         NEW q, q = a.pipe_table[i], Local(q), q.in_use, ~Waits(q, p), q.count = 0, ~at_eof(q),
         NEW b, b = sleep_reader(a, i, p)
  PROVE  /\ Sleeps(a, b, i, p) /\ Local(b.pipe_table[i])
         /\ Reads(b.pipe_table[i], p) /\ ~Writes(b.pipe_table[i], p)
         /\ Calm(q) /\ Len(b.pipe_table[i].wait_readers) <= 1 => Calm(b.pipe_table[i])
<1> DEFINE s == q.wait_readers
           r == queue_push(s, p)
           u == [q EXCEPT !.wait_readers = r]
<1>1. q \in PipeRecord /\ s \in Seq(Procs) /\ ~InQueue(s, p) /\ Injective(s)
  BY KernelFields, PipeFields DEF Waits, Reads, Local, QueueOK
<1>2. b = process_block(PipeIn(a, i, u), p)
  BY DEF sleep_reader, PipeIn
<1> HIDE DEF s
<1>3. r \in Seq(Procs) /\ Injective(r) /\ \A x \in Procs : InQueue(r, x) <=> InQueue(s, x) \/ x = p
  BY <1>1, QueuePush
<1> HIDE DEF r
<1>4. Changes(q, u, q.open_read, q.open_write, r, q.wait_writers, q.eof)
  BY <1>1, <1>3, FieldChanges
<1> HIDE DEF u
<1>5. \A x \in Procs : /\ Reads(u, x) <=> Reads(q, x) \/ x = p
                       /\ Writes(u, x) <=> Writes(q, x)
  BY <1>3, <1>4 DEF Changes, Reads, Writes, s
<1>6. Sleeps(a, b, i, p) /\ b.pipe_table[i] = u
  BY <1>2, <1>4, <1>5, Block
<1>7. QueueOK(u)
  BY <1>3, <1>4, <1>5 DEF Changes, Local, QueueOK, at_eof, is_named, Waits
<1>8. RingOK(u) /\ u.in_use
  BY <1>4, SameRingOK DEF Changes, Local
<1>9. Calm(q) /\ Len(u.wait_readers) <= 1 => Calm(u)
  BY <1>4, <1>5 DEF Calm, Changes, SameRing
<1> QED BY <1>5, <1>6, <1>7, <1>8, <1>9 DEF Local, Waits

\* sleep_writer, of a pipe that is full or has no readers yet.
LEMMA SleepWriter ==
  ASSUME NEW a \in PipeKernel, NEW i \in Pipes, NEW p \in Procs, a.state[p] = "READY",
         NEW q, q = a.pipe_table[i], Local(q), q.in_use, ~Waits(q, p),
         q.open_read > 0 \/ (is_named(q) /\ ~q.eof),
         q.count = PIPE_BUFFER_SIZE \/ q.open_read = 0,
         NEW b, b = sleep_writer(a, i, p)
  PROVE  /\ Sleeps(a, b, i, p) /\ Local(b.pipe_table[i])
         /\ Writes(b.pipe_table[i], p) /\ ~Reads(b.pipe_table[i], p)
         /\ Calm(q) /\ Len(b.pipe_table[i].wait_writers) <= 1 => Calm(b.pipe_table[i])
<1> DEFINE s == q.wait_writers
           r == queue_push(s, p)
           u == [q EXCEPT !.wait_writers = r]
<1>1. q \in PipeRecord /\ s \in Seq(Procs) /\ ~InQueue(s, p) /\ Injective(s)
  BY KernelFields, PipeFields DEF Waits, Writes, Local, QueueOK
<1>2. b = process_block(PipeIn(a, i, u), p)
  BY DEF sleep_writer, PipeIn
<1> HIDE DEF s
<1>3. r \in Seq(Procs) /\ Injective(r) /\ \A x \in Procs : InQueue(r, x) <=> InQueue(s, x) \/ x = p
  BY <1>1, QueuePush
<1> HIDE DEF r
<1>4. Changes(q, u, q.open_read, q.open_write, q.wait_readers, r, q.eof)
  BY <1>1, <1>3, FieldChanges
<1> HIDE DEF u
<1>5. \A x \in Procs : /\ Writes(u, x) <=> Writes(q, x) \/ x = p
                       /\ Reads(u, x) <=> Reads(q, x)
  BY <1>3, <1>4 DEF Changes, Reads, Writes, s
<1>6. Sleeps(a, b, i, p) /\ b.pipe_table[i] = u
  BY <1>2, <1>4, <1>5, Block
<1>7. QueueOK(u)
  BY <1>3, <1>4, <1>5 DEF Changes, Local, QueueOK, at_eof, is_named, Waits
<1>8. RingOK(u) /\ u.in_use
  BY <1>4, SameRingOK DEF Changes, Local
<1>9. Calm(q) /\ Len(u.wait_writers) <= 1 => Calm(u)
  BY <1>4, <1>5 DEF Calm, Changes, SameRing
<1> QED BY <1>5, <1>6, <1>7, <1>8, <1>9 DEF Local, Waits

\* pipe_open: a free pipe is taken into use, or a named one opened again.
LEMMA PipeOpen ==
  ASSUME NEW a \in PipeKernel, NEW name \in Names \cup {Anonymous},
         \A j \in Pipes : Local(a.pipe_table[j]),
         NEW o, o = pipe_open(a, name)
  PROVE  \/ o.pipe = NULL /\ o.k = a
         \/ /\ o.pipe \in Pipes /\ On(a, o.k, o.pipe, {})
            /\ Settles(a.pipe_table[o.pipe], o.k.pipe_table[o.pipe], {})
            /\ o.k.pipe_table[o.pipe].in_use
            /\ o.k.pipe_table[o.pipe].open_read = a.pipe_table[o.pipe].open_read
            /\ o.k.pipe_table[o.pipe].open_write = a.pipe_table[o.pipe].open_write
<1> DEFINE same == {i \in Pipes : a.pipe_table[i].in_use /\ name # Anonymous
                                    /\ a.pipe_table[i].name = name}
           free == {i \in Pipes : ~a.pipe_table[i].in_use}
           S == IF same # {} THEN same ELSE free
           i == Min(S)
           q == a.pipe_table[i]
           v == [q EXCEPT !.opens = IF @ = MaxOpens THEN @ ELSE @ + 1]
           w == [pipe_reset(q) EXCEPT !.in_use = TRUE, !.name = name,
                                      !.opens = IF name = Anonymous THEN 0 ELSE 1]
<1>1. o = IF same # {} THEN [pipe |-> i, k |-> PipeIn(a, i, v)]
          ELSE IF free # {} THEN [pipe |-> i, k |-> PipeIn(a, i, w)]
          ELSE [pipe |-> NULL, k |-> a]
  BY DEF pipe_open, PipeIn
<1>2. S \subseteq Nat /\ (S # {} => i \in S)
  <2>1. S \subseteq Nat
    BY DEF Pipes
  <2> HIDE DEF S
  <2> QED BY <2>1, MinOfNat
<1> HIDE DEF i
<1>3. CASE same # {}
  <2>1. i \in Pipes /\ q.in_use
    BY <1>2, <1>3
  <2>2. q \in PipeRecord /\ q.opens \in 0 .. 2 /\ Local(q) /\ q.open_read \in Nat /\ q.open_write \in Nat
    BY <2>1, KernelFields, PipeFields DEF MaxOpens
  <2>3. /\ v \in PipeRecord /\ SameRing(q, v) /\ SameEnds(q, v) /\ SameQueues(q, v)
        /\ v.in_use = q.in_use /\ v.name = q.name /\ v.eof = q.eof
    <3>1. (IF q.opens = MaxOpens THEN q.opens ELSE q.opens + 1) \in 0 .. MaxOpens
      BY <2>2 DEF MaxOpens
    <3> QED BY <2>2, <3>1 DEF PipeRecord, SameRing, SameEnds, SameQueues
  <2> HIDE DEF v, q
  <2>4. On(a, PipeIn(a, i, v), i, {}) /\ PipeIn(a, i, v).pipe_table[i] = v
    BY <2>1, <2>3, PipeInOn
  <2>5. RingOK(v)
    BY <2>2, <2>3, SameRingOK DEF Local
  <2>6. Settles(q, v, {})
    BY <2>1, <2>2, <2>3, <2>5
    DEF Settles, Local, QueueOK, Calm, Reads, Writes, SameQueues, SameEnds, SameRing, at_eof, is_named
  <2>7. o.pipe = i /\ o.k = PipeIn(a, i, v)
    BY <1>1, <1>3
  <2> QED BY <2>1, <2>3, <2>4, <2>6, <2>7 DEF SameEnds, q
<1>4. CASE same = {} /\ free # {}
  <2>1. i \in Pipes /\ ~q.in_use
    BY <1>2, <1>4
  <2>2. q = FreePipe
    BY <2>1 DEF Local
  <2>3. /\ w \in PipeRecord /\ SameRing(FreePipe, w) /\ SameEnds(FreePipe, w)
        /\ SameQueues(FreePipe, w) /\ w.in_use
    <3>1. (IF name = Anonymous THEN 0 ELSE 1) \in 0 .. MaxOpens
      BY DEF MaxOpens
    <3>2. pipe_reset(q) = FreePipe
      <4>1. FreePipe.in_use = q.in_use
        BY <2>2
      <4> QED BY <4>1, FreePipeOK DEF pipe_reset, PipeRecord
    <3> HIDE DEF q
    <3> QED BY <3>1, <3>2, FreePipeOK DEF PipeRecord, SameRing, SameEnds, SameQueues
  <2> HIDE DEF w, q
  <2>4. On(a, PipeIn(a, i, w), i, {}) /\ PipeIn(a, i, w).pipe_table[i] = w
    BY <2>1, <2>3, PipeInOn
  <2>5. RingOK(w)
    BY <2>3, FreePipeOK, SameRingOK DEF Local
  <2>6. \A p : ~Reads(w, p) /\ ~Writes(w, p)
    BY <2>3, FreePipeOK DEF Reads, Writes, SameQueues
  <2>7. Injective(w.wait_readers) /\ Injective(w.wait_writers)
        /\ Len(w.wait_readers) <= 1 /\ Len(w.wait_writers) <= 1
    BY <2>3, FreePipeOK DEF Local, QueueOK, Calm, SameQueues
  <2>8. Settles(q, w, {})
    BY <2>2, <2>3, <2>5, <2>6, <2>7, FreePipeOK DEF Settles, Local, QueueOK, Calm
  <2>9. o.pipe = i /\ o.k = PipeIn(a, i, w)
    BY <1>1, <1>4
  <2> QED BY <2>1, <2>2, <2>3, <2>4, <2>8, <2>9 DEF SameEnds, q
<1>5. CASE same = {} /\ free = {}
  <2> HIDE DEF same, free, v, w
  <2>1. o = [pipe |-> NULL, k |-> a]
    BY <1>1, <1>5
  <2> QED BY ONLY <2>1
<1> QED BY <1>3, <1>4, <1>5

(***************************************************************************)
(* Counting references                                                     *)
(***************************************************************************)
\* One reference to f more, and one less.
Plus(N, f) == [T \in SUBSET FDs |-> IF f \in T THEN N[T] + 1 ELSE N[T]]
Minus(N, f) == [T \in SUBSET FDs |-> IF f \in T THEN N[T] - 1 ELSE N[T]]

\* M counts one reference to f more, or less, than N.
OneMore(N, f, M) == M = Plus(N, f)
OneLess(N, f, M) == M = Minus(N, f)

\* References to a descriptor are references to every set it is in.
LEMMA MeasureFacts ==
  ASSUME NEW N, Measure(N), NEW f \in FDs, NEW T \in SUBSET FDs
  PROVE  /\ N[T] \in Nat /\ N[{f}] \in Nat
         /\ f \in T => N[T] >= N[{f}] /\ (N[T] = 0 => N[{f}] = 0)
         /\ N[{f}] = 0 => N[T \ {f}] = N[T] /\ N[T \cup {f}] = N[T]
<1>1. {f} \in SUBSET FDs /\ T \ {f} \in SUBSET FDs /\ T \cup {f} \in SUBSET FDs
  OBVIOUS
<1>2. N[T] \in Nat /\ N[{f}] \in Nat /\ N[T \ {f}] \in Nat /\ N[T \cup {f}] \in Nat
  BY <1>1 DEF Measure
<1>3. f \in T => N[T] = N[T \ {f}] + N[{f}]
  BY DEF Measure
<1>4. N[T \cup {f}] = N[T \ {f}] + N[{f}]
  <2>1. (T \cup {f}) \ {f} = T \ {f} /\ f \in T \cup {f}
    OBVIOUS
  <2>2. N[T \cup {f}] = N[(T \cup {f}) \ {f}] + N[{f}]
    BY <1>1, <2>1 DEF Measure
  <2> QED BY <2>1, <2>2
<1>5. f \notin T => T \ {f} = T
  OBVIOUS
<1>6. f \in T => T \cup {f} = T
  OBVIOUS
<1> HIDE DEF Measure
<1>7. f \in T => N[T] >= N[{f}] /\ (N[T] = 0 => N[{f}] = 0)
  BY ONLY <1>2, <1>3
<1>8. N[{f}] = 0 => N[T \ {f}] = N[T] /\ N[T \cup {f}] = N[T]
  BY ONLY <1>2, <1>3, <1>4, <1>5
<1> QED BY <1>2, <1>7, <1>8

\* One reference more, or less, to f counts in the sets f is in.
LEMMA PlusMinusValues ==
  ASSUME NEW N, Measure(N), NEW f \in FDs, NEW T \in SUBSET FDs
  PROVE  /\ N[T] \in Nat
         /\ Plus(N, f)[T] = IF f \in T THEN N[T] + 1 ELSE N[T]
         /\ Minus(N, f)[T] = IF f \in T THEN N[T] - 1 ELSE N[T]
BY DEF Plus, Minus, Measure

\* References are still a measure with one more.
LEMMA MeasurePlus ==
  ASSUME NEW N, Measure(N), NEW f \in FDs
  PROVE  Measure(Plus(N, f)) /\ Plus(N, f)[{f}] = N[{f}] + 1
<1> DEFINE M == Plus(N, f)
<1>1. \A T \in SUBSET FDs : N[T] \in Nat /\ M[T] = IF f \in T THEN N[T] + 1 ELSE N[T]
  BY PlusMinusValues
<1>2. M \in [SUBSET FDs -> Nat]
  <2>1. M = [T \in SUBSET FDs |-> IF f \in T THEN N[T] + 1 ELSE N[T]]
    BY DEF Plus
  <2>2. ASSUME NEW T \in SUBSET FDs PROVE (IF f \in T THEN N[T] + 1 ELSE N[T]) \in Nat
    BY <1>1
  <2> QED BY <2>1, <2>2
<1> HIDE DEF M
<1>3. {} \in SUBSET FDs /\ {f} \in SUBSET FDs
  OBVIOUS
<1>4. ASSUME NEW T \in SUBSET FDs, NEW g \in T PROVE M[T] = M[T \ {g}] + M[{g}]
  <2>1. T \ {g} \in SUBSET FDs /\ {g} \in SUBSET FDs /\ N[T] = N[T \ {g}] + N[{g}]
    BY DEF Measure
  <2>2. N[T] \in Nat /\ N[T \ {g}] \in Nat /\ N[{g}] \in Nat
    BY <1>1, <2>1
  <2>3. /\ M[T] = IF f \in T THEN N[T] + 1 ELSE N[T]
        /\ M[T \ {g}] = IF f \in T /\ f # g THEN N[T \ {g}] + 1 ELSE N[T \ {g}]
        /\ M[{g}] = IF f = g THEN N[{g}] + 1 ELSE N[{g}]
    BY <1>1, <2>1
  <2>4. CASE f \notin T
    BY ONLY <2>1, <2>2, <2>3, <2>4, g \in T
  <2>5. CASE f \in T /\ f = g
    BY ONLY <2>1, <2>2, <2>3, <2>5
  <2>6. CASE f \in T /\ f # g
    BY ONLY <2>1, <2>2, <2>3, <2>6
  <2> QED BY <2>4, <2>5, <2>6
<1> QED BY <1>1, <1>2, <1>3, <1>4 DEF Measure, M

\* And with one less, when there was one.
LEMMA MeasureMinus ==
  ASSUME NEW N, Measure(N), NEW f \in FDs, N[{f}] > 0
  PROVE  Measure(Minus(N, f)) /\ Minus(N, f)[{f}] = N[{f}] - 1
<1> DEFINE M == Minus(N, f)
<1>1. \A T \in SUBSET FDs : N[T] \in Nat /\ M[T] = IF f \in T THEN N[T] - 1 ELSE N[T]
  BY PlusMinusValues
<1>2. \A T \in SUBSET FDs : f \in T => N[T] > 0
  <2> SUFFICES ASSUME NEW T \in SUBSET FDs, f \in T PROVE N[T] > 0
    OBVIOUS
  <2>1. N[T] \in Nat /\ N[{f}] \in Nat /\ N[T] >= N[{f}]
    BY MeasureFacts
  <2> QED BY <2>1
<1>3. M \in [SUBSET FDs -> Nat]
  <2>1. M = [T \in SUBSET FDs |-> IF f \in T THEN N[T] - 1 ELSE N[T]]
    BY DEF Minus
  <2>2. ASSUME NEW T \in SUBSET FDs PROVE (IF f \in T THEN N[T] - 1 ELSE N[T]) \in Nat
    BY <1>1, <1>2
  <2> QED BY <2>1, <2>2
<1> HIDE DEF M
<1>4. {} \in SUBSET FDs /\ {f} \in SUBSET FDs
  OBVIOUS
<1>5. ASSUME NEW T \in SUBSET FDs, NEW g \in T PROVE M[T] = M[T \ {g}] + M[{g}]
  <2>1. T \ {g} \in SUBSET FDs /\ {g} \in SUBSET FDs /\ N[T] = N[T \ {g}] + N[{g}]
    BY DEF Measure
  <2>2. N[T] \in Nat /\ N[T \ {g}] \in Nat /\ N[{g}] \in Nat
    BY <1>1, <2>1
  <2>3. /\ M[T] = IF f \in T THEN N[T] - 1 ELSE N[T]
        /\ M[T \ {g}] = IF f \in T /\ f # g THEN N[T \ {g}] - 1 ELSE N[T \ {g}]
        /\ M[{g}] = IF f = g THEN N[{g}] - 1 ELSE N[{g}]
    BY <1>1, <2>1
  <2>4. CASE f \notin T
    BY ONLY <2>1, <2>2, <2>3, <2>4, g \in T
  <2>5. CASE f \in T /\ f = g
    BY ONLY <2>1, <2>2, <2>3, <2>5
  <2>6. CASE f \in T /\ f # g
    BY ONLY <2>1, <2>2, <2>3, <2>6
  <2> QED BY <2>4, <2>5, <2>6
<1>6. M[{}] = 0
  BY <1>1, <1>4 DEF Measure
<1> QED BY <1>1, <1>3, <1>4, <1>5, <1>6 DEF Measure, M

(***************************************************************************)
(* The kernel                                                              *)
(***************************************************************************)
\* From a to b nobody goes to sleep, and only who is woken changes state.
Shrinks(a, b) ==
  /\ b.fd = a.fd
  /\ \A p \in Procs :
       /\ \A i \in Pipes : /\ Reads(b.pipe_table[i], p) => Reads(a.pipe_table[i], p)
                           /\ Writes(b.pipe_table[i], p) => Writes(a.pipe_table[i], p)
       /\ b.state[p] = "FREE" <=> a.state[p] = "FREE"
       /\ b.state[p] # a.state[p] => \E i \in Pipes : Waits(a.pipe_table[i], p)

\* What holds of every pipe, and of those with one process at each end at most.
PipesOK(a, C) == \A i \in Pipes : /\ Local(a.pipe_table[i])
                                  /\ i \notin C => Calm(a.pipe_table[i])

\* One operation on one pipe.
LEMMA OnSettles ==
  ASSUME NEW a \in PipeKernel, NEW C, NEW fr, PipesOK(a, C), SleepOK(a, fr),
         NEW b, NEW i \in Pipes, NEW W, On(a, b, i, W),
         Settles(a.pipe_table[i], b.pipe_table[i], W)
  PROVE  PipesOK(b, C) /\ SleepOK(b, fr) /\ Shrinks(a, b)
<1>1. PipesOK(b, C)
  BY DEF PipesOK, On, Settles
<1>2. \A p \in Procs : b.state[p] = IF p \in W /\ a.state[p] = "BLOCKED" THEN "READY" ELSE a.state[p]
  BY DEF On, Woken
<1>3. \A j \in Pipes \ {i} : b.pipe_table[j] = a.pipe_table[j]
  BY DEF On
<1>4. /\ W \subseteq Procs
      /\ \A p \in Procs : /\ p \in W => Waits(a.pipe_table[i], p)
                          /\ Reads(b.pipe_table[i], p) <=> Reads(a.pipe_table[i], p) /\ p \notin W
                          /\ Writes(b.pipe_table[i], p) <=> Writes(a.pipe_table[i], p) /\ p \notin W
  BY DEF Settles
<1>5. \A p \in Procs : Waits(b.pipe_table[i], p) <=> Waits(a.pipe_table[i], p) /\ p \notin W
  BY <1>4 DEF Waits
<1>6. Shrinks(a, b)
  <2>1. \A p \in Procs, j \in Pipes :
             /\ Reads(b.pipe_table[j], p) => Reads(a.pipe_table[j], p)
             /\ Writes(b.pipe_table[j], p) => Writes(a.pipe_table[j], p)
    BY <1>3, <1>4
  <2>2. b.fd = a.fd
    BY DEF On
  <2> QED BY <1>2, <1>4, <2>1, <2>2 DEF Shrinks
<1>7. ASSUME NEW j \in Pipes, NEW p \in Procs, Waits(b.pipe_table[j], p)
      PROVE  /\ b.state[p] = "BLOCKED" /\ p \notin fr
             /\ \A m \in Pipes \ {j} : ~Waits(b.pipe_table[m], p)
  <2>1. Waits(a.pipe_table[j], p)
    BY <1>3, <1>5, <1>7
  <2>2. /\ a.state[p] = "BLOCKED" /\ p \notin fr
        /\ \A m \in Pipes \ {j} : ~Waits(a.pipe_table[m], p)
    BY <2>1 DEF SleepOK
  <2>3. p \notin W
    BY <1>4, <1>5, <1>7, <2>2
  <2> QED BY <1>2, <1>3, <1>5, <2>2, <2>3
<1>8. ASSUME NEW p \in Procs, b.state[p] = "BLOCKED", p \notin fr
      PROVE  \E j \in Pipes : Waits(b.pipe_table[j], p)
  <2>1. a.state[p] = "BLOCKED" /\ p \notin W
    BY <1>2, <1>8
  <2>2. PICK j \in Pipes : Waits(a.pipe_table[j], p)
    BY <1>8, <2>1 DEF SleepOK
  <2> QED BY <1>3, <1>5, <2>1, <2>2
<1> QED BY <1>1, <1>6, <1>7, <1>8 DEF SleepOK

\* One descriptor is written.
FDIn(a, f, d) == [a EXCEPT !.fd_table[f] = d]

\* Writing a descriptor writes nothing else.
LEMMA FDInFields ==
  ASSUME NEW a \in PipeKernel, NEW f \in FDs, NEW d \in FDRecord, NEW b, b = FDIn(a, f, d)
  PROVE  /\ b \in PipeKernel /\ b.fd_table[f] = d
         /\ \A g \in FDs \ {f} : b.fd_table[g] = a.fd_table[g]
         /\ b.state = a.state /\ b.fd = a.fd /\ b.pipe_table = a.pipe_table
<1>1. /\ b \in PipeKernel /\ b.fd_table = [a.fd_table EXCEPT ![f] = d]
      /\ b.state = a.state /\ b.fd = a.fd /\ b.pipe_table = a.pipe_table
  BY DEF FDIn, PipeKernel
<1> QED BY <1>1, KernelFields

\* The same types and the same pipes behind the descriptors.
SameTypes(a, b) == \A g \in FDs : /\ b.fd_table[g].type = a.fd_table[g].type
                                  /\ b.fd_table[g].data = a.fd_table[g].data

\* The types and pipes of all descriptors but f are the same.
TypesBut(a, b, f) == \A g \in FDs \ {f} : /\ b.fd_table[g].type = a.fd_table[g].type
                                          /\ b.fd_table[g].data = a.fd_table[g].data

\* A descriptor without references makes no difference to the ends it is one of.
LEMMA EndsSame ==
  ASSUME NEW N, Measure(N), NEW a, NEW b, NEW f \in FDs, N[{f}] = 0, TypesBut(a, b, f),
         NEW i, NEW t
  PROVE  N[Ends(b, i, t)] = N[Ends(a, i, t)]
<1>1. Ends(b, i, t) \in SUBSET FDs /\ Ends(a, i, t) \in SUBSET FDs
  BY DEF Ends
<1>2. \/ Ends(b, i, t) = Ends(a, i, t) \/ Ends(b, i, t) = Ends(a, i, t) \ {f}
      \/ Ends(b, i, t) = Ends(a, i, t) \cup {f}
  BY DEF Ends, TypesBut
<1> DEFINE T == Ends(a, i, t)
<1> HIDE DEF T
<1>3. N[T \ {f}] = N[T] /\ N[T \cup {f}] = N[T]
  <2>1. Measure(N) /\ T \in SUBSET FDs /\ f \in FDs
    BY <1>1 DEF T
  <2> QED BY ONLY <2>1, N[{f}] = 0, MeasureFacts
<1> QED BY ONLY <1>2, <1>3 DEF T

\* A descriptor nobody refers to can become anything but the terminal.
LEMMA Retype ==
  ASSUME NEW a, NEW N, NEW fr, NEW L, NEW C, KInv(a, N, fr, L, C),
         NEW f \in FDs \ {0, 1}, N[{f}] = 0,
         NEW d \in FDRecord, d.type # "TERMINAL", d.refcount = 0,
         d.type \in {"PIPE_READ", "PIPE_WRITE"} => d.data \in Pipes,
         NEW b, b = FDIn(a, f, d)
  PROVE  KInv(b, N, fr, L, C) /\ Shrinks(a, b)
<1>1. a \in PipeKernel /\ Measure(N) /\ SleepOK(a, fr) /\ TablesOK(a, N) /\ HeldOK(a, N)
  BY DEF KInv
<1>2. /\ b \in PipeKernel /\ b.fd_table[f] = d
      /\ \A g \in FDs \ {f} : b.fd_table[g] = a.fd_table[g]
      /\ b.state = a.state /\ b.fd = a.fd /\ b.pipe_table = a.pipe_table
  BY <1>1, FDInFields
<1>3. SleepOK(b, fr) /\ Shrinks(a, b)
  BY <1>1, <1>2 DEF SleepOK, Shrinks
<1>4. ASSUME NEW i \in Pipes, NEW t PROVE N[Ends(b, i, t)] = N[Ends(a, i, t)]
  <2>1. TypesBut(a, b, f) /\ f \in FDs
    BY <1>2 DEF TypesBut
  <2> QED BY <1>1, <2>1, EndsSame
<1>5. TablesOK(b, N)
  <2>1. ASSUME NEW g \in FDs
        PROVE  DescriptorOK(g, b.fd_table[g], N[{g}])
    <3>1. CASE g = f
      BY <1>2, <3>1 DEF DescriptorOK
    <3>2. CASE g # f
      BY <1>1, <1>2, <3>2 DEF TablesOK
    <3> QED BY <3>1, <3>2
  <2>2. ASSUME NEW i \in Pipes
        PROVE  /\ b.pipe_table[i].open_read = N[Ends(b, i, "PIPE_READ")]
               /\ b.pipe_table[i].open_write = N[Ends(b, i, "PIPE_WRITE")]
    BY <1>1, <1>2, <1>4 DEF TablesOK
  <2> QED BY <2>1, <2>2 DEF TablesOK
<1>6. HeldOK(b, N)
  <2>1. ASSUME NEW i \in Pipes, NEW t, NEW g \in Ends(a, i, t), N[{g}] > 0 PROVE g \in Ends(b, i, t)
    BY <1>2, <2>1 DEF Ends
  <2> QED BY <1>1, <1>2, <2>1 DEF HeldOK
<1> QED BY <1>2, <1>3, <1>5, <1>6 DEF KInv

\* Descriptor f now has n references.
Recount(a, f, n) == FDIn(a, f, [a.fd_table[f] EXCEPT !.refcount = n])

\* From a to b one operation is applied to pipe i.
Moves(a, b, i) == \E W : On(a, b, i, W) /\ Settles(a.pipe_table[i], b.pipe_table[i], W)

\* The references to f change from N to M, and pipe i, if it is one, learns of it;
\* nothing else changes, and the pipes without references are L2 after it.
Recounts(a, N, L, f, b, M, L2, i) ==
  /\ f \in FDs /\ a.fd_table[f].type # "NONE"
  /\ Measure(M) /\ HeldOK(a, M)
  /\ \A g \in FDs \ {f} : M[{g}] = N[{g}]
  /\ \A j \in Pipes : j # i => /\ M[Ends(a, j, "PIPE_READ")] = N[Ends(a, j, "PIPE_READ")]
                               /\ M[Ends(a, j, "PIPE_WRITE")] = N[Ends(a, j, "PIPE_WRITE")]
                               /\ j \in L2 <=> j \in L
  /\ \/ i \notin Pipes /\ b = Recount(a, f, M[{f}])
     \/ /\ i \in Pipes /\ Moves(Recount(a, f, M[{f}]), b, i)
        /\ b.pipe_table[i].open_read = M[Ends(a, i, "PIPE_READ")]
        /\ b.pipe_table[i].open_write = M[Ends(a, i, "PIPE_WRITE")]
        /\ UseOK(b.pipe_table[i], i \in L2)

\* A change of the references to one descriptor, of which the tables are told, keeps the
\* invariant.
LEMMA Counted ==
  ASSUME NEW a, NEW N, NEW fr, NEW L, NEW C, KInv(a, N, fr, L, C),
         NEW f, NEW b, NEW M, NEW M2, NEW i, Recounts(a, N, L, f, b, M, M2, i)
  PROVE  KInv(b, M, fr, M2, C) /\ Shrinks(a, b) /\ SameTypes(a, b)
<1> DEFINE d == [a.fd_table[f] EXCEPT !.refcount = M[{f}]]
           c == Recount(a, f, M[{f}])
<1>0. /\ f \in FDs /\ a.fd_table[f].type # "NONE"
      /\ Measure(M) /\ HeldOK(a, M)
      /\ \A g \in FDs \ {f} : M[{g}] = N[{g}]
      /\ \A j \in Pipes : j # i => /\ M[Ends(a, j, "PIPE_READ")] = N[Ends(a, j, "PIPE_READ")]
                                   /\ M[Ends(a, j, "PIPE_WRITE")] = N[Ends(a, j, "PIPE_WRITE")]
                                   /\ j \in M2 <=> j \in L
      /\ \/ i \notin Pipes /\ b = c
         \/ /\ i \in Pipes /\ Moves(c, b, i)
            /\ b.pipe_table[i].open_read = M[Ends(a, i, "PIPE_READ")]
            /\ b.pipe_table[i].open_write = M[Ends(a, i, "PIPE_WRITE")]
            /\ UseOK(b.pipe_table[i], i \in M2)
  BY DEF Recounts
<1>1. a \in PipeKernel /\ SleepOK(a, fr) /\ TablesOK(a, N) /\ PipesOK(a, C)
      /\ \A j \in Pipes : UseOK(a.pipe_table[j], j \in L)
  BY DEF KInv, PipesOK
<1>2. d \in FDRecord /\ d.type = a.fd_table[f].type /\ d.data = a.fd_table[f].data
      /\ d.refcount = M[{f}]
  <2>1. a.fd_table[f] \in FDRecord /\ M[{f}] \in Nat
    BY <1>0, <1>1, KernelFields, MeasureFacts
  <2> QED BY <2>1 DEF FDRecord
<1>3. /\ c \in PipeKernel /\ c.fd_table[f] = d
      /\ \A g \in FDs \ {f} : c.fd_table[g] = a.fd_table[g]
      /\ c.state = a.state /\ c.fd = a.fd /\ c.pipe_table = a.pipe_table
  <2>1. c = FDIn(a, f, d)
    BY DEF Recount
  <2> HIDE DEF d
  <2> QED BY <1>0, <1>1, <1>2, <2>1, FDInFields
<1> HIDE DEF d, c
<1>4. SleepOK(c, fr) /\ PipesOK(c, C)
  BY <1>1, <1>3 DEF SleepOK, PipesOK
<1>5. /\ b \in PipeKernel /\ SleepOK(b, fr) /\ PipesOK(b, C) /\ Shrinks(c, b)
      /\ b.fd_table = c.fd_table /\ \A j \in Pipes : j # i => b.pipe_table[j] = a.pipe_table[j]
  <2>1. CASE i \notin Pipes /\ b = c
    BY <1>3, <1>4, <2>1 DEF Shrinks
  <2>2. CASE i \in Pipes /\ Moves(c, b, i)
    <3>0. PICK W : On(c, b, i, W) /\ Settles(c.pipe_table[i], b.pipe_table[i], W)
      BY <2>2 DEF Moves
    <3>1. SleepOK(b, fr) /\ PipesOK(b, C) /\ Shrinks(c, b)
      BY <1>3, <1>4, <2>2, <3>0, OnSettles
    <3> QED BY <1>3, <2>2, <3>0, <3>1 DEF On
  <2> QED BY <1>0, <2>1, <2>2
<1>6. SameTypes(a, b)
  BY <1>2, <1>3, <1>5 DEF SameTypes
<1>7. \A j \in Pipes, t \in {"PIPE_READ", "PIPE_WRITE"} : Ends(b, j, t) = Ends(a, j, t)
  BY <1>6 DEF Ends, SameTypes
<1>8. Shrinks(a, b)
  BY <1>3, <1>5 DEF Shrinks
<1>9. TablesOK(b, M)
  <2>1. ASSUME NEW g \in FDs
        PROVE  DescriptorOK(g, b.fd_table[g], M[{g}])
    <3>1. CASE g = f
      <4>1. DescriptorOK(f, a.fd_table[f], N[{f}])
        BY <1>0, <1>1 DEF TablesOK
      <4>2. b.fd_table[g] = d
        BY <1>3, <1>5, <3>1
      <4> QED BY ONLY <1>2, <3>1, <4>1, <4>2, <1>0 DEF DescriptorOK
    <3>2. CASE g # f
      <4>1. DescriptorOK(g, a.fd_table[g], N[{g}])
        BY <1>1 DEF TablesOK
      <4> QED BY <1>0, <1>3, <1>5, <3>2, <4>1
    <3> QED BY <3>1, <3>2
  <2>2. ASSUME NEW j \in Pipes
        PROVE  /\ b.pipe_table[j].open_read = M[Ends(b, j, "PIPE_READ")]
               /\ b.pipe_table[j].open_write = M[Ends(b, j, "PIPE_WRITE")]
    BY <1>0, <1>1, <1>5, <1>7 DEF TablesOK
  <2> QED BY <2>1, <2>2 DEF TablesOK
<1>10. HeldOK(b, M)
  BY <1>0, <1>7, <1>8 DEF HeldOK, Shrinks
<1>11. \A j \in Pipes : UseOK(b.pipe_table[j], j \in M2)
  <2>1. ASSUME NEW j \in Pipes, j # i PROVE UseOK(b.pipe_table[j], j \in M2)
    BY <1>0, <1>1, <1>5, <2>1 DEF UseOK
  <2> QED BY <1>0, <2>1
<1> QED BY <1>0, <1>5, <1>6, <1>8, <1>9, <1>10, <1>11 DEF KInv, PipesOK

\* Descriptor f is an end of pipe j, of type t.
Hits(a, f, j, t) == a.fd_table[f].type = t /\ a.fd_table[f].data = j

\* The pipe ends one reference more is to.
EndsMore(a, N, f, M) ==
  \A j \in Pipes, t \in {"PIPE_READ", "PIPE_WRITE"} :
    /\ N[Ends(a, j, t)] \in Nat /\ M[Ends(a, j, t)] \in Int
    /\ Hits(a, f, j, t) => M[Ends(a, j, t)] = N[Ends(a, j, t)] + 1
    /\ ~Hits(a, f, j, t) => M[Ends(a, j, t)] = N[Ends(a, j, t)]

\* One reference more counts at the pipe end the descriptor is, if any.
LEMMA EndsPlus ==
  ASSUME NEW a, NEW N, Measure(N), NEW f \in FDs, NEW M, OneMore(N, f, M)
  PROVE  EndsMore(a, N, f, M)
<1> SUFFICES ASSUME NEW j \in Pipes, NEW t \in {"PIPE_READ", "PIPE_WRITE"}
             PROVE  /\ N[Ends(a, j, t)] \in Nat /\ M[Ends(a, j, t)] \in Int
                    /\ Hits(a, f, j, t) => M[Ends(a, j, t)] = N[Ends(a, j, t)] + 1
                    /\ ~Hits(a, f, j, t) => M[Ends(a, j, t)] = N[Ends(a, j, t)]
  BY DEF EndsMore
<1> DEFINE T == Ends(a, j, t)
<1>1. T \in SUBSET FDs /\ (f \in T <=> Hits(a, f, j, t))
  BY DEF Ends, Hits
<1> HIDE DEF T
<1>2. N[T] \in Nat /\ M[T] = IF f \in T THEN N[T] + 1 ELSE N[T]
  BY <1>1 DEF OneMore, Plus, Measure
<1> QED BY ONLY <1>1, <1>2 DEF T

\* The pipe ends one reference less is to.
EndsLess(a, N, f, M) ==
  \A j \in Pipes, t \in {"PIPE_READ", "PIPE_WRITE"} :
    /\ N[Ends(a, j, t)] \in Nat /\ M[Ends(a, j, t)] \in Int
    /\ Hits(a, f, j, t) => N[Ends(a, j, t)] = M[Ends(a, j, t)] + 1
    /\ ~Hits(a, f, j, t) => M[Ends(a, j, t)] = N[Ends(a, j, t)]

\* One reference less counts at the pipe end the descriptor is, if any.
LEMMA EndsMinus ==
  ASSUME NEW a, NEW N, Measure(N), NEW f \in FDs, NEW M, OneLess(N, f, M)
  PROVE  EndsLess(a, N, f, M)
<1> SUFFICES ASSUME NEW j \in Pipes, NEW t \in {"PIPE_READ", "PIPE_WRITE"}
             PROVE  /\ N[Ends(a, j, t)] \in Nat /\ M[Ends(a, j, t)] \in Int
                    /\ Hits(a, f, j, t) => N[Ends(a, j, t)] = M[Ends(a, j, t)] + 1
                    /\ ~Hits(a, f, j, t) => M[Ends(a, j, t)] = N[Ends(a, j, t)]
  BY DEF EndsLess
<1> DEFINE T == Ends(a, j, t)
<1>1. T \in SUBSET FDs /\ (f \in T <=> Hits(a, f, j, t))
  BY DEF Ends, Hits
<1> HIDE DEF T
<1>2. N[T] \in Nat /\ M[T] = IF f \in T THEN N[T] - 1 ELSE N[T]
  BY <1>1 DEF OneLess, Minus, Measure
<1> QED BY ONLY <1>1, <1>2 DEF T

\* fd_incref: one reference to f more.
LEMMA IncRef ==
  ASSUME NEW a, NEW N, NEW fr, NEW L, NEW C, KInv(a, N, fr, L, C),
         NEW f \in FDs, NEW d, d = a.fd_table[f], d.type # "NONE",
         d.type \in {"PIPE_READ", "PIPE_WRITE"} => a.pipe_table[d.data].in_use,
         NEW M2, \A j \in Pipes :
                   j \in M2 <=> j \in L /\ ~(d.type \in {"PIPE_READ", "PIPE_WRITE"} /\ d.data = j),
         NEW b, b = fd_incref(a, f)
  PROVE  KInv(b, Plus(N, f), fr, M2, C) /\ Shrinks(a, b) /\ SameTypes(a, b)
<1> DEFINE M == Plus(N, f)
           c == Recount(a, f, M[{f}])
<1>1. /\ a \in PipeKernel /\ Measure(N) /\ TablesOK(a, N) /\ HeldOK(a, N)
      /\ \A j \in Pipes : Local(a.pipe_table[j]) /\ UseOK(a.pipe_table[j], j \in L)
  BY DEF KInv
<1>2. d \in FDRecord /\ DescriptorOK(f, d, N[{f}]) /\ d.type \in {"TERMINAL", "PIPE_READ", "PIPE_WRITE"}
  <2>1. d \in FDRecord
    BY <1>1, KernelFields
  <2> QED BY <1>1, <2>1 DEF TablesOK, FDRecord
<1>3. Measure(M) /\ M[{f}] = N[{f}] + 1
  BY <1>1, MeasurePlus
<1>4. \A g \in FDs : N[{g}] \in Nat /\ M[{g}] = IF g = f THEN N[{g}] + 1 ELSE N[{g}]
  <2> SUFFICES ASSUME NEW g \in FDs
               PROVE  N[{g}] \in Nat /\ M[{g}] = IF g = f THEN N[{g}] + 1 ELSE N[{g}]
    OBVIOUS
  <2>1. {g} \in SUBSET FDs
    OBVIOUS
  <2> QED BY <1>1, <2>1, PlusMinusValues
<1>5. HeldOK(a, M)
  <2> HIDE DEF M
  <2>1. \A g \in FDs : N[{g}] > 0 => M[{g}] > 0
    BY ONLY <1>4
  <2> QED BY <1>1, <2>1 DEF HeldOK, Ends
<1>6. /\ c = [a EXCEPT !.fd_table[f].refcount = @ + 1]
      /\ c \in PipeKernel /\ c.pipe_table = a.pipe_table
  <2> DEFINE e == [a.fd_table[f] EXCEPT !.refcount = M[{f}]]
  <2>1. e \in FDRecord
    BY <1>2, <1>3, <1>4 DEF FDRecord
  <2>2. d.refcount + 1 = M[{f}]
    BY <1>2, <1>3 DEF DescriptorOK
  <2> HIDE DEF M
  <2>3. c \in PipeKernel /\ c.pipe_table = a.pipe_table
    <3>1. c = FDIn(a, f, e)
      BY DEF Recount
    <3> HIDE DEF c, e
    <3> QED BY <1>1, <2>1, <3>1, FDInFields
  <2> QED BY <2>2, <2>3 DEF Recount, FDIn
<1>7. fd_valid(a, f)
  BY DEF fd_valid
<1>8. b = CASE d.type = "PIPE_READ" -> pipe_open_read(c, d.data)
            [] d.type = "PIPE_WRITE" -> pipe_open_write(c, d.data)
            [] OTHER -> c
  <2> HIDE DEF c
  <2> QED BY <1>2, <1>6, <1>7 DEF fd_incref
<1>9. \A j \in Pipes, t \in {"PIPE_READ", "PIPE_WRITE"} :
        /\ N[Ends(a, j, t)] \in Nat /\ M[Ends(a, j, t)] \in Int
        /\ d.type = t /\ d.data = j => M[Ends(a, j, t)] = N[Ends(a, j, t)] + 1
        /\ ~(d.type = t /\ d.data = j) => M[Ends(a, j, t)] = N[Ends(a, j, t)]
  <2>1. Measure(N) /\ OneMore(N, f, M)
    BY <1>1 DEF OneMore
  <2> HIDE DEF M, c
  <2>2. \A j, t : Hits(a, f, j, t) <=> d.type = t /\ d.data = j
    BY DEF Hits
  <2>3. EndsMore(a, N, f, M)
    BY ONLY <2>1, f \in FDs, EndsPlus
  <2> QED BY ONLY <2>2, <2>3 DEF EndsMore
<1> HIDE DEF M
<1>10. CASE d.type = "TERMINAL"
  <2> HIDE DEF c
  <2>1. b = c
    BY <1>8, <1>10
  <2>2. NULL \notin Pipes
    BY DEF NULL, Pipes
  <2>3. \A j \in Pipes : /\ M[Ends(a, j, "PIPE_READ")] = N[Ends(a, j, "PIPE_READ")]
                         /\ M[Ends(a, j, "PIPE_WRITE")] = N[Ends(a, j, "PIPE_WRITE")]
                         /\ j \in M2 <=> j \in L
    BY <1>9, <1>10
  <2>4. KInv(b, M, fr, M2, C) /\ Shrinks(a, b) /\ SameTypes(a, b)
    <3>1. Recounts(a, N, L, f, b, M, M2, NULL)
      BY <1>3, <1>4, <1>5, <2>1, <2>2, <2>3 DEF Recounts, c
    <3> QED BY <3>1, Counted
  <2> QED BY <2>4 DEF M
<1>11. ASSUME NEW i, i = d.data, d.type \in {"PIPE_READ", "PIPE_WRITE"}
       PROVE  KInv(b, M, fr, M2, C) /\ Shrinks(a, b) /\ SameTypes(a, b)
  <2> DEFINE q == c.pipe_table[i]
  <2>1. i \in Pipes
    BY <1>2, <1>11 DEF DescriptorOK
  <2>2. /\ q = a.pipe_table[i] /\ Local(q) /\ q.in_use
        /\ q.open_read = N[Ends(a, i, "PIPE_READ")] /\ q.open_write = N[Ends(a, i, "PIPE_WRITE")]
    BY <1>1, <1>6, <1>11, <2>1 DEF TablesOK
  <2> HIDE DEF c, q
  <2>3. PICK W : /\ On(c, b, i, W) /\ Settles(q, b.pipe_table[i], W)
                 /\ b.pipe_table[i].open_read = M[Ends(a, i, "PIPE_READ")]
                 /\ b.pipe_table[i].open_write = M[Ends(a, i, "PIPE_WRITE")]
                 /\ b.pipe_table[i].in_use
                 /\ b.pipe_table[i].open_read > 0 \/ b.pipe_table[i].open_write > 0
    <3>1. CASE d.type = "PIPE_READ"
      <4>1. b = pipe_open_read(c, i)
        BY <1>8, <1>11, <3>1
      <4>2. PICK W : /\ On(c, b, i, W) /\ Settles(q, b.pipe_table[i], W)
                     /\ b.pipe_table[i].open_read = q.open_read + 1
                     /\ b.pipe_table[i].open_write = q.open_write /\ b.pipe_table[i].in_use
        BY <1>6, <2>1, <2>2, <4>1, OpenRead DEF q
      <4>3. /\ M[Ends(a, i, "PIPE_READ")] = N[Ends(a, i, "PIPE_READ")] + 1
            /\ M[Ends(a, i, "PIPE_WRITE")] = N[Ends(a, i, "PIPE_WRITE")]
            /\ N[Ends(a, i, "PIPE_READ")] + 1 > 0
        BY <1>9, <1>11, <2>1, <3>1
      <4> QED BY <2>2, <4>2, <4>3
    <3>2. CASE d.type = "PIPE_WRITE"
      <4>1. b = pipe_open_write(c, i)
        BY <1>8, <1>11, <3>2
      <4>2. PICK W : /\ On(c, b, i, W) /\ Settles(q, b.pipe_table[i], W)
                     /\ b.pipe_table[i].open_write = q.open_write + 1
                     /\ b.pipe_table[i].open_read = q.open_read /\ b.pipe_table[i].in_use
        BY <1>6, <2>1, <2>2, <4>1, OpenWrite DEF q
      <4>3. /\ M[Ends(a, i, "PIPE_WRITE")] = N[Ends(a, i, "PIPE_WRITE")] + 1
            /\ M[Ends(a, i, "PIPE_READ")] = N[Ends(a, i, "PIPE_READ")]
            /\ N[Ends(a, i, "PIPE_WRITE")] + 1 > 0
        BY <1>9, <1>11, <2>1, <3>2
      <4> QED BY <2>2, <4>2, <4>3
    <3> QED BY <1>11, <3>1, <3>2
  <2>4. UseOK(b.pipe_table[i], i \in M2)
    BY <1>11, <2>1, <2>3 DEF UseOK
  <2>5. \A j \in Pipes : j # i => /\ M[Ends(a, j, "PIPE_READ")] = N[Ends(a, j, "PIPE_READ")]
                                  /\ M[Ends(a, j, "PIPE_WRITE")] = N[Ends(a, j, "PIPE_WRITE")]
                                  /\ j \in M2 <=> j \in L
    BY <1>9, <1>11
  <2>6. \A g \in FDs \ {f} : M[{g}] = N[{g}]
    BY <1>4
  <2>7. Moves(c, b, i)
    BY <2>3 DEF Moves, q
  <2>8. Recounts(a, N, L, f, b, M, M2, i)
    BY <1>3, <1>5, <2>1, <2>3, <2>4, <2>5, <2>6, <2>7 DEF Recounts, c
  <2> QED BY <2>8, Counted
<1> QED BY <1>2, <1>10, <1>11 DEF M

\* The end of a pipe is closed after its descriptor has been told.
Closes(a, f, M, b) == b = close_end(Recount(a, f, M[{f}]), a.fd_table[f])

\* The pipe whose end f is learns that a reference goes.
LEMMA CloseEnd ==
  ASSUME NEW a, NEW N, NEW fr, NEW L, NEW C, KInv(a, N, fr, L, C),
         NEW f \in FDs, N[{f}] > 0, NEW d, d = a.fd_table[f],
         NEW M, OneLess(N, f, M), HeldOK(a, M), NEW b, Closes(a, f, M, b)
  PROVE  /\ d.type \in {"TERMINAL", "PIPE_READ", "PIPE_WRITE"} /\ d.refcount = M[{f}] + 1
         /\ M[{f}] \in Nat /\ \A g \in FDs \ {f} : M[{g}] = N[{g}]
         /\ KInv(b, M, fr, L, C) /\ Shrinks(a, b) /\ SameTypes(a, b)
<1> DEFINE c == Recount(a, f, M[{f}])
<1>1. /\ a \in PipeKernel /\ Measure(N) /\ TablesOK(a, N)
      /\ \A j \in Pipes : Local(a.pipe_table[j]) /\ UseOK(a.pipe_table[j], j \in L)
  BY DEF KInv
<1>2. d \in FDRecord /\ DescriptorOK(f, d, N[{f}]) /\ d.type \in {"TERMINAL", "PIPE_READ", "PIPE_WRITE"}
  <2>1. d \in FDRecord
    BY <1>1, KernelFields
  <2>2. DescriptorOK(f, d, N[{f}])
    BY <1>1 DEF TablesOK
  <2>3. N[{f}] # 0
    OBVIOUS
  <2> QED BY <2>1, <2>2, <2>3 DEF DescriptorOK, FDRecord
<1>3. Measure(M) /\ M[{f}] = N[{f}] - 1
  BY <1>1, MeasureMinus DEF OneLess
<1>4. \A g \in FDs : N[{g}] \in Nat /\ M[{g}] \in Nat /\ (g # f => M[{g}] = N[{g}])
  <2> SUFFICES ASSUME NEW g \in FDs
               PROVE  N[{g}] \in Nat /\ M[{g}] \in Nat /\ (g # f => M[{g}] = N[{g}])
    OBVIOUS
  <2>1. {g} \in SUBSET FDs
    OBVIOUS
  <2> QED BY <1>1, <1>3, <2>1 DEF OneLess, Minus, Measure
<1>5. /\ d.refcount = M[{f}] + 1 /\ c \in PipeKernel /\ c.pipe_table = a.pipe_table
  <2> DEFINE e == [a.fd_table[f] EXCEPT !.refcount = M[{f}]]
  <2>1. e \in FDRecord
    BY <1>2, <1>4 DEF FDRecord
  <2>2. d.refcount = M[{f}] + 1
    <3>1. d.refcount = N[{f}] /\ N[{f}] \in Nat
      BY <1>2, <1>4 DEF DescriptorOK
    <3> QED BY ONLY <1>3, <3>1
  <2>3. c = FDIn(a, f, e)
    BY DEF Recount
  <2> HIDE DEF c, e
  <2> QED BY <1>1, <2>1, <2>2, <2>3, FDInFields
<1>6. \A j \in Pipes, t \in {"PIPE_READ", "PIPE_WRITE"} :
        /\ N[Ends(a, j, t)] \in Nat /\ M[Ends(a, j, t)] \in Int
        /\ d.type = t /\ d.data = j => N[Ends(a, j, t)] = M[Ends(a, j, t)] + 1
        /\ ~(d.type = t /\ d.data = j) => M[Ends(a, j, t)] = N[Ends(a, j, t)]
  <2>1. Measure(N)
    BY <1>1
  <2> HIDE DEF c
  <2>2. \A j, t : Hits(a, f, j, t) <=> d.type = t /\ d.data = j
    BY DEF Hits
  <2>3. EndsLess(a, N, f, M)
    BY ONLY <2>1, OneLess(N, f, M), f \in FDs, EndsMinus
  <2> QED BY ONLY <2>2, <2>3 DEF EndsLess
<1>7. \A j \in Pipes, t \in {"PIPE_READ", "PIPE_WRITE"} :
        /\ M[Ends(a, j, t)] \in Nat
        /\ (\E g \in Ends(a, j, t) : M[{g}] > 0) => M[Ends(a, j, t)] > 0
  <2> SUFFICES ASSUME NEW j \in Pipes, NEW t \in {"PIPE_READ", "PIPE_WRITE"}
               PROVE  /\ M[Ends(a, j, t)] \in Nat
                      /\ (\E g \in Ends(a, j, t) : M[{g}] > 0) => M[Ends(a, j, t)] > 0
    OBVIOUS
  <2> DEFINE T == Ends(a, j, t)
  <2>1. T \in SUBSET FDs
    BY DEF Ends
  <2> HIDE DEF T
  <2>2. M[T] \in Nat
    BY <1>3, <2>1 DEF Measure
  <2>3. ASSUME NEW g \in T, M[{g}] > 0 PROVE M[T] > 0
    <3>1. g \in FDs
      BY <2>1
    <3>2. M[T] >= M[{g}] /\ M[{g}] \in Nat
      BY <1>3, <2>1, <3>1, MeasureFacts
    <3> QED BY ONLY <2>2, <2>3, <3>2
  <2> QED BY <2>2, <2>3 DEF T
<1>8. CASE d.type = "TERMINAL"
  <2> HIDE DEF c
  <2>1. b = c
    BY <1>8 DEF Closes, close_end, c
  <2>2. NULL \notin Pipes
    BY DEF NULL, Pipes
  <2>3. \A j \in Pipes : /\ M[Ends(a, j, "PIPE_READ")] = N[Ends(a, j, "PIPE_READ")]
                         /\ M[Ends(a, j, "PIPE_WRITE")] = N[Ends(a, j, "PIPE_WRITE")]
    BY <1>6, <1>8
  <2>4. Recounts(a, N, L, f, b, M, L, NULL)
    BY <1>3, <1>4, <1>8, <2>1, <2>2, <2>3 DEF Recounts, c
  <2> QED BY <1>2, <1>4, <1>5, <2>4, Counted
<1>9. ASSUME NEW i, i = d.data, d.type \in {"PIPE_READ", "PIPE_WRITE"}
      PROVE  KInv(b, M, fr, L, C) /\ Shrinks(a, b) /\ SameTypes(a, b)
  <2> DEFINE q == c.pipe_table[i]
  <2>1. i \in Pipes
    BY <1>2, <1>9 DEF DescriptorOK
  <2>2. /\ q = a.pipe_table[i] /\ Local(q) /\ UseOK(q, i \in L)
        /\ q.open_read = N[Ends(a, i, "PIPE_READ")] /\ q.open_write = N[Ends(a, i, "PIPE_WRITE")]
    BY <1>1, <1>5, <2>1 DEF TablesOK
  <2>3. b = IF d.type = "PIPE_READ" THEN pipe_close_read(c, i) ELSE pipe_close_write(c, i)
    <3> HIDE DEF c
    <3> QED BY <1>9 DEF Closes, close_end, c
  <2>4. \A p \in Procs : /\ Reads(q, p) => M[Ends(a, i, "PIPE_READ")] > 0
                         /\ Writes(q, p) => M[Ends(a, i, "PIPE_WRITE")] > 0
    BY <1>7, <2>1, <2>2 DEF HeldOK
  <2> HIDE DEF c, q
  <2>5. PICK W : /\ On(c, b, i, W) /\ Settles(q, b.pipe_table[i], W)
                 /\ b.pipe_table[i].open_read = M[Ends(a, i, "PIPE_READ")]
                 /\ b.pipe_table[i].open_write = M[Ends(a, i, "PIPE_WRITE")]
                 /\ b.pipe_table[i].in_use <=> \/ b.pipe_table[i].open_read > 0
                                               \/ b.pipe_table[i].open_write > 0
                 /\ i \notin L
    <3>1. CASE d.type = "PIPE_READ"
      <4>1. b = pipe_close_read(c, i)
        BY <2>3, <3>1
      <4>2. /\ M[Ends(a, i, "PIPE_READ")] = q.open_read - 1
            /\ M[Ends(a, i, "PIPE_WRITE")] = q.open_write
            /\ q.open_read \in Nat /\ M[Ends(a, i, "PIPE_READ")] \in Nat
        BY <1>6, <1>7, <1>9, <2>1, <2>2, <3>1
      <4>3. /\ q.open_read > 0 /\ q.open_read # 0
            /\ \A p \in Procs : /\ Reads(q, p) => q.open_read > 1
                                /\ Writes(q, p) => q.open_write > 0
        BY <2>4, <4>2
      <4>4. q.in_use /\ i \notin L
        BY <2>2, <4>3 DEF UseOK
      <4>5. PICK W : /\ On(c, b, i, W) /\ Settles(q, b.pipe_table[i], W)
                     /\ b.pipe_table[i].open_read = q.open_read - 1
                     /\ b.pipe_table[i].open_write = q.open_write
                     /\ b.pipe_table[i].in_use <=> \/ b.pipe_table[i].open_read > 0
                                                   \/ b.pipe_table[i].open_write > 0
        BY <1>5, <2>1, <2>2, <4>1, <4>3, <4>4, CloseRead DEF q
      <4> QED BY <4>2, <4>4, <4>5
    <3>2. CASE d.type = "PIPE_WRITE"
      <4>1. b = pipe_close_write(c, i)
        BY <2>3, <3>2
      <4>2. /\ M[Ends(a, i, "PIPE_WRITE")] = q.open_write - 1
            /\ M[Ends(a, i, "PIPE_READ")] = q.open_read
            /\ q.open_write \in Nat /\ M[Ends(a, i, "PIPE_WRITE")] \in Nat
        BY <1>6, <1>7, <1>9, <2>1, <2>2, <3>2
      <4>3. /\ q.open_write > 0 /\ q.open_write # 0
            /\ \A p \in Procs : /\ Reads(q, p) => q.open_read > 0
                                /\ Writes(q, p) => q.open_write > 1
        BY <2>4, <4>2
      <4>4. q.in_use /\ i \notin L
        BY <2>2, <4>3 DEF UseOK
      <4>5. PICK W : /\ On(c, b, i, W) /\ Settles(q, b.pipe_table[i], W)
                     /\ b.pipe_table[i].open_write = q.open_write - 1
                     /\ b.pipe_table[i].open_read = q.open_read
                     /\ b.pipe_table[i].in_use <=> \/ b.pipe_table[i].open_read > 0
                                                   \/ b.pipe_table[i].open_write > 0
        BY <1>5, <2>1, <2>2, <4>1, <4>3, <4>4, CloseWrite DEF q
      <4> QED BY <4>2, <4>4, <4>5
    <3> QED BY <1>9, <3>1, <3>2
  <2>6. UseOK(b.pipe_table[i], i \in L)
    BY <2>5 DEF UseOK
  <2>7. \A j \in Pipes : j # i => /\ M[Ends(a, j, "PIPE_READ")] = N[Ends(a, j, "PIPE_READ")]
                                  /\ M[Ends(a, j, "PIPE_WRITE")] = N[Ends(a, j, "PIPE_WRITE")]
    BY <1>6, <1>9
  <2>8. Moves(c, b, i)
    BY <2>5 DEF Moves, q
  <2>9. Recounts(a, N, L, f, b, M, L, i)
    BY <1>3, <1>4, <1>9, <2>1, <2>5, <2>6, <2>7, <2>8 DEF Recounts, c
  <2> QED BY <2>9, Counted
<1> QED BY <1>2, <1>4, <1>5, <1>8, <1>9

\* The types and pipes of the descriptors are the same, but for f after its last
\* reference.
TypesLess(a, b, f, M) == \A g \in FDs : g # f \/ M[{g}] > 0 \/ g \in {0, 1} =>
                           /\ b.fd_table[g].type = a.fd_table[g].type
                           /\ b.fd_table[g].data = a.fd_table[g].data

\* fd_decref: one reference to f less, and f is free after the last one.
LEMMA DecRef ==
  ASSUME NEW a, NEW N, NEW fr, NEW L, NEW C, KInv(a, N, fr, L, C),
         NEW f \in FDs, N[{f}] > 0, NEW M, OneLess(N, f, M), HeldOK(a, M),
         NEW b, b = fd_decref(a, f)
  PROVE  KInv(b, M, fr, L, C) /\ Shrinks(a, b) /\ TypesLess(a, b, f, M)
<1> DEFINE d == a.fd_table[f]
           c == close_end(Recount(a, f, M[{f}]), d)
<1>1. /\ d.type \in {"TERMINAL", "PIPE_READ", "PIPE_WRITE"} /\ d.refcount = M[{f}] + 1
      /\ M[{f}] \in Nat /\ \A g \in FDs \ {f} : M[{g}] = N[{g}]
      /\ KInv(c, M, fr, L, C) /\ Shrinks(a, c) /\ SameTypes(a, c)
  <2>1. Closes(a, f, M, c)
    BY DEF Closes
  <2> HIDE DEF c, d
  <2> QED BY <2>1, CloseEnd DEF d
<1>2. b = IF c.fd_table[f].refcount > 0 \/ d.type = "TERMINAL" THEN c
          ELSE [c EXCEPT !.fd_table[f] = [@ EXCEPT !.type = "NONE", !.data = NULL]]
  <2>1. Recount(a, f, M[{f}]) = [a EXCEPT !.fd_table[f].refcount = @ - 1]
    <3>1. d.refcount - 1 = M[{f}]
      BY <1>1
    <3> QED BY <3>1 DEF Recount, FDIn
  <2>2. fd_valid(a, f) /\ d.refcount > 0
    BY <1>1 DEF fd_valid
  <2>3. b = LET k1 == close_end([a EXCEPT !.fd_table[f].refcount = @ - 1], d)
            IN IF k1.fd_table[f].refcount > 0 \/ d.type = "TERMINAL" THEN k1
               ELSE [k1 EXCEPT !.fd_table[f] = [@ EXCEPT !.type = "NONE", !.data = NULL]]
    BY <2>2 DEF fd_decref
  <2> QED BY ONLY <2>1, <2>3
<1> HIDE DEF c
<1>3. TablesOK(c, M) /\ c \in PipeKernel
  BY <1>1 DEF KInv
<1>4. c.fd_table[f] \in FDRecord /\ c.fd_table[f].refcount = M[{f}] /\ c.fd_table[f].type = d.type
  BY <1>1, <1>3, KernelFields DEF TablesOK, DescriptorOK, SameTypes
<1>5. CASE M[{f}] > 0 \/ d.type = "TERMINAL"
  <2>1. b = c
    BY <1>2, <1>4, <1>5
  <2> QED BY <1>1, <2>1 DEF SameTypes, TypesLess
<1>6. CASE ~(M[{f}] > 0 \/ d.type = "TERMINAL")
  <2> DEFINE e == [c.fd_table[f] EXCEPT !.type = "NONE", !.data = NULL]
  <2>1. b = FDIn(c, f, e)
    BY <1>2, <1>4, <1>6 DEF FDIn
  <2>2. M[{f}] = 0
    BY <1>1, <1>6
  <2>3. e \in FDRecord /\ e.type = "NONE" /\ e.refcount = 0
    BY <1>4, <2>2 DEF FDRecord
  <2>4. f \in FDs \ {0, 1}
    BY <1>3, <1>4, <1>6 DEF TablesOK, DescriptorOK
  <2> HIDE DEF e
  <2>5. KInv(b, M, fr, L, C) /\ Shrinks(c, b)
    BY <1>1, <2>1, <2>2, <2>3, <2>4, Retype
  <2>6. Shrinks(a, b)
    BY <1>1, <2>5 DEF Shrinks, Waits
  <2>7. \A g \in FDs \ {f} : b.fd_table[g] = c.fd_table[g]
    BY <1>3, <2>1, <2>3, FDInFields
  <2>8. ~(M[{f}] > 0)
    BY <2>2
  <2> QED BY <1>1, <2>4, <2>5, <2>6, <2>7, <2>8 DEF SameTypes, TypesLess
<1> QED BY <1>5, <1>6

(***************************************************************************)
(* The references there are                                                *)
(***************************************************************************)
\* The descriptor tables of the PCBs.
FDTables == [Procs -> [0 .. 1 -> FDs \cup {NoFD}]]

\* The entries of PCBs that are in T.
Entries(fd, T) == {u \in Procs \X (0 .. 1) : fd[u[1]][u[2]] \in T}

\* The entries can be counted.
LEMMA EntriesFinite ==
  ASSUME NEW fd, NEW T
  PROVE  IsFiniteSet(Entries(fd, T)) /\ Cardinality(Entries(fd, T)) \in Nat
<1>1. IsFiniteSet(Procs) /\ IsFiniteSet(0 .. 1)
  <2>1. 0 \in Int /\ 1 \in Int
    OBVIOUS
  <2>2. IsFiniteSet(0 .. 1)
    BY ONLY <2>1, FS_Interval
  <2> QED BY <2>2, PipeAssumption
<1>2. IsFiniteSet(Procs \X (0 .. 1))
  BY <1>1, FS_Product
<1>3. Entries(fd, T) \in SUBSET (Procs \X (0 .. 1))
  BY DEF Entries
<1>4. IsFiniteSet(Entries(fd, T))
  BY <1>2, <1>3, FS_Subset
<1> QED BY <1>4, FS_CardinalityType

\* The descriptors can be counted.
LEMMA FDsFinite ==
  ASSUME NEW G \in SUBSET FDs
  PROVE  IsFiniteSet(G) /\ Cardinality(G) \in Nat
<1>1. IsFiniteSet(FDs)
  BY FDAssumption, FS_Interval DEF FDs
<1>2. IsFiniteSet(G)
  BY <1>1, FS_Subset
<1> QED BY <1>2, FS_CardinalityType

\* Disjoint sets.
LEMMA DisjointSizes ==
  ASSUME NEW S, NEW T, IsFiniteSet(S), IsFiniteSet(T), S \cap T = {}
  PROVE  Cardinality(S \cup T) = Cardinality(S) + Cardinality(T)
<1>1. Cardinality(S) \in Nat /\ Cardinality(T) \in Nat
  BY FS_CardinalityType
<1>2. Cardinality(S \cup T) = Cardinality(S) + Cardinality(T) - 0
  BY FS_Union, FS_EmptySet
<1> QED BY ONLY <1>1, <1>2

\* What counts as a reference to a set of descriptors.
LEMMA RefsValue ==
  ASSUME NEW fd, NEW G, NEW T \in SUBSET FDs
  PROVE  RefsOf(fd, G)[T] = Cardinality(Entries(fd, T)) + Cardinality(G \cap T)
BY DEF RefsOf, Entries

\* References are counted by a measure.
LEMMA RefsMeasure ==
  ASSUME NEW fd, NEW G \in SUBSET FDs
  PROVE  Measure(RefsOf(fd, G))
<1> DEFINE N == RefsOf(fd, G)
<1>1. ASSUME NEW T \in SUBSET FDs
      PROVE  /\ Cardinality(Entries(fd, T)) \in Nat /\ Cardinality(G \cap T) \in Nat
             /\ IsFiniteSet(Entries(fd, T)) /\ IsFiniteSet(G \cap T)
  <2>1. G \cap T \in SUBSET FDs
    OBVIOUS
  <2> QED BY <2>1, EntriesFinite, FDsFinite
<1>2. N \in [SUBSET FDs -> Nat]
  <2>1. ASSUME NEW T \in SUBSET FDs
        PROVE  Cardinality(Entries(fd, T)) + Cardinality(G \cap T) \in Nat
    BY <1>1
  <2>2. N = [T \in SUBSET FDs |-> Cardinality(Entries(fd, T)) + Cardinality(G \cap T)]
    BY DEF RefsOf, Entries
  <2> QED BY ONLY <2>1, <2>2
<1>3. N[{}] = 0
  <2>1. Entries(fd, {}) = {} /\ G \cap {} = {} /\ {} \in SUBSET FDs
    BY DEF Entries
  <2>2. Cardinality({}) = 0
    BY FS_EmptySet
  <2>3. N[{}] = Cardinality(Entries(fd, {})) + Cardinality(G \cap {})
    BY <2>1, RefsValue
  <2>4. N[{}] = 0 + 0
    BY <2>1, <2>2, <2>3
  <2> QED BY ONLY <2>4
<1>4. ASSUME NEW T \in SUBSET FDs, NEW f \in T
      PROVE  N[T] = N[T \ {f}] + N[{f}]
  <2> DEFINE A == Entries(fd, T \ {f})
             B == Entries(fd, {f})
             D == G \cap (T \ {f})
             E == G \cap {f}
  <2>1. A \cup B = Entries(fd, T) /\ A \cap B = {} /\ D \cup E = G \cap T /\ D \cap E = {}
    BY DEF Entries
  <2>2. T \ {f} \in SUBSET FDs /\ {f} \in SUBSET FDs
    OBVIOUS
  <2>3. /\ Cardinality(A) \in Nat /\ Cardinality(D) \in Nat /\ IsFiniteSet(A) /\ IsFiniteSet(D)
        /\ Cardinality(B) \in Nat /\ Cardinality(E) \in Nat /\ IsFiniteSet(B) /\ IsFiniteSet(E)
    BY <1>1, <2>2
  <2>4. /\ N[T] = Cardinality(Entries(fd, T)) + Cardinality(G \cap T)
        /\ N[T \ {f}] = Cardinality(A) + Cardinality(D)
        /\ N[{f}] = Cardinality(B) + Cardinality(E)
    BY <2>2, RefsValue, ZenonT(60)
  <2> HIDE DEF A, B, D, E, N
  <2>5. Cardinality(A \cup B) = Cardinality(A) + Cardinality(B)
    BY ONLY <2>1, <2>3, DisjointSizes
  <2>6. Cardinality(D \cup E) = Cardinality(D) + Cardinality(E)
    BY ONLY <2>1, <2>3, DisjointSizes
  <2>7. N[T] = Cardinality(A \cup B) + Cardinality(D \cup E)
    BY ONLY <2>1, <2>4
  <2> QED BY ONLY <2>3, <2>4, <2>5, <2>6, <2>7
<1> QED BY <1>2, <1>3, <1>4 DEF Measure

\* A descriptor somebody owns, or was given, has a reference.
LEMMA Owned ==
  ASSUME NEW fd \in FDTables, NEW G \in SUBSET FDs, NEW f \in FDs,
         f \in G \/ \E p \in Procs, s \in 0 .. 1 : fd[p][s] = f
  PROVE  RefsOf(fd, G)[{f}] > 0
<1> DEFINE A == Entries(fd, {f})
           E == G \cap {f}
<1>1. {f} \in SUBSET FDs /\ E \in SUBSET FDs
  OBVIOUS
<1>2. /\ IsFiniteSet(A) /\ Cardinality(A) \in Nat /\ IsFiniteSet(E) /\ Cardinality(E) \in Nat
      /\ RefsOf(fd, G)[{f}] = Cardinality(A) + Cardinality(E)
  BY <1>1, EntriesFinite, FDsFinite, RefsValue
<1>3. A # {} \/ E # {}
  <2>1. CASE f \in G
    BY <2>1
  <2>2. CASE \E p \in Procs, s \in 0 .. 1 : fd[p][s] = f
    <3>1. PICK p \in Procs, s \in 0 .. 1 : fd[p][s] = f
      BY <2>2
    <3>2. <<p, s>> \in A
      BY <3>1 DEF Entries
    <3> QED BY <3>2
  <2> QED BY <2>1, <2>2
<1> HIDE DEF A, E
<1>4. Cardinality(A) # 0 \/ Cardinality(E) # 0
  BY <1>2, <1>3, FS_EmptySet
<1> QED BY ONLY <1>2, <1>4

\* The entry s of p's PCB becomes f.
Fills(fd, p, s, f, e) == e = [fd EXCEPT ![p][s] = f]

\* An entry that was empty becomes f.
LEMMA RefsEntry ==
  ASSUME NEW fd \in FDTables, NEW G \in SUBSET FDs, NEW p \in Procs, NEW s \in 0 .. 1,
         fd[p][s] = NoFD, NEW f \in FDs, NEW e, Fills(fd, p, s, f, e)
  PROVE  e \in FDTables /\ OneMore(RefsOf(fd, G), f, RefsOf(e, G))
<1> DEFINE N == RefsOf(fd, G)
<1>1. e \in FDTables /\ \A x \in Procs, t \in 0 .. 1 : e[x][t] = IF x = p /\ t = s THEN f ELSE fd[x][t]
  BY DEF FDTables, Fills
<1>2. ASSUME NEW T \in SUBSET FDs
      PROVE  RefsOf(e, G)[T] = IF f \in T THEN N[T] + 1 ELSE N[T]
  <2>1. NoFD \notin T
    BY FDAssumption DEF NoFD, FDs
  <2> DEFINE A == Entries(fd, T)
             D == G \cap T
  <2>2. Entries(e, T) = IF f \in T THEN A \cup {<<p, s>>} ELSE A
    BY <1>1, <2>1 DEF Entries
  <2>3. <<p, s>> \notin A
    BY <2>1 DEF Entries
  <2>4. IsFiniteSet(A) /\ Cardinality(A) \in Nat /\ Cardinality(D) \in Nat
    <3>1. D \in SUBSET FDs
      OBVIOUS
    <3> QED BY <3>1, EntriesFinite, FDsFinite
  <2>5. /\ N[T] = Cardinality(A) + Cardinality(D)
        /\ RefsOf(e, G)[T] = Cardinality(Entries(e, T)) + Cardinality(D)
    BY RefsValue
  <2> HIDE DEF A, D, N
  <2>6. Cardinality(A \cup {<<p, s>>}) = Cardinality(A) + 1
    BY <2>3, <2>4, FS_AddElement
  <2> QED BY ONLY <2>2, <2>4, <2>5, <2>6
<1>3. RefsOf(e, G) = Plus(N, f)
  <2>1. RefsOf(e, G) = [T \in SUBSET FDs |-> RefsOf(e, G)[T]]
    BY DEF RefsOf
  <2> HIDE DEF N
  <2> QED BY <1>2, <2>1 DEF Plus
<1> QED BY <1>1, <1>3 DEF OneMore

\* f is given to somebody.
LEMMA RefsGiven ==
  ASSUME NEW fd, NEW G \in SUBSET FDs, NEW f \in FDs, f \notin G, NEW E, E = G \cup {f}
  PROVE  OneMore(RefsOf(fd, G), f, RefsOf(fd, E))
<1> DEFINE N == RefsOf(fd, G)
<1>1. ASSUME NEW T \in SUBSET FDs
      PROVE  RefsOf(fd, E)[T] = IF f \in T THEN N[T] + 1 ELSE N[T]
  <2> DEFINE A == Entries(fd, T)
             D == G \cap T
  <2>1. E \cap T = IF f \in T THEN D \cup {f} ELSE D
    OBVIOUS
  <2>2. f \notin D /\ D \in SUBSET FDs
    OBVIOUS
  <2>3. IsFiniteSet(D) /\ Cardinality(A) \in Nat /\ Cardinality(D) \in Nat
    BY <2>2, EntriesFinite, FDsFinite
  <2>4. /\ N[T] = Cardinality(A) + Cardinality(D)
        /\ RefsOf(fd, E)[T] = Cardinality(A) + Cardinality(E \cap T)
    BY RefsValue, ZenonT(60)
  <2> HIDE DEF A, D, N
  <2>5. Cardinality(D \cup {f}) = Cardinality(D) + 1
    BY <2>2, <2>3, FS_AddElement
  <2>6. CASE f \in T
    <3>1. RefsOf(fd, E)[T] = Cardinality(A) + Cardinality(D \cup {f})
      BY <2>1, <2>4, <2>6
    <3> QED BY ONLY <2>3, <2>4, <2>5, <2>6, <3>1
  <2>7. CASE f \notin T
    BY <2>1, <2>4, <2>7
  <2> QED BY <2>6, <2>7
<1>2. RefsOf(fd, E) = Plus(N, f)
  <2>1. RefsOf(fd, E) = [T \in SUBSET FDs |-> RefsOf(fd, E)[T]]
    BY DEF RefsOf
  <2> HIDE DEF N
  <2> QED BY <1>1, <2>1 DEF Plus
<1> QED BY <1>2 DEF OneMore

\* One less is the opposite of one more.
LEMMA MoreLess ==
  ASSUME NEW N, Measure(N), NEW f \in FDs, NEW M, OneMore(N, f, M)
  PROVE  OneLess(M, f, N)
<1>1. N \in [SUBSET FDs -> Nat]
  BY DEF Measure
<1>2. \A T \in SUBSET FDs : N[T] \in Nat /\ N[T] = IF f \in T THEN M[T] - 1 ELSE M[T]
  BY <1>1 DEF OneMore, Plus
<1> QED BY <1>1, <1>2 DEF OneLess, Minus

\* Whoever waits holds what it waits for, if everybody owns it.
LEMMA OwnersHold ==
  ASSUME NEW a, NEW fd \in FDTables, NEW rw \in [Procs -> SUBSET FDs], NEW G \in SUBSET FDs,
         \A p \in Procs : rw[p] \subseteq G, WaitersOwn(a, fd, rw)
  PROVE  HeldOK(a, RefsOf(fd, G))
<1>1. ASSUME NEW p \in Procs, NEW i, NEW t, NEW f \in Ends(a, i, t), Owns(fd, rw, p, f)
      PROVE  RefsOf(fd, G)[{f}] > 0
  <2>1. f \in FDs
    BY DEF Ends
  <2>2. f \in G \/ \E x \in Procs, s \in 0 .. 1 : fd[x][s] = f
    BY <1>1 DEF Owns
  <2> QED BY <2>1, <2>2, Owned
<1> DEFINE N == RefsOf(fd, G)
<1> HIDE DEF N
<1>2. \A p \in Procs : \A i, t : \A f \in Ends(a, i, t) : Owns(fd, rw, p, f) => N[{f}] > 0
  BY <1>1 DEF N
<1>3. HeldOK(a, N)
  BY <1>2 DEF HeldOK, WaitersOwn
<1> QED BY <1>3 DEF N

\* A descriptor with a reference is one of the terminal, or an end of a pipe in use.
LEMMA Referred ==
  ASSUME NEW a, NEW N, NEW fr, NEW L, NEW C, KInv(a, N, fr, L, C),
         NEW f \in FDs, N[{f}] > 0, NEW d, d = a.fd_table[f]
  PROVE  /\ d.type \in {"TERMINAL", "PIPE_READ", "PIPE_WRITE"}
         /\ d.type \in {"PIPE_READ", "PIPE_WRITE"} => /\ d.data \in Pipes \ L
                                                      /\ a.pipe_table[d.data].in_use
<1>1. a \in PipeKernel /\ Measure(N) /\ TablesOK(a, N) /\ d \in FDRecord
  BY KernelFields DEF KInv
<1>2. DescriptorOK(f, d, N[{f}])
  BY <1>1 DEF TablesOK
<1>3. d.type \in {"TERMINAL", "PIPE_READ", "PIPE_WRITE"}
  <2>1. d.type # "NONE"
    BY <1>2 DEF DescriptorOK
  <2> QED BY <1>1, <2>1 DEF FDRecord
<1>4. ASSUME NEW t \in {"PIPE_READ", "PIPE_WRITE"}, d.type = t
      PROVE  d.data \in Pipes \ L /\ a.pipe_table[d.data].in_use
  <2> DEFINE i == d.data
             T == Ends(a, i, t)
  <2>1. i \in Pipes
    BY <1>2, <1>4 DEF DescriptorOK
  <2>2. f \in T /\ T \in SUBSET FDs
    BY <1>4 DEF Ends
  <2> HIDE DEF T
  <2>3. N[T] >= N[{f}] /\ N[T] \in Nat /\ N[{f}] \in Nat
    BY <1>1, <2>2, MeasureFacts
  <2>4. N[T] > 0
    BY ONLY <2>3, N[{f}] > 0
  <2>5. a.pipe_table[i].open_read > 0 \/ a.pipe_table[i].open_write > 0
    BY <1>1, <1>4, <2>1, <2>4 DEF TablesOK, T
  <2>6. UseOK(a.pipe_table[i], i \in L)
    BY <2>1 DEF KInv
  <2>7. a.pipe_table[i].in_use
    BY ONLY <2>5, <2>6 DEF UseOK
  <2>8. i \notin L
    BY ONLY <2>5, <2>6 DEF UseOK
  <2> QED BY <2>1, <2>7, <2>8
<1> QED BY <1>3, <1>4

\* A pipe that is free again is no longer crowded.
LEMMA KCrowd ==
  ASSUME NEW a, NEW N, NEW fr, NEW L, KInv(a, N, fr, L, crowded)
  PROVE  KInv(a, N, fr, L, Crowd(a))
<1>1. ASSUME NEW i \in Pipes, i \notin Crowd(a) PROVE Calm(a.pipe_table[i])
  <2>1. CASE a.pipe_table[i].in_use
    BY <1>1, <2>1 DEF Crowd, KInv
  <2>2. CASE ~a.pipe_table[i].in_use
    BY <2>2, FreePipeOK DEF KInv, Local
  <2> QED BY <2>1, <2>2
<1> QED BY <1>1 DEF KInv

\* The PCBs are rewritten.
FDsIn(a, fd) == [a EXCEPT !.fd = fd]

\* Rewriting the PCBs disturbs nothing but the number of references.
LEMMA FDsInKeeps ==
  ASSUME NEW a, NEW N, NEW fr, NEW L, NEW C, KInv(a, N, fr, L, C), NEW fd \in FDTables,
         NEW b, b = FDsIn(a, fd)
  PROVE  /\ KInv(b, N, fr, L, C) /\ b.fd = fd
         /\ b.state = a.state /\ b.fd_table = a.fd_table /\ b.pipe_table = a.pipe_table
<1>1. a \in PipeKernel
  BY DEF KInv
<1>2. /\ b \in PipeKernel /\ b.fd = fd
      /\ b.state = a.state /\ b.fd_table = a.fd_table /\ b.pipe_table = a.pipe_table
  BY <1>1 DEF FDsIn, PipeKernel, FDTables
<1>3. \A i, t : Ends(b, i, t) = Ends(a, i, t)
  BY <1>2 DEF Ends
<1>4. SleepOK(b, fr)
  BY <1>2 DEF KInv, SleepOK
<1>5. TablesOK(b, N)
  BY <1>2, <1>3 DEF KInv, TablesOK
<1>6. HeldOK(b, N)
  BY <1>2, <1>3 DEF KInv, HeldOK
<1>7. KInv(b, N, fr, L, C)
  BY <1>2, <1>4, <1>5, <1>6 DEF KInv
<1> QED BY <1>2, <1>7

\* r is what fd_create_pipe leaves and returns: nothing, with the table full, or
\* a new end of pipe i.
Created(a, N, fr, M2, C, i, t, r) ==
  \/ /\ r.fd = NoFD /\ r.k = a
     /\ \A f \in FDs : a.fd_table[f].type # "NONE"
  \/ /\ r.fd \in FDs \ {0, 1} /\ N[{r.fd}] = 0 /\ a.fd_table[r.fd].type = "NONE"
     /\ KInv(r.k, Plus(N, r.fd), fr, M2, C) /\ Shrinks(a, r.k)
     /\ r.k.fd_table[r.fd].type = t /\ r.k.fd_table[r.fd].data = i
     /\ TypesBut(a, r.k, r.fd)

\* fd_create_pipe: a free descriptor becomes an end of pipe i.
LEMMA CreateEnd ==
  ASSUME NEW a, NEW N, NEW fr, NEW L, NEW C, KInv(a, N, fr, L, C),
         NEW i \in Pipes, a.pipe_table[i].in_use, NEW t \in {"PIPE_READ", "PIPE_WRITE"},
         NEW M2, \A j \in Pipes : j \in M2 <=> j \in L /\ j # i
  PROVE  Created(a, N, fr, M2, C, i, t, fd_create_pipe(a, i, t))
<1> DEFINE free == {f \in FDs : a.fd_table[f].type = "NONE"}
           f == Min(free)
           d == [type |-> t, refcount |-> 0, data |-> i]
           c == FDIn(a, f, d)
           r == fd_create_pipe(a, i, t)
<1>1. r = IF free = {} THEN [fd |-> NoFD, k |-> a] ELSE [fd |-> f, k |-> fd_incref(c, f)]
  BY DEF fd_create_pipe, FDIn
<1> HIDE DEF r
<1>2. CASE free = {}
  <2>1. r = [fd |-> NoFD, k |-> a]
    BY <1>1, <1>2
  <2>2. r.fd = NoFD /\ r.k = a
    BY ONLY <2>1
  <2>3. Created(a, N, fr, M2, C, i, t, r)
    BY <1>2, <2>2 DEF Created
  <2> QED BY <2>3 DEF r
<1>3. CASE free # {}
  <2>1. free \subseteq Nat
    BY DEF FDs
  <2> HIDE DEF free
  <2>2. f \in free
    BY <1>3, <2>1, MinOfNat
  <2> HIDE DEF f
  <2>3. f \in FDs /\ a.fd_table[f].type = "NONE"
    BY <2>2 DEF free
  <2>4. a \in PipeKernel /\ DescriptorOK(f, a.fd_table[f], N[{f}])
    BY <2>3 DEF KInv, TablesOK
  <2>5. f \in FDs \ {0, 1} /\ N[{f}] = 0
    BY <2>3, <2>4 DEF DescriptorOK
  <2>6. /\ d \in FDRecord /\ d.type # "TERMINAL" /\ d.refcount = 0 /\ d.data \in Pipes
        /\ d.type = t /\ d.data = i
    BY DEF FDRecord
  <2> HIDE DEF d
  <2>7. KInv(c, N, fr, L, C) /\ Shrinks(a, c)
    BY <2>5, <2>6, Retype
  <2>8. /\ c.fd_table[f] = d /\ \A g \in FDs \ {f} : c.fd_table[g] = a.fd_table[g]
        /\ c.pipe_table = a.pipe_table
    BY <2>4, <2>5, <2>6, FDInFields
  <2> HIDE DEF c
  <2> DEFINE b == fd_incref(c, f)
  <2>9. KInv(b, Plus(N, f), fr, M2, C) /\ Shrinks(c, b) /\ SameTypes(c, b)
    <3>1. f \in FDs /\ c.fd_table[f].type = t /\ c.fd_table[f].data = i /\ c.fd_table[f].type # "NONE"
      BY <2>5, <2>6, <2>8
    <3>2. c.pipe_table[c.fd_table[f].data].in_use
      BY <2>8, <3>1
    <3>3. \A j \in Pipes : j \in M2 <=> j \in L /\ ~(c.fd_table[f].type \in {"PIPE_READ", "PIPE_WRITE"}
                                                      /\ c.fd_table[f].data = j)
      BY <3>1
    <3> QED BY ONLY <2>7, <3>1, <3>2, <3>3, IncRef
  <2> HIDE DEF b
  <2>10. r.fd = f /\ r.k = b
    BY <1>1, <1>3 DEF b
  <2>11. Shrinks(a, b)
    BY ONLY <2>7, <2>9 DEF Shrinks, Waits
  <2>12. TypesBut(a, b, f)
    BY <2>8, <2>9 DEF SameTypes, TypesBut
  <2>13. b.fd_table[f].type = t /\ b.fd_table[f].data = i
    BY <2>5, <2>6, <2>8, <2>9 DEF SameTypes
  <2>14. Created(a, N, fr, M2, C, i, t, r)
    BY ONLY <2>3, <2>5, <2>9, <2>10, <2>11, <2>12, <2>13 DEF Created
  <2> QED BY <2>14 DEF r
<1> QED BY <1>2, <1>3

\* Of L only the pipes matter.
LEMMA LeakSame ==
  ASSUME NEW a, NEW N, NEW fr, NEW L, NEW C, KInv(a, N, fr, L, C),
         NEW M2, \A j \in Pipes : j \in M2 <=> j \in L
  PROVE  KInv(a, N, fr, M2, C)
<1>1. ASSUME NEW j \in Pipes PROVE UseOK(a.pipe_table[j], j \in M2)
  BY DEF KInv, UseOK
<1> QED BY <1>1 DEF KInv

\* pipe_open: the pipe is in use, although nobody may have an end of it.
LEMMA OpenKeeps ==
  ASSUME NEW a, NEW N, NEW fr, NEW L, NEW C, KInv(a, N, fr, L, C),
         NEW name \in Names \cup {Anonymous}, NEW o, o = pipe_open(a, name),
         NEW M2, \A j \in Pipes :
                   j \in M2 <=> j \in L \/ (o.pipe = j /\ ~a.pipe_table[j].in_use)
  PROVE  \/ o.pipe = NULL /\ o.k = a
         \/ /\ o.pipe \in Pipes /\ KInv(o.k, N, fr, M2, C) /\ Shrinks(a, o.k)
            /\ o.k.fd_table = a.fd_table /\ o.k.pipe_table[o.pipe].in_use
<1>1. /\ a \in PipeKernel /\ PipesOK(a, C) /\ SleepOK(a, fr) /\ TablesOK(a, N) /\ HeldOK(a, N)
      /\ \A j \in Pipes : Local(a.pipe_table[j]) /\ UseOK(a.pipe_table[j], j \in L)
  BY DEF KInv, PipesOK
<1> DEFINE i == o.pipe
           b == o.k
<1>2. \/ o.pipe = NULL /\ o.k = a
      \/ /\ i \in Pipes /\ On(a, b, i, {}) /\ Settles(a.pipe_table[i], b.pipe_table[i], {})
         /\ b.pipe_table[i].in_use
         /\ b.pipe_table[i].open_read = a.pipe_table[i].open_read
         /\ b.pipe_table[i].open_write = a.pipe_table[i].open_write
  BY <1>1, PipeOpen
<1> HIDE DEF b, i
<1>3. ASSUME i \in Pipes, On(a, b, i, {}), Settles(a.pipe_table[i], b.pipe_table[i], {}),
             b.pipe_table[i].in_use,
             b.pipe_table[i].open_read = a.pipe_table[i].open_read,
             b.pipe_table[i].open_write = a.pipe_table[i].open_write
      PROVE  KInv(b, N, fr, M2, C) /\ Shrinks(a, b) /\ b.fd_table = a.fd_table
  <2>1. PipesOK(b, C) /\ SleepOK(b, fr) /\ Shrinks(a, b)
    BY <1>1, <1>3, OnSettles
  <2>2. b \in PipeKernel /\ b.fd_table = a.fd_table /\ \A j \in Pipes \ {i} : b.pipe_table[j] = a.pipe_table[j]
    BY <1>3 DEF On
  <2>3. \A j, t : Ends(b, j, t) = Ends(a, j, t)
    BY <2>2 DEF Ends
  <2>4. ASSUME NEW j \in Pipes PROVE UseOK(b.pipe_table[j], j \in M2)
    <3>1. UseOK(a.pipe_table[j], j \in L)
      BY <1>1
    <3>2. CASE j = i
      <4>1. /\ b.pipe_table[j].in_use
            /\ b.pipe_table[j].open_read = a.pipe_table[j].open_read
            /\ b.pipe_table[j].open_write = a.pipe_table[j].open_write
        BY <1>3, <3>2
      <4>2. j \in M2 <=> j \in L \/ ~a.pipe_table[j].in_use
        BY <3>2 DEF i
      <4>3. a.pipe_table[j].open_read \in Nat /\ a.pipe_table[j].open_write \in Nat
        BY <1>1, KernelFields, PipeFields
      <4> QED BY ONLY <3>1, <4>1, <4>2, <4>3 DEF UseOK
    <3>3. CASE j # i
      <4>1. b.pipe_table[j] = a.pipe_table[j] /\ (j \in M2 <=> j \in L)
        BY <2>2, <3>3 DEF i
      <4> QED BY ONLY <3>1, <4>1 DEF UseOK
    <3> QED BY <3>2, <3>3
  <2>5. TablesOK(b, N)
    <3>1. \A j \in Pipes : /\ b.pipe_table[j].open_read = a.pipe_table[j].open_read
                           /\ b.pipe_table[j].open_write = a.pipe_table[j].open_write
      BY <1>3, <2>2
    <3> QED BY <1>1, <2>2, <2>3, <3>1 DEF TablesOK
  <2>6. HeldOK(b, N)
    BY <1>1, <2>1, <2>3 DEF HeldOK, Shrinks
  <2>7. Measure(N)
    BY DEF KInv
  <2> QED BY <2>1, <2>2, <2>4, <2>5, <2>6, <2>7 DEF KInv, PipesOK
<1> QED BY <1>2, <1>3 DEF b, i

\* Nobody is queued in b who is not in a, twice.
LEMMA ShrinksTwice ==
  ASSUME NEW a, NEW b, NEW c, Shrinks(a, b), Shrinks(b, c)
  PROVE  Shrinks(a, c)
BY DEF Shrinks, Waits

\* The types and pipes of the descriptors with references are the same.
TypesKept(a, b, N) == \A g \in FDs : N[{g}] > 0 =>
                        /\ b.fd_table[g].type = a.fd_table[g].type
                        /\ b.fd_table[g].data = a.fd_table[g].data

\* pipe_create_fds, where the table of descriptors is full.
LEMMA NoDescriptors ==
  ASSUME NEW a, NEW N, NEW fr, NEW L, NEW C, KInv(a, N, fr, L, C),
         NEW i \in Pipes, a.pipe_table[i].in_use, NEW r, r = pipe_create_fds(a, i),
         \A f \in FDs : a.fd_table[f].type # "NONE"
  PROVE  r.fds = <<>> /\ r.k = a
<1> DEFINE M2 == L \ {i}
           x == fd_create_pipe(a, i, "PIPE_READ")
<1>1. \A j \in Pipes : j \in M2 <=> j \in L /\ j # i
  OBVIOUS
<1>2. x.fd = NoFD
  <2> HIDE DEF M2
  <2>1. Created(a, N, fr, M2, C, i, "PIPE_READ", x)
    BY <1>1, CreateEnd
  <2> HIDE DEF x
  <2> QED BY <2>1 DEF Created
<1> QED BY <1>2 DEF pipe_create_fds

\* Two descriptors nobody referred to.
Pair(N, r, f, g) == /\ f \in FDs /\ g \in FDs /\ f # g /\ r.fds = <<f, g>>
                    /\ N[{f}] = 0 /\ N[{g}] = 0

\* What pipe_create_fds gives for pipe i: two descriptors of it, or none and the
\* ends of the pipe are as they were.
TwoOrNone(a, N, fr, M2, C, i, r) ==
  /\ Shrinks(a, r.k) /\ TypesKept(a, r.k, N)
  /\ \/ /\ r.fds = <<>> /\ KInv(r.k, N, fr, M2, C)
        /\ r.k.pipe_table[i].open_read = a.pipe_table[i].open_read
        /\ r.k.pipe_table[i].open_write = a.pipe_table[i].open_write
     \/ \E f, g : /\ Pair(N, r, f, g) /\ r.k.fd_table[f].data = i
                  /\ KInv(r.k, Plus(Plus(N, f), g), fr, M2, C)

\* pipe_create_fds, where it is not: two ends, or none and the pipe has forgotten
\* that it had none.
LEMMA TwoDescriptors ==
  ASSUME NEW a, NEW N, NEW fr, NEW L, NEW C, KInv(a, N, fr, L, C),
         NEW i \in Pipes, a.pipe_table[i].in_use, NEW r, r = pipe_create_fds(a, i),
         NEW h \in FDs, a.fd_table[h].type = "NONE"
  PROVE  TwoOrNone(a, N, fr, L \ {i}, C, i, r)
<1> DEFINE M2 == L \ {i}
           x == fd_create_pipe(a, i, "PIPE_READ")
           f == x.fd
           b == x.k
           y == fd_create_pipe(b, i, "PIPE_WRITE")
           g == y.fd
           c == y.k
           M == Plus(N, f)
<1>1. \A j \in Pipes : j \in M2 <=> j \in L /\ j # i
  OBVIOUS
<1>2. \A j \in Pipes : j \in M2 <=> j \in M2 /\ j # i
  OBVIOUS
<1>3. Measure(N) /\ \A e \in FDs : N[{e}] \in Nat
  BY MeasureFacts DEF KInv
<1> HIDE DEF M2
<1>4. /\ f \in FDs \ {0, 1} /\ N[{f}] = 0
      /\ KInv(b, M, fr, M2, C) /\ Shrinks(a, b)
      /\ b.fd_table[f].type = "PIPE_READ" /\ b.fd_table[f].data = i
      /\ TypesBut(a, b, f)
  <2>1. Created(a, N, fr, M2, C, i, "PIPE_READ", x)
    BY <1>1, CreateEnd
  <2> HIDE DEF x
  <2> QED BY <2>1 DEF Created
<1>5. f # NoFD
  BY <1>4 DEF NoFD, FDs
<1>6. r = IF g = NoFD THEN [k |-> fd_decref(b, f), fds |-> <<>>] ELSE [k |-> c, fds |-> <<f, g>>]
  <2> HIDE DEF x, y
  <2>1. r = IF x.fd = NoFD THEN [k |-> a, fds |-> <<>>]
            ELSE IF y.fd = NoFD THEN [k |-> fd_decref(x.k, x.fd), fds |-> <<>>]
            ELSE [k |-> y.k, fds |-> <<x.fd, y.fd>>]
    BY DEF pipe_create_fds, x, y
  <2> QED BY <1>5, <2>1
<1> HIDE DEF x
<1>7. Measure(M) /\ M[{f}] = N[{f}] + 1 /\ M[{f}] > 0 /\ OneMore(N, f, M)
      /\ \A e \in FDs \ {f} : M[{e}] = N[{e}]
  <2>1. Measure(M) /\ M[{f}] = N[{f}] + 1 /\ OneMore(N, f, M)
    BY <1>3, <1>4, MeasurePlus DEF OneMore
  <2>2. M[{f}] > 0
    BY <1>3, <1>4, <2>1
  <2>3. ASSUME NEW e \in FDs \ {f} PROVE M[{e}] = N[{e}]
    <3>1. {e} \in SUBSET FDs /\ f \notin {e}
      OBVIOUS
    <3> QED BY <1>3, <1>4, <3>1, PlusMinusValues
  <2> QED BY <2>1, <2>2, <2>3
<1> HIDE DEF M
<1>8. b.pipe_table[i].in_use
  BY <1>4, <1>7, Referred
<1> HIDE DEF b
<1>9. \/ g = NoFD
      \/ /\ g \in FDs \ {0, 1} /\ M[{g}] = 0
         /\ KInv(c, Plus(M, g), fr, M2, C) /\ Shrinks(b, c) /\ TypesBut(b, c, g)
  <2>1. Created(b, M, fr, M2, C, i, "PIPE_WRITE", y)
    BY <1>2, <1>4, <1>8, CreateEnd
  <2> HIDE DEF y
  <2> QED BY <2>1 DEF Created
<1> HIDE DEF f, c, g, y
<1>10. CASE g = NoFD
  <2> DEFINE z == fd_decref(b, f)
  <2>1. OneLess(M, f, N)
    BY <1>3, <1>4, <1>7, MoreLess
  <2>2. HeldOK(b, N)
    <3>1. HeldOK(a, N)
      BY DEF KInv
    <3>2. ASSUME NEW j, NEW t, NEW e \in Ends(a, j, t), N[{e}] > 0 PROVE e \in Ends(b, j, t)
      <4>1. e \in FDs \ {f} /\ a.fd_table[e].type = t /\ a.fd_table[e].data = j
        BY <1>4, <3>2 DEF Ends
      <4> QED BY <1>4, <4>1 DEF Ends, TypesBut
    <3>3. \A j \in Pipes, p \in Procs : /\ Reads(b.pipe_table[j], p) => Reads(a.pipe_table[j], p)
                                        /\ Writes(b.pipe_table[j], p) => Writes(a.pipe_table[j], p)
      BY <1>4 DEF Shrinks
    <3> QED BY ONLY <3>1, <3>2, <3>3 DEF HeldOK
  <2>3. KInv(z, N, fr, M2, C) /\ Shrinks(b, z) /\ TypesBut(b, z, f)
    <3>1. KInv(b, M, fr, M2, C) /\ f \in FDs /\ M[{f}] > 0
      BY <1>4, <1>7
    <3>2. KInv(z, N, fr, M2, C) /\ Shrinks(b, z) /\ TypesLess(b, z, f, N)
      BY ONLY <2>1, <2>2, <3>1, DecRef
    <3> HIDE DEF z
    <3> QED BY ONLY <3>2 DEF TypesBut, TypesLess
  <2> HIDE DEF z
  <2>4. r.k = z /\ r.fds = <<>>
    BY <1>6, <1>10 DEF z
  <2>5. Shrinks(a, z)
    BY <1>4, <2>3, ShrinksTwice
  <2>6. TypesKept(a, z, N)
    <3>1. ASSUME NEW e \in FDs, N[{e}] > 0 PROVE e \in FDs \ {f}
      BY <1>4, <3>1
    <3> QED BY ONLY <1>4, <2>3, <3>1 DEF TypesKept, TypesBut
  <2>7. TypesBut(a, z, f)
    BY <1>4, <2>3 DEF TypesBut
  <2>8. /\ z.pipe_table[i].open_read = a.pipe_table[i].open_read
        /\ z.pipe_table[i].open_write = a.pipe_table[i].open_write
    <3>1. \A t : N[Ends(z, i, t)] = N[Ends(a, i, t)]
      BY <1>3, <1>4, <2>7, EndsSame
    <3> QED BY <2>3, <3>1 DEF KInv, TablesOK
  <2> QED BY <2>3, <2>4, <2>5, <2>6, <2>8 DEF M2, TwoOrNone
<1>11. CASE g # NoFD
  <2>1. /\ g \in FDs \ {0, 1} /\ M[{g}] = 0
        /\ KInv(c, Plus(M, g), fr, M2, C) /\ Shrinks(b, c) /\ TypesBut(b, c, g)
    BY <1>9, <1>11
  <2>2. f # g /\ N[{g}] = 0
    <3>1. f = g => M[{f}] = M[{g}]
      OBVIOUS
    <3>2. f # g
      BY ONLY <1>7, <2>1, <3>1
    <3>3. g \in FDs \ {f}
      BY ONLY <2>1, <3>2
    <3>4. M[{g}] = N[{g}]
      BY ONLY <1>7, <3>3
    <3> QED BY <2>1, <3>2, <3>4
  <2>3. r.k = c /\ r.fds = <<f, g>>
    BY <1>6, <1>11
  <2>4. Shrinks(a, c)
    BY <1>4, <2>1, ShrinksTwice
  <2>5. TypesKept(a, c, N)
    <3>1. ASSUME NEW e \in FDs, N[{e}] > 0 PROVE e \in FDs \ {f} /\ e \in FDs \ {g}
      BY <1>4, <2>2, <3>1
    <3> QED BY ONLY <1>4, <2>1, <3>1 DEF TypesKept, TypesBut
  <2>6. c.fd_table[f].data = i
    BY <1>4, <2>1, <2>2 DEF TypesBut
  <2>7. Pair(N, r, f, g)
    BY <1>4, <2>1, <2>2, <2>3 DEF Pair
  <2> QED BY <2>1, <2>3, <2>4, <2>5, <2>6, <2>7 DEF M2, M, TwoOrNone
<1> QED BY <1>10, <1>11

\* What sys_pipe leaves when it gives no descriptors.
FailLeaves(a, N, fr, L, C, o, r) ==
  \/ /\ r.fds = <<>> /\ \A f \in FDs : a.fd_table[f].type # "NONE"
     /\ KInv(r.k, N, fr, L \cup {i \in Pipes : o.pipe = i /\ ~a.pipe_table[i].in_use}, C)
  \/ /\ r.fds = <<>> /\ ~\A f \in FDs : a.fd_table[f].type # "NONE"
     /\ KInv(r.k, N, fr, {i \in L : r.k.pipe_table[i].in_use}, C)

\* sys_pipe and sys_pipe_open: two descriptors, or none.  Where the table of
\* descriptors is full the pipe stays in use.
LEMMA SysPipe ==
  ASSUME NEW a, NEW N, NEW fr, NEW L, NEW C, KInv(a, N, fr, L, C),
         NEW name \in Names \cup {Anonymous}, NEW o, o = pipe_open(a, name),
         NEW r, r = sys_pipe(a, name)
  PROVE  /\ Shrinks(a, r.k) /\ TypesKept(a, r.k, N)
         /\ \/ \E f, g : /\ Pair(N, r, f, g)
                         /\ KInv(r.k, Plus(Plus(N, f), g), fr, L \ {r.k.fd_table[f].data}, C)
            \/ FailLeaves(a, N, fr, L, C, o, r)
<1> USE DEF FailLeaves
<1> DEFINE i == o.pipe
           b == o.k
           L1 == L \cup {j \in Pipes : o.pipe = j /\ ~a.pipe_table[j].in_use}
           L2 == {j \in L : r.k.pipe_table[j].in_use}
           full == \A f \in FDs : a.fd_table[f].type # "NONE"
<1>1. \/ i = NULL /\ b = a
      \/ /\ i \in Pipes /\ KInv(b, N, fr, L1, C) /\ Shrinks(a, b)
         /\ b.fd_table = a.fd_table /\ b.pipe_table[i].in_use
  <2>1. \A j \in Pipes : j \in L1 <=> j \in L \/ (o.pipe = j /\ ~a.pipe_table[j].in_use)
    OBVIOUS
  <2> HIDE DEF L1
  <2> QED BY <2>1, OpenKeeps
<1>2. NULL \notin Pipes
  BY DEF NULL, Pipes
<1>3. \A j \in Pipes : UseOK(a.pipe_table[j], j \in L)
  BY DEF KInv
<1>4. Shrinks(a, a) /\ TypesKept(a, a, N)
  BY DEF Shrinks, TypesKept
<1>5. CASE i = NULL
  <2>1. r.fds = <<>> /\ r.k = a
    BY <1>5 DEF sys_pipe
  <2>2. \A j \in Pipes : j \in L1 <=> j \in L
    BY <1>2, <1>5
  <2>3. \A j \in Pipes : j \in L2 <=> j \in L
    BY <1>3, <2>1 DEF UseOK
  <2> HIDE DEF L1, L2
  <2>4. KInv(a, N, fr, L1, C)
    BY <2>2, LeakSame
  <2>5. KInv(a, N, fr, L2, C)
    BY <2>3, LeakSame
  <2> QED BY <1>4, <2>1, <2>4, <2>5 DEF L1, L2
<1>6. CASE i # NULL
  <2>1. /\ i \in Pipes /\ KInv(b, N, fr, L1, C) /\ Shrinks(a, b)
        /\ b.fd_table = a.fd_table /\ b.pipe_table[i].in_use
    BY <1>1, <1>6
  <2>2. r = pipe_create_fds(b, i)
    BY <1>6 DEF sys_pipe
  <2>3. L1 \ {i} = L \ {i}
    OBVIOUS
  <2> HIDE DEF L1, L2, i, b
  <2>4. CASE full
    <3>1. \A f \in FDs : b.fd_table[f].type # "NONE"
      BY <2>1, <2>4
    <3>2. r.fds = <<>> /\ r.k = b
      BY <2>1, <2>2, <3>1, NoDescriptors
    <3>3. TypesKept(a, b, N)
      BY <2>1 DEF TypesKept
    <3> QED BY <2>1, <2>4, <3>2, <3>3 DEF L1
  <2>5. CASE ~full
    <3>1. PICK h \in FDs : b.fd_table[h].type = "NONE"
      BY <2>1, <2>5
    <3>2. TwoOrNone(b, N, fr, L \ {i}, C, i, r)
      <4>1. TwoOrNone(b, N, fr, L1 \ {i}, C, i, r)
        BY <2>1, <2>2, <3>1, TwoDescriptors
      <4> QED BY <2>3, <4>1
    <3>3. Shrinks(a, r.k)
      BY <2>1, <3>2, ShrinksTwice DEF TwoOrNone
    <3>4. TypesKept(a, r.k, N)
      BY <2>1, <3>2 DEF TypesKept, TwoOrNone
    <3>5. CASE /\ r.fds = <<>> /\ KInv(r.k, N, fr, L \ {i}, C)
               /\ r.k.pipe_table[i].open_read = b.pipe_table[i].open_read
               /\ r.k.pipe_table[i].open_write = b.pipe_table[i].open_write
      <4>2. ASSUME NEW j \in Pipes PROVE j \in L2 <=> j \in L \ {i}
        <5>1. UseOK(r.k.pipe_table[j], j \in L \ {i})
          BY <3>5 DEF KInv
        <5>2. j \in L2 <=> j \in L /\ r.k.pipe_table[j].in_use
          BY DEF L2
        <5>3. CASE j # i
          BY <5>1, <5>2, <5>3 DEF UseOK
        <5>4. CASE j = i /\ j \in L
          <6>1. a.pipe_table[j].open_read = 0 /\ a.pipe_table[j].open_write = 0
            BY <1>3, <5>4 DEF UseOK
          <6>2. /\ b.pipe_table[j].open_read = N[Ends(b, j, "PIPE_READ")]
                /\ b.pipe_table[j].open_write = N[Ends(b, j, "PIPE_WRITE")]
                /\ a.pipe_table[j].open_read = N[Ends(a, j, "PIPE_READ")]
                /\ a.pipe_table[j].open_write = N[Ends(a, j, "PIPE_WRITE")]
            BY <2>1 DEF KInv, TablesOK
          <6>3. \A t : Ends(b, j, t) = Ends(a, j, t)
            BY <2>1 DEF Ends
          <6>4. r.k.pipe_table[j].open_read = 0 /\ r.k.pipe_table[j].open_write = 0
            BY <3>5, <5>4, <6>1, <6>2, <6>3
          <6> QED BY ONLY <5>1, <5>2, <5>4, <6>4 DEF UseOK
        <5>5. CASE j = i /\ j \notin L
          BY <5>2, <5>5
        <5> QED BY <5>3, <5>4, <5>5
      <4>3. KInv(r.k, N, fr, L2, C)
        BY <3>5, <4>2, LeakSame
      <4> QED BY <2>5, <3>3, <3>4, <3>5, <4>3 DEF L2
    <3>6. CASE \E f, g : /\ Pair(N, r, f, g) /\ r.k.fd_table[f].data = i
                         /\ KInv(r.k, Plus(Plus(N, f), g), fr, L \ {i}, C)
      BY <3>3, <3>4, <3>6
    <3> QED BY <3>2, <3>5, <3>6 DEF TwoOrNone
  <2> QED BY <2>4, <2>5
<1> QED BY <1>5, <1>6

(***************************************************************************)
(* Processes                                                               *)
(***************************************************************************)
\* A queue does not grow when p leaves it.
LEMMA LeavesShorter ==
  ASSUME NEW s \in Seq(Procs), NEW p \in Procs, NEW r, r = queue_remove_pid(s, p)
  PROVE  /\ r \in Seq(Procs) /\ (Injective(s) => Injective(r))
         /\ Len(r) \in Nat /\ Len(s) \in Nat /\ Len(r) <= Len(s)
         /\ \A x \in Procs : InQueue(r, x) <=> InQueue(s, x) /\ x # p
<1> DEFINE kept == {j \in 1 .. Len(s) : s[j] # p}
           n == Cardinality(kept)
<1>1. /\ r \in Seq(Procs) /\ (Injective(s) => Injective(r))
      /\ \A x \in Procs : InQueue(r, x) <=> InQueue(s, x) /\ x # p
  BY QueueRemove
<1>2. Len(s) \in Nat /\ Len(r) \in Nat
  BY <1>1
<1>3. IsFiniteSet(1 .. Len(s)) /\ Cardinality(1 .. Len(s)) = Len(s)
  <2>1. 1 \in Int /\ Len(s) \in Int
    BY <1>2
  <2>2. IsFiniteSet(1 .. Len(s)) /\ Cardinality(1 .. Len(s)) = IF 1 > Len(s) THEN 0 ELSE Len(s) - 1 + 1
    BY ONLY <2>1, FS_Interval
  <2> QED BY ONLY <1>2, <2>2
<1>4. kept \in SUBSET (1 .. Len(s))
  OBVIOUS
<1>5. n \in Nat /\ n <= Len(s)
  <2> HIDE DEF kept
  <2>1. n <= Cardinality(1 .. Len(s)) /\ IsFiniteSet(kept)
    BY <1>3, <1>4, FS_Subset
  <2>2. n \in Nat
    BY <2>1, FS_CardinalityType
  <2> QED BY <1>3, <2>1, <2>2
<1>6. Len(r) = n
  <2>1. r = [m \in 1 .. n |-> s[Nth(kept, m)]]
    BY DEF queue_remove_pid
  <2> HIDE DEF kept, n
  <2>2. DOMAIN r = 1 .. n
    BY <2>1
  <2>3. DOMAIN r = 1 .. Len(r)
    BY <1>1
  <2> QED BY <1>2, <1>5, <2>2, <2>3
<1> HIDE DEF n
<1> QED BY <1>1, <1>2, <1>5, <1>6

\* leave_queues takes p, and nobody else, out of the queues.
LEMMA LeaveQueues ==
  ASSUME NEW q \in PipeRecord, Local(q), q.in_use, NEW p \in Procs, NEW u, u = leave_queues(q, p)
  PROVE  /\ u \in PipeRecord /\ Local(u) /\ (Calm(q) => Calm(u))
         /\ SameEnds(q, u) /\ u.in_use
         /\ \A x \in Procs : /\ Reads(u, x) <=> Reads(q, x) /\ x # p
                             /\ Writes(u, x) <=> Writes(q, x) /\ x # p
<1> DEFINE rs == queue_remove_pid(q.wait_readers, p)
           ws == queue_remove_pid(q.wait_writers, p)
<1>1. q.wait_readers \in Seq(Procs) /\ q.wait_writers \in Seq(Procs)
  BY PipeFields
<1>2. /\ rs \in Seq(Procs) /\ (Injective(q.wait_readers) => Injective(rs))
      /\ Len(rs) \in Nat /\ Len(q.wait_readers) \in Nat /\ Len(rs) <= Len(q.wait_readers)
      /\ \A x \in Procs : InQueue(rs, x) <=> InQueue(q.wait_readers, x) /\ x # p
  BY <1>1, LeavesShorter
<1>3. /\ ws \in Seq(Procs) /\ (Injective(q.wait_writers) => Injective(ws))
      /\ Len(ws) \in Nat /\ Len(q.wait_writers) \in Nat /\ Len(ws) <= Len(q.wait_writers)
      /\ \A x \in Procs : InQueue(ws, x) <=> InQueue(q.wait_writers, x) /\ x # p
  BY <1>1, LeavesShorter
<1>4. u = [q EXCEPT !.wait_readers = rs, !.wait_writers = ws]
  BY DEF leave_queues
<1> HIDE DEF rs, ws
<1>5. /\ u \in PipeRecord /\ SameRing(q, u) /\ SameEnds(q, u) /\ SameName(q, u)
      /\ u.wait_readers = rs /\ u.wait_writers = ws
  BY <1>2, <1>3, <1>4 DEF PipeRecord, SameRing, SameEnds, SameName
<1>6. RingOK(u)
  BY <1>5, SameRingOK DEF Local
<1>7. \A x \in Procs : /\ Reads(u, x) <=> Reads(q, x) /\ x # p
                       /\ Writes(u, x) <=> Writes(q, x) /\ x # p
  BY <1>2, <1>3, <1>5 DEF Reads, Writes
<1>8. QueueOK(u)
  <2>1. QueueOK(q)
    BY DEF Local
  <2> QED BY ONLY <1>2, <1>3, <1>5, <1>7, <2>1 DEF QueueOK, SameEnds, SameName, at_eof, is_named
<1>9. u.in_use /\ Local(u)
  BY <1>5, <1>6, <1>8 DEF Local, SameName
<1>10. Calm(q) => Calm(u)
  <2>1. u.count = q.count /\ u.open_read = q.open_read
    BY <1>5 DEF SameRing, SameEnds
  <2>2. Calm(q) => Len(u.wait_readers) <= 1 /\ Len(u.wait_writers) <= 1
    BY ONLY <1>2, <1>3, <1>5 DEF Calm
  <2> QED BY ONLY <1>7, <2>1, <2>2 DEF Calm
<1> QED BY <1>5, <1>7, <1>9, <1>10

\* From a to b process p leaves all queues, and nothing else happens.
Gone(a, b, p) ==
  /\ b.fd = a.fd /\ b.fd_table = a.fd_table /\ b.state = a.state
  /\ \A i \in Pipes, x \in Procs :
       /\ Reads(b.pipe_table[i], x) <=> Reads(a.pipe_table[i], x) /\ x # p
       /\ Writes(b.pipe_table[i], x) <=> Writes(a.pipe_table[i], x) /\ x # p

\* pipe_cleanup_for_process: p is in no queue any more.
LEMMA Cleanup ==
  ASSUME NEW a, NEW N, NEW fr, NEW L, NEW C, KInv(a, N, fr, L, C), NEW p \in Procs,
         NEW b, b = pipe_cleanup_for_process(a, p)
  PROVE  KInv(b, N, fr \cup {p}, L, C) /\ Gone(a, b, p)
<1>1. /\ a \in PipeKernel /\ Measure(N) /\ SleepOK(a, fr) /\ TablesOK(a, N) /\ HeldOK(a, N)
      /\ \A i \in Pipes : /\ Local(a.pipe_table[i]) /\ UseOK(a.pipe_table[i], i \in L)
                          /\ i \notin C => Calm(a.pipe_table[i])
  BY DEF KInv
<1> DEFINE u(i) == IF a.pipe_table[i].in_use THEN leave_queues(a.pipe_table[i], p)
                   ELSE a.pipe_table[i]
<1>2. ASSUME NEW i \in Pipes
      PROVE  /\ u(i) \in PipeRecord /\ Local(u(i)) /\ (Calm(a.pipe_table[i]) => Calm(u(i)))
             /\ SameEnds(a.pipe_table[i], u(i)) /\ u(i).in_use = a.pipe_table[i].in_use
             /\ \A x \in Procs : /\ Reads(u(i), x) <=> Reads(a.pipe_table[i], x) /\ x # p
                                 /\ Writes(u(i), x) <=> Writes(a.pipe_table[i], x) /\ x # p
  <2> DEFINE q == a.pipe_table[i]
  <2>1. q \in PipeRecord /\ Local(q) /\ q.in_use \in BOOLEAN
    BY <1>1, KernelFields, PipeFields
  <2> HIDE DEF q
  <2>2. CASE q.in_use
    <3>1. u(i) = leave_queues(q, p)
      BY <2>2 DEF q
    <3> HIDE DEF u
    <3>2. /\ u(i) \in PipeRecord /\ Local(u(i)) /\ (Calm(q) => Calm(u(i)))
          /\ SameEnds(q, u(i)) /\ u(i).in_use
          /\ \A x \in Procs : /\ Reads(u(i), x) <=> Reads(q, x) /\ x # p
                              /\ Writes(u(i), x) <=> Writes(q, x) /\ x # p
      BY <2>1, <2>2, <3>1, LeaveQueues
    <3>3. u(i) \in PipeRecord /\ u(i).in_use = q.in_use
      <4>1. u(i).in_use \in BOOLEAN
        BY <3>2, PipeFields
      <4> QED BY <2>1, <2>2, <3>2, <4>1
    <3> QED BY <3>2, <3>3 DEF q
  <2>3. CASE ~q.in_use
    <3>1. u(i) = q
      BY <2>3 DEF q
    <3>2. q = FreePipe
      BY <2>1, <2>3 DEF Local
    <3> HIDE DEF u
    <3>3. \A x : ~Reads(q, x) /\ ~Writes(q, x)
      BY <3>2, FreePipeOK
    <3> QED BY <2>1, <3>1, <3>3 DEF q, SameEnds
  <2> QED BY <2>2, <2>3
<1>3. b = [a EXCEPT !.pipe_table = [i \in Pipes |-> u(i)]]
  BY DEF pipe_cleanup_for_process
<1> HIDE DEF u
<1>4. /\ b \in PipeKernel /\ b.fd = a.fd /\ b.fd_table = a.fd_table /\ b.state = a.state
      /\ b.pipe_table = [i \in Pipes |-> u(i)]
  <2>1. [i \in Pipes |-> u(i)] \in [Pipes -> PipeRecord]
    BY <1>2
  <2> DEFINE t == [i \in Pipes |-> u(i)]
  <2> HIDE DEF t
  <2> QED BY <1>1, <1>3, <2>1 DEF PipeKernel, t
<1>5. \A i \in Pipes : b.pipe_table[i] = u(i)
  BY <1>4
<1>6. Gone(a, b, p)
  BY <1>2, <1>4, <1>5 DEF Gone
<1>7. \A i \in Pipes, x \in Procs : Waits(b.pipe_table[i], x) <=> Waits(a.pipe_table[i], x) /\ x # p
  BY <1>6 DEF Gone, Waits
<1>8. SleepOK(b, fr \cup {p})
  <2>1. ASSUME NEW i \in Pipes, NEW x \in Procs, Waits(b.pipe_table[i], x)
        PROVE  /\ b.state[x] = "BLOCKED" /\ x \notin fr \cup {p}
               /\ \A j \in Pipes \ {i} : ~Waits(b.pipe_table[j], x)
    BY <1>1, <1>4, <1>7, <2>1 DEF SleepOK
  <2>2. ASSUME NEW x \in Procs, b.state[x] = "BLOCKED", x \notin fr \cup {p}
        PROVE  \E i \in Pipes : Waits(b.pipe_table[i], x)
    <3>1. PICK i \in Pipes : Waits(a.pipe_table[i], x)
      BY <1>1, <1>4, <2>2 DEF SleepOK
    <3> QED BY <1>7, <2>2, <3>1
  <2> QED BY <2>1, <2>2 DEF SleepOK
<1>9. \A j, t : Ends(b, j, t) = Ends(a, j, t)
  BY <1>4 DEF Ends
<1>10. TablesOK(b, N)
  <2>1. \A i \in Pipes : /\ b.pipe_table[i].open_read = a.pipe_table[i].open_read
                         /\ b.pipe_table[i].open_write = a.pipe_table[i].open_write
    BY <1>2, <1>5 DEF SameEnds
  <2> QED BY <1>1, <1>4, <1>9, <2>1 DEF TablesOK
<1>11. HeldOK(b, N)
  BY <1>1, <1>6, <1>9 DEF HeldOK, Gone
<1>12. ASSUME NEW i \in Pipes
       PROVE  /\ Local(b.pipe_table[i]) /\ UseOK(b.pipe_table[i], i \in L)
              /\ i \notin C => Calm(b.pipe_table[i])
  <2>1. UseOK(a.pipe_table[i], i \in L) /\ (i \notin C => Calm(a.pipe_table[i]))
    BY <1>1
  <2> QED BY <1>2, <1>5, <2>1 DEF UseOK, SameEnds
<1>13. KInv(b, N, fr \cup {p}, L, C)
  BY <1>1, <1>4, <1>8, <1>10, <1>11, <1>12 DEF KInv
<1> QED BY <1>6, <1>13

\* The state of process p becomes st.
Sets(a, p, st, b) == b = StateIn(a, [a.state EXCEPT ![p] = st])

\* What that leaves alone.
StateSet(a, p, st, b) ==
  /\ b.state[p] = st /\ \A x \in Procs \ {p} : b.state[x] = a.state[x]
  /\ b.pipe_table = a.pipe_table /\ b.fd = a.fd /\ b.fd_table = a.fd_table

\* A process in no queue changes its state.
LEMMA SetState ==
  ASSUME NEW a, NEW N, NEW fr, NEW L, NEW C, KInv(a, N, fr, L, C), NEW p \in Procs,
         \A i \in Pipes : ~Waits(a.pipe_table[i], p),
         NEW st \in {"FREE", "READY", "BLOCKED"}, NEW F,
         \A x \in Procs \ {p} : x \in F <=> x \in fr, st = "BLOCKED" => p \in F,
         NEW b, Sets(a, p, st, b)
  PROVE  KInv(b, N, F, L, C) /\ StateSet(a, p, st, b)
<1> DEFINE s == [a.state EXCEPT ![p] = st]
<1>1. a \in PipeKernel /\ SleepOK(a, fr)
  BY DEF KInv
<1>2. s \in [Procs -> {"FREE", "READY", "BLOCKED"}] /\ a.state \in [Procs -> {"FREE", "READY", "BLOCKED"}]
  BY <1>1, KernelFields
<1>3. \A x \in Procs : s[x] = IF x = p THEN st ELSE a.state[x]
  BY <1>2
<1> HIDE DEF s
<1>4. /\ b \in PipeKernel /\ b.state = s
      /\ b.pipe_table = a.pipe_table /\ b.fd = a.fd /\ b.fd_table = a.fd_table
  BY <1>1, <1>2, StateInFields DEF s, Sets
<1>5. SleepOK(b, F)
  <2>1. ASSUME NEW i \in Pipes, NEW x \in Procs, Waits(b.pipe_table[i], x)
        PROVE  /\ b.state[x] = "BLOCKED" /\ x \notin F
               /\ \A j \in Pipes \ {i} : ~Waits(b.pipe_table[j], x)
    <3>1. x # p
      BY <1>4, <2>1
    <3> QED BY <1>1, <1>3, <1>4, <2>1, <3>1 DEF SleepOK
  <2>2. ASSUME NEW x \in Procs, b.state[x] = "BLOCKED", x \notin F
        PROVE  \E i \in Pipes : Waits(b.pipe_table[i], x)
    <3>1. x # p /\ a.state[x] = "BLOCKED" /\ x \notin fr
      BY <1>3, <1>4, <2>2
    <3> QED BY <1>1, <1>4, <3>1 DEF SleepOK
  <2> QED BY <2>1, <2>2 DEF SleepOK
<1>6. \A i, t : Ends(b, i, t) = Ends(a, i, t)
  BY <1>4 DEF Ends
<1>7. TablesOK(b, N)
  BY <1>4, <1>6 DEF KInv, TablesOK
<1>8. HeldOK(b, N)
  BY <1>4, <1>6 DEF KInv, HeldOK
<1>9. KInv(b, N, F, L, C)
  BY <1>4, <1>5, <1>7, <1>8 DEF KInv
<1>10. StateSet(a, p, st, b)
  BY <1>3, <1>4 DEF StateSet
<1> QED BY <1>9, <1>10

(***************************************************************************)
(* References come and go                                                  *)
(***************************************************************************)
\* fd is what the PCBs hold, and G what was given, to the processes that rw says
\* or to others.
Owners(fd, rw, G) == /\ fd \in FDTables /\ rw \in [Procs -> SUBSET FDs] /\ G \in SUBSET FDs
                     /\ \A p \in Procs : rw[p] \subseteq G

\* What a process of S owns by fd and rw it owns by e and v too.
OwnAll(fd, rw, e, v, S) == \A p \in S, f \in FDs : Owns(fd, rw, p, f) => Owns(e, v, p, f)

\* Nobody has gone to sleep.
NoNewSleeper(a, b) == \A i \in Pipes, p \in Procs :
                        /\ Reads(b.pipe_table[i], p) => Reads(a.pipe_table[i], p)
                        /\ Writes(b.pipe_table[i], p) => Writes(a.pipe_table[i], p)

\* Whoever waits still owns what it waits for.
LEMMA StillOwn ==
  ASSUME NEW a, NEW b, NEW fd, NEW rw, NEW G, Owners(fd, rw, G), WaitersOwn(a, fd, rw),
         NoNewSleeper(a, b), TypesKept(a, b, RefsOf(fd, G))
  PROVE  WaitersOwn(b, fd, rw)
<1>1. ASSUME NEW p \in Procs, NEW i, NEW t, NEW f \in Ends(a, i, t), Owns(fd, rw, p, f)
      PROVE  f \in Ends(b, i, t)
  <2>1. f \in FDs
    BY DEF Ends
  <2>2. f \in G \/ \E x \in Procs, s \in 0 .. 1 : fd[x][s] = f
    BY <1>1 DEF Owns, Owners
  <2>3. RefsOf(fd, G)[{f}] > 0
    BY <2>1, <2>2, Owned DEF Owners
  <2> DEFINE N == RefsOf(fd, G)
  <2> HIDE DEF N
  <2>4. N[{f}] > 0 /\ TypesKept(a, b, N)
    BY <2>3 DEF N
  <2> QED BY ONLY <1>1, <2>1, <2>4 DEF TypesKept, Ends
<1> QED BY <1>1 DEF WaitersOwn, NoNewSleeper

\* fd_decref when a reference to f goes: the owners, without it, still own what
\* they wait for.
LEMMA Drop ==
  ASSUME NEW a, NEW fr, NEW L, NEW C, NEW fd, NEW G, KInv(a, RefsOf(fd, G), fr, L, C),
         NEW e, NEW rw, NEW H, Owners(e, rw, H), WaitersOwn(a, e, rw),
         NEW f \in FDs, OneMore(RefsOf(e, H), f, RefsOf(fd, G)),
         NEW b, b = fd_decref(a, f)
  PROVE  /\ KInv(b, RefsOf(e, H), fr, L, C) /\ WaitersOwn(b, e, rw)
         /\ Shrinks(a, b) /\ TypesKept(a, b, RefsOf(e, H))
<1> DEFINE N == RefsOf(fd, G)
           M == RefsOf(e, H)
<1>1. Measure(M) /\ HeldOK(a, M)
  BY RefsMeasure, OwnersHold DEF Owners
<1>2. KInv(a, N, fr, L, C) /\ OneMore(M, f, N)
  OBVIOUS
<1>3. TypesKept(a, b, M) => WaitersOwn(b, e, rw) \/ ~NoNewSleeper(a, b)
  BY StillOwn
<1> HIDE DEF N, M
<1>4. OneLess(N, f, M)
  BY ONLY <1>1, <1>2, f \in FDs, MoreLess
<1>5. N[{f}] > 0
  <2>1. N[{f}] = M[{f}] + 1
    <3>1. Plus(M, f)[{f}] = M[{f}] + 1
      BY ONLY <1>1, f \in FDs, MeasurePlus
    <3> QED BY ONLY <1>2, <3>1 DEF OneMore
  <2>2. M[{f}] \in Nat
    BY ONLY <1>1, f \in FDs, MeasureFacts
  <2> QED BY ONLY <2>1, <2>2
<1>6. KInv(b, M, fr, L, C) /\ Shrinks(a, b) /\ TypesLess(a, b, f, M)
  BY ONLY <1>1, <1>2, <1>4, <1>5, f \in FDs, b = fd_decref(a, f), DecRef
<1>7. TypesKept(a, b, M)
  BY ONLY <1>6 DEF TypesLess, TypesKept
<1>8. NoNewSleeper(a, b)
  BY ONLY <1>6 DEF Shrinks, NoNewSleeper
<1> QED BY <1>3, <1>6, <1>7, <1>8 DEF M

\* fd_incref when a reference to f, the terminal or a descriptor that has one,
\* is added.
LEMMA Take ==
  ASSUME NEW a, NEW fr, NEW L, NEW C, NEW fd, NEW rw, NEW G, KInv(a, RefsOf(fd, G), fr, L, C),
         Owners(fd, rw, G), WaitersOwn(a, fd, rw),
         NEW f \in FDs, f \in {0, 1} \/ RefsOf(fd, G)[{f}] > 0,
         NEW e, NEW v, NEW H, OneMore(RefsOf(fd, G), f, RefsOf(e, H)),
         OwnAll(fd, rw, e, v, Procs),
         NEW b, b = fd_incref(a, f)
  PROVE  /\ KInv(b, RefsOf(e, H), fr, L, C) /\ WaitersOwn(b, e, v)
         /\ Shrinks(a, b) /\ SameTypes(a, b)
<1> DEFINE N == RefsOf(fd, G)
           M == RefsOf(e, H)
           d == a.fd_table[f]
<1>1. KInv(a, N, fr, L, C) /\ OneMore(N, f, M) /\ (f \in {0, 1} \/ N[{f}] > 0)
  OBVIOUS
<1>2. TypesKept(a, b, N) => WaitersOwn(b, fd, rw) \/ ~NoNewSleeper(a, b)
  BY StillOwn
<1> HIDE DEF N, M
<1>3. d.type # "NONE" /\ (d.type \in {"PIPE_READ", "PIPE_WRITE"} => d.data \in Pipes \ L
                                                                    /\ a.pipe_table[d.data].in_use)
  <2>1. CASE f \in {0, 1}
    <3>1. DescriptorOK(f, d, N[{f}])
      BY ONLY <1>1, f \in FDs DEF KInv, TablesOK
    <3>2. d.type = "TERMINAL"
      BY ONLY <2>1, <3>1 DEF DescriptorOK
    <3> HIDE DEF d
    <3> QED BY ONLY <3>2
  <2>2. CASE N[{f}] > 0
    <3> HIDE DEF d
    <3>1. d = a.fd_table[f]
      BY DEF d
    <3>2. d.type \in {"TERMINAL", "PIPE_READ", "PIPE_WRITE"}
          /\ (d.type \in {"PIPE_READ", "PIPE_WRITE"} => d.data \in Pipes \ L
                                                       /\ a.pipe_table[d.data].in_use)
      BY ONLY <1>1, <2>2, <3>1, f \in FDs, Referred
    <3> QED BY ONLY <3>2
  <2> QED BY <1>1, <2>1, <2>2
<1>4. \A j \in Pipes : j \in L <=> j \in L /\ ~(d.type \in {"PIPE_READ", "PIPE_WRITE"} /\ d.data = j)
  BY <1>3
<1>5. KInv(b, Plus(N, f), fr, L, C) /\ Shrinks(a, b) /\ SameTypes(a, b)
  BY ONLY <1>1, <1>3, <1>4, f \in FDs, b = fd_incref(a, f), IncRef
<1>6. KInv(b, M, fr, L, C)
  BY ONLY <1>1, <1>5 DEF OneMore
<1>7. TypesKept(a, b, N)
  BY ONLY <1>5 DEF SameTypes, TypesKept
<1>8. NoNewSleeper(a, b)
  BY ONLY <1>5 DEF Shrinks, NoNewSleeper
<1>9. WaitersOwn(b, e, v)
  <2>1. WaitersOwn(b, fd, rw)
    BY <1>2, <1>7, <1>8
  <2>2. \A i, t : Ends(b, i, t) \subseteq FDs
    BY DEF Ends
  <2> QED BY ONLY <2>1, <2>2, OwnAll(fd, rw, e, v, Procs) DEF WaitersOwn, OwnAll
<1> QED BY <1>5, <1>6, <1>9 DEF M

\* The other entries are the same.
EntriesKept(fd, p, s, e) ==
  \A x \in Procs, t \in 0 .. 1 : x # p \/ t # s => e[x][t] = fd[x][t]

\* What an entry of a PCB becomes.
LEMMA Filled ==
  ASSUME NEW fd \in FDTables, NEW p \in Procs, NEW s \in 0 .. 1, NEW f \in FDs \cup {NoFD},
         NEW e, Fills(fd, p, s, f, e)
  PROVE  e \in FDTables /\ e[p][s] = f /\ EntriesKept(fd, p, s, e)
BY DEF FDTables, Fills, EntriesKept

\* Who owns what after it.
LEMMA FilledOwn ==
  ASSUME NEW fd \in FDTables, NEW p \in Procs, NEW s \in 0 .. 1, NEW f \in FDs \cup {NoFD},
         NEW e, Fills(fd, p, s, f, e), NEW rw
  PROVE  /\ OwnAll(fd, rw, e, rw, Procs \ {p})
         /\ fd[p][s] = NoFD => OwnAll(fd, rw, e, rw, Procs)
<1>1. e[p][s] = f /\ EntriesKept(fd, p, s, e)
  BY Filled
<1>2. \A g \in FDs : g # NoFD
  BY DEF FDs, NoFD
<1>3. \A x \in Procs : /\ x # p \/ 0 # s => e[x][0] = fd[x][0]
                       /\ x # p \/ 1 # s => e[x][1] = fd[x][1]
  BY <1>1 DEF EntriesKept
<1>4. OwnAll(fd, rw, e, rw, Procs \ {p})
  BY ONLY <1>3 DEF Owns, OwnAll
<1>5. ASSUME fd[p][s] = NoFD PROVE OwnAll(fd, rw, e, rw, Procs)
  <2>1. 0 = s => fd[p][0] = NoFD
    BY <1>5
  <2>2. 1 = s => fd[p][1] = NoFD
    BY <1>5
  <2> QED BY ONLY <1>2, <1>3, <2>1, <2>2 DEF Owns, OwnAll
<1> QED BY <1>4, <1>5

\* Who owns what, as far as those who wait are concerned.
LEMMA OwnersOfWaiters ==
  ASSUME NEW a, NEW b, NEW fd, NEW rw, NEW e, NEW v, WaitersOwn(a, fd, rw),
         b.pipe_table = a.pipe_table, b.fd_table = a.fd_table,
         NEW S, OwnAll(fd, rw, e, v, S),
         \A i \in Pipes, x \in Procs : Waits(a.pipe_table[i], x) => x \in S
  PROVE  WaitersOwn(b, e, v)
<1>1. \A i, t : Ends(b, i, t) = Ends(a, i, t) /\ Ends(a, i, t) \subseteq FDs
  BY DEF Ends
<1> QED BY <1>1 DEF WaitersOwn, Waits, OwnAll

\* Who is free is as before, and so is who does not wait, except for the processes
\* in S.
StatesKept(a, b, S) == \A x \in Procs \ S :
  /\ b.state[x] = "FREE" <=> a.state[x] = "FREE"
  /\ (\A i \in Pipes : ~Waits(a.pipe_table[i], x)) => b.state[x] = a.state[x]

\* One operation after another.
LEMMA StatesKeptTwice ==
  ASSUME NEW a, NEW b, NEW c, NEW d, Shrinks(a, b), Shrinks(d, c),
         d.state = b.state, d.pipe_table = b.pipe_table
  PROVE  StatesKept(a, c, {})
<1>1. ASSUME NEW x \in Procs, \A i \in Pipes : ~Waits(a.pipe_table[i], x)
      PROVE  c.state[x] = a.state[x]
  <2>1. \A i \in Pipes : ~Waits(b.pipe_table[i], x)
    BY <1>1 DEF Shrinks, Waits
  <2> QED BY <1>1, <2>1 DEF Shrinks
<1> QED BY <1>1 DEF StatesKept, Shrinks

\* The reference in entry s of a PCB goes, of a process that does not wait.
LEMMA Release ==
  ASSUME NEW a, NEW fr, NEW L, NEW C, NEW fd, NEW rw, NEW G, KInv(a, RefsOf(fd, G), fr, L, C),
         Owners(fd, rw, G), WaitersOwn(a, fd, rw),
         NEW p \in Procs, NEW s \in 0 .. 1, \A i \in Pipes : ~Waits(a.pipe_table[i], p),
         NEW f \in FDs, fd[p][s] = f, NEW e, Fills(fd, p, s, NoFD, e),
         NEW b, b = fd_decref(a, f)
  PROVE  /\ KInv(b, RefsOf(e, G), fr, L, C) /\ Owners(e, rw, G) /\ WaitersOwn(b, e, rw)
         /\ e[p][s] = NoFD /\ EntriesKept(fd, p, s, e) /\ Shrinks(a, b)
<1>1. fd \in FDTables /\ G \in SUBSET FDs /\ NoFD \in FDs \cup {NoFD}
  BY DEF Owners
<1>2. Fills(e, p, s, f, fd)
  BY <1>1 DEF Fills, FDTables
<1>3. e \in FDTables /\ e[p][s] = NoFD /\ EntriesKept(fd, p, s, e)
  BY ONLY <1>1, p \in Procs, s \in 0 .. 1, Fills(fd, p, s, NoFD, e), Filled
<1>4. OwnAll(fd, rw, e, rw, Procs \ {p})
  BY ONLY <1>1, p \in Procs, s \in 0 .. 1, Fills(fd, p, s, NoFD, e), FilledOwn
<1>5. OneMore(RefsOf(e, G), f, RefsOf(fd, G))
  BY <1>1, <1>2, <1>3, RefsEntry
<1>6. Owners(e, rw, G)
  BY <1>3 DEF Owners
<1>7. WaitersOwn(a, e, rw)
  BY <1>4, OwnersOfWaiters
<1>8. KInv(b, RefsOf(e, G), fr, L, C) /\ WaitersOwn(b, e, rw) /\ Shrinks(a, b)
  BY ONLY <1>5, <1>6, <1>7, f \in FDs, b = fd_decref(a, f), KInv(a, RefsOf(fd, G), fr, L, C), Drop
<1> QED BY <1>3, <1>6, <1>8

\* What sys_dup2 and process_pipe_setup do to the entry s of p's PCB.
Redirects(a, p, s, f, b) ==
  b = fd_incref([fd_decref(a, a.fd[p][s]) EXCEPT !.fd[p][s] = f], f)

\* Of the processes but p, F has those of fr.
SameBut(F, fr, p) == \A x \in Procs \ {p} : x \in F <=> x \in fr

\* There is no process in slot p.
EmptySlot(a, p) == a.state[p] = "FREE" /\ a.fd[p][0] = NoFD /\ a.fd[p][1] = NoFD

\* There is one, with standard input and output.
FullSlot(a, p) == a.fd[p][0] \in FDs /\ a.fd[p][1] \in FDs

\* The processes but p keep what they were given.
OthersKeep(rw, v, p) == \A x \in Procs \ {p} : v[x] = rw[x]

\* A process comes, and is one of F if it comes asleep.
Enters(p, st, F) == st \in {"READY", "BLOCKED"} /\ (st = "BLOCKED" => p \in F)

\* process_create, with p in state st after it.
Creates(a, p, st, b) == b = create_fds(a, p, st = "BLOCKED")

\* The entries of the others are the same, and p, now in state st, has both or none.
Stdio(fd, p, st, e) ==
  /\ \A x \in Procs \ {p} : e[x] = fd[x]
  /\ \A s \in 0 .. 1 : e[p][s] = NoFD <=> st = "FREE"

\* What a process that comes or goes leaves, in state st after it.
After(a, b, rw, G, F, L, C, p, st) ==
  /\ KInv(b, RefsOf(b.fd, G), F, L, C) /\ WaitersOwn(b, b.fd, rw)
  /\ Stdio(a.fd, p, st, b.fd) /\ StatesKept(a, b, {p}) /\ b.state[p] = st

\* The entry s of a PCB is redirected to f, as in sys_dup2 and process_pipe_setup.
LEMMA Redirect ==
  ASSUME NEW a, NEW fr, NEW L, NEW C, NEW rw, NEW G, KInv(a, RefsOf(a.fd, G), fr, L, C),
         Owners(a.fd, rw, G), WaitersOwn(a, a.fd, rw),
         NEW p \in Procs, NEW s \in 0 .. 1, \A i \in Pipes : ~Waits(a.pipe_table[i], p),
         a.fd[p][s] \in FDs, NEW f \in FDs, f \in {0, 1} \/ f \in G,
         NEW b, Redirects(a, p, s, f, b)
  PROVE  /\ KInv(b, RefsOf(b.fd, G), fr, L, C) /\ WaitersOwn(b, b.fd, rw)
         /\ Fills(a.fd, p, s, f, b.fd) /\ StatesKept(a, b, {})
<1> DEFINE old == a.fd[p][s]
           e == [a.fd EXCEPT ![p][s] = NoFD]
           h == [e EXCEPT ![p][s] = f]
           c == fd_decref(a, old)
           c1 == FDsIn(c, h)
<1>1. a.fd \in FDTables /\ G \in SUBSET FDs /\ old \in FDs
  BY DEF Owners
<1>2. Fills(a.fd, p, s, NoFD, e) /\ Fills(e, p, s, f, h) /\ h = [a.fd EXCEPT ![p][s] = f]
  BY <1>1 DEF Fills, FDTables
<1> HIDE DEF e, h
<1>3. a.fd[p][s] = old
  OBVIOUS
<1> HIDE DEF old
<1>4. /\ KInv(c, RefsOf(e, G), fr, L, C) /\ Owners(e, rw, G) /\ WaitersOwn(c, e, rw)
      /\ e[p][s] = NoFD /\ EntriesKept(a.fd, p, s, e) /\ Shrinks(a, c)
  BY <1>1, <1>2, <1>3, Release
<1>5. OneMore(RefsOf(e, G), f, RefsOf(h, G)) /\ h \in FDTables /\ OwnAll(e, rw, h, rw, Procs)
  <2>1. f \in FDs /\ f \in FDs \cup {NoFD} /\ e \in FDTables
    BY <1>4 DEF Owners
  <2>2. OneMore(RefsOf(e, G), f, RefsOf(h, G)) /\ h \in FDTables
    BY ONLY <1>1, <1>2, <1>4, <2>1, p \in Procs, s \in 0 .. 1, RefsEntry
  <2>3. OwnAll(e, rw, h, rw, Procs)
    BY ONLY <1>2, <1>4, <2>1, p \in Procs, s \in 0 .. 1, FilledOwn
  <2> QED BY <2>2, <2>3
<1>9. b = fd_incref(c1, f)
  <2>1. c.fd = a.fd
    BY <1>4 DEF Shrinks
  <2>2. b = fd_incref([c EXCEPT !.fd[p][s] = f], f)
    BY DEF old, Redirects
  <2> HIDE DEF c
  <2>3. [c EXCEPT !.fd[p][s] = f] = c1
    BY <1>2, <2>1 DEF FDsIn
  <2> QED BY <2>2, <2>3
<1> HIDE DEF c
<1>10. /\ KInv(c1, RefsOf(e, G), fr, L, C) /\ c1.fd = h
       /\ c1.state = c.state /\ c1.fd_table = c.fd_table /\ c1.pipe_table = c.pipe_table
  BY <1>5, <1>4, FDsInKeeps
<1> HIDE DEF c1
<1>11. WaitersOwn(c1, e, rw)
  <2>1. OwnAll(e, rw, e, rw, Procs)
    BY DEF OwnAll
  <2> QED BY <1>4, <1>10, <2>1, OwnersOfWaiters
<1>12. f \in {0, 1} \/ RefsOf(e, G)[{f}] > 0
  BY <1>1, <1>4, Owned DEF Owners
<1>14. KInv(b, RefsOf(h, G), fr, L, C) /\ WaitersOwn(b, h, rw) /\ Shrinks(c1, b)
  BY ONLY <1>4, <1>5, <1>9, <1>10, <1>11, <1>12, f \in FDs, Take
<1>15. b.fd = h
  BY <1>10, <1>14 DEF Shrinks
<1>16. StatesKept(a, b, {})
  BY <1>4, <1>10, <1>14, StatesKeptTwice
<1> QED BY <1>2, <1>14, <1>15, <1>16 DEF Fills

\* process_create: two references to the terminal.
LEMMA NewProcess ==
  ASSUME NEW a, NEW fr, NEW L, NEW C, NEW rw, NEW G, KInv(a, RefsOf(a.fd, G), fr, L, C),
         Owners(a.fd, rw, G), WaitersOwn(a, a.fd, rw),
         NEW p \in Procs, EmptySlot(a, p), NEW st, NEW F, SameBut(F, fr, p), Enters(p, st, F),
         NEW b, Creates(a, p, st, b)
  PROVE  After(a, b, rw, G, F, L, C, p, st)
<1> USE DEF EmptySlot, Enters
<1> DEFINE f0 == 0
           f1 == 1
           e == [a.fd EXCEPT ![p][0] = 0]
           h == [e EXCEPT ![p][1] = 1]
           c == StateIn(a, [a.state EXCEPT ![p] = st])
           c1 == FDsIn(c, h)
           c2 == fd_incref(c1, f0)
<1>1. a.fd \in FDTables /\ G \in SUBSET FDs /\ 0 \in FDs /\ 1 \in FDs /\ a \in PipeKernel
  BY FDAssumption DEF Owners, FDs, KInv
<1>2. ASSUME NEW i \in Pipes PROVE ~Waits(a.pipe_table[i], p)
  BY DEF KInv, SleepOK
<1>3. st \in {"FREE", "READY", "BLOCKED"} /\ (st = "BLOCKED" => p \in F) /\ st # "FREE"
  OBVIOUS
<1>4. /\ KInv(c, RefsOf(a.fd, G), F, L, C) /\ c.state[p] = st
      /\ \A x \in Procs \ {p} : c.state[x] = a.state[x]
      /\ c.pipe_table = a.pipe_table /\ c.fd = a.fd /\ c.fd_table = a.fd_table
  <2>1. Sets(a, p, st, c)
    BY DEF Sets
  <2> HIDE DEF c
  <2>2. \A i \in Pipes : ~Waits(a.pipe_table[i], p)
    BY <1>2
  <2>3. \A x \in Procs \ {p} : x \in F <=> x \in fr
    BY DEF SameBut
  <2>4. KInv(c, RefsOf(a.fd, G), F, L, C) /\ StateSet(a, p, st, c)
    BY ONLY <1>3, <2>1, <2>2, <2>3, p \in Procs, KInv(a, RefsOf(a.fd, G), fr, L, C), SetState
  <2> QED BY <2>4 DEF StateSet
<1>5. Fills(a.fd, p, 0, 0, e) /\ Fills(e, p, 1, 1, h)
  BY DEF Fills
<1>6. h = [a.fd EXCEPT ![p] = [s \in 0 .. 1 |-> s]]
  BY <1>1 DEF FDTables
<1> HIDE DEF e, h
<1>7. f0 \in FDs /\ f1 \in FDs /\ f0 \in {0, 1} /\ f1 \in {0, 1} /\ f0 \in 0 .. 1 /\ f1 \in 0 .. 1
      /\ f0 # f1 /\ Fills(a.fd, p, f0, f0, e) /\ Fills(e, p, f1, f1, h)
      /\ a.fd[p][f0] = NoFD /\ a.fd[p][f1] = NoFD
  BY <1>1, <1>5
<1> HIDE DEF f0, f1
<1>8. /\ e \in FDTables /\ OneMore(RefsOf(a.fd, G), f0, RefsOf(e, G)) /\ OwnAll(a.fd, rw, e, rw, Procs)
      /\ e[p][f1] = NoFD
  <2>1. f0 \in FDs \cup {NoFD}
    BY <1>7
  <2>2. e \in FDTables /\ OneMore(RefsOf(a.fd, G), f0, RefsOf(e, G))
    BY ONLY <1>1, <1>7, p \in Procs, RefsEntry
  <2>3. OwnAll(a.fd, rw, e, rw, Procs)
    BY ONLY <1>1, <1>7, <2>1, p \in Procs, FilledOwn
  <2>4. EntriesKept(a.fd, p, f0, e)
    BY ONLY <1>1, <1>7, <2>1, p \in Procs, Filled
  <2>5. e[p][f1] = NoFD
    BY ONLY <1>7, <2>4, p \in Procs DEF EntriesKept
  <2> QED BY <2>2, <2>3, <2>5
<1>9. /\ h \in FDTables /\ OneMore(RefsOf(e, G), f1, RefsOf(h, G)) /\ OwnAll(e, rw, h, rw, Procs)
  <2>1. f1 \in FDs \cup {NoFD}
    BY <1>7
  <2>2. h \in FDTables /\ OneMore(RefsOf(e, G), f1, RefsOf(h, G))
    BY ONLY <1>1, <1>7, <1>8, p \in Procs, RefsEntry
  <2>3. OwnAll(e, rw, h, rw, Procs)
    BY ONLY <1>7, <1>8, <2>1, p \in Procs, FilledOwn
  <2> QED BY <2>2, <2>3
<1>10. b = fd_incref(c2, f1)
  <2>1. [a EXCEPT !.state[p] = IF st = "BLOCKED" THEN "BLOCKED" ELSE "READY",
                  !.fd[p] = [s \in 0 .. 1 |-> s]] = c1
    <3> DEFINE hh == [a.fd EXCEPT ![p] = [s \in 0 .. 1 |-> s]]
               ss == [a.state EXCEPT ![p] = st]
    <3>0. st = IF st = "BLOCKED" THEN "BLOCKED" ELSE "READY"
      OBVIOUS
    <3>1. [a EXCEPT !.state[p] = IF st = "BLOCKED" THEN "BLOCKED" ELSE "READY",
                    !.fd[p] = [s \in 0 .. 1 |-> s]] = [a EXCEPT !.state = ss, !.fd = hh]
      BY <3>0
    <3>2. c1 = FDsIn(StateIn(a, ss), hh)
      BY <1>6
    <3> HIDE DEF hh, ss
    <3>3. FDsIn(StateIn(a, ss), hh) = [a EXCEPT !.state = ss, !.fd = hh]
      BY <1>1 DEF FDsIn, StateIn, PipeKernel
    <3> QED BY ONLY <3>1, <3>2, <3>3
  <2> QED BY <2>1 DEF Creates, create_fds, FD_STDIN, FD_STDOUT, f0, f1
<1> HIDE DEF c
<1>11. /\ KInv(c1, RefsOf(a.fd, G), F, L, C) /\ c1.fd = h
       /\ c1.state = c.state /\ c1.fd_table = c.fd_table /\ c1.pipe_table = c.pipe_table
  BY <1>4, <1>9, FDsInKeeps
<1> HIDE DEF c1
<1>12. WaitersOwn(c1, a.fd, rw)
  <2>1. OwnAll(a.fd, rw, a.fd, rw, Procs)
    BY DEF OwnAll
  <2> QED BY <1>4, <1>11, <2>1, OwnersOfWaiters
<1>13. Owners(e, rw, G)
  BY <1>8 DEF Owners
<1>14. KInv(c2, RefsOf(e, G), F, L, C) /\ WaitersOwn(c2, e, rw) /\ Shrinks(c1, c2)
  BY ONLY <1>7, <1>8, <1>11, <1>12, Owners(a.fd, rw, G), Take
<1> HIDE DEF c2
<1>15. KInv(b, RefsOf(h, G), F, L, C) /\ WaitersOwn(b, h, rw) /\ Shrinks(c2, b)
  BY ONLY <1>7, <1>9, <1>10, <1>13, <1>14, Take
<1>16. b.fd = h
  BY <1>11, <1>14, <1>15 DEF Shrinks
<1>17. StatesKept(c1, b, {})
  BY <1>14, <1>15, StatesKeptTwice
<1>18. StatesKept(a, b, {p}) /\ b.state[p] = st
  BY <1>2, <1>4, <1>11, <1>17 DEF StatesKept
<1>19. Stdio(a.fd, p, st, b.fd)
  BY <1>1, <1>3, <1>6, <1>16 DEF Stdio, FDTables, NoFD
<1> QED BY <1>15, <1>16, <1>18, <1>19 DEF After

\* process_exit and process_kill: p leaves the queues, and its two references go.
LEMMA ProcessEnds ==
  ASSUME NEW a, NEW fr, NEW L, NEW C, NEW rw, NEW G, KInv(a, RefsOf(a.fd, G), fr, L, C),
         Owners(a.fd, rw, G), WaitersOwn(a, a.fd, rw),
         NEW p \in Procs, FullSlot(a, p), NEW F, SameBut(F, fr, p),
         NEW v, Owners(a.fd, v, G), OthersKeep(rw, v, p),
         NEW b, b = process_ends(a, p)
  PROVE  After(a, b, v, G, F, L, C, p, "FREE")
<1> USE DEF FullSlot, OthersKeep
<1> DEFINE s0 == 0
           s1 == 1
           g0 == a.fd[p][0]
           g1 == a.fd[p][1]
           e == [a.fd EXCEPT ![p][0] = NoFD]
           h == [e EXCEPT ![p][1] = NoFD]
           c == pipe_cleanup_for_process(a, p)
           c1 == fd_decref(c, g0)
           c2 == fd_decref(c1, g1)
           c3 == FDsIn(c2, h)
           F1 == fr \cup {p}
<1>1. a.fd \in FDTables /\ g0 \in FDs /\ g1 \in FDs
  BY DEF Owners
<1>2. KInv(c, RefsOf(a.fd, G), F1, L, C) /\ Gone(a, c, p)
  <2>1. c = pipe_cleanup_for_process(a, p)
    OBVIOUS
  <2> HIDE DEF c
  <2> QED BY ONLY <2>1, p \in Procs, KInv(a, RefsOf(a.fd, G), fr, L, C), Cleanup
<1>3. /\ Fills(a.fd, p, s0, NoFD, e) /\ Fills(e, p, s1, NoFD, h)
      /\ h = [a.fd EXCEPT ![p] = [s \in 0 .. 1 |-> NoFD]]
      /\ a.fd[p][s0] = g0 /\ a.fd[p][s1] = g1
      /\ s0 \in 0 .. 1 /\ s1 \in 0 .. 1 /\ s0 # s1
  <2>1. Fills(a.fd, p, s0, NoFD, e) /\ Fills(e, p, s1, NoFD, h)
    BY DEF Fills
  <2>2. h = [a.fd EXCEPT ![p] = [s \in 0 .. 1 |-> NoFD]]
    BY <1>1 DEF FDTables
  <2> QED BY <2>1, <2>2
<1> HIDE DEF s0, s1, e, h
<1>4. WaitersOwn(c, a.fd, v) /\ \A i \in Pipes : ~Waits(c.pipe_table[i], p)
  <2>1. \A i, t : Ends(c, i, t) = Ends(a, i, t)
    BY <1>2 DEF Ends, Gone
  <2>2. \A x \in Procs \ {p} : \A f : Owns(a.fd, rw, x, f) => Owns(a.fd, v, x, f)
    BY DEF Owns
  <2> HIDE DEF c
  <2> QED BY <1>2, <2>1, <2>2 DEF WaitersOwn, Gone, Waits
<1>5. process_release_fds(c, p) = [c2 EXCEPT !.fd[p] = [s \in 0 .. 1 |-> NoFD]]
  <2>1. c.fd = a.fd
    BY <1>2 DEF Gone
  <2>2. g0 >= 0 /\ g1 >= 0
    BY <1>1 DEF FDs
  <2>3. c.fd[p][0] = g0 /\ c.fd[p][1] = g1
    BY <2>1
  <2> HIDE DEF c, g0, g1
  <2> QED BY <2>2, <2>3 DEF process_release_fds
<1>6. b = [process_release_fds(c, p) EXCEPT !.state[p] = "FREE"]
  BY DEF process_ends
<1> HIDE DEF c, g0, g1
<1>7. /\ KInv(c1, RefsOf(e, G), F1, L, C) /\ Owners(e, v, G) /\ WaitersOwn(c1, e, v)
      /\ EntriesKept(a.fd, p, s0, e) /\ Shrinks(c, c1)
  BY ONLY <1>1, <1>2, <1>3, <1>4, Owners(a.fd, v, G), p \in Procs, Release
<1>8. e[p][s1] = g1 /\ \A i \in Pipes : ~Waits(c1.pipe_table[i], p)
  <2> HIDE DEF c1
  <2>1. e[p][s1] = g1
    BY <1>3, <1>7 DEF EntriesKept
  <2>2. \A i \in Pipes : ~Waits(c1.pipe_table[i], p)
    BY ONLY <1>4, <1>7, p \in Procs DEF Shrinks, Waits
  <2> QED BY <2>1, <2>2
<1> HIDE DEF c1
<1>9. /\ KInv(c2, RefsOf(h, G), F1, L, C) /\ Owners(h, v, G) /\ WaitersOwn(c2, h, v)
      /\ Shrinks(c1, c2)
  BY ONLY <1>1, <1>3, <1>7, <1>8, p \in Procs, Release
<1> HIDE DEF c2
<1>10. c2.fd = a.fd /\ \A i \in Pipes : ~Waits(c2.pipe_table[i], p)
  <2>1. c2.fd = a.fd
    BY <1>2, <1>7, <1>9 DEF Gone, Shrinks
  <2>2. \A i \in Pipes : ~Waits(c2.pipe_table[i], p)
    BY ONLY <1>8, <1>9, p \in Procs DEF Shrinks, Waits
  <2> QED BY <2>1, <2>2
<1>11. Sets(c3, p, "FREE", b)
  <2>1. process_release_fds(c, p) = c3
    <3>1. process_release_fds(c, p) = [c2 EXCEPT !.fd = [@ EXCEPT ![p] = [s \in 0 .. 1 |-> NoFD]]]
      BY <1>5
    <3> QED BY <1>3, <1>10, <3>1 DEF FDsIn
  <2> HIDE DEF c3
  <2> QED BY <1>6, <2>1 DEF Sets, StateIn
<1>12. /\ KInv(c3, RefsOf(h, G), F1, L, C) /\ c3.fd = h
       /\ c3.state = c2.state /\ c3.fd_table = c2.fd_table /\ c3.pipe_table = c2.pipe_table
  <2>1. h \in FDTables
    BY <1>9 DEF Owners
  <2> QED BY <1>9, <2>1, FDsInKeeps
<1> HIDE DEF c3
<1>13. KInv(b, RefsOf(h, G), F, L, C) /\ StateSet(c3, p, "FREE", b)
  <2> DEFINE st == "FREE"
  <2>1. st \in {"FREE", "READY", "BLOCKED"} /\ (st = "BLOCKED" => p \in F) /\ Sets(c3, p, st, b)
    BY <1>11
  <2> HIDE DEF st
  <2>2. \A x \in Procs \ {p} : x \in F <=> x \in F1
    BY DEF SameBut
  <2>3. \A i \in Pipes : ~Waits(c3.pipe_table[i], p)
    BY <1>10, <1>12
  <2> HIDE DEF F1
  <2>4. KInv(b, RefsOf(h, G), F, L, C) /\ StateSet(c3, p, st, b)
    BY ONLY <1>12, <2>1, <2>2, <2>3, p \in Procs, SetState
  <2> QED BY <2>4 DEF st
<1>14. b.fd = h /\ b.pipe_table = c2.pipe_table /\ b.fd_table = c2.fd_table
  BY <1>12, <1>13 DEF StateSet
<1>15. WaitersOwn(b, h, v)
  <2>1. OwnAll(h, v, h, v, Procs)
    BY DEF OwnAll
  <2> QED BY <1>9, <1>14, <2>1, OwnersOfWaiters
<1>16. StatesKept(a, b, {p}) /\ b.state[p] = "FREE"
  <2>1. StatesKept(c, c2, {})
    BY <1>7, <1>9, StatesKeptTwice
  <2>2. \A x \in Procs, i \in Pipes : ~Waits(a.pipe_table[i], x) => ~Waits(c.pipe_table[i], x)
    BY <1>2 DEF Gone, Waits
  <2> QED BY <1>2, <1>12, <1>13, <2>1, <2>2 DEF StatesKept, StateSet, Gone
<1>17. Stdio(a.fd, p, "FREE", b.fd)
  BY <1>1, <1>3, <1>14 DEF Stdio, FDTables
<1> QED BY <1>13, <1>14, <1>15, <1>16, <1>17 DEF After

(***************************************************************************)
(* Reading and writing                                                     *)
(***************************************************************************)
\* Bytes move, and somebody may be woken.
LEMMA BytesMove ==
  ASSUME NEW a, NEW N, NEW fr, NEW L, NEW C, KInv(a, N, fr, L, C), NEW i \in Pipes,
         NEW b, Moves(a, b, i), a.pipe_table[i].in_use, b.pipe_table[i].in_use,
         b.pipe_table[i].open_read = a.pipe_table[i].open_read,
         b.pipe_table[i].open_write = a.pipe_table[i].open_write
  PROVE  KInv(b, N, fr, L, C) /\ Shrinks(a, b) /\ b.fd_table = a.fd_table
<1>1. /\ a \in PipeKernel /\ PipesOK(a, C) /\ SleepOK(a, fr) /\ TablesOK(a, N) /\ HeldOK(a, N)
      /\ Measure(N) /\ \A j \in Pipes : UseOK(a.pipe_table[j], j \in L)
  BY DEF KInv, PipesOK
<1>2. PICK W : On(a, b, i, W) /\ Settles(a.pipe_table[i], b.pipe_table[i], W)
  BY DEF Moves
<1>3. PipesOK(b, C) /\ SleepOK(b, fr) /\ Shrinks(a, b)
  BY <1>1, <1>2, OnSettles
<1>4. b \in PipeKernel /\ b.fd_table = a.fd_table /\ \A j \in Pipes \ {i} : b.pipe_table[j] = a.pipe_table[j]
  BY <1>2 DEF On
<1>5. \A j, t : Ends(b, j, t) = Ends(a, j, t)
  BY <1>4 DEF Ends
<1>6. ASSUME NEW j \in Pipes PROVE UseOK(b.pipe_table[j], j \in L)
  <2>1. UseOK(a.pipe_table[j], j \in L)
    BY <1>1
  <2> QED BY <1>4, <2>1 DEF UseOK
<1>7. TablesOK(b, N)
  <2>1. \A j \in Pipes : /\ b.pipe_table[j].open_read = a.pipe_table[j].open_read
                         /\ b.pipe_table[j].open_write = a.pipe_table[j].open_write
    BY <1>4
  <2> QED BY <1>1, <1>4, <1>5, <2>1 DEF TablesOK
<1>8. HeldOK(b, N)
  BY <1>1, <1>3, <1>5 DEF HeldOK, Shrinks
<1> QED BY <1>1, <1>3, <1>4, <1>6, <1>7, <1>8 DEF KInv, PipesOK

\* Process p goes to sleep in a queue of pipe i, of which it has an end.
LEMMA FallsAsleep ==
  ASSUME NEW a, NEW N, NEW fr, NEW L, NEW C, KInv(a, N, fr, L, C), NEW i \in Pipes,
         NEW p \in Procs, p \notin fr, a.state[p] = "READY",
         NEW b, Sleeps(a, b, i, p), Local(b.pipe_table[i]), Waits(b.pipe_table[i], p),
         Reads(b.pipe_table[i], p) => \E f \in Ends(a, i, "PIPE_READ") : N[{f}] > 0,
         Writes(b.pipe_table[i], p) => \E f \in Ends(a, i, "PIPE_WRITE") : N[{f}] > 0,
         NEW D, \A j \in Pipes : j \notin D => Calm(b.pipe_table[j])
  PROVE  KInv(b, N, fr, L, D)
<1>1. /\ a \in PipeKernel /\ SleepOK(a, fr) /\ TablesOK(a, N) /\ HeldOK(a, N) /\ Measure(N)
      /\ \A j \in Pipes : Local(a.pipe_table[j]) /\ UseOK(a.pipe_table[j], j \in L)
  BY DEF KInv
<1>2. /\ b \in PipeKernel /\ b.fd_table = a.fd_table
      /\ \A j \in Pipes \ {i} : b.pipe_table[j] = a.pipe_table[j]
      /\ b.pipe_table[i].open_read = a.pipe_table[i].open_read
      /\ b.pipe_table[i].open_write = a.pipe_table[i].open_write
      /\ b.pipe_table[i].in_use = a.pipe_table[i].in_use
      /\ \A x \in Procs \ {p} : /\ Reads(b.pipe_table[i], x) <=> Reads(a.pipe_table[i], x)
                                /\ Writes(b.pipe_table[i], x) <=> Writes(a.pipe_table[i], x)
  BY DEF Sleeps
<1>3. \A x \in Procs : b.state[x] = IF x = p THEN "BLOCKED" ELSE a.state[x]
  <2>1. a.state \in [Procs -> {"FREE", "READY", "BLOCKED"}]
    BY <1>1, KernelFields
  <2> QED BY <2>1 DEF Sleeps
<1>4. \A j \in Pipes : ~Waits(a.pipe_table[j], p)
  BY <1>1 DEF SleepOK
<1>5. \A j \in Pipes, x \in Procs :
        Waits(b.pipe_table[j], x) <=> Waits(a.pipe_table[j], x) \/ (j = i /\ x = p)
  BY <1>2 DEF Waits
<1>6. SleepOK(b, fr)
  <2>1. ASSUME NEW j \in Pipes, NEW x \in Procs, Waits(b.pipe_table[j], x)
        PROVE  /\ b.state[x] = "BLOCKED" /\ x \notin fr
               /\ \A m \in Pipes \ {j} : ~Waits(b.pipe_table[m], x)
    <3>1. CASE x = p
      BY <1>3, <1>4, <1>5, <2>1, <3>1
    <3>2. CASE x # p
      BY <1>1, <1>3, <1>5, <2>1, <3>2 DEF SleepOK
    <3> QED BY <3>1, <3>2
  <2>2. ASSUME NEW x \in Procs, b.state[x] = "BLOCKED", x \notin fr
        PROVE  \E j \in Pipes : Waits(b.pipe_table[j], x)
    BY <1>1, <1>3, <1>5, <2>2 DEF SleepOK
  <2> QED BY <2>1, <2>2 DEF SleepOK
<1>7. \A j, t : Ends(b, j, t) = Ends(a, j, t)
  BY <1>2 DEF Ends
<1>8. TablesOK(b, N)
  <2>1. \A j \in Pipes : /\ b.pipe_table[j].open_read = a.pipe_table[j].open_read
                         /\ b.pipe_table[j].open_write = a.pipe_table[j].open_write
    BY <1>2
  <2>2. TablesOK(a, N) /\ b.fd_table = a.fd_table
    BY <1>1, <1>2
  <2> QED BY ONLY <1>7, <2>1, <2>2 DEF TablesOK
<1>9. HeldOK(b, N)
  <2>1. ASSUME NEW j \in Pipes, NEW x \in Procs
        PROVE  /\ Reads(b.pipe_table[j], x) => \E f \in Ends(a, j, "PIPE_READ") : N[{f}] > 0
               /\ Writes(b.pipe_table[j], x) => \E f \in Ends(a, j, "PIPE_WRITE") : N[{f}] > 0
    <3>1. CASE j = i /\ x = p
      BY <3>1
    <3>2. CASE ~(j = i /\ x = p)
      BY <1>1, <1>2, <3>2 DEF HeldOK
    <3> QED BY <3>1, <3>2
  <2> QED BY <1>7, <2>1 DEF HeldOK
<1>10. ASSUME NEW j \in Pipes PROVE Local(b.pipe_table[j]) /\ UseOK(b.pipe_table[j], j \in L)
  <2>1. UseOK(a.pipe_table[j], j \in L)
    BY <1>1
  <2> QED BY <1>1, <1>2, <2>1 DEF UseOK
<1> QED BY <1>1, <1>2, <1>6, <1>8, <1>9, <1>10 DEF KInv

\* Whoever is queued in b was, or is p at the end t of pipe i.
OnlyNew(a, b, i, p, t) == \A j \in Pipes, x \in Procs :
  /\ Reads(b.pipe_table[j], x) => Reads(a.pipe_table[j], x) \/ (j = i /\ x = p /\ t = "PIPE_READ")
  /\ Writes(b.pipe_table[j], x) => Writes(a.pipe_table[j], x) \/ (j = i /\ x = p /\ t = "PIPE_WRITE")

\* What a call by p on the end t of pipe i leaves.
CallLeaves(a, N, fr, L, b, i, p, t) ==
  /\ KInv(b, N, fr, L, Crowd(b)) /\ b.fd = a.fd /\ b.fd_table = a.fd_table
  /\ StatesKept(a, b, {p}) /\ b.state[p] # "FREE" /\ OnlyNew(a, b, i, p, t)

\* A call that does not put its caller to sleep.
LEMMA CallReturns ==
  ASSUME NEW a, NEW N, NEW fr, NEW L, NEW b, KInv(b, N, fr, L, crowded), Shrinks(a, b),
         b.fd_table = a.fd_table, NEW i, NEW p \in Procs, a.state[p] = "READY", NEW t
  PROVE  CallLeaves(a, N, fr, L, b, i, p, t)
<1>1. KInv(b, N, fr, L, Crowd(b))
  BY KCrowd
<1>2. StatesKept(a, b, {p}) /\ b.state[p] # "FREE" /\ b.fd = a.fd
  BY DEF Shrinks, StatesKept
<1>3. OnlyNew(a, b, i, p, t)
  BY DEF Shrinks, OnlyNew
<1> QED BY <1>1, <1>2, <1>3 DEF CallLeaves

\* A call that does.
LEMMA CallSleeps ==
  ASSUME NEW a, NEW N, NEW fr, NEW L, KInv(a, N, fr, L, crowded), NEW i \in Pipes,
         NEW p \in Procs, p \notin fr, a.state[p] = "READY", a.pipe_table[i].in_use,
         NEW b, Sleeps(a, b, i, p), Local(b.pipe_table[i]),
         NEW f \in FDs, N[{f}] > 0, NEW t, f \in Ends(a, i, t),
         \/ /\ t = "PIPE_READ" /\ Reads(b.pipe_table[i], p) /\ ~Writes(b.pipe_table[i], p)
            /\ Calm(a.pipe_table[i]) /\ Len(b.pipe_table[i].wait_readers) <= 1
                 => Calm(b.pipe_table[i])
         \/ /\ t = "PIPE_WRITE" /\ Writes(b.pipe_table[i], p) /\ ~Reads(b.pipe_table[i], p)
            /\ Calm(a.pipe_table[i]) /\ Len(b.pipe_table[i].wait_writers) <= 1
                 => Calm(b.pipe_table[i])
  PROVE  CallLeaves(a, N, fr, L, b, i, p, t)
<1>1. /\ b \in PipeKernel /\ b.fd_table = a.fd_table /\ b.fd = a.fd
      /\ \A j \in Pipes \ {i} : b.pipe_table[j] = a.pipe_table[j]
      /\ b.pipe_table[i].in_use = a.pipe_table[i].in_use
      /\ \A x \in Procs \ {p} : /\ Reads(b.pipe_table[i], x) <=> Reads(a.pipe_table[i], x)
                                /\ Writes(b.pipe_table[i], x) <=> Writes(a.pipe_table[i], x)
  BY DEF Sleeps
<1>2. b.pipe_table[i] \in PipeRecord
  BY <1>1, KernelFields
<1>3. Len(b.pipe_table[i].wait_readers) \in Nat /\ Len(b.pipe_table[i].wait_writers) \in Nat
  BY <1>2, PipeFields
<1>4. ASSUME NEW j \in Pipes, j \notin Crowd(b) PROVE Calm(b.pipe_table[j])
  <2>1. CASE j = i
    <3>1. /\ i \notin crowded /\ ~(Len(b.pipe_table[i].wait_readers) > 1)
          /\ ~(Len(b.pipe_table[i].wait_writers) > 1)
      BY <1>1, <1>4, <2>1 DEF Crowd
    <3>2. Calm(a.pipe_table[i])
      BY <3>1 DEF KInv
    <3>3. Len(b.pipe_table[i].wait_readers) <= 1 /\ Len(b.pipe_table[i].wait_writers) <= 1
      BY ONLY <1>3, <3>1
    <3> QED BY <2>1, <3>2, <3>3
  <2>2. CASE j # i
    <3>1. b.pipe_table[j] = a.pipe_table[j]
      BY <1>1, <2>2
    <3>2. CASE a.pipe_table[j].in_use
      <4>1. j \notin crowded
        BY <1>4, <3>1, <3>2 DEF Crowd
      <4> QED BY <3>1, <4>1 DEF KInv
    <3>3. CASE ~a.pipe_table[j].in_use
      <4>1. a.pipe_table[j] = FreePipe
        BY <3>3 DEF KInv, Local
      <4> QED BY <3>1, <4>1, FreePipeOK
    <3> QED BY <3>2, <3>3
  <2> QED BY <2>1, <2>2
<1>5. Waits(b.pipe_table[i], p)
  BY DEF Waits
<1>6. /\ Reads(b.pipe_table[i], p) => \E g \in Ends(a, i, "PIPE_READ") : N[{g}] > 0
      /\ Writes(b.pipe_table[i], p) => \E g \in Ends(a, i, "PIPE_WRITE") : N[{g}] > 0
  OBVIOUS
<1>7. \A j \in Pipes : j \notin Crowd(b) => Calm(b.pipe_table[j])
  BY <1>4
<1>8. KInv(b, N, fr, L, Crowd(b))
  <2> DEFINE D == Crowd(b)
  <2> HIDE DEF D
  <2>1. \A j \in Pipes : j \notin D => Calm(b.pipe_table[j])
    BY <1>7 DEF D
  <2>2. KInv(b, N, fr, L, D)
    BY ONLY <1>5, <1>6, <2>1, KInv(a, N, fr, L, crowded), i \in Pipes, p \in Procs, p \notin fr,
            a.state[p] = "READY", Sleeps(a, b, i, p), Local(b.pipe_table[i]), FallsAsleep
  <2> QED BY <2>2 DEF D
<1>9. StatesKept(a, b, {p}) /\ b.state[p] # "FREE"
  <2>1. a.state \in [Procs -> {"FREE", "READY", "BLOCKED"}]
    BY KernelFields DEF KInv
  <2>2. \A x \in Procs : b.state[x] = IF x = p THEN "BLOCKED" ELSE a.state[x]
    BY <2>1 DEF Sleeps
  <2> QED BY <2>2 DEF StatesKept
<1>10. OnlyNew(a, b, i, p, t)
  BY <1>1 DEF OnlyNew
<1> QED BY <1>1, <1>8, <1>9, <1>10 DEF CallLeaves

\* A call by p on the end t of pipe i.
Calls(a, i, p, n, t, b) == \/ t = "PIPE_READ" /\ b = pipe_read(a, i, p, n).k
                           \/ t = "PIPE_WRITE" /\ b = pipe_write(a, i, p, n).k

\* pipe_read and pipe_write, by a running process through a descriptor that has a
\* reference.
LEMMA PipeCall ==
  ASSUME NEW a, NEW N, NEW fr, NEW L, KInv(a, N, fr, L, crowded),
         NEW p \in Procs, p \notin fr, a.state[p] = "READY", NEW n \in Nat,
         NEW f \in FDs, N[{f}] > 0, NEW i, a.fd_table[f].data = i,
         NEW t, a.fd_table[f].type = t, NEW b, Calls(a, i, p, n, t, b)
  PROVE  CallLeaves(a, N, fr, L, b, i, p, t)
<1> USE DEF Calls
<1> DEFINE q == a.pipe_table[i]
<1>1. i \in Pipes /\ q.in_use /\ f \in Ends(a, i, t)
  BY Referred DEF Ends
<1>2. a \in PipeKernel /\ Local(q) /\ ~Waits(q, p) /\ q \in PipeRecord
  BY <1>1, KernelFields DEF KInv, SleepOK
<1>3. q.count \in 0 .. PIPE_BUFFER_SIZE /\ q.open_read \in Nat /\ PIPE_BUFFER_SIZE \in Nat
  BY <1>2, PipeFields, PipeAssumption
<1>4. ASSUME NEW W, On(a, b, i, W), Settles(q, b.pipe_table[i], W), b.pipe_table[i].in_use,
             b.pipe_table[i].open_read = q.open_read, b.pipe_table[i].open_write = q.open_write
      PROVE  CallLeaves(a, N, fr, L, b, i, p, t)
  <2>1. Moves(a, b, i)
    BY <1>4 DEF Moves
  <2>2. KInv(b, N, fr, L, crowded) /\ Shrinks(a, b) /\ b.fd_table = a.fd_table
    BY <1>1, <1>4, <2>1, BytesMove
  <2> QED BY ONLY <2>2, p \in Procs, a.state[p] = "READY", CallReturns
<1>5. ASSUME b = a PROVE CallLeaves(a, N, fr, L, b, i, p, t)
  <2>1. Shrinks(a, a)
    BY DEF Shrinks
  <2>2. KInv(a, N, fr, L, crowded) /\ a.fd_table = a.fd_table
    OBVIOUS
  <2>3. CallLeaves(a, N, fr, L, a, i, p, t)
    BY ONLY <2>1, <2>2, p \in Procs, a.state[p] = "READY", CallReturns
  <2> QED BY <1>5, <2>3
<1> HIDE DEF q
<1>6. CASE t = "PIPE_READ"
  <2>0. b = pipe_read(a, i, p, n).k
    BY <1>6
  <2>1. CASE n = 0
    <3>1. b = a
      BY <2>0, <2>1 DEF pipe_read
    <3> QED BY <1>5, <3>1
  <2>2. CASE n # 0 /\ q.count > 0
    <3>1. PICK W : /\ On(a, b, i, W) /\ Settles(q, b.pipe_table[i], W) /\ b.pipe_table[i].in_use
                   /\ b.pipe_table[i].open_read = q.open_read
                   /\ b.pipe_table[i].open_write = q.open_write
      BY <1>1, <1>2, <2>0, <2>2, ReadSome DEF q
    <3> QED BY <1>4, <3>1
  <2>3. CASE n # 0 /\ ~(q.count > 0) /\ at_eof(q)
    <3>1. b = a
      BY <2>0, <2>3 DEF pipe_read, q
    <3> QED BY <1>5, <3>1
  <2>4. CASE n # 0 /\ ~(q.count > 0) /\ ~at_eof(q)
    <3>1. b = sleep_reader(a, i, p)
      BY <2>0, <2>4 DEF pipe_read, q
    <3>2. q.count = 0
      BY <1>3, <2>4
    <3>3. /\ Sleeps(a, b, i, p) /\ Local(b.pipe_table[i])
          /\ Reads(b.pipe_table[i], p) /\ ~Writes(b.pipe_table[i], p)
          /\ Calm(q) /\ Len(b.pipe_table[i].wait_readers) <= 1 => Calm(b.pipe_table[i])
      BY <1>1, <1>2, <2>4, <3>1, <3>2, SleepReader DEF q
    <3> QED BY <1>1, <1>6, <3>3, CallSleeps DEF q
  <2> QED BY <2>1, <2>2, <2>3, <2>4
<1>7. CASE t = "PIPE_WRITE"
  <2>0. b = pipe_write(a, i, p, n).k
    BY <1>7
  <2>1. CASE n = 0 \/ (q.open_read = 0 /\ (~is_named(q) \/ q.eof))
    <3>1. b = a
      BY <2>0, <2>1 DEF pipe_write, q
    <3> QED BY <1>5, <3>1
  <2>2. CASE /\ n # 0 /\ ~(q.open_read = 0 /\ (~is_named(q) \/ q.eof))
             /\ q.open_read = 0 \/ q.count >= PIPE_BUFFER_SIZE
    <3>1. b = sleep_writer(a, i, p)
      BY <2>0, <2>2 DEF pipe_write, q
    <3>2. /\ q.open_read > 0 \/ (is_named(q) /\ ~q.eof)
          /\ q.count = PIPE_BUFFER_SIZE \/ q.open_read = 0
      BY <1>3, <2>2
    <3>3. /\ Sleeps(a, b, i, p) /\ Local(b.pipe_table[i])
          /\ Writes(b.pipe_table[i], p) /\ ~Reads(b.pipe_table[i], p)
          /\ Calm(q) /\ Len(b.pipe_table[i].wait_writers) <= 1 => Calm(b.pipe_table[i])
      BY <1>1, <1>2, <3>1, <3>2, SleepWriter DEF q
    <3> QED BY <1>1, <1>7, <3>3, CallSleeps DEF q
  <2>3. CASE n # 0 /\ ~(q.open_read = 0) /\ ~(q.count >= PIPE_BUFFER_SIZE)
    <3>1. q.open_read # 0 /\ q.count < PIPE_BUFFER_SIZE
      BY <1>3, <2>3
    <3>2. PICK W : /\ On(a, b, i, W) /\ Settles(q, b.pipe_table[i], W) /\ b.pipe_table[i].in_use
                   /\ b.pipe_table[i].open_read = q.open_read
                   /\ b.pipe_table[i].open_write = q.open_write
      BY <1>1, <1>2, <2>0, <2>3, <3>1, WriteSome DEF q
    <3> QED BY <1>4, <3>2
  <2> QED BY <2>1, <2>2, <2>3
<1> QED BY <1>6, <1>7

(***************************************************************************)
(* The processes' calls                                                    *)
(***************************************************************************)
GivenBy(rw, lost) == (UNION {rw[p] : p \in Procs}) \cup lost

\* Everything given is a descriptor.
LEMMA GivenOwners ==
  ASSUME NEW rw \in [Procs -> SUBSET FDs], NEW lost \in SUBSET FDs, NEW fd \in FDTables
  PROVE  Owners(fd, rw, GivenBy(rw, lost))
BY DEF Owners, GivenBy

\* What the invariant says of the state a call starts in.
LEMMA InvFacts ==
  ASSUME PipeInv
  PROVE  /\ k \in PipeKernel /\ k.fd \in FDTables
         /\ raw \in [Procs -> SUBSET FDs] /\ orphans \in SUBSET FDs /\ Apart(raw, orphans)
         /\ FreshOK(k, fresh) /\ FreeOK(k) /\ WaitersOwn(k, k.fd, raw)
         /\ KInv(k, RefsOf(k.fd, Given), fresh, leaked, crowded)
         /\ Owners(k.fd, raw, Given) /\ Given = GivenBy(raw, orphans)
         /\ SleepOK(k, fresh)
<1>1. KInv(k, RefsOf(k.fd, Given), fresh, leaked, crowded) /\ OwnersOK(k, raw, fresh, orphans)
  BY DEF PipeInv
<1>2. k \in PipeKernel /\ SleepOK(k, fresh)
  BY ONLY <1>1 DEF KInv
<1>3. k.fd \in FDTables
  BY ONLY <1>2, KernelFields DEF FDTables
<1>4. /\ raw \in [Procs -> SUBSET FDs] /\ orphans \in SUBSET FDs /\ Apart(raw, orphans)
      /\ FreshOK(k, fresh) /\ FreeOK(k) /\ WaitersOwn(k, k.fd, raw)
  BY ONLY <1>1 DEF OwnersOK
<1>5. Given = GivenBy(raw, orphans)
  BY DEF Given, GivenBy
<1>6. Owners(k.fd, raw, Given)
  BY ONLY <1>3, <1>4, <1>5, GivenOwners
<1> QED BY ONLY <1>1, <1>2, <1>3, <1>4, <1>5, <1>6

\* The state b, with what was given in it, is the next one.
Leads(b, rw, fr, lost, L) ==
  /\ Becomes(b) /\ raw' = rw /\ fresh' = fr /\ orphans' = lost /\ leaked' = L

\* A call that keeps what the invariant says of the kernel and of the owners.
LEMMA Stepped ==
  ASSUME NEW b, NEW rw, NEW fr, NEW lost, NEW L, Leads(b, rw, fr, lost, L),
         KInv(b, RefsOf(b.fd, GivenBy(rw, lost)), fr, L, Crowd(b)), OwnersOK(b, rw, fr, lost)
  PROVE  PipeInv'
<1>1. /\ k' = b /\ crowded' = Crowd(b) /\ raw' = rw /\ fresh' = fr /\ orphans' = lost
      /\ leaked' = L
  BY DEF Leads, Becomes
<1>2. Given' = GivenBy(raw', orphans')
  BY DEF Given, GivenBy
<1>3. KInv(k', RefsOf(k'.fd, Given'), fresh', leaked', crowded')
  BY ONLY <1>1, <1>2, KInv(b, RefsOf(b.fd, GivenBy(rw, lost)), fr, L, Crowd(b))
<1>4. OwnersOK(k', raw', fresh', orphans')
  BY ONLY <1>1, OwnersOK(b, rw, fr, lost)
<1> QED BY ONLY <1>3, <1>4 DEF PipeInv

\* Processes that have not started are asleep until they are started or killed.
LEMMA FreshKept ==
  ASSUME NEW a, NEW b, NEW fr, NEW S, FreshOK(a, fr), SleepOK(a, fr), StatesKept(a, b, S),
         NEW F, F \subseteq Procs, \A x \in F : (x \in fr /\ x \notin S) \/ b.state[x] = "BLOCKED"
  PROVE  FreshOK(b, F)
<1>1. ASSUME NEW x \in F PROVE b.state[x] = "BLOCKED"
  <2>1. CASE b.state[x] = "BLOCKED"
    BY <2>1
  <2>2. CASE x \in fr /\ x \notin S
    <3>1. x \in Procs \ S /\ a.state[x] = "BLOCKED"
      BY <2>2 DEF FreshOK
    <3>2. \A i \in Pipes : ~Waits(a.pipe_table[i], x)
      BY <2>2, <3>1 DEF SleepOK
    <3> QED BY <3>1, <3>2 DEF StatesKept
  <2> QED BY <2>1, <2>2
<1> QED BY <1>1 DEF FreshOK

\* A step in which nobody is redirected.
LEMMA FreeKept ==
  ASSUME NEW a, NEW b, FreeOK(a), NEW p, StatesKept(a, b, {p}), b.fd = a.fd,
         p \in Procs => (b.state[p] = "FREE" <=> a.state[p] = "FREE")
  PROVE  FreeOK(b)
BY DEF FreeOK, StatesKept

\* Where nobody goes to sleep, and the types of descriptors are kept.
LEMMA ShrinkStates ==
  ASSUME NEW a, NEW b, Shrinks(a, b), NEW S
  PROVE  StatesKept(a, b, S) /\ NoNewSleeper(a, b) /\ b.fd = a.fd
BY DEF Shrinks, StatesKept, NoNewSleeper

\* A step that gives a process its standard input and output, or takes them away.
LEMMA FreeStdio ==
  ASSUME NEW a, FreeOK(a), NEW p \in Procs, NEW b, Stdio(a.fd, p, b.state[p], b.fd),
         StatesKept(a, b, {p})
  PROVE  FreeOK(b)
BY DEF FreeOK, Stdio, StatesKept

\* The tables before the first process.
LEMMA KernelStart ==
  /\ KInv(Kernel0, RefsOf(Kernel0.fd, {}), {}, {}, {})
  /\ \A p \in Procs : Kernel0.state[p] = "FREE" /\ Kernel0.fd[p] = [s \in 0 .. 1 |-> NoFD]
  /\ \A i \in Pipes, p \in Procs : ~Waits(Kernel0.pipe_table[i], p)
<1> DEFINE a == Kernel0
           N == RefsOf(a.fd, {})
<1>1. /\ a.state = [p \in Procs |-> "FREE"] /\ a.fd = [p \in Procs |-> [s \in 0 .. 1 |-> NoFD]]
      /\ a.fd_table = fd_init /\ a.pipe_table = [i \in Pipes |-> FreePipe]
  BY DEF Kernel0
<1>2. fd_init \in [FDs -> FDRecord]
  BY DEF fd_init, FDRecord, NULL
<1>3. a \in PipeKernel
  <2>1. a.fd \in [Procs -> [0 .. 1 -> FDs \cup {NoFD}]]
    BY <1>1
  <2>2. a.pipe_table \in [Pipes -> PipeRecord]
    BY <1>1, FreePipeOK
  <2> QED BY <1>1, <1>2, <2>1, <2>2 DEF PipeKernel, Kernel0
<1>4. \A i \in Pipes : a.pipe_table[i] = FreePipe
  BY <1>1
<1>5. \A i \in Pipes, p \in Procs : /\ ~Reads(a.pipe_table[i], p) /\ ~Writes(a.pipe_table[i], p)
                                    /\ ~Waits(a.pipe_table[i], p)
  BY <1>4, FreePipeOK DEF Waits
<1>6. \A T \in SUBSET FDs : N[T] = 0
  <2> SUFFICES ASSUME NEW T \in SUBSET FDs PROVE N[T] = 0
    OBVIOUS
  <2>1. Entries(a.fd, T) = {} /\ {} \cap T = {}
    <3>1. NoFD \notin T
      BY FDAssumption DEF NoFD, FDs
    <3>2. \A u \in Procs \X (0 .. 1) : a.fd[u[1]][u[2]] = NoFD
      BY <1>1
    <3> QED BY ONLY <3>1, <3>2 DEF Entries
  <2>2. N[T] = Cardinality(Entries(a.fd, T)) + Cardinality({} \cap T)
    BY RefsValue, ZenonT(60)
  <2>3. Cardinality({}) = 0
    BY FS_EmptySet
  <2> QED BY ONLY <2>1, <2>2, <2>3
<1>7. Measure(N)
  BY RefsMeasure
<1> HIDE DEF N
<1>8. ASSUME NEW i \in Pipes
      PROVE  Local(a.pipe_table[i]) /\ Calm(a.pipe_table[i]) /\ UseOK(a.pipe_table[i], i \in {})
  BY <1>4, FreePipeOK DEF UseOK
<1>9. SleepOK(a, {})
  BY <1>1, <1>5 DEF SleepOK
<1>10. TablesOK(a, N)
  <2>1. ASSUME NEW f \in FDs PROVE DescriptorOK(f, a.fd_table[f], N[{f}])
    <3>1. N[{f}] = 0
      BY <1>6
    <3>2. a.fd_table[f] = [type |-> IF f \in {FD_STDIN, FD_STDOUT} THEN "TERMINAL" ELSE "NONE",
                           refcount |-> 0, data |-> NULL]
      BY <1>1 DEF fd_init
    <3> QED BY <3>1, <3>2 DEF DescriptorOK, FD_STDIN, FD_STDOUT
  <2>2. \A i, t : Ends(a, i, t) \in SUBSET FDs
    BY DEF Ends
  <2>3. \A i, t : N[Ends(a, i, t)] = 0
    BY <1>6, <2>2
  <2> QED BY <1>4, <2>1, <2>3, FreePipeOK DEF TablesOK
<1>11. HeldOK(a, N)
  BY <1>5 DEF HeldOK
<1>12. KInv(a, N, {}, {}, {})
  BY ONLY <1>3, <1>7, <1>8, <1>9, <1>10, <1>11 DEF KInv
<1> QED BY <1>1, <1>5, <1>12 DEF N

\* The first process has the terminal, and nothing else.
LEMMA PipeStart ==
  Init => PipeInv
<1> SUFFICES ASSUME Init PROVE PipeInv
  OBVIOUS
<1> DEFINE G == {}
           E == {}
           F == {}
<1>1. PICK p \in Procs : k = create_fds(Kernel0, p, FALSE)
  BY DEF Init
<1>2. /\ raw = [x \in Procs |-> {}] /\ fresh = {} /\ orphans = {} /\ leaked = {} /\ crowded = {}
      /\ Given = G
  BY DEF Init, Given
<1>3. /\ KInv(Kernel0, RefsOf(Kernel0.fd, G), E, E, E)
      /\ \A x \in Procs : Kernel0.state[x] = "FREE" /\ Kernel0.fd[x] = [s \in 0 .. 1 |-> NoFD]
      /\ \A i \in Pipes, x \in Procs : ~Waits(Kernel0.pipe_table[i], x)
  BY KernelStart
<1>4. Owners(Kernel0.fd, raw, G) /\ WaitersOwn(Kernel0, Kernel0.fd, raw)
  <2>1. Kernel0.fd \in FDTables
    BY DEF Kernel0, FDTables
  <2> QED BY <1>2, <1>3, <2>1 DEF Owners, WaitersOwn, Waits
<1>5. EmptySlot(Kernel0, p)
  BY <1>3 DEF EmptySlot
<1>6. SameBut(F, E, p)
  BY DEF SameBut
<1> DEFINE st == "READY"
<1>7. Enters(p, st, F) /\ Creates(Kernel0, p, st, k)
  BY <1>1 DEF Creates, Enters
<1> HIDE DEF G, E, F, st
<1>8. /\ KInv(k, RefsOf(k.fd, G), F, E, E) /\ WaitersOwn(k, k.fd, raw)
      /\ Stdio(Kernel0.fd, p, st, k.fd)
      /\ StatesKept(Kernel0, k, {p}) /\ k.state[p] = st
  <2>1. KInv(Kernel0, RefsOf(Kernel0.fd, G), E, E, E)
    BY <1>3
  <2>2. After(Kernel0, k, raw, G, F, E, E, p, st)
    BY ONLY <1>4, <1>5, <1>6, <1>7, <2>1, p \in Procs, NewProcess
  <2> QED BY <2>2 DEF After
<1>9. FreeOK(k)
  <2>1. FreeOK(Kernel0)
    BY <1>3 DEF FreeOK
  <2> QED BY <1>8, <2>1, FreeStdio
<1>10. OwnersOK(k, raw, fresh, orphans)
  BY <1>2, <1>8, <1>9 DEF OwnersOK, Apart, FreshOK
<1>11. KInv(k, RefsOf(k.fd, Given), fresh, leaked, crowded)
  BY <1>2, <1>8 DEF E, F
<1> QED BY <1>10, <1>11 DEF PipeInv

\* sys_close: what p was given it closes once.
LEMMA CloseStep ==
  ASSUME PipeInv, NEW p \in Procs, Close(p)
  PROVE  PipeInv'
<1> DEFINE N == RefsOf(k.fd, Given)
<1>0. PICK f \in raw[p] : /\ Running(p) /\ Becomes(sys_close(k, f))
                          /\ raw' = [raw EXCEPT ![p] = @ \ {f}] /\ UNCHANGED <<fresh, orphans, leaked>>
  BY DEF Close
<1> DEFINE b == sys_close(k, f)
           rw == [raw EXCEPT ![p] = @ \ {f}]
           H == GivenBy(rw, orphans)
<1>1. /\ k \in PipeKernel /\ k.fd \in FDTables
      /\ raw \in [Procs -> SUBSET FDs] /\ orphans \in SUBSET FDs /\ Apart(raw, orphans)
      /\ FreshOK(k, fresh) /\ FreeOK(k) /\ WaitersOwn(k, k.fd, raw)
      /\ KInv(k, N, fresh, leaked, crowded)
      /\ Owners(k.fd, raw, Given) /\ Given = GivenBy(raw, orphans) /\ SleepOK(k, fresh)
  BY InvFacts
<1>2. f \in FDs /\ rw \in [Procs -> SUBSET FDs]
  BY <1>0, <1>1
<1>3. \A x \in Procs : rw[x] = IF x = p THEN raw[p] \ {f} ELSE raw[x]
  BY <1>1
<1>4. Apart(rw, orphans)
  BY <1>1, <1>3 DEF Apart
<1>5. H \in SUBSET FDs /\ f \notin H /\ Given = H \cup {f}
  <2>1. \A x \in Procs : f \notin rw[x]
    BY <1>1, <1>3 DEF Apart
  <2>2. f \notin orphans
    BY <1>1 DEF Apart
  <2>3. f \notin H
    BY <2>1, <2>2 DEF GivenBy
  <2>4. H \in SUBSET FDs
    BY <1>1, <1>2 DEF GivenBy
  <2>5. ASSUME NEW g PROVE g \in GivenBy(raw, orphans) <=> g \in H \cup {f}
    <3>1. g \in GivenBy(raw, orphans) <=> (\E x \in Procs : g \in raw[x]) \/ g \in orphans
      BY DEF GivenBy
    <3>2. g \in H <=> (\E x \in Procs : g \in rw[x]) \/ g \in orphans
      BY DEF GivenBy
    <3>3. (\E x \in Procs : g \in raw[x]) <=> (\E x \in Procs : g \in rw[x]) \/ g = f
      BY <1>3
    <3> QED BY ONLY <3>1, <3>2, <3>3
  <2> QED BY <1>1, <2>3, <2>4, <2>5
<1> HIDE DEF rw, H
<1>6. OneMore(RefsOf(k.fd, H), f, RefsOf(k.fd, Given))
  BY ONLY <1>1, <1>2, <1>5, RefsGiven
<1>7. Owners(k.fd, rw, H)
  BY ONLY <1>1, <1>2, GivenOwners DEF H
<1>8. \A i \in Pipes, x \in Procs : Waits(k.pipe_table[i], x) => x \in Procs \ {p}
  BY <1>0, <1>1 DEF SleepOK, Running
<1>9. OwnAll(k.fd, raw, k.fd, rw, Procs \ {p})
  BY <1>3 DEF OwnAll, Owns
<1>10. WaitersOwn(k, k.fd, rw)
  <2>1. k.pipe_table = k.pipe_table /\ k.fd_table = k.fd_table
    OBVIOUS
  <2> QED BY ONLY <1>1, <1>8, <1>9, <2>1, OwnersOfWaiters
<1>11. b = fd_decref(k, f)
  BY DEF sys_close
<1> HIDE DEF b
<1>12. KInv(b, RefsOf(k.fd, H), fresh, leaked, crowded) /\ WaitersOwn(b, k.fd, rw) /\ Shrinks(k, b)
  BY ONLY <1>1, <1>2, <1>6, <1>7, <1>10, <1>11, Drop DEF N
<1>13. StatesKept(k, b, {p}) /\ StatesKept(k, b, {}) /\ b.fd = k.fd
  BY <1>12, ShrinkStates
<1>14. FreeOK(b) /\ FreshOK(b, fresh)
  <2>1. b.state[p] = "FREE" <=> k.state[p] = "FREE"
    BY <1>12 DEF Shrinks
  <2>2. FreeOK(b)
    BY ONLY <1>1, <1>13, <2>1, FreeKept
  <2>3. FreshOK(b, fresh)
    BY <1>1, <1>13, FreshKept DEF FreshOK
  <2> QED BY <2>2, <2>3
<1>15. OwnersOK(b, rw, fresh, orphans)
  BY ONLY <1>1, <1>2, <1>4, <1>12, <1>13, <1>14 DEF OwnersOK
<1>16. KInv(b, RefsOf(b.fd, GivenBy(rw, orphans)), fresh, leaked, Crowd(b))
  BY <1>12, <1>13, KCrowd DEF H
<1>17. Leads(b, rw, fresh, orphans, leaked)
  BY <1>0 DEF Leads, b, rw
<1> QED BY ONLY <1>15, <1>16, <1>17, Stepped

\* A redirected entry is not empty.
LEMMA FreeRedirected ==
  ASSUME NEW a, FreeOK(a), a.fd \in FDTables, NEW p \in Procs, a.state[p] # "FREE",
         NEW s \in 0 .. 1, NEW f \in FDs,
         NEW b, Fills(a.fd, p, s, f, b.fd), StatesKept(a, b, {})
  PROVE  FreeOK(b)
<1>1. f # NoFD
  BY FDAssumption DEF FDs, NoFD
<1> DEFINE fd == a.fd
           e == b.fd
<1>2. fd \in FDTables /\ Fills(fd, p, s, f, e) /\ f \in FDs \cup {NoFD}
  OBVIOUS
<1>3. e[p][s] = f /\ EntriesKept(fd, p, s, e)
  <2> HIDE DEF fd, e
  <2> QED BY ONLY <1>2, p \in Procs, s \in 0 .. 1, Filled
<1>4. ASSUME NEW x \in Procs, NEW t \in 0 .. 1 PROVE b.state[x] = "FREE" <=> b.fd[x][t] = NoFD
  <2>1. b.state[x] = "FREE" <=> a.state[x] = "FREE"
    BY DEF StatesKept
  <2>2. a.state[x] = "FREE" <=> a.fd[x][t] = NoFD
    BY DEF FreeOK
  <2>3. CASE x = p /\ t = s
    BY <1>1, <1>3, <2>1, <2>3
  <2>4. CASE x # p \/ t # s
    <3>1. b.fd[x][t] = a.fd[x][t]
      BY <1>3, <2>4 DEF EntriesKept
    <3> QED BY <2>1, <2>2, <3>1
  <2> QED BY <2>3, <2>4
<1> QED BY <1>4 DEF FreeOK

\* Standard input or output of a process becomes f, by sys_dup2 of its own or by
\* sys_pipe_setup before it starts.
LEMMA RedirectStep ==
  ASSUME PipeInv, NEW p \in Procs, k.state[p] # "FREE", \A i \in Pipes : ~Waits(k.pipe_table[i], p),
         NEW s \in 0 .. 1, NEW f \in FDs, f \in {0, 1} \/ f \in Given,
         NEW b, Redirects(k, p, s, f, b), Becomes(b), UNCHANGED <<raw, fresh, orphans, leaked>>
  PROVE  PipeInv'
<1>1. /\ k \in PipeKernel /\ k.fd \in FDTables
      /\ raw \in [Procs -> SUBSET FDs] /\ orphans \in SUBSET FDs /\ Apart(raw, orphans)
      /\ FreshOK(k, fresh) /\ FreeOK(k) /\ WaitersOwn(k, k.fd, raw)
      /\ KInv(k, RefsOf(k.fd, Given), fresh, leaked, crowded)
      /\ Owners(k.fd, raw, Given) /\ Given = GivenBy(raw, orphans) /\ SleepOK(k, fresh)
  BY InvFacts
<1>2. k.fd[p][s] \in FDs
  BY <1>1 DEF FreeOK, FDTables
<1>3. /\ KInv(b, RefsOf(b.fd, Given), fresh, leaked, crowded) /\ WaitersOwn(b, b.fd, raw)
      /\ Fills(k.fd, p, s, f, b.fd) /\ StatesKept(k, b, {})
  <2>1. /\ p \in Procs /\ s \in 0 .. 1 /\ \A i \in Pipes : ~Waits(k.pipe_table[i], p)
        /\ f \in FDs /\ (f \in {0, 1} \/ f \in Given)
        /\ Redirects(k, p, s, f, b)
    OBVIOUS
  <2> QED BY ONLY <1>1, <1>2, <2>1, Redirect
<1>4. FreeOK(b)
  BY ONLY <1>1, <1>3, p \in Procs, k.state[p] # "FREE", s \in 0 .. 1, f \in FDs, FreeRedirected
<1>5. FreshOK(b, fresh)
  BY <1>1, <1>3, FreshKept DEF FreshOK
<1>6. OwnersOK(b, raw, fresh, orphans)
  BY ONLY <1>1, <1>3, <1>4, <1>5 DEF OwnersOK
<1>7. KInv(b, RefsOf(b.fd, GivenBy(raw, orphans)), fresh, leaked, Crowd(b))
  BY <1>1, <1>3, KCrowd
<1>8. Leads(b, raw, fresh, orphans, leaked)
  BY DEF Leads
<1> QED BY ONLY <1>6, <1>7, <1>8, Stepped

\* A step that changes nothing, and looks for crowds.
LEMMA NothingStep ==
  ASSUME PipeInv, Becomes(k), UNCHANGED <<raw, fresh, orphans, leaked>>
  PROVE  PipeInv'
<1>1. /\ KInv(k, RefsOf(k.fd, Given), fresh, leaked, crowded) /\ OwnersOK(k, raw, fresh, orphans)
      /\ Given = GivenBy(raw, orphans)
  BY InvFacts DEF PipeInv
<1>2. KInv(k, RefsOf(k.fd, GivenBy(raw, orphans)), fresh, leaked, Crowd(k))
  BY <1>1, KCrowd
<1>3. Leads(k, raw, fresh, orphans, leaked)
  BY DEF Leads
<1> QED BY ONLY <1>1, <1>2, <1>3, Stepped

\* sys_dup2: to a descriptor the process was given, or to the terminal.
LEMMA Dup2Step ==
  ASSUME PipeInv, NEW p \in Procs, Dup2(p)
  PROVE  PipeInv'
<1>a. PICK new \in 0 .. 1 : \E old \in Suited(raw[p], new) \cup {new} :
        /\ Running(p) /\ Becomes(sys_dup2(k, p, old, new))
        /\ UNCHANGED <<raw, fresh, orphans, leaked>>
  BY DEF Dup2
<1>0. PICK old \in Suited(raw[p], new) \cup {new} :
        /\ Running(p) /\ Becomes(sys_dup2(k, p, old, new))
        /\ UNCHANGED <<raw, fresh, orphans, leaked>>
  BY <1>a
<1>1. /\ k.fd \in FDTables /\ raw \in [Procs -> SUBSET FDs] /\ FreeOK(k) /\ SleepOK(k, fresh)
      /\ Given = GivenBy(raw, orphans)
  BY InvFacts
<1>2. k.state[p] # "FREE" /\ \A i \in Pipes : ~Waits(k.pipe_table[i], p)
  BY <1>0, <1>1 DEF Running, SleepOK
<1>3. k.fd[p][new] \in FDs /\ k.fd[p][new] >= 0
  BY <1>1, <1>2, FDAssumption DEF FreeOK, FDTables, FDs
<1>4. old \in FDs /\ (old \in {0, 1} \/ old \in Given)
  <2>1. CASE old \in Suited(raw[p], new)
    BY <1>1, <2>1 DEF Suited, GivenBy
  <2>2. CASE old = new
    BY <2>2, FDAssumption DEF FDs
  <2> QED BY <1>0, <2>1, <2>2
<1>5. CASE ~fd_valid(k, old) \/ k.fd[p][new] = old
  <2>1. sys_dup2(k, p, old, new) = k
    BY <1>5 DEF sys_dup2
  <2>2. Becomes(k)
    BY <1>0, <2>1
  <2> QED BY <1>0, <2>2, NothingStep
<1>6. CASE ~(~fd_valid(k, old) \/ k.fd[p][new] = old)
  <2> DEFINE b == sys_dup2(k, p, old, new)
  <2>1. Redirects(k, p, new, old, b)
    BY <1>3, <1>6 DEF sys_dup2, Redirects
  <2>2. Becomes(b) /\ UNCHANGED <<raw, fresh, orphans, leaked>>
    BY <1>0
  <2> HIDE DEF b
  <2> QED BY ONLY <1>2, <1>4, <2>1, <2>2, PipeInv, p \in Procs, new \in 0 .. 1, RedirectStep
<1> QED BY <1>5, <1>6

\* sys_pipe_setup: for a child that has not started.
LEMMA PipeSetupStep ==
  ASSUME PipeInv, NEW p \in Procs, PipeSetup(p)
  PROVE  PipeInv'
<1>a. PICK child \in fresh, target \in 0 .. 1 : \E f \in Suited(raw[p], target) :
        /\ Becomes(process_pipe_setup(k, child, f, target))
        /\ UNCHANGED <<raw, fresh, orphans, leaked>>
  BY DEF PipeSetup
<1>0. PICK f \in Suited(raw[p], target) :
        /\ Becomes(process_pipe_setup(k, child, f, target))
        /\ UNCHANGED <<raw, fresh, orphans, leaked>>
  BY <1>a
<1>1. /\ k.fd \in FDTables /\ raw \in [Procs -> SUBSET FDs] /\ FreeOK(k) /\ SleepOK(k, fresh)
      /\ FreshOK(k, fresh) /\ Given = GivenBy(raw, orphans)
  BY InvFacts
<1>2. /\ child \in Procs /\ k.state[child] # "FREE"
      /\ \A i \in Pipes : ~Waits(k.pipe_table[i], child)
  BY <1>0, <1>1 DEF FreshOK, SleepOK
<1>3. k.fd[child][target] \in FDs /\ k.fd[child][target] >= 0
  BY <1>1, <1>2, FDAssumption DEF FreeOK, FDTables, FDs
<1>4. f \in FDs /\ (f \in {0, 1} \/ f \in Given)
  BY <1>0, <1>1 DEF Suited, GivenBy
<1> DEFINE b == process_pipe_setup(k, child, f, target)
<1>5. Redirects(k, child, target, f, b)
  BY <1>2, <1>3 DEF process_pipe_setup, Redirects
<1>6. Becomes(b) /\ UNCHANGED <<raw, fresh, orphans, leaked>>
  BY <1>0
<1> HIDE DEF b
<1> QED BY ONLY <1>2, <1>4, <1>5, <1>6, PipeInv, target \in 0 .. 1, RedirectStep

\* process_create, asleep.
LEMMA CreateStep ==
  ASSUME PipeInv, NEW p \in Procs, Create(p)
  PROVE  PipeInv'
<1>0. PICK q \in Procs : /\ k.state[q] = "FREE" /\ Becomes(create_fds(k, q, TRUE))
                         /\ fresh' = fresh \cup {q} /\ UNCHANGED <<raw, orphans, leaked>>
  BY DEF Create
<1> DEFINE b == create_fds(k, q, TRUE)
           F == fresh \cup {q}
           st == "BLOCKED"
<1>1. /\ k \in PipeKernel /\ k.fd \in FDTables
      /\ raw \in [Procs -> SUBSET FDs] /\ orphans \in SUBSET FDs /\ Apart(raw, orphans)
      /\ FreshOK(k, fresh) /\ FreeOK(k) /\ WaitersOwn(k, k.fd, raw)
      /\ KInv(k, RefsOf(k.fd, Given), fresh, leaked, crowded)
      /\ Owners(k.fd, raw, Given) /\ Given = GivenBy(raw, orphans) /\ SleepOK(k, fresh)
  BY InvFacts
<1>2. EmptySlot(k, q)
  BY <1>0, <1>1 DEF EmptySlot, FreeOK
<1>3. SameBut(F, fresh, q) /\ Enters(q, st, F)
  BY DEF SameBut, Enters
<1>4. Creates(k, q, st, b)
  BY DEF Creates
<1>5. Leads(b, raw, F, orphans, leaked)
  BY <1>0 DEF Leads
<1>6. F \subseteq Procs /\ \A x \in F : (x \in fresh /\ x \notin {q}) \/ x = q
  BY <1>1 DEF FreshOK
<1>7. st = "BLOCKED"
  OBVIOUS
<1> HIDE DEF b, F, st
<1>8. /\ KInv(b, RefsOf(b.fd, Given), F, leaked, crowded) /\ WaitersOwn(b, b.fd, raw)
      /\ Stdio(k.fd, q, st, b.fd) /\ StatesKept(k, b, {q}) /\ b.state[q] = st
  <2>1. /\ KInv(k, RefsOf(k.fd, Given), fresh, leaked, crowded)
        /\ WaitersOwn(k, k.fd, raw) /\ Owners(k.fd, raw, Given)
    BY <1>1
  <2>2. After(k, b, raw, Given, F, leaked, crowded, q, st)
    BY ONLY <1>2, <1>3, <1>4, <2>1, q \in Procs, NewProcess
  <2> QED BY <2>2 DEF After
<1>9. FreeOK(b)
  BY <1>1, <1>8, FreeStdio
<1>10. FreshOK(b, F)
  <2>1. \A x \in F : (x \in fresh /\ x \notin {q}) \/ b.state[x] = "BLOCKED"
    BY <1>6, <1>7, <1>8
  <2> QED BY ONLY <1>1, <1>6, <1>8, <2>1, FreshKept
<1>11. OwnersOK(b, raw, F, orphans)
  BY ONLY <1>1, <1>8, <1>9, <1>10 DEF OwnersOK
<1>12. KInv(b, RefsOf(b.fd, GivenBy(raw, orphans)), F, leaked, Crowd(b))
  BY <1>1, <1>8, KCrowd
<1> QED BY ONLY <1>5, <1>11, <1>12, Stepped

\* sys_unblock: the child starts.
LEMMA StartStep ==
  ASSUME PipeInv, NEW p \in Procs, Start(p)
  PROVE  PipeInv'
<1>0. PICK q \in fresh : /\ Becomes(process_unblock(k, q))
                         /\ fresh' = fresh \ {q} /\ UNCHANGED <<raw, orphans, leaked>>
  BY DEF Start
<1> DEFINE b == process_unblock(k, q)
           F == fresh \ {q}
           st == "READY"
<1>1. /\ k \in PipeKernel /\ k.fd \in FDTables
      /\ raw \in [Procs -> SUBSET FDs] /\ orphans \in SUBSET FDs /\ Apart(raw, orphans)
      /\ FreshOK(k, fresh) /\ FreeOK(k) /\ WaitersOwn(k, k.fd, raw)
      /\ KInv(k, RefsOf(k.fd, Given), fresh, leaked, crowded)
      /\ Owners(k.fd, raw, Given) /\ Given = GivenBy(raw, orphans) /\ SleepOK(k, fresh)
  BY InvFacts
<1>2. q \in Procs /\ k.state[q] = "BLOCKED" /\ \A i \in Pipes : ~Waits(k.pipe_table[i], q)
  BY <1>1 DEF FreshOK, SleepOK
<1>3. Sets(k, q, st, b)
  BY <1>2 DEF process_unblock, Sets, StateIn
<1>4. Leads(b, raw, F, orphans, leaked)
  BY <1>0 DEF Leads
<1>5. /\ \A x \in Procs \ {q} : x \in F <=> x \in fresh
      /\ st \in {"FREE", "READY", "BLOCKED"} /\ (st = "BLOCKED" => q \in F) /\ st # "FREE"
      /\ F \subseteq Procs /\ \A x \in F : x \in fresh /\ x \notin {q}
  BY <1>1 DEF FreshOK
<1> HIDE DEF b, F, st
<1>6. KInv(b, RefsOf(k.fd, Given), F, leaked, crowded) /\ StateSet(k, q, st, b)
  <2>1. KInv(k, RefsOf(k.fd, Given), fresh, leaked, crowded)
    BY <1>1
  <2> QED BY ONLY <1>2, <1>3, <1>5, <2>1, SetState
<1>7. StatesKept(k, b, {q}) /\ b.state[q] # "FREE" /\ b.fd = k.fd
  BY <1>5, <1>6 DEF StatesKept, StateSet
<1>8. FreeOK(b)
  BY <1>1, <1>2, <1>7, FreeKept
<1>9. FreshOK(b, F)
  BY ONLY <1>1, <1>5, <1>7, FreshKept
<1>10. WaitersOwn(b, b.fd, raw)
  BY <1>1, <1>6 DEF WaitersOwn, StateSet, Ends
<1>11. OwnersOK(b, raw, F, orphans)
  BY ONLY <1>1, <1>8, <1>9, <1>10 DEF OwnersOK
<1>12. KInv(b, RefsOf(b.fd, GivenBy(raw, orphans)), F, leaked, Crowd(b))
  BY <1>1, <1>6, <1>7, KCrowd
<1> QED BY ONLY <1>4, <1>11, <1>12, Stepped

\* process_exit and process_kill: what the process was given and did not close stays.
LEMMA EndStep ==
  ASSUME PipeInv, NEW p \in Procs, End(p)
  PROVE  PipeInv'
<1> DEFINE b == process_ends(k, p)
           F == fresh \ {p}
           rw == [raw EXCEPT ![p] = {}]
           lost == orphans \cup raw[p]
<1>1. /\ k \in PipeKernel /\ k.fd \in FDTables
      /\ raw \in [Procs -> SUBSET FDs] /\ orphans \in SUBSET FDs /\ Apart(raw, orphans)
      /\ FreshOK(k, fresh) /\ FreeOK(k) /\ WaitersOwn(k, k.fd, raw)
      /\ KInv(k, RefsOf(k.fd, Given), fresh, leaked, crowded)
      /\ Owners(k.fd, raw, Given) /\ Given = GivenBy(raw, orphans) /\ SleepOK(k, fresh)
  BY InvFacts
<1>2. Leads(b, rw, F, lost, leaked)
  BY DEF End, Leads
<1>3. FullSlot(k, p)
  BY <1>1 DEF FullSlot, FreeOK, FDTables, End
<1>4. SameBut(F, fresh, p) /\ F \subseteq Procs /\ \A x \in F : x \in fresh /\ x \notin {p}
  BY <1>1 DEF SameBut, FreshOK
<1>5. rw \in [Procs -> SUBSET FDs] /\ lost \in SUBSET FDs /\ lost \subseteq FDs
  BY <1>1
<1>6. \A x \in Procs : rw[x] = IF x = p THEN {} ELSE raw[x]
  BY <1>1
<1>7. OthersKeep(raw, rw, p)
  BY <1>6 DEF OthersKeep
<1>8. Apart(rw, lost)
  BY <1>1, <1>6 DEF Apart
<1>9. GivenBy(rw, lost) = Given
  <2>1. ASSUME NEW g PROVE g \in GivenBy(rw, lost) <=> g \in GivenBy(raw, orphans)
    <3>1. g \in GivenBy(raw, orphans) <=> (\E x \in Procs : g \in raw[x]) \/ g \in orphans
      BY DEF GivenBy
    <3>2. g \in GivenBy(rw, lost) <=> (\E x \in Procs : g \in rw[x]) \/ g \in lost
      BY DEF GivenBy
    <3>3. (\E x \in Procs : g \in raw[x]) <=> (\E x \in Procs : g \in rw[x]) \/ g \in raw[p]
      BY <1>6
    <3> QED BY <3>1, <3>2, <3>3
  <2> QED BY <1>1, <2>1
<1>10. b = process_ends(k, p)
  OBVIOUS
<1> HIDE DEF b, F, rw, lost
<1>11. Owners(k.fd, rw, Given)
  BY ONLY <1>1, <1>5, <1>9, GivenOwners
<1>12. /\ KInv(b, RefsOf(b.fd, Given), F, leaked, crowded) /\ WaitersOwn(b, b.fd, rw)
       /\ Stdio(k.fd, p, b.state[p], b.fd) /\ StatesKept(k, b, {p}) /\ b.state[p] = "FREE"
  <2>1. /\ KInv(k, RefsOf(k.fd, Given), fresh, leaked, crowded)
        /\ WaitersOwn(k, k.fd, raw) /\ Owners(k.fd, raw, Given)
    BY <1>1
  <2>2. SameBut(F, fresh, p)
    BY <1>4
  <2>3. After(k, b, rw, Given, F, leaked, crowded, p, "FREE")
    BY ONLY <1>3, <1>7, <1>10, <1>11, <2>1, <2>2, p \in Procs, ProcessEnds
  <2> QED BY <2>3 DEF After
<1>13. FreeOK(b)
  BY <1>1, <1>12, FreeStdio
<1>14. FreshOK(b, F)
  BY ONLY <1>1, <1>4, <1>12, FreshKept
<1>15. OwnersOK(b, rw, F, lost)
  BY ONLY <1>5, <1>8, <1>12, <1>13, <1>14 DEF OwnersOK
<1>16. KInv(b, RefsOf(b.fd, GivenBy(rw, lost)), F, leaked, Crowd(b))
  BY <1>9, <1>12, KCrowd
<1> QED BY ONLY <1>2, <1>15, <1>16, Stepped

\* sys_read and sys_write on a pipe: a caller that goes to sleep owns the end it waits
\* for, so that the pipe stays.
LEMMA CallStep ==
  ASSUME PipeInv, NEW p \in Procs, Running(p), NEW n \in Nat, NEW f \in FDs,
         Owns(k.fd, raw, p, f), NEW i, k.fd_table[f].data = i, NEW t, k.fd_table[f].type = t,
         NEW b, Calls(k, i, p, n, t, b), Becomes(b), UNCHANGED <<raw, fresh, orphans, leaked>>
  PROVE  PipeInv'
<1> DEFINE N == RefsOf(k.fd, Given)
<1>1. /\ k \in PipeKernel /\ k.fd \in FDTables
      /\ raw \in [Procs -> SUBSET FDs] /\ orphans \in SUBSET FDs /\ Apart(raw, orphans)
      /\ FreshOK(k, fresh) /\ FreeOK(k) /\ WaitersOwn(k, k.fd, raw)
      /\ KInv(k, N, fresh, leaked, crowded)
      /\ Owners(k.fd, raw, Given) /\ Given = GivenBy(raw, orphans) /\ SleepOK(k, fresh)
  BY InvFacts
<1>2. p \notin fresh /\ k.state[p] = "READY"
  BY <1>1 DEF FreshOK, Running
<1>3. N[{f}] > 0
  <2>1. f \in Given \/ \E x \in Procs, s \in 0 .. 1 : k.fd[x][s] = f
    BY <1>1 DEF Owns, Owners
  <2>2. Given \in SUBSET FDs
    BY <1>1 DEF Owners
  <2> QED BY <1>1, <2>1, <2>2, Owned
<1> HIDE DEF N
<1>4. CallLeaves(k, N, fresh, leaked, b, i, p, t)
  <2>1. /\ KInv(k, N, fresh, leaked, crowded) /\ k.fd_table[f].data = i /\ k.fd_table[f].type = t
        /\ Calls(k, i, p, n, t, b)
    BY <1>1
  <2> QED BY ONLY <1>2, <1>3, <2>1, p \in Procs, n \in Nat, f \in FDs, PipeCall
<1>5. /\ KInv(b, N, fresh, leaked, Crowd(b)) /\ b.fd = k.fd /\ b.fd_table = k.fd_table
      /\ StatesKept(k, b, {p}) /\ b.state[p] # "FREE" /\ OnlyNew(k, b, i, p, t)
  BY <1>4 DEF CallLeaves
<1>6. FreeOK(b)
  BY <1>1, <1>2, <1>5, FreeKept
<1>7. FreshOK(b, fresh)
  <2>1. fresh \subseteq Procs /\ \A x \in fresh : x \in fresh /\ x \notin {p}
    BY <1>1, <1>2 DEF FreshOK
  <2> QED BY ONLY <1>1, <1>5, <2>1, FreshKept
<1>8. WaitersOwn(b, b.fd, raw)
  <2>1. \A j, u : Ends(b, j, u) = Ends(k, j, u)
    BY <1>5 DEF Ends
  <2>2. f \in Ends(k, i, t)
    BY DEF Ends
  <2>3. ASSUME NEW j \in Pipes, NEW x \in Procs
        PROVE  /\ Reads(b.pipe_table[j], x) =>
                    \E g \in Ends(k, j, "PIPE_READ") : Owns(k.fd, raw, x, g)
               /\ Writes(b.pipe_table[j], x) =>
                    \E g \in Ends(k, j, "PIPE_WRITE") : Owns(k.fd, raw, x, g)
    <3>1. /\ Reads(b.pipe_table[j], x) =>
               Reads(k.pipe_table[j], x) \/ (j = i /\ x = p /\ t = "PIPE_READ")
          /\ Writes(b.pipe_table[j], x) =>
               Writes(k.pipe_table[j], x) \/ (j = i /\ x = p /\ t = "PIPE_WRITE")
      BY <1>5 DEF OnlyNew
    <3>2. /\ Reads(k.pipe_table[j], x) =>
               \E g \in Ends(k, j, "PIPE_READ") : Owns(k.fd, raw, x, g)
          /\ Writes(k.pipe_table[j], x) =>
               \E g \in Ends(k, j, "PIPE_WRITE") : Owns(k.fd, raw, x, g)
      BY <1>1 DEF WaitersOwn
    <3> QED BY <2>2, <3>1, <3>2
  <2> QED BY <1>5, <2>1, <2>3 DEF WaitersOwn
<1>9. OwnersOK(b, raw, fresh, orphans)
  BY ONLY <1>1, <1>6, <1>7, <1>8 DEF OwnersOK
<1>10. KInv(b, RefsOf(b.fd, GivenBy(raw, orphans)), fresh, leaked, Crowd(b))
  BY <1>1, <1>5 DEF N
<1>11. Leads(b, raw, fresh, orphans, leaked)
  BY DEF Leads
<1> QED BY ONLY <1>9, <1>10, <1>11, Stepped

\* The descriptor behind the number a process uses is its own.
LEMMA ActualOwn ==
  ASSUME PipeInv, NEW p \in Procs, Running(p), NEW n \in raw[p] \cup {0, 1}
  PROVE  Actual(p, n) \in FDs /\ Owns(k.fd, raw, p, Actual(p, n))
<1>1. k.fd \in FDTables /\ raw \in [Procs -> SUBSET FDs] /\ FreeOK(k)
  BY InvFacts
<1>2. \A s \in 0 .. 1 : k.fd[p][s] \in FDs
  BY <1>1 DEF FreeOK, FDTables, Running
<1>3. CASE n \in 0 .. 1
  <2>1. Actual(p, n) = k.fd[p][n]
    BY <1>3 DEF Actual
  <2>2. n = 0 \/ n = 1
    BY <1>3
  <2> QED BY <1>2, <1>3, <2>1, <2>2 DEF Owns
<1>4. CASE n \notin 0 .. 1
  <2>1. Actual(p, n) = n /\ n \in raw[p]
    BY <1>4 DEF Actual
  <2> QED BY <1>1, <2>1 DEF Owns
<1> QED BY <1>3, <1>4

\* sys_read.
LEMMA ReadStep ==
  ASSUME PipeInv, NEW p \in Procs, Read(p)
  PROVE  PipeInv'
<1>1. PICK n \in raw[p] \cup {0}, count \in Counts :
        /\ Running(p) /\ k.fd_table[Actual(p, n)].type = "PIPE_READ"
        /\ Becomes(pipe_read(k, k.fd_table[Actual(p, n)].data, p, count).k)
        /\ UNCHANGED <<raw, fresh, orphans, leaked>>
  BY DEF Read, FD_STDIN
<1> DEFINE f == Actual(p, n)
           i == k.fd_table[f].data
           t == k.fd_table[f].type
           b == pipe_read(k, i, p, count).k
<1>2. f \in FDs /\ Owns(k.fd, raw, p, f)
  BY <1>1, ActualOwn
<1>3. count \in Nat
  BY CountsAssumption
<1>4. k.fd_table[f].data = i /\ k.fd_table[f].type = t /\ t = "PIPE_READ"
  BY <1>1
<1>5. Calls(k, i, p, count, t, b)
  BY <1>4 DEF Calls
<1>6. Running(p) /\ Becomes(b) /\ UNCHANGED <<raw, fresh, orphans, leaked>>
  BY <1>1
<1> HIDE DEF f, i, t, b
<1> QED BY ONLY <1>2, <1>3, <1>4, <1>5, <1>6, PipeInv, p \in Procs, CallStep

\* sys_write.
LEMMA WriteStep ==
  ASSUME PipeInv, NEW p \in Procs, Write(p)
  PROVE  PipeInv'
<1>1. PICK n \in raw[p] \cup {1}, count \in Counts :
        /\ Running(p) /\ k.fd_table[Actual(p, n)].type = "PIPE_WRITE"
        /\ Becomes(pipe_write(k, k.fd_table[Actual(p, n)].data, p, count).k)
        /\ UNCHANGED <<raw, fresh, orphans, leaked>>
  BY DEF Write, FD_STDOUT
<1> DEFINE f == Actual(p, n)
           i == k.fd_table[f].data
           t == k.fd_table[f].type
           b == pipe_write(k, i, p, count).k
<1>2. f \in FDs /\ Owns(k.fd, raw, p, f)
  BY <1>1, ActualOwn
<1>3. count \in Nat
  BY CountsAssumption
<1>4. k.fd_table[f].data = i /\ k.fd_table[f].type = t /\ t = "PIPE_WRITE"
  BY <1>1
<1>5. Calls(k, i, p, count, t, b)
  BY <1>4 DEF Calls
<1>6. Running(p) /\ Becomes(b) /\ UNCHANGED <<raw, fresh, orphans, leaked>>
  BY <1>1
<1> HIDE DEF f, i, t, b
<1> QED BY ONLY <1>2, <1>3, <1>4, <1>5, <1>6, PipeInv, p \in Procs, CallStep

\* What sys_pipe gives is given to nobody else.
LEMMA OpenPipeStep ==
  ASSUME PipeInv, NEW p \in Procs, NEW name \in Names \cup {Anonymous}, OpenPipe(p, name)
  PROVE  PipeInv'
<1> DEFINE N == RefsOf(k.fd, Given)
           o == pipe_open(k, name)
           r == sys_pipe(k, name)
           b == r.k
           L == leaked \ {b.fd_table[r.fds[1]].data}
<1>0. /\ r.fds # <<>> /\ Becomes(b) /\ raw' = [raw EXCEPT ![p] = @ \cup ToSet(r.fds)]
      /\ leaked' = L /\ UNCHANGED <<fresh, orphans>>
  BY DEF OpenPipe
<1>1. /\ k \in PipeKernel /\ k.fd \in FDTables
      /\ raw \in [Procs -> SUBSET FDs] /\ orphans \in SUBSET FDs /\ Apart(raw, orphans)
      /\ FreshOK(k, fresh) /\ FreeOK(k) /\ WaitersOwn(k, k.fd, raw)
      /\ KInv(k, N, fresh, leaked, crowded)
      /\ Owners(k.fd, raw, Given) /\ Given = GivenBy(raw, orphans) /\ SleepOK(k, fresh)
  BY InvFacts
<1>2. Given \in SUBSET FDs /\ Measure(N)
  BY <1>1 DEF Owners, KInv
<1>3. o = pipe_open(k, name) /\ r = sys_pipe(k, name) /\ KInv(k, N, fresh, leaked, crowded)
  BY <1>1
<1> HIDE DEF N, o, r
<1>4. /\ Shrinks(k, r.k) /\ TypesKept(k, r.k, N)
      /\ \/ \E f, g : /\ Pair(N, r, f, g)
                      /\ KInv(r.k, Plus(Plus(N, f), g), fresh,
                              leaked \ {r.k.fd_table[f].data}, crowded)
         \/ FailLeaves(k, N, fresh, leaked, crowded, o, r)
  BY ONLY <1>3, name \in Names \cup {Anonymous}, SysPipe
<1>5. PICK f, g : /\ Pair(N, r, f, g)
                  /\ KInv(r.k, Plus(Plus(N, f), g), fresh, leaked \ {r.k.fd_table[f].data}, crowded)
  <2>1. ~FailLeaves(k, N, fresh, leaked, crowded, o, r)
    BY <1>0 DEF FailLeaves
  <2> QED BY <1>4, <2>1
<1>6. f \in FDs /\ g \in FDs /\ f # g /\ r.fds = <<f, g>> /\ N[{f}] = 0 /\ N[{g}] = 0
  BY <1>5 DEF Pair
<1>7. f \notin Given /\ g \notin Given
  <2>1. \A h \in FDs : h \in Given => N[{h}] > 0
    BY <1>1, <1>2, Owned DEF N
  <2> QED BY <1>6, <2>1
<1> DEFINE G1 == Given \cup {f}
           G2 == G1 \cup {g}
           rw == [raw EXCEPT ![p] = @ \cup {f, g}]
<1>8. ToSet(r.fds) = {f, g} /\ L = leaked \ {b.fd_table[f].data}
  BY <1>6 DEF ToSet
<1>9. OneMore(N, f, RefsOf(k.fd, G1)) /\ G1 \in SUBSET FDs
  BY <1>2, <1>6, <1>7, RefsGiven DEF N
<1>10. OneMore(RefsOf(k.fd, G1), g, RefsOf(k.fd, G2)) /\ G2 \in SUBSET FDs
  <2>1. g \notin G1 /\ G2 = G1 \cup {g} /\ G2 \in SUBSET FDs
    BY <1>2, <1>6, <1>7
  <2> HIDE DEF G1, G2
  <2> QED BY <1>6, <1>9, <2>1, RefsGiven
<1>11. RefsOf(k.fd, G2) = Plus(Plus(N, f), g)
  BY <1>9, <1>10 DEF OneMore
<1>12. \A x \in Procs : rw[x] = IF x = p THEN raw[p] \cup {f, g} ELSE raw[x]
  BY <1>1
<1>13. rw \in [Procs -> SUBSET FDs]
  BY <1>1, <1>6
<1> HIDE DEF rw
<1>14. GivenBy(rw, orphans) = G2
  <2>1. ASSUME NEW h PROVE h \in GivenBy(rw, orphans) <=> h \in GivenBy(raw, orphans) \cup {f, g}
    <3>1. h \in GivenBy(raw, orphans) <=> (\E x \in Procs : h \in raw[x]) \/ h \in orphans
      BY DEF GivenBy
    <3>2. h \in GivenBy(rw, orphans) <=> (\E x \in Procs : h \in rw[x]) \/ h \in orphans
      BY DEF GivenBy
    <3>3. (\E x \in Procs : h \in rw[x]) <=> (\E x \in Procs : h \in raw[x]) \/ h \in {f, g}
      BY <1>12
    <3> QED BY <3>1, <3>2, <3>3
  <2> QED BY <1>1, <2>1
<1>15. Apart(rw, orphans)
  <2>1. \A x \in Procs : f \notin raw[x] /\ g \notin raw[x]
    BY <1>7 DEF Given
  <2>2. f \notin orphans /\ g \notin orphans
    BY <1>7 DEF Given
  <2> QED BY <1>1, <1>12, <2>1, <2>2 DEF Apart
<1> HIDE DEF b, L, G1, G2
<1>16. StatesKept(k, b, {p}) /\ StatesKept(k, b, {}) /\ NoNewSleeper(k, b) /\ b.fd = k.fd
  BY <1>4, ShrinkStates DEF b
<1>17. KInv(b, RefsOf(b.fd, GivenBy(rw, orphans)), fresh, L, Crowd(b))
  <2>1. KInv(b, RefsOf(b.fd, GivenBy(rw, orphans)), fresh, L, crowded)
    BY <1>5, <1>8, <1>11, <1>14, <1>16 DEF b
  <2> QED BY <2>1, KCrowd
<1>18. WaitersOwn(b, b.fd, rw)
  <2>1. TypesKept(k, b, RefsOf(k.fd, Given))
    BY <1>4 DEF N, b
  <2>2. WaitersOwn(b, k.fd, raw)
    BY ONLY <1>1, <1>16, <2>1, StillOwn
  <2>3. OwnAll(k.fd, raw, k.fd, rw, Procs)
    BY <1>12 DEF OwnAll, Owns
  <2>4. /\ b.pipe_table = b.pipe_table /\ b.fd_table = b.fd_table
        /\ \A i \in Pipes, x \in Procs : Waits(b.pipe_table[i], x) => x \in Procs
    OBVIOUS
  <2>5. WaitersOwn(b, k.fd, rw)
    BY ONLY <2>2, <2>3, <2>4, OwnersOfWaiters
  <2> QED BY <1>16, <2>5
<1>19. FreeOK(b)
  <2>1. b.state[p] = "FREE" <=> k.state[p] = "FREE"
    BY <1>4 DEF Shrinks, b
  <2> QED BY ONLY <1>1, <1>16, <2>1, FreeKept
<1>20. FreshOK(b, fresh)
  <2>1. fresh \subseteq Procs /\ \A x \in fresh : x \in fresh /\ x \notin {}
    BY <1>1 DEF FreshOK
  <2> QED BY ONLY <1>1, <1>16, <2>1, FreshKept
<1>21. OwnersOK(b, rw, fresh, orphans)
  BY ONLY <1>1, <1>13, <1>15, <1>18, <1>19, <1>20 DEF OwnersOK
<1>22. Leads(b, rw, fresh, orphans, L)
  BY <1>0, <1>8 DEF Leads, rw
<1> QED BY ONLY <1>17, <1>21, <1>22, Stepped

\* A sys_pipe that fails gives nothing, and may leave a pipe in use that nobody has.
LEMMA OpenPipeFailsStep ==
  ASSUME PipeInv, NEW p \in Procs, NEW name \in Names \cup {Anonymous}, OpenPipeFails(p, name)
  PROVE  PipeInv'
<1> DEFINE N == RefsOf(k.fd, Given)
           o == pipe_open(k, name)
           r == sys_pipe(k, name)
           b == r.k
           full == \A f \in FDs : k.fd_table[f].type # "NONE"
           Lf == leaked \cup {i \in Pipes : o.pipe = i /\ ~k.pipe_table[i].in_use}
           Ln == {i \in leaked : r.k.pipe_table[i].in_use}
           L == IF full THEN Lf ELSE Ln
<1>0. r.fds = <<>> /\ Becomes(b) /\ leaked' = L /\ UNCHANGED <<raw, fresh, orphans>>
  BY DEF OpenPipeFails
<1>1. /\ k \in PipeKernel /\ k.fd \in FDTables
      /\ raw \in [Procs -> SUBSET FDs] /\ orphans \in SUBSET FDs /\ Apart(raw, orphans)
      /\ FreshOK(k, fresh) /\ FreeOK(k) /\ WaitersOwn(k, k.fd, raw)
      /\ KInv(k, N, fresh, leaked, crowded)
      /\ Owners(k.fd, raw, Given) /\ Given = GivenBy(raw, orphans) /\ SleepOK(k, fresh)
  BY InvFacts
<1>3. o = pipe_open(k, name) /\ r = sys_pipe(k, name) /\ KInv(k, N, fresh, leaked, crowded)
  BY <1>1
<1> HIDE DEF N, o, r
<1>4. /\ Shrinks(k, r.k) /\ TypesKept(k, r.k, N)
      /\ \/ \E f, g : Pair(N, r, f, g)
         \/ FailLeaves(k, N, fresh, leaked, crowded, o, r)
  BY ONLY <1>3, name \in Names \cup {Anonymous}, SysPipe
<1>5. \A f, g : ~Pair(N, r, f, g)
  BY <1>0 DEF Pair
<1>6. KInv(b, N, fresh, L, crowded)
  BY ONLY <1>4, <1>5 DEF FailLeaves
<1> HIDE DEF b, L, full, Lf, Ln
<1>16. StatesKept(k, b, {p}) /\ StatesKept(k, b, {}) /\ NoNewSleeper(k, b) /\ b.fd = k.fd
  BY <1>4, ShrinkStates DEF b
<1>17. KInv(b, RefsOf(b.fd, GivenBy(raw, orphans)), fresh, L, Crowd(b))
  <2>1. KInv(b, RefsOf(b.fd, GivenBy(raw, orphans)), fresh, L, crowded)
    BY <1>1, <1>6, <1>16 DEF N
  <2> QED BY <2>1, KCrowd
<1>18. WaitersOwn(b, b.fd, raw)
  <2>1. TypesKept(k, b, RefsOf(k.fd, Given))
    BY <1>4 DEF N, b
  <2>2. WaitersOwn(b, k.fd, raw)
    BY ONLY <1>1, <1>16, <2>1, StillOwn
  <2> QED BY <1>16, <2>2
<1>19. FreeOK(b)
  <2>1. b.state[p] = "FREE" <=> k.state[p] = "FREE"
    BY <1>4 DEF Shrinks, b
  <2> QED BY ONLY <1>1, <1>16, <2>1, FreeKept
<1>20. FreshOK(b, fresh)
  <2>1. fresh \subseteq Procs /\ \A x \in fresh : x \in fresh /\ x \notin {}
    BY <1>1 DEF FreshOK
  <2> QED BY ONLY <1>1, <1>16, <2>1, FreshKept
<1>21. OwnersOK(b, raw, fresh, orphans)
  BY ONLY <1>1, <1>18, <1>19, <1>20 DEF OwnersOK
<1>22. Leads(b, raw, fresh, orphans, L)
  BY <1>0 DEF Leads
<1> QED BY ONLY <1>17, <1>21, <1>22, Stepped

(***************************************************************************)
(* What follows                                                            *)
(***************************************************************************)
\* No system call, in whatever state it is made, and no end of a process breaks the
\* inductive invariant.
LEMMA PipeStep ==
  ASSUME PipeInv, [Next]_vars
  PROVE  PipeInv'
<1>1. CASE Next
  <2>1. PICK p \in Procs :
          \/ \E name \in Names \cup {Anonymous} : OpenPipe(p, name) \/ OpenPipeFails(p, name)
          \/ Close(p) \/ Dup2(p) \/ PipeSetup(p)
          \/ Read(p) \/ Write(p)
          \/ Create(p) \/ Start(p) \/ End(p)
    BY <1>1 DEF Next
  <2>2. ASSUME NEW name \in Names \cup {Anonymous}, OpenPipe(p, name) \/ OpenPipeFails(p, name)
        PROVE  PipeInv'
    BY ONLY <2>2, PipeInv, p \in Procs, OpenPipeStep, OpenPipeFailsStep
  <2>3. CASE Close(p)
    BY ONLY <2>3, PipeInv, p \in Procs, CloseStep
  <2>4. CASE Dup2(p)
    BY ONLY <2>4, PipeInv, p \in Procs, Dup2Step
  <2>5. CASE PipeSetup(p)
    BY ONLY <2>5, PipeInv, p \in Procs, PipeSetupStep
  <2>6. CASE Read(p)
    BY ONLY <2>6, PipeInv, p \in Procs, ReadStep
  <2>7. CASE Write(p)
    BY ONLY <2>7, PipeInv, p \in Procs, WriteStep
  <2>8. CASE Create(p)
    BY ONLY <2>8, PipeInv, p \in Procs, CreateStep
  <2>9. CASE Start(p)
    BY ONLY <2>9, PipeInv, p \in Procs, StartStep
  <2>10. CASE End(p)
    BY ONLY <2>10, PipeInv, p \in Procs, EndStep
  <2> QED BY ONLY <2>1, <2>2, <2>3, <2>4, <2>5, <2>6, <2>7, <2>8, <2>9, <2>10
<1>2. CASE UNCHANGED vars
  <2>1. /\ k' = k /\ raw' = raw /\ fresh' = fresh /\ orphans' = orphans
        /\ leaked' = leaked /\ crowded' = crowded
    BY <1>2 DEF vars
  <2>2. Given' = Given
    BY <2>1 DEF Given
  <2> QED BY <2>1, <2>2 DEF PipeInv
<1> QED BY <1>1, <1>2

\* Pipes and descriptors stay as the inductive invariant says, for any number of
\* processes, pipes and descriptors.
THEOREM PipeInvariant ==
  Spec => []PipeInv
<1>1. Init => PipeInv
  BY PipeStart
<1>2. PipeInv /\ [Next]_vars => PipeInv'
  BY PipeStep
<1> QED BY <1>1, <1>2, PTL DEF Spec

\* Bytes leave every pipe in the order in which they entered it, none lost and none
\* twice (pipe_read, pipe_write), whatever the size of the buffer.
THEOREM PipeStreamInOrder ==
  Spec => []StreamInOrder
<1>1. PipeInv => StreamInOrder
  <2> SUFFICES ASSUME PipeInv PROVE StreamInOrder
    OBVIOUS
  <2>1. \A i \in Pipes : RingOK(k.pipe_table[i])
    BY InvFacts DEF KInv, Local
  <2> QED BY ONLY <2>1 DEF StreamInOrder, RingOK
<1> QED BY <1>1, PipeInvariant, PTL

\* The counts of references in the invariant are the ones of PipeCalls.
LEMMA ReferencesAre ==
  /\ \A T \in SUBSET FDs : References(T) = RefsOf(k.fd, Given)[T]
  /\ \A i, t : EndsOf(i, t) = Ends(k, i, t) /\ EndsOf(i, t) \in SUBSET FDs
BY DEF References, RefsOf, EndsOf, Ends

\* A descriptor counts its references, and a pipe the references to each of its ends,
\* through every order of fd_incref and fd_decref (sys_dup2, process_pipe_setup,
\* sys_close, process_release_fds): none is freed under somebody who has it.
THEOREM PipeReferencesExact ==
  Spec => []ReferencesExact
<1>1. PipeInv => ReferencesExact
  <2> SUFFICES ASSUME PipeInv PROVE ReferencesExact
    OBVIOUS
  <2> DEFINE N == RefsOf(k.fd, Given)
  <2>1. TablesOK(k, N) /\ Apart(raw, orphans)
    BY InvFacts DEF KInv
  <2>2. /\ \A T \in SUBSET FDs : References(T) = N[T]
        /\ \A i, t : EndsOf(i, t) = Ends(k, i, t) /\ EndsOf(i, t) \in SUBSET FDs
    BY ReferencesAre
  <2> HIDE DEF N
  <2>3. ASSUME NEW f \in FDs
        PROVE  /\ k.fd_table[f].refcount = References({f})
               /\ k.fd_table[f].type = "NONE" => References({f}) = 0
    <3>1. References({f}) = N[{f}]
      BY <2>2
    <3>2. DescriptorOK(f, k.fd_table[f], N[{f}])
      BY <2>1 DEF TablesOK
    <3> QED BY ONLY <3>1, <3>2 DEF DescriptorOK
  <2>4. ASSUME NEW i \in Pipes
        PROVE  /\ k.pipe_table[i].open_read = References(EndsOf(i, "PIPE_READ"))
               /\ k.pipe_table[i].open_write = References(EndsOf(i, "PIPE_WRITE"))
    <3>1. \A t : References(EndsOf(i, t)) = N[Ends(k, i, t)]
      BY <2>2
    <3> QED BY <2>1, <3>1 DEF TablesOK
  <2> QED BY ONLY <2>1, <2>3, <2>4 DEF ReferencesExact, Apart
<1> QED BY <1>1, PipeInvariant, PTL

\* A pipe is given back (pipe_maybe_free) with the last reference to it and not before,
\* except for the ones that sys_pipe forgets when it finds no descriptor.
THEOREM PipePipesReclaimed ==
  Spec => []PipesReclaimed
<1>1. PipeInv => PipesReclaimed
  <2> SUFFICES ASSUME PipeInv, NEW i \in Pipes
               PROVE  k.pipe_table[i].in_use <=> \/ References(EndsOf(i, "PIPE_READ")) > 0
                                                 \/ References(EndsOf(i, "PIPE_WRITE")) > 0
                                                 \/ i \in leaked
    BY DEF PipesReclaimed
  <2> DEFINE N == RefsOf(k.fd, Given)
  <2>1. TablesOK(k, N) /\ UseOK(k.pipe_table[i], i \in leaked)
    BY InvFacts DEF KInv
  <2>2. \A t : References(EndsOf(i, t)) = N[Ends(k, i, t)]
    BY ReferencesAre
  <2> HIDE DEF N
  <2>3. /\ k.pipe_table[i].open_read = References(EndsOf(i, "PIPE_READ"))
        /\ k.pipe_table[i].open_write = References(EndsOf(i, "PIPE_WRITE"))
    BY <2>1, <2>2 DEF TablesOK
  <2> QED BY <2>1, <2>3 DEF UseOK
<1> QED BY <1>1, PipeInvariant, PTL

\* Two queues nobody is in twice, nor in both.
LEMMA BothInjective ==
  ASSUME NEW s \in Seq(Procs), NEW r \in Seq(Procs), Injective(s), Injective(r),
         \A p \in Procs : ~(InQueue(s, p) /\ InQueue(r, p))
  PROVE  IsInjective(s \o r)
<1> DEFINE m == s \o r
<1>1. Len(s) \in Nat /\ Len(r) \in Nat /\ DOMAIN m = 1 .. Len(s) + Len(r)
  OBVIOUS
<1>2. \A i \in 1 .. Len(s) : m[i] = s[i] /\ s[i] \in Procs
  BY <1>1
<1>3. \A i \in 1 .. Len(s) + Len(r) : i > Len(s) => m[i] = r[i - Len(s)] /\ i - Len(s) \in 1 .. Len(r)
  BY <1>1
<1> HIDE DEF m
<1>4. ASSUME NEW i \in 1 .. Len(s) + Len(r), NEW j \in 1 .. Len(s) + Len(r), m[i] = m[j]
      PROVE  i = j
  <2>1. CASE i <= Len(s) /\ j <= Len(s)
    <3>1. i \in 1 .. Len(s) /\ j \in 1 .. Len(s)
      BY <1>1, <2>1
    <3> QED BY <1>2, <1>4, <3>1 DEF Injective
  <2>2. CASE i > Len(s) /\ j > Len(s)
    <3>1. i - Len(s) = j - Len(s)
      BY <1>3, <1>4, <2>2 DEF Injective
    <3> QED BY <1>1, <3>1
  <2>3. CASE i <= Len(s) /\ j > Len(s)
    <3>1. i \in 1 .. Len(s)
      BY <1>1, <2>3
    <3>2. InQueue(s, m[i]) /\ InQueue(r, m[i]) /\ m[i] \in Procs
      BY <1>2, <1>3, <1>4, <2>3, <3>1 DEF InQueue
    <3> QED BY <3>2
  <2>4. CASE i > Len(s) /\ j <= Len(s)
    <3>1. j \in 1 .. Len(s)
      BY <1>1, <2>4
    <3>2. InQueue(s, m[j]) /\ InQueue(r, m[j]) /\ m[j] \in Procs
      BY <1>2, <1>3, <1>4, <2>4, <3>1 DEF InQueue
    <3> QED BY <3>2
  <2> QED BY <1>1, <2>1, <2>2, <2>3, <2>4
<1> QED BY <1>1, <1>4 DEF IsInjective, m

\* Who is queued for a pipe.
LEMMA QueuedWaits ==
  ASSUME k \in PipeKernel, NEW i \in Pipes
  PROVE  /\ \A p : p \in Queued(i) <=> Waits(k.pipe_table[i], p)
         /\ Queued(i) \subseteq Procs
<1> DEFINE q == k.pipe_table[i]
<1>1. q.wait_readers \in Seq(Procs) /\ q.wait_writers \in Seq(Procs)
  BY KernelFields, PipeFields
<1>2. ASSUME NEW s \in Seq(Procs), NEW p
      PROVE  (p \in ToSet(s) <=> InQueue(s, p)) /\ (InQueue(s, p) => p \in Procs)
  BY <1>2 DEF ToSet, InQueue
<1> HIDE DEF q
<1>3. ASSUME NEW p
      PROVE  (p \in Queued(i) <=> Waits(q, p)) /\ (Waits(q, p) => p \in Procs)
  <2>1. Queued(i) = ToSet(q.wait_readers) \cup ToSet(q.wait_writers)
    BY DEF Queued, q
  <2> QED BY <1>1, <1>2, <2>1 DEF Waits, Reads, Writes
<1> QED BY <1>3 DEF q

\* Whoever sleeps in pipe_read or pipe_write is in one queue, once, of a pipe that still
\* has, or can get, somebody to wake it; and nobody else is in a queue: however many
\* processes read, write, close, redirect, die and are born.
THEOREM PipeSleepersCanBeWoken ==
  Spec => []SleepersCanBeWoken
<1>1. PipeInv => SleepersCanBeWoken
  <2> SUFFICES ASSUME PipeInv PROVE SleepersCanBeWoken
    OBVIOUS
  <2>1. k \in PipeKernel /\ SleepOK(k, fresh) /\ \A i \in Pipes : Local(k.pipe_table[i])
    BY InvFacts DEF KInv
  <2>2. ASSUME NEW i \in Pipes
        PROVE  /\ \A p : p \in Queued(i) <=> Waits(k.pipe_table[i], p)
               /\ Queued(i) \subseteq Procs
    BY <2>1, QueuedWaits
  <2>3. ASSUME NEW i \in Pipes, NEW q, q = k.pipe_table[i]
        PROVE  /\ IsInjective(q.wait_readers \o q.wait_writers)
               /\ \A p \in Queued(i) : k.state[p] = "BLOCKED" /\ p \notin fresh
               /\ Queued(i) # {} => q.in_use
    <3>1. q \in PipeRecord /\ QueueOK(q) /\ (~q.in_use => q = FreePipe)
      BY <2>1, <2>3, KernelFields DEF Local
    <3>2. IsInjective(q.wait_readers \o q.wait_writers)
      BY <3>1, PipeFields, BothInjective DEF QueueOK, Reads, Writes
    <3>3. \A p \in Queued(i) : k.state[p] = "BLOCKED" /\ p \notin fresh
      BY <2>1, <2>2 DEF SleepOK
    <3>4. Queued(i) # {} => q.in_use
      BY <2>2, <2>3, <3>1, FreePipeOK DEF Waits
    <3> QED BY <3>2, <3>3, <3>4
  <2>4. ASSUME NEW p \in Procs, k.state[p] = "BLOCKED", p \notin fresh
        PROVE  \E i \in Pipes :
                 /\ \A j \in Pipes \ {i} : p \notin Queued(j)
                 /\ \/ /\ InQueue(k.pipe_table[i].wait_readers, p)
                       /\ ~at_eof(k.pipe_table[i])
                    \/ /\ InQueue(k.pipe_table[i].wait_writers, p)
                       /\ \/ k.pipe_table[i].open_read > 0
                          \/ is_named(k.pipe_table[i]) /\ ~k.pipe_table[i].eof
    <3>1. PICK i \in Pipes : Waits(k.pipe_table[i], p)
      BY <2>1, <2>4 DEF SleepOK
    <3>2. \A j \in Pipes \ {i} : p \notin Queued(j)
      BY <2>1, <2>2, <3>1 DEF SleepOK
    <3>3. QueueOK(k.pipe_table[i])
      BY <2>1 DEF Local
    <3> QED BY <3>1, <3>2, <3>3 DEF Waits, Reads, Writes, QueueOK
  <2> QED BY ONLY <2>3, <2>4 DEF SleepersCanBeWoken
<1> QED BY <1>1, PipeInvariant, PTL

\* With no two processes at the same end of a pipe, pipe_read and pipe_write lose no
\* wake-up: a reader sleeps only while there is nothing to read, and a writer only while
\* there is no room or no reader.
THEOREM PipeNoLostWakeup ==
  Spec => []NoLostWakeup
<1>1. PipeInv => NoLostWakeup
  <2> SUFFICES ASSUME PipeInv, NEW i \in Pipes \ crowded, NEW q, q = k.pipe_table[i]
               PROVE  /\ q.wait_readers # <<>> => q.count = 0
                      /\ q.wait_writers # <<>> => q.count = PIPE_BUFFER_SIZE \/ q.open_read = 0
    BY DEF NoLostWakeup
  <2>1. k \in PipeKernel /\ Calm(q)
    BY InvFacts DEF KInv
  <2>2. q.wait_readers \in Seq(Procs) /\ q.wait_writers \in Seq(Procs)
    BY <2>1, KernelFields, PipeFields
  <2>3. /\ q.wait_readers # <<>> => \E p \in Procs : Reads(q, p)
        /\ q.wait_writers # <<>> => \E p \in Procs : Writes(q, p)
    BY ONLY <2>2, SomebodyWaits DEF Reads, Writes
  <2> QED BY ONLY <2>1, <2>3 DEF Calm
<1> QED BY <1>1, PipeInvariant, PTL

=============================================================================
