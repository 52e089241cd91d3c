----------------------------- MODULE PipeCalls -----------------------------
(***************************************************************************)
(* Processes that use pipes in any way the system calls allow.  Of what    *)
(* they do two things are assumed, which the shell, the one program of the *)
(* repository with pipes of its own, keeps to:                             *)
(*   - a process closes each descriptor it got from sys_pipe or            *)
(*     sys_pipe_open once at most, and none of another process;            *)
(*   - sys_pipe_setup is for children that have not started.               *)
(*                                                                         *)
(* An action is one system call, or the end of a process.                  *)
(***************************************************************************)
EXTENDS FileDescriptor

CONSTANT Counts      \* how many bytes a call asks for

ASSUME CountsAssumption == Counts \subseteq Nat

VARIABLES
  k,         \* the kernel's state: state, fd, fd_table, pipe_table
  raw,       \* per process: the descriptors it was given and has not closed
  fresh,     \* the processes created asleep that have not been started
  orphans,   \* descriptors whose process ended without closing them
  leaked,    \* pipes opened by a call that then found no free descriptor
  crowded    \* pipes in which two processes have been queued for the same end

vars == <<k, raw, fresh, orphans, leaked, crowded>>

Kernel0 == [state |-> [p \in Procs |-> "FREE"],
            fd |-> [p \in Procs |-> [s \in 0 .. 1 |-> NoFD]],
            fd_table |-> fd_init,
            pipe_table |-> [i \in Pipes |-> FreePipe]]

Init == /\ \E p \in Procs : k = create_fds(Kernel0, p, FALSE)
        /\ raw = [p \in Procs |-> {}]
        /\ fresh = {}
        /\ orphans = {}
        /\ leaked = {}
        /\ crowded = {}

Running(p) == k.state[p] = "READY"

\* crowded after a step to the state k1: forgotten when the pipe is freed.
Crowd(k1) == {i \in Pipes : /\ k1.pipe_table[i].in_use
                            /\ \/ i \in crowded
                               \/ Len(k1.pipe_table[i].wait_readers) > 1
                               \/ Len(k1.pipe_table[i].wait_writers) > 1}

Becomes(k1) == k' = k1 /\ crowded' = Crowd(k1)

\* sys_pipe and sys_pipe_open, when a pair of descriptors comes of it.
OpenPipe(p, name) ==
  LET r == sys_pipe(k, name)
  IN /\ Running(p)
     /\ r.fds # <<>>
     /\ Becomes(r.k)
     /\ raw' = [raw EXCEPT ![p] = @ \cup ToSet(r.fds)]
     /\ leaked' = leaked \ {r.k.fd_table[r.fds[1]].data}
     /\ UNCHANGED <<fresh, orphans>>

\* The same when one of the two tables is full.
OpenPipeFails(p, name) ==
  LET r == sys_pipe(k, name)
      o == pipe_open(k, name)
  IN /\ Running(p)
     /\ r.fds = <<>>
     /\ Becomes(r.k)
     /\ leaked' = IF \A f \in FDs : k.fd_table[f].type # "NONE"
                  THEN leaked \cup {i \in Pipes : o.pipe = i /\ ~k.pipe_table[i].in_use}
                  ELSE {i \in leaked : r.k.pipe_table[i].in_use}
     /\ UNCHANGED <<raw, fresh, orphans>>

Close(p) == \E f \in raw[p] :
  /\ Running(p)
  /\ Becomes(sys_close(k, f))
  /\ raw' = [raw EXCEPT ![p] = @ \ {f}]
  /\ UNCHANGED <<fresh, orphans, leaked>>

\* The descriptors of pipe ends that make sense as standard input or output.
Suited(fds, target) ==
  {f \in fds : k.fd_table[f].type = IF target = FD_STDIN THEN "PIPE_READ" ELSE "PIPE_WRITE"}

\* To one of its pipes, or back to the terminal.
Dup2(p) == \E new \in 0 .. 1 : \E old \in Suited(raw[p], new) \cup {new} :
  /\ Running(p)
  /\ Becomes(sys_dup2(k, p, old, new))
  /\ UNCHANGED <<raw, fresh, orphans, leaked>>

PipeSetup(p) == \E child \in fresh, target \in 0 .. 1 : \E f \in Suited(raw[p], target) :
  /\ Running(p)
  /\ Becomes(process_pipe_setup(k, child, f, target))
  /\ UNCHANGED <<raw, fresh, orphans, leaked>>

\* The descriptor a call with number n is about: 0 and 1 are the process' own.
Actual(p, n) == IF n \in 0 .. 1 THEN k.fd[p][n] ELSE n

Read(p) == \E n \in raw[p] \cup {FD_STDIN}, count \in Counts :
  LET d == k.fd_table[Actual(p, n)] IN
  /\ Running(p)
  /\ d.type = "PIPE_READ"
  /\ Becomes(pipe_read(k, d.data, p, count).k)
  /\ UNCHANGED <<raw, fresh, orphans, leaked>>

Write(p) == \E n \in raw[p] \cup {FD_STDOUT}, count \in Counts :
  LET d == k.fd_table[Actual(p, n)] IN
  /\ Running(p)
  /\ d.type = "PIPE_WRITE"
  /\ Becomes(pipe_write(k, d.data, p, count).k)
  /\ UNCHANGED <<raw, fresh, orphans, leaked>>

\* A child created awake is one that is started at once.
Create(p) == \E q \in Procs :
  /\ Running(p)
  /\ k.state[q] = "FREE"
  /\ Becomes(create_fds(k, q, TRUE))
  /\ fresh' = fresh \cup {q}
  /\ UNCHANGED <<raw, orphans, leaked>>

\* sys_unblock by whoever created it.
Start(p) == \E q \in fresh :
  /\ Running(p)
  /\ Becomes(process_unblock(k, q))
  /\ fresh' = fresh \ {q}
  /\ UNCHANGED <<raw, orphans, leaked>>

\* The process exits or is killed, asleep or not.
End(p) ==
  /\ k.state[p] # "FREE"
  /\ \E q \in Procs \ {p} : k.state[q] # "FREE"
  /\ Becomes(process_ends(k, p))
  /\ fresh' = fresh \ {p}
  /\ orphans' = orphans \cup raw[p]
  /\ raw' = [raw EXCEPT ![p] = {}]
  /\ UNCHANGED leaked

Next == \E p \in Procs :
  \/ \E name \in Names \cup {Anonymous} : OpenPipe(p, name) \/ OpenPipeFails(p, name)
  \/ Close(p) \/ Dup2(p) \/ PipeSetup(p)
  \/ Read(p) \/ Write(p)
  \/ Create(p) \/ Start(p) \/ End(p)

Spec == Init /\ [][Next]_vars

(***************************************************************************)
(* Properties                                                              *)
(***************************************************************************)
\* The descriptors somebody was given by sys_pipe or sys_pipe_open and has not
\* closed.
Given == (UNION {raw[p] : p \in Procs}) \cup orphans

\* How many references to the descriptors T there are: in PCBs, and by the calls
\* that created them.
References(T) ==
  Cardinality({u \in Procs \X (0 .. 1) : k.fd[u[1]][u[2]] \in T}) + Cardinality(Given \cap T)

EndsOf(i, type) == {f \in FDs : k.fd_table[f].type = type /\ k.fd_table[f].data = i}

\* Through creations, redirections, closes and deaths in any order, a descriptor
\* counts its references and a pipe the references to each of its ends; nobody
\* refers to a descriptor that has been freed, and no two processes were given
\* the same one.
ReferencesExact ==
  /\ \A f \in FDs : /\ k.fd_table[f].refcount = References({f})
                    /\ k.fd_table[f].type = "NONE" => References({f}) = 0
  /\ \A i \in Pipes : /\ k.pipe_table[i].open_read = References(EndsOf(i, "PIPE_READ"))
                      /\ k.pipe_table[i].open_write = References(EndsOf(i, "PIPE_WRITE"))
  /\ \A p \in Procs : /\ raw[p] \cap orphans = {}
                      /\ \A q \in Procs \ {p} : raw[p] \cap raw[q] = {}

\* A pipe is in use exactly as long as one of its ends is open.  The exception
\* is a pipe whose creation found the table of descriptors full: sys_pipe
\* forgets to give it back.
PipesReclaimed ==
  \A i \in Pipes :
    k.pipe_table[i].in_use <=> \/ References(EndsOf(i, "PIPE_READ")) > 0
                               \/ References(EndsOf(i, "PIPE_WRITE")) > 0
                               \/ i \in leaked

\* Bytes leave a pipe in the order in which they entered it, none lost, none
\* twice, never more than fit, round the end of the buffer and through the reuse of a slot.
StreamInOrder ==
  \A i \in Pipes : LET q == k.pipe_table[i] IN
    /\ q.count \in 0 .. PIPE_BUFFER_SIZE
    /\ q.sent = (q.got + q.count) % Stream
    /\ q.write_idx = (q.read_idx + q.count) % PIPE_BUFFER_SIZE
    /\ \A j \in 0 .. q.count - 1 :
         q.buffer[(q.read_idx + j) % PIPE_BUFFER_SIZE] = (q.got + j) % Stream

Queued(i) == ToSet(k.pipe_table[i].wait_readers) \cup ToSet(k.pipe_table[i].wait_writers)

\* Whoever sleeps in a call is in one queue of one pipe, once, and can still be
\* woken from it: a reader by a writer or, in a named pipe, by one to come; a
\* writer by a reader.  Nobody sleeps on a pipe whose other end is gone, and no
\* queue keeps a process that has ended or was woken.
SleepersCanBeWoken ==
  /\ \A i \in Pipes : LET q == k.pipe_table[i] IN
       /\ IsInjective(q.wait_readers \o q.wait_writers)
       /\ \A p \in Queued(i) : k.state[p] = "BLOCKED" /\ p \notin fresh
       /\ Queued(i) # {} => q.in_use
  /\ \A p \in Procs : k.state[p] = "BLOCKED" /\ p \notin fresh =>
       \E i \in Pipes : LET q == k.pipe_table[i] IN
         /\ \A j \in Pipes \ {i} : p \notin Queued(j)
         /\ \/ InQueue(q.wait_readers, p) /\ ~at_eof(q)
            \/ InQueue(q.wait_writers, p) /\ (q.open_read > 0 \/ (is_named(q) /\ ~q.eof))

\* As long as no two processes have waited for the same end of a pipe, a reader
\* sleeps only while the pipe is empty and a writer only while it is full or has
\* no readers: no wake-up is lost.  With two this fails: pipe_write and
\* pipe_read wake one, which may end, or read and write less than there is room
\* for, with the other asleep.
NoLostWakeup ==
  \A i \in Pipes \ crowded : LET q == k.pipe_table[i] IN
    /\ q.wait_readers # <<>> => q.count = 0
    /\ q.wait_writers # <<>> => q.count = PIPE_BUFFER_SIZE \/ q.open_read = 0

=============================================================================
