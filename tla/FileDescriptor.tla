--------------------------- MODULE FileDescriptor ---------------------------
(***************************************************************************)
(* The global table of file descriptors (Kernel/c/pipe/fd.c), and the two  *)
(* entries of it that a process has as standard input and output           *)
(* (process.c).  Of the kernel's state the operations use, beside what     *)
(* Pipe uses,                                                              *)
(*   k.fd_table   the descriptors                                          *)
(*   k.fd         per process, the descriptor of stdin (0) and stdout (1)  *)
(***************************************************************************)
EXTENDS Pipe

CONSTANT MAX_FDS

FD_STDIN == 0
FD_STDOUT == 1
FDs == 0 .. MAX_FDS - 1
NoFD == -1

ASSUME FDAssumption == MAX_FDS \in Nat /\ MAX_FDS >= 2

FDRecord == [type : {"NONE", "TERMINAL", "PIPE_READ", "PIPE_WRITE"},
             refcount : Nat, data : Pipes \cup {NULL}]

fd_init == [f \in FDs |->
              [type |-> IF f \in {FD_STDIN, FD_STDOUT} THEN "TERMINAL" ELSE "NONE",
               refcount |-> 0, data |-> NULL]]

fd_valid(k, f) == f \in FDs /\ k.fd_table[f].type # "NONE"

fd_incref(k, f) ==
  LET k1 == [k EXCEPT !.fd_table[f].refcount = @ + 1]
      d == k.fd_table[f]
  IN CASE ~fd_valid(k, f) -> k
       [] d.type = "PIPE_READ" -> pipe_open_read(k1, d.data)
       [] d.type = "PIPE_WRITE" -> pipe_open_write(k1, d.data)
       [] OTHER -> k1

\* What the pipe learns of a reference that goes.
close_end(k, d) ==
  CASE d.type = "PIPE_READ" -> pipe_close_read(k, d.data)
    [] d.type = "PIPE_WRITE" -> pipe_close_write(k, d.data)
    [] OTHER -> k

fd_decref(k, f) ==
  LET d == k.fd_table[f]
      k1 == IF d.refcount > 0
            THEN close_end([k EXCEPT !.fd_table[f].refcount = @ - 1], d) ELSE k
  IN IF ~fd_valid(k, f) THEN k
     ELSE IF k1.fd_table[f].refcount > 0 \/ d.type = "TERMINAL" THEN k1
     ELSE [k1 EXCEPT !.fd_table[f] = [@ EXCEPT !.type = "NONE", !.data = NULL]]

\* The descriptor for one end of pipe i and the state with it; NoFD if the
\* table is full.
fd_create_pipe(k, i, type) ==
  LET free == {f \in FDs : k.fd_table[f].type = "NONE"}
      f == Min(free)
  IN IF free = {} THEN [fd |-> NoFD, k |-> k]
     ELSE [fd |-> f,
           k |-> fd_incref([k EXCEPT !.fd_table[f] =
                              [type |-> type, refcount |-> 0, data |-> i]], f)]

(***************************************************************************)
(* System calls (syscallDispatcher.c)                                      *)
(***************************************************************************)
\* fds is empty when the call fails; a read end that found no write end goes.
pipe_create_fds(k, i) ==
  LET r == fd_create_pipe(k, i, "PIPE_READ")
      w == fd_create_pipe(r.k, i, "PIPE_WRITE")
  IN IF r.fd = NoFD THEN [k |-> k, fds |-> <<>>]
     ELSE IF w.fd = NoFD THEN [k |-> fd_decref(r.k, r.fd), fds |-> <<>>]
     ELSE [k |-> w.k, fds |-> <<r.fd, w.fd>>]

\* sys_pipe (an anonymous pipe) and sys_pipe_open (a named one).
sys_pipe(k, name) ==
  LET o == pipe_open(k, name)
  IN IF o.pipe = NULL THEN [k |-> k, fds |-> <<>>] ELSE pipe_create_fds(o.k, o.pipe)

sys_dup2(k, p, old, new) ==
  LET k1 == IF k.fd[p][new] >= 0 THEN fd_decref(k, k.fd[p][new]) ELSE k
  IN IF ~fd_valid(k, old) \/ k.fd[p][new] = old THEN k
     ELSE fd_incref([k1 EXCEPT !.fd[p][new] = old], old)

sys_close(k, f) == fd_decref(k, f)

process_pipe_setup(k, child, f, target) ==
  LET k1 == IF k.fd[child][target] >= 0 THEN fd_decref(k, k.fd[child][target]) ELSE k
  IN IF k.state[child] = "FREE" THEN k
     ELSE fd_incref([k1 EXCEPT !.fd[child][target] = f], f)

(***************************************************************************)
(* Processes come and go (process.c)                                       *)
(***************************************************************************)
\* process_create: the terminal in and out, and asleep if fg has bit 1 set.
create_fds(k, p, asleep) ==
  fd_incref(fd_incref([k EXCEPT !.state[p] = IF asleep THEN "BLOCKED" ELSE "READY",
                                !.fd[p] = [s \in 0 .. 1 |-> s]],
                      FD_STDIN), FD_STDOUT)

\* Mutant of process_release_fds: standard output stays open.
release_stdin_only(k, p) ==
  [fd_decref(k, k.fd[p][0]) EXCEPT !.fd[p] = [s \in 0 .. 1 |-> NoFD]]

process_release_fds(k, p) ==
  LET k1 == IF k.fd[p][0] >= 0 THEN fd_decref(k, k.fd[p][0]) ELSE k
      k2 == IF k.fd[p][1] >= 0 THEN fd_decref(k1, k.fd[p][1]) ELSE k1
  IN [k2 EXCEPT !.fd[p] = [s \in 0 .. 1 |-> NoFD]]

\* What process_exit and process_kill do to pipes and descriptors.
process_ends(k, p) ==
  [process_release_fds(pipe_cleanup_for_process(k, p), p) EXCEPT !.state[p] = "FREE"]

=============================================================================
