------------------------------- MODULE MVar -------------------------------
(***************************************************************************)
(* The mvar command (Userland/c/commands/mvar.c): writers and readers of a *)
(* one-place buffer in shared memory, kept apart by the kernel semaphores  *)
(* "e" (empty places, 1) and "f" (values, 0) of module Semaphore.          *)
(*                                                                         *)
(* A process is at one of its system calls or memory accesses; between two *)
(* of them any other process may run, and it may be killed at the points   *)
(* of Killable; "idle" is the busy wait before a put or a take.            *)
(***************************************************************************)
EXTENDS Semaphore

CONSTANTS Writers, Readers, Killable

ASSUME MVarAssumption ==
  /\ Procs = Writers \cup Readers
  /\ Writers \cap Readers = {}
  /\ Names = {"e", "f"}
  /\ Usage = "any"
  /\ MaxSems >= 2 /\ {0, 1} \subseteq InitialValues
  /\ Killable \subseteq {"open_empty", "open_full", "idle", "access", "post"}
  /\ "empty" \notin Writers

VARIABLES
  value,     \* umvar_table[slot].value: the letter of a writer, NUL at first
  pc         \* pid -> the next thing it does

mvarVars == <<semVars, value, pc>>

Empty == "empty"
NUL == "nul"

\* The semaphore a participant waits on, and the one it posts.
WaitsOn(p) == IF p \in Writers THEN "e" ELSE "f"

Posts(p) == IF p \in Writers THEN "f" ELSE "e"

Goto(p, from, to) == pc[p] = from /\ pc' = [pc EXCEPT ![p] = to]

\* Mutant of open_empty: the buffer is taken to have two places.
open_two_empty(p) == /\ Goto(p, "open_empty", "open_full")
                     /\ sys_sem_open(p, "e", 2)
                     /\ UNCHANGED value

\* user_mvar_open_sems: two system calls.
open_empty(p) == /\ Goto(p, "open_empty", "open_full")
                 /\ sys_sem_open(p, "e", 1)
                 /\ UNCHANGED value

open_full(p) == /\ Goto(p, "open_full", "idle")
                /\ sys_sem_open(p, "f", 0)
                /\ UNCHANGED value

\* Other programs have all the slots when p needs one: it closes what it has
\* opened and exits, which together leave what Die leaves.
open_fails(p) == /\ \/ pc[p] = "open_empty" /\ Slot("e") = NULL
                    \/ pc[p] = "open_full" /\ Slot("f") = NULL
                 /\ Goto(p, pc[p], "dead")
                 /\ Die(p)
                 /\ UNCHANGED value

\* user_mvar_put and user_mvar_take: wait ...
wait(p) == /\ Goto(p, "idle", "access")
           /\ sys_sem_wait(p, WaitsOn(p))
           /\ UNCHANGED value

\* ... access the value, once sem_wait has returned ...
access(p) == /\ Goto(p, "access", "post")
             /\ state[p] = "READY"
             /\ value' = IF p \in Writers THEN p ELSE value
             /\ UNCHANGED semVars

\* ... and post.
post(p) == /\ Goto(p, "post", "idle")
           /\ sys_sem_post(p, Posts(p))
           /\ UNCHANGED value

kill(p) == /\ pc[p] \in Killable
           /\ Goto(p, pc[p], "dead")
           /\ Die(p)
           /\ UNCHANGED value

MVarInit == /\ SemInit
            /\ value = NUL
            /\ pc = [p \in Procs |-> "open_empty"]

Step(p) == \/ open_empty(p)
           \/ open_full(p)
           \/ wait(p)
           \/ access(p)
           \/ post(p)

MVarNext == \E p \in Procs : Step(p) \/ open_fails(p) \/ kill(p)

\* Every participant gets the CPU again and again.
MVarSpec == /\ MVarInit /\ [][MVarNext]_mvarVars
            /\ \A p \in Procs : WF_mvarVars(Step(p))

(***************************************************************************)
(* Properties                                                              *)
(***************************************************************************)
\* p is past its sem_wait and has not posted: it may touch the value.
Accessing(p) == \/ pc[p] = "post"
                \/ pc[p] = "access" /\ state[p] = "READY"

\* mvar.c: "El valor se protege con el protocolo de semaforos: solo un
\* proceso accede a la vez."
OneAtATime ==
  \A p, q \in Procs : Accessing(p) /\ Accessing(q) => p = q

\* The place is taken from the moment a writer has written until a reader
\* has read: a writer is about to post, a value is counted by "f", or a
\* reader has been let in.
Occupied == \/ \E p \in Writers : pc[p] = "post"
            \/ Slot("f") # NULL /\ sem_table[Slot("f")].value > 0
            \/ \E p \in Readers : pc[p] = "access" /\ state[p] = "READY"

Buffer == INSTANCE OnePlaceBuffer
            WITH Values <- Writers, Empty <- Empty,
                 buffer <- IF Occupied THEN value ELSE Empty

\* The protocol over the two semaphores implements the one-place buffer: no
\* value is overwritten before it is read, and none is read twice.  Killed before
\* its post, a writer has taken its value away, and a reader has put it back.
ImplementsBuffer == Buffer!Spec

Alive(p) == pc[p] # "dead"

\* mvar.c: participants own references, so "el orden de apertura entre
\* participantes es irrelevante" and "los semaforos viven mientras haya >=1
\* participante": once every live participant has both semaphores, and there
\* are a writer and a reader, the one token is somewhere.
NeverStuck ==
  /\ \E w \in Writers, r \in Readers : Alive(w) /\ Alive(r)
  /\ \A p \in Procs : pc[p] \notin {"open_empty", "open_full"}
  => \/ sem_table[Slot("e")].value > 0
     \/ sem_table[Slot("f")].value > 0
     \/ \E p \in Procs : Accessing(p)

\* As long as nobody is killed, nobody waits for ever at a semaphore: the
\* queues are FIFO and a post hands over directly.
EveryoneServed ==
  \A p \in Procs : pc[p] = "access" ~> (pc[p] = "post" \/ \E q \in Procs : ~Alive(q))

=============================================================================
