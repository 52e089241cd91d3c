----------------------------- MODULE Semaphore -----------------------------
(***************************************************************************)
(* The named kernel semaphores (Kernel/c/semaphore/semaphore.c).           *)
(*                                                                         *)
(* Any process that is not blocked may make the next system call: that is  *)
(* every interleaving the scheduler can produce, a system call being       *)
(* atomic (interrupt gate).  The spinlock around value and queue is never  *)
(* contended for the same reason and is left out.                          *)
(*                                                                         *)
(* How processes use semaphores is a parameter.  With Usage = "any" they   *)
(* call what they like; with "opener" a process opens a semaphore once and *)
(* uses it only until it closes it; with "lock" it also posts only what it *)
(* has got by waiting, and neither waits again nor closes before it posts. *)
(***************************************************************************)
EXTENDS WaitQueue, FiniteSetsExt

CONSTANTS
  Procs,          \* pids
  Names,          \* semaphore names
  MaxSems,        \* slots of sem_table
  MaxProcesses,   \* capacity of a wait queue
  InitialValues,  \* the initial values processes pass to sem_open
  Usage,          \* "any", "opener" or "lock"
  Meddle,         \* is the block command used on processes that wait?
  MaxValue,       \* bound: no post above this value
  MaxDebt,        \* bound: no wait below minus this value
  MaxOpens        \* bound: no open above this open_count

ASSUME SemaphoreAssumption ==
  /\ MaxSems \in Nat \ {0}
  /\ IsFiniteSet(Procs)
  /\ MaxProcesses \in Nat /\ Cardinality(Procs) <= MaxProcesses
  /\ InitialValues \subseteq Nat
  /\ Usage \in {"any", "opener", "lock"}
  /\ Meddle \in BOOLEAN
  /\ MaxValue \in Nat /\ MaxDebt \in Nat /\ MaxOpens \in Nat

VARIABLES
  sem_table,    \* slot -> semaphore
  held_sems,    \* pid -> slots whose bit is set in the PCB
  opened_sems,  \* pid -> slots whose bit is set in the PCB
  state,        \* pid -> READY (or running), BLOCKED or DEAD
  entered,      \* history: the slots a process has waited on and not posted
  suspended     \* history: the processes the block command has blocked

semVars == <<sem_table, held_sems, opened_sems, state, entered, suspended>>

Sems == 0 .. MaxSems - 1
NoName == "none"
NULL == -1

\* initial is history: the value the semaphore was created with.
Semaphores == [name : Names \cup {NoName}, value : Int, wait_queue : Seq(Procs),
               open_count : Nat, initial : Nat]

FreeSem == [name |-> NoName, value |-> 0, wait_queue |-> <<>>,
            open_count |-> 0, initial |-> 0]

(***************************************************************************)
(* Kernel states: the operators below are the C functions, from the state  *)
(* k a system call starts in to the one it leaves.                         *)
(***************************************************************************)
SemState == [sem |-> sem_table, held |-> held_sems, opened |-> opened_sems,
             st |-> state, in |-> entered, susp |-> suspended]

InstallSem(k) == /\ sem_table' = k.sem
                 /\ held_sems' = k.held
                 /\ opened_sems' = k.opened
                 /\ state' = k.st
                 /\ entered' = k.in
                 /\ suspended' = k.susp

\* Mutant of queue_push: the newest waiter goes first.
queue_push_front(q, p) == IF Len(q) >= MaxProcesses THEN q ELSE <<p>> \o q

queue_push(q, p) == IF Len(q) >= MaxProcesses THEN q ELSE Append(q, p)

\* The slot of the open semaphore of this name, or NULL.
find_sem(k, name) ==
  LET found == {i \in Sems : k.sem[i].open_count > 0 /\ k.sem[i].name = name}
  IN  IF found = {} THEN NULL ELSE Min(found)

\* Mutant of free_sem: the search runs off the end of the table.
free_sem_past_end(k) ==
  LET free == {i \in Sems : k.sem[i].open_count = 0}
  IN  IF free = {} THEN MaxSems ELSE Min(free)

\* The first slot that is not open, or NULL.
free_sem(k) ==
  LET free == {i \in Sems : k.sem[i].open_count = 0}
  IN  IF free = {} THEN NULL ELSE Min(free)

\* process_unblock: no effect on a process that is not BLOCKED.
wake(k, p) == [k EXCEPT !.st[p] = IF @ = "BLOCKED" THEN "READY" ELSE @]

\* Mutant of grant: process_unblock is not called.
grant_without_wake(k, p, i) ==
  IF k.st[p] = "DEAD" THEN k ELSE [k EXCEPT !.held[p] = @ \cup {i}]

\* process p gets the resource of slot i.
grant(k, p, i) ==
  IF k.st[p] = "DEAD" THEN k ELSE wake([k EXCEPT !.held[p] = @ \cup {i}], p)

new_sem(name, v) == [name |-> name, value |-> v, wait_queue |-> <<>>,
                     open_count |-> 1, initial |-> v]

open_again(s) == [s EXCEPT !.open_count = @ + 1]

sem_open(k, p, name, v) ==
  LET i == IF find_sem(k, name) # NULL THEN find_sem(k, name) ELSE free_sem(k)
  IN  IF i = NULL THEN k
      ELSE [k EXCEPT
              !.sem[i] = IF find_sem(k, name) # NULL THEN open_again(@) ELSE new_sem(name, v),
              !.opened[p] = @ \cup {i}]

\* Slot i with the value decremented and, if that was one too many, p queued.
take_or_queue(s, p) ==
  [s EXCEPT !.value = @ - 1,
            !.wait_queue = IF s.value - 1 < 0 THEN queue_push(@, p) ELSE @]

\* Mutant of sem_wait: the value is tested before it is decremented.
sem_wait_tests_first(k, p, i) ==
  IF k.sem[i].value < 0
  THEN [k EXCEPT !.sem[i] = take_or_queue(@, p), !.st[p] = "BLOCKED",
                 !.in[p] = @ \cup {i}]
  ELSE [k EXCEPT !.sem[i].value = @ - 1, !.held[p] = @ \cup {i},
                 !.in[p] = @ \cup {i}]

sem_wait(k, p, i) ==
  IF k.sem[i].value - 1 < 0
  THEN [k EXCEPT !.sem[i] = take_or_queue(@, p), !.st[p] = "BLOCKED",
                 !.in[p] = @ \cup {i}]
  ELSE [k EXCEPT !.sem[i] = take_or_queue(@, p), !.held[p] = @ \cup {i},
                 !.in[p] = @ \cup {i}]

\* Mutant of hands_over: the last waiter is forgotten.
hands_over_late(s) == s.value + 1 < 0 /\ Len(s.wait_queue) > 0

\* value++ with a waiter left to get the resource.
hands_over(s) == s.value + 1 <= 0 /\ Len(s.wait_queue) > 0

\* value++, and the waiter that gets the resource leaves the queue.
increment(s) ==
  [s EXCEPT !.value = @ + 1,
            !.wait_queue = IF hands_over(s) THEN queue_pop(@) ELSE @]

\* Increment slot i and hand the resource to its first waiter, if any.
release(k, i) ==
  LET s == k.sem[i]
      after == [k EXCEPT !.sem[i] = increment(s)]
  IN  IF hands_over(s) THEN grant(after, Head(s.wait_queue), i) ELSE after

\* Mutant of sem_post: the bit in held_sems is not cleared.
post_keeps_held(k, p, i) == release([k EXCEPT !.in[p] = @ \ {i}], i)

sem_post(k, p, i) ==
  release([k EXCEPT !.held[p] = @ \ {i}, !.in[p] = @ \ {i}], i)

\* One reference less; the last one frees the slot.
close_ref(s) ==
  IF s.open_count - 1 <= 0
  THEN [s EXCEPT !.open_count = 0, !.name = NoName, !.wait_queue = <<>>]
  ELSE [s EXCEPT !.open_count = @ - 1]

sem_close(k, p, i) ==
  [k EXCEPT !.held[p] = @ \ {i}, !.opened[p] = @ \ {i}, !.in[p] = @ \ {i},
            !.sem[i] = close_ref(@)]

(***************************************************************************)
(* sem_cleanup_for_process: p dies.  The loop treats each open slot on its *)
(* own, so the whole loop is one function over the slots.                  *)
(***************************************************************************)
\* Mutant of drop_ref: the reference of a dead process stays.
keep_ref(s, opened) == s

drop_ref(s, opened) == IF opened THEN [s EXCEPT !.open_count = @ - 1] ELSE s

\* Mutant of unqueue: the value-- of sem_wait is not undone.
unqueue_keeps_value(s, p) ==
  [s EXCEPT !.wait_queue = queue_remove_pid(@, p)]

\* p waited for s: take it out of the queue and undo the value-- of sem_wait.
unqueue(s, p) ==
  [s EXCEPT !.wait_queue = queue_remove_pid(@, p), !.value = @ + 1]

\* Mutant of unhold: the waiter gets the resource but value stays.
unhold_keeps_value(s) ==
  [s EXCEPT !.wait_queue = IF hands_over(s) THEN queue_pop(@) ELSE @]

\* p held s: value++ and the first waiter leaves the queue.
unhold(s) == increment(s)

\* A process that waits for s does not hold it, whatever its bit says.
Holds(k, p, i) == /\ k.sem[i].open_count > 0
                  /\ ~InQueue(k.sem[i].wait_queue, p)
                  /\ i \in k.held[p]

clean_sem(k, p, i) ==
  LET s == drop_ref(k.sem[i], i \in k.opened[p])
  IN  IF k.sem[i].open_count <= 0 THEN k.sem[i]
      ELSE IF InQueue(s.wait_queue, p) THEN unqueue(s, p)
      ELSE IF Holds(k, p, i) THEN unhold(s) ELSE s

\* The slots x inherits from p.
inherited(k, p, x) ==
  {i \in Sems : /\ Holds(k, p, i)
                /\ hands_over(k.sem[i])
                /\ Head(k.sem[i].wait_queue) = x}

sem_cleanup_for_process(k, p) ==
  [sem |-> [i \in Sems |-> clean_sem(k, p, i)],
   held |-> [x \in Procs |-> IF x = p THEN {}
                             ELSE IF k.st[x] = "DEAD" THEN k.held[x]
                             ELSE k.held[x] \cup inherited(k, p, x)],
   opened |-> [k.opened EXCEPT ![p] = {}],
   st |-> [x \in Procs |->
             IF k.st[x] = "BLOCKED" /\ x # p /\ inherited(k, p, x) # {}
             THEN "READY" ELSE k.st[x]],
   in |-> [k.in EXCEPT ![p] = {}],
   susp |-> k.susp \ {p}]

process_kill(k, p) == [sem_cleanup_for_process(k, p) EXCEPT !.st[p] = "DEAD"]

(***************************************************************************)
(* System calls                                                            *)
(***************************************************************************)
Opened(p, i) == i \in opened_sems[p]
Entered(p, i) == i \in entered[p]
OpenNames == {n \in Names : find_sem(SemState, n) # NULL}
Slot(name) == find_sem(SemState, name)

sys_sem_open(p, name, v) ==
  /\ state[p] = "READY"
  /\ Slot(name) # NULL => sem_table[Slot(name)].open_count < MaxOpens
  /\ Usage # "any" => Slot(name) = NULL \/ ~Opened(p, Slot(name))
  /\ InstallSem(sem_open(SemState, p, name, v))

sys_sem_wait(p, name) ==
  /\ state[p] = "READY"
  /\ Slot(name) # NULL
  /\ sem_table[Slot(name)].value > -MaxDebt
  /\ Usage # "any" => Opened(p, Slot(name))
  /\ Usage = "lock" => ~Entered(p, Slot(name))
  /\ InstallSem(sem_wait(SemState, p, Slot(name)))

sys_sem_post(p, name) ==
  /\ state[p] = "READY"
  /\ Slot(name) # NULL
  /\ sem_table[Slot(name)].value < MaxValue
  /\ Usage # "any" => Opened(p, Slot(name))
  /\ Usage = "lock" => Entered(p, Slot(name))
  /\ InstallSem(sem_post(SemState, p, Slot(name)))

sys_sem_close(p, name) ==
  /\ state[p] = "READY"
  /\ Slot(name) # NULL
  /\ Usage # "any" => Opened(p, Slot(name))
  /\ Usage = "lock" => ~Entered(p, Slot(name))
  /\ InstallSem(sem_close(SemState, p, Slot(name)))

\* p exits or is killed, in whatever state it is.
Die(p) == /\ state[p] # "DEAD"
          /\ InstallSem(process_kill(SemState, p))

\* The block command on p: sys_block toggles p between BLOCKED and READY and
\* does not look for the wait queue p may be in.
sys_block(p) ==
  /\ state[p] # "DEAD"
  /\ Meddle \/ \A i \in Sems : ~InQueue(sem_table[i].wait_queue, p)
  /\ InstallSem(
       IF state[p] = "BLOCKED"
       THEN [SemState EXCEPT !.st[p] = "READY", !.susp = @ \ {p}]
       ELSE [SemState EXCEPT !.st[p] = "BLOCKED", !.susp = @ \cup {p}])

SemInit ==
  /\ sem_table = [i \in Sems |-> FreeSem]
  /\ held_sems = [p \in Procs |-> {}]
  /\ opened_sems = [p \in Procs |-> {}]
  /\ state = [p \in Procs |-> "READY"]
  /\ entered = [p \in Procs |-> {}]
  /\ suspended = {}

SemNext ==
  \E p \in Procs :
    \/ \E n \in Names, v \in InitialValues : sys_sem_open(p, n, v)
    \/ \E n \in Names : sys_sem_wait(p, n)
    \/ \E n \in Names : sys_sem_post(p, n)
    \/ \E n \in Names : sys_sem_close(p, n)
    \/ Die(p)
    \/ sys_block(p)

SemSpec == SemInit /\ [][SemNext]_semVars

\* A process that is inside and can run leaves some day, or dies inside: weak
\* fairness of sys_sem_post under lock usage, with its guard written out.
CanLeave(p, n) == state[p] = "READY" /\ Slot(n) # NULL /\ Entered(p, Slot(n))

Leaves(p, n) == []<>~CanLeave(p, n) \/ []<><<sys_sem_post(p, n)>>_semVars

FairSemSpec == SemSpec /\ \A p \in Procs, n \in Names : Leaves(p, n)

(***************************************************************************)
(* Properties                                                              *)
(***************************************************************************)
IsOpen(i) == sem_table[i].open_count > 0

\* The types of sem_table and of the semaphore fields of the PCBs: the table is
\* not written past its end when it is full.
SemTypeOK ==
  /\ sem_table \in [Sems -> Semaphores]
  /\ held_sems \in [Procs -> SUBSET Sems]
  /\ opened_sems \in [Procs -> SUBSET Sems]
  /\ state \in [Procs -> {"READY", "BLOCKED", "DEAD"}]
  /\ entered \in [Procs -> SUBSET Sems]
  /\ suspended \in SUBSET Procs

\* A negative value counts the waiters: value < 0 exactly when -value
\* processes are queued, through waits, posts and deaths in any order.
ValueCountsWaiters ==
  \A i \in Sems : IsOpen(i) =>
    Len(sem_table[i].wait_queue) =
      (IF sem_table[i].value < 0 THEN -sem_table[i].value ELSE 0)

\* Used by its openers only, a semaphore loses no waiter: every process that is
\* BLOCKED, and not by the block command, is in the queue of one open
\* semaphore, once, and only there, and whoever is in a queue is BLOCKED.
NoLostWaiter ==
  \A p \in Procs :
    state[p] = "BLOCKED" /\ p \notin suspended <=>
      \E i \in Sems : \E j \in 1 .. Len(sem_table[i].wait_queue) :
        /\ IsOpen(i)
        /\ sem_table[i].wait_queue[j] = p
        /\ \A m \in Sems : \A n \in 1 .. Len(sem_table[m].wait_queue) :
             sem_table[m].wait_queue[n] = p => m = i /\ n = j

\* open_count is the number of live processes that have the semaphore open, so
\* it lives exactly as long as somebody uses it, and a process that dies
\* without sem_close leaks nothing.
OpenCountExact ==
  \A i \in Sems : sem_table[i].open_count
    = Cardinality({p \in Procs : state[p] # "DEAD" /\ i \in opened_sems[p]})

\* Under lock usage the held bit tells the truth: p has it exactly while p is
\* past a sem_wait it has not posted.
HeldBitsTrue ==
  \A p \in Procs, i \in Sems :
    i \in held_sems[p] <=>
      i \in entered[p] /\ ~InQueue(sem_table[i].wait_queue, p)

\* Under lock usage no resource is created or lost by any sequence of calls
\* and deaths: the initial value is what is left plus what is held minus what
\* is waited for.
Conservation ==
  \A i \in Sems : IsOpen(i) =>
    sem_table[i].initial =
      sem_table[i].value + Len(sem_table[i].wait_queue)
        + Cardinality({p \in Procs : i \in held_sems[p]})

\* The processes that are past sem_wait on slot i: they do not sleep in it.
Inside(i) ==
  {p \in Procs : /\ i \in entered[p]
                 /\ ~(state[p] = "BLOCKED" /\ InQueue(sem_table[i].wait_queue, p))}

\* Mutual exclusion: a semaphore created with value n lets at most n
\* processes past sem_wait at a time.
Exclusion ==
  \A i \in Sems : IsOpen(i) => Cardinality(Inside(i)) <= sem_table[i].initial

\* Under lock usage, when everybody inside leaves some day, the block command
\* holds nobody up and nobody is at two locks at once (sem_wait knows nothing of
\* the order of locks), a waiter gets in or is killed, whoever dies inside.
WaiterServed ==
  \A p \in Procs, i \in Sems :
    InQueue(sem_table[i].wait_queue, p)
      ~> \/ ~InQueue(sem_table[i].wait_queue, p)
         \/ suspended # {}
         \/ \E q \in Procs : Cardinality(entered[q]) > 1

=============================================================================
