-------------------------- MODULE SemaphoreProofs --------------------------
(***************************************************************************)
(* Proofs about module Semaphore, for every number of processes, names and *)
(* slots and all bounds.                                                   *)
(***************************************************************************)
EXTENDS Semaphore, NatLemmas

(***************************************************************************)
(* Wait queues                                                             *)
(***************************************************************************)
\* A process that waits in no place of the queue finds room at its end.
LEMMA QueuePush ==
  ASSUME NEW q \in Seq(Procs), NEW p \in Procs
  PROVE  LET r == queue_push(q, p)
         IN  /\ r \in Seq(Procs)
             /\ Injective(q) /\ ~InQueue(q, p) =>
                  /\ Injective(r) /\ Len(r) = Len(q) + 1
                  /\ \A x \in Procs : InQueue(r, x) <=> InQueue(q, x) \/ x = p
<1> DEFINE r == Append(q, p)
<1>1. Len(q) \in Nat /\ \A i \in 1 .. Len(q) : q[i] \in Procs
  OBVIOUS
<1>2. /\ r \in Seq(Procs) /\ Len(r) = Len(q) + 1
      /\ r[Len(q) + 1] = p /\ \A i \in 1 .. Len(q) : r[i] = q[i]
  OBVIOUS
<1> HIDE DEF r
<1>3. ASSUME Injective(q), ~InQueue(q, p)
      PROVE  Len(q) < MaxProcesses
  <2> SUFFICES ASSUME Len(q) >= MaxProcesses PROVE FALSE
    BY <1>1, SemaphoreAssumption
  <2>1. q \in [1 .. Len(q) -> Procs \ {p}]
    <3>1. \A i \in 1 .. Len(q) : q[i] # p
      BY <1>3 DEF InQueue
    <3>2. q = [i \in 1 .. Len(q) |-> q[i]]
      OBVIOUS
    <3> QED BY <1>1, <3>1, <3>2
  <2>2. IsFiniteSet(1 .. Len(q)) /\ Cardinality(1 .. Len(q)) = Len(q)
    BY <1>1, FS_Interval, SMTT(60)
  <2>3. /\ IsFiniteSet(Procs \ {p}) /\ Cardinality(Procs \ {p}) = Cardinality(Procs) - 1
        /\ Cardinality(Procs) \in Nat /\ Cardinality(Procs) <= MaxProcesses
    BY SemaphoreAssumption, FS_RemoveElement, FS_CardinalityType
  <2>4. Cardinality(Procs \ {p}) < Cardinality(1 .. Len(q))
    BY <1>1, <2>2, <2>3, SemaphoreAssumption
  <2>5. \E i, j \in 1 .. Len(q) : i # j /\ q[i] = q[j]
    BY <2>1, <2>2, <2>3, <2>4, FS_PigeonHole
  <2> QED BY <1>3, <2>5 DEF Injective
<1>4. ASSUME Injective(q), ~InQueue(q, p)
      PROVE  /\ queue_push(q, p) = r /\ Injective(r)
             /\ \A x \in Procs : InQueue(r, x) <=> InQueue(q, x) \/ x = p
  <2>1. queue_push(q, p) = r
    BY <1>1, <1>3, <1>4, SemaphoreAssumption DEF queue_push, r
  <2>2. Injective(r)
    BY <1>1, <1>2, <1>4 DEF Injective, InQueue
  <2>3. \A x \in Procs : InQueue(r, x) <=> InQueue(q, x) \/ x = p
    BY <1>1, <1>2 DEF InQueue
  <2> QED BY <2>1, <2>2, <2>3
<1>5. queue_push(q, p) \in {q, r}
  BY DEF queue_push, r
<1> QED BY <1>2, <1>4, <1>5

(***************************************************************************)
(* Kernel states                                                           *)
(***************************************************************************)
SemKernel ==
  [sem : [Sems -> Semaphores], held : [Procs -> SUBSET Sems],
   opened : [Procs -> SUBSET Sems], st : [Procs -> {"READY", "BLOCKED", "DEAD"}],
   in : [Procs -> SUBSET Sems], susp : SUBSET Procs]

\* The fields of a kernel state.
LEMMA KernelFields ==
  ASSUME NEW k \in SemKernel
  PROVE  /\ k.sem \in [Sems -> Semaphores] /\ k.held \in [Procs -> SUBSET Sems]
         /\ k.opened \in [Procs -> SUBSET Sems]
         /\ k.st \in [Procs -> {"READY", "BLOCKED", "DEAD"}]
         /\ k.in \in [Procs -> SUBSET Sems] /\ k.susp \in SUBSET Procs
BY DEF SemKernel

\* The fields of a semaphore.
LEMMA SemFields ==
  ASSUME NEW s \in Semaphores
  PROVE  /\ s.name \in Names \cup {NoName} /\ s.value \in Int
         /\ s.wait_queue \in Seq(Procs) /\ s.open_count \in Nat /\ s.initial \in Nat
BY DEF Semaphores

\* A semaphore with another value and queue.
WithQueue(s, v, q) == [s EXCEPT !.value = v, !.wait_queue = q]

\* Its other fields are kept.
LEMMA WithQueueFields ==
  ASSUME NEW s \in Semaphores, NEW v \in Int, NEW q \in Seq(Procs),
         NEW u, u = WithQueue(s, v, q)
  PROVE  /\ u \in Semaphores /\ u.value = v /\ u.wait_queue = q
         /\ u.open_count = s.open_count /\ u.initial = s.initial /\ u.name = s.name
<1>1. u \in Semaphores
  BY DEF WithQueue, Semaphores
<1>2. u.value = v /\ u.wait_queue = q
  BY DEF WithQueue, Semaphores
<1>3. u.open_count = s.open_count /\ u.initial = s.initial /\ u.name = s.name
  BY DEF WithQueue, Semaphores
<1> QED BY <1>1, <1>2, <1>3

\* The updates of the kernel state that the system calls make, field by field.
OpenIn(k, p, i, s) == [k EXCEPT !.sem[i] = s, !.opened[p] = @ \cup {i}]

\* sem_open: the slot and the caller's opened bit.
LEMMA OpenState ==
  ASSUME NEW k \in SemKernel, NEW p \in Procs, NEW i \in Sems, NEW s \in Semaphores,
         NEW r, r = OpenIn(k, p, i, s)
  PROVE  /\ r \in SemKernel /\ r.sem = [k.sem EXCEPT ![i] = s]
         /\ r.opened = [k.opened EXCEPT ![p] = @ \cup {i}]
         /\ r.held = k.held /\ r.st = k.st /\ r.in = k.in /\ r.susp = k.susp
BY DEF OpenIn, SemKernel

SleepIn(k, p, i, s) == 
  [k EXCEPT !.sem[i] = s, !.st[p] = "BLOCKED", !.in[p] = @ \cup {i}]

\* sem_wait that sleeps: the slot, the state and the call being made.
LEMMA SleepState ==
  ASSUME NEW k \in SemKernel, NEW p \in Procs, NEW i \in Sems, NEW s \in Semaphores,
         NEW r, r = SleepIn(k, p, i, s)
  PROVE  /\ r \in SemKernel /\ r.sem = [k.sem EXCEPT ![i] = s]
         /\ r.st = [k.st EXCEPT ![p] = "BLOCKED"]
         /\ r.in = [k.in EXCEPT ![p] = @ \cup {i}]
         /\ r.held = k.held /\ r.opened = k.opened /\ r.susp = k.susp
BY DEF SleepIn, SemKernel

TakeIn(k, p, i, s) == 
  [k EXCEPT !.sem[i] = s, !.held[p] = @ \cup {i}, !.in[p] = @ \cup {i}]

\* sem_wait that takes a unit: the slot, the held bit and the call.
LEMMA TakeState ==
  ASSUME NEW k \in SemKernel, NEW p \in Procs, NEW i \in Sems, NEW s \in Semaphores,
         NEW r, r = TakeIn(k, p, i, s)
  PROVE  /\ r \in SemKernel /\ r.sem = [k.sem EXCEPT ![i] = s]
         /\ r.held = [k.held EXCEPT ![p] = @ \cup {i}]
         /\ r.in = [k.in EXCEPT ![p] = @ \cup {i}]
         /\ r.st = k.st /\ r.opened = k.opened /\ r.susp = k.susp
BY DEF TakeIn, SemKernel

CloseIn(k, p, i, s) == 
  [k EXCEPT !.held[p] = @ \ {i}, !.opened[p] = @ \ {i}, !.in[p] = @ \ {i}, !.sem[i] = s]

\* sem_close: the slot and the three bits of the caller.
LEMMA CloseState ==
  ASSUME NEW k \in SemKernel, NEW p \in Procs, NEW i \in Sems, NEW s \in Semaphores,
         NEW r, r = CloseIn(k, p, i, s)
  PROVE  /\ r \in SemKernel /\ r.sem = [k.sem EXCEPT ![i] = s]
         /\ r.held = [k.held EXCEPT ![p] = @ \ {i}]
         /\ r.opened = [k.opened EXCEPT ![p] = @ \ {i}]
         /\ r.in = [k.in EXCEPT ![p] = @ \ {i}]
         /\ r.st = k.st /\ r.susp = k.susp
BY DEF CloseIn, SemKernel

LeaveIn(k, p, i) == [k EXCEPT !.held[p] = @ \ {i}, !.in[p] = @ \ {i}]

\* sem_post: the held bit is cleared and the section left.
LEMMA LeaveState ==
  ASSUME NEW k \in SemKernel, NEW p \in Procs, NEW i \in Sems,
         NEW r, r = LeaveIn(k, p, i)
  PROVE  /\ r \in SemKernel
         /\ r.held = [k.held EXCEPT ![p] = @ \ {i}]
         /\ r.in = [k.in EXCEPT ![p] = @ \ {i}]
         /\ r.sem = k.sem /\ r.st = k.st /\ r.opened = k.opened /\ r.susp = k.susp
BY DEF LeaveIn, SemKernel

SlotIn(k, i, s) == [k EXCEPT !.sem[i] = s]

\* A change to one slot only.
LEMMA SlotState ==
  ASSUME NEW k \in SemKernel, NEW i \in Sems, NEW s \in Semaphores,
         NEW r, r = SlotIn(k, i, s)
  PROVE  /\ r \in SemKernel /\ r.sem = [k.sem EXCEPT ![i] = s]
         /\ r.held = k.held /\ r.in = k.in /\ r.st = k.st /\ r.opened = k.opened
         /\ r.susp = k.susp
BY DEF SlotIn, SemKernel

DieIn(k, p) == [k EXCEPT !.st[p] = "DEAD"]

\* A process that dies.
LEMMA DieState ==
  ASSUME NEW k \in SemKernel, NEW p \in Procs, NEW r, r = DieIn(k, p)
  PROVE  /\ r \in SemKernel /\ r.st = [k.st EXCEPT ![p] = "DEAD"]
         /\ r.sem = k.sem /\ r.held = k.held /\ r.opened = k.opened /\ r.in = k.in
         /\ r.susp = k.susp
BY DEF DieIn, SemKernel

\* A unit handed to a process: the held bit, unless it is dead, and the wake up.
LEMMA GrantState ==
  ASSUME NEW k \in SemKernel, NEW i \in Sems, NEW p \in Procs,
         NEW r, r = grant(k, p, i)
  PROVE  /\ r \in SemKernel
         /\ k.st[p] # "DEAD" => r.held = [k.held EXCEPT ![p] = @ \cup {i}]
         /\ k.st[p] = "DEAD" => r.held = k.held
         /\ r.st = [k.st EXCEPT ![p] = IF @ = "BLOCKED" THEN "READY" ELSE @]
         /\ r.sem = k.sem /\ r.in = k.in /\ r.opened = k.opened /\ r.susp = k.susp
<1>1. k.st[p] \in {"READY", "BLOCKED", "DEAD"} /\ k.st = [k.st EXCEPT ![p] = k.st[p]]
  BY DEF SemKernel
<1> DEFINE h == [k EXCEPT !.held[p] = @ \cup {i}]
<1>2. /\ h \in SemKernel /\ h.held = [k.held EXCEPT ![p] = @ \cup {i}]
      /\ h.sem = k.sem /\ h.in = k.in /\ h.opened = k.opened /\ h.susp = k.susp
      /\ h.st = k.st
  BY DEF SemKernel
<1>3. k.st[p] = "DEAD" => r = k
  BY DEF grant
<1>4. k.st[p] # "DEAD" => r = wake(h, p)
  BY DEF grant
<1> HIDE DEF h
<1> DEFINE w == wake(h, p)
<1>5. /\ w \in SemKernel /\ w.st = [h.st EXCEPT ![p] = IF @ = "BLOCKED" THEN "READY" ELSE @]
      /\ w.sem = h.sem /\ w.in = h.in /\ w.opened = h.opened /\ w.susp = h.susp
      /\ w.held = h.held
  BY <1>2 DEF wake, SemKernel
<1> HIDE DEF w
<1>6. CASE k.st[p] = "DEAD"
  BY <1>1, <1>3, <1>6
<1>7. CASE k.st[p] # "DEAD"
  BY <1>2, <1>4, <1>5, <1>7 DEF w
<1> QED BY <1>6, <1>7

\* find_sem finds an open slot, free_sem one that is not open.
LEMMA FoundSlot ==
  ASSUME NEW k \in SemKernel, NEW name
  PROVE  /\ find_sem(k, name) # NULL =>
              /\ find_sem(k, name) \in Sems /\ k.sem[find_sem(k, name)].open_count > 0
              /\ k.sem[find_sem(k, name)].name = name
         /\ find_sem(k, name) = NULL =>
              \A i \in Sems : ~(k.sem[i].open_count > 0 /\ k.sem[i].name = name)
         /\ free_sem(k) # NULL => free_sem(k) \in Sems /\ k.sem[free_sem(k)].open_count = 0
         /\ free_sem(k) = NULL => \A i \in Sems : k.sem[i].open_count # 0
<1> DEFINE found == {i \in Sems : k.sem[i].open_count > 0 /\ k.sem[i].name = name}
           free == {i \in Sems : k.sem[i].open_count = 0}
<1>1. Sems \subseteq Nat
  BY SemaphoreAssumption DEF Sems
<1>2. found \in SUBSET Nat /\ free \in SUBSET Nat
  BY <1>1
<1>3. found # {} => Min(found) \in found
  <2> HIDE DEF found
  <2> QED BY <1>2, MinOfNat
<1>4. free # {} => Min(free) \in free
  <2> HIDE DEF free
  <2> QED BY <1>2, MinOfNat
<1>5. NULL \notin Sems
  BY <1>1 DEF NULL
<1>6. /\ find_sem(k, name) = IF found = {} THEN NULL ELSE Min(found)
      /\ free_sem(k) = IF free = {} THEN NULL ELSE Min(free)
  BY DEF find_sem, free_sem
<1>7. found \subseteq Sems /\ free \subseteq Sems
  OBVIOUS
<1>8. /\ find_sem(k, name) # NULL => find_sem(k, name) \in found
      /\ find_sem(k, name) = NULL => found = {}
  <2> HIDE DEF found
  <2> QED BY <1>3, <1>5, <1>6, <1>7
<1>9. /\ free_sem(k) # NULL => free_sem(k) \in free
      /\ free_sem(k) = NULL => free = {}
  <2> HIDE DEF free
  <2> QED BY <1>4, <1>5, <1>6, <1>7
<1> QED BY <1>8, <1>9

\* From k to r slot i is opened once more by p, or created.
OpenStep(k, r, p, name, v, i) ==
  /\ \/ /\ k.sem[i].open_count > 0
        /\ i = find_sem(k, name)
        /\ r.sem[i].value = k.sem[i].value
        /\ r.sem[i].wait_queue = k.sem[i].wait_queue
        /\ r.sem[i].initial = k.sem[i].initial
        /\ r.sem[i].open_count = k.sem[i].open_count + 1
        /\ r.sem[i].name = k.sem[i].name
     \/ /\ k.sem[i].open_count = 0
        /\ find_sem(k, name) = NULL
        /\ r.sem[i].name = name
        /\ r.sem[i].value = v /\ r.sem[i].wait_queue = <<>>
        /\ r.sem[i].open_count = 1 /\ r.sem[i].initial = v
  /\ r \in SemKernel
  /\ \A m \in Sems \ {i} : r.sem[m] = k.sem[m]
  /\ r.opened = [k.opened EXCEPT ![p] = @ \cup {i}]
  /\ r.held = k.held /\ r.st = k.st /\ r.in = k.in /\ r.susp = k.susp

\* sem_open without a slot to give does nothing.
LEMMA NoSlot ==
  ASSUME NEW k, NEW p, NEW name, NEW v, sem_open(k, p, name, v) # k
  PROVE  find_sem(k, name) # NULL \/ free_sem(k) # NULL
BY DEF sem_open

\* The effect of sem_open: one slot is opened once more, or created.
LEMMA OpenEffect ==
  ASSUME NEW k \in SemKernel, NEW p \in Procs, NEW name \in Names,
         NEW v \in InitialValues, NEW r, r = sem_open(k, p, name, v),
         find_sem(k, name) # NULL \/ free_sem(k) # NULL
  PROVE  \E i \in Sems : OpenStep(k, r, p, name, v, i)
<1> DEFINE f == find_sem(k, name)
           i == IF f # NULL THEN f ELSE free_sem(k)
           s == IF f # NULL THEN open_again(k.sem[i]) ELSE new_sem(name, v)
<1>1. i # NULL /\ r = OpenIn(k, p, i, s)
  BY DEF sem_open, OpenIn
<1>2. i \in Sems /\ (f # NULL => i = f /\ k.sem[i].open_count > 0)
      /\ (f = NULL => k.sem[i].open_count = 0)
  BY <1>1, FoundSlot
<1>3. k.sem[i] \in Semaphores /\ v \in Nat
  BY <1>2, KernelFields, SemaphoreAssumption
<1>4. /\ s \in Semaphores
      /\ f # NULL => /\ s.value = k.sem[i].value /\ s.wait_queue = k.sem[i].wait_queue
                     /\ s.initial = k.sem[i].initial
                     /\ s.open_count = k.sem[i].open_count + 1
                     /\ s.name = k.sem[i].name
      /\ f = NULL => /\ s.value = v /\ s.wait_queue = <<>>
                     /\ s.open_count = 1 /\ s.initial = v /\ s.name = name
  <2> HIDE DEF f
  <2>1. CASE f # NULL
    <3> HIDE DEF i
    <3> QED BY <1>3, <2>1 DEF Semaphores, open_again
  <2>2. CASE f = NULL
    <3> HIDE DEF i
    <3> QED BY <1>3, <2>2 DEF Semaphores, new_sem
  <2> QED BY <2>1, <2>2
<1> HIDE DEF s, i, f
<1>5. /\ r.sem = [k.sem EXCEPT ![i] = s]
      /\ r.opened = [k.opened EXCEPT ![p] = @ \cup {i}]
      /\ r.held = k.held /\ r.st = k.st /\ r.in = k.in /\ r.susp = k.susp
      /\ r \in SemKernel
  <2>1. s \in Semaphores /\ i \in Sems
    BY <1>2, <1>4
  <2> QED BY <1>1, <2>1, OpenState
<1>6. r.sem[i] = s /\ \A m \in Sems \ {i} : r.sem[m] = k.sem[m]
  BY <1>2, <1>5, KernelFields
<1>7. (f # NULL => i = find_sem(k, name)) /\ (f = NULL => find_sem(k, name) = NULL)
  BY <1>2 DEF f
<1> QED BY <1>2, <1>4, <1>5, <1>6, <1>7 DEF OpenStep

\* From k to r process p takes the resource of slot i, or goes to sleep there.
WaitStep(k, r, p, i) ==
  /\ r \in SemKernel
  /\ \A m \in Sems \ {i} : r.sem[m] = k.sem[m]
  /\ r.sem[i].value = k.sem[i].value - 1
  /\ r.sem[i].open_count = k.sem[i].open_count
  /\ r.sem[i].initial = k.sem[i].initial
  /\ r.sem[i].name = k.sem[i].name
  /\ r.in = [k.in EXCEPT ![p] = @ \cup {i}]
  /\ r.opened = k.opened /\ r.susp = k.susp
  /\ \/ /\ k.sem[i].value < 1
        /\ r.sem[i].wait_queue = queue_push(k.sem[i].wait_queue, p)
        /\ r.st = [k.st EXCEPT ![p] = "BLOCKED"] /\ r.held = k.held
     \/ /\ k.sem[i].value >= 1
        /\ r.sem[i].wait_queue = k.sem[i].wait_queue
        /\ r.st = k.st /\ r.held = [k.held EXCEPT ![p] = @ \cup {i}]

\* The effect of sem_wait: p takes the resource, or waits at the end of the queue.
LEMMA WaitEffect ==
  ASSUME NEW k \in SemKernel, NEW p \in Procs, NEW i \in Sems,
         NEW r, r = sem_wait(k, p, i)
  PROVE  WaitStep(k, r, p, i)
<1> DEFINE t == k.sem[i]
           q == IF t.value - 1 < 0 THEN queue_push(t.wait_queue, p) ELSE t.wait_queue
           s == take_or_queue(t, p)
<1>1. t \in Semaphores /\ t.value \in Int /\ q \in Seq(Procs)
  BY KernelFields, SemFields, QueuePush
<1>2. s = WithQueue(t, t.value - 1, q) /\ t.value - 1 \in Int
  BY <1>1 DEF take_or_queue, WithQueue
<1>3. /\ t.value < 1 => q = queue_push(t.wait_queue, p)
      /\ t.value >= 1 => q = t.wait_queue
  BY <1>1
<1> HIDE DEF s, t, q
<1>4. s \in Semaphores
  BY <1>1, <1>2, WithQueueFields
<1>5. /\ s.value = t.value - 1 /\ s.wait_queue = q
      /\ s.open_count = t.open_count /\ s.initial = t.initial /\ s.name = t.name
  BY <1>1, <1>2, WithQueueFields
<1>7. CASE t.value < 1
  <2>1. r = SleepIn(k, p, i, s)
    BY <1>1, <1>7 DEF sem_wait, s, t, SleepIn
  <2>2. /\ r \in SemKernel /\ r.sem = [k.sem EXCEPT ![i] = s]
        /\ r.st = [k.st EXCEPT ![p] = "BLOCKED"]
        /\ r.in = [k.in EXCEPT ![p] = @ \cup {i}]
        /\ r.held = k.held /\ r.opened = k.opened /\ r.susp = k.susp
    BY <1>4, <2>1, SleepState
  <2>3. r.sem[i] = s /\ \A m \in Sems \ {i} : r.sem[m] = k.sem[m]
    BY <2>2, KernelFields
  <2> QED BY <1>3, <1>5, <1>7, <2>2, <2>3 DEF t, WaitStep
<1>8. CASE t.value >= 1
  <2>1. r = TakeIn(k, p, i, s)
    BY <1>1, <1>8 DEF sem_wait, s, t, TakeIn
  <2>2. /\ r \in SemKernel /\ r.sem = [k.sem EXCEPT ![i] = s]
        /\ r.held = [k.held EXCEPT ![p] = @ \cup {i}]
        /\ r.in = [k.in EXCEPT ![p] = @ \cup {i}]
        /\ r.st = k.st /\ r.opened = k.opened /\ r.susp = k.susp
    BY <1>4, <2>1, TakeState
  <2>3. r.sem[i] = s /\ \A m \in Sems \ {i} : r.sem[m] = k.sem[m]
    BY <2>2, KernelFields
  <2> QED BY <1>3, <1>5, <1>8, <2>2, <2>3 DEF t, WaitStep
<1> QED BY <1>1, <1>7, <1>8

\* value++ on a semaphore, and the first waiter leaves if it gets the resource.
LEMMA Increment ==
  ASSUME NEW s \in Semaphores, NEW u, u = increment(s)
  PROVE  /\ u \in Semaphores /\ u.value = s.value + 1
         /\ u.open_count = s.open_count /\ u.initial = s.initial /\ u.name = s.name
         /\ hands_over(s) => /\ Len(s.wait_queue) > 0 /\ s.value < 0
                             /\ u.wait_queue = queue_pop(s.wait_queue)
         /\ ~hands_over(s) => /\ u.wait_queue = s.wait_queue
                              /\ Len(s.wait_queue) = 0 \/ s.value >= 0
<1> DEFINE q == IF hands_over(s) THEN queue_pop(s.wait_queue) ELSE s.wait_queue
<1>1. s.value \in Int /\ s.wait_queue \in Seq(Procs) /\ Len(s.wait_queue) \in Nat
  BY SemFields
<1>2. /\ hands_over(s) => Len(s.wait_queue) > 0 /\ s.value < 0
      /\ ~hands_over(s) => Len(s.wait_queue) = 0 \/ s.value >= 0
  BY <1>1 DEF hands_over
<1>3. q \in Seq(Procs)
  BY <1>1, <1>2, QueuePop
<1>4. u = WithQueue(s, s.value + 1, q) /\ s.value + 1 \in Int
  BY <1>1 DEF increment, WithQueue
<1> HIDE DEF q
<1>5. /\ u \in Semaphores /\ u.value = s.value + 1 /\ u.wait_queue = q
      /\ u.open_count = s.open_count /\ u.initial = s.initial /\ u.name = s.name
  BY <1>3, <1>4, WithQueueFields
<1> QED BY <1>2, <1>5 DEF q

\* From k to r slot i, which is s, is released by p.
PostStep(k, r, p, i, s) ==
  /\ r \in SemKernel
  /\ r.sem = [k.sem EXCEPT ![i] = increment(s)]
  /\ r.in = [k.in EXCEPT ![p] = @ \ {i}]
  /\ r.opened = k.opened /\ r.susp = k.susp
  /\ ~hands_over(s) => r.st = k.st /\ r.held = [k.held EXCEPT ![p] = @ \ {i}]
  /\ hands_over(s) =>
       LET x == Head(s.wait_queue)
           h == [k.held EXCEPT ![p] = @ \ {i}]
       IN  /\ x \in Procs
           /\ r.st = [k.st EXCEPT ![x] = IF @ = "BLOCKED" THEN "READY" ELSE @]
           /\ k.st[x] # "DEAD" => r.held = [h EXCEPT ![x] = @ \cup {i}]

\* The effect of sem_post: value++ and, if somebody waits, the first waiter wakes
\* up with the resource.
LEMMA PostEffect ==
  ASSUME NEW k \in SemKernel, NEW p \in Procs, NEW i \in Sems,
         NEW s, s = k.sem[i], NEW r, r = sem_post(k, p, i)
  PROVE  PostStep(k, r, p, i, s)
<1> DEFINE l == LeaveIn(k, p, i)
           u == increment(s)
           a == SlotIn(l, i, u)
           x == Head(s.wait_queue)
<1>1. s \in Semaphores /\ s.wait_queue \in Seq(Procs)
  BY KernelFields, SemFields
<1>2. /\ l \in SemKernel
      /\ l.held = [k.held EXCEPT ![p] = @ \ {i}]
      /\ l.in = [k.in EXCEPT ![p] = @ \ {i}]
      /\ l.sem = k.sem /\ l.st = k.st /\ l.opened = k.opened /\ l.susp = k.susp
  <2> HIDE DEF l
  <2> QED BY LeaveState DEF l
<1>3. u \in Semaphores /\ (hands_over(s) => Len(s.wait_queue) > 0)
  BY <1>1, Increment
<1>4. r = IF hands_over(s) THEN grant(a, x, i) ELSE a
  BY <1>2 DEF sem_post, release, LeaveIn, SlotIn
<1> HIDE DEF u, l
<1>5. /\ a \in SemKernel /\ a.sem = [k.sem EXCEPT ![i] = u]
      /\ a.held = [k.held EXCEPT ![p] = @ \ {i}] /\ a.in = [k.in EXCEPT ![p] = @ \ {i}]
      /\ a.st = k.st /\ a.opened = k.opened /\ a.susp = k.susp
  <2>1. /\ a \in SemKernel /\ a.sem = [l.sem EXCEPT ![i] = u]
        /\ a.held = l.held /\ a.in = l.in /\ a.st = l.st /\ a.opened = l.opened
        /\ a.susp = l.susp
    BY <1>2, <1>3, SlotState
  <2> HIDE DEF a
  <2> QED BY <1>2, <2>1
<1> HIDE DEF a
<1>6. CASE ~hands_over(s)
  BY <1>4, <1>5, <1>6 DEF u, PostStep
<1>7. CASE hands_over(s)
  <2>1. x \in Procs
    BY <1>1, <1>3, <1>7, QueuePop
  <2> HIDE DEF x
  <2>2. /\ r \in SemKernel
        /\ a.st[x] # "DEAD" => r.held = [a.held EXCEPT ![x] = @ \cup {i}]
        /\ r.st = [a.st EXCEPT ![x] = IF @ = "BLOCKED" THEN "READY" ELSE @]
        /\ r.sem = a.sem /\ r.in = a.in /\ r.opened = a.opened /\ r.susp = a.susp
    <3>1. r = grant(a, x, i)
      BY <1>4, <1>7
    <3>2. a \in SemKernel
      BY <1>5
    <3> QED BY <2>1, <3>1, <3>2, GrantState
  <2>3. /\ k.st[x] # "DEAD" => r.held = [[k.held EXCEPT ![p] = @ \ {i}] EXCEPT ![x] = @ \cup {i}]
        /\ r.st = [k.st EXCEPT ![x] = IF @ = "BLOCKED" THEN "READY" ELSE @]
    BY <1>5, <2>2
  <2> QED BY <1>5, <1>7, <2>1, <2>2, <2>3 DEF u, x, PostStep
<1> QED BY <1>6, <1>7

\* One reference less to a semaphore.
LEMMA CloseRef ==
  ASSUME NEW t \in Semaphores, t.open_count > 0, NEW s, s = close_ref(t)
  PROVE  /\ s \in Semaphores /\ s.value = t.value /\ s.initial = t.initial
         /\ s.open_count = t.open_count - 1
         /\ s.wait_queue \in {<<>>, t.wait_queue}
         /\ s.open_count > 0 => s.wait_queue = t.wait_queue
<1>1. t.open_count \in Nat
  BY SemFields
<1>2. CASE t.open_count = 1
  <2> DEFINE e == <<>>
             w == [t EXCEPT !.open_count = 0, !.name = NoName, !.wait_queue = e]
  <2>1. s = w /\ e \in Seq(Procs)
    BY <1>1, <1>2 DEF close_ref
  <2> HIDE DEF e
  <2>2. w \in Semaphores
    BY <2>1 DEF Semaphores
  <2>3. w.value = t.value /\ w.initial = t.initial
    BY DEF Semaphores
  <2>4. w.open_count = 0 /\ w.wait_queue = e
    BY DEF Semaphores
  <2> HIDE DEF w
  <2> QED BY <1>2, <2>1, <2>2, <2>3, <2>4 DEF e
<1>3. CASE t.open_count > 1
  <2> DEFINE n == t.open_count - 1
             w == [t EXCEPT !.open_count = n]
  <2>1. s = w
    BY <1>1, <1>3 DEF close_ref
  <2>2. n \in Nat
    BY <1>1, <1>3
  <2> HIDE DEF n
  <2>3. w \in Semaphores
    BY <2>2 DEF Semaphores
  <2>4. w.value = t.value /\ w.initial = t.initial
    BY DEF Semaphores
  <2>5. w.open_count = n /\ w.wait_queue = t.wait_queue
    BY DEF Semaphores
  <2> HIDE DEF w
  <2> QED BY <2>1, <2>3, <2>4, <2>5 DEF n
<1> QED BY <1>1, <1>2, <1>3

\* From k to r process p gives its reference to slot i back.
CloseStep(k, r, p, i) ==
  /\ r \in SemKernel
  /\ \A m \in Sems \ {i} : r.sem[m] = k.sem[m]
  /\ r.sem[i].value = k.sem[i].value /\ r.sem[i].initial = k.sem[i].initial
  /\ r.sem[i].open_count = k.sem[i].open_count - 1
  /\ r.sem[i].wait_queue \in {<<>>, k.sem[i].wait_queue}
  /\ r.sem[i].open_count > 0 => r.sem[i].wait_queue = k.sem[i].wait_queue
  /\ r.held = [k.held EXCEPT ![p] = @ \ {i}]
  /\ r.opened = [k.opened EXCEPT ![p] = @ \ {i}]
  /\ r.in = [k.in EXCEPT ![p] = @ \ {i}]
  /\ r.st = k.st /\ r.susp = k.susp

\* The effect of sem_close: one reference less, and a free slot without any.
LEMMA CloseEffect ==
  ASSUME NEW k \in SemKernel, NEW p \in Procs, NEW i \in Sems,
         k.sem[i].open_count > 0, NEW r, r = sem_close(k, p, i)
  PROVE  CloseStep(k, r, p, i)
<1> DEFINE t == k.sem[i]
           s == close_ref(t)
<1>1. t \in Semaphores /\ t.open_count > 0
  BY KernelFields
<1> HIDE DEF t
<1>4. /\ s \in Semaphores /\ s.value = t.value /\ s.initial = t.initial
      /\ s.open_count = t.open_count - 1
      /\ s.wait_queue \in {<<>>, t.wait_queue}
      /\ s.open_count > 0 => s.wait_queue = t.wait_queue
  BY <1>1, CloseRef
<1>5. r = CloseIn(k, p, i, s)
  BY DEF sem_close, CloseIn, t
<1> HIDE DEF s
<1>6. /\ r \in SemKernel /\ r.sem = [k.sem EXCEPT ![i] = s]
      /\ r.held = [k.held EXCEPT ![p] = @ \ {i}]
      /\ r.opened = [k.opened EXCEPT ![p] = @ \ {i}]
      /\ r.in = [k.in EXCEPT ![p] = @ \ {i}]
      /\ r.st = k.st /\ r.susp = k.susp
  BY <1>4, <1>5, CloseState
<1>7. r.sem[i] = s /\ \A m \in Sems \ {i} : r.sem[m] = k.sem[m]
  BY <1>6, KernelFields
<1> QED BY <1>4, <1>6, <1>7 DEF t, CloseStep

\* A reference given back by a process that dies.
LEMMA DropRef ==
  ASSUME NEW t \in Semaphores, t.open_count > 0, NEW b \in BOOLEAN, NEW s, s = drop_ref(t, b)
  PROVE  /\ s \in Semaphores /\ s.value = t.value /\ s.initial = t.initial
         /\ s.wait_queue = t.wait_queue /\ s.name = t.name
         /\ b => s.open_count = t.open_count - 1
         /\ ~b => s.open_count = t.open_count
<1> DEFINE n == t.open_count - 1
           w == [t EXCEPT !.open_count = n]
<1>1. n \in Nat
  BY SemFields
<1>2. b => s = w
  BY DEF drop_ref
<1>3. ~b => s = t
  BY DEF drop_ref
<1> HIDE DEF n
<1>4. w \in Semaphores
  BY <1>1 DEF Semaphores
<1>5. w.value = t.value /\ w.initial = t.initial /\ w.name = t.name
  BY DEF Semaphores
<1>6. w.open_count = n /\ w.wait_queue = t.wait_queue
  BY DEF Semaphores
<1> HIDE DEF w
<1> QED BY <1>2, <1>3, <1>4, <1>5, <1>6 DEF n

\* What the death of p does to one slot.
LEMMA CleanSem ==
  ASSUME NEW k \in SemKernel, NEW p \in Procs, NEW i \in Sems,
         NEW t, t = k.sem[i], NEW u, u = clean_sem(k, p, i)
  PROVE  /\ u \in Semaphores /\ u.initial = t.initial /\ u.name = t.name
         /\ t.open_count = 0 => u = t
         /\ t.open_count > 0 =>
              /\ i \in k.opened[p] => u.open_count = t.open_count - 1
              /\ i \notin k.opened[p] => u.open_count = t.open_count
              /\ InQueue(t.wait_queue, p) =>
                   /\ u.wait_queue = queue_remove_pid(t.wait_queue, p)
                   /\ u.value = t.value + 1
              /\ ~InQueue(t.wait_queue, p) /\ i \in k.held[p] =>
                   /\ u.value = t.value + 1
                   /\ u.wait_queue = IF hands_over(t) THEN queue_pop(t.wait_queue)
                                                      ELSE t.wait_queue
              /\ ~InQueue(t.wait_queue, p) /\ i \notin k.held[p] =>
                   u.value = t.value /\ u.wait_queue = t.wait_queue
<1> DEFINE b == i \in k.opened[p]
           s == drop_ref(t, b)
<1>1. /\ t \in Semaphores /\ t.open_count \in Nat /\ t.value \in Int
      /\ t.wait_queue \in Seq(Procs) /\ b \in BOOLEAN
  BY KernelFields, SemFields
<1>2. CASE t.open_count = 0
  <2>1. u = t
    BY <1>1, <1>2 DEF clean_sem
  <2> QED BY <1>1, <1>2, <2>1
<1>3. CASE t.open_count > 0
  <2>1. u = IF InQueue(s.wait_queue, p) THEN unqueue(s, p)
            ELSE IF ~InQueue(t.wait_queue, p) /\ i \in k.held[p] THEN unhold(s) ELSE s
    BY <1>1, <1>3 DEF clean_sem, Holds
  <2> HIDE DEF b, s
  <2>2. /\ s \in Semaphores /\ s.value = t.value /\ s.initial = t.initial
        /\ s.wait_queue = t.wait_queue /\ s.name = t.name
        /\ b => s.open_count = t.open_count - 1
        /\ ~b => s.open_count = t.open_count
    BY <1>1, <1>3, DropRef DEF s
  <2>3. CASE InQueue(t.wait_queue, p)
    <3> DEFINE q == queue_remove_pid(s.wait_queue, p)
               v == s.value + 1
               w == [s EXCEPT !.wait_queue = q, !.value = v]
    <3>1. u = w
      BY <2>1, <2>2, <2>3 DEF unqueue
    <3>2. q \in Seq(Procs) /\ v \in Int
      BY <1>1, <2>2, QueueRemove
    <3>3. q = queue_remove_pid(t.wait_queue, p) /\ v = t.value + 1
      BY <2>2
    <3> HIDE DEF q, v
    <3>4. w \in Semaphores
      BY <2>2, <3>2 DEF Semaphores
    <3>5. w.value = v /\ w.wait_queue = q
      BY <2>2 DEF Semaphores
    <3>6. w.open_count = s.open_count /\ w.initial = s.initial /\ w.name = s.name
      BY <2>2 DEF Semaphores
    <3> HIDE DEF w
    <3> QED BY <1>3, <2>2, <2>3, <3>1, <3>3, <3>4, <3>5, <3>6 DEF b
  <2>4. CASE ~InQueue(t.wait_queue, p) /\ i \in k.held[p]
    <3>1. u = increment(s)
      BY <2>1, <2>2, <2>4 DEF unhold
    <3>2. hands_over(s) <=> hands_over(t)
      BY <2>2 DEF hands_over
    <3>3. /\ u \in Semaphores /\ u.value = s.value + 1
          /\ u.open_count = s.open_count /\ u.initial = s.initial /\ u.name = s.name
          /\ hands_over(s) => u.wait_queue = queue_pop(s.wait_queue)
          /\ ~hands_over(s) => u.wait_queue = s.wait_queue
      BY <2>2, <3>1, Increment
    <3> QED BY <1>3, <2>2, <2>4, <3>2, <3>3 DEF b
  <2>5. CASE ~InQueue(t.wait_queue, p) /\ i \notin k.held[p]
    <3>1. u = s
      BY <2>1, <2>2, <2>5
    <3> QED BY <1>3, <2>2, <2>5, <3>1 DEF b
  <2> QED BY <2>3, <2>4, <2>5
<1> QED BY <1>1, <1>2, <1>3

\* From k to r process p dies.
KillStep(k, r, p) ==
  /\ r \in SemKernel
  /\ r.sem = [i \in Sems |-> clean_sem(k, p, i)]
  /\ r.held = [x \in Procs |-> IF x = p THEN {}
                               ELSE IF k.st[x] = "DEAD" THEN k.held[x]
                               ELSE k.held[x] \cup inherited(k, p, x)]
  /\ r.opened = [k.opened EXCEPT ![p] = {}]
  /\ r.st = [x \in Procs |->
               IF x = p THEN "DEAD"
               ELSE IF k.st[x] = "BLOCKED" /\ inherited(k, p, x) # {}
               THEN "READY" ELSE k.st[x]]
  /\ r.in = [k.in EXCEPT ![p] = {}]
  /\ r.susp = k.susp \ {p}

\* The effect of a death, field by field.
LEMMA KillEffect ==
  ASSUME NEW k \in SemKernel, NEW p \in Procs, NEW r, r = process_kill(k, p)
  PROVE  KillStep(k, r, p)
<1> DEFINE c == sem_cleanup_for_process(k, p)
<1>1. \A i \in Sems : clean_sem(k, p, i) \in Semaphores
  BY CleanSem
<1>2. \A x \in Procs : inherited(k, p, x) \subseteq Sems
  BY DEF inherited
<1>3. /\ c.sem = [i \in Sems |-> clean_sem(k, p, i)]
      /\ c.held = [x \in Procs |-> IF x = p THEN {}
                                   ELSE IF k.st[x] = "DEAD" THEN k.held[x]
                                   ELSE k.held[x] \cup inherited(k, p, x)]
      /\ c.opened = [k.opened EXCEPT ![p] = {}]
      /\ c.st = [x \in Procs |->
                   IF k.st[x] = "BLOCKED" /\ x # p /\ inherited(k, p, x) # {}
                   THEN "READY" ELSE k.st[x]]
      /\ c.in = [k.in EXCEPT ![p] = {}]
      /\ c.susp = k.susp \ {p}
  BY DEF sem_cleanup_for_process
<1>4. c \in SemKernel
  <2>1. c.sem \in [Sems -> Semaphores]
    BY <1>1, <1>3
  <2>2. c.held \in [Procs -> SUBSET Sems]
    BY <1>2, <1>3, KernelFields
  <2>3. c.opened \in [Procs -> SUBSET Sems] /\ c.in \in [Procs -> SUBSET Sems]
    BY <1>3, KernelFields
  <2>4. c.st \in [Procs -> {"READY", "BLOCKED", "DEAD"}]
    BY <1>3, KernelFields
  <2>5. c.susp \in SUBSET Procs
    BY <1>3, KernelFields
  <2>6. c = [sem |-> c.sem, held |-> c.held, opened |-> c.opened, st |-> c.st,
             in |-> c.in, susp |-> c.susp]
    BY DEF sem_cleanup_for_process
  <2> HIDE DEF c
  <2> QED BY <2>1, <2>2, <2>3, <2>4, <2>5, <2>6 DEF SemKernel
<1>5. r = DieIn(c, p)
  BY DEF process_kill, DieIn
<1> HIDE DEF c
<1>6. /\ r \in SemKernel /\ r.st = [c.st EXCEPT ![p] = "DEAD"]
      /\ r.sem = c.sem /\ r.held = c.held /\ r.opened = c.opened /\ r.in = c.in
      /\ r.susp = c.susp
  BY <1>4, <1>5, DieState
<1>9. r.st = [x \in Procs |->
                IF x = p THEN "DEAD"
                ELSE IF k.st[x] = "BLOCKED" /\ inherited(k, p, x) # {}
                THEN "READY" ELSE k.st[x]]
  BY <1>3, <1>6
<1> QED BY <1>3, <1>6, <1>9 DEF KillStep

(***************************************************************************)
(* The inductive invariant                                                 *)
(***************************************************************************)
Sleeps(k, x, i) == InQueue(k.sem[i].wait_queue, x)
Openers(k, i) == {x \in Procs : i \in k.opened[x]}
Holders(k, i) == {x \in Procs : i \in k.held[x]}

\* A process has one place in one queue at most.
QueuesOK(k) ==
  /\ \A i \in Sems : Injective(k.sem[i].wait_queue)
  /\ \A x \in Procs, i, m \in Sems : Sleeps(k, x, i) /\ Sleeps(k, x, m) => i = m

\* Who sleeps in a queue is BLOCKED for that reason and has the semaphore open;
\* who is BLOCKED for another reason is not in a queue; the dead have nothing.
SleepersOK(k) ==
  \A x \in Procs :
    /\ \A i \in Sems : Sleeps(k, x, i) =>
         k.st[x] = "BLOCKED" /\ x \notin k.susp /\ i \in k.opened[x]
    /\ k.st[x] = "BLOCKED" /\ x \notin k.susp => \E i \in Sems : Sleeps(k, x, i)
    /\ x \in k.susp => k.st[x] = "BLOCKED"
    /\ k.st[x] = "DEAD" => k.opened[x] = {} /\ k.held[x] = {} /\ k.in[x] = {}

OpenOK(k) == \A i \in Sems : k.sem[i].open_count = Cardinality(Openers(k, i))

Debt(s) == IF s.value < 0 THEN -s.value ELSE 0

DebtOK(k) ==
  \A i \in Sems : k.sem[i].open_count > 0 => Len(k.sem[i].wait_queue) = Debt(k.sem[i])

\* Under lock usage: only openers enter, who sleeps has entered, and the held
\* bits are exactly the entries that do not sleep.
BitsOK(k) ==
  \A x \in Procs, i \in Sems :
    /\ i \in k.in[x] => i \in k.opened[x]
    /\ Sleeps(k, x, i) => i \in k.in[x]
    /\ i \in k.held[x] <=> i \in k.in[x] /\ ~Sleeps(k, x, i)

ConservedOK(k) ==
  \A i \in Sems : k.sem[i].open_count > 0 =>
    k.sem[i].initial = k.sem[i].value + Len(k.sem[i].wait_queue) + Cardinality(Holders(k, i))

SemInv(k) == /\ k \in SemKernel
             /\ QueuesOK(k)
             /\ SleepersOK(k)
             /\ OpenOK(k)
             /\ DebtOK(k)
             /\ Usage = "lock" => BitsOK(k) /\ ConservedOK(k)

\* Sets of processes are finite.
LEMMA ProcSets ==
  ASSUME NEW k, NEW i
  PROVE  /\ Openers(k, i) \in SUBSET Procs /\ Holders(k, i) \in SUBSET Procs
         /\ IsFiniteSet(Openers(k, i)) /\ Cardinality(Openers(k, i)) \in Nat
         /\ IsFiniteSet(Holders(k, i)) /\ Cardinality(Holders(k, i)) \in Nat
<1>1. Openers(k, i) \in SUBSET Procs /\ Holders(k, i) \in SUBSET Procs
  BY DEF Openers, Holders
<1> QED BY <1>1, SemaphoreAssumption, FS_Subset, FS_CardinalityType

\* Two kernel states with the same fields are the same.
LEMMA SameKernel ==
  ASSUME NEW a \in SemKernel, NEW b \in SemKernel, a.sem = b.sem, a.held = b.held,
         a.opened = b.opened, a.st = b.st, a.in = b.in, a.susp = b.susp
  PROVE  a = b
BY DEF SemKernel

\* sem_open keeps the invariant: a new slot had no opener and so no sleeper.
LEMMA OpenInv ==
  ASSUME NEW k, SemInv(k), NEW p \in Procs, NEW name \in Names, NEW v \in InitialValues,
         k.st[p] = "READY", NEW r, r = sem_open(k, p, name, v),
         find_sem(k, name) # NULL => find_sem(k, name) \notin k.opened[p]
  PROVE  SemInv(r)
<1>1. CASE r = k
  BY <1>1
<1>2. CASE r # k
  <2>1. k \in SemKernel
    BY DEF SemInv
  <2>2. PICK i \in Sems : OpenStep(k, r, p, name, v, i)
    BY <1>2, <2>1, NoSlot, OpenEffect
  <2>3. /\ r \in SemKernel /\ v \in Nat
        /\ \A x \in Procs, m \in Sems : m \in r.opened[x] <=>
             m \in k.opened[x] \/ (x = p /\ m = i)
    BY <2>1, <2>2, KernelFields, SemaphoreAssumption DEF OpenStep
  <2>4. k.sem[i].open_count = 0 => Openers(k, i) = {} /\ \A x \in Procs : ~Sleeps(k, x, i)
    <3>1. k.sem[i].open_count = Cardinality(Openers(k, i))
      BY DEF SemInv, OpenOK
    <3>2. Cardinality(Openers(k, i)) = 0 => Openers(k, i) = {}
      BY ProcSets, FS_EmptySet
    <3>3. \A x \in Procs : Sleeps(k, x, i) => x \in Openers(k, i)
      BY DEF SemInv, SleepersOK, Openers
    <3> QED BY <3>1, <3>2, <3>3
  <2>5. k.sem[i].open_count > 0 => p \notin Openers(k, i)
    <3>1. i # NULL
      BY SemaphoreAssumption DEF Sems, NULL
    <3> QED BY <2>2, <3>1 DEF Openers, OpenStep
  <2>6. \A x \in Procs, m \in Sems : Sleeps(r, x, m) <=> Sleeps(k, x, m)
    <3>1. \A x : ~InQueue(<<>>, x)
      BY DEF InQueue
    <3> QED BY <2>2, <2>4, <3>1 DEF OpenStep, Sleeps
  <2>7. QueuesOK(r)
    <3>1. Injective(<<>>)
      BY DEF Injective
    <3> QED BY <2>2, <2>6, <3>1 DEF OpenStep, SemInv, QueuesOK
  <2>8. SleepersOK(r)
    BY <2>2, <2>3, <2>6 DEF OpenStep, SemInv, SleepersOK
  <2>9. OpenOK(r)
    <3>1. \A m \in Sems \ {i} : Openers(r, m) = Openers(k, m)
      BY <2>3 DEF Openers
    <3>2. Openers(r, i) = Openers(k, i) \cup {p}
      BY <2>3 DEF Openers
    <3>3. p \notin Openers(k, i)
      BY <2>2, <2>4, <2>5 DEF OpenStep
    <3>4. Cardinality(Openers(r, i)) = Cardinality(Openers(k, i)) + 1
      BY <3>2, <3>3, ProcSets, FS_AddElement
    <3> QED BY <2>2, <3>1, <3>4 DEF OpenStep, SemInv, OpenOK
  <2>10. DebtOK(r)
    BY <2>2, <2>3 DEF OpenStep, SemInv, DebtOK, Debt
  <2>11. ASSUME Usage = "lock" PROVE BitsOK(r) /\ ConservedOK(r)
    <3>1. BitsOK(r)
      BY <2>2, <2>3, <2>6, <2>11 DEF OpenStep, SemInv, BitsOK
    <3>2. \A m \in Sems : Holders(r, m) = Holders(k, m)
      BY <2>2 DEF OpenStep, Holders
    <3>3. k.sem[i].open_count = 0 => Cardinality(Holders(k, i)) = 0
      <4>1. Holders(k, i) \subseteq Openers(k, i)
        BY <2>11 DEF SemInv, BitsOK, Holders, Openers
      <4> QED BY <2>4, <4>1, FS_EmptySet
    <3>4. Len(<<>>) = 0
      OBVIOUS
    <3>5. k.sem[i].open_count \in Nat
      BY <2>1, SemFields DEF SemKernel
    <3>6. ASSUME k.sem[i].open_count > 0
          PROVE  r.sem[i].initial = r.sem[i].value + Len(r.sem[i].wait_queue)
                                      + Cardinality(Holders(r, i))
      BY <2>2, <2>11, <3>2, <3>6 DEF OpenStep, SemInv, ConservedOK
    <3>7. ASSUME k.sem[i].open_count = 0
          PROVE  r.sem[i].initial = r.sem[i].value + Len(r.sem[i].wait_queue)
                                      + Cardinality(Holders(r, i))
      BY <2>2, <2>3, <3>2, <3>3, <3>4, <3>7 DEF OpenStep
    <3>8. \A m \in Sems \ {i} : r.sem[m] = k.sem[m]
      BY <2>2 DEF OpenStep
    <3>9. ConservedOK(r)
      BY <2>11, <3>2, <3>5, <3>6, <3>7, <3>8 DEF SemInv, ConservedOK
    <3> QED BY <3>1, <3>9
  <2> QED BY <2>3, <2>7, <2>8, <2>9, <2>10, <2>11 DEF SemInv
<1> QED BY <1>1, <1>2

\* The sum that a wait, a post and a death keep.
LEMMA Balance ==
  ASSUME NEW n, NEW v \in Int, NEW l \in Nat, NEW c \in Nat, n = v + l + c,
         NEW w, NEW j, NEW d,
         \/ w = v /\ j = l /\ d = c
         \/ w = v - 1 /\ j = l + 1 /\ d = c
         \/ w = v - 1 /\ j = l /\ d = c + 1
         \/ w = v + 1 /\ j = l - 1 /\ d = c
         \/ w = v + 1 /\ j = l /\ d = c - 1
  PROVE  n = w + j + d
OBVIOUS

\* sem_wait keeps the invariant: who can run sleeps in no queue yet.
LEMMA WaitInv ==
  ASSUME NEW k, SemInv(k), NEW p \in Procs, NEW i \in Sems, k.sem[i].open_count > 0,
         k.st[p] = "READY", i \in k.opened[p], Usage = "lock" => i \notin k.in[p],
         NEW r, r = sem_wait(k, p, i)
  PROVE  SemInv(r)
<1> DEFINE q == k.sem[i].wait_queue
<1>1. k \in SemKernel /\ WaitStep(k, r, p, i) /\ r \in SemKernel
  BY WaitEffect DEF SemInv, WaitStep
<1>2. /\ q \in Seq(Procs) /\ k.sem[i].value \in Int /\ Len(q) \in Nat /\ Injective(q)
      /\ \A m \in Sems : ~Sleeps(k, p, m)
      /\ p \notin k.susp
  BY <1>1, KernelFields, SemFields DEF SemInv, QueuesOK, SleepersOK
<1>3. /\ \A m \in Sems \ {i} : r.sem[m] = k.sem[m]
      /\ r.sem[i].value = k.sem[i].value - 1
      /\ r.sem[i].open_count = k.sem[i].open_count
      /\ r.sem[i].initial = k.sem[i].initial
      /\ r.opened = k.opened /\ r.susp = k.susp
      /\ \A x \in Procs, m \in Sems : m \in r.in[x] <=> m \in k.in[x] \/ (x = p /\ m = i)
  BY <1>1, KernelFields DEF WaitStep
<1>4. OpenOK(r)
  <2>1. \A m \in Sems : Openers(r, m) = Openers(k, m)
    BY <1>3 DEF Openers
  <2> QED BY <1>3, <2>1 DEF SemInv, OpenOK
<1>5. CASE k.sem[i].value < 1
  <2>1. /\ r.sem[i].wait_queue = queue_push(q, p) /\ r.held = k.held
        /\ \A x \in Procs \ {p} : r.st[x] = k.st[x]
        /\ r.st[p] = "BLOCKED"
    BY <1>1, <1>2, <1>5, KernelFields DEF WaitStep
  <2>2. /\ Injective(r.sem[i].wait_queue) /\ Len(r.sem[i].wait_queue) = Len(q) + 1
        /\ \A x \in Procs : InQueue(r.sem[i].wait_queue, x) <=> InQueue(q, x) \/ x = p
    <3>1. ~InQueue(q, p)
      BY <1>2 DEF Sleeps
    <3> HIDE DEF q
    <3> QED BY <1>2, <2>1, <3>1, QueuePush
  <2>3. \A x \in Procs, m \in Sems : Sleeps(r, x, m) <=> Sleeps(k, x, m) \/ (x = p /\ m = i)
    BY <1>3, <2>2 DEF Sleeps
  <2>4. QueuesOK(r)
    BY <1>2, <1>3, <2>2, <2>3 DEF SemInv, QueuesOK
  <2>5. SleepersOK(r)
    <3>1. \A x \in Procs \ {p} : r.in[x] = k.in[x]
      BY <1>1, KernelFields DEF WaitStep
    <3>2. SleepersOK(k)
      BY DEF SemInv
    <3> SUFFICES ASSUME NEW x \in Procs
                 PROVE  /\ \A m \in Sems : Sleeps(r, x, m) =>
                             r.st[x] = "BLOCKED" /\ x \notin r.susp /\ m \in r.opened[x]
                        /\ r.st[x] = "BLOCKED" /\ x \notin r.susp => \E m \in Sems : Sleeps(r, x, m)
                        /\ x \in r.susp => r.st[x] = "BLOCKED"
                        /\ r.st[x] = "DEAD" => r.opened[x] = {} /\ r.held[x] = {} /\ r.in[x] = {}
      BY DEF SleepersOK
    <3>3. CASE x = p
      BY <1>2, <1>3, <2>1, <2>3, <3>3
    <3>4. CASE x # p
      BY <1>3, <2>1, <2>3, <3>1, <3>2, <3>4 DEF SleepersOK
    <3> QED BY <3>3, <3>4
  <2>6. DebtOK(r)
    <3>1. Len(q) = Debt(k.sem[i])
      BY DEF SemInv, DebtOK
    <3>2. Len(r.sem[i].wait_queue) = Debt(r.sem[i])
      BY <1>2, <1>3, <1>5, <2>2, <3>1 DEF Debt
    <3> QED BY <1>3, <3>2 DEF SemInv, DebtOK
  <2>7. ASSUME Usage = "lock" PROVE BitsOK(r) /\ ConservedOK(r)
    <3>1. BitsOK(r)
      BY <1>3, <2>1, <2>3, <2>7 DEF SemInv, BitsOK
    <3>2. \A m \in Sems : Holders(r, m) = Holders(k, m)
      BY <2>1 DEF Holders
    <3>3. k.sem[i].initial = k.sem[i].value + Len(q) + Cardinality(Holders(k, i))
      BY <2>7 DEF SemInv, ConservedOK
    <3>4. r.sem[i].initial = r.sem[i].value + Len(r.sem[i].wait_queue) + Cardinality(Holders(r, i))
      <4>1. Cardinality(Holders(k, i)) \in Nat
        BY ProcSets
      <4>2. Holders(r, i) = Holders(k, i)
        BY <3>2
      <4> HIDE DEF q
      <4>3. /\ k.sem[i].value \in Int /\ Len(q) \in Nat
            /\ r.sem[i].value = k.sem[i].value - 1 /\ r.sem[i].initial = k.sem[i].initial
            /\ Len(r.sem[i].wait_queue) = Len(q) + 1
        BY <1>2, <1>3, <2>2
      <4> QED BY <3>3, <4>1, <4>2, <4>3, Balance, SMTT(60)
    <3> QED BY <1>3, <2>7, <3>1, <3>2, <3>4 DEF SemInv, ConservedOK
  <2> QED BY <1>1, <1>4, <2>4, <2>5, <2>6, <2>7 DEF SemInv
<1>6. CASE k.sem[i].value >= 1
  <2>1. /\ r.sem[i].wait_queue = q /\ r.st = k.st
        /\ \A x \in Procs, m \in Sems : m \in r.held[x] <=> m \in k.held[x] \/ (x = p /\ m = i)
        /\ \A x \in Procs : r.held[x] = {} => k.held[x] = {}
        /\ \A x \in Procs \ {p} : r.held[x] = k.held[x] /\ r.in[x] = k.in[x]
    BY <1>1, <1>2, <1>6, KernelFields DEF WaitStep
  <2>2. \A x \in Procs, m \in Sems : Sleeps(r, x, m) <=> Sleeps(k, x, m)
    BY <1>3, <2>1 DEF Sleeps
  <2>3. QueuesOK(r)
    BY <1>3, <2>1, <2>2 DEF SemInv, QueuesOK
  <2>4. SleepersOK(r)
    BY <1>3, <2>1, <2>2 DEF SemInv, SleepersOK
  <2>5. DebtOK(r)
    <3>1. Len(q) = Debt(k.sem[i])
      BY DEF SemInv, DebtOK
    <3>2. Len(r.sem[i].wait_queue) = Debt(r.sem[i])
      BY <1>2, <1>3, <1>6, <2>1, <3>1 DEF Debt
    <3> QED BY <1>3, <3>2 DEF SemInv, DebtOK
  <2>6. ASSUME Usage = "lock" PROVE BitsOK(r) /\ ConservedOK(r)
    <3>1. BitsOK(r)
      BY <1>2, <1>3, <2>1, <2>2, <2>6 DEF SemInv, BitsOK
    <3>2. \A m \in Sems \ {i} : Holders(r, m) = Holders(k, m)
      BY <2>1 DEF Holders
    <3>3. Holders(r, i) = Holders(k, i) \cup {p} /\ p \notin Holders(k, i)
      BY <2>1, <2>6 DEF Holders, SemInv, BitsOK
    <3>4. Cardinality(Holders(r, i)) = Cardinality(Holders(k, i)) + 1
      BY <3>3, ProcSets, FS_AddElement
    <3>5. k.sem[i].initial = k.sem[i].value + Len(q) + Cardinality(Holders(k, i))
      BY <2>6 DEF SemInv, ConservedOK
    <3>6. r.sem[i].initial = r.sem[i].value + Len(r.sem[i].wait_queue) + Cardinality(Holders(r, i))
      <4>1. Cardinality(Holders(k, i)) \in Nat
        BY ProcSets
      <4>2. /\ k.sem[i].value \in Int /\ Len(q) \in Nat
            /\ r.sem[i].value = k.sem[i].value - 1 /\ r.sem[i].initial = k.sem[i].initial
            /\ r.sem[i].wait_queue = q
        BY <1>2, <1>3, <2>1
      <4> HIDE DEF q
      <4> QED BY <3>4, <3>5, <4>1, <4>2, Balance, SMTT(60)
    <3> QED BY <1>3, <2>6, <3>1, <3>2, <3>6 DEF SemInv, ConservedOK
  <2> QED BY <1>1, <1>4, <2>3, <2>4, <2>5, <2>6 DEF SemInv
<1> QED BY <1>2, <1>5, <1>6

\* sem_post keeps the invariant: the resource goes to the first waiter, or back
\* to the value.
LEMMA PostInv ==
  ASSUME NEW k, SemInv(k), NEW p \in Procs, NEW i \in Sems, k.sem[i].open_count > 0,
         k.st[p] = "READY", i \in k.opened[p], Usage = "lock" => i \in k.in[p],
         NEW r, r = sem_post(k, p, i)
  PROVE  SemInv(r)
<1> DEFINE s == k.sem[i]
           q == s.wait_queue
           u == increment(s)
<1>1. k \in SemKernel /\ PostStep(k, r, p, i, s) /\ r \in SemKernel
  BY PostEffect DEF SemInv, PostStep
<1>2. /\ s \in Semaphores /\ q \in Seq(Procs) /\ s.value \in Int /\ Len(q) \in Nat
      /\ Injective(q)
      /\ \A m \in Sems : ~Sleeps(k, p, m)
      /\ p \notin k.susp
  BY <1>1, KernelFields, SemFields DEF SemInv, QueuesOK, SleepersOK
<1>3. /\ r.sem[i] = u /\ \A m \in Sems \ {i} : r.sem[m] = k.sem[m]
      /\ r.opened = k.opened /\ r.susp = k.susp
      /\ \A x \in Procs, m \in Sems : m \in r.in[x] <=> m \in k.in[x] /\ ~(x = p /\ m = i)
      /\ \A x \in Procs \ {p} : r.in[x] = k.in[x]
  BY <1>1, KernelFields DEF PostStep
<1>4. /\ u.value = s.value + 1 /\ u.open_count = s.open_count /\ u.initial = s.initial
      /\ hands_over(s) => Len(q) > 0 /\ s.value < 0 /\ u.wait_queue = queue_pop(q)
      /\ ~hands_over(s) => u.wait_queue = q /\ (Len(q) = 0 \/ s.value >= 0)
  BY <1>2, Increment
<1>5. OpenOK(r)
  <2>1. \A m \in Sems : Openers(r, m) = Openers(k, m)
    BY <1>3 DEF Openers
  <2>2. r.sem[i].open_count = k.sem[i].open_count
    BY <1>3, <1>4
  <2> QED BY <1>3, <2>1, <2>2 DEF SemInv, OpenOK
<1>6. Len(q) = Debt(s) /\ r.sem[i].open_count = s.open_count /\ SleepersOK(k)
  BY <1>3, <1>4 DEF SemInv, DebtOK
<1>7. /\ Usage = "lock" => p \in Holders(k, i)
      /\ Cardinality(Holders(k, i)) \in Nat /\ IsFiniteSet(Holders(k, i))
      /\ Usage = "lock" => s.initial = s.value + Len(q) + Cardinality(Holders(k, i))
  <2>1. Cardinality(Holders(k, i)) \in Nat /\ IsFiniteSet(Holders(k, i))
    BY ProcSets
  <2>2. Usage = "lock" => p \in Holders(k, i)
    BY <1>2 DEF SemInv, BitsOK, Holders
  <2> QED BY <2>1, <2>2 DEF SemInv, ConservedOK
<1>8. CASE ~hands_over(s)
  <2>1. /\ r.sem[i].wait_queue = q /\ r.st = k.st
        /\ \A x \in Procs, m \in Sems : m \in r.held[x] <=> m \in k.held[x] /\ ~(x = p /\ m = i)
        /\ \A x \in Procs \ {p} : r.held[x] = k.held[x]
    BY <1>1, <1>3, <1>4, <1>8, KernelFields, SMTT(60) DEF PostStep
  <2>2. \A x \in Procs, m \in Sems : Sleeps(r, x, m) <=> Sleeps(k, x, m)
    BY <1>3, <2>1 DEF Sleeps
  <2>3. QueuesOK(r)
    BY <1>3, <2>1, <2>2 DEF SemInv, QueuesOK
  <2>4. SleepersOK(r)
    BY <1>3, <1>6, <2>1, <2>2 DEF SleepersOK
  <2>5. DebtOK(r)
    <3>1. Len(r.sem[i].wait_queue) = Debt(r.sem[i])
      BY <1>2, <1>3, <1>4, <1>6, <1>8, <2>1 DEF Debt
    <3> QED BY <1>3, <3>1 DEF SemInv, DebtOK
  <2>6. ASSUME Usage = "lock" PROVE BitsOK(r) /\ ConservedOK(r)
    <3>1. BitsOK(r)
      BY <1>2, <1>3, <2>1, <2>2, <2>6 DEF SemInv, BitsOK
    <3>2. \A m \in Sems \ {i} : Holders(r, m) = Holders(k, m)
      BY <2>1 DEF Holders
    <3>3. Holders(r, i) = Holders(k, i) \ {p}
      BY <2>1 DEF Holders
    <3>4. Cardinality(Holders(r, i)) = Cardinality(Holders(k, i)) - 1
      BY <1>7, <2>6, <3>3, FS_RemoveElement
    <3>5. r.sem[i].initial = r.sem[i].value + Len(r.sem[i].wait_queue) + Cardinality(Holders(r, i))
      <4>1. /\ r.sem[i].value = s.value + 1 /\ r.sem[i].initial = s.initial
            /\ r.sem[i].wait_queue = q
            /\ s.initial = s.value + Len(q) + Cardinality(Holders(k, i))
        BY <1>3, <1>4, <1>7, <2>1, <2>6
      <4> HIDE DEF q, s
      <4> QED BY <1>2, <1>7, <3>4, <4>1, Balance
    <3> QED BY <1>3, <2>6, <3>1, <3>2, <3>5 DEF SemInv, ConservedOK
  <2> QED BY <1>1, <1>5, <2>3, <2>4, <2>5, <2>6 DEF SemInv
<1>9. CASE hands_over(s)
  <2> DEFINE x == Head(q)
  <2>1. /\ x \in Procs /\ Sleeps(k, x, i)
        /\ Injective(r.sem[i].wait_queue) /\ Len(r.sem[i].wait_queue) = Len(q) - 1
        /\ \A y \in Procs : InQueue(r.sem[i].wait_queue, y) <=> InQueue(q, y) /\ y # x
    <3>1. r.sem[i].wait_queue = queue_pop(q) /\ Len(q) > 0
      BY <1>3, <1>4, <1>9
    <3>2. InQueue(q, x) => Sleeps(k, x, i)
      BY DEF Sleeps
    <3> HIDE DEF q
    <3> QED BY <1>2, <3>1, <3>2, QueuePop
  <2>2. \A m \in Sems : Sleeps(k, x, m) => m = i
    BY <2>1 DEF SemInv, QueuesOK
  <2>3. /\ k.st[x] = "BLOCKED" /\ x \notin k.susp /\ x # p
    BY <1>2, <1>6, <2>1 DEF SleepersOK
  <2>4. /\ r.st = [k.st EXCEPT ![x] = IF @ = "BLOCKED" THEN "READY" ELSE @]
        /\ r.held = [[k.held EXCEPT ![p] = @ \ {i}] EXCEPT ![x] = @ \cup {i}]
    BY <1>1, <1>9, <2>3 DEF PostStep
  <2> HIDE DEF x
  <2>5. /\ \A y \in Procs \ {x} : r.st[y] = k.st[y]
        /\ r.st[x] = "READY"
        /\ \A y \in Procs, m \in Sems :
             m \in r.held[y] <=> \/ m \in k.held[y] /\ ~(y = p /\ m = i)
                                 \/ y = x /\ m = i
        /\ \A y \in Procs \ {p, x} : r.held[y] = k.held[y]
    <3>1. k.st \in [Procs -> {"READY", "BLOCKED", "DEAD"}] /\ k.held \in [Procs -> SUBSET Sems]
      BY <1>1, KernelFields
    <3>2. (\A y \in Procs \ {x} : r.st[y] = k.st[y]) /\ r.st[x] = "READY"
      BY <2>1, <2>3, <2>4, <3>1
    <3>3. /\ r.held[p] = k.held[p] \ {i} /\ r.held[x] = k.held[x] \cup {i}
          /\ \A y \in Procs \ {p, x} : r.held[y] = k.held[y]
      BY <2>1, <2>3, <2>4, <3>1
    <3> QED BY <2>3, <3>2, <3>3
  <2>6. \A y \in Procs, m \in Sems : Sleeps(r, y, m) <=> Sleeps(k, y, m) /\ ~(y = x /\ m = i)
    BY <1>3, <2>1 DEF Sleeps
  <2>7. QueuesOK(r)
    BY <1>3, <2>1, <2>6 DEF SemInv, QueuesOK
  <2>8. SleepersOK(r)
    <3> SUFFICES ASSUME NEW y \in Procs
                 PROVE  /\ \A m \in Sems : Sleeps(r, y, m) =>
                             r.st[y] = "BLOCKED" /\ y \notin r.susp /\ m \in r.opened[y]
                        /\ r.st[y] = "BLOCKED" /\ y \notin r.susp => \E m \in Sems : Sleeps(r, y, m)
                        /\ y \in r.susp => r.st[y] = "BLOCKED"
                        /\ r.st[y] = "DEAD" => r.opened[y] = {} /\ r.held[y] = {} /\ r.in[y] = {}
      BY DEF SleepersOK
    <3>1. CASE y = x
      BY <1>3, <2>2, <2>3, <2>5, <2>6, <3>1
    <3>2. CASE y = p
      BY <1>2, <1>3, <2>3, <2>5, <2>6, <3>2
    <3>3. CASE y \notin {x, p}
      BY <1>3, <1>6, <2>5, <2>6, <3>3 DEF SleepersOK
    <3> QED BY <3>1, <3>2, <3>3
  <2>9. DebtOK(r)
    <3>1. Len(r.sem[i].wait_queue) = Debt(r.sem[i])
      <4>1. r.sem[i].value = s.value + 1 /\ s.value < 0
        BY <1>3, <1>4, <1>9
      <4> HIDE DEF s, q
      <4> QED BY <1>2, <1>6, <2>1, <4>1 DEF Debt
    <3> QED BY <1>3, <3>1 DEF SemInv, DebtOK
  <2>10. ASSUME Usage = "lock" PROVE BitsOK(r) /\ ConservedOK(r)
    <3>1. BitsOK(r)
      <4>1. BitsOK(k)
        BY <2>10 DEF SemInv
      <4> QED BY <1>2, <1>3, <2>1, <2>3, <2>5, <2>6, <4>1 DEF BitsOK
    <3>2. \A m \in Sems \ {i} : Holders(r, m) = Holders(k, m)
      BY <2>5 DEF Holders
    <3>3. Holders(r, i) = (Holders(k, i) \ {p}) \cup {x}
      BY <2>1, <2>3, <2>5 DEF Holders
    <3>4. x \notin Holders(k, i) \ {p}
      BY <2>1, <2>10 DEF Holders, SemInv, BitsOK
    <3>5. Cardinality(Holders(r, i)) = Cardinality(Holders(k, i))
      <4>1. /\ IsFiniteSet(Holders(k, i) \ {p})
            /\ Cardinality(Holders(k, i) \ {p}) = Cardinality(Holders(k, i)) - 1
        BY <1>7, <2>10, FS_RemoveElement
      <4>2. Cardinality(Holders(r, i)) = Cardinality(Holders(k, i) \ {p}) + 1
        BY <3>3, <3>4, <4>1, FS_AddElement
      <4> QED BY <1>7, <4>1, <4>2
    <3>6. r.sem[i].initial = r.sem[i].value + Len(r.sem[i].wait_queue) + Cardinality(Holders(r, i))
      <4>1. /\ r.sem[i].value = s.value + 1 /\ r.sem[i].initial = s.initial
            /\ Len(r.sem[i].wait_queue) = Len(q) - 1
            /\ s.initial = s.value + Len(q) + Cardinality(Holders(k, i))
        BY <1>3, <1>4, <1>7, <2>1, <2>10
      <4> HIDE DEF q, s
      <4> QED BY <1>2, <1>7, <3>5, <4>1, Balance, SMTT(60)
    <3> QED BY <1>3, <2>10, <3>1, <3>2, <3>6 DEF SemInv, ConservedOK
  <2> QED BY <1>1, <1>5, <2>7, <2>8, <2>9, <2>10 DEF SemInv
<1> QED BY <1>8, <1>9

\* sem_close keeps the invariant: the last reference leaves an empty slot.
LEMMA CloseInv ==
  ASSUME NEW k, SemInv(k), NEW p \in Procs, NEW i \in Sems, k.sem[i].open_count > 0,
         k.st[p] = "READY", i \in k.opened[p], Usage = "lock" => i \notin k.in[p],
         NEW r, r = sem_close(k, p, i)
  PROVE  SemInv(r)
<1> DEFINE s == k.sem[i]
           q == s.wait_queue
<1>1. k \in SemKernel /\ CloseStep(k, r, p, i) /\ r \in SemKernel /\ SleepersOK(k)
  BY CloseEffect, SMTT(60) DEF SemInv, CloseStep
<1>2. /\ q \in Seq(Procs) /\ s.open_count \in Nat /\ Injective(q)
      /\ \A m \in Sems : ~Sleeps(k, p, m)
      /\ p \notin k.susp
  BY <1>1, KernelFields, SemFields DEF SemInv, QueuesOK, SleepersOK
<1>3. /\ \A m \in Sems \ {i} : r.sem[m] = k.sem[m]
      /\ r.st = k.st /\ r.susp = k.susp
      /\ \A x \in Procs, m \in Sems : m \in r.in[x] <=> m \in k.in[x] /\ ~(x = p /\ m = i)
      /\ \A x \in Procs, m \in Sems : m \in r.held[x] <=> m \in k.held[x] /\ ~(x = p /\ m = i)
      /\ \A x \in Procs, m \in Sems : m \in r.opened[x] <=> m \in k.opened[x] /\ ~(x = p /\ m = i)
      /\ \A x \in Procs \ {p} : r.in[x] = k.in[x] /\ r.held[x] = k.held[x] /\ r.opened[x] = k.opened[x]
  BY <1>1, KernelFields DEF CloseStep
<1>4. /\ r.sem[i].value = s.value /\ r.sem[i].initial = s.initial
      /\ r.sem[i].open_count = s.open_count - 1
      /\ r.sem[i].wait_queue \in {<<>>, q}
      /\ r.sem[i].open_count > 0 => r.sem[i].wait_queue = q
  BY <1>1 DEF CloseStep
<1>5. /\ Openers(r, i) = Openers(k, i) \ {p}
      /\ \A m \in Sems \ {i} : Openers(r, m) = Openers(k, m)
      /\ p \in Openers(k, i)
  BY <1>3 DEF Openers
<1>6. OpenOK(r)
  <2>1. s.open_count = Cardinality(Openers(k, i))
    BY DEF SemInv, OpenOK
  <2>2. Cardinality(Openers(r, i)) = Cardinality(Openers(k, i)) - 1
    <3>1. IsFiniteSet(Openers(k, i)) /\ Openers(r, i) = Openers(k, i) \ {p} /\ p \in Openers(k, i)
      BY <1>5, ProcSets
    <3> QED BY <3>1, FS_RemoveElement
  <2>3. r.sem[i].open_count = Cardinality(Openers(r, i))
    BY <1>4, <2>1, <2>2
  <2>4. \A m \in Sems \ {i} : r.sem[m].open_count = Cardinality(Openers(r, m))
    BY <1>3, <1>5 DEF SemInv, OpenOK
  <2> QED BY <2>3, <2>4 DEF OpenOK
<1>7. \A x \in Procs, m \in Sems : Sleeps(r, x, m) <=> Sleeps(k, x, m)
  <2>1. CASE r.sem[i].wait_queue = q
    BY <1>3, <2>1 DEF Sleeps
  <2>2. CASE r.sem[i].wait_queue # q
    <3>1. r.sem[i].open_count = 0 /\ r.sem[i].wait_queue = <<>>
      BY <1>2, <1>4, <2>2
    <3>2. Cardinality(Openers(r, i)) = 0
      BY <1>6, <3>1 DEF OpenOK
    <3>3. Openers(r, i) = {}
      BY <3>2, ProcSets, FS_EmptySet
    <3>4. \A x \in Procs : ~Sleeps(k, x, i)
      BY <1>1, <1>2, <1>5, <3>3 DEF SleepersOK, Openers
    <3>5. \A x \in Procs : ~Sleeps(r, x, i)
      BY <3>1 DEF Sleeps, InQueue
    <3> QED BY <1>3, <3>4, <3>5 DEF Sleeps
  <2> QED BY <2>1, <2>2
<1>8. QueuesOK(r)
  <2>1. Injective(<<>>)
    BY DEF Injective
  <2> QED BY <1>2, <1>3, <1>4, <1>7, <2>1 DEF SemInv, QueuesOK
<1>9. SleepersOK(r)
  <2> SUFFICES ASSUME NEW x \in Procs
               PROVE  /\ \A m \in Sems : Sleeps(r, x, m) =>
                           r.st[x] = "BLOCKED" /\ x \notin r.susp /\ m \in r.opened[x]
                      /\ r.st[x] = "BLOCKED" /\ x \notin r.susp => \E m \in Sems : Sleeps(r, x, m)
                      /\ x \in r.susp => r.st[x] = "BLOCKED"
                      /\ r.st[x] = "DEAD" => r.opened[x] = {} /\ r.held[x] = {} /\ r.in[x] = {}
    BY DEF SleepersOK
  <2>1. CASE x = p
    BY <1>2, <1>3, <1>7, <2>1
  <2>2. CASE x # p
    BY <1>1, <1>3, <1>7, <2>2 DEF SleepersOK
  <2> QED BY <2>1, <2>2
<1>10. DebtOK(r)
  <2>1. r.sem[i].open_count > 0 => Len(r.sem[i].wait_queue) = Debt(r.sem[i])
    BY <1>4 DEF SemInv, DebtOK, Debt
  <2> QED BY <1>3, <2>1 DEF SemInv, DebtOK
<1>11. ASSUME Usage = "lock" PROVE BitsOK(r) /\ ConservedOK(r)
  <2>1. BitsOK(k) /\ ConservedOK(k)
    BY <1>11 DEF SemInv
  <2>2. BitsOK(r)
    BY <1>3, <1>7, <1>11, <2>1 DEF BitsOK
  <2>3. \A m \in Sems : Holders(r, m) = Holders(k, m)
    BY <1>3, <1>11, <2>1 DEF Holders, BitsOK
  <2>4. ASSUME r.sem[i].open_count > 0
        PROVE  r.sem[i].initial = r.sem[i].value + Len(r.sem[i].wait_queue) + Cardinality(Holders(r, i))
    BY <1>4, <2>1, <2>3, <2>4 DEF ConservedOK
  <2> QED BY <1>3, <2>1, <2>2, <2>3, <2>4 DEF ConservedOK
<1> QED BY <1>1, <1>6, <1>8, <1>9, <1>10, <1>11 DEF SemInv

\* What the death of p does to the queue and the value of one slot.
KillSlot(k, p, i, t, u) ==
  /\ Injective(u.wait_queue)
  /\ \A x \in Procs : InQueue(u.wait_queue, x) <=>
       InQueue(t.wait_queue, x) /\ x # p /\ i \notin inherited(k, p, x)
  /\ t.open_count > 0 => Len(u.wait_queue) = Debt(u)
  /\ \/ /\ u.value = t.value /\ Len(u.wait_queue) = Len(t.wait_queue)
        /\ i \notin k.held[p] \/ t.open_count = 0
        /\ \A x \in Procs : i \notin inherited(k, p, x)
     \/ /\ u.value = t.value + 1 /\ Len(u.wait_queue) = Len(t.wait_queue) - 1
        /\ InQueue(t.wait_queue, p)
        /\ \A x \in Procs : i \notin inherited(k, p, x)
     \/ /\ u.value = t.value + 1 /\ Len(u.wait_queue) = Len(t.wait_queue)
        /\ i \in k.held[p]
        /\ \A x \in Procs : i \notin inherited(k, p, x)
     \/ /\ u.value = t.value + 1 /\ Len(u.wait_queue) = Len(t.wait_queue) - 1
        /\ i \in k.held[p] /\ ~InQueue(t.wait_queue, p)
        /\ \E y \in Procs : /\ InQueue(t.wait_queue, y)
                            /\ \A x \in Procs : i \in inherited(k, p, x) <=> x = y

\* One slot when p dies: p leaves the queue, or its resource goes to the first
\* waiter or back to the value.
LEMMA KillOneSlot ==
  ASSUME NEW k, SemInv(k), NEW p \in Procs, NEW i \in Sems,
         NEW t, t = k.sem[i], NEW u, u = clean_sem(k, p, i)
  PROVE  KillSlot(k, p, i, t, u)
<1> DEFINE q == t.wait_queue
<1>1. /\ k \in SemKernel /\ t \in Semaphores /\ q \in Seq(Procs) /\ t.value \in Int
      /\ Len(q) \in Nat /\ Injective(q) /\ t.open_count \in Nat
      /\ t.open_count > 0 => Len(q) = Debt(t)
  BY KernelFields, SemFields DEF SemInv, QueuesOK, DebtOK
<1>2. /\ t.open_count = 0 => u = t
      /\ t.open_count > 0 =>
           /\ InQueue(q, p) => u.wait_queue = queue_remove_pid(q, p) /\ u.value = t.value + 1
           /\ ~InQueue(q, p) /\ i \in k.held[p] =>
                /\ u.value = t.value + 1
                /\ u.wait_queue = IF hands_over(t) THEN queue_pop(q) ELSE q
           /\ ~InQueue(q, p) /\ i \notin k.held[p] => u.value = t.value /\ u.wait_queue = q
  BY <1>1, CleanSem
<1>3. \A x \in Procs : i \in inherited(k, p, x) <=>
        /\ t.open_count > 0 /\ ~InQueue(q, p) /\ i \in k.held[p]
        /\ hands_over(t) /\ Head(q) = x
  BY DEF inherited, Holds
<1>4. CASE t.open_count = 0
  <2>1. \A x \in Procs : ~InQueue(q, x)
    <3>1. Cardinality(Openers(k, i)) = 0
      BY <1>4 DEF SemInv, OpenOK
    <3>2. Openers(k, i) = {}
      BY <3>1, ProcSets, FS_EmptySet
    <3> QED BY <3>2 DEF SemInv, SleepersOK, Sleeps, Openers
  <2> QED BY <1>1, <1>2, <1>3, <1>4, <2>1 DEF KillSlot
<1>5. CASE t.open_count > 0 /\ InQueue(q, p)
  <2>1. u.wait_queue = queue_remove_pid(q, p) /\ u.value = t.value + 1
    BY <1>2, <1>5
  <2>2. /\ \A x \in Procs : InQueue(u.wait_queue, x) <=> InQueue(q, x) /\ x # p
        /\ Injective(u.wait_queue) /\ Len(u.wait_queue) = Len(q) - 1
    <3> HIDE DEF q
    <3> QED BY <1>1, <1>5, <2>1, QueueRemove
  <2>3. Len(u.wait_queue) = Debt(u)
    <3>1. Len(q) >= 1
      BY <1>1, <1>5 DEF InQueue
    <3>2. Len(q) = Debt(t)
      BY <1>1, <1>5
    <3> HIDE DEF q
    <3> QED BY <1>1, <2>1, <2>2, <3>1, <3>2 DEF Debt
  <2> QED BY <1>3, <1>5, <2>1, <2>2, <2>3 DEF KillSlot
<1>6. CASE t.open_count > 0 /\ ~InQueue(q, p) /\ i \notin k.held[p]
  <2>1. u.wait_queue = q /\ u.value = t.value
    BY <1>2, <1>6
  <2>2. Len(u.wait_queue) = Debt(u)
    BY <1>1, <1>6, <2>1 DEF Debt
  <2> QED BY <1>1, <1>3, <1>6, <2>1, <2>2 DEF KillSlot
<1>7. CASE t.open_count > 0 /\ ~InQueue(q, p) /\ i \in k.held[p] /\ ~hands_over(t)
  <2>1. u.wait_queue = q /\ u.value = t.value + 1
    BY <1>2, <1>7
  <2>2. Len(u.wait_queue) = Debt(u)
    <3>1. Len(q) = 0 \/ t.value >= 0
      BY <1>1, <1>7 DEF hands_over
    <3>2. Len(q) = Debt(t)
      BY <1>1, <1>7
    <3> HIDE DEF q
    <3> QED BY <1>1, <2>1, <3>1, <3>2 DEF Debt
  <2> QED BY <1>1, <1>3, <1>7, <2>1, <2>2 DEF KillSlot
<1>8. CASE t.open_count > 0 /\ ~InQueue(q, p) /\ i \in k.held[p] /\ hands_over(t)
  <2> DEFINE y == Head(q)
  <2>1. u.wait_queue = queue_pop(q) /\ u.value = t.value + 1 /\ Len(q) > 0 /\ t.value < 0
    BY <1>1, <1>2, <1>8 DEF hands_over
  <2>2. /\ \A x \in Procs : InQueue(u.wait_queue, x) <=> InQueue(q, x) /\ x # y
        /\ Injective(u.wait_queue) /\ Len(u.wait_queue) = Len(q) - 1
        /\ y \in Procs /\ InQueue(q, y)
    <3> HIDE DEF q
    <3> QED BY <1>1, <2>1, QueuePop
  <2>3. Len(u.wait_queue) = Debt(u)
    <3>2. Len(q) = Debt(t)
      BY <1>1, <1>8
    <3> HIDE DEF q
    <3> QED BY <1>1, <2>1, <2>2, <3>2, SMTT(60) DEF Debt
  <2>4. \A x \in Procs : i \in inherited(k, p, x) <=> x = y
    BY <1>3, <1>8
  <2> HIDE DEF y
  <2> QED BY <1>8, <2>1, <2>2, <2>3, <2>4 DEF KillSlot
<1> QED BY <1>1, <1>4, <1>5, <1>6, <1>7, <1>8

\* Who inherits from p slept for it and wakes up with it, everybody else stays
\* as it was, and p has nothing left.
LEMMA DeathEffect ==
  ASSUME NEW k, SemInv(k), NEW p \in Procs, NEW r, r = process_kill(k, p)
  PROVE  /\ \A x \in Procs, m \in Sems :
              /\ Sleeps(r, x, m) <=> Sleeps(k, x, m) /\ x # p /\ m \notin inherited(k, p, x)
              /\ m \in inherited(k, p, x) => Sleeps(k, x, m) /\ x # p
         /\ \A x \in Procs \ {p} :
              /\ inherited(k, p, x) \subseteq Sems
              /\ r.opened[x] = k.opened[x] /\ r.in[x] = k.in[x]
              /\ x \in r.susp <=> x \in k.susp
              /\ r.held[x] = k.held[x] \cup inherited(k, p, x)
              /\ inherited(k, p, x) # {} =>
                   /\ r.st[x] = "READY" /\ k.st[x] = "BLOCKED" /\ x \notin k.susp
                   /\ \A m \in Sems : Sleeps(k, x, m) => m \in inherited(k, p, x)
              /\ inherited(k, p, x) = {} => r.st[x] = k.st[x]
         /\ r.opened[p] = {} /\ r.in[p] = {} /\ r.held[p] = {} /\ p \notin r.susp
         /\ r.st[p] = "DEAD"
         /\ \A m \in Sems : KillSlot(k, p, m, k.sem[m], r.sem[m])
<1> DEFINE got(x) == inherited(k, p, x)
<1>1. k \in SemKernel /\ KillStep(k, r, p) /\ r \in SemKernel /\ SleepersOK(k) /\ QueuesOK(k)
  BY KillEffect, SMTT(60) DEF SemInv, KillStep
<1>2. \A m \in Sems : r.sem[m] = clean_sem(k, p, m)
  BY <1>1 DEF KillStep
<1>3. \A m \in Sems : KillSlot(k, p, m, k.sem[m], r.sem[m])
  BY <1>2, KillOneSlot
<1>4. \A x \in Procs, m \in Sems : Sleeps(r, x, m) <=> Sleeps(k, x, m) /\ x # p /\ m \notin got(x)
  BY <1>3 DEF KillSlot, Sleeps
<1>5. \A x \in Procs, m \in Sems : m \in got(x) => Sleeps(k, x, m) /\ x # p
  BY <1>3 DEF KillSlot, Sleeps
<1>6. \A x \in Procs : got(x) \subseteq Sems
  BY DEF inherited
<1>7. \A x \in Procs \ {p} :
        /\ r.opened[x] = k.opened[x] /\ r.in[x] = k.in[x] /\ (x \in r.susp <=> x \in k.susp)
        /\ r.held[x] = k.held[x] \cup got(x)
        /\ got(x) # {} => /\ r.st[x] = "READY" /\ k.st[x] = "BLOCKED" /\ x \notin k.susp
                          /\ \A m \in Sems : Sleeps(k, x, m) => m \in got(x)
        /\ got(x) = {} => r.st[x] = k.st[x]
  <2> SUFFICES ASSUME NEW x \in Procs, x # p
               PROVE  /\ r.opened[x] = k.opened[x] /\ r.in[x] = k.in[x] /\ (x \in r.susp <=> x \in k.susp)
                      /\ r.held[x] = k.held[x] \cup got(x)
                      /\ got(x) # {} => /\ r.st[x] = "READY" /\ k.st[x] = "BLOCKED" /\ x \notin k.susp
                                        /\ \A m \in Sems : Sleeps(k, x, m) => m \in got(x)
                      /\ got(x) = {} => r.st[x] = k.st[x]
    OBVIOUS
  <2>1. r.opened[x] = k.opened[x] /\ r.in[x] = k.in[x] /\ (x \in r.susp <=> x \in k.susp)
    BY <1>1, KernelFields DEF KillStep
  <2>2. /\ r.held[x] = IF k.st[x] = "DEAD" THEN k.held[x] ELSE k.held[x] \cup got(x)
        /\ r.st[x] = IF k.st[x] = "BLOCKED" /\ got(x) # {} THEN "READY" ELSE k.st[x]
    BY <1>1 DEF KillStep
  <2>3. got(x) # {} => /\ k.st[x] = "BLOCKED" /\ x \notin k.susp
                       /\ \A m \in Sems : Sleeps(k, x, m) => m \in got(x)
    BY <1>1, <1>5, <1>6 DEF SleepersOK, QueuesOK
  <2> HIDE DEF got
  <2> QED BY <2>1, <2>2, <2>3
<1>8. /\ r.opened[p] = {} /\ r.in[p] = {} /\ r.held[p] = {} /\ p \notin r.susp
      /\ r.st[p] = "DEAD"
  BY <1>1, KernelFields DEF KillStep
<1> QED BY <1>3, <1>4, <1>5, <1>6, <1>7, <1>8 DEF got

\* A death keeps the invariant: every slot p had open, waited for or held is
\* settled, and who inherits a resource wakes up.
LEMMA KillInv ==
  ASSUME NEW k, SemInv(k), NEW p \in Procs, NEW r, r = process_kill(k, p)
  PROVE  SemInv(r)
<1> DEFINE got(x) == inherited(k, p, x)
<1>1. k \in SemKernel /\ KillStep(k, r, p) /\ r \in SemKernel /\ SleepersOK(k) /\ QueuesOK(k)
  BY KillEffect, SMTT(60) DEF SemInv, KillStep
<1>2. \A m \in Sems : r.sem[m] = clean_sem(k, p, m)
  BY <1>1 DEF KillStep
<1>3. \A m \in Sems : KillSlot(k, p, m, k.sem[m], r.sem[m])
  BY <1>2, KillOneSlot
<1>4. \A x \in Procs, m \in Sems : Sleeps(r, x, m) <=> Sleeps(k, x, m) /\ x # p /\ m \notin got(x)
  BY DeathEffect
<1>5. \A x \in Procs, m \in Sems : m \in got(x) => Sleeps(k, x, m) /\ x # p
  BY DeathEffect
<1>7. \A x \in Procs \ {p} :
        /\ r.opened[x] = k.opened[x] /\ r.in[x] = k.in[x] /\ (x \in r.susp <=> x \in k.susp)
        /\ r.held[x] = k.held[x] \cup got(x)
        /\ got(x) # {} => /\ r.st[x] = "READY" /\ x \notin k.susp
                          /\ \A m \in Sems : Sleeps(k, x, m) => m \in got(x)
        /\ got(x) = {} => r.st[x] = k.st[x]
  BY DeathEffect
<1>8. /\ r.opened[p] = {} /\ r.in[p] = {} /\ r.held[p] = {} /\ p \notin r.susp
      /\ r.st[p] = "DEAD"
  BY DeathEffect
<1> HIDE DEF got
<1>9. QueuesOK(r)
  <2>1. \A m \in Sems : Injective(r.sem[m].wait_queue)
    BY <1>3 DEF KillSlot
  <2> QED BY <1>1, <1>4, <2>1 DEF QueuesOK
<1>10. SleepersOK(r)
  <2> SUFFICES ASSUME NEW x \in Procs
               PROVE  /\ \A m \in Sems : Sleeps(r, x, m) =>
                           r.st[x] = "BLOCKED" /\ x \notin r.susp /\ m \in r.opened[x]
                      /\ r.st[x] = "BLOCKED" /\ x \notin r.susp => \E m \in Sems : Sleeps(r, x, m)
                      /\ x \in r.susp => r.st[x] = "BLOCKED"
                      /\ r.st[x] = "DEAD" => r.opened[x] = {} /\ r.held[x] = {} /\ r.in[x] = {}
    BY DEF SleepersOK
  <2>1. CASE x = p
    BY <1>4, <1>8, <2>1
  <2>2. CASE x # p /\ got(x) # {}
    BY <1>4, <1>7, <2>2
  <2>3. CASE x # p /\ got(x) = {}
    <3>1. /\ r.opened[x] = k.opened[x] /\ r.in[x] = k.in[x] /\ (x \in r.susp <=> x \in k.susp)
          /\ r.held[x] = k.held[x] /\ r.st[x] = k.st[x]
      BY <1>7, <2>3
    <3>2. \A m \in Sems : Sleeps(r, x, m) <=> Sleeps(k, x, m)
      BY <1>4, <2>3
    <3> QED BY <1>1, <3>1, <3>2 DEF SleepersOK
  <2> QED BY <2>1, <2>2, <2>3
<1>11. OpenOK(r) /\ \A m \in Sems : r.sem[m].open_count > 0 => k.sem[m].open_count > 0
  <2> SUFFICES ASSUME NEW m \in Sems
               PROVE  /\ r.sem[m].open_count = Cardinality(Openers(r, m))
                      /\ r.sem[m].open_count > 0 => k.sem[m].open_count > 0
    BY DEF OpenOK
  <2>1. k.sem[m].open_count \in Nat /\ k.sem[m].open_count = Cardinality(Openers(k, m))
    BY <1>1, KernelFields, SemFields DEF SemInv, OpenOK
  <2>2. Openers(r, m) = Openers(k, m) \ {p}
    BY <1>7, <1>8 DEF Openers
  <2>3. p \in Openers(k, m) <=> m \in k.opened[p]
    BY DEF Openers
  <2>4. IsFiniteSet(Openers(k, m)) /\ Cardinality(Openers(k, m)) \in Nat
    BY ProcSets
  <2>5. CASE k.sem[m].open_count = 0
    <3>1. r.sem[m] = k.sem[m]
      BY <1>1, <1>2, <2>5, CleanSem
    <3>2. Openers(k, m) = {}
      BY <2>1, <2>4, <2>5, FS_EmptySet
    <3>3. Openers(r, m) = Openers(k, m)
      BY <2>2, <3>2
    <3> QED BY <2>1, <3>1, <3>3
  <2>6. CASE k.sem[m].open_count > 0
    <3>1. /\ m \in k.opened[p] => r.sem[m].open_count = k.sem[m].open_count - 1
          /\ m \notin k.opened[p] => r.sem[m].open_count = k.sem[m].open_count
      BY <1>1, <1>2, <2>6, CleanSem
    <3>2. Cardinality(Openers(k, m) \ {p}) =
            IF p \in Openers(k, m) THEN Cardinality(Openers(k, m)) - 1 ELSE Cardinality(Openers(k, m))
      BY <2>4, FS_RemoveElement
    <3> QED BY <2>1, <2>2, <2>3, <2>4, <2>6, <3>1, <3>2
  <2> QED BY <2>1, <2>5, <2>6
<1>12. DebtOK(r)
  BY <1>3, <1>11 DEF DebtOK, KillSlot
<1>13. ASSUME Usage = "lock" PROVE BitsOK(r) /\ ConservedOK(r)
  <2>1. BitsOK(k) /\ ConservedOK(k)
    BY <1>13 DEF SemInv
  <2>2. BitsOK(r)
    <3> SUFFICES ASSUME NEW x \in Procs, NEW m \in Sems
                 PROVE  /\ m \in r.in[x] => m \in r.opened[x]
                        /\ Sleeps(r, x, m) => m \in r.in[x]
                        /\ m \in r.held[x] <=> m \in r.in[x] /\ ~Sleeps(r, x, m)
      BY DEF BitsOK
    <3>1. CASE x = p
      BY <1>4, <1>8, <3>1
    <3>2. CASE x # p
      <4>1. /\ m \in k.in[x] => m \in k.opened[x]
            /\ Sleeps(k, x, m) => m \in k.in[x]
            /\ m \in k.held[x] <=> m \in k.in[x] /\ ~Sleeps(k, x, m)
        BY <2>1 DEF BitsOK
      <4>2. /\ r.opened[x] = k.opened[x] /\ r.in[x] = k.in[x]
            /\ m \in r.held[x] <=> m \in k.held[x] \/ m \in got(x)
        BY <1>7, <3>2
      <4>3. /\ Sleeps(r, x, m) <=> Sleeps(k, x, m) /\ m \notin got(x)
            /\ m \in got(x) => Sleeps(k, x, m)
        BY <1>4, <1>5, <3>2
      <4> QED BY <4>1, <4>2, <4>3
    <3> QED BY <3>1, <3>2
  <2>3. ASSUME NEW m \in Sems, r.sem[m].open_count > 0
        PROVE  r.sem[m].initial = r.sem[m].value + Len(r.sem[m].wait_queue) + Cardinality(Holders(r, m))
    <3> DEFINE t == k.sem[m]
               u == r.sem[m]
    <3>1. /\ t.open_count > 0 /\ t.value \in Int /\ Len(t.wait_queue) \in Nat
          /\ u.initial = t.initial /\ KillSlot(k, p, m, t, u)
      BY <1>1, <1>2, <1>3, <1>11, <2>3, KernelFields, SemFields, CleanSem
    <3>2. t.initial = t.value + Len(t.wait_queue) + Cardinality(Holders(k, m))
      BY <2>1, <3>1 DEF ConservedOK
    <3>3. IsFiniteSet(Holders(k, m)) /\ Cardinality(Holders(k, m)) \in Nat
      BY ProcSets
    <3>4. \A x \in Procs : x \in Holders(r, m) <=> x # p /\ (x \in Holders(k, m) \/ m \in got(x))
      BY <1>7, <1>8 DEF Holders
    <3>5. Holders(k, m) \subseteq Procs /\ Holders(r, m) \subseteq Procs
      BY DEF Holders
    <3>6. \A x \in Procs : /\ x \in Holders(k, m) <=> m \in k.held[x]
                           /\ InQueue(t.wait_queue, x) => x \notin Holders(k, m)
      BY <2>1 DEF Holders, BitsOK, Sleeps
    <3> HIDE DEF t, u
    <3>7. \/ /\ u.value = t.value /\ Len(u.wait_queue) = Len(t.wait_queue)
             /\ Cardinality(Holders(r, m)) = Cardinality(Holders(k, m))
          \/ /\ u.value = t.value + 1 /\ Len(u.wait_queue) = Len(t.wait_queue) - 1
             /\ Cardinality(Holders(r, m)) = Cardinality(Holders(k, m))
          \/ /\ u.value = t.value + 1 /\ Len(u.wait_queue) = Len(t.wait_queue)
             /\ Cardinality(Holders(r, m)) = Cardinality(Holders(k, m)) - 1
      <4>1. CASE /\ u.value = t.value /\ Len(u.wait_queue) = Len(t.wait_queue)
                 /\ m \notin k.held[p] \/ t.open_count = 0
                 /\ \A x \in Procs : m \notin inherited(k, p, x)
        <5>1. m \notin k.held[p]
          BY <3>1, <4>1
        <5>2. \A x \in Procs : x \in Holders(r, m) <=> x \in Holders(k, m)
          BY <3>4, <3>6, <4>1, <5>1 DEF got
        <5>3. Holders(r, m) = Holders(k, m)
          BY <3>5, <5>2
        <5> QED BY <4>1, <5>3
      <4>2. CASE /\ u.value = t.value + 1 /\ Len(u.wait_queue) = Len(t.wait_queue) - 1
                 /\ InQueue(t.wait_queue, p)
                 /\ \A x \in Procs : m \notin inherited(k, p, x)
        <5>1. Holders(r, m) = Holders(k, m)
          BY <3>4, <3>5, <3>6, <4>2 DEF got
        <5> QED BY <4>2, <5>1
      <4>3. CASE /\ u.value = t.value + 1 /\ Len(u.wait_queue) = Len(t.wait_queue)
                 /\ m \in k.held[p]
                 /\ \A x \in Procs : m \notin inherited(k, p, x)
        <5>1. Holders(r, m) = Holders(k, m) \ {p} /\ p \in Holders(k, m)
          BY <3>4, <3>5, <3>6, <4>3 DEF got
        <5>2. Cardinality(Holders(r, m)) = Cardinality(Holders(k, m)) - 1
          BY <3>3, <5>1, FS_RemoveElement
        <5> QED BY <4>3, <5>2
      <4>4. CASE /\ u.value = t.value + 1 /\ Len(u.wait_queue) = Len(t.wait_queue) - 1
                 /\ m \in k.held[p] /\ ~InQueue(t.wait_queue, p)
                 /\ \E y \in Procs : /\ InQueue(t.wait_queue, y)
                                     /\ \A x \in Procs : m \in inherited(k, p, x) <=> x = y
        <5>1. PICK y \in Procs : /\ InQueue(t.wait_queue, y)
                                 /\ \A x \in Procs : m \in inherited(k, p, x) <=> x = y
          BY <4>4
        <5>2. /\ Holders(r, m) = (Holders(k, m) \ {p}) \cup {y}
              /\ p \in Holders(k, m) /\ y \notin Holders(k, m) \ {p}
          BY <3>4, <3>5, <3>6, <4>4, <5>1 DEF got
        <5>3. /\ IsFiniteSet(Holders(k, m) \ {p})
              /\ Cardinality(Holders(k, m) \ {p}) = Cardinality(Holders(k, m)) - 1
          BY <3>3, <5>2, FS_RemoveElement
        <5>4. Cardinality(Holders(r, m)) = Cardinality(Holders(k, m) \ {p}) + 1
          BY <5>2, <5>3, FS_AddElement
        <5>5. Cardinality(Holders(r, m)) = Cardinality(Holders(k, m))
          BY <3>3, <5>3, <5>4
        <5> QED BY <4>4, <5>5
      <4> QED BY <3>1, <4>1, <4>2, <4>3, <4>4 DEF KillSlot
    <3>8. u.initial = u.value + Len(u.wait_queue) + Cardinality(Holders(r, m))
      BY <3>1, <3>2, <3>3, <3>7, Balance, SMTT(60)
    <3> QED BY <3>8 DEF u
  <2> QED BY <2>2, <2>3 DEF ConservedOK
<1> QED BY <1>1, <1>9, <1>10, <1>11, <1>12, <1>13 DEF SemInv

BlockIn(k, p, v, S) == [k EXCEPT !.st[p] = v, !.susp = S]

\* From k to r process p gets state v and S is the set of suspended processes.
BlockStep(k, r, p, v, S) ==
  /\ r \in SemKernel /\ r.st = [k.st EXCEPT ![p] = v] /\ r.susp = S
  /\ r.sem = k.sem /\ r.held = k.held /\ r.opened = k.opened /\ r.in = k.in

\* The two fields sys_block writes, and the ones it leaves alone.
LEMMA BlockState ==
  ASSUME NEW k \in SemKernel, NEW p \in Procs, NEW v, v \in {"READY", "BLOCKED"},
         NEW S, S \subseteq Procs, NEW r, r = BlockIn(k, p, v, S)
  PROVE  BlockStep(k, r, p, v, S)
BY DEF BlockIn, SemKernel, BlockStep

Toggle(k, p) ==
  IF k.st[p] = "BLOCKED" THEN BlockIn(k, p, "READY", k.susp \ {p})
                         ELSE BlockIn(k, p, "BLOCKED", k.susp \cup {p})

\* The effect of sys_block: p is BLOCKED and recorded as suspended, or neither.
LEMMA ToggleEffect ==
  ASSUME NEW k \in SemKernel, NEW p \in Procs, NEW r, r = Toggle(k, p)
  PROVE  /\ r \in SemKernel /\ r.sem = k.sem /\ r.held = k.held
         /\ r.opened = k.opened /\ r.in = k.in
         /\ \A x \in Procs \ {p} : r.st[x] = k.st[x] /\ (x \in r.susp <=> x \in k.susp)
         /\ \/ r.st[p] = "READY" /\ p \notin r.susp
            \/ r.st[p] = "BLOCKED" /\ p \in r.susp
<1>1. k.susp \subseteq Procs /\ k.st \in [Procs -> {"READY", "BLOCKED", "DEAD"}]
  BY KernelFields
<1>2. CASE k.st[p] = "BLOCKED"
  <2> DEFINE S == k.susp \ {p}
             v == "READY"
  <2>1. r = BlockIn(k, p, v, S) /\ S \subseteq Procs /\ v \in {"READY", "BLOCKED"}
    BY <1>1, <1>2 DEF Toggle
  <2> HIDE DEF S, v
  <2>2. /\ r \in SemKernel /\ r.st = [k.st EXCEPT ![p] = v] /\ r.susp = S
        /\ r.sem = k.sem /\ r.held = k.held /\ r.opened = k.opened /\ r.in = k.in
    BY <2>1, BlockState DEF BlockStep
  <2> QED BY <1>1, <2>2 DEF S, v
<1>3. CASE k.st[p] # "BLOCKED"
  <2> DEFINE S == k.susp \cup {p}
             v == "BLOCKED"
  <2>1. r = BlockIn(k, p, v, S) /\ S \subseteq Procs /\ v \in {"READY", "BLOCKED"}
    BY <1>1, <1>3 DEF Toggle
  <2> HIDE DEF S, v
  <2>2. /\ r \in SemKernel /\ r.st = [k.st EXCEPT ![p] = v] /\ r.susp = S
        /\ r.sem = k.sem /\ r.held = k.held /\ r.opened = k.opened /\ r.in = k.in
    BY <2>1, BlockState DEF BlockStep
  <2> QED BY <1>1, <2>2 DEF S, v
<1> QED BY <1>2, <1>3

\* sys_block keeps the invariant when it is not used on a process that waits.
LEMMA BlockInv ==
  ASSUME NEW k, SemInv(k), NEW p \in Procs, k.st[p] # "DEAD",
         \A m \in Sems : ~Sleeps(k, p, m), NEW r, r = Toggle(k, p)
  PROVE  SemInv(r)
<1>1. k \in SemKernel /\ SleepersOK(k)
  BY DEF SemInv
<1>2. /\ r \in SemKernel /\ r.sem = k.sem /\ r.held = k.held
      /\ r.opened = k.opened /\ r.in = k.in
      /\ \A x \in Procs \ {p} : r.st[x] = k.st[x] /\ (x \in r.susp <=> x \in k.susp)
      /\ \/ r.st[p] = "READY" /\ p \notin r.susp
         \/ r.st[p] = "BLOCKED" /\ p \in r.susp
  BY <1>1, ToggleEffect
<1>3. \A x \in Procs, m \in Sems : Sleeps(r, x, m) <=> Sleeps(k, x, m)
  BY <1>2 DEF Sleeps
<1>4. QueuesOK(r)
  BY <1>2, <1>3 DEF SemInv, QueuesOK
<1>5. SleepersOK(r)
  <2> SUFFICES ASSUME NEW x \in Procs
               PROVE  /\ \A m \in Sems : Sleeps(r, x, m) =>
                           r.st[x] = "BLOCKED" /\ x \notin r.susp /\ m \in r.opened[x]
                      /\ r.st[x] = "BLOCKED" /\ x \notin r.susp => \E m \in Sems : Sleeps(r, x, m)
                      /\ x \in r.susp => r.st[x] = "BLOCKED"
                      /\ r.st[x] = "DEAD" => r.opened[x] = {} /\ r.held[x] = {} /\ r.in[x] = {}
    BY DEF SleepersOK
  <2>1. CASE x = p
    BY <1>2, <1>3, <2>1
  <2>2. CASE x # p
    BY <1>1, <1>2, <1>3, <2>2 DEF SleepersOK
  <2> QED BY <2>1, <2>2
<1>6. \A m \in Sems : Openers(r, m) = Openers(k, m) /\ Holders(r, m) = Holders(k, m)
  BY <1>2 DEF Openers, Holders
<1>7. OpenOK(r) /\ DebtOK(r)
  BY <1>2, <1>6 DEF SemInv, OpenOK, DebtOK
<1>8. Usage = "lock" => BitsOK(r) /\ ConservedOK(r)
  BY <1>2, <1>3, <1>6 DEF SemInv, BitsOK, ConservedOK
<1> QED BY <1>2, <1>4, <1>5, <1>7, <1>8 DEF SemInv

(***************************************************************************)
(* The specification                                                       *)
(***************************************************************************)
\* The state of the variables as one kernel state.
LEMMA StateFields ==
  /\ SemState.sem = sem_table /\ SemState.held = held_sems /\ SemState.opened = opened_sems
  /\ SemState.st = state /\ SemState.in = entered /\ SemState.susp = suspended
BY DEF SemState

\* The variables have their types exactly when the kernel state does.
LEMMA KernelState == SemTypeOK <=> SemState \in SemKernel
BY DEF SemTypeOK, SemState, SemKernel

\* A system call leaves the kernel state that its operator computes.
LEMMA Installed ==
  ASSUME NEW r, r \in SemKernel, InstallSem(r)
  PROVE  SemState' = r
BY DEF InstallSem, SemState, SemKernel

\* In the initial state every slot is free and nobody waits.
LEMMA InitInv == SemInit => SemInv(SemState)
<1> SUFFICES ASSUME SemInit PROVE SemInv(SemState)
  OBVIOUS
<1> DEFINE k == SemState
           e == <<>>
<1>1. e \in Seq(Procs) /\ Len(e) = 0
  OBVIOUS
<1>2. /\ FreeSem.value = 0 /\ FreeSem.wait_queue = e /\ FreeSem.open_count = 0
      /\ FreeSem \in Semaphores
  <2> HIDE DEF e
  <2>1. FreeSem = [name |-> NoName, value |-> 0, wait_queue |-> e, open_count |-> 0, initial |-> 0]
    BY DEF FreeSem, e
  <2> QED BY <1>1, <2>1 DEF Semaphores
<1>3. SemTypeOK
  BY <1>2 DEF SemInit, SemTypeOK
<1>4. k \in SemKernel
  BY <1>3, KernelState
<1>5. /\ \A m \in Sems : k.sem[m] = FreeSem
      /\ \A x \in Procs : k.held[x] = {} /\ k.opened[x] = {} /\ k.in[x] = {} /\ k.st[x] = "READY"
      /\ k.susp = {}
  BY StateFields DEF SemInit
<1> HIDE DEF k, e
<1>6. \A x \in Procs, m \in Sems : ~Sleeps(k, x, m)
  BY <1>1, <1>2, <1>5 DEF Sleeps, InQueue
<1>7. QueuesOK(k)
  BY <1>1, <1>2, <1>5, <1>6 DEF QueuesOK, Injective
<1>8. SleepersOK(k)
  BY <1>5, <1>6 DEF SleepersOK
<1>9. OpenOK(k)
  <2>1. \A m \in Sems : Openers(k, m) = {}
    BY <1>5 DEF Openers
  <2> QED BY <1>2, <1>5, <2>1, FS_EmptySet DEF OpenOK
<1>10. DebtOK(k) /\ BitsOK(k) /\ ConservedOK(k)
  BY <1>2, <1>5, <1>6 DEF DebtOK, BitsOK, ConservedOK
<1> QED BY <1>4, <1>7, <1>8, <1>9, <1>10 DEF SemInv, k

\* The system call that leads process p from the current state to r.
Call(p, r) ==
  \/ \E n \in Names, v \in InitialValues :
       sys_sem_open(p, n, v) /\ r = sem_open(SemState, p, n, v)
  \/ \E n \in Names :
       /\ Slot(n) \in Sems /\ SemState.sem[Slot(n)].open_count > 0
       /\ \/ sys_sem_wait(p, n) /\ r = sem_wait(SemState, p, Slot(n))
          \/ sys_sem_post(p, n) /\ r = sem_post(SemState, p, Slot(n))
          \/ sys_sem_close(p, n) /\ r = sem_close(SemState, p, Slot(n))
  \/ Die(p) /\ r = process_kill(SemState, p)
  \/ sys_block(p) /\ r = Toggle(SemState, p)

\* Every step is a system call and leaves a kernel state of the right type,
\* however the semaphores are used.
LEMMA StepCases ==
  ASSUME SemTypeOK, SemNext
  PROVE  \E p \in Procs, r \in SemKernel : SemState' = r /\ Call(p, r)
<1> DEFINE k == SemState
<1>1. k \in SemKernel
  BY KernelState
<1>2. PICK p \in Procs :
        \/ \E n \in Names, v \in InitialValues : sys_sem_open(p, n, v)
        \/ \E n \in Names : sys_sem_wait(p, n)
        \/ \E n \in Names : sys_sem_post(p, n)
        \/ \E n \in Names : sys_sem_close(p, n)
        \/ Die(p)
        \/ sys_block(p)
  BY DEF SemNext
<1>3. \A n \in Names : Slot(n) # NULL => Slot(n) \in Sems /\ k.sem[Slot(n)].open_count > 0
  BY <1>1, FoundSlot DEF Slot
<1>4. ASSUME NEW n \in Names, NEW v \in InitialValues, sys_sem_open(p, n, v)
      PROVE  \E r \in SemKernel : SemState' = r /\ Call(p, r)
  <2> DEFINE r == sem_open(k, p, n, v)
  <2> HIDE DEF k
  <2>1. r \in SemKernel
    <3>1. r # k => \E i \in Sems : OpenStep(k, r, p, n, v, i)
      <4> HIDE DEF r
      <4> QED BY <1>1, NoSlot, OpenEffect DEF r
    <3> HIDE DEF r
    <3> QED BY <1>1, <3>1 DEF OpenStep
  <2>2. InstallSem(r)
    BY <1>4 DEF sys_sem_open, k
  <2> HIDE DEF r
  <2>3. SemState' = r
    BY <2>1, <2>2, Installed
  <2>4. Call(p, r)
    BY <1>4 DEF Call, r, k
  <2> QED BY <2>1, <2>3, <2>4
<1>5. ASSUME NEW n \in Names, sys_sem_wait(p, n)
      PROVE  \E r \in SemKernel : SemState' = r /\ Call(p, r)
  <2> DEFINE i == Slot(n)
             r == sem_wait(k, p, i)
  <2>1. i \in Sems /\ k.sem[i].open_count > 0
    BY <1>3, <1>5 DEF sys_sem_wait
  <2>2. InstallSem(r)
    BY <1>5 DEF sys_sem_wait
  <2> HIDE DEF k, i
  <2>3. r \in SemKernel
    <3> HIDE DEF r
    <3> QED BY <1>1, <2>1, WaitEffect DEF WaitStep, r
  <2> HIDE DEF r
  <2>4. SemState' = r
    BY <2>2, <2>3, Installed
  <2>5. Call(p, r)
    BY <1>5, <2>1 DEF Call, r, i, k
  <2> QED BY <2>3, <2>4, <2>5
<1>6. ASSUME NEW n \in Names, sys_sem_post(p, n)
      PROVE  \E r \in SemKernel : SemState' = r /\ Call(p, r)
  <2> DEFINE i == Slot(n)
             r == sem_post(k, p, i)
  <2>1. i \in Sems /\ k.sem[i].open_count > 0
    BY <1>3, <1>6 DEF sys_sem_post
  <2>2. InstallSem(r)
    BY <1>6 DEF sys_sem_post
  <2> HIDE DEF k, i
  <2>3. r \in SemKernel
    <3> HIDE DEF r
    <3> QED BY <1>1, <2>1, PostEffect DEF PostStep, r
  <2> HIDE DEF r
  <2>4. SemState' = r
    BY <2>2, <2>3, Installed
  <2>5. Call(p, r)
    BY <1>6, <2>1 DEF Call, r, i, k
  <2> QED BY <2>3, <2>4, <2>5
<1>7. ASSUME NEW n \in Names, sys_sem_close(p, n)
      PROVE  \E r \in SemKernel : SemState' = r /\ Call(p, r)
  <2> DEFINE i == Slot(n)
             r == sem_close(k, p, i)
  <2>1. i \in Sems /\ k.sem[i].open_count > 0
    BY <1>3, <1>7 DEF sys_sem_close
  <2>2. InstallSem(r)
    BY <1>7 DEF sys_sem_close
  <2> HIDE DEF k, i
  <2>3. r \in SemKernel
    <3> HIDE DEF r
    <3> QED BY <1>1, <2>1, CloseEffect DEF CloseStep, r
  <2> HIDE DEF r
  <2>4. SemState' = r
    BY <2>2, <2>3, Installed
  <2>5. Call(p, r)
    BY <1>7, <2>1 DEF Call, r, i, k
  <2> QED BY <2>3, <2>4, <2>5
<1>8. ASSUME Die(p)
      PROVE  \E r \in SemKernel : SemState' = r /\ Call(p, r)
  <2> DEFINE r == process_kill(k, p)
  <2>2. InstallSem(r)
    BY <1>8 DEF Die
  <2> HIDE DEF k
  <2>3. r \in SemKernel
    <3> HIDE DEF r
    <3> QED BY <1>1, KillEffect DEF KillStep, r
  <2> HIDE DEF r
  <2>4. SemState' = r
    BY <2>2, <2>3, Installed
  <2>5. Call(p, r)
    BY <1>8 DEF Call, r, k
  <2> QED BY <2>3, <2>4, <2>5
<1>9. ASSUME sys_block(p)
      PROVE  \E r \in SemKernel : SemState' = r /\ Call(p, r)
  <2> DEFINE r == Toggle(k, p)
  <2>1. k.st = state /\ k.susp = suspended /\ k.susp \subseteq Procs
    BY <1>1, StateFields, KernelFields
  <2>2. InstallSem(r)
    BY <1>9, <2>1 DEF sys_block, Toggle, BlockIn
  <2> HIDE DEF k
  <2>3. r \in SemKernel
    BY <1>1, ToggleEffect
  <2> HIDE DEF r
  <2>4. SemState' = r
    BY <2>2, <2>3, Installed
  <2>5. Call(p, r)
    BY <1>9 DEF Call, r, k
  <2> QED BY <2>3, <2>4, <2>5
<1> QED BY <1>2, <1>4, <1>5, <1>6, <1>7, <1>8, <1>9

\* The table is never written past its end and every field keeps its type,
\* whatever the processes call: sem_open on a full table changes nothing.
THEOREM SemTypes == SemSpec => []SemTypeOK
<1>1. SemInit => SemTypeOK
  BY InitInv, KernelState DEF SemInv
<1>2. SemTypeOK /\ [SemNext]_semVars => SemTypeOK'
  <2> SUFFICES ASSUME SemTypeOK, [SemNext]_semVars PROVE SemTypeOK'
    OBVIOUS
  <2>1. CASE SemNext
    <3>1. SemState' \in SemKernel
      BY <2>1, StepCases
    <3> QED BY <3>1 DEF SemTypeOK, SemState, SemKernel
  <2>2. CASE UNCHANGED semVars
    BY <2>2 DEF semVars, SemTypeOK
  <2> QED BY <2>1, <2>2
<1> QED BY <1>1, <1>2, PTL DEF SemSpec

SemStateInv == SemInv(SemState)

\* Every system call keeps the invariant when semaphores are used by their
\* openers and the block command is not used on a process that waits.
LEMMA NextInv ==
  ASSUME Usage # "any", Meddle = FALSE, SemStateInv, [SemNext]_semVars
  PROVE  SemStateInv'
<1> DEFINE k == SemState
<1>1. SemInv(k) /\ k \in SemKernel
  BY DEF SemStateInv, SemInv
<1>2. SemTypeOK
  BY <1>1, KernelState
<1>3. CASE UNCHANGED semVars
  <2>1. SemState' = SemState
    BY <1>3 DEF semVars, SemState
  <2> QED BY <1>1, <2>1 DEF SemStateInv
<1>4. CASE SemNext
  <2>1. PICK p \in Procs, r \in SemKernel : SemState' = r /\ Call(p, r)
    BY <1>2, <1>4, StepCases
  <2>2. /\ k.sem = sem_table /\ k.opened = opened_sems /\ k.st = state /\ k.in = entered
    BY StateFields
  <2>3. SUFFICES SemInv(r)
    BY <2>1 DEF SemStateInv
  <2>4. ASSUME NEW n \in Names, NEW v \in InitialValues,
               sys_sem_open(p, n, v), r = sem_open(k, p, n, v)
        PROVE  SemInv(r)
    <3>1. k.st[p] = "READY" /\ (find_sem(k, n) # NULL => find_sem(k, n) \notin k.opened[p])
      BY <2>2, <2>4 DEF sys_sem_open, Slot, Opened
    <3> HIDE DEF k
    <3> QED BY <1>1, <2>4, <3>1, OpenInv
  <2>5. ASSUME NEW n \in Names, Slot(n) \in Sems, k.sem[Slot(n)].open_count > 0,
               \/ sys_sem_wait(p, n) /\ r = sem_wait(k, p, Slot(n))
               \/ sys_sem_post(p, n) /\ r = sem_post(k, p, Slot(n))
               \/ sys_sem_close(p, n) /\ r = sem_close(k, p, Slot(n))
        PROVE  SemInv(r)
    <3> DEFINE i == Slot(n)
    <3>1. i \in Sems /\ k.sem[i].open_count > 0 /\ k.st[p] = "READY" /\ i \in k.opened[p]
      BY <2>2, <2>5 DEF sys_sem_wait, sys_sem_post, sys_sem_close, Opened
    <3>2. CASE sys_sem_wait(p, n) /\ r = sem_wait(k, p, i)
      <4>1. Usage = "lock" => i \notin k.in[p]
        BY <2>2, <3>2 DEF sys_sem_wait, Entered
      <4> HIDE DEF k, i
      <4> QED BY <1>1, <3>1, <3>2, <4>1, WaitInv
    <3>3. CASE sys_sem_post(p, n) /\ r = sem_post(k, p, i)
      <4>1. Usage = "lock" => i \in k.in[p]
        BY <2>2, <3>3 DEF sys_sem_post, Entered
      <4> HIDE DEF k, i
      <4> QED BY <1>1, <3>1, <3>3, <4>1, PostInv
    <3>4. CASE sys_sem_close(p, n) /\ r = sem_close(k, p, i)
      <4>1. Usage = "lock" => i \notin k.in[p]
        BY <2>2, <3>4 DEF sys_sem_close, Entered
      <4> HIDE DEF k, i
      <4> QED BY <1>1, <3>1, <3>4, <4>1, CloseInv
    <3> QED BY <2>5, <3>2, <3>3, <3>4
  <2>6. ASSUME r = process_kill(k, p) PROVE SemInv(r)
    <3> HIDE DEF k
    <3> QED BY <1>1, <2>6, KillInv
  <2>7. ASSUME sys_block(p), r = Toggle(k, p) PROVE SemInv(r)
    <3>1. k.st[p] # "DEAD" /\ \A m \in Sems : ~Sleeps(k, p, m)
      BY <2>2, <2>7 DEF sys_block, Sleeps
    <3> HIDE DEF k
    <3> QED BY <1>1, <2>7, <3>1, BlockInv
  <2> QED BY <2>1, <2>4, <2>5, <2>6, <2>7 DEF Call
<1> QED BY <1>3, <1>4

\* SemInv is an invariant of the specification.
LEMMA SpecInv ==
  ASSUME Usage # "any", Meddle = FALSE
  PROVE  SemSpec => []SemStateInv
<1>1. SemInit => SemStateInv
  BY InitInv DEF SemStateInv
<1>2. SemStateInv /\ [SemNext]_semVars => SemStateInv'
  BY NextInv
<1> QED BY <1>1, <1>2, PTL DEF SemSpec

\* A semaphore used by its openers loses no waiter and wakes nobody twice.
THEOREM SemNoLostWaiter ==
  ASSUME Usage # "any", Meddle = FALSE
  PROVE  SemSpec => []NoLostWaiter
<1>1. SemStateInv => NoLostWaiter
  <2> SUFFICES ASSUME SemStateInv, NEW p \in Procs
               PROVE  state[p] = "BLOCKED" /\ p \notin suspended <=>
                        \E i \in Sems : \E j \in 1 .. Len(sem_table[i].wait_queue) :
                          /\ IsOpen(i)
                          /\ sem_table[i].wait_queue[j] = p
                          /\ \A m \in Sems : \A n \in 1 .. Len(sem_table[m].wait_queue) :
                               sem_table[m].wait_queue[n] = p => m = i /\ n = j
    BY DEF NoLostWaiter
  <2> DEFINE k == SemState
  <2>1. /\ SleepersOK(k) /\ QueuesOK(k) /\ OpenOK(k)
        /\ k.sem = sem_table /\ k.st = state /\ k.susp = suspended /\ k.opened = opened_sems
    BY StateFields DEF SemStateInv, SemInv
  <2> HIDE DEF k
  <2>2. \A i \in Sems : Sleeps(k, p, i) <=>
          \E j \in 1 .. Len(sem_table[i].wait_queue) : sem_table[i].wait_queue[j] = p
    BY <2>1 DEF Sleeps, InQueue
  <2>3. ASSUME NEW i \in Sems, Sleeps(k, p, i) PROVE IsOpen(i)
    <3>1. p \in Openers(k, i)
      BY <2>1, <2>3 DEF SleepersOK, Openers
    <3>2. Cardinality(Openers(k, i)) # 0 /\ Cardinality(Openers(k, i)) \in Nat
      BY <3>1, ProcSets, FS_EmptySet
    <3>3. sem_table[i].open_count = Cardinality(Openers(k, i))
      BY <2>1 DEF OpenOK
    <3> QED BY <3>2, <3>3 DEF IsOpen
  <2>4. ASSUME state[p] = "BLOCKED", p \notin suspended
        PROVE  \E i \in Sems : \E j \in 1 .. Len(sem_table[i].wait_queue) :
                 /\ IsOpen(i)
                 /\ sem_table[i].wait_queue[j] = p
                 /\ \A m \in Sems : \A n \in 1 .. Len(sem_table[m].wait_queue) :
                      sem_table[m].wait_queue[n] = p => m = i /\ n = j
    <3>1. PICK i \in Sems : Sleeps(k, p, i)
      BY <2>1, <2>4 DEF SleepersOK
    <3>2. PICK j \in 1 .. Len(sem_table[i].wait_queue) : sem_table[i].wait_queue[j] = p
      BY <2>2, <3>1
    <3>3. \A m \in Sems : \A n \in 1 .. Len(sem_table[m].wait_queue) :
            sem_table[m].wait_queue[n] = p => m = i /\ n = j
      <4> SUFFICES ASSUME NEW m \in Sems, NEW n \in 1 .. Len(sem_table[m].wait_queue),
                          sem_table[m].wait_queue[n] = p
                   PROVE  m = i /\ n = j
        OBVIOUS
      <4>1. m = i
        BY <2>1, <2>2, <3>1 DEF QueuesOK
      <4>2. Injective(sem_table[i].wait_queue)
        BY <2>1 DEF QueuesOK
      <4> QED BY <3>2, <4>1, <4>2 DEF Injective
    <3> QED BY <2>3, <3>1, <3>2, <3>3
  <2>5. ASSUME NEW i \in Sems, NEW j \in 1 .. Len(sem_table[i].wait_queue),
               sem_table[i].wait_queue[j] = p
        PROVE  state[p] = "BLOCKED" /\ p \notin suspended
    <3>1. Sleeps(k, p, i)
      BY <2>2, <2>5
    <3> QED BY <2>1, <3>1 DEF SleepersOK
  <2> QED BY <2>4, <2>5
<1> QED BY <1>1, SpecInv, PTL

\* A negative value is the number of processes in the queue.
THEOREM SemValueCountsWaiters ==
  ASSUME Usage # "any", Meddle = FALSE
  PROVE  SemSpec => []ValueCountsWaiters
<1>1. SemStateInv => ValueCountsWaiters
  <2>1. SemStateInv => DebtOK(SemState) /\ SemState.sem = sem_table
    BY StateFields DEF SemStateInv, SemInv
  <2> QED BY <2>1 DEF DebtOK, Debt, ValueCountsWaiters, IsOpen
<1> QED BY <1>1, SpecInv, PTL

\* A semaphore lives exactly as long as somebody has it open.
THEOREM SemOpenCountExact ==
  ASSUME Usage # "any", Meddle = FALSE
  PROVE  SemSpec => []OpenCountExact
<1>1. SemStateInv => OpenCountExact
  <2> SUFFICES ASSUME SemStateInv, NEW i \in Sems
               PROVE  sem_table[i].open_count
                        = Cardinality({p \in Procs : state[p] # "DEAD" /\ i \in opened_sems[p]})
    BY DEF OpenCountExact
  <2>1. /\ OpenOK(SemState) /\ SleepersOK(SemState)
        /\ SemState.sem = sem_table /\ SemState.st = state /\ SemState.opened = opened_sems
    BY StateFields DEF SemStateInv, SemInv
  <2>2. Openers(SemState, i) = {p \in Procs : state[p] # "DEAD" /\ i \in opened_sems[p]}
    BY <2>1 DEF SleepersOK, Openers
  <2> QED BY <2>1, <2>2 DEF OpenOK
<1> QED BY <1>1, SpecInv, PTL

\* Under lock usage the held bits are the processes past sem_wait.
THEOREM SemHeldBitsTrue ==
  ASSUME Usage = "lock", Meddle = FALSE
  PROVE  SemSpec => []HeldBitsTrue
<1>1. SemStateInv => HeldBitsTrue
  <2>1. SemStateInv => /\ BitsOK(SemState) /\ SemState.sem = sem_table
                       /\ SemState.held = held_sems /\ SemState.in = entered
    BY StateFields DEF SemStateInv, SemInv
  <2> QED BY <2>1 DEF BitsOK, Sleeps, HeldBitsTrue
<1>2. Usage # "any"
  OBVIOUS
<1> QED BY <1>1, <1>2, SpecInv, PTL

\* Under lock usage resources are neither created nor lost.
THEOREM SemConservation ==
  ASSUME Usage = "lock", Meddle = FALSE
  PROVE  SemSpec => []Conservation
<1>1. SemStateInv => Conservation
  <2>1. SemStateInv => /\ ConservedOK(SemState) /\ SemState.sem = sem_table
                       /\ SemState.held = held_sems
    BY StateFields DEF SemStateInv, SemInv
  <2> QED BY <2>1 DEF ConservedOK, Holders, Conservation, IsOpen
<1>2. Usage # "any"
  OBVIOUS
<1> QED BY <1>1, <1>2, SpecInv, PTL

\* Mutual exclusion: at most as many processes are past sem_wait as the value
\* the semaphore was created with, whoever dies, waits, posts or closes when.
THEOREM SemExclusion ==
  ASSUME Usage = "lock", Meddle = FALSE
  PROVE  SemSpec => []Exclusion
<1>1. SemStateInv => Exclusion
  <2> SUFFICES ASSUME SemStateInv, NEW i \in Sems, IsOpen(i)
               PROVE  Cardinality(Inside(i)) <= sem_table[i].initial
    BY DEF Exclusion
  <2> DEFINE k == SemState
             s == sem_table[i]
  <2>1. /\ SleepersOK(k) /\ BitsOK(k) /\ ConservedOK(k) /\ DebtOK(k) /\ k \in SemKernel
        /\ k.sem = sem_table /\ k.st = state /\ k.held = held_sems /\ k.in = entered
    BY StateFields DEF SemStateInv, SemInv
  <2> HIDE DEF k
  <2>2. Inside(i) = Holders(k, i)
    BY <2>1 DEF Inside, Holders, SleepersOK, BitsOK, Sleeps
  <2>3. /\ s.initial = s.value + Len(s.wait_queue) + Cardinality(Holders(k, i))
        /\ Len(s.wait_queue) = Debt(s)
    BY <2>1 DEF ConservedOK, DebtOK, IsOpen
  <2>4. s.value \in Int /\ Cardinality(Holders(k, i)) \in Nat
    BY <2>1, KernelFields, SemFields, ProcSets
  <2> HIDE DEF s
  <2>5. s.value + Len(s.wait_queue) >= 0 /\ s.value + Len(s.wait_queue) \in Int
    BY <2>3, <2>4 DEF Debt
  <2>6. Cardinality(Holders(k, i)) <= s.initial
    BY <2>3, <2>4, <2>5
  <2> QED BY <2>2, <2>6 DEF s
<1>2. Usage # "any"
  OBVIOUS
<1> QED BY <1>1, <1>2, SpecInv, PTL

=============================================================================
