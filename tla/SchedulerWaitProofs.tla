------------------------ MODULE SchedulerWaitProofs ------------------------
(***************************************************************************)
(* Proofs about waiting and waking in module Scheduler: who waits, waits   *)
(* for one thing only; a parent that waits for a child is awake when the   *)
(* child is gone; idle gets the CPU only when nobody else can use it.      *)
(* They build on the structural invariant IInv of SchedulerProofs.         *)
(***************************************************************************)
EXTENDS SchedulerProofs

(***************************************************************************)
(* One wait at a time, as a predicate on kernel states                     *)
(***************************************************************************)
Awake == {"READY", "RUNNING"}

InWait(k, s) == k.tab[s].waiting_for # 0
InQueues(k, s) == k.tab[s].state # "FREE" /\ k.tab[s].pid \in k.waitq
NoWait(k, s) == ~InWait(k, s) /\ ~InQueues(k, s) /\ k.kbd # s

OneWaitAt(k, s) ==
  /\ InWait(k, s) \/ InQueues(k, s) \/ k.kbd = s => k.tab[s].state = "BLOCKED"
  /\ ~(InWait(k, s) /\ InQueues(k, s))
  /\ ~(InWait(k, s) /\ k.kbd = s)
  /\ ~(InQueues(k, s) /\ k.kbd = s)

\* The inductive form: idle, too, never sleeps, so a switch to it wakes nobody.
WaitInv(k) == /\ \A s \in Slots : OneWaitAt(k, s)
              /\ k.tab[k.idle].state # "BLOCKED"

\* Who is not BLOCKED waits for nothing.
LEMMA AwakeNoWait ==
  ASSUME NEW k, WaitInv(k), NEW s \in Slots, k.tab[s].state # "BLOCKED"
  PROVE  NoWait(k, s)
BY DEF WaitInv, OneWaitAt, NoWait

\* Who waits for nothing is no trouble.
LEMMA NoWaitAt ==
  ASSUME NEW k, NEW s, NoWait(k, s)
  PROVE  OneWaitAt(k, s)
BY DEF NoWait, OneWaitAt

\* A slot that keeps its PCB, while queues and keyboard only let go.
LEMMA Untouched ==
  ASSUME NEW k, NEW r, NEW s \in Slots, OneWaitAt(k, s), r.tab[s] = k.tab[s],
         r.waitq \subseteq k.waitq, r.kbd = s => k.kbd = s
  PROVE  OneWaitAt(r, s)
BY DEF OneWaitAt, InWait, InQueues

\* A parent that waited for a child which is gone or about to go is awake.
Served(k, r) ==
  \A s, t \in Slots :
    /\ AwaitsChild(k.tab, s, t)
    /\ r.tab[s].pid = k.tab[s].pid /\ r.tab[s].state # "ZOMBIE"
    /\ r.tab[t].pid # k.tab[t].pid \/ r.tab[t].state = "ZOMBIE"
    => r.tab[s].state \in Awake /\ r.tab[s].waiting_for = 0

\* Nobody dies.
AllKept(k, r) ==
  \A s \in Slots : k.tab[s].state # "FREE" =>
    r.tab[s].pid = k.tab[s].pid /\ r.tab[s].state # "ZOMBIE"

\* Then no child is missing.
LEMMA KeptServed ==
  ASSUME NEW k, NEW r, AllKept(k, r)
  PROVE  Served(k, r)
BY DEF AllKept, Served, AwaitsChild

(***************************************************************************)
(* Scheduling: who may run changes hands, a ZOMBIE is freed                *)
(***************************************************************************)
Gone(p) == p.pid = 0 /\ p.state = "FREE" /\ p.waiting_for = 0

SameWait(p, q) == /\ q.pid = p.pid /\ q.waiting_for = p.waiting_for
                  /\ q.parent_pid = p.parent_pid
                  /\ q.state = p.state \/ (p.state \in Awake /\ q.state \in Awake)

Calm(k, r) ==
  /\ r.kbd = k.kbd /\ r.waitq = k.waitq /\ r.idle = k.idle
  /\ \A s \in Slots : \/ k.tab[s].state = "ZOMBIE" /\ Gone(r.tab[s])
                      \/ SameWait(k.tab[s], r.tab[s])

\* Scheduling keeps everybody's wait.
LEMMA CalmInv ==
  ASSUME NEW k \in KernelType, NEW r, WaitInv(k), Calm(k, r)
  PROVE  WaitInv(r)
<1>1. ASSUME NEW s \in Slots PROVE OneWaitAt(r, s)
  <2>1. CASE k.tab[s].state = "ZOMBIE" /\ Gone(r.tab[s])
    <3>1. NoWait(k, s)
      BY <2>1, AwakeNoWait
    <3>2. NoWait(r, s)
      BY <2>1, <3>1 DEF Calm, Gone, NoWait, InWait, InQueues
    <3> QED BY <3>2, NoWaitAt
  <2>2. CASE SameWait(k.tab[s], r.tab[s]) /\ k.tab[s].state \in Awake
    <3>1. NoWait(k, s)
      BY <2>2, AwakeNoWait DEF Awake
    <3>2. NoWait(r, s)
      BY <2>2, <3>1 DEF Calm, SameWait, Awake, NoWait, InWait, InQueues
    <3> QED BY <3>2, NoWaitAt
  <2>3. CASE SameWait(k.tab[s], r.tab[s]) /\ k.tab[s].state \notin Awake
    BY <2>3 DEF Calm, SameWait, WaitInv, OneWaitAt, InWait, InQueues
  <2> QED BY <2>1, <2>2, <2>3 DEF Calm
<1>2. r.tab[r.idle].state # "BLOCKED"
  <2>1. k.idle \in Slots /\ r.idle = k.idle
    BY DEF KernelType, Calm
  <2> QED BY <2>1 DEF Calm, WaitInv, Gone, SameWait, Awake
<1> QED BY <1>1, <1>2 DEF WaitInv

\* Two schedulings in a row are one.
LEMMA CalmTrans ==
  ASSUME NEW k, NEW m, NEW r, Calm(k, m), Calm(m, r)
  PROVE  Calm(k, r)
<1>1. r.kbd = k.kbd /\ r.waitq = k.waitq /\ r.idle = k.idle
  BY DEF Calm
<1>2. ASSUME NEW s \in Slots
      PROVE  \/ k.tab[s].state = "ZOMBIE" /\ Gone(r.tab[s])
             \/ SameWait(k.tab[s], r.tab[s])
  <2>1. \/ k.tab[s].state = "ZOMBIE" /\ Gone(m.tab[s])
        \/ SameWait(k.tab[s], m.tab[s])
    BY DEF Calm
  <2>2. \/ m.tab[s].state = "ZOMBIE" /\ Gone(r.tab[s])
        \/ SameWait(m.tab[s], r.tab[s])
    BY DEF Calm
  <2> QED BY <2>1, <2>2 DEF Gone, SameWait, Awake
<1> QED BY <1>1, <1>2 DEF Calm

\* Same table, same waiters.
LEMMA CalmSame ==
  ASSUME NEW k, NEW r, r.tab = k.tab, r.kbd = k.kbd, r.waitq = k.waitq,
         r.idle = k.idle
  PROVE  Calm(k, r)
BY DEF Calm, SameWait

\* One PCB changes, in what waits do not depend on.
LEMMA CalmSlot ==
  ASSUME NEW k, NEW r, NEW c \in Slots, NEW p, SameWait(k.tab[c], p),
         r.tab[c] = p, \A x \in Slots \ {c} : r.tab[x] = k.tab[x],
         r.kbd = k.kbd, r.waitq = k.waitq, r.idle = k.idle
  PROVE  Calm(k, r)
BY DEF Calm, SameWait

\* The reaper frees the ZOMBIE that had the CPU.
LEMMA CalmReap ==
  ASSUME NEW k, KInv(k)
  PROVE  /\ Calm(k, reap(k))
         /\ \A x \in Slots : k.tab[x].state # "ZOMBIE" => reap(k).tab[x] = k.tab[x]
<1>0. k \in KernelType /\ k.cur \in Slots /\ k.cur # NULL
  BY ConstantFacts DEF KInv, KernelType
<1>1. CASE k.tab[k.cur].state = "ZOMBIE"
  <2> DEFINE r == free_slot(scheduler_remove(k, k.cur), k.cur)
  <2>1. k.cur # k.idle
    BY <1>1 DEF KInv, IdleOK
  <2>2. k.kbd # k.cur
    BY <1>0, <1>1 DEF KInv, WaitOK, Alive
  <2>3. k.tab[k.cur].pid \notin k.waitq
    <3> SUFFICES ASSUME k.tab[k.cur].pid \in k.waitq PROVE FALSE
      OBVIOUS
    <3>1. PICK x \in Slots : Alive(k, x) /\ k.tab[x].pid = k.tab[k.cur].pid
      BY DEF KInv, WaitOK
    <3>2. k.tab[x].pid # 0
      BY <3>1 DEF KInv, PidsOK, Alive
    <3>3. x = k.cur
      BY <3>1, <3>2, <1>0 DEF KInv, PidsOK
    <3> QED BY <3>1, <3>3, <1>1 DEF Alive
  <2>4. /\ r.cur = k.cur /\ r.idle = k.idle /\ r.kbd = k.kbd /\ r.waitq = k.waitq
        /\ r.tab[k.cur] = FreePCB
        /\ \A x \in Slots \ {k.cur} : r.tab[x] = k.tab[x]
    BY <1>0, <1>1, <2>1, <2>2, <2>3, FreeSlot
  <2>5. reap(k) = r
    BY <1>0, <1>1 DEF reap
  <2> HIDE DEF r
  <2>6. Gone(r.tab[k.cur])
    BY <2>4 DEF Gone, FreePCB
  <2>7. Calm(k, r)
    BY <1>0, <1>1, <2>4, <2>6 DEF Calm, SameWait
  <2>8. \A x \in Slots : k.tab[x].state # "ZOMBIE" => r.tab[x] = k.tab[x]
    BY <1>1, <2>4
  <2> QED BY <2>5, <2>7, <2>8
<1>2. CASE k.tab[k.cur].state # "ZOMBIE"
  <2>1. reap(k) = k
    BY <1>2 DEF reap
  <2> QED BY <2>1, CalmSame
<1> QED BY <1>1, <1>2

\* The CPU goes to somebody who is awake.
LEMMA CalmDispatch ==
  ASSUME NEW k \in KernelType, NEW s \in Slots, k.tab[s].state \in Awake
  PROVE  /\ Calm(k, dispatch(k, s)) /\ dispatch(k, s).cur = s
         /\ dispatch(k, s).tab[s].state = "RUNNING"
         /\ \A x \in Slots \ {s} : dispatch(k, s).tab[x] = k.tab[x]
<1> DEFINE p == [k.tab[s] EXCEPT !.wait_ticks = 0, !.state = "RUNNING"]
           r == dispatch(k, s)
<1>1. k.tab \in [Slots -> PCB] /\ k.tab[s] \in PCB
  BY DEF KernelType
<1>2. SameWait(k.tab[s], p) /\ p.state = "RUNNING"
  BY <1>1 DEF PCB, SameWait, Awake
<1>3. r = [k EXCEPT !.tab[s] = p, !.cur = s]
  BY <1>1 DEF dispatch, KernelType
<1> HIDE DEF p, r
<1>4. /\ r.tab = [k.tab EXCEPT ![s] = p] /\ r.cur = s /\ r.idle = k.idle
      /\ r.kbd = k.kbd /\ r.waitq = k.waitq
  BY <1>1, <1>3 DEF KernelType
<1>5. r.tab[s] = p /\ \A x \in Slots \ {s} : r.tab[x] = k.tab[x]
  BY <1>1, <1>4
<1>6. Calm(k, r)
  BY <1>2, <1>4, <1>5 DEF Calm, SameWait
<1> QED BY <1>2, <1>4, <1>5, <1>6 DEF r

\* If the scheduler chooses idle, no queued process is READY.
LEMMA NobodyReady ==
  ASSUME NEW k, KInv(k), scheduler_next_ready(k).slot = k.idle
  PROVE  \A x \in Slots \ {k.idle} : k.tab[x].state # "READY"
<1> DEFINE C == Candidates(k)
           R == ReadyPositions(k)
           E == {eff(k.tab[k.rq[i]]) : i \in R}
<1>0. /\ k.rq \in Seq(Slots) /\ Len(k.rq) \in Nat /\ k.tab \in [Slots -> PCB]
      /\ \A i \in 1 .. Len(k.rq) : k.rq[i] \in Slots
      /\ k.idle \in Slots
  BY DEF KInv, KernelType
<1>1. C = {}
  <2> SUFFICES ASSUME C # {} PROVE FALSE
    OBVIOUS
  <2>1. \A i \in C : i \in 1 .. Len(k.rq)
    BY DEF Candidates, HighestPositions, ReadyPositions
  <2> DEFINE best(i) == \A j \in C : ScanDistance(k, i) <= ScanDistance(k, j)
             D == {ScanDistance(k, i) : i \in C}
             i0 == CHOOSE i \in C : best(i)
  <2> HIDE DEF C
  <2>2. \A i \in C : ScanDistance(k, i) \in Nat
    BY <1>0, <2>1 DEF ScanDistance, KInv, KernelType
  <2>3. D \in SUBSET Nat /\ D # {}
    BY <2>2
  <2>4. \E x \in D : \A y \in D : x <= y
    <3> HIDE DEF D
    <3> QED BY <2>3, LeastNat
  <2>5. \E i \in C : best(i)
    BY <2>4
  <2>6. i0 \in C
    BY <2>5
  <2>7. scheduler_next_ready(k) = [slot |-> k.rq[i0], idx |-> i0 - 1]
    BY DEF scheduler_next_ready, C
  <2> HIDE DEF i0
  <2>8. k.rq[i0] = k.idle /\ i0 \in 1 .. Len(k.rq)
    BY <2>1, <2>6, <2>7
  <2>9. Member(k.rq, k.idle)
    BY <2>8 DEF Member
  <2> QED BY <2>9, <1>0 DEF KInv, QueueOK
<1>2. HighestPositions(k) = {}
  BY <1>1 DEF Candidates
<1>3. \A i \in R : eff(k.tab[k.rq[i]]) \in Nat
                   /\ eff(k.tab[k.rq[i]]) <= MaxPriority + 1 + MaxAgingBonus
  <2> SUFFICES ASSUME NEW p \in PCB
               PROVE  eff(p) \in Nat /\ eff(p) <= MaxPriority + 1 + MaxAgingBonus
    BY <1>0 DEF ReadyPositions
  <2>1. /\ p.priority \in Nat /\ p.priority <= MaxPriority /\ p.wait_ticks \in Nat
    BY SchedulerAssumption, ConstantFacts DEF PCB
  <2>2. p.wait_ticks \div AgingInterval \in Nat
    BY <2>1, SchedulerAssumption
  <2>3. aging_bonus(p) \in Nat /\ aging_bonus(p) <= MaxAgingBonus
    BY <2>2, SchedulerAssumption DEF aging_bonus
  <2> QED BY <2>1, <2>3, SchedulerAssumption DEF eff
<1>4. R = {}
  <2> SUFFICES ASSUME R # {} PROVE FALSE
    OBVIOUS
  <2>1. /\ E \in SUBSET Nat /\ E # {}
        /\ \A x \in E : x <= MaxPriority + 1 + MaxAgingBonus
    BY <1>3
  <2>2. MaxPriority + 1 + MaxAgingBonus \in Nat
    BY SchedulerAssumption
  <2>3. \E x \in E : \A y \in E : y <= x
    <3> HIDE DEF E
    <3> QED BY <2>1, <2>2, GreatestNat
  <2>4. \E i \in R : \A j \in R : eff(k.tab[k.rq[j]]) <= eff(k.tab[k.rq[i]])
    BY <2>3
  <2> QED BY <2>4, <1>2 DEF HighestPositions
<1> SUFFICES ASSUME NEW x \in Slots \ {k.idle}, k.tab[x].state = "READY"
             PROVE  FALSE
  OBVIOUS
<1>5. Member(k.rq, x)
  BY DEF KInv, QueueOK
<1> QED BY <1>4, <1>5 DEF Member, ReadyPositions

\* What switch_to_next does: the reaper runs, then the process that
\* scheduler_next_ready chose gets the CPU.
LEMMA SwitchParts ==
  ASSUME NEW k, KInv(k), k.tab[k.cur].state # "RUNNING"
  PROVE  \E n, slot :
           /\ n \in KernelType /\ Calm(k, n)
           /\ \A x \in Slots : k.tab[x].state # "ZOMBIE" => n.tab[x] = k.tab[x]
           /\ slot \in Slots /\ slot = scheduler_next_ready(k).slot
           /\ slot = k.idle \/ k.tab[slot].state = "READY"
           /\ switch_to_next(k) = dispatch(n, slot)
<1> DEFINE next == scheduler_next_ready(k)
           slot == next.slot
           idx == next.idx
           m == [k EXCEPT !.idx = idx]
           n == reap(m)
<1>0. k \in KernelType /\ k.idle \in Slots
  BY DEF KInv, KernelType
<1>1. /\ slot \in Slots
      /\ slot = k.idle \/ k.tab[slot].state = "READY"
      /\ idx \in Nat /\ IdxOK(k.rq, idx)
  BY NextReady
<1>2. slot # NULL
  BY <1>1, ConstantFacts
<1>3. switch_to_next(k) = dispatch(n, slot)
  BY <1>2 DEF switch_to_next
<1> HIDE DEF slot, idx
<1>4. /\ m \in KernelType
      /\ m.tab = k.tab /\ m.rq = k.rq /\ m.idx = idx /\ m.cur = k.cur
      /\ m.idle = k.idle /\ m.npid = k.npid /\ m.kbd = k.kbd
      /\ m.waitq = k.waitq
  BY <1>0, <1>1 DEF KernelType
<1> HIDE DEF m
<1>5. KInv(m)
  BY <1>1, <1>4 DEF KInv, QueueOK, SortedOK, PidsOK, IdleOK, CpuOK, WaitOK, Alive
<1>6. KInv(n)
  BY <1>4, <1>5, Reap
<1>7. /\ Calm(m, n)
      /\ \A x \in Slots : m.tab[x].state # "ZOMBIE" => n.tab[x] = m.tab[x]
  BY <1>5, CalmReap
<1> HIDE DEF n
<1>8. Calm(k, n)
  <2>1. Calm(k, m)
    BY <1>4, CalmSame
  <2> QED BY <2>1, <1>7, CalmTrans
<1>9. slot = scheduler_next_ready(k).slot
  BY DEF slot
<1>10. n \in KernelType
  BY <1>6 DEF KInv
<1>11. \A x \in Slots : k.tab[x].state # "ZOMBIE" => n.tab[x] = k.tab[x]
  BY <1>4, <1>7
<1> QED BY <1>1, <1>3, <1>8, <1>9, <1>10, <1>11

\* A switch is scheduling.
LEMMA CalmSwitch ==
  ASSUME NEW k, KInv(k), WaitInv(k), k.tab[k.cur].state # "RUNNING"
  PROVE  Calm(k, switch_to_next(k))
<1>1. PICK n, slot :
        /\ n \in KernelType /\ Calm(k, n)
        /\ \A x \in Slots : k.tab[x].state # "ZOMBIE" => n.tab[x] = k.tab[x]
        /\ slot \in Slots
        /\ slot = k.idle \/ k.tab[slot].state = "READY"
        /\ switch_to_next(k) = dispatch(n, slot)
  BY SwitchParts
<1>2. k.idle \in Slots /\ k.tab[k.idle].state \in States
  BY DEF KInv, KernelType, PCB
<1>3. k.tab[k.idle].state \in Awake
  BY <1>2 DEF KInv, IdleOK, PidsOK, WaitInv, States, Awake, IdlePid
<1>4. k.tab[slot].state \in Awake
  BY <1>1, <1>3 DEF Awake
<1>5. n.tab[slot].state \in Awake
  BY <1>1, <1>4 DEF Awake
<1>6. Calm(n, dispatch(n, slot))
  BY <1>1, <1>5, CalmDispatch
<1> QED BY <1>1, <1>6, CalmTrans

\* Idle, if it has the CPU, has it because nobody else can use it.
Quiet(k) == k.cur = k.idle => \A x \in Slots \ {k.idle} : k.tab[x].state # "READY"

\* Of idle, what the timer looks at.
SameQuantum(k, r) ==
  /\ r.idle = k.idle
  /\ r.tab[k.idle].priority = k.tab[k.idle].priority
  /\ r.tab[k.idle].remaining_quanta = k.tab[k.idle].remaining_quanta

\* A switch gives the CPU to idle only when nobody else is READY.
LEMMA QuietSwitch ==
  ASSUME NEW k, KInv(k), k.tab[k.cur].state # "RUNNING"
  PROVE  Quiet(switch_to_next(k)) /\ SameQuantum(k, switch_to_next(k))
<1>1. PICK n, slot :
        /\ n \in KernelType /\ Calm(k, n)
        /\ \A x \in Slots : k.tab[x].state # "ZOMBIE" => n.tab[x] = k.tab[x]
        /\ slot \in Slots /\ slot = scheduler_next_ready(k).slot
        /\ switch_to_next(k) = dispatch(n, slot)
  BY SwitchParts
<1> DEFINE p == [n.tab[slot] EXCEPT !.wait_ticks = 0, !.state = "RUNNING"]
           r == dispatch(n, slot)
<1>2. n.tab \in [Slots -> PCB] /\ n.tab[slot] \in PCB /\ n.idle = k.idle
  BY <1>1 DEF KernelType, Calm
<1>3. /\ p.priority = n.tab[slot].priority
      /\ p.remaining_quanta = n.tab[slot].remaining_quanta
  BY <1>2 DEF PCB
<1>4. r = [n EXCEPT !.tab[slot] = p, !.cur = slot]
  BY <1>1, <1>2 DEF dispatch, KernelType
<1> HIDE DEF p, r
<1>5. /\ r.tab = [n.tab EXCEPT ![slot] = p] /\ r.cur = slot /\ r.idle = n.idle
  BY <1>1, <1>2, <1>4 DEF KernelType
<1>6. r.tab[slot] = p /\ \A x \in Slots \ {slot} : r.tab[x] = n.tab[x]
  BY <1>1, <1>2, <1>5
<1>7. Quiet(r)
  <2> SUFFICES ASSUME r.cur = r.idle, NEW x \in Slots \ {r.idle}
               PROVE  r.tab[x].state # "READY"
    BY DEF Quiet
  <2>1. slot = k.idle /\ x \in Slots \ {k.idle}
    BY <1>2, <1>5
  <2>2. k.tab[x].state # "READY" /\ k.tab[x].state # "RUNNING"
    BY <1>1, <2>1, NobodyReady DEF KInv, CpuOK
  <2>3. n.tab[x].state # "READY"
    BY <1>1, <2>1, <2>2 DEF Calm, Gone, SameWait, Awake
  <2> QED BY <1>6, <2>1, <2>3
<1>8. SameQuantum(k, r)
  <2>1. k.idle \in Slots /\ n.tab[k.idle] = k.tab[k.idle]
    BY <1>1 DEF KInv, KernelType, IdleOK
  <2> QED BY <1>2, <1>3, <1>5, <1>6, <2>1 DEF SameQuantum
<1> QED BY <1>1, <1>7, <1>8 DEF r

\* A preempted process keeps its wait.
LEMMA CalmPreempt ==
  ASSUME NEW k, KInv(k), NEW st, NEW r, r = Preempted(k, st),
         st = k.tab[k.cur].state \/ (k.tab[k.cur].state = "RUNNING" /\ st = "READY")
  PROVE  KInv(r) /\ r.tab[r.cur].state = st /\ Calm(k, r)
<1>1. /\ KInv(r) /\ r.tab[k.cur] = NewQuantum(k, st) /\ NewQuantum(k, st).state = st
      /\ \A x \in Slots \ {k.cur} : r.tab[x] = k.tab[x]
      /\ r.cur = k.cur /\ r.idle = k.idle /\ r.kbd = k.kbd /\ r.waitq = k.waitq
  BY PreemptState DEF Alive
<1>2. k.cur \in Slots /\ k.tab[k.cur] \in PCB
  BY DEF KInv, KernelType
<1>3. SameWait(k.tab[k.cur], NewQuantum(k, st))
  BY <1>2 DEF NewQuantum, SameWait, PCB, Awake
<1>4. Calm(k, r)
  BY <1>1, <1>2, <1>3 DEF Calm, SameWait
<1> QED BY <1>1, <1>4

\* A yield is scheduling.
LEMMA CalmYield ==
  ASSUME NEW k, KInv(k), WaitInv(k)
  PROVE  Calm(k, scheduler_yield_impl(k))
<1> DEFINE c == k.tab[k.cur]
           st == IF c.state = "RUNNING" THEN "READY" ELSE c.state
           r == Preempted(k, st)
<1>1. k.cur # NULL /\ k \in KernelType
  BY ConstantFacts DEF KInv, KernelType
<1>2. scheduler_yield_impl(k) = switch_to_next(r)
  BY <1>1 DEF scheduler_yield_impl, Preempted, NewQuantum
<1>3. st # "RUNNING" /\ (st = c.state \/ (c.state = "RUNNING" /\ st = "READY"))
  OBVIOUS
<1> HIDE DEF st
<1>4. KInv(r) /\ r.tab[r.cur].state = st /\ Calm(k, r)
  BY <1>3, CalmPreempt
<1> HIDE DEF r
<1>5. WaitInv(r)
  BY <1>1, <1>4, CalmInv
<1>6. Calm(r, switch_to_next(r))
  BY <1>3, <1>4, <1>5, CalmSwitch
<1> QED BY <1>2, <1>4, <1>6, CalmTrans

\* So is the way out of an interrupt.
LEMMA CalmIrq ==
  ASSUME NEW k, Mid(k), WaitInv(k)
  PROVE  Calm(k, irq_return(k))
<1>1. CASE k.force
  <2> DEFINE r == [k EXCEPT !.force = FALSE]
  <2>1. irq_return(k) = scheduler_yield_impl(r)
    BY <1>1 DEF irq_return
  <2>2. KInv(r)
    BY ForceCleared DEF Mid
  <2>3. /\ k \in KernelType /\ r.tab = k.tab /\ r.kbd = k.kbd /\ r.waitq = k.waitq
        /\ r.idle = k.idle
    BY DEF Mid, KInv, KernelType
  <2> HIDE DEF r
  <2>4. Calm(k, r)
    BY <2>3, CalmSame
  <2>5. Calm(r, scheduler_yield_impl(r))
    BY <2>2, <2>3, <2>4, CalmInv, CalmYield
  <2> QED BY <2>1, <2>4, <2>5, CalmTrans
<1>2. CASE ~k.force
  <2>1. irq_return(k) = k
    BY <1>2 DEF irq_return
  <2> QED BY <2>1, CalmSame
<1> QED BY <1>1, <1>2

\* Aging counts ticks and nothing else.
LEMMA CalmAge ==
  ASSUME NEW k \in KernelType
  PROVE  Calm(k, age(k)) /\ SameQuantum(k, age(k)) /\ age(k).cur = k.cur
<1> DEFINE older(s) == [k.tab[s] EXCEPT !.wait_ticks = @ + 1]
           r == age(k)
<1>1. k.tab \in [Slots -> PCB] /\ k.idle \in Slots
  BY DEF KernelType
<1>2. ASSUME NEW s \in Slots
      PROVE  /\ SameWait(k.tab[s], older(s))
             /\ older(s).priority = k.tab[s].priority
             /\ older(s).remaining_quanta = k.tab[s].remaining_quanta
  <2> DEFINE p == k.tab[s]
             q == [p EXCEPT !.wait_ticks = p.wait_ticks + 1]
  <2>1. p \in PCB /\ older(s) = q
    BY <1>1
  <2> HIDE DEF p
  <2>2. /\ q.pid = p.pid /\ q.waiting_for = p.waiting_for /\ q.state = p.state
        /\ q.parent_pid = p.parent_pid /\ q.priority = p.priority
        /\ q.remaining_quanta = p.remaining_quanta
    BY <2>1 DEF PCB
  <2> QED BY <2>1, <2>2 DEF SameWait, p
<1>3. \A s \in Slots : r.tab[s] \in {k.tab[s], older(s)}
  BY <1>1 DEF age, KernelType
<1>4. r.kbd = k.kbd /\ r.waitq = k.waitq /\ r.idle = k.idle /\ r.cur = k.cur
  BY DEF age, KernelType
<1> HIDE DEF r, older
<1>5. \A s \in Slots : /\ SameWait(k.tab[s], r.tab[s])
                       /\ r.tab[s].priority = k.tab[s].priority
                       /\ r.tab[s].remaining_quanta = k.tab[s].remaining_quanta
  BY <1>2, <1>3 DEF SameWait
<1> QED BY <1>1, <1>4, <1>5 DEF Calm, SameQuantum, r

\* A tick, but for the process whose quantum it uses up, is scheduling.
LEMMA CalmTick ==
  ASSUME NEW k, Done(k), WaitInv(k)
  PROVE  Calm(k, scheduler_tick(k))
<1> DEFINE a == age(k)
           c == a.tab[a.cur]
           q == c.remaining_quanta
           t == scheduler_tick(k)
<1>1. Done(a) /\ Calm(k, a) /\ k \in KernelType
  BY Age, CalmAge, DoneFacts
<1> HIDE DEF a
<1>2. /\ a \in KernelType /\ a.cur \in Slots /\ a.cur # NULL /\ KInv(a)
      /\ WaitInv(a) /\ c \in PCB
  BY <1>1, DoneFacts, CalmInv DEF Mid, KernelType
<1>3. CASE c.state = "RUNNING" /\ q > 1
  <2> DEFINE p == [c EXCEPT !.remaining_quanta = q - 1]
             r == [a EXCEPT !.tab[a.cur].remaining_quanta = q - 1]
  <2>1. t = r
    BY <1>2, <1>3 DEF scheduler_tick, a
  <2>2. r = [a EXCEPT !.tab[a.cur] = p]
    BY <1>2 DEF KernelType
  <2>3. SameWait(c, p)
    BY <1>2 DEF PCB, SameWait
  <2> HIDE DEF r, p
  <2>4. /\ r.tab[a.cur] = p /\ \A x \in Slots \ {a.cur} : r.tab[x] = a.tab[x]
        /\ r.kbd = a.kbd /\ r.waitq = a.waitq /\ r.idle = a.idle
    BY <1>2, <2>2 DEF KernelType
  <2>5. Calm(a, r)
    BY <1>2, <2>3, <2>4 DEF Calm, SameWait
  <2> QED BY <1>1, <2>1, <2>5, CalmTrans
<1>4. CASE c.state = "RUNNING" /\ ~(q > 1)
  <2> DEFINE r == Preempted(a, "READY")
  <2>1. t = switch_to_next(r)
    BY <1>2, <1>4 DEF scheduler_tick, a, Preempted, NewQuantum
  <2>2. KInv(r) /\ r.tab[r.cur].state = "READY" /\ Calm(a, r)
    BY <1>2, <1>4, CalmPreempt
  <2> HIDE DEF r
  <2>3. Calm(r, switch_to_next(r))
    BY <1>2, <2>2, CalmInv, CalmSwitch
  <2>4. Calm(a, switch_to_next(r))
    BY <2>2, <2>3, CalmTrans
  <2> QED BY <1>1, <2>1, <2>4, CalmTrans
<1>5. CASE c.state # "RUNNING"
  <2>1. t = switch_to_next(a)
    BY <1>5 DEF scheduler_tick, a
  <2>2. Calm(a, switch_to_next(a))
    BY <1>2, <1>5, CalmSwitch
  <2> QED BY <1>1, <2>1, <2>2, CalmTrans
<1> QED BY <1>3, <1>4, <1>5

(***************************************************************************)
(* What the operations of the kernel do to waits                           *)
(***************************************************************************)
\* An operation keeps the CPU where it is and does not touch idle's quantum.
Steady(k, r) == SameQuantum(k, r) /\ r.cur = k.cur

\* What a handler may do before it returns from the interrupt.
Step(k, r) ==
  /\ Mid(r) /\ Steady(k, r)
  /\ Meddle = FALSE /\ WaitInv(k) => WaitInv(r) /\ Served(k, r)

\* Nothing but the table and force_switch changes.
Rest(k, r) == /\ r.cur = k.cur /\ r.idle = k.idle
              /\ r.kbd = k.kbd /\ r.waitq = k.waitq

\* Nothing but the state and the aging of a process changes.
SameButState(p, q) ==
  /\ q.pid = p.pid /\ q.waiting_for = p.waiting_for
  /\ q.parent_pid = p.parent_pid /\ q.priority = p.priority
  /\ q.remaining_quanta = p.remaining_quanta

\* The waits of everybody but s are what they were, or over.
Elsewhere(k, r, s) ==
  \A x \in Slots \ {s} :
    /\ r.tab[x] = k.tab[x]
    /\ InQueues(r, x) => InQueues(k, x)
    /\ r.kbd = x => k.kbd = x

\* Only the wait of s has to be looked at.
LEMMA SlotWait ==
  ASSUME NEW k \in KernelType, WaitInv(k), NEW r, r.idle = k.idle,
         NEW s \in Slots, Elsewhere(k, r, s), OneWaitAt(r, s),
         s = k.idle => r.tab[s].state # "BLOCKED"
  PROVE  WaitInv(r)
<1>1. ASSUME NEW x \in Slots \ {s} PROVE OneWaitAt(r, x)
  <2>1. OneWaitAt(k, x)
    BY DEF WaitInv
  <2>2. /\ r.tab[x] = k.tab[x] /\ (InQueues(r, x) => InQueues(k, x))
        /\ (r.kbd = x => k.kbd = x)
    BY DEF Elsewhere
  <2> QED BY <2>1, <2>2 DEF OneWaitAt, InWait
<1>2. \A x \in Slots : OneWaitAt(r, x)
  BY <1>1
<1>3. k.idle \in Slots /\ k.tab[k.idle].state # "BLOCKED"
  BY DEF KernelType, WaitInv
<1>4. r.tab[r.idle].state # "BLOCKED"
  <2>1. CASE k.idle = s
    BY <2>1
  <2>2. CASE k.idle # s
    BY <1>3, <2>2 DEF Elsewhere
  <2> QED BY <2>1, <2>2
<1> QED BY <1>2, <1>4 DEF WaitInv

\* One PCB has changed.
Changed(k, r, s, p) ==
  /\ Rest(k, r) /\ r.tab[s] = p
  /\ \A x \in Slots \ {s} : r.tab[x] = k.tab[x]

\* That is what SetPCB does.
LEMMA SetPCBEffect ==
  ASSUME NEW k \in KernelType, NEW s \in Slots, NEW p, NEW force \in BOOLEAN
  PROVE  Changed(k, SetPCB(k, s, p, force), s, p)
<1> DEFINE r == SetPCB(k, s, p, force)
<1>1. r.tab = [k.tab EXCEPT ![s] = p] /\ Rest(k, r)
  BY DEF KernelType, SetPCB, Rest
<1> QED BY <1>1 DEF KernelType, Changed

\* Of the processes whose pid is in W, those that are BLOCKED become READY.
Woke(k, r, W) ==
  /\ Rest(k, r)
  /\ \A s \in Slots :
       IF k.tab[s].state = "BLOCKED" /\ k.tab[s].pid \in W
       THEN r.tab[s].state = "READY" /\ SameButState(k.tab[s], r.tab[s])
       ELSE r.tab[s] = k.tab[s]

\* That is what unblock_all does.
LEMMA UnblockEffect ==
  ASSUME NEW k \in KernelType, NEW W
  PROVE  Woke(k, unblock_all(k, W), W)
<1> DEFINE r == unblock_all(k, W)
           wake(s) == [k.tab[s] EXCEPT !.state = "READY", !.wait_ticks = 0]
<1>1. k.tab \in [Slots -> PCB]
  BY DEF KernelType
<1>2. ASSUME NEW s \in Slots
      PROVE  wake(s).state = "READY" /\ SameButState(k.tab[s], wake(s))
  <2>1. k.tab[s] \in PCB
    BY <1>1
  <2> QED BY <2>1 DEF PCB, SameButState
<1>3. Rest(k, r)
  BY DEF unblock_all, KernelType, Rest
<1>4. r.tab = [s \in Slots |-> IF k.tab[s].pid \in W /\ k.tab[s].state = "BLOCKED"
                               THEN wake(s) ELSE k.tab[s]]
  BY DEF unblock_all, KernelType, Pid
<1> HIDE DEF wake, r
<1>5. \A s \in Slots :
       IF k.tab[s].state = "BLOCKED" /\ k.tab[s].pid \in W
       THEN r.tab[s].state = "READY" /\ SameButState(k.tab[s], r.tab[s])
       ELSE r.tab[s] = k.tab[s]
  BY <1>2, <1>4
<1> QED BY <1>3, <1>5 DEF Woke, r

\* Waking processes that wait for nothing leaves the waits as they are.
LEMMA WokeWait ==
  ASSUME NEW k \in KernelType, WaitInv(k), NEW W, NEW r, Woke(k, r, W),
         \A s \in Slots : k.tab[s].state = "BLOCKED" /\ k.tab[s].pid \in W
                          => NoWait(k, s)
  PROVE  WaitInv(r)
<1>1. ASSUME NEW s \in Slots PROVE OneWaitAt(r, s)
  <2>1. CASE k.tab[s].state = "BLOCKED" /\ k.tab[s].pid \in W
    <3>1. NoWait(k, s) /\ SameButState(k.tab[s], r.tab[s]) /\ Rest(k, r)
      BY <2>1 DEF Woke
    <3>2. NoWait(r, s)
      BY <2>1, <3>1 DEF NoWait, SameButState, Rest, InWait, InQueues
    <3> QED BY <3>2, NoWaitAt
  <2>2. CASE ~(k.tab[s].state = "BLOCKED" /\ k.tab[s].pid \in W)
    <3>1. r.tab[s] = k.tab[s] /\ Rest(k, r)
      BY <2>2 DEF Woke
    <3>2. OneWaitAt(k, s)
      BY DEF WaitInv
    <3> QED BY <3>1, <3>2, Untouched DEF Rest
  <2> QED BY <2>1, <2>2
<1>2. r.tab[r.idle].state # "BLOCKED"
  BY DEF KernelType, WaitInv, Woke, Rest
<1> QED BY <1>1, <1>2 DEF WaitInv

\* It does not touch idle's quantum or anybody's life either.
LEMMA WokeSteady ==
  ASSUME NEW k \in KernelType, NEW W, NEW r, Woke(k, r, W)
  PROVE  /\ Steady(k, r)
         /\ (\A s \in Slots : k.tab[s].state # "ZOMBIE") => AllKept(k, r)
<1>1. k.idle \in Slots
  BY DEF KernelType
<1>2. Steady(k, r)
  BY <1>1 DEF Woke, Rest, Steady, SameQuantum, SameButState
<1>3. (\A s \in Slots : k.tab[s].state # "ZOMBIE") => AllKept(k, r)
  BY DEF Woke, AllKept, SameButState
<1> QED BY <1>2, <1>3

\* A handler may do nothing.
LEMMA SameStep ==
  ASSUME NEW k, Done(k)
  PROVE  Step(k, k)
<1>1. Mid(k) /\ \A x \in Slots : k.tab[x].state # "ZOMBIE"
  BY DoneFacts
<1>2. AllKept(k, k)
  BY <1>1 DEF AllKept
<1> QED BY <1>1, <1>2, KeptServed DEF Step, Steady, SameQuantum

\* An operation on process s that does not end it.
OnlySlot(k, r, s) ==
  /\ r.cur = k.cur /\ r.idle = k.idle
  /\ \A x \in Slots \ {s} : r.tab[x] = k.tab[x]
  /\ r.tab[s].pid = k.tab[s].pid /\ r.tab[s].state # "ZOMBIE"
  /\ s = k.idle => /\ r.tab[s].state # "BLOCKED"
                   /\ r.tab[s].priority = k.tab[s].priority
                   /\ r.tab[s].remaining_quanta = k.tab[s].remaining_quanta

\* It leaves s with one wait at most, and nobody else with a new one.
KeepsWaits(k, r, s) ==
  Meddle = FALSE /\ WaitInv(k) => Elsewhere(k, r, s) /\ OneWaitAt(r, s)

\* That is a step.
LEMMA SetStep ==
  ASSUME NEW k, Done(k), NEW r, Mid(r), NEW s \in Slots,
         OnlySlot(k, r, s), KeepsWaits(k, r, s)
  PROVE  Step(k, r)
<1>1. /\ k \in KernelType /\ k.idle \in Slots
      /\ \A x \in Slots : k.tab[x].state # "ZOMBIE"
  BY DoneFacts DEF KernelType
<1>2. Steady(k, r)
  BY <1>1 DEF OnlySlot, Steady, SameQuantum
<1>3. Served(k, r)
  <2>1. AllKept(k, r)
    BY <1>1 DEF OnlySlot, AllKept
  <2> QED BY <2>1, KeptServed
<1>4. Meddle = FALSE /\ WaitInv(k) => WaitInv(r)
  BY <1>1, SlotWait DEF OnlySlot, KeepsWaits
<1> QED BY <1>2, <1>3, <1>4 DEF Step

\* The current process yields.
LEMMA YieldStep ==
  ASSUME NEW k, Done(k), NEW r,
         r = [k EXCEPT !.tab[k.cur].state = "READY", !.force = TRUE]
  PROVE  Step(k, r)
<1> DEFINE s == k.cur
           p == [k.tab[s] EXCEPT !.state = "READY"]
<1>0. k \in KernelType /\ s \in Slots /\ Alive(k, s) /\ Mid(k) /\ k.tab[s] \in PCB
  BY DoneFacts DEF KernelType
<1>1. r = SetPCB(k, s, p, TRUE)
  BY <1>0 DEF SetPCB, KernelType
<1>2. /\ p \in PCB /\ SameButState(k.tab[s], p) /\ p.state = "READY"
      /\ p.foreground = k.tab[s].foreground
  BY <1>0 DEF PCB, States, SameButState
<1> HIDE DEF p
<1>3. Mid(r)
  <2>1. /\ p.pid = k.tab[s].pid /\ p.priority = k.tab[s].priority
        /\ p \in PCB /\ p.foreground = k.tab[s].foreground
        /\ p.state \in {"READY", "BLOCKED"} /\ p.state # "BLOCKED"
    BY <1>2 DEF SameButState
  <2>2. Mid(SetPCB(k, s, p, TRUE))
    BY ONLY <2>1, <1>0, SetPCBMid
  <2> QED BY <1>1, <2>2
<1>4. Rest(k, r) /\ r.tab[s] = p /\ \A x \in Slots \ {s} : r.tab[x] = k.tab[x]
  <2>1. Changed(k, r, s, p)
    BY <1>0, <1>1, SetPCBEffect
  <2> QED BY <2>1 DEF Changed
<1>5. ASSUME WaitInv(k) PROVE Elsewhere(k, r, s) /\ OneWaitAt(r, s)
  <2>1. NoWait(k, s)
    BY <1>0, <1>5, AwakeNoWait DEF Done
  <2>2. NoWait(r, s)
    BY <1>2, <1>4, <2>1, <1>0 DEF NoWait, InWait, InQueues, Rest, SameButState, Alive
  <2>3. Elsewhere(k, r, s)
    BY <1>4 DEF Elsewhere, Rest, InQueues
  <2> QED BY <2>2, <2>3, NoWaitAt
<1>6. OnlySlot(k, r, s) /\ KeepsWaits(k, r, s)
  BY <1>2, <1>4, <1>5 DEF Rest, SameButState, OnlySlot, KeepsWaits
<1> QED BY <1>0, <1>3, <1>6, SetStep

\* The current process waits for another.
LEMMA WaitpidStep ==
  ASSUME NEW k, Done(k), k.cur # k.idle, NEW pid \in Nat
  PROVE  Step(k, process_waitpid(k, pid))
<1> DEFINE s == k.cur
           child == process_get(k, pid)
           p == [k.tab[s] EXCEPT !.state = "BLOCKED", !.waiting_for = pid]
           r == process_waitpid(k, pid)
<1>0. /\ k \in KernelType /\ s \in Slots /\ s # NULL /\ Alive(k, s) /\ Mid(k)
      /\ k.tab[s] \in PCB /\ \A x \in Slots : k.tab[x].state # "ZOMBIE"
  BY DoneFacts DEF KernelType
<1>1. Mid(r)
  BY ProcessWaitpid
<1>2. CASE child = NULL
  <2>1. r = k
    BY <1>2 DEF process_waitpid
  <2> QED BY <2>1, SameStep
<1>3. CASE child # NULL
  <2>1. k.tab[child].state # "ZOMBIE"
    BY <1>0, <1>3, ProcessGet
  <2>2. r = SetPCB(k, s, p, TRUE)
    BY <1>0, <1>3, <2>1 DEF process_waitpid, SetPCB, KernelType
  <2>3. /\ p \in PCB /\ p.pid = k.tab[s].pid
        /\ p.state = "BLOCKED" /\ p.waiting_for = pid
    BY <1>0 DEF PCB, States
  <2> HIDE DEF p, r
  <2>4. Rest(k, r) /\ r.tab[s] = p /\ \A x \in Slots \ {s} : r.tab[x] = k.tab[x]
    <3>1. Changed(k, r, s, p)
      BY <1>0, <2>2, SetPCBEffect
    <3> QED BY <3>1 DEF Changed
  <2>5. ASSUME WaitInv(k) PROVE Elsewhere(k, r, s) /\ OneWaitAt(r, s)
    <3>1. NoWait(k, s)
      BY <1>0, <2>5, AwakeNoWait DEF Done
    <3>2. ~InQueues(r, s) /\ r.kbd # s
      BY <1>0, <2>3, <2>4, <3>1 DEF NoWait, InQueues, Rest, Alive
    <3>3. OneWaitAt(r, s)
      BY <3>2, <2>3, <2>4 DEF OneWaitAt
    <3>4. Elsewhere(k, r, s)
      BY <2>4 DEF Elsewhere, Rest, InQueues
    <3> QED BY <3>3, <3>4
  <2>6. OnlySlot(k, r, s) /\ KeepsWaits(k, r, s)
    BY <2>3, <2>4, <2>5 DEF Rest, OnlySlot, KeepsWaits
  <2>7. Step(k, r)
    BY <1>0, <1>1, <2>6, SetStep
  <2> QED BY <2>7 DEF r
<1> QED BY <1>2, <1>3

\* process_get finds the slot of a live process: there is only one.
LEMMA GetUnique ==
  ASSUME NEW k, KInv(k), NEW s \in Slots, k.tab[s].state # "FREE"
  PROVE  process_get(k, k.tab[s].pid) = s
<1> DEFINE pid == k.tab[s].pid
           found == {x \in Slots : Pid(k, x) = pid /\ Live(k, x)}
<1>1. pid # 0 /\ \A x \in Slots : k.tab[x].pid = pid => x = s
  BY DEF KInv, PidsOK
<1>2. found = {s}
  BY <1>1 DEF Pid, Live
<1>3. process_get(k, pid) = CHOOSE x \in found : TRUE
  BY <1>1, <1>2 DEF process_get
<1> QED BY <1>2, <1>3

\* A process that runs or may run is blocked by somebody.
LEMMA BlockStep ==
  ASSUME NEW k, Done(k), NEW pid, process_get(k, pid) # k.idle
  PROVE  Step(k, process_block(k, pid))
<1> DEFINE s == process_get(k, pid)
           p == [k.tab[s] EXCEPT !.state = "BLOCKED"]
           r == process_block(k, pid)
<1>0. k \in KernelType /\ Mid(k)
  BY DoneFacts
<1>1. Mid(r)
  BY <1>0, ProcessBlock
<1>2. CASE s = NULL \/ k.tab[s].state \in {"ZOMBIE", "BLOCKED"}
  <2>1. r = k
    BY <1>2 DEF process_block
  <2> QED BY <2>1, SameStep
<1>3. CASE ~(s = NULL \/ k.tab[s].state \in {"ZOMBIE", "BLOCKED"})
  <2>1. s \in Slots /\ k.tab[s].state # "FREE" /\ k.tab[s].state # "BLOCKED"
    BY <1>0, <1>3, ProcessGet
  <2>2. k.tab[s] \in PCB /\ (k.force \/ s = k.cur) \in BOOLEAN
    BY <1>0, <2>1 DEF KernelType
  <2>3. r = SetPCB(k, s, p, k.force \/ s = k.cur)
    BY <1>0, <1>3 DEF process_block, SetPCB, KernelType
  <2>4. p.pid = k.tab[s].pid /\ p.state = "BLOCKED" /\ p.waiting_for = k.tab[s].waiting_for
    BY <2>2 DEF PCB
  <2>5. s # k.idle
    OBVIOUS
  <2> HIDE DEF s, p, r
  <2>6. Changed(k, r, s, p)
    BY <1>0, <2>1, <2>2, <2>3, SetPCBEffect
  <2>7. ASSUME WaitInv(k) PROVE Elsewhere(k, r, s) /\ OneWaitAt(r, s)
    <3>1. NoWait(k, s)
      BY <2>1, <2>7, AwakeNoWait
    <3>2. NoWait(r, s)
      BY <2>1, <2>4, <2>6, <3>1 DEF Changed, Rest, NoWait, InWait, InQueues
    <3>3. Elsewhere(k, r, s)
      BY <2>6 DEF Changed, Elsewhere, Rest, InQueues
    <3> QED BY <3>2, <3>3, NoWaitAt
  <2>8. OnlySlot(k, r, s) /\ KeepsWaits(k, r, s)
    BY <2>4, <2>5, <2>6, <2>7 DEF Changed, Rest, OnlySlot, KeepsWaits
  <2>9. Step(k, r)
    BY <1>1, <2>1, <2>8, SetStep
  <2> QED BY <2>9 DEF r
<1> QED BY <1>2, <1>3

\* A process that waits for nothing is unblocked by somebody.
LEMMA UnblockStep ==
  ASSUME NEW k, Done(k), NEW pid,
         Meddle = FALSE /\ WaitInv(k) =>
           \A s \in Slots : k.tab[s].state = "BLOCKED" /\ k.tab[s].pid = pid
                            => NoWait(k, s)
  PROVE  Step(k, process_unblock(k, pid))
<1> DEFINE r == process_unblock(k, pid)
<1>0. k \in KernelType /\ Mid(k) /\ \A x \in Slots : k.tab[x].state # "ZOMBIE"
  BY DoneFacts
<1>1. Mid(r)
  BY <1>0, ProcessUnblock
<1>2. CASE pid = 0
  <2>1. r = k
    BY <1>2 DEF process_unblock
  <2> QED BY <2>1, SameStep
<1>3. CASE pid # 0
  <2>1. r = unblock_all(k, {pid})
    BY <1>3 DEF process_unblock
  <2>2. Woke(k, r, {pid})
    BY <1>0, <2>1, UnblockEffect
  <2> HIDE DEF r
  <2>3. Steady(k, r) /\ AllKept(k, r)
    BY <1>0, <2>2, WokeSteady
  <2>4. Meddle = FALSE /\ WaitInv(k) => WaitInv(r)
    BY <1>0, <2>2, WokeWait
  <2>5. Step(k, r)
    BY <1>1, <2>3, <2>4, KeptServed DEF Step
  <2> QED BY <2>5 DEF r
<1> QED BY <1>2, <1>3

\* The current process goes to sleep in the queue of a semaphore or a pipe.
LEMMA QueueStep ==
  ASSUME NEW k, Done(k), k.cur # k.idle, NEW pid, pid = k.tab[k.cur].pid
  PROVE  Step(k, process_block(Queued(k, pid), pid))
<1> DEFINE s == k.cur
           m == Queued(k, pid)
           p == [k.tab[s] EXCEPT !.state = "BLOCKED"]
           r == process_block(m, pid)
<1>0. k \in KernelType /\ s \in Slots /\ Alive(k, s) /\ KInv(k) /\ k.tab[s] \in PCB
  BY DoneFacts DEF KernelType, Mid
<1>1. Mid(m)
  BY EnterQueue
<1>2. /\ m.tab = k.tab /\ m.cur = k.cur /\ m.idle = k.idle /\ m.kbd = k.kbd
      /\ m.waitq = k.waitq \cup {pid} /\ m.force = k.force
  BY <1>0 DEF KernelType, Queued
<1>3. Mid(r)
  BY <1>1, ProcessBlock
<1> HIDE DEF m
<1>4. m \in KernelType /\ KInv(m)
  BY <1>1 DEF Mid, KInv
<1>5. process_get(m, pid) = s
  BY <1>0, <1>2, <1>4, GetUnique DEF Alive
<1>6. s # NULL /\ k.tab[s].state \notin {"ZOMBIE", "BLOCKED"} /\ k.tab[s].state # "FREE"
  BY <1>0, ConstantFacts DEF Done
<1>7. r = SetPCB(m, s, p, m.force \/ s = m.cur)
  BY <1>2, <1>4, <1>5, <1>6 DEF process_block, SetPCB, KernelType
<1>8. p.pid = pid /\ p.state = "BLOCKED" /\ p.waiting_for = k.tab[s].waiting_for
  BY <1>0 DEF PCB
<1>9. (m.force \/ s = m.cur) \in BOOLEAN
  BY <1>4 DEF KernelType
<1> HIDE DEF p, r
<1>10. Changed(m, r, s, p)
  BY <1>0, <1>4, <1>7, <1>9, SetPCBEffect
<1>11. /\ r.tab[s] = p /\ \A x \in Slots \ {s} : r.tab[x] = k.tab[x]
       /\ r.cur = k.cur /\ r.idle = k.idle /\ r.kbd = k.kbd
       /\ r.waitq = k.waitq \cup {pid}
  BY <1>2, <1>10 DEF Changed, Rest
<1>12. ASSUME WaitInv(k) PROVE Elsewhere(k, r, s) /\ OneWaitAt(r, s)
  <2>1. NoWait(k, s)
    BY <1>0, <1>6, <1>12, AwakeNoWait
  <2>2. ~InWait(r, s) /\ r.kbd # s
    BY <1>8, <1>11, <2>1 DEF NoWait, InWait
  <2>3. OneWaitAt(r, s)
    BY <1>8, <1>11, <2>2 DEF OneWaitAt
  <2>4. \A x \in Slots \ {s} : k.tab[x].pid # pid
    BY <1>0, <1>6 DEF KInv, PidsOK
  <2>5. Elsewhere(k, r, s)
    BY <1>11, <2>4 DEF Elsewhere, InQueues
  <2> QED BY <2>3, <2>5
<1>13. OnlySlot(k, r, s) /\ KeepsWaits(k, r, s)
  BY <1>8, <1>11, <1>12 DEF OnlySlot, KeepsWaits
<1>14. Step(k, r)
  BY <1>0, <1>3, <1>13, SetStep
<1> QED BY <1>14 DEF r, m

\* Somebody takes pid out of its queue and wakes it.
LEMMA DequeueStep ==
  ASSUME NEW k, Done(k), NEW pid \in k.waitq
  PROVE  Step(k, process_unblock(Unqueued(k, pid), pid))
<1> DEFINE m == Unqueued(k, pid)
           r == process_unblock(m, pid)
<1>0. /\ k \in KernelType /\ KInv(k) /\ k.idle \in Slots
      /\ \A x \in Slots : k.tab[x].state # "ZOMBIE"
  BY DoneFacts DEF Mid, KernelType
<1>1. Mid(m)
  BY LeaveQueue
<1>2. /\ m.tab = k.tab /\ m.cur = k.cur /\ m.idle = k.idle /\ m.kbd = k.kbd
      /\ m.waitq = k.waitq \ {pid}
  BY <1>0 DEF KernelType, Unqueued
<1>3. Mid(r)
  BY <1>1, ProcessUnblock
<1> HIDE DEF m
<1>4. m \in KernelType
  BY <1>1 DEF Mid, KInv
<1>5. pid # 0
  BY <1>0 DEF KInv, WaitOK, PidsOK, Alive
<1>6. r = unblock_all(m, {pid})
  BY <1>5 DEF process_unblock
<1>7. Woke(m, r, {pid})
  BY <1>4, <1>6, UnblockEffect
<1> HIDE DEF r
<1>8. Steady(m, r) /\ AllKept(m, r)
  BY <1>0, <1>2, <1>4, <1>7, WokeSteady
<1>9. Steady(k, r) /\ AllKept(k, r)
  BY <1>2, <1>8 DEF Steady, SameQuantum, AllKept
<1>10. ASSUME WaitInv(k) PROVE WaitInv(r)
  <2>1. WaitInv(m)
    <3>1. ASSUME NEW s \in Slots PROVE OneWaitAt(m, s)
      <4>1. OneWaitAt(k, s)
        BY <1>10 DEF WaitInv
      <4> QED BY <1>2, <4>1, Untouched
    <3> QED BY <1>2, <1>10, <3>1 DEF WaitInv
  <2>2. ASSUME NEW s \in Slots, m.tab[s].state = "BLOCKED", m.tab[s].pid \in {pid}
        PROVE  NoWait(m, s)
    <3>1. InQueues(k, s) /\ OneWaitAt(k, s)
      BY <1>2, <1>10, <2>2 DEF InQueues, WaitInv
    <3> QED BY <1>2, <2>2, <3>1 DEF OneWaitAt, NoWait, InWait, InQueues
  <2> QED BY <1>4, <1>7, <2>1, <2>2, WokeWait
<1>11. Step(k, r)
  BY <1>3, <1>9, <1>10, KeptServed DEF Step
<1> QED BY <1>11 DEF r, m

\* A process starts to wait on the keyboard, or is woken by a key.
LEMMA KbdStep ==
  ASSUME NEW k, Done(k), NEW s \in Slots, NEW r, Mid(r), NEW kbd, NEW st, NEW force,
         r = [k EXCEPT !.tab[s].state = st, !.kbd = kbd, !.force = force],
         \/ st = "BLOCKED" /\ kbd = s /\ s = k.cur /\ s # k.idle
         \/ st = "READY" /\ kbd = NULL /\ k.kbd = s
  PROVE  Step(k, r)
<1> DEFINE p == [k.tab[s] EXCEPT !.state = st]
<1>0. /\ k \in KernelType /\ k.tab \in [Slots -> PCB] /\ KInv(k) /\ NULL \notin Slots
      /\ Alive(k, k.cur) /\ k.tab[s] \in PCB
  BY DoneFacts, ConstantFacts DEF Mid, KernelType
<1>1. SameButState(k.tab[s], p) /\ p.state = st
  BY <1>0 DEF PCB, SameButState
<1>2. r.tab = [k.tab EXCEPT ![s] = p]
  BY <1>0 DEF KernelType
<1> HIDE DEF p
<1>3. /\ r.tab[s] = p /\ \A x \in Slots \ {s} : r.tab[x] = k.tab[x]
  BY <1>0, <1>2
<1>4. r.cur = k.cur /\ r.idle = k.idle /\ r.kbd = kbd /\ r.waitq = k.waitq
  BY <1>0 DEF KernelType
<1>5. ASSUME WaitInv(k) PROVE Elsewhere(k, r, s) /\ OneWaitAt(r, s)
  <2>1. CASE st = "BLOCKED" /\ kbd = s /\ s = k.cur
    <3>1. NoWait(k, s)
      BY <1>0, <1>5, <2>1, AwakeNoWait DEF Done
    <3>2. ~InWait(r, s) /\ ~InQueues(r, s)
      BY <1>0, <1>1, <1>3, <1>4, <2>1, <3>1
      DEF NoWait, InWait, InQueues, SameButState, Alive
    <3>3. OneWaitAt(r, s)
      BY <1>1, <1>3, <2>1, <3>2 DEF OneWaitAt
    <3>4. Elsewhere(k, r, s)
      BY <1>3, <1>4, <2>1 DEF Elsewhere, InQueues
    <3> QED BY <3>3, <3>4
  <2>2. CASE st = "READY" /\ kbd = NULL /\ k.kbd = s
    <3>1. OneWaitAt(k, s) /\ k.tab[s].state = "BLOCKED"
      BY <1>5, <2>2 DEF WaitInv, OneWaitAt
    <3>2. NoWait(r, s)
      BY <1>0, <1>1, <1>3, <1>4, <2>2, <3>1
      DEF OneWaitAt, NoWait, InWait, InQueues, SameButState
    <3>3. Elsewhere(k, r, s)
      BY <1>0, <1>3, <1>4, <2>2 DEF Elsewhere, InQueues
    <3> QED BY <3>2, <3>3, NoWaitAt
  <2> QED BY <2>1, <2>2
<1>6. OnlySlot(k, r, s) /\ KeepsWaits(k, r, s)
  BY <1>1, <1>3, <1>4, <1>5 DEF OnlySlot, KeepsWaits, SameButState
<1> QED BY <1>6, SetStep

\* A new process waits for nothing: its pid is new, and so is its slot.
LEMMA CreateStep ==
  ASSUME NEW k, Done(k), NEW fg \in {0, 1, 3}
  PROVE  Step(k, process_create(k, fg))
<1> DEFINE r == process_create(k, fg)
<1>0. /\ k \in KernelType /\ KInv(k) /\ Mid(k) /\ k.idle \in Slots
      /\ \A x \in Slots : k.tab[x].state # "ZOMBIE"
      /\ k.npid \in Nat /\ NULL \notin Slots
  BY DoneFacts, ConstantFacts DEF Mid, KernelType
<1>1. Mid(r) /\ (r = k \/ \E s \in Slots : Created(k, r, s))
  BY <1>0, ProcessCreate
<1>2. CASE r = k
  BY <1>2, SameStep
<1> HIDE DEF r
<1>3. ASSUME NEW s \in Slots, Created(k, r, s) PROVE Step(k, r)
  <2>1. Steady(k, r) /\ AllKept(k, r)
    BY <1>0, <1>3 DEF Created, Steady, SameQuantum, AllKept
  <2>2. k.npid + 1 \notin k.waitq
    <3> SUFFICES ASSUME k.npid + 1 \in k.waitq PROVE FALSE
      OBVIOUS
    <3>1. PICK x \in Slots : k.tab[x].pid = k.npid + 1
      BY <1>0 DEF KInv, WaitOK
    <3> QED BY <1>0, <3>1 DEF KInv, PidsOK
  <2>3. k.kbd # s
    BY <1>0, <1>3 DEF Created, KInv, WaitOK, Alive
  <2>4. NoWait(r, s)
    BY <1>3, <2>2, <2>3 DEF Created, NoWait, InWait, InQueues
  <2>5. Elsewhere(k, r, s)
    BY <1>3 DEF Created, Elsewhere, InQueues
  <2>6. OneWaitAt(r, s) /\ r.idle = k.idle /\ s # k.idle
    BY <1>3, <2>4, NoWaitAt DEF Created
  <2>7. WaitInv(k) => WaitInv(r)
    BY <1>0, <2>5, <2>6, SlotWait
  <2> QED BY <1>1, <2>1, <2>7, KeptServed DEF Step
<1> QED BY <1>1, <1>2, <1>3 DEF r

\* nice changes nobody's wait.
LEMMA NiceStep ==
  ASSUME NEW k, Done(k), NEW pid, process_get(k, pid) # k.idle, NEW prio \in Nat
  PROVE  Step(k, process_nice(k, pid, prio))
<1> DEFINE r == process_nice(k, pid, prio)
           s == process_get(k, pid)
<1>0. /\ k \in KernelType /\ k.idle \in Slots
      /\ \A x \in Slots : k.tab[x].state # "ZOMBIE"
  BY DoneFacts DEF KernelType
<1>1. Mid(r) /\ (r = k \/ (s \in Slots /\ Niced(k, r, s)))
  BY ProcessNice
<1>2. CASE r = k
  BY <1>2, SameStep
<1>3. CASE s \in Slots /\ Niced(k, r, s)
  <2>1. s # k.idle
    OBVIOUS
  <2> HIDE DEF r, s
  <2>2. Calm(k, r)
    BY <1>3 DEF Niced, Calm, SameWait
  <2>3. OnlySlot(k, r, s)
    BY <1>0, <1>3, <2>1 DEF OnlySlot, Niced
  <2>4. Elsewhere(k, r, s)
    BY <1>3 DEF Niced, Elsewhere, InQueues
  <2>5. WaitInv(k) => OneWaitAt(r, s)
    BY <1>0, <1>3, <2>2, CalmInv DEF WaitInv
  <2>6. KeepsWaits(k, r, s)
    BY <2>4, <2>5 DEF KeepsWaits
  <2>7. Step(k, r)
    BY <1>1, <1>3, <2>3, <2>6, SetStep
  <2> QED BY <2>7 DEF r
<1> QED BY <1>1, <1>2, <1>3

(***************************************************************************)
(* Deaths                                                                  *)
(***************************************************************************)
\* What waits look like when s has given up what it held: those it kept
\* waiting in queues are awake, and so is a parent that waits for it.
Released(k, w, s) ==
  /\ Steady(k, w)
  /\ \A x \in Slots : /\ w.tab[x].pid = k.tab[x].pid
                      /\ w.tab[x].state # "ZOMBIE"
                      /\ InWait(w, x) => InWait(k, x)
  /\ WaitInv(k) =>
       /\ WaitInv(w)
       /\ \A x \in Slots \ {s} : AwaitsChild(k.tab, x, s) =>
            w.tab[x].state = "READY" /\ w.tab[x].waiting_for = 0

\* release_resources wakes only those that wait in a queue.
LEMMA ReleaseEffect ==
  ASSUME NEW k, Done(k), NEW s \in Slots, k.tab[s].state # "FREE",
         NEW W, W \subseteq k.waitq, NEW r, r = release_resources(k, s, W)
  PROVE  /\ r \in KernelType /\ KInv(r) /\ Steady(k, r)
         /\ \A x \in Slots : /\ r.tab[x].pid = k.tab[x].pid
                             /\ r.tab[x].parent_pid = k.tab[x].parent_pid
                             /\ r.tab[x].waiting_for = k.tab[x].waiting_for
                             /\ r.tab[x].state # "ZOMBIE"
         /\ WaitInv(k) =>
              /\ WaitInv(r)
              /\ \A x \in Slots : k.tab[x].state = "BLOCKED" /\ InWait(k, x)
                                  => r.tab[x] = k.tab[x]
<1> DEFINE m == [k EXCEPT !.waitq = (@ \ {Pid(k, s)}) \ W,
                          !.kbd = IF @ = s THEN NULL ELSE @]
<1>0. /\ k \in KernelType /\ Mid(k) /\ NULL \notin Slots
      /\ \A x \in Slots : k.tab[x].state # "ZOMBIE"
  BY DoneFacts, ConstantFacts
<1>1. /\ m \in KernelType /\ m.tab = k.tab /\ m.cur = k.cur /\ m.idle = k.idle
      /\ m.waitq = (k.waitq \ {k.tab[s].pid}) \ W
      /\ m.kbd = IF k.kbd = s THEN NULL ELSE k.kbd
  BY <1>0 DEF KernelType, Pid
<1>2. r = unblock_all(m, W)
  BY DEF release_resources
<1> HIDE DEF m
<1>3. Woke(m, r, W)
  BY <1>1, <1>2, UnblockEffect
<1>4. r \in KernelType /\ KInv(r)
  <2>1. Wakes(k, r)
    BY <1>0, ReleaseResources
  <2> QED BY <1>0, <2>1, WakesMid DEF Mid, KInv
<1>5. Steady(k, r)
  <2>1. Steady(m, r)
    BY <1>1, <1>3, WokeSteady
  <2> QED BY <1>1, <2>1 DEF Steady, SameQuantum
<1>6. \A x \in Slots : /\ r.tab[x].pid = k.tab[x].pid
                       /\ r.tab[x].parent_pid = k.tab[x].parent_pid
                       /\ r.tab[x].waiting_for = k.tab[x].waiting_for
                       /\ r.tab[x].state # "ZOMBIE"
  BY <1>0, <1>1, <1>3 DEF Woke, SameButState
<1>7. ASSUME WaitInv(k) PROVE WaitInv(r)
  <2>1. WaitInv(m)
    <3>1. ASSUME NEW x \in Slots PROVE OneWaitAt(m, x)
      <4>1. OneWaitAt(k, x)
        BY <1>7 DEF WaitInv
      <4>2. m.tab[x] = k.tab[x] /\ m.waitq \subseteq k.waitq
            /\ (m.kbd = x => k.kbd = x)
        BY <1>0, <1>1
      <4> QED BY <4>1, <4>2, Untouched
    <3> QED BY <1>1, <1>7, <3>1 DEF WaitInv
  <2>2. ASSUME NEW x \in Slots, m.tab[x].state = "BLOCKED", m.tab[x].pid \in W
        PROVE  NoWait(m, x)
    <3>1. InQueues(k, x) /\ OneWaitAt(k, x)
      BY <1>1, <1>7, <2>2 DEF InQueues, WaitInv
    <3>2. ~InWait(k, x) /\ k.kbd # x
      BY <3>1 DEF OneWaitAt
    <3>3. m.kbd # x /\ ~InWait(m, x) /\ ~InQueues(m, x)
      BY <1>0, <1>1, <2>2, <3>2 DEF InWait, InQueues
    <3> QED BY <3>3 DEF NoWait
  <2> QED BY <1>1, <1>3, <2>1, <2>2, WokeWait
<1>8. ASSUME WaitInv(k), NEW x \in Slots, k.tab[x].state = "BLOCKED", InWait(k, x)
      PROVE  r.tab[x] = k.tab[x]
  <2>1. ~InQueues(k, x)
    BY <1>8 DEF WaitInv, OneWaitAt
  <2>2. k.tab[x].pid \notin W
    BY <1>8, <2>1 DEF InQueues
  <2> QED BY <1>1, <1>3, <2>2 DEF Woke
<1> QED BY <1>4, <1>5, <1>6, <1>7, <1>8

\* wake_parent finds the parent that waits for s, and only that one.
LEMMA WakeParentEffect ==
  ASSUME NEW k, KInv(k), NEW s \in Slots, k.tab[s].state # "FREE",
         NEW r, r = wake_parent(k, s)
  PROVE  /\ Steady(k, r)
         /\ \A x \in Slots : /\ r.tab[x].pid = k.tab[x].pid
                             /\ r.tab[x].state \in {k.tab[x].state, "READY"}
                             /\ InWait(r, x) => InWait(k, x)
         /\ WaitInv(k) => WaitInv(r)
         /\ \A x \in Slots : AwaitsChild(k.tab, x, s) =>
              r.tab[x].state = "READY" /\ r.tab[x].waiting_for = 0
<1> DEFINE p == process_get(k, k.tab[s].parent_pid)
           waits == /\ p # NULL
                    /\ k.tab[p].state = "BLOCKED"
                    /\ k.tab[p].waiting_for = k.tab[s].pid
<1>0. k \in KernelType /\ k.idle \in Slots /\ k.tab[s].pid # 0 /\ NULL \notin Slots
  BY ConstantFacts DEF KInv, KernelType, PidsOK
<1>1. ASSUME NEW x \in Slots, AwaitsChild(k.tab, x, s)
      PROVE  x = p /\ waits
  <2>1. /\ k.tab[x].state = "BLOCKED" /\ k.tab[x].waiting_for = k.tab[s].pid
        /\ k.tab[s].parent_pid = k.tab[x].pid
    BY <1>1 DEF AwaitsChild
  <2>2. process_get(k, k.tab[x].pid) = x
    BY <2>1, GetUnique
  <2> QED BY <1>0, <2>1, <2>2
<1>2. CASE waits
  <2> DEFINE new == [k.tab[p] EXCEPT !.waiting_for = 0, !.state = "READY",
                                     !.wait_ticks = 0]
  <2>1. p \in Slots /\ k.tab[p].state = "BLOCKED" /\ k.tab[p].waiting_for # 0
    BY <1>0, <1>2, ProcessGet
  <2>2. k.tab[p] \in PCB /\ k.force \in BOOLEAN
    BY <1>0, <2>1 DEF KernelType
  <2>3. /\ new.pid = k.tab[p].pid /\ new.priority = k.tab[p].priority
        /\ new.remaining_quanta = k.tab[p].remaining_quanta
        /\ new.state = "READY" /\ new.waiting_for = 0
    BY <2>2 DEF PCB
  <2>4. r = SetPCB(k, p, new, k.force)
    BY <1>0, <1>2 DEF wake_parent, KernelType, SetPCB, Pid
  <2>5. \A x \in Slots : AwaitsChild(k.tab, x, s) => x = p
    BY <1>1
  <2> HIDE DEF p, new
  <2>6. Changed(k, r, p, new)
    BY <1>0, <2>1, <2>2, <2>4, SetPCBEffect
  <2>7. Steady(k, r)
    BY <1>0, <2>3, <2>6 DEF Changed, Rest, Steady, SameQuantum
  <2>8. \A x \in Slots : /\ r.tab[x].pid = k.tab[x].pid
                         /\ r.tab[x].state \in {k.tab[x].state, "READY"}
                         /\ InWait(r, x) => InWait(k, x)
    BY <2>3, <2>6 DEF Changed, InWait
  <2>9. ASSUME WaitInv(k) PROVE WaitInv(r)
    <3>1. OneWaitAt(k, p) /\ InWait(k, p)
      BY <2>1, <2>9 DEF WaitInv, InWait
    <3>2. NoWait(r, p)
      BY <2>1, <2>3, <2>6, <3>1
      DEF Changed, Rest, OneWaitAt, NoWait, InWait, InQueues
    <3>3. Elsewhere(k, r, p)
      BY <2>6 DEF Changed, Rest, Elsewhere, InQueues
    <3>4. OneWaitAt(r, p) /\ r.idle = k.idle /\ r.tab[p].state # "BLOCKED"
      BY <2>3, <2>6, <3>2, NoWaitAt DEF Changed, Rest
    <3> QED BY <1>0, <2>1, <2>9, <3>3, <3>4, SlotWait
  <2>10. \A x \in Slots : AwaitsChild(k.tab, x, s) =>
           r.tab[x].state = "READY" /\ r.tab[x].waiting_for = 0
    BY <2>3, <2>5, <2>6 DEF Changed
  <2> QED BY <2>7, <2>8, <2>9, <2>10
<1>3. CASE ~waits
  <2>1. r = k
    BY <1>3 DEF wake_parent, Pid
  <2>2. \A x \in Slots : ~AwaitsChild(k.tab, x, s)
    BY <1>1, <1>3
  <2> QED BY <2>1, <2>2 DEF Steady, SameQuantum
<1> QED BY <1>2, <1>3

\* Both together, as process_exit and process_kill call them.
LEMMA DeathReleases ==
  ASSUME NEW k, Done(k), NEW s \in Slots, k.tab[s].state # "FREE",
         NEW W, W \subseteq k.waitq
  PROVE  Released(k, wake_parent(release_resources(k, s, W), s), s)
<1> DEFINE m == release_resources(k, s, W)
           w == wake_parent(m, s)
<1>1. /\ m \in KernelType /\ KInv(m) /\ Steady(k, m)
      /\ \A x \in Slots : /\ m.tab[x].pid = k.tab[x].pid
                          /\ m.tab[x].parent_pid = k.tab[x].parent_pid
                          /\ m.tab[x].waiting_for = k.tab[x].waiting_for
                          /\ m.tab[x].state # "ZOMBIE"
      /\ WaitInv(k) =>
           /\ WaitInv(m)
           /\ \A x \in Slots : k.tab[x].state = "BLOCKED" /\ InWait(k, x)
                               => m.tab[x] = k.tab[x]
  BY ReleaseEffect
<1> HIDE DEF m
<1>2. m.tab[s].state # "FREE"
  BY <1>1 DEF KInv, PidsOK, Done
<1>3. /\ Steady(m, w)
      /\ \A x \in Slots : /\ w.tab[x].pid = m.tab[x].pid
                          /\ w.tab[x].state \in {m.tab[x].state, "READY"}
                          /\ InWait(w, x) => InWait(m, x)
      /\ WaitInv(m) => WaitInv(w)
      /\ \A x \in Slots : AwaitsChild(m.tab, x, s) =>
           w.tab[x].state = "READY" /\ w.tab[x].waiting_for = 0
  BY <1>1, <1>2, WakeParentEffect
<1> HIDE DEF w
<1>4. Steady(k, w)
  BY <1>1, <1>3 DEF Steady, SameQuantum
<1>5. \A x \in Slots : /\ w.tab[x].pid = k.tab[x].pid
                       /\ w.tab[x].state # "ZOMBIE"
                       /\ InWait(w, x) => InWait(k, x)
  BY <1>1, <1>3 DEF InWait
<1>6. ASSUME WaitInv(k), NEW x \in Slots \ {s}, AwaitsChild(k.tab, x, s)
      PROVE  w.tab[x].state = "READY" /\ w.tab[x].waiting_for = 0
  <2>1. k.tab[s].pid # 0
    BY DEF Done, KInv, PidsOK
  <2>2. k.tab[x].state = "BLOCKED" /\ InWait(k, x)
    BY <1>6, <2>1 DEF AwaitsChild, InWait
  <2>3. m.tab[x] = k.tab[x]
    BY <1>1, <1>6, <2>2
  <2>4. AwaitsChild(m.tab, x, s)
    BY <1>1, <1>2, <1>6, <2>3 DEF AwaitsChild
  <2> QED BY <1>3, <2>4
<1>7. Released(k, w, s)
  BY <1>1, <1>3, <1>4, <1>5, <1>6 DEF Released
<1> QED BY <1>7 DEF w, m

\* process_release_fds too wakes only those that wait in a queue.
LEMMA FdsRelease ==
  ASSUME NEW k, NEW s, NEW w \in KernelType, Released(k, w, s),
         NEW V, NEW r, r = process_release_fds(w, V)
  PROVE  Released(k, r, s)
<1> DEFINE m == [w EXCEPT !.waitq = @ \ V]
           Q == V \cap w.waitq
<1>0. NULL \notin Slots
  BY ConstantFacts
<1>1. /\ m \in KernelType /\ m.tab = w.tab /\ m.cur = w.cur /\ m.idle = w.idle
      /\ m.waitq = w.waitq \ V /\ m.kbd = w.kbd
  BY DEF KernelType
<1>2. r = unblock_all(m, Q)
  BY DEF process_release_fds
<1> HIDE DEF m
<1>3. Woke(m, r, Q)
  BY <1>1, <1>2, UnblockEffect
<1>4. Steady(k, r)
  <2>1. Steady(m, r)
    BY <1>1, <1>3, WokeSteady
  <2> QED BY <1>1, <2>1 DEF Released, Steady, SameQuantum
<1>5. \A x \in Slots : /\ r.tab[x].pid = k.tab[x].pid
                       /\ r.tab[x].state # "ZOMBIE"
                       /\ InWait(r, x) => InWait(k, x)
  BY <1>1, <1>3 DEF Released, Woke, SameButState, InWait
<1>6. ASSUME WaitInv(w) PROVE WaitInv(r)
  <2>1. WaitInv(m)
    <3>1. ASSUME NEW x \in Slots PROVE OneWaitAt(m, x)
      <4>1. OneWaitAt(w, x)
        BY <1>6 DEF WaitInv
      <4>2. m.tab[x] = w.tab[x] /\ m.waitq \subseteq w.waitq
            /\ (m.kbd = x => w.kbd = x)
        BY <1>1
      <4> QED BY <4>1, <4>2, Untouched
    <3> QED BY <1>1, <1>6, <3>1 DEF WaitInv
  <2>2. ASSUME NEW x \in Slots, m.tab[x].state = "BLOCKED", m.tab[x].pid \in Q
        PROVE  NoWait(m, x)
    <3>1. InQueues(w, x) /\ OneWaitAt(w, x)
      BY <1>1, <1>6, <2>2 DEF InQueues, WaitInv
    <3>2. ~InWait(w, x) /\ w.kbd # x
      BY <3>1 DEF OneWaitAt
    <3>3. m.kbd # x /\ ~InWait(m, x) /\ ~InQueues(m, x)
      BY <1>1, <2>2, <3>2 DEF InWait, InQueues
    <3> QED BY <3>3 DEF NoWait
  <2> HIDE DEF Q
  <2> QED BY <1>1, <1>3, <2>1, <2>2, WokeWait
<1>7. \A x \in Slots : w.tab[x].state = "READY" => r.tab[x] = w.tab[x]
  BY <1>1, <1>3 DEF Woke
<1> QED BY <1>4, <1>5, <1>6, <1>7 DEF Released

\* Its slot is given up, at once or by the switch that follows.
Ended(w, r, s) ==
  /\ Rest(w, r)
  /\ \A x \in Slots \ {s} : r.tab[x] = w.tab[x]
  /\ \/ Gone(r.tab[s])
     \/ /\ r.tab[s].state = "ZOMBIE" /\ r.tab[s].pid = w.tab[s].pid
        /\ r.tab[s].waiting_for = w.tab[s].waiting_for

\* Then the parent has been served, and nobody else has lost a wait.
LEMMA DeathStep ==
  ASSUME NEW k, Done(k), NEW s \in Slots, s # k.idle, k.tab[s].state # "FREE",
         NEW w, w \in KernelType, Released(k, w, s),
         w.kbd # s, w.tab[s].pid \notin w.waitq,
         NEW r, Mid(r), Ended(w, r, s),
         r.tab[s].state = "ZOMBIE" => s = k.cur
  PROVE  Step(k, r)
<1>0. k \in KernelType /\ k.idle \in Slots /\ KInv(k)
  BY DoneFacts DEF KernelType, Mid
<1>1. Steady(k, r)
  BY <1>0 DEF Released, Ended, Rest, Steady, SameQuantum
<1>2. ASSUME WaitInv(k) PROVE WaitInv(r)
  <2>1. NoWait(r, s)
    <3>1. CASE Gone(r.tab[s])
      BY <3>1 DEF Ended, Rest, Gone, NoWait, InWait, InQueues
    <3>2. CASE ~Gone(r.tab[s])
      <4>1. /\ r.tab[s].state = "ZOMBIE" /\ r.tab[s].pid = w.tab[s].pid
            /\ r.tab[s].waiting_for = w.tab[s].waiting_for /\ s = k.cur
        BY <3>2 DEF Ended
      <4>2. ~InWait(k, s)
        BY <1>2, <4>1, AwakeNoWait DEF Done, NoWait
      <4> QED BY <4>1, <4>2 DEF Released, Ended, Rest, NoWait, InWait, InQueues
    <3> QED BY <3>1, <3>2
  <2>2. Elsewhere(w, r, s)
    BY DEF Ended, Rest, Elsewhere, InQueues
  <2>3. WaitInv(w) /\ w.idle = k.idle /\ r.idle = w.idle
    BY <1>2 DEF Released, Steady, SameQuantum, Ended, Rest
  <2>4. OneWaitAt(r, s)
    BY <2>1, NoWaitAt
  <2> QED BY <2>2, <2>3, <2>4, SlotWait
<1>3. ASSUME WaitInv(k) PROVE Served(k, r)
  <2> SUFFICES ASSUME NEW x \in Slots, NEW t \in Slots, AwaitsChild(k.tab, x, t),
                      r.tab[x].pid = k.tab[x].pid, r.tab[x].state # "ZOMBIE",
                      r.tab[t].pid # k.tab[t].pid \/ r.tab[t].state = "ZOMBIE"
               PROVE  r.tab[x].state \in Awake /\ r.tab[x].waiting_for = 0
    BY DEF Served
  <2>1. t = s
    BY DEF Ended, Released
  <2>2. k.tab[s].pid # 0
    BY <1>0 DEF KInv, PidsOK
  <2>3. x # s
    BY <2>2 DEF Ended, Gone
  <2>4. w.tab[x].state = "READY" /\ w.tab[x].waiting_for = 0
    BY <1>3, <2>1, <2>3 DEF Released
  <2> QED BY <2>3, <2>4 DEF Ended, Awake
<1> QED BY <1>1, <1>2, <1>3 DEF Step

\* The current process as process_exit leaves it.
Zombie(w) == [w EXCEPT !.tab[w.cur].state = "ZOMBIE", !.force = TRUE]

\* It has ended.
LEMMA ZombieEnded ==
  ASSUME NEW w \in KernelType
  PROVE  Ended(w, Zombie(w), w.cur)
<1> DEFINE s == w.cur
           p == [w.tab[s] EXCEPT !.state = "ZOMBIE"]
           r == Zombie(w)
<1>1. s \in Slots /\ w.tab[s] \in PCB
  BY DEF KernelType
<1>2. /\ p.pid = w.tab[s].pid /\ p.state = "ZOMBIE"
      /\ p.waiting_for = w.tab[s].waiting_for
  BY <1>1 DEF PCB
<1>3. r = SetPCB(w, s, p, TRUE)
  BY <1>1 DEF Zombie, SetPCB, KernelType
<1> HIDE DEF p, r
<1>4. Changed(w, r, s, p)
  BY <1>1, <1>3, SetPCBEffect
<1>5. Ended(w, r, s)
  BY <1>2, <1>4 DEF Changed, Ended
<1> QED BY <1>5 DEF r

\* A process exits.
LEMMA ExitStep ==
  ASSUME NEW k, Done(k), k.cur # k.idle, NEW W, W \subseteq k.waitq
  PROVE  Step(k, process_exit(k, W))
<1> DEFINE s == k.cur
           w == wake_parent(release_resources(k, s, W), s)
           r == process_exit(k, W)
<1>0. Mid(k) /\ s \in Slots /\ k.tab[s].state # "FREE"
  BY DoneFacts DEF Alive
<1>1. /\ Mid(w) /\ w.cur = s /\ w.kbd # s /\ w.tab[s].pid \notin w.waitq
  BY <1>0, Release
<1>2. Released(k, w, s)
  BY <1>0, DeathReleases
<1>3. Mid(r)
  BY ProcessExit
<1>4. r = [w EXCEPT !.tab[s].state = "ZOMBIE", !.force = TRUE]
  BY DEF process_exit
<1> HIDE DEF w, r
<1>5. w \in KernelType /\ r = Zombie(w)
  BY <1>1, <1>4 DEF Mid, KInv, Zombie
<1>6. Ended(w, r, s)
  BY <1>1, <1>5, ZombieEnded
<1>7. Step(k, r)
  BY <1>0, <1>1, <1>2, <1>3, <1>5, <1>6, DeathStep
<1> QED BY <1>7 DEF r

\* A process is killed.
LEMMA KillStep ==
  ASSUME NEW k, Done(k), NEW pid, process_get(k, pid) # k.idle,
         NEW W, W \subseteq k.waitq, NEW V
  PROVE  Step(k, process_kill(k, pid, W, V))
<1> DEFINE s == process_get(k, pid)
           m == wake_parent(release_resources(k, s, W), s)
           w == process_release_fds(m, V)
           r == process_kill(k, pid, W, V)
<1>0. /\ k \in KernelType /\ Mid(k)
      /\ \A x \in Slots : k.tab[x].state # "ZOMBIE"
  BY DoneFacts
<1>1. Mid(r)
  BY ProcessKill
<1>2. CASE s = NULL
  <2>1. r = k
    BY <1>2 DEF process_kill
  <2> QED BY <2>1, SameStep
<1>3. CASE s # NULL
  <2>1. s \in Slots /\ k.tab[s].state # "FREE" /\ k.tab[s].state # "ZOMBIE"
    BY <1>0, <1>3, ProcessGet
  <2>2. r = IF s = k.cur
            THEN [w EXCEPT !.tab[s].state = "ZOMBIE", !.force = TRUE]
            ELSE free_slot(scheduler_remove(w, s), s)
    BY <1>3, <2>1 DEF process_kill
  <2>3. s # k.idle
    OBVIOUS
  <2> HIDE DEF s
  <2>4. /\ Mid(w) /\ w.cur = k.cur /\ w.idle = k.idle /\ w.kbd # s
        /\ w.tab[s].pid \notin w.waitq /\ w.tab[s].state # "FREE"
    BY <1>0, <2>1, KillRelease
  <2>5. Released(k, w, s)
    <3>1. Released(k, m, s)
      BY <2>1, DeathReleases
    <3>2. m \in KernelType
      BY <1>0, <2>1, Release DEF Mid, KInv
    <3> HIDE DEF m
    <3> QED BY <3>1, <3>2, FdsRelease
  <2> HIDE DEF w, r
  <2>6. w \in KernelType /\ KInv(w)
    BY <2>4 DEF Mid, KInv
  <2>7. Ended(w, r, s) /\ (r.tab[s].state = "ZOMBIE" => s = k.cur)
    <3>1. CASE s = k.cur
      <4>1. r = Zombie(w) /\ w.cur = s
        BY <2>2, <2>4, <3>1 DEF Zombie
      <4> QED BY <2>6, <3>1, <4>1, ZombieEnded
    <3>2. CASE s # k.cur
      <4>1. r = free_slot(scheduler_remove(w, s), s)
        BY <2>2, <3>2
      <4>2. /\ r.cur = w.cur /\ r.idle = w.idle /\ r.kbd = w.kbd
            /\ r.waitq = w.waitq /\ r.tab[s] = FreePCB
            /\ \A x \in Slots \ {s} : r.tab[x] = w.tab[x]
        BY <2>1, <2>3, <2>4, <2>6, <4>1, FreeSlot
      <4>3. Gone(FreePCB)
        BY DEF Gone, FreePCB
      <4>4. r.tab[s].state # "ZOMBIE"
        BY <4>2, <4>3 DEF Gone
      <4> QED BY <4>2, <4>3, <4>4 DEF Ended, Rest
    <3> QED BY <3>1, <3>2
  <2>8. Step(k, r)
    BY <1>1, <2>1, <2>3, <2>4, <2>5, <2>6, <2>7, DeathStep
  <2> QED BY <2>8 DEF r
<1> QED BY <1>2, <1>3

\* Ctrl+C kills a foreground process, or does nothing.
LEMMA ForegroundStep ==
  ASSUME NEW k, Done(k), NEW W, W \subseteq k.waitq, NEW V
  PROVE  Step(k, process_kill_foreground(k, W, V))
BY ForegroundTarget, KillStep, SameStep

(***************************************************************************)
(* Every handler is a step and the return from the interrupt               *)
(***************************************************************************)
\* A system call or a key does what Step allows, and then may switch.
LEMMA HandlerStep ==
  ASSUME IdlePid \notin UserPids, IInv, Handlers
  PROVE  \E m : Step(Kernel, m) /\ Install(irq_return(m))
<1> DEFINE k == Kernel
<1>0. /\ Done(k) /\ Mid(k) /\ k \in KernelType /\ Alive(k, k.cur)
      /\ k.force = FALSE
      /\ k.cur = current_process /\ k.idle = idle_pcb
      /\ k.tab = process_table /\ k.kbd = kbd_waiting_process
      /\ k.waitq = wait_queues /\ k.cur \in Slots /\ k.idle \in Slots
  BY KernelFacts
<1>1. UserRunning => k.cur # k.idle
  BY <1>0 DEF UserRunning, Pid, Mid, KInv, IdleOK
<1>2. ASSUME NEW pid \in UserPids PROVE process_get(k, pid) # k.idle
  <2>1. process_get(k, pid) # NULL => k.tab[process_get(k, pid)].pid = pid
    BY <1>0, ProcessGet
  <2>2. k.tab[k.idle].pid # pid /\ k.idle # NULL
    BY <1>0, ConstantFacts DEF Mid, KInv, IdleOK
  <2> QED BY <2>1, <2>2
<1>3. \A W \in Woken : W \subseteq k.waitq
  BY <1>0 DEF Woken
<1>4. ASSUME NEW fg \in {0, 1, 3}, sys_create_process(fg)
      PROVE  \E m : Step(k, m) /\ Install(irq_return(m))
  BY <1>0, <1>4, CreateStep DEF sys_create_process, Syscall
<1>5. CASE sys_exit
  <2>1. PICK W \in Woken : UserRunning /\ Install(irq_return(process_exit(k, W)))
    BY <1>5 DEF sys_exit, Syscall
  <2>2. Step(k, process_exit(k, W))
    BY <1>0, <1>1, <1>3, <2>1, ExitStep
  <2> QED BY <2>1, <2>2
<1>6. ASSUME NEW pid \in UserPids, sys_kill(pid)
      PROVE  \E m : Step(k, m) /\ Install(irq_return(m))
  <2>1. PICK W, V \in Woken : Install(irq_return(process_kill(k, pid, W, V)))
    BY <1>6 DEF sys_kill, Syscall
  <2>2. Step(k, process_kill(k, pid, W, V))
    BY <1>0, <1>2, <1>3, KillStep
  <2> QED BY <2>1, <2>2
<1>7. ASSUME NEW pid \in UserPids, NEW prio \in NicePriorities, sys_nice(pid, prio)
      PROVE  \E m : Step(k, m) /\ Install(irq_return(m))
  <2>1. prio % 256 \in Nat
    BY SchedulerAssumption
  <2>2. Step(k, process_nice(k, pid, prio % 256))
    BY <1>0, <1>2, <2>1, NiceStep
  <2> QED BY <1>7, <2>2 DEF sys_nice, Syscall
<1>8. ASSUME NEW pid, Meddle = FALSE => ~InKernelWait(pid) /\ ~InWaitpid(pid)
      PROVE  Step(k, process_unblock(k, pid))
  <2>1. ASSUME Meddle = FALSE, NEW s \in Slots,
               k.tab[s].state = "BLOCKED", k.tab[s].pid = pid
        PROVE  NoWait(k, s)
    <3>1. ~InWait(k, s)
      BY <1>0, <1>8, <2>1 DEF InWaitpid, InWait, Live, Pid
    <3>2. ~InQueues(k, s) /\ k.kbd # s
      BY <1>0, <1>8, <2>1, ConstantFacts DEF InKernelWait, InQueues, Pid
    <3> QED BY <3>1, <3>2 DEF NoWait
  <2> QED BY <1>0, <2>1, UnblockStep
<1>9. ASSUME NEW pid \in UserPids, sys_block(pid)
      PROVE  \E m : Step(k, m) /\ Install(irq_return(m))
  <2> DEFINE s == process_get(k, pid)
  <2>1. /\ s # NULL /\ (Meddle = FALSE => ~InKernelWait(pid))
        /\ ~(k.tab[s].state = "BLOCKED" /\ k.tab[s].waiting_for # 0)
    BY <1>0, <1>9 DEF sys_block
  <2>2. s \in Slots /\ k.tab[s].pid = pid /\ k.tab[s].state # "FREE"
    BY <1>0, <2>1, ProcessGet
  <2>3. \/ k.tab[s].state = "BLOCKED" /\ Install(irq_return(process_unblock(k, pid)))
        \/ Install(irq_return(process_block(k, pid)))
    BY <1>0, <1>9 DEF sys_block, Syscall
  <2>4. Step(k, process_block(k, pid))
    BY <1>0, <1>2, BlockStep
  <2>5. ASSUME k.tab[s].state = "BLOCKED"
        PROVE  Step(k, process_unblock(k, pid))
    <3> HIDE DEF s
    <3>1. \A x \in Slots : k.tab[x].pid = pid => x = s
      BY <1>0, <2>2 DEF Mid, KInv, PidsOK
    <3>2. ~InWaitpid(pid)
      BY <1>0, <2>1, <2>5, <3>1 DEF InWaitpid, Pid
    <3> QED BY <1>8, <2>1, <3>2
  <2> QED BY <2>3, <2>4, <2>5
<1>10. ASSUME NEW pid \in UserPids, sys_unblock(pid)
       PROVE  \E m : Step(k, m) /\ Install(irq_return(m))
  BY <1>8, <1>10 DEF sys_unblock, Syscall
<1>11. CASE sys_yield
  <2> DEFINE r == [k EXCEPT !.tab[k.cur].state = "READY", !.force = TRUE]
  <2>1. Install(irq_return(r))
    BY <1>0, <1>11 DEF sys_yield, Syscall
  <2>2. Step(k, r)
    BY <1>0, YieldStep
  <2> HIDE DEF r
  <2> QED BY <2>1, <2>2
<1>12. ASSUME NEW pid \in UserPids, sys_waitpid(pid)
       PROVE  \E m : Step(k, m) /\ Install(irq_return(m))
  <2>1. pid \in Nat /\ k.cur # k.idle
    BY <1>1, <1>12, SchedulerAssumption DEF sys_waitpid, Syscall
  <2>2. Step(k, process_waitpid(k, pid))
    BY <1>0, <2>1, WaitpidStep
  <2> QED BY <1>12, <2>2 DEF sys_waitpid, Syscall
<1>13. CASE KernelWait
  <2> DEFINE pid == k.tab[k.cur].pid
  <2>1. /\ Install(irq_return(process_block(Queued(k, pid), pid)))
        /\ k.cur # k.idle
    BY <1>0, <1>1, <1>13 DEF KernelWait, Syscall, Queued, CurrentPid, Pid
  <2>2. Step(k, process_block(Queued(k, pid), pid))
    BY <1>0, <2>1, QueueStep
  <2> QED BY <2>1, <2>2
<1>14. ASSUME NEW pid \in wait_queues, KernelWake(pid)
       PROVE  \E m : Step(k, m) /\ Install(irq_return(m))
  <2>1. Install(irq_return(process_unblock(Unqueued(k, pid), pid)))
    BY <1>14 DEF KernelWake, Syscall, Unqueued
  <2>2. Step(k, process_unblock(Unqueued(k, pid), pid))
    BY <1>0, DequeueStep
  <2> QED BY <2>1, <2>2
<1>15. CASE KbdWait
  <2> DEFINE s == k.cur
             r == [k EXCEPT !.tab[s].state = "BLOCKED", !.kbd = s, !.force = TRUE]
  <2>1. Install(irq_return(r)) /\ s # k.idle
    BY <1>0, <1>1, <1>15 DEF KbdWait, Syscall
  <2>2. s \in Slots /\ Alive(k, s)
    BY <1>0
  <2>3. Mid(r)
    <3> HIDE DEF s
    <3> QED BY <1>0, <2>2, SetKbd
  <2>4. Step(k, r)
    BY <1>0, <2>1, <2>3, KbdStep
  <2> HIDE DEF r
  <2> QED BY <2>1, <2>4
<1>16. CASE KeyWake
  <2> DEFINE s == k.kbd
             r == [k EXCEPT !.tab[s].state = "READY", !.kbd = NULL, !.force = FALSE]
  <2>1. [k EXCEPT !.tab[s].state = "READY", !.kbd = NULL] = r
    BY <1>0 DEF KernelType
  <2>2. Install(irq_return(r))
    BY <1>0, <1>16, <2>1 DEF KeyWake
  <2>3. s \in Slots /\ Alive(k, s)
    BY <1>0, <1>16 DEF KeyWake, Mid, KInv, WaitOK, KernelType
  <2>4. Mid(r)
    <3> HIDE DEF s
    <3> QED BY <1>0, <2>3, SetKbd
  <2>5. Step(k, r)
    <3>1. s = k.kbd
      OBVIOUS
    <3> HIDE DEF s
    <3> QED BY <1>0, <2>3, <2>4, <3>1, KbdStep
  <2> HIDE DEF r
  <2> QED BY <2>2, <2>5
<1>17. CASE CtrlC
  <2>1. PICK W, V \in Woken : Install(irq_return(process_kill_foreground(k, W, V)))
    BY <1>17 DEF CtrlC
  <2>2. Step(k, process_kill_foreground(k, W, V))
    BY <1>0, <1>3, ForegroundStep
  <2> QED BY <2>1, <2>2
<1> QED BY <1>4, <1>5, <1>6, <1>7, <1>9, <1>10, <1>11, <1>12, <1>13, <1>14,
           <1>15, <1>16, <1>17 DEF Handlers

(***************************************************************************)
(* One wait at a time, and no child's death unnoticed                      *)
(***************************************************************************)
\* A step of the kernel: an operation, then scheduling.
LEMMA NextStep ==
  ASSUME IdlePid \notin UserPids, IInv, Next
  PROVE  \E m, r : /\ Step(Kernel, m) /\ Done(r) /\ Install(r)
                   /\ WaitInv(m) => Calm(m, r)
<1>1. CASE Handlers
  <2>1. PICK m : Step(Kernel, m) /\ Install(irq_return(m))
    BY <1>1, HandlerStep
  <2>2. Mid(m)
    BY <2>1 DEF Step
  <2> QED BY <2>1, <2>2, IrqReturn, CalmIrq
<1>2. CASE Tick
  <2>1. Done(Kernel) /\ Install(scheduler_tick(Kernel))
    BY <1>2 DEF IInv, Tick
  <2> QED BY <2>1, SameStep, SchedulerTick, CalmTick
<1> QED BY <1>1, <1>2 DEF Next

\* Initially idle is READY and has one tick to run.
LEMMA InitIdle ==
  ASSUME Init
  PROVE  /\ process_table[0].state = "READY"
         /\ process_table[0].priority = MinPriority
         /\ process_table[0].remaining_quanta = 1
<1> DEFINE idle == [FreePCB EXCEPT !.pid = IdlePid, !.state = "READY",
                                   !.remaining_quanta = 1]
<1>1. process_table[0] = idle
  BY ConstantFacts DEF Init
<1>2. /\ idle.state = "READY" /\ idle.priority = MinPriority
      /\ idle.remaining_quanta = 1
  BY DEF FreePCB
<1> QED BY <1>1, <1>2

\* The inductive invariant of waiting.
WInv == WaitInv(Kernel)

\* Initially nobody waits.
LEMMA InitWait == Init => WInv
<1> SUFFICES ASSUME Init PROVE WInv
  OBVIOUS
<1> DEFINE k == Kernel
<1>1. /\ k.tab = process_table /\ k.kbd = NULL /\ k.waitq = {} /\ k.idle = 0
  BY DEF Kernel, Init
<1>2. 0 \in Slots /\ NULL \notin Slots
  BY ConstantFacts
<1>3. \A s \in Slots : k.tab[s].waiting_for = 0
  BY <1>1 DEF Init, FreePCB
<1>4. k.tab[0].state = "READY"
  BY <1>1, InitIdle
<1> HIDE DEF k
<1>5. \A s \in Slots : NoWait(k, s)
  BY <1>1, <1>2, <1>3 DEF NoWait, InWait, InQueues
<1>6. WaitInv(k)
  BY <1>1, <1>4, <1>5, NoWaitAt DEF WaitInv
<1> QED BY <1>6 DEF WInv, k

\* Every step keeps it.
LEMMA NextWait ==
  ASSUME IdlePid \notin UserPids, Meddle = FALSE, IInv, WInv, [Next]_vars
  PROVE  WInv'
<1>1. CASE Next
  <2>1. PICK m, r : /\ Step(Kernel, m) /\ Done(r) /\ Install(r)
                    /\ WaitInv(m) => Calm(m, r)
    BY <1>1, NextStep
  <2>2. WaitInv(m) /\ m \in KernelType
    BY <2>1 DEF Step, WInv, Mid, KInv
  <2>3. WaitInv(r)
    BY <2>1, <2>2, CalmInv
  <2> DEFINE n == Kernel'
  <2>4. n.tab = r.tab /\ n.kbd = r.kbd /\ n.waitq = r.waitq /\ n.idle = r.idle
    BY <2>1 DEF Kernel, Install
  <2>5. r \in KernelType
    BY <2>1 DEF Done, KInv
  <2> HIDE DEF n
  <2>6. WaitInv(n)
    BY <2>3, <2>4, <2>5, CalmSame, CalmInv
  <2> QED BY <2>6 DEF WInv, n
<1>2. CASE UNCHANGED vars
  <2>1. Kernel' = Kernel
    BY <1>2 DEF vars, Kernel
  <2> QED BY <2>1 DEF WInv
<1> QED BY <1>1, <1>2

\* It holds in every reachable state.
LEMMA SpecWait ==
  ASSUME IdlePid \notin UserPids, Meddle = FALSE
  PROVE  Spec => [](IInv /\ WInv)
<1>1. IInv /\ WInv /\ [Next]_vars => IInv' /\ WInv'
  BY NextInv, NextWait
<1> QED BY <1>1, InitInv, InitWait, PTL DEF Spec

\* As long as nobody names idle in a system call, and nobody blocks or unblocks
\* a process that waits in the kernel (Meddle is FALSE): a process waits for
\* one thing at a time, and is BLOCKED while it does.
THEOREM WaitsForOneThing ==
  ASSUME IdlePid \notin UserPids, Meddle = FALSE
  PROVE  Spec => []OneWait
<1>1. WInv => OneWait
  <2> SUFFICES ASSUME WInv PROVE OneWait
    OBVIOUS
  <2>1. /\ Kernel.tab = process_table /\ Kernel.kbd = kbd_waiting_process
        /\ Kernel.waitq = wait_queues
    BY DEF Kernel
  <2> QED BY <2>1 DEF WInv, WaitInv, OneWaitAt, InWait, InQueues, OneWait
<1> QED BY <1>1, SpecWait, PTL

\* Under the same assumptions, a parent that waits for a child in waitpid is
\* awake and has been told when the child is gone, whoever ended it.
THEOREM ChildDeathIsNoticed ==
  ASSUME IdlePid \notin UserPids, Meddle = FALSE
  PROVE  Spec => ChildDeathWakes
<1> DEFINE A == \A s, t \in Slots :
                  /\ AwaitsChild(process_table, s, t)
                  /\ process_table'[s].pid = process_table[s].pid
                  /\ process_table'[t].pid # process_table[t].pid
                  => /\ process_table'[s].state \in {"READY", "RUNNING"}
                     /\ process_table'[s].waiting_for = 0
<1>1. ASSUME IInv, WInv, Next PROVE A
  <2>1. PICK m, r : /\ Step(Kernel, m) /\ Done(r) /\ Install(r)
                    /\ WaitInv(m) => Calm(m, r)
    BY <1>1, NextStep
  <2>2. /\ WaitInv(m) /\ Served(Kernel, m) /\ Calm(m, r)
        /\ \A x \in Slots : r.tab[x].state # "ZOMBIE"
        /\ Kernel.tab = process_table /\ r.tab = process_table'
    BY <1>1, <2>1, DoneFacts DEF Step, WInv, Install, Kernel
  <2> DEFINE k == Kernel
  <2> HIDE DEF k
  <2> SUFFICES ASSUME NEW s \in Slots, NEW t \in Slots, AwaitsChild(k.tab, s, t),
                      r.tab[s].pid = k.tab[s].pid, r.tab[t].pid # k.tab[t].pid
               PROVE  r.tab[s].state \in {"READY", "RUNNING"} /\ r.tab[s].waiting_for = 0
    BY <2>2 DEF k
  <2>3. k.tab[s].pid # 0
    BY <1>1 DEF AwaitsChild, IInv, Done, KInv, PidsOK, k
  <2>4. SameWait(m.tab[s], r.tab[s])
    BY <2>2, <2>3 DEF Calm, Gone
  <2>5. m.tab[s].pid = k.tab[s].pid /\ m.tab[s].state # "ZOMBIE"
    BY <2>2, <2>4 DEF SameWait, Awake
  <2>6. m.tab[t].pid # k.tab[t].pid \/ m.tab[t].state = "ZOMBIE"
    BY <2>2 DEF Calm, SameWait
  <2>7. m.tab[s].state \in Awake /\ m.tab[s].waiting_for = 0
    BY <2>2, <2>5, <2>6 DEF Served, k
  <2> QED BY <2>4, <2>7 DEF SameWait, Awake
<1>2. IInv /\ WInv /\ [Next]_vars => [A]_vars
  BY <1>1
<1>3. Spec => [][Next]_vars
  BY PTL DEF Spec
<1>4. Spec => [][A]_vars
  BY <1>2, <1>3, SpecWait, PTL
<1> QED BY <1>4 DEF ChildDeathWakes

(***************************************************************************)
(* Idle gets the CPU only when nobody else can use it                      *)
(***************************************************************************)
\* Idle has the lowest priority, so a quantum of one tick at most.
ShortQuantum(k) == /\ k.tab[k.idle].priority = 1
                   /\ k.tab[k.idle].remaining_quanta <= 1

\* A new quantum of idle is as short.
LEMMA QuietPreempt ==
  ASSUME NEW k, KInv(k), ShortQuantum(k), NEW st, NEW r, r = Preempted(k, st),
         st = k.tab[k.cur].state \/ (k.tab[k.cur].state = "RUNNING" /\ st = "READY")
  PROVE  KInv(r) /\ r.tab[r.cur].state = st /\ ShortQuantum(r) /\ r.idle = k.idle
<1>1. /\ KInv(r) /\ r.tab[k.cur] = NewQuantum(k, st) /\ NewQuantum(k, st).state = st
      /\ \A x \in Slots \ {k.cur} : r.tab[x] = k.tab[x]
      /\ r.cur = k.cur /\ r.idle = k.idle
  BY PreemptState DEF Alive
<1>2. k.cur \in Slots /\ k.idle \in Slots /\ k.tab[k.cur] \in PCB
  BY DEF KInv, KernelType
<1>3. /\ NewQuantum(k, st).priority = k.tab[k.cur].priority
      /\ NewQuantum(k, st).remaining_quanta = k.tab[k.cur].priority
  BY <1>2 DEF NewQuantum, PCB
<1>4. ShortQuantum(r)
  <2>1. CASE k.cur = k.idle
    BY <1>1, <1>3, <2>1 DEF ShortQuantum
  <2>2. CASE k.cur # k.idle
    BY <1>1, <1>2, <2>2 DEF ShortQuantum
  <2> QED BY <2>1, <2>2
<1> QED BY <1>1, <1>4

\* After a switch, idle has the CPU only if nobody else could take it.
LEMMA QuietYield ==
  ASSUME NEW k, KInv(k), ShortQuantum(k)
  PROVE  LET r == scheduler_yield_impl(k) IN Quiet(r) /\ ShortQuantum(r)
<1> DEFINE c == k.tab[k.cur]
           st == IF c.state = "RUNNING" THEN "READY" ELSE c.state
           r == Preempted(k, st)
<1>1. k.cur # NULL
  BY ConstantFacts DEF KInv, KernelType
<1>2. scheduler_yield_impl(k) = switch_to_next(r)
  BY <1>1 DEF scheduler_yield_impl, Preempted, NewQuantum
<1>3. st # "RUNNING" /\ (st = c.state \/ (c.state = "RUNNING" /\ st = "READY"))
  OBVIOUS
<1> HIDE DEF st
<1>4. KInv(r) /\ r.tab[r.cur].state = st /\ ShortQuantum(r)
  BY <1>3, QuietPreempt
<1> HIDE DEF r
<1>5. Quiet(switch_to_next(r)) /\ SameQuantum(r, switch_to_next(r))
  BY <1>3, <1>4, QuietSwitch
<1> QED BY <1>2, <1>4, <1>5 DEF SameQuantum, ShortQuantum

\* So at the end of a handler: idle had the CPU already, or nobody is READY.
LEMMA QuietIrq ==
  ASSUME NEW k, Mid(k), ShortQuantum(k)
  PROVE  LET r == irq_return(k)
         IN  ShortQuantum(r) /\ (k.cur # k.idle => Quiet(r))
<1>1. CASE k.force
  <2> DEFINE r == [k EXCEPT !.force = FALSE]
  <2>1. irq_return(k) = scheduler_yield_impl(r)
    BY <1>1 DEF irq_return
  <2>2. KInv(r)
    BY ForceCleared DEF Mid
  <2>3. r.tab = k.tab /\ r.idle = k.idle
    BY DEF Mid, KInv, KernelType
  <2> HIDE DEF r
  <2>4. ShortQuantum(r)
    BY <2>3 DEF ShortQuantum
  <2> QED BY <2>1, <2>2, <2>4, QuietYield
<1>2. CASE ~k.force
  <2>1. irq_return(k) = k
    BY <1>2 DEF irq_return
  <2> QED BY <2>1 DEF Quiet
<1> QED BY <1>1, <1>2

\* A tick takes the CPU from idle if anybody else can use it.
LEMMA QuietTick ==
  ASSUME NEW k, Done(k), ShortQuantum(k)
  PROVE  LET r == scheduler_tick(k) IN Quiet(r) /\ ShortQuantum(r)
<1> DEFINE a == age(k)
           c == a.tab[a.cur]
           q == c.remaining_quanta
           t == scheduler_tick(k)
<1>1. Done(a) /\ SameQuantum(k, a)
  BY Age, CalmAge, DoneFacts
<1> HIDE DEF a
<1>2. /\ a \in KernelType /\ a.cur \in Slots /\ a.cur # NULL /\ KInv(a)
      /\ a.idle \in Slots /\ c \in PCB
  BY <1>1, DoneFacts DEF Mid, KernelType
<1>3. ShortQuantum(a)
  BY <1>1 DEF SameQuantum, ShortQuantum
<1>4. CASE c.state = "RUNNING" /\ q > 1
  <2> DEFINE p == [c EXCEPT !.remaining_quanta = q - 1]
             r == [a EXCEPT !.tab[a.cur].remaining_quanta = q - 1]
  <2>1. t = r
    BY <1>2, <1>4 DEF scheduler_tick, a
  <2>2. r = [a EXCEPT !.tab[a.cur] = p]
    BY <1>2 DEF KernelType
  <2>3. a.cur # a.idle
    <3>1. q \in Nat /\ (a.cur = a.idle => q <= 1)
      BY <1>2, <1>3, SchedulerAssumption DEF PCB, ShortQuantum
    <3> HIDE DEF q
    <3> QED BY <1>4, <3>1
  <2> HIDE DEF r, p
  <2>4. /\ \A x \in Slots \ {a.cur} : r.tab[x] = a.tab[x]
        /\ r.cur = a.cur /\ r.idle = a.idle
    BY <1>2, <2>2 DEF KernelType
  <2>5. Quiet(r) /\ ShortQuantum(r)
    BY <1>2, <1>3, <2>3, <2>4 DEF Quiet, ShortQuantum
  <2> QED BY <2>1, <2>5
<1>5. CASE c.state = "RUNNING" /\ ~(q > 1)
  <2> DEFINE r == Preempted(a, "READY")
  <2>1. t = switch_to_next(r)
    BY <1>2, <1>5 DEF scheduler_tick, a, Preempted, NewQuantum
  <2>2. KInv(r) /\ r.tab[r.cur].state = "READY" /\ ShortQuantum(r)
    BY <1>2, <1>3, <1>5, QuietPreempt
  <2> HIDE DEF r
  <2>3. Quiet(switch_to_next(r)) /\ SameQuantum(r, switch_to_next(r))
    BY <2>2, QuietSwitch
  <2> QED BY <2>1, <2>2, <2>3 DEF SameQuantum, ShortQuantum
<1>6. CASE c.state # "RUNNING"
  <2>1. t = switch_to_next(a)
    BY <1>6 DEF scheduler_tick, a
  <2>2. Quiet(switch_to_next(a)) /\ SameQuantum(a, switch_to_next(a))
    BY <1>2, <1>6, QuietSwitch
  <2> QED BY <1>3, <2>1, <2>2 DEF SameQuantum, ShortQuantum
<1> QED BY <1>4, <1>5, <1>6

\* The inductive invariant: idle's quantum is over with the next tick.
QInv == ShortQuantum(Kernel)

\* The state a step leads to, and who may have the CPU in it.
LEMMA QuietStep ==
  ASSUME IdlePid \notin UserPids, IInv, QInv, Next
  PROVE  \E r : /\ Done(r) /\ Install(r) /\ ShortQuantum(r)
                /\ Kernel.cur # Kernel.idle \/ Tick => Quiet(r)
<1>0. Done(Kernel)
  BY DEF IInv
<1>1. CASE Tick
  BY <1>0, <1>1, SchedulerTick, QuietTick DEF QInv, Tick
<1>2. CASE Handlers /\ ~Tick
  <2>1. PICK m : Step(Kernel, m) /\ Install(irq_return(m))
    BY <1>2, HandlerStep
  <2>2. Mid(m) /\ ShortQuantum(m) /\ m.cur = Kernel.cur /\ m.idle = Kernel.idle
    BY <2>1 DEF Step, Steady, SameQuantum, QInv, ShortQuantum
  <2>3. Done(irq_return(m)) /\ ShortQuantum(irq_return(m))
    BY <2>2, IrqReturn, QuietIrq
  <2>4. Kernel.cur # Kernel.idle => Quiet(irq_return(m))
    BY <2>2, QuietIrq
  <2> QED BY <1>2, <2>1, <2>3, <2>4
<1> QED BY <1>1, <1>2 DEF Next

\* If user processes cannot name idle and MIN_PRIORITY is 1, as process.h has
\* it: idle gets the CPU only when no queued process is READY, and a tick that
\* finds it running while one is READY takes the CPU from it.
THEOREM IdleGivesWay ==
  ASSUME IdlePid \notin UserPids, MinPriority = 1
  PROVE  Spec => IdleOnlyWhenNobodyReady
<1> DEFINE A == /\ current_process' = idle_pcb'
                /\ current_process # idle_pcb \/ Tick
                => \A i \in 1 .. Len(run_queue') :
                     process_table'[run_queue'[i]].state # "READY"
<1>1. Init => QInv
  <2> SUFFICES ASSUME Init PROVE QInv
    OBVIOUS
  <2>1. Kernel.tab = process_table /\ Kernel.idle = 0
    BY DEF Kernel, Init
  <2> QED BY <2>1, InitIdle DEF QInv, ShortQuantum
<1>2. ASSUME IInv, QInv, Next PROVE QInv' /\ A
  <2>1. PICK r : /\ Done(r) /\ Install(r) /\ ShortQuantum(r)
                 /\ Kernel.cur # Kernel.idle \/ Tick => Quiet(r)
    BY <1>2, QuietStep
  <2>2. QInv'
    <3>1. Kernel'.tab = r.tab /\ Kernel'.idle = r.idle
      BY <2>1 DEF Kernel, Install
    <3> QED BY <2>1, <3>1 DEF QInv, ShortQuantum
  <2>3. /\ Kernel.cur = current_process /\ Kernel.idle = idle_pcb
        /\ process_table' = r.tab /\ run_queue' = r.rq
        /\ current_process' = r.cur /\ idle_pcb' = r.idle
    BY <2>1 DEF Kernel, Install
  <2>4. \A i \in 1 .. Len(r.rq) : r.rq[i] \in Slots \ {r.idle}
    <3>1. r \in KernelType /\ QueueOK(r)
      BY <2>1 DEF Done, KInv
    <3> QED BY <3>1 DEF KernelType, QueueOK, Member
  <2>5. A
    BY <2>1, <2>3, <2>4 DEF Quiet
  <2> QED BY <2>2, <2>5
<1>3. IInv /\ QInv /\ [Next]_vars => QInv' /\ [A]_vars
  <2>1. ASSUME IInv, QInv, UNCHANGED vars PROVE QInv'
    <3>1. Kernel' = Kernel
      BY <2>1 DEF vars, Kernel
    <3> QED BY <2>1, <3>1 DEF QInv
  <2> HIDE DEF A
  <2> QED BY <1>2, <2>1
<1>4. Spec => [][A]_vars
  <2>1. Spec => Init /\ [][Next]_vars
    BY PTL DEF Spec
  <2> HIDE DEF A
  <2> QED BY <1>1, <1>3, <2>1, SpecInv, PTL
<1> QED BY <1>4 DEF IdleOnlyWhenNobodyReady

=============================================================================
