-------------------------- MODULE SchedulerProofs --------------------------
(***************************************************************************)
(* Proofs about module Scheduler, for every value of its constants.        *)
(*                                                                         *)
(* Each operator that models a C function gets a lemma: from a kernel      *)
(* state that satisfies the invariant it leads to one that does.  A        *)
(* handler is a composition of them, so its proof cites their lemmas.      *)
(***************************************************************************)
EXTENDS Scheduler, NatLemmas

(***************************************************************************)
(* The invariant, as a predicate on kernel states                          *)
(***************************************************************************)
KernelType ==
  [tab : [Slots -> PCB], rq : Seq(Slots), idx : Nat, cur : Slots,
   idle : Slots, kbd : Slots \cup {NULL}, npid : Nat, waitq : SUBSET Nat,
   force : BOOLEAN]

Member(q, s) == \E i \in 1 .. Len(q) : q[i] = s
IdxOK(q, idx) == idx < Len(q) \/ (idx = 0 /\ Len(q) = 0)

QueueOK(k) ==
  /\ Injective(k.rq)
  /\ \A s \in Slots : (s # k.idle /\ k.tab[s].state # "FREE") <=> Member(k.rq, s)
  /\ IdxOK(k.rq, k.idx)

SortedOK(k) ==
  \A i, j \in 1 .. Len(k.rq) :
    i < j => k.tab[k.rq[i]].priority >= k.tab[k.rq[j]].priority

PidsOK(k) ==
  /\ \A s \in Slots : k.tab[s].state = "FREE" <=> k.tab[s].pid = 0
  /\ \A s \in Slots : k.tab[s].pid <= k.npid
  /\ \A s, t \in Slots : k.tab[s].pid = k.tab[t].pid /\ k.tab[s].pid # 0 => s = t

\* Idle is the background process with pid 1, which nobody ends.
IdleOK(k) ==
  /\ k.tab[k.idle].pid = IdlePid
  /\ ~k.tab[k.idle].foreground
  /\ k.tab[k.idle].state # "ZOMBIE"

\* Inside a handler too, only the current process is RUNNING or a ZOMBIE.
CpuOK(k) ==
  /\ \A s \in Slots : k.tab[s].state = "RUNNING" => s = k.cur
  /\ \A s \in Slots : k.tab[s].state = "ZOMBIE" => s = k.cur

\* Who waits on the keyboard or in a queue has not ended.
Alive(k, s) == k.tab[s].state \notin {"FREE", "ZOMBIE"}

WaitOK(k) ==
  /\ k.kbd # NULL => Alive(k, k.kbd)
  /\ \A pid \in k.waitq : \E s \in Slots : Alive(k, s) /\ k.tab[s].pid = pid

KInv(k) == /\ k \in KernelType
           /\ QueueOK(k)
           /\ SortedOK(k)
           /\ PidsOK(k)
           /\ IdleOK(k)
           /\ CpuOK(k)
           /\ WaitOK(k)

\* A process that may not keep the CPU has set force_switch, and its slot is
\* not free while the kernel runs on its stack.
CurOK(k) ==
  /\ k.tab[k.cur].state # "FREE"
  /\ k.tab[k.cur].state \in {"BLOCKED", "ZOMBIE"} => k.force

\* The end of a handler.
Done(k) == KInv(k) /\ k.tab[k.cur].state \in {"RUNNING", "READY"}

IInv == Done(Kernel)

(***************************************************************************)
(* The run queue                                                           *)
(***************************************************************************)
LEMMA ConstantFacts ==
  /\ MaxProcesses \in Nat /\ MaxProcesses >= 2
  /\ 0 \in Slots /\ 1 \in Slots
  /\ NULL \notin Slots
  /\ Slots \in SUBSET Nat
  /\ TicksCap \in Nat
  /\ MinPriority \in MinPriority .. MaxPriority
  /\ DefaultPriority \in MinPriority .. MaxPriority
  /\ MinPriority .. MaxPriority \subseteq 0 .. MaxPriority
  /\ 1 \in 0 .. MaxPriority
<1>1. TicksCap \in Nat
  BY SchedulerAssumption DEF TicksCap
<1> QED BY <1>1, SchedulerAssumption DEF Slots, NULL

\* A queue sorted by a priority that is given for every slot.
Sorted(q, prio) ==
  \A i, j \in 1 .. Len(q) : i < j => prio[q[i]] >= prio[q[j]]

\* Inserting shifts the tail right ...
LEMMA ShiftRight ==
  ASSUME NEW q \in Seq(Slots), NEW pos \in 1 .. Len(q) + 1, NEW s \in Slots
  PROVE  LET r == shift_right(q, pos, s)
         IN  /\ r \in Seq(Slots)
             /\ Len(r) = Len(q) + 1
             /\ \A j \in 1 .. Len(q) : j < pos => r[j] = q[j]
             /\ r[pos] = s
             /\ \A j \in 1 .. Len(q) : j >= pos => r[j + 1] = q[j]
<1> DEFINE r == shift_right(q, pos, s)
<1>1. Len(q) \in Nat /\ \A j \in 1 .. Len(q) : q[j] \in Slots
  OBVIOUS
<1>2. \A j \in 1 .. Len(q) + 1 : (j < pos => j \in 1 .. Len(q))
        /\ (~(j < pos) /\ j # pos => j - 1 \in 1 .. Len(q))
  BY <1>1
<1>3. r \in [1 .. Len(q) + 1 -> Slots]
  BY <1>1, <1>2 DEF shift_right
<1>4. Len(q) + 1 \in Nat
  BY <1>1
<1>5. r \in Seq(Slots) /\ Len(r) = Len(q) + 1
  BY <1>3, <1>4
<1>6. \A j \in 1 .. Len(q) : j < pos => r[j] = q[j]
  BY <1>1 DEF shift_right
<1>7. r[pos] = s
  BY <1>1 DEF shift_right
<1>8. \A j \in 1 .. Len(q) : j >= pos => r[j + 1] = q[j]
  <2> SUFFICES ASSUME NEW j \in 1 .. Len(q), j >= pos
               PROVE  r[j + 1] = q[j]
    OBVIOUS
  <2>1. /\ j + 1 \in 1 .. Len(q) + 1 /\ ~(j + 1 < pos) /\ j + 1 # pos
        /\ (j + 1) - 1 = j
    BY <1>1
  <2> QED BY <2>1 DEF shift_right
<1> QED BY <1>5, <1>6, <1>7, <1>8

\* ... every position of the longer queue is one of the three kinds ...
LEMMA ShiftRightCases ==
  ASSUME NEW q \in Seq(Slots), NEW pos \in 1 .. Len(q) + 1, NEW s \in Slots,
         NEW j \in 1 .. Len(q) + 1
  PROVE  LET r == shift_right(q, pos, s)
         IN  \/ j < pos /\ j \in 1 .. Len(q) /\ r[j] = q[j]
             \/ j = pos /\ r[j] = s
             \/ j > pos /\ j - 1 \in 1 .. Len(q) /\ r[j] = q[j - 1]
<1> DEFINE r == shift_right(q, pos, s)
<1>1. Len(q) \in Nat
  OBVIOUS
<1>2. /\ \A i \in 1 .. Len(q) : i < pos => r[i] = q[i]
      /\ r[pos] = s
      /\ \A i \in 1 .. Len(q) : i >= pos => r[i + 1] = q[i]
  BY ShiftRight, ZenonT(60)
<1> HIDE DEF r
<1>3. CASE j < pos
  <2>1. j \in 1 .. Len(q)
    BY <1>3, <1>1
  <2> QED BY <2>1, <1>3, <1>2 DEF r
<1>4. CASE j = pos
  BY <1>4, <1>2 DEF r
<1>5. CASE j > pos
  <2>1. j - 1 \in 1 .. Len(q) /\ j - 1 >= pos /\ (j - 1) + 1 = j
    BY <1>5, <1>1
  <2>2. r[(j - 1) + 1] = q[j - 1]
    BY <2>1, <1>2
  <2> QED BY <2>1, <2>2, <1>5 DEF r
<1> QED BY <1>3, <1>4, <1>5, <1>1

\* ... so nobody is lost, nobody is doubled, and a sorted queue stays sorted.
LEMMA Insertion ==
  ASSUME NEW q \in Seq(Slots), NEW pos \in 1 .. Len(q) + 1, NEW s \in Slots,
         NEW prio \in [Slots -> Nat]
  PROVE  LET r == shift_right(q, pos, s)
         IN  /\ \A x \in Slots : Member(r, x) <=> Member(q, x) \/ x = s
             /\ Injective(q) /\ ~Member(q, s) => Injective(r)
             /\ /\ Sorted(q, prio)
                /\ \A i \in 1 .. Len(q) : i < pos => prio[q[i]] >= prio[s]
                /\ \A i \in 1 .. Len(q) : i >= pos => prio[q[i]] < prio[s]
                => Sorted(r, prio)
<1> DEFINE r == shift_right(q, pos, s)
           n == Len(q)
<1>1. n \in Nat /\ \A i \in 1 .. n : q[i] \in Slots
  OBVIOUS
<1>2. /\ Len(r) = n + 1
      /\ \A j \in 1 .. n : j < pos => r[j] = q[j]
      /\ r[pos] = s
      /\ \A j \in 1 .. n : j >= pos => r[j + 1] = q[j]
  BY ShiftRight, ZenonT(60)
<1>3. \A j \in 1 .. n + 1 :
        \/ j < pos /\ j \in 1 .. n /\ r[j] = q[j]
        \/ j = pos /\ r[j] = s
        \/ j > pos /\ j - 1 \in 1 .. n /\ r[j] = q[j - 1]
  BY ShiftRightCases
<1>4. \A i \in 1 .. n : prio[q[i]] \in Nat
  BY <1>1
<1>5. prio[s] \in Nat /\ pos \in 1 .. n + 1
  OBVIOUS
<1> HIDE DEF r, n
<1>6. ASSUME NEW x \in Slots PROVE Member(r, x) <=> Member(q, x) \/ x = s
  <2>1. ASSUME NEW j \in 1 .. n + 1, r[j] = x
        PROVE  (\E i \in 1 .. n : q[i] = x) \/ x = s
    BY <2>1, <1>3
  <2>2. ASSUME NEW i \in 1 .. n, q[i] = x
        PROVE  \E j \in 1 .. n + 1 : r[j] = x
    <3>1. CASE i < pos
      <4>1. i \in 1 .. n + 1 /\ r[i] = x
        BY <3>1, <2>2, <1>2, <1>1
      <4> QED BY <4>1
    <3>2. CASE i >= pos
      <4>1. i + 1 \in 1 .. n + 1 /\ r[i + 1] = x
        BY <3>2, <2>2, <1>2, <1>1
      <4> QED BY <4>1
    <3> QED BY <3>1, <3>2, <1>1, <1>5
  <2>3. \E j \in 1 .. n + 1 : r[j] = s
    BY <1>2, <1>5
  <2> QED BY <2>1, <2>2, <2>3, <1>2 DEF Member, n
<1>7. ASSUME Injective(q), ~Member(q, s) PROVE Injective(r)
  <2>1. \A i \in 1 .. n : q[i] # s
    BY <1>7 DEF Member, n
  <2>2. \A i, j \in 1 .. n : q[i] = q[j] => i = j
    BY <1>7 DEF Injective, n
  <2>3. ASSUME NEW i \in 1 .. n + 1, NEW j \in 1 .. n + 1, r[i] = r[j], i < j
        PROVE  FALSE
    <3>1. CASE j < pos
      BY <3>1, <2>2, <2>3, <1>3, <1>5, <1>1
    <3>2. CASE j = pos
      BY <3>2, <2>1, <2>3, <1>3, <1>5, <1>1
    <3>3. CASE j > pos /\ i < pos
      <4>1. i \in 1 .. n /\ r[i] = q[i] /\ j - 1 \in 1 .. n /\ r[j] = q[j - 1]
        BY <3>3, <1>3, <1>5, <1>1
      <4>2. i = j - 1
        BY <4>1, <2>2, <2>3
      <4> QED BY <4>2, <3>3, <1>5, <1>1
    <3>4. CASE j > pos /\ i = pos
      <4>1. j - 1 \in 1 .. n /\ r[j] = q[j - 1]
        BY <3>4, <1>3, <1>5, <1>1
      <4> QED BY <4>1, <3>4, <2>1, <2>3, <1>2
    <3>5. CASE i > pos
      <4>1. /\ i - 1 \in 1 .. n /\ r[i] = q[i - 1]
            /\ j - 1 \in 1 .. n /\ r[j] = q[j - 1]
        BY <3>5, <2>3, <1>3, <1>5, <1>1
      <4>2. i - 1 = j - 1
        BY <4>1, <2>2, <2>3
      <4> QED BY <4>2, <2>3, <1>1
    <3> QED BY <3>1, <3>2, <3>3, <3>4, <3>5, <1>5, <1>1
  <2>4. \A i, j \in 1 .. n + 1 : r[i] = r[j] => i = j
    <3> SUFFICES ASSUME NEW i \in 1 .. n + 1, NEW j \in 1 .. n + 1, r[i] = r[j]
                 PROVE  i = j
      OBVIOUS
    <3>1. i < j \/ j < i \/ i = j
      BY <1>1
    <3> QED BY <3>1, <2>3
  <2> QED BY <2>4, <1>2 DEF Injective
<1>8. ASSUME Sorted(q, prio),
             \A i \in 1 .. n : i < pos => prio[q[i]] >= prio[s],
             \A i \in 1 .. n : i >= pos => prio[q[i]] < prio[s]
      PROVE  Sorted(r, prio)
  <2>1. \A i, j \in 1 .. n : i < j => prio[q[i]] >= prio[q[j]]
    BY <1>8 DEF Sorted, n
  <2>2. ASSUME NEW i \in 1 .. n + 1, NEW j \in 1 .. n + 1, i < j
        PROVE  prio[r[i]] >= prio[r[j]]
    <3>1. CASE j < pos
      <4>1. i \in 1 .. n /\ r[i] = q[i] /\ j \in 1 .. n /\ r[j] = q[j]
        BY <3>1, <2>2, <1>3, <1>5, <1>1
      <4>2. prio[q[i]] >= prio[q[j]]
        BY <4>1, <2>1, <2>2
      <4> QED BY <4>1, <4>2
    <3>2. CASE j = pos
      <4>1. i \in 1 .. n /\ r[i] = q[i] /\ i < pos /\ r[j] = s
        BY <3>2, <2>2, <1>3, <1>5, <1>1, SMTT(60)
      <4>2. prio[q[i]] >= prio[s]
        BY <4>1, <1>8
      <4> QED BY <4>1, <4>2
    <3>3. CASE j > pos /\ i < pos
      <4>1. /\ i \in 1 .. n /\ r[i] = q[i]
            /\ j - 1 \in 1 .. n /\ j - 1 >= pos /\ r[j] = q[j - 1]
        BY <3>3, <1>3, <1>5, <1>1
      <4>2. prio[q[i]] >= prio[s] /\ prio[s] > prio[q[j - 1]]
        BY <4>1, <3>3, <1>8, <1>4, <1>5
      <4>3. prio[q[i]] >= prio[q[j - 1]]
        BY <4>1, <4>2, <1>4, <1>5
      <4> QED BY <4>1, <4>3
    <3>4. CASE j > pos /\ i = pos
      <4>1. r[i] = s /\ j - 1 \in 1 .. n /\ j - 1 >= pos /\ r[j] = q[j - 1]
        BY <3>4, <1>3, <1>5, <1>1
      <4>2. prio[s] >= prio[q[j - 1]]
        BY <4>1, <1>8, <1>4, <1>5
      <4> QED BY <4>1, <4>2
    <3>5. CASE i > pos
      <4>1. /\ i - 1 \in 1 .. n /\ r[i] = q[i - 1]
            /\ j - 1 \in 1 .. n /\ r[j] = q[j - 1] /\ i - 1 < j - 1
        <5>1. i - 1 \in 1 .. n /\ r[i] = q[i - 1]
          BY <3>5, <1>3, <1>5, <1>1
        <5>2. j > pos /\ i - 1 < j - 1
          BY <3>5, <2>2, <1>5, <1>1
        <5>3. j - 1 \in 1 .. n /\ r[j] = q[j - 1]
          BY <5>2, <1>3, <1>5, <1>1
        <5> QED BY <5>1, <5>2, <5>3
      <4>2. prio[q[i - 1]] >= prio[q[j - 1]]
        BY <4>1, <2>1
      <4> QED BY <4>1, <4>2
    <3> QED BY <3>1, <3>2, <3>3, <3>4, <3>5, <1>5, <1>1
  <2> QED BY <2>2, <1>2 DEF Sorted
<1> QED BY <1>6, <1>7, <1>8 DEF r, n

\* Removing shifts the tail left: r[j] is q[up[j]], where up skips pos.
LEMMA Removal ==
  ASSUME NEW q \in Seq(Slots), NEW pos \in 1 .. Len(q), Injective(q),
         NEW prio \in [Slots -> Nat]
  PROVE  LET r == shift_left(q, pos)
         IN  /\ r \in Seq(Slots)
             /\ Len(r) = Len(q) - 1
             /\ Injective(r)
             /\ \A x \in Slots : Member(r, x) <=> Member(q, x) /\ x # q[pos]
             /\ (\A i, j \in 1 .. Len(q) :
                   i < j /\ i # pos /\ j # pos => prio[q[i]] >= prio[q[j]])
                => Sorted(r, prio)
<1> DEFINE r == shift_left(q, pos)
           n == Len(q)
           up == [j \in 1 .. n - 1 |-> IF j < pos THEN j ELSE j + 1]
<1>1. n \in Nat /\ \A j \in 1 .. n : q[j] \in Slots
  OBVIOUS
<1>2. n - 1 \in Nat /\ pos \in 1 .. n
  BY <1>1
<1>3. \A j \in 1 .. n - 1 : up[j] \in 1 .. n /\ up[j] # pos
  BY <1>1, <1>2
<1>4. \A i, j \in 1 .. n - 1 : i < j => up[i] < up[j]
  BY <1>1, <1>2
<1>5. ASSUME NEW i \in 1 .. n, i # pos
      PROVE  \E j \in 1 .. n - 1 : up[j] = i
  <2>1. CASE i < pos
    <3>1. i \in 1 .. n - 1 /\ up[i] = i
      BY <2>1, <1>1, <1>2
    <3> QED BY <3>1
  <2>2. CASE i > pos
    <3>1. i - 1 \in 1 .. n - 1 /\ up[i - 1] = i
      BY <2>2, <1>1, <1>2
    <3> QED BY <3>1
  <2> QED BY <2>1, <2>2, <1>5, <1>1, <1>2
<1>6. r = [j \in 1 .. n - 1 |-> q[up[j]]]
  <2>1. \A j \in 1 .. n - 1 : q[up[j]] = IF j < pos THEN q[j] ELSE q[j + 1]
    BY <1>1, <1>2
  <2> QED BY <2>1 DEF shift_left
<1>6a. \A x \in 1 .. n : q[x] \in Slots
  BY <1>1
<1> HIDE DEF up, n, r
<1>7. r \in [1 .. n - 1 -> Slots]
  BY <1>3, <1>6, <1>6a
<1>8. r \in Seq(Slots) /\ Len(r) = n - 1
  BY <1>2, <1>7, SMTT(60)
<1>9. \A j \in 1 .. n - 1 : r[j] = q[up[j]]
  BY <1>6
<1>10. \A i, j \in 1 .. n : q[i] = q[j] => i = j
  BY DEF Injective, n
<1>11. Injective(r)
  <2> SUFFICES ASSUME NEW i \in 1 .. n - 1, NEW j \in 1 .. n - 1, r[i] = r[j]
               PROVE  i = j
    BY <1>8 DEF Injective
  <2>0. up[i] \in 1 .. n /\ up[j] \in 1 .. n /\ q[up[i]] = q[up[j]]
    BY <1>3, <1>9
  <2>1. up[i] = up[j]
    BY ONLY <2>0, <1>10
  <2>2. up[i] \in Int /\ ~(up[i] < up[j]) /\ ~(up[j] < up[i])
    BY <2>1, <1>3, <1>1
  <2>3. i < j \/ j < i \/ i = j
    BY <1>2
  <2> QED BY <2>2, <2>3, <1>4
<1>12. ASSUME NEW x \in Slots
       PROVE  Member(r, x) <=> Member(q, x) /\ x # q[pos]
  <2>1. ASSUME NEW j \in 1 .. n - 1, r[j] = x
        PROVE  (\E i \in 1 .. n : q[i] = x) /\ x # q[pos]
    <3>1. up[j] \in 1 .. n /\ up[j] # pos /\ q[up[j]] = x
      BY <2>1, <1>3, <1>9
    <3> QED BY <3>1, <1>2, <1>10
  <2>2. ASSUME NEW i \in 1 .. n, q[i] = x, x # q[pos]
        PROVE  \E j \in 1 .. n - 1 : r[j] = x
    <3>1. i # pos
      BY <2>2
    <3>2. PICK j \in 1 .. n - 1 : up[j] = i
      BY <3>1, <1>5
    <3> QED BY <3>2, <2>2, <1>9
  <2> QED BY <2>1, <2>2, <1>8 DEF Member, n
<1>13. ASSUME \A i, j \in 1 .. n :
                i < j /\ i # pos /\ j # pos => prio[q[i]] >= prio[q[j]]
       PROVE  Sorted(r, prio)
  <2> SUFFICES ASSUME NEW i \in 1 .. n - 1, NEW j \in 1 .. n - 1, i < j
               PROVE  prio[r[i]] >= prio[r[j]]
    BY <1>8 DEF Sorted
  <2>1. up[i] < up[j]
    BY <1>4
  <2>2. prio[q[up[i]]] >= prio[q[up[j]]]
    BY <2>1, <1>3, <1>13
  <2> QED BY <2>2, <1>9
<1> QED BY <1>8, <1>11, <1>12, <1>13 DEF r, n

\* A queue without repetitions that misses a slot has room for it.
LEMMA QueueHasRoom ==
  ASSUME NEW q \in Seq(Slots), Injective(q), NEW s \in Slots, ~Member(q, s)
  PROVE  Len(q) < MaxProcesses
<1> SUFFICES ASSUME Len(q) >= MaxProcesses PROVE FALSE
  BY SchedulerAssumption
<1>1. Len(q) \in Nat /\ q \in [1 .. Len(q) -> Slots \ {s}]
  <2>1. Len(q) \in Nat /\ \A i \in 1 .. Len(q) : q[i] \in Slots
    OBVIOUS
  <2>2. \A i \in 1 .. Len(q) : q[i] # s
    BY DEF Member
  <2>3. q = [i \in 1 .. Len(q) |-> q[i]]
    OBVIOUS
  <2> QED BY <2>1, <2>2, <2>3
<1>2. IsFiniteSet(1 .. Len(q)) /\ Cardinality(1 .. Len(q)) = Len(q)
  BY <1>1, FS_Interval
<1>3. IsFiniteSet(Slots) /\ Cardinality(Slots) = MaxProcesses
  BY FS_Interval, SchedulerAssumption DEF Slots
<1>4. IsFiniteSet(Slots \ {s}) /\ Cardinality(Slots \ {s}) = MaxProcesses - 1
  BY <1>3, FS_RemoveElement
<1>5. Cardinality(Slots \ {s}) < Cardinality(1 .. Len(q))
  BY <1>1, <1>2, <1>4, SchedulerAssumption
<1>6. \E i, j \in 1 .. Len(q) : i # j /\ q[i] = q[j]
  BY <1>1, <1>2, <1>4, <1>5, FS_PigeonHole
<1> QED BY <1>6 DEF Injective

\* Priorities are natural numbers.
LEMMA PriorityNat ==
  ASSUME NEW k \in KernelType
  PROVE  \A x \in Slots : k.tab[x].priority \in Nat
<1> SUFFICES ASSUME NEW x \in Slots PROVE k.tab[x].priority \in Nat
  OBVIOUS
<1>1. k.tab \in [Slots -> PCB]
  BY DEF KernelType
<1>2. k.tab[x] \in PCB
  BY ONLY <1>1, x \in Slots
<1>3. k.tab[x].priority \in MinPriority .. MaxPriority
  BY ONLY <1>2 DEF PCB
<1> QED BY <1>3, SchedulerAssumption

\* insert_pos is a position of the longer queue, the processes before it have
\* at least the priority of s and, in a sorted queue, those after it less.
LEMMA InsertPos ==
  ASSUME NEW k \in KernelType, SortedOK(k), NEW s \in Slots
  PROVE  LET pos == insert_pos(k, s)
         IN  /\ pos \in 1 .. Len(k.rq) + 1
             /\ \A i \in 1 .. Len(k.rq) :
                  i < pos => k.tab[k.rq[i]].priority >= k.tab[s].priority
             /\ \A i \in 1 .. Len(k.rq) :
                  i >= pos => k.tab[k.rq[i]].priority < k.tab[s].priority
<1> DEFINE lower == {i \in 1 .. Len(k.rq) :
                       k.tab[k.rq[i]].priority < k.tab[s].priority}
           all == lower \cup {Len(k.rq) + 1}
           pos == insert_pos(k, s)
<1>0. /\ k.rq \in Seq(Slots) /\ Len(k.rq) \in Nat
      /\ k.tab \in [Slots -> PCB]
      /\ \A i \in 1 .. Len(k.rq) : k.rq[i] \in Slots
  BY DEF KernelType
<1>1. \A x \in Slots : k.tab[x].priority \in Nat
  BY PriorityNat
<1>2. all \in SUBSET Nat /\ all # {}
  BY <1>0
<1>3. pos = Min(all)
  BY DEF insert_pos
<1> HIDE DEF all
<1>4. pos \in all /\ \A i \in all : pos <= i
  BY <1>2, <1>3, MinOfNat
<1> USE DEF all
<1>5. pos \in 1 .. Len(k.rq) + 1
  BY <1>4, <1>0
<1>6. ASSUME NEW i \in 1 .. Len(k.rq), i < pos
      PROVE  k.tab[k.rq[i]].priority >= k.tab[s].priority
  <2>1. i \notin lower
    BY <1>4, <1>5, <1>6
  <2> QED BY <2>1, <1>0, <1>1
<1>7. ASSUME NEW i \in 1 .. Len(k.rq), i >= pos
      PROVE  k.tab[k.rq[i]].priority < k.tab[s].priority
  <2>1. pos \in lower
    BY <1>4, <1>5, <1>7, <1>0
  <2>2. k.tab[k.rq[pos]].priority < k.tab[s].priority /\ pos \in 1 .. Len(k.rq)
    BY <2>1
  <2>3. k.tab[k.rq[pos]].priority >= k.tab[k.rq[i]].priority
    <3>1. CASE i = pos
      BY <3>1, <1>0, <1>1
    <3>2. CASE pos < i
      BY <3>2, <2>2 DEF SortedOK
    <3> QED BY <3>1, <3>2, <1>7, <1>5
  <2> QED BY <2>2, <2>3, <1>0, <1>1
<1> QED BY <1>5, <1>6, <1>7

\* The part of the queue's invariant that does not mention process states.
QueueShape(k) == Injective(k.rq) /\ IdxOK(k.rq, k.idx)

\* scheduler_add puts a process that was not queued into its place.
LEMMA SchedulerAdd ==
  ASSUME NEW k \in KernelType, QueueShape(k), SortedOK(k),
         NEW s \in Slots, s # k.idle, ~Member(k.rq, s)
  PROVE  LET r == scheduler_add(k, s)
         IN  /\ r.rq \in Seq(Slots) /\ r.idx \in Nat
             /\ r = [k EXCEPT !.rq = r.rq, !.idx = r.idx]
             /\ QueueShape(r)
             /\ SortedOK(r)
             /\ \A x \in Slots : Member(r.rq, x) <=> Member(k.rq, x) \/ x = s
<1> DEFINE r == scheduler_add(k, s)
           q == k.rq
           n == Len(q)
           pos == insert_pos(k, s)
<1>0. /\ q \in Seq(Slots) /\ n \in Nat /\ k.idx \in Nat
      /\ k.tab \in [Slots -> PCB]
      /\ \A i \in 1 .. n : q[i] \in Slots
  BY DEF KernelType
<1>1. n < MaxProcesses
  BY <1>0, QueueHasRoom DEF QueueShape
<1>2. r = [k EXCEPT !.rq = shift_right(q, pos, s),
                    !.idx = idx_after_add(k.idx, pos, n)]
  BY <1>0, <1>1, SchedulerAssumption DEF scheduler_add
<1>3. /\ r.rq = shift_right(q, pos, s)
      /\ r.idx = idx_after_add(k.idx, pos, n)
      /\ r.tab = k.tab
  BY <1>2 DEF KernelType
<1>4. /\ pos \in 1 .. n + 1
      /\ \A i \in 1 .. n :
           i < pos => k.tab[q[i]].priority >= k.tab[s].priority
      /\ \A i \in 1 .. n :
           i >= pos => k.tab[q[i]].priority < k.tab[s].priority
  BY InsertPos
<1> HIDE DEF pos, r
<1>5. r.rq \in Seq(Slots) /\ Len(r.rq) = n + 1
  BY <1>0, <1>3, <1>4, ShiftRight
<1>6. r.idx \in Nat /\ IdxOK(r.rq, r.idx)
  BY <1>0, <1>3, <1>4, <1>5 DEF QueueShape, IdxOK, idx_after_add
<1> DEFINE prio == [x \in Slots |-> k.tab[x].priority]
<1>7. prio \in [Slots -> Nat] /\ \A x \in Slots : prio[x] = k.tab[x].priority
  <2>1. \A x \in Slots : k.tab[x].priority \in Nat
    BY PriorityNat
  <2> QED BY <2>1
<1> HIDE DEF prio
<1>8. \A i \in 1 .. n : prio[q[i]] = k.tab[q[i]].priority
  BY <1>0, <1>7
<1>9. Sorted(q, prio)
  BY <1>8 DEF Sorted, SortedOK
<1>10. /\ \A i \in 1 .. n : i < pos => prio[q[i]] >= prio[s]
       /\ \A i \in 1 .. n : i >= pos => prio[q[i]] < prio[s]
  BY <1>4, <1>7, <1>8
<1> HIDE DEF n
<1>11. /\ \A x \in Slots : Member(r.rq, x) <=> Member(q, x) \/ x = s
       /\ Injective(r.rq)
       /\ Sorted(r.rq, prio)
  <2> HIDE DEF q
  <2>1. pos \in 1 .. Len(q) + 1 /\ q \in Seq(Slots) /\ prio \in [Slots -> Nat]
    BY <1>0, <1>4, <1>7 DEF n
  <2>2. Injective(q) /\ ~Member(q, s)
    BY DEF q, QueueShape
  <2>3. /\ \A i \in 1 .. Len(q) : i < pos => prio[q[i]] >= prio[s]
        /\ \A i \in 1 .. Len(q) : i >= pos => prio[q[i]] < prio[s]
    BY <1>10 DEF n
  <2> QED BY <2>1, <2>2, <2>3, <1>3, <1>9, Insertion, SMTT(60)
<1>12. SortedOK(r)
  <2>1. \A i \in 1 .. Len(r.rq) : prio[r.rq[i]] = r.tab[r.rq[i]].priority
    BY <1>3, <1>5, <1>7
  <2> QED BY <2>1, <1>11 DEF Sorted, SortedOK
<1>13. r = [k EXCEPT !.rq = r.rq, !.idx = r.idx]
  BY <1>2, <1>3
<1> QED BY <1>5, <1>6, <1>11, <1>12, <1>13 DEF r, QueueShape

\* The cursor stays inside the queue after a removal.
LEMMA IdxAfterRemove ==
  ASSUME NEW n \in Nat, NEW pos \in 1 .. n, NEW idx \in Nat, idx < n
  PROVE  /\ idx_after_remove(idx, pos, n - 1) \in Nat
         /\ \/ idx_after_remove(idx, pos, n - 1) < n - 1
            \/ idx_after_remove(idx, pos, n - 1) = 0 /\ n - 1 = 0
  BY DEF idx_after_remove

\* Sorted, but for the place of s, whose priority has just changed.
SortedExcept(k, s) ==
  \A i, j \in 1 .. Len(k.rq) :
    i < j /\ k.rq[i] # s /\ k.rq[j] # s
      => k.tab[k.rq[i]].priority >= k.tab[k.rq[j]].priority

\* scheduler_remove takes s, and nobody else, out of the queue.
LEMMA SchedulerRemove ==
  ASSUME NEW k \in KernelType, QueueShape(k), NEW s \in Slots,
         SortedExcept(k, s)
  PROVE  LET r == scheduler_remove(k, s)
         IN  /\ r.rq \in Seq(Slots) /\ r.idx \in Nat
             /\ r = [k EXCEPT !.rq = r.rq, !.idx = r.idx]
             /\ QueueShape(r)
             /\ SortedOK(r)
             /\ \A x \in Slots : Member(r.rq, x) <=> Member(k.rq, x) /\ x # s
<1> DEFINE r == scheduler_remove(k, s)
           q == k.rq
           n == Len(q)
           at == {i \in 1 .. n : q[i] = s}
<1>0. /\ q \in Seq(Slots) /\ n \in Nat /\ k.idx \in Nat
      /\ k.tab \in [Slots -> PCB]
      /\ \A i \in 1 .. n : q[i] \in Slots
  BY DEF KernelType
<1>1. CASE at = {}
  <2>1. r = k
    BY <1>1 DEF scheduler_remove
  <2>2. \A i \in 1 .. n : q[i] # s
    BY <1>1
  <2>3. SortedOK(k)
    BY <2>2 DEF SortedOK, SortedExcept
  <2>4. \A x \in Slots : Member(q, x) <=> Member(q, x) /\ x # s
    BY <2>2 DEF Member
  <2>5. k = [k EXCEPT !.rq = k.rq, !.idx = k.idx]
    BY DEF KernelType
  <2> QED BY <2>1, <2>3, <2>4, <2>5, <1>0
<1>2. CASE at # {}
  <2> DEFINE pos == Min(at)
  <2>1. at \in SUBSET Nat
    BY <1>0
  <2>2. pos \in at
    <3> HIDE DEF at
    <3> QED BY <2>1, <1>2, MinOfNat
  <2>3. r = [k EXCEPT !.rq = shift_left(q, pos),
                      !.idx = idx_after_remove(k.idx, pos, n - 1)]
    BY <1>2 DEF scheduler_remove
  <2>4. pos \in 1 .. n /\ q[pos] = s
    BY <2>2
  <2> HIDE DEF pos, at, r
  <2>5. /\ r.rq = shift_left(q, pos)
        /\ r.idx = idx_after_remove(k.idx, pos, n - 1)
        /\ r.tab = k.tab
    BY <2>3 DEF KernelType
  <2> DEFINE prio == [x \in Slots |-> k.tab[x].priority]
  <2>6. prio \in [Slots -> Nat] /\ \A x \in Slots : prio[x] = k.tab[x].priority
    <3>1. \A x \in Slots : k.tab[x].priority \in Nat
      BY PriorityNat
    <3> QED BY <3>1
  <2> HIDE DEF prio
  <2>7. Injective(q)
    BY DEF QueueShape
  <2>8. \A i, j \in 1 .. n :
          i < j /\ i # pos /\ j # pos => prio[q[i]] >= prio[q[j]]
    <3> SUFFICES ASSUME NEW i \in 1 .. n, NEW j \in 1 .. n,
                        i < j, i # pos, j # pos
                 PROVE  prio[q[i]] >= prio[q[j]]
      OBVIOUS
    <3>1. q[i] # s /\ q[j] # s
      BY <2>4, <2>7 DEF Injective
    <3>2. k.tab[q[i]].priority >= k.tab[q[j]].priority
      BY <3>1 DEF SortedExcept
    <3> QED BY <3>2, <2>6, <1>0
  <2>9. /\ r.rq \in Seq(Slots)
        /\ Len(r.rq) = n - 1
        /\ Injective(r.rq)
        /\ \A x \in Slots : Member(r.rq, x) <=> Member(q, x) /\ x # s
        /\ Sorted(r.rq, prio)
    <3>1. /\ shift_left(q, pos) \in Seq(Slots)
          /\ Len(shift_left(q, pos)) = Len(q) - 1
          /\ Injective(shift_left(q, pos))
          /\ \A x \in Slots :
               Member(shift_left(q, pos), x) <=> Member(q, x) /\ x # q[pos]
          /\ Sorted(shift_left(q, pos), prio)
      <4>1. q \in Seq(Slots) /\ prio \in [Slots -> Nat]
        BY <1>0, <2>6
      <4> HIDE DEF q
      <4> QED BY ONLY <4>1, <2>4, <2>7, <2>8, Removal
    <3> QED BY <3>1, <2>4, <2>5
  <2>10. r.idx \in Nat /\ IdxOK(r.rq, r.idx)
    <3>1. k.idx < n
      BY <1>0, <2>4 DEF QueueShape, IdxOK
    <3> QED BY <1>0, <2>4, <2>5, <2>9, <3>1, IdxAfterRemove DEF IdxOK
  <2>11. SortedOK(r)
    <3>1. \A i \in 1 .. Len(r.rq) : prio[r.rq[i]] = r.tab[r.rq[i]].priority
      BY <2>5, <2>6, <2>9
    <3> QED BY <3>1, <2>9 DEF Sorted, SortedOK
  <2>12. r = [k EXCEPT !.rq = r.rq, !.idx = r.idx]
    BY <2>3, <2>5
  <2> QED BY <2>9, <2>10, <2>11, <2>12 DEF r, QueueShape
<1> QED BY <1>1, <1>2

(***************************************************************************)
(* Gentle steps: no slot is taken or freed, nobody starts to run or ends   *)
(***************************************************************************)
Gentle(k, r) ==
  /\ r \in KernelType
  /\ r.rq = k.rq /\ r.idx = k.idx /\ r.cur = k.cur
  /\ r.idle = k.idle /\ r.npid = k.npid
  /\ \A s \in Slots :
       /\ r.tab[s].pid = k.tab[s].pid
       /\ r.tab[s].priority = k.tab[s].priority
       /\ r.tab[s].foreground = k.tab[s].foreground
       /\ \/ r.tab[s].state = k.tab[s].state
          \/ Alive(k, s) /\ r.tab[s].state \in {"READY", "BLOCKED"}
  /\ r.kbd # NULL => r.kbd = k.kbd \/ Alive(k, r.kbd)
  /\ \A pid \in r.waitq :
       pid \in k.waitq \/ \E s \in Slots : Alive(k, s) /\ k.tab[s].pid = pid

\* A gentle change keeps the kernel invariant.
LEMMA GentleInv ==
  ASSUME NEW k, KInv(k), NEW r, Gentle(k, r)
  PROVE  KInv(r)
<1>0. /\ k \in KernelType /\ r \in KernelType
      /\ \A i \in 1 .. Len(k.rq) : k.rq[i] \in Slots
      /\ r.kbd \in Slots \cup {NULL} /\ r.idle \in Slots
  BY DEF KInv, Gentle, KernelType
<1>1. \A s \in Slots : /\ r.tab[s].state = "FREE" <=> k.tab[s].state = "FREE"
                       /\ Alive(r, s) <=> Alive(k, s)
  BY DEF Gentle, Alive
<1>2. QueueOK(r)
  BY <1>1 DEF KInv, QueueOK, Gentle
<1>3. SortedOK(r)
  BY <1>0 DEF KInv, SortedOK, Gentle
<1>4. PidsOK(r)
  BY <1>1 DEF KInv, PidsOK, Gentle
<1>5. IdleOK(r)
  BY <1>0 DEF KInv, IdleOK, Gentle
<1>6. CpuOK(r)
  BY DEF KInv, CpuOK, Gentle
<1>7. WaitOK(r)
  <2>1. r.kbd # NULL => Alive(r, r.kbd)
    BY <1>0, <1>1 DEF KInv, WaitOK, Gentle
  <2>2. ASSUME NEW pid \in r.waitq
        PROVE  \E s \in Slots : Alive(r, s) /\ r.tab[s].pid = pid
    <3>1. PICK s \in Slots : Alive(k, s) /\ k.tab[s].pid = pid
      BY DEF KInv, WaitOK, Gentle
    <3> QED BY <3>1, <1>1 DEF Gentle
  <2> QED BY <2>1, <2>2 DEF WaitOK
<1> QED BY <1>0, <1>2, <1>3, <1>4, <1>5, <1>6, <1>7 DEF KInv

\* A gentle change keeps the claim on the running process.
LEMMA GentleCur ==
  ASSUME NEW k, NEW r, CurOK(k), Gentle(k, r), k \in KernelType,
         k.force => r.force,
         r.tab[k.cur].state = "BLOCKED" => k.tab[k.cur].state = "BLOCKED" \/ r.force
  PROVE  CurOK(r)
  BY DEF CurOK, Gentle, Alive, KernelType

\* A pid that process_get finds is that of the slot it returns.
LEMMA ProcessGet ==
  ASSUME NEW k \in KernelType, NEW pid, process_get(k, pid) # NULL
  PROVE  /\ process_get(k, pid) \in Slots
         /\ k.tab[process_get(k, pid)].pid = pid
         /\ k.tab[process_get(k, pid)].state # "FREE"
  BY DEF process_get, Live, Pid

\* Inside a handler.
Mid(k) == KInv(k) /\ CurOK(k)

\* Gentle steps that block nobody.
Wakes(k, r) ==
  /\ Gentle(k, r)
  /\ k.force => r.force
  /\ \A s \in Slots : \/ r.tab[s].state = k.tab[s].state
                      \/ k.tab[s].state = "BLOCKED" /\ r.tab[s].state = "READY"

\* Wake ups keep the invariant.
LEMMA WakesMid ==
  ASSUME NEW k, NEW r, Mid(k), Wakes(k, r)
  PROVE  Mid(r)
<1>1. k \in KernelType /\ k.cur \in Slots
  BY DEF Mid, KInv, KernelType
<1>2. KInv(r)
  BY GentleInv DEF Mid, Wakes
<1>3. CurOK(r)
  BY <1>1, GentleCur DEF Mid, Wakes
<1> QED BY <1>2, <1>3 DEF Mid

\* How a PCB looks after the assignments of a wake-up.
LEMMA WakePCB ==
  ASSUME NEW p \in PCB
  PROVE  LET q == [p EXCEPT !.state = "READY", !.wait_ticks = 0]
         IN  /\ q \in PCB /\ q.pid = p.pid /\ q.priority = p.priority
             /\ q.foreground = p.foreground /\ q.state = "READY"
<1>1. 0 \in 0 .. TicksCap /\ "READY" \in States
  BY ConstantFacts DEF States
<1> QED BY <1>1 DEF PCB

\* A gentle step of one slot.
SetPCB(k, s, p, force) == [k EXCEPT !.tab[s] = p, !.force = force]

\* Setting fields of one PCB that no queue depends on is gentle.
LEMMA SetPCBGentle ==
  ASSUME NEW k \in KernelType, NEW s \in Slots, NEW p \in PCB,
         NEW force \in BOOLEAN, NEW r, r = SetPCB(k, s, p, force),
         p.pid = k.tab[s].pid, p.priority = k.tab[s].priority,
         p.foreground = k.tab[s].foreground,
         \/ p.state = k.tab[s].state
         \/ Alive(k, s) /\ p.state \in {"READY", "BLOCKED"}
  PROVE  /\ Gentle(k, r)
         /\ r.tab[s] = p /\ \A x \in Slots \ {s} : r.tab[x] = k.tab[x]
         /\ r.kbd = k.kbd /\ r.waitq = k.waitq /\ r.force = force
<1>1. /\ r \in KernelType
      /\ r.tab = [k.tab EXCEPT ![s] = p] /\ r.rq = k.rq /\ r.idx = k.idx
      /\ r.cur = k.cur /\ r.idle = k.idle /\ r.npid = k.npid
      /\ r.kbd = k.kbd /\ r.waitq = k.waitq /\ r.force = force
  BY DEF KernelType, SetPCB
<1>2. r.tab[s] = p /\ \A x \in Slots \ {s} : r.tab[x] = k.tab[x]
  BY <1>1 DEF KernelType
<1> QED BY <1>1, <1>2 DEF Gentle

\* Unblocking a set of processes only wakes: BLOCKED becomes READY.
LEMMA UnblockAll ==
  ASSUME NEW k \in KernelType, NEW W
  PROVE  LET r == unblock_all(k, W)
         IN  Wakes(k, r) /\ r.kbd = k.kbd /\ r.waitq = k.waitq
<1> DEFINE r == unblock_all(k, W)
           woken == {s \in Slots : Pid(k, s) \in W /\ k.tab[s].state = "BLOCKED"}
           wake(s) == [k.tab[s] EXCEPT !.state = "READY", !.wait_ticks = 0]
           tab == [s \in Slots |-> IF s \in woken THEN wake(s) ELSE k.tab[s]]
           force == \/ k.force
                    \/ /\ k.cur # NULL
                       /\ \E s \in woken :
                            k.tab[s].priority > k.tab[k.cur].priority
<1>1. r = [k EXCEPT !.tab = tab, !.force = force]
  BY DEF unblock_all
<1>2. k.tab \in [Slots -> PCB]
  BY DEF KernelType
<1>3. ASSUME NEW s \in Slots
      PROVE  /\ wake(s) \in PCB
             /\ wake(s).pid = k.tab[s].pid
             /\ wake(s).priority = k.tab[s].priority
             /\ wake(s).foreground = k.tab[s].foreground
             /\ wake(s).state = "READY"
  <2>1. k.tab[s] \in PCB
    BY <1>2
  <2> QED BY <2>1, WakePCB
<1>4. tab \in [Slots -> PCB]
  BY <1>2, <1>3
<1>5. \A s \in Slots : /\ tab[s].pid = k.tab[s].pid
                       /\ tab[s].priority = k.tab[s].priority
                       /\ tab[s].foreground = k.tab[s].foreground
                       /\ \/ tab[s].state = k.tab[s].state
                          \/ k.tab[s].state = "BLOCKED" /\ tab[s].state = "READY"
  BY <1>3
<1>6. force \in BOOLEAN /\ (k.force => force)
  BY DEF KernelType
<1> HIDE DEF r, tab, force
<1>7. /\ r \in KernelType
      /\ r.tab = tab /\ r.rq = k.rq /\ r.idx = k.idx /\ r.cur = k.cur
      /\ r.idle = k.idle /\ r.npid = k.npid /\ r.kbd = k.kbd
      /\ r.waitq = k.waitq /\ r.force = force
  BY <1>1, <1>4, <1>6 DEF KernelType
<1>8. Gentle(k, r)
  BY <1>5, <1>7 DEF Gentle, Alive
<1> QED BY <1>5, <1>6, <1>7, <1>8 DEF Wakes, r

\* process_unblock keeps the invariant of the kernel inside a call.
LEMMA ProcessUnblock ==
  ASSUME NEW k, Mid(k), NEW pid
  PROVE  Mid(process_unblock(k, pid))
<1>1. k \in KernelType
  BY DEF Mid, KInv
<1> QED BY <1>1, UnblockAll, WakesMid DEF process_unblock

\* After release_resources nothing refers to s.
LEMMA ReleaseResources ==
  ASSUME NEW k \in KernelType, NEW s \in Slots, NEW W
  PROVE  LET r == release_resources(k, s, W)
         IN  Wakes(k, r) /\ r.kbd # s /\ k.tab[s].pid \notin r.waitq
<1> DEFINE m == [k EXCEPT !.waitq = (@ \ {Pid(k, s)}) \ W,
                          !.kbd = IF @ = s THEN NULL ELSE @]
           r == unblock_all(m, W)
<1>1. /\ m \in KernelType /\ m.tab = k.tab /\ m.rq = k.rq /\ m.idx = k.idx
      /\ m.cur = k.cur /\ m.idle = k.idle /\ m.npid = k.npid
      /\ m.force = k.force
      /\ m.waitq = (k.waitq \ {k.tab[s].pid}) \ W
      /\ m.kbd = IF k.kbd = s THEN NULL ELSE k.kbd
  BY DEF KernelType, Pid
<1> HIDE DEF m
<1>2. Wakes(m, r) /\ r.kbd = m.kbd /\ r.waitq = m.waitq
  BY <1>1, UnblockAll
<1> HIDE DEF r
<1>3. NULL # s
  BY ConstantFacts
<1>4. r.kbd # s /\ k.tab[s].pid \notin r.waitq
  BY <1>1, <1>2, <1>3
<1>5. Gentle(k, r)
  BY <1>1, <1>2 DEF Gentle, Wakes, Alive
<1>6. Wakes(k, r)
  BY <1>1, <1>2, <1>5 DEF Wakes
<1> QED BY <1>4, <1>6 DEF r, m, release_resources

\* process_release_fds only wakes.
LEMMA ReleaseFds ==
  ASSUME NEW k \in KernelType, NEW V
  PROVE  LET r == process_release_fds(k, V)
         IN  Wakes(k, r) /\ r.kbd = k.kbd /\ r.waitq \subseteq k.waitq
<1> DEFINE m == [k EXCEPT !.waitq = @ \ V]
           r == unblock_all(m, V \cap k.waitq)
<1>1. /\ m \in KernelType /\ m.tab = k.tab /\ m.rq = k.rq /\ m.idx = k.idx
      /\ m.cur = k.cur /\ m.idle = k.idle /\ m.npid = k.npid
      /\ m.force = k.force /\ m.kbd = k.kbd /\ m.waitq = k.waitq \ V
  BY DEF KernelType
<1> HIDE DEF m
<1>2. Wakes(m, r) /\ r.kbd = m.kbd /\ r.waitq = m.waitq
  BY <1>1, UnblockAll
<1>3. process_release_fds(k, V) = r
  BY DEF process_release_fds, m
<1> HIDE DEF r
<1>4. Gentle(k, r)
  BY <1>1, <1>2 DEF Gentle, Wakes, Alive
<1>5. Wakes(k, r)
  BY <1>1, <1>2, <1>4 DEF Wakes
<1> QED BY <1>1, <1>2, <1>3, <1>5

\* wake_parent only wakes.
LEMMA WakeParent ==
  ASSUME NEW k \in KernelType, NEW s \in Slots
  PROVE  LET r == wake_parent(k, s)
         IN  Wakes(k, r) /\ r.kbd = k.kbd /\ r.waitq = k.waitq
<1> DEFINE p == process_get(k, k.tab[s].parent_pid)
           r == wake_parent(k, s)
<1>1. CASE /\ p # NULL
           /\ k.tab[p].state = "BLOCKED"
           /\ k.tab[p].waiting_for = Pid(k, s)
  <2> DEFINE new == [k.tab[p] EXCEPT !.waiting_for = 0, !.state = "READY",
                                     !.wait_ticks = 0]
  <2>1. p \in Slots
    BY <1>1, ProcessGet
  <2>2. k.tab[p] \in PCB /\ k.force \in BOOLEAN
    BY <2>1 DEF KernelType
  <2>3. /\ new \in PCB /\ new.pid = k.tab[p].pid
        /\ new.priority = k.tab[p].priority
        /\ new.foreground = k.tab[p].foreground /\ new.state = "READY"
    <3>1. 0 \in 0 .. TicksCap /\ "READY" \in States
      BY ConstantFacts DEF States
    <3> QED BY <2>2, <3>1 DEF PCB
  <2>4. r = SetPCB(k, p, new, k.force)
    BY <1>1 DEF wake_parent, KernelType, SetPCB
  <2> HIDE DEF p, r, new
  <2>5. /\ Gentle(k, r) /\ r.kbd = k.kbd /\ r.waitq = k.waitq
        /\ r.force = k.force
        /\ r.tab[p] = new /\ \A x \in Slots \ {p} : r.tab[x] = k.tab[x]
    BY <2>1, <2>2, <2>3, <2>4, <1>1, SetPCBGentle DEF Alive
  <2> QED BY <2>3, <2>5, <1>1 DEF Wakes, r
<1>2. CASE ~(/\ p # NULL
             /\ k.tab[p].state = "BLOCKED"
             /\ k.tab[p].waiting_for = Pid(k, s))
  <2>1. r = k
    BY <1>2 DEF wake_parent
  <2> QED BY <2>1 DEF Wakes, Gentle
<1> QED BY <1>1, <1>2

\* A PCB with another state keeps its type.
LEMMA StatePCB ==
  ASSUME NEW p \in PCB, NEW st \in States
  PROVE  LET q == [p EXCEPT !.state = st]
         IN  /\ q \in PCB /\ q.pid = p.pid /\ q.priority = p.priority
             /\ q.foreground = p.foreground /\ q.state = st
  BY DEF PCB

\* A process that has not ended becomes READY or BLOCKED.
LEMMA SetPCBMid ==
  ASSUME NEW k, Mid(k), NEW s \in Slots, Alive(k, s), NEW p \in PCB,
         NEW force \in BOOLEAN,
         p.pid = k.tab[s].pid, p.priority = k.tab[s].priority,
         p.foreground = k.tab[s].foreground,
         p.state \in {"READY", "BLOCKED"},
         k.force => force,
         s = k.cur /\ p.state = "BLOCKED" => force
  PROVE  Mid(SetPCB(k, s, p, force))
<1> DEFINE r == SetPCB(k, s, p, force)
<1>1. k \in KernelType /\ k.cur \in Slots
  BY DEF Mid, KInv, KernelType
<1>2. /\ Gentle(k, r)
      /\ r.tab[s] = p /\ \A x \in Slots \ {s} : r.tab[x] = k.tab[x]
      /\ r.force = force
  BY <1>1, SetPCBGentle
<1> HIDE DEF r
<1>3. KInv(r)
  BY <1>2, GentleInv DEF Mid
<1>4. r.tab[k.cur].state = "BLOCKED" => k.tab[k.cur].state = "BLOCKED" \/ r.force
  BY <1>1, <1>2
<1>5. CurOK(r)
  BY <1>1, <1>2, <1>4, GentleCur DEF Mid
<1> QED BY <1>3, <1>5 DEF Mid, r

\* process_block keeps the invariant.
LEMMA ProcessBlock ==
  ASSUME NEW k, Mid(k), NEW pid
  PROVE  Mid(process_block(k, pid))
<1> DEFINE s == process_get(k, pid)
           p == [k.tab[s] EXCEPT !.state = "BLOCKED"]
<1>1. k \in KernelType /\ k.force \in BOOLEAN
  BY DEF Mid, KInv, KernelType
<1>2. CASE s = NULL \/ k.tab[s].state \in {"ZOMBIE", "BLOCKED"}
  BY <1>2 DEF process_block
<1>3. CASE ~(s = NULL \/ k.tab[s].state \in {"ZOMBIE", "BLOCKED"})
  <2>1. s \in Slots /\ k.tab[s].state # "FREE"
    BY <1>1, <1>3, ProcessGet
  <2>2. k.tab[s] \in PCB /\ "BLOCKED" \in States
    BY <1>1, <2>1 DEF KernelType, States
  <2>3. process_block(k, pid) = SetPCB(k, s, p, k.force \/ s = k.cur)
    BY <1>1, <1>3 DEF process_block, SetPCB, KernelType
  <2>4. /\ p \in PCB /\ p.pid = k.tab[s].pid /\ p.priority = k.tab[s].priority
        /\ p.foreground = k.tab[s].foreground /\ p.state = "BLOCKED"
    BY <2>2, StatePCB
  <2>5. Alive(k, s)
    BY <1>3, <2>1 DEF Alive
  <2> HIDE DEF s, p
  <2>6. (k.force \/ s = k.cur) \in BOOLEAN
    BY <1>1
  <2>7. Mid(SetPCB(k, s, p, k.force \/ s = k.cur))
    BY <2>1, <2>4, <2>5, <2>6, SetPCBMid
  <2> QED BY <2>3, <2>7
<1> QED BY <1>2, <1>3

\* Changes of who waits on the keyboard and in the queues.
LEMMA SetWaiters ==
  ASSUME NEW k, Mid(k), NEW kbd \in Slots \cup {NULL}, NEW waitq \in SUBSET Nat,
         kbd # NULL => Alive(k, kbd),
         \A pid \in waitq : \E s \in Slots : Alive(k, s) /\ k.tab[s].pid = pid
  PROVE  Mid([k EXCEPT !.kbd = kbd, !.waitq = waitq])
<1> DEFINE r == [k EXCEPT !.kbd = kbd, !.waitq = waitq]
<1>1. k \in KernelType
  BY DEF Mid, KInv
<1>2. /\ r \in KernelType
      /\ r.tab = k.tab /\ r.rq = k.rq /\ r.idx = k.idx /\ r.cur = k.cur
      /\ r.idle = k.idle /\ r.npid = k.npid /\ r.kbd = kbd
      /\ r.waitq = waitq /\ r.force = k.force
  BY <1>1 DEF KernelType
<1> HIDE DEF r
<1>3. Wakes(k, r)
  BY <1>2 DEF Wakes, Gentle
<1>4. Mid(r)
  BY <1>3, WakesMid
<1> QED BY <1>4 DEF r

\* Between two handlers nobody is a ZOMBIE.
LEMMA DoneFacts ==
  ASSUME NEW k, Done(k)
  PROVE  /\ k \in KernelType
         /\ k.cur \in Slots /\ k.cur # NULL /\ Alive(k, k.cur)
         /\ \A s \in Slots : k.tab[s].state # "ZOMBIE"
         /\ Mid(k)
  BY ConstantFacts DEF Done, KInv, KernelType, CpuOK, Alive, Mid, CurOK

\* process_waitpid keeps the invariant.
LEMMA ProcessWaitpid ==
  ASSUME NEW k, Done(k), NEW pid \in Nat
  PROVE  Mid(process_waitpid(k, pid))
<1> DEFINE child == process_get(k, pid)
           p == [k.tab[k.cur] EXCEPT !.state = "BLOCKED", !.waiting_for = pid]
<1>1. /\ k \in KernelType /\ k.cur \in Slots /\ k.cur # NULL
      /\ Alive(k, k.cur) /\ Mid(k)
      /\ \A s \in Slots : k.tab[s].state # "ZOMBIE"
  BY DoneFacts
<1>2. CASE child = NULL
  BY <1>1, <1>2 DEF process_waitpid
<1>3. CASE child # NULL
  <2>1. k.tab[child].state # "ZOMBIE"
    BY <1>1, <1>3, ProcessGet
  <2>2. k.tab[k.cur] \in PCB /\ "BLOCKED" \in States
    BY <1>1 DEF KernelType, States
  <2>3. process_waitpid(k, pid) = SetPCB(k, k.cur, p, TRUE)
    BY <1>1, <1>3, <2>1 DEF process_waitpid, SetPCB, KernelType
  <2>4. /\ p \in PCB /\ p.pid = k.tab[k.cur].pid
        /\ p.priority = k.tab[k.cur].priority
        /\ p.foreground = k.tab[k.cur].foreground /\ p.state = "BLOCKED"
    BY <2>2 DEF PCB
  <2> HIDE DEF p
  <2>5. Mid(SetPCB(k, k.cur, p, TRUE))
    BY <1>1, <2>4, SetPCBMid
  <2> QED BY <2>3, <2>5
<1> QED BY <1>2, <1>3

(***************************************************************************)
(* Slots are taken and freed                                               *)
(***************************************************************************)
LEMMA FreePCBType ==
  FreePCB \in PCB /\ FreePCB.state = "FREE" /\ FreePCB.pid = 0
<1>1. 0 \in 0 .. TicksCap /\ "FREE" \in States /\ 0 \in 0 .. MaxPriority
  BY ConstantFacts, SchedulerAssumption DEF States
<1> QED BY <1>1, ConstantFacts DEF FreePCB, PCB

\* The fields of a kernel state whose queue has changed.
LEMMA NewQueue ==
  ASSUME NEW k \in KernelType, NEW r, NEW rq \in Seq(Slots), NEW idx \in Nat,
         r = [k EXCEPT !.rq = rq, !.idx = idx]
  PROVE  /\ r \in KernelType /\ r.tab = k.tab /\ r.cur = k.cur
         /\ r.idle = k.idle /\ r.npid = k.npid /\ r.kbd = k.kbd
         /\ r.waitq = k.waitq /\ r.force = k.force
         /\ r.rq = rq /\ r.idx = idx
  BY DEF KernelType

\* A process that nothing refers to leaves the queue and its slot.
LEMMA FreeSlot ==
  ASSUME NEW k, KInv(k), NEW s \in Slots, k.tab[s].state # "FREE",
         s # k.idle, k.kbd # s, k.tab[s].pid \notin k.waitq
  PROVE  LET r == free_slot(scheduler_remove(k, s), s)
         IN  /\ KInv(r)
             /\ r.cur = k.cur /\ r.idle = k.idle /\ r.force = k.force
             /\ r.kbd = k.kbd /\ r.waitq = k.waitq
             /\ r.tab[s] = FreePCB
             /\ \A x \in Slots \ {s} : r.tab[x] = k.tab[x]
<1> DEFINE m == scheduler_remove(k, s)
           r == free_slot(m, s)
<1>0. k \in KernelType /\ k.tab \in [Slots -> PCB] /\ k.idle \in Slots
  BY DEF KInv, KernelType
<1>1. QueueShape(k) /\ SortedExcept(k, s)
  BY DEF KInv, QueueOK, QueueShape, SortedOK, SortedExcept
<1>2. /\ m.rq \in Seq(Slots) /\ m.idx \in Nat
      /\ m = [k EXCEPT !.rq = m.rq, !.idx = m.idx]
      /\ QueueShape(m) /\ SortedOK(m)
      /\ \A x \in Slots : Member(m.rq, x) <=> Member(k.rq, x) /\ x # s
  BY <1>0, <1>1, SchedulerRemove
<1> HIDE DEF m
<1>3. /\ m \in KernelType /\ m.tab = k.tab /\ m.cur = k.cur
      /\ m.idle = k.idle /\ m.npid = k.npid /\ m.kbd = k.kbd
      /\ m.waitq = k.waitq /\ m.force = k.force
  <2> DEFINE rq == m.rq
             idx == m.idx
  <2>1. rq \in Seq(Slots) /\ idx \in Nat /\ m = [k EXCEPT !.rq = rq, !.idx = idx]
    BY <1>2
  <2> HIDE DEF rq, idx
  <2>2. k \in KernelType
    BY <1>0
  <2> QED BY ONLY <2>1, <2>2, NewQueue, ZenonT(60)
<1>4. /\ r \in KernelType /\ r.tab = [m.tab EXCEPT ![s] = FreePCB]
      /\ r.cur = m.cur /\ r.idle = m.idle /\ r.npid = m.npid
      /\ r.kbd = m.kbd /\ r.waitq = m.waitq /\ r.force = m.force
      /\ r.rq = m.rq /\ r.idx = m.idx
  BY <1>3, FreePCBType DEF free_slot, KernelType
<1> HIDE DEF r
<1>5. /\ r.tab[s] = FreePCB
      /\ \A x \in Slots \ {s} : r.tab[x] = k.tab[x]
  BY <1>0, <1>3, <1>4
<1>6. QueueOK(r)
  <2>1. \A x \in Slots :
          (x # r.idle /\ r.tab[x].state # "FREE") <=> Member(r.rq, x)
    BY <1>2, <1>3, <1>4, <1>5, FreePCBType DEF KInv, QueueOK
  <2> QED BY <2>1, <1>2, <1>4 DEF QueueOK, QueueShape
<1>7. SortedOK(r)
  <2>1. ASSUME NEW i \in 1 .. Len(m.rq)
        PROVE  m.rq[i] \in Slots \ {s} /\ r.tab[m.rq[i]] = m.tab[m.rq[i]]
    <3>1. m.rq[i] \in Slots /\ Member(m.rq, m.rq[i])
      BY <1>2 DEF Member
    <3> QED BY <3>1, <1>2, <1>3, <1>5
  <2> QED BY <2>1, <1>2, <1>4 DEF SortedOK
<1>8. PidsOK(r)
  <2>1. \A x \in Slots : r.tab[x].state = "FREE" <=> r.tab[x].pid = 0
    BY <1>5, FreePCBType DEF KInv, PidsOK
  <2>2. \A x \in Slots : r.tab[x].pid <= r.npid
    <3>1. k.npid \in Nat /\ r.npid = k.npid
      BY <1>0, <1>3, <1>4 DEF KernelType
    <3> QED BY <3>1, <1>5, FreePCBType DEF KInv, PidsOK
  <2>3. \A x, y \in Slots :
          r.tab[x].pid = r.tab[y].pid /\ r.tab[x].pid # 0 => x = y
    BY <1>5, FreePCBType DEF KInv, PidsOK
  <2> QED BY <2>1, <2>2, <2>3 DEF PidsOK
<1>9. IdleOK(r)
  BY <1>0, <1>3, <1>4, <1>5 DEF KInv, IdleOK
<1>10. CpuOK(r)
  BY <1>3, <1>4, <1>5, FreePCBType DEF KInv, CpuOK
<1>11. WaitOK(r)
  <2>1. r.kbd # NULL => Alive(r, r.kbd)
    BY <1>0, <1>3, <1>4, <1>5 DEF KInv, WaitOK, Alive, KernelType
  <2>2. ASSUME NEW pid \in r.waitq
        PROVE  \E x \in Slots : Alive(r, x) /\ r.tab[x].pid = pid
    <3>1. PICK x \in Slots : Alive(k, x) /\ k.tab[x].pid = pid
      BY <1>3, <1>4 DEF KInv, WaitOK
    <3>2. x \in Slots \ {s}
      BY <3>1, <1>3, <1>4
    <3> QED BY <3>1, <3>2, <1>5 DEF Alive
  <2> QED BY <2>1, <2>2 DEF WaitOK
<1>12. KInv(r)
  BY <1>4, <1>6, <1>7, <1>8, <1>9, <1>10, <1>11 DEF KInv
<1> QED BY <1>3, <1>4, <1>5, <1>12 DEF r, m

\* A live process that is missing in the queue enters it.
LEMMA AddBack ==
  ASSUME NEW k \in KernelType, NEW s \in Slots, s # k.idle,
         QueueShape(k), SortedOK(k), ~Member(k.rq, s),
         k.tab[s].state # "FREE",
         \A x \in Slots \ {s} :
           (x # k.idle /\ k.tab[x].state # "FREE") <=> Member(k.rq, x),
         PidsOK(k), IdleOK(k), CpuOK(k), WaitOK(k)
  PROVE  LET r == scheduler_add(k, s)
         IN  KInv(r) /\ r.tab = k.tab /\ r.cur = k.cur /\ r.force = k.force
<1> DEFINE r == scheduler_add(k, s)
           rq == r.rq
           idx == r.idx
<1>1. /\ rq \in Seq(Slots) /\ idx \in Nat
      /\ r = [k EXCEPT !.rq = rq, !.idx = idx]
      /\ QueueShape(r) /\ SortedOK(r)
      /\ \A x \in Slots : Member(r.rq, x) <=> Member(k.rq, x) \/ x = s
  BY SchedulerAdd
<1> HIDE DEF r, rq, idx
<1>2. /\ r \in KernelType /\ r.tab = k.tab /\ r.cur = k.cur
      /\ r.idle = k.idle /\ r.npid = k.npid /\ r.kbd = k.kbd
      /\ r.waitq = k.waitq /\ r.force = k.force
  <2>1. r = [k EXCEPT !.rq = rq, !.idx = idx] /\ rq \in Seq(Slots) /\ idx \in Nat
    BY <1>1
  <2> QED BY ONLY <2>1, k \in KernelType, NewQueue, ZenonT(60)
<1>3. QueueOK(r)
  <2>1. \A x \in Slots :
          (x # r.idle /\ r.tab[x].state # "FREE") <=> Member(r.rq, x)
    BY <1>1, <1>2
  <2> QED BY <2>1, <1>1 DEF QueueOK, QueueShape
<1>4. PidsOK(r) /\ IdleOK(r) /\ CpuOK(r) /\ WaitOK(r)
  BY <1>2 DEF PidsOK, IdleOK, CpuOK, WaitOK, Alive
<1> QED BY <1>1, <1>2, <1>3, <1>4 DEF KInv, r

\* The PCB that process_create fills has its type.
LEMMA NewPCBType ==
  ASSUME NEW k \in KernelType, NEW fg \in {0, 1, 3}
  PROVE  LET p == NewPCB(k, fg)
         IN  p \in PCB /\ p.pid = k.npid + 1 /\ p.state \in {"READY", "BLOCKED"}
<1>1. k.npid + 1 \in Nat /\ Pid(k, k.cur) \in Nat
  <2>1. k.tab[k.cur] \in PCB /\ k.npid \in Nat
    BY DEF KernelType
  <2> QED BY <2>1 DEF PCB, Pid
<1>2. /\ (IF fg \in {2, 3} THEN "BLOCKED" ELSE "READY") \in States
      /\ (IF fg \in {2, 3} THEN "BLOCKED" ELSE "READY") \in {"READY", "BLOCKED"}
      /\ (IF k.cur # NULL THEN Pid(k, k.cur) ELSE 0) \in Nat
  BY <1>1 DEF States
<1>3. DefaultPriority \in 0 .. MaxPriority /\ 0 \in 0 .. TicksCap
  BY ConstantFacts
<1> QED BY <1>1, <1>2, <1>3, ConstantFacts DEF NewPCB, PCB

\* A change of the queue leaves the rest of the kernel alone.
SameButQueue(k, r) ==
  /\ r.tab = k.tab /\ r.cur = k.cur /\ r.idle = k.idle
  /\ r.kbd = k.kbd /\ r.waitq = k.waitq

\* So do scheduler_add and scheduler_remove.
LEMMA QueueFrame ==
  ASSUME NEW k \in KernelType, NEW s
  PROVE  /\ SameButQueue(k, scheduler_add(k, s))
         /\ SameButQueue(k, scheduler_remove(k, s))
<1>1. ASSUME NEW q, NEW i
      PROVE  SameButQueue(k, [k EXCEPT !.rq = q, !.idx = i])
  BY DEF KernelType, SameButQueue
<1>2. SameButQueue(k, k)
  BY DEF SameButQueue
<1>3. SameButQueue(k, scheduler_add(k, s))
  BY <1>1, <1>2 DEF scheduler_add
<1>4. SameButQueue(k, scheduler_remove(k, s))
  BY <1>1, <1>2 DEF scheduler_remove
<1> QED BY <1>3, <1>4

\* A free slot s now holds a new process.
Created(k, r, s) ==
  /\ r.cur = k.cur /\ r.idle = k.idle /\ r.kbd = k.kbd /\ r.waitq = k.waitq
  /\ \A x \in Slots \ {s} : r.tab[x] = k.tab[x]
  /\ s # k.idle /\ k.tab[s].state = "FREE"
  /\ r.tab[s].pid = k.npid + 1 /\ r.tab[s].waiting_for = 0

\* process_create keeps the invariant.
LEMMA ProcessCreate ==
  ASSUME NEW k, Mid(k), NEW fg \in {0, 1, 3}
  PROVE  /\ Mid(process_create(k, fg))
         /\ \/ process_create(k, fg) = k
            \/ \E s \in Slots : Created(k, process_create(k, fg), s)
<1> DEFINE free == {s \in Slots : ~Live(k, s)}
           s == Min(free)
           m == [k EXCEPT !.tab[s] = NewPCB(k, fg), !.npid = @ + 1]
           r == scheduler_add(m, s)
<1>0. /\ k \in KernelType /\ k.tab \in [Slots -> PCB] /\ k.npid \in Nat
      /\ k.cur \in Slots /\ k.idle \in Slots
  BY DEF Mid, KInv, KernelType
<1>1. CASE free = {}
  BY <1>1 DEF process_create
<1>2. CASE free # {}
  <2>1. process_create(k, fg) = r
    BY <1>2 DEF process_create
  <2>2. free \in SUBSET Nat
    BY ConstantFacts
  <2>3. s \in free
    <3> HIDE DEF free
    <3> QED BY <2>2, <1>2, MinOfNat
  <2>4. s \in Slots /\ k.tab[s].state = "FREE"
    BY <2>3 DEF Live
  <2> DEFINE new == NewPCB(k, fg)
  <2>5. /\ new \in PCB /\ new.pid = k.npid + 1
        /\ new.state \in {"READY", "BLOCKED"} /\ new.waiting_for = 0
    BY <1>0, NewPCBType DEF NewPCB
  <2> HIDE DEF s, new
  <2>6. /\ m \in KernelType /\ m.tab = [k.tab EXCEPT ![s] = new]
        /\ m.rq = k.rq /\ m.idx = k.idx /\ m.cur = k.cur /\ m.idle = k.idle
        /\ m.kbd = k.kbd /\ m.waitq = k.waitq /\ m.force = k.force
        /\ m.npid = k.npid + 1
    <3>1. m = [k EXCEPT !.tab[s] = new, !.npid = @ + 1]
      BY DEF new
    <3>2. k.npid + 1 \in Nat
      BY <1>0
    <3> HIDE DEF m
    <3> QED BY <3>1, <3>2, <1>0, <2>4, <2>5 DEF KernelType
  <2> HIDE DEF m
  <2>7. m.tab[s] = new /\ \A x \in Slots \ {s} : m.tab[x] = k.tab[x]
    BY <1>0, <2>4, <2>6
  <2>8. s # k.idle /\ s # k.cur
    BY <2>4, <1>0 DEF Mid, CurOK, KInv, IdleOK, PidsOK, IdlePid
  <2>9. ~Member(k.rq, s)
    BY <2>4 DEF Mid, KInv, QueueOK
  <2>10. QueueShape(m)
    BY <2>6 DEF Mid, KInv, QueueOK, QueueShape
  <2>11. SortedOK(m)
    <3>1. \A i \in 1 .. Len(k.rq) : k.rq[i] \in Slots \ {s}
      BY <1>0, <2>9 DEF Member, KernelType
    <3> QED BY <3>1, <2>6, <2>7 DEF Mid, KInv, SortedOK
  <2>12. PidsOK(m)
    <3>0. \A x \in Slots : k.tab[x].pid \in Nat /\ k.tab[x].pid <= k.npid
      BY <1>0 DEF Mid, KInv, PidsOK, PCB
    <3>1. \A x \in Slots : m.tab[x].state = "FREE" <=> m.tab[x].pid = 0
      BY <1>0, <2>5, <2>7 DEF Mid, KInv, PidsOK
    <3>2. \A x \in Slots : m.tab[x].pid <= m.npid
      BY <1>0, <3>0, <2>5, <2>6, <2>7
    <3>3. \A x \in Slots \ {s} : m.tab[x].pid # m.tab[s].pid
      BY <1>0, <3>0, <2>4, <2>5, <2>7
    <3>4. \A x, y \in Slots :
            m.tab[x].pid = m.tab[y].pid /\ m.tab[x].pid # 0 => x = y
      BY <3>3, <2>7 DEF Mid, KInv, PidsOK
    <3> QED BY <3>1, <3>2, <3>4 DEF PidsOK
  <2>13. IdleOK(m)
    BY <1>0, <2>6, <2>7, <2>8 DEF Mid, KInv, IdleOK
  <2>14. CpuOK(m)
    BY <2>5, <2>6, <2>7 DEF Mid, KInv, CpuOK
  <2>15. WaitOK(m)
    <3>1. m.kbd # NULL => Alive(m, m.kbd)
      BY <1>0, <2>4, <2>6, <2>7 DEF Mid, KInv, WaitOK, Alive, KernelType
    <3>2. ASSUME NEW pid \in m.waitq
          PROVE  \E x \in Slots : Alive(m, x) /\ m.tab[x].pid = pid
      <4>1. PICK x \in Slots : Alive(k, x) /\ k.tab[x].pid = pid
        BY <2>6 DEF Mid, KInv, WaitOK
      <4>2. x \in Slots \ {s}
        BY <4>1, <2>4 DEF Alive
      <4> QED BY <4>1, <4>2, <2>7 DEF Alive
    <3> QED BY <3>1, <3>2 DEF WaitOK
  <2>16. \A x \in Slots \ {s} :
           (x # m.idle /\ m.tab[x].state # "FREE") <=> Member(m.rq, x)
    BY <2>6, <2>7 DEF Mid, KInv, QueueOK
  <2>17. KInv(r) /\ r.tab = m.tab /\ r.cur = m.cur /\ r.force = m.force
    BY <2>4, <2>5, <2>6, <2>7, <2>8, <2>9, <2>10, <2>11, <2>12, <2>13,
       <2>14, <2>15, <2>16, AddBack
  <2>18. SameButQueue(m, r)
    BY <2>6, QueueFrame
  <2> HIDE DEF r
  <2>19. CurOK(r)
    BY <1>0, <2>6, <2>7, <2>8, <2>17 DEF Mid, CurOK
  <2>20. Created(k, r, s)
    BY <2>4, <2>5, <2>6, <2>7, <2>8, <2>18 DEF Created, SameButQueue
  <2> QED BY <2>1, <2>4, <2>17, <2>19, <2>20 DEF Mid
<1> QED BY <1>1, <1>2

\* A clamped priority is one.
LEMMA Clamp ==
  ASSUME NEW prio \in Nat
  PROVE  clamp(prio) \in MinPriority .. MaxPriority
  BY SchedulerAssumption DEF clamp

\* Only the priority, the quantum and the aging of s change.
Niced(k, r, s) ==
  /\ r.cur = k.cur /\ r.idle = k.idle /\ r.kbd = k.kbd /\ r.waitq = k.waitq
  /\ \A x \in Slots \ {s} : r.tab[x] = k.tab[x]
  /\ r.tab[s].pid = k.tab[s].pid /\ r.tab[s].state = k.tab[s].state
  /\ r.tab[s].waiting_for = k.tab[s].waiting_for
  /\ r.tab[s].parent_pid = k.tab[s].parent_pid

\* nice moves the process to the place of its new priority.
LEMMA ProcessNice ==
  ASSUME NEW k, Done(k), NEW pid, NEW prio \in Nat
  PROVE  /\ Mid(process_nice(k, pid, prio))
         /\ \/ process_nice(k, pid, prio) = k
            \/ /\ process_get(k, pid) \in Slots
               /\ Niced(k, process_nice(k, pid, prio), process_get(k, pid))
<1> DEFINE s == process_get(k, pid)
           new == [k.tab[s] EXCEPT !.priority = clamp(prio), !.wait_ticks = 0,
                                   !.remaining_quanta = clamp(prio)]
           set == [k EXCEPT !.tab[s] = new]
           m == scheduler_remove(set, s)
           r == scheduler_add(m, s)
<1>0. /\ k \in KernelType /\ k.tab \in [Slots -> PCB]
      /\ k.cur \in Slots /\ k.idle \in Slots
      /\ Mid(k) /\ KInv(k) /\ CurOK(k)
      /\ \A x \in Slots : k.tab[x].state # "ZOMBIE"
  BY DoneFacts DEF Mid, KInv, KernelType
<1>1. CASE s = NULL
  BY <1>0, <1>1 DEF process_nice
<1>2. CASE s # NULL
  <2>1. s \in Slots /\ k.tab[s].state # "FREE"
    BY <1>0, <1>2, ProcessGet
  <2>2. process_nice(k, pid, prio) = r
    BY <1>0, <1>2, <2>1 DEF process_nice
  <2>3. /\ new \in PCB /\ new.pid = k.tab[s].pid /\ new.state = k.tab[s].state
        /\ new.foreground = k.tab[s].foreground
        /\ new.waiting_for = k.tab[s].waiting_for
        /\ new.parent_pid = k.tab[s].parent_pid
    <3>1. /\ clamp(prio) \in MinPriority .. MaxPriority
          /\ clamp(prio) \in 0 .. MaxPriority /\ 0 \in 0 .. TicksCap
      BY Clamp, ConstantFacts
    <3>2. k.tab[s] \in PCB
      BY <1>0, <2>1
    <3> HIDE DEF s
    <3> QED BY <3>1, <3>2 DEF PCB
  <2> HIDE DEF s, new
  <2>4. /\ set \in KernelType /\ set.tab = [k.tab EXCEPT ![s] = new]
        /\ set.rq = k.rq /\ set.idx = k.idx /\ set.cur = k.cur
        /\ set.idle = k.idle /\ set.kbd = k.kbd /\ set.waitq = k.waitq
        /\ set.force = k.force /\ set.npid = k.npid
    BY <1>0, <2>1, <2>3 DEF KernelType
  <2> HIDE DEF set
  <2>5. set.tab[s] = new /\ \A x \in Slots \ {s} : set.tab[x] = k.tab[x]
    BY <1>0, <2>1, <2>4
  <2>6. \A x \in Slots : /\ set.tab[x].pid = k.tab[x].pid
                         /\ set.tab[x].state = k.tab[x].state
                         /\ set.tab[x].foreground = k.tab[x].foreground
    BY <2>3, <2>5
  <2>7. QueueShape(set) /\ SortedExcept(set, s)
    <3>1. \A i \in 1 .. Len(k.rq) : k.rq[i] \in Slots
      BY <1>0 DEF KernelType
    <3>2. QueueShape(set)
      BY <1>0, <2>4 DEF KInv, QueueOK, QueueShape
    <3>3. SortedExcept(set, s)
      BY <1>0, <3>1, <2>4, <2>5 DEF KInv, SortedOK, SortedExcept
    <3> QED BY <3>2, <3>3
  <2> DEFINE rq == m.rq
             idx == m.idx
  <2>8. /\ rq \in Seq(Slots) /\ idx \in Nat
        /\ m = [set EXCEPT !.rq = rq, !.idx = idx]
        /\ QueueShape(m) /\ SortedOK(m)
        /\ \A x \in Slots : Member(m.rq, x) <=> Member(set.rq, x) /\ x # s
    BY <2>1, <2>4, <2>7, SchedulerRemove
  <2> HIDE DEF m, rq, idx
  <2>9. /\ m \in KernelType /\ m.tab = set.tab /\ m.cur = set.cur
        /\ m.idle = set.idle /\ m.npid = set.npid /\ m.kbd = set.kbd
        /\ m.waitq = set.waitq /\ m.force = set.force
    <3>1. set \in KernelType
      BY <2>4
    <3>2. rq \in Seq(Slots) /\ idx \in Nat /\ m = [set EXCEPT !.rq = rq, !.idx = idx]
      BY <2>8
    <3> QED BY ONLY <3>1, <3>2, NewQueue, ZenonT(60)
  <2>10. PidsOK(m)
    BY <1>0, <2>4, <2>6, <2>9 DEF KInv, PidsOK
  <2>11. IdleOK(m)
    BY <1>0, <2>4, <2>6, <2>9 DEF KInv, IdleOK
  <2>12. CpuOK(m)
    BY <1>0, <2>4, <2>6, <2>9 DEF KInv, CpuOK
  <2>13. WaitOK(m)
    <3>1. m.kbd # NULL => Alive(m, m.kbd)
      BY <1>0, <2>4, <2>6, <2>9 DEF KInv, WaitOK, Alive, KernelType
    <3>2. \A pid_1 \in m.waitq :
            \E x \in Slots : Alive(m, x) /\ m.tab[x].pid = pid_1
      BY <1>0, <2>4, <2>6, <2>9 DEF KInv, WaitOK, Alive
    <3> QED BY <3>1, <3>2 DEF WaitOK
  <2>14. \A x \in Slots \ {s} :
           (x # m.idle /\ m.tab[x].state # "FREE") <=> Member(m.rq, x)
    BY <1>0, <2>4, <2>6, <2>8, <2>9 DEF KInv, QueueOK
  <2>15. ~Member(m.rq, s) /\ m.tab[s].state # "FREE"
    BY <2>1, <2>6, <2>8, <2>9
  <2>16. KInv(r) /\ r.tab = m.tab /\ r.cur = m.cur /\ r.force = m.force
    <3>1. CASE s = m.idle
      <4>1. r = m
        BY <3>1 DEF scheduler_add
      <4>2. QueueOK(m)
        BY <3>1, <2>8, <2>14, <2>15 DEF QueueOK, QueueShape
      <4> QED BY <4>1, <4>2, <2>8, <2>9, <2>10, <2>11, <2>12, <2>13 DEF KInv
    <3>2. CASE s # m.idle
      BY <3>2, <2>1, <2>8, <2>9, <2>10, <2>11, <2>12, <2>13, <2>14, <2>15,
         AddBack
    <3> QED BY <3>1, <3>2
  <2>17. SameButQueue(m, r)
    BY <2>9, QueueFrame
  <2> HIDE DEF r
  <2>18. CurOK(r)
    BY <1>0, <2>4, <2>6, <2>9, <2>16 DEF CurOK
  <2>19. Niced(k, r, s)
    BY <2>3, <2>4, <2>5, <2>9, <2>17 DEF Niced, SameButQueue
  <2> QED BY <2>1, <2>2, <2>16, <2>18, <2>19 DEF Mid, s
<1> QED BY <1>1, <1>2

(***************************************************************************)
(* Processes end                                                           *)
(***************************************************************************)
\* What process_exit does before the slot is given up.
LEMMA Release ==
  ASSUME NEW k, Mid(k), NEW s \in Slots, k.tab[s].state # "FREE", NEW W
  PROVE  LET w == wake_parent(release_resources(k, s, W), s)
         IN  /\ Mid(w) /\ w.cur = k.cur /\ w.idle = k.idle
             /\ w.kbd # s /\ w.tab[s].pid \notin w.waitq
             /\ w.tab[s].state # "FREE"
<1> DEFINE m == release_resources(k, s, W)
           w == wake_parent(m, s)
<1>0. k \in KernelType
  BY DEF Mid, KInv
<1>1. Wakes(k, m) /\ m.kbd # s /\ k.tab[s].pid \notin m.waitq
  BY <1>0, ReleaseResources
<1> HIDE DEF m
<1>2. Mid(m)
  BY <1>1, WakesMid
<1>3. m \in KernelType
  BY <1>2 DEF Mid, KInv
<1>4. Wakes(m, w) /\ w.kbd = m.kbd /\ w.waitq = m.waitq
  BY <1>3, WakeParent
<1> HIDE DEF w
<1>5. Mid(w)
  BY <1>2, <1>4, WakesMid
<1>6. /\ w.cur = k.cur /\ w.idle = k.idle
      /\ w.tab[s].pid = k.tab[s].pid /\ w.tab[s].state # "FREE"
  BY <1>1, <1>4 DEF Wakes, Gentle
<1> QED BY <1>1, <1>4, <1>5, <1>6 DEF w, m

\* What process_kill does before the slot is given up.
LEMMA KillRelease ==
  ASSUME NEW k, Mid(k), NEW s \in Slots, k.tab[s].state # "FREE", NEW W, NEW V
  PROVE  LET w == process_release_fds(wake_parent(release_resources(k, s, W), s), V)
         IN  /\ Mid(w) /\ w.cur = k.cur /\ w.idle = k.idle
             /\ w.kbd # s /\ w.tab[s].pid \notin w.waitq
             /\ w.tab[s].state # "FREE"
<1> DEFINE m == wake_parent(release_resources(k, s, W), s)
           w == process_release_fds(m, V)
<1>1. /\ Mid(m) /\ m.cur = k.cur /\ m.idle = k.idle
      /\ m.kbd # s /\ m.tab[s].pid \notin m.waitq
      /\ m.tab[s].state # "FREE"
  BY Release
<1> HIDE DEF m
<1>2. m \in KernelType
  BY <1>1 DEF Mid, KInv
<1>3. Wakes(m, w) /\ w.kbd = m.kbd /\ w.waitq \subseteq m.waitq
  BY <1>2, ReleaseFds
<1> HIDE DEF w
<1>4. Mid(w)
  BY <1>1, <1>3, WakesMid
<1>5. /\ w.cur = m.cur /\ w.idle = m.idle
      /\ w.tab[s].pid = m.tab[s].pid /\ w.tab[s].state # "FREE"
  BY <1>1, <1>3 DEF Wakes, Gentle
<1> QED BY <1>1, <1>3, <1>4, <1>5 DEF w, m

\* The current process ends; the switch that follows frees its slot.
LEMMA BecomeZombie ==
  ASSUME NEW k, Mid(k), k.cur # k.idle, k.kbd # k.cur,
         k.tab[k.cur].pid \notin k.waitq
  PROVE  Mid([k EXCEPT !.tab[k.cur].state = "ZOMBIE", !.force = TRUE])
<1> DEFINE s == k.cur
           p == [k.tab[s] EXCEPT !.state = "ZOMBIE"]
           r == [k EXCEPT !.tab[s].state = "ZOMBIE", !.force = TRUE]
<1>0. /\ k \in KernelType /\ k.tab \in [Slots -> PCB] /\ k.cur \in Slots
      /\ k.idle \in Slots /\ k.tab[s] \in PCB /\ "ZOMBIE" \in States
      /\ KInv(k) /\ CurOK(k)
  BY DEF Mid, KInv, KernelType, States
<1>1. /\ p \in PCB /\ p.pid = k.tab[s].pid /\ p.priority = k.tab[s].priority
      /\ p.foreground = k.tab[s].foreground /\ p.state = "ZOMBIE"
  BY <1>0, StatePCB
<1>2. r = SetPCB(k, s, p, TRUE)
  BY <1>0 DEF SetPCB, KernelType
<1> HIDE DEF p, r
<1>3. /\ r \in KernelType
      /\ r.tab = [k.tab EXCEPT ![s] = p] /\ r.rq = k.rq /\ r.idx = k.idx
      /\ r.cur = k.cur /\ r.idle = k.idle /\ r.npid = k.npid
      /\ r.kbd = k.kbd /\ r.waitq = k.waitq /\ r.force = TRUE
  BY <1>0, <1>1, <1>2 DEF KernelType, SetPCB
<1>4. /\ r.tab[s] = p /\ \A x \in Slots \ {s} : r.tab[x] = k.tab[x]
      /\ k.tab[s].state # "FREE"
  BY <1>0, <1>3 DEF CurOK
<1>5. \A x \in Slots : /\ r.tab[x].pid = k.tab[x].pid
                       /\ r.tab[x].priority = k.tab[x].priority
                       /\ r.tab[x].state = "FREE" <=> k.tab[x].state = "FREE"
  BY <1>1, <1>4
<1>6. QueueOK(r)
  BY <1>0, <1>3, <1>5 DEF KInv, QueueOK
<1>7. SortedOK(r)
  <2>1. \A i \in 1 .. Len(k.rq) : k.rq[i] \in Slots
    BY <1>0 DEF KernelType
  <2> QED BY <2>1, <1>0, <1>3, <1>5 DEF KInv, SortedOK
<1>8. PidsOK(r)
  BY <1>0, <1>3, <1>5 DEF KInv, PidsOK
<1>9. IdleOK(r)
  BY <1>0, <1>3, <1>4 DEF KInv, IdleOK
<1>10. CpuOK(r)
  BY <1>0, <1>1, <1>3, <1>4 DEF KInv, CpuOK
<1>11. WaitOK(r)
  <2>1. r.kbd # NULL => Alive(r, r.kbd)
    BY <1>0, <1>3, <1>4 DEF KInv, WaitOK, Alive, KernelType
  <2>2. ASSUME NEW pid \in r.waitq
        PROVE  \E x \in Slots : Alive(r, x) /\ r.tab[x].pid = pid
    <3>1. PICK x \in Slots : Alive(k, x) /\ k.tab[x].pid = pid
      BY <1>0, <1>3 DEF KInv, WaitOK
    <3>2. x \in Slots \ {s}
      BY <3>1, <1>3
    <3> QED BY <3>1, <3>2, <1>4 DEF Alive
  <2> QED BY <2>1, <2>2 DEF WaitOK
<1>12. CurOK(r)
  BY <1>1, <1>3, <1>4 DEF CurOK
<1>13. Mid(r)
  BY <1>3, <1>6, <1>7, <1>8, <1>9, <1>10, <1>11, <1>12 DEF Mid, KInv
<1> QED BY <1>13 DEF r

\* process_exit of any process but idle keeps the invariant.
LEMMA ProcessExit ==
  ASSUME NEW k, Done(k), k.cur # k.idle, NEW W
  PROVE  Mid(process_exit(k, W))
<1> DEFINE w == wake_parent(release_resources(k, k.cur, W), k.cur)
<1>1. Mid(k) /\ k.cur \in Slots /\ k.tab[k.cur].state # "FREE"
  BY DoneFacts DEF Alive
<1>2. /\ Mid(w) /\ w.cur = k.cur /\ w.idle = k.idle
      /\ w.kbd # k.cur /\ w.tab[k.cur].pid \notin w.waitq
  BY <1>1, Release
<1>3. process_exit(k, W) = [w EXCEPT !.tab[k.cur].state = "ZOMBIE", !.force = TRUE]
  BY DEF process_exit
<1> HIDE DEF w
<1>4. Mid([w EXCEPT !.tab[w.cur].state = "ZOMBIE", !.force = TRUE])
  BY <1>2, BecomeZombie
<1> QED BY <1>2, <1>3, <1>4

\* process_kill of any process but idle keeps the invariant.
LEMMA ProcessKill ==
  ASSUME NEW k, Done(k), NEW pid, process_get(k, pid) # k.idle,
         NEW W, NEW V
  PROVE  Mid(process_kill(k, pid, W, V))
<1> DEFINE s == process_get(k, pid)
           w == process_release_fds(wake_parent(release_resources(k, s, W), s), V)
           r == free_slot(scheduler_remove(w, s), s)
<1>1. /\ k \in KernelType /\ Mid(k) /\ k.cur \in Slots
      /\ \A x \in Slots : k.tab[x].state # "ZOMBIE"
  BY DoneFacts
<1>2. CASE s = NULL
  BY <1>1, <1>2 DEF process_kill
<1>3. CASE s # NULL
  <2>1. s \in Slots /\ k.tab[s].state # "FREE" /\ k.tab[s].state # "ZOMBIE"
    BY <1>1, <1>3, ProcessGet
  <2>2. /\ Mid(w) /\ w.cur = k.cur /\ w.idle = k.idle
        /\ w.kbd # s /\ w.tab[s].pid \notin w.waitq
        /\ w.tab[s].state # "FREE"
    <3> HIDE DEF s
    <3> QED BY <1>1, <2>1, KillRelease
  <2>3. process_kill(k, pid, W, V) =
          IF s = k.cur
          THEN [w EXCEPT !.tab[s].state = "ZOMBIE", !.force = TRUE] ELSE r
    BY <1>3, <2>1 DEF process_kill
  <2>4. s # k.idle
    OBVIOUS
  <2> HIDE DEF s, w
  <2>5. CASE s = k.cur
    <3>1. Mid([w EXCEPT !.tab[w.cur].state = "ZOMBIE", !.force = TRUE])
      BY <2>2, <2>4, <2>5, BecomeZombie
    <3> QED BY <3>1, <2>2, <2>3, <2>5
  <2>6. CASE s # k.cur
    <3>1. /\ KInv(r) /\ r.cur = w.cur /\ r.force = w.force
          /\ \A x \in Slots \ {s} : r.tab[x] = w.tab[x]
      BY <2>1, <2>2, <2>4, FreeSlot DEF Mid
    <3> HIDE DEF r
    <3>2. CurOK(r)
      BY <3>1, <2>2, <2>6, <1>1 DEF Mid, CurOK
    <3> QED BY <3>1, <3>2, <2>3, <2>6 DEF Mid
  <2> QED BY <2>5, <2>6
<1> QED BY <1>2, <1>3

\* Ctrl+C picks the pid of a foreground process, so never idle, or does nothing.
LEMMA ForegroundTarget ==
  ASSUME NEW k, Done(k), NEW W, NEW V
  PROVE  \/ process_kill_foreground(k, W, V) = k
         \/ \E pid : /\ process_get(k, pid) # k.idle
                     /\ process_kill_foreground(k, W, V)
                          = process_kill(k, pid, W, V)
<1> DEFINE fgs == {t \in Slots : Live(k, t) /\ k.tab[t].foreground}
           fg == {Pid(k, s) : s \in fgs}
<1>1. /\ k \in KernelType /\ Mid(k) /\ k.idle \in Slots /\ k.npid \in Nat
      /\ k.tab \in [Slots -> PCB]
  BY DoneFacts DEF KernelType
<1>2. CASE Cardinality(fg) > 1
  <2>1. fg # {}
    <3>1. Cardinality({}) = 0
      BY FS_EmptySet
    <3> HIDE DEF fg
    <3> QED BY <1>2, <3>1
  <2>2. fg \in SUBSET Nat /\ \A x \in fg : x <= k.npid
    <3>1. \A s \in Slots : k.tab[s].pid \in Nat /\ k.tab[s].pid <= k.npid
      BY <1>1 DEF PCB, Mid, KInv, PidsOK
    <3> QED BY <3>1 DEF Pid
  <2>3. Max(fg) \in fg
    <3> HIDE DEF fg
    <3> QED BY <1>1, <2>1, <2>2, MaxOfNat
  <2>4. PICK s \in Slots : /\ k.tab[s].pid = Max(fg)
                           /\ k.tab[s].foreground /\ k.tab[s].state # "FREE"
    BY <2>3 DEF Pid, Live
  <2> DEFINE pid == Max(fg)
  <2>5. process_get(k, pid) # k.idle
    <3>1. k.tab[k.idle].pid # k.tab[s].pid \/ k.idle = s
      BY <1>1, <2>4 DEF Mid, KInv, PidsOK
    <3>2. s # k.idle
      BY <1>1, <2>4 DEF Mid, KInv, IdleOK
    <3>3. process_get(k, pid) # NULL => k.tab[process_get(k, pid)].pid = pid
      BY <1>1, ProcessGet
    <3>4. NULL # k.idle
      BY <1>1, ConstantFacts
    <3> HIDE DEF pid
    <3> QED BY <3>1, <3>2, <3>3, <3>4, <2>4 DEF pid
  <2>6. process_kill_foreground(k, W, V) = process_kill(k, pid, W, V)
    BY <1>2 DEF process_kill_foreground
  <2> HIDE DEF pid
  <2> QED BY <2>5, <2>6
<1>3. CASE ~(Cardinality(fg) > 1)
  BY <1>3 DEF process_kill_foreground
<1> QED BY <1>2, <1>3

\* So it keeps the invariant.
LEMMA ProcessKillForeground ==
  ASSUME NEW k, Done(k), NEW W, NEW V
  PROVE  Mid(process_kill_foreground(k, W, V))
<1>1. Mid(k)
  BY DoneFacts
<1> QED BY <1>1, ForegroundTarget, ProcessKill

(***************************************************************************)
(* Context switches                                                        *)
(***************************************************************************)
\* scheduler_next_ready chooses idle or a queued READY process, and leaves
\* queue_idx inside the queue.
LEMMA NextReady ==
  ASSUME NEW k, KInv(k)
  PROVE  LET next == scheduler_next_ready(k)
         IN  /\ next.slot \in Slots
             /\ next.slot = k.idle \/ k.tab[next.slot].state = "READY"
             /\ next.idx \in Nat /\ IdxOK(k.rq, next.idx)
<1> DEFINE C == Candidates(k)
           D == {ScanDistance(k, i) : i \in C}
           best(i) == \A j \in C : ScanDistance(k, i) <= ScanDistance(k, j)
<1>0. /\ k.rq \in Seq(Slots) /\ Len(k.rq) \in Nat /\ k.idx \in Nat
      /\ k.idle \in Slots /\ \A i \in 1 .. Len(k.rq) : k.rq[i] \in Slots
      /\ IdxOK(k.rq, k.idx)
  BY DEF KInv, KernelType, QueueOK
<1>1. \A i \in C : i \in 1 .. Len(k.rq) /\ k.tab[k.rq[i]].state = "READY"
  BY DEF Candidates, HighestPositions, ReadyPositions
<1> HIDE DEF C
<1>2. CASE C = {}
  BY <1>0, <1>2 DEF scheduler_next_ready, C
<1>3. CASE C # {}
  <2>1. \A i \in C : ScanDistance(k, i) \in Nat
    BY <1>0, <1>1 DEF ScanDistance
  <2>2. D \in SUBSET Nat /\ D # {}
    BY <1>3, <2>1
  <2>3. \E x \in D : \A y \in D : x <= y
    <3> HIDE DEF D
    <3> QED BY <2>2, LeastNat
  <2>4. \E i \in C : best(i)
    BY <2>3
  <2> DEFINE i == CHOOSE i \in C : best(i)
  <2>5. i \in C
    BY <2>4
  <2>6. scheduler_next_ready(k) = [slot |-> k.rq[i], idx |-> i - 1]
    BY <1>3 DEF scheduler_next_ready, C
  <2> HIDE DEF i
  <2>7. i \in 1 .. Len(k.rq) /\ k.tab[k.rq[i]].state = "READY"
    BY <1>1, <2>5
  <2>8. k.rq[i] \in Slots /\ i - 1 \in Nat /\ i - 1 < Len(k.rq)
    BY <1>0, <2>7
  <2> QED BY <2>6, <2>7, <2>8 DEF IdxOK
<1> QED BY <1>2, <1>3

\* The reaper frees the slot of a process that ended.
LEMMA Reap ==
  ASSUME NEW k, KInv(k), k.tab[k.cur].state # "RUNNING"
  PROVE  LET r == reap(k)
         IN  /\ KInv(r) /\ r.idle = k.idle
             /\ \A s \in Slots : r.tab[s].state \notin {"RUNNING", "ZOMBIE"}
             /\ \A s \in Slots : Alive(k, s) => Alive(r, s)
<1>0. k \in KernelType /\ k.cur \in Slots /\ k.cur # NULL
  BY ConstantFacts DEF KInv, KernelType
<1>1. CASE k.tab[k.cur].state = "ZOMBIE"
  <2> DEFINE r == free_slot(scheduler_remove(k, k.cur), k.cur)
  <2>1. k.cur # k.idle
    BY <1>1 DEF KInv, IdleOK
  <2>2. k.kbd # k.cur
    BY <1>0, <1>1 DEF KInv, WaitOK, Alive
  <2>3. k.tab[k.cur].pid \notin k.waitq
    <3> SUFFICES ASSUME k.tab[k.cur].pid \in k.waitq PROVE FALSE
      OBVIOUS
    <3>1. PICK x \in Slots : Alive(k, x) /\ k.tab[x].pid = k.tab[k.cur].pid
      BY DEF KInv, WaitOK
    <3>2. k.tab[x].pid # 0
      BY <3>1 DEF KInv, PidsOK, Alive
    <3>3. x = k.cur
      BY <3>1, <3>2, <1>0 DEF KInv, PidsOK
    <3> QED BY <3>1, <3>3, <1>1 DEF Alive
  <2>4. /\ KInv(r) /\ r.idle = k.idle /\ r.tab[k.cur] = FreePCB
        /\ \A x \in Slots \ {k.cur} : r.tab[x] = k.tab[x]
    BY <1>0, <1>1, <2>1, <2>2, <2>3, FreeSlot
  <2>5. reap(k) = r
    BY <1>0, <1>1 DEF reap
  <2> HIDE DEF r
  <2>6. \A s \in Slots : r.tab[s].state \notin {"RUNNING", "ZOMBIE"}
    BY <2>4, FreePCBType DEF KInv, CpuOK
  <2>7. \A s \in Slots : Alive(k, s) => Alive(r, s)
    BY <1>1, <2>4 DEF Alive
  <2> QED BY <2>4, <2>5, <2>6, <2>7
<1>2. CASE k.tab[k.cur].state # "ZOMBIE"
  <2>1. reap(k) = k
    BY <1>2 DEF reap
  <2>2. \A s \in Slots : k.tab[s].state \notin {"RUNNING", "ZOMBIE"}
    BY <1>2 DEF KInv, CpuOK
  <2> QED BY <2>1, <2>2
<1> QED BY <1>1, <1>2

\* Giving the CPU to a live slot when nobody runs establishes the invariant.
LEMMA Dispatch ==
  ASSUME NEW k, KInv(k), NEW s \in Slots, Alive(k, s),
         \A x \in Slots : k.tab[x].state \notin {"RUNNING", "ZOMBIE"}
  PROVE  Done(dispatch(k, s))
<1> DEFINE p == [k.tab[s] EXCEPT !.wait_ticks = 0, !.state = "RUNNING"]
           r == dispatch(k, s)
<1>0. /\ k \in KernelType /\ k.tab \in [Slots -> PCB] /\ k.tab[s] \in PCB
      /\ k.idle \in Slots
  BY DEF KInv, KernelType
<1>1. /\ p \in PCB /\ p.pid = k.tab[s].pid /\ p.priority = k.tab[s].priority
      /\ p.foreground = k.tab[s].foreground /\ p.state = "RUNNING"
  <2>1. 0 \in 0 .. TicksCap /\ "RUNNING" \in States
    BY ConstantFacts DEF States
  <2> QED BY <1>0, <2>1 DEF PCB
<1>2. r = [k EXCEPT !.tab[s] = p, !.cur = s]
  BY <1>0 DEF dispatch, KernelType
<1> HIDE DEF p, r
<1>3. /\ r \in KernelType
      /\ r.tab = [k.tab EXCEPT ![s] = p] /\ r.rq = k.rq /\ r.idx = k.idx
      /\ r.cur = s /\ r.idle = k.idle /\ r.npid = k.npid
      /\ r.kbd = k.kbd /\ r.waitq = k.waitq
  BY <1>0, <1>1, <1>2 DEF KernelType
<1>4. r.tab[s] = p /\ \A x \in Slots \ {s} : r.tab[x] = k.tab[x]
  BY <1>0, <1>3
<1>5. \A x \in Slots : /\ r.tab[x].pid = k.tab[x].pid
                       /\ r.tab[x].priority = k.tab[x].priority
                       /\ r.tab[x].foreground = k.tab[x].foreground
                       /\ r.tab[x].state = "FREE" <=> k.tab[x].state = "FREE"
                       /\ Alive(k, x) => Alive(r, x)
  BY <1>1, <1>4 DEF Alive
<1>6. QueueOK(r)
  BY <1>3, <1>5 DEF KInv, QueueOK
<1>7. SortedOK(r)
  <2>1. \A i \in 1 .. Len(k.rq) : k.rq[i] \in Slots
    BY <1>0 DEF KernelType
  <2> QED BY <2>1, <1>3, <1>5 DEF KInv, SortedOK
<1>8. PidsOK(r)
  BY <1>3, <1>5 DEF KInv, PidsOK
<1>9. IdleOK(r)
  BY <1>0, <1>1, <1>3, <1>4, <1>5 DEF KInv, IdleOK
<1>10. CpuOK(r)
  BY <1>1, <1>3, <1>4 DEF CpuOK
<1>11. WaitOK(r)
  <2>1. r.kbd # NULL => Alive(r, r.kbd)
    BY <1>0, <1>3, <1>5 DEF KInv, WaitOK, KernelType
  <2>2. \A pid \in r.waitq :
          \E x \in Slots : Alive(r, x) /\ r.tab[x].pid = pid
    BY <1>3, <1>5 DEF KInv, WaitOK
  <2> QED BY <2>1, <2>2 DEF WaitOK
<1>12. KInv(r)
  BY <1>3, <1>6, <1>7, <1>8, <1>9, <1>10, <1>11 DEF KInv
<1> QED BY <1>1, <1>3, <1>4, <1>12 DEF Done, r

\* The CPU goes to a process that may run, and the one that lost it is gone
\* if it had ended.
LEMMA SwitchToNext ==
  ASSUME NEW k, KInv(k), k.tab[k.cur].state # "RUNNING"
  PROVE  Done(switch_to_next(k))
<1> DEFINE next == scheduler_next_ready(k)
           slot == next.slot
           idx == next.idx
           m == [k EXCEPT !.idx = idx]
           r == reap(m)
<1>0. k \in KernelType /\ k.idle \in Slots
  BY DEF KInv, KernelType
<1>1. /\ slot \in Slots
      /\ slot = k.idle \/ k.tab[slot].state = "READY"
      /\ idx \in Nat /\ IdxOK(k.rq, idx)
  BY NextReady
<1>2. slot # NULL
  BY <1>1, ConstantFacts
<1>3. switch_to_next(k) = dispatch(r, slot)
  BY <1>2 DEF switch_to_next
<1> HIDE DEF slot, idx
<1>4. /\ m \in KernelType
      /\ m.tab = k.tab /\ m.rq = k.rq /\ m.idx = idx /\ m.cur = k.cur
      /\ m.idle = k.idle /\ m.npid = k.npid /\ m.kbd = k.kbd
      /\ m.waitq = k.waitq
  BY <1>0, <1>1 DEF KernelType
<1> HIDE DEF m
<1>5. KInv(m)
  BY <1>1, <1>4 DEF KInv, QueueOK, SortedOK, PidsOK, IdleOK, CpuOK, WaitOK, Alive
<1>6. /\ KInv(r)
      /\ \A s \in Slots : r.tab[s].state \notin {"RUNNING", "ZOMBIE"}
      /\ \A s \in Slots : Alive(m, s) => Alive(r, s)
  BY <1>4, <1>5, Reap
<1>7. Alive(k, slot)
  <2>1. Alive(k, k.idle)
    BY <1>0 DEF KInv, IdleOK, PidsOK, Alive, IdlePid
  <2> QED BY <2>1, <1>1 DEF Alive
<1>8. Alive(r, slot)
  BY <1>1, <1>4, <1>6, <1>7 DEF Alive
<1> HIDE DEF r
<1> QED BY <1>1, <1>3, <1>6, <1>8, Dispatch

\* Aging keeps the invariant.
LEMMA Age ==
  ASSUME NEW k, Done(k)
  PROVE  Done(age(k))
<1> DEFINE waits(s) == /\ s # k.cur
                       /\ k.tab[s].state = "READY"
                       /\ \E i \in 1 .. Len(k.rq) : k.rq[i] = s
           older(s) == [k.tab[s] EXCEPT !.wait_ticks = @ + 1]
           tab == [s \in Slots |->
                     IF waits(s) /\ k.tab[s].wait_ticks < TicksCap
                     THEN older(s) ELSE k.tab[s]]
           r == age(k)
<1>0. k \in KernelType /\ k.tab \in [Slots -> PCB] /\ k.cur \in Slots /\ KInv(k)
  BY DoneFacts DEF KernelType, Mid
<1>1. r = [k EXCEPT !.tab = tab]
  BY DEF age
<1>2. ASSUME NEW s \in Slots, k.tab[s].wait_ticks < TicksCap
      PROVE  /\ older(s) \in PCB /\ older(s).pid = k.tab[s].pid
             /\ older(s).priority = k.tab[s].priority
             /\ older(s).foreground = k.tab[s].foreground
             /\ older(s).state = k.tab[s].state
  <2> DEFINE p == k.tab[s]
             q == [p EXCEPT !.wait_ticks = p.wait_ticks + 1]
  <2>1. p \in PCB
    BY <1>0
  <2>2. p.wait_ticks < TicksCap
    BY <1>2
  <2>3. older(s) = q
    OBVIOUS
  <2> HIDE DEF p
  <2>4. p.wait_ticks + 1 \in 0 .. TicksCap
    BY <2>1, <2>2, ConstantFacts DEF PCB
  <2>5. /\ q \in PCB /\ q.pid = p.pid /\ q.priority = p.priority
        /\ q.foreground = p.foreground /\ q.state = p.state
    BY <2>1, <2>4 DEF PCB
  <2> QED BY <2>3, <2>5 DEF p
<1> HIDE DEF older, waits
<1>3. tab \in [Slots -> PCB]
  BY <1>0, <1>2
<1>4. \A s \in Slots : /\ tab[s].pid = k.tab[s].pid
                       /\ tab[s].priority = k.tab[s].priority
                       /\ tab[s].foreground = k.tab[s].foreground
                       /\ tab[s].state = k.tab[s].state
  BY <1>2
<1> HIDE DEF tab, r
<1>5. /\ r \in KernelType
      /\ r.tab = tab /\ r.rq = k.rq /\ r.idx = k.idx /\ r.cur = k.cur
      /\ r.idle = k.idle /\ r.npid = k.npid /\ r.kbd = k.kbd
      /\ r.waitq = k.waitq
  BY <1>0, <1>1, <1>3 DEF KernelType
<1>6. Gentle(k, r)
  BY <1>4, <1>5 DEF Gentle
<1>7. KInv(r)
  BY <1>0, <1>6, GentleInv
<1> QED BY <1>0, <1>4, <1>5, <1>7 DEF Done, r

\* The current process gets a new quantum and the state st.
NewQuantum(k, st) ==
  [k.tab[k.cur] EXCEPT !.state = st, !.remaining_quanta = k.tab[k.cur].priority]

Preempted(k, st) == [k EXCEPT !.tab[k.cur] = NewQuantum(k, st)]

\* Nothing else changes.
LEMMA PreemptState ==
  ASSUME NEW k, KInv(k), NEW st, NEW r, r = Preempted(k, st),
         \/ st = k.tab[k.cur].state
         \/ Alive(k, k.cur) /\ st = "READY"
  PROVE  /\ KInv(r) /\ r.tab[k.cur] = NewQuantum(k, st)
         /\ NewQuantum(k, st).state = st
         /\ \A x \in Slots \ {k.cur} : r.tab[x] = k.tab[x]
         /\ r.cur = k.cur /\ r.idle = k.idle /\ r.kbd = k.kbd /\ r.waitq = k.waitq
<1> DEFINE c == k.tab[k.cur]
           p == NewQuantum(k, st)
<1>0. k \in KernelType /\ k.cur \in Slots /\ c \in PCB /\ k.force \in BOOLEAN
  BY DEF KInv, KernelType
<1>1. st \in States
  BY <1>0 DEF PCB, States
<1> HIDE DEF c
<1>2. p = [c EXCEPT !.state = st, !.remaining_quanta = c.priority]
  BY DEF c, NewQuantum
<1> HIDE DEF p
<1>3. c.priority \in 0 .. MaxPriority
  BY <1>0, ConstantFacts DEF PCB
<1>4. /\ p \in PCB /\ p.pid = c.pid /\ p.priority = c.priority
      /\ p.foreground = c.foreground /\ p.state = st
  BY <1>0, <1>1, <1>2, <1>3 DEF PCB
<1>5. r = SetPCB(k, k.cur, p, k.force)
  BY <1>0 DEF SetPCB, KernelType, Preempted, p
<1>6. /\ Gentle(k, r) /\ r.tab[k.cur] = p /\ r.kbd = k.kbd /\ r.waitq = k.waitq
      /\ \A x \in Slots \ {k.cur} : r.tab[x] = k.tab[x]
  <2>1. \/ p.state = k.tab[k.cur].state
        \/ Alive(k, k.cur) /\ p.state \in {"READY", "BLOCKED"}
    BY <1>4
  <2>2. /\ p \in PCB /\ p.pid = k.tab[k.cur].pid
        /\ p.priority = k.tab[k.cur].priority
        /\ p.foreground = k.tab[k.cur].foreground
    BY <1>4 DEF c
  <2>3. k \in KernelType /\ k.cur \in Slots /\ k.force \in BOOLEAN
    BY <1>0
  <2> QED BY ONLY <1>5, <2>1, <2>2, <2>3, SetPCBGentle
<1>7. r.cur = k.cur /\ r.idle = k.idle
  BY <1>6 DEF Gentle
<1>8. KInv(r)
  BY <1>6, GentleInv
<1> QED BY <1>4, <1>6, <1>7, <1>8 DEF p

\* Then the CPU goes to the next process.
LEMMA Preempt ==
  ASSUME NEW k, KInv(k), NEW st, st # "RUNNING",
         \/ st = k.tab[k.cur].state
         \/ Alive(k, k.cur) /\ st = "READY"
  PROVE  Done(switch_to_next(Preempted(k, st)))
<1> DEFINE r == Preempted(k, st)
<1>1. KInv(r) /\ r.tab[r.cur].state # "RUNNING"
  BY PreemptState
<1> HIDE DEF r
<1>2. Done(switch_to_next(r))
  BY <1>1, SwitchToNext
<1> QED BY <1>2 DEF r

\* scheduler_tick keeps the invariant.
LEMMA SchedulerTick ==
  ASSUME NEW k, Done(k)
  PROVE  Done(scheduler_tick(k))
<1> DEFINE a == age(k)
           c == a.tab[a.cur]
           q == c.remaining_quanta
<1>1. Done(a)
  BY Age
<1> HIDE DEF a
<1>2. /\ a \in KernelType /\ a.cur \in Slots /\ a.cur # NULL /\ KInv(a)
      /\ Alive(a, a.cur) /\ c \in PCB /\ a.force \in BOOLEAN
  BY <1>1, DoneFacts DEF Mid, KernelType
<1>3. CASE c.state = "RUNNING" /\ q > 1
  <2> DEFINE p == [c EXCEPT !.remaining_quanta = q - 1]
             r == [a EXCEPT !.tab[a.cur].remaining_quanta = q - 1]
  <2>1. scheduler_tick(k) = r
    BY <1>2, <1>3 DEF scheduler_tick, a
  <2>2. r = SetPCB(a, a.cur, p, a.force)
    BY <1>2 DEF SetPCB, KernelType
  <2>3. /\ p \in PCB /\ p.pid = c.pid /\ p.priority = c.priority
        /\ p.foreground = c.foreground /\ p.state = c.state
    <3> HIDE DEF c
    <3>1. q - 1 \in 0 .. MaxPriority
      BY <1>2, <1>3, SchedulerAssumption DEF PCB
    <3> QED BY <3>1, <1>2 DEF PCB
  <2> HIDE DEF r, p
  <2>4. Gentle(a, r) /\ r.tab[a.cur] = p
    BY <1>2, <2>2, <2>3, SetPCBGentle
  <2>5. KInv(r) /\ r.cur = a.cur
    BY <1>2, <2>4, GentleInv DEF Gentle
  <2> QED BY <1>3, <2>1, <2>3, <2>4, <2>5 DEF Done
<1>4. CASE c.state = "RUNNING" /\ ~(q > 1)
  <2>1. scheduler_tick(k) = switch_to_next(Preempted(a, "READY"))
    BY <1>2, <1>4 DEF scheduler_tick, a, Preempted, NewQuantum
  <2>2. Done(switch_to_next(Preempted(a, "READY")))
    BY <1>2, Preempt
  <2> QED BY <2>1, <2>2
<1>5. CASE c.state # "RUNNING"
  <2>1. scheduler_tick(k) = switch_to_next(a)
    BY <1>5 DEF scheduler_tick, a
  <2> QED BY <2>1, <1>2, <1>5, SwitchToNext
<1> QED BY <1>3, <1>4, <1>5

\* scheduler_yield keeps the invariant.
LEMMA SchedulerYield ==
  ASSUME NEW k, KInv(k)
  PROVE  Done(scheduler_yield_impl(k))
<1> DEFINE c == k.tab[k.cur]
           st == IF c.state = "RUNNING" THEN "READY" ELSE c.state
<1>1. k.cur \in Slots /\ k.cur # NULL
  BY ConstantFacts DEF KInv, KernelType
<1>2. scheduler_yield_impl(k) = switch_to_next(Preempted(k, st))
  BY <1>1 DEF scheduler_yield_impl, Preempted, NewQuantum
<1>3. st # "RUNNING" /\ (st = c.state \/ (Alive(k, k.cur) /\ st = "READY"))
  BY DEF Alive
<1> HIDE DEF st
<1>4. Done(switch_to_next(Preempted(k, st)))
  BY <1>1, <1>3, Preempt
<1> QED BY <1>2, <1>4

\* force_switch does not matter between handlers.
LEMMA ForceCleared ==
  ASSUME NEW k, KInv(k)
  PROVE  LET r == [k EXCEPT !.force = FALSE]
         IN  KInv(r) /\ r.tab = k.tab /\ r.cur = k.cur
<1> DEFINE r == [k EXCEPT !.force = FALSE]
<1>1. k \in KernelType
  BY DEF KInv
<1>2. /\ r \in KernelType
      /\ r.tab = k.tab /\ r.rq = k.rq /\ r.idx = k.idx /\ r.cur = k.cur
      /\ r.idle = k.idle /\ r.npid = k.npid /\ r.kbd = k.kbd
      /\ r.waitq = k.waitq
  BY <1>1 DEF KernelType
<1> HIDE DEF r
<1>3. Gentle(k, r)
  BY <1>2 DEF Gentle
<1>4. KInv(r)
  BY <1>3, GentleInv
<1> QED BY <1>2, <1>4 DEF r

\* The return of the timer interrupt keeps the invariant.
LEMMA IrqReturn ==
  ASSUME NEW k, Mid(k)
  PROVE  Done(irq_return(k))
<1>1. CASE k.force
  <2> DEFINE r == [k EXCEPT !.force = FALSE]
  <2>1. irq_return(k) = scheduler_yield_impl(r)
    BY <1>1 DEF irq_return
  <2>2. KInv(r) /\ r.tab = k.tab /\ r.cur = k.cur
    BY ForceCleared DEF Mid
  <2> HIDE DEF r
  <2>3. Done(scheduler_yield_impl(r))
    BY <2>2, SchedulerYield
  <2> QED BY <2>1, <2>3
<1>2. CASE ~k.force
  <2>1. irq_return(k) = k
    BY <1>2 DEF irq_return
  <2>2. k.tab[k.cur].state \in States
    BY DEF Mid, KInv, KernelType, PCB
  <2>3. k.tab[k.cur].state \in {"RUNNING", "READY"}
    BY <1>2, <2>2 DEF Mid, CurOK, States
  <2> QED BY <2>1, <2>3 DEF Done, Mid
<1> QED BY <1>1, <1>2

(***************************************************************************)
(* The specification                                                       *)
(***************************************************************************)
\* A handler that leaves the kernel in a good state keeps the invariant.
LEMMA InstallDone ==
  ASSUME NEW k, Done(k), Install(k)
  PROVE  IInv'
<1>1. KInv(k) /\ k \in KernelType
  BY DEF Done, KInv
<1>2. /\ Kernel'.tab = k.tab /\ Kernel'.rq = k.rq /\ Kernel'.idx = k.idx
      /\ Kernel'.cur = k.cur /\ Kernel'.idle = k.idle
      /\ Kernel'.npid = k.npid /\ Kernel'.kbd = k.kbd
      /\ Kernel'.waitq = k.waitq
  BY DEF Kernel, Install
<1>3. Kernel' \in KernelType
  BY <1>1 DEF Kernel, Install, KernelType
<1> DEFINE r == Kernel'
<1> HIDE DEF r
<1>4. Gentle(k, r)
  BY <1>2, <1>3 DEF Gentle, r
<1>5. KInv(r)
  BY <1>1, <1>4, GentleInv
<1>6. Done(r)
  BY <1>2, <1>5 DEF Done, r
<1> QED BY <1>6 DEF IInv, r

\* What the handlers need to know of the state they start from.
LEMMA KernelFacts ==
  ASSUME IInv
  PROVE  /\ Done(Kernel) /\ Mid(Kernel) /\ Kernel \in KernelType
         /\ Alive(Kernel, Kernel.cur) /\ Kernel.force = FALSE
         /\ Kernel.cur = current_process /\ Kernel.idle = idle_pcb
         /\ Kernel.tab = process_table /\ Kernel.kbd = kbd_waiting_process
         /\ Kernel.waitq = wait_queues
         /\ Kernel.cur \in Slots /\ Kernel.idle \in Slots
<1>1. Done(Kernel)
  BY DEF IInv
<1>2. /\ Kernel \in KernelType /\ Alive(Kernel, Kernel.cur) /\ Mid(Kernel)
      /\ Kernel.cur \in Slots
  BY <1>1, DoneFacts
<1>3. /\ Kernel.cur = current_process /\ Kernel.idle = idle_pcb
      /\ Kernel.tab = process_table /\ Kernel.kbd = kbd_waiting_process
      /\ Kernel.waitq = wait_queues /\ Kernel.force = FALSE
  BY DEF Kernel
<1>4. Kernel.idle \in Slots
  BY <1>2 DEF KernelType
<1> QED BY <1>1, <1>2, <1>3, <1>4

\* A system call that ends in the interrupt return keeps the invariant.
LEMMA SyscallInv ==
  ASSUME NEW k, Mid(k), Install(irq_return(k))
  PROVE  IInv'
  BY IrqReturn, InstallDone

\* The initial state satisfies it.
LEMMA InitInv == Init => IInv
<1> SUFFICES ASSUME Init PROVE IInv
  OBVIOUS
<1> DEFINE k == Kernel
           idle == [FreePCB EXCEPT !.pid = IdlePid, !.state = "READY",
                                   !.remaining_quanta = 1]
           shell == [FreePCB EXCEPT !.pid = ShellPid, !.state = "RUNNING",
                                    !.priority = DefaultPriority,
                                    !.remaining_quanta = DefaultPriority,
                                    !.foreground = TRUE]
<1>1. /\ k.tab = [s \in Slots |-> IF s = 0 THEN idle ELSE IF s = 1 THEN shell
                                  ELSE FreePCB]
      /\ k.rq = <<1>> /\ k.idx = 0 /\ k.cur = 1 /\ k.idle = 0
      /\ k.kbd = NULL /\ k.npid = 2 /\ k.waitq = {} /\ k.force = FALSE
  BY DEF Init, Kernel, ShellPid
<1>2. /\ 0 \in 0 .. TicksCap /\ 0 \in 0 .. MaxPriority
      /\ DefaultPriority \in 0 .. MaxPriority
      /\ "READY" \in States /\ "RUNNING" \in States
  BY ConstantFacts, SchedulerAssumption DEF States
<1>3. /\ idle \in PCB /\ idle.pid = 1 /\ idle.state = "READY"
      /\ idle.foreground = FALSE
  BY <1>2, ConstantFacts, FreePCBType DEF FreePCB, PCB, IdlePid
<1>4. shell \in PCB /\ shell.pid = 2 /\ shell.state = "RUNNING"
  BY <1>2, ConstantFacts, FreePCBType DEF FreePCB, PCB, ShellPid
<1> HIDE DEF idle, shell
<1>5. k.tab \in [Slots -> PCB]
  BY <1>1, <1>3, <1>4, FreePCBType
<1>6. 0 \in Slots /\ 1 \in Slots /\ NULL \notin Slots
  BY ConstantFacts
<1>7. /\ k.tab[0] = idle /\ k.tab[1] = shell
      /\ \A s \in Slots : s # 0 /\ s # 1 => k.tab[s] = FreePCB
  BY <1>1, <1>6
<1>8. /\ k.rq \in Seq(Slots) /\ Len(k.rq) = 1 /\ k.rq[1] = 1
      /\ \A i \in 1 .. Len(k.rq) : i = 1
  BY <1>1, <1>6
<1>9. k \in KernelType
  BY <1>1, <1>5, <1>6, <1>8 DEF Kernel, KernelType
<1> HIDE DEF k
<1>10. QueueOK(k)
  <2>1. \A s \in Slots : Member(k.rq, s) <=> s = 1
    BY <1>8 DEF Member
  <2>2. \A s \in Slots : (s # k.idle /\ k.tab[s].state # "FREE") <=> s = 1
    BY <1>1, <1>4, <1>6, <1>7, FreePCBType
  <2>3. Injective(k.rq) /\ IdxOK(k.rq, k.idx)
    BY <1>1, <1>8 DEF Injective, IdxOK
  <2> QED BY <2>1, <2>2, <2>3 DEF QueueOK
<1>11. SortedOK(k)
  BY <1>8 DEF SortedOK
<1>12. PidsOK(k)
  BY <1>1, <1>3, <1>4, <1>7, FreePCBType DEF PidsOK
<1>13. IdleOK(k)
  BY <1>1, <1>3, <1>7 DEF IdleOK, IdlePid
<1>14. CpuOK(k)
  BY <1>1, <1>3, <1>4, <1>7, FreePCBType DEF CpuOK
<1>15. WaitOK(k)
  BY <1>1 DEF WaitOK
<1>16. k.tab[k.cur].state \in {"RUNNING", "READY"}
  BY <1>1, <1>4, <1>7
<1> QED BY <1>9, <1>10, <1>11, <1>12, <1>13, <1>14, <1>15, <1>16
        DEF IInv, Done, KInv, k

\* A process that waits on the keyboard, and the key that wakes it.
LEMMA SetKbd ==
  ASSUME NEW k, Mid(k), NEW s \in Slots, Alive(k, s),
         NEW st \in {"READY", "BLOCKED"}, NEW kbd \in {s, NULL},
         NEW force \in BOOLEAN, k.force => force,
         s = k.cur /\ st = "BLOCKED" => force, NEW r,
         r = [k EXCEPT !.tab[s].state = st, !.kbd = kbd, !.force = force]
  PROVE  Mid(r)
<1> DEFINE p == [k.tab[s] EXCEPT !.state = st]
<1>0. k \in KernelType /\ k.tab[s] \in PCB /\ st \in States /\ k.cur \in Slots
  BY DEF Mid, KInv, KernelType, States
<1>1. /\ p \in PCB /\ p.pid = k.tab[s].pid /\ p.priority = k.tab[s].priority
      /\ p.foreground = k.tab[s].foreground /\ p.state = st
  BY <1>0, StatePCB
<1>2. r = [k EXCEPT !.tab[s] = p, !.kbd = kbd, !.force = force]
  BY <1>0 DEF KernelType
<1> HIDE DEF p
<1>3. /\ r \in KernelType
      /\ r.tab = [k.tab EXCEPT ![s] = p] /\ r.rq = k.rq /\ r.idx = k.idx
      /\ r.cur = k.cur /\ r.idle = k.idle /\ r.npid = k.npid
      /\ r.kbd = kbd /\ r.waitq = k.waitq /\ r.force = force
  <2>1. s \in Slots /\ kbd \in Slots \cup {NULL} /\ force \in BOOLEAN
    OBVIOUS
  <2> QED BY ONLY <2>1, <1>0, <1>1, <1>2 DEF KernelType
<1>4. r.tab[s] = p /\ \A x \in Slots \ {s} : r.tab[x] = k.tab[x]
  BY <1>0, <1>3 DEF KernelType
<1>5. Gentle(k, r)
  BY <1>1, <1>3, <1>4 DEF Gentle
<1>6. KInv(r)
  BY <1>5, GentleInv DEF Mid
<1>7. r.tab[k.cur].state = "BLOCKED" => k.tab[k.cur].state = "BLOCKED" \/ r.force
  BY <1>0, <1>1, <1>3, <1>4
<1>8. CurOK(r)
  <2>1. CurOK(k) /\ (k.force => r.force)
    BY <1>3 DEF Mid
  <2> QED BY ONLY <2>1, <1>0, <1>5, <1>7, GentleCur
<1> QED BY <1>6, <1>8 DEF Mid

\* The current process enters a wait queue, a process leaves it.
Queued(k, pid) == [k EXCEPT !.waitq = @ \cup {pid}]
Unqueued(k, pid) == [k EXCEPT !.waitq = @ \ {pid}]

\* Then, too, only the living wait.
LEMMA EnterQueue ==
  ASSUME NEW k, Done(k)
  PROVE  Mid(Queued(k, k.tab[k.cur].pid))
<1> DEFINE pid == k.tab[k.cur].pid
           waitq == k.waitq \cup {pid}
           kbd == k.kbd
<1>0. k \in KernelType /\ Mid(k) /\ Alive(k, k.cur) /\ k.cur \in Slots
  BY DoneFacts
<1>1. pid \in Nat
  BY <1>0 DEF KernelType, PCB
<1>2. /\ kbd \in Slots \cup {NULL} /\ waitq \in SUBSET Nat
      /\ kbd # NULL => Alive(k, kbd)
  BY <1>0, <1>1 DEF KernelType, Mid, KInv, WaitOK
<1>3. \A x \in waitq : \E s \in Slots : Alive(k, s) /\ k.tab[s].pid = x
  BY <1>0 DEF Mid, KInv, WaitOK
<1>4. Queued(k, pid) = [k EXCEPT !.kbd = kbd, !.waitq = waitq]
  BY <1>0 DEF KernelType, Queued
<1> HIDE DEF kbd, waitq, pid
<1>5. Mid([k EXCEPT !.kbd = kbd, !.waitq = waitq])
  BY <1>0, <1>2, <1>3, SetWaiters
<1> QED BY <1>4, <1>5 DEF pid

\* The same when a process leaves its queue.
LEMMA LeaveQueue ==
  ASSUME NEW k, Done(k), NEW pid
  PROVE  Mid(Unqueued(k, pid))
<1> DEFINE waitq == k.waitq \ {pid}
           kbd == k.kbd
<1>0. k \in KernelType /\ Mid(k)
  BY DoneFacts
<1>1. /\ kbd \in Slots \cup {NULL} /\ waitq \in SUBSET Nat
      /\ kbd # NULL => Alive(k, kbd)
  BY <1>0 DEF KernelType, Mid, KInv, WaitOK
<1>2. \A x \in waitq : \E s \in Slots : Alive(k, s) /\ k.tab[s].pid = x
  BY <1>0 DEF Mid, KInv, WaitOK
<1>3. Unqueued(k, pid) = [k EXCEPT !.kbd = kbd, !.waitq = waitq]
  BY <1>0 DEF KernelType, Unqueued
<1> HIDE DEF kbd, waitq
<1>4. Mid([k EXCEPT !.kbd = kbd, !.waitq = waitq])
  BY <1>0, <1>1, <1>2, SetWaiters
<1> QED BY <1>3, <1>4

\* Every step keeps it.
LEMMA NextInv ==
  ASSUME IdlePid \notin UserPids, IInv, [Next]_vars
  PROVE  IInv'
<1>0. /\ Done(Kernel) /\ Mid(Kernel) /\ Kernel \in KernelType
      /\ Alive(Kernel, Kernel.cur) /\ Kernel.force = FALSE
      /\ Kernel.cur = current_process /\ Kernel.idle = idle_pcb
      /\ Kernel.tab = process_table /\ Kernel.kbd = kbd_waiting_process
      /\ Kernel.waitq = wait_queues
      /\ Kernel.cur \in Slots /\ Kernel.idle \in Slots
  BY KernelFacts
<1>1. ASSUME NEW fg \in {0, 1, 3}, sys_create_process(fg) PROVE IInv'
  BY <1>0, <1>1, ProcessCreate, SyscallInv DEF sys_create_process, Syscall
<1>2. CASE sys_exit
  <2>1. PICK W \in Woken : UserRunning /\ Install(irq_return(process_exit(Kernel, W)))
    BY <1>2 DEF sys_exit, Syscall
  <2>2. Kernel.cur # Kernel.idle
    BY <2>1, <1>0 DEF UserRunning, Pid, Mid, KInv, IdleOK
  <2>3. Mid(process_exit(Kernel, W))
    BY <1>0, <2>2, ProcessExit
  <2> QED BY <2>1, <2>3, SyscallInv
<1>3. ASSUME NEW pid \in UserPids, sys_kill(pid) PROVE IInv'
  <2>1. PICK W, V \in Woken : Install(irq_return(process_kill(Kernel, pid, W, V)))
    BY <1>3 DEF sys_kill, Syscall
  <2>2. process_get(Kernel, pid) # Kernel.idle
    <3>1. process_get(Kernel, pid) # NULL
            => Kernel.tab[process_get(Kernel, pid)].pid = pid
      BY <1>0, ProcessGet
    <3>2. Kernel.tab[Kernel.idle].pid # pid /\ Kernel.idle # NULL
      BY <1>0, ConstantFacts DEF Mid, KInv, IdleOK
    <3> QED BY <3>1, <3>2
  <2>3. Mid(process_kill(Kernel, pid, W, V))
    BY <1>0, <2>2, ProcessKill
  <2> QED BY <2>1, <2>3, SyscallInv
<1>4. ASSUME NEW pid \in UserPids, NEW prio \in NicePriorities,
             sys_nice(pid, prio)
      PROVE  IInv'
  <2>1. prio % 256 \in Nat
    BY SchedulerAssumption
  <2>2. Mid(process_nice(Kernel, pid, prio % 256))
    BY <1>0, <2>1, ProcessNice
  <2> QED BY <1>4, <2>2, SyscallInv DEF sys_nice, Syscall
<1>5. ASSUME NEW pid \in UserPids, sys_block(pid) PROVE IInv'
  <2>1. \/ Install(irq_return(process_unblock(Kernel, pid)))
        \/ Install(irq_return(process_block(Kernel, pid)))
    BY <1>5 DEF sys_block, Syscall
  <2>2. Mid(process_unblock(Kernel, pid)) /\ Mid(process_block(Kernel, pid))
    BY <1>0, ProcessUnblock, ProcessBlock
  <2> QED BY <2>1, <2>2, SyscallInv
<1>6. ASSUME NEW pid \in UserPids, sys_unblock(pid) PROVE IInv'
  BY <1>0, <1>6, ProcessUnblock, SyscallInv DEF sys_unblock, Syscall
<1>7. CASE sys_yield
  <2> DEFINE r == [Kernel EXCEPT !.tab[current_process].state = "READY",
                                 !.force = TRUE]
             p == [Kernel.tab[Kernel.cur] EXCEPT !.state = "READY"]
  <2>1. r = SetPCB(Kernel, Kernel.cur, p, TRUE)
    BY <1>0 DEF SetPCB, KernelType
  <2>2. Kernel.tab[Kernel.cur] \in PCB /\ "READY" \in States
    BY <1>0 DEF KernelType, States
  <2>3. /\ p \in PCB /\ p.pid = Kernel.tab[Kernel.cur].pid
        /\ p.priority = Kernel.tab[Kernel.cur].priority
        /\ p.foreground = Kernel.tab[Kernel.cur].foreground
        /\ p.state = "READY"
    BY <2>2, StatePCB
  <2>4. Install(irq_return(r))
    BY <1>7 DEF sys_yield, Syscall
  <2> HIDE DEF r, p
  <2>5. Mid(r)
    BY <1>0, <2>1, <2>3, SetPCBMid
  <2> QED BY <2>4, <2>5, SyscallInv
<1>8. ASSUME NEW pid \in UserPids, sys_waitpid(pid) PROVE IInv'
  <2>1. pid \in Nat
    BY SchedulerAssumption
  <2>2. Mid(process_waitpid(Kernel, pid))
    BY <1>0, <2>1, ProcessWaitpid
  <2> QED BY <1>8, <2>2, SyscallInv DEF sys_waitpid, Syscall
<1>9. CASE KernelWait
  <2> DEFINE pid == Kernel.tab[Kernel.cur].pid
  <2>1. Install(irq_return(process_block(Queued(Kernel, pid), pid)))
    BY <1>0, <1>9 DEF KernelWait, Syscall, Queued, CurrentPid, Pid
  <2>2. Mid(Queued(Kernel, pid))
    BY <1>0, EnterQueue
  <2> HIDE DEF pid
  <2> QED BY <2>1, <2>2, ProcessBlock, SyscallInv
<1>10. ASSUME NEW pid \in wait_queues, KernelWake(pid) PROVE IInv'
  <2>1. Install(irq_return(process_unblock(Unqueued(Kernel, pid), pid)))
    BY <1>10 DEF KernelWake, Syscall, Unqueued
  <2>2. Mid(Unqueued(Kernel, pid))
    BY <1>0, LeaveQueue
  <2> QED BY <2>1, <2>2, ProcessUnblock, SyscallInv
<1>11. CASE KbdWait
  <2> DEFINE s == current_process
             r == [Kernel EXCEPT !.tab[s].state = "BLOCKED",
                                 !.kbd = s, !.force = TRUE]
  <2>1. Install(irq_return(r))
    BY <1>11 DEF KbdWait, Syscall
  <2>2. s \in Slots /\ Alive(Kernel, s)
    BY <1>0
  <2>3. Mid(r)
    <3> HIDE DEF s
    <3> QED BY <1>0, <2>2, SetKbd
  <2> HIDE DEF r
  <2> QED BY <2>1, <2>3, SyscallInv
<1>12. CASE KeyWake
  <2> DEFINE s == kbd_waiting_process
             r == [Kernel EXCEPT !.tab[s].state = "READY", !.kbd = NULL]
  <2>1. Install(irq_return(r))
    BY <1>12 DEF KeyWake
  <2>2. s \in Slots /\ Alive(Kernel, s)
    BY <1>0, <1>12 DEF KeyWake, Mid, KInv, WaitOK, KernelType
  <2>3. r = [Kernel EXCEPT !.tab[s].state = "READY",
                           !.kbd = NULL, !.force = FALSE]
    BY <1>0 DEF KernelType
  <2>4. Mid(r)
    <3> HIDE DEF s, r
    <3> QED BY <1>0, <2>2, <2>3, SetKbd
  <2> HIDE DEF r
  <2> QED BY <2>1, <2>4, SyscallInv
<1>13. CASE CtrlC
  <2>1. PICK W, V \in Woken :
          Install(irq_return(process_kill_foreground(Kernel, W, V)))
    BY <1>13 DEF CtrlC
  <2>2. Mid(process_kill_foreground(Kernel, W, V))
    BY <1>0, ProcessKillForeground
  <2> QED BY <2>1, <2>2, SyscallInv
<1>14. CASE Tick
  BY <1>0, <1>14, SchedulerTick, InstallDone DEF Tick
<1>15. CASE UNCHANGED vars
  <2>1. Kernel' = Kernel
    BY <1>15 DEF vars, Kernel
  <2> QED BY <2>1 DEF IInv
<1> QED BY <1>1, <1>2, <1>3, <1>4, <1>5, <1>6, <1>7, <1>8, <1>9, <1>10,
           <1>11, <1>12, <1>13, <1>14, <1>15 DEF Next, Handlers

\* The invariant holds in every reachable state.
LEMMA SpecInv ==
  ASSUME IdlePid \notin UserPids
  PROVE  Spec => []IInv
<1>1. IInv /\ [Next]_vars => IInv'
  BY NextInv
<1> QED BY <1>1, InitInv, PTL DEF Spec

\* As long as nobody names idle in a system call, whatever the processes do
\* and whenever the timer and the keyboard interrupt:
\*
\* every variable keeps its type: current_process and idle_pcb are never NULL
\* again, priorities and quanta stay in range.
THEOREM TypeCorrect ==
  ASSUME IdlePid \notin UserPids
  PROVE  Spec => []TypeOK
<1>1. IInv => TypeOK
  BY DEF IInv, Done, KInv, KernelType, Kernel, TypeOK
<1> QED BY <1>1, SpecInv, PTL

\* run_queue and process_table agree on who is schedulable, nobody is queued
\* twice, and queue_idx stays inside the queue.
THEOREM RunQueueIsExact ==
  ASSUME IdlePid \notin UserPids
  PROVE  Spec => []RunQueueExact
<1>1. IInv => RunQueueExact
  BY DEF IInv, Done, KInv, QueueOK, Injective, Member, IdxOK, Kernel,
         RunQueueExact
<1> QED BY <1>1, SpecInv, PTL

\* run_queue stays sorted by descending priority.
THEOREM RunQueueIsSorted ==
  ASSUME IdlePid \notin UserPids
  PROVE  Spec => []RunQueueSorted
<1>1. IInv => RunQueueSorted
  BY DEF IInv, Done, KInv, SortedOK, Kernel, RunQueueSorted
<1> QED BY <1>1, SpecInv, PTL

\* Between handlers the CPU belongs to a process that may run, at most one
\* process is RUNNING, and no ZOMBIE is left over.
THEOREM CpuIsOwned ==
  ASSUME IdlePid \notin UserPids
  PROVE  Spec => []CpuOwned
<1>1. IInv => CpuOwned
  <2> SUFFICES ASSUME IInv PROVE CpuOwned
    OBVIOUS
  <2>1. /\ Kernel.tab = process_table /\ Kernel.cur = current_process
        /\ Done(Kernel)
    BY KernelFacts
  <2>2. \A s \in Slots : Kernel.tab[s].state # "ZOMBIE"
    BY <2>1, DoneFacts
  <2> QED BY <2>1, <2>2 DEF Done, KInv, CpuOK, CpuOwned
<1> QED BY <1>1, SpecInv, PTL

\* Pids identify processes: no two live ones share one, none exceeds the last
\* one handed out.
THEOREM PidsAreUnique ==
  ASSUME IdlePid \notin UserPids
  PROVE  Spec => []UniquePids
<1>1. IInv => UniquePids
  BY DEF IInv, Done, KInv, PidsOK, Kernel, UniquePids
<1> QED BY <1>1, SpecInv, PTL

\* No death leaves a dangling reference in the keyboard driver or in a queue.
THEOREM NobodyWaitsDead ==
  ASSUME IdlePid \notin UserPids
  PROVE  Spec => []NoDanglingWaiter
<1>1. IInv => NoDanglingWaiter
  BY DEF IInv, Done, KInv, WaitOK, Alive, Kernel, NoDanglingWaiter
<1> QED BY <1>1, SpecInv, PTL

=============================================================================
