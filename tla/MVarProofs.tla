---------------------------- MODULE MVarProofs ----------------------------
(***************************************************************************)
(* Proofs about module MVar, for any number of writers and readers that    *)
(* are killed, if at all, anywhere but in the busy wait before a put or a  *)
(* take.                                                                   *)
(***************************************************************************)
EXTENDS MVar, SemaphoreProofs

(***************************************************************************)
(* The inductive invariant                                                 *)
(***************************************************************************)
\* Slot i of the table is the open semaphore called n.
Is(k, i, n) == k.sem[i].open_count > 0 /\ k.sem[i].name = n

\* p has the semaphore called n open.
Has(k, p, n) == \E i \in k.opened[p] : Is(k, i, n)

\* p is past its sem_wait and has not posted.
In(k, c, p) == c[p] = "post" \/ (c[p] = "access" /\ k.st[p] = "READY")

\* There is one semaphore of a name at most, and no other names than two.
NamesOK(k) ==
  /\ \A i, m \in Sems, n \in Names : Is(k, i, n) /\ Is(k, m, n) => i = m
  /\ \A i \in Sems : k.sem[i].open_count > 0 => Is(k, i, "e") \/ Is(k, i, "f")

Points == {"open_empty", "open_full", "idle", "access", "post", "dead"}

\* What a participant at c[p] has open, holds and waits for.
ParticipantOK(k, c, p) ==
  /\ c[p] \in Points
  /\ c[p] = "dead" <=> k.st[p] = "DEAD"
  /\ k.st[p] = "BLOCKED" => c[p] = "access"
  /\ c[p] \in {"open_full", "idle", "access", "post"} => Has(k, p, "e")
  /\ c[p] \in {"idle", "access", "post"} => Has(k, p, "f")
  /\ c[p] = "open_empty" => k.opened[p] = {}
  /\ c[p] = "open_full" => ~Has(k, p, "f")
  /\ \A i \in Sems : Sleeps(k, p, i) => Is(k, i, WaitsOn(p))
  /\ \A i \in k.held[p] : i \in k.opened[p] /\ Is(k, i, WaitsOn(p))
  /\ In(k, c, p) => k.held[p] # {}
  /\ c[p] \in {"open_empty", "open_full"} => k.held[p] = {}

\* There is one token at most: a unit of one of the semaphores, or a
\* participant that is past its sem_wait.
TokenOK(k, c) ==
  /\ \A i \in Sems : k.sem[i].open_count > 0 => k.sem[i].value <= 1
  /\ \A i, m \in Sems : /\ k.sem[i].open_count > 0 /\ k.sem[i].value > 0
                        /\ k.sem[m].open_count > 0 /\ k.sem[m].value > 0
                        => i = m
  /\ \A p, q \in Procs : In(k, c, p) /\ In(k, c, q) => p = q
  /\ \A p \in Procs, i \in Sems :
       In(k, c, p) /\ k.sem[i].open_count > 0 => k.sem[i].value <= 0

MInv(k, c) == /\ SemInv(k)
              /\ c \in [Procs -> Points]
              /\ k.susp = {}
              /\ NamesOK(k)
              /\ \A p \in Procs : ParticipantOK(k, c, p)
              /\ TokenOK(k, c)

\* A value is there to be read, or is being handled.
Full(k, c) == \/ \E p \in Procs : c[p] = "post"
              \/ \E p \in Readers : In(k, c, p)
              \/ \E i \in Sems : Is(k, i, "f") /\ k.sem[i].value > 0

MVarInv == /\ MInv(SemState, pc)
           /\ value \in Writers \cup {NUL}
           /\ Full(SemState, pc) => value \in Writers

(***************************************************************************)
(* Facts about the invariant                                               *)
(***************************************************************************)
\* The two names are different, and Empty is neither a writer nor NUL.
LEMMA MVarNames ==
  /\ "e" \in Names /\ "f" \in Names /\ Names = {"e", "f"}
  /\ 0 \in InitialValues /\ 1 \in InitialValues
  /\ 0 \in Sems /\ 1 \in Sems
  /\ \A p \in Procs : WaitsOn(p) \in Names /\ Posts(p) \in Names /\ WaitsOn(p) # Posts(p)
BY MVarAssumption, SemaphoreAssumption DEF Sems, WaitsOn, Posts

\* A slot is open exactly when somebody has it open.
LEMMA OpenByOpeners ==
  ASSUME NEW k, SemInv(k), NEW i \in Sems
  PROVE  /\ k.sem[i].open_count > 0 <=> \E x \in Procs : i \in k.opened[x]
         /\ k.sem[i].open_count \in Nat /\ k.sem[i].value \in Int
<1>1. /\ k.sem[i].open_count = Cardinality(Openers(k, i)) /\ IsFiniteSet(Openers(k, i))
      /\ Cardinality(Openers(k, i)) \in Nat
  BY ProcSets DEF SemInv, OpenOK
<1>2. Cardinality(Openers(k, i)) = 0 <=> Openers(k, i) = {}
  BY <1>1, FS_EmptySet
<1>3. Openers(k, i) = {} <=> ~\E x \in Procs : i \in k.opened[x]
  BY DEF Openers
<1>4. k.sem[i].value \in Int
  BY KernelFields, SemFields DEF SemInv
<1> QED BY <1>1, <1>2, <1>3, <1>4

\* With one semaphore of a name at most, find_sem finds it.
LEMMA FoundIs ==
  ASSUME NEW k, SemInv(k), NamesOK(k), NEW n \in Names, NEW i \in Sems, Is(k, i, n)
  PROVE  find_sem(k, n) = i
<1>1. k \in SemKernel
  BY DEF SemInv
<1>2. find_sem(k, n) # NULL
  BY <1>1, FoundSlot DEF Is
<1>3. find_sem(k, n) \in Sems /\ Is(k, find_sem(k, n), n)
  BY <1>1, <1>2, FoundSlot DEF Is
<1> QED BY <1>3 DEF NamesOK

\* Two slots are enough for two names: sem_open finds one.
LEMMA SlotForName ==
  ASSUME NEW k, SemInv(k), NamesOK(k), NEW n \in Names
  PROVE  find_sem(k, n) # NULL \/ free_sem(k) # NULL
<1> SUFFICES ASSUME find_sem(k, n) = NULL, free_sem(k) = NULL PROVE FALSE
  OBVIOUS
<1>1. k \in SemKernel
  BY DEF SemInv
<1>2. \A i \in Sems : ~Is(k, i, n) /\ k.sem[i].open_count > 0
  <2>1. \A i \in Sems : ~Is(k, i, n) /\ k.sem[i].open_count # 0
    BY <1>1, FoundSlot DEF Is
  <2> QED BY <2>1, OpenByOpeners
<1>3. PICK m \in Names : n # m /\ Names = {n, m}
  BY MVarNames
<1>4. \A i \in Sems : Is(k, i, m)
  <2>1. \A i \in Sems : \E x \in Names : Is(k, i, x)
    BY <1>2, MVarNames DEF NamesOK
  <2> QED BY <1>2, <1>3, <2>1
<1>5. 0 = 1
  BY <1>4, MVarNames DEF NamesOK
<1> QED BY <1>5

(***************************************************************************)
(* Opening                                                                 *)
(***************************************************************************)
\* A participant opens one of the two semaphores.
LEMMA OpenMInv ==
  ASSUME NEW k, NEW c, MInv(k, c), NEW p \in Procs, k.st[p] = "READY", NEW n, NEW v, NEW to,
         \/ n = "e" /\ v = 1 /\ c[p] = "open_empty" /\ to = "open_full"
         \/ n = "f" /\ v = 0 /\ c[p] = "open_full" /\ to = "idle",
         NEW r, r = sem_open(k, p, n, v), NEW d, d = [c EXCEPT ![p] = to]
  PROVE  MInv(r, d) /\ (Full(r, d) => Full(k, c))
<1>1. /\ SemInv(k) /\ k \in SemKernel /\ NamesOK(k) /\ k.susp = {} /\ TokenOK(k, c)
      /\ c \in [Procs -> Points] /\ \A x \in Procs : ParticipantOK(k, c, x)
  BY DEF MInv, SemInv
<1>2. n \in Names /\ v \in InitialValues /\ v \in {0, 1}
  BY MVarNames
<1>3. find_sem(k, n) # NULL \/ free_sem(k) # NULL
  BY <1>1, <1>2, SlotForName
<1>4. ~Has(k, p, n)
  BY <1>1 DEF ParticipantOK, Has
<1>5. find_sem(k, n) # NULL => find_sem(k, n) \notin k.opened[p]
  BY <1>1, <1>4, FoundSlot DEF Has, Is
<1>6. SemInv(r)
  BY <1>1, <1>2, <1>5, OpenInv
<1>7. PICK i \in Sems : OpenStep(k, r, p, n, v, i)
  BY <1>1, <1>2, <1>3, OpenEffect
<1>8. /\ r.held = k.held /\ r.st = k.st /\ r.susp = k.susp
      /\ \A x \in Procs : \A m : m \in r.opened[x] <=> m \in k.opened[x] \/ (x = p /\ m = i)
      /\ \A m \in Sems \ {i} : r.sem[m] = k.sem[m]
  BY <1>1, <1>7, KernelFields DEF OpenStep
<1>9. /\ \A m \in Sems : \A x : Is(k, m, x) => Is(r, m, x)
      /\ \A m \in Sems : \A x : Is(r, m, x) =>
           Is(k, m, x) \/ (m = i /\ x = n /\ \A j \in Sems : ~Is(k, j, n))
      /\ \A m \in Sems : r.sem[m].open_count > 0 =>
           \/ k.sem[m].open_count > 0 /\ r.sem[m].value = k.sem[m].value
           \/ m = i /\ r.sem[m].value = v /\ \A j \in Sems : ~Is(k, j, n)
      /\ \A m \in Sems, x \in Procs : Sleeps(r, x, m) => Sleeps(k, x, m)
      /\ Is(r, i, n)
  <2>1. CASE k.sem[i].open_count > 0
    <3>1. /\ i = find_sem(k, n) /\ r.sem[i].value = k.sem[i].value
          /\ r.sem[i].wait_queue = k.sem[i].wait_queue
          /\ r.sem[i].open_count = k.sem[i].open_count + 1
          /\ r.sem[i].name = k.sem[i].name
      BY <1>7, <2>1 DEF OpenStep
    <3>2. k.sem[i].open_count \in Nat /\ i # NULL
      BY <1>1, OpenByOpeners, SemaphoreAssumption DEF Sems, NULL
    <3>3. \A m \in Sems : /\ r.sem[m].open_count > 0 <=> k.sem[m].open_count > 0
                          /\ r.sem[m].value = k.sem[m].value
                          /\ r.sem[m].wait_queue = k.sem[m].wait_queue
                          /\ r.sem[m].name = k.sem[m].name
      BY <1>8, <2>1, <3>1, <3>2
    <3>4. Is(k, i, n)
      BY <1>1, <3>1, <3>2, FoundSlot DEF Is
    <3> QED BY <3>3, <3>4 DEF Is, Sleeps
  <2>2. CASE k.sem[i].open_count = 0
    <3>1. /\ find_sem(k, n) = NULL /\ r.sem[i].name = n /\ r.sem[i].value = v
          /\ r.sem[i].wait_queue = <<>> /\ r.sem[i].open_count = 1
      BY <1>7, <2>2 DEF OpenStep
    <3>2. \A j \in Sems : ~Is(k, j, n)
      BY <1>1, <3>1, FoundSlot DEF Is
    <3>3. ~(k.sem[i].open_count > 0) /\ r.sem[i].open_count > 0
      BY <2>2, <3>1
    <3>4. \A x : ~Sleeps(r, x, i)
      BY <3>1 DEF Sleeps, InQueue
    <3> QED BY <1>8, <3>1, <3>2, <3>3, <3>4 DEF Is, Sleeps
  <2> QED BY <1>7, <2>1, <2>2 DEF OpenStep
<1>10. ASSUME n = "e", \A j \in Sems : ~Is(k, j, n)
       PROVE  (\A m \in Sems : ~(k.sem[m].open_count > 0)) /\ \A x \in Procs : ~In(k, c, x)
  <2>1. \A x \in Procs : k.opened[x] \subseteq Sems
    BY <1>1, KernelFields
  <2>2. \A x \in Procs : c[x] \in {"open_empty", "dead"}
    BY <1>1, <1>10, <2>1 DEF ParticipantOK, Has, Points
  <2>3. \A x \in Procs : k.opened[x] = {}
    BY <1>1, <2>2 DEF ParticipantOK, SemInv, SleepersOK
  <2>4. \A m \in Sems : ~(k.sem[m].open_count > 0)
    BY <1>1, <2>3, OpenByOpeners
  <2> QED BY <2>2, <2>4 DEF In
<1>11. /\ d \in [Procs -> Points] /\ d[p] = to /\ \A x \in Procs \ {p} : d[x] = c[x]
       /\ \A x \in Procs : In(r, d, x) <=> In(k, c, x)
  BY <1>1, <1>8 DEF Points, In
<1>12. NamesOK(r)
  <2>1. ASSUME NEW j \in Sems, NEW m \in Sems, NEW x \in Names, Is(r, j, x), Is(r, m, x)
        PROVE  j = m
    BY <1>1, <1>9, <2>1 DEF NamesOK
  <2>2. ASSUME NEW m \in Sems, r.sem[m].open_count > 0
        PROVE  Is(r, m, "e") \/ Is(r, m, "f")
    BY <1>1, <1>2, <1>9, <2>2, MVarNames DEF NamesOK
  <2> QED BY <2>1, <2>2 DEF NamesOK
<1>13. ASSUME NEW x \in Procs PROVE ParticipantOK(r, d, x)
  <2>1. \A m : Has(k, x, m) => Has(r, x, m)
    BY <1>1, <1>8, <1>9, KernelFields DEF Has
  <2>2. \A m \in Sems : /\ Sleeps(r, x, m) => Is(r, m, WaitsOn(x))
                        /\ m \in r.held[x] => m \in r.opened[x] /\ Is(r, m, WaitsOn(x))
    BY <1>1, <1>8, <1>9 DEF ParticipantOK
  <2>3. r.held[x] \subseteq Sems
    BY <1>1, <1>8, KernelFields
  <2>4. In(r, d, x) => r.held[x] # {}
    BY <1>1, <1>8, <1>11 DEF ParticipantOK
  <2>5. CASE x = p
    <3>1. Has(r, p, n)
      BY <1>8, <1>9 DEF Has
    <3>2. k.opened[p] \subseteq Sems /\ r.opened[p] = k.opened[p] \cup {i}
      BY <1>1, <1>7, KernelFields DEF OpenStep
    <3>3. n = "e" => ~Has(r, p, "f")
      <4> SUFFICES ASSUME n = "e", Has(r, p, "f") PROVE FALSE
        OBVIOUS
      <4>1. k.opened[p] = {}
        BY <1>1 DEF ParticipantOK
      <4>2. Is(r, i, "f")
        BY <3>2, <4>1 DEF Has
      <4> QED BY <1>9, <4>2 DEF Is
    <3>4. n = "f" => Has(r, p, "e")
      BY <1>1, <2>1, <2>5 DEF ParticipantOK
    <3>5. r.held[p] = {}
      BY <1>1, <1>8 DEF ParticipantOK
    <3> QED BY <1>8, <1>11, <2>2, <2>3, <2>4, <2>5, <3>1, <3>3, <3>4, <3>5 DEF ParticipantOK, Points
  <2>6. CASE x # p
    <3>1. r.opened[x] = k.opened[x] /\ d[x] = c[x] /\ k.opened[x] \subseteq Sems
      BY <1>1, <1>7, <1>11, <2>6, KernelFields DEF OpenStep
    <3>2. c[x] = "open_full" => ~Has(r, x, "f")
      <4> SUFFICES ASSUME c[x] = "open_full", NEW m \in k.opened[x], Is(r, m, "f") PROVE FALSE
        BY <3>1 DEF Has
      <4>1. k.sem[m].open_count > 0
        BY <1>1, <3>1, OpenByOpeners
      <4>2. Is(k, m, "e") \/ Is(k, m, "f")
        BY <1>1, <3>1, <4>1 DEF NamesOK
      <4>3. Is(k, m, "e")
        BY <1>1, <4>2 DEF ParticipantOK, Has
      <4> QED BY <1>9, <3>1, <4>3 DEF Is
    <3> QED BY <1>1, <1>8, <2>1, <2>2, <2>3, <2>4, <3>1, <3>2 DEF ParticipantOK
  <2> QED BY <2>5, <2>6
<1>14. TokenOK(r, d)
  <2>1. ASSUME n = "e", \A j \in Sems : ~Is(k, j, n) PROVE TokenOK(r, d)
    <3>1. \A m \in Sems : r.sem[m].open_count > 0 => m = i /\ r.sem[m].value = 1
      BY <1>9, <1>10, <2>1
    <3>2. \A x \in Procs : ~In(r, d, x)
      BY <1>10, <1>11, <2>1
    <3>3. \A m \in Sems : r.sem[m].open_count > 0 => r.sem[m].value <= 1
      BY <3>1
    <3> QED BY ONLY <3>1, <3>2, <3>3 DEF TokenOK
  <2>2. ASSUME ~(n = "e" /\ \A j \in Sems : ~Is(k, j, n)) PROVE TokenOK(r, d)
    <3>1. \A m \in Sems : r.sem[m].open_count > 0 =>
            \/ k.sem[m].open_count > 0 /\ r.sem[m].value = k.sem[m].value
            \/ r.sem[m].value = 0
      BY <1>9, <2>2
    <3>2. \A m \in Sems : r.sem[m].open_count > 0 => r.sem[m].value <= 1
      BY <1>1, <3>1 DEF TokenOK
    <3>3. \A m \in Sems : r.sem[m].open_count > 0 /\ r.sem[m].value > 0 =>
            k.sem[m].open_count > 0 /\ k.sem[m].value > 0
      BY <3>1
    <3>4. \A x \in Procs, m \in Sems :
            In(r, d, x) /\ r.sem[m].open_count > 0 => r.sem[m].value <= 0
      BY <1>1, <1>11, <3>1 DEF TokenOK
    <3>5. \A x, y \in Procs : In(r, d, x) /\ In(r, d, y) => x = y
      BY <1>1, <1>11 DEF TokenOK
    <3>6. \A j, m \in Sems : /\ r.sem[j].open_count > 0 /\ r.sem[j].value > 0
                             /\ r.sem[m].open_count > 0 /\ r.sem[m].value > 0
                             => j = m
      BY <1>1, <3>3 DEF TokenOK
    <3> QED BY ONLY <3>2, <3>4, <3>5, <3>6 DEF TokenOK
  <2> QED BY <2>1, <2>2
<1>15. Full(r, d) => Full(k, c)
  <2>1. \A x \in Procs : d[x] = "post" => c[x] = "post"
    BY <1>11
  <2>2. \A m \in Sems : Is(r, m, "f") /\ r.sem[m].value > 0 => Is(k, m, "f") /\ k.sem[m].value > 0
    <3> SUFFICES ASSUME NEW m \in Sems, Is(r, m, "f"), r.sem[m].value > 0
                 PROVE  Is(k, m, "f") /\ k.sem[m].value > 0
      OBVIOUS
    <3>1. n = "e" => m # i
      BY <1>9 DEF Is
    <3>2. r.sem[m].open_count > 0
      BY DEF Is
    <3>3. k.sem[m].open_count > 0 /\ r.sem[m].value = k.sem[m].value
      BY <1>9, <3>1, <3>2
    <3> QED BY <1>9, <3>1, <3>3 DEF Is
  <2>3. Readers \subseteq Procs
    BY MVarAssumption
  <2> QED BY <1>11, <2>1, <2>2, <2>3 DEF Full
<1> QED BY <1>1, <1>6, <1>8, <1>11, <1>12, <1>13, <1>14, <1>15 DEF MInv

(***************************************************************************)
(* Calls that open nothing                                                 *)
(***************************************************************************)
\* From k to r slots keep their names, and no slot is opened.
NamesKept(k, r) == \A m \in Sems : /\ r.sem[m].name = k.sem[m].name
                                   /\ r.sem[m].open_count > 0 => k.sem[m].open_count > 0

\* Then each name still has one semaphore at most.
LEMMA NamesStay ==
  ASSUME NEW k, NEW r, NamesOK(k), NamesKept(k, r)
  PROVE  NamesOK(r)
BY DEF NamesOK, NamesKept, Is

\* What a participant has open is open, and under the same name as before.
LEMMA StillIs ==
  ASSUME NEW k, NEW r, SemInv(k), SemInv(r), NamesKept(k, r), NEW x \in Procs,
         r.opened[x] = k.opened[x]
  PROVE  /\ k.opened[x] \subseteq Sems
         /\ \A m \in k.opened[x] : \A n : Is(r, m, n) <=> Is(k, m, n)
         /\ \A n : Has(r, x, n) <=> Has(k, x, n)
<1>1. k.opened[x] \subseteq Sems
  BY KernelFields DEF SemInv
<1>2. \A m \in k.opened[x] : k.sem[m].open_count > 0 /\ r.sem[m].open_count > 0
  BY <1>1, OpenByOpeners
<1>3. \A m \in k.opened[x] : \A n : Is(r, m, n) <=> Is(k, m, n)
  BY <1>1, <1>2 DEF NamesKept, Is
<1> QED BY <1>1, <1>3 DEF Has

\* A participant that makes no call itself is left where it was, or is woken with
\* the resource it waited for.
LEMMA Bystander ==
  ASSUME NEW k, NEW r, NEW c, NEW d, NEW x \in Procs, SemInv(k), SemInv(r),
         NamesKept(k, r), ParticipantOK(k, c, x), d[x] = c[x],
         r.opened[x] = k.opened[x],
         \/ r.st[x] = k.st[x]
         \/ k.st[x] = "BLOCKED" /\ r.st[x] = "READY" /\ r.held[x] # {},
         \A m \in Sems : Sleeps(r, x, m) => Sleeps(k, x, m),
         \A m \in r.held[x] : m \in k.held[x] \/ (m \in Sems /\ Sleeps(k, x, m)),
         In(k, c, x) => r.held[x] # {}
  PROVE  ParticipantOK(r, d, x)
<1>1. /\ k.opened[x] \subseteq Sems
      /\ \A m \in k.opened[x] : \A n : Is(r, m, n) <=> Is(k, m, n)
      /\ \A n : Has(r, x, n) <=> Has(k, x, n)
  BY StillIs
<1>2. /\ \A m \in Sems : Sleeps(k, x, m) => m \in k.opened[x]
      /\ \A m \in Sems : Sleeps(r, x, m) => m \in r.opened[x]
  BY DEF SemInv, SleepersOK
<1>3. \A m \in Sems : Sleeps(r, x, m) => Is(r, m, WaitsOn(x))
  BY <1>1, <1>2 DEF ParticipantOK
<1>4. \A m \in r.held[x] : m \in r.opened[x] /\ Is(r, m, WaitsOn(x))
  BY <1>1, <1>2 DEF ParticipantOK
<1>5. In(r, d, x) => r.held[x] # {}
  BY DEF In
<1>6. /\ d[x] \in Points
      /\ d[x] = "dead" <=> r.st[x] = "DEAD"
      /\ r.st[x] = "BLOCKED" => d[x] = "access"
  BY DEF ParticipantOK
<1>7. d[x] \in {"open_empty", "open_full"} => r.held[x] = {}
  BY DEF ParticipantOK, SemInv, SleepersOK
<1> QED BY <1>1, <1>3, <1>4, <1>5, <1>6, <1>7 DEF ParticipantOK

\* The semaphore p waits on or posts is one it has open.
LEMMA OwnSlot ==
  ASSUME NEW k, NEW c, MInv(k, c), NEW p \in Procs, c[p] \in {"idle", "access", "post"},
         NEW n \in Names, NEW i \in Sems, Is(k, i, n)
  PROVE  i \in k.opened[p]
<1>1. Has(k, p, n) /\ NamesOK(k) /\ k.opened[p] \subseteq Sems
  BY MVarNames, KernelFields DEF MInv, ParticipantOK, SemInv
<1> QED BY <1>1 DEF Has, NamesOK

\* A participant waits.
LEMMA WaitMInv ==
  ASSUME NEW k, NEW c, MInv(k, c), NEW p \in Procs, k.st[p] = "READY", c[p] = "idle",
         NEW i \in Sems, Is(k, i, WaitsOn(p)),
         NEW r, r = sem_wait(k, p, i), NEW d, d = [c EXCEPT ![p] = "access"]
  PROVE  MInv(r, d) /\ (Full(r, d) => Full(k, c))
<1>1. /\ SemInv(k) /\ k \in SemKernel /\ NamesOK(k) /\ k.susp = {} /\ TokenOK(k, c)
      /\ c \in [Procs -> Points] /\ \A x \in Procs : ParticipantOK(k, c, x)
  BY DEF MInv, SemInv
<1>2. i \in k.opened[p]
  BY OwnSlot, MVarNames
<1>3. SemInv(r)
  <2>1. k.sem[i].open_count > 0 /\ Usage # "lock"
    BY MVarAssumption DEF Is
  <2> QED BY <1>1, <1>2, <2>1, WaitInv
<1>4. WaitStep(k, r, p, i)
  BY <1>1, WaitEffect
<1>5. k.sem[i].value \in Int /\ k.sem[i].wait_queue \in Seq(Procs)
  BY <1>1, KernelFields, SemFields
<1>6. /\ NamesKept(k, r) /\ r.susp = {} /\ r.opened = k.opened
      /\ \A m \in Sems : r.sem[m].open_count = k.sem[m].open_count
      /\ \A m \in Sems \ {i} : r.sem[m].value = k.sem[m].value
      /\ r.sem[i].value = k.sem[i].value - 1
  BY <1>1, <1>4 DEF WaitStep, NamesKept
<1>7. /\ \A x \in Procs \ {p} : r.st[x] = k.st[x] /\ r.held[x] = k.held[x]
      /\ \A x \in Procs \ {p}, m \in Sems : Sleeps(r, x, m) => Sleeps(k, x, m)
      /\ \A m \in Sems : Sleeps(r, p, m) => m = i
      /\ \/ k.sem[i].value < 1 /\ r.st[p] = "BLOCKED" /\ r.held[p] = k.held[p]
         \/ k.sem[i].value >= 1 /\ r.st[p] = "READY" /\ r.held[p] = k.held[p] \cup {i}
  <2>1. \A m \in Sems : ~Sleeps(k, p, m)
    BY <1>1 DEF SemInv, SleepersOK
  <2>2. \A x \in Procs : Sleeps(r, x, i) => Sleeps(k, x, i) \/ x = p
    <3>1. Injective(k.sem[i].wait_queue) /\ ~InQueue(k.sem[i].wait_queue, p)
      BY <1>1, <2>1 DEF SemInv, QueuesOK, Sleeps
    <3>2. \A x \in Procs : InQueue(queue_push(k.sem[i].wait_queue, p), x)
                             => InQueue(k.sem[i].wait_queue, x) \/ x = p
      BY <1>5, <3>1, QueuePush
    <3> QED BY <1>4, <3>2 DEF WaitStep, Sleeps
  <2>3. \A x \in Procs, m \in Sems \ {i} : Sleeps(r, x, m) => Sleeps(k, x, m)
    BY <1>4 DEF WaitStep, Sleeps
  <2>4. /\ \A x \in Procs \ {p} : r.st[x] = k.st[x] /\ r.held[x] = k.held[x]
        /\ \/ k.sem[i].value < 1 /\ r.st[p] = "BLOCKED" /\ r.held[p] = k.held[p]
           \/ k.sem[i].value >= 1 /\ r.st[p] = "READY" /\ r.held[p] = k.held[p] \cup {i}
    BY <1>1, <1>4, KernelFields DEF WaitStep
  <2> QED BY <2>1, <2>2, <2>3, <2>4
<1>8. /\ d \in [Procs -> Points] /\ d[p] = "access" /\ \A x \in Procs \ {p} : d[x] = c[x]
      /\ \A x \in Procs \ {p} : In(r, d, x) <=> In(k, c, x)
      /\ In(r, d, p) <=> k.sem[i].value >= 1
  <2>1. d \in [Procs -> Points] /\ d[p] = "access" /\ \A x \in Procs \ {p} : d[x] = c[x]
    BY <1>1 DEF Points
  <2>2. \A x \in Procs \ {p} : In(r, d, x) <=> In(k, c, x)
    BY <1>7, <2>1 DEF In
  <2>3. In(r, d, p) <=> k.sem[i].value >= 1
    BY <1>5, <1>7, <2>1 DEF In
  <2> QED BY <2>1, <2>2, <2>3
<1>9. NamesOK(r)
  BY <1>1, <1>6, NamesStay
<1>10. ASSUME NEW x \in Procs \ {p} PROVE ParticipantOK(r, d, x)
  <2>1. In(k, c, x) => r.held[x] # {}
    BY <1>1, <1>7 DEF ParticipantOK
  <2> QED BY <1>1, <1>3, <1>6, <1>7, <1>8, <2>1, Bystander
<1>11. ParticipantOK(r, d, p)
  <2>1. /\ \A m \in k.opened[p] : \A n : Is(r, m, n) <=> Is(k, m, n)
        /\ Has(r, p, "e") /\ Has(r, p, "f")
    BY <1>1, <1>3, <1>6, StillIs DEF ParticipantOK
  <2>2. \A m \in Sems : Sleeps(r, p, m) => Is(r, m, WaitsOn(p))
    BY <1>2, <1>7, <2>1
  <2>3. \A m \in r.held[p] : m \in r.opened[p] /\ Is(r, m, WaitsOn(p))
    BY <1>1, <1>2, <1>6, <1>7, <2>1 DEF ParticipantOK
  <2>4. In(r, d, p) => r.held[p] # {}
    BY <1>5, <1>7, <1>8, SMTT(60)
  <2> QED BY <1>7, <1>8, <2>1, <2>2, <2>3, <2>4 DEF ParticipantOK, Points
<1>12. TokenOK(r, d)
  <2>1. \A m \in Sems : k.sem[m].value \in Int
    BY <1>1, OpenByOpeners
  <2>2. \A m \in Sems : r.sem[m].value <= k.sem[m].value
    BY <1>6, <2>1
  <2>3. \A m \in Sems : r.sem[m].open_count > 0 => r.sem[m].value <= 1
    BY <1>1, <1>6, <2>1, <2>2 DEF TokenOK
  <2>4. \A j, m \in Sems : /\ r.sem[j].open_count > 0 /\ r.sem[j].value > 0
                           /\ r.sem[m].open_count > 0 /\ r.sem[m].value > 0
                           => j = m
    <3>1. \A m \in Sems : r.sem[m].value > 0 => k.sem[m].value > 0
      BY <1>6, <2>1
    <3> QED BY <1>1, <1>6, <3>1 DEF TokenOK
  <2>5. CASE k.sem[i].value < 1
    <3>1. \A x \in Procs : In(r, d, x) => In(k, c, x)
      BY <1>5, <1>8, <2>5
    <3>2. \A x, y \in Procs : In(r, d, x) /\ In(r, d, y) => x = y
      BY <1>1, <3>1 DEF TokenOK
    <3>3. \A x \in Procs, m \in Sems :
            In(r, d, x) /\ r.sem[m].open_count > 0 => r.sem[m].value <= 0
      <4>1. \A x \in Procs, m \in Sems :
              In(r, d, x) /\ r.sem[m].open_count > 0 => k.sem[m].value <= 0
        BY <1>1, <1>6, <3>1 DEF TokenOK
      <4> QED BY <1>6, <2>1, <4>1
    <3> QED BY ONLY <2>3, <2>4, <3>2, <3>3 DEF TokenOK
  <2>6. CASE k.sem[i].value >= 1
    <3>1. k.sem[i].open_count > 0 /\ k.sem[i].value > 0
      BY <1>5, <2>6 DEF Is
    <3>2. \A x \in Procs : ~In(k, c, x)
      BY <1>1, <1>5, <3>1 DEF TokenOK
    <3>3. \A x, y \in Procs : In(r, d, x) /\ In(r, d, y) => x = y
      BY <1>8, <3>2
    <3>4. \A m \in Sems : r.sem[m].open_count > 0 => r.sem[m].value <= 0
      <4>1. ASSUME NEW m \in Sems, m # i, r.sem[m].open_count > 0
            PROVE  r.sem[m].value <= 0
        <5>1. ~(k.sem[m].value > 0)
          BY <1>1, <1>6, <3>1, <4>1 DEF TokenOK
        <5> QED BY <1>6, <2>1, <4>1, <5>1
      <4>2. r.sem[i].value <= 0
        BY <1>1, <1>5, <1>6, <3>1 DEF TokenOK
      <4> QED BY <4>1, <4>2
    <3> QED BY ONLY <2>3, <2>4, <3>3, <3>4 DEF TokenOK
  <2> QED BY <1>5, <2>5, <2>6
<1>13. Full(r, d) => Full(k, c)
  <2>1. \A x \in Procs : d[x] = "post" => c[x] = "post"
    BY <1>8
  <2>2. \A m \in Sems : Is(r, m, "f") /\ r.sem[m].value > 0 => Is(k, m, "f") /\ k.sem[m].value > 0
    <3>1. \A m \in Sems : r.sem[m].value > 0 => k.sem[m].value > 0
      BY <1>5, <1>6
    <3> QED BY <1>6, <3>1 DEF Is, NamesKept
  <2>3. \A x \in Readers : In(r, d, x) => Full(k, c)
    <3>1. \A x \in Readers \ {p} : In(r, d, x) => In(k, c, x)
      BY <1>8, MVarAssumption
    <3>2. p \in Readers /\ In(r, d, p) => Is(k, i, "f") /\ k.sem[i].value > 0
      BY <1>5, <1>8, MVarAssumption DEF WaitsOn
    <3> QED BY <3>1, <3>2 DEF Full
  <2> QED BY <2>1, <2>2, <2>3 DEF Full
<1> QED BY <1>3, <1>6, <1>8, <1>9, <1>10, <1>11, <1>12, <1>13 DEF MInv

\* The token of p goes back to the value of slot i, or to a waiter of slot i.
LEMMA TokenReleased ==
  ASSUME NEW k, NEW r, NEW c, NEW d, SemInv(k), TokenOK(k, c),
         NEW p \in Procs, In(k, c, p), NEW i \in Sems, k.sem[i].open_count > 0,
         \A m \in Sems : r.sem[m].open_count > 0 => k.sem[m].open_count > 0,
         \A m \in Sems \ {i} : r.sem[m].value = k.sem[m].value,
         r.sem[i].value = k.sem[i].value + 1,
         \/ \A x \in Procs : ~In(r, d, x)
         \/ /\ k.sem[i].value < 0
            /\ \E y \in Procs : \A x \in Procs : In(r, d, x) => x = y
  PROVE  TokenOK(r, d)
<1>1. \A m \in Sems : k.sem[m].value \in Int
  BY OpenByOpeners
<1>2. \A m \in Sems : k.sem[m].open_count > 0 => k.sem[m].value <= 0
  BY DEF TokenOK
<1>3. \A m \in Sems \ {i} : r.sem[m].open_count > 0 => r.sem[m].value <= 0
  BY <1>2
<1>4. r.sem[i].value <= 1 /\ (k.sem[i].value < 0 => r.sem[i].value <= 0)
  BY <1>1, <1>2
<1>5. \A m \in Sems : r.sem[m].open_count > 0 => r.sem[m].value <= 1
  BY <1>1, <1>3, <1>4
<1>6. \A j, m \in Sems : /\ r.sem[j].open_count > 0 /\ r.sem[j].value > 0
                         /\ r.sem[m].open_count > 0 /\ r.sem[m].value > 0
                         => j = m
  <2>1. \A m \in Sems : r.sem[m].open_count > 0 /\ r.sem[m].value > 0 => m = i
    BY <1>1, <1>3
  <2> QED BY <2>1
<1>7. \A x, y \in Procs : In(r, d, x) /\ In(r, d, y) => x = y
  OBVIOUS
<1>8. \A x \in Procs, m \in Sems :
        In(r, d, x) /\ r.sem[m].open_count > 0 => r.sem[m].value <= 0
  BY <1>3, <1>4
<1> QED BY ONLY <1>5, <1>6, <1>7, <1>8 DEF TokenOK

\* A participant posts: the token goes to the other side.
LEMMA PostMInv ==
  ASSUME NEW k, NEW c, MInv(k, c), NEW p \in Procs, k.st[p] = "READY", c[p] = "post",
         NEW i \in Sems, Is(k, i, Posts(p)),
         NEW r, r = sem_post(k, p, i), NEW d, d = [c EXCEPT ![p] = "idle"]
  PROVE  MInv(r, d)
<1> DEFINE s == k.sem[i]
<1>1. /\ SemInv(k) /\ k \in SemKernel /\ NamesOK(k) /\ k.susp = {} /\ TokenOK(k, c)
      /\ c \in [Procs -> Points] /\ \A x \in Procs : ParticipantOK(k, c, x)
  BY DEF MInv, SemInv
<1>2. i \in k.opened[p] /\ s.open_count > 0 /\ s \in Semaphores /\ s.value \in Int
  BY <1>1, OwnSlot, MVarNames, KernelFields, SemFields DEF Is
<1>3. SemInv(r)
  <2>1. Usage # "lock"
    BY MVarAssumption
  <2> QED BY <1>1, <1>2, <2>1, PostInv
<1>4. PostStep(k, r, p, i, s)
  BY <1>1, PostEffect
<1>5. /\ NamesKept(k, r) /\ r.susp = {} /\ r.opened = k.opened
      /\ \A m \in Sems \ {i} : r.sem[m] = k.sem[m]
      /\ r.sem[i].value = k.sem[i].value + 1
      /\ r.sem[i].wait_queue = IF hands_over(s) THEN queue_pop(s.wait_queue) ELSE s.wait_queue
  <2>1. r.sem[i] = increment(s) /\ r.susp = {} /\ r.opened = k.opened
        /\ \A m \in Sems \ {i} : r.sem[m] = k.sem[m]
    BY <1>1, <1>4, KernelFields DEF PostStep
  <2> HIDE DEF s
  <2>2. /\ r.sem[i].value = s.value + 1 /\ r.sem[i].open_count = s.open_count
        /\ r.sem[i].name = s.name
        /\ r.sem[i].wait_queue = IF hands_over(s) THEN queue_pop(s.wait_queue) ELSE s.wait_queue
    BY <1>2, <2>1, Increment
  <2> QED BY <2>1, <2>2 DEF NamesKept, s
<1>6. /\ k.held[p] \ {i} = k.held[p]
      /\ k.held \in [Procs -> SUBSET Sems] /\ k.st \in [Procs -> {"READY", "BLOCKED", "DEAD"}]
  <2>1. i \notin k.held[p]
    BY <1>1, MVarNames DEF ParticipantOK, Is
  <2> QED BY <1>1, <2>1, KernelFields
<1>7. /\ d \in [Procs -> Points] /\ d[p] = "idle" /\ \A x \in Procs \ {p} : d[x] = c[x]
      /\ In(k, c, p) /\ ~In(r, d, p) /\ \A x \in Procs \ {p} : ~In(k, c, x)
  <2>1. d \in [Procs -> Points] /\ d[p] = "idle" /\ \A x \in Procs \ {p} : d[x] = c[x]
    BY <1>1 DEF Points
  <2>2. In(k, c, p) /\ ~In(r, d, p)
    BY <2>1 DEF In
  <2> QED BY <1>1, <2>1, <2>2 DEF TokenOK
<1>8. /\ r.held[p] = k.held[p] /\ r.st[p] = k.st[p]
      /\ \A x \in Procs, m \in Sems : Sleeps(r, x, m) => Sleeps(k, x, m)
      /\ \/ \A x \in Procs \ {p} : r.st[x] = k.st[x] /\ r.held[x] = k.held[x]
         \/ \E y \in Procs :
              /\ k.sem[i].value < 0 /\ y # p /\ Sleeps(k, y, i)
              /\ k.st[y] = "BLOCKED" /\ r.st[y] = "READY" /\ r.held[y] = k.held[y] \cup {i}
              /\ \A x \in Procs \ {p, y} : r.st[x] = k.st[x] /\ r.held[x] = k.held[x]
  <2>1. \A x \in Procs, m \in Sems \ {i} : Sleeps(r, x, m) => Sleeps(k, x, m)
    BY <1>5 DEF Sleeps
  <2>2. CASE ~hands_over(s)
    <3>1. r.st = k.st /\ r.held = [k.held EXCEPT ![p] = @ \ {i}]
      BY <1>4, <2>2 DEF PostStep
    <3>2. \A x \in Procs : Sleeps(r, x, i) => Sleeps(k, x, i)
      BY <1>5, <2>2 DEF Sleeps
    <3>3. \A x \in Procs : r.held[x] = k.held[x]
      BY <1>6, <3>1
    <3> QED BY <2>1, <3>1, <3>2, <3>3
  <2>3. CASE hands_over(s)
    <3> DEFINE y == Head(s.wait_queue)
               q == s.wait_queue
    <3>1. s.value < 0 /\ Len(q) > 0 /\ q \in Seq(Procs) /\ Injective(q)
      BY <1>1, <1>2, <2>3, SemFields DEF hands_over, SemInv, QueuesOK
    <3>2. /\ y \in Procs /\ InQueue(q, y)
          /\ \A x \in Procs : InQueue(queue_pop(q), x) => InQueue(q, x)
      <4> HIDE DEF q
      <4> QED BY <3>1, QueuePop DEF q
    <3>3. Sleeps(k, y, i) /\ \A x \in Procs : Sleeps(r, x, i) => Sleeps(k, x, i)
      BY <1>5, <2>3, <3>2 DEF Sleeps
    <3>4. k.st[y] = "BLOCKED" /\ y # p
      BY <1>1, <3>2, <3>3 DEF SemInv, SleepersOK
    <3>5. /\ r.st = [k.st EXCEPT ![y] = IF @ = "BLOCKED" THEN "READY" ELSE @]
          /\ r.held = [[k.held EXCEPT ![p] = @ \ {i}] EXCEPT ![y] = @ \cup {i}]
      BY <1>4, <2>3, <3>4 DEF PostStep
    <3> HIDE DEF y
    <3>6. /\ r.held[p] = k.held[p] /\ r.st[p] = k.st[p] /\ r.st[y] = "READY"
          /\ r.held[y] = k.held[y] \cup {i}
          /\ \A x \in Procs \ {p, y} : r.st[x] = k.st[x] /\ r.held[x] = k.held[x]
      BY <1>6, <3>2, <3>4, <3>5
    <3> QED BY <2>1, <3>1, <3>2, <3>3, <3>4, <3>6
  <2> QED BY <2>2, <2>3
<1> HIDE DEF s
<1>9. \/ \A x \in Procs : ~In(r, d, x)
      \/ k.sem[i].value < 0 /\ \E y \in Procs : \A x \in Procs : In(r, d, x) => x = y
  <2>1. \A x \in Procs \ {p} : r.st[x] = k.st[x] => ~In(r, d, x)
    BY <1>7 DEF In
  <2> QED BY <1>7, <1>8, <2>1
<1>10. TokenOK(r, d)
  <2>1. /\ \A m \in Sems : r.sem[m].open_count > 0 => k.sem[m].open_count > 0
        /\ \A m \in Sems \ {i} : r.sem[m].value = k.sem[m].value
        /\ k.sem[i].open_count > 0
    BY <1>2, <1>5 DEF NamesKept, s
  <2>2. r.sem[i].value = k.sem[i].value + 1 /\ In(k, c, p) /\ SemInv(k) /\ TokenOK(k, c)
    BY <1>1, <1>5, <1>7
  <2> QED BY <1>9, <2>1, <2>2, TokenReleased, ZenonT(60)
<1>11. ASSUME NEW x \in Procs \ {p} PROVE ParticipantOK(r, d, x)
  <2>1. /\ \/ r.st[x] = k.st[x]
           \/ k.st[x] = "BLOCKED" /\ r.st[x] = "READY" /\ r.held[x] # {}
        /\ \A m \in r.held[x] : m \in k.held[x] \/ (m \in Sems /\ Sleeps(k, x, m))
    BY <1>8
  <2> QED BY <1>1, <1>3, <1>5, <1>7, <1>8, <2>1, Bystander
<1>12. ParticipantOK(r, d, p)
  <2>1. /\ k.opened[p] \subseteq Sems
        /\ \A m \in k.opened[p] : \A n : Is(r, m, n) <=> Is(k, m, n)
        /\ Has(r, p, "e") /\ Has(r, p, "f")
    BY <1>1, <1>3, <1>5, StillIs DEF ParticipantOK
  <2>2. \A m \in Sems : ~Sleeps(r, p, m)
    BY <1>1, <1>8 DEF SemInv, SleepersOK
  <2>3. \A m \in r.held[p] : m \in r.opened[p] /\ Is(r, m, WaitsOn(p))
    BY <1>1, <1>5, <1>8, <2>1 DEF ParticipantOK
  <2> QED BY <1>7, <1>8, <2>1, <2>2, <2>3 DEF ParticipantOK, Points
<1>13. NamesOK(r)
  BY <1>1, <1>5, NamesStay
<1> QED BY <1>3, <1>5, <1>7, <1>10, <1>11, <1>12, <1>13 DEF MInv

\* A death opens nothing.
LEMMA DeathNames ==
  ASSUME NEW k, SemInv(k), NEW p \in Procs, k.susp = {}, NEW r, KillStep(k, r, p)
  PROVE  NamesKept(k, r) /\ r.susp = {}
<1>1. \A m \in Sems : r.sem[m] = clean_sem(k, p, m)
  BY DEF KillStep
<1>2. ASSUME NEW m \in Sems
      PROVE  /\ r.sem[m].name = k.sem[m].name
             /\ r.sem[m].open_count > 0 => k.sem[m].open_count > 0
  <2>1. /\ r.sem[m].name = k.sem[m].name
        /\ k.sem[m].open_count = 0 => r.sem[m] = k.sem[m]
    BY <1>1, CleanSem DEF SemInv
  <2>2. k.sem[m].open_count \in Nat
    BY OpenByOpeners
  <2> QED BY <2>1, <2>2
<1>3. r.susp = {}
  BY DEF KillStep
<1> QED BY <1>2, <1>3 DEF NamesKept

\* A participant that opens its semaphores dies: it holds nothing and waits for
\* nothing, so nothing but its references changes.
LEMMA EarlyMInv ==
  ASSUME NEW k, NEW c, MInv(k, c), NEW p \in Procs, k.st[p] # "DEAD",
         c[p] \in {"open_empty", "open_full"},
         NEW r, r = process_kill(k, p), NEW d, d = [c EXCEPT ![p] = "dead"]
  PROVE  MInv(r, d) /\ (Full(r, d) => Full(k, c))
<1>1. /\ SemInv(k) /\ k \in SemKernel /\ NamesOK(k) /\ k.susp = {} /\ TokenOK(k, c)
      /\ c \in [Procs -> Points] /\ \A x \in Procs : ParticipantOK(k, c, x)
  BY DEF MInv, SemInv
<1>2. SemInv(r) /\ KillStep(k, r, p)
  BY <1>1, KillInv, KillEffect
<1>3. NamesKept(k, r) /\ r.susp = {}
  BY <1>1, <1>2, DeathNames
<1>4. k.held[p] = {} /\ \A m \in Sems : ~Sleeps(k, p, m)
  BY <1>1 DEF ParticipantOK, SemInv, SleepersOK
<1>5. \A x \in Procs : inherited(k, p, x) = {}
  BY <1>4 DEF inherited, Holds
<1>6. /\ \A x \in Procs, m \in Sems : Sleeps(r, x, m) => Sleeps(k, x, m)
      /\ \A x \in Procs \ {p} : /\ r.opened[x] = k.opened[x] /\ r.held[x] = k.held[x]
                               /\ r.st[x] = k.st[x]
      /\ r.opened[p] = {} /\ r.held[p] = {} /\ r.st[p] = "DEAD"
      /\ \A m \in Sems : ~Sleeps(r, p, m)
  <2> DEFINE got(x) == inherited(k, p, x)
  <2>1. /\ \A x \in Procs, m \in Sems : Sleeps(r, x, m) => Sleeps(k, x, m) /\ x # p
        /\ \A x \in Procs \ {p} :
             /\ r.opened[x] = k.opened[x] /\ r.held[x] = k.held[x] \cup got(x)
             /\ got(x) = {} => r.st[x] = k.st[x]
        /\ r.opened[p] = {} /\ r.held[p] = {} /\ r.st[p] = "DEAD"
    BY <1>1, DeathEffect
  <2>2. \A x \in Procs : got(x) = {}
    BY <1>5
  <2> HIDE DEF got
  <2> QED BY <2>1, <2>2
<1>7. \A m \in Sems : r.sem[m].value = k.sem[m].value
  <2> SUFFICES ASSUME NEW m \in Sems PROVE r.sem[m].value = k.sem[m].value
    OBVIOUS
  <2>1. KillSlot(k, p, m, k.sem[m], r.sem[m])
    BY <1>1, DeathEffect
  <2>2. m \notin k.held[p] /\ ~InQueue(k.sem[m].wait_queue, p)
    BY <1>4 DEF Sleeps
  <2> QED BY <2>1, <2>2 DEF KillSlot
<1>8. /\ d \in [Procs -> Points] /\ d[p] = "dead" /\ \A x \in Procs \ {p} : d[x] = c[x]
      /\ \A x \in Procs : In(r, d, x) => In(k, c, x)
  BY <1>1, <1>6 DEF Points, In
<1>9. TokenOK(r, d)
  BY <1>1, <1>3, <1>7, <1>8 DEF TokenOK, NamesKept
<1>10. ASSUME NEW x \in Procs \ {p} PROVE ParticipantOK(r, d, x)
  <2>1. In(k, c, x) => r.held[x] # {}
    BY <1>1, <1>6 DEF ParticipantOK
  <2> QED BY <1>1, <1>2, <1>3, <1>6, <1>8, <2>1, Bystander
<1>11. ParticipantOK(r, d, p)
  BY <1>6, <1>8 DEF ParticipantOK, Points, In
<1>12. NamesOK(r)
  BY <1>1, <1>3, NamesStay
<1>13. Full(r, d) => Full(k, c)
  <2>1. /\ \A m \in Sems : Is(r, m, "f") /\ r.sem[m].value > 0
                            => Is(k, m, "f") /\ k.sem[m].value > 0
        /\ \A x \in Procs : d[x] = "post" => c[x] = "post"
        /\ Readers \subseteq Procs
    BY <1>3, <1>7, <1>8, MVarAssumption DEF NamesKept, Is
  <2> QED BY <1>8, <2>1 DEF Full
<1> QED BY <1>2, <1>3, <1>8, <1>9, <1>10, <1>11, <1>12, <1>13 DEF MInv

\* A participant is killed between its sem_wait and its sem_post: asleep, it gives
\* its place in the queue back; past sem_wait, its token.
LEMMA KillMInv ==
  ASSUME NEW k, NEW c, MInv(k, c), NEW p \in Procs, k.st[p] # "DEAD",
         c[p] \in {"access", "post"},
         NEW r, r = process_kill(k, p), NEW d, d = [c EXCEPT ![p] = "dead"]
  PROVE  MInv(r, d) /\ (Full(r, d) => Full(k, c))
<1> DEFINE got(x) == inherited(k, p, x)
<1>1. /\ SemInv(k) /\ k \in SemKernel /\ NamesOK(k) /\ k.susp = {} /\ TokenOK(k, c)
      /\ c \in [Procs -> Points] /\ \A x \in Procs : ParticipantOK(k, c, x)
  BY DEF MInv, SemInv
<1>2. SemInv(r) /\ KillStep(k, r, p)
  BY <1>1, KillInv, KillEffect
<1>3. /\ \A x \in Procs, m \in Sems : Sleeps(r, x, m) => Sleeps(k, x, m) /\ x # p
      /\ \A x \in Procs \ {p} :
           /\ r.opened[x] = k.opened[x] /\ r.held[x] = k.held[x] \cup got(x)
           /\ \A m \in got(x) : m \in Sems /\ Sleeps(k, x, m)
           /\ got(x) # {} => r.st[x] = "READY" /\ k.st[x] = "BLOCKED"
           /\ got(x) = {} => r.st[x] = k.st[x]
      /\ r.opened[p] = {} /\ r.held[p] = {} /\ r.st[p] = "DEAD"
      /\ \A m \in Sems : KillSlot(k, p, m, k.sem[m], r.sem[m])
  BY <1>1, DeathEffect
<1>4. NamesKept(k, r) /\ r.susp = {}
  BY <1>1, <1>2, DeathNames
<1> HIDE DEF got
<1>5. /\ d \in [Procs -> Points] /\ d[p] = "dead" /\ \A x \in Procs \ {p} : d[x] = c[x]
      /\ ~In(r, d, p)
      /\ \A x \in Procs \ {p} : r.st[x] = k.st[x] => (In(r, d, x) <=> In(k, c, x))
  BY <1>1 DEF Points, In
<1>6. PICK i \in Sems : Is(k, i, WaitsOn(p)) /\ i \in k.opened[p]
  <2>1. Has(k, p, WaitsOn(p)) /\ k.opened[p] \subseteq Sems
    BY <1>1, MVarNames, KernelFields DEF ParticipantOK
  <2> QED BY <2>1 DEF Has
<1>7. /\ \A m \in k.held[p] : m = i
      /\ \A m \in Sems : Sleeps(k, p, m) => m = i
      /\ k.sem[i].open_count > 0
  <2>1. \A m \in Sems : Is(k, m, WaitsOn(p)) => m = i
    BY <1>1, <1>6, MVarNames DEF NamesOK
  <2>2. k.held[p] \subseteq Sems
    BY <1>1, KernelFields
  <2> QED BY <1>1, <1>6, <2>1, <2>2 DEF ParticipantOK, Is
<1>8. \A m \in Sems \ {i} : r.sem[m].value = k.sem[m].value /\ \A x \in Procs : m \notin got(x)
  <2> SUFFICES ASSUME NEW m \in Sems \ {i}
               PROVE  r.sem[m].value = k.sem[m].value /\ \A x \in Procs : m \notin got(x)
    OBVIOUS
  <2>1. m \notin k.held[p] /\ ~InQueue(k.sem[m].wait_queue, p)
    BY <1>7 DEF Sleeps
  <2> QED BY <1>3, <2>1 DEF KillSlot, got
<1>9. TokenOK(r, d)
  <2>1. \A m \in Sems : r.sem[m].open_count > 0 => k.sem[m].open_count > 0
    BY <1>4 DEF NamesKept
  <2>2. \A m \in Sems \ {i} : r.sem[m].value = k.sem[m].value
    BY <1>8
  <2>3. CASE k.st[p] = "READY"
    <3>1. In(k, c, p) /\ i \in k.held[p] /\ \A m \in Sems : ~Sleeps(k, p, m)
      BY <1>1, <1>7, <2>3 DEF In, ParticipantOK, SemInv, SleepersOK
    <3>2. \A x \in Procs \ {p} : ~In(k, c, x)
      BY <1>1, <3>1 DEF TokenOK
    <3>3. KillSlot(k, p, i, k.sem[i], r.sem[i]) /\ ~InQueue(k.sem[i].wait_queue, p)
      BY <1>3, <3>1 DEF Sleeps
    <3>4. r.sem[i].value = k.sem[i].value + 1
      BY <1>7, <3>1, <3>3, OpenByOpeners DEF KillSlot
    <3>5. \/ \A x \in Procs : i \notin got(x)
          \/ \E y \in Procs : /\ InQueue(k.sem[i].wait_queue, y)
                              /\ \A x \in Procs : i \in got(x) <=> x = y
      BY <3>3 DEF KillSlot, got
    <3>6. \A x \in Procs \ {p} : got(x) # {} => i \in got(x)
      BY <1>3, <1>8
    <3>7. CASE \A x \in Procs : i \notin got(x)
      <4>1. \A x \in Procs : ~In(r, d, x)
        BY <1>3, <1>5, <3>2, <3>6, <3>7
      <4> QED BY <1>1, <1>7, <2>1, <2>2, <3>1, <3>4, <4>1, TokenReleased, ZenonT(60)
    <3>8. ASSUME NEW y \in Procs, InQueue(k.sem[i].wait_queue, y),
                 \A x \in Procs : i \in got(x) <=> x = y
          PROVE  TokenOK(r, d)
      <4>1. \A x \in Procs : In(r, d, x) => x = y
        BY <1>3, <1>5, <3>2, <3>6, <3>8
      <4>2. k.sem[i].value < 0
        <5>1. /\ k.sem[i].wait_queue \in Seq(Procs) /\ k.sem[i].value \in Int
              /\ Len(k.sem[i].wait_queue) = Debt(k.sem[i])
          BY <1>1, <1>7, KernelFields, SemFields DEF SemInv, DebtOK
        <5>2. Len(k.sem[i].wait_queue) # 0
          BY <3>8, <5>1 DEF InQueue
        <5> QED BY <5>1, <5>2 DEF Debt
      <4> QED BY <1>1, <1>7, <2>1, <2>2, <3>1, <3>4, <4>1, <4>2, TokenReleased, ZenonT(60)
    <3> QED BY <3>5, <3>7, <3>8
  <2>4. CASE k.st[p] = "BLOCKED"
    <3>1. Sleeps(k, p, i)
      BY <1>1, <1>7, <2>4 DEF SemInv, SleepersOK
    <3>2. /\ KillSlot(k, p, i, k.sem[i], r.sem[i])
          /\ r.sem[i].value = k.sem[i].value + 1 /\ \A x \in Procs : i \notin got(x)
      <4>1. KillSlot(k, p, i, k.sem[i], r.sem[i]) /\ InQueue(k.sem[i].wait_queue, p)
        BY <1>3, <3>1 DEF Sleeps
      <4>2. r.sem[i].value = k.sem[i].value + 1
        <5>1. r.sem[i] = clean_sem(k, p, i)
          BY <1>2 DEF KillStep
        <5> QED BY <1>1, <1>7, <4>1, <5>1, CleanSem
      <4>3. \A x \in Procs : i \notin got(x)
        BY <4>1 DEF got, inherited, Holds
      <4> QED BY <4>1, <4>2, <4>3
    <3>3. k.sem[i].value < 0 /\ k.sem[i].value \in Int
      <4>1. /\ k.sem[i].wait_queue \in Seq(Procs) /\ k.sem[i].value \in Int
            /\ Len(k.sem[i].wait_queue) = Debt(k.sem[i])
        BY <1>1, <1>7, KernelFields, SemFields DEF SemInv, DebtOK
      <4>2. Len(k.sem[i].wait_queue) # 0
        BY <3>1, <4>1 DEF Sleeps, InQueue
      <4> QED BY <4>1, <4>2 DEF Debt
    <3>4. r.sem[i].value <= 0 /\ r.sem[i].value <= 1 /\ ~(r.sem[i].value > 0)
      BY <3>2, <3>3
    <3>5. \A x \in Procs : In(r, d, x) => In(k, c, x)
      <4>1. \A x \in Procs \ {p} : got(x) = {}
        BY <1>3, <1>8, <3>2
      <4> QED BY <1>3, <1>5, <4>1
    <3>6. \A m \in Sems : r.sem[m].open_count > 0 => r.sem[m].value <= 1
      BY <1>1, <2>1, <2>2, <3>4 DEF TokenOK
    <3>7. \A j, m \in Sems : /\ r.sem[j].open_count > 0 /\ r.sem[j].value > 0
                             /\ r.sem[m].open_count > 0 /\ r.sem[m].value > 0
                             => j = m
      <4>1. \A m \in Sems : r.sem[m].value > 0 => k.sem[m].value > 0
        BY <2>2, <3>4
      <4> QED BY <1>1, <2>1, <4>1 DEF TokenOK
    <3>8. \A x, y \in Procs : In(r, d, x) /\ In(r, d, y) => x = y
      BY <1>1, <3>5 DEF TokenOK
    <3>9. \A x \in Procs, m \in Sems :
            In(r, d, x) /\ r.sem[m].open_count > 0 => r.sem[m].value <= 0
      BY <1>1, <2>1, <2>2, <3>4, <3>5 DEF TokenOK
    <3> QED BY ONLY <3>6, <3>7, <3>8, <3>9 DEF TokenOK
  <2> QED BY <1>1, <2>3, <2>4, KernelFields
<1>10. ASSUME NEW x \in Procs \ {p} PROVE ParticipantOK(r, d, x)
  <2>1. /\ \/ r.st[x] = k.st[x]
           \/ k.st[x] = "BLOCKED" /\ r.st[x] = "READY" /\ r.held[x] # {}
        /\ \A m \in r.held[x] : m \in k.held[x] \/ (m \in Sems /\ Sleeps(k, x, m))
    BY <1>3
  <2>2. In(k, c, x) => r.held[x] # {}
    BY <1>1, <1>3 DEF ParticipantOK
  <2> QED BY <1>1, <1>2, <1>3, <1>4, <1>5, <2>1, <2>2, Bystander
<1>11. ParticipantOK(r, d, p)
  BY <1>3, <1>5 DEF ParticipantOK, Points
<1>12. NamesOK(r)
  BY <1>1, <1>4, NamesStay
<1>13. Full(r, d) => Full(k, c)
  <2> SUFFICES ASSUME ~Full(k, c) PROVE ~Full(r, d)
    OBVIOUS
  <2>1. \A x \in Procs : d[x] # "post"
    BY <1>5 DEF Full
  <2>2. /\ c[p] = "access" /\ Readers \subseteq Procs
        /\ \A m \in Sems : Is(k, m, "f") => ~(k.sem[m].value > 0)
        /\ \A x \in Readers : ~In(k, c, x)
        /\ k.st[p] = "READY" => p \in Writers
    BY MVarAssumption DEF Full, In
  <2>3. \A x \in Readers : ~In(r, d, x)
    <3> SUFFICES ASSUME NEW x \in Readers, In(r, d, x) PROVE FALSE
      OBVIOUS
    <3>1. x \in Procs \ {p} /\ got(x) # {}
      BY <1>3, <1>5, <2>2
    <3>2. i \in got(x)
      BY <1>3, <1>8, <3>1
    <3>3. Is(k, i, "f")
      BY <1>1, <1>3, <3>1, <3>2, MVarAssumption DEF ParticipantOK, WaitsOn
    <3>4. ~Sleeps(k, p, i)
      BY <3>2 DEF got, inherited, Holds, Sleeps
    <3>5. k.st[p] = "READY"
      BY <1>1, <1>7, <3>4, KernelFields DEF SemInv, SleepersOK
    <3> QED BY <1>6, <2>2, <3>3, <3>5 DEF Is, WaitsOn
  <2>4. \A m \in Sems : Is(r, m, "f") => ~(r.sem[m].value > 0)
    <3> SUFFICES ASSUME NEW m \in Sems, Is(r, m, "f") PROVE ~(r.sem[m].value > 0)
      OBVIOUS
    <3>1. Is(k, m, "f") /\ ~(k.sem[m].value > 0)
      BY <1>4, <2>2 DEF NamesKept, Is
    <3>2. CASE m # i
      BY <1>8, <3>1, <3>2
    <3>3. CASE m = i
      <4>1. k.st[p] = "BLOCKED"
        BY <1>1, <1>6, <2>2, <3>1, <3>3, KernelFields DEF Is, WaitsOn
      <4>2. \E j \in Sems : Sleeps(k, p, j)
        BY <1>1, <4>1 DEF SemInv, SleepersOK
      <4>3. Sleeps(k, p, i)
        BY <1>7, <4>2
      <4>4. /\ k.sem[i].wait_queue \in Seq(Procs) /\ k.sem[i].value \in Int
            /\ Len(k.sem[i].wait_queue) = Debt(k.sem[i])
        BY <1>1, <1>7, KernelFields, SemFields DEF SemInv, DebtOK
      <4>5. Len(k.sem[i].wait_queue) # 0
        BY <4>3, <4>4 DEF Sleeps, InQueue
      <4>6. k.sem[i].value < 0
        BY <4>4, <4>5 DEF Debt
      <4>7. r.sem[i].value = k.sem[i].value \/ r.sem[i].value = k.sem[i].value + 1
        BY <1>3 DEF KillSlot
      <4> QED BY <3>3, <4>4, <4>6, <4>7
    <3> QED BY <3>2, <3>3
  <2> QED BY <2>1, <2>2, <2>3, <2>4 DEF Full
<1> QED BY <1>2, <1>4, <1>5, <1>9, <1>10, <1>11, <1>12, <1>13 DEF MInv

\* A participant past its sem_wait touches the value.
LEMMA AccessMInv ==
  ASSUME NEW k, NEW c, MInv(k, c), NEW p \in Procs, k.st[p] = "READY", c[p] = "access",
         NEW d, d = [c EXCEPT ![p] = "post"]
  PROVE  MInv(k, d) /\ In(k, c, p)
<1>1. /\ c \in [Procs -> Points] /\ TokenOK(k, c)
      /\ \A x \in Procs : ParticipantOK(k, c, x)
  BY DEF MInv
<1>2. /\ d \in [Procs -> Points] /\ d[p] = "post" /\ \A x \in Procs \ {p} : d[x] = c[x]
  BY <1>1 DEF Points
<1>3. In(k, c, p) /\ \A x \in Procs : In(k, d, x) <=> In(k, c, x)
  BY <1>2 DEF In
<1>4. TokenOK(k, d)
  <2>1. \A x, y \in Procs : In(k, d, x) /\ In(k, d, y) => x = y
    BY <1>1, <1>3 DEF TokenOK
  <2>2. \A x \in Procs, i \in Sems :
          In(k, d, x) /\ k.sem[i].open_count > 0 => k.sem[i].value <= 0
    BY <1>1, <1>3 DEF TokenOK
  <2> QED BY <1>1, <2>1, <2>2 DEF TokenOK
<1>5. \A x \in Procs : ParticipantOK(k, d, x)
  BY <1>1, <1>2, <1>3 DEF ParticipantOK
<1> QED BY <1>2, <1>3, <1>4, <1>5 DEF MInv

(***************************************************************************)
(* The specification                                                       *)
(***************************************************************************)
\* Before anybody has opened anything there is no token.
LEMMA InitMInv == MVarInit => MVarInv /\ ~Full(SemState, pc)
<1> SUFFICES ASSUME MVarInit PROVE MVarInv /\ ~Full(SemState, pc)
  OBVIOUS
<1> DEFINE k == SemState
<1>1. SemInv(k)
  BY InitInv DEF MVarInit
<1>2. /\ \A i \in Sems : k.sem[i].open_count = 0 /\ k.sem[i].wait_queue = <<>>
      /\ \A x \in Procs : /\ k.held[x] = {} /\ k.opened[x] = {} /\ k.st[x] = "READY"
                          /\ pc[x] = "open_empty"
      /\ k.susp = {} /\ value = NUL /\ pc \in [Procs -> Points]
  <2>1. FreeSem.open_count = 0 /\ FreeSem.wait_queue = <<>>
    BY DEF FreeSem
  <2> QED BY <2>1, StateFields DEF MVarInit, SemInit, Points
<1> HIDE DEF k
<1>3. /\ \A i \in Sems : \A n : ~Is(k, i, n) /\ ~(k.sem[i].open_count > 0)
      /\ \A x \in Procs : ~In(k, pc, x) /\ pc[x] # "post"
      /\ \A x \in Procs, i \in Sems : ~Sleeps(k, x, i)
  BY <1>2 DEF Is, In, Sleeps, InQueue
<1>4. NamesOK(k) /\ TokenOK(k, pc)
  BY <1>3 DEF NamesOK, TokenOK
<1>5. \A x \in Procs : ParticipantOK(k, pc, x)
  BY <1>2, <1>3 DEF ParticipantOK, Points, Has
<1>6. ~Full(k, pc)
  BY <1>3, MVarAssumption DEF Full
<1>7. MInv(k, pc)
  BY <1>1, <1>2, <1>4, <1>5 DEF MInv
<1> QED BY <1>2, <1>6, <1>7 DEF MVarInv, k

\* What a step does to the value: a writer alone changes it, when it is past its
\* sem_wait; no other step makes a value appear.
Moves(p) == \/ value' = value /\ (Full(SemState', pc') => Full(SemState, pc))
            \/ /\ p \in Writers /\ value' = p /\ pc[p] = "access" /\ pc'[p] = "post"
               /\ In(SemState, pc, p)

\* Every step of a participant keeps the invariant on the kernel and the token.
LEMMA StepMInv ==
  ASSUME MInv(SemState, pc), NEW p \in Procs, Step(p) \/ open_fails(p) \/ kill(p),
         "idle" \notin Killable
  PROVE  MInv(SemState', pc') /\ Moves(p)
<1> DEFINE k == SemState
<1>1. /\ MInv(k, pc) /\ SemInv(k) /\ k \in SemKernel /\ NamesOK(k) /\ pc \in [Procs -> Points]
      /\ k.st = state
  BY StateFields DEF MInv, SemInv
<1>2. \A r : MInv(r, pc') => r \in SemKernel
  BY DEF MInv, SemInv
<1>3. \A n \in Names : Slot(n) # NULL => Slot(n) \in Sems /\ Is(k, Slot(n), n)
  BY <1>1, FoundSlot DEF Slot, Is
<1>4. CASE open_empty(p) \/ open_full(p)
  <2> SUFFICES ASSUME NEW n, NEW v, NEW to,
                      \/ n = "e" /\ v = 1 /\ pc[p] = "open_empty" /\ to = "open_full"
                      \/ n = "f" /\ v = 0 /\ pc[p] = "open_full" /\ to = "idle",
                      pc' = [pc EXCEPT ![p] = to], sys_sem_open(p, n, v), value' = value
               PROVE  MInv(SemState', pc') /\ Moves(p)
    BY <1>4 DEF open_empty, open_full, Goto
  <2> DEFINE r == sem_open(k, p, n, v)
  <2>1. k.st[p] = "READY" /\ InstallSem(r)
    BY <1>1 DEF sys_sem_open
  <2> HIDE DEF k, r
  <2>2. MInv(r, pc') /\ (Full(r, pc') => Full(k, pc))
    BY <1>1, <2>1, OpenMInv DEF r
  <2>3. SemState' = r
    BY <1>2, <2>1, <2>2, Installed
  <2> QED BY <2>2, <2>3 DEF Moves, k
<1>5. CASE wait(p)
  <2> DEFINE i == Slot(WaitsOn(p))
             r == sem_wait(k, p, i)
  <2>1. /\ k.st[p] = "READY" /\ InstallSem(r) /\ pc[p] = "idle" /\ value' = value
        /\ pc' = [pc EXCEPT ![p] = "access"] /\ i # NULL
    BY <1>1, <1>5 DEF wait, Goto, sys_sem_wait
  <2>2. i \in Sems /\ Is(k, i, WaitsOn(p))
    BY <1>3, <2>1, MVarNames
  <2> HIDE DEF k, r, i
  <2>3. MInv(r, pc') /\ (Full(r, pc') => Full(k, pc))
    BY <1>1, <2>1, <2>2, WaitMInv DEF r
  <2>4. SemState' = r
    BY <1>2, <2>1, <2>3, Installed
  <2> QED BY <2>1, <2>3, <2>4 DEF Moves, k
<1>6. CASE access(p)
  <2>1. /\ pc[p] = "access" /\ k.st[p] = "READY" /\ pc' = [pc EXCEPT ![p] = "post"]
        /\ value' = IF p \in Writers THEN p ELSE value
        /\ SemState' = k
    BY <1>1, <1>6 DEF access, Goto, semVars, SemState
  <2> HIDE DEF k
  <2>2. MInv(k, pc') /\ In(k, pc, p)
    BY <1>1, <2>1, AccessMInv
  <2>3. p \notin Writers => Full(k, pc)
    BY <2>2, MVarAssumption DEF Full
  <2>4. pc'[p] = "post"
    BY <1>1, <2>1
  <2>5. Moves(p)
    BY <2>1, <2>2, <2>3, <2>4 DEF Moves, k
  <2> QED BY <2>1, <2>2, <2>5
<1>7. CASE post(p)
  <2> DEFINE i == Slot(Posts(p))
             r == sem_post(k, p, i)
  <2>1. /\ k.st[p] = "READY" /\ InstallSem(r) /\ pc[p] = "post" /\ value' = value
        /\ pc' = [pc EXCEPT ![p] = "idle"] /\ i # NULL
    BY <1>1, <1>7 DEF post, Goto, sys_sem_post
  <2>2. i \in Sems /\ Is(k, i, Posts(p))
    BY <1>3, <2>1, MVarNames
  <2> HIDE DEF k, r, i
  <2>3. MInv(r, pc')
    BY <1>1, <2>1, <2>2, PostMInv DEF r
  <2>4. SemState' = r
    BY <1>2, <2>1, <2>3, Installed
  <2>5. Full(k, pc)
    BY <2>1 DEF Full
  <2> QED BY <2>1, <2>3, <2>4, <2>5 DEF Moves, k
<1>8. CASE open_fails(p) \/ kill(p)
  <2> DEFINE r == process_kill(k, p)
  <2>1. /\ k.st[p] # "DEAD" /\ InstallSem(r) /\ value' = value
        /\ pc' = [pc EXCEPT ![p] = "dead"]
        /\ pc[p] \in {"open_empty", "open_full", "access", "post"}
    BY <1>1, <1>8, MVarAssumption DEF open_fails, kill, Goto, Die
  <2> HIDE DEF k, r
  <2>2. MInv(r, pc') /\ (Full(r, pc') => Full(k, pc))
    BY <1>1, <2>1, EarlyMInv, KillMInv DEF r
  <2>3. SemState' = r
    BY <1>2, <2>1, <2>2, Installed
  <2> QED BY <2>1, <2>2, <2>3 DEF Moves, k
<1> QED BY <1>4, <1>5, <1>6, <1>7, <1>8 DEF Step

\* MVarInv is inductive.
LEMMA NextMVarInv ==
  ASSUME MVarInv, [MVarNext]_mvarVars, "idle" \notin Killable
  PROVE  MVarInv'
<1>1. CASE MVarNext
  <2>1. PICK p \in Procs : Step(p) \/ open_fails(p) \/ kill(p)
    BY <1>1 DEF MVarNext
  <2>2. MInv(SemState', pc') /\ Moves(p)
    BY <2>1, StepMInv DEF MVarInv
  <2>3. /\ value' \in Writers \cup {NUL}
        /\ Full(SemState', pc') => value' \in Writers
    BY <2>2 DEF MVarInv, Moves
  <2> QED BY <2>2, <2>3 DEF MVarInv
<1>2. CASE UNCHANGED mvarVars
  <2>1. SemState' = SemState /\ pc' = pc /\ value' = value
    BY <1>2 DEF mvarVars, semVars, SemState
  <2> QED BY <2>1 DEF MVarInv
<1> QED BY <1>1, <1>2

\* MVarInv is an invariant of the mvar command.
LEMMA SpecMVarInv ==
  ASSUME "idle" \notin Killable
  PROVE  MVarSpec => []MVarInv
<1>1. MVarInit => MVarInv
  BY InitMInv
<1>2. MVarInv /\ [MVarNext]_mvarVars => MVarInv'
  BY NextMVarInv
<1> QED BY <1>1, <1>2, PTL DEF MVarSpec

(***************************************************************************)
(* The properties                                                          *)
(***************************************************************************)
\* The protocol of mvar.c lets one process at a time touch the value, for any
\* number of writers and readers, as long as nobody is killed in its busy wait.
THEOREM MVarOneAtATime ==
  ASSUME "idle" \notin Killable
  PROVE  MVarSpec => []OneAtATime
<1>1. MVarInv => OneAtATime
  <2>1. \A p \in Procs : Accessing(p) <=> In(SemState, pc, p)
    BY StateFields DEF Accessing, In
  <2> QED BY <2>1 DEF MVarInv, MInv, TokenOK, OneAtATime
<1> QED BY <1>1, SpecMVarInv, PTL

\* Occupied in terms of the kernel state.
LEMMA OccupiedCases ==
  ASSUME MVarInv
  PROVE  /\ Occupied <=> \/ \E p \in Writers : pc[p] = "post"
                         \/ \E i \in Sems : Is(SemState, i, "f") /\ SemState.sem[i].value > 0
                         \/ \E p \in Readers : pc[p] = "access" /\ state[p] = "READY"
         /\ Occupied => Full(SemState, pc)
<1> DEFINE k == SemState
<1>1. SemInv(k) /\ NamesOK(k) /\ k \in SemKernel
  BY DEF MVarInv, MInv, SemInv
<1>2. k.sem = sem_table /\ k.st = state /\ Slot("f") = find_sem(k, "f")
  BY StateFields DEF Slot
<1> HIDE DEF k
<1>3. Slot("f") # NULL => Slot("f") \in Sems /\ Is(k, Slot("f"), "f")
  BY <1>1, <1>2, FoundSlot, MVarNames DEF Is
<1>4. \A i \in Sems : Is(k, i, "f") => Slot("f") = i /\ i # NULL
  BY <1>1, <1>2, FoundIs, MVarNames, SemaphoreAssumption DEF Sems, NULL
<1>5. Occupied <=> \/ \E p \in Writers : pc[p] = "post"
                   \/ \E i \in Sems : Is(k, i, "f") /\ k.sem[i].value > 0
                   \/ \E p \in Readers : pc[p] = "access" /\ state[p] = "READY"
  BY <1>2, <1>3, <1>4 DEF Occupied
<1>6. Occupied => Full(k, pc)
  BY <1>2, <1>5, MVarAssumption DEF Full, In
<1> QED BY <1>5, <1>6 DEF k

\* One step of the protocol is one step of the buffer, or none.
LEMMA BufferStep ==
  ASSUME MVarInv, MVarInv', [MVarNext]_mvarVars, "idle" \notin Killable
  PROVE  [Buffer!Next]_(IF Occupied THEN value ELSE Empty)
<1> DEFINE b == IF Occupied THEN value ELSE Empty
<1>1. /\ Occupied => value \in Writers /\ value # Empty
      /\ Occupied' => value' \in Writers /\ value' # Empty
  <2>1. Occupied => value \in Writers
    BY OccupiedCases DEF MVarInv
  <2>2. Occupied' => value' \in Writers
    <3>1. (Occupied => Full(SemState, pc))'
      BY OccupiedCases, PTL
    <3> QED BY <3>1 DEF MVarInv
  <2> QED BY <2>1, <2>2, MVarAssumption DEF Empty
<1>2. CASE value' = value
  BY <1>1, <1>2 DEF Buffer!Next, Buffer!Put, Buffer!Take
<1>3. CASE value' # value
  <2>1. PICK p \in Procs : Step(p) \/ open_fails(p) \/ kill(p)
    BY <1>3 DEF MVarNext, mvarVars
  <2>2. /\ p \in Writers /\ value' = p /\ pc[p] = "access" /\ pc'[p] = "post"
        /\ In(SemState, pc, p)
    BY <1>3, <2>1, StepMInv DEF MVarInv, Moves
  <2>3. Occupied'
    BY <2>2 DEF Occupied
  <2>4. ~Occupied
    <3>1. TokenOK(SemState, pc) /\ Writers \subseteq Procs /\ Readers \subseteq Procs /\ p \notin Readers
      BY <2>2, MVarAssumption DEF MVarInv, MInv
    <3>2. \A x \in Procs : In(SemState, pc, x) => x = p
      BY <2>2, <3>1 DEF TokenOK
    <3>3. \A x \in Procs : pc[x] # "post" /\ (pc[x] = "access" /\ state[x] = "READY" => x = p)
      BY <2>2, <3>2, StateFields DEF In
    <3>4. \A i \in Sems : Is(SemState, i, "f") => ~(SemState.sem[i].value > 0)
      <4>1. \A i \in Sems : SemState.sem[i].value \in Int
        BY OpenByOpeners DEF MVarInv, MInv
      <4> QED BY <2>2, <3>1, <4>1 DEF TokenOK, Is
    <3> QED BY <3>1, <3>3, <3>4, OccupiedCases
  <2> QED BY <2>2, <2>3, <2>4 DEF Buffer!Next, Buffer!Put
<1> QED BY <1>2, <1>3

\* The protocol over two semaphores implements the one-place buffer, for any
\* number of writers and readers: no value is overwritten before it is read.
THEOREM MVarImplementsBuffer ==
  ASSUME "idle" \notin Killable
  PROVE  MVarSpec => ImplementsBuffer
<1>1. MVarInit => Buffer!Init
  <2> SUFFICES ASSUME MVarInit PROVE ~Occupied
    BY DEF Buffer!Init
  <2> QED BY InitMInv, OccupiedCases
<1>2. MVarInv /\ MVarInv' /\ [MVarNext]_mvarVars
        => [Buffer!Next]_(IF Occupied THEN value ELSE Empty)
  BY BufferStep
<1> QED BY <1>1, <1>2, SpecMVarInv, PTL DEF MVarSpec, ImplementsBuffer, Buffer!Spec

=============================================================================
