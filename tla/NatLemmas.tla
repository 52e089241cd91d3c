---------------------------- MODULE NatLemmas ----------------------------
(***************************************************************************)
(* Least and greatest elements of sets of naturals, for the proofs about   *)
(* operators that pick one (Min, Max, CHOOSE).  The prover cannot apply    *)
(* the library's induction rules, so the least element comes from the      *)
(* well-foundedness of strict inclusion on finite sets.  Then what the     *)
(* functions on wait queues do.                                            *)
(***************************************************************************)
EXTENDS WaitQueue, FiniteSetsExt, FiniteSetTheorems, TLAPS

\* Every non-empty set of naturals has a least element: x is least when the
\* interval below x is minimal for inclusion.
LEMMA LeastNat ==
  ASSUME NEW S \in SUBSET Nat, S # {}
  PROVE  \E x \in S : \A y \in S : x <= y
<1> DEFINE Below == {0 .. (x - 1) : x \in S}
<1>1. Below \subseteq FiniteSubsetsOf(Nat)
  <2>1. ASSUME NEW x \in S
        PROVE  0 .. (x - 1) \in SUBSET Nat /\ IsFiniteSet(0 .. (x - 1))
    <3>1. x - 1 \in Int
      OBVIOUS
    <3> QED BY <3>1, FS_Interval
  <2> QED BY <2>1 DEF FiniteSubsetsOf
<1>2. Below # {}
  OBVIOUS
<1> HIDE DEF Below
<1>3. PICK D \in Below :
        \A E \in Below : ~(<<E, D>> \in StrictSubsetOrdering(Nat))
  BY <1>1, <1>2, FS_StrictSubsetOrderingWellFounded, WFMin
<1>4. PICK x \in S : D = 0 .. (x - 1)
  BY DEF Below
<1>5. ASSUME NEW y \in S, y < x PROVE FALSE
  <2> DEFINE E == 0 .. (y - 1)
  <2>1. E \in Below
    BY DEF Below
  <2>2. E \in SUBSET Nat /\ D \in SUBSET Nat /\ E \subseteq D
    BY <1>4, <1>5
  <2>3. y \in D /\ y \notin E
    BY <1>4, <1>5
  <2> HIDE DEF E
  <2>4. <<E, D>> \in StrictSubsetOrdering(Nat)
    BY <2>2, <2>3 DEF StrictSubsetOrdering
  <2> QED BY <1>3, <2>1, <2>4
<1> QED BY <1>5

\* Min picks the least element.
LEMMA MinOfNat ==
  ASSUME NEW S \in SUBSET Nat, S # {}
  PROVE  Min(S) \in S /\ \A y \in S : Min(S) <= y
BY LeastNat DEF Min

\* A non-empty bounded set of naturals has a greatest element ...
LEMMA GreatestNat ==
  ASSUME NEW S \in SUBSET Nat, S # {}, NEW n \in Nat, \A x \in S : x <= n
  PROVE  \E x \in S : \A y \in S : y <= x
<1> DEFINE T == {n - x : x \in S}
<1>1. T \in SUBSET Nat /\ T # {}
  <2>1. \A x \in S : n - x \in Nat
    OBVIOUS
  <2> QED BY <2>1
<1>2. PICK t \in T : \A u \in T : t <= u
  <2> HIDE DEF T
  <2> QED BY <1>1, LeastNat
<1>3. PICK x \in S : t = n - x
  OBVIOUS
<1>4. \A y \in S : n - x <= n - y
  BY <1>2, <1>3
<1> QED BY <1>4

\* ... and Max picks it.
LEMMA MaxOfNat ==
  ASSUME NEW S \in SUBSET Nat, S # {}, NEW n \in Nat, \A x \in S : x <= n
  PROVE  Max(S) \in S /\ \A y \in S : y <= Max(S)
BY GreatestNat DEF Max

(***************************************************************************)
(* Wait queues                                                             *)
(***************************************************************************)
Injective(q) == \A i, j \in 1 .. Len(q) : q[i] = q[j] => i = j

\* Every rank up to the size of a bounded set of naturals is taken: the least
\* bound with n elements of S up to it is itself in S.
LEMMA NthElement ==
  ASSUME NEW N \in Nat, NEW S \in SUBSET (1 .. N), NEW n \in 1 .. Cardinality(S)
  PROVE  /\ Nth(S, n) \in S
         /\ Cardinality({m \in S : m <= Nth(S, n)}) = n
<1> DEFINE Upto(x) == {m \in S : m <= x}
<1>1. IsFiniteSet(1 .. N)
  BY FS_Interval
<1>2. IsFiniteSet(S) /\ Cardinality(S) \in Nat
  BY <1>1, FS_Subset, FS_CardinalityType
<1>3. \A x \in Nat : IsFiniteSet(Upto(x)) /\ Cardinality(Upto(x)) \in Nat
  BY <1>2, FS_Subset, FS_CardinalityType
<1>4. S \subseteq Nat /\ \A m \in S : 1 <= m /\ m <= N
  OBVIOUS
<1>5. Upto(N) = S /\ Cardinality(Upto(0)) = 0
  <2>1. Upto(N) = S
    BY <1>4
  <2>2. \A m \in S : ~(m <= 0)
    BY <1>4
  <2>3. Upto(0) = {}
    BY <2>2
  <2> QED BY <2>1, <2>3, FS_EmptySet
<1> DEFINE C == {x \in Nat : Cardinality(Upto(x)) >= n}
<1>6. N \in C /\ C \in SUBSET Nat
  BY <1>2, <1>5
<1>7. PICK x \in C : \A y \in C : x <= y
  <2> HIDE DEF C
  <2> QED BY <1>6, LeastNat
<1>8. x \in Nat /\ x # 0 /\ x - 1 \in Nat /\ Cardinality(Upto(x)) >= n
  <2>1. x \in Nat /\ Cardinality(Upto(x)) >= n
    OBVIOUS
  <2>2. x # 0
    BY <1>5, <2>1
  <2> QED BY <2>1, <2>2
<1>9. Cardinality(Upto(x - 1)) < n /\ Cardinality(Upto(x - 1)) \in Nat
  <2>1. x - 1 \notin C
    <3> HIDE DEF C
    <3> QED BY <1>7, <1>8, <1>6
  <2>2. ~(Cardinality(Upto(x - 1)) >= n) /\ Cardinality(Upto(x - 1)) \in Nat
    BY <1>3, <1>8, <2>1
  <2> HIDE DEF Upto
  <2> QED BY <1>2, <2>2
<1>10. x \in S
  <2> SUFFICES ASSUME x \notin S PROVE FALSE
    OBVIOUS
  <2>0. \A m \in S : m <= x <=> m <= x - 1
    BY <1>4, <1>8
  <2>1. Upto(x) = Upto(x - 1)
    BY <2>0
  <2> QED BY <1>8, <1>9, <2>1, <1>2
<1>11. Cardinality(Upto(x)) = n
  <2>0. /\ \A m \in S : m <= x <=> m <= x - 1 \/ m = x
        /\ ~(x <= x - 1)
    BY <1>4, <1>8
  <2>1. Upto(x) = Upto(x - 1) \cup {x} /\ x \notin Upto(x - 1)
    BY <2>0, <1>10
  <2>2. IsFiniteSet(Upto(x - 1))
    BY <1>3, <1>8
  <2> HIDE DEF Upto
  <2>3. Cardinality(Upto(x)) = Cardinality(Upto(x - 1)) + 1
    BY <2>1, <2>2, FS_AddElement
  <2> QED BY <1>2, <1>8, <1>9, <2>3
<1> QED BY <1>10, <1>11 DEF Nth

\* The rank of an element is a position of the sorted set, and its own.
LEMMA Rank ==
  ASSUME NEW N \in Nat, NEW S \in SUBSET (1 .. N), NEW i \in S
  PROVE  /\ Cardinality({m \in S : m <= i}) \in 1 .. Cardinality(S)
         /\ Nth(S, Cardinality({m \in S : m <= i})) = i
<1> DEFINE Upto(x) == {m \in S : m <= x}
           n == Cardinality(Upto(i))
<1>1. IsFiniteSet(1 .. N)
  BY FS_Interval
<1>2. IsFiniteSet(S) /\ Cardinality(S) \in Nat
  BY <1>1, FS_Subset, FS_CardinalityType
<1>3. S \subseteq Nat /\ i \in Nat
  OBVIOUS
<1>4. \A x \in Nat : /\ IsFiniteSet(Upto(x)) /\ Cardinality(Upto(x)) \in Nat
                     /\ Cardinality(Upto(x)) <= Cardinality(S)
  BY <1>2, FS_Subset, FS_CardinalityType
<1>5. ASSUME NEW x \in S, NEW y \in S, x < y
      PROVE  Cardinality(Upto(x)) # Cardinality(Upto(y))
  <2>1. Upto(x) \subseteq Upto(y) /\ y \in Upto(y) /\ y \notin Upto(x)
    <3>1. ~(y <= x) /\ y <= y /\ \A m \in S : m <= x => m <= y
      BY <1>3, <1>5
    <3> QED BY <3>1
  <2>2. IsFiniteSet(Upto(y))
    BY <1>3, <1>4
  <2> HIDE DEF Upto
  <2> QED BY <2>1, <2>2, FS_Subset
<1>6. n \in 1 .. Cardinality(S)
  <2>1. i \in Upto(i)
    BY <1>3
  <2>2. n # 0
    BY <1>3, <1>4, <2>1, FS_EmptySet
  <2> QED BY <1>2, <1>3, <1>4, <2>2
<1>7. Nth(S, n) \in S /\ Cardinality(Upto(Nth(S, n))) = n
  <2> HIDE DEF n
  <2> QED BY <1>6, NthElement
<1>8. Nth(S, n) = i
  <2> DEFINE x == Nth(S, n)
  <2>1. x \in S /\ x \in Nat /\ Cardinality(Upto(x)) = Cardinality(Upto(i))
    BY <1>3, <1>7
  <2> HIDE DEF x, n, Upto
  <2>2. ~(x < i) /\ ~(i < x)
    BY <1>5, <2>1
  <2>3. x = i
    BY <1>3, <2>1, <2>2
  <2> QED BY <2>3 DEF x
<1> QED BY <1>6, <1>8

\* queue_remove_pid takes every occurrence of p out of the queue and nothing else.
LEMMA QueueRemove ==
  ASSUME NEW P, NEW q \in Seq(P), NEW p \in P
  PROVE  LET r == queue_remove_pid(q, p)
         IN  /\ r \in Seq(P)
             /\ \A x \in P : InQueue(r, x) <=> InQueue(q, x) /\ x # p
             /\ Injective(q) => Injective(r)
             /\ Injective(q) /\ InQueue(q, p) => Len(r) = Len(q) - 1
<1> DEFINE K == {i \in 1 .. Len(q) : q[i] # p}
           c == Cardinality(K)
           r == queue_remove_pid(q, p)
<1>1. Len(q) \in Nat /\ \A i \in 1 .. Len(q) : q[i] \in P
  OBVIOUS
<1>2. IsFiniteSet(1 .. Len(q)) /\ Cardinality(1 .. Len(q)) = Len(q)
  BY <1>1, FS_Interval, SMTT(60)
<1>3. K \in SUBSET (1 .. Len(q)) /\ IsFiniteSet(K) /\ c \in Nat
  BY <1>2, FS_Subset, FS_CardinalityType
<1>4. r = [n \in 1 .. c |-> q[Nth(K, n)]]
  BY DEF queue_remove_pid
<1>5. \A n \in 1 .. c : Nth(K, n) \in K /\ Cardinality({m \in K : m <= Nth(K, n)}) = n
  <2> HIDE DEF K
  <2> QED BY <1>1, <1>3, NthElement
<1>6. \A i \in K : \E n \in 1 .. c : Nth(K, n) = i
  <2> HIDE DEF K
  <2> QED BY <1>1, <1>3, Rank
<1>7. \A n \in 1 .. c : q[Nth(K, n)] \in P /\ q[Nth(K, n)] # p
  BY <1>1, <1>5
<1>8. r \in Seq(P) /\ Len(r) = c /\ \A n \in 1 .. c : r[n] = q[Nth(K, n)]
  <2> HIDE DEF K, c, r
  <2> QED BY <1>3, <1>4, <1>7
<1> HIDE DEF r
<1>9. ASSUME NEW x \in P
      PROVE  InQueue(r, x) <=> InQueue(q, x) /\ x # p
  <2>1. ASSUME InQueue(r, x) PROVE InQueue(q, x) /\ x # p
    <3>1. PICK n \in 1 .. c : r[n] = x
      BY <1>8, <2>1 DEF InQueue
    <3> QED BY <1>5, <1>8, <3>1 DEF InQueue
  <2>2. ASSUME InQueue(q, x), x # p PROVE InQueue(r, x)
    <3>1. PICK i \in 1 .. Len(q) : q[i] = x
      BY <2>2 DEF InQueue
    <3>2. i \in K
      BY <2>2, <3>1
    <3>3. PICK n \in 1 .. c : Nth(K, n) = i
      BY <1>6, <3>2
    <3> QED BY <1>8, <3>1, <3>3 DEF InQueue
  <2> QED BY <2>1, <2>2
<1>10. ASSUME Injective(q) PROVE Injective(r)
  <2> SUFFICES ASSUME NEW i \in 1 .. c, NEW j \in 1 .. c, r[i] = r[j]
               PROVE  i = j
    BY <1>8 DEF Injective
  <2>1. Nth(K, i) = Nth(K, j)
    BY <1>5, <1>8, <1>10 DEF Injective
  <2>2. Cardinality({m \in K : m <= Nth(K, i)}) = Cardinality({m \in K : m <= Nth(K, j)})
    BY <2>1
  <2> HIDE DEF K, c
  <2> QED BY <1>5, <2>2
<1>11. ASSUME Injective(q), InQueue(q, p) PROVE Len(r) = Len(q) - 1
  <2>1. PICK i \in 1 .. Len(q) : q[i] = p
    BY <1>11 DEF InQueue
  <2>2. K = (1 .. Len(q)) \ {i}
    BY <1>11, <2>1 DEF Injective
  <2>3. c = Len(q) - 1
    BY <1>2, <2>1, <2>2, FS_RemoveElement
  <2> QED BY <1>8, <2>3
<1> HIDE DEF K, c
<1> QED BY <1>8, <1>9, <1>10, <1>11 DEF r

\* The first waiter leaves the queue, the others stay.
LEMMA QueuePop ==
  ASSUME NEW P, NEW q \in Seq(P), Len(q) > 0
  PROVE  LET r == queue_pop(q)
         IN  /\ r \in Seq(P) /\ Head(q) \in P /\ Len(r) = Len(q) - 1
             /\ InQueue(q, Head(q))
             /\ Injective(q) =>
                  /\ Injective(r)
                  /\ \A x \in P : InQueue(r, x) <=> InQueue(q, x) /\ x # Head(q)
<1> DEFINE r == Tail(q)
<1>1. Len(q) \in Nat /\ \A i \in 1 .. Len(q) : q[i] \in P
  OBVIOUS
<1>2. /\ r \in Seq(P) /\ Len(r) = Len(q) - 1 /\ Head(q) = q[1] /\ 1 \in 1 .. Len(q)
      /\ \A i \in 1 .. Len(q) - 1 : r[i] = q[i + 1]
  BY <1>1
<1> HIDE DEF r
<1>3. InQueue(q, Head(q)) /\ Head(q) \in P
  BY <1>1, <1>2 DEF InQueue
<1>4. ASSUME Injective(q)
      PROVE  /\ Injective(r)
             /\ \A x \in P : InQueue(r, x) <=> InQueue(q, x) /\ x # Head(q)
  <2>1. Injective(r)
    <3> SUFFICES ASSUME NEW i \in 1 .. Len(q) - 1, NEW j \in 1 .. Len(q) - 1,
                        r[i] = r[j]
                 PROVE  i = j
      BY <1>2 DEF Injective
    <3>1. i + 1 \in 1 .. Len(q) /\ j + 1 \in 1 .. Len(q) /\ q[i + 1] = q[j + 1]
      BY <1>1, <1>2
    <3>2. i + 1 = j + 1
      BY <1>4, <3>1 DEF Injective
    <3> QED BY <1>1, <3>2
  <2>2. ASSUME NEW x \in P, InQueue(r, x) PROVE InQueue(q, x) /\ x # Head(q)
    <3>1. PICK i \in 1 .. Len(q) - 1 : q[i + 1] = x
      BY <1>2, <2>2 DEF InQueue
    <3>2. i + 1 \in 1 .. Len(q) /\ i + 1 # 1
      BY <1>1
    <3> QED BY <1>2, <1>4, <3>1, <3>2 DEF InQueue, Injective
  <2>3. ASSUME NEW x \in P, InQueue(q, x), x # Head(q) PROVE InQueue(r, x)
    <3>1. PICK i \in 1 .. Len(q) : q[i] = x
      BY <2>3 DEF InQueue
    <3>2. i - 1 \in 1 .. Len(q) - 1 /\ (i - 1) + 1 = i
      BY <1>1, <1>2, <2>3, <3>1
    <3> QED BY <1>2, <3>1, <3>2 DEF InQueue
  <2> QED BY <2>1, <2>2, <2>3
<1> QED BY <1>2, <1>3, <1>4 DEF queue_pop, r

(***************************************************************************)
(* Arithmetic modulo n, for indices into rings                             *)
(***************************************************************************)
\* Quotient and remainder.
LEMMA DivMod ==
  ASSUME NEW n \in Nat \ {0}, NEW x \in Int
  PROVE  x = n * (x \div n) + (x % n) /\ x \div n \in Int /\ x % n \in 0 .. n - 1
OBVIOUS

\* The remainder is the only one.
LEMMA ModUnique ==
  ASSUME NEW n \in Nat \ {0}, NEW x \in Int, NEW q \in Int, NEW r \in 0 .. n - 1,
         x = n * q + r
  PROVE  x % n = r
OBVIOUS

\* Remainders within one turn, forwards and backwards.
LEMMA ModNear ==
  ASSUME NEW n \in Nat \ {0}, NEW x \in Int
  PROVE  /\ x \in 0 .. n - 1 => x % n = x
         /\ x \in -n .. -1 => x % n = x + n
<1>1. ASSUME x \in 0 .. n - 1 PROVE x % n = x
  BY <1>1
<1>2. ASSUME x \in -n .. -1 PROVE x % n = x + n
  <2>1. x = n * (-1) + (x + n) /\ x + n \in 0 .. n - 1 /\ -1 \in Int
    BY <1>2
  <2> QED BY <2>1, ModUnique
<1> QED BY <1>1, <1>2

\* Whole turns do not matter.
LEMMA ModTurns ==
  ASSUME NEW n \in Nat \ {0}, NEW x \in Int, NEW y \in Int, NEW t \in Int, x = n * t + y
  PROVE  x % n = y % n
<1> DEFINE b == y \div n
           s == y % n
<1>1. y = n * b + s /\ b \in Int /\ s \in 0 .. n - 1
  BY DivMod
<1> HIDE DEF b, s
<1>2. x = n * t + n * b + s
  BY <1>1
<1>3. x = n * (t + b) + s /\ t + b \in Int
  BY <1>1, <1>2
<1>4. x % n = s
  BY <1>1, <1>3, ModUnique
<1> QED BY <1>4 DEF s

\* A sum and a difference may be reduced on the way.
LEMMA ModSum ==
  ASSUME NEW n \in Nat \ {0}, NEW x \in Int, NEW y \in Int
  PROVE  /\ ((x % n) + y) % n = (x + y) % n
         /\ ((x % n) - (y % n)) % n = (x - y) % n
<1> DEFINE a == x \div n
           r == x % n
           b == y \div n
           s == y % n
<1>1. x = n * a + r /\ a \in Int /\ r \in 0 .. n - 1
  BY DivMod
<1>2. y = n * b + s /\ b \in Int /\ s \in 0 .. n - 1
  BY DivMod
<1> HIDE DEF a, r, b, s
<1>3. x + y = n * a + (r + y) /\ x + y \in Int /\ r + y \in Int
  BY <1>1
<1>4. (x + y) % n = (r + y) % n
  BY <1>1, <1>3, ModTurns
<1>5. x - y = n * a - n * b + (r - s) /\ x - y \in Int /\ r - s \in Int /\ a - b \in Int
  BY <1>1, <1>2
<1>6. x - y = n * (a - b) + (r - s)
  BY <1>1, <1>2, <1>5
<1>7. (x - y) % n = (r - s) % n
  BY <1>5, <1>6, ModTurns
<1> QED BY <1>4, <1>7 DEF r, s

=============================================================================
