----------------------------- MODULE WaitQueue -----------------------------
(***************************************************************************)
(* Queues of waiting processes, which semaphore.c and pipe.c each keep as  *)
(* a ring of pids with the same functions.  The ring is a sequence.        *)
(***************************************************************************)
EXTENDS Integers, Sequences, FiniteSets

InQueue(q, p) == \E i \in 1 .. Len(q) : q[i] = p

queue_pop(q) == Tail(q)

\* The n-th smallest element of a finite set of numbers.
Nth(S, n) == CHOOSE i \in S : Cardinality({m \in S : m <= i}) = n

\* The others are copied to the front, in their order.
queue_remove_pid(q, p) ==
  LET kept == {i \in 1 .. Len(q) : q[i] # p}
  IN  [n \in 1 .. Cardinality(kept) |-> q[Nth(kept, n)]]

=============================================================================
