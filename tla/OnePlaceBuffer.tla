-------------------------- MODULE OnePlaceBuffer --------------------------
(***************************************************************************)
(* What an MVar promises: a buffer of one place, where a value is put only *)
(* when the place is empty and every value is taken once.                  *)
(***************************************************************************)
CONSTANTS Values, Empty

VARIABLE buffer

Init == buffer = Empty

Put(v) == buffer = Empty /\ buffer' = v
Take == buffer # Empty /\ buffer' = Empty

Next == Take \/ \E v \in Values : Put(v)

Spec == Init /\ [][Next]_buffer

=============================================================================
