---------------------------- MODULE MCSemaphore ----------------------------
(* Instances of Semaphore: three processes, alike but for their names. *)
EXTENDS Semaphore, TLC

CONSTANTS p1, p2, p3
ThreeProcs == {p1, p2, p3}
Symmetry == Permutations(ThreeProcs)

=============================================================================
