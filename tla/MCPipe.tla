------------------------------- MODULE MCPipe -------------------------------
EXTENDS PipeCalls

\* The slots of the process table are all alike.
Symmetry == Permutations(Procs)

=============================================================================
