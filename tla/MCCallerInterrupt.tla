-------------------------- MODULE MCCallerInterrupt --------------------------
(* Instances of CallerInterrupt for TLC.                                   *)
EXTENDS CallerInterrupt, TLC

Symmetry == Permutations(Threads)

=============================================================================
