---------------------------- MODULE MCReadScans ----------------------------
(* ReadScans on small instances.                                           *)
EXTENDS ReadScans, TLC

Symmetry == Permutations(Scans) \cup Permutations(Workers)
=============================================================================
