--------------------------- MODULE MCNativeCalls ---------------------------
(* Instances of NativeCalls for TLC.                                       *)
EXTENDS NativeCalls

=============================================================================
