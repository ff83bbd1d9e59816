----------------------------- MODULE MCSnapshots -----------------------------
(* Snapshots by itself, with users who spell the catalog's name otherwise. *)
EXTENDS Snapshots

CONSTANTS c1, memory, t1, t2, q1, ora, ORA

Spec == SnapshotsInit /\ [][SnapshotsNext]_snapshotVars
=============================================================================
