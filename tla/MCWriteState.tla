---------------------------- MODULE MCWriteState ----------------------------
(* Instances of WriteState for TLC: one transaction over two catalogs      *)
(* (wide), and transactions that follow each other on one catalog, where   *)
(* the second finds the session of the first or has to open another.       *)
EXTENDS WriteState

CONSTANTS a, b, a1, a2, b1

VARIABLE wide

MCHome == [s \in {a1, a2, b1} |-> IF s = b1 THEN b ELSE a]

(* The scope of each instance.                                             *)
OneTransaction ==
    /\ txn <= 1
    /\ place[a2] = "fresh"
    /\ \A c \in Catalogs : acked[1][c] <= 1
    /\ writer # NoWriter => acked[1][writer.catalog] = 0

OneCatalog ==
    /\ b \notin pools /\ b \notin spoiled[1] \cup spoiled[2]
    /\ writer.catalog # b
    /\ place[b1] = "fresh"

InScope == IF wide THEN OneTransaction ELSE OneCatalog

MCInit == Init /\ wide \in BOOLEAN /\ InScope

MCNext == Next /\ UNCHANGED wide /\ InScope'

MCSpec == MCInit /\ [][MCNext]_<<vars, wide>>

=============================================================================
