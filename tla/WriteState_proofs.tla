-------------------------- MODULE WriteState_proofs --------------------------
(***************************************************************************)
(* Proofs about WriteState, for any catalogs, sessions and bounds: what a  *)
(* transaction makes durable is all it was told had succeeded, or nothing, *)
(* and what its user is told about its end is true.                        *)
(*                                                                         *)
(* The argument follows the uncommitted statements.  While a catalog is in *)
(* order they are on the session the map holds (Tallied), that session is  *)
(* nobody else's (Held), and it moves from the map to the hand that ends   *)
(* it (Staged).  Nothing of the transaction is durable before (Untouched), *)
(* a COMMIT that may still happen holds all of it (LateIsWhole), and a     *)
(* transaction with a failed statement gets no COMMIT (SpoiledIsRefused).  *)
(***************************************************************************)
EXTENDS WriteState, TLAPS

Counts == [Numbers -> [Catalogs -> Nat]]
Statuses == [outcome : {"not_attempted", "committed", "unknown"},
             connection : {"idle", "active", "discarded"}]

HistoryOK ==
    /\ acked \in Counts
    /\ durable \in Counts
    /\ spoiled \in [Numbers -> SUBSET Catalogs]
    /\ told \in [Numbers -> {"open", "committed", "failed", "rolledback"}]
    /\ about \in [Catalogs -> 0 .. MaxTransactions]

(* The entry of a catalog is in the map, in hand, or gone, as its stage    *)
(* says; and a query runs only while its transaction is active.            *)
Staged ==
    /\ phase # "none" => txn \in Numbers
    /\ phase # "active" => QueryIsOver
    /\ \A c \in Catalogs :
          /\ phase = "none" => stage[c] = "done"
          /\ phase = "active" => stage[c] = "todo"
          /\ phase = "all" => stage[c] \in {"taken", "done"}
          /\ pinned[c] # NoSession => stage[c] = "todo"
          /\ hand[c] # NoSession <=> stage[c] \in {"taken", "acked"}

InOrder(c, s) ==
    Home[s] = c /\ place[s] = "leased" /\ owner[s] = txn /\ s \notin closing

WriterIsHome ==
    /\ writer.step # "none" => writer.catalog \in Catalogs
    /\ writer.step \in {"taint", "execute"} =>
          /\ writer.session \in Sessions
          /\ Home[writer.session] = writer.catalog
          /\ writer.session = pinned[writer.catalog] \/ writer.catalog \in failed

Held ==
    /\ \A c \in Catalogs :
          /\ pinned[c] # NoSession => InOrder(c, pinned[c])
          /\ hand[c] # NoSession => InOrder(c, hand[c])
          /\ stage[c] = "acked" => work[hand[c]] = 0
    /\ \A s \in closing : place[s] = "leased"
    /\ \A s \in Sessions : place[s] \in {"fresh", "idle"} => work[s] = 0
    /\ \A s \in Sessions : owner[s] <= txn

(* What waits to be committed on a catalog.                                *)
Tally(c, s) ==
    /\ work[s] >= acked[txn][c]
    /\ c \notin spoiled[txn] => work[s] = acked[txn][c]

Tallied ==
    \A c \in Catalogs :
        /\ phase \in {"active", "commit"} /\ stage[c] = "todo" /\ c \notin failed =>
              IF pinned[c] = NoSession THEN acked[txn][c] = 0 ELSE Tally(c, pinned[c])
        /\ phase = "commit" /\ stage[c] = "taken" =>
              c \notin spoiled[txn] /\ Tally(c, hand[c])

SpoiledIsRefused ==
    phase \in {"active", "commit"} =>
        \A c \in spoiled[txn] :
            \/ c \in failed
            \/ /\ phase = "active"
               /\ \/ invalidated \/ c \in poisoner
                  \/ writer.step = "failing" /\ writer.catalog = c

NoneLate(n, c) == \A s \in late : owner[s] = n => Home[s] # c

Untouched ==
    \A c \in Catalogs :
        phase = "active" \/ (phase = "commit" /\ stage[c] \in {"todo", "taken"}) =>
            durable[txn][c] = 0 /\ NoneLate(txn, c)

Unbegun ==
    \A n \in Numbers, c \in Catalogs :
        n > txn => acked[n][c] = 0 /\ durable[n][c] = 0 /\ c \notin spoiled[n]

LateIsWhole ==
    /\ \A s \in late :
          /\ place[s] = "closed" /\ owner[s] \in Numbers
          /\ durable[owner[s]][Home[s]] = 0
          /\ work[s] = acked[owner[s]][Home[s]]
          /\ Home[s] \notin spoiled[owner[s]]
    /\ \A s, t \in late : owner[s] = owner[t] /\ Home[s] = Home[t] => s = t

WholeInv ==
    /\ TypeOK /\ HistoryOK /\ Staged /\ WriterIsHome /\ Held
    /\ Tallied /\ SpoiledIsRefused /\ Untouched /\ Unbegun /\ LateIsWhole /\ AllOrNothing

(* What the user may be told about the transaction that is ending.         *)
Untold ==
    \A n \in Numbers :
        n > txn \/ (n = txn /\ phase \in {"active", "commit"}) => told[n] = "open"

Confirmed ==
    \A c \in Catalogs :
        phase = "commit" /\ stage[c] \in {"acked", "done"} => durable[txn][c] = acked[txn][c]

Undone ==
    phase \in {"rollback", "all"} /\ told[txn] = "open" =>
        \A c \in Catalogs : durable[txn][c] = 0 /\ NoneLate(txn, c)

TruthInv == WholeInv /\ Untold /\ Confirmed /\ Undone /\ UserIsToldTheTruth

-----------------------------------------------------------------------------
(* What the updates that several actions share do                          *)

LEMMA CountsAdd ==
    ASSUME NEW f \in Counts, NEW n \in Numbers, NEW c \in Catalogs, NEW i \in Nat
    PROVE  LET g == [f EXCEPT ![n][c] = @ + i]
           IN  /\ g \in Counts
               /\ g[n][c] = f[n][c] + i
               /\ \A m \in Numbers, d \in Catalogs : m # n \/ d # c => g[m][d] = f[m][d]
BY DEF Counts

LEMMA StatusSet ==
    ASSUME NEW f \in [Catalogs -> Statuses], NEW c \in Catalogs,
           NEW o \in {"not_attempted", "committed", "unknown"},
           NEW k \in {"idle", "active", "discarded"}
    PROVE  /\ [f EXCEPT ![c].connection = k] \in [Catalogs -> Statuses]
           /\ [f EXCEPT ![c].outcome = o, ![c].connection = k] \in [Catalogs -> Statuses]
           /\ [f EXCEPT ![c] = [outcome |-> o, connection |-> k]] \in [Catalogs -> Statuses]
BY DEF Statuses

LEMMA FlawTyped ==
    ASSUME TypeOK, NEW s \in Sessions, NEW found \in SUBSET Flaws, Flaw(s, found)
    PROVE  flaws' \in [Sessions -> SUBSET Flaws]
BY DEF TypeOK, Flaw, Flaws

LEMMA CloseTyped ==
    ASSUME TypeOK, NEW s \in Sessions, Close(s) \/ Keep(s)
    PROVE  /\ place' \in [Sessions -> {"fresh", "idle", "leased", "closed"}]
           /\ flaws' \in [Sessions -> SUBSET Flaws]
BY DEF TypeOK, Close, Keep, Flaws

LEMMA PinsTyped ==
    ASSUME TypeOK, HistoryOK, txn \in Numbers, NEW c \in Catalogs,
           NEW s \in Sessions,
           PinsSession(c, s)
    PROVE  /\ pinned' \in [Catalogs -> Sessions \cup {NoSession}]
           /\ tainted' \in [Catalogs -> BOOLEAN]
           /\ status' \in [Catalogs -> Statuses]
           /\ about' \in [Catalogs -> 0 .. MaxTransactions]
           /\ place' \in [Sessions -> {"fresh", "idle", "leased", "closed"}]
           /\ owner' \in [Sessions -> 0 .. MaxTransactions]
<1>1. CASE pinned[c] = s /\ UNCHANGED <<pinned, tainted, status, about, place, owner>>
  BY <1>1 DEF TypeOK, HistoryOK, Statuses
<1>2. CASE Leases(c, s)
  <2>1. [NewStatus EXCEPT !.connection = "active"] \in Statuses
    BY DEF NewStatus, Statuses
  <2> QED
    BY <1>2, <2>1 DEF Leases, TypeOK, HistoryOK, Numbers, Statuses
<1> QED
  BY <1>1, <1>2 DEF PinsSession

LEMMA PoisonTyped ==
    ASSUME TypeOK, NEW c \in Catalogs, Poison(c)
    PROVE  /\ pinned' \in [Catalogs -> Sessions \cup {NoSession}]
           /\ failed' \subseteq Catalogs
           /\ status' \in [Catalogs -> Statuses]
           /\ closing' \subseteq Sessions
           /\ UNCHANGED <<tainted, txn, invalidated, phase, stage, hand, scan, pools, place,
                          flaws, work, owner, late, acked, durable, spoiled, told, about>>
<1>1. status' \in [Catalogs -> Statuses]
  <2>1. status \in [Catalogs -> Statuses]
    BY DEF TypeOK, Statuses
  <2>2. [status EXCEPT ![c].connection = "discarded"] \in [Catalogs -> Statuses]
    BY <2>1 DEF Statuses
  <2> QED
    BY <2>2 DEF Poison
<1>2. /\ UNCHANGED <<tainted, txn, invalidated, phase, stage, hand>>
      /\ UNCHANGED <<scan, pools, place, flaws, work, owner, late>>
      /\ UNCHANGED <<acked, durable, spoiled, told, about>>
  BY DEF Poison, duckVars, sessionVars, serverVars, history
<1>3. pinned' \in [Catalogs -> Sessions \cup {NoSession}] /\ closing' \subseteq Sessions
  BY DEF Poison, TypeOK, PoisonedEntry
<1>4. failed' \subseteq Catalogs
  BY DEF Poison, TypeOK, Refused
<1> QED
  BY <1>1, <1>2, <1>3, <1>4
-----------------------------------------------------------------------------
(* Types                                                                   *)

LEMMA TypeStep == WriteAssumption /\ WholeInv /\ [Next]_vars => TypeOK' /\ HistoryOK'
<1> SUFFICES ASSUME WriteAssumption, WholeInv, [Next]_vars PROVE TypeOK' /\ HistoryOK'
  OBVIOUS
<1> USE DEF WholeInv, TypeOK, HistoryOK, WriteAssumption
<1>1. CASE Begin
  <2>1. UNCHANGED <<pinned, tainted, failed, status, hand, writer, scan, poisoner, closing,
                    pools, place, flaws, work, owner, late, acked, durable, spoiled, told, about>>
    BY <1>1 DEF Begin, stateVars, queryVars, sessionVars, serverVars, history
  <2>2. txn' \in 0 .. MaxTransactions
    BY <1>1 DEF Begin
  <2> QED
    BY <1>1, <2>1, <2>2 DEF Begin
<1>2. CASE WriterTaints
  BY <1>2 DEF WriterTaints, duckVars, sessionVars, serverVars, history, Staged
<1>3. CASE WriterSucceeds
  <2>1. /\ writer.session \in Sessions /\ writer.catalog \in Catalogs /\ txn \in Numbers
        /\ CallFlaws(TRUE, TRUE) \in SUBSET Flaws
    BY <1>3 DEF WriterSucceeds, WriterIsHome, Staged, QueryIsOver, NoWriter, CallFlaws, Flaws
  <2>2. flaws' \in [Sessions -> SUBSET Flaws]
    BY <1>3, <2>1, FlawTyped DEF WriterSucceeds
  <2>3. acked' = [acked EXCEPT ![txn][writer.catalog] = @ + 1]
    BY <1>3 DEF WriterSucceeds
  <2>4. acked' \in Counts
    BY <2>1, <2>3 DEF Counts
  <2>5. writer' \in [step : {"none"}, call : Calls, catalog : {NoCatalog}, session : {NoSession}]
    BY <1>3 DEF WriterSucceeds, NoWriter, Calls
  <2>6. work' \in [Sessions -> Nat]
    BY <1>3, <2>1 DEF WriterSucceeds
  <2> QED
    BY <1>3, <2>2, <2>4, <2>5, <2>6 DEF WriterSucceeds, stateVars, duckVars
<1>4. CASE WriterThrows
  <2>1. writer.session \in Sessions /\ writer.catalog \in Catalogs /\ txn \in Numbers
    BY <1>4 DEF WriterThrows, WriterIsHome, Staged, QueryIsOver, NoWriter
  <2>2. PICK executed \in BOOLEAN :
           /\ work' = [work EXCEPT ![writer.session] = IF executed THEN @ + 1 ELSE @]
           /\ Flaw(writer.session, CallFlaws(executed, FALSE))
    BY <1>4 DEF WriterThrows
  <2>3. CallFlaws(executed, FALSE) \in SUBSET Flaws
    BY DEF CallFlaws, Flaws
  <2>4. flaws' \in [Sessions -> SUBSET Flaws]
    BY <2>1, <2>2, <2>3, FlawTyped
  <2>5. work' \in [Sessions -> Nat]
    BY <2>1, <2>2
  <2>6. /\ writer' = [writer EXCEPT !.step = "failing"]
        /\ spoiled' = [spoiled EXCEPT ![txn] = @ \cup {writer.catalog}]
        /\ UNCHANGED <<stateVars, duckVars, scan, poisoner, closing, pools, place, owner,
                       late, acked, durable, told, about>>
    BY <1>4 DEF WriterThrows
  <2> QED
    BY <2>1, <2>4, <2>5, <2>6 DEF stateVars, duckVars
<1>5. CASE WriterPoisons
  <2>1. /\ writer.catalog \in Catalogs
        /\ writer' \in [step : {"none"}, call : Calls,
                       catalog : {NoCatalog}, session : {NoSession}]
    BY <1>5 DEF WriterPoisons, WriterIsHome, NoWriter, Calls
  <2> QED
    BY <1>5, <2>1, PoisonTyped DEF WriterPoisons, Statuses
<1>6. CASE PoisonCloses
  BY <1>6 DEF PoisonCloses, Close, stateVars, duckVars, serverVars, history, Flaws, Staged
<1>7. CASE CommitReturns
  BY <1>7 DEF CommitReturns, stateVars, queryVars, sessionVars, serverVars, Staged
<1>8. CASE RollbackAll
  <2>1. status' \in [Catalogs -> Statuses]
    BY <1>8 DEF RollbackAll, Statuses
  <2> QED
    BY <1>8, <2>1 DEF RollbackAll, Statuses, queryVars, sessionVars, serverVars, history
<1>9. CASE RollbackReturns
  BY <1>9 DEF RollbackReturns, stateVars, queryVars, sessionVars, serverVars, Staged
<1>10. ASSUME NEW c \in Catalogs, WriterPins(c) PROVE TypeOK' /\ HistoryOK'
  <2>1. PICK s \in Sessions, call \in Calls :
           /\ PinsSession(c, s)
           /\ writer' = [step |-> IF call = "procedure" THEN "taint" ELSE "execute",
                         call |-> call, catalog |-> c, session |-> s]
    BY <1>10 DEF WriterPins
  <2>2. txn \in Numbers
    BY <1>10 DEF WriterPins, WriterMayBegin, Staged
  <2> QED
    BY <1>10, <2>1, <2>2, PinsTyped DEF WriterPins, Statuses, duckVars
<1>11. ASSUME NEW c \in Catalogs, PinThrows(c) PROVE TypeOK' /\ HistoryOK'
  <2>1. txn \in Numbers
    BY <1>11 DEF PinThrows, WriterMayBegin, Staged
  <2>2. writer' \in [step : {"failing"}, call : Calls, catalog : {c}, session : {NoSession}]
    BY <1>11 DEF PinThrows, NoWriter, Calls
  <2> QED
    BY <1>11, <2>1, <2>2 DEF PinThrows, stateVars, duckVars, sessionVars, serverVars
<1>12. ASSUME NEW c \in Catalogs, WriterStops(c) PROVE TypeOK' /\ HistoryOK'
  BY <1>12 DEF WriterStops, WriterMayBegin, NoWriter, stateVars, queryVars, sessionVars,
     serverVars, Staged
<1>13. ASSUME NEW c \in Catalogs, ScanPins(c) PROVE TypeOK' /\ HistoryOK'
  <2>1. PICK s \in Sessions : /\ PinsSession(c, s) /\ Flaw(s, {"borrower"})
                              /\ scan' = [scan EXCEPT ![c] = s]
    BY <1>13 DEF ScanPins
  <2>2. txn \in Numbers /\ {"borrower"} \in SUBSET Flaws
    BY <1>13 DEF ScanPins, Staged, Flaws
  <2>3. flaws' \in [Sessions -> SUBSET Flaws]
    BY <2>1, <2>2, FlawTyped
  <2> QED
    BY <1>13, <2>1, <2>2, <2>3, PinsTyped DEF ScanPins, Statuses, duckVars
<1>14. ASSUME NEW c \in Catalogs, ScanBegins(c) PROVE TypeOK' /\ HistoryOK'
  BY <1>14 DEF ScanBegins, ScanSource, Flaw, Flaws, stateVars, duckVars, serverVars,
     history, Staged
<1>15. ASSUME NEW c \in Catalogs, ScanThrows(c) PROVE TypeOK' /\ HistoryOK'
  <2>1. txn \in Numbers /\ {"exchange"} \in SUBSET Flaws
    BY <1>15 DEF ScanThrows, Staged, Flaws
  <2>2. flaws' \in [Sessions -> SUBSET Flaws]
    BY <1>15, <2>1, FlawTyped DEF ScanThrows
  <2>3. poisoner' \subseteq Catalogs /\ spoiled' \in [Numbers -> SUBSET Catalogs]
    <3>1. CASE UNCHANGED <<poisoner, spoiled>>
      BY <3>1
    <3>2. CASE poisoner' = poisoner \cup {c} /\ spoiled' = [spoiled EXCEPT ![txn] = @ \cup {c}]
      BY <2>1, <3>2
    <3> QED
      BY <1>15, <3>1, <3>2 DEF ScanThrows
  <2> QED
    BY <1>15, <2>2, <2>3 DEF ScanThrows, stateVars, duckVars, serverVars
<1>16. ASSUME NEW c \in Catalogs, ScanEnds(c) PROVE TypeOK' /\ HistoryOK'
  BY <1>16 DEF ScanEnds, stateVars, duckVars, sessionVars, serverVars, history, Staged
<1>17. ASSUME NEW c \in Catalogs, ScanPoisons(c) PROVE TypeOK' /\ HistoryOK'
  <2> QED
    BY <1>17, PoisonTyped DEF ScanPoisons, Statuses
<1>18. ASSUME NEW c \in Catalogs, CommitRefuses(c) PROVE TypeOK' /\ HistoryOK'
  BY <1>18 DEF CommitRefuses, CommitTurn, stateVars, queryVars, sessionVars, serverVars,
     Staged
<1>19. ASSUME NEW c \in Catalogs, CommitTakes(c) PROVE TypeOK' /\ HistoryOK'
  BY <1>19 DEF CommitTakes, CommitTurn, queryVars, sessionVars, serverVars, history, Staged
<1>20. ASSUME NEW c \in Catalogs, CommitAcknowledged(c) PROVE TypeOK' /\ HistoryOK'
  <2>1. hand[c] \in Sessions /\ owner[hand[c]] \in Numbers /\ txn \in Numbers
    BY <1>20 DEF CommitAcknowledged, Staged, Held, InOrder
  <2>2. durable' \in Counts
    <3>1. durable \in Counts /\ work[hand[c]] \in Nat
      BY <2>1
    <3>2. durable' = [durable EXCEPT ![owner[hand[c]]][c] = @ + work[hand[c]]]
      BY <1>20 DEF CommitAcknowledged
    <3> HIDE DEF TypeOK, HistoryOK
    <3> QED
      BY <2>1, <3>1, <3>2, CountsAdd
  <2>3. work' \in [Sessions -> Nat] /\ stage' \in [Catalogs -> {"todo", "taken", "acked", "done"}]
    BY <1>20, <2>1 DEF CommitAcknowledged
  <2>4. /\ UNCHANGED <<stateVars, txn, invalidated, phase, hand, queryVars, sessionVars>>
        /\ UNCHANGED <<owner, late, acked, spoiled, told, about>>
    BY <1>20 DEF CommitAcknowledged
  <2> QED
    BY <2>2, <2>3, <2>4 DEF stateVars, queryVars, sessionVars
<1>21. ASSUME NEW c \in Catalogs, CommitThrows(c) PROVE TypeOK' /\ HistoryOK'
  <2>1. hand[c] \in Sessions /\ txn \in Numbers
    BY <1>21 DEF CommitThrows, Staged
  <2>2. status' \in [Catalogs -> Statuses]
    BY <1>21, StatusSet DEF CommitThrows, Unconfirmed, Statuses
  <2> QED
    BY <1>21, <2>1, <2>2, CloseTyped DEF CommitThrows, Statuses, queryVars
<1>22. ASSUME NEW c \in Catalogs, CommitEnds(c) PROVE TypeOK' /\ HistoryOK'
  <2>1. hand[c] \in Sessions /\ (Close(hand[c]) \/ Keep(hand[c]))
    BY <1>22 DEF CommitEnds, Staged, End
  <2>2. status' \in [Catalogs -> Statuses]
    BY <1>22, StatusSet DEF CommitEnds, Statuses
  <2> QED
    BY <1>22, <2>1, <2>2, CloseTyped DEF CommitEnds, Statuses, queryVars, serverVars, history
<1>23. ASSUME NEW c \in Catalogs, RollbackTakes(c) PROVE TypeOK' /\ HistoryOK'
  <2>1. status' \in [Catalogs -> Statuses]
    <3>1. status \in [Catalogs -> Statuses]
      BY DEF Statuses
    <3>2. status' \in {[status EXCEPT ![c].connection = status[c].connection],
                       [status EXCEPT ![c].connection = "idle"]}
      BY <1>23 DEF RollbackTakes
    <3> HIDE DEF TypeOK, HistoryOK
    <3> QED
      BY <3>1, <3>2 DEF Statuses
  <2>2. /\ failed' \subseteq Catalogs /\ hand' \in [Catalogs -> Sessions \cup {NoSession}]
        /\ pinned' \in [Catalogs -> Sessions \cup {NoSession}]
        /\ stage' \in [Catalogs -> {"todo", "taken", "acked", "done"}]
    BY <1>23 DEF RollbackTakes
  <2>3. /\ UNCHANGED <<tainted, txn, invalidated, phase, queryVars, sessionVars>>
        /\ UNCHANGED <<serverVars, history>>
    BY <1>23 DEF RollbackTakes
  <2> QED
    BY <2>1, <2>2, <2>3 DEF Statuses, queryVars, sessionVars, serverVars, history
<1>24. ASSUME NEW c \in Catalogs, RollbackAcknowledged(c) PROVE TypeOK' /\ HistoryOK'
  <2>1. hand[c] \in Sessions /\ (Close(hand[c]) \/ Keep(hand[c]))
    BY <1>24 DEF RollbackAcknowledged, RollbackDone, Staged, End
  <2> QED
    BY <1>24, <2>1, CloseTyped DEF RollbackAcknowledged, RollbackDone, stateVars, queryVars, history
<1>25. ASSUME NEW c \in Catalogs, RollbackThrows(c) PROVE TypeOK' /\ HistoryOK'
  BY <1>25 DEF RollbackThrows, RollbackDone, Close, stateVars, queryVars, history, Flaws,
     Staged
<1>26. ASSUME NEW c \in Catalogs, Detach(c) PROVE TypeOK' /\ HistoryOK'
  BY <1>26 DEF Detach, stateVars, duckVars, queryVars, serverVars, history, Staged
<1>27. ASSUME NEW s \in Sessions, Disconnect(s) PROVE TypeOK' /\ HistoryOK'
  BY <1>27 DEF Disconnect, stateVars, duckVars, queryVars, sessionVars, history, Staged
<1>28. ASSUME NEW s \in Sessions, LateCommit(s) PROVE TypeOK' /\ HistoryOK'
  <2>1. owner[s] \in Numbers /\ Home[s] \in Catalogs /\ work[s] \in Nat
    BY <1>28 DEF LateCommit, LateIsWhole
  <2>2. durable' = [durable EXCEPT ![owner[s]][Home[s]] = @ + work[s]]
    BY <1>28 DEF LateCommit
  <2>3. durable' \in Counts
    BY <2>1, <2>2 DEF Counts
  <2> QED
    BY <1>28, <2>3 DEF LateCommit, stateVars, duckVars, queryVars, sessionVars
<1>29. ASSUME NEW s \in Sessions, BorrowerLeaves(s) PROVE TypeOK' /\ HistoryOK'
  BY <1>29 DEF BorrowerLeaves, stateVars, duckVars, queryVars, serverVars, history, Staged
<1>30. ASSUME NEW how \in {"commit", "rollback"}, UserEnds(how) PROVE TypeOK' /\ HistoryOK'
  BY <1>30 DEF UserEnds, QueryIsOver, NoWriter, stateVars, sessionVars, serverVars, history,
     Staged
<1>31. CASE UNCHANGED vars
  BY <1>31 DEF vars, stateVars, duckVars, queryVars, sessionVars, serverVars, history
<1> QED
  BY <1>1, <1>2, <1>3, <1>4, <1>5, <1>6, <1>7, <1>8, <1>9, <1>10, <1>11, <1>12,
     <1>13, <1>14, <1>15, <1>16, <1>17, <1>18, <1>19, <1>20, <1>21, <1>22, <1>23,
     <1>24, <1>25, <1>26, <1>27, <1>28, <1>29, <1>30, <1>31
  DEF Next, Statement, QueryStep, EndStep, Environment

-----------------------------------------------------------------------------
(* Where the entries and the query are                                     *)

LEMMA StagedStep ==
    ASSUME WriteAssumption, TypeOK, TypeOK', Staged, [Next]_vars
    PROVE  Staged'
<1> USE DEF TypeOK
<1>1. CASE Begin
  BY <1>1 DEF Begin, Staged, QueryIsOver, Numbers, stateVars, queryVars, sessionVars,
     serverVars, history
<1>2. CASE WriterTaints
  BY <1>2 DEF WriterTaints, Staged, QueryIsOver, NoWriter, duckVars, sessionVars,
     serverVars, history
<1>3. CASE WriterSucceeds
  BY <1>3 DEF WriterSucceeds, Staged, QueryIsOver, NoWriter, stateVars, duckVars
<1>4. CASE WriterThrows
  BY <1>4 DEF WriterThrows, Staged, QueryIsOver, NoWriter, stateVars, duckVars
<1>5. CASE WriterPoisons
  BY <1>5 DEF WriterPoisons, Poison, Staged, QueryIsOver, NoWriter, duckVars, sessionVars,
     serverVars, history
<1>6. CASE PoisonCloses
  BY <1>6 DEF PoisonCloses, Staged, QueryIsOver, stateVars, duckVars, serverVars, history
<1>7. CASE CommitReturns
  BY <1>7 DEF CommitReturns, Staged, QueryIsOver, Ending, stateVars, queryVars, sessionVars,
     serverVars
<1>8. CASE RollbackAll
  BY <1>8 DEF RollbackAll, Staged, QueryIsOver, Ending, queryVars, sessionVars, serverVars,
     history
<1>9. CASE RollbackReturns
  BY <1>9 DEF RollbackReturns, Staged, QueryIsOver, Ending, stateVars, queryVars,
     sessionVars, serverVars
<1>10. ASSUME NEW c \in Catalogs, WriterPins(c) PROVE Staged'
  BY <1>10 DEF WriterPins, Staged, QueryIsOver, WriterMayBegin, duckVars
<1>11. ASSUME NEW c \in Catalogs, PinThrows(c) PROVE Staged'
  BY <1>11 DEF PinThrows, Staged, QueryIsOver, WriterMayBegin, NoWriter, stateVars,
     duckVars, sessionVars, serverVars
<1>12. ASSUME NEW c \in Catalogs, ScanPins(c) PROVE Staged'
  BY <1>12 DEF ScanPins, Staged, QueryIsOver, duckVars
<1>13. ASSUME NEW c \in Catalogs, ScanThrows(c) PROVE Staged'
  BY <1>13 DEF ScanThrows, Staged, QueryIsOver, stateVars, duckVars, serverVars
<1>14. ASSUME NEW c \in Catalogs, ScanPoisons(c) PROVE Staged'
  BY <1>14 DEF ScanPoisons, Poison, Staged, QueryIsOver, duckVars, sessionVars, serverVars,
     history
<1>15. ASSUME NEW c \in Catalogs, CommitRefuses(c) PROVE Staged'
  BY <1>15 DEF CommitRefuses, Staged, QueryIsOver, CommitTurn, stateVars, queryVars,
     sessionVars, serverVars
<1>16. ASSUME NEW c \in Catalogs, CommitTakes(c) PROVE Staged'
  BY <1>16 DEF CommitTakes, Staged, QueryIsOver, CommitTurn, queryVars, sessionVars,
     serverVars, history
<1>17. ASSUME NEW c \in Catalogs, CommitAcknowledged(c) PROVE Staged'
  BY <1>17 DEF CommitAcknowledged, Staged, QueryIsOver, stateVars, queryVars, sessionVars
<1>18. ASSUME NEW c \in Catalogs, CommitThrows(c) PROVE Staged'
  BY <1>18 DEF CommitThrows, Staged, QueryIsOver, queryVars
<1>19. ASSUME NEW c \in Catalogs, CommitEnds(c) PROVE Staged'
  BY <1>19 DEF CommitEnds, Staged, QueryIsOver, queryVars, serverVars, history
<1>20. ASSUME NEW c \in Catalogs, RollbackTakes(c) PROVE Staged'
  BY <1>20 DEF RollbackTakes, Staged, QueryIsOver, queryVars, sessionVars, serverVars,
     history
<1>21. ASSUME NEW c \in Catalogs, RollbackAcknowledged(c) PROVE Staged'
  BY <1>21 DEF RollbackAcknowledged, RollbackDone, Staged, QueryIsOver, stateVars,
     queryVars, history
<1>22. ASSUME NEW c \in Catalogs, RollbackThrows(c) PROVE Staged'
  BY <1>22 DEF RollbackThrows, RollbackDone, Staged, QueryIsOver, stateVars, queryVars,
     history
<1>23. ASSUME NEW how \in {"commit", "rollback"}, UserEnds(how) PROVE Staged'
  BY <1>23 DEF UserEnds, Staged, QueryIsOver, stateVars, sessionVars, serverVars, history
<1>24. ASSUME NEW c \in Catalogs, WriterStops(c) \/ ScanBegins(c) \/ ScanEnds(c)
         \/ Detach(c)
     PROVE  Staged'
  <2>1. UNCHANGED <<txn, phase, stage, pinned, hand, writer, poisoner, closing>>
    BY <1>24 DEF WriterStops, ScanBegins, ScanEnds, Detach, stateVars, duckVars, queryVars,
       sessionVars, serverVars, history
  <2> QED
    BY <2>1 DEF Staged, QueryIsOver
<1>25. ASSUME NEW s \in Sessions, Disconnect(s) \/ LateCommit(s) \/ BorrowerLeaves(s)
     PROVE  Staged'
  <2>1. UNCHANGED <<txn, phase, stage, pinned, hand, writer, poisoner, closing>>
    BY <1>25 DEF Disconnect, LateCommit, BorrowerLeaves, stateVars, duckVars, queryVars,
       sessionVars, serverVars, history
  <2> QED
    BY <2>1 DEF Staged, QueryIsOver
<1>26. CASE UNCHANGED vars
  BY <1>26 DEF vars, stateVars, duckVars, queryVars, sessionVars, serverVars, history,
     Staged, QueryIsOver
<1> QED
  BY <1>1, <1>2, <1>3, <1>4, <1>5, <1>6, <1>7, <1>8, <1>9, <1>10, <1>11, <1>12,
     <1>13,
     <1>14, <1>15, <1>16, <1>17, <1>18, <1>19, <1>20, <1>21, <1>22, <1>23, <1>24, <1>25,
     <1>26
  DEF Next, Statement, QueryStep, EndStep, Environment

LEMMA WriterIsHomeStep ==
    ASSUME WriteAssumption, TypeOK, TypeOK', Staged, Held, WriterIsHome, [Next]_vars
    PROVE  WriterIsHome'
<1> USE DEF TypeOK
<1>1. CASE WriterTaints
  BY <1>1 DEF WriterTaints, WriterIsHome, duckVars, sessionVars, serverVars, history
<1>2. CASE WriterSucceeds
  BY <1>2 DEF WriterSucceeds, WriterIsHome, NoWriter, stateVars, duckVars
<1>3. CASE WriterThrows
  BY <1>3 DEF WriterThrows, WriterIsHome, stateVars, duckVars
<1>4. CASE WriterPoisons
  BY <1>4 DEF WriterPoisons, Poison, WriterIsHome, NoWriter, Refused, duckVars, sessionVars,
     serverVars, history
<1>5. CASE RollbackAll
  BY <1>5 DEF RollbackAll, WriterIsHome, Staged, QueryIsOver, NoWriter, queryVars,
     sessionVars, serverVars, history
<1>6. ASSUME NEW c \in Catalogs, WriterPins(c) PROVE WriterIsHome'
  <2>1. PICK s \in Sessions, call \in Calls :
           /\ PinsSession(c, s)
           /\ writer' = [step |-> IF call = "procedure" THEN "taint" ELSE "execute",
                         call |-> call, catalog |-> c, session |-> s]
    BY <1>6 DEF WriterPins
  <2>2. pinned'[c] = s
    BY <2>1 DEF PinsSession, Leases
  <2>3. Home[s] = c
    BY <2>1 DEF PinsSession, Leases, Held, InOrder, WriteAssumption
  <2> QED
    BY <2>1, <2>2, <2>3 DEF WriterIsHome
<1>7. ASSUME NEW c \in Catalogs, PinThrows(c) PROVE WriterIsHome'
  BY <1>7 DEF PinThrows, WriterIsHome, NoWriter, stateVars, duckVars, sessionVars,
     serverVars
<1>8. ASSUME NEW c \in Catalogs, ScanPins(c) PROVE WriterIsHome'
  BY <1>8 DEF ScanPins, WriterIsHome, NoWriter, duckVars
<1>9. ASSUME NEW c \in Catalogs, ScanPoisons(c) PROVE WriterIsHome'
  BY <1>9 DEF ScanPoisons, Poison, WriterIsHome, Refused, duckVars, sessionVars, serverVars,
     history
<1>10. ASSUME NEW c \in Catalogs, CommitTakes(c) PROVE WriterIsHome'
  BY <1>10 DEF CommitTakes, WriterIsHome, CommitTurn, Staged, QueryIsOver, NoWriter,
     queryVars, sessionVars, serverVars, history
<1>11. ASSUME NEW c \in Catalogs, RollbackTakes(c) PROVE WriterIsHome'
  BY <1>11 DEF RollbackTakes, WriterIsHome, Staged, QueryIsOver, NoWriter, queryVars,
     sessionVars, serverVars, history
<1>12. CASE Begin \/ PoisonCloses \/ CommitReturns \/ RollbackReturns
  <2>1. UNCHANGED <<writer, pinned, failed>>
    BY <1>12 DEF Begin, PoisonCloses, CommitReturns, RollbackReturns, stateVars, duckVars,
       queryVars, sessionVars, serverVars, history
  <2> QED
    BY <2>1 DEF WriterIsHome
<1>13. ASSUME NEW c \in Catalogs, WriterStops(c) \/ ScanBegins(c) \/ ScanThrows(c)
         \/ ScanEnds(c) \/ CommitRefuses(c) \/ CommitAcknowledged(c) \/ CommitThrows(c)
         \/ CommitEnds(c) \/ RollbackAcknowledged(c) \/ RollbackThrows(c) \/ Detach(c)
     PROVE  WriterIsHome'
  <2>1. UNCHANGED <<writer, pinned, failed>>
    BY <1>13 DEF WriterStops, ScanBegins, ScanThrows, ScanEnds, CommitRefuses,
       CommitAcknowledged, CommitThrows, CommitEnds, RollbackAcknowledged, RollbackDone,
       RollbackThrows, Detach, stateVars, duckVars, queryVars, sessionVars, serverVars,
       history
  <2> QED
    BY <2>1 DEF WriterIsHome
<1>14. ASSUME NEW s \in Sessions, Disconnect(s) \/ LateCommit(s) \/ BorrowerLeaves(s)
     PROVE  WriterIsHome'
  <2>1. UNCHANGED <<writer, pinned, failed>>
    BY <1>14 DEF Disconnect, LateCommit, BorrowerLeaves, stateVars, duckVars, queryVars,
       sessionVars, serverVars, history
  <2> QED
    BY <2>1 DEF WriterIsHome
<1>15. ASSUME NEW how \in {"commit", "rollback"}, UserEnds(how)
     PROVE  WriterIsHome'
  <2>1. UNCHANGED <<writer, pinned, failed>>
    BY <1>15 DEF UserEnds, stateVars, sessionVars, serverVars, history
  <2> QED
    BY <2>1 DEF WriterIsHome
<1>16. CASE UNCHANGED vars
  BY <1>16 DEF vars, stateVars, duckVars, queryVars, sessionVars, serverVars, history,
     WriterIsHome
<1> QED
  BY <1>1, <1>2, <1>3, <1>4, <1>5, <1>6, <1>7, <1>8, <1>9, <1>10, <1>11, <1>12,
     <1>13,
     <1>14, <1>15, <1>16
  DEF Next, Statement, QueryStep, EndStep, Environment

LEMMA PinsHeld ==
    ASSUME WriteAssumption, TypeOK, Staged, Held, phase = "active",
           NEW c \in Catalogs, NEW s \in Sessions, PinsSession(c, s),
           UNCHANGED <<phase, stage, hand, txn, closing, work>>
    PROVE  Held'
<1>1. CASE UNCHANGED <<pinned, place, owner>>
  BY <1>1 DEF Held, InOrder
<1>2. CASE Leases(c, s)
  <2>1. /\ s \notin closing /\ work[s] = 0
        /\ \A d \in Catalogs : hand[d] = NoSession /\ pinned[d] # s /\ stage[d] = "todo"
    BY <1>2 DEF Leases, Held, InOrder, Staged, TypeOK, WriteAssumption
  <2>2. \A d \in Catalogs : pinned'[d] # NoSession => InOrder(d, pinned[d])'
    BY <1>2, <2>1 DEF Leases, Held, InOrder, TypeOK, WriteAssumption
  <2>3. /\ \A z \in closing' : place'[z] = "leased"
        /\ \A z \in Sessions : place'[z] \in {"fresh", "idle"} => work'[z] = 0
        /\ \A z \in Sessions : owner'[z] <= txn'
    BY <1>2, <2>1 DEF Leases, Held, TypeOK
  <2> QED
    BY <1>2, <2>1, <2>2, <2>3 DEF Held
<1> QED
  BY <1>1, <1>2 DEF PinsSession

LEMMA HeldStep ==
    ASSUME WriteAssumption, TypeOK, TypeOK', Staged, WriterIsHome, LateIsWhole,
           Held, [Next]_vars
    PROVE  Held'
<1> USE DEF TypeOK, WriteAssumption
<1>1. CASE Begin
  BY <1>1 DEF Begin, Held, InOrder, Staged, stateVars, queryVars, sessionVars, serverVars,
     history
<1>2. CASE WriterSucceeds
  BY <1>2 DEF WriterSucceeds, Held, InOrder, WriterIsHome, Staged, QueryIsOver, NoWriter,
     stateVars, duckVars
<1>3. CASE WriterThrows
  BY <1>3 DEF WriterThrows, Held, InOrder, WriterIsHome, Staged, QueryIsOver, NoWriter,
     stateVars, duckVars
<1>4. CASE WriterPoisons
  BY <1>4 DEF WriterPoisons, Poison, Held, InOrder, PoisonedEntry, WriterIsHome, Staged,
     duckVars, sessionVars, serverVars, history
<1>5. CASE PoisonCloses
  BY <1>5 DEF PoisonCloses, Held, InOrder, Close, Staged, stateVars, duckVars, serverVars,
     history
<1>6. CASE RollbackAll
  BY <1>6 DEF RollbackAll, Held, InOrder, Staged, queryVars, sessionVars, serverVars,
     history
<1>7. ASSUME NEW c \in Catalogs, WriterPins(c) PROVE Held'
  <2>1. PICK s \in Sessions : PinsSession(c, s)
    BY <1>7 DEF WriterPins
  <2> QED
    BY <1>7, <2>1, PinsHeld DEF WriterPins, WriterMayBegin, duckVars
<1>8. ASSUME NEW c \in Catalogs, ScanPins(c) PROVE Held'
  <2>1. PICK s \in Sessions : PinsSession(c, s)
    BY <1>8 DEF ScanPins
  <2> QED
    BY <1>8, <2>1, PinsHeld DEF ScanPins, duckVars
<1>9. ASSUME NEW c \in Catalogs, ScanPoisons(c) PROVE Held'
  BY <1>9 DEF ScanPoisons, Poison, Held, InOrder, PoisonedEntry, Staged, duckVars,
     sessionVars, serverVars, history
<1>10. ASSUME NEW c \in Catalogs, CommitTakes(c) PROVE Held'
  BY <1>10 DEF CommitTakes, Held, InOrder, CommitTurn, Staged, QueryIsOver, queryVars,
     sessionVars, serverVars, history
<1>11. ASSUME NEW c \in Catalogs, CommitAcknowledged(c) PROVE Held'
  BY <1>11 DEF CommitAcknowledged, Held, InOrder, Staged, stateVars, queryVars, sessionVars
<1>12. ASSUME NEW c \in Catalogs, CommitThrows(c) PROVE Held'
  BY <1>12 DEF CommitThrows, Held, InOrder, Close, Staged, queryVars
<1>13. ASSUME NEW c \in Catalogs, CommitEnds(c) PROVE Held'
  BY <1>13 DEF CommitEnds, Held, InOrder, End, Close, Keep, Staged, queryVars, serverVars,
     history
<1>14. ASSUME NEW c \in Catalogs, RollbackTakes(c) PROVE Held'
  BY <1>14 DEF RollbackTakes, Held, InOrder, Staged, queryVars, sessionVars, serverVars,
     history
<1>15. ASSUME NEW c \in Catalogs, RollbackAcknowledged(c) PROVE Held'
  BY <1>15 DEF RollbackAcknowledged, RollbackDone, Held, InOrder, End, Close, Keep, Staged,
     stateVars, queryVars, history
<1>16. ASSUME NEW c \in Catalogs, RollbackThrows(c) PROVE Held'
  BY <1>16 DEF RollbackThrows, RollbackDone, Held, InOrder, Close, Staged, stateVars,
     queryVars, history
<1>17. ASSUME NEW c \in Catalogs, Detach(c) PROVE Held'
  BY <1>17 DEF Detach, Held, InOrder, stateVars, duckVars, queryVars, serverVars, history
<1>18. ASSUME NEW s \in Sessions, Disconnect(s) PROVE Held'
  BY <1>18 DEF Disconnect, Held, InOrder, stateVars, duckVars, queryVars, sessionVars,
     history
<1>19. ASSUME NEW s \in Sessions, LateCommit(s) PROVE Held'
  BY <1>19 DEF LateCommit, Held, InOrder, LateIsWhole, stateVars, duckVars, queryVars,
     sessionVars
<1>20. CASE WriterTaints \/ CommitReturns \/ RollbackReturns
  <2>1. UNCHANGED <<pinned, hand, stage, place, owner, txn, closing, work>>
    BY <1>20 DEF WriterTaints, CommitReturns, RollbackReturns, stateVars, duckVars,
       queryVars, sessionVars, serverVars, history
  <2> QED
    BY <2>1 DEF Held, InOrder
<1>21. ASSUME NEW c \in Catalogs, PinThrows(c) \/ WriterStops(c) \/ ScanBegins(c)
         \/ ScanThrows(c) \/ ScanEnds(c) \/ CommitRefuses(c)
     PROVE  Held'
  <2>1. UNCHANGED <<pinned, hand, stage, place, owner, txn, closing, work>>
    BY <1>21 DEF PinThrows, WriterStops, ScanBegins, ScanThrows, ScanEnds, CommitRefuses,
       stateVars, duckVars, queryVars, sessionVars, serverVars, history
  <2> QED
    BY <2>1 DEF Held, InOrder
<1>22. ASSUME NEW s \in Sessions, BorrowerLeaves(s)
     PROVE  Held'
  <2>1. UNCHANGED <<pinned, hand, stage, place, owner, txn, closing, work>>
    BY <1>22 DEF BorrowerLeaves, stateVars, duckVars, queryVars, serverVars, history
  <2> QED
    BY <2>1 DEF Held, InOrder
<1>23. ASSUME NEW how \in {"commit", "rollback"}, UserEnds(how)
     PROVE  Held'
  <2>1. UNCHANGED <<pinned, hand, stage, place, owner, txn, closing, work>>
    BY <1>23 DEF UserEnds, stateVars, sessionVars, serverVars, history
  <2> QED
    BY <2>1 DEF Held, InOrder
<1>24. CASE UNCHANGED vars
  BY <1>24 DEF vars, stateVars, duckVars, queryVars, sessionVars, serverVars, history, Held,
     InOrder
<1> QED
  BY <1>1, <1>2, <1>3, <1>4, <1>5, <1>6, <1>7, <1>8, <1>9, <1>10, <1>11, <1>12,
     <1>13,
     <1>14, <1>15, <1>16, <1>17, <1>18, <1>19, <1>20, <1>21, <1>22, <1>23, <1>24
  DEF Next, Statement, QueryStep, EndStep, Environment

-----------------------------------------------------------------------------
(* What has been written, and what may still be committed                  *)

LEMMA PinsTallied ==
    ASSUME WriteAssumption, TypeOK, HistoryOK, Staged, Held, Tallied,
           phase = "active",
           NEW c \in Catalogs, NEW s \in Sessions, PinsSession(c, s),
           UNCHANGED <<phase, stage, hand, txn, failed, work, acked, spoiled>>
    PROVE  Tallied'
<1>1. CASE UNCHANGED <<pinned, place, owner>>
  BY <1>1 DEF Tallied, Tally
<1>2. CASE Leases(c, s)
  BY <1>2 DEF Leases, Tallied, Tally, Held, TypeOK, WriteAssumption
<1> QED
  BY <1>1, <1>2 DEF PinsSession

LEMMA TalliedStep ==
    ASSUME WriteAssumption, TypeOK, HistoryOK, TypeOK', Staged, WriterIsHome,
           Held, SpoiledIsRefused, Unbegun, LateIsWhole, Tallied, [Next]_vars
    PROVE  Tallied'
<1> USE DEF TypeOK, HistoryOK
<1>1. CASE Begin
  BY <1>1 DEF Begin, Tallied, Tally, Unbegun, Staged, Numbers, stateVars, queryVars,
     sessionVars, serverVars, history
<1>2. CASE WriterSucceeds
  <2> DEFINE c == writer.catalog  s == writer.session
  <2>1. /\ phase = "active" /\ txn \in Numbers /\ c \in Catalogs /\ s \in Sessions
        /\ pinned[c] = s \/ c \in failed
        /\ Home[s] = c
    BY <1>2 DEF WriterSucceeds, WriterIsHome, Staged, QueryIsOver, NoWriter
  <2>2. \A d \in Catalogs : d # c => pinned[d] # s
    BY <2>1 DEF Held, InOrder, WriteAssumption
  <2>3. \A d \in Catalogs : acked'[txn][d] = IF d = c THEN acked[txn][d] + 1 ELSE acked[txn][d]
    BY <1>2, <2>1 DEF WriterSucceeds, Counts
  <2>4. \A z \in Sessions : work'[z] = IF z = s THEN work[z] + 1 ELSE work[z]
    BY <1>2, <2>1 DEF WriterSucceeds
  <2>5. UNCHANGED <<phase, stage, failed, pinned, hand, txn, spoiled>>
    BY <1>2 DEF WriterSucceeds, stateVars, duckVars
  <2> HIDE DEF c, s
  <2>6. ASSUME NEW d \in Catalogs, d \notin failed
        PROVE  IF pinned[d] = NoSession THEN acked'[txn][d] = 0
               ELSE /\ work'[pinned[d]] >= acked'[txn][d]
                    /\ d \notin spoiled[txn] => work'[pinned[d]] = acked'[txn][d]
    <3>1. acked[txn][d] \in Nat /\ stage[d] = "todo"
      BY <2>1 DEF Counts, Staged
    <3>2. IF pinned[d] = NoSession THEN acked[txn][d] = 0 ELSE Tally(d, pinned[d])
      BY <2>1, <2>6, <3>1 DEF Tallied
    <3>3. CASE d = c
      BY <2>1, <2>3, <2>4, <2>6, <3>1, <3>2, <3>3 DEF Tally, WriteAssumption
    <3>4. CASE d # c
      BY <2>1, <2>2, <2>3, <2>4, <3>1, <3>2, <3>4 DEF Tally
    <3> QED
      BY <3>3, <3>4
  <2> QED
    BY <2>1, <2>5, <2>6 DEF Tallied, Tally
<1>3. CASE WriterThrows
  <2> DEFINE c == writer.catalog  s == writer.session
  <2>1. /\ phase = "active" /\ txn \in Numbers /\ c \in Catalogs /\ s \in Sessions /\ Home[s] = c
    BY <1>3 DEF WriterThrows, WriterIsHome, Staged, QueryIsOver, NoWriter
  <2>2. \A d \in Catalogs : d # c => pinned[d] # s
    BY <2>1 DEF Held, InOrder, WriteAssumption
  <2>3. work'[s] >= work[s] /\ \A z \in Sessions : z # s => work'[z] = work[z]
    BY <1>3, <2>1 DEF WriterThrows
  <2>4. /\ c \in spoiled'[txn]
        /\ \A d \in Catalogs : d # c => (d \in spoiled'[txn] <=> d \in spoiled[txn])
    BY <1>3, <2>1 DEF WriterThrows
  <2>5. UNCHANGED <<phase, stage, failed, pinned, hand, txn, acked>>
    BY <1>3 DEF WriterThrows, stateVars, duckVars
  <2> HIDE DEF c, s
  <2>6. ASSUME NEW d \in Catalogs, d \notin failed
        PROVE  IF pinned[d] = NoSession THEN acked[txn][d] = 0
               ELSE /\ work'[pinned[d]] >= acked[txn][d]
                    /\ d \notin spoiled'[txn] => work'[pinned[d]] = acked[txn][d]
    <3>1. IF pinned[d] = NoSession THEN acked[txn][d] = 0 ELSE Tally(d, pinned[d])
      BY <2>1, <2>6 DEF Tallied, Staged
    <3>2. acked[txn][d] \in Nat /\ work'[s] \in Nat /\ work[s] \in Nat
      BY <2>1 DEF Counts
    <3>3. CASE d = c
      BY <2>1, <2>3, <2>4, <3>1, <3>2, <3>3 DEF Tally
    <3>4. CASE d # c
      BY <2>1, <2>2, <2>3, <2>4, <3>1, <3>2, <3>4 DEF Tally
    <3> QED
      BY <3>3, <3>4
  <2> QED
    BY <2>1, <2>5, <2>6 DEF Tallied, Tally
<1>4. CASE WriterPoisons
  BY <1>4 DEF WriterPoisons, Poison, Tallied, Tally, Staged, PoisonedEntry, Refused,
     WriterIsHome, duckVars, sessionVars, serverVars, history
<1>5. CASE CommitReturns
  BY <1>5 DEF CommitReturns, Tallied, Tally, stateVars, queryVars, sessionVars, serverVars
<1>6. CASE RollbackAll
  BY <1>6 DEF RollbackAll, Tallied, Tally, queryVars, sessionVars, serverVars, history
<1>7. CASE RollbackReturns
  BY <1>7 DEF RollbackReturns, Tallied, Tally, stateVars, queryVars, sessionVars, serverVars
<1>8. ASSUME NEW c \in Catalogs, WriterPins(c) PROVE Tallied'
  <2>1. PICK s \in Sessions : PinsSession(c, s)
    BY <1>8 DEF WriterPins
  <2> QED
    BY <1>8, <2>1, PinsTallied DEF WriterPins, WriterMayBegin, duckVars
<1>9. ASSUME NEW c \in Catalogs, ScanPins(c) PROVE Tallied'
  <2>1. PICK s \in Sessions : PinsSession(c, s)
    BY <1>9 DEF ScanPins
  <2> QED
    BY <1>9, <2>1, PinsTallied DEF ScanPins, duckVars
<1>10. ASSUME NEW c \in Catalogs, PinThrows(c) PROVE Tallied'
  BY <1>10 DEF PinThrows, Tallied, Tally, Staged, WriterMayBegin, stateVars, duckVars,
     sessionVars, serverVars
<1>11. ASSUME NEW c \in Catalogs, WriterStops(c) PROVE Tallied'
  BY <1>11 DEF WriterStops, Tallied, Tally, Staged, WriterMayBegin, stateVars, queryVars,
     sessionVars, serverVars
<1>12. ASSUME NEW c \in Catalogs, ScanThrows(c) PROVE Tallied'
  BY <1>12 DEF ScanThrows, Tallied, Tally, Staged, stateVars, duckVars, serverVars
<1>13. ASSUME NEW c \in Catalogs, ScanPoisons(c) PROVE Tallied'
  BY <1>13 DEF ScanPoisons, Poison, Tallied, Tally, Staged, PoisonedEntry, Refused,
     duckVars, sessionVars, serverVars, history
<1>14. ASSUME NEW c \in Catalogs, CommitRefuses(c) PROVE Tallied'
  BY <1>14 DEF CommitRefuses, Tallied, Tally, stateVars, queryVars, sessionVars, serverVars
<1>15. ASSUME NEW c \in Catalogs, CommitTakes(c) PROVE Tallied'
  BY <1>15 DEF CommitTakes, Tallied, Tally, CommitTurn, CommitMayStart, SpoiledIsRefused,
     Staged, queryVars, sessionVars, serverVars, history
<1>16. ASSUME NEW c \in Catalogs, CommitAcknowledged(c) PROVE Tallied'
  BY <1>16 DEF CommitAcknowledged, Tallied, Tally, Staged, Held, InOrder, stateVars,
     queryVars, sessionVars
<1>17. ASSUME NEW c \in Catalogs, CommitThrows(c) PROVE Tallied'
  BY <1>17 DEF CommitThrows, Tallied, Tally, queryVars
<1>18. ASSUME NEW c \in Catalogs, CommitEnds(c) PROVE Tallied'
  BY <1>18 DEF CommitEnds, Tallied, Tally, Staged, queryVars, serverVars, history
<1>19. ASSUME NEW c \in Catalogs, RollbackTakes(c) PROVE Tallied'
  BY <1>19 DEF RollbackTakes, Tallied, Tally, queryVars, sessionVars, serverVars, history
<1>20. ASSUME NEW c \in Catalogs, RollbackAcknowledged(c) PROVE Tallied'
  BY <1>20 DEF RollbackAcknowledged, RollbackDone, Tallied, Tally, stateVars, queryVars,
     history
<1>21. ASSUME NEW c \in Catalogs, RollbackThrows(c) PROVE Tallied'
  BY <1>21 DEF RollbackThrows, RollbackDone, Tallied, Tally, Staged, stateVars, queryVars,
     history
<1>22. ASSUME NEW s \in Sessions, Disconnect(s) PROVE Tallied'
  BY <1>22 DEF Disconnect, Tallied, Tally, Held, InOrder, Staged, stateVars, duckVars,
     queryVars, sessionVars, history
<1>23. ASSUME NEW s \in Sessions, LateCommit(s) PROVE Tallied'
  BY <1>23 DEF LateCommit, Tallied, Tally, LateIsWhole, Held, InOrder, Staged, stateVars,
     duckVars, queryVars, sessionVars
<1>24. ASSUME NEW how \in {"commit", "rollback"}, UserEnds(how) PROVE Tallied'
  BY <1>24 DEF UserEnds, Tallied, Tally, Staged, stateVars, sessionVars, serverVars, history
<1>25. CASE WriterTaints \/ PoisonCloses
  <2>1. UNCHANGED <<phase, stage, failed, pinned, hand, acked, txn, work, spoiled>>
    BY <1>25 DEF WriterTaints, PoisonCloses, stateVars, duckVars, sessionVars, serverVars,
       history
  <2> QED
    BY <2>1 DEF Tallied, Tally
<1>26. ASSUME NEW c \in Catalogs, ScanBegins(c) \/ ScanEnds(c) \/ Detach(c)
     PROVE  Tallied'
  <2>1. UNCHANGED <<phase, stage, failed, pinned, hand, acked, txn, work, spoiled>>
    BY <1>26 DEF ScanBegins, ScanEnds, Detach, stateVars, duckVars, queryVars, sessionVars,
       serverVars, history
  <2> QED
    BY <2>1 DEF Tallied, Tally
<1>27. ASSUME NEW s \in Sessions, BorrowerLeaves(s)
     PROVE  Tallied'
  <2>1. UNCHANGED <<phase, stage, failed, pinned, hand, acked, txn, work, spoiled>>
    BY <1>27 DEF BorrowerLeaves, stateVars, duckVars, queryVars, serverVars, history
  <2> QED
    BY <2>1 DEF Tallied, Tally
<1>28. CASE UNCHANGED vars
  BY <1>28 DEF vars, stateVars, duckVars, queryVars, sessionVars, serverVars, history,
     Tallied, Tally
<1> QED
  BY <1>1, <1>2, <1>3, <1>4, <1>5, <1>6, <1>7, <1>8, <1>9, <1>10, <1>11, <1>12,
     <1>13,
     <1>14, <1>15, <1>16, <1>17, <1>18, <1>19, <1>20, <1>21, <1>22, <1>23, <1>24, <1>25,
     <1>26, <1>27, <1>28
  DEF Next, Statement, QueryStep, EndStep, Environment

LEMMA SpoiledIsRefusedStep ==
    ASSUME WriteAssumption, TypeOK, HistoryOK, TypeOK', Staged, WriterIsHome,
           Unbegun, SpoiledIsRefused, [Next]_vars
    PROVE  SpoiledIsRefused'
<1> USE DEF TypeOK, HistoryOK
<1>1. CASE Begin
  BY <1>1 DEF Begin, SpoiledIsRefused, Unbegun, Numbers, stateVars, queryVars, sessionVars,
     serverVars, history
<1>2. CASE WriterTaints
  BY <1>2 DEF WriterTaints, SpoiledIsRefused, duckVars, sessionVars, serverVars, history
<1>3. CASE WriterSucceeds
  BY <1>3 DEF WriterSucceeds, SpoiledIsRefused, NoWriter, stateVars, duckVars
<1>4. CASE WriterThrows
  BY <1>4 DEF WriterThrows, SpoiledIsRefused, Staged, QueryIsOver, NoWriter, stateVars,
     duckVars
<1>5. CASE WriterPoisons
  BY <1>5 DEF WriterPoisons, Poison, SpoiledIsRefused, Refused, NoWriter, duckVars,
     sessionVars, serverVars, history
<1>6. CASE CommitReturns
  BY <1>6 DEF CommitReturns, SpoiledIsRefused, stateVars, queryVars, sessionVars, serverVars
<1>7. CASE RollbackAll
  BY <1>7 DEF RollbackAll, SpoiledIsRefused, queryVars, sessionVars, serverVars, history
<1>8. CASE RollbackReturns
  BY <1>8 DEF RollbackReturns, SpoiledIsRefused, stateVars, queryVars, sessionVars,
     serverVars
<1>9. ASSUME NEW c \in Catalogs, WriterPins(c) PROVE SpoiledIsRefused'
  BY <1>9 DEF WriterPins, SpoiledIsRefused, WriterMayBegin, NoWriter, duckVars
<1>10. ASSUME NEW c \in Catalogs, PinThrows(c) PROVE SpoiledIsRefused'
  BY <1>10 DEF PinThrows, SpoiledIsRefused, WriterMayBegin, NoWriter, Staged, stateVars,
     duckVars, sessionVars, serverVars
<1>11. ASSUME NEW c \in Catalogs, WriterStops(c) PROVE SpoiledIsRefused'
  BY <1>11 DEF WriterStops, SpoiledIsRefused, WriterMayBegin, Staged, stateVars, queryVars,
     sessionVars, serverVars
<1>12. ASSUME NEW c \in Catalogs, ScanThrows(c) PROVE SpoiledIsRefused'
  BY <1>12 DEF ScanThrows, SpoiledIsRefused, Staged, stateVars, duckVars, serverVars
<1>13. ASSUME NEW c \in Catalogs, ScanPoisons(c) PROVE SpoiledIsRefused'
  BY <1>13 DEF ScanPoisons, Poison, SpoiledIsRefused, Refused, Staged, duckVars,
     sessionVars, serverVars, history
<1>14. ASSUME NEW c \in Catalogs, CommitRefuses(c) PROVE SpoiledIsRefused'
  BY <1>14 DEF CommitRefuses, SpoiledIsRefused, stateVars, queryVars, sessionVars,
     serverVars
<1>15. ASSUME NEW c \in Catalogs, CommitThrows(c) PROVE SpoiledIsRefused'
  BY <1>15 DEF CommitThrows, SpoiledIsRefused, queryVars
<1>16. ASSUME NEW c \in Catalogs, RollbackTakes(c) PROVE SpoiledIsRefused'
  BY <1>16 DEF RollbackTakes, SpoiledIsRefused, queryVars, sessionVars, serverVars, history
<1>17. ASSUME NEW how \in {"commit", "rollback"}, UserEnds(how) PROVE SpoiledIsRefused'
  BY <1>17 DEF UserEnds, SpoiledIsRefused, QueryIsOver, NoWriter, stateVars, sessionVars,
     serverVars, history
<1>18. CASE PoisonCloses
  <2>1. UNCHANGED <<phase, spoiled, failed, invalidated, poisoner, writer, txn>>
    BY <1>18 DEF PoisonCloses, stateVars, duckVars, serverVars, history
  <2> QED
    BY <2>1 DEF SpoiledIsRefused
<1>19. ASSUME NEW c \in Catalogs, ScanPins(c) \/ ScanBegins(c) \/ ScanEnds(c)
         \/ CommitTakes(c) \/ CommitAcknowledged(c) \/ CommitEnds(c)
         \/ RollbackAcknowledged(c) \/ RollbackThrows(c) \/ Detach(c)
     PROVE  SpoiledIsRefused'
  <2>1. UNCHANGED <<phase, spoiled, failed, invalidated, poisoner, writer, txn>>
    BY <1>19 DEF ScanPins, ScanBegins, ScanEnds, CommitTakes, CommitAcknowledged,
       CommitEnds, RollbackAcknowledged, RollbackDone, RollbackThrows, Detach, stateVars,
       duckVars, queryVars, sessionVars, serverVars, history
  <2> QED
    BY <2>1 DEF SpoiledIsRefused
<1>20. ASSUME NEW s \in Sessions, Disconnect(s) \/ LateCommit(s) \/ BorrowerLeaves(s)
     PROVE  SpoiledIsRefused'
  <2>1. UNCHANGED <<phase, spoiled, failed, invalidated, poisoner, writer, txn>>
    BY <1>20 DEF Disconnect, LateCommit, BorrowerLeaves, stateVars, duckVars, queryVars,
       sessionVars, serverVars, history
  <2> QED
    BY <2>1 DEF SpoiledIsRefused
<1>21. CASE UNCHANGED vars
  BY <1>21 DEF vars, stateVars, duckVars, queryVars, sessionVars, serverVars, history,
     SpoiledIsRefused
<1> QED
  BY <1>1, <1>2, <1>3, <1>4, <1>5, <1>6, <1>7, <1>8, <1>9, <1>10, <1>11, <1>12,
     <1>13,
     <1>14, <1>15, <1>16, <1>17, <1>18, <1>19, <1>20, <1>21
  DEF Next, Statement, QueryStep, EndStep, Environment

LEMMA PinsKeepsLate ==
    ASSUME TypeOK, LateIsWhole, NEW c \in Catalogs, NEW s \in Sessions,
           PinsSession(c, s)
    PROVE  \A z \in late : owner'[z] = owner[z] /\ place'[z] = place[z]
BY DEF TypeOK, LateIsWhole, PinsSession, Leases

(* What each step does to what is written, reported or made durable.       *)
LEMMA WriterCounts ==
    ASSUME TypeOK, HistoryOK, Staged, WriterIsHome, WriterSucceeds
    PROVE  /\ phase = "active" /\ txn \in Numbers
           /\ writer.catalog \in Catalogs /\ writer.session \in Sessions
           /\ \A n \in Numbers, d \in Catalogs : n # txn => acked'[n][d] = acked[n][d]
<1>1. /\ phase = "active" /\ txn \in Numbers
      /\ writer.catalog \in Catalogs /\ writer.session \in Sessions
  BY DEF WriterSucceeds, WriterIsHome, Staged, QueryIsOver, NoWriter
<1> QED
  BY <1>1 DEF WriterSucceeds, HistoryOK, Counts

LEMMA WriterSpoils ==
    ASSUME TypeOK, HistoryOK, Staged, WriterIsHome, WriterThrows
    PROVE  /\ phase = "active" /\ txn \in Numbers /\ writer.session \in Sessions
           /\ \A n \in Numbers : n # txn => spoiled'[n] = spoiled[n]
<1>1. phase = "active" /\ txn \in Numbers /\ writer.session \in Sessions
  BY DEF WriterThrows, WriterIsHome, Staged, QueryIsOver, NoWriter
<1> QED
  BY <1>1 DEF WriterThrows, HistoryOK

LEMMA ScanSpoils ==
    ASSUME TypeOK, HistoryOK, Staged, NEW c \in Catalogs, ScanThrows(c)
    PROVE  /\ phase = "active" /\ txn \in Numbers
           /\ \A n \in Numbers : n # txn => spoiled'[n] = spoiled[n]
           /\ UNCHANGED <<stateVars, duckVars, writer, closing, pools, place, serverVars, acked,
                          durable, told, about>>
BY DEF HistoryOK, Staged, ScanThrows

LEMMA CommitAdds ==
    ASSUME TypeOK, HistoryOK, Staged, Held, NEW c \in Catalogs,
           CommitAcknowledged(c)
    PROVE  /\ hand[c] \in Sessions /\ InOrder(c, hand[c]) /\ txn \in Numbers
           /\ work[hand[c]] \in Nat /\ phase = "commit" /\ stage[c] = "taken"
           /\ durable'[txn][c] = durable[txn][c] + work[hand[c]]
           /\ \A n \in Numbers, d \in Catalogs : n # txn \/ d # c => durable'[n][d] = durable[n][d]
<1>1. /\ hand[c] \in Sessions /\ InOrder(c, hand[c]) /\ txn \in Numbers
      /\ work[hand[c]] \in Nat /\ phase = "commit" /\ stage[c] = "taken"
  BY DEF CommitAcknowledged, Staged, Held, TypeOK
<1>2. durable' = [durable EXCEPT ![txn][c] = @ + work[hand[c]]]
  BY <1>1 DEF CommitAcknowledged, InOrder
<1> QED
  BY <1>1, <1>2 DEF HistoryOK, Counts

LEMMA LateCommitAdds ==
    ASSUME WriteAssumption, TypeOK, HistoryOK, Held, LateIsWhole,
           NEW s \in Sessions, LateCommit(s)
    PROVE  /\ owner[s] \in Numbers /\ Home[s] \in Catalogs /\ work[s] \in Nat /\ s \in late
           /\ durable[owner[s]][Home[s]] = 0 /\ work[s] = acked[owner[s]][Home[s]]
           /\ Home[s] \notin spoiled[owner[s]] /\ owner[s] <= txn
           /\ durable'[owner[s]][Home[s]] = acked[owner[s]][Home[s]]
           /\ \A n \in Numbers, d \in Catalogs :
                 n # owner[s] \/ d # Home[s] => durable'[n][d] = durable[n][d]
<1>1. /\ owner[s] \in Numbers /\ Home[s] \in Catalogs /\ work[s] \in Nat /\ s \in late
      /\ durable[owner[s]][Home[s]] = 0 /\ work[s] = acked[owner[s]][Home[s]]
      /\ Home[s] \notin spoiled[owner[s]] /\ owner[s] <= txn
  BY DEF WriteAssumption, TypeOK, LateCommit, LateIsWhole, Held
<1>2. durable' = [durable EXCEPT ![owner[s]][Home[s]] = @ + work[s]]
  BY DEF LateCommit
<1> QED
  BY <1>1, <1>2 DEF HistoryOK, Counts

LEMMA UntouchedStep ==
    ASSUME WriteAssumption, TypeOK, HistoryOK, TypeOK', HistoryOK', Staged,
           WriterIsHome, Held, LateIsWhole, Unbegun, Untouched, [Next]_vars
    PROVE  Untouched'
<1>t. /\ txn \in Nat /\ txn' \in Nat /\ Numbers \subseteq Nat
      /\ \A s \in late : s \in Sessions /\ Home[s] \in Catalogs
  BY DEF TypeOK, WriteAssumption, Numbers
<1> USE DEF TypeOK, HistoryOK, WriteAssumption
<1>1. CASE Begin
  <2>1. txn' \in Numbers /\ txn' > txn /\ UNCHANGED <<late, owner, durable>>
    BY <1>1 DEF Begin, Numbers, serverVars, sessionVars, history
  <2>2. \A s \in late : owner[s] # txn'
    BY <1>t, <2>1 DEF Held
  <2> QED
    BY <2>1, <2>2 DEF Unbegun, Untouched, NoneLate
<1>2. CASE CommitReturns
  BY <1>2 DEF CommitReturns, Untouched, NoneLate, stateVars, queryVars, sessionVars,
     serverVars
<1>3. CASE RollbackAll
  BY <1>3 DEF RollbackAll, Untouched, NoneLate, queryVars, sessionVars, serverVars, history
<1>4. CASE RollbackReturns
  BY <1>4 DEF RollbackReturns, Untouched, NoneLate, stateVars, queryVars, sessionVars,
     serverVars
<1>5. ASSUME NEW c \in Catalogs, WriterPins(c) PROVE Untouched'
  <2>1. PICK s \in Sessions : PinsSession(c, s)
    BY <1>5 DEF WriterPins
  <2> QED
    BY <1>5, <2>1, PinsKeepsLate DEF WriterPins, duckVars, Untouched, NoneLate
<1>6. ASSUME NEW c \in Catalogs, ScanPins(c) PROVE Untouched'
  <2>1. PICK s \in Sessions : PinsSession(c, s)
    BY <1>6 DEF ScanPins
  <2> QED
    BY <1>6, <2>1, PinsKeepsLate DEF ScanPins, duckVars, Untouched, NoneLate
<1>7. ASSUME NEW c \in Catalogs, CommitRefuses(c) PROVE Untouched'
  BY <1>7 DEF CommitRefuses, Untouched, NoneLate, stateVars, queryVars, sessionVars,
     serverVars
<1>8. ASSUME NEW c \in Catalogs, CommitTakes(c) PROVE Untouched'
  BY <1>8 DEF CommitTakes, Untouched, NoneLate, CommitTurn, queryVars, sessionVars,
     serverVars, history
<1>9. ASSUME NEW c \in Catalogs, CommitAcknowledged(c) PROVE Untouched'
  <2>1. /\ \A d \in Catalogs : stage'[d] = IF d = c THEN "acked" ELSE stage[d]
        /\ UNCHANGED <<phase, txn, late, owner>>
    BY <1>9 DEF CommitAcknowledged
  <2> HIDE DEF TypeOK, HistoryOK, WriteAssumption
  <2> QED
    BY <1>t, <1>9, CommitAdds, <2>1 DEF Untouched, NoneLate
<1>10. ASSUME NEW c \in Catalogs, CommitThrows(c) PROVE Untouched'
  BY <1>10 DEF CommitThrows, Untouched, NoneLate, Held, InOrder, Staged, queryVars
<1>11. ASSUME NEW c \in Catalogs, CommitEnds(c) PROVE Untouched'
  BY <1>11 DEF CommitEnds, Untouched, NoneLate, queryVars, serverVars, history
<1>12. ASSUME NEW c \in Catalogs, RollbackTakes(c) PROVE Untouched'
  BY <1>12 DEF RollbackTakes, Untouched, NoneLate, queryVars, sessionVars, serverVars,
     history
<1>13. ASSUME NEW c \in Catalogs, RollbackAcknowledged(c) PROVE Untouched'
  BY <1>13 DEF RollbackAcknowledged, RollbackDone, Untouched, NoneLate, Staged, stateVars,
     queryVars, history
<1>14. ASSUME NEW c \in Catalogs, RollbackThrows(c) PROVE Untouched'
  BY <1>14 DEF RollbackThrows, RollbackDone, Untouched, NoneLate, Staged, stateVars,
     queryVars, history
<1>15. ASSUME NEW s \in Sessions, Disconnect(s) PROVE Untouched'
  BY <1>15 DEF Disconnect, Untouched, NoneLate, stateVars, duckVars, queryVars, sessionVars,
     history
<1>16. ASSUME NEW s \in Sessions, LateCommit(s) PROVE Untouched'
  <2>1. late' = late \ {s} /\ UNCHANGED <<phase, stage, txn, owner>>
    BY <1>16 DEF LateCommit, duckVars
  <2>2. ASSUME NEW d \in Catalogs,
               phase = "active" \/ (phase = "commit" /\ stage[d] \in {"todo", "taken"})
        PROVE  durable'[txn][d] = 0 /\ NoneLate(txn, d)'
    <3>1. txn \in Numbers /\ durable[txn][d] = 0 /\ NoneLate(txn, d)
      BY <2>2 DEF Staged, Untouched
    <3>2. owner[s] # txn \/ Home[s] # d
      BY <1>16, LateCommitAdds, <3>1 DEF NoneLate
    <3> QED
      BY <1>16, LateCommitAdds, <2>1, <3>1, <3>2 DEF NoneLate
  <2> HIDE DEF TypeOK, HistoryOK, WriteAssumption
  <2> QED
    BY <1>t, <2>1, <2>2 DEF Untouched
<1>17. ASSUME NEW how \in {"commit", "rollback"}, UserEnds(how) PROVE Untouched'
  BY <1>17 DEF UserEnds, Untouched, NoneLate, Staged, stateVars, sessionVars, serverVars,
     history
<1>18. CASE WriterTaints \/ WriterSucceeds \/ WriterThrows \/ WriterPoisons \/ PoisonCloses
  <2>1. UNCHANGED <<phase, stage, durable, txn, late, owner>>
    BY <1>18 DEF WriterTaints, WriterSucceeds, WriterThrows, WriterPoisons, Poison,
       PoisonCloses, stateVars, duckVars, sessionVars, serverVars, history
  <2> QED
    BY <2>1 DEF Untouched, NoneLate
<1>19. ASSUME NEW c \in Catalogs, PinThrows(c) \/ WriterStops(c) \/ ScanBegins(c)
         \/ ScanThrows(c) \/ ScanEnds(c) \/ ScanPoisons(c) \/ Detach(c)
     PROVE  Untouched'
  <2>1. UNCHANGED <<phase, stage, durable, txn, late, owner>>
    BY <1>19 DEF PinThrows, WriterStops, ScanBegins, ScanThrows, ScanEnds, ScanPoisons,
       Poison, Detach, stateVars, duckVars, queryVars, sessionVars, serverVars, history
  <2> QED
    BY <2>1 DEF Untouched, NoneLate
<1>20. ASSUME NEW s \in Sessions, BorrowerLeaves(s)
     PROVE  Untouched'
  <2>1. UNCHANGED <<phase, stage, durable, txn, late, owner>>
    BY <1>20 DEF BorrowerLeaves, stateVars, duckVars, queryVars, serverVars, history
  <2> QED
    BY <2>1 DEF Untouched, NoneLate
<1>21. CASE UNCHANGED vars
  BY <1>21 DEF vars, stateVars, duckVars, queryVars, sessionVars, serverVars, history,
     Untouched, NoneLate
<1> QED
  BY <1>1, <1>2, <1>3, <1>4, <1>5, <1>6, <1>7, <1>8, <1>9, <1>10, <1>11, <1>12,
     <1>13,
     <1>14, <1>15, <1>16, <1>17, <1>18, <1>19, <1>20, <1>21
  DEF Next, Statement, QueryStep, EndStep, Environment

LEMMA UnbegunStep ==
    ASSUME WriteAssumption, TypeOK, HistoryOK, TypeOK', Staged, WriterIsHome,
           Held, LateIsWhole, Unbegun, [Next]_vars
    PROVE  Unbegun'
<1>t. /\ txn \in Nat /\ txn' \in Nat /\ Numbers \subseteq Nat
      /\ \A s \in late : s \in Sessions /\ Home[s] \in Catalogs
  BY DEF TypeOK, WriteAssumption, Numbers
<1>u. \A n \in Numbers : n > txn => n # txn
  BY <1>t
<1> USE DEF TypeOK, HistoryOK, WriteAssumption
<1>1. CASE Begin
  BY <1>1 DEF Begin, Unbegun, Numbers, stateVars, queryVars, sessionVars, serverVars,
     history
<1>2. CASE WriterSucceeds
  <2>1. UNCHANGED <<txn, durable, spoiled>>
    BY <1>2 DEF WriterSucceeds, duckVars
  <2> HIDE DEF TypeOK, HistoryOK, WriteAssumption
  <2>2. ASSUME NEW n \in Numbers, NEW d \in Catalogs, n > txn
        PROVE  acked'[n][d] = 0 /\ durable[n][d] = 0 /\ d \notin spoiled[n]
    BY <1>t, <1>2, WriterCounts, <2>2 DEF Unbegun
  <2> QED
    BY <2>1, <2>2 DEF Unbegun
<1>3. CASE WriterThrows
  <2>1. UNCHANGED <<txn, durable, acked>>
    BY <1>3 DEF WriterThrows, duckVars
  <2> HIDE DEF TypeOK, HistoryOK, WriteAssumption
  <2>2. \A n \in Numbers : n > txn => spoiled'[n] = spoiled[n]
    BY <1>u, <1>3, WriterSpoils
  <2> QED
    BY <2>1, <2>2 DEF Unbegun
<1>4. ASSUME NEW c \in Catalogs, PinThrows(c) PROVE Unbegun'
  BY <1>4 DEF PinThrows, Unbegun, WriterMayBegin, Staged, Numbers, stateVars, duckVars,
     sessionVars, serverVars
<1>5. ASSUME NEW c \in Catalogs, WriterStops(c) PROVE Unbegun'
  BY <1>5 DEF WriterStops, Unbegun, WriterMayBegin, Staged, Numbers, stateVars, queryVars,
     sessionVars, serverVars
<1>6. ASSUME NEW c \in Catalogs, ScanThrows(c) PROVE Unbegun'
  <2>1. /\ phase = "active" /\ txn \in Numbers
        /\ \A n \in Numbers : n # txn => spoiled'[n] = spoiled[n]
        /\ UNCHANGED <<txn, acked, durable>>
    BY <1>6, ScanSpoils DEF duckVars
  <2> HIDE DEF TypeOK, HistoryOK, WriteAssumption
  <2>2. \A n \in Numbers : n > txn => spoiled'[n] = spoiled[n]
    BY <1>u, <2>1
  <2> QED
    BY <2>1, <2>2 DEF Unbegun
<1>7. ASSUME NEW c \in Catalogs, CommitAcknowledged(c) PROVE Unbegun'
  <2>1. UNCHANGED <<txn, acked, spoiled>>
    BY <1>7 DEF CommitAcknowledged
  <2> HIDE DEF TypeOK, HistoryOK, WriteAssumption
  <2> QED
    BY <1>t, <1>7, CommitAdds, <2>1 DEF Unbegun
<1>8. ASSUME NEW s \in Sessions, LateCommit(s) PROVE Unbegun'
  <2>1. UNCHANGED <<txn, acked, spoiled>>
    BY <1>8 DEF LateCommit, duckVars
  <2> HIDE DEF TypeOK, HistoryOK, WriteAssumption
  <2>2. owner[s] \in Numbers /\ owner[s] <= txn
    BY <1>8, LateCommitAdds
  <2>3. \A n \in Numbers : n > txn => n # owner[s]
    BY <1>t, <2>2
  <2>4. \A n \in Numbers, d \in Catalogs : n > txn => durable'[n][d] = durable[n][d]
    BY <1>8, <2>3, LateCommitAdds
  <2> QED
    BY <2>1, <2>4 DEF Unbegun
<1>9. CASE WriterTaints \/ WriterPoisons \/ PoisonCloses \/ CommitReturns \/ RollbackAll
         \/ RollbackReturns
  <2>1. UNCHANGED <<txn, acked, durable, spoiled>>
    BY <1>9 DEF WriterTaints, WriterPoisons, Poison, PoisonCloses, CommitReturns,
       RollbackAll, RollbackReturns, stateVars, duckVars, queryVars, sessionVars,
       serverVars, history
  <2> QED
    BY <2>1 DEF Unbegun
<1>10. ASSUME NEW c \in Catalogs, WriterPins(c) \/ ScanPins(c) \/ ScanBegins(c)
         \/ ScanEnds(c) \/ ScanPoisons(c) \/ CommitRefuses(c) \/ CommitTakes(c)
         \/ CommitThrows(c) \/ CommitEnds(c) \/ RollbackTakes(c) \/ RollbackAcknowledged(c)
         \/ RollbackThrows(c) \/ Detach(c)
     PROVE  Unbegun'
  <2>1. UNCHANGED <<txn, acked, durable, spoiled>>
    BY <1>10 DEF WriterPins, ScanPins, ScanBegins, ScanEnds, ScanPoisons, Poison,
       CommitRefuses, CommitTakes, CommitThrows, CommitEnds, RollbackTakes,
       RollbackAcknowledged, RollbackDone, RollbackThrows, Detach, stateVars, duckVars,
       queryVars, sessionVars, serverVars, history
  <2> QED
    BY <2>1 DEF Unbegun
<1>11. ASSUME NEW s \in Sessions, Disconnect(s) \/ BorrowerLeaves(s)
     PROVE  Unbegun'
  <2>1. UNCHANGED <<txn, acked, durable, spoiled>>
    BY <1>11 DEF Disconnect, BorrowerLeaves, stateVars, duckVars, queryVars, sessionVars,
       serverVars, history
  <2> QED
    BY <2>1 DEF Unbegun
<1>12. ASSUME NEW how \in {"commit", "rollback"}, UserEnds(how)
     PROVE  Unbegun'
  <2>1. UNCHANGED <<txn, acked, durable, spoiled>>
    BY <1>12 DEF UserEnds, stateVars, sessionVars, serverVars, history
  <2> QED
    BY <2>1 DEF Unbegun
<1>13. CASE UNCHANGED vars
  BY <1>13 DEF vars, stateVars, duckVars, queryVars, sessionVars, serverVars, history,
     Unbegun
<1> QED
  BY <1>1, <1>2, <1>3, <1>4, <1>5, <1>6, <1>7, <1>8, <1>9, <1>10, <1>11, <1>12,
     <1>13
  DEF Next, Statement, QueryStep, EndStep, Environment

LEMMA LateIsWholeStep ==
    ASSUME WriteAssumption, TypeOK, HistoryOK, TypeOK', Staged, WriterIsHome,
           Held, Tallied, Untouched, LateIsWhole, [Next]_vars
    PROVE  LateIsWhole'
<1>t. /\ txn \in Nat /\ txn' \in Nat /\ Numbers \subseteq Nat
      /\ \A s \in late : s \in Sessions /\ Home[s] \in Catalogs
  BY DEF TypeOK, WriteAssumption, Numbers
<1> USE DEF TypeOK, HistoryOK, WriteAssumption
<1>1. CASE WriterSucceeds
  <2>1. UNCHANGED <<late, place, owner, durable, spoiled>>
    BY <1>1 DEF WriterSucceeds
  <2>2. \A z \in late : owner[z] # txn
    BY <1>1, WriterCounts DEF Untouched, NoneLate
  <2>3. \A z \in late : work'[z] = work[z]
    BY <1>1, WriterCounts DEF WriterSucceeds, LateIsWhole
  <2>4. \A z \in late : acked'[owner[z]][Home[z]] = acked[owner[z]][Home[z]]
    BY <1>1, WriterCounts, <2>2 DEF LateIsWhole
  <2> HIDE DEF TypeOK, HistoryOK, WriteAssumption
  <2> QED
    BY <1>t, <2>1, <2>3, <2>4 DEF LateIsWhole
<1>2. CASE WriterThrows
  <2>1. UNCHANGED <<late, place, owner, durable, acked>>
    BY <1>2 DEF WriterThrows
  <2>2. \A z \in late : owner[z] # txn
    BY <1>2, WriterSpoils DEF Untouched, NoneLate
  <2>3. \A z \in late : work'[z] = work[z]
    BY <1>2, WriterSpoils DEF WriterThrows, LateIsWhole
  <2> HIDE DEF TypeOK, HistoryOK, WriteAssumption
  <2> QED
    BY <1>t, <1>2, WriterSpoils, <2>1, <2>2, <2>3 DEF LateIsWhole
<1>3. CASE PoisonCloses
  BY <1>3 DEF PoisonCloses, LateIsWhole, Close, Held, stateVars, duckVars, serverVars,
     history
<1>4. ASSUME NEW c \in Catalogs, WriterPins(c) PROVE LateIsWhole'
  <2>1. PICK s \in Sessions : PinsSession(c, s)
    BY <1>4 DEF WriterPins
  <2> QED
    BY <1>4, <2>1, PinsKeepsLate DEF WriterPins, LateIsWhole
<1>5. ASSUME NEW c \in Catalogs, ScanPins(c) PROVE LateIsWhole'
  <2>1. PICK s \in Sessions : PinsSession(c, s)
    BY <1>5 DEF ScanPins
  <2> QED
    BY <1>5, <2>1, PinsKeepsLate DEF ScanPins, LateIsWhole
<1>6. ASSUME NEW c \in Catalogs, PinThrows(c) PROVE LateIsWhole'
  BY <1>6 DEF PinThrows, LateIsWhole, WriterMayBegin, Staged, Untouched, NoneLate,
     stateVars, duckVars, sessionVars, serverVars
<1>7. ASSUME NEW c \in Catalogs, WriterStops(c) PROVE LateIsWhole'
  BY <1>7 DEF WriterStops, LateIsWhole, WriterMayBegin, Staged, Untouched, NoneLate,
     stateVars, queryVars, sessionVars, serverVars
<1>8. ASSUME NEW c \in Catalogs, ScanThrows(c) PROVE LateIsWhole'
  <2>1. \A z \in late : owner[z] # txn
    BY <1>8, ScanSpoils DEF Untouched, NoneLate
  <2> QED
    BY <1>8, <2>1, ScanSpoils DEF LateIsWhole, serverVars
<1>9. ASSUME NEW c \in Catalogs, CommitAcknowledged(c) PROVE LateIsWhole'
  <2>1. UNCHANGED <<late, place, owner, acked, spoiled>>
    BY <1>9 DEF CommitAcknowledged, sessionVars
  <2>2. \A z \in late : z # hand[c] /\ (owner[z] # txn \/ Home[z] # c)
    BY <1>9, CommitAdds DEF Untouched, NoneLate, LateIsWhole, InOrder
  <2>3. \A z \in late : work'[z] = work[z]
    BY <1>9, <2>2 DEF CommitAcknowledged
  <2> HIDE DEF TypeOK, HistoryOK, WriteAssumption
  <2>4. \A z \in late : owner[z] \in Numbers
                         => durable'[owner[z]][Home[z]] = durable[owner[z]][Home[z]]
    BY <1>t, <1>9, CommitAdds, <2>2
  <2> QED
    BY <2>1, <2>3, <2>4 DEF LateIsWhole
<1>10. ASSUME NEW c \in Catalogs, CommitThrows(c) PROVE LateIsWhole'
  <2>1. /\ hand[c] \in Sessions /\ InOrder(c, hand[c]) /\ txn \in Numbers
        /\ place' = [place EXCEPT ![hand[c]] = "closed"]
        /\ late' \in {late, late \cup {hand[c]}}
        /\ UNCHANGED <<owner, durable, work, acked, spoiled>>
    BY <1>10 DEF CommitThrows, Staged, Held, Close
  <2>2. durable[txn][c] = 0 /\ NoneLate(txn, c)
    BY <1>10 DEF CommitThrows, Untouched
  <2>3. work[hand[c]] = acked[txn][c] /\ c \notin spoiled[txn]
    BY <1>10 DEF CommitThrows, Tallied, Tally
  <2>4. \A z \in late' : /\ place'[z] = "closed" /\ owner[z] \in Numbers
                          /\ durable[owner[z]][Home[z]] = 0
                          /\ work[z] = acked[owner[z]][Home[z]]
                          /\ Home[z] \notin spoiled[owner[z]]
    BY <2>1, <2>2, <2>3 DEF LateIsWhole, InOrder
  <2>5. \A z \in late : owner[z] = txn => Home[z] # c
    BY <2>2 DEF NoneLate
  <2>6. \A z, y \in late' : owner[z] = owner[y] /\ Home[z] = Home[y] => z = y
    <3> HIDE DEF TypeOK, HistoryOK, WriteAssumption
    <3> QED
      BY <2>1, <2>5 DEF LateIsWhole, InOrder
  <2> QED
    BY <2>1, <2>4, <2>6 DEF LateIsWhole
<1>11. ASSUME NEW c \in Catalogs, CommitEnds(c) PROVE LateIsWhole'
  BY <1>11 DEF CommitEnds, LateIsWhole, End, Close, Keep, Staged, Held, InOrder, queryVars,
     serverVars, history
<1>12. ASSUME NEW c \in Catalogs, RollbackAcknowledged(c) PROVE LateIsWhole'
  BY <1>12 DEF RollbackAcknowledged, RollbackDone, LateIsWhole, End, Close, Keep, Staged,
     Held, InOrder, stateVars, queryVars, history
<1>13. ASSUME NEW c \in Catalogs, RollbackThrows(c) PROVE LateIsWhole'
  BY <1>13 DEF RollbackThrows, RollbackDone, LateIsWhole, Close, Staged, Held, InOrder,
     stateVars, queryVars, history
<1>14. ASSUME NEW c \in Catalogs, Detach(c) PROVE LateIsWhole'
  BY <1>14 DEF Detach, LateIsWhole, stateVars, duckVars, queryVars, serverVars, history
<1>15. ASSUME NEW s \in Sessions, Disconnect(s) PROVE LateIsWhole'
  BY <1>15 DEF Disconnect, LateIsWhole, stateVars, duckVars, queryVars, sessionVars, history
<1>16. ASSUME NEW s \in Sessions, LateCommit(s) PROVE LateIsWhole'
  <2>1. late' = late \ {s} /\ UNCHANGED <<place, owner, acked, spoiled>>
    BY <1>16 DEF LateCommit, sessionVars
  <2>2. \A z \in late' : owner[z] # owner[s] \/ Home[z] # Home[s]
    BY <1>16, LateCommitAdds, <2>1 DEF LateIsWhole
  <2>3. \A z \in late' : work'[z] = work[z]
    BY <1>16, <2>1 DEF LateCommit
  <2> HIDE DEF TypeOK, HistoryOK, WriteAssumption
  <2> QED
    BY <1>t, <1>16, LateCommitAdds, <2>1, <2>2, <2>3 DEF LateIsWhole
<1>17. CASE Begin \/ WriterTaints \/ WriterPoisons \/ CommitReturns \/ RollbackAll
         \/ RollbackReturns
  <2>1. UNCHANGED <<late, place, owner, durable, work, acked, spoiled>>
    BY <1>17 DEF Begin, WriterTaints, WriterPoisons, Poison, CommitReturns, RollbackAll,
       RollbackReturns, stateVars, duckVars, queryVars, sessionVars, serverVars, history
  <2> QED
    BY <2>1 DEF LateIsWhole
<1>18. ASSUME NEW c \in Catalogs, ScanBegins(c) \/ ScanEnds(c) \/ ScanPoisons(c)
         \/ CommitRefuses(c) \/ CommitTakes(c) \/ RollbackTakes(c)
     PROVE  LateIsWhole'
  <2>1. UNCHANGED <<late, place, owner, durable, work, acked, spoiled>>
    BY <1>18 DEF ScanBegins, ScanEnds, ScanPoisons, Poison, CommitRefuses, CommitTakes,
       RollbackTakes, stateVars, duckVars, queryVars, sessionVars, serverVars, history
  <2> QED
    BY <2>1 DEF LateIsWhole
<1>19. ASSUME NEW s \in Sessions, BorrowerLeaves(s)
     PROVE  LateIsWhole'
  <2>1. UNCHANGED <<late, place, owner, durable, work, acked, spoiled>>
    BY <1>19 DEF BorrowerLeaves, stateVars, duckVars, queryVars, serverVars, history
  <2> QED
    BY <2>1 DEF LateIsWhole
<1>20. ASSUME NEW how \in {"commit", "rollback"}, UserEnds(how)
     PROVE  LateIsWhole'
  <2>1. UNCHANGED <<late, place, owner, durable, work, acked, spoiled>>
    BY <1>20 DEF UserEnds, stateVars, sessionVars, serverVars, history
  <2> QED
    BY <2>1 DEF LateIsWhole
<1>21. CASE UNCHANGED vars
  BY <1>21 DEF vars, stateVars, duckVars, queryVars, sessionVars, serverVars, history,
     LateIsWhole
<1> QED
  BY <1>1, <1>2, <1>3, <1>4, <1>5, <1>6, <1>7, <1>8, <1>9, <1>10, <1>11, <1>12,
     <1>13,
     <1>14, <1>15, <1>16, <1>17, <1>18, <1>19, <1>20, <1>21
  DEF Next, Statement, QueryStep, EndStep, Environment

LEMMA AllOrNothingStep ==
    ASSUME WriteAssumption, TypeOK, HistoryOK, TypeOK', Staged, WriterIsHome,
           Held, Tallied, Untouched, LateIsWhole, AllOrNothing, [Next]_vars
    PROVE  AllOrNothing'
<1>t. /\ txn \in Nat /\ txn' \in Nat /\ Numbers \subseteq Nat
      /\ \A s \in late : s \in Sessions /\ Home[s] \in Catalogs
  BY DEF TypeOK, WriteAssumption, Numbers
<1> USE DEF TypeOK, HistoryOK, WriteAssumption
<1>1. CASE WriterSucceeds
  <2>1. UNCHANGED <<durable, spoiled>>
    BY <1>1 DEF WriterSucceeds
  <2> HIDE DEF TypeOK, HistoryOK, WriteAssumption
  <2> QED
    BY <1>t, <1>1, WriterCounts, <2>1 DEF AllOrNothing, Untouched
<1>2. CASE WriterThrows
  <2>1. UNCHANGED <<durable, acked>>
    BY <1>2 DEF WriterThrows
  <2> HIDE DEF TypeOK, HistoryOK, WriteAssumption
  <2> QED
    BY <1>t, <1>2, WriterSpoils, <2>1 DEF AllOrNothing, Untouched
<1>3. ASSUME NEW c \in Catalogs, PinThrows(c) PROVE AllOrNothing'
  BY <1>3 DEF PinThrows, AllOrNothing, WriterMayBegin, Staged, Untouched, stateVars,
     duckVars, sessionVars, serverVars
<1>4. ASSUME NEW c \in Catalogs, WriterStops(c) PROVE AllOrNothing'
  BY <1>4 DEF WriterStops, AllOrNothing, WriterMayBegin, Staged, Untouched, stateVars,
     queryVars, sessionVars, serverVars
<1>5. ASSUME NEW c \in Catalogs, ScanThrows(c) PROVE AllOrNothing'
  <2>1. /\ phase = "active" /\ txn \in Numbers
        /\ \A n \in Numbers : n # txn => spoiled'[n] = spoiled[n]
        /\ UNCHANGED <<txn, acked, durable>>
    BY <1>5, ScanSpoils DEF duckVars
  <2> HIDE DEF TypeOK, HistoryOK, WriteAssumption
  <2> QED
    BY <1>t, <2>1 DEF AllOrNothing, Untouched
<1>6. ASSUME NEW c \in Catalogs, CommitAcknowledged(c) PROVE AllOrNothing'
  <2>1. durable[txn][c] = 0 /\ work[hand[c]] = acked[txn][c] /\ c \notin spoiled[txn]
    BY <1>6, CommitAdds DEF Untouched, Tallied, Tally
  <2>2. UNCHANGED <<acked, spoiled>>
    BY <1>6 DEF CommitAcknowledged
  <2> HIDE DEF TypeOK, HistoryOK, WriteAssumption
  <2>3. durable'[txn][c] = acked[txn][c]
    BY <1>6, CommitAdds, <2>1
  <2>4. \A n \in Numbers, d \in Catalogs : n # txn \/ d # c => durable'[n][d] = durable[n][d]
    BY <1>6, CommitAdds
  <2> QED
    BY <2>1, <2>2, <2>3, <2>4 DEF AllOrNothing
<1>7. ASSUME NEW s \in Sessions, LateCommit(s) PROVE AllOrNothing'
  <2>1. UNCHANGED <<acked, spoiled>>
    BY <1>7 DEF LateCommit
  <2> HIDE DEF TypeOK, HistoryOK, WriteAssumption
  <2> QED
    BY <1>t, <1>7, LateCommitAdds, <2>1 DEF AllOrNothing
<1>8. CASE Begin \/ WriterTaints \/ WriterPoisons \/ PoisonCloses \/ CommitReturns
         \/ RollbackAll \/ RollbackReturns
  <2>1. UNCHANGED <<durable, acked, spoiled>>
    BY <1>8 DEF Begin, WriterTaints, WriterPoisons, Poison, PoisonCloses, CommitReturns,
       RollbackAll, RollbackReturns, stateVars, duckVars, queryVars, sessionVars,
       serverVars, history
  <2> QED
    BY <2>1 DEF AllOrNothing
<1>9. ASSUME NEW c \in Catalogs, WriterPins(c) \/ ScanPins(c) \/ ScanBegins(c)
         \/ ScanEnds(c) \/ ScanPoisons(c) \/ CommitRefuses(c) \/ CommitTakes(c)
         \/ CommitThrows(c) \/ CommitEnds(c) \/ RollbackTakes(c) \/ RollbackAcknowledged(c)
         \/ RollbackThrows(c) \/ Detach(c)
     PROVE  AllOrNothing'
  <2>1. UNCHANGED <<durable, acked, spoiled>>
    BY <1>9 DEF WriterPins, ScanPins, ScanBegins, ScanEnds, ScanPoisons, Poison,
       CommitRefuses, CommitTakes, CommitThrows, CommitEnds, RollbackTakes,
       RollbackAcknowledged, RollbackDone, RollbackThrows, Detach, stateVars, duckVars,
       queryVars, sessionVars, serverVars, history
  <2> QED
    BY <2>1 DEF AllOrNothing
<1>10. ASSUME NEW s \in Sessions, Disconnect(s) \/ BorrowerLeaves(s)
     PROVE  AllOrNothing'
  <2>1. UNCHANGED <<durable, acked, spoiled>>
    BY <1>10 DEF Disconnect, BorrowerLeaves, stateVars, duckVars, queryVars, sessionVars,
       serverVars, history
  <2> QED
    BY <2>1 DEF AllOrNothing
<1>11. ASSUME NEW how \in {"commit", "rollback"}, UserEnds(how)
     PROVE  AllOrNothing'
  <2>1. UNCHANGED <<durable, acked, spoiled>>
    BY <1>11 DEF UserEnds, stateVars, sessionVars, serverVars, history
  <2> QED
    BY <2>1 DEF AllOrNothing
<1>12. CASE UNCHANGED vars
  BY <1>12 DEF vars, stateVars, duckVars, queryVars, sessionVars, serverVars, history,
     AllOrNothing
<1> QED
  BY <1>1, <1>2, <1>3, <1>4, <1>5, <1>6, <1>7, <1>8, <1>9, <1>10, <1>11, <1>12
  DEF Next, Statement, QueryStep, EndStep, Environment

-----------------------------------------------------------------------------
(* What the user is told                                                   *)

LEMMA UntoldStep ==
    ASSUME WriteAssumption, TypeOK, HistoryOK, TypeOK', Staged, Untold, [Next]_vars
    PROVE  Untold'
<1>t. /\ txn \in Nat /\ txn' \in Nat /\ Numbers \subseteq Nat
      /\ \A s \in late : s \in Sessions /\ Home[s] \in Catalogs
  BY DEF TypeOK, WriteAssumption, Numbers
<1> USE DEF TypeOK, HistoryOK, WriteAssumption
<1>1. CASE Begin
  BY <1>1 DEF Begin, Untold, Numbers, stateVars, queryVars, sessionVars, serverVars, history
<1>2. CASE CommitReturns
  BY <1>2 DEF CommitReturns, Untold, Numbers, stateVars, queryVars, sessionVars, serverVars
<1>3. CASE RollbackAll
  BY <1>3 DEF RollbackAll, Untold, queryVars, sessionVars, serverVars, history
<1>4. CASE RollbackReturns
  BY <1>4 DEF RollbackReturns, Untold, Numbers, stateVars, queryVars, sessionVars,
     serverVars
<1>5. ASSUME NEW c \in Catalogs, CommitRefuses(c) PROVE Untold'
  BY <1>5 DEF CommitRefuses, Untold, Numbers, stateVars, queryVars, sessionVars, serverVars
<1>6. ASSUME NEW c \in Catalogs, CommitThrows(c) PROVE Untold'
  BY <1>6 DEF CommitThrows, Untold, Numbers, queryVars
<1>7. ASSUME NEW how \in {"commit", "rollback"}, UserEnds(how) PROVE Untold'
  BY <1>7 DEF UserEnds, Untold, stateVars, sessionVars, serverVars, history
<1>8. CASE WriterTaints \/ WriterSucceeds \/ WriterThrows \/ WriterPoisons \/ PoisonCloses
  <2>1. UNCHANGED <<told, txn, phase>>
    BY <1>8 DEF WriterTaints, WriterSucceeds, WriterThrows, WriterPoisons, Poison,
       PoisonCloses, stateVars, duckVars, sessionVars, serverVars, history
  <2> QED
    BY <2>1 DEF Untold
<1>9. ASSUME NEW c \in Catalogs, WriterPins(c) \/ PinThrows(c) \/ WriterStops(c)
         \/ ScanPins(c) \/ ScanBegins(c) \/ ScanThrows(c) \/ ScanEnds(c) \/ ScanPoisons(c)
         \/ CommitTakes(c) \/ CommitAcknowledged(c) \/ CommitEnds(c) \/ RollbackTakes(c)
         \/ RollbackAcknowledged(c) \/ RollbackThrows(c) \/ Detach(c)
     PROVE  Untold'
  <2>1. UNCHANGED <<told, txn, phase>>
    BY <1>9 DEF WriterPins, PinThrows, WriterStops, ScanPins, ScanBegins, ScanThrows,
       ScanEnds, ScanPoisons, Poison, CommitTakes, CommitAcknowledged, CommitEnds,
       RollbackTakes, RollbackAcknowledged, RollbackDone, RollbackThrows, Detach, stateVars,
       duckVars, queryVars, sessionVars, serverVars, history
  <2> QED
    BY <2>1 DEF Untold
<1>10. ASSUME NEW s \in Sessions, Disconnect(s) \/ LateCommit(s) \/ BorrowerLeaves(s)
     PROVE  Untold'
  <2>1. UNCHANGED <<told, txn, phase>>
    BY <1>10 DEF Disconnect, LateCommit, BorrowerLeaves, stateVars, duckVars, queryVars,
       sessionVars, serverVars, history
  <2> QED
    BY <2>1 DEF Untold
<1>11. CASE UNCHANGED vars
  BY <1>11 DEF vars, stateVars, duckVars, queryVars, sessionVars, serverVars, history,
     Untold
<1> QED
  BY <1>1, <1>2, <1>3, <1>4, <1>5, <1>6, <1>7, <1>8, <1>9, <1>10, <1>11
  DEF Next, Statement, QueryStep, EndStep, Environment

LEMMA ConfirmedStep ==
    ASSUME WriteAssumption, TypeOK, HistoryOK, TypeOK', Staged, WriterIsHome,
           Held, Tallied, Untouched, LateIsWhole, Confirmed, [Next]_vars
    PROVE  Confirmed'
<1>t. /\ txn \in Nat /\ txn' \in Nat /\ Numbers \subseteq Nat
      /\ \A s \in late : s \in Sessions /\ Home[s] \in Catalogs
  BY DEF TypeOK, WriteAssumption, Numbers
<1> USE DEF TypeOK, HistoryOK, WriteAssumption
<1>1. CASE Begin
  BY <1>1 DEF Begin, Confirmed, stateVars, queryVars, sessionVars, serverVars, history
<1>2. CASE CommitReturns
  BY <1>2 DEF CommitReturns, Confirmed, stateVars, queryVars, sessionVars, serverVars
<1>3. CASE RollbackAll
  BY <1>3 DEF RollbackAll, Confirmed, queryVars, sessionVars, serverVars, history
<1>4. CASE RollbackReturns
  BY <1>4 DEF RollbackReturns, Confirmed, stateVars, queryVars, sessionVars, serverVars
<1>5. ASSUME NEW c \in Catalogs, CommitRefuses(c) PROVE Confirmed'
  BY <1>5 DEF CommitRefuses, Confirmed, stateVars, queryVars, sessionVars, serverVars
<1>6. ASSUME NEW c \in Catalogs, CommitThrows(c) PROVE Confirmed'
  BY <1>6 DEF CommitThrows, Confirmed, queryVars
<1>7. ASSUME NEW c \in Catalogs, CommitEnds(c) PROVE Confirmed'
  BY <1>7 DEF CommitEnds, Confirmed, queryVars, serverVars, history
<1>8. ASSUME NEW c \in Catalogs, RollbackTakes(c) PROVE Confirmed'
  BY <1>8 DEF RollbackTakes, Confirmed, Staged, queryVars, sessionVars, serverVars, history
<1>9. CASE WriterSucceeds
  BY <1>9 DEF WriterSucceeds, Staged, QueryIsOver, NoWriter, Confirmed, duckVars
<1>10. ASSUME NEW c \in Catalogs, CommitTakes(c) PROVE Confirmed'
  BY <1>10 DEF CommitTakes, Confirmed, Tallied, Untouched, CommitTurn, CommitMayStart,
     queryVars, sessionVars, serverVars, history
<1>11. ASSUME NEW c \in Catalogs, CommitAcknowledged(c) PROVE Confirmed'
  <2>1. durable[txn][c] = 0 /\ work[hand[c]] = acked[txn][c]
    BY <1>11, CommitAdds DEF Untouched, Tallied, Tally
  <2>2. durable'[txn][c] = acked[txn][c]
    BY <1>11, CommitAdds, <2>1
  <2>3. /\ \A d \in Catalogs : d # c => stage'[d] = stage[d]
        /\ UNCHANGED <<phase, txn, acked>>
    BY <1>11 DEF CommitAcknowledged
  <2> HIDE DEF TypeOK, HistoryOK, WriteAssumption
  <2> QED
    BY <1>11, CommitAdds, <2>2, <2>3 DEF Confirmed
<1>12. ASSUME NEW c \in Catalogs, RollbackAcknowledged(c) PROVE Confirmed'
  BY <1>12 DEF RollbackAcknowledged, RollbackDone, Confirmed, Staged, stateVars, queryVars,
     history
<1>13. ASSUME NEW c \in Catalogs, RollbackThrows(c) PROVE Confirmed'
  BY <1>13 DEF RollbackThrows, RollbackDone, Confirmed, Staged, stateVars, queryVars,
     history
<1>14. ASSUME NEW s \in Sessions, LateCommit(s) PROVE Confirmed'
  <2>1. UNCHANGED <<phase, stage, txn, acked>>
    BY <1>14 DEF LateCommit, duckVars
  <2> HIDE DEF TypeOK, HistoryOK, WriteAssumption
  <2>2. phase = "commit" => txn \in Numbers
    BY DEF Staged
  <2> QED
    BY <1>14, LateCommitAdds, <2>1, <2>2 DEF Confirmed
<1>15. ASSUME NEW how \in {"commit", "rollback"}, UserEnds(how) PROVE Confirmed'
  BY <1>15 DEF UserEnds, Confirmed, Staged, stateVars, sessionVars, serverVars, history
<1>16. CASE WriterTaints \/ WriterThrows \/ WriterPoisons \/ PoisonCloses
  <2>1. UNCHANGED <<phase, stage, durable, acked, txn>>
    BY <1>16 DEF WriterTaints, WriterThrows, WriterPoisons, Poison, PoisonCloses, stateVars,
       duckVars, sessionVars, serverVars, history
  <2> QED
    BY <2>1 DEF Confirmed
<1>17. ASSUME NEW c \in Catalogs, WriterPins(c) \/ PinThrows(c) \/ WriterStops(c)
         \/ ScanPins(c) \/ ScanBegins(c) \/ ScanThrows(c) \/ ScanEnds(c) \/ ScanPoisons(c)
         \/ Detach(c)
     PROVE  Confirmed'
  <2>1. UNCHANGED <<phase, stage, durable, acked, txn>>
    BY <1>17 DEF WriterPins, PinThrows, WriterStops, ScanPins, ScanBegins, ScanThrows,
       ScanEnds, ScanPoisons, Poison, Detach, stateVars, duckVars, queryVars, sessionVars,
       serverVars, history
  <2> QED
    BY <2>1 DEF Confirmed
<1>18. ASSUME NEW s \in Sessions, Disconnect(s) \/ BorrowerLeaves(s)
     PROVE  Confirmed'
  <2>1. UNCHANGED <<phase, stage, durable, acked, txn>>
    BY <1>18 DEF Disconnect, BorrowerLeaves, stateVars, duckVars, queryVars, sessionVars,
       serverVars, history
  <2> QED
    BY <2>1 DEF Confirmed
<1>19. CASE UNCHANGED vars
  BY <1>19 DEF vars, stateVars, duckVars, queryVars, sessionVars, serverVars, history,
     Confirmed
<1> QED
  BY <1>1, <1>2, <1>3, <1>4, <1>5, <1>6, <1>7, <1>8, <1>9, <1>10, <1>11, <1>12,
     <1>13,
     <1>14, <1>15, <1>16, <1>17, <1>18, <1>19
  DEF Next, Statement, QueryStep, EndStep, Environment

LEMMA UndoneStep ==
    ASSUME WriteAssumption, TypeOK, HistoryOK, TypeOK', Staged, Held, Untouched,
           LateIsWhole, Undone, [Next]_vars
    PROVE  Undone'
<1>t. /\ txn \in Nat /\ txn' \in Nat /\ Numbers \subseteq Nat
      /\ \A s \in late : s \in Sessions /\ Home[s] \in Catalogs
  BY DEF TypeOK, WriteAssumption, Numbers
<1> USE DEF TypeOK, HistoryOK, WriteAssumption
<1>1. CASE Begin
  BY <1>1 DEF Begin, Undone, NoneLate, stateVars, queryVars, sessionVars, serverVars,
     history
<1>2. CASE CommitReturns
  BY <1>2 DEF CommitReturns, Undone, NoneLate, stateVars, queryVars, sessionVars, serverVars
<1>3. CASE RollbackAll
  BY <1>3 DEF RollbackAll, Undone, NoneLate, queryVars, sessionVars, serverVars, history
<1>4. CASE RollbackReturns
  BY <1>4 DEF RollbackReturns, Undone, NoneLate, stateVars, queryVars, sessionVars,
     serverVars
<1>5. ASSUME NEW c \in Catalogs, WriterPins(c) PROVE Undone'
  BY <1>5 DEF WriterPins, WriterMayBegin, Undone, duckVars
<1>6. ASSUME NEW c \in Catalogs, ScanPins(c) PROVE Undone'
  BY <1>6 DEF ScanPins, WriterMayBegin, Undone, duckVars
<1>7. ASSUME NEW c \in Catalogs, CommitRefuses(c) PROVE Undone'
  BY <1>7 DEF CommitRefuses, Undone, NoneLate, CommitTurn, Staged, stateVars, queryVars,
     sessionVars, serverVars
<1>8. ASSUME NEW c \in Catalogs, CommitAcknowledged(c) PROVE Undone'
  BY <1>8 DEF CommitAcknowledged, Undone, NoneLate, stateVars, queryVars, sessionVars
<1>9. ASSUME NEW c \in Catalogs, CommitThrows(c) PROVE Undone'
  BY <1>9 DEF CommitThrows, Undone, NoneLate, Staged, queryVars
<1>10. ASSUME NEW s \in Sessions, Disconnect(s) PROVE Undone'
  BY <1>10 DEF Disconnect, Undone, NoneLate, stateVars, duckVars, queryVars, sessionVars,
     history
<1>11. ASSUME NEW s \in Sessions, LateCommit(s) PROVE Undone'
  <2>1. late' = late \ {s} /\ UNCHANGED <<phase, told, txn, owner>>
    BY <1>11 DEF LateCommit, duckVars
  <2> HIDE DEF TypeOK, HistoryOK, WriteAssumption
  <2>2. ASSUME phase \in {"rollback", "all"}, told[txn] = "open", NEW d \in Catalogs
        PROVE  durable'[txn][d] = 0 /\ NoneLate(txn, d)'
    <3>1. txn \in Numbers /\ durable[txn][d] = 0 /\ NoneLate(txn, d)
      BY <2>2 DEF Staged, Undone
    <3>2. owner[s] # txn \/ Home[s] # d
      BY <1>11, LateCommitAdds, <3>1 DEF NoneLate
    <3> QED
      BY <1>11, LateCommitAdds, <2>1, <3>1, <3>2 DEF NoneLate
  <2> QED
    BY <2>1, <2>2 DEF Undone
<1>12. ASSUME NEW how \in {"commit", "rollback"}, UserEnds(how) PROVE Undone'
  BY <1>12 DEF UserEnds, Undone, NoneLate, Untouched, stateVars, sessionVars, serverVars,
     history
<1>13. CASE WriterTaints \/ WriterSucceeds \/ WriterThrows \/ WriterPoisons \/ PoisonCloses
  <2>1. UNCHANGED <<phase, told, txn, durable, late, owner>>
    BY <1>13 DEF WriterTaints, WriterSucceeds, WriterThrows, WriterPoisons, Poison,
       PoisonCloses, stateVars, duckVars, sessionVars, serverVars, history
  <2> QED
    BY <2>1 DEF Undone, NoneLate
<1>14. ASSUME NEW c \in Catalogs, PinThrows(c) \/ WriterStops(c) \/ ScanBegins(c)
         \/ ScanThrows(c) \/ ScanEnds(c) \/ ScanPoisons(c) \/ CommitTakes(c)
         \/ CommitEnds(c) \/ RollbackTakes(c) \/ RollbackAcknowledged(c)
         \/ RollbackThrows(c) \/ Detach(c)
     PROVE  Undone'
  <2>1. UNCHANGED <<phase, told, txn, durable, late, owner>>
    BY <1>14 DEF PinThrows, WriterStops, ScanBegins, ScanThrows, ScanEnds, ScanPoisons,
       Poison, CommitTakes, CommitEnds, RollbackTakes, RollbackAcknowledged, RollbackDone,
       RollbackThrows, Detach, stateVars, duckVars, queryVars, sessionVars, serverVars,
       history
  <2> QED
    BY <2>1 DEF Undone, NoneLate
<1>15. ASSUME NEW s \in Sessions, BorrowerLeaves(s)
     PROVE  Undone'
  <2>1. UNCHANGED <<phase, told, txn, durable, late, owner>>
    BY <1>15 DEF BorrowerLeaves, stateVars, duckVars, queryVars, serverVars, history
  <2> QED
    BY <2>1 DEF Undone, NoneLate
<1>16. CASE UNCHANGED vars
  BY <1>16 DEF vars, stateVars, duckVars, queryVars, sessionVars, serverVars, history,
     Undone, NoneLate
<1> QED
  BY <1>1, <1>2, <1>3, <1>4, <1>5, <1>6, <1>7, <1>8, <1>9, <1>10, <1>11, <1>12,
     <1>13,
     <1>14, <1>15, <1>16
  DEF Next, Statement, QueryStep, EndStep, Environment

LEMMA TruthStep ==
    ASSUME WriteAssumption, TypeOK, HistoryOK, TypeOK', Staged, WriterIsHome,
           Held, LateIsWhole, Untold, Confirmed, Undone, UserIsToldTheTruth,
           [Next]_vars
    PROVE  UserIsToldTheTruth'
<1>t. /\ txn \in Nat /\ txn' \in Nat /\ Numbers \subseteq Nat
      /\ \A s \in late : s \in Sessions /\ Home[s] \in Catalogs
  BY DEF TypeOK, WriteAssumption, Numbers
<1> USE DEF TypeOK, HistoryOK, WriteAssumption
<1>1. CASE WriterSucceeds
  <2>1. told[txn] = "open"
    BY <1>t, <1>1, WriterCounts DEF Untold
  <2>2. UNCHANGED <<told, durable, late, owner>>
    BY <1>1 DEF WriterSucceeds
  <2> HIDE DEF TypeOK, HistoryOK, WriteAssumption
  <2> QED
    BY <1>1, WriterCounts, <2>1, <2>2 DEF UserIsToldTheTruth
<1>2. CASE CommitReturns
  <2>1. txn \in Numbers /\ \A c \in Catalogs : durable[txn][c] = acked[txn][c]
    BY <1>2 DEF CommitReturns, Ending, Staged, Confirmed
  <2>2. /\ told' = [told EXCEPT ![txn] = "committed"]
        /\ UNCHANGED <<durable, acked, late, owner>>
    BY <1>2 DEF CommitReturns, serverVars
  <2>3. told'[txn] = "committed" /\ \A n \in Numbers : n # txn => told'[n] = told[n]
    BY <2>1, <2>2
  <2> HIDE DEF TypeOK, HistoryOK, WriteAssumption
  <2> QED
    BY <2>1, <2>2, <2>3 DEF UserIsToldTheTruth
<1>3. CASE RollbackReturns
  <2>1. /\ txn \in Numbers
        /\ told[txn] = "open" => \A c \in Catalogs : durable[txn][c] = 0 /\ NoneLate(txn, c)
    BY <1>3 DEF RollbackReturns, Staged, Undone
  <2>2. told[txn] = "open" => \A s \in late : owner[s] # txn
    BY <1>t, <2>1 DEF NoneLate
  <2>3. /\ told'[txn] = IF told[txn] = "open" THEN "rolledback" ELSE told[txn]
        /\ \A n \in Numbers : n # txn => told'[n] = told[n]
        /\ UNCHANGED <<durable, acked, late, owner>>
    BY <1>3, <2>1 DEF RollbackReturns, serverVars
  <2> HIDE DEF TypeOK, HistoryOK, WriteAssumption
  <2> QED
    BY <2>1, <2>2, <2>3 DEF UserIsToldTheTruth
<1>4. ASSUME NEW c \in Catalogs, WriterPins(c) PROVE UserIsToldTheTruth'
  <2>1. PICK s \in Sessions : PinsSession(c, s)
    BY <1>4 DEF WriterPins
  <2> QED
    BY <1>4, <2>1, PinsKeepsLate DEF WriterPins, UserIsToldTheTruth
<1>5. ASSUME NEW c \in Catalogs, ScanPins(c) PROVE UserIsToldTheTruth'
  <2>1. PICK s \in Sessions : PinsSession(c, s)
    BY <1>5 DEF ScanPins
  <2> QED
    BY <1>5, <2>1, PinsKeepsLate DEF ScanPins, UserIsToldTheTruth
<1>6. ASSUME NEW c \in Catalogs, CommitRefuses(c) PROVE UserIsToldTheTruth'
  <2>1. txn \in Numbers
    BY <1>6 DEF CommitRefuses, CommitTurn, Staged
  <2>2. /\ told'[txn] = "failed" /\ \A n \in Numbers : n # txn => told'[n] = told[n]
        /\ UNCHANGED <<durable, acked, late, owner>>
    BY <1>6, <2>1 DEF CommitRefuses, serverVars
  <2> HIDE DEF TypeOK, HistoryOK, WriteAssumption
  <2> QED
    BY <2>1, <2>2 DEF UserIsToldTheTruth
<1>7. ASSUME NEW c \in Catalogs, CommitAcknowledged(c) PROVE UserIsToldTheTruth'
  <2>1. told[txn] = "open"
    BY <1>t, <1>7, CommitAdds DEF Untold
  <2>2. UNCHANGED <<told, acked, late, owner>>
    BY <1>7 DEF CommitAcknowledged
  <2> HIDE DEF TypeOK, HistoryOK, WriteAssumption
  <2> QED
    BY <1>7, CommitAdds, <2>1, <2>2 DEF UserIsToldTheTruth
<1>8. ASSUME NEW c \in Catalogs, CommitThrows(c) PROVE UserIsToldTheTruth'
  <2>1. txn \in Numbers /\ owner[hand[c]] = txn
    BY <1>8 DEF CommitThrows, Staged, Held, InOrder
  <2>2. /\ told'[txn] = "failed" /\ \A n \in Numbers : n # txn => told'[n] = told[n]
        /\ late' \in {late, late \cup {hand[c]}}
        /\ UNCHANGED <<durable, acked, owner>>
    BY <1>8, <2>1 DEF CommitThrows
  <2> HIDE DEF TypeOK, HistoryOK, WriteAssumption
  <2> QED
    BY <2>1, <2>2 DEF UserIsToldTheTruth
<1>9. ASSUME NEW s \in Sessions, Disconnect(s) PROVE UserIsToldTheTruth'
  BY <1>9 DEF Disconnect, UserIsToldTheTruth, stateVars, duckVars, queryVars, sessionVars,
     history
<1>10. ASSUME NEW s \in Sessions, LateCommit(s) PROVE UserIsToldTheTruth'
  <2>1. late' = late \ {s} /\ UNCHANGED <<told, acked, owner>>
    BY <1>10 DEF LateCommit
  <2> HIDE DEF TypeOK, HistoryOK, WriteAssumption
  <2>2. told[owner[s]] # "rolledback"
    BY <1>10, LateCommitAdds DEF UserIsToldTheTruth
  <2>3. \A n \in Numbers, d \in Catalogs :
           \/ durable'[n][d] = durable[n][d]
           \/ n = owner[s] /\ durable'[n][d] = acked[n][d]
    BY <1>10, LateCommitAdds
  <2> QED
    BY <1>10, LateCommitAdds, <2>1, <2>2, <2>3 DEF UserIsToldTheTruth
<1>11. CASE Begin \/ WriterTaints \/ WriterThrows \/ WriterPoisons \/ PoisonCloses
         \/ RollbackAll
  <2>1. UNCHANGED <<told, durable, acked, late, owner>>
    BY <1>11 DEF Begin, WriterTaints, WriterThrows, WriterPoisons, Poison, PoisonCloses,
       RollbackAll, stateVars, duckVars, queryVars, sessionVars, serverVars, history
  <2> QED
    BY <2>1 DEF UserIsToldTheTruth
<1>12. ASSUME NEW c \in Catalogs, PinThrows(c) \/ WriterStops(c) \/ ScanBegins(c)
         \/ ScanThrows(c) \/ ScanEnds(c) \/ ScanPoisons(c) \/ CommitTakes(c)
         \/ CommitEnds(c) \/ RollbackTakes(c) \/ RollbackAcknowledged(c)
         \/ RollbackThrows(c) \/ Detach(c)
     PROVE  UserIsToldTheTruth'
  <2>1. UNCHANGED <<told, durable, acked, late, owner>>
    BY <1>12 DEF PinThrows, WriterStops, ScanBegins, ScanThrows, ScanEnds, ScanPoisons,
       Poison, CommitTakes, CommitEnds, RollbackTakes, RollbackAcknowledged, RollbackDone,
       RollbackThrows, Detach, stateVars, duckVars, queryVars, sessionVars, serverVars,
       history
  <2> QED
    BY <2>1 DEF UserIsToldTheTruth
<1>13. ASSUME NEW s \in Sessions, BorrowerLeaves(s)
     PROVE  UserIsToldTheTruth'
  <2>1. UNCHANGED <<told, durable, acked, late, owner>>
    BY <1>13 DEF BorrowerLeaves, stateVars, duckVars, queryVars, serverVars, history
  <2> QED
    BY <2>1 DEF UserIsToldTheTruth
<1>14. ASSUME NEW how \in {"commit", "rollback"}, UserEnds(how)
     PROVE  UserIsToldTheTruth'
  <2>1. UNCHANGED <<told, durable, acked, late, owner>>
    BY <1>14 DEF UserEnds, stateVars, sessionVars, serverVars, history
  <2> QED
    BY <2>1 DEF UserIsToldTheTruth
<1>15. CASE UNCHANGED vars
  BY <1>15 DEF vars, stateVars, duckVars, queryVars, sessionVars, serverVars, history,
     UserIsToldTheTruth
<1> QED
  BY <1>1, <1>2, <1>3, <1>4, <1>5, <1>6, <1>7, <1>8, <1>9, <1>10, <1>11, <1>12,
     <1>13,
     <1>14, <1>15
  DEF Next, Statement, QueryStep, EndStep, Environment

-----------------------------------------------------------------------------
(* The theorems                                                            *)

LEMMA InitInv == ASSUME Init PROVE TruthInv
<1> USE WriteAssumption
<1>1. TypeOK /\ HistoryOK
  <2>1. NewStatus \in Statuses /\ status = [c \in Catalogs |-> NewStatus]
    BY DEF Init, NewStatus, Statuses
  <2>2. /\ writer.step = "none" /\ writer.call \in Calls
        /\ writer \in [step : {"none", "taint", "execute", "failing"}, call : Calls,
                      catalog : Catalogs \cup {NoCatalog}, session : Sessions \cup {NoSession}]
    BY DEF Init, NoWriter, Calls
  <2>3. HistoryOK
    BY DEF WriteAssumption, Init, HistoryOK, Counts
  <2>4. status \in [Catalogs -> Statuses]
    BY <2>1
  <2>5. /\ flaws \in [Sessions -> SUBSET Flaws] /\ work \in [Sessions -> Nat]
        /\ place \in [Sessions -> {"fresh", "idle", "leased", "closed"}]
        /\ owner \in [Sessions -> 0 .. MaxTransactions]
    BY DEF WriteAssumption, Init
  <2>6. /\ pinned \in [Catalogs -> Sessions \cup {NoSession}]
        /\ hand \in [Catalogs -> Sessions \cup {NoSession}]
        /\ scan \in [Catalogs -> Sessions \cup {NoSession}]
        /\ tainted \in [Catalogs -> BOOLEAN] /\ stage \in [Catalogs -> {"done"}]
        /\ failed = {} /\ poisoner = {} /\ closing = {} /\ late = {} /\ pools \subseteq Catalogs
        /\ txn \in 0 .. MaxTransactions /\ invalidated = FALSE /\ phase = "none"
    BY DEF WriteAssumption, Init
  <2> QED
    BY <2>2, <2>3, <2>4, <2>5, <2>6 DEF TypeOK, Statuses
<1>2. Staged /\ WriterIsHome /\ Held
  BY DEF WriteAssumption, Init, Staged, QueryIsOver, WriterIsHome, NoWriter, Held
<1>3. Tallied /\ SpoiledIsRefused /\ Untouched /\ Unbegun /\ LateIsWhole /\ AllOrNothing
  BY DEF Init, Tallied, SpoiledIsRefused, Untouched, Unbegun, LateIsWhole, AllOrNothing
<1>4. Untold /\ Confirmed /\ Undone /\ UserIsToldTheTruth
  BY DEF Init, Untold, Confirmed, Undone, UserIsToldTheTruth
<1> QED
  BY <1>1, <1>2, <1>3, <1>4 DEF TruthInv, WholeInv

LEMMA StepInv == ASSUME TruthInv, [Next]_vars PROVE TruthInv'
<1> USE WriteAssumption DEF TruthInv, WholeInv
<1>1. TypeOK' /\ HistoryOK'
  BY TypeStep
<1>2. Staged' /\ WriterIsHome' /\ Held'
  BY <1>1, StagedStep, WriterIsHomeStep, HeldStep
<1>3. Tallied' /\ SpoiledIsRefused' /\ Untouched' /\ Unbegun' /\ LateIsWhole' /\ AllOrNothing'
  BY <1>1, TalliedStep, SpoiledIsRefusedStep, UntouchedStep, UnbegunStep, LateIsWholeStep,
     AllOrNothingStep
<1>4. Untold' /\ Confirmed' /\ Undone' /\ UserIsToldTheTruth'
  BY <1>1, UntoldStep, ConfirmedStep, UndoneStep, TruthStep
<1> QED
  BY <1>1, <1>2, <1>3, <1>4

LEMMA Invariance == Spec => []TruthInv
<1>1. Init => TruthInv
  BY InitInv
<1>2. TruthInv /\ [Next]_vars => TruthInv'
  BY StepInv
<1> QED
  BY <1>1, <1>2, PTL DEF Spec

(* However many catalogs, statements and failures there are, and whenever  *)
(* a COMMIT without acknowledgement is carried out: what a transaction     *)
(* makes durable on a catalog is every statement it was told had           *)
(* succeeded, or nothing (OracleWriteState::Commit and Discard).           *)
THEOREM NoPartialTransaction == Spec => []AllOrNothing
<1>1. TruthInv => AllOrNothing
  BY DEF TruthInv, WholeInv
<1> QED
  BY <1>1, Invariance, PTL

(* A COMMIT that returned made all writes durable, and of a transaction    *)
(* whose ROLLBACK returned nothing is or becomes durable.                  *)
THEOREM EndsAreReportedTruly == Spec => []UserIsToldTheTruth
<1>1. TruthInv => UserIsToldTheTruth
  BY DEF TruthInv
<1> QED
  BY <1>1, Invariance, PTL

(* While a transaction is in order its writes are on the session Pin gives *)
(* to its scans and Commit will take, and the state is well typed.         *)
THEOREM WritesAreFound == Spec => []WritesAreOnThePinnedSession
<1>1. TruthInv => WritesAreOnThePinnedSession
  <2> SUFFICES ASSUME TruthInv, NEW c \in Catalogs,
                      phase = "active", c \notin failed, acked[txn][c] > 0
               PROVE  /\ pinned[c] # NoSession
                      /\ place[pinned[c]] = "leased"
                      /\ work[pinned[c]] >= acked[txn][c]
    BY DEF TruthInv, WholeInv, WritesAreOnThePinnedSession
  <2>1. IF pinned[c] = NoSession THEN acked[txn][c] = 0 ELSE Tally(c, pinned[c])
    BY DEF TruthInv, WholeInv, Staged, Tallied
  <2>2. pinned[c] # NoSession
    BY <2>1
  <2> QED
    BY <2>1, <2>2 DEF TruthInv, WholeInv, Tally, Held, InOrder
<1> QED
  BY <1>1, Invariance, PTL

-----------------------------------------------------------------------------
(* More about WriteState, for any catalogs, sessions and bounds: what      *)
(* oracle_transaction_status says is true, and nothing a transaction left  *)
(* in the state or on a session reaches the next one.                      *)
(*                                                                         *)
(* Both need that catalogs are ended one at a time (OneAtATime).  A status *)
(* is about the transaction whose entry is held, and says `not_attempted'  *)
(* until the entry is ended (Reports).  A catalog that was ended is not    *)
(* refused, and one whose status is `active' still has its entry           *)
(* (Settled).  Every leased session is held somewhere (InHand), only       *)
(* sessions in use are used (Users), nothing is wrong with one that is not *)
(* leased (Rested), and one that a procedure changed has a tainted entry   *)
(* (Marked).                                                               *)

OneAtATime ==
    /\ \A c \in Catalogs : stage[c] = "acked" => phase = "commit"
    /\ phase = "commit" =>
          \A c, d \in Catalogs : {stage[c], stage[d]} \subseteq {"taken", "acked"} => c = d
    /\ phase # "active" => \A c \in Catalogs : scan[c] = NoSession

Reports ==
    \A c \in Catalogs :
        /\ about[c] <= txn
        /\ pinned[c] # NoSession \/ hand[c] # NoSession => about[c] = txn
        /\ phase \in {"active", "commit"} /\ stage[c] # "done" /\ about[c] = txn =>
              status[c].outcome = "not_attempted"

Settled ==
    \A c \in Catalogs :
        /\ stage[c] # "todo" => c \notin failed
        /\ status[c].connection = "active" =>
              /\ status[c].outcome = "not_attempted"
              /\ pinned[c] # NoSession \/ (phase = "commit" /\ hand[c] # NoSession)

InHand ==
    \A s \in Sessions : place[s] = "leased" =>
        s \in closing \/ \E c \in Catalogs : s = pinned[c] \/ s = hand[c]

InUse(s) == place[s] \in {"leased", "closed"}

Users ==
    /\ \A c \in Catalogs : scan[c] # NoSession => InUse(scan[c])
    /\ writer.step \in {"taint", "execute"} => InUse(writer.session)

Rested == \A s \in Sessions : place[s] # "leased" => flaws[s] = {}

Marked ==
    /\ \A c \in Catalogs :
          /\ pinned[c] # NoSession /\ "state" \in flaws[pinned[c]] => tainted[c]
          /\ hand[c] # NoSession /\ "state" \in flaws[hand[c]] => tainted[c]
    /\ writer.step = "execute" /\ writer.call = "procedure"
         /\ pinned[writer.catalog] = writer.session => tainted[writer.catalog]

EndsInv ==
    /\ TruthInv /\ OneAtATime /\ Reports /\ Settled /\ InHand
    /\ Users /\ Rested /\ Marked /\ OutcomeIsHonest

-----------------------------------------------------------------------------
(* Catalogs are ended one at a time                                        *)

LEMMA OneAtATimeStep ==
    ASSUME TypeOK, TypeOK', Staged, OneAtATime, [Next]_vars
    PROVE  OneAtATime'
<1> USE DEF TypeOK
<1>1. CASE Begin
  BY <1>1 DEF Begin, OneAtATime, Staged, stateVars, queryVars, sessionVars, serverVars,
     history
<1>2. CASE CommitReturns
  BY <1>2 DEF CommitReturns, OneAtATime, Ending, stateVars, queryVars, sessionVars,
     serverVars
<1>3. CASE RollbackAll
  BY <1>3 DEF RollbackAll, OneAtATime, Ending, Staged, queryVars, sessionVars,
     serverVars,
     history
<1>4. CASE RollbackReturns
  BY <1>4 DEF RollbackReturns, OneAtATime, Ending, Staged, stateVars, queryVars,
     sessionVars, serverVars
<1>5. ASSUME NEW c \in Catalogs, ScanPins(c) PROVE OneAtATime'
  BY <1>5 DEF ScanPins, OneAtATime, duckVars
<1>6. ASSUME NEW c \in Catalogs, ScanBegins(c) PROVE OneAtATime'
  BY <1>6 DEF ScanBegins, OneAtATime, stateVars, duckVars, serverVars, history
<1>7. ASSUME NEW c \in Catalogs, ScanThrows(c) PROVE OneAtATime'
  BY <1>7 DEF ScanThrows, OneAtATime, stateVars, duckVars, serverVars
<1>8. ASSUME NEW c \in Catalogs, ScanEnds(c) PROVE OneAtATime'
  BY <1>8 DEF ScanEnds, OneAtATime, stateVars, duckVars, sessionVars, serverVars,
     history
<1>9. ASSUME NEW c \in Catalogs, CommitRefuses(c) PROVE OneAtATime'
  BY <1>9 DEF CommitRefuses, OneAtATime, CommitTurn, Ending, stateVars, queryVars,
     sessionVars, serverVars
<1>10. ASSUME NEW c \in Catalogs, CommitTakes(c) PROVE OneAtATime'
  BY <1>10 DEF CommitTakes, OneAtATime, CommitTurn, Ending, queryVars, sessionVars,
     serverVars, history
<1>11. ASSUME NEW c \in Catalogs, CommitAcknowledged(c) PROVE OneAtATime'
  BY <1>11 DEF CommitAcknowledged, OneAtATime, stateVars, queryVars, sessionVars
<1>12. ASSUME NEW c \in Catalogs, CommitThrows(c) PROVE OneAtATime'
  BY <1>12 DEF CommitThrows, OneAtATime, queryVars
<1>13. ASSUME NEW c \in Catalogs, CommitEnds(c) PROVE OneAtATime'
  BY <1>13 DEF CommitEnds, OneAtATime, queryVars, serverVars, history
<1>14. ASSUME NEW c \in Catalogs, RollbackTakes(c) PROVE OneAtATime'
  BY <1>14 DEF RollbackTakes, OneAtATime, queryVars, sessionVars, serverVars, history
<1>15. ASSUME NEW c \in Catalogs, RollbackAcknowledged(c) PROVE OneAtATime'
  BY <1>15 DEF RollbackAcknowledged, RollbackDone, OneAtATime, stateVars, queryVars,
     history
<1>16. ASSUME NEW c \in Catalogs, RollbackThrows(c) PROVE OneAtATime'
  BY <1>16 DEF RollbackThrows, RollbackDone, OneAtATime, stateVars, queryVars, history
<1>17. ASSUME NEW how \in {"commit", "rollback"}, UserEnds(how) PROVE OneAtATime'
  BY <1>17 DEF UserEnds, OneAtATime, Staged, stateVars, sessionVars, serverVars, history
<1>18. CASE WriterTaints \/ WriterSucceeds \/ WriterThrows \/ WriterPoisons \/ PoisonCloses
  <2>1. UNCHANGED <<txn, phase, stage, scan>>
    BY <1>18 DEF WriterTaints, WriterSucceeds, WriterThrows, WriterPoisons, Poison,
       PoisonCloses, stateVars, duckVars, sessionVars, serverVars, history
  <2> QED
    BY <2>1 DEF OneAtATime
<1>19. ASSUME NEW c \in Catalogs, WriterPins(c) \/ PinThrows(c) \/ WriterStops(c)
         \/ ScanPoisons(c) \/ Detach(c)
     PROVE  OneAtATime'
  <2>1. UNCHANGED <<txn, phase, stage, scan>>
    BY <1>19 DEF WriterPins, PinThrows, WriterStops, ScanPoisons, Poison, Detach,
       stateVars,
       duckVars, queryVars, sessionVars, serverVars, history
  <2> QED
    BY <2>1 DEF OneAtATime
<1>20. ASSUME NEW s \in Sessions, Disconnect(s) \/ LateCommit(s) \/ BorrowerLeaves(s)
     PROVE  OneAtATime'
  <2>1. UNCHANGED <<txn, phase, stage, scan>>
    BY <1>20 DEF Disconnect, LateCommit, BorrowerLeaves, stateVars, duckVars, queryVars,
       sessionVars, serverVars, history
  <2> QED
    BY <2>1 DEF OneAtATime
<1>21. CASE UNCHANGED vars
  BY <1>21 DEF vars, stateVars, duckVars, queryVars, sessionVars, serverVars, history,
     OneAtATime
<1> QED
  BY <1>1, <1>2, <1>3, <1>4, <1>5, <1>6, <1>7, <1>8, <1>9, <1>10, <1>11, <1>12, <1>13,
     <1>14, <1>15, <1>16, <1>17, <1>18, <1>19, <1>20, <1>21
  DEF Next, Statement, QueryStep, EndStep, Environment

-----------------------------------------------------------------------------
(* What a status speaks of                                                 *)

LEMMA ReportsStep ==
    ASSUME WriteAssumption, TypeOK, TypeOK', HistoryOK, HistoryOK', Staged,
           WriterIsHome, Reports, [Next]_vars
    PROVE  Reports'
<1> USE DEF TypeOK, HistoryOK
<1>1. CASE Begin
  BY <1>1 DEF Begin, Reports, Staged, stateVars, queryVars, sessionVars, serverVars,
     history
<1>2. CASE WriterPoisons
  BY <1>2 DEF WriterPoisons, Poison, Reports, WriterIsHome, duckVars, sessionVars,
     serverVars, history
<1>3. ASSUME NEW c \in Catalogs, ScanPoisons(c) PROVE Reports'
  BY <1>3 DEF ScanPoisons, Poison, Reports, duckVars, sessionVars, serverVars, history
<1>4. CASE CommitReturns
  BY <1>4 DEF CommitReturns, Reports, stateVars, queryVars, sessionVars, serverVars
<1>5. CASE RollbackAll
  BY <1>5 DEF RollbackAll, Reports, queryVars, sessionVars, serverVars, history
<1>6. CASE RollbackReturns
  BY <1>6 DEF RollbackReturns, Reports, stateVars, queryVars, sessionVars, serverVars
<1>7. ASSUME NEW c \in Catalogs, WriterPins(c) PROVE Reports'
  <2>1. PICK s \in Sessions : PinsSession(c, s)
    BY <1>7 DEF WriterPins
  <2> QED
    BY <1>7, <2>1 DEF WriterPins, WriterMayBegin, PinsSession, Leases, NewStatus,
       Reports, duckVars
<1>8. ASSUME NEW c \in Catalogs, ScanPins(c) PROVE Reports'
  <2>1. PICK s \in Sessions : PinsSession(c, s)
    BY <1>8 DEF ScanPins
  <2> QED
    BY <1>8, <2>1 DEF ScanPins, WriterMayBegin, PinsSession, Leases, NewStatus,
       Reports, duckVars
<1>9. ASSUME NEW c \in Catalogs, CommitRefuses(c) PROVE Reports'
  BY <1>9 DEF CommitRefuses, Reports, stateVars, queryVars, sessionVars, serverVars
<1>10. ASSUME NEW c \in Catalogs, CommitTakes(c) PROVE Reports'
  BY <1>10 DEF CommitTakes, Reports, CommitTurn, queryVars, sessionVars, serverVars,
     history
<1>11. ASSUME NEW c \in Catalogs, CommitAcknowledged(c) PROVE Reports'
  BY <1>11 DEF CommitAcknowledged, Reports, stateVars, queryVars, sessionVars
<1>12. ASSUME NEW c \in Catalogs, CommitThrows(c) PROVE Reports'
  BY <1>12 DEF CommitThrows, Reports, queryVars
<1>13. ASSUME NEW c \in Catalogs, CommitEnds(c) PROVE Reports'
  BY <1>13 DEF CommitEnds, Reports, queryVars, serverVars, history
<1>14. ASSUME NEW c \in Catalogs, RollbackTakes(c) PROVE Reports'
  BY <1>14 DEF RollbackTakes, Reports, queryVars, sessionVars, serverVars, history
<1>15. ASSUME NEW c \in Catalogs, RollbackAcknowledged(c) PROVE Reports'
  BY <1>15 DEF RollbackAcknowledged, RollbackDone, Reports, stateVars, queryVars,
     history
<1>16. ASSUME NEW c \in Catalogs, RollbackThrows(c) PROVE Reports'
  BY <1>16 DEF RollbackThrows, RollbackDone, Reports, stateVars, queryVars, history
<1>17. ASSUME NEW how \in {"commit", "rollback"}, UserEnds(how) PROVE Reports'
  BY <1>17 DEF UserEnds, Reports, Staged, stateVars, sessionVars, serverVars, history
<1>18. CASE WriterTaints \/ WriterSucceeds \/ WriterThrows \/ PoisonCloses
  <2>1. UNCHANGED <<about, txn, pinned, hand, phase, stage, status>>
    BY <1>18 DEF WriterTaints, WriterSucceeds, WriterThrows, PoisonCloses, stateVars,
       duckVars, sessionVars, serverVars, history
  <2> QED
    BY <2>1 DEF Reports
<1>19. ASSUME NEW c \in Catalogs, PinThrows(c) \/ WriterStops(c) \/ ScanBegins(c)
         \/ ScanThrows(c) \/ ScanEnds(c) \/ Detach(c)
     PROVE  Reports'
  <2>1. UNCHANGED <<about, txn, pinned, hand, phase, stage, status>>
    BY <1>19 DEF PinThrows, WriterStops, ScanBegins, ScanThrows, ScanEnds, Detach,
       stateVars, duckVars, queryVars, sessionVars, serverVars, history
  <2> QED
    BY <2>1 DEF Reports
<1>20. ASSUME NEW s \in Sessions, Disconnect(s) \/ LateCommit(s) \/ BorrowerLeaves(s)
     PROVE  Reports'
  <2>1. UNCHANGED <<about, txn, pinned, hand, phase, stage, status>>
    BY <1>20 DEF Disconnect, LateCommit, BorrowerLeaves, stateVars, duckVars, queryVars,
       sessionVars, serverVars, history
  <2> QED
    BY <2>1 DEF Reports
<1>21. CASE UNCHANGED vars
  BY <1>21 DEF vars, stateVars, duckVars, queryVars, sessionVars, serverVars, history,
     Reports
<1> QED
  BY <1>1, <1>2, <1>3, <1>4, <1>5, <1>6, <1>7, <1>8, <1>9, <1>10, <1>11, <1>12, <1>13,
     <1>14, <1>15, <1>16, <1>17, <1>18, <1>19, <1>20, <1>21
  DEF Next, Statement, QueryStep, EndStep, Environment

LEMMA SettledStep ==
    ASSUME WriteAssumption, TypeOK, TypeOK', Staged, WriterIsHome, OneAtATime,
           Settled, [Next]_vars
    PROVE  Settled'
<1> USE DEF TypeOK
<1>1. CASE Begin
  BY <1>1 DEF Begin, Settled, Staged, stateVars, queryVars, sessionVars, serverVars,
     history
<1>2. CASE WriterPoisons
  BY <1>2 DEF WriterPoisons, Poison, Settled, WriterIsHome, Refused, Staged,
     QueryIsOver,
     NoWriter, duckVars, sessionVars, serverVars, history
<1>3. ASSUME NEW c \in Catalogs, ScanPoisons(c) PROVE Settled'
  BY <1>3 DEF ScanPoisons, Poison, Settled, Refused, Staged, QueryIsOver, duckVars,
     sessionVars, serverVars, history
<1>4. CASE CommitReturns
  BY <1>4 DEF CommitReturns, Settled, Ending, Staged, stateVars, queryVars, sessionVars,
     serverVars
<1>5. CASE RollbackAll
  BY <1>5 DEF RollbackAll, Settled, queryVars, sessionVars, serverVars, history
<1>6. CASE RollbackReturns
  BY <1>6 DEF RollbackReturns, Settled, Ending, Staged, stateVars, queryVars,
     sessionVars,
     serverVars
<1>7. ASSUME NEW c \in Catalogs, WriterPins(c) PROVE Settled'
  <2>1. PICK s \in Sessions : PinsSession(c, s)
    BY <1>7 DEF WriterPins
  <2> QED
    BY <1>7, <2>1 DEF WriterPins, WriterMayBegin, PinsSession, Leases, NewStatus,
       Settled, duckVars, WriteAssumption
<1>8. ASSUME NEW c \in Catalogs, ScanPins(c) PROVE Settled'
  <2>1. PICK s \in Sessions : PinsSession(c, s)
    BY <1>8 DEF ScanPins
  <2> QED
    BY <1>8, <2>1 DEF ScanPins, WriterMayBegin, PinsSession, Leases, NewStatus,
       Settled, duckVars, WriteAssumption
<1>9. ASSUME NEW c \in Catalogs, CommitRefuses(c) PROVE Settled'
  BY <1>9 DEF CommitRefuses, Settled, CommitTurn, Ending, Staged, stateVars, queryVars,
     sessionVars, serverVars
<1>10. ASSUME NEW c \in Catalogs, CommitAcknowledged(c) PROVE Settled'
  BY <1>10 DEF CommitAcknowledged, Settled, stateVars, queryVars, sessionVars
<1>11. ASSUME NEW c \in Catalogs, CommitTakes(c) PROVE Settled'
  <2>1. /\ phase = "commit" /\ hand'[c] = pinned[c] /\ c \notin failed
        /\ \A d \in Catalogs : d # c => /\ hand'[d] = hand[d] /\ pinned'[d] = pinned[d]
                                      /\ stage'[d] = stage[d]
        /\ UNCHANGED <<phase, failed, status>>
    BY <1>11 DEF CommitTakes, CommitTurn, CommitMayStart
  <2>2. stage[c] = "todo" /\ hand[c] = NoSession
    BY <1>11 DEF CommitTakes, CommitTurn, Staged
  <2> HIDE DEF TypeOK
  <2> QED
    BY <2>1, <2>2 DEF Settled
<1>12. ASSUME NEW c \in Catalogs, CommitThrows(c) PROVE Settled'
  BY <1>12 DEF CommitThrows, Settled, OneAtATime, Staged, Unconfirmed, queryVars
<1>13. ASSUME NEW c \in Catalogs, CommitEnds(c) PROVE Settled'
  BY <1>13 DEF CommitEnds, Settled, Staged, queryVars, serverVars, history
<1>14. ASSUME NEW c \in Catalogs, RollbackTakes(c) PROVE Settled'
  BY <1>14 DEF RollbackTakes, Settled, Staged, queryVars, sessionVars, serverVars,
     history
<1>15. ASSUME NEW c \in Catalogs, RollbackAcknowledged(c) PROVE Settled'
  BY <1>15 DEF RollbackAcknowledged, RollbackDone, Settled, stateVars, queryVars,
     history
<1>16. ASSUME NEW c \in Catalogs, RollbackThrows(c) PROVE Settled'
  BY <1>16 DEF RollbackThrows, RollbackDone, Settled, stateVars, queryVars, history
<1>17. ASSUME NEW how \in {"commit", "rollback"}, UserEnds(how) PROVE Settled'
  BY <1>17 DEF UserEnds, Settled, Staged, stateVars, sessionVars, serverVars, history
<1>18. CASE WriterTaints \/ WriterSucceeds \/ WriterThrows \/ PoisonCloses
  <2>1. UNCHANGED <<stage, failed, status, pinned, hand, phase>>
    BY <1>18 DEF WriterTaints, WriterSucceeds, WriterThrows, PoisonCloses, stateVars,
       duckVars, sessionVars, serverVars, history
  <2> QED
    BY <2>1 DEF Settled
<1>19. ASSUME NEW c \in Catalogs, PinThrows(c) \/ WriterStops(c) \/ ScanBegins(c)
         \/ ScanThrows(c) \/ ScanEnds(c) \/ Detach(c)
     PROVE  Settled'
  <2>1. UNCHANGED <<stage, failed, status, pinned, hand, phase>>
    BY <1>19 DEF PinThrows, WriterStops, ScanBegins, ScanThrows, ScanEnds, Detach,
       stateVars, duckVars, queryVars, sessionVars, serverVars, history
  <2> QED
    BY <2>1 DEF Settled
<1>20. ASSUME NEW s \in Sessions, Disconnect(s) \/ LateCommit(s) \/ BorrowerLeaves(s)
     PROVE  Settled'
  <2>1. UNCHANGED <<stage, failed, status, pinned, hand, phase>>
    BY <1>20 DEF Disconnect, LateCommit, BorrowerLeaves, stateVars, duckVars, queryVars,
       sessionVars, serverVars, history
  <2> QED
    BY <2>1 DEF Settled
<1>21. CASE UNCHANGED vars
  BY <1>21 DEF vars, stateVars, duckVars, queryVars, sessionVars, serverVars, history,
     Settled
<1> QED
  BY <1>1, <1>2, <1>3, <1>4, <1>5, <1>6, <1>7, <1>8, <1>9, <1>10, <1>11, <1>12, <1>13,
     <1>14, <1>15, <1>16, <1>17, <1>18, <1>19, <1>20, <1>21
  DEF Next, Statement, QueryStep, EndStep, Environment

-----------------------------------------------------------------------------
(* Where the sessions are and what is wrong with them                      *)

LEMMA InHandStep ==
    ASSUME WriteAssumption, TypeOK, TypeOK', Staged, WriterIsHome, OneAtATime, InHand,
           [Next]_vars
    PROVE  InHand'
<1> USE DEF TypeOK, WriteAssumption
<1>1. CASE WriterPoisons
  BY <1>1 DEF WriterPoisons, Poison, InHand, WriterIsHome, PoisonedEntry, duckVars,
     sessionVars, serverVars, history
<1>2. ASSUME NEW c \in Catalogs, ScanPoisons(c) PROVE InHand'
  BY <1>2 DEF ScanPoisons, Poison, InHand, PoisonedEntry, duckVars, sessionVars,
     serverVars,
     history
<1>3. CASE PoisonCloses
  BY <1>3 DEF PoisonCloses, InHand, Close, stateVars, duckVars, serverVars, history
<1>4. CASE RollbackAll
  <2>1. UNCHANGED <<place, closing>> /\ hand' = pinned
    BY <1>4 DEF RollbackAll, queryVars, sessionVars
  <2>2. \A c \in Catalogs : hand[c] = NoSession
    BY <1>4 DEF RollbackAll, Ending, Staged, OneAtATime
  <2> QED
    BY <2>1, <2>2 DEF InHand
<1>5. ASSUME NEW c \in Catalogs, WriterPins(c) PROVE InHand'
  <2>1. PICK s \in Sessions : PinsSession(c, s)
    BY <1>5 DEF WriterPins
  <2> QED
    BY <1>5, <2>1 DEF WriterPins, PinsSession, Leases, InHand, duckVars, WriteAssumption
<1>6. ASSUME NEW c \in Catalogs, ScanPins(c) PROVE InHand'
  <2>1. PICK s \in Sessions : PinsSession(c, s)
    BY <1>6 DEF ScanPins
  <2> QED
    BY <1>6, <2>1 DEF ScanPins, PinsSession, Leases, InHand, duckVars, WriteAssumption
<1>7. ASSUME NEW c \in Catalogs, CommitTakes(c) PROVE InHand'
  BY <1>7 DEF CommitTakes, InHand, CommitTurn, Staged, queryVars, sessionVars,
     serverVars,
     history
<1>8. ASSUME NEW c \in Catalogs, CommitThrows(c) PROVE InHand'
  BY <1>8 DEF CommitThrows, InHand, Close, queryVars
<1>9. ASSUME NEW c \in Catalogs, CommitEnds(c) PROVE InHand'
  <2>1. hand[c] \in Sessions /\ (Keep(hand[c]) \/ Close(hand[c]))
    BY <1>9 DEF CommitEnds, End, Staged
  <2>2. /\ UNCHANGED <<pinned, closing>>
        /\ \A d \in Catalogs : d # c => hand'[d] = hand[d]
        /\ place'[hand[c]] # "leased"
        /\ \A z \in Sessions : z # hand[c] => place'[z] = place[z]
    BY <1>9, <2>1 DEF CommitEnds, Keep, Close, queryVars
  <2> QED
    BY <2>2 DEF InHand
<1>10. ASSUME NEW c \in Catalogs, RollbackTakes(c) PROVE InHand'
  BY <1>10 DEF RollbackTakes, InHand, Staged, queryVars, sessionVars, serverVars,
     history
<1>11. ASSUME NEW c \in Catalogs, RollbackAcknowledged(c) PROVE InHand'
  BY <1>11 DEF RollbackAcknowledged, RollbackDone, InHand, End, Close, Keep, stateVars,
     queryVars, history
<1>12. ASSUME NEW c \in Catalogs, RollbackThrows(c) PROVE InHand'
  BY <1>12 DEF RollbackThrows, RollbackDone, InHand, Close, stateVars, queryVars,
     history
<1>13. ASSUME NEW c \in Catalogs, Detach(c) PROVE InHand'
  BY <1>13 DEF Detach, InHand, stateVars, duckVars, queryVars, serverVars, history
<1>14. CASE Begin \/ WriterTaints \/ WriterSucceeds \/ WriterThrows \/ CommitReturns
         \/ RollbackReturns
  <2>1. UNCHANGED <<place, closing, pinned, hand>>
    BY <1>14 DEF Begin, WriterTaints, WriterSucceeds, WriterThrows, CommitReturns,
       RollbackReturns, stateVars, duckVars, queryVars, sessionVars, serverVars, history
  <2> QED
    BY <2>1 DEF InHand
<1>15. ASSUME NEW c \in Catalogs, PinThrows(c) \/ WriterStops(c) \/ ScanBegins(c)
         \/ ScanThrows(c) \/ ScanEnds(c) \/ CommitRefuses(c) \/ CommitAcknowledged(c)
     PROVE  InHand'
  <2>1. UNCHANGED <<place, closing, pinned, hand>>
    BY <1>15 DEF PinThrows, WriterStops, ScanBegins, ScanThrows, ScanEnds,
       CommitRefuses,
       CommitAcknowledged, stateVars, duckVars, queryVars, sessionVars, serverVars, history
  <2> QED
    BY <2>1 DEF InHand
<1>16. ASSUME NEW s \in Sessions, Disconnect(s) \/ LateCommit(s) \/ BorrowerLeaves(s)
     PROVE  InHand'
  <2>1. UNCHANGED <<place, closing, pinned, hand>>
    BY <1>16 DEF Disconnect, LateCommit, BorrowerLeaves, stateVars, duckVars, queryVars,
       sessionVars, serverVars, history
  <2> QED
    BY <2>1 DEF InHand
<1>17. ASSUME NEW how \in {"commit", "rollback"}, UserEnds(how)
     PROVE  InHand'
  <2>1. UNCHANGED <<place, closing, pinned, hand>>
    BY <1>17 DEF UserEnds, stateVars, sessionVars, serverVars, history
  <2> QED
    BY <2>1 DEF InHand
<1>18. CASE UNCHANGED vars
  BY <1>18 DEF vars, stateVars, duckVars, queryVars, sessionVars, serverVars, history,
     InHand
<1> QED
  BY <1>1, <1>2, <1>3, <1>4, <1>5, <1>6, <1>7, <1>8, <1>9, <1>10, <1>11, <1>12, <1>13,
     <1>14, <1>15, <1>16, <1>17, <1>18
  DEF Next, Statement, QueryStep, EndStep, Environment

(* A flaw is added to a session in use only, and is gone when it is closed. *)
LEMMA Flawed ==
    ASSUME TypeOK, NEW s \in Sessions, NEW found, Flaw(s, found)
    PROVE  /\ \A z \in Sessions : z # s => flaws'[z] = flaws[z]
           /\ flaws'[s] = IF place[s] = "closed" THEN {} ELSE flaws[s] \cup found
           /\ "state" \notin found =>
                 \A z \in Sessions : "state" \in flaws'[z] => "state" \in flaws[z]
BY DEF TypeOK, Flaw

(* An ended session is closed, or kept with nothing wrong with it.         *)
LEMMA EndedClean ==
    ASSUME TypeOK, NEW c \in Catalogs, NEW s \in Sessions,
           "state" \in flaws[s] => tainted[c],
           End(c, s) \/ Close(s)
    PROVE  /\ \A z \in Sessions : z # s => place'[z] = place[z] /\ flaws'[z] = flaws[z]
           /\ place'[s] \in {"idle", "closed"} /\ flaws'[s] = {}
<1>1. CASE Close(s)
  BY <1>1 DEF TypeOK, Close
<1>2. CASE Keeps(c, s) /\ Keep(s)
  <2>1. flaws[s] = {}
    BY <1>2 DEF TypeOK, Keeps, Reusable, Flaws
  <2> QED
    BY <1>2, <2>1 DEF TypeOK, Keep
<1> QED
  BY <1>1, <1>2 DEF End

LEMMA UsersStep ==
    ASSUME WriteAssumption, TypeOK, TypeOK', Staged, WriterIsHome, Held, OneAtATime,
           Users, [Next]_vars
    PROVE  Users'
<1> USE DEF TypeOK, WriteAssumption
<1>1. CASE WriterTaints
  BY <1>1 DEF WriterTaints, Users, InUse, duckVars, sessionVars, serverVars, history
<1>2. CASE WriterSucceeds
  BY <1>2 DEF WriterSucceeds, Users, InUse, NoWriter, stateVars, duckVars
<1>3. CASE WriterThrows
  BY <1>3 DEF WriterThrows, Users, InUse, stateVars, duckVars
<1>4. CASE WriterPoisons
  BY <1>4 DEF WriterPoisons, Poison, Users, InUse, NoWriter, duckVars, sessionVars,
     serverVars, history
<1>5. CASE PoisonCloses
  BY <1>5 DEF PoisonCloses, Users, InUse, Close, stateVars, duckVars, serverVars,
     history
<1>6. ASSUME NEW c \in Catalogs, WriterPins(c) PROVE Users'
  <2>1. PICK s \in Sessions, call \in Calls :
           /\ PinsSession(c, s)
           /\ writer' = [step |-> IF call = "procedure" THEN "taint" ELSE "execute",
                         call |-> call, catalog |-> c, session |-> s]
    BY <1>6 DEF WriterPins
  <2>2. place'[s] = "leased"
    BY <2>1 DEF PinsSession, Leases, Held, InOrder
  <2>3. \A z \in Sessions : InUse(z) => InUse(z)'
    BY <2>1 DEF PinsSession, Leases, InUse
  <2>4. UNCHANGED scan
    BY <1>6 DEF WriterPins
  <2> QED
    BY <2>1, <2>2, <2>3, <2>4 DEF Users, InUse
<1>7. ASSUME NEW c \in Catalogs, PinThrows(c) PROVE Users'
  BY <1>7 DEF PinThrows, Users, InUse, NoWriter, stateVars, duckVars, sessionVars,
     serverVars
<1>8. ASSUME NEW c \in Catalogs, ScanPins(c) PROVE Users'
  <2>1. PICK s \in Sessions : PinsSession(c, s) /\ scan' = [scan EXCEPT ![c] = s]
    BY <1>8 DEF ScanPins
  <2>2. place'[s] = "leased"
    BY <2>1 DEF PinsSession, Leases, Held, InOrder
  <2>3. \A z \in Sessions : InUse(z) => InUse(z)'
    BY <2>1 DEF PinsSession, Leases, InUse
  <2>4. UNCHANGED writer /\ writer = NoWriter
    BY <1>8 DEF ScanPins
  <2> QED
    BY <2>1, <2>2, <2>3, <2>4 DEF Users, InUse, NoWriter
<1>9. ASSUME NEW c \in Catalogs, ScanBegins(c) PROVE Users'
  BY <1>9 DEF ScanBegins, Users, InUse, ScanSource, Held, InOrder, stateVars, duckVars,
     serverVars, history
<1>10. ASSUME NEW c \in Catalogs, ScanThrows(c) PROVE Users'
  BY <1>10 DEF ScanThrows, Users, InUse, stateVars, duckVars, serverVars
<1>11. ASSUME NEW c \in Catalogs, ScanEnds(c) PROVE Users'
  BY <1>11 DEF ScanEnds, Users, InUse, stateVars, duckVars, sessionVars, serverVars,
     history
<1>12. ASSUME NEW c \in Catalogs, CommitThrows(c) PROVE Users'
  <2>1. UNCHANGED <<scan, writer>> /\ phase # "active"
    BY <1>12 DEF CommitThrows, queryVars, Staged
  <2>2. writer = NoWriter /\ \A d \in Catalogs : scan[d] = NoSession
    BY <2>1 DEF Staged, QueryIsOver, OneAtATime
  <2> QED
    BY <2>1, <2>2 DEF Users, NoWriter
<1>13. ASSUME NEW c \in Catalogs, CommitEnds(c) PROVE Users'
  <2>1. UNCHANGED <<scan, writer>> /\ phase # "active"
    BY <1>13 DEF CommitEnds, queryVars, Staged
  <2>2. writer = NoWriter /\ \A d \in Catalogs : scan[d] = NoSession
    BY <2>1 DEF Staged, QueryIsOver, OneAtATime
  <2> QED
    BY <2>1, <2>2 DEF Users, NoWriter
<1>14. ASSUME NEW c \in Catalogs, RollbackAcknowledged(c) PROVE Users'
  <2>1. UNCHANGED <<scan, writer>> /\ phase # "active"
    BY <1>14 DEF RollbackAcknowledged, RollbackDone, queryVars, Staged
  <2>2. writer = NoWriter /\ \A d \in Catalogs : scan[d] = NoSession
    BY <2>1 DEF Staged, QueryIsOver, OneAtATime
  <2> QED
    BY <2>1, <2>2 DEF Users, NoWriter
<1>15. ASSUME NEW c \in Catalogs, RollbackThrows(c) PROVE Users'
  <2>1. UNCHANGED <<scan, writer>> /\ phase # "active"
    BY <1>15 DEF RollbackThrows, RollbackDone, queryVars, Staged
  <2>2. writer = NoWriter /\ \A d \in Catalogs : scan[d] = NoSession
    BY <2>1 DEF Staged, QueryIsOver, OneAtATime
  <2> QED
    BY <2>1, <2>2 DEF Users, NoWriter
<1>16. ASSUME NEW c \in Catalogs, Detach(c) PROVE Users'
  <2>1. UNCHANGED <<scan, writer>> /\ \A z \in Sessions : InUse(z) => InUse(z)'
    BY <1>16 DEF Detach, InUse, queryVars
  <2>2. scan \in [Catalogs -> Sessions \cup {NoSession}]
    OBVIOUS
  <2>3. writer.step \in {"taint", "execute"} => writer.session \in Sessions
    BY DEF WriterIsHome
  <2> HIDE DEF TypeOK, WriteAssumption
  <2> QED
    BY <2>1, <2>2, <2>3 DEF Users
<1>17. ASSUME NEW how \in {"commit", "rollback"}, UserEnds(how) PROVE Users'
  BY <1>17 DEF UserEnds, Users, InUse, stateVars, sessionVars, serverVars, history
<1>18. CASE Begin \/ CommitReturns \/ RollbackAll \/ RollbackReturns
  <2>1. UNCHANGED <<place, scan, writer>>
    BY <1>18 DEF Begin, CommitReturns, RollbackAll, RollbackReturns, stateVars,
       queryVars,
       sessionVars, serverVars, history
  <2> QED
    BY <2>1 DEF Users, InUse
<1>19. ASSUME NEW c \in Catalogs, WriterStops(c) \/ ScanPoisons(c) \/ CommitRefuses(c)
         \/ CommitTakes(c) \/ CommitAcknowledged(c) \/ RollbackTakes(c)
     PROVE  Users'
  <2>1. UNCHANGED <<place, scan, writer>>
    BY <1>19 DEF WriterStops, ScanPoisons, Poison, CommitRefuses, CommitTakes,
       CommitAcknowledged, RollbackTakes, stateVars, duckVars, queryVars, sessionVars,
       serverVars, history
  <2> QED
    BY <2>1 DEF Users, InUse
<1>20. ASSUME NEW s \in Sessions, Disconnect(s) \/ LateCommit(s) \/ BorrowerLeaves(s)
     PROVE  Users'
  <2>1. UNCHANGED <<place, scan, writer>>
    BY <1>20 DEF Disconnect, LateCommit, BorrowerLeaves, stateVars, duckVars, queryVars,
       sessionVars, serverVars, history
  <2> QED
    BY <2>1 DEF Users, InUse
<1>21. CASE UNCHANGED vars
  BY <1>21 DEF vars, stateVars, duckVars, queryVars, sessionVars, serverVars, history,
     Users, InUse
<1> QED
  BY <1>1, <1>2, <1>3, <1>4, <1>5, <1>6, <1>7, <1>8, <1>9, <1>10, <1>11, <1>12, <1>13,
     <1>14, <1>15, <1>16, <1>17, <1>18, <1>19, <1>20, <1>21
  DEF Next, Statement, QueryStep, EndStep, Environment

LEMMA PinnedTyped ==
    ASSUME TypeOK
    PROVE  /\ pinned \in [Catalogs -> Sessions \cup {NoSession}]
           /\ hand \in [Catalogs -> Sessions \cup {NoSession}]
           /\ flaws \in [Sessions -> SUBSET Flaws]
BY DEF TypeOK

LEMMA WriterUses ==
    ASSUME TypeOK, Staged, WriterIsHome, writer.step \in {"taint", "execute"}
    PROVE  /\ writer.session \in Sessions /\ writer.catalog \in Catalogs
           /\ Home[writer.session] = writer.catalog
           /\ phase = "active" /\ \A c \in Catalogs : hand[c] = NoSession
BY DEF TypeOK, Staged, QueryIsOver, NoWriter, WriterIsHome

LEMMA RestedStep ==
    ASSUME WriteAssumption, TypeOK, TypeOK', Staged, WriterIsHome, Held, Users,
           Marked, Rested, [Next]_vars
    PROVE  Rested'
<1> USE DEF TypeOK, WriteAssumption
<1>1. CASE WriterSucceeds
  <2>1. /\ place[writer.session] = "leased" /\ writer.session \in Sessions
        /\ Flaw(writer.session, CallFlaws(TRUE, TRUE)) /\ UNCHANGED place
    BY <1>1, WriterUses DEF WriterSucceeds
  <2> HIDE DEF TypeOK, WriteAssumption
  <2> QED
    BY <2>1, Flawed DEF Rested
<1>2. CASE WriterThrows
  <2>1. PICK executed \in BOOLEAN : Flaw(writer.session, CallFlaws(executed, FALSE))
    BY <1>2 DEF WriterThrows
  <2>2. InUse(writer.session) /\ writer.session \in Sessions /\ UNCHANGED place
    BY <1>2, WriterUses DEF WriterThrows, Users
  <2> HIDE DEF TypeOK, WriteAssumption
  <2> QED
    BY <2>1, <2>2, PinnedTyped DEF Flaw, Rested, InUse
<1>3. CASE PoisonCloses
  BY <1>3 DEF PoisonCloses, Rested, Close, stateVars, duckVars, serverVars, history
<1>4. ASSUME NEW c \in Catalogs, WriterPins(c) PROVE Rested'
  <2>1. PICK s \in Sessions : PinsSession(c, s)
    BY <1>4 DEF WriterPins
  <2>2. UNCHANGED flaws
    BY <1>4 DEF WriterPins
  <2> QED
    BY <2>1, <2>2 DEF Rested, PinsSession, Leases
<1>5. ASSUME NEW c \in Catalogs, ScanPins(c) PROVE Rested'
  <2>1. PICK s \in Sessions : PinsSession(c, s) /\ Flaw(s, {"borrower"})
    BY <1>5 DEF ScanPins
  <2>2. place'[s] = "leased" /\ \A z \in Sessions : z # s => place'[z] = place[z]
    BY <2>1 DEF PinsSession, Leases, Held, InOrder
  <2> QED
    BY <2>1, <2>2, Flawed DEF Rested
<1>6. ASSUME NEW c \in Catalogs, ScanBegins(c) PROVE Rested'
  <2>1. /\ pinned[c] \in Sessions /\ InUse(pinned[c]) /\ Flaw(pinned[c], {"borrower"})
        /\ UNCHANGED place
    BY <1>6 DEF ScanBegins, ScanSource, Held, InOrder, Users, InUse
  <2> HIDE DEF TypeOK, WriteAssumption
  <2> QED
    BY <2>1, PinnedTyped DEF Flaw, Rested, InUse
<1>7. ASSUME NEW c \in Catalogs, ScanThrows(c) PROVE Rested'
  <2>1. /\ scan[c] \in Sessions /\ InUse(scan[c]) /\ Flaw(scan[c], {"exchange"})
        /\ UNCHANGED place
    BY <1>7 DEF ScanThrows, ScanSource, Held, InOrder, Users, InUse
  <2> HIDE DEF TypeOK, WriteAssumption
  <2> QED
    BY <2>1, PinnedTyped DEF Flaw, Rested, InUse
<1>8. ASSUME NEW c \in Catalogs, CommitThrows(c) PROVE Rested'
  <2>1. hand[c] \in Sessions /\ ("state" \in flaws[hand[c]] => tainted[c])
    BY <1>8 DEF CommitThrows, Staged, Marked
  <2>2. End(c, hand[c]) \/ Close(hand[c])
    BY <1>8 DEF CommitThrows
  <2> HIDE DEF TypeOK, WriteAssumption
  <2>3. \A z \in Sessions : (place'[z] = place[z] /\ flaws'[z] = flaws[z]) \/ flaws'[z] = {}
    BY <2>1, <2>2, EndedClean
  <2> QED
    BY <2>3 DEF Rested
<1>9. ASSUME NEW c \in Catalogs, CommitEnds(c) PROVE Rested'
  <2>1. hand[c] \in Sessions /\ ("state" \in flaws[hand[c]] => tainted[c])
    BY <1>9 DEF CommitEnds, Staged, Marked
  <2>2. End(c, hand[c]) \/ Close(hand[c])
    BY <1>9 DEF CommitEnds
  <2> HIDE DEF TypeOK, WriteAssumption
  <2>3. \A z \in Sessions : (place'[z] = place[z] /\ flaws'[z] = flaws[z]) \/ flaws'[z] = {}
    BY <2>1, <2>2, EndedClean
  <2> QED
    BY <2>3 DEF Rested
<1>10. ASSUME NEW c \in Catalogs, RollbackAcknowledged(c) PROVE Rested'
  <2>1. hand[c] \in Sessions /\ ("state" \in flaws[hand[c]] => tainted[c])
    BY <1>10 DEF RollbackAcknowledged, RollbackDone, Staged, Marked
  <2>2. End(c, hand[c]) \/ Close(hand[c])
    BY <1>10 DEF RollbackAcknowledged
  <2> HIDE DEF TypeOK, WriteAssumption
  <2>3. \A z \in Sessions : (place'[z] = place[z] /\ flaws'[z] = flaws[z]) \/ flaws'[z] = {}
    BY <2>1, <2>2, EndedClean
  <2> QED
    BY <2>3 DEF Rested
<1>11. ASSUME NEW c \in Catalogs, RollbackThrows(c) PROVE Rested'
  <2>1. hand[c] \in Sessions /\ ("state" \in flaws[hand[c]] => tainted[c])
    BY <1>11 DEF RollbackThrows, RollbackDone, Staged, Marked
  <2>2. End(c, hand[c]) \/ Close(hand[c])
    BY <1>11 DEF RollbackThrows
  <2> HIDE DEF TypeOK, WriteAssumption
  <2>3. \A z \in Sessions : (place'[z] = place[z] /\ flaws'[z] = flaws[z]) \/ flaws'[z] = {}
    BY <2>1, <2>2, EndedClean
  <2> QED
    BY <2>3 DEF Rested
<1>12. ASSUME NEW c \in Catalogs, Detach(c) PROVE Rested'
  BY <1>12 DEF Detach, Rested, stateVars, duckVars, queryVars, serverVars, history
<1>13. ASSUME NEW s \in Sessions, BorrowerLeaves(s) PROVE Rested'
  BY <1>13 DEF BorrowerLeaves, Rested, stateVars, duckVars, queryVars, serverVars,
     history
<1>14. CASE Begin \/ WriterTaints \/ WriterPoisons \/ CommitReturns \/ RollbackAll
         \/ RollbackReturns
  <2>1. UNCHANGED <<place, flaws>>
    BY <1>14 DEF Begin, WriterTaints, WriterPoisons, Poison, CommitReturns, RollbackAll,
       RollbackReturns, stateVars, duckVars, queryVars, sessionVars, serverVars, history
  <2> QED
    BY <2>1 DEF Rested
<1>15. ASSUME NEW c \in Catalogs, PinThrows(c) \/ WriterStops(c) \/ ScanEnds(c)
         \/ ScanPoisons(c) \/ CommitRefuses(c) \/ CommitTakes(c) \/ CommitAcknowledged(c)
         \/ RollbackTakes(c)
     PROVE  Rested'
  <2>1. UNCHANGED <<place, flaws>>
    BY <1>15 DEF PinThrows, WriterStops, ScanEnds, ScanPoisons, Poison, CommitRefuses,
       CommitTakes, CommitAcknowledged, RollbackTakes, stateVars, duckVars, queryVars,
       sessionVars, serverVars, history
  <2> QED
    BY <2>1 DEF Rested
<1>16. ASSUME NEW s \in Sessions, Disconnect(s) \/ LateCommit(s)
     PROVE  Rested'
  <2>1. UNCHANGED <<place, flaws>>
    BY <1>16 DEF Disconnect, LateCommit, stateVars, duckVars, queryVars, sessionVars,
       history
  <2> QED
    BY <2>1 DEF Rested
<1>17. ASSUME NEW how \in {"commit", "rollback"}, UserEnds(how)
     PROVE  Rested'
  <2>1. UNCHANGED <<place, flaws>>
    BY <1>17 DEF UserEnds, stateVars, sessionVars, serverVars, history
  <2> QED
    BY <2>1 DEF Rested
<1>18. CASE UNCHANGED vars
  BY <1>18 DEF vars, stateVars, duckVars, queryVars, sessionVars, serverVars, history,
     Rested
<1> QED
  BY <1>1, <1>2, <1>3, <1>4, <1>5, <1>6, <1>7, <1>8, <1>9, <1>10, <1>11, <1>12, <1>13,
     <1>14, <1>15, <1>16, <1>17, <1>18
  DEF Next, Statement, QueryStep, EndStep, Environment

LEMMA MarkedStep ==
    ASSUME WriteAssumption, TypeOK, TypeOK', Staged, WriterIsHome, Held, Rested,
           Marked, [Next]_vars
    PROVE  Marked'
<1> USE DEF TypeOK, WriteAssumption
<1>1. CASE WriterTaints
  <2> DEFINE c == writer.catalog
  <2>1. c \in Catalogs
    BY <1>1, WriterUses DEF WriterTaints
  <2>2. /\ tainted'[c] = (tainted[c] \/ pinned[c] # NoSession)
        /\ \A d \in Catalogs : d # c => tainted'[d] = tainted[d]
    BY <1>1, <2>1 DEF WriterTaints
  <2>3. /\ writer'.catalog = c /\ writer'.session # NoSession
        /\ UNCHANGED <<pinned, hand, flaws>>
    BY <1>1, WriterUses DEF WriterTaints, duckVars, sessionVars
  <2> HIDE DEF c, TypeOK, WriteAssumption
  <2> QED
    BY <2>1, <2>2, <2>3 DEF Marked
<1>2. CASE WriterSucceeds
  <2> DEFINE c == writer.catalog  s == writer.session
  <2>1. /\ writer.step = "execute" /\ Flaw(s, CallFlaws(TRUE, TRUE)) /\ writer' = NoWriter
        /\ UNCHANGED <<pinned, hand, tainted>>
    BY <1>2 DEF WriterSucceeds, stateVars, duckVars
  <2>2. /\ s \in Sessions /\ c \in Catalogs /\ Home[s] = c
        /\ \A d \in Catalogs : hand[d] = NoSession
    BY <2>1, WriterUses
  <2>3. /\ \A z \in Sessions : z # s => flaws'[z] = flaws[z]
        /\ "state" \in flaws'[s] => "state" \in flaws[s] \/ writer.call = "procedure"
    <3>1. "state" \in CallFlaws(TRUE, TRUE) => writer.call = "procedure"
      BY DEF CallFlaws
    <3> HIDE DEF c, s, TypeOK, WriteAssumption
    <3> QED
      BY <2>1, <2>2, <3>1, Flawed
  <2>4. \A d \in Catalogs : pinned[d] = s => d = c
    BY <2>2 DEF Held, InOrder
  <2> HIDE DEF c, s, TypeOK, WriteAssumption
  <2>5. \A d \in Catalogs :
           pinned[d] # NoSession /\ "state" \in flaws'[pinned[d]] => tainted[d]
    BY <2>1, <2>2, <2>3, <2>4, PinnedTyped DEF Marked, c, s
  <2> QED
    BY <2>1, <2>2, <2>5 DEF Marked, NoWriter
<1>3. CASE WriterThrows
  <2> DEFINE c == writer.catalog  s == writer.session
  <2>1. /\ writer.step = "execute" /\ writer' = [writer EXCEPT !.step = "failing"]
        /\ UNCHANGED <<pinned, hand, tainted>>
    BY <1>3 DEF WriterThrows, stateVars, duckVars
  <2>2. /\ s \in Sessions /\ c \in Catalogs /\ Home[s] = c
        /\ \A d \in Catalogs : hand[d] = NoSession
    BY <2>1, WriterUses
  <2>3. PICK executed \in BOOLEAN : Flaw(s, CallFlaws(executed, FALSE))
    BY <1>3 DEF WriterThrows
  <2>4. /\ \A z \in Sessions : z # s => flaws'[z] = flaws[z]
        /\ "state" \in flaws'[s] => "state" \in flaws[s] \/ writer.call = "procedure"
    <3>1. "state" \in CallFlaws(executed, FALSE) => writer.call = "procedure"
      BY DEF CallFlaws
    <3> HIDE DEF c, s, TypeOK, WriteAssumption
    <3> QED
      BY <2>2, <2>3, <3>1, Flawed
  <2>5. \A d \in Catalogs : pinned[d] = s => d = c
    BY <2>2 DEF Held, InOrder
  <2>6. writer'.step = "failing"
    BY <2>1
  <2> HIDE DEF c, s, TypeOK, WriteAssumption
  <2>7. \A d \in Catalogs :
           pinned[d] # NoSession /\ "state" \in flaws'[pinned[d]] => tainted[d]
    BY <2>1, <2>2, <2>4, <2>5, PinnedTyped DEF Marked, c, s
  <2> QED
    BY <2>1, <2>2, <2>6, <2>7 DEF Marked
<1>4. CASE WriterPoisons
  <2>1. /\ \A d \in Catalogs : pinned'[d] \in {pinned[d], NoSession}
        /\ UNCHANGED <<flaws, hand, tainted>> /\ writer'.step = "none"
    BY <1>4 DEF WriterPoisons, Poison, duckVars, sessionVars, NoWriter
  <2> HIDE DEF TypeOK, WriteAssumption
  <2> QED
    BY <2>1 DEF Marked
<1>5. ASSUME NEW c \in Catalogs, ScanPoisons(c) PROVE Marked'
  <2>1. /\ \A d \in Catalogs : pinned'[d] \in {pinned[d], NoSession}
        /\ UNCHANGED <<flaws, hand, tainted, writer>>
    BY <1>5 DEF ScanPoisons, Poison, duckVars, sessionVars
  <2> HIDE DEF TypeOK
  <2> QED
    BY <2>1, WriterUses DEF Marked, WriteAssumption
<1>6. CASE PoisonCloses
  BY <1>6 DEF PoisonCloses, Marked, Close, stateVars, duckVars, serverVars, history
<1>7. CASE RollbackAll
  <2>1. /\ \A d \in Catalogs : pinned'[d] \in {pinned[d], NoSession}
        /\ \A d \in Catalogs : hand'[d] \in {hand[d], pinned[d]}
        /\ UNCHANGED <<flaws, tainted, writer>> /\ phase # "active"
    BY <1>7 DEF RollbackAll, queryVars, sessionVars
  <2>2. writer.step = "none"
    BY <2>1 DEF Staged, QueryIsOver, NoWriter
  <2> HIDE DEF TypeOK, WriteAssumption
  <2> QED
    BY <2>1, <2>2 DEF Marked
<1>8. ASSUME NEW c \in Catalogs, CommitTakes(c) PROVE Marked'
  <2>1. /\ \A d \in Catalogs : pinned'[d] \in {pinned[d], NoSession}
        /\ \A d \in Catalogs : hand'[d] \in {hand[d], pinned[d]}
        /\ UNCHANGED <<flaws, tainted, writer>> /\ phase # "active"
    BY <1>8 DEF CommitTakes, CommitTurn, queryVars, sessionVars
  <2>2. writer.step = "none"
    BY <2>1 DEF Staged, QueryIsOver, NoWriter
  <2> HIDE DEF TypeOK, WriteAssumption
  <2> QED
    BY <2>1, <2>2 DEF Marked
<1>9. ASSUME NEW c \in Catalogs, RollbackTakes(c) PROVE Marked'
  <2>1. /\ \A d \in Catalogs : pinned'[d] \in {pinned[d], NoSession}
        /\ \A d \in Catalogs : hand'[d] \in {hand[d], pinned[d]}
        /\ UNCHANGED <<flaws, tainted, writer>> /\ phase # "active"
    BY <1>9 DEF RollbackTakes, queryVars, sessionVars
  <2>2. writer.step = "none"
    BY <2>1 DEF Staged, QueryIsOver, NoWriter
  <2> HIDE DEF TypeOK, WriteAssumption
  <2> QED
    BY <2>1, <2>2 DEF Marked
<1>10. ASSUME NEW c \in Catalogs, WriterPins(c) PROVE Marked'
  <2>1. PICK s \in Sessions, call \in Calls :
           /\ PinsSession(c, s)
           /\ writer' = [step |-> IF call = "procedure" THEN "taint" ELSE "execute",
                         call |-> call, catalog |-> c, session |-> s]
    BY <1>10 DEF WriterPins
  <2>2. \A d \in Catalogs :
           pinned'[d] # NoSession /\ "state" \in flaws[pinned'[d]] => tainted'[d]
    BY <2>1 DEF PinsSession, Leases, Rested, Marked
  <2>3. \A d \in Catalogs : hand[d] = NoSession
    BY <1>10 DEF WriterPins, WriterMayBegin, Staged
  <2>4. /\ UNCHANGED <<hand, flaws>>
        /\ ~(writer'.step = "execute" /\ writer'.call = "procedure")
    BY <1>10, <2>1 DEF WriterPins, duckVars
  <2> HIDE DEF TypeOK, WriteAssumption
  <2> QED
    BY <2>2, <2>3, <2>4 DEF Marked
<1>11. ASSUME NEW c \in Catalogs, PinThrows(c) PROVE Marked'
  <2>1. UNCHANGED <<pinned, hand, tainted, flaws>> /\ writer'.step = "failing"
    BY <1>11 DEF PinThrows, NoWriter, stateVars, duckVars, sessionVars
  <2> HIDE DEF TypeOK, WriteAssumption
  <2> QED
    BY <2>1 DEF Marked
<1>12. ASSUME NEW c \in Catalogs, ScanPins(c) PROVE Marked'
  <2>1. PICK s \in Sessions : PinsSession(c, s) /\ Flaw(s, {"borrower"})
    BY <1>12 DEF ScanPins
  <2>2. \A d \in Catalogs :
           pinned'[d] # NoSession /\ "state" \in flaws[pinned'[d]] => tainted'[d]
    BY <2>1 DEF PinsSession, Leases, Rested, Marked
  <2>3. \A d \in Catalogs : hand[d] = NoSession
    BY <1>12 DEF ScanPins, Staged
  <2>4. UNCHANGED <<hand, writer>> /\ writer.step = "none"
    BY <1>12 DEF ScanPins, duckVars, NoWriter
  <2>5. \A z \in Sessions : "state" \in flaws'[z] => "state" \in flaws[z]
    <3> HIDE DEF TypeOK, WriteAssumption
    <3> QED
      BY <2>1, PinnedTyped DEF Flaw
  <2>6. pinned' \in [Catalogs -> Sessions \cup {NoSession}]
    OBVIOUS
  <2> HIDE DEF TypeOK, WriteAssumption
  <2> QED
    BY <2>2, <2>3, <2>4, <2>5, <2>6, PinnedTyped DEF Marked
<1>13. ASSUME NEW c \in Catalogs, ScanBegins(c) PROVE Marked'
  <2>1. /\ pinned[c] \in Sessions /\ Flaw(pinned[c], {"borrower"})
        /\ UNCHANGED <<pinned, hand, tainted, writer>>
    BY <1>13 DEF ScanBegins, ScanSource, stateVars, duckVars
  <2>2. \A z \in Sessions : "state" \in flaws'[z] => "state" \in flaws[z]
    <3> HIDE DEF TypeOK, WriteAssumption
    <3> QED
      BY <2>1, PinnedTyped DEF Flaw
  <2> HIDE DEF TypeOK, WriteAssumption
  <2> QED
    BY <2>1, <2>2, PinnedTyped DEF Marked
<1>14. ASSUME NEW c \in Catalogs, ScanThrows(c) PROVE Marked'
  <2>1. /\ scan[c] \in Sessions /\ Flaw(scan[c], {"exchange"})
        /\ UNCHANGED <<pinned, hand, tainted, writer>>
    BY <1>14 DEF ScanThrows, ScanSource, stateVars, duckVars
  <2>2. \A z \in Sessions : "state" \in flaws'[z] => "state" \in flaws[z]
    <3> HIDE DEF TypeOK, WriteAssumption
    <3> QED
      BY <2>1, PinnedTyped DEF Flaw
  <2> HIDE DEF TypeOK, WriteAssumption
  <2> QED
    BY <2>1, <2>2, PinnedTyped DEF Marked
<1>15. ASSUME NEW c \in Catalogs, CommitThrows(c) PROVE Marked'
  <2>1. hand[c] \in Sessions /\ ("state" \in flaws[hand[c]] => tainted[c])
    BY <1>15 DEF CommitThrows, Staged, Marked
  <2>2. End(c, hand[c]) \/ Close(hand[c])
    BY <1>15 DEF CommitThrows
  <2>3. /\ UNCHANGED <<pinned, tainted, writer>>
        /\ \A d \in Catalogs : hand'[d] \in {hand[d], NoSession}
    BY <1>15 DEF CommitThrows, stateVars, queryVars
  <2>4. \A z \in Sessions : "state" \in flaws'[z] => "state" \in flaws[z]
    BY <2>1, <2>2, EndedClean
  <2> HIDE DEF TypeOK, WriteAssumption
  <2> QED
    BY <2>3, <2>4, PinnedTyped DEF Marked
<1>16. ASSUME NEW c \in Catalogs, CommitEnds(c) PROVE Marked'
  <2>1. hand[c] \in Sessions /\ ("state" \in flaws[hand[c]] => tainted[c])
    BY <1>16 DEF CommitEnds, Staged, Marked
  <2>2. End(c, hand[c]) \/ Close(hand[c])
    BY <1>16 DEF CommitEnds
  <2>3. /\ UNCHANGED <<pinned, tainted, writer>>
        /\ \A d \in Catalogs : hand'[d] \in {hand[d], NoSession}
    BY <1>16 DEF CommitEnds, stateVars, queryVars
  <2>4. \A z \in Sessions : "state" \in flaws'[z] => "state" \in flaws[z]
    BY <2>1, <2>2, EndedClean
  <2> HIDE DEF TypeOK, WriteAssumption
  <2> QED
    BY <2>3, <2>4, PinnedTyped DEF Marked
<1>17. ASSUME NEW c \in Catalogs, RollbackAcknowledged(c) PROVE Marked'
  <2>1. hand[c] \in Sessions /\ ("state" \in flaws[hand[c]] => tainted[c])
    BY <1>17 DEF RollbackAcknowledged, RollbackDone, Staged, Marked
  <2>2. End(c, hand[c]) \/ Close(hand[c])
    BY <1>17 DEF RollbackAcknowledged
  <2>3. /\ UNCHANGED <<pinned, tainted, writer>>
        /\ \A d \in Catalogs : hand'[d] \in {hand[d], NoSession}
    BY <1>17 DEF RollbackAcknowledged, RollbackDone, stateVars, queryVars
  <2>4. \A z \in Sessions : "state" \in flaws'[z] => "state" \in flaws[z]
    BY <2>1, <2>2, EndedClean
  <2> HIDE DEF TypeOK, WriteAssumption
  <2> QED
    BY <2>3, <2>4, PinnedTyped DEF Marked
<1>18. ASSUME NEW c \in Catalogs, RollbackThrows(c) PROVE Marked'
  <2>1. hand[c] \in Sessions /\ ("state" \in flaws[hand[c]] => tainted[c])
    BY <1>18 DEF RollbackThrows, RollbackDone, Staged, Marked
  <2>2. End(c, hand[c]) \/ Close(hand[c])
    BY <1>18 DEF RollbackThrows
  <2>3. /\ UNCHANGED <<pinned, tainted, writer>>
        /\ \A d \in Catalogs : hand'[d] \in {hand[d], NoSession}
    BY <1>18 DEF RollbackThrows, RollbackDone, stateVars, queryVars
  <2>4. \A z \in Sessions : "state" \in flaws'[z] => "state" \in flaws[z]
    BY <2>1, <2>2, EndedClean
  <2> HIDE DEF TypeOK, WriteAssumption
  <2> QED
    BY <2>3, <2>4, PinnedTyped DEF Marked
<1>19. ASSUME NEW s \in Sessions, BorrowerLeaves(s) PROVE Marked'
  <2>1. UNCHANGED <<pinned, hand, tainted, writer>>
    BY <1>19 DEF BorrowerLeaves, stateVars, duckVars, queryVars
  <2>2. \A z \in Sessions : "state" \in flaws'[z] => "state" \in flaws[z]
    BY <1>19 DEF BorrowerLeaves
  <2> HIDE DEF TypeOK, WriteAssumption
  <2> QED
    BY <2>1, <2>2, PinnedTyped DEF Marked
<1>20. CASE Begin \/ CommitReturns \/ RollbackReturns
  <2>1. UNCHANGED <<flaws, pinned, hand, tainted, writer>>
    BY <1>20 DEF Begin, CommitReturns, RollbackReturns, stateVars, queryVars,
       sessionVars,
       serverVars, history
  <2> QED
    BY <2>1 DEF Marked
<1>21. ASSUME NEW c \in Catalogs, WriterStops(c) \/ ScanEnds(c) \/ CommitRefuses(c)
         \/ CommitAcknowledged(c) \/ Detach(c)
     PROVE  Marked'
  <2>1. UNCHANGED <<flaws, pinned, hand, tainted, writer>>
    BY <1>21 DEF WriterStops, ScanEnds, CommitRefuses, CommitAcknowledged, Detach,
       stateVars, duckVars, queryVars, sessionVars, serverVars, history
  <2> QED
    BY <2>1 DEF Marked
<1>22. ASSUME NEW s \in Sessions, Disconnect(s) \/ LateCommit(s)
     PROVE  Marked'
  <2>1. UNCHANGED <<flaws, pinned, hand, tainted, writer>>
    BY <1>22 DEF Disconnect, LateCommit, stateVars, duckVars, queryVars, sessionVars,
       history
  <2> QED
    BY <2>1 DEF Marked
<1>23. ASSUME NEW how \in {"commit", "rollback"}, UserEnds(how)
     PROVE  Marked'
  <2>1. UNCHANGED <<flaws, pinned, hand, tainted, writer>>
    BY <1>23 DEF UserEnds, stateVars, sessionVars, serverVars, history
  <2> QED
    BY <2>1 DEF Marked
<1>24. CASE UNCHANGED vars
  BY <1>24 DEF vars, stateVars, duckVars, queryVars, sessionVars, serverVars, history,
     Marked
<1> QED
  BY <1>1, <1>2, <1>3, <1>4, <1>5, <1>6, <1>7, <1>8, <1>9, <1>10, <1>11, <1>12, <1>13,
     <1>14, <1>15, <1>16, <1>17, <1>18, <1>19, <1>20, <1>21, <1>22, <1>23, <1>24
  DEF Next, Statement, QueryStep, EndStep, Environment

-----------------------------------------------------------------------------
(* What a status says                                                      *)

LEMMA PinsHonest ==
    ASSUME WriteAssumption, TypeOK, HistoryOK, Staged, Untouched, LateIsWhole,
           OutcomeIsHonest, phase = "active", NEW c \in Catalogs, NEW s \in Sessions,
           PinsSession(c, s), UNCHANGED <<durable, acked, stage, late>>
    PROVE  OutcomeIsHonest'
<1>1. CASE UNCHANGED <<status, about, owner>>
  BY <1>1 DEF OutcomeIsHonest
<1>2. CASE Leases(c, s)
  <2>1. /\ about'[c] = txn /\ status'[c].outcome = "not_attempted"
        /\ \A d \in Catalogs : d # c => about'[d] = about[d] /\ status'[d] = status[d]
    BY <1>2 DEF Leases, NewStatus, TypeOK, HistoryOK
  <2>2. \A z \in late : owner'[z] = owner[z]
    BY PinsKeepsLate
  <2>3. durable[txn][c] = 0 /\ NoneLate(txn, c)
    BY DEF Untouched
  <2> QED
    BY <2>1, <2>2, <2>3 DEF OutcomeIsHonest, NoneLate
<1> QED
  BY <1>1, <1>2 DEF PinsSession

LEMMA OutcomeStep ==
    ASSUME WriteAssumption, TypeOK, TypeOK', HistoryOK, Staged, WriterIsHome, Held,
           Untouched, LateIsWhole, Confirmed, OneAtATime, Reports, OutcomeIsHonest,
           [Next]_vars
    PROVE  OutcomeIsHonest'
<1> USE DEF TypeOK, HistoryOK, WriteAssumption
<1>1. CASE Begin
  BY <1>1 DEF Begin, OutcomeIsHonest, Staged, stateVars, queryVars, sessionVars,
     serverVars,
     history
<1>2. CASE WriterSucceeds
  <2>1. /\ phase = "active" /\ txn \in Numbers /\ writer.catalog \in Catalogs
        /\ \A n \in Numbers, d \in Catalogs : n # txn => acked'[n][d] = acked[n][d]
    BY <1>2, WriterCounts
  <2>2. UNCHANGED <<about, durable, status, stage, late, owner>>
    BY <1>2 DEF WriterSucceeds, stateVars, duckVars
  <2>3. \A c \in Catalogs : about[c] = txn => status[c].outcome = "not_attempted"
    BY <2>1 DEF Reports, Staged
  <2>4. \A c \in Catalogs : about[c] # 0 => about[c] \in Numbers
    BY DEF Numbers
  <2> HIDE DEF TypeOK, HistoryOK, WriteAssumption
  <2> QED
    BY <2>1, <2>2, <2>3, <2>4 DEF OutcomeIsHonest
<1>3. CASE WriterPoisons
  <2>1. /\ \A d \in Catalogs : status'[d].outcome = status[d].outcome
        /\ UNCHANGED <<about, durable, acked, stage, late, owner>>
    BY <1>3 DEF WriterPoisons, Poison, duckVars, serverVars, history
  <2> QED
    BY <2>1 DEF OutcomeIsHonest
<1>4. ASSUME NEW c \in Catalogs, ScanPoisons(c) PROVE OutcomeIsHonest'
  <2>1. /\ \A d \in Catalogs : status'[d].outcome = status[d].outcome
        /\ UNCHANGED <<about, durable, acked, stage, late, owner>>
    BY <1>4 DEF ScanPoisons, Poison, duckVars, serverVars, history
  <2> QED
    BY <2>1 DEF OutcomeIsHonest
<1>5. ASSUME NEW c \in Catalogs, RollbackTakes(c) PROVE OutcomeIsHonest'
  <2>1. /\ \A d \in Catalogs : status'[d].outcome = status[d].outcome
        /\ \A d \in Catalogs : stage'[d] = stage[d] \/ stage[d] # "acked"
        /\ UNCHANGED <<about, durable, acked, late, owner>>
    BY <1>5 DEF RollbackTakes, serverVars, history
  <2> QED
    BY <2>1 DEF OutcomeIsHonest
<1>6. CASE RollbackAll
  <2>1. /\ \A d \in Catalogs : status'[d].outcome = status[d].outcome
        /\ \A d \in Catalogs : stage[d] # "acked"
        /\ UNCHANGED <<about, durable, acked, late, owner>>
    BY <1>6 DEF RollbackAll, serverVars, history, OneAtATime
  <2> QED
    BY <2>1 DEF OutcomeIsHonest
<1>7. ASSUME NEW c \in Catalogs, WriterPins(c) PROVE OutcomeIsHonest'
  <2>1. PICK s \in Sessions : PinsSession(c, s)
    BY <1>7 DEF WriterPins
  <2> QED
    BY <1>7, <2>1, PinsHonest DEF WriterPins, WriterMayBegin, duckVars
<1>8. ASSUME NEW c \in Catalogs, ScanPins(c) PROVE OutcomeIsHonest'
  <2>1. PICK s \in Sessions : PinsSession(c, s)
    BY <1>8 DEF ScanPins
  <2> QED
    BY <1>8, <2>1, PinsHonest DEF ScanPins, WriterMayBegin, duckVars
<1>9. ASSUME NEW c \in Catalogs, CommitTakes(c) PROVE OutcomeIsHonest'
  BY <1>9 DEF CommitTakes, OutcomeIsHonest, CommitTurn, queryVars, sessionVars,
     serverVars,
     history
<1>10. ASSUME NEW c \in Catalogs, CommitAcknowledged(c) PROVE OutcomeIsHonest'
  <2>1. /\ txn \in Numbers /\ phase = "commit" /\ stage[c] = "taken"
        /\ \A n \in Numbers, d \in Catalogs :
              n # txn \/ d # c => durable'[n][d] = durable[n][d]
    BY <1>10, CommitAdds
  <2>2. /\ UNCHANGED <<about, acked, status, late, owner>>
        /\ stage' = [stage EXCEPT ![c] = "acked"]
    BY <1>10 DEF CommitAcknowledged, stateVars
  <2>3. about[c] = txn /\ status[c].outcome = "not_attempted"
    BY <2>1 DEF Reports, Staged
  <2>4. \A d \in Catalogs : about[d] # 0 => about[d] \in Numbers
    BY DEF Numbers
  <2>5. stage'[c] = "acked" /\ \A d \in Catalogs : d # c => stage'[d] = stage[d]
    BY <2>2
  <2> HIDE DEF TypeOK, HistoryOK, WriteAssumption
  <2> QED
    BY <2>1, <2>2, <2>3, <2>4, <2>5 DEF OutcomeIsHonest
<1>11. ASSUME NEW c \in Catalogs, CommitThrows(c) PROVE OutcomeIsHonest'
  <2>1. hand[c] \in Sessions /\ Home[hand[c]] = c
    BY <1>11 DEF CommitThrows, Staged, Held, InOrder
  <2>2. /\ UNCHANGED <<about, acked, durable, owner>>
        /\ late' \in {late, late \cup {hand[c]}}
        /\ status'[c].outcome = "unknown"
        /\ \A d \in Catalogs : d # c => status'[d] = status[d] /\ stage'[d] = stage[d]
    BY <1>11 DEF CommitThrows, Unconfirmed
  <2> HIDE DEF TypeOK, HistoryOK, WriteAssumption
  <2> QED
    BY <2>1, <2>2 DEF OutcomeIsHonest
<1>12. ASSUME NEW c \in Catalogs, CommitEnds(c) PROVE OutcomeIsHonest'
  <2>1. /\ phase = "commit" /\ stage[c] = "acked" /\ about[c] = txn
        /\ status[c].outcome = "not_attempted" /\ durable[txn][c] = acked[txn][c]
    BY <1>12 DEF CommitEnds, Reports, Staged, Confirmed
  <2>2. /\ UNCHANGED <<about, acked, durable, owner, late>>
        /\ status'[c].outcome = "committed"
        /\ \A d \in Catalogs : d # c => status'[d] = status[d] /\ stage'[d] = stage[d]
    BY <1>12 DEF CommitEnds, serverVars, history
  <2> HIDE DEF TypeOK, HistoryOK, WriteAssumption
  <2> QED
    BY <2>1, <2>2 DEF OutcomeIsHonest
<1>13. ASSUME NEW c \in Catalogs, RollbackAcknowledged(c) PROVE OutcomeIsHonest'
  BY <1>13 DEF RollbackAcknowledged, RollbackDone, OutcomeIsHonest, stateVars,
     queryVars,
     history
<1>14. ASSUME NEW c \in Catalogs, RollbackThrows(c) PROVE OutcomeIsHonest'
  BY <1>14 DEF RollbackThrows, RollbackDone, OutcomeIsHonest, stateVars, queryVars,
     history
<1>15. ASSUME NEW s \in Sessions, Disconnect(s) PROVE OutcomeIsHonest'
  BY <1>15 DEF Disconnect, OutcomeIsHonest, stateVars, duckVars, queryVars, sessionVars,
     history
<1>16. ASSUME NEW s \in Sessions, LateCommit(s) PROVE OutcomeIsHonest'
  <2>1. late' = late \ {s} /\ UNCHANGED <<about, acked, status, stage, owner>>
    BY <1>16 DEF LateCommit, stateVars, duckVars
  <2>2. \A c \in Catalogs : about[c] # 0 => about[c] \in Numbers
    BY DEF Numbers
  <2> HIDE DEF TypeOK, HistoryOK, WriteAssumption
  <2>3. ASSUME NEW c \in Catalogs, about[c] # 0
        PROVE  \/ durable'[about[c]][c] = durable[about[c]][c]
               \/ status[c].outcome = "unknown"
    <3>1. owner[s] = about[c] /\ Home[s] = c => status[c].outcome = "unknown"
      BY <1>16, <2>3, LateCommitAdds DEF OutcomeIsHonest
    <3> QED
      BY <1>16, <2>2, <2>3, <3>1, LateCommitAdds
  <2> QED
    BY <2>1, <2>3 DEF OutcomeIsHonest
<1>17. CASE WriterTaints \/ WriterThrows \/ PoisonCloses \/ CommitReturns \/ RollbackReturns
  <2>1. UNCHANGED <<about, durable, acked, status, stage, late, owner>>
    BY <1>17 DEF WriterTaints, WriterThrows, PoisonCloses, CommitReturns,
       RollbackReturns,
       stateVars, duckVars, queryVars, sessionVars, serverVars, history
  <2> QED
    BY <2>1 DEF OutcomeIsHonest
<1>18. ASSUME NEW c \in Catalogs, PinThrows(c) \/ WriterStops(c) \/ ScanBegins(c)
         \/ ScanThrows(c) \/ ScanEnds(c) \/ CommitRefuses(c) \/ Detach(c)
     PROVE  OutcomeIsHonest'
  <2>1. UNCHANGED <<about, durable, acked, status, stage, late, owner>>
    BY <1>18 DEF PinThrows, WriterStops, ScanBegins, ScanThrows, ScanEnds,
       CommitRefuses,
       Detach, stateVars, duckVars, queryVars, sessionVars, serverVars, history
  <2> QED
    BY <2>1 DEF OutcomeIsHonest
<1>19. ASSUME NEW s \in Sessions, BorrowerLeaves(s)
     PROVE  OutcomeIsHonest'
  <2>1. UNCHANGED <<about, durable, acked, status, stage, late, owner>>
    BY <1>19 DEF BorrowerLeaves, stateVars, duckVars, queryVars, serverVars, history
  <2> QED
    BY <2>1 DEF OutcomeIsHonest
<1>20. ASSUME NEW how \in {"commit", "rollback"}, UserEnds(how)
     PROVE  OutcomeIsHonest'
  <2>1. UNCHANGED <<about, durable, acked, status, stage, late, owner>>
    BY <1>20 DEF UserEnds, stateVars, sessionVars, serverVars, history
  <2> QED
    BY <2>1 DEF OutcomeIsHonest
<1>21. CASE UNCHANGED vars
  BY <1>21 DEF vars, stateVars, duckVars, queryVars, sessionVars, serverVars, history,
     OutcomeIsHonest
<1> QED
  BY <1>1, <1>2, <1>3, <1>4, <1>5, <1>6, <1>7, <1>8, <1>9, <1>10, <1>11, <1>12, <1>13,
     <1>14, <1>15, <1>16, <1>17, <1>18, <1>19, <1>20, <1>21
  DEF Next, Statement, QueryStep, EndStep, Environment

-----------------------------------------------------------------------------
(* The theorems                                                            *)

LEMMA EndsInit == ASSUME Init PROVE EndsInv
<1>1. TruthInv
  BY InitInv
<1>2. OneAtATime /\ InHand /\ OutcomeIsHonest
  BY DEF Init, OneAtATime, InHand, OutcomeIsHonest
<1>3. Reports /\ Settled
  BY DEF Init, Reports, Settled, NewStatus
<1>4. Users /\ Rested /\ Marked
  BY DEF Init, Users, Rested, Marked, NoWriter
<1> QED
  BY <1>1, <1>2, <1>3, <1>4 DEF EndsInv

LEMMA EndsStep == ASSUME EndsInv, [Next]_vars PROVE EndsInv'
<1> USE WriteAssumption DEF EndsInv
<1>1. TruthInv' /\ TypeOK' /\ HistoryOK'
  BY StepInv DEF TruthInv, WholeInv
<1> USE DEF TruthInv, WholeInv
<1>2. OneAtATime' /\ Reports' /\ Settled'
  BY <1>1, OneAtATimeStep, ReportsStep, SettledStep
<1>3. InHand' /\ Users' /\ Rested' /\ Marked'
  BY <1>1, InHandStep, UsersStep, RestedStep, MarkedStep
<1>4. OutcomeIsHonest'
  BY <1>1, OutcomeStep
<1> QED
  BY <1>1, <1>2, <1>3, <1>4

LEMMA EndsInvariance == Spec => []EndsInv
<1>1. Init => EndsInv
  BY EndsInit
<1>2. EndsInv /\ [Next]_vars => EndsInv'
  BY EndsStep
<1> QED
  BY <1>1, <1>2, PTL DEF Spec

(* Whatever fails and however late a COMMIT is carried out,                *)
(* oracle_transaction_status says `committed' only of what is durable, and *)
(* `unknown' whenever it may become so (OracleWriteState::Commit).         *)
THEOREM StatusIsHonest == Spec => []OutcomeIsHonest
<1>1. EndsInv => OutcomeIsHonest
  BY DEF EndsInv
<1> QED
  BY <1>1, EndsInvariance, PTL

(* Between two transactions OracleWriteState holds no entry and no refusal *)
(* of the first, every session it leased was given back or closed, and     *)
(* what was given back has nothing of the transaction on it.               *)
THEOREM NextStartsClean == Spec => []NothingOutlivesTheTransaction
<1>1. EndsInv => NothingOutlivesTheTransaction
  <2> SUFFICES ASSUME EndsInv PROVE NothingOutlivesTheTransaction
    OBVIOUS
  <2> USE DEF EndsInv, TruthInv, WholeInv
  <2>1. ASSUME phase = "none"
        PROVE  /\ failed = {}
               /\ \A c \in Catalogs :
                     pinned[c] = NoSession /\ status[c].connection # "active"
    BY <2>1 DEF Staged, Settled, TypeOK
  <2>2. \A s \in Sessions : place[s] = "leased" =>
           s \in closing \/ \E c \in Catalogs : s \in {pinned[c], hand[c]}
    BY DEF InHand
  <2>3. \A s \in Sessions : place[s] = "idle" =>
           work[s] = 0 /\ s \notin late /\ flaws[s] = {}
    BY DEF Held, LateIsWhole, Rested
  <2> QED
    BY <2>1, <2>2, <2>3 DEF NothingOutlivesTheTransaction
<1> QED
  BY <1>1, EndsInvariance, PTL
=============================================================================
