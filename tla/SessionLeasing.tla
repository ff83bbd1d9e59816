--------------------------- MODULE SessionLeasing ---------------------------
(***************************************************************************)
(* What OracleTransactionSessionPool promises its callers, in the words of *)
(* transaction_session_pool.hpp lines 28-44: a session is leased whole to  *)
(* one transaction, a session comes back to the pool only after the        *)
(* transaction ended in a confirmed COMMIT or ROLLBACK, and a session that *)
(* was dropped is never seen again.  Locks, probes, deadlines, expiry and  *)
(* the calls that close a connection are the business of TxnSessionPool,   *)
(* which implements this specification.                                    *)
(***************************************************************************)
CONSTANTS Transactions, Sessions

VARIABLES
    lease,          \* who has each session: a transaction, the pool, nobody
    uncommitted     \* the sessions whose server holds work nobody has ended

vars == <<lease, uncommitted>>

Places == Transactions \cup {"fresh", "idle", "dropped"}

Idle == {s \in Sessions : lease[s] = "idle"}

HoldsNothing(t) == \A s \in Sessions : lease[s] # t

(* The lease after session s moves to place p and the pool forgets the     *)
(* idle sessions in D in the same critical section.                        *)
Move(s, p, D) == [x \in Sessions |-> IF x = s THEN p
                                     ELSE IF x \in D THEN "dropped"
                                     ELSE lease[x]]

Init == /\ lease = [s \in Sessions |-> "fresh"]
        /\ uncommitted = {}

(* A transaction gets a session it alone holds: a new one or an idle one.  *)
Lease(t, s) == /\ HoldsNothing(t)
               /\ lease[s] \in {"fresh", "idle"}
               /\ lease' = [lease EXCEPT ![s] = t]
               /\ UNCHANGED uncommitted

Work(t, s) == /\ lease[s] = t
              /\ uncommitted' = uncommitted \cup {s}
              /\ UNCHANGED lease

(* The server acknowledged the transaction's COMMIT or ROLLBACK.           *)
End(t, s) == /\ lease[s] = t
             /\ uncommitted' = uncommitted \ {s}
             /\ UNCHANGED lease

Return(t, s) == /\ lease[s] = t
                /\ s \notin uncommitted
                /\ \E D \in SUBSET Idle : lease' = Move(s, "idle", D)
                /\ UNCHANGED uncommitted

GiveUp(t, s) == /\ lease[s] = t
                /\ \E D \in SUBSET Idle : lease' = Move(s, "dropped", D)
                /\ UNCHANGED uncommitted

Forget == /\ \E D \in SUBSET Idle :
                lease' = [s \in Sessions |-> IF s \in D THEN "dropped" ELSE lease[s]]
          /\ UNCHANGED uncommitted

(* The server of a dropped session rolls its work back.                    *)
RollBack(s) == /\ lease[s] = "dropped"
               /\ uncommitted' = uncommitted \ {s}
               /\ UNCHANGED lease

Next == \/ \E t \in Transactions, s \in Sessions :
              \/ Lease(t, s)
              \/ Work(t, s)
              \/ End(t, s)
              \/ Return(t, s)
              \/ GiveUp(t, s)
        \/ \E s \in Sessions : RollBack(s)
        \/ Forget

Spec == Init /\ [][Next]_vars

=============================================================================
