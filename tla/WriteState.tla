----------------------------- MODULE WriteState -----------------------------
(***************************************************************************)
(* OracleWriteState (src/src/oracle_write.cpp) and the transaction manager *)
(* of an attached catalog (src/src/oracle_catalog.cpp): the life of the    *)
(* DuckDB transactions of one connection that write to attached Oracle     *)
(* catalogs.  The first write to a catalog pins a session, a failed        *)
(* statement poisons the catalog until ROLLBACK, and COMMIT and ROLLBACK   *)
(* end every pinned session at its server, return it to the catalog's pool *)
(* or close it, and record an outcome the user can read.                   *)
(*                                                                         *)
(* Within a query the writing operator and the scans of the same catalogs  *)
(* run on different threads, so a scan may poison the catalog between the  *)
(* moment the writer got its session and the moment it uses it.  The       *)
(* servers may lose any exchange: a statement or a COMMIT that failed here *)
(* may have been carried out there, a COMMIT even later.                   *)
(***************************************************************************)
EXTENDS Naturals, FiniteSets

CONSTANTS
    Catalogs,
    Sessions,           \* identities of sessions; one is opened at most once
    NoSession,
    NoCatalog,
    Home,               \* the catalog whose server each session talks to
    MaxTransactions,    \* bound: transactions of the connection
    MaxStatements       \* bound: writing statements per transaction

ASSUME WriteAssumption ==
    /\ IsFiniteSet(Catalogs)
    /\ NoSession \notin Sessions
    /\ NoCatalog \notin Catalogs
    /\ Home \in [Sessions -> Catalogs]
    /\ MaxTransactions \in Nat
    /\ MaxStatements \in Nat

VARIABLES
    \* OracleWriteState of the connection
    pinned,     \* catalog -> session, or NoSession when there is no entry
    tainted,    \* PinnedOracleSession::tainted of the entry
    failed,     \* catalogs that refuse everything until ROLLBACK
    status,     \* catalog -> OracleTransactionStatus
    \* the transaction as DuckDB drives it
    txn,        \* number of the current or last transaction
    invalidated, \* DuckDB refuses everything but ROLLBACK
    phase,
    stage,      \* how far COMMIT or ROLLBACK got with each catalog
    hand,       \* entry taken out of the map to be ended
    writer,     \* the writing operator
    scan,       \* the session a running scan of each catalog reads from
    poisoner,   \* catalogs whose scan failed and has still to poison
    closing,    \* sessions a poison took out of the map and has to close
    \* the sessions and the pools of the catalogs
    pools,      \* catalogs that have a pool; the others open and close
    place,      \* where each session is
    flaws,      \* why the session could not be reused, see Flaws
    \* the servers
    work,       \* number of uncommitted statements on the session
    owner,      \* the transaction they belong to
    late,       \* sessions with a COMMIT the server may still carry out
    \* history, for the properties
    acked,      \* writing statements whose success the transaction was told
    durable,    \* how many of its statements were made durable
    spoiled,    \* catalogs on which a statement of the transaction failed
    told,       \* what the user was told about the end of the transaction
    about       \* the transaction that last reset a catalog's status

stateVars == <<pinned, tainted, failed, status>>
duckVars == <<txn, invalidated, phase, stage, hand>>
queryVars == <<writer, scan, poisoner, closing>>
sessionVars == <<pools, place, flaws>>
serverVars == <<work, owner, late>>
history == <<acked, durable, spoiled, told, about>>
vars == <<stateVars, duckVars, queryVars, sessionVars, serverVars, history>>

-----------------------------------------------------------------------------
(* exchange: an exchange failed; state: a procedure changed the session    *)
(* beyond its transaction; borrower: a scan, or the bind data of a         *)
(* prepared query, still holds the session and its open statement.         *)
Flaws == {"exchange", "state", "borrower"}

(* What OracleTransactionSessionPool::Release finds wrong with a session.  *)
Reusable(s) == flaws[s] \cap {"exchange", "borrower"} = {}

Calls == {"dml", "procedure"}

NoWriter == [step |-> "none", call |-> "dml", catalog |-> NoCatalog, session |-> NoSession]

NewStatus == [outcome |-> "not_attempted", connection |-> "idle"]

Numbers == 1 .. MaxTransactions

Init ==
    /\ pinned = [c \in Catalogs |-> NoSession]
    /\ tainted = [c \in Catalogs |-> FALSE]
    /\ failed = {}
    /\ status = [c \in Catalogs |-> NewStatus]
    /\ txn = 0
    /\ invalidated = FALSE
    /\ phase = "none"
    /\ stage = [c \in Catalogs |-> "done"]
    /\ hand = [c \in Catalogs |-> NoSession]
    /\ writer = NoWriter
    /\ scan = [c \in Catalogs |-> NoSession]
    /\ poisoner = {}
    /\ closing = {}
    /\ pools \in SUBSET Catalogs
    /\ place = [s \in Sessions |-> "fresh"]
    /\ flaws = [s \in Sessions |-> {}]
    /\ work = [s \in Sessions |-> 0]
    /\ owner = [s \in Sessions |-> 0]
    /\ late = {}
    /\ acked = [n \in Numbers |-> [c \in Catalogs |-> 0]]
    /\ durable = [n \in Numbers |-> [c \in Catalogs |-> 0]]
    /\ spoiled = [n \in Numbers |-> {}]
    /\ told = [n \in Numbers |-> "open"]
    /\ about = [c \in Catalogs |-> 0]

-----------------------------------------------------------------------------
(* Ending a session, after its entry left the map                          *)

(* End(entry), after an acknowledged COMMIT or ROLLBACK: Release keeps the *)
(* session only if it finds nothing wrong with it.                         *)
Keeps(c, s) == c \in pools /\ ~tainted[c] /\ Reusable(s)

(* Close(entry): Discard at the pool, or session->Close().  Nothing that   *)
(* was wrong with a closed session matters any more.                       *)
Close(s) == /\ place' = [place EXCEPT ![s] = "closed"]
            /\ flaws' = [flaws EXCEPT ![s] = {}]

Keep(s) == place' = [place EXCEPT ![s] = "idle"] /\ UNCHANGED flaws

(* The pool may also have no room for it.                                  *)
End(c, s) == (Keeps(c, s) /\ Keep(s)) \/ Close(s)

Flaw(s, found) ==
    flaws' = [flaws EXCEPT ![s] = IF place[s] = "closed" THEN {} ELSE @ \cup found]

(* A disconnected server rolls back what was not committed, unless a       *)
(* COMMIT is already on its way to it.                                     *)
Disconnect(s) ==
    /\ place[s] = "closed"
    /\ work[s] > 0
    /\ work' = [work EXCEPT ![s] = 0]
    /\ late' = late \ {s}
    /\ UNCHANGED <<stateVars, duckVars, queryVars, sessionVars, owner, history>>

(* The server carries out a COMMIT whose acknowledgement was lost.         *)
LateCommit(s) ==
    /\ s \in late
    /\ durable' = [durable EXCEPT ![owner[s]][Home[s]] = @ + work[s]]
    /\ work' = [work EXCEPT ![s] = 0]
    /\ late' = late \ {s}
    /\ UNCHANGED <<stateVars, duckVars, queryVars, sessionVars, owner, acked, spoiled,
                   told, about>>

(* The borrower lets go of the session, in its own time.                   *)
BorrowerLeaves(s) ==
    /\ "borrower" \in flaws[s]
    /\ \A c \in Catalogs : scan[c] # s
    /\ flaws' = [flaws EXCEPT ![s] = @ \ {"borrower"}]
    /\ UNCHANGED <<stateVars, duckVars, queryVars, pools, place, serverVars, history>>

(* The catalog is detached: its pool closes what is idle there, and the    *)
(* weak reference of a pinned entry no longer finds it.                    *)
Detach(c) ==
    /\ c \in pools
    /\ pools' = pools \ {c}
    /\ place' = [s \in Sessions |->
                    IF place[s] = "idle" /\ Home[s] = c THEN "closed" ELSE place[s]]
    /\ UNCHANGED <<stateVars, duckVars, queryVars, flaws, serverVars, history>>

-----------------------------------------------------------------------------
(* A transaction's statements                                              *)

Begin ==
    /\ phase = "none"
    /\ txn < MaxTransactions
    /\ txn' = txn + 1
    /\ invalidated' = FALSE
    /\ phase' = "active"
    /\ stage' = [c \in Catalogs |-> "todo"]
    /\ UNCHANGED <<stateVars, hand, queryVars, sessionVars, serverVars, history>>

PinsSession_Anew(c, s) ==       \* bug: every statement leases a session
    /\ Home[s] = c
    /\ place[s] = "fresh"
    /\ place' = [place EXCEPT ![s] = "leased"]
    /\ pinned' = [pinned EXCEPT ![c] = s]
    /\ tainted' = [tainted EXCEPT ![c] = FALSE]
    /\ status' = [status EXCEPT ![c] = [NewStatus EXCEPT !.connection = "active"]]
    /\ about' = [about EXCEPT ![c] = txn]
    /\ owner' = [owner EXCEPT ![s] = txn]

(* A session leased or opened for the occasion, a fresh one or an idle one *)
(* that answered its probe.                                                *)
Leases(c, s) ==
    /\ pinned[c] = NoSession
    /\ Home[s] = c
    /\ place[s] = "fresh" \/ (place[s] = "idle" /\ c \in pools)
    /\ place' = [place EXCEPT ![s] = "leased"]
    /\ pinned' = [pinned EXCEPT ![c] = s]
    /\ tainted' = [tainted EXCEPT ![c] = FALSE]
    /\ status' = [status EXCEPT ![c] = [NewStatus EXCEPT !.connection = "active"]]
    /\ about' = [about EXCEPT ![c] = txn]
    /\ owner' = [owner EXCEPT ![s] = txn]

(* The reference Pin returns: to the session of the entry, or a new entry. *)
PinsSession(c, s) ==
    \/ /\ pinned[c] = s
       /\ UNCHANGED <<pinned, tainted, status, about, place, owner>>
    \/ Leases(c, s)

PinRefuses(c) == c \in failed

WriterMayBegin(c) ==
    /\ phase = "active"
    /\ ~invalidated
    /\ writer = NoWriter
    /\ acked[txn][c] < MaxStatements

WriterPins(c) ==
    /\ WriterMayBegin(c)
    /\ ~PinRefuses(c)
    /\ \E s \in Sessions, call \in Calls :
          /\ PinsSession(c, s)
          /\ writer' = [step |-> IF call = "procedure" THEN "taint" ELSE "execute",
                        call |-> call, catalog |-> c, session |-> s]
    /\ UNCHANGED <<failed, duckVars, scan, poisoner, closing, pools, flaws, work, late,
                   acked, durable, spoiled, told>>

(* Pin throws: the catalog failed before, or no session could be opened.   *)
(* The statement poisons the catalog like any other that fails.            *)
PinThrows(c) ==
    /\ WriterMayBegin(c)
    /\ PinRefuses(c) \/ pinned[c] = NoSession
    /\ writer' = [NoWriter EXCEPT !.step = "failing", !.catalog = c]
    /\ spoiled' = [spoiled EXCEPT ![txn] = @ \cup {c}]
    /\ UNCHANGED <<stateVars, duckVars, scan, poisoner, closing, sessionVars, serverVars,
                   acked, durable, told, about>>

(* TaintTransactionSession, before the procedure is called.                *)
WriterTaints ==
    /\ writer.step = "taint"
    /\ tainted' = [tainted EXCEPT ![writer.catalog] =
                      @ \/ pinned[writer.catalog] # NoSession]
    /\ writer' = [writer EXCEPT !.step = "execute"]
    /\ UNCHANGED <<pinned, failed, status, duckVars, scan, poisoner, closing, sessionVars,
                   serverVars, history>>

(* The effect of the call on its session, whatever becomes of the answer.  *)
CallFlaws(executed, answered) ==
    (IF executed /\ writer.call = "procedure" THEN {"state"} ELSE {})
        \cup (IF answered THEN {} ELSE {"exchange"})

WriterSucceeds ==
    LET c == writer.catalog  s == writer.session
    IN /\ writer.step = "execute"
       /\ place[s] = "leased"
       /\ work' = [work EXCEPT ![s] = @ + 1]
       /\ Flaw(s, CallFlaws(TRUE, TRUE))
       /\ acked' = [acked EXCEPT ![txn][c] = @ + 1]
       /\ writer' = NoWriter
       /\ UNCHANGED <<stateVars, duckVars, scan, poisoner, closing, pools, place, owner,
                      late, durable, spoiled, told, about>>

(* The call throws: refused by Oracle, cut off after the server ran it, or *)
(* because a scan poisoned the catalog and closed the session meanwhile.   *)
WriterThrows ==
    LET c == writer.catalog  s == writer.session
    IN /\ writer.step = "execute"
       /\ \E executed \in BOOLEAN :
             /\ executed => place[s] = "leased"
             /\ work' = [work EXCEPT ![s] = IF executed THEN @ + 1 ELSE @]
             /\ Flaw(s, CallFlaws(executed, FALSE))
       /\ writer' = [writer EXCEPT !.step = "failing"]
       /\ spoiled' = [spoiled EXCEPT ![txn] = @ \cup {c}]
       /\ UNCHANGED <<stateVars, duckVars, scan, poisoner, closing, pools, place, owner,
                      late, acked, durable, told, about>>

(* The operator throws where nothing catches it, converting a later chunk  *)
(* of rows after the first ones were written: the catalog is not poisoned, *)
(* and it is DuckDB that lets the transaction only be rolled back.         *)
WriterStops(c) ==
    /\ WriterMayBegin(c)
    /\ pinned[c] # NoSession
    /\ spoiled' = [spoiled EXCEPT ![txn] = @ \cup {c}]
    /\ invalidated' = TRUE
    /\ UNCHANGED <<stateVars, txn, phase, stage, hand, queryVars, sessionVars, serverVars,
                   acked, durable, told, about>>

(* A scan reads through the transaction's session once there is one, and   *)
(* through a session of its own otherwise.                                 *)
ScanSource(c) == pinned[c]

(* A query of the transaction pins the session itself if none is, while it *)
(* is bound and before any of its operators run.                           *)
ScanPins(c) ==
    /\ phase = "active"
    /\ ~invalidated
    /\ writer = NoWriter
    /\ scan[c] = NoSession
    /\ c \notin poisoner
    /\ ~PinRefuses(c)
    /\ pinned[c] = NoSession
    /\ \E s \in Sessions : /\ PinsSession(c, s)
                           /\ scan' = [scan EXCEPT ![c] = s]
                           /\ Flaw(s, {"borrower"})
    /\ UNCHANGED <<failed, duckVars, writer, poisoner, closing, pools, work, late, acked,
                   durable, spoiled, told>>

ScanBegins(c) ==
    /\ phase = "active"
    /\ scan[c] = NoSession
    /\ c \notin poisoner
    /\ ScanSource(c) # NoSession
    /\ scan' = [scan EXCEPT ![c] = ScanSource(c)]
    /\ Flaw(ScanSource(c), {"borrower"})
    /\ UNCHANGED <<stateVars, duckVars, writer, poisoner, closing, pools, place,
                   serverVars, history>>

(* A fetch fails.  The scan of a transaction's own query goes on to poison *)
(* the catalog, that of an attached table only fails.                      *)
ScanThrows(c) ==
    /\ phase = "active"
    /\ scan[c] # NoSession
    /\ scan' = [scan EXCEPT ![c] = NoSession]
    /\ Flaw(scan[c], {"exchange"})
    /\ \/ /\ poisoner' = poisoner \cup {c}
          /\ spoiled' = [spoiled EXCEPT ![txn] = @ \cup {c}]
       \/ UNCHANGED <<poisoner, spoiled>>
    /\ UNCHANGED <<stateVars, duckVars, writer, closing, pools, place, serverVars, acked,
                   durable, told, about>>

(* The scan is done, though the state that ran it may live longer.         *)
ScanEnds(c) ==
    /\ scan[c] # NoSession
    /\ scan' = [scan EXCEPT ![c] = NoSession]
    /\ UNCHANGED <<stateVars, duckVars, writer, poisoner, closing, sessionVars, serverVars,
                   history>>

PoisonedEntry_Dropped(c) == {}              \* bug: erased from the map, not closed
PoisonedEntry(c) == {pinned[c]} \ {NoSession}

Refused_NotYet(c) == failed                 \* bug: the catalog is not marked failed
Refused(c) == failed \cup {c}

(* Discard(catalog, poison = true), its section under the state's lock.    *)
Poison(c) ==
    /\ failed' = Refused(c)
    /\ status' = [status EXCEPT ![c].connection = "discarded"]
    /\ closing' = closing \cup PoisonedEntry(c)
    /\ pinned' = [pinned EXCEPT ![c] = NoSession]
    /\ UNCHANGED <<tainted, duckVars, scan, sessionVars, serverVars, history>>

WriterPoisons ==
    /\ writer.step = "failing"
    /\ Poison(writer.catalog)
    /\ writer' = NoWriter
    /\ UNCHANGED poisoner

ScanPoisons(c) ==
    /\ c \in poisoner
    /\ Poison(c)
    /\ poisoner' = poisoner \ {c}
    /\ UNCHANGED writer

(* The poisoned exchange may have an unread response, so the session is    *)
(* closed without another operation on it.                                 *)
PoisonCloses ==
    /\ \E s \in closing : Close(s) /\ closing' = closing \ {s}
    /\ UNCHANGED <<stateVars, duckVars, writer, scan, poisoner, pools, serverVars, history>>

-----------------------------------------------------------------------------
(* COMMIT: OracleAttachedTransactionManager::CommitTransaction per catalog *)

(* The query is over on all of its threads before the transaction ends.    *)
QueryIsOver ==
    /\ writer = NoWriter
    /\ poisoner = {}
    /\ closing = {}

Ending(steps) == \E c \in Catalogs : stage[c] \in steps

UserEnds(how) ==
    /\ phase = "active"
    /\ QueryIsOver
    /\ invalidated => how = "rollback"
    /\ phase' = how
    /\ scan' = [c \in Catalogs |-> NoSession]
    /\ UNCHANGED <<stateVars, txn, invalidated, stage, hand, writer, poisoner, closing,
                   sessionVars,
                   serverVars, history>>

(* DuckDB commits one attached database after the other.                   *)
CommitTurn(c) ==
    /\ phase = "commit"
    /\ stage[c] = "todo"
    /\ ~Ending({"taken", "acked"})

(* Commit() throws before anything is sent, or the manager does because    *)
(* the transaction also changed the local catalog: DuckDB rolls back this  *)
(* catalog and those it has not committed yet.                             *)
CommitRefuses(c) ==
    /\ CommitTurn(c)
    /\ phase' = "rollback"
    /\ told' = [told EXCEPT ![txn] = "failed"]
    /\ UNCHANGED <<stateVars, txn, invalidated, stage, hand, queryVars, sessionVars,
                   serverVars, acked,
                   durable, spoiled, about>>

CommitMayStart_Always(c) == TRUE        \* bug: a failed catalog is committed
CommitMayStart(c) == c \notin failed

CommitTakes(c) ==
    /\ CommitTurn(c)
    /\ CommitMayStart(c)
    /\ hand' = [hand EXCEPT ![c] = pinned[c]]
    /\ pinned' = [pinned EXCEPT ![c] = NoSession]
    /\ stage' = [stage EXCEPT ![c] = IF pinned[c] = NoSession THEN "done" ELSE "taken"]
    /\ UNCHANGED <<tainted, failed, status, txn, invalidated, phase, queryVars,
                   sessionVars, serverVars,
                   history>>

CommitAcknowledged(c) ==
    LET s == hand[c]
    IN /\ phase = "commit"
       /\ stage[c] = "taken"
       /\ durable' = [durable EXCEPT ![owner[s]][c] = @ + work[s]]
       /\ work' = [work EXCEPT ![s] = 0]
       /\ stage' = [stage EXCEPT ![c] = "acked"]
       /\ UNCHANGED <<stateVars, txn, invalidated, phase, hand, queryVars, sessionVars,
                      owner, late,
                      acked, spoiled, told, about>>

Unconfirmed_Plain(c) ==                 \* bug: reported like any other failure
    [status[c] EXCEPT !.connection = "discarded"]
Unconfirmed(c) == [outcome |-> "unknown", connection |-> "discarded"]

(* session->Commit() throws: the server never saw the COMMIT, or its       *)
(* acknowledgement was lost and it carries it out now, soon or never.  The *)
(* entry is closed and the outcome is unknown.                             *)
CommitThrows(c) ==
    LET s == hand[c]
    IN /\ phase = "commit"
       /\ stage[c] = "taken"
       /\ Close(s)
       /\ late' \in {late, late \cup {s}}
       /\ status' = [status EXCEPT ![c] = Unconfirmed(c)]
       /\ hand' = [hand EXCEPT ![c] = NoSession]
       /\ stage' = [stage EXCEPT ![c] = "todo"]
       /\ phase' = "rollback"
       /\ told' = [told EXCEPT ![txn] = "failed"]
       /\ UNCHANGED <<pinned, tainted, failed, txn, invalidated, queryVars, pools, work,
                      owner, acked,
                      durable, spoiled, about>>

CommitEnds(c) ==
    /\ phase = "commit"
    /\ stage[c] = "acked"
    /\ End(c, hand[c])
    /\ status' = [status EXCEPT ![c].outcome = "committed", ![c].connection = "idle"]
    /\ hand' = [hand EXCEPT ![c] = NoSession]
    /\ stage' = [stage EXCEPT ![c] = "done"]
    /\ UNCHANGED <<pinned, tainted, failed, txn, invalidated, phase, queryVars, pools,
                   serverVars, history>>

CommitReturns ==
    /\ phase = "commit"
    /\ ~Ending({"todo", "taken", "acked"})
    /\ phase' = "none"
    /\ told' = [told EXCEPT ![txn] = "committed"]
    /\ UNCHANGED <<stateVars, txn, invalidated, stage, hand, queryVars, sessionVars,
                   serverVars, acked,
                   durable, spoiled, about>>

-----------------------------------------------------------------------------
(* ROLLBACK: RollbackTransaction per catalog, then RollbackAll             *)

(* Discard(catalog): the section under the lock.                           *)
RollbackTakes(c) ==
    /\ phase = "rollback"
    /\ stage[c] = "todo"
    /\ ~Ending({"taken"})
    /\ failed' = failed \ {c}
    /\ status' = [status EXCEPT ![c].connection =
                     IF status[c].outcome = "unknown" THEN @ ELSE "idle"]
    /\ hand' = [hand EXCEPT ![c] = pinned[c]]
    /\ pinned' = [pinned EXCEPT ![c] = NoSession]
    /\ stage' = [stage EXCEPT ![c] = IF pinned[c] = NoSession THEN "done" ELSE "taken"]
    /\ UNCHANGED <<tainted, txn, invalidated, phase, queryVars, sessionVars, serverVars,
                   history>>

RollbackDone(c) ==
    /\ stage[c] = "taken"
    /\ phase \in {"rollback", "all"}
    /\ stage' = [stage EXCEPT ![c] = "done"]
    /\ hand' = [hand EXCEPT ![c] = NoSession]
    /\ UNCHANGED <<stateVars, txn, invalidated, phase, queryVars, pools, owner, late,
                   history>>

RollbackAcknowledged(c) ==
    /\ RollbackDone(c)
    /\ work' = [work EXCEPT ![hand[c]] = 0]
    /\ End(c, hand[c])

RollbackThrows(c) ==
    /\ RollbackDone(c)
    /\ Close(hand[c])
    /\ UNCHANGED work

(* RollbackAll, DuckDB's last call of a rollback, and its only one when    *)
(* the connection is destroyed in the middle of a transaction.             *)
RollbackAll ==
    /\ phase = "rollback"
    /\ ~Ending({"taken"})
    /\ failed' = {}
    /\ status' = [c \in Catalogs |->
                     IF status[c].connection = "active"
                     THEN [status[c] EXCEPT !.connection = "idle"] ELSE status[c]]
    /\ hand' = pinned
    /\ pinned' = [c \in Catalogs |-> NoSession]
    /\ stage' = [c \in Catalogs |-> IF pinned[c] = NoSession THEN "done" ELSE "taken"]
    /\ phase' = "all"
    /\ UNCHANGED <<tainted, txn, invalidated, queryVars, sessionVars, serverVars, history>>

RollbackReturns ==
    /\ phase = "all"
    /\ ~Ending({"taken"})
    /\ phase' = "none"
    /\ told' = [told EXCEPT ![txn] = IF @ = "open" THEN "rolledback" ELSE @]
    /\ UNCHANGED <<stateVars, txn, invalidated, stage, hand, queryVars, sessionVars,
                   serverVars, acked,
                   durable, spoiled, about>>

-----------------------------------------------------------------------------
Statement(c) ==
    \/ WriterPins(c)
    \/ PinThrows(c)
    \/ WriterStops(c)
    \/ ScanPins(c)
    \/ ScanBegins(c)
    \/ ScanThrows(c)
    \/ ScanEnds(c)

QueryStep ==
    \/ WriterTaints
    \/ WriterSucceeds
    \/ WriterThrows
    \/ WriterPoisons
    \/ \E c \in Catalogs : ScanPoisons(c)
    \/ PoisonCloses

EndStep ==
    \/ \E c \in Catalogs :
          \/ CommitRefuses(c)
          \/ CommitTakes(c)
          \/ CommitAcknowledged(c)
          \/ CommitThrows(c)
          \/ CommitEnds(c)
          \/ RollbackTakes(c)
          \/ RollbackAcknowledged(c)
          \/ RollbackThrows(c)
    \/ CommitReturns
    \/ RollbackAll
    \/ RollbackReturns

Environment ==
    \/ \E s \in Sessions : Disconnect(s) \/ LateCommit(s) \/ BorrowerLeaves(s)
    \/ \E c \in Catalogs : Detach(c)

Next ==
    \/ Begin
    \/ \E c \in Catalogs : Statement(c)
    \/ QueryStep
    \/ \E how \in {"commit", "rollback"} : UserEnds(how)
    \/ EndStep
    \/ Environment

Spec == Init /\ [][Next]_vars

-----------------------------------------------------------------------------
(* Properties                                                              *)

TypeOK ==
    /\ pinned \in [Catalogs -> Sessions \cup {NoSession}]
    /\ tainted \in [Catalogs -> BOOLEAN]
    /\ failed \subseteq Catalogs
    /\ status \in [Catalogs -> [outcome : {"not_attempted", "committed", "unknown"},
                                connection : {"idle", "active", "discarded"}]]
    /\ txn \in 0 .. MaxTransactions
    /\ invalidated \in BOOLEAN
    /\ phase \in {"none", "active", "commit", "rollback", "all"}
    /\ stage \in [Catalogs -> {"todo", "taken", "acked", "done"}]
    /\ hand \in [Catalogs -> Sessions \cup {NoSession}]
    /\ writer \in [step : {"none", "taint", "execute", "failing"}, call : Calls,
                   catalog : Catalogs \cup {NoCatalog}, session : Sessions \cup {NoSession}]
    /\ scan \in [Catalogs -> Sessions \cup {NoSession}]
    /\ poisoner \subseteq Catalogs
    /\ closing \subseteq Sessions
    /\ pools \subseteq Catalogs
    /\ place \in [Sessions -> {"fresh", "idle", "leased", "closed"}]
    /\ flaws \in [Sessions -> SUBSET Flaws]
    /\ work \in [Sessions -> Nat]
    /\ owner \in [Sessions -> 0 .. MaxTransactions]
    /\ late \subseteq Sessions

(* ``A failed statement cannot open a fresh session and accidentally turn  *)
(* a partial transaction into success'' (oracle_write.cpp line 203): what  *)
(* becomes durable on a catalog, now or by a late COMMIT, is every         *)
(* statement the transaction was told had succeeded, or nothing, and       *)
(* nothing at all once one of its statements failed.                       *)
AllOrNothing ==
    \A n \in Numbers, c \in Catalogs :
        durable[n][c] # 0 => durable[n][c] = acked[n][c] /\ c \notin spoiled[n]

(* What oracle_transaction_status says of the last remote transaction      *)
(* (Commit, lines 221-250, and Discard, lines 162-173): `committed' only   *)
(* when it is durable, and never anything but `unknown' when it may be     *)
(* durable and was not confirmed.                                          *)
OutcomeIsHonest ==
    \A c \in Catalogs :
        LET n == about[c]
        IN n # 0 =>
            /\ status[c].outcome = "committed" => durable[n][c] = acked[n][c]
            /\ status[c].outcome = "not_attempted" /\ stage[c] # "acked" =>
                  durable[n][c] = 0
            /\ \A s \in late : Home[s] = c /\ owner[s] = n => status[c].outcome = "unknown"

(* What the statement that ended the transaction told its user: a COMMIT   *)
(* that returned made every acknowledged write of every catalog durable, a *)
(* ROLLBACK that returned left nothing behind, for good.                   *)
UserIsToldTheTruth ==
    \A n \in Numbers, c \in Catalogs :
        /\ told[n] = "committed" => durable[n][c] = acked[n][c]
        /\ told[n] = "rolledback" =>
              /\ durable[n][c] = 0
              /\ \A s \in late : owner[s] # n

(* The uncommitted rows of a transaction exist on one session and nowhere  *)
(* else (oracle_pool.cpp line 103): while the transaction is in order,     *)
(* every write it was told had succeeded is on the session that scans      *)
(* borrow and that COMMIT will take.  The types are checked with it.       *)
WritesAreOnThePinnedSession ==
    /\ TypeOK
    /\ \A c \in Catalogs :
          phase = "active" /\ c \notin failed /\ acked[txn][c] > 0 =>
              /\ pinned[c] # NoSession
              /\ place[pinned[c]] = "leased"
              /\ work[pinned[c]] >= acked[txn][c]

(* Between two transactions nothing of the first is left in the state: no  *)
(* entry, no refusal, no status that calls it active; every session it     *)
(* opened was given back or closed, whatever poisoned it; and only an      *)
(* acknowledged end let one be given back (lines 124-160), with no work,   *)
(* no COMMIT under way, no state left by a procedure and no failed         *)
(* exchange on it.                                                         *)
NothingOutlivesTheTransaction ==
    /\ phase = "none" =>
          /\ failed = {}
          /\ \A c \in Catalogs : pinned[c] = NoSession /\ status[c].connection # "active"
    /\ \A s \in Sessions : place[s] = "leased" =>
          \/ s \in closing
          \/ \E c \in Catalogs : s \in {pinned[c], hand[c]}
    /\ \A s \in Sessions : place[s] = "idle" =>
          work[s] = 0 /\ s \notin late /\ flaws[s] = {}

=============================================================================
