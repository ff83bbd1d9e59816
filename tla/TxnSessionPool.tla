--------------------------- MODULE TxnSessionPool ---------------------------
(***************************************************************************)
(* OracleTransactionSessionPool (src/src/transaction_session_pool.cpp):    *)
(* the idle Oracle sessions an attached catalog keeps between the          *)
(* transactions of its DuckDB connections.  Several transactions call      *)
(* Acquire, Release and Discard at once while the catalog may call Close.  *)
(* The pool's mutex covers only the short sections that move sessions and  *)
(* counters; binding a deadline, probing, opening and closing a session    *)
(* happen outside it, so each of those is a step of its own here.          *)
(*                                                                         *)
(* The callers are what oracle_write.cpp makes of them: a transaction      *)
(* works on the session it leased, lends it to the scans of its own        *)
(* queries, and calls Release only after the server acknowledged COMMIT or *)
(* ROLLBACK, Discard otherwise.                                            *)
(***************************************************************************)
EXTENDS Naturals, FiniteSets, SequencesExt

CONSTANTS
    Transactions,   \* the threads that run a transaction on the catalog
    Catalog,        \* the thread that detaches the catalog
    Sessions,       \* identities of sessions; one is opened at most once
    NoSession,
    NoCaller,       \* BindIoDeadline(nullptr)
    MaximumIdle,    \* maximum_idle
    MaxReused       \* bound: no transaction begins once this many were served
                    \* from the pool; the code has no such limit

ASSUME PoolAssumption ==
    /\ IsFiniteSet(Sessions)
    /\ Catalog \notin Transactions
    /\ NoSession \notin Sessions
    /\ NoCaller \notin Transactions
    /\ MaximumIdle \in Nat
    /\ MaxReused \in Nat

(* What SessionLeasing calls a session nobody leases is no transaction.    *)
ASSUME NamesAssumption == Transactions \cap {"fresh", "idle", "dropped"} = {}

Threads == Transactions \cup {Catalog}

VARIABLES
    \* the pool, under its mutex
    idle,       \* sequence of sessions, the most recently returned last
    aged,       \* how many entries at the front are past maximum_idle_time
    closed,
    counters,   \* all but `idle', which every section sets to Len(idle)
    \* the threads
    pc,
    mine,       \* the local `candidate' or `session' of the call or caller
    doomed,     \* sessions a thread took out under the mutex and must close
    \* the sessions
    wire,       \* "none" before the opener made it, then "open", "closed"
    lost,       \* "no", or where the session was when its server went away
    binding,    \* whose IO deadline the session's binding reads
    burden      \* why a session may not be reused, see Burdens

poolVars == <<idle, aged, closed, counters>>
threadVars == <<pc, mine, doomed>>
sessionVars == <<wire, lost, binding, burden>>
vars == <<idle, aged, closed, counters, pc, mine, doomed, wire, lost, binding, burden>>

-----------------------------------------------------------------------------
(* work:      uncommitted work on the server, which the pool cannot see    *)
(* statement: a statement handle is open on the session                    *)
(* failed:    an exchange failed, so the connection may be out of step     *)
(* borrower:  an open scan holds a shared_ptr to the session as well       *)
Burdens == {"work", "statement", "failed", "borrower"}

ReadyForReuse(s) == burden[s] \cap {"statement", "failed"} = {}

SoleOwner_Ignored(s) == TRUE    \* bug: the use count is not looked at
SoleOwner(s) == "borrower" \notin burden[s]

(* The probe of a candidate returns and the session is still reusable.     *)
AnswersProbe_Skipped(s) == ReadyForReuse(s)     \* bug: no statement is sent
AnswersProbe(s) == lost[s] = "no" /\ ReadyForReuse(s)

CounterNames == {"opened", "reused", "returned", "closed", "probe_failures", "leased"}

(* The program counter: inside Acquire, holding a session, inside Release  *)
(* or Discard, or outside every call.                                      *)
Acquiring == {"look", "bind", "probe", "probed", "unusable", "open", "opened"}
Candidate == {"bind", "probe", "probed", "unusable"}
Holding   == {"leased", "ended", "keep", "drop", "discard"}
Locations == {"out"} \cup Acquiring \cup Holding

(* What TakeExpiredLocked takes and what it leaves.                        *)
Expired == ToSet(SubSeq(idle, 1, aged))
Live_NotErased == idle          \* bug: expired entries stay in the list
Live == SubSeq(idle, aged + 1, Len(idle))

HasRoom_OffByOne == ~closed /\ Len(Live) <= MaximumIdle
HasRoom_NotClosed == Len(Live) < MaximumIdle    \* bug: closed is forgotten
HasRoom == ~closed /\ Len(Live) < MaximumIdle

Init ==
    /\ idle = <<>>
    /\ aged = 0
    /\ closed = FALSE
    /\ counters = [name \in CounterNames |-> 0]
    /\ pc = [t \in Transactions |-> "out"]
    /\ mine = [t \in Transactions |-> NoSession]
    /\ doomed = [c \in Threads |-> {}]
    /\ wire = [s \in Sessions |-> "none"]
    /\ lost = [s \in Sessions |-> "no"]
    /\ binding = [s \in Sessions |-> NoCaller]
    /\ burden = [s \in Sessions |-> {}]

(* A thread leaves a critical section with the sessions it has to close    *)
(* and closes them all before it does anything else.                       *)
At(t, location) == pc[t] = location /\ doomed[t] = {}

Goto(t, location) == pc' = [pc EXCEPT ![t] = location]

(* CloseQuietly: also when session->Close() throws, the session is gone,   *)
(* its server rolls its work back, and a scan that still borrows it only   *)
(* finds it closed.                                                        *)
CloseQuietly(c) ==
    /\ \E s \in doomed[c] :
          /\ doomed' = [doomed EXCEPT ![c] = @ \ {s}]
          /\ wire' = [wire EXCEPT ![s] = "closed"]
          /\ lost' = [lost EXCEPT ![s] = "no"]
          /\ binding' = [binding EXCEPT ![s] = NoCaller]
          /\ burden' = [burden EXCEPT ![s] = {}]
    /\ UNCHANGED <<poolVars, pc, mine>>

-----------------------------------------------------------------------------
(* Acquire                                                                 *)

AcquireBegins(t) ==
    /\ At(t, "out")
    /\ counters["reused"] < MaxReused
    /\ Goto(t, "look")
    /\ UNCHANGED <<poolVars, mine, doomed, sessionVars>>

(* The locked section at the head of the loop: expired sessions leave, and *)
(* the most recently returned one becomes the candidate.                   *)
AcquireLooks(t) ==
    /\ At(t, "look")
    /\ doomed' = [doomed EXCEPT ![t] = Expired]
    /\ counters' = [counters EXCEPT !["closed"] = @ + aged]
    /\ aged' = 0
    /\ \/ /\ Live # <<>>
          /\ idle' = Front(Live)
          /\ mine' = [mine EXCEPT ![t] = Last(Live)]
          /\ Goto(t, "bind")
       \/ /\ Live = <<>>
          /\ idle' = <<>>
          /\ Goto(t, "open")
          /\ UNCHANGED mine
    /\ UNCHANGED <<closed, sessionVars>>

BindCandidate(t) ==
    /\ At(t, "bind")
    /\ binding' = [binding EXCEPT ![mine[t]] = t]
    /\ Goto(t, "probe")
    /\ UNCHANGED <<poolVars, mine, doomed, wire, lost, burden>>

(* The probe is answered only by a server that is still there; it fails    *)
(* also when the caller's deadline or interrupt ends it.                   *)
Probe(t) ==
    /\ At(t, "probe")
    /\ \/ AnswersProbe(mine[t]) /\ Goto(t, "probed")
       \/ Goto(t, "unusable")
    /\ UNCHANGED <<poolVars, mine, doomed, sessionVars>>

AcquireReuses(t) ==
    /\ At(t, "probed")
    /\ counters' = [counters EXCEPT !["reused"] = @ + 1, !["leased"] = @ + 1]
    /\ Goto(t, "leased")
    /\ UNCHANGED <<idle, aged, closed, mine, doomed, sessionVars>>

AcquireRejects_Uncounted(t) ==     \* bug: the session leaves no trace in `closed'
    /\ At(t, "unusable")
    /\ counters' = [counters EXCEPT !["probe_failures"] = @ + 1]
    /\ doomed' = [doomed EXCEPT ![t] = {mine[t]}]
    /\ mine' = [mine EXCEPT ![t] = NoSession]
    /\ Goto(t, "look")
    /\ UNCHANGED <<idle, aged, closed, sessionVars>>

AcquireRejects_Retries(t) ==       \* bug: the same session is probed again
    /\ At(t, "unusable")
    /\ counters' = [counters EXCEPT !["probe_failures"] = 1]
    /\ Goto(t, "probe")
    /\ UNCHANGED <<idle, aged, closed, mine, doomed, sessionVars>>

AcquireRejects(t) ==
    /\ At(t, "unusable")
    /\ counters' = [counters EXCEPT !["probe_failures"] = @ + 1, !["closed"] = @ + 1]
    /\ doomed' = [doomed EXCEPT ![t] = {mine[t]}]
    /\ mine' = [mine EXCEPT ![t] = NoSession]
    /\ Goto(t, "look")
    /\ UNCHANGED <<idle, aged, closed, sessionVars>>

(* opener(binding): a connect that may throw, or a session bound to the    *)
(* caller from its first packet on.                                        *)
OpenSession(t) ==
    /\ At(t, "open")
    /\ \/ \E s \in Sessions :
             /\ wire[s] = "none"
             /\ wire' = [wire EXCEPT ![s] = "open"]
             /\ binding' = [binding EXCEPT ![s] = t]
             /\ mine' = [mine EXCEPT ![t] = s]
             /\ Goto(t, "opened")
       \/ Goto(t, "out") /\ UNCHANGED <<wire, binding, mine>>
    /\ UNCHANGED <<poolVars, doomed, lost, burden>>

AcquireOpens(t) ==
    /\ At(t, "opened")
    /\ counters' = [counters EXCEPT !["opened"] = @ + 1, !["leased"] = @ + 1]
    /\ Goto(t, "leased")
    /\ UNCHANGED <<idle, aged, closed, mine, doomed, sessionVars>>

-----------------------------------------------------------------------------
(* The transaction that leased a session, as oracle_write.cpp runs it      *)

(* A statement of the transaction: a write, a scan that borrows the        *)
(* session, or one whose exchange fails.  Only the last can happen once    *)
(* the server is gone.                                                     *)
Statement(t) ==
    /\ At(t, "leased")
    /\ \E effect \in {{"work"}, {"statement", "borrower"}, {"failed"}} :
          /\ lost[mine[t]] # "no" => effect = {"failed"}
          /\ burden' = [burden EXCEPT ![mine[t]] = @ \cup effect]
    /\ UNCHANGED <<poolVars, threadVars, wire, lost, binding>>

(* The server acknowledged COMMIT or ROLLBACK.  On a connection that is    *)
(* out of step the acknowledgement proves nothing about the work.          *)
EndAcknowledged(t) ==
    /\ At(t, "leased")
    /\ lost[mine[t]] = "no"
    /\ \/ burden' = [burden EXCEPT ![mine[t]] = @ \ {"work"}]
       \/ "failed" \in burden[mine[t]] /\ UNCHANGED burden
    /\ Goto(t, "ended")
    /\ UNCHANGED <<poolVars, mine, doomed, wire, lost, binding>>

EndUnconfirmed_Releases(t) ==      \* bug: a failed end is taken for an end
    /\ At(t, "leased")
    /\ Goto(t, "ended")
    /\ UNCHANGED <<poolVars, mine, doomed, sessionVars>>

EndUnconfirmed(t) ==
    /\ At(t, "leased")
    /\ Goto(t, "discard")
    /\ UNCHANGED <<poolVars, mine, doomed, sessionVars>>

(* The borrowing scan reads its last row and closes its statement, or the  *)
(* operator that ran it is destroyed and lets go of the session: in the    *)
(* scan's own time, before or after the transaction ends.                  *)
ScanAdvances(s) ==
    /\ \/ /\ "statement" \in burden[s]
          /\ burden' = [burden EXCEPT ![s] = @ \ {"statement"}]
       \/ /\ "borrower" \in burden[s]
          /\ burden' = [burden EXCEPT ![s] = @ \ {"statement", "borrower"}]
    /\ UNCHANGED <<poolVars, threadVars, wire, lost, binding>>

-----------------------------------------------------------------------------
(* Release, Discard and Close                                              *)

(* Computed before the mutex is taken: sole ownership, readiness and, if   *)
(* both hold, the unbinding of the caller's deadline.                      *)
ReleaseChecks(t) ==
    /\ At(t, "ended")
    /\ IF SoleOwner(mine[t]) /\ ReadyForReuse(mine[t])
       THEN /\ binding' = [binding EXCEPT ![mine[t]] = NoCaller]
            /\ Goto(t, "keep")
       ELSE Goto(t, "drop") /\ UNCHANGED binding
    /\ UNCHANGED <<poolVars, mine, doomed, wire, lost, burden>>

Decrement(n) == IF n > 0 THEN n - 1 ELSE n

ReleaseKeeps(t) ==
    /\ At(t, "keep")
    /\ HasRoom
    /\ idle' = Append(Live, mine[t])
    /\ counters' = [counters EXCEPT !["leased"] = Decrement(@), !["closed"] = @ + aged,
                                    !["returned"] = @ + 1]
    /\ doomed' = [doomed EXCEPT ![t] = Expired]
    /\ aged' = 0
    /\ mine' = [mine EXCEPT ![t] = NoSession]
    /\ Goto(t, "out")
    /\ UNCHANGED <<closed, sessionVars>>

ReleaseCloses(t) ==
    /\ \/ At(t, "drop")
       \/ At(t, "keep") /\ ~HasRoom
    /\ idle' = Live
    /\ counters' = [counters EXCEPT !["leased"] = Decrement(@), !["closed"] = @ + aged + 1]
    /\ doomed' = [doomed EXCEPT ![t] = Expired \cup {mine[t]}]
    /\ aged' = 0
    /\ mine' = [mine EXCEPT ![t] = NoSession]
    /\ Goto(t, "out")
    /\ UNCHANGED <<closed, sessionVars>>

Discard(t) ==
    /\ At(t, "discard")
    /\ counters' = [counters EXCEPT !["leased"] = Decrement(@), !["closed"] = @ + 1]
    /\ doomed' = [doomed EXCEPT ![t] = {mine[t]}]
    /\ mine' = [mine EXCEPT ![t] = NoSession]
    /\ Goto(t, "out")
    /\ UNCHANGED <<idle, aged, closed, sessionVars>>

(* Close(): the catalog is detached or destroyed.                          *)
PoolCloses ==
    /\ ~closed
    /\ closed' = TRUE
    /\ doomed' = [doomed EXCEPT ![Catalog] = ToSet(idle)]
    /\ counters' = [counters EXCEPT !["closed"] = @ + Len(idle)]
    /\ idle' = <<>>
    /\ aged' = 0
    /\ UNCHANGED <<pc, mine, sessionVars>>

-----------------------------------------------------------------------------
(* The environment                                                         *)

(* Time passes: the entry that has been idle longest expires first, since  *)
(* `since' is read from one monotonic clock under the mutex.               *)
IdleTimePasses ==
    /\ aged < Len(idle)
    /\ aged' = aged + 1
    /\ UNCHANGED <<idle, closed, counters, threadVars, sessionVars>>

Waiting(s) == \/ s \in ToSet(idle)
              \/ \E t \in Transactions : pc[t] = "bind" /\ mine[t] = s

(* The server kills the session or the network drops it, at any time.      *)
SessionLost(s) ==
    /\ wire[s] = "open"
    /\ lost[s] = "no"
    /\ lost' = [lost EXCEPT ![s] = IF Waiting(s) THEN "idle" ELSE "held"]
    /\ UNCHANGED <<poolVars, threadVars, wire, binding, burden>>

-----------------------------------------------------------------------------
AcquireStep(t) ==
    \/ AcquireLooks(t)
    \/ BindCandidate(t)
    \/ Probe(t)
    \/ AcquireReuses(t)
    \/ AcquireRejects(t)
    \/ OpenSession(t)
    \/ AcquireOpens(t)

ReturnStep(t) ==
    \/ ReleaseChecks(t)
    \/ ReleaseKeeps(t)
    \/ ReleaseCloses(t)
    \/ Discard(t)

CallerStep(t) ==
    \/ AcquireBegins(t)
    \/ Statement(t)
    \/ EndAcknowledged(t)
    \/ EndUnconfirmed(t)

Next ==
    \/ \E t \in Transactions : AcquireStep(t) \/ ReturnStep(t) \/ CallerStep(t)
    \/ \E c \in Threads : CloseQuietly(c)
    \/ \E s \in Sessions : ScanAdvances(s) \/ SessionLost(s)
    \/ PoolCloses
    \/ IdleTimePasses

(* A thread inside a call of the pool keeps running: the probe and the     *)
(* opener end because the caller's IO deadline bounds them.  Nothing is    *)
(* assumed of what the callers, the scans, the server or the clock decide. *)
Fairness ==
    /\ \A t \in Transactions : WF_vars(AcquireStep(t)) /\ WF_vars(ReturnStep(t))
    /\ \A c \in Threads : WF_vars(CloseQuietly(c))

Spec == Init /\ [][Next]_vars

FairSpec == Spec /\ Fairness

-----------------------------------------------------------------------------
(* Properties                                                              *)

(* Types, and what the locked sections maintain among them: the pool never *)
(* holds more than maximum_idle sessions (line 134), and a thread has a    *)
(* session in hand exactly at the program points that work on one.         *)
PoolTypeOK ==
    /\ idle \in Seq(Sessions)
    /\ Len(idle) <= MaximumIdle
    /\ aged \in 0 .. Len(idle)
    /\ closed \in BOOLEAN
    /\ counters \in [CounterNames -> Nat]

ThreadTypeOK ==
    /\ pc \in [Transactions -> Locations]
    /\ mine \in [Transactions -> Sessions \cup {NoSession}]
    /\ doomed \in [Threads -> SUBSET Sessions]
    /\ \A t \in Transactions : mine[t] = NoSession <=> pc[t] \in {"out", "look", "open"}

SessionTypeOK ==
    /\ wire \in [Sessions -> {"none", "open", "closed"}]
    /\ lost \in [Sessions -> {"no", "idle", "held"}]
    /\ binding \in [Sessions -> Transactions \cup {NoCaller}]
    /\ burden \in [Sessions -> SUBSET Burdens]

TypeOK == PoolTypeOK /\ ThreadTypeOK /\ SessionTypeOK

(* ``A session is leased whole to one transaction, never shared between    *)
(* two'' (transaction_session_pool.hpp line 37): whatever the interleaving *)
(* of Acquire, Release, expiry and Close, every session is in one hand: at *)
(* one index of the idle list, or with one thread that leases, probes,     *)
(* returns or closes it.                                                   *)
NoSharing ==
    /\ IsInjective(idle)
    /\ \A t, u \in Transactions : mine[t] = mine[u] /\ mine[t] # NoSession => t = u
    /\ \A t \in Transactions : mine[t] \notin ToSet(idle)
    /\ \A c \in Threads : doomed[c] \cap ToSet(idle) = {}
    /\ \A c \in Threads, t \in Transactions : mine[t] \notin doomed[c]
    /\ \A c, d \in Threads : c # d => doomed[c] \cap doomed[d] = {}

(* A session waits in the pool only open, with no work of an earlier       *)
(* transaction on its server, no open statement, no failed exchange, no    *)
(* scan that still holds it and no deadline of an earlier caller, although *)
(* Release looks before it takes the mutex and scans go on meanwhile.      *)
IdleIsReusable ==
    \A s \in ToSet(idle) : wire[s] = "open" /\ burden[s] = {} /\ binding[s] = NoCaller

(* ``An idle session must answer a probe before it is handed out'' (hpp    *)
(* line 41), ``bound before the probe, so the caller's interrupt reaches   *)
(* it'' (cpp line 80): a leased session is open, did not die while it was  *)
(* idle, and reads the deadline of the transaction that leased it.         *)
LeaseIsUsable ==
    \A t \in Transactions :
        /\ pc[t] \in {"probed"} \cup Holding => lost[mine[t]] # "idle"
        /\ pc[t] \in {"probe", "probed", "opened", "leased", "ended"} =>
              wire[mine[t]] = "open" /\ binding[mine[t]] = t

(* Sessions opened outside the mutex and counted later, rejected after the *)
(* mutex was dropped, expired by whoever comes next: the counters users    *)
(* read balance in every state, and `leased' is the number of leases, so   *)
(* the saturating decrement of lines 130 and 161 never hides one.          *)
ThreadsAt(locations) == {t \in Transactions : pc[t] \in locations}

CountersBalance ==
    /\ TypeOK
    /\ counters["leased"] = Cardinality(ThreadsAt(Holding))
    /\ counters["opened"] = counters["closed"] + counters["leased"] + Len(idle)
                              + Cardinality(ThreadsAt(Candidate))

(* No session of the server is forgotten: an open one waits in a pool that *)
(* is not closed, is in the hands of a transaction, or is about to be      *)
(* closed by the thread that took it out of the pool.                      *)
NothingLeaks ==
    \A s \in Sessions : wire[s] = "open" =>
        \/ s \in ToSet(idle) /\ ~closed
        \/ \E t \in Transactions : mine[t] = s
        \/ \E c \in Threads : s \in doomed[c]

(* Acquire ends although it loops over sessions that fail their probe, and *)
(* Release, Discard and the closing of expired sessions end: no thread     *)
(* stays inside the pool.                                                  *)
CallsReturn ==
    \A t \in Transactions :
        ~(pc[t] = "leased" \/ At(t, "out")) ~> (pc[t] = "leased" \/ At(t, "out"))

(* Once the catalog is detached every session that no transaction holds is *)
(* closed, those that were released concurrently with Close included.      *)
ClosedPoolDrains ==
    \A s \in Sessions :
        (closed /\ wire[s] = "open" /\ \A t \in Transactions : mine[t] # s)
            ~> wire[s] = "closed"

(* The pool implements SessionLeasing: a candidate counts as idle until it *)
(* answered its probe, a session that is out of the pool's and of every    *)
(* transaction's hands as dropped.                                         *)
leaseOf == [s \in Sessions |->
    IF wire[s] = "none" THEN "fresh"
    ELSE IF \E t \in Transactions : mine[t] = s /\ pc[t] \in Holding \cup {"probed", "opened"}
         THEN CHOOSE t \in Transactions : mine[t] = s
    ELSE IF s \in ToSet(idle) \/ \E t \in Transactions : mine[t] = s THEN "idle"
    ELSE "dropped"]

Leasing == INSTANCE SessionLeasing
    WITH lease <- leaseOf, uncommitted <- {s \in Sessions : "work" \in burden[s]}

LeasingSpec == Leasing!Spec

=============================================================================
