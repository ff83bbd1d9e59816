--------------------------- MODULE CallerInterrupt ---------------------------
(***************************************************************************)
(* How an interrupt of a DuckDB query reaches the Oracle sessions it waits *)
(* on (oracle_query.cpp lines 70-110, io_deadline.hpp, io_deadline_binding *)
(* .hpp, openssl_stream.cpp lines 366-394).  All sessions of a connection  *)
(* read one deadline, which its blocked reads poll.  A thread of the query *)
(* that calls Oracle opens an OracleCallerInterruptScope, whose watcher    *)
(* thread moves that deadline to now once the query is interrupted, and    *)
(* whose destructor puts back what it found there.                         *)
(*                                                                         *)
(* DuckDB runs the independent pipelines of a query on several threads, so *)
(* two scans that read through transactions' sessions have scopes at once. *)
(***************************************************************************)
EXTENDS Naturals

CONSTANT Threads    \* the threads of one DuckDB connection's queries

VARIABLES
    interrupted,    \* ClientContext::IsInterrupted
    deadline,       \* OracleIoDeadline of the connection
    base,           \* what it is outside every scope
    pc,             \* where each thread is, see Locations
    previous,       \* the scope's copy of the deadline it found
    watcher,        \* the scope's watcher thread
    \* history, for the properties
    disturbed       \* threads in whose call another scope put its copy back

interruptVars == <<interrupted, deadline, base, pc, previous, watcher, disturbed>>

-----------------------------------------------------------------------------
(* "budget" is a deadline that a publication has set for the connection,   *)
(* "past" one that an interrupt has moved to the present.                  *)
Deadlines == {"none", "budget", "past"}

Base == {"none", "budget"}

(* In the constructor, inside the call, after its failure, closing what    *)
(* failed, about to run the destructor.                                    *)
Locations == {"out", "entering", "calling", "failed", "cleanup", "leaving"}

InScope == {"calling", "failed", "cleanup", "leaving"}

NoScope == \A t \in Threads : pc[t] = "out"

Goto(t, location) == pc' = [pc EXCEPT ![t] = location]

InterruptInit ==
    /\ interrupted = FALSE
    /\ base = "none"
    /\ deadline = base
    /\ pc = [t \in Threads |-> "out"]
    /\ previous = [t \in Threads |-> "none"]
    /\ watcher = [t \in Threads |-> "none"]
    /\ disturbed = {}

-----------------------------------------------------------------------------
(* ScopedOracleIoDeadline: a publication's budget, opened and closed by    *)
(* the caller around its queries.                                          *)
BudgetBegins ==
    /\ NoScope
    /\ base = "none"
    /\ base' = "budget"
    /\ deadline' = "budget"
    /\ UNCHANGED <<interrupted, pc, previous, watcher, disturbed>>

BudgetEnds ==
    /\ NoScope
    /\ base = "budget"
    /\ base' = "none"
    /\ deadline' = "none"
    /\ UNCHANGED <<interrupted, pc, previous, watcher, disturbed>>

Interrupt ==
    /\ ~interrupted
    /\ interrupted' = TRUE
    /\ UNCHANGED <<deadline, base, pc, previous, watcher, disturbed>>

(* DuckDB clears the flag when the connection's next query begins, after   *)
(* every thread of the last one is done.                                   *)
QueryBegins ==
    /\ NoScope
    /\ interrupted' = FALSE
    /\ UNCHANGED <<deadline, base, pc, previous, watcher, disturbed>>

-----------------------------------------------------------------------------
(* The scope                                                               *)

(* The member initializers read the deadline ...                           *)
ScopeReads(t) ==
    /\ pc[t] = "out"
    /\ previous' = [previous EXCEPT ![t] = deadline]
    /\ Goto(t, "entering")
    /\ UNCHANGED <<interrupted, deadline, base, watcher, disturbed>>

ScopeStarts_Unchecked(t) ==     \* bug: the constructor does not call Check
    /\ pc[t] = "entering"
    /\ Goto(t, "calling")
    /\ watcher' = [watcher EXCEPT ![t] = "watching"]
    /\ disturbed' = disturbed \ {t}
    /\ UNCHANGED <<interrupted, deadline, base, previous>>

(* ... and the constructor then checks for an interrupt, which it throws,  *)
(* so that no destructor runs, before it starts the watcher.               *)
ScopeStarts(t) ==
    /\ pc[t] = "entering"
    /\ IF interrupted
       THEN Goto(t, "out") /\ UNCHANGED watcher
       ELSE Goto(t, "calling") /\ watcher' = [watcher EXCEPT ![t] = "watching"]
    /\ disturbed' = disturbed \ {t}
    /\ UNCHANGED <<interrupted, deadline, base, previous>>

WatcherSignals_NoEarlier(t) ==  \* bug: a deadline that was found is kept
    /\ watcher[t] = "watching"
    /\ interrupted
    /\ deadline' = IF deadline = "none" THEN "past" ELSE deadline
    /\ watcher' = [watcher EXCEPT ![t] = "signalled"]
    /\ UNCHANGED <<interrupted, base, pc, previous, disturbed>>

(* The watcher looks every 20 ms; the earlier of now and the deadline it   *)
(* found is always in the past.  It signals once and returns, and it holds *)
(* the scope's lock meanwhile, so Stop comes before or after all of this.  *)
WatcherSignals(t) ==
    /\ watcher[t] = "watching"
    /\ interrupted
    /\ deadline' = "past"
    /\ watcher' = [watcher EXCEPT ![t] = "signalled"]
    /\ UNCHANGED <<interrupted, base, pc, previous, disturbed>>

(* The call waits for Oracle, each read and write and every 50 ms of each  *)
(* looking at the deadline; a budget may be over at any time.              *)
CallCutOff(t) ==
    /\ pc[t] = "calling"
    /\ deadline # "none"
    /\ Goto(t, "failed")
    /\ UNCHANGED <<interrupted, deadline, base, previous, watcher, disturbed>>

(* Oracle reports an error, or the read timeout is over.                   *)
CallFails(t) ==
    /\ pc[t] = "calling"
    /\ Goto(t, "failed")
    /\ UNCHANGED <<interrupted, deadline, base, previous, watcher, disturbed>>

(* Oracle answers; the functions that write look once more before they     *)
(* report success.                                                         *)
CallReturns(t) ==
    /\ pc[t] = "calling"
    /\ \/ Goto(t, "leaving")
       \/ interrupted /\ Goto(t, "failed")
    /\ UNCHANGED <<interrupted, deadline, base, previous, watcher, disturbed>>

(* Stop() joins the watcher: it has signalled, or never will.              *)
WatcherStopped(t) == [watcher EXCEPT ![t] = IF @ = "signalled" THEN @ ELSE "stopped"]

Stop(t) ==
    /\ pc[t] = "failed"
    /\ watcher' = WatcherStopped(t)
    /\ Goto(t, "cleanup")
    /\ UNCHANGED <<interrupted, deadline, base, previous, disturbed>>

(* PoisonTransactionSession, which closes the session under the deadline.  *)
Poison(t) ==
    /\ pc[t] = "cleanup"
    /\ Goto(t, "leaving")
    /\ UNCHANGED <<interrupted, deadline, base, previous, watcher, disturbed>>

PutsBack_Nothing(t) == watcher[t] = "watching"  \* bug: Stop forgets the signal
PutsBack(t) == watcher[t] = "signalled"

(* The destructor: Stop, then restore the deadline if the watcher moved it.*)
ScopeEnds(t) ==
    /\ pc[t] = "leaving"
    /\ IF PutsBack(t)
       THEN /\ deadline' = previous[t]
            /\ disturbed' = disturbed \cup {u \in Threads : pc[u] \in InScope /\ u # t}
       ELSE UNCHANGED <<deadline, disturbed>>
    /\ watcher' = [watcher EXCEPT ![t] = "none"]
    /\ Goto(t, "out")
    /\ UNCHANGED <<interrupted, base, previous>>

-----------------------------------------------------------------------------
InterruptNext ==
    \/ Interrupt
    \/ QueryBegins
    \/ BudgetBegins
    \/ BudgetEnds
    \/ \E t \in Threads :
          \/ ScopeReads(t)
          \/ ScopeStarts(t)
          \/ WatcherSignals(t)
          \/ CallCutOff(t)
          \/ CallFails(t)
          \/ CallReturns(t)
          \/ Stop(t)
          \/ Poison(t)
          \/ ScopeEnds(t)

InterruptSpec == InterruptInit /\ [][InterruptNext]_interruptVars

-----------------------------------------------------------------------------
(* Properties                                                              *)

(* Types, and that a watcher never outlives its scope and has been joined  *)
(* before what failed is cleaned up (lines 70-71, 1114).                   *)
TypeOK ==
    /\ interrupted \in BOOLEAN
    /\ deadline \in Deadlines
    /\ base \in Base
    /\ pc \in [Threads -> Locations]
    /\ previous \in [Threads -> Deadlines]
    /\ watcher \in [Threads -> {"none", "watching", "signalled", "stopped"}]
    /\ disturbed \subseteq Threads
    /\ \A t \in Threads : /\ watcher[t] = "none" <=> pc[t] \notin InScope
                          /\ watcher[t] = "watching" => pc[t] # "cleanup"

(* The scopes of one query begin and end in any order, and each restores   *)
(* what it found (lines 91-94): when the last one is gone the connection   *)
(* has the deadline it had before the first, so an interrupted query never *)
(* leaves its sessions, or those of later queries, with one in the past;   *)
(* and until then a deadline in the past means that this query is          *)
(* interrupted, whichever scope had moved it or put it back.               *)
DeadlineIsRestored ==
    /\ NoScope => deadline = base
    /\ deadline = "past" => interrupted

(* ``the caller's interrupt must reach it'' (oracle_query.cpp line 665),   *)
(* ``retain the expired caller deadline through cleanup'' (line 1114):     *)
(* from the moment the watcher of a scope has signalled, the call finds    *)
(* the deadline in the past whenever it looks, until the scope ends.       *)
InterruptReachesCall ==
    \A t \in Threads :
        watcher[t] = "signalled" /\ pc[t] \in {"calling", "failed", "cleanup"} =>
            deadline = "past"

(* Only another scope of the same connection, ending after the interrupt,  *)
(* can take that away.                                                     *)
InterruptReachesUndisturbedCall ==
    \A t \in Threads \ disturbed :
        watcher[t] = "signalled" /\ pc[t] \in {"calling", "failed", "cleanup"} =>
            deadline = "past"

=============================================================================
