----------------------- MODULE CallerInterrupt_proofs -----------------------
(***************************************************************************)
(* Proofs about CallerInterrupt, for any set of threads.  The invariant    *)
(* follows the copies of the deadline: every open scope has copied the     *)
(* value the connection has outside all scopes (Copies), so that whoever   *)
(* restores restores that value, and the deadline is anything else only    *)
(* while a scope whose watcher moved it is still open (Moved).             *)
(***************************************************************************)
EXTENDS CallerInterrupt, TLAPS

(* A scope that read a deadline another one had moved does not survive its *)
(* constructor, because the query is interrupted.                          *)
Copies ==
    \A t \in Threads :
        /\ pc[t] \in InScope => previous[t] = base
        /\ pc[t] = "entering" => previous[t] = base \/ interrupted

Moved ==
    \/ deadline = base
    \/ /\ deadline = "past"
       /\ interrupted
       /\ \E t \in Threads : watcher[t] = "signalled"

Heard == \A t \in Threads \ disturbed : watcher[t] = "signalled" => deadline = "past"

Inv == TypeOK /\ Copies /\ Moved /\ Heard

LEMMA InitInv == InterruptInit => Inv
BY DEF InterruptInit, Inv, TypeOK, Copies, Moved, Heard, Deadlines, Base, Locations, InScope

(* Outside every scope there is no watcher, so nobody moved the deadline.  *)
LEMMA NoScopeMeansBase == Inv /\ NoScope => deadline = base
<1> SUFFICES ASSUME Inv, NoScope PROVE deadline = base
  OBVIOUS
<1>1. \A t \in Threads : watcher[t] = "none"
  BY DEF Inv, TypeOK, NoScope, InScope
<1> QED
  BY <1>1 DEF Inv, Moved

(* The initial part of the state is typed by every step.                   *)
LEMMA TypeStep == Inv /\ [InterruptNext]_interruptVars => TypeOK'
<1> SUFFICES ASSUME Inv, [InterruptNext]_interruptVars PROVE TypeOK'
  OBVIOUS
<1>t. TypeOK
  BY DEF Inv
<1> USE <1>t DEF TypeOK, Deadlines, Base, Locations, InScope, Goto
<1>1. CASE Interrupt \/ QueryBegins \/ BudgetBegins \/ BudgetEnds
  BY <1>1 DEF Interrupt, QueryBegins, BudgetBegins, BudgetEnds
<1>2. ASSUME NEW t \in Threads, ScopeReads(t) PROVE TypeOK'
  BY <1>2 DEF ScopeReads
<1>3. ASSUME NEW t \in Threads, ScopeStarts(t) PROVE TypeOK'
  BY <1>3 DEF ScopeStarts
<1>4. ASSUME NEW t \in Threads, WatcherSignals(t) PROVE TypeOK'
  BY <1>4 DEF WatcherSignals
<1>5. ASSUME NEW t \in Threads, CallCutOff(t) \/ CallFails(t) \/ CallReturns(t) PROVE TypeOK'
  BY <1>5 DEF CallCutOff, CallFails, CallReturns
<1>6. ASSUME NEW t \in Threads, Stop(t) \/ Poison(t) PROVE TypeOK'
  BY <1>6 DEF Stop, WatcherStopped, Poison
<1>7. ASSUME NEW t \in Threads, ScopeEnds(t) PROVE TypeOK'
  BY <1>7 DEF ScopeEnds, PutsBack
<1>8. CASE UNCHANGED interruptVars
  BY <1>8 DEF interruptVars
<1> QED
  BY <1>1, <1>2, <1>3, <1>4, <1>5, <1>6, <1>7, <1>8 DEF InterruptNext

LEMMA StepInv == Inv /\ [InterruptNext]_interruptVars => Inv'
<1> SUFFICES ASSUME Inv, [InterruptNext]_interruptVars PROVE Inv'
  OBVIOUS
<1>t. TypeOK /\ TypeOK'
  BY TypeStep DEF Inv
<1>i. Copies /\ Moved /\ Heard
  BY DEF Inv
<1> USE DEF TypeOK, InScope, Goto
<1>1. CASE Interrupt
  BY <1>t, <1>i, <1>1 DEF Interrupt, Inv, Copies, Moved, Heard
<1>2. CASE QueryBegins
  BY <1>t, <1>i, <1>2, NoScopeMeansBase DEF QueryBegins, NoScope, Inv, Copies, Moved, Heard
<1>3. CASE BudgetBegins \/ BudgetEnds
  BY <1>t, <1>i, <1>3, NoScopeMeansBase DEF BudgetBegins, BudgetEnds, NoScope, Inv, Copies, Moved, Heard
<1>4. ASSUME NEW t \in Threads, ScopeReads(t) PROVE Inv'
  BY <1>t, <1>i, <1>4 DEF ScopeReads, Inv, Copies, Moved, Heard
<1>5. ASSUME NEW t \in Threads, ScopeStarts(t) PROVE Inv'
  BY <1>t, <1>i, <1>5 DEF ScopeStarts, Inv, Copies, Moved, Heard
<1>6. ASSUME NEW t \in Threads, WatcherSignals(t) PROVE Inv'
  BY <1>t, <1>i, <1>6 DEF WatcherSignals, Inv, Copies, Moved, Heard
<1>7. ASSUME NEW t \in Threads, CallCutOff(t) \/ CallFails(t) \/ CallReturns(t) PROVE Inv'
  BY <1>t, <1>i, <1>7 DEF CallCutOff, CallFails, CallReturns, Inv, Copies, Moved, Heard
<1>8. ASSUME NEW t \in Threads, Stop(t) \/ Poison(t) PROVE Inv'
  BY <1>t, <1>i, <1>8 DEF Stop, WatcherStopped, Poison, Inv, Copies, Moved, Heard
<1>9. ASSUME NEW t \in Threads, ScopeEnds(t) PROVE Inv'
  <2>1. Copies'
    BY <1>t, <1>i, <1>9 DEF ScopeEnds, Copies
  <2>2. Moved'
    BY <1>t, <1>i, <1>9 DEF ScopeEnds, PutsBack, Copies, Moved
  <2>3. Heard'
    BY <1>t, <1>i, <1>9 DEF ScopeEnds, PutsBack, Heard
  <2> QED
    BY <1>t, <2>1, <2>2, <2>3 DEF Inv
<1>10. CASE UNCHANGED interruptVars
  BY <1>t, <1>i, <1>10 DEF interruptVars, Inv, Copies, Moved, Heard
<1> QED
  BY <1>1, <1>2, <1>3, <1>4, <1>5, <1>6, <1>7, <1>8, <1>9, <1>10 DEF InterruptNext

LEMMA Invariance == InterruptSpec => []Inv
<1>1. InterruptInit => Inv
  BY InitInv
<1>2. Inv /\ [InterruptNext]_interruptVars => Inv'
  BY StepInv
<1> QED
  BY <1>1, <1>2, PTL DEF InterruptSpec

(* The destructors of overlapping interrupt scopes (oracle_query.cpp lines *)
(* 91-94) leave the connection with the deadline it had before them, and   *)
(* the watcher (lines 77-89) moves it for interrupted queries only.        *)
THEOREM ScopesRestore == InterruptSpec => []DeadlineIsRestored
<1>1. Inv => (NoScope => deadline = base)
  BY NoScopeMeansBase
<1>2. Inv => (deadline = "past" => interrupted)
  BY DEF Inv, TypeOK, Base, Moved
<1>3. Inv => DeadlineIsRestored
  BY <1>1, <1>2 DEF DeadlineIsRestored
<1> QED
  BY <1>3, Invariance, PTL

(* A call whose watcher has signalled finds the deadline in the past       *)
(* unless another scope of the connection ended meanwhile.                 *)
THEOREM InterruptsReach == InterruptSpec => []InterruptReachesUndisturbedCall
<1>1. Inv => InterruptReachesUndisturbedCall
  BY DEF Inv, Heard, InterruptReachesUndisturbedCall
<1> QED
  BY <1>1, Invariance, PTL

=============================================================================
