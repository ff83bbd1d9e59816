----------------------- MODULE TxnSessionPool_proofs ------------------------
(***************************************************************************)
(* Proofs about TxnSessionPool for every set of transactions and sessions, *)
(* every maximum_idle and every bound on the reuses.                       *)
(***************************************************************************)
EXTENDS TxnSessionPool, SequenceTheorems, FiniteSetTheorems, TLAPS

-----------------------------------------------------------------------------
(* What the locked sections do to the idle list.                           *)

(* The elements of a sequence, by their indices.                           *)
LEMMA SetOfSeq ==
    ASSUME NEW S, NEW q \in Seq(S)
    PROVE  DOMAIN q = 1 .. Len(q) /\ ToSet(q) = {q[i] : i \in 1 .. Len(q)}
BY LenProperties DEF ToSet

(* TakeExpiredLocked splits the list: it loses no session and, if no       *)
(* session was in the list twice, puts none in both parts.                 *)
LEMMA TakeExpiredSplits ==
    ASSUME idle \in Seq(Sessions), aged \in 0 .. Len(idle)
    PROVE  /\ Live \in Seq(Sessions)
           /\ Len(Live) = Len(idle) - aged
           /\ Expired \subseteq Sessions
           /\ ToSet(idle) = Expired \cup ToSet(Live)
           /\ IsInjective(idle) => IsInjective(Live) /\ Expired \cap ToSet(Live) = {}
<1> DEFINE old == SubSeq(idle, 1, aged)
<1>1. /\ Live \in Seq(Sessions)
      /\ Len(Live) = Len(idle) - aged
      /\ \A i \in 1 .. Len(idle) - aged : Live[i] = idle[aged + i]
  <2>1. \A i \in aged + 1 .. Len(idle) : idle[i] \in Sessions
    OBVIOUS
  <2>2. aged + 1 \in Int /\ Len(idle) \in Int
    OBVIOUS
  <2> HIDE DEF Live
  <2>3. /\ SubSeq(idle, aged + 1, Len(idle)) \in Seq(Sessions)
        /\ Len(SubSeq(idle, aged + 1, Len(idle))) =
              IF aged + 1 <= Len(idle) THEN Len(idle) - (aged + 1) + 1 ELSE 0
        /\ \A i \in 1 .. Len(idle) - (aged + 1) + 1 :
              SubSeq(idle, aged + 1, Len(idle))[i] = idle[aged + 1 + i - 1]
    BY <2>1, <2>2, SubSeqProperties
  <2> QED
    BY <2>2, <2>3 DEF Live
<1>2. /\ old \in Seq(Sessions)
      /\ Len(old) = aged
      /\ \A i \in 1 .. aged : old[i] = idle[i]
  <2>1. \A i \in 1 .. aged : idle[i] \in Sessions
    OBVIOUS
  <2>2. /\ old \in Seq(Sessions)
        /\ Len(old) = IF 1 <= aged THEN aged - 1 + 1 ELSE 0
        /\ \A i \in 1 .. aged - 1 + 1 : old[i] = idle[1 + i - 1]
    BY <2>1, SubSeqProperties
  <2> QED
    BY <2>2
<1>3. Expired = {idle[i] : i \in 1 .. aged}
  <2>1. ToSet(old) = {old[i] : i \in 1 .. aged}
    BY <1>2, SetOfSeq
  <2> QED
    BY <1>2, <2>1 DEF Expired
<1>4. ToSet(Live) = {idle[i] : i \in aged + 1 .. Len(idle)}
  <2>1. ToSet(Live) = {Live[i] : i \in 1 .. Len(idle) - aged}
    BY <1>1, SetOfSeq
  <2>2. \A i \in aged + 1 .. Len(idle) : i - aged \in 1 .. Len(idle) - aged /\ Live[i - aged] = idle[i]
    BY <1>1
  <2>3. \A i \in 1 .. Len(idle) - aged : aged + i \in aged + 1 .. Len(idle)
    OBVIOUS
  <2>4. ToSet(Live) \subseteq {idle[i] : i \in aged + 1 .. Len(idle)}
    BY <1>1, <2>1, <2>3
  <2>5. {idle[i] : i \in aged + 1 .. Len(idle)} \subseteq ToSet(Live)
    BY <2>1, <2>2
  <2> QED
    BY <2>4, <2>5
<1>5. ToSet(idle) = {idle[i] : i \in 1 .. Len(idle)}
  BY SetOfSeq
<1>6. ToSet(idle) = Expired \cup ToSet(Live)
  BY <1>3, <1>4, <1>5
<1>7. ASSUME IsInjective(idle)
      PROVE  IsInjective(Live) /\ Expired \cap ToSet(Live) = {}
  <2>1. \A i, j \in 1 .. Len(idle) : idle[i] = idle[j] => i = j
    BY <1>7 DEF IsInjective
  <2>2. IsInjective(Live)
    BY <1>1, <2>1 DEF IsInjective
  <2> QED
    BY <1>3, <1>4, <2>1, <2>2
<1> QED
  BY <1>1, <1>3, <1>6, <1>7

(* The candidate leaves the list with the last entry.                      *)
LEMMA TakeLast ==
    ASSUME NEW q \in Seq(Sessions), q # <<>>
    PROVE  /\ Front(q) \in Seq(Sessions)
           /\ Len(Front(q)) = Len(q) - 1
           /\ Last(q) \in ToSet(q)
           /\ ToSet(q) = ToSet(Front(q)) \cup {Last(q)}
           /\ IsInjective(q) => IsInjective(Front(q)) /\ Last(q) \notin ToSet(Front(q))
<1>1. Len(q) \in Nat /\ Len(q) > 0
  OBVIOUS
<1>2. /\ Front(q) \in Seq(Sessions)
      /\ Len(Front(q)) = Len(q) - 1
      /\ \A i \in 1 .. Len(q) - 1 : Front(q)[i] = q[i]
  <2>1. \A i \in 1 .. Len(q) - 1 : q[i] \in Sessions
    OBVIOUS
  <2>2. /\ SubSeq(q, 1, Len(q) - 1) \in Seq(Sessions)
        /\ Len(SubSeq(q, 1, Len(q) - 1)) = IF 1 <= Len(q) - 1 THEN Len(q) - 1 - 1 + 1 ELSE 0
        /\ \A i \in 1 .. Len(q) - 1 - 1 + 1 : SubSeq(q, 1, Len(q) - 1)[i] = q[1 + i - 1]
    BY <1>1, <2>1, SubSeqProperties
  <2>3. Front(q) = SubSeq(q, 1, Len(q) - 1)
    BY DEF Front
  <2>4. Len(q) - 1 - 1 + 1 = Len(q) - 1 /\ \A i \in Nat : 1 + i - 1 = i
    BY <1>1
  <2> QED
    BY <1>1, <2>2, <2>3, <2>4
<1>3. ToSet(q) = {q[i] : i \in 1 .. Len(q)}
  BY SetOfSeq
<1>4. ToSet(Front(q)) = {q[i] : i \in 1 .. Len(q) - 1}
  <2>1. ToSet(Front(q)) = {Front(q)[i] : i \in 1 .. Len(q) - 1}
    BY <1>2, SetOfSeq
  <2> QED
    BY <1>2, <2>1
<1>5. ASSUME IsInjective(q)
      PROVE  IsInjective(Front(q)) /\ Last(q) \notin ToSet(Front(q))
  <2>1. \A i, j \in 1 .. Len(q) : q[i] = q[j] => i = j
    BY <1>5 DEF IsInjective
  <2> QED
    BY <1>1, <1>2, <1>4, <2>1 DEF IsInjective, Last
<1> QED
  BY <1>1, <1>2, <1>3, <1>4, <1>5 DEF Last

(* A returned session is added to the list.                                *)
LEMMA ReturnLast ==
    ASSUME NEW q \in Seq(Sessions), NEW s \in Sessions
    PROVE  /\ Append(q, s) \in Seq(Sessions)
           /\ Len(Append(q, s)) = Len(q) + 1
           /\ ToSet(Append(q, s)) = ToSet(q) \cup {s}
           /\ IsInjective(q) /\ s \notin ToSet(q) => IsInjective(Append(q, s))
<1>1. /\ Append(q, s) \in Seq(Sessions)
      /\ Len(Append(q, s)) = Len(q) + 1
      /\ \A i \in 1 .. Len(q) : Append(q, s)[i] = q[i]
      /\ Append(q, s)[Len(q) + 1] = s
  BY AppendProperties
<1>2. ToSet(q) = {q[i] : i \in 1 .. Len(q)}
  BY SetOfSeq
<1>3. ToSet(Append(q, s)) = {Append(q, s)[i] : i \in 1 .. Len(q) + 1}
  BY <1>1, SetOfSeq
<1>4. ToSet(Append(q, s)) = ToSet(q) \cup {s}
  BY <1>1, <1>2, <1>3
<1>5. ASSUME IsInjective(q), s \notin ToSet(q)
      PROVE  IsInjective(Append(q, s))
  <2>1. \A i, j \in 1 .. Len(q) : q[i] = q[j] => i = j
    BY <1>5 DEF IsInjective
  <2> QED
    BY <1>1, <1>2, <1>5, <2>1 DEF IsInjective
<1> QED
  BY <1>1, <1>4, <1>5

LEMMA EmptyList == /\ <<>> \in Seq(Sessions)
                   /\ Len(<<>>) = 0
                   /\ ToSet(<<>>) = {}
                   /\ IsInjective(<<>>)
  BY DEF ToSet, IsInjective

-----------------------------------------------------------------------------
(* Every thread, session and counter keeps its type, the idle list its     *)
(* bound, and a thread has a session in hand exactly where its program     *)
(* counter says so (transaction_session_pool.cpp lines 59-181).            *)
LEMMA TypeOKInit == Init => TypeOK
<1> SUFFICES ASSUME Init
             PROVE  TypeOK
  OBVIOUS
<1> USE PoolAssumption DEF PoolAssumption, Init
<1>1. PoolTypeOK
  <2>1. counters \in [CounterNames -> Nat]
    OBVIOUS
  <2>2. Len(idle) = 0 /\ aged = 0
    BY EmptyList
  <2>3. Len(idle) <= MaximumIdle /\ aged \in 0 .. Len(idle)
    BY <2>2
  <2> QED
    BY <2>1, <2>3, EmptyList DEF PoolTypeOK
<1>2. ThreadTypeOK
  BY DEF ThreadTypeOK, Locations
<1>3. SessionTypeOK
  BY DEF SessionTypeOK
<1> QED
  BY <1>1, <1>2, <1>3 DEF TypeOK

LEMMA TypeOKStep == TypeOK /\ [Next]_vars => TypeOK'
<1> SUFFICES ASSUME TypeOK, [Next]_vars
             PROVE  TypeOK'
  OBVIOUS
<1> USE PoolAssumption DEF PoolAssumption, TypeOK, poolVars, threadVars, sessionVars, At, Goto, Threads
<1>a. ASSUME NEW t \in Transactions, AcquireBegins(t) PROVE TypeOK'
  <2> USE <1>a DEF AcquireBegins
  <2>1. PoolTypeOK'
    BY DEF PoolTypeOK, CounterNames
  <2>2. ThreadTypeOK'
    BY DEF ThreadTypeOK, Locations, Acquiring, Holding
  <2>3. SessionTypeOK'
    BY DEF SessionTypeOK, ThreadTypeOK, Burdens
  <2> QED
    BY <2>1, <2>2, <2>3
<1>b. ASSUME NEW t \in Transactions, AcquireLooks(t) PROVE TypeOK'
  <2> USE <1>b DEF AcquireLooks
  <2>1. /\ Live \in Seq(Sessions)
        /\ Len(Live) = Len(idle) - aged
        /\ Expired \subseteq Sessions
    BY TakeExpiredSplits DEF PoolTypeOK
  <2>2. Live # <<>> => /\ Front(Live) \in Seq(Sessions)
                       /\ Len(Front(Live)) = Len(Live) - 1
                       /\ Last(Live) \in Sessions
    <3>1. Live # <<>> => Len(Live) \in 1 .. Len(Live)
      BY <2>1
    <3> QED
      BY <2>1, <3>1, TakeLast DEF Last
  <2>3. counters' \in [CounterNames -> Nat]
    BY DEF PoolTypeOK, CounterNames
  <2>4. PoolTypeOK'
    BY <2>1, <2>2, <2>3, EmptyList DEF PoolTypeOK
  <2>5. ThreadTypeOK'
    BY <2>1, <2>2 DEF ThreadTypeOK, Locations, Acquiring, Holding
  <2>6. SessionTypeOK'
    BY DEF SessionTypeOK
  <2> QED
    BY <2>4, <2>5, <2>6
<1>c. ASSUME NEW t \in Transactions, BindCandidate(t) PROVE TypeOK'
  <2> USE <1>c DEF BindCandidate
  <2>1. PoolTypeOK'
    BY DEF PoolTypeOK, CounterNames
  <2>2. ThreadTypeOK'
    BY DEF ThreadTypeOK, Locations, Acquiring, Holding
  <2>3. SessionTypeOK'
    BY DEF SessionTypeOK, ThreadTypeOK, Burdens
  <2> QED
    BY <2>1, <2>2, <2>3
<1>d. ASSUME NEW t \in Transactions, Probe(t) PROVE TypeOK'
  <2> USE <1>d DEF Probe
  <2>1. PoolTypeOK'
    BY DEF PoolTypeOK, CounterNames
  <2>2. ThreadTypeOK'
    BY DEF ThreadTypeOK, Locations, Acquiring, Holding
  <2>3. SessionTypeOK'
    BY DEF SessionTypeOK, ThreadTypeOK, Burdens
  <2> QED
    BY <2>1, <2>2, <2>3
<1>e. ASSUME NEW t \in Transactions, AcquireReuses(t) PROVE TypeOK'
  <2> USE <1>e DEF AcquireReuses
  <2>1. PoolTypeOK'
    BY DEF PoolTypeOK, CounterNames
  <2>2. ThreadTypeOK'
    BY DEF ThreadTypeOK, Locations, Acquiring, Holding
  <2>3. SessionTypeOK'
    BY DEF SessionTypeOK, ThreadTypeOK, Burdens
  <2> QED
    BY <2>1, <2>2, <2>3
<1>f. ASSUME NEW t \in Transactions, AcquireRejects(t) PROVE TypeOK'
  <2> USE <1>f DEF AcquireRejects
  <2>1. PoolTypeOK'
    BY DEF PoolTypeOK, CounterNames
  <2>2. ThreadTypeOK'
    BY DEF ThreadTypeOK, Locations, Acquiring, Holding
  <2>3. SessionTypeOK'
    BY DEF SessionTypeOK, ThreadTypeOK, Burdens
  <2> QED
    BY <2>1, <2>2, <2>3
<1>g. ASSUME NEW t \in Transactions, OpenSession(t) PROVE TypeOK'
  <2> USE <1>g DEF OpenSession
  <2>1. PoolTypeOK'
    BY DEF PoolTypeOK, CounterNames
  <2>2. ThreadTypeOK'
    BY DEF ThreadTypeOK, Locations, Acquiring, Holding
  <2>3. SessionTypeOK'
    BY DEF SessionTypeOK, ThreadTypeOK, Burdens
  <2> QED
    BY <2>1, <2>2, <2>3
<1>h. ASSUME NEW t \in Transactions, AcquireOpens(t) PROVE TypeOK'
  <2> USE <1>h DEF AcquireOpens
  <2>1. PoolTypeOK'
    BY DEF PoolTypeOK, CounterNames
  <2>2. ThreadTypeOK'
    BY DEF ThreadTypeOK, Locations, Acquiring, Holding
  <2>3. SessionTypeOK'
    BY DEF SessionTypeOK, ThreadTypeOK, Burdens
  <2> QED
    BY <2>1, <2>2, <2>3
<1>i. ASSUME NEW t \in Transactions, Statement(t) PROVE TypeOK'
  <2> USE <1>i DEF Statement
  <2>1. PoolTypeOK'
    BY DEF PoolTypeOK, CounterNames
  <2>2. ThreadTypeOK'
    BY DEF ThreadTypeOK, Locations, Acquiring, Holding
  <2>3. SessionTypeOK'
    BY DEF SessionTypeOK, ThreadTypeOK, Burdens
  <2> QED
    BY <2>1, <2>2, <2>3
<1>j. ASSUME NEW t \in Transactions, EndAcknowledged(t) PROVE TypeOK'
  <2> USE <1>j DEF EndAcknowledged
  <2>1. PoolTypeOK'
    BY DEF PoolTypeOK, CounterNames
  <2>2. ThreadTypeOK'
    BY DEF ThreadTypeOK, Locations, Acquiring, Holding
  <2>3. SessionTypeOK'
    BY DEF SessionTypeOK, ThreadTypeOK, Burdens
  <2> QED
    BY <2>1, <2>2, <2>3
<1>k. ASSUME NEW t \in Transactions, EndUnconfirmed(t) PROVE TypeOK'
  <2> USE <1>k DEF EndUnconfirmed
  <2>1. PoolTypeOK'
    BY DEF PoolTypeOK, CounterNames
  <2>2. ThreadTypeOK'
    BY DEF ThreadTypeOK, Locations, Acquiring, Holding
  <2>3. SessionTypeOK'
    BY DEF SessionTypeOK, ThreadTypeOK, Burdens
  <2> QED
    BY <2>1, <2>2, <2>3
<1>l. ASSUME NEW t \in Transactions, ReleaseChecks(t) PROVE TypeOK'
  <2> USE <1>l DEF ReleaseChecks
  <2>1. PoolTypeOK'
    BY DEF PoolTypeOK, CounterNames
  <2>2. ThreadTypeOK'
    BY DEF ThreadTypeOK, Locations, Acquiring, Holding
  <2>3. SessionTypeOK'
    BY DEF SessionTypeOK, ThreadTypeOK, Burdens
  <2> QED
    BY <2>1, <2>2, <2>3
<1>m. ASSUME NEW t \in Transactions, ReleaseKeeps(t) PROVE TypeOK'
  <2> USE <1>m DEF ReleaseKeeps
  <2>1. /\ Live \in Seq(Sessions)
        /\ Len(Live) = Len(idle) - aged
        /\ Expired \subseteq Sessions
    BY TakeExpiredSplits DEF PoolTypeOK
  <2>2. mine[t] \in Sessions
    BY DEF ThreadTypeOK
  <2>3. /\ Append(Live, mine[t]) \in Seq(Sessions)
        /\ Len(Append(Live, mine[t])) = Len(Live) + 1
    BY <2>1, <2>2, ReturnLast
  <2>4. counters' \in [CounterNames -> Nat]
    BY DEF PoolTypeOK, CounterNames, Decrement
  <2>5. PoolTypeOK'
    <3>1. Len(idle') <= MaximumIdle /\ aged' \in 0 .. Len(idle')
      BY <2>1, <2>3 DEF PoolTypeOK, HasRoom
    <3> QED
      BY <2>3, <2>4, <3>1 DEF PoolTypeOK
  <2>6. ThreadTypeOK'
    BY <2>1 DEF ThreadTypeOK, Locations, Acquiring, Holding
  <2>7. SessionTypeOK'
    BY DEF SessionTypeOK
  <2> QED
    BY <2>5, <2>6, <2>7
<1>n. ASSUME NEW t \in Transactions, ReleaseCloses(t) PROVE TypeOK'
  <2> USE <1>n DEF ReleaseCloses
  <2>1. /\ Live \in Seq(Sessions)
        /\ Len(Live) = Len(idle) - aged
        /\ Expired \subseteq Sessions
    BY TakeExpiredSplits DEF PoolTypeOK
  <2>2. mine[t] \in Sessions
    BY DEF ThreadTypeOK
  <2>3. counters' \in [CounterNames -> Nat]
    <3>1. counters \in [CounterNames -> Nat] /\ aged \in Nat
      BY DEF PoolTypeOK
    <3>2. /\ Decrement(counters["leased"]) \in Nat
          /\ counters["closed"] + aged + 1 \in Nat
      BY <3>1 DEF Decrement, CounterNames
    <3>3. counters' = [counters EXCEPT !["leased"] = Decrement(counters["leased"]),
                                       !["closed"] = counters["closed"] + aged + 1]
      OBVIOUS
    <3> QED
      BY <3>1, <3>2, <3>3 DEF CounterNames
  <2>4. PoolTypeOK'
    BY <2>1, <2>3 DEF PoolTypeOK
  <2>5. ThreadTypeOK'
    BY <2>1, <2>2 DEF ThreadTypeOK, Locations, Acquiring, Holding
  <2>6. SessionTypeOK'
    BY DEF SessionTypeOK
  <2> QED
    BY <2>4, <2>5, <2>6
<1>o. ASSUME NEW t \in Transactions, Discard(t) PROVE TypeOK'
  <2> USE <1>o DEF Discard, Decrement
  <2>1. PoolTypeOK'
    BY DEF PoolTypeOK, CounterNames
  <2>2. ThreadTypeOK'
    BY DEF ThreadTypeOK, Locations, Acquiring, Holding
  <2>3. SessionTypeOK'
    BY DEF SessionTypeOK, ThreadTypeOK, Burdens
  <2> QED
    BY <2>1, <2>2, <2>3
<1>p. ASSUME NEW c \in Threads, CloseQuietly(c) PROVE TypeOK'
  <2> USE <1>p DEF CloseQuietly
  <2>1. PoolTypeOK'
    BY DEF PoolTypeOK, CounterNames
  <2>2. ThreadTypeOK'
    BY DEF ThreadTypeOK, Locations, Acquiring, Holding
  <2>3. SessionTypeOK'
    BY DEF SessionTypeOK, ThreadTypeOK, Burdens
  <2> QED
    BY <2>1, <2>2, <2>3
<1>q. ASSUME NEW s \in Sessions, ScanAdvances(s) PROVE TypeOK'
  <2> USE <1>q DEF ScanAdvances
  <2>1. PoolTypeOK'
    BY DEF PoolTypeOK, CounterNames
  <2>2. ThreadTypeOK'
    BY DEF ThreadTypeOK, Locations, Acquiring, Holding
  <2>3. SessionTypeOK'
    BY DEF SessionTypeOK, ThreadTypeOK, Burdens
  <2> QED
    BY <2>1, <2>2, <2>3
<1>r. ASSUME NEW s \in Sessions, SessionLost(s) PROVE TypeOK'
  <2> USE <1>r DEF SessionLost
  <2>1. PoolTypeOK'
    BY DEF PoolTypeOK, CounterNames
  <2>2. ThreadTypeOK'
    BY DEF ThreadTypeOK, Locations, Acquiring, Holding
  <2>3. SessionTypeOK'
    BY DEF SessionTypeOK, ThreadTypeOK, Burdens
  <2> QED
    BY <2>1, <2>2, <2>3
<1>s. CASE PoolCloses
  <2> USE <1>s DEF PoolCloses
  <2>1. counters' \in [CounterNames -> Nat]
    BY DEF PoolTypeOK, CounterNames
  <2>2. PoolTypeOK'
    BY <2>1, EmptyList DEF PoolTypeOK
  <2>3. ThreadTypeOK'
    BY SetOfSeq DEF ThreadTypeOK, PoolTypeOK
  <2>4. SessionTypeOK'
    BY DEF SessionTypeOK
  <2> QED
    BY <2>2, <2>3, <2>4
<1>t. CASE IdleTimePasses
  BY <1>t DEF IdleTimePasses, PoolTypeOK, ThreadTypeOK, SessionTypeOK
<1>u. CASE UNCHANGED vars
  BY <1>u DEF vars, PoolTypeOK, ThreadTypeOK, SessionTypeOK
<1> QED
  BY <1>a, <1>b, <1>c, <1>d, <1>e, <1>f, <1>g, <1>h, <1>i, <1>j, <1>k, <1>l, <1>m, <1>n,
     <1>o, <1>p, <1>q, <1>r, <1>s, <1>t, <1>u
     DEF Next, AcquireStep, ReturnStep, CallerStep

THEOREM TypeCorrect == Spec => []TypeOK
BY TypeOKInit, TypeOKStep, PTL DEF Spec


-----------------------------------------------------------------------------
(* What NoSharing rests on: a session somebody has in hand was opened and  *)
(* is not closed yet, so an opener never hands out one that is in use.     *)
InHandIsOpen ==
    /\ \A s \in ToSet(idle) : wire[s] = "open"
    /\ \A t \in Transactions : mine[t] # NoSession => wire[mine[t]] = "open"
    /\ \A c \in Threads : \A s \in doomed[c] : wire[s] = "open"

Custody == NoSharing /\ InHandIsOpen

LEMMA CustodyInit == Init => Custody
<1> SUFFICES ASSUME Init
             PROVE  Custody
  OBVIOUS
<1>1. ToSet(idle) = {} /\ IsInjective(idle)
  BY EmptyList DEF Init
<1> QED
  BY <1>1 DEF Init, Custody, NoSharing, InHandIsOpen

(* Only the steps that move a session from one hand to another, open or    *)
(* close one can disturb Custody.                                          *)
LEMMA CustodyStep == TypeOK /\ Custody /\ [Next]_vars => Custody'
<1> SUFFICES ASSUME TypeOK, Custody, [Next]_vars
             PROVE  Custody'
  OBVIOUS
<1> USE PoolAssumption DEF PoolAssumption, At, Goto
<1>0. /\ idle \in Seq(Sessions)
      /\ aged \in 0 .. Len(idle)
      /\ pc \in [Transactions -> Locations]
      /\ mine \in [Transactions -> Sessions \cup {NoSession}]
      /\ doomed \in [Threads -> SUBSET Sessions]
      /\ \A t \in Transactions : mine[t] = NoSession <=> pc[t] \in {"out", "look", "open"}
      /\ wire \in [Sessions -> {"none", "open", "closed"}]
      /\ Transactions \subseteq Threads /\ Catalog \in Threads
      /\ ToSet(idle) \subseteq Sessions
  BY SetOfSeq DEF TypeOK, PoolTypeOK, ThreadTypeOK, SessionTypeOK, Threads
<1>1. ASSUME UNCHANGED <<idle, mine, doomed, wire>> PROVE Custody'
  BY <1>1 DEF Custody, NoSharing, InHandIsOpen
<1>2. /\ Live \in Seq(Sessions)
      /\ Expired \subseteq Sessions
      /\ ToSet(idle) = Expired \cup ToSet(Live)
      /\ IsInjective(Live)
      /\ Expired \cap ToSet(Live) = {}
  BY <1>0, TakeExpiredSplits DEF Custody, NoSharing
<1>3. ASSUME NEW t \in Transactions, AcquireLooks(t) PROVE Custody'
  <2> USE <1>3 DEF AcquireLooks
  <2>1. CASE Live # <<>>
    <3>1. /\ IsInjective(Front(Live))
          /\ ToSet(Live) = ToSet(Front(Live)) \cup {Last(Live)}
          /\ Last(Live) \notin ToSet(Front(Live))
      BY <1>2, <2>1, TakeLast
    <3>2. /\ idle' = Front(Live)
          /\ mine' = [mine EXCEPT ![t] = Last(Live)]
          /\ doomed' = [doomed EXCEPT ![t] = Expired]
          /\ wire' = wire
      BY <2>1 DEF sessionVars
    <3>3. NoSharing'
      BY <1>0, <1>2, <3>1, <3>2 DEF Custody, NoSharing
    <3>4. InHandIsOpen'
      BY <1>0, <1>2, <3>1, <3>2 DEF Custody, InHandIsOpen
    <3> QED
      BY <3>3, <3>4 DEF Custody
  <2>2. CASE Live = <<>>
    <3>1. ToSet(idle') = {} /\ IsInjective(idle')
      BY <2>2, EmptyList
    <3>2. UNCHANGED <<mine, wire>> /\ doomed' = [doomed EXCEPT ![t] = Expired]
      BY <2>2 DEF sessionVars
    <3>3. NoSharing'
      BY <1>0, <1>2, <3>1, <3>2 DEF Custody, NoSharing
    <3>4. InHandIsOpen'
      BY <1>0, <1>2, <3>1, <3>2 DEF Custody, InHandIsOpen
    <3> QED
      BY <3>3, <3>4 DEF Custody
  <2> QED
    BY <2>1, <2>2
<1>4. ASSUME NEW t \in Transactions, AcquireRejects(t) \/ Discard(t) PROVE Custody'
  <2>1. /\ UNCHANGED <<idle, wire>>
        /\ mine' = [mine EXCEPT ![t] = NoSession]
        /\ doomed' = [doomed EXCEPT ![t] = {mine[t]}]
        /\ mine[t] # NoSession
    BY <1>0, <1>4 DEF AcquireRejects, Discard, sessionVars
  <2>2. NoSharing'
    BY <1>0, <2>1 DEF Custody, NoSharing
  <2>3. InHandIsOpen'
    BY <1>0, <2>1 DEF Custody, InHandIsOpen
  <2> QED
    BY <2>2, <2>3 DEF Custody
<1>5. ASSUME NEW t \in Transactions, OpenSession(t) PROVE Custody'
  <2>1. CASE UNCHANGED <<wire, mine>>
    BY <1>1, <1>5, <2>1 DEF OpenSession, poolVars
  <2>2. CASE \E s \in Sessions : /\ wire[s] = "none"
                                 /\ wire' = [wire EXCEPT ![s] = "open"]
                                 /\ mine' = [mine EXCEPT ![t] = s]
    <3>1. UNCHANGED <<idle, doomed>>
      BY <1>5 DEF OpenSession, poolVars
    <3>2. PICK s \in Sessions : /\ wire[s] = "none"
                                /\ wire' = [wire EXCEPT ![s] = "open"]
                                /\ mine' = [mine EXCEPT ![t] = s]
      BY <2>2
    <3>3. /\ s \notin ToSet(idle)
          /\ \A u \in Transactions : mine[u] # s
          /\ \A c \in Threads : s \notin doomed[c]
      BY <1>0, <3>2 DEF Custody, InHandIsOpen
    <3>4. NoSharing'
      BY <1>0, <3>1, <3>2, <3>3 DEF Custody, NoSharing
    <3>5. InHandIsOpen'
      BY <1>0, <3>1, <3>2 DEF Custody, InHandIsOpen
    <3> QED
      BY <3>4, <3>5 DEF Custody
  <2> QED
    BY <1>5, <2>1, <2>2 DEF OpenSession
<1>6. ASSUME NEW t \in Transactions, ReleaseKeeps(t) PROVE Custody'
  <2>1. /\ idle' = Append(Live, mine[t])
        /\ mine' = [mine EXCEPT ![t] = NoSession]
        /\ doomed' = [doomed EXCEPT ![t] = Expired]
        /\ wire' = wire
        /\ mine[t] \in Sessions
    BY <1>0, <1>6 DEF ReleaseKeeps, sessionVars
  <2>2. mine[t] \notin ToSet(Live)
    BY <1>2 DEF Custody, NoSharing
  <2>3. ToSet(idle') = ToSet(Live) \cup {mine[t]} /\ IsInjective(idle')
    BY <1>2, <2>1, <2>2, ReturnLast
  <2>4. NoSharing'
    BY <1>0, <1>2, <2>1, <2>3 DEF Custody, NoSharing
  <2>5. InHandIsOpen'
    BY <1>0, <1>2, <2>1, <2>3 DEF Custody, InHandIsOpen
  <2> QED
    BY <2>4, <2>5 DEF Custody
<1>7. ASSUME NEW t \in Transactions, ReleaseCloses(t) PROVE Custody'
  <2>1. /\ idle' = Live
        /\ mine' = [mine EXCEPT ![t] = NoSession]
        /\ doomed' = [doomed EXCEPT ![t] = Expired \cup {mine[t]}]
        /\ wire' = wire
        /\ mine[t] \in Sessions
    BY <1>0, <1>7 DEF ReleaseCloses, sessionVars
  <2>2. NoSharing'
    BY <1>0, <1>2, <2>1 DEF Custody, NoSharing
  <2>3. InHandIsOpen'
    BY <1>0, <1>2, <2>1 DEF Custody, InHandIsOpen
  <2> QED
    BY <2>2, <2>3 DEF Custody
<1>8. ASSUME NEW c \in Threads, CloseQuietly(c) PROVE Custody'
  <2>1. PICK s \in doomed[c] : /\ doomed' = [doomed EXCEPT ![c] = @ \ {s}]
                               /\ wire' = [wire EXCEPT ![s] = "closed"]
    BY <1>8 DEF CloseQuietly
  <2>2. UNCHANGED <<idle, mine>>
    BY <1>8 DEF CloseQuietly, poolVars
  <2>3. NoSharing'
    BY <1>0, <2>1, <2>2 DEF Custody, NoSharing
  <2>4. InHandIsOpen'
    BY <1>0, <2>1, <2>2 DEF Custody, NoSharing, InHandIsOpen
  <2> QED
    BY <2>3, <2>4 DEF Custody
<1>9. CASE PoolCloses
  <2>1. /\ ToSet(idle') = {} /\ IsInjective(idle')
        /\ doomed' = [doomed EXCEPT ![Catalog] = ToSet(idle)]
        /\ UNCHANGED <<mine, wire>>
    BY <1>9, EmptyList DEF PoolCloses, sessionVars
  <2>2. NoSharing'
    BY <1>0, <2>1 DEF Custody, NoSharing
  <2>3. InHandIsOpen'
    BY <1>0, <2>1 DEF Custody, InHandIsOpen
  <2> QED
    BY <2>2, <2>3 DEF Custody
<1>10. ASSUME NEW t \in Transactions,
              \/ AcquireBegins(t) \/ BindCandidate(t) \/ Probe(t) \/ AcquireReuses(t)
              \/ AcquireOpens(t) \/ Statement(t) \/ EndAcknowledged(t) \/ EndUnconfirmed(t)
              \/ ReleaseChecks(t)
       PROVE  UNCHANGED <<idle, mine, doomed, wire>>
  BY <1>10 DEF AcquireBegins, BindCandidate, Probe, AcquireReuses, AcquireOpens, Statement,
               EndAcknowledged, EndUnconfirmed, ReleaseChecks, poolVars, threadVars, sessionVars
<1>11. ASSUME \/ \E s \in Sessions : ScanAdvances(s) \/ SessionLost(s)
              \/ IdleTimePasses
              \/ UNCHANGED vars
       PROVE  UNCHANGED <<idle, mine, doomed, wire>>
  BY <1>11 DEF ScanAdvances, SessionLost, IdleTimePasses, vars, poolVars, threadVars, sessionVars
<1> QED
  BY <1>1, <1>3, <1>4, <1>5, <1>6, <1>7, <1>8, <1>9, <1>10, <1>11
     DEF Next, AcquireStep, ReturnStep, CallerStep

(* ``A session is leased whole to one transaction, never shared between    *)
(* two'', for any number of transactions and sessions.                     *)
THEOREM SessionsAreNotShared == Spec => []NoSharing
<1>1. TypeOK /\ Custody => NoSharing
  BY DEF Custody
<1> QED
  BY <1>1, TypeOKInit, TypeOKStep, CustodyInit, CustodyStep, PTL DEF Spec


-----------------------------------------------------------------------------
(* The facts of Custody and TypeOK the next proofs use.                    *)
LEMMA Facts ==
    ASSUME TypeOK, Custody
    PROVE  /\ idle \in Seq(Sessions)
           /\ ToSet(idle) \subseteq Sessions
           /\ pc \in [Transactions -> Locations]
           /\ mine \in [Transactions -> Sessions \cup {NoSession}]
           /\ doomed \in [Threads -> SUBSET Sessions]
           /\ wire \in [Sessions -> {"none", "open", "closed"}]
           /\ lost \in [Sessions -> {"no", "idle", "held"}]
           /\ binding \in [Sessions -> Transactions \cup {NoCaller}]
           /\ burden \in [Sessions -> SUBSET Burdens]
           /\ Transactions \subseteq Threads /\ Catalog \in Threads
           /\ NoSession \notin Sessions
           /\ \A t \in Transactions : mine[t] = NoSession <=> pc[t] \in {"out", "look", "open"}
           /\ \A t \in Transactions : mine[t] \notin ToSet(idle)
           /\ \A t, u \in Transactions : mine[t] = mine[u] /\ mine[t] # NoSession => t = u
           /\ \A c \in Threads : \A s \in doomed[c] :
                 s \notin ToSet(idle) /\ \A t \in Transactions : mine[t] # s
           /\ \A s \in Sessions : wire[s] = "none" =>
                 s \notin ToSet(idle) /\ \A t \in Transactions : mine[t] # s
           /\ Live \in Seq(Sessions)
           /\ ToSet(idle) = Expired \cup ToSet(Live)
<1>1. TypeOK /\ PoolTypeOK /\ ThreadTypeOK /\ SessionTypeOK
  BY DEF TypeOK
<1>2. Live \in Seq(Sessions) /\ ToSet(idle) = Expired \cup ToSet(Live)
  BY <1>1, TakeExpiredSplits DEF PoolTypeOK
<1>3. idle \in Seq(Sessions) /\ ToSet(idle) \subseteq Sessions
  BY <1>1, SetOfSeq DEF PoolTypeOK
<1>4. /\ \A c \in Threads : \A s \in doomed[c] :
             s \notin ToSet(idle) /\ \A t \in Transactions : mine[t] # s
      /\ \A s \in Sessions : wire[s] = "none" =>
             s \notin ToSet(idle) /\ \A t \in Transactions : mine[t] # s
  BY PoolAssumption DEF Custody, NoSharing, InHandIsOpen, PoolAssumption
<1> QED
  BY <1>1, <1>2, <1>3, <1>4, PoolAssumption
     DEF ThreadTypeOK, SessionTypeOK, Custody, NoSharing, Threads, PoolAssumption

(* IdleIsReusable with what Release found before it took the mutex, and    *)
(* what the caller knew before it called Release.                          *)
KeepIsClean == \A t \in Transactions :
    pc[t] = "keep" => burden[mine[t]] = {} /\ binding[mine[t]] = NoCaller

EndIsReal == \A t \in Transactions :
    pc[t] = "ended" => "work" \notin burden[mine[t]] \/ "failed" \in burden[mine[t]]

Reusability == IdleIsReusable /\ KeepIsClean /\ EndIsReal

LEMMA ReusabilityInit == Init => Reusability
<1> SUFFICES ASSUME Init
             PROVE  Reusability
  OBVIOUS
<1>1. ToSet(idle) = {}
  BY EmptyList DEF Init
<1> QED
  BY <1>1 DEF Init, Reusability, IdleIsReusable, KeepIsClean, EndIsReal

(* The steps that leave the sessions alone and bring no thread closer to   *)
(* returning one.                                                          *)
LEMMA ReusabilityFrame ==
    ASSUME Reusability,
           UNCHANGED <<wire, binding, burden>>,
           ToSet(idle') \subseteq ToSet(idle),
           \A t \in Transactions :
              pc'[t] \in {"keep", "ended"} => pc'[t] = pc[t] /\ mine'[t] = mine[t]
    PROVE  Reusability'
<1>1. IdleIsReusable'
  BY DEF Reusability, IdleIsReusable
<1>2. KeepIsClean'
  BY DEF Reusability, KeepIsClean
<1>3. EndIsReal'
  BY DEF Reusability, EndIsReal
<1> QED
  BY <1>1, <1>2, <1>3 DEF Reusability

(* A step that changes one session, which is not in the list, and moves at *)
(* most the thread that has it in hand.                                    *)
LEMMA ReusabilityOfOne ==
    ASSUME Reusability,
           NEW s \in Sessions, s \notin ToSet(idle),
           ToSet(idle) \subseteq Sessions, idle' = idle,
           mine \in [Transactions -> Sessions \cup {NoSession}],
           \A r \in Sessions : r # s =>
              wire'[r] = wire[r] /\ binding'[r] = binding[r] /\ burden'[r] = burden[r],
           \A t \in Transactions : pc'[t] \in {"keep", "ended"} =>
              /\ mine'[t] = mine[t] /\ mine[t] \in Sessions
              /\ mine[t] # s => pc'[t] = pc[t]
              /\ mine[t] = s /\ pc'[t] = "keep" => burden'[s] = {} /\ binding'[s] = NoCaller
              /\ mine[t] = s /\ pc'[t] = "ended" =>
                    "work" \notin burden'[s] \/ "failed" \in burden'[s]
    PROVE  Reusability'
<1>1. IdleIsReusable'
  BY DEF Reusability, IdleIsReusable
<1>2. KeepIsClean'
  BY DEF Reusability, KeepIsClean
<1>3. EndIsReal'
  BY DEF Reusability, EndIsReal
<1> QED
  BY <1>1, <1>2, <1>3 DEF Reusability

LEMMA ReusabilityStep == TypeOK /\ Custody /\ Reusability /\ [Next]_vars => Reusability'
<1> SUFFICES ASSUME TypeOK, Custody, Reusability, [Next]_vars
             PROVE  Reusability'
  OBVIOUS
<1> USE DEF At, Goto
<1>1. ASSUME NEW t \in Transactions,
             \/ AcquireBegins(t) \/ AcquireLooks(t) \/ Probe(t) \/ AcquireReuses(t)
             \/ AcquireRejects(t) \/ AcquireOpens(t) \/ EndUnconfirmed(t) \/ ReleaseCloses(t)
             \/ Discard(t)
      PROVE  Reusability'
  <2>1. UNCHANGED <<wire, binding, burden>>
    BY <1>1 DEF AcquireBegins, AcquireLooks, Probe, AcquireReuses, AcquireRejects, AcquireOpens,
                EndUnconfirmed, ReleaseCloses, Discard, sessionVars
  <2>2. \A u \in Transactions :
           pc'[u] \in {"keep", "ended"} => pc'[u] = pc[u] /\ mine'[u] = mine[u]
    BY <1>1, Facts DEF AcquireBegins, AcquireLooks, Probe, AcquireReuses, AcquireRejects,
                AcquireOpens, EndUnconfirmed, ReleaseCloses, Discard
  <2>3. ToSet(idle') \subseteq ToSet(idle)
    BY <1>1, Facts, TakeLast, EmptyList
       DEF AcquireBegins, AcquireLooks, Probe, AcquireReuses, AcquireRejects, AcquireOpens,
           EndUnconfirmed, ReleaseCloses, Discard, poolVars
  <2> QED
    BY <2>1, <2>2, <2>3, ReusabilityFrame
<1>2. ASSUME NEW t \in Transactions,
             BindCandidate(t) \/ Statement(t) \/ EndAcknowledged(t) \/ ReleaseChecks(t)
      PROVE  Reusability'
  <2>1. /\ mine[t] \in Sessions /\ mine[t] \notin ToSet(idle)
        /\ \A u \in Transactions : u # t => mine[u] # mine[t]
        /\ \A u \in Transactions : pc[u] \in {"keep", "ended"} => mine[u] \in Sessions
        /\ ToSet(idle) \subseteq Sessions
        /\ mine \in [Transactions -> Sessions \cup {NoSession}]
    BY <1>2, Facts DEF BindCandidate, Statement, EndAcknowledged, ReleaseChecks
  <2>2. UNCHANGED <<idle, mine, wire>>
    BY <1>2 DEF BindCandidate, Statement, EndAcknowledged, ReleaseChecks, poolVars, threadVars
  <2>3. \A r \in Sessions : r # mine[t] =>
           wire'[r] = wire[r] /\ binding'[r] = binding[r] /\ burden'[r] = burden[r]
    BY <1>2, Facts DEF BindCandidate, Statement, EndAcknowledged, ReleaseChecks
  <2>4. \A u \in Transactions : u # t => pc'[u] = pc[u]
    BY <1>2, Facts DEF BindCandidate, Statement, EndAcknowledged, ReleaseChecks, threadVars
  <2>5. pc'[t] = "keep" => burden'[mine[t]] = {} /\ binding'[mine[t]] = NoCaller
    <3>1. CASE ReleaseChecks(t)
      <4>1. /\ pc[t] = "ended" /\ UNCHANGED burden
            /\ pc'[t] = "keep" => /\ burden[mine[t]] \cap {"statement", "failed"} = {}
                                  /\ "borrower" \notin burden[mine[t]]
                                  /\ binding' = [binding EXCEPT ![mine[t]] = NoCaller]
        BY <3>1, Facts DEF ReleaseChecks, SoleOwner, ReadyForReuse
      <4>2. "work" \notin burden[mine[t]] \/ "failed" \in burden[mine[t]]
        BY <4>1 DEF Reusability, EndIsReal
      <4>3. burden[mine[t]] \subseteq {"work", "statement", "failed", "borrower"}
        BY <2>1, Facts DEF Burdens
      <4>4. pc'[t] = "keep" => burden[mine[t]] = {}
        BY <4>1, <4>2, <4>3
      <4> QED
        BY <2>1, <4>1, <4>4, Facts
    <3>2. CASE BindCandidate(t) \/ Statement(t) \/ EndAcknowledged(t)
      BY <3>2, Facts DEF BindCandidate, Statement, EndAcknowledged, threadVars
    <3> QED
      BY <1>2, <3>1, <3>2
  <2>6. pc'[t] = "ended" => "work" \notin burden'[mine[t]] \/ "failed" \in burden'[mine[t]]
    <3>1. CASE EndAcknowledged(t)
      BY <2>1, <3>1, Facts DEF EndAcknowledged
    <3>2. CASE BindCandidate(t) \/ Statement(t) \/ ReleaseChecks(t)
      BY <3>2, Facts DEF BindCandidate, Statement, ReleaseChecks, threadVars
    <3> QED
      BY <1>2, <3>1, <3>2
  <2>7. \A u \in Transactions : pc'[u] \in {"keep", "ended"} =>
           /\ mine'[u] = mine[u] /\ mine[u] \in Sessions
           /\ mine[u] # mine[t] => pc'[u] = pc[u]
           /\ mine[u] = mine[t] => u = t
    BY <2>1, <2>2, <2>4
  <2> QED
    BY <2>1, <2>2, <2>3, <2>5, <2>6, <2>7, ReusabilityOfOne
<1>3. ASSUME NEW t \in Transactions, OpenSession(t) PROVE Reusability'
  <2>1. /\ UNCHANGED <<idle, burden>>
        /\ pc[t] = "open"
        /\ \A u \in Transactions : u # t => pc'[u] = pc[u] /\ mine'[u] = mine[u]
        /\ pc'[t] \in {"opened", "out"}
    BY <1>3, Facts DEF OpenSession, poolVars
  <2>2. CASE UNCHANGED <<wire, binding>>
    BY <2>1, <2>2, ReusabilityFrame
  <2>3. CASE \E s \in Sessions : /\ wire[s] = "none"
                                 /\ wire' = [wire EXCEPT ![s] = "open"]
                                 /\ binding' = [binding EXCEPT ![s] = t]
    <3>1. PICK s \in Sessions : /\ wire[s] = "none"
                                /\ wire' = [wire EXCEPT ![s] = "open"]
                                /\ binding' = [binding EXCEPT ![s] = t]
      BY <2>3
    <3>2. \A r \in Sessions : r # s =>
             wire'[r] = wire[r] /\ binding'[r] = binding[r] /\ burden'[r] = burden[r]
      BY <2>1, <3>1, Facts
    <3>3. \A u \in Transactions : pc'[u] \in {"keep", "ended"} =>
             mine'[u] = mine[u] /\ mine[u] \in Sessions /\ pc'[u] = pc[u] /\ mine[u] # s
      BY <2>1, <3>1, Facts
    <3>4. /\ s \notin ToSet(idle) /\ ToSet(idle) \subseteq Sessions
          /\ mine \in [Transactions -> Sessions \cup {NoSession}]
      BY <3>1, Facts
    <3> QED
      BY <2>1, <3>2, <3>3, <3>4, ReusabilityOfOne
  <2> QED
    BY <1>3, <2>2, <2>3 DEF OpenSession
<1>4. ASSUME NEW t \in Transactions, ReleaseKeeps(t) PROVE Reusability'
  <2>1. /\ UNCHANGED <<wire, binding, burden>>
        /\ pc[t] = "keep" /\ mine[t] \in Sessions
        /\ idle' = Append(Live, mine[t])
        /\ \A u \in Transactions :
              pc'[u] \in {"keep", "ended"} => pc'[u] = pc[u] /\ mine'[u] = mine[u]
    BY <1>4, Facts DEF ReleaseKeeps, sessionVars
  <2>2. ToSet(idle') \subseteq ToSet(idle) \cup {mine[t]}
    BY <2>1, Facts, ReturnLast
  <2>3. wire[mine[t]] = "open"
    BY <2>1, Facts DEF Custody, InHandIsOpen
  <2>4. IdleIsReusable'
    BY <2>1, <2>2, <2>3 DEF Reusability, KeepIsClean, IdleIsReusable
  <2>5. KeepIsClean' /\ EndIsReal'
    BY <2>1 DEF Reusability, KeepIsClean, EndIsReal
  <2> QED
    BY <2>4, <2>5 DEF Reusability
<1>5. ASSUME NEW c \in Threads, CloseQuietly(c) PROVE Reusability'
  <2>1. PICK s \in doomed[c] : /\ wire' = [wire EXCEPT ![s] = "closed"]
                               /\ binding' = [binding EXCEPT ![s] = NoCaller]
                               /\ burden' = [burden EXCEPT ![s] = {}]
    BY <1>5 DEF CloseQuietly
  <2>2. UNCHANGED <<idle, pc, mine>>
    BY <1>5 DEF CloseQuietly, poolVars
  <2>3. /\ s \in Sessions /\ s \notin ToSet(idle) /\ \A t \in Transactions : mine[t] # s
        /\ ToSet(idle) \subseteq Sessions
        /\ mine \in [Transactions -> Sessions \cup {NoSession}]
        /\ \A t \in Transactions : pc[t] \in {"keep", "ended"} => mine[t] \in Sessions
    BY <2>1, Facts
  <2>4. \A r \in Sessions : r # s =>
           wire'[r] = wire[r] /\ binding'[r] = binding[r] /\ burden'[r] = burden[r]
    BY <2>1, Facts
  <2> QED
    BY <2>2, <2>3, <2>4, ReusabilityOfOne
<1>6. ASSUME NEW s \in Sessions, ScanAdvances(s) PROVE Reusability'
  <2>1. /\ UNCHANGED <<idle, pc, mine, wire, binding>>
        /\ \E gone \in SUBSET {"statement", "borrower"} :
              burden' = [burden EXCEPT ![s] = @ \ gone]
    BY <1>6 DEF ScanAdvances, poolVars, threadVars
  <2>2. \A r \in Sessions : /\ burden'[r] \subseteq burden[r]
                            /\ "failed" \in burden[r] => "failed" \in burden'[r]
    BY <2>1, Facts
  <2>3. /\ ToSet(idle) \subseteq Sessions
        /\ \A t \in Transactions : pc[t] \in {"keep", "ended"} => mine[t] \in Sessions
    BY Facts
  <2>4. IdleIsReusable'
    BY <2>1, <2>2, <2>3 DEF Reusability, IdleIsReusable
  <2>5. KeepIsClean'
    BY <2>1, <2>2, <2>3 DEF Reusability, KeepIsClean
  <2>6. EndIsReal'
    BY <2>1, <2>2, <2>3 DEF Reusability, EndIsReal
  <2> QED
    BY <2>4, <2>5, <2>6 DEF Reusability
<1>7. CASE PoolCloses
  BY <1>7, EmptyList, ReusabilityFrame DEF PoolCloses, sessionVars
<1>8. CASE IdleTimePasses \/ (\E s \in Sessions : SessionLost(s)) \/ UNCHANGED vars
  <2>1. UNCHANGED <<idle, pc, mine, wire, binding, burden>>
    BY <1>8 DEF IdleTimePasses, SessionLost, vars, poolVars, threadVars, sessionVars
  <2> QED
    BY <2>1, ReusabilityFrame
<1> QED
  BY <1>1, <1>2, <1>3, <1>4, <1>5, <1>6, <1>7, <1>8
     DEF Next, AcquireStep, ReturnStep, CallerStep

(* Whatever the interleaving of Release with scans, expiry and Close, only *)
(* a session with nothing left on it waits for the next transaction        *)
(* (transaction_session_pool.cpp lines 114-149).                           *)
THEOREM IdleSessionsAreReusable == Spec => []IdleIsReusable
<1>1. Reusability => IdleIsReusable
  BY DEF Reusability
<1> QED
  BY <1>1, TypeOKInit, TypeOKStep, CustodyInit, CustodyStep, ReusabilityInit, ReusabilityStep,
     PTL DEF Spec

-----------------------------------------------------------------------------
(* LeaseIsUsable by its parts, with the sessions that are being opened.    *)
Proven == {"opened", "probed"} \cup Holding

Governed == {"probe", "probed", "opened", "leased", "ended"}

ProvenIsAlive == \A t \in Transactions : pc[t] \in Proven => lost[mine[t]] # "idle"

GovernedIsBound == \A t \in Transactions :
    pc[t] \in Governed => wire[mine[t]] = "open" /\ binding[mine[t]] = t

UnopenedIsAlive == \A s \in Sessions : wire[s] = "none" => lost[s] = "no"

Usability == ProvenIsAlive /\ GovernedIsBound /\ UnopenedIsAlive

LEMMA UsabilityInit == Init => Usability
BY DEF Init, Usability, ProvenIsAlive, GovernedIsBound, UnopenedIsAlive, Proven, Governed, Holding

(* The steps that leave the sessions alone.                                *)
LEMMA UsabilityFrame ==
    ASSUME Usability,
           UNCHANGED <<wire, lost, binding>>,
           \A t \in Transactions :
              /\ pc'[t] \in Proven => pc[t] \in Proven /\ mine'[t] = mine[t]
              /\ pc'[t] \in Governed => pc[t] \in Governed /\ mine'[t] = mine[t]
    PROVE  Usability'
<1>1. ProvenIsAlive'
  BY DEF Usability, ProvenIsAlive
<1>2. GovernedIsBound'
  BY DEF Usability, GovernedIsBound
<1>3. UnopenedIsAlive'
  BY DEF Usability, UnopenedIsAlive
<1> QED
  BY <1>1, <1>2, <1>3 DEF Usability

(* A step that changes one session and moves at most one thread.           *)
LEMMA UsabilityOfOne ==
    ASSUME Usability,
           NEW s \in Sessions,
           \A r \in Sessions : r # s =>
              wire'[r] = wire[r] /\ lost'[r] = lost[r] /\ binding'[r] = binding[r],
           wire'[s] = "none" => lost'[s] = "no",
           \A t \in Transactions : pc'[t] \in Proven =>
              \/ pc[t] \in Proven /\ mine'[t] = mine[t] /\ mine[t] \in Sessions /\ mine[t] # s
              \/ lost'[mine'[t]] # "idle",
           \A t \in Transactions : pc'[t] \in Governed =>
              \/ pc[t] \in Governed /\ mine'[t] = mine[t] /\ mine[t] \in Sessions /\ mine[t] # s
              \/ wire'[mine'[t]] = "open" /\ binding'[mine'[t]] = t
    PROVE  Usability'
<1>1. ProvenIsAlive'
  BY DEF Usability, ProvenIsAlive
<1>2. GovernedIsBound'
  BY DEF Usability, GovernedIsBound
<1>3. UnopenedIsAlive'
  BY DEF Usability, UnopenedIsAlive
<1> QED
  BY <1>1, <1>2, <1>3 DEF Usability

LEMMA UsabilityStep == TypeOK /\ Custody /\ Usability /\ [Next]_vars => Usability'
<1> SUFFICES ASSUME TypeOK, Custody, Usability, [Next]_vars
             PROVE  Usability'
  OBVIOUS
<1> USE DEF At, Goto
<1>1. ASSUME NEW t \in Transactions,
             \/ AcquireBegins(t) \/ AcquireLooks(t) \/ AcquireReuses(t) \/ AcquireRejects(t)
             \/ AcquireOpens(t) \/ Statement(t) \/ EndAcknowledged(t) \/ EndUnconfirmed(t)
             \/ ReleaseKeeps(t) \/ ReleaseCloses(t) \/ Discard(t)
      PROVE  Usability'
  <2>1. UNCHANGED <<wire, lost, binding>>
    BY <1>1 DEF AcquireBegins, AcquireLooks, AcquireReuses, AcquireRejects, AcquireOpens,
                Statement, EndAcknowledged, EndUnconfirmed, ReleaseKeeps, ReleaseCloses, Discard,
                sessionVars
  <2>2. \A u \in Transactions :
           /\ pc'[u] \in Proven => pc[u] \in Proven /\ mine'[u] = mine[u]
           /\ pc'[u] \in Governed => pc[u] \in Governed /\ mine'[u] = mine[u]
    BY <1>1, Facts
       DEF AcquireBegins, AcquireLooks, AcquireReuses, AcquireRejects, AcquireOpens, Statement,
           EndAcknowledged, EndUnconfirmed, ReleaseKeeps, ReleaseCloses, Discard, threadVars,
           Proven, Governed, Holding
  <2> QED
    BY <2>1, <2>2, UsabilityFrame
<1>2. ASSUME NEW t \in Transactions, BindCandidate(t) \/ ReleaseChecks(t) PROVE Usability'
  <2>1. /\ UNCHANGED <<mine, wire, lost>>
        /\ mine[t] \in Sessions
        /\ \A u \in Transactions : u # t => mine[u] # mine[t]
        /\ \A u \in Transactions : u # t => pc'[u] = pc[u]
    BY <1>2, Facts DEF BindCandidate, ReleaseChecks
  <2>2. \A r \in Sessions : r # mine[t] => binding'[r] = binding[r]
    BY <1>2, Facts DEF BindCandidate, ReleaseChecks
  <2>3. pc'[t] \in Governed => wire[mine[t]] = "open" /\ binding'[mine[t]] = t
    <3>1. CASE BindCandidate(t)
      BY <2>1, <3>1, Facts DEF BindCandidate, Custody, InHandIsOpen
    <3>2. CASE ReleaseChecks(t)
      BY <3>2, Facts DEF ReleaseChecks, Governed
    <3> QED
      BY <1>2, <3>1, <3>2
  <2>4. pc'[t] \in Proven => lost[mine[t]] # "idle"
    <3>1. CASE BindCandidate(t)
      BY <3>1, Facts DEF BindCandidate, Proven, Holding
    <3>2. CASE ReleaseChecks(t)
      BY <3>2 DEF ReleaseChecks, Usability, ProvenIsAlive, Proven, Holding
    <3> QED
      BY <1>2, <3>1, <3>2
  <2>5. wire[mine[t]] = "none" => lost[mine[t]] = "no"
    BY <2>1 DEF Usability, UnopenedIsAlive
  <2>6. \A u \in Transactions : pc[u] \in Proven \cup Governed => mine[u] \in Sessions
    BY Facts DEF Proven, Governed, Holding
  <2> QED
    BY <2>1, <2>2, <2>3, <2>4, <2>5, <2>6, UsabilityOfOne
<1>3. ASSUME NEW t \in Transactions, Probe(t) PROVE Usability'
  <2>1. /\ UNCHANGED <<mine, wire, lost, binding>>
        /\ pc[t] = "probe"
        /\ \/ lost[mine[t]] = "no" /\ pc' = [pc EXCEPT ![t] = "probed"]
           \/ pc' = [pc EXCEPT ![t] = "unusable"]
    BY <1>3 DEF Probe, AnswersProbe, sessionVars
  <2>2. \A u \in Transactions : u # t => pc'[u] = pc[u]
    BY <2>1, Facts
  <2>3. ProvenIsAlive'
    BY <2>1, <2>2, Facts DEF Usability, ProvenIsAlive, Proven, Holding
  <2>4. GovernedIsBound'
    BY <2>1, <2>2, Facts DEF Usability, GovernedIsBound, Governed
  <2>5. UnopenedIsAlive'
    BY <2>1 DEF Usability, UnopenedIsAlive
  <2> QED
    BY <2>3, <2>4, <2>5 DEF Usability
<1>4. ASSUME NEW t \in Transactions, OpenSession(t) PROVE Usability'
  <2>1. UNCHANGED lost /\ pc[t] = "open"
    BY <1>4 DEF OpenSession
  <2>2. CASE UNCHANGED <<wire, binding, mine>> /\ pc' = [pc EXCEPT ![t] = "out"]
    <3>1. \A u \in Transactions : pc'[u] \in Proven \cup Governed => pc'[u] = pc[u]
      BY <2>2, Facts DEF Proven, Governed, Holding
    <3> QED
      BY <2>1, <2>2, <3>1, UsabilityFrame
  <2>3. CASE \E s \in Sessions : /\ wire[s] = "none"
                                 /\ wire' = [wire EXCEPT ![s] = "open"]
                                 /\ binding' = [binding EXCEPT ![s] = t]
                                 /\ mine' = [mine EXCEPT ![t] = s]
                                 /\ pc' = [pc EXCEPT ![t] = "opened"]
    <3>1. PICK s \in Sessions : /\ wire[s] = "none"
                                /\ wire' = [wire EXCEPT ![s] = "open"]
                                /\ binding' = [binding EXCEPT ![s] = t]
                                /\ mine' = [mine EXCEPT ![t] = s]
                                /\ pc' = [pc EXCEPT ![t] = "opened"]
      BY <2>3
    <3>2. /\ wire'[s] = "open" /\ binding'[s] = t /\ mine'[t] = s
          /\ \A r \in Sessions : r # s => wire'[r] = wire[r] /\ binding'[r] = binding[r]
          /\ \A u \in Transactions : u # t => pc'[u] = pc[u] /\ mine'[u] = mine[u]
      BY <3>1, Facts
    <3>3. lost[s] = "no"
      BY <3>1 DEF Usability, UnopenedIsAlive
    <3>4. \A u \in Transactions : pc[u] \in Proven \cup Governed =>
             mine[u] \in Sessions /\ mine[u] # s
      BY <3>1, Facts DEF Proven, Governed, Holding
    <3> QED
      BY <2>1, <3>2, <3>3, <3>4, UsabilityOfOne
  <2> QED
    BY <1>4, <2>2, <2>3 DEF OpenSession
<1>5. ASSUME NEW c \in Threads, CloseQuietly(c) PROVE Usability'
  <2>1. PICK s \in doomed[c] : /\ wire' = [wire EXCEPT ![s] = "closed"]
                               /\ lost' = [lost EXCEPT ![s] = "no"]
                               /\ binding' = [binding EXCEPT ![s] = NoCaller]
    BY <1>5 DEF CloseQuietly
  <2>2. UNCHANGED <<pc, mine>>
    BY <1>5 DEF CloseQuietly
  <2>3. s \in Sessions /\ lost'[s] = "no"
    BY <2>1, Facts
  <2>4. \A r \in Sessions : r # s =>
           wire'[r] = wire[r] /\ lost'[r] = lost[r] /\ binding'[r] = binding[r]
    BY <2>1, Facts
  <2>5. \A t \in Transactions :
           pc[t] \in Proven \cup Governed => mine[t] \in Sessions /\ mine[t] # s
    BY <2>1, Facts DEF Proven, Governed, Holding
  <2> QED
    BY <2>2, <2>3, <2>4, <2>5, UsabilityOfOne
<1>6. ASSUME NEW s \in Sessions, SessionLost(s) PROVE Usability'
  <2>1. /\ UNCHANGED <<pc, mine, wire, binding>>
        /\ wire[s] = "open"
        /\ lost' = [lost EXCEPT ![s] = IF Waiting(s) THEN "idle" ELSE "held"]
    BY <1>6 DEF SessionLost, threadVars
  <2>2. ASSUME NEW t \in Transactions, pc[t] \in Proven, mine[t] = s PROVE ~Waiting(s)
    <3>1. pc[t] # "bind" /\ s \notin ToSet(idle)
      BY <2>2, Facts DEF Proven, Holding
    <3>2. \A u \in Transactions : mine[u] = s => u = t
      BY <2>2, Facts
    <3> QED
      BY <3>1, <3>2 DEF Waiting
  <2>3. /\ \A t \in Transactions : pc[t] \in Proven => mine[t] \in Sessions
        /\ \A r \in Sessions : r # s => lost'[r] = lost[r]
        /\ ~Waiting(s) => lost'[s] = "held"
    <3>1. \A t \in Transactions : pc[t] \in Proven => mine[t] \in Sessions
      BY Facts DEF Proven, Holding
    <3>2. lost \in [Sessions -> {"no", "idle", "held"}]
      BY Facts
    <3> QED
      BY <2>1, <3>1, <3>2
  <2>4. ProvenIsAlive'
    BY <2>1, <2>2, <2>3 DEF Usability, ProvenIsAlive
  <2>5. GovernedIsBound'
    BY <2>1 DEF Usability, GovernedIsBound
  <2>6. UnopenedIsAlive'
    BY <2>1, <2>3 DEF Usability, UnopenedIsAlive
  <2> QED
    BY <2>4, <2>5, <2>6 DEF Usability
<1>7. CASE \/ \E s \in Sessions : ScanAdvances(s)
           \/ PoolCloses \/ IdleTimePasses \/ UNCHANGED vars
  <2>1. UNCHANGED <<pc, mine, wire, lost, binding>>
    BY <1>7 DEF ScanAdvances, PoolCloses, IdleTimePasses, vars, threadVars, sessionVars
  <2> QED
    BY <2>1, UsabilityFrame
<1> QED
  BY <1>1, <1>2, <1>3, <1>4, <1>5, <1>6, <1>7 DEF Next, AcquireStep, ReturnStep, CallerStep

(* No transaction is given a session that died in the pool or that another *)
(* caller's deadline governs (transaction_session_pool.cpp lines 76-111).  *)
THEOREM LeasesAreUsable == Spec => []LeaseIsUsable
<1>1. Usability => LeaseIsUsable
  BY DEF Usability, ProvenIsAlive, GovernedIsBound, Proven, Governed, LeaseIsUsable
<1> QED
  BY <1>1, TypeOKInit, TypeOKStep, CustodyInit, CustodyStep, UsabilityInit, UsabilityStep,
     PTL DEF Spec

-----------------------------------------------------------------------------
(* NothingLeaks with what Close leaves: an empty list that stays empty.    *)
ClosedIsEmpty ==
    /\ ~closed => doomed[Catalog] = {}
    /\ closed => ToSet(idle) = {}

Accounted == NothingLeaks /\ ClosedIsEmpty

(* In somebody's hand, so not leaked.                                      *)
InHand(s) ==
    \/ s \in ToSet(idle) /\ ~closed
    \/ \E t \in Transactions : mine[t] = s
    \/ \E c \in Threads : s \in doomed[c]

LEMMA AccountedInit == Init => Accounted
BY EmptyList DEF Init, Accounted, NothingLeaks, ClosedIsEmpty, Threads

(* A step of a thread that moves sessions between the list, its hand and   *)
(* the sessions it has to close, and opens or closes none.                 *)
LEMMA AccountedMove ==
    ASSUME TypeOK, Custody, Accounted, wire' = wire, closed' = closed,
           NEW t \in Transactions, doomed[t] = {},
           \A u \in Transactions : u # t => mine'[u] = mine[u],
           \A c \in Threads : c # t => doomed'[c] = doomed[c],
           \A s \in Sessions : s \in ToSet(idle) \/ s = mine[t] =>
              s \in ToSet(idle') \/ mine'[t] = s \/ s \in doomed'[t],
           closed => ToSet(idle') = {}
    PROVE  Accounted'
<1>1. Catalog \notin Transactions
  BY PoolAssumption DEF PoolAssumption
<1>2. ClosedIsEmpty'
  BY <1>1, Facts DEF Accounted, ClosedIsEmpty
<1>3. ASSUME NEW s \in Sessions, wire[s] = "open" PROVE InHand(s)'
  <2>1. InHand(s)
    BY <1>3 DEF Accounted, NothingLeaks, InHand
  <2>2. CASE (s \in ToSet(idle) /\ ~closed) \/ mine[t] = s
    BY <1>3, <2>2, Facts DEF InHand, Accounted, ClosedIsEmpty
  <2>3. CASE \E u \in Transactions : u # t /\ mine[u] = s
    BY <2>3 DEF InHand
  <2>4. CASE \E c \in Threads : s \in doomed[c]
    BY <2>4 DEF InHand
  <2> QED
    BY <2>1, <2>2, <2>3, <2>4 DEF InHand
<1>4. NothingLeaks'
  BY <1>3 DEF NothingLeaks, InHand
<1> QED
  BY <1>2, <1>4 DEF Accounted

LEMMA AccountedStep == TypeOK /\ Custody /\ Accounted /\ [Next]_vars => Accounted'
<1> SUFFICES ASSUME TypeOK, Custody, Accounted, [Next]_vars
             PROVE  Accounted'
  OBVIOUS
<1> USE DEF At, Goto
<1>1. ASSUME UNCHANGED <<idle, closed, mine, doomed, wire>> PROVE Accounted'
  BY <1>1 DEF Accounted, NothingLeaks, ClosedIsEmpty
<1>2. ASSUME NEW t \in Transactions,
             \/ AcquireLooks(t) \/ AcquireRejects(t) \/ ReleaseKeeps(t) \/ ReleaseCloses(t)
             \/ Discard(t)
      PROVE  Accounted'
  <2>1. /\ wire' = wire /\ closed' = closed /\ doomed[t] = {}
        /\ \A u \in Transactions : u # t => mine'[u] = mine[u]
        /\ \A c \in Threads : c # t => doomed'[c] = doomed[c]
    BY <1>2, Facts DEF AcquireLooks, AcquireRejects, ReleaseKeeps, ReleaseCloses, Discard,
                       sessionVars
  <2>2. CASE AcquireLooks(t) /\ Live # <<>>
    <3>1. /\ ToSet(Live) = ToSet(idle') \cup {Last(Live)}
          /\ mine' = [mine EXCEPT ![t] = Last(Live)]
          /\ doomed' = [doomed EXCEPT ![t] = Expired]
          /\ mine[t] = NoSession
      BY <2>2, Facts, TakeLast DEF AcquireLooks
    <3>2. \A s \in Sessions : s \in ToSet(idle) \/ s = mine[t] =>
             s \in ToSet(idle') \/ mine'[t] = s \/ s \in doomed'[t]
      BY <3>1, Facts
    <3>3. closed => ToSet(idle') = {}
      BY <3>1, Facts DEF Accounted, ClosedIsEmpty
    <3> QED
      BY <2>1, <3>2, <3>3, AccountedMove
  <2>3. CASE AcquireLooks(t) /\ Live = <<>>
    <3>1. /\ ToSet(Live) = {} /\ ToSet(idle') = {}
          /\ doomed' = [doomed EXCEPT ![t] = Expired]
          /\ mine[t] = NoSession
      BY <2>3, Facts, EmptyList DEF AcquireLooks
    <3>2. \A s \in Sessions : s \in ToSet(idle) \/ s = mine[t] =>
             s \in ToSet(idle') \/ mine'[t] = s \/ s \in doomed'[t]
      BY <3>1, Facts
    <3> QED
      BY <2>1, <3>1, <3>2, AccountedMove
  <2>4. CASE AcquireRejects(t) \/ Discard(t)
    <3>1. idle' = idle /\ doomed' = [doomed EXCEPT ![t] = {mine[t]}]
      BY <2>4 DEF AcquireRejects, Discard
    <3>2. \A s \in Sessions : s \in ToSet(idle) \/ s = mine[t] =>
             s \in ToSet(idle') \/ mine'[t] = s \/ s \in doomed'[t]
      BY <3>1, Facts
    <3>3. closed => ToSet(idle') = {}
      BY <3>1 DEF Accounted, ClosedIsEmpty
    <3> QED
      BY <2>1, <3>2, <3>3, AccountedMove
  <2>5. CASE ReleaseKeeps(t)
    <3>1. /\ ~closed
          /\ mine[t] \in Sessions /\ idle' = Append(Live, mine[t])
          /\ doomed' = [doomed EXCEPT ![t] = Expired]
      BY <2>5, Facts DEF ReleaseKeeps, HasRoom
    <3>2. ToSet(idle') = ToSet(Live) \cup {mine[t]}
      BY <3>1, Facts, ReturnLast
    <3>3. \A s \in Sessions : s \in ToSet(idle) \/ s = mine[t] =>
             s \in ToSet(idle') \/ mine'[t] = s \/ s \in doomed'[t]
      BY <3>1, <3>2, Facts
    <3> QED
      BY <2>1, <3>1, <3>3, AccountedMove
  <2>6. CASE ReleaseCloses(t)
    <3>1. idle' = Live /\ doomed' = [doomed EXCEPT ![t] = Expired \cup {mine[t]}]
      BY <2>6 DEF ReleaseCloses
    <3>2. \A s \in Sessions : s \in ToSet(idle) \/ s = mine[t] =>
             s \in ToSet(idle') \/ mine'[t] = s \/ s \in doomed'[t]
      BY <3>1, Facts
    <3>3. closed => ToSet(idle') = {}
      BY <3>1, Facts DEF Accounted, ClosedIsEmpty
    <3> QED
      BY <2>1, <3>2, <3>3, AccountedMove
  <2> QED
    BY <1>2, <2>2, <2>3, <2>4, <2>5, <2>6
<1>3. ASSUME NEW t \in Transactions, OpenSession(t) PROVE Accounted'
  <2>1. UNCHANGED <<idle, closed, doomed>> /\ mine[t] = NoSession /\ NoSession \notin Sessions
    BY <1>3, Facts DEF OpenSession, poolVars
  <2>2. CASE UNCHANGED <<wire, mine>>
    BY <1>1, <2>1, <2>2
  <2>3. CASE \E s \in Sessions : /\ wire' = [wire EXCEPT ![s] = "open"]
                                 /\ mine' = [mine EXCEPT ![t] = s]
    <3>1. PICK s \in Sessions : /\ wire' = [wire EXCEPT ![s] = "open"]
                                /\ mine' = [mine EXCEPT ![t] = s]
      BY <2>3
    <3>2. /\ mine'[t] = s
          /\ \A u \in Transactions : u # t => mine'[u] = mine[u]
          /\ \A r \in Sessions : r # s => wire'[r] = wire[r]
      BY <3>1, Facts
    <3>3. NothingLeaks'
      BY <2>1, <3>2 DEF Accounted, NothingLeaks
    <3>4. ClosedIsEmpty'
      BY <2>1 DEF Accounted, ClosedIsEmpty
    <3> QED
      BY <3>3, <3>4 DEF Accounted
  <2> QED
    BY <1>3, <2>2, <2>3 DEF OpenSession
<1>4. ASSUME NEW c \in Threads, CloseQuietly(c) PROVE Accounted'
  <2>1. PICK s \in doomed[c] : /\ doomed' = [doomed EXCEPT ![c] = @ \ {s}]
                               /\ wire' = [wire EXCEPT ![s] = "closed"]
    BY <1>4 DEF CloseQuietly
  <2>2. UNCHANGED <<idle, closed, mine>>
    BY <1>4 DEF CloseQuietly, poolVars
  <2>3. /\ wire'[s] = "closed"
        /\ \A r \in Sessions : r # s => wire'[r] = wire[r]
        /\ \A d \in Threads : doomed'[d] \subseteq doomed[d]
        /\ \A d \in Threads, r \in Sessions : r # s /\ r \in doomed[d] => r \in doomed'[d]
        /\ Catalog \in Threads
    BY <2>1, Facts
  <2>4. NothingLeaks'
    BY <2>2, <2>3 DEF Accounted, NothingLeaks
  <2>5. ClosedIsEmpty'
    BY <2>2, <2>3 DEF Accounted, ClosedIsEmpty
  <2> QED
    BY <2>4, <2>5 DEF Accounted
<1>5. CASE PoolCloses
  <2>1. /\ ~closed /\ closed' = TRUE
        /\ ToSet(idle') = {}
        /\ doomed'[Catalog] = ToSet(idle)
        /\ \A c \in Threads : c # Catalog => doomed'[c] = doomed[c]
        /\ doomed[Catalog] = {} /\ Catalog \in Threads
        /\ UNCHANGED <<mine, wire>>
    BY <1>5, EmptyList, Facts DEF PoolCloses, sessionVars, Accounted, ClosedIsEmpty
  <2>2. NothingLeaks'
    BY <2>1 DEF Accounted, NothingLeaks
  <2>3. ClosedIsEmpty'
    BY <2>1 DEF ClosedIsEmpty
  <2> QED
    BY <2>2, <2>3 DEF Accounted
<1>6. ASSUME NEW t \in Transactions,
             \/ AcquireBegins(t) \/ BindCandidate(t) \/ Probe(t) \/ AcquireReuses(t)
             \/ AcquireOpens(t) \/ Statement(t) \/ EndAcknowledged(t) \/ EndUnconfirmed(t)
             \/ ReleaseChecks(t)
      PROVE  Accounted'
  BY <1>1, <1>6 DEF AcquireBegins, BindCandidate, Probe, AcquireReuses, AcquireOpens, Statement,
                    EndAcknowledged, EndUnconfirmed, ReleaseChecks, poolVars, threadVars,
                    sessionVars
<1>7. CASE \/ \E s \in Sessions : ScanAdvances(s) \/ SessionLost(s)
           \/ IdleTimePasses \/ UNCHANGED vars
  BY <1>1, <1>7 DEF ScanAdvances, SessionLost, IdleTimePasses, vars, poolVars, threadVars,
                    sessionVars
<1> QED
  BY <1>2, <1>3, <1>4, <1>5, <1>6, <1>7 DEF Next, AcquireStep, ReturnStep, CallerStep

(* Every open session of the server is in somebody's hand, and none waits  *)
(* in a pool that was closed, even if Release ran while Close did          *)
(* (transaction_session_pool.cpp lines 114-181).                           *)
THEOREM NoSessionLeaks == Spec => []NothingLeaks
<1>1. Accounted => NothingLeaks
  BY DEF Accounted
<1> QED
  BY <1>1, TypeOKInit, TypeOKStep, CustodyInit, CustodyStep, AccountedInit, AccountedStep,
     PTL DEF Spec

-----------------------------------------------------------------------------
(* CountersBalance, with what makes counting possible: no more threads are *)
(* at work on a session than there are steps that sent them there.         *)
Balance ==
    /\ IsFiniteSet(ThreadsAt(Holding)) /\ IsFiniteSet(ThreadsAt(Candidate))
    /\ counters["leased"] = Cardinality(ThreadsAt(Holding))
    /\ counters["opened"] = counters["closed"] + counters["leased"] + Len(idle)
                              + Cardinality(ThreadsAt(Candidate))

(* What a thread that goes somewhere changes in how many are at L.         *)
Change(t, place, L) == (IF place \in L THEN 1 ELSE 0) - (IF pc[t] \in L THEN 1 ELSE 0)

(* One thread goes somewhere: how many are at some places then.            *)
LEMMA OneGoes ==
    ASSUME NEW t \in Transactions, NEW place, NEW L,
           pc \in [Transactions -> Locations], pc' = [pc EXCEPT ![t] = place],
           IsFiniteSet(ThreadsAt(L))
    PROVE  /\ IsFiniteSet(ThreadsAt(L)')
           /\ Cardinality(ThreadsAt(L)) \in Nat
           /\ Change(t, place, L) \in Int
           /\ Cardinality(ThreadsAt(L)') = Cardinality(ThreadsAt(L)) + Change(t, place, L)
<1>1. Cardinality(ThreadsAt(L)) \in Nat
  BY FS_CardinalityType
<1>2. CASE place \in L <=> pc[t] \in L
  <2>1. ThreadsAt(L)' = ThreadsAt(L)
    BY <1>2 DEF ThreadsAt
  <2> QED
    BY <1>1, <1>2, <2>1 DEF Change
<1>3. CASE place \in L /\ pc[t] \notin L
  <2>1. ThreadsAt(L)' = ThreadsAt(L) \cup {t} /\ t \notin ThreadsAt(L)
    BY <1>3 DEF ThreadsAt
  <2>2. /\ IsFiniteSet(ThreadsAt(L) \cup {t})
        /\ Cardinality(ThreadsAt(L) \cup {t}) = Cardinality(ThreadsAt(L)) + 1
    BY <2>1, FS_AddElement
  <2> QED
    BY <1>1, <1>3, <2>1, <2>2 DEF Change
<1>4. CASE place \notin L /\ pc[t] \in L
  <2>1. ThreadsAt(L)' = ThreadsAt(L) \ {t} /\ t \in ThreadsAt(L)
    BY <1>4 DEF ThreadsAt
  <2>2. /\ IsFiniteSet(ThreadsAt(L) \ {t})
        /\ Cardinality(ThreadsAt(L) \ {t}) = Cardinality(ThreadsAt(L)) - 1
    BY <2>1, FS_RemoveElement
  <2> QED
    BY <1>1, <1>4, <2>1, <2>2 DEF Change
<1> QED
  BY <1>2, <1>3, <1>4

LEMMA BalanceInit == Init => Balance
<1> SUFFICES ASSUME Init PROVE Balance
  OBVIOUS
<1>1. ThreadsAt(Holding) = {} /\ ThreadsAt(Candidate) = {}
  BY DEF Init, ThreadsAt, Holding, Candidate
<1>2. IsFiniteSet({}) /\ Cardinality({}) = 0
  BY FS_EmptySet
<1>3. \A name \in CounterNames : counters[name] = 0
  BY DEF Init
<1>4. Len(idle) = 0
  BY EmptyList DEF Init
<1> QED
  BY <1>1, <1>2, <1>3, <1>4 DEF Balance, CounterNames

LEMMA BalanceStep == TypeOK /\ Balance /\ [Next]_vars => Balance'
<1> SUFFICES ASSUME TypeOK, Balance, [Next]_vars
             PROVE  Balance'
  OBVIOUS
<1> USE DEF At, Goto
<1> DEFINE leased == counters["leased"]     leasedNext == counters'["leased"]
           opened == counters["opened"]     openedNext == counters'["opened"]
           retired == counters["closed"]    retiredNext == counters'["closed"]
           here == Len(idle)                hereNext == Len(idle')
           probing == Cardinality(ThreadsAt(Candidate))
           probingNext == Cardinality(ThreadsAt(Candidate)')
           Fits(t, place) ==
              /\ leasedNext = leased + Change(t, place, Holding)
              /\ openedNext + retired + leased + here =
                   opened + retiredNext + leasedNext + hereNext + Change(t, place, Candidate)
              /\ retiredNext \in Nat /\ leasedNext \in Nat /\ openedNext \in Nat /\ hereNext \in Nat
<1>1. /\ pc \in [Transactions -> Locations] /\ counters \in [CounterNames -> Nat]
      /\ idle \in Seq(Sessions) /\ aged \in 0 .. Len(idle)
  BY DEF TypeOK, PoolTypeOK, ThreadTypeOK
<1>2. /\ leased \in Nat /\ opened \in Nat /\ retired \in Nat
      /\ here \in Nat /\ aged \in Nat /\ here - aged \in Nat
  <2>1. Len(idle) \in Nat
    BY <1>1, LenProperties
  <2> QED
    BY <1>1, <2>1 DEF CounterNames
<1>3. Live \in Seq(Sessions) /\ Len(Live) = here - aged
  BY <1>1, TakeExpiredSplits
<1>4. /\ probing \in Nat /\ leased = Cardinality(ThreadsAt(Holding))
      /\ opened = retired + leased + here + probing
  BY FS_CardinalityType DEF Balance
<1>5. ASSUME UNCHANGED <<pc, counters>>, Len(idle') = Len(idle) PROVE Balance'
  <2>1. ThreadsAt(Holding)' = ThreadsAt(Holding) /\ ThreadsAt(Candidate)' = ThreadsAt(Candidate)
    BY <1>5 DEF ThreadsAt
  <2> QED
    BY <1>5, <2>1 DEF Balance
<1>6. ASSUME leasedNext = Cardinality(ThreadsAt(Holding)'), IsFiniteSet(ThreadsAt(Holding)'),
             IsFiniteSet(ThreadsAt(Candidate)'),
             openedNext = retiredNext + leasedNext + hereNext + probingNext
      PROVE  Balance'
  BY <1>6 DEF Balance
<1>7. ASSUME UNCHANGED counters
      PROVE  openedNext = opened /\ retiredNext = retired /\ leasedNext = leased
  BY <1>7
<1> HIDE DEF leased, leasedNext, opened, openedNext, retired, retiredNext, here, hereNext, probing,
             probingNext, Fits
(* A thread goes from one place to another, and the counters with it.      *)
<1>8. ASSUME NEW t \in Transactions, NEW place, pc' = [pc EXCEPT ![t] = place], Fits(t, place)
      PROVE  Balance'
  <2>0. IsFiniteSet(ThreadsAt(Holding)) /\ IsFiniteSet(ThreadsAt(Candidate))
    BY DEF Balance
  <2>1. /\ IsFiniteSet(ThreadsAt(Holding)')
        /\ Cardinality(ThreadsAt(Holding)') =
              Cardinality(ThreadsAt(Holding)) + Change(t, place, Holding)
    BY <1>1, <1>8, <2>0, OneGoes
  <2>2. /\ IsFiniteSet(ThreadsAt(Candidate)')
        /\ Change(t, place, Candidate) \in Int
        /\ probingNext = probing + Change(t, place, Candidate)
    BY <1>1, <1>8, <2>0, OneGoes DEF probing, probingNext
  <2>3. openedNext = retiredNext + leasedNext + hereNext + probingNext
    BY <1>4, <1>2, <1>8, <2>2 DEF Fits
  <2>4. leasedNext = Cardinality(ThreadsAt(Holding)')
    BY <1>4, <1>8, <2>1 DEF Fits
  <2> QED
    BY <1>6, <2>1, <2>2, <2>3, <2>4
<1>9. ASSUME NEW t \in Transactions, AcquireStep(t) \/ ReturnStep(t) \/ CallerStep(t) PROVE Balance'
  <2>1. CASE \/ AcquireBegins(t) \/ BindCandidate(t) \/ Probe(t) \/ OpenSession(t)
             \/ ReleaseChecks(t) \/ EndAcknowledged(t) \/ EndUnconfirmed(t)
    <3>1. PICK place : /\ pc' = [pc EXCEPT ![t] = place]
                       /\ Change(t, place, Holding) = 0 /\ Change(t, place, Candidate) = 0
      BY <2>1 DEF AcquireBegins, BindCandidate, Probe, OpenSession, ReleaseChecks, EndAcknowledged,
                  EndUnconfirmed, Change, Holding, Candidate
    <3>2. UNCHANGED counters /\ hereNext = here
      BY <2>1 DEF AcquireBegins, BindCandidate, Probe, OpenSession, ReleaseChecks, EndAcknowledged,
                  EndUnconfirmed, poolVars, here, hereNext
    <3>3. openedNext = opened /\ retiredNext = retired /\ leasedNext = leased
      BY <1>7, <3>2
    <3>4. Fits(t, place)
      BY <1>2, <3>1, <3>2, <3>3 DEF Fits
    <3> QED
      BY <1>8, <3>1, <3>4
  <2>2. CASE AcquireLooks(t)
    <3>1. /\ retiredNext \in Nat /\ leasedNext \in Nat /\ openedNext \in Nat
          /\ retiredNext = retired + aged
          /\ openedNext = opened /\ leasedNext = leased
      BY <1>1, <1>2, <2>2 DEF AcquireLooks, CounterNames,
         leased, leasedNext, opened, openedNext, retired, retiredNext
    <3>2. CASE Live # <<>> /\ idle' = Front(Live) /\ pc' = [pc EXCEPT ![t] = "bind"]
      <4>1. hereNext = here - aged - 1 /\ hereNext \in Nat
        <5>1. hereNext = Len(Live) - 1 /\ idle' \in Seq(Sessions)
          BY <1>3, <3>2, TakeLast DEF hereNext
        <5>2. hereNext \in Nat
          BY <5>1, LenProperties DEF hereNext
        <5> QED
          BY <1>2, <1>3, <5>1, <5>2
      <4>2. Change(t, "bind", Holding) = 0 /\ Change(t, "bind", Candidate) = 1
        BY <2>2 DEF AcquireLooks, Change, Holding, Candidate
      <4>3. Fits(t, "bind")
        BY <1>2, <3>1, <3>2, <4>1, <4>2 DEF Fits
      <4> QED
        BY <1>8, <3>2, <4>3
    <3>3. CASE Live = <<>> /\ idle' = <<>> /\ pc' = [pc EXCEPT ![t] = "open"]
      <4>1. hereNext = here - aged
        BY <1>3, <3>3 DEF hereNext
      <4>2. Change(t, "open", Holding) = 0 /\ Change(t, "open", Candidate) = 0
        BY <2>2 DEF AcquireLooks, Change, Holding, Candidate
      <4>3. Fits(t, "open")
        BY <1>2, <3>1, <3>3, <4>1, <4>2 DEF Fits
      <4> QED
        BY <1>8, <3>3, <4>3
    <3> QED
      BY <2>2, <3>2, <3>3 DEF AcquireLooks
  <2>3. CASE AcquireReuses(t)
    <3>1. /\ pc' = [pc EXCEPT ![t] = "leased"] /\ hereNext = here
          /\ Change(t, "leased", Holding) = 1 /\ Change(t, "leased", Candidate) = -1
      BY <2>3 DEF AcquireReuses, here, hereNext, Change, Holding, Candidate
    <3>2. /\ retiredNext \in Nat /\ leasedNext \in Nat /\ openedNext \in Nat
          /\ leasedNext = leased + 1
          /\ retiredNext = retired /\ openedNext = opened
      BY <1>1, <1>2, <2>3 DEF AcquireReuses, CounterNames,
         leased, leasedNext, opened, openedNext, retired, retiredNext
    <3>3. Fits(t, "leased")
      BY <1>2, <3>1, <3>2 DEF Fits
    <3> QED
      BY <1>8, <3>1, <3>3
  <2>4. CASE AcquireRejects(t)
    <3>1. /\ pc' = [pc EXCEPT ![t] = "look"] /\ hereNext = here
          /\ Change(t, "look", Holding) = 0 /\ Change(t, "look", Candidate) = -1
      BY <2>4 DEF AcquireRejects, here, hereNext, Change, Holding, Candidate
    <3>2. /\ retiredNext \in Nat /\ leasedNext \in Nat /\ openedNext \in Nat
          /\ leasedNext = leased
          /\ retiredNext = retired + 1 /\ openedNext = opened
      BY <1>1, <1>2, <2>4 DEF AcquireRejects, CounterNames,
         leased, leasedNext, opened, openedNext, retired, retiredNext
    <3>3. Fits(t, "look")
      BY <1>2, <3>1, <3>2 DEF Fits
    <3> QED
      BY <1>8, <3>1, <3>3
  <2>5. CASE AcquireOpens(t)
    <3>1. /\ pc' = [pc EXCEPT ![t] = "leased"] /\ hereNext = here
          /\ Change(t, "leased", Holding) = 1 /\ Change(t, "leased", Candidate) = 0
      BY <2>5 DEF AcquireOpens, here, hereNext, Change, Holding, Candidate
    <3>2. /\ retiredNext \in Nat /\ leasedNext \in Nat /\ openedNext \in Nat
          /\ leasedNext = leased + 1
          /\ retiredNext = retired /\ openedNext = opened + 1
      BY <1>1, <1>2, <2>5 DEF AcquireOpens, CounterNames,
         leased, leasedNext, opened, openedNext, retired, retiredNext
    <3>3. Fits(t, "leased")
      BY <1>2, <3>1, <3>2 DEF Fits
    <3> QED
      BY <1>8, <3>1, <3>3
  (* Who returns a session is one of those counted: the decrement is one.  *)
  <2>6. ASSUME pc[t] \in Holding
        PROVE  Decrement(counters["leased"]) = leased - 1 /\ leased - 1 \in Nat
    <3>1. t \in ThreadsAt(Holding)
      BY <2>6 DEF ThreadsAt
    <3>2. IsFiniteSet(ThreadsAt(Holding)) /\ leased = Cardinality(ThreadsAt(Holding))
      BY <1>4 DEF Balance
    <3>3. Cardinality(ThreadsAt(Holding)) # 0
      BY <3>1, <3>2, FS_EmptySet
    <3>4. counters["leased"] = leased
      BY DEF leased
    <3> QED
      BY <1>2, <3>2, <3>3, <3>4 DEF Decrement
  <2>7. CASE ReleaseKeeps(t)
    <3>1. /\ pc' = [pc EXCEPT ![t] = "out"] /\ pc[t] \in Holding
          /\ Change(t, "out", Holding) = -1 /\ Change(t, "out", Candidate) = 0
      BY <2>7 DEF ReleaseKeeps, Change, Holding, Candidate
    <3>2. hereNext = here - aged + 1 /\ hereNext \in Nat
      <4>1. idle' = Append(Live, mine[t]) /\ mine[t] \in Sessions
        BY <2>7 DEF ReleaseKeeps, TypeOK, ThreadTypeOK
      <4>2. hereNext = Len(Live) + 1
        BY <1>3, <4>1, ReturnLast DEF hereNext
      <4> QED
        BY <1>2, <1>3, <4>2
    <3>3. /\ retiredNext \in Nat /\ leasedNext \in Nat /\ openedNext \in Nat
          /\ leasedNext = leased - 1
          /\ retiredNext = retired + aged /\ openedNext = opened
      BY <1>1, <1>2, <2>6, <2>7, <3>1 DEF ReleaseKeeps, CounterNames,
         leased, leasedNext, opened, openedNext, retired, retiredNext
    <3>4. Fits(t, "out")
      BY <1>2, <3>1, <3>2, <3>3 DEF Fits
    <3> QED
      BY <1>8, <3>1, <3>4
  <2>8. CASE ReleaseCloses(t)
    <3>1. /\ pc' = [pc EXCEPT ![t] = "out"] /\ pc[t] \in Holding
          /\ Change(t, "out", Holding) = -1 /\ Change(t, "out", Candidate) = 0
      BY <2>8 DEF ReleaseCloses, Change, Holding, Candidate
    <3>2. hereNext = here - aged
      BY <1>3, <2>8 DEF ReleaseCloses, hereNext
    <3>3. /\ retiredNext \in Nat /\ leasedNext \in Nat /\ openedNext \in Nat
          /\ leasedNext = leased - 1
          /\ retiredNext = retired + aged + 1
          /\ openedNext = opened
      BY <1>1, <1>2, <2>6, <2>8, <3>1 DEF ReleaseCloses, CounterNames,
         leased, leasedNext, opened, openedNext, retired, retiredNext
    <3>4. Fits(t, "out")
      BY <1>2, <3>1, <3>2, <3>3 DEF Fits
    <3> QED
      BY <1>8, <3>1, <3>4
  <2>9. CASE Discard(t)
    <3>1. /\ pc' = [pc EXCEPT ![t] = "out"] /\ pc[t] \in Holding /\ hereNext = here
          /\ Change(t, "out", Holding) = -1 /\ Change(t, "out", Candidate) = 0
      BY <2>9 DEF Discard, here, hereNext, Change, Holding, Candidate
    <3>2. /\ retiredNext \in Nat /\ leasedNext \in Nat /\ openedNext \in Nat
          /\ leasedNext = leased - 1
          /\ retiredNext = retired + 1 /\ openedNext = opened
      BY <1>1, <1>2, <2>6, <2>9, <3>1 DEF Discard, CounterNames,
         leased, leasedNext, opened, openedNext, retired, retiredNext
    <3>3. Fits(t, "out")
      BY <1>2, <3>1, <3>2 DEF Fits
    <3> QED
      BY <1>8, <3>1, <3>3
  <2>10. CASE Statement(t)
    BY <1>5, <2>10 DEF Statement, poolVars, threadVars
  <2> QED
    BY <1>9, <2>1, <2>2, <2>3, <2>4, <2>5, <2>7, <2>8, <2>9, <2>10
       DEF AcquireStep, ReturnStep, CallerStep
<1>10. CASE PoolCloses
  <2>1. hereNext = 0
    BY <1>10, EmptyList DEF PoolCloses, hereNext
  <2>2. retiredNext = retired + here /\ openedNext = opened /\ leasedNext = leased
    BY <1>1, <1>2, <1>10 DEF PoolCloses, CounterNames, here,
       leased, leasedNext, opened, openedNext, retired, retiredNext
  <2>3. ThreadsAt(Holding)' = ThreadsAt(Holding) /\ ThreadsAt(Candidate)' = ThreadsAt(Candidate)
    BY <1>10 DEF PoolCloses, ThreadsAt
  <2>4. /\ IsFiniteSet(ThreadsAt(Holding)') /\ IsFiniteSet(ThreadsAt(Candidate)')
        /\ leasedNext = Cardinality(ThreadsAt(Holding)') /\ probingNext = probing
    BY <1>4, <2>2, <2>3 DEF Balance, probing, probingNext
  <2>5. openedNext = retiredNext + leasedNext + hereNext + probingNext
    BY <1>4, <1>2, <2>1, <2>2, <2>4
  <2> QED
    BY <1>6, <2>4, <2>5
<1>11. ASSUME NEW c \in Threads, CloseQuietly(c) PROVE Balance'
  BY <1>5, <1>11 DEF CloseQuietly, poolVars
<1>12. ASSUME NEW s \in Sessions, ScanAdvances(s) \/ SessionLost(s) PROVE Balance'
  BY <1>5, <1>12 DEF ScanAdvances, SessionLost, poolVars, threadVars
<1>13. CASE IdleTimePasses
  BY <1>5, <1>13 DEF IdleTimePasses, threadVars
<1>14. CASE UNCHANGED vars
  BY <1>5, <1>14 DEF vars
<1> QED
  BY <1>9, <1>10, <1>11, <1>12, <1>13, <1>14 DEF Next

(* The counters an attached catalog reports account for every session ever *)
(* opened, and the saturating decrement of Release and Discard (lines 130  *)
(* and 161) never saturates (transaction_session_pool.cpp lines 59-181).   *)
THEOREM CountersAgree == Spec => []CountersBalance
<1>1. TypeOK /\ Balance => CountersBalance
  BY DEF Balance, CountersBalance
<1> QED
  BY <1>1, TypeOKInit, TypeOKStep, BalanceInit, BalanceStep, PTL DEF Spec

-----------------------------------------------------------------------------
(* TxnSessionPool implements SessionLeasing, for every set of transactions *)
(* and sessions and every maximum_idle: each step of the pool, of its      *)
(* callers and of their servers is one step of a lease or none.            *)
(*                                                                         *)
(* The refinement mapping leaseOf says of a session who has it; LeaseOfAll *)
(* says the same without choosing, so that a step is understood from the   *)
(* idle list, the hands and the program counters it changes.               *)

Held == Holding \cup {"probed", "opened"}

Uncommitted == {s \in Sessions : "work" \in burden[s]}

LeaseOfAll ==
    \A s \in Sessions :
        /\ wire[s] = "none" => leaseOf[s] = "fresh"
        /\ wire[s] # "none" =>
              /\ \A t \in Transactions :
                    mine[t] = s => leaseOf[s] = IF pc[t] \in Held THEN t ELSE "idle"
              /\ s \in ToSet(idle) => leaseOf[s] = "idle"
              /\ s \notin ToSet(idle) /\ (\A t \in Transactions : mine[t] # s) =>
                    leaseOf[s] = "dropped"

LEMMA LeaseMeans == TypeOK /\ Custody => LeaseOfAll
<1> SUFFICES ASSUME TypeOK, Custody, NEW s \in Sessions
             PROVE  /\ wire[s] = "none" => leaseOf[s] = "fresh"
                    /\ wire[s] # "none" =>
                          /\ \A t \in Transactions : mine[t] = s =>
                                leaseOf[s] = IF pc[t] \in Held THEN t ELSE "idle"
                          /\ s \in ToSet(idle) => leaseOf[s] = "idle"
                          /\ s \notin ToSet(idle) /\ (\A t \in Transactions : mine[t] # s) =>
                                leaseOf[s] = "dropped"
  BY DEF LeaseOfAll
<1>1. leaseOf[s] =
         IF wire[s] = "none" THEN "fresh"
         ELSE IF \E t \in Transactions : mine[t] = s /\ pc[t] \in Held
              THEN CHOOSE t \in Transactions : mine[t] = s
         ELSE IF s \in ToSet(idle) \/ \E t \in Transactions : mine[t] = s THEN "idle"
         ELSE "dropped"
  BY DEF leaseOf, Held
<1>2. ASSUME NEW t \in Transactions, mine[t] = s
      PROVE  /\ \A u \in Transactions : mine[u] = s => u = t
             /\ (CHOOSE u \in Transactions : mine[u] = s) = t
             /\ s \notin ToSet(idle)
  <2>1. \A u \in Transactions : mine[u] = s => u = t
    BY <1>2, Facts
  <2>2. s \notin ToSet(idle)
    BY <1>2, Facts
  <2> QED
    BY <1>2, <2>1, <2>2
<1>3. ASSUME wire[s] # "none", NEW t \in Transactions, mine[t] = s
      PROVE  leaseOf[s] = IF pc[t] \in Held THEN t ELSE "idle"
  BY <1>1, <1>2, <1>3
<1>4. s \in ToSet(idle) => \A t \in Transactions : mine[t] # s
  BY Facts
<1> QED
  BY <1>1, <1>3, <1>4

LEMMA LeaseMeansNext == TypeOK' /\ Custody' => LeaseOfAll'
BY LeaseMeans, PTL

(* The lease of a session that stays where it is.                          *)
LEMMA LeaseStays ==
    ASSUME LeaseOfAll, LeaseOfAll', NEW s \in Sessions,
           wire'[s] = "none" <=> wire[s] = "none",
           s \in ToSet(idle') <=> s \in ToSet(idle),
           \A t \in Transactions : mine'[t] = s <=> mine[t] = s,
           \A t \in Transactions : mine[t] = s => (pc'[t] \in Held <=> pc[t] \in Held)
    PROVE  leaseOf'[s] = leaseOf[s]
BY DEF LeaseOfAll

LEMMA LeaseFunction == leaseOf = [s \in Sessions |-> leaseOf[s]]
BY DEF leaseOf

LEMMA LeaseFunctionNext == leaseOf' = [s \in Sessions |-> leaseOf'[s]]
<1>1. (leaseOf = [s \in Sessions |-> leaseOf[s]])'
  BY LeaseFunction, PTL
<1> QED
  BY <1>1

LEMMA NothingHeld ==
    ASSUME TypeOK, Custody, LeaseOfAll, NEW t \in Transactions, pc[t] \notin Held
    PROVE  \A s \in Sessions : leaseOf[s] # t
<1>1. \A s \in Sessions : \A u \in Transactions :
         wire[s] # "none" /\ mine[u] = s => leaseOf[s] # t
  BY NamesAssumption DEF LeaseOfAll
<1> QED
  BY <1>1, NamesAssumption DEF LeaseOfAll

-----------------------------------------------------------------------------
(* The kinds of steps.                                                     *)

LEMMA Stutters ==
    ASSUME LeaseOfAll, LeaseOfAll', UNCHANGED <<idle, mine>>,
           \A s \in Sessions : wire'[s] = "none" <=> wire[s] = "none",
           \A t \in Transactions : mine[t] \in Sessions => (pc'[t] \in Held <=> pc[t] \in Held)
    PROVE  leaseOf' = leaseOf
<1>1. \A s \in Sessions : leaseOf'[s] = leaseOf[s]
  BY LeaseStays
<1> QED
  BY <1>1, LeaseFunction, LeaseFunctionNext

(* A thread t gets session s.                                              *)
LEMMA Leased ==
    ASSUME TypeOK, Custody, LeaseOfAll, LeaseOfAll', NEW t \in Transactions,
           NEW s \in Sessions,
           pc[t] \notin Held, mine[t] \in {s, NoSession}, mine'[t] = s, pc'[t] \in Held,
           wire'[s] # "none", leaseOf[s] \in {"fresh", "idle"},
           \A x \in Sessions : x # s => wire'[x] = wire[x],
           \A u \in Transactions : u # t => mine'[u] = mine[u] /\ pc'[u] = pc[u] /\ mine[u] # s,
           idle' = idle, burden' = burden
    PROVE  Leasing!Lease(t, s)
<1>1. \A x \in Sessions : leaseOf[x] # t
  BY NothingHeld
<1>2. leaseOf'[s] = t
  BY DEF LeaseOfAll
<1>3. \A x \in Sessions : x # s => leaseOf'[x] = leaseOf[x]
  BY LeaseStays, PoolAssumption DEF PoolAssumption
<1>4. leaseOf' = [leaseOf EXCEPT ![s] = t]
  BY <1>2, <1>3, LeaseFunction, LeaseFunctionNext
<1> QED
  BY <1>1, <1>4 DEF Leasing!Lease, Leasing!HoldsNothing

(* The pool forgets the idle sessions in D.                                *)
LEMMA Forgets ==
    ASSUME LeaseOfAll, LeaseOfAll', NEW D \in SUBSET Sessions,
           \A x \in D : leaseOf[x] = "idle" /\ leaseOf'[x] = "dropped",
           \A x \in Sessions \ D : leaseOf'[x] = leaseOf[x],
           burden' = burden
    PROVE  Leasing!Forget
<1>1. D \in SUBSET Leasing!Idle
  BY DEF Leasing!Idle
<1>2. leaseOf' = [s \in Sessions |-> IF s \in D THEN "dropped" ELSE leaseOf[s]]
  BY LeaseFunctionNext
<1> QED
  BY <1>1, <1>2 DEF Leasing!Forget

(* A session moves to p while the pool forgets the idle sessions in D.     *)
LEMMA Moves ==
    ASSUME NEW s \in Sessions, NEW p, NEW D \in SUBSET Sessions,
           leaseOf'[s] = p,
           \A x \in D : leaseOf[x] = "idle" /\ leaseOf'[x] = "dropped",
           \A x \in Sessions \ (D \cup {s}) : leaseOf'[x] = leaseOf[x]
    PROVE  \E E \in SUBSET Leasing!Idle : leaseOf' = Leasing!Move(s, p, E)
<1>1. D \in SUBSET Leasing!Idle
  BY DEF Leasing!Idle
<1>2. leaseOf' = [x \in Sessions |-> IF x = s THEN p
                                     ELSE IF x \in D THEN "dropped" ELSE leaseOf[x]]
  BY LeaseFunctionNext
<1> QED
  BY <1>1, <1>2 DEF Leasing!Move

-----------------------------------------------------------------------------
(* Every step of the pool                                                  *)

LEMMA ImplementsInit == Init => Leasing!Init
<1> SUFFICES ASSUME Init PROVE Leasing!Init
  OBVIOUS
<1>1. leaseOf = [s \in Sessions |-> "fresh"]
  BY DEF Init, leaseOf
<1>2. {s \in Sessions : "work" \in burden[s]} = {}
  BY DEF Init
<1> QED
  BY <1>1, <1>2 DEF Leasing!Init

LEMMA ImplementsStep ==
    ASSUME TypeOK, Custody, Reusability, TypeOK', Custody', [Next]_vars
    PROVE  [Leasing!Next]_(Leasing!vars)
<1> USE DEF At, Goto
<1>a. LeaseOfAll /\ LeaseOfAll'
  BY LeaseMeans, LeaseMeansNext
<1>b. \A t \in Transactions :
         /\ pc[t] \in Held \cup {"bind", "probe", "unusable"} <=> mine[t] \in Sessions
         /\ mine[t] \in Sessions => wire[mine[t]] # "none" /\ mine[t] \notin ToSet(idle)
  <2> SUFFICES ASSUME NEW t \in Transactions
               PROVE  /\ pc[t] \in Held \cup {"bind", "probe", "unusable"}
                            <=> mine[t] \in Sessions
                      /\ mine[t] \in Sessions => wire[mine[t]] # "none"
                                                /\ mine[t] \notin ToSet(idle)
    OBVIOUS
  <2>1. /\ pc[t] \in Locations
        /\ mine[t] \in Sessions <=> pc[t] \notin {"out", "look", "open"}
        /\ mine[t] \notin ToSet(idle)
        /\ mine[t] \in Sessions => wire[mine[t]] # "none"
    BY Facts
  <2> QED
    BY <2>1 DEF Locations, Acquiring, Holding, Held
<1>c. \A s \in ToSet(idle) : s \in Sessions /\ wire[s] # "none" /\ leaseOf[s] = "idle"
  BY <1>a, Facts DEF LeaseOfAll
<1>1. ASSUME leaseOf' = leaseOf, Uncommitted' = Uncommitted
      PROVE  UNCHANGED Leasing!vars
  BY <1>1 DEF Leasing!vars, Uncommitted
<1>2. ASSUME NEW t \in Transactions,
             \/ AcquireBegins(t) \/ BindCandidate(t) \/ AcquireReuses(t) \/ AcquireOpens(t)
             \/ EndUnconfirmed(t) \/ ReleaseChecks(t)
      PROVE  UNCHANGED Leasing!vars
  <2>1. UNCHANGED <<idle, mine, wire, burden>>
    BY <1>2 DEF AcquireBegins, BindCandidate, AcquireReuses, AcquireOpens, EndUnconfirmed,
       ReleaseChecks, poolVars, threadVars, sessionVars
  <2>2. \A u \in Transactions : mine[u] \in Sessions => (pc'[u] \in Held <=> pc[u] \in Held)
    BY <1>2, <1>b, Facts DEF AcquireBegins, BindCandidate, AcquireReuses, AcquireOpens,
       EndUnconfirmed, ReleaseChecks, Held, Holding
  <2>3. leaseOf' = leaseOf
    BY <1>a, <2>1, <2>2, Stutters
  <2> QED
    BY <1>1, <2>1, <2>3 DEF Uncommitted
<1>3. ASSUME NEW t \in Transactions, AcquireLooks(t) PROVE Leasing!Forget
  <2>1. /\ mine[t] = NoSession /\ UNCHANGED <<wire, burden>>
        /\ \A u \in Transactions : u # t => mine'[u] = mine[u] /\ pc'[u] = pc[u]
    BY <1>3, Facts DEF AcquireLooks, sessionVars
  <2>2. Expired \in SUBSET Sessions /\ Expired \cap ToSet(Live) = {}
    BY Facts, TakeExpiredSplits DEF TypeOK, PoolTypeOK, Custody, NoSharing
  <2>3. \/ /\ ToSet(Live) = ToSet(idle') \cup {mine'[t]} /\ mine'[t] \in ToSet(Live)
           /\ pc'[t] = "bind"
        \/ ToSet(Live) = {} /\ ToSet(idle') = {} /\ mine'[t] = NoSession
    <3>1. CASE Live # <<>>
      BY <1>3, <3>1, Facts, TakeLast DEF AcquireLooks
    <3>2. CASE Live = <<>>
      BY <1>3, <3>2, <2>1, Facts, EmptyList DEF AcquireLooks
    <3> QED
      BY <3>1, <3>2
  <2>4. \A s \in Expired : leaseOf[s] = "idle" /\ leaseOf'[s] = "dropped"
    <3>1. \A s \in Expired : /\ s \in ToSet(idle) /\ s \in Sessions /\ s \notin ToSet(idle')
                             /\ \A u \in Transactions : mine'[u] # s
      BY <2>1, <2>2, <2>3, Facts
    <3> QED
      BY <1>a, <1>c, <2>1, <3>1 DEF LeaseOfAll
  <2>5. \A s \in Sessions \ Expired : leaseOf'[s] = leaseOf[s]
    <3> SUFFICES ASSUME NEW s \in Sessions, s \notin Expired PROVE leaseOf'[s] = leaseOf[s]
      OBVIOUS
    <3>1. CASE s \in ToSet(idle)
      <4>1. s \in ToSet(idle') \/ (mine'[t] = s /\ pc'[t] \notin Held)
        BY <2>3, <3>1, Facts DEF Held, Holding
      <4> QED
        BY <1>a, <1>c, <2>1, <3>1, <4>1 DEF LeaseOfAll
    <3>2. CASE s \notin ToSet(idle)
      <4>1. s \notin ToSet(idle') /\ mine'[t] # s /\ mine[t] # s
        BY <2>1, <2>3, <3>2, Facts
      <4> QED
        BY <1>a, <2>1, <3>2, <4>1, LeaseStays
    <3> QED
      BY <3>1, <3>2
  <2> QED
    BY <1>a, <2>1, <2>2, <2>4, <2>5, Forgets
<1>4. ASSUME NEW t \in Transactions, Probe(t)
      PROVE  (\E s \in Sessions : Leasing!Lease(t, s)) \/ UNCHANGED Leasing!vars
  <2>1. /\ pc[t] = "probe" /\ mine[t] \in Sessions /\ wire[mine[t]] # "none"
        /\ UNCHANGED <<idle, mine, wire, burden>>
        /\ \A u \in Transactions : u # t => pc'[u] = pc[u]
        /\ pc'[t] \in {"probed", "unusable"}
    BY <1>4, <1>b, Facts DEF Probe, poolVars, sessionVars
  <2>2. CASE pc'[t] = "probed"
    <3>1. pc[t] \notin Held /\ pc'[t] \in Held
      BY <2>1, <2>2 DEF Held, Holding
    <3>2. leaseOf[mine[t]] = "idle"
      BY <1>a, <2>1, <3>1 DEF LeaseOfAll
    <3>3. \A u \in Transactions : u # t => mine[u] # mine[t]
      BY <2>1, Facts
    <3>4. \A u \in Transactions : u # t => mine'[u] = mine[u] /\ pc'[u] = pc[u]
      BY <2>1
    <3>5. wire'[mine[t]] # "none" /\ mine'[t] = mine[t]
      BY <2>1
    <3>6. Leasing!Lease(t, mine[t])
      BY <1>a, <2>1, <3>1, <3>2, <3>3, <3>4, <3>5, Leased
    <3> QED
      BY <2>1, <3>6
  <2>3. CASE pc'[t] = "unusable"
    <3>1. \A u \in Transactions : pc'[u] \in Held <=> pc[u] \in Held
      BY <2>1, <2>3 DEF Held, Holding
    <3>2. leaseOf' = leaseOf
      BY <1>a, <2>1, <3>1, Stutters
    <3> QED
      BY <1>1, <2>1, <3>2 DEF Uncommitted
  <2> QED
    BY <2>1, <2>2, <2>3
<1>5. ASSUME NEW t \in Transactions, AcquireRejects(t) PROVE Leasing!Forget
  <2>1. /\ mine[t] \in Sessions /\ wire[mine[t]] # "none" /\ mine[t] \notin ToSet(idle)
        /\ pc[t] \notin Held /\ mine'[t] = NoSession
        /\ UNCHANGED <<idle, wire, burden>>
        /\ \A u \in Transactions : u # t => /\ mine'[u] = mine[u] /\ pc'[u] = pc[u]
                                            /\ mine[u] # mine[t]
    BY <1>5, <1>b, Facts DEF AcquireRejects, sessionVars, Held, Holding
  <2>2. leaseOf[mine[t]] = "idle" /\ leaseOf'[mine[t]] = "dropped"
    BY <1>a, <2>1, Facts DEF LeaseOfAll
  <2>3. \A s \in Sessions \ {mine[t]} : leaseOf'[s] = leaseOf[s]
    BY <1>a, <2>1, Facts, LeaseStays
  <2>4. /\ {mine[t]} \in SUBSET Sessions
        /\ \A x \in {mine[t]} : leaseOf[x] = "idle" /\ leaseOf'[x] = "dropped"
    BY <2>1, <2>2
  <2> QED
    BY <1>a, <2>1, <2>3, <2>4, Forgets
<1>6. ASSUME NEW t \in Transactions, OpenSession(t)
      PROVE  (\E s \in Sessions : Leasing!Lease(t, s)) \/ UNCHANGED Leasing!vars
  <2>1. /\ pc[t] = "open" /\ mine[t] = NoSession /\ UNCHANGED <<idle, burden>>
        /\ \A u \in Transactions : u # t => pc'[u] = pc[u]
    BY <1>6, Facts DEF OpenSession, poolVars
  <2>2. CASE UNCHANGED <<wire, mine>>
    <3>1. leaseOf' = leaseOf
      BY <1>a, <2>1, <2>2, Facts, Stutters
    <3> QED
      BY <1>1, <2>1, <3>1 DEF Uncommitted
  <2>3. ASSUME NEW s \in Sessions, wire[s] = "none", wire' = [wire EXCEPT ![s] = "open"],
               mine' = [mine EXCEPT ![t] = s], pc' = [pc EXCEPT ![t] = "opened"]
        PROVE  Leasing!Lease(t, s)
    <3>1. /\ pc[t] \notin Held /\ pc'[t] \in Held /\ mine'[t] = s /\ wire'[s] # "none"
          /\ leaseOf[s] = "fresh"
          /\ \A x \in Sessions : x # s => wire'[x] = wire[x]
          /\ \A u \in Transactions : u # t => mine'[u] = mine[u] /\ mine[u] # s
      BY <1>a, <2>1, <2>3, Facts DEF LeaseOfAll, Held, Holding
    <3> QED
      BY <1>a, <2>1, <3>1, Leased
  <2> QED
    BY <1>6, <2>2, <2>3 DEF OpenSession
<1>7. ASSUME NEW t \in Transactions, Statement(t)
      PROVE  (\E s \in Sessions : Leasing!Work(t, s)) \/ UNCHANGED Leasing!vars
  <2>1. /\ pc[t] = "leased" /\ mine[t] \in Sessions /\ wire[mine[t]] # "none"
        /\ UNCHANGED <<idle, mine, wire, pc>>
    BY <1>7, <1>b, Facts DEF Statement, poolVars, threadVars, Held, Holding
  <2>2. leaseOf' = leaseOf /\ leaseOf[mine[t]] = t
    BY <1>a, <2>1, Stutters DEF LeaseOfAll, Held, Holding
  <2>3. PICK effect \in {{"work"}, {"statement", "borrower"}, {"failed"}} :
           burden' = [burden EXCEPT ![mine[t]] = @ \cup effect]
    BY <1>7 DEF Statement
  <2>4. Uncommitted' = IF "work" \in effect THEN Uncommitted \cup {mine[t]} ELSE Uncommitted
    BY <2>1, <2>3, Facts DEF Uncommitted
  <2> QED
    BY <1>1, <2>1, <2>2, <2>4 DEF Leasing!Work, Uncommitted
<1>8. ASSUME NEW t \in Transactions, EndAcknowledged(t)
      PROVE  (\E s \in Sessions : Leasing!End(t, s)) \/ UNCHANGED Leasing!vars
  <2>1. /\ pc[t] = "leased" /\ mine[t] \in Sessions /\ wire[mine[t]] # "none"
        /\ UNCHANGED <<idle, mine, wire>> /\ pc' = [pc EXCEPT ![t] = "ended"]
    BY <1>8, <1>b, Facts DEF EndAcknowledged, poolVars, Held, Holding
  <2>2. \A u \in Transactions : pc'[u] \in Held <=> pc[u] \in Held
    BY <2>1, Facts DEF Held, Holding
  <2>3. leaseOf' = leaseOf /\ leaseOf[mine[t]] = t
    BY <1>a, <2>1, <2>2, Stutters DEF LeaseOfAll, Held, Holding
  <2>4. CASE UNCHANGED burden
    BY <1>1, <2>3, <2>4 DEF Uncommitted
  <2>5. CASE burden' = [burden EXCEPT ![mine[t]] = @ \ {"work"}]
    <3>1. Uncommitted' = Uncommitted \ {mine[t]}
      BY <2>1, <2>5, Facts DEF Uncommitted
    <3> QED
      BY <2>1, <2>3, <3>1 DEF Leasing!End, Uncommitted
  <2> QED
    BY <1>8, <2>4, <2>5 DEF EndAcknowledged
<1>9. ASSUME NEW t \in Transactions, ReleaseKeeps(t)
      PROVE  \E s \in Sessions : Leasing!Return(t, s)
  <2>1. /\ pc[t] = "keep" /\ mine[t] \in Sessions /\ wire[mine[t]] # "none"
        /\ mine[t] \notin ToSet(idle) /\ mine'[t] = NoSession
        /\ UNCHANGED <<wire, burden>>
        /\ \A u \in Transactions : u # t => /\ mine'[u] = mine[u] /\ pc'[u] = pc[u]
                                            /\ mine[u] # mine[t]
    BY <1>9, <1>b, Facts DEF ReleaseKeeps, sessionVars, Held, Holding
  <2>2. Expired \in SUBSET Sessions /\ Expired \cap ToSet(Live) = {}
    BY Facts, TakeExpiredSplits DEF TypeOK, PoolTypeOK, Custody, NoSharing
  <2>3. ToSet(idle') = ToSet(Live) \cup {mine[t]}
    BY <1>9, <2>1, Facts, ReturnLast DEF ReleaseKeeps
  <2>4. leaseOf[mine[t]] = t /\ leaseOf'[mine[t]] = "idle" /\ mine[t] \notin Uncommitted
    BY <1>a, <2>1, <2>3 DEF LeaseOfAll, Held, Holding, Reusability, KeepIsClean, Uncommitted
  <2>5. \A s \in Expired : leaseOf[s] = "idle" /\ leaseOf'[s] = "dropped"
    <3>1. \A s \in Expired : /\ s \in ToSet(idle) /\ s \in Sessions /\ s \notin ToSet(idle')
                             /\ \A u \in Transactions : mine'[u] # s
      BY <2>1, <2>2, <2>3, Facts
    <3> QED
      BY <1>a, <1>c, <2>1, <3>1 DEF LeaseOfAll
  <2>6. \A s \in Sessions \ (Expired \cup {mine[t]}) : leaseOf'[s] = leaseOf[s]
    <3> SUFFICES ASSUME NEW s \in Sessions \ (Expired \cup {mine[t]}) PROVE leaseOf'[s] = leaseOf[s]
      OBVIOUS
    <3>1. ToSet(idle) = ToSet(Live) \cup Expired
      BY Facts, TakeExpiredSplits DEF TypeOK, PoolTypeOK
    <3>2. s \in ToSet(idle') <=> s \in ToSet(idle)
      BY <2>3, <3>1
    <3>3. s # mine[t] /\ s # NoSession /\ wire'[s] = wire[s]
      BY <2>1, Facts
    <3>4. \A u \in Transactions : mine'[u] = s <=> mine[u] = s
      BY <2>1, <3>3
    <3> QED
      BY <1>a, <2>1, <3>2, <3>3, <3>4, LeaseStays
  <2>7. \E D \in SUBSET Leasing!Idle : leaseOf' = Leasing!Move(mine[t], "idle", D)
    BY <2>1, <2>2, <2>4, <2>5, <2>6, Moves
  <2> QED
    BY <2>1, <2>4, <2>7 DEF Leasing!Return, Uncommitted
<1>10. ASSUME NEW t \in Transactions, ReleaseCloses(t)
       PROVE  \E s \in Sessions : Leasing!GiveUp(t, s)
  <2>1. /\ pc[t] \in {"keep", "drop"} /\ mine[t] \in Sessions /\ wire[mine[t]] # "none"
        /\ mine[t] \notin ToSet(idle) /\ mine'[t] = NoSession
        /\ idle' = Live /\ UNCHANGED <<wire, burden>>
        /\ \A u \in Transactions : u # t => /\ mine'[u] = mine[u] /\ pc'[u] = pc[u]
                                            /\ mine[u] # mine[t]
    BY <1>10, <1>b, Facts DEF ReleaseCloses, sessionVars, Held, Holding
  <2>2. Expired \in SUBSET Sessions /\ Expired \cap ToSet(Live) = {}
    BY Facts, TakeExpiredSplits DEF TypeOK, PoolTypeOK, Custody, NoSharing
  <2>3. ToSet(idle') = ToSet(Live)
    BY <2>1
  <2>4. leaseOf[mine[t]] = t /\ leaseOf'[mine[t]] = "dropped"
    BY <1>a, <2>1, <2>3, Facts DEF LeaseOfAll, Held, Holding
  <2>5. \A s \in Expired : leaseOf[s] = "idle" /\ leaseOf'[s] = "dropped"
    <3>1. \A s \in Expired : s \in ToSet(idle) /\ s \in Sessions /\ s \notin ToSet(idle')
      BY <2>2, <2>3, Facts
    <3>2. \A u \in Transactions : mine'[u] = NoSession \/ mine'[u] = mine[u]
      BY <2>1
    <3>3. \A s \in Expired : \A u \in Transactions : mine'[u] # s
      BY <3>1, <3>2, Facts
    <3> QED
      BY <1>a, <1>c, <2>1, <3>1, <3>3 DEF LeaseOfAll
  <2>6. \A s \in Sessions \ (Expired \cup {mine[t]}) : leaseOf'[s] = leaseOf[s]
    BY <1>a, <2>1, <2>3, Facts, LeaseStays
  <2>7. \E D \in SUBSET Leasing!Idle : leaseOf' = Leasing!Move(mine[t], "dropped", D)
    BY <2>1, <2>2, <2>4, <2>5, <2>6, Moves
  <2> QED
    BY <2>1, <2>4, <2>7 DEF Leasing!GiveUp
<1>11. ASSUME NEW t \in Transactions, Discard(t)
       PROVE  \E s \in Sessions : Leasing!GiveUp(t, s)
  <2>1. /\ pc[t] = "discard" /\ mine[t] \in Sessions /\ wire[mine[t]] # "none"
        /\ mine[t] \notin ToSet(idle) /\ mine'[t] = NoSession
        /\ UNCHANGED <<idle, wire, burden>>
        /\ \A u \in Transactions : u # t => /\ mine'[u] = mine[u] /\ pc'[u] = pc[u]
                                            /\ mine[u] # mine[t]
    BY <1>11, <1>b, Facts DEF Discard, sessionVars, Held, Holding
  <2>2. leaseOf[mine[t]] = t /\ leaseOf'[mine[t]] = "dropped"
    <3>1. pc[t] \in Held
      BY <2>1 DEF Held, Holding
    <3>2. leaseOf[mine[t]] = t
      BY <1>a, <2>1, <3>1 DEF LeaseOfAll
    <3>3. \A u \in Transactions : mine'[u] # mine[t]
      BY <2>1, Facts
    <3> QED
      BY <1>a, <2>1, <3>2, <3>3 DEF LeaseOfAll
  <2>3. \A s \in Sessions \ {mine[t]} : leaseOf'[s] = leaseOf[s]
    <3> SUFFICES ASSUME NEW s \in Sessions, s # mine[t] PROVE leaseOf'[s] = leaseOf[s]
      OBVIOUS
    <3>1. \A u \in Transactions : mine'[u] = s <=> mine[u] = s
      BY <2>1, Facts
    <3>2. \A u \in Transactions : mine[u] = s => pc'[u] = pc[u]
      BY <2>1
    <3> QED
      BY <1>a, <2>1, <3>1, <3>2, LeaseStays
  <2>4. \E D \in SUBSET Leasing!Idle : leaseOf' = Leasing!Move(mine[t], "dropped", D)
    <3>1. PICK D \in SUBSET Sessions : D = {}
      OBVIOUS
    <3>2. /\ \A x \in D : leaseOf[x] = "idle" /\ leaseOf'[x] = "dropped"
          /\ \A x \in Sessions \ (D \cup {mine[t]}) : leaseOf'[x] = leaseOf[x]
      BY <2>3, <3>1
    <3> QED
      BY <2>1, <2>2, <3>2, Moves
  <2> QED
    BY <2>1, <2>2, <2>4 DEF Leasing!GiveUp
<1>12. ASSUME NEW c \in Threads, CloseQuietly(c)
       PROVE  \E s \in Sessions : Leasing!RollBack(s)
  <2>1. PICK s \in doomed[c] : /\ wire' = [wire EXCEPT ![s] = "closed"]
                               /\ burden' = [burden EXCEPT ![s] = {}]
    BY <1>12 DEF CloseQuietly
  <2>2. UNCHANGED <<idle, pc, mine>>
    BY <1>12 DEF CloseQuietly, poolVars
  <2>3. /\ s \in Sessions /\ s \notin ToSet(idle) /\ \A t \in Transactions : mine[t] # s
        /\ wire[s] # "none"
    BY Facts DEF Custody, InHandIsOpen
  <2>4. \A x \in Sessions : wire'[x] = "none" <=> wire[x] = "none"
    BY <2>1, <2>3, Facts
  <2>5. leaseOf' = leaseOf /\ leaseOf[s] = "dropped"
    BY <1>a, <2>2, <2>3, <2>4, Stutters DEF LeaseOfAll
  <2>6. Uncommitted' = Uncommitted \ {s}
    BY <2>1, <2>3, Facts DEF Uncommitted
  <2> QED
    BY <2>3, <2>5, <2>6 DEF Leasing!RollBack, Uncommitted
<1>13. CASE PoolCloses
  <2>1. ToSet(idle') = {} /\ UNCHANGED <<pc, mine, wire, burden>>
    BY <1>13, EmptyList DEF PoolCloses, sessionVars
  <2>2. \A s \in ToSet(idle) : leaseOf[s] = "idle" /\ leaseOf'[s] = "dropped"
    BY <1>a, <1>c, <2>1, Facts DEF LeaseOfAll
  <2>3. \A s \in Sessions \ ToSet(idle) : leaseOf'[s] = leaseOf[s]
    BY <1>a, <2>1, LeaseStays
  <2>4. Leasing!Forget
    BY <1>a, <2>1, <2>2, <2>3, Facts, Forgets
  <2> QED
    BY <2>4 DEF Leasing!Next
<1>14. ASSUME NEW s \in Sessions, ScanAdvances(s) PROVE UNCHANGED Leasing!vars
  <2>1. UNCHANGED <<idle, mine, pc, wire>>
    BY <1>14 DEF ScanAdvances, poolVars, threadVars
  <2>2. leaseOf' = leaseOf
    BY <1>a, <2>1, Stutters
  <2>3. Uncommitted' = Uncommitted
    <3>1. \/ burden' = [burden EXCEPT ![s] = @ \ {"statement"}]
          \/ burden' = [burden EXCEPT ![s] = @ \ {"statement", "borrower"}]
      BY <1>14 DEF ScanAdvances
    <3>2. \A x \in Sessions : "work" \in burden'[x] <=> "work" \in burden[x]
      BY <3>1, Facts
    <3> QED
      BY <3>2 DEF Uncommitted
  <2> QED
    BY <1>1, <2>2, <2>3
<1>15. CASE \/ \E s \in Sessions : SessionLost(s)
            \/ IdleTimePasses \/ UNCHANGED vars
  <2>1. UNCHANGED <<idle, mine, pc, wire, burden>>
    BY <1>15 DEF SessionLost, IdleTimePasses, vars, poolVars, threadVars, sessionVars
  <2>2. leaseOf' = leaseOf
    BY <1>a, <2>1, Stutters
  <2> QED
    BY <1>1, <2>1, <2>2 DEF Uncommitted
<1> QED
  BY <1>2, <1>3, <1>4, <1>5, <1>6, <1>7, <1>8, <1>9, <1>10, <1>11, <1>12, <1>13, <1>14,
     <1>15
  DEF Next, AcquireStep, ReturnStep, CallerStep, Leasing!Next

(* The pool keeps what its header promises its callers (lines 28-44),      *)
(* however Acquire, Release, Discard and Close of several threads          *)
(* interleave: LeasingSpec is the specification that says so.              *)
THEOREM PoolImplementsLeasing == Spec => LeasingSpec
<1> DEFINE Inv == TypeOK /\ Custody /\ Reusability
<1>1. Init => Inv /\ Leasing!Init
  BY TypeOKInit, CustodyInit, ReusabilityInit, ImplementsInit
<1>2. Inv /\ [Next]_vars => Inv'
  BY TypeOKStep, CustodyStep, ReusabilityStep
<1>3. Inv /\ Inv' /\ [Next]_vars => [Leasing!Next]_(Leasing!vars)
  BY ImplementsStep
<1> QED
  BY <1>1, <1>2, <1>3, PTL DEF Spec, LeasingSpec, Leasing!Spec
=============================================================================
