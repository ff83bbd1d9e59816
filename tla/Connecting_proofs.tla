-------------------------- MODULE Connecting_proofs --------------------------
(***************************************************************************)
(* Theorems about Connect and the Resolver it dials through, for any       *)
(* secrets, any offers of the listeners, any answers of the resolver and   *)
(* any finite number of its workers.                                       *)
(*                                                                         *)
(* The Resolver: no lookup waits where nobody will come for it (PoolInv).  *)
(*                                                                         *)
(* A connect (ConnectInv): its lists are lists (ConnectTyped), for which   *)
(* the descriptors' parser is followed from the text to the plan; a chain  *)
(* of redirects belongs to one planned address (Placed), keeps to its      *)
(* protocol and repeats no address (Nested); a stream is open exactly      *)
(* while the session is made, to the planned address's name (Streaming);   *)
(* the password is proved at most once (Proving); and what is owed is left *)
(* to try (Owing), or an address could be forgotten between two loops.     *)
(***************************************************************************)
EXTENDS Connect, Resolver, FiniteSetTheorems, SequenceTheorems, NaturalsInduction,
        WellFoundedInduction, TLAPS

-----------------------------------------------------------------------------
(* The Resolver: the queue holds each queued request once and nothing else *)
(* (Queued); the workers look up different requests, all of them started   *)
(* (InWork); and while a worker sleeps there are as many on their way to   *)
(* the queue as requests in it (Served).                                   *)
LookupStates == {"new", "queued", "started", "done", "withdrawn", "refused"}
ThreadStates == {"none", "starting", "idle", "woken", "looking"}

PoolTyped ==
    /\ lookup \in [Lookups -> LookupStates]
    /\ waiting \subseteq Lookups
    /\ queue \in Seq(Lookups)
    /\ thread \in [ResolverWorkers -> ThreadStates]
    /\ work \in [ResolverWorkers -> Lookups \cup {NoLookup}]

Queued ==
    /\ \A i, j \in 1..Len(queue) : queue[i] = queue[j] => i = j
    /\ \A i \in 1..Len(queue) : lookup[queue[i]] = "queued"
    /\ \A l \in Lookups : lookup[l] = "queued" =>
          l \in waiting /\ \E i \in 1..Len(queue) : queue[i] = l

InWork ==
    /\ \A w \in ResolverWorkers : thread[w] = "looking" =>
          work[w] \in Lookups /\ lookup[work[w]] = "started"
    /\ \A v, w \in ResolverWorkers :
          thread[v] = "looking" /\ thread[w] = "looking" /\ work[v] = work[w] => v = w

Coming(threads) == {w \in ResolverWorkers : threads[w] \in {"woken", "starting"}}

Served ==
    /\ (\E w \in ResolverWorkers : thread[w] = "idle") => Len(queue) <= Cardinality(Coming(thread))
    /\ queue # <<>> => \E w \in ResolverWorkers : thread[w] # "none"

PoolInv == PoolTyped /\ Queued /\ InWork /\ Served

-----------------------------------------------------------------------------
(* The workers on their way are finitely many, and one more of them counts *)
(* as one more.                                                            *)
LEMMA OneMoreComes ==
    ASSUME ResolverAssumption, NEW s, NEW t, NEW w \in Coming(t) \ Coming(s),
           Coming(s) \subseteq Coming(t)
    PROVE  /\ Cardinality(Coming(s)) \in Nat /\ Cardinality(Coming(t)) \in Nat
           /\ Cardinality(Coming(s)) + 1 <= Cardinality(Coming(t))
<1>1. IsFiniteSet(Coming(s)) /\ IsFiniteSet(Coming(t))
  BY FS_Subset DEF Coming, ResolverAssumption
<1>2. Coming(s) \cup {w} \in SUBSET Coming(t) /\ w \notin Coming(s)
  OBVIOUS
<1>3. Cardinality(Coming(s) \cup {w}) = Cardinality(Coming(s)) + 1
  BY <1>1, <1>2, FS_AddElement
<1>4. Cardinality(Coming(s) \cup {w}) <= Cardinality(Coming(t))
  BY <1>1, <1>2, FS_Subset
<1> QED
  BY <1>1, <1>3, <1>4, FS_CardinalityType

LEMMA OneFewerComes ==
    ASSUME ResolverAssumption, NEW s, NEW w \in Coming(s), NEW t, Coming(t) = Coming(s) \ {w}
    PROVE  /\ Cardinality(Coming(s)) \in Nat /\ Cardinality(Coming(t)) \in Nat
           /\ Cardinality(Coming(t)) = Cardinality(Coming(s)) - 1
<1>1. IsFiniteSet(Coming(s)) /\ IsFiniteSet(Coming(t))
  BY FS_Subset DEF Coming, ResolverAssumption
<1> QED
  BY <1>1, FS_RemoveElement, FS_CardinalityType

(* A notification wakes one worker that sleeps, or nobody does.            *)
LEMMA NotifiedWakes ==
    ASSUME NEW s \in [ResolverWorkers -> ThreadStates], NEW t \in Notified(s)
    PROVE  /\ t \in [ResolverWorkers -> ThreadStates]
           /\ \/ t = s /\ \A w \in ResolverWorkers : s[w] # "idle"
              \/ \E w \in ResolverWorkers : s[w] = "idle" /\ t = [s EXCEPT ![w] = "woken"]
BY DEF Notified, ThreadStates

(* A request taken out of the queue leaves the others in it.               *)
LEMMA Removal ==
    ASSUME PoolTyped, NEW i \in DOMAIN queue, queue' = RemoveAt(queue, i)
    PROVE  /\ queue' \in Seq(Lookups)
           /\ Len(queue') = Len(queue) - 1
           /\ \A j \in 1..Len(queue') : queue'[j] = IF j < i THEN queue[j] ELSE queue[j + 1]
<1>1. queue \in Seq(Lookups) /\ i \in 1..Len(queue) /\ Len(queue) \in Nat
  BY DEF PoolTyped
<1> DEFINE a == SubSeq(queue, 1, i - 1)  b == SubSeq(queue, i + 1, Len(queue))
<1>2. /\ a \in Seq(Lookups) /\ Len(a) = i - 1
      /\ \A j \in 1..(i - 1) : a[j] = queue[j]
  BY <1>1
<1>3. /\ b \in Seq(Lookups) /\ Len(b) = Len(queue) - i
      /\ \A j \in 1..(Len(queue) - i) : b[j] = queue[i + j]
  BY <1>1
<1>4. queue' = a \o b
  BY DEF RemoveAt
<1> HIDE DEF a, b
<1>5. queue' \in Seq(Lookups) /\ Len(queue') = Len(queue) - 1
  BY <1>1, <1>2, <1>3, <1>4
<1>6. ASSUME NEW j \in 1..Len(queue')
      PROVE  queue'[j] = IF j < i THEN queue[j] ELSE queue[j + 1]
  <2>1. CASE j < i
    BY <1>1, <1>2, <1>3, <1>4, <1>5, <2>1
  <2>2. CASE j >= i
    <3>1. queue'[j] = b[j - (i - 1)] /\ j - (i - 1) \in 1..(Len(queue) - i)
      BY <1>1, <1>2, <1>3, <1>4, <1>5, <2>2
    <3>2. b[j - (i - 1)] = queue[i + (j - (i - 1))]
      BY <1>3, <3>1
    <3>3. i + (j - (i - 1)) = j + 1 /\ ~(j < i)
      BY <1>1, <1>5, <2>2
    <3> QED
      BY <3>1, <3>2, <3>3
  <2> QED
    BY <1>1, <1>5, <2>1, <2>2
<1> QED
  BY <1>5, <1>6

-----------------------------------------------------------------------------
LEMMA InitServes == ASSUME ResolverAssumption, ResolverInit PROVE PoolInv
BY DEF ResolverAssumption, ResolverInit, PoolInv, PoolTyped, Queued, InWork, Served, LookupStates,
       ThreadStates, Coming

(* What a new request does to the workers: nobody begins or ends to look   *)
(* up, and if one goes on sleeping another one comes.                      *)
LEMMA EnqueueCalls ==
    ASSUME ResolverAssumption, PoolInv, NEW l \in Lookups, Enqueue(l)
    PROVE  /\ thread' \in [ResolverWorkers -> ThreadStates]
           /\ \A w \in ResolverWorkers : thread'[w] = "looking" <=> thread[w] = "looking"
           /\ \E w \in ResolverWorkers : thread'[w] # "none"
           /\ (\E w \in ResolverWorkers : thread'[w] = "idle") =>
                 /\ \E w \in ResolverWorkers : thread[w] = "idle"
                 /\ Coming(thread) \subseteq Coming(thread')
                 /\ \E w \in Coming(thread') : w \notin Coming(thread)
<1>1. thread \in [ResolverWorkers -> ThreadStates]
  BY DEF PoolInv, PoolTyped
<1>2. CASE /\ \E w \in ResolverWorkers : thread[w] # "none"
           /\ thread' \in Notified(thread)
  <2>1. \/ thread' = thread /\ \A w \in ResolverWorkers : thread[w] # "idle"
        \/ \E w \in ResolverWorkers :
              thread[w] = "idle" /\ thread' = [thread EXCEPT ![w] = "woken"]
    BY <1>1, <1>2, NotifiedWakes
  <2>2. thread' \in [ResolverWorkers -> ThreadStates]
    BY <1>1, <1>2, NotifiedWakes
  <2> QED
    BY <1>1, <1>2, <2>1, <2>2 DEF Coming
<1>3. ASSUME NEW v \in ThreadsIn({"none"}), thread' \in Notified([thread EXCEPT ![v] = "starting"])
      PROVE  /\ thread' \in [ResolverWorkers -> ThreadStates]
             /\ \A w \in ResolverWorkers : thread'[w] = "looking" <=> thread[w] = "looking"
             /\ \E w \in ResolverWorkers : thread'[w] # "none"
             /\ (\E w \in ResolverWorkers : thread'[w] = "idle") =>
                   /\ \E w \in ResolverWorkers : thread[w] = "idle"
                   /\ Coming(thread) \subseteq Coming(thread')
                   /\ \E w \in Coming(thread') : w \notin Coming(thread)
  <2> DEFINE s == [thread EXCEPT ![v] = "starting"]
  <2>1. v \in ResolverWorkers /\ thread[v] = "none" /\ s \in [ResolverWorkers -> ThreadStates]
    BY <1>1 DEF ThreadsIn, ThreadStates
  <2>2. \A w \in ResolverWorkers : s[w] = IF w = v THEN "starting" ELSE thread[w]
    BY <1>1
  <2>3. thread' \in Notified(s)
    BY <1>3
  <2> HIDE DEF s
  <2>4. /\ thread' \in [ResolverWorkers -> ThreadStates]
        /\ \/ thread' = s
           \/ \E w \in ResolverWorkers : s[w] = "idle" /\ thread' = [s EXCEPT ![w] = "woken"]
    BY <2>1, <2>3, NotifiedWakes
  <2>5. thread'[v] = "starting"
    BY <2>1, <2>2, <2>4
  <2> QED
    BY <1>1, <2>1, <2>2, <2>4, <2>5 DEF Coming
<1>4. \/ /\ \E w \in ResolverWorkers : thread[w] # "none"
         /\ thread' \in Notified(thread)
      \/ \E v \in ThreadsIn({"none"}) : thread' \in Notified([thread EXCEPT ![v] = "starting"])
  <2>1. CASE ~NeedsWorker(queue') /\ thread' \in Notified(thread)
    <3>1. SUFFICES ASSUME \A w \in ResolverWorkers : thread[w] = "none" PROVE FALSE
      BY <2>1
    <3>2. ThreadsIn({"idle", "woken"}) = {} /\ ThreadsIn({"none"}) # {}
      BY <3>1 DEF ThreadsIn, ResolverAssumption
    <3>3. Idle = 0
      BY <3>2, FS_EmptySet DEF Idle
    <3>4. Len(queue') > 0
      BY DEF Enqueue, PoolInv, PoolTyped
    <3> QED
      BY <2>1, <3>2, <3>3, <3>4 DEF NeedsWorker
  <2>2. CASE ThreadsIn({"none"}) # ResolverWorkers /\ thread' \in Notified(thread)
    BY <2>2 DEF ThreadsIn
  <2> QED
    BY <2>1, <2>2 DEF Enqueue
<1> QED
  BY <1>2, <1>3, <1>4

LEMMA EnqueueServes ==
    ASSUME ResolverAssumption, PoolInv, NEW l \in Lookups, Enqueue(l)
    PROVE  PoolInv'
<1>1. /\ queue \in Seq(Lookups) /\ lookup \in [Lookups -> LookupStates]
      /\ queue' = Append(queue, l) /\ lookup[l] = "new" /\ l \in waiting
      /\ lookup' = [lookup EXCEPT ![l] = "queued"] /\ UNCHANGED <<waiting, work>>
  BY DEF PoolInv, PoolTyped, Enqueue
<1>2. /\ queue' \in Seq(Lookups) /\ Len(queue') = Len(queue) + 1 /\ Len(queue) \in Nat
      /\ queue'[Len(queue) + 1] = l
      /\ \A i \in 1..Len(queue) : queue'[i] = queue[i]
  BY <1>1
<1>3. PoolTyped'
  BY <1>1, <1>2, EnqueueCalls DEF PoolInv, PoolTyped, LookupStates
<1>4. Queued'
  <2>1. \A i \in 1..Len(queue) : queue[i] # l /\ queue[i] \in Lookups
    BY <1>1 DEF PoolInv, Queued
  <2>2. \A i \in 1..Len(queue') : i \in 1..Len(queue) \/ i = Len(queue) + 1
    BY <1>2
  <2>3. \A i, j \in 1..Len(queue') : queue'[i] = queue'[j] => i = j
    BY <1>2, <2>1, <2>2 DEF PoolInv, Queued
  <2>4. \A i \in 1..Len(queue') : lookup'[queue'[i]] = "queued"
    BY <1>1, <1>2, <2>1, <2>2 DEF PoolInv, Queued
  <2>5. ASSUME NEW k \in Lookups, lookup'[k] = "queued"
        PROVE  k \in waiting' /\ \E i \in 1..Len(queue') : queue'[i] = k
    BY <1>1, <1>2, <2>5 DEF PoolInv, Queued
  <2> QED
    BY <2>3, <2>4, <2>5 DEF Queued
<1>5. InWork'
  BY <1>1, EnqueueCalls DEF PoolInv, InWork
<1>6. Served'
  <2>1. ASSUME NEW w \in ResolverWorkers, thread'[w] = "idle"
        PROVE  Len(queue') <= Cardinality(Coming(thread'))
    <3>1. /\ \E v \in ResolverWorkers : thread[v] = "idle"
          /\ Coming(thread) \subseteq Coming(thread')
          /\ \E v \in Coming(thread') : v \notin Coming(thread)
      BY <2>1, EnqueueCalls
    <3>2. /\ Cardinality(Coming(thread)) \in Nat /\ Cardinality(Coming(thread')) \in Nat
          /\ Cardinality(Coming(thread)) + 1 <= Cardinality(Coming(thread'))
      BY <3>1, OneMoreComes
    <3>3. Len(queue) <= Cardinality(Coming(thread))
      BY <3>1 DEF PoolInv, Served
    <3> QED
      BY <1>2, <3>2, <3>3
  <2> QED
    BY <2>1, EnqueueCalls DEF Served
<1> QED
  BY <1>3, <1>4, <1>5, <1>6 DEF PoolInv

(* A caller that gives up, before its request is queued, in the queue, or  *)
(* after.                                                                  *)
LEMMA StopServes ==
    ASSUME ResolverAssumption, PoolInv, NEW l \in Lookups, StopsWaiting(l)
    PROVE  PoolInv'
<1>1. /\ lookup \in [Lookups -> LookupStates] /\ queue \in Seq(Lookups)
      /\ waiting' = waiting \ {l} /\ UNCHANGED <<thread, work>>
  BY DEF PoolInv, PoolTyped, StopsWaiting
<1>2. CASE lookup[l] = "queued"
  <2>1. lookup' = [lookup EXCEPT ![l] = "withdrawn"] /\ Withdraw(l)
    BY <1>2 DEF StopsWaiting
  <2>2. PICK i \in DOMAIN queue : queue[i] = l /\ queue' = RemoveAt(queue, i)
    BY <2>1 DEF Withdraw
  <2>3. /\ queue' \in Seq(Lookups) /\ Len(queue') = Len(queue) - 1
        /\ \A j \in 1..Len(queue') : queue'[j] = IF j < i THEN queue[j] ELSE queue[j + 1]
    BY <2>2, Removal DEF PoolInv
  <2>4. Len(queue) \in Nat /\ Len(queue') \in Nat /\ i \in 1..Len(queue)
    BY <1>1, <2>3
  <2>5. PoolTyped'
    BY <1>1, <2>1, <2>3 DEF PoolInv, PoolTyped, LookupStates
  <2>6. Queued'
    <3>1. \A j \in 1..Len(queue') : queue'[j] # l
      BY <2>2, <2>3, <2>4 DEF PoolInv, Queued
    <3>2. ASSUME NEW j \in 1..Len(queue'), NEW k \in 1..Len(queue'), queue'[j] = queue'[k]
          PROVE  j = k
      <4> DEFINE p == IF j < i THEN j ELSE j + 1  q == IF k < i THEN k ELSE k + 1
      <4>1. p \in 1..Len(queue) /\ q \in 1..Len(queue)
        BY <2>3, <2>4
      <4>2. queue'[j] = queue[p] /\ queue'[k] = queue[q]
        BY <2>3
      <4>3. p = q => j = k
        BY <2>3, <2>4
      <4> HIDE DEF p, q
      <4> QED
        BY <3>2, <4>1, <4>2, <4>3 DEF PoolInv, Queued
    <3>3. ASSUME NEW j \in 1..Len(queue') PROVE lookup'[queue'[j]] = "queued"
      <4>1. /\ j \in 1..Len(queue) /\ j + 1 \in 1..Len(queue)
            /\ queue'[j] \in {queue[j], queue[j + 1]}
        BY <2>3, <2>4
      <4>2. lookup[queue'[j]] = "queued" /\ queue'[j] \in Lookups
        BY <1>1, <4>1 DEF PoolInv, Queued
      <4> QED
        BY <1>1, <2>1, <3>1, <4>2
    <3>4. ASSUME NEW k \in Lookups, lookup'[k] = "queued"
          PROVE  k \in waiting' /\ \E j \in 1..Len(queue') : queue'[j] = k
      <4>1. k # l /\ lookup[k] = "queued"
        BY <1>1, <2>1, <3>4
      <4>w. k \in waiting'
        BY <1>1, <4>1 DEF PoolInv, Queued
      <4>2. PICK j \in 1..Len(queue) : queue[j] = k
        BY <4>1 DEF PoolInv, Queued
      <4>3. j # i
        BY <2>2, <4>1, <4>2
      <4>4. CASE j < i
        <5>1. j \in 1..Len(queue')
          BY <2>3, <2>4, <4>4
        <5>2. queue'[j] = queue[j]
          BY <2>3, <4>4, <5>1
        <5> QED
          BY <4>w, <4>2, <5>1, <5>2
      <4>5. CASE j > i
        <5>1. j - 1 \in 1..Len(queue') /\ ~(j - 1 < i) /\ (j - 1) + 1 = j
          BY <2>3, <2>4, <4>5
        <5>2. queue'[j - 1] = queue[(j - 1) + 1]
          BY <2>3, <5>1
        <5> QED
          BY <4>w, <4>2, <5>1, <5>2
      <4> QED
        BY <2>4, <4>2, <4>3, <4>4, <4>5
    <3> QED
      BY <3>2, <3>3, <3>4 DEF Queued
  <2>7. InWork'
    BY <1>1, <1>2, <2>1 DEF PoolInv, InWork
  <2>8. Served'
    <3>1. IsFiniteSet(Coming(thread))
      BY FS_Subset DEF Coming, ResolverAssumption
    <3>2. Cardinality(Coming(thread)) \in Nat /\ Coming(thread') = Coming(thread)
      BY <1>1, <3>1, FS_CardinalityType DEF Coming
    <3>3. queue # <<>>
      BY <2>4
    <3> QED
      BY <1>1, <2>3, <2>4, <3>2, <3>3 DEF PoolInv, Served
  <2> QED
    BY <2>5, <2>6, <2>7, <2>8 DEF PoolInv
<1>3. CASE lookup[l] = "new"
  <2>1. lookup' = [lookup EXCEPT ![l] = "refused"] /\ UNCHANGED queue
    BY <1>3 DEF StopsWaiting
  <2>2. PoolTyped' /\ InWork' /\ Served'
    BY <1>1, <1>3, <2>1 DEF PoolInv, PoolTyped, InWork, Served, Coming, LookupStates
  <2>3. \A i \in 1..Len(queue) : queue[i] \in Lookups
    BY <1>1
  <2>4. Queued'
    BY <1>1, <1>3, <2>1, <2>3 DEF PoolInv, Queued
  <2> QED
    BY <2>2, <2>4 DEF PoolInv
<1>4. CASE lookup[l] \notin {"new", "queued"}
  <2>1. UNCHANGED <<lookup, queue>>
    BY <1>4 DEF StopsWaiting
  <2> QED
    BY <1>1, <1>4, <2>1 DEF PoolInv, PoolTyped, Queued, InWork, Served, Coming
<1> QED
  BY <1>2, <1>3, <1>4

(* A worker that has found nothing to do sleeps; another takes the oldest  *)
(* request.  `lookups' is what is known of the requests by then.           *)
LEMMA WorkerServes ==
    ASSUME ResolverAssumption, PoolInv, NEW w \in ResolverWorkers,
           thread[w] \in {"starting", "woken", "looking"},
           NEW lookups \in [Lookups -> LookupStates],
           \A k \in Lookups : lookups[k] = "queued" <=> lookup[k] = "queued",
           \A v \in ResolverWorkers :
               v # w /\ thread[v] = "looking" => lookups[work[v]] = "started",
           TakeOrWait(w, lookups), UNCHANGED waiting
    PROVE  PoolInv'
<1>1. /\ queue \in Seq(Lookups) /\ thread \in [ResolverWorkers -> ThreadStates]
      /\ work \in [ResolverWorkers -> Lookups \cup {NoLookup}] /\ waiting \subseteq Lookups
  BY DEF PoolInv, PoolTyped
<1>2. IsFiniteSet(Coming(thread)) /\ Cardinality(Coming(thread)) \in Nat
  <2>1. IsFiniteSet(Coming(thread))
    BY FS_Subset DEF Coming, ResolverAssumption
  <2> QED
    BY <2>1, FS_CardinalityType
<1>3. CASE queue = <<>>
  <2>1. /\ thread' = [thread EXCEPT ![w] = "idle"] /\ work' = [work EXCEPT ![w] = NoLookup]
        /\ lookup' = lookups /\ UNCHANGED <<queue, waiting>>
    BY <1>3 DEF TakeOrWait
  <2>2. PoolTyped'
    BY <1>1, <2>1 DEF PoolTyped, ThreadStates
  <2>3. Queued'
    <3>1. \A k \in Lookups : lookup[k] # "queued"
      BY <1>3 DEF PoolInv, Queued
    <3> QED
      BY <1>3, <2>1, <3>1 DEF Queued
  <2>4. InWork'
    BY <1>1, <2>1 DEF PoolInv, InWork
  <2>5. Cardinality(Coming(thread')) \in Nat
    <3>1. IsFiniteSet(Coming(thread'))
      BY FS_Subset DEF Coming, ResolverAssumption
    <3> QED
      BY <3>1, FS_CardinalityType
  <2>6. Len(queue') = 0
    BY <1>3, <2>1
  <2> QED
    BY <1>3, <2>1, <2>2, <2>3, <2>4, <2>5, <2>6 DEF PoolInv, Served
<1>4. CASE queue # <<>>
  <2>1. /\ thread' = [thread EXCEPT ![w] = "looking"]
        /\ work' = [work EXCEPT ![w] = Head(queue)]
        /\ lookup' = [lookups EXCEPT ![Head(queue)] = "started"]
        /\ queue' = Tail(queue) /\ UNCHANGED waiting
    BY <1>4 DEF TakeOrWait
  <2>2. /\ Head(queue) = queue[1] /\ queue[1] \in Lookups /\ queue' \in Seq(Lookups)
        /\ Len(queue) \in Nat \ {0} /\ Len(queue') = Len(queue) - 1
        /\ \A i \in 1..Len(queue') : queue'[i] = queue[i + 1]
    BY <1>1, <1>4, <2>1
  <2>3. PoolTyped'
    BY <1>1, <2>1, <2>2 DEF PoolTyped, ThreadStates, LookupStates
  <2>4. \A i \in 1..Len(queue') : /\ i + 1 \in 1..Len(queue) /\ queue'[i] # queue[1]
                                  /\ queue'[i] \in Lookups /\ lookups[queue'[i]] = "queued"
    BY <1>1, <2>2 DEF PoolInv, Queued
  <2>5. Queued'
    <3>1. \A i, j \in 1..Len(queue') : queue'[i] = queue'[j] => i = j
      BY <2>2, <2>4 DEF PoolInv, Queued
    <3>2. \A i \in 1..Len(queue') : lookup'[queue'[i]] = "queued"
      BY <2>1, <2>2, <2>4
    <3>3. ASSUME NEW k \in Lookups, lookup'[k] = "queued"
          PROVE  k \in waiting' /\ \E i \in 1..Len(queue') : queue'[i] = k
      <4>1. k # queue[1] /\ lookup[k] = "queued"
        BY <2>1, <2>2, <3>3
      <4>2. PICK i \in 1..Len(queue) : queue[i] = k
        BY <4>1 DEF PoolInv, Queued
      <4>3. i - 1 \in 1..Len(queue') /\ (i - 1) + 1 = i
        BY <2>2, <4>1, <4>2
      <4>4. queue'[i - 1] = k
        BY <2>2, <4>2, <4>3
      <4>5. k \in waiting'
        BY <2>1, <4>1 DEF PoolInv, Queued
      <4> QED
        BY <4>3, <4>4, <4>5
    <3> QED
      BY <3>1, <3>2, <3>3 DEF Queued
  <2>6. InWork'
    <3>1. lookups[queue[1]] = "queued"
      BY <2>2 DEF PoolInv, Queued
    <3>2. \A v \in ResolverWorkers : v # w /\ thread[v] = "looking" =>
             work[v] \in Lookups /\ work[v] # queue[1] /\ lookup'[work[v]] = "started"
      BY <2>1, <2>2, <3>1 DEF PoolInv, InWork
    <3>3. lookup'[queue[1]] = "started" /\ work'[w] = queue[1]
      BY <1>1, <2>1, <2>2
    <3>4. \A v \in ResolverWorkers : v # w => work'[v] = work[v] /\ thread'[v] = thread[v]
      BY <1>1, <2>1
    <3> QED
      BY <2>2, <3>2, <3>3, <3>4 DEF PoolInv, InWork
  <2>7. Served'
    <3>1. \E v \in ResolverWorkers : thread'[v] # "none"
      BY <1>1, <2>1
    <3>2. ASSUME NEW v \in ResolverWorkers, thread'[v] = "idle"
          PROVE  Len(queue') <= Cardinality(Coming(thread'))
      <4>1. thread[v] = "idle"
        BY <1>1, <2>1, <3>2
      <4>2. Len(queue) <= Cardinality(Coming(thread))
        BY <4>1 DEF PoolInv, Served
      <4>3. CASE thread[w] = "looking"
        <5>1. Coming(thread') = Coming(thread)
          BY <1>1, <2>1, <4>3 DEF Coming
        <5> QED
          BY <1>2, <2>2, <4>2, <5>1
      <4>4. CASE thread[w] \in {"starting", "woken"}
        <5>1. w \in Coming(thread) /\ Coming(thread') = Coming(thread) \ {w}
          BY <1>1, <2>1, <4>4 DEF Coming
        <5>2. /\ Cardinality(Coming(thread)) \in Nat /\ Cardinality(Coming(thread')) \in Nat
              /\ Cardinality(Coming(thread')) = Cardinality(Coming(thread)) - 1
          BY <5>1, OneFewerComes
        <5>3. Len(queue) \in Nat /\ Len(queue') = Len(queue) - 1
          BY <2>2
        <5> QED
          BY ONLY <4>2, <5>2, <5>3
      <4> QED
        BY <4>3, <4>4
    <3> QED
      BY <3>1, <3>2 DEF Served
  <2> QED
    BY <2>3, <2>5, <2>6, <2>7 DEF PoolInv
<1> QED
  BY <1>3, <1>4

LEMMA StepServes ==
    ASSUME ResolverAssumption, PoolInv, [ResolverNext]_resolverVars
    PROVE  PoolInv'
<1>1. ASSUME NEW l \in Lookups, Enqueue(l) PROVE PoolInv'
  BY <1>1, EnqueueServes
<1>2. ASSUME NEW l \in Lookups, CannotStart(l) PROVE PoolInv'
  <2>1. /\ lookup \in [Lookups -> LookupStates] /\ lookup[l] = "new"
        /\ lookup' = [lookup EXCEPT ![l] = "refused"] /\ waiting' = waiting \ {l}
        /\ UNCHANGED <<queue, thread, work>>
    BY <1>2 DEF CannotStart, PoolInv, PoolTyped
  <2>2. PoolTyped' /\ InWork' /\ Served'
    BY <2>1 DEF PoolInv, PoolTyped, InWork, Served, Coming, LookupStates
  <2>3. \A i \in 1..Len(queue) : queue[i] \in Lookups
    BY DEF PoolInv, PoolTyped
  <2>4. Queued'
    BY <2>1, <2>3 DEF PoolInv, Queued
  <2> QED
    BY <2>2, <2>4 DEF PoolInv
<1>3. ASSUME NEW l \in Lookups, StopsWaiting(l) PROVE PoolInv'
  BY <1>3, StopServes
<1>4. ASSUME NEW l \in Lookups, TakesAnswer(l) PROVE PoolInv'
  BY <1>4 DEF TakesAnswer, PoolInv, PoolTyped, Queued, InWork, Served, Coming
<1>5. ASSUME NEW w \in ResolverWorkers, BeginWork(w) PROVE PoolInv'
  <2>1. /\ lookup \in [Lookups -> LookupStates]
        /\ \A v \in ResolverWorkers : v # w /\ thread[v] = "looking" => lookup[work[v]] = "started"
    BY DEF PoolInv, PoolTyped, InWork
  <2> QED
    BY <1>5, <2>1, WorkerServes DEF BeginWork
<1>6. ASSUME NEW w \in ResolverWorkers, LookedUp(w) PROVE PoolInv'
  <2> DEFINE lookups == [lookup EXCEPT ![work[w]] = "done"]
  <2>1. /\ thread[w] = "looking" /\ work[w] \in Lookups /\ lookup[work[w]] = "started"
        /\ TakeOrWait(w, lookups) /\ UNCHANGED waiting /\ lookup \in [Lookups -> LookupStates]
    BY <1>6 DEF LookedUp, PoolInv, PoolTyped, InWork
  <2>2. lookups \in [Lookups -> LookupStates]
    BY <2>1 DEF LookupStates
  <2>3. \A k \in Lookups : lookups[k] = "queued" <=> lookup[k] = "queued"
    BY <2>1
  <2>4. \A v \in ResolverWorkers : v # w /\ thread[v] = "looking" => lookups[work[v]] = "started"
    BY <2>1 DEF PoolInv, InWork
  <2> HIDE DEF lookups
  <2> QED
    BY <2>1, <2>2, <2>3, <2>4, WorkerServes
<1>7. CASE UNCHANGED resolverVars
  BY <1>7 DEF resolverVars, PoolInv, PoolTyped, Queued, InWork, Served, Coming
<1> QED
  BY <1>1, <1>2, <1>3, <1>4, <1>5, <1>6, <1>7 DEF ResolverNext

-----------------------------------------------------------------------------
(* In every pool of resolver threads, a worker sleeps beside a queued      *)
(* request only while another one is on its way to it, and a request is    *)
(* in the queue for just as long as its caller waits and nobody has taken  *)
(* it.                                                                     *)
THEOREM LookupsAreServed == ResolverSpec => []NoLookupIsLost
<1> USE ResolverAssumption
<1>1. ResolverInit => PoolInv
  BY InitServes
<1>2. PoolInv /\ [ResolverNext]_resolverVars => PoolInv'
  BY StepServes
<1>3. PoolInv => NoLookupIsLost
  <2> SUFFICES ASSUME PoolInv PROVE NoLookupIsLost
    OBVIOUS
  <2>1. ThreadsIn({"idle"}) # {} => Len(queue) <= Cardinality(ThreadsIn({"woken", "starting"}))
    BY DEF PoolInv, Served, Coming, ThreadsIn
  <2>2. queue # <<>> => ThreadsIn({"none"}) # ResolverWorkers
    BY DEF PoolInv, Served, ThreadsIn
  <2>3. \A l \in Lookups : lookup[l] = "queued" => l \in waiting /\ l \in ToSet(queue)
    BY DEF PoolInv, PoolTyped, Queued, ToSet
  <2>4. \A w \in ThreadsIn({"looking"}) : lookup[work[w]] = "started"
    BY DEF PoolInv, InWork, ThreadsIn
  <2> QED
    BY <2>1, <2>2, <2>3, <2>4 DEF NoLookupIsLost
<1> QED
  BY <1>1, <1>2, <1>3, PTL DEF ResolverSpec

-----------------------------------------------------------------------------
(* A connect.                                                              *)
Protocols == {"TCP", "TCPS"}
Places == [host : STRING, port : Nat, protocol : Protocols]
Levels == [targets : Seq(Places), next_target : Nat, addresses : Seq(STRING),
           next_address : Nat, depth : Nat, path : Seq(Nat)]

Dialling == {"open"} \cup Handshake
Connected == Waiting \cup {"accepted", "attributes", "ready"}

ConnectTyped ==
    /\ TypeOK
    /\ order \in Seq(Places) /\ resolved \in Seq(STRING) /\ stack \in Seq(Levels)
    /\ last \in [why : Failover \cup {"none"}, depth : Nat]
    /\ transport \in [protocol : {"none"} \cup Protocols, name : STRING \cup {"none"}, armed : BOOLEAN]

(* There is a chain of redirects only while one address of the plan is     *)
(* tried.                                                                  *)
Placed ==
    /\ phase \in {"pass", "delay", "resolve", "chains"} => stack = <<>>
    /\ phase \in {"resolve", "chains", "chain", "open"} \cup Connected => at # 0

Current(level) == level.targets[level.next_target]

(* The levels of the chain: all targets use the protocol of the planned    *)
(* address, and none is one that a level below has come to.                *)
Nested ==
    /\ Len(stack) <= MaximumRedirects + 1
    /\ phase \in {"open"} \cup Connected => stack # <<>> /\ Top.next_target # 0
    /\ \A i \in 1..Len(stack) :
          /\ stack[i].depth = i - 1
          /\ stack[i].next_target <= Len(stack[i].targets)
          /\ stack[i].next_address <= Len(stack[i].addresses)
          /\ stack[i].next_target = 0 => i = Len(stack) /\ stack[i].addresses = <<>>
          /\ \A t \in 1..Len(stack[i].targets) :
                /\ stack[i].targets[t].protocol = Original.protocol
                /\ \A j \in 1..i - 1 : AddressKey(stack[i].targets[t]) # AddressKey(Current(stack[j]))

Streaming ==
    IF phase \in Connected
    THEN transport.protocol = Original.protocol /\ transport.name = Original.host
    ELSE transport = NoTransport

Proving ==
    /\ proofs <= 1
    /\ phase \in {"proof", "attributes", "ready"} => proofs = 1
    /\ phase \notin {"proof", "attributes", "ready", "failed"} => proofs = 0
    /\ phase \in Connected => transport.armed = (phase \notin {"attributes", "ready"})

(* What is left to try: of the plan, of what the address resolved to, of   *)
(* every level of the chain, and the attempt under way.                    *)
LeftOf(level) ==
    {Append(level.path, t) : t \in level.next_target + 1..Len(level.targets)}
        \cup {level.path \o <<level.next_target, j>> :
                 j \in level.next_address + 1..Len(level.addresses)}

LeftIn(levels) == UNION {LeftOf(levels[i]) : i \in 1..Len(levels)}

LeftOfPlan == {<<pass, i>> : i \in (IF phase = "resolve" THEN at ELSE at + 1)..Len(order)}

LeftOfHost ==
    IF phase \in {"pass", "delay", "resolve"} THEN {}
    ELSE {<<pass, at, j, 1, 1>> : j \in chain + 1..Len(resolved)}

UnderWay == IF phase \in Dialling THEN {Attempt} ELSE {}

LeftToTry == LeftOfPlan \cup LeftOfHost \cup LeftIn(stack) \cup UnderWay

Trying == {"pass", "delay", "resolve", "chains", "chain"} \cup Dialling

Owing ==
    /\ phase \in Trying => owed \subseteq LeftToTry
    /\ phase = "failed" /\ failure \in Failover => owed = {}

ConnectInv == ConnectTyped /\ Placed /\ Nested /\ Streaming /\ Proving /\ Owing

-----------------------------------------------------------------------------
(* What a step does                                                        *)

Fails ==
    /\ \E why \in Failover \cup Final \cup {"none"} :
          /\ Fail(why)
          /\ why \in Failover => phase = "pass" /\ at = Len(order)
    /\ UNCHANGED limits

Remembers ==
    /\ phase \in Dialling
    /\ \E why \in Failover : Remember(why)
    /\ UNCHANGED limits

Moves ==
    /\ \/ phase = "pass" /\ phase' = "delay"
       \/ phase = "chains" /\ chain = Len(resolved) /\ phase' = "pass"
       \/ phase \in Handshake /\ phase' \in Handshake
       \/ phase \in Handshake /\ phase' \in {"probe", "accepted"}
       \/ phase \in {"probe", "accepted", "protocol", "types"}
             /\ phase' \in {"accepted", "protocol", "types", "challenge"}
       \/ phase = "attributes" /\ phase' = "ready"
    /\ To(phase')
    /\ UNCHANGED limits

Pushes ==
    /\ phase = "redirect" /\ Top.depth + 1 <= MaximumRedirects
    /\ \E o \in Offers :
          LET offer == ParseRedirectAddresses(o.address) IN
          ~RedirectRefused(o.address) /\ ~ChangesProtocol(offer) /\ Push(Hops(offer))
    /\ UNCHANGED limits

(* What ends a connect at once is none of the failures another address     *)
(* might not share.                                                        *)
LEMMA FailSteps ==
    ASSUME ConnectTyped,
           GivesUp \/ DelayFails \/ ResolveStops \/ NoWorker \/ DialRefuses \/ Nonsense \/ CutShort
               \/ LogonFails \/ PingFails
    PROVE  Fails
<1>1. Why \in Final /\ {"budget", "resources", "protocol", "session"} \subseteq Final
  BY DEF Why, Final
<1>2. Final \cap Failover = {}
  BY DEF Final, Failover
<1>3. CASE GivesUp
  BY <1>3 DEF GivesUp, Fails, ConnectTyped, TypeOK
<1>4. CASE DelayFails
  BY <1>1, <1>2, <1>4 DEF DelayFails, Fails
<1>5. CASE ResolveStops
  BY <1>1, <1>2, <1>5 DEF ResolveStops, Fails
<1>6. CASE NoWorker
  BY <1>1, <1>2, <1>6 DEF NoWorker, Fails
<1>7. CASE DialRefuses
  BY <1>1, <1>2, <1>7 DEF DialRefuses, Fails
<1>8. CASE Nonsense
  BY <1>1, <1>2, <1>8 DEF Nonsense, Fails
<1>9. CASE CutShort
  BY <1>1, <1>2, <1>9 DEF CutShort, Fails
<1>10. CASE LogonFails
  BY <1>1, <1>2, <1>10 DEF LogonFails, Fails
<1>11. CASE PingFails
  BY <1>1, <1>2, <1>11 DEF PingFails, Fails
<1> QED
  BY <1>3, <1>4, <1>5, <1>6, <1>7, <1>8, <1>9, <1>10, <1>11

(* A refusal and a lost listener are remembered, and the next address is   *)
(* tried.                                                                  *)
LEMMA RememberSteps == ASSUME Refuse \/ ListenerLost PROVE Remembers
BY DEF Refuse, ListenerLost, Remembers, Dialling, Handshake, Failover

(* The steps that only go on to another phase.                             *)
LEMMA MoveSteps ==
    ASSUME NextPass \/ ChainsAreSpent \/ Resend \/ Redirect \/ Accept \/ ProbeAnswered
               \/ ServerAnswers \/ AttributesSent
    PROVE  Moves
<1>1. CASE NextPass \/ ChainsAreSpent \/ AttributesSent
  BY <1>1 DEF NextPass, ChainsAreSpent, AttributesSent, To, Moves
<1>2. CASE Resend \/ Redirect \/ Accept
  BY <1>2 DEF Resend, Redirect, Accept, To, Moves, Handshake
<1>3. CASE ProbeAnswered \/ ServerAnswers
  BY <1>3 DEF ProbeAnswered, ServerAnswers, To, Moves
<1> QED
  BY <1>1, <1>2, <1>3

(* CONNECT is sent, or the budget is spent before it.                      *)
LEMMA HandOverMoves == ASSUME HandOver PROVE Fails \/ Moves
<1>1. Why \in Final /\ Final \cap Failover = {}
  BY DEF Why, Final, Failover
<1> QED
  BY <1>1 DEF HandOver, Fails, Moves, To

(* A stream that does not open is remembered, unless its failure is final. *)
LEMMA OpenFailsHow == ASSUME OpenFails PROVE Fails \/ Remembers
<1>1. "tls_verification" \in Final /\ "protocol" \in Final /\ Final \cap Failover = {}
  BY DEF Final, Failover
<1>2. "unreachable" \in Failover /\ "tls_handshake" \in Failover /\ "open" \in Dialling
  BY DEF Failover, Dialling
<1> QED
  BY <1>1, <1>2 DEF OpenFails, Fails, Remembers

(* A redirect is refused, remembered as one too many, or becomes a level   *)
(* of the chain.                                                           *)
LEMMA FollowRedirectHow ==
    ASSUME ConnectAssumption, FollowRedirect, Top.depth \in Nat
    PROVE  Fails \/ Remembers \/ Pushes
<1>1. "protocol" \in Final /\ Final \cap Failover = {} /\ "redirect_failed" \in Failover
      /\ "redirect" \in Dialling /\ MaximumRedirects \in Nat
  BY ConnectAssumption DEF Final, Failover, Dialling, Handshake
<1>2. PICK o \in Offers :
          LET offer == ParseRedirectAddresses(o.address)
          IN  IF Top.depth + 1 > MaximumRedirects THEN Remember("redirect_failed")
              ELSE IF \/ RedirectRefused(o.address)
                      \/ \E d \in o.data : ReconnectDataRefused(d)
                      \/ ChangesProtocol(offer)
              THEN Fail("protocol")
              ELSE IF Hops(offer) = <<>> THEN Remember("redirect_failed")
              ELSE Push(Hops(offer))
  BY DEF FollowRedirect
<1>3. phase = "redirect" /\ UNCHANGED limits
  BY DEF FollowRedirect
<1>4. CASE Remember("redirect_failed")
  BY <1>1, <1>3, <1>4 DEF Remembers
<1>5. CASE Fail("protocol")
  BY <1>1, <1>3, <1>5 DEF Fails
<1>6. CASE /\ ~(Top.depth + 1 > MaximumRedirects) /\ ~RedirectRefused(o.address)
           /\ ~ChangesProtocol(ParseRedirectAddresses(o.address))
           /\ Push(Hops(ParseRedirectAddresses(o.address)))
  BY <1>1, <1>3, <1>6 DEF Pushes
<1> QED
  BY <1>2, <1>4, <1>5, <1>6

Steps ==
    \/ Fails \/ Remembers \/ Moves \/ Pushes
    \/ NextOriginal \/ DelayEnds \/ DialOriginal \/ NextChain \/ ChainFails \/ PopLevel
    \/ ResolveTarget \/ Dial \/ Opened \/ Challenged \/ Authenticated
    \/ Expire \/ Cancel

(* Every step of a connect is one of those kinds.                          *)
LEMMA StepsAre ==
    ASSUME ConnectInv, Next
    PROVE  Steps
<1>1. ASSUME phase = "redirect" PROVE Top.depth \in Nat
  <2>1. stack \in Seq(Levels) /\ stack # <<>>
    BY <1>1 DEF ConnectInv, ConnectTyped, Nested, Connected, Waiting, Handshake
  <2>2. Len(stack) \in 1..Len(stack)
    BY <2>1, EmptySeq
  <2>3. stack[Len(stack)] \in Levels
    BY <2>1, <2>2, ElementOfSeq
  <2> QED
    BY <2>3 DEF Top, Last, Levels
<1>2. CASE GivesUp \/ DelayFails \/ ResolveStops \/ NoWorker \/ DialRefuses \/ Nonsense \/ CutShort
               \/ LogonFails \/ PingFails
  BY <1>2, FailSteps DEF ConnectInv, Steps
<1>3. CASE NextPass \/ ChainsAreSpent \/ Resend \/ Redirect \/ Accept \/ ProbeAnswered
               \/ ServerAnswers \/ AttributesSent
  BY <1>3, MoveSteps DEF Steps
<1>4. CASE Refuse \/ ListenerLost
  BY <1>4, RememberSteps DEF Steps
<1>5. CASE HandOver
  BY <1>5, HandOverMoves DEF Steps
<1>6. CASE OpenFails
  BY <1>6, OpenFailsHow DEF Steps
<1>7. CASE FollowRedirect
  <2>1. Top.depth \in Nat
    BY <1>1, <1>7 DEF FollowRedirect
  <2> QED
    BY <1>7, <2>1, ConnectAssumption, FollowRedirectHow DEF Steps
<1>8. CASE \/ NextOriginal \/ DelayEnds \/ DialOriginal \/ NextChain \/ ChainFails \/ PopLevel
           \/ ResolveTarget \/ Dial \/ Opened \/ Challenged \/ Authenticated
           \/ Expire \/ Cancel
  BY <1>8 DEF Steps
<1> QED
  BY <1>2, <1>3, <1>4, <1>5, <1>6, <1>7, <1>8 DEF Next, Own, Network

-----------------------------------------------------------------------------
(* Lists                                                                   *)

(* Induction up to a bound, for a set of numbers.                          *)
LEMMA UpTo ==
    ASSUME NEW n \in Nat, NEW good, 0 \in good, \A i \in 1..n : i - 1 \in good => i \in good
    PROVE  \A i \in 0..n : i \in good
<1> SUFFICES ASSUME NEW b \in 0..n, b \notin good PROVE FALSE
  OBVIOUS
<1> DEFINE bad == {i \in 0..n : i \notin good}
<1>1. bad \subseteq Nat /\ bad # {}
  OBVIOUS
<1>2. IsWellFoundedOn(OpToRel(<, Nat), Nat)
  BY NatLessThanWellFounded
<1>3. \E x \in bad : \A y \in bad : ~ (<<y, x>> \in OpToRel(<, Nat))
  <2> HIDE DEF bad
  <2> QED
    BY <1>1, <1>2, WFMin
<1>4. PICK x \in bad : \A y \in bad : ~ (<<y, x>> \in OpToRel(<, Nat))
  BY <1>3
<1>5. x # 0 /\ x \in 1..n
  OBVIOUS
<1>6. x - 1 \in bad
  BY <1>5
<1>7. <<x - 1, x>> \in OpToRel(<, Nat)
  BY <1>5 DEF OpToRel
<1> QED
  BY <1>4, <1>6, <1>7

(* A function is defined by its first value and by its next ones.          *)
Stays(n, T, next) == \A i \in 1..n : \A x \in T : next[<<i, x>>] \in T
Follows(n, first, next, g) == g[0] = first /\ \A i \in 1..n : g[i] = next[<<i, g[i - 1]>>]

(* Each kind of definition by recursion along a list ends where its steps  *)
(* stay.                                                                   *)
LEMMA ByRecursion ==
    ASSUME NEW n \in Nat, NEW T, NEW first \in T, NEW next, Stays(n, T, next)
    PROVE  \E g \in [0..n -> T] : Follows(n, first, next, g)
<1> DEFINE so(m, g) == g[0] = first /\ \A i \in 1..m : g[i] = next[<<i, g[i - 1]>>]
           good == {m \in 0..n : \E g \in [0..m -> T] : so(m, g)}
<1>1. 0 \in good
  <2>1. [i \in 0..0 |-> first] \in [0..0 -> T]
    OBVIOUS
  <2>2. so(0, [i \in 0..0 |-> first])
    OBVIOUS
  <2>3. \E g \in [0..0 -> T] : so(0, g)
    BY <2>1, <2>2
  <2> HIDE DEF so
  <2> QED
    BY <2>3
<1>2. ASSUME NEW m \in 1..n, m - 1 \in good PROVE m \in good
  <2>1. PICK g \in [0..m - 1 -> T] : so(m - 1, g)
    BY <1>2
  <2> DEFINE h == [i \in 0..m |-> IF i = m THEN next[<<m, g[m - 1]>>] ELSE g[i]]
  <2>2. m - 1 \in 0..m - 1 /\ g[m - 1] \in T
    BY <2>1
  <2>3. next[<<m, g[m - 1]>>] \in T
    BY <2>2 DEF Stays
  <2>4. \A i \in 0..m : i # m => i \in 0..m - 1
    OBVIOUS
  <2>5. h \in [0..m -> T]
    BY <2>1, <2>3, <2>4
  <2>6. h[0] = first /\ h[m] = next[<<m, g[m - 1]>>] /\ \A i \in 0..m - 1 : h[i] = g[i]
    BY <2>1
  <2> HIDE DEF h
  <2>7. ASSUME NEW i \in 1..m PROVE h[i] = next[<<i, h[i - 1]>>]
    <3>1. i - 1 \in 0..m - 1
      OBVIOUS
    <3>2. CASE i = m
      BY <2>6, <3>1, <3>2
    <3>3. CASE i # m
      <4>1. i \in 1..m - 1 /\ i \in 0..m - 1
        BY <3>3
      <4> QED
        BY <2>1, <2>6, <3>1, <4>1
    <3> QED
      BY <3>2, <3>3
  <2>8. so(m, h)
    BY <2>6, <2>7
  <2> QED
    BY <2>5, <2>8
<1>3. n \in good
  <2> HIDE DEF good
  <2> QED
    BY <1>1, <1>2, UpTo
<1> QED
  BY <1>3 DEF Follows

(* What Selected keeps of a list is a list of the elements that are in the *)
(* set.                                                                    *)
LEMMA SelectedIs ==
    ASSUME NEW S, NEW s \in Seq(S), NEW places
    PROVE  /\ Selected(s, places) \in Seq({s[i] : i \in places \cap (1..Len(s))})
           /\ \A i \in places \cap (1..Len(s)) :
                 \E j \in 1..Len(Selected(s, places)) : Selected(s, places)[j] = s[i]
<1> DEFINE n == Len(s)
           T == {s[i] : i \in places \cap (1..n)}
           is(F) == F = [i \in 0..n |->
                            IF i = 0 THEN <<>>
                            ELSE IF i \in places THEN Append(F[i - 1], s[i]) ELSE F[i - 1]]
           next == [p \in (1..n) \X Seq(T) |->
                       IF p[1] \in places THEN Append(p[2], s[p[1]]) ELSE p[2]]
<1>1. n \in Nat
  BY LenProperties
<1>2. ASSUME NEW i \in 1..n, NEW x \in Seq(T)
      PROVE  /\ next[<<i, x>>] = IF i \in places THEN Append(x, s[i]) ELSE x
             /\ next[<<i, x>>] \in Seq(T)
  <2>1. next[<<i, x>>] = IF i \in places THEN Append(x, s[i]) ELSE x
    OBVIOUS
  <2>2. i \in places => s[i] \in T
    OBVIOUS
  <2> HIDE DEF T
  <2>3. i \in places => Append(x, s[i]) \in Seq(T)
    BY <2>2, AppendProperties
  <2> QED
    BY <2>1, <2>3
<1>3. \A i \in 1..n : \A x \in Seq(T) : next[<<i, x>>] \in Seq(T)
  BY <1>2
<1>4. \E g \in [0..n -> Seq(T)] : g[0] = <<>> /\ \A i \in 1..n : g[i] = next[<<i, g[i - 1]>>]
  <2>1. <<>> \in Seq(T)
    OBVIOUS
  <2> DEFINE U == Seq(T)
  <2>2. <<>> \in U /\ Stays(n, U, next)
    BY <1>3, <2>1 DEF Stays
  <2> HIDE DEF T, next, n, U
  <2>3. \E g \in [0..n -> U] : Follows(n, <<>>, next, g)
    BY ONLY <1>1, <2>2, ByRecursion
  <2> QED
    BY <2>3 DEF U, Follows
<1> HIDE DEF next, n
<1>5. PICK g \in [0..n -> Seq(T)] : g[0] = <<>> /\ \A i \in 1..n : g[i] = next[<<i, g[i - 1]>>]
  BY <1>4
<1> HIDE DEF T
<1>6. is(g)
  <2>1. ASSUME NEW i \in 0..n
        PROVE  g[i] = IF i = 0 THEN <<>>
                      ELSE IF i \in places THEN Append(g[i - 1], s[i]) ELSE g[i - 1]
    <3>1. CASE i = 0
      BY <1>5, <3>1
    <3>2. CASE i # 0
      <4>1. i \in 1..n /\ i - 1 \in 0..n
        BY <1>1, <3>2
      <4> QED
        BY <1>2, <1>5, <3>2, <4>1
    <3> QED
      BY <3>1, <3>2
  <2> QED
    BY <2>1
<1> DEFINE F == CHOOSE f : is(f)
<1>7. is(F)
  BY <1>6
<1>8. Selected(s, places) = F[n]
  BY DEF Selected, n
<1> HIDE DEF F
<1>9. /\ F[0] = <<>>
      /\ \A i \in 1..n : F[i] = IF i \in places THEN Append(F[i - 1], s[i]) ELSE F[i - 1]
  <2>1. F = [i \in 0..n |->
               IF i = 0 THEN <<>>
               ELSE IF i \in places THEN Append(F[i - 1], s[i]) ELSE F[i - 1]]
    BY <1>7
  <2>2. 0 \in 0..n /\ \A i \in 1..n : i \in 0..n /\ i # 0
    BY <1>1
  <2> QED
    BY ONLY <2>1, <2>2
<1> HIDE DEF is
<1> DEFINE holds(k) == /\ F[k] \in Seq(T)
                       /\ \A i \in places \cap (1..k) : \E j \in 1..Len(F[k]) : F[k][j] = s[i]
           good == {k \in 0..n : holds(k)}
<1>10. 0 \in good
  <2>1. F[0] \in Seq(T)
    BY <1>9
  <2> QED
    BY <1>1, <2>1
<1>11. ASSUME NEW k \in 1..n, k - 1 \in good PROVE k \in good
  <2>1. F[k - 1] \in Seq(T) /\ Len(F[k - 1]) \in Nat
        /\ \A i \in places \cap (1..k - 1) : \E j \in 1..Len(F[k - 1]) : F[k - 1][j] = s[i]
    BY <1>11, LenProperties
  <2>2. CASE k \in places
    <3>1. F[k] = Append(F[k - 1], s[k]) /\ s[k] \in T
      BY <1>9, <2>2 DEF T
    <3>2. /\ F[k] \in Seq(T) /\ Len(F[k]) = Len(F[k - 1]) + 1 /\ F[k][Len(F[k - 1]) + 1] = s[k]
          /\ \A j \in 1..Len(F[k - 1]) : F[k][j] = F[k - 1][j]
      BY <2>1, <3>1, AppendProperties
    <3>3. ASSUME NEW i \in places \cap (1..k) PROVE \E j \in 1..Len(F[k]) : F[k][j] = s[i]
      <4>1. CASE i = k
        <5>1. Len(F[k - 1]) + 1 \in 1..Len(F[k])
          BY <2>1, <3>2
        <5> QED
          BY <3>2, <4>1, <5>1
      <4>2. CASE i # k
        <5>1. PICK j \in 1..Len(F[k - 1]) : F[k - 1][j] = s[i]
          BY <2>1, <4>2
        <5> QED
          BY <2>1, <3>2, <5>1
      <4> QED
        BY <4>1, <4>2
    <3> QED
      BY <3>2, <3>3
  <2>3. CASE k \notin places
    <3>1. F[k] = F[k - 1]
      BY <1>9, <2>3
    <3>2. places \cap (1..k) = places \cap (1..k - 1)
      BY <2>3
    <3>3. holds(k)
      BY <2>1, <3>1, <3>2
    <3> QED
      BY <3>3
  <2> QED
    BY <2>2, <2>3
<1>12. n \in good
  <2>1. \A i \in 1..n : i - 1 \in good => i \in good
    BY <1>11
  <2>2. n \in 0..n
    BY <1>1
  <2> HIDE DEF good
  <2> QED
    BY ONLY <1>1, <1>10, <2>1, <2>2, UpTo
<1> QED
  BY <1>8, <1>12 DEF n, T

(* Selected loses none of the elements that are in the set.                *)
LEMMA SelectedKeeps ==
    ASSUME NEW S, NEW s \in Seq(S), NEW places, NEW i \in places \cap (1..Len(s))
    PROVE  s[i] \in ToSet(Selected(s, places))
<1>1. Selected(s, places) \in Seq({s[j] : j \in places \cap (1..Len(s))})
  BY SelectedIs
<1>2. PICK j \in 1..Len(Selected(s, places)) : Selected(s, places)[j] = s[i]
  BY SelectedIs
<1>3. DOMAIN Selected(s, places) = 1..Len(Selected(s, places))
  BY <1>1, LenProperties
<1> QED
  BY <1>2, <1>3 DEF ToSet

(* A list of lists, flattened, is a list of their elements.                *)
LEMMA FlattenSeqIs ==
    ASSUME NEW S, NEW seqs \in Seq(Seq(S))
    PROVE  FlattenSeq(seqs) \in Seq(S)
<1> DEFINE n == Len(seqs)
           is(F) == F = [i \in 1..n |-> IF i = 1 THEN seqs[i] ELSE F[i - 1] \o seqs[i]]
<1>1. n \in Nat /\ \A i \in 1..n : seqs[i] \in Seq(S)
  BY LenProperties, ElementOfSeq
<1>2. CASE n = 0
  <2>1. FlattenSeq(seqs) = seqs
    BY <1>2 DEF FlattenSeq
  <2>2. seqs = <<>>
    BY <1>2, EmptySeq
  <2> QED
    BY <2>1, <2>2
<1>3. CASE n # 0
  <2> DEFINE m == n - 1
             next == [p \in (1..m) \X Seq(S) |-> p[2] \o seqs[p[1] + 1]]
  <2>1. m \in Nat /\ 1 \in 1..n /\ \A i \in 1..m : i + 1 \in 1..n
    BY <1>1, <1>3
  <2>2. ASSUME NEW i \in 1..m, NEW x \in Seq(S)
        PROVE  next[<<i, x>>] = x \o seqs[i + 1] /\ next[<<i, x>>] \in Seq(S)
    <3>1. next[<<i, x>>] = x \o seqs[i + 1]
      OBVIOUS
    <3>2. seqs[i + 1] \in Seq(S)
      BY <1>1, <2>1
    <3>3. x \o seqs[i + 1] \in Seq(S)
      BY <3>2, ConcatProperties
    <3> QED
      BY <3>1, <3>3
  <2> HIDE DEF m
  <2>3. \A i \in 1..m : \A x \in Seq(S) : next[<<i, x>>] \in Seq(S)
    BY <2>2
  <2> HIDE DEF next
  <2>4. \E g \in [0..m -> Seq(S)] : g[0] = seqs[1] /\ \A i \in 1..m : g[i] = next[<<i, g[i - 1]>>]
    <3>1. seqs[1] \in Seq(S)
      BY <1>1, <2>1
    <3> DEFINE U == Seq(S)
    <3>2. seqs[1] \in U /\ Stays(m, U, next)
      BY <2>3, <3>1 DEF Stays
    <3> HIDE DEF U
    <3>3. \E g \in [0..m -> U] : Follows(m, seqs[1], next, g)
      BY ONLY <2>1, <3>2, ByRecursion
    <3> QED
      BY <3>3 DEF U, Follows
  <2>5. PICK g \in [0..m -> Seq(S)] : g[0] = seqs[1] /\ \A i \in 1..m : g[i] = next[<<i, g[i - 1]>>]
    BY <2>4
  <2> DEFINE f == [i \in 1..n |-> g[i - 1]]
  <2>6. is(f)
    <3>1. ASSUME NEW i \in 1..n
          PROVE  f[i] = IF i = 1 THEN seqs[i] ELSE f[i - 1] \o seqs[i]
      <4>1. CASE i = 1
        BY <2>5, <4>1
      <4>2. CASE i # 1
        <5>1. i - 1 \in 1..m /\ i - 1 \in 1..n /\ i - 1 - 1 \in 0..m /\ (i - 1) + 1 = i
          BY <1>1, <4>2 DEF m
        <5>2. g[i - 1] = g[i - 1 - 1] \o seqs[(i - 1) + 1]
          BY <2>2, <2>5, <5>1
        <5> QED
          BY <4>2, <5>1, <5>2
      <4> QED
        BY <4>1, <4>2
    <3> QED
      BY <3>1
  <2> DEFINE F == CHOOSE h : is(h)
  <2>7. is(F)
    BY <2>6
  <2>8. FlattenSeq(seqs) = F[n]
    BY <1>3 DEF FlattenSeq
  <2> HIDE DEF F
  <2>9. \A i \in 1..n : F[i] = IF i = 1 THEN seqs[i] ELSE F[i - 1] \o seqs[i]
    BY <2>7
  <2> HIDE DEF is
  <2> DEFINE good == {k \in 0..m : F[k + 1] \in Seq(S)}
  <2>10. 0 \in good
    <3>1. 0 + 1 = 1 /\ 0 \in 0..m
      BY <2>1
    <3>2. F[1] = seqs[1] /\ seqs[1] \in Seq(S)
      BY <1>1, <2>1, <2>9
    <3> QED
      BY <3>1, <3>2
  <2>11. ASSUME NEW k \in 1..m, k - 1 \in good PROVE k \in good
    <3>1. F[k] \in Seq(S) /\ k + 1 \in 1..n /\ k + 1 # 1 /\ (k + 1) - 1 = k
      BY <2>1, <2>11
    <3>2. F[k + 1] = F[(k + 1) - 1] \o seqs[k + 1] /\ seqs[k + 1] \in Seq(S)
      BY <1>1, <2>9, <3>1
    <3>3. F[k + 1] \in Seq(S)
      BY <3>1, <3>2, ConcatProperties
    <3> QED
      BY <3>3
  <2>12. m \in good
    <3>1. \A i \in 1..m : i - 1 \in good => i \in good
      BY <2>11
    <3>2. m \in 0..m /\ m \in Nat
      BY <2>1
    <3> HIDE DEF good
    <3> QED
      BY ONLY <2>10, <3>1, <3>2, UpTo
  <2>13. m + 1 = n
    BY <1>1 DEF m
  <2> QED
    BY <2>8, <2>12, <2>13
<1> QED
  BY <1>2, <1>3

(* What a list is, element by element.                                     *)
LEMMA ListOf ==
    ASSUME NEW S, NEW s \in Seq(S)
    PROVE  /\ DOMAIN s = 1..Len(s) /\ Len(s) \in Nat
           /\ s \in Seq(ToSet(s)) /\ ToSet(s) \subseteq S
           /\ \A i \in 1..Len(s) : s[i] \in ToSet(s) /\ s[i] \in S
<1>1. DOMAIN s = 1..Len(s) /\ Len(s) \in Nat /\ s \in [1..Len(s) -> S]
  BY LenProperties
<1>2. \A i \in 1..Len(s) : s[i] \in ToSet(s) /\ s[i] \in S
  BY <1>1 DEF ToSet
<1>3. ToSet(s) \subseteq S
  BY <1>1 DEF ToSet
<1>4. s = [i \in 1..Len(s) |-> s[i]]
  BY <1>1
<1>5. s \in [1..Len(s) -> ToSet(s)]
  BY <1>2, <1>4
<1>6. s \in Seq(ToSet(s))
  BY <1>1, <1>5
<1> QED
  BY <1>1, <1>2, <1>3, <1>6

(* A list given by its elements.                                           *)
LEMMA Mapped ==
    ASSUME NEW S, NEW n \in Nat, NEW f, f = [i \in 1..n |-> f[i]], \A i \in 1..n : f[i] \in S
    PROVE  f \in Seq(S) /\ Len(f) = n
<1>1. f \in [1..n -> S]
  OBVIOUS
<1> QED
  BY <1>1

(* A list of one element.                                                  *)
LEMMA OneOf ==
    ASSUME NEW S, NEW x \in S
    PROVE  <<x>> \in Seq(S) /\ Len(<<x>>) = 1 /\ <<x>>[1] = x
OBVIOUS

(* ResolveOracleHost makes a list of addresses of one.                     *)
LEMMA MinOfTwo ==
    ASSUME NEW a \in Nat, NEW b \in Nat
    PROVE  Min({a, b}) \in Nat /\ Min({a, b}) <= a
<1>1. \E x \in {a, b} : \A y \in {a, b} : x <= y
  OBVIOUS
<1>2. Min({a, b}) \in {a, b} /\ \A y \in {a, b} : Min({a, b}) <= y
  BY <1>1 DEF Min
<1> QED
  BY <1>2

(* What ResolveOracleHost answers is a list of addresses.                  *)
LEMMA AnswersAreTyped ==
    ASSUME NEW host \in STRING, NEW found \in Answers(host)
    PROVE  found \in Seq(STRING)
<1>1. CASE host \in Literals
  <2>1. found = <<host>>
    BY <1>1 DEF Answers
  <2> QED
    BY <2>1, OneOf
<1>2. CASE host \notin Literals /\ host \notin DOMAIN Lookup
  BY <1>2 DEF Answers
<1>3. CASE host \notin Literals /\ host \in DOMAIN Lookup
  <2>1. PICK x \in Lookup[host] : found = ResolveOracleHost(x)
    BY <1>3 DEF Answers
  <2>2. x \in Seq(STRING)
    BY <1>3, <2>1, InputsAssumption
  <2> DEFINE places == {i \in DOMAIN x : \A j \in 1..i - 1 : x[j] # x[i]}
             once == Selected(x, places)
             m == Min({Len(once), MaximumResolved})
  <2>3. found = SubSeq(once, 1, m)
    BY <2>1 DEF ResolveOracleHost
  <2> HIDE DEF places
  <2>4. once \in Seq({x[i] : i \in places \cap (1..Len(x))})
    BY <2>2, SelectedIs
  <2>5. {x[i] : i \in places \cap (1..Len(x))} \subseteq STRING
    BY <2>2, ElementOfSeq
  <2>6. once \in Seq(STRING)
    BY <2>4, <2>5, SeqMonotonic
  <2> HIDE DEF once
  <2>7. Len(once) \in Nat /\ MaximumResolved \in Nat
    BY <2>6, LenProperties, ConnectAssumption
  <2>8. m \in Nat /\ m <= Len(once)
    BY <2>7, MinOfTwo
  <2> HIDE DEF m
  <2>9. \A i \in 1..m : once[i] \in STRING
    BY <2>6, <2>7, <2>8, ElementOfSeq
  <2>10. SubSeq(once, 1, m) \in Seq(STRING)
    BY <2>8, <2>9, SubSeqProperties
  <2> QED
    BY <2>3, <2>10
<1> QED
  BY <1>1, <1>2, <1>3

-----------------------------------------------------------------------------
(* What is read off a descriptor                                           *)
Lists == [addresses : Seq(Places), failover : BOOLEAN, balance : BOOLEAN]

IsAddress(a) ==
    /\ a.children \in Seq(ToSet(a.children))
    /\ \A c \in ToSet(a.children) : /\ c.key = "HOST" => c.value \in STRING
                                    /\ c.key = "PORT" => c.number \in Nat

HoldsAddresses(l) ==
    /\ l.children \in Seq(ToSet(l.children))
    /\ \A a \in ToSet(l.children) : a.key = "ADDRESS" => IsAddress(a)

IsDescription(root) ==
    /\ HoldsAddresses(root)
    /\ \A l \in ToSet(root.children) : l.key = "ADDRESS_LIST" => HoldsAddresses(l)

(* The children of a node that have a name, and the first of them.         *)
LEMMA GivenIs ==
    ASSUME NEW n, NEW k, n.children \in Seq(ToSet(n.children))
    PROVE  /\ Given(n, k) \in Seq({c \in ToSet(n.children) : c.key = k})
           /\ k \in Keys(n) => /\ Given(n, k) # <<>>
                               /\ Head(Given(n, k)) \in ToSet(n.children)
                               /\ Head(Given(n, k)).key = k
<1> DEFINE C == n.children
           places == {i \in DOMAIN C : C[i].key = k}
           T == {c \in ToSet(C) : c.key = k}
<1>1. /\ DOMAIN C = 1..Len(C) /\ Len(C) \in Nat /\ \A i \in 1..Len(C) : C[i] \in ToSet(C)
  BY ListOf
<1>2. Given(n, k) = Selected(C, places)
  BY DEF Given
<1>3. /\ Selected(C, places) \in Seq({C[i] : i \in places \cap (1..Len(C))})
      /\ \A i \in places \cap (1..Len(C)) :
            \E j \in 1..Len(Selected(C, places)) : Selected(C, places)[j] = C[i]
  <2>1. C \in Seq(ToSet(C))
    OBVIOUS
  <2> HIDE DEF places, C
  <2> QED
    BY ONLY <2>1, SelectedIs
<1>4. {C[i] : i \in places \cap (1..Len(C))} \subseteq T
  BY <1>1
<1>5. Given(n, k) \in Seq(T)
  BY <1>2, <1>3, <1>4, SeqMonotonic
<1>6. ASSUME k \in Keys(n)
      PROVE  Given(n, k) # <<>> /\ Head(Given(n, k)) \in T
  <2>1. PICK c \in ToSet(C) : c.key = k
    BY <1>6 DEF Keys
  <2>2. PICK i \in 1..Len(C) : C[i] = c
    BY <1>1, <2>1 DEF ToSet
  <2>3. i \in places \cap (1..Len(C))
    BY <1>1, <2>1, <2>2
  <2>4. \E j \in 1..Len(Given(n, k)) : Given(n, k)[j] = C[i]
    BY <1>2, <1>3, <2>3
  <2>5. Len(Given(n, k)) \in Nat /\ 1 \in 1..Len(Given(n, k))
    BY <1>5, <2>4, LenProperties
  <2>6. Given(n, k) # <<>>
    BY <2>5
  <2>7. Given(n, k)[1] \in T
    BY <1>5, <2>5, ElementOfSeq
  <2>8. Head(Given(n, k)) = Given(n, k)[1]
    BY DEF Head
  <2> QED
    BY <2>6, <2>7, <2>8
<1> QED
  BY <1>5, <1>6

(* ParseAddress of a node that is not refused: a host, a port and a        *)
(* protocol.                                                               *)
LEMMA AddressTyped ==
    ASSUME NEW a, IsAddress(a), "HOST" \in Keys(a), ValueOf(a, "PROTOCOL", "TCP") \in Protocols
    PROVE  ParseAddress(a) \in Places
<1>1. a.children \in Seq(ToSet(a.children))
  BY DEF IsAddress
<1>2. ValueOf(a, "HOST", "none") \in STRING
  <2>1. Head(Given(a, "HOST")) \in ToSet(a.children) /\ Head(Given(a, "HOST")).key = "HOST"
    BY <1>1, GivenIs
  <2> QED
    BY <2>1 DEF IsAddress, ValueOf
<1>3. (IF "PORT" \in Keys(a) THEN Head(Given(a, "PORT")).number ELSE 1521) \in Nat
  <2>1. "PORT" \in Keys(a) => /\ Head(Given(a, "PORT")) \in ToSet(a.children)
                              /\ Head(Given(a, "PORT")).key = "PORT"
    BY <1>1, GivenIs
  <2> QED
    BY <2>1 DEF IsAddress
<1> QED
  BY <1>2, <1>3 DEF ParseAddress, Places

(* The addresses of a list are not refused where the list is not.          *)
LEMMA NotRefusedTyped ==
    ASSUME NEW a, IsAddress(a), ~AddressRefused(a)
    PROVE  ParseAddress(a) \in Places
<1>1. "HOST" \in Keys(a) /\ ValueOf(a, "PROTOCOL", "TCP") \in Protocols
  BY DEF AddressRefused, MissingScalar, Protocols
<1> QED
  BY <1>1, AddressTyped

(* ON, OFF or not written: a switch is true or false.                      *)
LEMMA SwitchTyped ==
    ASSUME NEW n, NEW k, NEW default \in BOOLEAN
    PROVE  Switch(n, k, default) \in BOOLEAN
<1>1. CASE k \in Keys(n)
  <2>1. Switch(n, k, default) = (ValueOf(n, k, "ON") \in OnWords)
    BY <1>1, Zenon DEF Switch
  <2>2. (ValueOf(n, k, "ON") \in OnWords) \in BOOLEAN
    OBVIOUS
  <2> QED
    BY ONLY <2>1, <2>2, Zenon
<1>2. CASE k \notin Keys(n)
  <2>1. Switch(n, k, default) = default
    BY <1>2, Zenon DEF Switch
  <2> QED
    BY <2>1
<1> QED
  BY <1>1, <1>2

(* An address list, put together.                                          *)
LEMMA ListRecord ==
    ASSUME NEW x \in Seq(Places), NEW f \in BOOLEAN, NEW b \in BOOLEAN
    PROVE  [addresses |-> x, failover |-> f, balance |-> b] \in Lists
BY DEF Lists

(* ParseAddressList of a node that is not refused.                         *)
LEMMA ListTyped ==
    ASSUME NEW l, HoldsAddresses(l), \A a \in ToSet(Given(l, "ADDRESS")) : ~AddressRefused(a)
    PROVE  ParseAddressList(l) \in Lists
<1> DEFINE given == Given(l, "ADDRESS")
           parsed == [i \in DOMAIN given |-> ParseAddress(given[i])]
<1>1. given \in Seq({c \in ToSet(l.children) : c.key = "ADDRESS"})
  BY GivenIs DEF HoldsAddresses
<1>2. given \in Seq({a \in ToSet(l.children) : a.key = "ADDRESS"})
      /\ DOMAIN given = 1..Len(given) /\ Len(given) \in Nat
      /\ \A i \in 1..Len(given) : /\ given[i] \in ToSet(given)
                                  /\ given[i] \in {c \in ToSet(l.children) : c.key = "ADDRESS"}
  BY <1>1, ListOf
<1>3. \A i \in 1..Len(given) : ParseAddress(given[i]) \in Places
  <2> SUFFICES ASSUME NEW i \in 1..Len(given) PROVE ParseAddress(given[i]) \in Places
    OBVIOUS
  <2>1. IsAddress(given[i]) /\ ~AddressRefused(given[i])
    BY <1>2 DEF HoldsAddresses
  <2> QED
    BY <2>1, NotRefusedTyped
<1>4. parsed \in Seq(Places)
  <2>1. parsed = [i \in 1..Len(given) |-> parsed[i]] /\ \A i \in 1..Len(given) : parsed[i] \in Places
    BY <1>2, <1>3
  <2> HIDE DEF parsed
  <2> QED
    BY <1>2, <2>1, Mapped
<1>5. Switch(l, "FAILOVER", TRUE) \in BOOLEAN /\ Switch(l, "LOAD_BALANCE", FALSE) \in BOOLEAN
  BY SwitchTyped
<1> HIDE DEF parsed
<1>6. ParseAddressList(l) = [addresses |-> parsed, failover |-> Switch(l, "FAILOVER", TRUE),
                             balance |-> Switch(l, "LOAD_BALANCE", FALSE)]
  BY DEF ParseAddressList, parsed
<1> HIDE DEF given
<1> DEFINE failover == Switch(l, "FAILOVER", TRUE)
           balance == Switch(l, "LOAD_BALANCE", FALSE)
<1>7. failover \in BOOLEAN /\ balance \in BOOLEAN
  BY <1>5
<1>8. ParseAddressList(l) = [addresses |-> parsed, failover |-> failover, balance |-> balance]
  BY <1>6
<1> HIDE DEF failover, balance
<1>9. [addresses |-> parsed, failover |-> failover, balance |-> balance] \in Lists
  BY ONLY <1>4, <1>7, ListRecord
<1> QED
  BY <1>8, <1>9

(* ParseDescription of a tree that is not refused: lists of addresses.     *)
LEMMA DescriptionTyped ==
    ASSUME NEW root, IsDescription(root), ~DescriptionRefused(root)
    PROVE  ParseDescription(root).lists \in Seq(Lists)
<1> DEFINE C == root.children
           listed == {i \in DOMAIN C : C[i].key = "ADDRESS_LIST"}
           own == {i \in DOMAIN C : C[i].key = "ADDRESS"}
           f == [i \in DOMAIN C |-> ParseAddressList(IF i \in listed THEN C[i] ELSE root)]
           places == listed \cup {i \in own : \A j \in own : i <= j}
<1>1. C \in Seq(ToSet(C))
  BY DEF IsDescription, HoldsAddresses
<1>2. DOMAIN C = 1..Len(C) /\ Len(C) \in Nat /\ \A i \in 1..Len(C) : C[i] \in ToSet(C)
  BY <1>1, ListOf
<1>3. /\ \A a \in ToSet(Given(root, "ADDRESS")) : ~AddressRefused(a)
      /\ \A l \in ToSet(Given(root, "ADDRESS_LIST")) : ~ListRefused(l)
  BY DEF DescriptionRefused
<1>4. ParseAddressList(root) \in Lists
  BY <1>3, ListTyped DEF IsDescription
<1>5. ASSUME NEW i \in listed PROVE ParseAddressList(C[i]) \in Lists
  <2>1. HoldsAddresses(C[i])
    BY <1>2 DEF IsDescription
  <2>2. C[i] \in ToSet(Given(root, "ADDRESS_LIST"))
    <3> DEFINE given == Given(root, "ADDRESS_LIST")
               those == {j \in DOMAIN C : C[j].key = "ADDRESS_LIST"}
    <3>1. given = Selected(C, those)
      BY DEF Given
    <3>2. i \in those \cap (1..Len(C))
      BY <1>2
    <3> HIDE DEF C, those
    <3>3. C[i] \in ToSet(Selected(C, those))
      BY ONLY <1>1, <3>2, SelectedKeeps
    <3> QED
      BY <3>1, <3>3
  <2>3. \A a \in ToSet(Given(C[i], "ADDRESS")) : ~AddressRefused(a)
    BY <1>3, <2>2 DEF ListRefused
  <2> QED
    BY <2>1, <2>3, ListTyped
<1>6. \A i \in 1..Len(C) : f[i] = ParseAddressList(IF i \in listed THEN C[i] ELSE root)
  BY <1>2
<1>7. \A i \in 1..Len(C) : f[i] \in Lists
  BY <1>4, <1>5, <1>6
<1>8. f = [i \in 1..Len(C) |-> f[i]]
  BY <1>2
<1>9. ParseDescription(root).lists = Selected(f, places)
  BY DEF ParseDescription, AddressLists
<1> HIDE DEF f, places, listed, own
<1>10. f \in Seq(Lists) /\ Len(f) = Len(C)
  BY <1>2, <1>7, <1>8, Mapped
<1>11. Selected(f, places) \in Seq({f[i] : i \in places \cap (1..Len(f))})
  BY <1>10, SelectedIs
<1>12. {f[i] : i \in places \cap (1..Len(f))} \subseteq Lists
  BY <1>7, <1>10
<1> QED
  BY <1>9, <1>11, <1>12, SeqMonotonic

(* Whatever parts a parenthesised text has, its node is a text of the next *)
(* level.                                                                  *)
LEMMA PartsAreTyped ==
    ASSUME NEW root, root.children \in Seq(ToSet(root.children)),
           \A p \in ToSet(root.children) : p.key = "DESCRIPTION" => IsDescription(p),
           ~ListOfDescriptionsRefused(root)
    PROVE  ParseListOfDescriptions(root).lists \in Seq(Lists)
<1> DEFINE given == Given(root, "DESCRIPTION")
           parts == [i \in DOMAIN given |-> ParseDescription(given[i])]
           lists == [i \in DOMAIN parts |-> parts[i].lists]
<1>1. given \in Seq({c \in ToSet(root.children) : c.key = "DESCRIPTION"})
  BY GivenIs
<1>2. /\ DOMAIN given = 1..Len(given) /\ Len(given) \in Nat
      /\ \A i \in 1..Len(given) : /\ given[i] \in ToSet(given)
                                  /\ given[i] \in {c \in ToSet(root.children) : c.key = "DESCRIPTION"}
  BY <1>1, ListOf
<1>3. given # <<>> /\ \A p \in ToSet(given) : ~DescriptionRefused(p)
  BY DEF ListOfDescriptionsRefused
<1>4. ASSUME NEW i \in 1..Len(given) PROVE ParseDescription(given[i]).lists \in Seq(Lists)
  BY <1>2, <1>3, DescriptionTyped
<1>5. lists \in Seq(Seq(Lists))
  <2>1. lists = [i \in 1..Len(given) |-> lists[i]]
        /\ \A i \in 1..Len(given) : lists[i] = ParseDescription(given[i]).lists
    BY <1>2
  <2>2. \A i \in 1..Len(given) : lists[i] \in Seq(Lists)
    BY <1>4, <2>1
  <2> HIDE DEF lists
  <2> QED
    BY <1>2, <2>1, <2>2, Mapped
<1>6. FlattenSeq(lists) \in Seq(Lists)
  <2> HIDE DEF lists
  <2> QED
    BY <1>5, FlattenSeqIs
<1>7. "lists" \in DOMAIN Head(parts)
  <2>1. Len(given) >= 1 /\ 1 \in 1..Len(given)
    BY <1>1, <1>2, <1>3, EmptySeq
  <2>2. Head(parts) = ParseDescription(given[1])
    BY <1>2, <2>1 DEF Head
  <2> QED
    BY <2>2 DEF ParseDescription
<1>8. /\ Merge(parts).lists = FlattenSeq(lists)
      /\ "lists" \in DOMAIN Merge(parts)
  <2> HIDE DEF parts
  <2> QED
    BY <1>7 DEF Merge
<1>9. ParseListOfDescriptions(root).lists = Merge(parts).lists
  <2> DEFINE merged == Merge(parts)
  <2>1. "lists" \in DOMAIN merged
    BY <1>8
  <2> HIDE DEF parts, merged
  <2>2. \A a, b : [merged EXCEPT !.failover = a, !.balance = b].lists = merged.lists
    BY <2>1
  <2> QED
    BY <2>2 DEF ParseListOfDescriptions, parts, merged
<1> QED
  BY <1>6, <1>8, <1>9

(* The nodes inside of a text are texts.                                   *)
LEMMA InsideIs ==
    ASSUME NEW nodes, NEW n \in nodes, NEW c \in ToSet(n.children)
    PROVE  c \in Inside(nodes)
BY DEF Inside

(* As deep as the settings of a text are read, it consists of nodes.       *)
LEMMA TextIs ==
    ASSUME NEW root, IsText(root)
    PROVE  /\ root.children \in Seq(ToSet(root.children)) /\ IsAddress(root) /\ IsDescription(root)
           /\ \A c \in ToSet(root.children) :
                 /\ c.children \in Seq(ToSet(c.children)) /\ IsDescription(c)
                 /\ IsAddress(c) /\ \A d \in ToSet(c.children) : IsAddress(d)
<1> DEFINE sections == Inside({root})
           subsections == Inside(sections)
           words == Inside(subsections)
           all == {root} \cup sections \cup subsections \cup words \cup Inside(words)
<1>1. \A n \in all : IsNode(n)
  BY DEF IsText
<1>2. /\ \A c \in ToSet(root.children) : c \in sections
      /\ \A c \in sections : \A d \in ToSet(c.children) : d \in subsections
      /\ \A c \in subsections : \A d \in ToSet(c.children) : d \in words
      /\ \A c \in words : \A d \in ToSet(c.children) : d \in Inside(words)
  <2> HIDE DEF subsections, words
  <2>1. \A c \in ToSet(root.children) : c \in sections
    BY InsideIs
  <2>2. \A c \in words : \A d \in ToSet(c.children) : d \in Inside(words)
    BY InsideIs
  <2>3. \A c \in sections : \A d \in ToSet(c.children) : d \in subsections
    BY InsideIs DEF subsections
  <2>4. \A c \in subsections : \A d \in ToSet(c.children) : d \in words
    BY InsideIs DEF words
  <2> QED
    BY <2>1, <2>2, <2>3, <2>4
<1>3. \A n \in all : n.children \in Seq(ToSet(n.children)) /\ n.value \in STRING /\ n.number \in Nat
  BY <1>1 DEF IsNode
<1> HIDE DEF sections, subsections, words
<1>4. \A a \in {root} \cup sections \cup subsections \cup words : IsAddress(a)
  BY <1>2, <1>3 DEF IsAddress
<1>5. \A l \in {root} \cup sections \cup subsections : HoldsAddresses(l)
  BY <1>2, <1>3, <1>4 DEF HoldsAddresses
<1>6. \A d \in {root} \cup sections : IsDescription(d)
  BY <1>2, <1>5 DEF IsDescription
<1> QED
  BY <1>2, <1>3, <1>4, <1>6

(* ParseConnectDescriptor of a text that is not refused: lists of          *)
(* addresses.                                                              *)
LEMMA ParsedIs ==
    ASSUME NEW root, root.children \in Seq(ToSet(root.children)), IsDescription(root),
           \A c \in ToSet(root.children) : c.key = "DESCRIPTION" => IsDescription(c),
           ~ConnectDescriptorRefused(root)
    PROVE  ParseConnectDescriptor(root).lists \in Seq(Lists)
<1>1. CASE root.key = "DESCRIPTION_LIST"
  BY <1>1, PartsAreTyped DEF ParseConnectDescriptor, ConnectDescriptorRefused
<1>2. CASE root.key # "DESCRIPTION_LIST"
  BY <1>2, DescriptionTyped DEF ParseConnectDescriptor, ConnectDescriptorRefused
<1> QED
  BY <1>1, <1>2

(* An address that a listener names.                                       *)
LEMMA OffersAreTyped ==
    ASSUME NEW o \in Offers, ~RedirectRefused(o.address)
    PROVE  ParseRedirectAddresses(o.address) \in Seq([address : Places, protocol_given : BOOLEAN])
<1> DEFINE root == o.address
           nodes == RedirectNodes(root)
           T == {a \in {root} \cup Inside({root}) \cup Inside(Inside({root})) : IsAddress(a)}
<1>1. /\ root.children \in Seq(ToSet(root.children)) /\ IsAddress(root)
      /\ \A c \in ToSet(root.children) :
            /\ c.children \in Seq(ToSet(c.children))
            /\ IsAddress(c) /\ \A d \in ToSet(c.children) : IsAddress(d)
  BY TextIs, InputsAssumption
<1>2. /\ root \in T /\ \A c \in ToSet(root.children) : c \in T /\ \A d \in ToSet(c.children) : d \in T
  BY <1>1, InsideIs
<1> HIDE DEF T, root
<1>3. ASSUME NEW n, n.children \in Seq(ToSet(n.children)), \A c \in ToSet(n.children) : c \in T
      PROVE  Given(n, "ADDRESS") \in Seq(T)
  <2>1. Given(n, "ADDRESS") \in Seq({c \in ToSet(n.children) : c.key = "ADDRESS"})
    BY <1>3, GivenIs
  <2>2. {c \in ToSet(n.children) : c.key = "ADDRESS"} \subseteq T
    BY <1>3
  <2> QED
    BY <2>1, <2>2, SeqMonotonic
<1>4. nodes \in Seq(T)
  <2>1. CASE root.key = "ADDRESS"
    BY <1>2, <2>1, OneOf DEF RedirectNodes
  <2>2. CASE root.key = "ADDRESS_LIST"
    BY <1>1, <1>2, <1>3, <2>2 DEF RedirectNodes
  <2>3. CASE root.key = "DESCRIPTION"
    <3> DEFINE part(c) == CASE c.key = "ADDRESS" -> <<c>>
                            [] c.key = "ADDRESS_LIST" -> Given(c, "ADDRESS")
                            [] OTHER -> <<>>
               parts == [i \in DOMAIN root.children |-> part(root.children[i])]
    <3>1. nodes = FlattenSeq(parts)
      BY <2>3 DEF RedirectNodes
    <3>2. ASSUME NEW c \in ToSet(root.children) PROVE part(c) \in Seq(T)
      <4>1. CASE c.key = "ADDRESS"
        BY <1>2, <4>1, OneOf
      <4>2. CASE c.key = "ADDRESS_LIST"
        BY <1>1, <1>2, <1>3, <4>2
      <4>3. CASE c.key \notin {"ADDRESS", "ADDRESS_LIST"}
        <5>1. part(c) = <<>>
          BY <4>3
        <5> HIDE DEF part
        <5> QED
          BY <5>1
      <4> QED
        BY <4>1, <4>2, <4>3
    <3>3. /\ DOMAIN root.children = 1..Len(root.children) /\ Len(root.children) \in Nat
          /\ \A i \in 1..Len(root.children) : root.children[i] \in ToSet(root.children)
      BY <1>1, ListOf
    <3> HIDE DEF part
    <3>4. parts = [i \in 1..Len(root.children) |-> parts[i]]
          /\ \A i \in 1..Len(root.children) : parts[i] \in Seq(T)
      BY <3>2, <3>3
    <3> HIDE DEF parts
    <3>5. parts \in Seq(Seq(T))
      BY <3>3, <3>4, Mapped
    <3> QED
      BY <3>1, <3>5, FlattenSeqIs
  <2>4. CASE root.key \notin {"ADDRESS", "ADDRESS_LIST", "DESCRIPTION"}
    <3>1. nodes = <<>>
      BY <2>4 DEF RedirectNodes
    <3> QED
      BY <3>1
  <2> QED
    BY <2>1, <2>2, <2>3, <2>4
<1>5. \A a \in ToSet(nodes) : ~MissingScalar(a, "HOST") /\ ValueOf(a, "PROTOCOL", "TCP") \in Protocols
  BY DEF RedirectRefused, Protocols, root
<1> DEFINE R == [address : Places, protocol_given : BOOLEAN]
           read(a) == [address |-> ParseAddress(a), protocol_given |-> "PROTOCOL" \in Keys(a)]
           offer == ParseRedirectAddresses(root)
<1>6. offer = [i \in DOMAIN nodes |-> read(nodes[i])]
  BY DEF ParseRedirectAddresses
<1> HIDE DEF nodes
<1>7. /\ DOMAIN nodes = 1..Len(nodes) /\ Len(nodes) \in Nat
      /\ \A i \in 1..Len(nodes) : nodes[i] \in ToSet(nodes) /\ nodes[i] \in T
  BY <1>4, ListOf
<1>8. ASSUME NEW i \in 1..Len(nodes) PROVE read(nodes[i]) \in R
  <2>1. "HOST" \in Keys(nodes[i]) /\ ValueOf(nodes[i], "PROTOCOL", "TCP") \in Protocols
    BY <1>5, <1>7 DEF MissingScalar
  <2>2. IsAddress(nodes[i])
    BY <1>7 DEF T
  <2>3. ParseAddress(nodes[i]) \in Places
    BY <2>1, <2>2, AddressTyped
  <2>4. ("PROTOCOL" \in Keys(nodes[i])) \in BOOLEAN
    OBVIOUS
  <2> QED
    BY <2>3, <2>4
<1> HIDE DEF offer, read, R
<1>9. offer = [i \in 1..Len(nodes) |-> offer[i]] /\ \A i \in 1..Len(nodes) : offer[i] \in R
  BY <1>6, <1>7, <1>8
<1>10. offer \in Seq(R)
  BY <1>7, <1>9, Mapped
<1> QED
  BY <1>10 DEF offer, R, root

(* What a description read from an Easy Connect string holds.              *)
LEMMA OptionalIs ==
    ASSUME NEW optional, IsOptional(optional, Nat), optional # {}
    PROVE  Min(optional) \in Nat
<1>1. PICK x \in optional : x \in Nat
  BY DEF IsOptional
<1>2. \A y \in optional : y = x
  BY DEF IsOptional
<1>3. \E z \in optional : \A y \in optional : z <= y
  BY <1>1, <1>2
<1>4. Min(optional) \in optional
  BY <1>3 DEF Min
<1> QED
  BY <1>1, <1>2, <1>4

(* EasyConnectToDescriptor writes a description whose addresses have hosts *)
(* and ports.                                                              *)
LEMMA EasyConnectIs ==
    ASSUME NEW e, IsEasyConnect(e)
    PROVE  LET root == EasyConnectToDescriptor(e) IN
           /\ root.key = "DESCRIPTION" /\ root.children \in Seq(ToSet(root.children))
           /\ IsDescription(root)
<1> DEFINE protocol == IF e.scheme = "tcps" THEN "TCPS" ELSE "TCP"
           port(h) == IF h.port = {} THEN 1521 ELSE Min(h.port)
           address(h) == Tree("ADDRESS", <<Leaf("PROTOCOL", protocol), Leaf("HOST", h.host),
                                           Digits("PORT", port(h))>>)
           parameters == DOMAIN e.parameters
           secure == {i \in parameters :
                         e.parameters[i].key \in {"SSL_SERVER_DN_MATCH", "SSL_SERVER_CERT_DN"}}
           security == Selected(e.parameters, secure)
           names == <<Leaf("SERVER", e.server), Leaf("INSTANCE_NAME", e.instance)>>
           data == Tree("CONNECT_DATA",
                        <<Leaf("SERVICE_NAME", e.service)>>
                            \o Selected(names, {i \in 1..2 : names[i].value # "none"}))
           tls == Tree("SECURITY", security)
           first == Selected(e.parameters, parameters \ secure)
           second == [i \in DOMAIN e.hosts |-> address(e.hosts[i])]
           fourth == IF security = <<>> THEN <<>> ELSE <<tls>>
           root == EasyConnectToDescriptor(e)
           U == ToSet(e.parameters) \cup {address(h) : h \in ToSet(e.hosts)} \cup {data, tls}
           T == {n \in U :
                    /\ n.key = "ADDRESS" => IsAddress(n)
                    /\ n.key = "ADDRESS_LIST" => HoldsAddresses(n)}
<1>1. root = Tree("DESCRIPTION", first \o second \o <<data>> \o fourth)
  BY DEF EasyConnectToDescriptor
<1>2. /\ e.hosts \in Seq(ToSet(e.hosts)) /\ e.parameters \in Seq(ToSet(e.parameters))
      /\ \A h \in ToSet(e.hosts) : h.host \in STRING /\ IsOptional(h.port, Nat)
      /\ \A p \in ToSet(e.parameters) : IsLeaf(p)
  BY DEF IsEasyConnect
<1> USE DEF U
<1>3. ToSet(e.parameters) \subseteq U /\ data \in U /\ tls \in U /\ \A h \in ToSet(e.hosts) : address(h) \in U
  <2> HIDE DEF address, data, tls
  <2> QED
    OBVIOUS
<1> HIDE DEF U
<1>4. data \in T /\ tls \in T
  <2>1. data.key = "CONNECT_DATA" /\ tls.key = "SECURITY"
    BY DEF Tree
  <2> HIDE DEF data, tls
  <2> QED
    BY <1>3, <2>1
<1>5. ASSUME NEW p \in ToSet(e.parameters) PROVE p \in T
  <2>1. p.children = <<>>
    BY <1>2 DEF IsLeaf
  <2>2. ToSet(p.children) = {} /\ p.children \in Seq(ToSet(p.children))
    BY <2>1 DEF ToSet
  <2>3. IsAddress(p) /\ HoldsAddresses(p)
    BY <2>2 DEF IsAddress, HoldsAddresses
  <2> QED
    BY <1>3, <2>3
<1>6. ASSUME NEW h \in ToSet(e.hosts) PROVE address(h) \in T
  <2> DEFINE c == <<Leaf("PROTOCOL", protocol), Leaf("HOST", h.host), Digits("PORT", port(h))>>
             a == address(h)
  <2>1. port(h) \in Nat /\ h.host \in STRING
    BY <1>2, OptionalIs
  <2>2. a.key = "ADDRESS" /\ a.children = c
    BY DEF Tree
  <2> DEFINE X == {Leaf("PROTOCOL", protocol), Leaf("HOST", h.host), Digits("PORT", port(h))}
  <2>3. c \in Seq(X)
    <3> DEFINE x1 == Leaf("PROTOCOL", protocol)
               x2 == Leaf("HOST", h.host)
               x3 == Digits("PORT", port(h))
    <3>1. c = <<x1, x2, x3>> /\ X = {x1, x2, x3}
      OBVIOUS
    <3> HIDE DEF x1, x2, x3, c, X
    <3>2. <<x1, x2, x3>> \in Seq({x1, x2, x3})
      OBVIOUS
    <3> QED
      BY <3>1, <3>2
  <2> HIDE DEF c
  <2>4. c \in Seq(ToSet(c)) /\ ToSet(c) \subseteq X
    <3> HIDE DEF X
    <3> QED
      BY <2>3, ListOf
  <2>5. \A x \in X : (x.key = "HOST" => x.value \in STRING) /\ (x.key = "PORT" => x.number \in Nat)
    <3> HIDE DEF port
    <3> QED
      BY <2>1 DEF Leaf, Digits
  <2> HIDE DEF X, a
  <2>6. IsAddress(a)
    BY <2>2, <2>4, <2>5 DEF IsAddress
  <2>7. a \in U
    BY <1>3 DEF a
  <2>8. a \in T
    BY <2>2, <2>6, <2>7
  <2> QED
    BY <2>8 DEF a
<1> HIDE DEF T, data, tls, address
<1>7. first \in Seq(T) /\ security \in Seq(T)
  <2>1. \A places : Selected(e.parameters, places) \in Seq(T)
    <3> SUFFICES ASSUME NEW places PROVE Selected(e.parameters, places) \in Seq(T)
      OBVIOUS
    <3>1. e.parameters \in Seq(T)
      <4>1. ToSet(e.parameters) \subseteq T
        BY <1>5
      <4> QED
        BY <1>2, <4>1, SeqMonotonic
    <3>2. /\ Selected(e.parameters, places)
                \in Seq({e.parameters[i] : i \in places \cap (1..Len(e.parameters))})
      BY <3>1, SelectedIs
    <3>3. {e.parameters[i] : i \in places \cap (1..Len(e.parameters))} \subseteq T
      BY <3>1, ElementOfSeq
    <3> QED
      BY <3>2, <3>3, SeqMonotonic
  <2> QED
    BY <2>1
<1>8. second \in Seq(T)
  <2>1. /\ DOMAIN e.hosts = 1..Len(e.hosts) /\ Len(e.hosts) \in Nat
        /\ \A i \in 1..Len(e.hosts) : e.hosts[i] \in ToSet(e.hosts)
    BY <1>2, ListOf
  <2>2. second = [i \in 1..Len(e.hosts) |-> second[i]]
        /\ \A i \in 1..Len(e.hosts) : second[i] \in T
    BY <1>6, <2>1
  <2> HIDE DEF second
  <2> QED
    BY <2>1, <2>2, Mapped
<1>9. <<data>> \in Seq(T) /\ fourth \in Seq(T)
  <2>1. <<data>> \in Seq(T) /\ <<tls>> \in Seq(T)
    BY <1>4, OneOf
  <2>2. <<>> \in Seq(T)
    OBVIOUS
  <2> QED
    BY <2>1, <2>2
<1> DEFINE all == first \o second \o <<data>> \o fourth
<1>10. all \in Seq(T)
  <2> HIDE DEF first, second, fourth
  <2>1. first \o second \in Seq(T)
    BY <1>7, <1>8, ConcatProperties
  <2>2. first \o second \o <<data>> \in Seq(T)
    BY <1>9, <2>1, ConcatProperties
  <2> QED
    BY <1>9, <2>2, ConcatProperties
<1>11. root.key = "DESCRIPTION" /\ root.children = all
  <2> HIDE DEF all, root
  <2> QED
    BY <1>1 DEF Tree, all
<1> HIDE DEF all, root
<1>12. all \in Seq(ToSet(all)) /\ ToSet(all) \subseteq T
  BY <1>10, ListOf
<1>13. \A n \in T : (n.key = "ADDRESS" => IsAddress(n)) /\ (n.key = "ADDRESS_LIST" => HoldsAddresses(n))
  BY DEF T
<1>14. IsDescription(root)
  BY <1>11, <1>12, <1>13 DEF IsDescription, HoldsAddresses
<1> QED
  BY <1>11, <1>12, <1>14 DEF root

(* An alias, a descriptor or an easy connect string: its lists of          *)
(* addresses.                                                              *)
LEMMA SourceIs ==
    ASSUME NEW s, IsSecret(s), Sources(s) # {}, ~SourceRefused(s),
           ~ConnectDescriptorRefused(DescriptorOf(s))
    PROVE  ParseConnectDescriptor(DescriptorOf(s)).lists \in Seq(Lists)
<1> DEFINE x == CHOOSE y \in Sources(s) : TRUE
<1>1. x \in Sources(s)
  OBVIOUS
<1> HIDE DEF x
<1>2. /\ x.form \in {"alias", "descriptor", "easy"}
      /\ x.form = "descriptor" => IsText(x.descriptor)
      /\ x.form = "easy" => IsEasyConnect(x.easy)
  BY <1>1 DEF IsSecret, Sources
<1>3. DescriptorOf(s) = CASE x.form = "alias" -> CHOOSE d \in FindTnsAlias(s.file, x.alias) : TRUE
                          [] x.form = "easy" -> EasyConnectToDescriptor(x.easy)
                          [] x.form = "descriptor" -> x.descriptor
  BY DEF DescriptorOf, x
<1>4. ASSUME NEW root, IsText(root), DescriptorOf(s) = root
      PROVE  ParseConnectDescriptor(DescriptorOf(s)).lists \in Seq(Lists)
  BY <1>4, TextIs, ParsedIs
<1>5. CASE x.form = "descriptor"
  BY <1>2, <1>3, <1>4, <1>5
<1>6. CASE x.form = "easy"
  <2>1. DescriptorOf(s) = EasyConnectToDescriptor(x.easy)
    BY <1>3, <1>6
  <2> DEFINE root == EasyConnectToDescriptor(x.easy)
  <2>2. root.key = "DESCRIPTION" /\ IsDescription(root)
    BY <1>2, <1>6, EasyConnectIs
  <2> HIDE DEF root
  <2>3. ~DescriptionRefused(root)
    BY <2>1, <2>2 DEF ConnectDescriptorRefused, root
  <2>4. ParseConnectDescriptor(root) = ParseDescription(root)
    BY <2>2 DEF ParseConnectDescriptor
  <2> QED
    BY <2>1, <2>2, <2>3, <2>4, DescriptionTyped DEF root
<1>7. CASE x.form = "alias"
  <2> DEFINE found == FindTnsAlias(s.file, x.alias)
             d == CHOOSE y \in found : TRUE
  <2>1. ~TnsAliasRefused(s.file, x.alias)
    BY <1>1, <1>7 DEF SourceRefused
  <2>2. {i \in DOMAIN s.file : s.file[i].alias = x.alias /\ ~s.file[i].comment} # {}
    <3> DEFINE defined == {i \in DOMAIN s.file : s.file[i].alias = x.alias /\ ~s.file[i].comment}
    <3>1. Cardinality(defined) = 1
      BY <2>1 DEF TnsAliasRefused
    <3> HIDE DEF defined
    <3>2. defined # {}
      BY <3>1, FS_EmptySet
    <3> QED
      BY <3>2 DEF defined
  <2>3. found # {} /\ found \subseteq {y.descriptor : y \in ToSet(s.file)}
    BY <2>2 DEF FindTnsAlias, ToSet
  <2>4. d \in found
    BY <2>3
  <2>5. DescriptorOf(s) = d
    BY <1>3, <1>7
  <2> HIDE DEF d, found
  <2>6. IsText(d)
    BY <2>3, <2>4 DEF IsSecret
  <2> QED
    BY <1>4, <2>5, <2>6
<1> QED
  BY <1>2, <1>5, <1>6, <1>7

(* Shuffled, cut to one or left as it is, a list is a list of its          *)
(* elements.                                                               *)
LEMMA ActiveChildrenAre ==
    ASSUME NEW S, NEW s \in Seq(S), NEW failover, NEW balance,
           NEW t \in ActiveChildren(s, failover, balance)
    PROVE  t \in Seq(S)
<1>1. /\ DOMAIN s = 1..Len(s) /\ Len(s) \in Nat /\ ToSet(s) \subseteq S
      /\ \A i \in 1..Len(s) : s[i] \in S
  BY ListOf
<1>2. CASE t = s
  BY <1>2
<1>3. CASE t \in Shuffles(s)
  <2>1. PICK p \in Bijection(DOMAIN s, DOMAIN s) : t = [i \in DOMAIN s |-> s[p[i]]]
    BY <1>3 DEF Shuffles
  <2>2. p \in [1..Len(s) -> 1..Len(s)]
    BY <1>1 DEF Bijection, Injection
  <2>3. t = [i \in 1..Len(s) |-> t[i]] /\ \A i \in 1..Len(s) : t[i] \in S
    BY <1>1, <2>1, <2>2
  <2> QED
    BY <1>1, <2>3, Mapped
<1>4. CASE t \in {<<x>> : x \in ToSet(s)}
  BY <1>1, <1>4, OneOf
<1>5. CASE Len(s) > 1 /\ t = <<Head(s)>>
  <2>1. Head(s) = s[1] /\ 1 \in 1..Len(s)
    BY <1>1, <1>5 DEF Head
  <2> QED
    BY <1>1, <1>5, <2>1, OneOf
<1>6. CASE Len(s) <= 1
  BY <1>2, <1>6 DEF ActiveChildren
<1>7. CASE ~(Len(s) <= 1)
  <2>1. Len(s) > 1
    BY <1>1, <1>7
  <2>2. t \in Shuffles(s) \/ t = s \/ t \in {<<x>> : x \in ToSet(s)} \/ t = <<Head(s)>>
    BY <1>7 DEF ActiveChildren
  <2> QED
    BY <1>2, <1>3, <1>4, <1>5, <2>1, <2>2
<1> QED
  BY <1>6, <1>7

(* A secret without a connect string is one address, that of its host and  *)
(* port.                                                                   *)
LEMMA PlainSecret ==
    ASSUME NEW s, Sources(s) = {}
    PROVE  ConnectionFromSecret(s).lists =
               <<[addresses |-> <<[host |-> s.host, port |-> Either(s.port, 1521),
                                   protocol |-> IF s.protocol = "tcps" THEN "TCPS" ELSE "TCP"]>>,
                  failover |-> TRUE, balance |-> FALSE]>>
BY DEF ConnectionFromSecret

(* The plan of a secret that is not refused: a list of its addresses.      *)
LEMMA PlansAreTyped ==
    ASSUME NEW i \in DOMAIN Secrets, ~SecretRefused(Secrets[i]),
           NEW o \in ConnectOrders(ConnectionFromSecret(Secrets[i]))
    PROVE  o \in Seq(Places)
<1> DEFINE s == Secrets[i]
           c == ConnectionFromSecret(s)
<1>1. IsSecret(s)
  BY InputsAssumption
<1>2. c.lists \in Seq(Lists)
  <2>1. CASE Sources(s) = {}
    <3> DEFINE protocol == IF s.protocol = "tcps" THEN "TCPS" ELSE "TCP"
               place == [host |-> s.host, port |-> Either(s.port, 1521), protocol |-> protocol]
               list == [addresses |-> <<place>>, failover |-> TRUE, balance |-> FALSE]
    <3>1. s.host \in STRING /\ IsOptional(s.port, Nat)
      BY <1>1 DEF IsSecret
    <3>2. Either(s.port, 1521) \in Nat
      BY <3>1, OptionalIs DEF Either
    <3>3. protocol \in Protocols
      BY DEF Protocols
    <3>4. c.lists = <<list>>
      BY <2>1, PlainSecret
    <3> HIDE DEF protocol, c, s
    <3>5. place \in Places
      BY <3>1, <3>2, <3>3 DEF Places
    <3> HIDE DEF place
    <3>6. <<place>> \in Seq(Places)
      BY <3>5, OneOf
    <3>7. list \in Lists
      BY <3>6, ListRecord
    <3> HIDE DEF list
    <3> QED
      BY <3>4, <3>7, OneOf
  <2>2. CASE Sources(s) # {}
    <3>1. ~SourceRefused(s) /\ ~ConnectDescriptorRefused(DescriptorOf(s))
      BY <2>2 DEF SecretRefused
    <3>2. c.lists = ParseConnectDescriptor(DescriptorOf(s)).lists
      BY <2>2 DEF ConnectionFromSecret
    <3> QED
      BY <1>1, <2>2, <3>1, <3>2, SourceIs
  <2> QED
    BY <2>1, <2>2
<1> HIDE DEF c, s
<1>3. PICK lists \in ActiveChildren(c.lists, c.failover, c.balance) :
          \E f \in [DOMAIN lists -> UNION {ActiveChildren(l.addresses, l.failover, l.balance) :
                                              l \in ToSet(lists)}] :
              /\ \A j \in DOMAIN lists : f[j] \in ActiveChildren(lists[j].addresses,
                                                     lists[j].failover, lists[j].balance)
              /\ o = FlattenSeq(f)
  BY DEF ConnectOrders, c, s
<1>4. lists \in Seq(Lists)
  BY <1>2, <1>3, ActiveChildrenAre
<1>5. PICK f \in [DOMAIN lists -> UNION {ActiveChildren(l.addresses, l.failover, l.balance) :
                                            l \in ToSet(lists)}] :
          /\ \A j \in DOMAIN lists : f[j] \in ActiveChildren(lists[j].addresses,
                                                 lists[j].failover, lists[j].balance)
          /\ o = FlattenSeq(f)
  BY <1>3
<1>6. DOMAIN lists = 1..Len(lists) /\ Len(lists) \in Nat /\ \A j \in 1..Len(lists) : lists[j] \in Lists
  BY <1>4, ListOf
<1>7. \A j \in 1..Len(lists) : f[j] \in Seq(Places)
  <2> SUFFICES ASSUME NEW j \in 1..Len(lists) PROVE f[j] \in Seq(Places)
    OBVIOUS
  <2>1. lists[j].addresses \in Seq(Places)
    BY <1>6 DEF Lists
  <2>2. f[j] \in ActiveChildren(lists[j].addresses, lists[j].failover, lists[j].balance)
    BY <1>5, <1>6
  <2> QED
    BY <2>1, <2>2, ActiveChildrenAre
<1>8. f = [j \in 1..Len(lists) |-> f[j]]
  BY <1>5, <1>6
<1>9. f \in Seq(Seq(Places))
  BY <1>6, <1>7, <1>8, Mapped
<1> QED
  BY <1>5, <1>9, FlattenSeqIs
-----------------------------------------------------------------------------
(* A function on 1..n is a list of length n.                               *)
LEMMA ListIs ==
    ASSUME NEW S, NEW n \in Nat, NEW f \in [1..n -> S]
    PROVE  f \in Seq(S) /\ Len(f) = n
OBVIOUS

(* The chain of levels is a sequence that steps push on, pop from, and     *)
(* change at its top.                                                      *)
LEMMA TopIs ==
    ASSUME ConnectTyped, stack # <<>>
    PROVE  /\ Len(stack) \in Nat /\ Len(stack) >= 1
           /\ Top = stack[Len(stack)] /\ Top \in Levels
<1>1. stack \in Seq(Levels)
  BY DEF ConnectTyped
<1>2. Len(stack) \in Nat \ {0}
  BY <1>1, EmptySeq
<1>3. stack[Len(stack)] \in Levels
  BY <1>1, <1>2, ElementOfSeq
<1> QED
  BY <1>2, <1>3 DEF Top, Last

(* A list without its last element.                                        *)
LEMMA FrontIs ==
    ASSUME ConnectTyped, stack # <<>>
    PROVE  /\ Front(stack) \in Seq(Levels) /\ Len(Front(stack)) = Len(stack) - 1
           /\ \A i \in 1..Len(stack) - 1 : Front(stack)[i] = stack[i]
<1> DEFINE n == Len(stack)
<1>1. stack \in Seq(Levels) /\ n \in Nat /\ n >= 1
  BY TopIs DEF ConnectTyped
<1>2. \A i \in 1..n - 1 : stack[i] \in Levels
  <2> SUFFICES ASSUME NEW i \in 1..n - 1 PROVE stack[i] \in Levels
    OBVIOUS
  <2>1. i \in 1..Len(stack)
    BY <1>1
  <2> QED
    BY <1>1, <2>1, ElementOfSeq
<1>3. 1 \in Int /\ n - 1 \in Int
  BY <1>1
<1>4. /\ SubSeq(stack, 1, n - 1) \in Seq(Levels)
      /\ Len(SubSeq(stack, 1, n - 1)) = IF 1 <= n - 1 THEN n - 1 - 1 + 1 ELSE 0
      /\ \A i \in 1..n - 1 - 1 + 1 : SubSeq(stack, 1, n - 1)[i] = stack[1 + i - 1]
  BY <1>2, <1>3, SubSeqProperties
<1>5. Front(stack) = SubSeq(stack, 1, n - 1)
  BY DEF Front
<1>6. n - 1 - 1 + 1 = n - 1 /\ (IF 1 <= n - 1 THEN n - 1 - 1 + 1 ELSE 0) = n - 1
  <2>1. n \in Nat /\ n >= 1
    BY <1>1
  <2> HIDE DEF n
  <2> QED
    BY <2>1
<1>7. ASSUME NEW i \in 1..n - 1 PROVE SubSeq(stack, 1, n - 1)[i] = stack[i]
  <2>1. 1 + i - 1 = i
    OBVIOUS
  <2> QED
    BY <1>4, <1>6, <2>1
<1> QED
  BY <1>4, <1>5, <1>6, <1>7

(* A list with its last element replaced.                                  *)
LEMMA ReplacedIs ==
    ASSUME ConnectTyped, stack # <<>>, NEW l \in Levels
    PROVE  LET s == Append(Front(stack), l) IN
           /\ s \in Seq(Levels) /\ s # <<>> /\ Len(s) = Len(stack) /\ s[Len(stack)] = l
           /\ \A i \in 1..Len(stack) - 1 : s[i] = stack[i]
<1>1. /\ Front(stack) \in Seq(Levels) /\ Len(Front(stack)) = Len(stack) - 1
      /\ \A i \in 1..Len(stack) - 1 : Front(stack)[i] = stack[i]
  BY FrontIs
<1>2. LET s == Append(Front(stack), l) IN
      /\ s \in Seq(Levels) /\ s # <<>> /\ Len(s) = Len(Front(stack)) + 1
      /\ \A i \in 1..Len(Front(stack)) : s[i] = Front(stack)[i]
      /\ s[Len(Front(stack)) + 1] = l
  BY <1>1, AppendProperties
<1>3. Len(stack) \in Nat
  BY TopIs
<1>4. Len(Front(stack)) + 1 = Len(stack)
  BY <1>1, <1>3
<1> QED
  BY <1>1, <1>2, <1>4

(* A list with an element more.                                            *)
LEMMA PushedIs ==
    ASSUME ConnectTyped, NEW l \in Levels
    PROVE  LET s == Append(stack, l) IN
           /\ Len(stack) \in Nat
           /\ s \in Seq(Levels) /\ s # <<>> /\ Len(s) = Len(stack) + 1 /\ s[Len(stack) + 1] = l
           /\ \A i \in 1..Len(stack) : s[i] = stack[i]
<1>1. stack \in Seq(Levels)
  BY DEF ConnectTyped
<1> QED
  BY <1>1, AppendProperties, LenProperties

(* The planned address that is tried has a host, a port and a protocol.    *)
LEMMA OriginalIs ==
    ASSUME ConnectTyped, at # 0
    PROVE  Original \in Places
<1>1. order \in Seq(Places) /\ at \in 1..Len(order)
  BY LenProperties DEF ConnectTyped, TypeOK
<1> QED
  BY <1>1, ElementOfSeq DEF Original

(* A target of a level that has come to one.                               *)
LEMMA TargetOf ==
    ASSUME NEW l \in Levels, NEW t \in 1..Len(l.targets)
    PROVE  l.targets[t] \in Places
<1>1. l.targets \in Seq(Places)
  BY DEF Levels
<1> QED
  BY <1>1, ElementOfSeq

(* So has the target at the top of the chain, where there is one.          *)
LEMMA TargetIs ==
    ASSUME ConnectTyped, Nested, phase \in {"open"} \cup Connected
    PROVE  /\ stack # <<>> /\ Top.next_target \in 1..Len(Top.targets)
           /\ Target \in Places /\ Target.protocol = Original.protocol
<1>1. stack # <<>> /\ Top.next_target # 0
  BY DEF Nested
<1>2. Top \in Levels /\ Len(stack) \in 1..Len(stack) /\ Top = stack[Len(stack)]
  BY <1>1, TopIs
<1>3. Top.next_target <= Len(Top.targets)
  BY <1>2 DEF Nested
<1>4. Top.next_target \in 1..Len(Top.targets)
  BY <1>1, <1>2, <1>3, LenProperties DEF Levels
<1>5. Target \in Places
  BY <1>2, <1>4, TargetOf DEF Target
<1> QED
  BY <1>1, <1>2, <1>4, <1>5 DEF Nested, Target

(* A listener names addresses of the protocol in use, none on the path.    *)
LEMMA HopsAre ==
    ASSUME ConnectTyped, Nested, phase = "redirect", NEW o \in Offers, ~RedirectRefused(o.address),
           ~ChangesProtocol(ParseRedirectAddresses(o.address))
    PROVE  LET hops == Hops(ParseRedirectAddresses(o.address)) IN
           /\ hops \in Seq(Places)
           /\ \A t \in 1..Len(hops) :
                /\ hops[t].protocol = Original.protocol
                /\ \A j \in 1..Len(stack) : AddressKey(hops[t]) # AddressKey(Current(stack[j]))
<1> DEFINE offer == ParseRedirectAddresses(o.address)
           hop(r) == IF r.protocol_given THEN r.address
                     ELSE [r.address EXCEPT !.protocol = Target.protocol]
           hops == [i \in DOMAIN offer |-> hop(offer[i])]
           walked == {AddressKey(l.targets[l.next_target]) : l \in ToSet(stack)}
           places == {i \in DOMAIN offer : AddressKey(hops[i]) \notin walked}
<1>1. offer \in Seq([address : Places, protocol_given : BOOLEAN])
  BY OffersAreTyped
<1>2. Hops(offer) = Selected(hops, places)
  BY DEF Hops
<1>3. Target \in Places /\ Target.protocol = Original.protocol
  BY TargetIs DEF Connected, Waiting, Handshake
<1>4. \A r \in ToSet(offer) : r.protocol_given => r.address.protocol = Target.protocol
  BY DEF ChangesProtocol
<1> HIDE DEF offer
<1>5. ASSUME NEW i \in 1..Len(offer)
      PROVE  hop(offer[i]) \in Places /\ hop(offer[i]).protocol = Original.protocol
  <2>1. offer[i] \in [address : Places, protocol_given : BOOLEAN]
    BY <1>1, ElementOfSeq
  <2>2. offer[i] \in ToSet(offer)
    BY <1>1, LenProperties DEF ToSet
  <2>3. CASE offer[i].protocol_given
    BY <1>3, <1>4, <2>1, <2>2, <2>3
  <2>4. CASE ~offer[i].protocol_given
    <3>1. offer[i].address \in Places
      BY <2>1
    <3>2. [offer[i].address EXCEPT !.protocol = Target.protocol] \in Places
      BY <1>3, <3>1 DEF Places
    <3>3. [offer[i].address EXCEPT !.protocol = Target.protocol].protocol = Target.protocol
      BY <1>3, <3>1 DEF Places
    <3> QED
      BY <1>3, <2>4, <3>2, <3>3
  <2> QED
    BY <2>3, <2>4
<1>6. Len(offer) \in Nat /\ DOMAIN offer = 1..Len(offer)
  BY <1>1, LenProperties
<1>7. /\ hops \in Seq(Places) /\ Len(hops) = Len(offer)
      /\ \A i \in 1..Len(offer) : hops[i].protocol = Original.protocol
  <2>1. \A i \in 1..Len(offer) : hops[i] = hop(offer[i])
    BY <1>6
  <2>2. hops = [i \in 1..Len(offer) |-> hops[i]]
    BY <1>6
  <2> HIDE DEF hops, hop
  <2>3. hops \in [1..Len(offer) -> Places]
    BY <1>5, <2>1, <2>2
  <2> QED
    BY <1>5, <1>6, <2>1, <2>3, ListIs
<1>8. \A i \in places : AddressKey(hops[i]) \notin walked
  OBVIOUS
<1>9. \A j \in 1..Len(stack) : AddressKey(Current(stack[j])) \in walked
  <2>1. DOMAIN stack = 1..Len(stack)
    BY LenProperties DEF ConnectTyped
  <2> QED
    BY <2>1 DEF ToSet, Current
<1> HIDE DEF hops, walked, places
<1>10. Selected(hops, places) \in Seq({hops[i] : i \in places \cap (1..Len(hops))})
  BY <1>7, SelectedIs
<1>11. {hops[i] : i \in places \cap (1..Len(hops))} \in SUBSET Places
  BY <1>7, ElementOfSeq
<1>12. Selected(hops, places) \in Seq(Places)
  BY <1>10, <1>11
<1>13. ASSUME NEW t \in 1..Len(Hops(offer))
       PROVE  /\ Hops(offer)[t].protocol = Original.protocol
              /\ \A j \in 1..Len(stack) : AddressKey(Hops(offer)[t]) # AddressKey(Current(stack[j]))
  <2>1. Hops(offer)[t] \in {hops[i] : i \in places \cap (1..Len(hops))}
    BY <1>2, <1>10, ElementOfSeq
  <2> QED
    BY <1>7, <1>8, <1>9, <2>1
<1> QED
  BY <1>2, <1>12, <1>13 DEF offer

-----------------------------------------------------------------------------
(* Every step keeps the types.                                             *)
LEMMA PhasesAre ==
    /\ Handshake \subseteq Phases /\ Dialling \subseteq Phases /\ Connected \subseteq Phases
    /\ Handshake = {"connect", "resent", "redirect"}
    /\ Connected = {"connect", "resent", "redirect", "probe", "protocol", "types", "challenge",
                    "proof", "accepted", "attributes", "ready"}
    /\ Dialling = {"open", "connect", "resent", "redirect"}
    /\ {"pass", "delay", "resolve", "chains", "chain", "failed"} \subseteq Phases
BY DEF Handshake, Dialling, Connected, Waiting, Phases, Logon

(* No stream is a stream record too.                                       *)
LEMMA NoTransportTyped ==
    NoTransport \in [protocol : {"none"} \cup Protocols, name : STRING \cup {"none"}, armed : BOOLEAN]
BY DEF NoTransport, Protocols

(* What every type says but those of the variables a step is about.        *)
LEMMA InitTyped ==
    ASSUME Init
    PROVE  ConnectTyped
<1>1. order \in Seq(Places)
  <2>1. CASE SecretRefused(Secrets[secret])
    BY <2>1 DEF Init
  <2>2. CASE ~SecretRefused(Secrets[secret])
    BY <2>2, PlansAreTyped DEF Init, config
  <2> QED
    BY <2>1, <2>2
<1>2. Len(order) \in Nat
  BY <1>1, LenProperties
<1>3. phase \in {"failed", "pass"} /\ failure \in {"secret", "none"}
  BY DEF Init
<1>4. MaximumOpens \in Nat
  BY ConnectAssumption
<1>5. 0 \in 0..Len(order) /\ 0 \in 0..MaximumOpens
  BY <1>2, <1>4
<1>6. resolved = <<>> /\ chain = 0 /\ stack = <<>> /\ Len(resolved) = 0
  BY DEF Init
<1>7. phase \in Phases /\ failure \in Failover \cup Final \cup {"none"}
  BY <1>3 DEF Phases, Final
<1>8. last \in [why : Failover \cup {"none"}, depth : Nat]
  BY DEF Init
<1>9. transport \in [protocol : {"none"} \cup Protocols, name : STRING \cup {"none"}, armed : BOOLEAN]
  BY NoTransportTyped DEF Init
<1>10. transport.protocol \in {"none", "TCP", "TCPS"} /\ transport.armed \in BOOLEAN
  BY <1>9 DEF Protocols
<1>11. TypeOK
  <2>1. secret \in DOMAIN Secrets /\ proofs \in Nat /\ {expired, cancelled} \subseteq BOOLEAN
    BY DEF Init
  <2>2. pass \in Nat /\ at \in 0..Len(order) /\ chain \in 0..Len(resolved) /\ opens \in 0..MaximumOpens
    BY <1>5, <1>6 DEF Init
  <2> QED
    BY <1>7, <1>8, <1>10, <2>1, <2>2 DEF TypeOK
<1>12. resolved \in Seq(STRING) /\ stack \in Seq(Levels)
  BY <1>6
<1> QED
  BY <1>1, <1>8, <1>9, <1>11, <1>12 DEF ConnectTyped

(* The parts of the state that steps change together.                      *)
LoopsTyped ==
    /\ pass \in Nat /\ at \in 0..Len(order) /\ chain \in 0..Len(resolved) /\ opens \in 0..MaximumOpens
    /\ resolved \in Seq(STRING) /\ stack \in Seq(Levels)

EndsTyped ==
    /\ phase \in Phases /\ failure \in Failover \cup Final \cup {"none"}
    /\ transport \in [protocol : {"none"} \cup Protocols, name : STRING \cup {"none"}, armed : BOOLEAN]
    /\ last \in [why : Failover \cup {"none"}, depth : Nat]
    /\ {expired, cancelled} \subseteq BOOLEAN /\ proofs \in Nat

(* The parts of ConnectTyped that the steps change apart from each other.  *)
LEMMA TypedParts ==
    ConnectTyped <=> /\ LoopsTyped /\ EndsTyped
                     /\ secret \in DOMAIN Secrets /\ order \in Seq(Places)
<1>1. transport \in [protocol : {"none"} \cup Protocols, name : STRING \cup {"none"}, armed : BOOLEAN]
          => transport.protocol \in {"none", "TCP", "TCPS"} /\ transport.armed \in BOOLEAN
  BY DEF Protocols
<1>2. last \in [why : Failover \cup {"none"}, depth : Nat] => last.why \in Failover \cup {"none"}
  OBVIOUS
<1> QED
  BY <1>1, <1>2 DEF ConnectTyped, TypeOK, LoopsTyped, EndsTyped

(* The fields of a level.                                                  *)
LEMMA LevelTyped ==
    ASSUME NEW l \in Levels
    PROVE  /\ l.targets \in Seq(Places) /\ l.next_target \in Nat /\ l.addresses \in Seq(STRING)
           /\ l.next_address \in Nat /\ l.depth \in Nat /\ l.path \in Seq(Nat)
           /\ Len(l.targets) \in Nat /\ Len(l.addresses) \in Nat
<1>1. l.targets \in Seq(Places) /\ l.addresses \in Seq(STRING)
  BY DEF Levels
<1> QED
  BY <1>1, LenProperties DEF Levels

(* A level that goes on to its next target, and to its next address.       *)
WentOn(l, t, found) == [l EXCEPT !.next_target = t, !.addresses = found, !.next_address = 0]

(* A level that goes on to its next target, whose host is resolved, is a   *)
(* level.                                                                  *)
LEMMA NextTarget ==
    ASSUME NEW l \in Levels, NEW t \in Nat, NEW found \in Seq(STRING)
    PROVE  LET m == WentOn(l, t, found) IN
           /\ m \in Levels
           /\ m.targets = l.targets /\ m.next_target = t /\ m.addresses = found
           /\ m.next_address = 0 /\ m.depth = l.depth /\ m.path = l.path
<1> DEFINE m1 == [l EXCEPT !.next_target = t]
           m2 == [m1 EXCEPT !.addresses = found]
           m3 == [m2 EXCEPT !.next_address = 0]
<1>1. /\ m1 \in Levels /\ m1.targets = l.targets /\ m1.next_target = t /\ m1.depth = l.depth
      /\ m1.path = l.path
  BY DEF Levels
<1> HIDE DEF m1
<1>2. /\ m2 \in Levels /\ m2.targets = l.targets /\ m2.next_target = t /\ m2.depth = l.depth
      /\ m2.path = l.path /\ m2.addresses = found
  BY <1>1 DEF Levels
<1> HIDE DEF m2
<1>3. /\ m3 \in Levels /\ m3.targets = l.targets /\ m3.next_target = t /\ m3.depth = l.depth
      /\ m3.path = l.path /\ m3.addresses = found /\ m3.next_address = 0
  BY <1>2 DEF Levels
<1> QED
  BY <1>3 DEF m1, m2, WentOn

(* So is one that goes on to the next resolved address.                    *)
LEMMA NextAddress ==
    ASSUME NEW l \in Levels
    PROVE  LET m == [l EXCEPT !.next_address = @ + 1] IN
           /\ m \in Levels
           /\ m.targets = l.targets /\ m.next_target = l.next_target /\ m.addresses = l.addresses
           /\ m.next_address = l.next_address + 1 /\ m.depth = l.depth /\ m.path = l.path
<1> DEFINE m == [l EXCEPT !.next_address = @ + 1]
<1>1. l.next_address + 1 \in Nat
  BY DEF Levels
<1>2. m = [l EXCEPT !.next_address = l.next_address + 1]
  OBVIOUS
<1> HIDE DEF m
<1>3. m \in Levels
  BY <1>1, <1>2 DEF Levels
<1>4. m.targets = l.targets /\ m.next_target = l.next_target /\ m.addresses = l.addresses
  BY <1>2 DEF Levels
<1>5. m.next_address = l.next_address + 1 /\ m.depth = l.depth /\ m.path = l.path
  BY <1>2 DEF Levels
<1> QED
  BY <1>3, <1>4, <1>5 DEF m

(* The path of an attempt is a list of numbers.                            *)
LEMMA PathOfAttempt ==
    ASSUME NEW path \in Seq(Nat), NEW t \in Nat, NEW j \in Nat
    PROVE  path \o <<t, j>> \in Seq(Nat)
<1>1. <<t, j>> \in Seq(Nat)
  OBVIOUS
<1> QED
  BY <1>1, ConcatProperties

(* What each step makes of the chain.                                      *)
LEMMA StackSteps ==
    ASSUME ConnectTyped, Placed, Nested
    PROVE  /\ NextChain => stack' \in Seq(Levels)
           /\ PopLevel => stack' \in Seq(Levels)
           /\ ResolveTarget => stack' \in Seq(Levels)
           /\ Dial => stack' \in Seq(Levels)
           /\ Pushes => stack' \in Seq(Levels)
<1>1. ASSUME NextChain PROVE stack' \in Seq(Levels)
  <2>1. at # 0 /\ chain + 1 \in 1..Len(resolved) /\ resolved \in Seq(STRING)
    BY <1>1, LenProperties DEF NextChain, Placed, ConnectTyped, TypeOK
  <2>2. Original \in Places /\ resolved[chain + 1] \in STRING
    BY <2>1, OriginalIs, ElementOfSeq
  <2>3. /\ <<Original>> \in Seq(Places) /\ <<resolved[chain + 1]>> \in Seq(STRING)
        /\ <<pass, at, chain + 1>> \in Seq(Nat)
    BY <2>1, <2>2 DEF ConnectTyped, TypeOK
  <2> DEFINE l == [targets |-> <<Original>>, next_target |-> 1,
                   addresses |-> <<resolved[chain + 1]>>, next_address |-> 0,
                   depth |-> 0, path |-> <<pass, at, chain + 1>>]
  <2>4. l \in Levels
    BY <2>3 DEF Levels
  <2>5. stack' = <<l>>
    BY <1>1 DEF NextChain
  <2> HIDE DEF l
  <2> QED
    BY <2>4, <2>5
<1>2. ASSUME PopLevel PROVE stack' \in Seq(Levels)
  BY <1>2, FrontIs DEF PopLevel
<1>3. ASSUME ResolveTarget PROVE stack' \in Seq(Levels)
  <2>1. stack # <<>> /\ phase = "chain"
    BY <1>3 DEF ResolveTarget, Resolving
  <2>2. Top \in Levels
    BY <2>1, TopIs
  <2> DEFINE taken == Top.next_target + 1
  <2>3. taken \in 1..Len(Top.targets)
    BY <1>3, <2>1, <2>2, LevelTyped DEF ResolveTarget, Resolving
  <2>4. Top.targets[taken].host \in STRING
    BY <2>2, <2>3, TargetOf DEF Places
  <2>5. PICK found \in Answers(Top.targets[taken].host) :
            stack' = Append(Front(stack), WentOn(Top, taken, found))
    BY <1>3 DEF ResolveTarget, WentOn
  <2>6. found \in Seq(STRING)
    BY <2>4, AnswersAreTyped
  <2>7. WentOn(Top, taken, found) \in Levels
    <3>1. taken \in Nat
      BY <2>3
    <3> HIDE DEF taken
    <3> QED
      BY <2>2, <2>6, <3>1, NextTarget
  <2> QED
    BY <2>1, <2>5, <2>7, ReplacedIs
<1>4. ASSUME Dial PROVE stack' \in Seq(Levels)
  <2>1. stack # <<>>
    BY <1>4 DEF Dial, HasAddress
  <2>2. Top \in Levels
    BY <2>1, TopIs
  <2>3. [Top EXCEPT !.next_address = @ + 1] \in Levels
    BY <2>2, NextAddress
  <2> QED
    BY <1>4, <2>1, <2>3, ReplacedIs DEF Dial
<1>5. ASSUME Pushes PROVE stack' \in Seq(Levels)
  <2>1. phase = "redirect"
    BY <1>5 DEF Pushes
  <2>2. stack # <<>>
    BY <2>1, PhasesAre DEF Nested
  <2>3. Top \in Levels
    BY <2>2, TopIs
  <2>4. PICK o \in Offers : LET offer == ParseRedirectAddresses(o.address) IN
              ~RedirectRefused(o.address) /\ ~ChangesProtocol(offer) /\ Push(Hops(offer))
    BY <1>5 DEF Pushes
  <2> DEFINE hops == Hops(ParseRedirectAddresses(o.address))
             l == [targets |-> hops, next_target |-> 0, addresses |-> <<>>,
                   next_address |-> 0, depth |-> Top.depth + 1, path |-> Attempt]
  <2>5. hops \in Seq(Places)
    BY <2>1, <2>4, HopsAre
  <2>6. Attempt \in Seq(Nat)
    BY <2>3, LevelTyped, PathOfAttempt DEF Attempt
  <2>7. stack' = Append(stack, l)
    BY <2>4 DEF Push
  <2> HIDE DEF hops
  <2>8. <<>> \in Seq(STRING) /\ Top.depth + 1 \in Nat
    BY <2>3, LevelTyped
  <2>9. l \in Levels
    BY <2>5, <2>6, <2>8 DEF Levels
  <2> HIDE DEF l
  <2> QED
    BY <2>7, <2>9, PushedIs
<1> QED
  BY <1>1, <1>2, <1>3, <1>4, <1>5

(* The loops over passes, addresses and levels stay within what they loop  *)
(* over.                                                                   *)
LEMMA LoopsKeepTypes ==
    ASSUME ConnectTyped, Placed, Nested, Steps
    PROVE  LoopsTyped' /\ UNCHANGED <<secret, order>>
<1>1. /\ LoopsTyped /\ EndsTyped /\ secret \in DOMAIN Secrets /\ order \in Seq(Places)
      /\ Len(order) \in Nat /\ Len(resolved) \in Nat /\ MaximumOpens \in Nat
  BY TypedParts, LenProperties, ConnectAssumption DEF LoopsTyped
<1>2. CASE Fails
  BY <1>1, <1>2 DEF Fails, Fail, LoopsTyped, plan
<1>3. CASE Remembers
  BY <1>1, <1>3 DEF Remembers, Remember, LoopsTyped, plan
<1>4. CASE Moves
  BY <1>1, <1>4 DEF Moves, To, LoopsTyped, plan
<1>5. CASE Pushes
  <2>1. stack' \in Seq(Levels)
    BY <1>5, StackSteps
  <2>2. UNCHANGED <<secret, order, pass, at, resolved, chain, opens>>
    BY <1>5 DEF Pushes, Push, plan
  <2> QED
    BY <1>1, <2>1, <2>2 DEF LoopsTyped
<1>6. CASE NextOriginal
  <2>1. UNCHANGED <<secret, order, pass, resolved, chain, stack, opens>> /\ at' = at + 1 /\ at < Len(order)
    BY <1>6 DEF NextOriginal, plan
  <2> QED
    BY <1>1, <2>1 DEF LoopsTyped
<1>7. CASE DelayEnds
  BY <1>1, <1>7 DEF DelayEnds, LoopsTyped, plan
<1>8. CASE DialOriginal
  <2>1. Original.host \in STRING
    BY <1>8, OriginalIs DEF DialOriginal, Placed, Places
  <2>2. resolved' \in Seq(STRING) /\ chain' = 0
    BY <1>8, <2>1, AnswersAreTyped DEF DialOriginal
  <2>3. 0 \in 0..Len(resolved')
    BY <2>2, LenProperties
  <2> QED
    BY <1>1, <1>8, <2>2, <2>3 DEF DialOriginal, LoopsTyped, plan
<1>9. CASE NextChain
  <2>1. stack' \in Seq(Levels)
    BY <1>9, StackSteps
  <2>2. UNCHANGED <<secret, order, pass, at, resolved, opens>> /\ chain' = chain + 1
        /\ chain < Len(resolved)
    BY <1>9 DEF NextChain, plan
  <2> QED
    BY <1>1, <2>1, <2>2 DEF LoopsTyped
<1>10. CASE ChainFails
  BY <1>1, <1>10 DEF ChainFails, LoopsTyped, plan
<1>11. CASE PopLevel
  <2>1. stack' \in Seq(Levels)
    BY <1>11, StackSteps
  <2>2. UNCHANGED <<secret, order, pass, at, resolved, chain, opens>>
    BY <1>11 DEF PopLevel, plan
  <2> QED
    BY <1>1, <2>1, <2>2 DEF LoopsTyped
<1>12. CASE ResolveTarget
  <2>1. stack' \in Seq(Levels)
    BY <1>12, StackSteps
  <2>2. UNCHANGED <<secret, order, pass, at, resolved, chain, opens>>
    BY <1>12 DEF ResolveTarget, plan
  <2> QED
    BY <1>1, <2>1, <2>2 DEF LoopsTyped
<1>13. CASE Dial
  <2>1. stack' \in Seq(Levels)
    BY <1>13, StackSteps
  <2>2. UNCHANGED <<secret, order, pass, at, resolved, chain>> /\ opens' = opens + 1
        /\ opens < MaximumOpens
    BY <1>13 DEF Dial, plan
  <2> QED
    BY <1>1, <2>1, <2>2 DEF LoopsTyped
<1>14. CASE Opened
  BY <1>1, <1>14 DEF Opened, LoopsTyped, plan
<1>15. CASE Challenged
  BY <1>1, <1>15 DEF Challenged, LoopsTyped, plan
<1>16. CASE Authenticated
  BY <1>1, <1>16 DEF Authenticated, LoopsTyped, plan
<1>17. CASE Expire
  BY <1>1, <1>17 DEF Expire, LoopsTyped, plan, loops
<1>18. CASE Cancel
  BY <1>1, <1>18 DEF Cancel, LoopsTyped, plan, loops
<1> QED
  BY <1>2, <1>3, <1>4, <1>5, <1>6, <1>7, <1>8, <1>9, <1>10, <1>11, <1>12, <1>13, <1>14, <1>15,
     <1>16, <1>17, <1>18 DEF Steps

(* What a step may make of the last failure and of the stream.             *)
LEMMA LastTyped ==
    ASSUME NEW why \in Failover, NEW depth \in Nat
    PROVE  [why |-> why, depth |-> depth] \in [why : Failover \cup {"none"}, depth : Nat]
OBVIOUS

(* The phase, the stream and the failure stay of their types.              *)
LEMMA EndsKeepTypes ==
    ASSUME ConnectTyped, Placed, Nested, Steps
    PROVE  EndsTyped'
<1>1. /\ EndsTyped /\ {"unreachable", "redirect_failed"} \subseteq Failover
      /\ {expired, cancelled} \subseteq BOOLEAN /\ TRUE \in BOOLEAN
  BY TypedParts DEF Failover, EndsTyped
<1>2. CASE Fails
  BY <1>1, <1>2, NoTransportTyped, PhasesAre DEF Fails, Fail, EndsTyped, limits
<1>3. CASE Remembers
  <2>1. phase \in Dialling
    BY <1>3 DEF Remembers
  <2>2. stack # <<>>
    BY <2>1, PhasesAre DEF Nested
  <2>3. Top.depth \in Nat
    BY <2>2, TopIs, LevelTyped
  <2> QED
    BY <1>1, <1>3, <2>3, NoTransportTyped, PhasesAre DEF Remembers, Remember, EndsTyped, limits
<1>4. CASE Moves
  <2>1. phase' \in Phases
    BY <1>4, PhasesAre DEF Moves, Phases
  <2> QED
    BY <1>1, <1>4, <2>1 DEF Moves, To, EndsTyped, limits
<1>5. CASE Pushes
  BY <1>1, <1>5, NoTransportTyped, PhasesAre DEF Pushes, Push, EndsTyped, limits
<1>6. CASE NextOriginal
  BY <1>1, <1>6, PhasesAre DEF NextOriginal, EndsTyped
<1>7. CASE DelayEnds
  BY <1>1, <1>7, PhasesAre DEF DelayEnds, EndsTyped
<1>8. CASE DialOriginal
  <2>1. last' \in [why : Failover \cup {"none"}, depth : Nat]
    BY <1>1, <1>8, LastTyped DEF DialOriginal, EndsTyped
  <2> QED
    BY <1>1, <1>8, <2>1, PhasesAre DEF DialOriginal, EndsTyped
<1>9. CASE NextChain
  BY <1>1, <1>9, PhasesAre DEF NextChain, EndsTyped
<1>10. CASE ChainFails
  <2>1. last' \in [why : Failover \cup {"none"}, depth : Nat]
    BY <1>1, <1>10, LastTyped DEF ChainFails, EndsTyped
  <2> QED
    BY <1>1, <1>10, <2>1, PhasesAre DEF ChainFails, EndsTyped
<1>11. CASE PopLevel
  BY <1>1, <1>11 DEF PopLevel, EndsTyped
<1>12. CASE ResolveTarget
  <2>1. stack # <<>>
    BY <1>12 DEF ResolveTarget, Resolving
  <2>2. Top.depth \in Nat
    BY <2>1, TopIs, LevelTyped
  <2>3. last' \in [why : Failover \cup {"none"}, depth : Nat]
    BY <1>1, <1>12, <2>2, LastTyped DEF ResolveTarget, EndsTyped
  <2> QED
    BY <1>1, <1>12, <2>3 DEF ResolveTarget, EndsTyped
<1>13. CASE Dial
  BY <1>1, <1>13, PhasesAre DEF Dial, EndsTyped
<1>14. CASE Opened
  <2>1. phase = "open" /\ at # 0
    BY <1>14 DEF Opened, Placed
  <2>2. Target \in Places /\ Original \in Places
    BY <2>1, TargetIs, OriginalIs
  <2>3. transport' \in [protocol : {"none"} \cup Protocols, name : STRING \cup {"none"}, armed : BOOLEAN]
    BY <1>14, <2>2 DEF Opened, Places
  <2> QED
    BY <1>1, <1>14, <2>3, PhasesAre DEF Opened, EndsTyped
<1>15. CASE Challenged
  BY <1>1, <1>15, PhasesAre DEF Challenged, EndsTyped
<1>16. CASE Authenticated
  <2>1. transport' \in [protocol : {"none"} \cup Protocols, name : STRING \cup {"none"}, armed : BOOLEAN]
    BY <1>1, <1>16 DEF Authenticated, EndsTyped
  <2>2. phase' \in Phases
    BY <1>16, PhasesAre DEF Authenticated
  <2> QED
    BY <1>1, <1>16, <2>1, <2>2 DEF Authenticated, EndsTyped
<1>17. CASE Expire
  BY <1>1, <1>17 DEF Expire, EndsTyped
<1>18. CASE Cancel
  BY <1>1, <1>18 DEF Cancel, EndsTyped
<1> QED
  BY <1>2, <1>3, <1>4, <1>5, <1>6, <1>7, <1>8, <1>9, <1>10, <1>11, <1>12, <1>13, <1>14, <1>15,
     <1>16, <1>17, <1>18 DEF Steps

(* TypedParts, of the state after a step.                                  *)
LEMMA TypedPartsAfter ==
    /\ LoopsTyped' /\ EndsTyped'
    /\ (secret \in DOMAIN Secrets)' /\ (order \in Seq(Places))'
    => ConnectTyped'
<1>1. LoopsTyped /\ EndsTyped /\ secret \in DOMAIN Secrets /\ order \in Seq(Places) => ConnectTyped
  BY TypedParts
<1> QED
  BY <1>1, PTL

(* Every step keeps the types.                                             *)
LEMMA StepTyped ==
    ASSUME ConnectTyped, Placed, Nested, Steps
    PROVE  ConnectTyped'
<1>1. secret \in DOMAIN Secrets /\ order \in Seq(Places)
  BY TypedParts
<1>2. LoopsTyped' /\ UNCHANGED <<secret, order>>
  BY LoopsKeepTypes
<1>3. EndsTyped'
  BY EndsKeepTypes
<1> QED
  BY <1>1, <1>2, <1>3, TypedPartsAfter

-----------------------------------------------------------------------------
(* The chain exists while an address is tried.                             *)
LEMMA StepPlaced ==
    ASSUME ConnectTyped, Placed, Nested, Steps
    PROVE  Placed'
<1>1. at \in Nat /\ (phase = "resolve" => at # 0)
  BY LenProperties DEF ConnectTyped, TypeOK, Placed
<1>2. CASE Fails
  BY <1>2, PhasesAre DEF Fails, Fail, Placed
<1>3. CASE Remembers
  BY <1>3, PhasesAre DEF Remembers, Remember, Placed
<1>4. CASE Moves
  BY <1>4, PhasesAre DEF Moves, To, Placed
<1>5. CASE Pushes
  BY <1>5, PhasesAre DEF Pushes, Push, Placed
<1>6. CASE NextOriginal
  BY <1>1, <1>6, PhasesAre DEF NextOriginal, Placed
<1>7. CASE DelayEnds
  BY <1>7, PhasesAre DEF DelayEnds, Placed
<1>8. CASE DialOriginal
  BY <1>8, PhasesAre DEF DialOriginal, Placed
<1>9. CASE NextChain
  BY <1>9, PhasesAre DEF NextChain, Placed
<1>10. CASE ChainFails
  BY <1>10, PhasesAre DEF ChainFails, Placed
<1>11. CASE PopLevel
  BY <1>11, PhasesAre DEF PopLevel, Placed
<1>12. CASE ResolveTarget
  BY <1>12, PhasesAre DEF ResolveTarget, Placed
<1>13. CASE Dial
  BY <1>13, PhasesAre DEF Dial, HasAddress, Placed
<1>14. CASE Opened
  BY <1>14, PhasesAre DEF Opened, Placed
<1>15. CASE Challenged
  BY <1>15, PhasesAre DEF Challenged, Placed
<1>16. CASE Authenticated
  BY <1>16, PhasesAre DEF Authenticated, Placed
<1>17. CASE Expire \/ Cancel
  BY <1>17 DEF Expire, Cancel, Placed, loops
<1> QED
  BY <1>2, <1>3, <1>4, <1>5, <1>6, <1>7, <1>8, <1>9, <1>10, <1>11, <1>12, <1>13, <1>14, <1>15,
     <1>16, <1>17 DEF Steps

(* The stream is the planned address's, and there only while it is used.   *)
LEMMA StepStreaming ==
    ASSUME ConnectTyped, Nested, Streaming, Steps
    PROVE  Streaming'
<1>1. CASE Fails
  BY <1>1, PhasesAre DEF Fails, Fail, Streaming
<1>2. CASE Remembers
  BY <1>2, PhasesAre DEF Remembers, Remember, Streaming
<1>3. CASE Moves
  BY <1>3, PhasesAre DEF Moves, To, plan, Original, Streaming
<1>4. CASE Pushes
  BY <1>4, PhasesAre DEF Pushes, Push, Streaming
<1>5. CASE NextOriginal
  BY <1>5, PhasesAre DEF NextOriginal, Streaming
<1>6. CASE DelayEnds
  BY <1>6, PhasesAre DEF DelayEnds, Streaming
<1>7. CASE DialOriginal
  BY <1>7, PhasesAre DEF DialOriginal, Streaming
<1>8. CASE NextChain
  BY <1>8, PhasesAre DEF NextChain, Streaming
<1>9. CASE ChainFails
  BY <1>9, PhasesAre DEF ChainFails, Streaming
<1>10. CASE PopLevel
  BY <1>10, PhasesAre DEF PopLevel, Streaming
<1>11. CASE ResolveTarget
  BY <1>11, PhasesAre DEF ResolveTarget, Streaming
<1>12. CASE Dial
  BY <1>12, PhasesAre DEF Dial, HasAddress, Streaming
<1>13. CASE Opened
  <2>1. Target.protocol = Original.protocol
    BY <1>13, TargetIs DEF Opened
  <2> QED
    BY <1>13, <2>1, PhasesAre DEF Opened, plan, Original, Streaming
<1>14. CASE Challenged
  BY <1>14, PhasesAre DEF Challenged, plan, Original, Streaming
<1>15. CASE Authenticated
  <2>1. transport'.protocol = transport.protocol /\ transport'.name = transport.name
    BY <1>15 DEF Authenticated, ConnectTyped
  <2>2. phase \in Connected /\ phase' \in Connected
    BY <1>15, PhasesAre DEF Authenticated
  <2> QED
    BY <1>15, <2>1, <2>2 DEF Authenticated, plan, Original, Streaming
<1>16. CASE Expire \/ Cancel
  BY <1>16 DEF Expire, Cancel, plan, loops, Original, Streaming
<1> QED
  BY <1>1, <1>2, <1>3, <1>4, <1>5, <1>6, <1>7, <1>8, <1>9, <1>10, <1>11, <1>12, <1>13, <1>14,
     <1>15, <1>16 DEF Steps

(* The proof of the password is sent once, and the deadline lifted then.   *)
LEMMA StepProving ==
    ASSUME ConnectTyped, Proving, Steps
    PROVE  Proving'
<1>1. proofs \in Nat
  BY DEF ConnectTyped, TypeOK
<1>2. CASE Fails
  BY <1>1, <1>2, PhasesAre DEF Fails, Fail, Proving
<1>3. CASE Remembers
  BY <1>1, <1>3, PhasesAre DEF Remembers, Remember, Proving
<1>4. CASE Moves
  BY <1>1, <1>4, PhasesAre DEF Moves, To, Proving
<1>5. CASE Pushes
  BY <1>1, <1>5, PhasesAre DEF Pushes, Push, Proving
<1>6. CASE NextOriginal
  BY <1>1, <1>6, PhasesAre DEF NextOriginal, Proving
<1>7. CASE DelayEnds
  BY <1>1, <1>7, PhasesAre DEF DelayEnds, Proving
<1>8. CASE DialOriginal
  BY <1>1, <1>8, PhasesAre DEF DialOriginal, Proving
<1>9. CASE NextChain
  BY <1>1, <1>9, PhasesAre DEF NextChain, Proving
<1>10. CASE ChainFails
  BY <1>1, <1>10, PhasesAre DEF ChainFails, Proving
<1>11. CASE PopLevel
  BY <1>1, <1>11, PhasesAre DEF PopLevel, Proving
<1>12. CASE ResolveTarget
  BY <1>1, <1>12, PhasesAre DEF ResolveTarget, Proving
<1>13. CASE Dial
  BY <1>1, <1>13, PhasesAre DEF Dial, HasAddress, Proving
<1>14. CASE Opened
  BY <1>1, <1>14, PhasesAre DEF Opened, Proving
<1>15. CASE Challenged
  BY <1>1, <1>15, PhasesAre DEF Challenged, Proving
<1>16. CASE Authenticated
  <2>1. transport'.armed = FALSE
    BY <1>16 DEF Authenticated, ConnectTyped
  <2> QED
    BY <1>1, <1>16, <2>1, PhasesAre DEF Authenticated, Proving
<1>17. CASE Expire \/ Cancel
  BY <1>17 DEF Expire, Cancel, loops, Proving
<1> QED
  BY <1>2, <1>3, <1>4, <1>5, <1>6, <1>7, <1>8, <1>9, <1>10, <1>11, <1>12, <1>13, <1>14, <1>15,
     <1>16, <1>17 DEF Steps

-----------------------------------------------------------------------------
(* Levels are nested: what the proof says of each of them.                 *)
NestedAt(s, i) ==
    /\ s[i].depth = i - 1
    /\ s[i].next_target <= Len(s[i].targets)
    /\ s[i].next_address <= Len(s[i].addresses)
    /\ s[i].next_target = 0 => i = Len(s) /\ s[i].addresses = <<>>
    /\ \A t \in 1..Len(s[i].targets) :
          /\ s[i].targets[t].protocol = Original.protocol
          /\ \A j \in 1..i - 1 : AddressKey(s[i].targets[t]) # AddressKey(Current(s[j]))

(* Nested, level by level.                                                 *)
LEMMA NestedIs ==
    Nested <=> /\ Len(stack) <= MaximumRedirects + 1
               /\ phase \in {"open"} \cup Connected => stack # <<>> /\ Top.next_target # 0
               /\ \A i \in 1..Len(stack) : NestedAt(stack, i)
BY DEF Nested, NestedAt

(* Nested, of the state after a step.                                      *)
LEMMA NestedAfter ==
    ASSUME Len(stack') <= MaximumRedirects + 1, UNCHANGED <<order, at>>,
           phase' \in {"open"} \cup Connected => stack' # <<>> /\ Top'.next_target # 0,
           \A i \in 1..Len(stack') : NestedAt(stack', i)
    PROVE  Nested'
BY DEF Nested, NestedAt, Original, Current

(* A level taken off, and one that goes on at the top of the others.       *)
LEMMA PopNests ==
    ASSUME ConnectTyped, Nested, stack # <<>>, NEW s \in Seq(Levels),
           Len(s) = Len(stack) - 1, \A i \in 1..Len(stack) - 1 : s[i] = stack[i]
    PROVE  Len(s) <= MaximumRedirects + 1 /\ \A i \in 1..Len(s) : NestedAt(s, i)
<1>1. Len(stack) \in Nat /\ Len(stack) >= 1 /\ MaximumRedirects \in Nat
  BY TopIs, ConnectAssumption
<1>2. ASSUME NEW i \in 1..Len(s) PROVE NestedAt(s, i)
  <2>1. i \in 1..Len(stack) /\ i # Len(stack) /\ \A j \in 1..i - 1 : j \in 1..Len(stack) - 1
    BY <1>1
  <2>2. NestedAt(stack, i)
    BY <2>1, NestedIs
  <2>3. s[i] = stack[i] /\ \A j \in 1..i - 1 : s[j] = stack[j]
    BY <2>1
  <2> QED
    BY <2>1, <2>2, <2>3 DEF NestedAt
<1> QED
  BY <1>1, <1>2 DEF Nested

(* A top level that goes on to a later target or address is still in       *)
(* order.                                                                  *)
LEMMA GoingOnNests ==
    ASSUME ConnectTyped, Nested, stack # <<>>, NEW l \in Levels,
           l.targets = Top.targets, l.depth = Top.depth, l.next_target # 0,
           l.next_target <= Len(l.targets), l.next_address <= Len(l.addresses)
    PROVE  LET s == Append(Front(stack), l) IN
           /\ Len(s) <= MaximumRedirects + 1 /\ s # <<>> /\ Last(s) = l
           /\ \A i \in 1..Len(s) : NestedAt(s, i)
<1> DEFINE n == Len(stack)
           s == Append(Front(stack), l)
<1>1. /\ s \in Seq(Levels) /\ s # <<>> /\ Len(s) = n /\ s[n] = l
      /\ \A i \in 1..n - 1 : s[i] = stack[i]
  BY ReplacedIs
<1>2. n \in Nat /\ n >= 1 /\ Top = stack[n]
  BY TopIs
<1>3. \A i \in 1..n : NestedAt(stack, i)
  BY NestedIs
<1>4. Len(s) <= MaximumRedirects + 1
  BY <1>1 DEF Nested
<1>5. Last(s) = l
  BY <1>1 DEF Last
<1> HIDE DEF s, n
<1>6. ASSUME NEW i \in 1..n PROVE NestedAt(s, i)
  <2>1. \A j \in 1..i - 1 : s[j] = stack[j]
    BY <1>1, <1>2
  <2>2. NestedAt(stack, i)
    BY <1>3
  <2>3. CASE i = n
    BY <1>1, <1>2, <2>1, <2>2, <2>3 DEF NestedAt
  <2>4. CASE i # n
    <3>1. i \in 1..n - 1
      BY <1>2, <2>4
    <3>2. s[i] = stack[i]
      BY <1>1, <3>1
    <3>3. stack[i].next_target # 0
      BY <2>2, <2>4 DEF NestedAt, n
    <3> QED
      BY <2>1, <2>2, <3>2, <3>3 DEF NestedAt
  <2> QED
    BY <2>3, <2>4
<1> QED
  BY <1>1, <1>4, <1>5, <1>6 DEF s

(* A step that leaves the chain and what it belongs to alone.              *)
LEMMA StackKept ==
    ASSUME Nested, UNCHANGED <<stack, order, at>>,
           phase' \in {"open"} \cup Connected => phase \in {"open"} \cup Connected
    PROVE  Nested'
BY DEF Nested, Original, Current, Top

(* An empty chain is in order.                                             *)
LEMMA StackEmpty ==
    ASSUME stack' = <<>>, phase' \notin {"open"} \cup Connected
    PROVE  Nested'
<1>1. Len(stack') = 0 /\ MaximumRedirects \in Nat
  BY ConnectAssumption
<1> QED
  BY <1>1 DEF Nested

(* A chain begins with the planned address alone.                          *)
LEMMA NextChainNests ==
    ASSUME ConnectTyped, Placed, NextChain
    PROVE  Nested'
<1> DEFINE l == [targets |-> <<Original>>, next_target |-> 1,
                 addresses |-> <<resolved[chain + 1]>>, next_address |-> 0,
                 depth |-> 0, path |-> <<pass, at, chain + 1>>]
<1>1. stack' = <<l>> /\ UNCHANGED <<order, at>> /\ phase' = "chain"
  BY DEF NextChain, plan
<1>2. /\ l.depth = 0 /\ l.next_target = 1 /\ l.next_address = 0 /\ Len(l.targets) = 1
      /\ Len(l.addresses) = 1 /\ l.targets[1] = Original
  OBVIOUS
<1> HIDE DEF l
<1>3. Len(stack') = 1 /\ stack'[1] = l
  BY <1>1
<1>4. NestedAt(stack', 1)
  BY <1>2, <1>3 DEF NestedAt
<1>5. MaximumRedirects \in Nat
  BY ConnectAssumption
<1>6. phase' \notin {"open"} \cup Connected
  BY <1>1, PhasesAre
<1>7. Len(stack') <= MaximumRedirects + 1 /\ \A i \in 1..Len(stack') : NestedAt(stack', i)
  BY <1>3, <1>4, <1>5
<1> QED
  BY <1>1, <1>6, <1>7, NestedAfter

(* A chain that loses its top is in order.                                 *)
LEMMA PopLevelNests ==
    ASSUME ConnectTyped, Nested, PopLevel
    PROVE  Nested'
<1>1. stack # <<>> /\ stack' = Front(stack) /\ UNCHANGED <<order, at>> /\ phase' = "chain"
  BY DEF PopLevel, plan
<1>2. /\ Front(stack) \in Seq(Levels) /\ Len(Front(stack)) = Len(stack) - 1
      /\ \A i \in 1..Len(stack) - 1 : Front(stack)[i] = stack[i]
  BY <1>1, FrontIs
<1>3. /\ Len(Front(stack)) <= MaximumRedirects + 1
      /\ \A i \in 1..Len(Front(stack)) : NestedAt(Front(stack), i)
  BY <1>1, <1>2, PopNests
<1>4. phase' \notin {"open"} \cup Connected
  BY <1>1, PhasesAre
<1> QED
  BY <1>1, <1>3, <1>4, NestedAfter

(* The next target of the top level has been none of those below it: such  *)
(* targets are passed over.                                                *)
LEMMA ResolveTargetNests ==
    ASSUME ConnectTyped, Nested, ResolveTarget
    PROVE  Nested'
<1>1. /\ stack # <<>> /\ UNCHANGED <<order, at>> /\ phase' = "chain"
      /\ Top.next_target < Len(Top.targets)
  BY DEF ResolveTarget, Resolving, plan
<1>2. Top \in Levels /\ Top.next_target \in Nat /\ Len(Top.targets) \in Nat /\ Top.targets \in Seq(Places)
  BY <1>1, TopIs, LevelTyped
<1> DEFINE taken == Top.next_target + 1
<1>3. taken \in Nat /\ taken # 0 /\ taken <= Len(Top.targets) /\ taken \in 1..Len(Top.targets)
  BY <1>1, <1>2
<1>4. Top.targets[taken].host \in STRING
  BY <1>2, <1>3, TargetOf DEF Places
<1>5. PICK found \in Answers(Top.targets[taken].host) :
          stack' = Append(Front(stack), WentOn(Top, taken, found))
  BY DEF ResolveTarget, WentOn
<1>6. found \in Seq(STRING) /\ Len(found) \in Nat
  BY <1>4, AnswersAreTyped, LenProperties
<1> HIDE DEF taken
<1> DEFINE l == WentOn(Top, taken, found)
<1>7. /\ l \in Levels /\ l.targets = Top.targets /\ l.depth = Top.depth /\ l.next_target = taken
      /\ l.addresses = found /\ l.next_address = 0
  <2>1. Top \in Levels /\ taken \in Nat /\ found \in Seq(STRING)
    BY <1>2, <1>3, <1>6
  <2> QED
    BY <2>1, NextTarget
<1> HIDE DEF l
<1>8. /\ l.next_target # 0 /\ l.next_target <= Len(l.targets) /\ l.next_address <= Len(l.addresses)
  BY <1>3, <1>6, <1>7
<1>9. /\ Len(Append(Front(stack), l)) <= MaximumRedirects + 1
      /\ \A i \in 1..Len(Append(Front(stack), l)) : NestedAt(Append(Front(stack), l), i)
  BY <1>1, <1>7, <1>8, GoingOnNests
<1>10. stack' = Append(Front(stack), l)
  BY <1>5 DEF l
<1>11. phase' \notin {"open"} \cup Connected
  BY <1>1, PhasesAre
<1> QED
  BY <1>1, <1>9, <1>10, <1>11, NestedAfter

(* Dialling the next resolved address leaves the targets as they are.      *)
LEMMA DialNests ==
    ASSUME ConnectTyped, Nested, Dial
    PROVE  Nested'
<1>1. /\ stack # <<>> /\ UNCHANGED <<order, at>> /\ Top.next_address < Len(Top.addresses)
      /\ stack' = Append(Front(stack), [Top EXCEPT !.next_address = @ + 1])
  BY DEF Dial, HasAddress, plan
<1>2. /\ Top \in Levels /\ Top.next_target \in Nat /\ Len(Top.targets) \in Nat
      /\ Top.next_address \in Nat /\ Len(Top.addresses) \in Nat
  BY <1>1, TopIs, LevelTyped
<1>3. NestedAt(stack, Len(stack)) /\ Top = stack[Len(stack)]
  BY <1>1, TopIs, NestedIs
<1>4. Top.next_target # 0 /\ Top.next_target <= Len(Top.targets)
  BY <1>1, <1>2, <1>3 DEF NestedAt
<1> DEFINE l == [Top EXCEPT !.next_address = @ + 1]
<1>5. /\ l \in Levels /\ l.targets = Top.targets /\ l.depth = Top.depth
      /\ l.next_target = Top.next_target
      /\ l.addresses = Top.addresses /\ l.next_address = Top.next_address + 1
  BY <1>2, NextAddress
<1>6. stack' = Append(Front(stack), l)
  BY <1>1
<1> HIDE DEF l
<1>7. /\ l.next_target # 0 /\ l.next_target <= Len(l.targets) /\ l.next_address <= Len(l.addresses)
  BY <1>1, <1>2, <1>4, <1>5
<1>8. /\ Len(Append(Front(stack), l)) <= MaximumRedirects + 1 /\ Append(Front(stack), l) # <<>>
      /\ Last(Append(Front(stack), l)) = l
      /\ \A i \in 1..Len(Append(Front(stack), l)) : NestedAt(Append(Front(stack), l), i)
  BY <1>1, <1>5, <1>7, GoingOnNests
<1>9. Top' = l /\ stack' # <<>>
  BY <1>6, <1>8 DEF Top
<1> QED
  BY <1>1, <1>6, <1>7, <1>8, <1>9, NestedAfter

(* A level of redirect targets: one deeper, of the same protocol, with     *)
(* nothing tried yet.                                                      *)
LEMMA PushesNest ==
    ASSUME ConnectTyped, Nested, Pushes
    PROVE  Nested'
<1>1. /\ phase = "redirect" /\ Top.depth + 1 <= MaximumRedirects /\ phase' = "chain"
      /\ UNCHANGED <<order, at>>
  BY DEF Pushes, Push, plan
<1>2. stack # <<>> /\ Top.next_target # 0
  BY <1>1, PhasesAre DEF Nested
<1> DEFINE n == Len(stack)
<1>3. Top \in Levels /\ n \in Nat /\ n >= 1 /\ Top = stack[n]
  BY <1>2, TopIs
<1>4. PICK o \in Offers : LET offer == ParseRedirectAddresses(o.address) IN
            ~RedirectRefused(o.address) /\ ~ChangesProtocol(offer) /\ Push(Hops(offer))
  BY DEF Pushes
<1> DEFINE hops == Hops(ParseRedirectAddresses(o.address))
           l == [targets |-> hops, next_target |-> 0, addresses |-> <<>>,
                 next_address |-> 0, depth |-> Top.depth + 1, path |-> Attempt]
           s == Append(stack, l)
<1>5. /\ hops \in Seq(Places) /\ Len(hops) \in Nat
      /\ \A t \in 1..Len(hops) :
                /\ hops[t].protocol = Original.protocol
                /\ \A j \in 1..n : AddressKey(hops[t]) # AddressKey(Current(stack[j]))
  BY <1>1, <1>4, HopsAre, LenProperties
<1>6. Attempt \in Seq(Nat)
  BY <1>3, LevelTyped, PathOfAttempt DEF Attempt
<1>7. stack' = s
  BY <1>4 DEF Push
<1> HIDE DEF hops
<1>8. <<>> \in Seq(STRING) /\ Top.depth + 1 \in Nat
  BY <1>3, LevelTyped
<1>9. l \in Levels
  BY <1>5, <1>6, <1>8 DEF Levels
<1>10. /\ l.targets = hops /\ l.next_target = 0 /\ l.addresses = <<>> /\ l.next_address = 0
       /\ l.depth = Top.depth + 1
  OBVIOUS
<1> HIDE DEF l
<1>11. Len(s) = n + 1 /\ s[n + 1] = l /\ \A i \in 1..n : s[i] = stack[i]
  BY <1>9, PushedIs
<1>12. \A i \in 1..n : NestedAt(stack, i)
  BY NestedIs
<1>13. Top.depth = n - 1
  BY <1>3, <1>12 DEF NestedAt
<1> HIDE DEF s
<1>14. NestedAt(s, n + 1)
  <2>1. \A j \in 1..(n + 1) - 1 : s[j] = stack[j]
    BY <1>3, <1>11
  <2>2. l.depth = (n + 1) - 1 /\ Len(<<>>) = 0
    BY <1>3, <1>10, <1>13
  <2> HIDE DEF n
  <2>3. \A j \in 1..(n + 1) - 1 : j \in 1..n
    BY <1>3
  <2>4. 0 <= Len(l.targets) /\ 0 <= Len(l.addresses)
    BY <1>5, <1>10, <2>2
  <2>5. ASSUME NEW t \in 1..Len(l.targets)
        PROVE  /\ l.targets[t].protocol = Original.protocol
               /\ \A j \in 1..(n + 1) - 1 : AddressKey(l.targets[t]) # AddressKey(Current(s[j]))
    BY <1>5, <1>10, <2>1, <2>3
  <2>6. /\ l.depth = (n + 1) - 1 /\ l.next_target <= Len(l.targets) /\ l.next_address <= Len(l.addresses)
        /\ n + 1 = Len(s) /\ l.addresses = <<>>
    BY <1>10, <1>11, <2>2, <2>4
  <2> HIDE DEF n, s
  <2> QED
    BY ONLY <1>11, <2>5, <2>6 DEF NestedAt
<1>15. ASSUME NEW i \in 1..n PROVE NestedAt(s, i)
  <2>1. s[i] = stack[i] /\ \A j \in 1..i - 1 : s[j] = stack[j]
    BY <1>3, <1>11
  <2>2. stack[i].next_target # 0
    BY <1>2, <1>3, <1>12 DEF NestedAt
  <2> QED
    BY <1>12, <2>1, <2>2 DEF NestedAt
<1>16. MaximumRedirects \in Nat
  BY ConnectAssumption
<1>17. Len(s) <= MaximumRedirects + 1
  BY <1>1, <1>3, <1>11, <1>13, <1>16
<1>18. \A i \in 1..Len(s) : NestedAt(s, i)
  BY <1>3, <1>11, <1>14, <1>15
<1>19. phase' \notin {"open"} \cup Connected
  BY <1>1, PhasesAre
<1> QED
  BY <1>1, <1>7, <1>17, <1>18, <1>19, NestedAfter

(* Every step keeps the chain in order.                                    *)
LEMMA StepNested ==
    ASSUME ConnectTyped, Placed, Nested, Steps
    PROVE  Nested'
<1>1. CASE Fails
  BY <1>1, StackKept, PhasesAre DEF Fails, Fail, plan
<1>2. CASE Remembers
  BY <1>2, StackKept, PhasesAre DEF Remembers, Remember, plan
<1>3. CASE Moves
  BY <1>3, StackKept, PhasesAre DEF Moves, To, plan
<1>4. CASE NextOriginal \/ DelayEnds \/ DialOriginal
  BY <1>4, StackEmpty, PhasesAre DEF NextOriginal, DelayEnds, DialOriginal, Placed
<1>5. CASE ChainFails
  BY <1>5, StackEmpty, PhasesAre DEF ChainFails
<1>6. CASE Opened \/ Challenged \/ Authenticated
  BY <1>6, StackKept, PhasesAre DEF Opened, Challenged, Authenticated, plan
<1>7. CASE Expire \/ Cancel
  BY <1>7, StackKept DEF Expire, Cancel, plan, loops
<1> QED
  BY <1>1, <1>2, <1>3, <1>4, <1>5, <1>6, <1>7, PushesNest, NextChainNests, PopLevelNests,
     ResolveTargetNests, DialNests DEF Steps

-----------------------------------------------------------------------------
(* What is owed is left to be tried.                                       *)
LEMMA TryingIs ==
    /\ Trying = {"pass", "delay", "resolve", "chains", "chain", "open", "connect", "resent",
                 "redirect"}
    /\ "failed" \notin Trying
BY DEF Trying, Dialling, Handshake

(* A level that is through its targets and addresses owes nothing.         *)
LEMMA NothingLeft ==
    ASSUME NEW s, s = <<>>
    PROVE  LeftIn(s) = {}
<1>1. Len(s) = 0
  BY DEF Len
<1> QED
  BY <1>1 DEF LeftIn

(* What is left in the chain is what is left below its top, and of its     *)
(* top.                                                                    *)
LEMMA LeftOfOthers ==
    ASSUME NEW s, NEW t, NEW n \in Nat, n >= 1, Len(s) = n, Len(t) >= n - 1, Len(t) \in Nat,
           \A i \in 1..n - 1 : t[i] = s[i]
    PROVE  LeftIn(s) \subseteq LeftIn(t) \cup LeftOf(s[n])
<1> SUFFICES ASSUME NEW x \in LeftIn(s), x \notin LeftOf(s[n]) PROVE x \in LeftIn(t)
  OBVIOUS
<1>1. PICK i \in 1..n : x \in LeftOf(s[i])
  BY DEF LeftIn
<1>2. i \in 1..n - 1 /\ i \in 1..Len(t)
  BY <1>1
<1>3. x \in LeftOf(t[i])
  BY <1>1, <1>2
<1> QED
  BY <1>2, <1>3 DEF LeftIn

(* The same, for a chain whose top has been replaced.                      *)
LEMMA LeftOfTop ==
    ASSUME NEW t, NEW n \in 1..Len(t)
    PROVE  LeftOf(t[n]) \subseteq LeftIn(t)
BY DEF LeftIn

(* Paths, appended to.                                                     *)
LEMMA PathsAre ==
    ASSUME NEW path \in Seq(Nat), NEW t \in Nat, NEW j \in Nat
    PROVE  /\ path \o <<t>> = Append(path, t)
           /\ Append(path \o <<t>>, j) = path \o <<t, j>>
<1>1. path \o <<t>> = Append(path, t)
  BY AppendIsConcat
<1>2. Append(path \o <<t>>, j) = (path \o <<t>>) \o <<j>>
  <2>1. <<t>> \in Seq(Nat)
    OBVIOUS
  <2>2. path \o <<t>> \in Seq(Nat)
    BY <2>1, ConcatProperties
  <2> QED
    BY <2>2, AppendIsConcat
<1>3. (path \o <<t>>) \o <<j>> = path \o (<<t>> \o <<j>>)
  <2>1. <<t>> \in Seq(Nat) /\ <<j>> \in Seq(Nat)
    OBVIOUS
  <2> QED
    BY <2>1, ConcatAssociative
<1>4. <<t>> \o <<j>> = <<t, j>>
  <2>1. <<t>> \in Seq(Nat) /\ <<j>> \in Seq(Nat) /\ <<t, j>> \in Seq(Nat) /\ Len(<<t, j>>) = 2
        /\ Len(<<t>>) = 1 /\ <<t>>[1] = t /\ <<t, j>>[1] = t /\ <<t, j>>[2] = j
    OBVIOUS
  <2>2. Append(<<t>>, j) = <<t>> \o <<j>>
    BY <2>1, AppendIsConcat
  <2>3. /\ Append(<<t>>, j) \in Seq(Nat) /\ Len(Append(<<t>>, j)) = 2
        /\ Append(<<t>>, j)[1] = t /\ Append(<<t>>, j)[2] = j
    BY <2>1, AppendProperties
  <2>4. \A i \in 1..2 : Append(<<t>>, j)[i] = <<t, j>>[i]
    BY <2>1, <2>3
  <2>5. Append(<<t>>, j) = <<t, j>>
    BY <2>1, <2>3, <2>4, SeqEqual
  <2> QED
    BY <2>2, <2>5
<1> QED
  BY <1>1, <1>2, <1>3, <1>4

(* For NextChain: the attempt of a chain's first level.                    *)
LEMMA FirstAttempt ==
    ASSUME NEW a \in Nat, NEW b \in Nat, NEW c \in Nat
    PROVE  <<a, b, c>> \o <<1, 1>> = <<a, b, c, 1, 1>>
<1>1. /\ <<a, b, c>> \in Seq(Nat) /\ <<1, 1>> \in Seq(Nat) /\ <<a, b, c, 1, 1>> \in Seq(Nat)
      /\ Len(<<a, b, c>>) = 3 /\ Len(<<1, 1>>) = 2 /\ Len(<<a, b, c, 1, 1>>) = 5
  OBVIOUS
<1> DEFINE s == <<a, b, c>> \o <<1, 1>>
<1>2. /\ s \in Seq(Nat) /\ Len(s) = 5
      /\ \A i \in 1..5 : s[i] = IF i <= 3 THEN <<a, b, c>>[i] ELSE <<1, 1>>[i - 3]
  BY <1>1, ConcatProperties
<1> HIDE DEF s
<1>3. s[1] = a /\ s[2] = b /\ s[3] = c /\ s[4] = 1 /\ s[5] = 1
  BY <1>2
<1>4. \A i \in 1..5 : s[i] = <<a, b, c, 1, 1>>[i]
  BY <1>3
<1>5. s = <<a, b, c, 1, 1>>
  BY <1>1, <1>2, <1>4, SeqEqual
<1> QED
  BY <1>5 DEF s

(* A step that changes neither what is owed nor what is left to try.       *)
LEMMA OwedKept ==
    ASSUME Owing, UNCHANGED <<order, pass, at, resolved, chain, stack, owed>>,
           phase' = phase, failure' = failure
    PROVE  Owing'
<1>1. LeftIn(stack)' = LeftIn(stack) /\ Attempt' = Attempt
  BY DEF LeftIn, LeftOf, Attempt, Top
<1>2. LeftOfPlan' = LeftOfPlan
  BY DEF LeftOfPlan
<1>3. LeftOfHost' = LeftOfHost
  BY DEF LeftOfHost
<1>4. UnderWay' = UnderWay
  BY <1>1 DEF UnderWay
<1>5. LeftToTry' = LeftToTry
  BY <1>1, <1>2, <1>3, <1>4 DEF LeftToTry
<1> QED
  BY <1>5 DEF Owing

(* Giving up: all passes are through, or the failure is final.             *)
LEMMA FailsOwe ==
    ASSUME ConnectTyped, Placed, Owing, Fails
    PROVE  Owing'
<1>1. PICK why \in Failover \cup Final \cup {"none"} :
          /\ phase' = "failed" /\ failure' = why /\ owed' = owed
          /\ why \in Failover => phase = "pass" /\ at = Len(order)
  BY DEF Fails, Fail
<1>2. ASSUME why \in Failover PROVE owed = {}
  <2>1. phase = "pass" /\ at = Len(order) /\ Len(order) \in Nat
    BY <1>1, <1>2, LenProperties DEF ConnectTyped
  <2>2. LeftOfPlan = {}
    BY <2>1 DEF LeftOfPlan
  <2>3. LeftOfHost = {} /\ UnderWay = {}
    BY <2>1 DEF LeftOfHost, UnderWay, Dialling, Handshake
  <2>4. LeftIn(stack) = {}
    BY <2>1, NothingLeft DEF Placed
  <2> QED
    BY <2>1, <2>2, <2>3, <2>4, TryingIs DEF Owing, LeftToTry
<1> QED
  BY <1>1, <1>2, TryingIs DEF Owing

(* An attempt that fails is settled, and everything else is still left to  *)
(* try.                                                                    *)
LEMMA RemembersOwes ==
    ASSUME Owing, Remembers
    PROVE  Owing'
<1>1. /\ phase \in Dialling /\ phase' = "chain" /\ owed' = owed \ {Attempt}
      /\ UNCHANGED <<order, pass, at, resolved, chain, stack>>
  BY DEF Remembers, Remember, plan
<1>2. LeftOfPlan' = LeftOfPlan /\ LeftOfHost' = LeftOfHost
  BY <1>1 DEF LeftOfPlan, LeftOfHost, Dialling, Handshake
<1>3. LeftIn(stack)' = LeftIn(stack)
  BY <1>1 DEF LeftIn, LeftOf
<1>4. UnderWay = {Attempt} /\ owed \subseteq LeftToTry
  BY <1>1, TryingIs, PhasesAre DEF UnderWay, Owing
<1>5. owed' \subseteq LeftToTry'
  BY <1>1, <1>2, <1>3, <1>4 DEF LeftToTry
<1> QED
  BY <1>1, <1>5 DEF Owing

(* Going on to another phase leaves everything that is owed to be tried.   *)
LEMMA MovesOwe ==
    ASSUME ConnectTyped, Owing, Moves
    PROVE  Owing'
<1>1. UNCHANGED <<order, pass, at, resolved, chain, stack, owed>>
  BY DEF Moves, To, plan
<1>2. LeftIn(stack)' = LeftIn(stack) /\ Attempt' = Attempt
  BY <1>1 DEF LeftIn, LeftOf, Attempt, Top
<1>3. CASE phase = "pass" /\ phase' = "delay"
  <2>1. LeftOfPlan' = LeftOfPlan
    BY <1>1, <1>3 DEF LeftOfPlan
  <2>2. LeftOfHost = {} /\ UnderWay = {} /\ owed \subseteq LeftToTry
    BY <1>3, TryingIs, PhasesAre DEF LeftOfHost, UnderWay, Owing
  <2>3. owed' \subseteq LeftToTry'
    BY <1>1, <1>2, <2>1, <2>2 DEF LeftToTry
  <2> QED
    BY <1>3, <2>3 DEF Owing
<1>4. CASE phase = "chains" /\ chain = Len(resolved) /\ phase' = "pass"
  <2>1. Len(resolved) \in Nat
    BY LenProperties DEF ConnectTyped
  <2>2. LeftOfPlan' = LeftOfPlan
    BY <1>1, <1>4 DEF LeftOfPlan
  <2>3. LeftOfHost = {} /\ UnderWay = {} /\ owed \subseteq LeftToTry
    BY <1>4, <2>1, TryingIs, PhasesAre DEF LeftOfHost, UnderWay, Owing
  <2>4. owed' \subseteq LeftToTry'
    BY <1>1, <1>2, <2>2, <2>3 DEF LeftToTry
  <2> QED
    BY <1>4, <2>4 DEF Owing
<1>5. CASE phase \in Handshake /\ phase' \in Handshake
  <2>1. LeftOfPlan' = LeftOfPlan
    BY <1>1, <1>5, PhasesAre DEF LeftOfPlan
  <2>2. LeftOfHost' = LeftOfHost
    BY <1>1, <1>5, PhasesAre DEF LeftOfHost
  <2>3. UnderWay' = UnderWay
    BY <1>2, <1>5, PhasesAre DEF UnderWay
  <2>4. owed \subseteq LeftToTry /\ phase' # "failed"
    BY <1>5, TryingIs, PhasesAre DEF Owing
  <2>5. owed' \subseteq LeftToTry'
    BY <1>1, <1>2, <2>1, <2>2, <2>3, <2>4 DEF LeftToTry
  <2> QED
    BY <2>4, <2>5 DEF Owing
<1>6. CASE phase' \in {"probe", "accepted", "protocol", "types", "challenge", "ready"}
  BY <1>6, TryingIs DEF Owing
<1> QED
  BY <1>3, <1>4, <1>5, <1>6 DEF Moves

(* The planned addresses: the next pass owes all of them, and the next     *)
(* address is not lost.                                                    *)
LEMMA ListsOwe ==
    ASSUME ConnectTyped, Placed, Owing, NextOriginal \/ DelayEnds \/ DialOriginal
    PROVE  Owing'
<1>1. /\ stack' = stack /\ order' = order /\ stack = <<>> /\ owed \subseteq LeftToTry
      /\ LeftIn(stack) = {} /\ UnderWay = {} /\ LeftOfHost = {}
  BY TryingIs, PhasesAre, NothingLeft
  DEF NextOriginal, DelayEnds, DialOriginal, plan, Placed, Owing, UnderWay, LeftOfHost
<1>2. order \in Seq(Places) /\ Len(order) \in Nat /\ DOMAIN order = 1..Len(order) /\ at \in 0..Len(order)
  BY LenProperties DEF ConnectTyped, TypeOK
<1>3. owed \subseteq LeftOfPlan
  BY <1>1 DEF LeftToTry
<1>4. CASE NextOriginal
  <2>1. phase = "pass" /\ phase' = "resolve" /\ UNCHANGED <<owed, pass>> /\ at' = at + 1
    BY <1>4 DEF NextOriginal
  <2>2. LeftOfPlan' = LeftOfPlan
    BY <1>1, <2>1 DEF LeftOfPlan
  <2> QED
    BY <1>3, <2>1, <2>2 DEF Owing, LeftToTry
<1>5. CASE DelayEnds
  <2>1. phase' = "pass" /\ pass' = pass + 1 /\ at' = 0 /\ owed' = {<<pass + 1, i>> : i \in 1..Len(order)}
    BY <1>2, <1>5 DEF DelayEnds
  <2>2. owed' \subseteq LeftOfPlan'
    BY <1>1, <1>2, <2>1 DEF LeftOfPlan
  <2> QED
    BY <2>1, <2>2 DEF Owing, LeftToTry
<1>6. CASE DialOriginal
  <2>1. phase = "resolve" /\ UNCHANGED <<pass, at>> /\ Original.host \in STRING
    BY <1>6, OriginalIs DEF DialOriginal, Placed, Places
  <2>2. PICK found \in Answers(Original.host) :
            /\ resolved' = found /\ chain' = 0
            /\ owed' = (owed \ {<<pass, at>>}) \cup {<<pass, at, j, 1, 1>> : j \in DOMAIN found}
            /\ phase' = IF found = <<>> THEN "pass" ELSE "chains"
    BY <1>6 DEF DialOriginal
  <2>3. found \in Seq(STRING) /\ Len(found) \in Nat /\ DOMAIN found = 1..Len(found)
    BY <2>1, AnswersAreTyped, LenProperties
  <2>4. owed \ {<<pass, at>>} \subseteq {<<pass, i>> : i \in at + 1..Len(order)}
    BY <1>2, <1>3, <2>1 DEF LeftOfPlan
  <2>5. phase' \in {"pass", "chains"}
    BY <2>2
  <2>6. LeftOfPlan' = {<<pass, i>> : i \in at + 1..Len(order)}
    BY <1>1, <2>1, <2>5 DEF LeftOfPlan
  <2>7. CASE found = <<>>
    <3>1. {<<pass, at, j, 1, 1>> : j \in DOMAIN found} = {}
      BY <2>7
    <3>2. owed' \subseteq LeftOfPlan'
      BY <2>2, <2>4, <2>6, <3>1
    <3> QED
      BY <2>2, <2>7, <3>2 DEF Owing, LeftToTry
  <2>8. CASE found # <<>>
    <3>1. phase' = "chains" /\ chain' = 0 /\ resolved' = found
      BY <2>2, <2>8
    <3>2. LeftOfHost' = {<<pass, at, j, 1, 1>> : j \in 1..Len(found)}
      BY <2>1, <2>3, <3>1 DEF LeftOfHost
    <3>3. owed' \subseteq LeftOfPlan' \cup LeftOfHost'
      BY <2>2, <2>3, <2>4, <2>6, <3>2
    <3> QED
      BY <3>1, <3>3 DEF Owing, LeftToTry
  <2> QED
    BY <2>7, <2>8
<1> QED
  BY <1>4, <1>5, <1>6

(* The next resolved address of a planned one begins its chain.            *)
LEMMA NextChainOwes ==
    ASSUME ConnectTyped, Placed, Owing, NextChain
    PROVE  Owing'
<1> DEFINE l == [targets |-> <<Original>>, next_target |-> 1,
                 addresses |-> <<resolved[chain + 1]>>, next_address |-> 0,
                 depth |-> 0, path |-> <<pass, at, chain + 1>>]
<1>1. /\ phase = "chains" /\ phase' = "chain" /\ stack' = <<l>> /\ chain' = chain + 1
      /\ UNCHANGED <<order, pass, at, resolved, owed>> /\ chain < Len(resolved)
  BY DEF NextChain, plan
<1>2. /\ Len(resolved) \in Nat /\ chain \in Nat /\ pass \in Nat /\ at \in Nat
  BY LenProperties DEF ConnectTyped, TypeOK
<1>3. /\ l.next_target = 1 /\ l.next_address = 0 /\ Len(l.addresses) = 1
      /\ l.path = <<pass, at, chain + 1>>
  OBVIOUS
<1> HIDE DEF l
<1>4. LeftOfPlan' = LeftOfPlan
  BY <1>1 DEF LeftOfPlan
<1>5. LeftIn(stack) = {} /\ UnderWay = {} /\ owed \subseteq LeftToTry
  BY <1>1, NothingLeft, TryingIs, PhasesAre DEF Placed, UnderWay, Owing
<1>6. <<pass, at, chain + 1, 1, 1>> \in LeftOf(l)
  <2>1. l.path \o <<l.next_target, 1>> = <<pass, at, chain + 1, 1, 1>>
    BY <1>2, <1>3, FirstAttempt
  <2>2. 1 \in l.next_address + 1..Len(l.addresses)
    BY <1>3
  <2> QED
    BY <2>1, <2>2 DEF LeftOf
<1>7. LeftOf(l) \subseteq LeftIn(stack')
  <2>1. Len(stack') = 1 /\ stack'[1] = l
    BY <1>1
  <2> QED
    BY <2>1, LeftOfTop
<1>8. LeftOfHost \subseteq LeftOfHost' \cup {<<pass, at, chain + 1, 1, 1>>}
  <2>1. LeftOfHost = {<<pass, at, j, 1, 1>> : j \in chain + 1..Len(resolved)}
    BY <1>1 DEF LeftOfHost
  <2>2. LeftOfHost' = {<<pass, at, j, 1, 1>> : j \in chain + 1 + 1..Len(resolved)}
    BY <1>1 DEF LeftOfHost
  <2>3. \A j \in chain + 1..Len(resolved) : j = chain + 1 \/ j \in chain + 1 + 1..Len(resolved)
    BY <1>1, <1>2
  <2> QED
    BY <2>1, <2>2, <2>3
<1>9. LeftIn(stack)' = LeftIn(stack')
  BY DEF LeftIn, LeftOf
<1>10. owed' \subseteq LeftToTry'
  BY <1>1, <1>4, <1>5, <1>6, <1>7, <1>8, <1>9 DEF LeftToTry
<1> QED
  BY <1>1, <1>10 DEF Owing

(* The steps on the top of a chain: what the levels below have left stays. *)
LEMMA ChainOwes ==
    ASSUME ConnectTyped, Owing, stack # <<>>, phase \in {"chain"} \cup Dialling,
           phase' \in {"chain"} \cup Dialling, UNCHANGED <<order, pass, at, resolved, chain>>,
           Len(stack') \in Nat, Len(stack') >= Len(stack) - 1,
           \A i \in 1..Len(stack) - 1 : stack'[i] = stack[i],
           owed' \cap LeftOf(Top) \subseteq LeftIn(stack') \cup UnderWay',
           owed' \cap UnderWay \subseteq LeftIn(stack') \cup UnderWay',
           owed' \ owed \subseteq LeftIn(stack')
    PROVE  Owing'
<1>1. LeftOfPlan' = LeftOfPlan /\ LeftOfHost' = LeftOfHost
  BY DEF LeftOfPlan, LeftOfHost, Dialling, Handshake
<1>2. owed \subseteq LeftToTry /\ phase' # "failed"
  BY TryingIs DEF Owing, Trying, Dialling, Handshake
<1>3. Len(stack) \in Nat /\ Len(stack) >= 1 /\ Top = stack[Len(stack)]
  BY TopIs
<1>4. LeftIn(stack) \subseteq LeftIn(stack') \cup LeftOf(Top)
  BY <1>3, LeftOfOthers
<1>5. LeftIn(stack)' = LeftIn(stack')
  BY DEF LeftIn, LeftOf
<1>6. owed' \subseteq LeftToTry'
  BY <1>1, <1>2, <1>4, <1>5 DEF LeftToTry
<1> QED
  BY <1>2, <1>6 DEF Owing

(* A level is popped when nothing is left of it.                           *)
LEMMA PopLevelOwes ==
    ASSUME ConnectTyped, Owing, PopLevel
    PROVE  Owing'
<1>1. /\ stack # <<>> /\ stack' = Front(stack) /\ phase = "chain" /\ phase' = "chain"
      /\ UNCHANGED <<order, pass, at, resolved, chain, owed>>
      /\ Top.next_address = Len(Top.addresses) /\ Top.next_target = Len(Top.targets)
  BY DEF PopLevel, plan
<1>2. Top \in Levels /\ Top.next_target \in Nat /\ Top.next_address \in Nat
  BY <1>1, TopIs, LevelTyped
<1>3. LeftOf(Top) = {}
  <2>1. Top.next_target + 1..Len(Top.targets) = {} /\ Top.next_address + 1..Len(Top.addresses) = {}
    BY <1>1, <1>2
  <2> QED
    BY <2>1 DEF LeftOf
<1>4. /\ Len(stack') = Len(stack) - 1 /\ Len(stack) \in Nat /\ Len(stack) >= 1
      /\ \A i \in 1..Len(stack) - 1 : stack'[i] = stack[i]
  BY <1>1, FrontIs, TopIs
<1>5. UnderWay = {}
  BY <1>1, PhasesAre DEF UnderWay
<1>6. Len(stack') \in Nat /\ Len(stack') >= Len(stack) - 1
  BY <1>4
<1> QED
  BY <1>1, <1>3, <1>4, <1>5, <1>6, ChainOwes

(* A target owes each address that its host resolves to, or nothing when   *)
(* it is passed over.                                                      *)
LEMMA ResolveTargetOwes ==
    ASSUME ConnectTyped, Owing, ResolveTarget
    PROVE  Owing'
<1>1. /\ stack # <<>> /\ phase = "chain" /\ phase' = "chain"
      /\ UNCHANGED <<order, pass, at, resolved, chain>>
      /\ Top.next_target < Len(Top.targets) /\ Top.next_address = Len(Top.addresses)
  BY DEF ResolveTarget, Resolving, plan
<1>2. /\ Top \in Levels /\ Top.next_target \in Nat /\ Len(Top.targets) \in Nat
      /\ Top.next_address \in Nat /\ Top.path \in Seq(Nat) /\ Top.targets \in Seq(Places)
  BY <1>1, TopIs, LevelTyped
<1> DEFINE taken == Top.next_target + 1
<1>3. taken \in Nat /\ taken \in 1..Len(Top.targets)
  BY <1>1, <1>2
<1>4. Top.targets[taken].host \in STRING
  BY <1>2, <1>3, TargetOf DEF Places
<1>5. PICK found \in Answers(Top.targets[taken].host) :
          /\ stack' = Append(Front(stack), WentOn(Top, taken, found))
          /\ owed' = (owed \ {Top.path \o <<taken>>})
                         \cup {Append(Top.path \o <<taken>>, j) : j \in DOMAIN found}
  BY DEF ResolveTarget, WentOn
<1>6. found \in Seq(STRING) /\ Len(found) \in Nat /\ DOMAIN found = 1..Len(found)
  BY <1>4, AnswersAreTyped, LenProperties
<1>7. LeftOf(Top) \subseteq {Append(Top.path, t) : t \in taken..Len(Top.targets)}
  <2>1. Top.next_address + 1..Len(Top.addresses) = {}
    BY <1>1, <1>2
  <2> QED
    BY <2>1 DEF LeftOf
<1> HIDE DEF taken
<1> DEFINE l == WentOn(Top, taken, found)
<1>8. /\ l \in Levels /\ l.targets = Top.targets /\ l.next_target = taken
      /\ l.addresses = found /\ l.next_address = 0 /\ l.path = Top.path
  <2>1. Top \in Levels /\ taken \in Nat /\ found \in Seq(STRING)
    BY <1>2, <1>3, <1>6
  <2> QED
    BY <2>1, NextTarget
<1> HIDE DEF l
<1>9. LeftOf(l) = {Append(Top.path, t) : t \in taken + 1..Len(Top.targets)}
                     \cup {Top.path \o <<taken, j>> : j \in 0 + 1..Len(found)}
  BY <1>8 DEF LeftOf
<1>10. Top.path \o <<taken>> = Append(Top.path, taken)
  BY <1>2, <1>3, PathsAre
<1>11. {Append(Top.path \o <<taken>>, j) : j \in DOMAIN found} \subseteq LeftOf(l)
  <2> SUFFICES ASSUME NEW j \in DOMAIN found PROVE Append(Top.path \o <<taken>>, j) \in LeftOf(l)
    OBVIOUS
  <2>1. j \in Nat /\ j \in 0 + 1..Len(found)
    BY <1>6
  <2>2. Append(Top.path \o <<taken>>, j) = Top.path \o <<taken, j>>
    BY <1>2, <1>3, <2>1, PathsAre
  <2> QED
    BY <1>9, <2>1, <2>2
<1>12. LeftOf(Top) \subseteq LeftOf(l) \cup {Append(Top.path, taken)}
  <2>1. \A t \in taken..Len(Top.targets) : t = taken \/ t \in taken + 1..Len(Top.targets)
    BY <1>2, <1>3
  <2> QED
    BY <1>7, <1>9, <2>1
<1>13. /\ Len(stack) \in Nat /\ Len(stack) >= 1
       /\ stack' # <<>> /\ Len(stack') = Len(stack) /\ stack'[Len(stack)] = l
       /\ \A i \in 1..Len(stack) - 1 : stack'[i] = stack[i]
  <2>1. stack' = Append(Front(stack), l)
    BY <1>5 DEF l
  <2> QED
    BY <1>1, <1>8, <2>1, TopIs, ReplacedIs
<1>14. LeftOf(l) \subseteq LeftIn(stack')
  <2>1. Len(stack) \in 1..Len(stack')
    BY <1>13
  <2> QED
    BY <1>13, <2>1, LeftOfTop
<1>15. UnderWay = {}
  BY <1>1, PhasesAre DEF UnderWay
<1>16. owed' \ owed \subseteq LeftIn(stack')
  BY <1>5, <1>11, <1>14
<1>17. owed' \cap LeftOf(Top) \subseteq LeftIn(stack')
  BY <1>5, <1>10, <1>11, <1>12, <1>14
<1>18. Len(stack') \in Nat /\ Len(stack') >= Len(stack) - 1
  BY <1>13
<1> QED
  BY <1>1, <1>13, <1>15, <1>16, <1>17, <1>18, ChainOwes

(* The next resolved address becomes the attempt under way.                *)
LEMMA DialOwes ==
    ASSUME ConnectTyped, Owing, Dial
    PROVE  Owing'
<1>1. /\ stack # <<>> /\ Top.next_address < Len(Top.addresses) /\ phase = "chain" /\ phase' = "open"
      /\ stack' = Append(Front(stack), [Top EXCEPT !.next_address = @ + 1])
      /\ UNCHANGED <<order, pass, at, resolved, chain, owed>>
  BY DEF Dial, HasAddress, plan
<1>2. /\ Top \in Levels /\ Len(Top.addresses) \in Nat /\ Top.next_address \in Nat
  BY <1>1, TopIs, LevelTyped
<1> DEFINE l == [Top EXCEPT !.next_address = @ + 1]
<1>3. /\ l \in Levels /\ l.targets = Top.targets /\ l.next_target = Top.next_target
      /\ l.addresses = Top.addresses /\ l.next_address = Top.next_address + 1 /\ l.path = Top.path
  BY <1>2, NextAddress
<1>4. stack' = Append(Front(stack), l)
  BY <1>1
<1> HIDE DEF l
<1>5. /\ Len(stack) \in Nat /\ Len(stack) >= 1
      /\ stack' # <<>> /\ Len(stack') = Len(stack) /\ stack'[Len(stack)] = l
      /\ \A i \in 1..Len(stack) - 1 : stack'[i] = stack[i]
  BY <1>1, <1>3, <1>4, TopIs, ReplacedIs
<1>6. Top' = l
  BY <1>5 DEF Top, Last
<1>7. UnderWay' = {Top.path \o <<Top.next_target, Top.next_address + 1>>}
  BY <1>1, <1>3, <1>6, PhasesAre DEF UnderWay, Attempt
<1>8. LeftOf(Top) \subseteq LeftOf(l) \cup UnderWay'
  <2>1. \A j \in Top.next_address + 1..Len(Top.addresses) :
            j = Top.next_address + 1 \/ j \in Top.next_address + 1 + 1..Len(Top.addresses)
    BY <1>2
  <2>2. LeftOf(l) = {Append(Top.path, t) : t \in Top.next_target + 1..Len(Top.targets)}
                        \cup {Top.path \o <<Top.next_target, j>> :
                                 j \in Top.next_address + 1 + 1..Len(Top.addresses)}
    BY <1>3 DEF LeftOf
  <2> QED
    BY <1>7, <2>1, <2>2 DEF LeftOf
<1>9. LeftOf(l) \subseteq LeftIn(stack')
  <2>1. Len(stack) \in 1..Len(stack')
    BY <1>5
  <2> QED
    BY <1>5, <2>1, LeftOfTop
<1>10. UnderWay = {}
  BY <1>1, PhasesAre DEF UnderWay
<1>11. Len(stack') \in Nat /\ Len(stack') >= Len(stack) - 1
  BY <1>5
<1>12. phase \in {"chain"} \cup Dialling /\ phase' \in {"chain"} \cup Dialling
  BY <1>1, PhasesAre
<1>13. owed' \cap LeftOf(Top) \subseteq LeftIn(stack') \cup UnderWay'
  BY <1>8, <1>9
<1> QED
  BY <1>1, <1>5, <1>10, <1>11, <1>12, <1>13, ChainOwes

(* A redirect settles the attempt that got it and owes each of its         *)
(* targets.                                                                *)
LEMMA PushesOwe ==
    ASSUME ConnectTyped, Nested, Owing, Pushes
    PROVE  Owing'
<1>1. /\ phase = "redirect" /\ phase' = "chain" /\ UNCHANGED <<order, pass, at, resolved, chain>>
  BY DEF Pushes, Push, plan
<1>2. stack # <<>>
  BY <1>1, PhasesAre DEF Nested
<1> DEFINE n == Len(stack)
<1>3. Top \in Levels /\ n \in Nat /\ n >= 1 /\ Top = stack[n]
  BY <1>2, TopIs
<1>4. PICK o \in Offers : LET offer == ParseRedirectAddresses(o.address) IN
            ~RedirectRefused(o.address) /\ ~ChangesProtocol(offer) /\ Push(Hops(offer))
  BY DEF Pushes
<1> DEFINE hops == Hops(ParseRedirectAddresses(o.address))
           l == [targets |-> hops, next_target |-> 0, addresses |-> <<>>,
                 next_address |-> 0, depth |-> Top.depth + 1, path |-> Attempt]
<1>5. hops \in Seq(Places) /\ Len(hops) \in Nat /\ DOMAIN hops = 1..Len(hops)
  BY <1>1, <1>4, HopsAre, LenProperties
<1>6. Attempt \in Seq(Nat)
  BY <1>3, LevelTyped, PathOfAttempt DEF Attempt
<1>7. stack' = Append(stack, l) /\ owed' = (owed \ {Attempt}) \cup {Append(Attempt, t) : t \in DOMAIN hops}
  BY <1>4 DEF Push
<1> HIDE DEF hops
<1>8. <<>> \in Seq(STRING) /\ Top.depth + 1 \in Nat
  BY <1>3, LevelTyped
<1>9. l \in Levels
  BY <1>5, <1>6, <1>8 DEF Levels
<1>10. l.targets = hops /\ l.next_target = 0 /\ l.path = Attempt
  OBVIOUS
<1> HIDE DEF l
<1>11. Len(stack') = n + 1 /\ stack'[n + 1] = l /\ \A i \in 1..n : stack'[i] = stack[i]
  BY <1>7, <1>9, PushedIs
<1> HIDE DEF n
<1>12. LeftOf(l) \subseteq LeftIn(stack')
  <2>1. n + 1 \in 1..Len(stack')
    BY <1>3, <1>11
  <2> QED
    BY <1>11, <2>1, LeftOfTop
<1>13. LeftOf(Top) \subseteq LeftIn(stack')
  <2>1. n \in 1..Len(stack') /\ stack'[n] = Top
    BY <1>3, <1>11
  <2> QED
    BY <2>1, LeftOfTop
<1>14. {Append(Attempt, t) : t \in DOMAIN hops} \subseteq LeftOf(l)
  <2>1. \A t \in DOMAIN hops : t \in 0 + 1..Len(hops)
    BY <1>5
  <2> QED
    BY <1>10, <2>1 DEF LeftOf
<1>15. UnderWay = {Attempt}
  BY <1>1, PhasesAre DEF UnderWay
<1>16. /\ Len(stack') \in Nat /\ Len(stack') >= Len(stack) - 1
       /\ \A i \in 1..Len(stack) - 1 : stack'[i] = stack[i]
  BY <1>3, <1>11 DEF n
<1>17. phase \in {"chain"} \cup Dialling /\ phase' \in {"chain"} \cup Dialling
  BY <1>1, PhasesAre
<1>18. owed' \ owed \subseteq LeftIn(stack') /\ owed' \cap UnderWay \subseteq LeftIn(stack')
  BY <1>7, <1>12, <1>14, <1>15
<1> QED
  BY <1>1, <1>2, <1>13, <1>16, <1>17, <1>18, ChainOwes

(* Every step keeps everything that is owed left to try.                   *)
LEMMA StepOwing ==
    ASSUME ConnectTyped, Placed, Nested, Owing, Steps
    PROVE  Owing'
<1>1. CASE ChainFails
  <2>1. /\ phase = "chain" /\ phase' = "chains" /\ stack = <<>>
        /\ UNCHANGED <<order, pass, at, resolved, chain, stack, owed>>
    BY <1>1 DEF ChainFails, plan
  <2>2. LeftOfPlan' = LeftOfPlan
    BY <2>1 DEF LeftOfPlan
  <2>3. LeftOfHost' = LeftOfHost
    BY <2>1 DEF LeftOfHost
  <2>4. LeftIn(stack) = {} /\ UnderWay = {} /\ owed \subseteq LeftToTry
    BY <2>1, NothingLeft, TryingIs, PhasesAre DEF UnderWay, Owing
  <2>5. owed' \subseteq LeftToTry'
    BY <2>1, <2>2, <2>3, <2>4 DEF LeftToTry
  <2> QED
    BY <2>1, <2>5 DEF Owing
<1>2. CASE Opened
  <2>1. /\ phase = "open" /\ phase' = "connect"
        /\ UNCHANGED <<order, pass, at, resolved, chain, stack, owed>>
    BY <1>2 DEF Opened, plan
  <2>2. LeftOfPlan' = LeftOfPlan
    BY <2>1 DEF LeftOfPlan
  <2>3. LeftOfHost' = LeftOfHost
    BY <2>1 DEF LeftOfHost
  <2>4. LeftIn(stack)' = LeftIn(stack) /\ Attempt' = Attempt
    BY <2>1 DEF LeftIn, LeftOf, Attempt, Top
  <2>5. UnderWay' = UnderWay /\ owed \subseteq LeftToTry
    BY <2>1, <2>4, TryingIs, PhasesAre DEF UnderWay, Owing
  <2>6. owed' \subseteq LeftToTry'
    BY <2>1, <2>2, <2>3, <2>4, <2>5 DEF LeftToTry
  <2> QED
    BY <2>1, <2>6 DEF Owing
<1>3. CASE Challenged \/ Authenticated
  BY <1>3, TryingIs DEF Challenged, Authenticated, Owing
<1>4. CASE Expire \/ Cancel
  BY <1>4, OwedKept DEF Expire, Cancel, plan, loops
<1> QED
  BY <1>1, <1>2, <1>3, <1>4, FailsOwe, RemembersOwes, MovesOwe, ListsOwe, NextChainOwes,
     PopLevelOwes, ResolveTargetOwes, DialOwes, PushesOwe DEF Steps

-----------------------------------------------------------------------------
(* A connect begins within the invariant.                                  *)
LEMMA ConnectInvInit ==
    ASSUME Init
    PROVE  ConnectInv
<1>1. ConnectTyped
  BY InitTyped
<1>2. phase \in {"pass", "failed"} /\ stack = <<>> /\ transport = NoTransport /\ proofs = 0
      /\ at = 0 /\ pass = 0 /\ owed = {<<0, i>> : i \in DOMAIN order}
      /\ (phase = "failed" => failure = "secret")
  BY DEF Init
<1>3. Placed
  BY <1>2, PhasesAre DEF Placed
<1>4. Nested
  <2>1. Len(stack) = 0 /\ MaximumRedirects \in Nat
    BY <1>2, ConnectAssumption
  <2> QED
    BY <1>2, <2>1, PhasesAre DEF Nested
<1>5. Streaming
  BY <1>2, PhasesAre DEF Streaming
<1>6. Proving
  BY <1>2, PhasesAre DEF Proving
<1>7. Owing
  <2>1. DOMAIN order = 1..Len(order)
    BY <1>1, LenProperties DEF ConnectTyped
  <2>2. LeftOfPlan = {<<0, i>> : i \in 1..Len(order)} \/ phase = "failed"
    BY <1>2 DEF LeftOfPlan
  <2>3. "secret" \notin Failover
    BY DEF Failover
  <2> QED
    BY <1>2, <2>1, <2>2, <2>3, TryingIs DEF Owing, LeftToTry
<1> QED
  BY <1>1, <1>3, <1>4, <1>5, <1>6, <1>7 DEF ConnectInv

(* A step that changes nothing keeps it.                                   *)
LEMMA ConnectInvKept ==
    ASSUME ConnectInv, UNCHANGED vars
    PROVE  ConnectInv'
<1>1. UNCHANGED <<secret, order, phase, pass, at, resolved, chain, stack, opens, last, failure,
                  transport, expired, cancelled, owed, proofs>>
  BY DEF vars
<1>2. ConnectTyped'
  BY <1>1 DEF ConnectInv, ConnectTyped, TypeOK
<1>3. Placed'
  BY <1>1 DEF ConnectInv, Placed
<1>4. Nested'
  BY <1>1, StackKept DEF ConnectInv
<1>5. Streaming'
  BY <1>1 DEF ConnectInv, Streaming, Original
<1>6. Proving'
  BY <1>1 DEF ConnectInv, Proving
<1>7. Owing'
  BY <1>1, OwedKept DEF ConnectInv
<1> QED
  BY <1>2, <1>3, <1>4, <1>5, <1>6, <1>7 DEF ConnectInv

(* Every step keeps it.                                                    *)
LEMMA ConnectInvNext ==
    ASSUME ConnectInv, [Next]_vars
    PROVE  ConnectInv'
<1>1. CASE Next
  <2>1. Steps
    BY <1>1, StepsAre
  <2>2. ConnectTyped /\ Placed /\ Nested /\ Streaming /\ Proving /\ Owing
    BY DEF ConnectInv
  <2> QED
    BY <2>1, <2>2, StepTyped, StepPlaced, StepNested, StepStreaming, StepProving, StepOwing
    DEF ConnectInv
<1> QED
  BY <1>1, ConnectInvKept

(* The invariant of a connect, for any secrets, offers and answers of the  *)
(* resolver: the loops of TryConnect stay within what they loop over, the  *)
(* chain of redirects is in order, the stream belongs to the planned       *)
(* address, the password is proved at most once, and what is owed is left  *)
(* to try.                                                                 *)
THEOREM ConnectsAreOrderly == Spec => []ConnectInv
<1>1. Init => ConnectInv
  BY ConnectInvInit
<1>2. ConnectInv /\ [Next]_vars => ConnectInv'
  BY ConnectInvNext
<1> QED
  BY <1>1, <1>2, PTL DEF Spec

(* TriesEverything for every plan: TryConnect gives up for a failure that  *)
(* another address might not share only when each pass has tried each      *)
(* resolved address of each planned one and of every redirect its          *)
(* listeners sent.                                                         *)
THEOREM AddressesAreTried == Spec => []TriesEverything
<1>1. ConnectInv => TriesEverything
  BY DEF ConnectInv, Owing, TriesEverything
<1> QED
  BY <1>1, ConnectsAreOrderly, PTL

(* RedirectsStayInside for every plan: redirects change neither the        *)
(* protocol nor the name the certificate is checked against, come to no    *)
(* address twice and are no more than allowed.                             *)
THEOREM RedirectsAreContained == Spec => []RedirectsStayInside
<1>1. ASSUME ConnectInv PROVE RedirectsStayInside
  <2>1. ConnectTyped /\ Nested /\ Streaming /\ stack \in Seq(Levels)
    BY <1>1 DEF ConnectInv, ConnectTyped
  <2>2. DOMAIN stack = 1..Len(stack) /\ Len(stack) \in Nat
    BY <2>1, LenProperties
  <2>3. TypeOK /\ Len(stack) <= MaximumRedirects + 1
    BY <2>1 DEF ConnectTyped, Nested
  <2>4. transport # NoTransport =>
            transport.protocol = Original.protocol /\ transport.name = Original.host
    BY <2>1 DEF Streaming
  <2>5. ASSUME NEW i \in DOMAIN stack, NEW j \in DOMAIN stack, i < j, stack[j].next_target # 0
        PROVE  AddressKey(stack[i].targets[stack[i].next_target])
                  # AddressKey(stack[j].targets[stack[j].next_target])
    <3>1. i \in 1..j - 1 /\ j \in 1..Len(stack)
      BY <2>2, <2>5
    <3>2. stack[j] \in Levels
      BY <2>1, <3>1, ElementOfSeq
    <3>3. stack[j].next_target \in Nat /\ Len(stack[j].targets) \in Nat
      BY <3>2, LevelTyped
    <3>4. stack[j].next_target <= Len(stack[j].targets)
      BY <2>1, <3>1 DEF Nested
    <3>5. stack[j].next_target \in 1..Len(stack[j].targets)
      BY <2>5, <3>3, <3>4
    <3> QED
      BY <2>1, <3>1, <3>5 DEF Nested, Current
  <2> QED
    BY <2>3, <2>4, <2>5 DEF RedirectsStayInside
<1> QED
  BY <1>1, ConnectsAreOrderly, PTL

(* CredentialsOnce for every plan: a connect, whatever fails in it, proves *)
(* the password at most once, under the deadline of its stream.            *)
THEOREM CredentialsAreProvedOnce == Spec => []CredentialsOnce
<1>1. ConnectInv => CredentialsOnce
  BY PhasesAre DEF ConnectInv, Proving, Streaming, CredentialsOnce, Waiting, Logon
<1> QED
  BY <1>1, ConnectsAreOrderly, PTL
=============================================================================
