------------------------------ MODULE Resolver ------------------------------
(***************************************************************************)
(* ResolverPool of connect_plan.cpp: names are looked up by a bounded      *)
(* number of detached threads, because a lookup cannot be interrupted and  *)
(* may hang.  A caller waits for its request no longer than its deadline.  *)
(*                                                                         *)
(* A step is what a thread does while it holds the pool's lock.            *)
(***************************************************************************)
EXTENDS Naturals, Sequences, SequencesExt, FiniteSets

CONSTANTS
    Lookups,            \* requests; each belongs to one caller
    ResolverWorkers,    \* MAX_RESOLVER_WORKERS threads there may be
    MaximumQueue,       \* MAX_RESOLVER_QUEUE
    NoLookup

ASSUME ResolverAssumption ==
    /\ IsFiniteSet(ResolverWorkers) /\ ResolverWorkers # {}
    /\ MaximumQueue \in Nat \ {0} /\ NoLookup \notin Lookups

VARIABLES
    lookup,     \* of each request: "new", "queued", "started", "done" or
                \* "withdrawn"; and "refused", never having been queued
    waiting,    \* the requests whose callers still wait for them
    queue,
    thread,     \* of each worker: "none", "starting", "idle" (it waits to be
                \* notified), "woken" or "looking"
    work        \* what a looking worker looks up

resolverVars == <<lookup, waiting, queue, thread, work>>

ResolverInit ==
    /\ lookup = [l \in Lookups |-> "new"] /\ waiting = Lookups
    /\ queue = <<>>
    /\ thread = [w \in ResolverWorkers |-> "none"]
    /\ work = [w \in ResolverWorkers |-> NoLookup]

ThreadsIn(states) == {w \in ResolverWorkers : thread[w] \in states}

(* `idle' counts a worker from before it waits until after it has woken.   *)
Idle == Cardinality(ThreadsIn({"idle", "woken"}))

Notified_OnEmpty(threads) ==        \* bug: notifies for the first request only
    LET asleep == {w \in ResolverWorkers : threads[w] = "idle"}
    IN  IF asleep = {} \/ queue # <<>> THEN {threads}
        ELSE {[threads EXCEPT ![w] = "woken"] : w \in asleep}

(* work_ready.notify_one: some worker that waits and has not been notified. *)
Notified(threads) ==
    LET asleep == {w \in ResolverWorkers : threads[w] = "idle"}
    IN  IF asleep = {} THEN {threads} ELSE {[threads EXCEPT ![w] = "woken"] : w \in asleep}

NeedsWorker(q) == Len(q) > Idle /\ ThreadsIn({"none"}) # {}

(* Resolve, up to its wait for the answer.                                 *)
Enqueue(l) ==
    /\ lookup[l] = "new" /\ l \in waiting /\ Len(queue) < MaximumQueue
    /\ queue' = Append(queue, l) /\ lookup' = [lookup EXCEPT ![l] = "queued"]
    /\ \/ ~NeedsWorker(queue') /\ thread' \in Notified(thread)
       \/ /\ NeedsWorker(queue')
          /\ \E w \in ThreadsIn({"none"}) : thread' \in Notified([thread EXCEPT ![w] = "starting"])
       \/ \* no thread can be started, and there are others
          /\ NeedsWorker(queue') /\ ThreadsIn({"none"}) # ResolverWorkers
          /\ thread' \in Notified(thread)
    /\ UNCHANGED <<waiting, work>>

(* Without a single worker the request is withdrawn and refused.           *)
CannotStart(l) ==
    /\ lookup[l] = "new" /\ l \in waiting /\ Len(queue) < MaximumQueue
    /\ ThreadsIn({"none"}) = ResolverWorkers
    /\ lookup' = [lookup EXCEPT ![l] = "refused"] /\ waiting' = waiting \ {l}
    /\ UNCHANGED <<queue, thread, work>>

(* A request is in the queue once.                                         *)
Withdraw(l) == \E i \in DOMAIN queue : queue[i] = l /\ queue' = RemoveAt(queue, i)

(* The caller's check throws: its deadline has passed, or it is cancelled. *)
StopsWaiting(l) ==
    /\ l \in waiting /\ waiting' = waiting \ {l}
    /\ lookup[l] # "done" /\ (lookup[l] = "new" => Len(queue) = MaximumQueue)
    /\ CASE lookup[l] = "new" -> lookup' = [lookup EXCEPT ![l] = "refused"] /\ UNCHANGED queue
         [] lookup[l] = "queued" -> /\ lookup' = [lookup EXCEPT ![l] = "withdrawn"]
                                    /\ Withdraw(l)
         [] OTHER -> UNCHANGED <<lookup, queue>>
    /\ UNCHANGED <<thread, work>>

TakesAnswer(l) ==
    /\ l \in waiting /\ lookup[l] = "done" /\ waiting' = waiting \ {l}
    /\ UNCHANGED <<lookup, queue, thread, work>>

(* Work: a worker that holds the lock takes the oldest request or waits.   *)
TakeOrWait(w, lookups) ==
    IF queue = <<>>
    THEN /\ thread' = [thread EXCEPT ![w] = "idle"] /\ work' = [work EXCEPT ![w] = NoLookup]
         /\ lookup' = lookups /\ UNCHANGED queue
    ELSE /\ thread' = [thread EXCEPT ![w] = "looking"] /\ work' = [work EXCEPT ![w] = Head(queue)]
         /\ lookup' = [lookups EXCEPT ![Head(queue)] = "started"] /\ queue' = Tail(queue)

BeginWork(w) ==
    /\ thread[w] \in {"starting", "woken"} /\ TakeOrWait(w, lookup) /\ UNCHANGED waiting

LookedUp(w) ==
    /\ thread[w] = "looking"
    /\ TakeOrWait(w, [lookup EXCEPT ![work[w]] = "done"]) /\ UNCHANGED waiting

ResolverNext ==
    \/ \E l \in Lookups : Enqueue(l) \/ CannotStart(l) \/ StopsWaiting(l) \/ TakesAnswer(l)
    \/ \E w \in ResolverWorkers : BeginWork(w) \/ LookedUp(w)

ResolverSpec == ResolverInit /\ [][ResolverNext]_resolverVars

-----------------------------------------------------------------------------
(* A worker sleeps beside a queued request only while another one is on    *)
(* its way to it; no request is queued where nobody will look; and what    *)
(* its caller withdrew is never looked up.                                 *)
NoLookupIsLost ==
    /\ ThreadsIn({"idle"}) # {} => Len(queue) <= Cardinality(ThreadsIn({"woken", "starting"}))
    /\ queue # <<>> => ThreadsIn({"none"}) # ResolverWorkers
    /\ \A l \in Lookups : lookup[l] = "queued" => l \in waiting /\ l \in ToSet(queue)
    /\ \A w \in ThreadsIn({"looking"}) : lookup[work[w]] = "started"
=============================================================================
