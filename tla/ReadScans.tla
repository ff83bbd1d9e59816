----------------------------- MODULE ReadScans -----------------------------
(***************************************************************************)
(* The scans of one DuckDB connection's queries and the sessions they read *)
(* through: OracleSessionPool and its leases (src/src/session_pool.cpp),   *)
(* AcquireOracleReadSession (oracle_pool.cpp), the change number a         *)
(* statement reads at (oracle_catalog.cpp), and the initialisation and the *)
(* threads of a scan (oracle_query.cpp).                                   *)
(*                                                                         *)
(* DuckDB initialises the scans of a query and runs their threads in any   *)
(* order and at once.  A scan is initialised by one thread; one that is    *)
(* read in chunks of ROWIDs has several workers, each with a session of    *)
(* its own, that take the chunks from a counter.                           *)
(*                                                                         *)
(* A session that failed, in whatever way, may have an answer to come or   *)
(* an entry left in its statement registry (NativeCalls); here it is       *)
(* `unsound', and whose statement made it so is remembered.                *)
(***************************************************************************)
EXTENDS Naturals, FiniteSets, FiniteSetsExt, SequencesExt

CONSTANTS
    Scans,              \* the scans of a query
    Workers,            \* the threads that may run one scan
    Chunks,             \* into how many chunks a table is cut
    Kinds,              \* which of AllKinds the queries use
    Sessions,           \* identities of pooled sessions, used again when closed
    MaximumSessions,    \* oracle_session_pool_size
    MaximumQueries,     \* bound on the connection's queries
    MaximumMoments,     \* bound on the server's change number
    MaximumFailures     \* bound on connects and statements that fail

(* statement: oracle_query, opened when it is bound.  aggregate: a pushed- *)
(* down aggregate.  serial: an attached table read through one session.    *)
(* deferred: the same, with heavy columns read afterwards by ROWID.        *)
(* parallel: in chunks.                                                    *)
AllKinds == {"statement", "aggregate", "serial", "deferred", "parallel"}

ASSUME ScansAssumption ==
    /\ IsFiniteSet(Scans) /\ IsFiniteSet(Sessions)
    /\ "none" \notin Scans
    /\ Workers \cap {"scan", "text"} = {}
    /\ Chunks \in Nat \ {0}
    /\ Kinds \subseteq AllKinds
    /\ MaximumSessions \in Nat
    /\ Cardinality(Sessions) >= MaximumSessions
    /\ Sessions \cap {"none", "borrowed", "connecting", "opening", "owned"} = {}
    /\ {MaximumQueries, MaximumFailures} \subseteq Nat
    /\ MaximumMoments \in Nat \ {0}

VARIABLES
    \* OracleSessionPool
    idle, live_sessions,
    \* OracleQuerySnapshotState
    lock,           \* the scan that holds its lock, or "none"
    snapshot,       \* the query it belongs to and its change number, or 0
    \* the scans of the current query
    stage,          \* how far the scan is, see Stages
    kind,
    scn,            \* the change number its statements name, or 0
    next_chunk,
    chunk,          \* the chunk each worker is reading, 0 before and between
    lease,          \* the OracleSessionHandle of each role of each scan
    poisoned,       \* the roles whose handle is poisoned
    \* the connection
    query, running, failed,
    consistent,     \* oracle_consistent_read
    pinned,         \* the transaction has written to the catalog
    \* external: the sessions and the server
    unsound,        \* whose failed statement the session carries
    now,            \* the current change number
    \* history, for the properties
    began,          \* the change number when the query began
    moments,        \* at which change numbers each scan read
    read,           \* how often each chunk of a scan was read to its end
    failures

pool == <<idle, live_sessions>>
snapshotVars == <<lock, snapshot>>
scanVars == <<stage, kind, scn, next_chunk, chunk>>
leaseVars == <<lease, poisoned>>
queryVars == <<query, running, failed, consistent, pinned, began>>
outside == <<unsound, now, failures>>
history == <<moments, read>>
vars == <<idle, live_sessions, lock, snapshot, stage, kind, scn, next_chunk, chunk, lease,
          poisoned, query, running, failed, consistent, pinned, unsound, now, began, moments,
          read, failures>>

-----------------------------------------------------------------------------
(* Roles of a scan's handles: the scan's own, the one a dictionary query   *)
(* or the query for a change number uses, and those of the workers.        *)
Roles == {"scan", "text"} \cup Workers

(* none: an empty handle.  connecting: the pool's factory is at work.      *)
(* opening: so is the opener of a session outside the pool, then `owned'.  *)
Handles == Sessions \cup {"none", "borrowed", "connecting", "opening", "owned"}

Held == Handles \ {"none", "connecting", "opening"}

(* new: not initialised; moment: wants the statement's change number, for  *)
(* which an aggregate takes its session first; ask: asks the server for    *)
(* it, with the lock; plan: decides how to read; heap: looks whether       *)
(* deferred columns can be read by ROWID; open: executes its statement;    *)
(* run: hands over rows; done: the handles it has left will be destroyed.  *)
Stages == {"new", "moment", "ask", "plan", "heap", "open", "run", "done"}

(* The kinds a query is planned with; the others are found out.            *)
PlannedKinds == Kinds \ {"deferred", "parallel"}

InUse == ToSet(idle) \cup ({lease[x][r] : x \in Scans, r \in Roles} \cap Sessions)

Go(x, to) == stage' = [stage EXCEPT ![x] = to]

Init ==
    /\ idle = <<>>
    /\ live_sessions = 0
    /\ lock = "none"
    /\ snapshot = [query |-> 0, scn |-> 0]
    /\ stage = [x \in Scans |-> "done"]
    /\ kind = [x \in Scans |-> "statement"]
    /\ scn = [x \in Scans |-> 0]
    /\ next_chunk = [x \in Scans |-> 0]
    /\ chunk = [x \in Scans |-> [w \in Workers |-> 0]]
    /\ lease = [x \in Scans |-> [r \in Roles |-> "none"]]
    /\ poisoned = [x \in Scans |-> {}]
    /\ query = 0
    /\ running = FALSE
    /\ failed = FALSE
    /\ consistent = FALSE
    /\ pinned = FALSE
    /\ unsound = [s \in Sessions |-> "no"]
    /\ now = 1
    /\ began = 1
    /\ moments = [x \in Scans |-> {}]
    /\ read = [x \in Scans |-> [c \in 1..Chunks |-> 0]]
    /\ failures = 0

-----------------------------------------------------------------------------
(* Sessions                                                                *)

Exhausted == live_sessions = MaximumSessions

Acquire_Waits(x, r, ofCatalog) ==   \* bug: waits for a session to come back
    /\ lease[x][r] = "none"
    /\ IF ofCatalog /\ pinned
       THEN lease' = [lease EXCEPT ![x][r] = "borrowed"] /\ UNCHANGED pool
       ELSE \/ /\ idle # <<>>
               /\ lease' = [lease EXCEPT ![x][r] = Last(idle)]
               /\ idle' = Front(idle)
               /\ UNCHANGED live_sessions
            \/ /\ idle = <<>>
               /\ ~Exhausted
               /\ live_sessions' = live_sessions + 1
               /\ lease' = [lease EXCEPT ![x][r] = "connecting"]
               /\ UNCHANGED idle

(* AcquireOracleReadSession up to the mutex: the transaction's session if  *)
(* it has written to the catalog, one of the pool's, the pool's leave to   *)
(* connect, or a session outside the pool when it is exhausted or off.     *)
Acquire(x, r, ofCatalog) ==
    /\ lease[x][r] = "none"
    /\ IF ofCatalog /\ pinned
       THEN lease' = [lease EXCEPT ![x][r] = "borrowed"] /\ UNCHANGED pool
       ELSE \/ /\ idle # <<>>
               /\ lease' = [lease EXCEPT ![x][r] = Last(idle)]
               /\ idle' = Front(idle)
               /\ UNCHANGED live_sessions
            \/ /\ idle = <<>>
               /\ ~Exhausted
               /\ live_sessions' = live_sessions + 1
               /\ lease' = [lease EXCEPT ![x][r] = "connecting"]
               /\ UNCHANGED idle
            \/ /\ idle = <<>>
               /\ Exhausted
               /\ lease' = [lease EXCEPT ![x][r] = "opening"]
               /\ UNCHANGED pool

(* The connect, without the mutex.                                         *)
Connected(x, r) ==
    \/ /\ lease[x][r] = "connecting"
       /\ LET s == CHOOSE s \in Sessions : s \notin InUse IN
            /\ lease' = [lease EXCEPT ![x][r] = s]
            /\ unsound' = [unsound EXCEPT ![s] = "no"]
    \/ /\ lease[x][r] = "opening"
       /\ lease' = [lease EXCEPT ![x][r] = "owned"]
       /\ UNCHANGED unsound

ConnectFails_Counted(x, r) ==   \* bug: the pool goes on counting it
    /\ failures < MaximumFailures
    /\ failures' = failures + 1
    /\ lease[x][r] \in {"connecting", "opening"}
    /\ lease' = [lease EXCEPT ![x][r] = "none"]
    /\ UNCHANGED live_sessions

ConnectFails(x, r) ==
    /\ failures < MaximumFailures
    /\ failures' = failures + 1
    /\ lease[x][r] \in {"connecting", "opening"}
    /\ lease' = [lease EXCEPT ![x][r] = "none"]
    /\ live_sessions' = live_sessions - (IF lease[x][r] = "connecting" THEN 1 ELSE 0)

(* The handle dies: its session goes back to the pool, unless poisoned.    *)
Release(x, r, poison) ==
    /\ lease' = [lease EXCEPT ![x][r] = "none"]
    /\ IF lease[x][r] \notin Sessions
       THEN UNCHANGED pool
       ELSE IF poison
       THEN live_sessions' = live_sessions - 1 /\ UNCHANGED idle
       ELSE idle' = Append(idle, lease[x][r]) /\ UNCHANGED live_sessions

(* A statement on the session fails, whatever its cause.                   *)
StatementFails(x, r, whose) ==
    /\ failures < MaximumFailures
    /\ failures' = failures + 1
    /\ lease[x][r] \in Held
    /\ unsound' = IF lease[x][r] \in Sessions
                  THEN [unsound EXCEPT ![lease[x][r]] = whose]
                  ELSE unsound

(* What a thread needs a session for.  Only the workers, and oracle_query, *)
(* name no catalog and so never read through the transaction's session.    *)
Needs(x, r) ==
    \/ r = "text" /\ stage[x] \in {"ask", "heap"}
    \/ r = "scan" /\ stage[x] = "open"
    \/ r = "scan" /\ stage[x] = "moment" /\ kind[x] = "aggregate"
    \/ r \in Workers /\ chunk[x][r] # 0

OfCatalog(x, r) == r \notin Workers /\ kind[x] # "statement"

TakeSession(x, r) ==
    /\ Needs(x, r)
    /\ Acquire(x, r, OfCatalog(x, r))
    /\ UNCHANGED <<snapshotVars, scanVars, poisoned, queryVars, outside, history>>

OpenSession(x, r) ==
    /\ Connected(x, r)
    /\ UNCHANGED <<pool, snapshotVars, scanVars, poisoned, queryVars, now, failures, history>>

(* An acquire or a statement fails and the handle dies at once.            *)
FailsAndDrops(x, r, whose, poison) ==
    \/ ConnectFails(x, r) /\ UNCHANGED <<idle, unsound>>
    \/ StatementFails(x, r, whose) /\ Release(x, r, poison)

-----------------------------------------------------------------------------
(* Initialising a scan                                                     *)

(* oracle_query runs its statement when it is bound, before any scan is    *)
(* initialised, and asks nothing of the catalog.                           *)
Begin(x) ==
    /\ ~failed
    /\ stage[x] = "new"
    /\ kind[x] # "statement" =>
         \A y \in Scans : kind[y] = "statement" => stage[y] \notin {"new", "open"}
    /\ Go(x, IF kind[x] = "statement" THEN "open" ELSE "moment")
    /\ UNCHANGED <<pool, snapshotVars, kind, scn, next_chunk, chunk, leaseVars, queryVars,
                   outside, history>>

KnownMoment_AnyQuery == snapshot    \* bug: the last query's is not forgotten
(* What the state holds once it has been cleared for a new query.          *)
KnownMoment ==
    IF snapshot.query = query THEN snapshot ELSE [query |-> query, scn |-> 0]

AfterMoment(x) == IF kind[x] = "aggregate" THEN "open" ELSE "plan"

(* OracleQuerySnapshot.  Its lock is kept while the server is asked.       *)
AskMoment(x) ==
    /\ stage[x] = "moment"
    /\ kind[x] = "aggregate" => lease[x]["scan"] \in Held
    /\ IF ~consistent \/ pinned
       THEN Go(x, AfterMoment(x)) /\ UNCHANGED <<snapshotVars, scn>>
       ELSE /\ lock = "none"
            /\ snapshot' = KnownMoment
            /\ IF KnownMoment.scn # 0
               THEN /\ scn' = [scn EXCEPT ![x] = KnownMoment.scn]
                    /\ Go(x, AfterMoment(x))
                    /\ UNCHANGED lock
               ELSE lock' = x /\ Go(x, "ask") /\ UNCHANGED scn
    /\ UNCHANGED <<pool, kind, next_chunk, chunk, leaseVars, queryVars, outside, history>>

MomentAnswered(x) ==
    /\ stage[x] = "ask"
    /\ lease[x]["text"] \in Held
    /\ scn' = [scn EXCEPT ![x] = now]
    /\ snapshot' = [snapshot EXCEPT !.scn = now]
    /\ lock' = "none"
    /\ Release(x, "text", FALSE)
    /\ Go(x, AfterMoment(x))
    /\ UNCHANGED <<kind, next_chunk, chunk, poisoned, queryVars, outside, history>>

(* Nobody poisons the session the question went to.                        *)
AskFails(x) ==
    /\ stage[x] = "ask"
    /\ FailsAndDrops(x, "text", "text", FALSE)
    /\ poisoned' = [poisoned EXCEPT ![x] = @ \cup {"scan"}]
    /\ lock' = "none"
    /\ failed' = TRUE
    /\ Go(x, "done")
    /\ UNCHANGED <<snapshot, kind, scn, next_chunk, chunk, query, running, consistent, pinned,
                   began, now, history>>

(* PlanParallelAttachedScan works on a session of its own, which it never  *)
(* shares, and finds a reason not to cut the table when anything fails.    *)
Plan(x) ==
    /\ stage[x] = "plan"
    /\ \/ Go(x, "open") /\ UNCHANGED <<kind, scn>>
       \/ /\ "deferred" \in Kinds
          /\ ~pinned
          /\ Go(x, "heap")
          /\ UNCHANGED <<kind, scn>>
       \/ /\ "parallel" \in Kinds
          /\ ~pinned
          /\ kind' = [kind EXCEPT ![x] = "parallel"]
          /\ scn' = [scn EXCEPT ![x] = IF @ = 0 THEN now ELSE @]
          /\ Go(x, "open")
    /\ UNCHANGED <<pool, snapshotVars, next_chunk, chunk, leaseVars, queryVars, outside, history>>

(* OracleSnapshotOfHeapTable: it is a heap table, it is not, ...           *)
HeapAnswered(x) ==
    /\ stage[x] = "heap"
    /\ lease[x]["text"] \in Held
    /\ Release(x, "text", FALSE)
    /\ Go(x, "open")
    /\ \/ UNCHANGED <<kind, scn>>
       \/ /\ kind' = [kind EXCEPT ![x] = "deferred"]
          /\ scn' = [scn EXCEPT ![x] = IF @ = 0 THEN now ELSE @]
    /\ UNCHANGED <<snapshotVars, next_chunk, chunk, poisoned, queryVars, outside, history>>

(* ... or the dictionary will not say, which is no reason to fail.         *)
HeapFails(x) ==
    /\ stage[x] = "heap"
    /\ FailsAndDrops(x, "text", "text", FALSE)
    /\ Go(x, "open")
    /\ UNCHANGED <<snapshotVars, kind, scn, next_chunk, chunk, poisoned, queryVars, now, history>>

(* The rows of a scan of the catalog are those of the change number its    *)
(* statement names, or of now.  The transaction's own session also sees    *)
(* what nobody else does, which is at no moment.                           *)
ReadsAt(x, r) ==
    moments' = IF kind[x] = "statement" \/ (scn[x] = 0 /\ lease[x][r] = "borrowed")
               THEN moments
               ELSE [moments EXCEPT ![x] = @ \cup {IF scn[x] = 0 THEN now ELSE scn[x]}]

(* The statement is executed.  That of a scan in chunks only describes     *)
(* them, and its session goes back when the initialisation returns.        *)
Opened(x) ==
    /\ stage[x] = "open"
    /\ lease[x]["scan"] \in Held
    /\ Go(x, "run")
    /\ IF kind[x] = "parallel"
       THEN Release(x, "scan", FALSE) /\ UNCHANGED moments
       ELSE ReadsAt(x, "scan") /\ UNCHANGED <<pool, lease>>
    /\ UNCHANGED <<snapshotVars, kind, scn, next_chunk, chunk, poisoned, queryVars, outside, read>>

(* A scan without its heavy columns is opened again with them.             *)
OpenFails(x) ==
    /\ \/ stage[x] = "open"
       \/ stage[x] = "moment" /\ lease[x]["scan"] \notin Held
    /\ FailsAndDrops(x, "scan", "scan", TRUE)
    /\ IF kind[x] = "deferred"
       THEN /\ kind' = [kind EXCEPT ![x] = "serial"]
            /\ scn' = [scn EXCEPT ![x] = KnownMoment.scn]
            /\ UNCHANGED <<stage, failed>>
       ELSE /\ Go(x, "done")
            /\ failed' = TRUE
            /\ UNCHANGED <<kind, scn>>
    /\ UNCHANGED <<snapshotVars, next_chunk, chunk, poisoned, query, running, consistent, pinned,
                   began, now, history>>

-----------------------------------------------------------------------------
(* Running a scan                                                          *)

(* To the last row; with deferred columns, those read in between by ROWID. *)
Fetched(x) ==
    /\ stage[x] = "run"
    /\ kind[x] # "parallel"
    /\ Go(x, "done")
    /\ IF kind[x] = "deferred" THEN ReadsAt(x, "scan") ELSE UNCHANGED moments
    /\ UNCHANGED <<pool, snapshotVars, kind, scn, next_chunk, chunk, leaseVars, queryVars,
                   outside, read>>

FetchFails(x) ==
    /\ stage[x] = "run"
    /\ StatementFails(x, "scan", "scan")
    /\ poisoned' = [poisoned EXCEPT ![x] = @ \cup {"scan"}]
    /\ failed' = TRUE
    /\ Go(x, "done")
    /\ UNCHANGED <<pool, snapshotVars, kind, scn, next_chunk, chunk, lease, query, running,
                   consistent, pinned, began, now, history>>

TakeChunk(x, w) ==
    /\ stage[x] = "run" /\ kind[x] = "parallel"
    /\ ~failed
    /\ chunk[x][w] = 0
    /\ next_chunk[x] < Chunks
    /\ chunk' = [chunk EXCEPT ![x][w] = next_chunk[x] + 1]
    /\ next_chunk' = [next_chunk EXCEPT ![x] = @ + 1]
    /\ UNCHANGED <<pool, snapshotVars, stage, kind, scn, leaseVars, queryVars, outside, history>>

ReadChunk(x, w) ==
    /\ chunk[x][w] # 0
    /\ lease[x][w] \in Held
    /\ read' = [read EXCEPT ![x][chunk[x][w]] = @ + 1]
    /\ chunk' = [chunk EXCEPT ![x][w] = 0]
    /\ ReadsAt(x, w)
    /\ UNCHANGED <<pool, snapshotVars, stage, kind, scn, next_chunk, leaseVars, queryVars, outside>>

ChunkFails_Skipped(x, w) ==     \* bug: the worker goes on with another chunk
    /\ chunk[x][w] # 0
    /\ \/ ConnectFails(x, w) /\ UNCHANGED unsound
       \/ StatementFails(x, w, "scan") /\ UNCHANGED <<live_sessions, lease>>
    /\ poisoned' = [poisoned EXCEPT ![x] = @ \cup {w}]
    /\ chunk' = [chunk EXCEPT ![x][w] = 0]
    /\ UNCHANGED <<idle, snapshotVars, stage, kind, scn, next_chunk, queryVars, now, history>>

ChunkFails(x, w) ==
    /\ chunk[x][w] # 0
    /\ \/ ConnectFails(x, w) /\ UNCHANGED unsound
       \/ StatementFails(x, w, "scan") /\ UNCHANGED <<live_sessions, lease>>
    /\ poisoned' = [poisoned EXCEPT ![x] = @ \cup {w}]
    /\ chunk' = [chunk EXCEPT ![x][w] = 0]
    /\ failed' = TRUE
    /\ UNCHANGED <<idle, snapshotVars, stage, kind, scn, next_chunk, query, running, consistent,
                   pinned, began, now, history>>

AllChunksTaken(x) ==
    /\ stage[x] = "run" /\ kind[x] = "parallel"
    /\ next_chunk[x] = Chunks
    /\ \A w \in Workers : chunk[x][w] = 0
    /\ Go(x, "done")
    /\ UNCHANGED <<pool, snapshotVars, kind, scn, next_chunk, chunk, leaseVars, queryVars,
                   outside, history>>

(* The query fails for a reason that is not Oracle's: a value that cannot  *)
(* be converted, an operator above the scan, an interrupt.                 *)
QueryFails ==
    /\ failures < MaximumFailures
    /\ failures' = failures + 1
    /\ running /\ ~failed
    /\ failed' = TRUE
    /\ UNCHANGED <<pool, snapshotVars, scanVars, leaseVars, query, running, consistent, pinned,
                   began, unsound, now, history>>

(* The threads of a query that failed stop between two calls.              *)
Abandon(x) ==
    /\ failed
    /\ stage[x] \in {"new", "run"}
    /\ \A r \in Roles : lease[x][r] \notin {"connecting", "opening"}
    /\ Go(x, "done")
    /\ chunk' = [chunk EXCEPT ![x] = [w \in Workers |-> 0]]
    /\ UNCHANGED <<pool, snapshotVars, kind, scn, next_chunk, leaseVars, queryVars, outside, history>>

(* The states of the scan are destroyed, and with them their handles.      *)
Destroy(x, r) ==
    /\ stage[x] = "done"
    /\ lease[x][r] # "none"
    /\ Release(x, r, r \in poisoned[x])
    /\ UNCHANGED <<snapshotVars, scanVars, poisoned, queryVars, outside, history>>

-----------------------------------------------------------------------------
(* The connection                                                          *)

(* What ran since the last query may have written, committed, and changed  *)
(* the setting.  The new query's scans have states of their own.           *)
QueryBegins ==
    /\ ~running
    /\ query < MaximumQueries
    /\ query' = query + 1
    /\ running' = TRUE
    /\ consistent' \in BOOLEAN
    /\ pinned' \in BOOLEAN
    /\ began' = now
    /\ kind' \in [Scans -> PlannedKinds]
    /\ stage' = [x \in Scans |-> "new"]
    /\ UNCHANGED <<pool, snapshotVars, scn, next_chunk, chunk, leaseVars, failed, outside, history>>

QueryEnds ==
    /\ running
    /\ \A x \in Scans : stage[x] = "done" /\ \A r \in Roles : lease[x][r] = "none"
    /\ running' = FALSE
    /\ scn' = [x \in Scans |-> 0]
    /\ next_chunk' = [x \in Scans |-> 0]
    /\ poisoned' = [x \in Scans |-> {}]
    /\ moments' = [x \in Scans |-> {}]
    /\ read' = [x \in Scans |-> [c \in 1..Chunks |-> 0]]
    /\ kind' = [x \in Scans |-> "statement"]
    /\ failed' = FALSE
    /\ UNCHANGED <<pool, snapshotVars, stage, chunk, lease, query, consistent, pinned,
                   began, outside>>

(* Another pipeline of the same statement writes to the catalog.           *)
WriterPins ==
    /\ running /\ ~failed /\ ~pinned
    /\ pinned' = TRUE
    /\ UNCHANGED <<pool, snapshotVars, scanVars, leaseVars, query, running, failed, consistent,
                   began, outside, history>>

TimePasses ==
    /\ now < MaximumMoments
    /\ now' = now + 1
    /\ UNCHANGED <<pool, snapshotVars, scanVars, leaseVars, queryVars, unsound, failures, history>>

ScanSteps(x) ==
    \/ Begin(x) \/ AskMoment(x) \/ MomentAnswered(x) \/ AskFails(x)
    \/ Plan(x) \/ HeapAnswered(x) \/ HeapFails(x) \/ Opened(x) \/ OpenFails(x)
    \/ Fetched(x) \/ FetchFails(x) \/ AllChunksTaken(x) \/ Abandon(x)
    \/ \E w \in Workers : TakeChunk(x, w) \/ ReadChunk(x, w) \/ ChunkFails(x, w)
    \/ \E r \in Roles : TakeSession(x, r) \/ OpenSession(x, r) \/ Destroy(x, r)

QuerySteps == QueryEnds \/ \E x \in Scans : ScanSteps(x)

Next == QuerySteps \/ QueryBegins \/ QueryFails \/ WriterPins \/ TimePasses

Spec == Init /\ [][Next]_vars

-----------------------------------------------------------------------------
(* Properties                                                              *)

(* Every variable has its type, and the pool never counts more sessions    *)
(* than oracle_session_pool_size (OracleSessionPool::Acquire).             *)
TypeOK ==
    /\ idle \in Seq(Sessions)
    /\ live_sessions \in 0..MaximumSessions
    /\ lock \in Scans \cup {"none"}
    /\ snapshot \in [query : 0..MaximumQueries, scn : 0..MaximumMoments]
    /\ stage \in [Scans -> Stages]
    /\ kind \in [Scans -> AllKinds]
    /\ scn \in [Scans -> 0..MaximumMoments]
    /\ next_chunk \in [Scans -> 0..Chunks]
    /\ chunk \in [Scans -> [Workers -> 0..Chunks]]
    /\ lease \in [Scans -> [Roles -> Handles]]
    /\ poisoned \in [Scans -> SUBSET Roles]
    /\ query \in 0..MaximumQueries
    /\ {running, failed, consistent, pinned} \subseteq BOOLEAN
    /\ unsound \in [Sessions -> {"no", "scan", "text"}]
    /\ {now, began} \subseteq 1..MaximumMoments
    /\ moments \in [Scans -> SUBSET (1..MaximumMoments)]
    /\ read \in [Scans -> [1..Chunks -> Nat]]
    /\ failures \in 0..MaximumFailures

HandlesWith(values) == {h \in Scans \X Roles : lease[h[1]][h[2]] \in values}

(* The pool's count is that of the sessions it has, lent and connects,     *)
(* whatever fails in between, and no session is in two hands: a count that *)
(* drifts either way lifts the bound or closes the pool for good.  And one *)
(* on which a scan's statement or fetch failed is never idle, whichever    *)
(* thread it failed on.  The types are checked with it.                    *)
LiveIsAccounted ==
    /\ TypeOK
    /\ live_sessions = Len(idle) + Cardinality(HandlesWith(Sessions \cup {"connecting"}))
    /\ Cardinality(InUse) = Len(idle) + Cardinality(HandlesWith(Sessions))
    /\ \A s \in ToSet(idle) : unsound[s] # "scan"

(* What oracle_pool.cpp:90 says of every session: one whose statement      *)
(* failed never goes back into the pool.                                   *)
FailedNeverReturns == \A s \in ToSet(idle) : unsound[s] = "no"

(* No two workers read the same chunk of a table, and a query that does    *)
(* not fail has read every one: no row twice, none left out.               *)
EachChunkOnce ==
    \A x \in Scans, c \in 1..Chunks :
        /\ read[x][c] <= 1
        /\ kind[x] = "parallel" /\ stage[x] = "done" /\ ~failed => read[x][c] = 1

(* All statements of one scan read one moment.  With                       *)
(* oracle_consistent_read so do all scans of the query, and not one before *)
(* the query began, until the transaction has a session of its own.        *)
OneMoment ==
    /\ \A x \in Scans : Cardinality(moments[x]) <= 1
    /\ consistent /\ ~pinned =>
         /\ Cardinality(UNION {moments[x] : x \in Scans}) <= 1
         /\ \A x \in Scans : \A m \in moments[x] : m >= began

(* The scans of a running query never all wait for each other, however     *)
(* many sessions they hold while one of them asks for the moment with the  *)
(* lock, and however small the pool.  Each of QuerySteps brings the query  *)
(* nearer to its end, so that it is reached.                               *)
NobodyIsStuck == running => ENABLED QuerySteps
=============================================================================
