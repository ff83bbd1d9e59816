# A TLA+ verification of quack-oracle

quack-oracle is a DuckDB extension that talks to Oracle databases over a native
implementation of Oracle's TNS/TTC protocol (no client library). The
repository's own code is in `src/src` (about 25 000 lines of C++ and 4 000 of
headers); this directory specifies it in TLA+, checks the specifications with
TLC and proves the most important facts with TLAPS.

Paths below are relative to the repository's root as checked out in `src/`, so
`src/oracle_write.cpp` here is `src/src/oracle_write.cpp` in `PROJECT.json`.

1. [Inventory](#1-inventory) - what the system consists of and where it is hard
2. [Plan](#2-plan) - the modules, in order, and what is still to do
3. [Modules](#3-modules) - how each one corresponds to the code
4. [Runs](#4-runs) - what TLC checks, with which bounds
5. [Proofs](#5-proofs) - what TLAPS proves, and along which argument
6. [Assumptions and omissions](#6-assumptions-and-omissions)

## 1. Inventory

### How the parts fit together

A DuckDB connection runs queries over *attached* Oracle catalogs and over table
functions (`oracle_query`). Scans, which DuckDB may run on several threads, read
through sessions of the **read session pool** (or their own, when the pool is
exhausted), except when the DuckDB transaction has already written to the
catalog: then they borrow the session the **remote transaction state** has
pinned. The first write of a transaction pins a session leased from the
**transaction session pool**; COMMIT and ROLLBACK end it and return or close
it. Every session is a **native session**: one TNS connection, one call at a
time, a registry of calls and one of open statements, and a cancellation state
machine. All waiting is bounded by **deadlines**, which an interrupt of the query
shortens. Below that are codecs (packets, messages, rows, values) and the
connect phase (addresses, redirects, negotiation, authentication, TLS).

### Components

| Component | State | Operations | What is hard | What makes it correct |
| --- | --- | --- | --- | --- |
| Transaction session pool (`transaction_session_pool.cpp`) | idle list, closed flag, counters, one mutex | Acquire, Release, Discard, Close | probing, opening and closing run outside the mutex; Close races Release; idle sessions die | a session is leased to one transaction; only clean sessions wait; no session leaks; counters balance |
| Remote transaction state (`oracle_write.cpp`, transaction manager in `oracle_catalog.cpp`) | per connection: pinned sessions, failed catalogs, outcomes | Pin, Taint, Discard (poison), Commit, RollbackAll | a statement fails after the server ran it; scans poison while a writer runs; lost COMMIT acknowledgement; detach | no partial transaction is committed; outcomes reported are true; sessions with a past are not reused |
| Read session pool (`session_pool.cpp`, `oracle_pool.cpp`) | idle sessions, count of live ones | Acquire, return by lease destructor, poison | counting around a connect that may throw; closed while leased | bound on sessions; poisoned ones never come back |
| Native session (`native_session.cpp`, `ttc_*_channel.cpp`, `ttc_cursor.cpp`) | call lock, open/usable flags, cancellation state, registries, piggybacked closes | calls, fetches, Commit, Rollback, Cancel, Close | a cancel races the end of a call; interrupt/reset exchange; failed exchange with unread bytes | an answer is read by the call that asked; a broken connection is never used again |
| Deadlines and interrupts (`io_deadline*.hpp`, `oracle_query.cpp`) | shared deadline of a connection, watcher threads | bind, shorten, restore | overlapping scopes restore each other's values | an interrupt reaches every session the query waits on |
| Queries and scans (`oracle_query.cpp`) | bind data, global and local scan state | bind, init, next chunk, end | errors on several threads, retried metadata, prepared reuse | every row once; errors poison |
| Parallel scans and snapshots (`oracle_parallel.cpp`, `oracle_snapshot.cpp`) | shard counter, SCN per query | take a shard, fetch an SCN | shards on separate sessions must see one SCN | partition of the table, consistent reads |
| Catalog and metadata (`oracle_catalog.cpp`) | cached entries, metadata sessions | lookup, refresh, lease of a metadata session | stale entries, lease after failure | entries describe the table they name |
| Pushdown (`oracle_filter.cpp`, `oracle_optimizer.cpp`) | - | decide what runs remotely | NULL and empty-string semantics, collation | pushing a filter never changes the result |
| Connecting (`connect_plan.cpp`, `tns_client.cpp`, `tns_connect.cpp`, `tns_handshake.cpp`) | position in the plan, redirect count | try address, follow redirect, resend | several addresses, one deadline | ends within its bounds, never on a half-open connection |
| Messages (`ttc_*.cpp`, `tns_packet.cpp`, `byte_buffer.cpp`) | row state across fetches | encode, decode | rows that repeat columns of the last one, across fetches | decoded rows are the server's |
| LOBs (`ttc_lob.cpp`, `temp_lob.cpp`, `lob_prefetch_*`) | prefetched part, position, temporary LOBs | read, free | continuation after the prefetch, freeing on failure | whole value, no leaked temporaries |
| Name resolution (`connect_plan.cpp`) | queue of lookups, up to 16 detached threads | Resolve with a deadline, Withdraw | a lookup cannot be interrupted; notifications, timeouts and new threads race | no lookup waits where nobody comes for it |
| Connect descriptors (`descriptor_parser.cpp`, `connect_descriptor.cpp`, `oracle_connection.cpp`) | - | parse, merge, plan | lists in lists, each with its own switches; Easy Connect, aliases, secrets | the plan tries what is written, in an order it allows, or the secret is refused |
| Prepared call registry and the functions that call (`call_registry.cpp`, `oracle_query.cpp`) | cursors waiting to be read, by call id | Register, Take, Close, CloseAll | bound at one time, executed at another; cursors outlive their statement | a cursor is in one hand; an answer's work is committed or undone |
| SQL text, binds and callables (`sql_binds.cpp`, `bind_validation.cpp`, `call_builder.cpp`, `oracle_callable.cpp`) | - | order, validate, resolve, build | names in any case and order, NULLs, overloads, synonyms | a value goes where its name says; the callable is the one meant |
| Local snapshots (`oracle_snapshot.cpp`) | a table, its comment | make, refresh, list | three statements, each committed by itself | marked rows are of the marked moment |
| Values and types (`oracle_types.cpp`, `value_codec.cpp`, `oson.cpp`, `oracle_vector.cpp`) | - | type of a column, conversion of a value | edges of precision, scale, range, dimension | read as stored, or refused |
| Authentication and wallets (`ttc_o5logon.cpp`, `auth_crypto.cpp`, `*_wallet.cpp`, `openssl_stream.cpp`) | - | logon, read a wallet | which failures may be retried | the password is proved once |
| `OracleTransaction` (`transaction.cpp`) | - | used by the tests only | - | - |

`PROJECT.json` lists every component with its state of modelling, and under
`hazards` every place in the code that is hard to test, with its line and the
properties that cover it.


## 2. Plan

The order is that of what users lose when it is wrong: the writes of a
transaction first, then the connection everything goes through, then reads, then
the connect phase and the decisions that are made of data alone.

| # | Module | Models | Composes with | State |
| --- | --- | --- | --- | --- |
| 1 | `TxnSessionPool` | transaction session pool | implements `SessionLeasing` (the promise of the pool to its callers) | checked, proved |
| 2 | `WriteState` | remote transaction state, transaction manager | the sessions and pools around it in brief | checked, proved |
| 3 | `CallerInterrupt` | interrupt scopes over a connection's deadline | - | checked, proved |
| 4 | `NativeCalls` | native session, channel, registry, cancellation, the server's side of the exchange | - | checked, proved |
| 5 | `ReadScans` | read session pool, handles, snapshot state, scans and their workers | - | checked, proved |
| 6 | `Connect`, `Descriptors` | a connect from the secret to the authenticated session | what the secret's descriptor says, `Descriptors` | checked, proved but for `PlansWhatIsWritten` |
| 7 | `Resolver` | the threads that look names up | `Connect` uses their answers | checked, proved |
| 8 | `Responses` | decoding of fragments, rows completed from rows before | a server that sends rows as it likes | checked |
| 9 | `TableRanges` | ranges of keys in words, ranges of ROWIDs | the definition of a partition | checked, the shards proved |
| 10 | `Pushdown` | filters, TopNs, aggregates and joins sent to Oracle | the same query evaluated by DuckDB | checked |
| 11 | `Calls` | functions that execute and call, the registry of cursors | - | checked, proved |
| 12 | `Lobs` | reading and binding of large values | the bound or stored content | checked |
| 13 | `Callables` | binds, blocks and the dictionary's signatures | the call that was meant | checked |
| 14 | `Snapshots` | local copies | `ReadScans` has the moment of a query, this the pinned one | checked, proved |
| 15 | `Metadata`, `Values` | what an attached table is described as, and what is read from it | Oracle's dictionary, as it was at some moment | checked, `Metadata` proved |

What is left, in this order: binds and plans of the writing operators
(`oracle_write.cpp` from line 400), the encoding of values; the SCHEMA option of
ATTACH (`ResolveOwner`) and the statistics that steer plans; the byte layouts of
messages and of Oracle's numbers, dates, OSON and vectors, of which TLC could
check only what the unit tests check already. No proof is left that the installed
provers could check (section 5).

## 3. Modules

### SessionLeasing and TxnSessionPool

`SessionLeasing` is what `transaction_session_pool.hpp` promises: a session is
fresh, leased to one transaction, idle or dropped; only one without uncommitted
work comes back. `TxnSessionPool` is the pool. Its locked sections are single
actions (`AcquireLooks`, `ReleaseKeeps`, `ReleaseCloses`, `Discard`,
`PoolCloses`); what the code does outside the mutex is actions of its own:
closing (`CloseQuietly`, one session at a time out of `doomed`), binding and
probing a candidate (`BindCandidate`, `Probe`), opening (`OpenSession`), and the
checks `Release` makes before it locks (`ReleaseChecks`). `mine` is the local
variable that holds the session and `pc` the place in the call. `aged` is how
many entries at the front of the list have passed `maximum_idle_time`, which is
all the code asks of its clock. `burden` collects why a session may not be
reused: uncommitted work, an open statement, a failed exchange, a scan that still
borrows it. Around the pool, the writer's transaction (`Statement`, ending with
or without an acknowledgement), scans and the server that kills idle sessions.

The theorems, with the one that the pool implements `SessionLeasing`, are in
`TxnSessionPool_proofs`.

### WriteState

One DuckDB connection: `pinned`, `tainted`, `failed` and `status` are the members
of `OracleWriteState`; `phase`, `stage` and `hand` follow DuckDB as it commits or
rolls back the catalogs one by one, with the session taken out of the map before
the exchange with the server (`CommitTakes`) and the three ways that exchange can
end. A writing operator is three steps (pin, taint if it calls a procedure,
execute) and the scans of the same query run between them on other threads; a
failure and the poisoning that follows it are separate steps. The server's side is
`work` (uncommitted statements on the session), `owner` and `late`: a COMMIT whose
acknowledgement was lost may still be carried out. `durable`, `acked`, `spoiled`
and `told` are history, and the properties compare them.

### CallerInterrupt

The deadline that all sessions of a connection share, and the
`OracleCallerInterruptScope`s of its threads: a scope copies the deadline it
found, its watcher moves the deadline into the past when the query is
interrupted, `Stop` joins the watcher and keeps the deadline, and the destructor
puts the copy back. Scopes overlap in any way threads can overlap them.
`disturbed` is history. The theorems are in `CallerInterrupt_proofs`.

### NativeCalls

One session used by several callers, its cursors, channel and statement registry,
and the Oracle server behind a FIFO connection. An operation is: begin
(`RequireOpen`, a registry entry), take the call lock and send, receive, note the
outcome, release. What the code does between two of these points without looking
at shared state is one step. `NativeFetchCancellation` is `pending` and
`unusable`; `cancellation_requested` is the channel's. The server (external)
takes a request, answers, or is interrupted, and then waits for the client's
reset. `Cancel` may come at any time from another thread, `Close` whenever the
session's owner gives up on it. `CallersPoison` says whether callers behave like
the pipelines of `oracle_query.cpp`, which close the session some time after a
failure, or keep using it. The theorems are in `NativeCalls_proofs`.

### ReadScans

`idle` and `live_sessions` are `OracleSessionPool`'s. A scan has handles in
*roles*: its own, the one of a dictionary query or question for a change number
(`text`), and one for each worker of a scan in chunks; a handle holds a pooled
session, the transaction's (`borrowed`) or one outside the pool (`owned`).
Acquiring has two steps, because the connect runs without the mutex. The stages
of a scan follow `OracleQueryInit` and `OracleAggregateInit`: the statement's
change number is asked for under the lock of `OracleQuerySnapshotState`
(`AskMoment`, `MomentAnswered`, `AskFails`), then the table is planned in chunks,
with deferred columns or serially, opened, and read. Everything may fail, and
handles are destroyed, poisoned or not, when DuckDB destroys the states of the
scan. `unsound` says whose failed statement a session carries. `oracle_scan_parallel`
(`oracle_parallel.cpp`) takes its shards from a counter in the same way. The theorems
are in `ReadScans_proofs`.

### Descriptors and Connect

`Descriptors` says what a secret means. A descriptor is the tree of its nodes,
never text; `Readable` is what `descriptor_parser.cpp` accepts of a tree, the
`*Refused` definitions are its and `oracle_connection.cpp`'s refusals,
`ParseConnectDescriptor` the flattening into address lists, `FindTnsAlias` the
lookup in a tnsnames.ora and `EasyConnectToDescriptor` the translation of an Easy
Connect string. `ConnectOrders` is the set of orders `PlanConnectOrder` may choose,
shuffles included. `IsText` is what the reader of descriptors makes of any text: a node
whose parts are again such nodes or a word, with the number that the word reads as;
`IsSecret` is a secret of such texts and of fields that are written or not. They are
`InputsAssumption`, with the resolver's answers being lists of addresses, and TLC checks it of
the secrets and offers of the run. `Selected` keeps the elements of a list that stand at
some places, as the code's loops over a node's children do. `Connect` runs the five loops of `tns_client.cpp` inside each
other: passes (`pass`), planned addresses (`at`), their resolved addresses
(`chain`), and the stack of redirects of `FollowChain` (`stack`), each level with
its own targets. `phase` is what the loop does or waits for. The network is free:
it refuses, resends, redirects, falls silent, answers nonsense or is interrupted
by the deadline at any read or write (`EstablishmentStream`); then come the OOB probe, the
negotiation, the challenge and the proof of the password, and the attributes that
`NativeOracleSession::Connect` sends. `owed` is history: the attempts that a
connect which gives up would owe its user.

### Resolver

`ResolverPool`: a step is what a thread does while it holds the pool's lock. `idle`
of the code counts a worker from before it waits until after it woke, hence the two
states `idle` and `woken`; a detached thread that cannot be started, a caller whose
deadline passes and an empty or full queue are actions or guards of their own. The
theorem is in `Connecting_proofs`, with those of `Connect`.

### Responses

The wire is a sequence of fields, the server writes what its protocol allows: whole
rows, rows with a header, rows of which only the changed columns are sent, bitmaps,
reports in between, several ways to end. `Receive` gives the client any further
part of it, and `Decode` (`DecodeExecute`, `DecodeCall` for calls) starts over from
the last kept row as the decoders do. A `Fetch` may change the form in which LOBs
come (`defined`), and hands the last row on to the next response (`preceding`).
The prefetching cursor's limits are `MaximumRowBytes` and `MaximumBatchBytes`.

### TableRanges, Snapshots

`TableRanges` has the arithmetic of `oracle_scan_parallel` in words of any width
(`Half` is 2^63 in the code, 8 in the run) as operators on naturals modulo the
word, and the cuts of `PlanParallelAttachedScan` between extents. `Snapshots` has `oracle_snapshot` and its refresh, one step
per statement they run, each of which commits by itself and may fail, on a
connection of their own; the pinned change number is looked up as
`OracleQuerySnapshot` does, by the spelling of the catalog's name. The theorems about
both are in `TableReads_proofs`.

### Pushdown

The value of a filter in the three truth values of SQL, as DuckDB sees it
(`TranslateExpression` and the converted value of a column) and as Oracle does (the
SQL that was sent, over the stored value); `Split` is `SplitOracleFilters`, which
sends a filter, keeps it, sends a weaker one and keeps it (JSON paths), or drops an
optional one. The recursive halving of a join's keys (`PrefixRange`) is modelled
down to its limits of questions and intervals. TopNs, aggregates and joins are
plans; `TopNPushed`, `AggregatePushed` and `JoinPushed` are the conditions the
optimizer asks for, and the properties evaluate both sides over a table.

### Calls

A table function is its `steps` in the order of its code, bound once and executed
later: sessions opened and closed, statements run, pinned or not, outputs matched,
work committed, cursors registered. `CallRegistry` is `calls` and
`open_cursor_count`, and `SessionOwningCursor` keeps a session as long as its cursor
is open (`Settled`). Transactions begin, end and fail between the steps. The theorems are
in `Calls_proofs`.

### Lobs and Callables

`Lobs` reads a value from its locator, from a cell or from what was prefetched of
it, in units of UTF-16 or bytes, against a server that may fall short or lie; and binds
large values through temporary LOBs in pieces that may not split a character,
with a call that fails anywhere. `Callables` is the way of a value: its wire type
(`PositionalBinds`, `NamedBinds`, `EncodeOracleCallableArgument`), its name in a
block, its place among the server's placeholders, and back; and the way of a name:
the readings of `[owner.][package.]object`, synonyms, overloads
(`ResolveOracleCallables`, `SelectOracleCallableOverload`).

### Metadata and Values

`Metadata` is one attached catalog under its `metadata_lock`: the bulk load of all
columns with its bound and its fallback to one object at a time, the pass for
VECTOR shapes, primary keys, the list of objects, and `Create`, while the Oracle schema
changes between any two queries. `past` and `at_load` are history: the answers are
compared with what the schema held. `SchemasAssumption` says what Oracle guarantees of
its dictionary: finitely many objects, each with a sequence of at least one column.
`Over` lays what was read over what the cache held, two sets of names that never
overlap. `Values` gives a column its type by what the dictionary says of it and by
what a statement describes (`OverlayDictionaryColumn` lays one over the other), and
converts or refuses one value. Digits are scaled down (18 to 2, 38 to 3).

### The instances

`MCTxnSessionPool`, `MCWriteState`, `MCCallerInterrupt`, `MCNativeCalls`,
`MCReadScans`, `MCConnect` and `MCSnapshots` instantiate one module. `MCWriteState`
has two instances in one: `wide` is one transaction over two catalogs, otherwise
transactions follow each other on one. `MCComponents` holds eleven components that
share no state: `subject` says which of them a behaviour works, `input` what one of
pure definitions is given; a state of one is never combined with a state of another.

## 4. Runs

All runs take under three minutes on two cores. Deadlock is not checked where the
system may stop for good: a connection that begins no further transaction or
query, a pure computation, or a bound that is used up. The type invariants are the first conjuncts of
`CountersBalance`, `CursorsAreAccounted`, `LiveIsAccounted`, `RedirectsStayInside`
and `WritesAreOnThePinnedSession`.

| Run | Instance | Shows |
| --- | --- | --- |
| `pool_safety` | 2 transactions, 3 sessions, `maximum_idle` 1, a session reused once more; symmetry (316 thousand states) | the five invariants of the pool with its counters, and that it implements `SessionLeasing` |
| `pool_live` | 2 transactions, 2 sessions, `maximum_idle` 2 (248 thousand) | calls return, a closed pool drains |
| `write` | 2 transactions of 2 statements on 1 catalog with 2 sessions, or 1 over 2 catalogs (491 thousand) | all of `WriteState`'s properties; the second transaction may find what the first one left; the truth about a commit of which a part fails |
| `interrupt_lost` | 2 threads | a violation, see below |
| `native_calls` | 2 callers, 3 requests of any operation, 2 open statements, 1 cancellation, 1 failure | clean reuse, own answers, no cursor leaked or closed under a reader, the exchange of markers ends |
| `native_shared` | 2 callers, 4 queries, 1 failure | a violation, see below |
| `read_scans` | 2 queries of 2 scans, 2 workers, 2 chunks, a pool of 1 session, 2 moments, 1 failure; symmetry | the pool's count, no session of a failed scan in the pool, chunks once, one moment, nobody stuck |
| `read_text` | 1 scan | a violation, see below |
| `connect` | 17 secrets of every form, 5 offers of redirects, 2 redirects and 4 opened transports, names with none, one or three addresses of which two are kept (462 thousand) | the plan is what is written; everything is tried, inside its bounds, the password once; a connect ends |
| `components` | eleven components, see below (928 thousand states) | one property each, two for the interrupts, two for the functions that call |
| `snapshot_spelling` | 1 caller, 2 tables, 2 spellings of the catalog's name, 2 changes | a violation, see below |
| `short_floats` | the columns and values of `components` | a violation, see below |

`components`, by subject:

| Subject | Property | Instance |
| --- | --- | --- |
| `pushdown` | `PushdownIsSound` | 8 kinds of column with up to 13 stored values, comparisons, lists up to 5 (2 to a list, 4 in all), AND, OR, optional filters and keys from -8 to 15, at most 4 intervals and 20 questions; plans of two columns, one or no projection and local filter |
| `lobs` | `LobsAreWhole` | texts of up to 5 characters of 1, 3 or 4 bytes, read by 3 units, in each form; up to 3 rows of binds, pieces of 4 bytes, each call refused once |
| `callables` | `CallsAreTheOnesMeant` | up to 3 binds with two spellings of a name, blocks naming up to 3, 2 overloads, 7 places in the dictionary, synonyms of synonyms |
| `ranges` | `TableIsReadOnce` | keys from -17 to 15 in words of 4 bits, 1 to 4 shards; up to 6 extents of 1, 2 or 5 blocks |
| `values` | `ValuesAreAsStored` | every number of precision 1 to 4 and scale -1 to 3, FLOATs, moments, texts, intervals and vectors with the settings for numbers |
| `resolver` | `NoLookupIsLost` | 4 lookups, 2 workers, a queue of 2 |
| `responses` | `RowsAreOnce` | 3 tables of 2 columns and up to 3 rows, 2 rows a fetch |
| `calls` | `CursorsAreInOneHand`, `AnswersAreSettled` | 3 statements of the functions that open cursors, work in a transaction, or are prepared around the end of one; 2 cursors at most, call ids of 1 to 4, 2 transactions |
| `snapshots` | `MarkedRowsAreOfTheirMoment` | 2 callers, 2 databases, 2 tables, 2 queries, 1 change |
| `interrupts` | `DeadlineIsRestored`, `InterruptReachesUndisturbedCall` | 3 threads |
| `metadata` | `TablesAreAsDescribed` | 2 threads, 2 lookups, 3 names of which two differ by case, 3 shapes, 2 states of the schema, bounds of 4 columns and 2 objects |

Why the bounds are enough for what the properties say:

* The pool: two transactions are one that uses a session and one that gets it
  next, or two that race for one; the detaching catalog is a third thread. With
  `maximum_idle` 1 and three sessions there is a session to keep, one too many to
  keep and one to open. Three transactions pass too, in more than five minutes.
* `WriteState`: a hazard is a transaction that fails part of the way and what comes
  after it, so two transactions on one catalog, or one transaction over two
  catalogs. Two statements are needed for a *partial* transaction. Three
  transactions with three sessions pass too.
* `CallerInterrupt`: two scopes overlap in every way there is; a third one can be
  opened between the steps of the other two.
* `NativeCalls`: three requests are enough to open a cursor, close it, and have its
  id given out again by the request that carries the close, with one failure or
  one cancellation anywhere. A second failure finds the session already unfit.
* `ReadScans`: a pool of one makes every second acquire find it exhausted; two
  queries are needed for a change number that outlives its query; two scans for
  the lock, two workers for the counter. A pool of two sessions (3.3 million
  states) and two failures in one query pass too.
* `Connect`: one address of a list fails and the next is tried, or a redirect
  returns to one that was tried; with two redirects a chain goes back two levels. `MaximumOpens`
  stands for the bound on all attempts and is met.
* `Resolver`: with two workers one may sleep while the other is on its way, with four
  requests more come than there are workers and places in the queue. The theorem
  has no bound.
* `TableRanges` and `Values`: the code is the same for words of 4 and 64 bits and for
  2, 3 and 18, 38 digits; every boundary is met from both sides. What the theorem
  adds for the shards is every width.
* `Responses`: a row depends on the one before it and a fetch on the last row of the
  one before; three rows in two fetches have a first, a middle and a last one.
* `Metadata`: a hazard is one change between two of a catalog's queries and a second
  thread that asks in between. The theorem has no bound.
* Data (`Pushdown`, `Lobs`, `Callables`): every operator meets every kind of operand
  at every limit; the limits themselves (1000 values of a list, 65536 columns, 2048
  intervals) are only lower.

### Fairness

* `TxnSessionPool!FairSpec`: weak fairness of the steps of each thread that is
  inside the pool, and of closing. Probing and opening end because the deadline of
  the caller bounds them. Nothing is assumed of callers, scans, the server or the
  clock.
* `NativeCalls!Spec`: weak fairness of each caller's `Receive` and of the server's
  handling of an INTERRUPT and a RESET. Nothing is assumed about how long the
  server runs a call, nor about timeouts.
* `Connect!Spec`: weak fairness of the steps the connect takes by itself (`Own`) and
  of the clock (`Expire`). A read that nobody answers ends at the deadline, because the
  transport has it (`CutShort`); nothing is assumed of listeners, servers and
  lookups.
* `ReadScans` needs none: `NobodyIsStuck` says that a running query always has a
  step to make, and each of `QuerySteps` moves a scan or a handle on towards its
  end, so a query cannot go on for ever either.

### Where the code does not do what it says

* `interrupt_lost`: of two transactional pipelines of one interrupted query, the
  one whose scope ends first puts back the deadline it found, and the other's
  call, whose watcher has already signalled and gone, waits on for its answer or
  the read timeout (`oracle_query.cpp:93`; `oracle_query.cpp:665` says the
  interrupt must reach it, `io_deadline.hpp:10` that scopes are nested).
  `InterruptReachesUndisturbedCall` is the guarantee that is left.
* `native_shared`: of two pipelines that share a pinned session, one gives up on
  its answer; until it has closed the session, the other sends its request and
  reads the answer that is still to come (`native_session.cpp:171` does not look
  at `exchange_failed`; `ttc_channel.hpp:45` says the call lock gives the guarantee
  that a request and its response are a pair). `AnswerIsOwnUntilFailure` is what is
  left.
* `read_text`: a question for a change number or a dictionary query that fails
  does not poison the pooled session it ran on (`oracle_catalog.cpp:1437`, `1454`,
  `1402`), although `oracle_pool.cpp:90` says that a session whose statement failed
  never goes back into the pool. A user who may not call `DBMS_FLASHBACK` meets this on
  every scan that DuckDB filters itself and that has a LOB or JSON column to defer,
  which is on by default: the entry of the failed statement stays in the registry of
  a session that is used again. `LiveIsAccounted` says that it happens in no other
  use.
* `snapshot_spelling`: `oracle_snapshot` takes the catalog's name as the user writes
  it, and pins the change number under that spelling; the scans compare it letter by
  letter with the name of the ATTACH (`oracle_catalog.cpp:1415`), while DuckDB finds
  the catalog whatever its case. So `oracle_snapshot('ORA', ...)` of a catalog
  attached as `ora` reads every table as of now, one after the other, and marks the
  copy with a change number its rows are not of. With the name spelled as attached
  the property holds (`components`).
* `short_floats`: the dictionary gives FLOAT(b) the precision b, in binary digits,
  and the overlay (`oracle_catalog.cpp:1592`) puts it over the describe's, which made it a
  number of decimal digits; from there on a FLOAT(18) is a BIGINT, and 1.5 is read as 1
  and then written as text. `ValuesAreAsStored` is the rest.

Differences between documents and code that have no run, because they are visible in the text:

* A prepared `oracle_execute` or `oracle_execute_many` that is executed inside an
  explicit transaction runs and commits, though `docs/CAPABILITIES.md:606` says both
  refuse: only their Bind asks (`oracle_query.cpp:1088`, `1170`), while `oracle_admin`
  asks again (`1025`). `Calls` has it as it is.
* `oracle_scan_parallel` asks only the lowest and the highest key for a fraction; a
  fractional NUMBER key between two closed ranges is in none of them
  (`oracle_parallel.cpp:255`, `docs/CAPABILITIES.md:728`).
* While the bulk load of columns is incomplete, another spelling of a name, or a
  remembered miss, can hide an object spelled exactly (`oracle_catalog.cpp:809`,
  `README.md:459`). `NameIsMeant` claims it only when the load was complete. A list
  of objects whose query fails half-way is appended to by the next attempt.
* Unknown keys inside SECURITY are ignored (`README.md:331` says refused); a
  DESCRIPTION's own FAILOVER and LOAD_BALANCE over its address lists are dropped
  inside a DESCRIPTION_LIST, and one given twice on the list counts once; addresses
  outside a list form one that stands where the first of them stood.
* The registry of cursors may be full when `oracle_plsql` has committed its block, and
  then a committed block is reported as failed. A prepared `oracle_cursor` has
  taken its cursor at bind, so a second EXECUTE has none.
* A TIMESTAMP_NS of infinity, and the text of one, is divided before it is asked whether it
  is finite, and is written as a date in 2262; fractions of a second are dropped
  when written to a DATE; a NULL interval of months binds as one of days.

## 5. Proofs

TLAPS checks each theorem for all sets of transactions, sessions, threads and
requests, all widths of words and all bounds, from the assumptions named in the
modules only.

**`TxnSessionPool_proofs`**, from `PoolAssumption`. None of the properties is
inductive: that no session is shared needs to know in which states a thread may
hold one, that idle sessions are reusable needs to know what `Release` found
before it took the mutex and that nobody has touched the session since. The
invariants that are:

| Invariant | Its parts | Gives |
| --- | --- | --- |
| `TypeOK` | itself | `TypeCorrect` |
| `Custody` | `NoSharing`; every session that is idle, in hand or about to be closed is open (`InHandIsOpen`) | `SessionsAreNotShared` |
| `Reusability` | `IdleIsReusable`; a session a thread is about to keep is clean (`KeepIsClean`); an acknowledged end left no work (`EndIsReal`) | `IdleSessionsAreReusable` |
| `Usability` | a session that answered its probe was not lost while idle (`ProvenIsAlive`); it is open and bound to the caller that leases it (`GovernedIsBound`); one nobody has opened is not lost (`UnopenedIsAlive`) | `LeasesAreUsable` |
| `Accounted` | `NothingLeaks`; a closed pool is empty (`ClosedIsEmpty`) | `NoSessionLeaks` |
| `Balance` | the sets of threads that hold a lease and of those that probe a candidate are finite, and the counters are what is in them and in the list | `CountersAgree` |

Each is proved with the ones above it as hypotheses, one step per action; the
lemmas before them say what the locked sections do to the list
(`TakeExpiredSplits` and others). For the counters each step's change of the two sets of
threads is counted; as the sum is right before it, the decrement that stops at zero
never has to.

`PoolImplementsLeasing`, from `NamesAssumption` too (no
transaction is called "fresh", "idle" or "dropped"), is the
refinement of `SessionLeasing`. `LeaseOfAll` says who has each session without the
`CHOOSE` of the mapping, which `Custody` makes unique. A step of the pool then is a
`Lease` (the probe answered, the opener returned), `Work`, `End`, `Return` or `GiveUp`
of a caller, a `RollBack` (the closing of a session), a `Forget` (expiry, a failed
probe, Close), or changes neither the lease nor the uncommitted work. That what
`ReleaseKeeps` puts back has no work on it is `KeepIsClean` of `Reusability`.

**`CallerInterrupt_proofs`**, with no assumption at all. The inductive invariant is
`TypeOK` and three facts: an open scope's copy is the deadline the connection has
outside every scope, and only a thread of an interrupted query may be entering one
with another copy (`Copies`); the deadline is that one, or in the past, with the
query interrupted and a watcher that has signalled (`Moved`); and a call whose
watcher has signalled finds it in the past unless it was disturbed (`Heard`). It gives `ScopesRestore`
and `InterruptsReach`.

**`WriteState_proofs`**, from `WriteAssumption`. The statements a transaction has
been told succeeded and that are not yet durable are on one session (`Tallied`);
that session is the map's, or in hand while an end is exchanged (`Staged`), and
nobody else's (`Held`); of a transaction before its end nothing is durable
(`Untouched`, `Unbegun`); a COMMIT that is still to come holds all of it
(`LateIsWhole`); and one with a failed statement gets no COMMIT at all
(`SpoiledIsRefused`). This gives `NoPartialTransaction` (`AllOrNothing`) and
`WritesAreFound`; with what the user may have been told at each stage (`Untold`,
`Confirmed`, `Undone`) it gives `EndsAreReportedTruly` (`UserIsToldTheTruth`).
None of the three is inductive: a partial commit would need a session that has lost
some of the work, which the counting of statements against sessions excludes.

The module goes on from there: `StatusIsHonest` (`OutcomeIsHonest`) and
`NextStartsClean` (`NothingOutlivesTheTransaction`). Catalogs are ended one at a time
(`OneAtATime`), so that when one fails only entries still in the map are left. A
status is about the transaction whose entry is held and says `not_attempted` until it
is ended (`Reports`), and is `active` only while there is an entry (`Settled`). Every
leased session is in the map, in hand or about to be closed (`InHand`); only sessions in
use are flawed by their users (`Users`), one a procedure changed has a tainted entry
(`Marked`), and so one that was given back has nothing wrong with it (`Rested`).

**`Connecting_proofs`**, from `ResolverAssumption`: `LookupsAreServed`. The queue holds
each queued request once and nothing else (`Queued`), looking workers look up
different started requests (`InWork`), and while a worker sleeps there are as many
on their way as requests in the queue (`Served`). The count is what makes it
inductive: a notified worker may find the queue emptied by one that never slept, but
each that leaves takes a request with it.

From `ConnectAssumption` and `InputsAssumption`, `AddressesAreTried`, `RedirectsAreContained`
and `CredentialsAreProvedOnce` are consequences of one invariant of `Connect`, which
`ConnectsAreOrderly` states:

| Part | Says | Without it |
| --- | --- | --- |
| `ConnectTyped` | the plan, the resolved addresses and the levels of the chain are lists of addresses with hosts, ports and protocols, and every loop is within its list | the target under way need not exist |
| `Placed` | there is a chain only while one address of the plan is tried | an address is dialled that was not planned |
| `Nested` | levels are numbered from 0, their targets have the planned address's protocol and are none that a level below has come to; only the top may be between targets | a redirect goes in a circle or to another protocol |
| `Streaming` | there is a stream exactly while a session is made on it, and it is checked against the planned address's name | a failed attempt leaves its stream |
| `Proving` | what the phase says of the proof and of the deadline | a second proof follows a failed one |
| `Owing` | what is owed is left to try: of the plan from the next address on, of the host, of each level of the chain, or the attempt under way; and a connect that gave up owes nothing | an attempt falls between two loops |

`Owing` is the invariant that makes `TriesEverything` inductive: the property itself is silent until
the connect has failed. Each step is one of seventeen kinds (`StepsAre`), and for each kind
one lemma says what it does to the chain and what to the debts: a level is popped when
nothing is left of it, a redirect settles the attempt that got it and owes its
targets, a target that was come to before is passed over with what it owed.

That the plan is a list of addresses is a theorem about the parser (`PlansAreTyped`, `OffersAreTyped`),
followed from the text of an alias, a descriptor, an Easy Connect string or a redirect
through merging, address lists and shuffles to the order: a refusal has seen every host and port
that the plan uses. `Selected` and `FlattenSeq` are recursive functions; that
they return lists of what they were given is shown by the least place at which they
would not (`UpTo`, `SelectedIs`, `FlattenSeqIs`).

**`NativeCalls_proofs`**, from `CallsAssumption`, for callers that poison and callers
that do not. What is true of every state: the messages in the two queues
(`Messages`) and their order (`Numbered`), what the server works on (`ServerTyped`),
what each caller has in hand (`Handling`) and who owns a cursor (`Owned`). On it stand
four invariants. A closed session is left alone (`Shut`). While the session may be
usable there is one cancellation at one stage, its interrupt on the way, kept, lost, met
or answered (`Cancelling`): `CancellationEnds`. Until an exchange fails there is one
call, and it is on its way, at the server or answered (`InStep`): `AnswersAreOwn`, and
with `Cancelling` also `ReuseIsClean`. A cursor of the server belongs to one statement, to the list
of those to be closed, or to a message under way (`Accounts`): `CursorsAccounted`. The properties
speak of a session at rest, and a session comes to rest from any place in an
exchange; this is why none is inductive.

**`ReadScans_proofs`**, from `ScansAssumption`: `PoolIsAccounted`,
`ChunksAreReadOnce` and `QueriesReadOneMoment`, of one invariant. The handles that
hold or connect a session are counted (`Counted`). That alone is not inductive: a
destroyed handle that still connects would leave its connect in the count, which
cannot happen, because only who needs a session connects (`Wanted`). The stage of a scan
bounds what it can have done (`Staged`), nothing of a query is left when it ends
(`Between`), a session a scan failed on is held by a poisoned handle until it is closed
(`Marked`); every chunk that was handed out is in one worker's hand or was read
(`Parted`); the scan that asks for the moment has the lock (`Locked`); what a scan has read is
of the change number it names (`Named`), which is the one the query's snapshot holds, and not older
than the query (`Dated`).

**`TableReads_proofs`**. `ShardsPartition`, from `TableRangesAssumption`, for words of
any width, any keys and any number of shards. The start of a shard is the quotient
the code computes in words without overflow; starts ascend, and the shard of a key
at distance d is `((d + 1) * shards - 1) \div n`. `MarksAreTrue` (`Snapshots`) has the two
hypotheses without which the code does not keep it: the catalog is named as it was
attached (`Spellings = {AttachedName}`; `snapshot_spelling` shows what happens
otherwise) and no two snapshots of a table overlap (`NoneOverlaps`). The rows a job has in hand
are those of the moment it pinned (`JobsAreFaithful`), so that the mark it then sets is true.

`DescriptionsAreTrue`, from `MetadataAssumption` and `SchemasAssumption`, is `TablesAreAsDescribed` for
any number of binding threads, any schema and any changes of it. `MetadataInv` says that what the
cache holds of a name is what the object had at one moment, but for shapes it had at another
(`CacheIs`, from `Plain` and `Told`); that a schema which was read completely is all the cache
holds, or is in the hand of the one thread that has the lock (`ReadingIs`), so that a name
means the same before and after; that keys and complete lists are of a moment (`KeysAre`,
`ListIs`); and that whoever goes on after it gave the lock back knows only what stays true
(`LookupIs`). Answers are what the cache and the keys hold to this day (`AnswerIs`), and neither
takes anything back (`GoesOn`): that is why a table is not described in two ways, and why one
change between two queries is harmless, wherever it falls.

**`Calls_proofs`**, from `CallsAssumption` and `ProgramsAssumption`. The courses of the
24 functions are written out and what the argument needs of their order is read
off: a function receives cursors once (`CursorsComeOnce`), what it commits comes after
its statement (`CommitsAreLate`), and it pins after it has asked twice (`PinsAreFourth`).
`EveryCursorHasOneOwner` stands on `Hands`: a cursor is in one hand (`OneHand`), a function
that runs owns all that are open of those it received (`Ended`), one call registers once
(`Apart`), and so there are fewer calls than ids and the next id is free (`FreshIsFree`). `EveryAnswerIsSettled`
adds `Outcomes`, which says of each use what its work is at the step it is at (`Own`,
`Dated`, `Alone`) and of each two of one transaction that nothing is kept of one when the other
failed (`Together`); and `Traces`: a pinned session that a procedure ran on is tainted.

**Only model-checked**: `PlansWhatIsWritten` (`Descriptors`) and `RowsAreOnce`
(`Responses`); and the definitions of `Pushdown`, `Lobs`, `Callables`, `Values` and the ROWID ranges of `TableRanges`, which TLC compares
with reference definitions over bounded inputs (`PushdownIsSound`, `LobsAreWhole`,
`CallsAreTheOnesMeant`, `ValuesAreAsStored`, `TableIsReadOnce`). What these promise is
computed by recursion over a tree or a sequence and compared with what another
recursion says. **Out of the prover's reach**: liveness
under fairness (`CallsReturn`, `ClosedPoolDrains`, `InterruptEndsCall`,
`ConnectEnds`), `NobodyIsStuck` (ENABLED), and what recursive definitions compute
for every input.

A CASE of TLA+ whose guards overlap has no determined value where two of them hold,
though TLC takes the first. The proofs of `Calls` cannot go through such a
definition, and neither do the models rely on one: where the code asks one
question after the other the definitions say IF.

## 6. Assumptions and omissions

Assumed of what is not in `src/src`:

* DuckDB refuses everything but ROLLBACK after an error while a statement runs in an
  explicit transaction, commits attached catalogs one after the other, destroys
  the states of a query when its threads have stopped, and runs scans and pipelines
  of one query on several threads.
* The server answers requests in the order in which it takes them; a request that
  was not sent completely is not carried out. It meets an interrupt by stopping
  the call, or, when it comes too early or too late, by discarding it or keeping it
  for the next call; then it discards requests up to the client's reset and
  reports ORA-01013. It gives a cursor's id again only after a request closed the
  cursor. An answer is told apart from that of another *kind* of request, not from
  that of another request.
* A COMMIT whose acknowledgement was lost was carried out, will be, or never will.
* The identity of a session in `TxnSessionPool` and `WriteState` is used once; in
  `ReadScans` an identity is used again after its session was closed.
* The server rolls uncommitted work back when a session ends. A PL/SQL block that
  commits by itself is not modelled.
* What follows an end-of-call is in its packet; a LOB's first read that is short is
  complete; after a define the server sends whole rows.
* DuckDB finds an attached database whatever the case of its name, and casts what
  `SetValue` gives it to the column's type. `dba_extents` orders by file and block,
  as ROWIDs do. Oracle's dictionary gives FLOAT(b) the precision b and no scale, its
  describe NUMBER(b, -127).
* A lookup is in the resolver's queue once. Ids of registered calls wrap, but no call
  outlives a whole round of 2^64. A session whose transaction met an ORA- error of a
  lost session is closed, so `WriteState` follows its taint only to an orderly end.
* Snapshots and refreshes of one table do not overlap (`NoneOverlaps`): two that do can
  leave the rows of one with the mark of the other, and one that fails before its
  COMMENT leaves rows without a mark.

Left out, and why:

* *Use of freed memory.* `NativeOracleSession::Close` frees the channel without its
  call lock; the model ends the calls of all callers with it.
* End-to-end attributes and breaks the server starts are not in `NativeCalls`
  (temporary LOBs of binds are in `Lobs`); `TtcStatementChannel::Cancel` (`ttc_statement_channel.cpp:333`)
  sends an interrupt whichever call runs, and the model has no property about whose
  it was. Over TCPS a cancellation is refused without a change of state.
* In `ReadScans`: a LIMIT that ends a scan early, the pool's destruction with the
  connection, a change number pinned by `oracle_snapshot` (`Snapshots` has it), and what a failure does
  to the transaction's own session (`WriteState` has that). A parallel plan's own
  session is never shared and not tracked.
* `OneMoment` stops speaking when a session is pinned while the query runs. Then an
  aggregate that took its session before and asks for its change number after the
  pin is told that it needs none (`oracle_catalog.cpp:1420`) and reads on a pooled
  session, as of now, where the other scans read at the query's moment and those
  to come read through the transaction.
* In `Metadata`: whose objects the SCHEMA option means (`ResolveOwner`), the check that
  a name is a table's, row estimates and distinct counts, and result sets of
  `ALL_ARGUMENTS` cut at the batch. Metadata that DDL made stale stays until DETACH
  by design (`README.md:793`) and no property speaks of it.
* In `oracle_write.cpp`: how rows become binds, and the physical plans.
* Values byte by byte: `Values` has digits and exponents on a small scale, `Lobs` counts
  characters and bytes, `Pushdown` has expressions and not their text. The strict
  form of the WHERE clause is reached by tests only.
* Wording of errors, metrics and logging, throughout.
* What `PROJECT.json` marks `not_modelled`, with the reason there: cryptography, TLS
  and wallets' files (pure computation and I/O), and `OracleTransaction` (used by
  tests only); and of the modelled components the grammar of descriptors and SQL
  text character by character, and the layout of messages byte by byte.
