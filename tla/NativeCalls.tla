---------------------------- MODULE NativeCalls ----------------------------
(***************************************************************************)
(* One NativeOracleSession and its cursors (src/src/native_session.cpp),   *)
(* with the registry of its statements, its cancellation state and the     *)
(* TTC channel below them (statement_registry.cpp, native_fetch_cancel-    *)
(* lation.hpp, ttc_statement_channel.cpp, ttc_channel.cpp).  The pipelines *)
(* of a query may share a session that a transaction has pinned, so        *)
(* several callers are in its operations at once: a call, that is a        *)
(* request and the answer that belongs to it, is made under the channel's  *)
(* call lock, while Cancel, the completion of most operations and Close    *)
(* are not.                                                                *)
(*                                                                         *)
(* The connection is two FIFO queues and the server at their other end is  *)
(* external: it answers requests in order, and an INTERRUPT marker makes   *)
(* it abort the running call by a RESET marker, wait for the client's      *)
(* RESET and answer ORA-01013.                                             *)
(***************************************************************************)
EXTENDS Naturals, Sequences, FiniteSets, FiniteSetsExt, SequencesExt

CONSTANTS
    Callers,            \* the threads that use the session
    NoCaller,
    MaximumOpenStatements,  \* the limit of the statement registry
    Operations,         \* which of AllOperations the callers use
    CallersPoison,      \* whether a caller whose call has failed makes no
                        \* other and only closes the session
    MaximumRequests,    \* bound on the requests sent in the session's life
    MaximumCancels,     \* bound on the calls of Cancel
    MaximumFailures     \* bound on writes and reads that fail or time out

(* Execute stands for every DML entry point, Commit also for Rollback; the *)
(* cursors that Query and Call return are fetched from.                    *)
AllOperations == {"Query", "Execute", "Call", "ExecuteAdmin", "Commit"}

ASSUME CallsAssumption ==
    /\ NoCaller \notin Callers
    /\ MaximumOpenStatements \in Nat \ {0}
    /\ Operations \subseteq AllOperations
    /\ CallersPoison \in BOOLEAN
    /\ {MaximumRequests, MaximumCancels, MaximumFailures} \subseteq Nat

VARIABLES
    open,                   \* lifetime.open, and the connection's state
    exchange_failed,
    pending, unusable,      \* NativeFetchCancellation
    statements,             \* OracleStatementRegistry
    owner,                  \* who holds a cursor on a statement, not yet closed
    call_mutex,             \* the caller that holds the channel's call lock
    cancellation_requested,
    pending_close_cursors,
    call,                   \* the operation each caller is in
    \* external: the connection and the server
    requests, responses, server, server_cursors,
    \* how much of each bound is used
    sent, cancels, failures

cancellation == <<pending, unusable>>
registry == <<statements, owner>>
sessionVars == <<open, exchange_failed, pending, unusable, statements, owner>>
channelVars == <<call_mutex, cancellation_requested, pending_close_cursors>>
serverVars == <<server, server_cursors>>
wireVars == <<requests, responses, server, server_cursors>>
clientVars == <<open, exchange_failed, pending, unusable, statements, owner, call_mutex,
                cancellation_requested, pending_close_cursors, call>>
bounds == <<sent, cancels, failures>>
vars == <<open, exchange_failed, pending, unusable, statements, owner, call_mutex,
          cancellation_requested, pending_close_cursors, call, requests, responses,
          server, server_cursors, sent, cancels, failures>>

-----------------------------------------------------------------------------
Handles == 1..MaximumOpenStatements

(* Where a caller is: outside; past the operation's checks and waiting for *)
(* the call lock; waiting for the answer to its request; holding a result  *)
(* that a cancellation may still withhold; waiting to close a cursor.      *)
Locations == {"idle", "lock", "receive", "complete", "close"}

(* A call's handle is that of the statement it is about, its kind that of  *)
(* the exchange, "Lob" being the reads within a fetch, and its answer the  *)
(* request that the answer it has read was the answer to.                  *)
Outside == [at |-> "idle", op |-> "none", handle |-> 0, kind |-> "none",
            request |-> 0, answer |-> 0, failed |-> FALSE]

Closed == [state |-> "CLOSED", remote_cursor_id |-> 0]

CursorIds == 1..(2 * MaximumRequests)

(* The operations that run a statement of their own.                       *)
Statements == {"Query", "Execute", "Call", "ExecuteAdmin"}

Entries == {h \in Handles : statements[h].state # "CLOSED"}

RemoteCursors == {statements[h].remote_cursor_id : h \in Entries} \ {0}

ServerIdle == [state |-> "idle", request |-> 0, kind |-> "none", cursor |-> 0, interrupted |-> FALSE]

INTERRUPT == [type |-> "INTERRUPT"]

RESET == [type |-> "RESET"]

CanUseConnection == ~pending /\ ~unusable

RequireOpen == open /\ CanUseConnection

ReadyForReuse == open /\ ~exchange_failed /\ CanUseConnection /\ Entries = {}

Init ==
    /\ open = TRUE
    /\ exchange_failed = FALSE
    /\ pending = FALSE
    /\ unusable = FALSE
    /\ statements = [h \in Handles |-> Closed]
    /\ owner = [h \in Handles |-> NoCaller]
    /\ call_mutex = NoCaller
    /\ cancellation_requested = FALSE
    /\ pending_close_cursors = {}
    /\ call = [c \in Callers |-> Outside]
    /\ requests = <<>>
    /\ responses = <<>>
    /\ server = ServerIdle
    /\ server_cursors = {}
    /\ sent = 0
    /\ cancels = 0
    /\ failures = 0

-----------------------------------------------------------------------------
(* How an operation ends                                                   *)

Leave(c) == call' = [call EXCEPT ![c] = [Outside EXCEPT !.failed = call[c].failed]]

Throw(c) == call' = [call EXCEPT ![c] = [Outside EXCEPT !.failed = CallersPoison]]

Unlock(c) == call_mutex' = IF call_mutex = c THEN NoCaller ELSE call_mutex

ObserveError_Forgets(interrupted) ==    \* bug: any error ends the cancellation
    /\ pending' = FALSE
    /\ UNCHANGED unusable

(* ORA-01013 answers an accepted cancellation, any other error leaves it   *)
(* unanswered.                                                             *)
ObserveError(interrupted) ==
    /\ pending' = (pending /\ ~(interrupted /\ ~unusable))
    /\ unusable' = (unusable \/ (pending /\ ~interrupted))

Fail_CommitForgets(c, op, interrupted) ==   \* bug: a failed COMMIT is not noted
    /\ exchange_failed' = (exchange_failed \/ op \notin {"ExecuteAdmin", "Commit"})
    /\ IF op \in {"ExecuteAdmin", "Commit"}
       THEN UNCHANGED cancellation
       ELSE ObserveError(interrupted)
    /\ Unlock(c)
    /\ Throw(c)

(* The operation throws.  RunNativeOperation, Fetch, Commit and Rollback   *)
(* note that an exchange failed, the first two also what the error says of *)
(* a cancellation; ExecuteAdmin leaves only its poisoned statement.        *)
Fail(c, op, interrupted) ==
    /\ exchange_failed' = (exchange_failed \/ op # "ExecuteAdmin")
    /\ IF op \in {"ExecuteAdmin", "Commit"}
       THEN UNCHANGED cancellation
       ELSE ObserveError(interrupted)
    /\ Unlock(c)
    /\ Throw(c)

(* What the channel does to the statement of an exchange that failed; LOB  *)
(* reads and transaction calls are not about one.                          *)
Poison(c) ==
    statements' = IF call[c].kind \in Statements \cup {"Fetch"}
                  THEN [statements EXCEPT ![call[c].handle].state = "POISONED"]
                  ELSE statements

-----------------------------------------------------------------------------
(* Entering an operation                                                   *)

(* Every operation but Fetch asks RequireOpen before it waits for the call *)
(* lock: what it found may be out of date when it has the lock.            *)
Begin(c) ==
    /\ call[c].at = "idle"
    /\ ~call[c].failed
    /\ RequireOpen
    /\ call' = [call EXCEPT ![c].at = "lock"]
    /\ UNCHANGED <<sessionVars, channelVars, wireVars, bounds>>

(* Query and Execute ask it inside RunNativeOperation, which takes the     *)
(* refusal for a failure; for the others it has no effect on the session.  *)
BeginRefused(c) ==
    /\ call[c].at = "idle"
    /\ ~call[c].failed
    /\ open
    /\ ~CanUseConnection
    /\ \E op \in Operations :
         IF op \in {"Query", "Execute"}
         THEN exchange_failed' = TRUE /\ ObserveError(FALSE)
         ELSE UNCHANGED <<exchange_failed, cancellation>>
    /\ Throw(c)
    /\ UNCHANGED <<open, registry, channelVars, wireVars, bounds>>

LockCall_Missing(c) == TRUE     \* bug: requests and answers are not paired

(* The recursive call lock: free, or this caller's already.                *)
LockCall(c) == call_mutex \in {NoCaller, c}

(* A request carries the closes of all cursors that are queued.            *)
Send(c, op, kind, h) ==
    /\ sent < MaximumRequests
    /\ sent' = sent + 1
    /\ requests' = Append(requests,
           [type |-> "CALL", request |-> sent + 1, kind |-> kind, closes |-> pending_close_cursors,
            cursor |-> IF kind = "Fetch" THEN statements[h].remote_cursor_id ELSE 0])
    /\ pending_close_cursors' = {}
    /\ call_mutex' = c
    /\ call' = [call EXCEPT ![c] = [@ EXCEPT !.at = "receive", !.op = op, !.kind = kind, !.handle = h,
                                             !.request = sent + 1, !.answer = 0]]
    /\ UNCHANGED <<exchange_failed, cancellation, responses, serverVars, cancels, failures>>

(* Nothing of the request reaches the server and the closes stay queued.   *)
SendFails(c, op) ==
    /\ failures < MaximumFailures
    /\ failures' = failures + 1
    /\ Fail(c, op, FALSE)
    /\ UNCHANGED <<pending_close_cursors, wireVars, sent, cancels>>

(* OracleStatementRegistry::Open, then the request.                        *)
EnterStatement(c) ==
    /\ call[c].at = "lock"
    /\ LockCall(c)
    /\ \E op \in Operations \cap Statements :
         IF Entries = Handles
         THEN /\ Fail(c, op, FALSE)     \* too many open statements
              /\ UNCHANGED <<statements, pending_close_cursors, wireVars, bounds>>
         ELSE LET h == Min(Handles \ Entries) IN
              \/ /\ Send(c, op, op, h)
                 /\ statements' = [statements EXCEPT ![h].state = "OPEN"]
              \/ /\ SendFails(c, op)
                 /\ statements' = [statements EXCEPT ![h].state = "POISONED"]
    /\ UNCHANGED <<open, owner, cancellation_requested>>

(* Commit and Rollback.                                                    *)
EnterTransaction(c) ==
    /\ call[c].at = "lock"
    /\ LockCall(c)
    /\ "Commit" \in Operations
    /\ Send(c, "Commit", "Commit", 0) \/ SendFails(c, "Commit")
    /\ UNCHANGED <<open, registry, cancellation_requested>>

(* Fetch asks whether the connection is usable once it has the lock, where *)
(* a refusal is not noted as a failure.                                    *)
FetchRefused(c) ==
    /\ call[c].at = "idle"
    /\ ~call[c].failed
    /\ \E h \in Handles : owner[h] = c
    /\ LockCall(c)
    /\ ~CanUseConnection
    /\ Throw(c)
    /\ UNCHANGED <<sessionVars, channelVars, wireVars, bounds>>

(* Rows that came with the execute are handed out first; a poisoned        *)
(* statement is refused by BeginFetch of the registry.                     *)
EnterFetch(c) ==
    /\ call[c].at = "idle"
    /\ ~call[c].failed
    /\ LockCall(c)
    /\ CanUseConnection
    /\ \E h \in Handles :
         /\ owner[h] = c
         /\ LET state == statements[h].state IN
            \/ /\ state \in {"EXECUTED", "EXHAUSTED"}
               /\ call_mutex' = c
               /\ call' = [call EXCEPT ![c] = [@ EXCEPT !.at = "complete", !.op = "Fetch", !.handle = h]]
               /\ UNCHANGED <<exchange_failed, cancellation, statements, pending_close_cursors,
                              wireVars, bounds>>
            \/ /\ state \in {"EXECUTED", "FETCHING"}
               /\ Send(c, "Fetch", "Fetch", h)
               /\ statements' = [statements EXCEPT ![h].state = "FETCHING"]
            \/ /\ state \in {"EXECUTED", "FETCHING"}
               /\ SendFails(c, "Fetch")
               /\ statements' = [statements EXCEPT ![h].state = "POISONED"]
            \/ /\ state = "POISONED"
               /\ Fail(c, "Fetch", FALSE)
               /\ UNCHANGED <<statements, pending_close_cursors, wireVars, bounds>>
    /\ UNCHANGED <<open, owner, cancellation_requested>>

(* ResolveLobs: reads of the values that rows hold only locators of, each  *)
(* an exchange of its own under the lock of the fetch.                     *)
ReadLob(c) ==
    /\ call[c].at = "complete"
    /\ call[c].op = "Fetch"
    /\ Send(c, "Fetch", "Lob", call[c].handle) \/ SendFails(c, "Fetch")
    /\ UNCHANGED <<open, registry, cancellation_requested>>

-----------------------------------------------------------------------------
(* TtcChannel::Receive                                                     *)

ReceiveReset_Silent(c) ==       \* bug: the client does not take part in the reset
    /\ call[c].at = "receive"
    /\ responses # <<>>
    /\ Head(responses) = RESET
    /\ responses' = Tail(responses)
    /\ cancellation_requested' = FALSE
    /\ UNCHANGED <<sessionVars, call_mutex, pending_close_cursors, call, requests, serverVars, bounds>>

ReceiveReset(c) ==
    /\ call[c].at = "receive"
    /\ responses # <<>>
    /\ Head(responses) = RESET
    /\ responses' = Tail(responses)
    /\ cancellation_requested' = FALSE
    /\ requests' = IF cancellation_requested THEN Append(requests, RESET) ELSE requests
    /\ UNCHANGED <<sessionVars, call_mutex, pending_close_cursors, call, serverVars, bounds>>

(* Deadline, read timeout, lost connection: the answer may still come.     *)
ReceiveFails(c) ==
    /\ call[c].at = "receive"
    /\ failures < MaximumFailures
    /\ failures' = failures + 1
    /\ Poison(c)
    /\ Fail(c, call[c].op, FALSE)
    /\ UNCHANGED <<open, owner, cancellation_requested, pending_close_cursors, wireVars, sent, cancels>>

Answered(c) ==
    /\ call[c].at = "receive"
    /\ responses # <<>>
    /\ Head(responses) # RESET
    /\ responses' = Tail(responses)

(* An Oracle error, or an answer of another shape than the call's decoder  *)
(* expects.                                                                *)
ReceiveError(c) ==
    /\ Answered(c)
    /\ LET answer == Head(responses) IN
         /\ answer.outcome # "ok" \/ answer.kind # call[c].kind
         /\ Poison(c)
         /\ Fail(c, call[c].op, answer.outcome = "ORA-01013")
    /\ UNCHANGED <<open, owner, cancellation_requested, pending_close_cursors, requests,
                   serverVars, bounds>>

Done(c, h) == call' = [call EXCEPT ![c] = [@ EXCEPT !.at = "complete", !.handle = h,
                                                    !.answer = Head(responses).request]]

(* BindRemoteCursor would refuse a cursor that another statement has; the  *)
(* server gives an id again only after a request has closed it, so that an *)
(* answer never names one, its own or another call's.                      *)
ReceiveQuery(c) ==
    /\ Answered(c)
    /\ LET answer == Head(responses)
           h == call[c].handle IN
         /\ answer.outcome = "ok"
         /\ answer.kind = "Query"
         /\ call[c].kind = "Query"
         /\ statements' = [statements EXCEPT ![h] = [state |-> "EXECUTED", remote_cursor_id |-> answer.cursor]]
         /\ owner' = [owner EXCEPT ![h] = c]
         /\ Done(c, h)
    /\ Unlock(c)
    /\ UNCHANGED <<open, exchange_failed, cancellation, cancellation_requested, pending_close_cursors,
                   requests, serverVars, bounds>>

(* CompleteExecute and Close at once: the server's cursor is to be closed  *)
(* with the next request.                                                  *)
ReceiveExecuted(c) ==
    /\ Answered(c)
    /\ LET answer == Head(responses)
           h == call[c].handle IN
         /\ answer.outcome = "ok"
         /\ answer.kind = call[c].kind
         /\ answer.kind \in {"Execute", "ExecuteAdmin"}
         /\ statements' = [statements EXCEPT ![h] = Closed]
         /\ pending_close_cursors' = pending_close_cursors \cup {answer.cursor}
         /\ IF call[c].kind = "Execute" THEN Done(c, 0) ELSE Leave(c)
    /\ Unlock(c)
    /\ UNCHANGED <<open, exchange_failed, cancellation, owner, cancellation_requested, requests,
                   serverVars, bounds>>

(* The block is closed like a statement; a cursor it returned becomes a    *)
(* statement of its own, in the entry the block has left.                  *)
ReceiveCall(c) ==
    /\ Answered(c)
    /\ LET answer == Head(responses)
           h == call[c].handle IN
         /\ answer.outcome = "ok"
         /\ answer.kind = "Call"
         /\ call[c].kind = "Call"
         /\ pending_close_cursors' = pending_close_cursors \cup {answer.cursor}
         /\ IF answer.result = 0
            THEN /\ statements' = [statements EXCEPT ![h] = Closed]
                 /\ Done(c, 0)
                 /\ UNCHANGED owner
            ELSE /\ statements' = [statements EXCEPT ![h] = [state |-> "EXECUTED",
                                                              remote_cursor_id |-> answer.result]]
                 /\ owner' = [owner EXCEPT ![h] = c]
                 /\ Done(c, h)
    /\ Unlock(c)
    /\ UNCHANGED <<open, exchange_failed, cancellation, cancellation_requested, requests,
                   serverVars, bounds>>

(* The lock of a fetch outlives its exchanges.                             *)
ReceiveRows(c) ==
    /\ Answered(c)
    /\ LET answer == Head(responses)
           h == call[c].handle IN
         /\ answer.outcome = "ok"
         /\ answer.kind = call[c].kind
         /\ answer.kind \in {"Fetch", "Lob"}
         /\ statements' = IF answer.kind = "Fetch" /\ answer.exhausted
                          THEN [statements EXCEPT ![h].state = "EXHAUSTED"]
                          ELSE statements
         /\ Done(c, h)
    /\ UNCHANGED <<open, exchange_failed, cancellation, owner, channelVars, requests, serverVars,
                   bounds>>

ReceiveStatus(c) ==
    /\ Answered(c)
    /\ LET answer == Head(responses) IN
         /\ answer.outcome = "ok"
         /\ answer.kind = "Commit"
         /\ call[c].kind = "Commit"
    /\ Unlock(c)
    /\ Leave(c)
    /\ UNCHANGED <<sessionVars, cancellation_requested, pending_close_cursors, requests,
                   serverVars, bounds>>

Receive(c) ==
    \/ ReceiveReset(c)
    \/ ReceiveError(c)
    \/ ReceiveQuery(c)
    \/ ReceiveExecuted(c)
    \/ ReceiveCall(c)
    \/ ReceiveRows(c)
    \/ ReceiveStatus(c)

-----------------------------------------------------------------------------
(* The end of an operation, cursors, cancellation and the session's Close  *)

(* CompleteFetch and CompleteOperation: after an accepted cancellation the *)
(* result is withheld.  A cursor in it is destroyed while the connection   *)
(* cannot be used, so its statement stays in the registry.                 *)
Complete(c) ==
    /\ call[c].at = "complete"
    /\ IF CanUseConnection
       THEN Leave(c) /\ UNCHANGED <<exchange_failed, unusable, owner>>
       ELSE /\ Throw(c)
            /\ exchange_failed' = TRUE
            /\ unusable' = TRUE
            /\ owner' = IF call[c].op = "Fetch" \/ call[c].handle = 0
                        THEN owner
                        ELSE [owner EXCEPT ![call[c].handle] = NoCaller]
    /\ Unlock(c)
    /\ UNCHANGED <<open, pending, statements, cancellation_requested, pending_close_cursors,
                   wireVars, bounds>>

(* NativeOracleCursor::Close looks at the session before it waits for the  *)
(* lock; a cursor that cannot use the connection is just dropped.          *)
CursorClose(c) ==
    /\ call[c].at = "idle"
    /\ \E h \in Handles :
         /\ owner[h] = c
         /\ IF RequireOpen
            THEN call' = [call EXCEPT ![c].at = "close", ![c].handle = h] /\ UNCHANGED owner
            ELSE owner' = [owner EXCEPT ![h] = NoCaller] /\ UNCHANGED call
    /\ UNCHANGED <<open, exchange_failed, cancellation, statements, channelVars, wireVars, bounds>>

CursorClosed_Unqueued(c) ==     \* bug: the registry forgets a cursor the server has
    /\ call[c].at = "close"
    /\ LockCall(c)
    /\ statements' = [statements EXCEPT ![call[c].handle] = Closed]
    /\ owner' = [owner EXCEPT ![call[c].handle] = NoCaller]
    /\ Leave(c)
    /\ UNCHANGED <<open, exchange_failed, cancellation, channelVars, wireVars, bounds>>

CursorClosed(c) ==
    /\ call[c].at = "close"
    /\ LockCall(c)
    /\ LET h == call[c].handle IN
         /\ pending_close_cursors' = pending_close_cursors \cup {statements[h].remote_cursor_id}
         /\ statements' = [statements EXCEPT ![h] = Closed]
         /\ owner' = [owner EXCEPT ![h] = NoCaller]
    /\ Leave(c)
    /\ UNCHANGED <<open, exchange_failed, cancellation, call_mutex, cancellation_requested,
                   wireVars, bounds>>

(* Cancel of a cursor or of the session.  Which cursor does not matter: it *)
(* must have been executed, and what is sent is the same.                  *)
Cancel ==
    /\ cancels < MaximumCancels
    /\ RequireOpen
    /\ cancels' = cancels + 1
    /\ \/ /\ ~cancellation_requested
          /\ pending' = TRUE
          /\ cancellation_requested' = TRUE
          /\ requests' = Append(requests, INTERRUPT)
          /\ UNCHANGED <<unusable, failures>>
       \/ /\ cancellation_requested     \* "already in progress"
          /\ unusable' = TRUE
          /\ UNCHANGED <<pending, cancellation_requested, requests, failures>>
       \/ /\ ~cancellation_requested
          /\ failures < MaximumFailures
          /\ failures' = failures + 1
          /\ unusable' = TRUE
          /\ UNCHANGED <<pending, cancellation_requested, requests>>
    /\ UNCHANGED <<open, exchange_failed, registry, call_mutex, pending_close_cursors, call,
                   responses, serverVars, sent>>

(* NativeOracleSession::Close takes no call lock: others may be anywhere,  *)
(* and what they do once their channel is destroyed is undefined.  Nothing *)
(* depends on it any more, so they are put outside.  The server rolls back *)
(* and releases everything.                                                *)
Close(c) ==
    /\ call[c].at = "idle"
    /\ open
    /\ open' = FALSE
    /\ statements' = [h \in Handles |-> Closed]
    /\ owner' = [h \in Handles |-> NoCaller]
    /\ call_mutex' = NoCaller
    /\ cancellation_requested' = FALSE
    /\ pending_close_cursors' = {}
    /\ call' = [d \in Callers |-> Outside]
    /\ requests' = <<>>
    /\ responses' = <<>>
    /\ server' = ServerIdle
    /\ server_cursors' = {}
    /\ UNCHANGED <<exchange_failed, cancellation, bounds>>

-----------------------------------------------------------------------------
(* The server, as python-oracledb's captured exchange shows it             *)

Arrived(type) == requests # <<>> /\ Head(requests).type = type

(* An interrupt that came before its call may hit it all the same.         *)
ServerTakes ==
    /\ Arrived("CALL")
    /\ server.state = "idle"
    /\ LET request == Head(requests) IN
         /\ server' = [state |-> IF server.interrupted THEN "reset" ELSE "running",
                       request |-> request.request, kind |-> request.kind,
                       cursor |-> request.cursor, interrupted |-> FALSE]
         /\ server_cursors' = server_cursors \ request.closes
    /\ requests' = Tail(requests)
    /\ responses' = IF server.interrupted THEN Append(responses, RESET) ELSE responses
    /\ UNCHANGED <<clientVars, bounds>>

Answer(outcome, cursor, result, exhausted) ==
    [type |-> "ANSWER", request |-> server.request, kind |-> server.kind, outcome |-> outcome,
     cursor |-> cursor, result |-> result, exhausted |-> exhausted]

ServerAnswers ==
    /\ server.state = "running"
    /\ LET cursor == IF server.kind \in Statements THEN Min(CursorIds \ server_cursors) ELSE 0
           results == IF server.kind = "Call"
                      THEN {0, Min(CursorIds \ (server_cursors \cup {cursor}))}
                      ELSE {0} IN
         \/ /\ server.kind = "Fetch" => server.cursor \in server_cursors
            /\ \E result \in results, exhausted \in (IF server.kind = "Fetch" THEN BOOLEAN ELSE {FALSE}) :
                 /\ responses' = Append(responses, Answer("ok", cursor, result, exhausted))
                 /\ server_cursors' = server_cursors \cup ({cursor, result} \ {0})
         \/ /\ responses' = Append(responses, Answer("error", 0, 0, FALSE))
            /\ server_cursors' \in {server_cursors, server_cursors \cup ({cursor} \ {0})}
    /\ server' = ServerIdle
    /\ UNCHANGED <<clientVars, requests, bounds>>

ServerInterrupted ==
    /\ Arrived("INTERRUPT")
    /\ server.state = "running"
    /\ requests' = Tail(requests)
    /\ responses' = Append(responses, RESET)
    /\ server' = [server EXCEPT !.state = "reset"]
    /\ UNCHANGED <<clientVars, server_cursors, bounds>>

(* Too late for the last call: lost, or kept for the next.                 *)
ServerInterruptedIdle ==
    /\ Arrived("INTERRUPT")
    /\ server.state = "idle"
    /\ requests' = Tail(requests)
    /\ \E kept \in BOOLEAN : server' = [server EXCEPT !.interrupted = kept]
    /\ UNCHANGED <<clientVars, responses, server_cursors, bounds>>

(* Until the client's RESET nothing else is looked at.                     *)
ServerResets ==
    /\ requests # <<>>
    /\ server.state = "reset"
    /\ requests' = Tail(requests)
    /\ IF Arrived("RESET")
       THEN responses' = Append(responses, Answer("ORA-01013", 0, 0, FALSE)) /\ server' = ServerIdle
       ELSE UNCHANGED <<responses, server>>
    /\ UNCHANGED <<clientVars, server_cursors, bounds>>

Server == ServerTakes \/ ServerAnswers \/ ServerInterrupted \/ ServerInterruptedIdle \/ ServerResets

Operate(c) ==
    \/ Begin(c) \/ BeginRefused(c) \/ EnterStatement(c) \/ EnterTransaction(c)
    \/ FetchRefused(c) \/ EnterFetch(c) \/ ReadLob(c)
    \/ Receive(c) \/ ReceiveFails(c) \/ Complete(c)
    \/ CursorClose(c) \/ CursorClosed(c) \/ Close(c)

Next == Server \/ Cancel \/ \E c \in Callers : Operate(c)

(* A caller that waits reads what arrives, and the server reacts to        *)
(* markers; how long it runs a call is its own business.                   *)
Fairness ==
    /\ WF_vars(ServerInterrupted)
    /\ WF_vars(ServerResets)
    /\ \A c \in Callers : WF_vars(Receive(c))

Spec == Init /\ [][Next]_vars /\ Fairness

-----------------------------------------------------------------------------
States == {"CLOSED", "OPEN", "EXECUTED", "FETCHING", "EXHAUSTED", "POISONED"}

Requests == 0..MaximumRequests

Kinds == AllOperations \cup {"Fetch", "Lob", "none"}

(* The session's variables have the types the code declares, and those of  *)
(* the wire the messages above.                                            *)
TypeOK ==
    /\ {open, exchange_failed, pending, unusable, cancellation_requested} \subseteq BOOLEAN
    /\ statements \in [Handles -> [state : States, remote_cursor_id : CursorIds \cup {0}]]
    /\ owner \in [Handles -> Callers \cup {NoCaller}]
    /\ call_mutex \in Callers \cup {NoCaller}
    /\ pending_close_cursors \subseteq CursorIds
    /\ call \in [Callers -> [at : Locations, op : Operations \cup {"Fetch", "none"},
                             handle : Handles \cup {0}, kind : Kinds,
                             request : Requests, answer : Requests, failed : BOOLEAN]]
    /\ server \in [state : {"idle", "running", "reset"}, request : Requests, kind : Kinds,
                   cursor : CursorIds \cup {0}, interrupted : BOOLEAN]
    /\ server_cursors \subseteq CursorIds
    /\ sent \in 0..MaximumRequests
    /\ cancels \in 0..MaximumCancels
    /\ failures \in 0..MaximumFailures

(* What an exchange that failed leaves behind: the flag, or the poisoned   *)
(* statement of ExecuteAdmin.                                              *)
Broken == exchange_failed \/ \E h \in Handles : statements[h].state = "POISONED"

(* A session that reports itself ready for reuse has nothing in flight: no *)
(* answer that the next transaction would take for its own, no marker that *)
(* would cancel its first call, no call that the server still runs.        *)
ReusableIsClean ==
    ReadyForReuse /\ call_mutex = NoCaller =>
        /\ requests = <<>>
        /\ responses = <<>>
        /\ server = ServerIdle
        /\ ~cancellation_requested

(* As long as no exchange has failed, callers that share the session and a *)
(* canceller among them never make one caller's call end with the answer   *)
(* to another's.                                                           *)
AnswerIsOwnUntilFailure ==
    ~Broken =>
        \A c \in Callers :
            call[c].at = "complete" => call[c].answer = call[c].request

(* Each cursor the server holds is one statement's or is queued for close, *)
(* never both: none is leaked until ORA-01000, and none is closed that a   *)
(* statement still reads from.  The types are checked with it.             *)
CursorsAreAccounted ==
    /\ TypeOK
    /\ open /\ ~Broken /\ call_mutex = NoCaller =>
          /\ server_cursors \subseteq RemoteCursors \cup pending_close_cursors
          /\ RemoteCursors \cap pending_close_cursors = {}
          /\ RemoteCursors \subseteq server_cursors

(* When the cancellation state lets calls through again, the exchange of   *)
(* markers is over; no later call is cancelled by an earlier Cancel.       *)
CancellationIsOver ==
    open /\ CanUseConnection /\ call_mutex = NoCaller =>
        /\ ~cancellation_requested
        /\ INTERRUPT \notin ToSet(requests)
        /\ ~server.interrupted
        /\ server.state # "reset"

(* ttc_channel.hpp says of a request and its answer that "nothing else     *)
(* uses the channel in between"; so a call that completes has read the     *)
(* answer to its own request, whatever happened before.                    *)
AnswerIsOwn ==
    open => \A c \in Callers : call[c].at = "complete" => call[c].answer = call[c].request

InterruptOnItsWay(c) ==
    /\ open
    /\ call[c].at = "receive"
    /\ server.state = "running"
    /\ server.request = call[c].request
    /\ Arrived("INTERRUPT")

(* An interrupt that finds its call running ends that call: neither side   *)
(* waits for the other's marker for ever.                                  *)
InterruptEndsCall ==
    \A c \in Callers : InterruptOnItsWay(c) ~> (call[c].at # "receive" \/ ~open)

=============================================================================
