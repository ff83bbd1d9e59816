-------------------------------- MODULE Calls --------------------------------
(***************************************************************************)
(* The table functions that execute statements and call Oracle code, as    *)
(* the steps each takes in the order its code takes them, and the registry *)
(* that keeps the cursors a call returned until they are read.             *)
(*                                                                         *)
(* A function is bound once ("ready" ends its Bind) and executed later:    *)
(* at once in a plain statement, when its user says so in a prepared one,  *)
(* after any BEGIN, COMMIT or re-ATTACH in between.  One connection runs   *)
(* one statement at a time, but a statement may hold several functions.    *)
(***************************************************************************)
EXTENDS Naturals, Sequences, SequencesExt, FiniteSets, FiniteSetsExt

CONSTANTS
    Statements,             \* uses of a function, each bound at most once
    Programs,               \* which functions the uses may be of, together
    FirstCallId,            \* where earlier calls have moved next_call_id
    MaximumOpenCursors,     \* CallRegistry(64)
    MaximumCallId,          \* 2^64 - 1
    MaximumReturned,        \* cursors one call returns
    MaximumTransactions

ASSUME CallsAssumption ==
    /\ IsFiniteSet(Statements)
    /\ MaximumOpenCursors \in Nat \ {0} /\ MaximumReturned \in Nat
    /\ MaximumCallId \in Nat /\ MaximumCallId > Cardinality(Statements)
    /\ FirstCallId \in 0..MaximumCallId /\ MaximumTransactions \in Nat

(* A function: its steps; how many cursors it asks for, and whether for    *)
(* implicit ones; who keeps what it did (it itself, the transaction it is  *)
(* in, or nobody); and whether it runs code that changes its session.      *)
Function(steps, asked, implicit, keeps, dirties) ==
    [steps |-> steps, asked |-> asked, implicit |-> implicit, keeps |-> keeps, dirties |-> dirties]

Executes(steps) == Function(steps, {0}, FALSE, "statement", FALSE)
OracleExecute == Executes(<<"autocommit", "ready", "open", "run", "commit", "close">>)
OracleExecuteMany == Executes(<<"autocommit", "ready", "open", "run", "commit", "close">>)
OracleAdmin == Executes(<<"autocommit", "ready", "autocommit", "open", "ddl", "close">>)

AnswersScalar(steps) == Function(steps, {0}, FALSE, "nobody", TRUE)
OracleCallNumber == AnswersScalar(<<"ready", "open", "run", "match", "close">>)
OracleCallNumberArgs == AnswersScalar(<<"ready", "open", "run", "match", "close">>)
OracleCallOutNumber == AnswersScalar(<<"ready", "open", "run", "match", "close">>)
OracleCallOutVarchar == AnswersScalar(<<"ready", "open", "run", "match", "close">>)
OracleCallInOutNumber == AnswersScalar(<<"ready", "open", "run", "match", "close">>)
OracleCallInOutVarchar == AnswersScalar(<<"ready", "open", "run", "match", "close">>)

Opens(asked, implicit) ==
    Function(<<"ready", "open", "run", "match", "register">>, asked, implicit, "nobody", TRUE)
OracleCall == Opens({1}, FALSE)
OracleCallImplicit == Opens({0}, TRUE)
OracleCallCursors == Opens(1..MaximumReturned, FALSE)
OracleCallNamedProcedure == Opens(0..MaximumReturned, FALSE)
OracleCallNamedFunction == Opens(0..MaximumReturned, FALSE)
OracleCallAutoFunction == Opens(0..MaximumReturned, FALSE)
OraclePlsql == Function(<<"ready", "open", "run", "match", "commit", "register">>,
                        0..MaximumReturned, FALSE, "statement", TRUE)

InTransaction(steps, dirties) ==
    Function(<<"writable", "ready", "writable", "pin">> \o steps, {0}, FALSE, "transaction", dirties)
OracleTransactionExecute == InTransaction(<<"run", "check">>, FALSE)
OracleTransactionMany == InTransaction(<<"check", "run", "check", "run", "check">>, FALSE)
OracleComposite == InTransaction(<<"run", "match", "check">>, FALSE)
OracleTransactionPlsql == InTransaction(<<"taint", "run", "match", "check">>, TRUE)
OracleTransactionProcedure == InTransaction(<<"taint", "run", "match", "check">>, TRUE)

Reads(steps) == Function(steps, {0}, FALSE, "nobody", FALSE)
OracleArguments == Reads(<<"ready", "open", "run", "close">>)
OracleCursor == Reads(<<"take", "ready", "fetch">>)
OracleCloseCall == Reads(<<"ready", "closecall">>)

Functions ==
    {OracleExecute, OracleExecuteMany, OracleAdmin, OracleCallNumber, OracleCallNumberArgs,
     OracleCallOutNumber, OracleCallOutVarchar, OracleCallInOutNumber, OracleCallInOutVarchar,
     OracleCall, OracleCallImplicit, OracleCallCursors, OracleCallNamedProcedure,
     OracleCallNamedFunction, OracleCallAutoFunction, OraclePlsql, OracleTransactionExecute,
     OracleTransactionMany, OracleComposite, OracleTransactionPlsql, OracleTransactionProcedure,
     OracleArguments, OracleCursor, OracleCloseCall}

(* A program names the functions a statement may run.                      *)
ASSUME ProgramsAssumption == Programs \subseteq [Statements -> SUBSET Functions]

VARIABLES
    program,            \* of each use: the functions it may be of, a member of Programs
    statement,          \* of each use: its function, the step it is at, and so on
    opened,             \* the cursors open at the server, <<use, number>>
    calls,              \* the registry: call id -> cursor id -> cursor
    next_call_id,
    open_cursor_count,
    explicit,           \* the user has begun a transaction
    writable,           \* the catalog is attached for writing
    transaction,        \* counts the transactions, bounded by MaximumTransactions
    pinned,             \* the transaction's session
    failed,             \* the transaction has failed and must be rolled back
    pooled              \* the session the last transaction left: "none", "clean", "dirty"

registryVars == <<calls, next_call_id, open_cursor_count>>
userVars == <<explicit, writable, transaction>>
pinVars == <<pinned, failed, pooled>>
callsVars == <<program, statement, opened, registryVars, userVars, pinVars>>

NotBound == [function |-> OracleCloseCall, asked |-> 0, at |-> 1, answer |-> "none", owned |-> {},
             returned |-> <<0, 0>>, work |-> "none", transaction |-> 0, inside |-> FALSE]
NotPinned == [held |-> FALSE, tainted |-> FALSE, dirty |-> FALSE]

CallsInit ==
    /\ program \in Programs /\ statement = [s \in Statements |-> NotBound] /\ opened = {}
    /\ calls = <<>> /\ next_call_id = FirstCallId /\ open_cursor_count = 0
    /\ explicit = FALSE /\ writable = TRUE /\ transaction = 1
    /\ pinned = NotPinned /\ failed = FALSE /\ pooled = "none"

Steps(s) == statement[s].function.steps
Step(s) == Steps(s)[statement[s].at]
Keeps(s) == statement[s].function.keeps
Running(s) == statement[s].answer = "running"
Executing(s) == Running(s) /\ "ready" \in ToSet(SubSeq(Steps(s), 1, statement[s].at - 1))
NobodyExecutes == \A s \in Statements : ~Executing(s)

-----------------------------------------------------------------------------
(* A session lives as long as its function runs or one of its cursors is   *)
(* open; uncommitted work is undone with it.                               *)
Settled(all, cursors) ==
    [s \in Statements |->
        IF /\ all[s].work = "pending" /\ all[s].answer # "running" /\ all[s].function.keeps # "transaction"
           /\ \A c \in cursors : c[1] # s
        THEN [all[s] EXCEPT !.work = "undone"] ELSE all[s]]

(* The function has returned or thrown: what it holds is destroyed.        *)
Ends(s, all, answer) ==
    /\ opened' = opened \ all[s].owned
    /\ statement' = Settled([all EXCEPT ![s] = [@ EXCEPT !.answer = answer, !.owned = {}, !.asked = 0,
                                                        !.returned = <<0, 0>>]], opened')

Goes(s, all) ==
    IF all[s].at = Len(Steps(s)) THEN Ends(s, all, "success")
    ELSE statement' = [all EXCEPT ![s].at = @ + 1] /\ UNCHANGED opened

Advances(s) == Goes(s, statement)
Throws(s) == Ends(s, statement, "failed")
With(s, work) == [statement EXCEPT ![s].work = work]

BindFunction(s, function, asked) ==
    /\ statement[s].answer = "none" /\ NobodyExecutes
    /\ statement' = [statement EXCEPT ![s] = [@ EXCEPT !.function = function, !.asked = asked, !.answer = "running"]]
    /\ UNCHANGED <<opened, registryVars, userVars, pinVars>>

At(s, step) == Running(s) /\ Step(s) = step

RequireAutoCommit(s) ==
    /\ At(s, "autocommit")
    /\ IF explicit THEN Throws(s) ELSE Advances(s)
    /\ UNCHANGED <<registryVars, userVars, pinVars>>

RequireWritable(s) ==
    /\ At(s, "writable")
    /\ IF writable THEN Advances(s) ELSE Throws(s)
    /\ UNCHANGED <<registryVars, userVars, pinVars>>

Execute(s) ==
    /\ At(s, "ready") /\ Advances(s) /\ UNCHANGED <<registryVars, userVars, pinVars>>

DropPrepared(s) ==
    /\ At(s, "ready") /\ Ends(s, statement, "dropped") /\ UNCHANGED <<registryVars, userVars, pinVars>>

OpenSession(s) ==
    /\ At(s, "open") /\ (Advances(s) \/ Throws(s)) /\ UNCHANGED <<registryVars, userVars, pinVars>>

(* The answer to what was sent, with explicit and implicit cursors.        *)
Answered(s, given, implicit) ==
    LET cursors == {<<s, k>> : k \in 1..(given + implicit)}
    IN  /\ given + implicit <= MaximumReturned
        /\ given + implicit > 0 => "match" \in ToSet(Steps(s))
        /\ opened' = opened \cup cursors
        /\ statement' = [statement EXCEPT ![s] = [@ EXCEPT !.at = statement[s].at + 1, !.owned = cursors,
               !.returned = <<given, implicit>>, !.work = "pending", !.transaction = transaction]]

Run(s) ==
    /\ At(s, "run") /\ Keeps(s) # "transaction"
    /\ \/ \E given, implicit \in 0..MaximumReturned : Answered(s, given, implicit)
       \/ Throws(s)
    /\ UNCHANGED <<registryVars, userVars, pinVars>>

(* Oracle commits a DDL statement itself, and what was open with it.       *)
RunDdl(s) ==
    /\ At(s, "ddl")
    /\ \/ Goes(s, [statement EXCEPT ![s] = [@ EXCEPT !.work = "kept", !.inside = explicit]])
       \/ \E work \in {"kept", "none"} : Ends(s, With(s, work), "failed")
    /\ UNCHANGED <<registryVars, userVars, pinVars>>

IsExpected(s) ==
    LET given == statement[s].returned[1]   implicit == statement[s].returned[2]
    IN  given = statement[s].asked /\ (implicit > 0) = statement[s].function.implicit

Match(s) ==
    /\ At(s, "match") /\ Keeps(s) # "transaction"
    /\ IF IsExpected(s) THEN Advances(s) \/ Throws(s) ELSE Throws(s)
    /\ UNCHANGED <<registryVars, userVars, pinVars>>

CommitWork(s) ==
    /\ At(s, "commit")
    /\ \/ Goes(s, With(s, "kept"))
       \/ \E work \in {"kept", "undone"} : Ends(s, With(s, work), "failed")
    /\ UNCHANGED <<registryVars, userVars, pinVars>>

CloseSession(s) ==
    /\ At(s, "close") /\ (Advances(s) \/ Throws(s)) /\ UNCHANGED <<registryVars, userVars, pinVars>>

-----------------------------------------------------------------------------
(* CallRegistry.  Cursors are numbered from 1 in the order they came in.   *)
FreshCallId ==
    LET id(i) == (next_call_id + i) % (MaximumCallId + 1)
    IN  id(Min({i \in 0..MaximumCallId : id(i) # 0 /\ id(i) \notin DOMAIN calls}))

Register(s) ==
    /\ At(s, "register")
    /\ LET owned == statement[s].owned   count == Cardinality(owned)
       IN  CASE owned = {} -> Advances(s) /\ UNCHANGED registryVars
             [] count > MaximumOpenCursors - open_cursor_count -> Throws(s) /\ UNCHANGED registryVars
             [] OTHER -> /\ calls' = [id \in DOMAIN calls \cup {FreshCallId} |->
                                        IF id = FreshCallId THEN [k \in 1..count |-> <<s, k>>] ELSE calls[id]]
                         /\ next_call_id' = (FreshCallId + 1) % (MaximumCallId + 1)
                         /\ open_cursor_count' = open_cursor_count + count
                         /\ Goes(s, [statement EXCEPT ![s].owned = {}])
    /\ UNCHANGED <<userVars, pinVars>>

Without(f, key) == [x \in DOMAIN f \ {key} |-> f[x]]

TakenFrom(id, k) ==
    calls' = IF DOMAIN calls[id] = {k} THEN Without(calls, id)
             ELSE [calls EXCEPT ![id] = Without(calls[id], k)]

(* oracle_cursor takes its cursor when it is bound.                        *)
Take(s, id, k) ==
    /\ At(s, "take")
    /\ IF id \in DOMAIN calls /\ k \in DOMAIN calls[id]
       THEN /\ TakenFrom(id, k)
            /\ open_cursor_count' = open_cursor_count - 1
            /\ Goes(s, [statement EXCEPT ![s].owned = {calls[id][k]}])
            /\ UNCHANGED next_call_id
       ELSE Throws(s) /\ UNCHANGED registryVars
    /\ UNCHANGED <<userVars, pinVars>>

ReadCursor(s) ==
    /\ At(s, "fetch") /\ (Advances(s) \/ Throws(s)) /\ UNCHANGED <<registryVars, userVars, pinVars>>

Close_KeepsCounting(id) ==      \* bug: the count goes down only when a cursor is taken
    calls' = Without(calls, id) /\ UNCHANGED open_cursor_count

ClosedIn(id) ==
    /\ calls' = Without(calls, id)
    /\ open_cursor_count' = open_cursor_count - Cardinality(DOMAIN calls[id])

(* oracle_close_call closes what is left of a call.                        *)
CloseCall(s, id) ==
    /\ At(s, "closecall")
    /\ IF id \in DOMAIN calls
       THEN /\ ClosedIn(id)
            /\ opened' = opened \ Range(calls[id])
            /\ statement' = Settled([statement EXCEPT ![s].answer = "success"], opened')
       ELSE Advances(s) /\ UNCHANGED <<calls, open_cursor_count>>
    /\ UNCHANGED <<next_call_id, userVars, pinVars>>

(* The connection is closed: ~CallRegistry.                                *)
CloseAll ==
    /\ NobodyExecutes /\ calls # <<>>
    /\ calls' = <<>> /\ open_cursor_count' = 0
    /\ opened' = opened \ UNION {Range(calls[id]) : id \in DOMAIN calls}
    /\ statement' = Settled(statement, opened')
    /\ UNCHANGED <<next_call_id, userVars, pinVars>>

-----------------------------------------------------------------------------
(* The functions of a transaction share its pinned session.  Whatever one  *)
(* of them throws after "pin" has begun poisons the session: it is closed, *)
(* and the transaction can only be rolled back.                            *)
InItsTransaction(s) == Keeps(s) = "transaction" /\ statement[s].work = "pending"

Resolved(all, outcome) ==
    [s \in Statements |-> IF InItsTransaction(s) THEN [all[s] EXCEPT !.work = outcome] ELSE all[s]]

PoisonTransactionSession_NoMark ==  \* bug: the session goes, the transaction may continue
    pinned' = NotPinned /\ UNCHANGED <<failed, pooled>>

PoisonTransactionSession == pinned' = NotPinned /\ failed' = TRUE /\ UNCHANGED pooled

ThrowsPoisoning(s) ==
    /\ Ends(s, Resolved([statement EXCEPT ![s].transaction = transaction], "undone"), "failed")
    /\ PoisonTransactionSession

Pin(s) ==
    /\ At(s, "pin")
    /\ \/ /\ ~failed
          /\ pinned' = [pinned EXCEPT !.held = TRUE]
          /\ pooled' = IF pinned.held THEN pooled ELSE "none"
          /\ Advances(s) /\ UNCHANGED failed
       \/ (failed \/ ~pinned.held) /\ ThrowsPoisoning(s)
    /\ UNCHANGED <<registryVars, userVars>>

Taint(s) ==
    /\ At(s, "taint") /\ Advances(s)
    /\ pinned' = [pinned EXCEPT !.tainted = pinned.held]
    /\ UNCHANGED <<failed, pooled, registryVars, userVars>>

RunPinned(s) ==
    /\ At(s, "run") /\ Keeps(s) = "transaction"
    /\ \/ /\ pinned.held
          /\ \E given, implicit \in 0..MaximumReturned : Answered(s, given, implicit)
          /\ pinned' = [pinned EXCEPT !.dirty = @ \/ statement[s].function.dirties]
          /\ UNCHANGED <<failed, pooled>>
       \/ ThrowsPoisoning(s)
    /\ UNCHANGED <<registryVars, userVars>>

MatchPinned(s) ==
    /\ At(s, "match") /\ Keeps(s) = "transaction"
    /\ \/ IsExpected(s) /\ Advances(s) /\ UNCHANGED pinVars
       \/ ThrowsPoisoning(s)
    /\ UNCHANGED <<registryVars, userVars>>

CheckInterrupt(s) ==
    /\ At(s, "check")
    /\ (Advances(s) /\ UNCHANGED pinVars) \/ ThrowsPoisoning(s)
    /\ UNCHANGED <<registryVars, userVars>>

-----------------------------------------------------------------------------
(* Between statements.                                                     *)
Begin ==
    /\ NobodyExecutes /\ ~explicit /\ ~pinned.held /\ ~failed /\ explicit' = TRUE
    /\ UNCHANGED <<statement, opened, registryVars, writable, transaction, pinVars>>

ReattachReadOnly ==
    /\ NobodyExecutes /\ ~explicit /\ ~pinned.held /\ ~failed /\ writable /\ writable' = FALSE
    /\ UNCHANGED <<statement, opened, registryVars, explicit, transaction, pinVars>>

(* COMMIT or ROLLBACK, the user's or that of a statement of its own.  A    *)
(* session whose end is acknowledged is used again unless it is tainted.   *)
EndTransaction(outcome, acknowledged) ==
    /\ NobodyExecutes /\ (explicit \/ pinned.held \/ failed) /\ transaction < MaximumTransactions
    /\ outcome = "kept" => ~failed
    /\ statement' = Resolved(statement, outcome)
    /\ pooled' = IF ~pinned.held \/ ~acknowledged \/ pinned.tainted THEN pooled
                 ELSE IF pinned.dirty THEN "dirty" ELSE "clean"
    /\ pinned' = NotPinned /\ failed' = FALSE
    /\ explicit' = FALSE /\ transaction' = transaction + 1
    /\ UNCHANGED <<opened, registryVars, writable>>

UserStep ==
    \/ \E s \in Statements : \E function \in program[s] : \E asked \in function.asked :
         BindFunction(s, function, asked)
    \/ Begin \/ ReattachReadOnly \/ CloseAll
    \/ \E outcome \in {"kept", "undone"}, acknowledged \in BOOLEAN : EndTransaction(outcome, acknowledged)

FunctionStep ==
    \E s \in Statements :
         \/ RequireAutoCommit(s) \/ RequireWritable(s) \/ Execute(s) \/ DropPrepared(s)
         \/ OpenSession(s) \/ Run(s) \/ RunDdl(s) \/ Match(s) \/ CommitWork(s) \/ CloseSession(s)
         \/ Register(s) \/ ReadCursor(s)
         \/ \E id \in 1..MaximumCallId : CloseCall(s, id) \/ \E k \in 1..MaximumReturned : Take(s, id, k)
         \/ Pin(s) \/ Taint(s) \/ RunPinned(s) \/ MatchPinned(s) \/ CheckInterrupt(s)

CallsNext == (UserStep \/ FunctionStep) /\ UNCHANGED program

-----------------------------------------------------------------------------
(* Every cursor open at the server is in one hand: the function that       *)
(* received it, the registry under one handle, or the reader that took it; *)
(* and the limit counts the registered ones.                               *)
CursorsAreInOneHand ==
    LET handles == UNION {{<<id, k>> : k \in DOMAIN calls[id]} : id \in DOMAIN calls}
        owners(c) == {s \in Statements : c \in statement[s].owned}
        named(c) == {h \in handles : calls[h[1]][h[2]] = c}
    IN  /\ \A c \in Statements \X (1..MaximumReturned) :
             Cardinality(owners(c)) + Cardinality(named(c)) = IF c \in opened THEN 1 ELSE 0
        /\ open_cursor_count = Cardinality(handles) /\ open_cursor_count <= MaximumOpenCursors
        /\ \A id \in DOMAIN calls : id # 0 /\ calls[id] # <<>>

(* What a function says of its work is so: success means kept, where the   *)
(* function keeps it; failure with the work kept only when the commit's    *)
(* outcome is not known or what followed it failed; and a transaction that *)
(* lost a statement keeps none of the others.  No procedure of a           *)
(* transaction leaves its traces in the session of another one.            *)
AnswersAreSettled ==
    /\ \A s \in Statements : LET u == statement[s] IN
         /\ u.answer = "success" /\ Keeps(s) = "statement" => u.work = "kept"
         /\ u.answer = "failed" /\ u.work = "kept" =>
              \/ Step(s) \in {"ddl", "commit", "close"}
              \/ Step(s) = "register" /\ u.function = OraclePlsql
         /\ Keeps(s) = "nobody" => u.work # "kept"
         /\ Keeps(s) # "transaction" /\ u.work = "pending" => Running(s) \/ \E c \in opened : c[1] = s
         /\ ~u.inside
         /\ \A t \in Statements :
              Keeps(s) = "transaction" /\ Keeps(t) = "transaction" /\ u.transaction = statement[t].transaction
                => ~(u.work = "kept" /\ statement[t].answer = "failed" /\ statement[t].transaction > 0)
    /\ pooled # "dirty"
=============================================================================
