------------------------- MODULE NativeCalls_proofs -------------------------
(***************************************************************************)
(* Proofs about NativeCalls for any number of callers that share a         *)
(* session, any bounds on statements, requests, cancellations and          *)
(* failures, and callers that stop at a failure or do not.                 *)
(***************************************************************************)
EXTENDS NativeCalls, SequenceTheorems, WellFoundedInduction, TLAPS

(***************************************************************************)
(* What is true of every state: the messages, who holds what, and how the  *)
(* exchange of markers and that of calls and answers stand.                *)
(***************************************************************************)
CallKinds == AllOperations \cup {"Fetch", "Lob"}

CallMessages ==
    [type : {"CALL"}, request : 1..MaximumRequests, kind : CallKinds, closes : SUBSET CursorIds,
     cursor : CursorIds \cup {0}]

Markers == {INTERRUPT, RESET}

(* The cursors an answer tells of: that of the statement that was run, and *)
(* one that a block returned.                                              *)
Answers ==
    {m \in [type : {"ANSWER"}, request : 1..MaximumRequests, kind : CallKinds,
            outcome : {"ok", "error", "ORA-01013"}, cursor : CursorIds \cup {0},
            result : CursorIds \cup {0}, exhausted : BOOLEAN] :
        /\ m.outcome = "ok" /\ m.kind \in Statements => m.cursor # 0
        /\ m.kind \notin Statements => m.cursor = 0
        /\ m.kind # "Call" => m.result = 0
        /\ m.cursor = m.result => m.cursor = 0}

Cancelled == {m \in Answers : m.outcome = "ORA-01013"}

Messages == requests \in Seq(CallMessages \cup Markers) /\ responses \in Seq(Answers \cup {RESET})

(* No, or at most one message of a set is on its way.                      *)
None(queue, S) == ToSet(queue) \cap S = {}

Single(queue, S) == \A i, j \in 1..Len(queue) : queue[i] \in S /\ queue[j] \in S => i = j

(* Requests are numbered in the order they are sent, and a cursor the      *)
(* server has opened for the first k of them is one of the first 2 * k.    *)
Ascending(queue) ==
    \A i, j \in 1..Len(queue) :
        i < j /\ queue[i] \in CallMessages /\ queue[j] \in CallMessages
            => queue[i].request < queue[j].request

Numbered ==
    /\ Ascending(requests)
    /\ \A m \in ToSet(requests) \cap CallMessages : m.request <= sent
    /\ \E k \in 0..sent :
         /\ server_cursors \subseteq 1..(2 * k)
         /\ \A m \in ToSet(requests) \cap CallMessages : m.request > k
         /\ server.state # "idle" =>
              /\ k < server.request /\ server.request <= sent
              /\ \A m \in ToSet(requests) \cap CallMessages : m.request > server.request

ServerTyped ==
    /\ server.state = "idle" => server = [ServerIdle EXCEPT !.interrupted = server.interrupted]
    /\ server.state # "idle" => server.kind \in CallKinds /\ ~server.interrupted

(* Who is in an exchange has the call lock, and what its statement is.     *)
InHand(c) ==
    /\ call[c].at \in {"idle", "lock", "close"} => call[c].request = 0 /\ call[c].answer = 0
    /\ call[c].at = "receive" =>
          /\ call_mutex = c
          /\ call[c].kind \in CallKinds
          /\ call[c].op = "ExecuteAdmin" => call[c].kind = "ExecuteAdmin"
          /\ call[c].kind \in Statements =>
                call[c].handle \in Handles /\ statements[call[c].handle].state = "OPEN"
          /\ call[c].kind \in {"Fetch", "Lob"} <=> call[c].op = "Fetch"
          /\ call[c].kind \in {"Fetch", "Lob"} =>
                call[c].handle \in Handles /\ owner[call[c].handle] = c
          /\ call[c].kind = "Fetch" => statements[call[c].handle].state = "FETCHING"
    /\ call[c].at = "complete" =>
          /\ call[c].op = "Fetch" => call_mutex = c /\ call[c].handle \in Handles
          /\ call[c].handle # 0 => owner[call[c].handle] = c
    /\ call[c].at = "close" => call[c].handle \in Handles /\ owner[call[c].handle] = c

Handling == \A c \in Callers : InHand(c)

(* Only an executed statement has a cursor object, and a statement whose   *)
(* failure nobody has noted has none.                                      *)
Owned ==
    \A h \in Handles :
        /\ statements[h].state \in {"CLOSED", "OPEN"} =>
              owner[h] = NoCaller /\ statements[h].remote_cursor_id = 0
        /\ owner[h] # NoCaller => statements[h].remote_cursor_id # 0
        /\ statements[h].state = "POISONED" /\ ~exchange_failed => owner[h] = NoCaller

(* A closed session is left alone.                                         *)
Shut ==
    ~open =>
        /\ statements = [h \in Handles |-> Closed]
        /\ owner = [h \in Handles |-> NoCaller]
        /\ call_mutex = NoCaller
        /\ cancellation_requested = FALSE
        /\ pending_close_cursors = {}
        /\ call = [d \in Callers |-> Outside]
        /\ requests = <<>>
        /\ responses = <<>>
        /\ server = ServerIdle
        /\ server_cursors = {}

(* The markers of the two sides, and the answer that ends the exchange,    *)
(* while they are on their way.                                            *)
InterruptOut == ~None(requests, {INTERRUPT})

ResetOut == ~None(requests, {RESET})

ResetBack == ~None(responses, {RESET})

CancelledBack == ~None(responses, Cancelled)

(* As long as the session may be usable again there is one cancellation,   *)
(* at one stage: the interrupt is on its way, is kept for the next call,   *)
(* was lost, has stopped the call, or is answered.                         *)
Cancelling ==
    ~unusable =>
        /\ Single(requests, Markers)
        /\ Single(responses, {RESET} \cup Cancelled)
        /\ InterruptOut \/ ResetOut => ~ResetBack /\ ~CancelledBack
        /\ InterruptOut => cancellation_requested /\ ~server.interrupted /\ server.state # "reset"
        /\ ResetOut => ~cancellation_requested /\ server.state = "reset"
        /\ ResetBack => cancellation_requested /\ server.state = "reset"
        /\ CancelledBack => ~cancellation_requested /\ ~server.interrupted /\ server.state # "reset"
        /\ server.interrupted => cancellation_requested /\ ~InterruptOut
        /\ server.state = "reset" => ResetBack \/ ResetOut
        /\ ~pending => /\ ~cancellation_requested /\ ~InterruptOut /\ ~CancelledBack
                       /\ server.state # "reset"

Asked == ToSet(requests) \cap CallMessages

Given == ToSet(responses) \cap Answers

(* Until an exchange fails there is at most one call, its caller waits for *)
(* it, and it is on its way, at the server, or answered.                   *)
InStep ==
    ~Broken =>
        /\ Single(requests, CallMessages)
        /\ Single(responses, Answers)
        /\ server.state # "idle" => Asked = {} /\ Given = {}
        /\ Asked = {} \/ Given = {}
        /\ Asked # {} \/ Given # {} \/ server.state # "idle" =>
              \E c \in Callers : call[c].at = "receive"
        /\ \A c \in Callers : call[c].at = "receive" =>
              /\ \A m \in Asked \cup Given : m.request = call[c].request
              /\ server.state # "idle" => server.request = call[c].request
        /\ \A c \in Callers : call[c].at = "complete" => call[c].answer = call[c].request

(* The cursor of a statement, and those of all.                            *)
Remote(h) == statements[h].remote_cursor_id

Remotes == {Remote(h) : h \in Handles} \ {0}

Distinct == \A g, h \in Handles : Remote(g) = Remote(h) => g = h \/ Remote(g) = 0

Told(m) == {m.cursor, m.result} \ {0}

(* Until then each cursor of the server is a statement's, waits to be      *)
(* closed, travels with a request that closes it, or with the answer that  *)
(* tells of it, and is in one of these places only.                        *)
Accounts ==
    ~Broken =>
        /\ Distinct
        /\ Remotes \cap pending_close_cursors = {}
        /\ Remotes \cup pending_close_cursors \subseteq server_cursors
        /\ \A c \in Callers : call[c].at = "receive" => pending_close_cursors = {}
        /\ \A m \in Asked : m.closes \cap (Remotes \cup pending_close_cursors) = {}
        /\ \A m \in Given : /\ Told(m) \subseteq server_cursors
                            /\ Told(m) \cap (Remotes \cup pending_close_cursors) = {}
        /\ (\A m \in Given : m.outcome = "ok") =>
              \A id \in server_cursors :
                 \/ id \in Remotes \cup pending_close_cursors
                 \/ \E m \in Asked : id \in m.closes
                 \/ \E m \in Given : id \in Told(m)

IInv == TypeOK /\ Messages /\ Numbered /\ ServerTyped /\ Handling /\ Owned

-----------------------------------------------------------------------------
(* Queues                                                                  *)

LEMMA SetOfQueue ==
    ASSUME NEW S, NEW q \in Seq(S)
    PROVE  ToSet(q) = {q[i] : i \in 1..Len(q)} /\ ToSet(q) \subseteq S /\ Len(q) \in Nat
BY DEF ToSet

LEMMA EmptyQueue ==
    /\ \A S : <<>> \in Seq(S)
    /\ \A T : None(<<>>, T) /\ Single(<<>>, T)
    /\ ToSet(<<>>) = {}
    /\ Ascending(<<>>)
BY DEF ToSet, None, Single, Ascending

LEMMA Put ==
    ASSUME NEW S, NEW q \in Seq(S), NEW e \in S
    PROVE  /\ Append(q, e) \in Seq(S)
           /\ ToSet(Append(q, e)) = ToSet(q) \cup {e}
<1>1. /\ Append(q, e) \in Seq(S) /\ Len(Append(q, e)) = Len(q) + 1 /\ Len(q) \in Nat
      /\ \A i \in 1..Len(q) : Append(q, e)[i] = q[i]
      /\ Append(q, e)[Len(q) + 1] = e
  OBVIOUS
<1>2. ToSet(Append(q, e)) = {Append(q, e)[i] : i \in 1..Len(q) + 1}
  BY <1>1, SetOfQueue
<1>3. ToSet(q) = {q[i] : i \in 1..Len(q)}
  BY SetOfQueue
<1>4. 1..Len(q) + 1 = 1..Len(q) \cup {Len(q) + 1}
  BY <1>1
<1> QED
  BY <1>1, <1>2, <1>3, <1>4

LEMMA PutSingle ==
    ASSUME NEW S, NEW q \in Seq(S), NEW e \in S, NEW T,
           Single(q, T), e \notin T \/ None(q, T)
    PROVE  Single(Append(q, e), T)
<1>1. /\ Len(Append(q, e)) = Len(q) + 1 /\ Len(q) \in Nat
      /\ \A i \in 1..Len(q) : Append(q, e)[i] = q[i]
      /\ Append(q, e)[Len(q) + 1] = e
  OBVIOUS
<1>2. e \in T => \A i \in 1..Len(q) : q[i] \notin T
  BY SetOfQueue DEF None
<1> SUFFICES ASSUME NEW i \in 1..Len(q) + 1, NEW j \in 1..Len(q) + 1,
                    Append(q, e)[i] \in T, Append(q, e)[j] \in T
             PROVE  i = j
  BY <1>1 DEF Single
<1>3. CASE i \in 1..Len(q) /\ j \in 1..Len(q)
  BY <1>1, <1>3 DEF Single
<1>4. CASE i = Len(q) + 1 /\ j \in 1..Len(q)
  BY <1>1, <1>2, <1>4
<1>5. CASE j = Len(q) + 1 /\ i \in 1..Len(q)
  BY <1>1, <1>2, <1>5
<1> QED
  BY <1>1, <1>3, <1>4, <1>5

LEMMA Take ==
    ASSUME NEW S, NEW q \in Seq(S), q # <<>>
    PROVE  /\ Tail(q) \in Seq(S)
           /\ Head(q) \in S
           /\ ToSet(q) = {Head(q)} \cup ToSet(Tail(q))
<1>1. /\ Tail(q) \in Seq(S) /\ Len(Tail(q)) = Len(q) - 1 /\ Len(q) \in Nat \ {0}
      /\ \A i \in 1..Len(q) - 1 : Tail(q)[i] = q[i + 1]
      /\ Head(q) = q[1] /\ Head(q) \in S
  OBVIOUS
<1>2. ToSet(Tail(q)) = {q[i + 1] : i \in 1..Len(q) - 1}
  <2>1. ToSet(Tail(q)) = {Tail(q)[i] : i \in 1..Len(Tail(q))}
    BY <1>1, SetOfQueue
  <2> QED
    BY <1>1, <2>1
<1>3. ToSet(q) = {q[i] : i \in 1..Len(q)}
  BY SetOfQueue
<1>4. \A i \in 1..Len(q) : i = 1 \/ (i - 1 \in 1..Len(q) - 1 /\ i = (i - 1) + 1)
  BY <1>1
<1>5. \A i \in 1..Len(q) - 1 : i + 1 \in 1..Len(q)
  BY <1>1
<1>6. 1 \in 1..Len(q)
  BY <1>1
<1>7. ToSet(q) \subseteq {Head(q)} \cup ToSet(Tail(q))
  <2> SUFFICES ASSUME NEW i \in 1..Len(q) PROVE q[i] \in {Head(q)} \cup ToSet(Tail(q))
    BY <1>3
  <2>1. CASE i = 1
    BY <1>1, <2>1
  <2>2. CASE i # 1
    BY <1>2, <1>4, <2>2
  <2> QED
    BY <2>1, <2>2
<1>8. {Head(q)} \cup ToSet(Tail(q)) \subseteq ToSet(q)
  BY <1>1, <1>2, <1>3, <1>5, <1>6
<1> QED
  BY <1>1, <1>7, <1>8

LEMMA TakeSingle ==
    ASSUME NEW S, NEW q \in Seq(S), q # <<>>, NEW T, Single(q, T)
    PROVE  /\ Single(Tail(q), T)
           /\ Head(q) \in T => None(Tail(q), T)
<1>1. /\ Tail(q) \in Seq(S) /\ Len(Tail(q)) = Len(q) - 1 /\ Len(q) \in Nat \ {0}
      /\ \A i \in 1..Len(q) - 1 : Tail(q)[i] = q[i + 1] /\ i + 1 \in 1..Len(q) /\ i + 1 # 1
      /\ Head(q) = q[1] /\ 1 \in 1..Len(q)
  OBVIOUS
<1>2. Single(Tail(q), T)
  <2> SUFFICES ASSUME NEW i \in 1..Len(q) - 1, NEW j \in 1..Len(q) - 1,
                      Tail(q)[i] \in T, Tail(q)[j] \in T
               PROVE  i = j
    BY <1>1 DEF Single
  <2>1. i + 1 = j + 1
    BY <1>1 DEF Single
  <2> QED
    BY <2>1
<1>3. ASSUME Head(q) \in T PROVE None(Tail(q), T)
  <2>1. ToSet(Tail(q)) = {Tail(q)[i] : i \in 1..Len(Tail(q))}
    <3>1. Tail(q) \in Seq(S)
      BY <1>1
    <3> QED
      BY <3>1, SetOfQueue
  <2>2. \A i \in 1..Len(q) - 1 : Tail(q)[i] \notin T
    BY <1>1, <1>3 DEF Single
  <2> QED
    BY <1>1, <2>1, <2>2 DEF None
<1> QED
  BY <1>2, <1>3

LEMMA PutAscending ==
    ASSUME NEW S, NEW q \in Seq(S), NEW e \in S, Ascending(q),
           e \in CallMessages => \A m \in ToSet(q) \cap CallMessages : m.request < e.request
    PROVE  Ascending(Append(q, e))
<1>1. /\ Len(Append(q, e)) = Len(q) + 1 /\ Len(q) \in Nat
      /\ \A i \in 1..Len(q) : Append(q, e)[i] = q[i]
      /\ Append(q, e)[Len(q) + 1] = e
  OBVIOUS
<1>2. \A i \in 1..Len(q) : e \in CallMessages /\ q[i] \in CallMessages => q[i].request < e.request
  BY SetOfQueue
<1>3. \A i, j \in 1..Len(q) + 1 : i < j => i \in 1..Len(q) /\ (j \in 1..Len(q) \/ j = Len(q) + 1)
  BY <1>1
<1> QED
  BY <1>1, <1>2, <1>3 DEF Ascending

LEMMA TakeAscending ==
    ASSUME NEW S, NEW q \in Seq(S), q # <<>>, Ascending(q)
    PROVE  /\ Ascending(Tail(q))
           /\ Head(q) \in CallMessages =>
                 \A m \in ToSet(Tail(q)) \cap CallMessages : Head(q).request < m.request
<1>1. /\ Tail(q) \in Seq(S) /\ Len(Tail(q)) = Len(q) - 1 /\ Len(q) \in Nat \ {0}
      /\ \A i \in 1..Len(q) - 1 : Tail(q)[i] = q[i + 1] /\ i + 1 \in 1..Len(q) /\ 1 < i + 1
      /\ Head(q) = q[1] /\ 1 \in 1..Len(q)
  OBVIOUS
<1>2. \A i, j \in 1..Len(q) - 1 : i < j => i + 1 < j + 1
  BY <1>1
<1>3. Ascending(Tail(q))
  BY <1>1, <1>2 DEF Ascending
<1>4. ToSet(Tail(q)) = {Tail(q)[i] : i \in 1..Len(q) - 1}
  BY <1>1, SetOfQueue
<1>5. Head(q) \in CallMessages =>
         \A i \in 1..Len(q) - 1 : Tail(q)[i] \in CallMessages => Head(q).request < Tail(q)[i].request
  BY <1>1 DEF Ascending
<1> QED
  BY <1>3, <1>4, <1>5

(* What tells messages apart.                                              *)
LEMMA MessageKinds ==
    /\ INTERRUPT \notin CallMessages /\ RESET \notin CallMessages /\ INTERRUPT # RESET
    /\ RESET \notin Answers
    /\ INTERRUPT.type = "INTERRUPT" /\ RESET.type = "RESET"
    /\ \A m \in CallMessages : m.type = "CALL"
    /\ \A m \in Answers : m.type = "ANSWER"
    /\ Cancelled \subseteq Answers
    /\ \A m \in CallMessages \cup Markers :
         /\ m.type = "CALL" => m \in CallMessages
         /\ m.type = "INTERRUPT" => m = INTERRUPT
         /\ m.type = "RESET" => m = RESET
<1>1. /\ INTERRUPT.type = "INTERRUPT" /\ RESET.type = "RESET"
      /\ \A m \in CallMessages : m.type = "CALL"
      /\ \A m \in Answers : m.type = "ANSWER"
  BY DEF INTERRUPT, RESET, CallMessages, Answers
<1> QED
  BY <1>1 DEF Markers, Cancelled

-----------------------------------------------------------------------------
(* The least element of a set of numbers.                                  *)
LEMMA LeastOf ==
    ASSUME NEW S \in SUBSET Nat, S # {}
    PROVE  Min(S) \in S /\ \A y \in S : Min(S) <= y
<1> DEFINE R == {ss \in Nat \X Nat : ss[1] < ss[2]}
<1>1. OpToRel(<, Nat) = R
  BY DEF OpToRel
<1> HIDE DEF R
<1>2. IsWellFoundedOn(R, Nat)
  BY <1>1, NatLessThanWellFounded, Zenon
<1>3. PICK x \in S : \A y \in S : ~(<<y, x>> \in R)
  BY <1>2, WFMin
<1>4. ASSUME NEW y \in S PROVE x <= y
  <2>1. x \in Nat /\ y \in Nat /\ <<y, x>> \notin R
    BY <1>3
  <2>2. <<y, x>> \in Nat \X Nat /\ <<y, x>>[1] = y /\ <<y, x>>[2] = x
    BY <2>1
  <2>3. ~(y < x)
    BY <2>1, <2>2, Zenon DEF R
  <2> QED
    BY <2>1, <2>3
<1> QED
  BY <1>4 DEF Min

(* The server finds a cursor it does not use.                              *)
LEMMA FreshCursor ==
    ASSUME CallsAssumption, NEW k \in Nat, 2 * k < 2 * MaximumRequests,
           NEW used \in SUBSET CursorIds, NEW n \in {0, 1}, used \subseteq 1..(2 * k + n)
    PROVE  /\ Min(CursorIds \ used) \in CursorIds \ used
           /\ Min(CursorIds \ used) \in 1..(2 * k + n + 1)
           /\ Min(CursorIds \ used) # 0
<1>1. MaximumRequests \in Nat
  BY DEF CallsAssumption
<1>2. 2 * k + n + 1 \in CursorIds \ used
  BY <1>1 DEF CursorIds
<1>3. CursorIds \ used \in SUBSET Nat
  BY <1>1 DEF CursorIds
<1>4. Min(CursorIds \ used) \in CursorIds \ used /\ Min(CursorIds \ used) <= 2 * k + n + 1
  BY <1>2, <1>3, LeastOf
<1> QED
  BY <1>1, <1>4 DEF CursorIds

-----------------------------------------------------------------------------
(* Types                                                                   *)

LEMMA OutsideTyped ==
    ASSUME NEW f \in BOOLEAN
    PROVE  [Outside EXCEPT !.failed = f] \in
              [at : Locations, op : Operations \cup {"Fetch", "none"}, handle : Handles \cup {0},
               kind : Kinds, request : Requests, answer : Requests, failed : BOOLEAN]
<1>1. 0 \in Requests
  BY CallsAssumption DEF Requests, CallsAssumption
<1> QED
  BY <1>1 DEF Outside, Locations, Kinds

(* The parts of TypeOK, by what the steps change.                          *)
CallTyped ==
    call \in [Callers -> [at : Locations, op : Operations \cup {"Fetch", "none"},
                          handle : Handles \cup {0}, kind : Kinds,
                          request : Requests, answer : Requests, failed : BOOLEAN]]

StatementsTyped ==
    /\ statements \in [Handles -> [state : States, remote_cursor_id : CursorIds \cup {0}]]
    /\ owner \in [Handles -> Callers \cup {NoCaller}]
    /\ pending_close_cursors \subseteq CursorIds

FlagsTyped ==
    /\ {open, exchange_failed, pending, unusable, cancellation_requested} \subseteq BOOLEAN
    /\ call_mutex \in Callers \cup {NoCaller}

ServerSideTyped ==
    /\ server \in [state : {"idle", "running", "reset"}, request : Requests, kind : Kinds,
                   cursor : CursorIds \cup {0}, interrupted : BOOLEAN]
    /\ server_cursors \subseteq CursorIds

BoundsTyped ==
    /\ sent \in 0..MaximumRequests
    /\ cancels \in 0..MaximumCancels
    /\ failures \in 0..MaximumFailures

LEMMA TypeOKParts ==
    TypeOK <=> CallTyped /\ StatementsTyped /\ FlagsTyped /\ ServerSideTyped /\ BoundsTyped
BY DEF TypeOK, CallTyped, StatementsTyped, FlagsTyped, ServerSideTyped, BoundsTyped

LEMMA TypeOKPartsNext ==
    (CallTyped /\ StatementsTyped /\ FlagsTyped /\ ServerSideTyped /\ BoundsTyped)' => TypeOK'
BY TypeOKParts, PTL

LEMMA TypeOKInit == Init => TypeOK
<1>1. Outside \in [at : Locations, op : Operations \cup {"Fetch", "none"}, handle : Handles \cup {0},
                   kind : Kinds, request : Requests, answer : Requests, failed : BOOLEAN]
  BY CallsAssumption DEF Outside, Locations, Kinds, Requests, CallsAssumption
<1> SUFFICES ASSUME Init PROVE TypeOK
  OBVIOUS
<1>2. CallTyped
  BY <1>1 DEF Init, CallTyped
<1>3. StatementsTyped
  BY DEF Init, StatementsTyped, Closed, States
<1>4. FlagsTyped
  BY DEF Init, FlagsTyped
<1>5. ServerSideTyped
  BY CallsAssumption DEF Init, ServerSideTyped, ServerIdle, Kinds, Requests, CallsAssumption
<1>6. BoundsTyped
  BY CallsAssumption DEF Init, BoundsTyped, CallsAssumption
<1> QED
  BY <1>2, <1>3, <1>4, <1>5, <1>6, TypeOKParts

CallRecords ==
    [at : Locations, op : Operations \cup {"Fetch", "none"}, handle : Handles \cup {0},
     kind : Kinds, request : Requests, answer : Requests, failed : BOOLEAN]

LEMMA CallTypedStep ==
    ASSUME TypeOK, Messages, [Next]_vars
    PROVE  CallTyped'
<1>1. CallTyped /\ BoundsTyped /\ StatementsTyped /\ call \in [Callers -> CallRecords]
  BY TypeOKParts DEF CallTyped, CallRecords
<1>2. (call' \in [Callers -> CallRecords]) => CallTyped'
  BY DEF CallTyped, CallRecords
<1>3. ASSUME NEW c \in Callers, Throw(c) PROVE CallTyped'
  <2>1. [Outside EXCEPT !.failed = CallersPoison] \in CallRecords
    BY CallsAssumption, OutsideTyped DEF CallsAssumption, CallRecords
  <2> QED
    BY <1>1, <1>2, <1>3, <2>1 DEF Throw
<1>4. ASSUME NEW c \in Callers, Leave(c) PROVE CallTyped'
  <2>1. call[c].failed \in BOOLEAN
    BY <1>1 DEF CallRecords
  <2>2. [Outside EXCEPT !.failed = call[c].failed] \in CallRecords
    BY <2>1, OutsideTyped DEF CallRecords
  <2> QED
    BY <1>1, <1>2, <1>4, <2>2 DEF Leave
<1>5. ASSUME NEW c \in Callers, NEW h \in Handles \cup {0}, Answered(c), Head(responses) \in Answers,
             Done(c, h)
      PROVE  CallTyped'
  <2>1. Head(responses).request \in Requests
    BY <1>5, CallsAssumption DEF Answers, Requests, CallsAssumption
  <2>2. [call[c] EXCEPT !.at = "complete", !.handle = h, !.answer = Head(responses).request]
           \in CallRecords
    BY <1>1, <2>1 DEF CallRecords, Locations
  <2> QED
    BY <1>1, <1>2, <1>5, <2>2 DEF Done
<1>6. ASSUME NEW c \in Callers, NEW op \in Operations \cup {"Fetch"}, NEW kind \in Kinds,
             NEW h \in Handles \cup {0}, Send(c, op, kind, h)
      PROVE  CallTyped'
  <2>1. sent + 1 \in Requests /\ 0 \in Requests
    BY <1>1, <1>6, CallsAssumption DEF Send, BoundsTyped, Requests, CallsAssumption
  <2>2. [call[c] EXCEPT !.at = "receive", !.op = op, !.kind = kind, !.handle = h,
                        !.request = sent + 1, !.answer = 0] \in CallRecords
    BY <1>1, <2>1 DEF CallRecords, Locations
  <2> QED
    BY <1>1, <1>2, <1>6, <2>2 DEF Send
<1>7. \A c \in Callers : call[c].handle \in Handles \cup {0} /\ call[c].op \in Operations \cup {"Fetch", "none"}
  BY <1>1 DEF CallRecords
<1>8. \A c \in Callers : Answered(c) => Head(responses) \in Answers
  BY Take DEF Answered, Messages
<1>9. AllOperations \cup {"Fetch", "Lob"} \subseteq Kinds /\ Operations \subseteq Kinds
  BY CallsAssumption DEF CallsAssumption, Kinds
<1>10. CASE UNCHANGED call
  BY <1>1, <1>10 DEF CallTyped
<1>11. ASSUME NEW c \in Callers, Begin(c) PROVE CallTyped'
  <2>1. [call[c] EXCEPT !.at = "lock"] \in CallRecords
    BY <1>1 DEF CallRecords, Locations
  <2> QED
    BY <1>1, <1>2, <1>11, <2>1 DEF Begin
<1>12. ASSUME NEW c \in Callers, BeginRefused(c) \/ FetchRefused(c) \/ ReceiveFails(c) \/ ReceiveError(c)
       PROVE  CallTyped'
  BY <1>3, <1>12 DEF BeginRefused, FetchRefused, ReceiveFails, ReceiveError, Fail
<1>13. ASSUME NEW c \in Callers, EnterStatement(c) PROVE CallTyped'
  <2>1. ASSUME NEW op \in Operations \cap Statements, Entries # Handles
        PROVE  Min(Handles \ Entries) \in Handles
    <3>1. Handles \ Entries # {} /\ Handles \ Entries \in SUBSET Nat
      BY <2>1, CallsAssumption DEF Entries, Handles, CallsAssumption
    <3> QED
      BY <3>1, LeastOf
  <2> QED
    BY <1>3, <1>6, <1>9, <1>13, <2>1 DEF EnterStatement, SendFails, Fail
<1>14. ASSUME NEW c \in Callers, EnterTransaction(c) PROVE CallTyped'
  <2>1. "Commit" \in Kinds
    BY DEF Kinds, AllOperations
  <2> QED
    BY <1>3, <1>6, <1>14, <2>1 DEF EnterTransaction, SendFails, Fail
<1>15. ASSUME NEW c \in Callers, EnterFetch(c) PROVE CallTyped'
  <2>1. PICK h \in Handles :
           \/ call' = [call EXCEPT ![c] = [@ EXCEPT !.at = "complete", !.op = "Fetch", !.handle = h]]
           \/ Send(c, "Fetch", "Fetch", h)
           \/ SendFails(c, "Fetch")
           \/ Fail(c, "Fetch", FALSE)
    BY <1>15 DEF EnterFetch
  <2>2. [call[c] EXCEPT !.at = "complete", !.op = "Fetch", !.handle = h] \in CallRecords
    BY <1>1 DEF CallRecords, Locations
  <2>3. CASE call' = [call EXCEPT ![c] = [@ EXCEPT !.at = "complete", !.op = "Fetch", !.handle = h]]
    BY <1>1, <1>2, <2>2, <2>3
  <2> QED
    BY <1>3, <1>6, <1>9, <2>1, <2>3 DEF SendFails, Fail
<1>16. ASSUME NEW c \in Callers, ReadLob(c) PROVE CallTyped'
  BY <1>3, <1>6, <1>7, <1>9, <1>16 DEF ReadLob, SendFails, Fail
<1>17. ASSUME NEW c \in Callers, ReceiveReset(c) PROVE CallTyped'
  BY <1>10, <1>17 DEF ReceiveReset
<1>18. ASSUME NEW c \in Callers,
              ReceiveQuery(c) \/ ReceiveExecuted(c) \/ ReceiveCall(c) \/ ReceiveRows(c) \/ ReceiveStatus(c)
       PROVE  CallTyped'
  <2>1. Answered(c)
    BY <1>18 DEF ReceiveQuery, ReceiveExecuted, ReceiveCall, ReceiveRows, ReceiveStatus
  <2>2. \/ Leave(c)
        \/ \E h \in Handles \cup {0} : Done(c, h)
    BY <1>7, <1>18 DEF ReceiveQuery, ReceiveExecuted, ReceiveCall, ReceiveRows, ReceiveStatus
  <2> QED
    BY <1>4, <1>5, <1>8, <2>1, <2>2
<1>19. ASSUME NEW c \in Callers, Complete(c) \/ CursorClosed(c) PROVE CallTyped'
  BY <1>3, <1>4, <1>19 DEF Complete, CursorClosed
<1>20. ASSUME NEW c \in Callers, CursorClose(c) PROVE CallTyped'
  <2>1. PICK h \in Handles : call' = [call EXCEPT ![c].at = "close", ![c].handle = h] \/ UNCHANGED call
    BY <1>20 DEF CursorClose
  <2>2. [call[c] EXCEPT !.at = "close", !.handle = h] \in CallRecords
    BY <1>1 DEF CallRecords, Locations
  <2> QED
    BY <1>1, <1>2, <1>10, <2>1, <2>2
<1>21. ASSUME NEW c \in Callers, Close(c) PROVE CallTyped'
  <2>1. Outside \in CallRecords
    BY CallsAssumption DEF Outside, CallRecords, Locations, Kinds, Requests, CallsAssumption
  <2> QED
    BY <1>2, <1>21, <2>1 DEF Close
<1>22. ASSUME Cancel \/ Server PROVE CallTyped'
  BY <1>10, <1>22 DEF Cancel, Server, ServerTakes, ServerAnswers, ServerInterrupted,
     ServerInterruptedIdle, ServerResets, clientVars
<1>23. CASE UNCHANGED vars
  BY <1>10, <1>23 DEF vars
<1> QED
  BY <1>11, <1>12, <1>13, <1>14, <1>15, <1>16, <1>17, <1>18, <1>19, <1>20, <1>21, <1>22, <1>23
  DEF Next, Operate, Receive

(* Which handle an operation has in hand.                                  *)
LEMMA HandleInHand ==
    ASSUME Handling, NEW c \in Callers
    PROVE  /\ call[c].at = "receive" /\ call[c].kind \in Statements \cup {"Fetch"} =>
                 call[c].handle \in Handles
           /\ call[c].at = "close" => call[c].handle \in Handles /\ owner[call[c].handle] = c
BY DEF Handling, InHand

LEMMA StatementsTypedStep ==
    ASSUME TypeOK, Messages, Handling, Owned, [Next]_vars
    PROVE  StatementsTyped'
<1>1. StatementsTyped
  BY TypeOKParts
<1>2. CASE UNCHANGED <<statements, owner, pending_close_cursors>>
  BY <1>1, <1>2 DEF StatementsTyped
<1>3. \A h \in Handles, state \in States :
         [statements EXCEPT ![h].state = state]
            \in [Handles -> [state : States, remote_cursor_id : CursorIds \cup {0}]]
  BY <1>1 DEF StatementsTyped
<1>4. \A h \in Handles :
         [statements EXCEPT ![h] = Closed]
            \in [Handles -> [state : States, remote_cursor_id : CursorIds \cup {0}]]
  BY <1>1 DEF StatementsTyped, Closed, States
<1>5. ASSUME NEW c \in Callers, EnterStatement(c) PROVE StatementsTyped'
  <2>1. UNCHANGED owner /\ pending_close_cursors' \in {pending_close_cursors, {}}
    BY <1>5 DEF EnterStatement, Send, SendFails
  <2>2. CASE UNCHANGED statements
    BY <1>1, <2>1, <2>2 DEF StatementsTyped
  <2>3. CASE /\ Entries # Handles
             /\ \E state \in {"OPEN", "POISONED"} :
                   statements' = [statements EXCEPT ![Min(Handles \ Entries)].state = state]
    <3>1. Min(Handles \ Entries) \in Handles
      <4>1. Handles \ Entries # {} /\ Handles \ Entries \in SUBSET Nat
        BY <2>3, CallsAssumption DEF Entries, Handles, CallsAssumption
      <4> QED
        BY <4>1, LeastOf
    <3>2. PICK state \in {"OPEN", "POISONED"} :
             statements' = [statements EXCEPT ![Min(Handles \ Entries)].state = state]
      BY <2>3
    <3>3. state \in States
      BY DEF States
    <3>4. statements' \in [Handles -> [state : States, remote_cursor_id : CursorIds \cup {0}]]
      BY <1>3, <3>1, <3>2, <3>3
    <3> QED
      BY <1>1, <2>1, <3>4 DEF StatementsTyped
  <2> QED
    BY <1>5, <2>2, <2>3 DEF EnterStatement
<1>6. ASSUME NEW c \in Callers, EnterTransaction(c) \/ ReadLob(c) PROVE StatementsTyped'
  <2>1. UNCHANGED <<statements, owner>> /\ pending_close_cursors' \in {pending_close_cursors, {}}
    BY <1>6 DEF EnterTransaction, ReadLob, Send, SendFails, registry
  <2> QED
    BY <1>1, <2>1 DEF StatementsTyped
<1>7. ASSUME NEW c \in Callers, EnterFetch(c) PROVE StatementsTyped'
  <2>1. UNCHANGED owner /\ pending_close_cursors' \in {pending_close_cursors, {}}
    BY <1>7 DEF EnterFetch, Send, SendFails
  <2>2. \/ UNCHANGED statements
        \/ \E h \in Handles, state \in States : statements' = [statements EXCEPT ![h].state = state]
    BY <1>7 DEF EnterFetch, States
  <2> QED
    BY <1>1, <1>3, <2>1, <2>2 DEF StatementsTyped
<1>8. ASSUME NEW c \in Callers, ReceiveFails(c) \/ ReceiveError(c) PROVE StatementsTyped'
  <2>1. UNCHANGED <<owner, pending_close_cursors>> /\ call[c].at = "receive" /\ Poison(c)
    BY <1>8 DEF ReceiveFails, ReceiveError, Answered
  <2>2. statements' \in [Handles -> [state : States, remote_cursor_id : CursorIds \cup {0}]]
    BY <1>1, <1>3, <2>1, HandleInHand DEF Poison, States, StatementsTyped
  <2> QED
    BY <1>1, <2>1, <2>2 DEF StatementsTyped
<1>9. ASSUME NEW c \in Callers,
             ReceiveQuery(c) \/ ReceiveExecuted(c) \/ ReceiveCall(c) \/ ReceiveRows(c)
      PROVE  StatementsTyped'
  <2> DEFINE answer == Head(responses)
             h == call[c].handle
  <2>1. /\ Answered(c) /\ answer.outcome = "ok" /\ answer.kind = call[c].kind
        /\ call[c].kind \in Statements \cup {"Fetch", "Lob"}
    BY <1>9 DEF ReceiveQuery, ReceiveExecuted, ReceiveCall, ReceiveRows, Statements
  <2>2. answer \in Answers
    BY <2>1, Take DEF Answered, Messages
  <2>3. /\ answer.kind \in Statements => answer.cursor \in CursorIds
        /\ answer.result \in CursorIds \cup {0}
    BY <2>1, <2>2 DEF Answers
  <2>4. call[c].kind \in Statements \cup {"Fetch"} => h \in Handles
    BY <2>1, HandleInHand DEF Answered
  <2>5. CASE ReceiveQuery(c)
    BY <1>1, <2>3, <2>4, <2>5 DEF ReceiveQuery, StatementsTyped, Statements, States
  <2>6. CASE ReceiveExecuted(c)
    BY <1>1, <1>4, <2>1, <2>3, <2>4, <2>6 DEF ReceiveExecuted, StatementsTyped, Statements
  <2>7. CASE ReceiveCall(c)
    <3>1. UNCHANGED owner \/ owner' = [owner EXCEPT ![h] = c]
      BY <2>7 DEF ReceiveCall
    <3>2. pending_close_cursors' = pending_close_cursors \cup {answer.cursor}
      BY <2>7 DEF ReceiveCall
    <3>3. \/ statements' = [statements EXCEPT ![h] = Closed]
          \/ statements' = [statements EXCEPT ![h] = [state |-> "EXECUTED",
                                                      remote_cursor_id |-> answer.result]]
      BY <2>7 DEF ReceiveCall
    <3>4. call[c].kind = "Call"
      BY <2>7 DEF ReceiveCall
    <3>5. statements' \in [Handles -> [state : States, remote_cursor_id : CursorIds \cup {0}]]
      BY <1>1, <1>4, <2>3, <2>4, <3>3, <3>4 DEF StatementsTyped, Statements, States
    <3> QED
      BY <1>1, <2>1, <2>3, <3>1, <3>2, <3>4, <3>5 DEF StatementsTyped, Statements
  <2>8. CASE ReceiveRows(c)
    <3>1. UNCHANGED <<owner, pending_close_cursors>>
      BY <2>8 DEF ReceiveRows, channelVars
    <3>2. CASE UNCHANGED statements
      BY <1>2, <3>1, <3>2
    <3>3. CASE h \in Handles /\ statements' = [statements EXCEPT ![h].state = "EXHAUSTED"]
      <4>1. "EXHAUSTED" \in States
        BY DEF States
      <4>2. statements' \in [Handles -> [state : States, remote_cursor_id : CursorIds \cup {0}]]
        BY <1>3, <3>3, <4>1
      <4> QED
        BY <1>1, <3>1, <4>2 DEF StatementsTyped
    <3> QED
      BY <2>1, <2>4, <2>8, <3>2, <3>3 DEF ReceiveRows
  <2> QED
    BY <1>9, <2>5, <2>6, <2>7, <2>8
<1>10. ASSUME NEW c \in Callers, Complete(c) PROVE StatementsTyped'
  BY <1>1, <1>10 DEF Complete, StatementsTyped
<1>11. ASSUME NEW c \in Callers, CursorClose(c) PROVE StatementsTyped'
  BY <1>1, <1>11 DEF CursorClose, StatementsTyped, channelVars
<1>12. ASSUME NEW c \in Callers, CursorClosed(c) PROVE StatementsTyped'
  <2>1. call[c].handle \in Handles /\ owner[call[c].handle] = c
    BY <1>12, HandleInHand DEF CursorClosed
  <2>2. statements[call[c].handle].remote_cursor_id \in CursorIds
    BY <1>1, <2>1, CallsAssumption DEF Owned, StatementsTyped, CallsAssumption
  <2> QED
    BY <1>1, <1>4, <1>12, <2>1, <2>2 DEF CursorClosed, StatementsTyped
<1>13. ASSUME NEW c \in Callers, Close(c) PROVE StatementsTyped'
  BY <1>13 DEF Close, StatementsTyped, Closed, States
<1>14. ASSUME NEW c \in Callers,
              Begin(c) \/ BeginRefused(c) \/ FetchRefused(c) \/ ReceiveReset(c) \/ ReceiveStatus(c)
       PROVE  StatementsTyped'
  BY <1>2, <1>14 DEF Begin, BeginRefused, FetchRefused, ReceiveReset, ReceiveStatus, sessionVars,
     channelVars, registry
<1>15. ASSUME Cancel \/ Server PROVE StatementsTyped'
  BY <1>2, <1>15 DEF Cancel, Server, ServerTakes, ServerAnswers, ServerInterrupted,
     ServerInterruptedIdle, ServerResets, clientVars, registry
<1>16. CASE UNCHANGED vars
  BY <1>2, <1>16 DEF vars
<1> QED
  BY <1>5, <1>6, <1>7, <1>8, <1>9, <1>10, <1>11, <1>12, <1>13, <1>14, <1>15, <1>16
  DEF Next, Operate, Receive

LEMMA FlagsTypedStep ==
    ASSUME TypeOK, [Next]_vars
    PROVE  FlagsTyped'
<1>1. FlagsTyped
  BY TypeOKParts
<1>2. ASSUME NEW c \in Callers PROVE Unlock(c) => call_mutex' \in Callers \cup {NoCaller}
  BY <1>1 DEF Unlock, FlagsTyped
<1>3. ASSUME NEW interrupted \in BOOLEAN, ObserveError(interrupted)
      PROVE  pending' \in BOOLEAN /\ unusable' \in BOOLEAN
  BY <1>1, <1>3 DEF ObserveError, FlagsTyped
<1>4. ASSUME NEW c \in Callers, NEW op, NEW interrupted \in BOOLEAN, Fail(c, op, interrupted),
             UNCHANGED <<open, cancellation_requested>>
      PROVE  FlagsTyped'
  <2>1. pending' \in BOOLEAN /\ unusable' \in BOOLEAN
    BY <1>1, <1>3, <1>4 DEF Fail, FlagsTyped, cancellation
  <2> QED
    BY <1>1, <1>2, <1>4, <2>1 DEF Fail, FlagsTyped
<1>5. CASE UNCHANGED <<open, exchange_failed, pending, unusable, cancellation_requested, call_mutex>>
  BY <1>1, <1>5 DEF FlagsTyped
<1>6. ASSUME NEW c \in Callers, NEW op, NEW kind, NEW h, Send(c, op, kind, h),
             UNCHANGED <<open, cancellation_requested>>
      PROVE  FlagsTyped'
  BY <1>1, <1>6 DEF Send, FlagsTyped, cancellation
<1>7. ASSUME NEW c \in Callers,
             EnterStatement(c) \/ EnterTransaction(c) \/ ReadLob(c) \/ ReceiveFails(c)
      PROVE  FlagsTyped'
  BY <1>4, <1>6, <1>7 DEF EnterStatement, EnterTransaction, ReadLob, ReceiveFails, SendFails
<1>8. ASSUME NEW c \in Callers, ReceiveError(c) PROVE FlagsTyped'
  BY <1>4, <1>8 DEF ReceiveError
<1>9. ASSUME NEW c \in Callers, EnterFetch(c) PROVE FlagsTyped'
  <2>1. UNCHANGED <<open, cancellation_requested>>
    BY <1>9 DEF EnterFetch
  <2>2. \/ call_mutex' = c /\ UNCHANGED <<exchange_failed, cancellation>>
        \/ \E h \in Handles : Send(c, "Fetch", "Fetch", h)
        \/ Fail(c, "Fetch", FALSE)
    BY <1>9 DEF EnterFetch, SendFails
  <2>3. CASE call_mutex' = c /\ UNCHANGED <<exchange_failed, cancellation>>
    BY <1>1, <2>1, <2>3 DEF FlagsTyped, cancellation
  <2> QED
    BY <1>4, <1>6, <2>1, <2>2, <2>3
<1>10. ASSUME NEW c \in Callers, BeginRefused(c) PROVE FlagsTyped'
  BY <1>1, <1>3, <1>10 DEF BeginRefused, FlagsTyped, cancellation, channelVars
<1>11. ASSUME NEW c \in Callers,
              ReceiveQuery(c) \/ ReceiveExecuted(c) \/ ReceiveCall(c) \/ ReceiveStatus(c)
       PROVE  FlagsTyped'
  BY <1>1, <1>2, <1>11 DEF ReceiveQuery, ReceiveExecuted, ReceiveCall, ReceiveStatus, FlagsTyped,
     cancellation, sessionVars
<1>12. ASSUME NEW c \in Callers, Complete(c) PROVE FlagsTyped'
  BY <1>1, <1>2, <1>12 DEF Complete, FlagsTyped
<1>13. ASSUME NEW c \in Callers, Close(c) PROVE FlagsTyped'
  BY <1>1, <1>13 DEF Close, FlagsTyped, cancellation
<1>14. CASE Cancel
  BY <1>1, <1>14 DEF Cancel, FlagsTyped
<1>15. ASSUME NEW c \in Callers, ReceiveReset(c) PROVE FlagsTyped'
  BY <1>1, <1>15 DEF ReceiveReset, FlagsTyped, sessionVars
<1>16. ASSUME NEW c \in Callers,
              Begin(c) \/ FetchRefused(c) \/ ReceiveRows(c) \/ CursorClose(c) \/ CursorClosed(c)
       PROVE  FlagsTyped'
  BY <1>5, <1>16 DEF Begin, FetchRefused, ReceiveRows, CursorClose, CursorClosed, sessionVars,
     channelVars, cancellation
<1>17. CASE Server
  BY <1>5, <1>17 DEF Server, ServerTakes, ServerAnswers, ServerInterrupted,
     ServerInterruptedIdle, ServerResets, clientVars
<1>18. CASE UNCHANGED vars
  BY <1>5, <1>18 DEF vars
<1> QED
  BY <1>7, <1>8, <1>9, <1>10, <1>11, <1>12, <1>13, <1>14, <1>15, <1>16, <1>17, <1>18
  DEF Next, Operate, Receive

-----------------------------------------------------------------------------
(* The wire: what a step can do to it                                      *)

Request(kind, closes, cursor) ==
    [type |-> "CALL", request |-> sent + 1, kind |-> kind, closes |-> closes, cursor |-> cursor]

Sends ==
    /\ sent < MaximumRequests
    /\ sent' = sent + 1
    /\ \E kind \in CallKinds, closes \in SUBSET CursorIds, cursor \in CursorIds \cup {0} :
         requests' = Append(requests, Request(kind, closes, cursor))
    /\ UNCHANGED <<responses, server, server_cursors>>

Takes ==
    /\ responses # <<>>
    /\ responses' = Tail(responses)
    /\ UNCHANGED requests \/ requests' = Append(requests, RESET)
    /\ UNCHANGED <<server, server_cursors, sent>>

Interrupts ==
    /\ requests' = Append(requests, INTERRUPT)
    /\ UNCHANGED <<responses, server, server_cursors, sent>>

Shuts ==
    /\ requests' = <<>>
    /\ responses' = <<>>
    /\ server' = ServerIdle
    /\ server_cursors' = {}
    /\ UNCHANGED sent

LEMMA SendIsSends ==
    ASSUME TypeOK, NEW c, NEW op, NEW kind \in CallKinds, NEW h \in Handles \cup {0},
           kind = "Fetch" => h \in Handles, Send(c, op, kind, h)
    PROVE  Sends
<1>1. StatementsTyped
  BY TypeOKParts
<1>2. pending_close_cursors \in SUBSET CursorIds
  BY <1>1 DEF StatementsTyped
<1>3. (IF kind = "Fetch" THEN statements[h].remote_cursor_id ELSE 0) \in CursorIds \cup {0}
  BY <1>1 DEF StatementsTyped
<1> QED
  BY <1>2, <1>3 DEF Send, Sends, Request, serverVars

(* The entry the registry gives to a new statement.                        *)
LEMMA FreeEntry ==
    ASSUME Entries # Handles
    PROVE  /\ Min(Handles \ Entries) \in Handles
           /\ statements[Min(Handles \ Entries)].state = "CLOSED"
<1>1. Handles \ Entries # {} /\ Handles \ Entries \in SUBSET Nat
  BY CallsAssumption DEF Entries, Handles, CallsAssumption
<1>2. Min(Handles \ Entries) \in Handles \ Entries
  BY <1>1, LeastOf
<1> QED
  BY <1>2 DEF Entries

LEMMA WireSteps ==
    ASSUME TypeOK, Handling, [Next]_vars
    PROVE  \/ UNCHANGED <<requests, responses, server, server_cursors, sent>>
           \/ Sends
           \/ Takes
           \/ Interrupts
           \/ Shuts
           \/ Server /\ UNCHANGED sent
<1>1. Operations \cap Statements \subseteq CallKinds /\ {"Commit", "Fetch", "Lob"} \subseteq CallKinds
  BY DEF CallKinds, AllOperations, Statements
<1>2. ASSUME NEW c \in Callers, EnterStatement(c)
      PROVE  Sends \/ UNCHANGED <<requests, responses, server, server_cursors, sent>>
  <2>1. PICK op \in Operations \cap Statements :
           \/ UNCHANGED <<wireVars, sent>>
           \/ Entries # Handles /\ Send(c, op, op, Min(Handles \ Entries))
    BY <1>2 DEF EnterStatement, SendFails, bounds
  <2>2. op \in CallKinds /\ op # "Fetch"
    BY <1>1 DEF Statements
  <2> QED
    BY <2>1, <2>2, FreeEntry, SendIsSends DEF wireVars
<1>3. ASSUME NEW c \in Callers, EnterTransaction(c)
      PROVE  Sends \/ UNCHANGED <<requests, responses, server, server_cursors, sent>>
  BY <1>1, <1>3, SendIsSends DEF EnterTransaction, SendFails, wireVars
<1>4. ASSUME NEW c \in Callers, EnterFetch(c)
      PROVE  Sends \/ UNCHANGED <<requests, responses, server, server_cursors, sent>>
  <2>1. PICK h \in Handles : UNCHANGED <<wireVars, sent>> \/ Send(c, "Fetch", "Fetch", h)
    BY <1>4 DEF EnterFetch, SendFails, bounds
  <2> QED
    BY <1>1, <2>1, SendIsSends DEF wireVars
<1>5. ASSUME NEW c \in Callers, ReadLob(c)
      PROVE  Sends \/ UNCHANGED <<requests, responses, server, server_cursors, sent>>
  <2>1. call[c].handle \in Handles
    BY <1>5 DEF ReadLob, Handling, InHand
  <2>2. Send(c, "Fetch", "Lob", call[c].handle) \/ UNCHANGED <<wireVars, sent>>
    BY <1>5 DEF ReadLob, SendFails
  <2> QED
    BY <1>1, <2>1, <2>2, SendIsSends DEF wireVars
<1>6. ASSUME NEW c \in Callers, Receive(c) PROVE Takes
  BY <1>6 DEF Receive, ReceiveReset, ReceiveError, ReceiveQuery, ReceiveExecuted, ReceiveCall,
     ReceiveRows, ReceiveStatus, Answered, Takes, serverVars, bounds
<1>7. ASSUME NEW c \in Callers, Begin(c) \/ BeginRefused(c) \/ FetchRefused(c) \/ ReceiveFails(c)
                                \/ Complete(c) \/ CursorClose(c) \/ CursorClosed(c)
      PROVE  UNCHANGED <<requests, responses, server, server_cursors, sent>>
  BY <1>7 DEF Begin, BeginRefused, FetchRefused, ReceiveFails, Complete, CursorClose,
     CursorClosed, wireVars, bounds
<1>8. ASSUME NEW c \in Callers, Close(c) PROVE Shuts
  BY <1>8 DEF Close, Shuts, bounds
<1>9. CASE Cancel
  BY <1>9 DEF Cancel, Interrupts, serverVars
<1>10. CASE Server
  BY <1>10 DEF Server, ServerTakes, ServerAnswers, ServerInterrupted, ServerInterruptedIdle,
     ServerResets, bounds
<1>11. CASE UNCHANGED vars
  BY <1>11 DEF vars
<1> QED
  BY <1>2, <1>3, <1>4, <1>5, <1>6, <1>7, <1>8, <1>9, <1>10, <1>11 DEF Next, Operate

(* The answers of a server that is not interrupted: new cursors are ones   *)
(* it does not have, and there are few enough of them.                     *)
Runs(m) ==
    /\ m \in Answers
    /\ m.request = server.request
    /\ m.kind = server.kind
    /\ m.outcome \in {"ok", "error"}
    /\ responses' = Append(responses, m)
    /\ server' = ServerIdle
    /\ server_cursors \subseteq server_cursors'
    /\ server_cursors' \subseteq CursorIds
    /\ server_cursors' \subseteq 1..(2 * server.request)
    /\ m.outcome = "ok" =>
          /\ server_cursors' = server_cursors \cup Told(m)
          /\ Told(m) \cap server_cursors = {}
    /\ m.outcome = "error" => Told(m) = {}

LEMMA ServerRuns ==
    ASSUME TypeOK, Numbered, ServerTyped, ServerAnswers
    PROVE  \E m \in Answers : Runs(m)
<1> DEFINE cursor == IF server.kind \in Statements THEN Min(CursorIds \ server_cursors) ELSE 0
           other == Min(CursorIds \ (server_cursors \cup {cursor}))
           results == IF server.kind = "Call" THEN {0, other} ELSE {0}
<1>1. /\ server.state = "running" /\ server.kind \in CallKinds
      /\ server.request \in Requests /\ server_cursors \subseteq CursorIds
      /\ sent \in 0..MaximumRequests /\ MaximumRequests \in Nat
  BY CallsAssumption DEF ServerAnswers, ServerTyped, TypeOK, CallsAssumption
<1>2. PICK k \in 0..sent : /\ server_cursors \subseteq 1..(2 * k)
                           /\ k < server.request /\ server.request <= sent
  BY <1>1 DEF Numbered
<1>3. /\ k \in Nat /\ 2 * k < 2 * MaximumRequests /\ server.request \in 1..MaximumRequests
      /\ 2 * k + 2 <= 2 * server.request /\ 2 * k \in Nat
  BY <1>1, <1>2 DEF Requests
<1>4. cursor # 0 <=> server.kind \in Statements
  <2>1. server_cursors \subseteq 1..(2 * k + 0)
    BY <1>2, <1>3
  <2>2. Min(CursorIds \ server_cursors) # 0
    BY <1>1, <1>3, <2>1, FreshCursor, CallsAssumption
  <2> QED
    BY <2>2
<1>5. cursor # 0 => cursor \in CursorIds \ server_cursors /\ cursor \in 1..(2 * k + 1)
  <2>1. server_cursors \subseteq 1..(2 * k + 0)
    BY <1>2, <1>3
  <2>2. /\ Min(CursorIds \ server_cursors) \in CursorIds \ server_cursors
        /\ Min(CursorIds \ server_cursors) \in 1..(2 * k + 0 + 1)
    BY <1>1, <1>3, <2>1, FreshCursor, CallsAssumption
  <2>3. 2 * k + 0 + 1 = 2 * k + 1
    BY <1>3
  <2> QED
    BY <1>4, <2>2, <2>3
<1>6. server.kind = "Call" =>
         /\ other \in CursorIds \ server_cursors /\ other # cursor /\ other # 0
         /\ other \in 1..(2 * k + 2)
  <2> SUFFICES ASSUME server.kind = "Call"
               PROVE  /\ other \in CursorIds \ server_cursors /\ other # cursor /\ other # 0
                      /\ other \in 1..(2 * k + 2)
    OBVIOUS
  <2>1. cursor \in CursorIds /\ cursor \in 1..(2 * k + 1)
    BY <1>4, <1>5 DEF Statements
  <2>2. 1..(2 * k) \subseteq 1..(2 * k + 1)
    BY <1>3
  <2>3. server_cursors \cup {cursor} \in SUBSET CursorIds /\ server_cursors \cup {cursor} \subseteq 1..(2 * k + 1)
    BY <1>1, <1>2, <2>1, <2>2
  <2> HIDE DEF cursor
  <2>4. /\ other \in CursorIds \ (server_cursors \cup {cursor})
        /\ other \in 1..(2 * k + 1 + 1)
        /\ other # 0
    BY <1>3, <2>3, FreshCursor, CallsAssumption
  <2>5. 2 * k + 1 + 1 = 2 * k + 2
    BY <1>3
  <2> QED
    BY <2>4, <2>5
<1>7. /\ 1..(2 * k) \subseteq 1..(2 * server.request)
      /\ 1..(2 * k + 1) \subseteq 1..(2 * server.request)
      /\ 1..(2 * k + 2) \subseteq 1..(2 * server.request)
  BY <1>3
<1>8. server' = ServerIdle
  BY DEF ServerAnswers
<1>9. \/ \E result \in results, exhausted \in BOOLEAN :
            /\ responses' = Append(responses, Answer("ok", cursor, result, exhausted))
            /\ server_cursors' = server_cursors \cup ({cursor, result} \ {0})
      \/ /\ responses' = Append(responses, Answer("error", 0, 0, FALSE))
         /\ server_cursors' \in {server_cursors, server_cursors \cup ({cursor} \ {0})}
  BY DEF ServerAnswers
<1> HIDE DEF cursor, other
<1>10. CASE /\ responses' = Append(responses, Answer("error", 0, 0, FALSE))
            /\ server_cursors' \in {server_cursors, server_cursors \cup ({cursor} \ {0})}
  <2> DEFINE m == Answer("error", 0, 0, FALSE)
  <2>1. m \in Answers
    BY <1>1, <1>3 DEF Answer, Answers
  <2>2. /\ m.request = server.request /\ m.kind = server.kind /\ m.outcome = "error" /\ Told(m) = {}
    BY DEF Answer, Told
  <2>3. server_cursors' \subseteq CursorIds /\ server_cursors' \subseteq 1..(2 * server.request)
    BY <1>1, <1>2, <1>5, <1>7, <1>10
  <2> QED
    BY <1>8, <1>10, <2>1, <2>2, <2>3 DEF Runs
<1>11. ASSUME NEW result \in results, NEW exhausted \in BOOLEAN,
              responses' = Append(responses, Answer("ok", cursor, result, exhausted)),
              server_cursors' = server_cursors \cup ({cursor, result} \ {0})
       PROVE  \E m \in Answers : Runs(m)
  <2> DEFINE m == Answer("ok", cursor, result, exhausted)
  <2>1. /\ result # 0 => /\ server.kind = "Call" /\ result \in CursorIds \ server_cursors
                         /\ result # cursor /\ result \in 1..(2 * k + 2)
        /\ result \in CursorIds \cup {0} /\ cursor \in CursorIds \cup {0}
    BY <1>5, <1>6, <1>11
  <2>2. /\ m = [type |-> "ANSWER", request |-> server.request, kind |-> server.kind, outcome |-> "ok",
                cursor |-> cursor, result |-> result, exhausted |-> exhausted]
    BY DEF Answer
  <2>3. m \in Answers
    BY <1>1, <1>3, <1>4, <2>1, <2>2 DEF Answers
  <2>4. Told(m) = {cursor, result} \ {0}
    BY <2>2 DEF Told
  <2>5. server_cursors' \subseteq CursorIds /\ server_cursors' \subseteq 1..(2 * server.request)
    BY <1>1, <1>2, <1>5, <1>7, <1>11, <2>1
  <2>6. Told(m) \cap server_cursors = {}
    BY <1>5, <2>1, <2>4
  <2>7. m.request = server.request /\ m.kind = server.kind /\ m.outcome = "ok"
    BY <2>2
  <2> HIDE DEF m
  <2> QED
    BY <1>8, <1>11, <2>3, <2>4, <2>5, <2>6, <2>7 DEF Runs, m
<1> QED
  BY <1>9, <1>10, <1>11

LEMMA MessagesStep ==
    ASSUME TypeOK, Messages, Numbered, ServerTyped, Handling, [Next]_vars
    PROVE  Messages'
<1>1. /\ requests \in Seq(CallMessages \cup Markers) /\ responses \in Seq(Answers \cup {RESET})
      /\ RESET \in Markers /\ INTERRUPT \in Markers
  BY DEF Messages, Markers
<1>2. requests # <<>> => Tail(requests) \in Seq(CallMessages \cup Markers)
  BY <1>1, Take
<1>3. responses # <<>> => Tail(responses) \in Seq(Answers \cup {RESET})
  BY <1>1, Take
<1>4. \A m \in CallMessages \cup Markers : Append(requests, m) \in Seq(CallMessages \cup Markers)
  BY <1>1
<1>5. \A m \in Answers \cup {RESET} : Append(responses, m) \in Seq(Answers \cup {RESET})
  BY <1>1
<1>6. CASE UNCHANGED <<requests, responses>>
  BY <1>6 DEF Messages
<1>7. CASE Sends
  <2>1. PICK kind \in CallKinds, closes \in SUBSET CursorIds, cursor \in CursorIds \cup {0} :
           requests' = Append(requests, Request(kind, closes, cursor))
    BY <1>7 DEF Sends
  <2>2. sent + 1 \in 1..MaximumRequests
    BY <1>7, CallsAssumption DEF Sends, TypeOK, CallsAssumption
  <2>3. Request(kind, closes, cursor) \in CallMessages
    BY <2>2 DEF Request, CallMessages
  <2> QED
    BY <1>1, <1>4, <1>7, <2>1, <2>3 DEF Sends, Messages
<1>8. CASE Takes
  BY <1>1, <1>3, <1>4, <1>8 DEF Takes, Messages
<1>9. CASE Interrupts
  BY <1>1, <1>4, <1>9 DEF Interrupts, Messages
<1>10. CASE Shuts
  BY <1>10 DEF Shuts, Messages
<1>11. CASE ServerTakes
  BY <1>1, <1>2, <1>5, <1>11 DEF ServerTakes, Arrived, Messages
<1>12. CASE ServerAnswers
  <2>1. PICK m \in Answers : responses' = Append(responses, m)
    BY <1>12, ServerRuns DEF Runs
  <2> QED
    BY <1>1, <1>5, <1>12, <2>1 DEF ServerAnswers, Messages
<1>13. CASE ServerInterrupted \/ ServerInterruptedIdle
  BY <1>1, <1>2, <1>5, <1>13 DEF ServerInterrupted, ServerInterruptedIdle, Arrived, Messages
<1>14. CASE ServerResets
  <2>1. server.request \in 1..MaximumRequests /\ server.kind \in CallKinds
    BY <1>14, CallsAssumption DEF ServerResets, Numbered, ServerTyped, TypeOK, CallsAssumption,
       Requests
  <2>2. Answer("ORA-01013", 0, 0, FALSE) \in Answers
    BY <2>1 DEF Answer, Answers
  <2> QED
    BY <1>1, <1>2, <1>5, <1>14, <2>2 DEF ServerResets, Messages
<1> QED
  BY <1>6, <1>7, <1>8, <1>9, <1>10, <1>11, <1>12, <1>13, <1>14, WireSteps DEF Server

LEMMA ServerTypedStep ==
    ASSUME TypeOK, Messages, ServerTyped, Handling, [Next]_vars
    PROVE  ServerTyped'
<1>1. CASE UNCHANGED server
  BY <1>1 DEF ServerTyped
<1>2. CASE server' = ServerIdle
  BY <1>2 DEF ServerTyped, ServerIdle
<1>3. CASE ServerTakes
  <2>1. Head(requests) \in CallMessages
    BY <1>3, Take, MessageKinds DEF ServerTakes, Arrived, Messages
  <2>2. Head(requests).kind \in CallKinds
    BY <2>1 DEF CallMessages
  <2> QED
    BY <1>3, <2>2 DEF ServerTakes, ServerTyped
<1>4. CASE ServerInterrupted
  BY <1>4 DEF ServerInterrupted, ServerTyped, TypeOK
<1>5. CASE ServerInterruptedIdle
  BY <1>5 DEF ServerInterruptedIdle, ServerTyped, TypeOK, ServerIdle
<1> QED
  BY <1>1, <1>2, <1>3, <1>4, <1>5, WireSteps
  DEF Sends, Takes, Interrupts, Shuts, Server, ServerAnswers, ServerResets

LEMMA ServerSideTypedStep ==
    ASSUME TypeOK, Messages, Numbered, ServerTyped, Handling, [Next]_vars
    PROVE  ServerSideTyped'
<1>1. ServerSideTyped
  BY TypeOKParts
<1>2. CASE UNCHANGED <<server, server_cursors>>
  BY <1>1, <1>2 DEF ServerSideTyped
<1>3. ServerIdle \in [state : {"idle", "running", "reset"}, request : Requests, kind : Kinds,
                      cursor : CursorIds \cup {0}, interrupted : BOOLEAN]
  BY CallsAssumption DEF ServerIdle, Requests, Kinds, CallsAssumption
<1>4. CASE Shuts
  BY <1>3, <1>4 DEF Shuts, ServerSideTyped
<1>5. CASE ServerTakes
  <2>1. Head(requests) \in CallMessages
    BY <1>5, Take, MessageKinds DEF ServerTakes, Arrived, Messages
  <2>2. /\ Head(requests).kind \in Kinds /\ Head(requests).request \in Requests
        /\ Head(requests).cursor \in CursorIds \cup {0}
    BY <2>1, CallsAssumption DEF CallMessages, CallKinds, Kinds, Requests, CallsAssumption
  <2> QED
    BY <1>1, <1>5, <2>2 DEF ServerTakes, ServerSideTyped
<1>6. CASE ServerAnswers
  <2>1. PICK m \in Answers : Runs(m)
    BY <1>6, ServerRuns
  <2> QED
    BY <1>3, <2>1 DEF Runs, ServerSideTyped
<1>7. CASE ServerInterrupted \/ ServerInterruptedIdle \/ ServerResets
  BY <1>1, <1>3, <1>7 DEF ServerInterrupted, ServerInterruptedIdle, ServerResets, ServerSideTyped
<1> QED
  BY <1>2, <1>4, <1>5, <1>6, <1>7, WireSteps DEF Sends, Takes, Interrupts, Server

LEMMA BoundsTypedStep ==
    ASSUME TypeOK, Handling, [Next]_vars
    PROVE  BoundsTyped'
<1>1. BoundsTyped /\ {MaximumRequests, MaximumCancels, MaximumFailures} \subseteq Nat
  BY TypeOKParts, CallsAssumption DEF CallsAssumption
<1>2. sent' \in 0..MaximumRequests
  BY <1>1, WireSteps DEF BoundsTyped, Sends, Takes, Interrupts, Shuts
<1>3. \/ UNCHANGED failures
      \/ failures < MaximumFailures /\ failures' = failures + 1
  <2>1. ASSUME NEW c \in Callers, EnterStatement(c) \/ EnterTransaction(c) \/ EnterFetch(c) \/ ReadLob(c)
        PROVE  UNCHANGED failures \/ (failures < MaximumFailures /\ failures' = failures + 1)
    BY <2>1 DEF EnterStatement, EnterTransaction, EnterFetch, ReadLob, Send, SendFails, bounds
  <2>2. ASSUME NEW c \in Callers, Receive(c) PROVE UNCHANGED failures
    BY <2>2 DEF Receive, ReceiveReset, ReceiveError, ReceiveQuery, ReceiveExecuted, ReceiveCall,
       ReceiveRows, ReceiveStatus, bounds
  <2>3. ASSUME NEW c \in Callers, Begin(c) \/ BeginRefused(c) \/ FetchRefused(c) \/ ReceiveFails(c)
                                  \/ Complete(c) \/ CursorClose(c) \/ CursorClosed(c) \/ Close(c)
        PROVE  UNCHANGED failures \/ (failures < MaximumFailures /\ failures' = failures + 1)
    BY <2>3 DEF Begin, BeginRefused, FetchRefused, ReceiveFails, Complete, CursorClose,
       CursorClosed, Close, bounds
  <2>4. CASE Cancel
    BY <2>4 DEF Cancel
  <2>5. CASE Server
    BY <2>5 DEF Server, ServerTakes, ServerAnswers, ServerInterrupted, ServerInterruptedIdle,
       ServerResets, bounds
  <2> QED
    BY <2>1, <2>2, <2>3, <2>4, <2>5 DEF Next, Operate, vars
<1>4. \/ UNCHANGED cancels
      \/ cancels < MaximumCancels /\ cancels' = cancels + 1
  <2>1. ASSUME NEW c \in Callers, EnterStatement(c) \/ EnterTransaction(c) \/ EnterFetch(c) \/ ReadLob(c)
        PROVE  UNCHANGED cancels
    BY <2>1 DEF EnterStatement, EnterTransaction, EnterFetch, ReadLob, Send, SendFails, bounds
  <2>2. ASSUME NEW c \in Callers, Receive(c) PROVE UNCHANGED cancels
    BY <2>2 DEF Receive, ReceiveReset, ReceiveError, ReceiveQuery, ReceiveExecuted, ReceiveCall,
       ReceiveRows, ReceiveStatus, bounds
  <2>3. ASSUME NEW c \in Callers, Begin(c) \/ BeginRefused(c) \/ FetchRefused(c) \/ ReceiveFails(c)
                                  \/ Complete(c) \/ CursorClose(c) \/ CursorClosed(c) \/ Close(c)
        PROVE  UNCHANGED cancels
    BY <2>3 DEF Begin, BeginRefused, FetchRefused, ReceiveFails, Complete, CursorClose,
       CursorClosed, Close, bounds
  <2>4. CASE Cancel
    BY <2>4 DEF Cancel
  <2>5. CASE Server
    BY <2>5 DEF Server, ServerTakes, ServerAnswers, ServerInterrupted, ServerInterruptedIdle,
       ServerResets, bounds
  <2> QED
    BY <2>1, <2>2, <2>3, <2>4, <2>5 DEF Next, Operate, vars
<1> QED
  BY <1>1, <1>2, <1>3, <1>4 DEF BoundsTyped

LEMMA NumberedStep ==
    ASSUME TypeOK, Messages, Numbered, ServerTyped, Handling, [Next]_vars
    PROVE  Numbered'
<1>1. /\ requests \in Seq(CallMessages \cup Markers)
      /\ sent \in 0..MaximumRequests /\ MaximumRequests \in Nat
      /\ server.request \in Nat
      /\ Ascending(requests)
      /\ \A m \in CallMessages : m.request \in Nat
  BY CallsAssumption DEF Messages, TypeOK, Requests, Numbered, CallMessages, CallsAssumption
<1>2. PICK k \in 0..sent :
         /\ server_cursors \subseteq 1..(2 * k)
         /\ \A m \in ToSet(requests) \cap CallMessages : m.request > k /\ m.request <= sent
         /\ server.state # "idle" =>
              /\ k < server.request /\ server.request <= sent
              /\ \A m \in ToSet(requests) \cap CallMessages : m.request > server.request
  BY DEF Numbered
<1>3. k \in Nat /\ k \in 0..sent
  BY <1>1, <1>2
<1>4. CASE UNCHANGED <<requests, server, server_cursors, sent>>
  BY <1>1, <1>2, <1>4 DEF Numbered
<1>5. CASE Sends
  <2>1. PICK kind \in CallKinds, closes \in SUBSET CursorIds, cursor \in CursorIds \cup {0} :
           requests' = Append(requests, Request(kind, closes, cursor))
    BY <1>5 DEF Sends
  <2> DEFINE m == Request(kind, closes, cursor)
  <2>2. m \in CallMessages /\ m.request = sent + 1
    BY <1>1, <1>5 DEF Request, CallMessages, Sends
  <2> HIDE DEF m
  <2>3. Ascending(requests')
    BY <1>1, <1>2, <2>1, <2>2, PutAscending DEF m
  <2>4. ToSet(requests') = ToSet(requests) \cup {m}
    BY <1>1, <2>1, <2>2, Put DEF m
  <2>5. /\ sent' = sent + 1 /\ server' = server /\ server_cursors' = server_cursors
        /\ k \in 0..sent'
    BY <1>1, <1>3, <1>5 DEF Sends
  <2>6. \A n \in ToSet(requests') \cap CallMessages : n.request > k /\ n.request <= sent'
    BY <1>1, <1>2, <1>3, <2>2, <2>4, <2>5
  <2>7. server'.state # "idle" =>
              /\ k < server'.request /\ server'.request <= sent'
              /\ \A n \in ToSet(requests') \cap CallMessages : n.request > server'.request
    BY <1>1, <1>2, <1>3, <2>2, <2>4, <2>5
  <2> QED
    BY <1>2, <2>3, <2>5, <2>6, <2>7 DEF Numbered
<1>6. CASE /\ requests' = Append(requests, RESET) \/ requests' = Append(requests, INTERRUPT)
           /\ UNCHANGED <<server, server_cursors, sent>>
  <2>1. PICK m \in Markers : requests' = Append(requests, m)
    BY <1>6 DEF Markers
  <2>2. m \notin CallMessages
    BY <2>1, MessageKinds DEF Markers
  <2>3. Ascending(requests')
    BY <1>1, <2>1, <2>2, PutAscending
  <2>4. ToSet(requests') = ToSet(requests) \cup {m}
    BY <1>1, <2>1, Put
  <2>5. ToSet(requests') \cap CallMessages = ToSet(requests) \cap CallMessages
    BY <2>2, <2>4
  <2> QED
    BY <1>2, <1>6, <2>3, <2>5 DEF Numbered
<1>7. CASE Shuts
  <2>1. 0 \in 0..sent' /\ server_cursors' \subseteq 1..(2 * 0)
    BY <1>1, <1>7 DEF Shuts
  <2> QED
    BY <1>7, <2>1, EmptyQueue DEF Shuts, Numbered, ServerIdle
<1>8. requests # <<>> =>
         /\ Ascending(Tail(requests))
         /\ ToSet(Tail(requests)) \cap CallMessages \subseteq ToSet(requests) \cap CallMessages
         /\ Head(requests) \in ToSet(requests)
         /\ Head(requests) \in CallMessages =>
               \A m \in ToSet(Tail(requests)) \cap CallMessages : Head(requests).request < m.request
  BY <1>1, Take, TakeAscending
<1>9. CASE ServerTakes
  <2>1. requests # <<>> /\ requests' = Tail(requests) /\ UNCHANGED sent
    BY <1>9 DEF ServerTakes, Arrived, bounds
  <2>2. Head(requests) \in CallMessages
    BY <1>9, Take, MessageKinds DEF ServerTakes, Arrived, Messages
  <2>3. server'.request = Head(requests).request /\ server_cursors' \subseteq server_cursors
    BY <1>9 DEF ServerTakes
  <2>4. /\ k < server'.request /\ server'.request <= sent'
        /\ \A m \in ToSet(requests') \cap CallMessages : m.request > server'.request
    BY <1>1, <1>2, <1>8, <2>1, <2>2, <2>3
  <2> QED
    BY <1>2, <1>8, <2>1, <2>3, <2>4 DEF Numbered
<1>10. CASE ServerAnswers
  <2>1. PICK m \in Answers : Runs(m)
    BY <1>10, ServerRuns
  <2>2. UNCHANGED <<requests, sent>> /\ server.state # "idle"
    BY <1>10 DEF ServerAnswers, bounds
  <2>3. server.request \in 0..sent'
    BY <1>1, <1>2, <2>2
  <2>4. server_cursors' \subseteq 1..(2 * server.request) /\ server'.state = "idle"
    BY <2>1 DEF Runs, ServerIdle
  <2> QED
    BY <1>1, <1>2, <2>2, <2>3, <2>4 DEF Numbered
<1>11. CASE ServerInterrupted \/ ServerInterruptedIdle \/ ServerResets
  <2>1. requests # <<>> /\ requests' = Tail(requests) /\ UNCHANGED <<sent, server_cursors>>
    BY <1>11 DEF ServerInterrupted, ServerInterruptedIdle, ServerResets, Arrived, bounds
  <2>2. server'.state # "idle" => server.state # "idle" /\ server'.request = server.request
    <3>1. CASE ServerInterrupted
      BY <3>1 DEF ServerInterrupted, TypeOK
    <3>2. CASE ServerInterruptedIdle
      BY <3>2 DEF ServerInterruptedIdle, TypeOK
    <3>3. CASE ServerResets
      <4>1. server.state = "reset" /\ (server' = ServerIdle \/ server' = server)
        BY <3>3 DEF ServerResets
      <4>2. ServerIdle.state = "idle"
        BY DEF ServerIdle
      <4> QED
        BY <4>1, <4>2
    <3> QED
      BY <1>11, <3>1, <3>2, <3>3
  <2> QED
    BY <1>2, <1>8, <2>1, <2>2 DEF Numbered
<1> QED
  BY <1>4, <1>5, <1>6, <1>7, <1>9, <1>10, <1>11, WireSteps DEF Takes, Interrupts, Server

-----------------------------------------------------------------------------
(* Who holds what: the lock, the statements and the cursors                *)

LEMMA NoCallerIsNone == ASSUME NEW c \in Callers PROVE c # NoCaller
BY CallsAssumption DEF CallsAssumption

(* The one who reads an answer has the statement it is about.              *)
LEMMA AnsweredStatement ==
    ASSUME Handling, Owned, NEW c \in Callers, call[c].at = "receive",
           call[c].kind \in Statements \cup {"Fetch"}
    PROVE  /\ call_mutex = c
           /\ call[c].handle \in Handles
           /\ call[c].kind \in Statements =>
                 /\ statements[call[c].handle].state = "OPEN"
                 /\ statements[call[c].handle].remote_cursor_id = 0
                 /\ owner[call[c].handle] = NoCaller
           /\ call[c].kind = "Fetch" =>
                 statements[call[c].handle].state = "FETCHING" /\ owner[call[c].handle] = c
BY DEF Handling, InHand, Owned

(* What a caller does to its own entry leaves those of the others alone.   *)
LEMMA OwnEntryOnly ==
    ASSUME TypeOK, Messages, Handling, Owned, NEW d \in Callers, Operate(d), ~Close(d)
    PROVE  /\ \A c \in Callers \ {d} : call'[c] = call[c]
           /\ \A c \in Callers \ {d} : call_mutex = c => call_mutex' = c /\ UNCHANGED statements
           /\ \A h \in Handles : owner[h] \in Callers \ {d} =>
                 owner'[h] = owner[h] /\ statements'[h] = statements[h]
<1>1. /\ call \in [Callers -> CallRecords]
      /\ statements \in [Handles -> [state : States, remote_cursor_id : CursorIds \cup {0}]]
      /\ owner \in [Handles -> Callers \cup {NoCaller}]
  BY DEF TypeOK, CallRecords
<1>2. ASSUME Throw(d) \/ Leave(d) \/ \E h : Done(d, h)
      PROVE  \A c \in Callers \ {d} : call'[c] = call[c]
  BY <1>1, <1>2 DEF Throw, Leave, Done
<1>3. ASSUME NEW op, NEW kind, NEW h, Send(d, op, kind, h)
      PROVE  \A c \in Callers \ {d} : call'[c] = call[c]
  BY <1>1, <1>3 DEF Send
<1>4. d # NoCaller
  BY NoCallerIsNone
<1>5. CASE EnterStatement(d)
  <2>1. call_mutex \in {NoCaller, d} /\ UNCHANGED owner
    BY <1>5 DEF EnterStatement, LockCall
  <2>2. \A c \in Callers \ {d} : call'[c] = call[c]
    BY <1>2, <1>3, <1>5 DEF EnterStatement, SendFails, Fail
  <2>3. \/ UNCHANGED statements
        \/ /\ Entries # Handles
           /\ \E state \in States :
                 statements' = [statements EXCEPT ![Min(Handles \ Entries)].state = state]
    BY <1>5 DEF EnterStatement, States
  <2>4. \A h \in Handles : owner[h] \in Callers \ {d} => statements'[h] = statements[h]
    <3>1. CASE UNCHANGED statements
      BY <3>1
    <3>2. CASE Entries # Handles
      <4>1. Min(Handles \ Entries) \in Handles /\ owner[Min(Handles \ Entries)] = NoCaller
        BY <3>2, FreeEntry DEF Owned
      <4> QED
        BY <1>1, <2>3, <4>1, NoCallerIsNone
    <3> QED
      BY <2>3, <3>1, <3>2
  <2> QED
    BY <2>1, <2>2, <2>4, NoCallerIsNone
<1>6. CASE EnterTransaction(d)
  <2>1. call_mutex \in {NoCaller, d} /\ UNCHANGED <<statements, owner>>
    BY <1>6 DEF EnterTransaction, LockCall, registry
  <2>2. \A c \in Callers \ {d} : call'[c] = call[c]
    BY <1>2, <1>3, <1>6 DEF EnterTransaction, SendFails, Fail
  <2> QED
    BY <2>1, <2>2, NoCallerIsNone
<1>7. CASE EnterFetch(d)
  <2>1. call_mutex \in {NoCaller, d} /\ UNCHANGED owner
    BY <1>7 DEF EnterFetch, LockCall
  <2>2. PICK h \in Handles :
           /\ owner[h] = d
           /\ UNCHANGED statements \/ \E state \in States :
                                         statements' = [statements EXCEPT ![h].state = state]
           /\ \/ call' = [call EXCEPT ![d] = [@ EXCEPT !.at = "complete", !.op = "Fetch", !.handle = h]]
              \/ Send(d, "Fetch", "Fetch", h)
              \/ Throw(d)
    BY <1>7 DEF EnterFetch, SendFails, Fail, States
  <2>3. \A c \in Callers \ {d} : call'[c] = call[c]
    BY <1>1, <1>2, <1>3, <2>2
  <2>4. \A g \in Handles \ {h} : statements'[g] = statements[g]
    BY <1>1, <2>2
  <2> QED
    BY <2>1, <2>2, <2>3, <2>4, NoCallerIsNone
<1>8. CASE ReadLob(d)
  <2>1. call_mutex = d /\ UNCHANGED <<statements, owner>>
    BY <1>8 DEF ReadLob, registry, Handling, InHand
  <2>2. \A c \in Callers \ {d} : call'[c] = call[c]
    BY <1>2, <1>3, <1>8 DEF ReadLob, SendFails, Fail
  <2> QED
    BY <2>1, <2>2
<1>9. CASE ReceiveReset(d) \/ ReceiveStatus(d)
  <2>1. call_mutex = d /\ UNCHANGED <<statements, owner>>
    BY <1>9 DEF ReceiveReset, ReceiveStatus, Answered, sessionVars, Handling, InHand
  <2>2. \A c \in Callers \ {d} : call'[c] = call[c]
    BY <1>2, <1>9 DEF ReceiveReset, ReceiveStatus
  <2> QED
    BY <2>1, <2>2
<1>10. CASE ReceiveFails(d) \/ ReceiveError(d)
  <2>1. call[d].at = "receive" /\ Poison(d) /\ Throw(d) /\ UNCHANGED owner
    BY <1>10 DEF ReceiveFails, ReceiveError, Answered, Fail
  <2>2. call_mutex = d
    BY <2>1 DEF Handling, InHand
  <2>3. call[d].kind \in Statements \cup {"Fetch"} =>
           call[d].handle \in Handles /\ owner[call[d].handle] \in {d, NoCaller}
    BY <2>1, AnsweredStatement
  <2> QED
    BY <1>1, <1>2, <2>1, <2>2, <2>3, NoCallerIsNone DEF Poison
<1>11. CASE ReceiveQuery(d) \/ ReceiveExecuted(d) \/ ReceiveCall(d) \/ ReceiveRows(d)
  <2> DEFINE h == call[d].handle
  <2>1. /\ call[d].at = "receive" /\ call[d].kind \in Statements \cup {"Fetch", "Lob"}
        /\ Leave(d) \/ \E g : Done(d, g)
        /\ call[d].kind = "Lob" => UNCHANGED <<statements, owner>>
        /\ UNCHANGED owner \/ owner' = [owner EXCEPT ![h] = d]
        /\ \/ UNCHANGED statements
           \/ \E entry : statements' = [statements EXCEPT ![h] = entry]
           \/ statements' = [statements EXCEPT ![h].state = "EXHAUSTED"]
    BY <1>11 DEF ReceiveQuery, ReceiveExecuted, ReceiveCall, ReceiveRows, Answered, Statements
  <2>2. call_mutex = d
    BY <2>1 DEF Handling, InHand
  <2>3. call[d].kind # "Lob" => h \in Handles /\ owner[h] \in {d, NoCaller}
    BY <2>1, AnsweredStatement
  <2>4. \A g \in Handles \ {h} : statements'[g] = statements[g] /\ owner'[g] = owner[g]
    BY <1>1, <2>1
  <2> QED
    BY <1>2, <2>1, <2>2, <2>3, <2>4, NoCallerIsNone
<1>12. CASE Complete(d)
  <2>1. UNCHANGED statements /\ (Leave(d) \/ Throw(d)) /\ Unlock(d) /\ call[d].at = "complete"
    BY <1>12 DEF Complete
  <2>2. UNCHANGED owner \/ (call[d].handle # 0 /\ owner' = [owner EXCEPT ![call[d].handle] = NoCaller])
    BY <1>12 DEF Complete
  <2>3. call[d].handle # 0 => owner[call[d].handle] = d
    BY <2>1 DEF Handling, InHand
  <2> QED
    BY <1>1, <1>2, <2>1, <2>2, <2>3 DEF Unlock
<1>13. CASE CursorClose(d)
  BY <1>1, <1>13 DEF CursorClose, channelVars
<1>14. CASE CursorClosed(d)
  <2>1. owner[call[d].handle] = d /\ call[d].handle \in Handles
    BY <1>14, HandleInHand DEF CursorClosed
  <2> QED
    BY <1>1, <1>2, <1>14, <2>1, NoCallerIsNone DEF CursorClosed, LockCall
<1>15. CASE Begin(d) \/ BeginRefused(d) \/ FetchRefused(d)
  <2>1. UNCHANGED <<statements, owner, call_mutex>>
    BY <1>15 DEF Begin, BeginRefused, FetchRefused, sessionVars, channelVars, registry
  <2>2. \A c \in Callers \ {d} : call'[c] = call[c]
    BY <1>1, <1>2, <1>15 DEF Begin, BeginRefused, FetchRefused
  <2> QED
    BY <2>1, <2>2
<1> QED
  BY <1>5, <1>6, <1>7, <1>8, <1>9, <1>10, <1>11, <1>12, <1>13, <1>14, <1>15 DEF Operate, Receive

LEMMA OthersInHand ==
    ASSUME TypeOK, NEW c \in Callers, InHand(c), call'[c] = call[c],
           call_mutex = c => call_mutex' = c /\ UNCHANGED statements,
           \A h \in Handles : owner[h] = c => owner'[h] = owner[h] /\ statements'[h] = statements[h]
    PROVE  InHand(c)'
<1>1. call[c].handle \in Handles \cup {0}
  BY DEF TypeOK
<1>2. (call[c].at = "receive")' =>
         (/\ call_mutex = c
          /\ call[c].kind \in CallKinds
          /\ call[c].op = "ExecuteAdmin" => call[c].kind = "ExecuteAdmin"
          /\ call[c].kind \in Statements =>
                call[c].handle \in Handles /\ statements[call[c].handle].state = "OPEN"
          /\ call[c].kind \in {"Fetch", "Lob"} <=> call[c].op = "Fetch"
          /\ call[c].kind \in {"Fetch", "Lob"} =>
                call[c].handle \in Handles /\ owner[call[c].handle] = c
          /\ call[c].kind = "Fetch" => statements[call[c].handle].state = "FETCHING")'
  BY DEF InHand
<1>3. (call[c].at = "complete")' =>
         (/\ call[c].op = "Fetch" => call_mutex = c /\ call[c].handle \in Handles
          /\ call[c].handle # 0 => owner[call[c].handle] = c)'
  BY <1>1 DEF InHand
<1>4. (call[c].at = "close")' => (call[c].handle \in Handles /\ owner[call[c].handle] = c)'
  BY DEF InHand
<1>5. (call[c].at \in {"idle", "lock", "close"})' => (call[c].request = 0 /\ call[c].answer = 0)'
  BY DEF InHand
<1> QED
  BY <1>2, <1>3, <1>4, <1>5 DEF InHand

LEMMA HandlingStep ==
    ASSUME TypeOK, Messages, Handling, Owned, [Next]_vars
    PROVE  Handling'
<1>1. /\ call \in [Callers -> CallRecords]
      /\ statements \in [Handles -> [state : States, remote_cursor_id : CursorIds \cup {0}]]
      /\ owner \in [Handles -> Callers \cup {NoCaller}]
  BY DEF TypeOK, CallRecords
<1>2. CASE UNCHANGED <<call, call_mutex, statements, owner>>
  BY <1>2 DEF Handling, InHand
<1>3. ASSUME NEW c \in Callers, Close(c) PROVE Handling'
  BY <1>3 DEF Close, Handling, InHand, Outside
<1>4. ASSUME NEW d \in Callers, Operate(d), ~Close(d), InHand(d)' PROVE Handling'
  <2>1. ASSUME NEW c \in Callers \ {d} PROVE InHand(c)'
    <3>1. /\ call'[c] = call[c]
          /\ call_mutex = c => call_mutex' = c /\ UNCHANGED statements
          /\ \A h \in Handles : owner[h] = c => owner'[h] = owner[h] /\ statements'[h] = statements[h]
      BY <1>4, OwnEntryOnly
    <3> QED
      BY <3>1, OthersInHand DEF Handling
  <2> QED
    BY <1>4, <2>1 DEF Handling
<1>5. ASSUME NEW c \in Callers, Throw(c) \/ Leave(c) PROVE InHand(c)'
  <2>1. call'[c].at = "idle" /\ call'[c].request = 0 /\ call'[c].answer = 0
    BY <1>1, <1>5 DEF Throw, Leave, Outside
  <2> QED
    BY <2>1 DEF InHand
<1>6. ASSUME NEW c \in Callers, NEW op, NEW kind, NEW h, Send(c, op, kind, h)
      PROVE  /\ call'[c].at = "receive" /\ call'[c].op = op /\ call'[c].kind = kind
             /\ call'[c].handle = h /\ call_mutex' = c
  BY <1>1, <1>6 DEF Send, CallRecords
<1>7. ASSUME NEW c \in Callers, EnterStatement(c) PROVE InHand(c)'
  <2>1. PICK op \in Operations \cap Statements :
           \/ Throw(c)
           \/ /\ Entries # Handles
              /\ Send(c, op, op, Min(Handles \ Entries))
              /\ statements' = [statements EXCEPT ![Min(Handles \ Entries)].state = "OPEN"]
    BY <1>7 DEF EnterStatement, SendFails, Fail
  <2>2. CASE Throw(c)
    BY <1>5, <2>2
  <2>3. CASE /\ Entries # Handles
             /\ Send(c, op, op, Min(Handles \ Entries))
             /\ statements' = [statements EXCEPT ![Min(Handles \ Entries)].state = "OPEN"]
    <3>1. Min(Handles \ Entries) \in Handles
      BY <2>3, FreeEntry
    <3>2. /\ call'[c].at = "receive" /\ call'[c].op = op /\ call'[c].kind = op
          /\ call'[c].handle = Min(Handles \ Entries) /\ call_mutex' = c
      BY <1>6, <2>3
    <3>3. statements'[Min(Handles \ Entries)].state = "OPEN"
      BY <1>1, <2>3, <3>1
    <3>4. op \in CallKinds /\ op # "Fetch" /\ op # "Lob"
      BY DEF CallKinds, AllOperations, Statements
    <3> QED
      BY <3>1, <3>2, <3>3, <3>4 DEF InHand
  <2> QED
    BY <2>1, <2>2, <2>3
<1>8. ASSUME NEW c \in Callers, EnterTransaction(c) PROVE InHand(c)'
  <2>1. CASE Throw(c)
    BY <1>5, <2>1
  <2>2. CASE Send(c, "Commit", "Commit", 0)
    <3>1. /\ call'[c].at = "receive" /\ call'[c].op = "Commit" /\ call'[c].kind = "Commit"
          /\ call_mutex' = c
      BY <1>6, <2>2
    <3>2. "Commit" \in CallKinds /\ "Commit" \notin Statements
      BY DEF CallKinds, AllOperations, Statements
    <3> QED
      BY <3>1, <3>2 DEF InHand
  <2> QED
    BY <1>8, <2>1, <2>2 DEF EnterTransaction, SendFails, Fail
<1>9. ASSUME NEW c \in Callers, EnterFetch(c) PROVE InHand(c)'
  <2>1. PICK h \in Handles :
           /\ owner[h] = c
           /\ UNCHANGED owner
           /\ \/ Throw(c)
              \/ /\ call_mutex' = c
                 /\ call' = [call EXCEPT ![c] = [@ EXCEPT !.at = "complete", !.op = "Fetch", !.handle = h]]
              \/ /\ Send(c, "Fetch", "Fetch", h)
                 /\ statements' = [statements EXCEPT ![h].state = "FETCHING"]
    BY <1>9 DEF EnterFetch, SendFails, Fail
  <2>2. CASE Throw(c)
    BY <1>5, <2>2
  <2>3. CASE /\ call_mutex' = c
             /\ call' = [call EXCEPT ![c] = [@ EXCEPT !.at = "complete", !.op = "Fetch", !.handle = h]]
    <3>1. call'[c].at = "complete" /\ call'[c].op = "Fetch" /\ call'[c].handle = h
      BY <1>1, <2>3 DEF CallRecords
    <3> QED
      BY <2>1, <2>3, <3>1 DEF InHand
  <2>4. CASE /\ Send(c, "Fetch", "Fetch", h)
             /\ statements' = [statements EXCEPT ![h].state = "FETCHING"]
    <3>1. /\ call'[c].at = "receive" /\ call'[c].op = "Fetch" /\ call'[c].kind = "Fetch"
          /\ call'[c].handle = h /\ call_mutex' = c
      BY <1>6, <2>4
    <3>2. statements'[h].state = "FETCHING"
      BY <1>1, <2>4
    <3>3. "Fetch" \in CallKinds /\ "Fetch" \notin Statements
      BY DEF CallKinds, Statements
    <3> QED
      BY <2>1, <3>1, <3>2, <3>3 DEF InHand
  <2> QED
    BY <2>1, <2>2, <2>3, <2>4
<1>10. ASSUME NEW c \in Callers, ReadLob(c) PROVE InHand(c)'
  <2>1. CASE Throw(c)
    BY <1>5, <2>1
  <2>2. CASE Send(c, "Fetch", "Lob", call[c].handle)
    <3>1. /\ call'[c].at = "receive" /\ call'[c].op = "Fetch" /\ call'[c].kind = "Lob"
          /\ call'[c].handle = call[c].handle /\ call_mutex' = c
      BY <1>6, <2>2
    <3>2. call[c].handle \in Handles /\ call[c].handle # 0
      BY <1>10 DEF ReadLob, Handling, InHand, Handles
    <3>3. owner'[call[c].handle] = c
      BY <1>10, <3>2 DEF ReadLob, Handling, InHand, registry
    <3>4. "Lob" \in CallKinds /\ "Lob" \notin Statements
      BY DEF CallKinds, Statements
    <3> QED
      BY <3>1, <3>2, <3>3, <3>4 DEF InHand
  <2> QED
    BY <1>10, <2>1, <2>2 DEF ReadLob, SendFails, Fail
<1>11. ASSUME NEW c \in Callers, NEW h, Done(c, h)
       PROVE  call'[c].at = "complete" /\ call'[c].handle = h /\ call'[c].op = call[c].op
  BY <1>1, <1>11 DEF Done, CallRecords
<1>12. ASSUME NEW c \in Callers, ReceiveQuery(c) PROVE InHand(c)'
  <2>1. /\ call[c].at = "receive" /\ call[c].kind = "Query" /\ Done(c, call[c].handle)
        /\ owner' = [owner EXCEPT ![call[c].handle] = c]
    BY <1>12 DEF ReceiveQuery, Answered
  <2>2. call[c].handle \in Handles /\ call[c].op # "Fetch"
    BY <2>1 DEF Handling, InHand, Statements
  <2>3. owner'[call[c].handle] = c
    BY <1>1, <2>1, <2>2
  <2> QED
    BY <1>11, <2>1, <2>2, <2>3 DEF InHand
<1>13. ASSUME NEW c \in Callers, ReceiveExecuted(c) PROVE InHand(c)'
  <2>1. /\ call[c].at = "receive" /\ call[c].kind \in {"Execute", "ExecuteAdmin"}
        /\ Done(c, 0) \/ Leave(c)
    BY <1>13 DEF ReceiveExecuted, Answered
  <2>2. call[c].op # "Fetch"
    BY <2>1 DEF Handling, InHand
  <2> QED
    BY <1>5, <1>11, <2>1, <2>2 DEF InHand
<1>14. ASSUME NEW c \in Callers, ReceiveCall(c) PROVE InHand(c)'
  <2>1. /\ call[c].at = "receive" /\ call[c].kind = "Call"
        /\ \/ Done(c, 0)
           \/ Done(c, call[c].handle) /\ owner' = [owner EXCEPT ![call[c].handle] = c]
    BY <1>14 DEF ReceiveCall, Answered
  <2>2. call[c].handle \in Handles /\ call[c].op # "Fetch"
    BY <2>1 DEF Handling, InHand, Statements
  <2>3. CASE Done(c, 0)
    BY <1>11, <2>2, <2>3 DEF InHand
  <2>4. CASE Done(c, call[c].handle) /\ owner' = [owner EXCEPT ![call[c].handle] = c]
    <3>1. owner'[call[c].handle] = c
      BY <1>1, <2>2, <2>4
    <3> QED
      BY <1>11, <2>2, <2>4, <3>1 DEF InHand
  <2> QED
    BY <2>1, <2>3, <2>4
<1>15. ASSUME NEW c \in Callers, ReceiveRows(c) PROVE InHand(c)'
  <2>1. /\ call[c].at = "receive" /\ call[c].kind \in {"Fetch", "Lob"} /\ Done(c, call[c].handle)
        /\ UNCHANGED <<owner, call_mutex>>
    BY <1>15 DEF ReceiveRows, Answered, channelVars
  <2>2. call[c].handle \in Handles /\ owner[call[c].handle] = c /\ call_mutex = c
    BY <2>1 DEF Handling, InHand
  <2> QED
    BY <1>11, <2>1, <2>2 DEF InHand
<1>16. ASSUME NEW c \in Callers, ReceiveReset(c) PROVE Handling'
  BY <1>2, <1>16 DEF ReceiveReset, sessionVars
<1>17. ASSUME NEW c \in Callers, ReceiveError(c) \/ ReceiveFails(c) \/ ReceiveStatus(c) \/ Complete(c)
                                 \/ BeginRefused(c) \/ FetchRefused(c) \/ CursorClosed(c)
       PROVE  InHand(c)'
  BY <1>5, <1>17 DEF ReceiveError, ReceiveFails, ReceiveStatus, Complete, BeginRefused,
     FetchRefused, CursorClosed, Fail
<1>18. ASSUME NEW c \in Callers, Begin(c) PROVE InHand(c)'
  <2>1. call[c].request = 0 /\ call[c].answer = 0
    BY <1>18 DEF Begin, Handling, InHand
  <2>2. call'[c].at = "lock" /\ call'[c].request = 0 /\ call'[c].answer = 0
    BY <1>1, <1>18, <2>1 DEF Begin, CallRecords
  <2> QED
    BY <2>2 DEF InHand
<1>19. ASSUME NEW c \in Callers, CursorClose(c) PROVE InHand(c)'
  <2>1. call[c].request = 0 /\ call[c].answer = 0 /\ call[c].at = "idle"
    BY <1>19 DEF CursorClose, Handling, InHand
  <2>2. CASE UNCHANGED call
    BY <2>1, <2>2 DEF InHand
  <2>3. CASE \E h \in Handles : /\ owner[h] = c /\ UNCHANGED owner
                                /\ call' = [call EXCEPT ![c].at = "close", ![c].handle = h]
    <3>1. PICK h \in Handles : /\ owner[h] = c /\ UNCHANGED owner
                               /\ call' = [call EXCEPT ![c].at = "close", ![c].handle = h]
      BY <2>3
    <3>2. /\ call'[c].at = "close" /\ call'[c].handle = h
          /\ call'[c].request = 0 /\ call'[c].answer = 0
      BY <1>1, <2>1, <3>1 DEF CallRecords
    <3> QED
      BY <3>1, <3>2 DEF InHand
  <2> QED
    BY <1>19, <2>2, <2>3 DEF CursorClose
<1>20. ASSUME Cancel \/ Server PROVE Handling'
  BY <1>2, <1>20 DEF Cancel, Server, ServerTakes, ServerAnswers, ServerInterrupted,
     ServerInterruptedIdle, ServerResets, clientVars, registry
<1>21. ASSUME NEW d \in Callers, Operate(d) PROVE Handling'
  BY <1>3, <1>4, <1>7, <1>8, <1>9, <1>10, <1>12, <1>13, <1>14, <1>15, <1>16, <1>17, <1>18, <1>19,
     <1>21 DEF Operate, Receive
<1> QED
  BY <1>2, <1>20, <1>21 DEF Next, vars

LEMMA FailureIsKept ==
    ASSUME exchange_failed, [Next]_vars
    PROVE  exchange_failed'
<1>1. ASSUME NEW c \in Callers, EnterStatement(c) \/ EnterTransaction(c) \/ EnterFetch(c) \/ ReadLob(c)
      PROVE  exchange_failed'
  BY <1>1 DEF EnterStatement, EnterTransaction, EnterFetch, ReadLob, Send, SendFails, Fail
<1>2. ASSUME NEW c \in Callers, Receive(c) \/ ReceiveFails(c) PROVE exchange_failed'
  BY <1>2 DEF Receive, ReceiveReset, ReceiveError, ReceiveQuery, ReceiveExecuted, ReceiveCall,
     ReceiveRows, ReceiveStatus, ReceiveFails, Fail, sessionVars
<1>3. ASSUME NEW c \in Callers, Begin(c) \/ BeginRefused(c) \/ FetchRefused(c) \/ Complete(c)
                                \/ CursorClose(c) \/ CursorClosed(c) \/ Close(c)
      PROVE  exchange_failed'
  BY <1>3 DEF Begin, BeginRefused, FetchRefused, Complete, CursorClose, CursorClosed, Close,
     sessionVars
<1>4. ASSUME Cancel \/ Server PROVE exchange_failed'
  BY <1>4 DEF Cancel, Server, ServerTakes, ServerAnswers, ServerInterrupted,
     ServerInterruptedIdle, ServerResets, clientVars
<1> QED
  BY <1>1, <1>2, <1>3, <1>4 DEF Next, Operate, vars

(* A step changes an entry of the registry and its cursor together.        *)
LEMMA OwnedStep ==
    ASSUME TypeOK, Messages, Handling, Owned, [Next]_vars
    PROVE  Owned'
<1> DEFINE O(h) ==
        /\ statements[h].state \in {"CLOSED", "OPEN"} =>
              owner[h] = NoCaller /\ statements[h].remote_cursor_id = 0
        /\ owner[h] # NoCaller => statements[h].remote_cursor_id # 0
        /\ statements[h].state = "POISONED" /\ ~exchange_failed => owner[h] = NoCaller
<1>1. /\ statements \in [Handles -> [state : States, remote_cursor_id : CursorIds \cup {0}]]
      /\ owner \in [Handles -> Callers \cup {NoCaller}]
      /\ \A h \in Handles : O(h)
  BY DEF TypeOK, Owned
<1>2. ASSUME NEW h \in Handles, statements'[h] = statements[h], owner'[h] = owner[h] PROVE O(h)'
  BY <1>1, <1>2, FailureIsKept
<1>3. (\A h \in Handles : O(h)') => Owned'
  BY DEF Owned
<1>4. ASSUME NEW h \in Handles,
             \A g \in Handles \ {h} : statements'[g] = statements[g] /\ owner'[g] = owner[g],
             O(h)'
      PROVE  Owned'
  BY <1>2, <1>3, <1>4
<1>5. CASE UNCHANGED <<statements, owner>>
  BY <1>2, <1>3, <1>5
<1> HIDE DEF O
<1>6. ASSUME NEW c \in Callers, EnterStatement(c) PROVE Owned'
  <2>1. UNCHANGED owner
    BY <1>6 DEF EnterStatement
  <2>2. \/ UNCHANGED statements
        \/ /\ Entries # Handles
           /\ \/ statements' = [statements EXCEPT ![Min(Handles \ Entries)].state = "OPEN"]
              \/ statements' = [statements EXCEPT ![Min(Handles \ Entries)].state = "POISONED"]
    BY <1>6 DEF EnterStatement
  <2>3. CASE UNCHANGED statements
    BY <1>5, <2>1, <2>3
  <2>4. CASE Entries # Handles
    <3>1. PICK h \in Handles : h = Min(Handles \ Entries) /\ statements[h].state = "CLOSED"
      BY <2>4, FreeEntry
    <3>2. owner[h] = NoCaller /\ statements[h].remote_cursor_id = 0
      BY <1>1, <3>1 DEF O
    <3>3. CASE \/ statements' = [statements EXCEPT ![h].state = "OPEN"]
               \/ statements' = [statements EXCEPT ![h].state = "POISONED"]
      <4>1. statements'[h].remote_cursor_id = 0 /\ owner'[h] = NoCaller
        BY <1>1, <2>1, <3>2, <3>3
      <4>2. \A g \in Handles \ {h} : statements'[g] = statements[g] /\ owner'[g] = owner[g]
        BY <1>1, <2>1, <3>3
      <4>3. O(h)'
        BY <4>1 DEF O
      <4> QED
        BY <1>4, <4>2, <4>3
    <3> QED
      BY <2>2, <2>3, <3>1, <3>3
  <2> QED
    BY <2>2, <2>3, <2>4
<1>7. ASSUME NEW c \in Callers, EnterFetch(c) PROVE Owned'
  <2>1. UNCHANGED owner
    BY <1>7 DEF EnterFetch
  <2>2. PICK h \in Handles :
           /\ owner[h] = c
           /\ \/ UNCHANGED statements
              \/ statements' = [statements EXCEPT ![h].state = "FETCHING"]
              \/ statements' = [statements EXCEPT ![h].state = "POISONED"] /\ exchange_failed'
    BY <1>7 DEF EnterFetch, SendFails, Fail
  <2>3. owner[h] # NoCaller /\ statements[h].remote_cursor_id # 0
    BY <1>1, <2>2, NoCallerIsNone DEF O
  <2>4. CASE UNCHANGED statements
    BY <1>5, <2>1, <2>4
  <2>5. CASE \/ statements' = [statements EXCEPT ![h].state = "FETCHING"]
             \/ statements' = [statements EXCEPT ![h].state = "POISONED"] /\ exchange_failed'
    <3>1. /\ statements'[h].remote_cursor_id # 0
          /\ \/ statements'[h].state = "FETCHING"
             \/ statements'[h].state = "POISONED" /\ exchange_failed'
      BY <1>1, <2>3, <2>5
    <3>2. \A g \in Handles \ {h} : statements'[g] = statements[g] /\ owner'[g] = owner[g]
      BY <1>1, <2>1, <2>5
    <3>3. O(h)'
      BY <3>1 DEF O
    <3> QED
      BY <1>4, <3>2, <3>3
  <2> QED
    BY <2>2, <2>4, <2>5
<1>8. ASSUME NEW c \in Callers, ReceiveFails(c) \/ ReceiveError(c) PROVE Owned'
  <2>1. /\ call[c].at = "receive" /\ Poison(c) /\ UNCHANGED owner
        /\ call[c].op # "ExecuteAdmin" => exchange_failed'
    BY <1>8 DEF ReceiveFails, ReceiveError, Answered, Fail
  <2>2. CASE call[c].kind \in Statements \cup {"Fetch"}
    <3>1. PICK h \in Handles : h = call[c].handle
      BY <2>1, <2>2, AnsweredStatement
    <3>2. /\ call[c].kind \in Statements => owner[h] = NoCaller
          /\ call[c].kind = "Fetch" => owner[h] = c /\ call[c].op = "Fetch"
      BY <2>1, <2>2, <3>1, AnsweredStatement DEF Handling, InHand
    <3>3. statements' = [statements EXCEPT ![h].state = "POISONED"]
      BY <2>1, <2>2, <3>1 DEF Poison
    <3>4. /\ statements'[h].state = "POISONED"
          /\ statements'[h].remote_cursor_id = statements[h].remote_cursor_id
          /\ \A g \in Handles \ {h} : statements'[g] = statements[g] /\ owner'[g] = owner[g]
      BY <1>1, <2>1, <3>3
    <3>5. O(h)
      BY <1>1
    <3>6. O(h)'
      BY <2>1, <2>2, <3>2, <3>4, <3>5 DEF O
    <3> QED
      BY <1>4, <3>4, <3>6
  <2>3. CASE call[c].kind \notin Statements \cup {"Fetch"}
    BY <1>5, <2>1, <2>3 DEF Poison
  <2> QED
    BY <2>2, <2>3
<1>9. ASSUME NEW c \in Callers, Answered(c) PROVE Head(responses) \in Answers
  BY <1>9, Take DEF Answered, Messages
<1>10. ASSUME NEW c \in Callers, ReceiveQuery(c) \/ ReceiveExecuted(c) \/ ReceiveCall(c) PROVE Owned'
  <2> DEFINE answer == Head(responses)
  <2>1. /\ Answered(c) /\ call[c].kind \in Statements /\ call[c].at = "receive"
        /\ answer.outcome = "ok" /\ answer.kind = call[c].kind
    BY <1>10 DEF ReceiveQuery, ReceiveExecuted, ReceiveCall, Answered, Statements
  <2>2. PICK h \in Handles : h = call[c].handle
    BY <2>1, AnsweredStatement
  <2>3. owner[h] = NoCaller
    BY <2>1, <2>2, AnsweredStatement
  <2>4. answer.cursor # 0 /\ answer \in Answers
    BY <1>9, <2>1 DEF Answers
  <2> HIDE DEF answer
  <2>5. \/ /\ statements' = [statements EXCEPT ![h] = Closed] /\ UNCHANGED owner
        \/ /\ \E id : /\ statements' = [statements EXCEPT ![h] = [state |-> "EXECUTED",
                                                                  remote_cursor_id |-> id]]
                      /\ id # 0
           /\ owner' = [owner EXCEPT ![h] = c]
    BY <1>10, <2>2, <2>4 DEF ReceiveQuery, ReceiveExecuted, ReceiveCall, answer
  <2>6. CASE statements' = [statements EXCEPT ![h] = Closed] /\ UNCHANGED owner
    <3>1. statements'[h] = Closed /\ owner'[h] = NoCaller
          /\ \A g \in Handles \ {h} : statements'[g] = statements[g] /\ owner'[g] = owner[g]
      BY <1>1, <2>3, <2>6
    <3>2. O(h)'
      BY <3>1 DEF O, Closed
    <3> QED
      BY <1>4, <3>1, <3>2
  <2>7. CASE /\ \E id : /\ statements' = [statements EXCEPT ![h] = [state |-> "EXECUTED",
                                                                  remote_cursor_id |-> id]]
                        /\ id # 0
             /\ owner' = [owner EXCEPT ![h] = c]
    <3>1. /\ statements'[h].state = "EXECUTED" /\ statements'[h].remote_cursor_id # 0
          /\ \A g \in Handles \ {h} : statements'[g] = statements[g] /\ owner'[g] = owner[g]
      BY <1>1, <2>7
    <3>2. O(h)'
      BY <3>1 DEF O
    <3> QED
      BY <1>4, <3>1, <3>2
  <2> QED
    BY <2>5, <2>6, <2>7
<1>11. ASSUME NEW c \in Callers, ReceiveRows(c) PROVE Owned'
  <2>1. CASE UNCHANGED statements
    BY <1>5, <1>11, <2>1 DEF ReceiveRows
  <2>2. CASE statements' # statements
    <3>1. /\ call[c].at = "receive" /\ call[c].kind = "Fetch" /\ UNCHANGED owner
          /\ statements' = [statements EXCEPT ![call[c].handle].state = "EXHAUSTED"]
      BY <1>11, <2>2 DEF ReceiveRows, Answered
    <3>2. PICK h \in Handles : h = call[c].handle /\ owner[h] = c
      BY <3>1, AnsweredStatement
    <3>3. /\ statements'[h].state = "EXHAUSTED"
          /\ statements'[h].remote_cursor_id = statements[h].remote_cursor_id
          /\ \A g \in Handles \ {h} : statements'[g] = statements[g] /\ owner'[g] = owner[g]
      BY <1>1, <3>1, <3>2
    <3>4. O(h) /\ owner[h] # NoCaller /\ owner'[h] = owner[h]
      BY <1>1, <3>1, <3>2, NoCallerIsNone
    <3>5. O(h)'
      BY <3>3, <3>4 DEF O
    <3> QED
      BY <1>4, <3>3, <3>5
  <2> QED
    BY <2>1, <2>2
<1>12. ASSUME NEW h \in Handles, owner' = [owner EXCEPT ![h] = NoCaller], UNCHANGED statements
       PROVE  Owned'
  <2>1. /\ owner'[h] = NoCaller /\ statements'[h] = statements[h]
        /\ \A g \in Handles \ {h} : statements'[g] = statements[g] /\ owner'[g] = owner[g]
    BY <1>1, <1>12
  <2>2. O(h)
    BY <1>1
  <2>3. O(h)'
    BY <2>1, <2>2 DEF O
  <2> QED
    BY <1>4, <2>1, <2>3
<1>13. ASSUME NEW c \in Callers, Complete(c) PROVE Owned'
  <2>1. /\ UNCHANGED statements /\ call[c].handle \in Handles \cup {0}
        /\ \/ UNCHANGED owner
           \/ call[c].handle # 0 /\ owner' = [owner EXCEPT ![call[c].handle] = NoCaller]
    BY <1>13 DEF Complete, TypeOK
  <2> QED
    BY <1>5, <1>12, <2>1
<1>14. ASSUME NEW c \in Callers, CursorClose(c) PROVE Owned'
  BY <1>5, <1>12, <1>14 DEF CursorClose
<1>15. ASSUME NEW c \in Callers, CursorClosed(c) PROVE Owned'
  <2>1. PICK h \in Handles : /\ statements' = [statements EXCEPT ![h] = Closed]
                             /\ owner' = [owner EXCEPT ![h] = NoCaller]
    BY <1>15, HandleInHand DEF CursorClosed
  <2>2. /\ statements'[h] = Closed /\ owner'[h] = NoCaller
        /\ \A g \in Handles \ {h} : statements'[g] = statements[g] /\ owner'[g] = owner[g]
    BY <1>1, <2>1
  <2>3. O(h)'
    BY <2>2 DEF O, Closed
  <2> QED
    BY <1>4, <2>2, <2>3
<1>16. ASSUME NEW c \in Callers, Close(c) PROVE Owned'
  <2>1. \A h \in Handles : statements'[h] = Closed /\ owner'[h] = NoCaller
    BY <1>16 DEF Close
  <2> QED
    BY <1>3, <2>1 DEF O, Closed
<1>17. ASSUME NEW c \in Callers,
              Begin(c) \/ BeginRefused(c) \/ FetchRefused(c) \/ EnterTransaction(c) \/ ReadLob(c)
              \/ ReceiveReset(c) \/ ReceiveStatus(c)
       PROVE  Owned'
  BY <1>5, <1>17 DEF Begin, BeginRefused, FetchRefused, EnterTransaction, ReadLob, ReceiveReset,
     ReceiveStatus, sessionVars, registry
<1>18. ASSUME Cancel \/ Server PROVE Owned'
  BY <1>5, <1>18 DEF Cancel, Server, ServerTakes, ServerAnswers, ServerInterrupted,
     ServerInterruptedIdle, ServerResets, clientVars, registry
<1>19. CASE UNCHANGED vars
  BY <1>5, <1>19 DEF vars
<1> QED
  BY <1>6, <1>7, <1>8, <1>10, <1>11, <1>13, <1>14, <1>15, <1>16, <1>17, <1>18, <1>19
  DEF Next, Operate, Receive

LEMMA IInvInit == Init => IInv
<1> SUFFICES ASSUME Init PROVE IInv
  OBVIOUS
<1>1. TypeOK
  BY TypeOKInit
<1>2. Messages
  BY DEF Init, Messages
<1>3. Numbered
  <2>1. ToSet(requests) = {} /\ Ascending(requests)
    BY EmptyQueue DEF Init
  <2>2. 0 \in 0..sent /\ server_cursors \subseteq 1..(2 * 0)
    BY DEF Init
  <2>3. server.state = "idle"
    BY DEF Init, ServerIdle
  <2> QED
    BY <2>1, <2>2, <2>3 DEF Numbered
<1>4. ServerTyped
  BY DEF Init, ServerTyped, ServerIdle
<1>5. Handling
  BY DEF Init, Handling, InHand, Outside
<1>6. Owned
  BY DEF Init, Owned, Closed
<1> QED
  BY <1>1, <1>2, <1>3, <1>4, <1>5, <1>6 DEF IInv

LEMMA IInvStep == ASSUME IInv, [Next]_vars PROVE IInv'
<1>1. TypeOK'
  <2>1. /\ CallTyped' /\ StatementsTyped' /\ FlagsTyped' /\ ServerSideTyped' /\ BoundsTyped'
    BY CallTypedStep, StatementsTypedStep, FlagsTypedStep, ServerSideTypedStep,
       BoundsTypedStep DEF IInv
  <2> QED
    BY <2>1, TypeOKPartsNext
<1>2. Messages' /\ Numbered' /\ ServerTyped'
  BY MessagesStep, NumberedStep, ServerTypedStep DEF IInv
<1>3. Handling' /\ Owned'
  BY HandlingStep, OwnedStep DEF IInv
<1> QED
  BY <1>1, <1>2, <1>3 DEF IInv

(* A closed session takes no step.                                         *)
LEMMA ShutIsStill ==
    ASSUME Shut, ~open, [Next]_vars
    PROVE  UNCHANGED vars
<1>1. /\ \A c \in Callers : call[c].at = "idle"
      /\ \A h \in Handles : owner[h] = NoCaller
      /\ requests = <<>> /\ responses = <<>> /\ server.state = "idle"
  BY DEF Shut, Outside, ServerIdle
<1>2. ~Server
  BY <1>1 DEF Server, ServerTakes, ServerAnswers, ServerInterrupted, ServerInterruptedIdle,
     ServerResets, Arrived
<1>3. ~Cancel
  BY DEF Cancel, RequireOpen
<1>4. ASSUME NEW c \in Callers, Operate(c) PROVE FALSE
  <2>1. ~(Begin(c) \/ BeginRefused(c) \/ Close(c))
    BY DEF Begin, BeginRefused, Close, RequireOpen
  <2>2. ~(FetchRefused(c) \/ EnterFetch(c) \/ CursorClose(c))
    BY <1>1, NoCallerIsNone DEF FetchRefused, EnterFetch, CursorClose
  <2>3. ~(EnterStatement(c) \/ EnterTransaction(c) \/ ReadLob(c) \/ ReceiveFails(c) \/ Complete(c)
          \/ CursorClosed(c))
    BY <1>1 DEF EnterStatement, EnterTransaction, ReadLob, ReceiveFails, Complete, CursorClosed
  <2>4. ~Receive(c)
    BY <1>1 DEF Receive, ReceiveReset, ReceiveError, ReceiveQuery, ReceiveExecuted, ReceiveCall,
       ReceiveRows, ReceiveStatus, Answered
  <2> QED
    BY <1>4, <2>1, <2>2, <2>3, <2>4 DEF Operate
<1> QED
  BY <1>2, <1>3, <1>4 DEF Next

(* Nothing but Close changes whether the session is open.                  *)
LEMMA OpenUntilClose ==
    ASSUME [Next]_vars
    PROVE  open' = open \/ \E c \in Callers : Close(c)
<1>1. ASSUME NEW c \in Callers, EnterStatement(c) \/ EnterTransaction(c) \/ EnterFetch(c) \/ ReadLob(c)
      PROVE  open' = open
  BY <1>1 DEF EnterStatement, EnterTransaction, EnterFetch, ReadLob
<1>2. ASSUME NEW c \in Callers, Receive(c) \/ ReceiveFails(c) PROVE open' = open
  BY <1>2 DEF Receive, ReceiveReset, ReceiveError, ReceiveQuery, ReceiveExecuted, ReceiveCall,
     ReceiveRows, ReceiveStatus, ReceiveFails, sessionVars
<1>3. ASSUME NEW c \in Callers, Begin(c) \/ BeginRefused(c) \/ FetchRefused(c) \/ Complete(c)
                                \/ CursorClose(c) \/ CursorClosed(c)
      PROVE  open' = open
  BY <1>3 DEF Begin, BeginRefused, FetchRefused, Complete, CursorClose, CursorClosed, sessionVars
<1>4. ASSUME Cancel \/ Server PROVE open' = open
  BY <1>4 DEF Cancel, Server, ServerTakes, ServerAnswers, ServerInterrupted,
     ServerInterruptedIdle, ServerResets, clientVars
<1> QED
  BY <1>1, <1>2, <1>3, <1>4 DEF Next, Operate, vars

LEMMA ShutStep == ASSUME Shut, [Next]_vars PROVE Shut'
<1>1. CASE ~open
  <2>1. UNCHANGED vars
    BY <1>1, ShutIsStill
  <2> QED
    BY <2>1 DEF Shut, vars, Closed, Outside, ServerIdle
<1>2. CASE open /\ \E c \in Callers : Close(c)
  BY <1>2 DEF Close, Shut
<1>3. CASE open /\ open' = open
  BY <1>3 DEF Shut
<1> QED
  BY <1>1, <1>2, <1>3, OpenUntilClose

(* A failed exchange is not forgotten while the session is open.           *)
LEMMA BrokenStays ==
    ASSUME IInv, [Next]_vars, Broken, open'
    PROVE  Broken'
<1>1. CASE exchange_failed
  BY <1>1, FailureIsKept DEF Broken
<1>2. ASSUME NEW h \in Handles, statements[h].state = "POISONED", ~exchange_failed
      PROVE  Broken'
  <2>1. owner[h] = NoCaller /\ statements \in [Handles -> [state : States, remote_cursor_id : CursorIds \cup {0}]]
    BY <1>2 DEF IInv, Owned, TypeOK
  <2>2. CASE statements'[h] = statements[h]
    BY <1>2, <2>2 DEF Broken
  <2>3. CASE UNCHANGED statements
    BY <2>2, <2>3
  <2>4. ASSUME NEW c \in Callers, EnterStatement(c) PROVE Broken'
    <3>1. \/ UNCHANGED statements
          \/ /\ Entries # Handles
             /\ \E state \in States : statements' = [statements EXCEPT ![Min(Handles \ Entries)].state = state]
      BY <2>4 DEF EnterStatement, States
    <3>2. Entries # Handles => Min(Handles \ Entries) # h
      BY <1>2, FreeEntry
    <3> QED
      BY <2>1, <2>2, <3>1, <3>2
  <2>5. ASSUME NEW c \in Callers, EnterFetch(c) PROVE Broken'
    <3>1. PICK g \in Handles :
             /\ owner[g] = c
             /\ UNCHANGED statements \/ \E state \in States :
                                           statements' = [statements EXCEPT ![g].state = state]
      BY <2>5 DEF EnterFetch, States
    <3>2. g # h
      BY <2>1, <3>1, NoCallerIsNone
    <3> QED
      BY <2>1, <2>2, <3>1, <3>2
  <2>6. ASSUME NEW c \in Callers, ReceiveFails(c) \/ ReceiveError(c) PROVE Broken'
    <3>1. Poison(c)
      BY <2>6 DEF ReceiveFails, ReceiveError
    <3>2. statements'[h].state = "POISONED"
      BY <1>2, <2>1, <3>1 DEF Poison
    <3> QED
      BY <3>2 DEF Broken
  <2>7. ASSUME NEW c \in Callers,
               ReceiveQuery(c) \/ ReceiveExecuted(c) \/ ReceiveCall(c) \/ ReceiveRows(c)
        PROVE  Broken'
    <3>1. /\ call[c].at = "receive" /\ call[c].kind \in Statements \cup {"Fetch", "Lob"}
          /\ call[c].kind = "Lob" => UNCHANGED statements
          /\ \/ UNCHANGED statements
             \/ \E entry : statements' = [statements EXCEPT ![call[c].handle] = entry]
             \/ statements' = [statements EXCEPT ![call[c].handle].state = "EXHAUSTED"]
      BY <2>7 DEF ReceiveQuery, ReceiveExecuted, ReceiveCall, ReceiveRows, Answered, Statements
    <3>2. call[c].kind # "Lob" => call[c].handle # h
      BY <1>2, <3>1, AnsweredStatement DEF IInv
    <3> QED
      BY <2>1, <2>2, <3>1, <3>2
  <2>8. ASSUME NEW c \in Callers, CursorClosed(c) PROVE Broken'
    <3>1. call[c].handle # h
      BY <2>1, <2>8, HandleInHand, NoCallerIsNone DEF CursorClosed, IInv
    <3> QED
      BY <2>1, <2>2, <2>8, <3>1 DEF CursorClosed
  <2>9. ASSUME NEW c \in Callers, Close(c) PROVE Broken'
    BY <2>9 DEF Close
  <2>10. ASSUME NEW c \in Callers,
                Begin(c) \/ BeginRefused(c) \/ FetchRefused(c) \/ EnterTransaction(c) \/ ReadLob(c)
                \/ ReceiveReset(c) \/ ReceiveStatus(c) \/ Complete(c) \/ CursorClose(c)
         PROVE  Broken'
    BY <2>3, <2>10 DEF Begin, BeginRefused, FetchRefused, EnterTransaction, ReadLob, ReceiveReset,
       ReceiveStatus, Complete, CursorClose, sessionVars, registry
  <2>11. ASSUME Cancel \/ Server PROVE Broken'
    BY <2>3, <2>11 DEF Cancel, Server, ServerTakes, ServerAnswers, ServerInterrupted,
       ServerInterruptedIdle, ServerResets, clientVars, registry
  <2>12. CASE UNCHANGED vars
    BY <2>3, <2>12 DEF vars
  <2> QED
    BY <2>4, <2>5, <2>6, <2>7, <2>8, <2>9, <2>10, <2>11, <2>12 DEF Next, Operate, Receive
<1> QED
  BY <1>1, <1>2 DEF Broken

-----------------------------------------------------------------------------
(* The exchange of markers                                                 *)

LEMMA PutNone ==
    ASSUME NEW S, NEW q \in Seq(S), NEW e \in S, NEW T
    PROVE  None(Append(q, e), T) <=> None(q, T) /\ e \notin T
BY Put DEF None

LEMMA TakeNone ==
    ASSUME NEW S, NEW q \in Seq(S), q # <<>>, NEW T
    PROVE  None(q, T) <=> None(Tail(q), T) /\ Head(q) \notin T
BY Take DEF None

(* An error that is not the answer to a cancellation leaves none to answer. *)
LEMMA CancellingAlone ==
    ASSUME Cancelling,
           UNCHANGED <<requests, responses, server, cancellation_requested>>,
           UNCHANGED pending,
           unusable => unusable'
    PROVE  Cancelling'
BY DEF Cancelling, InterruptOut, ResetOut, ResetBack, CancelledBack

LEMMA ErrorsCancelNothing ==
    ASSUME TypeOK, NEW c \in Callers, NEW op, Fail(c, op, FALSE)
    PROVE  UNCHANGED pending /\ (unusable => unusable')
BY DEF Fail, ObserveError, cancellation, TypeOK

LEMMA CancellingStep ==
    ASSUME IInv, Cancelling, [Next]_vars
    PROVE  Cancelling'
<1> DEFINE S == {RESET} \cup Cancelled
<1>1. /\ requests \in Seq(CallMessages \cup Markers) /\ responses \in Seq(Answers \cup {RESET})
      /\ RESET \in CallMessages \cup Markers /\ INTERRUPT \in CallMessages \cup Markers
      /\ RESET \in Answers \cup {RESET}
      /\ {pending, unusable, cancellation_requested, server.interrupted} \subseteq BOOLEAN
      /\ \A m \in CallMessages : m \notin Markers /\ m # INTERRUPT /\ m # RESET
      /\ INTERRUPT # RESET /\ INTERRUPT \in Markers /\ RESET \in Markers
      /\ RESET \notin Cancelled /\ RESET \in S
      /\ server.state \in {"idle", "running", "reset"}
  BY MessageKinds DEF IInv, Messages, Markers, TypeOK
<1>2. \A m \in CallMessages \cup Markers : \A T :
         None(Append(requests, m), T) <=> None(requests, T) /\ m \notin T
  BY <1>1, PutNone
<1>3. \A m \in Answers \cup {RESET} : \A T :
         None(Append(responses, m), T) <=> None(responses, T) /\ m \notin T
  BY <1>1, PutNone
<1>4. requests # <<>> =>
         /\ Head(requests) \in CallMessages \cup Markers
         /\ \A T : None(requests, T) <=> None(Tail(requests), T) /\ Head(requests) \notin T
         /\ \A T : Single(requests, T) => /\ Single(Tail(requests), T)
                                          /\ Head(requests) \in T => None(Tail(requests), T)
  BY <1>1, Take, TakeNone, TakeSingle
<1>5. responses # <<>> =>
         /\ Head(responses) \in Answers \cup {RESET}
         /\ \A T : None(responses, T) <=> None(Tail(responses), T) /\ Head(responses) \notin T
         /\ \A T : Single(responses, T) => /\ Single(Tail(responses), T)
                                           /\ Head(responses) \in T => None(Tail(responses), T)
  BY <1>1, Take, TakeNone, TakeSingle
<1>6. /\ None(requests, Markers) <=> ~InterruptOut /\ ~ResetOut
      /\ None(responses, S) <=> ~ResetBack /\ ~CancelledBack
      /\ requests # <<>> => (None(Tail(requests), Markers) <=> None(Tail(requests), {INTERRUPT})
                                                                 /\ None(Tail(requests), {RESET}))
      /\ responses # <<>> => (None(Tail(responses), S) <=> None(Tail(responses), {RESET})
                                                             /\ None(Tail(responses), Cancelled))
  BY DEF None, Markers, InterruptOut, ResetOut, ResetBack, CancelledBack
<1>7. \A m \in CallMessages \cup Markers : \A T :
         Single(requests, T) /\ (m \notin T \/ None(requests, T)) => Single(Append(requests, m), T)
  BY <1>1, PutSingle
<1>8. \A m \in Answers \cup {RESET} : \A T :
         Single(responses, T) /\ (m \notin T \/ None(responses, T)) => Single(Append(responses, m), T)
  BY <1>1, PutSingle
<1> HIDE DEF S
<1>9. CASE UNCHANGED <<requests, responses, server, cancellation_requested, pending>>
           /\ (unusable => unusable')
  BY <1>9, CancellingAlone
<1>10. CASE unusable'
  BY <1>10 DEF Cancelling
<1>11. ASSUME NEW c \in Callers, NEW op, NEW kind \in CallKinds, NEW h \in Handles \cup {0},
              kind = "Fetch" => h \in Handles,
              Send(c, op, kind, h), UNCHANGED cancellation_requested
       PROVE  Cancelling'
  <2>1. Sends /\ UNCHANGED <<pending, unusable>>
    BY <1>11, SendIsSends DEF Send, cancellation, IInv
  <2>2. PICK m \in CallMessages : requests' = Append(requests, m)
    <3>1. PICK k \in CallKinds, closes \in SUBSET CursorIds, cursor \in CursorIds \cup {0} :
             requests' = Append(requests, Request(k, closes, cursor))
      BY <2>1 DEF Sends
    <3>2. sent + 1 \in 1..MaximumRequests
      BY <2>1, CallsAssumption DEF Sends, IInv, TypeOK, CallsAssumption
    <3> QED
      BY <3>1, <3>2 DEF Request, CallMessages
  <2>3. UNCHANGED <<responses, server>>
    BY <2>1 DEF Sends
  <2>4. /\ InterruptOut' <=> InterruptOut
        /\ ResetOut' <=> ResetOut
        /\ ResetBack' <=> ResetBack
        /\ CancelledBack' <=> CancelledBack
    BY <1>1, <1>2, <2>2, <2>3 DEF InterruptOut, ResetOut, ResetBack, CancelledBack
  <2>5. Single(requests, Markers) => Single(requests', Markers)
    BY <1>1, <1>7, <2>2
  <2> QED
    BY <1>11, <2>1, <2>3, <2>4, <2>5 DEF Cancelling
<1>12. CASE Cancel
  <2>1. CASE unusable'
    BY <1>10, <2>1
  <2>2. CASE /\ ~cancellation_requested /\ pending' = TRUE /\ cancellation_requested' = TRUE
             /\ requests' = Append(requests, INTERRUPT) /\ UNCHANGED unusable
    <3>1. UNCHANGED <<responses, server>> /\ ~pending /\ ~unusable
      BY <1>12 DEF Cancel, serverVars, RequireOpen, CanUseConnection
    <3>2. /\ ~InterruptOut /\ ~ResetOut /\ ~ResetBack /\ ~CancelledBack
          /\ server.state # "reset" /\ ~server.interrupted
          /\ Single(requests, Markers) /\ Single(responses, {RESET} \cup Cancelled)
      BY <2>2, <3>1 DEF Cancelling
    <3>3. InterruptOut' /\ ~ResetOut' /\ ~ResetBack' /\ ~CancelledBack'
      BY <1>1, <1>2, <2>2, <3>1, <3>2 DEF InterruptOut, ResetOut, ResetBack, CancelledBack
    <3>4. Single(requests', Markers)
      BY <1>1, <1>6, <1>7, <2>2, <3>2
    <3> QED
      BY <2>2, <3>1, <3>2, <3>3, <3>4 DEF Cancelling
  <2> QED
    BY <1>12, <2>1, <2>2 DEF Cancel
<1>13. ASSUME NEW c \in Callers, ReceiveReset(c) PROVE Cancelling'
  <2>1. /\ responses # <<>> /\ Head(responses) = RESET /\ responses' = Tail(responses)
        /\ cancellation_requested' = FALSE /\ UNCHANGED <<pending, unusable, server>>
        /\ requests' = IF cancellation_requested THEN Append(requests, RESET) ELSE requests
    BY <1>13 DEF ReceiveReset, sessionVars, serverVars
  <2>2. SUFFICES ASSUME ~unusable PROVE Cancelling'
    BY <1>10, <2>1
  <2>3. ResetBack
    BY <1>5, <2>1 DEF ResetBack
  <2>4. /\ cancellation_requested /\ ~InterruptOut /\ ~ResetOut /\ pending
        /\ server.state = "reset" /\ ~server.interrupted
        /\ Single(requests, Markers) /\ Single(responses, S)
    BY <1>1, <2>2, <2>3 DEF Cancelling, S, IInv, ServerTyped
  <2>5. requests' = Append(requests, RESET)
    BY <2>1, <2>4
  <2>6. ~InterruptOut' /\ ResetOut' /\ ~ResetBack' /\ ~CancelledBack'
    BY <1>1, <1>2, <1>5, <1>6, <2>1, <2>4, <2>5 DEF InterruptOut, ResetOut, ResetBack,
       CancelledBack
  <2>7. Single(requests', Markers) /\ Single(responses', S)
    BY <1>1, <1>5, <1>6, <1>7, <2>1, <2>4, <2>5
  <2> QED
    BY <2>1, <2>4, <2>6, <2>7 DEF Cancelling, S
<1>14. ASSUME NEW c \in Callers, Answered(c), UNCHANGED <<requests, server, cancellation_requested>>,
              unusable => unusable',
              ~unusable' => \/ UNCHANGED pending
                            \/ Head(responses) \in Cancelled /\ pending' = FALSE
       PROVE  Cancelling'
  <2>1. responses # <<>> /\ Head(responses) # RESET /\ responses' = Tail(responses)
    BY <1>14 DEF Answered
  <2>2. SUFFICES ASSUME ~unusable, ~unusable' PROVE Cancelling'
    BY <1>10, <1>14
  <2>3. /\ ResetBack' <=> ResetBack
        /\ Head(responses) \notin Cancelled => (CancelledBack' <=> CancelledBack)
        /\ Head(responses) \in Cancelled => CancelledBack
        /\ Single(responses', S)
    BY <1>1, <1>5, <2>1, <2>2 DEF ResetBack, CancelledBack, Cancelling, S
  <2>4. Head(responses) \in Cancelled => ~CancelledBack'
    BY <1>5, <1>6, <2>1, <2>2 DEF Cancelling, S, CancelledBack
  <2>5. (InterruptOut' <=> InterruptOut) /\ (ResetOut' <=> ResetOut)
    BY <1>14 DEF InterruptOut, ResetOut
  <2>6. Single(requests', Markers)
    BY <1>14, <2>2 DEF Cancelling
  <2> QED
    BY <1>14, <2>2, <2>3, <2>4, <2>5, <2>6 DEF Cancelling, S
<1>15. ASSUME NEW c \in Callers, ReceiveError(c) PROVE Cancelling'
  <2>1. Answered(c) /\ UNCHANGED <<requests, server, cancellation_requested>>
    BY <1>15 DEF ReceiveError, serverVars
  <2>2. Head(responses) \in Answers
    BY <1>5, <2>1 DEF Answered
  <2>3. CASE Head(responses).outcome = "ORA-01013"
    <3>1. Head(responses) \in Cancelled
      BY <2>2, <2>3 DEF Cancelled
    <3>2. Fail(c, call[c].op, TRUE)
      BY <1>15, <2>3 DEF ReceiveError
    <3>3. (unusable => unusable') /\ (~unusable' => UNCHANGED pending \/ pending' = FALSE)
      BY <1>1, <3>2 DEF Fail, ObserveError, cancellation
    <3> QED
      BY <1>14, <2>1, <3>1, <3>3
  <2>4. CASE Head(responses).outcome # "ORA-01013"
    <3>1. Fail(c, call[c].op, FALSE)
      BY <1>15, <2>4 DEF ReceiveError
    <3>2. UNCHANGED pending /\ (unusable => unusable')
      BY <3>1, ErrorsCancelNothing DEF IInv
    <3> QED
      BY <1>14, <2>1, <3>2
  <2> QED
    BY <2>3, <2>4
<1>16. ASSUME NEW c \in Callers,
              ReceiveQuery(c) \/ ReceiveExecuted(c) \/ ReceiveCall(c) \/ ReceiveRows(c) \/ ReceiveStatus(c)
       PROVE  Cancelling'
  <2>1. Answered(c) /\ UNCHANGED <<requests, server, cancellation_requested, pending, unusable>>
    BY <1>16 DEF ReceiveQuery, ReceiveExecuted, ReceiveCall, ReceiveRows, ReceiveStatus,
       cancellation, serverVars, channelVars, sessionVars
  <2> QED
    BY <1>14, <2>1
<1>17. ASSUME NEW c \in Callers, NEW op, Fail(c, op, FALSE),
              UNCHANGED <<requests, responses, server, cancellation_requested>>
       PROVE  Cancelling'
  BY <1>9, <1>17, ErrorsCancelNothing DEF IInv
<1>18. ASSUME NEW c \in Callers, EnterStatement(c) PROVE Cancelling'
  <2>1. PICK op \in Operations \cap Statements :
           \/ Fail(c, op, FALSE) /\ UNCHANGED wireVars
           \/ Entries # Handles /\ Send(c, op, op, Min(Handles \ Entries))
    BY <1>18 DEF EnterStatement, SendFails
  <2>2. op \in CallKinds /\ op # "Fetch"
    BY DEF CallKinds, AllOperations, Statements
  <2>3. UNCHANGED cancellation_requested
    BY <1>18 DEF EnterStatement
  <2> QED
    BY <1>11, <1>17, <2>1, <2>2, <2>3, FreeEntry DEF wireVars
<1>19. ASSUME NEW c \in Callers, EnterTransaction(c) PROVE Cancelling'
  <2>1. \/ Send(c, "Commit", "Commit", 0)
        \/ Fail(c, "Commit", FALSE) /\ UNCHANGED wireVars
    BY <1>19 DEF EnterTransaction, SendFails
  <2>2. "Commit" \in CallKinds /\ UNCHANGED cancellation_requested
    BY <1>19 DEF CallKinds, AllOperations, EnterTransaction
  <2> QED
    BY <1>11, <1>17, <2>1, <2>2 DEF wireVars
<1>20. ASSUME NEW c \in Callers, EnterFetch(c) PROVE Cancelling'
  <2>1. PICK h \in Handles :
           \/ Fail(c, "Fetch", FALSE) /\ UNCHANGED wireVars
           \/ Send(c, "Fetch", "Fetch", h)
           \/ UNCHANGED <<wireVars, cancellation>>
    BY <1>20 DEF EnterFetch, SendFails
  <2>2. "Fetch" \in CallKinds /\ UNCHANGED cancellation_requested
    BY <1>20 DEF CallKinds, EnterFetch
  <2> QED
    BY <1>9, <1>11, <1>17, <2>1, <2>2 DEF wireVars, cancellation
<1>21. ASSUME NEW c \in Callers, ReadLob(c) PROVE Cancelling'
  <2>1. \/ Fail(c, "Fetch", FALSE) /\ UNCHANGED wireVars
        \/ Send(c, "Fetch", "Lob", call[c].handle)
    BY <1>21 DEF ReadLob, SendFails
  <2>2. "Lob" \in CallKinds /\ UNCHANGED cancellation_requested
    BY <1>21 DEF CallKinds, ReadLob
  <2>3. call[c].handle \in Handles \cup {0}
    BY DEF IInv, TypeOK
  <2> QED
    BY <1>11, <1>17, <2>1, <2>2, <2>3 DEF wireVars
<1>22. ASSUME NEW c \in Callers, ReceiveFails(c) PROVE Cancelling'
  BY <1>17, <1>22 DEF ReceiveFails, wireVars
<1>23. ASSUME NEW c \in Callers, BeginRefused(c) PROVE Cancelling'
  <2>1. UNCHANGED <<requests, responses, server, cancellation_requested>>
    BY <1>23 DEF BeginRefused, wireVars, channelVars
  <2>2. UNCHANGED pending /\ (unusable => unusable')
    BY <1>1, <1>23 DEF BeginRefused, ObserveError, cancellation
  <2> QED
    BY <1>9, <2>1, <2>2
<1>24. ASSUME NEW c \in Callers,
              Begin(c) \/ FetchRefused(c) \/ CursorClose(c) \/ CursorClosed(c) \/ Complete(c)
       PROVE  Cancelling'
  BY <1>9, <1>10, <1>24 DEF Begin, FetchRefused, CursorClose, CursorClosed, Complete, sessionVars,
     channelVars, wireVars, cancellation
<1>25. ASSUME NEW c \in Callers, Close(c) PROVE Cancelling'
  <2>1. /\ requests' = <<>> /\ responses' = <<>> /\ server' = ServerIdle
        /\ cancellation_requested' = FALSE
    BY <1>25 DEF Close
  <2>2. ~InterruptOut' /\ ~ResetOut' /\ ~ResetBack' /\ ~CancelledBack'
    BY <2>1, EmptyQueue DEF InterruptOut, ResetOut, ResetBack, CancelledBack
  <2> QED
    BY <2>1, <2>2, EmptyQueue DEF Cancelling, ServerIdle
<1>26. CASE ServerTakes
  <2>1. /\ requests # <<>> /\ Head(requests).type = "CALL" /\ server.state = "idle"
        /\ requests' = Tail(requests)
        /\ responses' = IF server.interrupted THEN Append(responses, RESET) ELSE responses
        /\ server'.state = IF server.interrupted THEN "reset" ELSE "running"
        /\ server'.interrupted = FALSE
        /\ UNCHANGED <<pending, unusable, cancellation_requested>>
    BY <1>26 DEF ServerTakes, Arrived, clientVars
  <2>2. SUFFICES ASSUME ~unusable PROVE Cancelling'
    BY <1>10, <2>1
  <2>3. Head(requests) \in CallMessages
    BY <1>4, <2>1, MessageKinds
  <2>4. (InterruptOut' <=> InterruptOut) /\ (ResetOut' <=> ResetOut) /\ Single(requests', Markers)
    BY <1>1, <1>4, <2>1, <2>2, <2>3 DEF InterruptOut, ResetOut, Cancelling
  <2>5. ~ResetOut /\ ~ResetBack
    BY <2>1, <2>2 DEF Cancelling
  <2>6. CASE ~server.interrupted
    BY <2>1, <2>2, <2>4, <2>5, <2>6 DEF Cancelling, ResetBack, CancelledBack
  <2>7. CASE server.interrupted
    <3>1. cancellation_requested /\ ~InterruptOut /\ ~CancelledBack /\ pending
      BY <1>1, <2>2, <2>7 DEF Cancelling
    <3>2. responses' = Append(responses, RESET) /\ server'.state = "reset"
      BY <2>1, <2>7
    <3>3. ResetBack' /\ ~CancelledBack'
      BY <1>1, <1>3, <3>1, <3>2 DEF ResetBack, CancelledBack
    <3>4. Single(responses', S)
      BY <1>1, <1>6, <1>8, <2>2, <2>5, <3>1, <3>2 DEF Cancelling, S
    <3> QED
      BY <2>1, <2>4, <2>5, <3>1, <3>2, <3>3, <3>4 DEF Cancelling, S
  <2> QED
    BY <1>1, <2>6, <2>7
<1>27. CASE ServerAnswers
  <2>1. PICK m \in Answers : Runs(m)
    BY <1>27, ServerRuns DEF IInv
  <2>2. /\ m \notin Cancelled /\ m # RESET /\ responses' = Append(responses, m)
        /\ server'.state = "idle" /\ ~server'.interrupted
    BY <2>1, MessageKinds DEF Runs, Cancelled, ServerIdle
  <2>3. /\ UNCHANGED <<requests, pending, unusable, cancellation_requested>>
        /\ server.state = "running"
    BY <1>27 DEF ServerAnswers, clientVars
  <2>4. SUFFICES ASSUME ~unusable PROVE Cancelling'
    BY <1>10, <2>3
  <2>5. /\ InterruptOut' <=> InterruptOut
        /\ ResetOut' <=> ResetOut
        /\ ResetBack' <=> ResetBack
        /\ CancelledBack' <=> CancelledBack
    BY <1>1, <1>3, <2>2, <2>3 DEF InterruptOut, ResetOut, ResetBack, CancelledBack
  <2>6. Single(responses', S) /\ Single(requests', Markers)
    BY <1>8, <2>2, <2>3, <2>4 DEF Cancelling, S
  <2> QED
    BY <1>1, <2>2, <2>3, <2>4, <2>5, <2>6 DEF Cancelling, S
<1>28. CASE ServerInterrupted
  <2>1. /\ requests # <<>> /\ Head(requests).type = "INTERRUPT" /\ server.state = "running"
        /\ requests' = Tail(requests) /\ responses' = Append(responses, RESET)
        /\ server' = [server EXCEPT !.state = "reset"]
        /\ UNCHANGED <<pending, unusable, cancellation_requested>>
    BY <1>28 DEF ServerInterrupted, Arrived, clientVars
  <2>2. SUFFICES ASSUME ~unusable PROVE Cancelling'
    BY <1>10, <2>1
  <2>3. Head(requests) = INTERRUPT
    BY <1>4, <2>1, MessageKinds
  <2>4. InterruptOut
    BY <1>4, <2>1, <2>3 DEF InterruptOut
  <2>5. cancellation_requested /\ ~server.interrupted /\ ~ResetBack /\ ~CancelledBack /\ pending
    BY <1>1, <2>2, <2>4 DEF Cancelling
  <2>6. ~InterruptOut' /\ ~ResetOut' /\ Single(requests', Markers)
    BY <1>1, <1>4, <1>6, <2>1, <2>2, <2>3 DEF InterruptOut, ResetOut, Cancelling
  <2>7. ResetBack' /\ ~CancelledBack' /\ Single(responses', S)
    BY <1>1, <1>3, <1>6, <1>8, <2>1, <2>2, <2>5 DEF ResetBack, CancelledBack, Cancelling, S
  <2>8. server'.state = "reset" /\ server'.interrupted = server.interrupted
    BY <2>1 DEF IInv, TypeOK
  <2> QED
    BY <2>1, <2>5, <2>6, <2>7, <2>8 DEF Cancelling, S
<1>29. CASE ServerInterruptedIdle
  <2>1. /\ requests # <<>> /\ Head(requests).type = "INTERRUPT" /\ server.state = "idle"
        /\ requests' = Tail(requests) /\ UNCHANGED responses
        /\ \E kept \in BOOLEAN : server' = [server EXCEPT !.interrupted = kept]
        /\ UNCHANGED <<pending, unusable, cancellation_requested>>
    BY <1>29 DEF ServerInterruptedIdle, Arrived, clientVars
  <2>2. SUFFICES ASSUME ~unusable PROVE Cancelling'
    BY <1>10, <2>1
  <2>3. Head(requests) = INTERRUPT
    BY <1>4, <2>1, MessageKinds
  <2>4. InterruptOut
    BY <1>4, <2>1, <2>3 DEF InterruptOut
  <2>5. cancellation_requested /\ ~ResetBack /\ ~CancelledBack /\ pending
    BY <1>1, <2>2, <2>4 DEF Cancelling
  <2>6. ~InterruptOut' /\ ~ResetOut' /\ Single(requests', Markers)
    BY <1>1, <1>4, <1>6, <2>1, <2>2, <2>3 DEF InterruptOut, ResetOut, Cancelling
  <2>7. ~ResetBack' /\ ~CancelledBack' /\ Single(responses', S)
    BY <2>1, <2>2, <2>5 DEF ResetBack, CancelledBack, Cancelling, S
  <2>8. server'.state = "idle"
    BY <2>1 DEF IInv, TypeOK
  <2> QED
    BY <2>1, <2>5, <2>6, <2>7, <2>8 DEF Cancelling, S
<1>30. CASE ServerResets
  <2>1. /\ requests # <<>> /\ server.state = "reset" /\ requests' = Tail(requests)
        /\ \/ /\ Head(requests).type = "RESET" /\ server' = ServerIdle
              /\ responses' = Append(responses, Answer("ORA-01013", 0, 0, FALSE))
           \/ Head(requests).type # "RESET" /\ UNCHANGED <<responses, server>>
        /\ UNCHANGED <<pending, unusable, cancellation_requested>>
    BY <1>30 DEF ServerResets, Arrived, clientVars
  <2>2. SUFFICES ASSUME ~unusable PROVE Cancelling'
    BY <1>10, <2>1
  <2>3. ~InterruptOut /\ ~CancelledBack /\ pending /\ ~server.interrupted
    BY <1>1, <2>1, <2>2 DEF Cancelling, IInv, ServerTyped
  <2>4. CASE Head(requests).type # "RESET"
    <3>1. Head(requests) # INTERRUPT
      BY <1>4, <2>1, <2>3 DEF InterruptOut
    <3>2. Head(requests) \in CallMessages
      BY <1>4, <2>1, <2>4, <3>1, MessageKinds DEF Markers
    <3>3. (InterruptOut' <=> InterruptOut) /\ (ResetOut' <=> ResetOut) /\ Single(requests', Markers)
      BY <1>1, <1>4, <2>1, <2>2, <3>2 DEF InterruptOut, ResetOut, Cancelling
    <3>4. /\ ResetBack' <=> ResetBack
          /\ CancelledBack' <=> CancelledBack
      BY <2>1, <2>4 DEF ResetBack, CancelledBack
    <3>5. server' = server /\ responses' = responses
      BY <2>1, <2>4
    <3>6. Single(responses, S) /\ Single(responses', S)
      BY <2>2, <3>5 DEF Cancelling, S
    <3> QED
      BY <2>1, <2>2, <3>3, <3>4, <3>5, <3>6 DEF Cancelling, S
  <2>5. CASE Head(requests).type = "RESET"
    <3> DEFINE m == Answer("ORA-01013", 0, 0, FALSE)
    <3>1. Head(requests) = RESET
      BY <1>4, <2>1, <2>5, MessageKinds
    <3>2. ResetOut
      BY <1>4, <2>1, <3>1 DEF ResetOut
    <3>3. ~cancellation_requested /\ ~ResetBack
      BY <2>2, <3>2 DEF Cancelling
    <3>4. responses' = Append(responses, m) /\ server' = ServerIdle
      BY <2>1, <2>5
    <3>5. m \in Cancelled /\ m \in Answers /\ m # RESET
      <4>1. server.request \in 1..MaximumRequests /\ server.kind \in CallKinds
        BY <2>1, CallsAssumption DEF IInv, Numbered, ServerTyped, TypeOK, CallsAssumption,
           Requests
      <4>2. m \in Answers
        BY <4>1 DEF Answer, Answers
      <4>3. m.outcome = "ORA-01013"
        BY DEF Answer
      <4> QED
        BY <4>2, <4>3, MessageKinds DEF Cancelled
    <3> HIDE DEF m
    <3>6. ~InterruptOut' /\ ~ResetOut' /\ Single(requests', Markers)
      BY <1>1, <1>4, <1>6, <2>1, <2>2, <3>1 DEF InterruptOut, ResetOut, Cancelling
    <3>7. ~ResetBack' /\ CancelledBack'
      BY <1>1, <1>3, <3>3, <3>4, <3>5 DEF ResetBack, CancelledBack
    <3>8. Single(responses', S)
      BY <1>6, <1>8, <2>2, <2>3, <3>3, <3>4, <3>5 DEF Cancelling, S
    <3>9. server'.state = "idle" /\ ~server'.interrupted
      BY <3>4 DEF ServerIdle
    <3> QED
      BY <2>1, <2>3, <3>3, <3>6, <3>7, <3>8, <3>9 DEF Cancelling, S
  <2> QED
    BY <2>4, <2>5
<1>31. CASE UNCHANGED vars
  BY <1>9, <1>31 DEF vars
<1> QED
  BY <1>12, <1>13, <1>15, <1>16, <1>18, <1>19, <1>20, <1>21, <1>22, <1>23, <1>24, <1>25, <1>26,
     <1>27, <1>28, <1>29, <1>30, <1>31 DEF Next, Operate, Receive, Server

-----------------------------------------------------------------------------
(* Calls and their answers                                                 *)

(* Whose call it is: the one who waits has the call lock.                  *)
LEMMA OneWaits ==
    ASSUME Handling, NEW c \in Callers, NEW d \in Callers,
           call[d].at = "receive", call_mutex \in {NoCaller, c}
    PROVE  d = c
BY NoCallerIsNone DEF Handling, InHand

(* As long as no exchange has failed, nothing is on its way when nobody    *)
(* waits.                                                                  *)
LEMMA NothingOnItsWay ==
    ASSUME InStep, ~Broken, \A c \in Callers : call[c].at # "receive"
    PROVE  Asked = {} /\ Given = {} /\ server.state = "idle"
BY DEF InStep

LEMMA FailedIsBroken ==
    ASSUME IInv, NEW c \in Callers, call[c].at = "receive", Poison(c),
           NEW interrupted, Fail(c, call[c].op, interrupted)
    PROVE  Broken'
<1>1. CASE call[c].op # "ExecuteAdmin"
  BY <1>1 DEF Fail, Broken
<1>2. CASE call[c].op = "ExecuteAdmin"
  <2>1. call[c].kind \in Statements
    BY <1>2 DEF IInv, Handling, InHand, Statements
  <2>2. PICK h \in Handles : h = call[c].handle
    BY <2>1, AnsweredStatement DEF IInv
  <2>3. statements' = [statements EXCEPT ![h].state = "POISONED"]
    BY <2>1, <2>2 DEF Poison
  <2>4. statements'[h].state = "POISONED"
    BY <2>3 DEF IInv, TypeOK
  <2> QED
    BY <2>4 DEF Broken
<1> QED
  BY <1>1, <1>2

(* Without a failure, an answer is taken as what it is.                    *)
Accepts(c) ==
    /\ Answered(c)
    /\ Head(responses).outcome = "ok"
    /\ Head(responses).kind = call[c].kind
    /\ UNCHANGED <<requests, server, server_cursors>>
    /\ \/ Leave(c)
       \/ \E h \in Handles \cup {0} : Done(c, h)

LEMMA ReceiveAccepts ==
    ASSUME IInv, NEW c \in Callers, Receive(c), ~Broken'
    PROVE  ReceiveReset(c) \/ Accepts(c)
<1>1. CASE ReceiveError(c)
  BY <1>1, FailedIsBroken DEF ReceiveError, Answered
<1>2. CASE ReceiveQuery(c) \/ ReceiveExecuted(c) \/ ReceiveCall(c) \/ ReceiveRows(c) \/ ReceiveStatus(c)
  <2>1. call[c].handle \in Handles \cup {0}
    BY DEF IInv, TypeOK
  <2> QED
    BY <1>2, <2>1 DEF ReceiveQuery, ReceiveExecuted, ReceiveCall, ReceiveRows, ReceiveStatus,
       Accepts, Answered, serverVars
<1> QED
  BY <1>1, <1>2 DEF Receive

(* The steps that begin a call, and nobody waits when they do.             *)
Calls(c) ==
    /\ \A d \in Callers : call[d].at # "receive"
    /\ \E op \in Operations \cup {"Fetch"}, kind \in CallKinds, h \in Handles \cup {0} :
         /\ kind = "Fetch" => h \in Handles
         /\ Send(c, op, kind, h)

LEMMA SendCalls ==
    ASSUME NEW c, \A d \in Callers : call[d].at # "receive",
           NEW op \in Operations \cup {"Fetch"}, NEW kind \in CallKinds, NEW h \in Handles \cup {0},
           kind = "Fetch" => h \in Handles, Send(c, op, kind, h)
    PROVE  Calls(c)
BY DEF Calls

(* What else may happen on the way in is that rows are at hand already, or *)
(* that the registry is full.                                              *)
HasRows(c) ==
    /\ EnterFetch(c)
    /\ UNCHANGED <<wireVars, statements, pending_close_cursors>>
    /\ call'[c] = [call[c] EXCEPT !.at = "complete", !.op = "Fetch", !.handle = call'[c].handle]

IsFull(c) ==
    /\ EnterStatement(c)
    /\ UNCHANGED <<wireVars, statements, pending_close_cursors>>
    /\ Throw(c)

LEMMA EnterCalls ==
    ASSUME IInv, NEW c \in Callers, ~Broken',
           EnterStatement(c) \/ EnterTransaction(c) \/ EnterFetch(c) \/ ReadLob(c)
    PROVE  Calls(c) \/ HasRows(c) \/ IsFull(c)
<1>1. /\ Operations \cap Statements \subseteq CallKinds /\ {"Commit", "Fetch", "Lob"} \subseteq CallKinds
      /\ \A op \in Statements : op # "Fetch"
  BY DEF CallKinds, AllOperations, Statements
<1>2. statements \in [Handles -> [state : States, remote_cursor_id : CursorIds \cup {0}]]
      /\ call \in [Callers -> CallRecords]
  BY DEF IInv, TypeOK, CallRecords
<1>3. \A d \in Callers : call[d].at # "receive"
  <2>1. call_mutex \in {NoCaller, c} /\ call[c].at # "receive"
    BY DEF EnterStatement, EnterTransaction, EnterFetch, ReadLob, LockCall, IInv, Handling, InHand
  <2> QED
    BY <2>1, OneWaits DEF IInv
<1>4. CASE EnterStatement(c)
  <2>1. PICK op \in Operations \cap Statements :
           \/ Throw(c) /\ UNCHANGED <<wireVars, statements, pending_close_cursors>>
           \/ Entries # Handles /\ Send(c, op, op, Min(Handles \ Entries))
           \/ /\ Entries # Handles
              /\ SendFails(c, op)
              /\ statements' = [statements EXCEPT ![Min(Handles \ Entries)].state = "POISONED"]
    BY <1>4 DEF EnterStatement, Fail
  <2>2. CASE Entries # Handles /\ Send(c, op, op, Min(Handles \ Entries))
    BY <1>1, <1>3, <2>2, FreeEntry, SendCalls
  <2>3. CASE /\ Entries # Handles
             /\ statements' = [statements EXCEPT ![Min(Handles \ Entries)].state = "POISONED"]
    <3>1. PICK h \in Handles : h = Min(Handles \ Entries)
      BY <2>3, FreeEntry
    <3>2. statements'[h].state = "POISONED"
      BY <1>2, <2>3, <3>1
    <3> QED
      BY <3>2 DEF Broken
  <2>4. CASE Throw(c) /\ UNCHANGED <<wireVars, statements, pending_close_cursors>>
    BY <1>4, <2>4 DEF IsFull
  <2> QED
    BY <2>1, <2>2, <2>3, <2>4
<1>5. CASE EnterTransaction(c)
  <2>1. "Commit" \in Operations
    BY <1>5 DEF EnterTransaction
  <2>2. CASE Send(c, "Commit", "Commit", 0)
    BY <1>1, <1>3, <2>1, <2>2, SendCalls
  <2>3. CASE Fail(c, "Commit", FALSE)
    BY <2>3 DEF Fail, Broken
  <2> QED
    BY <1>5, <2>2, <2>3 DEF EnterTransaction, SendFails
<1>6. CASE EnterFetch(c)
  <2>1. PICK h \in Handles :
           \/ /\ call' = [call EXCEPT ![c] = [@ EXCEPT !.at = "complete", !.op = "Fetch", !.handle = h]]
              /\ UNCHANGED <<wireVars, statements, pending_close_cursors>>
           \/ Send(c, "Fetch", "Fetch", h)
           \/ Fail(c, "Fetch", FALSE)
    BY <1>6 DEF EnterFetch, SendFails
  <2>2. CASE /\ call' = [call EXCEPT ![c] = [@ EXCEPT !.at = "complete", !.op = "Fetch", !.handle = h]]
             /\ UNCHANGED <<wireVars, statements, pending_close_cursors>>
    <3>1. call'[c] = [call[c] EXCEPT !.at = "complete", !.op = "Fetch", !.handle = h]
      BY <1>2, <2>2
    <3>2. call'[c].handle = h
      BY <1>2, <3>1 DEF CallRecords
    <3> QED
      BY <1>6, <2>2, <3>1, <3>2 DEF HasRows
  <2>3. CASE Send(c, "Fetch", "Fetch", h)
    BY <1>1, <1>3, <2>3, SendCalls
  <2>4. CASE Fail(c, "Fetch", FALSE)
    BY <2>4 DEF Fail, Broken
  <2> QED
    BY <2>1, <2>2, <2>3, <2>4
<1>7. CASE ReadLob(c)
  <2>1. call[c].handle \in Handles \cup {0}
    BY <1>2 DEF CallRecords
  <2>2. Send(c, "Fetch", "Lob", call[c].handle) \/ Fail(c, "Fetch", FALSE)
    BY <1>7 DEF ReadLob, SendFails
  <2>3. CASE Send(c, "Fetch", "Lob", call[c].handle)
    BY <1>1, <1>3, <2>1, <2>3, SendCalls
  <2>4. CASE Fail(c, "Fetch", FALSE)
    BY <2>4 DEF Fail, Broken
  <2> QED
    BY <2>2, <2>3, <2>4
<1> QED
  BY <1>4, <1>5, <1>6, <1>7

(* What putting a message into a queue and taking it out of it does to the *)
(* calls and the answers on their way.                                     *)
LEMMA Asking ==
    ASSUME Messages, InStep, ~Broken
    PROVE  /\ \A m \in CallMessages \cup Markers :
                requests' = Append(requests, m) =>
                    /\ Asked' = Asked \cup ({m} \cap CallMessages)
                    /\ m \notin CallMessages \/ Asked = {} => Single(requests', CallMessages)
           /\ requests # <<>> /\ requests' = Tail(requests) =>
                /\ Head(requests) \in CallMessages \cup Markers
                /\ Single(requests', CallMessages)
                /\ Head(requests) \in CallMessages => Asked = {Head(requests)} /\ Asked' = {}
                /\ Head(requests) \notin CallMessages => Asked' = Asked
           /\ UNCHANGED requests => Asked' = Asked /\ Single(requests', CallMessages)
<1>1. requests \in Seq(CallMessages \cup Markers) /\ Single(requests, CallMessages)
  BY DEF Messages, InStep
<1>2. ASSUME NEW m \in CallMessages \cup Markers, requests' = Append(requests, m)
      PROVE  /\ Asked' = Asked \cup ({m} \cap CallMessages)
             /\ m \notin CallMessages \/ Asked = {} => Single(requests', CallMessages)
  <2>1. ToSet(Append(requests, m)) = ToSet(requests) \cup {m}
    BY <1>1, Put
  <2>2. (m \notin CallMessages \/ Asked = {}) => Single(Append(requests, m), CallMessages)
    BY <1>1, PutSingle DEF Asked, None
  <2> QED
    BY <1>2, <2>1, <2>2 DEF Asked
<1>3. ASSUME requests # <<>>, requests' = Tail(requests)
      PROVE  /\ Head(requests) \in CallMessages \cup Markers
             /\ Single(requests', CallMessages)
             /\ Head(requests) \in CallMessages => Asked = {Head(requests)} /\ Asked' = {}
             /\ Head(requests) \notin CallMessages => Asked' = Asked
  <2>1. /\ Head(requests) \in CallMessages \cup Markers
        /\ ToSet(requests) = {Head(requests)} \cup ToSet(requests')
    BY <1>1, <1>3, Take
  <2>2. /\ Single(requests', CallMessages)
        /\ Head(requests) \in CallMessages => None(requests', CallMessages)
    BY <1>1, <1>3, TakeSingle
  <2> QED
    BY <2>1, <2>2 DEF Asked, None
<1>4. ASSUME UNCHANGED requests PROVE Asked' = Asked /\ Single(requests', CallMessages)
  BY <1>1, <1>4 DEF Asked
<1> QED
  BY <1>2, <1>3, <1>4

LEMMA Giving ==
    ASSUME Messages, InStep, ~Broken
    PROVE  /\ \A m \in Answers \cup {RESET} :
                responses' = Append(responses, m) =>
                    /\ Given' = Given \cup ({m} \cap Answers)
                    /\ m \notin Answers \/ Given = {} => Single(responses', Answers)
           /\ responses # <<>> /\ responses' = Tail(responses) =>
                /\ Head(responses) \in Answers \cup {RESET}
                /\ Single(responses', Answers)
                /\ Head(responses) \in Answers => Given = {Head(responses)} /\ Given' = {}
                /\ Head(responses) \notin Answers => Given' = Given
           /\ UNCHANGED responses => Given' = Given /\ Single(responses', Answers)
<1>1. responses \in Seq(Answers \cup {RESET}) /\ Single(responses, Answers)
  BY DEF Messages, InStep
<1>2. ASSUME NEW m \in Answers \cup {RESET}, responses' = Append(responses, m)
      PROVE  /\ Given' = Given \cup ({m} \cap Answers)
             /\ m \notin Answers \/ Given = {} => Single(responses', Answers)
  <2>1. ToSet(Append(responses, m)) = ToSet(responses) \cup {m}
    BY <1>1, Put
  <2>2. (m \notin Answers \/ Given = {}) => Single(Append(responses, m), Answers)
    BY <1>1, PutSingle DEF Given, None
  <2> QED
    BY <1>2, <2>1, <2>2 DEF Given
<1>3. ASSUME responses # <<>>, responses' = Tail(responses)
      PROVE  /\ Head(responses) \in Answers \cup {RESET}
             /\ Single(responses', Answers)
             /\ Head(responses) \in Answers => Given = {Head(responses)} /\ Given' = {}
             /\ Head(responses) \notin Answers => Given' = Given
  <2>1. /\ Head(responses) \in Answers \cup {RESET}
        /\ ToSet(responses) = {Head(responses)} \cup ToSet(responses')
    BY <1>1, <1>3, Take
  <2>2. /\ Single(responses', Answers)
        /\ Head(responses) \in Answers => None(responses', Answers)
    BY <1>1, <1>3, TakeSingle
  <2> QED
    BY <2>1, <2>2 DEF Given, None
<1>4. ASSUME UNCHANGED responses PROVE Given' = Given /\ Single(responses', Answers)
  BY <1>1, <1>4 DEF Given
<1> QED
  BY <1>2, <1>3, <1>4

LEMMA InStepStep ==
    ASSUME IInv, Shut, InStep, [Next]_vars
    PROVE  InStep'
<1>1. SUFFICES ASSUME ~Broken', open', ~Broken PROVE InStep'
  <2>1. CASE Broken'
    BY <2>1 DEF InStep
  <2>2. CASE ~open'
    <3>1. Shut'
      BY ShutStep
    <3>2. /\ requests' = <<>> /\ responses' = <<>> /\ server'.state = "idle"
          /\ \A c \in Callers : call'[c].at = "idle"
      BY <2>2, <3>1 DEF Shut, ServerIdle, Outside
    <3>3. Asked' = {} /\ Given' = {}
      BY <3>2, EmptyQueue DEF Asked, Given
    <3> QED
      BY <3>2, <3>3, EmptyQueue DEF InStep
  <2>3. CASE open' /\ ~Broken'
    <3>1. ~Broken
      BY <2>3, BrokenStays
    <3> QED
      BY <1>1, <2>3, <3>1
  <2> QED
    BY <2>1, <2>2, <2>3
<1>2. /\ requests \in Seq(CallMessages \cup Markers) /\ responses \in Seq(Answers \cup {RESET})
      /\ RESET \in CallMessages \cup Markers /\ INTERRUPT \in CallMessages \cup Markers
      /\ RESET \notin CallMessages /\ INTERRUPT \notin CallMessages /\ RESET \notin Answers
      /\ call \in [Callers -> CallRecords]
  BY MessageKinds DEF IInv, Messages, Markers, TypeOK, CallRecords
<1>3. \A m \in CallMessages \cup Markers :
         requests' = Append(requests, m) =>
             /\ Asked' = Asked \cup ({m} \cap CallMessages)
             /\ m \notin CallMessages \/ Asked = {} => Single(requests', CallMessages)
  BY <1>1, Asking DEF IInv
<1>4. \A m \in Answers \cup {RESET} :
         responses' = Append(responses, m) =>
             /\ Given' = Given \cup ({m} \cap Answers)
             /\ m \notin Answers \/ Given = {} => Single(responses', Answers)
  BY <1>1, Giving DEF IInv
<1>5. requests # <<>> /\ requests' = Tail(requests) =>
         /\ Head(requests) \in CallMessages \cup Markers
         /\ Single(requests', CallMessages)
         /\ Head(requests) \in CallMessages => Asked = {Head(requests)} /\ Asked' = {}
         /\ Head(requests) \notin CallMessages => Asked' = Asked
  BY <1>1, Asking DEF IInv
<1>6. responses # <<>> /\ responses' = Tail(responses) =>
         /\ Head(responses) \in Answers \cup {RESET}
         /\ Single(responses', Answers)
         /\ Head(responses) \in Answers => Given = {Head(responses)} /\ Given' = {}
         /\ Head(responses) \notin Answers => Given' = Given
  BY <1>1, Giving DEF IInv
<1>7. /\ UNCHANGED requests => Asked' = Asked /\ Single(requests', CallMessages)
      /\ UNCHANGED responses => Given' = Given /\ Single(responses', Answers)
  BY <1>1, Asking, Giving DEF IInv
<1>8. ASSUME Asked' = Asked, Single(requests', CallMessages), Given' = Given, Single(responses', Answers),
             server'.state # "idle" => server.state # "idle",
             server'.request = server.request,
             \A c \in Callers : /\ call'[c].at = "receive" <=> call[c].at = "receive"
                                /\ call'[c].at \in {"receive", "complete"} =>
                                      /\ call'[c].request = call[c].request
                                      /\ call'[c].answer = call[c].answer
                                      /\ call'[c].at = "complete" =>
                                            call[c].at = "complete" \/ call[c].request = call[c].answer
      PROVE  InStep'
  BY <1>1, <1>8 DEF InStep
<1>9. ASSUME NEW c \in Callers, Calls(c) PROVE InStep'
  <2>1. Asked = {} /\ Given = {} /\ server.state = "idle"
    BY <1>1, <1>9, NothingOnItsWay DEF Calls
  <2>2. PICK op \in Operations \cup {"Fetch"}, kind \in CallKinds, h \in Handles \cup {0} :
           (kind = "Fetch" => h \in Handles) /\ Send(c, op, kind, h)
    BY <1>9 DEF Calls
  <2>3. Sends
    BY <2>2, SendIsSends DEF IInv
  <2>4. PICK m \in CallMessages : requests' = Append(requests, m) /\ m.request = sent + 1
    <3>1. PICK k \in CallKinds, closes \in SUBSET CursorIds, cursor \in CursorIds \cup {0} :
             requests' = Append(requests, Request(k, closes, cursor))
      BY <2>3 DEF Sends
    <3>2. sent + 1 \in 1..MaximumRequests
      BY <2>3, CallsAssumption DEF Sends, IInv, TypeOK, CallsAssumption
    <3> QED
      BY <3>1, <3>2 DEF Request, CallMessages
  <2>5. Asked' = {m} /\ Single(requests', CallMessages)
    BY <1>3, <2>1, <2>4
  <2>6. Given' = {} /\ Single(responses', Answers) /\ server' = server
    BY <1>7, <2>1, <2>3 DEF Sends
  <2>7. /\ call'[c].at = "receive" /\ call'[c].request = sent + 1
        /\ \A d \in Callers \ {c} : call'[d] = call[d]
    BY <1>2, <2>2 DEF Send, CallRecords
  <2>8. \A d \in Callers \ {c} : call'[d].at # "receive"
    BY <1>9, <2>7 DEF Calls
  <2> QED
    BY <1>1, <2>1, <2>4, <2>5, <2>6, <2>7, <2>8 DEF InStep
<1>10. ASSUME NEW c \in Callers,
              EnterStatement(c) \/ EnterTransaction(c) \/ EnterFetch(c) \/ ReadLob(c)
       PROVE  InStep'
  <2>1. CASE Calls(c)
    BY <1>9, <2>1
  <2>2. CASE HasRows(c)
    <3>1. call[c].request = 0 /\ call[c].answer = 0 /\ call[c].at = "idle"
      BY <2>2 DEF HasRows, EnterFetch, IInv, Handling, InHand
    <3>2. call'[c].request = call[c].request /\ call'[c].answer = call[c].answer /\ call'[c].at = "complete"
      BY <1>2, <2>2 DEF CallRecords, HasRows
    <3>3. \A d \in Callers \ {c} : call'[d] = call[d]
      BY <1>1, <2>2, OwnEntryOnly DEF IInv, Operate, HasRows, Close
    <3> QED
      BY <1>7, <1>8, <2>2, <3>1, <3>2, <3>3 DEF wireVars, HasRows
  <2>3. CASE IsFull(c)
    <3>1. call'[c].at = "idle" /\ call[c].at = "lock" /\ \A d \in Callers \ {c} : call'[d] = call[d]
      BY <1>2, <2>3 DEF IsFull, EnterStatement, Throw, Outside
    <3> QED
      BY <1>7, <1>8, <2>3, <3>1 DEF wireVars, IsFull
  <2> QED
    BY <1>1, <1>10, <2>1, <2>2, <2>3, EnterCalls
<1>11. ASSUME NEW c \in Callers, ReceiveReset(c) PROVE InStep'
  <2>1. /\ responses # <<>> /\ Head(responses) = RESET /\ responses' = Tail(responses)
        /\ UNCHANGED <<call, server>>
        /\ UNCHANGED requests \/ requests' = Append(requests, RESET)
    BY <1>11 DEF ReceiveReset, serverVars
  <2>2. Given' = Given /\ Single(responses', Answers)
    BY <1>2, <1>6, <2>1
  <2>3. Asked' = Asked /\ Single(requests', CallMessages)
    <3>1. CASE UNCHANGED requests
      BY <1>7, <3>1
    <3>2. CASE requests' = Append(requests, RESET)
      <4>1. {RESET} \cap CallMessages = {}
        BY <1>2
      <4> QED
        BY <1>2, <1>3, <1>7, <3>2, <4>1
    <3> QED
      BY <2>1, <3>1, <3>2
  <2> QED
    BY <1>8, <2>1, <2>2, <2>3
<1>12. ASSUME NEW c \in Callers, Accepts(c) PROVE InStep'
  <2>1. /\ call[c].at = "receive" /\ responses # <<>> /\ Head(responses) \in Answers
        /\ responses' = Tail(responses) /\ UNCHANGED <<requests, server>>
        /\ Leave(c) \/ \E h \in Handles \cup {0} : Done(c, h)
    BY <1>2, <1>12, Take DEF Accepts, Answered
  <2>2. Head(responses) \in Given /\ Given' = {} /\ Single(responses', Answers)
    BY <1>6, <2>1
  <2>3. /\ Asked = {} /\ server.state = "idle" /\ Head(responses).request = call[c].request
    BY <1>1, <2>1, <2>2 DEF InStep
  <2>4. Asked' = {} /\ Single(requests', CallMessages)
    BY <1>7, <2>1, <2>3
  <2>5. \A d \in Callers \ {c} : call'[d] = call[d] /\ call[d].at # "receive"
    <3>1. \A d \in Callers \ {c} : call'[d] = call[d]
      BY <1>2, <2>1 DEF Leave, Done
    <3>2. call_mutex = c
      BY <2>1 DEF IInv, Handling, InHand
    <3> QED
      BY <3>1, <3>2, OneWaits DEF IInv
  <2>6. \/ call'[c].at = "idle"
        \/ call'[c].at = "complete" /\ call'[c].answer = call'[c].request
    <3>1. CASE Leave(c)
      BY <1>2, <3>1 DEF Leave, Outside
    <3>2. CASE \E h \in Handles \cup {0} : Done(c, h)
      BY <1>2, <2>3, <3>2 DEF Done, CallRecords
    <3> QED
      BY <2>1, <3>1, <3>2
  <2> QED
    BY <1>1, <2>1, <2>2, <2>3, <2>4, <2>5, <2>6 DEF InStep
<1>13. ASSUME NEW c \in Callers, ReceiveFails(c) PROVE FALSE
  BY <1>1, <1>13, FailedIsBroken DEF ReceiveFails
<1>14. ASSUME NEW c \in Callers,
              Begin(c) \/ BeginRefused(c) \/ FetchRefused(c) \/ Complete(c) \/ CursorClose(c) \/ CursorClosed(c)
       PROVE  InStep'
  <2>1. UNCHANGED <<requests, responses, server>> /\ call[c].at # "receive"
    BY <1>14 DEF Begin, BeginRefused, FetchRefused, Complete, CursorClose, CursorClosed, wireVars
  <2>2. \A d \in Callers \ {c} : call'[d] = call[d]
    <3>1. ~Close(c)
      BY <1>1 DEF Close
    <3> QED
      BY <1>14, <3>1, OwnEntryOnly DEF IInv, Operate
  <2>3. \/ call'[c] = call[c]
        \/ call'[c].at \notin {"receive", "complete"}
    <3>1. CASE Begin(c)
      BY <1>2, <3>1 DEF Begin, CallRecords
    <3>2. CASE CursorClose(c)
      BY <1>2, <3>2 DEF CursorClose, CallRecords
    <3>3. CASE Leave(c) \/ Throw(c)
      BY <1>2, <3>3 DEF Leave, Throw, Outside
    <3> QED
      BY <1>14, <3>1, <3>2, <3>3 DEF BeginRefused, FetchRefused, Complete, CursorClosed
  <2> QED
    BY <1>7, <1>8, <2>1, <2>2, <2>3
<1>15. CASE Cancel
  <2>1. /\ UNCHANGED <<responses, server, call>>
        /\ UNCHANGED requests \/ requests' = Append(requests, INTERRUPT)
    BY <1>15 DEF Cancel, serverVars
  <2>2. Asked' = Asked /\ Single(requests', CallMessages) /\ Given' = Given /\ Single(responses', Answers)
    BY <1>2, <1>3, <1>7, <2>1
  <2> QED
    BY <1>8, <2>1, <2>2
<1>16. CASE ServerTakes
  <2>1. /\ requests # <<>> /\ requests' = Tail(requests) /\ server.state = "idle"
        /\ Head(requests).type = "CALL" /\ server'.request = Head(requests).request
        /\ UNCHANGED responses \/ responses' = Append(responses, RESET)
        /\ UNCHANGED call
    BY <1>16 DEF ServerTakes, Arrived, clientVars
  <2>2. Head(requests) \in CallMessages
    BY <1>5, <2>1, MessageKinds
  <2>3. Head(requests) \in Asked /\ Asked' = {} /\ Single(requests', CallMessages)
    BY <1>5, <2>1, <2>2
  <2>4. Given = {} /\ Given' = {} /\ Single(responses', Answers)
    BY <1>1, <1>2, <1>4, <1>7, <2>1, <2>3 DEF InStep
  <2> QED
    BY <1>1, <2>1, <2>3, <2>4 DEF InStep
<1>17. CASE ServerAnswers
  <2>1. PICK m \in Answers : Runs(m)
    BY <1>17, ServerRuns DEF IInv
  <2>2. UNCHANGED <<requests, call>> /\ server.state # "idle"
    BY <1>17 DEF ServerAnswers, clientVars
  <2>3. Asked = {} /\ Given = {} /\ Asked' = {} /\ Single(requests', CallMessages)
    BY <1>1, <1>7, <2>2 DEF InStep
  <2>4. Given' = {m} /\ Single(responses', Answers)
    BY <1>4, <2>1, <2>3 DEF Runs
  <2>5. server'.state = "idle" /\ m.request = server.request
    BY <2>1 DEF Runs, ServerIdle
  <2> QED
    BY <1>1, <2>2, <2>3, <2>4, <2>5 DEF InStep
<1>18. CASE ServerInterrupted \/ ServerInterruptedIdle
  <2>1. /\ requests # <<>> /\ requests' = Tail(requests) /\ Head(requests).type = "INTERRUPT"
        /\ UNCHANGED responses \/ responses' = Append(responses, RESET)
        /\ UNCHANGED call
    BY <1>18 DEF ServerInterrupted, ServerInterruptedIdle, Arrived, clientVars
  <2>2. Head(requests) \notin CallMessages
    BY <2>1, MessageKinds
  <2>3. Asked' = Asked /\ Single(requests', CallMessages)
    BY <1>5, <2>1, <2>2
  <2>4. Given' = Given /\ Single(responses', Answers)
    <3>1. CASE UNCHANGED responses
      BY <1>7, <3>1
    <3>2. CASE responses' = Append(responses, RESET)
      <4>1. RESET \in Answers \cup {RESET} /\ RESET \notin Answers
        BY <1>2
      <4>2. Given' = Given \cup ({RESET} \cap Answers) /\ Single(responses', Answers)
        BY <1>4, <3>2, <4>1
      <4> QED
        BY <4>1, <4>2
    <3> QED
      BY <2>1, <3>1, <3>2
  <2>5. /\ server'.request = server.request
        /\ server'.state # "idle" => server.state # "idle"
    BY <1>18 DEF ServerInterrupted, ServerInterruptedIdle, IInv, TypeOK
  <2> QED
    BY <1>8, <2>1, <2>3, <2>4, <2>5
<1>19. CASE ServerResets
  <2>1. /\ requests # <<>> /\ requests' = Tail(requests) /\ server.state # "idle"
        /\ \/ server' = ServerIdle /\ responses' = Append(responses, Answer("ORA-01013", 0, 0, FALSE))
           \/ UNCHANGED <<responses, server>>
        /\ UNCHANGED call
    BY <1>19 DEF ServerResets, clientVars
  <2>2. Asked = {} /\ Given = {}
    BY <1>1, <2>1 DEF InStep
  <2>3. Asked' = {} /\ Single(requests', CallMessages)
    BY <1>5, <2>1, <2>2
  <2>4. CASE UNCHANGED <<responses, server>>
    BY <1>1, <1>7, <2>1, <2>2, <2>3, <2>4 DEF InStep
  <2>5. CASE server' = ServerIdle /\ responses' = Append(responses, Answer("ORA-01013", 0, 0, FALSE))
    <3> DEFINE m == Answer("ORA-01013", 0, 0, FALSE)
    <3>1. m \in Answers /\ m.request = server.request
      <4>1. server.request \in 1..MaximumRequests /\ server.kind \in CallKinds
        BY <2>1, CallsAssumption DEF IInv, Numbered, ServerTyped, TypeOK, CallsAssumption,
           Requests
      <4> QED
        BY <4>1 DEF Answer, Answers
    <3> HIDE DEF m
    <3>2. Given' = {m} /\ Single(responses', Answers)
      BY <1>4, <2>2, <2>5, <3>1 DEF m
    <3>3. server'.state = "idle"
      BY <2>5 DEF ServerIdle
    <3> QED
      BY <1>1, <2>1, <2>3, <3>1, <3>2, <3>3 DEF InStep
  <2> QED
    BY <2>1, <2>4, <2>5
<1>20. ASSUME NEW c \in Callers, Close(c) PROVE FALSE
  BY <1>1, <1>20 DEF Close
<1>21. CASE UNCHANGED vars
  BY <1>1, <1>7, <1>21 DEF vars, InStep
<1>22. ASSUME NEW c \in Callers, Receive(c) PROVE InStep'
  BY <1>1, <1>11, <1>12, <1>22, ReceiveAccepts
<1> QED
  BY <1>10, <1>13, <1>14, <1>15, <1>16, <1>17, <1>18, <1>19, <1>20, <1>21, <1>22 DEF Next,
     Operate, Server

-----------------------------------------------------------------------------
(* The cursors of the server                                               *)

LEMMA SameRemotes ==
    ASSUME \A h \in Handles : Remote(h)' = Remote(h)
    PROVE  Remotes' = Remotes /\ (Distinct => Distinct')
BY DEF Remotes, Remote, Distinct

(* A statement gets a cursor, none or one that no other has.               *)
LEMMA NewRemote ==
    ASSUME NEW h \in Handles, Remote(h) = 0, \A g \in Handles \ {h} : Remote(g)' = Remote(g)
    PROVE  /\ Remotes' = Remotes \cup ({Remote(h)'} \ {0})
           /\ Distinct /\ Remote(h)' \notin Remotes => Distinct'
<1>1. Remotes = {Remote(g) : g \in Handles} \ {0} /\ Remotes' = {Remote(g)' : g \in Handles} \ {0}
  BY DEF Remotes, Remote
<1>2. Remotes' = Remotes \cup ({Remote(h)'} \ {0})
  BY <1>1
<1>3. ASSUME Distinct, Remote(h)' \notin Remotes PROVE Distinct'
  <2> SUFFICES ASSUME NEW f \in Handles, NEW g \in Handles, Remote(f)' = Remote(g)', f # g
               PROVE  Remote(f)' = 0
    BY DEF Distinct
  <2>1. CASE f # h /\ g # h
    BY <1>3, <2>1 DEF Distinct
  <2>2. CASE f = h
    BY <1>1, <1>3, <2>2
  <2>3. CASE g = h
    BY <1>1, <1>3, <2>3
  <2> QED
    BY <2>1, <2>2, <2>3
<1> QED
  BY <1>2, <1>3

(* A statement gives its cursor up.                                        *)
LEMMA OldRemote ==
    ASSUME Distinct, NEW h \in Handles, Remote(h) # 0, Remote(h)' = 0,
           \A g \in Handles \ {h} : Remote(g)' = Remote(g)
    PROVE  Remotes' = Remotes \ {Remote(h)} /\ Remote(h) \in Remotes /\ Distinct'
<1>1. Remotes = {Remote(g) : g \in Handles} \ {0} /\ Remotes' = {Remote(g)' : g \in Handles} \ {0}
  BY DEF Remotes, Remote
<1>2. \A g \in Handles \ {h} : Remote(g) # Remote(h)
  BY DEF Distinct
<1>3. Distinct'
  BY DEF Distinct
<1> QED
  BY <1>1, <1>2, <1>3

(* Entering an operation gives no statement another cursor.                *)
LEMMA EnteringKeepsRemotes ==
    ASSUME IInv, NEW c \in Callers,
           EnterStatement(c) \/ EnterTransaction(c) \/ EnterFetch(c) \/ ReadLob(c)
    PROVE  \A h \in Handles : Remote(h)' = Remote(h)
<1>1. statements \in [Handles -> [state : States, remote_cursor_id : CursorIds \cup {0}]]
  BY DEF IInv, TypeOK
<1>2. \/ UNCHANGED statements
      \/ \E h, state : statements' = [statements EXCEPT ![h].state = state]
  <2>1. CASE EnterStatement(c)
    BY <2>1 DEF EnterStatement, registry
  <2>2. CASE EnterTransaction(c) \/ ReadLob(c)
    BY <2>2 DEF EnterTransaction, ReadLob, registry
  <2>3. CASE EnterFetch(c)
    <3>1. \E h \in Handles : \/ UNCHANGED statements
                            \/ statements' = [statements EXCEPT ![h].state = "FETCHING"]
                            \/ statements' = [statements EXCEPT ![h].state = "POISONED"]
      BY <2>3, Zenon DEF EnterFetch
    <3> QED
      BY <3>1
  <2> QED
    BY <2>1, <2>2, <2>3
<1> QED
  BY <1>1, <1>2 DEF Remote

(* What an accepted answer does to the cursors it tells of.                *)
Settles(c) ==
    \E queued, kept \in SUBSET CursorIds :
        /\ Told(Head(responses)) = queued \cup kept
        /\ queued \cap kept = {}
        /\ pending_close_cursors' = pending_close_cursors \cup queued
        /\ Remotes' = Remotes \cup kept
        /\ Distinct /\ kept \cap Remotes = {} => Distinct'

LEMMA AnswersSettle ==
    ASSUME IInv, NEW c \in Callers,
           ReceiveQuery(c) \/ ReceiveExecuted(c) \/ ReceiveCall(c) \/ ReceiveRows(c) \/ ReceiveStatus(c)
    PROVE  Settles(c)
<1> DEFINE m == Head(responses)
           h == call[c].handle
<1>1. statements \in [Handles -> [state : States, remote_cursor_id : CursorIds \cup {0}]]
  BY DEF IInv, TypeOK
<1>2. call[c].at = "receive" /\ m.outcome = "ok" /\ m.kind = call[c].kind /\ Answered(c)
  BY DEF ReceiveQuery, ReceiveExecuted, ReceiveCall, ReceiveRows, ReceiveStatus, Answered
<1>3. m \in Answers
  BY <1>2, Take DEF Answered, IInv, Messages
<1>4. /\ m.cursor \in CursorIds \cup {0} /\ m.result \in CursorIds \cup {0}
      /\ m.kind \in Statements => m.cursor # 0
      /\ m.kind \notin Statements => m.cursor = 0
      /\ m.kind # "Call" => m.result = 0
      /\ m.cursor = m.result => m.cursor = 0
      /\ 0 \notin CursorIds
  BY <1>2, <1>3 DEF Answers, CursorIds
<1>5. call[c].kind \in Statements => h \in Handles /\ Remote(h) = 0
  BY <1>2, AnsweredStatement DEF IInv, Remote
<1> HIDE DEF m, h
<1>6. Told(m) = {m.cursor, m.result} \ {0}
  BY DEF Told
<1>7. ASSUME NEW queued \in SUBSET CursorIds, NEW kept \in SUBSET CursorIds,
             Told(m) = queued \cup kept, queued \cap kept = {},
             pending_close_cursors' = pending_close_cursors \cup queued,
             Remotes' = Remotes \cup kept,
             Distinct /\ kept \cap Remotes = {} => Distinct'
      PROVE  Settles(c)
  BY <1>7 DEF Settles, m
<1>8. ASSUME statements' = [statements EXCEPT ![h] = Closed], call[c].kind \in Statements
      PROVE  Remotes' = Remotes \cup {} /\ (Distinct => Distinct')
  <2>1. \A g \in Handles : Remote(g)' = Remote(g)
    BY <1>1, <1>5, <1>8 DEF Remote, Closed
  <2> QED
    BY <2>1, SameRemotes
<1>9. ASSUME NEW id \in CursorIds, call[c].kind \in Statements,
             statements' = [statements EXCEPT ![h] = [state |-> "EXECUTED", remote_cursor_id |-> id]]
      PROVE  Remotes' = Remotes \cup {id} /\ (Distinct /\ {id} \cap Remotes = {} => Distinct')
  <2>1. PICK k \in Handles : k = h /\ Remote(k) = 0
    BY <1>5, <1>9
  <2>2. Remote(k)' = id /\ \A g \in Handles \ {k} : Remote(g)' = Remote(g)
    BY <1>1, <1>9, <2>1 DEF Remote
  <2>3. id # 0
    BY <1>4
  <2> QED
    BY <2>1, <2>2, <2>3, NewRemote
<1>10. CASE ReceiveQuery(c)
  <2>1. /\ call[c].kind = "Query" /\ UNCHANGED pending_close_cursors
        /\ statements' = [statements EXCEPT ![h] = [state |-> "EXECUTED", remote_cursor_id |-> m.cursor]]
    BY <1>10 DEF ReceiveQuery, m, h
  <2>2. call[c].kind \in Statements /\ m.cursor \in CursorIds /\ Told(m) = {m.cursor}
    BY <1>2, <1>4, <1>6, <2>1 DEF Statements, m
  <2>3. /\ Remotes' = Remotes \cup {m.cursor}
        /\ Distinct /\ {m.cursor} \cap Remotes = {} => Distinct'
    BY <1>9, <2>1, <2>2
  <2>4. {} \in SUBSET CursorIds /\ {m.cursor} \in SUBSET CursorIds
    BY <2>2
  <2>5. pending_close_cursors' = pending_close_cursors \cup {} /\ Told(m) = {} \cup {m.cursor}
        /\ {} \cap {m.cursor} = {}
    BY <2>1, <2>2
  <2> QED
    BY <1>7, <2>3, <2>4, <2>5
<1>11. CASE ReceiveExecuted(c)
  <2>1. /\ call[c].kind \in {"Execute", "ExecuteAdmin"}
        /\ pending_close_cursors' = pending_close_cursors \cup {m.cursor}
        /\ statements' = [statements EXCEPT ![h] = Closed]
    BY <1>11 DEF ReceiveExecuted, m, h
  <2>2. call[c].kind \in Statements /\ m.cursor \in CursorIds /\ Told(m) = {m.cursor}
    BY <1>2, <1>4, <1>6, <2>1 DEF Statements, m
  <2>3. Remotes' = Remotes \cup {} /\ (Distinct => Distinct')
    BY <1>8, <2>1, <2>2
  <2>4. {} \in SUBSET CursorIds /\ {m.cursor} \in SUBSET CursorIds
        /\ Told(m) = {m.cursor} \cup {} /\ {m.cursor} \cap {} = {}
    BY <2>2
  <2> QED
    BY <1>7, <2>1, <2>3, <2>4
<1>12. CASE ReceiveCall(c)
  <2>1. /\ call[c].kind = "Call"
        /\ pending_close_cursors' = pending_close_cursors \cup {m.cursor}
        /\ \/ m.result = 0 /\ statements' = [statements EXCEPT ![h] = Closed]
           \/ /\ m.result # 0
              /\ statements' = [statements EXCEPT ![h] = [state |-> "EXECUTED",
                                                          remote_cursor_id |-> m.result]]
    BY <1>12 DEF ReceiveCall, m, h
  <2>2. call[c].kind \in Statements /\ m.cursor \in CursorIds
    BY <1>2, <1>4, <2>1 DEF Statements, m
  <2>3. CASE m.result = 0 /\ statements' = [statements EXCEPT ![h] = Closed]
    <3>1. Remotes' = Remotes \cup {} /\ (Distinct => Distinct')
      BY <1>8, <2>2, <2>3
    <3>2. {} \in SUBSET CursorIds /\ {m.cursor} \in SUBSET CursorIds
          /\ Told(m) = {m.cursor} \cup {} /\ {m.cursor} \cap {} = {}
      BY <1>4, <1>6, <2>2, <2>3
    <3> QED
      BY <1>7, <2>1, <3>1, <3>2
  <2>4. CASE /\ m.result # 0
             /\ statements' = [statements EXCEPT ![h] = [state |-> "EXECUTED",
                                                         remote_cursor_id |-> m.result]]
    <3>1. m.result \in CursorIds /\ m.result # m.cursor
      BY <1>4, <2>2, <2>4
    <3>2. /\ Remotes' = Remotes \cup {m.result}
          /\ Distinct /\ {m.result} \cap Remotes = {} => Distinct'
      BY <1>9, <2>2, <2>4, <3>1
    <3>3. {m.result} \in SUBSET CursorIds /\ {m.cursor} \in SUBSET CursorIds
          /\ Told(m) = {m.cursor} \cup {m.result} /\ {m.cursor} \cap {m.result} = {}
      BY <1>4, <1>6, <2>2, <3>1
    <3> QED
      BY <1>7, <2>1, <3>2, <3>3
  <2> QED
    BY <2>1, <2>3, <2>4
<1>13. CASE ReceiveRows(c) \/ ReceiveStatus(c)
  <2>1. call[c].kind \in {"Fetch", "Lob", "Commit"} /\ UNCHANGED pending_close_cursors
    BY <1>13 DEF ReceiveRows, ReceiveStatus, channelVars
  <2>2. Told(m) = {}
    BY <1>2, <1>4, <1>6, <2>1 DEF Statements, m
  <2>3. UNCHANGED statements \/ statements' = [statements EXCEPT ![h].state = "EXHAUSTED"]
    BY <1>13 DEF ReceiveRows, ReceiveStatus, sessionVars, h
  <2>4. \A g \in Handles : Remote(g)' = Remote(g)
    BY <1>1, <2>3 DEF Remote
  <2>5. Remotes' = Remotes \cup {} /\ (Distinct => Distinct')
    BY <2>4, SameRemotes
  <2>6. {} \in SUBSET CursorIds /\ Told(m) = {} \cup {} /\ {} \cap {} = {}
        /\ pending_close_cursors' = pending_close_cursors \cup {}
    BY <2>1, <2>2
  <2> QED
    BY <1>7, <2>5, <2>6
<1> QED
  BY <1>10, <1>11, <1>12, <1>13

LEMMA AccountsStep ==
    ASSUME IInv, Shut, InStep, Accounts, [Next]_vars
    PROVE  Accounts'
<1>1. SUFFICES ASSUME ~Broken', open', ~Broken PROVE Accounts'
  <2>1. CASE Broken'
    BY <2>1 DEF Accounts
  <2>2. CASE ~open'
    <3>1. Shut'
      BY ShutStep
    <3>2. /\ requests' = <<>> /\ responses' = <<>> /\ server_cursors' = {}
          /\ pending_close_cursors' = {} /\ statements' = [h \in Handles |-> Closed]
      BY <2>2, <3>1 DEF Shut
    <3>3. Asked' = {} /\ Given' = {}
      BY <3>2, EmptyQueue DEF Asked, Given
    <3>4. Remotes' = {} /\ Distinct'
      BY <3>2 DEF Remotes, Remote, Distinct, Closed
    <3> QED
      BY <3>2, <3>3, <3>4 DEF Accounts
  <2>3. CASE open' /\ ~Broken'
    <3>1. ~Broken
      BY <2>3, BrokenStays
    <3> QED
      BY <1>1, <2>3, <3>1
  <2> QED
    BY <2>1, <2>2, <2>3
<1>2. /\ RESET \in CallMessages \cup Markers /\ INTERRUPT \in CallMessages \cup Markers
      /\ RESET \notin CallMessages /\ INTERRUPT \notin CallMessages /\ RESET \notin Answers
      /\ RESET \in Answers \cup {RESET}
      /\ call \in [Callers -> CallRecords]
      /\ pending_close_cursors \subseteq CursorIds
      /\ statements \in [Handles -> [state : States, remote_cursor_id : CursorIds \cup {0}]]
  BY MessageKinds DEF Markers, IInv, TypeOK, CallRecords
<1>3. /\ Distinct
      /\ Remotes \cap pending_close_cursors = {}
      /\ Remotes \cup pending_close_cursors \subseteq server_cursors
      /\ \A c \in Callers : call[c].at = "receive" => pending_close_cursors = {}
      /\ \A m \in Asked : m.closes \cap (Remotes \cup pending_close_cursors) = {}
      /\ \A m \in Given : /\ Told(m) \subseteq server_cursors
                          /\ Told(m) \cap (Remotes \cup pending_close_cursors) = {}
      /\ (\A m \in Given : m.outcome = "ok") =>
            \A id \in server_cursors :
               \/ id \in Remotes \cup pending_close_cursors
               \/ \E m \in Asked : id \in m.closes
               \/ \E m \in Given : id \in Told(m)
  BY <1>1 DEF Accounts
<1>4. ASSUME \A h \in Handles : Remote(h)' = Remote(h),
             UNCHANGED <<pending_close_cursors, server_cursors>>,
             Asked' = Asked, Given' = Given,
             \A c \in Callers : call'[c].at = "receive" => call[c].at = "receive"
      PROVE  Accounts'
  <2>1. Remotes' = Remotes /\ Distinct'
    BY <1>3, <1>4, SameRemotes
  <2> QED
    BY <1>1, <1>3, <1>4, <2>1 DEF Accounts
<1>5. \A m \in CallMessages \cup Markers :
         requests' = Append(requests, m) => Asked' = Asked \cup ({m} \cap CallMessages)
  BY <1>1, Asking DEF IInv
<1>6. \A m \in Answers \cup {RESET} :
         responses' = Append(responses, m) => Given' = Given \cup ({m} \cap Answers)
  BY <1>1, Giving DEF IInv
<1>7. requests # <<>> /\ requests' = Tail(requests) =>
         /\ Head(requests) \in CallMessages \cup Markers
         /\ Head(requests) \in CallMessages => Asked = {Head(requests)} /\ Asked' = {}
         /\ Head(requests) \notin CallMessages => Asked' = Asked
  BY <1>1, Asking DEF IInv
<1>8. responses # <<>> /\ responses' = Tail(responses) =>
         /\ Head(responses) \in Answers \cup {RESET}
         /\ Head(responses) \in Answers => Given = {Head(responses)} /\ Given' = {}
         /\ Head(responses) \notin Answers => Given' = Given
  BY <1>1, Giving DEF IInv
<1>9. /\ UNCHANGED requests => Asked' = Asked
      /\ \A m \in Markers : requests' = Append(requests, m) => Asked' = Asked
      /\ UNCHANGED responses => Given' = Given
      /\ responses' = Append(responses, RESET) => Given' = Given
  <2>1. (UNCHANGED requests => Asked' = Asked) /\ (UNCHANGED responses => Given' = Given)
    BY DEF Asked, Given
  <2>2. ASSUME NEW m \in Markers, requests' = Append(requests, m) PROVE Asked' = Asked
    <3>1. m \notin CallMessages
      BY <1>2 DEF Markers
    <3>2. Asked' = Asked \cup ({m} \cap CallMessages)
      BY <1>5, <2>2
    <3> QED
      BY <3>1, <3>2
  <2>3. ASSUME responses' = Append(responses, RESET) PROVE Given' = Given
    <3>1. Given' = Given \cup ({RESET} \cap Answers)
      BY <1>2, <1>6, <2>3
    <3> QED
      BY <1>2, <3>1
  <2> QED
    BY <2>1, <2>2, <2>3
<1>10. ASSUME NEW c \in Callers, Calls(c), \A h \in Handles : Remote(h)' = Remote(h) PROVE Accounts'
  <2>1. Asked = {} /\ Given = {}
    BY <1>1, <1>10, NothingOnItsWay DEF Calls
  <2>2. PICK op \in Operations \cup {"Fetch"}, kind \in CallKinds, h \in Handles \cup {0} :
           (kind = "Fetch" => h \in Handles) /\ Send(c, op, kind, h)
    BY <1>10 DEF Calls
  <2>3. Sends
    BY <2>2, SendIsSends DEF IInv
  <2> DEFINE cursor == IF kind = "Fetch" THEN statements[h].remote_cursor_id ELSE 0
             m == [type |-> "CALL", request |-> sent + 1, kind |-> kind,
                   closes |-> pending_close_cursors, cursor |-> cursor]
  <2>4. requests' = Append(requests, m) /\ pending_close_cursors' = {}
    BY <2>2 DEF Send
  <2>5. m \in CallMessages /\ m.closes = pending_close_cursors
    <3>1. sent + 1 \in 1..MaximumRequests
      BY <2>3, CallsAssumption DEF Sends, IInv, TypeOK, CallsAssumption
    <3>2. cursor \in CursorIds \cup {0}
      BY <1>2, <2>2
    <3> HIDE DEF cursor
    <3> QED
      BY <1>2, <3>1, <3>2 DEF CallMessages
  <2> HIDE DEF m
  <2>6. \E n \in CallMessages : Asked' = {n} /\ n.closes = pending_close_cursors
    <3>1. PICK n \in CallMessages : n = m
      BY <2>5
    <3>2. requests' = Append(requests, n) /\ n.closes = pending_close_cursors
      BY <2>4, <2>5, <3>1
    <3>3. Asked' = {n}
      BY <1>5, <2>1, <3>2
    <3> QED
      BY <3>2, <3>3
  <2>7. Given' = {} /\ server_cursors' = server_cursors
    BY <1>9, <2>1, <2>3 DEF Sends
  <2>8. Remotes' = Remotes /\ Distinct'
    BY <1>3, <1>10, SameRemotes
  <2> QED
    BY <1>3, <2>1, <2>4, <2>6, <2>7, <2>8 DEF Accounts
<1>11. ASSUME NEW c \in Callers,
              EnterStatement(c) \/ EnterTransaction(c) \/ EnterFetch(c) \/ ReadLob(c)
       PROVE  Accounts'
  <2>1. \A h \in Handles : Remote(h)' = Remote(h)
    BY <1>11, EnteringKeepsRemotes
  <2>2. CASE Calls(c)
    BY <1>10, <2>1, <2>2
  <2>3. CASE HasRows(c) \/ IsFull(c)
    <3>1. UNCHANGED <<requests, responses, server_cursors, pending_close_cursors>>
      BY <2>3 DEF HasRows, IsFull, wireVars
    <3>2. call'[c].at # "receive"
      BY <1>2, <2>3 DEF HasRows, IsFull, Throw, Outside, CallRecords
    <3>3. \A d \in Callers \ {c} : call'[d] = call[d]
      BY <1>1, <1>11, OwnEntryOnly DEF IInv, Operate, Close
    <3> QED
      BY <1>4, <1>9, <2>1, <3>1, <3>2, <3>3
  <2> QED
    BY <1>1, <1>11, <2>2, <2>3, EnterCalls
<1>12. ASSUME NEW c \in Callers, ReceiveReset(c) PROVE Accounts'
  <2>1. /\ responses # <<>> /\ Head(responses) = RESET /\ responses' = Tail(responses)
        /\ UNCHANGED <<call, server_cursors, pending_close_cursors, statements>>
        /\ UNCHANGED requests \/ requests' = Append(requests, RESET)
    BY <1>12 DEF ReceiveReset, serverVars, sessionVars
  <2>2. Given' = Given
    BY <1>2, <1>8, <2>1
  <2>3. Asked' = Asked
    BY <1>9, <2>1 DEF Markers
  <2> QED
    BY <1>4, <2>1, <2>2, <2>3 DEF Remote
<1>13. ASSUME NEW c \in Callers, Accepts(c),
              ReceiveQuery(c) \/ ReceiveExecuted(c) \/ ReceiveCall(c) \/ ReceiveRows(c) \/ ReceiveStatus(c)
       PROVE  Accounts'
  <2>1. /\ call[c].at = "receive" /\ responses # <<>> /\ Head(responses) \in Answers
        /\ responses' = Tail(responses) /\ UNCHANGED <<requests, server_cursors>>
        /\ Head(responses).outcome = "ok"
        /\ Leave(c) \/ \E h \in Handles \cup {0} : Done(c, h)
    BY <1>8, <1>13 DEF Accepts, Answered
  <2>2. PICK m \in Answers : m = Head(responses)
    BY <2>1
  <2>3. Given = {m} /\ Given' = {} /\ m.outcome = "ok"
    BY <1>8, <2>1, <2>2
  <2>4. Asked = {} /\ Asked' = {}
    BY <1>1, <1>9, <2>1, <2>3 DEF InStep
  <2>5. PICK queued \in SUBSET CursorIds, kept \in SUBSET CursorIds :
           /\ Told(m) = queued \cup kept
           /\ queued \cap kept = {}
           /\ pending_close_cursors' = pending_close_cursors \cup queued
           /\ Remotes' = Remotes \cup kept
           /\ Distinct /\ kept \cap Remotes = {} => Distinct'
    BY <1>13, <2>2, AnswersSettle DEF Settles
  <2>6. \A d \in Callers : call'[d].at # "receive"
    <3>1. \A d \in Callers \ {c} : call'[d] = call[d]
      BY <1>2, <2>1 DEF Leave, Done
    <3>2. call_mutex = c
      BY <2>1 DEF IInv, Handling, InHand
    <3>3. \A d \in Callers \ {c} : call[d].at # "receive"
      BY <3>2, OneWaits DEF IInv
    <3>4. call'[c].at # "receive"
      <4>1. CASE Leave(c)
        BY <1>2, <4>1 DEF Leave, Outside
      <4>2. CASE \E h \in Handles \cup {0} : Done(c, h)
        BY <1>2, <4>2 DEF Done, CallRecords
      <4> QED
        BY <2>1, <4>1, <4>2
    <3> QED
      BY <3>1, <3>3, <3>4
  <2>7. Told(m) \subseteq server_cursors /\ Told(m) \cap (Remotes \cup pending_close_cursors) = {}
    BY <1>3, <2>3
  <2>8. \A id \in server_cursors : id \in Remotes \cup pending_close_cursors \cup Told(m)
    BY <1>3, <2>3, <2>4
  <2>9. Distinct'
    BY <1>3, <2>5, <2>7
  <2> QED
    BY <1>3, <2>1, <2>3, <2>4, <2>5, <2>6, <2>7, <2>8, <2>9 DEF Accounts
<1>14. ASSUME NEW c \in Callers, Receive(c) PROVE Accounts'
  <2>1. ReceiveReset(c) \/ Accepts(c)
    BY <1>1, <1>14, ReceiveAccepts
  <2>2. ~ReceiveError(c)
    BY <1>1, FailedIsBroken DEF ReceiveError, Answered
  <2>3. ReceiveReset(c) => ~Accepts(c)
    BY DEF ReceiveReset, Accepts, Answered
  <2> QED
    BY <1>12, <1>13, <1>14, <2>1, <2>2, <2>3 DEF Receive
<1>15. ASSUME NEW c \in Callers, ReceiveFails(c) PROVE FALSE
  BY <1>1, <1>15, FailedIsBroken DEF ReceiveFails
<1>16. ASSUME NEW c \in Callers,
              Begin(c) \/ BeginRefused(c) \/ FetchRefused(c) \/ Complete(c) \/ CursorClose(c)
       PROVE  Accounts'
  <2>1. UNCHANGED <<requests, responses, server_cursors, pending_close_cursors, statements>>
    BY <1>16 DEF Begin, BeginRefused, FetchRefused, Complete, CursorClose, wireVars, channelVars,
       sessionVars, registry
  <2>2. \A d \in Callers \ {c} : call'[d] = call[d]
    <3>1. ~Close(c)
      BY <1>1 DEF Close
    <3> QED
      BY <1>16, <3>1, OwnEntryOnly DEF IInv, Operate
  <2>3. call'[c] = call[c] \/ call'[c].at # "receive"
    <3>1. CASE Begin(c)
      BY <1>2, <3>1 DEF Begin, CallRecords
    <3>2. CASE CursorClose(c)
      BY <1>2, <3>2 DEF CursorClose, CallRecords
    <3>3. CASE Leave(c) \/ Throw(c)
      BY <1>2, <3>3 DEF Leave, Throw, Outside
    <3> QED
      BY <1>16, <3>1, <3>2, <3>3 DEF BeginRefused, FetchRefused, Complete
  <2> QED
    BY <1>4, <1>9, <2>1, <2>2, <2>3 DEF Remote
<1>17. ASSUME NEW c \in Callers, CursorClosed(c) PROVE Accounts'
  <2>1. PICK h \in Handles : h = call[c].handle /\ owner[h] = c
    BY <1>17, HandleInHand DEF CursorClosed, IInv
  <2>2. /\ call_mutex \in {NoCaller, c} /\ call[c].at = "close"
        /\ pending_close_cursors' = pending_close_cursors \cup {Remote(h)}
        /\ statements' = [statements EXCEPT ![h] = Closed]
        /\ UNCHANGED <<requests, responses, server_cursors>> /\ Leave(c)
    BY <1>17, <2>1 DEF CursorClosed, LockCall, wireVars, Remote
  <2>3. \A d \in Callers : call[d].at # "receive"
    BY <2>2, OneWaits DEF IInv
  <2>4. \A d \in Callers : call'[d].at # "receive"
    BY <1>2, <2>2, <2>3 DEF Leave, Outside
  <2>5. Asked = {} /\ Given = {} /\ Asked' = {} /\ Given' = {}
    BY <1>1, <1>9, <2>2, <2>3, NothingOnItsWay
  <2>6. Remote(h) # 0 /\ Remote(h)' = 0 /\ \A g \in Handles \ {h} : Remote(g)' = Remote(g)
    BY <1>2, <2>1, <2>2, NoCallerIsNone DEF IInv, Owned, Remote, Closed
  <2>7. Remotes' = Remotes \ {Remote(h)} /\ Remote(h) \in Remotes /\ Distinct'
    BY <1>3, <2>6, OldRemote
  <2>8. PICK id : id = Remote(h)
    OBVIOUS
  <2> QED
    BY <1>3, <2>2, <2>4, <2>5, <2>7, <2>8 DEF Accounts
<1>18. CASE Cancel
  <2>1. /\ UNCHANGED <<responses, call, server_cursors, pending_close_cursors, statements>>
        /\ UNCHANGED requests \/ requests' = Append(requests, INTERRUPT)
    BY <1>18 DEF Cancel, serverVars, registry
  <2>2. Asked' = Asked /\ Given' = Given
    BY <1>9, <2>1 DEF Markers
  <2> QED
    BY <1>4, <2>1, <2>2 DEF Remote
<1>19. CASE Server
  <2>1. /\ UNCHANGED <<call, pending_close_cursors, statements>>
        /\ Remotes' = Remotes /\ Distinct'
    <3>1. UNCHANGED <<call, pending_close_cursors, statements>>
      BY <1>19 DEF Server, ServerTakes, ServerAnswers, ServerInterrupted, ServerInterruptedIdle,
         ServerResets, clientVars
    <3>2. \A h \in Handles : Remote(h)' = Remote(h)
      BY <3>1 DEF Remote
    <3> QED
      BY <1>3, <3>1, <3>2, SameRemotes
  <2>2. CASE ServerTakes
    <3>1. /\ requests # <<>> /\ requests' = Tail(requests) /\ Head(requests).type = "CALL"
          /\ server_cursors' = server_cursors \ Head(requests).closes
          /\ UNCHANGED responses \/ responses' = Append(responses, RESET)
      BY <2>2 DEF ServerTakes, Arrived
    <3>2. PICK m \in CallMessages : m = Head(requests)
      BY <1>7, <3>1, MessageKinds
    <3>3. Asked = {m} /\ Asked' = {} /\ server_cursors' = server_cursors \ m.closes
      BY <1>7, <3>1, <3>2
    <3>4. Given = {}
      BY <1>1, <3>3 DEF InStep
    <3>5. Given' = {}
      BY <1>2, <1>6, <1>9, <3>1, <3>4
    <3>6. \A id \in server_cursors : id \in Remotes \cup pending_close_cursors \cup m.closes
      BY <1>3, <3>3, <3>4
    <3>7. m.closes \cap (Remotes \cup pending_close_cursors) = {}
      BY <1>3, <3>3
    <3> QED
      BY <1>3, <2>1, <3>3, <3>5, <3>6, <3>7 DEF Accounts
  <2>3. CASE ServerAnswers
    <3>1. PICK m \in Answers : Runs(m)
      BY <2>3, ServerRuns DEF IInv
    <3>2. UNCHANGED requests /\ server.state # "idle"
      BY <2>3 DEF ServerAnswers
    <3>3. Asked = {} /\ Given = {} /\ Asked' = {}
      BY <1>1, <1>9, <3>2 DEF InStep
    <3>4. Given' = {m}
      BY <1>6, <3>1, <3>3 DEF Runs
    <3>5. \A id \in server_cursors : id \in Remotes \cup pending_close_cursors
      BY <1>3, <3>3
    <3>6. CASE m.outcome = "ok"
      <4>1. server_cursors' = server_cursors \cup Told(m) /\ Told(m) \cap server_cursors = {}
        BY <3>1, <3>6 DEF Runs
      <4> QED
        BY <1>3, <2>1, <3>3, <3>4, <3>5, <4>1 DEF Accounts
    <3>7. CASE m.outcome = "error"
      <4>1. server_cursors \subseteq server_cursors' /\ Told(m) = {}
        BY <3>1, <3>7 DEF Runs
      <4> QED
        BY <1>3, <2>1, <3>3, <3>4, <3>7, <4>1 DEF Accounts
    <3> QED
      BY <3>1, <3>6, <3>7 DEF Runs
  <2>4. CASE ServerInterrupted \/ ServerInterruptedIdle
    <3>1. /\ requests # <<>> /\ requests' = Tail(requests) /\ Head(requests).type = "INTERRUPT"
          /\ UNCHANGED responses \/ responses' = Append(responses, RESET)
          /\ UNCHANGED server_cursors
      BY <2>4 DEF ServerInterrupted, ServerInterruptedIdle, Arrived
    <3>2. Head(requests) \notin CallMessages
      BY <3>1, MessageKinds
    <3>3. Asked' = Asked
      BY <1>7, <3>1, <3>2
    <3>4. Given' = Given
      BY <1>9, <3>1
    <3> QED
      BY <1>4, <2>1, <3>1, <3>3, <3>4 DEF Remote
  <2>5. CASE ServerResets
    <3>1. /\ requests # <<>> /\ requests' = Tail(requests) /\ server.state # "idle"
          /\ \/ responses' = Append(responses, Answer("ORA-01013", 0, 0, FALSE))
             \/ UNCHANGED responses
          /\ UNCHANGED server_cursors
      BY <2>5 DEF ServerResets
    <3>2. Asked = {} /\ Given = {}
      BY <1>1, <3>1 DEF InStep
    <3>3. Asked' = {}
      BY <1>7, <3>1, <3>2
    <3>4. CASE UNCHANGED responses
      BY <1>4, <1>9, <2>1, <3>1, <3>2, <3>3, <3>4 DEF Remote
    <3>5. CASE responses' = Append(responses, Answer("ORA-01013", 0, 0, FALSE))
      <4>1. server.request \in 1..MaximumRequests /\ server.kind \in CallKinds
        BY <3>1, CallsAssumption DEF IInv, Numbered, ServerTyped, TypeOK, CallsAssumption,
           Requests
      <4>2. Answer("ORA-01013", 0, 0, FALSE) \in Answers
        BY <4>1 DEF Answer, Answers
      <4>3. Answer("ORA-01013", 0, 0, FALSE).outcome # "ok" /\ Told(Answer("ORA-01013", 0, 0, FALSE)) = {}
        BY DEF Answer, Told
      <4>4. PICK m \in Answers : m.outcome # "ok" /\ Told(m) = {} /\ responses' = Append(responses, m)
        BY <3>5, <4>2, <4>3
      <4>5. Given' = {m}
        BY <1>6, <3>2, <4>4
      <4> QED
        BY <1>3, <2>1, <3>1, <3>3, <4>4, <4>5 DEF Accounts
    <3> QED
      BY <3>1, <3>4, <3>5
  <2> QED
    BY <1>19, <2>2, <2>3, <2>4, <2>5 DEF Server
<1>20. ASSUME NEW c \in Callers, Close(c) PROVE FALSE
  BY <1>1, <1>20 DEF Close
<1>21. CASE UNCHANGED vars
  BY <1>4, <1>9, <1>21 DEF vars, Remote
<1> QED
  BY <1>11, <1>14, <1>15, <1>16, <1>17, <1>18, <1>19, <1>20, <1>21 DEF Next, Operate

-----------------------------------------------------------------------------
(* The theorems                                                            *)

Invariant == IInv /\ Shut /\ Cancelling /\ InStep /\ Accounts

LEMMA InvariantHolds == Spec => []Invariant
<1>1. Init => Invariant
  <2> SUFFICES ASSUME Init PROVE Invariant
    OBVIOUS
  <2>1. IInv
    BY IInvInit
  <2>2. /\ requests = <<>> /\ responses = <<>> /\ server.state = "idle" /\ ~server.interrupted
        /\ \A c \in Callers : call[c].at = "idle"
    BY DEF Init, ServerIdle, Outside
  <2>3. Asked = {} /\ Given = {}
    BY <2>2, EmptyQueue DEF Asked, Given
  <2>4. Shut
    BY DEF Init, Shut
  <2>5. Cancelling
    BY <2>2, EmptyQueue DEF Init, Cancelling, InterruptOut, ResetOut, ResetBack, CancelledBack
  <2>6. InStep
    BY <2>2, <2>3, EmptyQueue DEF InStep
  <2>7. Remotes = {} /\ Distinct
    BY DEF Init, Remotes, Remote, Distinct, Closed
  <2>8. Accounts
    BY <2>3, <2>7 DEF Init, Accounts
  <2> QED
    BY <2>1, <2>4, <2>5, <2>6, <2>8 DEF Invariant
<1>2. Invariant /\ [Next]_vars => Invariant'
  BY IInvStep, ShutStep, CancellingStep, InStepStep, AccountsStep DEF Invariant
<1> QED
  BY <1>1, <1>2, PTL DEF Spec

(* TtcChannel::Cancel, ReceivePacket and NativeFetchCancellation: when the *)
(* session may be used again, no marker of an earlier cancellation is left *)
(* anywhere that could stop a later call.                                  *)
THEOREM CancellationEnds == Spec => []CancellationIsOver
<1>1. Invariant => CancellationIsOver
  <2> SUFFICES ASSUME Invariant, CanUseConnection PROVE CancellationIsOver
    BY DEF CancellationIsOver
  <2>1. /\ ~cancellation_requested /\ ~InterruptOut /\ server.state # "reset"
        /\ ~server.interrupted
    BY DEF Invariant, Cancelling, CanUseConnection
  <2>2. INTERRUPT \notin ToSet(requests)
    BY <2>1 DEF InterruptOut, None
  <2> QED
    BY <2>1, <2>2 DEF CancellationIsOver
<1> QED
  BY <1>1, InvariantHolds, PTL

(* TtcChannel::Call under the call lock: until an exchange fails, a call   *)
(* that completes has read the answer to its own request, whoever shares   *)
(* the session and whoever cancels.                                        *)
THEOREM AnswersAreOwn == Spec => []AnswerIsOwnUntilFailure
<1>1. Invariant => AnswerIsOwnUntilFailure
  BY DEF Invariant, InStep, AnswerIsOwnUntilFailure
<1> QED
  BY <1>1, InvariantHolds, PTL

(* NativeOracleSession::ReadyForReuse, by which the pools take a session   *)
(* back: there is no request, answer or marker in either queue, and the    *)
(* server is at rest.                                                      *)
THEOREM ReuseIsClean == Spec => []ReusableIsClean
<1>1. Invariant => ReusableIsClean
  <2> SUFFICES ASSUME Invariant, ReadyForReuse, call_mutex = NoCaller
               PROVE  /\ requests = <<>> /\ responses = <<>> /\ server = ServerIdle
                      /\ ~cancellation_requested
    BY DEF ReusableIsClean
  <2>1. ~Broken
    BY DEF ReadyForReuse, Broken, Entries
  <2>2. \A c \in Callers : call[c].at # "receive"
    BY NoCallerIsNone DEF Invariant, IInv, Handling, InHand
  <2>3. Asked = {} /\ Given = {} /\ server.state = "idle"
    BY <2>1, <2>2, NothingOnItsWay DEF Invariant
  <2>4. /\ ~cancellation_requested /\ ~InterruptOut /\ ~ResetOut /\ ~ResetBack
        /\ ~server.interrupted
    BY <2>3 DEF Invariant, Cancelling, ReadyForReuse, CanUseConnection
  <2>5. server = ServerIdle
    <3>1. server = [ServerIdle EXCEPT !.interrupted = FALSE]
      BY <2>3, <2>4 DEF Invariant, IInv, ServerTyped, TypeOK
    <3> QED
      BY <3>1 DEF ServerIdle
  <2>6. requests = <<>>
    <3>1. requests \in Seq(CallMessages \cup Markers) /\ ToSet(requests) \cap (CallMessages \cup Markers) = {}
      BY <2>3, <2>4 DEF Invariant, IInv, Messages, Asked, InterruptOut, ResetOut, None, Markers
    <3> QED
      BY <3>1, Take
  <2>7. responses = <<>>
    <3>1. responses \in Seq(Answers \cup {RESET}) /\ ToSet(responses) \cap (Answers \cup {RESET}) = {}
      BY <2>3, <2>4 DEF Invariant, IInv, Messages, Given, ResetBack, None
    <3> QED
      BY <3>1, Take
  <2> QED
    BY <2>4, <2>5, <2>6, <2>7
<1> QED
  BY <1>1, InvariantHolds, PTL

(* OracleStatementRegistry and pending_close_cursors: as long as nothing   *)
(* failed, each cursor of the server is one statement's or queued to be    *)
(* closed, and the state is of the declared types throughout.              *)
THEOREM CursorsAccounted == Spec => []CursorsAreAccounted
<1>1. Invariant => CursorsAreAccounted
  <2> SUFFICES ASSUME Invariant PROVE CursorsAreAccounted
    OBVIOUS
  <2>1. TypeOK
    BY DEF Invariant, IInv
  <2>2. Remotes = RemoteCursors
    <3>1. \A h \in Handles : statements[h].state = "CLOSED" => Remote(h) = 0
      BY DEF Invariant, IInv, Owned, Remote
    <3> QED
      BY <3>1 DEF Remotes, RemoteCursors, Remote, Entries
  <2>3. ASSUME open, ~Broken, call_mutex = NoCaller
        PROVE  /\ server_cursors \subseteq RemoteCursors \cup pending_close_cursors
               /\ RemoteCursors \cap pending_close_cursors = {}
               /\ RemoteCursors \subseteq server_cursors
    <3>1. \A c \in Callers : call[c].at # "receive"
      BY <2>3, NoCallerIsNone DEF Invariant, IInv, Handling, InHand
    <3>2. Asked = {} /\ Given = {}
      BY <2>3, <3>1, NothingOnItsWay DEF Invariant
    <3> QED
      BY <2>2, <2>3, <3>2 DEF Invariant, Accounts
  <2> QED
    BY <2>1, <2>3 DEF CursorsAreAccounted
<1> QED
  BY <1>1, InvariantHolds, PTL

=============================================================================
