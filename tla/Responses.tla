----------------------------- MODULE Responses ------------------------------
(***************************************************************************)
(* What a server answers, and how the client makes rows and values of it   *)
(* (ReceiveResponseFragments and the decoders it calls).                   *)
(*                                                                         *)
(* A response is a sequence of messages and says nowhere how long it is;   *)
(* it arrives in fragments that may split any field.  Only decoding tells  *)
(* that it has ended.  A row may carry only what differs from the row      *)
(* before it, which may be the last one of the response before.            *)
(*                                                                         *)
(* The wire is a sequence of numbers, of which a field of any width takes  *)
(* one; a value is a number too, its size in bytes, and 0 is NULL.         *)
(***************************************************************************)
EXTENDS Integers, Sequences, SequencesExt, FiniteSets, FiniteSetsExt

CONSTANTS
    MaximumRowBytes,        \* of OracleLobPrefetchLimits
    MaximumBatchBytes,
    RequestedRows,          \* that one fetch asks for
    Tables                  \* what may be queried: [types, form, rows]

ASSUME ResponsesAssumption ==
    /\ {MaximumRowBytes, MaximumBatchBytes, RequestedRows} \subseteq Nat \ {0}
    /\ MaximumRowBytes <= MaximumBatchBytes

(* The messages.                                                           *)
Error == 4
RowHeader == 6
RowData == 7
Parameter == 8
Status == 9
IoVector == 11
Describe == 16
Continuation == 21
Piggyback == 23
ImplicitResults == 27
EndOfRequest == 29

(* Types of columns, by how their values are framed.                       *)
Scalar == 1
Long == 8
Cursor == 102
Lob == 112

NoDataFound == 1403

-----------------------------------------------------------------------------
(* Reading.  A decoder stops with a reason: "cut" (TRUNCATED: more has to  *)
(* arrive), "malformed", "limit" or "refused" by the server.               *)

Has(m, at) == at <= Len(m)
Cut(d) == [d EXCEPT !.why = "cut"]
Stopped(d, why) == [d EXCEPT !.why = why]

(* Messages that are read for their length only: parameters, reports of    *)
(* session state.  A count, and as many fields.                            *)
Skip(d, m) ==
    IF Has(m, d.at + 1) /\ d.at + 1 + m[d.at + 1] <= Len(m)
    THEN [d EXCEPT !.at = @ + 2 + m[d.at + 1]] ELSE Cut(d)

(* DecodeTtcErrorPrefix: a number, and a text when it is not zero.         *)
ErrorSize(m, at) == IF Has(m, at + 1) /\ m[at + 1] = 0 THEN 2 ELSE 3

EndOfCall(d, m) ==
    LET end == d.at + ErrorSize(m, d.at)
        done == [d EXCEPT !.at = end, !.exhausted = m[d.at + 1] = NoDataFound,
                          !.completed = m[d.at + 1] = NoDataFound \/ end = Len(m) + 1]
    IN  IF end > Len(m) + 1 THEN Cut(d)
        ELSE IF m[d.at + 1] \notin {0, NoDataFound} THEN Stopped(d, "refused")
        ELSE done

Ended(d, m, size) ==
    IF d.at + size > Len(m) + 1 THEN Cut(d)
    ELSE [d EXCEPT !.at = @ + size, !.completed = TRUE]

(* Messages until the response is complete or its decoder stops.           *)
Decoded(step(_, _), d, m) ==
    FoldLeft(LAMBDA x, i : IF x.completed \/ x.why # "" \/ ~Has(m, x.at) THEN x ELSE step(x, m),
             d, [i \in 1..Len(m) |-> i])

-----------------------------------------------------------------------------
(* Rows                                                                    *)

Column(type, maximum, inline) == [type |-> type, inline |-> inline,
    (* A column that can hold nothing has no bytes in a row.               *)
    omitted |-> maximum = 0 /\ type \notin {Cursor, Long}]

Selected(bitmap, n) == {c \in 1..n : (bitmap \div 2 ^ (c - 1)) % 2 = 1}
Bitmap(selection) == MapThenSumSet(LAMBDA c : 2 ^ (c - 1), selection)

(* WireCarryingColumns                                                     *)
Carrying(columns, selection) ==
    SetToSortSeq({c \in selection : ~columns[c].omitted}, <)

(* DecodeTtcRowDataPrefix and DecodePrefetchedRow, a cell: what follows a  *)
(* LONG, a locator or what comes before one, is not part of its value.     *)
CellSize(column, m, at) ==
    CASE column.type = Long -> 2
      [] column.type = Lob -> IF m[at] = 0 THEN 1 ELSE IF column.inline THEN 3 ELSE 2
      [] OTHER -> 1

Cells(columns, m, at, order) ==
    LET cell(x, c) ==
            LET size == CellSize(columns[c], m, x.at)
            IN  IF x.cut \/ ~Has(m, x.at) \/ x.at + size > Len(m) + 1 THEN [x EXCEPT !.cut = TRUE]
                ELSE [x EXCEPT !.at = @ + size,
                               !.values = Append(@, IF columns[c].type = Lob THEN m[x.at + size - 1]
                                                    ELSE m[x.at])]
    IN  FoldLeft(cell, [at |-> at, values |-> <<>>, cut |-> FALSE], order)

(* MergeChangedColumns, and ExpandWireRow with a row of NULLs.             *)
Changed(row, order, values) ==
    [c \in DOMAIN row |-> IF c \in ToSet(order) THEN values[SelectInSeq(order, LAMBDA x : x = c)]
                          ELSE row[c]]

Size(row) == FoldLeft(+, 0, row)

(* A decoder between two calls keeps the rows before `kept.at' and the     *)
(* bytes they used.                                                        *)
Decoder(columns, form, preceding, at) ==
    [columns |-> columns, form |-> form, preceding |-> preceding,
     at |-> at, rows |-> <<>>, bytes |-> 0, header |-> <<>>,
     completed |-> FALSE, exhausted |-> FALSE, why |-> "",
     kept |-> [at |-> at, rows |-> 0, bytes |-> 0]]

Resumed(d) ==
    [d EXCEPT !.at = d.kept.at, !.rows = SubSeq(@, 1, d.kept.rows), !.bytes = d.kept.bytes,
              !.header = <<>>, !.completed = FALSE, !.exhausted = FALSE, !.why = ""]

Previous(d) == IF d.rows # <<>> THEN Last(d.rows) ELSE d.preceding

(* account_row, which only a prefetched cursor has, and keep_row.  While a *)
(* header waits for its row nothing is kept.                               *)
AddRow(d, at, row) ==
    LET next == [d EXCEPT !.at = at, !.rows = Append(@, row), !.bytes = @ + Size(row)]
    IN  IF /\ d.form = "prefetched"
           /\ \/ Size(row) > MaximumRowBytes \/ d.bytes + Size(row) > MaximumBatchBytes
              \/ Len(d.rows) >= RequestedRows
        THEN Stopped(d, "limit")
        ELSE IF d.header # <<>> THEN next
        ELSE [next EXCEPT !.kept = [at |-> at, rows |-> Len(next.rows), bytes |-> next.bytes]]

RowHeaderRead_EmptyIsNone(d, m) ==  \* bug: a row that repeats the one before is read as whole
    IF ~Has(m, d.at + 1) \/ (m[d.at + 1] = 1 /\ ~Has(m, d.at + 2)) THEN Cut(d)
    ELSE IF m[d.at + 1] = 0 THEN [d EXCEPT !.at = @ + 2, !.header = <<>>]
    ELSE IF m[d.at + 2] = 0 THEN [d EXCEPT !.at = @ + 3, !.header = <<>>]
    ELSE [d EXCEPT !.at = @ + 3, !.header = <<Selected(m[d.at + 2], Len(d.columns))>>]

(* A header that selects no column is not one without a selection.         *)
RowHeaderRead(d, m) ==
    IF ~Has(m, d.at + 1) \/ (m[d.at + 1] = 1 /\ ~Has(m, d.at + 2)) THEN Cut(d)
    ELSE IF m[d.at + 1] = 0 THEN [d EXCEPT !.at = @ + 2, !.header = <<>>]
    ELSE [d EXCEPT !.at = @ + 3, !.header = <<Selected(m[d.at + 2], Len(d.columns))>>]

RowDataRead(d, m) ==
    LET all == DOMAIN d.columns
        order == Carrying(d.columns, IF d.header = <<>> THEN all ELSE d.header[1])
        cells == Cells(d.columns, m, d.at + 1, order)
    IN  IF cells.cut THEN Cut(d)
        ELSE IF d.header = <<>>
        THEN AddRow(d, cells.at, Changed([c \in all |-> 0], order, cells.values))
        ELSE IF Previous(d) = <<>> THEN Stopped(d, "malformed")
        ELSE AddRow([d EXCEPT !.header = <<>>], cells.at, Changed(Previous(d), order, cells.values))

ContinuationRead(d, m) ==
    LET selection == Selected(m[d.at + 2], Len(d.columns))
        order == Carrying(d.columns, selection)
        cells == Cells(d.columns, m, d.at + 4, order)
    IN  IF Previous(d) = <<>> THEN Stopped(d, "malformed")
        ELSE IF ~Has(m, d.at + 2) THEN Cut(d)
        ELSE IF m[d.at + 1] # Cardinality(selection) THEN Stopped(d, "malformed")
        ELSE IF ~Has(m, d.at + 3) THEN Cut(d)
        ELSE IF m[d.at + 3] # RowData THEN Stopped(d, "malformed")
        ELSE IF cells.cut THEN Cut(d)
        ELSE AddRow(d, cells.at, Changed(Previous(d), order, cells.values))

FetchStep(d, m) ==
    CASE m[d.at] = RowHeader -> RowHeaderRead(d, m)
      [] m[d.at] = RowData -> RowDataRead(d, m)
      [] m[d.at] = Continuation -> ContinuationRead(d, m)
      [] m[d.at] \in {Parameter, Piggyback} -> Skip(d, m)
      [] m[d.at] = Error -> EndOfCall(d, m)
      [] m[d.at] = Status -> Ended(d, m, 2)
      [] m[d.at] = EndOfRequest -> Ended(d, m, 1)
      [] OTHER -> Stopped(d, "malformed")

Decode(d, m) == Decoded(FetchStep, Resumed(d), m)

(* DecodeTtcDescribeInfoPrefix: a count, then a type and a maximum each.   *)
DescribeSize(m) == IF Has(m, 2) THEN 2 + 2 * m[2] ELSE 2
Columns(m) == [c \in 1..m[2] |-> Column(m[1 + 2 * c], m[2 + 2 * c], FALSE)]

(* DecodeTtcExecuteResponse begins again with every fragment.  A refused   *)
(* execute has an end-of-call and nothing else.                            *)
DecodeExecute(d, m) ==
    IF m[1] = Error THEN EndOfCall([d EXCEPT !.at = 1], m)
    ELSE IF m[1] # Describe THEN Stopped(d, "malformed")
    ELSE IF Len(m) <= DescribeSize(m) THEN Cut(d)
    ELSE Decoded(FetchStep, Decoder(Columns(m), "locators", <<>>, DescribeSize(m) + 1), m)

-----------------------------------------------------------------------------
(* The calls of a procedure and of DML                                     *)

(* A value and the length it had; a cursor's id and how many columns it    *)
(* has, each one field.                                                    *)
DescriptorSize(m, at) == IF Has(m, at + 1) THEN 2 + m[at + 1] ELSE 2

OutValues(binds, m, at) ==
    LET cursor(x) == m[x.at] # 0
        size(x, b) ==
            IF b.type = Cursor /\ Has(m, x.at) /\ cursor(x) THEN 1 + DescriptorSize(m, x.at + 1) + 1 ELSE 2
        value(x, b) ==
            IF x.cut \/ x.at + size(x, b) > Len(m) + 1 THEN [x EXCEPT !.cut = TRUE]
            ELSE [x EXCEPT !.at = @ + size(x, b),
                           !.values = Append(@, IF b.type = Cursor /\ cursor(x) THEN m[x.at + 1]
                                                ELSE m[x.at])]
    IN  FoldLeft(value, [at |-> at, values |-> <<>>, cut |-> FALSE],
                 SelectSeq(binds, LAMBDA b : b.direction # "in"))

(* DecodeTtcImplicitResultSetPrefix: descriptors, each after something     *)
(* opaque.                                                                 *)
ImplicitCursors(m, at) ==
    LET descriptor(x, i) ==
            LET size == 1 + DescriptorSize(m, x.at + 1)
            IN  IF x.cut \/ x.at + size > Len(m) + 1 THEN [x EXCEPT !.cut = TRUE]
                ELSE [x EXCEPT !.at = @ + size, !.values = Append(@, m[x.at + 1])]
        none == [at |-> at + 2, values |-> <<>>, cut |-> ~Has(m, at + 1)]
    IN  IF none.cut THEN none ELSE FoldLeft(descriptor, none, [i \in 1..m[at + 1] |-> i])

CallDecoder(binds) ==
    [at |-> 1, binds |-> binds, vector |-> FALSE, outs |-> <<>>, implicit |-> <<>>,
     completed |-> FALSE, exhausted |-> FALSE, why |-> ""]

CallStep(d, m) ==
    LET outs == OutValues(d.binds, m, d.at + 1)
        implicit == ImplicitCursors(m, d.at)
        vector == d.at + 2 + m[d.at + 1]        \* the directions are Oracle's own
    IN  CASE m[d.at] = IoVector ->
                IF d.vector THEN Stopped(d, "malformed")
                ELSE IF ~Has(m, d.at + 1) \/ vector > Len(m) + 1 THEN Cut(d)
                ELSE IF m[d.at + 1] # Len(d.binds) THEN Stopped(d, "malformed")
                ELSE [d EXCEPT !.at = vector, !.vector = TRUE]
          [] m[d.at] = RowData ->
                IF ~d.vector \/ d.outs # <<>> THEN Stopped(d, "malformed")
                ELSE IF outs.cut THEN Cut(d)
                ELSE [d EXCEPT !.at = outs.at, !.outs = <<outs.values>>]
          [] m[d.at] = ImplicitResults ->
                IF implicit.cut THEN Cut(d)
                ELSE [d EXCEPT !.at = implicit.at, !.implicit = @ \o implicit.values]
          [] m[d.at] \in {Parameter, Piggyback} -> Skip(d, m)
          [] m[d.at] = Error ->
                LET done == EndOfCall(d, m)
                IN  IF done.exhausted THEN Stopped(d, "refused") ELSE done
          [] m[d.at] = Status -> Ended(d, m, 2)
          [] m[d.at] = EndOfRequest -> Ended(d, m, 1)
          [] OTHER -> Stopped(d, "malformed")

DecodeCall(binds, m) == Decoded(CallStep, CallDecoder(binds), m)

(* What a call's response of every length says: nothing until all of it    *)
(* has arrived, and then the values that were meant.                       *)
CallTokens(binds, outs, implicit) ==
    LET descriptor(id) == <<id, 1, id>>
        returned == SelectSeq(binds, LAMBDA b : b.direction # "in")
        out(i) == IF returned[i].type = Cursor /\ outs[i] # 0 THEN <<9>> \o descriptor(outs[i]) \o <<0>>
                  ELSE <<outs[i], outs[i]>>
    IN  <<IoVector, Len(binds)>> \o [i \in DOMAIN binds |-> 16]
            \o <<RowData>> \o FlattenSeq([i \in DOMAIN returned |-> out(i)])
            \o (IF implicit = <<>> THEN <<>>
                ELSE <<ImplicitResults, Len(implicit)>>
                         \o FlattenSeq([i \in DOMAIN implicit |-> <<7>> \o descriptor(implicit[i])]))
            \o <<Parameter, 1, 29, Error, 0>>

CallIsWhole(binds, outs, implicit) ==
    LET m == CallTokens(binds, outs, implicit)
        whole == DecodeCall(binds, m)
    IN  /\ \A n \in 1..(Len(m) - 1) :
              LET d == DecodeCall(binds, SubSeq(m, 1, n)) IN ~d.completed /\ d.why \in {"", "cut"}
        /\ whole.completed /\ whole.outs = <<outs>> /\ whole.implicit = implicit

-----------------------------------------------------------------------------
(* A cursor, fetched to its end                                            *)

VARIABLES
    table,          \* what is queried
    sent,           \* how many of its rows the server has sent
    wire,           \* the response, as far as the server has written it
    terminal,       \* what it ended the response with, <<>> before
    arrived,        \* how much of it the client has
    decoder,
    fetched,        \* the rows of the responses that are complete
    preceding,      \* the cursor's previous_row
    defined,        \* how many rows had been sent before the present define
    fetching        \* "execute" and "fetch" wait for a response; "idle"; and
                    \* "exhausted", "refused", "limit" or "malformed" for good

responseVars == <<table, sent, wire, terminal, arrived, decoder, fetched, preceding, defined, fetching>>

ResponsesInit ==
    /\ table \in Tables /\ sent = 0 /\ wire = <<>> /\ terminal = <<>> /\ arrived = 0
    /\ decoder = Decoder(<<>>, "locators", <<>>, 1)
    /\ fetched = <<>> /\ preceding = <<>> /\ defined = 0 /\ fetching = "execute"

Waiting == fetching \in {"execute", "fetch"}
Writing == Waiting /\ terminal = <<>>
Maximum(c) == IF \A i \in DOMAIN table.rows : table.rows[i][c] = 0 THEN 0 ELSE 5

(* What is fetched after a define comes with its LOBs' first bytes.        *)
FetchForm == IF fetching = "execute" THEN "locators" ELSE table.form
Inline(form, type) == form # "locators" /\ type = Lob

ServerColumns ==
    [c \in DOMAIN table.types |->
        Column(table.types[c], Maximum(c), Inline(FetchForm, table.types[c]))]

DescribeTokens ==
    <<Describe, Len(table.types)>>
        \o FlattenSeq([c \in DOMAIN table.types |-> <<table.types[c], Maximum(c)>>])

Written == IF wire = <<>> /\ fetching = "execute" THEN DescribeTokens ELSE wire

CellTokens(column, value) ==
    CASE column.type = Long -> <<value, 0>>
      [] column.type = Lob /\ value # 0 -> IF column.inline THEN <<1, value, value>> ELSE <<1, value>>
      [] OTHER -> <<value>>

RowTokens(row, selection) ==
    LET order == Carrying(ServerColumns, selection)
    IN  <<RowData>> \o FlattenSeq([i \in DOMAIN order |-> CellTokens(ServerColumns[order[i]], row[order[i]])])

(* It sends a row's differences only from a row of the same define.        *)
ServerSendsRow(form, selection) ==
    LET row == table.rows[sent + 1]
        rowsOfResponse == sent - Len(fetched)
        before == table.rows[sent]
        prefix == CASE form = "whole" -> <<>>
                    [] form = "headed" -> <<RowHeader, 0>>
                    [] form = "selected" -> <<RowHeader, 1, Bitmap(selection)>>
                    [] form = "continued" -> <<Continuation, Cardinality(selection), Bitmap(selection)>>
    IN  /\ Writing /\ sent < Len(table.rows) /\ rowsOfResponse < RequestedRows
        /\ IF form \in {"whole", "headed"} THEN selection = DOMAIN row
           ELSE sent > defined /\ {c \in DOMAIN row : row[c] # before[c]} \subseteq selection
        /\ wire' = Written \o prefix \o RowTokens(row, selection)
        /\ sent' = sent + 1
        /\ UNCHANGED <<table, terminal, arrived, decoder, fetched, preceding, defined, fetching>>

(* One report in a response is enough.                                     *)
ServerReports ==
    /\ Writing /\ wire = <<>>
    /\ wire' = Written \o <<Piggyback, 1, RowData>>
    /\ UNCHANGED <<table, sent, terminal, arrived, decoder, fetched, preceding, defined, fetching>>

ServerEnds(end) ==
    /\ Writing /\ (end[1] = Error /\ end[2] = NoDataFound => sent = Len(table.rows))
    /\ terminal' = end /\ wire' = Written \o end
    /\ UNCHANGED <<table, sent, arrived, decoder, fetched, preceding, defined, fetching>>

ServerRefuses ==
    /\ Writing /\ terminal' = <<Error, 600, 1>>
    /\ wire' = wire \o terminal'
    /\ UNCHANGED <<table, sent, arrived, decoder, fetched, preceding, defined, fetching>>

(* A fragment arrives, with which the response up to `upTo' has: a field,  *)
(* two, or all the rest.  What follows an end-of-call comes with it.       *)
Receive(upTo) ==
    LET m == SubSeq(wire, 1, upTo)
        d == IF fetching = "execute" THEN DecodeExecute(decoder, m) ELSE Decode(decoder, m)
    IN  /\ Waiting /\ terminal # <<>> /\ upTo \in (arrived + 1)..Len(wire)
        /\ upTo = Len(wire) - 1 => ~(Len(terminal) > 1 /\ Last(terminal) = EndOfRequest)
        /\ IF d.completed
           THEN /\ fetched' = fetched \o d.rows
                /\ fetching' = IF d.exhausted THEN "exhausted" ELSE "idle"
                /\ preceding' = Previous(d)
           ELSE /\ fetching' = IF d.why \in {"", "cut"} THEN fetching ELSE d.why
                /\ UNCHANGED <<fetched, preceding>>
        /\ arrived' = upTo /\ decoder' = d
        /\ UNCHANGED <<table, sent, wire, terminal, defined>>

(* NativeOracleCursor::Fetch: the first one defines, and forgets the row   *)
(* before, whose LOBs were locators.                                       *)
Fetch ==
    LET columns == [c \in DOMAIN decoder.columns |->
                       [decoder.columns[c] EXCEPT !.inline = Inline(table.form, decoder.columns[c].type)]]
        defines == columns # decoder.columns
        last == IF defines THEN <<>> ELSE preceding
    IN  /\ fetching = "idle"
        /\ fetching' = "fetch" /\ preceding' = last
        /\ defined' = IF defines THEN sent ELSE defined
        /\ wire' = <<>> /\ terminal' = <<>> /\ arrived' = 0
        /\ decoder' = Decoder(columns, table.form, last, 1)
        /\ UNCHANGED <<table, sent, fetched>>

ResponsesNext ==
    \/ \E form \in {"whole", "headed", "selected", "continued"}, s \in SUBSET DOMAIN table.types :
           ServerSendsRow(form, s)
    \/ ServerReports \/ ServerRefuses
    \/ \E end \in {<<Error, 0>>, <<Error, 0, EndOfRequest>>, <<Error, NoDataFound, 1>>,
                   <<Error, NoDataFound, 1, EndOfRequest>>, <<Status, 0>>, <<EndOfRequest>>} :
           ServerEnds(end)
    \/ \E n \in {arrived + 1, arrived + 2, Len(wire)} : Receive(n)
    \/ Fetch

-----------------------------------------------------------------------------
(* However the server writes its rows and wherever the network splits      *)
(* them, the cursor returns each of them once, as it is in the table; it   *)
(* fails only when the server refuses or a batch is past its limits; and   *)
(* it never waits for more of a response that has arrived.                 *)
OverLimit ==
    LET batch == SubSeq(table.rows, Len(fetched) + 1, sent)
    IN  /\ table.form = "prefetched" /\ fetched # <<>>
        /\ \/ \E i \in DOMAIN batch : Size(batch[i]) > MaximumRowBytes
           \/ FoldLeft(LAMBDA n, r : n + Size(r), 0, batch) > MaximumBatchBytes

RowsAreOnce ==
    /\ IsPrefix(fetched, table.rows)
    /\ Waiting => IsPrefix(fetched \o SubSeq(decoder.rows, 1, decoder.kept.rows), table.rows)
    /\ fetching = "idle" => Len(fetched) = sent
    /\ fetching = "exhausted" => fetched = table.rows
    /\ fetching = "refused" => terminal = <<Error, 600, 1>>
    /\ fetching = "limit" => OverLimit
    /\ fetching # "malformed"
    /\ Waiting /\ terminal # <<>> => arrived < Len(wire)
=============================================================================
