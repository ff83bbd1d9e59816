---------------------------- MODULE MCComponents ----------------------------
(* The instance of the components that share no state, for one run of TLC. *)
(* `subject' is the component a behaviour works; the others stay as they   *)
(* begin.  A component of pure definitions takes one `input'.              *)
EXTENDS Pushdown, Lobs, Callables, Resolver, Responses, Calls, TableRanges, Snapshots,
        CallerInterrupt, Metadata, Values, TLC

CONSTANTS k1, k2, s1, s2, s3, l1, l2, l3, l4, w1, w2, c1, c2, t1, t2, q1, q2, memory, file, ora

VARIABLES subject, input

NoInput == <<>>        \* the input of a component that has none

-----------------------------------------------------------------------------
(* Pushdown: every filter over every stored value of a column it fits.     *)
PushColumn(kind, type, rounds) == [kind |-> kind, type |-> type, rounds |-> rounds]
Amount == PushColumn("number", "DECIMAL", FALSE)
Rounded == PushColumn("number", "DECIMAL", TRUE)
Digital == PushColumn("number", "VARCHAR", FALSE)
PushColumns ==
    {Amount, Rounded, Digital, PushColumn("date", "TIMESTAMP", FALSE),
     PushColumn("text", "VARCHAR", FALSE), PushColumn("char", "VARCHAR", FALSE),
     PushColumn("json", "JSON", FALSE), PushColumn("rowid", "VARCHAR", FALSE)}

Letterings == {<<>>, <<10>>, <<20>>, <<10, 0>>, <<10, 20>>}
StoredValues(c) ==
    CASE c.kind = "number" -> {<<n>> : n \in 0..11} \cup {Null}
      [] c.kind = "date" -> {<<d, 0>> : d \in 1..3} \cup {Null}
      [] c.kind = "json" -> {Null} \cup {<<t>> : t \in {Nothing, JsonNull}}
            \cup {<<t>> \o x : t \in {JsonText, JsonArray}, x \in Letterings \cup {<<1>>}}
            \cup {<<JsonNumber, 1>>, <<JsonNumber, 1, 0>>, <<JsonObject, 10>>}
      [] OTHER -> (Letterings \ {<<>>}) \cup {Null}

TextConstant(v) == Constant("text", v)
Keys(ns) == [i \in DOMAIN ns |-> NumberConstant(ns[i])]
Comparisons ==
    {Compared(t, r, k) : t \in {"column", "path"}, r \in {"=", "<>", "<", "<=", ">", ">="},
        k \in {NumberConstant(4), NumberConstant(5), Constant("number", Null),
               Constant("moment", <<2, 0>>), Constant("moment", <<2, 1>>),
               TextConstant(<<>>), TextConstant(<<10>>), TextConstant(<<1>>), TextConstant(<<1, 0>>)}}
Memberships ==
    {In("column", SubSeq(Keys(<<2, 4, 6, 8, 10>>), 1, n)) : n \in 1..5}
    \cup {In("path", <<TextConstant(<<10>>), TextConstant(x)>>) : x \in {<<20>>, <<1>>}}
Combinations ==
    {Or(<<Compared("path", "=", TextConstant(<<10>>)), e>>) :
        e \in {Compared("path", "=", TextConstant(<<20>>)), IsNull("path"), IsNotNull("path")}}
    \cup {And(<<e, f>>) : e \in {IsNotNull("column"), Optional(<<>>), SomeFunction},
                          f \in {Compared("column", "<", NumberConstant(5)),
                                 Optional(<<SomeFunction>>),
                                 Optional(<<Compared("column", "=", TextConstant(<<10>>))>>)}}
    \cup {And(<<Optional(<<KeyFilter(Keys(ns), grain)>>), IsNotNull("column")>>) :
            ns \in {<<>>, <<4>>, <<-3, 4, 5>>, <<0, 2, 4, 6, 8, 11>>}, grain \in {1, 4}}
PushedFilters ==
    Comparisons \cup Memberships \cup Combinations \cup {SomeFunction}
    \cup {IsNull(t) : t \in {"column", "path"}} \cup {IsNotNull(t) : t \in {"column", "path"}}

RECURSIVE Fits(_, _)
Fits(e, c) ==           \* DuckDB has typed the filter
    /\ e.subject = "path" => c.kind = "json"
    /\ \A a \in ToSet(e.args) : Fits(a, c)
    /\ \A k \in ToSet(e.constants) :
         k.type = IF e.subject = "path" THEN "text"
                  ELSE CASE c.type = "DECIMAL" -> "number" [] c.type = "TIMESTAMP" -> "moment" [] OTHER -> "text"

(* Plans over a table of two columns.                                      *)
PlanRows == {<<a, b>> : a \in {Null, <<2>>, <<3>>}, b \in {<<1>>, <<2>>}}
PlainPlan == [columns |-> <<Amount, Amount>>, projections |-> <<>>, local |-> <<>>, sample |-> FALSE,
              keys |-> <<>>, groups |-> <<>>, aggregates |-> <<>>, grouping_sets |-> FALSE,
              dynamic |-> FALSE, database |-> 1]
Plans ==
    {[PlainPlan EXCEPT !.columns = <<a, b>>, !.projections = p, !.local = l] :
        a \in {Amount, Rounded, Digital}, b \in {Amount, Rounded},
        p \in {<<>>, <<<<2, 1>>>>, <<<<0, 2>>>>},
        l \in {<<>>, <<Compared("column", ">", NumberConstant(2))>>}}
OrderKey(c, d, n) == [column |-> c, descending |-> d, nulls_first |-> n]
TopNs == {[p EXCEPT !.keys = <<OrderKey(1, d, n), OrderKey(2, ~d, n)>>] : p \in Plans, d, n \in BOOLEAN}
AggregateCall(f, column) == [name |-> f, column |-> column, plain |-> TRUE]
Aggregates ==
    {[p EXCEPT !.groups = g, !.aggregates = <<AggregateCall(f, 1), AggregateCall("count_star", 0), AggregateCall(h, 2)>>] :
        p \in Plans, g \in {<<>>, <<2>>}, f \in {"sum", "max"}, h \in {"min", "count"}}
Joins ==
    {[inner |-> TRUE,
      conditions |-> <<[left |-> l, right |-> 2, rel |-> r], [left |-> 2, right |-> k, rel |-> ">="]>>,
      outputs |-> <<[side |-> 1, column |-> 1], [side |-> 2, column |-> 2], [side |-> 1, column |-> 1]>>] :
        l, k \in {1, 2}, r \in {"=", "<>", "<", "<=", ">", ">="}}
JoinPlans == {p \in Plans : p.projections \in {<<>>, <<<<2, 1>>>>}}

PushdownInput ==
    \/ input \in {"filter"} \X PushedFilters \X PushColumns /\ Fits(input[2], input[3])
    \/ input \in ({"topn"} \X TopNs) \cup ({"aggregate"} \X Aggregates)
    \/ input \in {"join"} \X JoinPlans \X JoinPlans \X Joins

(* A query answered by Oracle, wholly or in part, has the answer DuckDB's  *)
(* own operators would have given: no filter sent drops a row DuckDB would *)
(* keep, and a TopN, an aggregate or a join sent in their place agrees.    *)
PushdownIsSound ==
    subject = "pushdown" =>
        CASE input[1] = "filter" -> FilterIsSound(input[2], input[3], StoredValues(input[3]))
          [] input[1] = "topn" -> \A n \in 1..3 : TopNIsSound(input[2], PlanRows, n)
          [] input[1] = "aggregate" -> AggregateIsSound(input[2], PlanRows)
          [] input[1] = "join" -> JoinIsSound(input[2], input[3], input[4], PlanRows, PlanRows)

-----------------------------------------------------------------------------
(* Lobs: texts of characters of one, three and four bytes.                 *)
LobTexts == BoundedSeq({1, 3, 4}, 4) \cup {<<1, 1, 1, 4, 3>>, <<4, 4, 4, 4, 4>>, <<1, 1, 1, 1, 1>>}
Bound(l, t) == LobBind(l, IF t = <<0>> THEN <<>> ELSE <<Utf8(t)>>)
LobRows ==
    {<<Bound(Clob, a), Bound(Blob, b), Bound(0, <<1>>)>> :
        a \in {<<0>>, <<1>>, <<1, 4, 1>>, <<1, 1, 1, 4, 3>>}, b \in {<<0>>, <<1>>, <<3, 3>>}}
LobInput ==
    \/ input \in {"read"} \X BOOLEAN \X LobTexts \X {"locator", "inline", "prefetched"} \X (0..3) \X {0, 1, 2, 10}
    \/ input \in {"write"} \X (BoundedSeq(LobRows, 2) \ {<<>>}) \X (0..2) \X (0..7)
    \/ input \in {"write"} \X {<<p, p, q>> : p, q \in LobRows} \X (0..3) \X (0..7)

(* A LOB is read whole or the read fails, however its content was sent and *)
(* wherever characters are split; a written one holds what was bound, and  *)
(* no temporary LOB outlives the statement it was made for.                *)
LobsAreWhole ==
    subject = "lobs" =>
        IF input[1] = "read" THEN ReadIsWhole(input[2], input[3], input[4], input[5], input[6])
        ELSE WriteIsWhole(input[2], input[3], input[4])

-----------------------------------------------------------------------------
(* Callables: binds named "a" written in two ways, "b", "c" and a result.  *)
Bind(x, d, t) == [name |-> x, direction |-> d, type |-> t]
Named(x) == <<x, 0>>
Binds == {Bind(x, d, 2) : x \in {Named("a"), <<"a", 1>>, Named("b")}, d \in {"in", "out"}}
         \cup {Bind(x, "out", CursorType) : x \in {Named("a"), <<"a", 1>>, Named("b")}}
ArgumentLists ==
    {<<>>} \cup {<<x>> : x \in Binds} \cup {<<x, y>> : x, y \in Binds}
    \cup {<<x, y, Bind(Named("c"), "out", t)>> : x \in {b \in Binds : b.name = Named("b")}, y \in Binds, t \in {2, CursorType}}
Request(k, r, a, b, o) == [kind |-> k, returned |-> r, arguments |-> a, block |-> b, operations |-> o]
Results == {Bind(Named("r"), "out", 2), Bind(Named("r"), "out", CursorType), Bind(Named("a"), "out", 2)}
Requests ==
    {Request("procedure", r, a, <<>>, <<>>) : r \in {<<>>, <<Bind(Named("r"), "out", 2)>>}, a \in ArgumentLists}
    \cup {Request("function", <<r>>, a, <<>>, <<>>) : r \in Results, a \in ArgumentLists}
    \cup {Request("composite", <<>>, a, <<>>, o) : a \in ArgumentLists,
            o \in {<<>>, <<<<Named("a")>>>>, <<<<Named("b"), Named("a")>>, <<Named("b")>>>>}}
    \cup {Request("block", <<>>, a, b, <<>>) : a \in ArgumentLists,
            b \in UNION {[1..n -> {Named("a"), <<"a", 1>>, Named("b"), Named("c")}] : n \in 0..3}}
Answering(nulls) == [x \in {"a", "b", "c", "r"} |-> IF x \in nulls THEN <<>> ELSE <<x>>]

MetadataRow(o, n, arg) ==
    [owner |-> o[1], package |-> o[2], object |-> o[3], overload |-> n,
     position |-> arg[1], level |-> arg[2], type |-> arg[3], direction |-> arg[4]]
Signatures ==
    {<<<<1, 0, "NUMBER", "in">>>>,
     <<<<1, 0, "DATE", "out">>, <<2, 0, "NUMBER", "in">>>>,
     <<<<0, 0, "NUMBER", "out">>, <<1, 0, "REF_CURSOR", "out">>>>,
     <<<<1, 0, "TABLE", "in">>, <<1, 1, "NUMBER", "in">>>>,
     <<<<1, 0, "DATE", "in">>, <<2, 0, "RAW", "inout">>>>,
     <<<<1, 0, "REF_CURSOR", "in">>>>}
Described(o, n, signature) == [i \in DOMAIN signature |-> MetadataRow(o, n, signature[i])]
Objects == {<<"USER", Absent, "f">>, <<"USER", "p", "f">>, <<"p", Absent, "f">>, <<"p", "f", "f">>,
            <<"s", Absent, "g">>, <<"s", "p", "f">>, <<"USER", "f", "p">>}
Dictionaries ==
    {Described(o, "1", a) \o Described(o, "2", b) : o \in Objects, a, b \in Signatures}
    \cup {Described(o, Absent, a) \o Described(p, Absent, <<<<1, 0, "NUMBER", "in">>>>) :
            o, p \in Objects, a \in Signatures}
Synonym(n, o, t) == [name |-> n, table_owner |-> o, table_name |-> t]
Synonyms ==
    {<<>>, <<Synonym("f", "s", "g"), Synonym("f", "USER", "f")>>, <<Synonym("p", "s", "p")>>,
     <<Synonym("f", Absent, "q"), Synonym("f", "p", "f"), Synonym("s", "USER", "f")>>}
CallableInput ==
    \/ input \in {"call"} \X Requests \X {Answering(n) : n \in SUBSET {"a"}} \X {0}
    \/ input \in {"call"} \X {r \in Requests : r.kind # "block"} \X {Answering(n) : n \in SUBSET {"a", "c"}} \X {1}
    \/ input \in {"auto"} \X {<<"f">>, <<"p", "f">>, <<"s", "p", "f">>, <<"g">>} \X Dictionaries \X Synonyms
            \X {<<>>, <<<<>>>>, <<<<7>>>>, <<<<>>, <<7>>>>, <<<<7>>, <<>>>>, <<<<7>>, <<7>>>>}
    \/ input \in {"answer"} \X {<<Bind(Named("a"), d, t), Bind(Named("b"), e, u)>> :
                            d, e \in {"in", "out"}, t, u \in {2, CursorType}}
            \X BoundedSeq({0, 2}, 2) \X BoundedSeq({3, 4}, 2)

(* A value bound comes out under the name it was bound to, whatever order  *)
(* the block mentions it in; a callable described by the dictionary is the *)
(* one its name means, called with the argument types it has; and the      *)
(* values and cursors of an answer are those the call asked for.           *)
CallsAreTheOnesMeant ==
    /\ FormsAgree
    /\ subject = "callables" =>
        CASE input[1] = "call" -> AnswersAreTheirOwn(input[2], input[3], input[4])
          [] input[1] = "auto" -> CallIsTheOneMeant(input[2], input[3], input[4], input[5])
          [] input[1] = "answer" ->
               Len(input[3]) = Len(SelectSeq(input[2], LAMBDA b : b.direction # "in"))
                 => CallIsWhole(input[2], input[3], input[4])

-----------------------------------------------------------------------------
(* TableRanges: keys that fill a range of 4-bit words, in halves, some of  *)
(* them beyond a word; and tables of a few extents.                        *)
RangesInput ==
    \/ \E low \in -17..15, high \in -17..15 :
          input \in {"keys"} \X {low..high} \X BOOLEAN \X (1..MaximumShards)
    \/ input \in {"extents"} \X BoundedSeq({1, 2, 5}, 6) \X (0..4)

(* The statements that scan a table in parallel, which all read at one     *)
(* moment, return together each row of the table exactly once.             *)
TableIsReadOnce ==
    subject = "ranges" =>
        CASE input[1] = "keys" -> KeysAreReadOnce(input[2], input[3], input[4])
          [] input[1] = "extents" -> RowsAreReadOnce(input[2], input[3])

-----------------------------------------------------------------------------
(* Values: every small number type; texts, moments, intervals and vectors. *)
DeclaredAs(is, precision, scale, vector) ==
    [is |-> is, precision |-> precision, scale |-> scale, vector |-> vector]
Numbers == {DeclaredAs("NUMBER", p, s, NoVector) : p \in 1..4, s \in -1..3}
Floats == {DeclaredAs("FLOAT", p, 0, NoVector) : p \in 1..5}
Timed == {DeclaredAs(t, 0, s, NoVector) : t \in {"DATE", "TIMESTAMP", "TIMESTAMP TZ", "TIMESTAMP LTZ"}, s \in {0, 6, 9}}
Plains == {DeclaredAs(t, 0, 0, NoVector) :
             t \in {"VARCHAR2", "NVARCHAR2", "CHAR", "NCHAR", "CLOB", "NCLOB", "XMLTYPE", "LONG", "INTERVAL YM",
                    "INTERVAL DS", "BLOB", "BOOLEAN", "JSON", "UROWID", "BINARY_DOUBLE", "BFILE"}}
VectorShapes == [dimensions : {0, 8, 16}, format : {"*", "FLOAT32", "FLOAT64", "INT8", "BINARY"}, sparse : BOOLEAN]
Vectored == {DeclaredAs("VECTOR", 0, 0, v) : v \in VectorShapes}
Vector(format, sparse, length) == [format |-> format, sparse |-> sparse, elements |-> [i \in 1..length |-> i]]
StoredFor(d) ==
    {NullValue} \cup
    CASE d.is = "NUMBER" /\ d.precision > 0 ->
           {v \in {m * 10^(UnitDigits - d.scale) : m \in {-99, -15, -1, 0, 1, 5, 9, 10, 99, 999, 9999}} :
               Magnitude(v) < 10^(UnitDigits + d.precision - d.scale)}
      [] Floating(d) -> {-1500, -1, 0, 1, 49, 500, 1500, 99950, 999999}
      [] d.is = "DATE" -> [second : {0, 5}, nanosecond : {0}, offset : {0}]
      [] d.is = "TIMESTAMP" -> [second : {0, 5}, nanosecond : IF d.scale > 6 THEN {0, 1, 1000} ELSE {0, 1000}, offset : {0}]
      [] d.is \in {"TIMESTAMP TZ", "TIMESTAMP LTZ"} -> [second : {0, 5}, nanosecond : {0, 1}, offset : {-1, 0}]
      [] d.is \in {"NVARCHAR2", "NCHAR"} -> {<<"UTF-16", "text">>}
      [] d.is \in {"VARCHAR2", "CHAR", "CLOB", "NCLOB", "XMLTYPE", "LONG"} -> {<<"UTF-8", "text">>}
      [] d.is = "UROWID" -> [physical : BOOLEAN]
      [] d.is \in {"INTERVAL YM", "INTERVAL DS"} -> {-1000, 0, 1, 1000}
      [] d.is = "VECTOR" ->
           {Vector(f, s, IF f = "BINARY" THEN n \div 8 ELSE n) :
              f \in {"FLOAT32", "FLOAT64", "INT8", "BINARY"} \cap (IF d.vector.format = "*" THEN {"FLOAT32", "FLOAT64", "INT8", "BINARY"} ELSE {d.vector.format}),
              s \in {d.vector.sparse}, n \in IF d.vector.dimensions = 0 THEN {8, 16} ELSE {d.vector.dimensions}}
      [] OTHER -> {"value"}
Settings == {TextMode, <<"double">>, <<"decimal", 3, 1>>, <<"decimal", 2, 0>>}
ValuesInput ==
    input \in {"value"} \X (Numbers \cup Floats \cup Timed \cup Plains \cup Vectored
                            \cup {DeclaredAs("NUMBER", 0, 0, NoVector)}) \X Settings \X BOOLEAN

ReadsAsStored(d, setting, shaped) ==
    \A v \in StoredFor(d) :
        QueryReadsWhatIsStored(d, setting, v) /\ AttachedReadsWhatIsStored(d, shaped, setting, v)

(* A value read is the one stored, in the type the column was given, or is *)
(* refused where that type cannot hold it: in a query and in an attached   *)
(* table, whatever the dictionary could not tell.  The shortest FLOATs are *)
(* the other property's.                                                   *)
ValuesAreAsStored ==
    subject = "values" /\ ~(input[2].is = "FLOAT" /\ input[2].precision <= BigintDigits)
        => ReadsAsStored(input[2], input[3], input[4])

(* A FLOAT, which only the dictionary calls so, is read as stored too.     *)
FloatsAreAsStored ==
    subject = "values" /\ input[2].is = "FLOAT" => ReadsAsStored(input[2], input[3], input[4])

-----------------------------------------------------------------------------
(* Metadata: two words, one of them in two spellings; tables and a view.   *)
TableColumn(name, shape) == [name |-> name, vector |-> shape > 0, shape |-> shape]
Table12 == [view |-> FALSE, columns |-> <<TableColumn(1, 0), TableColumn(2, 3)>>, key |-> <<1>>]
Table23 == [view |-> FALSE, columns |-> <<TableColumn(2, 0), TableColumn(3, 0)>>, key |-> <<2, 3>>]
View2 == [view |-> TRUE, columns |-> <<TableColumn(2, 4)>>, key |-> <<>>]
MCObjectNames == {<<1, 1>>, <<2, 1>>, <<1, 2>>}
MCShapes == {Table12, Table23, View2}
MCSchemas ==
    {(<<2, 1>> :> Table12) @@ (<<1, 2>> :> Table23),
     (<<1, 1>> :> Table23) @@ (<<2, 1>> :> Table12) @@ (<<1, 2>> :> View2)}

-----------------------------------------------------------------------------
(* Responses: tables of two columns, their rows, and how LOBs are sent.    *)
MCTables ==
    {[types |-> <<Scalar, Scalar>>, form |-> "locators", rows |-> <<<<1, 0>>, <<1, 0>>, <<2, 0>>>>],
     [types |-> <<Scalar, Lob>>, form |-> "prefetched", rows |-> <<<<0, 2>>, <<0, 2>>>>],
     [types |-> <<Lob, Scalar>>, form |-> "inline", rows |-> <<<<0, 1>>, <<1, 1>>>>]}

(* Calls: what opens cursors, with a reader of them; what works in one     *)
(* transaction; and what prepares a statement around the end of one.       *)
Uses(a, b, c) == s1 :> a @@ s2 :> b @@ s3 :> c
MCPrograms ==
    {Uses({OracleCallImplicit, OracleCallCursors, OraclePlsql}, {OracleCallNamedProcedure},
          {OracleCursor, OracleCloseCall}),
     Uses({OracleTransactionMany, OracleTransactionPlsql, OracleComposite},
          {OracleTransactionExecute, OracleTransactionPlsql}, {}),
     Uses({OracleExecute, OracleAdmin, OracleCall, OracleArguments}, {OracleAdmin, OracleCallNumber}, {})}

MCLowestKey == -8

-----------------------------------------------------------------------------
vars == <<subject, input, resolverVars, responseVars, callsVars, snapshotVars, interruptVars, metadataVars>>

Init ==
    /\ \/ subject = "pushdown" /\ PushdownInput
       \/ subject = "lobs" /\ LobInput
       \/ subject = "callables" /\ CallableInput
       \/ subject = "ranges" /\ RangesInput
       \/ subject = "values" /\ ValuesInput
       \/ subject \in {"resolver", "responses", "calls", "snapshots", "interrupts", "metadata"} /\ input = NoInput
    /\ ResolverInit
    /\ ResponsesInit /\ (subject # "responses" => table = CHOOSE t \in MCTables : TRUE)
    /\ CallsInit /\ (subject # "calls" => program = CHOOSE p \in MCPrograms : TRUE)
    /\ SnapshotsInit
    /\ InterruptInit
    /\ MetadataInit /\ (subject # "metadata" => dictionary = CHOOSE d \in MCSchemas : TRUE)

Next ==
    /\ UNCHANGED <<subject, input>>
    /\ \/ /\ subject = "resolver" /\ ResolverNext
          /\ UNCHANGED <<responseVars, callsVars, snapshotVars, interruptVars, metadataVars>>
       \/ /\ subject = "responses" /\ ResponsesNext
          /\ UNCHANGED <<resolverVars, callsVars, snapshotVars, interruptVars, metadataVars>>
       \/ /\ subject = "calls" /\ CallsNext
          /\ UNCHANGED <<resolverVars, responseVars, snapshotVars, interruptVars, metadataVars>>
       \/ /\ subject = "snapshots" /\ SnapshotsNext /\ NoneOverlaps'
          /\ UNCHANGED <<resolverVars, responseVars, callsVars, interruptVars, metadataVars>>
       \/ /\ subject = "interrupts" /\ InterruptNext
          /\ UNCHANGED <<resolverVars, responseVars, callsVars, snapshotVars, metadataVars>>
       \/ /\ subject = "metadata" /\ MetadataNext
          /\ UNCHANGED <<resolverVars, responseVars, callsVars, snapshotVars, interruptVars>>

Spec == Init /\ [][Next]_vars
=============================================================================
