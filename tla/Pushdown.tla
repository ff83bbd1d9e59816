------------------------------ MODULE Pushdown ------------------------------
(***************************************************************************)
(* What of a query DuckDB lets Oracle do: filters (oracle_filter.cpp), and *)
(* ORDER BY ... LIMIT, aggregates and joins (oracle_optimizer.cpp).  Pure  *)
(* definitions.                                                            *)
(*                                                                         *)
(* A value is a sequence of numbers, so that both engines' meanings of a   *)
(* comparison can be told apart: <<n>> is a number, a text its letters     *)
(* with 0 for a blank, <<s, f>> a moment with its fraction of a second.  A *)
(* JSON document is what stands at the one path the filters look at.  SQL  *)
(* is a tree of the same nodes as a filter.                                *)
(***************************************************************************)
EXTENDS Integers, Sequences, SequencesExt, FiniteSets, FiniteSetsExt

CONSTANTS
    MaximumInList,      \* MAX_IN_LIST_VALUES, and Oracle's own limit
    MaximumInValues,    \* MAX_IN_VALUES
    MaximumIntervals,   \* MAX_KEY_INTERVALS
    MaximumQuestions,   \* MAX_RANGE_QUESTIONS
    LowestKey,          \* the ends of the type of a join's keys
    HighestKey

ASSUME PushdownAssumption ==
    /\ {MaximumInList, MaximumInValues, MaximumIntervals, MaximumQuestions} \subseteq Nat \ {0}
    /\ {LowestKey, HighestKey} \subseteq Int /\ LowestKey < HighestKey

-----------------------------------------------------------------------------
(* Columns: `kind' is Oracle's type, `type' the DuckDB type it is mapped   *)
(* to, `rounds' whether oracle_unconstrained_number rounds what is read.   *)

Null == <<-1>>
Letters == 10..99               \* the others are what numbers are written with
Bracket == 100                  \* begins an object's or an array's text

DigitsOf(n) == IF n < 10 THEN <<n>> ELSE <<n \div 10, n % 10>>

(* What a conversion of oracle_types.cpp makes of a stored value.          *)
Read(c, v) ==
    IF v = Null THEN Null
    ELSE IF c.kind = "number" /\ c.type = "VARCHAR" THEN DigitsOf(v[1])
    ELSE IF c.rounds THEN <<((v[1] + 1) \div 2) * 2>> ELSE v

(* What stands at a JSON path: nothing, null, a text, a number as it is    *)
(* written, an object, an array of one text.                               *)
Nothing == 0
JsonNull == 1
JsonText == 2
JsonNumber == 3
JsonObject == 4
JsonArray == 5

ExtractString(v) ==         \* json_extract_string in DuckDB
    IF v = Null \/ Head(v) \in {Nothing, JsonNull} THEN Null
    ELSE IF Head(v) \in {JsonText, JsonNumber} THEN Tail(v) ELSE <<Bracket>> \o Tail(v)

JsonValue(v) ==             \* JSON_VALUE ... NULL ON ERROR in Oracle, lax
    IF v = Null \/ Head(v) \in {Nothing, JsonNull, JsonObject} THEN Null
    ELSE IF Head(v) = JsonNumber THEN SelectSeq(Tail(v), LAMBDA x : x # 0) ELSE Tail(v)
JsonExists(v) == v # Null /\ Head(v) # Nothing

-----------------------------------------------------------------------------
(* Filters                                                                 *)

Node(op, subject, rel, constants, args) ==
    [op |-> op, subject |-> subject, rel |-> rel, constants |-> constants, args |-> args]
Compared(subject, rel, k) == Node("compare", subject, rel, <<k>>, <<>>)
IsNull(subject) == Node("null", subject, "=", <<>>, <<>>)
IsNotNull(subject) == Node("not_null", subject, "=", <<>>, <<>>)
In(subject, ks) == Node("in", subject, "=", ks, <<>>)
Between(low, high) == Node("between", "column", "=", <<low, high>>, <<>>)
And(es) == Node("and", "none", "=", <<>>, es)
Or(es) == Node("or", "none", "=", <<>>, es)
Optional(es) == Node("optional", "none", "=", <<>>, es)
(* A join's keys, known by the blocks of `grain' keys they are in.         *)
KeyFilter(ks, grain) == Node("keys", "column", grain, ks, <<>>)
SomeFunction == Node("function", "column", "=", <<>>, <<>>)

Constant(type, value) == [type |-> type, value |-> value]
NumberConstant(n) == Constant("number", <<n>>)

(* SQL's three truth values.                                               *)
False == 0
Unknown == 1
True == 2
Truth(b) == IF b THEN True ELSE False

Precedes(a, b) ==
    \/ IsStrictPrefix(a, b)
    \/ \E i \in DOMAIN a \cap DOMAIN b :
          a[i] < b[i] /\ SubSeq(a, 1, i - 1) = SubSeq(b, 1, i - 1)

Unpadded(v) == SubSeq(v, 1, Max({0} \cup {i \in DOMAIN v : v[i] # 0}))

(* What an engine compares: Oracle pads CHAR, takes '' for NULL and orders *)
(* text by a collation, here one that is not the order of bytes.           *)
Comparand(engine, c, v) ==
    IF engine = "Oracle" /\ c.kind \in {"text", "char"} /\ v = <<>> THEN Null
    ELSE IF engine = "Oracle" /\ c.kind = "char" THEN Unpadded(v) ELSE v

Relation(engine, c, rel, a, b) ==
    LET textual == engine = "Oracle" /\ c.kind \in {"text", "char"}
        collated(v) == IF textual THEN [i \in DOMAIN v |-> -v[i]] ELSE v
        less(x, y) == Precedes(collated(x), collated(y))
    IN  IF Null \in {a, b} THEN Unknown
        ELSE Truth(CASE rel = "=" -> a = b
                     [] rel = "<>" -> a # b
                     [] rel = "<" -> less(a, b)
                     [] rel = "<=" -> ~less(b, a)
                     [] rel = ">" -> less(b, a)
                     [] rel = ">=" -> ~less(a, b))

Term(engine, c, subject, v) ==
    CASE subject = "path" -> IF engine = "DuckDB" THEN ExtractString(v) ELSE JsonValue(v)
      [] OTHER -> IF engine = "DuckDB" THEN Read(c, v) ELSE v

RECURSIVE Holds(_, _, _, _)
Holds(engine, e, c, v) ==
    LET term == Comparand(engine, c, Term(engine, c, e.subject, v))
        is(rel, k) == Relation(engine, c, rel, term, Comparand(engine, c, k.value))
        each(es) == {Holds(engine, a, c, v) : a \in ToSet(es)}
    IN  CASE e.op = "compare" -> is(e.rel, e.constants[1])
          [] e.op = "in" -> Max({is("=", k) : k \in ToSet(e.constants)})
          [] e.op = "keys" -> Truth(\E k \in ToSet(e.constants) : is("=", k) = True)
          [] e.op = "between" -> Min({is(">=", e.constants[1]), is("<=", e.constants[2])})
          [] e.op = "null" -> Truth(term = Null)
          [] e.op = "not_null" -> Truth(term # Null)
          [] e.op = "exists" -> Truth(JsonExists(v))
          [] e.op = "and" -> Min(each(e.args))
          [] e.op = "or" -> Max(each(e.args))
          [] e.op = "optional" -> Min({True} \cup each(e.args))
          [] e.op = "function" -> Truth(Len(v) > 1)

-----------------------------------------------------------------------------
(* What Oracle can be sent                                                 *)

LiteralRefused_Rounded(k, c) ==     \* bug: a constant against what is stored
    CASE k.type = "number" -> c.kind # "number"
      [] k.type = "moment" -> \/ c.kind \notin {"date", "timestamp"}
                              \/ c.kind = "date" /\ k.value[2] # 0
      [] k.type = "text" -> k.value = <<>> \/ c.kind # "text"
      [] OTHER -> TRUE

(* OracleLiteral.  Moments without a four-digit year and texts with a NUL  *)
(* are "unwritable", as constants of other types are.                      *)
LiteralRefused(k, c) ==
    \/ k.value = Null
    \/ CASE k.type = "number" -> c.kind # "number" \/ c.rounds
         [] k.type = "moment" -> \/ c.kind \notin {"date", "timestamp"}
                                 \/ c.kind = "date" /\ k.value[2] # 0
         [] k.type = "text" -> k.value = <<>> \/ c.kind # "text"
         [] OTHER -> TRUE

OrderRefused(rel, c) == rel \notin {"=", "<>"} /\ c.kind \notin {"number", "date", "timestamp"}

RECURSIVE Refused(_, _)
Refused(e, c) ==
    \/ e.op \in {"compare", "null", "not_null", "in"} /\ e.subject # "column"
    \/ CASE e.op = "compare" -> OrderRefused(e.rel, c) \/ LiteralRefused(e.constants[1], c)
         [] e.op = "in" -> \/ Len(e.constants) \notin 1..MaximumInValues
                           \/ \E k \in ToSet(e.constants) : LiteralRefused(k, c)
         [] e.op \in {"null", "not_null"} -> FALSE
         [] e.op \in {"and", "or"} -> e.args = <<>> \/ \E a \in ToSet(e.args) : Refused(a, c)
         [] e.op = "optional" -> e.args = <<>> \/ Refused(Head(e.args), c)
         [] OTHER -> TRUE

(* Lists no longer than Oracle takes.                                      *)
Lists(subject, ks) ==
    [i \in 1..((Len(ks) + MaximumInList - 1) \div MaximumInList) |->
        In(subject, SubSeq(ks, (i - 1) * MaximumInList + 1, Min({i * MaximumInList, Len(ks)})))]

AnyOf(es) == IF Len(es) = 1 THEN Head(es) ELSE Or(es)

RECURSIVE TranslateExpression(_)
TranslateExpression(e) ==
    CASE e.op = "optional" -> TranslateExpression(Head(e.args))
      [] e.op = "in" -> AnyOf(Lists(e.subject, e.constants))
      [] e.op \in {"and", "or"} ->
            [e EXCEPT !.args = [i \in DOMAIN @ |-> TranslateExpression(@[i])]]
      [] OTHER -> e

-----------------------------------------------------------------------------
(* PrefixRangeSql: which ranges hold keys, by asking and halving           *)

MayHold(e, low, high) ==
    \E k \in ToSet(e.constants), x \in low..high : x \div e.rel = k.value[1] \div e.rel

FloorMidpoint(a, b) == (a + b) \div 2
CeilMidpoint(a, b) == (a + b + 1) \div 2

RECURSIVE LargestKey(_, _, _, _), SmallestKey(_, _, _, _)
LargestKey(e, low, high, asked) ==
    LET mid == CeilMidpoint(low, high)
    IN  IF low >= high THEN [key |-> low, asked |-> asked]
        ELSE IF MayHold(e, mid, HighestKey) THEN LargestKey(e, mid, high, asked + 1)
        ELSE LargestKey(e, low, mid - 1, asked + 1)
SmallestKey(e, low, high, asked) ==
    LET mid == FloorMidpoint(low, high)
    IN  IF low >= high THEN [key |-> low, asked |-> asked]
        ELSE IF MayHold(e, LowestKey, mid) THEN SmallestKey(e, low, mid, asked + 1)
        ELSE SmallestKey(e, mid + 1, high, asked + 1)

(* One level: every interval of more than one point is halved, within the  *)
(* number of questions that may be asked.                                  *)
Halve(e, intervals, asked) ==
    LET step(acc, i) ==
            LET mid == FloorMidpoint(i[1], i[2])
                half(low, high) == IF MayHold(e, low, high) THEN <<<<low, high>>>> ELSE <<>>
            IN  IF acc.over THEN acc
                ELSE IF i[1] = i[2] THEN [acc EXCEPT !.next = Append(@, i)]
                ELSE IF acc.asked + 2 > MaximumQuestions THEN [acc EXCEPT !.over = TRUE]
                ELSE [acc EXCEPT !.next = @ \o half(i[1], mid) \o half(mid + 1, i[2]),
                                 !.asked = @ + 2]
    IN  FoldLeft(step, [next |-> <<>>, asked |-> asked, over |-> FALSE], intervals)

RECURSIVE KeyIntervals(_, _, _)
KeyIntervals(e, intervals, asked) ==
    LET halved == Halve(e, intervals, asked)
    IN  IF halved.over \/ Len(halved.next) > MaximumIntervals THEN intervals
        ELSE IF halved.asked = asked THEN halved.next
        ELSE KeyIntervals(e, halved.next, halved.asked)

(* Neighbours that touch are one.                                          *)
Merged(intervals) ==
    LET join(acc, i) ==
            IF acc # <<>> /\ Last(acc)[2] + 1 = i[1]
            THEN Append(Front(acc), <<Last(acc)[1], i[2]>>)
            ELSE Append(acc, i)
    IN  FoldLeft(join, <<>>, intervals)

PrefixRange(e) ==
    LET largest == LargestKey(e, LowestKey, HighestKey, 1)
        smallest == SmallestKey(e, LowestKey, HighestKey, largest.asked)
        merged == Merged(KeyIntervals(e, <<<<smallest.key, largest.key>>>>, smallest.asked))
        single == SelectSeq(merged, LAMBDA i : i[1] = i[2])
        ranges == SelectSeq(merged, LAMBDA i : i[1] # i[2])
        term(i) == Between(NumberConstant(i[1]), NumberConstant(i[2]))
    IN  AnyOf([i \in DOMAIN ranges |-> term(ranges[i])]
                  \o Lists("column", [i \in DOMAIN single |-> NumberConstant(single[i][1])]))

-----------------------------------------------------------------------------
(* JsonPrefilter: a test of a path that Oracle can narrow but not decide   *)

(* A text no JSON number, literal, object or array is written as.          *)
PlainJsonText(k) == k.type = "text" /\ k.value # <<>> /\ Head(k.value) \in Letters

RECURSIVE Narrowed(_)
Narrowed(e) ==
    LET branches == [i \in DOMAIN e.args |-> Narrowed(e.args[i])]
        narrow == e.subject = "path"
    IN  CASE e.op = "compare" /\ narrow /\ e.rel = "=" /\ PlainJsonText(e.constants[1]) -> <<e>>
          [] e.op = "in" /\ narrow /\ Len(e.constants) \in 1..MaximumInList
                /\ (\A k \in ToSet(e.constants) : PlainJsonText(k)) -> <<e>>
          [] e.op = "not_null" /\ narrow -> <<[e EXCEPT !.op = "exists"]>>
          [] e.op = "or" /\ (\A i \in DOMAIN branches : branches[i] # <<>>) ->
                <<Or(FlattenSeq(branches))>>
          [] OTHER -> <<>>

-----------------------------------------------------------------------------
(* SplitOracleFilters                                                      *)

RECURSIVE Pieces(_)
Pieces(e) == IF e.op = "and" THEN FlattenSeq([i \in DOMAIN e.args |-> Pieces(e.args[i])])
             ELSE <<e>>

StaysHere(p, c) == p.op # "optional" /\ (c.kind = "rowid" \/ Refused(p, c))

(* TranslatePiece, and what narrows a piece that stays.                    *)
SentFor(p, c) ==
    LET hint == p.op = "optional"
        keys == hint /\ p.args # <<>> /\ Head(p.args).op = "keys"
                    /\ MayHold(Head(p.args), LowestKey, HighestKey)
    IN  IF c.kind = "rowid" \/ (keys /\ LiteralRefused(NumberConstant(0), c)) THEN <<>>
        ELSE IF keys THEN <<PrefixRange(Head(p.args))>>
        ELSE IF ~Refused(p, c) THEN <<TranslateExpression(p)>>
        ELSE IF c.kind = "json" THEN Narrowed(p) ELSE <<>>

Split(e, c) ==
    [where |-> FlattenSeq([i \in DOMAIN Pieces(e) |-> SentFor(Pieces(e)[i], c)]),
     local |-> SelectSeq(Pieces(e), LAMBDA p : StaysHere(p, c))]

-----------------------------------------------------------------------------
(* The optimizer.  A plan's scan has columns `columns' and rows that are   *)
(* functions of them; above it are projections, the outermost first, each  *)
(* of which says which column below each of its own passes on, or 0 for a  *)
(* computed one.                                                           *)

ResolveToScanColumn(plan, column) ==
    FoldLeft(LAMBDA at, p : IF at = 0 THEN 0 ELSE p[at], column, plan.projections)

KeyTypes == {"BIGINT", "DECIMAL", "TIMESTAMP", "TIMESTAMP_NS"}
KeyColumn(c) == c.type \in KeyTypes /\ ~c.rounds
OrderableInOracle(c) == c.type \in KeyTypes \cup {"TIMESTAMP_TZ"} /\ ~c.rounds

Cell(engine, plan, column, row) ==
    LET at == ResolveToScanColumn(plan, column)
    IN  Term(engine, plan.columns[at], "column", row[at])

(* PushTopN, and what the scan asks too: that every filter went to Oracle  *)
(* and no sample is taken.                                                 *)
TopNPushed(plan) ==
    /\ plan.keys # <<>> /\ plan.local = <<>> /\ ~plan.sample
    /\ \A i \in DOMAIN plan.keys :
          LET at == ResolveToScanColumn(plan, plan.keys[i].column)
          IN  at # 0 /\ OrderableInOracle(plan.columns[at])

(* Row r comes before row s.                                               *)
Before(engine, plan, r, s) ==
    LET term(i, row) == Cell(engine, plan, plan.keys[i].column, row)
        less(i, x, y) ==
            LET c == plan.columns[ResolveToScanColumn(plan, plan.keys[i].column)]
            IN  Relation(engine, c, "<", term(i, x), term(i, y)) = True
        first(i) ==
            IF term(i, r) = Null THEN plan.keys[i].nulls_first
            ELSE IF term(i, s) = Null THEN ~plan.keys[i].nulls_first
            ELSE IF plan.keys[i].descending THEN less(i, s, r) ELSE less(i, r, s)
    IN  \E i \in DOMAIN plan.keys :
            /\ term(i, r) # term(i, s) /\ first(i)
            /\ \A j \in 1..(i - 1) : term(j, r) = term(j, s)

(* The sets of rows that ORDER BY ... FETCH FIRST n may return.            *)
FirstRows(engine, plan, rows, n) ==
    {top \in kSubset(Min({n, Cardinality(rows)}), rows) :
        \A r \in top, s \in rows \ top : ~Before(engine, plan, s, r)}

(* PlanPushedAggregate.                                                    *)
Exact(c) == c.kind = "number" /\ c.type \in {"BIGINT", "DECIMAL"} /\ ~c.rounds

AggregatePushed(plan) ==
    /\ plan.local = <<>> /\ ~plan.sample /\ ~plan.grouping_sets /\ ~plan.dynamic
    /\ Len(plan.groups) + Len(plan.aggregates) > 0
    /\ \A i \in DOMAIN plan.groups :
          LET at == ResolveToScanColumn(plan, plan.groups[i])
          IN  at # 0 /\ KeyColumn(plan.columns[at])
    /\ \A i \in DOMAIN plan.aggregates :
          LET call == plan.aggregates[i]
              at == IF call.name = "count_star" THEN 0 ELSE ResolveToScanColumn(plan, call.column)
          IN  /\ call.plain     \* not DISTINCT, no FILTER and no ORDER BY
              /\ \/ call.name = "count_star"
                 \/ at # 0 /\ call.name = "count"
                 \/ at # 0 /\ call.name \in {"min", "max"} /\ plan.columns[at].type \in KeyTypes
                 \/ at # 0 /\ call.name = "sum" /\ Exact(plan.columns[at])

Aggregated(engine, plan, call, rows) ==
    LET cell(r) == Cell(engine, plan, call.column, r)
        known == IF call.name = "count_star" THEN rows ELSE {r \in rows : cell(r) # Null}
        c == plan.columns[ResolveToScanColumn(plan, call.column)]
        least(rel) == CHOOSE v \in {cell(r) : r \in known} :
                          \A r \in known : Relation(engine, c, rel, v, cell(r)) = True
    IN  IF call.name \in {"count_star", "count"} THEN <<Cardinality(known)>>
        ELSE IF known = {} THEN Null
        ELSE CASE call.name = "sum" -> <<MapThenSumSet(LAMBDA r : cell(r)[1], known)>>
               [] call.name = "min" -> least("<=")
               [] call.name = "max" -> least(">=")

(* The groups with their aggregates, as DuckDB reads them.                 *)
Groups(engine, plan, rows) ==
    LET key(r) == [i \in DOMAIN plan.groups |-> Cell(engine, plan, plan.groups[i], r)]
        read(column, v) ==
            IF engine = "DuckDB" THEN v
            ELSE Read(plan.columns[ResolveToScanColumn(plan, column)], v)
        shown(call, v) == IF call.name \in {"min", "max"} THEN read(call.column, v) ELSE v
        keys == IF plan.groups = <<>> THEN {<<>>} ELSE {key(r) : r \in rows}
    IN  {<<[i \in DOMAIN plan.groups |-> read(plan.groups[i], k[i])],
           [i \in DOMAIN plan.aggregates |->
               shown(plan.aggregates[i], Aggregated(engine, plan, plan.aggregates[i],
                                             {r \in rows : key(r) = k}))]>> : k \in keys}

(* PushJoin of two scans.  A column that cannot be read as itself is not   *)
(* joined on and not selected.                                             *)
PlainColumn(c) == c.kind \notin {"lob", "json", "vector", "rowid", "xml"}

JoinPushed(left, right, join) ==
    /\ join.inner /\ join.conditions # <<>> /\ join.outputs # <<>>
    /\ \A side \in {left, right} :
          side.local = <<>> /\ ~side.sample /\ side.projections = <<>>
    /\ left.database = right.database
    /\ \A x \in ToSet(join.conditions) :
          LET a == left.columns[x.left]  b == right.columns[x.right]
          IN  /\ x.rel \in {"=", "<>", "<", "<=", ">", ">="}
              /\ a.type = b.type /\ KeyColumn(a) /\ KeyColumn(b)
    /\ \A o \in ToSet(join.outputs) :
          PlainColumn((IF o.side = 1 THEN left ELSE right).columns[o.column])

(* Select: a side selects each column it needs once.                       *)
SelectedColumns(join, side) ==
    LET asked == [i \in DOMAIN join.conditions |->
                     IF side = 1 THEN join.conditions[i].left ELSE join.conditions[i].right]
                 \o [i \in DOMAIN SelectSeq(join.outputs, LAMBDA o : o.side = side) |->
                        SelectSeq(join.outputs, LAMBDA o : o.side = side)[i].column]
    IN  FoldLeft(LAMBDA s, x : IF x \in ToSet(s) THEN s ELSE Append(s, x), <<>>, asked)

Joined(engine, left, right, join, rows, others) ==
    {<<r, s>> \in rows \X others :
        \A i \in DOMAIN join.conditions :
            LET x == join.conditions[i]
            IN  Relation(engine, left.columns[x.left], x.rel,
                         Cell(engine, left, x.left, r), Cell(engine, right, x.right, s)) = True}

-----------------------------------------------------------------------------
(* Every row a filter is true for is returned, and none that a conjunct    *)
(* DuckDB relies on is not true for, whichever engine each conjunct is     *)
(* left to; and no list is longer than Oracle takes.                       *)
RECURSIVE InLists(_)
InLists(p) == (IF p.op = "in" THEN {Len(p.constants)} ELSE {})
                  \cup UNION {InLists(a) : a \in ToSet(p.args)}

FilterIsSound(e, c, values) ==
    LET split == Split(e, c)
        true(engine, es, v) == \A p \in ToSet(es) : Holds(engine, p, c, v) = True
    IN  /\ \A p \in ToSet(split.where) : \A n \in InLists(p) : n \in 1..MaximumInList
        /\ \A v \in values :
              LET returned == true("Oracle", split.where, v) /\ true("DuckDB", split.local, v)
              IN  /\ Holds("DuckDB", e, c, v) = True => returned
                  /\ returned => true("DuckDB", SelectSeq(Pieces(e), LAMBDA p : p.op # "optional"), v)

(* What DuckDB makes of the rows that come back is what it would make of   *)
(* all of them: for ORDER BY ... LIMIT whichever of the first rows Oracle  *)
(* returns, for aggregates and joins the same groups and pairs.            *)
TopNIsSound(plan, rows, n) ==
    LET passes(rs) ==
            {r \in rs : \A p \in ToSet(plan.local) : Holds("DuckDB", p, plan.columns[1], r[1]) = True}
    IN  TopNPushed(plan) =>
            \A back \in FirstRows("Oracle", plan, rows, n) :
                FirstRows("DuckDB", plan, passes(back), n)
                    \subseteq FirstRows("DuckDB", plan, passes(rows), n)

AggregateIsSound(plan, rows) ==
    AggregatePushed(plan) => Groups("Oracle", plan, rows) = Groups("DuckDB", plan, rows)

JoinIsSound(left, right, join, rows, others) ==
    JoinPushed(left, right, join) =>
        /\ Joined("Oracle", left, right, join, rows, others)
               = Joined("DuckDB", left, right, join, rows, others)
        /\ \A side \in {1, 2} : IsInjective(SelectedColumns(join, side))
=============================================================================
