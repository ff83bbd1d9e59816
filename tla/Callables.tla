------------------------------ MODULE Callables ------------------------------
(***************************************************************************)
(* What a call of Oracle code is made of: the wire type of each value      *)
(* (PositionalBinds, NamedBinds, EncodeOracleCallableArgument), the block  *)
(* that names the binds (call_builder.cpp, sql_binds.cpp), the values that *)
(* come back for them (Call and the table functions that read its result), *)
(* and the signature of a callable as the dictionary describes it          *)
(* (oracle_callable.cpp).  Pure definitions.                               *)
(*                                                                         *)
(* A name is <<spelling, case>>, and its case does not count in a bind.    *)
(***************************************************************************)
EXTENDS Naturals, Sequences, SequencesExt, FiniteSets

CONSTANTS
    MaximumArguments,   \* MAX_ARGUMENTS, ORACLE_DML_COMPOSITE_MAX_BINDS
    MaximumOperations,  \* ORACLE_DML_COMPOSITE_MAX_OPERATIONS
    MetadataRows        \* the rows of ALL_ARGUMENTS that are read

ASSUME CallablesAssumption ==
    {MaximumArguments, MaximumOperations, MetadataRows} \subseteq Nat \ {0}

CursorType == 102
Fails(why) == [failure |-> why]

-----------------------------------------------------------------------------
(* The wire type of a parameter.  A value is its DuckDB type, whether it   *)
(* is NULL, and whether it is an interval of months alone.                 *)

Numerics == {"TINYINT", "BIGINT", "UBIGINT", "DECIMAL"}
Huge == {"HUGEINT", "UHUGEINT"}
Moments == {"TIMESTAMP_TZ", "TIMESTAMP_NS", "TIMESTAMP_MS", "TIMESTAMP_SEC"}
DuckTypes == Numerics \cup Huge \cup Moments
    \cup {"BOOLEAN", "INTERVAL", "VARCHAR", "DATE", "BLOB", "FLOAT", "DOUBLE", "TIMESTAMP", "UUID"}

OracleInputType(type) ==
    CASE type = "BOOLEAN" -> {252}
      [] type = "INTERVAL" -> {183}
      [] type \in Moments \cup {"TIMESTAMP"} -> {180}
      [] type \in Huge \cup Numerics -> {2}
      [] type = "VARCHAR" -> {1}
      [] type = "DATE" -> {12}
      [] type = "BLOB" -> {23}
      [] type = "FLOAT" -> {100}
      [] type = "DOUBLE" -> {101}
      [] OTHER -> {}

(* By the column it stands for: a local-zone column goes out as TIMESTAMP. *)
ExtraBind(value) ==
    CASE value.type = "BOOLEAN" -> {252}
      [] value.type = "INTERVAL" -> {IF value.months THEN 182 ELSE 183}
      [] value.type = "TIMESTAMP_TZ" -> {180}
      [] value.type \in Moments \ {"TIMESTAMP_TZ"} -> {180}
      [] value.type \in Huge -> {2}
      [] OTHER -> {}

Scalars == [VARCHAR |-> 1, BLOB |-> 23, FLOAT |-> 100, DOUBLE |-> 101, DATE |-> 12, TIMESTAMP |-> 180]

PositionalBinds(value) ==
    IF value.null THEN OracleInputType(value.type)
    ELSE IF value.type \in DOMAIN Scalars THEN {Scalars[value.type]}
    ELSE IF value.type \in Numerics THEN {2} ELSE ExtraBind(value)

NamedBinds(value) ==
    IF value.null THEN OracleInputType(value.type)
    ELSE IF value.type \in DOMAIN Scalars THEN {Scalars[value.type]}
    ELSE IF ExtraBind(value) # {} THEN ExtraBind(value)
    ELSE IF value.type \in Numerics \cup Huge THEN {2} ELSE {}

(* A row of a batch must have the types of its first row.                  *)
ValidateOracleBatchRow(first, row) ==
    Len(row) = Len(first) /\ \A i \in DOMAIN first : row[i] = first[i]

-----------------------------------------------------------------------------
(* The types an argument may have, by the spelling that oracle_call_named  *)
(* takes and by the dictionary's name: the wire type, the buffer of an OUT *)
(* value, whether NULL may be passed in, and the national form.            *)

WireForm(type, bytes, nullable, form) ==
    [type |-> type, bytes |-> bytes, nullable |-> nullable, form |-> form]

ArgumentForm == [
    number |-> WireForm(2, 22, TRUE, 0), varchar |-> WireForm(1, 32767, TRUE, 0),
    nvarchar |-> WireForm(1, 32767, TRUE, 2), boolean |-> WireForm(252, 4, TRUE, 0),
    interval_ym |-> WireForm(182, 5, TRUE, 0), interval_ds |-> WireForm(183, 11, TRUE, 0),
    timestamp_ltz |-> WireForm(180, 11, TRUE, 0), date |-> WireForm(12, 7, FALSE, 0),
    timestamp |-> WireForm(180, 11, FALSE, 0), raw |-> WireForm(23, 32767, FALSE, 0),
    float |-> WireForm(100, 4, FALSE, 0), double |-> WireForm(101, 8, FALSE, 0),
    cursor |-> WireForm(CursorType, 4, TRUE, 0)]

(* The value is a sequence of at most one; OUT takes none.                 *)
EncodeOracleCallableArgument(spelling, direction, value) ==
    IF spelling \notin DOMAIN ArgumentForm THEN Fails("type")
    ELSE LET form == ArgumentForm[spelling]
             admitted == IF direction = "out" THEN value = <<>>
                         ELSE spelling # "cursor" /\ (value # <<>> \/ form.nullable)
         IN  IF ~admitted THEN Fails("value")
             ELSE [failure |-> "", type |-> form.type, bytes |-> form.bytes, form |-> form.form,
                   value |-> value]

Dictionary == [
    NUMBER |-> <<2, 22, "number">>, FLOAT |-> <<2, 22, "number">>,
    BINARY_INTEGER |-> <<2, 22, "number">>, VARCHAR2 |-> <<1, 32767, "varchar">>,
    CHAR |-> <<1, 32767, "varchar">>, NVARCHAR2 |-> <<1, 32767, "nvarchar">>,
    PLSQL_BOOLEAN |-> <<252, 4, "boolean">>, INTERVAL_YM |-> <<182, 5, "interval_ym">>,
    INTERVAL_DS |-> <<183, 11, "interval_ds">>, TIMESTAMP_LTZ |-> <<180, 11, "timestamp_ltz">>,
    DATE |-> <<12, 7, "date">>, TIMESTAMP |-> <<180, 11, "timestamp">>,
    RAW |-> <<23, 32767, "raw">>, BINARY_FLOAT |-> <<100, 4, "float">>,
    BINARY_DOUBLE |-> <<101, 8, "double">>, REF_CURSOR |-> <<CursorType, 4, "cursor">>]

(* The types of oracle_call_named_function's return value.                 *)
ReturnTypes == [
    number |-> <<2, 22>>, varchar |-> <<1, 32767>>, date |-> <<12, 7>>, timestamp |-> <<180, 11>>,
    raw |-> <<23, 32767>>, float |-> <<100, 4>>, double |-> <<101, 8>>, cursor |-> <<CursorType, 4>>]

(* However a bind came about, its value travels in one form: NULL as any   *)
(* value of its type (but an interval of months alone, whose NULL is taken *)
(* for one of days), a struct's field as a list's element, a resolved      *)
(* argument as one spelled out.                                            *)
FormsAgree ==
    /\ \A t \in DuckTypes, n \in BOOLEAN, m \in BOOLEAN :
          LET value == [type |-> t, null |-> n, months |-> m]
          IN  /\ NamedBinds(value) = PositionalBinds(value)
              /\ t # "INTERVAL" \/ ~m \/ n =>
                    ValidateOracleBatchRow(<<PositionalBinds(value)>>,
                        <<PositionalBinds([value EXCEPT !.null = ~n, !.months = FALSE])>>)
    /\ \A d \in DOMAIN Dictionary :
          LET bindable == Dictionary[d]
              form == ArgumentForm[bindable[3]]
          IN  <<form.type, form.bytes>> = <<bindable[1], bindable[2]>>
    /\ \A r \in DOMAIN ReturnTypes :
          ReturnTypes[r] = <<ArgumentForm[r].type, ArgumentForm[r].bytes>>
-----------------------------------------------------------------------------
(* The block of a call, as the placeholders it mentions.  A bind is        *)
(* [name, direction, type].                                                *)

Canonical(name) == name[1]
BindNames(binds) == {Canonical(binds[i].name) : i \in DOMAIN binds}
ReturnedBinds(binds) == SelectSeq(binds, LAMBDA b : b.direction # "in")

ValidateOracleBinds(binds, use) ==
    /\ Cardinality(BindNames(binds)) = Len(binds)
    /\ use = "call" \/ ReturnedBinds(binds) = <<>>

(* Each name once, where it is first mentioned.                            *)
ExtractOracleBindPlaceholders(block) ==
    FoldLeft(LAMBDA seen, name : IF Canonical(name) \in ToSet(seen) THEN seen
                                 ELSE Append(seen, Canonical(name)), <<>>, block)

ValidateOracleStatementBinds(block, binds, use) ==
    /\ ValidateOracleBinds(binds, use)
    /\ ToSet(ExtractOracleBindPlaceholders(block)) = BindNames(binds)

OrderOracleStatementBinds_AsGiven(block, binds) == binds    \* bug: the caller's order

OrderOracleStatementBinds(block, binds) ==
    [i \in DOMAIN ExtractOracleBindPlaceholders(block) |->
        CHOOSE b \in ToSet(binds) : Canonical(b.name) = ExtractOracleBindPlaceholders(block)[i]]

(* NAME => :NAME for each argument, the function's result before them.     *)
BuildOracleProcedureCallBlock(returned, arguments) ==
    LET binds == returned \o arguments
    IN  IF /\ Len(arguments) <= MaximumArguments
           /\ \A i \in DOMAIN returned : returned[i].direction # "in"
           /\ Cardinality(BindNames(binds)) = Len(binds)
        THEN [failure |-> "", block |-> [i \in DOMAIN binds |-> binds[i].name]]
        ELSE Fails("malformed")

(* The statements one after another, each followed by its count's check;   *)
(* every placeholder is bound and every bind is used.                      *)
BuildOracleDmlCompositeBlock(operations, arguments) ==
    LET block == FlattenSeq([i \in DOMAIN operations |-> operations[i]])
    IN  IF /\ Len(operations) \in 1..MaximumOperations /\ Len(arguments) <= MaximumArguments
           /\ ValidateOracleBinds(arguments, "dml")
           /\ ValidateOracleStatementBinds(block, arguments, "call")
        THEN [failure |-> "", block |-> block] ELSE Fails("malformed")

(* kind, name, returned (at most one bind), arguments, block, operations   *)
BuildOracleCallBlock(request) ==
    LET stray == \/ request.kind # "composite" /\ request.operations # <<>>
                 \/ request.kind # "block" /\ request.block # <<>>
                 \/ request.kind \in {"block", "composite", "procedure"} /\ request.returned # <<>>
                 \/ request.kind = "function" /\ request.returned = <<>>
    IN  IF stray THEN Fails("malformed")
        ELSE IF request.kind = "block" THEN [failure |-> "", block |-> request.block]
        ELSE IF request.kind = "composite"
             THEN BuildOracleDmlCompositeBlock(request.operations, request.arguments)
        ELSE BuildOracleProcedureCallBlock(request.returned, request.arguments)

-----------------------------------------------------------------------------
(* What comes back.  The server answers the binds it returns in the order  *)
(* in which the block mentions them; `holds' gives the value of each name, *)
(* where <<>> is NULL, and `implicit' how many result sets came unasked.   *)

CallOf(request) ==
    LET built == BuildOracleCallBlock(request)
        binds == request.returned \o request.arguments
        ordered == IF request.kind \in {"block", "composite"}
                   THEN OrderOracleStatementBinds(built.block, binds) ELSE binds
    IN  IF built.failure # "" THEN built
        ELSE IF \/ request.kind = "block" /\ ~ValidateOracleStatementBinds(built.block, binds, "call")
                \/ ~ValidateOracleBinds(ordered, "call") THEN Fails("malformed")
        ELSE [failure |-> "", binds |-> ordered]

(* The row of OUT values, in the server's order, and what Call makes of it: *)
(* outputs and cursors apart, a NULL cursor left out.                      *)
CallResult(request, holds, implicit) ==
    LET call == CallOf(request)
        block == BuildOracleCallBlock(request).block
        names == ExtractOracleBindPlaceholders(block)
        all == request.returned \o request.arguments
        is(name) == CHOOSE b \in ToSet(all) : Canonical(b.name) = name
        row == SelectSeq(names, LAMBDA n : is(n).direction # "in")
        taken == ReturnedBinds(call.binds)
        pairs == [i \in DOMAIN taken |-> [type |-> taken[i].type, value |-> holds[row[i]]]]
    IN  IF call.failure # "" THEN call
        ELSE [failure |-> "", implicit |-> implicit,
              outputs |-> SelectSeq(pairs, LAMBDA p : p.type # CursorType),
              explicit |-> SelectSeq(pairs, LAMBDA p : p.type = CursorType /\ p.value # <<>>)]

(* The rows of oracle_call_named, oracle_call_named_function,              *)
(* oracle_call_auto and the PL/SQL functions: the binds returned, in order, *)
(* each with the next output or cursor.                                    *)
MatchOutputs(binds, result) ==
    LET step(m, b) ==
            LET from == IF b.type = CursorType THEN result.explicit ELSE result.outputs
                next == (IF b.type = CursorType THEN m.cursors ELSE m.scalars) + 1
            IN  IF m.failure # "" \/ next > Len(from) \/ from[next].type # b.type
                THEN [m EXCEPT !.failure = "mismatch"]
                ELSE [m EXCEPT !.rows = Append(@, [name |-> Canonical(b.name), value |-> from[next].value]),
                               !.cursors = IF b.type = CursorType THEN next ELSE @,
                               !.scalars = IF b.type = CursorType THEN @ ELSE next]
        all == FoldLeft(step, [failure |-> "", rows |-> <<>>, scalars |-> 0, cursors |-> 0],
                        ReturnedBinds(binds))
    IN  IF all.failure = "" /\ <<all.scalars, all.cursors>> = <<Len(result.outputs), Len(result.explicit)>>
        THEN [failure |-> "", rows |-> all.rows] ELSE Fails("mismatch")

(* oracle_call_named, _function and _auto; oracle_plsql binds in the order *)
(* of its block from the start.                                            *)
OracleCallNamed(request, result) ==
    LET binds == request.returned \o request.arguments
    IN  IF result.failure # "" THEN result
        ELSE IF result.implicit > 0 THEN Fails("implicit")
        ELSE MatchOutputs(IF request.kind = "block"
                          THEN OrderOracleStatementBinds(request.block, binds) ELSE binds, result)

(* A function of the pinned session takes no cursor.                       *)
OracleTransactionCall(request, result) ==
    IF result.failure # "" THEN result
    ELSE IF result.explicit # <<>> \/ result.implicit > 0 THEN Fails("cursors")
    ELSE OracleCallNamed(request, result)

(* Whatever the order in which a block mentions its binds, what a caller   *)
(* reads beside a name is what the server has for it; and a call is        *)
(* refused, rather than answered in part, only if its binds and its block  *)
(* do not fit, if a cursor is NULL or if a result set came unasked.        *)
AnswersAreTheirOwn(request, holds, implicit) ==
    LET binds == request.returned \o request.arguments
        out == ToSet(ReturnedBinds(binds))
        cursors == {b \in out : b.type = CursorType}
        text == request.block \o FlattenSeq(request.operations)
        fits == /\ \A i, j \in DOMAIN binds : Canonical(binds[i].name) = Canonical(binds[j].name) => i = j
                /\ Len(request.arguments) <= MaximumArguments \/ request.kind = "block"
                /\ (request.kind = "function") = (request.returned # <<>>)
                /\ request.kind \in {"block", "composite"} => {Canonical(n) : n \in ToSet(text)} = BindNames(binds)
                /\ request.kind = "composite" =>
                      Len(request.operations) \in 1..MaximumOperations /\ out = {}
        right(answer) ==
            /\ \A i \in DOMAIN answer.rows : answer.rows[i].value = holds[answer.rows[i].name]
            /\ {answer.rows[i].name : i \in DOMAIN answer.rows} = {Canonical(b.name) : b \in out}
            /\ Len(answer.rows) = Cardinality(out)
    IN  \A result \in {CallResult(request, holds, implicit)} :
        /\ \A answer \in {OracleCallNamed(request, result)} :
              IF answer.failure = "" THEN right(answer)
              ELSE ~fits \/ implicit > 0 \/ \E b \in cursors : holds[Canonical(b.name)] = <<>>
        /\ \A answer \in {OracleTransactionCall(request, result)} :
              IF answer.failure = "" THEN right(answer)
              ELSE ~fits \/ implicit > 0 \/ cursors # {}
-----------------------------------------------------------------------------
(* The dictionary.  `dictionary' is ALL_ARGUMENTS, in the order of owner,  *)
(* package, object, overload and sequence; package and overload may be     *)
(* Absent.  `synonyms' is ALL_SYNONYMS, the user's own before PUBLIC ones. *)

User == "USER"
Absent == "absent"

Triple(row) == <<row.owner, row.package, row.object>>

(* A name of two components is a package's or another schema's.            *)
Readings(components) ==
    CASE Len(components) = 1 -> {<<User, Absent, components[1]>>}
      [] Len(components) = 2 -> {<<User, components[1], components[2]>>,
                                 <<components[1], Absent, components[2]>>}
      [] OTHER -> {<<components[1], components[2], components[3]>>}

ReadMetadataRows(dictionary, triples) ==
    LET rows == SelectSeq(dictionary, LAMBDA row : Triple(row) \in triples)
    IN  SubSeq(rows, 1, IF Len(rows) < MetadataRows THEN Len(rows) ELSE MetadataRows)

(* What a name stands for through the synonym of its first component.      *)
SynonymReadings(components, synonyms) ==
    LET named == SelectSeq(synonyms, LAMBDA y : y.name = components[1] /\ y.table_owner # Absent)
        first == Head(named)
    IN  IF Len(components) = 3 \/ named = <<>> THEN {}
        ELSE IF Len(components) = 1 THEN {<<first.table_owner, Absent, first.table_name>>}
        ELSE {<<first.table_owner, first.table_name, components[2]>>}

(* One argument: why it cannot be bound, if it cannot.                     *)
ArgumentOf(row) ==
    LET direction == IF row.position = 0 THEN "out" ELSE row.direction
        why == IF direction \notin {"in", "out", "inout"} THEN "direction"
               ELSE IF row.type \notin DOMAIN Dictionary THEN "type"
               ELSE IF row.type = "REF_CURSOR" /\ direction = "in" THEN "cursor" ELSE ""
    IN  [position |-> row.position, direction |-> direction, type |-> row.type, unsupported |-> why]

SignatureOf(signature, row) ==
    [signature EXCEPT !.function = @ \/ row.position = 0,
                      !.arguments = IF row.level > 0 THEN @ ELSE Append(@, ArgumentOf(row))]

ResolveOracleCallables(components, dictionary, synonyms) ==
    LET direct == ReadMetadataRows(dictionary, Readings(components))
        rows == IF direct # <<>> THEN direct
                ELSE ReadMetadataRows(dictionary, SynonymReadings(components, synonyms))
        empty(row) == [triple |-> Triple(row), overload |-> row.overload, function |-> FALSE, arguments |-> <<>>]
        add(overloads, row) ==
            IF overloads # <<>> /\ Last(overloads).overload = row.overload
            THEN Front(overloads) \o <<SignatureOf(Last(overloads), row)>>
            ELSE Append(overloads, SignatureOf(empty(row), row))
    IN  IF rows = <<>> THEN Fails("not found")
        ELSE IF \E i \in DOMAIN rows : Triple(rows[i]) # Triple(rows[1]) THEN Fails("ambiguous")
        ELSE [failure |-> "", overloads |-> FoldLeft(add, <<>>, rows)]

InputCount(signature) == Len(signature.arguments) - (IF signature.function THEN 1 ELSE 0)

(* The number of values is all there is to choose by.                      *)
SelectOracleCallableOverload(overloads, count) ==
    LET chosen == SelectSeq(overloads, LAMBDA o : InputCount(o) = count)
    IN  IF Len(chosen) # 1 THEN Fails("overload") ELSE [failure |-> "", signature |-> chosen[1]]

(* Up to the call, each argument but the result takes the next value.      *)
CallSelected(signature, values) ==
    LET inputs == SelectSeq(signature.arguments, LAMBDA a : a.position # 0)
        encoded == [i \in DOMAIN inputs |->
            EncodeOracleCallableArgument(Dictionary[inputs[i].type][3], inputs[i].direction, values[i])]
    IN  IF \E i \in DOMAIN signature.arguments : signature.arguments[i].unsupported # "" THEN Fails("unsupported")
        ELSE IF Len(inputs) # Len(values) THEN Fails("count")
        ELSE IF \E i \in DOMAIN inputs : encoded[i].failure # "" THEN Fails("value")
        ELSE [failure |-> "", triple |-> signature.triple, overload |-> signature.overload,
              binds |-> [i \in DOMAIN inputs |-> [direction |-> inputs[i].direction, type |-> encoded[i].type,
                                                  value |-> encoded[i].value]]]

OracleCallAuto(components, dictionary, synonyms, values) ==
    LET resolved == ResolveOracleCallables(components, dictionary, synonyms)
        selected == SelectOracleCallableOverload(resolved.overloads, Len(values))
    IN  IF resolved.failure # "" THEN resolved
        ELSE IF selected.failure # "" THEN selected
        ELSE CallSelected(selected.signature, values)

(* The object called is the only one the name can mean, through a synonym  *)
(* only when it means none, the user's before a public one; of its         *)
(* overloads it is the only one that takes so many values; and each value  *)
(* is bound to the argument in its place, what an argument is made of      *)
(* shifting none.  (Of more rows than are read, nothing is known.)         *)
CallIsTheOneMeant(components, dictionary, synonyms, values) ==
    LET present == {Triple(dictionary[i]) : i \in DOMAIN dictionary}
        direct == Readings(components) \cap present
        known == {i \in DOMAIN synonyms : synonyms[i].name = components[1] /\ synonyms[i].table_owner # Absent}
        through == {<<y.table_owner>> \o (IF Len(components) = 1 THEN <<Absent, y.table_name>>
                                          ELSE <<y.table_name, components[2]>>) :
                       y \in {synonyms[i] : i \in {k \in known : \A j \in known : k <= j}}}
        meant == IF direct # {} THEN direct ELSE IF Len(components) = 3 THEN {} ELSE through \cap present
        rows(t) == {i \in DOMAIN dictionary : Triple(dictionary[i]) = t}
        inputs(t, o) == SelectSeq(SelectSeq(dictionary, LAMBDA r : Triple(r) = t /\ r.overload = o),
                                  LAMBDA r : r.level = 0 /\ r.position # 0)
        fitting(t) == {o \in {dictionary[i].overload : i \in rows(t)} : Len(inputs(t, o)) = Len(values)}
        taken(row, value) ==        \* a value goes in, or nothing comes out of it
            IF row.direction = "out" THEN value = <<>>
            ELSE value # <<>> \/ ArgumentForm[Dictionary[row.type][3]].nullable
    IN  Cardinality(UNION {rows(t) : t \in meant}) < MetadataRows =>
        \A call \in {OracleCallAuto(components, dictionary, synonyms, values)} :
        IF call.failure = ""
        THEN /\ meant = {call.triple} /\ fitting(call.triple) = {call.overload}
             /\ \A i \in DOMAIN values :
                   LET row == inputs(call.triple, call.overload)[i]
                   IN  /\ taken(row, values[i]) /\ call.binds[i].value = values[i]
                       /\ call.binds[i].direction = row.direction
                       /\ call.binds[i].type = Dictionary[row.type][1]
        ELSE \/ Cardinality(meant) # 1
             \/ \E t \in meant :
                   \/ Cardinality(fitting(t)) # 1
                   \/ \E o \in fitting(t), i \in rows(t) :
                         /\ dictionary[i].overload = o /\ dictionary[i].level = 0
                         /\ ArgumentOf(dictionary[i]).unsupported # ""
                   \/ \E o \in fitting(t), i \in DOMAIN values : ~taken(inputs(t, o)[i], values[i])
=============================================================================
