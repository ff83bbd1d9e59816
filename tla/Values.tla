------------------------------- MODULE Values -------------------------------
(***************************************************************************)
(* How a stored value becomes one of DuckDB's (oracle_types.cpp lines      *)
(* 36-768): the type a column has by what Oracle's dictionary or describes *)
(* say of it, which may be two different things in an attached table       *)
(* (oracle_catalog.cpp lines 275-428, 1587-1708), and the conversion of    *)
(* one value, or its refusal.                                              *)
(***************************************************************************)
EXTENDS Integers, FiniteSets, Sequences, SequencesExt

CONSTANTS
    UnitDigits,         \* decimal digits kept after the point of a number
    BigintDigits,       \* 18: digits that fit in 64 bits
    DecimalDigits,      \* 38
    MaximumFloatDigits, \* 126: the binary digits of a FLOAT
    LargestMonths,      \* what an int32 holds
    NullValue,
    NanosecondSeconds   \* the seconds a TIMESTAMP_NS reaches

ASSUME ValuesAssumption ==
    /\ {UnitDigits, BigintDigits, DecimalDigits, MaximumFloatDigits, LargestMonths} \subseteq Nat
    /\ BigintDigits <= DecimalDigits /\ DecimalDigits < MaximumFloatDigits

-----------------------------------------------------------------------------
(* A column: its type code, by name; NoType is the code of a dictionary    *)
(* type without a mapping.                                                 *)
NoType == "none"
NoVector == [dimensions |-> 0, format |-> "*", sparse |-> FALSE]
TextMode == <<"text">>
OracleColumn(type, precision, scale, form, vector) ==
    [type |-> type, precision |-> precision, scale |-> scale, form |-> form, mode |-> TextMode,
     vector |-> vector]

(* External: a column is declared [is, precision, scale, vector].  Oracle  *)
(* describes a NUMBER without precision and a FLOAT with a scale of -127,  *)
(* for which its dictionary has none.                                      *)
Floating(d) == d.is = "FLOAT" \/ (d.is = "NUMBER" /\ d.precision = 0)
CodeOf(is) ==
    CASE is \in {"VARCHAR2", "NVARCHAR2"} -> "VARCHAR2"
      [] is \in {"CHAR", "NCHAR"} -> "CHAR"
      [] is \in {"CLOB", "NCLOB", "XMLTYPE"} -> "CLOB"
      [] is \in {"NUMBER", "FLOAT"} -> "NUMBER"
      [] OTHER -> is
FormOf(is) == IF is \in {"NVARCHAR2", "NCHAR", "NCLOB"} THEN 2 ELSE 1
DescribedColumn(d) ==
    OracleColumn(CodeOf(d.is), d.precision, IF Floating(d) THEN -127 ELSE d.scale, FormOf(d.is), d.vector)

(* ColumnFromDictionaryRow and ApplyVectorShapes, which may know nothing.  *)
ReadableTypes ==
    {"VARCHAR2", "NUMBER", "LONG", "ROWID", "DATE", "RAW", "LONG RAW", "CHAR", "BINARY_FLOAT",
     "BINARY_DOUBLE", "TIMESTAMP", "TIMESTAMP TZ", "TIMESTAMP LTZ", "BOOLEAN", "CLOB", "BLOB",
     "INTERVAL YM", "INTERVAL DS", "UROWID", "JSON", "VECTOR"}
ColumnFromDictionaryRow(d, shaped) ==
    LET named == CodeOf(d.is) \in ReadableTypes /\ d.is # "FLOAT"
    IN  OracleColumn(IF named THEN CodeOf(d.is) ELSE NoType, d.precision, IF Floating(d) THEN 0 ELSE d.scale,
                     IF FormOf(d.is) = 2 THEN 2 ELSE 0, IF shaped THEN d.vector ELSE NoVector)

(* oracle_unconstrained_number: <<"text">>, <<"double">>, <<"decimal", p, s>>. *)
ApplyUnconstrainedNumberSetting(c, setting) ==
    IF c.type = "NUMBER" /\ c.precision = 0 THEN [c EXCEPT !.mode = setting] ELSE c

OverlayDictionaryColumn_Shape(described, dictionary) ==     \* bug: vectors keep the described shape
    [dictionary EXCEPT
        !.type = IF @ = NoType THEN described.type ELSE @,
        !.form = described.form,
        !.vector = described.vector]
OverlayDictionaryColumn(described, dictionary) ==
    [dictionary EXCEPT
        !.type = IF @ = NoType THEN described.type ELSE @,
        !.form = described.form,
        !.vector = IF dictionary.type = "VECTOR" THEN @ ELSE described.vector]

RequireReadableColumn(c) ==
    /\ c.type \in ReadableTypes
    /\ c.form = 2 => c.type \in {"VARCHAR2", "CHAR", "CLOB"}

-----------------------------------------------------------------------------
(* DuckDB's types: <<name, parameters>>.                                   *)
MapNumber(c) ==
    CASE c.precision >= 1 /\ c.scale = 0 /\ c.precision <= BigintDigits -> <<"BIGINT">>
      [] c.precision >= 1 /\ c.scale < 0 /\ c.precision - c.scale <= BigintDigits -> <<"BIGINT">>
      [] c.scale >= 1 /\ c.scale <= c.precision /\ c.precision <= DecimalDigits ->
            <<"DECIMAL", c.precision, c.scale>>
      [] c.precision >= 1 /\ c.scale > c.precision /\ c.scale <= DecimalDigits ->
            <<"DECIMAL", c.scale, c.scale>>
      [] c.precision = 0 /\ c.mode[1] = "double" -> <<"DOUBLE">>
      [] c.precision = 0 /\ c.mode[1] = "decimal" -> <<"DECIMAL", c.mode[2], c.mode[3]>>
      [] OTHER -> <<"VARCHAR">>

OracleColumnRoundsOnRead(c) ==
    c.type = "NUMBER" /\ c.precision = 0 /\ MapNumber(c)[1] \in {"DECIMAL", "DOUBLE"}

VectorElementType(format) ==
    CASE format = "FLOAT32" -> "FLOAT" [] format = "INT8" -> "TINYINT" [] format = "BINARY" -> "UTINYINT"
      [] OTHER -> "DOUBLE"

VectorType(c) ==
    LET element == VectorElementType(c.vector.format)
        length == c.vector.dimensions \div (IF c.vector.format = "BINARY" THEN 8 ELSE 1)
    IN  CASE c.vector.sparse -> <<"STRUCT", element>>
          [] ~c.vector.sparse /\ length = 0 -> <<"LIST", element>>
          [] ~c.vector.sparse /\ length > 0 -> <<"ARRAY", element, length>>

MappedType(c) ==
    CASE c.type = "NUMBER" -> MapNumber(c)
      [] c.type = "VECTOR" -> VectorType(c)
      [] c.type = "JSON" -> <<"JSON">>
      [] c.type \in {"RAW", "LONG RAW", "BLOB"} -> <<"BLOB">>
      [] c.type \in {"INTERVAL YM", "INTERVAL DS"} -> <<"INTERVAL">>
      [] c.type = "BOOLEAN" -> <<"BOOLEAN">>
      [] c.type = "TIMESTAMP LTZ" -> <<"TIMESTAMP_TZ">>
      [] c.type = "BINARY_FLOAT" -> <<"FLOAT">>
      [] c.type = "BINARY_DOUBLE" -> <<"DOUBLE">>
      [] c.type = "DATE" -> <<"TIMESTAMP">>
      [] c.type = "TIMESTAMP" -> IF c.scale > 6 THEN <<"TIMESTAMP_NS">> ELSE <<"TIMESTAMP">>
      [] OTHER -> <<"VARCHAR">>

-----------------------------------------------------------------------------
(* Values: numbers in units of UnitDigits; moments [second, nanosecond,    *)
(* offset]; intervals in months or nanoseconds; vectors [format, sparse,   *)
(* elements]; texts <<encoding, characters>> on the wire.                  *)
RefusedValue == [type |-> <<"refused">>]
ValueRead(type, value) == [type |-> type, value |-> value]

Magnitude(n) == IF n < 0 THEN -n ELSE n
WithSignOf(n, magnitude) == IF n < 0 THEN -magnitude ELSE magnitude
Unit == 10^UnitDigits
Whole(n) == WithSignOf(n, (Magnitude(n) \div Unit) * Unit)
RoundedTo(n, scale) ==
    LET step == 10^(UnitDigits - scale)
    IN  WithSignOf(n, ((Magnitude(n) + step \div 2) \div step) * step)

NumberFor(type, n) ==
    CASE type[1] = "BIGINT" ->          \* std::stoll stops at the point
           IF Magnitude(n) < 9 * 10^BigintDigits * Unit THEN ValueRead(type, Whole(n)) ELSE RefusedValue
      [] type[1] = "DECIMAL" ->
           LET rounded == RoundedTo(n, type[3])
           IN  IF Magnitude(rounded) < 10^(type[2] - type[3]) * Unit THEN ValueRead(type, rounded) ELSE RefusedValue
      [] OTHER -> ValueRead(type, n)

TimestampValueFor(type, v) ==
    CASE type = <<"TIMESTAMP_NS">> -> IF v.second \in NanosecondSeconds THEN ValueRead(type, v) ELSE RefusedValue
      [] type # <<"TIMESTAMP_NS">> -> IF v.nanosecond % 1000 = 0 THEN ValueRead(type, v) ELSE RefusedValue

VectorFits(element, format) ==
    element = VectorElementType(format) \/ (element = "DOUBLE" /\ format # "BINARY")

VectorValueFor(c, v) ==
    LET type == VectorType(c)
        agrees == v.sparse = c.vector.sparse /\ c.vector.format \in {"*", v.format}
        fits == v.format = "BINARY" => type[2] = "UTINYINT"
        whole == type[1] = "ARRAY" => Len(v.elements) = type[3]
    IN  IF agrees /\ fits /\ whole THEN ValueRead(type, v.elements) ELSE RefusedValue

ValueFor(c, v) ==
    CASE v = NullValue -> ValueRead(MappedType(c), NullValue)
      [] v # NullValue /\ c.type = "NUMBER" -> NumberFor(MapNumber(c), v)
      [] v # NullValue /\ c.type \in {"DATE", "TIMESTAMP", "TIMESTAMP LTZ"} -> TimestampValueFor(MappedType(c), v)
      [] v # NullValue /\ c.type = "TIMESTAMP TZ" -> ValueRead(<<"VARCHAR">>, [v EXCEPT !.second = @ + v.offset])
      [] v # NullValue /\ c.type = "VECTOR" -> VectorValueFor(c, v)
      [] v # NullValue /\ c.type = "INTERVAL YM" -> IF Magnitude(v) <= LargestMonths THEN ValueRead(<<"INTERVAL">>, v) ELSE RefusedValue
      [] v # NullValue /\ c.type = "INTERVAL DS" -> IF v % 1000 = 0 THEN ValueRead(<<"INTERVAL">>, v) ELSE RefusedValue
      [] v # NullValue /\ c.type \in {"ROWID", "UROWID"} -> IF v.physical THEN ValueRead(<<"VARCHAR">>, v) ELSE RefusedValue
      [] v # NullValue /\ c.type \in {"VARCHAR2", "CHAR", "CLOB", "LONG"} ->
           LET encoding == IF c.form = 2 /\ c.type # "CLOB" THEN "UTF-16" ELSE "UTF-8"
           IN  IF v[1] = encoding THEN ValueRead(<<"VARCHAR">>, v[2]) ELSE ValueRead(<<"VARCHAR">>, "garbled")
      [] OTHER -> ValueRead(MappedType(c), v)

(* WriteOracleValue: a dense vector is copied if its shape is the vector's *)
(* own; any other value is made by ValueFor and cast to the vector's type. *)
TryWriteDenseVector(type, c, v) ==
    /\ c.type = "VECTOR" /\ v # NullValue
    /\ ~v.sparse /\ ~c.vector.sparse
    /\ c.vector.format \in {"*", v.format}
    /\ type[1] \in {"ARRAY", "LIST"}
    /\ type[1] = "ARRAY" => Len(v.elements) = type[3]
    /\ VectorFits(type[2], v.format)

SetValue(type, read) ==
    IF read = RefusedValue \/ read.type = type \/ type = <<"VARCHAR">> THEN [read EXCEPT !.type = IF read = RefusedValue THEN @ ELSE type]
    ELSE RefusedValue
WriteOracleValue(type, c, v) ==
    IF TryWriteDenseVector(type, c, v) THEN ValueRead(type, v.elements) ELSE SetValue(type, ValueFor(c, v))

-----------------------------------------------------------------------------
(* What a DuckDB type means, whatever the code makes of it: the values it  *)
(* holds of those stored, and how a stored value shows in it.              *)
TypeHolds(type, is, v) ==
    CASE v = NullValue -> TRUE
      [] v # NullValue /\ is = "UROWID" -> v.physical
      [] v # NullValue /\ type[1] = "BIGINT" -> v % Unit = 0
      [] v # NullValue /\ type[1] = "DECIMAL" ->
           v % 10^(UnitDigits - type[3]) = 0 /\ Magnitude(v) < 10^(type[2] - type[3]) * Unit
      [] v # NullValue /\ type[1] \in {"TIMESTAMP", "TIMESTAMP_TZ"} -> v.nanosecond % 1000 = 0
      [] v # NullValue /\ type[1] = "TIMESTAMP_NS" -> v.second \in NanosecondSeconds
      [] v # NullValue /\ type[1] = "INTERVAL" ->
           IF is = "INTERVAL YM" THEN Magnitude(v) <= LargestMonths ELSE v % 1000 = 0
      [] v # NullValue /\ type[1] = "STRUCT" -> v.sparse /\ VectorFits(type[2], v.format)
      [] v # NullValue /\ type[1] \in {"LIST", "ARRAY"} ->
           ~v.sparse /\ VectorFits(type[2], v.format) /\ (type[1] = "ARRAY" => Len(v.elements) = type[3])
      [] OTHER -> TRUE
Shows(is, v) ==
    CASE v = NullValue -> NullValue
      [] v # NullValue /\ is = "VECTOR" -> v.elements
      [] v # NullValue /\ is = "TIMESTAMP TZ" -> [v EXCEPT !.second = @ + v.offset]
      [] v # NullValue /\ CodeOf(is) \in {"VARCHAR2", "CHAR", "CLOB", "LONG"} -> v[2]
      [] OTHER -> v

(* A scan of an attached table, or a query, whose column can be read gives *)
(* a value of the type it declared: the stored one, or a refusal if that   *)
(* type does not hold it, which a number is safe from unless the user      *)
(* chose its type; and only such a number may be rounded.                  *)
ReadsWhatIsStored(entry, scanned, d, v) ==
    LET type == MappedType(entry)
        result == WriteOracleValue(type, scanned, v)
    IN  RequireReadableColumn(scanned) =>
          IF OracleColumnRoundsOnRead(entry) /\ v # NullValue /\ type[1] = "DECIMAL"
          THEN \/ result = RefusedValue /\ Magnitude(v) + Unit >= 10^(type[2] - type[3]) * Unit
               \/ /\ result.type = type
                  /\ 2 * Magnitude(result.value - v) <= 10^(UnitDigits - type[3])
          ELSE /\ result = IF TypeHolds(type, d.is, v) THEN ValueRead(type, Shows(d.is, v)) ELSE RefusedValue
               /\ d.is \in {"NUMBER", "FLOAT"} => result # RefusedValue

AttachedReadsWhatIsStored(d, shaped, setting, v) ==
    LET entry == ApplyUnconstrainedNumberSetting(ColumnFromDictionaryRow(d, shaped), setting)
    IN  ReadsWhatIsStored(entry, OverlayDictionaryColumn(DescribedColumn(d), entry), d, v)
QueryReadsWhatIsStored(d, setting, v) ==
    LET column == ApplyUnconstrainedNumberSetting(DescribedColumn(d), setting)
    IN  ReadsWhatIsStored(column, column, d, v)
=============================================================================
