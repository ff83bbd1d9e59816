------------------------------ MODULE Metadata ------------------------------
(***************************************************************************)
(* What an attached catalog knows of its Oracle schema (oracle_catalog.cpp *)
(* lines 108-980): the list of its objects, the columns of all of them,    *)
(* read by one dictionary query or, if that failed or met its bound, of    *)
(* one object at a time, and their keys; each read once, under             *)
(* metadata_lock, and kept until DETACH, while other sessions go on        *)
(* creating, replacing and dropping objects.                               *)
(***************************************************************************)
EXTENDS Integers, FiniteSets, Sequences, SequencesExt, Functions

CONSTANTS
    Lookers,            \* threads that bind statements over the catalog
    NoLooker,
    ObjectNames,        \* <<letters, word>>: words spelled in several ways
    Shapes,             \* what an object may be: a view or not, columns, key
    Schemas,            \* what the Oracle schema may hold when it is attached
    MaximumColumns,     \* maximum_columns
    MaximumObjects,     \* maximum_objects
    MaximumMoments,     \* bound: states of the Oracle schema
    MaximumLookups      \* bound

ASSUME MetadataAssumption ==
    /\ {MaximumColumns, MaximumObjects, MaximumMoments} \subseteq Nat \ {0}
    /\ MaximumLookups \in Nat
    /\ NoLooker \notin Lookers

(* What Oracle's dictionary holds: finitely many objects, with columns.    *)
IsColumn(c) == c \in [name : {c.name}, vector : BOOLEAN, shape : Nat]
IsShape(s) ==
    s.columns \in Seq(ToSet(s.columns)) \ {<<>>} /\ \A c \in ToSet(s.columns) : IsColumn(c)

ASSUME SchemasAssumption ==
    /\ IsFiniteSet(ObjectNames)
    /\ \A s \in Shapes : IsShape(s)
    /\ \A d \in Schemas : DOMAIN d \subseteq ObjectNames /\ \A n \in DOMAIN d : d[n] \in Shapes

VARIABLES
    dictionary,     \* the Oracle schema: name -> shape
    column_cache,   \* name -> columns; <<>> of a name that is no object
    metadata,       \* metadata_loaded, metadata_complete
    primary_keys,   \* primary_keys_loaded, primary_key_cache
    objects,        \* objects_loaded, object_names
    metadata_lock,  \* who holds it over several steps
    lookups,        \* looker -> what it does
    \* history, for the properties
    past,           \* what the schema has held since ATTACH
    at_load,        \* what it held when all columns were read
    answers,        \* what lookups were told
    begun

metadataVars == <<dictionary, column_cache, metadata, primary_keys, objects, metadata_lock,
                  lookups, past, at_load, answers, begun>>

-----------------------------------------------------------------------------
(* Letters 1 are all upper case; the dictionary sorts by letters.          *)
Upper(n) == <<1, n[2]>>
Alike(m, n) == m[2] = n[2]
Smaller(a, b) == IF a < b THEN a ELSE b
PrecedesName(m, n) == m[1] < n[1] \/ (m[1] = n[1] /\ m[2] < n[2])

(* A VECTOR column has a shape, 0 while it is not known.                   *)
Unshaped(columns) == [i \in DOMAIN columns |-> [columns[i] EXCEPT !.shape = 0]]
ColumnNames(columns) == {c.name : c \in ToSet(columns)}

(* What is new goes over what was known.                                   *)
Over(new, old) ==
    [n \in DOMAIN new \cup DOMAIN old |-> IF n \in DOMAIN new THEN new[n] ELSE old[n]]

IdleLooker == [step |-> "none"]

MetadataInit ==
    /\ dictionary \in Schemas
    /\ column_cache = <<>>
    /\ metadata = [loaded |-> FALSE, complete |-> FALSE]
    /\ primary_keys = [loaded |-> FALSE, cache |-> <<>>]
    /\ objects = [loaded |-> FALSE, names |-> <<>>]
    /\ metadata_lock = NoLooker
    /\ lookups = [t \in Lookers |-> IdleLooker]
    /\ past = {dictionary}
    /\ at_load = <<>>
    /\ answers = {}
    /\ begun = 0

-----------------------------------------------------------------------------
(* Another session's DDL.                                                  *)
SchemaChanges ==
    /\ \E n \in ObjectNames :
          \/ \E shape \in Shapes : dictionary' = Over([m \in {n} |-> shape], dictionary)
          \/ dictionary' = [m \in DOMAIN dictionary \ {n} |-> dictionary[m]]
    /\ dictionary' # dictionary
    /\ past' = past \cup {dictionary'}
    /\ Cardinality(past') <= MaximumMoments
    /\ UNCHANGED <<column_cache, metadata, primary_keys, objects, metadata_lock, lookups,
                   at_load, answers, begun>>

-----------------------------------------------------------------------------
LookerGoes(t, lookup) == lookups' = [lookups EXCEPT ![t] = lookup]
LookerAt(t, step) == lookups[t].step = step /\ metadata_lock \in {NoLooker, t}
LookerBegins(t, lookup) ==
    /\ lookups[t] = IdleLooker
    /\ begun < MaximumLookups
    /\ begun' = begun + 1
    /\ LookerGoes(t, lookup)
    /\ UNCHANGED <<dictionary, column_cache, metadata, primary_keys, objects, metadata_lock,
                   past, at_load, answers>>

(* CreateDefaultEntry, for a name as the user typed it; GetDefaultEntries. *)
LooksUp(t) ==
    \E n \in ObjectNames : LookerBegins(t, [step |-> "resolve", requested |-> n, tries |-> <<>>,
                                      columns |-> <<>>, reading |-> <<>>])
GetDefaultEntries(t) == LookerBegins(t, [step |-> "tables", requested |-> <<>>])

LookupAnswered(t, answer) ==
    /\ answers' = answers \cup {answer}
    /\ LookerGoes(t, IdleLooker)
    /\ metadata_lock' = NoLooker
NotFound(requested) == [kind |-> "none", requested |-> requested]

(* The session fails under a lookup's own query.                           *)
LookupFails(t) ==
    /\ LookerGoes(t, IdleLooker)
    /\ metadata_lock' = NoLooker
    /\ UNCHANGED <<dictionary, column_cache, metadata, primary_keys, objects, past, at_load,
                   answers, begun>>

-----------------------------------------------------------------------------
(* The columns of a schema whose query ended in order, or of those before  *)
(* the bound: the object that was being read there is dropped.             *)
ColumnsThrough(d, n) ==
    Cardinality(UNION {{m} \X DOMAIN d[m].columns :
                          m \in {m \in DOMAIN d : m = n \/ PrecedesName(m, n)}})
Truncated(d) == \E n \in DOMAIN d : ColumnsThrough(d, n) > MaximumColumns
LoadedObjects_Prefix(d) ==      \* bug: the object at the bound stays, with a part of its columns
    {n \in DOMAIN d : ColumnsThrough(d, n) - Len(d[n].columns) < MaximumColumns}
LoadedObjects(d) ==
    IF Truncated(d) THEN {n \in DOMAIN d : ColumnsThrough(d, n) < MaximumColumns} ELSE DOMAIN d
LoadedColumns(d, n) ==
    LET through == ColumnsThrough(d, n)
        columns == Unshaped(d[n].columns)
    IN  IF through <= MaximumColumns THEN columns
        ELSE SubSeq(columns, 1, Len(columns) - (through - MaximumColumns))

(* LoadSchemaColumnsLocked.                                                *)
LoadSchemaColumns(t) ==
    /\ LookerAt(t, "resolve")
    /\ ~metadata.loaded
    /\ metadata' = [loaded |-> TRUE, complete |-> ~Truncated(dictionary)]
    /\ at_load' = dictionary
    /\ metadata_lock' = t
    /\ LookerGoes(t, [lookups[t] EXCEPT !.step = "shapes",
                    !.reading = [n \in LoadedObjects(dictionary) |-> LoadedColumns(dictionary, n)]])
    /\ UNCHANGED <<dictionary, column_cache, primary_keys, objects, past, answers, begun>>

LoadSchemaColumnsFails(t) ==
    /\ LookerAt(t, "resolve")
    /\ ~metadata.loaded
    /\ metadata' = [loaded |-> TRUE, complete |-> FALSE]
    /\ metadata_lock' = t
    /\ UNCHANGED <<dictionary, column_cache, primary_keys, objects, lookups, past, at_load,
                   answers, begun>>

(* ApplyVectorShapesLocked: a second query, which may fail, tells of some  *)
(* columns of that name what they are by then.                             *)
Vectors(columns) ==
    UNION {{n} \X {i \in DOMAIN columns[n] : columns[n][i].vector} : n \in DOMAIN columns}
ShapesNow(n, name) ==
    IF n \in DOMAIN dictionary
    THEN {c.shape : c \in {v \in ToSet(dictionary[n].columns) : v.name = name /\ v.vector}} ELSE {}
Shaped(columns, told) ==
    [n \in DOMAIN columns |-> [i \in DOMAIN columns[n] |->
        LET column == columns[n][i]
            shapes == IF <<n, i>> \in told THEN ShapesNow(n, column.name) ELSE {}
        IN  IF shapes = {} THEN column ELSE [column EXCEPT !.shape = CHOOSE s \in shapes : TRUE]]]

ApplyVectorShapes(t) ==
    LET after == IF lookups[t].tries = <<>> THEN "resolve" ELSE "describe"
    IN  /\ LookerAt(t, "shapes")
        /\ \E told \in SUBSET Vectors(lookups[t].reading) :
              column_cache' = Over(Shaped(lookups[t].reading, told), column_cache)
        /\ LookerGoes(t, [lookups[t] EXCEPT !.step = after, !.reading = <<>>])
        /\ UNCHANGED <<dictionary, metadata, primary_keys, objects, metadata_lock, past, at_load,
                       answers, begun>>

-----------------------------------------------------------------------------
(* ResolveObjectName, in the cache: the names under which the object is to *)
(* be described, in turn; none, and there is no such object.               *)
ResolveObjectName(requested) ==
    LET alike == {n \in DOMAIN column_cache : Alike(n, requested)}
    IN  CASE requested \in alike -> <<requested>>
          [] requested \notin alike /\ Cardinality(alike) = 1 -> SetToSeq(alike)
          [] requested \notin alike /\ Cardinality(alike) > 1 -> <<>>
          [] alike = {} /\ metadata.complete -> <<>>
          [] alike = {} /\ ~metadata.complete ->
               IF requested = Upper(requested) THEN <<requested>> ELSE <<Upper(requested), requested>>

Resolves(t) ==
    LET tries == ResolveObjectName(lookups[t].requested)
    IN  /\ LookerAt(t, "resolve")
        /\ metadata.loaded
        /\ \/ tries = <<>> /\ LookupAnswered(t, NotFound(lookups[t].requested))
           \/ /\ tries # <<>>
              /\ LookerGoes(t, [lookups[t] EXCEPT !.step = "describe", !.tries = tries])
              /\ metadata_lock' = NoLooker
              /\ UNCHANGED answers
        /\ UNCHANGED <<dictionary, column_cache, metadata, primary_keys, objects, past, at_load,
                       begun>>

(* TryDescribe, DescribeOneLocked; what failed is not remembered.          *)
Known(n) == n \in DOMAIN column_cache \/ metadata.complete

DescribeOne(t) ==
    LET n == Head(lookups[t].tries)
        columns == IF n \in DOMAIN dictionary THEN Unshaped(dictionary[n].columns) ELSE <<>>
    IN  /\ LookerAt(t, "describe")
        /\ ~Known(n)
        /\ metadata_lock' = t
        /\ LookerGoes(t, [lookups[t] EXCEPT !.step = "shapes", !.reading = [m \in {n} |-> columns]])
        /\ UNCHANGED <<dictionary, column_cache, metadata, primary_keys, objects, past,
                       at_load, answers, begun>>

DescribeFails(t) == LookerAt(t, "describe") /\ ~Known(Head(lookups[t].tries)) /\ LookupFails(t)

TryDescribe(t) ==
    LET n == Head(lookups[t].tries)
        columns == IF n \in DOMAIN column_cache THEN column_cache[n] ELSE <<>>
    IN  /\ LookerAt(t, "describe")
        /\ Known(n)
        /\ \/ /\ columns # <<>>
              /\ LookerGoes(t, [lookups[t] EXCEPT !.step = "keys", !.columns = columns])
              /\ metadata_lock' = NoLooker /\ UNCHANGED answers
           \/ /\ columns = <<>> /\ Len(lookups[t].tries) > 1
              /\ LookerGoes(t, [lookups[t] EXCEPT !.tries = Tail(@)])
              /\ metadata_lock' = NoLooker /\ UNCHANGED answers
           \/ /\ columns = <<>> /\ Len(lookups[t].tries) = 1
              /\ LookupAnswered(t, NotFound(lookups[t].requested))
        /\ UNCHANGED <<dictionary, column_cache, metadata, primary_keys, objects, past, at_load,
                       begun>>

(* PrimaryKeyColumns, LoadPrimaryKeysLocked.                               *)
LoadPrimaryKeys(t) ==
    LET keyed == {n \in DOMAIN dictionary : dictionary[n].key # <<>>}
    IN  /\ LookerAt(t, "keys")
        /\ ~primary_keys.loaded
        /\ \/ primary_keys' = [loaded |-> TRUE, cache |-> [n \in keyed |-> dictionary[n].key]]
           \/ primary_keys' = [loaded |-> TRUE, cache |-> <<>>]       \* the query failed
        /\ UNCHANGED <<dictionary, column_cache, metadata, objects, metadata_lock, lookups, past,
                       at_load, answers, begun>>

(* OracleAttachedTableEntry::Create: a key is declared if it is whole.     *)
KeyOf(object, columns) ==
    LET key == IF object \in DOMAIN primary_keys.cache THEN primary_keys.cache[object] ELSE <<>>
    IN  IF ToSet(key) \subseteq ColumnNames(columns) THEN key ELSE <<>>

Create(t) ==
    LET object == Head(lookups[t].tries)
        columns == lookups[t].columns
    IN  /\ LookerAt(t, "keys")
        /\ primary_keys.loaded
        /\ LookupAnswered(t, [kind |-> "entry", requested |-> lookups[t].requested,
                        object |-> object, columns |-> columns, key |-> KeyOf(object, columns)])
        /\ UNCHANGED <<dictionary, column_cache, metadata, primary_keys, objects, past, at_load,
                       begun>>

-----------------------------------------------------------------------------
(* ListObjects: tables, then views, each by a query whose failure leaves   *)
(* what was read; a list at its bound is not added to.                     *)
ListObjects(t, step) ==
    LET those == {n \in DOMAIN dictionary : dictionary[n].view = (step = "views")}
        space == MaximumObjects - Len(objects.names)
        lists(names, loaded) == objects' = [loaded |-> loaded, names |-> objects.names \o names]
    IN  /\ LookerAt(t, step)
        /\ ~objects.loaded
        /\ \E read \in SetToSeqs(those) :
              \/ /\ step = "views" \/ Len(read) >= space
                 /\ lists(SubSeq(read, 1, Smaller(Len(read), space)), TRUE)
                 /\ LookerGoes(t, [lookups[t] EXCEPT !.step = "tables"])
                 /\ metadata_lock' = NoLooker
              \/ /\ step = "tables" /\ Len(read) < space
                 /\ lists(read, FALSE)
                 /\ LookerGoes(t, [lookups[t] EXCEPT !.step = "views"])
                 /\ metadata_lock' = t
              \/ /\ \E k \in 0..Smaller(Len(read), space - 1) : lists(SubSeq(read, 1, k), FALSE)
                 /\ LookerGoes(t, IdleLooker)
                 /\ metadata_lock' = NoLooker
        /\ UNCHANGED <<dictionary, column_cache, metadata, primary_keys, past, at_load, answers, begun>>

ObjectsListed(t) ==
    /\ LookerAt(t, "tables")
    /\ objects.loaded
    /\ LookupAnswered(t, [kind |-> "list", names |-> objects.names])
    /\ UNCHANGED <<dictionary, column_cache, metadata, primary_keys, objects, past, at_load, begun>>

-----------------------------------------------------------------------------
MetadataNext ==
    \/ SchemaChanges
    \/ \E t \in Lookers :
          \/ LooksUp(t) \/ GetDefaultEntries(t)
          \/ LoadSchemaColumns(t) \/ LoadSchemaColumnsFails(t) \/ ApplyVectorShapes(t)
          \/ Resolves(t) \/ DescribeOne(t) \/ DescribeFails(t) \/ TryDescribe(t)
          \/ LoadPrimaryKeys(t) \/ Create(t)
          \/ ListObjects(t, "tables") \/ ListObjects(t, "views") \/ ObjectsListed(t)

MetadataSpec == MetadataInit /\ [][MetadataNext]_metadataVars

-----------------------------------------------------------------------------
(* The columns and the key of a table are what its object had at some      *)
(* moment since ATTACH, all of them, and its vectors are of no shape they  *)
(* never had; a key is one Oracle enforced, whole, and on those columns.   *)
(* A table is not described in two ways.                                   *)
EntryIsWhole(a) ==
    /\ \E d \in past : a.object \in DOMAIN d /\ Unshaped(a.columns) = Unshaped(d[a.object].columns)
    /\ \A c \in ToSet(a.columns) :
          c.shape = 0 \/ \E d \in past : a.object \in DOMAIN d /\ c \in ToSet(d[a.object].columns)
    /\ ToSet(a.key) \subseteq ColumnNames(a.columns)
    /\ a.key = <<>> \/ \E d \in past : a.object \in DOMAIN d /\ a.key = d[a.object].key
    /\ \A b \in answers : b.kind = "entry" /\ b.object = a.object
                            => b.columns = a.columns /\ b.key = a.key

(* A name means the object spelled like it or, if there is none, the only  *)
(* one that differs in the case of its letters: certainly so if the whole  *)
(* schema was read, and what it did not hold then is not found.            *)
Meant(requested) ==
    LET alike == {n \in DOMAIN at_load : Alike(n, requested)}
    IN  IF requested \in alike THEN {requested}
        ELSE IF Cardinality(alike) = 1 THEN alike ELSE {}
NameIsMeant(a) ==
    metadata.complete => Meant(a.requested) = IF a.kind = "entry" THEN {a.object} ELSE {}

(* A list below its bound holds every object that was there all the time.  *)
ListIsWhole(a) ==
    \/ Len(a.names) >= MaximumObjects
    \/ \A n \in ObjectNames :
          (\E view \in BOOLEAN : \A d \in past : n \in DOMAIN d /\ d[n].view = view)
            => n \in ToSet(a.names)

(* What an attached catalog tells DuckDB of its tables is never a part of  *)
(* the truth, whichever of its queries fail, meet their bound, or read the *)
(* schema after it was changed.                                            *)
TablesAreAsDescribed ==
    \A a \in answers :
        CASE a.kind = "entry" -> Alike(a.object, a.requested) /\ EntryIsWhole(a) /\ NameIsMeant(a)
          [] a.kind = "none" -> NameIsMeant(a)
          [] a.kind = "list" -> ListIsWhole(a)
=============================================================================
