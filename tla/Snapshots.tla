------------------------------ MODULE Snapshots ------------------------------
(***************************************************************************)
(* Local copies of Oracle tables (oracle_snapshot.cpp): oracle_snapshot    *)
(* and oracle_snapshot_refresh take a change number, pin it on a           *)
(* connection of their own, replace a local table by the rows of a query,  *)
(* count it and write where it came from into its comment, each in a       *)
(* statement of its own; and what the scans of that query read             *)
(* (OraclePinSnapshot and OracleQuerySnapshot, oracle_catalog.cpp).        *)
(***************************************************************************)
EXTENDS Naturals, FiniteSets

CONSTANTS
    SnapshotCallers,
    Databases,          \* local ones; each has room for one table of the name
    SourceTables,       \* of the attached catalog, read by every query
    Sources,            \* queries over them
    AttachedName,       \* the catalog's name
    Spellings,          \* what users write for it; DuckDB ignores case
    MaximumMoment       \* bound: changes of the Oracle database

ASSUME SnapshotsAssumption ==
    AttachedName \in Spellings /\ MaximumMoment \in Nat

VARIABLES
    moment,     \* the change number of the Oracle database
    copies,     \* database -> the local table there
    taking,     \* caller -> its statement
    asked       \* history: the query a copy was first asked for with

snapshotVars == <<moment, copies, taking, asked>>

(* The comment of a table is <<>> or a mark; `read' has for each table of  *)
(* the query the moment its rows are of.                                   *)
NoCopy == [exists |-> FALSE]
Copy(source, read) == [exists |-> TRUE, source |-> source, read |-> read, comment |-> <<>>]
Mark(job) == <<[catalog |-> job.catalog, scn |-> job.scn, source |-> job.source]>>

NotTaking == [step |-> "none"]
Job(d, catalog, source, refresh) ==
    [step |-> "ask", database |-> d, catalog |-> catalog, source |-> source,
     refresh |-> refresh, scn |-> 0, read |-> <<>>]

SnapshotsInit ==
    /\ moment = 0
    /\ copies = [d \in Databases |-> NoCopy]
    /\ taking = [c \in SnapshotCallers |-> NotTaking]
    /\ asked = [d \in Databases |-> CHOOSE q \in Sources : TRUE]

-----------------------------------------------------------------------------
(* The database changes, and the user drops a copy.                        *)
OracleChanges ==
    /\ moment < MaximumMoment
    /\ moment' = moment + 1
    /\ UNCHANGED <<copies, taking, asked>>

DropCopy(d) ==
    /\ copies[d].exists
    /\ copies' = [copies EXCEPT ![d] = NoCopy]
    /\ UNCHANGED <<moment, taking, asked>>

-----------------------------------------------------------------------------
Starts(c, job) ==
    taking[c] = NotTaking /\ taking' = [taking EXCEPT ![c] = job]

(* SnapshotInit of oracle_snapshot: the table goes where the caller's own  *)
(* CREATE TABLE would put it.                                              *)
OracleSnapshot(c) ==
    /\ \E d \in Databases, spelled \in Spellings, q \in Sources :
          Starts(c, Job(d, spelled, q, FALSE))
    /\ UNCHANGED <<moment, copies, asked>>

(* ListSnapshots, by name: a bare one means every copy of it, a qualified  *)
(* one that of its database.                                               *)
Listed == {d \in Databases : copies[d].exists /\ copies[d].comment # <<>>}
RefreshNames == {Databases} \cup {{d} : d \in Databases}

(* SnapshotInit of oracle_snapshot_refresh, which takes no name that means *)
(* none or several, and rebuilds the copy where it found it.               *)
OracleSnapshotRefresh(c) ==
    /\ \E name \in RefreshNames : \E d \in Listed \cap name :
          /\ Listed \cap name = {d}
          /\ Starts(c, Job(d, copies[d].comment[1].catalog, copies[d].comment[1].source, TRUE))
    /\ UNCHANGED <<moment, copies, asked>>

(* CreateSnapshot, step by step.                                           *)
Doing(c, step) == taking[c].step = step

(* OracleCurrentScn, whose catalog is found however it is spelled.         *)
OracleCurrentScn(c) ==
    /\ Doing(c, "ask")
    /\ taking' = [taking EXCEPT ![c].step = "build", ![c].scn = moment]
    /\ UNCHANGED <<moment, copies, asked>>

(* OracleQuerySnapshot: the pinned moment, when the catalog is the pinned  *)
(* one, or none; then the scan reads what there is.                        *)
MomentRead_Now(job) == moment           \* bug: the pin is left on another connection
MomentRead(job) == IF job.catalog = AttachedName THEN job.scn ELSE moment

(* CREATE OR REPLACE TABLE ... AS: a scan begins, and after all of them    *)
(* the table is there, without a comment.                                  *)
SourceIsRead(c, t) ==
    /\ Doing(c, "build")
    /\ t \notin DOMAIN taking[c].read
    /\ taking' = [taking EXCEPT ![c].read =
           [u \in DOMAIN @ \cup {t} |-> IF u = t THEN MomentRead(taking[c]) ELSE @[u]]]
    /\ UNCHANGED <<moment, copies, asked>>

CopyIsReplaced(c) ==
    LET job == taking[c]
    IN  /\ Doing(c, "build")
        /\ DOMAIN job.read = SourceTables
        /\ taking' = [taking EXCEPT ![c].step = "count"]
        /\ copies' = [copies EXCEPT ![job.database] = Copy(job.source, job.read)]
        /\ asked' = IF job.refresh THEN asked ELSE [asked EXCEPT ![job.database] = job.source]
        /\ UNCHANGED moment

CountRows(c) ==
    /\ Doing(c, "count")
    /\ copies[taking[c].database].exists
    /\ taking' = [taking EXCEPT ![c].step = "comment"]
    /\ UNCHANGED <<moment, copies, asked>>

CommentOnTable(c) ==
    LET d == taking[c].database
    IN  /\ Doing(c, "comment")
        /\ copies[d].exists
        /\ taking' = [taking EXCEPT ![c] = NotTaking]
        /\ copies' = [copies EXCEPT ![d].comment = Mark(taking[c])]
        /\ UNCHANGED <<moment, asked>>

(* Oracle or DuckDB refuses a statement; those before it stay committed.   *)
SnapshotFails(c) ==
    /\ taking[c] # NotTaking
    /\ taking' = [taking EXCEPT ![c] = NotTaking]
    /\ UNCHANGED <<moment, copies, asked>>

SnapshotsNext ==
    \/ OracleChanges
    \/ \E d \in Databases : DropCopy(d)
    \/ \E c \in SnapshotCallers :
          \/ OracleSnapshot(c)
          \/ OracleSnapshotRefresh(c)
          \/ OracleCurrentScn(c)
          \/ \E t \in SourceTables : SourceIsRead(c, t)
          \/ CopyIsReplaced(c)
          \/ CountRows(c)
          \/ CommentOnTable(c)
          \/ SnapshotFails(c)

-----------------------------------------------------------------------------
(* Statements that work on one copy together may overwrite each other's,   *)
(* for nothing keeps what one of them does apart from the others.          *)
NoneOverlaps ==
    \A c, o \in SnapshotCallers :
        c # o /\ NotTaking \notin {taking[c], taking[o]} => taking[c].database # taking[o].database

(* ``Reading every table of that catalog AS OF one SCN, and records the    *)
(* SCN and the query in the table's comment'' (oracle_snapshot.cpp line    *)
(* 300): a copy with a comment has the rows its query had at the moment    *)
(* the comment names, all of its tables at that one, and the query is the  *)
(* one the copy was made for, however often it was refreshed or failed to. *)
MarkedRowsAreOfTheirMoment ==
    \A d \in Listed :
        LET mark == copies[d].comment[1]
        IN  /\ copies[d].read = [t \in SourceTables |-> mark.scn]
            /\ copies[d].source = mark.source
            /\ mark.source = asked[d]
=============================================================================
