------------------------------ MODULE Calls_proofs ------------------------------
(***************************************************************************)
(* Proofs about Calls, for any statements, programs, call ids and bounds.  *)
(*                                                                         *)
(* First, what the steps of the functions have in common: each course is   *)
(* written out, and its order is read off.  Then where the cursors are     *)
(* (Hands): a running function owns all its open ones, a call's id is free *)
(* when it is registered.  Then what becomes of the work (Outcomes): what  *)
(* is kept, pending or undone of each use, and beside a failed one.  Last, *)
(* the traces that procedures leave on the pinned session (Traces).        *)
(***************************************************************************)
EXTENDS Calls, FiniteSetTheorems, SequenceTheorems, TLAPS

StepNames ==
    {"autocommit", "writable", "ready", "open", "pin", "taint", "run", "ddl", "match",
     "check", "commit", "close", "register", "take", "fetch", "closecall"}

(* The courses there are.                                                  *)
ExecuteSteps == <<"autocommit", "ready", "open", "run", "commit", "close">>
AdminSteps == <<"autocommit", "ready", "autocommit", "open", "ddl", "close">>
ScalarSteps == <<"ready", "open", "run", "match", "close">>
OpenSteps == <<"ready", "open", "run", "match", "register">>
PlsqlSteps == <<"ready", "open", "run", "match", "commit", "register">>
StatementSteps == <<"writable", "ready", "writable", "pin", "run", "check">>
ManySteps == <<"writable", "ready", "writable", "pin", "check", "run", "check", "run", "check">>
CompositeSteps == <<"writable", "ready", "writable", "pin", "run", "match", "check">>
BlockSteps == <<"writable", "ready", "writable", "pin", "taint", "run", "match", "check">>
ArgumentsSteps == <<"ready", "open", "run", "close">>
CursorSteps == <<"take", "ready", "fetch">>
CloseSteps == <<"ready", "closecall">>

IsOf(f, steps, keeps, dirties) == f.steps = steps /\ f.keeps = keeps /\ f.dirties = dirties

Course(f) ==
    \/ IsOf(f, ExecuteSteps, "statement", FALSE)
    \/ IsOf(f, AdminSteps, "statement", FALSE)
    \/ IsOf(f, ScalarSteps, "nobody", TRUE)
    \/ IsOf(f, OpenSteps, "nobody", TRUE)
    \/ f = OraclePlsql /\ IsOf(f, PlsqlSteps, "statement", TRUE)
    \/ IsOf(f, StatementSteps, "transaction", FALSE)
    \/ IsOf(f, ManySteps, "transaction", FALSE)
    \/ IsOf(f, CompositeSteps, "transaction", FALSE)
    \/ IsOf(f, BlockSteps, "transaction", TRUE)
    \/ IsOf(f, ArgumentsSteps, "nobody", FALSE)
    \/ IsOf(f, CursorSteps, "nobody", FALSE)
    \/ IsOf(f, CloseSteps, "nobody", FALSE)

(* What follows "pin" makes the rest of the course of a function that      *)
(* works in a transaction.                                                 *)
LEMMA AfterPin ==
    ASSUME NEW q \in Seq(StepNames), NEW r \in Seq(StepNames), Len(r) = Len(q) + 4,
           r[1] = "writable", r[2] = "ready", r[3] = "writable", r[4] = "pin",
           \A i \in 1..Len(q) : r[i + 4] = q[i]
    PROVE  <<"writable", "ready", "writable", "pin">> \o q = r
<1> DEFINE p == <<"writable", "ready", "writable", "pin">>
<1>1. /\ p \in Seq(StepNames) /\ Len(p) = 4
      /\ p[1] = "writable" /\ p[2] = "ready" /\ p[3] = "writable" /\ p[4] = "pin"
  BY DEF StepNames
<1> HIDE DEF p
<1>2. /\ p \o q \in Seq(StepNames) /\ Len(p \o q) = Len(p) + Len(q)
      /\ \A i \in 1..Len(p) + Len(q) : (p \o q)[i] = IF i <= Len(p) THEN p[i] ELSE q[i - Len(p)]
  <2>1. p \in Seq(StepNames) /\ q \in Seq(StepNames)
    BY <1>1
  <2> QED
    BY ONLY <2>1, ConcatProperties
<1>3. \A i \in 1..Len(r) : r[i] = (p \o q)[i]
  <2> SUFFICES ASSUME NEW i \in 1..Len(r) PROVE r[i] = (p \o q)[i]
    OBVIOUS
  <2>1. CASE i > 4
    <3>1. i - 4 \in 1..Len(q)
      BY <2>1
    <3>2. r[i] = q[i - 4]
      BY <3>1
    <3> QED
      BY <3>1, <3>2, <1>1, <1>2, <2>1
  <2>2. CASE i \in 1..4
    BY <2>2, <1>1, <1>2
  <2>3. i > 4 \/ i \in 1..4
    OBVIOUS
  <2> QED
    BY <2>1, <2>2, <2>3
<1>4. p \o q = r
  BY <1>1, <1>2, <1>3, SeqEqual
<1> QED
  BY <1>4 DEF p

LEMMA CoursesAfterPin ==
    /\ <<"writable", "ready", "writable", "pin">> \o <<"run", "check">>
         = <<"writable", "ready", "writable", "pin", "run", "check">>
    /\ <<"writable", "ready", "writable", "pin">> \o <<"check", "run", "check", "run", "check">>
         = <<"writable", "ready", "writable", "pin", "check", "run", "check", "run", "check">>
    /\ <<"writable", "ready", "writable", "pin">> \o <<"run", "match", "check">>
         = <<"writable", "ready", "writable", "pin", "run", "match", "check">>
    /\ <<"writable", "ready", "writable", "pin">> \o <<"taint", "run", "match", "check">>
         = <<"writable", "ready", "writable", "pin", "taint", "run", "match", "check">>
<1>1. <<"writable", "ready", "writable", "pin">> \o <<"run", "check">>
       = <<"writable", "ready", "writable", "pin", "run", "check">>
  <2> DEFINE q == <<"run", "check">>
             r == <<"writable", "ready", "writable", "pin", "run", "check">>
  <2>1. q \in Seq(StepNames) /\ Len(q) = 2 /\ q[1] = "run" /\ q[2] = "check"
    BY DEF StepNames
  <2>2. /\ r \in Seq(StepNames) /\ Len(r) = 6
        /\ r[1] = "writable" /\ r[2] = "ready" /\ r[3] = "writable" /\ r[4] = "pin"
        /\ r[5] = "run" /\ r[6] = "check"
    BY DEF StepNames
  <2> HIDE DEF q, r
  <2>3. \A i \in 1..Len(q) : r[i + 4] = q[i]
    BY <2>1, <2>2
  <2>4. Len(r) = Len(q) + 4
    BY <2>1, <2>2
  <2>5. <<"writable", "ready", "writable", "pin">> \o q = r
    BY <2>1, <2>2, <2>3, <2>4, AfterPin
  <2> QED
    BY <2>5 DEF q, r
<1>2. <<"writable", "ready", "writable", "pin">> \o <<"check", "run", "check", "run", "check">>
       = <<"writable", "ready", "writable", "pin", "check", "run", "check", "run", "check">>
  <2> DEFINE q == <<"check", "run", "check", "run", "check">>
             r == <<"writable", "ready", "writable", "pin", "check", "run", "check", "run", "check">>
  <2>1. q \in Seq(StepNames) /\ Len(q) = 5 /\ q[1] = "check" /\ q[2] = "run" /\ q[3] = "check" /\ q[4] = "run" /\ q[5] = "check"
    BY DEF StepNames
  <2>2. /\ r \in Seq(StepNames) /\ Len(r) = 9
        /\ r[1] = "writable" /\ r[2] = "ready" /\ r[3] = "writable" /\ r[4] = "pin"
        /\ r[5] = "check" /\ r[6] = "run" /\ r[7] = "check" /\ r[8] = "run" /\ r[9] = "check"
    BY DEF StepNames
  <2> HIDE DEF q, r
  <2>3. \A i \in 1..Len(q) : r[i + 4] = q[i]
    BY <2>1, <2>2
  <2>4. Len(r) = Len(q) + 4
    BY <2>1, <2>2
  <2>5. <<"writable", "ready", "writable", "pin">> \o q = r
    BY <2>1, <2>2, <2>3, <2>4, AfterPin
  <2> QED
    BY <2>5 DEF q, r
<1>3. <<"writable", "ready", "writable", "pin">> \o <<"run", "match", "check">>
       = <<"writable", "ready", "writable", "pin", "run", "match", "check">>
  <2> DEFINE q == <<"run", "match", "check">>
             r == <<"writable", "ready", "writable", "pin", "run", "match", "check">>
  <2>1. q \in Seq(StepNames) /\ Len(q) = 3 /\ q[1] = "run" /\ q[2] = "match" /\ q[3] = "check"
    BY DEF StepNames
  <2>2. /\ r \in Seq(StepNames) /\ Len(r) = 7
        /\ r[1] = "writable" /\ r[2] = "ready" /\ r[3] = "writable" /\ r[4] = "pin"
        /\ r[5] = "run" /\ r[6] = "match" /\ r[7] = "check"
    BY DEF StepNames
  <2> HIDE DEF q, r
  <2>3. \A i \in 1..Len(q) : r[i + 4] = q[i]
    BY <2>1, <2>2
  <2>4. Len(r) = Len(q) + 4
    BY <2>1, <2>2
  <2>5. <<"writable", "ready", "writable", "pin">> \o q = r
    BY <2>1, <2>2, <2>3, <2>4, AfterPin
  <2> QED
    BY <2>5 DEF q, r
<1>4. <<"writable", "ready", "writable", "pin">> \o <<"taint", "run", "match", "check">>
       = <<"writable", "ready", "writable", "pin", "taint", "run", "match", "check">>
  <2> DEFINE q == <<"taint", "run", "match", "check">>
             r == <<"writable", "ready", "writable", "pin", "taint", "run", "match", "check">>
  <2>1. q \in Seq(StepNames) /\ Len(q) = 4 /\ q[1] = "taint" /\ q[2] = "run" /\ q[3] = "match" /\ q[4] = "check"
    BY DEF StepNames
  <2>2. /\ r \in Seq(StepNames) /\ Len(r) = 8
        /\ r[1] = "writable" /\ r[2] = "ready" /\ r[3] = "writable" /\ r[4] = "pin"
        /\ r[5] = "taint" /\ r[6] = "run" /\ r[7] = "match" /\ r[8] = "check"
    BY DEF StepNames
  <2> HIDE DEF q, r
  <2>3. \A i \in 1..Len(q) : r[i + 4] = q[i]
    BY <2>1, <2>2
  <2>4. Len(r) = Len(q) + 4
    BY <2>1, <2>2
  <2>5. <<"writable", "ready", "writable", "pin">> \o q = r
    BY <2>1, <2>2, <2>3, <2>4, AfterPin
  <2> QED
    BY <2>5 DEF q, r
<1> QED
  BY <1>1, <1>2, <1>3, <1>4

(* Each of the functions takes one of these courses.                       *)
LEMMA Courses == \A f \in Functions : Course(f)
<1> SUFFICES ASSUME NEW f \in Functions PROVE Course(f)
  OBVIOUS
<1> USE DEF Function, Course, IsOf, ExecuteSteps, AdminSteps, ScalarSteps, OpenSteps, PlsqlSteps,
    StatementSteps, ManySteps, CompositeSteps, BlockSteps, ArgumentsSteps, CursorSteps, CloseSteps
<1>1. CASE f \in {OracleExecute, OracleExecuteMany}
  BY <1>1 DEF OracleExecute, OracleExecuteMany, Executes
<1>2. CASE f \in {OracleAdmin}
  BY <1>2 DEF OracleAdmin, Executes
<1>3. CASE f \in {OracleCallNumber, OracleCallNumberArgs, OracleCallOutNumber, OracleCallOutVarchar,
    OracleCallInOutNumber, OracleCallInOutVarchar}
  BY <1>3 DEF OracleCallNumber, OracleCallNumberArgs, OracleCallOutNumber, OracleCallOutVarchar,
     OracleCallInOutNumber, OracleCallInOutVarchar, AnswersScalar
<1>4. CASE f \in {OracleCall, OracleCallImplicit, OracleCallCursors, OracleCallNamedProcedure,
    OracleCallNamedFunction, OracleCallAutoFunction}
  BY <1>4 DEF OracleCall, OracleCallImplicit, OracleCallCursors, OracleCallNamedProcedure,
     OracleCallNamedFunction, OracleCallAutoFunction, Opens
<1>5. CASE f \in {OraclePlsql}
  BY <1>5 DEF OraclePlsql
<1>6. CASE f \in {OracleTransactionExecute, OracleTransactionMany, OracleComposite}
  BY <1>6, CoursesAfterPin DEF OracleTransactionExecute, OracleTransactionMany, OracleComposite,
     InTransaction
<1>7. CASE f \in {OracleTransactionPlsql, OracleTransactionProcedure}
  BY <1>7, CoursesAfterPin DEF OracleTransactionPlsql, OracleTransactionProcedure, InTransaction
<1>8. CASE f \in {OracleArguments, OracleCursor, OracleCloseCall}
  BY <1>8 DEF OracleArguments, OracleCursor, OracleCloseCall, Reads
<1> QED
  BY <1>1, <1>2, <1>3, <1>4, <1>5, <1>6, <1>7, <1>8 DEF Functions

-----------------------------------------------------------------------------
(* What the courses have in common.  `step' and `next' are positions.      *)
Positions(f) == 1..Len(f.steps)

(* Every course has two steps at least.                                    *)
LEMMA CoursesAreLong ==
    \A f \in Functions : Len(f.steps) \in Nat \ {0, 1} /\ DOMAIN f.steps = Positions(f)
<1> SUFFICES ASSUME NEW f \in Functions
             PROVE  Len(f.steps) \in Nat \ {0, 1} /\ DOMAIN f.steps = Positions(f)
  OBVIOUS
<1>1. CASE IsOf(f, ExecuteSteps, "statement", FALSE)
  BY <1>1 DEF ExecuteSteps, IsOf, Positions
<1>2. CASE IsOf(f, AdminSteps, "statement", FALSE)
  BY <1>2 DEF AdminSteps, IsOf, Positions
<1>3. CASE IsOf(f, ScalarSteps, "nobody", TRUE)
  BY <1>3 DEF ScalarSteps, IsOf, Positions
<1>4. CASE IsOf(f, OpenSteps, "nobody", TRUE)
  BY <1>4 DEF OpenSteps, IsOf, Positions
<1>5. CASE f = OraclePlsql /\ f.steps = PlsqlSteps /\ f.keeps = "statement" /\ f.dirties
  BY <1>5 DEF PlsqlSteps, IsOf, Positions
<1>6. CASE IsOf(f, StatementSteps, "transaction", FALSE)
  BY <1>6 DEF StatementSteps, IsOf, Positions
<1>7. CASE IsOf(f, ManySteps, "transaction", FALSE)
  BY <1>7 DEF ManySteps, IsOf, Positions
<1>8. CASE IsOf(f, CompositeSteps, "transaction", FALSE)
  BY <1>8 DEF CompositeSteps, IsOf, Positions
<1>9. CASE IsOf(f, BlockSteps, "transaction", TRUE)
  BY <1>9 DEF BlockSteps, IsOf, Positions
<1>10. CASE IsOf(f, ArgumentsSteps, "nobody", FALSE)
  BY <1>10 DEF ArgumentsSteps, IsOf, Positions
<1>11. CASE IsOf(f, CursorSteps, "nobody", FALSE)
  BY <1>11 DEF CursorSteps, IsOf, Positions
<1>12. CASE IsOf(f, CloseSteps, "nobody", FALSE)
  BY <1>12 DEF CloseSteps, IsOf, Positions
<1> QED
  BY Courses, <1>1, <1>2, <1>3, <1>4, <1>5, <1>6, <1>7, <1>8, <1>9, <1>10, <1>11, <1>12 DEF Course, IsOf

(* What can return a cursor has one statement to run, and what takes one   *)
(* from the registry runs none and registers none.                         *)
LEMMA CursorsComeOnce ==
    ASSUME NEW f \in Functions, NEW i \in Positions(f)
    PROVE  /\ f.steps[i] = "run" =>
                /\ i < Len(f.steps) /\ f.steps[1] # "take"
                /\ \A j \in Positions(f), m \in Positions(f) :
                      f.steps[j] = "run" /\ f.steps[m] = "match" => i = j
           /\ f.steps[i] = "take" => i = 1 /\ Len(f.steps) = 3
           /\ f.steps[i] = "register" => i = Len(f.steps) /\ f.steps[1] # "take"
           /\ f.steps[i] = "closecall" =>
                i = Len(f.steps) /\ \A j \in Positions(f) : f.steps[j] \notin {"take", "run"}
<1>1. CASE IsOf(f, ExecuteSteps, "statement", FALSE)
  BY <1>1 DEF ExecuteSteps, IsOf, Positions
<1>2. CASE IsOf(f, AdminSteps, "statement", FALSE)
  BY <1>2 DEF AdminSteps, IsOf, Positions
<1>3. CASE IsOf(f, ScalarSteps, "nobody", TRUE)
  BY <1>3 DEF ScalarSteps, IsOf, Positions
<1>4. CASE IsOf(f, OpenSteps, "nobody", TRUE)
  BY <1>4 DEF OpenSteps, IsOf, Positions
<1>5. CASE f = OraclePlsql /\ f.steps = PlsqlSteps /\ f.keeps = "statement" /\ f.dirties
  BY <1>5 DEF PlsqlSteps, IsOf, Positions
<1>6. CASE IsOf(f, StatementSteps, "transaction", FALSE)
  BY <1>6 DEF StatementSteps, IsOf, Positions
<1>7. CASE IsOf(f, ManySteps, "transaction", FALSE)
  BY <1>7 DEF ManySteps, IsOf, Positions
<1>8. CASE IsOf(f, CompositeSteps, "transaction", FALSE)
  BY <1>8 DEF CompositeSteps, IsOf, Positions
<1>9. CASE IsOf(f, BlockSteps, "transaction", TRUE)
  BY <1>9 DEF BlockSteps, IsOf, Positions
<1>10. CASE IsOf(f, ArgumentsSteps, "nobody", FALSE)
  BY <1>10 DEF ArgumentsSteps, IsOf, Positions
<1>11. CASE IsOf(f, CursorSteps, "nobody", FALSE)
  BY <1>11 DEF CursorSteps, IsOf, Positions
<1>12. CASE IsOf(f, CloseSteps, "nobody", FALSE)
  BY <1>12 DEF CloseSteps, IsOf, Positions
<1> QED
  BY Courses, <1>1, <1>2, <1>3, <1>4, <1>5, <1>6, <1>7, <1>8, <1>9, <1>10, <1>11, <1>12 DEF Course, IsOf

(* What a function keeps is committed by a step of its own, after which it *)
(* only closes or registers; Oracle commits the DDL of oracle_admin.       *)
LEMMA CommitsAreLate ==
    ASSUME NEW f \in Functions, NEW i \in Positions(f)
    PROVE  /\ f.steps[i] \in {"commit", "ddl"} =>
                /\ f.keeps = "statement" /\ i < Len(f.steps)
                /\ \A j \in Positions(f) : i < j =>
                      \/ f.steps[j] = "close"
                      \/ f.steps[j] = "register" /\ f = OraclePlsql
           /\ f.keeps = "statement" => \E j \in Positions(f) : j < Len(f.steps) /\ f.steps[j] \in {"commit", "ddl"}
           /\ f.steps[i] = "ddl" => i = 5 /\ f.steps[3] = "autocommit" /\ f.steps[2] = "ready" /\ f.steps[4] = "open"
<1>1. CASE IsOf(f, ExecuteSteps, "statement", FALSE)
  BY <1>1 DEF ExecuteSteps, IsOf, Positions
<1>2. CASE IsOf(f, AdminSteps, "statement", FALSE)
  BY <1>2 DEF AdminSteps, IsOf, Positions
<1>3. CASE IsOf(f, ScalarSteps, "nobody", TRUE)
  BY <1>3 DEF ScalarSteps, IsOf, Positions
<1>4. CASE IsOf(f, OpenSteps, "nobody", TRUE)
  BY <1>4 DEF OpenSteps, IsOf, Positions
<1>5. CASE f = OraclePlsql /\ f.steps = PlsqlSteps /\ f.keeps = "statement" /\ f.dirties
  BY <1>5 DEF PlsqlSteps, IsOf, Positions
<1>6. CASE IsOf(f, StatementSteps, "transaction", FALSE)
  BY <1>6 DEF StatementSteps, IsOf, Positions
<1>7. CASE IsOf(f, ManySteps, "transaction", FALSE)
  BY <1>7 DEF ManySteps, IsOf, Positions
<1>8. CASE IsOf(f, CompositeSteps, "transaction", FALSE)
  BY <1>8 DEF CompositeSteps, IsOf, Positions
<1>9. CASE IsOf(f, BlockSteps, "transaction", TRUE)
  BY <1>9 DEF BlockSteps, IsOf, Positions
<1>10. CASE IsOf(f, ArgumentsSteps, "nobody", FALSE)
  BY <1>10 DEF ArgumentsSteps, IsOf, Positions
<1>11. CASE IsOf(f, CursorSteps, "nobody", FALSE)
  BY <1>11 DEF CursorSteps, IsOf, Positions
<1>12. CASE IsOf(f, CloseSteps, "nobody", FALSE)
  BY <1>12 DEF CloseSteps, IsOf, Positions
<1> QED
  BY Courses, <1>1, <1>2, <1>3, <1>4, <1>5, <1>6, <1>7, <1>8, <1>9, <1>10, <1>11, <1>12 DEF Course, IsOf

(* A function that works in the transaction asks twice whether it may,     *)
(* and then pins.                                                          *)
LEMMA PinsAreFourth ==
    ASSUME NEW f \in Functions, NEW i \in Positions(f)
    PROVE  /\ f.keeps \in {"statement", "transaction", "nobody"}
           /\ f.keeps = "transaction" =>
                /\ f.steps[1] = "writable" /\ f.steps[2] = "ready" /\ f.steps[3] = "writable" /\ f.steps[4] = "pin"
                /\ i > 4 => f.steps[i] \in {"taint", "run", "match", "check"}
                /\ f.dirties = TRUE /\ f.steps[i] = "run" => f.steps[5] = "taint" /\ i = 6
           /\ f.keeps # "transaction" => f.steps[i] \notin {"writable", "pin", "taint", "check"}
           /\ f.steps[i] \in {"pin", "taint"} => i < Len(f.steps) 
<1>1. CASE IsOf(f, ExecuteSteps, "statement", FALSE)
  BY <1>1 DEF ExecuteSteps, IsOf, Positions
<1>2. CASE IsOf(f, AdminSteps, "statement", FALSE)
  BY <1>2 DEF AdminSteps, IsOf, Positions
<1>3. CASE IsOf(f, ScalarSteps, "nobody", TRUE)
  BY <1>3 DEF ScalarSteps, IsOf, Positions
<1>4. CASE IsOf(f, OpenSteps, "nobody", TRUE)
  BY <1>4 DEF OpenSteps, IsOf, Positions
<1>5. CASE f = OraclePlsql /\ f.steps = PlsqlSteps /\ f.keeps = "statement" /\ f.dirties
  BY <1>5 DEF PlsqlSteps, IsOf, Positions
<1>6. CASE IsOf(f, StatementSteps, "transaction", FALSE)
  BY <1>6 DEF StatementSteps, IsOf, Positions
<1>7. CASE IsOf(f, ManySteps, "transaction", FALSE)
  BY <1>7 DEF ManySteps, IsOf, Positions
<1>8. CASE IsOf(f, CompositeSteps, "transaction", FALSE)
  BY <1>8 DEF CompositeSteps, IsOf, Positions
<1>9. CASE IsOf(f, BlockSteps, "transaction", TRUE)
  BY <1>9 DEF BlockSteps, IsOf, Positions
<1>10. CASE IsOf(f, ArgumentsSteps, "nobody", FALSE)
  BY <1>10 DEF ArgumentsSteps, IsOf, Positions
<1>11. CASE IsOf(f, CursorSteps, "nobody", FALSE)
  BY <1>11 DEF CursorSteps, IsOf, Positions
<1>12. CASE IsOf(f, CloseSteps, "nobody", FALSE)
  BY <1>12 DEF CloseSteps, IsOf, Positions
<1> QED
  BY Courses, <1>1, <1>2, <1>3, <1>4, <1>5, <1>6, <1>7, <1>8, <1>9, <1>10, <1>11, <1>12 DEF Course, IsOf

LEMMA CountsAreNatural == \A f \in Functions : f.asked \subseteq Nat
<1> SUFFICES ASSUME NEW f \in Functions PROVE f.asked \subseteq Nat
  OBVIOUS
<1>0. MaximumReturned \in Nat
  BY CallsAssumption
<1>1. CASE f \in {OracleExecute, OracleExecuteMany}
  BY <1>0, <1>1 DEF OracleExecute, OracleExecuteMany, Executes, Function
<1>2. CASE f \in {OracleAdmin}
  BY <1>0, <1>2 DEF OracleAdmin, Executes, Function
<1>3. CASE f \in {OracleCallNumber, OracleCallNumberArgs, OracleCallOutNumber, OracleCallOutVarchar,
    OracleCallInOutNumber, OracleCallInOutVarchar}
  BY <1>0, <1>3 DEF OracleCallNumber, OracleCallNumberArgs, OracleCallOutNumber, OracleCallOutVarchar,
     OracleCallInOutNumber, OracleCallInOutVarchar, AnswersScalar, Function
<1>4. CASE f \in {OracleCall, OracleCallImplicit, OracleCallCursors, OracleCallNamedProcedure,
    OracleCallNamedFunction, OracleCallAutoFunction}
  BY <1>0, <1>4 DEF OracleCall, OracleCallImplicit, OracleCallCursors, OracleCallNamedProcedure,
     OracleCallNamedFunction, OracleCallAutoFunction, Opens, Function
<1>5. CASE f \in {OraclePlsql}
  BY <1>0, <1>5 DEF OraclePlsql, Function
<1>6. CASE f \in {OracleTransactionExecute, OracleTransactionMany, OracleComposite,
    OracleTransactionPlsql, OracleTransactionProcedure}
  BY <1>0, <1>6 DEF OracleTransactionExecute, OracleTransactionMany, OracleComposite,
     OracleTransactionPlsql, OracleTransactionProcedure, InTransaction, Function
<1>7. CASE f \in {OracleArguments, OracleCursor, OracleCloseCall}
  BY <1>0, <1>7 DEF OracleArguments, OracleCursor, OracleCloseCall, Reads, Function
<1> QED
  BY <1>1, <1>2, <1>3, <1>4, <1>5, <1>6, <1>7 DEF Functions

LEMMA TracesAreKnown == \A f \in Functions : f.dirties \in BOOLEAN
  BY Courses DEF Course, IsOf

-----------------------------------------------------------------------------
(* The types, and where each cursor is.                                    *)
Answers == {"none", "running", "success", "failed", "dropped"}
Works == {"none", "pending", "kept", "undone"}
Counts == 0..MaximumReturned
Cursors == Statements \X (1..MaximumReturned)

Use ==
    [function : Functions, asked : Nat, at : Nat, answer : Answers, owned : SUBSET Cursors,
     returned : Counts \X Counts, work : Works, transaction : Nat, inside : BOOLEAN]

Used ==
    /\ statement \in [Statements -> Use]
    /\ \A s \in Statements : statement[s].at \in Positions(statement[s].function)
    /\ opened \subseteq Cursors

Typed ==
    /\ Used /\ program \in Programs /\ next_call_id \in 0..MaximumCallId
    /\ explicit \in BOOLEAN /\ failed \in BOOLEAN /\ transaction \in Nat \ {0}
    /\ pinned \in [held : BOOLEAN, tainted : BOOLEAN, dirty : BOOLEAN]

(* The handle <<id, k>> of the registry holds a cursor.                    *)
Holds(id, k) == id \in DOMAIN calls /\ k \in DOMAIN calls[id]
Registered(c) == \E id \in DOMAIN calls : \E k \in DOMAIN calls[id] : calls[id][k] = c
OwnedBy(c, s) == c \in statement[s].owned
Handles == UNION {{<<id, k>> : k \in DOMAIN calls[id]} : id \in DOMAIN calls}

RegistryTyped ==
    /\ \A id \in DOMAIN calls : id \in 1..MaximumCallId /\ DOMAIN calls[id] # {}
    /\ \A id, k : Holds(id, k) => k \in 1..MaximumReturned /\ calls[id][k] \in Cursors

OneHand ==
    /\ \A c \in Cursors : c \in opened <=> Registered(c) \/ \E s \in Statements : OwnedBy(c, s)
    /\ \A s, t \in Statements : \A c \in Cursors : OwnedBy(c, s) /\ OwnedBy(c, t) => s = t
    /\ \A s \in Statements : \A c \in Cursors : OwnedBy(c, s) => ~Registered(c)
    /\ \A id, jd, k, m : Holds(id, k) /\ Holds(jd, m) /\ calls[id][k] = calls[jd][m] => id = jd /\ k = m

(* While a function runs it owns all its open cursors, so nothing it did   *)
(* not receive yet is open, and what is registered is of one that ended.   *)
Ended ==
    \A c \in opened : /\ statement[c[1]].answer # "none"
                      /\ Running(c[1]) => OwnedBy(c, c[1])

(* One call registers once.                                                *)
Apart ==
    \A id, jd, k, m : Holds(id, k) /\ Holds(jd, m) /\ calls[id][k][1] = calls[jd][m][1] => id = jd

Received(s, u) == {<<s, k>> : k \in 1..(u.returned[1] + u.returned[2])}

(* A function owns what it received, from its statement or the registry,   *)
(* from then on and until it ends.                                         *)
Receives(steps, i) == steps[i] = "take" \/ (steps[i] = "run" /\ \E m \in DOMAIN steps : steps[m] = "match")

Numbered ==
    \A s \in Statements : LET u == statement[s] IN
        /\ Steps(s)[1] # "take" => u.owned = Received(s, u)
        /\ u.returned[1] + u.returned[2] <= MaximumReturned
        /\ u.owned # {} => Running(s) /\ \E i \in 1..(u.at - 1) : Receives(Steps(s), i)
        /\ u.answer = "none" => u.at = 1 /\ u.returned = <<0, 0>>

Counted == open_cursor_count = Cardinality(Handles) /\ open_cursor_count <= MaximumOpenCursors

Hands == Used /\ RegistryTyped /\ OneHand /\ Ended /\ Apart /\ Numbered /\ Counted

-----------------------------------------------------------------------------
(* What the end of a function, and a step of it, does to the statements.   *)
Alike(u, v) ==
    /\ v.function = u.function /\ v.at = u.at /\ v.answer = u.answer /\ v.owned = u.owned
    /\ v.returned = u.returned

Same(u, v) == Alike(u, v) /\ v.transaction = u.transaction /\ v.inside = u.inside

(* Work is settled when nothing keeps its session open.                    *)
Settles(u, v, s) ==
    /\ \/ v.work = u.work
       \/ u.work = "pending" /\ v.work = "undone" /\ v.answer # "running" /\ u.function.keeps # "transaction"
    /\ v.work = "pending" /\ v.function.keeps # "transaction" =>
         v.answer = "running" \/ \E c \in opened' : c[1] = s

(* Settled keeps the types.                                                *)
LEMMA SettledTyped ==
    ASSUME NEW all \in [Statements -> Use]
    PROVE  Settled(all, opened') \in [Statements -> Use]
  BY DEF Settled, Use, Works

LEMMA SettledIs ==
    ASSUME NEW all \in [Statements -> Use], NEW s \in Statements
    PROVE  LET v == Settled(all, opened')[s] IN
           /\ Settled(all, opened') \in [Statements -> Use]
           /\ Same(all[s], v) /\ Settles(all[s], v, s) /\ v.asked = all[s].asked
  BY DEF Settled, Use, Works, Same, Alike, Settles

(* What the end of a use leaves of it, and that it leaves the other uses   *)
(* alone.                                                                  *)
LEMMA EndsIs ==
    ASSUME NEW all \in [Statements -> Use], NEW s \in Statements, NEW answer \in Answers,
           Ends(s, all, answer)
    PROVE  /\ statement' \in [Statements -> Use]
           /\ opened' = opened \ all[s].owned
           /\ LET u == all[s]  v == statement'[s] IN
                /\ v.function = u.function /\ v.at = u.at /\ v.answer = answer /\ v.owned = {}
                /\ v.returned = <<0, 0>> /\ v.transaction = u.transaction /\ v.inside = u.inside
           /\ \A t \in Statements \ {s} : Same(all[t], statement'[t])
           /\ \A t \in Statements : Settles(all[t], statement'[t], t)
<1> DEFINE over == [all EXCEPT ![s] = [@ EXCEPT !.answer = answer, !.owned = {}, !.asked = 0,
                                                !.returned = <<0, 0>>]]
<1>1. statement' = Settled(over, opened') /\ opened' = opened \ all[s].owned
  BY DEF Ends
<1>2. 0 \in Counts
  BY CallsAssumption DEF Counts
<1>3. over \in [Statements -> Use]
  <2> DEFINE end == [all[s] EXCEPT !.answer = answer, !.owned = {}, !.asked = 0, !.returned = <<0, 0>>]
  <2>1. end \in Use
    BY <1>2 DEF Use
  <2>2. over = [all EXCEPT ![s] = end]
    OBVIOUS
  <2> HIDE DEF end
  <2> QED
    BY <2>1, <2>2
<1>4. /\ \A t \in Statements \ {s} : over[t] = all[t]
      /\ over[s].function = all[s].function /\ over[s].at = all[s].at /\ over[s].answer = answer /\ over[s].owned = {}
      /\ over[s].returned = <<0, 0>> /\ over[s].transaction = all[s].transaction /\ over[s].inside = all[s].inside
      /\ over[s].work = all[s].work
  BY DEF Use
<1> HIDE DEF over
<1>5. \A t \in Statements : Same(over[t], statement'[t]) /\ Settles(over[t], statement'[t], t)
  BY <1>1, <1>3, SettledIs
<1>6. statement' \in [Statements -> Use]
  BY <1>1, <1>3, SettledIs
<1>7. \A t \in Statements : Settles(all[t], statement'[t], t)
  BY <1>4, <1>5 DEF Settles
<1>8. \A t \in Statements \ {s} : Same(all[t], statement'[t])
  BY <1>4, <1>5
<1>9. opened' = opened \ all[s].owned
  BY <1>1
<1>10. Same(over[s], statement'[s])
  BY <1>5
<1> QED
  BY <1>4, <1>6, <1>7, <1>8, <1>9, <1>10 DEF Same, Alike

(* The next step of its course, or its end in success.                     *)
LEMMA GoesIs ==
    ASSUME NEW all \in [Statements -> Use], NEW s \in Statements, Goes(s, all),
           all[s].function = statement[s].function, all[s].at \in Positions(all[s].function)
    PROVE  \/ /\ all[s].at < Len(Steps(s)) /\ opened' = opened
              /\ statement' = [all EXCEPT ![s].at = @ + 1]
              /\ statement' \in [Statements -> Use]
              /\ statement'[s].at \in Positions(statement'[s].function)
              /\ LET u == all[s]  v == statement'[s] IN
                    /\ v.function = u.function /\ v.at = u.at + 1 /\ v.answer = u.answer /\ v.owned = u.owned
                    /\ v.returned = u.returned /\ v.transaction = u.transaction /\ v.inside = u.inside
                    /\ v.work = u.work
              /\ \A t \in Statements \ {s} : statement'[t] = all[t]
           \/ /\ all[s].at = Len(Steps(s))
              /\ Ends(s, all, "success")
<1>1. all[s].function \in Functions /\ all[s].at \in Nat
  BY DEF Use
<1>2. Len(Steps(s)) \in Nat
  BY <1>1, CoursesAreLong DEF Steps
<1>3. CASE all[s].at = Len(Steps(s))
  BY <1>3 DEF Goes
<1>4. CASE all[s].at # Len(Steps(s))
  <2>1. all[s].at < Len(Steps(s))
    BY <1>1, <1>2, <1>4 DEF Positions, Steps
  <2>2. statement' = [all EXCEPT ![s].at = @ + 1] /\ opened' = opened
    BY <1>4 DEF Goes
  <2>3. statement' \in [Statements -> Use]
    BY <2>2, <1>1 DEF Use
  <2>4. LET u == all[s]  v == statement'[s] IN
                    /\ v.function = u.function /\ v.at = u.at + 1 /\ v.answer = u.answer /\ v.owned = u.owned
                    /\ v.returned = u.returned /\ v.transaction = u.transaction /\ v.inside = u.inside
                    /\ v.work = u.work
    BY <2>2 DEF Use
  <2>5. \A t \in Statements \ {s} : statement'[t] = all[t]
    BY <2>2
  <2>6. statement'[s].at \in Positions(statement'[s].function)
    BY <2>1, <2>4, <1>1, <1>2 DEF Positions, Steps
  <2> QED
    BY <2>1, <2>2, <2>3, <2>4, <2>5, <2>6
<1> QED
  BY <1>3, <1>4

-----------------------------------------------------------------------------
(* Most steps only carry a function on, or end it; the registry keeps.     *)
Done == {"success", "failed", "dropped"}

Carries(s) ==
    \E all \in [Statements -> Use] :
        /\ \A t \in Statements : Alike(statement[t], all[t])
        /\ Goes(s, all) \/ \E answer \in Done : Ends(s, all, answer)

(* A use that ends gives all its cursors back.                             *)
LEMMA EndsKeepHands ==
    ASSUME Hands, NEW s \in Statements, Running(s), UNCHANGED registryVars,
           NEW all \in [Statements -> Use], \A t \in Statements : Alike(statement[t], all[t]),
           NEW answer \in Done, Ends(s, all, answer)
    PROVE  Hands'
<1>1. /\ statement' \in [Statements -> Use]
      /\ opened' = opened \ statement[s].owned
      /\ \A t \in Statements \ {s} : Alike(statement[t], statement'[t])
  <2>1. answer \in Answers
    BY DEF Done, Answers
  <2>2. statement' \in [Statements -> Use] /\ opened' = opened \ all[s].owned
    BY <2>1, EndsIs
  <2>3. \A t \in Statements \ {s} : Same(all[t], statement'[t])
    BY <2>1, EndsIs
  <2> QED
    BY <2>2, <2>3 DEF Alike, Same
<1>2. LET u == statement[s]  v == statement'[s] IN
        /\ v.function = u.function /\ v.at = u.at /\ v.answer \in Done /\ v.owned = {} /\ v.returned = <<0, 0>>
  <2>1. answer \in Answers
    BY DEF Done, Answers
  <2>2. LET u == all[s]  v == statement'[s] IN
        /\ v.function = u.function /\ v.at = u.at /\ v.answer = answer /\ v.owned = {} /\ v.returned = <<0, 0>>
    BY <2>1, EndsIs
  <2> QED
    BY <2>2 DEF Alike
<1>3. \A t \in Statements : /\ statement'[t].function = statement[t].function
                            /\ statement'[t].at = statement[t].at
                            /\ statement'[t].owned = IF t = s THEN {} ELSE statement[t].owned
  BY <1>1, <1>2 DEF Alike
<1>4. \A c, t : t \in Statements => (OwnedBy(c, t)' <=> OwnedBy(c, t) /\ t # s)
  BY <1>3 DEF OwnedBy
<1>5. \A c, id, k : (Registered(c)' <=> Registered(c)) /\ (Holds(id, k)' <=> Holds(id, k))
  BY DEF Registered, Holds, registryVars
<1>6. Used'
  BY <1>1, <1>3 DEF Hands, Used
<1>7. RegistryTyped' /\ Apart' /\ Counted'
  BY DEF Hands, RegistryTyped, Apart, Counted, Holds, Handles, registryVars
<1>8. OneHand'
  <2>1. \A c \in Cursors : (c \in opened)' <=> Registered(c)' \/ \E t \in Statements : OwnedBy(c, t)'
    <3> SUFFICES ASSUME NEW c \in Cursors
                 PROVE  (c \in opened)' <=> Registered(c)' \/ \E t \in Statements : OwnedBy(c, t)'
      OBVIOUS
    <3>1. c \in opened' <=> c \in opened /\ ~OwnedBy(c, s)
      BY <1>1 DEF OwnedBy
    <3>2. c \in opened <=> Registered(c) \/ \E t \in Statements : OwnedBy(c, t)
      BY DEF Hands, OneHand
    <3>3. OwnedBy(c, s) => ~Registered(c) /\ \A t \in Statements : OwnedBy(c, t) => t = s
      BY DEF Hands, OneHand
    <3> QED
      BY <3>1, <3>2, <3>3, <1>4, <1>5
  <2>2. \A t, r \in Statements : \A c \in Cursors : OwnedBy(c, t)' /\ OwnedBy(c, r)' => t = r
    BY <1>4 DEF Hands, OneHand
  <2>3. \A t \in Statements : \A c \in Cursors : OwnedBy(c, t)' => ~Registered(c)'
    BY <1>4, <1>5 DEF Hands, OneHand
  <2>4. (\A id, jd, k, m : Holds(id, k) /\ Holds(jd, m) /\ calls[id][k] = calls[jd][m] => id = jd /\ k = m)'
    BY <1>5 DEF Hands, OneHand, registryVars
  <2> QED
    BY <2>1, <2>2, <2>3, <2>4 DEF OneHand
<1>9. Ended'
  <2> SUFFICES ASSUME NEW c \in opened'
               PROVE  statement'[c[1]].answer # "none" /\ (Running(c[1])' => OwnedBy(c, c[1])')
    BY DEF Ended
  <2>1. c \in opened /\ c[1] \in Statements /\ statement[c[1]].answer # "none" /\ (Running(c[1]) => OwnedBy(c, c[1]))
    BY <1>1 DEF Hands, Used, Cursors, Ended
  <2>2. CASE c[1] = s
    BY <2>2, <1>2 DEF Done, Running
  <2>3. CASE c[1] # s
    BY <2>1, <2>3, <1>1, <1>4 DEF Running, Alike
  <2> QED
    BY <2>2, <2>3
<1>10. Numbered'
  <2> SUFFICES ASSUME NEW t \in Statements
               PROVE  LET u == statement'[t] IN
                        /\ u.function.steps[1] # "take" => u.owned = Received(t, u)
                        /\ u.returned[1] + u.returned[2] <= MaximumReturned
                        /\ u.owned # {} => Running(t)' /\ \E i \in 1..(u.at - 1) : Receives(u.function.steps, i)
                        /\ u.answer = "none" => u.at = 1 /\ u.returned = <<0, 0>>
    BY DEF Numbered, Steps
  <2>1. CASE t = s
    <3>1. Received(s, statement'[s]) = {}
      BY <1>2 DEF Received
    <3>2. 0 + 0 <= MaximumReturned
      BY CallsAssumption
    <3> QED
      BY <2>1, <3>1, <3>2, <1>2 DEF Done
  <2>2. CASE t # s
    BY <2>2, <1>1 DEF Alike, Hands, Numbered, Steps, Received, Running
  <2> QED
    BY <2>1, <2>2
<1> QED
  BY <1>6, <1>7, <1>8, <1>9, <1>10 DEF Hands

(* The steps that touch no cursor.                                         *)
LEMMA StepsKeepHands ==
    ASSUME Hands, NEW s \in Statements, Running(s), UNCHANGED registryVars,
           statement' \in [Statements -> Use], opened' = opened,
           statement'[s].at \in Positions(statement'[s].function),
           LET u == statement[s]  v == statement'[s] IN
             /\ v.function = u.function /\ v.at = u.at + 1 /\ v.answer = u.answer /\ v.owned = u.owned
             /\ v.returned = u.returned,
           \A t \in Statements \ {s} : Alike(statement[t], statement'[t])
    PROVE  Hands'
<1>1. \A t \in Statements : /\ statement'[t].function = statement[t].function
                            /\ statement'[t].owned = statement[t].owned /\ statement'[t].answer = statement[t].answer
                            /\ statement'[t].returned = statement[t].returned
  BY DEF Alike
<1>2. \A t \in Statements \ {s} : statement'[t].at = statement[t].at
  BY DEF Alike
<1>3. \A c, t : t \in Statements => (OwnedBy(c, t)' <=> OwnedBy(c, t))
  BY <1>1 DEF OwnedBy
<1>4. \A c, id, k : (Registered(c)' <=> Registered(c)) /\ (Holds(id, k)' <=> Holds(id, k))
  BY DEF Registered, Holds, registryVars
<1>5. Used'
  BY <1>1, <1>2 DEF Hands, Used
<1>6. RegistryTyped' /\ Apart' /\ Counted'
  BY DEF Hands, RegistryTyped, Apart, Counted, Holds, Handles, registryVars
<1>7. OneHand'
  BY <1>3, <1>4 DEF Hands, OneHand, registryVars
<1>8. Ended'
  BY <1>1, <1>3 DEF Hands, Used, Cursors, Ended, Running
<1>9. Numbered'
  <2> SUFFICES ASSUME NEW t \in Statements
               PROVE  LET u == statement'[t] IN
                        /\ u.function.steps[1] # "take" => u.owned = Received(t, u)
                        /\ u.returned[1] + u.returned[2] <= MaximumReturned
                        /\ u.owned # {} => Running(t)' /\ \E i \in 1..(u.at - 1) : Receives(u.function.steps, i)
                        /\ u.answer = "none" => u.at = 1 /\ u.returned = <<0, 0>>
    BY DEF Numbered, Steps
  <2>1. LET u == statement[t] IN
                        /\ u.function.steps[1] # "take" => u.owned = Received(t, u)
                        /\ u.returned[1] + u.returned[2] <= MaximumReturned
                        /\ u.owned # {} => Running(t) /\ \E i \in 1..(u.at - 1) : Receives(u.function.steps, i)
                        /\ u.answer = "none" => u.at = 1 /\ u.returned = <<0, 0>>
    BY DEF Hands, Numbered, Steps
  <2>2. statement[t].at \in Nat /\ statement'[t].at \in {statement[t].at, statement[t].at + 1}
    BY <1>2 DEF Hands, Used, Use
  <2>3. 1..(statement[t].at - 1) \subseteq 1..(statement'[t].at - 1)
    BY <2>2
  <2>4. statement'[t].answer = "none" => t # s
    BY <1>1 DEF Running
  <2> QED
    BY <1>1, <1>2, <2>1, <2>3, <2>4 DEF Received, Running
<1> QED
  BY <1>5, <1>6, <1>7, <1>8, <1>9 DEF Hands

LEMMA CarryingKeepsHands ==
    ASSUME Hands, NEW s \in Statements, Running(s), UNCHANGED registryVars, Carries(s)
    PROVE  Hands'
<1> PICK all \in [Statements -> Use] :
           /\ \A t \in Statements : Alike(statement[t], all[t])
           /\ Goes(s, all) \/ \E answer \in Done : Ends(s, all, answer)
  BY DEF Carries
<1>1. CASE \E answer \in Done : Ends(s, all, answer)
  BY <1>1, EndsKeepHands
<1>2. CASE Goes(s, all)
  <2>1. all[s].function = statement[s].function /\ all[s].at \in Positions(all[s].function)
    BY DEF Alike, Hands, Used
  <2>2. CASE Ends(s, all, "success")
    BY <2>2, EndsKeepHands DEF Done
  <2>3. CASE /\ all[s].at < Len(Steps(s)) /\ opened' = opened
             /\ statement' = [all EXCEPT ![s].at = @ + 1]
             /\ statement' \in [Statements -> Use]
             /\ statement'[s].at \in Positions(statement'[s].function)
             /\ LET u == all[s]  v == statement'[s] IN
                    /\ v.function = u.function /\ v.at = u.at + 1 /\ v.answer = u.answer /\ v.owned = u.owned
                    /\ v.returned = u.returned /\ v.transaction = u.transaction /\ v.inside = u.inside
                    /\ v.work = u.work
             /\ \A t \in Statements \ {s} : statement'[t] = all[t]
    <3>1. \A t \in Statements \ {s} : Alike(statement[t], statement'[t])
      BY <2>3
    <3>2. LET u == statement[s]  v == statement'[s] IN
             /\ v.function = u.function /\ v.at = u.at + 1 /\ v.answer = u.answer /\ v.owned = u.owned
             /\ v.returned = u.returned
      BY <2>3 DEF Alike
    <3> QED
      BY <2>3, <3>1, <3>2, StepsKeepHands
  <2> QED
    BY <1>2, <2>1, <2>2, <2>3, GoesIs
<1> QED
  BY <1>1, <1>2

-----------------------------------------------------------------------------
(* Numbers that wrap, and the least of some numbers.                       *)
LEMMA Wrapped ==
    ASSUME NEW d \in Nat \ {0}, NEW n \in 0..(d - 1)
    PROVE  n % d = n /\ (n + d) % d = n
<1>1. n % d = n
  <2>1. n \div d \in Int /\ n % d \in 0..(d - 1) /\ n = d * (n \div d) + (n % d)
    BY Z3
  <2> DEFINE q == n \div d   r == n % d
  <2> HIDE DEF q, r
  <2>2. q \in Int /\ r \in 0..(d - 1) /\ n = d * q + r
    BY <2>1 DEF q, r
  <2>3. q < 1
    <3> SUFFICES ASSUME q >= 1 PROVE FALSE
      BY <2>2
    <3>1. d * q >= d
      BY <2>2, Z3
    <3> QED
      BY <2>2, <3>1, Z3
  <2>4. q > -1
    <3> SUFFICES ASSUME q <= -1 PROVE FALSE
      BY <2>2
    <3>1. d * q <= -d
      BY <2>2, Z3
    <3> QED
      BY <2>2, <3>1, Z3
  <2>5. q = 0
    BY <2>2, <2>3, <2>4
  <2> QED
    BY <2>2, <2>5, Z3 DEF r
<1>2. (n + d) % d = n
  BY <1>1, Z3
<1> QED
  BY <1>1, <1>2

(* The least of a set of numbers is one of them.                           *)
LEMMA LeastOf ==
    ASSUME NEW S \in SUBSET Nat, S # {}
    PROVE  Min(S) \in S
<1> DEFINE R == {ss \in Nat \X Nat : ss[1] < ss[2]}
<1>1. OpToRel(<, Nat) = R
  BY DEF OpToRel
<1> HIDE DEF R
<1>2. IsWellFoundedOn(R, Nat)
  BY <1>1, NatLessThanWellFounded, Zenon
<1>3. PICK x \in S : \A y \in S : ~(<<y, x>> \in R)
  BY <1>2, WFMin
<1>4. ASSUME NEW y \in S PROVE x <= y
  <2>1. x \in Nat /\ y \in Nat /\ <<y, x>> \notin R
    BY <1>3
  <2>2. <<y, x>> \in Nat \X Nat /\ <<y, x>>[1] = y /\ <<y, x>>[2] = x
    BY <2>1
  <2>3. ~(y < x)
    BY <2>1, <2>2, Zenon DEF R
  <2> QED
    BY <2>1, <2>3
<1> QED
  BY <1>4 DEF Min

(* Pairs that share their first member are as many as their second ones.   *)
LEMMA Tagged ==
    ASSUME NEW x, NEW K, IsFiniteSet(K)
    PROVE  LET pairs == {<<x, k>> : k \in K} IN IsFiniteSet(pairs) /\ Cardinality(pairs) = Cardinality(K)
<1> DEFINE pairs == {<<x, k>> : k \in K}
           f == [k \in K |-> <<x, k>>]
<1>1. f \in Bijection(K, pairs)
  BY DEF Bijection, Injection, Surjection, IsInjective
<1>2. ExistsBijection(K, pairs)
  BY <1>1 DEF ExistsBijection
<1> QED
  BY <1>2, FS_Bijection

(* The next id is free: each call is of another statement, of which there  *)
(* are fewer than ids.                                                     *)
LEMMA FreshIsFree ==
    ASSUME Hands, next_call_id \in 0..MaximumCallId
    PROVE  FreshCallId \in 1..MaximumCallId /\ FreshCallId \notin DOMAIN calls
<1> DEFINE d == MaximumCallId + 1
           id(i) == (next_call_id + i) % d
           free == {i \in 0..MaximumCallId : id(i) # 0 /\ id(i) \notin DOMAIN calls}
           of == [j \in DOMAIN calls |-> calls[j][CHOOSE k \in DOMAIN calls[j] : TRUE][1]]
<1>1. MaximumCallId \in Nat /\ IsFiniteSet(Statements) /\ Cardinality(Statements) < MaximumCallId
  BY CallsAssumption
<1>2. d \in Nat \ {0}
  BY <1>1
<1>3. \A j \in DOMAIN calls : Holds(j, CHOOSE k \in DOMAIN calls[j] : TRUE)
  BY DEF Hands, RegistryTyped, Holds
<1>4. of \in [DOMAIN calls -> Statements]
  BY <1>3 DEF Hands, RegistryTyped, Cursors
<1>5. of \in Injection(DOMAIN calls, Statements)
  <2>1. ASSUME NEW i \in DOMAIN calls, NEW j \in DOMAIN calls, of[i] = of[j] PROVE i = j
    BY <2>1, <1>3 DEF Hands, Apart
  <2> QED
    BY <1>4, <2>1 DEF Injection, IsInjective
<1>6. IsFiniteSet(DOMAIN calls) /\ Cardinality(DOMAIN calls) <= Cardinality(Statements)
  <2> HIDE DEF of
  <2> QED
    BY <1>1, <1>5, FS_Injection
<1>7. PICK x \in 1..MaximumCallId : x \notin DOMAIN calls
  <2> SUFFICES ASSUME 1..MaximumCallId \subseteq DOMAIN calls PROVE FALSE
    OBVIOUS
  <2>1. Cardinality(1..MaximumCallId) <= Cardinality(DOMAIN calls)
    BY <1>6, FS_Subset
  <2>2. Cardinality(1..MaximumCallId) = MaximumCallId
    BY <1>1, FS_Interval
  <2>3. Cardinality(DOMAIN calls) \in Nat /\ Cardinality(Statements) \in Nat
    BY <1>1, <1>6, FS_CardinalityType
  <2> QED
    BY <1>1, <1>6, <2>1, <2>2, <2>3
<1>8. \E i \in 0..MaximumCallId : id(i) = x
  <2>1. x % d = x /\ (x + d) % d = x
    BY <1>1, <1>2, Wrapped
  <2>2. CASE x >= next_call_id
    <3>1. x - next_call_id \in 0..MaximumCallId /\ next_call_id + (x - next_call_id) = x
      BY <1>1, <2>2
    <3> QED
      BY <2>1, <3>1
  <2>3. CASE x < next_call_id
    <3>1. x - next_call_id + d \in 0..MaximumCallId /\ next_call_id + (x - next_call_id + d) = x + d
      BY <1>1, <2>3
    <3> QED
      BY <2>1, <3>1
  <2> QED
    BY <2>2, <2>3
<1>9. free # {} /\ free \in SUBSET Nat
  BY <1>7, <1>8
<1>10. Min(free) \in free
  <2> HIDE DEF free
  <2> QED
    BY <1>9, LeastOf
<1>11. FreshCallId = id(Min(free))
  BY DEF FreshCallId
<1>12. id(Min(free)) \in 0..(d - 1)
  <2>1. next_call_id + Min(free) \in Int
    BY <1>1, <1>10
  <2> HIDE DEF d, free
  <2> QED
    BY <1>2, <2>1, Z3
<1> QED
  BY <1>1, <1>10, <1>11, <1>12

(* The registry's handles can be counted.                                  *)
LEMMA HandlesAreFinite ==
    ASSUME RegistryTyped
    PROVE  IsFiniteSet(Handles)
<1>1. IsFiniteSet(1..MaximumCallId) /\ IsFiniteSet(1..MaximumReturned)
  BY CallsAssumption, FS_Interval
<1>2. IsFiniteSet((1..MaximumCallId) \X (1..MaximumReturned))
  BY <1>1, FS_Product
<1>3. Handles \in SUBSET ((1..MaximumCallId) \X (1..MaximumReturned))
  BY DEF RegistryTyped, Handles, Holds
<1> QED
  BY <1>2, <1>3, FS_Subset

-----------------------------------------------------------------------------
(* Steps that leave alone everything the hands are made of.                *)
LEMMA AlikeKeepsHands ==
    ASSUME Hands, UNCHANGED registryVars, opened' = opened, statement' \in [Statements -> Use],
           \A t \in Statements : Alike(statement[t], statement'[t])
    PROVE  Hands'
<1>1. \A t \in Statements : /\ statement'[t].function = statement[t].function /\ statement'[t].at = statement[t].at
                            /\ statement'[t].owned = statement[t].owned /\ statement'[t].answer = statement[t].answer
                            /\ statement'[t].returned = statement[t].returned
  BY DEF Alike
<1>2. \A c, t : t \in Statements => (OwnedBy(c, t)' <=> OwnedBy(c, t))
  BY <1>1 DEF OwnedBy
<1>3. \A c, id, k : (Registered(c)' <=> Registered(c)) /\ (Holds(id, k)' <=> Holds(id, k))
  BY DEF Registered, Holds, registryVars
<1>4. Used'
  BY <1>1 DEF Hands, Used
<1>5. RegistryTyped' /\ Apart' /\ Counted'
  BY DEF Hands, RegistryTyped, Apart, Counted, Holds, Handles, registryVars
<1>6. OneHand'
  BY <1>2, <1>3 DEF Hands, OneHand, registryVars
<1>7. Ended'
  BY <1>1, <1>2 DEF Hands, Used, Cursors, Ended, Running
<1>8. Numbered'
  BY <1>1 DEF Hands, Numbered, Steps, Received, Running
<1> QED
  BY <1>4, <1>5, <1>6, <1>7, <1>8 DEF Hands

(* Binding begins a use that owns nothing.                                 *)
LEMMA BindingKeepsHands ==
    ASSUME Hands, NEW s \in Statements, NEW function \in Functions, NEW asked \in function.asked,
           BindFunction(s, function, asked)
    PROVE  Hands'
<1>1. asked \in Nat
  BY CountsAreNatural
<1>2. /\ statement' = [statement EXCEPT ![s] = [@ EXCEPT !.function = function, !.asked = asked, !.answer = "running"]]
      /\ statement[s].answer = "none" /\ opened' = opened /\ UNCHANGED registryVars
  BY DEF BindFunction
<1>3. statement' \in [Statements -> Use]
  <2>1. statement[s] \in Use /\ statement \in [Statements -> Use] /\ "running" \in Answers
    BY DEF Hands, Used, Answers
  <2>2. [statement[s] EXCEPT !.function = function, !.asked = asked, !.answer = "running"] \in Use
    BY <1>1, <2>1 DEF Use
  <2> QED
    BY <1>2, <2>1, <2>2
<1>4. /\ statement'[s].function = function /\ statement'[s].at = 1 /\ statement'[s].answer = "running"
      /\ statement'[s].owned = statement[s].owned /\ statement'[s].returned = <<0, 0>>
      /\ \A t \in Statements \ {s} : statement'[t] = statement[t]
  BY <1>2 DEF Hands, Used, Use, Numbered
<1>5. statement[s].owned = {}
  BY <1>2 DEF Hands, Numbered, Running
<1>6. \A c, t : t \in Statements => (OwnedBy(c, t)' <=> OwnedBy(c, t))
  BY <1>4 DEF OwnedBy
<1>7. \A c, id, k : (Registered(c)' <=> Registered(c)) /\ (Holds(id, k)' <=> Holds(id, k))
  BY <1>2 DEF Registered, Holds, registryVars
<1>8. Used'
  <2>1. 1 \in Positions(function)
    BY CoursesAreLong DEF Positions
  <2> QED
    BY <1>2, <1>3, <1>4, <2>1 DEF Hands, Used
<1>9. RegistryTyped' /\ Apart' /\ Counted'
  BY <1>2 DEF Hands, RegistryTyped, Apart, Counted, Holds, Handles, registryVars
<1>10. OneHand'
  BY <1>2, <1>6, <1>7 DEF Hands, OneHand, registryVars
<1>11. Ended'
  <2> SUFFICES ASSUME NEW c \in opened
               PROVE  statement'[c[1]].answer # "none" /\ (Running(c[1])' => OwnedBy(c, c[1])')
    BY <1>2 DEF Ended
  <2>1. c[1] \in Statements /\ c[1] # s
    BY <1>2 DEF Hands, Used, Cursors, Ended
  <2> QED
    BY <2>1, <1>4, <1>6 DEF Hands, Ended, Running
<1>12. Numbered'
  <2>1. 0 + 0 <= MaximumReturned /\ Received(s, statement'[s]) = {}
    BY <1>4, CallsAssumption DEF Received
  <2> QED
    BY <1>4, <1>5, <2>1 DEF Hands, Numbered, Steps, Received, Running
<1> QED
  BY <1>8, <1>9, <1>10, <1>11, <1>12 DEF Hands

(* An answer brings cursors nobody had before.                             *)
LEMMA AnswersKeepHands ==
    ASSUME Hands, Typed, NEW s \in Statements, At(s, "run"), UNCHANGED registryVars,
           NEW given \in Counts, NEW implicit \in Counts, Answered(s, given, implicit)
    PROVE  Hands'
<1> DEFINE f == statement[s].function   cursors == {<<s, k>> : k \in 1..(given + implicit)}
<1>1. f \in Functions /\ statement[s].at \in Positions(f) /\ f.steps[statement[s].at] = "run" /\ Running(s)
      /\ statement[s].at \in Nat
  BY DEF At, Hands, Used, Use, Step, Steps
<1>2. /\ statement[s].at < Len(f.steps) /\ f.steps[1] # "take"
      /\ \A i \in Positions(f), m \in Positions(f) : f.steps[i] = "run" /\ f.steps[m] = "match" => i = statement[s].at
      /\ Len(f.steps) \in Nat /\ DOMAIN f.steps = Positions(f)
  BY <1>1, CursorsComeOnce, CoursesAreLong
<1>3. statement[s].owned = {}
  <2> SUFFICES ASSUME statement[s].owned # {} PROVE FALSE
    OBVIOUS
  <2>1. PICK i \in 1..(statement[s].at - 1) : Receives(f.steps, i)
    BY DEF Hands, Numbered, Steps
  <2>2. i \in Positions(f) /\ i # statement[s].at
    BY <1>1, <1>2 DEF Positions
  <2>3. f.steps[i] # "take"
    BY <1>1, <1>2, <2>2, CursorsComeOnce
  <2> QED
    BY <1>2, <2>1, <2>2, <2>3 DEF Receives
<1>4. given + implicit <= MaximumReturned /\ given \in Nat /\ implicit \in Nat /\ MaximumReturned \in Nat
  BY CallsAssumption DEF Answered, Counts
<1>5. cursors \in SUBSET Cursors
  BY <1>4 DEF Cursors
<1>6. given + implicit > 0 => \E m \in DOMAIN f.steps : f.steps[m] = "match"
  BY DEF Answered, ToSet, Steps
<1>7. /\ opened' = opened \cup cursors
      /\ statement' = [statement EXCEPT ![s] = [@ EXCEPT !.at = statement[s].at + 1, !.owned = cursors,
               !.returned = <<given, implicit>>, !.work = "pending", !.transaction = transaction]]
  BY DEF Answered
<1>8. statement' \in [Statements -> Use]
  <2>1. /\ statement[s].at + 1 \in Nat /\ <<given, implicit>> \in Counts \X Counts /\ transaction \in Nat
        /\ statement[s] \in Use /\ statement \in [Statements -> Use] /\ "pending" \in Works
    BY <1>1 DEF Hands, Used, Typed, Works
  <2> HIDE DEF cursors
  <2>2. [statement[s] EXCEPT !.at = statement[s].at + 1, !.owned = cursors, !.returned = <<given, implicit>>,
            !.work = "pending", !.transaction = transaction] \in Use
    BY <1>5, <2>1 DEF Use
  <2> QED
    BY <1>7, <2>1, <2>2
<1>9. /\ statement'[s].function = f /\ statement'[s].at = statement[s].at + 1 /\ statement'[s].answer = "running"
      /\ statement'[s].owned = cursors /\ statement'[s].returned = <<given, implicit>>
      /\ \A t \in Statements \ {s} : statement'[t] = statement[t]
  <2>1. statement[s] \in Use /\ statement \in [Statements -> Use]
    BY DEF Hands, Used
  <2> HIDE DEF cursors
  <2>2. statement'[s] = [statement[s] EXCEPT !.at = statement[s].at + 1, !.owned = cursors, !.returned = <<given, implicit>>,
            !.work = "pending", !.transaction = transaction]
    BY <1>7, <2>1
  <2>3. \A t \in Statements \ {s} : statement'[t] = statement[t]
    BY <1>7, <2>1
  <2> QED
    BY <1>1, <2>1, <2>2, <2>3 DEF Use, Running
<1>10. \A c \in Cursors : c[1] = s => c \notin opened
  BY <1>1, <1>3 DEF Hands, Ended, OwnedBy
<1>11. \A c \in cursors : c \in Cursors /\ c[1] = s /\ c \notin opened
  BY <1>5, <1>10
<1>12. \A c, id, k : (Registered(c)' <=> Registered(c)) /\ (Holds(id, k)' <=> Holds(id, k))
  BY DEF Registered, Holds, registryVars
<1>13. \A c : /\ OwnedBy(c, s)' <=> c \in cursors
              /\ \A t \in Statements \ {s} : OwnedBy(c, t)' <=> OwnedBy(c, t)
              /\ ~OwnedBy(c, s)
  BY <1>3, <1>9 DEF OwnedBy
<1>14. Used'
  <2>1. statement[s].at + 1 \in Positions(f)
    BY <1>1, <1>2 DEF Positions
  <2> QED
    BY <1>5, <1>7, <1>8, <1>9, <2>1 DEF Hands, Used
<1>15. RegistryTyped' /\ Apart' /\ Counted'
  BY DEF Hands, RegistryTyped, Apart, Counted, Holds, Handles, registryVars
<1> HIDE DEF cursors
<1>16. OneHand'
  <2>1. \A c \in Cursors : (c \in opened)' <=> Registered(c)' \/ \E t \in Statements : OwnedBy(c, t)'
    <3> SUFFICES ASSUME NEW c \in Cursors
                 PROVE  (c \in opened)' <=> Registered(c)' \/ \E t \in Statements : OwnedBy(c, t)'
      OBVIOUS
    <3>1. c \in opened' <=> c \in opened \/ c \in cursors
      BY <1>7
    <3>2. c \in opened <=> Registered(c) \/ \E t \in Statements : OwnedBy(c, t)
      BY DEF Hands, OneHand
    <3> QED
      BY <3>1, <3>2, <1>12, <1>13
  <2>2. \A c \in Cursors : c \in cursors => ~Registered(c) /\ \A t \in Statements : ~OwnedBy(c, t)
    BY <1>11 DEF Hands, OneHand
  <2>3. \A t, r \in Statements : \A c \in Cursors : OwnedBy(c, t)' /\ OwnedBy(c, r)' => t = r
    BY <1>13, <2>2 DEF Hands, OneHand
  <2>4. \A t \in Statements : \A c \in Cursors : OwnedBy(c, t)' => ~Registered(c)'
    BY <1>12, <1>13, <2>2 DEF Hands, OneHand
  <2>5. (\A id, jd, k, m : Holds(id, k) /\ Holds(jd, m) /\ calls[id][k] = calls[jd][m] => id = jd /\ k = m)'
    BY <1>12 DEF Hands, OneHand, registryVars
  <2> QED
    BY <2>1, <2>3, <2>4, <2>5 DEF OneHand
<1>17. Ended'
  <2> SUFFICES ASSUME NEW c \in opened'
               PROVE  statement'[c[1]].answer # "none" /\ (Running(c[1])' => OwnedBy(c, c[1])')
    BY DEF Ended
  <2>1. CASE c \in cursors
    BY <2>1, <1>9, <1>11, <1>13
  <2>2. CASE c \in opened
    <3>1. c \in Cursors /\ c[1] \in Statements /\ c[1] # s
      BY <2>2, <1>10 DEF Hands, Used, Cursors
    <3> QED
      BY <2>2, <3>1, <1>9, <1>13 DEF Hands, Ended, Running
  <2> QED
    BY <1>7, <2>1, <2>2
<1>18. Numbered'
  <2>1. cursors = Received(s, statement'[s])
    BY <1>9 DEF Received, cursors
  <2>2. cursors # {} => \E i \in 1..statement[s].at : Receives(f.steps, i)
    <3>1. cursors # {} => given + implicit > 0
      BY <1>4 DEF cursors
    <3>2. statement[s].at \in 1..statement[s].at
      BY <1>1 DEF Positions
    <3> QED
      BY <1>1, <1>6, <3>1, <3>2 DEF Receives
  <2>3. statement'[s].at - 1 = statement[s].at
    BY <1>1, <1>9
  <2>4. <<given, implicit>>[1] + <<given, implicit>>[2] <= MaximumReturned
    BY <1>4
  <2>5. \A t \in Statements \ {s} : LET u == statement'[t] IN
        /\ Steps(t)'[1] # "take" => u.owned = Received(t, u)
        /\ u.returned[1] + u.returned[2] <= MaximumReturned
        /\ u.owned # {} => Running(t)' /\ \E i \in 1..(u.at - 1) : Receives(Steps(t)', i)
        /\ u.answer = "none" => u.at = 1 /\ u.returned = <<0, 0>>
    BY <1>9 DEF Hands, Numbered, Steps, Received, Running
  <2>6. LET u == statement'[s] IN
        /\ Steps(s)'[1] # "take" => u.owned = Received(s, u)
        /\ u.returned[1] + u.returned[2] <= MaximumReturned
        /\ u.owned # {} => Running(s)' /\ \E i \in 1..(u.at - 1) : Receives(Steps(s)', i)
        /\ u.answer = "none" => u.at = 1 /\ u.returned = <<0, 0>>
    BY <1>9, <2>1, <2>2, <2>3, <2>4 DEF Steps, Running
  <2> QED
    BY <2>5, <2>6 DEF Numbered
<1> QED
  BY <1>14, <1>15, <1>16, <1>17, <1>18 DEF Hands

-----------------------------------------------------------------------------
(* The registry.  A call registered takes over what its function owned.    *)
LEMMA RegisteringKeepsHands ==
    ASSUME Hands, Typed, NEW s \in Statements, Register(s)
    PROVE  Hands' /\ next_call_id' \in 0..MaximumCallId
<1> DEFINE f == statement[s].function   owned == statement[s].owned   count == Cardinality(owned)
           all == [statement EXCEPT ![s].owned = {}]
<1>1. f \in Functions /\ statement[s].at \in Positions(f) /\ f.steps[statement[s].at] = "register" /\ Running(s)
  BY DEF Register, At, Hands, Used, Use, Step, Steps
<1>2. statement[s].at = Len(f.steps) /\ f.steps[1] # "take"
  BY <1>1, CursorsComeOnce
<1>3. CASE UNCHANGED registryVars
  <2>1. Advances(s) \/ Throws(s)
    <3>1. CASE owned = {}
      BY <3>1 DEF Register
    <3>2. CASE owned # {} /\ count > MaximumOpenCursors - open_cursor_count
      BY <3>2 DEF Register
    <3>3. CASE owned # {} /\ ~(count > MaximumOpenCursors - open_cursor_count)
      <4>1. Goes(s, all) /\ calls' # calls
        <5>1. /\ Goes(s, all)
              /\ FreshCallId \in DOMAIN calls'
          BY <3>3 DEF Register
        <5>2. FreshCallId \notin DOMAIN calls
          BY FreshIsFree DEF Typed
        <5> QED
          BY <5>1, <5>2
      <4> QED
        BY <1>3, <4>1 DEF registryVars
    <3> QED
      BY <3>1, <3>2, <3>3
  <2>2. statement \in [Statements -> Use] /\ \A t \in Statements : Alike(statement[t], statement[t])
    BY DEF Hands, Used, Alike
  <2>3. Carries(s)
    BY <2>1, <2>2 DEF Carries, Advances, Throws, Done
  <2>4. Hands'
    BY <1>1, <1>3, <2>3, CarryingKeepsHands
  <2> QED
    BY <1>3, <2>4 DEF Typed, registryVars
<1>4. CASE ~UNCHANGED registryVars
  <2> DEFINE id == FreshCallId
  <2>1. /\ owned # {} /\ ~(count > MaximumOpenCursors - open_cursor_count)
        /\ calls' = [j \in DOMAIN calls \cup {id} |-> IF j = id THEN [k \in 1..count |-> <<s, k>>] ELSE calls[j]]
        /\ next_call_id' = (id + 1) % (MaximumCallId + 1)
        /\ open_cursor_count' = open_cursor_count + count
        /\ Goes(s, all)
    <3>1. CASE owned = {}
      BY <1>4, <3>1 DEF Register
    <3>2. CASE owned # {} /\ count > MaximumOpenCursors - open_cursor_count
      BY <1>4, <3>2 DEF Register
    <3>3. CASE owned # {} /\ ~(count > MaximumOpenCursors - open_cursor_count)
      BY <3>3 DEF Register
    <3> QED
      BY <3>1, <3>2, <3>3
  <2>2. id \in 1..MaximumCallId /\ id \notin DOMAIN calls
    BY FreshIsFree DEF Typed
  <2>3. /\ next_call_id' \in 0..MaximumCallId
    <3>1. MaximumCallId + 1 \in Nat \ {0} /\ id + 1 \in Int
      BY <2>2, CallsAssumption
    <3>2. (id + 1) % (MaximumCallId + 1) \in 0..MaximumCallId
      <4> DEFINE d == MaximumCallId + 1   next == id + 1
      <4>1. d \in Nat \ {0} /\ next \in Int /\ d - 1 = MaximumCallId
        BY <3>1, CallsAssumption
      <4>0. (id + 1) % (MaximumCallId + 1) = next % d
        OBVIOUS
      <4> HIDE DEF d, next
      <4>2. next % d \in 0..(d - 1)
        BY <4>1, Z3
      <4> QED
        BY <4>0, <4>1, <4>2
    <3> QED
      BY <2>1, <3>1, <3>2, CallsAssumption
  <2> DEFINE n == statement[s].returned[1] + statement[s].returned[2]
  <2>4. n \in Nat /\ n <= MaximumReturned
    BY CallsAssumption DEF Hands, Used, Use, Counts, Numbered
  <2>5. owned = {<<s, k>> : k \in 1..n}
    BY <1>2 DEF Hands, Numbered, Received, Steps
  <2>6. count = n /\ IsFiniteSet(owned)
    <3> HIDE DEF n
    <3>1. IsFiniteSet(1..n) /\ Cardinality(1..n) = n
      BY <2>4, FS_Interval
    <3> QED
      BY <2>5, <3>1, Tagged
  <2>7. /\ statement' \in [Statements -> Use] /\ opened' = opened
        /\ LET u == statement[s]  v == statement'[s] IN
             /\ v.function = u.function /\ v.at = u.at /\ v.answer = "success" /\ v.owned = {} /\ v.returned = <<0, 0>>
        /\ \A t \in Statements \ {s} : Alike(statement[t], statement'[t])
    <3>1. /\ all \in [Statements -> Use] /\ all[s].function = f /\ all[s].at = statement[s].at
          /\ all[s].owned = {} /\ \A t \in Statements \ {s} : all[t] = statement[t]
      BY DEF Hands, Used, Use
    <3> HIDE DEF all
    <3>2. Ends(s, all, "success")
      BY <1>2, <2>1, <3>1 DEF Goes, Steps
    <3>3. "success" \in Answers
      BY DEF Answers
    <3>4. /\ statement' \in [Statements -> Use] /\ opened' = opened \ all[s].owned
          /\ LET u == all[s]  v == statement'[s] IN
                /\ v.function = u.function /\ v.at = u.at /\ v.answer = "success" /\ v.owned = {}
                /\ v.returned = <<0, 0>>
          /\ \A t \in Statements \ {s} : Same(all[t], statement'[t])
      <4>1. all \in [Statements -> Use] /\ s \in Statements
        BY <3>1
      <4> QED
        BY ONLY <3>2, <3>3, <4>1, EndsIs
    <3> QED
      BY <3>1, <3>4 DEF Same
  <2>8. \A j, k : /\ Holds(j, k)' <=> Holds(j, k) \/ (j = id /\ k \in 1..n)
                  /\ Holds(j, k) => calls'[j][k] = calls[j][k] /\ j # id
                  /\ k \in 1..n => calls'[id][k] = <<s, k>>
    BY <2>1, <2>2, <2>6 DEF Holds
  <2>9. \A c : (Registered(c)' <=> Registered(c) \/ c \in owned)
    <3> SUFFICES ASSUME NEW c PROVE Registered(c)' <=> Registered(c) \/ c \in owned
      OBVIOUS
    <3>1. Registered(c) <=> \E j, k : Holds(j, k) /\ calls[j][k] = c
      BY DEF Registered, Holds
    <3>2. Registered(c)' <=> \E j, k : Holds(j, k)' /\ calls'[j][k] = c
      BY DEF Registered, Holds
    <3> HIDE DEF id, n
    <3> QED
      BY <2>5, <2>8, <3>1, <3>2
  <2>10. \A c : /\ ~OwnedBy(c, s)' /\ (OwnedBy(c, s) <=> c \in owned)
                /\ \A t \in Statements \ {s} : OwnedBy(c, t)' <=> OwnedBy(c, t)
    BY <2>7 DEF OwnedBy, Alike
  <2> HIDE DEF id, all
  <2>11. Used'
    BY <2>7 DEF Hands, Used, Alike
  <2>12. RegistryTyped'
    <3>1. \A j \in DOMAIN calls' : j \in 1..MaximumCallId /\ DOMAIN calls'[j] # {}
      <4>1. n >= 1
        BY <2>1, <2>4, <2>5
      <4>2. DOMAIN calls'[id] = 1..n
        BY <2>1, <2>6
      <4> HIDE DEF n
      <4>3. 1 \in 1..n
        BY <2>4, <4>1
      <4>4. DOMAIN calls' = DOMAIN calls \cup {id} /\ \A j \in DOMAIN calls : calls'[j] = calls[j]
        BY <2>1, <2>2
      <4> QED
        BY <2>2, <4>2, <4>3, <4>4 DEF Hands, RegistryTyped
    <3>2. \A j, k : Holds(j, k)' => k \in 1..MaximumReturned /\ calls'[j][k] \in Cursors
      <4>1. \A k \in 1..n : k \in 1..MaximumReturned /\ <<s, k>> \in Cursors
        BY <2>4, CallsAssumption DEF Cursors
      <4> HIDE DEF n
      <4> SUFFICES ASSUME NEW j, NEW k, Holds(j, k)'
                   PROVE  k \in 1..MaximumReturned /\ calls'[j][k] \in Cursors
        OBVIOUS
      <4>2. CASE Holds(j, k)
        BY <4>2, <2>8 DEF Hands, RegistryTyped
      <4>3. CASE j = id /\ k \in 1..n
        BY <4>1, <4>3, <2>8
      <4> QED
        BY <2>8, <4>2, <4>3
    <3> QED
      BY <3>1, <3>2 DEF RegistryTyped, Holds
  <2>13. \A j, k : Holds(j, k) => calls[j][k] \in Cursors /\ calls[j][k] \in opened /\ calls[j][k][1] # s
    <3> SUFFICES ASSUME NEW j, NEW k, Holds(j, k)
                 PROVE  calls[j][k] \in Cursors /\ calls[j][k] \in opened /\ calls[j][k][1] # s
      OBVIOUS
    <3>1. calls[j][k] \in Cursors /\ Registered(calls[j][k])
      BY DEF Hands, RegistryTyped, Registered, Holds
    <3>2. calls[j][k] \in opened /\ ~OwnedBy(calls[j][k], s)
      BY <3>1 DEF Hands, OneHand
    <3> QED
      BY <1>1, <3>1, <3>2 DEF Hands, Ended
  <2> HIDE DEF n
  <2>14. OneHand'
    <3>1. \A c \in Cursors : (c \in opened)' <=> Registered(c)' \/ \E t \in Statements : OwnedBy(c, t)'
      BY <2>7, <2>9, <2>10 DEF Hands, OneHand
    <3>2. \A t, r \in Statements : \A c \in Cursors : OwnedBy(c, t)' /\ OwnedBy(c, r)' => t = r
      BY <2>10 DEF Hands, OneHand
    <3>3. \A t \in Statements : \A c \in Cursors : OwnedBy(c, t)' => ~Registered(c)'
      BY <2>9, <2>10 DEF Hands, OneHand
    <3>4. (\A i, j, k, m : Holds(i, k) /\ Holds(j, m) /\ calls[i][k] = calls[j][m] => i = j /\ k = m)'
      <4> SUFFICES ASSUME NEW i, NEW j, NEW k, NEW m, Holds(i, k)', Holds(j, m)',
          calls'[i][k] = calls'[j][m]
                   PROVE  i = j /\ k = m
        OBVIOUS
      <4>1. CASE Holds(i, k) /\ Holds(j, m)
        BY <4>1, <2>8 DEF Hands, OneHand
      <4>2. CASE ~Holds(i, k) /\ ~Holds(j, m)
        BY <4>2, <2>8
      <4>3. CASE Holds(i, k) /\ ~Holds(j, m)
        BY <4>3, <2>8, <2>13
      <4>4. CASE ~Holds(i, k) /\ Holds(j, m)
        BY <4>4, <2>8, <2>13
      <4> QED
        BY <4>1, <4>2, <4>3, <4>4
    <3> QED
      BY <3>1, <3>2, <3>3, <3>4 DEF OneHand
  <2>15. Apart'
    <3> SUFFICES ASSUME NEW i, NEW j, NEW k, NEW m, Holds(i, k)', Holds(j, m)',
        calls'[i][k][1] = calls'[j][m][1]
                 PROVE  i = j
      BY DEF Apart
    <3>1. CASE Holds(i, k) /\ Holds(j, m)
      BY <3>1, <2>8 DEF Hands, Apart
    <3>2. CASE ~Holds(i, k) /\ ~Holds(j, m)
      BY <3>2, <2>8
    <3>3. CASE Holds(i, k) /\ ~Holds(j, m)
      BY <3>3, <2>8, <2>13
    <3>4. CASE ~Holds(i, k) /\ Holds(j, m)
      BY <3>4, <2>8, <2>13
    <3> QED
      BY <3>1, <3>2, <3>3, <3>4
  <2>16. Ended'
    <3> SUFFICES ASSUME NEW c \in opened
                 PROVE  statement'[c[1]].answer # "none" /\ (Running(c[1])' => OwnedBy(c, c[1])')
      BY <2>7 DEF Ended
    <3>1. CASE c[1] = s
      BY <3>1, <2>7 DEF Running
    <3>2. CASE c[1] # s
      <4>1. c[1] \in Statements
        BY DEF Hands, Used, Cursors
      <4> QED
        BY <3>2, <4>1, <2>7, <2>10 DEF Hands, Ended, Running, Alike
    <3> QED
      BY <3>1, <3>2
  <2>17. Numbered'
    <3>1. 0 + 0 <= MaximumReturned
      BY CallsAssumption
    <3>2. Received(s, statement'[s]) = {}
      BY <2>7 DEF Received
    <3>3. \A t \in Statements \ {s} : LET u == statement'[t] IN
        /\ Steps(t)'[1] # "take" => u.owned = Received(t, u)
        /\ u.returned[1] + u.returned[2] <= MaximumReturned
        /\ u.owned # {} => Running(t)' /\ \E i \in 1..(u.at - 1) : Receives(Steps(t)', i)
        /\ u.answer = "none" => u.at = 1 /\ u.returned = <<0, 0>>
      BY <2>7 DEF Alike, Hands, Numbered, Steps, Received, Running
    <3>4. LET u == statement'[s] IN
        /\ Steps(s)'[1] # "take" => u.owned = Received(s, u)
        /\ u.returned[1] + u.returned[2] <= MaximumReturned
        /\ u.owned # {} => Running(s)' /\ \E i \in 1..(u.at - 1) : Receives(Steps(s)', i)
        /\ u.answer = "none" => u.at = 1 /\ u.returned = <<0, 0>>
      BY <2>7, <3>1, <3>2
    <3> QED
      BY <3>3, <3>4 DEF Numbered
  <2>18. Counted'
    <3> DEFINE more == {<<id, k>> : k \in 1..n}
    <3>1. IsFiniteSet(more) /\ Cardinality(more) = n
      <4>1. IsFiniteSet(1..n) /\ Cardinality(1..n) = n
        BY <2>4, FS_Interval
      <4> QED
        BY <4>1, Tagged
    <3>2. Handles' = Handles \cup more
      <4>1. \A h : h \in Handles <=> \E j, k : Holds(j, k) /\ h = <<j, k>>
        BY DEF Handles, Holds
      <4>2. \A h : h \in Handles' <=> \E j, k : Holds(j, k)' /\ h = <<j, k>>
        BY DEF Handles, Holds
      <4>3. \A h : h \in more <=> \E j, k : j = id /\ k \in 1..n /\ h = <<j, k>>
        OBVIOUS
      <4>4. \A h : h \in Handles' <=> h \in Handles \/ h \in more
        <5> HIDE DEF more
        <5> QED
          BY <4>1, <4>2, <4>3, <2>8
      <4> QED
        BY <4>4
    <3>3. Handles \cap more = {}
      BY <2>2 DEF Handles
    <3>4. IsFiniteSet(Handles)
      BY HandlesAreFinite DEF Hands
    <3>5. Cardinality(Handles') = Cardinality(Handles) + n
      <4>1. Cardinality(Handles \cup more) = Cardinality(Handles) + Cardinality(more) - Cardinality(Handles \cap more)
        BY <3>1, <3>4, FS_Union
      <4>2. Cardinality(Handles \cap more) = 0
        BY <3>3, FS_EmptySet
      <4>3. Cardinality(Handles) \in Nat
        BY <3>4, FS_CardinalityType
      <4> HIDE DEF more
      <4> QED
        BY <2>4, <3>1, <3>2, <4>1, <4>2, <4>3
    <3>6. Cardinality(Handles) \in Nat /\ MaximumOpenCursors \in Nat
      BY <3>4, FS_CardinalityType, CallsAssumption
    <3>7. ~(n > MaximumOpenCursors - open_cursor_count) /\ open_cursor_count' = open_cursor_count + n
      BY <2>1, <2>6
    <3> QED
      BY <2>4, <3>5, <3>6, <3>7 DEF Hands, Counted
  <2> QED
    BY <2>3, <2>11, <2>12, <2>14, <2>15, <2>16, <2>17, <2>18 DEF Hands
<1> QED
  BY <1>3, <1>4

-----------------------------------------------------------------------------
(* Cursors leave the registry to a reader, or are closed.  `gone' are the  *)
(* handles that go.                                                        *)
LEMMA RemovalKeepsRegistry ==
    ASSUME Hands, NEW gone \in SUBSET Handles,
           \A j, k : Holds(j, k)' <=> Holds(j, k) /\ <<j, k>> \notin gone,
           \A j, k : Holds(j, k)' => calls'[j][k] = calls[j][k],
           \A j \in DOMAIN calls' : DOMAIN calls'[j] # {},
           open_cursor_count' = open_cursor_count - Cardinality(gone)
    PROVE  /\ RegistryTyped' /\ Apart' /\ Counted'
           /\ (\A i, j, k, m : Holds(i, k) /\ Holds(j, m) /\ calls[i][k] = calls[j][m] => i = j /\ k = m)'
           /\ \A c : Registered(c)' <=> \E j, k : Holds(j, k) /\ <<j, k>> \notin gone /\ calls[j][k] = c
<1>1. RegistryTyped'
  <2>1. \A j \in DOMAIN calls' : j \in 1..MaximumCallId
    <3> SUFFICES ASSUME NEW j \in DOMAIN calls' PROVE j \in 1..MaximumCallId
      OBVIOUS
    <3>1. PICK k : k \in DOMAIN calls'[j]
      OBVIOUS
    <3>2. Holds(j, k)
      BY <3>1 DEF Holds
    <3> QED
      BY <3>2 DEF Hands, RegistryTyped, Holds
  <2>2. \A j, k : Holds(j, k)' => k \in 1..MaximumReturned /\ calls'[j][k] \in Cursors
    BY DEF Hands, RegistryTyped
  <2> QED
    BY <2>1, <2>2 DEF RegistryTyped, Holds
<1>2. Apart'
  <2> SUFFICES ASSUME NEW i, NEW j, NEW k, NEW m, Holds(i, k)', Holds(j, m)',
      calls'[i][k][1] = calls'[j][m][1]
               PROVE  i = j
    BY DEF Apart
  <2> QED
    BY DEF Hands, Apart
<1>3. (\A i, j, k, m : Holds(i, k) /\ Holds(j, m) /\ calls[i][k] = calls[j][m] => i = j /\ k = m)'
  <2> SUFFICES ASSUME NEW i, NEW j, NEW k, NEW m, Holds(i, k)', Holds(j, m)',
      calls'[i][k] = calls'[j][m]
               PROVE  i = j /\ k = m
    OBVIOUS
  <2> QED
    BY DEF Hands, OneHand
<1>4. Counted'
  <2>1. \A h : h \in Handles <=> \E j, k : Holds(j, k) /\ h = <<j, k>>
    BY DEF Handles, Holds
  <2>2. \A h : h \in Handles' <=> \E j, k : Holds(j, k)' /\ h = <<j, k>>
    BY DEF Handles, Holds
  <2>3. Handles' = Handles \ gone
    <3>1. \A h : h \in Handles' <=> h \in Handles /\ h \notin gone
      BY <2>1, <2>2
    <3> QED
      BY <3>1
  <2>4. IsFiniteSet(Handles)
    BY HandlesAreFinite DEF Hands
  <2>5. Cardinality(Handles \ gone) = Cardinality(Handles) - Cardinality(Handles \cap gone)
    BY <2>4, FS_Difference
  <2>6. Handles \cap gone = gone
    OBVIOUS
  <2>7. IsFiniteSet(gone)
    BY <2>4, FS_Subset
  <2>8. Cardinality(gone) \in Nat /\ Cardinality(Handles) \in Nat /\ MaximumOpenCursors \in Nat
    BY <2>4, <2>7, FS_CardinalityType, CallsAssumption
  <2> DEFINE all == Cardinality(Handles)   left == Cardinality(Handles')   less == Cardinality(gone)
  <2>9. left = all - less
    BY <2>3, <2>5, <2>6
  <2>10. open_cursor_count = all /\ all <= MaximumOpenCursors /\ open_cursor_count' = open_cursor_count - less
    BY DEF Hands, Counted
  <2>11. open_cursor_count' = left /\ open_cursor_count' <= MaximumOpenCursors
    <3> HIDE DEF all, left, less
    <3> QED
      BY <2>8, <2>9, <2>10 DEF all, less
  <2> QED
    BY <2>11 DEF Counted
<1>5. \A c : Registered(c)' <=> \E j, k : Holds(j, k) /\ <<j, k>> \notin gone /\ calls[j][k] = c
  <2> SUFFICES ASSUME NEW c
               PROVE  Registered(c)' <=> \E j, k : Holds(j, k) /\ <<j, k>> \notin gone /\ calls[j][k] = c
    OBVIOUS
  <2>1. Registered(c)' <=> \E j, k : Holds(j, k)' /\ calls'[j][k] = c
    BY DEF Registered, Holds
  <2> QED
    BY <2>1
<1> QED
  BY <1>1, <1>2, <1>3, <1>4, <1>5

(* Take moves one cursor from the registry to the use that reads it.       *)
LEMMA TakingKeepsHands ==
    ASSUME Hands, NEW s \in Statements, NEW id, NEW k, Take(s, id, k)
    PROVE  Hands' /\ next_call_id' = next_call_id
<1> DEFINE f == statement[s].function
<1>1. f \in Functions /\ statement[s].at \in Positions(f) /\ f.steps[statement[s].at] = "take" /\ Running(s)
      /\ statement[s].at \in Nat
  BY DEF Take, At, Hands, Used, Use, Step, Steps
<1>2. statement[s].at = 1 /\ Len(f.steps) = 3
  BY <1>1, CursorsComeOnce
<1>3. CASE ~Holds(id, k)
  <2>1. Throws(s) /\ UNCHANGED registryVars
    BY <1>3 DEF Take, Holds
  <2>2. statement \in [Statements -> Use] /\ \A t \in Statements : Alike(statement[t], statement[t])
    BY DEF Hands, Used, Alike
  <2>3. Carries(s)
    BY <2>1, <2>2 DEF Carries, Throws, Done
  <2> QED
    BY <1>1, <2>1, <2>3, CarryingKeepsHands DEF registryVars
<1>4. CASE Holds(id, k)
  <2> DEFINE c == calls[id][k]   all == [statement EXCEPT ![s].owned = {c}]
  <2>1. /\ TakenFrom(id, k) /\ open_cursor_count' = open_cursor_count - 1
        /\ Goes(s, all) /\ next_call_id' = next_call_id
    BY <1>4 DEF Take, Holds
  <2>2. c \in Cursors /\ Registered(c)
    BY <1>4 DEF Hands, RegistryTyped, Registered, Holds
  <2>3. /\ \A j, m : Holds(j, m)' <=> Holds(j, m) /\ <<j, m>> \notin {<<id, k>>}
        /\ \A j, m : Holds(j, m)' => calls'[j][m] = calls[j][m]
        /\ \A j \in DOMAIN calls' : DOMAIN calls'[j] # {}
    <3>1. CASE DOMAIN calls[id] = {k}
      <4>1. calls' = [x \in DOMAIN calls \ {id} |-> calls[x]]
        BY <2>1, <3>1 DEF TakenFrom, Without
      <4> QED
        BY <3>1, <4>1 DEF Holds, Hands, RegistryTyped
    <3>2. CASE DOMAIN calls[id] # {k}
      <4>1. calls' = [calls EXCEPT ![id] = [x \in DOMAIN calls[id] \ {k} |-> calls[id][x]]]
        BY <2>1, <3>2 DEF TakenFrom, Without
      <4>2. /\ DOMAIN calls' = DOMAIN calls /\ id \in DOMAIN calls
            /\ calls'[id] = [x \in DOMAIN calls[id] \ {k} |-> calls[id][x]]
            /\ \A j \in DOMAIN calls \ {id} : calls'[j] = calls[j]
        BY <1>4, <4>1 DEF Holds
      <4>3. DOMAIN calls'[id] = DOMAIN calls[id] \ {k} /\ DOMAIN calls[id] \ {k} # {}
        BY <1>4, <3>2, <4>2 DEF Holds
      <4> QED
        BY <4>2, <4>3 DEF Holds, Hands, RegistryTyped
    <3> QED
      BY <3>1, <3>2
  <2>4. {<<id, k>>} \in SUBSET Handles /\ Cardinality({<<id, k>>}) = 1
    <3>1. <<id, k>> \in Handles
      BY <1>4 DEF Handles, Holds
    <3>2. Cardinality({<<id, k>>}) = 1
      BY FS_Singleton
    <3> QED
      BY <3>1, <3>2
  <2>5. /\ RegistryTyped' /\ Apart' /\ Counted'
        /\ (\A i, j, l, m : Holds(i, l) /\ Holds(j, m) /\ calls[i][l] = calls[j][m] => i = j /\ l = m)'
        /\ \A d : Registered(d)' <=> \E j, m : Holds(j, m) /\ <<j, m>> \notin {<<id, k>>} /\ calls[j][m] = d
    BY <2>1, <2>3, <2>4, RemovalKeepsRegistry
  <2>6. \A d : Registered(d)' <=> Registered(d) /\ d # c
    <3> SUFFICES ASSUME NEW d PROVE Registered(d)' <=> Registered(d) /\ d # c
      OBVIOUS
    <3>1. Registered(d) <=> \E j, m : Holds(j, m) /\ calls[j][m] = d
      BY DEF Registered, Holds
    <3>2. \A j, m : Holds(j, m) /\ calls[j][m] = c => j = id /\ m = k
      BY <1>4 DEF Hands, OneHand
    <3> QED
      BY <2>5, <3>1, <3>2
  <2>7. /\ all \in [Statements -> Use] /\ all[s].function = f /\ all[s].at = statement[s].at
        /\ all[s].owned = {c} /\ all[s].answer = "running" /\ all[s].returned = statement[s].returned
        /\ \A t \in Statements \ {s} : all[t] = statement[t]
    <3>1. statement \in [Statements -> Use] /\ {c} \in SUBSET Cursors
      BY <2>2 DEF Hands, Used
    <3> HIDE DEF c
    <3> QED
      BY <1>1, <3>1 DEF Use, Running
  <2> HIDE DEF all, c
  <2>8. /\ statement' \in [Statements -> Use] /\ opened' = opened
        /\ LET v == statement'[s] IN
             /\ v.function = f /\ v.at = 2 /\ v.answer = "running" /\ v.owned = {c}
             /\ v.returned = statement[s].returned
        /\ \A t \in Statements \ {s} : statement'[t] = statement[t]
    <3>1. all[s].at # Len(Steps(s))
      BY <1>2, <2>7 DEF Steps
    <3>2. all[s].function = statement[s].function /\ all[s].at \in Positions(all[s].function)
      BY <1>1, <2>7
    <3>3. /\ opened' = opened /\ statement' \in [Statements -> Use]
          /\ LET u == all[s]  v == statement'[s] IN
                /\ v.function = u.function /\ v.at = u.at + 1 /\ v.answer = u.answer /\ v.owned = u.owned
                /\ v.returned = u.returned
          /\ \A t \in Statements \ {s} : statement'[t] = all[t]
      BY <2>1, <2>7, <3>1, <3>2, GoesIs
    <3> QED
      BY <1>2, <2>7, <3>3
  <2>9. statement[s].owned = {}
    <3> SUFFICES ASSUME statement[s].owned # {} PROVE FALSE
      OBVIOUS
    <3>1. PICK i \in 1..(statement[s].at - 1) : Receives(Steps(s), i)
      BY DEF Hands, Numbered
    <3> QED
      BY <1>2, <3>1
  <2>10. \A d : /\ OwnedBy(d, s)' <=> d = c
                /\ ~OwnedBy(d, s)
                /\ \A t \in Statements \ {s} : OwnedBy(d, t)' <=> OwnedBy(d, t)
    BY <2>8, <2>9 DEF OwnedBy
  <2>11. Used'
    <3>1. 2 \in Positions(f)
      BY <1>2 DEF Positions
    <3> QED
      BY <2>8, <3>1 DEF Hands, Used
  <2>12. OneHand'
    <3>1. \A d \in Cursors : (d \in opened)' <=> Registered(d)' \/ \E t \in Statements : OwnedBy(d, t)'
      <4> SUFFICES ASSUME NEW d \in Cursors
                   PROVE  d \in opened' <=> Registered(d)' \/ \E t \in Statements : OwnedBy(d, t)'
        OBVIOUS
      <4>1. d \in opened <=> Registered(d) \/ \E t \in Statements : OwnedBy(d, t)
        BY DEF Hands, OneHand
      <4> QED
        BY <2>2, <2>6, <2>8, <2>10, <4>1
    <3>2. \A t \in Statements : ~OwnedBy(c, t)
      BY <2>2 DEF Hands, OneHand
    <3>3. \A t, r \in Statements : \A d \in Cursors : OwnedBy(d, t)' /\ OwnedBy(d, r)' => t = r
      BY <2>10, <3>2 DEF Hands, OneHand
    <3>4. \A t \in Statements : \A d \in Cursors : OwnedBy(d, t)' => ~Registered(d)'
      BY <2>6, <2>10 DEF Hands, OneHand
    <3> QED
      BY <2>5, <3>1, <3>3, <3>4 DEF OneHand
  <2>13. Ended'
    <3> SUFFICES ASSUME NEW d \in opened
                 PROVE  statement'[d[1]].answer # "none" /\ (Running(d[1])' => OwnedBy(d, d[1])')
      BY <2>8 DEF Ended
    <3>1. d[1] \in Statements /\ (Running(d[1]) => OwnedBy(d, d[1])) /\ statement[d[1]].answer # "none"
      BY DEF Hands, Used, Cursors, Ended
    <3>2. d[1] # s
      BY <1>1, <2>10, <3>1
    <3> QED
      BY <2>8, <2>10, <3>1, <3>2 DEF Running
  <2>14. Numbered'
    <3>1. f.steps[1] = "take" /\ Receives(f.steps, 1)
      BY <1>1, <1>2 DEF Receives
    <3>2. \A t \in Statements \ {s} : LET u == statement'[t] IN
        /\ Steps(t)'[1] # "take" => u.owned = Received(t, u)
        /\ u.returned[1] + u.returned[2] <= MaximumReturned
        /\ u.owned # {} => Running(t)' /\ \E i \in 1..(u.at - 1) : Receives(Steps(t)', i)
        /\ u.answer = "none" => u.at = 1 /\ u.returned = <<0, 0>>
      BY <2>8 DEF Hands, Numbered, Steps, Received, Running
    <3>3. 1 \in 1..(2 - 1)
      OBVIOUS
    <3>4. statement[s].returned[1] + statement[s].returned[2] <= MaximumReturned
      BY DEF Hands, Numbered
    <3>5. LET u == statement'[s] IN
        /\ Steps(s)'[1] # "take" => u.owned = Received(s, u)
        /\ u.returned[1] + u.returned[2] <= MaximumReturned
        /\ u.owned # {} => Running(s)' /\ \E i \in 1..(u.at - 1) : Receives(Steps(s)', i)
        /\ u.answer = "none" => u.at = 1 /\ u.returned = <<0, 0>>
      BY <2>8, <3>1, <3>3, <3>4 DEF Steps, Running
    <3> QED
      BY <3>2, <3>5 DEF Numbered
  <2> QED
    BY <2>1, <2>5, <2>11, <2>12, <2>13, <2>14 DEF Hands
<1> QED
  BY <1>3, <1>4

(* oracle_close_call, and the end of the connection, close what is left.   *)
LEMMA ClosingKeepsHands ==
    ASSUME Hands, NEW gone \in SUBSET Handles,
           \A j, k : Holds(j, k)' <=> Holds(j, k) /\ <<j, k>> \notin gone,
           \A j, k : Holds(j, k)' => calls'[j][k] = calls[j][k],
           \A j \in DOMAIN calls' : DOMAIN calls'[j] # {},
           open_cursor_count' = open_cursor_count - Cardinality(gone),
           \A c : c \in opened' <=> c \in opened /\ ~\E j, k : <<j, k>> \in gone /\ calls[j][k] = c,
           statement' \in [Statements -> Use],
           \A t \in Statements : LET u == statement[t]  v == statement'[t] IN
             /\ v.function = u.function /\ v.at = u.at /\ v.owned = u.owned /\ v.returned = u.returned
             /\ v.answer = u.answer \/ (v.answer = "success" /\ u.owned = {} /\ u.answer = "running")
    PROVE  Hands'
<1>1. /\ RegistryTyped' /\ Apart' /\ Counted'
      /\ (\A i, j, k, m : Holds(i, k) /\ Holds(j, m) /\ calls[i][k] = calls[j][m] => i = j /\ k = m)'
      /\ \A c : Registered(c)' <=> \E j, k : Holds(j, k) /\ <<j, k>> \notin gone /\ calls[j][k] = c
  BY RemovalKeepsRegistry
<1>2. \A c : \A t \in Statements : OwnedBy(c, t)' <=> OwnedBy(c, t)
  BY DEF OwnedBy
<1>3. \A j, k : <<j, k>> \in gone => Holds(j, k)
  BY DEF Handles, Holds
<1>4. \A c \in Cursors : (c \in opened)' <=> Registered(c)' \/ \E t \in Statements : OwnedBy(c, t)'
  <2> SUFFICES ASSUME NEW c \in Cursors
               PROVE  c \in opened' <=> Registered(c)' \/ \E t \in Statements : OwnedBy(c, t)'
    OBVIOUS
  <2>1. Registered(c) <=> \E j, k : Holds(j, k) /\ calls[j][k] = c
    BY DEF Registered, Holds
  <2>2. c \in opened <=> Registered(c) \/ \E t \in Statements : OwnedBy(c, t)
    BY DEF Hands, OneHand
  <2>3. \A t \in Statements : OwnedBy(c, t) => ~Registered(c)
    BY DEF Hands, OneHand
  <2>4. \A i, j, k, m : Holds(i, k) /\ Holds(j, m) /\ calls[i][k] = calls[j][m] => i = j /\ k = m
    BY DEF Hands, OneHand
  <2>5. c \in opened' <=> c \in opened /\ ~\E j, k : <<j, k>> \in gone /\ calls[j][k] = c
    OBVIOUS
  <2>6. Registered(c)' <=> \E j, k : Holds(j, k) /\ <<j, k>> \notin gone /\ calls[j][k] = c
    BY <1>1
  <2>7. ASSUME Registered(c)' PROVE c \in opened'
    <3>1. PICK j, k : Holds(j, k) /\ <<j, k>> \notin gone /\ calls[j][k] = c
      BY <2>6, <2>7
    <3>2. \A i, m : <<i, m>> \in gone => calls[i][m] # c
      BY <1>3, <2>4, <3>1
    <3>3. ~\E i, m : <<i, m>> \in gone /\ calls[i][m] = c
      <4> SUFFICES ASSUME NEW i, NEW m, <<i, m>> \in gone, calls[i][m] = c PROVE FALSE
        OBVIOUS
      <4> QED
        BY <3>2
    <3>4. c \in opened
      BY <2>1, <2>2, <3>1
    <3> QED
      BY <2>5, <3>3, <3>4
  <2>8. ASSUME NEW t \in Statements, OwnedBy(c, t) PROVE c \in opened'
    <3>1. \A i, m : <<i, m>> \in gone => calls[i][m] # c
      BY <1>3, <2>1, <2>3, <2>8
    <3>2. ~\E i, m : <<i, m>> \in gone /\ calls[i][m] = c
      <4> SUFFICES ASSUME NEW i, NEW m, <<i, m>> \in gone, calls[i][m] = c PROVE FALSE
        OBVIOUS
      <4> QED
        BY <3>1
    <3>3. c \in opened
      BY <2>2, <2>8
    <3> QED
      BY <2>5, <3>2, <3>3
  <2>9. ASSUME c \in opened', Registered(c) PROVE Registered(c)'
    BY <2>1, <2>5, <2>6, <2>9
  <2> QED
    BY <1>2, <2>2, <2>5, <2>7, <2>8, <2>9
<1>5. \A c : Registered(c)' => Registered(c)
  <2> SUFFICES ASSUME NEW c PROVE Registered(c)' => Registered(c)
    OBVIOUS
  <2>1. Registered(c)' <=> \E j, k : Holds(j, k) /\ <<j, k>> \notin gone /\ calls[j][k] = c
    BY ONLY <1>1
  <2>2. Registered(c) <=> \E j, k : Holds(j, k) /\ calls[j][k] = c
    BY DEF Registered, Holds
  <2> QED
    BY ONLY <2>1, <2>2
<1>6. OneHand'
  <2>1. \A t, r \in Statements : \A c \in Cursors : OwnedBy(c, t)' /\ OwnedBy(c, r)' => t = r
    BY <1>2 DEF Hands, OneHand
  <2>2. \A t \in Statements : \A c \in Cursors : OwnedBy(c, t)' => ~Registered(c)'
    BY <1>2, <1>5 DEF Hands, OneHand
  <2> QED
    BY <1>1, <1>4, <2>1, <2>2 DEF OneHand
<1>7. Used'
  BY DEF Hands, Used
<1>8. Ended'
  <2> SUFFICES ASSUME NEW c \in opened'
               PROVE  statement'[c[1]].answer # "none" /\ (Running(c[1])' => OwnedBy(c, c[1])')
    BY DEF Ended
  <2>1. c \in opened /\ c[1] \in Statements
    BY DEF Hands, Used, Cursors
  <2> QED
    BY <1>2, <2>1 DEF Hands, Ended, Running
<1>9. Numbered'
  <2> SUFFICES ASSUME NEW t \in Statements
               PROVE  LET u == statement'[t] IN
        /\ u.function.steps[1] # "take" => u.owned = Received(t, u)
        /\ u.returned[1] + u.returned[2] <= MaximumReturned
        /\ u.owned # {} => Running(t)' /\ \E i \in 1..(u.at - 1) : Receives(u.function.steps, i)
        /\ u.answer = "none" => u.at = 1 /\ u.returned = <<0, 0>>
    BY DEF Numbered, Steps
  <2>1. LET u == statement[t] IN
        /\ u.function.steps[1] # "take" => u.owned = Received(t, u)
        /\ u.returned[1] + u.returned[2] <= MaximumReturned
        /\ u.owned # {} => Running(t) /\ \E i \in 1..(u.at - 1) : Receives(u.function.steps, i)
        /\ u.answer = "none" => u.at = 1 /\ u.returned = <<0, 0>>
    BY DEF Hands, Numbered, Steps
  <2> QED
    BY <2>1 DEF Received, Running
<1> QED
  BY <1>1, <1>6, <1>7, <1>8, <1>9 DEF Hands

(* oracle_close_call closes the cursors of one call, ...                   *)
LEMMA ClosingOneKeepsHands ==
    ASSUME Hands, NEW s \in Statements, NEW id, CloseCall(s, id)
    PROVE  Hands' /\ next_call_id' = next_call_id
<1> DEFINE f == statement[s].function
<1>1. f \in Functions /\ statement[s].at \in Positions(f) /\ f.steps[statement[s].at] = "closecall" /\ Running(s)
      /\ statement[s].at \in Nat
  BY DEF CloseCall, At, Hands, Used, Use, Step, Steps
<1>2. \A j \in Positions(f) : f.steps[j] \notin {"take", "run"}
  BY <1>1, CursorsComeOnce
<1>3. statement[s].owned = {}
  <2> SUFFICES ASSUME statement[s].owned # {} PROVE FALSE
    OBVIOUS
  <2>1. PICK i \in 1..(statement[s].at - 1) : Receives(f.steps, i)
    BY DEF Hands, Numbered, Steps
  <2>2. i \in Positions(f)
    BY <1>1 DEF Positions
  <2> QED
    BY <1>2, <2>1, <2>2 DEF Receives
<1>4. CASE id \notin DOMAIN calls
  <2>1. Advances(s) /\ UNCHANGED registryVars
    BY <1>4 DEF CloseCall, registryVars
  <2>2. statement \in [Statements -> Use] /\ \A t \in Statements : Alike(statement[t], statement[t])
    BY DEF Hands, Used, Alike
  <2>3. Carries(s)
    BY <2>1, <2>2 DEF Carries, Advances
  <2> QED
    BY <1>1, <2>1, <2>3, CarryingKeepsHands DEF registryVars
<1>5. CASE id \in DOMAIN calls
  <2> DEFINE gone == {<<id, k>> : k \in DOMAIN calls[id]}   all == [statement EXCEPT ![s].answer = "success"]
  <2>1. /\ calls' = [j \in DOMAIN calls \ {id} |-> calls[j]]
        /\ open_cursor_count' = open_cursor_count - Cardinality(DOMAIN calls[id])
        /\ opened' = opened \ Range(calls[id])
        /\ statement' = Settled(all, opened') /\ next_call_id' = next_call_id
    BY <1>5 DEF CloseCall, ClosedIn, Without
  <2>2. gone \in SUBSET Handles
    BY <1>5 DEF Handles
  <2>3. Cardinality(gone) = Cardinality(DOMAIN calls[id])
    <3>1. DOMAIN calls[id] \in SUBSET (1..MaximumReturned)
      BY <1>5 DEF Hands, RegistryTyped, Holds
    <3>2. IsFiniteSet(DOMAIN calls[id])
      <4>1. 1 \in Int /\ MaximumReturned \in Int
        BY CallsAssumption
      <4>2. IsFiniteSet(1..MaximumReturned)
        BY <4>1, FS_Interval
      <4> QED
        BY <3>1, <4>2, FS_Subset
    <3> QED
      BY <3>2, Tagged
  <2>4. /\ \A j, k : Holds(j, k)' <=> Holds(j, k) /\ <<j, k>> \notin gone
        /\ \A j, k : Holds(j, k)' => calls'[j][k] = calls[j][k]
        /\ \A j \in DOMAIN calls' : DOMAIN calls'[j] # {}
    BY <2>1 DEF Holds, Hands, RegistryTyped
  <2>5. \A c : c \in opened' <=> c \in opened /\ ~\E j, k : <<j, k>> \in gone /\ calls[j][k] = c
    BY <2>1 DEF Range
  <2>6. /\ statement' \in [Statements -> Use]
        /\ \A t \in Statements : LET u == statement[t]  v == statement'[t] IN
             /\ v.function = u.function /\ v.at = u.at /\ v.owned = u.owned /\ v.returned = u.returned
             /\ v.answer = u.answer \/ (v.answer = "success" /\ u.owned = {} /\ u.answer = "running")
    <3>1. /\ all \in [Statements -> Use] /\ all[s].function = f /\ all[s].at = statement[s].at
          /\ all[s].owned = statement[s].owned /\ all[s].answer = "success" /\ all[s].returned = statement[s].returned
          /\ \A t \in Statements \ {s} : all[t] = statement[t]
      BY DEF Hands, Used, Use, Answers
    <3> HIDE DEF all
    <3>2. statement' \in [Statements -> Use] /\ \A t \in Statements : Alike(all[t], statement'[t])
      BY <2>1, <3>1, SettledIs DEF Same
    <3> QED
      BY <1>1, <1>3, <3>1, <3>2 DEF Alike, Running
  <2> HIDE DEF gone
  <2>7. open_cursor_count' = open_cursor_count - Cardinality(gone)
    BY <2>1, <2>3
  <2>8. Hands'
    BY <2>2, <2>4, <2>5, <2>6, <2>7, ClosingKeepsHands
  <2> QED
    BY <2>1, <2>8
<1> QED
  BY <1>4, <1>5

(* ... and CloseAll those of every call.                                   *)
LEMMA ClosingAllKeepsHands ==
    ASSUME Hands, CloseAll
    PROVE  Hands' /\ next_call_id' = next_call_id
<1>1. /\ calls' = <<>> /\ open_cursor_count' = 0 /\ next_call_id' = next_call_id
      /\ opened' = opened \ UNION {Range(calls[id]) : id \in DOMAIN calls}
      /\ statement' = Settled(statement, opened')
  BY DEF CloseAll
<1>2. DOMAIN calls' = {}
  BY <1>1
<1>3. /\ \A j, k : Holds(j, k)' <=> Holds(j, k) /\ <<j, k>> \notin Handles
      /\ \A j, k : Holds(j, k)' => calls'[j][k] = calls[j][k]
      /\ \A j \in DOMAIN calls' : DOMAIN calls'[j] # {}
  BY <1>2 DEF Holds, Handles
<1>4. \A c : c \in opened' <=> c \in opened /\ ~\E j, k : <<j, k>> \in Handles /\ calls[j][k] = c
  <2> SUFFICES ASSUME NEW c
               PROVE  c \in opened' <=> c \in opened /\ ~\E j, k : <<j, k>> \in Handles /\ calls[j][k] = c
    OBVIOUS
  <2>1. (\E j, k : <<j, k>> \in Handles /\ calls[j][k] = c) <=> \E j \in DOMAIN calls : \E k \in DOMAIN calls[j] : calls[j][k] = c
    BY DEF Handles
  <2>2. c \in UNION {Range(calls[id]) : id \in DOMAIN calls} <=> \E j \in DOMAIN calls : \E k \in DOMAIN calls[j] : calls[j][k] = c
    BY DEF Range
  <2> QED
    BY <1>1, <2>1, <2>2
<1>5. /\ statement' \in [Statements -> Use]
      /\ \A t \in Statements : Alike(statement[t], statement'[t])
  <2>1. statement \in [Statements -> Use]
    BY DEF Hands, Used
  <2>2. \A t \in Statements : /\ Settled(statement, opened') \in [Statements -> Use]
                            /\ Same(statement[t], Settled(statement, opened')[t])
    BY <2>1, SettledIs
  <2>3. statement' \in [Statements -> Use]
    BY <1>1, <2>1, SettledTyped
  <2> QED
    BY <1>1, <2>2, <2>3 DEF Same
<1>6. open_cursor_count' = open_cursor_count - Cardinality(Handles)
  <2>1. Cardinality(Handles) \in Nat
    BY HandlesAreFinite, FS_CardinalityType DEF Hands
  <2> QED
    BY <1>1, <2>1 DEF Hands, Counted
<1>7. Hands'
  <2>1. \A t \in Statements : LET u == statement[t]  v == statement'[t] IN
             /\ v.function = u.function /\ v.at = u.at /\ v.owned = u.owned /\ v.returned = u.returned
             /\ v.answer = u.answer \/ (v.answer = "success" /\ u.owned = {} /\ u.answer = "running")
    BY <1>5 DEF Alike
  <2> DEFINE gone == Handles
  <2>2. gone \in SUBSET Handles
    OBVIOUS
  <2> QED
    BY <1>3, <1>4, <1>5, <1>6, <2>1, <2>2, ClosingKeepsHands
<1> QED
  BY <1>1, <1>7

-----------------------------------------------------------------------------
(* Every other step of a function carries it on or ends it.                *)
LEMMA ResolvedIs ==
    ASSUME NEW all \in [Statements -> Use], NEW outcome \in {"kept", "undone"}
    PROVE  /\ Resolved(all, outcome) \in [Statements -> Use]
           /\ \A t \in Statements :
                /\ Same(all[t], Resolved(all, outcome)[t])
                /\ Resolved(all, outcome)[t].work = IF InItsTransaction(t) THEN outcome ELSE all[t].work
<1> DEFINE after == Resolved(all, outcome)
<1>1. after = [t \in Statements |-> after[t]]
  BY DEF Resolved
<1>2. ASSUME NEW t \in Statements
      PROVE  /\ after[t] \in Use /\ Same(all[t], after[t])
             /\ after[t].work = IF InItsTransaction(t) THEN outcome ELSE all[t].work
  <2>1. all[t] \in Use /\ outcome \in Works
    BY DEF Works
  <2>2. after[t] = IF InItsTransaction(t) THEN [all[t] EXCEPT !.work = outcome] ELSE all[t]
    BY DEF Resolved
  <2> HIDE DEF after
  <2>3. CASE InItsTransaction(t)
    <3>1. after[t] = [all[t] EXCEPT !.work = outcome]
      BY <2>2, <2>3
    <3>2. after[t] \in Use
      BY <2>1, <3>1 DEF Use
    <3>3. Same(all[t], after[t]) /\ after[t].work = outcome
      BY <2>1, <3>1 DEF Use, Same, Alike
    <3> QED
      BY <2>3, <3>2, <3>3
  <2>4. CASE ~InItsTransaction(t)
    BY <2>1, <2>2, <2>4 DEF Same, Alike
  <2> QED
    BY <2>3, <2>4
<1> HIDE DEF after
<1>3. after \in [Statements -> Use]
  BY <1>1, <1>2
<1> QED
  BY <1>2, <1>3 DEF after

LEMMA WorkIsTyped ==
    ASSUME Typed, NEW s \in Statements, NEW work \in Works, NEW inside \in BOOLEAN, NEW moment \in Nat
    PROVE  /\ statement \in [Statements -> Use]
           /\ \A t \in Statements : Alike(statement[t], statement[t])
           /\ With(s, work) \in [Statements -> Use]
           /\ \A t \in Statements : Alike(statement[t], With(s, work)[t])
           /\ LET all == [statement EXCEPT ![s] = [@ EXCEPT !.work = work, !.inside = inside]] IN
                all \in [Statements -> Use] /\ \A t \in Statements : Alike(statement[t], all[t])
           /\ LET all == [statement EXCEPT ![s].transaction = moment] IN
                all \in [Statements -> Use] /\ \A t \in Statements : Alike(statement[t], all[t])
<1>1. statement \in [Statements -> Use] /\ \A t \in Statements : Alike(statement[t], statement[t])
  BY DEF Typed, Used, Alike
<1>2. With(s, work) \in [Statements -> Use] /\ \A t \in Statements : Alike(statement[t], With(s, work)[t])
  BY <1>1 DEF With, Use, Alike
<1>3. LET all == [statement EXCEPT ![s] = [@ EXCEPT !.work = work, !.inside = inside]] IN
        all \in [Statements -> Use] /\ \A t \in Statements : Alike(statement[t], all[t])
  <2>1. [statement[s] EXCEPT !.work = work, !.inside = inside] \in Use
    BY <1>1 DEF Use
  <2>2. Alike(statement[s], [statement[s] EXCEPT !.work = work, !.inside = inside])
    BY <1>1 DEF Use, Alike
  <2> QED
    BY <1>1, <2>1, <2>2
<1>4. LET all == [statement EXCEPT ![s].transaction = moment] IN
        all \in [Statements -> Use] /\ \A t \in Statements : Alike(statement[t], all[t])
  BY <1>1 DEF Use, Alike
<1> QED
  BY <1>1, <1>2, <1>3, <1>4

(* A failure that poisons the transaction takes nobody's cursors.          *)
LEMMA PoisoningCarries ==
    ASSUME Typed, NEW s \in Statements, ThrowsPoisoning(s)
    PROVE  Carries(s)
<1> DEFINE left == [statement EXCEPT ![s].transaction = transaction]   all == Resolved(left, "undone")
<1>1. left \in [Statements -> Use] /\ \A t \in Statements : Alike(statement[t], left[t])
  <2>1. transaction \in Nat /\ "kept" \in Works /\ TRUE \in BOOLEAN
    BY DEF Typed, Works
  <2> QED
    BY <2>1, WorkIsTyped
<1> HIDE DEF left
<1>2. all \in [Statements -> Use] /\ \A t \in Statements : Same(left[t], all[t])
  BY <1>1, ResolvedIs
<1>3. \A t \in Statements : Alike(statement[t], all[t])
  BY <1>1, <1>2 DEF Same, Alike
<1>4. Ends(s, all, "failed")
  BY DEF ThrowsPoisoning, left
<1> HIDE DEF all
<1> QED
  BY <1>2, <1>3, <1>4 DEF Carries, Done

Carrying(s) ==
    \/ RequireAutoCommit(s) \/ RequireWritable(s) \/ Execute(s) \/ DropPrepared(s)
    \/ OpenSession(s) \/ RunDdl(s) \/ Match(s) \/ CommitWork(s) \/ CloseSession(s)
    \/ ReadCursor(s) \/ Pin(s) \/ Taint(s) \/ MatchPinned(s) \/ CheckInterrupt(s)

LEMMA StepsCarry ==
    ASSUME Typed, NEW s \in Statements, Carrying(s)
    PROVE  Running(s) /\ UNCHANGED registryVars /\ Carries(s)
<1>1. /\ "kept" \in Works /\ "undone" \in Works /\ "none" \in Works /\ 0 \in Nat /\ explicit \in BOOLEAN
  BY DEF Works, Typed
<1>2. /\ statement \in [Statements -> Use]
      /\ \A t \in Statements : Alike(statement[t], statement[t])
  BY <1>1, WorkIsTyped
<1>3. Advances(s) \/ Throws(s) \/ Ends(s, statement, "dropped") => Carries(s)
  BY <1>2 DEF Advances, Throws, Carries, Done
<1>4. ThrowsPoisoning(s) => Carries(s)
  BY PoisoningCarries
<1>5. CASE RequireAutoCommit(s)
  BY <1>3, <1>5 DEF RequireAutoCommit, At
<1>6. CASE RequireWritable(s)
  BY <1>3, <1>6 DEF RequireWritable, At
<1>7. CASE Execute(s) \/ DropPrepared(s) \/ OpenSession(s) \/ CloseSession(s) \/ ReadCursor(s)
  BY <1>3, <1>7 DEF Execute, DropPrepared, OpenSession, CloseSession, ReadCursor, At
<1>8. CASE RunDdl(s)
  <2>1. Running(s) /\ UNCHANGED registryVars
    BY <1>8 DEF RunDdl, At
  <2> DEFINE all == [statement EXCEPT ![s] = [@ EXCEPT !.work = "kept", !.inside = explicit]]
  <2>2. all \in [Statements -> Use] /\ \A t \in Statements : Alike(statement[t], all[t])
    BY <1>1, WorkIsTyped
  <2>3. \/ Goes(s, all)
        \/ \E work \in {"kept", "none"} : Ends(s, With(s, work), "failed")
    BY <1>8 DEF RunDdl
  <2> HIDE DEF all
  <2>4. CASE Goes(s, all)
    BY <2>1, <2>2, <2>4 DEF Carries
  <2>5. CASE \E work \in {"kept", "none"} : Ends(s, With(s, work), "failed")
    <3> PICK work \in {"kept", "none"} : Ends(s, With(s, work), "failed")
      BY <2>5
    <3>1. With(s, work) \in [Statements -> Use] /\ \A t \in Statements : Alike(statement[t], With(s, work)[t])
      BY <1>1, WorkIsTyped
    <3> QED
      BY <2>1, <3>1 DEF Carries, Done
  <2> QED
    BY <2>3, <2>4, <2>5
<1>9. CASE Match(s)
  BY <1>3, <1>9 DEF Match, At
<1>10. CASE CommitWork(s)
  <2>1. Running(s) /\ UNCHANGED registryVars
    BY <1>10 DEF CommitWork, At
  <2>2. \/ Goes(s, With(s, "kept"))
        \/ \E work \in {"kept", "undone"} : Ends(s, With(s, work), "failed")
    BY <1>10 DEF CommitWork
  <2>3. \A work \in {"kept", "undone"} :
           With(s, work) \in [Statements -> Use] /\ \A t \in Statements : Alike(statement[t], With(s, work)[t])
    BY <1>1, WorkIsTyped
  <2> QED
    BY <2>1, <2>2, <2>3 DEF Carries, Done
<1>11. CASE Pin(s)
  BY <1>3, <1>4, <1>11 DEF Pin, At
<1>12. CASE Taint(s)
  BY <1>3, <1>12 DEF Taint, At
<1>13. CASE MatchPinned(s)
  BY <1>3, <1>4, <1>13 DEF MatchPinned, At
<1>14. CASE CheckInterrupt(s)
  BY <1>3, <1>4, <1>14 DEF CheckInterrupt, At
<1> QED
  BY <1>5, <1>6, <1>7, <1>8, <1>9, <1>10, <1>11, <1>12, <1>13, <1>14 DEF Carrying

-----------------------------------------------------------------------------
(* From the first state on.                                                *)
LEMMA InitHands ==
    ASSUME CallsInit
    PROVE  Typed /\ Hands
<1>1. /\ statement = [s \in Statements |-> NotBound] /\ opened = {} /\ calls = <<>> /\ open_cursor_count = 0
      /\ next_call_id \in 0..MaximumCallId /\ program \in Programs
      /\ explicit = FALSE /\ transaction = 1 /\ pinned = NotPinned /\ failed = FALSE
  BY CallsAssumption DEF CallsInit
<1>2. DOMAIN calls = {}
  BY <1>1
<1>3. /\ NotBound \in Use /\ NotBound.at = 1 /\ NotBound.answer = "none" /\ NotBound.owned = {}
      /\ NotBound.returned = <<0, 0>> /\ NotBound.function \in Functions
  <2>1. OracleCloseCall \in Functions /\ 0 \in Counts
    BY CallsAssumption DEF Functions, Counts
  <2>2. <<0, 0>> \in Counts \X Counts /\ {} \in SUBSET Cursors /\ "none" \in Works /\ "none" \in Answers
    BY <2>1 DEF Works, Answers
  <2> QED
    BY <2>1, <2>2 DEF NotBound, Use
<1>4. \A s \in Statements : statement[s] = NotBound
  BY <1>1
<1>5. Used
  <2>1. 1 \in Positions(NotBound.function)
    BY <1>3, CoursesAreLong DEF Positions
  <2> QED
    BY <1>1, <1>3, <1>4, <2>1 DEF Used
<1>6. Typed
  <2>1. NotPinned \in [held : BOOLEAN, tainted : BOOLEAN, dirty : BOOLEAN]
    BY DEF NotPinned
  <2>2. explicit \in BOOLEAN /\ failed \in BOOLEAN
    BY <1>1
  <2>3. transaction \in Nat \ {0}
    BY <1>1
  <2> QED
    BY <1>1, <1>5, <2>1, <2>2, <2>3 DEF Typed
<1>7. \A c, id, k, s : ~Registered(c) /\ ~Holds(id, k) /\ (s \in Statements => ~OwnedBy(c, s))
  BY <1>2, <1>3, <1>4 DEF Registered, Holds, OwnedBy
<1>8. RegistryTyped /\ OneHand /\ Ended /\ Apart
  BY <1>1, <1>2, <1>7 DEF RegistryTyped, OneHand, Ended, Apart
<1>9. Numbered
  <2>1. 0 + 0 <= MaximumReturned /\ \A s \in Statements : Received(s, NotBound) = {}
    BY <1>3, CallsAssumption DEF Received
  <2> QED
    BY <1>3, <1>4, <2>1 DEF Numbered
<1>10. Counted
  <2>1. Handles = {}
    BY <1>2 DEF Handles
  <2>2. Cardinality(Handles) = 0
    BY <2>1, FS_EmptySet
  <2> QED
    BY <1>1, <2>2, CallsAssumption DEF Counted
<1> QED
  BY <1>5, <1>6, <1>8, <1>9, <1>10 DEF Hands

(* A function's statement is answered, or it throws.                       *)
LEMMA RunsKeepHands ==
    ASSUME Hands, Typed, NEW s \in Statements, Run(s) \/ RunPinned(s)
    PROVE  Hands' /\ UNCHANGED registryVars
<1>1. /\ At(s, "run") /\ UNCHANGED registryVars
      /\ \/ \E given, implicit \in Counts : Answered(s, given, implicit)
         \/ Throws(s) \/ ThrowsPoisoning(s)
  BY DEF Run, RunPinned, Counts
<1>2. CASE \E given, implicit \in Counts : Answered(s, given, implicit)
  BY <1>1, <1>2, AnswersKeepHands
<1>3. CASE Throws(s) \/ ThrowsPoisoning(s)
  <2>1. Running(s)
    BY <1>1 DEF At
  <2>2. statement \in [Statements -> Use] /\ \A t \in Statements : Alike(statement[t], statement[t])
    BY DEF Hands, Used, Alike
  <2>3. Carries(s)
    BY <1>3, <2>2, PoisoningCarries DEF Throws, Carries, Done
  <2> QED
    BY <1>1, <2>1, <2>3, CarryingKeepsHands
<1> QED
  BY <1>1, <1>2, <1>3

LEMMA FunctionStepsKeepHands ==
    ASSUME Hands, Typed, FunctionStep
    PROVE  Hands' /\ next_call_id' \in 0..MaximumCallId
<1>1. next_call_id \in 0..MaximumCallId
  BY DEF Typed
<1>2. PICK s \in Statements :
         \/ Carrying(s) \/ Run(s) \/ RunPinned(s) \/ Register(s)
         \/ \E id \in 1..MaximumCallId : CloseCall(s, id) \/ \E k \in 1..MaximumReturned : Take(s, id, k)
  BY DEF FunctionStep, Carrying
<1>3. CASE Carrying(s)
  <2>1. Running(s) /\ UNCHANGED registryVars /\ Carries(s)
    BY <1>3, StepsCarry
  <2>2. Hands'
    BY <2>1, CarryingKeepsHands
  <2> QED
    BY <1>1, <2>1, <2>2 DEF registryVars
<1>4. CASE Run(s) \/ RunPinned(s)
  <2>1. Hands' /\ UNCHANGED registryVars
    BY <1>4, RunsKeepHands
  <2> QED
    BY <1>1, <2>1 DEF registryVars
<1>5. CASE Register(s)
  BY <1>5, RegisteringKeepsHands
<1>6. CASE \E id \in 1..MaximumCallId : CloseCall(s, id) \/ \E k \in 1..MaximumReturned : Take(s, id, k)
  <2> PICK id \in 1..MaximumCallId : CloseCall(s, id) \/ \E k \in 1..MaximumReturned : Take(s, id, k)
    BY <1>6
  <2>1. CASE CloseCall(s, id)
    BY <1>1, <2>1, ClosingOneKeepsHands
  <2>2. CASE \E k \in 1..MaximumReturned : Take(s, id, k)
    BY <1>1, <2>2, TakingKeepsHands
  <2> QED
    BY <2>1, <2>2
<1> QED
  BY <1>2, <1>3, <1>4, <1>5, <1>6

LEMMA UserStepsKeepHands ==
    ASSUME Hands, Typed, UserStep
    PROVE  Hands' /\ next_call_id' \in 0..MaximumCallId
<1>1. next_call_id \in 0..MaximumCallId
  BY DEF Typed
<1>2. statement \in [Statements -> Use] /\ \A t \in Statements : Alike(statement[t], statement[t])
  BY DEF Hands, Used, Alike
<1>3. CASE \E s \in Statements : \E function \in program[s] : \E asked \in function.asked :
             BindFunction(s, function, asked)
  <2> PICK s \in Statements : \E function \in program[s] : \E asked \in function.asked : BindFunction(s, function, asked)
    BY <1>3
  <2> PICK function \in program[s] : \E asked \in function.asked : BindFunction(s, function, asked)
    OBVIOUS
  <2>1. function \in Functions
    BY ProgramsAssumption DEF Typed
  <2>2. Hands'
    BY <2>1, BindingKeepsHands
  <2> QED
    BY <1>1, <2>2 DEF BindFunction, registryVars
<1>4. CASE Begin \/ ReattachReadOnly
  <2>1. statement' = statement /\ opened' = opened /\ UNCHANGED registryVars
    BY <1>4 DEF Begin, ReattachReadOnly
  <2>2. Hands'
    BY <1>2, <2>1, AlikeKeepsHands
  <2> QED
    BY <1>1, <2>1, <2>2 DEF registryVars
<1>5. CASE CloseAll
  BY <1>1, <1>5, ClosingAllKeepsHands
<1>6. CASE \E outcome \in {"kept", "undone"}, acknowledged \in BOOLEAN : EndTransaction(outcome, acknowledged)
  <2> PICK outcome \in {"kept", "undone"} : \E acknowledged \in BOOLEAN : EndTransaction(outcome, acknowledged)
    BY <1>6
  <2>1. statement' = Resolved(statement, outcome) /\ opened' = opened /\ UNCHANGED registryVars
    BY DEF EndTransaction
  <2>2. statement' \in [Statements -> Use] /\ \A t \in Statements : Alike(statement[t], statement'[t])
    BY <1>2, <2>1, ResolvedIs DEF Same
  <2>3. Hands'
    BY <2>1, <2>2, AlikeKeepsHands
  <2> QED
    BY <1>1, <2>1, <2>3 DEF registryVars
<1> QED
  BY <1>3, <1>4, <1>5, <1>6 DEF UserStep

(* What the user and the transaction have is of its type.                  *)
LEMMA UserIsTyped ==
    ASSUME Typed, UserStep \/ FunctionStep
    PROVE  /\ explicit' \in BOOLEAN /\ failed' \in BOOLEAN /\ transaction' \in Nat \ {0}
           /\ pinned' \in [held : BOOLEAN, tainted : BOOLEAN, dirty : BOOLEAN]
<1> DEFINE UserTyped == explicit \in BOOLEAN /\ transaction \in Nat \ {0}
           PinTyped == failed \in BOOLEAN /\ pinned \in [held : BOOLEAN, tainted : BOOLEAN, dirty : BOOLEAN]
<1>1. UserTyped /\ PinTyped
  BY DEF Typed
<1>2. UNCHANGED userVars => UserTyped'
  BY <1>1 DEF userVars
<1>3. UNCHANGED pinVars => PinTyped'
  BY <1>1 DEF pinVars
<1>4. PoisonTransactionSession => PinTyped'
  BY DEF PoisonTransactionSession, NotPinned
<1>5. CASE UserStep
  <2>1. CASE \E s \in Statements : \E function \in program[s] : \E asked \in function.asked :
               BindFunction(s, function, asked)
    BY <1>2, <1>3, <2>1 DEF BindFunction
  <2>2. CASE Begin \/ ReattachReadOnly \/ CloseAll
    BY <1>1, <1>2, <1>3, <2>2 DEF Begin, ReattachReadOnly, CloseAll
  <2>3. CASE \E outcome \in {"kept", "undone"}, acknowledged \in BOOLEAN : EndTransaction(outcome, acknowledged)
    <3>1. /\ explicit' = FALSE /\ transaction' = transaction + 1 /\ failed' = FALSE /\ pinned' = NotPinned
      BY <2>3 DEF EndTransaction
    <3>2. NotPinned \in [held : BOOLEAN, tainted : BOOLEAN, dirty : BOOLEAN]
      BY DEF NotPinned
    <3>3. explicit' \in BOOLEAN /\ failed' \in BOOLEAN
      BY <3>1
    <3>4. transaction' \in Nat \ {0}
      BY <1>1, <3>1
    <3> QED
      BY <3>1, <3>2, <3>3, <3>4
  <2> QED
    BY <1>5, <2>1, <2>2, <2>3 DEF UserStep
<1>6. CASE FunctionStep
  <2> PICK s \in Statements :
         \/ RequireAutoCommit(s) \/ RequireWritable(s) \/ Execute(s) \/ DropPrepared(s)
         \/ OpenSession(s) \/ Run(s) \/ RunDdl(s) \/ Match(s) \/ CommitWork(s) \/ CloseSession(s)
         \/ Register(s) \/ ReadCursor(s)
         \/ \E id \in 1..MaximumCallId : CloseCall(s, id) \/ \E k \in 1..MaximumReturned : Take(s, id, k)
         \/ Pin(s) \/ Taint(s) \/ RunPinned(s) \/ MatchPinned(s) \/ CheckInterrupt(s)
    BY <1>6 DEF FunctionStep
  <2>1. CASE RequireAutoCommit(s) \/ RequireWritable(s) \/ Execute(s) \/ DropPrepared(s)
             \/ OpenSession(s) \/ Run(s) \/ RunDdl(s) \/ Match(s) \/ CommitWork(s) \/ CloseSession(s)
             \/ Register(s) \/ ReadCursor(s)
    BY <1>2, <1>3, <2>1 DEF RequireAutoCommit, RequireWritable, Execute, DropPrepared, OpenSession,
       Run, RunDdl, Match,
                            CommitWork, CloseSession, Register, ReadCursor
  <2>2. CASE \E id \in 1..MaximumCallId : CloseCall(s, id) \/ \E k \in 1..MaximumReturned : Take(s, id, k)
    BY <1>2, <1>3, <2>2 DEF CloseCall, Take
  <2>3. CASE Pin(s)
    <3>1. UserTyped'
      BY <1>2, <2>3 DEF Pin
    <3>2. PinTyped'
      BY <1>1, <1>4, <2>3 DEF Pin, ThrowsPoisoning
    <3> QED
      BY <3>1, <3>2
  <2>4. CASE Taint(s)
    BY <1>1, <1>2, <2>4 DEF Taint
  <2>5. CASE RunPinned(s)
    <3>1. UserTyped'
      BY <1>2, <2>5 DEF RunPinned
    <3>2. CASE ThrowsPoisoning(s)
      BY <1>4, <3>1, <3>2 DEF ThrowsPoisoning
    <3>3. CASE pinned' = [pinned EXCEPT !.dirty = @ \/ statement[s].function.dirties] /\ failed' = failed
      <4>1. (pinned.dirty \/ statement[s].function.dirties) \in BOOLEAN
        BY Zenon
      <4> QED
        BY <1>1, <3>1, <3>3, <4>1
    <3> QED
      BY <2>5, <3>2, <3>3 DEF RunPinned
  <2>6. CASE MatchPinned(s) \/ CheckInterrupt(s)
    BY <1>2, <1>3, <1>4, <2>6 DEF MatchPinned, CheckInterrupt, ThrowsPoisoning
  <2> QED
    BY <2>1, <2>2, <2>3, <2>4, <2>5, <2>6
<1> QED
  BY <1>5, <1>6

(* The invariant is inductive, ...                                         *)
LEMMA HandsAreKept ==
    ASSUME Hands, Typed, [CallsNext]_callsVars
    PROVE  Hands' /\ Typed'
<1>1. CASE CallsNext
  <2>1. Hands' /\ next_call_id' \in 0..MaximumCallId
    BY <1>1, FunctionStepsKeepHands, UserStepsKeepHands DEF CallsNext
  <2>2. /\ explicit' \in BOOLEAN /\ failed' \in BOOLEAN /\ transaction' \in Nat \ {0}
        /\ pinned' \in [held : BOOLEAN, tainted : BOOLEAN, dirty : BOOLEAN]
    BY <1>1, UserIsTyped DEF CallsNext
  <2>3. program' \in Programs
    BY <1>1 DEF CallsNext, Typed
  <2> QED
    BY <2>1, <2>2, <2>3 DEF Typed, Hands
<1>2. CASE UNCHANGED callsVars
  <2>1. /\ statement' = statement /\ opened' = opened /\ UNCHANGED registryVars /\ UNCHANGED userVars /\ UNCHANGED pinVars
        /\ program' = program
    BY <1>2 DEF callsVars
  <2>2. statement \in [Statements -> Use] /\ \A t \in Statements : Alike(statement[t], statement[t])
    BY DEF Hands, Used, Alike
  <2>3. Hands'
    BY <2>1, <2>2, AlikeKeepsHands
  <2> QED
    BY <2>1, <2>3 DEF Typed, Hands, registryVars, userVars, pinVars
<1> QED
  BY <1>1, <1>2

LEMMA OneOrNone ==
    ASSUME NEW S, \A x, y \in S : x = y
    PROVE  Cardinality(S) = IF S = {} THEN 0 ELSE 1
<1>1. CASE S = {}
  BY <1>1, FS_EmptySet
<1>2. CASE S # {}
  <2>1. PICK x : x \in S
    BY <1>2
  <2>2. S = {x}
    BY <2>1
  <2> QED
    BY <1>2, <2>2, FS_Singleton
<1> QED
  BY <1>1, <1>2

(* ... and says what the property does.                                    *)
LEMMA HandsAreOne ==
    ASSUME Hands
    PROVE  CursorsAreInOneHand
<1>1. ASSUME NEW c \in Cursors
      PROVE  LET owners == {s \in Statements : c \in statement[s].owned}
                 named == {h \in Handles : calls[h[1]][h[2]] = c}
             IN  Cardinality(owners) + Cardinality(named) = IF c \in opened THEN 1 ELSE 0
  <2> DEFINE owners == {s \in Statements : c \in statement[s].owned}
             named == {h \in Handles : calls[h[1]][h[2]] = c}
  <2>1. \A s : s \in owners <=> s \in Statements /\ OwnedBy(c, s)
    BY DEF OwnedBy
  <2>2. \A h \in Handles : h = <<h[1], h[2]>> /\ Holds(h[1], h[2])
    BY DEF Handles, Holds
  <2>3. \A id, k : Holds(id, k) => <<id, k>> \in Handles
    BY DEF Handles, Holds
  <2>4. named # {} <=> Registered(c)
    <3>1. ASSUME Registered(c) PROVE named # {}
      <4>1. PICK id, k : Holds(id, k) /\ calls[id][k] = c
        BY <3>1 DEF Registered, Holds
      <4>2. <<id, k>> \in named
        BY <2>3, <4>1
      <4> QED
        BY <4>2
    <3>2. ASSUME named # {} PROVE Registered(c)
      BY <2>2, <3>2 DEF Registered, Holds
    <3> QED
      BY <3>1, <3>2
  <2>5. \A g, h \in named : g = h
    <3> SUFFICES ASSUME NEW g \in named, NEW h \in named PROVE g = h
      OBVIOUS
    <3>1. /\ Holds(g[1], g[2]) /\ Holds(h[1], h[2]) /\ calls[g[1]][g[2]] = calls[h[1]][h[2]]
          /\ g = <<g[1], g[2]>> /\ h = <<h[1], h[2]>>
      BY <2>2
    <3>2. g[1] = h[1] /\ g[2] = h[2]
      BY <3>1 DEF Hands, OneHand
    <3> QED
      BY <3>1, <3>2
  <2>6. \A s, t \in owners : s = t
    BY <2>1 DEF Hands, OneHand
  <2>7. /\ c \in opened <=> named # {} \/ owners # {}
        /\ ~(named # {} /\ owners # {})
    BY <2>1, <2>4 DEF Hands, OneHand
  <2> HIDE DEF owners, named
  <2>8. Cardinality(owners) = IF owners = {} THEN 0 ELSE 1
    BY <2>6, OneOrNone
  <2>9. Cardinality(named) = IF named = {} THEN 0 ELSE 1
    BY <2>5, OneOrNone
  <2>10. Cardinality(owners) + Cardinality(named) = IF c \in opened THEN 1 ELSE 0
    BY <2>7, <2>8, <2>9
  <2> QED
    BY <2>10 DEF owners, named
<1>2. \A id \in DOMAIN calls : id # 0 /\ calls[id] # <<>>
  <2> SUFFICES ASSUME NEW id \in DOMAIN calls PROVE id # 0 /\ calls[id] # <<>>
    OBVIOUS
  <2>1. id \in 1..MaximumCallId /\ DOMAIN calls[id] # {}
    BY DEF Hands, RegistryTyped
  <2>2. DOMAIN <<>> = {}
    OBVIOUS
  <2> QED
    BY <2>1, <2>2, CallsAssumption
<1> QED
  BY <1>1, <1>2 DEF CursorsAreInOneHand, Hands, Counted, Handles, Cursors

(* Every cursor open at the server is the function's that received it, or  *)
(* the registry's under one handle, or the reader's that took it; and      *)
(* open_cursor_count counts the registered ones, whatever functions are    *)
(* bound, executed, dropped and interrupted in between, and wherever the   *)
(* call ids wrap round.                                                    *)
THEOREM EveryCursorHasOneOwner == CallsInit /\ [][CallsNext]_callsVars => []CursorsAreInOneHand
<1>1. CallsInit => Typed /\ Hands
  BY InitHands
<1>2. Typed /\ Hands /\ [CallsNext]_callsVars => Typed' /\ Hands'
  BY HandsAreKept
<1>3. Hands => CursorsAreInOneHand
  BY HandsAreOne
<1> QED
  BY <1>1, <1>2, <1>3, PTL

-----------------------------------------------------------------------------
(* What becomes of the work of a function, told by its record, by the      *)
(* transaction it is in, and by the cursors that keep its session.         *)
Transactional(u) == u.function.keeps = "transaction"
Committed(u) == \E i \in 1..(u.at - 1) : u.function.steps[i] \in {"commit", "ddl"}
RunsDdl(f) == \E i \in Positions(f) : f.steps[i] = "ddl"

Own(u) ==
    /\ u.function.keeps = "statement" /\ Committed(u) => u.work = "kept"
    /\ u.function.keeps = "nobody" => u.work # "kept"
    /\ u.answer = "none" => u.at = 1 /\ u.work = "none" /\ u.transaction = 0
    /\ u.answer = "running" /\ u.work = "kept" => Committed(u)
    /\ u.answer = "success" => u.at = Len(u.function.steps)
    /\ u.answer = "failed" /\ u.work = "kept" =>
         \/ u.function.steps[u.at] \in {"ddl", "commit", "close"}
         \/ u.function.steps[u.at] = "register" /\ u.function = OraclePlsql
    /\ Transactional(u) /\ u.answer = "failed" => u.work # "pending"
    /\ Transactional(u) /\ u.answer = "running" /\ u.at <= 4 => u.transaction = 0 /\ u.work = "none"
    /\ ~u.inside

Dated(u) ==
    Transactional(u) =>
        /\ u.transaction <= transaction
        /\ u.work = "pending" => u.transaction = transaction
        /\ u.work = "kept" => u.transaction < transaction
        /\ u.answer = "failed" /\ u.transaction = transaction => failed

(* A statement that failed in a transaction leaves none of it kept.        *)
Together(u, v) ==
    /\ Transactional(u) /\ Transactional(v) /\ u.transaction = v.transaction
    /\ u.work = "kept" /\ v.answer = "failed"
    => v.transaction = 0

Alone(u) == u.answer = "running" /\ u.at > 3 /\ RunsDdl(u.function) => ~explicit

Alive ==
    \A s \in Statements : LET u == statement[s] IN
        ~Transactional(u) /\ u.work = "pending" => u.answer = "running" \/ \E c \in opened : c[1] = s

Outcomes ==
    /\ \A s \in Statements : Own(statement[s]) /\ Dated(statement[s]) /\ Alone(statement[s])
    /\ \A s, t \in Statements : Together(statement[s], statement[t])
    /\ Alive

(* What a session has been through is known while it is pinned.            *)
Traced(u) ==
    u.answer = "running" /\ Transactional(u) =>
        /\ u.at > 4 => pinned.held \/ failed
        /\ u.at > 5 /\ u.function.steps[5] = "taint" /\ pinned.held => pinned.tainted

Traces ==
    /\ pooled # "dirty" /\ (pinned.dirty => pinned.tainted) /\ (~pinned.held => pinned = NotPinned)
    /\ \A s \in Statements : Traced(statement[s])

-----------------------------------------------------------------------------
(* What a use has committed so far, one step later.                        *)
LEMMA CommittedSoFar ==
    ASSUME NEW u, NEW v, u.at \in Positions(u.function), v.function = u.function
    PROVE  /\ v.at = u.at => (Committed(v) <=> Committed(u))
           /\ v.at = u.at + 1 => (Committed(v) <=> Committed(u) \/ u.function.steps[u.at] \in {"commit", "ddl"})
<1>1. u.at \in Nat \ {0}
  BY DEF Positions
<1>2. CASE v.at = u.at
  BY <1>1, <1>2 DEF Committed
<1>3. CASE v.at = u.at + 1
  <2>1. v.at - 1 = u.at
    BY <1>1, <1>3
  <2>2. \A i : i \in 1..u.at <=> i \in 1..(u.at - 1) \/ i = u.at
    BY <1>1
  <2>3. ~(v.at = u.at)
    BY <1>1, <1>3
  <2> QED
    BY <1>3, <2>1, <2>2, <2>3 DEF Committed
<1> QED
  BY <1>2, <1>3

LEMMA CommittedIs ==
    ASSUME NEW u, u.function \in Functions, u.at \in Positions(u.function), Committed(u)
    PROVE  /\ u.function.keeps = "statement"
           /\ \/ u.function.steps[u.at] = "close"
              \/ u.function.steps[u.at] = "register" /\ u.function = OraclePlsql
<1>1. PICK i \in 1..(u.at - 1) : u.function.steps[i] \in {"commit", "ddl"}
  BY DEF Committed
<1>2. i \in Positions(u.function) /\ i < u.at
  <2>1. Len(u.function.steps) \in Nat
    BY CoursesAreLong
  <2> QED
    BY <2>1 DEF Positions
<1> QED
  BY <1>1, <1>2, CommitsAreLate

-----------------------------------------------------------------------------
(* A step of a function, seen by the work: the next of its course or the   *)
(* end of it, after which sessions nobody keeps have lost what they did.   *)
Worked(work, v) ==
    v.work = work \/ (work = "pending" /\ v.work = "undone" /\ v.answer # "running" /\ ~Transactional(v))

After(s, work, moment, inside) ==
    LET u == statement[s]  v == statement'[s] IN
    /\ statement' \in [Statements -> Use]
    /\ v.function = u.function /\ v.transaction = moment /\ v.inside = inside /\ Worked(work, v)
    /\ \/ v.at = u.at + 1 /\ v.answer = "running" /\ u.at < Len(u.function.steps)
       \/ v.at = u.at /\ v.answer \in Done /\ (v.answer = "success" => u.at = Len(u.function.steps))
    /\ \A t \in Statements \ {s} : Same(statement[t], statement'[t]) /\ Worked(statement[t].work, statement'[t])
    /\ Alive'

(* The statements with a step's own changes, before they are settled.      *)
Prepares(s, all) ==
    /\ all \in [Statements -> Use]
    /\ all[s].function = statement[s].function /\ all[s].at = statement[s].at /\ all[s].answer = "running"
    /\ \A t \in Statements \ {s} : all[t] = statement[t]

(* What is known of a use after it ended, ...                              *)
LEMMA EndsAfter ==
    ASSUME Typed, NEW s \in Statements, NEW all, Prepares(s, all), NEW answer \in Done,
        Ends(s, all, answer),
           answer = "success" => statement[s].at = Len(Steps(s))
    PROVE  After(s, all[s].work, all[s].transaction, all[s].inside) /\ statement'[s].answer = answer
<1>1. all \in [Statements -> Use] /\ answer \in Answers
  BY DEF Prepares, Done, Answers
<1>2. statement' \in [Statements -> Use]
  BY <1>1, EndsIs
<1>3. LET u == all[s]  v == statement'[s] IN
        /\ v.function = u.function /\ v.at = u.at /\ v.answer = answer
        /\ v.transaction = u.transaction /\ v.inside = u.inside
  BY <1>1, EndsIs
<1>4. \A t \in Statements \ {s} : Same(all[t], statement'[t])
  BY <1>1, EndsIs
<1>5. \A t \in Statements : Settles(all[t], statement'[t], t)
  BY <1>1, EndsIs
<1>6. \A t \in Statements : statement'[t].function = all[t].function
  BY <1>3, <1>4 DEF Same, Alike
<1>7. \A t \in Statements : Worked(all[t].work, statement'[t])
  BY <1>5, <1>6 DEF Settles, Worked, Transactional
<1>8. Alive'
  BY <1>5, <1>6 DEF Alive, Settles, Transactional
<1>9. \A t \in Statements \ {s} : Same(statement[t], statement'[t]) /\ Worked(statement[t].work, statement'[t])
  BY <1>4, <1>7 DEF Prepares
<1> QED
  BY <1>2, <1>3, <1>7, <1>8, <1>9 DEF After, Prepares, Steps

(* ... and after it went on.                                               *)
LEMMA GoesAfter ==
    ASSUME Typed, Alive, NEW s \in Statements, NEW all, Prepares(s, all), Goes(s, all)
    PROVE  /\ After(s, all[s].work, all[s].transaction, all[s].inside)
           /\ statement'[s].answer \in {"running", "success"}
<1>1. all \in [Statements -> Use] /\ all[s].function = statement[s].function /\ all[s].at \in Positions(all[s].function)
  BY DEF Prepares, Typed, Used
<1>2. CASE Ends(s, all, "success") /\ all[s].at = Len(Steps(s))
  <2>1. "success" \in Done /\ (TRUE => statement[s].at = Len(Steps(s)))
    BY <1>2 DEF Done, Prepares
  <2> QED
    BY <1>2, <2>1, EndsAfter
<1>3. CASE /\ all[s].at < Len(Steps(s)) /\ opened' = opened
           /\ statement' \in [Statements -> Use]
           /\ LET u == all[s]  v == statement'[s] IN
                /\ v.function = u.function /\ v.at = u.at + 1 /\ v.answer = u.answer
                /\ v.transaction = u.transaction /\ v.inside = u.inside /\ v.work = u.work
           /\ \A t \in Statements \ {s} : statement'[t] = all[t]
  <2>1. \A t \in Statements \ {s} : statement'[t] = statement[t]
    BY <1>3 DEF Prepares
  <2>2. statement'[s].answer = "running"
    BY <1>3 DEF Prepares
  <2>3. Alive'
    BY <1>3, <2>1, <2>2 DEF Alive
  <2>4. \A t \in Statements \ {s} : Same(statement[t], statement'[t]) /\ Worked(statement[t].work, statement'[t])
    BY <2>1 DEF Same, Alike, Worked
  <2> QED
    BY <1>3, <2>2, <2>3, <2>4 DEF After, Prepares, Steps, Worked
<1> QED
  BY <1>1, <1>2, <1>3, GoesIs

LEMMA StatementsPrepare ==
    ASSUME Typed, NEW s \in Statements, Running(s)
    PROVE  Prepares(s, statement)
  BY DEF Prepares, Typed, Used, Running

-----------------------------------------------------------------------------
(* What a step leaves of the others.                                       *)
LEMMA OthersAreOwn ==
    ASSUME NEW u \in Use, NEW v \in Use, u.at \in Positions(u.function), Own(u), Same(u, v),
        Worked(u.work, v)
    PROVE  Own(v)
<1>1. /\ v.function = u.function /\ v.at = u.at /\ v.answer = u.answer
      /\ v.transaction = u.transaction /\ v.inside = u.inside
  BY DEF Same, Alike
<1>2. Committed(v) <=> Committed(u)
  BY <1>1, CommittedSoFar
<1>3. v.work = u.work \/ (u.work = "pending" /\ v.work = "undone" /\ u.answer # "running" /\ ~Transactional(u))
  BY <1>1 DEF Worked, Transactional
<1> QED
  BY <1>1, <1>2, <1>3 DEF Own, Transactional

(* A step of one use changes the others only where it undoes their work.   *)
LEMMA StepsKeepOthers ==
    ASSUME Typed, Outcomes, NEW s \in Statements, NEW work, NEW moment, NEW inside,
        After(s, work, moment, inside),
           UNCHANGED userVars, failed => failed'
    PROVE  \A t \in Statements \ {s} :
              Own(statement'[t]) /\ Dated(statement[t])' /\ Alone(statement[t])'
<1> SUFFICES ASSUME NEW t \in Statements \ {s}
             PROVE  Own(statement'[t]) /\ Dated(statement[t])' /\ Alone(statement[t])'
  OBVIOUS
<1> DEFINE u == statement[t]   v == statement'[t]
<1>1. u \in Use /\ v \in Use /\ Same(u, v) /\ Worked(u.work, v) /\ u.at \in Positions(u.function)
  BY DEF After, Typed, Used
<1>2. Own(u) /\ Dated(u) /\ Alone(u)
  BY DEF Outcomes
<1>3. Own(v)
  BY <1>1, <1>2, OthersAreOwn
<1>4. /\ v.function = u.function /\ v.at = u.at /\ v.answer = u.answer /\ v.transaction = u.transaction
      /\ Transactional(u) => v.work = u.work
  BY <1>1 DEF Same, Alike, Worked, Transactional
<1>5. explicit' = explicit /\ transaction' = transaction
  BY DEF userVars
<1>6. Dated(statement[t])'
  BY <1>2, <1>4, <1>5 DEF Dated, Transactional
<1>7. Alone(statement[t])'
  BY <1>2, <1>4, <1>5 DEF Alone
<1> QED
  BY <1>3, <1>6, <1>7

(* A step of `s' that keeps what it says itself keeps it all.              *)
LEMMA StepsKeepOutcomes ==
    ASSUME Typed, Outcomes, NEW s \in Statements, NEW work, NEW moment, NEW inside,
        After(s, work, moment, inside),
           UNCHANGED userVars, failed => failed', Running(s),
           Own(statement'[s]), Dated(statement[s])', Alone(statement[s])',
           LET v == statement'[s] IN
             /\ Transactional(v) => v.work # "kept"
             /\ Transactional(v) /\ v.answer = "failed" => v.transaction = 0
    PROVE  Outcomes'
<1>1. \A t \in Statements \ {s} : Own(statement'[t]) /\ Dated(statement[t])' /\ Alone(statement[t])'
  BY StepsKeepOthers
<1>2. \A t \in Statements \ {s} : LET u == statement[t]  v == statement'[t] IN
        /\ v.function = u.function /\ v.answer = u.answer /\ v.transaction = u.transaction
        /\ Transactional(u) => v.work = u.work
  BY DEF After, Same, Alike, Worked, Transactional
<1>3. \A r, t \in Statements : Together(statement[r], statement[t])'
  <2> SUFFICES ASSUME NEW r \in Statements, NEW t \in Statements
               PROVE  Together(statement'[r], statement'[t])
    BY DEF Together, Transactional
  <2>1. CASE r = s
    BY <2>1 DEF Together
  <2>2. CASE t = s
    BY <2>2 DEF Together
  <2>3. CASE r # s /\ t # s
    <3>1. Together(statement[r], statement[t])
      BY DEF Outcomes
    <3> QED
      BY <1>2, <2>3, <3>1 DEF Together, Transactional
  <2> QED
    BY <2>1, <2>2, <2>3
<1>4. Alive'
  BY DEF After
<1> QED
  BY <1>1, <1>3, <1>4 DEF Outcomes, Own, Transactional, Committed

(* Steps that neither send anything nor commit.                            *)
LEMMA PlainStepsKeepOutcomes ==
    ASSUME Typed, Outcomes, NEW s \in Statements, Running(s),
           After(s, statement[s].work, statement[s].transaction, statement[s].inside),
           UNCHANGED userVars, failed => failed', Step(s) \notin {"commit", "ddl"},
           Step(s) = "autocommit" => ~explicit \/ statement'[s].answer = "failed",
           statement'[s].answer = "failed" => ~Transactional(statement[s]) \/ statement[s].at <= 4
    PROVE  Outcomes'
<1> DEFINE u == statement[s]   v == statement'[s]   f == u.function
<1>1. u \in Use /\ v \in Use /\ f \in Functions /\ u.at \in Positions(f) /\ u.at \in Nat \ {0} /\ u.answer = "running"
  BY DEF After, Typed, Used, Use, Running, Positions
<1>2. /\ v.function = f /\ v.transaction = u.transaction /\ v.inside = u.inside
      /\ v.work = u.work \/ (u.work = "pending" /\ v.work = "undone" /\ v.answer # "running" /\ ~Transactional(u))
      /\ \/ v.at = u.at + 1 /\ v.answer = "running"
         \/ v.at = u.at /\ v.answer \in Done /\ (v.answer = "success" => u.at = Len(f.steps))
  BY DEF After, Worked, Transactional
<1>3. Own(u) /\ Dated(u) /\ Alone(u)
  BY DEF Outcomes
<1>4. Committed(v) <=> Committed(u)
  BY <1>1, <1>2, CommittedSoFar DEF Step, Steps
<1>5. Committed(u) => f.keeps = "statement" /\ (f.steps[u.at] = "close" \/ (f.steps[u.at] = "register" /\ f = OraclePlsql))
  BY <1>1, CommittedIs
<1>6. Transactional(u) => u.work # "kept"
  BY <1>1, <1>3, <1>5 DEF Own, Transactional
<1>7. Transactional(u) /\ u.at <= 4 => u.transaction = 0 /\ u.work = "none"
  BY <1>1, <1>3 DEF Own
<1>8. Own(v)
  <2>1. v.at = u.at \/ (v.at = u.at + 1 /\ v.answer = "running" /\ (v.at <= 4 => u.at <= 4))
    BY <1>1, <1>2
  <2>2. v.answer \in {"running", "success", "failed", "dropped"} /\ v.answer # "none"
    BY <1>2 DEF Done
  <2> HIDE DEF u, v, f
  <2>3. /\ v.function.keeps = "statement" /\ Committed(v) => v.work = "kept"
        /\ v.function.keeps = "nobody" => v.work # "kept"
        /\ v.answer = "running" /\ v.work = "kept" => Committed(v)
    BY <1>1, <1>2, <1>3, <1>4 DEF Own, f
  <2>4. v.answer = "success" => v.at = Len(v.function.steps)
    BY <1>1, <1>2, <2>1
  <2>5. v.answer = "failed" /\ v.work = "kept" =>
         \/ v.function.steps[v.at] \in {"ddl", "commit", "close"}
         \/ v.function.steps[v.at] = "register" /\ v.function = OraclePlsql
    BY <1>1, <1>2, <1>3, <1>5, <2>1 DEF Own, f
  <2>6. /\ Transactional(v) /\ v.answer = "failed" => v.work # "pending"
        /\ Transactional(v) /\ v.answer = "running" /\ v.at <= 4 => v.transaction = 0 /\ v.work = "none"
    BY <1>2, <1>7, <2>1 DEF Transactional, u, v, f
  <2>7. ~v.inside
    BY <1>2, <1>3 DEF Own
  <2> QED
    BY <2>2, <2>3, <2>4, <2>5, <2>6, <2>7 DEF Own
<1>9. transaction' = transaction /\ explicit' = explicit /\ transaction \in Nat \ {0}
  BY DEF userVars, Typed
<1>10. Transactional(v) /\ v.answer = "failed" => v.transaction = 0
  BY <1>2, <1>7 DEF Transactional
<1>11. Dated(statement[s])'
  <2>1. Transactional(v) =>
           /\ v.transaction <= transaction
           /\ v.work = "pending" => v.transaction = transaction
           /\ v.work = "kept" => v.transaction < transaction
           /\ v.answer = "failed" => v.transaction # transaction
    <3> HIDE DEF u, v, f
    <3> QED
      BY <1>2, <1>3, <1>9, <1>10 DEF Dated, Transactional, f
  <2> QED
    BY <1>9, <2>1 DEF Dated, Transactional
<1>12. Alone(statement[s])'
  <2> SUFFICES ASSUME v.answer = "running", v.at > 3, RunsDdl(f) PROVE ~explicit
    BY <1>2, <1>9 DEF Alone
  <2>1. v.at = u.at + 1
    BY <1>2 DEF Done
  <2>2. CASE u.at > 3
    BY <1>1, <1>3, <2>2 DEF Alone
  <2>3. CASE u.at = 3
    <3>1. f.steps[3] = "autocommit"
      BY <1>1, CommitsAreLate DEF RunsDdl
    <3> QED
      BY <2>3, <3>1 DEF Step, Steps
  <2> QED
    BY <1>1, <2>1, <2>2, <2>3
<1>13. Transactional(v) => v.work # "kept"
  BY <1>2, <1>6 DEF Transactional
<1> QED
  <2> HIDE DEF f
  <2> QED
    BY <1>8, <1>10, <1>11, <1>12, <1>13, StepsKeepOutcomes

(* Steps that commit what was done, or learn that they did not.            *)
LEMMA CommitsKeepOutcomes ==
    ASSUME Typed, Outcomes, NEW s \in Statements, Running(s), NEW work, NEW inside,
           After(s, work, statement[s].transaction, inside), ~inside,
           UNCHANGED userVars, failed => failed', Step(s) \in {"commit", "ddl"},
           statement'[s].answer # "dropped", work = "kept" \/ statement'[s].answer = "failed"
    PROVE  Outcomes'
<1> DEFINE u == statement[s]   v == statement'[s]   f == u.function
<1>1. u \in Use /\ f \in Functions /\ u.at \in Positions(f) /\ u.at \in Nat \ {0} /\ u.answer = "running"
      /\ f.steps[u.at] \in {"commit", "ddl"}
  BY DEF Typed, Used, Use, Running, Positions, Step, Steps
<1>2. f.keeps = "statement" /\ u.at < Len(f.steps)
  BY <1>1, CommitsAreLate
<1>3. /\ v.function = f /\ v.transaction = u.transaction /\ ~v.inside
      /\ \/ v.at = u.at + 1 /\ v.answer = "running" /\ v.work = "kept"
         \/ v.at = u.at /\ v.answer = "failed"
  <2>1. v.answer = "success" => u.at = Len(f.steps)
    BY <1>1 DEF After, Done
  <2>2. v.answer # "success"
    BY <1>1, <1>2, <2>1
  <2> QED
    BY <2>2 DEF After, Worked, Done
<1>4. Own(u) /\ Alone(u)
  BY DEF Outcomes
<1>5. ~Committed(u)
  BY <1>1, CommittedIs
<1>6. Committed(v) <=> v.answer = "running"
  BY <1>1, <1>3, <1>5, CommittedSoFar
<1>7. ~Transactional(v)
  BY <1>2, <1>3 DEF Transactional
<1>8. Own(v)
  BY <1>1, <1>2, <1>3, <1>6, <1>7 DEF Own
<1>9. Dated(statement[s])'
  BY <1>7 DEF Dated, Transactional
<1>10. Alone(statement[s])'
  <2> SUFFICES ASSUME v.answer = "running", v.at > 3, RunsDdl(f) PROVE ~explicit
    BY <1>3 DEF Alone, userVars
  <2>1. f.steps[2] = "ready" /\ f.steps[3] = "autocommit" /\ Len(f.steps) \in Nat /\ u.at >= 3
    BY <1>1, <1>3, CommitsAreLate, CoursesAreLong DEF RunsDdl
  <2>2. u.at > 3
    BY <1>1, <2>1
  <2> QED
    BY <1>1, <1>4, <2>2 DEF Alone
<1> QED
  <2> HIDE DEF f
  <2> QED
    BY <1>7, <1>8, <1>9, <1>10, StepsKeepOutcomes

(* The answer to what was sent: work that is pending in its transaction.   *)
LEMMA AnswersAfter ==
    ASSUME Typed, Outcomes, NEW s \in Statements, At(s, "run"), NEW given \in Counts,
        NEW implicit \in Counts,
           Answered(s, given, implicit)
    PROVE  /\ After(s, "pending", transaction, statement[s].inside)
           /\ statement'[s].at = statement[s].at + 1 /\ statement'[s].answer = "running"
<1> DEFINE cursors == {<<s, k>> : k \in 1..(given + implicit)}   u == statement[s]
<1>1. u \in Use /\ statement \in [Statements -> Use] /\ u.function \in Functions /\ u.at \in Positions(u.function)
      /\ u.at \in Nat /\ u.answer = "running" /\ u.function.steps[u.at] = "run" /\ transaction \in Nat
  BY DEF At, Typed, Used, Use, Running, Step, Steps
<1>2. u.at < Len(u.function.steps)
  BY <1>1, CursorsComeOnce
<1>3. given + implicit <= MaximumReturned /\ given \in Nat /\ implicit \in Nat /\ MaximumReturned \in Nat
  BY CallsAssumption DEF Answered, Counts
<1>4. cursors \in SUBSET Cursors
  BY <1>3 DEF Cursors
<1>5. /\ opened' = opened \cup cursors
      /\ statement' = [statement EXCEPT ![s] = [@ EXCEPT !.at = statement[s].at + 1, !.owned = cursors,
               !.returned = <<given, implicit>>, !.work = "pending", !.transaction = transaction]]
  BY DEF Answered
<1> DEFINE w == [statement[s] EXCEPT !.at = statement[s].at + 1, !.owned = cursors,
                     !.returned = <<given, implicit>>, !.work = "pending", !.transaction = transaction]
<1> HIDE DEF cursors
<1>6. w \in Use
  <2>1. u.at + 1 \in Nat /\ <<given, implicit>> \in Counts \X Counts /\ "pending" \in Works
    BY <1>1 DEF Works
  <2> QED
    BY <1>1, <1>4, <2>1 DEF Use
<1>7. /\ w.function = u.function /\ w.at = u.at + 1 /\ w.answer = "running" /\ w.work = "pending"
      /\ w.transaction = transaction /\ w.inside = u.inside
  BY <1>1 DEF Use
<1>8. statement' = [statement EXCEPT ![s] = w]
  BY <1>5
<1> HIDE DEF w
<1>9. statement' \in [Statements -> Use] /\ statement'[s] = w /\ \A t \in Statements \ {s} : statement'[t] = statement[t]
  BY <1>1, <1>6, <1>8
<1>10. \A t \in Statements \ {s} : Same(statement[t], statement'[t]) /\ Worked(statement[t].work, statement'[t])
  BY <1>9 DEF Same, Alike, Worked
<1>11. Alive'
  BY <1>5, <1>7, <1>9 DEF Outcomes, Alive, Transactional
<1> QED
  BY <1>2, <1>7, <1>9, <1>10, <1>11 DEF After, Worked

(* The server's answer to a statement: its work is kept, pending, or       *)
(* undone.                                                                 *)
LEMMA AnswersKeepOutcomes ==
    ASSUME Typed, Outcomes, NEW s \in Statements, At(s, "run"), UNCHANGED userVars, failed => failed',
           After(s, "pending", transaction, statement[s].inside),
           statement'[s].at = statement[s].at + 1, statement'[s].answer = "running"
    PROVE  Outcomes'
<1> DEFINE u == statement[s]   v == statement'[s]   f == u.function
<1>1. u \in Use /\ f \in Functions /\ u.at \in Positions(f) /\ u.at \in Nat \ {0} /\ u.answer = "running"
      /\ f.steps[u.at] = "run" /\ Running(s)
  BY DEF At, Typed, Used, Use, Running, Positions, Step, Steps
<1>2. /\ v.function = f /\ v.transaction = transaction /\ v.inside = u.inside /\ v.work = "pending"
      /\ v.at = u.at + 1 /\ v.answer = "running"
  BY DEF After, Worked
<1>3. Own(u) /\ Alone(u)
  BY DEF Outcomes
<1>4. ~Committed(v)
  <2>1. ~Committed(u)
    BY <1>1, CommittedIs
  <2> QED
    BY <1>1, <1>2, <2>1, CommittedSoFar
<1>5. Transactional(v) => v.at > 4
  <2> SUFFICES ASSUME Transactional(u) PROVE u.at > 4
    BY <1>1, <1>2 DEF Transactional
  <2>1. f.steps[1] # "run" /\ f.steps[2] # "run" /\ f.steps[3] # "run" /\ f.steps[4] # "run"
    BY <1>1, PinsAreFourth DEF Transactional
  <2> QED
    BY <1>1, <2>1
<1>6. Own(v)
  <2>1. ~v.inside
    BY <1>2, <1>3 DEF Own
  <2>2. ~(v.at <= 4 /\ v.at > 4)
    BY <1>1, <1>2
  <2> QED
    BY <1>2, <1>4, <1>5, <2>1, <2>2 DEF Own
<1>7. Dated(statement[s])'
  BY <1>2 DEF Dated, Transactional, userVars, Typed
<1>8. Alone(statement[s])'
  <2> SUFFICES ASSUME v.at > 3, RunsDdl(f) PROVE ~explicit
    BY <1>2 DEF Alone, userVars
  <2>1. f.steps[3] = "autocommit"
    BY <1>1, CommitsAreLate DEF RunsDdl
  <2>2. u.at > 3
    BY <1>1, <1>2, <2>1
  <2> QED
    BY <1>1, <1>3, <2>2 DEF Alone
<1> QED
  <2> HIDE DEF f
  <2> QED
    BY <1>1, <1>2, <1>6, <1>7, <1>8, StepsKeepOutcomes

-----------------------------------------------------------------------------
(* A throw after "pin" undoes what is pending of its transaction.          *)
Undoes(u, v) ==
    /\ Same(u, v)
    /\ Transactional(u) => v.work = IF u.work = "pending" THEN "undone" ELSE u.work
    /\ ~Transactional(u) => Worked(u.work, v)

(* A failure in the transaction undoes all its pending work, ...           *)
LEMMA PoisoningUndoes ==
    ASSUME Typed, NEW s \in Statements, Running(s), ThrowsPoisoning(s)
    PROVE  /\ statement' \in [Statements -> Use] /\ Alive' /\ failed' = TRUE /\ pinned' = NotPinned
           /\ pooled' = pooled
           /\ LET u == statement[s]  v == statement'[s] IN
                /\ v.function = u.function /\ v.at = u.at /\ v.answer = "failed" /\ v.transaction = transaction
                /\ v.inside = u.inside
                /\ Transactional(u) => v.work = IF u.work = "pending" THEN "undone" ELSE u.work
           /\ \A t \in Statements \ {s} : Undoes(statement[t], statement'[t])
<1> DEFINE left == [statement EXCEPT ![s].transaction = transaction]   all == Resolved(left, "undone")
<1>1. statement \in [Statements -> Use] /\ transaction \in Nat
  BY DEF Typed, Used
<1>2. /\ left \in [Statements -> Use] /\ \A t \in Statements \ {s} : left[t] = statement[t]
      /\ LET u == statement[s]  v == left[s] IN
           /\ v.function = u.function /\ v.at = u.at /\ v.answer = u.answer /\ v.inside = u.inside
           /\ v.work = u.work /\ v.transaction = transaction
  BY <1>1 DEF Use
<1> HIDE DEF left
<1>3. /\ all \in [Statements -> Use]
      /\ \A t \in Statements :
           /\ Same(left[t], all[t])
           /\ all[t].work = IF InItsTransaction(t) THEN "undone" ELSE left[t].work
  BY <1>2, ResolvedIs
<1>4. Ends(s, all, "failed") /\ failed' = TRUE /\ pinned' = NotPinned /\ pooled' = pooled
  BY DEF ThrowsPoisoning, PoisonTransactionSession, left
<1> HIDE DEF all
<1>5. "failed" \in Answers
  BY DEF Answers
<1>6. statement' \in [Statements -> Use]
  BY <1>3, <1>4, <1>5, EndsIs
<1>7. LET u == all[s]  v == statement'[s] IN
        /\ v.function = u.function /\ v.at = u.at /\ v.answer = "failed"
        /\ v.transaction = u.transaction /\ v.inside = u.inside
  BY <1>3, <1>4, <1>5, EndsIs
<1>8. \A t \in Statements \ {s} : Same(all[t], statement'[t])
  BY <1>3, <1>4, <1>5, EndsIs
<1>9. \A t \in Statements : Settles(all[t], statement'[t], t)
  BY <1>3, <1>4, <1>5, EndsIs
<1>10. \A t \in Statements : statement'[t].function = all[t].function /\ all[t].function = statement[t].function
  BY <1>2, <1>3, <1>7, <1>8 DEF Same, Alike
<1>11. Alive'
  BY <1>9, <1>10 DEF Alive, Settles, Transactional
<1>12. \A t \in Statements : InItsTransaction(t) <=> Transactional(statement[t]) /\ statement[t].work = "pending"
  BY DEF InItsTransaction, Keeps, Transactional
<1>13. \A t \in Statements : Transactional(statement[t]) => statement'[t].work = all[t].work
  BY <1>9, <1>10 DEF Settles, Transactional
<1>14. LET u == statement[s]  v == statement'[s] IN
         /\ v.function = u.function /\ v.at = u.at /\ v.answer = "failed" /\ v.transaction = transaction
         /\ v.inside = u.inside
         /\ Transactional(u) => v.work = IF u.work = "pending" THEN "undone" ELSE u.work
  BY <1>2, <1>3, <1>7, <1>12, <1>13 DEF Same, Alike
<1>15. ASSUME NEW t \in Statements \ {s} PROVE Undoes(statement[t], statement'[t])
  <2>1. Same(statement[t], statement'[t])
    BY <1>2, <1>3, <1>8 DEF Same, Alike
  <2>2. all[t].work = IF Transactional(statement[t]) /\ statement[t].work = "pending" THEN "undone" ELSE statement[t].work
    BY <1>2, <1>3, <1>12
  <2>3. ~Transactional(statement[t]) => Worked(statement[t].work, statement'[t])
    BY <2>2, <1>9, <1>10 DEF Settles, Worked, Transactional
  <2> QED
    BY <2>1, <2>2, <2>3, <1>13 DEF Undoes
<1> QED
  BY <1>4, <1>6, <1>11, <1>14, <1>15

(* ... so that nothing of it is kept beside a failure.                     *)
LEMMA PoisoningKeepsOutcomes ==
    ASSUME Typed, Outcomes, NEW s \in Statements, Running(s), Transactional(statement[s]),
        ThrowsPoisoning(s),
           UNCHANGED userVars
    PROVE  Outcomes'
<1> DEFINE u == statement[s]   v == statement'[s]
<1>1. statement' \in [Statements -> Use] /\ Alive' /\ failed' = TRUE
  BY PoisoningUndoes
<1>2. /\ v.function = u.function /\ v.at = u.at /\ v.answer = "failed" /\ v.transaction = transaction
      /\ v.inside = u.inside /\ v.work = IF u.work = "pending" THEN "undone" ELSE u.work
  BY PoisoningUndoes
<1>3. \A t \in Statements \ {s} : Undoes(statement[t], statement'[t])
  BY PoisoningUndoes
<1>4. /\ u \in Use /\ u.function \in Functions /\ u.at \in Positions(u.function) /\ u.answer = "running" /\ Own(u)
      /\ explicit' = explicit /\ transaction' = transaction /\ transaction \in Nat
  BY DEF Typed, Used, Use, Running, Outcomes, userVars
<1>5. u.work # "kept" /\ u.function.keeps = "transaction"
  BY <1>4, CommittedIs DEF Own, Transactional
<1>6. Own(v) /\ Transactional(v) /\ v.work # "kept"
  BY <1>2, <1>4, <1>5 DEF Own, Transactional
<1>7. ASSUME NEW t \in Statements \ {s}
      PROVE  Own(statement'[t]) /\ Dated(statement[t])' /\ Alone(statement[t])'
             /\ statement'[t].answer = statement[t].answer /\ statement'[t].transaction = statement[t].transaction
             /\ statement'[t].function = statement[t].function
             /\ (Transactional(statement[t]) /\ statement'[t].work = "kept" => statement[t].work = "kept")
  <2> DEFINE x == statement[t]   y == statement'[t]
  <2>1. x \in Use /\ y \in Use /\ x.at \in Positions(x.function) /\ Own(x) /\ Dated(x) /\ Alone(x)
    BY <1>1 DEF Typed, Used, Outcomes
  <2>2. /\ y.function = x.function /\ y.at = x.at /\ y.answer = x.answer /\ y.transaction = x.transaction
        /\ y.inside = x.inside
    BY <1>3 DEF Undoes, Same, Alike
  <2>3. Transactional(x) => y.work = IF x.work = "pending" THEN "undone" ELSE x.work
    BY <1>3 DEF Undoes
  <2>4. Own(y)
    <3>1. CASE Transactional(x)
      <4>1. Committed(y) <=> Committed(x)
        BY <2>1, <2>2, CommittedSoFar
      <4> QED
        BY <2>1, <2>2, <2>3, <3>1, <4>1 DEF Own, Transactional
    <3>2. CASE ~Transactional(x)
      BY <1>3, <2>1, <3>2, OthersAreOwn DEF Undoes
    <3> QED
      BY <3>1, <3>2
  <2>5. Dated(statement[t])'
    BY <1>1, <1>4, <2>1, <2>2, <2>3 DEF Dated, Transactional
  <2>6. Alone(statement[t])'
    BY <1>4, <2>1, <2>2 DEF Alone
  <2> QED
    BY <2>2, <2>3, <2>4, <2>5, <2>6
<1>8. Dated(statement[s])' /\ Alone(statement[s])'
  BY <1>1, <1>2, <1>4, <1>5, <1>6 DEF Dated, Alone
<1>9. \A r, t \in Statements : Together(statement[r], statement[t])'
  <2> SUFFICES ASSUME NEW r \in Statements, NEW t \in Statements
               PROVE  Together(statement'[r], statement'[t])
    BY DEF Together, Transactional
  <2>1. CASE r = s
    BY <1>6, <2>1 DEF Together
  <2>2. CASE r # s /\ t = s
    <3>1. Dated(statement[r])
      BY DEF Outcomes
    <3>2. Transactional(statement'[r]) /\ statement'[r].work = "kept" => statement'[r].transaction < transaction
      BY <1>7, <2>2, <3>1 DEF Dated, Transactional
    <3>3. statement[r].transaction \in Nat
      BY DEF Typed, Used, Use
    <3>4. statement'[r].transaction = statement[r].transaction
      BY <1>7, <2>2
    <3> QED
      BY <1>2, <1>4, <2>2, <3>2, <3>3, <3>4 DEF Together
  <2>3. CASE r # s /\ t # s
    <3>1. Together(statement[r], statement[t])
      BY DEF Outcomes
    <3> QED
      BY <1>7, <2>3, <3>1 DEF Together, Transactional
  <2> QED
    BY <2>1, <2>2, <2>3
<1> QED
  BY <1>1, <1>6, <1>7, <1>8, <1>9 DEF Outcomes, Own, Transactional, Committed

-----------------------------------------------------------------------------
(* What the user does between statements.                                  *)
LEMMA CoursesAreSequences ==
    \A f \in Functions : f.steps \in Seq(StepNames)
<1> SUFFICES ASSUME NEW f \in Functions
             PROVE  f.steps \in Seq(StepNames)
  OBVIOUS
<1>1. CASE IsOf(f, ExecuteSteps, "statement", FALSE)
  BY <1>1 DEF ExecuteSteps, IsOf, StepNames
<1>2. CASE IsOf(f, AdminSteps, "statement", FALSE)
  BY <1>2 DEF AdminSteps, IsOf, StepNames
<1>3. CASE IsOf(f, ScalarSteps, "nobody", TRUE)
  BY <1>3 DEF ScalarSteps, IsOf, StepNames
<1>4. CASE IsOf(f, OpenSteps, "nobody", TRUE)
  BY <1>4 DEF OpenSteps, IsOf, StepNames
<1>5. CASE IsOf(f, PlsqlSteps, "statement", TRUE)
  BY <1>5 DEF PlsqlSteps, IsOf, StepNames
<1>6. CASE IsOf(f, StatementSteps, "transaction", FALSE)
  BY <1>6 DEF StatementSteps, IsOf, StepNames
<1>7. CASE IsOf(f, ManySteps, "transaction", FALSE)
  BY <1>7 DEF ManySteps, IsOf, StepNames
<1>8. CASE IsOf(f, CompositeSteps, "transaction", FALSE)
  BY <1>8 DEF CompositeSteps, IsOf, StepNames
<1>9. CASE IsOf(f, BlockSteps, "transaction", TRUE)
  BY <1>9 DEF BlockSteps, IsOf, StepNames
<1>10. CASE IsOf(f, ArgumentsSteps, "nobody", FALSE)
  BY <1>10 DEF ArgumentsSteps, IsOf, StepNames
<1>11. CASE IsOf(f, CursorSteps, "nobody", FALSE)
  BY <1>11 DEF CursorSteps, IsOf, StepNames
<1>12. CASE IsOf(f, CloseSteps, "nobody", FALSE)
  BY <1>12 DEF CloseSteps, IsOf, StepNames
<1> QED
  BY Courses, <1>1, <1>2, <1>3, <1>4, <1>5, <1>6, <1>7, <1>8, <1>9, <1>10, <1>11, <1>12 DEF Course

LEMMA ExecutingIs ==
    ASSUME Typed, NEW s \in Statements, Running(s), Steps(s)[2] = "ready", statement[s].at > 2
    PROVE  Executing(s)
<1> DEFINE f == statement[s].function   n == statement[s].at - 1
<1>1. /\ f \in Functions /\ statement[s].at \in Nat /\ statement[s].at <= Len(f.steps)
      /\ Steps(s) = f.steps /\ f.steps \in Seq(StepNames) /\ Len(f.steps) \in Nat
  BY CoursesAreSequences, CoursesAreLong DEF Typed, Used, Use, Steps, Positions
<1>2. n \in (1 - 1)..Len(f.steps) /\ 1 \in 1..(Len(f.steps) + 1) /\ n \in Nat /\ 2 \in 1..n
  <2> DEFINE a == statement[s].at
             l == Len(f.steps)
  <2>1. a \in Nat /\ l \in Nat /\ a > 2 /\ a <= l /\ n = a - 1
    BY <1>1
  <2> HIDE DEF a, l, n
  <2>2. n \in (1 - 1)..l /\ 1 \in 1..(l + 1) /\ n \in Nat /\ 2 \in 1..n
    BY ONLY <2>1
  <2> QED
    BY <2>2 DEF l
<1> HIDE DEF n
<1>3. /\ Len(SubSeq(f.steps, 1, n)) = n - 1 + 1 /\ SubSeq(f.steps, 1, n) \in Seq(StepNames)
      /\ \A i \in 1..(n - 1 + 1) : SubSeq(f.steps, 1, n)[i] = f.steps[1 + i - 1]
  BY <1>1, <1>2, SubSeqProperties
<1>4. 2 \in 1..(n - 1 + 1) /\ n - 1 + 1 = n
  BY <1>2
<1>5. SubSeq(f.steps, 1, n)[2] = f.steps[1 + 2 - 1]
  BY <1>3, <1>4
<1>6. 2 \in DOMAIN SubSeq(f.steps, 1, n) /\ SubSeq(f.steps, 1, n)[2] = "ready"
  BY <1>1, <1>2, <1>3, <1>4, <1>5
<1>7. "ready" \in ToSet(SubSeq(f.steps, 1, n))
  BY <1>6 DEF ToSet
<1> QED
  BY <1>1, <1>7 DEF Executing, n

(* When the user begins or ends a transaction no use has come further      *)
(* than its first guards.                                                  *)
LEMMA NobodyIsInside ==
    ASSUME Typed, NobodyExecutes, NEW s \in Statements, Running(s)
    PROVE  /\ Transactional(statement[s]) => statement[s].at <= 2
           /\ RunsDdl(statement[s].function) => statement[s].at <= 2
<1>1. ~Executing(s) /\ statement[s].function \in Functions /\ statement[s].at \in Nat
      /\ statement[s].at \in Positions(statement[s].function)
  BY DEF NobodyExecutes, Typed, Used, Use
<1>2. Transactional(statement[s]) => Steps(s)[2] = "ready"
  BY <1>1, PinsAreFourth DEF Transactional, Steps
<1>3. RunsDdl(statement[s].function) => Steps(s)[2] = "ready"
  BY <1>1, CommitsAreLate DEF RunsDdl, Steps
<1> QED
  BY <1>1, <1>2, <1>3, ExecutingIs

(* Cursors may go, and with them what nobody keeps.                        *)
LEMMA SettlingKeepsOutcomes ==
    ASSUME Typed, Outcomes, statement' \in [Statements -> Use], UNCHANGED <<transaction, failed>>,
        Alive',
           \A t \in Statements : Same(statement[t], statement'[t]) /\ Worked(statement[t].work, statement'[t]),
           explicit' = explicit \/ NobodyExecutes
    PROVE  Outcomes'
<1>1. ASSUME NEW t \in Statements
      PROVE  Own(statement'[t]) /\ Dated(statement[t])' /\ Alone(statement[t])'
             /\ statement'[t].answer = statement[t].answer /\ statement'[t].transaction = statement[t].transaction
             /\ statement'[t].function = statement[t].function
             /\ (Transactional(statement[t]) => statement'[t].work = statement[t].work)
  <2> DEFINE u == statement[t]   v == statement'[t]
  <2>1. /\ u \in Use /\ v \in Use /\ u.at \in Positions(u.function) /\ u.at \in Nat /\ Own(u) /\ Dated(u) /\ Alone(u)
        /\ Same(u, v) /\ Worked(u.work, v)
    BY DEF Typed, Used, Use, Outcomes
  <2>2. /\ v.function = u.function /\ v.at = u.at /\ v.answer = u.answer /\ v.transaction = u.transaction
        /\ Transactional(u) => v.work = u.work
    BY <2>1 DEF Same, Alike, Worked, Transactional
  <2>3. Own(v)
    BY <2>1, OthersAreOwn
  <2>4. Dated(statement[t])'
    BY <2>1, <2>2 DEF Dated, Transactional
  <2>5. Alone(statement[t])'
    <3>1. CASE explicit' = explicit
      BY <3>1, <2>1, <2>2 DEF Alone
    <3>2. CASE NobodyExecutes
      <4>1. u.answer = "running" /\ RunsDdl(u.function) => u.at <= 2
        BY <3>2, NobodyIsInside DEF Running
      <4>2. ~(u.at <= 2 /\ u.at > 3)
        BY <2>1
      <4> QED
        BY <2>2, <4>1, <4>2 DEF Alone
    <3> QED
      BY <3>1, <3>2
  <2> QED
    BY <2>2, <2>3, <2>4, <2>5
<1>2. \A r, t \in Statements : Together(statement[r], statement[t])'
  <2> SUFFICES ASSUME NEW r \in Statements, NEW t \in Statements
               PROVE  Together(statement'[r], statement'[t])
    BY DEF Together, Transactional
  <2>1. Together(statement[r], statement[t])
    BY DEF Outcomes
  <2> QED
    BY <1>1, <2>1 DEF Together, Transactional
<1> QED
  BY <1>1, <1>2 DEF Outcomes, Own, Transactional, Committed

(* Binding begins a use that has done nothing yet.                         *)
LEMMA BindingKeepsOutcomes ==
    ASSUME Typed, Outcomes, NEW s \in Statements, NEW function \in Functions,
        NEW asked \in function.asked,
           BindFunction(s, function, asked), UNCHANGED userVars
    PROVE  /\ Outcomes'
           /\ \A t \in Statements \ {s} : statement'[t] = statement[t]
           /\ statement'[s].at = 1
<1> DEFINE w == [statement[s] EXCEPT !.function = function, !.asked = asked, !.answer = "running"]
<1>1. /\ statement' = [statement EXCEPT ![s] = w] /\ statement[s].answer = "none" /\ opened' = opened
      /\ failed' = failed /\ explicit' = explicit /\ transaction' = transaction /\ transaction \in Nat \ {0}
  BY DEF BindFunction, pinVars, userVars, Typed
<1>2. statement \in [Statements -> Use] /\ Own(statement[s])
  BY DEF Typed, Used, Outcomes
<1>3. /\ w.function = function /\ w.at = 1 /\ w.answer = "running" /\ w.work = "none" /\ w.transaction = 0
      /\ ~w.inside
  BY <1>1, <1>2 DEF Use, Own
<1> HIDE DEF w
<1>4. statement'[s] = w /\ \A t \in Statements \ {s} : statement'[t] = statement[t]
  BY <1>1, <1>2
<1>5. ~Committed(w)
  BY <1>3 DEF Committed
<1>6. Own(w)
  BY <1>3, <1>5 DEF Own
<1>7. \A t \in Statements : Own(statement'[t])
  BY <1>4, <1>6 DEF Outcomes
<1>8. \A t \in Statements : Dated(statement[t])'
  <2>1. Dated(statement[s])'
    BY <1>1, <1>3, <1>4 DEF Dated
  <2>2. \A t \in Statements \ {s} : Dated(statement[t])'
    BY <1>1, <1>4 DEF Dated, Outcomes, Transactional
  <2> QED
    BY <2>1, <2>2
<1>9. \A t \in Statements : Alone(statement[t])'
  <2>1. Alone(statement[s])'
    BY <1>3, <1>4 DEF Alone
  <2>2. \A t \in Statements \ {s} : Alone(statement[t])'
    BY <1>1, <1>4 DEF Alone, Outcomes
  <2> QED
    BY <2>1, <2>2
<1>10. \A r, t \in Statements : Together(statement'[r], statement'[t])
  BY <1>3, <1>4 DEF Together, Outcomes
<1>11. Alive'
  BY <1>1, <1>3, <1>4 DEF Alive, Outcomes, Transactional
<1> QED
  BY <1>3, <1>4, <1>7, <1>8, <1>9, <1>10, <1>11 DEF Outcomes, Together, Transactional, Own, Committed

(* A use that ends with an answer.                                         *)
LEMMA EndingKeepsOutcomes ==
    ASSUME Typed, Outcomes, NEW outcome \in {"kept", "undone"}, NEW acknowledged \in BOOLEAN,
           EndTransaction(outcome, acknowledged)
    PROVE  /\ Outcomes' /\ statement' \in [Statements -> Use]
           /\ \A t \in Statements : Same(statement[t], statement'[t])
<1>1. /\ statement' = Resolved(statement, outcome) /\ NobodyExecutes /\ (outcome = "kept" => ~failed)
      /\ failed' = FALSE /\ explicit' = FALSE /\ transaction' = transaction + 1 /\ opened' = opened
      /\ transaction \in Nat \ {0} /\ statement \in [Statements -> Use]
  BY DEF EndTransaction, Typed, Used
<1>2. /\ statement' \in [Statements -> Use]
      /\ \A t \in Statements :
           /\ Same(statement[t], statement'[t])
           /\ statement'[t].work = IF Transactional(statement[t]) /\ statement[t].work = "pending"
                                   THEN outcome ELSE statement[t].work
  <2>1. \A t \in Statements : InItsTransaction(t) <=> Transactional(statement[t]) /\ statement[t].work = "pending"
    BY DEF InItsTransaction, Keeps, Transactional
  <2> QED
    BY <1>1, <2>1, ResolvedIs
<1>3. ASSUME NEW t \in Statements
      PROVE  LET u == statement[t]  v == statement'[t] IN
             /\ Own(v) /\ Dated(statement[t])' /\ Alone(statement[t])'
             /\ v.answer = u.answer /\ v.transaction = u.transaction /\ v.function = u.function
             /\ Transactional(u) /\ v.work = "kept" =>
                  u.work = "kept" \/ (u.work = "pending" /\ u.transaction = transaction /\ ~failed)
             /\ Transactional(u) /\ u.answer = "failed" /\ u.transaction = transaction => failed
             /\ u.transaction \in Nat
             /\ ~Transactional(u) => v.work = u.work
  <2> DEFINE u == statement[t]   v == statement'[t]
  <2>1. /\ u \in Use /\ u.at \in Positions(u.function) /\ u.function \in Functions /\ Own(u) /\ Dated(u)
        /\ u.at \in Nat /\ u.transaction \in Nat /\ u.answer \in Answers
    BY DEF Typed, Used, Use, Outcomes
  <2>2. /\ v.function = u.function /\ v.at = u.at /\ v.answer = u.answer /\ v.transaction = u.transaction
        /\ v.inside = u.inside
        /\ v.work = IF Transactional(u) /\ u.work = "pending" THEN outcome ELSE u.work
    BY <1>2 DEF Same, Alike
  <2>3. u.answer = "running" /\ Transactional(u) => u.at <= 4 /\ u.work = "none"
    <3>1. u.answer = "running" /\ Transactional(u) => u.at <= 2
      BY <1>1, NobodyIsInside DEF Running
    <3>2. u.at <= 2 => u.at <= 4
      BY <2>1
    <3> QED
      BY <2>1, <3>1, <3>2 DEF Own
  <2>4. Committed(v) <=> Committed(u)
    BY <2>1, <2>2, CommittedSoFar
  <2>5. Own(v)
    <3>1. CASE Transactional(u) /\ u.work = "pending"
      <4>1. u.answer \notin {"none", "running", "failed"}
        BY <2>1, <2>3, <3>1 DEF Own
      <4>2. /\ v.function.keeps = "transaction" /\ v.answer \notin {"none", "running", "failed"}
            /\ v.answer = "success" => v.at = Len(v.function.steps)
            /\ ~v.inside
        BY <2>1, <2>2, <3>1, <4>1 DEF Own, Transactional
      <4> QED
        BY <4>2 DEF Own
    <3>2. CASE ~(Transactional(u) /\ u.work = "pending")
      BY <2>1, <2>2, <2>4, <3>2 DEF Own, Transactional
    <3> QED
      BY <3>1, <3>2
  <2>6. Dated(statement[t])'
    <3> SUFFICES ASSUME Transactional(u)
                 PROVE  /\ v.transaction <= transaction + 1 /\ v.work # "pending"
                        /\ v.work = "kept" => v.transaction < transaction + 1
                        /\ v.transaction # transaction + 1
      BY <1>1, <2>2 DEF Dated, Transactional
    <3> QED
      BY <1>1, <2>1, <2>2 DEF Dated
  <2>7. Alone(statement[t])'
    BY <1>1 DEF Alone
  <2>8. Transactional(u) /\ v.work = "kept" =>
          u.work = "kept" \/ (u.work = "pending" /\ u.transaction = transaction /\ ~failed)
    BY <1>1, <2>1, <2>2 DEF Dated
  <2> QED
    BY <2>1, <2>2, <2>5, <2>6, <2>7, <2>8 DEF Dated
<1>4. \A r, t \in Statements : Together(statement[r], statement[t])'
  <2> SUFFICES ASSUME NEW r \in Statements, NEW t \in Statements
               PROVE  Together(statement'[r], statement'[t])
    BY DEF Together, Transactional
  <2>1. Together(statement[r], statement[t])
    BY DEF Outcomes
  <2> QED
    BY <1>3, <2>1 DEF Together, Transactional
<1>5. Alive'
  BY <1>1, <1>3 DEF Outcomes, Alive, Transactional
<1>6. Outcomes'
  BY <1>3, <1>4, <1>5 DEF Outcomes, Own, Transactional, Committed
<1> QED
  BY <1>2, <1>6

-----------------------------------------------------------------------------
(* The steps of the functions.                                             *)
LEMMA GoingKeepsOutcomes ==
    ASSUME Typed, Outcomes, NEW s \in Statements, Running(s), NEW all, Prepares(s, all), Goes(s, all),
           all[s].work = statement[s].work, all[s].transaction = statement[s].transaction,
           all[s].inside = statement[s].inside,
           UNCHANGED userVars, failed => failed', Step(s) \notin {"commit", "ddl"},
           Step(s) = "autocommit" => ~explicit
    PROVE  Outcomes' /\ After(s, statement[s].work, statement[s].transaction, statement[s].inside)
<1>1. /\ After(s, all[s].work, all[s].transaction, all[s].inside)
      /\ statement'[s].answer \in {"running", "success"}
  BY GoesAfter DEF Outcomes
<1>2. /\ After(s, statement[s].work, statement[s].transaction, statement[s].inside)
      /\ statement'[s].answer # "failed"
  BY <1>1
<1> QED
  BY <1>2, PlainStepsKeepOutcomes

LEMMA AdvancingKeepsOutcomes ==
    ASSUME Typed, Outcomes, NEW s \in Statements, Running(s), Advances(s),
           UNCHANGED userVars, failed => failed', Step(s) \notin {"commit", "ddl"},
           Step(s) = "autocommit" => ~explicit
    PROVE  Outcomes' /\ After(s, statement[s].work, statement[s].transaction, statement[s].inside)
<1>1. Prepares(s, statement) /\ Goes(s, statement)
  BY StatementsPrepare DEF Advances
<1> QED
  BY <1>1, GoingKeepsOutcomes

LEMMA StoppingKeepsOutcomes ==
    ASSUME Typed, Outcomes, NEW s \in Statements, Running(s), UNCHANGED userVars, failed => failed',
           Step(s) \notin {"commit", "ddl"},
           \/ Throws(s) /\ (~Transactional(statement[s]) \/ statement[s].at <= 4)
           \/ Ends(s, statement, "dropped") /\ Step(s) # "autocommit"
    PROVE  Outcomes' /\ After(s, statement[s].work, statement[s].transaction, statement[s].inside)
<1>1. Prepares(s, statement)
  BY StatementsPrepare
<1>2. CASE Throws(s) /\ (~Transactional(statement[s]) \/ statement[s].at <= 4)
  <2>1. Ends(s, statement, "failed") /\ "failed" \in Done /\ "failed" # "success"
    BY <1>2 DEF Throws, Done
  <2>2. After(s, statement[s].work, statement[s].transaction, statement[s].inside) /\ statement'[s].answer = "failed"
    BY <1>1, <2>1, EndsAfter
  <2> QED
    BY <1>2, <2>2, PlainStepsKeepOutcomes
<1>3. CASE Ends(s, statement, "dropped") /\ Step(s) # "autocommit"
  <2>1. "dropped" \in Done /\ "dropped" # "success"
    BY DEF Done
  <2>2. After(s, statement[s].work, statement[s].transaction, statement[s].inside) /\ statement'[s].answer = "dropped"
    BY <1>1, <1>3, <2>1, EndsAfter
  <2> QED
    BY <1>3, <2>2, PlainStepsKeepOutcomes
<1> QED
  BY <1>2, <1>3

LEMMA StepIs ==
    ASSUME Typed, NEW s \in Statements
    PROVE  /\ Step(s) \in {"open", "close", "fetch", "take", "register", "closecall", "autocommit", "commit", "ddl"} =>
                ~Transactional(statement[s])
           /\ Step(s) \in {"pin", "taint", "check", "writable"} => Transactional(statement[s])
           /\ Step(s) = "writable" => statement[s].at <= 4
           /\ Step(s) = "pin" => statement[s].at = 4
           /\ Step(s) = "taint" => statement[s].at > 4
<1> DEFINE f == statement[s].function   i == statement[s].at
<1>1. f \in Functions /\ i \in Positions(f) /\ i \in Nat \ {0} /\ Step(s) = f.steps[i]
  BY DEF Typed, Used, Use, Positions, Step, Steps
<1>2. /\ f.keeps = "transaction" =>
           /\ f.steps[1] = "writable" /\ f.steps[2] = "ready" /\ f.steps[3] = "writable" /\ f.steps[4] = "pin"
           /\ i > 4 => f.steps[i] \in {"taint", "run", "match", "check"}
      /\ f.keeps # "transaction" => f.steps[i] \notin {"writable", "pin", "taint", "check"}
  BY <1>1, PinsAreFourth
<1>3. i = 1 \/ i = 2 \/ i = 3 \/ i = 4 \/ i > 4
  BY <1>1
<1> HIDE DEF f, i
<1>4. Transactional(statement[s]) <=> f.keeps = "transaction"
  BY DEF Transactional, f
<1>5. ASSUME f.keeps = "transaction"
      PROVE  /\ f.steps[i] \in {"writable", "ready", "pin", "taint", "run", "match", "check"}
             /\ f.steps[i] = "writable" => i <= 4
             /\ f.steps[i] = "pin" => i = 4
             /\ f.steps[i] = "taint" => i > 4
  BY <1>2, <1>3, <1>5
<1> QED
  BY <1>1, <1>2, <1>4, <1>5 DEF i

(* Steps that leave the session of the transaction alone.                  *)
Leaves(s) ==
    \/ RequireAutoCommit(s) \/ RequireWritable(s) \/ Execute(s) \/ DropPrepared(s)
    \/ OpenSession(s) \/ Run(s) \/ RunDdl(s) \/ Match(s) \/ CommitWork(s) \/ CloseSession(s)
    \/ Register(s) \/ ReadCursor(s)
    \/ \E id \in 1..MaximumCallId : CloseCall(s, id) \/ \E k \in 1..MaximumReturned : Take(s, id, k)

(* What such a step was at, and that it goes on or ends.                   *)
Left(s) ==
    /\ Running(s) /\ Step(s) \notin {"pin", "taint"}
    /\ \E work, moment, inside : After(s, work, moment, inside)

(* The steps between statements.                                           *)
LEMMA PlainLeavingKeepsOutcomes ==
    ASSUME Typed, Outcomes, NEW s \in Statements,
           \/ RequireAutoCommit(s) \/ RequireWritable(s) \/ Execute(s) \/ DropPrepared(s)
           \/ OpenSession(s) \/ Match(s) \/ CloseSession(s) \/ ReadCursor(s)
    PROVE  Outcomes' /\ Left(s)
<1> DEFINE Kept == Outcomes' /\ After(s, statement[s].work, statement[s].transaction, statement[s].inside)
<1>1. Running(s) /\ UNCHANGED userVars /\ failed' = failed
  BY DEF RequireAutoCommit, RequireWritable, Execute, DropPrepared, OpenSession, Match, CloseSession,
     ReadCursor,
         At, pinVars
<1>2. CASE RequireAutoCommit(s)
  <2>1. Step(s) = "autocommit" /\ ~Transactional(statement[s])
    BY <1>2, StepIs DEF RequireAutoCommit, At
  <2>2. CASE explicit
    <3>1. Throws(s)
      BY <1>2, <2>2 DEF RequireAutoCommit
    <3> QED
      BY <1>1, <2>1, <3>1, StoppingKeepsOutcomes DEF Left
  <2>3. CASE ~explicit
    <3>1. Advances(s)
      BY <1>2, <2>3 DEF RequireAutoCommit
    <3> QED
      BY <1>1, <2>1, <2>3, <3>1, AdvancingKeepsOutcomes DEF Left
  <2> QED
    BY <2>2, <2>3
<1>3. CASE RequireWritable(s)
  <2>1. Step(s) = "writable" /\ statement[s].at <= 4
    BY <1>3, StepIs DEF RequireWritable, At
  <2>2. CASE Advances(s)
    BY <1>1, <2>1, <2>2, AdvancingKeepsOutcomes DEF Left
  <2>3. CASE Throws(s)
    BY <1>1, <2>1, <2>3, StoppingKeepsOutcomes DEF Left
  <2> QED
    BY <1>3, <2>2, <2>3 DEF RequireWritable
<1>4. CASE Execute(s)
  <2>1. Step(s) = "ready" /\ Advances(s)
    BY <1>4 DEF Execute, At
  <2> QED
    BY <1>1, <2>1, AdvancingKeepsOutcomes DEF Left
<1>5. CASE DropPrepared(s)
  <2>1. Step(s) = "ready" /\ Ends(s, statement, "dropped")
    BY <1>5 DEF DropPrepared, At
  <2> QED
    BY <1>1, <2>1, StoppingKeepsOutcomes DEF Left
<1>6. CASE OpenSession(s) \/ Match(s) \/ CloseSession(s) \/ ReadCursor(s)
  <2>1. Step(s) \in {"open", "match", "close", "fetch"} /\ ~Transactional(statement[s])
    BY <1>6, StepIs DEF OpenSession, Match, CloseSession, ReadCursor, At, Keeps, Transactional
  <2>2. CASE Advances(s)
    BY <1>1, <2>1, <2>2, AdvancingKeepsOutcomes DEF Left
  <2>3. CASE Throws(s)
    BY <1>1, <2>1, <2>3, StoppingKeepsOutcomes DEF Left
  <2> QED
    BY <1>6, <2>2, <2>3 DEF OpenSession, Match, CloseSession, ReadCursor
<1> QED
  BY <1>2, <1>3, <1>4, <1>5, <1>6

LEMMA RunningKeepsOutcomes ==
    ASSUME Typed, Outcomes, NEW s \in Statements, Run(s)
    PROVE  Outcomes' /\ Left(s)
<1>1. /\ At(s, "run") /\ Running(s) /\ Step(s) = "run" /\ UNCHANGED userVars /\ failed' = failed
      /\ ~Transactional(statement[s])
      /\ (\E given, implicit \in Counts : Answered(s, given, implicit)) \/ Throws(s)
  BY DEF Run, At, pinVars, Keeps, Transactional, Counts
<1>2. CASE \E given, implicit \in Counts : Answered(s, given, implicit)
  <2>1. /\ After(s, "pending", transaction, statement[s].inside)
        /\ statement'[s].at = statement[s].at + 1 /\ statement'[s].answer = "running"
    BY <1>1, <1>2, AnswersAfter
  <2>2. Outcomes'
    BY <1>1, <2>1, AnswersKeepOutcomes
  <2> QED
    BY <1>1, <2>1, <2>2 DEF Left
<1>3. CASE Throws(s)
  BY <1>1, <1>3, StoppingKeepsOutcomes DEF Left
<1> QED
  BY <1>1, <1>2, <1>3

(* COMMIT and DDL make the work of their own use last.                     *)
LEMMA CommittingKeepsOutcomes ==
    ASSUME Typed, Outcomes, NEW s \in Statements, RunDdl(s) \/ CommitWork(s)
    PROVE  Outcomes' /\ Left(s)
<1> DEFINE u == statement[s]
<1>1. /\ Running(s) /\ Step(s) \in {"commit", "ddl"} /\ UNCHANGED userVars /\ failed' = failed
      /\ statement \in [Statements -> Use] /\ u.answer = "running" /\ u \in Use /\ u.at \in Positions(u.function)
  BY DEF RunDdl, CommitWork, At, pinVars, Typed, Used, Running
<1>2. ~u.inside /\ Alive
  BY DEF Outcomes, Own
<1>3. ASSUME NEW all, Prepares(s, all), all[s].transaction = u.transaction, ~all[s].inside,
             \/ Goes(s, all) /\ all[s].work = "kept"
             \/ Ends(s, all, "failed")
      PROVE  Outcomes' /\ Left(s)
  <2>1. /\ After(s, all[s].work, u.transaction, all[s].inside)
        /\ statement'[s].answer # "dropped"
        /\ all[s].work = "kept" \/ statement'[s].answer = "failed"
    <3>1. CASE Goes(s, all) /\ all[s].work = "kept"
      <4>1. After(s, all[s].work, all[s].transaction, all[s].inside) /\ statement'[s].answer \in {"running", "success"}
        BY <1>2, <1>3, <3>1, GoesAfter
      <4> QED
        BY <1>3, <3>1, <4>1
    <3>2. CASE Ends(s, all, "failed")
      <4>1. "failed" \in Done /\ "failed" # "success"
        BY DEF Done
      <4>2. After(s, all[s].work, all[s].transaction, all[s].inside) /\ statement'[s].answer = "failed"
        BY <1>3, <3>2, <4>1, EndsAfter
      <4> QED
        BY <1>3, <4>2
    <3> QED
      BY <1>3, <3>1, <3>2
  <2>2. Outcomes'
    BY <1>1, <1>3, <2>1, CommitsKeepOutcomes
  <2> QED
    BY <1>1, <2>1, <2>2 DEF Left
<1>4. ASSUME NEW work \in Works
      PROVE  /\ Prepares(s, With(s, work)) /\ With(s, work)[s].transaction = u.transaction
             /\ ~With(s, work)[s].inside /\ With(s, work)[s].work = work
  BY <1>1, <1>2 DEF With, Prepares, Use
<1>5. "kept" \in Works /\ "undone" \in Works /\ "none" \in Works
  BY DEF Works
<1>6. CASE CommitWork(s)
  <2>1. CASE Goes(s, With(s, "kept"))
    BY <1>3, <1>4, <1>5, <2>1
  <2>2. CASE \E work \in {"kept", "undone"} : Ends(s, With(s, work), "failed")
    BY <1>3, <1>4, <1>5, <2>2
  <2> QED
    BY <1>6, <2>1, <2>2 DEF CommitWork
<1>7. CASE RunDdl(s)
  <2> DEFINE w == [u EXCEPT !.work = "kept", !.inside = explicit]   all == [statement EXCEPT ![s] = w]
  <2>1. ~explicit /\ explicit \in BOOLEAN
    <3>1. u.function \in Functions /\ u.function.steps[u.at] = "ddl"
      BY <1>1, <1>7 DEF RunDdl, At, Step, Steps, Use
    <3>2. u.at = 5 /\ RunsDdl(u.function)
      BY <1>1, <3>1, CommitsAreLate DEF RunsDdl
    <3>3. u.at > 3
      BY <3>2
    <3> QED
      BY <1>1, <3>2, <3>3 DEF Outcomes, Alone, Typed
  <2>2. /\ w \in Use /\ w.function = u.function /\ w.at = u.at /\ w.answer = "running" /\ w.work = "kept"
        /\ w.transaction = u.transaction /\ ~w.inside
    BY <1>1, <1>5, <2>1 DEF Use
  <2>3. CASE Goes(s, [statement EXCEPT ![s] = [@ EXCEPT !.work = "kept", !.inside = explicit]])
    <3>1. Goes(s, all)
      BY <2>3
    <3> HIDE DEF w
    <3>2. Prepares(s, all) /\ all[s] = w
      BY <1>1, <2>2 DEF Prepares
    <3> HIDE DEF all
    <3> QED
      BY <1>3, <2>2, <3>1, <3>2
  <2>4. CASE \E work \in {"kept", "none"} : Ends(s, With(s, work), "failed")
    BY <1>3, <1>4, <1>5, <2>4
  <2> QED
    BY <1>7, <2>3, <2>4 DEF RunDdl
<1> QED
  BY <1>6, <1>7

(* Registering, taking and closing concern nobody's work.                  *)
LEMMA RegistryKeepsOutcomes ==
    ASSUME Typed, Hands, Outcomes, NEW s \in Statements,
           \/ Register(s)
           \/ \E id \in 1..MaximumCallId : CloseCall(s, id) \/ \E k \in 1..MaximumReturned : Take(s, id, k)
    PROVE  Outcomes' /\ Left(s)
<1> DEFINE u == statement[s]
<1>1. /\ Running(s) /\ Step(s) \in {"register", "closecall", "take"} /\ UNCHANGED userVars /\ failed' = failed
      /\ statement \in [Statements -> Use] /\ u.answer = "running" /\ u \in Use /\ u.at \in Positions(u.function)
  BY DEF Register, CloseCall, Take, At, pinVars, Typed, Used, Running
<1>2. ~Transactional(u)
  BY <1>1, StepIs
<1>3. CASE Advances(s)
  BY <1>1, <1>3, AdvancingKeepsOutcomes DEF Left
<1>4. CASE Throws(s)
  BY <1>1, <1>2, <1>4, StoppingKeepsOutcomes DEF Left
<1>5. ASSUME NEW owned \in SUBSET Cursors, Goes(s, [statement EXCEPT ![s].owned = owned])
      PROVE  Outcomes' /\ Left(s)
  <2> DEFINE all == [statement EXCEPT ![s].owned = owned]
  <2>1. /\ Prepares(s, all) /\ Goes(s, all) /\ all[s].work = u.work /\ all[s].transaction = u.transaction
        /\ all[s].inside = u.inside
    BY <1>1, <1>5 DEF Prepares, Use
  <2> HIDE DEF all
  <2> QED
    BY <1>1, <2>1, GoingKeepsOutcomes DEF Left
<1>6. CASE Register(s)
  <2>1. Goes(s, [statement EXCEPT ![s].owned = {}]) \/ Advances(s) \/ Throws(s)
    <3>1. CASE u.owned = {}
      BY <1>6, <3>1 DEF Register
    <3>2. CASE u.owned # {} /\ Cardinality(u.owned) > MaximumOpenCursors - open_cursor_count
      BY <1>6, <3>2 DEF Register
    <3>3. CASE u.owned # {} /\ ~(Cardinality(u.owned) > MaximumOpenCursors - open_cursor_count)
      BY <1>6, <3>3 DEF Register
    <3> QED
      BY <3>1, <3>2, <3>3
  <2> QED
    BY <1>3, <1>4, <1>5, <2>1
<1>7. CASE \E id \in 1..MaximumCallId : \E k \in 1..MaximumReturned : Take(s, id, k)
  <2> PICK id \in 1..MaximumCallId, k \in 1..MaximumReturned : Take(s, id, k)
    BY <1>7
  <2>1. CASE Holds(id, k)
    <3>1. Goes(s, [statement EXCEPT ![s].owned = {calls[id][k]}])
      BY <2>1 DEF Take, Holds
    <3>2. {calls[id][k]} \in SUBSET Cursors
      BY <2>1 DEF Hands, RegistryTyped
    <3> QED
      BY <1>5, <3>1, <3>2
  <2>2. CASE ~Holds(id, k)
    BY <1>4, <2>2 DEF Take, Holds
  <2> QED
    BY <2>1, <2>2
<1>8. CASE \E id \in 1..MaximumCallId : CloseCall(s, id)
  <2> PICK id \in 1..MaximumCallId : CloseCall(s, id)
    BY <1>8
  <2>1. CASE id \notin DOMAIN calls
    BY <1>3, <2>1 DEF CloseCall
  <2>2. CASE id \in DOMAIN calls
    <3> DEFINE all == [statement EXCEPT ![s].answer = "success"]
    <3>1. statement' = Settled(all, opened')
      BY <2>2 DEF CloseCall
    <3>2. /\ all \in [Statements -> Use] /\ \A t \in Statements \ {s} : all[t] = statement[t]
          /\ all[s].function = u.function /\ all[s].at = u.at /\ all[s].answer = "success" /\ all[s].work = u.work
          /\ all[s].transaction = u.transaction /\ all[s].inside = u.inside
      BY <1>1 DEF Use, Answers
    <3> HIDE DEF all
    <3>3. \A t \in Statements : Same(all[t], statement'[t]) /\ Settles(all[t], statement'[t], t)
      BY <3>1, <3>2, SettledIs
    <3>4. statement' \in [Statements -> Use]
      BY <3>1, <3>2, SettledTyped
    <3>5. \A t \in Statements : statement'[t].function = all[t].function /\ Worked(all[t].work, statement'[t])
      BY <3>3 DEF Same, Alike, Settles, Worked, Transactional
    <3>6. Alive'
      BY <3>3, <3>5 DEF Alive, Settles, Transactional
    <3>7. u.at = Len(u.function.steps) /\ Step(s) = "closecall"
      <4>1. u.function \in Functions /\ u.function.steps[u.at] = "closecall" /\ Step(s) = "closecall"
        BY <1>1 DEF CloseCall, At, Step, Steps, Use
      <4> QED
        BY <1>1, <4>1, CursorsComeOnce
    <3>8. After(s, u.work, u.transaction, u.inside) /\ statement'[s].answer = "success"
      BY <3>2, <3>3, <3>4, <3>5, <3>6, <3>7 DEF After, Same, Alike, Done
    <3>9. Outcomes'
      BY <1>1, <3>7, <3>8, PlainStepsKeepOutcomes
    <3> QED
      BY <1>1, <3>7, <3>8, <3>9 DEF Left
  <2> QED
    BY <2>1, <2>2
<1> QED
  BY <1>6, <1>7, <1>8

LEMMA LeavingKeepsOutcomes ==
    ASSUME Typed, Hands, Outcomes, NEW s \in Statements, Leaves(s)
    PROVE  Outcomes' /\ Left(s) /\ UNCHANGED pinVars
<1>1. UNCHANGED pinVars
  BY DEF Leaves, RequireAutoCommit, RequireWritable, Execute, DropPrepared, OpenSession, Run, RunDdl,
     Match,
         CommitWork, CloseSession, Register, ReadCursor, CloseCall, Take
<1>2. CASE \/ RequireAutoCommit(s) \/ RequireWritable(s) \/ Execute(s) \/ DropPrepared(s)
           \/ OpenSession(s) \/ Match(s) \/ CloseSession(s) \/ ReadCursor(s)
  BY <1>1, <1>2, PlainLeavingKeepsOutcomes
<1>3. CASE Run(s)
  BY <1>1, <1>3, RunningKeepsOutcomes
<1>4. CASE RunDdl(s) \/ CommitWork(s)
  BY <1>1, <1>4, CommittingKeepsOutcomes
<1>5. CASE \/ Register(s)
           \/ \E id \in 1..MaximumCallId : CloseCall(s, id) \/ \E k \in 1..MaximumReturned : Take(s, id, k)
  BY <1>1, <1>5, RegistryKeepsOutcomes
<1> QED
  BY <1>2, <1>3, <1>4, <1>5 DEF Leaves

-----------------------------------------------------------------------------
(* The traces a session has.                                               *)
LEMMA LeavingKeepsTraces ==
    ASSUME Typed, Traces, NEW s \in Statements, Left(s), UNCHANGED pinVars
    PROVE  Traces'
<1>1. pinned' = pinned /\ failed' = failed /\ pooled' = pooled
  BY DEF pinVars
<1> PICK work, moment, inside : After(s, work, moment, inside)
  BY DEF Left
<1>2. ASSUME NEW t \in Statements \ {s} PROVE Traced(statement[t])'
  BY <1>1, <1>2 DEF Traces, Traced, After, Same, Alike, Transactional
<1>3. Traced(statement[s])'
  <2> DEFINE u == statement[s]   v == statement'[s]
  <2>1. /\ u.at \in Nat \ {0} /\ u.function \in Functions /\ u.at \in Positions(u.function) /\ u.answer = "running"
        /\ u.function.steps[u.at] \notin {"pin", "taint"}
    BY DEF Left, Typed, Used, Use, Positions, Step, Steps, Running
  <2>2. v.function = u.function /\ (v.answer = "running" => v.at = u.at + 1)
    BY DEF After, Done
  <2>3. Traced(u)
    BY DEF Traces
  <2>4. Transactional(u) => u.at # 4 /\ (u.function.steps[5] = "taint" => u.at # 5)
    <3> SUFFICES ASSUME Transactional(u)
                 PROVE  u.at # 4 /\ (u.function.steps[5] = "taint" => u.at # 5)
      OBVIOUS
    <3>1. u.function.steps[4] = "pin"
      BY <2>1, PinsAreFourth DEF Transactional
    <3>2. u.at # 4
      BY <2>1, <3>1
    <3> QED
      BY <2>1, <3>2
  <2>5. v.answer = "running" /\ Transactional(u) =>
           /\ v.at > 4 => u.at > 4
           /\ v.at > 5 /\ u.function.steps[5] = "taint" => u.at > 5
    BY <2>1, <2>2, <2>4
  <2> QED
    BY <1>1, <2>1, <2>2, <2>3, <2>5 DEF Traced, Transactional
<1> QED
  BY <1>1, <1>2, <1>3 DEF Traces, Traced, Transactional

(* A failure that poisons drops the pinned session and its traces.         *)
LEMMA PoisoningKeepsTraces ==
    ASSUME Traces, failed' = TRUE, pinned' = NotPinned, pooled' = pooled
    PROVE  Traces'
<1>1. ~NotPinned.held /\ ~NotPinned.dirty
  BY DEF NotPinned
<1> QED
  BY <1>1 DEF Traces, Traced

LEMMA FunctionsDirty ==
    \A f \in Functions : f.dirties = TRUE \/ f.dirties = FALSE
  BY Courses DEF Course, IsOf

(* The steps that use the session of the transaction.                      *)
LEMMA PinningKeepsOutcomes ==
    ASSUME Typed, Outcomes, Traces, NEW s \in Statements,
           Pin(s) \/ Taint(s) \/ RunPinned(s) \/ MatchPinned(s) \/ CheckInterrupt(s)
    PROVE  Outcomes' /\ Traces'
<1> DEFINE u == statement[s]   v == statement'[s]
<1>1. /\ Running(s) /\ UNCHANGED userVars /\ Transactional(u) /\ pinned \in [held : BOOLEAN, tainted : BOOLEAN, dirty : BOOLEAN]
      /\ failed \in BOOLEAN /\ u.at \in Nat /\ Traced(u) /\ u.answer = "running"
  BY StepIs DEF Pin, Taint, RunPinned, MatchPinned, CheckInterrupt, At, Keeps, Transactional, Typed,
     Used, Use,
                Traces, Running
<1>2. CASE ThrowsPoisoning(s)
  <2>1. Outcomes'
    BY <1>1, <1>2, PoisoningKeepsOutcomes
  <2>2. failed' = TRUE /\ pinned' = NotPinned /\ pooled' = pooled
    BY <1>1, <1>2, PoisoningUndoes
  <2> QED
    BY <2>1, <2>2, PoisoningKeepsTraces
<1>3. CASE Advances(s) /\ Step(s) \notin {"commit", "ddl", "autocommit", "pin", "taint"} /\ UNCHANGED pinVars
  <2>1. Outcomes' /\ After(s, u.work, u.transaction, u.inside)
    BY <1>1, <1>3, AdvancingKeepsOutcomes DEF pinVars
  <2>2. Left(s)
    BY <1>1, <1>3, <2>1 DEF Left
  <2> QED
    BY <1>3, <2>1, <2>2, LeavingKeepsTraces
<1>4. CASE /\ Pin(s) /\ ~failed /\ pinned' = [pinned EXCEPT !.held = TRUE]
           /\ pooled' = (IF pinned.held THEN pooled ELSE "none")
           /\ Advances(s) /\ failed' = failed
  <2>1. Step(s) = "pin" /\ u.at = 4
    BY <1>4, StepIs DEF Pin, At
  <2>2. Outcomes' /\ After(s, u.work, u.transaction, u.inside)
    BY <1>1, <1>4, <2>1, AdvancingKeepsOutcomes
  <2>3. pinned'.held /\ pinned'.tainted = pinned.tainted /\ pinned'.dirty = pinned.dirty
    BY <1>1, <1>4
  <2>4. Traced(statement[s])'
    <3>1. v.answer = "running" => ~(v.at > 5)
      BY <2>1, <2>2 DEF After, Done
    <3> QED
      BY <2>3, <3>1 DEF Traced
  <2>5. ASSUME NEW t \in Statements \ {s} PROVE Traced(statement[t])'
    <3>1. Traced(statement[t]) /\ Same(statement[t], statement'[t]) /\ statement[t].at \in Nat
      BY <2>2 DEF Traces, After, Typed, Used, Use
    <3>2. statement[t].at > 5 => statement[t].at > 4
      BY <3>1
    <3> QED
      BY <1>4, <2>3, <3>1, <3>2 DEF Traced, Same, Alike, Transactional
  <2>6. pooled' # "dirty" /\ (pinned'.dirty => pinned'.tainted)
    BY <1>4, <2>3 DEF Traces
  <2> QED
    BY <2>2, <2>3, <2>4, <2>5, <2>6 DEF Traces, Traced, Transactional
<1>5. CASE Taint(s)
  <2>1. /\ Step(s) = "taint" /\ u.at > 4 /\ Advances(s) /\ failed' = failed /\ pooled' = pooled
        /\ pinned' = [pinned EXCEPT !.tainted = pinned.held]
    BY <1>5, StepIs DEF Taint, At
  <2>2. Outcomes' /\ After(s, u.work, u.transaction, u.inside)
    BY <1>1, <2>1, AdvancingKeepsOutcomes
  <2>3. pinned'.held = pinned.held /\ pinned'.tainted = pinned.held /\ pinned'.dirty = pinned.dirty
    BY <1>1, <2>1
  <2>4. ~pinned.held => pinned = NotPinned /\ pinned' = NotPinned
    <3>1. ~pinned.held => pinned = NotPinned
      BY DEF Traces
    <3>2. pinned = NotPinned => pinned' = NotPinned
      <4> SUFFICES ASSUME pinned = NotPinned PROVE pinned' = NotPinned
        OBVIOUS
      <4>1. pinned.held = FALSE /\ pinned.dirty = FALSE
        BY DEF NotPinned
      <4>2. pinned' = [held |-> FALSE, tainted |-> FALSE, dirty |-> FALSE]
        BY <1>1, <2>1, <4>1
      <4> QED
        BY <4>2 DEF NotPinned
    <3> QED
      BY <3>1, <3>2
  <2>5. pinned.dirty => pinned.held
    BY <2>4 DEF NotPinned
  <2>6. ASSUME NEW t \in Statements PROVE Traced(statement[t])'
    <3>1. CASE t = s
      <4>1. pinned.held \/ failed
        BY <1>1, <2>1 DEF Traced
      <4> QED
        BY <2>1, <2>3, <3>1, <4>1 DEF Traced
    <3>2. CASE t # s
      BY <2>1, <2>2, <2>3, <3>2 DEF Traces, Traced, After, Same, Alike, Transactional
    <3> QED
      BY <3>1, <3>2
  <2> QED
    BY <2>1, <2>2, <2>3, <2>4, <2>5, <2>6 DEF Traces, Traced, Transactional
<1>6. CASE /\ RunPinned(s) /\ pinned.held
           /\ \E given, implicit \in Counts : Answered(s, given, implicit)
           /\ pinned' = [pinned EXCEPT !.dirty = @ \/ statement[s].function.dirties]
           /\ failed' = failed /\ pooled' = pooled
  <2>1. At(s, "run") /\ u.function \in Functions /\ u.function.steps[u.at] = "run" /\ u.at \in Positions(u.function)
    BY <1>6 DEF RunPinned, At, Step, Steps, Typed, Used, Use
  <2>2. After(s, "pending", transaction, u.inside) /\ v.at = u.at + 1 /\ v.answer = "running"
    BY <1>6, <2>1, AnswersAfter
  <2>3. Outcomes'
    BY <1>1, <1>6, <2>1, <2>2, AnswersKeepOutcomes
  <2>4. /\ pinned'.held /\ pinned'.tainted = pinned.tainted
        /\ pinned'.dirty <=> pinned.dirty \/ u.function.dirties
    BY <1>1, <1>6, Zenon
  <2>5. u.function.dirties = TRUE => pinned.tainted
    <3> SUFFICES ASSUME u.function.dirties = TRUE PROVE pinned.tainted
      OBVIOUS
    <3>1. u.function.steps[5] = "taint" /\ u.at = 6
      BY <2>1, <1>1, PinsAreFourth DEF Transactional
    <3>2. u.at > 5
      BY <3>1
    <3> QED
      BY <1>1, <1>6, <3>1, <3>2 DEF Traced
  <2>6. ASSUME NEW t \in Statements PROVE Traced(statement[t])'
    <3>1. CASE t = s
      <4>1. u.at # 5 \/ u.function.steps[5] # "taint"
        BY <2>1
      <4>2. v.at > 5 /\ u.function.steps[5] = "taint" => u.at > 5
        BY <1>1, <2>2, <4>1
      <4> QED
        BY <1>1, <1>6, <2>2, <2>4, <3>1, <4>2 DEF Traced, After, Transactional
    <3>2. CASE t # s
      BY <1>6, <2>2, <2>4, <3>2 DEF Traces, Traced, After, Same, Alike, Transactional
    <3> QED
      BY <3>1, <3>2
  <2>7. u.function.dirties = TRUE \/ u.function.dirties = FALSE
    BY <2>1, FunctionsDirty
  <2>8. pinned'.dirty => pinned'.tainted
    BY <2>4, <2>5, <2>7 DEF Traces
  <2> QED
    BY <1>6, <2>3, <2>4, <2>6, <2>8 DEF Traces, Traced, Transactional
<1>7. CASE MatchPinned(s)
  BY <1>2, <1>3, <1>7 DEF MatchPinned, At
<1>8. CASE CheckInterrupt(s)
  BY <1>2, <1>3, <1>8 DEF CheckInterrupt, At
<1>9. CASE Pin(s)
  BY <1>2, <1>4, <1>9 DEF Pin
<1>10. CASE RunPinned(s)
  BY <1>2, <1>6, <1>10 DEF RunPinned, Counts
<1> QED
  BY <1>5, <1>7, <1>8, <1>9, <1>10

LEMMA FunctionStepsKeepOutcomes ==
    ASSUME Typed, Hands, Outcomes, Traces, FunctionStep
    PROVE  Outcomes' /\ Traces'
<1>1. PICK s \in Statements :
         \/ Leaves(s)
         \/ Pin(s) \/ Taint(s) \/ RunPinned(s) \/ MatchPinned(s) \/ CheckInterrupt(s)
  BY DEF FunctionStep, Leaves
<1>2. CASE Leaves(s)
  <2>1. Outcomes' /\ Left(s) /\ UNCHANGED pinVars
    BY <1>2, LeavingKeepsOutcomes
  <2> QED
    BY <2>1, LeavingKeepsTraces
<1>3. CASE Pin(s) \/ Taint(s) \/ RunPinned(s) \/ MatchPinned(s) \/ CheckInterrupt(s)
  BY <1>3, PinningKeepsOutcomes
<1> QED
  BY <1>1, <1>2, <1>3

(* Whatever leaves the functions where they were leaves the traces.        *)
LEMMA SettlingKeepsTraces ==
    ASSUME Traces, UNCHANGED pinVars, \A t \in Statements : Same(statement[t], statement'[t])
    PROVE  Traces'
<1>1. \A t \in Statements : LET u == statement[t]  v == statement'[t] IN
         v.function = u.function /\ v.at = u.at /\ v.answer = u.answer
  BY DEF Same, Alike
<1> QED
  BY <1>1 DEF pinVars, Traces, Traced, Transactional

LEMMA NothingKeepsOutcomes ==
    ASSUME Typed, Outcomes, Traces, UNCHANGED <<statement, opened, transaction, pinVars>>,
           explicit' = explicit \/ NobodyExecutes
    PROVE  Outcomes' /\ Traces'
<1>1. statement' = statement /\ statement \in [Statements -> Use] /\ opened' = opened /\ failed' = failed
  BY DEF Typed, Used, pinVars
<1>2. \A t \in Statements : Same(statement[t], statement'[t]) /\ Worked(statement[t].work, statement'[t])
  BY <1>1 DEF Same, Alike, Worked
<1>3. Alive'
  BY <1>1 DEF Outcomes, Alive
<1>4. Outcomes'
  BY <1>1, <1>2, <1>3, SettlingKeepsOutcomes
<1> QED
  BY <1>2, <1>4, SettlingKeepsTraces

(* The user begins and ends transactions, and gives uses up.               *)
LEMMA UserStepsKeepOutcomes ==
    ASSUME Typed, Outcomes, Traces, UserStep, program' = program
    PROVE  Outcomes' /\ Traces'
<1>1. CASE \E s \in Statements : \E function \in program[s] : \E asked \in function.asked :
             BindFunction(s, function, asked)
  <2> PICK s \in Statements : \E function \in program[s] : \E asked \in function.asked : BindFunction(s, function, asked)
    BY <1>1
  <2> PICK function \in program[s] : \E asked \in function.asked : BindFunction(s, function, asked)
    OBVIOUS
  <2> PICK asked \in function.asked : BindFunction(s, function, asked)
    OBVIOUS
  <2>1. function \in Functions
    BY ProgramsAssumption DEF Typed
  <2>2. /\ Outcomes'
        /\ \A t \in Statements \ {s} : statement'[t] = statement[t]
        /\ statement'[s].at = 1
    BY <2>1, BindingKeepsOutcomes DEF BindFunction
  <2>3. UNCHANGED pinVars
    BY DEF BindFunction
  <2>4. Traced(statement[s])'
    BY <2>2 DEF Traced
  <2>5. \A t \in Statements \ {s} : Traced(statement[t])'
    BY <2>2, <2>3 DEF Traces, Traced, Transactional, pinVars
  <2>6. Traces'
    BY <2>3, <2>4, <2>5 DEF Traces, Traced, Transactional, pinVars
  <2> QED
    BY <2>2, <2>6
<1>2. CASE Begin \/ ReattachReadOnly
  <2>1. UNCHANGED <<statement, opened, transaction, pinVars>> /\ NobodyExecutes
    BY <1>2 DEF Begin, ReattachReadOnly
  <2> QED
    BY <2>1, NothingKeepsOutcomes
<1>3. CASE CloseAll
  <2>1. statement' = Settled(statement, opened') /\ UNCHANGED <<userVars, pinVars>>
    BY <1>3 DEF CloseAll
  <2>2. statement \in [Statements -> Use]
    BY DEF Typed, Used
  <2>3. statement' \in [Statements -> Use]
    BY <2>1, <2>2, SettledTyped
  <2>4. \A t \in Statements : Same(statement[t], statement'[t]) /\ Settles(statement[t], statement'[t], t)
    BY <2>1, <2>2, SettledIs
  <2>5. \A t \in Statements : /\ statement'[t].function = statement[t].function
                              /\ Worked(statement[t].work, statement'[t])
    BY <2>4 DEF Same, Alike, Settles, Worked, Transactional
  <2>6. Alive'
    BY <2>4, <2>5 DEF Alive, Settles, Transactional
  <2>7. Outcomes'
    BY <2>1, <2>3, <2>4, <2>5, <2>6, SettlingKeepsOutcomes DEF userVars, pinVars
  <2> QED
    BY <2>1, <2>4, <2>7, SettlingKeepsTraces
<1>4. CASE \E outcome \in {"kept", "undone"}, acknowledged \in BOOLEAN : EndTransaction(outcome, acknowledged)
  <2> PICK outcome \in {"kept", "undone"}, acknowledged \in BOOLEAN : EndTransaction(outcome, acknowledged)
    BY <1>4
  <2>1. /\ Outcomes' /\ statement' \in [Statements -> Use]
        /\ \A t \in Statements : Same(statement[t], statement'[t])
    BY EndingKeepsOutcomes
  <2>2. NobodyExecutes /\ pinned' = NotPinned
        /\ pooled' = IF ~pinned.held \/ ~acknowledged \/ pinned.tainted THEN pooled
                     ELSE IF pinned.dirty THEN "dirty" ELSE "clean"
    BY DEF EndTransaction
  <2>3. pooled' # "dirty"
    <3>1. CASE ~pinned.held \/ ~acknowledged \/ pinned.tainted
      BY <2>2, <3>1 DEF Traces
    <3>2. CASE ~(~pinned.held \/ ~acknowledged \/ pinned.tainted)
      BY <2>2, <3>2 DEF Traces
    <3> QED
      BY <3>1, <3>2
  <2>4. ASSUME NEW t \in Statements PROVE Traced(statement[t])'
    <3>1. Same(statement[t], statement'[t]) /\ statement[t].at \in Nat
      BY <2>1 DEF Typed, Used, Use
    <3>2. statement[t].answer = "running" /\ Transactional(statement[t]) => statement[t].at <= 2
      BY <2>2, NobodyIsInside DEF Running
    <3>3. ~(statement[t].at <= 2 /\ (statement[t].at > 4 \/ statement[t].at > 5))
      BY <3>1
    <3> QED
      BY <3>1, <3>2, <3>3 DEF Traced, Same, Alike, Transactional
  <2>5. ~NotPinned.dirty
    BY DEF NotPinned
  <2> QED
    BY <2>1, <2>2, <2>3, <2>4, <2>5 DEF Traces, Traced, Transactional
<1> QED
  BY <1>1, <1>2, <1>3, <1>4 DEF UserStep

LEMMA InitOutcomes ==
    ASSUME CallsInit
    PROVE  Outcomes /\ Traces
<1>1. /\ statement = [s \in Statements |-> NotBound] /\ transaction = 1 /\ pinned = NotPinned /\ pooled = "none"
  BY DEF CallsInit
<1>2. /\ NotBound.function.keeps = "nobody" /\ NotBound.at = 1 /\ NotBound.answer = "none" /\ NotBound.work = "none"
      /\ NotBound.transaction = 0 /\ ~NotBound.inside
  BY DEF NotBound, OracleCloseCall, Reads, Function
<1>3. \A s \in Statements : statement[s] = NotBound
  BY <1>1
<1>4. Own(NotBound) /\ Dated(NotBound) /\ Alone(NotBound) /\ Traced(NotBound) /\ Together(NotBound, NotBound)
  BY <1>2 DEF Own, Dated, Alone, Traced, Together, Transactional
<1>5. Alive
  BY <1>2, <1>3 DEF Alive
<1>6. ~NotPinned.dirty
  BY DEF NotPinned
<1> QED
  BY <1>1, <1>3, <1>4, <1>5, <1>6 DEF Outcomes, Traces

(* The invariant is inductive, ...                                         *)
LEMMA OutcomesAreKept ==
    ASSUME Typed, Hands, Outcomes, Traces, [CallsNext]_callsVars
    PROVE  Outcomes' /\ Traces'
<1>1. CASE CallsNext
  BY <1>1, FunctionStepsKeepOutcomes, UserStepsKeepOutcomes DEF CallsNext
<1>2. CASE UNCHANGED callsVars
  <2>1. UNCHANGED <<statement, opened, transaction, pinVars>> /\ explicit' = explicit
    BY <1>2 DEF callsVars, userVars
  <2> QED
    BY <2>1, NothingKeepsOutcomes
<1> QED
  BY <1>1, <1>2

(* ... and says what the property does.                                    *)
LEMMA OutcomesAreSettled ==
    ASSUME Typed, Outcomes, Traces
    PROVE  AnswersAreSettled
<1>1. ASSUME NEW s \in Statements
      PROVE  LET u == statement[s] IN
         /\ u.answer = "success" /\ Keeps(s) = "statement" => u.work = "kept"
         /\ u.answer = "failed" /\ u.work = "kept" =>
              \/ Step(s) \in {"ddl", "commit", "close"}
              \/ Step(s) = "register" /\ u.function = OraclePlsql
         /\ Keeps(s) = "nobody" => u.work # "kept"
         /\ Keeps(s) # "transaction" /\ u.work = "pending" => Running(s) \/ \E c \in opened : c[1] = s
         /\ ~u.inside
  <2> DEFINE u == statement[s]   f == u.function
  <2>1. Own(u) /\ f \in Functions /\ u.at \in Nat
    BY DEF Outcomes, Typed, Used, Use
  <2>2. u.answer = "success" /\ f.keeps = "statement" => u.work = "kept"
    <3> SUFFICES ASSUME u.answer = "success", f.keeps = "statement" PROVE Committed(u)
      BY <2>1 DEF Own
    <3>1. u.at = Len(f.steps) /\ 1 \in Positions(f)
      BY <2>1, CoursesAreLong DEF Own, Positions
    <3>2. PICK j \in Positions(f) : j < Len(f.steps) /\ f.steps[j] \in {"commit", "ddl"}
      BY <2>1, <3>1, CommitsAreLate
    <3>3. j \in 1..(u.at - 1)
      BY <2>1, <3>1, <3>2 DEF Positions
    <3> QED
      BY <3>2, <3>3 DEF Committed
  <2> QED
    BY <2>1, <2>2 DEF Own, Keeps, Step, Steps, Transactional, Outcomes, Alive, Running
<1>2. ASSUME NEW s \in Statements, NEW t \in Statements,
             Keeps(s) = "transaction", Keeps(t) = "transaction", statement[s].transaction = statement[t].transaction
      PROVE  ~(statement[s].work = "kept" /\ statement[t].answer = "failed" /\ statement[t].transaction > 0)
  <2>1. Together(statement[s], statement[t])
    BY DEF Outcomes
  <2> QED
    BY <1>2, <2>1 DEF Together, Keeps, Transactional
<1> QED
  BY <1>1, <1>2 DEF AnswersAreSettled, Traces

(* What a function says of its work is so, and a transaction that lost a   *)
(* statement keeps none of the others, whatever is bound, executed, ended  *)
(* and interrupted in between: oracle_execute, oracle_plsql and            *)
(* oracle_admin say success of work that is kept, nothing of what a DDL    *)
(* statement commits was in a transaction of the user's, and the session   *)
(* of a transaction that ran a procedure is not pooled.                    *)
THEOREM EveryAnswerIsSettled == CallsInit /\ [][CallsNext]_callsVars => []AnswersAreSettled
<1> DEFINE IInv == Typed /\ Hands /\ Outcomes /\ Traces
<1>1. CallsInit => IInv
  BY InitHands, InitOutcomes
<1>2. IInv /\ [CallsNext]_callsVars => IInv'
  BY HandsAreKept, OutcomesAreKept
<1>3. IInv => AnswersAreSettled
  BY OutcomesAreSettled
<1> QED
  BY <1>1, <1>2, <1>3, PTL
=============================================================================
