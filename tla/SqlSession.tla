----------------------------- MODULE SqlSession -----------------------------
(***************************************************************************)
(* How one GrSession of orm/orm.go builds its statements: the parts kept   *)
(* in the session, which no call ever clears, and what each statement      *)
(* sends.  OrmSession models the connections and the transaction.          *)
(*                                                                         *)
(* A part is a slot: the column, the statement the caller gave it for (the *)
(* statements of the session are counted) and the row of a batch, or the   *)
(* place in a condition.  A question mark and the value meant for it are   *)
(* the same slot, so a statement is right when its holes are its args.  Of *)
(* the text of the conditions the model keeps what decides whether the     *)
(* database parses it.  Arguments that panic before anything is written    *)
(* (In without values, an odd Order, data that is no pointer) are not      *)
(* given.                                                                  *)
(***************************************************************************)
EXTENDS Naturals, Sequences, FiniteSets, SequencesExt

CONSTANTS Fields,    \* the columns of the tables besides the id
          Keys,      \* the columns of conditions
          Rows,      \* the rows the caller has: the columns of their struct, in
                     \* order, and whether they have an id that is positive
          Batches,   \* the batches the caller inserts
          MaxParts,  \* bound: parts of updates and conditions given to a session
          MaxStmts   \* bound: statements of a session

ASSUME FieldsAssumption  == "id" \notin Fields
ASSUME KeysAssumption    == Keys \subseteq Fields \cup {"id"}
ASSUME RowsAssumption    == Rows \subseteq [struct : Seq(Fields) \ {<<>>}, id : BOOLEAN]
ASSUME BatchesAssumption == Batches \subseteq UNION {[1..n -> Rows] : n \in 1..2}
ASSUME BoundsAssumption  == MaxParts \in Nat /\ MaxStmts \in Nat

VARIABLES
  fieldName,   \* the columns to insert; placeHolder has one "?" for each
  values,      \* the values to insert or to set
  updateParam, \* the columns to set, each with a "?"
  whereParam,  \* the "?" of the conditions
  whereValues, \* the values of the conditions
  text,        \* how the text of whereParam ends
  stmts,       \* statements run
  sent,        \* the statement just run: what it sent and what came of it
  batched,     \* InsertBatch has run (history)
  structs,     \* the structs of the rows to insert (history)
  even         \* each condition had a value for each "?" of it (history)

parts == <<fieldName, values, updateParam, whereParam, whereValues, text>>
vars  == <<fieldName, values, updateParam, whereParam, whereValues, text,
           stmts, sent, batched, structs, even>>

Columns  == Fields \cup {"id"}
Texts    == {"empty", "condition", "connective", "group", "order",
             "group-order", "broken"}
Reads    == {"select", "count", "row"}
Kinds    == Reads \cup {"insert", "batch", "update", "delete", "raw"}
Outcomes == {"unprepared", "refused", "cut", "executed"}  \* cut: while rows are read
Answers  == {"ok", "error", "panic"}

NotSent == [kind |-> "raw", holes |-> <<>>, args |-> <<>>, answer |-> "ok",
            outcome |-> "executed"]

Slot(f, row) == [field |-> f, stmt |-> stmts, row |-> row]
Field(slots) == [i \in DOMAIN slots |-> slots[i].field]

(* New *)
Init ==
  /\ fieldName = <<>> /\ values = <<>> /\ updateParam = <<>>
  /\ whereParam = <<>> /\ whereValues = <<>> /\ text = "empty"
  /\ stmts = 0 /\ batched = FALSE /\ structs = {} /\ even = TRUE
  /\ sent = NotSent

-----------------------------------------------------------------------------
(* The conditions.  Only the first condition writes " where ".             *)

AfterCondition == IF text \in {"empty", "connective"} THEN "condition" ELSE "broken"
AfterOrder     == CASE text \in {"empty", "condition"} -> "order"
                    [] text = "group"                  -> "group-order"
                    [] OTHER                           -> "broken"

Building ==
  /\ stmts < MaxStmts /\ sent' = NotSent /\ UNCHANGED <<stmts, batched, structs>>

Room(n) == Len(updateParam) + Len(whereParam) + Len(whereValues) + n <= MaxParts

Places(f, n) == [i \in 1..n |-> Slot(f, i)]

(* A condition with so many question marks and n values.  Bound: a text    *)
(* that does not parse, and never will, is given no more.                  *)
Condition(f, marks, n) ==
  /\ Room(marks + n) /\ text # "broken"
  /\ whereParam' = whereParam \o Places(f, marks)
  /\ whereValues' = whereValues \o Places(f, n)
  /\ even' = (even /\ marks = n)
  /\ text' = AfterCondition
  /\ UNCHANGED <<fieldName, values, updateParam>> /\ Building

(* Mutant: In writes one question mark for all its values. *)
MutIn(f, n) ==
  /\ Room(1 + n) /\ text # "broken"
  /\ whereParam' = whereParam \o Places(f, 1)
  /\ whereValues' = whereValues \o Places(f, n)
  /\ text' = AfterCondition
  /\ UNCHANGED <<fieldName, values, updateParam, even>> /\ Building

Where(f)      == Condition(f, 1, 1)  \* also Like, LikeLeft.., Gt, Ge, Lt, Le, Ne
In(f, n)      == Condition(f, n, n)  \* also NotIn
Between(f, n) == Condition(f, 2, n)
IsNull        == \E f \in Keys : Condition(f, 0, 0)  \* also IsNotNull

(* The text of the caller, with any number of values. *)
WhereMultiple(f, marks, n) == Condition(f, marks, n)

Text(next) ==
  /\ text # "broken" /\ text' = next
  /\ UNCHANGED <<fieldName, values, updateParam, whereParam, whereValues, even>>
  /\ Building

And   == Text(IF text = "condition" THEN "connective" ELSE "broken")  \* also Or
Group == Text(IF text \in {"empty", "condition"} THEN "group" ELSE "broken")
Order == Text(AfterOrder)  \* also OrderAsc, OrderDesc

-----------------------------------------------------------------------------
(* The statements *)

(* The columns fieldNames and Update take of a row: those of its struct;   *)
(* an id that is not positive is left to the database.                     *)
FieldsOf(row) == (IF row.id THEN <<"id">> ELSE <<>>) \o row.struct

Slots(fields, row) == [i \in DOMAIN fields |-> Slot(fields[i], row)]

(* Prepare, then Exec or Query: the database parses the text, the driver   *)
(* wants one value for each question mark, and either may fail for a       *)
(* reason of its own, as may the reading of the rows.                      *)
Send(kind, holes, args, parses, outcome, answer) ==
  /\ stmts < MaxStmts /\ stmts' = stmts + 1
  /\ outcome # "unprepared" => parses
  /\ outcome \in {"cut", "executed"} => Len(holes) = Len(args)
  /\ outcome = "cut" => kind \in Reads
  /\ sent' = [kind |-> kind, holes |-> holes, args |-> args,
              outcome |-> outcome, answer |-> answer]
  /\ batched' = (batched \/ kind = "batch")
  /\ UNCHANGED even

(* A statement that writes returns every error; it may get one for what    *)
(* the database has executed.                                              *)
Told(outcome) == IF outcome = "executed" THEN {"ok", "error"} ELSE {"error"}

Write(kind, holes, args, parses, outcome) ==
  \E answer \in Told(outcome) : Send(kind, holes, args, parses, outcome, answer)

(* Mutant: the columns and values of the row are taken once. *)
MutInsert(row, outcome) ==
  LET new == IF fieldName = <<>> THEN Slots(FieldsOf(row), 1) ELSE <<>>
  IN /\ fieldName' = fieldName \o new
     /\ values' = values \o new
     /\ structs' = structs \cup {row.struct}
     /\ Write("insert", fieldName', values', IsInjective(Field(fieldName')), outcome)
     /\ UNCHANGED <<updateParam, whereParam, whereValues, text>>

(* fieldNames appends to what earlier statements left. *)
Insert(row, outcome) ==
  LET new == Slots(FieldsOf(row), 1)
  IN /\ fieldName' = fieldName \o new
     /\ values' = values \o new
     /\ structs' = structs \cup {row.struct}
     /\ Write("insert", fieldName', values', IsInjective(Field(fieldName')), outcome)
     /\ UNCHANGED <<updateParam, whereParam, whereValues, text>>

(* Mutant: the rows of the values are counted from two.                    *)
MutInsertBatch(rows, outcome) ==
  LET Holes(row) == [i \in DOMAIN fieldName' |-> [fieldName'[i] EXCEPT !.row = row]]
      Args(row)  == Slots(FieldsOf(rows[row]), row + 1)
  IN /\ fieldName' = fieldName \o Slots(FieldsOf(rows[1]), 1)
     /\ values' = FlattenSeq([i \in DOMAIN rows |-> Args(i)])
     /\ structs' = structs \cup {rows[i].struct : i \in DOMAIN rows}
     /\ Write("batch", FlattenSeq([i \in DOMAIN rows |-> Holes(i)]), values',
              IsInjective(Field(fieldName')), outcome)
     /\ UNCHANGED <<updateParam, whereParam, whereValues, text>>

(* The columns are those of the first row, the values those of every row.  *)
InsertBatch(rows, outcome) ==
  LET Holes(row) == [i \in DOMAIN fieldName' |-> [fieldName'[i] EXCEPT !.row = row]]
      Args(row)  == Slots(FieldsOf(rows[row]), row)
  IN /\ fieldName' = fieldName \o Slots(FieldsOf(rows[1]), 1)
     /\ values' = FlattenSeq([i \in DOMAIN rows |-> Args(i)])
     /\ structs' = structs \cup {rows[i].struct : i \in DOMAIN rows}
     /\ Write("batch", FlattenSeq([i \in DOMAIN rows |-> Holes(i)]), values',
              IsInjective(Field(fieldName')), outcome)
     /\ UNCHANGED <<updateParam, whereParam, whereValues, text>>

(* UpdateParam, one entry of UpdateMap, or the pair or the fields of the   *)
(* struct given to Update.                                                 *)
Given(fields) ==
  /\ Room(Len(fields))
  /\ updateParam' = updateParam \o Slots(fields, 1)

UpdateParam(fields) ==
  /\ Given(fields)
  /\ values' = values \o Slots(fields, 1)
  /\ UNCHANGED <<fieldName, whereParam, whereValues, text, even>> /\ Building

(* Mutant: the values of the conditions come first. *)
MutUpdate(fields, outcome) ==
  /\ Given(fields)
  /\ values' = (IF outcome = "unprepared" THEN <<>> ELSE whereValues)
                  \o values \o Slots(fields, 1)
  /\ Write("update", updateParam' \o whereParam, values',
           updateParam' # <<>> /\ text \in {"empty", "condition", "order"}, outcome)
  /\ UNCHANGED <<fieldName, whereParam, whereValues, text, structs>>

(* Update with nothing, a pair or a struct.  The values of the conditions  *)
(* join the values for good, once the statement is prepared.               *)
Update(fields, outcome) ==
  /\ Given(fields)
  /\ values' = values \o Slots(fields, 1)
                  \o (IF outcome = "unprepared" THEN <<>> ELSE whereValues)
  /\ Write("update", updateParam' \o whereParam, values',
           updateParam' # <<>> /\ text \in {"empty", "condition", "order"}, outcome)
  /\ UNCHANGED <<fieldName, whereParam, whereValues, text, structs>>

(* Mutant: the error of Exec is overwritten by the next one. *)
MutDelete(outcome) ==
  /\ Send("delete", whereParam, whereValues, text \in {"empty", "condition", "order"},
          outcome, IF outcome = "unprepared" THEN "error" ELSE "ok")
  /\ UNCHANGED <<parts, structs>>

Delete(outcome) ==
  /\ Write("delete", whereParam, whereValues, text \in {"empty", "condition", "order"},
           outcome)
  /\ UNCHANGED <<parts, structs>>

(* Select and SelectOne ignore the error of Query and use the rows, which  *)
(* are nil; QueryRow returns it; Aggregate returns the error of Prepare,   *)
(* nil by then.  None of the first three asks why the rows have ended.     *)
(* Rows that were read may hold a value the caller's type cannot take.     *)
ReadAnswers(kind, outcome) ==
  CASE outcome = "unprepared" -> {"error"}
    [] outcome = "refused"    -> {CASE kind = "select" -> "panic"
                                    [] kind = "count"  -> "ok"
                                    [] kind = "row"    -> "error"}
    [] outcome = "cut"        -> {IF kind = "count" THEN "error" ELSE "ok"}
    [] outcome = "executed"   -> {"ok", IF kind = "count" THEN "error" ELSE "panic"}

Read(kind, outcome) ==
  /\ \E answer \in ReadAnswers(kind, outcome) :
       Send(kind, whereParam, whereValues, text \notin {"connective", "broken"},
            outcome, answer)
  /\ UNCHANGED <<parts, structs>>

(* QueryRow takes its values as they are, with a text of the caller's;     *)
(* QueryExec hands them over as one value, which the driver refuses.       *)
QueryRow(outcome) ==
  /\ \E answer \in ReadAnswers("row", outcome) :
       Send("row", <<Slot("id", 1)>>, <<Slot("id", 1)>>, TRUE, outcome, answer)
  /\ UNCHANGED <<parts, structs>>

QueryExec(outcome) ==
  /\ Write("raw", <<>>, <<Slot("id", 1)>>, TRUE, outcome)
  /\ UNCHANGED <<parts, structs>>

(* Bound: conditions of up to two question marks and values. *)
Build ==
  \/ \E f \in Keys :
       \/ Where(f)
       \/ \E n \in 1..2 : In(f, n)
       \/ \E n \in 0..2 : Between(f, n)
       \/ \E marks, n \in 0..2 : WhereMultiple(f, marks, n)
  \/ IsNull \/ And \/ Group \/ Order
  \/ \E f \in Fields : UpdateParam(<<f>>)

Statement(outcome) ==
  \/ \E row \in Rows : Insert(row, outcome) \/ Update(FieldsOf(row), outcome)
  \/ \E rows \in Batches : InsertBatch(rows, outcome)
  \/ Update(<<>>, outcome)
  \/ \E f \in Fields : Update(<<f>>, outcome)
  \/ \E kind \in {"select", "count"} : Read(kind, outcome)
  \/ Delete(outcome) \/ QueryExec(outcome) \/ QueryRow(outcome)

Next == Build \/ \E outcome \in Outcomes : Statement(outcome)

Spec == Init /\ [][Next]_vars

-----------------------------------------------------------------------------
(* Properties *)

SlotSet == [field : Columns, stmt : 0..MaxStmts, row : 1..2]

(* The types. *)
TypeOK ==
  /\ \A s \in {fieldName, values, updateParam, whereParam, whereValues} :
       s \in Seq(SlotSet)
  /\ text \in Texts /\ stmts \in 0..MaxStmts /\ batched \in BOOLEAN
  /\ structs \subseteq Seq(Fields) \ {<<>>} /\ even \in BOOLEAN
  /\ sent \in [kind : Kinds, holes : Seq(SlotSet), args : Seq(SlotSet),
               answer : Answers, outcome : Outcomes]

OneStruct == \A s, t \in structs : s = t

(* If the conditions had a value for each question mark, the first         *)
(* statement of a session pairs each with its own, whatever the calls that *)
(* built it, unless a batch mixes rows with and without an id or of two    *)
(* structs, or values given for an update precede an insert: the appends   *)
(* of fieldNames, Update, UpdateParam and the conditions.                  *)
FirstStatementAligned ==
  stmts = 1 /\ even =>
    \/ sent.kind = "raw" \/ sent.holes = sent.args
    \/ sent.kind = "batch" /\ (Len(sent.args) # Len(sent.holes) \/ ~OneStruct)
    \/ sent.kind = "insert" /\ updateParam # <<>>
    \/ sent.kind = "update" /\ sent.outcome = "unprepared"

(* However a session is reused, no executed statement sets a column, or    *)
(* compares one, with another value than it was given: the leftovers of    *)
(* earlier statements make the driver or the database refuse it.  Not so   *)
(* after a condition with too few or too many values, whose excess or lack *)
(* those of an update may make up for, nor after InsertBatch, which clears *)
(* the values but not the columns to set.                                  *)
NothingMisplaced ==
  sent.outcome = "executed" /\ even /\ ~batched => sent.holes = sent.args

(* An insert that is executed stores the rows it was called with, on a     *)
(* reused session too, and no value left by an earlier statement, so long  *)
(* as the session is given rows of one struct.                             *)
InsertsItsRows ==
  sent.kind \in {"insert", "batch"} /\ sent.outcome = "executed" /\ OneStruct
    => /\ \A i \in DOMAIN sent.args : sent.args[i].stmt = stmts - 1
       /\ sent.holes = sent.args

(* A statement answered without an error was executed, but for two: a      *)
(* count whose query was refused, answered with 0, and the reads that take *)
(* the rows they got before a failure for all.                             *)
OkMeansExecuted ==
  sent.answer = "ok" =>
    \/ sent.outcome = "executed"
    \/ sent.outcome = "refused" /\ sent.kind = "count"
    \/ sent.outcome = "cut" /\ sent.kind \in {"select", "row"}
=============================================================================
