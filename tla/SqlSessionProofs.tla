-------------------------- MODULE SqlSessionProofs --------------------------
(***************************************************************************)
(* Proofs about SqlSession, for any columns, rows and bounds.              *)
(*                                                                         *)
(* What a statement sends is right or refused because of the lengths of    *)
(* the parts a session has left: the values are at least as many as the    *)
(* columns to insert and to set together, and when they are as many as     *)
(* one kind alone they are its own.  Leftovers of the other kind therefore *)
(* give the statement another number of values than of question marks, and *)
(* a second insert of the same struct names a column twice.                *)
(***************************************************************************)
EXTENDS SqlSession, SequenceTheorems, FiniteSetTheorems, TLAPS

(* A condition leaves as many values as question marks, each its own,      *)
(* unless the caller gave it more or fewer.                                *)
Paired == even => whereParam = whereValues

(* Before a batch the values are those of the columns, and of conditions   *)
(* that an update has added; after one there are columns to insert.        *)
Leftovers ==
  /\ ~batched =>
       /\ Len(values) >= Len(fieldName) + Len(updateParam)
       /\ Len(values) = Len(fieldName) => values = fieldName
       /\ Len(values) = Len(updateParam) => values = updateParam
  /\ batched => fieldName # <<>>

(* The columns to insert come from a row, and name the first column of the *)
(* only struct there was.                                                  *)
Names(column) == \E i \in 1..Len(fieldName) : fieldName[i].field = column
Led ==
  /\ fieldName # <<>> => structs # {}
  /\ OneStruct => \A s \in structs : Names(s[1])

(* Until its first statement a session has nothing to insert. *)
Unused ==
  stmts = 0 =>
    ~batched /\ fieldName = <<>> /\ values = updateParam /\ sent.kind = "raw"

IInv ==
  /\ TypeOK /\ Paired /\ Leftovers /\ Led /\ Unused
  /\ FirstStatementAligned /\ NothingMisplaced /\ InsertsItsRows /\ OkMeansExecuted
-----------------------------------------------------------------------------
(* Sequences of columns and of slots *)

(* The columns of a row include the first of its struct. *)
LEMMA FieldsOfRow ==
  ASSUME NEW row \in Rows
  PROVE  /\ row.struct \in Seq(Fields) \ {<<>>}
         /\ FieldsOf(row) \in Seq(Columns)
         /\ Len(FieldsOf(row)) \in Nat /\ Len(FieldsOf(row)) >= 1
         /\ \E i \in 1..Len(FieldsOf(row)) : FieldsOf(row)[i] = row.struct[1]
<1> DEFINE id == IF row.id THEN <<"id">> ELSE <<>>
<1>1. row.struct \in Seq(Fields) /\ row.struct # <<>>
  BY RowsAssumption
<1>2. PICK fields : fields = row.struct
  OBVIOUS
<1>3. fields \in Seq(Columns) /\ Len(fields) \in Nat /\ Len(fields) >= 1
  <2>1. Fields \subseteq Columns
    BY DEF Columns
  <2>2. fields \in Seq(Columns) /\ fields # <<>>
    BY <1>1, <1>2, <2>1, SeqMonotonic
  <2> QED
    BY <2>2, EmptySeq
<1>4. id \in Seq(Columns) /\ Len(id) \in Nat
  <2>1. "id" \in Columns
    BY DEF Columns
  <2>2. <<"id">> \in Seq(Columns) /\ <<>> \in Seq(Columns)
    BY <2>1
  <2> QED
    BY <2>2
<1>5. FieldsOf(row) = id \o fields
  BY <1>2 DEF FieldsOf
<1> HIDE DEF id
<1>6. /\ id \o fields \in Seq(Columns) /\ Len(id \o fields) = Len(id) + Len(fields)
      /\ (id \o fields)[Len(id) + 1] = fields[1]
  BY <1>3, <1>4
<1>7. Len(id) + 1 \in 1..(Len(id) + Len(fields))
  BY <1>3, <1>4
<1> QED
  BY <1>1, <1>2, <1>3, <1>4, <1>5, <1>6, <1>7

(* Slots joined to slots. *)
LEMMA Joined ==
  ASSUME NEW a \in Seq(SlotSet), NEW b \in Seq(SlotSet)
  PROVE  /\ a \o b \in Seq(SlotSet)
         /\ Len(a) \in Nat /\ Len(b) \in Nat /\ Len(a \o b) = Len(a) + Len(b)
         /\ \A i \in 1..Len(a) : (a \o b)[i] = a[i]
         /\ \A i \in 1..Len(b) : (a \o b)[Len(a) + i] = b[i]
OBVIOUS

(* A slot for each column of a sequence. *)
LEMMA SlotsOfFields ==
  ASSUME stmts \in 0..MaxStmts, NEW fields \in Seq(Columns), NEW row \in 1..2
  PROVE  /\ Slots(fields, row) \in Seq(SlotSet)
         /\ Len(Slots(fields, row)) = Len(fields)
         /\ \A i \in 1..Len(fields) :
              /\ Slots(fields, row)[i].field = fields[i]
              /\ Slots(fields, row)[i].stmt = stmts
              /\ Slots(fields, row)[i].row = row
<1>1. Len(fields) \in Nat /\ DOMAIN fields = 1..Len(fields)
  OBVIOUS
<1>2. \A i \in 1..Len(fields) : fields[i] \in Columns
  OBVIOUS
<1>3. \A i \in 1..Len(fields) : Slot(fields[i], row) \in SlotSet
  BY <1>2 DEF Slot, SlotSet
<1>4. Slots(fields, row) = [i \in 1..Len(fields) |-> Slot(fields[i], row)]
  BY <1>1 DEF Slots
<1>5. Slots(fields, row) \in [1..Len(fields) -> SlotSet]
  BY <1>3, <1>4
<1>6. Slots(fields, row) \in Seq(SlotSet) /\ Len(Slots(fields, row)) = Len(fields)
  BY <1>1, <1>5, IsASeq, LenProperties
<1> QED
  BY <1>4, <1>6 DEF Slot

(* The slots of one condition. *)
LEMMA SlotsOfCondition ==
  ASSUME stmts \in 0..MaxStmts, NEW f \in Columns, NEW n \in 0..2
  PROVE  Places(f, n) \in Seq(SlotSet)
<1>1. \A i \in 1..n : Slot(f, i) \in SlotSet
  BY DEF Slot, SlotSet
<1> QED
  BY <1>1, IsASeq DEF Places

(* One sequence of sequences is itself, two are joined. *)
LEMMA Flattened ==
  ASSUME NEW T, NEW a \in Seq(T), NEW b \in Seq(T)
  PROVE  FlattenSeq(<<a>>) = a /\ FlattenSeq(<<a, b>>) = a \o b
<1>1. FlattenSeq(<<a>>) = a
  <2> DEFINE seqs == <<a>>
             Def(f) == f = [i \in 1..1 |-> IF i = 1 THEN seqs[i] ELSE f[i-1] \o seqs[i]]
             one == [i \in 1..1 |-> a]
  <2>1. Def(one)
    OBVIOUS
  <2>2. \A f : Def(f) => f[1] = a
    OBVIOUS
  <2>3. Def(CHOOSE f : Def(f))
    BY <2>1
  <2>4. (CHOOSE f : Def(f))[1] = a
    BY <2>2, <2>3
  <2>5. Len(seqs) = 1
    OBVIOUS
  <2> QED
    BY <2>4, <2>5 DEF FlattenSeq
<1>2. FlattenSeq(<<a, b>>) = a \o b
  <2> DEFINE seqs == <<a, b>>
             Def(f) == f = [i \in 1..Len(seqs) |-> IF i = 1 THEN seqs[i] ELSE f[i-1] \o seqs[i]]
             both == [i \in 1..2 |-> IF i = 1 THEN a ELSE a \o b]
  <2>1. Len(seqs) = 2 /\ seqs[1] = a /\ seqs[2] = b
    OBVIOUS
  <2>2. both[1] = a /\ both[2] = a \o b /\ both = [i \in 1..2 |-> both[i]]
    OBVIOUS
  <2> HIDE DEF seqs, both
  <2>3. Def(both)
    <3>1. ASSUME NEW i \in 1..2
          PROVE  both[i] = (IF i = 1 THEN seqs[i] ELSE both[i-1] \o seqs[i])
      <4>1. CASE i = 1
        BY <4>1, <2>1, <2>2
      <4>2. CASE i = 2
        BY <4>2, <2>1, <2>2
      <4> QED
        BY <4>1, <4>2
    <3> QED
      BY <3>1, <2>1, <2>2
  <2>4. ASSUME NEW f, Def(f) PROVE f[2] = a \o b
    <3>1. f = [i \in 1..2 |-> IF i = 1 THEN seqs[i] ELSE f[i-1] \o seqs[i]]
      BY <2>1, <2>4
    <3>2. \A i \in 1..2 : f[i] = (IF i = 1 THEN seqs[i] ELSE f[i-1] \o seqs[i])
      BY <3>1
    <3>3. f[1] = a
      BY <3>2, <2>1
    <3>4. PICK k \in 1..2 : k = 2 /\ k # 1 /\ k - 1 = 1
      OBVIOUS
    <3>5. f[k] = f[k - 1] \o seqs[k]
      BY <3>2, <3>4, Zenon
    <3>6. f[2] = f[1] \o seqs[2]
      BY <3>4, <3>5
    <3> QED
      BY <3>3, <3>6, <2>1
  <2>5. Def(CHOOSE f : Def(f))
    BY <2>3
  <2>6. FlattenSeq(seqs) = (CHOOSE f : Def(f))[Len(seqs)]
    BY <2>1 DEF FlattenSeq
  <2> HIDE DEF Def
  <2>7. (CHOOSE f : Def(f))[2] = a \o b
    BY <2>4, <2>5
  <2> QED
    BY <2>1, <2>6, <2>7 DEF seqs
<1> QED
  BY <1>1, <1>2
-----------------------------------------------------------------------------
(* What one statement leaves *)

(* What may be answered without an error. *)
Honest(kind, outcome, answer) ==
  answer = "ok" => \/ outcome = "executed"
                   \/ outcome = "refused" /\ kind = "count"
                   \/ outcome = "cut" /\ kind \in {"select", "row"}

(* The record of a statement, by what it sent. *)
Recorded(kind, holes, args, parses, outcome) ==
  /\ stmts' = stmts + 1 /\ stmts' \in 0..MaxStmts /\ stmts' # 0
  /\ batched' = (batched \/ kind = "batch") /\ even' = even
  /\ sent' \in [kind : Kinds, holes : Seq(SlotSet), args : Seq(SlotSet),
                answer : Answers, outcome : Outcomes]
  /\ sent'.kind = kind /\ sent'.holes = holes /\ sent'.args = args
  /\ sent'.outcome = outcome
  /\ sent'.outcome = "executed" => parses /\ Len(holes) = Len(args)
  /\ Honest(sent'.kind, sent'.outcome, sent'.answer)

LEMMA SendLeaves ==
  ASSUME stmts \in 0..MaxStmts, batched \in BOOLEAN,
         NEW kind \in Kinds, NEW holes \in Seq(SlotSet), NEW args \in Seq(SlotSet),
         NEW parses, NEW outcome \in Outcomes, NEW answer \in Answers,
         Honest(kind, outcome, answer), Send(kind, holes, args, parses, outcome, answer)
  PROVE  Recorded(kind, holes, args, parses, outcome)
<1>1. /\ stmts < MaxStmts /\ stmts' = stmts + 1
      /\ outcome = "executed" => parses /\ Len(holes) = Len(args)
      /\ sent' = [kind |-> kind, holes |-> holes, args |-> args,
                  outcome |-> outcome, answer |-> answer]
      /\ batched' = (batched \/ kind = "batch") /\ even' = even
  BY DEF Send
<1>2. stmts' \in 0..MaxStmts /\ stmts' # 0
  BY <1>1, BoundsAssumption
<1> QED
  BY <1>1, <1>2 DEF Recorded

(* A statement that writes answers the truth. *)
LEMMA WriteLeaves ==
  ASSUME stmts \in 0..MaxStmts, batched \in BOOLEAN,
         NEW kind \in Kinds, NEW holes \in Seq(SlotSet), NEW args \in Seq(SlotSet),
         NEW parses, NEW outcome \in Outcomes, Write(kind, holes, args, parses, outcome)
  PROVE  Recorded(kind, holes, args, parses, outcome)
<1>1. PICK answer \in Told(outcome) : Send(kind, holes, args, parses, outcome, answer)
  BY DEF Write
<1>2. answer \in Answers /\ Honest(kind, outcome, answer)
  BY DEF Told, Answers, Honest
<1> QED
  BY <1>1, <1>2, SendLeaves
-----------------------------------------------------------------------------
(* The steps that build a statement *)

(* The parts, by their types. *)
LEMMA PartTypes ==
  TypeOK => /\ fieldName \in Seq(SlotSet) /\ values \in Seq(SlotSet)
            /\ updateParam \in Seq(SlotSet) /\ whereParam \in Seq(SlotSet)
            /\ whereValues \in Seq(SlotSet)
            /\ stmts \in 0..MaxStmts /\ batched \in BOOLEAN /\ even \in BOOLEAN
            /\ structs \subseteq Seq(Fields) \ {<<>>}
BY DEF TypeOK

(* A session that is being built for has sent nothing. *)
LEMMA NothingSent ==
  ASSUME IInv, Building
  PROVE  /\ stmts' = stmts /\ batched' = batched /\ structs' = structs
         /\ sent' \in [kind : Kinds, holes : Seq(SlotSet), args : Seq(SlotSet),
                       answer : Answers, outcome : Outcomes]
         /\ sent'.kind = "raw"
         /\ FirstStatementAligned' /\ NothingMisplaced' /\ InsertsItsRows' /\ OkMeansExecuted'
<1>1. stmts' = stmts /\ sent' = NotSent /\ batched' = batched /\ structs' = structs
  BY DEF Building
<1>2. <<>> \in Seq(SlotSet)
  OBVIOUS
<1>3. sent' \in [kind : Kinds, holes : Seq(SlotSet), args : Seq(SlotSet),
                answer : Answers, outcome : Outcomes]
  BY <1>1, <1>2 DEF NotSent, Kinds, Answers, Outcomes
<1>4. /\ FirstStatementAligned' /\ NothingMisplaced' /\ InsertsItsRows'
      /\ OkMeansExecuted' /\ sent'.kind = "raw"
  BY <1>1 DEF NotSent, FirstStatementAligned, NothingMisplaced, InsertsItsRows,
              OkMeansExecuted
<1> QED
  BY <1>1, <1>3, <1>4

(* A condition adds the same slots to question marks and values, if the    *)
(* caller gives as many.                                                   *)
LEMMA ConditionKeeps ==
  ASSUME IInv, NEW f \in Columns, NEW marks \in 0..2, NEW n \in 0..2,
         Condition(f, marks, n)
  PROVE  IInv'
<1>1. PICK m, w : m = Places(f, marks) /\ w = Places(f, n)
  OBVIOUS
<1>2. /\ whereParam' = whereParam \o m /\ whereValues' = whereValues \o w
      /\ even' = (even /\ marks = n) /\ text' = AfterCondition
      /\ fieldName' = fieldName /\ values' = values /\ updateParam' = updateParam
      /\ Building /\ stmts' = stmts /\ batched' = batched /\ structs' = structs
  BY <1>1 DEF Condition, Building
<1>3. m \in Seq(SlotSet) /\ w \in Seq(SlotSet)
  BY <1>1, PartTypes, SlotsOfCondition DEF IInv
<1>4. TypeOK'
  <2>1. whereParam' \in Seq(SlotSet)
    BY <1>2, <1>3, PartTypes, ConcatProperties DEF IInv
  <2>2. whereValues' \in Seq(SlotSet)
    BY <1>2, <1>3, PartTypes, ConcatProperties DEF IInv
  <2>3. text' \in Texts
    BY <1>2 DEF AfterCondition, Texts
  <2> QED
    BY <1>2, <2>1, <2>2, <2>3, NothingSent, PartTypes DEF IInv, TypeOK
<1>5. Paired'
  <2>1. even' => even /\ m = w
    BY <1>1, <1>2
  <2> QED
    BY <1>2, <2>1 DEF IInv, Paired
<1>6. Leftovers' /\ Led' /\ Unused'
  BY <1>2, NothingSent DEF IInv, Leftovers, Led, Names, OneStruct, Unused
<1> QED
  BY <1>2, <1>4, <1>5, <1>6, NothingSent DEF IInv

(* A connective, a group or an order only moves the text. *)
LEMMA TextKeeps ==
  ASSUME IInv, NEW next \in Texts, Text(next)
  PROVE  IInv'
<1>1. /\ text' = next /\ whereParam' = whereParam /\ whereValues' = whereValues
      /\ fieldName' = fieldName /\ values' = values /\ updateParam' = updateParam
      /\ even' = even
      /\ Building /\ stmts' = stmts /\ batched' = batched /\ structs' = structs
  BY DEF Text, Building
<1>2. TypeOK'
  BY <1>1, NothingSent DEF IInv, TypeOK
<1>3. Paired' /\ Leftovers' /\ Led' /\ Unused'
  BY <1>1, NothingSent DEF IInv, Paired, Leftovers, Led, Names, OneStruct, Unused
<1> QED
  BY <1>1, <1>2, <1>3, NothingSent DEF IInv

(* The columns to set and their values grow alike. *)
LEMMA GivenLeaves ==
  ASSUME IInv, NEW fields \in Seq(Columns), Given(fields)
  PROVE  /\ updateParam' = updateParam \o Slots(fields, 1)
         /\ updateParam' \in Seq(SlotSet)
         /\ values \o Slots(fields, 1) \in Seq(SlotSet)
         /\ Len(updateParam') = Len(updateParam) + Len(fields)
         /\ Len(values \o Slots(fields, 1)) = Len(values) + Len(fields)
         /\ updateParam # <<>> => updateParam' # <<>>
<1> DEFINE new == Slots(fields, 1)
<1>1. new \in Seq(SlotSet) /\ Len(new) = Len(fields)
  BY PartTypes, SlotsOfFields DEF IInv
<1>2. updateParam' = updateParam \o new
  BY DEF Given
<1>3. /\ updateParam \in Seq(SlotSet) /\ values \in Seq(SlotSet)
      /\ Len(updateParam) \in Nat /\ Len(fields) \in Nat
  BY PartTypes DEF IInv
<1> HIDE DEF new
<1>4. /\ updateParam' \in Seq(SlotSet) /\ values \o new \in Seq(SlotSet)
      /\ Len(updateParam') = Len(updateParam) + Len(fields)
      /\ Len(values \o new) = Len(values) + Len(fields)
  <2>1. /\ updateParam \o new \in Seq(SlotSet)
        /\ Len(updateParam \o new) = Len(updateParam) + Len(new)
    BY <1>1, <1>3, Joined
  <2>2. values \o new \in Seq(SlotSet) /\ Len(values \o new) = Len(values) + Len(new)
    BY <1>1, <1>3, Joined
  <2> QED
    BY <2>1, <2>2, <1>1, <1>2
<1>5. updateParam # <<>> => updateParam' # <<>>
  <2>1. updateParam # <<>> => Len(updateParam) # 0
    BY <1>3, EmptySeq
  <2> QED
    BY <2>1, <1>3, <1>4
<1> QED
  BY <1>2, <1>4, <1>5 DEF new

(* UpdateParam: a value more than the columns to insert are. *)
LEMMA UpdateParamKeeps ==
  ASSUME IInv, NEW f \in Columns, UpdateParam(<<f>>)
  PROVE  IInv'
<1> DEFINE new == Slots(<<f>>, 1)
<1>1. <<f>> \in Seq(Columns) /\ Len(<<f>>) = 1
  OBVIOUS
<1>2. /\ Given(<<f>>) /\ values' = values \o new /\ fieldName' = fieldName
      /\ whereParam' = whereParam /\ whereValues' = whereValues /\ text' = text
      /\ even' = even
      /\ Building /\ stmts' = stmts /\ batched' = batched /\ structs' = structs
  BY DEF UpdateParam, Building
<1>3. /\ updateParam' = updateParam \o new /\ updateParam' \in Seq(SlotSet)
      /\ values' \in Seq(SlotSet)
      /\ Len(updateParam') = Len(updateParam) + 1 /\ Len(values') = Len(values) + 1
      /\ updateParam # <<>> => updateParam' # <<>>
  BY <1>1, <1>2, GivenLeaves
<1>4. /\ Len(values) \in Nat /\ Len(fieldName) \in Nat /\ Len(updateParam) \in Nat
  BY PartTypes DEF IInv
<1> HIDE DEF new
<1>5. TypeOK'
  BY <1>2, <1>3, NothingSent DEF IInv, TypeOK
<1>6. Paired' /\ Led'
  BY <1>2 DEF IInv, Paired, Led, Names, OneStruct
<1>7. Leftovers'
  <2>1. ~batched => /\ Len(values) >= Len(fieldName) + Len(updateParam)
                    /\ Len(values) = Len(updateParam) => values = updateParam
    BY DEF IInv, Leftovers
  <2>2. ~batched => Len(values') >= Len(fieldName) + Len(updateParam')
    BY <2>1, <1>3, <1>4
  <2>3. ~batched => Len(values') # Len(fieldName)
    BY <2>1, <1>3, <1>4
  <2>4. ~batched /\ Len(values') = Len(updateParam') => values' = updateParam'
    <3>1. Len(values') = Len(updateParam') => Len(values) = Len(updateParam)
      BY <1>3, <1>4
    <3> QED
      BY <3>1, <2>1, <1>2, <1>3
  <2> QED
    BY <2>2, <2>3, <2>4, <1>2 DEF IInv, Leftovers
<1>8. Unused'
  BY <1>2, <1>3, NothingSent DEF IInv, Unused
<1> QED
  BY <1>2, <1>5, <1>6, <1>7, <1>8, NothingSent DEF IInv
-----------------------------------------------------------------------------
(* The statements that change the parts *)

(* Nothing inserted is nothing left, and the values are then those of an   *)
(* update that was never sent.                                             *)
LEMMA NothingInserted ==
  ASSUME IInv, fieldName = <<>>
  PROVE  /\ ~batched
         /\ Len(values) = 0 => values = <<>>
BY DEF IInv, Leftovers

(* A column twice: an insert that goes on with one of the same struct. *)
LEMMA SecondInsertRepeats ==
  ASSUME IInv, NEW row \in Rows, fieldName # <<>>,
         \A s, t \in structs \cup {row.struct} : s = t,
         NEW h, h = fieldName \o Slots(FieldsOf(row), 1)
  PROVE  ~IsInjective(Field(h))
<1> DEFINE new == Slots(FieldsOf(row), 1)
<1>1. /\ FieldsOf(row) \in Seq(Columns) /\ 1 \in 1..2
      /\ fieldName \in Seq(SlotSet) /\ stmts \in 0..MaxStmts
  BY FieldsOfRow, PartTypes DEF IInv
<1>2. /\ new \in Seq(SlotSet) /\ Len(new) = Len(FieldsOf(row))
      /\ \A i \in 1..Len(FieldsOf(row)) : new[i].field = FieldsOf(row)[i]
  BY <1>1, SlotsOfFields
<1>3. PICK j \in 1..Len(FieldsOf(row)) : FieldsOf(row)[j] = row.struct[1]
  BY FieldsOfRow
<1>4. PICK i \in 1..Len(fieldName) : fieldName[i].field = row.struct[1]
  <2>1. row.struct \in structs /\ OneStruct
    BY DEF IInv, Led, OneStruct
  <2>2. Names(row.struct[1])
    BY <2>1 DEF IInv, Led
  <2> QED
    BY <2>2 DEF Names
<1> HIDE DEF new
<1>5. PICK n \in Nat : n = Len(fieldName)
  BY <1>1
<1>6. PICK k \in Nat : k = Len(new)
  BY <1>2
<1>7. Len(h) = n + k /\ h[i] = fieldName[i] /\ h[n + j] = new[j] /\ h \in Seq(SlotSet)
  BY <1>1, <1>2, <1>3, <1>4, <1>5, <1>6, Joined DEF new
<1>8. i \in 1..(n + k) /\ n + j \in 1..(n + k) /\ i # n + j
  BY <1>2, <1>3, <1>4, <1>5, <1>6
<1>9. DOMAIN h = 1..(n + k)
  BY <1>7
<1>10. Field(h)[i] = Field(h)[n + j] /\ DOMAIN Field(h) = 1..(n + k)
  BY <1>2, <1>3, <1>4, <1>7, <1>8, <1>9 DEF Field
<1> QED
  BY <1>8, <1>10 DEF IsInjective

(* Insert: executed only as the first one of its struct, with no values    *)
(* left over.                                                              *)
LEMMA InsertKeeps ==
  ASSUME IInv, NEW row \in Rows, NEW outcome \in Outcomes, Insert(row, outcome)
  PROVE  IInv'
<1> DEFINE slots == Slots(FieldsOf(row), 1)
<1>1. PICK new : new = slots
  OBVIOUS
<1>2. PICK h : h = fieldName'
  OBVIOUS
<1>3. PICK v : v = values'
  OBVIOUS
<1>4. PICK parses : parses = IsInjective(Field(h))
  OBVIOUS
<1>5. /\ h = fieldName \o new /\ v = values \o new
      /\ Write("insert", h, v, parses, outcome)
      /\ updateParam' = updateParam /\ whereParam' = whereParam
      /\ whereValues' = whereValues /\ text' = text
      /\ structs' = structs \cup {row.struct}
  BY <1>1, <1>2, <1>3, <1>4 DEF Insert
<1>6. /\ FieldsOf(row) \in Seq(Columns) /\ Len(FieldsOf(row)) \in Nat
      /\ Len(FieldsOf(row)) >= 1 /\ 1 \in 1..2
  BY FieldsOfRow
<1>7. /\ fieldName \in Seq(SlotSet) /\ values \in Seq(SlotSet)
      /\ updateParam \in Seq(SlotSet) /\ stmts \in 0..MaxStmts /\ batched \in BOOLEAN
  BY PartTypes DEF IInv
<1>8. /\ new \in Seq(SlotSet) /\ Len(new) = Len(FieldsOf(row))
      /\ \A i \in 1..Len(FieldsOf(row)) :
           new[i].field = FieldsOf(row)[i] /\ new[i].stmt = stmts
  BY <1>1, <1>6, <1>7, SlotsOfFields
<1>9. /\ h \in Seq(SlotSet) /\ v \in Seq(SlotSet)
      /\ Len(h) = Len(fieldName) + Len(new) /\ Len(v) = Len(values) + Len(new)
      /\ Len(fieldName) \in Nat /\ Len(values) \in Nat /\ Len(updateParam) \in Nat
      /\ \A i \in 1..Len(new) : h[Len(fieldName) + i] = new[i]
  BY <1>5, <1>7, <1>8, Joined
<1>10. /\ stmts' = stmts + 1 /\ stmts' \in 0..MaxStmts /\ stmts' # 0
       /\ batched' = batched /\ even' = even
       /\ sent' \in [kind : Kinds, holes : Seq(SlotSet), args : Seq(SlotSet),
                     answer : Answers, outcome : Outcomes]
       /\ sent'.kind = "insert" /\ sent'.holes = h /\ sent'.args = v
       /\ sent'.outcome = "executed" => parses /\ Len(h) = Len(v)
       /\ Honest(sent'.kind, sent'.outcome, sent'.answer)
  <2>1. "insert" \in Kinds
    BY DEF Kinds
  <2>2. Recorded("insert", h, v, parses, outcome)
    BY <2>1, <1>5, <1>7, <1>9, WriteLeaves
  <2> QED
    BY <2>2, <1>7 DEF Recorded
<1>11. TypeOK'
  <2>1. structs' \subseteq Seq(Fields) \ {<<>>}
    BY <1>5, FieldsOfRow, PartTypes DEF IInv
  <2> QED
    BY <2>1, <1>2, <1>3, <1>5, <1>7, <1>9, <1>10 DEF IInv, TypeOK
<1>12. h # <<>>
  BY <1>6, <1>8, <1>9
<1>13. Leftovers'
  <2>1. ~batched => /\ Len(values) >= Len(fieldName) + Len(updateParam)
                    /\ Len(values) = Len(fieldName) => values = fieldName
    BY DEF IInv, Leftovers
  <2>2. ~batched => Len(v) >= Len(h) + Len(updateParam) /\ Len(v) # Len(updateParam)
    BY <2>1, <1>6, <1>8, <1>9
  <2>3. ~batched /\ Len(v) = Len(h) => v = h
    <3>1. Len(v) = Len(h) => Len(values) = Len(fieldName)
      BY <1>8, <1>9, <1>6
    <3> QED
      BY <3>1, <2>1, <1>5
  <2> QED
    BY <2>2, <2>3, <1>2, <1>3, <1>5, <1>10, <1>12 DEF Leftovers
<1>14. Led'
  <2>1. PICK j \in 1..Len(FieldsOf(row)) : FieldsOf(row)[j] = row.struct[1]
    BY FieldsOfRow
  <2>2. PICK k : k = Len(fieldName) + j
    OBVIOUS
  <2>5. PICK first : first = row.struct[1]
    OBVIOUS
  <2>6. PICK fields : fields = FieldsOf(row)
    OBVIOUS
  <2>7. j \in 1..Len(fields) /\ fields[j] = first /\ Len(fields) \in Nat
    BY <2>1, <2>5, <2>6, <1>6
  <2>8. Len(new) = Len(fields) /\ \A i \in 1..Len(fields) : new[i].field = fields[i]
    BY <2>6, <1>8
  <2>9. k \in 1..Len(h) /\ h[k] = new[j]
    BY <2>2, <2>7, <2>8, <1>9
  <2>10. h[k].field = first
    BY <2>7, <2>8, <2>9
  <2>3. OneStruct' => \A s \in structs' : s = row.struct
    BY <1>5 DEF OneStruct
  <2>4. Names(row.struct[1])'
    BY <2>5, <2>9, <2>10, <1>2 DEF Names
  <2> QED
    BY <2>3, <2>4, <1>5 DEF Led
<1>15. Paired' /\ Unused'
  BY <1>5, <1>10 DEF IInv, Paired, Unused
<1>16. sent'.outcome = "executed" /\ OneStruct' => fieldName = <<>> /\ values = <<>>
  <2> SUFFICES ASSUME sent'.outcome = "executed", OneStruct'
               PROVE  fieldName = <<>> /\ values = <<>>
    OBVIOUS
  <2>1. \A s, t \in structs \cup {row.struct} : s = t
    BY <1>5 DEF OneStruct
  <2>2. fieldName = <<>>
    BY <2>1, <1>1, <1>4, <1>5, <1>10, SecondInsertRepeats
  <2>3. Len(values) = 0
    BY <2>2, <1>6, <1>8, <1>9, <1>10
  <2> QED
    BY <2>2, <2>3, NothingInserted
<1>17. sent'.outcome = "executed" /\ OneStruct' => h = new /\ v = new
  BY <1>5, <1>8, <1>16
<1>18. NothingMisplaced'
  BY <1>2, <1>3, <1>10, <1>13 DEF NothingMisplaced, Leftovers
<1>19. InsertsItsRows'
  <2>1. sent'.outcome = "executed" /\ OneStruct' =>
          \A i \in DOMAIN sent'.args : sent'.args[i].stmt = stmts' - 1
    <3>1. DOMAIN new = 1..Len(FieldsOf(row)) /\ stmts = stmts' - 1
      BY <1>7, <1>8, <1>10
    <3> QED
      BY <3>1, <1>8, <1>10, <1>17
  <2> QED
    BY <2>1, <1>10, <1>17 DEF InsertsItsRows
<1>20. FirstStatementAligned'
  <2>1. CASE stmts # 0
    <3>1. stmts' # 1
      BY <2>1, <1>7, <1>10
    <3> QED
      BY <3>1 DEF FirstStatementAligned
  <2>2. CASE stmts = 0 /\ updateParam = <<>>
    <3>1. h = v
      BY <2>2, <1>5 DEF IInv, Unused
    <3> QED
      BY <3>1, <1>10 DEF FirstStatementAligned
  <2>3. CASE updateParam # <<>>
    BY <2>3, <1>5, <1>10 DEF FirstStatementAligned
  <2> QED
    BY <2>1, <2>2, <2>3
<1>21. OkMeansExecuted'
  BY <1>10 DEF OkMeansExecuted, Honest
<1> QED
  BY <1>11, <1>13, <1>14, <1>15, <1>18, <1>19, <1>20, <1>21 DEF IInv

(* The question marks of a row, from those of the columns. *)
Copy(h, r) == [i \in DOMAIN h |-> [h[i] EXCEPT !.row = r]]

LEMMA CopyTypes ==
  ASSUME NEW h \in Seq(SlotSet), NEW r \in 1..2
  PROVE  Copy(h, r) \in Seq(SlotSet)
<1>1. Len(h) \in Nat /\ DOMAIN h = 1..Len(h)
  OBVIOUS
<1>2. \A i \in 1..Len(h) : h[i] \in SlotSet
  OBVIOUS
<1>3. \A i \in 1..Len(h) : [h[i] EXCEPT !.row = r] \in SlotSet
  BY <1>2 DEF SlotSet
<1>4. Copy(h, r) = [i \in 1..Len(h) |-> [h[i] EXCEPT !.row = r]]
  BY <1>1 DEF Copy
<1>5. Copy(h, r) \in [1..Len(h) -> SlotSet]
  BY <1>3, <1>4
<1> QED
  BY <1>1, <1>5, IsASeq

LEMMA CopyOfRow ==
  ASSUME NEW fields \in Seq(Columns), NEW r \in 1..2
  PROVE  Copy(Slots(fields, 1), r) = Slots(fields, r)
<1>1. DOMAIN fields = 1..Len(fields) /\ Slots(fields, 1) = [i \in 1..Len(fields) |-> Slot(fields[i], 1)]
      /\ Slots(fields, r) = [i \in 1..Len(fields) |-> Slot(fields[i], r)]
  BY DEF Slots
<1>2. ASSUME NEW i \in 1..Len(fields)
      PROVE  [Slots(fields, 1)[i] EXCEPT !.row = r] = Slot(fields[i], r)
  <2>1. Slots(fields, 1)[i] = Slot(fields[i], 1)
    BY <1>1
  <2> QED
    BY <2>1 DEF Slot
<1>3. DOMAIN Slots(fields, 1) = 1..Len(fields)
  BY <1>1
<1>4. Copy(Slots(fields, 1), r) = [i \in 1..Len(fields) |-> [Slots(fields, 1)[i] EXCEPT !.row = r]]
  BY <1>3 DEF Copy
<1> QED
  BY <1>1, <1>2, <1>4

(* Rows of one struct and of one length are the same. *)
LEMMA RowsByLength ==
  ASSUME NEW r \in Rows, NEW t \in Rows, r.struct = t.struct,
         Len(FieldsOf(r)) = Len(FieldsOf(t))
  PROVE  r = t
<1>1. PICK fields : fields = r.struct
  OBVIOUS
<1>2. fields \in Seq(Columns) /\ Len(fields) \in Nat /\ "id" \in Columns
  BY <1>1, FieldsOfRow, SeqMonotonic DEF Columns
<1>3. Len(<<"id">> \o fields) = 1 + Len(fields) /\ Len(<<>> \o fields) = Len(fields)
  <2>1. <<"id">> \in Seq(Columns) /\ Len(<<"id">>) = 1 /\ <<>> \in Seq(Columns) /\ Len(<<>>) = 0
    BY <1>2
  <2> QED
    BY <2>1, <1>2, ConcatProperties
<1>4. ASSUME NEW q \in Rows, q.struct = fields
      PROVE  Len(FieldsOf(q)) = (IF q.id THEN 1 + Len(fields) ELSE Len(fields))
  BY <1>3, <1>4 DEF FieldsOf
<1>5. /\ r.id \in BOOLEAN /\ t.id \in BOOLEAN
      /\ r = [struct |-> r.struct, id |-> r.id] /\ t = [struct |-> t.struct, id |-> t.id]
  BY RowsAssumption
<1>6. r.id = t.id
  BY <1>1, <1>2, <1>4, <1>5
<1> QED
  BY <1>5, <1>6

(* What a batch sends, and that it is right when nothing was left over and *)
(* its rows are of one struct.                                             *)
BatchSent(h, holes, args, one) ==
  /\ h \in Seq(SlotSet) /\ h # <<>>
  /\ holes \in Seq(SlotSet) /\ args \in Seq(SlotSet)
  /\ \A i \in 1..Len(args) : args[i].stmt = stmts
  /\ fieldName = <<>> /\ one /\ Len(holes) = Len(args) => holes = args

LEMMA BatchSends ==
  ASSUME IInv, NEW n \in 1..2, NEW rows \in [1..n -> Rows],
         NEW h, h = fieldName \o Slots(FieldsOf(rows[1]), 1),
         NEW holes, holes = FlattenSeq([i \in DOMAIN rows |-> Copy(h, i)]),
         NEW args, args = FlattenSeq([i \in DOMAIN rows |-> Slots(FieldsOf(rows[i]), i)]),
         NEW one, one <=> \A i, j \in 1..n : rows[i].struct = rows[j].struct
  PROVE  BatchSent(h, holes, args, one)
<1> DEFINE first == Slots(FieldsOf(rows[1]), 1)
<1>1. /\ fieldName \in Seq(SlotSet) /\ stmts \in 0..MaxStmts
      /\ 1 \in 1..2 /\ 2 \in 1..2 /\ 1 \in 1..n /\ rows[1] \in Rows /\ DOMAIN rows = 1..n
  BY PartTypes DEF IInv
<1>2. /\ FieldsOf(rows[1]) \in Seq(Columns) /\ Len(FieldsOf(rows[1])) \in Nat
      /\ Len(FieldsOf(rows[1])) >= 1
  BY <1>1, FieldsOfRow
<1>3. /\ first \in Seq(SlotSet) /\ Len(first) = Len(FieldsOf(rows[1]))
      /\ \A i \in 1..Len(FieldsOf(rows[1])) : first[i].stmt = stmts
  BY <1>1, <1>2, SlotsOfFields
<1>4. fieldName = <<>> => h = first
  BY <1>3
<1> HIDE DEF first
<1>5. h \in Seq(SlotSet) /\ h # <<>>
  <2>1. h = fieldName \o first
    BY DEF first
  <2>2. h \in Seq(SlotSet) /\ Len(h) = Len(fieldName) + Len(first) /\ Len(fieldName) \in Nat
    BY <2>1, <1>1, <1>3, Joined
  <2>3. Len(h) # 0
    BY <2>2, <1>2, <1>3
  <2> QED
    BY <2>2, <2>3
<1>6. Copy(h, 1) \in Seq(SlotSet) /\ Copy(h, 2) \in Seq(SlotSet)
  BY <1>1, <1>5, CopyTypes
<1>7. fieldName = <<>> =>
        /\ Copy(h, 1) = first /\ Copy(h, 2) = Slots(FieldsOf(rows[1]), 2)
  BY <1>1, <1>2, <1>4, CopyOfRow DEF first
<1>8. CASE n = 1
  <2>1. /\ [i \in DOMAIN rows |-> Copy(h, i)] = <<Copy(h, 1)>>
        /\ [i \in DOMAIN rows |-> Slots(FieldsOf(rows[i]), i)] = <<first>>
    BY <1>1, <1>8 DEF first
  <2>2. holes = Copy(h, 1) /\ args = first
    BY <2>1, <1>3, <1>6, Flattened
  <2> QED
    BY <2>2, <1>3, <1>5, <1>6, <1>7 DEF BatchSent
<1>9. CASE n = 2
  <2> DEFINE second == Slots(FieldsOf(rows[2]), 2)
  <2>1. /\ [i \in DOMAIN rows |-> Copy(h, i)] = <<Copy(h, 1), Copy(h, 2)>>
        /\ [i \in DOMAIN rows |-> Slots(FieldsOf(rows[i]), i)] = <<first, second>>
    <3>1. DOMAIN rows = 1..2
      BY <1>1, <1>9
    <3> QED
      BY <3>1 DEF first
  <2>2. rows[2] \in Rows
    BY <1>9
  <2>3. /\ FieldsOf(rows[2]) \in Seq(Columns) /\ Len(FieldsOf(rows[2])) \in Nat
    BY <2>2, FieldsOfRow
  <2>4. /\ second \in Seq(SlotSet) /\ Len(second) = Len(FieldsOf(rows[2]))
        /\ \A i \in 1..Len(FieldsOf(rows[2])) : second[i].stmt = stmts
    BY <1>1, <2>3, SlotsOfFields
  <2> HIDE DEF second
  <2>5. holes = Copy(h, 1) \o Copy(h, 2) /\ args = first \o second
    BY <2>1, <2>4, <1>3, <1>6, Flattened
  <2>6. /\ first \o second \in Seq(SlotSet)
        /\ Len(first \o second) = Len(first) + Len(second)
        /\ \A j \in 1..Len(first) : (first \o second)[j] = first[j]
        /\ \A j \in 1..Len(second) : (first \o second)[Len(first) + j] = second[j]
    BY <2>4, <1>3, Joined
  <2>7. /\ Copy(h, 1) \o Copy(h, 2) \in Seq(SlotSet)
         /\ Len(Copy(h, 1) \o Copy(h, 2)) = Len(Copy(h, 1)) + Len(Copy(h, 2))
    BY <1>6, Joined
  <2>8. holes \in Seq(SlotSet) /\ args \in Seq(SlotSet)
    BY <2>5, <2>6, <2>7
  <2>9. ASSUME NEW i \in 1..Len(args) PROVE args[i].stmt = stmts
    <3>1. /\ Len(args) = Len(first) + Len(second)
          /\ \A j \in 1..Len(first) : args[j] = first[j]
          /\ \A j \in 1..Len(second) : args[Len(first) + j] = second[j]
      BY <2>5, <2>6
    <3>2. CASE i \in 1..Len(first)
      BY <3>1, <3>2, <1>3
    <3>3. CASE i \notin 1..Len(first)
      <4>1. PICK j \in 1..Len(second) : i = Len(first) + j
        <5>1. /\ i - Len(first) \in 1..Len(second)
              /\ i = Len(first) + (i - Len(first))
          BY <3>1, <3>3, <2>3, <2>4, <1>2, <1>3
        <5> QED
          BY <5>1
      <4> QED
        BY <4>1, <3>1, <2>4
    <3> QED
      BY <3>2, <3>3
  <2>10. ASSUME fieldName = <<>>, one, Len(holes) = Len(args) PROVE holes = args
    <3>1. Copy(h, 1) = first /\ Copy(h, 2) = Slots(FieldsOf(rows[1]), 2)
      BY <1>7, <2>10
    <3>2. Len(Slots(FieldsOf(rows[1]), 2)) = Len(FieldsOf(rows[1]))
      BY <1>1, <1>2, SlotsOfFields
    <3>3. /\ Len(holes) = Len(first) + Len(Copy(h, 2))
          /\ Len(args) = Len(first) + Len(second)
      BY <3>1, <2>5, <2>6, <2>7
    <3>4. Len(FieldsOf(rows[1])) = Len(FieldsOf(rows[2]))
      BY <3>1, <3>2, <3>3, <2>3, <2>4, <2>10, <1>2, <1>3
    <3>5. rows[1] = rows[2]
      <4>1. rows[1].struct = rows[2].struct
        BY <1>1, <1>9, <2>10
      <4> QED
        BY <3>4, <4>1, <2>2, <1>1, RowsByLength
    <3> QED
      BY <3>1, <3>5, <2>5 DEF second
  <2> QED
    BY <2>8, <2>9, <2>10, <1>5 DEF BatchSent
<1> QED
  BY <1>8, <1>9

(* InsertBatch: executed only when nothing was inserted before, and then   *)
(* with rows of one kind, if there is one struct.                          *)
LEMMA InsertBatchKeeps ==
  ASSUME IInv, NEW n \in 1..2, NEW rows \in [1..n -> Rows], NEW outcome \in Outcomes,
         InsertBatch(rows, outcome)
  PROVE  IInv'
<1>1. PICK h : h = fieldName'
  OBVIOUS
<1>2. PICK args : args = FlattenSeq([i \in DOMAIN rows |-> Slots(FieldsOf(rows[i]), i)])
  OBVIOUS
<1>3. PICK holes : holes = FlattenSeq([i \in DOMAIN rows |-> Copy(h, i)])
  OBVIOUS
<1>4. PICK parses : parses = IsInjective(Field(h))
  OBVIOUS
<1>5. /\ h = fieldName \o Slots(FieldsOf(rows[1]), 1) /\ values' = args
      /\ Write("batch", holes, args, parses, outcome)
      /\ updateParam' = updateParam /\ whereParam' = whereParam
      /\ whereValues' = whereValues /\ text' = text
      /\ structs' = structs \cup {rows[i].struct : i \in 1..n}
  BY <1>1, <1>2, <1>3, <1>4 DEF InsertBatch, Copy
<1>0. /\ \A i \in 1..n : rows[i] \in Rows /\ rows[i].struct \in structs' /\ 1 \in 1..n
      /\ OneStruct' => /\ \A s, t \in structs \cup {rows[1].struct} : s = t
                       /\ \A i, j \in 1..n : rows[i].struct = rows[j].struct
                       /\ \A s \in structs' : s = rows[1].struct
  <2>1. PICK after : after = structs'
    OBVIOUS
  <2>2. 1 \in 1..n /\ \A i \in 1..n : rows[i] \in Rows
    OBVIOUS
  <2>3. structs \subseteq after /\ \A i \in 1..n : rows[i].struct \in after
    BY <2>1, <1>5
  <2>4. OneStruct' => \A s, t \in after : s = t
    BY <2>1 DEF OneStruct
  <2>5. rows[1].struct \in after /\ structs \cup {rows[1].struct} \subseteq after
    BY <2>2, <2>3
  <2>6. OneStruct' => \A i, j \in 1..n : rows[i].struct = rows[j].struct
    BY <2>3, <2>4
  <2>7. OneStruct' => \A s, t \in structs \cup {rows[1].struct} : s = t
    BY <2>4, <2>5
  <2>8. OneStruct' => \A s \in after : s = rows[1].struct
    BY <2>4, <2>5
  <2> QED
    BY <2>1, <2>2, <2>3, <2>6, <2>7, <2>8
<1>6. rows[1] \in Rows /\ stmts \in 0..MaxStmts /\ batched \in BOOLEAN
  BY PartTypes DEF IInv
<1>7. /\ h \in Seq(SlotSet) /\ h # <<>>
      /\ holes \in Seq(SlotSet) /\ args \in Seq(SlotSet)
      /\ \A i \in 1..Len(args) : args[i].stmt = stmts
      /\ fieldName = <<>> /\ OneStruct' /\ Len(holes) = Len(args) => holes = args
  <2>1. PICK one : one <=> \A i, j \in 1..n : rows[i].struct = rows[j].struct
    OBVIOUS
  <2>2. BatchSent(h, holes, args, one)
    BY <2>1, <1>2, <1>3, <1>5, BatchSends
  <2> QED
    BY <2>1, <2>2, <1>0 DEF BatchSent
<1>8. /\ stmts' = stmts + 1 /\ stmts' \in 0..MaxStmts /\ stmts' # 0
      /\ batched' = TRUE /\ even' = even
      /\ sent' \in [kind : Kinds, holes : Seq(SlotSet), args : Seq(SlotSet),
                    answer : Answers, outcome : Outcomes]
      /\ sent'.kind = "batch" /\ sent'.holes = holes /\ sent'.args = args
      /\ sent'.outcome = "executed" => parses /\ Len(holes) = Len(args)
      /\ Honest(sent'.kind, sent'.outcome, sent'.answer)
  <2>1. "batch" \in Kinds
    BY DEF Kinds
  <2>2. Recorded("batch", holes, args, parses, outcome)
    BY <2>1, <1>5, <1>6, <1>7, WriteLeaves
  <2> QED
    BY <2>2 DEF Recorded
<1>9. TypeOK'
  <2>1. structs' \subseteq Seq(Fields) \ {<<>>}
    BY <1>5, FieldsOfRow, PartTypes DEF IInv
  <2> QED
    BY <2>1, <1>1, <1>5, <1>7, <1>8 DEF IInv, TypeOK
<1>10. Paired' /\ Leftovers' /\ Unused'
  BY <1>1, <1>5, <1>7, <1>8 DEF IInv, Paired, Leftovers, Unused
<1>11. Led'
  <2>1. PICK j \in 1..Len(FieldsOf(rows[1])) : FieldsOf(rows[1])[j] = rows[1].struct[1]
    BY <1>6, FieldsOfRow
  <2>2. FieldsOf(rows[1]) \in Seq(Columns) /\ Len(FieldsOf(rows[1])) \in Nat /\ 1 \in 1..2
    BY <1>6, FieldsOfRow
  <2>3. PICK new : new = Slots(FieldsOf(rows[1]), 1)
    OBVIOUS
  <2>4. new \in Seq(SlotSet) /\ Len(new) = Len(FieldsOf(rows[1])) /\ new[j].field = rows[1].struct[1]
    BY <2>1, <2>2, <2>3, <1>6, SlotsOfFields
  <2>5. fieldName \in Seq(SlotSet) /\ Len(fieldName) \in Nat
    BY PartTypes DEF IInv
  <2>6. /\ Len(fieldName \o new) = Len(fieldName) + Len(new)
        /\ (fieldName \o new)[Len(fieldName) + j] = new[j]
    <3>1. j \in 1..Len(new)
      BY <2>1, <2>4
    <3>2. PICK old : old = fieldName
      OBVIOUS
    <3>3. /\ Len(old \o new) = Len(old) + Len(new)
          /\ \A i \in 1..Len(new) : (old \o new)[Len(old) + i] = new[i]
      BY <3>2, <2>4, <2>5, Joined
    <3> QED
      BY <3>1, <3>2, <3>3
  <2>7. Len(fieldName) + j \in 1..Len(h) /\ h[Len(fieldName) + j].field = rows[1].struct[1]
    BY <2>1, <2>2, <2>3, <2>4, <2>5, <2>6, <1>5
  <2>8. Names(rows[1].struct[1])'
    BY <2>7, <1>1 DEF Names
  <2> QED
    BY <2>8, <1>0 DEF Led
<1>12. sent'.outcome = "executed" /\ OneStruct' => holes = args
  <2> SUFFICES ASSUME sent'.outcome = "executed", OneStruct' PROVE holes = args
    OBVIOUS
  <2>1. fieldName = <<>>
    BY <1>0, <1>4, <1>5, <1>6, <1>8, SecondInsertRepeats
  <2> QED
    BY <2>1, <1>7, <1>8
<1>13. NothingMisplaced'
  BY <1>8 DEF NothingMisplaced
<1>14. InsertsItsRows'
  <2>1. DOMAIN args = 1..Len(args) /\ stmts = stmts' - 1
    BY <1>6, <1>7, <1>8
  <2>2. \A i \in DOMAIN sent'.args : sent'.args[i].stmt = stmts' - 1
    BY <2>1, <1>7, <1>8
  <2> QED
    BY <2>2, <1>8, <1>12 DEF InsertsItsRows
<1>15. FirstStatementAligned'
  <2>1. CASE stmts # 0
    <3>1. stmts' # 1
      BY <2>1, <1>6, <1>8
    <3> QED
      BY <3>1 DEF FirstStatementAligned
  <2>2. CASE stmts = 0
    <3>1. Len(holes) = Len(args) /\ OneStruct' => holes = args
      BY <2>2, <1>7 DEF IInv, Unused
    <3> QED
      BY <3>1, <1>8 DEF FirstStatementAligned
  <2> QED
    BY <2>1, <2>2
<1>16. OkMeansExecuted'
  BY <1>8 DEF OkMeansExecuted, Honest
<1> QED
  BY <1>9, <1>10, <1>11, <1>13, <1>14, <1>15, <1>16 DEF IInv

(* Update: executed only when the values are those of the columns to set.  *)
LEMMA UpdateKeeps ==
  ASSUME IInv, NEW fields \in Seq(Columns), NEW outcome \in Outcomes,
         Update(fields, outcome)
  PROVE  IInv'
<1>1. PICK new : new = Slots(fields, 1)
  OBVIOUS
<1>2. PICK v : v = values'
  OBVIOUS
<1>3. PICK h : h = updateParam' \o whereParam
  OBVIOUS
<1>4. PICK parses : parses = (updateParam' # <<>> /\ text \in {"empty", "condition", "order"})
  OBVIOUS
<1>5. PICK set : set = updateParam'
  OBVIOUS
<1>6. PICK val : val = values \o new
  OBVIOUS
<1>7. PICK last : last = IF outcome = "unprepared" THEN <<>> ELSE whereValues
  OBVIOUS
<1>8. /\ Given(fields) /\ v = val \o last
      /\ Write("update", h, v, parses, outcome)
      /\ fieldName' = fieldName /\ whereParam' = whereParam
      /\ whereValues' = whereValues /\ text' = text /\ structs' = structs
  BY <1>1, <1>2, <1>3, <1>4, <1>6, <1>7 DEF Update
<1>9. /\ fieldName \in Seq(SlotSet) /\ values \in Seq(SlotSet)
      /\ updateParam \in Seq(SlotSet) /\ whereParam \in Seq(SlotSet)
      /\ whereValues \in Seq(SlotSet) /\ (even => whereParam = whereValues)
      /\ stmts \in 0..MaxStmts /\ batched \in BOOLEAN
      /\ Len(fieldName) \in Nat /\ Len(values) \in Nat /\ Len(updateParam) \in Nat
      /\ Len(fields) \in Nat /\ Len(whereValues) \in Nat
  BY PartTypes DEF IInv, Paired
<1>10. /\ set = updateParam \o new /\ set \in Seq(SlotSet) /\ val \in Seq(SlotSet)
       /\ Len(set) = Len(updateParam) + Len(fields)
       /\ Len(val) = Len(values) + Len(fields)
       /\ updateParam # <<>> => set # <<>>
  BY <1>1, <1>5, <1>6, <1>8, GivenLeaves
<1>11. /\ last \in Seq(SlotSet) /\ Len(last) \in Nat
       /\ outcome # "unprepared" => last = whereValues
       /\ Len(last) = 0 => last = <<>>
  <2>1. last \in Seq(SlotSet)
    BY <1>7, <1>9
  <2> QED
    BY <2>1, <1>7
<1>12. v \in Seq(SlotSet) /\ Len(v) = Len(val) + Len(last)
  <2>1. val \o last \in Seq(SlotSet) /\ Len(val \o last) = Len(val) + Len(last)
    BY <1>10, <1>11, Joined
  <2> QED
    BY <2>1, <1>8
<1>13. /\ h = set \o whereParam /\ h \in Seq(SlotSet)
       /\ Len(h) = Len(set) + Len(whereParam)
  <2>1. set \o whereParam \in Seq(SlotSet) /\ Len(set \o whereParam) = Len(set) + Len(whereParam)
    BY <1>9, <1>10, Joined
  <2> QED
    BY <2>1, <1>3, <1>5
<1>14. /\ stmts' = stmts + 1 /\ stmts' \in 0..MaxStmts /\ stmts' # 0
       /\ batched' = batched /\ even' = even /\ sent'.outcome = outcome
       /\ sent' \in [kind : Kinds, holes : Seq(SlotSet), args : Seq(SlotSet),
                     answer : Answers, outcome : Outcomes]
       /\ sent'.kind = "update" /\ sent'.holes = h /\ sent'.args = v
       /\ sent'.outcome = "executed" => Len(h) = Len(v)
       /\ Honest(sent'.kind, sent'.outcome, sent'.answer)
  <2>1. "update" \in Kinds
    BY DEF Kinds
  <2>2. Recorded("update", h, v, parses, outcome)
    BY <2>1, <1>8, <1>9, <1>12, <1>13, WriteLeaves
  <2> QED
    BY <2>2, <1>9 DEF Recorded
<1>15. TypeOK'
  BY <1>2, <1>5, <1>8, <1>9, <1>10, <1>12, <1>14 DEF IInv, TypeOK
<1>16. Paired' /\ Led' /\ Unused'
  BY <1>8, <1>14 DEF IInv, Paired, Led, Names, OneStruct, Unused
<1>17. Leftovers'
  <2>1. ~batched => /\ Len(values) >= Len(fieldName) + Len(updateParam)
                    /\ Len(values) = Len(fieldName) => values = fieldName
                    /\ Len(values) = Len(updateParam) => values = updateParam
    BY DEF IInv, Leftovers
  <2>2. ~batched => Len(v) >= Len(fieldName) + Len(set)
    BY <2>1, <1>9, <1>10, <1>11, <1>12
  <2>3. ASSUME ~batched, Len(v) = Len(fieldName) PROVE v = fieldName
    <3>1. Len(fields) = 0 /\ Len(last) = 0 /\ Len(values) = Len(fieldName)
      BY <2>1, <2>3, <1>9, <1>10, <1>11, <1>12
    <3>2. new = <<>> /\ last = <<>>
      <4>1. new \in Seq(SlotSet) /\ Len(new) = Len(fields)
        <5>1. 1 \in 1..2
          OBVIOUS
        <5> QED
          BY <5>1, <1>1, <1>9, SlotsOfFields
      <4> QED
        BY <4>1, <3>1, <1>11
    <3>3. v = values
      BY <3>2, <1>6, <1>8, <1>9, <1>10, <1>12
    <3> QED
      BY <3>1, <3>3, <2>1, <2>3
  <2>4. ASSUME ~batched, Len(v) = Len(set) PROVE v = set
    <3>1. Len(last) = 0 /\ Len(values) = Len(updateParam)
      BY <2>1, <2>4, <1>9, <1>10, <1>11, <1>12
    <3>2. last = <<>> /\ values = updateParam
      BY <3>1, <2>1, <2>4, <1>11
    <3>3. v = val
      BY <3>2, <1>8, <1>10
    <3> QED
      BY <3>2, <3>3, <1>6, <1>10
  <2>5. batched => fieldName # <<>>
    BY DEF IInv, Leftovers
  <2> QED
    BY <2>2, <2>3, <2>4, <2>5, <1>2, <1>5, <1>8, <1>14 DEF Leftovers
<1>18. even /\ values = updateParam /\ outcome # "unprepared" => h = v
  BY <1>6, <1>9, <1>8, <1>10, <1>11, <1>13
<1>19. NothingMisplaced'
  <2>1. ASSUME ~batched, even, sent'.outcome = "executed" PROVE h = v
    <3>1. outcome # "unprepared" /\ Len(h) = Len(v)
      BY <2>1, <1>14
    <3>2. Len(last) = Len(whereValues) /\ Len(whereParam) = Len(whereValues)
      BY <3>1, <2>1, <1>9, <1>11
    <3>3. Len(values) = Len(updateParam)
      BY <3>1, <3>2, <1>9, <1>10, <1>12, <1>13
    <3> QED
      BY <3>1, <3>3, <2>1, <1>18 DEF IInv, Leftovers
  <2> QED
    BY <2>1, <1>14 DEF NothingMisplaced, Field
<1>20. InsertsItsRows' /\ OkMeansExecuted'
  BY <1>14 DEF InsertsItsRows, OkMeansExecuted, Honest
<1>21. FirstStatementAligned'
  <2>1. CASE stmts # 0
    <3>1. stmts' # 1
      BY <2>1, <1>9, <1>14
    <3> QED
      BY <3>1 DEF FirstStatementAligned
  <2>2. CASE stmts = 0
    <3>1. even /\ outcome # "unprepared" => h = v
      BY <2>2, <1>18 DEF IInv, Unused
    <3> QED
      BY <3>1, <1>14 DEF FirstStatementAligned
  <2> QED
    BY <2>1, <2>2
<1> QED
  BY <1>15, <1>16, <1>17, <1>19, <1>20, <1>21 DEF IInv
-----------------------------------------------------------------------------
(* The statements that change no part *)

LEMMA SentOnlyKeeps ==
  ASSUME IInv, UNCHANGED <<parts, structs>>,
         NEW kind \in {"select", "count", "row", "delete", "raw"},
         NEW holes, NEW args, NEW parses, NEW outcome,
         even => holes = args \/ (kind = "raw" /\ Len(holes) # Len(args)),
         Recorded(kind, holes, args, parses, outcome)
  PROVE  IInv'
<1>1. /\ fieldName' = fieldName /\ values' = values /\ updateParam' = updateParam
      /\ whereParam' = whereParam /\ whereValues' = whereValues /\ text' = text
      /\ structs' = structs
  BY DEF parts
<1>2. stmts \in 0..MaxStmts /\ batched \in BOOLEAN
  BY PartTypes DEF IInv
<1>3. /\ stmts' = stmts + 1 /\ stmts' \in 0..MaxStmts /\ stmts' # 0
      /\ batched' = batched /\ even' = even
      /\ sent' \in [kind : Kinds, holes : Seq(SlotSet), args : Seq(SlotSet),
                    answer : Answers, outcome : Outcomes]
      /\ sent'.kind = kind /\ sent'.holes = holes /\ sent'.args = args
      /\ sent'.outcome = "executed" => Len(holes) = Len(args)
      /\ Honest(sent'.kind, sent'.outcome, sent'.answer)
  BY <1>2 DEF Recorded
<1>4. TypeOK'
  BY <1>1, <1>3 DEF IInv, TypeOK
<1>5. Paired' /\ Leftovers' /\ Led' /\ Unused'
  BY <1>1, <1>3 DEF IInv, Paired, Leftovers, Led, Names, OneStruct, Unused
<1>6. FirstStatementAligned'
  BY <1>3 DEF FirstStatementAligned
<1>7. NothingMisplaced'
  BY <1>3 DEF NothingMisplaced
<1>8. InsertsItsRows' /\ OkMeansExecuted'
  BY <1>3 DEF InsertsItsRows, OkMeansExecuted, Honest
<1> QED
  BY <1>4, <1>5, <1>6, <1>7, <1>8 DEF IInv

(* What a read answers: without an error, what Honest names. *)
LEMMA ReadAnswersHonest ==
  ASSUME NEW kind \in Reads, NEW outcome \in Outcomes, NEW answer \in ReadAnswers(kind, outcome)
  PROVE  answer \in Answers /\ Honest(kind, outcome, answer)
<1>1. CASE outcome = "unprepared"
  BY <1>1 DEF ReadAnswers, Answers, Honest
<1>2. CASE outcome = "refused"
  BY <1>2 DEF ReadAnswers, Answers, Honest, Reads
<1>3. CASE outcome = "cut"
  BY <1>3 DEF ReadAnswers, Answers, Honest, Reads
<1>4. CASE outcome = "executed"
  BY <1>4 DEF ReadAnswers, Answers, Honest
<1> QED
  BY <1>1, <1>2, <1>3, <1>4 DEF Outcomes

LEMMA ReadKeeps ==
  ASSUME IInv, NEW kind \in {"select", "count"}, NEW outcome \in Outcomes, Read(kind, outcome)
  PROVE  IInv'
<1>1. PICK parses : parses = (text \notin {"connective", "broken"})
  OBVIOUS
<1>2. PICK holes, args : holes = whereParam /\ args = whereValues
  OBVIOUS
<1>3. /\ holes \in Seq(SlotSet) /\ args \in Seq(SlotSet) /\ (even => holes = args)
      /\ stmts \in 0..MaxStmts /\ batched \in BOOLEAN
  BY <1>2, PartTypes DEF IInv, Paired
<1>4. PICK answer \in ReadAnswers(kind, outcome) : Send(kind, holes, args, parses, outcome, answer)
  BY <1>1, <1>2 DEF Read
<1>5. kind \in Reads /\ kind \in Kinds
  BY DEF Reads, Kinds
<1>6. Recorded(kind, holes, args, parses, outcome)
  BY <1>3, <1>4, <1>5, ReadAnswersHonest, SendLeaves
<1>7. UNCHANGED <<parts, structs>>
  BY DEF Read
<1> QED
  BY <1>3, <1>6, <1>7, SentOnlyKeeps

LEMMA DeleteKeeps ==
  ASSUME IInv, NEW outcome \in Outcomes, Delete(outcome)
  PROVE  IInv'
<1>1. PICK parses : parses = (text \in {"empty", "condition", "order"})
  OBVIOUS
<1>2. PICK holes, args : holes = whereParam /\ args = whereValues
  OBVIOUS
<1>3. /\ holes \in Seq(SlotSet) /\ args \in Seq(SlotSet) /\ (even => holes = args)
      /\ stmts \in 0..MaxStmts /\ batched \in BOOLEAN
  BY <1>2, PartTypes DEF IInv, Paired
<1>4. Write("delete", holes, args, parses, outcome) /\ UNCHANGED <<parts, structs>>
  BY <1>1, <1>2 DEF Delete
<1>5. "delete" \in Kinds
  BY DEF Kinds
<1>6. Recorded("delete", holes, args, parses, outcome)
  BY <1>3, <1>4, <1>5, WriteLeaves
<1> QED
  BY <1>3, <1>4, <1>6, SentOnlyKeeps

LEMMA RawKeeps ==
  ASSUME IInv, NEW outcome \in Outcomes, QueryExec(outcome) \/ QueryRow(outcome)
  PROVE  IInv'
<1>0. stmts \in 0..MaxStmts /\ batched \in BOOLEAN
  BY PartTypes DEF IInv
<1>1. PICK slot : slot = Slot("id", 1)
  OBVIOUS
<1>2. slot \in SlotSet
  BY <1>0, <1>1 DEF Slot, SlotSet, Columns
<1>3. PICK one : one = <<slot>>
  OBVIOUS
<1>4. PICK none : none = <<>>
  OBVIOUS
<1>5. /\ one \in Seq(SlotSet) /\ none \in Seq(SlotSet) /\ Len(none) # Len(one)
  BY <1>2, <1>3, <1>4
<1>6. "raw" \in Kinds /\ "row" \in Kinds /\ "row" \in Reads
  BY DEF Kinds, Reads
<1>7. CASE QueryExec(outcome)
  <2>1. Write("raw", none, one, TRUE, outcome) /\ UNCHANGED <<parts, structs>>
    BY <1>1, <1>3, <1>4, <1>7 DEF QueryExec
  <2>2. Recorded("raw", none, one, TRUE, outcome)
    BY <2>1, <1>0, <1>5, <1>6, WriteLeaves
  <2> QED
    BY <2>1, <2>2, <1>5, SentOnlyKeeps
<1>8. CASE QueryRow(outcome)
  <2>1. PICK answer \in ReadAnswers("row", outcome) : Send("row", one, one, TRUE, outcome, answer)
    BY <1>1, <1>3, <1>8 DEF QueryRow
  <2>2. Recorded("row", one, one, TRUE, outcome)
    BY <2>1, <1>0, <1>5, <1>6, ReadAnswersHonest, SendLeaves
  <2>3. UNCHANGED <<parts, structs>>
    BY <1>8 DEF QueryRow
  <2> QED
    BY <2>2, <2>3, SentOnlyKeeps
<1> QED
  BY <1>7, <1>8
-----------------------------------------------------------------------------
(* Every step *)

LEMMA InitIInv == Init => IInv
<1> SUFFICES ASSUME Init PROVE IInv
  OBVIOUS
<1>1. <<>> \in Seq(SlotSet) /\ Len(<<>>) = 0 /\ 0 \in 0..MaxStmts
  BY BoundsAssumption
<1>2. sent \in [kind : Kinds, holes : Seq(SlotSet), args : Seq(SlotSet),
                answer : Answers, outcome : Outcomes]
  BY <1>1 DEF Init, NotSent, Kinds, Answers, Outcomes
<1>3. TypeOK
  BY <1>1, <1>2 DEF Init, TypeOK, Texts
<1>4. Paired /\ Leftovers /\ Led /\ Unused
  BY <1>1 DEF Init, NotSent, Paired, Leftovers, Led, Unused
<1>5. /\ FirstStatementAligned /\ NothingMisplaced
      /\ InsertsItsRows /\ OkMeansExecuted
  BY DEF Init, NotSent, FirstStatementAligned, NothingMisplaced, InsertsItsRows, OkMeansExecuted
<1> QED
  BY <1>3, <1>4, <1>5 DEF IInv

LEMMA BuildKeeps ==
  ASSUME IInv, Build
  PROVE  IInv'
<1>0. Keys \subseteq Columns /\ Fields \subseteq Columns
  BY KeysAssumption DEF Columns
<1>1. CASE \E f \in Keys : \/ Where(f)
                           \/ \E n \in 1..2 : In(f, n)
                           \/ \E n \in 0..2 : Between(f, n)
                           \/ \E marks, n \in 0..2 : WhereMultiple(f, marks, n)
  <2>1. \E f \in Columns, marks, n \in 0..2 : Condition(f, marks, n)
    BY <1>0, <1>1 DEF Where, In, Between, WhereMultiple
  <2> QED
    BY <2>1, ConditionKeeps
<1>2. CASE IsNull
  BY <1>0, <1>2, ConditionKeeps DEF IsNull
<1>3. CASE And \/ Group \/ Order
  <2>1. \E next \in Texts : Text(next)
    BY <1>3 DEF And, Group, Order, AfterOrder, Texts
  <2> QED
    BY <2>1, TextKeeps
<1>4. CASE \E f \in Fields : UpdateParam(<<f>>)
  BY <1>0, <1>4, UpdateParamKeeps
<1> QED
  BY <1>1, <1>2, <1>3, <1>4 DEF Build

LEMMA StatementKeeps ==
  ASSUME IInv, NEW outcome \in Outcomes, Statement(outcome)
  PROVE  IInv'
<1>1. CASE \E row \in Rows : Insert(row, outcome)
  BY <1>1, InsertKeeps
<1>2. CASE \E rows \in Batches : InsertBatch(rows, outcome)
  <2>1. PICK rows \in Batches : InsertBatch(rows, outcome)
    BY <1>2
  <2>2. PICK n \in 1..2 : rows \in [1..n -> Rows]
    BY BatchesAssumption
  <2> QED
    BY <2>1, <2>2, InsertBatchKeeps
<1>3. CASE \/ Update(<<>>, outcome)
           \/ \E f \in Fields : Update(<<f>>, outcome)
           \/ \E row \in Rows : Update(FieldsOf(row), outcome)
  <2>1. <<>> \in Seq(Columns) /\ \A f \in Fields : <<f>> \in Seq(Columns)
    BY DEF Columns
  <2>2. \A row \in Rows : FieldsOf(row) \in Seq(Columns)
    BY FieldsOfRow
  <2>3. \E fields \in Seq(Columns) : Update(fields, outcome)
    BY <1>3, <2>1, <2>2
  <2> QED
    BY <2>3, UpdateKeeps
<1>4. CASE \E kind \in {"select", "count"} : Read(kind, outcome)
  BY <1>4, ReadKeeps
<1>5. CASE Delete(outcome)
  BY <1>5, DeleteKeeps
<1>6. CASE QueryExec(outcome) \/ QueryRow(outcome)
  BY <1>6, RawKeeps
<1> QED
  BY <1>1, <1>2, <1>3, <1>4, <1>5, <1>6 DEF Statement

LEMMA NextIInv == IInv /\ [Next]_vars => IInv'
<1> SUFFICES ASSUME IInv, [Next]_vars PROVE IInv'
  OBVIOUS
<1>1. CASE Build
  BY <1>1, BuildKeeps
<1>2. CASE \E outcome \in Outcomes : Statement(outcome)
  BY <1>2, StatementKeeps
<1>3. CASE UNCHANGED vars
  BY <1>3 DEF vars, IInv, TypeOK, Paired, Leftovers, Led, Names,
       OneStruct, Unused, FirstStatementAligned, NothingMisplaced, InsertsItsRows,
       OkMeansExecuted
<1> QED
  BY <1>1, <1>2, <1>3 DEF Next

(* What a session leaves for its next statement, and what the last one     *)
(* sent: the inductive invariant.                                          *)
THEOREM SessionCorrect == Spec => []IInv
<1> QED
  BY InitIInv, NextIInv, PTL DEF Spec

(* The parts and the record of the last statement keep their types.        *)
THEOREM TypeCorrect == Spec => []TypeOK
<1>1. IInv => TypeOK
  BY DEF IInv
<1> QED
  BY <1>1, SessionCorrect, PTL

(* If the conditions had a value for each question mark, the first         *)
(* statement of a session pairs every mark with its own value, but for the *)
(* cases FirstStatementAligned names (fieldNames, Update, the conditions). *)
THEOREM FirstStatementCorrect == Spec => []FirstStatementAligned
<1>1. IInv => FirstStatementAligned
  BY DEF IInv
<1> QED
  BY <1>1, SessionCorrect, PTL

(* Until a batch has run, and if the conditions had a value for each       *)
(* question mark, no executed statement gives a column a value meant for   *)
(* another, however often the session is used and whatever structs it is   *)
(* given (Insert, Update).                                                 *)
THEOREM PlacesCorrect == Spec => []NothingMisplaced
<1>1. IInv => NothingMisplaced
  BY DEF IInv
<1> QED
  BY <1>1, SessionCorrect, PTL

(* An insert or a batch that is executed stores the rows of its own call,  *)
(* on a session that is given rows of one struct.                          *)
THEOREM InsertsCorrect == Spec => []InsertsItsRows
<1>1. IInv => InsertsItsRows
  BY DEF IInv
<1> QED
  BY <1>1, SessionCorrect, PTL

(* What is answered without an error was executed, but for a refused count *)
(* and for reads that were cut off (Select, SelectOne, QueryRow).          *)
THEOREM AnswersCorrect == Spec => []OkMeansExecuted
<1>1. IInv => OkMeansExecuted
  BY DEF IInv
<1> QED
  BY <1>1, SessionCorrect, PTL
=============================================================================
