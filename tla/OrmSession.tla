----------------------------- MODULE OrmSession -----------------------------
(***************************************************************************)
(* The sessions of orm/orm.go over the pool of connections of              *)
(* database/sql: transactions, the connections that calls hold, and what   *)
(* is stored.  The text of the statements is modelled in SqlSession.       *)
(*                                                                         *)
(* database/sql is external: a call takes a free connection or waits for   *)
(* one; a transaction holds its own until Commit or Rollback, even one     *)
(* that fails; Rows hold theirs until they are read to the end or closed.  *)
(* Prepare gives its connection back, so it is one step.  A connection     *)
(* that nothing refers to any more is never returned: it is lost.  The     *)
(* database may fail at every call, and a connection may break.             *)
(***************************************************************************)
EXTENDS Naturals, FiniteSets

CONSTANTS Sessions,  \* the sessions, each used by one goroutine
          MaxOpen,   \* SetMaxOpenConns
          MaxWrites  \* bound: writes that are ever sent

ASSUME MaxOpenAssumption   == MaxOpen \in Nat \ {0}
ASSUME MaxWritesAssumption == MaxWrites \in Nat

VARIABLES
  pc,       \* where the session's goroutine is
  op,       \* the call it is in
  beginTx,  \* s.beginTx
  tx,       \* s.tx: "none", "open", "ended" (broken), "done"
  free,     \* connections that are idle or not yet opened
  lost,     \* connections that nothing will give back
  pending,  \* the writes of the session's open transaction
  durable,  \* the writes the database has stored
  written   \* writes sent

vars == <<pc, op, beginTx, tx, free, lost, pending, durable, written>>
data == <<pending, durable, written>>

Ops    == {"write", "select", "one", "count", "begin"}
Pcs    == {"idle", "begin", "prepare", "exec", "query", "rows", "panicked"}
Writes == 1..MaxWrites

Init ==
  /\ pc = [s \in Sessions |-> "idle"]
  /\ op = [s \in Sessions |-> "write"]
  /\ beginTx = [s \in Sessions |-> FALSE]
  /\ tx = [s \in Sessions |-> "none"]
  /\ free = MaxOpen /\ lost = 0
  /\ pending = [s \in Sessions |-> {}]
  /\ durable = {} /\ written = 0

Goto(s, l)  == pc' = [pc EXCEPT ![s] = l]
Holding(s)  == tx[s] \in {"open", "ended"}
Tx(s, t)    == tx' = [tx EXCEPT ![s] = t]

(* Mutant: the statement is prepared on the database, whatever beginTx is. *)
MutInTx(s) == FALSE

InTx(s) == op[s] = "write" /\ beginTx[s]

(* The session is dropped, with the transaction it may have open, and the  *)
(* program goes on with a new one.                                         *)
New(s) ==
  /\ pc[s] = "idle" /\ tx[s] # "none"
  /\ Tx(s, "none")
  /\ beginTx' = [beginTx EXCEPT ![s] = FALSE]
  /\ lost' = lost + (IF Holding(s) THEN 1 ELSE 0)
  /\ pending' = [pending EXCEPT ![s] = {}]
  /\ UNCHANGED <<pc, op, free, durable, written>>

Call(s, kind) ==
  /\ pc[s] = "idle"
  /\ kind = "write" => written < MaxWrites
  /\ op' = [op EXCEPT ![s] = kind]
  /\ Goto(s, IF kind = "begin" THEN "begin" ELSE "prepare")
  /\ UNCHANGED <<beginTx, tx, free, lost, data>>

-----------------------------------------------------------------------------
(* Statements: Insert, InsertBatch, Update, Delete, QueryExec ("write");   *)
(* Select; SelectOne, QueryRow ("one"); Aggregate ("count").               *)

(* A write goes to the transaction if beginTx says so, a read never does.  *)
(* One of a transaction that is over is an error.                          *)
PrepareTx(s) ==
  /\ pc[s] = "prepare" /\ InTx(s)
  /\ \/ tx[s] = "open" /\ Goto(s, "exec")
     \/ Goto(s, "idle")
  /\ UNCHANGED <<op, beginTx, tx, free, lost, data>>

Prepare(s) ==
  /\ pc[s] = "prepare" /\ ~InTx(s) /\ free > 0
  /\ \/ Goto(s, IF op[s] = "write" THEN "exec" ELSE "query")
     \/ Goto(s, "idle")
  /\ UNCHANGED <<op, beginTx, tx, free, lost, data>>

(* In the transaction the write waits for its end, or fails.               *)
ExecTx(s) ==
  /\ pc[s] = "exec" /\ InTx(s)
  /\ Goto(s, "idle")
  /\ \/ /\ tx[s] = "open" /\ written < MaxWrites
        /\ written' = written + 1
        /\ pending' = [pending EXCEPT ![s] = @ \cup {written'}]
     \/ UNCHANGED <<pending, written>>
  /\ UNCHANGED <<op, beginTx, tx, free, lost, durable>>

(* Outside, it is stored at once; an error may also come after that.       *)
Exec(s) ==
  /\ pc[s] = "exec" /\ ~InTx(s) /\ free > 0
  /\ Goto(s, "idle")
  /\ \/ /\ written < MaxWrites
        /\ written' = written + 1 /\ durable' = durable \cup {written'}
     \/ UNCHANGED <<durable, written>>
  /\ UNCHANGED <<op, beginTx, tx, free, lost, pending>>

(* The connection is held by the rows from here on; a Query that fails     *)
(* leaves nil rows, which Select and SelectOne use: a panic.               *)
Query(s) ==
  /\ pc[s] = "query" /\ free > 0
  /\ \/ Goto(s, "rows") /\ free' = free - 1 /\ UNCHANGED lost
     \/ op[s] # "count"  /\ Goto(s, "panicked") /\ UNCHANGED <<free, lost>>
     \/ op[s] # "select" /\ Goto(s, "idle") /\ UNCHANGED <<free, lost>>
  /\ UNCHANGED <<op, beginTx, tx, data>>

(* Mutant: Select, like SelectOne, does not read past what it wants.       *)
MutRead(s) ==
  /\ pc[s] = "rows"
  /\ \/ Goto(s, "idle")
     \/ op[s] # "count" /\ Goto(s, "panicked")
  /\ lost' = lost + 1
  /\ UNCHANGED <<op, beginTx, tx, free, data>>

(* Select reads to the end and Scan closes the row of an aggregate: the    *)
(* connection is free.  SelectOne and QueryRow ask for one row and never   *)
(* close: if there is one it is lost.  A NULL makes the conversion panic.  *)
Read(s) ==
  /\ pc[s] = "rows"
  /\ \/ Goto(s, "idle") /\ free' = free + 1 /\ UNCHANGED lost
     \/ op[s] = "one"   /\ Goto(s, "idle")     /\ lost' = lost + 1 /\ UNCHANGED free
     \/ op[s] # "count" /\ Goto(s, "panicked") /\ lost' = lost + 1 /\ UNCHANGED free
  /\ UNCHANGED <<op, beginTx, tx, data>>

(* The program recovers from the panic and goes on, perhaps to a deferred  *)
(* Rollback, perhaps to drop the session.                                  *)
Recover(s) ==
  /\ pc[s] = "panicked" /\ Goto(s, "idle")
  /\ UNCHANGED <<op, beginTx, tx, free, lost, data>>

-----------------------------------------------------------------------------
(* Transactions *)

(* s.tx is overwritten: a transaction that is open is never ended.         *)
Begin(s) ==
  /\ pc[s] = "begin" /\ free > 0
  /\ Goto(s, "idle")
  /\ \/ /\ free' = free - 1 /\ Tx(s, "open")
        /\ beginTx' = [beginTx EXCEPT ![s] = TRUE]
        /\ lost' = lost + (IF Holding(s) THEN 1 ELSE 0)
        /\ pending' = [pending EXCEPT ![s] = {}]
     \/ UNCHANGED <<free, tx, beginTx, lost, pending>>
  /\ UNCHANGED <<op, durable, written>>

(* Its connection breaks: the database rolls the transaction back.         *)
Ended(s) ==
  /\ tx[s] = "open" /\ Tx(s, "ended")
  /\ pending' = [pending EXCEPT ![s] = {}]
  /\ UNCHANGED <<pc, op, beginTx, free, lost, durable, written>>

(* Mutant: the tx of the session is not over.                              *)
MutEnd(s, ok) ==
  /\ pc[s] = "idle" /\ Holding(s)
  /\ free' = free + 1
  /\ beginTx' = [beginTx EXCEPT ![s] = ~ok]
  /\ pending' = [pending EXCEPT ![s] = {}]
  /\ UNCHANGED <<pc, op, tx, lost, written>>

(* What Commit and Rollback have in common: database/sql is done with the  *)
(* transaction and its connection in every case, beginTx is cleared only   *)
(* if there was no error.  Without a transaction they panic on a nil tx,   *)
(* after its end they answer ErrTxDone: nothing changes.                   *)
End(s, ok) ==
  /\ pc[s] = "idle" /\ Holding(s) /\ Tx(s, "done")
  /\ free' = free + 1
  /\ beginTx' = [beginTx EXCEPT ![s] = ~ok]
  /\ pending' = [pending EXCEPT ![s] = {}]
  /\ UNCHANGED <<pc, op, lost, written>>

Commit(s) == tx[s] = "open" /\ End(s, TRUE) /\ durable' = durable \cup pending[s]

CommitFails(s) ==
  End(s, FALSE) /\ durable' \in {durable, durable \cup pending[s]}

(* Mutant: the session forgets its transaction and leaves it open.         *)
MutRollback(s) ==
  /\ pc[s] = "idle" /\ tx[s] = "open"
  /\ beginTx' = [beginTx EXCEPT ![s] = FALSE]
  /\ UNCHANGED <<pc, op, tx, free, lost, data>>

Rollback(s) == \E ok \in BOOLEAN :
  /\ ok => tx[s] = "open"
  /\ End(s, ok) /\ UNCHANGED durable

Step(s) == PrepareTx(s) \/ Prepare(s) \/ ExecTx(s) \/ Exec(s) \/ Query(s)
           \/ Read(s) \/ Begin(s)

Next ==
  \E s \in Sessions :
    \/ \E kind \in Ops : Call(s, kind)
    \/ Step(s) \/ Commit(s) \/ CommitFails(s) \/ Rollback(s)
    \/ Ended(s) \/ New(s) \/ Recover(s)

Spec == Init /\ [][Next]_vars

(* A call goes on when it can; database/sql hands a connection that comes  *)
(* free to the calls that wait, so each gets one in the end.  Nothing      *)
(* makes a program end its transaction.                                    *)
FairSpec == Spec /\ \A s \in Sessions : SF_vars(Step(s))

-----------------------------------------------------------------------------
(* Properties *)

(* The types; the connections never exceed the limit set by Open.          *)
TypeOK ==
  /\ pc \in [Sessions -> Pcs]
  /\ op \in [Sessions -> Ops]
  /\ beginTx \in [Sessions -> BOOLEAN]
  /\ tx \in [Sessions -> {"none", "open", "ended", "done"}]
  /\ free \in 0..MaxOpen /\ lost \in 0..MaxOpen
  /\ pending \in [Sessions -> SUBSET Writes]
  /\ durable \subseteq Writes /\ written \in 0..MaxWrites

Status(s) == IF ~beginTx[s] THEN "auto"
             ELSE IF tx[s] = "open" THEN "open" ELSE "cut-off"

(* The sessions implement Transactions: writes between Begin and Commit    *)
(* are stored together or never, also when the commit fails, the database  *)
(* ends the transaction, Begin is called twice or the session is dropped.  *)
Abstract == INSTANCE Transactions WITH status <- [s \in Sessions |-> Status(s)]
ImplementsTransactions == Abstract!Spec

(* A connection is lost for good only to a SelectOne or QueryRow that      *)
(* found a row, to rows whose conversion panicked, or with a transaction   *)
(* that was never ended: no other call keeps one.                          *)
LostOnlyByUnclosed ==
  [][lost' > lost =>
       \E s \in Sessions :
         \/ Holding(s) /\ (tx'[s] = "none" \/ pc[s] = "begin")
         \/ pc[s] = "rows" /\ (op[s] = "one" \/ pc'[s] = "panicked")]_vars

Waiting(s) == ~InTx(s) /\ pc[s] \in {"begin", "prepare", "exec", "query"}

Exhausted ==
  lost + Cardinality({s \in Sessions : Holding(s) /\ beginTx[s]}) = MaxOpen

(* A call gets its connection, unless all of them are lost or held by open *)
(* transactions: a read of a transaction waits for a second connection     *)
(* while its own is held, so enough transactions that read wait for ever.  *)
WaiterServed ==
  \A s \in Sessions : Waiting(s) ~> ~Waiting(s) \/ Exhausted
=============================================================================
