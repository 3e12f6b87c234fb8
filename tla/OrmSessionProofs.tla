-------------------------- MODULE OrmSessionProofs --------------------------
(***************************************************************************)
(* Proofs about the sessions, for any set of sessions, any limit of        *)
(* connections and any number of writes: the accounts of the pool, that a  *)
(* connection is lost only where one is left unclosed, and that the        *)
(* sessions implement Transactions.                                        *)
(*                                                                         *)
(* The type invariant bounds the free and the lost connections, which no   *)
(* step does by itself: the bound comes from Accounted, that every         *)
(* connection is free, lost, held by a transaction or held by rows.  The   *)
(* set of sessions need not be finite, those that hold a connection are.   *)
(***************************************************************************)
EXTENDS OrmSession, FiniteSetTheorems, TLAPS

Holders == {s \in Sessions : Holding(s)}
Readers == {s \in Sessions : pc[s] = "rows"}

Accounted ==
  /\ IsFiniteSet(Holders) /\ IsFiniteSet(Readers)
  /\ free + lost + Cardinality(Holders) + Cardinality(Readers) = MaxOpen

(* What a session that has begun knows of its transaction: while database/ *)
(* sql holds its connection beginTx is set, and the writes that wait for   *)
(* the end are those of an open one.                                       *)
BegunMatchesTx ==
  \A s \in Sessions :
    /\ Holding(s) => beginTx[s]
    /\ pending[s] # {} => tx[s] = "open"
    /\ pc[s] = "exec" => op[s] = "write"
-----------------------------------------------------------------------------
Indicator(b) == IF b THEN 1 ELSE 0
TxStates     == {"none", "open", "ended", "done"}

(* A session that changes its transaction, or its place, changes the       *)
(* number of connections held by at most its own.                          *)
LEMMA HoldersCount ==
  ASSUME TypeOK, Accounted, NEW s \in Sessions, NEW t \in TxStates,
         tx' = [tx EXCEPT ![s] = t]
  PROVE  /\ IsFiniteSet(Holders')
         /\ Cardinality(Holders') = Cardinality(Holders) - Indicator(Holding(s))
                                    + Indicator(t \in {"open", "ended"})
<1>1. s \in Holders <=> Holding(s)
  BY DEF Holders
<1>2. IsFiniteSet(Holders) /\ Cardinality(Holders) \in Nat
  BY FS_CardinalityType DEF Accounted
<1>3. CASE t \in {"open", "ended"}
  <2>1. Holders' = Holders \cup {s}
    BY <1>3 DEF Holders, Holding, TypeOK
  <2> QED
    BY <1>1, <1>2, <1>3, <2>1, FS_AddElement DEF Indicator
<1>4. CASE t \notin {"open", "ended"}
  <2>1. Holders' = Holders \ {s}
    BY <1>4 DEF Holders, Holding, TypeOK
  <2> QED
    BY <1>1, <1>2, <1>4, <2>1, FS_RemoveElement DEF Indicator
<1> QED
  BY <1>3, <1>4

LEMMA ReadersCount ==
  ASSUME TypeOK, Accounted, NEW s \in Sessions, NEW l \in Pcs, Goto(s, l)
  PROVE  /\ IsFiniteSet(Readers')
         /\ Cardinality(Readers') = Cardinality(Readers) - Indicator(pc[s] = "rows")
                                    + Indicator(l = "rows")
<1>1. s \in Readers <=> pc[s] = "rows"
  BY DEF Readers
<1>2. IsFiniteSet(Readers) /\ Cardinality(Readers) \in Nat
  BY FS_CardinalityType DEF Accounted
<1>3. CASE l = "rows"
  <2>1. Readers' = Readers \cup {s}
    BY <1>3 DEF Readers, Goto, TypeOK
  <2> QED
    BY <1>1, <1>2, <1>3, <2>1, FS_AddElement DEF Indicator
<1>4. CASE l # "rows"
  <2>1. Readers' = Readers \ {s}
    BY <1>4 DEF Readers, Goto, TypeOK
  <2> QED
    BY <1>1, <1>2, <1>4, <2>1, FS_RemoveElement DEF Indicator
<1> QED
  BY <1>3, <1>4

(* A step balances when the connections it moves add up.                   *)
LEMMA Balanced ==
  ASSUME TypeOK, Accounted, free' \in Nat, lost' \in Nat,
         IsFiniteSet(Holders'), IsFiniteSet(Readers'),
         NEW h \in Int, Cardinality(Holders') = Cardinality(Holders) + h,
         NEW r \in Int, Cardinality(Readers') = Cardinality(Readers) + r,
         (free' - free) + (lost' - lost) + h + r = 0
  PROVE  Accounted' /\ free' \in 0..MaxOpen /\ lost' \in 0..MaxOpen
<1>1. /\ Cardinality(Holders) \in Nat /\ Cardinality(Readers) \in Nat
      /\ Cardinality(Holders') \in Nat /\ Cardinality(Readers') \in Nat
  BY FS_CardinalityType DEF Accounted
<1>2. free \in Nat /\ lost \in Nat /\ MaxOpen \in Nat
  BY MaxOpenAssumption DEF TypeOK
<1>3. free' + lost' + Cardinality(Holders') + Cardinality(Readers') = MaxOpen
  <2>1. free + lost + Cardinality(Holders) + Cardinality(Readers) = MaxOpen
    BY DEF Accounted
  <2>2. PICK f \in Nat, g \in Nat, l \in Nat, k \in Nat :
               f = free /\ g = free' /\ l = lost /\ k = lost'
    BY <1>2
  <2>3. PICK n \in Nat, m \in Nat : n = Cardinality(Holders) /\ m = Cardinality(Readers)
    BY <1>1
  <2>4. g + k + (n + h) + (m + r) = MaxOpen
    <3>1. (g - f) + (k - l) + h + r = 0 /\ f + l + n + m = MaxOpen
      BY <2>1, <2>2, <2>3
    <3> QED
      BY <3>1
  <2> QED
    BY <2>2, <2>3, <2>4
<1> QED
  BY <1>1, <1>2, <1>3 DEF Accounted

(* The two parts of an action, the accounts and the rest of the types.     *)
Accounts == Accounted /\ free \in 0..MaxOpen /\ lost \in 0..MaxOpen
Others ==
  /\ pc \in [Sessions -> Pcs] /\ op \in [Sessions -> Ops]
  /\ beginTx \in [Sessions -> BOOLEAN] /\ tx \in [Sessions -> TxStates]
  /\ pending \in [Sessions -> SUBSET Writes]
  /\ durable \subseteq Writes /\ written \in 0..MaxWrites

LEMMA Parts == TypeOK <=> Others /\ free \in 0..MaxOpen /\ lost \in 0..MaxOpen
BY DEF TypeOK, Others, TxStates

LEMMA GotoAccounts ==
  ASSUME TypeOK, Accounted, NEW s \in Sessions, NEW l \in Pcs \ {"rows"},
         pc[s] # "rows", Goto(s, l), UNCHANGED <<tx, free, lost>>
  PROVE  Accounts'
<1>1. free \in Nat /\ lost \in Nat /\ free' \in Nat /\ lost' \in Nat
  BY DEF TypeOK
<1>2. Holders' = Holders
  BY DEF Holders, Holding
<1>3. IsFiniteSet(Holders') /\ Cardinality(Holders') \in Nat /\ Cardinality(Holders) \in Nat
  BY <1>2, FS_CardinalityType DEF Accounted
<1>4. IsFiniteSet(Readers') /\ Cardinality(Readers') \in Nat /\ Cardinality(Readers) \in Nat
  BY ReadersCount, FS_CardinalityType DEF Accounted
<1>5. Cardinality(Readers') = Cardinality(Readers) + 0
  BY <1>4, ReadersCount DEF Indicator
<1>6. Cardinality(Holders') = Cardinality(Holders) + 0
  BY <1>2, <1>3
<1> QED
  BY <1>1, <1>3, <1>4, <1>5, <1>6, Balanced DEF Accounts

(* A session that is dropped leaves the connection of its transaction to   *)
(* nobody.                                                                 *)
LEMMA NewAccounts ==
  ASSUME TypeOK, Accounted, NEW s \in Sessions, New(s)
  PROVE  Accounts'
<1>1. /\ free \in Nat /\ lost \in Nat /\ free' = free
      /\ lost' = lost + Indicator(Holding(s))
  BY DEF TypeOK, New, Indicator
<1>2. /\ Cardinality(Holders) \in Nat /\ Cardinality(Readers) \in Nat
      /\ -Indicator(Holding(s)) \in Int
  BY FS_CardinalityType DEF Accounted, Indicator
<1>3. /\ IsFiniteSet(Holders')
      /\ Cardinality(Holders') = Cardinality(Holders) + (-Indicator(Holding(s)))
  <2>1. tx' = [tx EXCEPT ![s] = "none"] /\ "none" \in TxStates
    BY DEF New, Tx, TxStates
  <2>2. /\ IsFiniteSet(Holders')
        /\ Cardinality(Holders') = Cardinality(Holders) - Indicator(Holding(s))
                                   + Indicator("none" \in {"open", "ended"})
    BY <2>1, HoldersCount
  <2>3. Indicator("none" \in {"open", "ended"}) = 0
    BY DEF Indicator
  <2> QED
    BY <1>2, <2>2, <2>3 DEF Indicator
<1>4. IsFiniteSet(Readers') /\ Cardinality(Readers') = Cardinality(Readers) + 0
  <2>1. Readers' = Readers
    BY DEF New, Readers
  <2> QED
    BY <1>2, <2>1 DEF Accounted
<1>5. (free' - free) + (lost' - lost) + (-Indicator(Holding(s))) + 0 = 0
  BY <1>1 DEF Indicator
<1>6. free' \in Nat /\ lost' \in Nat
  BY <1>1 DEF Indicator
<1> QED
  BY <1>1, <1>2, <1>3, <1>4, <1>5, <1>6, Balanced DEF Accounts

(* A Begin takes a connection, and leaves that of an open transaction to   *)
(* nobody; the end of a transaction gives one back.                        *)
LEMMA BeginAccounts ==
  ASSUME TypeOK, Accounted, NEW s \in Sessions, pc[s] # "rows", free > 0,
         Goto(s, "idle"), Tx(s, "open"), free' = free - 1,
         lost' = lost + Indicator(Holding(s))
  PROVE  Accounts'
<1>1. free \in Nat /\ lost \in Nat /\ free' \in Nat /\ lost' \in Nat
  BY DEF TypeOK, Indicator
<1>2. /\ Cardinality(Holders) \in Nat /\ Cardinality(Readers) \in Nat
      /\ 1 - Indicator(Holding(s)) \in Int
  BY FS_CardinalityType DEF Accounted, Indicator
<1>3. /\ IsFiniteSet(Holders')
      /\ Cardinality(Holders') = Cardinality(Holders) + (1 - Indicator(Holding(s)))
  <2>1. /\ IsFiniteSet(Holders')
        /\ Cardinality(Holders') = Cardinality(Holders) - Indicator(Holding(s))
                                   + Indicator("open" \in {"open", "ended"})
    BY HoldersCount DEF Tx, TxStates
  <2> QED
    BY <1>2, <2>1 DEF Indicator
<1>4. IsFiniteSet(Readers') /\ Cardinality(Readers') = Cardinality(Readers) + 0
  <2>1. /\ IsFiniteSet(Readers')
        /\ Cardinality(Readers') = Cardinality(Readers) - Indicator(pc[s] = "rows")
                                   + Indicator("idle" = "rows")
    BY ReadersCount DEF Pcs
  <2> QED
    BY <1>2, <2>1 DEF Indicator
<1>5. (free' - free) + (lost' - lost) + (1 - Indicator(Holding(s))) + 0 = 0
  BY <1>1 DEF Indicator
<1> QED
  BY <1>1, <1>2, <1>3, <1>4, <1>5, Balanced DEF Accounts

LEMMA EndAccounts ==
  ASSUME TypeOK, Accounted, NEW s \in Sessions, NEW ok \in BOOLEAN, End(s, ok)
  PROVE  Accounts'
<1>1. free \in Nat /\ lost \in Nat /\ free' = free + 1 /\ lost' = lost
  BY DEF TypeOK, End
<1>2. Cardinality(Holders) \in Nat /\ Cardinality(Readers) \in Nat
  BY FS_CardinalityType DEF Accounted
<1>3. IsFiniteSet(Holders') /\ Cardinality(Holders') = Cardinality(Holders) + (-1)
  <2>1. /\ IsFiniteSet(Holders')
        /\ Cardinality(Holders') = Cardinality(Holders) - Indicator(Holding(s))
                                   + Indicator("done" \in {"open", "ended"})
    BY HoldersCount DEF End, Tx, TxStates
  <2>2. Holding(s)
    BY DEF End
  <2> QED
    BY <1>2, <2>1, <2>2 DEF Indicator
<1>4. IsFiniteSet(Readers') /\ Cardinality(Readers') = Cardinality(Readers) + 0
  <2>1. Readers' = Readers
    BY DEF End, Readers
  <2> QED
    BY <1>2, <2>1 DEF Accounted
<1>5. (free' - free) + (lost' - lost) + (-1) + 0 = 0
  BY <1>1
<1> QED
  BY <1>1, <1>3, <1>4, <1>5, Balanced DEF Accounts

(* Rows take a connection, and give it back or leave it to nobody.         *)
LEMMA RowsTaken ==
  ASSUME TypeOK, Accounted, NEW s \in Sessions, UNCHANGED tx,
         pc[s] # "rows", Goto(s, "rows"), free > 0, free' = free - 1, lost' = lost
  PROVE  Accounts'
<1>1. free \in Nat /\ lost \in Nat /\ free' \in Nat /\ lost' \in Nat
  BY DEF TypeOK
<1>2. Cardinality(Holders) \in Nat /\ Cardinality(Readers) \in Nat
  BY FS_CardinalityType DEF Accounted
<1>3. IsFiniteSet(Holders') /\ Cardinality(Holders') = Cardinality(Holders) + 0
  <2>1. Holders' = Holders
    BY DEF Holders, Holding
  <2> QED
    BY <1>2, <2>1 DEF Accounted
<1>4. IsFiniteSet(Readers') /\ Cardinality(Readers') = Cardinality(Readers) + 1
  <2>1. /\ IsFiniteSet(Readers')
        /\ Cardinality(Readers') = Cardinality(Readers) - Indicator(pc[s] = "rows")
                                   + Indicator("rows" = "rows")
    BY ReadersCount DEF Pcs
  <2> QED
    BY <1>2, <2>1 DEF Indicator
<1>5. (free' - free) + (lost' - lost) + 0 + 1 = 0
  BY <1>1
<1> QED
  BY <1>1, <1>3, <1>4, <1>5, Balanced DEF Accounts

LEMMA RowsReleased ==
  ASSUME TypeOK, Accounted, NEW s \in Sessions, UNCHANGED tx,
         pc[s] = "rows", NEW l \in {"idle", "panicked"}, Goto(s, l), NEW back \in 0..1,
         free' = free + back, lost' = lost + (1 - back)
  PROVE  Accounts'
<1>1. free \in Nat /\ lost \in Nat /\ free' \in Nat /\ lost' \in Nat
  BY DEF TypeOK
<1>2. Cardinality(Holders) \in Nat /\ Cardinality(Readers) \in Nat
  BY FS_CardinalityType DEF Accounted
<1>3. IsFiniteSet(Holders') /\ Cardinality(Holders') = Cardinality(Holders) + 0
  <2>1. Holders' = Holders
    BY DEF Holders, Holding
  <2> QED
    BY <1>2, <2>1 DEF Accounted
<1>4. IsFiniteSet(Readers') /\ Cardinality(Readers') = Cardinality(Readers) + (-1)
  <2>1. /\ IsFiniteSet(Readers')
        /\ Cardinality(Readers') = Cardinality(Readers) - Indicator(pc[s] = "rows")
                                   + Indicator(l = "rows")
    BY ReadersCount DEF Pcs
  <2> QED
    BY <1>2, <2>1 DEF Indicator
<1>5. (free' - free) + (lost' - lost) + 0 + (-1) = 0
  BY <1>1
<1> QED
  BY <1>1, <1>3, <1>4, <1>5, Balanced DEF Accounts

-----------------------------------------------------------------------------
LEMMA AccountsStep ==
  ASSUME TypeOK, Accounted, [Next]_vars
  PROVE  Accounts'
<1> USE DEF data
<1>1. ASSUME NEW s \in Sessions, NEW kind \in Ops, Call(s, kind) PROVE Accounts'
  <2>1. /\ pc[s] # "rows" /\ UNCHANGED <<tx, free, lost>>
        /\ \E l \in Pcs \ {"rows"} : Goto(s, l)
    BY <1>1 DEF Call, Pcs
  <2> QED
    BY <2>1, GotoAccounts
<1>2. ASSUME NEW s \in Sessions,
             PrepareTx(s) \/ Prepare(s) \/ ExecTx(s) \/ Exec(s)
      PROVE  Accounts'
  <2>1. /\ pc[s] # "rows" /\ UNCHANGED <<tx, free, lost>>
        /\ \E l \in Pcs \ {"rows"} : Goto(s, l)
    BY <1>2 DEF PrepareTx, Prepare, ExecTx, Exec, Pcs
  <2> QED
    BY <2>1, GotoAccounts
<1>3. ASSUME NEW s \in Sessions, Query(s) PROVE Accounts'
  <2>1. pc[s] # "rows" /\ free > 0
    BY <1>3 DEF Query
  <2>2. CASE Goto(s, "rows") /\ free' = free - 1 /\ UNCHANGED <<tx, lost>>
    BY <2>1, <2>2, RowsTaken
  <2>3. CASE (\E l \in {"idle", "panicked"} : Goto(s, l)) /\ UNCHANGED <<tx, free, lost>>
    BY <2>1, <2>3, GotoAccounts DEF Pcs
  <2> QED
    BY <1>3, <2>2, <2>3 DEF Query
<1>4. ASSUME NEW s \in Sessions, Read(s) PROVE Accounts'
  <2>1. pc[s] = "rows"
    BY <1>4 DEF Read
  <2>2. CASE Goto(s, "idle") /\ free' = free + 1 /\ UNCHANGED <<tx, lost>>
    <3>1. free' = free + 1 /\ lost' = lost + (1 - 1)
      BY <2>2 DEF TypeOK
    <3> QED
      BY <2>1, <2>2, <3>1, RowsReleased
  <2>3. CASE /\ \E l \in {"idle", "panicked"} : Goto(s, l)
             /\ lost' = lost + 1 /\ UNCHANGED <<tx, free>>
    <3>1. free' = free + 0 /\ lost' = lost + (1 - 0)
      BY <2>3 DEF TypeOK
    <3> QED
      BY <2>1, <2>3, <3>1, RowsReleased
  <2> QED
    BY <1>4, <2>2, <2>3 DEF Read
<1>5. ASSUME NEW s \in Sessions, Begin(s) PROVE Accounts'
  <2>1. pc[s] # "rows" /\ free > 0 /\ Goto(s, "idle")
    BY <1>5 DEF Begin
  <2>2. CASE /\ free' = free - 1 /\ Tx(s, "open")
             /\ lost' = lost + (IF Holding(s) THEN 1 ELSE 0)
    BY <2>1, <2>2, BeginAccounts DEF Indicator
  <2>3. CASE UNCHANGED <<free, tx, lost>>
    BY <2>1, <2>3, GotoAccounts DEF Pcs
  <2> QED
    BY <1>5, <2>2, <2>3 DEF Begin
<1>6. ASSUME NEW s \in Sessions, Commit(s) \/ CommitFails(s) \/ Rollback(s) PROVE Accounts'
  <2>1. \E ok \in BOOLEAN : End(s, ok)
    BY <1>6 DEF Commit, CommitFails, Rollback
  <2> QED
    BY <2>1, EndAccounts
<1>7. ASSUME NEW s \in Sessions, Ended(s) PROVE Accounts'
  <2>1. Holders' = Holders /\ Readers' = Readers
    BY <1>7 DEF Ended, Tx, Holders, Holding, Readers, TypeOK
  <2> QED
    BY <1>7, <2>1 DEF Ended, Accounts, Accounted, TypeOK
<1>8. ASSUME NEW s \in Sessions, New(s) PROVE Accounts'
  BY <1>8, NewAccounts
<1>10. ASSUME NEW s \in Sessions, Recover(s) PROVE Accounts'
  BY <1>10, GotoAccounts DEF Recover, Pcs
<1>9. CASE UNCHANGED vars
  BY <1>9 DEF vars, Accounts, Accounted, Holders, Holding, Readers, TypeOK
<1> QED
  BY <1>1, <1>2, <1>3, <1>4, <1>5, <1>6, <1>7, <1>8, <1>9, <1>10 DEF Next, Step

LEMMA OthersStep ==
  ASSUME TypeOK, [Next]_vars
  PROVE  Others'
<1> USE MaxWritesAssumption DEF data
<1>0. Others /\ written \in Nat
  BY Parts DEF TypeOK
<1>1. ASSUME written < MaxWrites, written' = written + 1
      PROVE  written' \in Writes /\ written' \in 0..MaxWrites
  BY <1>0, <1>1 DEF Writes
<1>2. ASSUME NEW s \in Sessions, New(s) PROVE Others'
  BY <1>0, <1>2 DEF New, Tx, Others, TxStates
<1>3. ASSUME NEW s \in Sessions, NEW kind \in Ops, Call(s, kind) PROVE Others'
  BY <1>0, <1>3 DEF Call, Goto, Others, Pcs
<1>4. ASSUME NEW s \in Sessions, PrepareTx(s) \/ Prepare(s) PROVE Others'
  BY <1>0, <1>4 DEF PrepareTx, Prepare, Goto, Others, Pcs
<1>5. ASSUME NEW s \in Sessions, ExecTx(s) PROVE Others'
  <2>1. pc' \in [Sessions -> Pcs]
    BY <1>0, <1>5 DEF ExecTx, Goto, Others, Pcs
  <2>2. pending' \in [Sessions -> SUBSET Writes] /\ written' \in 0..MaxWrites
    BY <1>0, <1>1, <1>5 DEF ExecTx, Others
  <2> QED
    BY <1>0, <1>5, <2>1, <2>2 DEF ExecTx, Others
<1>6. ASSUME NEW s \in Sessions, Exec(s) PROVE Others'
  <2>1. pc' \in [Sessions -> Pcs]
    BY <1>0, <1>6 DEF Exec, Goto, Others, Pcs
  <2>2. durable' \subseteq Writes /\ written' \in 0..MaxWrites
    BY <1>0, <1>1, <1>6 DEF Exec, Others
  <2> QED
    BY <1>0, <1>6, <2>1, <2>2 DEF Exec, Others
<1>7. ASSUME NEW s \in Sessions, Query(s) \/ Read(s) \/ Recover(s) PROVE Others'
  <2>1. (\E l \in {"idle", "rows", "panicked"} : Goto(s, l))
        /\ UNCHANGED <<op, beginTx, tx, data>>
    BY <1>7 DEF Query, Read, Recover
  <2> QED
    BY <1>0, <2>1 DEF Goto, Others, Pcs
<1>8. ASSUME NEW s \in Sessions, Begin(s) PROVE Others'
  BY <1>0, <1>8 DEF Begin, Goto, Tx, Others, Pcs, TxStates
<1>9. ASSUME NEW s \in Sessions, NEW ok \in BOOLEAN, End(s, ok),
             durable' = durable \/ durable' = durable \cup pending[s]
      PROVE  Others'
  BY <1>0, <1>9 DEF End, Tx, Others, TxStates
<1>10. ASSUME NEW s \in Sessions, Commit(s) \/ CommitFails(s) \/ Rollback(s) PROVE Others'
  BY <1>9, <1>10 DEF Commit, CommitFails, Rollback
<1>11. ASSUME NEW s \in Sessions, Ended(s) PROVE Others'
  BY <1>0, <1>11 DEF Ended, Tx, Others, TxStates
<1>12. CASE UNCHANGED vars
  BY <1>0, <1>12 DEF vars, Others
<1> QED
  BY <1>2, <1>3, <1>4, <1>5, <1>6, <1>7, <1>8, <1>10, <1>11, <1>12 DEF Next, Step

LEMMA InitType == Init => TypeOK /\ Accounted
<1> SUFFICES ASSUME Init PROVE TypeOK /\ Accounted
  OBVIOUS
<1>1. TypeOK
  BY MaxOpenAssumption, MaxWritesAssumption DEF Init, TypeOK, Pcs, Ops
<1>2. Holders = {} /\ Readers = {}
  BY DEF Init, Holders, Holding, Readers
<1>3. Accounted
  BY <1>2, FS_EmptySet, MaxOpenAssumption DEF Init, Accounted
<1> QED
  BY <1>1, <1>3

(* Every connection of the pool is at all times free, lost, held by one    *)
(* transaction or held by the rows of one call: none is given back twice   *)
(* and none is taken that is not there.                                    *)
THEOREM ConnectionsAccounted == Spec => [](TypeOK /\ Accounted)
<1>1. Init => TypeOK /\ Accounted
  BY InitType
<1>2. TypeOK /\ Accounted /\ [Next]_vars => (TypeOK /\ Accounted)'
  BY AccountsStep, OthersStep, Parts DEF Accounts, TypeOK, Others, TxStates
<1> QED
  BY <1>1, <1>2, PTL DEF Spec

(* The variables keep their types, and the pool never has more connections *)
(* than the limit set by Open.                                             *)
THEOREM TypeCorrect == Spec => []TypeOK
BY ConnectionsAccounted, PTL
(* Over every step a connection is lost only where something that holds    *)
(* one is left unclosed.                                                   *)
LEMMA LostStep ==
  ASSUME TypeOK, [Next]_vars, lost' > lost
  PROVE  \E s \in Sessions :
           \/ Holding(s) /\ (tx'[s] = "none" \/ pc[s] = "begin")
           \/ pc[s] = "rows" /\ (op[s] = "one" \/ pc'[s] = "panicked")
<1>0. lost \in Nat
  BY DEF TypeOK
<1>1. ASSUME NEW s \in Sessions, New(s)
      PROVE  Holding(s) /\ tx'[s] = "none"
  BY <1>0, <1>1 DEF New, Tx, TypeOK
<1>2. ASSUME NEW s \in Sessions, Read(s)
      PROVE  pc[s] = "rows" /\ (op[s] = "one" \/ pc'[s] = "panicked")
  BY <1>0, <1>2 DEF Read, Goto, TypeOK
<1>3. ASSUME NEW s \in Sessions, Begin(s)
      PROVE  Holding(s) /\ pc[s] = "begin"
  BY <1>0, <1>3 DEF Begin
<1>4. ASSUME UNCHANGED lost PROVE FALSE
  BY <1>0, <1>4
<1> QED
  BY <1>1, <1>2, <1>3, <1>4 DEF Next, Step, Call, PrepareTx, Prepare, ExecTx, Exec, Query,
     End, Commit, CommitFails, Rollback, Ended, Recover, vars

(* Whatever fails in between, a connection is lost for good only to a      *)
(* SelectOne or QueryRow that found a row, to rows dropped by a panic, or  *)
(* with a transaction that nobody ended.                                   *)
THEOREM LostCorrect == Spec => LostOnlyByUnclosed
<1>1. ASSUME TypeOK, [Next]_vars
      PROVE  [lost' > lost =>
                \E s \in Sessions :
                  \/ Holding(s) /\ (tx'[s] = "none" \/ pc[s] = "begin")
                  \/ pc[s] = "rows" /\ (op[s] = "one" \/ pc'[s] = "panicked")]_vars
  BY <1>1, LostStep
<1> QED
  BY <1>1, TypeCorrect, PTL DEF Spec, LostOnlyByUnclosed

-----------------------------------------------------------------------------
BegunSession(s) ==
  /\ Holding(s) => beginTx[s]
  /\ pending[s] # {} => tx[s] = "open"
  /\ pc[s] = "exec" => op[s] = "write"

(* Over every step, what a session has begun stays in agreement with the   *)
(* transaction it holds; each action moves its own session only.           *)
LEMMA BegunStep ==
  ASSUME TypeOK, BegunMatchesTx, [Next]_vars
  PROVE  BegunMatchesTx'
<1> USE DEF data
<1> SUFFICES ASSUME NEW d \in Sessions PROVE BegunSession(d)'
  BY DEF BegunMatchesTx, BegunSession
<1>0. BegunSession(d)
  BY DEF BegunMatchesTx, BegunSession
<1>1. ASSUME UNCHANGED <<pc[d], op[d], beginTx[d], tx[d], pending[d]>>
      PROVE  BegunSession(d)'
  BY <1>0, <1>1 DEF BegunSession, Holding
<1>2. ASSUME NEW s \in Sessions, NEW kind \in Ops, Call(s, kind) PROVE BegunSession(d)'
  BY <1>0, <1>2 DEF Call, Goto, BegunSession, Holding, TypeOK
<1>3. ASSUME NEW s \in Sessions, PrepareTx(s) \/ Prepare(s) PROVE BegunSession(d)'
  BY <1>0, <1>3 DEF PrepareTx, Prepare, InTx, Goto, BegunSession, Holding, TypeOK
<1>4. ASSUME NEW s \in Sessions, ExecTx(s) PROVE BegunSession(d)'
  BY <1>0, <1>4 DEF ExecTx, Goto, BegunSession, Holding, TypeOK
<1>5. ASSUME NEW s \in Sessions, Exec(s) PROVE BegunSession(d)'
  BY <1>0, <1>5 DEF Exec, Goto, BegunSession, Holding, TypeOK
<1>6. ASSUME NEW s \in Sessions, Query(s) \/ Read(s) \/ Recover(s) PROVE BegunSession(d)'
  <2>1. PICK l \in {"idle", "rows", "panicked"} : Goto(s, l)
    BY <1>6 DEF Query, Read, Recover
  <2>2. UNCHANGED <<op, beginTx, tx, pending>>
    BY <1>6 DEF Query, Read, Recover
  <2> QED
    BY <1>0, <2>1, <2>2 DEF Goto, BegunSession, Holding, TypeOK
<1>11. ASSUME NEW s \in Sessions, New(s) PROVE BegunSession(d)'
  BY <1>0, <1>11 DEF New, Tx, BegunSession, Holding, TypeOK
<1>7. ASSUME NEW s \in Sessions, Begin(s) PROVE BegunSession(d)'
  BY <1>0, <1>7 DEF Begin, Goto, Tx, BegunSession, Holding, TypeOK
<1>8. ASSUME NEW s \in Sessions, Commit(s) \/ CommitFails(s) \/ Rollback(s)
      PROVE  BegunSession(d)'
  <2>1. PICK ok \in BOOLEAN : End(s, ok)
    BY <1>8 DEF Commit, CommitFails, Rollback
  <2> QED
    BY <1>0, <2>1 DEF End, Tx, BegunSession, Holding, TypeOK
<1>9. ASSUME NEW s \in Sessions, Ended(s) PROVE BegunSession(d)'
  BY <1>0, <1>9 DEF Ended, Tx, BegunSession, Holding, TypeOK
<1>10. CASE UNCHANGED vars
  BY <1>1, <1>10 DEF vars
<1> QED
  BY <1>2, <1>3, <1>4, <1>5, <1>6, <1>7, <1>8, <1>9, <1>10, <1>11 DEF Next, Step

(* While a transaction of a session holds a connection its beginTx is set, *)
(* and only an open transaction has writes that wait for its end.          *)
THEOREM BegunCorrect == Spec => []BegunMatchesTx
<1>1. Init => BegunMatchesTx
  BY DEF Init, BegunMatchesTx, Holding
<1>2. TypeOK /\ BegunMatchesTx /\ [Next]_vars => BegunMatchesTx'
  BY BegunStep
<1> QED
  BY <1>1, <1>2, TypeCorrect, PTL DEF Spec
-----------------------------------------------------------------------------
(* What a step of one session is to Transactions.                          *)
LEMMA Becomes ==
  ASSUME NEW s \in Sessions, NEW st, NEW ws, Status(s)' = st,
         \A d \in Sessions \ {s} : Status(d)' = Status(d),
         pending' = [pending EXCEPT ![s] = ws]
  PROVE  Abstract!Become(s, st, ws)
BY DEF Abstract!Become

LEMMA StatusKept ==
  ASSUME NEW s \in Sessions, beginTx'[s] = beginTx[s], tx'[s] = tx[s]
  PROVE  Status(s)' = Status(s)
BY DEF Status

LEMMA OthersKept ==
  ASSUME TypeOK, NEW s \in Sessions, NEW b \in BOOLEAN, NEW t \in TxStates,
         beginTx' = [beginTx EXCEPT ![s] = b], tx' = [tx EXCEPT ![s] = t]
  PROVE  /\ \A d \in Sessions \ {s} : Status(d)' = Status(d)
         /\ Status(s)' = IF ~b THEN "auto" ELSE IF t = "open" THEN "open" ELSE "cut-off"
BY DEF Status, TypeOK

LEMMA AbstractStutter ==
  ASSUME UNCHANGED <<beginTx, tx, pending, durable>>
  PROVE  UNCHANGED (Abstract!vars)
BY DEF Abstract!vars, Status

LEMMA NewGivesUp ==
  ASSUME TypeOK, NEW s \in Sessions, New(s)
  PROVE  Abstract!GiveUp(s)
<1>1. Abstract!Become(s, "auto", {})
  BY OthersKept, Becomes DEF New, Tx, TxStates
<1> QED
  BY <1>1 DEF New, Abstract!GiveUp

LEMMA EndBecomes ==
  ASSUME TypeOK, NEW s \in Sessions, NEW ok \in BOOLEAN, End(s, ok)
  PROVE  Abstract!Become(s, IF ok THEN "auto" ELSE "cut-off", {})
BY OthersKept, Becomes DEF End, Tx, TxStates

LEMMA AbstractStep ==
  ASSUME TypeOK, TypeOK', BegunMatchesTx, [Next]_vars
  PROVE  [Abstract!Next]_(Abstract!vars)
<1> USE DEF data
<1>1. ASSUME UNCHANGED <<beginTx, tx, pending, durable>>
      PROVE  [Abstract!Next]_(Abstract!vars)
  BY <1>1, AbstractStutter
<1>2. ASSUME NEW s \in Sessions,
             \/ \E kind \in Ops : Call(s, kind)
             \/ PrepareTx(s) \/ Prepare(s)
      PROVE  [Abstract!Next]_(Abstract!vars)
  BY <1>1, <1>2 DEF Call, PrepareTx, Prepare
<1>3. ASSUME NEW s \in Sessions, ExecTx(s) PROVE [Abstract!Next]_(Abstract!vars)
  <2>1. CASE UNCHANGED pending
    BY <1>1, <1>3, <2>1 DEF ExecTx
  <2>2. CASE /\ tx[s] = "open" /\ written < MaxWrites /\ written' = written + 1
             /\ pending' = [pending EXCEPT ![s] = @ \cup {written'}]
    <3>1. UNCHANGED <<beginTx, tx, durable>> /\ beginTx[s]
      BY <1>3 DEF ExecTx, InTx
    <3>2. Status(s) = "open" /\ \A d \in Sessions : Status(d)' = Status(d)
      BY <2>2, <3>1 DEF Status
    <3>3. written' \in Writes
      BY <2>2, MaxWritesAssumption DEF Writes, TypeOK
    <3>4. pending' = [pending EXCEPT ![s] = pending[s] \cup {written'}]
      BY <2>2
    <3>5. Abstract!Become(s, "open", pending[s] \cup {written'})
      BY <3>2, <3>4, Becomes
    <3>6. Abstract!Write(s, written')
      BY <3>1, <3>2, <3>5 DEF Abstract!Write
    <3> QED
      BY <3>3, <3>6 DEF Abstract!Next
  <2> QED
    BY <1>3, <2>1, <2>2 DEF ExecTx
<1>4. ASSUME NEW s \in Sessions, Exec(s) PROVE [Abstract!Next]_(Abstract!vars)
  <2>1. CASE UNCHANGED durable
    BY <1>1, <1>4, <2>1 DEF Exec
  <2>2. CASE /\ written < MaxWrites /\ written' = written + 1
             /\ durable' = durable \cup {written'}
    <3>1. UNCHANGED <<beginTx, tx, pending>> /\ ~beginTx[s]
      BY <1>4 DEF Exec, InTx, BegunMatchesTx
    <3>2. Status(s) = "auto" /\ \A d \in Sessions : Status(d)' = Status(d)
      BY <3>1 DEF Status
    <3>3. written' \in Writes
      BY <2>2, MaxWritesAssumption DEF Writes, TypeOK
    <3>4. Abstract!Write(s, written')
      BY <2>2, <3>1, <3>2 DEF Abstract!Write
    <3> QED
      BY <3>3, <3>4 DEF Abstract!Next
  <2> QED
    BY <1>4, <2>1, <2>2 DEF Exec
<1>5. ASSUME NEW s \in Sessions, Query(s) \/ Read(s) \/ Recover(s)
      PROVE  [Abstract!Next]_(Abstract!vars)
  BY <1>1, <1>5 DEF Query, Read, Recover
<1>13. ASSUME NEW s \in Sessions, New(s) PROVE [Abstract!Next]_(Abstract!vars)
  BY <1>13, NewGivesUp DEF Abstract!Next
<1>6. ASSUME NEW s \in Sessions, Begin(s) PROVE [Abstract!Next]_(Abstract!vars)
  <2>1. CASE UNCHANGED <<tx, beginTx, pending>>
    BY <1>1, <1>6, <2>1 DEF Begin
  <2>2. CASE /\ Tx(s, "open") /\ beginTx' = [beginTx EXCEPT ![s] = TRUE]
             /\ pending' = [pending EXCEPT ![s] = {}]
    <3>1. Abstract!Become(s, "open", {})
      BY <2>2, OthersKept, Becomes DEF Tx, TxStates
    <3> QED
      BY <1>6, <3>1 DEF Begin, Abstract!Begin, Abstract!Next
  <2> QED
    BY <1>6, <2>1, <2>2 DEF Begin
<1>7. ASSUME NEW s \in Sessions, tx[s] = "open" PROVE Status(s) = "open"
  BY <1>7 DEF Status, BegunMatchesTx, Holding
<1>8. ASSUME NEW s \in Sessions, Commit(s) PROVE [Abstract!Next]_(Abstract!vars)
  <2>1. Abstract!Become(s, "auto", {})
    BY <1>8, EndBecomes DEF Commit
  <2> QED
    BY <1>7, <1>8, <2>1 DEF Commit, Abstract!Commit, Abstract!Next
<1>9. ASSUME NEW s \in Sessions, CommitFails(s) PROVE [Abstract!Next]_(Abstract!vars)
  <2>1. Abstract!Become(s, "cut-off", {}) /\ durable' \in {durable, durable \cup pending[s]}
    BY <1>9, EndBecomes DEF CommitFails
  <2>2. CASE tx[s] = "open"
    BY <1>7, <2>1, <2>2 DEF Abstract!CommitFails, Abstract!Next
  <2>3. CASE tx[s] # "open"
    <3>1. durable' = durable
      BY <2>1, <2>3 DEF BegunMatchesTx
    <3> QED
      BY <2>1, <3>1 DEF Abstract!GiveUp, Abstract!Next
  <2> QED
    BY <2>2, <2>3
<1>10. ASSUME NEW s \in Sessions, Rollback(s) PROVE [Abstract!Next]_(Abstract!vars)
  <2>1. PICK ok \in BOOLEAN : (ok => tx[s] = "open") /\ End(s, ok) /\ UNCHANGED durable
    BY <1>10 DEF Rollback
  <2>2. Abstract!Become(s, IF ok THEN "auto" ELSE "cut-off", {})
    BY <2>1, EndBecomes
  <2>3. CASE ok
    BY <1>7, <2>1, <2>2, <2>3 DEF Abstract!Rollback, Abstract!Next
  <2>4. CASE ~ok
    BY <2>1, <2>2, <2>4 DEF Abstract!GiveUp, Abstract!Next
  <2> QED
    BY <2>3, <2>4
<1>11. ASSUME NEW s \in Sessions, Ended(s) PROVE [Abstract!Next]_(Abstract!vars)
  <2>1. beginTx[s] /\ UNCHANGED <<beginTx, durable>> /\ tx' = [tx EXCEPT ![s] = "ended"]
    BY <1>11 DEF Ended, Tx, BegunMatchesTx, Holding
  <2>2. beginTx' = [beginTx EXCEPT ![s] = TRUE]
    BY <2>1 DEF TypeOK
  <2>3. Abstract!Become(s, "cut-off", {})
    BY <1>11, <2>1, <2>2, OthersKept, Becomes DEF Ended, TxStates
  <2> QED
    BY <2>1, <2>3 DEF Abstract!GiveUp, Abstract!Next
<1>12. CASE UNCHANGED vars
  BY <1>1, <1>12 DEF vars
<1> QED
  BY <1>2, <1>3, <1>4, <1>5, <1>6, <1>8, <1>9, <1>10, <1>11, <1>12, <1>13 DEF Next, Step

(* The sessions implement Transactions: whatever a commit, a rollback, a   *)
(* second Begin, a broken connection or a panic does, the writes between   *)
(* Begin and Commit are stored together or never, and a session whose end  *)
(* has failed stores none.                                                 *)
THEOREM SessionsImplementTransactions == Spec => ImplementsTransactions
<1>1. Init => Abstract!Init
  BY DEF Init, Abstract!Init, Status
<1>2. TypeOK /\ TypeOK' /\ BegunMatchesTx /\ [Next]_vars => [Abstract!Next]_(Abstract!vars)
  BY AbstractStep
<1> QED
  BY <1>1, <1>2, TypeCorrect, BegunCorrect, PTL
     DEF Spec, ImplementsTransactions, Abstract!Spec
=============================================================================
