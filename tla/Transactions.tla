---------------------------- MODULE Transactions ----------------------------
(***************************************************************************)
(* What the transactions of orm/orm.go promise to their sessions: outside  *)
(* a transaction a write is durable at once; between Begin and the end the *)
(* writes of a session become durable together, at Commit, or never.  A    *)
(* session whose commit or rollback has failed stays cut off: none of its  *)
(* writes is stored before it begins anew.                                 *)
(***************************************************************************)
CONSTANTS Sessions, Writes

VARIABLES status,   \* "auto", "open", "cut-off"
          pending,  \* the writes of the open transaction
          durable   \* the writes stored for good

vars == <<status, pending, durable>>

Init ==
  /\ status = [s \in Sessions |-> "auto"]
  /\ pending = [s \in Sessions |-> {}]
  /\ durable = {}

Become(s, st, ws) ==
  /\ status' = [status EXCEPT ![s] = st]
  /\ pending' = [pending EXCEPT ![s] = ws]

Write(s, w) ==
  \/ /\ status[s] = "auto"
     /\ durable' = durable \cup {w}
     /\ UNCHANGED <<status, pending>>
  \/ /\ status[s] = "open"
     /\ Become(s, "open", pending[s] \cup {w})
     /\ UNCHANGED durable

Begin(s) == Become(s, "open", {}) /\ UNCHANGED durable

Commit(s) ==
  /\ status[s] = "open"
  /\ Become(s, "auto", {})
  /\ durable' = durable \cup pending[s]

(* The answer to a commit may be lost: all of it is stored, or nothing.    *)
CommitFails(s) ==
  /\ status[s] = "open"
  /\ Become(s, "cut-off", {})
  /\ durable' \in {durable, durable \cup pending[s]}

Rollback(s) ==
  /\ status[s] = "open"
  /\ Become(s, "auto", {})
  /\ UNCHANGED durable

(* The session is given up, or its transaction ended by the database.      *)
GiveUp(s) ==
  /\ \E st \in {"auto", "cut-off"} : Become(s, st, {})
  /\ UNCHANGED durable

Next ==
  \E s \in Sessions :
    \/ \E w \in Writes : Write(s, w)
    \/ Begin(s) \/ Commit(s) \/ CommitFails(s) \/ Rollback(s) \/ GiveUp(s)

Spec == Init /\ [][Next]_vars
=============================================================================
