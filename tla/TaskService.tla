---------------------------- MODULE TaskService ----------------------------
(***************************************************************************)
(* What grpool promises its clients, whatever its workers do: Submit       *)
(* either refuses a task, only while the pool is closed, or hands it over; *)
(* a task handed over is executed at most once and to its end, a refused   *)
(* one never.  The pool is closed at most once and reopened at most once.  *)
(***************************************************************************)
CONSTANT Tasks

VARIABLES status,   \* the progress of each task
          door      \* whether Submit is open to new calls

vars == <<status, door>>

Statuses == {"new", "offered", "refused", "accepted", "running", "ended"}

Init == /\ status = [t \in Tasks |-> "new"]
        /\ door = "open"

Become(t, s) == status' = [status EXCEPT ![t] = s] /\ UNCHANGED door

Offer(t)  == status[t] = "new" /\ door # "closed" /\ Become(t, "offered")
Refuse(t) == status[t] = "new" /\ door = "closed" /\ Become(t, "refused")
Accept(t) == status[t] = "offered"  /\ Become(t, "accepted")
Start(t)  == status[t] = "accepted" /\ Become(t, "running")
End(t)    == status[t] = "running"  /\ Become(t, "ended")

Close  == door = "open"   /\ door' = "closed"   /\ UNCHANGED status
Reopen == door = "closed" /\ door' = "reopened" /\ UNCHANGED status

Next == \/ \E t \in Tasks :
             Offer(t) \/ Refuse(t) \/ Accept(t) \/ Start(t) \/ End(t)
        \/ Close \/ Reopen

Spec == Init /\ [][Next]_vars
=============================================================================
