------------------------ MODULE CircuitBreakerProofs ------------------------
(***************************************************************************)
(* Theorems about CircuitBreaker, for any MaxRequests and TripAfter: those *)
(* of the first part for any number of goroutines, those of the second     *)
(* (from Alone on) for a breaker that a single goroutine uses.             *)
(***************************************************************************)
EXTENDS CircuitBreaker, TLAPS

(* A saturating increment stays in its range. *)
LEMMA CappedRange ==
  ASSUME NEW bound \in Nat, NEW n \in Nat
  PROVE  Capped(n, bound) \in 0..bound + 1
BY DEF Capped

(* The types of what a caller knows. *)
CallerTypes ==
  /\ pc \in [Callers -> Pcs]
  /\ phase \in [Callers -> {"before", "after", "result"}]
  /\ target \in [Callers -> States] /\ seen \in [Callers -> States]
  /\ result \in [Callers -> BOOLEAN] /\ loaded \in [Callers -> Nat]

(* The ways a caller moves keep them. *)
LEMMA CallerMoves ==
  ASSUME TypeOK, NEW c \in Callers
  PROVE  /\ Finish(c) => CallerTypes'
         /\ \A l \in Pcs : Continue(c, l) => CallerTypes'
         /\ \A l \in Pcs : LetThrough(c, l) => CallerTypes'
         /\ \A s \in States : ToSet(c, s) => CallerTypes'
         /\ AfterSet(c) => CallerTypes'
<1>1. Finish(c) => CallerTypes'
  BY DEF TypeOK, CallerTypes, Finish, Goto, States, Pcs
<1>2. \A l \in Pcs : Continue(c, l) => CallerTypes'
  BY DEF TypeOK, CallerTypes, Continue, Goto, callerVars
<1>3. \A s \in States : ToSet(c, s) => CallerTypes'
  BY DEF TypeOK, CallerTypes, ToSet, Goto, Pcs
<1>4. \A l \in Pcs : LetThrough(c, l) => CallerTypes'
  BY DEF TypeOK, CallerTypes, LetThrough, Goto, States
<1> QED
  BY <1>1, <1>2, <1>3, <1>4 DEF AfterSet, Pcs

(* Every step keeps the types and the ranges of the counters. *)
LEMMA TypeStep ==
  ASSUME TypeOK, [Next]_vars
  PROVE  TypeOK'
<1> USE MaxRequestsAssumption
<1> USE TripAfterAssumption
<1> USE DEF settings, counts, callerVars, histVars
<1>0. ASSUME CallerTypes',
             UNCHANGED <<settings, state, expiry, counts>>,
             current' \subseteq Callers, probes' \in Nat,
             okRun' \in Nat, failRun' \in Nat
      PROVE  TypeOK'
  BY <1>0 DEF TypeOK, CallerTypes
<1>1. ASSUME NEW c \in Callers, Execute(c) PROVE TypeOK'
  <2>1. CallerTypes'
    BY <1>1, CallerMoves DEF Execute, Pcs, States
  <2> QED
    BY <1>0, <1>1, <2>1 DEF Execute, TypeOK
<1>2. ASSUME NEW c \in Callers, ReturnBefore(c) PROVE TypeOK'
  <2>1. CallerTypes'
    BY <1>2, CallerMoves DEF ReturnBefore, Pcs, States
  <2> QED
    BY <1>0, <1>2, <2>1 DEF ReturnBefore, TypeOK
<1>3. ASSUME NEW c \in Callers, TooManyRequests(c) PROVE TypeOK'
  <2>1. CallerTypes'
    BY <1>3, CallerMoves DEF TooManyRequests, Pcs, States
  <2> QED
    BY <1>0, <1>3, <2>1 DEF TooManyRequests, TypeOK
<1>4. ASSUME NEW c \in Callers, Probe(c) PROVE TypeOK'
  <2>1. CallerTypes'
    BY <1>4, CallerMoves DEF Probe, Pcs, States
  <2> QED
    BY <1>0, <1>4, <2>1 DEF Probe, TypeOK
<1>5. ASSUME NEW c \in Callers, Request(c) PROVE TypeOK'
  <2>1. CASE Finish(c) /\ UNCHANGED <<probes, okRun, failRun>>
    BY <1>0, <1>5, <2>1, CallerMoves DEF Request, TypeOK
  <2>2. ASSUME NEW ok \in BOOLEAN,
               result' = [result EXCEPT ![c] = ok],
               okRun' = IF ok THEN Capped(okRun + 1, MaxRequests) ELSE 0,
               failRun' = IF ok THEN 0 ELSE Capped(failRun + 1, TripAfter),
               probes' = IF state = "half" THEN Capped(probes + 1, MaxRequests + 1)
                         ELSE probes,
               Goto(c, "load"), UNCHANGED <<phase, target, seen, loaded>>
        PROVE  TypeOK'
    <3>1. okRun' \in Nat /\ failRun' \in Nat /\ probes' \in Nat
      BY <2>2 DEF Capped, TypeOK
    <3>2. CallerTypes'
      BY <2>2 DEF TypeOK, CallerTypes, Goto, Pcs
    <3> QED
      BY <1>0, <1>5, <3>1, <3>2 DEF Request, TypeOK
  <2> QED
    BY <1>5, <2>1, <2>2 DEF Request
<1>6. ASSUME NEW c \in Callers, LoadRequests(c) PROVE TypeOK'
  <2>1. CallerTypes'
    BY <1>6 DEF LoadRequests, Goto, TypeOK, CallerTypes, Pcs
  <2> QED
    BY <1>0, <1>6, <2>1 DEF LoadRequests, TypeOK
<1>7. ASSUME NEW c \in Callers, StoreRequests(c) PROVE TypeOK'
  <2>1. /\ Capped(loaded[c] + 1, MaxRequests) \in 0..MaxRequests + 1
        /\ Capped(loaded[c] + 1, TripAfter) \in 0..TripAfter + 1
    <3>1. loaded[c] + 1 \in Nat
      BY DEF TypeOK
    <3> QED
      BY <3>1, CappedRange
  <2>2. CallerTypes'
    BY <1>7 DEF StoreRequests, Goto, TypeOK, CallerTypes, Pcs
  <2> QED
    BY <1>7, <2>1, <2>2 DEF StoreRequests, TypeOK, CallerTypes
<1>8. ASSUME NEW c \in Callers, CurrentState(c) PROVE TypeOK'
  <2>1. CallerTypes'
    BY <1>8, CallerMoves DEF CurrentState, Pcs, States
  <2> QED
    BY <1>0, <1>8, <2>1 DEF CurrentState, TypeOK
<1>8a. ASSUME NEW c \in Callers, CheckClosed(c) PROVE TypeOK'
  <2>1. CallerTypes'
    BY <1>8a, CallerMoves DEF CheckClosed, Pcs
  <2> QED
    BY <1>0, <1>8a, <2>1 DEF CheckClosed, TypeOK
<1>8b. ASSUME NEW c \in Callers, CheckOpen(c) PROVE TypeOK'
  <2>1. CallerTypes'
    BY <1>8b, CallerMoves DEF CheckOpen, Pcs, States
  <2> QED
    BY <1>0, <1>8b, <2>1 DEF CheckOpen, TypeOK
<1>8c. ASSUME NEW c \in Callers, ReadState(c) PROVE TypeOK'
  <2>1. CallerTypes'
    BY <1>8c DEF ReadState, Goto, TypeOK, CallerTypes, Pcs
  <2> QED
    BY <1>0, <1>8c, <2>1 DEF ReadState, TypeOK
<1>9. ASSUME NEW c \in Callers, SetState(c) PROVE TypeOK'
  <2>1. CallerTypes'
    BY <1>9, CallerMoves DEF SetState, Pcs, States
  <2> QED
    BY <1>0, <1>9, <2>1 DEF SetState, TypeOK
<1>10. ASSUME NEW c \in Callers, WriteState(c) PROVE TypeOK'
  <2>1. CallerTypes'
    BY <1>10 DEF WriteState, Goto, TypeOK, CallerTypes, Pcs, States
  <2> QED
    BY <1>10, <2>1 DEF WriteState, TypeOK, CallerTypes
<1>11. ASSUME NEW c \in Callers, NewGeneration(c) PROVE TypeOK'
  <2>1. CallerTypes'
    BY <1>11 DEF NewGeneration, Goto, TypeOK, CallerTypes, Pcs
  <2>2. expiry' \in Expiries
    BY <1>11 DEF NewGeneration, NextExpiry, TypeOK, States, Expiries
  <2> QED
    BY <1>11, <2>1, <2>2 DEF NewGeneration, TypeOK, CallerTypes
<1>12. ASSUME NEW c \in Callers, Notify(c) PROVE TypeOK'
  <2>1. CallerTypes'
    BY <1>12, CallerMoves DEF Notify, Pcs, States
  <2> QED
    BY <1>0, <1>12, <2>1 DEF Notify, TypeOK
<1>13. ASSUME NEW c \in Callers, ReturnAfter(c) PROVE TypeOK'
  <2>1. CallerTypes'
    <3>1. CASE Finish(c)
      BY <3>1, CallerMoves
    <3>2. CASE /\ Goto(c, "count-load")
               /\ phase' = [phase EXCEPT ![c] = "result"]
               /\ UNCHANGED <<target, seen, result, loaded>>
      BY <3>2 DEF Goto, TypeOK, CallerTypes, Pcs
    <3> QED
      BY <1>13, <3>1, <3>2 DEF ReturnAfter
  <2> QED
    BY <1>0, <1>13, <2>1 DEF ReturnAfter, TypeOK
<1>14. ASSUME NEW c \in Callers, LoadCount(c) PROVE TypeOK'
  <2>1. CallerTypes'
    BY <1>14 DEF LoadCount, Goto, TypeOK, CallerTypes, Pcs
  <2> QED
    BY <1>0, <1>14, <2>1 DEF LoadCount, TypeOK
<1>15. ASSUME NEW c \in Callers, StoreCount(c) PROVE TypeOK'
  <2>1. /\ Capped(loaded[c] + 1, MaxRequests) \in 0..MaxRequests + 1
        /\ Capped(loaded[c] + 1, TripAfter) \in 0..TripAfter + 1
    <3>1. loaded[c] + 1 \in Nat
      BY DEF TypeOK
    <3> QED
      BY <3>1, CappedRange
  <2>2. CallerTypes'
    BY <1>15 DEF StoreCount, Goto, TypeOK, CallerTypes, Pcs
  <2> QED
    BY <1>15, <2>1, <2>2 DEF StoreCount, TypeOK, CallerTypes
<1>16. ASSUME NEW c \in Callers, OnSuccess(c) PROVE TypeOK'
  <2>1. CallerTypes'
    BY <1>16, CallerMoves DEF OnSuccess, Pcs, States
  <2> QED
    BY <1>0, <1>16, <2>1 DEF OnSuccess, TypeOK
<1>17. ASSUME NEW c \in Callers, OnFail(c) PROVE TypeOK'
  <2>1. CallerTypes'
    BY <1>17, CallerMoves DEF OnFail, Pcs, States
  <2> QED
    BY <1>0, <1>17, <2>1 DEF OnFail, TypeOK
<1>18. CASE ExpiryPasses
  BY <1>18 DEF ExpiryPasses, TypeOK, Expiries
<1>19. CASE UNCHANGED vars
  BY <1>19 DEF vars, TypeOK
<1> QED
  BY <1>1, <1>2, <1>3, <1>4, <1>5, <1>6, <1>7, <1>8, <1>8a, <1>8b, <1>8c, <1>9,
     <1>10, <1>11, <1>12, <1>13, <1>14, <1>15, <1>16, <1>17, <1>18, <1>19 DEF Next, Step

LEMMA InitType == Init => TypeOK
BY MaxRequestsAssumption, TripAfterAssumption, SettingsAssumption
   DEF Init, TypeOK, States, Expiries, Pcs

(* The variables keep their types; Requests, ConsecutiveSuccesses and      *)
(* ConsecutiveFailures never leave the ranges they saturate in.            *)
THEOREM TypeCorrect == Spec => []TypeOK
<1>1. Init => TypeOK
  BY InitType
<1>2. TypeOK /\ [Next]_vars => TypeOK'
  BY TypeStep
<1> QED
  BY <1>1, <1>2, PTL DEF Spec

-----------------------------------------------------------------------------
(* A step that leaves alone the state and the expiry, and neither takes a  *)
(* caller to its NewGeneration after a change of state nor back from it.   *)
LEMMA ExpiryKept ==
  ASSUME TypeOK, ExpiryMatchesState,
         NEW c \in Callers, NEW l \in Pcs,
         pc[c] # "generation-set", l # "generation-set", Goto(c, l),
         UNCHANGED <<interval, state, expiry>>
  PROVE  ExpiryMatchesState'
<1>1. Changing' <=> Changing
  BY DEF Goto, Changing, TypeOK
<1> QED
  BY <1>1 DEF ExpiryMatchesState

(* The expiry follows the state over every step.  While a caller is        *)
(* between its write of the state and its NewGeneration nothing is         *)
(* claimed; NewGeneration of any caller sets the expiry of the state it    *)
(* finds, so the last one to run leaves them matching.                     *)
LEMMA ExpiryStep ==
  ASSUME TypeOK, ExpiryMatchesState, [Next]_vars
  PROVE  ExpiryMatchesState'
<1> USE DEF settings, counts, callerVars, histVars
<1>1. ASSUME NEW c \in Callers, Execute(c) PROVE ExpiryMatchesState'
  <2>1. /\ UNCHANGED <<interval, state, expiry>>
        /\ pc[c] # "generation-set"
    BY <1>1 DEF Execute
  <2>2. PICK l \in Pcs : l # "generation-set" /\ Goto(c, l)
    BY <1>1 DEF Execute, Continue, Pcs
  <2> QED
    BY <2>1, <2>2, ExpiryKept
<1>2. ASSUME NEW c \in Callers, ReturnBefore(c) PROVE ExpiryMatchesState'
  <2>1. /\ UNCHANGED <<interval, state, expiry>>
        /\ pc[c] # "generation-set"
    BY <1>2 DEF ReturnBefore
  <2>2. PICK l \in Pcs : l # "generation-set" /\ Goto(c, l)
    BY <1>2 DEF ReturnBefore, Finish, LetThrough, Pcs
  <2> QED
    BY <2>1, <2>2, ExpiryKept
<1>3. ASSUME NEW c \in Callers, TooManyRequests(c) PROVE ExpiryMatchesState'
  <2>1. /\ UNCHANGED <<interval, state, expiry>>
        /\ pc[c] # "generation-set"
    BY <1>3 DEF TooManyRequests
  <2>2. PICK l \in Pcs : l # "generation-set" /\ Goto(c, l)
    BY <1>3 DEF TooManyRequests, Finish, Pcs
  <2> QED
    BY <2>1, <2>2, ExpiryKept
<1>4. ASSUME NEW c \in Callers, Probe(c) PROVE ExpiryMatchesState'
  <2>1. /\ UNCHANGED <<interval, state, expiry>>
        /\ pc[c] # "generation-set"
    BY <1>4 DEF Probe
  <2>2. PICK l \in Pcs : l # "generation-set" /\ Goto(c, l)
    BY <1>4 DEF Probe, Continue, Pcs
  <2> QED
    BY <2>1, <2>2, ExpiryKept
<1>5. ASSUME NEW c \in Callers, Request(c) PROVE ExpiryMatchesState'
  <2>1. /\ UNCHANGED <<interval, state, expiry>>
        /\ pc[c] # "generation-set"
    BY <1>5 DEF Request
  <2>2. PICK l \in Pcs : l # "generation-set" /\ Goto(c, l)
    BY <1>5 DEF Request, Finish, Pcs
  <2> QED
    BY <2>1, <2>2, ExpiryKept
<1>6. ASSUME NEW c \in Callers, LoadRequests(c) PROVE ExpiryMatchesState'
  <2>1. /\ UNCHANGED <<interval, state, expiry>>
        /\ pc[c] # "generation-set"
    BY <1>6 DEF LoadRequests
  <2>2. PICK l \in Pcs : l # "generation-set" /\ Goto(c, l)
    BY <1>6 DEF LoadRequests, Pcs
  <2> QED
    BY <2>1, <2>2, ExpiryKept
<1>7. ASSUME NEW c \in Callers, StoreRequests(c) PROVE ExpiryMatchesState'
  <2>1. /\ UNCHANGED <<interval, state, expiry>>
        /\ pc[c] # "generation-set"
    BY <1>7 DEF StoreRequests
  <2>2. PICK l \in Pcs : l # "generation-set" /\ Goto(c, l)
    BY <1>7 DEF StoreRequests, Pcs
  <2> QED
    BY <2>1, <2>2, ExpiryKept
<1>8. ASSUME NEW c \in Callers, CurrentState(c) PROVE ExpiryMatchesState'
  <2>1. /\ UNCHANGED <<interval, state, expiry>>
        /\ pc[c] # "generation-set"
    BY <1>8 DEF CurrentState
  <2>2. PICK l \in Pcs : l # "generation-set" /\ Goto(c, l)
    BY <1>8 DEF CurrentState, Continue, Pcs
  <2> QED
    BY <2>1, <2>2, ExpiryKept
<1>8a. ASSUME NEW c \in Callers, CheckClosed(c) PROVE ExpiryMatchesState'
  <2>1. /\ UNCHANGED <<interval, state, expiry>>
        /\ pc[c] # "generation-set"
    BY <1>8a DEF CheckClosed
  <2>2. PICK l \in Pcs : l # "generation-set" /\ Goto(c, l)
    BY <1>8a DEF CheckClosed, Continue, ToSet, Pcs
  <2> QED
    BY <2>1, <2>2, ExpiryKept
<1>8b. ASSUME NEW c \in Callers, CheckOpen(c) PROVE ExpiryMatchesState'
  <2>1. /\ UNCHANGED <<interval, state, expiry>>
        /\ pc[c] # "generation-set"
    BY <1>8b DEF CheckOpen
  <2>2. PICK l \in Pcs : l # "generation-set" /\ Goto(c, l)
    BY <1>8b DEF CheckOpen, Continue, ToSet, Pcs
  <2> QED
    BY <2>1, <2>2, ExpiryKept
<1>8c. ASSUME NEW c \in Callers, ReadState(c) PROVE ExpiryMatchesState'
  <2>1. /\ UNCHANGED <<interval, state, expiry>>
        /\ pc[c] # "generation-set"
    BY <1>8c DEF ReadState
  <2>2. PICK l \in Pcs : l # "generation-set" /\ Goto(c, l)
    BY <1>8c DEF ReadState, Continue, ToSet, Pcs
  <2> QED
    BY <2>1, <2>2, ExpiryKept
<1>9. ASSUME NEW c \in Callers, SetState(c) PROVE ExpiryMatchesState'
  <2>1. /\ UNCHANGED <<interval, state, expiry>>
        /\ pc[c] # "generation-set"
    BY <1>9 DEF SetState
  <2>2. PICK l \in Pcs : l # "generation-set" /\ Goto(c, l)
    BY <1>9 DEF SetState, AfterSet, Finish, Continue, Pcs
  <2> QED
    BY <2>1, <2>2, ExpiryKept
<1>10. ASSUME NEW c \in Callers, WriteState(c) PROVE ExpiryMatchesState'
  <2>1. Changing'
    BY <1>10 DEF WriteState, Goto, Changing, TypeOK
  <2> QED
    BY <2>1 DEF ExpiryMatchesState
<1>11. ASSUME NEW c \in Callers, NewGeneration(c) PROVE ExpiryMatchesState'
  <2>1. expiry' = NextExpiry /\ UNCHANGED <<interval, state>>
    BY <1>11 DEF NewGeneration
  <2> QED
    BY <2>1 DEF NextExpiry, ExpiryMatchesState, TypeOK, States
<1>12. ASSUME NEW c \in Callers, Notify(c) PROVE ExpiryMatchesState'
  <2>1. /\ UNCHANGED <<interval, state, expiry>>
        /\ pc[c] # "generation-set"
    BY <1>12 DEF Notify
  <2>2. PICK l \in Pcs : l # "generation-set" /\ Goto(c, l)
    BY <1>12 DEF Notify, AfterSet, Finish, Continue, Pcs
  <2> QED
    BY <2>1, <2>2, ExpiryKept
<1>13. ASSUME NEW c \in Callers, ReturnAfter(c) PROVE ExpiryMatchesState'
  <2>1. /\ UNCHANGED <<interval, state, expiry>>
        /\ pc[c] # "generation-set"
    BY <1>13 DEF ReturnAfter
  <2>2. PICK l \in Pcs : l # "generation-set" /\ Goto(c, l)
    BY <1>13 DEF ReturnAfter, Finish, Pcs
  <2> QED
    BY <2>1, <2>2, ExpiryKept
<1>14. ASSUME NEW c \in Callers, LoadCount(c) PROVE ExpiryMatchesState'
  <2>1. /\ UNCHANGED <<interval, state, expiry>>
        /\ pc[c] # "generation-set"
    BY <1>14 DEF LoadCount
  <2>2. PICK l \in Pcs : l # "generation-set" /\ Goto(c, l)
    BY <1>14 DEF LoadCount, Pcs
  <2> QED
    BY <2>1, <2>2, ExpiryKept
<1>15. ASSUME NEW c \in Callers, StoreCount(c) PROVE ExpiryMatchesState'
  <2>1. /\ UNCHANGED <<interval, state, expiry>>
        /\ pc[c] # "generation-set"
    BY <1>15 DEF StoreCount
  <2>2. PICK l \in Pcs : l # "generation-set" /\ Goto(c, l)
    BY <1>15 DEF StoreCount, Pcs
  <2> QED
    BY <2>1, <2>2, ExpiryKept
<1>16. ASSUME NEW c \in Callers, OnSuccess(c) PROVE ExpiryMatchesState'
  <2>1. /\ UNCHANGED <<interval, state, expiry>>
        /\ pc[c] # "generation-set"
    BY <1>16 DEF OnSuccess
  <2>2. PICK l \in Pcs : l # "generation-set" /\ Goto(c, l)
    BY <1>16 DEF OnSuccess, ToSet, Finish, Pcs
  <2> QED
    BY <2>1, <2>2, ExpiryKept
<1>17. ASSUME NEW c \in Callers, OnFail(c) PROVE ExpiryMatchesState'
  <2>1. /\ UNCHANGED <<interval, state, expiry>>
        /\ pc[c] # "generation-set"
    BY <1>17 DEF OnFail
  <2>2. PICK l \in Pcs : l # "generation-set" /\ Goto(c, l)
    BY <1>17 DEF OnFail, ToSet, Finish, Pcs
  <2> QED
    BY <2>1, <2>2, ExpiryKept
<1>18. CASE ExpiryPasses
  <2>1. Changing' <=> Changing
    BY <1>18 DEF ExpiryPasses, Changing
  <2> QED
    BY <1>18, <2>1 DEF ExpiryPasses, ExpiryMatchesState
<1>19. CASE UNCHANGED vars
  BY <1>19 DEF vars, ExpiryMatchesState, Changing
<1> QED
  BY <1>1, <1>2, <1>3, <1>4, <1>5, <1>6, <1>7, <1>8, <1>8a, <1>8b, <1>8c, <1>9,
     <1>10, <1>11, <1>12, <1>13, <1>14, <1>15, <1>16, <1>17, <1>18, <1>19 DEF Next, Step

(* Whatever calls race, when no change of state is half done the expiry is *)
(* the one of the state: none while half-open, a timeout while open.       *)
THEOREM ExpiryCorrect == Spec => []ExpiryMatchesState
<1>1. Init => TypeOK /\ ExpiryMatchesState
  <2>1. Init => ExpiryMatchesState
    BY DEF Init, ExpiryMatchesState
  <2> QED
    BY <2>1, InitType
<1>2. TypeOK /\ ExpiryMatchesState /\ [Next]_vars
      => (TypeOK /\ ExpiryMatchesState)'
  BY TypeStep, ExpiryStep
<1> QED
  BY <1>1, <1>2, PTL DEF Spec

-----------------------------------------------------------------------------
(* A breaker found Spent, and the calls that come to it.  They have read   *)
(* no state but half-open, and none has got beyond the count.              *)
Exhausted ==
  /\ state = "half" /\ requests > MaxRequests
  /\ \A c \in Callers :
       /\ pc[c] \in {"idle", "current", "return", "read-generation", "probe"}
       /\ phase[c] = "before"
       /\ pc[c] = "read-generation" => seen[c] = "half"

(* An idle caller is before its next request. *)
IdleBefore == \A c \in Callers : pc[c] = "idle" => phase[c] = "before"

LEMMA IdleStep ==
  ASSUME TypeOK, IdleBefore, [Next]_vars
  PROVE  IdleBefore'
<1> USE DEF callerVars
<1>1. ASSUME NEW c \in Callers, Finish(c) PROVE IdleBefore'
  BY <1>1 DEF Finish, Goto, IdleBefore, TypeOK
<1>2. ASSUME NEW c \in Callers, NEW l, l # "idle", Goto(c, l),
             \A d \in Callers \ {c} : phase'[d] = phase[d]
      PROVE  IdleBefore'
  BY <1>2 DEF Goto, IdleBefore, TypeOK
<1>3. ASSUME NEW c \in Callers, Execute(c) \/ Step(c) PROVE IdleBefore'
  <2>1. \A l : Continue(c, l) => Goto(c, l) /\ phase' = phase
    BY DEF Continue
  <2>2. \A t : ToSet(c, t) => Goto(c, "set") /\ phase' = phase
    BY DEF ToSet
  <2>3. \A l : LetThrough(c, l) => Goto(c, l) /\ phase' = phase
    BY DEF LetThrough
  <2>4. \/ Finish(c)
        \/ \E l \in Pcs \ {"idle"} :
              Goto(c, l) /\ \A d \in Callers \ {c} : phase'[d] = phase[d]
    <3>1. CASE Execute(c) \/ TooManyRequests(c) \/ Probe(c)
      BY <2>1, <3>1 DEF Execute, TooManyRequests, Probe, Pcs
    <3>2. CASE ReturnBefore(c)
      BY <2>3, <3>2 DEF ReturnBefore, Pcs
    <3>3. CASE Request(c)
      BY <3>3 DEF Request, Pcs
    <3>4. CASE LoadRequests(c) \/ StoreRequests(c) \/ LoadCount(c) \/ StoreCount(c)
      BY <3>4 DEF LoadRequests, StoreRequests, LoadCount, StoreCount, Pcs, TypeOK
    <3>5. CASE CurrentState(c) \/ CheckClosed(c) \/ CheckOpen(c)
      BY <2>1, <2>2, <3>5 DEF CurrentState, CheckClosed, CheckOpen, Pcs
    <3>6. CASE ReadState(c) \/ WriteState(c) \/ NewGeneration(c)
      BY <3>6 DEF ReadState, WriteState, NewGeneration, Pcs
    <3>7. CASE SetState(c) \/ Notify(c)
      BY <2>1, <3>7 DEF SetState, Notify, AfterSet, Pcs
    <3>8. CASE ReturnAfter(c)
      BY <3>8 DEF ReturnAfter, Pcs, TypeOK
    <3>9. CASE OnSuccess(c) \/ OnFail(c)
      BY <2>2, <3>9 DEF OnSuccess, OnFail, Pcs
    <3> QED
      BY <1>3, <3>1, <3>2, <3>3, <3>4, <3>5, <3>6, <3>7, <3>8, <3>9 DEF Step
  <2> QED
    BY <1>1, <1>2, <2>4
<1> QED
  BY <1>3 DEF Next, ExpiryPasses, vars, IdleBefore

(* What every step of an exhausted breaker does: callers ask, are told     *)
(* that there are too many requests, and change nothing.                   *)
LEMMA ExhaustedStep ==
  ASSUME TypeOK, Exhausted, [Next]_vars
  PROVE  Exhausted'
<1> USE MaxRequestsAssumption
<1> USE DEF settings, counts, callerVars, histVars
<1> DEFINE Asking == {"idle", "current", "return", "read-generation", "probe"}
<1>1. /\ state = "half" /\ requests > MaxRequests
      /\ \A c \in Callers : /\ pc[c] \in Asking
                            /\ phase[c] = "before"
                            /\ pc[c] = "read-generation" => seen[c] = "half"
  BY DEF Exhausted
<1>2. ASSUME NEW c \in Callers, NEW l \in Asking,
             Goto(c, l), UNCHANGED <<state, requests>>,
             phase' = phase \/ phase' = [phase EXCEPT ![c] = "before"],
             \A d \in Callers \ {c} : seen'[d] = seen[d],
             l = "read-generation" => seen'[c] = "half"
      PROVE  Exhausted'
  BY <1>1, <1>2 DEF Goto, Exhausted, TypeOK
<1>3. ASSUME NEW c \in Callers, Execute(c) PROVE Exhausted'
  BY <1>2, <1>3 DEF Execute, Continue
<1>4. ASSUME NEW c \in Callers, ReturnBefore(c) PROVE Exhausted'
  <2>1. LetThrough(c, "probe") /\ UNCHANGED <<state, requests>>
    BY <1>1, <1>4 DEF ReturnBefore
  <2> QED
    BY <1>2, <2>1 DEF LetThrough, TypeOK
<1>5. ASSUME NEW c \in Callers, TooManyRequests(c) PROVE Exhausted'
  BY <1>2, <1>5 DEF TooManyRequests, Finish, TypeOK
<1>6. ASSUME NEW c \in Callers, CurrentState(c) PROVE Exhausted'
  <2>1. Continue(c, "return") /\ UNCHANGED <<state, requests>>
    BY <1>1, <1>6 DEF CurrentState
  <2> QED
    BY <1>2, <2>1 DEF Continue
<1>7. ASSUME NEW c \in Callers, ReadState(c) PROVE Exhausted'
  BY <1>1, <1>2, <1>7 DEF ReadState, TypeOK
<1>8. ASSUME NEW c \in Callers, Probe(c) PROVE FALSE
  BY <1>1, <1>8 DEF Probe, TypeOK
<1>9. ASSUME NEW c \in Callers,
             \/ Request(c) \/ LoadRequests(c) \/ StoreRequests(c) \/ SetState(c)
             \/ CheckClosed(c) \/ CheckOpen(c)
             \/ WriteState(c) \/ NewGeneration(c) \/ Notify(c) \/ ReturnAfter(c)
             \/ LoadCount(c) \/ StoreCount(c) \/ OnSuccess(c) \/ OnFail(c)
      PROVE  FALSE
  <2>1. pc[c] \in Asking /\ phase[c] = "before"
    BY <1>1
  <2> QED
    BY <1>9, <2>1 DEF Request, LoadRequests, StoreRequests, SetState, CheckClosed,
       CheckOpen, WriteState, NewGeneration, Notify, ReturnAfter, LoadCount,
       StoreCount, OnSuccess, OnFail
<1>10. CASE ExpiryPasses
  BY <1>1, <1>10 DEF ExpiryPasses, Exhausted
<1>11. CASE UNCHANGED vars
  BY <1>1, <1>11 DEF vars, Exhausted
<1> QED
  BY <1>3, <1>4, <1>5, <1>6, <1>7, <1>8, <1>9, <1>10, <1>11 DEF Next, Step

(* A half-open breaker found with its requests spent and no call in        *)
(* progress stays half-open and lets nothing through, for any number of    *)
(* goroutines that call it afterwards and whatever time passes.            *)
THEOREM SpentCorrect == Spec => SpentIsLost
<1>1. Init => IdleBefore
  BY DEF Init, IdleBefore
<1>2. TypeOK /\ IdleBefore /\ [Next]_vars => IdleBefore'
  BY IdleStep
<1>3. IdleBefore /\ Spent => Exhausted
  BY DEF IdleBefore, Spent, Quiet, Exhausted
<1>4. TypeOK /\ Exhausted /\ [Next]_vars => Exhausted'
  BY ExhaustedStep
<1>5. Exhausted => Lost
  BY DEF Exhausted, Lost
<1> QED
  BY <1>1, <1>2, <1>3, <1>4, <1>5, TypeCorrect, PTL DEF Spec, SpentIsLost

-----------------------------------------------------------------------------
(* One caller.  With a single goroutine nothing happens between its reads  *)
(* and its writes, and the counters can be compared with the results that  *)
(* were really seen.                                                       *)

(* In currentState, when the state is not changed. *)
Asking == {"current", "closed-check", "generation", "return", "read-generation"}

(* Where the call of c is in Execute, and what it has found on the way.    *)
Placed(c) ==
  /\ pc[c] \in {"request", "load", "store", "count-load", "count-store", "judge"}
       => state # "open"
  /\ pc[c] \in {"probe", "request", "load", "store"} => phase[c] = "before"
  /\ pc[c] \in {"count-load", "count-store", "judge"} => phase[c] = "result"
  /\ pc[c] \in {"read-generation", "count-load", "count-store", "judge"} =>
       seen[c] = state
  /\ pc[c] \in {"closed-check", "generation"} => state = "closed"
  /\ pc[c] = "open-check" => state = "open"
  /\ pc[c] = "probe" => state = "half"
  /\ phase[c] = "after" => pc[c] \in Asking /\ state # "open"
  /\ phase[c] = "result" => pc[c] \notin {"idle", "open-check"} \cup Asking
  /\ pc[c] = "idle" => phase[c] = "before"

(* A change of state under way has its cause. *)
Caused(c) ==
  pc[c] \in {"set", "write"} =>
    \/ phase[c] = "before" /\ state = "open" /\ target[c] = "half" /\ expiry = "timeout-past"
    \/ /\ phase[c] = "result"
       /\ \/ state = "half" /\ target[c] = "closed" /\ okRun > MaxRequests
          \/ state # "open" /\ target[c] = "open" /\ failRun > TripAfter

(* The request of c has returned and its result is not yet counted. *)
Uncounted(c) ==
  pc[c] \in {"load", "store", "count-load", "count-store"} \/ phase[c] = "after"

(* Counted results are never more than the results there were; one that is *)
(* dropped comes from before a new generation, which has no counts.        *)
CountsFollow(c) ==
  /\ ~Uncounted(c) /\ pc[c] # "generation-set" => successes <= okRun /\ failures <= failRun
  /\ Uncounted(c) =>
       IF result[c] THEN Capped(successes + 1, MaxRequests) <= okRun
       ELSE Capped(failures + 1, TripAfter) <= failRun
  /\ pc[c] \in {"probe", "request"} \/ (Uncounted(c) /\ phase[c] # "result") =>
       c \in current \/ (successes = 0 /\ failures = 0)
  /\ pc[c] = "count-store" => loaded[c] = IF result[c] THEN successes ELSE failures

(* Requests counts every request that returned half-open. *)
ProbesCounted(c) ==
  /\ state # "half" => probes = 0
  /\ state = "half" =>
       probes <= IF pc[c] \in {"load", "store"} THEN requests + 1 ELSE requests
  /\ state = "half" /\ pc[c] \in {"request", "load", "store"} => requests <= MaxRequests
  /\ pc[c] = "store" => loaded[c] = requests
  /\ pc[c] = "generation-set" => probes = 0

Alone(c) ==
  /\ TypeOK /\ ExpiryMatchesState
  /\ Placed(c) /\ Caused(c) /\ CountsFollow(c) /\ ProbesCounted(c)

(* With an interval no result is dropped, and ConsecutiveFailures is the   *)
(* number of failures in a row.                                            *)
FailuresCounted(c) ==
  /\ interval = "positive" /\ pc[c] # "generation"
  /\ pc[c] \in {"probe", "request", "load", "store"} \/ phase[c] = "after" => c \in current
  /\ Uncounted(c) =>
       failures <= TripAfter /\ failRun = IF result[c] THEN 0 ELSE failures + 1
  /\ pc[c] = "generation-set" => failRun = 0
  /\ ~Uncounted(c) /\ pc[c] \notin {"generation-set", "set", "write"} => failRun = failures
  /\ pc[c] = "judge" /\ result[c] => failures = 0
  /\ ~Uncounted(c) /\ pc[c] \notin {"generation-set", "set", "write", "judge"} =>
       failures <= TripAfter

-----------------------------------------------------------------------------
(* What one step of c does to its own place. *)
Same(c) == /\ phase'[c] = phase[c] /\ target'[c] = target[c] /\ seen'[c] = seen[c]
           /\ result'[c] = result[c] /\ loaded'[c] = loaded[c]

LEMMA Moves ==
  ASSUME TypeOK, NEW c \in Callers
  PROVE  /\ \A l : Goto(c, l) => pc'[c] = l
         /\ \A l : Continue(c, l) => pc'[c] = l /\ Same(c)
         /\ \A l : LetThrough(c, l) => /\ pc'[c] = l /\ phase'[c] = phase[c]
                                       /\ target'[c] = target[c] /\ result'[c] = result[c]
                                       /\ loaded'[c] = loaded[c]
         /\ \A t : ToSet(c, t) => /\ pc'[c] = "set" /\ target'[c] = t /\ phase'[c] = phase[c]
                                  /\ result'[c] = result[c]
         /\ Finish(c) => pc'[c] = "idle" /\ phase'[c] = "before"
BY DEF TypeOK, Goto, Continue, LetThrough, ToSet, Finish, Same, callerVars

(* Every step of the one caller keeps what holds of it. *)
LEMMA AloneStep ==
  ASSUME NEW c, Callers = {c}, Alone(c), [Next]_vars
  PROVE  Alone(c)' /\ (FailuresCounted(c) => FailuresCounted(c)')
<1> USE MaxRequestsAssumption, TripAfterAssumption
<1> USE DEF settings, counts, callerVars, histVars
<1>1. c \in Callers /\ TypeOK /\ Placed(c) /\ Caused(c) /\ CountsFollow(c) /\ ProbesCounted(c)
  BY DEF Alone
<1>2. TypeOK' /\ ExpiryMatchesState'
  BY TypeStep, ExpiryStep DEF Alone
<1>3. /\ requests \in Nat /\ successes \in Nat /\ failures \in Nat
      /\ probes \in Nat /\ okRun \in Nat /\ failRun \in Nat /\ loaded[c] \in Nat
      /\ result[c] \in BOOLEAN /\ phase[c] \in {"before", "after", "result"}
      /\ state \in States /\ target[c] \in States
  BY <1>1 DEF TypeOK
<1>4. ASSUME Execute(c) PROVE Alone(c)' /\ (FailuresCounted(c) => FailuresCounted(c)')
  <2>1. /\ pc[c] = "idle" /\ pc'[c] = "current" /\ Same(c)
        /\ UNCHANGED <<settings, state, expiry, counts, current, histVars>>
    BY <1>1, <1>4, Moves DEF Execute
  <2>2. Placed(c)'
    BY <1>1, <1>3, <2>1 DEF Placed, Asking, Same
  <2>3. Caused(c)'
    BY <1>1, <1>3, <2>1 DEF Placed, Asking, Caused, Same
  <2>4. CountsFollow(c)'
    BY <1>1, <1>3, <2>1 DEF Placed, Asking, CountsFollow, Uncounted, Capped, Same
  <2>5. ProbesCounted(c)'
    BY <1>1, <1>3, <2>1 DEF Placed, Asking, ProbesCounted, Capped, Same
  <2>6. FailuresCounted(c) => FailuresCounted(c)'
    BY <1>1, <1>3, <2>1 DEF Placed, Asking, FailuresCounted, Uncounted, Capped, Same
  <2> QED
    BY <1>2, <2>2, <2>3, <2>4, <2>5, <2>6 DEF Alone
<1>5. ASSUME ReturnBefore(c) PROVE Alone(c)' /\ (FailuresCounted(c) => FailuresCounted(c)')
  <2>1. /\ pc[c] = "read-generation" /\ phase[c] = "before" /\ c \in current'
        /\ UNCHANGED <<settings, state, expiry, counts, histVars>>
        /\ phase'[c] = "before"
        /\ \/ pc'[c] = "idle"
           \/ seen[c] = "half" /\ pc'[c] = "probe" /\ result'[c] = result[c]
           \/ seen[c] = "closed" /\ pc'[c] = "request" /\ result'[c] = result[c]
    BY <1>1, <1>5, Moves DEF ReturnBefore
  <2>2. Placed(c)'
    BY <1>1, <1>3, <2>1 DEF Placed, Asking, Same
  <2>3. Caused(c)'
    BY <1>1, <1>3, <2>1 DEF Placed, Asking, Caused, Same
  <2>4. CountsFollow(c)'
    BY <1>1, <1>3, <2>1 DEF Placed, Asking, CountsFollow, Uncounted, Capped, Same
  <2>5. ProbesCounted(c)'
    BY <1>1, <1>3, <2>1 DEF Placed, Asking, ProbesCounted, Capped, Same
  <2>6. FailuresCounted(c) => FailuresCounted(c)'
    BY <1>1, <1>3, <2>1 DEF Placed, Asking, FailuresCounted, Uncounted, Capped, Same
  <2> QED
    BY <1>2, <2>2, <2>3, <2>4, <2>5, <2>6 DEF Alone
<1>6. ASSUME TooManyRequests(c) PROVE Alone(c)' /\ (FailuresCounted(c) => FailuresCounted(c)')
  <2>1. /\ pc[c] = "probe" /\ pc'[c] = "idle" /\ phase'[c] = "before"
        /\ UNCHANGED <<settings, state, expiry, counts, current, histVars>>
    BY <1>1, <1>6, Moves DEF TooManyRequests
  <2>2. Placed(c)'
    BY <1>1, <1>3, <2>1 DEF Placed, Asking, Same
  <2>3. Caused(c)'
    BY <1>1, <1>3, <2>1 DEF Placed, Asking, Caused, Same
  <2>4. CountsFollow(c)'
    BY <1>1, <1>3, <2>1 DEF Placed, Asking, CountsFollow, Uncounted, Capped, Same
  <2>5. ProbesCounted(c)'
    BY <1>1, <1>3, <2>1 DEF Placed, Asking, ProbesCounted, Capped, Same
  <2>6. FailuresCounted(c) => FailuresCounted(c)'
    BY <1>1, <1>3, <2>1 DEF Placed, Asking, FailuresCounted, Uncounted, Capped, Same
  <2> QED
    BY <1>2, <2>2, <2>3, <2>4, <2>5, <2>6 DEF Alone
<1>7. ASSUME Probe(c) PROVE Alone(c)' /\ (FailuresCounted(c) => FailuresCounted(c)')
  <2>1. /\ pc[c] = "probe" /\ requests <= MaxRequests /\ pc'[c] = "request" /\ Same(c)
        /\ UNCHANGED <<settings, state, expiry, counts, current, histVars>>
    BY <1>1, <1>7, Moves DEF Probe
  <2>2. Placed(c)'
    BY <1>1, <1>3, <2>1 DEF Placed, Asking, Same
  <2>3. Caused(c)'
    BY <1>1, <1>3, <2>1 DEF Placed, Asking, Caused, Same
  <2>4. CountsFollow(c)'
    BY <1>1, <1>3, <2>1 DEF Placed, Asking, CountsFollow, Uncounted, Capped, Same
  <2>5. ProbesCounted(c)'
    BY <1>1, <1>3, <2>1 DEF Placed, Asking, ProbesCounted, Capped, Same
  <2>6. FailuresCounted(c) => FailuresCounted(c)'
    BY <1>1, <1>3, <2>1 DEF Placed, Asking, FailuresCounted, Uncounted, Capped, Same
  <2> QED
    BY <1>2, <2>2, <2>3, <2>4, <2>5, <2>6 DEF Alone
<1>8. ASSUME Request(c) PROVE Alone(c)' /\ (FailuresCounted(c) => FailuresCounted(c)')
  <2>1. /\ pc[c] = "request" /\ UNCHANGED <<settings, state, expiry, counts, current>>
        /\ \/ /\ pc'[c] = "load" /\ phase'[c] = phase[c]
              /\ probes' = IF state = "half" THEN Capped(probes + 1, MaxRequests + 1) ELSE probes
              /\ \/ result'[c] /\ okRun' = Capped(okRun + 1, MaxRequests) /\ failRun' = 0
                 \/ ~result'[c] /\ okRun' = 0 /\ failRun' = Capped(failRun + 1, TripAfter)
           \/ /\ pc'[c] = "idle" /\ phase'[c] = "before"
              /\ UNCHANGED <<probes, okRun, failRun>>
    BY <1>1, <1>8, Moves DEF Request, TypeOK
  <2>2. Placed(c)'
    BY <1>1, <1>3, <2>1 DEF Placed, Asking, Same
  <2>3. Caused(c)'
    BY <1>1, <1>3, <2>1 DEF Placed, Asking, Caused, Same
  <2>4. CountsFollow(c)'
    BY <1>1, <1>3, <2>1 DEF Placed, Asking, CountsFollow, Uncounted, Capped, Same
  <2>5. ProbesCounted(c)'
    BY <1>1, <1>3, <2>1 DEF Placed, Asking, ProbesCounted, Capped, Same
  <2>6. FailuresCounted(c) => FailuresCounted(c)'
    BY <1>1, <1>3, <2>1 DEF Placed, Asking, FailuresCounted, Uncounted, Capped, Same
  <2> QED
    BY <1>2, <2>2, <2>3, <2>4, <2>5, <2>6 DEF Alone
<1>9. ASSUME LoadRequests(c) PROVE Alone(c)' /\ (FailuresCounted(c) => FailuresCounted(c)')
  <2>1. /\ pc[c] = "load" /\ pc'[c] = "store" /\ loaded'[c] = requests
        /\ phase'[c] = phase[c] /\ result'[c] = result[c]
        /\ UNCHANGED <<settings, state, expiry, counts, current, histVars>>
    BY <1>1, <1>9, Moves DEF LoadRequests, TypeOK
  <2>2. Placed(c)'
    BY <1>1, <1>3, <2>1 DEF Placed, Asking, Same
  <2>3. Caused(c)'
    BY <1>1, <1>3, <2>1 DEF Placed, Asking, Caused, Same
  <2>4. CountsFollow(c)'
    BY <1>1, <1>3, <2>1 DEF Placed, Asking, CountsFollow, Uncounted, Capped, Same
  <2>5. ProbesCounted(c)'
    BY <1>1, <1>3, <2>1 DEF Placed, Asking, ProbesCounted, Capped, Same
  <2>6. FailuresCounted(c) => FailuresCounted(c)'
    BY <1>1, <1>3, <2>1 DEF Placed, Asking, FailuresCounted, Uncounted, Capped, Same
  <2> QED
    BY <1>2, <2>2, <2>3, <2>4, <2>5, <2>6 DEF Alone
<1>10. ASSUME StoreRequests(c) PROVE Alone(c)' /\ (FailuresCounted(c) => FailuresCounted(c)')
  <2>1. /\ pc[c] = "store" /\ pc'[c] = "current" /\ phase'[c] = "after"
        /\ requests' = Capped(loaded[c] + 1, MaxRequests) /\ result'[c] = result[c]
        /\ UNCHANGED <<settings, state, expiry, successes, failures, current, histVars>>
    BY <1>1, <1>10, Moves DEF StoreRequests, TypeOK
  <2>2. Placed(c)'
    BY <1>1, <1>3, <2>1 DEF Placed, Asking, Same
  <2>3. Caused(c)'
    BY <1>1, <1>3, <2>1 DEF Placed, Asking, Caused, Same
  <2>4. CountsFollow(c)'
    BY <1>1, <1>3, <2>1 DEF Placed, Asking, CountsFollow, Uncounted, Capped, Same
  <2>5. ProbesCounted(c)'
    BY <1>1, <1>3, <2>1 DEF Placed, Asking, ProbesCounted, Capped, Same
  <2>6. FailuresCounted(c) => FailuresCounted(c)'
    BY <1>1, <1>3, <2>1 DEF Placed, Asking, FailuresCounted, Uncounted, Capped, Same
  <2> QED
    BY <1>2, <2>2, <2>3, <2>4, <2>5, <2>6 DEF Alone
<1>11. ASSUME CurrentState(c) PROVE Alone(c)' /\ (FailuresCounted(c) => FailuresCounted(c)')
  <2>1. /\ pc[c] = "current" /\ Same(c)
        /\ UNCHANGED <<settings, state, expiry, counts, current, histVars>>
        /\ \/ state = "closed" /\ pc'[c] = "closed-check"
           \/ state = "open" /\ pc'[c] = "open-check"
           \/ state = "half" /\ pc'[c] = "return"
    BY <1>1, <1>11, Moves DEF CurrentState
  <2>2. Placed(c)'
    BY <1>1, <1>3, <2>1 DEF Placed, Asking, Same
  <2>3. Caused(c)'
    BY <1>1, <1>3, <2>1 DEF Placed, Asking, Caused, Same
  <2>4. CountsFollow(c)'
    BY <1>1, <1>3, <2>1 DEF Placed, Asking, CountsFollow, Uncounted, Capped, Same
  <2>5. ProbesCounted(c)'
    BY <1>1, <1>3, <2>1 DEF Placed, Asking, ProbesCounted, Capped, Same
  <2>6. FailuresCounted(c) => FailuresCounted(c)'
    BY <1>1, <1>3, <2>1 DEF Placed, Asking, FailuresCounted, Uncounted, Capped, Same
  <2> QED
    BY <1>2, <2>2, <2>3, <2>4, <2>5, <2>6 DEF Alone
<1>11a. ASSUME CheckClosed(c) PROVE Alone(c)' /\ (FailuresCounted(c) => FailuresCounted(c)')
  <2>1. /\ pc[c] = "closed-check" /\ Same(c)
        /\ UNCHANGED <<settings, state, expiry, counts, current, histVars>>
        /\ \/ expiry = "zero" /\ pc'[c] = "generation"
           \/ pc'[c] = "return"
    BY <1>1, <1>11a, Moves DEF CheckClosed
  <2>2. Placed(c)'
    BY <1>1, <1>3, <2>1 DEF Placed, Asking, Same
  <2>3. Caused(c)'
    BY <1>1, <1>3, <2>1 DEF Placed, Asking, Caused, Same
  <2>4. CountsFollow(c)'
    BY <1>1, <1>3, <2>1 DEF Placed, Asking, CountsFollow, Uncounted, Capped, Same
  <2>5. ProbesCounted(c)'
    BY <1>1, <1>3, <2>1 DEF Placed, Asking, ProbesCounted, Capped, Same
  <2>6. FailuresCounted(c) => FailuresCounted(c)'
    BY <1>1, <1>3, <2>1 DEF Placed, Asking, FailuresCounted, Uncounted, Capped, Same, ExpiryMatchesState, Changing, Alone
  <2> QED
    BY <1>2, <2>2, <2>3, <2>4, <2>5, <2>6 DEF Alone
<1>11b. ASSUME CheckOpen(c) PROVE Alone(c)' /\ (FailuresCounted(c) => FailuresCounted(c)')
  <2>1. /\ pc[c] = "open-check" /\ phase'[c] = phase[c] /\ result'[c] = result[c]
        /\ UNCHANGED <<settings, state, expiry, counts, current, histVars>>
        /\ \/ Past(expiry) /\ pc'[c] = "set" /\ target'[c] = "half"
           \/ pc'[c] = "return"
    BY <1>1, <1>11b, Moves DEF CheckOpen, Same
  <2>2. Past(expiry) => expiry = "timeout-past"
    BY <1>1, <2>1 DEF Alone, ExpiryMatchesState, Changing, Past, Placed
  <2>3. Placed(c)'
    BY <1>1, <1>3, <2>1, <2>2 DEF Placed, Asking, Same
  <2>4. Caused(c)'
    BY <1>1, <1>3, <2>1, <2>2 DEF Placed, Asking, Caused, Same
  <2>5. CountsFollow(c)'
    BY <1>1, <1>3, <2>1, <2>2 DEF Placed, Asking, CountsFollow, Uncounted, Capped, Same
  <2>6. ProbesCounted(c)'
    BY <1>1, <1>3, <2>1, <2>2 DEF Placed, Asking, ProbesCounted, Capped, Same
  <2>7. FailuresCounted(c) => FailuresCounted(c)'
    BY <1>1, <1>3, <2>1, <2>2 DEF Placed, Asking, FailuresCounted, Uncounted, Capped, Same
  <2> QED
    BY <1>2, <2>3, <2>4, <2>5, <2>6, <2>7 DEF Alone
<1>11c. ASSUME ReadState(c) PROVE Alone(c)' /\ (FailuresCounted(c) => FailuresCounted(c)')
  <2>1. /\ pc[c] = "return" /\ pc'[c] = "read-generation" /\ seen'[c] = state
        /\ phase'[c] = phase[c] /\ result'[c] = result[c]
        /\ UNCHANGED <<settings, state, expiry, counts, current, histVars>>
    BY <1>1, <1>11c, Moves DEF ReadState, TypeOK
  <2>2. Placed(c)'
    BY <1>1, <1>3, <2>1 DEF Placed, Asking, Same
  <2>3. Caused(c)'
    BY <1>1, <1>3, <2>1 DEF Placed, Asking, Caused, Same
  <2>4. CountsFollow(c)'
    BY <1>1, <1>3, <2>1 DEF Placed, Asking, CountsFollow, Uncounted, Capped, Same
  <2>5. ProbesCounted(c)'
    BY <1>1, <1>3, <2>1 DEF Placed, Asking, ProbesCounted, Capped, Same
  <2>6. FailuresCounted(c) => FailuresCounted(c)'
    BY <1>1, <1>3, <2>1 DEF Placed, Asking, FailuresCounted, Uncounted, Capped, Same
  <2> QED
    BY <1>2, <2>2, <2>3, <2>4, <2>5, <2>6 DEF Alone
<1>12. ASSUME SetState(c) PROVE Alone(c)' /\ (FailuresCounted(c) => FailuresCounted(c)')
  <2>1. /\ pc[c] = "set"
        /\ UNCHANGED <<settings, state, expiry, counts, current, histVars>>
        /\ \/ state # target[c] /\ pc'[c] = "write" /\ Same(c)
           \/ state = target[c]
    BY <1>1, <1>12, Moves DEF SetState
  <2>2. state # target[c]
    BY <1>1, <2>1 DEF Caused
  <2>3. Placed(c)'
    BY <1>1, <1>3, <2>1, <2>2 DEF Placed, Asking, Same, Caused
  <2>4. Caused(c)'
    BY <1>1, <1>3, <2>1, <2>2 DEF Placed, Asking, Caused, Same
  <2>5. CountsFollow(c)'
    BY <1>1, <1>3, <2>1, <2>2 DEF Placed, Asking, CountsFollow, Uncounted, Capped, Same
  <2>6. ProbesCounted(c)'
    BY <1>1, <1>3, <2>1, <2>2 DEF Placed, Asking, ProbesCounted, Capped, Same
  <2>7. FailuresCounted(c) => FailuresCounted(c)'
    BY <1>1, <1>3, <2>1, <2>2 DEF Placed, Asking, FailuresCounted, Uncounted, Capped, Same
  <2> QED
    BY <1>2, <2>3, <2>4, <2>5, <2>6, <2>7 DEF Alone
<1>13. ASSUME WriteState(c) PROVE Alone(c)' /\ (FailuresCounted(c) => FailuresCounted(c)')
  <2>1. /\ pc[c] = "write" /\ pc'[c] = "generation-set" /\ phase'[c] = phase[c]
        /\ result'[c] = result[c] /\ state' = target[c]
        /\ probes' = 0 /\ okRun' = 0 /\ failRun' = 0
        /\ UNCHANGED <<settings, expiry, counts, current>>
    BY <1>1, <1>13, Moves DEF WriteState, TypeOK
  <2>2. Placed(c)'
    BY <1>1, <1>3, <2>1 DEF Placed, Asking, Same, Caused
  <2>3. Caused(c)'
    BY <1>1, <1>3, <2>1 DEF Placed, Asking, Caused, Same
  <2>4. CountsFollow(c)'
    BY <1>1, <1>3, <2>1 DEF Placed, Asking, CountsFollow, Uncounted, Capped, Same
  <2>5. ProbesCounted(c)'
    BY <1>1, <1>3, <2>1 DEF Placed, Asking, ProbesCounted, Capped, Same
  <2>6. FailuresCounted(c) => FailuresCounted(c)'
    BY <1>1, <1>3, <2>1 DEF Placed, Asking, FailuresCounted, Uncounted, Capped, Same, Caused
  <2> QED
    BY <1>2, <2>2, <2>3, <2>4, <2>5, <2>6 DEF Alone
<1>14. ASSUME NewGeneration(c) PROVE Alone(c)' /\ (FailuresCounted(c) => FailuresCounted(c)')
  <2>1. /\ Same(c) /\ requests' = 0 /\ successes' = 0 /\ failures' = 0
        /\ \/ pc[c] = "generation" /\ pc'[c] = "return"
           \/ pc[c] = "generation-set" /\ pc'[c] = "notify"
        /\ UNCHANGED <<settings, state, histVars>>
    BY <1>1, <1>14, Moves DEF NewGeneration, Same, TypeOK, Goto
  <2>2. Placed(c)'
    BY <1>1, <1>3, <2>1 DEF Placed, Asking, Same
  <2>3. Caused(c)'
    BY <1>1, <1>3, <2>1 DEF Placed, Asking, Caused, Same
  <2>4. CountsFollow(c)'
    BY <1>1, <1>3, <2>1 DEF Placed, Asking, CountsFollow, Uncounted, Capped, Same
  <2>5. ProbesCounted(c)'
    BY <1>1, <1>3, <2>1 DEF Placed, Asking, ProbesCounted, Capped, Same
  <2>6. FailuresCounted(c) => FailuresCounted(c)'
    BY <1>1, <1>3, <2>1 DEF Placed, Asking, FailuresCounted, Uncounted, Capped, Same
  <2> QED
    BY <1>2, <2>2, <2>3, <2>4, <2>5, <2>6 DEF Alone
<1>15. ASSUME Notify(c) PROVE Alone(c)' /\ (FailuresCounted(c) => FailuresCounted(c)')
  <2>1. /\ pc[c] = "notify"
        /\ UNCHANGED <<settings, state, expiry, counts, current, histVars>>
        /\ \/ pc'[c] = "idle" /\ phase'[c] = "before"
           \/ phase[c] # "result" /\ pc'[c] = "return" /\ Same(c)
    BY <1>1, <1>15, Moves DEF Notify, AfterSet
  <2>2. Placed(c)'
    BY <1>1, <1>3, <2>1 DEF Placed, Asking, Same
  <2>3. Caused(c)'
    BY <1>1, <1>3, <2>1 DEF Placed, Asking, Caused, Same
  <2>4. CountsFollow(c)'
    BY <1>1, <1>3, <2>1 DEF Placed, Asking, CountsFollow, Uncounted, Capped, Same
  <2>5. ProbesCounted(c)'
    BY <1>1, <1>3, <2>1 DEF Placed, Asking, ProbesCounted, Capped, Same
  <2>6. FailuresCounted(c) => FailuresCounted(c)'
    BY <1>1, <1>3, <2>1 DEF Placed, Asking, FailuresCounted, Uncounted, Capped, Same
  <2> QED
    BY <1>2, <2>2, <2>3, <2>4, <2>5, <2>6 DEF Alone
<1>16. ASSUME ReturnAfter(c) PROVE Alone(c)' /\ (FailuresCounted(c) => FailuresCounted(c)')
  <2>1. /\ pc[c] = "read-generation" /\ phase[c] = "after"
        /\ UNCHANGED <<settings, state, expiry, counts, histVars>>
        /\ \/ /\ c \in current /\ seen[c] # "open" /\ pc'[c] = "count-load"
              /\ phase'[c] = "result" /\ seen'[c] = seen[c] /\ result'[c] = result[c]
           \/ c \notin current /\ pc'[c] = "idle" /\ phase'[c] = "before"
           \/ seen[c] = "open"
    BY <1>1, <1>16, Moves DEF ReturnAfter, TypeOK
  <2>2. Placed(c)'
    BY <1>1, <1>3, <2>1 DEF Placed, Asking, Same
  <2>3. Caused(c)'
    BY <1>1, <1>3, <2>1 DEF Placed, Asking, Caused, Same
  <2>4. CountsFollow(c)'
    BY <1>1, <1>3, <2>1 DEF Placed, Asking, CountsFollow, Uncounted, Capped, Same
  <2>5. ProbesCounted(c)'
    BY <1>1, <1>3, <2>1 DEF Placed, Asking, ProbesCounted, Capped, Same
  <2>6. FailuresCounted(c) => FailuresCounted(c)'
    BY <1>1, <1>3, <2>1 DEF Placed, Asking, FailuresCounted, Uncounted, Capped, Same
  <2> QED
    BY <1>2, <2>2, <2>3, <2>4, <2>5, <2>6 DEF Alone
<1>17. ASSUME LoadCount(c) PROVE Alone(c)' /\ (FailuresCounted(c) => FailuresCounted(c)')
  <2>1. /\ pc[c] = "count-load" /\ pc'[c] = "count-store"
        /\ loaded'[c] = (IF result[c] THEN successes ELSE failures)
        /\ phase'[c] = phase[c] /\ seen'[c] = seen[c] /\ result'[c] = result[c]
        /\ UNCHANGED <<settings, state, expiry, counts, current, histVars>>
    BY <1>1, <1>17, Moves DEF LoadCount, TypeOK
  <2>2. Placed(c)'
    BY <1>1, <1>3, <2>1 DEF Placed, Asking, Same
  <2>3. Caused(c)'
    BY <1>1, <1>3, <2>1 DEF Placed, Asking, Caused, Same
  <2>4. CountsFollow(c)'
    BY <1>1, <1>3, <2>1 DEF Placed, Asking, CountsFollow, Uncounted, Capped, Same
  <2>5. ProbesCounted(c)'
    BY <1>1, <1>3, <2>1 DEF Placed, Asking, ProbesCounted, Capped, Same
  <2>6. FailuresCounted(c) => FailuresCounted(c)'
    BY <1>1, <1>3, <2>1 DEF Placed, Asking, FailuresCounted, Uncounted, Capped, Same
  <2> QED
    BY <1>2, <2>2, <2>3, <2>4, <2>5, <2>6 DEF Alone
<1>18. ASSUME StoreCount(c) PROVE Alone(c)' /\ (FailuresCounted(c) => FailuresCounted(c)')
  <2>1. /\ pc[c] = "count-store" /\ pc'[c] = "judge"
        /\ phase'[c] = phase[c] /\ seen'[c] = seen[c] /\ result'[c] = result[c]
        /\ \/ result[c] /\ successes' = Capped(loaded[c] + 1, MaxRequests) /\ failures' = 0
           \/ ~result[c] /\ failures' = Capped(loaded[c] + 1, TripAfter) /\ successes' = 0
        /\ UNCHANGED <<settings, state, expiry, requests, current, histVars>>
    BY <1>1, <1>18, Moves DEF StoreCount, TypeOK
  <2>2. Placed(c)'
    BY <1>1, <1>3, <2>1 DEF Placed, Asking, Same
  <2>3. Caused(c)'
    BY <1>1, <1>3, <2>1 DEF Placed, Asking, Caused, Same
  <2>4. CountsFollow(c)'
    BY <1>1, <1>3, <2>1 DEF Placed, Asking, CountsFollow, Uncounted, Capped, Same
  <2>5. ProbesCounted(c)'
    BY <1>1, <1>3, <2>1 DEF Placed, Asking, ProbesCounted, Capped, Same
  <2>6. FailuresCounted(c) => FailuresCounted(c)'
    BY <1>1, <1>3, <2>1 DEF Placed, Asking, FailuresCounted, Uncounted, Capped, Same, CountsFollow
  <2> QED
    BY <1>2, <2>2, <2>3, <2>4, <2>5, <2>6 DEF Alone
<1>19. ASSUME OnSuccess(c) PROVE Alone(c)' /\ (FailuresCounted(c) => FailuresCounted(c)')
  <2>1. /\ pc[c] = "judge" /\ result[c]
        /\ UNCHANGED <<settings, state, expiry, counts, current, histVars>>
        /\ \/ /\ seen[c] = "half" /\ successes > MaxRequests
              /\ pc'[c] = "set" /\ target'[c] = "closed" /\ phase'[c] = phase[c]
           \/ pc'[c] = "idle" /\ phase'[c] = "before"
    BY <1>1, <1>19, Moves DEF OnSuccess
  <2>2. Placed(c)'
    BY <1>1, <1>3, <2>1 DEF Placed, Asking, Same
  <2>3. Caused(c)'
    BY <1>1, <1>3, <2>1 DEF Placed, Asking, Caused, Same, CountsFollow, Uncounted
  <2>4. CountsFollow(c)'
    BY <1>1, <1>3, <2>1 DEF Placed, Asking, CountsFollow, Uncounted, Capped, Same
  <2>5. ProbesCounted(c)'
    BY <1>1, <1>3, <2>1 DEF Placed, Asking, ProbesCounted, Capped, Same
  <2>6. FailuresCounted(c) => FailuresCounted(c)'
    BY <1>1, <1>3, <2>1 DEF Placed, Asking, FailuresCounted, Uncounted, Capped, Same
  <2> QED
    BY <1>2, <2>2, <2>3, <2>4, <2>5, <2>6 DEF Alone
<1>20. ASSUME OnFail(c) PROVE Alone(c)' /\ (FailuresCounted(c) => FailuresCounted(c)')
  <2>1. /\ pc[c] = "judge" /\ ~result[c]
        /\ UNCHANGED <<settings, state, expiry, counts, current, histVars>>
        /\ \/ /\ failures > TripAfter
              /\ pc'[c] = "set" /\ target'[c] = "open" /\ phase'[c] = phase[c]
           \/ failures <= TripAfter /\ pc'[c] = "idle" /\ phase'[c] = "before"
    BY <1>1, <1>20, Moves DEF OnFail
  <2>2. Placed(c)'
    BY <1>1, <1>3, <2>1 DEF Placed, Asking, Same
  <2>3. Caused(c)'
    BY <1>1, <1>3, <2>1 DEF Placed, Asking, Caused, Same, CountsFollow, Uncounted
  <2>4. CountsFollow(c)'
    BY <1>1, <1>3, <2>1 DEF Placed, Asking, CountsFollow, Uncounted, Capped, Same
  <2>5. ProbesCounted(c)'
    BY <1>1, <1>3, <2>1 DEF Placed, Asking, ProbesCounted, Capped, Same
  <2>6. FailuresCounted(c) => FailuresCounted(c)'
    BY <1>1, <1>3, <2>1 DEF Placed, Asking, FailuresCounted, Uncounted, Capped, Same
  <2> QED
    BY <1>2, <2>2, <2>3, <2>4, <2>5, <2>6 DEF Alone
<1>21. CASE ExpiryPasses
  <2>1. /\ UNCHANGED <<settings, state, counts, pc, callerVars, current, histVars>>
        /\ expiry = "timeout-past" => FALSE
    BY <1>21 DEF ExpiryPasses
  <2> QED
    BY <1>1, <1>2, <2>1 DEF Alone, Placed, Asking, Caused, CountsFollow, Uncounted, ProbesCounted, FailuresCounted
<1>22. CASE UNCHANGED vars
  BY <1>1, <1>2, <1>22 DEF vars, Alone, Placed, Asking, Caused, CountsFollow, Uncounted, ProbesCounted, FailuresCounted
<1>23. CASE \E d \in Callers : Execute(d) \/ Step(d)
  <2>1. Execute(c) \/ Step(c)
    BY <1>23
  <2> QED
    BY <2>1, <1>4, <1>5, <1>6, <1>7, <1>8, <1>9, <1>10, <1>11, <1>11a, <1>11b, <1>11c,
       <1>12, <1>13, <1>14, <1>15, <1>16, <1>17, <1>18, <1>19, <1>20 DEF Step
<1> QED
  BY <1>21, <1>22, <1>23 DEF Next

LEMMA InitAlone ==
  ASSUME NEW c, Callers = {c}, Init
  PROVE  Alone(c) /\ (interval = "positive" => FailuresCounted(c))
<1> USE MaxRequestsAssumption, TripAfterAssumption
<1>1. /\ c \in Callers /\ pc[c] = "idle" /\ phase[c] = "before" /\ state = "closed"
      /\ requests = 0 /\ successes = 0 /\ failures = 0
      /\ probes = 0 /\ okRun = 0 /\ failRun = 0
  BY DEF Init
<1>2. TypeOK
  BY InitType
<1>3. ExpiryMatchesState
  BY DEF Init, ExpiryMatchesState
<1> QED
  BY <1>1, <1>2, <1>3 DEF Alone, Placed, Asking, Caused, CountsFollow, Uncounted, ProbesCounted,
     FailuresCounted

(* One goroutine alone: its counts follow the results it had, and a change *)
(* of state under way has its cause.                                       *)
THEOREM AloneCorrect ==
  ASSUME NEW c, Callers = {c}
  PROVE  Spec => []Alone(c)
<1>1. Init => Alone(c)
  BY InitAlone
<1>2. Alone(c) /\ [Next]_vars => Alone(c)'
  BY AloneStep
<1> QED
  BY <1>1, <1>2, PTL DEF Spec

(* With one caller at most MaxRequests + 1 requests return half-open,      *)
(* since each is counted by OnRequest before the next is let through.      *)
THEOREM ProbesCorrect ==
  ASSUME NEW c, Callers = {c}
  PROVE  Spec => []ProbesBounded
<1>1. Alone(c) => ProbesBounded
  <2> SUFFICES ASSUME Alone(c) PROVE ProbesBounded
    OBVIOUS
  <2>1. /\ requests \in 0..MaxRequests + 1 /\ probes \in Nat /\ state \in States
        /\ ProbesCounted(c) /\ MaxRequests \in Nat
    BY MaxRequestsAssumption DEF Alone, TypeOK
  <2> QED
    BY <2>1 DEF ProbesCounted, ProbesBounded
<1> QED
  BY <1>1, AloneCorrect, PTL

(* With one caller the state changes only for the reasons of the settings: *)
(* failures or successes in a row, or the timeout of the open state.       *)
THEOREM ChangesCorrect ==
  ASSUME NEW c, Callers = {c}
  PROVE  Spec => ChangesJustified
<1> DEFINE Justified ==
             state' # state =>
               \/ state = "closed" /\ state' = "open" /\ failRun > TripAfter
               \/ state = "open" /\ state' = "half" /\ expiry = "timeout-past"
               \/ state = "half" /\ state' = "closed" /\ okRun > MaxRequests
               \/ state = "half" /\ state' = "open" /\ failRun > TripAfter
<1>1. Alone(c) /\ [Next]_vars => [Justified]_vars
  <2> SUFFICES ASSUME Alone(c), [Next]_vars, state' # state PROVE Justified
    OBVIOUS
  <2>1. WriteState(c)
    <3>1. CASE ExpiryPasses
      BY <3>1 DEF ExpiryPasses
    <3>2. CASE Execute(c) \/ Step(c)
      BY <3>2 DEF Execute, Step, ReturnBefore, TooManyRequests, Probe, Request,
         LoadRequests, StoreRequests, CurrentState, CheckClosed, CheckOpen, ReadState,
         SetState, NewGeneration, Notify,
         ReturnAfter, LoadCount, StoreCount, OnSuccess, OnFail
    <3>3. CASE UNCHANGED vars
      BY <3>3 DEF vars
    <3> QED
      BY <3>1, <3>2, <3>3 DEF Next
  <2>2. pc[c] = "write" /\ state' = target[c] /\ Caused(c) /\ state \in States
    BY <2>1 DEF WriteState, Alone, TypeOK
  <2> QED
    BY <2>2 DEF Caused, States
<1> QED
  BY <1>1, AloneCorrect, PTL DEF Spec, ChangesJustified

(* With one caller and an interval more than TripAfter failures in a row   *)
(* open the breaker (with the default interval of zero they do not).       *)
THEOREM FailuresTripCorrect ==
  ASSUME NEW c, Callers = {c}, Intervals = {"positive"}
  PROVE  Spec => []FailuresTrip
<1> DEFINE I == Alone(c) /\ FailuresCounted(c)
<1>1. Init => I
  BY InitAlone DEF Init
<1>2. I /\ [Next]_vars => I'
  BY AloneStep
<1>3. I => FailuresTrip
  <2> SUFFICES ASSUME I, Quiet PROVE ~(failRun > TripAfter)
    BY DEF FailuresTrip
  <2>1. c \in Callers /\ pc[c] = "idle" /\ phase[c] = "before"
    BY DEF Quiet, Alone, Placed
  <2>2. failures \in Nat /\ failRun = failures /\ failures <= TripAfter
    BY <2>1 DEF FailuresCounted, Uncounted, Alone, TypeOK
  <2> QED
    BY <2>2, TripAfterAssumption
<1> QED
  BY <1>1, <1>2, <1>3, PTL DEF Spec
=============================================================================
