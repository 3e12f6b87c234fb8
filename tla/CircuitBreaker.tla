--------------------------- MODULE CircuitBreaker ---------------------------
(***************************************************************************)
(* The circuit breaker of breaker/breaker.go, used by any number of        *)
(* goroutines, each calling Execute over and over.                         *)
(*                                                                         *)
(* Only NewGeneration takes cb.mutex. It is one step: two do not overlap,  *)
(* and what another caller could see between its assignments, a new        *)
(* generation with old counts, is left out. Every other read and write of  *)
(* state, expiry, generation and of a count that is compared is a step of  *)
(* its own, an increment a load and a store, so another caller can come in *)
(* between any two. The two reads of the expiry in `IsZero() &&            *)
(* Before(now)` are one: an expiry set between them lies after now, so the *)
(* condition is true when both reads find zero and what the later one      *)
(* finds decides. Time is abstracted to whether the expiry has passed. A   *)
(* counter matters only through one comparison and saturates just above    *)
(* it: Requests and ConsecutiveSuccesses at MaxRequests + 1,               *)
(* ConsecutiveFailures at TripAfter + 1. Generations matter only through   *)
(* equality: current holds the callers whose generation is still the last. *)
(***************************************************************************)
EXTENDS Naturals, FiniteSets

CONSTANTS Callers,      \* the goroutines that use the breaker
          MaxRequests,  \* maxRequests, at least 1 by NewCircuitBreaker
          TripAfter,    \* readyToTrip is ConsecutiveFailures > TripAfter
          Intervals,    \* the values of interval: "zero", "positive"
          Handlers      \* whether OnStateChange is set

ASSUME MaxRequestsAssumption == MaxRequests \in Nat \ {0}
ASSUME TripAfterAssumption   == TripAfter \in Nat
ASSUME SettingsAssumption    == /\ Intervals \subseteq {"zero", "positive"}
                                /\ Handlers \subseteq BOOLEAN

VARIABLES
  interval, handler,  \* the settings, fixed by NewCircuitBreaker
  state,              \* "closed", "open", "half"
  expiry,             \* "zero", or what it was set with, and whether it passed
  requests, successes, failures,  \* the counts that are compared
  pc, phase,          \* where each caller is, and in which part of Execute
  target,             \* the argument of its SetState
  seen,               \* the state currentState has read to return it
  result,             \* whether its request succeeded
  loaded,             \* the value its increment has loaded
  current,            \* the callers whose generation is the breaker's
  probes,             \* requests that returned since half-open was entered (history)
  okRun, failRun      \* last results in a row since the last change (history)

settings   == <<interval, handler>>
counts     == <<requests, successes, failures>>
callerVars == <<phase, target, seen, result, loaded>>
histVars   == <<probes, okRun, failRun>>
vars == <<interval, handler, state, expiry, requests, successes, failures, pc,
          phase, target, seen, result, loaded, current, probes, okRun, failRun>>

States   == {"closed", "open", "half"}
Expiries == {"zero", "interval", "interval-past", "timeout", "timeout-past"}
Pcs      == {"idle", "current", "closed-check", "open-check", "set", "write",
             "generation", "generation-set", "notify", "return",
             "read-generation", "probe", "request", "load", "store",
             "count-load", "count-store", "judge"}

Capped(n, bound) == IF n > bound THEN bound + 1 ELSE n

Past(e) == e \in {"zero", "interval-past", "timeout-past"}

(* NewCircuitBreaker *)
Init ==
  /\ interval \in Intervals /\ handler \in Handlers
  /\ state = "closed"
  /\ expiry = IF interval = "zero" THEN "zero" ELSE "interval"
  /\ requests = 0 /\ successes = 0 /\ failures = 0
  /\ pc = [c \in Callers |-> "idle"]
  /\ phase = [c \in Callers |-> "before"]
  /\ target = [c \in Callers |-> "closed"]
  /\ seen = [c \in Callers |-> "closed"]
  /\ result = [c \in Callers |-> TRUE]
  /\ loaded = [c \in Callers |-> 0]
  /\ current = {}
  /\ probes = 0 /\ okRun = 0 /\ failRun = 0

Goto(c, l) == pc' = [pc EXCEPT ![c] = l]

(* The call is over; what it knew is forgotten. *)
Finish(c) ==
  /\ Goto(c, "idle")
  /\ phase' = [phase EXCEPT ![c] = "before"]
  /\ target' = [target EXCEPT ![c] = "closed"]
  /\ seen' = [seen EXCEPT ![c] = "closed"]
  /\ result' = [result EXCEPT ![c] = TRUE]
  /\ loaded' = [loaded EXCEPT ![c] = 0]

(* The call goes on with what it knows. *)
Continue(c, l) == Goto(c, l) /\ UNCHANGED callerVars

(* The call goes into SetState(s). *)
ToSet(c, s) ==
  /\ Goto(c, "set")
  /\ target' = [target EXCEPT ![c] = s]
  /\ UNCHANGED <<phase, seen, result, loaded>>

-----------------------------------------------------------------------------
(* Execute and beforeRequest *)

Execute(c) ==
  /\ pc[c] = "idle"
  /\ Continue(c, "current")
  /\ UNCHANGED <<settings, state, expiry, counts, current, histVars>>

(* beforeRequest has the state it was returned, by now perhaps an old one, *)
(* and reads the generation; an error ends the call (the fallback does not *)
(* touch the breaker).                                                     *)
LetThrough(c, l) ==
  /\ Goto(c, l)
  /\ seen' = [seen EXCEPT ![c] = "closed"]
  /\ UNCHANGED <<phase, target, result, loaded>>

ReturnBefore(c) ==
  /\ pc[c] = "read-generation" /\ phase[c] = "before"
  /\ current' = current \cup {c}
  /\ \/ seen[c] = "open"   /\ Finish(c)
     \/ seen[c] = "half"   /\ LetThrough(c, "probe")
     \/ seen[c] = "closed" /\ LetThrough(c, "request")
  /\ UNCHANGED <<settings, state, expiry, counts, histVars>>

TooManyRequests(c) ==
  /\ pc[c] = "probe" /\ requests > MaxRequests
  /\ Finish(c)
  /\ UNCHANGED <<settings, state, expiry, counts, current, histVars>>

(* Mutant: one more request than the check allows. *)
MutProbe(c) ==
  /\ pc[c] = "probe" /\ requests <= MaxRequests + 1
  /\ Continue(c, "request")
  /\ UNCHANGED <<settings, state, expiry, counts, current, histVars>>

Probe(c) ==
  /\ pc[c] = "probe" /\ requests <= MaxRequests
  /\ Continue(c, "request")
  /\ UNCHANGED <<settings, state, expiry, counts, current, histVars>>

(* req() returns and isSuccessful classifies its error, or req() panics    *)
(* out of Execute, which counts nothing.                                   *)
Request(c) ==
  /\ pc[c] = "request"
  /\ \/ /\ \E ok \in BOOLEAN :
             /\ result' = [result EXCEPT ![c] = ok]
             /\ okRun' = IF ok THEN Capped(okRun + 1, MaxRequests) ELSE 0
             /\ failRun' = IF ok THEN 0 ELSE Capped(failRun + 1, TripAfter)
        /\ probes' = IF state = "half" THEN Capped(probes + 1, MaxRequests + 1)
                     ELSE probes
        /\ Goto(c, "load")
        /\ UNCHANGED <<phase, target, seen, loaded>>
     \/ Finish(c) /\ UNCHANGED <<probes, okRun, failRun>>
  /\ UNCHANGED <<settings, state, expiry, counts, current>>

(* counts.OnRequest() *)
LoadRequests(c) ==
  /\ pc[c] = "load"
  /\ loaded' = [loaded EXCEPT ![c] = requests]
  /\ Goto(c, "store")
  /\ UNCHANGED <<settings, state, expiry, counts, phase, target, seen, result,
                 current, histVars>>

StoreRequests(c) ==
  /\ pc[c] = "store"
  /\ requests' = Capped(loaded[c] + 1, MaxRequests)
  /\ loaded' = [loaded EXCEPT ![c] = 0]
  /\ Goto(c, "current")
  /\ phase' = [phase EXCEPT ![c] = "after"]
  /\ UNCHANGED <<settings, state, expiry, successes, failures, target, seen,
                 result, current, histVars>>

-----------------------------------------------------------------------------
(* currentState, SetState and NewGeneration *)

(* The switch of currentState reads the state. *)
CurrentState(c) ==
  /\ pc[c] = "current"
  /\ \/ state = "closed" /\ Continue(c, "closed-check")
     \/ state = "open"   /\ Continue(c, "open-check")
     \/ state = "half"   /\ Continue(c, "return")
  /\ UNCHANGED <<settings, state, expiry, counts, current, histVars>>

(* Its closed case renews the generation when the expiry is zero, that is  *)
(* at every call when interval is 0 and otherwise only when the breaker    *)
(* has gone half-open since the state was read.                            *)
CheckClosed(c) ==
  /\ pc[c] = "closed-check"
  /\ Continue(c, IF expiry = "zero" THEN "generation" ELSE "return")
  /\ UNCHANGED <<settings, state, expiry, counts, current, histVars>>

(* Mutant: an open breaker waits for a zero expiry, as a closed one does. *)
MutCheckOpen(c) ==
  /\ pc[c] = "open-check"
  /\ \/ expiry = "zero" /\ ToSet(c, "half")
     \/ expiry # "zero" /\ Continue(c, "return")
  /\ UNCHANGED <<settings, state, expiry, counts, current, histVars>>

(* Its open case goes half-open when the expiry has passed, as a zero one  *)
(* has.                                                                    *)
CheckOpen(c) ==
  /\ pc[c] = "open-check"
  /\ \/ Past(expiry)  /\ ToSet(c, "half")
     \/ ~Past(expiry) /\ Continue(c, "return")
  /\ UNCHANGED <<settings, state, expiry, counts, current, histVars>>

(* `return cb.state, cb.generation`: the state now, the generation next. *)
ReadState(c) ==
  /\ pc[c] = "return"
  /\ Goto(c, "read-generation")
  /\ seen' = [seen EXCEPT ![c] = state]
  /\ UNCHANGED <<settings, state, expiry, counts, phase, target, result, loaded,
                 current, histVars>>

(* Back from SetState to currentState or, with the result counted, out. *)
AfterSet(c) ==
  \/ phase[c] = "result" /\ Finish(c)
  \/ phase[c] # "result" /\ Continue(c, "return")

SetState(c) ==
  /\ pc[c] = "set"
  /\ \/ state = target[c] /\ AfterSet(c)
     \/ state # target[c] /\ Continue(c, "write")
  /\ UNCHANGED <<settings, state, expiry, counts, current, histVars>>

(* The state changes here, its counts and its expiry a step later. *)
WriteState(c) ==
  /\ pc[c] = "write"
  /\ state' = target[c]
  /\ Goto(c, "generation-set")
  /\ target' = [target EXCEPT ![c] = "closed"]
  /\ probes' = 0 /\ okRun' = 0 /\ failRun' = 0
  /\ UNCHANGED <<settings, expiry, counts, phase, seen, result, loaded, current>>

(* Mutant: half-open keeps the expiry of the open state. *)
MutNextExpiry ==
  CASE state = "closed" -> IF interval = "zero" THEN "zero" ELSE "interval"
    [] state = "open"   -> "timeout"
    [] state = "half"   -> expiry

(* What NewGeneration sets the expiry to. *)
NextExpiry ==
  CASE state = "closed" -> IF interval = "zero" THEN "zero" ELSE "interval"
    [] state = "open"   -> "timeout"
    [] state = "half"   -> "zero"

NewGeneration(c) ==
  /\ pc[c] \in {"generation", "generation-set"}
  /\ requests' = 0 /\ successes' = 0 /\ failures' = 0
  /\ expiry' = NextExpiry
  /\ current' = {}
  /\ Goto(c, IF pc[c] = "generation" THEN "return" ELSE "notify")
  /\ UNCHANGED <<settings, state, callerVars, histVars>>

(* The test is inverted: a nil handler is called, which panics out of      *)
(* Execute, and a handler that is set is not called.                       *)
Notify(c) ==
  /\ pc[c] = "notify"
  /\ \/ handler /\ AfterSet(c)
     \/ ~handler /\ Finish(c)
  /\ UNCHANGED <<settings, state, expiry, counts, current, histVars>>

-----------------------------------------------------------------------------
(* afterRequest, OnSuccess and OnFail *)

(* A result of an older generation is dropped, one returned an open state  *)
(* does nothing.                                                           *)
ReturnAfter(c) ==
  /\ pc[c] = "read-generation" /\ phase[c] = "after"
  /\ \/ /\ c \in current /\ seen[c] # "open"
        /\ Goto(c, "count-load")
        /\ phase' = [phase EXCEPT ![c] = "result"]
        /\ UNCHANGED <<target, seen, result, loaded>>
     \/ /\ c \notin current \/ seen[c] = "open"
        /\ Finish(c)
  /\ current' = current \ {c}
  /\ UNCHANGED <<settings, state, expiry, counts, histVars>>

LoadCount(c) ==
  /\ pc[c] = "count-load"
  /\ loaded' = [loaded EXCEPT ![c] = IF result[c] THEN successes ELSE failures]
  /\ Goto(c, "count-store")
  /\ UNCHANGED <<settings, state, expiry, counts, phase, target, seen, result,
                 current, histVars>>

(* Mutant: a failure takes one off the successes. *)
MutStoreCount(c) ==
  /\ pc[c] = "count-store"
  /\ \/ /\ result[c]
        /\ successes' = Capped(loaded[c] + 1, MaxRequests) /\ failures' = 0
     \/ /\ ~result[c]
        /\ failures' = Capped(loaded[c] + 1, TripAfter)
        /\ successes' = successes - 1
  /\ loaded' = [loaded EXCEPT ![c] = 0]
  /\ Goto(c, "judge")
  /\ UNCHANGED <<settings, state, expiry, requests, phase, target, seen, result,
                 current, histVars>>

(* Counts.OnSuccess and Counts.OnFail, on the loaded value. *)
StoreCount(c) ==
  /\ pc[c] = "count-store"
  /\ \/ /\ result[c]
        /\ successes' = Capped(loaded[c] + 1, MaxRequests) /\ failures' = 0
     \/ /\ ~result[c]
        /\ failures' = Capped(loaded[c] + 1, TripAfter) /\ successes' = 0
  /\ loaded' = [loaded EXCEPT ![c] = 0]
  /\ Goto(c, "judge")
  /\ UNCHANGED <<settings, state, expiry, requests, phase, target, seen, result,
                 current, histVars>>

(* Mutant: closes one success early. *)
MutOnSuccess(c) ==
  /\ pc[c] = "judge" /\ result[c]
  /\ \/ seen[c] = "half" /\ successes >= MaxRequests /\ ToSet(c, "closed")
     \/ ~(seen[c] = "half" /\ successes >= MaxRequests) /\ Finish(c)
  /\ UNCHANGED <<settings, state, expiry, counts, current, histVars>>

OnSuccess(c) ==
  /\ pc[c] = "judge" /\ result[c]
  /\ \/ seen[c] = "half" /\ successes > MaxRequests /\ ToSet(c, "closed")
     \/ ~(seen[c] = "half" /\ successes > MaxRequests) /\ Finish(c)
  /\ UNCHANGED <<settings, state, expiry, counts, current, histVars>>

(* Mutant: trips only from half-open. *)
MutOnFail(c) ==
  /\ pc[c] = "judge" /\ ~result[c]
  /\ \/ seen[c] = "half" /\ failures > TripAfter /\ ToSet(c, "open")
     \/ ~(seen[c] = "half" /\ failures > TripAfter) /\ Finish(c)
  /\ UNCHANGED <<settings, state, expiry, counts, current, histVars>>

OnFail(c) ==
  /\ pc[c] = "judge" /\ ~result[c]
  /\ \/ failures > TripAfter /\ ToSet(c, "open")
     \/ failures <= TripAfter /\ Finish(c)
  /\ UNCHANGED <<settings, state, expiry, counts, current, histVars>>

-----------------------------------------------------------------------------
(* The clock passes the expiry. *)
ExpiryPasses ==
  /\ \/ expiry = "interval" /\ expiry' = "interval-past"
     \/ expiry = "timeout" /\ expiry' = "timeout-past"
  /\ UNCHANGED <<settings, state, counts, pc, callerVars, current, histVars>>

Step(c) ==
  \/ ReturnBefore(c) \/ TooManyRequests(c) \/ Probe(c) \/ Request(c)
  \/ LoadRequests(c) \/ StoreRequests(c)
  \/ CurrentState(c) \/ CheckClosed(c) \/ CheckOpen(c) \/ ReadState(c)
  \/ SetState(c) \/ WriteState(c) \/ NewGeneration(c) \/ Notify(c)
  \/ ReturnAfter(c) \/ LoadCount(c) \/ StoreCount(c) \/ OnSuccess(c) \/ OnFail(c)

Next == ExpiryPasses \/ \E c \in Callers : Execute(c) \/ Step(c)

Spec == Init /\ [][Next]_vars

(* Every goroutine runs, requests end, time passes, calls keep coming.     *)
FairSpec == /\ Spec
            /\ WF_vars(ExpiryPasses)
            /\ \A c \in Callers : WF_vars(Execute(c)) /\ WF_vars(Step(c))

-----------------------------------------------------------------------------
(* Properties *)

(* The types of the variables; no counter underflows or passes its bound. *)
TypeOK ==
  /\ interval \in {"zero", "positive"} /\ handler \in BOOLEAN
  /\ state \in States /\ expiry \in Expiries
  /\ requests \in 0..MaxRequests + 1 /\ successes \in 0..MaxRequests + 1
  /\ failures \in 0..TripAfter + 1
  /\ pc \in [Callers -> Pcs]
  /\ phase \in [Callers -> {"before", "after", "result"}]
  /\ target \in [Callers -> States] /\ seen \in [Callers -> States]
  /\ result \in [Callers -> BOOLEAN] /\ loaded \in [Callers -> Nat]
  /\ current \subseteq Callers
  /\ probes \in Nat /\ okRun \in Nat /\ failRun \in Nat

(* A caller is between its write of the state and its new generation. *)
Changing == \E c \in Callers : pc[c] = "generation-set"

(* When every change of state has got its new generation, the expiry is    *)
(* one NewGeneration sets for that state, in whatever order racing calls   *)
(* of SetState wrote the state and called NewGeneration.                   *)
ExpiryMatchesState ==
  ~Changing =>
    /\ state = "closed" =>
         IF interval = "zero" THEN expiry = "zero"
         ELSE expiry \in {"interval", "interval-past"}
    /\ state = "open" => expiry \in {"timeout", "timeout-past"}
    /\ state = "half" => expiry = "zero"

(* No call of Execute is in progress. *)
Quiet == \A c \in Callers : pc[c] = "idle"

(* A half-open breaker found with its requests spent and no call in        *)
(* progress is lost: whatever calls come and whatever time passes, it      *)
(* stays half-open and lets no request through.  (A call in progress may   *)
(* still help it out: its result may close or open it, and one that read   *)
(* the closed state long ago renews the generation and clears the count.)  *)
Spent == Quiet /\ state = "half" /\ requests > MaxRequests

Lost == state = "half" /\ \A c \in Callers : pc[c] # "request"

SpentIsLost == [](Spent => []Lost)

(* With one caller the state changes only for cause: more than TripAfter   *)
(* failures in a row since the last change, the timeout of this opening,   *)
(* more than MaxRequests successes in a row since half-open was entered.   *)
ChangesJustified ==
  [][state' # state =>
       \/ state = "closed" /\ state' = "open"   /\ failRun > TripAfter
       \/ state = "open"   /\ state' = "half"   /\ expiry = "timeout-past"
       \/ state = "half"   /\ state' = "closed" /\ okRun > MaxRequests
       \/ state = "half"   /\ state' = "open"   /\ failRun > TripAfter]_vars

(* With one caller at most MaxRequests + 1 requests return from half-open. *)
ProbesBounded == probes <= MaxRequests + 1

(* As the comments of Counts and Settings have it, failures in a row are   *)
(* counted and readyToTrip opens the breaker: between calls, more than     *)
(* TripAfter failed requests in a row have not left it closed.             *)
FailuresTrip == Quiet /\ failRun > TripAfter => state # "closed"

(* While calls keep coming an open breaker is probed after its timeout. *)
OpenIsProbed == state = "open" ~> state # "open"
=============================================================================
