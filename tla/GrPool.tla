------------------------------- MODULE GrPool -------------------------------
(***************************************************************************)
(* The goroutine pool of grpool/pool.go and grpool/worker.go.              *)
(*                                                                         *)
(* A client goroutine calls Submit once per element of Calls; the call     *)
(* also names the task it submits.  A call starts at most one goroutine    *)
(* (Worker.running) and allocates at most one Worker, so both are named by *)
(* the call.  A Worker popped from workerCache may be served by several    *)
(* goroutines; gw[g] is the Worker goroutine g was started for.            *)
(*                                                                         *)
(* Time is abstracted: a tick may come at any moment, and the sweep may    *)
(* find any prefix of the idle list expired.  Critical sections that do    *)
(* not block are one step guarded by lock = None; only the sweep, which    *)
(* sends on channels while it holds the mutex, is split.                   *)
(***************************************************************************)
EXTENDS Integers, Sequences, FiniteSets

CONSTANTS Calls,      \* the calls of Submit, each made once
          Restarts,   \* the calls of Restart, each made once
          Cap,        \* Pool.cap
          Boot,       \* the expireWorker goroutine NewTimePool starts
          Nil,        \* the nil func sent to end a worker
          None        \* nothing

ASSUME CapAssumption == Cap \in Nat \ {0}
ASSUME NamesAssumption == /\ Nil \notin Calls /\ None \notin Calls /\ Nil # None
                          /\ Boot \notin Restarts /\ None \notin Restarts
                          /\ None # Boot
ASSUME CallsAssumption == IsFiniteSet(Calls)

VARIABLES
  pc,        \* where each call of Submit is
  held,      \* the Worker a call has got and not yet sent to
  running,   \* Pool.running
  idle,      \* Pool.workers
  cache,     \* Pool.workerCache: how many times each Worker is in it
  waitq,     \* Pool.cond: the waiting calls, oldest first
  task,      \* Worker.task: the content of the channel of capacity 1
  detached,  \* the Workers whose task and pool fields Release set to nil
  gpc,       \* where the goroutine started by each call is
  gw,        \* its Worker
  gf,        \* the task it is executing
  lock,      \* who holds Pool.lock across steps: None or a sweeper
  epc,       \* where each expireWorker goroutine is
  once,      \* Pool.once and the progress of the only effective Release
  release,   \* len(Pool.release)
  rpc,       \* where each call of Restart is
  crashed,   \* an unrecovered nil dereference ended the program
  starts,    \* how many times each task was started (history)
  ends,      \* how many times each task ended (history)
  raced      \* two calls were between the capacity check and incRunning (history)

callVars  == <<pc, held>>
workVars  == <<task, detached>>
goVars    == <<gpc, gw, gf>>
poolVars  == <<running, idle, cache, waitq>>
sysVars   == <<lock, epc, once, release, rpc, crashed>>
auxVars   == <<starts, ends, raced>>
vars == <<pc, held, running, idle, cache, waitq, task, detached, gpc, gw, gf,
          lock, epc, once, release, rpc, crashed, starts, ends, raced>>

Expirers == {Boot} \cup Restarts

CallPcs == {"new", "get", "full", "wait", "woken", "recheck", "fetch", "run",
            "offer", "sending", "accepted", "closed", "hung"}
SweepPcs   == {"none", "ticker", "tick", "sweep", "expire", "exited"}
RestartPcs == {"new", "open", "recv", "reopened"}
GoPcs   == {"none", "start", "recv", "busy", "put", "nil", "dec", "cache",
            "signal", "done", "stuck"}

(* Go's sync.Cond is FIFO: Signal wakes the call that has waited longest.  *)
Signal ==
  \/ waitq = <<>> /\ UNCHANGED <<waitq, pc>>
  \/ /\ waitq # <<>>
     /\ waitq' = Tail(waitq)
     /\ pc' = [pc EXCEPT ![Head(waitq)] = "woken"]

Starting == {c \in Calls : pc[c] \in {"fetch", "run"}}

Init ==
  /\ pc = [c \in Calls |-> "new"]
  /\ held = [c \in Calls |-> None]
  /\ running = 0
  /\ idle = <<>>
  /\ cache = [w \in Calls |-> 0]
  /\ waitq = <<>>
  /\ task = [w \in Calls |-> None]
  /\ detached = {}
  /\ gpc = [g \in Calls |-> "none"]
  /\ gw = [g \in Calls |-> None]
  /\ gf = [g \in Calls |-> None]
  /\ lock = None
  /\ epc = [e \in Expirers |-> IF e = Boot THEN "ticker" ELSE "none"]
  /\ once = "no"
  /\ release = 0
  /\ rpc = [r \in Restarts |-> "new"]
  /\ crashed = FALSE
  /\ starts = [t \in Calls |-> 0]
  /\ ends = [t \in Calls |-> 0]
  /\ raced = FALSE

-----------------------------------------------------------------------------
(* A goroutine takes its next step only while the program runs. *)
CallIn(c, l)  == ~crashed /\ pc[c] = l
GoIn(g, l)    == ~crashed /\ gpc[g] = l
SweepIn(e, l) == ~crashed /\ epc[e] = l

-----------------------------------------------------------------------------
(* Submit, GetWorker, waitIdleWorker *)

At(c, l) == pc' = [pc EXCEPT ![c] = l]

(* A step of a call that only moves its control. *)
Move(c, l) ==
  /\ At(c, l)
  /\ UNCHANGED <<held, poolVars, workVars, goVars, sysVars, auxVars>>

(* Mutant: closed from the moment Release begins, not from its signal on. *)
MutSubmit(c) ==
  CallIn(c, "new") /\ Move(c, IF once # "no" THEN "closed" ELSE "get")

Submit(c) ==
  /\ CallIn(c, "new")
  /\ Move(c, IF release > 0 THEN "closed" ELSE "get")

(* Mutant: the Worker taken stays in the list. *)
MutPopIdle(c) ==
  /\ idle # <<>>
  /\ held' = [held EXCEPT ![c] = idle[Len(idle)]]
  /\ At(c, "offer")
  /\ UNCHANGED <<poolVars, workVars, goVars, sysVars, auxVars>>

(* Take the Worker put back last. *)
PopIdle(c) ==
  /\ idle # <<>>
  /\ held' = [held EXCEPT ![c] = idle[Len(idle)]]
  /\ idle' = SubSeq(idle, 1, Len(idle) - 1)
  /\ At(c, "offer")
  /\ UNCHANGED <<running, cache, waitq, workVars, goVars, sysVars, auxVars>>

(* Mutant: off by one at the capacity. *)
MutPassCapacity(c) ==
  /\ running <= Cap
  /\ At(c, "fetch")
  /\ raced' = (raced \/ Starting # {})
  /\ UNCHANGED <<held, poolVars, workVars, goVars, sysVars, starts, ends>>

(* The capacity check passed: the call goes on to start a goroutine. *)
PassCapacity(c) ==
  /\ running < Cap
  /\ At(c, "fetch")
  /\ raced' = (raced \/ Starting # {})
  /\ UNCHANGED <<held, poolVars, workVars, goVars, sysVars, starts, ends>>

GetIdle(c) == CallIn(c, "get") /\ lock = None /\ PopIdle(c)

GetNew(c) == CallIn(c, "get") /\ lock = None /\ idle = <<>> /\ PassCapacity(c)

(* The mutex is released here and taken again by Wait: nothing holds the   *)
(* pool still in between.                                                  *)
GetFull(c) ==
  /\ CallIn(c, "get") /\ lock = None /\ idle = <<>> /\ running >= Cap
  /\ Move(c, "full")

Wait(c) ==
  /\ CallIn(c, "full") /\ lock = None
  /\ waitq' = Append(waitq, c)
  /\ At(c, "wait")
  /\ UNCHANGED <<held, running, idle, cache, workVars, goVars, sysVars,
                 auxVars>>

WakeIdle(c) == CallIn(c, "woken") /\ lock = None /\ PopIdle(c)

WakeEmpty(c) ==
  /\ CallIn(c, "woken") /\ lock = None /\ idle = <<>>
  /\ Move(c, "recheck")

(* The second capacity check reads running without the mutex. *)
RecheckNew(c) == CallIn(c, "recheck") /\ PassCapacity(c)

RecheckFull(c) ==
  /\ CallIn(c, "recheck") /\ running >= Cap
  /\ Move(c, "full")

(* sync.Pool.Get: any cached Worker, or a new one (the cache may always    *)
(* miss).  workerCache.New gives the new Worker the name of the call.      *)
CacheGet(c) ==
  /\ CallIn(c, "fetch")
  /\ \/ /\ held' = [held EXCEPT ![c] = c]
        /\ UNCHANGED cache
     \/ \E w \in Calls :
          /\ cache[w] > 0
          /\ cache' = [cache EXCEPT ![w] = @ - 1]
          /\ held' = [held EXCEPT ![c] = w]
  /\ At(c, "run")
  /\ UNCHANGED <<running, idle, waitq, workVars, goVars, sysVars, auxVars>>

(* Worker.run: incRunning, then the goroutine. *)
RunWorker(c) ==
  /\ CallIn(c, "run") /\ held[c] \notin detached
  /\ running' = running + 1
  /\ gpc' = [gpc EXCEPT ![c] = "start"]
  /\ gw' = [gw EXCEPT ![c] = held[c]]
  /\ At(c, "offer")
  /\ UNCHANGED <<held, idle, cache, waitq, workVars, gf, sysVars, auxVars>>

Deliver(c) ==
  /\ task[held[c]] = None
  /\ task' = [task EXCEPT ![held[c]] = c]
  /\ held' = [held EXCEPT ![c] = None]
  /\ At(c, "accepted")
  /\ UNCHANGED <<poolVars, detached, goVars, sysVars, auxVars>>

Offer(c) == CallIn(c, "offer") /\ held[c] \notin detached /\ Deliver(c)

(* The channel is full: the sender has evaluated w.task and now blocks. *)
OfferFull(c) ==
  /\ CallIn(c, "offer") /\ held[c] \notin detached /\ task[held[c]] # None
  /\ Move(c, "sending")

Send(c) == CallIn(c, "sending") /\ Deliver(c)

(* A send on the nil channel Release left behind blocks for ever. *)
OfferDetached(c) ==
  /\ CallIn(c, "offer") /\ held[c] \in detached
  /\ Move(c, "hung")

-----------------------------------------------------------------------------
(* Worker.running *)

Go(g, l) == gpc' = [gpc EXCEPT ![g] = l]

(* The range statement evaluates w.task once; nil blocks for ever. *)
EvalRange(g) ==
  /\ GoIn(g, "start")
  /\ Go(g, IF gw[g] \in detached THEN "stuck" ELSE "recv")
  /\ UNCHANGED <<callVars, poolVars, workVars, gw, gf, sysVars, auxVars>>

Recv(g) ==
  /\ GoIn(g, "recv")
  /\ task[gw[g]] # None
  /\ task' = [task EXCEPT ![gw[g]] = None]
  /\ IF task[gw[g]] = Nil
     THEN /\ Go(g, "nil")
          /\ UNCHANGED <<gf, starts>>
     ELSE /\ Go(g, "busy")
          /\ gf' = [gf EXCEPT ![g] = task[gw[g]]]
          /\ starts' = [starts EXCEPT ![task[gw[g]]] = @ + 1]
  /\ UNCHANGED <<callVars, poolVars, detached, gw, sysVars, ends, raced>>

TaskEnds(g, l) ==
  /\ GoIn(g, "busy")
  /\ Go(g, l)
  /\ gf' = [gf EXCEPT ![g] = None]
  /\ ends' = [ends EXCEPT ![gf[g]] = @ + 1]
  /\ UNCHANGED <<callVars, poolVars, workVars, gw, sysVars, starts, raced>>

(* The task returns and w.pool is read for the call of PutWorker. *)
TaskReturns(g) == gw[g] \notin detached /\ TaskEnds(g, "put")

(* The task panics: control goes to the deferred function. *)
TaskPanics(g) == TaskEnds(g, "dec")

(* Mutant: the goroutine returns after one task, its Worker stays idle. *)
MutPutWorker(g) ==
  /\ GoIn(g, "put") /\ lock = None
  /\ idle' = Append(idle, gw[g])
  /\ Signal
  /\ Go(g, "done")
  /\ UNCHANGED <<held, running, cache, workVars, gw, gf, sysVars, auxVars>>

PutWorker(g) ==
  /\ GoIn(g, "put") /\ lock = None
  /\ idle' = Append(idle, gw[g])
  /\ Signal
  /\ Go(g, "recv")
  /\ UNCHANGED <<held, running, cache, workVars, gw, gf, sysVars, auxVars>>

PutCache(g, l) ==
  /\ gw[g] \notin detached
  /\ cache' = [cache EXCEPT ![gw[g]] = @ + 1]
  /\ Go(g, l)
  /\ UNCHANGED <<callVars, running, idle, waitq, workVars, gw, gf,
                 sysVars, auxVars>>

(* Mutant: the nil task is counted out here and by the deferred function. *)
MutNilPut(g) ==
  /\ GoIn(g, "nil") /\ gw[g] \notin detached
  /\ running' = running - 1
  /\ Go(g, "dec")
  /\ UNCHANGED <<callVars, idle, cache, waitq, workVars, gw, gf, sysVars, auxVars>>

(* The nil task puts the Worker in the cache; the deferred function will   *)
(* put it there a second time.                                             *)
NilPut(g) == GoIn(g, "nil") /\ PutCache(g, "dec")

DecRunning(g) ==
  /\ GoIn(g, "dec") /\ gw[g] \notin detached
  /\ running' = running - 1
  /\ Go(g, "cache")
  /\ UNCHANGED <<callVars, idle, cache, waitq, workVars, gw, gf, sysVars,
                 auxVars>>

CachePut(g) == GoIn(g, "cache") /\ PutCache(g, "signal")

(* The signal of the deferred function is sent without the mutex. *)
SignalExit(g) ==
  /\ GoIn(g, "signal") /\ gw[g] \notin detached
  /\ Signal
  /\ Go(g, "done")
  /\ gw' = [gw EXCEPT ![g] = None]
  /\ UNCHANGED <<held, running, idle, cache, workVars, gf, sysVars, auxVars>>

(* Using w.pool after Release set it to nil: in the goroutine itself the   *)
(* panic re-enters the deferred function, which dereferences it again      *)
(* before recover; in Submit (w.run) nothing recovers.                     *)
NilPool ==
  /\ ~crashed
  /\ \/ \E g \in Calls : /\ gpc[g] \in {"busy", "nil", "dec", "cache", "signal"}
                         /\ gw[g] \in detached
     \/ \E c \in Calls : pc[c] = "run" /\ held[c] \in detached
  /\ crashed' = TRUE
  /\ UNCHANGED <<callVars, poolVars, workVars, goVars, lock, epc, once,
                 release, rpc, auxVars>>

-----------------------------------------------------------------------------
(* expireWorker *)

(* One tick: the unlocked test of IsClosed. *)
Tick(e) ==
  /\ SweepIn(e, "ticker")
  /\ epc' = [epc EXCEPT ![e] = IF release > 0 THEN "exited" ELSE "tick"]
  /\ UNCHANGED <<callVars, poolVars, workVars, goVars, lock, once,
                 release, rpc, crashed, auxVars>>

BeginSweep(e) ==
  /\ SweepIn(e, "tick") /\ lock = None
  /\ lock' = e
  /\ epc' = [epc EXCEPT ![e] = "sweep"]
  /\ UNCHANGED <<callVars, poolVars, workVars, goVars, once, release, rpc,
                 crashed, auxVars>>

(* The oldest idle Worker has been idle for longer than expire. *)
Expired(e) ==
  /\ SweepIn(e, "sweep") /\ idle # <<>>
  /\ epc' = [epc EXCEPT ![e] = "expire"]
  /\ UNCHANGED <<callVars, poolVars, workVars, goVars, lock, once, release,
                 rpc, crashed, auxVars>>

(* Mutant: the expired Worker is not taken off the list. *)
MutExpireOne(e) ==
  /\ SweepIn(e, "expire") /\ Head(idle) \notin detached
  /\ task[Head(idle)] = None
  /\ epc' = [epc EXCEPT ![e] = "sweep"]
  /\ task' = [task EXCEPT ![Head(idle)] = Nil]
  /\ UNCHANGED <<callVars, poolVars, detached, goVars, lock, once, release,
                 rpc, crashed, auxVars>>

(* Send it nil, holding the mutex; on the nil channel Release left behind  *)
(* the sweep would block for ever.                                         *)
ExpireOne(e) ==
  /\ SweepIn(e, "expire") /\ Head(idle) \notin detached
  /\ task[Head(idle)] = None
  /\ epc' = [epc EXCEPT ![e] = "sweep"]
  /\ task' = [task EXCEPT ![Head(idle)] = Nil]
  /\ idle' = Tail(idle)
  /\ UNCHANGED <<callVars, running, cache, waitq, detached, goVars, lock,
                 once, release, rpc, crashed, auxVars>>

EndSweep(e) ==
  /\ SweepIn(e, "sweep")
  /\ lock' = None
  /\ epc' = [epc EXCEPT ![e] = "ticker"]
  /\ UNCHANGED <<callVars, poolVars, workVars, goVars, once, release, rpc,
                 crashed, auxVars>>

-----------------------------------------------------------------------------
(* Release and Restart *)

(* Under the mutex every idle Worker loses its channel and its pool. *)
ReleaseClear ==
  /\ ~crashed /\ once = "no" /\ lock = None
  /\ detached' = detached \cup {idle[i] : i \in 1..Len(idle)}
  /\ idle' = <<>>
  /\ once' = "cleared"
  /\ UNCHANGED <<callVars, running, cache, waitq, task, goVars, lock, epc,
                 release, rpc, crashed, auxVars>>

(* Mutant: not run through Pool.once. *)
MutReleaseSignal ==
  /\ ~crashed /\ once = "cleared"
  /\ release' = release + 1
  /\ UNCHANGED <<callVars, poolVars, workVars, goVars, lock, epc, once, rpc,
                 crashed, auxVars>>

ReleaseSignal ==
  /\ ~crashed /\ once = "cleared"
  /\ release' = release + 1
  /\ once' = "done"
  /\ UNCHANGED <<callVars, poolVars, workVars, goVars, lock, epc, rpc,
                 crashed, auxVars>>

RestartCheck(r) ==
  /\ ~crashed /\ rpc[r] = "new"
  /\ rpc' = [rpc EXCEPT ![r] = IF release > 0 THEN "recv" ELSE "open"]
  /\ UNCHANGED <<callVars, poolVars, workVars, goVars, lock, epc, once,
                 release, crashed, auxVars>>

(* Receiving the signal reopens the pool and starts another expireWorker. *)
RestartRecv(r) ==
  /\ ~crashed /\ rpc[r] = "recv" /\ release > 0
  /\ release' = release - 1
  /\ rpc' = [rpc EXCEPT ![r] = "reopened"]
  /\ epc' = [epc EXCEPT ![r] = "ticker"]
  /\ UNCHANGED <<callVars, poolVars, workVars, goVars, lock, once,
                 crashed, auxVars>>

-----------------------------------------------------------------------------
GetWorker(c) ==
  \/ GetIdle(c) \/ GetNew(c) \/ GetFull(c) \/ Wait(c) \/ WakeIdle(c)
  \/ WakeEmpty(c) \/ RecheckNew(c) \/ RecheckFull(c)
  \/ CacheGet(c) \/ RunWorker(c)

HandOver(c) ==
  \/ Offer(c) \/ OfferFull(c) \/ Send(c) \/ OfferDetached(c)

Client(c) == Submit(c) \/ GetWorker(c) \/ HandOver(c)

Running(g) ==
  \/ EvalRange(g) \/ Recv(g) \/ TaskReturns(g) \/ TaskPanics(g) \/ PutWorker(g)
  \/ NilPut(g) \/ DecRunning(g) \/ CachePut(g) \/ SignalExit(g)

ExpireWorker(e) ==
  Tick(e) \/ BeginSweep(e) \/ Expired(e) \/ ExpireOne(e) \/ EndSweep(e)

Release == ReleaseClear \/ ReleaseSignal

Restart(r) == RestartCheck(r) \/ RestartRecv(r)

Next ==
  \/ \E c \in Calls : Client(c) \/ Running(c)
  \/ \E e \in Expirers : ExpireWorker(e)
  \/ \E r \in Restarts : Restart(r)
  \/ Release
  \/ NilPool

Spec == Init /\ [][Next]_vars

-----------------------------------------------------------------------------
(* Fairness: the Go scheduler runs every goroutine that can run;           *)
(* sync.Mutex is starvation-free, so a goroutine that can take the lock    *)
(* again and again gets it; a submitted task ends; the ticker ticks.       *)
(* Nobody has to call Submit, Release or Restart.                          *)
Fairness ==
  /\ \A c \in Calls : /\ SF_vars(GetWorker(c) \/ HandOver(c))
                      /\ SF_vars(Running(c))
  /\ \A e \in Expirers : /\ WF_vars(Tick(e)) /\ SF_vars(BeginSweep(e))
                         /\ WF_vars(ExpireOne(e)) /\ WF_vars(EndSweep(e))
  /\ WF_vars(ReleaseSignal)

FairSpec == Spec /\ Fairness

(* Moreover time passes: a Worker that stays idle expires. *)
TimedSpec == FairSpec /\ \A e \in Expirers : SF_vars(Expired(e))

-----------------------------------------------------------------------------
(* Properties *)

(* The types of the variables; release is a channel of capacity 1. *)
TypeOK ==
  /\ pc \in [Calls -> CallPcs]
  /\ held \in [Calls -> Calls \cup {None}]
  /\ running \in Int
  /\ idle \in Seq(Calls)
  /\ cache \in [Calls -> Nat]
  /\ waitq \in Seq(Calls)
  /\ task \in [Calls -> Calls \cup {Nil, None}]
  /\ detached \subseteq Calls
  /\ gpc \in [Calls -> GoPcs]
  /\ gw \in [Calls -> Calls \cup {None}]
  /\ gf \in [Calls -> Calls \cup {None}]
  /\ lock \in Expirers \cup {None}
  /\ epc \in [Expirers -> SweepPcs]
  /\ once \in {"no", "cleared", "done"}
  /\ release \in 0..1
  /\ rpc \in [Restarts -> RestartPcs]
  /\ crashed \in BOOLEAN
  /\ starts \in [Calls -> Nat]
  /\ ends \in [Calls -> Nat]
  /\ raced \in BOOLEAN

(* Pool.running, which gates the creation of goroutines, is exactly the    *)
(* number of goroutines between run and the decRunning of the deferred     *)
(* function: no exit by nil task, by panic or through a shared Worker is   *)
(* counted twice or missed.                                                *)
Counted ==
  {g \in Calls :
     gpc[g] \in {"start", "recv", "busy", "put", "nil", "dec", "stuck"}}

RunningAccurate == running = Cardinality(Counted)

(* While no two calls are between the capacity check and incRunning at     *)
(* once (a single submitting goroutine, say), the goroutines and those     *)
(* about to start stay within Cap.                                         *)
WithinCapUnlessRaced == ~raced => running + Cardinality(Starting) <= Cap

(* As a comment of Pool has it, cap is the maximum capacity of the pool.   *)
WithinCap == running <= Cap

(* Every claim on a Worker, that is an idle-list entry, a call about to    *)
(* send to it or a message in its channel, is matched by one goroutine     *)
(* receiving from the channel, also when the cache gave the Worker out     *)
(* twice.  So a task sent is a task received, and the nil a sweep sends    *)
(* while it holds the mutex finds a receiver.                              *)
Listening(w) == {g \in Calls : gw[g] = w /\ gpc[g] \in {"start", "recv"}}
Holding(w)   == {c \in Calls : held[c] = w /\ pc[c] \in {"offer", "sending"}}
IdleSlots(w) == {i \in 1..Len(idle) : idle[i] = w}
Queued(w)    == IF task[w] = None THEN 0 ELSE 1

OneListenerPerClaim ==
  \A w \in Calls \ detached :
    Cardinality(Listening(w)) =
      Cardinality(IdleSlots(w)) + Cardinality(Holding(w)) + Queued(w)

(* The pool implements the service its clients see. *)
Status(t) ==
  CASE starts[t] = 1 /\ ends[t] = 0 -> "running"
    [] starts[t] = 1 /\ ends[t] = 1 -> "ended"
    [] starts[t] = 0 /\ ends[t] = 0 ->
         (CASE pc[t] = "new"      -> "new"
            [] pc[t] = "closed"   -> "refused"
            [] pc[t] = "accepted" -> "accepted"
            [] OTHER              -> "offered")
    [] OTHER -> "repeated"

Door == IF release > 0 THEN "closed"
        ELSE IF once = "done" THEN "reopened" ELSE "open"

Service == INSTANCE TaskService
             WITH Tasks <- Calls, status <- [t \in Calls |-> Status(t)], door <- Door

ImplementsTaskService == Service!Spec

(* The mutex never stays with a sweep because a channel is full: the sends *)
(* of expireWorker, made under the lock, always find room.  (A sweep hangs *)
(* on a Worker that lost its channel to Release and came back to the idle  *)
(* list, which takes four calls and a Worker the cache gave out twice.)    *)
SweepHung ==
  /\ \E e \in Expirers : epc[e] = "expire"
  /\ Head(idle) \in detached

LockReleased == lock # None ~> (lock = None \/ crashed \/ SweepHung)

(* A task Submit accepted is executed to its end.                          *)
AcceptedIsRun == \A c \in Calls : pc[c] = "accepted" ~> (ends[c] = 1 \/ crashed)

(* As a comment of Pool.cond has it, blocked calls are notified when a     *)
(* Worker is idle: with every task ending and the pool never released, a   *)
(* call that found the pool full gets a Worker.                            *)
WaiterServed ==
  [](once = "no") => \A c \in Calls : pc[c] = "full" ~> pc[c] = "offer"
=============================================================================
