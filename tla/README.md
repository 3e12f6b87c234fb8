# go_rookie in TLA+

go_rookie is a Go web framework: routing and middleware, an API gateway, an
RPC stack over TCP, an ORM, and two concurrent building blocks, a goroutine pool
and a circuit breaker. This directory holds TLA+ models of its code, the TLC
configurations that check them on small instances, and theorems proved with TLAPS
for every value of the constants. The models are translated from the Go source;
comments and documentation of the repository are used only as statements to hold
the code against.

## Inventory

| Component | Source | State it keeps | Operations | What is hard |
|---|---|---|---|---|
| Goroutine pool | `grpool/pool.go`, `grpool/worker.go` | running count, idle list, Worker cache, condition variable, release channel, a channel per Worker | `Submit`, `GetWorker`, `waitIdleWorker`, `run`, `running`, `PutWorker`, `expireWorker`, `Release`, `Restart` | unlocks between check and use, unlocked signals, sends under the mutex, a Worker cached twice, `Release` against everything |
| Circuit breaker | `breaker/breaker.go` | state, expiry, generation, counters | `Execute`, `beforeRequest`, `afterRequest`, `currentState`, `SetState`, `NewGeneration`, `OnSuccess`, `OnFail` | only `NewGeneration` is locked; stale results, timeouts, lost increments |
| Route tree | `tree.go`, `utils.go` | a trie; `Get` writes `routerName` into its nodes | `Put`, `Get`, `SubStringLast` | registration order, wildcards, no backtracking, shared writes |
| Gateway | `gateway/tree.go`, `gateway/gateway.go` | the same trie with a service name per node | `Put`, `Get` | as above, without the `isEnd` test |
| Engine and middleware | `go_rookie.go`, `recovery.go`, `limiter.go`, `auth.go`, `log.go`, `tracer.go`, `grerror/` | groups, handler maps, middlewares, a `sync.Pool` of contexts | `Use`, `Group`, `handle`, `ServeHTTP`, `httpRequestHandler`, `methodHandler`, `Run` | order of registration, contexts reused without a reset, panics in handlers |
| Context | `context.go` | keys, query and form caches of one request | accessors, `Render`, `Bind*` | keys surviving in a pooled context |
| TCP RPC | `rpc/tcp.go`, `rpc/tcp.proto` | a connection, one response channel per connection or call | server `Run`, `readHandle`, `writeHandle`, `Send`; client `Connect`, `Invoke`, `readHandle`; proxy `Call` | retries, panics of the service, waits without timeout, frames of two writes |
| HTTP and gRPC | `rpc/http.go`, `rpc/grpc.go` | configuration | wrappers | none of their own |
| Registries | `register/` | a client of etcd or nacos | `CreateCli`, `RegisterService`, `GetValue`, `Close` | external services |
| ORM session | `orm/orm.go` | table, field names, values, conditions, transaction flag | `Insert`, `Update`, `Delete`, `Select*`, conditions, `Begin`, `Commit`, `Rollback` | state that survives a statement, failures of the transaction calls |
| JWT sessions | `token/token.go` | handler settings; the tokens themselves | `LoginHandler`, `RefreshHandler`, `LogoutHandler`, `AuthInterceptor` | shared claims, expiry, settings filled in on the way |
| Logger | `log/` | output files | `Print`, `CheckFileSize` | rotation by concurrent callers |
| Binding, rendering, configuration, tracing, helpers | `binding/`, `render/`, `config/`, `tracer/`, `internal/` | none over calls | encoding, decoding, set-up | nothing for a model checker |

How they interact: `Engine.ServeHTTP` takes a context from a pool, asks each group's
route tree (or the gateway's tree and a registry), wraps the handler in the
middlewares and calls it. The TCP client asks a registry for an address, the
server registers there. The pool reports task panics to the logger. The breaker and
the pool are libraries for handlers: nothing in the framework calls them, so their
models are driven by arbitrary clients.

What makes each correct, in short. Pool: never more goroutines than its capacity,
an exact count of them, every accepted task run once and to its end, nobody left
waiting. Breaker: it changes state for the reasons its settings give and only then,
and leaves every state it should. Route tree: a path resolves to the handler
registered for it. Engine: a request sees its own context and the middlewares
registered for its group. RPC: a call gets its own answer or an error. ORM: a
statement is built from what was said for it; a transaction ends once. Tokens: each
kind carries its own expiry. Logger: every line reaches the current file.

The hazards of each, with their lines, are listed in `PROJECT.json`.

## Plan

1. `TaskService`, `GrPool`: the pool and what it promises (done, with proofs).
2. `CircuitBreaker` (done, with proofs).
3. `RouteTree`, used by `Engine`: both tries, registration, and requests over pooled
   contexts (done).
4. `TcpRpc`: client, proxy, connection and server goroutines (done).
5. `SqlSession`; `OrmSession` and its abstract specification `Transactions` (done).
6. `JwtSession` (done).
7. Proofs about the newer modules, and what was left of the older ones (done: every
   invariant and every action property of a passing run is a theorem).
8. `Logger`: `Print` and the rotation of `CheckFileSize`.

## The pool: `GrPool`, `TaskService`

`GrPool` follows the code step by step. A call of `Submit`, a worker goroutine, an
`expireWorker` goroutine and a call of `Restart` each have a program counter (`pc`,
`gpc`, `epc`, `rpc`), `Release` has `once`. The pool's fields are `running`, `idle`
(`Pool.workers`), `cache` (`workerCache`, how often each Worker is in it), `waitq`
(the queue of `cond`), `release` (the length of the channel), and `lock`; a Worker's
are `task` (its channel) and whether it is `detached` (its fields set to nil).

* A call makes at most one Worker and starts at most one goroutine, so both are named
  by the call. `gw[g]` is the Worker goroutine `g` serves; two goroutines may serve
  one, because a nil task puts the Worker in the cache (`NilPut`) and the deferred
  function puts it there again (`CachePut`).
* A critical section that cannot block is one step, enabled when `lock = None`. The
  sweep sends on channels under the mutex and is split (`BeginSweep`, `Expired`,
  `ExpireOne`, `EndSweep`). Every unlock, channel operation and atomic operation ends
  a step: `GetNew`/`CacheGet`/`RunWorker` are lines 167, 170 and 181,
  `GetFull`/`Wait` are 184 and 198-199.
* `Signal` wakes the call that waited longest, as Go's `sync.Cond` does. It is part of
  `PutWorker` (under the mutex) and of `SignalExit` (without).
* `NilPool` is a use of `w.pool` after `Release` made it nil: in the goroutine the
  deferred function panics again, in `Submit` nothing recovers, so the program ends
  (`crashed`). `OfferDetached` and a sweep on a detached Worker hang.
* Time: a tick may come at any moment and a sweep may find any prefix of the idle list
  expired. `running` is read without the mutex or an atomic at 167 and 206; the model
  gives that read the current value. `PanicHandler` is assumed to return.
* History: `starts` and `ends` count the executions of each task, `raced` records that
  two calls were between the capacity check and `incRunning`.

`TaskService` says what clients see: a task is offered or refused, refused only while
the pool is closed, an accepted one is started and ended once; the pool is closed and
reopened at most once. `ImplementsTaskService` maps each task's program counter and
history to its status.

| Run | Bounds | Checks |
|---|---|---|
| `pool_safety` | 3 calls, 1 restart, capacity 2, symmetric calls | `TypeOK`, `RunningAccurate`, `OneListenerPerClaim`, `WithinCapUnlessRaced`, `ImplementsTaskService` |
| `pool_live` | 2 calls, 1 restart, capacity 1, `FairSpec` | `LockReleased`, `AcceptedIsRun` |
| `pool_cap` | 2 calls, capacity 1 | `WithinCap`: violated |
| `pool_wait` | 2 calls, capacity 1, `TimedSpec` | `WaiterServed`: violated |

Three calls over two slots give waiting calls, a race on the capacity, reuse of a
Worker through the idle list and through the cache, and two sweeps after a restart.
Two calls over one slot suffice for the liveness runs: one works, one waits. With
four calls a doubly cached Worker can be served by two goroutines while `Release`
takes its channel, come back to the idle list and hang a sweep that holds the mutex;
`LockReleased` names this case (`SweepHung`) and excepts it.
Deadlock is not checked: when every call is over, or hangs on a closed pool, the
system stops.

`FairSpec` assumes that every goroutine that can run does, that `sync.Mutex` is
starvation-free (hence strong fairness where a step needs the lock), that tasks end
and the ticker ticks; nobody has to call `Submit`, `Release` or `Restart`. `TimedSpec`
adds that an idle Worker expires, so that the waiter of `pool_wait` gets every chance.

What the violations show. `WithinCap`: the mutex is released between the capacity
check and `incRunning` (and the second check has none), so two calls start a goroutine
each for one slot. `WaiterServed`: between line 184 and line 199 the pool may change
and signal; the caller then waits although `running` is 0. Both disagree with the
comments of `Pool` (lines 26 and 34).

## The breaker: `CircuitBreaker`

Any number of callers call `Execute` over and over. Only `NewGeneration` takes the
mutex; every other access is a step: `CurrentState` reads the state, `CheckClosed` or
`CheckOpen` the expiry, `ReadState` the state again and `ReturnBefore` or `ReturnAfter`
the generation (line 217); `SetState` tests, `WriteState` writes the state,
`NewGeneration` resets counters and expiry, `Notify` is the handler. An increment is a
load and a store. `NewGeneration` is one step: what a caller outside
the mutex could see between its assignments is left out. The properties of several callers
do not depend on it: `SpentIsLost` starts with no call in progress, and
`ExpiryMatchesState` excepts a change that has not got its new generation.
`phase` says whether a caller is in
`beforeRequest`, in `afterRequest`, or past counting its result.

* Time is whether the expiry has passed (`ExpiryPasses` may happen at any moment).
* A counter matters through one comparison and saturates one above its bound:
  `requests`, `successes` at `MaxRequests + 1`, `failures` at `TripAfter + 1`. The
  total counters are read by nothing and left out. `TripAfter` is the 5 of the default
  `readyToTrip`; `MaxRequests` is at least 1 by `NewCircuitBreaker`.
* Generations are compared for equality only: `current` is the set of callers whose
  generation is still the breaker's; it does not wrap in practice.
* A request may panic (it then counts nowhere); `Interval` may be zero (the default) or
  positive; the handler may be set or nil. A nil handler is called and panics.
* History: `probes` (requests that returned since half-open was entered), `okRun`,
  `failRun` (results in a row since the last change of state).

| Run | Bounds | Checks |
|---|---|---|
| `breaker` | 2 callers, `MaxRequests` 1, `TripAfter` 1, both intervals, both handlers | `TypeOK`, `ExpiryMatchesState`, `SpentIsLost` |
| `breaker_one` | 1 caller, `MaxRequests` 2, `TripAfter` 2, positive interval, `FairSpec` | `ProbesBounded`, `FailuresTrip`, `ChangesJustified`, `OpenIsProbed` |
| `breaker_trip` | 1 caller, interval 0 | `FailuresTrip`: violated |

Thresholds of 1 and 2 distinguish "at" from "above" each bound; two callers give every
pairwise race. `SpentIsLost` is a temporal property, so the callers of `breaker` are not
declared symmetric. `ChangesJustified`, `ProbesBounded` and `FailuresTrip` are claims about
one caller: with two, TLC violates each, because state, generation and counters are
read and written apart. `FairSpec` assumes that goroutines run, requests end, time
passes and calls keep coming; `OpenIsProbed` needs the last because nothing but a call
moves the breaker.

What the violations show. `FailuresTrip`: `currentState` tests `IsZero() &&` where a
positive interval would need the expiry to be past; with the default interval of 0 every
call starts a new generation and every result is dropped, so the breaker never opens.
`SpentIsLost`, which holds, is the stuck state: a half-open breaker that has spent its
requests without a verdict, with no call of `Execute` in progress, answers "too many
requests" for ever. A call in progress may still help it out: its result may close or
open it, and a caller that read the closed state long ago (207) and finds the expiry
zero by now (209) renews the generation and clears the count. The nil test before `OnStateChange` is
inverted (236): a handler that is set is never told, and the model's `Notify` says so.

## The engine: `RouteTree`, `Engine`

`RouteTree` is the trie of `tree.go` and, with a name per node, that of
`gateway/tree.go`. A path is its sequence of segments; a tree is the sequence of its
nodes in the order they were made, each known by the segments that lead to it. So the
order of a node's children, which decides what `Get` finds, is kept. `Put` adds what
`Made` says is missing beyond the nodes `Walked`. `Walk` is the state of `Get` after
each segment, a recursive function, `Visit` one segment of it: of the `Children` that
match the `First`, no backtracking, a `**` child ends the walk, a segment that leads
nowhere is passed over. `Get` is the walk after the last segment.

`Engine` has two phases. While `serving = "no"` it is set up: `Use`, `Group` (which
copies the middlewares), `GroupUse`, `Handle` (a route with its method and middlewares)
and `SetGatewayConfig`, in any order. `Run` ends the set-up: it does not return, and the
maps of handlers are read without a lock from then on. Any request may then come at any
time:

* `ServeHTTP` takes a Context from the pool, as it was put back, or a new one;
* `Answer`, `NoHandler` or `Forward` is everything up to the handler and back. It is
  one step because what it touches is the request's own Context, which
  `ContextExclusive` checks, and `routerName` in nodes all requests share, which
  `RouterNameIsRoute` checks to be the same whoever writes it;
* `Return` puts the Context back, unless a panic went through it.

The middle step runs the chain by hand: `Blockers` says which middleware turns the
request away (`BasicAuth` without credentials, a `Limiter` at any time), `Handlers` what
the handler does (answers, answers and panics, panics with an error, with a `GrError`
that has its function, or with something `Recovery` cannot handle), `Unwind` what one
middleware does on the way back and `Unwound` what all of them do. A Context is the user that `BasicAuth` set:
one key of `Keys`. The query and form caches are filled anew at every access
(`initQueryCache`), so that nothing of them is carried over. In a gateway `Forward` panics
when the configuration has no `Header` or the engine no `RegisterCli`, which line 289 and
290 call unasked (`NilCalled`).

| Run | Bounds | Checks |
|---|---|---|
| `engine` | groups `user` and `order`; routes `/a`, `/a/b`, `/:id/b`, `/**`; three paths, one with both group names in it; 2 requests, 2 Contexts, symmetric; 2 routes or gateway entries while set up, 1 when serving; 1 middleware beyond `Default`'s | `TypeOK`, `ContextExclusive`, `RouterNameIsRoute`, `RegisteredIsServed`, `GatewayOwner`, `AuthGuards`, `PanicContained` |

Two routes give every conflict of the tree (a prefix, a wild sibling, `**`); what a
request does after it is routed depends on one of them. `RegisteredIsServed` states
exactly when a route is found: unless a longer one made its node (`Cut`) or a wild node
made earlier takes one of its segments (`Shadowed`). The properties of requests speak
of a handler with the middlewares of its group at registration and those of its route;
a `Use` after `Group` does not reach the group. Deadlock is not checked: an engine with
more routes than `MaxServed` is only set up.

Seen on the way, without a run of its own: a Context put back keeps its keys, so a
handler without `BasicAuth` can read the user of an earlier request; the log line of a
handler that writes to `W` itself shows an earlier `StatusCode`; a failing backend of
the gateway is answered with 200 and nothing (`Forward`); an engine made by `New`
without `Default` panics in `Group`.

## Remote calls: `TcpRpc`

A call of the proxy connects for itself and invokes up to `Retries` times on that
connection; calls that share a `GrTcpClient` invoke once each on its one connection.
`conn` says which, fixed in the initial state. `Invoke` is `Encode`, `WriteHeader`,
`WriteBody` and then `Receive`, `ReceiveNothing` or, when two calls wait on one
connection and their readers take parts of one frame (`Split`), `ReceivePart`. The server has `Accept` and `Stop`, and per connection
`readHandle` (`Limit`, `Decode`, `Serve`) and `writeHandle` (`Respond`), joined by
`rspChan`.

* The stream towards the server is a sequence of pieces: the header and the body of a
  call's frame. Two calls on one connection may interleave them (`Garbled`): then
  `UnCompress` cannot make a reader, closes the nil one it has (174-175) and
  `readHandle` panics.
* A client that reads a part of a frame returns a code 500, or finds a length that is
  none: `decodeFrame` panics (598), `readHandle` recovers, closes the connection and
  sends nothing (841-846), and `Invoke` waits for ever (`"stuck"`).
* The network may cut a connection at any moment (`Cut`), with or without what was on
  its way. A write after the other side has closed may succeed and go nowhere; closing
  with pieces unread resets the connection and may lose the answer.
* Without a limiter `readHandle` panics on the nil one; so does a method that does not
  exist or that panics itself. `Panic` closes the connection and gives `writeHandle`
  nothing.
* Ids are left out because the client never compares them. The serializers and gzip are
  inverse to each other, except that encoding may fail. With ProtoBuff a client
  rebuilds the answer from its data only and loses the code (861-865): this is not
  modelled.

| Run | Bounds | Checks |
|---|---|---|
| `rpc` | 2 calls, with a connection each or sharing one; `Retries` 0 or 2; with and without a limiter; `FairSpec` | `TypeOK`, `AtMostOnce`, `AnswerIsOwn`, `RetryNeverHelps`, `CallReturns`, `WriterEnds` |

A connection serves one request, so a second call matters only on the same
connection, and two attempts give every retry. What holds is worth knowing: no call
runs twice although the proxy retries, because `Invoke` returns an error only before
its frame is complete; for the same reason a retry never succeeds. `AnswerIsOwn` is about
the proxy; two calls that share a client can get each other's answers, as TLC shows
when the condition `~Shared(c)` is dropped. `CallReturns` holds for every call of the
proxy; a call that shares its connection returns or is stuck as above. `WriterEnds` is about returns of
`readHandle`; after a panic `writeHandle` does wait for ever.

`FairSpec` assumes that the goroutines of callers and server run, that a service
returns or panics, and that the end of a connection is noticed by its readers. Nothing
makes the network fail or the server stop. Deadlock is not checked because calls end.

## The ORM: `SqlSession`, `OrmSession`, `Transactions`

`SqlSession` is one session as a builder of statements. Its variables are the fields of
`GrSession`; `placeHolder` always has one mark per field name and is left out, and of
the text of the conditions the model keeps how it ends, which decides whether a database
parses it. A value and the question mark meant for it are the same slot (column,
statement it was given for, row of a batch), so a statement is right when its `holes`
are its `args`. `Send` is prepare and execute: a statement whose text the database
cannot parse is not prepared, one with another number of values than marks is refused,
both may fail anyway, and the rows of a read may be cut short. `Write` and `ReadAnswers`
say what the caller is told of it. `Rows` are what the caller has to insert or set:
columns of a struct, with an id or without.

| Run | Bounds | Checks |
|---|---|---|
| `sql` | two structs of one column each, with and without an id; conditions of up to 2 marks and 2 values; 4 columns to set, marks and values of conditions in all; 2 statements; batches of 1 row and of 2 alike, with and without an id, and of two structs | `TypeOK`, `FirstStatementAligned`, `NothingMisplaced`, `InsertsItsRows`, `OkMeansExecuted` |

The comment of `Insert` (line 134) says that each operation is independent. It is not:
nothing ever clears a session. Two statements show what the leftovers of one do to the
next. After an insert a second one of the same struct is sent the columns twice, and the
database refuses it. The exceptions the properties name are real, and TLC finds each when
its condition is dropped:

* a batch clears the values but not the columns to set, after which values can go to other
  columns (`batched`);
* `Between` writes two marks and `WhereMultiple` the caller's text, with any number of
  values: what one condition lacks an update may make up for, and the statement is
  executed with a value in another column (`even`);
* after a row of one struct a row of another is sent with the columns and the values of
  both, and stored (`OneStruct`);
* no read asks `rows.Err` when the rows end: rows cut short are answered without an error.

The exceptions of `FirstStatementAligned` are the ways in which a fresh session can go
wrong. Deadlock is not checked: the number of statements is bounded.

`OrmSession` is several sessions over the connections of `database/sql`, which is
external and modelled by its rules for connections: a call takes a free one or waits, a transaction holds its own to the end, rows hold theirs until read or
closed. A statement is `Call`, then prepare (`PrepareTx` or `Prepare`), then `ExecTx`,
`Exec` or `Query` and `Read`. Prepare and execute take a connection each, so others may
come between. `Ended` is a transaction whose connection breaks; `CommitFails` may have
committed or not. A `Query` that fails and a conversion that cannot be made panic; the
program recovers (`Recover`) and goes on with the session, as a deferred `Rollback` would,
or drops it. A session may be dropped between any two calls (`New`), its transaction left
open. Not modelled: a database that ends a transaction while the connection stays healthy,
after which `database/sql` goes on sending to it what it believes to be in the
transaction.

`Transactions` says what the sessions get: writes outside a transaction are stored at
once, those inside together or never, and after a commit or rollback that failed none
until the session begins anew. `Status` is the refinement mapping: `beginTx` set over a
transaction that is no longer open is `"cut-off"`.

| Run | Bounds | Checks |
|---|---|---|
| `orm` | 2 sessions, 2 connections, 2 writes, `FairSpec` | `TypeOK`, `ImplementsTransactions`, `LostOnlyByUnclosed`, `WaiterServed` |

Two sessions that hold a transaction each and read exhaust two connections: the reads
of a transaction use another connection than the transaction, and wait for ever.
`WaiterServed` says that this, with connections lost to rows nobody closes
(`SelectOne`, `QueryRow`), is the only way a call waits in vain. `FairSpec` is strong
fairness of each session's step: `database/sql` hands each connection that comes free to
one of the calls that wait, in some versions to one picked at random, so that each gets
one in the end, if only almost surely; nothing makes a program end its transaction. Deadlock is not checked because both sessions may wait.

## Sessions with tokens: `JwtSession`

One `JwtHandler` is shared by all requests; the server keeps nothing but its fields. A
token is its user, the login it goes back to, its kind, when it was made and when it
expires; `tokens` holds all that were signed, `jar` the cookie of each browser.
`LoginHandler` and `RefreshHandler` end in `Issue`, which takes up to one unit of time,
so that the two readings of the clock can differ. `Signed` is the pair made from one
map of claims. Keys of the RS algorithms are given as strings, with which the library
cannot sign: the handlers then fail (`publicKey`). `CookieName` and `CookieMaxAge` are
settings, which the handlers fill in when they are empty; `Restart` puts back what was
set (`named`, `age`). `AuthInterceptor` changes nothing and is no action: it lets a
request through with a valid token in its header. It also parses the text of a whole
cookie, `name=value`, which is no token (278), so that `SendCookie` lets nobody in. A
negative `CookieMaxAge`, which makes a browser drop the cookie, is not given.

| Run | Bounds | Checks |
|---|---|---|
| `jwt` | 2 users, `TimeOut` 2, `RefreshTimeOut` 3, `CookieMaxAge` unset or 4, time to 5, 3 pairs of tokens | `TypeOK`, `CookieEndsWithToken`, `NoneResumed` |

Five units allow a session to expire and three pairs a chain of refreshes beside
another user's login. `NoneResumed`: once all tokens of a session have expired no
refresh revives it. `CookieEndsWithToken`: unless it is a setting, `CookieMaxAge` is
computed from the first token sent and kept for all cookies to come; each still ends when
its token does, within the time a handler takes. With a setting of 4 the cookie outlives
the token, which is why the property is about `age = 0`.

## Proofs

The theorems hold for every value of the constants that satisfies the `ASSUME`s of the
component's module; where a theorem needs more it says so in its own `ASSUME`. Each
safety theorem is Init, step and consequence for an inductive invariant that TLC checked
first; a step lemma has one case per action. Libraries are cited for finite sets,
sequences and well-founded orders.

### The pool: `GrPoolProofs`

For any calls, restarts and capacity, the set of calls being finite.

* `TypeCorrect`, `ControlCorrect`. `TypeOK` alone is not inductive: `Recv` needs the
  goroutine to have a Worker, `TaskEnds` a task, `Signal` a queue of waiting calls,
  `ExpireOne` a nonempty list under the mutex. `Control` says just that and the two are
  proved together.
* `RunningCorrect`: `running` changes exactly where a goroutine enters or leaves
  `Counted`.
* `CapacityCorrect`: as long as no two calls raced, `Starting` has at most one element
  and it was admitted with `running < Cap`.
* `ClaimsCorrect`: `OneListenerPerClaim`, inductive with `TypeOK` and `Control`. Steps
  move a claim from the list to a call, from a call or the list to the channel, or
  remove it with its listener; `Release` takes the Worker out of the claim. The lemmas
  `Slots...` count the places of a Worker in the list.
* `PoolImplementsService`: every step maps to a step of `TaskService` or a stutter. The
  strengthening `TaskInv` says that a task is in at most one channel and executed by at
  most one goroutine, that one in a channel was handed over and has not started, and
  that one being executed was started once and has not ended.

### The breaker: `CircuitBreakerProofs`

For any `MaxRequests` and `TripAfter`, and any callers:

* `TypeCorrect`; `ExpiryCorrect`, inductive with `TypeOK`, because the last
  `NewGeneration` to run sets the expiry of the state it finds.
* `SpentCorrect`: once `Spent`, the breaker stays `Exhausted` (half-open, its requests
  spent, every caller in a place from which no request and no change of state follows),
  an invariant of every step, and `Exhausted` is `Lost`.

For one caller (`Callers = {c}`, as in `breaker_one`; with two TLC refutes each):

* `ProbesCorrect`, `ChangesCorrect`. The invariant `Alone` says where in `Execute` the
  caller can be in which state (`Placed`), that a change of state under way has its cause
  (`Caused`), and that the counters are never ahead of the results there were
  (`CountsFollow`) nor behind the requests that returned half-open (`ProbesCounted`).
* `FailuresTripCorrect`, with `Intervals = {"positive"}` besides (`breaker_trip` shows
  that it fails with an interval of zero): `FailuresCounted` says that then no result is
  dropped, so the counter of failures is the number of failures in a row.

### Routes and the engine: `RouteTreeProofs`, `EngineProofs`

For any names, routes, paths, requests, Contexts and bounds.

* `GetNamesItsNode`: for every tree and path the name `Get` leaves is the route of the
  node it was led to; each `Visit` keeps the walk `Sound`.
* `FoundUnlessShadowed`: in a tree that `Put` made (`WellMade`: no two nodes have one
  path, and every node has those above it), a route whose nodes are there is found by its
  own path exactly when it is not `Shadowed`. By induction along the route: the walk is
  at the node of the segments read so far, unless a wild sibling took it.
* `EngineCorrect`: the invariant is `SetUp` and `Serving`. `SetUp`: every chain has
  `Recovery` second, and every tree is `Grown` from the routes of its table in their
  order, so that a node belongs to the first route that passes it, whose name it has in
  the gateway (`Named`). `Serving`: what the Context and the answer of a request can be
  at each of its steps.
* From `SetUp` follow `RouterNamesCorrect`, `RegisteredCorrect` and `GatewayCorrect`,
  from `Serving` `TypeCorrect`, `ContextsCorrect`, `AuthCorrect` and `PanicsContained`. The last rests on `UnwoundKeeps`: with `Recovery` second a chain
  gives back no panic but one that was thrown unfit for it, and a request whose panic
  it handled was answered, unless that was left to the function of a `GrError`.

`Walk` and `Unwound` are functions defined by recursion. The theorems on induction of the
library take an operator as a parameter and cannot be used with the provers at hand; the
lemmas `Least`, `UpTo` and `Recursion` of `RouteTreeProofs` do the same with sets of
naturals and their least elements, from the well-foundedness of `<`.

### Remote calls: `TcpRpcProofs`

For any calls, connections, numbers of retries and ways of sharing clients.

* `TypeCorrect`, with the bound on the attempts of a call.
* `CarriedCorrect`: `Carried` says of every place a request or an answer can be in which
  call it belongs to. `FailedStays`: after a failed write the connection stays closed.
  `PiecesOwn`: what travels on a connection is of its calls, a body only of a call that
  sent it all. `ReadOnce`: a connection's `readHandle` reads one request, and only its
  call runs. `ResponsesOwn`: an answer is for a call of the connection, success only of a
  call that ran.
* From it `RunsAtMostOnce`, `AnswersOwnCall` and `RetriesNeverHelp`.

### The ORM: `SqlSessionProofs`, `OrmSessionProofs`

`SqlSessionProofs`, for any columns, rows, batches and bounds:

* `SessionCorrect`: the invariant joins the four properties of the run to what a session
  leaves behind. `Leftovers`: before a batch there are at least as many values as columns
  to insert and to set, and when they are as many as one kind alone they are its own.
  `Led`: the leading column of every struct inserted is among those to insert, if they
  are all one. So leftovers of the other kind give a statement another number of values
  than of marks, which is refused, and a second insert names a column twice. `Paired`: the
  marks and values of even conditions are the same. `Unused` is about a fresh session.
* `TypeCorrect`, `FirstStatementCorrect`, `PlacesCorrect`, `InsertsCorrect` and
  `AnswersCorrect` follow.

`OrmSessionProofs`, for any set of sessions (finite or not), limit and number of writes:

* `ConnectionsAccounted`, `TypeCorrect`. No guard bounds the free and lost connections;
  `Accounted`, that these, the held and the reading ones add up to the limit, does.
* `LostCorrect`: an action property from `TypeOK`.
* `BegunCorrect` and `SessionsImplementTransactions`: every step is one of `Transactions`
  or a stutter under the mapping `Status`. The mapping needs `BegunMatchesTx`: a
  transaction that holds a connection has `beginTx` set, and writes wait only in an open
  one.

### Sessions with tokens: `JwtSessionProofs`

For any users, times and number of tokens, lifetimes of at least two units (with one a
token may have expired when the login that signed it ends).

* `TypeCorrect`: types with the lifetime of each kind of token, inductive with `Shapes`.
* `CookiesCorrect`: with `CookieMaxAge` unset it is 0 or within one unit of `TimeOut`,
  so that every cookie ends with its token.
* `NoSessionResumed`, an action property: a refresh needs a token that is still valid,
  and a login begins a session of its own.

### Only model-checked

Liveness under fairness is out of the prover's reach: `LockReleased` and `AcceptedIsRun`
of the pool, `OpenIsProbed` of the breaker, `CallReturns` and `WriterEnds` of the RPC,
`WaiterServed` of `OrmSession`. Everything else the passing runs check is a theorem.

## Not modelled

* HTTP and gRPC, registries, binding, rendering, configuration and tracing: calls into
  libraries, with no state of their own over calls.
* The logger. `CheckFileSize` replaces the output file without a lock; it is item 8 of
  the plan.
* In the pool: `NewPoolConf`, which reads a configuration file, and the two getters.
* In the engine: templates, `RunTLS`, `RegisterErrorHandler`, the tracer; in the context:
  the query and form caches, which are filled anew at every access, files, cookies and
  bindings.
* In the RPC: the codecs, `Register` and `SetRegister`.
* In the ORM: `AutoMigrateMySQL` and `columnsFromStruct`, the text of the statements, and
  reflection over the fields of a struct beyond its columns.
* In the tokens: `AuthInterceptor`, which changes nothing.
