------------------------------- MODULE Engine -------------------------------
(***************************************************************************)
(* The engine of go_rookie.go with its groups, routes and middlewares, and *)
(* the requests it serves at the same time with Contexts from a sync.Pool  *)
(* (context.go, recovery.go, log.go, auth.go, limiter.go, grerror).        *)
(*                                                                         *)
(* An engine is set up, then serves.  It is made by Default: the Group of  *)
(* one made by New panics, its router having no engine.  A path is the     *)
(* sequence of its segments.  A request is served in three steps: its      *)
(* Context is taken, everything up to the handler and back is done, the    *)
(* Context is put back.  What a request does in the middle one touches its *)
(* own Context only, and the routerName of nodes all requests share, which *)
(* RouterNameIsRoute shows to be the same whoever writes it.               *)
(***************************************************************************)
EXTENDS RouteTree, FiniteSets

CONSTANTS Names,      \* the names of groups
          PrefixOf,   \* the pairs of a name and a segment that begins with it
          Routes,     \* the routes that may be registered
          Paths,      \* the paths requested
          Requests,   \* the requests in flight
          Contexts,   \* the Contexts there can be at a time
          Added,      \* the middlewares that may be added to those of Default
          MaxRoutes, MaxServed, \* bounds: routes registered, in an engine that
          MaxAdded              \* runs; middlewares added

Middlewares == {"logging", "recovery", "auth", "limiter"}

ASSUME RoutesAssumption == /\ \A r \in Routes \cup Paths : r \in Seq(STRING) /\ r # <<>>
                           /\ \A n \in Names : <<n, n>> \in PrefixOf
ASSUME AddedAssumption  == Added \subseteq Middlewares
ASSUME BoundsAssumption == {MaxRoutes, MaxServed, MaxAdded} \subseteq Nat

VARIABLES
  serving,  \* "no" until Run; then "routes", or "gateway" if OpenGateway
  middles,  \* e.middles
  groups,   \* e.routerGroup
  gateway,  \* e.gatewayTreeNode: the name of a configuration is its path here
  configs,  \* e.gatewayConfigMap, in the order of SetGatewayConfig
  pc,       \* of each request: "idle", "taken", "served"
  ctx,      \* the Context it has
  keys,     \* of each Context: Keys["user"]
  pool,     \* e.pool
  answer    \* of each request: what became of it (history)

setup == <<serving, middles, groups, gateway, configs>>
vars  == <<serving, middles, groups, gateway, configs, pc, ctx, keys, pool, answer>>

None     == "none"
Throws   == {"error", "handled", "unfit"}
NoAnswer == [auth |-> FALSE, credentials |-> FALSE, ran |-> FALSE, user |-> None,
             sent |-> 0, thrown |-> None, panic |-> None]

Total(Size(_), s) == FoldLeft(LAMBDA n, x : n + Size(x), 0, s)
Extra(g) == Len(g.middlewares) - 2
           + Total(LAMBDA e : Len(e.middlewares), g.table)
Uses == Len(middles) - 2 + Total(Extra, groups)
Registered == Len(configs) + Total(LAMBDA g : Len(g.table), groups)

(* New and Default *)
Init ==
  /\ serving = "no" /\ middles = <<"logging", "recovery">>
  /\ groups = <<>> /\ gateway = <<>> /\ configs = <<>>
  /\ pc = [r \in Requests |-> "idle"] /\ ctx = [r \in Requests |-> None]
  /\ keys = [c \in Contexts |-> None] /\ pool = {}
  /\ answer = [r \in Requests |-> NoAnswer]

-----------------------------------------------------------------------------
(* Setting up *)

SettingUp == serving = "no" /\ UNCHANGED <<serving, pc, ctx, keys, pool, answer>>

Use(m) ==
  /\ SettingUp /\ Uses < MaxAdded
  /\ middles' = Append(middles, m)
  /\ UNCHANGED <<groups, gateway, configs>>

(* Mutant: a group gets the middlewares of the engine but the last.        *)
MutGroup(name) ==
  /\ SettingUp
  /\ \A i \in DOMAIN groups : groups[i].name # name
  /\ groups' = Append(groups, [name |-> name, middlewares |-> Front(middles),
                               tree |-> <<>>, table |-> <<>>])
  /\ UNCHANGED <<middles, gateway, configs>>

(* The middlewares the engine has at this moment are copied.               *)
Group(name) ==
  /\ SettingUp
  /\ \A i \in DOMAIN groups : groups[i].name # name
  /\ groups' = Append(groups, [name |-> name, middlewares |-> middles,
                               tree |-> <<>>, table |-> <<>>])
  /\ UNCHANGED <<middles, gateway, configs>>

GroupUse(i, m) ==
  /\ SettingUp /\ Uses < MaxAdded
  /\ groups' = [groups EXCEPT ![i].middlewares = Append(@, m)]
  /\ UNCHANGED <<middles, gateway, configs>>

(* Any, Get, Post ...: a route registered twice with one method panics.    *)
Handle(i, route, method, ms) ==
  /\ SettingUp /\ Registered < MaxRoutes /\ Uses + Len(ms) <= MaxAdded
  /\ \A e \in ToSet(groups[i].table) : e.route # route \/ e.method # method
  /\ groups' = [groups EXCEPT
       ![i].table = Append(@, [route |-> route, method |-> method, middlewares |-> ms]),
       ![i].tree  = Put(@, route, <<>>)]
  /\ UNCHANGED <<middles, gateway, configs>>

(* One entry of the list; entries have distinct names and paths.           *)
SetGatewayConfig(route) ==
  /\ SettingUp /\ Registered < MaxRoutes /\ route \notin ToSet(configs)
  /\ gateway' = Put(gateway, route, route)
  /\ configs' = Append(configs, route)
  /\ UNCHANGED <<middles, groups>>

Run(how) ==
  /\ serving = "no" /\ Registered <= MaxServed /\ serving' = how
  /\ UNCHANGED <<middles, groups, gateway, configs, pc, ctx, keys, pool, answer>>

-----------------------------------------------------------------------------
(* Finding the handler of a request *)

(* SubStringLast: the path after the first segment that begins with the    *)
(* name, wherever in the path it is.                                       *)
After(path, name) ==
  LET at == {i \in DOMAIN path : <<name, path[i]>> \in PrefixOf}
  IN IF at = {} THEN <<>>
     ELSE SubSeq(path, 1 + Min(at), Len(path))

Found(g, path) == Get(g.tree, After(path, g.name))

(* Mutant: the middlewares of the route are left out.                      *)
MutChain(g, e) == g.middlewares

(* methodHandler wraps the handler: the last of the chain is outermost.    *)
Chain(g, e) == g.middlewares \o e.middlewares

(* The first group that finds the path answers for it, even if it has no   *)
(* entry for the method; ANY comes before the method.                      *)
Resolve(path, method) ==
  LET Finds(g) == Found(g, path).hit /\ Found(g, path).node.isEnd
      finding  == {i \in DOMAIN groups : Finds(groups[i])}
      g        == groups[Min(finding)]
      Under(m) == {e \in ToSet(g.table) : e.route = Found(g, path).routerName
                                          /\ e.method = m}
      entries  == IF Under("ANY") # {} THEN Under("ANY") ELSE Under(method)
      entry    == CHOOSE e \in entries : TRUE
  IN CASE finding = {} -> [status |-> 404, chain |-> <<>>, auth |-> FALSE]
       [] finding # {} /\ entries = {} -> [status |-> 405, chain |-> <<>>, auth |-> FALSE]
       [] OTHER -> [status |-> 0, chain |-> Chain(g, entry),
                    auth |-> "auth" \in ToSet(g.middlewares) \cup ToSet(entry.middlewares)]

Resolved == {Resolve(path, method) : path \in Paths, method \in {"GET", "POST"}}

-----------------------------------------------------------------------------
(* Running it *)

(* Render and Fail: what was sent first stays.                             *)
Render(run, status) == [run EXCEPT !.sent = IF @ = 0 THEN status ELSE @]

(* A handler answers or panics: with an error, perhaps when it answered    *)
(* already, with a GrError that has its ErrFunc, or, unfit, with one that  *)
(* has none or with a value that is no error.                              *)
Handlers(run) ==
  LET Throw(from, t) == [from EXCEPT !.thrown = t, !.panic = t]
  IN {Render(run, 200), Throw(Render(run, 200), "error")} \cup {Throw(run, t) : t \in Throws}

(* Mutant: recovery logs what it recovered and answers nothing.            *)
MutUnwind(run, m) ==
  CASE m = "recovery" /\ run.panic = "unfit" -> [run EXCEPT !.panic = "error"]
    [] m = "recovery" /\ run.panic # "unfit" -> [run EXCEPT !.panic = None]
    [] OTHER -> run

(* What a middleware does when the ones within have returned or panicked;  *)
(* logging writes its line, unless there was a panic.                      *)
(* What is unfit makes the recovery itself panic, with a runtime error.    *)
Unwind(run, m) ==
  CASE m = "recovery" /\ run.panic = "error" -> [Render(run, 500) EXCEPT !.panic = None]
    [] m = "recovery" /\ run.panic = "handled" -> [run EXCEPT !.panic = None]
    [] m = "recovery" /\ run.panic = "unfit" -> [run EXCEPT !.panic = "error"]
    [] OTHER -> run

(* The middlewares passed on the way in unwind from the innermost.         *)
Unwound(run, passed) ==
  LET after[n \in 0..Len(passed)] ==
        IF n = 0 THEN run ELSE Unwind(after[n - 1], passed[n])
  IN after[Len(passed)]

(* Where the request is turned away, if it is: without credentials by the  *)
(* outermost BasicAuth, by a Limiter now and then.                         *)
Blockers(chain, credentials) ==
  LET auth == {i \in DOMAIN chain : chain[i] = "auth" /\ ~credentials}
      from == IF auth = {} THEN 0 ELSE Max(auth)
  IN {from} \cup {i \in DOMAIN chain : chain[i] = "limiter" /\ i > from}

Turned(run, m) == {Render(run, IF m = "limiter" THEN 403 ELSE 401)}

-----------------------------------------------------------------------------
(* Serving *)

InUse == {ctx[r] : r \in {q \in Requests : pc[q] # "idle"}}

(* The pool gives a Context it was given back, as it is, or a new one.     *)
ServeHTTP(r) ==
  /\ serving # "no" /\ pc[r] = "idle"
  /\ \E c \in Contexts :
       /\ \/ c \in pool /\ UNCHANGED keys
          \/ c \notin InUse /\ keys' = [keys EXCEPT ![c] = None]
       /\ pool' = pool \ {c}
       /\ ctx' = [ctx EXCEPT ![r] = c]
  /\ pc' = [pc EXCEPT ![r] = "taken"]
  /\ UNCHANGED <<setup, answer>>

Served(r) ==
  /\ pc[r] = "taken" /\ pc' = [pc EXCEPT ![r] = "served"]
  /\ UNCHANGED <<setup, ctx, pool>>

Refuse(r, status) ==
  /\ Served(r)
  /\ answer' = [answer EXCEPT ![r].sent = status]
  /\ UNCHANGED keys

NoHandler(r) ==
  /\ serving = "routes"
  /\ \E status \in {out.status : out \in Resolved} \ {0} : Refuse(r, status)

(* methodHandler: the middlewares from the outermost to the one that turns *)
(* the request away, or to the handler, and back.                          *)
MethodHandler(before, r, chain, from) ==
  LET passed == SubSeq(chain, from + 1, Len(chain))
      user   == IF "auth" \in ToSet(passed) THEN r ELSE keys[ctx[r]]
      inner  == IF from # 0 THEN Turned(before, chain[from])
                ELSE Handlers([before EXCEPT !.ran = TRUE, !.user = user])
  IN /\ keys' = [keys EXCEPT ![ctx[r]] = user]
     /\ \E run \in inner : answer' = [answer EXCEPT ![r] = Unwound(run, passed)]

Answer(r) ==
  /\ serving = "routes" /\ Served(r)
  /\ \E out \in {o \in Resolved : o.status = 0}, credentials \in BOOLEAN :
       \E from \in Blockers(out.chain, credentials) :
         MethodHandler([answer[r] EXCEPT !.auth = out.auth, !.credentials = credentials],
                       r, out.chain, from)

(* A configuration without a Header, or an engine without a RegisterCli,   *)
(* has nothing to call: the panic goes out of ServeHTTP.                   *)
NilCalled(r) ==
  /\ Served(r)
  /\ answer' = [answer EXCEPT ![r].panic = "error"]
  /\ UNCHANGED keys

(* The gateway passes every middleware by.  The registry may not know the  *)
(* service; a backend that fails is answered with nothing, which is 200.   *)
Forward(r) ==
  /\ serving = "gateway"
  /\ \E path \in Paths :
       \/ ~Get(gateway, path).hit /\ Refuse(r, 404)
       \/ /\ Get(gateway, path).hit
          /\ NilCalled(r) \/ \E status \in {200, 500} : Refuse(r, status)

(* Mutant: the Context is put back also when the handler goes on with it.  *)
MutReturn(r) ==
  /\ pc[r] \in {"taken", "served"}
  /\ pc' = [pc EXCEPT ![r] = IF @ = "served" THEN "idle" ELSE @]
  /\ pool' = pool \cup {ctx[r]}
  /\ answer' = [answer EXCEPT ![r] = NoAnswer]
  /\ UNCHANGED <<setup, ctx, keys>>

(* ServeHTTP puts the Context back, unless a panic went through it.        *)
Return(r) ==
  /\ pc[r] = "served" /\ pc' = [pc EXCEPT ![r] = "idle"]
  /\ pool' = IF answer[r].panic = None THEN pool \cup {ctx[r]} ELSE pool
  /\ answer' = [answer EXCEPT ![r] = NoAnswer]
  /\ UNCHANGED <<setup, ctx, keys>>

Next ==
  \/ \E m \in Added : Use(m)
  \/ \E name \in Names : Group(name)
  \/ \E i \in DOMAIN groups, m \in Added : GroupUse(i, m)
  \/ \E i \in DOMAIN groups, route \in Routes, method \in {"ANY", "GET"},
        ms \in {<<>>} \cup {<<m>> : m \in Added} : Handle(i, route, method, ms)
  \/ \E route \in Routes : SetGatewayConfig(route)
  \/ \E how \in {"routes", "gateway"} : Run(how)
  \/ \E r \in Requests : ServeHTTP(r) \/ NoHandler(r) \/ Answer(r)
                         \/ Forward(r) \/ Return(r)

Spec == Init /\ [][Next]_vars

-----------------------------------------------------------------------------
(* A longer route that was there first made the node of this one: no end.  *)
Cut(g, route) ==
  LET over == {i \in DOMAIN g.table : IsPrefix(route, g.table[i].route)}
  IN g.table[Min(over)].route # route

(* Types, and that a request was answered when it has been served, unless  *)
(* there was a panic that went on or was left to an ErrFunc.               *)
TypeOK ==
  /\ serving \in {"no", "routes", "gateway"}
  /\ middles \in Seq(Middlewares)
  /\ \A i \in DOMAIN groups :
       /\ groups[i].name \in Names
       /\ groups[i].middlewares \in Seq(Middlewares)
       /\ \A e \in ToSet(groups[i].table) :
            e.route \in Routes /\ e.method \in {"ANY", "GET"} /\ e.middlewares \in Seq(Added)
  /\ configs \in Seq(Routes)
  /\ pc \in [Requests -> {"idle", "taken", "served"}]
  /\ ctx \in [Requests -> Contexts \cup {None}]
  /\ keys \in [Contexts -> Requests \cup {None}]
  /\ pool \in SUBSET Contexts
  /\ \A r \in Requests :
       /\ answer[r].panic \in Throws \cup {None}
       /\ pc[r] = "served" /\ answer[r].sent = 0 =>
            answer[r].panic # None \/ answer[r].thrown = "handled"

(* Two requests in flight never have one Context, and the pool never has   *)
(* one in use (ServeHTTP).                                                 *)
ContextExclusive ==
  /\ \A r, q \in Requests : r # q /\ pc[r] # "idle" /\ pc[q] # "idle" => ctx[r] # ctx[q]
  /\ InUse \cap pool = {}

(* The name Get writes into a node is the route of that node, whatever     *)
(* path was asked for: requests that write it at the same time write the   *)
(* same, so that the one that reads it back (go_rookie.go:330) has its own.*)
RouterNameIsRoute ==
  \A i \in DOMAIN groups : \A path \in Paths :
    LET walk == Get(groups[i].tree, path) IN walk.routerName = walk.node.path

(* A registered route is found by its own path exactly when no longer one  *)
(* made its node and no wild node made before catches it on the way.       *)
RegisteredIsServed ==
  \A i \in DOMAIN groups : \A e \in ToSet(groups[i].table) :
    LET g    == groups[i]
        walk == Get(g.tree, e.route)
    IN (walk.hit /\ walk.node.path = e.route /\ walk.node.isEnd)
       <=> ~Cut(g, e.route) /\ ~Shadowed(g.tree, e.route)

(* A request the gateway forwards goes to the first configuration whose    *)
(* path begins with the node it was led to, and with its own path leads    *)
(* there unless a wild node made before catches it.                        *)
GatewayOwner ==
  /\ \A path \in Paths : LET walk == Get(gateway, path) IN
       walk.hit => walk.node.gwName
                   = configs[Min({i \in DOMAIN configs : IsPrefix(walk.node.path, configs[i])})]
  /\ \A c \in ToSet(configs) :
       ~Shadowed(gateway, c) => Get(gateway, c).hit /\ Get(gateway, c).node.path = c

(* The handler of a route under BasicAuth, of its group or its own, runs   *)
(* only with credentials, and sees the user of its own request.            *)
AuthGuards ==
  \A r \in Requests : answer[r].ran /\ answer[r].auth =>
    answer[r].credentials /\ answer[r].user = r

(* The panic of a handler with an error, or with a GrError that has its    *)
(* ErrFunc, does not get out of the engine.                                *)
PanicContained ==
  \A r \in Requests :
    answer[r].ran /\ answer[r].panic # None => answer[r].thrown = "unfit"
=============================================================================
