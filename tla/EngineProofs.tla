----------------------------- MODULE EngineProofs -----------------------------
(***************************************************************************)
(* Theorems about Engine, for any names, routes, paths, requests, Contexts *)
(* and bounds.  The invariant has two halves.  SetUp is about what the     *)
(* engine is made of: every list of middlewares begins with those of       *)
(* Default, and every tree is one that grew by Put from the routes of its  *)
(* table, in their order.  Serving is about the requests: what each one's  *)
(* Context and answer can be at each of its steps.                         *)
(***************************************************************************)
EXTENDS Engine, RouteTreeProofs

Entries == [route : Routes, method : {"ANY", "GET"}, middlewares : Seq(Added)]
Groups  == [name : Names, middlewares : Seq(Middlewares), tree : Seq(Nodes),
            table : Seq(Entries)]
Answers == [auth : BOOLEAN, credentials : BOOLEAN, ran : BOOLEAN,
            user : Requests \cup {None}, sent : Nat,
            thrown : Throws \cup {None}, panic : Throws \cup {None}]

(* Recovery is there, within Logging only.                                 *)
Guarded(chain) == Len(chain) >= 2 /\ chain[2] = "recovery"

RoutesOf(g) == [h \in DOMAIN g.table |-> g.table[h].route]

GroupSound(g) == Guarded(g.middlewares) /\ Grown(g.tree, RoutesOf(g))

SetUp ==
  /\ serving \in {"no", "routes", "gateway"}
  /\ middles \in Seq(Middlewares) /\ Guarded(middles)
  /\ groups \in Seq(Groups)
  /\ \A i \in 1..Len(groups) : GroupSound(groups[i])
  /\ configs \in Seq(Routes)
  /\ Grown(gateway, configs) /\ Named(gateway, configs)

(* What an answer may say of a request.                                    *)
Sealed(r, a) ==
  /\ a.ran /\ a.auth => a.credentials /\ a.user = r
  /\ a.ran /\ a.panic # None => a.thrown = "unfit"

Answered(a) == a.sent = 0 => a.panic # None \/ a.thrown = "handled"

Serving ==
  /\ pc \in [Requests -> {"idle", "taken", "served"}]
  /\ ctx \in [Requests -> Contexts \cup {None}]
  /\ keys \in [Contexts -> Requests \cup {None}]
  /\ pool \in SUBSET Contexts
  /\ answer \in [Requests -> Answers]
  /\ \A r \in Requests :
       /\ pc[r] # "idle" => ctx[r] \in Contexts
       /\ pc[r] # "served" => answer[r] = NoAnswer
       /\ pc[r] = "served" => Answered(answer[r])
       /\ Sealed(r, answer[r])
  /\ ContextExclusive

IInv == SetUp /\ Serving

-----------------------------------------------------------------------------
(* What the engine is made of                                              *)

LEMMA RouteIsPath ==
  ASSUME NEW r \in Routes \cup Paths
  PROVE  r \in Seq(Segments) \ {<<>>}
BY RoutesAssumption DEF Segments

LEMMA RouteSeq ==
  ASSUME NEW s \in Seq(Routes)
  PROVE  s \in Seq(Seq(Segments) \ {<<>>})
<1>1. Routes \subseteq Seq(Segments) \ {<<>>}
  BY RouteIsPath
<1> QED
  BY <1>1, SeqMonotonic

LEMMA AppendGuarded ==
  ASSUME NEW s \in Seq(Middlewares), Guarded(s), NEW m \in Added
  PROVE  Append(s, m) \in Seq(Middlewares) /\ Guarded(Append(s, m))
<1>1. m \in Middlewares
  BY AddedAssumption
<1>2. /\ Append(s, m) \in Seq(Middlewares)
      /\ Len(Append(s, m)) = Len(s) + 1
      /\ \A i \in 1..Len(s) : Append(s, m)[i] = s[i]
      /\ Len(s) \in Nat
  BY <1>1, AppendProperties
<1> QED
  BY <1>2 DEF Guarded

LEMMA RoutesOfShape ==
  ASSUME NEW g \in Groups
  PROVE  /\ RoutesOf(g) \in Seq(Routes) /\ Len(RoutesOf(g)) = Len(g.table)
         /\ DOMAIN RoutesOf(g) = 1..Len(g.table) /\ DOMAIN g.table = 1..Len(g.table)
         /\ \A h \in 1..Len(g.table) : RoutesOf(g)[h] = g.table[h].route /\ g.table[h] \in Entries
<1>1. g.table \in Seq(Entries)
  BY DEF Groups
<1>2. Len(g.table) \in Nat /\ DOMAIN g.table = 1..Len(g.table)
  BY <1>1, LenProperties
<1>3. \A h \in 1..Len(g.table) : g.table[h] \in Entries /\ g.table[h].route \in Routes
  <2>1. \A h \in 1..Len(g.table) : g.table[h] \in Entries
    BY <1>1, ElementOfSeq
  <2> QED
    BY <2>1 DEF Entries
<1>4. RoutesOf(g) \in [1..Len(g.table) -> Routes]
  BY <1>2, <1>3 DEF RoutesOf
<1>5. RoutesOf(g) \in Seq(Routes) /\ Len(RoutesOf(g)) = Len(g.table)
  BY <1>2, <1>4
<1> QED
  BY <1>2, <1>3, <1>4, <1>5 DEF RoutesOf

LEMMA AppendRoutesOf ==
  ASSUME NEW g \in Groups, NEW e \in Entries, NEW h \in Groups, h.table = Append(g.table, e)
  PROVE  RoutesOf(h) = Append(RoutesOf(g), e.route)
<1>1. g.table \in Seq(Entries) /\ e.route \in Routes
  BY DEF Groups, Entries
<1>2. /\ Len(Append(g.table, e)) = Len(g.table) + 1 /\ Len(g.table) \in Nat
      /\ \A i \in 1..(Len(g.table) + 1) :
           Append(g.table, e)[i] = IF i = Len(g.table) + 1 THEN e ELSE g.table[i]
  BY <1>1, AppendProperties
<1>3. /\ RoutesOf(g) \in Seq(Routes) /\ Len(RoutesOf(g)) = Len(g.table)
      /\ \A i \in 1..Len(g.table) : RoutesOf(g)[i] = g.table[i].route
  BY RoutesOfShape
<1>4. /\ RoutesOf(h) \in Seq(Routes) /\ Len(RoutesOf(h)) = Len(h.table)
      /\ \A i \in 1..Len(h.table) : RoutesOf(h)[i] = h.table[i].route
  BY RoutesOfShape
<1> DEFINE s == Append(RoutesOf(g), e.route)
<1>5. /\ s \in Seq(Routes) /\ Len(s) = Len(g.table) + 1
      /\ \A i \in 1..(Len(g.table) + 1) :
           s[i] = IF i = Len(g.table) + 1 THEN e.route ELSE RoutesOf(g)[i]
  BY <1>1, <1>3, AppendProperties
<1> HIDE DEF s
<1>6. \A i \in 1..(Len(g.table) + 1) : RoutesOf(h)[i] = s[i]
  BY <1>2, <1>3, <1>4, <1>5
<1>7. RoutesOf(h) = s
  BY <1>2, <1>4, <1>5, <1>6, SeqEqual
<1> QED
  BY <1>7 DEF s

(* What is not set up stays as it is when groups change but for one.       *)
LEMMA GroupsExcept ==
  ASSUME NEW s \in Seq(Groups), \A j \in 1..Len(s) : GroupSound(s[j]),
         NEW i \in 1..Len(s), NEW g \in Groups, GroupSound(g)
  PROVE  LET t == [s EXCEPT ![i] = g]
         IN t \in Seq(Groups) /\ \A j \in 1..Len(t) : GroupSound(t[j])
BY ExceptSeq

LEMMA UseKeeps ==
  ASSUME SetUp, NEW m \in Added, Use(m) PROVE SetUp'
<1>1. middles' \in Seq(Middlewares) /\ Guarded(middles')
  BY AppendGuarded DEF Use, SetUp
<1> QED
  BY <1>1 DEF Use, SettingUp, SetUp

LEMMA GroupKeeps ==
  ASSUME SetUp, NEW name \in Names, Group(name) PROVE SetUp'
<1> DEFINE g == [name |-> name, middlewares |-> middles, tree |-> <<>>, table |-> <<>>]
<1>1. g \in Groups
  BY EmptySeq DEF Groups, SetUp
<1>2. RoutesOf(g) = <<>>
  <2>1. RoutesOf(g) \in Seq(Routes) /\ Len(RoutesOf(g)) = 0
    BY <1>1, RoutesOfShape, EmptySeq
  <2> HIDE DEF g
  <2> QED
    BY <2>1, EmptySeq
<1>3. GroupSound(g)
  BY <1>2, EmptyGrown DEF GroupSound, SetUp
<1>4. groups' = Append(groups, g)
  BY DEF Group
<1> HIDE DEF g
<1>5. groups' \in Seq(Groups) /\ \A i \in 1..Len(groups') : GroupSound(groups'[i])
  <2>1. /\ groups' \in Seq(Groups) /\ Len(groups') = Len(groups) + 1 /\ Len(groups) \in Nat
        /\ \A i \in 1..(Len(groups) + 1) :
             groups'[i] = IF i = Len(groups) + 1 THEN g ELSE groups[i]
    BY <1>1, <1>4, AppendProperties DEF SetUp
  <2>2. \A i \in 1..(Len(groups) + 1) : i # Len(groups) + 1 => i \in 1..Len(groups)
    BY <2>1
  <2> QED
    BY <1>3, <2>1, <2>2 DEF SetUp
<1> QED
  BY <1>5 DEF Group, SettingUp, SetUp

LEMMA GroupUseKeeps ==
  ASSUME SetUp, NEW i \in DOMAIN groups, NEW m \in Added, GroupUse(i, m) PROVE SetUp'
<1> DEFINE g == [groups[i] EXCEPT !.middlewares = Append(@, m)]
<1>1. i \in 1..Len(groups) /\ groups \in Seq(Groups) /\ groups[i] \in Groups /\ GroupSound(groups[i])
  <2>1. i \in 1..Len(groups) /\ groups \in Seq(Groups)
    BY LenProperties DEF SetUp
  <2> QED
    BY <2>1, ElementOfSeq DEF SetUp
<1>2. groups[i].middlewares \in Seq(Middlewares) /\ Guarded(groups[i].middlewares)
  BY <1>1 DEF Groups, GroupSound
<1>3. Append(groups[i].middlewares, m) \in Seq(Middlewares)
      /\ Guarded(Append(groups[i].middlewares, m))
  BY <1>2, AppendGuarded
<1>4. g \in Groups /\ g.middlewares = Append(groups[i].middlewares, m)
      /\ g.tree = groups[i].tree /\ g.table = groups[i].table
  BY <1>1, <1>3 DEF Groups
<1>5. groups' = [groups EXCEPT ![i] = g]
  BY DEF GroupUse
<1> HIDE DEF g
<1>6. GroupSound(g)
  BY <1>1, <1>3, <1>4 DEF GroupSound, RoutesOf
<1>7. groups' \in Seq(Groups) /\ \A j \in 1..Len(groups') : GroupSound(groups'[j])
  BY <1>1, <1>4, <1>5, <1>6, GroupsExcept DEF SetUp
<1> QED
  BY <1>7 DEF GroupUse, SettingUp, SetUp

LEMMA HandleKeeps ==
  ASSUME SetUp, NEW i \in DOMAIN groups, NEW route \in Routes, NEW method \in {"ANY", "GET"},
         NEW ms \in Seq(Added), Handle(i, route, method, ms)
  PROVE  SetUp'
<1> DEFINE e == [route |-> route, method |-> method, middlewares |-> ms]
           g == [groups[i] EXCEPT !.table = Append(@, e), !.tree = Put(@, route, <<>>)]
<1>1. i \in 1..Len(groups) /\ groups \in Seq(Groups) /\ groups[i] \in Groups /\ GroupSound(groups[i])
  <2>1. i \in 1..Len(groups) /\ groups \in Seq(Groups)
    BY LenProperties DEF SetUp
  <2> QED
    BY <2>1, ElementOfSeq DEF SetUp
<1>2. e \in Entries /\ e.route = route
  BY DEF Entries
<1>3. route \in Seq(Segments) \ {<<>>} /\ <<>> \in Seq(Segments)
  BY RouteIsPath, EmptySeq
<1>4. Grown(Put(groups[i].tree, route, <<>>), Append(RoutesOf(groups[i]), route))
  BY <1>1, <1>3, PutGrows DEF GroupSound
<1>5. Put(groups[i].tree, route, <<>>) \in Seq(Nodes)
  BY <1>4 DEF Grown, WellMade
<1>6. groups[i].table \in Seq(Entries)
  BY <1>1 DEF Groups
<1>7. groups' = [groups EXCEPT ![i] = g]
  BY DEF Handle
<1> HIDE DEF e
<1>8. Append(groups[i].table, e) \in Seq(Entries)
  BY <1>2, <1>6, AppendProperties
<1>9. /\ g \in Groups /\ g.table = Append(groups[i].table, e)
      /\ g.tree = Put(groups[i].tree, route, <<>>)
      /\ g.middlewares = groups[i].middlewares
  BY <1>1, <1>5, <1>8 DEF Groups
<1> HIDE DEF g
<1>10. RoutesOf(g) = Append(RoutesOf(groups[i]), route)
  BY <1>1, <1>2, <1>9, AppendRoutesOf
<1>11. GroupSound(g)
  BY <1>1, <1>4, <1>9, <1>10 DEF GroupSound
<1>12. groups' \in Seq(Groups) /\ \A j \in 1..Len(groups') : GroupSound(groups'[j])
  BY <1>1, <1>7, <1>9, <1>11, GroupsExcept DEF SetUp
<1> QED
  BY <1>12 DEF Handle, SettingUp, SetUp

LEMMA SetGatewayConfigKeeps ==
  ASSUME SetUp, NEW route \in Routes, SetGatewayConfig(route) PROVE SetUp'
<1>1. route \in Seq(Segments) \ {<<>>} /\ route \in Seq(Segments)
  BY RouteIsPath
<1>2. gateway' = Put(gateway, route, route) /\ configs' = Append(configs, route)
  BY DEF SetGatewayConfig
<1>3. Grown(gateway', configs') /\ Named(gateway', configs')
  BY <1>1, <1>2, PutGrows DEF SetUp
<1>4. configs' \in Seq(Routes)
  BY <1>2, AppendProperties DEF SetUp
<1> QED
  BY <1>3, <1>4 DEF SetGatewayConfig, SettingUp, SetUp

LEMMA SetUpUnchanged ==
  ASSUME SetUp, UNCHANGED <<middles, groups, gateway, configs>>,
         serving' \in {"no", "routes", "gateway"}
  PROVE  SetUp'
BY DEF SetUp

LEMMA InitSetUp == Init => SetUp
<1> SUFFICES ASSUME Init PROVE SetUp
  OBVIOUS
<1>1. middles \in Seq(Middlewares) /\ Guarded(middles)
  BY DEF Init, Middlewares, Guarded
<1>2. groups \in Seq(Groups) /\ 1..Len(groups) = {} /\ configs \in Seq(Routes)
  BY EmptySeq DEF Init
<1> QED
  BY <1>1, <1>2, EmptyGrown DEF Init, SetUp

-----------------------------------------------------------------------------
(* Theorems about the routes                                               *)

(* A name that Get leaves at a node is the route of that node.             *)
LEMMA NamesAreRoutes == SetUp => RouterNameIsRoute
<1> SUFFICES ASSUME SetUp, NEW i \in DOMAIN groups, NEW path \in Paths
             PROVE  Get(groups[i].tree, path).routerName = Get(groups[i].tree, path).node.path
  BY DEF RouterNameIsRoute
<1>1. groups[i] \in Groups
  BY LenProperties, ElementOfSeq DEF SetUp
<1>2. groups[i].tree \in Seq(Nodes) /\ path \in Seq(Segments)
  BY <1>1, RouteIsPath DEF Groups
<1> QED
  BY <1>2, GetNamesItsNode

(* The first route that goes through the node is i; it may end there.      *)
MadeBy(node, made, i) ==
  /\ i \in 1..Len(made) /\ i = Min({h \in DOMAIN made : IsPrefix(node.path, made[h])})
  /\ node.isEnd <=> made[i] = node.path

(* A node of a tree that grew from routes: its maker, and if it is an end. *)
LEMMA NodeOfRoute ==
  ASSUME NEW tree, NEW made, Grown(tree, made), NEW walk, Sound(tree, walk), walk.hit
  PROVE  \E i : MadeBy(walk.node, made, i) /\ (Named(tree, made) => walk.node.gwName = made[i])
<1>1. tree \in Seq(Nodes) /\ made \in Seq(Seq(Segments) \ {<<>>}) /\ DOMAIN tree = 1..Len(tree)
  BY LenProperties DEF Grown, WellMade
<1>2. PICK j \in 1..Len(tree) : walk.node = tree[j]
  BY <1>1 DEF Sound, Placed
<1>3. PICK i \in 1..Len(made) : Owns(tree, made, j, i) /\ (tree[j].isEnd <=> made[i] = tree[j].path)
  BY DEF Grown
<1>4. i = Min({h \in DOMAIN made : IsPrefix(tree[j].path, made[h])})
  BY <1>1, <1>3, OwnerIsMin
<1>5. ASSUME Named(tree, made) PROVE tree[j].gwName = made[i]
  <2>1. PICK k \in 1..Len(made) : Owns(tree, made, j, k) /\ tree[j].gwName = made[k]
    BY <1>5 DEF Named
  <2>2. k = Min({h \in DOMAIN made : IsPrefix(tree[j].path, made[h])})
    BY <1>1, <2>1, OwnerIsMin
  <2> QED
    BY <1>4, <2>1, <2>2
<1>6. MadeBy(walk.node, made, i)
  BY <1>2, <1>3, <1>4 DEF MadeBy
<1> QED
  BY <1>2, <1>5, <1>6

LEMMA RegisteredAreServed == SetUp => RegisteredIsServed
<1> SUFFICES ASSUME SetUp, NEW n \in DOMAIN groups, NEW e \in ToSet(groups[n].table)
             PROVE  LET g    == groups[n]
                        walk == Get(g.tree, e.route)
                    IN (walk.hit /\ walk.node.path = e.route /\ walk.node.isEnd)
                       <=> ~Cut(g, e.route) /\ ~Shadowed(g.tree, e.route)
  BY DEF RegisteredIsServed
<1> DEFINE g == groups[n]
           tree == g.tree
           made == RoutesOf(g)
           route == e.route
           walk == Get(tree, route)
           over == {h \in DOMAIN made : IsPrefix(route, made[h])}
<1>1. n \in 1..Len(groups) /\ g \in Groups /\ GroupSound(g)
  <2>1. n \in 1..Len(groups) /\ groups \in Seq(Groups)
    BY LenProperties DEF SetUp
  <2> QED
    BY <2>1, ElementOfSeq DEF SetUp
<1> HIDE DEF g
<1>2. /\ DOMAIN made = 1..Len(g.table) /\ DOMAIN g.table = 1..Len(g.table)
      /\ Len(made) = Len(g.table)
      /\ \A h \in 1..Len(g.table) : made[h] = g.table[h].route /\ g.table[h] \in Entries
  BY <1>1, RoutesOfShape
<1>3. PICK x \in 1..Len(g.table) : e = g.table[x]
  BY <1>2 DEF ToSet, g
<1>4. route = made[x] /\ route \in Routes /\ x \in 1..Len(made)
  BY <1>2, <1>3 DEF Entries
<1>5. Grown(tree, made) /\ WellMade(tree) /\ Whole(tree, route)
  BY <1>1, <1>4 DEF GroupSound, Grown
<1> HIDE DEF made, route
<1>6. route \in Seq(Segments) \ {<<>>} /\ route \in Seq(Segments)
  BY <1>4, RouteIsPath
<1>7. walk.hit /\ walk.node.path = route <=> ~Shadowed(tree, route)
  BY <1>5, <1>6, FoundUnlessShadowed
<1>8. Sound(tree, walk)
  BY <1>5, <1>6, GetNamesItsNode DEF WellMade
<1> HIDE DEF walk, over
<1>9. Cut(g, route) <=> made[Min(over)] # route
  <2>1. over = {h \in DOMAIN g.table : IsPrefix(route, g.table[h].route)}
    BY <1>2 DEF over
  <2>2. over \in SUBSET Nat /\ x \in over
    <3>1. IsPrefix(route, route)
      BY <1>6 DEF IsPrefix
    <3> QED
      BY <1>2, <1>3, <1>4, <3>1 DEF over
  <2>3. Min(over) \in over
    BY <2>2, MinIsLeast
  <2>4. made[Min(over)] = g.table[Min(over)].route
    BY <1>2, <2>3 DEF over
  <2> QED
    BY <2>1, <2>4 DEF Cut
<1>10. ASSUME walk.hit, walk.node.path = route
       PROVE  walk.node.isEnd <=> made[Min(over)] = route
  <2>1. PICK i : MadeBy(walk.node, made, i)
    BY <1>5, <1>8, <1>10, NodeOfRoute
  <2>2. i = Min(over)
    BY <1>10, <2>1 DEF over, MadeBy
  <2> QED
    BY <1>10, <2>1, <2>2 DEF MadeBy
<1>11. walk.hit /\ walk.node.path = route /\ walk.node.isEnd
       <=> ~Cut(g, route) /\ ~Shadowed(tree, route)
  BY <1>7, <1>9, <1>10
<1> QED
  BY <1>11 DEF g, walk, route

LEMMA GatewayOwns == SetUp => GatewayOwner
<1> SUFFICES ASSUME SetUp PROVE GatewayOwner
  OBVIOUS
<1>1. /\ Grown(gateway, configs) /\ Named(gateway, configs) /\ WellMade(gateway)
      /\ gateway \in Seq(Nodes) /\ configs \in Seq(Routes) /\ DOMAIN configs = 1..Len(configs)
  BY LenProperties DEF SetUp, Grown, WellMade
<1>2. ASSUME NEW path \in Paths, Get(gateway, path).hit
      PROVE  Get(gateway, path).node.gwName
             = configs[Min({i \in DOMAIN configs :
                              IsPrefix(Get(gateway, path).node.path, configs[i])})]
  <2> DEFINE walk == Get(gateway, path)
  <2>1. Sound(gateway, walk)
    BY <1>1, RouteIsPath, GetNamesItsNode
  <2> HIDE DEF walk
  <2>2. walk.hit
    BY <1>2 DEF walk
  <2>3. PICK i : MadeBy(walk.node, configs, i) /\ walk.node.gwName = configs[i]
    BY <1>1, <2>1, <2>2, NodeOfRoute
  <2>4. walk.node.gwName = configs[Min({h \in DOMAIN configs : IsPrefix(walk.node.path, configs[h])})]
    BY <2>3 DEF MadeBy
  <2> QED
    BY <2>4 DEF walk
<1>3. ASSUME NEW c \in ToSet(configs), ~Shadowed(gateway, c)
      PROVE  Get(gateway, c).hit /\ Get(gateway, c).node.path = c
  <2>1. PICK i \in 1..Len(configs) : c = configs[i]
    BY <1>1 DEF ToSet
  <2>2. c \in Routes /\ Whole(gateway, c)
    BY <1>1, <2>1, ElementOfSeq DEF Grown
  <2>3. c \in Seq(Segments) \ {<<>>}
    BY <2>2, RouteIsPath
  <2> QED
    BY <1>1, <1>3, <2>2, <2>3, FoundUnlessShadowed
<1> QED
  BY <1>2, <1>3 DEF GatewayOwner

-----------------------------------------------------------------------------
(* What a request goes through                                             *)

(* The chain of middlewares of a route is guarded, and has an "auth" when  *)
(* its group or the route itself was given one.                            *)
ChainSound(out) ==
  /\ out.chain \in Seq(Middlewares) /\ Guarded(out.chain)
  /\ out.auth \in BOOLEAN
  /\ out.auth => \E i \in 1..Len(out.chain) : out.chain[i] = "auth"

LEMMA ChainOf ==
  ASSUME NEW g \in Groups, GroupSound(g), NEW e \in Entries,
         NEW out, out.chain = Chain(g, e),
         out.auth = ("auth" \in ToSet(g.middlewares) \cup ToSet(e.middlewares))
  PROVE  ChainSound(out)
<1> DEFINE a == g.middlewares
           b == e.middlewares
           c == a \o b
<1>1. a \in Seq(Middlewares) /\ Guarded(a)
  BY DEF Groups, GroupSound
<1>2. b \in Seq(Middlewares)
  <2>1. b \in Seq(Added)
    BY DEF Entries
  <2> QED
    BY <2>1, AddedAssumption, SeqMonotonic
<1> HIDE DEF a, b
<1>3. /\ c \in Seq(Middlewares) /\ Len(c) = Len(a) + Len(b) /\ Len(a) \in Nat /\ Len(b) \in Nat
      /\ \A i \in 1..(Len(a) + Len(b)) : c[i] = IF i <= Len(a) THEN a[i] ELSE b[i - Len(a)]
  BY <1>1, <1>2, ConcatProperties
<1> HIDE DEF c
<1>4. Guarded(c)
  BY <1>1, <1>3 DEF Guarded
<1>5. ASSUME "auth" \in ToSet(a) \cup ToSet(b) PROVE \E i \in 1..Len(c) : c[i] = "auth"
  <2>1. CASE "auth" \in ToSet(a)
    <3>1. PICK i \in 1..Len(a) : a[i] = "auth"
      BY <1>1, <2>1, LenProperties DEF ToSet
    <3>2. i \in 1..Len(c) /\ c[i] = "auth"
      BY <1>3, <3>1
    <3> QED
      BY <3>2
  <2>2. CASE "auth" \in ToSet(b)
    <3>1. PICK i \in 1..Len(b) : b[i] = "auth"
      BY <1>2, <2>2, LenProperties DEF ToSet
    <3>2. /\ i + Len(a) \in 1..Len(c) /\ i + Len(a) \in 1..(Len(a) + Len(b))
          /\ ~(i + Len(a) <= Len(a)) /\ (i + Len(a)) - Len(a) = i
      BY <1>3
    <3>3. c[i + Len(a)] = "auth"
      BY <1>3, <3>1, <3>2
    <3> QED
      BY <3>2, <3>3
  <2> QED
    BY <1>5, <2>1, <2>2
<1>6. out.chain = c
  BY DEF Chain, a, b, c
<1>7. out.auth = ("auth" \in ToSet(a) \cup ToSet(b))
  BY DEF a, b
<1>8. out.auth \in BOOLEAN
  BY <1>7
<1>9. out.auth => "auth" \in ToSet(a) \cup ToSet(b)
  BY <1>7
<1> QED
  BY <1>3, <1>4, <1>5, <1>6, <1>8, <1>9 DEF ChainSound

(* What Resolve answers: 404, 405, or a sound chain.                       *)
LEMMA ResolveShape ==
  ASSUME SetUp, NEW path, NEW method
  PROVE  LET out == Resolve(path, method)
         IN out.status \in {0, 404, 405} /\ (out.status = 0 => ChainSound(out))
<1> DEFINE Finds(g) == Found(g, path).hit /\ Found(g, path).node.isEnd
           finding  == {i \in DOMAIN groups : Finds(groups[i])}
           g        == groups[Min(finding)]
           Under(m) == {e \in ToSet(g.table) : e.route = Found(g, path).routerName
                                               /\ e.method = m}
           entries  == IF Under("ANY") # {} THEN Under("ANY") ELSE Under(method)
           entry    == CHOOSE e \in entries : TRUE
           out      == Resolve(path, method)
           auth     == "auth" \in ToSet(g.middlewares) \cup ToSet(entry.middlewares)
<1>1. out = CASE finding = {} -> [status |-> 404, chain |-> <<>>, auth |-> FALSE]
              [] finding # {} /\ entries = {} -> [status |-> 405, chain |-> <<>>, auth |-> FALSE]
              [] OTHER -> [status |-> 0, chain |-> Chain(g, entry), auth |-> auth]
  BY DEF Resolve
<1>2. ASSUME finding # {}, entries # {} PROVE g \in Groups /\ GroupSound(g) /\ entry \in Entries
  <2>1. DOMAIN groups = 1..Len(groups) /\ Len(groups) \in Nat /\ groups \in Seq(Groups)
    BY LenProperties DEF SetUp
  <2>2. finding \in SUBSET Nat /\ finding \subseteq 1..Len(groups)
    BY <2>1
  <2>3. Min(finding) \in 1..Len(groups)
    <3> HIDE DEF finding
    <3> QED
      BY <1>2, <2>2, MinIsLeast
  <2>4. g \in Groups /\ GroupSound(g)
    BY <2>1, <2>3, ElementOfSeq DEF SetUp
  <2> HIDE DEF g
  <2>5. entries \subseteq ToSet(g.table)
    OBVIOUS
  <2>6. ToSet(g.table) \subseteq Entries
    <3>1. g.table \in Seq(Entries)
      BY <2>4 DEF Groups
    <3> QED
      BY <3>1, LenProperties, ElementOfSeq DEF ToSet
  <2> HIDE DEF entries
  <2>7. entry \in entries
    BY <1>2
  <2> QED
    BY <2>4, <2>5, <2>6, <2>7
<1> HIDE DEF finding, g, entries, entry, out, auth
<1>3. CASE finding = {}
  BY <1>1, <1>3 DEF out
<1>4. CASE finding # {} /\ entries = {}
  BY <1>1, <1>4 DEF out
<1>5. CASE finding # {} /\ entries # {}
  <2>1. out = [status |-> 0, chain |-> Chain(g, entry), auth |-> auth]
    BY <1>1, <1>5
  <2>2. out.status = 0 /\ out.chain = Chain(g, entry) /\ out.auth = auth
    BY <2>1
  <2>3. ChainSound(out)
    BY <1>2, <1>5, <2>2, ChainOf DEF auth
  <2> QED
    BY <2>2, <2>3 DEF out
<1> QED
  BY <1>3, <1>4, <1>5

LEMMA MaxIsGreatest ==
  ASSUME NEW n \in Nat, NEW T \in SUBSET (1..n), T # {}
  PROVE  Max(T) \in T /\ \A i \in T : i <= Max(T)
<1> DEFINE U == {n - i : i \in T}
<1>1. U \in SUBSET Nat /\ U # {}
  <2>1. \A i \in T : n - i \in Nat
    OBVIOUS
  <2>2. PICK t \in T : TRUE
    OBVIOUS
  <2>3. n - t \in U
    BY <2>2
  <2> QED
    BY <2>1, <2>3
<1>2. PICK u \in U : \A v \in U : u <= v
  <2> HIDE DEF U
  <2> QED
    BY <1>1, Least
<1>3. PICK m \in T : u = n - m
  BY <1>2
<1>4. \A i \in T : n - i \in U /\ i \in Nat
  OBVIOUS
<1>5. \A i \in T : m >= i
  <2> TAKE i \in T
  <2>1. n - m <= n - i
    BY <1>2, <1>3, <1>4
  <2> QED
    BY <2>1
<1>6. Max(T) \in T /\ \A i \in T : Max(T) >= i
  BY <1>5 DEF Max
<1> QED
  BY <1>6

(* A request that gets as far as the handler has credentials, if there is  *)
(* an "auth" on its way; one that does not is turned away at its from.     *)
LEMMA BlockersShape ==
  ASSUME NEW chain \in Seq(Middlewares), NEW credentials \in BOOLEAN,
         NEW from \in Blockers(chain, credentials)
  PROVE  /\ from \in 0..Len(chain)
         /\ from = 0 /\ (\E i \in 1..Len(chain) : chain[i] = "auth") => credentials
<1> DEFINE auth == {i \in DOMAIN chain : chain[i] = "auth" /\ ~credentials}
           top == IF auth = {} THEN 0 ELSE Max(auth)
<1>1. DOMAIN chain = 1..Len(chain) /\ Len(chain) \in Nat
  BY LenProperties
<1>2. from \in {top} \cup {i \in DOMAIN chain : chain[i] = "limiter" /\ i > top}
  BY DEF Blockers
<1>3. auth # {} => top \in 1..Len(chain)
  <2>1. auth \in SUBSET (1..Len(chain))
    BY <1>1
  <2> HIDE DEF auth
  <2> QED
    BY <1>1, <2>1, MaxIsGreatest
<1>4. from = 0 => auth = {}
  <2> HIDE DEF auth
  <2> QED
    BY <1>1, <1>2, <1>3
<1>5. from \in 0..Len(chain)
  <2> HIDE DEF auth
  <2> QED
    BY <1>1, <1>2, <1>3
<1> QED
  BY <1>1, <1>4, <1>5

-----------------------------------------------------------------------------
(* What the middlewares do on the way back                                 *)

(* What was said of the handler's run stays said.                          *)
SameRun(a, b) ==
  /\ a.ran = b.ran /\ a.auth = b.auth /\ a.credentials = b.credentials
  /\ a.user = b.user /\ a.thrown = b.thrown

(* A panic is the one thrown, or a runtime error of an unfit one; and what *)
(* got past it was answered, but for what was left to an ErrFunc.          *)
RunSound(a) ==
  /\ a \in Answers
  /\ Answered(a)
  /\ a.panic \in {None, a.thrown} \/ (a.thrown = "unfit" /\ a.panic = "error")

Caught(a) == a.panic # None => a.thrown = "unfit"

LEMMA UnwindKeeps ==
  ASSUME NEW run, RunSound(run), NEW m
  PROVE  /\ RunSound(Unwind(run, m)) /\ SameRun(Unwind(run, m), run)
         /\ Caught(run) \/ m = "recovery" => Caught(Unwind(run, m))
<1> DEFINE u == Unwind(run, m)
<1>1. CASE m = "recovery" /\ run.panic = "error"
  <2> DEFINE s == IF run.sent = 0 THEN 500 ELSE run.sent
  <2>1. u = [[run EXCEPT !.sent = s] EXCEPT !.panic = None]
    BY <1>1 DEF Unwind, Render
  <2>2. s \in Nat /\ s # 0
    BY DEF RunSound, Answers
  <2> HIDE DEF s
  <2>3. u \in Answers /\ SameRun(u, run) /\ u.panic = None /\ u.sent = s
    BY <2>1, <2>2 DEF Answers, RunSound, SameRun
  <2> QED
    BY <2>2, <2>3 DEF RunSound, Caught, Answered
<1>2. CASE m = "recovery" /\ run.panic = "handled"
  <2>1. u = [run EXCEPT !.panic = None]
    BY <1>2 DEF Unwind
  <2>2. u \in Answers /\ SameRun(u, run) /\ u.panic = None /\ u.sent = run.sent
    BY <2>1 DEF Answers, RunSound, SameRun
  <2>3. run.thrown = "handled"
    BY <1>2 DEF RunSound, None
  <2>4. u.sent # 0 \/ u.thrown = "handled"
    BY <1>2, <2>2, <2>3 DEF RunSound, Answered, SameRun
  <2> QED
    BY <2>2, <2>4 DEF RunSound, Caught, Answered
<1>3. CASE m = "recovery" /\ run.panic = "unfit"
  <2>1. u = [run EXCEPT !.panic = "error"]
    BY <1>3 DEF Unwind
  <2>2. u \in Answers /\ SameRun(u, run) /\ u.panic = "error" /\ u.sent = run.sent
    BY <2>1 DEF Answers, RunSound, SameRun, Throws
  <2>3. run.thrown = "unfit"
    BY <1>3 DEF RunSound, None
  <2> QED
    BY <2>2, <2>3 DEF RunSound, Caught, Answered, SameRun, None
<1>4. CASE ~(m = "recovery" /\ run.panic \in {"error", "handled", "unfit"})
  <2>1. u = run
    BY <1>4 DEF Unwind
  <2>2. m = "recovery" => run.panic = None
    BY <1>4 DEF RunSound, Answers, Throws, None
  <2> QED
    BY <2>1, <2>2 DEF RunSound, Caught, SameRun
<1> QED
  BY <1>1, <1>2, <1>3, <1>4

(* Out of all the middlewares passed comes a sound run with nothing caught *)
(* that is not, if recovery is the second of them or there was no panic.   *)
LEMMA UnwoundKeeps ==
  ASSUME NEW run, RunSound(run), NEW passed \in Seq(Middlewares),
         Caught(run) \/ Guarded(passed)
  PROVE  /\ RunSound(Unwound(run, passed)) /\ SameRun(Unwound(run, passed), run)
         /\ Caught(Unwound(run, passed))
<1> DEFINE size == Len(passed)
           W == {w \in Answers : RunSound(w)}
           step == [n \in 1..size |-> [w \in W |-> Unwind(w, passed[n])]]
           Def(f) == f = [n \in 0..size |-> IF n = 0 THEN run ELSE Unwind(f[n - 1], passed[n])]
           after == CHOOSE f : Def(f)
<1>1. size \in Nat
  OBVIOUS
<1>2. run \in W /\ \A w \in W : RunSound(w)
  BY DEF RunSound
<1>3. step \in [1..size -> [W -> W]]
  <2>1. \A n \in 1..size, w \in W : Unwind(w, passed[n]) \in W
    BY UnwindKeeps DEF RunSound
  <2> HIDE DEF W
  <2> QED
    BY <2>1
<1>4. PICK f : Computes(f, size, W, run, step)
  <2> HIDE DEF step, W, size
  <2> QED
    BY <1>1, <1>2, <1>3, Recursion
<1>5. Def(f)
  <2> HIDE DEF W
  <2>1. f \in [0..size -> W] /\ f[0] = run /\ \A n \in 1..size : f[n] = step[n][f[n - 1]]
    BY <1>4 DEF Computes
  <2>2. ASSUME NEW n \in 1..size PROVE f[n] = Unwind(f[n - 1], passed[n])
    <3>1. n - 1 \in 0..size /\ f[n - 1] \in W
      BY <1>1, <2>1
    <3> QED
      BY <3>1, <2>1
  <2>3. ASSUME NEW n \in 0..size
        PROVE  f[n] = IF n = 0 THEN run ELSE Unwind(f[n - 1], passed[n])
    <3>1. n # 0 => n \in 1..size
      BY <1>1
    <3> QED
      BY <3>1, <2>1, <2>2
  <2>4. f = [n \in 0..size |-> f[n]]
    BY <2>1
  <2> QED
    BY <2>3, <2>4
<1>6. Unwound(run, passed) = after[size]
  BY DEF Unwound
<1>7. Def(after)
  <2> HIDE DEF Def
  <2> QED
    BY <1>5
<1> HIDE DEF after, W, step
<1>8. \A n \in 0..size : after[n] = IF n = 0 THEN run ELSE Unwind(after[n - 1], passed[n])
  BY <1>7
<1> DEFINE Good(n) == /\ RunSound(after[n]) /\ SameRun(after[n], run)
                      /\ Caught(run) \/ n >= 2 => Caught(after[n])
           P == {n \in 0..size : Good(n)}
<1>9. 0 \in P
  <2>1. after[0] = run /\ 0 \in 0..size
    BY <1>1, <1>8
  <2>2. Good(0)
    BY <2>1 DEF SameRun
  <2> HIDE DEF Good
  <2> QED
    BY <2>1, <2>2
<1>10. ASSUME NEW n \in 1..size, n - 1 \in P PROVE n \in P
  <2>1. /\ n \in 0..size /\ n # 0 /\ after[n] = Unwind(after[n - 1], passed[n])
        /\ Good(n - 1)
    BY <1>1, <1>8, <1>10
  <2>2. RunSound(after[n]) /\ SameRun(after[n], after[n - 1])
        /\ (Caught(after[n - 1]) \/ passed[n] = "recovery" => Caught(after[n]))
    BY <2>1, UnwindKeeps
  <2>3. SameRun(after[n], run)
    BY <2>1, <2>2 DEF SameRun
  <2>4. ASSUME Caught(run) \/ n >= 2 PROVE Caught(after[n])
    <3>1. CASE Caught(run) \/ n - 1 >= 2
      BY <2>1, <2>2, <3>1
    <3>2. CASE ~Caught(run) /\ ~(n - 1 >= 2)
      <4>1. n = 2 /\ Guarded(passed)
        BY <2>4, <3>2
      <4> QED
        BY <2>2, <4>1 DEF Guarded
    <3> QED
      BY <3>1, <3>2
  <2>5. Good(n)
    BY <2>2, <2>3, <2>4
  <2> HIDE DEF Good
  <2> QED
    BY <2>1, <2>5
<1>11. Good(size)
  <2> HIDE DEF P
  <2>1. \A n \in 0..size : n \in P
    BY <1>1, <1>9, <1>10, UpTo
  <2>2. size \in P
    BY <1>1, <2>1
  <2> QED
    BY <2>2 DEF P
<1>12. Caught(run) \/ size >= 2
  BY DEF Guarded
<1> QED
  BY <1>6, <1>11, <1>12

(* The run of a handler, or of a request turned away, before the way back. *)
LEMMA HandlersSound ==
  ASSUME NEW run \in Answers, run.sent = 0, run.panic = None, run.thrown = None,
         NEW h \in Handlers(run)
  PROVE  /\ RunSound(h)
         /\ h.ran = run.ran /\ h.auth = run.auth /\ h.credentials = run.credentials
         /\ h.user = run.user
<1> DEFINE sent == [run EXCEPT !.sent = 200]
<1>1. Render(run, 200) = sent
  BY DEF Render
<1>2. \/ h = sent
      \/ h = [sent EXCEPT !.thrown = "error", !.panic = "error"]
      \/ \E t \in Throws : h = [run EXCEPT !.thrown = t, !.panic = t]
  BY <1>1 DEF Handlers
<1>3. CASE h = sent
  BY <1>3 DEF RunSound, Answers, Answered
<1>4. CASE h = [sent EXCEPT !.thrown = "error", !.panic = "error"]
  <2>1. /\ sent \in Answers /\ sent.sent = 200 /\ sent.ran = run.ran /\ sent.auth = run.auth
        /\ sent.credentials = run.credentials /\ sent.user = run.user
    BY DEF Answers
  <2> HIDE DEF sent
  <2>2. /\ h \in Answers /\ h.sent = 200 /\ h.thrown = "error" /\ h.panic = "error"
        /\ h.ran = sent.ran /\ h.auth = sent.auth /\ h.credentials = sent.credentials
        /\ h.user = sent.user
    BY <1>4, <2>1 DEF Answers, Throws
  <2> QED
    BY <2>1, <2>2 DEF RunSound, Answered
<1>5. CASE \E t \in Throws : h = [run EXCEPT !.thrown = t, !.panic = t]
  BY <1>5 DEF RunSound, Answers, Answered, Throws, None
<1> QED
  BY <1>2, <1>3, <1>4, <1>5

LEMMA TurnedSound ==
  ASSUME NEW run \in Answers, run.sent = 0, run.panic = None, run.thrown = None,
         NEW m, NEW h \in Turned(run, m)
  PROVE  RunSound(h) /\ SameRun(h, run) /\ Caught(h)
<1> DEFINE status == IF m = "limiter" THEN 403 ELSE 401
<1>1. status \in Nat /\ status # 0
  OBVIOUS
<1> HIDE DEF status
<1>2. h = [run EXCEPT !.sent = status]
  BY DEF Turned, Render, status
<1> QED
  BY <1>1, <1>2 DEF RunSound, Answers, Answered, SameRun, Caught

-----------------------------------------------------------------------------
(* The steps of a request                                                  *)

LEMMA NoAnswerSound ==
  /\ NoAnswer \in Answers /\ NoAnswer.sent = 0 /\ NoAnswer.panic = None
  /\ NoAnswer.thrown = None /\ NoAnswer.ran = FALSE
  /\ \A r : Sealed(r, NoAnswer)
BY DEF NoAnswer, Answers, Sealed

(* A request that has a Context has it until it is put back: steps that    *)
(* change neither keep the Contexts apart.                                 *)
LEMMA ServedExclusive ==
  ASSUME Serving, NEW r \in Requests, pc[r] = "taken", pc' = [pc EXCEPT ![r] = "served"],
         UNCHANGED <<ctx, pool>>
  PROVE  ContextExclusive'
<1>1. \A q \in Requests : (pc[q] # "idle") <=> (pc'[q] # "idle")
  BY DEF Serving
<1>2. InUse' = InUse
  BY <1>1 DEF InUse
<1> QED
  BY <1>1, <1>2 DEF Serving, ContextExclusive

LEMMA ServedKeeps ==
  ASSUME Serving, NEW r \in Requests, Served(r),
         NEW a \in Answers, Sealed(r, a), Answered(a), answer' = [answer EXCEPT ![r] = a],
         keys' \in [Contexts -> Requests \cup {None}]
  PROVE  Serving'
<1>1. /\ pc[r] = "taken" /\ pc' = [pc EXCEPT ![r] = "served"] /\ UNCHANGED <<ctx, pool>>
  BY DEF Served
<1>2. ContextExclusive'
  BY <1>1, ServedExclusive
<1>3. pc' \in [Requests -> {"idle", "taken", "served"}] /\ answer' \in [Requests -> Answers]
  BY <1>1 DEF Serving
<1>4. ASSUME NEW q \in Requests
      PROVE  /\ pc'[q] # "idle" => ctx'[q] \in Contexts
             /\ pc'[q] # "served" => answer'[q] = NoAnswer
             /\ pc'[q] = "served" => Answered(answer'[q])
             /\ Sealed(q, answer'[q])
  <2>1. CASE q = r
    <3>1. answer'[r] = a /\ pc'[r] = "served"
      BY <1>1 DEF Serving
    <3> QED
      BY <1>1, <2>1, <3>1 DEF Serving
  <2>2. CASE q # r
    <3>1. answer'[q] = answer[q] /\ pc'[q] = pc[q]
      BY <1>1, <2>2 DEF Serving
    <3> QED
      BY <1>1, <3>1 DEF Serving
  <2> QED
    BY <2>1, <2>2
<1> QED
  BY <1>1, <1>2, <1>3, <1>4 DEF Serving

LEMMA RefuseKeeps ==
  ASSUME Serving, NEW r \in Requests, NEW status \in Nat \ {0}, Refuse(r, status)
  PROVE  Serving'
<1> DEFINE a == [answer[r] EXCEPT !.sent = status]
<1>1. pc[r] = "taken" /\ answer[r] = NoAnswer
  BY DEF Refuse, Served, Serving
<1>2. /\ a \in Answers /\ a.sent = status /\ a.ran = FALSE /\ a.panic = None
  BY <1>1, NoAnswerSound DEF Answers
<1>3. answer' = [answer EXCEPT ![r] = a]
  BY DEF Refuse
<1> HIDE DEF a
<1>4. Sealed(r, a) /\ Answered(a)
  BY <1>2 DEF Sealed, Answered
<1> QED
  BY <1>2, <1>3, <1>4, ServedKeeps DEF Refuse, Serving

LEMMA NoHandlerKeeps ==
  ASSUME SetUp, Serving, NEW r \in Requests, NoHandler(r) PROVE Serving'
<1>1. PICK status \in {out.status : out \in Resolved} \ {0} : Refuse(r, status)
  BY DEF NoHandler
<1>2. status \in Nat \ {0}
  <2>1. PICK path, method : status = Resolve(path, method).status
    BY <1>1 DEF Resolved
  <2>2. status \in {0, 404, 405}
    BY <2>1, ResolveShape
  <2> QED
    BY <1>1, <2>2
<1> QED
  BY <1>1, <1>2, RefuseKeeps

LEMMA ForwardKeeps ==
  ASSUME Serving, NEW r \in Requests, Forward(r) PROVE Serving'
<1>1. ASSUME NEW status \in {404, 200, 500}, Refuse(r, status) PROVE Serving'
  BY <1>1, RefuseKeeps
<1>2. ASSUME NilCalled(r) PROVE Serving'
  <2> DEFINE a == [answer[r] EXCEPT !.panic = "error"]
  <2>1. pc[r] = "taken" /\ answer[r] = NoAnswer /\ Served(r)
    BY <1>2 DEF NilCalled, Served, Serving
  <2>2. /\ a \in Answers /\ a.ran = FALSE /\ a.panic # None
    BY <2>1, NoAnswerSound DEF Answers, Throws, None
  <2>3. answer' = [answer EXCEPT ![r] = a] /\ keys' = keys
    BY <1>2 DEF NilCalled
  <2> HIDE DEF a
  <2>4. Sealed(r, a) /\ Answered(a)
    BY <2>2 DEF Sealed, Answered
  <2> QED
    BY <2>1, <2>2, <2>3, <2>4, ServedKeeps DEF Serving
<1> QED
  BY <1>1, <1>2 DEF Forward

(* The run that MethodHandler gives the middlewares on their way back.     *)
LEMMA MethodHandlerKeeps ==
  ASSUME Serving, NEW r \in Requests, Served(r),
         NEW out, ChainSound(out), NEW credentials \in BOOLEAN,
         NEW from \in Blockers(out.chain, credentials),
         MethodHandler([answer[r] EXCEPT !.auth = out.auth, !.credentials = credentials],
                       r, out.chain, from)
  PROVE  Serving'
<1> DEFINE chain  == out.chain
           before == [answer[r] EXCEPT !.auth = out.auth, !.credentials = credentials]
           passed == SubSeq(chain, from + 1, Len(chain))
           user   == IF "auth" \in ToSet(passed) THEN r ELSE keys[ctx[r]]
           run0   == [before EXCEPT !.ran = TRUE, !.user = user]
           inner  == IF from # 0 THEN Turned(before, chain[from]) ELSE Handlers(run0)
<1>1. /\ pc[r] = "taken" /\ answer[r] = NoAnswer /\ ctx[r] \in Contexts
      /\ keys[ctx[r]] \in Requests \cup {None}
  BY DEF Served, Serving
<1>2. /\ chain \in Seq(Middlewares) /\ Guarded(chain) /\ Len(chain) \in Nat
      /\ out.auth \in BOOLEAN
      /\ out.auth => \E i \in 1..Len(chain) : chain[i] = "auth"
  BY DEF ChainSound
<1>3. from \in 0..Len(chain) /\ (from = 0 /\ (\E i \in 1..Len(chain) : chain[i] = "auth") => credentials)
  BY <1>2, BlockersShape
<1>4. /\ before \in Answers /\ before.sent = 0 /\ before.panic = None /\ before.thrown = None
      /\ before.ran = FALSE /\ before.auth = out.auth /\ before.credentials = credentials
  BY <1>1, <1>2, NoAnswerSound DEF Answers
<1>5. /\ keys' = [keys EXCEPT ![ctx[r]] = user]
      /\ \E run \in inner : answer' = [answer EXCEPT ![r] = Unwound(run, passed)]
  BY DEF MethodHandler
<1>6. passed \in Seq(Middlewares) /\ (from = 0 => passed = chain)
  <2>1. \A i \in (from + 1)..Len(chain) : chain[i] \in Middlewares
    <3>1. \A i \in (from + 1)..Len(chain) : i \in 1..Len(chain)
      BY <1>2, <1>3
    <3> QED
      BY <1>2, <3>1, ElementOfSeq
  <2>2. from + 1 \in Int /\ Len(chain) \in Int
    BY <1>2, <1>3
  <2>3. passed \in Seq(Middlewares)
    BY <2>1, <2>2, SubSeqProperties
  <2>4. SubSeq(chain, 1, Len(chain)) = chain
    BY <1>2, SubSeqFull
  <2> QED
    BY <2>3, <2>4
<1> HIDE DEF before, passed, chain
<1>7. user \in Requests \cup {None}
  BY <1>1
<1>8. keys' \in [Contexts -> Requests \cup {None}]
  <2> HIDE DEF user
  <2> QED
    BY <1>1, <1>5, <1>7 DEF Serving
<1>9. out.auth /\ from = 0 => credentials /\ user = r
  <2> SUFFICES ASSUME out.auth, from = 0 PROVE user = r
    BY <1>2, <1>3
  <2>1. "auth" \in ToSet(passed)
    BY <1>2, <1>6, LenProperties DEF ToSet
  <2> QED
    BY <2>1
<1> HIDE DEF user
<1>10. PICK run \in inner : answer' = [answer EXCEPT ![r] = Unwound(run, passed)]
  BY <1>5
<1> DEFINE a == Unwound(run, passed)
<1>11. a \in Answers /\ Sealed(r, a) /\ Answered(a)
  <2>1. CASE from # 0
    <3>1. RunSound(run) /\ SameRun(run, before) /\ Caught(run)
      BY <1>4, <1>10, <2>1, TurnedSound
    <3>2. RunSound(a) /\ SameRun(a, run) /\ Caught(a)
      BY <1>6, <3>1, UnwoundKeeps
    <3>3. a.ran = FALSE
      BY <1>4, <3>1, <3>2 DEF SameRun
    <3> HIDE DEF a
    <3> QED
      BY <3>2, <3>3 DEF RunSound, Sealed, Caught
  <2>2. CASE from = 0
    <3>1. /\ run0 \in Answers /\ run0.sent = 0 /\ run0.panic = None /\ run0.thrown = None
          /\ run0.auth = out.auth /\ run0.credentials = credentials
          /\ run0.user = user
      BY <1>4, <1>7 DEF Answers
    <3> HIDE DEF run0
    <3>2. /\ RunSound(run) /\ run.auth = out.auth /\ run.credentials = credentials
          /\ run.user = user
      BY <1>10, <2>2, <3>1, HandlersSound
    <3>3. RunSound(a) /\ SameRun(a, run) /\ Caught(a)
      BY <1>2, <1>6, <2>2, <3>2, UnwoundKeeps
    <3>4. a.auth = out.auth /\ a.credentials = credentials /\ a.user = user
      BY <3>2, <3>3 DEF SameRun
    <3> HIDE DEF a
    <3> QED
      BY <1>9, <2>2, <3>3, <3>4 DEF RunSound, Sealed, Caught
  <2> QED
    BY <2>1, <2>2
<1> HIDE DEF a
<1>12. answer' = [answer EXCEPT ![r] = a]
  BY <1>10 DEF a
<1> QED
  BY <1>8, <1>11, <1>12, ServedKeeps

LEMMA AnswerKeeps ==
  ASSUME SetUp, Serving, NEW r \in Requests, Answer(r) PROVE Serving'
<1>1. PICK out \in {o \in Resolved : o.status = 0}, credentials \in BOOLEAN :
        \E from \in Blockers(out.chain, credentials) :
          MethodHandler([answer[r] EXCEPT !.auth = out.auth, !.credentials = credentials],
                        r, out.chain, from)
  BY DEF Answer
<1>2. ChainSound(out)
  <2>1. PICK path, method : out = Resolve(path, method)
    BY DEF Resolved
  <2> QED
    BY <2>1, ResolveShape
<1> QED
  BY <1>1, <1>2, MethodHandlerKeeps DEF Answer

LEMMA ServeHTTPKeeps ==
  ASSUME Serving, NEW r \in Requests, ServeHTTP(r) PROVE Serving'
<1>1. PICK c \in Contexts :
        /\ \/ c \in pool /\ UNCHANGED keys
           \/ c \notin InUse /\ keys' = [keys EXCEPT ![c] = None]
        /\ pool' = pool \ {c} /\ ctx' = [ctx EXCEPT ![r] = c]
  BY DEF ServeHTTP
<1>2. pc[r] = "idle" /\ pc' = [pc EXCEPT ![r] = "taken"] /\ answer' = answer
  BY DEF ServeHTTP
<1>3. c \notin InUse
  BY <1>1 DEF Serving, ContextExclusive
<1>4. keys' \in [Contexts -> Requests \cup {None}]
  BY <1>1 DEF Serving
<1>5. \A q \in Requests : /\ q # r => pc'[q] = pc[q] /\ ctx'[q] = ctx[q]
                          /\ q = r => pc'[q] = "taken" /\ ctx'[q] = c
  BY <1>1, <1>2 DEF Serving
<1>6. \A q \in Requests : q # r /\ pc[q] # "idle" => ctx[q] # c
  BY <1>3 DEF InUse
<1>7. \A x, q \in Requests : x # q /\ pc'[x] # "idle" /\ pc'[q] # "idle" => ctx'[x] # ctx'[q]
  <2> TAKE x, q \in Requests
  <2> HAVE x # q /\ pc'[x] # "idle" /\ pc'[q] # "idle"
  <2>1. CASE x = r
    BY <1>5, <1>6, <2>1
  <2>2. CASE q = r
    BY <1>5, <1>6, <2>2
  <2>3. CASE x # r /\ q # r
    BY <1>5, <2>3 DEF Serving, ContextExclusive
  <2> QED
    BY <2>1, <2>2, <2>3
<1>8. InUse' \subseteq InUse \cup {c}
  BY <1>5 DEF InUse
<1>9. InUse' \cap pool' = {}
  BY <1>1, <1>8 DEF Serving, ContextExclusive
<1>10. ContextExclusive'
  BY <1>7, <1>9 DEF ContextExclusive
<1>11. pc' \in [Requests -> {"idle", "taken", "served"}]
       /\ ctx' \in [Requests -> Contexts \cup {None}] /\ pool' \in SUBSET Contexts
  BY <1>1, <1>2 DEF Serving
<1>12. \A q \in Requests :
         /\ pc'[q] # "idle" => ctx'[q] \in Contexts
         /\ pc'[q] # "served" => answer'[q] = NoAnswer
         /\ pc'[q] = "served" => Answered(answer'[q])
         /\ Sealed(q, answer'[q])
  BY <1>2, <1>5 DEF Serving
<1> QED
  BY <1>2, <1>4, <1>10, <1>11, <1>12 DEF Serving

LEMMA ReturnKeeps ==
  ASSUME Serving, NEW r \in Requests, Return(r) PROVE Serving'
<1>1. /\ pc[r] = "served" /\ pc' = [pc EXCEPT ![r] = "idle"]
      /\ pool' \subseteq pool \cup {ctx[r]} /\ ctx[r] \in Contexts
      /\ answer' = [answer EXCEPT ![r] = NoAnswer] /\ ctx' = ctx /\ keys' = keys
  BY DEF Return, Serving
<1>2. \A q \in Requests : /\ q # r => pc'[q] = pc[q] /\ answer'[q] = answer[q]
                          /\ q = r => pc'[q] = "idle" /\ answer'[q] = NoAnswer
  BY <1>1 DEF Serving
<1>3. \A x, q \in Requests : x # q /\ pc'[x] # "idle" /\ pc'[q] # "idle" => ctx'[x] # ctx'[q]
  BY <1>1, <1>2 DEF Serving, ContextExclusive
<1>4. InUse' \subseteq InUse
  BY <1>1, <1>2 DEF InUse
<1>5. ctx[r] \notin InUse'
  <2>1. \A q \in Requests : q # r /\ pc[q] # "idle" => ctx[q] # ctx[r]
    BY <1>1 DEF Serving, ContextExclusive
  <2>2. \A q \in Requests : pc'[q] # "idle" => q # r /\ pc[q] # "idle"
    BY <1>2
  <2> QED
    BY <1>1, <2>1, <2>2 DEF InUse
<1>6. InUse' \cap pool' = {}
  BY <1>1, <1>4, <1>5 DEF Serving, ContextExclusive
<1>7. ContextExclusive'
  BY <1>3, <1>6 DEF ContextExclusive
<1>8. /\ pc' \in [Requests -> {"idle", "taken", "served"}]
      /\ answer' \in [Requests -> Answers] /\ pool' \in SUBSET Contexts
  BY <1>1, NoAnswerSound DEF Serving
<1>9. \A q \in Requests :
         /\ pc'[q] # "idle" => ctx'[q] \in Contexts
         /\ pc'[q] # "served" => answer'[q] = NoAnswer
         /\ pc'[q] = "served" => Answered(answer'[q])
         /\ Sealed(q, answer'[q])
  BY <1>1, <1>2, NoAnswerSound DEF Serving
<1> QED
  BY <1>1, <1>7, <1>8, <1>9 DEF Serving

LEMMA ServingUnchanged ==
  ASSUME Serving, UNCHANGED <<pc, ctx, keys, pool, answer>> PROVE Serving'
BY DEF Serving, ContextExclusive, InUse

LEMMA InitServing == Init => Serving
<1> SUFFICES ASSUME Init PROVE Serving
  OBVIOUS
<1>1. InUse = {}
  BY DEF Init, InUse
<1> QED
  BY <1>1, NoAnswerSound DEF Init, Serving, ContextExclusive

-----------------------------------------------------------------------------
(* The theorems                                                            *)

LEMMA NextKeeps == IInv /\ [Next]_vars => IInv'
<1> SUFFICES ASSUME SetUp, Serving, [Next]_vars PROVE SetUp' /\ Serving'
  BY DEF IInv
<1>1. ASSUME NEW m \in Added, Use(m) PROVE SetUp' /\ Serving'
  BY <1>1, UseKeeps, ServingUnchanged DEF Use, SettingUp
<1>2. ASSUME NEW name \in Names, Group(name) PROVE SetUp' /\ Serving'
  BY <1>2, GroupKeeps, ServingUnchanged DEF Group, SettingUp
<1>3. ASSUME NEW i \in DOMAIN groups, NEW m \in Added, GroupUse(i, m) PROVE SetUp' /\ Serving'
  BY <1>3, GroupUseKeeps, ServingUnchanged DEF GroupUse, SettingUp
<1>4. ASSUME NEW i \in DOMAIN groups, NEW route \in Routes, NEW method \in {"ANY", "GET"},
             NEW ms \in {<<>>} \cup {<<m>> : m \in Added}, Handle(i, route, method, ms)
      PROVE  SetUp' /\ Serving'
  <2>1. ms \in Seq(Added)
    <3>1. <<>> \in Seq(Added)
      BY EmptySeq
    <3>2. \A m \in Added : <<m>> \in Seq(Added)
      OBVIOUS
    <3> QED
      BY <3>1, <3>2
  <2>2. SetUp'
    BY <1>4, <2>1, HandleKeeps
  <2>3. UNCHANGED <<pc, ctx, keys, pool, answer>>
    BY <1>4 DEF Handle, SettingUp
  <2> QED
    BY <2>2, <2>3, ServingUnchanged
<1>5. ASSUME NEW route \in Routes, SetGatewayConfig(route) PROVE SetUp' /\ Serving'
  BY <1>5, SetGatewayConfigKeeps, ServingUnchanged DEF SetGatewayConfig, SettingUp
<1>6. ASSUME NEW how \in {"routes", "gateway"}, Run(how) PROVE SetUp' /\ Serving'
  BY <1>6, SetUpUnchanged, ServingUnchanged DEF Run
<1>7. ASSUME NEW r \in Requests,
             ServeHTTP(r) \/ NoHandler(r) \/ Answer(r) \/ Forward(r) \/ Return(r)
      PROVE  SetUp' /\ Serving'
  <2>1. UNCHANGED setup
    BY <1>7 DEF ServeHTTP, NoHandler, Answer, Forward, Return, Refuse, NilCalled, Served
  <2>2. SetUp'
    BY <2>1, SetUpUnchanged DEF setup, SetUp
  <2>3. Serving'
    BY <1>7, ServeHTTPKeeps, NoHandlerKeeps, AnswerKeeps, ForwardKeeps, ReturnKeeps
  <2> QED
    BY <2>2, <2>3
<1>8. CASE UNCHANGED vars
  BY <1>8, SetUpUnchanged, ServingUnchanged DEF vars, SetUp
<1> QED
  BY <1>1, <1>2, <1>3, <1>4, <1>5, <1>6, <1>7, <1>8 DEF Next

(* The engine keeps its lists of middlewares and its trees as Put made     *)
(* them, and its requests keep to their Contexts: the inductive invariant. *)
THEOREM EngineCorrect == Spec => []IInv
<1>1. Init => IInv
  BY InitSetUp, InitServing DEF IInv
<1>2. IInv /\ [Next]_vars => IInv'
  BY NextKeeps
<1> QED
  BY <1>1, <1>2, PTL DEF Spec

(* The variables keep their types, and a request that has been served was  *)
(* answered, unless its panic went on or was left to an ErrFunc.           *)
THEOREM TypeCorrect == Spec => []TypeOK
<1>1. IInv => TypeOK
  <2> SUFFICES ASSUME SetUp, Serving PROVE TypeOK
    BY DEF IInv
  <2>1. ASSUME NEW i \in DOMAIN groups
        PROVE  /\ groups[i].name \in Names /\ groups[i].middlewares \in Seq(Middlewares)
               /\ \A e \in ToSet(groups[i].table) :
                    e.route \in Routes /\ e.method \in {"ANY", "GET"} /\ e.middlewares \in Seq(Added)
    <3>1. groups[i] \in Groups
      BY LenProperties, ElementOfSeq DEF SetUp
    <3>2. groups[i].table \in Seq(Entries)
      BY <3>1 DEF Groups
    <3>3. ToSet(groups[i].table) \subseteq Entries
      BY <3>2, LenProperties, ElementOfSeq DEF ToSet
    <3> QED
      BY <3>1, <3>3 DEF Groups, Entries
  <2>2. ASSUME NEW r \in Requests
        PROVE  /\ answer[r].panic \in Throws \cup {None}
               /\ pc[r] = "served" /\ answer[r].sent = 0 =>
                    answer[r].panic # None \/ answer[r].thrown = "handled"
    <3>1. answer[r] \in Answers /\ (pc[r] = "served" => Answered(answer[r]))
      BY DEF Serving
    <3> QED
      BY <3>1 DEF Answers, Answered
  <2> QED
    BY <2>1, <2>2 DEF TypeOK, SetUp, Serving
<1> QED
  BY <1>1, EngineCorrect, PTL

(* No two requests in flight have one Context, and none in use is in the   *)
(* pool, whatever order they are taken and put back in (ServeHTTP).        *)
THEOREM ContextsCorrect == Spec => []ContextExclusive
<1>1. IInv => ContextExclusive
  BY DEF IInv, Serving
<1> QED
  BY <1>1, EngineCorrect, PTL

(* Whatever routes are registered, a name that Get writes into a shared    *)
(* node is the route of that node, so that requests cannot mix them up.    *)
THEOREM RouterNamesCorrect == Spec => []RouterNameIsRoute
<1>1. IInv => RouterNameIsRoute
  BY NamesAreRoutes DEF IInv
<1> QED
  BY <1>1, EngineCorrect, PTL

(* In whatever order routes are registered, one is found by its own path   *)
(* exactly when it is not cut off and not shadowed.                        *)
THEOREM RegisteredCorrect == Spec => []RegisteredIsServed
<1>1. IInv => RegisteredIsServed
  BY RegisteredAreServed DEF IInv
<1> QED
  BY <1>1, EngineCorrect, PTL

(* A request the gateway forwards goes to the configuration that made the  *)
(* node it was led to.                                                     *)
THEOREM GatewayCorrect == Spec => []GatewayOwner
<1>1. IInv => GatewayOwner
  BY GatewayOwns DEF IInv
<1> QED
  BY <1>1, EngineCorrect, PTL

(* A handler under BasicAuth runs only with credentials, for its own user, *)
(* for any chain of middlewares (methodHandler, BasicAuth).                *)
THEOREM AuthCorrect == Spec => []AuthGuards
<1>1. IInv => AuthGuards
  BY DEF IInv, Serving, Sealed, AuthGuards
<1> QED
  BY <1>1, EngineCorrect, PTL

(* What Recovery can handle does not get out of the engine, for any chain  *)
(* of middlewares and any panic (recovery.go).                             *)
THEOREM PanicsContained == Spec => []PanicContained
<1>1. IInv => PanicContained
  BY DEF IInv, Serving, Sealed, PanicContained
<1> QED
  BY <1>1, EngineCorrect, PTL
=============================================================================
