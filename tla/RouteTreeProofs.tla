--------------------------- MODULE RouteTreeProofs ---------------------------
(***************************************************************************)
(* What Put keeps of a tree and what Get does with one, for every tree and *)
(* every path.  A walk is a recursive function: that there is one, and     *)
(* what each of its steps keeps, is by induction on the segments, and the  *)
(* induction is over sets of naturals (Least), for the theorems of the     *)
(* library that have an operator as a parameter cannot be used here.       *)
(***************************************************************************)
EXTENDS RouteTree, WellFoundedInduction, SequenceTheorems, TLAPS

(* A set of naturals that is not empty has a least element.                *)
LEMMA Least ==
  ASSUME NEW T \in SUBSET Nat, T # {}
  PROVE  \E m \in T : \A n \in T : m <= n
<1>1. PICK m \in T : \A n \in T : ~(<<n, m>> \in OpToRel(<, Nat))
  BY NatLessThanWellFounded, WFMin
<1>2. \A n \in T : ~(n < m)
  BY <1>1 DEF OpToRel
<1>3. m \in Nat /\ \A n \in T : n \in Nat
  OBVIOUS
<1>4. \A n \in T : m <= n
  BY <1>2, <1>3
<1> QED
  BY <1>4

LEMMA MinIsLeast ==
  ASSUME NEW T \in SUBSET Nat, T # {}
  PROVE  Min(T) \in T /\ \A n \in T : Min(T) <= n
BY Least DEF Min

(* Induction over the numbers up to n, for the set of those it is shown for. *)
LEMMA UpTo ==
  ASSUME NEW n \in Nat, NEW P, 0 \in P,
         \A i \in 1..n : i - 1 \in P => i \in P
  PROVE  \A i \in 0..n : i \in P
<1> DEFINE Bad == {i \in 0..n : i \notin P}
<1> SUFFICES ASSUME Bad # {} PROVE FALSE
  OBVIOUS
<1>1. PICK m \in Bad : \A k \in Bad : m <= k
  <2>1. Bad \in SUBSET Nat
    OBVIOUS
  <2> QED
    BY <2>1, Least
<1>2. m \in 1..n /\ m - 1 \in 0..n /\ ~(m <= m - 1)
  BY <1>1
<1>3. m - 1 \in P
  BY <1>1, <1>2
<1> QED
  BY <1>1, <1>2, <1>3

(* f is what the recursion on the numbers up to n defines, within W.       *)
Computes(f, n, W, base, step) ==
  f \in [0..n -> W] /\ f[0] = base /\ \A i \in 1..n : f[i] = step[i][f[i - 1]]

(* A function defined by recursion on the numbers up to n exists, and its  *)
(* values stay in W when the steps do.                                     *)
LEMMA Recursion ==
  ASSUME NEW n \in Nat, NEW W, NEW base \in W, NEW step \in [1..n -> [W -> W]]
  PROVE  \E f : Computes(f, n, W, base, step)
<1> DEFINE Good(k) == \E f \in [0..k -> W] :
                        f[0] = base /\ \A i \in 1..k : f[i] = step[i][f[i - 1]]
           P == {k \in 0..n : Good(k)}
<1>1. 0 \in P
  <2> DEFINE f == [i \in 0..0 |-> base]
  <2>1. f \in [0..0 -> W] /\ f[0] = base /\ 1..0 = {}
    OBVIOUS
  <2>2. Good(0)
    BY <2>1
  <2> QED
    BY <2>2
<1>2. ASSUME NEW k \in 1..n, k - 1 \in P PROVE k \in P
  <2>1. PICK f \in [0..(k - 1) -> W] :
          f[0] = base /\ \A i \in 1..(k - 1) : f[i] = step[i][f[i - 1]]
    BY <1>2
  <2> DEFINE g == [i \in 0..k |-> IF i = k THEN step[k][f[k - 1]] ELSE f[i]]
  <2>2. k \in Nat /\ k # 0 /\ k - 1 \in 0..(k - 1) /\ k - 1 # k /\ k - 1 \in 0..k
    OBVIOUS
  <2>3. f[k - 1] \in W
    BY <2>2
  <2>4. step[k][f[k - 1]] \in W
    BY <2>3
  <2>5. g \in [0..k -> W]
    <3>1. ASSUME NEW i \in 0..k PROVE (IF i = k THEN step[k][f[k - 1]] ELSE f[i]) \in W
      <4>1. i # k => i \in 0..(k - 1)
        BY <2>2
      <4> QED
        BY <4>1, <2>4
    <3> QED
      BY <3>1
  <2>6. g[0] = base
    BY <2>1, <2>2
  <2>7. ASSUME NEW i \in 1..k PROVE g[i] = step[i][g[i - 1]]
    <3>1. i - 1 \in 0..k /\ i - 1 # k /\ g[i - 1] = f[i - 1]
      BY <2>2
    <3>2. CASE i = k
      BY <3>1, <3>2, <2>2
    <3>3. CASE i # k
      <4>1. i \in 1..(k - 1) /\ g[i] = f[i]
        BY <3>3
      <4> QED
        BY <4>1, <3>1, <2>1
    <3> QED
      BY <3>2, <3>3
  <2> HIDE DEF g
  <2>8. Good(k)
    BY <2>5, <2>6, <2>7
  <2>9. k \in 0..n
    OBVIOUS
  <2> HIDE DEF Good
  <2> QED
    BY <2>8, <2>9
<1>3. n \in P
  <2> HIDE DEF P
  <2>1. \A i \in 0..n : i \in P
    BY <1>1, <1>2, UpTo
  <2> QED
    BY <2>1
<1> QED
  BY <1>3 DEF Computes

-----------------------------------------------------------------------------
(* Trees                                                                   *)

Segments == STRING

Nodes == [path : Seq(Segments) \ {<<>>}, isEnd : BOOLEAN, gwName : Seq(Segments)]

Walks == [node : Nodes \cup {Root}, routerName : Seq(Segments),
          hit : BOOLEAN, stop : BOOLEAN]

Placed(tree, walk) ==
  walk.node = Root \/ \E i \in DOMAIN tree : walk.node = tree[i]

LEMMA LastIsSegment ==
  ASSUME NEW s \in Seq(Segments), s # <<>>
  PROVE  /\ Len(s) \in Nat /\ Len(s) >= 1
         /\ Last(s) \in Segments
         /\ Front(s) \in Seq(Segments)
         /\ Len(Front(s)) = Len(s) - 1
         /\ \A k \in 1..(Len(s) - 1) : Front(s)[k] = s[k]
         /\ s = Append(Front(s), Last(s))
<1>1. Len(s) \in Nat /\ Len(s) >= 1 /\ Last(s) \in Segments
  BY EmptySeq DEF Last
<1>2. /\ Front(s) \in Seq(Segments)
      /\ Len(Front(s)) = Len(s) - 1
      /\ \A k \in 1..(Len(s) - 1) : Front(s)[k] = s[k]
  <2>1. \A k \in 1..(Len(s) - 1) : s[k] \in Segments
    BY <1>1
  <2> DEFINE m == Len(s) - 1
  <2>2. m \in Int /\ 1 \in Int /\ m >= 0
    BY <1>1
  <2> HIDE DEF m
  <2>3. /\ SubSeq(s, 1, m) \in Seq(Segments)
        /\ Len(SubSeq(s, 1, m)) = (IF 1 <= m THEN m - 1 + 1 ELSE 0)
        /\ \A k \in 1..(m - 1 + 1) : SubSeq(s, 1, m)[k] = s[1 + k - 1]
    BY <2>1, <2>2, SubSeqProperties DEF m
  <2>4. Len(SubSeq(s, 1, m)) = m
    BY <2>2, <2>3
  <2>5. \A k \in 1..m : SubSeq(s, 1, m)[k] = s[k]
    BY <2>2, <2>3
  <2> QED
    BY <2>3, <2>4, <2>5 DEF Front, m
<1>3. /\ Append(Front(s), Last(s)) \in Seq(Segments)
      /\ Len(Append(Front(s), Last(s))) = Len(s)
      /\ \A k \in 1..Len(s) : s[k] = Append(Front(s), Last(s))[k]
  BY <1>1, <1>2, AppendProperties DEF Last
<1>4. s = Append(Front(s), Last(s))
  BY <1>3, SeqEqual
<1> QED
  BY <1>1, <1>2, <1>4

LEMMA FirstOfStep ==
  ASSUME NEW tree \in Seq(Nodes), NEW node, NEW segment, Step(tree, node, segment) # {}
  PROVE  /\ First(Step(tree, node, segment)) \in Step(tree, node, segment)
         /\ \A i \in Step(tree, node, segment) : First(Step(tree, node, segment)) <= i
         /\ Step(tree, node, segment) \subseteq 1..Len(tree)
         /\ \A i \in Step(tree, node, segment) : Front(tree[i].path) = node.path
<1>1. Step(tree, node, segment) \subseteq Children(tree, node)
  BY DEF Step
<1>2. Children(tree, node) \subseteq 1..Len(tree) /\ Len(tree) \in Nat
  BY DEF Children
<1>3. Step(tree, node, segment) \in SUBSET Nat
  BY <1>1, <1>2
<1>4. \A i \in Children(tree, node) : Front(tree[i].path) = node.path
  BY DEF Children
<1> QED
  BY <1>1, <1>2, <1>3, <1>4, MinIsLeast DEF First

(* Where a walk can be: at the root or at a node of the tree, with the     *)
(* name of that node; and it is at a node when it found one.               *)
Sound(tree, walk) ==
  /\ walk \in Walks
  /\ Placed(tree, walk)
  /\ walk.routerName = walk.node.path
  /\ walk.hit => walk.node # Root

LEMMA NodeShape ==
  ASSUME NEW tree \in Seq(Nodes), NEW i \in 1..Len(tree)
  PROVE  /\ tree[i] \in Nodes /\ tree[i] # Root
         /\ tree[i].path \in Seq(Segments) /\ tree[i].path # <<>>
         /\ tree[i].gwName \in Seq(Segments) /\ tree[i].isEnd \in BOOLEAN
         /\ Last(tree[i].path) \in Segments
         /\ tree[i].path = Append(Front(tree[i].path), Last(tree[i].path))
<1>1. tree[i] \in Nodes
  BY ElementOfSeq
<1>2. tree[i].path \in Seq(Segments) /\ tree[i].path # <<>>
  BY <1>1 DEF Nodes
<1>3. tree[i] # Root
  BY <1>2 DEF Root
<1>4. tree[i].gwName \in Seq(Segments) /\ tree[i].isEnd \in BOOLEAN
  BY <1>1 DEF Nodes
<1> QED
  BY <1>1, <1>2, <1>3, <1>4, LastIsSegment

LEMMA StartIsSound ==
  ASSUME NEW tree
  PROVE  Sound(tree, Start)
<1>1. <<>> \in Seq(Segments)
  BY EmptySeq
<1> QED
  BY <1>1 DEF Sound, Start, Walks, Placed, Root

LEMMA VisitIsSound ==
  ASSUME NEW tree \in Seq(Nodes), NEW walk, Sound(tree, walk), NEW segment
  PROVE  Sound(tree, Visit(tree, walk, segment))
<1> DEFINE next == Step(tree, walk.node, segment)
           node == tree[First(next)]
           v == [node |-> node, routerName |-> Append(walk.routerName, Last(node.path)),
                 hit |-> TRUE, stop |-> ~Matches(node, segment)]
<1>1. CASE walk.stop
  BY <1>1 DEF Visit
<1>2. CASE ~walk.stop /\ next = {}
  <2>1. Visit(tree, walk, segment) = [walk EXCEPT !.hit = FALSE]
    BY <1>2 DEF Visit
  <2> QED
    BY <2>1 DEF Sound, Walks, Placed
<1>3. CASE ~walk.stop /\ next # {}
  <2>1. Visit(tree, walk, segment) = v
    BY <1>3 DEF Visit
  <2>2. First(next) \in 1..Len(tree) /\ Front(node.path) = walk.node.path
    BY <1>3, FirstOfStep
  <2>3. /\ node \in Nodes /\ node # Root
        /\ Last(node.path) \in Segments
        /\ node.path = Append(Front(node.path), Last(node.path))
    BY <2>2, NodeShape
  <2>4. walk.routerName \in Seq(Segments) /\ walk.routerName = walk.node.path
    BY DEF Sound, Walks
  <2>5. Append(walk.routerName, Last(node.path)) \in Seq(Segments)
    BY <2>3, <2>4, AppendProperties
  <2>6. Matches(node, segment) \in BOOLEAN
    BY DEF Matches, Wild
  <2>7. First(next) \in DOMAIN tree
    BY <2>2, LenProperties
  <2>8. v.routerName = v.node.path
    BY <2>2, <2>3, <2>4
  <2>9. v.node = tree[First(next)] /\ v.node # Root
    BY <2>3
  <2> HIDE DEF node, next
  <2>10. v \in Walks
    BY <2>3, <2>5, <2>6 DEF Walks
  <2> HIDE DEF v
  <2>11. Sound(tree, v)
    BY <2>7, <2>8, <2>9, <2>10 DEF Sound, Placed
  <2> QED
    BY <2>1, <2>11
<1> QED
  BY <1>1, <1>2, <1>3

(* The steps of a walk, and that each of them is sound.                    *)
LEMMA WalkSteps ==
  ASSUME NEW tree \in Seq(Nodes), NEW path \in Seq(Segments)
  PROVE  /\ Walk(tree, path)[0] = Start
         /\ \A n \in 1..Len(path) :
              Walk(tree, path)[n] = Visit(tree, Walk(tree, path)[n - 1], path[n])
         /\ \A n \in 0..Len(path) : Sound(tree, Walk(tree, path)[n])
<1> DEFINE W == {w \in Walks : Sound(tree, w)}
           step == [i \in 1..Len(path) |-> [w \in W |-> Visit(tree, w, path[i])]]
           Def(f) == f = [i \in 0..Len(path) |->
                            IF i = 0 THEN Start ELSE Visit(tree, f[i - 1], path[i])]
<1>1. Len(path) \in Nat
  OBVIOUS
<1>2. Start \in W
  BY StartIsSound DEF Sound
<1>3. step \in [1..Len(path) -> [W -> W]]
  <2>1. \A i \in 1..Len(path), w \in W : Visit(tree, w, path[i]) \in W
    BY VisitIsSound DEF Sound
  <2> HIDE DEF W
  <2> QED
    BY <2>1
<1>4. PICK f \in [0..Len(path) -> W] :
        f[0] = Start /\ \A i \in 1..Len(path) : f[i] = step[i][f[i - 1]]
  <2> HIDE DEF step, W
  <2>1. \E f : Computes(f, Len(path), W, Start, step)
    BY <1>1, <1>2, <1>3, Recursion
  <2> QED
    BY <2>1 DEF Computes
<1>5. Def(f)
  <2> HIDE DEF W
  <2>1. ASSUME NEW i \in 1..Len(path) PROVE f[i] = Visit(tree, f[i - 1], path[i])
    <3>1. i - 1 \in 0..Len(path) /\ f[i - 1] \in W
      BY <1>1
    <3> QED
      BY <3>1, <1>4
  <2>2. ASSUME NEW i \in 0..Len(path)
        PROVE  f[i] = IF i = 0 THEN Start ELSE Visit(tree, f[i - 1], path[i])
    <3>1. i # 0 => i \in 1..Len(path)
      BY <1>1
    <3> QED
      BY <3>1, <2>1, <1>4
  <2>3. f = [i \in 0..Len(path) |-> f[i]]
    BY <1>4
  <2> QED
    BY <2>2, <2>3
<1>6. Def(Walk(tree, path))
  <2> HIDE DEF Def
  <2>1. Def(CHOOSE g : Def(g))
    BY <1>5
  <2>2. Walk(tree, path) = CHOOSE g : Def(g)
    BY DEF Walk, Def
  <2> QED
    BY <2>1, <2>2
<1> DEFINE g == Walk(tree, path)
<1> HIDE DEF g, step, W
<1>7. Def(g)
  BY <1>6 DEF g
<1>8. \A n \in 0..Len(path) : g[n] = IF n = 0 THEN Start ELSE Visit(tree, g[n - 1], path[n])
  BY <1>7
<1>9. g[0] = Start /\ \A n \in 1..Len(path) : g[n] = Visit(tree, g[n - 1], path[n])
  <2>1. 0 \in 0..Len(path) /\ \A n \in 1..Len(path) : n \in 0..Len(path) /\ n # 0
    BY <1>1
  <2> QED
    BY <1>8, <2>1
<1>10. \A n \in 0..Len(path) : Sound(tree, g[n])
  <2> DEFINE P == {n \in 0..Len(path) : Sound(tree, g[n])}
  <2>1. 0 \in P
    BY <1>1, <1>9, StartIsSound
  <2>2. \A i \in 1..Len(path) : i - 1 \in P => i \in P
    BY <1>1, <1>9, VisitIsSound
  <2> HIDE DEF P
  <2>3. \A i \in 0..Len(path) : i \in P
    BY <1>1, <2>1, <2>2, UpTo
  <2> QED
    BY <2>3 DEF P
<1> QED
  BY <1>9, <1>10 DEF g

(* Whatever path is asked for, the name Get leaves is the route of the     *)
(* node it was led to, for every tree (treeNode.Get).                      *)
THEOREM GetNamesItsNode ==
  ASSUME NEW tree \in Seq(Nodes), NEW path \in Seq(Segments)
  PROVE  /\ Sound(tree, Get(tree, path))
         /\ Get(tree, path).routerName = Get(tree, path).node.path
<1>1. Len(path) \in 0..Len(path)
  OBVIOUS
<1>2. Sound(tree, Get(tree, path))
  BY <1>1, WalkSteps DEF Get
<1> QED
  BY <1>2 DEF Sound

-----------------------------------------------------------------------------
(* Prefixes                                                                *)

LEMMA PrefixShape ==
  ASSUME NEW s \in Seq(Segments), NEW n \in 0..Len(s)
  PROVE  /\ SubSeq(s, 1, n) \in Seq(Segments)
         /\ Len(SubSeq(s, 1, n)) = n
         /\ \A k \in 1..n : SubSeq(s, 1, n)[k] = s[k]
<1>1. Len(s) \in Nat /\ n \in Nat /\ n \in Int /\ 1 \in Int
  OBVIOUS
<1>2. \A k \in 1..n : s[k] \in Segments
  BY <1>1, ElementOfSeq
<1>3. /\ SubSeq(s, 1, n) \in Seq(Segments)
      /\ Len(SubSeq(s, 1, n)) = (IF 1 <= n THEN n - 1 + 1 ELSE 0)
      /\ \A k \in 1..(n - 1 + 1) : SubSeq(s, 1, n)[k] = s[1 + k - 1]
  BY <1>1, <1>2, SubSeqProperties
<1> DEFINE t == SubSeq(s, 1, n)
<1> HIDE DEF t
<1>4. /\ t \in Seq(Segments)
      /\ Len(t) = (IF 1 <= n THEN n - 1 + 1 ELSE 0)
      /\ \A k \in 1..(n - 1 + 1) : t[k] = s[1 + k - 1]
  BY <1>3 DEF t
<1>5. Len(t) = n /\ \A k \in 1..n : t[k] = s[k]
  BY <1>1, <1>4
<1> QED
  BY <1>4, <1>5 DEF t

LEMMA PrefixOfPrefix ==
  ASSUME NEW s \in Seq(Segments), NEW n \in 0..Len(s), NEW m \in 0..n
  PROVE  SubSeq(SubSeq(s, 1, n), 1, m) = SubSeq(s, 1, m)
<1> DEFINE t == SubSeq(s, 1, n)
           a == SubSeq(t, 1, m)
           b == SubSeq(s, 1, m)
<1>1. m \in 0..Len(s)
  OBVIOUS
<1>2. t \in Seq(Segments) /\ Len(t) = n /\ \A k \in 1..n : t[k] = s[k]
  BY PrefixShape
<1>3. b \in Seq(Segments) /\ Len(b) = m /\ \A k \in 1..m : b[k] = s[k]
  BY <1>1, PrefixShape
<1> HIDE DEF t
<1>4. a \in Seq(Segments) /\ Len(a) = m /\ \A k \in 1..m : a[k] = t[k]
  BY <1>2, PrefixShape
<1> HIDE DEF a, b
<1>5. \A k \in 1..Len(a) : a[k] = b[k]
  BY <1>2, <1>3, <1>4
<1>6. a = b
  BY <1>3, <1>4, <1>5, SeqEqual
<1> QED
  BY <1>6 DEF a, b, t

LEMMA PrefixEnds ==
  ASSUME NEW s \in Seq(Segments), NEW n \in 1..Len(s)
  PROVE  /\ Front(SubSeq(s, 1, n)) = SubSeq(s, 1, n - 1)
         /\ Last(SubSeq(s, 1, n)) = s[n]
         /\ SubSeq(s, 1, n) # <<>>
<1>1. n \in 0..Len(s) /\ n - 1 \in 0..n /\ n \in 1..n /\ n # 0
  OBVIOUS
<1>2. /\ SubSeq(s, 1, n) \in Seq(Segments) /\ Len(SubSeq(s, 1, n)) = n
      /\ SubSeq(s, 1, n)[n] = s[n]
  BY <1>1, PrefixShape
<1>3. SubSeq(SubSeq(s, 1, n), 1, n - 1) = SubSeq(s, 1, n - 1)
  BY <1>1, PrefixOfPrefix
<1>4. Len(<<>>) = 0
  BY EmptySeq
<1> QED
  BY <1>1, <1>2, <1>3, <1>4 DEF Front, Last

LEMMA PrefixMeans ==
  ASSUME NEW s \in Seq(Segments), NEW t \in Seq(Segments)
  PROVE  IsPrefix(s, t) <=> Len(s) \in 0..Len(t) /\ s = SubSeq(t, 1, Len(s))
<1>1. SubSeq(s, 1, Len(s)) = s /\ Len(s) \in Nat /\ Len(t) \in Nat
  BY SubSeqFull
<1> QED
  BY <1>1 DEF IsPrefix

-----------------------------------------------------------------------------
(* What Put does to a tree                                                 *)

Has(tree, p) == \E i \in 1..Len(tree) : tree[i].path = p

(* Every node of the route is there.                                       *)
Whole(tree, route) == \A n \in 1..Len(route) : Has(tree, SubSeq(route, 1, n))

(* No two nodes have one path, and every node has the ones above it.       *)
WellMade(tree) ==
  /\ tree \in Seq(Nodes)
  /\ \A i, j \in 1..Len(tree) : tree[i].path = tree[j].path => i = j
  /\ \A i \in 1..Len(tree) : Whole(tree, tree[i].path)

LEMMA WalkedShape ==
  ASSUME NEW tree \in Seq(Nodes), NEW route \in Seq(Segments)
  PROVE  /\ Walked(tree, route) \in 0..Len(route)
         /\ \A n \in 1..Walked(tree, route) : Has(tree, SubSeq(route, 1, n))
         /\ Walked(tree, route) < Len(route) => ~Has(tree, SubSeq(route, 1, Walked(tree, route) + 1))
<1> DEFINE Lacks(n) == \A i \in DOMAIN tree : tree[i].path # SubSeq(route, 1, n + 1)
           T == {n \in 0..Len(route) : n = Len(route) \/ Lacks(n)}
           w == Walked(tree, route)
<1>1. Len(route) \in Nat /\ DOMAIN tree = 1..Len(tree)
  BY LenProperties
<1>2. Len(route) \in T /\ T \in SUBSET Nat
  BY <1>1
<1>3. w \in T /\ \A n \in T : w <= n
  <2>1. w = Min(T)
    BY DEF Walked
  <2> HIDE DEF T, w
  <2> QED
    BY <1>2, <2>1, MinIsLeast
<1>4. \A n : Lacks(n) <=> ~Has(tree, SubSeq(route, 1, n + 1))
  BY <1>1 DEF Has
<1> HIDE DEF Lacks, w
<1>5. w \in 0..Len(route) /\ (w < Len(route) => ~Has(tree, SubSeq(route, 1, w + 1)))
  BY <1>1, <1>3, <1>4
<1>6. ASSUME NEW n \in 1..w PROVE Has(tree, SubSeq(route, 1, n))
  <2>1. n - 1 \in 0..Len(route) /\ ~(w <= n - 1) /\ (n - 1) + 1 = n
    BY <1>1, <1>5
  <2>2. ~Lacks(n - 1)
    BY <1>3, <2>1
  <2> QED
    BY <1>4, <2>1, <2>2
<1> QED
  BY <1>5, <1>6 DEF w

(* new is the tree with the nodes of the route after the first ones, from. *)
Extends(new, tree, route, name, from) ==
  /\ new \in Seq(Nodes)
  /\ Len(new) = Len(tree) + (Len(route) - from)
  /\ \A i \in 1..Len(tree) : new[i] = tree[i]
  /\ \A i \in (Len(tree) + 1)..(Len(tree) + (Len(route) - from)) :
       /\ new[i].path = SubSeq(route, 1, from + (i - Len(tree)))
       /\ new[i].isEnd <=> from + (i - Len(tree)) = Len(route)
       /\ new[i].gwName = name

LEMMA PutShape ==
  ASSUME NEW tree \in Seq(Nodes), NEW route \in Seq(Segments), NEW name \in Seq(Segments)
  PROVE  Extends(Put(tree, route, name), tree, route, name, Walked(tree, route))
<1> DEFINE from == Walked(tree, route)
           more == Made(route, from, name)
           Node(k) == [path |-> SubSeq(route, 1, from + k), isEnd |-> from + k = Len(route),
                       gwName |-> name]
<1>1. from \in 0..Len(route) /\ Len(route) \in Nat /\ Len(tree) \in Nat
  BY WalkedShape
<1> HIDE DEF from
<1>2. ASSUME NEW k \in 1..(Len(route) - from) PROVE Node(k) \in Nodes
  <2>1. from + k \in 1..Len(route) /\ from + k \in 0..Len(route)
    BY <1>1
  <2>2. SubSeq(route, 1, from + k) \in Seq(Segments) /\ SubSeq(route, 1, from + k) # <<>>
    BY <2>1, PrefixShape, PrefixEnds
  <2> QED
    BY <2>2 DEF Nodes
<1>3. more = [k \in 1..(Len(route) - from) |-> Node(k)]
  BY DEF Made
<1> HIDE DEF more, Node, from
<1>4. Len(route) - from \in Nat
  BY <1>1
<1>5. more \in [1..(Len(route) - from) -> Nodes]
  BY <1>2, <1>3
<1>6. more \in Seq(Nodes) /\ Len(more) = Len(route) - from
  BY <1>4, <1>5
<1>7. \A i \in (Len(tree) + 1)..(Len(tree) + (Len(route) - from)) :
        i - Len(tree) \in 1..(Len(route) - from)
  BY <1>1
<1>8. Put(tree, route, name) = tree \o more
  BY DEF Put, more, from
<1>9. /\ tree \o more \in Seq(Nodes)
      /\ Len(tree \o more) = Len(tree) + Len(more)
      /\ \A i \in 1..(Len(tree) + Len(more)) :
           (tree \o more)[i] = IF i <= Len(tree) THEN tree[i] ELSE more[i - Len(tree)]
  BY <1>6, ConcatProperties
<1>10. ASSUME NEW i \in 1..Len(tree) PROVE (tree \o more)[i] = tree[i]
  BY <1>1, <1>4, <1>6, <1>9
<1>11. ASSUME NEW i \in (Len(tree) + 1)..(Len(tree) + (Len(route) - from))
       PROVE  (tree \o more)[i] = Node(i - Len(tree))
  BY <1>1, <1>3, <1>4, <1>6, <1>7, <1>9
<1>12. \A k : /\ Node(k).path = SubSeq(route, 1, from + k)
              /\ Node(k).isEnd <=> from + k = Len(route)
              /\ Node(k).gwName = name
  BY DEF Node
<1> QED
  BY <1>6, <1>8, <1>9, <1>10, <1>11, <1>12 DEF Extends, from

(* What Put makes was not there, and the rest stays as it is.              *)
Grafted(new, tree, route, name) ==
  /\ new \in Seq(Nodes) /\ Len(tree) \in Nat /\ Len(new) \in Nat /\ Len(tree) <= Len(new)
  /\ \A i \in 1..Len(tree) : i \in 1..Len(new) /\ new[i] = tree[i]
  /\ \A i \in (Len(tree) + 1)..Len(new) : \E n \in 1..Len(route) :
       /\ n = Walked(tree, route) + (i - Len(tree))
       /\ new[i].path = SubSeq(route, 1, n)
       /\ new[i].isEnd <=> n = Len(route)
       /\ new[i].gwName = name
       /\ ~Has(tree, SubSeq(route, 1, n))
  /\ Whole(new, route)

LEMMA PutMakes ==
  ASSUME NEW tree, WellMade(tree), NEW route \in Seq(Segments), NEW name \in Seq(Segments)
  PROVE  Grafted(Put(tree, route, name), tree, route, name)
<1> DEFINE new == Put(tree, route, name)
           from == Walked(tree, route)
           size == Len(tree)
<1>1. tree \in Seq(Nodes) /\ size \in Nat /\ Len(route) \in Nat
  BY DEF WellMade
<1>2. /\ from \in 0..Len(route)
      /\ \A n \in 1..from : Has(tree, SubSeq(route, 1, n))
      /\ from < Len(route) => ~Has(tree, SubSeq(route, 1, from + 1))
  BY <1>1, WalkedShape
<1> HIDE DEF from, new
<1>3. /\ new \in Seq(Nodes)
      /\ Len(new) = size + (Len(route) - from)
      /\ \A i \in 1..size : new[i] = tree[i]
      /\ \A i \in (size + 1)..(size + (Len(route) - from)) :
           /\ new[i].path = SubSeq(route, 1, from + (i - size))
           /\ new[i].isEnd <=> from + (i - size) = Len(route)
           /\ new[i].gwName = name
  <2>1. Extends(new, tree, route, name, from)
    BY <1>1, PutShape DEF from, new
  <2> QED
    BY <2>1 DEF Extends
<1>4. ASSUME NEW n \in (from + 1)..Len(route) PROVE ~Has(tree, SubSeq(route, 1, n))
  <2>1. n \in 1..Len(route) /\ n \in 0..Len(route) /\ from < Len(route) /\ from + 1 \in 1..n /\ from + 1 \in 0..n
    BY <1>1, <1>2
  <2> SUFFICES ASSUME NEW i \in 1..size, tree[i].path = SubSeq(route, 1, n) PROVE FALSE
    BY DEF Has
  <2>2. Len(tree[i].path) = n
    BY <2>1, PrefixShape
  <2>3. Has(tree, SubSeq(tree[i].path, 1, from + 1))
    BY <2>1, <2>2 DEF WellMade, Whole
  <2>4. SubSeq(tree[i].path, 1, from + 1) = SubSeq(route, 1, from + 1)
    BY <2>1, PrefixOfPrefix
  <2> QED
    BY <1>2, <2>1, <2>3, <2>4
<1>5. \A i \in 1..size : i \in 1..Len(new)
  BY <1>1, <1>2, <1>3
<1>6. ASSUME NEW i \in (size + 1)..Len(new)
      PROVE  \E n \in 1..Len(route) :
              /\ n = from + (i - size)
              /\ new[i].path = SubSeq(route, 1, n)
              /\ new[i].isEnd <=> n = Len(route)
              /\ new[i].gwName = name
              /\ ~Has(tree, SubSeq(route, 1, n))
  <2>1. from + (i - size) \in (from + 1)..Len(route) /\ from + (i - size) \in 1..Len(route)
    BY <1>1, <1>2, <1>3
  <2>2. ~Has(tree, SubSeq(route, 1, from + (i - size)))
    BY <1>4, <2>1
  <2>3. /\ new[i].path = SubSeq(route, 1, from + (i - size))
        /\ new[i].isEnd <=> from + (i - size) = Len(route)
        /\ new[i].gwName = name
    BY <1>3
  <2> QED
    BY <2>1, <2>2, <2>3
<1>7. ASSUME NEW n \in 1..Len(route) PROVE Has(new, SubSeq(route, 1, n))
  <2>1. CASE n <= from
    <3>1. Has(tree, SubSeq(route, 1, n))
      BY <1>2, <2>1
    <3> QED
      BY <1>3, <1>5, <3>1 DEF Has
  <2>2. CASE ~(n <= from)
    <3> DEFINE i == size + (n - from)
    <3>1. i \in (size + 1)..(size + (Len(route) - from)) /\ i \in 1..Len(new) /\ from + (i - size) = n
      BY <1>1, <1>2, <1>3, <2>2
    <3>2. new[i].path = SubSeq(route, 1, n)
      BY <1>3, <3>1
    <3> QED
      BY <3>1, <3>2 DEF Has
  <2> QED
    BY <2>1, <2>2
<1>8. Len(new) \in Nat /\ Len(tree) <= Len(new)
  BY <1>1, <1>2, <1>3
<1> QED
  BY <1>1, <1>3, <1>5, <1>6, <1>7, <1>8 DEF Grafted, Whole, from, new

LEMMA PutWellMade ==
  ASSUME NEW tree, WellMade(tree), NEW route \in Seq(Segments), NEW name \in Seq(Segments)
  PROVE  /\ WellMade(Put(tree, route, name))
         /\ Whole(Put(tree, route, name), route)
         /\ \A p : Has(tree, p) => Has(Put(tree, route, name), p)
<1> DEFINE new == Put(tree, route, name)
<1> HIDE DEF new
<1>1. new = Put(tree, route, name)
  BY DEF new
<1>2. Grafted(new, tree, route, name)
  BY <1>1, PutMakes
<1> USE DEF Grafted
<1>3. ASSUME NEW p, Has(tree, p) PROVE Has(new, p)
  BY <1>2, <1>3 DEF Has
<1>4. \A i \in 1..Len(new) : i \in 1..Len(tree) \/ i \in (Len(tree) + 1)..Len(new)
  BY <1>2
<1>5. ASSUME NEW i \in 1..Len(new), NEW j \in 1..Len(new), new[i].path = new[j].path
      PROVE  i = j
  <2>1. CASE i \in 1..Len(tree) /\ j \in 1..Len(tree)
    BY <1>2, <1>5, <2>1 DEF WellMade
  <2>2. CASE i \in 1..Len(tree) /\ j \in (Len(tree) + 1)..Len(new)
    <3>1. Has(tree, new[i].path) /\ ~Has(tree, new[j].path)
      BY <1>2, <2>2 DEF Has
    <3> QED
      BY <1>5, <3>1
  <2>3. CASE j \in 1..Len(tree) /\ i \in (Len(tree) + 1)..Len(new)
    <3>1. Has(tree, new[j].path) /\ ~Has(tree, new[i].path)
      BY <1>2, <2>3 DEF Has
    <3> QED
      BY <1>5, <3>1
  <2>4. CASE i \in (Len(tree) + 1)..Len(new) /\ j \in (Len(tree) + 1)..Len(new)
    <3>1. PICK n \in 1..Len(route) : n = Walked(tree, route) + (i - Len(tree))
                                     /\ new[i].path = SubSeq(route, 1, n)
      BY <1>2, <2>4
    <3>2. PICK m \in 1..Len(route) : m = Walked(tree, route) + (j - Len(tree))
                                     /\ new[j].path = SubSeq(route, 1, m)
      BY <1>2, <2>4
    <3>3. Len(new[i].path) = n /\ Len(new[j].path) = m
      BY <3>1, <3>2, PrefixShape
    <3>4. n = m
      BY <1>5, <3>3
    <3>5. Walked(tree, route) \in 0..Len(route)
      BY WalkedShape DEF WellMade
    <3>6. Len(tree) \in Nat /\ Len(new) \in Nat
      BY <1>2
    <3> HIDE DEF Grafted
    <3> QED
      BY <2>4, <3>1, <3>2, <3>4, <3>5, <3>6
  <2> QED
    BY <1>4, <2>1, <2>2, <2>3, <2>4
<1>6. ASSUME NEW i \in 1..Len(new) PROVE Whole(new, new[i].path)
  <2>1. CASE i \in 1..Len(tree)
    <3>1. Whole(tree, tree[i].path)
      BY <2>1 DEF WellMade
    <3> QED
      BY <1>2, <1>3, <2>1, <3>1 DEF Whole
  <2>2. CASE i \in (Len(tree) + 1)..Len(new)
    <3>1. PICK n \in 1..Len(route) : new[i].path = SubSeq(route, 1, n)
      BY <1>2, <2>2
    <3>2. Len(new[i].path) = n /\ n \in 0..Len(route)
      BY <3>1, PrefixShape
    <3>3. ASSUME NEW m \in 1..n PROVE Has(new, SubSeq(new[i].path, 1, m))
      <4>1. m \in 0..n /\ m \in 1..Len(route)
        OBVIOUS
      <4>2. SubSeq(new[i].path, 1, m) = SubSeq(route, 1, m)
        BY <3>1, <3>2, <4>1, PrefixOfPrefix
      <4> QED
        BY <1>2, <4>1, <4>2 DEF Whole
    <3> QED
      BY <3>2, <3>3 DEF Whole
  <2> QED
    BY <1>4, <2>1, <2>2
<1>7. WellMade(new)
  BY <1>2, <1>5, <1>6 DEF WellMade
<1> QED
  BY <1>2, <1>3, <1>7 DEF new

-----------------------------------------------------------------------------
(* A tree and the routes it was made of, in their order                    *)

(* The route that made node j: the first that goes through it.             *)
Owns(tree, made, j, i) ==
  /\ i \in 1..Len(made) /\ IsPrefix(tree[j].path, made[i])
  /\ \A h \in 1..(i - 1) : ~IsPrefix(tree[j].path, made[h])

(* Every route has its nodes; a node is an end if it is its maker's last.  *)
Grown(tree, made) ==
  /\ WellMade(tree)
  /\ made \in Seq(Seq(Segments) \ {<<>>})
  /\ \A i \in 1..Len(made) : Whole(tree, made[i])
  /\ \A j \in 1..Len(tree) : \E i \in 1..Len(made) :
       Owns(tree, made, j, i) /\ (tree[j].isEnd <=> made[i] = tree[j].path)

(* Every node has the name of its maker, when routes are put as names.     *)
Named(tree, made) ==
  \A j \in 1..Len(tree) : \E i \in 1..Len(made) :
    Owns(tree, made, j, i) /\ tree[j].gwName = made[i]

LEMMA OwnerIsMin ==
  ASSUME NEW tree, NEW made \in Seq(Seq(Segments) \ {<<>>}), NEW j, NEW i, Owns(tree, made, j, i)
  PROVE  i = Min({h \in DOMAIN made : IsPrefix(tree[j].path, made[h])})
<1> DEFINE T == {h \in DOMAIN made : IsPrefix(tree[j].path, made[h])}
<1>1. DOMAIN made = 1..Len(made) /\ Len(made) \in Nat
  BY LenProperties
<1>2. i \in T /\ T \in SUBSET Nat
  BY <1>1 DEF Owns
<1>3. Min(T) \in T /\ \A h \in T : Min(T) <= h
  <2> HIDE DEF T
  <2> QED
    BY <1>2, MinIsLeast
<1> DEFINE m == Min(T)
<1>4. m \in 1..Len(made) /\ m <= i /\ IsPrefix(tree[j].path, made[m])
  BY <1>1, <1>2, <1>3
<1> HIDE DEF m
<1>5. ~(m \in 1..(i - 1))
  BY <1>4 DEF Owns
<1>6. m = i
  BY <1>1, <1>2, <1>4, <1>5
<1> QED
  BY <1>6 DEF m

(* Nothing was made yet.                                                   *)
LEMMA EmptyGrown == Grown(<<>>, <<>>) /\ Named(<<>>, <<>>)
<1>1. /\ <<>> \in Seq(Nodes) /\ <<>> \in Seq(Seq(Segments) \ {<<>>})
      /\ Len(<<>>) = 0
  BY EmptySeq
<1>2. 1..Len(<<>>) = {}
  BY <1>1
<1> QED
  BY <1>1, <1>2 DEF Grown, Named, WellMade

(* An old node keeps its maker, and a new one is made by the new route.    *)
LEMMA PutOwners ==
  ASSUME NEW tree, NEW made, Grown(tree, made),
         NEW route \in Seq(Segments) \ {<<>>}, NEW name \in Seq(Segments)
  PROVE  /\ \A j \in 1..Len(tree) : \A i :
              Owns(tree, made, j, i) => Owns(Put(tree, route, name), Append(made, route), j, i)
                                        /\ Append(made, route)[i] = made[i]
         /\ \A j \in (Len(tree) + 1)..Len(Put(tree, route, name)) :
              Owns(Put(tree, route, name), Append(made, route), j, Len(made) + 1)
         /\ Append(made, route)[Len(made) + 1] = route
<1> DEFINE new == Put(tree, route, name)
           more == Append(made, route)
<1>1. /\ WellMade(tree) /\ made \in Seq(Seq(Segments) \ {<<>>})
      /\ \A i \in 1..Len(made) : Whole(tree, made[i])
  BY DEF Grown
<1>2. Grafted(new, tree, route, name)
  BY <1>1, PutMakes
<1>3. /\ Len(made) \in Nat /\ Len(more) = Len(made) + 1 /\ more[Len(made) + 1] = route
      /\ \A i \in 1..Len(made) : more[i] = made[i] /\ made[i] \in Seq(Segments)
  <2>1. Len(made) \in Nat
    BY <1>1
  <2>2. Len(more) = Len(made) + 1 /\ \A i \in 1..(Len(made) + 1) :
          more[i] = IF i = Len(made) + 1 THEN route ELSE made[i]
    BY <1>1, AppendProperties
  <2>3. \A i \in 1..Len(made) : made[i] \in Seq(Segments)
    BY <1>1, ElementOfSeq
  <2> QED
    BY <2>1, <2>2, <2>3
<1> HIDE DEF new, more
<1>4. ASSUME NEW j \in 1..Len(tree), NEW i, Owns(tree, made, j, i)
      PROVE  Owns(new, more, j, i) /\ more[i] = made[i]
  <2>1. new[j] = tree[j]
    BY <1>2 DEF Grafted
  <2>2. i \in 1..Len(made) /\ i \in 1..Len(more) /\ \A h \in 1..(i - 1) : h \in 1..Len(made)
    BY <1>3, <1>4 DEF Owns
  <2> QED
    BY <1>3, <1>4, <2>1, <2>2 DEF Owns
<1>5. ASSUME NEW j \in (Len(tree) + 1)..Len(new) PROVE Owns(new, more, j, Len(made) + 1)
  <2>1. PICK n \in 1..Len(route) : new[j].path = SubSeq(route, 1, n) /\ ~Has(tree, SubSeq(route, 1, n))
    BY <1>2 DEF Grafted
  <2> DEFINE p == SubSeq(route, 1, n)
  <2>2. p \in Seq(Segments) /\ Len(p) = n /\ n \in 0..Len(route)
    BY PrefixShape
  <2>3. IsPrefix(p, route)
    BY <2>2, PrefixMeans
  <2>4. ASSUME NEW h \in 1..Len(made) PROVE ~IsPrefix(p, made[h])
    <3> SUFFICES ASSUME IsPrefix(p, made[h]) PROVE FALSE
      OBVIOUS
    <3>1. p = SubSeq(made[h], 1, n) /\ n \in 1..Len(made[h])
      <4>1. p = SubSeq(made[h], 1, Len(p)) /\ Len(p) \in 0..Len(made[h])
        <5> HIDE DEF p
        <5> QED
          BY <1>3, <2>2, PrefixMeans
      <4> QED
        BY <2>2, <4>1
    <3>2. Has(tree, SubSeq(made[h], 1, n))
      BY <1>1, <3>1 DEF Whole
    <3> QED
      BY <2>1, <3>1, <3>2
  <2> HIDE DEF p
  <2>5. Len(made) + 1 \in 1..Len(more) /\ (Len(made) + 1) - 1 = Len(made)
    BY <1>3
  <2> QED
    BY <1>3, <2>1, <2>3, <2>4, <2>5 DEF Owns, p
<1> QED
  BY <1>3, <1>4, <1>5 DEF new, more

LEMMA PutGrows ==
  ASSUME NEW tree, NEW made, Grown(tree, made),
         NEW route \in Seq(Segments) \ {<<>>}, NEW name \in Seq(Segments)
  PROVE  /\ Grown(Put(tree, route, name), Append(made, route))
         /\ Named(tree, made) /\ name = route => Named(Put(tree, route, name), Append(made, route))
<1> DEFINE new == Put(tree, route, name)
           more == Append(made, route)
<1>1. /\ WellMade(tree) /\ made \in Seq(Seq(Segments) \ {<<>>})
      /\ \A i \in 1..Len(made) : Whole(tree, made[i])
  BY DEF Grown
<1>2. Grafted(new, tree, route, name)
  BY <1>1, PutMakes
<1>3. WellMade(new) /\ Whole(new, route) /\ \A p : Has(tree, p) => Has(new, p)
  BY <1>1, PutWellMade
<1>4. /\ more \in Seq(Seq(Segments) \ {<<>>}) /\ Len(made) \in Nat /\ Len(more) = Len(made) + 1
      /\ \A i \in 1..Len(made) : more[i] = made[i]
  BY <1>1, AppendProperties
<1>5. /\ \A j \in 1..Len(tree) : \A i :
           Owns(tree, made, j, i) => Owns(new, more, j, i) /\ more[i] = made[i]
      /\ \A j \in (Len(tree) + 1)..Len(new) : Owns(new, more, j, Len(made) + 1)
      /\ more[Len(made) + 1] = route
  BY PutOwners
<1> HIDE DEF new, more
<1>6. /\ Len(tree) \in Nat /\ Len(new) \in Nat
      /\ \A j \in 1..Len(tree) : new[j] = tree[j]
      /\ \A j \in 1..Len(new) : j \in 1..Len(tree) \/ j \in (Len(tree) + 1)..Len(new)
  BY <1>2 DEF Grafted
<1>7. ASSUME NEW i \in 1..Len(more) PROVE Whole(new, more[i])
  <2>1. CASE i \in 1..Len(made)
    BY <1>1, <1>3, <1>4, <2>1 DEF Whole
  <2>2. CASE i = Len(made) + 1
    BY <1>3, <1>5, <2>2
  <2> QED
    BY <1>4, <2>1, <2>2
<1>8. ASSUME NEW j \in (Len(tree) + 1)..Len(new)
      PROVE  (new[j].isEnd <=> route = new[j].path) /\ new[j].gwName = name
  <2>1. PICK n \in 1..Len(route) : /\ new[j].path = SubSeq(route, 1, n)
                                   /\ new[j].isEnd <=> n = Len(route)
                                   /\ new[j].gwName = name
    BY <1>2 DEF Grafted
  <2>2. Len(SubSeq(route, 1, n)) = n /\ SubSeq(route, 1, Len(route)) = route
    BY PrefixShape, SubSeqFull
  <2> QED
    BY <2>1, <2>2
<1>9. ASSUME NEW j \in 1..Len(new)
      PROVE  \E i \in 1..Len(more) : Owns(new, more, j, i) /\ (new[j].isEnd <=> more[i] = new[j].path)
  <2>1. CASE j \in 1..Len(tree)
    <3>1. PICK i \in 1..Len(made) : Owns(tree, made, j, i) /\ (tree[j].isEnd <=> made[i] = tree[j].path)
      BY <2>1 DEF Grown
    <3>2. i \in 1..Len(more) /\ new[j] = tree[j]
      BY <1>4, <1>6, <2>1
    <3>3. Owns(new, more, j, i) /\ more[i] = made[i]
      BY <1>5, <2>1, <3>1
    <3>4. new[j].isEnd <=> more[i] = new[j].path
      BY <3>1, <3>2, <3>3
    <3> QED
      BY <3>2, <3>3, <3>4
  <2>2. CASE j \in (Len(tree) + 1)..Len(new)
    <3> DEFINE i == Len(made) + 1
    <3>1. i \in 1..Len(more) /\ Owns(new, more, j, i)
      BY <1>4, <1>5, <2>2
    <3>2. new[j].isEnd <=> more[i] = new[j].path
      BY <1>5, <1>8, <2>2
    <3> HIDE DEF i
    <3> QED
      BY <3>1, <3>2
  <2> QED
    BY <1>6, <2>1, <2>2
<1>10. ASSUME Named(tree, made), name = route, NEW j \in 1..Len(new)
       PROVE  \E i \in 1..Len(more) : Owns(new, more, j, i) /\ new[j].gwName = more[i]
  <2>1. CASE j \in 1..Len(tree)
    <3>1. PICK i \in 1..Len(made) : Owns(tree, made, j, i) /\ tree[j].gwName = made[i]
      BY <1>10, <2>1 DEF Named
    <3> QED
      BY <1>4, <1>5, <1>6, <2>1, <3>1
  <2>2. CASE j \in (Len(tree) + 1)..Len(new)
    BY <1>4, <1>5, <1>8, <1>10, <2>2
  <2> QED
    BY <1>6, <2>1, <2>2
<1>11. Grown(new, more)
  BY <1>3, <1>4, <1>7, <1>9 DEF Grown
<1>12. Named(tree, made) /\ name = route => Named(new, more)
  BY <1>10 DEF Named
<1> QED
  BY <1>11, <1>12 DEF new, more

-----------------------------------------------------------------------------
(* What a route finds in a tree it is in                                   *)

(* A walk is never deeper in the tree than the segments it has read.       *)
LEMMA WalkDepth ==
  ASSUME NEW tree \in Seq(Nodes), NEW path \in Seq(Segments)
  PROVE  \A n \in 0..Len(path) : Len(Walk(tree, path)[n].node.path) \in 0..n
<1> DEFINE w(n) == Walk(tree, path)[n]
           P == {n \in 0..Len(path) : Len(w(n).node.path) \in 0..n}
<1>1. /\ w(0) = Start
      /\ \A n \in 1..Len(path) : w(n) = Visit(tree, w(n - 1), path[n])
      /\ \A n \in 0..Len(path) : Sound(tree, w(n))
  BY WalkSteps
<1>2. Len(path) \in Nat
  OBVIOUS
<1> HIDE DEF w
<1>3. 0 \in P
  BY <1>1, <1>2, EmptySeq DEF Start, Root
<1>4. ASSUME NEW n \in 1..Len(path), n - 1 \in P PROVE n \in P
  <2>1. n - 1 \in 0..Len(path) /\ n \in 0..Len(path) /\ Len(w(n - 1).node.path) \in 0..(n - 1)
    BY <1>4
  <2>2. w(n) = Visit(tree, w(n - 1), path[n]) /\ Sound(tree, w(n - 1))
    BY <1>1, <2>1
  <2> DEFINE next == Step(tree, w(n - 1).node, path[n])
             node == tree[First(next)]
  <2>3. CASE w(n - 1).stop \/ next = {}
    <3>1. w(n).node = w(n - 1).node
      BY <2>2, <2>3 DEF Visit, Sound, Walks
    <3> QED
      BY <2>1, <3>1
  <2>4. CASE ~w(n - 1).stop /\ next # {}
    <3>1. w(n).node = node
      BY <2>2, <2>4 DEF Visit
    <3>2. First(next) \in 1..Len(tree) /\ Front(node.path) = w(n - 1).node.path
      BY <2>4, FirstOfStep
    <3> HIDE DEF next
    <3>3. node.path \in Seq(Segments) /\ node.path # <<>>
      BY <3>2, NodeShape
    <3>4. Len(Front(node.path)) = Len(node.path) - 1 /\ Len(node.path) \in Nat
      BY <3>3, LastIsSegment
    <3>5. Len(node.path) \in 0..n
      BY <2>1, <3>2, <3>4
    <3> QED
      BY <2>1, <3>1, <3>5
  <2> QED
    BY <2>3, <2>4
<1>5. \A n \in 0..Len(path) : n \in P
  <2> HIDE DEF P
  <2> QED
    BY <1>2, <1>3, <1>4, UpTo
<1> QED
  BY <1>5 DEF w

(* Of the children next the first one, k, is node i or a wild one before.  *)
Leads(tree, next, k, i, segment) ==
  /\ next # {} /\ k \in 1..i /\ Matches(tree[k], segment)
  /\ Front(tree[k].path) = Front(tree[i].path)
  /\ k = i \/ Wild(tree[k])
  /\ \A j \in 1..Len(tree) :
       Front(tree[j].path) = Front(tree[i].path) /\ Wild(tree[j]) => k <= j

(* The walk along a route that is in the tree, from one of its nodes: the  *)
(* child it is led to is the one of the route, or a wild one before it.    *)
LEMMA AlongRoute ==
  ASSUME NEW tree, WellMade(tree), NEW route \in Seq(Segments),
         NEW n \in 1..Len(route), NEW i \in 1..Len(tree), tree[i].path = SubSeq(route, 1, n),
         NEW node, node.path = SubSeq(route, 1, n - 1)
  PROVE  Leads(tree, Step(tree, node, route[n]), First(Step(tree, node, route[n])), i, route[n])
<1> DEFINE next == Step(tree, node, route[n])
           k == First(next)
           fit == {j \in Children(tree, node) : Matches(tree[j], route[n])}
<1>1. tree \in Seq(Nodes) /\ DOMAIN tree = 1..Len(tree)
  BY LenProperties DEF WellMade
<1>2. Front(tree[i].path) = node.path /\ Last(tree[i].path) = route[n]
  BY PrefixEnds
<1>3. i \in fit
  BY <1>1, <1>2 DEF Children, Matches
<1>4. next = fit
  BY <1>3 DEF Step
<1> HIDE DEF next
<1>5. /\ k \in next /\ (\A j \in next : k <= j) /\ next \subseteq 1..Len(tree)
      /\ Front(tree[k].path) = node.path
  <2>1. next # {}
    BY <1>3, <1>4
  <2>2. /\ k \in next /\ (\A j \in next : k <= j) /\ next \subseteq 1..Len(tree)
        /\ \A j \in next : Front(tree[j].path) = node.path
    BY <1>1, <2>1, FirstOfStep DEF next
  <2> QED
    BY <2>2
<1>6. k \in 1..i /\ Matches(tree[k], route[n])
  BY <1>3, <1>4, <1>5
<1>7. ASSUME ~Wild(tree[k]) PROVE k = i
  <2>1. Last(tree[k].path) = Last(tree[i].path) /\ Front(tree[k].path) = Front(tree[i].path)
    BY <1>2, <1>5, <1>6, <1>7 DEF Matches
  <2>2. k \in 1..Len(tree)
    BY <1>5
  <2> HIDE DEF k
  <2>3. tree[k].path = tree[i].path
    BY <1>1, <2>1, <2>2, NodeShape
  <2> QED
    BY <2>2, <2>3 DEF WellMade
<1>8. ASSUME NEW j \in 1..Len(tree), Front(tree[j].path) = Front(tree[i].path), Wild(tree[j])
      PROVE  k <= j
  <2>1. j \in fit
    BY <1>1, <1>2, <1>8 DEF Children, Matches
  <2> QED
    BY <1>4, <1>5, <2>1
<1> QED
  BY <1>2, <1>3, <1>4, <1>5, <1>6, <1>7, <1>8 DEF next, Leads

(* A walk that follows the route so far came all the way along it.         *)
LEMMA OnRouteBefore ==
  ASSUME NEW tree, WellMade(tree), NEW route \in Seq(Segments), NEW n \in 1..Len(route),
         Walk(tree, route)[n].node.path = SubSeq(route, 1, n)
  PROVE  LET w == Walk(tree, route)
             next == Step(tree, w[n - 1].node, route[n])
         IN /\ w[n - 1].node.path = SubSeq(route, 1, n - 1)
            /\ ~w[n - 1].stop /\ next # {} /\ w[n].node = tree[First(next)]
<1> DEFINE w(k) == Walk(tree, route)[k]
           next == Step(tree, w(n - 1).node, route[n])
           node == tree[First(next)]
<1>1. tree \in Seq(Nodes) /\ n - 1 \in 0..Len(route) /\ n \in 0..Len(route)
  BY DEF WellMade
<1>2. w(n) = Visit(tree, w(n - 1), route[n]) /\ Sound(tree, w(n - 1))
  BY <1>1, WalkSteps
<1>3. Len(w(n - 1).node.path) \in 0..(n - 1)
  BY <1>1, WalkDepth
<1>4. Len(SubSeq(route, 1, n)) = n
  BY <1>1, PrefixShape
<1>5. ~w(n - 1).stop /\ next # {}
  <2>1. SUFFICES ASSUME w(n - 1).stop \/ next = {} PROVE FALSE
    OBVIOUS
  <2>2. w(n).node = w(n - 1).node
    <3> HIDE DEF w
    <3> QED
      BY <1>2, <2>1 DEF Visit, Sound, Walks
  <2> QED
    BY <1>1, <1>3, <1>4, <2>2
<1>6. w(n).node = node
  <2> HIDE DEF w
  <2> QED
    BY <1>2, <1>5 DEF Visit
<1>7. Front(node.path) = w(n - 1).node.path
  <2> HIDE DEF w
  <2> QED
    BY <1>1, <1>5, FirstOfStep
<1>8. w(n - 1).node.path = SubSeq(route, 1, n - 1)
  BY <1>6, <1>7, PrefixEnds
<1> QED
  BY <1>5, <1>6, <1>8

(* A route whose nodes are all there is found by its own path exactly when *)
(* no wild sibling, made before one of them, takes its segment.            *)
THEOREM FoundUnlessShadowed ==
  ASSUME NEW tree, WellMade(tree), NEW route \in Seq(Segments) \ {<<>>}, Whole(tree, route)
  PROVE  Get(tree, route).hit /\ Get(tree, route).node.path = route <=> ~Shadowed(tree, route)
<1> DEFINE w(k) == Walk(tree, route)[k]
           size == Len(route)
<1>1. tree \in Seq(Nodes) /\ size \in Nat /\ size >= 1 /\ DOMAIN tree = 1..Len(tree)
  BY EmptySeq, LenProperties DEF WellMade
<1>2. /\ w(0) = Start
      /\ \A n \in 1..size : w(n) = Visit(tree, w(n - 1), route[n])
  BY <1>1, WalkSteps
<1>3. SubSeq(route, 1, size) = route
  BY SubSeqFull
<1>4. ASSUME ~Shadowed(tree, route) PROVE w(size).hit /\ w(size).node.path = route
  <2> DEFINE On(n) == /\ w(n).node.path = SubSeq(route, 1, n)
                      /\ ~w(n).stop
                      /\ n # 0 => w(n).hit
             P == {n \in 0..size : On(n)}
  <2>1. 0 \in P
    <3>1. SubSeq(route, 1, 0) = <<>>
      BY SubSeqEmpty
    <3>2. w(0).node.path = <<>> /\ w(0).stop = FALSE
      <4> HIDE DEF w
      <4> QED
        BY <1>2 DEF Start, Root
    <3>3. On(0)
      BY <3>1, <3>2
    <3> HIDE DEF On
    <3> QED
      BY <1>1, <3>3
  <2>2. ASSUME NEW n \in 1..size, n - 1 \in P PROVE n \in P
    <3>1. /\ w(n - 1).node.path = SubSeq(route, 1, n - 1) /\ ~w(n - 1).stop
          /\ n \in 0..size /\ n \in 1..Len(route)
      BY <1>1, <2>2
    <3>2. w(n) = Visit(tree, w(n - 1), route[n])
      BY <1>2
    <3>3. PICK i \in 1..Len(tree) : tree[i].path = SubSeq(route, 1, n)
      BY DEF Whole, Has
    <3> HIDE DEF w
    <3> DEFINE node == w(n - 1).node
               next == Step(tree, node, route[n])
               k == First(next)
    <3>0. node.path = SubSeq(route, 1, n - 1)
      BY <3>1
    <3> HIDE DEF node
    <3>4. Leads(tree, next, k, i, route[n])
      BY <3>1, <3>0, <3>3, AlongRoute
    <3>5. w(n) = [node |-> tree[k], routerName |-> Append(w(n - 1).routerName, Last(tree[k].path)),
                  hit |-> TRUE, stop |-> ~Matches(tree[k], route[n])]
      BY <3>1, <3>2, <3>4 DEF Visit, node, Leads
    <3> HIDE DEF k
    <3>6. k = i
      <4> SUFFICES ASSUME k # i PROVE FALSE
        OBVIOUS
      <4>1. k \in 1..(i - 1) /\ Wild(tree[k])
        BY <3>4 DEF Leads
      <4>2. Len(tree[i].path) = n /\ tree[i].path \in Seq(Segments)
        BY <3>1, <3>3, PrefixShape
      <4>3. IsPrefix(tree[i].path, route)
        BY <3>1, <3>3, <4>2, PrefixMeans
      <4> QED
        BY <1>1, <1>4, <3>4, <4>1, <4>3 DEF Shadowed, Leads
    <3>7. On(n)
      <4>1. w(n).node = tree[k] /\ w(n).hit = TRUE
        BY <3>5
      <4>2. w(n).stop = FALSE
        <5>1. Matches(tree[k], route[n])
          BY <3>4 DEF Leads
        <5>2. w(n).stop = (~Matches(tree[k], route[n]))
          BY <3>5
        <5> QED
          BY <5>1, <5>2
      <4> QED
        BY <3>3, <3>6, <4>1, <4>2
    <3> HIDE DEF On
    <3> QED
      BY <3>1, <3>7
  <2>3. \A n \in 0..size : n \in P
    <3> HIDE DEF P
    <3> QED
      BY <1>1, <2>1, <2>2, UpTo
  <2> QED
    BY <1>1, <1>3, <2>3
<1>5. ASSUME w(size).node.path = route, Shadowed(tree, route) PROVE FALSE
  <2>0. PICK i \in 1..Len(tree) : \E j \in 1..(i - 1) :
          /\ IsPrefix(tree[i].path, route) /\ Front(tree[j].path) = Front(tree[i].path)
          /\ Wild(tree[j])
    BY <1>1, <1>5 DEF Shadowed
  <2>1. PICK j \in 1..(i - 1) :
          /\ IsPrefix(tree[i].path, route) /\ Front(tree[j].path) = Front(tree[i].path)
          /\ Wild(tree[j])
    BY <2>0
  <2> DEFINE n == Len(tree[i].path)
  <2>2. n \in 1..size /\ tree[i].path = SubSeq(route, 1, n)
    <3>1. tree[i].path \in Seq(Segments) /\ tree[i].path # <<>>
      BY <1>1, NodeShape
    <3>2. Len(tree[i].path) >= 1
      BY <3>1, EmptySeq
    <3> QED
      BY <1>1, <2>1, <3>1, <3>2, PrefixMeans
  <2> HIDE DEF n
  <2> DEFINE Off(m) == w(m).node.path # SubSeq(route, 1, m)
             P == {m \in 0..size : m < n \/ Off(m)}
  <2>3. ~Off(n)
    <3> SUFFICES ASSUME Off(n) PROVE FALSE
      OBVIOUS
    <3>1. 0 \in P
      BY <1>1, <2>2
    <3>2. ASSUME NEW m \in 1..size, m - 1 \in P PROVE m \in P
      <4>1. m \in 0..size /\ m \in Nat /\ n \in Nat
        BY <2>2
      <4>2. CASE m <= n
        <5>1. m < n \/ m = n
          BY <4>1, <4>2
        <5> HIDE DEF Off
        <5> QED
          BY <4>1, <5>1
      <4>3. CASE ~(m <= n)
        <5>1. Off(m - 1)
          <6>1. ~(m - 1 < n)
            BY <4>1, <4>3
          <6> HIDE DEF Off
          <6> QED
            BY <3>2, <6>1
        <5>2. Off(m)
          BY <5>1, OnRouteBefore
        <5> HIDE DEF Off
        <5> QED
          BY <4>1, <5>2
      <4> QED
        BY <4>2, <4>3
    <3>3. size \in P
      <4> HIDE DEF P
      <4>1. \A m \in 0..size : m \in P
        BY <1>1, <3>1, <3>2, UpTo
      <4> QED
        BY <1>1, <4>1
    <3>4. Off(size)
      <4>1. ~(size < n)
        BY <1>1, <2>2
      <4> HIDE DEF Off
      <4> QED
        BY <3>3, <4>1
    <3> QED
      BY <1>3, <1>5, <3>4
  <2> DEFINE node == w(n - 1).node
             next == Step(tree, node, route[n])
             k == First(next)
  <2>4. node.path = SubSeq(route, 1, n - 1) /\ next # {} /\ w(n).node = tree[k]
    BY <2>2, <2>3, OnRouteBefore
  <2>5. Leads(tree, next, k, i, route[n])
    <3> HIDE DEF w
    <3> QED
      BY <2>2, <2>4, AlongRoute
  <2> HIDE DEF k
  <2>7. j \in 1..Len(tree) /\ k <= j /\ k \in 1..Len(tree) /\ k # i
    BY <2>1, <2>5 DEF Leads
  <2>8. tree[k].path = tree[i].path
    BY <2>2, <2>3, <2>4
  <2> QED
    BY <2>7, <2>8 DEF WellMade
<1>6. Get(tree, route) = w(size)
  BY DEF Get
<1> QED
  BY <1>4, <1>5, <1>6
=============================================================================
