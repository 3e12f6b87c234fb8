----------------------------- MODULE RouteTree ------------------------------
(***************************************************************************)
(* The route tree of tree.go, and of gateway/tree.go, which differs only   *)
(* in a name kept at each node.  A path is the sequence of its segments.   *)
(* A tree is the sequence of its nodes in the order they were made; a node *)
(* is known by the segments that lead to it from the root, and keeps       *)
(* whether a route ends at it and the name it was made with (GwName).      *)
(***************************************************************************)
EXTENDS Naturals, Sequences, SequencesExt

CONSTANT Params  \* the segments of routes that contain a ":"

Root == [path |-> <<>>, isEnd |-> FALSE, gwName |-> <<>>]

(* How many of the first segments of a route have their nodes.             *)
Walked(tree, route) ==
  Min({n \in 0..Len(route) :
         n = Len(route) \/ \A i \in DOMAIN tree : tree[i].path # SubSeq(route, 1, n + 1)})

Made(route, from, name) ==
  [i \in 1..(Len(route) - from) |-> [path   |-> SubSeq(route, 1, from + i),
                                     isEnd  |-> from + i = Len(route),
                                     gwName |-> name]]

(* Mutant: a name that comes later takes the nodes it passes.              *)
MutPut(tree, route, name) ==
  [i \in DOMAIN tree |-> IF IsPrefix(tree[i].path, route)
                         THEN [tree[i] EXCEPT !.gwName = name] ELSE tree[i]]
  \o Made(route, Walked(tree, route), name)

(* Put makes the nodes that are missing; only a node it makes can become   *)
(* an end.                                                                 *)
Put(tree, route, name) == tree \o Made(route, Walked(tree, route), name)

Children(tree, node) == {i \in DOMAIN tree : Front(tree[i].path) = node.path}

(* Mutant: a new child is put before the others.                           *)
MutFirst(children) == Max(children)

(* A new child is put after the others.                                    *)
First(children) == Min(children)

Wild(node) == Last(node.path) = "*" \/ Last(node.path) \in Params
Matches(node, segment) == Last(node.path) = segment \/ Wild(node)

Start == [node |-> Root, routerName |-> <<>>, hit |-> FALSE, stop |-> FALSE]

(* The children a segment can lead to: those that match it, else "**".     *)
Step(tree, node, segment) ==
  LET kids == Children(tree, node)
      fit  == {i \in kids : Matches(tree[i], segment)}
  IN IF fit # {} THEN fit ELSE {i \in kids : Last(tree[i].path) = "**"}

(* Mutant: the name is put together from the path, not from the nodes.     *)
MutVisit(tree, walk, segment) ==
  LET next == Step(tree, walk.node, segment)
      node == tree[First(next)]
  IN IF walk.stop THEN walk
     ELSE IF next = {} THEN [walk EXCEPT !.hit = FALSE]
     ELSE [node |-> node, routerName |-> Append(walk.routerName, segment),
           hit |-> TRUE, stop |-> ~Matches(node, segment)]

(* One segment of Get: a "**" child ends the walk, and a segment that      *)
(* leads nowhere is passed over.                                           *)
Visit(tree, walk, segment) ==
  LET next == Step(tree, walk.node, segment)
      node == tree[First(next)]
  IN IF walk.stop THEN walk
     ELSE IF next = {} THEN [walk EXCEPT !.hit = FALSE]
     ELSE [node |-> node, routerName |-> Append(walk.routerName, Last(node.path)),
           hit |-> TRUE, stop |-> ~Matches(node, segment)]

(* The walk after each segment of the path.                                *)
Walk(tree, path) ==
  LET walk[n \in 0..Len(path)] ==
        IF n = 0 THEN Start ELSE Visit(tree, walk[n - 1], path[n])
  IN walk

(* Get finds a node if its walk stopped or its last segment led to one.    *)
Get(tree, path) == Walk(tree, path)[Len(path)]

(* What makes Get miss a route: a wild sibling, made before its node or    *)
(* before one above it, takes the segment.                                 *)
Shadowed(tree, route) ==
  \E i \in DOMAIN tree : \E j \in 1..(i - 1) :
    /\ IsPrefix(tree[i].path, route) /\ Front(tree[j].path) = Front(tree[i].path)
    /\ Wild(tree[j])
=============================================================================
