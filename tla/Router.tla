------------------------------- MODULE Router -------------------------------
(***************************************************************************)
(* The route tree of router.cpp and the part of context.cpp that it uses.  *)
(*                                                                         *)
(* A node of the tree is the sequence of edges that leads to it; an edge   *)
(* is a literal segment or the one variable of its node.  A path is the    *)
(* sequence of what stands between its slashes, empty pieces included.     *)
(***************************************************************************)
EXTENDS Naturals, Sequences, SequencesExt

Methods == {"GET", "POST"}     \* method_map; any other method throws

Segment == [var : BOOLEAN, name : STRING]

Literal(s)    == [var |-> FALSE, name |-> s]
Variable(s)   == [var |-> TRUE, name |-> s]
Edge_Fault(segment) == segment
Edge(segment) == IF segment.var THEN Variable("") ELSE segment

Put(f, x, v) == [y \in DOMAIN f \union {x} |-> IF y = x THEN v ELSE f[y]]

\* route_node::insert, one fold step per segment
EmptyTree == [nodes |-> {<<>>}, variable |-> <<>>, endpoints |-> <<>>]

NodeOf(pattern, n) == [k \in 1..n |-> Edge(pattern[k])]

\* "Multiple variable definition for path segment" is thrown otherwise.
Insertable(tree, pattern) ==
  \A k \in DOMAIN pattern :
    pattern[k].var /\ NodeOf(pattern, k - 1) \in DOMAIN tree.variable
      => tree.variable[NodeOf(pattern, k - 1)] = pattern[k].name

Insert(tree, route) ==
  LET pattern == route.pattern
      leaf    == NodeOf(pattern, Len(pattern))
      parents == {k \in DOMAIN pattern : pattern[k].var}
      named   == {NodeOf(pattern, k - 1) : k \in parents}
  IN  [nodes     |-> tree.nodes \union {NodeOf(pattern, n) : n \in 0..Len(pattern)},
       variable  |-> [n \in named \union DOMAIN tree.variable |->
                        IF n \in named THEN pattern[Len(n) + 1].name ELSE tree.variable[n]],
       endpoints |-> Put(tree.endpoints, <<leaf, route.method>>, route.endpoint)]

RouteTree(routes) == FoldLeft(Insert, EmptyTree, routes)

\* split_path drops empty segments.
Push(segments, s) == IF s = "" THEN segments ELSE Append(segments, s)
SplitPath(path)   == FoldLeft(Push, <<>>, path)

\* where no edge fits: no path is this node
Nowhere == <<Variable("nowhere")>>

\* One level of route_node::process: a literal edge hides the variable one,
\* nothing is tried again, and the context learns what a variable stands for.
Descend(tree, at, s) ==
  LET literal  == Append(at.node, Literal(s))
      variable == Append(at.node, Variable(""))
  IN  IF literal \in tree.nodes THEN [at EXCEPT !.node = literal]
      ELSE IF variable \in tree.nodes
           THEN [node |-> variable, bound |-> Put(at.bound, tree.variable[at.node], s)]
           ELSE [at EXCEPT !.node = Nowhere]

Root == [node |-> <<>>, bound |-> <<>>]

Walk(tree, segments) == FoldLeft(LAMBDA at, s : Descend(tree, at, s), Root, segments)

\* router::process; "none" is route_not_found
Process(tree, method, path) ==
  LET at   == Walk(tree, SplitPath(path))
      leaf == <<at.node, method>>
  IN  IF leaf \in DOMAIN tree.endpoints
      THEN [endpoint |-> tree.endpoints[leaf], bound |-> at.bound]
      ELSE [endpoint |-> "none", bound |-> <<>>]

-----------------------------------------------------------------------------
(* What a reader of main.cpp expects of a list of routes. *)

Matches(pattern, path) ==
  /\ Len(pattern) = Len(path)
  /\ \A k \in DOMAIN path : pattern[k].var \/ pattern[k].name = path[k]

Binding(pattern, path) ==
  LET variables == {k \in DOMAIN pattern : pattern[k].var}
  IN  [name \in {pattern[k].name : k \in variables} |->
         path[CHOOSE k \in variables : pattern[k].name = name]]

\* What a list of routes has to be for that: at no place has one route a literal
\* and another the variable, which the literal would hide, and the variables of
\* a route have names of their own.
Unambiguous(routes) ==
  /\ \A j, k \in DOMAIN routes :
       LET p == routes[j].pattern
           q == routes[k].pattern
       IN  \A n \in DOMAIN p \intersect DOMAIN q :
             NodeOf(p, n - 1) = NodeOf(q, n - 1) => (p[n].var <=> q[n].var)
  /\ \A k \in DOMAIN routes :
       LET p == routes[k].pattern
       IN  \A m, n \in DOMAIN p : p[m].var /\ p[n].var /\ p[m].name = p[n].name => m = n

Expected(routes, method, path) ==
  LET fitting == {k \in DOMAIN routes : /\ routes[k].method = method
                                        /\ Matches(routes[k].pattern, SplitPath(path))}
  IN  {[endpoint |-> routes[k].endpoint,
        bound |-> Binding(routes[k].pattern, SplitPath(path))] : k \in fitting}
=============================================================================
