----------------------------- MODULE DepthFirst -----------------------------
(***************************************************************************)
(* The visit of a graph that the host makes for each of its visitors       *)
(* (InternalGraph::depthFirstVisit, that is boost::depth_first_visit).     *)
(*                                                                         *)
(* The graph is transposed: an edge goes from the vertex that needs images *)
(* (in, through one of its clips) to the vertex that makes them (out).     *)
(* The out-edges of a vertex are taken in any order, which includes the    *)
(* code's (by descriptor).  A visitor works when a vertex is discovered or *)
(* when it is finished; a module that EXTENDS this one conjoins what the   *)
(* visitor does to Start, Discover or Finish.                              *)
(***************************************************************************)
EXTENDS Naturals, Sequences, FiniteSets

CONSTANT
  Output  \* the fake output vertex of each render graph, the last one added to it

VARIABLES
  graph,  \* its vertices, its edges, and what the modules need to know of them
  stack,  \* the vertices discovered and not finished, the last one on top
  color   \* the color map of the visit: white, gray, black

visitVars == <<stack, color>>

Needs(v)  == {e \in graph.edges : e.in = v}   \* out_edges: the inputs of v
UsesOf(v) == {e \in graph.edges : e.out = v}  \* in_edges: who reads v

Top == stack[Len(stack)]
Visiting == stack # <<>>

(* A graph whose edges join its vertices, without a cycle: the user graph  *)
(* refuses the edge that would close one (UserGraph.tla).                  *)
IsGraph(g) ==
  /\ \A e \in g.edges : e.in \in g.vertices /\ e.out \in g.vertices
  /\ \E rank \in [g.vertices -> 1 .. Cardinality(g.vertices)] :
       \A e \in g.edges : rank[e.out] < rank[e.in]

(* All vertices are white, and root is discovered. *)
Start(root) ==
  /\ stack' = <<root>>
  /\ color' = [v \in graph.vertices |-> IF v = root THEN "gray" ELSE "white"]

Discover(w) ==
  /\ Visiting
  /\ \E e \in Needs(Top) : e.out = w
  /\ color[w] = "white"
  /\ stack' = Append(stack, w)
  /\ color' = [color EXCEPT ![w] = "gray"]

FinishEarly(v) ==  \* mutant: a vertex is finished before its inputs
  /\ Visiting /\ v = Top
  /\ stack' = SubSeq(stack, 1, Len(stack) - 1)
  /\ color' = [color EXCEPT ![v] = "black"]

Finish(v) ==
  /\ Visiting /\ v = Top
  /\ \A e \in Needs(v) : color[e.out] # "white"
  /\ stack' = SubSeq(stack, 1, Len(stack) - 1)
  /\ color' = [color EXCEPT ![v] = "black"]

Over == ~Visiting

=============================================================================
