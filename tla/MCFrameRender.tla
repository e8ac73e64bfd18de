--------------------------- MODULE MCFrameRender ---------------------------
(* Frames for TLC: a diamond with two outputs, a clip that needs two       *)
(* frames, and a node that stands for another image at each time.          *)
EXTENDS FrameRender, Sequences, TLC

CONSTANTS MaxIdentities  \* bound: identity vertices in one frame

Listed(es) == {es[k] @@ ("n" :> k) : k \in 1 .. Len(es)}

Edge(in, clip, out) == [in |-> in, clip |-> clip, out |-> out, time |-> 1]
Edge2(in, clip, out) == [Edge(in, clip, out) EXCEPT !.time = 2]

(* d merges b and c, which both read a; b and d are outputs. *)
Diamond ==
  [node |-> <<"a", "b", "c", "d">>, time |-> <<1, 1, 1, 1>>,
   edges |-> Listed(<<Edge(2, "s", 1), Edge(3, "s", 1), Edge(4, "s", 2), Edge(4, "t", 3),
               Edge(Output, "o", 4), Edge(Output, "o", 2)>>)]

(* c reads the frames 1 and 2 of m, and m reads a, or b, at its own time. *)
TwoFrames ==
  [node |-> <<"a", "a", "b", "b", "m", "m", "c">>, time |-> <<1, 2, 1, 2, 1, 2, 1>>,
   edges |-> Listed(<<Edge(5, "s", 1), Edge(5, "t", 3), Edge2(6, "s", 2), Edge2(6, "t", 4),
               Edge(7, "s", 5), Edge2(7, "s", 6), Edge(Output, "o", 7)>>)]

(* A chain whose source is listed last. *)
Chain ==
  [node |-> <<"d", "c", "b", "a">>, time |-> <<1, 1, 1, 1>>,
   edges |-> Listed(<<Edge(1, "s", 2), Edge(2, "s", 3), Edge(3, "s", 4), Edge(Output, "o", 1)>>)]

(* x is an output that stands for a; d reads i, which stands for a disabled *)
(* vertex, and is given the first vertex instead.                          *)
Branches ==
  [node |-> <<"x", "a", "c", "i", "d">>, time |-> <<1, 1, 1, 1, 1>>,
   edges |-> Listed(<<Edge(1, "s", 2), Edge(4, "s", 3), Edge(5, "s", 4),
                      Edge(Output, "o", 1), Edge(Output, "o", 5)>>),
   identity |-> <<2, Rendered, Disabled, 3, Rendered>>]

Answers(g, v) ==
  {Rendered, Disabled, v} \cup {e.out : e \in InEdges(v, g.edges)}

WithIdentities(g, free) ==
  {g @@ ("identity" :> [v \in Vertices(g) |-> IF v \in free THEN f[v] ELSE Rendered]) :
     f \in {h \in [free -> UNION {Answers(g, v) : v \in free}] :
              \A v \in free : h[v] \in Answers(g, v)}}

Few(cs) ==
  {c \in cs : Cardinality({v \in Vertices(c) : c.identity[v] # Rendered}) <= MaxIdentities}

Frames == Few(WithIdentities(Diamond, 1 .. 4)) \cup Few(WithIdentities(Chain, 1 .. 4))
            \cup Few(WithIdentities(TwoFrames, {5, 6})) \cup {Branches}

=============================================================================
