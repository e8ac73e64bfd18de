---------------------------- MODULE MCTimeSetup ----------------------------
(* Render graphs for TLC: a chain, a fork with two outputs, a diamond and  *)
(* a clip with two edges, with every choice of a few offsets, of a few     *)
(* time domains and of the edge that links a clip.                         *)
EXTENDS TimeSetup

MinusNine == -9

Edge(in, clip, out) == [in |-> in, clip |-> clip, out |-> out]
R(from, to) == [min |-> from, max |-> to]

(* Vertices are numbered in the order the application created them. *)
Chain   == {Edge(9, "o", 3), Edge(3, "s", 2), Edge(2, "s", 1)}
Fork    == {Edge(9, "o", 3), Edge(3, "s", 1), Edge(3, "t", 2), Edge(9, "o", 2)}
Diamond == {Edge(9, "o", 4), Edge(4, "s", 2), Edge(4, "t", 3), Edge(2, "s", 1), Edge(3, "s", 1)}
Double  == {Edge(9, "o", 3), Edge(3, "s", 1), Edge(3, "s", 2)}

VerticesOf(es) == {e.in : e \in es} \cup {e.out : e \in es}

(* A plugin answers for a clip; the output vertex has none to ask. *)
Clips(es) == {<<e.in, e.clip>> : e \in {x \in es : x.in # 9}}

Offsets(es, some) ==
  {[e \in es |-> IF e.in = 9 THEN {0} ELSE o[<<e.in, e.clip>>]] : o \in [Clips(es) -> some]}

(* One edge of each clip. *)
LinksOf(es) ==
  {l \in SUBSET es : \A e \in es : Cardinality({f \in l : f.in = e.in /\ f.clip = e.clip}) = 1}

(* The readers know their time domain, or not; 3 may override the host's. *)
Answers(es) ==
  {[v \in VerticesOf(es) |-> CASE v = 1 -> d1 [] v = 2 /\ (\A e \in es : e.in # 2) -> R(2, 4)
                               [] v = 3 -> d3 [] OTHER -> NoAnswer] :
     d1 \in {R(1, 3), NoAnswer}, d3 \in {R(0, 2), NoAnswer}}

RenderGraphs(es, offsets, answers) ==
  {[vertices |-> VerticesOf(es), edges |-> es, linked |-> l, offsets |-> o, answer |-> a] :
     l \in LinksOf(es), o \in offsets, a \in answers}

Unasked(es) == [v \in VerticesOf(es) |-> IF v = 1 THEN R(1, 2) ELSE NoAnswer]

ReadGraphs ==
  UNION {RenderGraphs(es, Offsets(es, {{0}}), Answers(es))
           \cup RenderGraphs(es, Offsets(es, {{-1}, {0, 1}}), {Unasked(es)}) :
         es \in {Chain, Fork, Diamond, Double}}

(* No node at all. *)
NoNode == [vertices |-> {9}, edges |-> {}, linked |-> {}, offsets |-> [e \in {} |-> {}],
           answer |-> [v \in {9} |-> NoAnswer]]

AllGraphs == ReadGraphs \cup {NoNode}

TemporalDiamonds == RenderGraphs(Diamond, Offsets(Diamond, {{0}, {1}}), {Unasked(Diamond)})

Options(from, to, list) == [begin |-> from, end |-> to, ranges |-> list]

Asks == {Options(IntMin, IntMax, {}), Options(2, IntMax, {}), Options(IntMin, 2, {}),
         Options(-2, -1, {}), Options(IntMin, IntMax, {R(1, 2)})}

NoOption == {Options(IntMin, IntMax, {})}

=============================================================================
