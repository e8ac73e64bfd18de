---------------------------- MODULE MCClipSetup ----------------------------
(* Render graphs and kinds of nodes for TLC.  Nodes 1 and 2 read files, 3  *)
(* and 4 work on images; 2 may also have an input.                         *)
EXTENDS ClipSetup

Edge(in, clip, out) == [in |-> in, clip |-> clip, out |-> out]
RenderGraph(es) == [vertices |-> {e.in : e \in es} \cup {e.out : e \in es}, edges |-> es]

Chain   == {Edge(9, "o", 3), Edge(3, "s", 1)}
Two     == {Edge(9, "o", 3), Edge(3, "s", 1), Edge(3, "t", 2)}
Twice   == {Edge(9, "o", 3), Edge(3, "s", 1), Edge(3, "s", 2)}
Swapped == {Edge(9, "o", 1), Edge(1, "s", 3), Edge(3, "t", 2)}
Merge   == {Edge(9, "o", 4), Edge(4, "s", 3), Edge(3, "s", 1), Edge(4, "t", 2)}
Shared  == {Edge(9, "o", 4), Edge(4, "s", 3), Edge(3, "s", 1), Edge(9, "o", 3), Edge(4, "t", 2)}

SmallGraphs  == {RenderGraph(es) : es \in {Chain, Two, Twice, Swapped}}
LargerGraphs == {RenderGraph(es) : es \in {Merge, Shared}}
OneGraph     == {RenderGraph(Merge)}
TwoGraphs    == {RenderGraph(Chain), RenderGraph(Two)}

(* What a plugin declares. *)
Kind(depths, multi, depth, ins, outs, comps, mandatory) ==
  [depths |-> depths, multi |-> multi, depth |-> depth, ins |-> ins, outs |-> outs,
   comps |-> comps, mandatory |-> mandatory]

Reader(depth, comps)   == Kind(RealDepths, TRUE, depth, {1, 4}, {1, 4}, comps, {})
OneDepthReader(depths, depth) == Kind(depths, FALSE, depth, {4}, {4}, 4, {})
Filter(depths, multi)  == Kind(depths, multi, NoDepth, {1, 4}, {1, 4}, NoComponents, {"s"})
Converter(depth)       == Kind(RealDepths, TRUE, depth, {3, 4}, {4}, NoComponents, {"s"})
Opaque                 == Kind(RealDepths, FALSE, NoDepth, {4}, {3, 4}, 3, {"s"})

Readers == {Reader(Byte, 4), Reader(NoDepth, 1), OneDepthReader({Byte}, NoDepth),
            OneDepthReader(RealDepths, Short)}
Filters == {Filter(RealDepths, FALSE), Filter({Short}, FALSE), Filter({Byte, Float}, TRUE),
            Converter(Byte), Opaque}

AllKinds ==
  {[v \in Nodes |-> CASE v = 1 -> r1 [] v = 2 -> r2 [] v = 3 -> f3 [] v = 4 -> f4] :
     r1 \in Readers, r2 \in {Reader(Float, 4), OneDepthReader(RealDepths, NoDepth)},
     f3 \in Filters, f4 \in {Filter(RealDepths, FALSE), Filter({Byte, Float}, TRUE)}}

PlainKinds ==
  {[v \in Nodes |-> CASE v = 1 -> Reader(Byte, 4) [] v = 2 -> Reader(Float, 4)
                      [] OTHER -> Filter(RealDepths, FALSE)]}

ByteReader ==
  {[v \in Nodes |-> CASE v = 1 -> OneDepthReader({Byte}, Byte) [] v = 2 -> Reader(Float, 4)
                      [] OTHER -> Filter(RealDepths, FALSE)]}

Mixed == SmallGraphs \cup LargerGraphs

=============================================================================
