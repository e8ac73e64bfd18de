---------------------------- MODULE SetupProofs ----------------------------
(***************************************************************************)
(* Proofs about what ProcessGraph does before it renders, for every finite *)
(* graph without a cycle and every answer of the plugins: what each of its *)
(* visits keeps true (DepthFirst.tla), the times it deploys the graph at   *)
(* (TimeSetup.tla), what it negotiates for the clips (ClipSetup.tla).      *)
(*                                                                         *)
(* The two setups share the variables of the visit, and nothing else: a    *)
(* theorem is about Spec, the time setup, or about ClipSpec, the clips.    *)
(***************************************************************************)
EXTENDS TimeSetup, ClipSetup, SequenceTheorems, FiniteSetTheorems, WellFoundedInduction, TLAPS

-----------------------------------------------------------------------------
(* What a depth-first visit keeps true, for any graph without a cycle: the *)
(* gray vertices are the stack, and the inputs of a black vertex are black. *)

Colors == {"white", "gray", "black"}

(* Of a graph without a cycle, a number for each vertex that decreases     *)
(* along the edges.                                                        *)
Rank(g) == CHOOSE r \in [g.vertices -> 1 .. Cardinality(g.vertices)] :
             \A e \in g.edges : r[e.out] < r[e.in]

VisitInv ==
  /\ stack \in Seq(graph.vertices)
  /\ color \in [graph.vertices -> Colors]
  /\ \A i \in 1 .. Len(stack) : color[stack[i]] = "gray"
  /\ \A v \in graph.vertices : color[v] = "gray" => \E i \in 1 .. Len(stack) : stack[i] = v
  /\ \A i, j \in 1 .. Len(stack) : i < j => Rank(graph)[stack[j]] < Rank(graph)[stack[i]]
  /\ \A e \in graph.edges : color[e.in] = "black" => color[e.out] = "black"

(* A graph has a rank, with values among the integers. *)
LEMMA Ranked ==
  ASSUME NEW g, IsGraph(g), IsFiniteSet(g.vertices)
  PROVE  /\ \A v \in g.vertices : Rank(g)[v] \in Int
         /\ \A e \in g.edges : Rank(g)[e.out] < Rank(g)[e.in]
<1> DEFINE R == [g.vertices -> 1 .. Cardinality(g.vertices)]
<1>1. \E r \in R : \A e \in g.edges : r[e.out] < r[e.in]
  BY DEF IsGraph
<1>2. /\ Rank(g) \in R
      /\ \A e \in g.edges : Rank(g)[e.out] < Rank(g)[e.in]
  BY <1>1 DEF Rank
<1>3. \A v \in g.vertices : Rank(g)[v] \in 1 .. Cardinality(g.vertices)
  BY <1>2
<1> QED
  BY <1>2, <1>3

(* A visit starts with VisitInv. *)
LEMMA StartVisits ==
  ASSUME IsGraph(graph), NEW root \in graph.vertices, Start(root), UNCHANGED graph
  PROVE  VisitInv'
<1>1. stack' \in Seq(graph.vertices) /\ Len(stack') = 1 /\ stack'[1] = root
  <2>1. stack' = <<root>>
    BY DEF Start
  <2>2. Len(<<root>>) = 1 /\ <<root>>[1] = root
    OBVIOUS
  <2>3. <<root>> \in [1 .. 1 -> graph.vertices]
    OBVIOUS
  <2>4. <<root>> \in Seq(graph.vertices)
    BY <2>3, 1 \in Nat, SeqDef
  <2> QED
    BY <2>1, <2>2, <2>4
<1>2. /\ color' \in [graph.vertices -> Colors]
      /\ \A v \in graph.vertices : color'[v] = IF v = root THEN "gray" ELSE "white"
  BY DEF Start, Colors
<1>3. 1 .. Len(stack') = {1}
  BY <1>1
<1>4. \A e \in graph.edges : color'[e.in] # "black"
  BY <1>2 DEF IsGraph
<1>5. \A i, j \in 1 .. Len(stack') : ~ (i < j)
  BY <1>3
<1>6. \A i \in 1 .. Len(stack') : color'[stack'[i]] = "gray"
  BY <1>1, <1>2, <1>3
<1>7. \A v \in graph.vertices : color'[v] = "gray" => \E i \in 1 .. Len(stack') : stack'[i] = v
  BY <1>1, <1>2, <1>3
<1> QED
  BY <1>1, <1>2, <1>4, <1>5, <1>6, <1>7 DEF VisitInv

(* The top of the stack is a gray vertex of the graph. *)
LEMMA TopIsGray ==
  ASSUME VisitInv, Visiting
  PROVE  /\ Len(stack) \in Nat /\ Len(stack) > 0
         /\ Top \in graph.vertices /\ color[Top] = "gray"
<1>1. Len(stack) \in Nat /\ Len(stack) > 0
  BY DEF VisitInv, Visiting
<1>2. Len(stack) \in 1 .. Len(stack)
  BY <1>1
<1> QED
  BY <1>1, <1>2 DEF VisitInv, Top

(* A white vertex joins the stack, above one that needs it. *)
LEMMA DiscoverVisits ==
  ASSUME IsGraph(graph), IsFiniteSet(graph.vertices), VisitInv,
         NEW w \in graph.vertices, Discover(w), UNCHANGED graph
  PROVE  VisitInv'
<1>1. /\ stack' \in Seq(graph.vertices) /\ Len(stack') = Len(stack) + 1
      /\ stack'[Len(stack) + 1] = w
      /\ \A i \in 1 .. Len(stack) : stack'[i] = stack[i]
  BY DEF Discover, VisitInv
<1>2. /\ color' \in [graph.vertices -> Colors]
      /\ \A v \in graph.vertices : color'[v] = IF v = w THEN "gray" ELSE color[v]
  BY DEF Discover, VisitInv, Colors
<1>3. color[w] = "white"
  BY DEF Discover
<1>4. /\ Len(stack) \in Nat /\ Len(stack) > 0 /\ Top \in graph.vertices
      /\ Top = stack[Len(stack)]
  BY TopIsGray DEF Discover, Top
<1>5. \A i \in 1 .. Len(stack') : i \in 1 .. Len(stack) \/ i = Len(stack) + 1
  BY <1>1, <1>4
<1>6. \A i \in 1 .. Len(stack) : stack[i] \in graph.vertices
  BY DEF VisitInv
<1>7. \A i \in 1 .. Len(stack') : color'[stack'[i]] = "gray"
  BY <1>1, <1>2, <1>5, <1>6 DEF VisitInv
<1>8. \A v \in graph.vertices : color'[v] = "gray" => \E i \in 1 .. Len(stack') : stack'[i] = v
  <2> SUFFICES ASSUME NEW v \in graph.vertices, color'[v] = "gray"
               PROVE  \E i \in 1 .. Len(stack') : stack'[i] = v
    OBVIOUS
  <2>1. CASE v = w
    BY <2>1, <1>1, <1>4
  <2>2. CASE v # w
    <3>1. PICK i \in 1 .. Len(stack) : stack[i] = v
      BY <2>2, <1>2 DEF VisitInv
    <3> QED
      BY <3>1, <1>1, <1>4
  <2> QED
    BY <2>1, <2>2
<1>9. \A i, j \in 1 .. Len(stack') : i < j => Rank(graph)[stack'[j]] < Rank(graph)[stack'[i]]
  <2> SUFFICES ASSUME NEW i \in 1 .. Len(stack'), NEW j \in 1 .. Len(stack'), i < j
               PROVE  Rank(graph)[stack'[j]] < Rank(graph)[stack'[i]]
    OBVIOUS
  <2>1. i \in 1 .. Len(stack)
    BY <1>1, <1>4
  <2>2. CASE j \in 1 .. Len(stack)
    BY <2>1, <2>2, <1>1 DEF VisitInv
  <2>3. CASE j = Len(stack) + 1
    <3>1. Rank(graph)[w] < Rank(graph)[Top]
      <4>1. PICK e \in Needs(Top) : e.out = w
        BY DEF Discover
      <4> QED
        BY <4>1, Ranked DEF Needs
    <3>2. i = Len(stack) \/ Rank(graph)[Top] < Rank(graph)[stack[i]]
      BY <2>1, <1>4 DEF VisitInv
    <3>3. /\ Rank(graph)[w] \in Int /\ Rank(graph)[Top] \in Int
          /\ Rank(graph)[stack[i]] \in Int
      BY <2>1, <1>4, <1>6, Ranked
    <3>4. Rank(graph)[w] < Rank(graph)[stack[i]]
      BY <3>1, <3>2, <3>3, <1>4
    <3> QED
      BY <3>4, <2>1, <2>3, <1>1
  <2> QED
    BY <2>2, <2>3, <1>5
<1>10. \A e \in graph.edges : color'[e.in] = "black" => color'[e.out] = "black"
  BY <1>2, <1>3 DEF VisitInv, IsGraph
<1> QED
  BY <1>1, <1>2, <1>7, <1>8, <1>9, <1>10 DEF VisitInv

(* A vertex is finished when all its inputs are: one that is not would be  *)
(* below it on the stack.                                                  *)
LEMMA InputsFinished ==
  ASSUME IsGraph(graph), IsFiniteSet(graph.vertices), VisitInv, NEW v, Finish(v)
  PROVE  \A e \in Needs(v) : color[e.out] = "black"
<1> SUFFICES ASSUME NEW e \in Needs(v), color[e.out] # "black"
             PROVE  FALSE
  OBVIOUS
<1>1. e \in graph.edges /\ e.in = v /\ e.out \in graph.vertices /\ v = stack[Len(stack)]
  BY DEF Needs, IsGraph, Finish, Top
<1>2. color[e.out] = "gray"
  BY <1>1 DEF Finish, VisitInv, Colors
<1>3. PICK i \in 1 .. Len(stack) : stack[i] = e.out
  BY <1>1, <1>2 DEF VisitInv
<1>4. Len(stack) \in Nat /\ Len(stack) > 0 /\ v \in graph.vertices
  BY TopIsGray DEF Finish
<1>5. i = Len(stack) \/ Rank(graph)[v] < Rank(graph)[e.out]
  BY <1>1, <1>3, <1>4 DEF VisitInv
<1>6. /\ Rank(graph)[e.out] < Rank(graph)[v]
      /\ Rank(graph)[e.out] \in Int /\ Rank(graph)[v] \in Int
  BY <1>1, <1>4, Ranked
<1> QED
  BY <1>1, <1>3, <1>5, <1>6

(* A sequence without its last element. *)
LEMMA Popped ==
  ASSUME NEW S, NEW s \in Seq(S), Len(s) > 0
  PROVE  /\ SubSeq(s, 1, Len(s) - 1) \in Seq(S)
         /\ Len(SubSeq(s, 1, Len(s) - 1)) = Len(s) - 1
         /\ \A i \in 1 .. Len(s) - 1 : SubSeq(s, 1, Len(s) - 1)[i] = s[i]
<1>1. SubSeq(s, 1, Len(s) - 1) \in Seq(S)
  OBVIOUS
<1>2. \A k \in Nat : k + 1 = Len(s) => Len(SubSeq(s, 1, k)) = k
  BY SubSeqProperties, ElementOfSeq
<1>3. Len(s) - 1 \in Nat /\ (Len(s) - 1) + 1 = Len(s)
  OBVIOUS
<1>4. Len(SubSeq(s, 1, Len(s) - 1)) = Len(s) - 1
  BY <1>2, <1>3
<1>5. \A i \in 1 .. Len(s) - 1 : SubSeq(s, 1, Len(s) - 1)[i] = s[i]
  OBVIOUS
<1> QED
  BY <1>1, <1>4, <1>5

(* The finished vertex becomes black, after its inputs. *)
LEMMA FinishVisits ==
  ASSUME IsGraph(graph), IsFiniteSet(graph.vertices), VisitInv,
         NEW v, Finish(v), UNCHANGED graph
  PROVE  VisitInv' /\ v \in graph.vertices
<1>1. /\ Len(stack) \in Nat /\ Len(stack) > 0 /\ v \in graph.vertices
      /\ v = stack[Len(stack)]
  BY TopIsGray DEF Finish, Top
<1>2. /\ stack' \in Seq(graph.vertices) /\ Len(stack') = Len(stack) - 1
      /\ \A i \in 1 .. Len(stack) - 1 : stack'[i] = stack[i]
  <2>1. stack \in Seq(graph.vertices)
    BY DEF VisitInv
  <2>2. stack' = SubSeq(stack, 1, Len(stack) - 1)
    BY DEF Finish
  <2> QED
    BY <2>1, <2>2, <1>1, Popped
<1>3. /\ color' \in [graph.vertices -> Colors]
      /\ \A x \in graph.vertices : color'[x] = IF x = v THEN "black" ELSE color[x]
  BY DEF Finish, VisitInv, Colors
<1>4. \A i \in 1 .. Len(stack') : i \in 1 .. Len(stack) /\ i < Len(stack)
  BY <1>1, <1>2
<1>5. \A i \in 1 .. Len(stack) : stack[i] \in graph.vertices /\ Rank(graph)[stack[i]] \in Int
  BY Ranked DEF VisitInv
<1>6. \A i \in 1 .. Len(stack') : stack[i] # v
  <2> SUFFICES ASSUME NEW i \in 1 .. Len(stack'), stack[i] = v
               PROVE  FALSE
    OBVIOUS
  <2>1. i \in 1 .. Len(stack) /\ Len(stack) \in 1 .. Len(stack) /\ i < Len(stack)
    BY <1>1, <1>4
  <2>2. Rank(graph)[stack[Len(stack)]] < Rank(graph)[stack[i]]
    BY <2>1 DEF VisitInv
  <2> QED
    BY <2>1, <2>2, <1>1, <1>5
<1>7. \A i \in 1 .. Len(stack') : color'[stack'[i]] = "gray"
  BY <1>2, <1>3, <1>4, <1>5, <1>6 DEF VisitInv
<1>8. \A x \in graph.vertices : color'[x] = "gray" => \E i \in 1 .. Len(stack') : stack'[i] = x
  <2> SUFFICES ASSUME NEW x \in graph.vertices, color'[x] = "gray"
               PROVE  \E i \in 1 .. Len(stack') : stack'[i] = x
    OBVIOUS
  <2>1. x # v /\ color[x] = "gray"
    BY <1>3
  <2>2. PICK i \in 1 .. Len(stack) : stack[i] = x
    BY <2>1 DEF VisitInv
  <2>3. i # Len(stack)
    BY <2>1, <2>2, <1>1
  <2>4. i \in 1 .. Len(stack')
    BY <2>2, <2>3, <1>1, <1>2
  <2> QED
    BY <2>2, <2>4, <1>2
<1>9. \A i, j \in 1 .. Len(stack') : i < j => Rank(graph)[stack'[j]] < Rank(graph)[stack'[i]]
  BY <1>2, <1>4 DEF VisitInv
<1>10. \A e \in graph.edges : color'[e.in] = "black" => color'[e.out] = "black"
  <2> SUFFICES ASSUME NEW e \in graph.edges, color'[e.in] = "black"
               PROVE  color'[e.out] = "black"
    OBVIOUS
  <2>1. e.in \in graph.vertices /\ e.out \in graph.vertices
    BY DEF IsGraph
  <2>2. color[e.out] = "black"
    <3>1. CASE e.in = v
      BY <3>1, InputsFinished DEF Needs
    <3>2. CASE e.in # v
      BY <3>2, <2>1, <1>3 DEF VisitInv
    <3> QED
      BY <3>1, <3>2
  <2> QED
    BY <2>1, <2>2, <1>3
<1> QED
  BY <1>1, <1>2, <1>3, <1>7, <1>8, <1>9, <1>10 DEF VisitInv

(* When the visit is over no vertex is gray: what was discovered is done,  *)
(* with everything it reads.                                               *)
LEMMA OverIsFinished ==
  ASSUME VisitInv, Over
  PROVE  \A v \in graph.vertices : color[v] \in {"white", "black"}
<1>1. Len(stack) = 0
  BY DEF Over, Visiting
<1> QED
  BY <1>1 DEF VisitInv, Colors

-----------------------------------------------------------------------------
(* The least and the greatest of finitely many integers.                   *)

(* A set of natural numbers has a minimum. *)
LEMMA NatMin ==
  ASSUME NEW S \in SUBSET Nat, S # {}
  PROVE  \E n \in S : \A m \in S : n <= m
<1>1. PICK x \in S : \A y \in S : ~ (<<y, x>> \in OpToRel(<, Nat))
  BY NatLessThanWellFounded, WFMin
<1>2. \A y \in S : ~ (y < x)
  BY <1>1 DEF OpToRel
<1> QED
  BY <1>2

(* One of finitely many elements has the least weight: it has the fewest   *)
(* elements below it.                                                      *)
LEMMA LeastOfFinite ==
  ASSUME NEW S, IsFiniteSet(S), S # {}, NEW w \in [S -> Int]
  PROVE  \E x \in S : \A y \in S : w[x] <= w[y]
<1> DEFINE Below(x) == {y \in S : w[y] < w[x]}
           sizes == {Cardinality(Below(x)) : x \in S}
<1>1. \A x \in S : IsFiniteSet(Below(x)) /\ Cardinality(Below(x)) \in Nat
  <2>1. \A x \in S : Below(x) \in SUBSET S
    OBVIOUS
  <2> HIDE DEF Below
  <2> QED
    BY <2>1, FS_Subset, FS_CardinalityType
<1>2. PICK x \in S : \A y \in S : Cardinality(Below(x)) <= Cardinality(Below(y))
  <2>1. sizes \in SUBSET Nat /\ sizes # {}
    BY <1>1
  <2>2. PICK n \in sizes : \A m \in sizes : n <= m
    <3> HIDE DEF sizes
    <3> QED
      BY <2>1, NatMin
  <2> QED
    BY <2>2
<1>3. ASSUME NEW y \in S, w[y] < w[x]
      PROVE  FALSE
  <2>1. w[x] \in Int /\ \A z \in S : w[z] \in Int
    OBVIOUS
  <2>2. Below(y) \in SUBSET Below(x)
    BY <1>3, <2>1
  <2>3. y \in Below(x) /\ y \notin Below(y)
    BY <1>3, <2>1
  <2> HIDE DEF Below
  <2>4. /\ Cardinality(Below(y)) <= Cardinality(Below(x))
        /\ Cardinality(Below(y)) # Cardinality(Below(x))
    BY <1>1, <2>2, <2>3, FS_Subset
  <2>5. Cardinality(Below(y)) \in Nat /\ Cardinality(Below(x)) \in Nat
    BY <1>1
  <2> QED
    BY <1>2, <2>4, <2>5
<1>4. \A y \in S : w[y] \in Int
  OBVIOUS
<1> QED
  BY <1>3, <1>4

LEMMA MinOfFinite ==
  ASSUME NEW S \in SUBSET Int, IsFiniteSet(S), S # {}
  PROVE  Min(S) \in S /\ \A y \in S : Min(S) <= y
<1> DEFINE w == [x \in S |-> x]
<1>1. w \in [S -> Int] /\ \A x \in S : w[x] = x
  OBVIOUS
<1> HIDE DEF w
<1>2. PICK x \in S : \A y \in S : w[x] <= w[y]
  BY <1>1, LeastOfFinite
<1>3. \A y \in S : x <= y
  BY <1>1, <1>2
<1> QED
  BY <1>3 DEF Min

LEMMA MaxOfFinite ==
  ASSUME NEW S \in SUBSET Int, IsFiniteSet(S), S # {}
  PROVE  Max(S) \in S /\ \A y \in S : y <= Max(S)
<1> DEFINE w == [x \in S |-> -x]
<1>1. w \in [S -> Int] /\ \A x \in S : w[x] = -x
  OBVIOUS
<1> HIDE DEF w
<1>2. PICK x \in S : \A y \in S : w[x] <= w[y]
  BY <1>1, LeastOfFinite
<1>3. \A y \in S : x >= y
  BY <1>1, <1>2
<1>4. Max(S) \in S /\ \A y \in S : Max(S) >= y
  BY <1>3 DEF Max
<1> QED
  BY <1>4

(* The values of a function on finitely many elements. *)
LEMMA FiniteImage ==
  ASSUME NEW S, IsFiniteSet(S), NEW f
  PROVE  IsFiniteSet({f[x] : x \in S})
<1> DEFINE g == [x \in S |-> f[x]]
           T == {f[x] : x \in S}
<1>1. g \in [S -> T] /\ \A t \in T : \E x \in S : g[x] = t
  OBVIOUS
<1>2. g \in Surjection(S, T)
  BY <1>1 DEF Surjection
<1> HIDE DEF g, T
<1>3. IsFiniteSet(T)
  BY <1>2, FS_Surjection
<1> QED
  BY <1>3 DEF T

-----------------------------------------------------------------------------
(* Types.                                                                  *)

(* The types, but for those of the visit. *)
Types ==
  /\ graph \in Graphs /\ request \in Requests
  /\ pc \in {"domain", "ready", "deploy", "built", "failed"}
  /\ domain \in [graph.vertices -> [min : Int, max : Int]]
  /\ ranges \subseteq [min : Int, max : Int]
  /\ time \in Int /\ frames \in 0 .. MaxFrames
  /\ times \in [graph.vertices -> SUBSET Int]
  /\ needed \in [graph.edges -> SUBSET (Int \X Int)]
  /\ atVertices \subseteq graph.vertices \X Int
  /\ \A a \in atEdges : {a.in, a.out} \subseteq atVertices /\ a.time \in Int

(* A node is needed at finitely many times, so that the deployed vertices  *)
(* have a first one.                                                       *)
FinitelyMany ==
  /\ \A v \in graph.vertices : IsFiniteSet(times[v])
  /\ \A e \in graph.edges : IsFiniteSet(needed[e])

(* What the assumption says of the graph rendered. *)
LEMMA GraphFacts ==
  ASSUME Types
  PROVE  /\ IsGraph(graph) /\ IsFiniteSet(graph.vertices) /\ IsFiniteSet(graph.edges)
         /\ graph.vertices \subseteq Int /\ Output \in graph.vertices
         /\ \A e \in graph.edges : e.in \in graph.vertices /\ e.out \in graph.vertices
         /\ \A e \in graph.edges : e.out # Output /\ e.out # e.in
         /\ \A e \in graph.edges : graph.offsets[e] \in SUBSET Int /\ IsFiniteSet(graph.offsets[e])
         /\ \A v \in graph.vertices : graph.answer[v] = NoAnswer \/ graph.answer[v] \in [min : Int, max : Int]
<1>1. graph \in Graphs
  BY DEF Types
<1>2. /\ IsGraph(graph) /\ IsFiniteSet(graph.vertices) /\ IsFiniteSet(graph.edges)
      /\ graph.vertices \subseteq Int /\ Output \in graph.vertices
      /\ \A e \in graph.edges : e.out < Output
      /\ \A e \in graph.edges : IsFiniteSet(graph.offsets[e])
  BY <1>1, TimeAssumption
<1>3. \A e \in graph.edges : e.in \in graph.vertices /\ e.out \in graph.vertices
  BY <1>2 DEF IsGraph
<1>4. \A e \in graph.edges : e.out # Output
  BY <1>2, <1>3
<1>5. \A e \in graph.edges : e.out # e.in
  BY <1>2, <1>3, Ranked
<1>6. graph.offsets \in [graph.edges -> SUBSET Int]
  BY <1>1, TimeAssumption
<1>7. graph.answer \in [graph.vertices -> [min : Int, max : Int] \cup {NoAnswer}]
  BY <1>1, TimeAssumption
<1> QED
  BY <1>2, <1>3, <1>4, <1>5, <1>6, <1>7

(* What the assumption says of the request. *)
LEMMA RequestFacts ==
  ASSUME Types
  PROVE  /\ IntMin \in Int /\ IntMax \in Int /\ IntMin < 0 /\ 0 < IntMax
         /\ request.begin \in Int /\ request.end \in Int
         /\ request.ranges \subseteq [min : Int, max : Int]
         /\ IntMin <= request.begin /\ request.end <= IntMax
BY TimeAssumption DEF Types

(* The hull of the domains of the inputs is one of integers. *)
LEMMA ComputedDomainType ==
  ASSUME Types, NEW v \in graph.vertices
  PROVE  ComputeTimeDomain(v) \in [min : Int, max : Int]
<1> DEFINE inputs == {domain[e.out] : e \in Links(v)}
           mins == {d.min : d \in inputs}
           maxs == {d.max : d \in inputs}
<1>1. inputs \subseteq [min : Int, max : Int]
  BY GraphFacts DEF Types, Links, Needs
<1>2. IsFiniteSet(inputs)
  <2>1. IsFiniteSet({domain[u] : u \in graph.vertices})
    BY GraphFacts, FiniteImage
  <2>2. inputs \in SUBSET {domain[u] : u \in graph.vertices}
    BY GraphFacts DEF Links, Needs
  <2> HIDE DEF inputs
  <2> QED
    BY <2>1, <2>2, FS_Subset
<1>3. Infinite \in [min : Int, max : Int]
  BY RequestFacts DEF Infinite
<1>4. inputs # {} => DefaultTimeDomain(v) \in [min : Int, max : Int]
  <2> SUFFICES ASSUME inputs # {}
               PROVE  DefaultTimeDomain(v) \in [min : Int, max : Int]
    OBVIOUS
  <2>1. mins \in SUBSET Int /\ maxs \in SUBSET Int /\ mins # {} /\ maxs # {}
    <3> HIDE DEF inputs
    <3> QED
      BY <1>1
  <2>2. IsFiniteSet(mins) /\ IsFiniteSet(maxs)
    <3> DEFINE low == [d \in inputs |-> d.min]
               high == [d \in inputs |-> d.max]
    <3> HIDE DEF inputs
    <3>1. IsFiniteSet({low[d] : d \in inputs}) /\ IsFiniteSet({high[d] : d \in inputs})
      BY <1>2, FiniteImage
    <3>2. mins = {low[d] : d \in inputs} /\ maxs = {high[d] : d \in inputs}
      OBVIOUS
    <3> QED
      BY <3>1, <3>2
  <2>3. Min(mins) \in Int /\ Max(maxs) \in Int
    <3> HIDE DEF mins, maxs
    <3> QED
      BY <2>1, <2>2, MinOfFinite, MaxOfFinite
  <2>4. DefaultTimeDomain(v) = [min |-> Min(mins), max |-> Max(maxs)]
    BY DEF DefaultTimeDomain
  <2> HIDE DEF mins, maxs
  <2> QED
    BY <2>3, <2>4
<1>5. inputs = {} => DefaultTimeDomain(v) = Infinite
  BY DEF DefaultTimeDomain
<1>6. graph.answer[v] = NoAnswer \/ graph.answer[v] \in [min : Int, max : Int]
  BY GraphFacts
<1> HIDE DEF inputs
<1> QED
  BY <1>3, <1>4, <1>5, <1>6 DEF ComputeTimeDomain

-----------------------------------------------------------------------------
(* The two visits.                                                         *)

LEMMA InitVisits ==
  ASSUME Init
  PROVE  VisitInv
<1>1. /\ IsGraph(graph) /\ Output \in graph.vertices
      /\ \A e \in graph.edges : e.in \in graph.vertices
  BY TimeAssumption DEF Init, IsGraph
<1>2. stack \in Seq(graph.vertices) /\ Len(stack) = 1 /\ stack[1] = Output
  <2>1. stack = <<Output>>
    BY DEF Init
  <2>2. Len(<<Output>>) = 1 /\ <<Output>>[1] = Output
    OBVIOUS
  <2>3. <<Output>> \in [1 .. 1 -> graph.vertices]
    BY <1>1
  <2>4. <<Output>> \in Seq(graph.vertices)
    BY <2>3, 1 \in Nat, SeqDef
  <2> QED
    BY <2>1, <2>2, <2>4
<1>3. /\ color \in [graph.vertices -> Colors]
      /\ \A v \in graph.vertices : color[v] = IF v = Output THEN "gray" ELSE "white"
  BY DEF Init, Colors
<1>4. 1 .. Len(stack) = {1}
  BY <1>2
<1>5. \A e \in graph.edges : color[e.in] # "black"
  BY <1>1, <1>3
<1> QED
  BY <1>1, <1>2, <1>3, <1>4, <1>5 DEF VisitInv

(* The graph is the same for the whole compute. *)
LEMMA SameGraph ==
  ASSUME Next
  PROVE  UNCHANGED <<graph, request>>
BY DEF Next, DiscoverForDomain, FinishForDomain, DiscoverForDeploy, FinishForDeploy,
       ComputeTimeRange, StartFrame, PluginThrows, BuildGraph, EndFrame

LEMMA StepVisits ==
  ASSUME Types, VisitInv, [Next]_vars
  PROVE  VisitInv'
<1>1. IsGraph(graph) /\ IsFiniteSet(graph.vertices) /\ Output \in graph.vertices
  BY GraphFacts
<1>2. CASE UNCHANGED <<graph, stack, color>>
  BY <1>2 DEF VisitInv
<1>3. ASSUME NEW w \in graph.vertices, DiscoverForDomain(w) \/ DiscoverForDeploy(w)
      PROVE  VisitInv'
  <2>1. Discover(w) /\ UNCHANGED graph
    BY <1>3 DEF DiscoverForDomain, DiscoverForDeploy
  <2> QED
    BY <1>1, <2>1, DiscoverVisits
<1>4. ASSUME NEW v \in graph.vertices, FinishForDomain(v) \/ FinishForDeploy(v)
      PROVE  VisitInv'
  <2>1. Finish(v) /\ UNCHANGED graph
    BY <1>4 DEF FinishForDomain, FinishForDeploy
  <2> QED
    BY <1>1, <2>1, FinishVisits
<1>5. ASSUME NEW t, StartFrame(t)
      PROVE  VisitInv'
  <2>1. Start(Output) /\ UNCHANGED graph
    BY <1>5 DEF StartFrame
  <2> QED
    BY <1>1, <2>1, StartVisits
<1>6. CASE ComputeTimeRange \/ PluginThrows \/ BuildGraph \/ EndFrame \/ UNCHANGED vars
  <2>1. UNCHANGED <<graph, stack, color>>
    BY <1>6 DEF ComputeTimeRange, PluginThrows, BuildGraph, EndFrame, vars, visitVars
  <2> QED
    BY <2>1, <1>2
<1> QED
  BY <1>3, <1>4, <1>5, <1>6 DEF Next

-----------------------------------------------------------------------------
(* The graph at time has vertices, and a first one.                        *)

LEMMA DeployedType ==
  ASSUME Types
  PROVE  Deployed \in SUBSET (Int \X Int) /\ Deployed \in SUBSET (graph.vertices \X Int)
<1>1. \A v \in graph.vertices : v \in Int /\ times[v] \in SUBSET Int
  BY GraphFacts DEF Types
<1> QED
  BY <1>1 DEF Deployed

LEMMA DeployedIsFinite ==
  ASSUME Types, FinitelyMany
  PROVE  IsFiniteSet(Deployed)
<1> DEFINE parts == [v \in graph.vertices |-> {v} \X times[v]]
<1>1. IsFiniteSet({parts[v] : v \in graph.vertices})
  <2>1. IsFiniteSet(graph.vertices)
    BY GraphFacts
  <2> HIDE DEF parts
  <2> QED
    BY <2>1, FiniteImage
<1>2. ASSUME NEW v \in graph.vertices
      PROVE  IsFiniteSet(parts[v])
  <2>1. IsFiniteSet({v}) /\ IsFiniteSet(times[v])
    BY FS_Singleton DEF FinitelyMany
  <2>2. IsFiniteSet({v} \X times[v])
    BY <2>1, FS_Product
  <2> QED
    BY <2>2
<1>3. Deployed = UNION {parts[v] : v \in graph.vertices}
  BY DEF Deployed
<1>4. \A T \in {parts[v] : v \in graph.vertices} : IsFiniteSet(T)
  BY <1>2
<1> HIDE DEF parts
<1> QED
  BY <1>1, <1>3, <1>4, FS_UNION

LEMMA FirstIsDeployed ==
  ASSUME Types, FinitelyMany, Deployed # {}
  PROVE  First \in Deployed
<1> DEFINE lefts == [p \in Deployed |-> p[1]]
<1>1. /\ IsFiniteSet(Deployed) /\ Deployed \in SUBSET (Int \X Int)
  BY DeployedIsFinite, DeployedType
<1>2. lefts \in [Deployed -> Int] /\ \A p \in Deployed : lefts[p] = p[1]
  BY <1>1
<1> HIDE DEF lefts
<1>3. PICK a \in Deployed : \A q \in Deployed : lefts[a] <= lefts[q]
  BY <1>1, <1>2, LeastOfFinite
<1> DEFINE firsts == {p \in Deployed : p[1] = a[1]}
           rights == [p \in firsts |-> p[2]]
<1>4. firsts \in SUBSET Deployed /\ firsts # {}
  OBVIOUS
<1>5. rights \in [firsts -> Int] /\ \A p \in firsts : rights[p] = p[2]
  BY <1>1
<1>6. IsFiniteSet(firsts)
  <2> HIDE DEF firsts
  <2> QED
    BY <1>1, <1>4, FS_Subset
<1>7. PICK b \in firsts : \A q \in firsts : rights[b] <= rights[q]
  <2> HIDE DEF firsts, rights
  <2> QED
    BY <1>4, <1>5, <1>6, LeastOfFinite
<1>8. \A q \in Deployed : b[1] < q[1] \/ (b[1] = q[1] /\ b[2] <= q[2])
  <2> SUFFICES ASSUME NEW q \in Deployed
               PROVE  b[1] < q[1] \/ (b[1] = q[1] /\ b[2] <= q[2])
    OBVIOUS
  <2>1. a[1] <= q[1] /\ b[1] = a[1] /\ a[1] \in Int /\ q[1] \in Int
    BY <1>1, <1>2, <1>3
  <2>2. CASE q[1] = a[1]
    BY <2>1, <2>2, <1>5, <1>7
  <2>3. CASE q[1] # a[1]
    BY <2>1, <2>3
  <2> QED
    BY <2>2, <2>3
<1>9. b \in Deployed
  OBVIOUS
<1> HIDE DEF firsts
<1> QED
  BY <1>8, <1>9 DEF First

LEMMA LookupIsDeployed ==
  ASSUME Types, FinitelyMany, Deployed # {}, NEW p
  PROVE  Lookup(p) \in Deployed
BY FirstIsDeployed DEF Lookup

-----------------------------------------------------------------------------
(* The inductive invariant.                                                *)

(* The domains that the visit has computed are not touched afterwards. *)
DomainsInv ==
  /\ pc = "domain" => frames = 0
  /\ pc \in {"deploy", "built"} => frames > 0
  /\ DomainsFollowInputs

RangesInv ==
  pc \in {"ready", "deploy", "built"} =>
    ranges = IF request.ranges # {} THEN request.ranges ELSE {Clamped(domain[v]) : v \in Outputs}

Discovered(v) == color[v] # "white"

(* What an edge needs is what its vertex asks for at the times it has,     *)
(* once that vertex is discovered; until then it has no times.             *)
DeployInv ==
  /\ Discovered(Output) /\ times[Output] = {time}
  /\ \A v \in graph.vertices : ~Discovered(v) => times[v] = {}
  /\ \A v \in graph.vertices : Discovered(v) /\ v # Output => \E e \in UsesOf(v) : Discovered(e.in)
  /\ \A e \in graph.edges : \A p \in needed[e] : p[1] \in times[e.in] /\ p[2] \in AsksFor(e, p[1])
  /\ \A e \in graph.edges : Discovered(e.in) =>
       \A t \in times[e.in] : \A u \in AsksFor(e, t) : <<t, u>> \in needed[e]

(* Between discovered vertices every need is met, when a vertex has one    *)
(* reader or all of them need the time of the frame.                       *)
MetInv ==
  ReadOnce \/ AllPlain =>
    /\ \A e \in graph.edges : Discovered(e.in) /\ Discovered(e.out) =>
         \A p \in needed[e] : p[2] \in times[e.out]
    /\ AllPlain => \A v \in graph.vertices : Discovered(v) => times[v] = {time}

Deploying == pc \in {"deploy", "built"}

IInv ==
  /\ Types /\ FinitelyMany /\ VisitInv
  /\ DomainsInv /\ RangesInv
  /\ Deploying => DeployInv /\ DeployedTimesAreNeeded /\ MetInv
  /\ NeedsDeployed

-----------------------------------------------------------------------------
(* Types are kept.                                                         *)

LEMMA AsksType ==
  ASSUME Types, NEW e \in graph.edges, NEW t \in Int
  PROVE  /\ TimesNeeded(e, t) \in SUBSET Int /\ IsFiniteSet(TimesNeeded(e, t))
         /\ AsksFor(e, t) \in SUBSET Int
<1>1. graph.offsets[e] \in SUBSET Int /\ IsFiniteSet(graph.offsets[e])
  BY GraphFacts
<1>2. TimesNeeded(e, t) \in SUBSET Int
  BY <1>1 DEF TimesNeeded
<1>3. IsFiniteSet(TimesNeeded(e, t))
  <2> DEFINE f == [o \in graph.offsets[e] |-> t + o]
  <2>1. TimesNeeded(e, t) = {f[o] : o \in graph.offsets[e]}
    BY DEF TimesNeeded
  <2> HIDE DEF f
  <2> QED
    BY <1>1, <2>1, FiniteImage
<1> QED
  BY <1>2, <1>3 DEF AsksFor

(* What the discovery of w adds, edge by edge. *)
LEMMA DeclaredFor ==
  ASSUME NEW w, NEW ts, NEW e \in graph.edges, e.in = w
  PROVE  Declare(w, ts)[e] = UNION {{t} \X TimesNeeded(e, t) : t \in ts}
BY DEF Declare

LEMMA DeclaredElsewhere ==
  ASSUME NEW w, NEW ts, NEW e \in graph.edges, e.in # w
  PROVE  Declare(w, ts)[e] = needed[e]
BY DEF Declare

LEMMA DeclaredPair ==
  ASSUME NEW w, NEW ts, NEW e \in graph.edges, e.in = w, NEW p \in Declare(w, ts)[e]
  PROVE  p[1] \in ts /\ p[2] \in TimesNeeded(e, p[1])
<1>1. PICK t \in ts : p \in {t} \X TimesNeeded(e, t)
  BY DeclaredFor
<1> QED
  BY <1>1

LEMMA EachDeclared ==
  ASSUME NEW w, NEW ts, NEW e \in graph.edges, e.in = w,
         NEW t \in ts, NEW u \in TimesNeeded(e, t)
  PROVE  <<t, u>> \in Declare(w, ts)[e]
<1>1. <<t, u>> \in {t} \X TimesNeeded(e, t)
  OBVIOUS
<1> QED
  BY <1>1, DeclaredFor

LEMMA DeclaredType ==
  ASSUME Types, FinitelyMany, NEW w, NEW ts \in SUBSET Int, IsFiniteSet(ts)
  PROVE  /\ Declare(w, ts) \in [graph.edges -> SUBSET (Int \X Int)]
         /\ \A e \in graph.edges : IsFiniteSet(Declare(w, ts)[e])
<1>1. ASSUME NEW e \in graph.edges, e.in = w
      PROVE  /\ Declare(w, ts)[e] \in SUBSET (Int \X Int)
             /\ IsFiniteSet(Declare(w, ts)[e])
  <2> DEFINE parts == [t \in ts |-> {t} \X TimesNeeded(e, t)]
  <2>1. ASSUME NEW t \in ts
        PROVE  parts[t] \in SUBSET (Int \X Int) /\ IsFiniteSet(parts[t])
    <3>1. TimesNeeded(e, t) \in SUBSET Int /\ IsFiniteSet(TimesNeeded(e, t)) /\ t \in Int
      BY AsksType
    <3>2. IsFiniteSet({t} \X TimesNeeded(e, t))
      BY <3>1, FS_Singleton, FS_Product
    <3>3. {t} \X TimesNeeded(e, t) \in SUBSET (Int \X Int)
      <4> DEFINE asked == TimesNeeded(e, t)
      <4>1. t \in Int /\ asked \in SUBSET Int
        BY <3>1
      <4> HIDE DEF asked
      <4>2. {t} \X asked \in SUBSET (Int \X Int)
        BY <4>1
      <4> QED
        BY <4>2 DEF asked
    <3> QED
      BY <3>2, <3>3
  <2>2. Declare(w, ts)[e] = UNION {parts[t] : t \in ts}
    <3>1. Declare(w, ts)[e] = UNION {{t} \X TimesNeeded(e, t) : t \in ts}
      BY <1>1 DEF Declare
    <3>2. {{t} \X TimesNeeded(e, t) : t \in ts} = {parts[t] : t \in ts}
      OBVIOUS
    <3> QED
      BY <3>1, <3>2
  <2> HIDE DEF parts
  <2>3. IsFiniteSet({parts[t] : t \in ts})
    BY FiniteImage
  <2>4. IsFiniteSet(UNION {parts[t] : t \in ts})
    BY <2>1, <2>3, FS_UNION
  <2>5. UNION {parts[t] : t \in ts} \in SUBSET (Int \X Int)
    BY <2>1
  <2> QED
    BY <2>2, <2>4, <2>5
<1>2. ASSUME NEW e \in graph.edges, e.in # w
      PROVE  /\ Declare(w, ts)[e] \in SUBSET (Int \X Int)
             /\ IsFiniteSet(Declare(w, ts)[e])
  <2>1. Declare(w, ts)[e] = needed[e]
    BY <1>2, DeclaredElsewhere
  <2> QED
    BY <2>1 DEF Types, FinitelyMany
<1>3. Declare(w, ts) = [e \in graph.edges |-> Declare(w, ts)[e]]
  BY DEF Declare
<1> QED
  BY <1>1, <1>2, <1>3

LEMMA TimesDeclaredType ==
  ASSUME Types, FinitelyMany, NEW w
  PROVE  TimesDeclared(w) \in SUBSET Int /\ IsFiniteSet(TimesDeclared(w))
<1> DEFINE all == UNION {needed[e] : e \in UsesOf(w)}
           right == [p \in all |-> p[2]]
<1>1. UsesOf(w) \in SUBSET graph.edges
  BY DEF UsesOf
<1>2. all \in SUBSET (Int \X Int)
  BY <1>1 DEF Types
<1>3. IsFiniteSet(all)
  <2>1. IsFiniteSet(UsesOf(w))
    BY <1>1, GraphFacts, FS_Subset
  <2>2. IsFiniteSet({needed[e] : e \in UsesOf(w)})
    BY <2>1, FiniteImage
  <2>3. \A T \in {needed[e] : e \in UsesOf(w)} : IsFiniteSet(T)
    BY <1>1 DEF FinitelyMany
  <2> QED
    BY <2>2, <2>3, FS_UNION
<1>4. TimesDeclared(w) = {right[p] : p \in all}
  BY DEF TimesDeclared
<1>5. TimesDeclared(w) \in SUBSET Int
  BY <1>2 DEF TimesDeclared
<1> HIDE DEF all, right
<1> QED
  BY <1>3, <1>4, <1>5, FiniteImage

LEMMA StepTypes ==
  ASSUME IInv, [Next]_vars
  PROVE  Types' /\ FinitelyMany'
<1>1. Types /\ FinitelyMany
  BY DEF IInv
<1>2. CASE UNCHANGED vars
  BY <1>1, <1>2 DEF vars, domainVars, deployVars, atTimeVars, Types, FinitelyMany
<1>3. ASSUME NEW w \in graph.vertices, DiscoverForDomain(w)
      PROVE  Types' /\ FinitelyMany'
  BY <1>1, <1>3 DEF DiscoverForDomain, domainVars, deployVars, atTimeVars, Types, FinitelyMany
<1>4. ASSUME NEW v \in graph.vertices, FinishForDomain(v)
      PROVE  Types' /\ FinitelyMany'
  <2>1. ComputeTimeDomain(v) \in [min : Int, max : Int]
    BY <1>1, ComputedDomainType
  <2>2. domain' \in [graph.vertices -> [min : Int, max : Int]]
    BY <1>1, <1>4, <2>1 DEF FinishForDomain, Types
  <2> QED
    BY <1>1, <1>4, <2>2 DEF FinishForDomain, deployVars, atTimeVars, Types, FinitelyMany
<1>5. CASE ComputeTimeRange
  <2>1. \A v \in Outputs : domain[v] \in [min : Int, max : Int]
    BY <1>1, GraphFacts DEF Outputs, Needs, Types
  <2>2. \A d \in [min : Int, max : Int] : Clamped(d) \in [min : Int, max : Int]
    BY <1>1, RequestFacts DEF Clamped
  <2>3. ranges' \subseteq [min : Int, max : Int]
    BY <1>1, <1>5, <2>1, <2>2, RequestFacts DEF ComputeTimeRange
  <2> QED
    BY <1>1, <1>5, <2>3 DEF ComputeTimeRange, deployVars, atTimeVars, Types, FinitelyMany
<1>6. ASSUME NEW r \in ranges, NEW t \in r.min .. r.max, StartFrame(t)
      PROVE  Types' /\ FinitelyMany'
  <2>1. r \in [min : Int, max : Int]
    BY <1>1 DEF Types
  <2>2. t \in Int
    BY <2>1
  <2>3. times' \in [graph.vertices -> SUBSET Int] /\ \A v \in graph.vertices : IsFiniteSet(times'[v])
    BY <1>6, <2>2, FS_Singleton, FS_EmptySet DEF StartFrame
  <2>4. needed' \in [graph.edges -> SUBSET (Int \X Int)] /\ \A e \in graph.edges : IsFiniteSet(needed'[e])
    <3>1. {<<t, t>>} \in SUBSET (Int \X Int) /\ {} \in SUBSET (Int \X Int)
      BY <2>2
    <3>2. needed' = [e \in graph.edges |-> IF e.in = Output THEN {<<t, t>>} ELSE {}]
      BY <1>6 DEF StartFrame
    <3>3. IsFiniteSet({<<t, t>>}) /\ IsFiniteSet({})
      BY FS_Singleton, FS_EmptySet
    <3> QED
      BY <3>1, <3>2, <3>3
  <2>5. frames' \in 0 .. MaxFrames
    BY <1>1, <1>6, TimeAssumption DEF StartFrame, Types
  <2> QED
    BY <1>1, <1>6, <2>2, <2>3, <2>4, <2>5 DEF StartFrame, domainVars, atTimeVars, Types, FinitelyMany
<1>7. ASSUME NEW w \in graph.vertices, DiscoverForDeploy(w)
      PROVE  Types' /\ FinitelyMany'
  <2>1. TimesDeclared(w) \in SUBSET Int /\ IsFiniteSet(TimesDeclared(w))
    BY <1>1, TimesDeclaredType
  <2>2. times' \in [graph.vertices -> SUBSET Int] /\ \A v \in graph.vertices : IsFiniteSet(times'[v])
    BY <1>1, <1>7, <2>1 DEF DiscoverForDeploy, Types, FinitelyMany
  <2>3. needed' \in [graph.edges -> SUBSET (Int \X Int)] /\ \A e \in graph.edges : IsFiniteSet(needed'[e])
    BY <1>1, <1>7, <2>1, DeclaredType DEF DiscoverForDeploy
  <2> QED
    BY <1>1, <1>7, <2>2, <2>3 DEF DiscoverForDeploy, domainVars, atTimeVars, Types, FinitelyMany
<1>8. ASSUME NEW v \in graph.vertices, FinishForDeploy(v)
      PROVE  Types' /\ FinitelyMany'
  BY <1>1, <1>8 DEF FinishForDeploy, domainVars, deployVars, atTimeVars, Types, FinitelyMany
<1>9. CASE PluginThrows
  BY <1>1, <1>9 DEF PluginThrows, domainVars, deployVars, atTimeVars, Types, FinitelyMany
<1>10. CASE BuildGraph
  <2>1. Deployed # {}
    <3>1. pc = "deploy"
      BY <1>10 DEF BuildGraph
    <3>2. times[Output] = {time} /\ Output \in graph.vertices
      BY <1>1, <3>1, GraphFacts DEF IInv, Deploying, DeployInv
    <3>3. <<Output, time>> \in {Output} \X times[Output]
      BY <3>2
    <3> QED
      BY <3>2, <3>3 DEF Deployed
  <2>2. \A a \in EdgesAtTime : {a.in, a.out} \subseteq Deployed /\ a.time \in Int
    <3> SUFFICES ASSUME NEW d \in Demands
                 PROVE  LET a == EdgeAtTime(d) IN {a.in, a.out} \subseteq Deployed /\ a.time \in Int
      BY DEF EdgesAtTime
    <3>1. PICK e \in graph.edges : d \in {e} \X needed[e]
      BY DEF Demands
    <3>2. d[2] \in Int \X Int
      BY <1>1, <3>1 DEF Types
    <3>3. EdgeAtTime(d).in \in Deployed /\ EdgeAtTime(d).out \in Deployed
      BY <1>1, <2>1, LookupIsDeployed DEF EdgeAtTime
    <3>4. EdgeAtTime(d).time = d[2][2]
      BY DEF EdgeAtTime
    <3> QED
      BY <3>2, <3>3, <3>4
  <2>3. Deployed \subseteq graph.vertices \X Int
    BY <1>1, DeployedType
  <2>4. /\ atVertices' \subseteq graph.vertices \X Int
        /\ \A a \in atEdges' : {a.in, a.out} \subseteq atVertices' /\ a.time \in Int
    <3>1. CASE atVertices' = Deployed /\ atEdges' = EdgesAtTime
      BY <2>2, <2>3, <3>1
    <3>2. CASE UNCHANGED atTimeVars
      BY <1>1, <3>2 DEF atTimeVars, Types
    <3> QED
      BY <1>10, <3>1, <3>2 DEF BuildGraph
  <2>5. pc' \in {"built", "ready"} /\ UNCHANGED <<graph, request, domainVars, deployVars, frames>>
    BY <1>10 DEF BuildGraph
  <2> QED
    BY <1>1, <2>4, <2>5 DEF domainVars, deployVars, Types, FinitelyMany
<1>11. CASE EndFrame
  BY <1>1, <1>11 DEF EndFrame, domainVars, deployVars, Types, FinitelyMany
<1> QED
  BY <1>2, <1>3, <1>4, <1>5, <1>6, <1>7, <1>8, <1>9, <1>10, <1>11 DEF Next

-----------------------------------------------------------------------------
(* The time domains and the ranges to render.                              *)

(* What is computed for v depends on the domains of its inputs only. *)
LEMMA SameComputed ==
  ASSUME UNCHANGED graph, NEW v, \A e \in Needs(v) : domain'[e.out] = domain[e.out]
  PROVE  ComputeTimeDomain(v)' = ComputeTimeDomain(v)
<1>1. Links(v)' = Links(v) /\ Links(v) \subseteq Needs(v)
  BY DEF Links, Needs
<1>2. {domain'[e.out] : e \in Links(v)'} = {domain[e.out] : e \in Links(v)}
  BY <1>1
<1>3. DefaultTimeDomain(v)' = DefaultTimeDomain(v)
  BY <1>2 DEF DefaultTimeDomain
<1> QED
  BY <1>3 DEF ComputeTimeDomain

(* What has no domain yet computed, or the same visit and domains. *)
LEMMA KeptDomains ==
  ASSUME DomainsInv, UNCHANGED <<graph, domain, frames>>, pc \in {"domain", "ready"},
         \A v \in graph.vertices : color'[v] = "black" => color[v] = "black"
  PROVE  DomainsFollowInputs'
<1>1. \A v : ComputeTimeDomain(v)' = ComputeTimeDomain(v)
  BY SameComputed
<1> QED
  BY <1>1 DEF DomainsInv, DomainsFollowInputs

LEMMA StepDomains ==
  ASSUME IInv, [Next]_vars
  PROVE  DomainsInv'
<1>1. Types /\ VisitInv /\ DomainsInv
  BY DEF IInv
<1>2. frames \in Nat
  BY <1>1, TimeAssumption DEF Types
<1>3. CASE UNCHANGED vars
  <2>1. UNCHANGED <<graph, pc, domain, frames, color>>
    BY <1>3 DEF vars, visitVars, domainVars
  <2>2. CASE pc \in {"domain", "ready"}
    BY <1>1, <2>1, <2>2, KeptDomains DEF DomainsInv
  <2>3. CASE pc \notin {"domain", "ready"}
    BY <1>1, <2>1, <2>3 DEF DomainsInv, DomainsFollowInputs
  <2> QED
    BY <2>2, <2>3
<1>4. ASSUME NEW w \in graph.vertices, DiscoverForDomain(w)
      PROVE  DomainsInv'
  <2>1. pc = "domain" /\ UNCHANGED <<graph, pc, domain, frames>>
    BY <1>4 DEF DiscoverForDomain, domainVars
  <2>2. \A v \in graph.vertices : color'[v] = "black" => color[v] = "black"
    BY <1>1, <1>4 DEF DiscoverForDomain, Discover, VisitInv
  <2> QED
    BY <1>1, <2>1, <2>2, KeptDomains DEF DomainsInv
<1>5. ASSUME NEW v \in graph.vertices, FinishForDomain(v)
      PROVE  DomainsInv'
  <2>1. pc = "domain" /\ UNCHANGED <<graph, pc, frames>> /\ Finish(v)
    BY <1>5 DEF FinishForDomain
  <2>2. frames = 0
    BY <1>1, <2>1 DEF DomainsInv
  <2>3. /\ \A x \in graph.vertices : color'[x] = IF x = v THEN "black" ELSE color[x]
        /\ color[v] = "gray"
    <3>1. v = Top /\ Visiting
      BY <2>1 DEF Finish
    <3>2. color[v] = "gray"
      BY <1>1, <3>1, TopIsGray
    <3> QED
      BY <1>1, <2>1, <3>2 DEF Finish, VisitInv
  <2>4. \A x \in graph.vertices :
          domain'[x] = IF x = v /\ v # Output THEN ComputeTimeDomain(v) ELSE domain[x]
    BY <1>1, <1>5 DEF FinishForDomain, Types
  <2>5. ASSUME NEW x \in graph.vertices \ {Output}, color'[x] = "black"
        PROVE  domain'[x] = ComputeTimeDomain(x)'
    <3>1. \A e \in Needs(x) : e.out # v /\ e.out \in graph.vertices
      <4> SUFFICES ASSUME NEW e \in Needs(x)
                   PROVE  e.out # v /\ e.out \in graph.vertices
        OBVIOUS
      <4>1. e \in graph.edges /\ e.in = x /\ e.out # e.in /\ e.out \in graph.vertices
        BY <1>1, GraphFacts DEF Needs
      <4>2. x # v => color[e.out] = "black"
        BY <1>1, <2>3, <2>5, <4>1 DEF VisitInv
      <4> QED
        BY <2>3, <4>1, <4>2
    <3>2. ComputeTimeDomain(x)' = ComputeTimeDomain(x)
      BY <2>1, <2>4, <3>1, SameComputed
    <3>3. x # v => domain[x] = ComputeTimeDomain(x)
      BY <1>1, <2>1, <2>2, <2>3, <2>5 DEF DomainsInv, DomainsFollowInputs
    <3> QED
      BY <2>4, <2>5, <3>2, <3>3
  <2> QED
    BY <2>1, <2>2, <2>5 DEF DomainsInv, DomainsFollowInputs
<1>6. CASE ComputeTimeRange
  <2>1. pc = "domain" /\ pc' = "ready" /\ UNCHANGED <<graph, domain, frames, color>>
    BY <1>6 DEF ComputeTimeRange, visitVars
  <2> QED
    BY <1>1, <2>1, KeptDomains DEF DomainsInv
<1>7. ASSUME NEW t, StartFrame(t)
      PROVE  DomainsInv'
  BY <1>2, <1>7 DEF StartFrame, DomainsInv, DomainsFollowInputs
<1>8. ASSUME NEW v \in graph.vertices, DiscoverForDeploy(v) \/ FinishForDeploy(v)
      PROVE  DomainsInv'
  BY <1>1, <1>8 DEF DiscoverForDeploy, FinishForDeploy, DomainsInv, DomainsFollowInputs
<1>9. CASE PluginThrows
  BY <1>1, <1>9 DEF PluginThrows, DomainsInv, DomainsFollowInputs
<1>10. CASE BuildGraph
  <2>1. pc = "deploy" /\ pc' \in {"built", "ready"} /\ UNCHANGED frames
    BY <1>10 DEF BuildGraph
  <2> QED
    BY <1>1, <2>1 DEF DomainsInv, DomainsFollowInputs
<1>11. CASE EndFrame
  BY <1>1, <1>11 DEF EndFrame, DomainsInv, DomainsFollowInputs
<1> QED
  BY <1>3, <1>4, <1>5, <1>6, <1>7, <1>8, <1>9, <1>10, <1>11 DEF Next

LEMMA StepRanges ==
  ASSUME IInv, [Next]_vars
  PROVE  RangesInv'
<1>1. UNCHANGED <<graph, request>>
  BY SameGraph DEF vars
<1>2. Outputs' = Outputs
  BY <1>1 DEF Outputs, Needs
<1>3. \A d : Clamped(d)' = Clamped(d)
  BY <1>1 DEF Clamped
<1>4. ASSUME UNCHANGED <<domain, ranges>>, pc' \in {"ready", "deploy", "built"} =>
                                             pc \in {"ready", "deploy", "built"}
      PROVE  RangesInv'
  <2>1. {Clamped(domain[v]) : v \in Outputs}' = {Clamped(domain[v]) : v \in Outputs}
    BY <1>1, <1>2, <1>4 DEF Clamped
  <2> QED
    BY <1>1, <1>4, <2>1 DEF IInv, RangesInv
<1>5. CASE UNCHANGED vars
  BY <1>4, <1>5 DEF vars, domainVars
<1>6. ASSUME NEW v \in graph.vertices, DiscoverForDomain(v) \/ FinishForDomain(v)
      PROVE  RangesInv'
  BY <1>6 DEF DiscoverForDomain, FinishForDomain, RangesInv
<1>7. CASE ComputeTimeRange
  <2>1. UNCHANGED <<request, domain>>
    BY <1>7 DEF ComputeTimeRange
  <2>2. {Clamped(domain[v]) : v \in Outputs}' = {Clamped(domain[v]) : v \in Outputs}
    BY <1>1, <1>2, <2>1 DEF Clamped
  <2> QED
    BY <1>1, <1>7, <2>2 DEF ComputeTimeRange, RangesInv
<1>8. ASSUME NEW t, StartFrame(t)
      PROVE  RangesInv'
  BY <1>4, <1>8 DEF StartFrame, domainVars
<1>9. ASSUME NEW v \in graph.vertices, DiscoverForDeploy(v) \/ FinishForDeploy(v)
      PROVE  RangesInv'
  BY <1>4, <1>9 DEF DiscoverForDeploy, FinishForDeploy, domainVars
<1>10. CASE PluginThrows
  <2>1. UNCHANGED <<domain, ranges>> /\ pc \in {"domain", "deploy"}
        /\ pc' = IF pc = "domain" THEN "failed" ELSE "ready"
    BY <1>10 DEF PluginThrows, domainVars
  <2> QED
    BY <1>4, <2>1
<1>11. CASE BuildGraph
  BY <1>4, <1>11 DEF BuildGraph, domainVars
<1>12. CASE EndFrame
  BY <1>4, <1>12 DEF EndFrame, domainVars
<1> QED
  BY <1>5, <1>6, <1>7, <1>8, <1>9, <1>10, <1>11, <1>12 DEF Next

(* Clamping a domain asks for what the request asks of it. *)
LEMMA ClampedIsAsked ==
  ASSUME Types, NEW d \in [min : Int, max : Int]
  PROVE  Clamped(d).min .. Clamped(d).max = Asked(d)
<1> DEFINE b == request.begin
           e == request.end
<1>1. /\ IntMin \in Int /\ IntMax \in Int /\ IntMin < 0 /\ 0 < IntMax
      /\ b \in Int /\ e \in Int /\ IntMin <= b /\ e <= IntMax /\ d.min \in Int /\ d.max \in Int
  BY RequestFacts
<1> DEFINE from == IF b # IntMin /\ d.min < b THEN b ELSE d.min
           to   == IF e # IntMax /\ d.max > e THEN e ELSE d.max
           low  == IF from <= IntMin THEN 0 ELSE from
           high == IF to >= IntMax THEN 0 ELSE to
           low2  == IF d.min <= IntMin /\ b = IntMin THEN 0 ELSE d.min
           high2 == IF d.max >= IntMax /\ e = IntMax THEN 0 ELSE d.max
<1>2. Clamped(d).min = low /\ Clamped(d).max = high
  BY DEF Clamped
<1>3. Asked(d) = (low2 .. high2) \cap (b .. e)
  BY DEF Asked
<1>4. low \in Int /\ high \in Int /\ low2 \in Int /\ high2 \in Int
  BY <1>1
<1>5. \A k \in Int : low <= k <=> low2 <= k /\ b <= k
  BY <1>1
<1>6. \A k \in Int : k <= high <=> k <= high2 /\ k <= e
  BY <1>1
<1>7. b \in Int /\ e \in Int
  BY <1>1
<1> HIDE DEF low, high, low2, high2, b, e
<1>8. low .. high = (low2 .. high2) \cap (b .. e)
  BY <1>4, <1>5, <1>6, <1>7
<1> QED
  BY <1>2, <1>3, <1>8

(* The ranges are those of the request. *)
LEMMA RangesAreRight ==
  ASSUME IInv
  PROVE  RangesObeyRequest
<1> SUFFICES ASSUME pc = "ready", request.ranges = {}
             PROVE  UNION {r.min .. r.max : r \in ranges} = UNION {Asked(domain[v]) : v \in Outputs}
  BY DEF RangesObeyRequest
<1>1. ranges = {Clamped(domain[v]) : v \in Outputs}
  BY DEF IInv, RangesInv
<1>2. \A v \in Outputs : Clamped(domain[v]).min .. Clamped(domain[v]).max = Asked(domain[v])
  <2>1. \A v \in Outputs : domain[v] \in [min : Int, max : Int]
    BY GraphFacts DEF IInv, Types, Outputs, Needs
  <2> QED
    BY <2>1, ClampedIsAsked DEF IInv
<1>3. {r.min .. r.max : r \in ranges} = {Asked(domain[v]) : v \in Outputs}
  BY <1>1, <1>2
<1> QED
  BY <1>3

-----------------------------------------------------------------------------
(* The times of a frame.                                                   *)

LEMMA AsksSame ==
  ASSUME UNCHANGED graph
  PROVE  \A e, t : AsksFor(e, t)' = AsksFor(e, t)
BY DEF AsksFor, TimesNeeded

(* A frame starts with the output vertex, needed at its time. *)
LEMMA StartDeploys ==
  ASSUME Types, NEW t \in Int, StartFrame(t)
  PROVE  DeployInv' /\ DeployedTimesAreNeeded' /\ MetInv'
<1>1. /\ Output \in graph.vertices
      /\ \A e \in graph.edges : e.in \in graph.vertices /\ e.out \in graph.vertices /\ e.out # Output
  BY GraphFacts
<1>2. /\ graph' = graph /\ time' = t
      /\ \A v \in graph.vertices : times'[v] = IF v = Output THEN {t} ELSE {}
      /\ \A e \in graph.edges : needed'[e] = IF e.in = Output THEN {<<t, t>>} ELSE {}
      /\ \A v \in graph.vertices : color'[v] = IF v = Output THEN "gray" ELSE "white"
  BY DEF StartFrame, Start
<1>3. \A v \in graph.vertices : Discovered(v)' <=> v = Output
  BY <1>2 DEF Discovered
<1>4. \A e \in graph.edges : \A s : e.in = Output => AsksFor(e, s)' = {s}
  BY DEF AsksFor
<1>5. DeployInv'
  <2>1. Discovered(Output)' /\ times'[Output] = {time'}
    BY <1>1, <1>2, <1>3
  <2>2. \A v \in graph'.vertices : ~Discovered(v)' => times'[v] = {}
    BY <1>2, <1>3
  <2>3. \A v \in graph'.vertices : Discovered(v)' /\ v # Output => \E e \in UsesOf(v)' : Discovered(e.in)'
    BY <1>2, <1>3
  <2>4. \A e \in graph'.edges : \A p \in needed'[e] : p[1] \in times'[e.in] /\ p[2] \in AsksFor(e, p[1])'
    BY <1>1, <1>2, <1>4
  <2>5. \A e \in graph'.edges : Discovered(e.in)' =>
          \A s \in times'[e.in] : \A u \in AsksFor(e, s)' : <<s, u>> \in needed'[e]
    BY <1>1, <1>2, <1>3, <1>4
  <2> QED
    BY <2>1, <2>2, <2>3, <2>4, <2>5 DEF DeployInv
<1>6. DeployedTimesAreNeeded'
  BY <1>2 DEF DeployedTimesAreNeeded
<1>7. MetInv'
  BY <1>1, <1>2, <1>3 DEF MetInv
<1> QED
  BY <1>5, <1>6, <1>7

(* What the discovery of w changes: its times and the needs of its inputs. *)
LEMMA WhatIsDiscovered ==
  ASSUME Types, VisitInv, DeployInv, NEW w \in graph.vertices, DiscoverForDeploy(w)
  PROVE  /\ graph' = graph /\ time' = time /\ pc = "deploy"
         /\ w # Output /\ ~Discovered(w)
         /\ \E e \in UsesOf(w) : Discovered(e.in)
         /\ \A v \in graph.vertices : Discovered(v)' <=> v = w \/ Discovered(v)
         /\ \A v \in graph.vertices : times'[v] = IF v = w THEN TimesDeclared(w) ELSE times[v]
         /\ \A e \in graph.edges : needed'[e] = Declare(w, TimesDeclared(w))[e]
<1>1. Discover(w) /\ pc = "deploy" /\ UNCHANGED <<graph, time>>
  BY DEF DiscoverForDeploy
<1>2. color[w] = "white" /\ color' = [color EXCEPT ![w] = "gray"]
  BY <1>1 DEF Discover
<1>3. ~Discovered(w) /\ w # Output
  BY <1>2 DEF Discovered, DeployInv
<1>4. \A v \in graph.vertices : Discovered(v)' <=> v = w \/ Discovered(v)
  BY <1>2 DEF Discovered, VisitInv
<1>5. \E e \in UsesOf(w) : Discovered(e.in)
  <2>1. PICK e \in Needs(Top) : e.out = w
    BY <1>1 DEF Discover
  <2>2. color[Top] = "gray"
    BY <1>1, TopIsGray DEF Discover
  <2> QED
    BY <2>1, <2>2 DEF Needs, UsesOf, Discovered
<1>6. \A v \in graph.vertices : times'[v] = IF v = w THEN TimesDeclared(w) ELSE times[v]
  BY DEF DiscoverForDeploy, Types
<1>7. \A e \in graph.edges : needed'[e] = Declare(w, TimesDeclared(w))[e]
  BY DEF DiscoverForDeploy
<1> QED
  BY <1>1, <1>3, <1>4, <1>5, <1>6, <1>7

(* Who is read has the times of its readers: a time comes from an edge. *)
LEMMA DeclaredTime ==
  ASSUME NEW w, NEW u
  PROVE  u \in TimesDeclared(w) <=> \E e \in UsesOf(w) : \E p \in needed[e] : u = p[2]
BY DEF TimesDeclared

LEMMA DiscoverDeploys ==
  ASSUME Types, VisitInv, DeployInv, DeployedTimesAreNeeded,
         NEW w \in graph.vertices, DiscoverForDeploy(w)
  PROVE  DeployInv' /\ DeployedTimesAreNeeded'
<1> DEFINE ts == TimesDeclared(w)
<1>1. /\ graph' = graph /\ time' = time /\ pc = "deploy"
      /\ w # Output /\ ~Discovered(w)
      /\ \E e \in UsesOf(w) : Discovered(e.in)
      /\ \A v \in graph.vertices : Discovered(v)' <=> v = w \/ Discovered(v)
      /\ \A v \in graph.vertices : times'[v] = IF v = w THEN ts ELSE times[v]
      /\ \A e \in graph.edges : needed'[e] = Declare(w, ts)[e]
  BY WhatIsDiscovered
<1>2. /\ Output \in graph.vertices
      /\ \A e \in graph.edges : e.in \in graph.vertices /\ e.out \in graph.vertices /\ e.out # e.in
  BY GraphFacts
<1>3. \A e, t : AsksFor(e, t)' = AsksFor(e, t)
  BY <1>1, AsksSame
<1>4. \A v : UsesOf(v)' = UsesOf(v)
  BY <1>1 DEF UsesOf
<1>5. \A e, t : e.in = w => AsksFor(e, t) = TimesNeeded(e, t)
  BY <1>1 DEF AsksFor
<1>6. \A e \in graph.edges : \A p \in needed'[e] : p[1] \in times'[e.in] /\ p[2] \in AsksFor(e, p[1])'
  <2> SUFFICES ASSUME NEW e \in graph.edges, NEW p \in needed'[e]
               PROVE  p[1] \in times'[e.in] /\ p[2] \in AsksFor(e, p[1])
    BY <1>3
  <2>0. needed'[e] = Declare(w, ts)[e] /\ e.in \in graph.vertices
    BY <1>1, <1>2
  <2> HIDE DEF ts
  <2>1. CASE e.in = w
    <3>1. p[1] \in ts /\ p[2] \in TimesNeeded(e, p[1])
      BY <2>0, <2>1, DeclaredPair
    <3> QED
      BY <2>0, <2>1, <3>1, <1>1, <1>5
  <2>2. CASE e.in # w
    <3>1. p \in needed[e]
      BY <2>0, <2>2, DeclaredElsewhere
    <3> QED
      BY <2>0, <2>2, <3>1, <1>1 DEF DeployInv
  <2> QED
    BY <2>1, <2>2
<1>7. \A e \in graph.edges : Discovered(e.in)' =>
        \A t \in times'[e.in] : \A u \in AsksFor(e, t)' : <<t, u>> \in needed'[e]
  <2> SUFFICES ASSUME NEW e \in graph.edges, Discovered(e.in)',
                      NEW t \in times'[e.in], NEW u \in AsksFor(e, t)
               PROVE  <<t, u>> \in needed'[e]
    BY <1>3
  <2>0. needed'[e] = Declare(w, ts)[e] /\ e.in \in graph.vertices
    BY <1>1, <1>2
  <2> HIDE DEF ts
  <2>1. CASE e.in = w
    <3>1. t \in ts /\ u \in TimesNeeded(e, t)
      BY <2>0, <2>1, <1>1, <1>5
    <3> QED
      BY <2>0, <2>1, <3>1, EachDeclared
  <2>2. CASE e.in # w
    <3>1. Discovered(e.in) /\ t \in times[e.in]
      BY <2>0, <2>2, <1>1
    <3>2. <<t, u>> \in needed[e]
      BY <3>1 DEF DeployInv
    <3> QED
      BY <2>0, <2>2, <3>2, DeclaredElsewhere
  <2> QED
    BY <2>1, <2>2
<1>8. \A v \in graph.vertices : ~Discovered(v)' => times'[v] = {}
  BY <1>1 DEF DeployInv
<1>9. \A v \in graph.vertices : Discovered(v)' /\ v # Output => \E e \in UsesOf(v) : Discovered(e.in)'
  <2>1. \A e \in graph.edges : Discovered(e.in) => Discovered(e.in)'
    BY <1>1, <1>2
  <2>2. \A v : UsesOf(v) \subseteq graph.edges
    BY DEF UsesOf
  <2> QED
    BY <1>1, <2>1, <2>2 DEF DeployInv
<1>10. Discovered(Output)' /\ times'[Output] = {time'}
  BY <1>1, <1>2 DEF DeployInv
<1>11. DeployInv'
  BY <1>1, <1>4, <1>6, <1>7, <1>8, <1>9, <1>10 DEF DeployInv
<1>12. DeployedTimesAreNeeded'
  <2> SUFFICES ASSUME NEW v \in graph.vertices, NEW u \in times'[v]
               PROVE  \/ v = Output /\ u = time
                      \/ \E e \in UsesOf(v) : \E t \in times'[e.in] : u \in AsksFor(e, t)
    BY <1>1, <1>3, <1>4 DEF DeployedTimesAreNeeded
  <2>1. CASE v = w
    <3>1. PICK e \in UsesOf(w) : \E p \in needed[e] : u = p[2]
      <4>1. u \in TimesDeclared(w)
        BY <1>1, <2>1
      <4> QED
        BY <4>1, DeclaredTime
    <3>2. PICK p \in needed[e] : u = p[2]
      BY <3>1
    <3>3. e \in graph.edges /\ e.out = w /\ e.in \in graph.vertices /\ e.in # w
      BY <1>2 DEF UsesOf
    <3>4. p[1] \in times[e.in] /\ u \in AsksFor(e, p[1])
      BY <3>2, <3>3 DEF DeployInv
    <3>5. p[1] \in times'[e.in]
      BY <1>1, <3>3, <3>4
    <3> QED
      BY <2>1, <3>1, <3>4, <3>5
  <2>2. CASE v # w
    <3>1. u \in times[v]
      BY <1>1, <2>2
    <3>2. CASE v = Output /\ u = time
      BY <3>2
    <3>3. ASSUME NEW e \in UsesOf(v), NEW t \in times[e.in], u \in AsksFor(e, t)
          PROVE  t \in times'[e.in]
      <4>1. e \in graph.edges /\ e.in \in graph.vertices
        BY <1>2 DEF UsesOf
      <4>2. e.in # w
        BY <1>1, <3>3, <4>1 DEF DeployInv
      <4> QED
        BY <1>1, <4>1, <4>2
    <3>4. \/ v = Output /\ u = time
          \/ \E e \in UsesOf(v) : \E t \in times[e.in] : u \in AsksFor(e, t)
      BY <1>1, <3>1 DEF DeployedTimesAreNeeded
    <3> QED
      BY <3>3, <3>4
  <2> QED
    BY <2>1, <2>2
<1> QED
  BY <1>11, <1>12

(* Every node that needs one time is needed at the time of the frame. *)
LEMMA PlainTimes ==
  ASSUME Types, DeployInv, AllPlain, NEW e \in graph.edges
  PROVE  \A t \in Int : AsksFor(e, t) = {t}
<1>1. graph.offsets[e] = {0}
  BY DEF AllPlain
<1> QED
  BY <1>1 DEF AsksFor, TimesNeeded

LEMMA DiscoverMeets ==
  ASSUME Types, VisitInv, DeployInv, MetInv, NEW w \in graph.vertices, DiscoverForDeploy(w)
  PROVE  MetInv'
<1> DEFINE ts == TimesDeclared(w)
<1>1. /\ graph' = graph /\ time' = time /\ pc = "deploy"
      /\ w # Output /\ ~Discovered(w)
      /\ \E e \in UsesOf(w) : Discovered(e.in)
      /\ \A v \in graph.vertices : Discovered(v)' <=> v = w \/ Discovered(v)
      /\ \A v \in graph.vertices : times'[v] = IF v = w THEN ts ELSE times[v]
      /\ \A e \in graph.edges : needed'[e] = Declare(w, ts)[e]
  BY WhatIsDiscovered
<1>2. /\ Output \in graph.vertices /\ time \in Int
      /\ \A e \in graph.edges : /\ e.in \in graph.vertices /\ e.out \in graph.vertices
                               /\ e.out # e.in /\ e.out # Output
  BY GraphFacts DEF Types
<1>3. (ReadOnce <=> ReadOnce') /\ (AllPlain <=> AllPlain')
  BY <1>1 DEF ReadOnce, AllPlain
<1>4. ASSUME AllPlain, NEW v \in graph.vertices, Discovered(v)
      PROVE  times[v] = {time}
  BY <1>4 DEF MetInv
<1>5. ASSUME AllPlain
      PROVE  ts = {time}
  <2>1. PICK e \in UsesOf(w) : Discovered(e.in)
    BY <1>1
  <2>2. e \in graph.edges /\ e.in \in graph.vertices
    BY <1>2 DEF UsesOf
  <2>3. times[e.in] = {time}
    BY <1>4, <1>5, <2>1, <2>2
  <2>4. AsksFor(e, time) = {time}
    BY <1>2, <1>5, <2>2, PlainTimes
  <2>5. <<time, time>> \in needed[e]
    BY <2>1, <2>2, <2>3, <2>4 DEF DeployInv
  <2>6. time \in ts
    <3>1. time = <<time, time>>[2]
      OBVIOUS
    <3> QED
      BY <2>5, <3>1, DeclaredTime
  <2>7. ASSUME NEW u \in ts
        PROVE  u = time
    <3>1. PICK f \in UsesOf(w) : \E p \in needed[f] : u = p[2]
      BY <2>7, DeclaredTime
    <3>2. PICK p \in needed[f] : u = p[2]
      BY <3>1
    <3>3. f \in graph.edges /\ f.in \in graph.vertices
      BY <1>2 DEF UsesOf
    <3>4. p[1] \in times[f.in] /\ u \in AsksFor(f, p[1])
      BY <3>2, <3>3 DEF DeployInv
    <3>5. Discovered(f.in)
      BY <3>3, <3>4 DEF DeployInv
    <3>6. p[1] = time
      BY <1>4, <1>5, <3>3, <3>4, <3>5
    <3>7. AsksFor(f, time) = {time}
      BY <1>2, <1>5, <3>3, PlainTimes
    <3> QED
      BY <3>4, <3>6, <3>7
  <2> QED
    BY <2>6, <2>7
<1>6. ASSUME AllPlain, NEW v \in graph.vertices, Discovered(v)'
      PROVE  times'[v] = {time'}
  BY <1>1, <1>4, <1>5, <1>6
<1>7. ASSUME ReadOnce \/ AllPlain, NEW e \in graph.edges, Discovered(e.in)', Discovered(e.out)',
             NEW p \in needed'[e]
      PROVE  p[2] \in times'[e.out]
  <2>0. /\ e.in \in graph.vertices /\ e.out \in graph.vertices /\ e.out # e.in /\ e.out # Output
        /\ needed'[e] = Declare(w, ts)[e]
    BY <1>1, <1>2
  <2> HIDE DEF ts
  <2>1. CASE e.in = w
    <3>1. Discovered(e.out)
      BY <1>1, <1>7, <2>0, <2>1
    <3>2. CASE ReadOnce
      <4>1. PICK f \in UsesOf(e.out) : Discovered(f.in)
        BY <2>0, <3>1 DEF DeployInv
      <4>2. f \in graph.edges /\ f.out = e.out
        BY DEF UsesOf
      <4>3. f.in = w
        BY <2>1, <3>2, <4>2 DEF ReadOnce
      <4> QED
        BY <1>1, <4>1, <4>3
    <3>3. CASE AllPlain
      <4>1. p[1] \in ts /\ p[2] \in TimesNeeded(e, p[1])
        BY <1>7, <2>0, <2>1, DeclaredPair
      <4>2. p[1] = time
        BY <1>5, <3>3, <4>1
      <4>3. AsksFor(e, time) = {time} /\ AsksFor(e, time) = TimesNeeded(e, time)
        BY <1>1, <1>2, <2>1, <3>3, PlainTimes DEF AsksFor
      <4>4. p[2] = time
        BY <4>1, <4>2, <4>3
      <4>5. times'[e.out] = {time}
        BY <1>1, <1>6, <1>7, <2>0, <3>3
      <4> QED
        BY <4>4, <4>5
    <3> QED
      BY <1>7, <3>2, <3>3
  <2>2. CASE e.in # w
    <3>1. p \in needed[e] /\ Discovered(e.in)
      BY <1>1, <1>7, <2>0, <2>2, DeclaredElsewhere
    <3>2. CASE e.out = w
      <4>1. e \in UsesOf(w)
        BY <3>2 DEF UsesOf
      <4>2. p[2] \in TimesDeclared(w)
        BY <3>1, <4>1, DeclaredTime
      <4> QED
        BY <1>1, <2>0, <3>2, <4>2 DEF ts
    <3>3. CASE e.out # w
      <4>1. p[2] \in times[e.out]
        BY <1>1, <1>7, <2>0, <3>1, <3>3 DEF MetInv
      <4> QED
        BY <1>1, <2>0, <3>3, <4>1
    <3> QED
      BY <3>2, <3>3
  <2> QED
    BY <2>1, <2>2
<1> QED
  BY <1>1, <1>3, <1>6, <1>7 DEF MetInv

(* What does not touch the times and their needs, nor uncolors a vertex. *)
LEMMA KeptDeploys ==
  ASSUME DeployInv, DeployedTimesAreNeeded, MetInv, Deploying, Types,
         UNCHANGED <<graph, deployVars>>,
         \A v \in graph.vertices : Discovered(v)' <=> Discovered(v)
  PROVE  DeployInv' /\ DeployedTimesAreNeeded' /\ MetInv'
<1>1. /\ Output \in graph.vertices
      /\ \A e \in graph.edges : e.in \in graph.vertices /\ e.out \in graph.vertices
  BY GraphFacts
<1>2. UNCHANGED <<time, times, needed>>
  BY DEF deployVars
<1>3. \A e, t : AsksFor(e, t)' = AsksFor(e, t)
  BY AsksSame
<1>4. \A v : UsesOf(v)' = UsesOf(v) /\ UsesOf(v) \subseteq graph.edges
  BY DEF UsesOf
<1>5. (ReadOnce' <=> ReadOnce) /\ (AllPlain' <=> AllPlain)
  BY DEF ReadOnce, AllPlain
<1>6. DeployInv'
  <2>1. Discovered(Output)' /\ times'[Output] = {time'}
    BY <1>1, <1>2 DEF DeployInv
  <2>2. \A v \in graph.vertices : ~Discovered(v)' => times'[v] = {}
    BY <1>2 DEF DeployInv
  <2>3. \A v \in graph.vertices : Discovered(v)' /\ v # Output => \E e \in UsesOf(v) : Discovered(e.in)'
    BY <1>1, <1>4 DEF DeployInv
  <2>4. \A e \in graph.edges : \A p \in needed'[e] : p[1] \in times'[e.in] /\ p[2] \in AsksFor(e, p[1])'
    BY <1>2, <1>3 DEF DeployInv
  <2>5. \A e \in graph.edges : Discovered(e.in)' =>
          \A s \in times'[e.in] : \A u \in AsksFor(e, s)' : <<s, u>> \in needed'[e]
    BY <1>1, <1>2, <1>3 DEF DeployInv
  <2> QED
    BY <1>4, <2>1, <2>2, <2>3, <2>4, <2>5 DEF DeployInv
<1>7. DeployedTimesAreNeeded'
  BY <1>2, <1>3, <1>4 DEF DeployedTimesAreNeeded, Deploying
<1>8. MetInv'
  BY <1>1, <1>2, <1>5 DEF MetInv
<1> QED
  BY <1>6, <1>7, <1>8

LEMMA StepDeploys ==
  ASSUME IInv, [Next]_vars, Deploying'
  PROVE  DeployInv' /\ DeployedTimesAreNeeded' /\ MetInv'
<1>1. /\ Types /\ VisitInv
      /\ Deploying => DeployInv /\ DeployedTimesAreNeeded /\ MetInv
  BY DEF IInv
<1>2. CASE UNCHANGED vars
  <2>1. Deploying /\ UNCHANGED <<graph, deployVars, color>>
    BY <1>2 DEF vars, Deploying, visitVars
  <2> QED
    BY <1>1, <2>1, KeptDeploys DEF Discovered
<1>3. ASSUME NEW v \in graph.vertices, DiscoverForDomain(v) \/ FinishForDomain(v)
      PROVE  FALSE
  BY <1>3 DEF DiscoverForDomain, FinishForDomain, Deploying
<1>4. CASE ComputeTimeRange \/ PluginThrows \/ EndFrame
  BY <1>4 DEF ComputeTimeRange, PluginThrows, EndFrame, Deploying
<1>5. ASSUME NEW r \in ranges, NEW t \in r.min .. r.max, StartFrame(t)
      PROVE  DeployInv' /\ DeployedTimesAreNeeded' /\ MetInv'
  <2>1. t \in Int
    BY <1>1 DEF Types
  <2> QED
    BY <1>1, <1>5, <2>1, StartDeploys
<1>6. ASSUME NEW w \in graph.vertices, DiscoverForDeploy(w)
      PROVE  DeployInv' /\ DeployedTimesAreNeeded' /\ MetInv'
  <2>1. Deploying
    BY <1>6 DEF DiscoverForDeploy, Deploying
  <2> QED
    BY <1>1, <1>6, <2>1, DiscoverDeploys, DiscoverMeets
<1>7. ASSUME NEW w \in graph.vertices, FinishForDeploy(w)
      PROVE  DeployInv' /\ DeployedTimesAreNeeded' /\ MetInv'
  <2>1. Deploying /\ Finish(w) /\ UNCHANGED <<graph, deployVars>>
    BY <1>7 DEF FinishForDeploy, Deploying
  <2>2. color[w] = "gray"
    BY <1>1, <2>1, TopIsGray DEF Finish
  <2>3. \A v \in graph.vertices : Discovered(v)' <=> Discovered(v)
    BY <1>1, <2>1, <2>2 DEF Discovered, Finish, VisitInv
  <2> QED
    BY <1>1, <2>1, <2>3, KeptDeploys
<1>8. CASE BuildGraph
  <2>1. Deploying /\ UNCHANGED <<graph, deployVars, color>>
    BY <1>8 DEF BuildGraph, Deploying, visitVars
  <2> QED
    BY <1>1, <2>1, KeptDeploys DEF Discovered
<1> QED
  BY <1>2, <1>3, <1>4, <1>5, <1>6, <1>7, <1>8 DEF Next

-----------------------------------------------------------------------------
(* The graph at time.                                                      *)

(* When the visit is over, a discovered vertex reads discovered ones. *)
LEMMA DiscoveredBelow ==
  ASSUME Types, VisitInv, Over, NEW e \in graph.edges, Discovered(e.in)
  PROVE  Discovered(e.out)
<1>1. e.in \in graph.vertices
  BY GraphFacts
<1>2. color[e.in] = "black"
  BY <1>1, OverIsFinished DEF Discovered
<1> QED
  BY <1>2 DEF VisitInv, Discovered

LEMMA BuiltAsNeeded ==
  ASSUME IInv, BuildGraph, ReadOnce \/ AllPlain, pc' = "built"
  PROVE  EveryNeedDeployed'
<1>1. /\ Types /\ VisitInv /\ DeployInv /\ MetInv /\ Over
      /\ graph' = graph /\ atVertices' = Deployed /\ atEdges' = EdgesAtTime
  BY DEF IInv, BuildGraph, Deploying
<1>2. \A v : Needs(v)' = Needs(v)
  BY <1>1 DEF Needs
<1>3. \A e, t : AsksFor(e, t)' = AsksFor(e, t)
  BY <1>1, AsksSame
<1> SUFFICES ASSUME NEW p \in Deployed, NEW e \in Needs(p[1]), NEW u \in AsksFor(e, p[2])
             PROVE  [in |-> p, clip |-> e.clip, out |-> <<e.out, u>>, time |-> u] \in EdgesAtTime
  BY <1>1, <1>2, <1>3 DEF EveryNeedDeployed
<1>4. PICK v \in graph.vertices : p \in {v} \X times[v]
  BY DEF Deployed
<1>5. p[1] = v /\ p[2] \in times[v] /\ p = <<v, p[2]>>
  BY <1>4
<1>6. e \in graph.edges /\ e.in = v /\ e.out \in graph.vertices
  BY <1>1, <1>5, GraphFacts DEF Needs
<1>7. Discovered(v)
  BY <1>1, <1>5 DEF DeployInv
<1>8. <<p[2], u>> \in needed[e]
  BY <1>1, <1>5, <1>6, <1>7 DEF DeployInv
<1>9. Discovered(e.out)
  BY <1>1, <1>6, <1>7, DiscoveredBelow
<1>10. u \in times[e.out]
  <2>1. \A q \in needed[e] : q[2] \in times[e.out]
    BY <1>1, <1>6, <1>7, <1>9 DEF MetInv
  <2> QED
    BY <1>8, <2>1
<1>11. <<e.out, u>> \in Deployed
  <2>1. <<e.out, u>> \in {e.out} \X times[e.out]
    BY <1>10
  <2> QED
    BY <1>6, <2>1 DEF Deployed
<1> DEFINE d == <<e, <<p[2], u>>>>
<1>12. d \in Demands
  <2>1. d \in {e} \X needed[e]
    BY <1>8
  <2> QED
    BY <1>6, <2>1 DEF Demands
<1>13. EdgeAtTime(d) = [in |-> p, clip |-> e.clip, out |-> <<e.out, u>>, time |-> u]
  <2>1. d[1] = e /\ d[2][1] = p[2] /\ d[2][2] = u
    OBVIOUS
  <2>2. <<d[1].in, d[2][1]>> = p /\ <<d[1].out, d[2][2]>> = <<e.out, u>>
    BY <1>5, <1>6, <2>1
  <2>3. Lookup(p) = p /\ Lookup(<<e.out, u>>) = <<e.out, u>>
    BY <1>11 DEF Lookup
  <2> HIDE DEF d
  <2> QED
    BY <2>1, <2>2, <2>3 DEF EdgeAtTime
<1> HIDE DEF d
<1> QED
  BY <1>12, <1>13 DEF EdgesAtTime

LEMMA StepBuilds ==
  ASSUME IInv, [Next]_vars
  PROVE  NeedsDeployed'
<1>1. UNCHANGED graph
  BY SameGraph DEF vars
<1>2. (ReadOnce' <=> ReadOnce) /\ (AllPlain' <=> AllPlain)
  BY <1>1 DEF ReadOnce, AllPlain
<1> SUFFICES ASSUME ReadOnce \/ AllPlain, pc' = "built"
             PROVE  EveryNeedDeployed'
  BY <1>2 DEF NeedsDeployed, EveryNeedDeployed
<1>3. CASE UNCHANGED vars
  <2>1. UNCHANGED <<graph, pc, atVertices, atEdges>>
    BY <1>3 DEF vars, atTimeVars
  <2>2. \A v : Needs(v)' = Needs(v)
    BY <2>1 DEF Needs
  <2>3. \A e, t : AsksFor(e, t)' = AsksFor(e, t)
    BY <2>1, AsksSame
  <2>4. EveryNeedDeployed
    BY DEF IInv, NeedsDeployed
  <2> QED
    BY <2>1, <2>2, <2>3, <2>4 DEF EveryNeedDeployed
<1>4. CASE BuildGraph
  BY <1>4, BuiltAsNeeded
<1>5. ASSUME NEW v \in graph.vertices,
             \/ DiscoverForDomain(v) \/ FinishForDomain(v)
             \/ DiscoverForDeploy(v) \/ FinishForDeploy(v)
      PROVE  FALSE
  BY <1>5 DEF DiscoverForDomain, FinishForDomain, DiscoverForDeploy, FinishForDeploy
<1>6. ASSUME NEW t, StartFrame(t)
      PROVE  FALSE
  BY <1>6 DEF StartFrame
<1>7. CASE ComputeTimeRange \/ PluginThrows \/ EndFrame
  BY <1>7 DEF ComputeTimeRange, PluginThrows, EndFrame
<1> QED
  BY <1>3, <1>4, <1>5, <1>6, <1>7 DEF Next

-----------------------------------------------------------------------------
(* The theorems.                                                           *)

LEMMA InitHolds ==
  ASSUME Init
  PROVE  IInv
<1>1. graph \in Graphs /\ request \in Requests /\ pc = "domain" /\ frames = 0
  BY DEF Init
<1>2. IntMin \in Int /\ IntMax \in Int /\ MaxFrames \in Nat
  BY TimeAssumption
<1>3. Types
  BY <1>1, <1>2 DEF Init, Types, Infinite
<1>4. FinitelyMany
  BY FS_EmptySet DEF Init, FinitelyMany
<1>5. VisitInv
  BY InitVisits
<1>6. DomainsInv
  BY <1>1 DEF Init, DomainsInv, DomainsFollowInputs
<1> QED
  BY <1>1, <1>3, <1>4, <1>5, <1>6 DEF IInv, RangesInv, Deploying, NeedsDeployed, EveryNeedDeployed

LEMMA StepHolds ==
  ASSUME IInv, [Next]_vars
  PROVE  IInv'
<1>1. Types /\ VisitInv
  BY DEF IInv
<1>2. VisitInv'
  BY <1>1, StepVisits
<1> QED
  BY <1>2, StepTypes, StepDomains, StepRanges, StepDeploys, StepBuilds DEF IInv

LEMMA Invariant == Spec => []IInv
<1>1. Init => IInv
  BY InitHolds
<1>2. IInv /\ [Next]_vars => IInv'
  BY StepHolds
<1> QED
  BY <1>1, <1>2, PTL DEF Spec

(* The state of the setup has its types; in particular the edges of the    *)
(* graph at time join its vertices, since a key that is not deployed is    *)
(* that of the first vertex (std::map::operator[]).                        *)
THEOREM TimeTypes == Spec => []TypeOK
<1>1. IInv => TypeOK
  BY DEF IInv, Types, TypeOK, VisitInv, Colors
<1> QED
  BY <1>1, Invariant, PTL

(* TimeDomain reads no time domain that is still to compute: the domain of *)
(* a finished node is the plugin's, or the hull of those of its inputs,    *)
(* for every graph without a cycle.                                        *)
THEOREM DomainsAreHulls == Spec => []DomainsFollowInputs
<1>1. IInv => DomainsFollowInputs
  BY DEF IInv, DomainsInv
<1> QED
  BY <1>1, Invariant, PTL

(* computeTimeRange gives the frames of the output domains that the        *)
(* options ask for, for every begin and end and every domain, those beyond *)
(* the bounds of int included.                                             *)
THEOREM RangesAsAsked == Spec => []RangesObeyRequest
<1>1. IInv => RangesObeyRequest
  BY RangesAreRight
<1> QED
  BY <1>1, Invariant, PTL

(* No vertex is deployed at a time that none of its readers asked for in   *)
(* this frame: what an earlier frame left, given up or not, is gone.       *)
THEOREM OnlyNeededTimes == Spec => []DeployedTimesAreNeeded
<1>1. IInv => DeployedTimesAreNeeded
  BY DEF IInv, Deploying, DeployedTimesAreNeeded
<1> QED
  BY <1>1, Invariant, PTL

(* In the graph at time every vertex has an edge to each frame that its    *)
(* node asked of each input, when each node has one reader or every node   *)
(* needs the time of the frame only.                                       *)
THEOREM NeedsAreDeployed == Spec => []NeedsDeployed
<1>1. IInv => NeedsDeployed
  BY DEF IInv
<1> QED
  BY <1>1, Invariant, PTL
-----------------------------------------------------------------------------
(* The clips: types, and the graph that is set up.                         *)


IsClipGraph(g) ==
  /\ IsGraph(g) /\ IsFiniteSet(g.vertices) /\ Output \in g.vertices
  /\ g.vertices \subseteq Nodes \cup {Output}
  /\ \A e \in g.edges : e.out \in Nodes /\ (e.in = Output \/ e.clip \in ClipNames)
  /\ \A v \in g.vertices \ {Output} : \E e \in g.edges : e.out = v

ClipTypes ==
  /\ IsClipGraph(graph) /\ graph.vertices \subseteq exists \cup {Output}
  /\ kind \in Kinds /\ exists \subseteq Nodes
  /\ link \in [Clips -> Nodes \cup {Nobody}]
  /\ phase \in {"idle", "edited", "setup1", "setup2", "setup3", "done", "rendered",
               "failed", "undefined"}
  /\ inDepth \in [Clips -> Depths] /\ outDepth \in [Nodes -> Depths]
  /\ inComps \in [Clips -> Components] /\ outComps \in [Nodes -> Components]
  /\ byPlugin \in [Nodes -> BOOLEAN]
  /\ \A v \in Nodes : byPlugin[v] => kind[v].depth # NoDepth
  /\ computes \in 0 .. MaxComputes

(* What the assumption says of the nodes. *)
LEMMA KindFacts ==
  ASSUME ClipTypes, NEW v \in Nodes
  PROVE  /\ kind[v].depths \subseteq RealDepths /\ kind[v].depths # {}
         /\ kind[v].multi \in BOOLEAN
         /\ kind[v].depth \in kind[v].depths \cup {NoDepth}
         /\ kind[v].ins \subseteq RealComponents /\ kind[v].outs \subseteq RealComponents
         /\ kind[v].comps \in kind[v].outs \cup {NoComponents}
BY ClipAssumption DEF ClipTypes

(* The output vertex alone is a graph, and so is each one given. *)
LEMMA EveryClipGraph ==
  ASSUME NEW g \in ClipGraphs
  PROVE  IsClipGraph(g)
<1>1. /\ IsGraph(g) /\ Output \in g.vertices /\ g.vertices \subseteq Nodes \cup {Output}
      /\ \A e \in g.edges : e.out \in Nodes /\ (e.in = Output \/ e.clip \in ClipNames)
      /\ \A v \in g.vertices \ {Output} : \E e \in g.edges : e.out = v
  BY ClipAssumption
<1>2. IsFiniteSet(Nodes \cup {Output})
  BY ClipAssumption, FS_AddElement
<1>3. IsFiniteSet(g.vertices)
  BY <1>1, <1>2, FS_Subset
<1> QED
  BY <1>1, <1>3 DEF IsClipGraph

LEMMA NoGraph ==
  ASSUME graph = [vertices |-> {Output}, edges |-> {}]
  PROVE  IsClipGraph(graph)
<1>1. graph.vertices = {Output} /\ graph.edges = {}
  OBVIOUS
<1>2. IsFiniteSet({Output}) /\ Cardinality({Output}) = 1
  BY FS_Singleton
<1>3. [v \in {Output} |-> 1] \in [{Output} -> 1 .. 1]
  OBVIOUS
<1>4. IsGraph(graph)
  BY <1>1, <1>2, <1>3 DEF IsGraph
<1> QED
  BY <1>1, <1>2, <1>4 DEF IsClipGraph

LEMMA EdgeFacts ==
  ASSUME ClipTypes, NEW e \in graph.edges
  PROVE  /\ e.in \in graph.vertices /\ e.out \in graph.vertices /\ e.out # e.in
         /\ e.out \in Nodes /\ e.out # Output
         /\ e.in # Output => e.in \in Nodes /\ e.clip \in ClipNames /\ <<e.in, e.clip>> \in Clips
<1>1. IsClipGraph(graph)
  BY DEF ClipTypes
<1>2. e.in \in graph.vertices /\ e.out \in graph.vertices /\ e.out \in Nodes
  BY <1>1 DEF IsClipGraph, IsGraph
<1>3. e.out # e.in
  BY <1>1, <1>2, Ranked DEF IsClipGraph
<1>4. e.out # Output
  BY <1>2, ClipAssumption
<1>5. e.in # Output => e.in \in Nodes /\ e.clip \in ClipNames
  BY <1>1, <1>2 DEF IsClipGraph
<1> QED
  BY <1>2, <1>3, <1>4, <1>5 DEF Clips

(* Everything is read, in the end by the output vertex: once that one is   *)
(* finished, everything is.                                                *)
LEMMA AllFinished ==
  ASSUME ClipTypes, VisitInv, Over, Discovered(Output)
  PROVE  \A v \in graph.vertices : color[v] = "black"
<1> DEFINE others == {v \in graph.vertices : color[v] # "black"}
           w == [v \in others |-> - Rank(graph)[v]]
<1> SUFFICES ASSUME others # {}
             PROVE  FALSE
  OBVIOUS
<1>1. IsClipGraph(graph)
  BY DEF ClipTypes
<1>2. /\ \A v \in graph.vertices : Rank(graph)[v] \in Int
      /\ \A e \in graph.edges : Rank(graph)[e.out] < Rank(graph)[e.in]
  BY <1>1, Ranked DEF IsClipGraph
<1>3. IsFiniteSet(others)
  <2>1. others \in SUBSET graph.vertices
    OBVIOUS
  <2> HIDE DEF others
  <2> QED
    BY <1>1, <2>1, FS_Subset DEF IsClipGraph
<1>4. w \in [others -> Int] /\ \A v \in others : w[v] = - Rank(graph)[v]
  BY <1>2
<1>5. PICK v \in others : \A u \in others : w[v] <= w[u]
  <2> HIDE DEF others, w
  <2> QED
    BY <1>3, <1>4, LeastOfFinite
<1>6. v # Output
  BY <1>1, OverIsFinished DEF Discovered, IsClipGraph
<1>7. PICK e \in graph.edges : e.out = v
  BY <1>1, <1>5, <1>6 DEF IsClipGraph
<1>8. e.in \in graph.vertices /\ Rank(graph)[v] < Rank(graph)[e.in]
  BY <1>2, <1>7, EdgeFacts
<1>9. color[e.in] = "black"
  <2> SUFFICES ASSUME e.in \in others
               PROVE  FALSE
    BY <1>8
  <2>1. w[v] <= w[e.in] /\ w[v] = - Rank(graph)[v] /\ w[e.in] = - Rank(graph)[e.in]
    BY <1>4, <1>5
  <2>2. Rank(graph)[v] \in Int /\ Rank(graph)[e.in] \in Int
    BY <1>2, <1>8, <1>5
  <2> HIDE DEF w
  <2> QED
    BY <1>8, <2>1, <2>2
<1> QED
  BY <1>5, <1>7, <1>9 DEF VisitInv

-----------------------------------------------------------------------------
(* What a node finds on its clips.                                         *)

InClip(e) == <<e.in, e.clip>>

(* The clips are connected as in the graph. *)
Linked ==
  \A c \in Clips : c[1] \in graph.vertices =>
    {e.out : e \in {x \in graph.edges : <<x.in, x.clip>> = c}} = {link[c]} \ {Nobody}

LEMMA LinkedEdge ==
  ASSUME ClipTypes, Linked, NEW e \in graph.edges, e.in # Output
  PROVE  InClip(e) \in Connected(e.in) /\ link[InClip(e)] = e.out
<1>1. InClip(e) \in Clips /\ InClip(e)[1] \in graph.vertices /\ e.in \in Nodes /\ e.clip \in ClipNames
  BY EdgeFacts DEF InClip
<1>2. e.out \in {x.out : x \in {x \in graph.edges : <<x.in, x.clip>> = InClip(e)}}
  BY DEF InClip
<1>3. e.out \in {link[InClip(e)]} \ {Nobody}
  BY <1>1, <1>2 DEF Linked
<1> QED
  BY <1>1, <1>3 DEF Connected, ClipsOf, InClip

LEMMA ConnectedEdge ==
  ASSUME ClipTypes, Linked, NEW v \in graph.vertices, v # Output, NEW c \in Connected(v)
  PROVE  /\ c \in Clips /\ c[1] = v
         /\ \E e \in Needs(v) : c = InClip(e) /\ link[c] = e.out
<1>1. c \in {v} \X ClipNames /\ link[c] # Nobody
  BY DEF Connected, ClipsOf
<1>2. v \in Nodes
  BY DEF ClipTypes, IsClipGraph
<1>3. c \in Clips /\ c[1] = v
  BY <1>1, <1>2 DEF Clips
<1>4. link[c] \in {x.out : x \in {x \in graph.edges : <<x.in, x.clip>> = c}}
  BY <1>1, <1>3 DEF Linked
<1>5. PICK e \in graph.edges : <<e.in, e.clip>> = c /\ e.out = link[c]
  BY <1>4
<1>6. e.in = v
  BY <1>3, <1>5
<1> QED
  BY <1>3, <1>5, <1>6 DEF Needs, InClip

LEMMA ConnectedIffNeeds ==
  ASSUME ClipTypes, Linked, NEW v \in graph.vertices, v # Output
  PROVE  Connected(v) = {} <=> Needs(v) = {}
<1>1. \A e \in Needs(v) : InClip(e) \in Connected(v)
  BY LinkedEdge DEF Needs
<1>2. \A c \in Connected(v) : \E e \in Needs(v) : c = InClip(e)
  BY ConnectedEdge
<1> QED
  BY <1>1, <1>2

LEMMA DepthsFinite ==
  /\ IsFiniteSet(Depths) /\ IsFiniteSet(RealDepths) /\ RealDepths \subseteq Int /\ Depths \subseteq Int
  /\ \A d \in RealDepths : d \in Depths /\ NoDepth < d
  /\ NoDepth \in Int /\ NoDepth \in Depths /\ NoDepth \notin RealDepths
  /\ \A d \in Depths : d # NoDepth => d \in RealDepths
<1>1. IsFiniteSet({} \cup {Byte}) /\ IsFiniteSet(({} \cup {Byte}) \cup {Short})
  BY FS_EmptySet, FS_AddElement
<1>2. IsFiniteSet((({} \cup {Byte}) \cup {Short}) \cup {Float})
  BY <1>1, FS_AddElement
<1>3. RealDepths = (({} \cup {Byte}) \cup {Short}) \cup {Float}
  BY DEF RealDepths
<1>4. IsFiniteSet(RealDepths) /\ IsFiniteSet(Depths)
  BY <1>2, <1>3, FS_AddElement DEF Depths
<1> QED
  BY <1>4 DEF RealDepths, Depths, NoDepth, Byte, Short, Float

LEMMA ComponentsFinite ==
  /\ IsFiniteSet(Components) /\ Components \subseteq Nat /\ NoComponents = 0
  /\ RealComponents \subseteq Components
<1>1. IsFiniteSet({} \cup {0}) /\ IsFiniteSet(({} \cup {0}) \cup {1})
  BY FS_EmptySet, FS_AddElement
<1>2. IsFiniteSet((({} \cup {0}) \cup {1}) \cup {3})
  BY <1>1, FS_AddElement
<1>3. IsFiniteSet(((({} \cup {0}) \cup {1}) \cup {3}) \cup {4})
  BY <1>2, FS_AddElement
<1>4. Components = ((({} \cup {0}) \cup {1}) \cup {3}) \cup {4}
  BY DEF Components, RealComponents, NoComponents
<1> QED
  BY <1>3, <1>4 DEF Components, RealComponents, NoComponents

(* The deepest input is one of them. *)
LEMMA DeepestFacts ==
  ASSUME ClipTypes, Linked, NEW v \in graph.vertices, v # Output
  PROVE  /\ Deepest(v) \in Depths
         /\ \A e \in Needs(v) : outDepth[e.out] <= Deepest(v)
         /\ Deepest(v) = NoDepth \/ \E e \in Needs(v) : Deepest(v) = outDepth[e.out]
         /\ Needs(v) = {} => Deepest(v) = NoDepth
<1> DEFINE S == {outDepth[link[c]] : c \in Connected(v)} \cup {NoDepth}
<1>1. \A c \in Connected(v) : \E e \in Needs(v) : link[c] = e.out
  BY ConnectedEdge
<1>2. \A e \in Needs(v) : e.out \in Nodes /\ outDepth[e.out] \in Depths
  BY EdgeFacts DEF Needs, ClipTypes
<1>3. \A e \in Needs(v) : outDepth[e.out] \in S
  <2>1. \A e \in Needs(v) : InClip(e) \in Connected(v) /\ link[InClip(e)] = e.out
    BY LinkedEdge DEF Needs
  <2> QED
    BY <2>1
<1>4. S \in SUBSET Depths
  BY <1>1, <1>2, DepthsFinite
<1>5. \A d \in S : d = NoDepth \/ \E e \in Needs(v) : d = outDepth[e.out]
  BY <1>1
<1>6. Deepest(v) = Max(S)
  BY DEF Deepest
<1>7. S # {} /\ NoDepth \in S
  OBVIOUS
<1> HIDE DEF S
<1>8. Max(S) \in S /\ \A d \in S : d <= Max(S)
  <2>1. S \in SUBSET Int /\ IsFiniteSet(S)
    BY <1>4, DepthsFinite, FS_Subset
  <2> QED
    BY <1>7, <2>1, MaxOfFinite
<1> QED
  BY <1>3, <1>4, <1>5, <1>6, <1>8

(* The most chromatic of inputs that all come with the same components.    *)
LEMMA ChromaticFacts ==
  ASSUME ClipTypes, Linked, NEW v \in graph.vertices, v # Output, SameComps(v), NEW e \in Needs(v)
  PROVE  MostChromatic(v) = outComps[e.out]
<1> DEFINE S == {outComps[link[c]] : c \in Connected(v)} \cup {NoComponents}
           m == outComps[e.out]
<1>1. \A c \in Connected(v) : \E f \in Needs(v) : link[c] = f.out
  BY ConnectedEdge
<1>2. \A c \in Connected(v) : outComps[link[c]] = m
  BY <1>1 DEF SameComps
<1>3. m \in Components
  BY EdgeFacts DEF Needs, ClipTypes
<1>4. m \in S
  BY LinkedEdge DEF Needs
<1>5. S \in SUBSET {m, NoComponents}
  BY <1>2
<1>6. S \in SUBSET Int /\ IsFiniteSet(S)
  <2>1. S \in SUBSET Components
    BY <1>3, <1>5, ComponentsFinite DEF Components
  <2>2. Components \subseteq Int /\ IsFiniteSet(Components)
    BY ComponentsFinite
  <2> HIDE DEF S
  <2>3. IsFiniteSet(S)
    BY <2>1, <2>2, FS_Subset
  <2> QED
    BY <2>1, <2>2, <2>3
<1>7. MostChromatic(v) = Max(S)
  BY DEF MostChromatic
<1>8. m \in Nat /\ NoComponents = 0
  BY <1>3, ComponentsFinite
<1> HIDE DEF S, m
<1>9. Max(S) \in S /\ \A d \in S : d <= Max(S)
  BY <1>4, <1>6, MaxOfFinite
<1>10. Max(S) = m
  <2>1. (Max(S) = m \/ Max(S) = NoComponents) /\ m <= Max(S)
    BY <1>4, <1>5, <1>9
  <2> QED
    BY <1>8, <2>1
<1> QED
  BY <1>7, <1>10 DEF m


-----------------------------------------------------------------------------
(* The depths a node gives its clips.                                      *)

LEMMA BestDepthFacts ==
  ASSUME ClipTypes, NEW v \in Nodes, NEW d \in Depths
  PROVE  /\ BestDepth(v, d) \in kind[v].depths \cup {NoDepth}
         /\ BestDepth(v, d) \in Depths
         /\ BestDepth(v, d) = NoDepth <=> d = NoDepth
         /\ kind[v].depths = RealDepths => BestDepth(v, d) = d
<1> DEFINE supported == kind[v].depths
<1>1. supported \in SUBSET RealDepths /\ supported # {}
  BY KindFacts
<1> HIDE DEF supported
<1>2. supported \in SUBSET Int /\ IsFiniteSet(supported) /\ supported \in SUBSET Depths
  BY <1>1, DepthsFinite, FS_Subset
<1>3. Min(supported) \in supported /\ Max(supported) \in supported
  BY <1>1, <1>2, MinOfFinite, MaxOfFinite
<1>4. BestDepth(v, d) = IF d \in supported \cup {NoDepth} THEN d
                       ELSE IF d = Byte THEN Min(supported) ELSE Max(supported)
  BY DEF BestDepth, supported
<1>5. NoDepth \notin supported /\ NoDepth \in Depths
  BY <1>1, DepthsFinite
<1>6. BestDepth(v, d) \in supported \cup {NoDepth} /\ (BestDepth(v, d) = NoDepth <=> d = NoDepth)
  BY <1>3, <1>4, <1>5
<1>7. supported = RealDepths => BestDepth(v, d) = d
  BY <1>4, DepthsFinite
<1> QED
  BY <1>2, <1>5, <1>6, <1>7 DEF supported

LEMMA UpperFacts ==
  ASSUME NEW old \in Depths, NEW new \in Depths
  PROVE  /\ Upper(old, new) \in {old, new}
         /\ old <= Upper(old, new) /\ new <= Upper(old, new)
         /\ new <= old => Upper(old, new) = old
         /\ old <= new => Upper(old, new) = new
         /\ old # NoDepth \/ new # NoDepth => Upper(old, new) # NoDepth
BY DEF Upper, Depths, RealDepths, NoDepth, Byte, Short, Float

(* An input clip is asked to take a depth its node supports. *)
LEMMA ReadDepthFacts ==
  ASSUME ClipTypes, Linked, NEW e \in graph.edges, e.in # Output, NEW old \in kind[e.in].depths \cup {NoDepth}
  PROVE  ReadDepth(e.in, InClip(e), old) \in kind[e.in].depths \cup {NoDepth}
<1> DEFINE v == e.in
           asked == IF kind[v].multi THEN outDepth[link[InClip(e)]] ELSE BestDepth(v, Deepest(v))
           asker == IF kind[v].multi THEN v ELSE link[InClip(e)]
<1>1. v \in graph.vertices /\ v \in Nodes
  BY EdgeFacts
<1>2. Deepest(v) \in Depths
  BY <1>1, DeepestFacts
<1>3. BestDepth(v, Deepest(v)) \in kind[v].depths \cup {NoDepth}
  BY <1>1, <1>2, BestDepthFacts
<1>4. ReadDepth(v, InClip(e), old) = IF asked \in kind[asker].depths THEN Upper(old, asked) ELSE old
  BY DEF ReadDepth
<1>5. asked \in kind[asker].depths => asked \in kind[v].depths \cup {NoDepth}
  BY <1>3
<1>6. kind[v].depths \cup {NoDepth} \subseteq Depths
  BY <1>1, KindFacts, DepthsFinite
<1> HIDE DEF asked, asker
<1>7. asked \in kind[v].depths \cup {NoDepth} => Upper(old, asked) \in {old, asked}
  BY <1>6, UpperFacts
<1> QED
  BY <1>4, <1>5, <1>7

(* A node of one depth gives its input clips the depth that it works with, *)
(* when its inputs can take it.                                            *)
LEMMA OneReadDepth ==
  ASSUME ClipTypes, Linked, NEW e \in graph.edges, e.in # Output, ~kind[e.in].multi,
         kind[e.in].depths = RealDepths, kind[e.out].depths = RealDepths,
         Deepest(e.in) # NoDepth, NEW old
  PROVE  ReadDepth(e.in, InClip(e), old) = Upper(old, Deepest(e.in))
<1>1. e.in \in graph.vertices /\ e.in \in Nodes
  BY EdgeFacts
<1>2. Deepest(e.in) \in Depths
  BY <1>1, DeepestFacts
<1>3. BestDepth(e.in, Deepest(e.in)) = Deepest(e.in) /\ Deepest(e.in) \in RealDepths
  BY <1>1, <1>2, BestDepthFacts, DepthsFinite
<1>4. link[InClip(e)] = e.out
  BY LinkedEdge
<1> QED
  BY <1>3, <1>4 DEF ReadDepth

LEMMA ReadDepthType ==
  ASSUME ClipTypes, NEW v \in Nodes, NEW c \in Connected(v), NEW old \in Depths
  PROVE  ReadDepth(v, c, old) \in Depths
<1> DEFINE asked == IF kind[v].multi THEN outDepth[link[c]] ELSE BestDepth(v, Deepest(v))
           asker == IF kind[v].multi THEN v ELSE link[c]
<1>1. link[c] \in Nodes
  BY DEF Connected, ClipsOf, ClipTypes, Clips
<1>2. kind[asker].depths \subseteq Depths
  BY <1>1, KindFacts, DepthsFinite
<1>3. ReadDepth(v, c, old) = IF asked \in kind[asker].depths THEN Upper(old, asked) ELSE old
  BY DEF ReadDepth
<1> HIDE DEF asked, asker
<1> QED
  BY <1>2, <1>3 DEF Upper


-----------------------------------------------------------------------------
(* Types are kept.                                                         *)

LEMMA DeepestType ==
  ASSUME ClipTypes, NEW v \in Nodes
  PROVE  /\ Deepest(v) \in Depths /\ MostChromatic(v) \in Components
         /\ \A c \in Connected(v) : c \in Clips /\ link[c] \in Nodes
<1> DEFINE S == {outDepth[link[c]] : c \in Connected(v)} \cup {NoDepth}
           T == {outComps[link[c]] : c \in Connected(v)} \cup {NoComponents}
<1>1. \A c \in Connected(v) : c \in Clips /\ link[c] \in Nodes
  BY DEF Connected, ClipsOf, ClipTypes, Clips
<1>2. S \in SUBSET Depths /\ S # {}
  BY <1>1, DepthsFinite DEF ClipTypes
<1>3. T \in SUBSET Components /\ T # {}
  BY <1>1 DEF ClipTypes, Components
<1>4. Deepest(v) = Max(S) /\ MostChromatic(v) = Max(T)
  BY DEF Deepest, MostChromatic
<1> HIDE DEF S, T
<1>5. IsFiniteSet(S) /\ S \in SUBSET Int
  BY <1>2, DepthsFinite, FS_Subset
<1>6. IsFiniteSet(T)
  BY <1>3, ComponentsFinite, FS_Subset
<1>7. T \in SUBSET Int
  BY <1>3, ComponentsFinite
<1>8. Max(S) \in S /\ Max(T) \in T
  BY <1>2, <1>3, <1>5, <1>6, <1>7, MaxOfFinite
<1> QED
  BY <1>1, <1>2, <1>3, <1>4, <1>8

LEMMA OnlyOfType ==
  ASSUME NEW comps \in SUBSET RealComponents
  PROVE  OnlyOf(comps) \in comps \cup {NoComponents} /\ OnlyOf(comps) \in Components
<1>1. comps \in SUBSET Components /\ comps \in SUBSET Int
  BY ComponentsFinite
<1>2. IsFiniteSet(comps)
  BY <1>1, ComponentsFinite, FS_Subset
<1>3. Cardinality(comps) = 1 => comps # {}
  BY FS_EmptySet
<1>4. comps # {} => Max(comps) \in comps
  BY <1>1, <1>2, MaxOfFinite
<1> QED
  BY <1>1, <1>3, <1>4 DEF OnlyOf, Components

LEMMA NewValuesType ==
  ASSUME ClipTypes, NEW v \in Nodes
  PROVE  /\ PreferredDepth(v) \in Depths
         /\ \A old \in Depths, plugin \in BOOLEAN : WrittenDepth(v, old, plugin) \in Depths
         /\ \A c \in Connected(v) : ReadComps(v, c) \in Components
         /\ WrittenComps(v) \in Components
         /\ OnlyOf(kind[v].ins) \in Components /\ OnlyOf(kind[v].outs) \in Components
<1>1. /\ kind[v].depths \subseteq RealDepths
      /\ kind[v].depth \in kind[v].depths \cup {NoDepth}
      /\ kind[v].ins \subseteq RealComponents /\ kind[v].outs \subseteq RealComponents
      /\ kind[v].comps \in kind[v].outs \cup {NoComponents}
  BY KindFacts
<1>2. /\ Deepest(v) \in Depths /\ MostChromatic(v) \in Components
      /\ \A c \in Connected(v) : c \in Clips /\ link[c] \in Nodes
  BY DeepestType
<1>3. PreferredDepth(v) \in Depths
  BY <1>1 DEF PreferredDepth, Depths, RealDepths
<1>4. ASSUME NEW old \in Depths, NEW plugin \in BOOLEAN
      PROVE  WrittenDepth(v, old, plugin) \in Depths
  <2>1. BestDepth(v, Deepest(v)) \in Depths
    BY <1>2, BestDepthFacts
  <2> QED
    BY <2>1, UpperFacts DEF WrittenDepth, Upper
<1>5. OnlyOf(kind[v].ins) \in Components /\ OnlyOf(kind[v].outs) \in Components
  BY <1>1, OnlyOfType
<1>6. \A c \in Connected(v) : ReadComps(v, c) \in Components
  BY <1>2, <1>5 DEF ReadComps, ClipTypes
<1>7. WrittenComps(v) \in Components
  BY <1>1, <1>2, <1>5, ComponentsFinite DEF WrittenComps
<1> QED
  BY <1>3, <1>4, <1>5, <1>6, <1>7

LEMMA Setup1Types ==
  ASSUME ClipTypes, NEW v \in graph.vertices, FinishSetup1(v)
  PROVE  ClipTypes'
<1>1. UNCHANGED <<graph, kind, exists, link, computes>> /\ phase = "setup1"
  BY DEF FinishSetup1, nodeVars
<1>2. CASE v = Output
  <2>1. UNCHANGED <<phase, inDepth, outDepth, inComps, outComps, byPlugin>>
    BY <1>2 DEF FinishSetup1, compsVars, depthVars
  <2> QED
    BY <1>1, <2>1 DEF ClipTypes, IsClipGraph, IsGraph
<1>3. CASE v # Output
  <2>1. v \in Nodes /\ Setup1(v)
    BY <1>3 DEF FinishSetup1, ClipTypes, IsClipGraph
  <2>2. /\ OnlyOf(kind[v].ins) \in Components /\ OnlyOf(kind[v].outs) \in Components
        /\ PreferredDepth(v) \in Depths /\ WrittenComps(v) \in Components
        /\ \A old \in Depths, plugin \in BOOLEAN : WrittenDepth(v, old, plugin) \in Depths
        /\ \A c \in Connected(v) : ReadComps(v, c) \in Components
        /\ \A c \in Connected(v) : ReadDepth(v, c, NoDepth) \in Depths
    BY <2>1, NewValuesType, ReadDepthType, DepthsFinite
  <2>3. CASE UNCHANGED <<inDepth, outDepth, inComps, outComps, byPlugin>> /\ phase' \in {"failed", "undefined"}
    BY <1>1, <2>3 DEF ClipTypes, IsClipGraph, IsGraph
  <2>4. CASE NoPreferences(v)
    <3>1. /\ inDepth' \in [Clips -> Depths] /\ inComps' \in [Clips -> Components]
          /\ outDepth' \in [Nodes -> Depths] /\ outComps' \in [Nodes -> Components]
          /\ byPlugin' \in [Nodes -> BOOLEAN] /\ phase' = "failed"
          /\ \A u \in Nodes : byPlugin'[u] => byPlugin[u]
      BY <2>1, <2>2, <2>4, DepthsFinite DEF NoPreferences, Reset, ClipTypes
    <3> QED
      BY <1>1, <3>1 DEF ClipTypes, IsClipGraph, IsGraph
  <2>5. CASE Prefer(v)
    <3> DEFINE plugin == kind[v].depth # NoDepth
               throws == DepthNotSupported(v)
    <3>1. plugin \in BOOLEAN
      OBVIOUS
    <3>2. \A c \in Clips : inComps'[c] \in Components
      BY <2>2, <2>5 DEF Prefer, Reset, ClipTypes
    <3>3. \A c \in Clips : inDepth'[c] \in Depths
      BY <2>2, <2>5, DepthsFinite DEF Prefer, Reset, ClipTypes
    <3>4. outComps' \in [Nodes -> Components]
      BY <2>1, <2>2, <2>5 DEF Prefer, ClipTypes
    <3>5. outDepth' \in [Nodes -> Depths]
      <4>1. outDepth' = [outDepth EXCEPT ![v] =
              IF throws THEN PreferredDepth(v) ELSE WrittenDepth(v, PreferredDepth(v), plugin)]
        BY <2>5 DEF Prefer
      <4>2. WrittenDepth(v, PreferredDepth(v), plugin) \in Depths
        BY <2>2, <3>1
      <4> QED
        BY <2>1, <2>2, <4>1, <4>2 DEF ClipTypes
    <3>6. /\ byPlugin' \in [Nodes -> BOOLEAN]
          /\ \A u \in Nodes : byPlugin'[u] => kind[u].depth # NoDepth
      <4>1. byPlugin' = [byPlugin EXCEPT ![v] = plugin]
        BY <2>5 DEF Prefer
      <4> QED
        BY <2>1, <3>1, <4>1 DEF ClipTypes
    <3>7. phase' \in {"failed", "setup1"}
      BY <1>1, <2>5 DEF Prefer
    <3>8. inComps' = [c \in Clips |-> inComps'[c]] /\ inDepth' = [c \in Clips |-> inDepth'[c]]
      BY <2>5 DEF Prefer
    <3>9. inComps' \in [Clips -> Components] /\ inDepth' \in [Clips -> Depths]
      BY <3>2, <3>3, <3>8
    <3> QED
      BY <1>1, <3>4, <3>5, <3>6, <3>7, <3>9 DEF ClipTypes, IsClipGraph, IsGraph
  <2> QED
    BY <2>1, <2>3, <2>4, <2>5 DEF Setup1, compsVars, depthVars
<1> QED
  BY <1>2, <1>3

LEMMA Setup2Types ==
  ASSUME ClipTypes, NEW w \in graph.vertices, VisitInv, DiscoverSetup2(w), w # Output
  PROVE  ClipTypes'
<1>1. UNCHANGED <<graph, kind, exists, link, computes, phase, inComps, outComps, inDepth>>
  BY DEF DiscoverSetup2, nodeVars, compsVars
<1>2. w \in Nodes
  BY DEF ClipTypes, IsClipGraph
<1>3. outDepth' \in [Nodes -> Depths]
  BY <1>2 DEF DiscoverSetup2, ClipTypes
<1>4. byPlugin' \in [Nodes -> BOOLEAN] /\ \A u \in Nodes : byPlugin'[u] => byPlugin[u]
  BY DEF DiscoverSetup2, ClipTypes
<1> QED
  BY <1>1, <1>3, <1>4 DEF ClipTypes, IsClipGraph, IsGraph

LEMMA Setup3Types ==
  ASSUME ClipTypes, NEW v \in graph.vertices, FinishSetup3(v)
  PROVE  ClipTypes'
<1>1. UNCHANGED <<graph, kind, exists, link, computes, inComps, outComps>> /\ phase = "setup3"
  BY DEF FinishSetup3, nodeVars, compsVars
<1>2. CASE UNCHANGED <<inDepth, outDepth, byPlugin>> /\ phase' \in {"failed", "setup3"}
  BY <1>1, <1>2 DEF ClipTypes, IsClipGraph, IsGraph
<1>3. CASE v # Output /\ ~DepthNotSupported(v)
  <2>1. v \in Nodes /\ Setup3(v)
    BY <1>3 DEF FinishSetup3, ClipTypes, IsClipGraph
  <2>2. /\ inDepth' = [c \in Clips |-> IF c \in Connected(v) THEN ReadDepth(v, c, inDepth[c]) ELSE inDepth[c]]
        /\ outDepth' = [outDepth EXCEPT ![v] = WrittenDepth(v, outDepth[v], byPlugin[v])]
        /\ byPlugin' = byPlugin /\ phase' \in {"failed", "setup3"}
    BY <1>1, <1>3, <2>1 DEF Setup3
  <2>3. \A c \in Clips : inDepth[c] \in Depths
    BY DEF ClipTypes
  <2>4. \A c \in Connected(v) : c \in Clips /\ ReadDepth(v, c, inDepth[c]) \in Depths
    BY <2>1, <2>3, DeepestType, ReadDepthType
  <2>5. outDepth[v] \in Depths /\ byPlugin[v] \in BOOLEAN
    BY <2>1 DEF ClipTypes
  <2>6. WrittenDepth(v, outDepth[v], byPlugin[v]) \in Depths
    BY <2>1, <2>5, NewValuesType
  <2>7. inDepth' \in [Clips -> Depths] /\ outDepth' \in [Nodes -> Depths]
    BY <2>1, <2>2, <2>3, <2>4, <2>6 DEF ClipTypes
  <2> QED
    BY <1>1, <2>2, <2>7 DEF ClipTypes, IsClipGraph, IsGraph
<1> QED
  BY <1>1, <1>2, <1>3 DEF FinishSetup3, Setup3, depthVars

LEMMA EditTypes ==
  ASSUME ClipTypes, NEW g \in ClipGraphs, NEW deleted, Edit(g, deleted)
  PROVE  ClipTypes'
<1>1. /\ graph' = g /\ exists' = exists \ deleted /\ g.vertices \subseteq exists' \cup {Output}
      /\ phase' = "edited" /\ computes' = computes + 1 /\ computes < MaxComputes
      /\ UNCHANGED <<kind, link, inDepth, outDepth, inComps, outComps, byPlugin>>
  BY DEF Edit, compsVars, depthVars
<1>2. IsClipGraph(graph')
  BY <1>1, EveryClipGraph
<1>3. IsClipGraph(graph)'
  BY <1>2 DEF IsClipGraph, IsGraph
<1>4. computes' \in 0 .. MaxComputes
  BY <1>1, ClipAssumption DEF ClipTypes
<1> QED
  BY <1>1, <1>3, <1>4 DEF ClipTypes

LEMMA StepClipTypes ==
  ASSUME ClipTypes, VisitInv, [ClipNext]_clipVars, phase \in {"setup2"} => Discovered(Output)
  PROVE  ClipTypes'
<1>1. CASE UNCHANGED clipVars
  BY <1>1 DEF clipVars, visitVars, nodeVars, compsVars, depthVars, ClipTypes, IsClipGraph, IsGraph
<1>2. ASSUME NEW g \in ClipGraphs, NEW deleted, Edit(g, deleted)
      PROVE  ClipTypes'
  BY <1>2, EditTypes
<1>3. CASE ConnectClips
  <2>1. UNCHANGED <<graph, kind, exists, inDepth, outDepth, inComps, outComps, byPlugin, computes>>
        /\ phase' = "setup1"
    BY <1>3 DEF ConnectClips, compsVars, depthVars
  <2>2. link' \in [Clips -> Nodes \cup {Nobody}]
    <3>1. PICK lasting \in SUBSET graph.edges : link' = [c \in Clips |->
            IF \E e \in lasting : <<e.in, e.clip>> = c
            THEN (CHOOSE e \in lasting : <<e.in, e.clip>> = c).out
            ELSE link[c]]
      BY <1>3 DEF ConnectClips
    <3>2. ASSUME NEW c \in Clips
          PROVE  link'[c] \in Nodes \cup {Nobody}
      <4>1. CASE \E e \in lasting : <<e.in, e.clip>> = c
        <5>1. (CHOOSE e \in lasting : <<e.in, e.clip>> = c) \in lasting
          BY <4>1
        <5>2. (CHOOSE e \in lasting : <<e.in, e.clip>> = c) \in graph.edges
          BY <5>1
        <5>3. (CHOOSE e \in lasting : <<e.in, e.clip>> = c).out \in Nodes
          BY <5>2, EdgeFacts
        <5>4. link'[c] = (CHOOSE e \in lasting : <<e.in, e.clip>> = c).out
          BY <3>1, <4>1
        <5> QED
          BY <5>3, <5>4
      <4>2. CASE ~ \E e \in lasting : <<e.in, e.clip>> = c
        BY <3>1, <4>2 DEF ClipTypes
      <4> QED
        BY <4>1, <4>2
    <3>3. link' = [c \in Clips |-> link'[c]]
      BY <3>1
    <3> QED
      BY <3>2, <3>3
  <2> QED
    BY <2>1, <2>2 DEF ClipTypes, IsClipGraph, IsGraph
<1>4. ASSUME NEW v \in graph.vertices, FinishSetup1(v)
      PROVE  ClipTypes'
  BY <1>4, Setup1Types
<1>5. ASSUME NEW v \in graph.vertices, DiscoverSetup2(v)
      PROVE  ClipTypes'
  <2>1. v # Output
    BY <1>5 DEF DiscoverSetup2, Discover, Discovered
  <2> QED
    BY <1>5, <2>1, Setup2Types
<1>6. ASSUME NEW v \in graph.vertices, FinishSetup3(v)
      PROVE  ClipTypes'
  BY <1>6, Setup3Types
<1>7. ASSUME NEW v \in graph.vertices, DiscoverOnly(v) \/ FinishOnly(v)
      PROVE  ClipTypes'
  BY <1>7 DEF DiscoverOnly, FinishOnly, nodeVars, compsVars, depthVars, ClipTypes, IsClipGraph, IsGraph
<1>8. CASE NextVisit
  <2>1. UNCHANGED <<graph, kind, exists, link, inDepth, outDepth, inComps, outComps, byPlugin, computes>>
    BY <1>8 DEF NextVisit, nodeVars, compsVars, depthVars
  <2>2. phase' \in {"setup2", "setup3", "done"}
    BY <1>8 DEF NextVisit
  <2> QED
    BY <2>1, <2>2 DEF ClipTypes, IsClipGraph, IsGraph
<1>9. ASSUME NEW c \in Clips, ConnectAtTime(c)
      PROVE  ClipTypes'
  <2>1. UNCHANGED <<graph, kind, exists, inDepth, outDepth, inComps, outComps, byPlugin, computes>>
        /\ phase' = "rendered"
    BY <1>9 DEF ConnectAtTime, compsVars, depthVars
  <2>2. PICK e \in graph.edges : link' = [link EXCEPT ![c] = e.out]
    BY <1>9 DEF ConnectAtTime
  <2>3. link' \in [Clips -> Nodes \cup {Nobody}]
    BY <2>2, EdgeFacts DEF ClipTypes
  <2> QED
    BY <2>1, <2>3 DEF ClipTypes, IsClipGraph, IsGraph
<1> QED
  BY <1>1, <1>2, <1>3, <1>4, <1>5, <1>6, <1>7, <1>8, <1>9 DEF ClipNext


-----------------------------------------------------------------------------
(* The three visits, and the inductive invariant.                          *)

Settling == phase \in {"setup1", "setup2", "setup3", "done"}

(* Whoever is discovered, but for the output, is read by one that was. *)
ReachedInv ==
  Settling =>
    /\ Discovered(Output)
    /\ \A v \in graph.vertices \ {Output} : Discovered(v) => \E e \in UsesOf(v) : Discovered(e.in)

(* What each visit has done: asked the node what it prefers, given its     *)
(* inputs the depth of its output, validated its connections.              *)
Prepared(v) ==
  v \in graph.vertices \ {Output} /\ (phase = "setup1" => color[v] = "black")

Levelled(v) ==
  /\ v \in graph.vertices \ {Output} /\ phase \in {"setup2", "setup3", "done"}
  /\ phase = "setup2" => Discovered(v)

Validated(v) ==
  /\ v \in graph.vertices \ {Output} /\ phase \in {"setup3", "done"}
  /\ phase = "setup3" => color[v] = "black"

IsPrepared(v) ==
  /\ outDepth[v] # NoDepth
  /\ Needs(v) # {} => outDepth[v] \in kind[v].depths
  /\ \A e \in Needs(v) : /\ inDepth[InClip(e)] \in kind[v].depths \cup {NoDepth}
                         /\ inComps[InClip(e)] = ReadComps(v, InClip(e))

IsValid(v) ==
  \A e \in Needs(v) :
    inDepth[InClip(e)] = outDepth[e.out] /\ inComps[InClip(e)] = outComps[e.out]

(* When nothing hinders it: no input is deeper than the output, and for a  *)
(* node of one depth no input clip is either.                              *)
IsOpen(v) ==
  \A e \in Needs(v) :
    outDepth[e.out] <= outDepth[v] /\ (~kind[v].multi => inDepth[InClip(e)] <= outDepth[v])

IsLevel(v) == ~kind[v].multi => \A e \in Needs(v) : outDepth[e.out] = outDepth[v]

IsOne(v) == ~kind[v].multi => \A e \in Needs(v) : inDepth[InClip(e)] = outDepth[v]

SetupInv ==
  /\ \A v : Prepared(v) => IsPrepared(v)
  /\ \A v : Validated(v) => IsValid(v)

UnhinderedInv ==
  Unhindered =>
    /\ \A v : Prepared(v) => IsOpen(v)
    /\ \A v : Levelled(v) => IsLevel(v)
    /\ \A v : Validated(v) => IsOne(v)

(* The same of the clips that are linked along their edges, whatever the   *)
(* others are linked to.                                                   *)
IsAgreed(v) ==
  \A e \in Needs(v) : link[InClip(e)] = e.out =>
    inDepth[InClip(e)] = outDepth[e.out] /\ inComps[InClip(e)] = outComps[e.out]

AgreedInv == \A v : Validated(v) => IsAgreed(v)

ClipInv ==
  /\ ClipTypes /\ VisitInv /\ ReachedInv /\ AgreedInv
  /\ Settling /\ Linked => SetupInv /\ UnhinderedInv

LEMMA StepClipVisits ==
  ASSUME ClipTypes, VisitInv, [ClipNext]_clipVars
  PROVE  VisitInv'
<1>1. IsGraph(graph) /\ IsFiniteSet(graph.vertices) /\ Output \in graph.vertices
  BY DEF ClipTypes, IsClipGraph
<1>2. CASE UNCHANGED <<graph, stack, color>>
  BY <1>2 DEF VisitInv
<1>3. ASSUME NEW w \in graph.vertices, DiscoverSetup2(w) \/ DiscoverOnly(w)
      PROVE  VisitInv'
  <2>1. Discover(w) /\ UNCHANGED graph
    BY <1>3 DEF DiscoverSetup2, DiscoverOnly
  <2> QED
    BY <1>1, <2>1, DiscoverVisits
<1>4. ASSUME NEW v \in graph.vertices, FinishSetup1(v) \/ FinishSetup3(v) \/ FinishOnly(v)
      PROVE  VisitInv'
  <2>1. Finish(v) /\ UNCHANGED graph
    BY <1>4 DEF FinishSetup1, FinishSetup3, FinishOnly
  <2> QED
    BY <1>1, <2>1, FinishVisits
<1>5. CASE ConnectClips
  <2>1. Start(Output) /\ UNCHANGED graph
    BY <1>5 DEF ConnectClips
  <2> QED
    BY <1>1, <2>1, StartVisits
<1>6. CASE NextVisit
  <2>1. UNCHANGED graph /\ (Start(Output) \/ UNCHANGED <<stack, color>>)
    BY <1>6 DEF NextVisit, visitVars
  <2> QED
    BY <1>1, <1>2, <2>1, StartVisits
<1>7. ASSUME NEW g \in ClipGraphs, NEW deleted, Edit(g, deleted)
      PROVE  VisitInv'
  <2>1. graph' = g /\ stack' = <<>> /\ color' = [v \in g.vertices |-> "white"]
    BY <1>7 DEF Edit
  <2>2. \A e \in g.edges : e.in \in g.vertices
    BY EveryClipGraph DEF IsClipGraph, IsGraph
  <2>3. <<>> \in Seq(g.vertices) /\ Len(<<>>) = 0 /\ 1 .. 0 = {}
    OBVIOUS
  <2>4. color' \in [g.vertices -> Colors] /\ \A v \in g.vertices : color'[v] = "white"
    BY <2>1 DEF Colors
  <2> QED
    BY <2>1, <2>2, <2>3, <2>4 DEF VisitInv
<1>8. ASSUME NEW c, ConnectAtTime(c)
      PROVE  VisitInv'
  BY <1>2, <1>8 DEF ConnectAtTime, visitVars
<1>9. CASE UNCHANGED clipVars
  BY <1>2, <1>9 DEF clipVars, visitVars
<1> QED
  BY <1>3, <1>4, <1>5, <1>6, <1>7, <1>8, <1>9 DEF ClipNext

(* The colors that a step of a visit changes. *)
LEMMA DiscoverColors ==
  ASSUME VisitInv, NEW w \in graph.vertices, Discover(w)
  PROVE  /\ color[w] = "white" /\ Visiting /\ color[Top] = "gray"
         /\ \E e \in Needs(Top) : e.out = w
         /\ \A v \in graph.vertices : color'[v] = IF v = w THEN "gray" ELSE color[v]
<1>1. Visiting /\ color[w] = "white" /\ color' = [color EXCEPT ![w] = "gray"]
      /\ \E e \in Needs(Top) : e.out = w
  BY DEF Discover
<1>2. color[Top] = "gray"
  BY <1>1, TopIsGray
<1>3. color \in [graph.vertices -> Colors]
  BY DEF VisitInv
<1> QED
  BY <1>1, <1>2, <1>3

LEMMA FinishColors ==
  ASSUME ClipTypes, VisitInv, NEW v \in graph.vertices, Finish(v)
  PROVE  /\ color[v] = "gray"
         /\ \A e \in Needs(v) : color[e.out] = "black"
         /\ \A x \in graph.vertices : color'[x] = IF x = v THEN "black" ELSE color[x]
<1>1. Visiting /\ v = Top /\ color' = [color EXCEPT ![v] = "black"]
  BY DEF Finish
<1>2. color[v] = "gray"
  BY <1>1, TopIsGray
<1>3. color \in [graph.vertices -> Colors]
  BY DEF VisitInv
<1>4. IsGraph(graph) /\ IsFiniteSet(graph.vertices)
  BY DEF ClipTypes, IsClipGraph
<1>5. \A e \in Needs(v) : color[e.out] = "black"
  BY <1>4, InputsFinished
<1> QED
  BY <1>1, <1>2, <1>3, <1>5

LEMMA StepReached ==
  ASSUME ClipInv, [ClipNext]_clipVars
  PROVE  ReachedInv'
<1>1. /\ ClipTypes /\ VisitInv /\ ReachedInv /\ Output \in graph.vertices
      /\ \A e \in graph.edges : e.in \in graph.vertices
  BY EdgeFacts DEF ClipInv, ClipTypes, IsClipGraph
<1>2. \A v : UsesOf(v) \subseteq graph.edges
  BY DEF UsesOf
<1>3. ASSUME UNCHANGED graph, Settling' => Settling,
             \A v \in graph.vertices : Discovered(v)' <=> Discovered(v)
      PROVE  ReachedInv'
  <2>1. \A v : UsesOf(v)' = UsesOf(v)
    BY <1>3 DEF UsesOf
  <2> QED
    BY <1>1, <1>2, <1>3, <2>1 DEF ReachedInv
<1>4. CASE UNCHANGED clipVars
  <2>1. UNCHANGED <<graph, color, phase>>
    BY <1>4 DEF clipVars, visitVars
  <2> QED
    BY <1>3, <2>1 DEF Settling, Discovered
<1>5. ASSUME NEW g, NEW deleted, Edit(g, deleted)
      PROVE  ReachedInv'
  BY <1>5 DEF Edit, ReachedInv, Settling
<1>6. ASSUME UNCHANGED graph, Start(Output)
      PROVE  ReachedInv'
  <2>1. \A v \in graph.vertices : color'[v] = IF v = Output THEN "gray" ELSE "white"
    BY <1>6 DEF Start
  <2> QED
    BY <1>1, <1>6, <2>1 DEF ReachedInv, Discovered
<1>7. ASSUME NEW w \in graph.vertices, DiscoverSetup2(w) \/ DiscoverOnly(w)
      PROVE  ReachedInv'
  <2>1. Discover(w) /\ UNCHANGED <<graph, phase>>
    BY <1>7 DEF DiscoverSetup2, DiscoverOnly
  <2>2. /\ color[w] = "white" /\ color[Top] = "gray"
        /\ \A v \in graph.vertices : color'[v] = IF v = w THEN "gray" ELSE color[v]
    BY <1>1, <2>1, DiscoverColors
  <2>3. PICK f \in Needs(Top) : f.out = w
    BY <1>1, <2>1, DiscoverColors
  <2>4. f \in UsesOf(w) /\ Discovered(f.in)
    BY <2>2, <2>3 DEF Needs, UsesOf, Discovered
  <2>5. \A v \in graph.vertices : Discovered(v)' <=> v = w \/ Discovered(v)
    BY <2>2 DEF Discovered
  <2>6. \A v : UsesOf(v)' = UsesOf(v)
    BY <2>1 DEF UsesOf
  <2>7. Settling' <=> Settling
    BY <2>1 DEF Settling
  <2> QED
    BY <1>1, <1>2, <2>1, <2>4, <2>5, <2>6, <2>7 DEF ReachedInv
<1>8. ASSUME NEW v \in graph.vertices, FinishSetup1(v) \/ FinishSetup3(v) \/ FinishOnly(v)
      PROVE  ReachedInv'
  <2>1. Finish(v) /\ UNCHANGED graph /\ Settling
    BY <1>8 DEF FinishSetup1, FinishSetup3, FinishOnly, Settling
  <2>2. \A x \in graph.vertices : Discovered(x)' <=> Discovered(x)
    BY <1>1, <2>1, FinishColors DEF Discovered
  <2> QED
    BY <1>3, <2>1, <2>2
<1>9. CASE ConnectClips
  BY <1>6, <1>9 DEF ConnectClips
<1>10. CASE NextVisit
  <2>1. UNCHANGED graph /\ Settling /\ (Start(Output) \/ UNCHANGED color)
    BY <1>10 DEF NextVisit, visitVars, Settling
  <2> QED
    BY <1>3, <1>6, <2>1 DEF Discovered
<1>11. ASSUME NEW c, ConnectAtTime(c)
       PROVE  ReachedInv'
  BY <1>11 DEF ConnectAtTime, ReachedInv, Settling
<1> QED
  BY <1>4, <1>5, <1>7, <1>8, <1>9, <1>10, <1>11 DEF ClipNext


-----------------------------------------------------------------------------
(* The steps that change no depth.                                         *)

MainInv == SetupInv /\ UnhinderedInv

LEMMA SameUnhindered ==
  ASSUME UNCHANGED <<graph, kind>>
  PROVE  Unhindered' <=> Unhindered
BY DEF Unhindered, Needs

LEMMA SameLinked ==
  ASSUME UNCHANGED <<graph, link>>
  PROVE  Linked' <=> Linked
BY DEF Linked

LEMMA SameValues ==
  ASSUME UNCHANGED <<graph, kind, link, inDepth, outDepth, inComps, outComps>>
  PROVE  \A v : /\ IsPrepared(v)' <=> IsPrepared(v)
                /\ IsValid(v)' <=> IsValid(v)
                /\ IsOpen(v)' <=> IsOpen(v)
                /\ IsLevel(v)' <=> IsLevel(v)
                /\ IsOne(v)' <=> IsOne(v)
<1>1. \A v, c : ReadComps(v, c)' = ReadComps(v, c)
  BY DEF ReadComps, MostChromatic, Connected, ClipsOf, OnlyOf
<1>2. \A v : Needs(v)' = Needs(v)
  BY DEF Needs
<1>3. \A e : InClip(e)' = InClip(e)
  BY DEF InClip
<1>4. \A v : IsPrepared(v)' <=> IsPrepared(v)
  BY <1>1, <1>2 DEF IsPrepared, InClip
<1>5. \A v : IsValid(v)' <=> IsValid(v)
  BY <1>2 DEF IsValid, InClip
<1>6. \A v : IsOpen(v)' <=> IsOpen(v)
  BY <1>2 DEF IsOpen, InClip
<1>7. \A v : IsLevel(v)' <=> IsLevel(v)
  BY <1>2 DEF IsLevel
<1>8. \A v : IsOne(v)' <=> IsOne(v)
  BY <1>2 DEF IsOne, InClip
<1> QED
  BY <1>4, <1>5, <1>6, <1>7, <1>8

LEMMA KeptMain ==
  ASSUME MainInv, UNCHANGED <<graph, kind, link, inDepth, outDepth, inComps, outComps>>,
         \A v : Prepared(v)' => Prepared(v),
         \A v : Levelled(v)' => Levelled(v) \/ (Unhindered => IsLevel(v)),
         \A v : Validated(v)' => Validated(v)
  PROVE  MainInv'
<1>1. Unhindered' <=> Unhindered
  BY SameUnhindered
<1>2. SetupInv'
  BY SameValues DEF MainInv, SetupInv
<1>3. UnhinderedInv'
  BY <1>1, SameValues DEF MainInv, UnhinderedInv
<1> QED
  BY <1>2, <1>3 DEF MainInv

LEMMA PassiveVisits ==
  ASSUME ClipTypes, VisitInv, ReachedInv, Linked, MainInv, NEW v \in graph.vertices,
         DiscoverOnly(v) \/ FinishOnly(v)
  PROVE  MainInv'
<1>1. UNCHANGED <<graph, kind, link, phase, inDepth, outDepth, inComps, outComps>>
  BY DEF DiscoverOnly, FinishOnly, nodeVars, compsVars, depthVars
<1>2. CASE DiscoverOnly(v)
  <2>1. phase \in {"setup1", "setup3"} /\ Discover(v)
    BY <1>2 DEF DiscoverOnly
  <2>2. \A x \in graph.vertices : color'[x] = "black" => color[x] = "black"
    BY <2>1, DiscoverColors
  <2>3. \A x : Prepared(x)' => Prepared(x)
    BY <1>1, <2>2 DEF Prepared
  <2>4. \A x : Levelled(x)' => Levelled(x)
    BY <1>1, <2>1 DEF Levelled
  <2>5. \A x : Validated(x)' => Validated(x)
    BY <1>1, <2>2 DEF Validated
  <2> QED
    BY <1>1, <2>3, <2>4, <2>5, KeptMain
<1>3. CASE FinishOnly(v)
  <2>1. phase = "setup2" /\ Finish(v)
    BY <1>3 DEF FinishOnly
  <2>2. \A x \in graph.vertices : Discovered(x)' <=> Discovered(x)
    BY <2>1, FinishColors DEF Discovered
  <2>3. \A x : Prepared(x)' => Prepared(x)
    BY <1>1, <2>1 DEF Prepared
  <2>4. \A x : Levelled(x)' => Levelled(x)
    BY <1>1, <2>2 DEF Levelled
  <2>5. \A x : Validated(x)' => Validated(x)
    BY <1>1, <2>1 DEF Validated
  <2> QED
    BY <1>1, <2>3, <2>4, <2>5, KeptMain
<1> QED
  BY <1>2, <1>3

(* A visit that is over has prepared, levelled or validated every node. *)
LEMMA NextVisitKeeps ==
  ASSUME ClipTypes, VisitInv, ReachedInv, MainInv, NextVisit
  PROVE  MainInv'
<1>1. UNCHANGED <<graph, kind, link, inDepth, outDepth, inComps, outComps>> /\ Over /\ Settling
  BY DEF NextVisit, nodeVars, compsVars, depthVars, Settling
<1>2. \A v \in graph.vertices : color[v] = "black" /\ Discovered(v)
  BY <1>1, AllFinished DEF ReachedInv, Discovered
<1>3. \/ phase = "setup1" /\ phase' = "setup2" /\ Start(Output)
      \/ phase = "setup2" /\ phase' = "setup3" /\ Start(Output)
      \/ phase = "setup3" /\ phase' = "done"
  BY DEF NextVisit
<1>4. Start(Output) => \A v \in graph.vertices \ {Output} : ~Discovered(v)' /\ color'[v] # "black"
  BY DEF Start, Discovered
<1>5. \A v : Prepared(v)' => Prepared(v)
  BY <1>1, <1>2 DEF Prepared
<1>6. \A v : Levelled(v)' => Levelled(v)
  <2> SUFFICES ASSUME NEW v, Levelled(v)'
               PROVE  Levelled(v)
    OBVIOUS
  <2>1. v \in graph.vertices \ {Output}
    BY <1>1 DEF Levelled
  <2>2. phase # "setup1"
    BY <1>3, <1>4, <2>1 DEF Levelled
  <2> QED
    BY <1>2, <1>3, <2>1, <2>2 DEF Levelled
<1>7. \A v : Validated(v)' => Validated(v)
  <2> SUFFICES ASSUME NEW v, Validated(v)'
               PROVE  Validated(v)
    OBVIOUS
  <2>1. v \in graph.vertices \ {Output}
    BY <1>1 DEF Validated
  <2>2. phase = "setup3"
    BY <1>3, <1>4, <2>1 DEF Validated
  <2> QED
    BY <1>2, <2>1, <2>2 DEF Validated
<1> QED
  BY <1>1, <1>5, <1>6, <1>7, KeptMain

LEMMA ConnectKeeps ==
  ASSUME ClipTypes, ConnectClips
  PROVE  MainInv'
<1>1. phase' = "setup1" /\ Start(Output) /\ UNCHANGED graph
  BY DEF ConnectClips
<1>2. \A v \in graph.vertices : color'[v] # "black"
  BY <1>1 DEF Start
<1>3. \A v : ~Prepared(v)' /\ ~Levelled(v)' /\ ~Validated(v)'
  BY <1>1, <1>2 DEF Prepared, Levelled, Validated
<1> QED
  BY <1>3 DEF MainInv, SetupInv, UnhinderedInv

-----------------------------------------------------------------------------
(* Setup1 prepares a node from inputs that are prepared.                   *)

(* What Prefer changes, and that it changes nothing of the inputs of v nor *)
(* of a node finished before.                                              *)
LEMMA Setup1Changes ==
  ASSUME ClipTypes, NEW v \in Nodes, Prefer(v), ~DepthNotSupported(v)
  PROVE  /\ \A u \in Nodes : u # v => outDepth'[u] = outDepth[u] /\ outComps'[u] = outComps[u]
         /\ outDepth'[v] = WrittenDepth(v, PreferredDepth(v), kind[v].depth # NoDepth)
         /\ \A c \in Clips : c[1] # v => inDepth'[c] = inDepth[c] /\ inComps'[c] = inComps[c]
         /\ \A c \in Connected(v) : inDepth'[c] = ReadDepth(v, c, NoDepth) /\ inComps'[c] = ReadComps(v, c)
<1>1. \A c \in Connected(v) : c \in Clips /\ c[1] = v
  BY DeepestType DEF Connected, ClipsOf
<1>2. \A c \in Clips : c \in ClipsOf(v) => c[1] = v
  BY DEF ClipsOf
<1>3. \A u \in Nodes : u # v => outDepth'[u] = outDepth[u] /\ outComps'[u] = outComps[u]
  BY DEF Prefer, ClipTypes
<1>4. outDepth'[v] = WrittenDepth(v, PreferredDepth(v), kind[v].depth # NoDepth)
  BY DEF Prefer, ClipTypes
<1>5. ASSUME NEW c \in Clips, c[1] # v
      PROVE  inDepth'[c] = inDepth[c] /\ inComps'[c] = inComps[c]
  <2>1. c \notin Connected(v) /\ c \notin ClipsOf(v)
    BY <1>1, <1>2, <1>5
  <2> QED
    BY <1>5, <2>1 DEF Prefer, Reset
<1>6. ASSUME NEW c \in Connected(v)
      PROVE  inDepth'[c] = ReadDepth(v, c, NoDepth) /\ inComps'[c] = ReadComps(v, c)
  BY <1>1 DEF Prefer
<1> QED
  BY <1>3, <1>4, <1>5, <1>6

(* Components are read from the inputs only. *)
LEMMA SameReadComps ==
  ASSUME ClipTypes, Linked, UNCHANGED <<graph, kind, link>>, NEW v \in graph.vertices, v # Output,
         \A e \in Needs(v) : outComps'[e.out] = outComps[e.out]
  PROVE  \A c \in Connected(v) : ReadComps(v, c)' = ReadComps(v, c)
<1>1. \A c \in Connected(v) : outComps'[link[c]] = outComps[link[c]]
  BY ConnectedEdge
<1>2. Connected(v)' = Connected(v)
  BY DEF Connected, ClipsOf
<1>3. {outComps[link[c]] : c \in Connected(v)}' = {outComps[link[c]] : c \in Connected(v)}
  BY <1>1, <1>2
<1>4. MostChromatic(v)' = MostChromatic(v)
  BY <1>3 DEF MostChromatic
<1> QED
  BY <1>1, <1>4 DEF ReadComps, OnlyOf

(* The depth that a node without a preference writes. *)
LEMMA NewDepth ==
  ASSUME ClipTypes, Linked, NEW v \in graph.vertices, v # Output,
         \A e \in Needs(v) : outDepth[e.out] # NoDepth
  PROVE  LET d == WrittenDepth(v, PreferredDepth(v), kind[v].depth # NoDepth)
         IN  /\ d # NoDepth
             /\ Needs(v) # {} => d \in kind[v].depths
             /\ Needs(v) # {} /\ kind[v].depth = NoDepth /\ kind[v].depths = RealDepths => d = Deepest(v)
             /\ Needs(v) # {} => Deepest(v) # NoDepth
<1>1. v \in Nodes
  BY DEF ClipTypes, IsClipGraph
<1>2. /\ kind[v].depths \subseteq RealDepths /\ kind[v].depth \in kind[v].depths \cup {NoDepth}
  BY <1>1, KindFacts
<1>3. /\ Deepest(v) \in Depths
      /\ \A e \in Needs(v) : outDepth[e.out] <= Deepest(v)
      /\ Needs(v) = {} => Deepest(v) = NoDepth
  BY DeepestFacts
<1>4. Needs(v) # {} => Deepest(v) # NoDepth
  <2> SUFFICES ASSUME NEW e \in Needs(v)
               PROVE  Deepest(v) # NoDepth
    OBVIOUS
  <2>1. outDepth[e.out] \in Depths /\ outDepth[e.out] # NoDepth
    BY EdgeFacts DEF Needs, ClipTypes
  <2>2. outDepth[e.out] \in Int /\ NoDepth < outDepth[e.out] /\ NoDepth \in Int
    BY <2>1, DepthsFinite
  <2>3. Deepest(v) \in Int
    BY <1>3, DepthsFinite
  <2> QED
    BY <1>3, <2>2, <2>3
<1>5. /\ BestDepth(v, Deepest(v)) \in kind[v].depths \cup {NoDepth} /\ BestDepth(v, Deepest(v)) \in Depths
      /\ BestDepth(v, Deepest(v)) = NoDepth <=> Deepest(v) = NoDepth
      /\ kind[v].depths = RealDepths => BestDepth(v, Deepest(v)) = Deepest(v)
  BY <1>1, <1>3, BestDepthFacts
<1>6. CASE kind[v].depth # NoDepth
  BY <1>2, <1>4, <1>6 DEF WrittenDepth, PreferredDepth
<1>7. CASE kind[v].depth = NoDepth /\ Needs(v) = {}
  <2>1. PreferredDepth(v) = Float /\ Deepest(v) = NoDepth
    BY <1>3, <1>7, ConnectedIffNeeds DEF PreferredDepth
  <2>2. WrittenDepth(v, PreferredDepth(v), FALSE) = Upper(Float, NoDepth)
    BY <1>5, <2>1 DEF WrittenDepth
  <2>3. Upper(Float, NoDepth) = Float /\ Float # NoDepth
    BY DEF Upper, Float, NoDepth
  <2> QED
    BY <1>7, <2>2, <2>3
<1>8. CASE kind[v].depth = NoDepth /\ Needs(v) # {}
  <2>1. PreferredDepth(v) = NoDepth
    BY <1>8, ConnectedIffNeeds DEF PreferredDepth
  <2> DEFINE best == BestDepth(v, Deepest(v))
  <2>2. best # NoDepth /\ best \in kind[v].depths /\ best \in Depths
    BY <1>4, <1>5, <1>8
  <2>3. WrittenDepth(v, PreferredDepth(v), FALSE) = Upper(NoDepth, best)
    BY <2>1 DEF WrittenDepth
  <2> HIDE DEF best
  <2>4. NoDepth <= best
    BY <2>2 DEF Depths, RealDepths, NoDepth, Byte, Short, Float
  <2>5. Upper(NoDepth, best) = best
    BY <2>2, <2>4, UpperFacts, DepthsFinite
  <2> QED
    BY <1>4, <1>5, <1>8, <2>2, <2>3, <2>5 DEF best
<1> QED
  BY <1>6, <1>7, <1>8


LEMMA Setup1Keeps ==
  ASSUME ClipTypes, VisitInv, Linked, MainInv, NEW v \in graph.vertices, v # Output,
         FinishSetup1(v), phase' = "setup1"
  PROVE  MainInv'
<1>1. /\ phase = "setup1" /\ Finish(v) /\ Setup1(v) /\ v \in Nodes
      /\ UNCHANGED <<graph, kind, link, phase>>
  BY DEF FinishSetup1, nodeVars, ClipTypes, IsClipGraph
<1>2. Prefer(v) /\ ~DepthNotSupported(v)
  BY <1>1 DEF Setup1, NoPreferences, Prefer
<1>3. /\ \A u \in Nodes : u # v => outDepth'[u] = outDepth[u] /\ outComps'[u] = outComps[u]
      /\ outDepth'[v] = WrittenDepth(v, PreferredDepth(v), kind[v].depth # NoDepth)
      /\ \A c \in Clips : c[1] # v => inDepth'[c] = inDepth[c] /\ inComps'[c] = inComps[c]
      /\ \A c \in Connected(v) : inDepth'[c] = ReadDepth(v, c, NoDepth) /\ inComps'[c] = ReadComps(v, c)
  BY <1>1, <1>2, Setup1Changes
<1>4. /\ color[v] = "gray" /\ \A e \in Needs(v) : color[e.out] = "black"
      /\ \A x \in graph.vertices : color'[x] = IF x = v THEN "black" ELSE color[x]
  BY <1>1, FinishColors
<1>5. ASSUME NEW x \in graph.vertices, x = v \/ color[x] = "black", NEW e \in Needs(x)
      PROVE  /\ e \in graph.edges /\ e.in = x /\ e.out \in Nodes /\ e.out # v
             /\ e.out \in graph.vertices \ {Output} /\ color[e.out] = "black"
             /\ outDepth[e.out] \in Depths /\ outDepth[e.out] # NoDepth
             /\ outDepth'[e.out] = outDepth[e.out] /\ outComps'[e.out] = outComps[e.out]
  <2>1. e \in graph.edges /\ e.in = x
    BY DEF Needs
  <2>2. e.out \in Nodes /\ e.out \in graph.vertices \ {Output}
    BY <2>1, EdgeFacts
  <2>3. color[e.out] = "black"
    BY <1>4, <1>5, <2>1 DEF VisitInv
  <2>4. Prepared(e.out)
    BY <2>2, <2>3 DEF Prepared
  <2>5. outDepth[e.out] # NoDepth
    BY <2>4 DEF MainInv, SetupInv, IsPrepared
  <2>6. e.out # v
    BY <1>4, <2>3
  <2>7. outDepth[e.out] \in Depths
    BY <2>2 DEF ClipTypes
  <2>8. outDepth'[e.out] = outDepth[e.out] /\ outComps'[e.out] = outComps[e.out]
    BY <1>3, <2>2, <2>6
  <2> QED
    BY <2>1, <2>2, <2>3, <2>5, <2>6, <2>7, <2>8
<1>6. \A x \in graph.vertices \ {Output} : Prepared(x)' => x = v \/ (Prepared(x) /\ color[x] = "black")
  <2> SUFFICES ASSUME NEW x \in graph.vertices \ {Output}, Prepared(x)', x # v
               PROVE  Prepared(x) /\ color[x] = "black"
    OBVIOUS
  <2>1. color'[x] = "black"
    BY <1>1 DEF Prepared
  <2>2. color[x] = "black"
    BY <1>4, <2>1
  <2> QED
    BY <2>2 DEF Prepared
<1>7. \A x : Needs(x)' = Needs(x)
  BY <1>1 DEF Needs
<1>8. /\ outDepth'[v] # NoDepth
      /\ Needs(v) # {} => outDepth'[v] \in kind[v].depths /\ Deepest(v) # NoDepth
      /\ Needs(v) # {} /\ kind[v].depth = NoDepth /\ kind[v].depths = RealDepths => outDepth'[v] = Deepest(v)
  BY <1>3, <1>5, NewDepth
<1>9. ASSUME NEW e \in Needs(v)
      PROVE  /\ InClip(e) \in Connected(v)
             /\ inDepth'[InClip(e)] = ReadDepth(v, InClip(e), NoDepth)
             /\ inComps'[InClip(e)] = ReadComps(v, InClip(e))
  <2>1. e \in graph.edges /\ e.in = v
    BY DEF Needs
  <2>2. InClip(e) \in Connected(v)
    BY <2>1, LinkedEdge
  <2> QED
    BY <1>3, <2>2
<1>10. ASSUME NEW x \in graph.vertices \ {Output}, x # v, NEW e \in Needs(x)
       PROVE  inDepth'[InClip(e)] = inDepth[InClip(e)] /\ inComps'[InClip(e)] = inComps[InClip(e)]
  <2>1. InClip(e) \in Clips /\ InClip(e)[1] = x
    BY <1>10, EdgeFacts DEF InClip, Needs
  <2> QED
    BY <1>3, <1>10, <2>1
<1>11. ASSUME NEW x \in graph.vertices \ {Output}, x = v \/ color[x] = "black", NEW e \in Needs(x)
       PROVE  ReadComps(x, InClip(e))' = ReadComps(x, InClip(e))
  <2>1. \A f \in Needs(x) : outComps'[f.out] = outComps[f.out]
    BY <1>5, <1>11
  <2>2. InClip(e) \in Connected(x)
    BY LinkedEdge DEF Needs
  <2>3. \A c \in Connected(x) : ReadComps(x, c)' = ReadComps(x, c)
    BY <1>1, <2>1, SameReadComps
  <2>4. InClip(e)' = InClip(e)
    BY DEF InClip
  <2> QED
    BY <2>2, <2>3, <2>4
<1>12. ASSUME NEW x \in graph.vertices \ {Output}, Prepared(x)'
       PROVE  IsPrepared(x)'
  <2>1. CASE x = v
    <3>1. \A e \in Needs(v) : inDepth'[InClip(e)] \in kind[v].depths \cup {NoDepth}
      <4> SUFFICES ASSUME NEW e \in Needs(v)
                   PROVE  inDepth'[InClip(e)] \in kind[v].depths \cup {NoDepth}
        OBVIOUS
      <4>1. e \in graph.edges /\ e.in = v
        BY DEF Needs
      <4>2. ReadDepth(v, InClip(e), NoDepth) \in kind[v].depths \cup {NoDepth}
        BY <4>1, ReadDepthFacts
      <4> QED
        BY <1>9, <4>2
    <3>2. \A e \in Needs(v) : inComps'[InClip(e)] = ReadComps(v, InClip(e))'
      BY <1>9, <1>11
    <3> QED
      BY <1>1, <1>7, <1>8, <2>1, <3>1, <3>2 DEF IsPrepared, InClip
  <2>2. CASE x # v
    <3>1. Prepared(x) /\ color[x] = "black" /\ x \in Nodes
      BY <1>6, <1>12, <2>2 DEF ClipTypes, IsClipGraph
    <3>2. IsPrepared(x)
      BY <3>1 DEF MainInv, SetupInv
    <3>3. outDepth'[x] = outDepth[x]
      BY <1>3, <2>2, <3>1
    <3>4. \A e \in Needs(x) : /\ inDepth'[InClip(e)] = inDepth[InClip(e)]
                              /\ inComps'[InClip(e)] = inComps[InClip(e)]
                              /\ ReadComps(x, InClip(e))' = ReadComps(x, InClip(e))
      BY <1>10, <1>11, <2>2, <3>1
    <3> QED
      BY <1>1, <1>7, <3>2, <3>3, <3>4 DEF IsPrepared, InClip
  <2> QED
    BY <2>1, <2>2
<1>13. ASSUME Unhindered, NEW x \in graph.vertices \ {Output}, Prepared(x)'
       PROVE  IsOpen(x)'
  <2>1. CASE x = v
    <3> SUFFICES ASSUME NEW e \in Needs(v)
                 PROVE  /\ outDepth'[e.out] <= outDepth'[v]
                        /\ ~kind[v].multi => inDepth'[InClip(e)] <= outDepth'[v]
      BY <1>1, <1>7, <2>1 DEF IsOpen, InClip
    <3>1. kind[v].depths = RealDepths /\ kind[v].depth = NoDepth
      BY <1>13, <2>1 DEF Unhindered
    <3>2. outDepth'[v] = Deepest(v) /\ Deepest(v) # NoDepth
      BY <1>8, <3>1
    <3>3. outDepth[e.out] <= Deepest(v) /\ Deepest(v) \in Depths
      BY DeepestFacts
    <3>4. outDepth'[e.out] = outDepth[e.out]
      BY <1>5
    <3>5. ASSUME ~kind[v].multi
          PROVE  inDepth'[InClip(e)] <= outDepth'[v]
      <4>1. kind[e.out].depths = RealDepths
        BY <1>5, <1>13 DEF Unhindered
      <4>2. e \in graph.edges /\ e.in = v
        BY DEF Needs
      <4>3. ReadDepth(v, InClip(e), NoDepth) = Upper(NoDepth, Deepest(v))
        BY <3>1, <3>2, <3>5, <4>1, <4>2, OneReadDepth
      <4>4. Deepest(v) \in Int /\ NoDepth <= Deepest(v)
        BY <3>3 DEF Depths, RealDepths, NoDepth, Byte, Short, Float
      <4>5. Upper(NoDepth, Deepest(v)) = Deepest(v)
        BY <3>3, <4>4, UpperFacts, DepthsFinite
      <4> QED
        BY <1>9, <3>2, <4>3, <4>4, <4>5
    <3> QED
      BY <3>2, <3>3, <3>4, <3>5
  <2>2. CASE x # v
    <3>1. Prepared(x) /\ color[x] = "black" /\ x \in Nodes
      BY <1>6, <1>13, <2>2 DEF ClipTypes, IsClipGraph
    <3>2. IsOpen(x)
      BY <1>13, <3>1 DEF MainInv, UnhinderedInv
    <3>3. outDepth'[x] = outDepth[x]
      BY <1>3, <2>2, <3>1
    <3>4. \A e \in Needs(x) : /\ inDepth'[InClip(e)] = inDepth[InClip(e)]
                              /\ outDepth'[e.out] = outDepth[e.out]
      BY <1>5, <1>10, <2>2, <3>1
    <3> QED
      BY <1>1, <1>7, <3>2, <3>3, <3>4 DEF IsOpen, InClip
  <2> QED
    BY <2>1, <2>2
<1>14. \A x : /\ Prepared(x)' => x \in graph.vertices \ {Output}
              /\ ~Levelled(x)' /\ ~Validated(x)'
  BY <1>1 DEF Prepared, Levelled, Validated
<1>15. Unhindered' <=> Unhindered
  BY <1>1, SameUnhindered
<1>16. SetupInv'
  BY <1>12, <1>14 DEF SetupInv
<1>17. UnhinderedInv'
  BY <1>13, <1>14, <1>15 DEF UnhinderedInv
<1> QED
  BY <1>16, <1>17 DEF MainInv

-----------------------------------------------------------------------------
(* Setup2 raises the inputs of a node of one depth.                        *)

LEMMA Setup2Changes ==
  ASSUME ClipTypes, Linked, NEW w \in graph.vertices, w # Output, DiscoverSetup2(w)
  PROVE  /\ \A u \in Nodes : outDepth'[u] = IF u \in RaisedBy(w) THEN outDepth[w] ELSE outDepth[u]
         /\ \A u \in RaisedBy(w) : /\ ~kind[w].multi /\ \E e \in Needs(w) : e.out = u
                                  /\ outDepth[w] \in kind[u].depths /\ outDepth[w] > outDepth[u]
         /\ \A e \in Needs(w) :
              /\ ~kind[w].multi /\ outDepth[w] \in kind[e.out].depths /\ outDepth[w] > outDepth[e.out]
              /\ kind[e.out].multi \/ ~byPlugin[e.out]
              => e.out \in RaisedBy(w)
<1>1. \A c \in Connected(w) : \E e \in Needs(w) : link[c] = e.out
  BY ConnectedEdge
<1>2. \A e \in Needs(w) : InClip(e) \in Connected(w) /\ link[InClip(e)] = e.out
  BY LinkedEdge DEF Needs
<1>3. \A u \in Nodes : outDepth'[u] = IF u \in RaisedBy(w) THEN outDepth[w] ELSE outDepth[u]
  BY DEF DiscoverSetup2
<1>4. \A u \in RaisedBy(w) : /\ ~kind[w].multi /\ \E e \in Needs(w) : e.out = u
                            /\ outDepth[w] \in kind[u].depths /\ outDepth[w] > outDepth[u]
  BY <1>1 DEF RaisedBy
<1>5. ASSUME NEW e \in Needs(w), ~kind[w].multi, outDepth[w] \in kind[e.out].depths,
             outDepth[w] > outDepth[e.out], kind[e.out].multi \/ ~byPlugin[e.out]
      PROVE  e.out \in RaisedBy(w)
  <2>1. e.out \in {link[c] : c \in Connected(w)}
    BY <1>2
  <2> QED
    BY <1>5, <2>1 DEF RaisedBy
<1> QED
  BY <1>3, <1>4, <1>5

LEMMA Setup2Keeps ==
  ASSUME ClipTypes, VisitInv, ReachedInv, Linked, MainInv, NEW w \in graph.vertices, DiscoverSetup2(w)
  PROVE  MainInv'
<1>1. /\ phase = "setup2" /\ Discover(w)
      /\ UNCHANGED <<graph, kind, link, phase, inDepth, inComps, outComps>>
  BY DEF DiscoverSetup2, nodeVars, compsVars
<1>2. color[w] = "white" /\ \A v \in graph.vertices : color'[v] = IF v = w THEN "gray" ELSE color[v]
  BY <1>1, DiscoverColors
<1>3. w # Output /\ w \in Nodes
  BY <1>1, <1>2 DEF ReachedInv, Settling, Discovered, ClipTypes, IsClipGraph
<1>4. /\ \A u \in Nodes : outDepth'[u] = IF u \in RaisedBy(w) THEN outDepth[w] ELSE outDepth[u]
      /\ \A u \in RaisedBy(w) : /\ ~kind[w].multi /\ \E e \in Needs(w) : e.out = u
                               /\ outDepth[w] \in kind[u].depths /\ outDepth[w] > outDepth[u]
  BY <1>3, Setup2Changes
<1>5. \A u \in Nodes : outDepth[u] \in Depths /\ outDepth[u] \in Int
  BY DepthsFinite DEF ClipTypes
<1>6. \A u \in Nodes : outDepth[u] <= outDepth'[u]
  BY <1>3, <1>4, <1>5
<1>7. \A x : Prepared(x)' <=> Prepared(x)
  BY <1>1 DEF Prepared
<1>8. \A x : Prepared(x) => x \in Nodes /\ x \in graph.vertices \ {Output}
  BY DEF Prepared, ClipTypes, IsClipGraph
<1>9. \A x : Needs(x)' = Needs(x)
  BY <1>1 DEF Needs
<1>10. \A x \in graph.vertices \ {Output} : \A c : ReadComps(x, c)' = ReadComps(x, c)
  BY <1>1 DEF ReadComps, MostChromatic, Connected, ClipsOf, OnlyOf
<1>11. \A x : Prepared(x) => IsPrepared(x)'
  <2> SUFFICES ASSUME NEW x, Prepared(x)
               PROVE  IsPrepared(x)'
    OBVIOUS
  <2>1. IsPrepared(x) /\ x \in Nodes /\ x \in graph.vertices \ {Output}
    BY <1>8 DEF MainInv, SetupInv
  <2>2. outDepth'[x] # NoDepth /\ (Needs(x) # {} => outDepth'[x] \in kind[x].depths)
    <3>1. CASE x \in RaisedBy(w)
      <4>1. outDepth'[x] = outDepth[w] /\ outDepth[w] \in kind[x].depths
        BY <1>4, <2>1, <3>1
      <4>2. kind[x].depths \subseteq RealDepths
        BY <2>1, KindFacts
      <4> QED
        BY <4>1, <4>2, DepthsFinite
    <3>2. CASE x \notin RaisedBy(w)
      BY <1>4, <2>1, <3>2 DEF IsPrepared
    <3> QED
      BY <3>1, <3>2
  <2> QED
    BY <1>1, <1>9, <1>10, <2>1, <2>2 DEF IsPrepared, InClip
<1>12. ASSUME Unhindered, NEW x \in graph.vertices \ {Output}, x # w, NEW e \in Needs(x)
       PROVE  outDepth'[e.out] = outDepth[e.out]
  <2>1. e \in graph.edges /\ e.in = x /\ e.out \in Nodes
    BY EdgeFacts DEF Needs
  <2>2. e.out \notin RaisedBy(w)
    <3> SUFFICES ASSUME e.out \in RaisedBy(w)
                 PROVE  FALSE
      OBVIOUS
    <3>1. PICK f \in Needs(w) : f.out = e.out
      BY <1>4
    <3> QED
      BY <1>12, <2>1, <3>1 DEF Unhindered, Needs
  <2> QED
    BY <1>4, <2>1, <2>2
<1>13. outDepth'[w] = outDepth[w]
  <2>1. w \notin RaisedBy(w)
    BY <1>3, <1>4, <1>5
  <2> QED
    BY <1>3, <1>4, <2>1
<1>14. ASSUME Unhindered, NEW e \in Needs(w)
       PROVE  /\ outDepth'[e.out] <= outDepth[w]
              /\ ~kind[w].multi => outDepth'[e.out] = outDepth[w]
  <2>1. e \in graph.edges /\ e.in = w /\ e.out \in Nodes /\ e.out \in graph.vertices \ {Output}
    BY EdgeFacts DEF Needs
  <2>2. outDepth[e.out] <= outDepth[w]
    <3>1. Prepared(w)
      BY <1>1, <1>3 DEF Prepared
    <3> QED
      BY <1>14, <3>1 DEF MainInv, UnhinderedInv, IsOpen
  <2>3. outDepth'[e.out] <= outDepth[w]
    BY <1>3, <1>4, <1>5, <2>1, <2>2
  <2>4. ASSUME ~kind[w].multi
        PROVE  outDepth'[e.out] = outDepth[w]
    <3>1. CASE e.out \in RaisedBy(w)
      BY <1>4, <2>1, <3>1
    <3>2. CASE e.out \notin RaisedBy(w)
      <4>1. outDepth[w] \in RealDepths
        <5>1. Prepared(w)
          BY <1>1, <1>3 DEF Prepared
        <5> QED
          BY <1>3, <1>5, <5>1, DepthsFinite DEF MainInv, SetupInv, IsPrepared
      <4>2. kind[e.out].depths = RealDepths /\ (kind[e.out].depth = NoDepth \/ kind[e.out].multi)
        BY <1>14, <2>1 DEF Unhindered
      <4>3. kind[e.out].multi \/ ~byPlugin[e.out]
        BY <2>1, <4>2 DEF ClipTypes
      <4>4. ~ (outDepth[w] > outDepth[e.out])
        BY <1>3, <2>4, <3>2, <4>1, <4>2, <4>3, Setup2Changes
      <4> QED
        BY <1>3, <1>4, <1>5, <2>1, <2>2, <3>2, <4>4
    <3> QED
      BY <3>1, <3>2
  <2> QED
    BY <2>3, <2>4
<1>15. ASSUME Unhindered, NEW x, Prepared(x)
       PROVE  IsOpen(x)'
  <2>1. x \in Nodes /\ x \in graph.vertices \ {Output} /\ IsOpen(x)
    BY <1>8, <1>15 DEF MainInv, UnhinderedInv
  <2> SUFFICES ASSUME NEW e \in Needs(x)
               PROVE  /\ outDepth'[e.out] <= outDepth'[x]
                      /\ ~kind[x].multi => inDepth[InClip(e)] <= outDepth'[x]
    BY <1>1, <1>9 DEF IsOpen, InClip
  <2>2. /\ outDepth[e.out] <= outDepth[x]
        /\ ~kind[x].multi => inDepth[InClip(e)] <= outDepth[x]
    BY <2>1 DEF IsOpen
  <2>3. /\ e \in graph.edges /\ e.in = x /\ e.out \in Nodes /\ InClip(e) \in Clips
    BY <2>1, EdgeFacts DEF Needs, InClip
  <2>4. /\ outDepth[x] <= outDepth'[x] /\ outDepth[x] \in Int /\ outDepth'[x] \in Int
        /\ outDepth[e.out] \in Int /\ inDepth[InClip(e)] \in Int
    <3>1. outDepth'[x] \in Int
      BY <1>3, <1>4, <1>5, <2>1
    <3>2. inDepth[InClip(e)] \in Depths
      BY <2>3 DEF ClipTypes
    <3> QED
      BY <1>5, <1>6, <2>1, <2>3, <3>1, <3>2, DepthsFinite
  <2>5. CASE x = w
    <3>1. outDepth'[x] = outDepth[x]
      BY <1>13, <2>5
    <3>2. e \in Needs(w)
      BY <2>5
    <3>3. outDepth'[e.out] <= outDepth[x]
      BY <1>14, <1>15, <2>5, <3>2
    <3> QED
      BY <2>2, <3>1, <3>3
  <2>6. CASE x # w
    <3>1. outDepth'[e.out] = outDepth[e.out]
      BY <1>12, <1>15, <2>1, <2>6
    <3>2. outDepth'[e.out] <= outDepth'[x]
      BY <2>2, <2>4, <3>1
    <3>3. ~kind[x].multi => inDepth[InClip(e)] <= outDepth'[x]
      BY <2>2, <2>4
    <3> QED
      BY <3>2, <3>3
  <2> QED
    BY <2>5, <2>6
<1>16. ASSUME Unhindered, NEW x, Levelled(x)'
       PROVE  IsLevel(x)'
  <2>1. x \in graph.vertices \ {Output} /\ x \in Nodes
    BY <1>1, <1>16 DEF Levelled, ClipTypes, IsClipGraph
  <2> SUFFICES ASSUME ~kind[x].multi, NEW e \in Needs(x)
               PROVE  outDepth'[e.out] = outDepth'[x]
    BY <1>1, <1>9 DEF IsLevel
  <2>2. CASE x = w
    BY <1>13, <1>14, <1>16, <2>2
  <2>3. CASE x # w
    <3>1. Discovered(x) /\ Levelled(x)
      BY <1>1, <1>2, <1>16, <2>1, <2>3 DEF Levelled, Discovered
    <3>2. outDepth[e.out] = outDepth[x]
      BY <1>16, <3>1 DEF MainInv, UnhinderedInv, IsLevel
    <3>3. outDepth'[e.out] = outDepth[e.out]
      BY <1>12, <1>16, <2>1, <2>3
    <3>4. x \notin RaisedBy(w)
      <4> SUFFICES ASSUME x \in RaisedBy(w)
                   PROVE  FALSE
        OBVIOUS
      <4>1. PICK f \in Needs(w) : f.out = x
        BY <1>4
      <4>2. PICK h \in UsesOf(x) : Discovered(h.in)
        BY <1>1, <2>1, <3>1 DEF ReachedInv, Settling
      <4>3. f \in graph.edges /\ h \in graph.edges /\ f.out = h.out /\ f.in = w
        BY <4>1 DEF Needs, UsesOf
      <4>4. h.in = w
        BY <1>16, <4>3 DEF Unhindered
      <4> QED
        BY <1>2, <4>2, <4>4 DEF Discovered
    <3>5. outDepth'[x] = outDepth[x]
      BY <1>4, <2>1, <3>4
    <3> QED
      BY <3>2, <3>3, <3>5
  <2> QED
    BY <2>2, <2>3
<1>17. \A x : ~Validated(x)'
  BY <1>1 DEF Validated
<1>18. Unhindered' <=> Unhindered
  BY <1>1, SameUnhindered
<1>19. SetupInv'
  BY <1>7, <1>11, <1>17 DEF SetupInv
<1>20. UnhinderedInv'
  BY <1>7, <1>15, <1>16, <1>17, <1>18 DEF UnhinderedInv
<1> QED
  BY <1>19, <1>20 DEF MainInv

-----------------------------------------------------------------------------
(* Setup3 validates a node: its inputs are done with.                      *)

LEMMA Setup3Changes ==
  ASSUME ClipTypes, NEW v \in Nodes, Setup3(v), ~DepthNotSupported(v)
  PROVE  /\ \A u \in Nodes : u # v => outDepth'[u] = outDepth[u]
         /\ outDepth'[v] = WrittenDepth(v, outDepth[v], byPlugin[v])
         /\ \A c \in Clips : c[1] # v => inDepth'[c] = inDepth[c]
         /\ \A c \in Connected(v) : inDepth'[c] = ReadDepth(v, c, inDepth[c])
<1>1. \A c \in Connected(v) : c \in Clips /\ c[1] = v
  BY DeepestType DEF Connected, ClipsOf
<1>2. /\ inDepth' = [c \in Clips |-> IF c \in Connected(v) THEN ReadDepth(v, c, inDepth[c])
                                     ELSE inDepth[c]]
      /\ outDepth' = [outDepth EXCEPT ![v] = WrittenDepth(v, outDepth[v], byPlugin[v])]
  BY DEF Setup3
<1>3. \A c \in Clips : c[1] # v => inDepth'[c] = inDepth[c]
  BY <1>1, <1>2
<1>4. \A c \in Connected(v) : inDepth'[c] = ReadDepth(v, c, inDepth[c])
  BY <1>1, <1>2
<1> QED
  BY <1>2, <1>3, <1>4 DEF ClipTypes

(* The depth that a prepared node writes stays one that it supports, and   *)
(* is kept when no input is deeper.                                        *)
LEMMA KeptDepth ==
  ASSUME ClipTypes, Linked, NEW v \in graph.vertices, v # Output, IsPrepared(v)
  PROVE  LET d == WrittenDepth(v, outDepth[v], byPlugin[v])
         IN  /\ d # NoDepth
             /\ Needs(v) # {} => d \in kind[v].depths
             /\ kind[v].depths = RealDepths /\ Deepest(v) <= outDepth[v] => d = outDepth[v]
<1> DEFINE best == BestDepth(v, Deepest(v))
           d == WrittenDepth(v, outDepth[v], byPlugin[v])
<1>1. v \in Nodes /\ outDepth[v] \in Depths
  BY DEF ClipTypes, IsClipGraph
<1>2. Deepest(v) \in Depths /\ (Needs(v) = {} => Deepest(v) = NoDepth)
  BY DeepestFacts
<1>3. /\ best \in kind[v].depths \cup {NoDepth} /\ best \in Depths
      /\ Deepest(v) = NoDepth => best = NoDepth
      /\ kind[v].depths = RealDepths => best = Deepest(v)
  BY <1>1, <1>2, BestDepthFacts
<1>4. d = IF byPlugin[v] THEN outDepth[v] ELSE Upper(outDepth[v], best)
  BY DEF WrittenDepth
<1>5. outDepth[v] # NoDepth /\ (Needs(v) # {} => outDepth[v] \in kind[v].depths)
  BY DEF IsPrepared
<1> HIDE DEF best, d
<1>6. /\ Upper(outDepth[v], best) \in {outDepth[v], best} /\ Upper(outDepth[v], best) # NoDepth
      /\ best <= outDepth[v] => Upper(outDepth[v], best) = outDepth[v]
  BY <1>1, <1>3, <1>5, UpperFacts
<1>7. d # NoDepth /\ d \in {outDepth[v], best}
  BY <1>4, <1>5, <1>6
<1>8. Needs(v) # {} => d \in kind[v].depths
  BY <1>3, <1>5, <1>7
<1>9. kind[v].depths = RealDepths /\ Deepest(v) <= outDepth[v] => d = outDepth[v]
  BY <1>3, <1>4, <1>6
<1> QED
  BY <1>7, <1>8, <1>9 DEF d

LEMMA Setup3Keeps ==
  ASSUME ClipTypes, VisitInv, Linked, MainInv, NEW v \in graph.vertices, v # Output,
         FinishSetup3(v), phase' = "setup3"
  PROVE  MainInv'
<1>1. /\ phase = "setup3" /\ Finish(v) /\ Setup3(v) /\ v \in Nodes
      /\ UNCHANGED <<graph, kind, link, phase, inComps, outComps>>
  BY DEF FinishSetup3, nodeVars, compsVars, ClipTypes, IsClipGraph
<1>2. ~DepthNotSupported(v) /\ Agrees(v)
  BY <1>1 DEF Setup3
<1>3. /\ \A u \in Nodes : u # v => outDepth'[u] = outDepth[u]
      /\ outDepth'[v] = WrittenDepth(v, outDepth[v], byPlugin[v])
      /\ \A c \in Clips : c[1] # v => inDepth'[c] = inDepth[c]
      /\ \A c \in Connected(v) : inDepth'[c] = ReadDepth(v, c, inDepth[c])
  BY <1>1, <1>2, Setup3Changes
<1>4. /\ color[v] = "gray"
      /\ \A x \in graph.vertices : color'[x] = IF x = v THEN "black" ELSE color[x]
  BY <1>1, FinishColors
<1>5. \A x \in graph.vertices \ {Output} : x \in Nodes /\ Prepared(x) /\ IsPrepared(x)
  BY <1>1 DEF Prepared, MainInv, SetupInv, ClipTypes, IsClipGraph
<1>6. \A x : /\ Prepared(x)' => x \in graph.vertices \ {Output}
             /\ Levelled(x)' => Levelled(x) /\ x \in graph.vertices \ {Output}
  BY <1>1 DEF Prepared, Levelled
<1>7. \A x : Needs(x)' = Needs(x)
  BY <1>1 DEF Needs
<1>8. ASSUME NEW x \in graph.vertices \ {Output}, NEW e \in Needs(x)
      PROVE  /\ e.out \in Nodes /\ e.out \in graph.vertices \ {Output}
             /\ InClip(e) \in Clips /\ InClip(e)[1] = x
             /\ InClip(e) \in Connected(x) /\ link[InClip(e)] = e.out
  <2>1. e \in graph.edges /\ e.in = x /\ e.in # Output
    BY DEF Needs
  <2>2. e.out \in Nodes /\ e.out \in graph.vertices \ {Output} /\ InClip(e) \in Clips
    BY <2>1, EdgeFacts DEF InClip
  <2>3. InClip(e)[1] = x
    BY <2>1 DEF InClip
  <2>4. InClip(e) \in Connected(x) /\ link[InClip(e)] = e.out
    BY <2>1, LinkedEdge
  <2> QED
    BY <2>2, <2>3, <2>4
<1>9. \A e \in Needs(v) : inDepth'[InClip(e)] = outDepth'[e.out] /\ inComps[InClip(e)] = outComps[e.out]
  BY <1>2, <1>8 DEF Agrees
<1>10. \A x \in graph.vertices \ {Output} : x # v =>
         \A e \in Needs(x) : inDepth'[InClip(e)] = inDepth[InClip(e)]
  BY <1>3, <1>8
<1>11. /\ outDepth'[v] # NoDepth
       /\ Needs(v) # {} => outDepth'[v] \in kind[v].depths
       /\ kind[v].depths = RealDepths /\ Deepest(v) <= outDepth[v] => outDepth'[v] = outDepth[v]
  BY <1>3, <1>5, KeptDepth
<1>12. ASSUME NEW x \in graph.vertices \ {Output}
       PROVE  IsPrepared(x)'
  <2>1. outDepth'[x] # NoDepth /\ (Needs(x) # {} => outDepth'[x] \in kind[x].depths)
    <3>1. CASE x = v
      BY <1>11, <3>1
    <3>2. CASE x # v
      BY <1>3, <1>5, <3>2 DEF IsPrepared
    <3> QED
      BY <3>1, <3>2
  <2>2. ASSUME NEW e \in Needs(x)
        PROVE  inDepth'[InClip(e)] \in kind[x].depths \cup {NoDepth}
    <3>1. inDepth[InClip(e)] \in kind[x].depths \cup {NoDepth}
      BY <1>5 DEF IsPrepared
    <3>2. CASE x = v
      <4>1. e \in graph.edges /\ e.in = v
        BY <3>2 DEF Needs
      <4>2. ReadDepth(v, InClip(e), inDepth[InClip(e)]) \in kind[v].depths \cup {NoDepth}
        BY <3>1, <3>2, <4>1, ReadDepthFacts
      <4> QED
        BY <1>3, <1>8, <3>2, <4>2
    <3>3. CASE x # v
      BY <1>10, <3>1, <3>3
    <3> QED
      BY <3>2, <3>3
  <2>3. ASSUME NEW e \in Needs(x)
        PROVE  inComps'[InClip(e)] = ReadComps(x, InClip(e))'
    <3>1. inComps[InClip(e)] = ReadComps(x, InClip(e))
      BY <1>5 DEF IsPrepared
    <3>2. \A c \in Connected(x) : ReadComps(x, c)' = ReadComps(x, c)
      BY <1>1, SameReadComps
    <3>3. InClip(e)' = InClip(e)
      BY DEF InClip
    <3> QED
      BY <1>1, <1>8, <3>1, <3>2, <3>3
  <2> QED
    BY <1>1, <1>7, <2>1, <2>2, <2>3 DEF IsPrepared, InClip
<1>13. ASSUME NEW x, Validated(x)'
       PROVE  /\ x \in graph.vertices \ {Output}
              /\ x # v => Validated(x)
              /\ x # v => \A e \in Needs(x) : outDepth'[e.out] = outDepth[e.out]
              /\ IsValid(x)'
  <2>1. x \in graph.vertices \ {Output} /\ color'[x] = "black"
    BY <1>1, <1>13 DEF Validated
  <2>2. CASE x = v
    BY <1>1, <1>7, <1>9, <2>1, <2>2 DEF IsValid, InClip
  <2>3. CASE x # v
    <3>1. color[x] = "black" /\ Validated(x)
      BY <1>1, <1>4, <2>1, <2>3 DEF Validated
    <3>2. IsValid(x)
      BY <3>1 DEF MainInv, SetupInv
    <3>3. ASSUME NEW e \in Needs(x)
          PROVE  outDepth'[e.out] = outDepth[e.out]
      <4>1. color[e.out] = "black"
        BY <3>1 DEF VisitInv, Needs
      <4>2. e.out # v
        BY <1>4, <4>1
      <4> QED
        BY <1>3, <1>8, <2>1, <4>2
    <3>4. \A e \in Needs(x) : inDepth'[InClip(e)] = inDepth[InClip(e)]
      BY <1>10, <2>1, <2>3
    <3>5. IsValid(x)'
      BY <1>1, <1>7, <3>2, <3>3, <3>4 DEF IsValid, InClip
    <3> QED
      BY <2>1, <3>1, <3>3, <3>5
  <2> QED
    BY <2>1, <2>2, <2>3
<1>14. ASSUME Unhindered
       PROVE  \A u \in Nodes : outDepth'[u] = outDepth[u]
  <2>1. IsOpen(v) /\ kind[v].depths = RealDepths
    BY <1>5, <1>14 DEF MainInv, UnhinderedInv, Unhindered
  <2>2. outDepth[v] \in Depths /\ outDepth[v] # NoDepth
    BY <1>1, <1>5 DEF ClipTypes, IsPrepared
  <2>3. NoDepth <= outDepth[v]
    BY <2>2 DEF Depths, RealDepths, NoDepth, Byte, Short, Float
  <2>4. Deepest(v) <= outDepth[v]
    <3>1. Deepest(v) = NoDepth \/ \E e \in Needs(v) : Deepest(v) = outDepth[e.out]
      BY DeepestFacts
    <3> QED
      BY <2>1, <2>3, <3>1 DEF IsOpen
  <2>5. outDepth'[v] = outDepth[v]
    BY <1>11, <2>1, <2>4
  <2> QED
    BY <1>3, <2>5
<1>15. ASSUME Unhindered, NEW x \in graph.vertices \ {Output}
       PROVE  IsOpen(x)'
  <2>1. IsOpen(x)
    BY <1>5, <1>15 DEF MainInv, UnhinderedInv
  <2>2. outDepth'[x] = outDepth[x]
    BY <1>5, <1>14, <1>15
  <2>3. \A e \in Needs(x) : outDepth'[e.out] = outDepth[e.out]
    BY <1>8, <1>14, <1>15
  <2>4. \A e \in Needs(x) : ~kind[x].multi => inDepth'[InClip(e)] <= outDepth'[x]
    <3>1. CASE x = v
      BY <1>9, <2>1, <2>2, <2>3, <3>1 DEF IsOpen
    <3>2. CASE x # v
      BY <1>10, <2>1, <2>2, <3>2 DEF IsOpen
    <3> QED
      BY <3>1, <3>2
  <2>5. \A e \in Needs(x) : outDepth'[e.out] <= outDepth'[x]
    BY <2>1, <2>2, <2>3 DEF IsOpen
  <2> QED
    BY <1>1, <1>7, <2>4, <2>5 DEF IsOpen, InClip
<1>16. ASSUME Unhindered, NEW x, Levelled(x)'
       PROVE  IsLevel(x)'
  <2>1. Levelled(x) /\ x \in graph.vertices \ {Output}
    BY <1>6, <1>16
  <2>2. IsLevel(x)
    BY <1>16, <2>1 DEF MainInv, UnhinderedInv
  <2>3. outDepth'[x] = outDepth[x] /\ \A e \in Needs(x) : outDepth'[e.out] = outDepth[e.out]
    BY <1>5, <1>8, <1>14, <1>16, <2>1
  <2> QED
    BY <1>1, <1>7, <2>2, <2>3 DEF IsLevel
<1>17. ASSUME Unhindered, NEW x, Validated(x)'
       PROVE  IsOne(x)'
  <2>1. x \in graph.vertices \ {Output}
    BY <1>13, <1>17
  <2>2. Levelled(x)'
    BY <1>1, <2>1 DEF Levelled
  <2>3. IsLevel(x)' /\ IsValid(x)'
    BY <1>13, <1>16, <1>17, <2>2
  <2> QED
    BY <1>1, <1>7, <2>3 DEF IsLevel, IsValid, IsOne, InClip
<1>18. Unhindered' <=> Unhindered
  BY <1>1, SameUnhindered
<1>19. SetupInv'
  BY <1>6, <1>12, <1>13 DEF SetupInv
<1>20. UnhinderedInv'
  BY <1>6, <1>15, <1>16, <1>17, <1>18 DEF UnhinderedInv
<1> QED
  BY <1>19, <1>20 DEF MainInv

-----------------------------------------------------------------------------
(* The output vertex has no clip, and a visitor does nothing there.        *)

LEMMA OutputFinished ==
  ASSUME ClipTypes, VisitInv, MainInv, Output \in graph.vertices,
         FinishSetup1(Output) \/ FinishSetup3(Output)
  PROVE  MainInv'
<1>1. /\ UNCHANGED <<graph, kind, link, phase, inDepth, outDepth, inComps, outComps>>
      /\ Finish(Output) /\ phase \in {"setup1", "setup3"}
  BY DEF FinishSetup1, FinishSetup3, nodeVars, compsVars, depthVars
<1>2. \A x \in graph.vertices \ {Output} : color'[x] = color[x]
  BY <1>1, FinishColors
<1>3. \A x : Prepared(x)' => Prepared(x)
  BY <1>1, <1>2 DEF Prepared
<1>4. \A x : Levelled(x)' => Levelled(x)
  BY <1>1 DEF Levelled
<1>5. \A x : Validated(x)' => Validated(x)
  BY <1>1, <1>2 DEF Validated
<1> QED
  BY <1>1, <1>3, <1>4, <1>5, KeptMain

LEMMA StepMain ==
  ASSUME ClipInv, [ClipNext]_clipVars, Settling', Linked'
  PROVE  MainInv'
<1>1. ClipTypes /\ VisitInv /\ ReachedInv /\ Output \in graph.vertices
      /\ (Settling /\ Linked => MainInv)
  BY DEF ClipInv, MainInv, ClipTypes, IsClipGraph
<1>2. ASSUME UNCHANGED <<graph, link>>, Settling
      PROVE  Linked /\ MainInv
  BY <1>1, <1>2, SameLinked
<1>3. CASE UNCHANGED clipVars
  <2>1. UNCHANGED <<graph, kind, link, phase, color, inDepth, outDepth, inComps, outComps>>
    BY <1>3 DEF clipVars, visitVars, nodeVars, compsVars, depthVars
  <2>2. Settling
    BY <2>1 DEF Settling
  <2>3. \A v : /\ Prepared(v)' => Prepared(v)
               /\ Levelled(v)' => Levelled(v)
               /\ Validated(v)' => Validated(v)
    BY <2>1 DEF Prepared, Levelled, Validated, Discovered
  <2> QED
    BY <1>2, <2>1, <2>2, <2>3, KeptMain
<1>4. ASSUME NEW g, NEW deleted, Edit(g, deleted)
      PROVE  FALSE
  BY <1>4 DEF Edit, Settling
<1>5. ASSUME NEW c, ConnectAtTime(c)
      PROVE  FALSE
  BY <1>5 DEF ConnectAtTime, Settling
<1>6. CASE ConnectClips
  BY <1>1, <1>6, ConnectKeeps
<1>7. CASE NextVisit
  <2>1. UNCHANGED <<graph, link>> /\ Settling
    BY <1>7 DEF NextVisit, nodeVars, Settling
  <2> QED
    BY <1>1, <1>2, <1>7, <2>1, NextVisitKeeps
<1>8. ASSUME NEW v \in graph.vertices, DiscoverOnly(v) \/ FinishOnly(v)
      PROVE  MainInv'
  <2>1. UNCHANGED <<graph, link>> /\ Settling
    BY <1>8 DEF DiscoverOnly, FinishOnly, nodeVars, Settling
  <2> QED
    BY <1>1, <1>2, <1>8, <2>1, PassiveVisits
<1>9. ASSUME NEW v \in graph.vertices, DiscoverSetup2(v)
      PROVE  MainInv'
  <2>1. UNCHANGED <<graph, link>> /\ Settling
    BY <1>9 DEF DiscoverSetup2, nodeVars, Settling
  <2> QED
    BY <1>1, <1>2, <1>9, <2>1, Setup2Keeps
<1>10. ASSUME NEW v \in graph.vertices, FinishSetup1(v)
       PROVE  MainInv'
  <2>1. UNCHANGED <<graph, link>> /\ Settling
    BY <1>10 DEF FinishSetup1, nodeVars, Settling
  <2>2. CASE v = Output
    BY <1>1, <1>2, <1>10, <2>1, <2>2, OutputFinished
  <2>3. CASE v # Output
    <3>1. phase' = "setup1"
      BY <1>10, <2>3 DEF FinishSetup1, Setup1, NoPreferences, Prefer, Settling
    <3> QED
      BY <1>1, <1>2, <1>10, <2>1, <2>3, <3>1, Setup1Keeps
  <2> QED
    BY <2>2, <2>3
<1>11. ASSUME NEW v \in graph.vertices, FinishSetup3(v)
       PROVE  MainInv'
  <2>1. UNCHANGED <<graph, link>> /\ Settling
    BY <1>11 DEF FinishSetup3, nodeVars, Settling
  <2>2. CASE v = Output
    BY <1>1, <1>2, <1>11, <2>1, <2>2, OutputFinished
  <2>3. CASE v # Output
    <3>1. phase' = "setup3"
      BY <1>11, <2>3 DEF FinishSetup3, Setup3, Settling
    <3> QED
      BY <1>1, <1>2, <1>11, <2>1, <2>3, <3>1, Setup3Keeps
  <2> QED
    BY <2>2, <2>3
<1> QED
  BY <1>3, <1>4, <1>5, <1>6, <1>7, <1>8, <1>9, <1>10, <1>11 DEF ClipNext

-----------------------------------------------------------------------------
(* A validated node agrees with its inputs, and they do not change: they   *)
(* are finished, and Setup3 changes a node when it finishes it.            *)

LEMMA SameAgreed ==
  ASSUME AgreedInv, UNCHANGED <<graph, link, inDepth, outDepth, inComps, outComps>>,
         \A v : Validated(v)' => Validated(v)
  PROVE  AgreedInv'
<1>1. \A v : Needs(v)' = Needs(v)
  BY DEF Needs
<1>2. \A v : IsAgreed(v)' <=> IsAgreed(v)
  BY <1>1 DEF IsAgreed, InClip
<1> QED
  BY <1>2 DEF AgreedInv

LEMMA Setup3Agrees ==
  ASSUME ClipTypes, VisitInv, AgreedInv, NEW v \in graph.vertices, v # Output,
         FinishSetup3(v), phase' = "setup3"
  PROVE  AgreedInv'
<1>1. /\ phase = "setup3" /\ Finish(v) /\ Setup3(v) /\ v \in Nodes
      /\ UNCHANGED <<graph, kind, link, phase, inComps, outComps>>
  BY DEF FinishSetup3, nodeVars, compsVars, ClipTypes, IsClipGraph
<1>2. ~DepthNotSupported(v) /\ Agrees(v)
  BY <1>1 DEF Setup3
<1>3. /\ \A u \in Nodes : u # v => outDepth'[u] = outDepth[u]
      /\ \A c \in Clips : c[1] # v => inDepth'[c] = inDepth[c]
  BY <1>1, <1>2, Setup3Changes
<1>4. /\ color[v] = "gray"
      /\ \A x \in graph.vertices : color'[x] = IF x = v THEN "black" ELSE color[x]
  BY <1>1, FinishColors
<1>5. \A x : Needs(x)' = Needs(x)
  BY <1>1 DEF Needs
<1>6. ASSUME NEW x, Validated(x)'
      PROVE  IsAgreed(x)'
  <2>1. x \in graph.vertices \ {Output} /\ color'[x] = "black"
    BY <1>1, <1>6 DEF Validated
  <2>2. SUFFICES ASSUME NEW e \in Needs(x), link[InClip(e)] = e.out
                 PROVE  inDepth'[InClip(e)] = outDepth'[e.out] /\ inComps[InClip(e)] = outComps[e.out]
    BY <1>1, <1>5 DEF IsAgreed, InClip
  <2>3. /\ e \in graph.edges /\ e.in = x /\ e.out \in Nodes /\ e.out \in graph.vertices
        /\ InClip(e) \in Clips /\ InClip(e)[1] = x /\ e.clip \in ClipNames
    BY <2>1, EdgeFacts DEF Needs, InClip
  <2>4. CASE x = v
    <3>1. InClip(e) \in Connected(v)
      <4>1. link[InClip(e)] # Nobody
        BY <2>2, <2>3, ClipAssumption
      <4>2. InClip(e) \in {v} \X ClipNames
        BY <2>3, <2>4 DEF InClip
      <4> QED
        BY <4>1, <4>2 DEF Connected, ClipsOf
    <3> QED
      BY <1>2, <2>2, <3>1 DEF Agrees
  <2>5. CASE x # v
    <3>1. color[x] = "black" /\ Validated(x)
      BY <1>1, <1>4, <2>1, <2>5 DEF Validated
    <3>2. color[e.out] = "black"
      BY <2>3, <3>1 DEF VisitInv
    <3>3. outDepth'[e.out] = outDepth[e.out] /\ inDepth'[InClip(e)] = inDepth[InClip(e)]
      BY <1>3, <1>4, <2>3, <2>5, <3>2
    <3>4. inDepth[InClip(e)] = outDepth[e.out] /\ inComps[InClip(e)] = outComps[e.out]
      BY <2>2, <3>1 DEF AgreedInv, IsAgreed
    <3> QED
      BY <3>3, <3>4
  <2> QED
    BY <2>4, <2>5
<1> QED
  BY <1>6 DEF AgreedInv

LEMMA StepAgreed ==
  ASSUME ClipTypes, VisitInv, ReachedInv, AgreedInv, [ClipNext]_clipVars
  PROVE  AgreedInv'
<1>1. Output \in graph.vertices
  BY DEF ClipTypes, IsClipGraph
<1>2. phase' \notin {"setup3", "done"} => AgreedInv'
  BY DEF AgreedInv, Validated
<1>3. CASE UNCHANGED clipVars
  <2>1. UNCHANGED <<graph, link, phase, color, inDepth, outDepth, inComps, outComps>>
    BY <1>3 DEF clipVars, visitVars, nodeVars, compsVars, depthVars
  <2>2. \A v : Validated(v)' => Validated(v)
    BY <2>1 DEF Validated
  <2> QED
    BY <2>1, <2>2, SameAgreed
<1>4. ASSUME NEW g, NEW deleted, Edit(g, deleted)
      PROVE  AgreedInv'
  <2>1. phase' = "edited"
    BY <1>4 DEF Edit
  <2> QED
    BY <1>2, <2>1
<1>5. ASSUME NEW c, ConnectAtTime(c)
      PROVE  AgreedInv'
  <2>1. phase' = "rendered"
    BY <1>5 DEF ConnectAtTime
  <2> QED
    BY <1>2, <2>1
<1>6. CASE ConnectClips
  <2>1. phase' = "setup1"
    BY <1>6 DEF ConnectClips
  <2> QED
    BY <1>2, <2>1
<1>7. CASE NextVisit
  <2>1. UNCHANGED <<graph, kind, link, inDepth, outDepth, inComps, outComps>> /\ Over /\ Settling
    BY <1>7 DEF NextVisit, nodeVars, compsVars, depthVars, Settling
  <2>2. \A v \in graph.vertices : color[v] = "black"
    BY <2>1, AllFinished DEF ReachedInv
  <2>3. \/ phase' = "setup2"
        \/ phase' = "setup3" /\ Start(Output)
        \/ phase = "setup3" /\ phase' = "done"
    BY <1>7 DEF NextVisit
  <2>4. CASE phase' = "setup2"
    BY <1>2, <2>4
  <2>5. CASE phase' = "setup3" /\ Start(Output)
    <3>1. \A v \in graph.vertices \ {Output} : color'[v] # "black"
      BY <2>5 DEF Start
    <3>2. \A v : ~Validated(v)'
      BY <2>1, <2>5, <3>1 DEF Validated
    <3> QED
      BY <3>2 DEF AgreedInv
  <2>6. CASE phase = "setup3" /\ phase' = "done"
    <3>1. \A v : Validated(v)' => Validated(v)
      BY <2>1, <2>2, <2>6 DEF Validated
    <3> QED
      BY <2>1, <3>1, SameAgreed
  <2> QED
    BY <2>3, <2>4, <2>5, <2>6
<1>8. ASSUME NEW v \in graph.vertices, DiscoverOnly(v)
      PROVE  AgreedInv'
  <2>1. UNCHANGED <<graph, link, phase, inDepth, outDepth, inComps, outComps>> /\ Discover(v)
    BY <1>8 DEF DiscoverOnly, nodeVars, compsVars, depthVars
  <2>2. \A x \in graph.vertices : color'[x] = "black" => color[x] = "black"
    BY <2>1, DiscoverColors
  <2>3. \A x : Validated(x)' => Validated(x)
    BY <2>1, <2>2 DEF Validated
  <2> QED
    BY <2>1, <2>3, SameAgreed
<1>9. ASSUME NEW v \in graph.vertices, FinishOnly(v) \/ DiscoverSetup2(v)
      PROVE  AgreedInv'
  <2>1. phase' = "setup2"
    BY <1>9 DEF FinishOnly, DiscoverSetup2
  <2> QED
    BY <1>2, <2>1
<1>10. ASSUME NEW v \in graph.vertices, FinishSetup1(v)
       PROVE  AgreedInv'
  <2>1. phase' \in {"setup1", "failed", "undefined"}
    BY <1>10 DEF FinishSetup1, Setup1, NoPreferences, Prefer
  <2> QED
    BY <1>2, <2>1
<1>11. ASSUME NEW v \in graph.vertices, FinishSetup3(v)
       PROVE  AgreedInv'
  <2>1. CASE v = Output
    <3>1. /\ UNCHANGED <<graph, link, phase, inDepth, outDepth, inComps, outComps>>
          /\ Finish(Output)
      BY <1>11, <2>1 DEF FinishSetup3, nodeVars, compsVars, depthVars
    <3>2. \A x \in graph.vertices \ {Output} : color'[x] = color[x]
      BY <1>1, <3>1, FinishColors
    <3>3. \A x : Validated(x)' => Validated(x)
      BY <3>1, <3>2 DEF Validated
    <3> QED
      BY <3>1, <3>3, SameAgreed
  <2>2. CASE v # Output
    <3>1. phase' = "setup3" \/ phase' = "failed"
      BY <1>11, <2>2 DEF FinishSetup3, Setup3
    <3> QED
      BY <1>2, <1>11, <2>2, <3>1, Setup3Agrees
  <2> QED
    BY <2>1, <2>2
<1> QED
  BY <1>3, <1>4, <1>5, <1>6, <1>7, <1>8, <1>9, <1>10, <1>11 DEF ClipNext

-----------------------------------------------------------------------------
(* The invariant, and what it means once the setup has succeeded.          *)

LEMMA InitClip ==
  ClipInit => ClipInv
<1> SUFFICES ASSUME ClipInit
             PROVE  ClipInv
  OBVIOUS
<1>1. graph = [vertices |-> {Output}, edges |-> {}] /\ phase = "idle"
      /\ stack = <<>> /\ color = [v \in {Output} |-> "black"]
  BY DEF ClipInit
<1>2. graph.vertices = {Output} /\ graph.edges = {}
  BY <1>1
<1>3. IsClipGraph(graph)
  BY <1>1, NoGraph
<1>4. /\ kind \in Kinds /\ exists = Nodes
      /\ link = [c \in Clips |-> Nobody] /\ byPlugin = [v \in Nodes |-> FALSE] /\ computes = 0
  BY DEF ClipInit
<1>5. /\ inDepth \in [Clips -> Depths] /\ outDepth \in [Nodes -> Depths]
      /\ inComps \in [Clips -> Components] /\ outComps \in [Nodes -> Components]
  BY DepthsFinite DEF ClipInit, Components
<1>6. ClipTypes
  BY <1>1, <1>2, <1>3, <1>4, <1>5, ClipAssumption DEF ClipTypes
<1>7. VisitInv
  <2>1. <<>> \in Seq({Output}) /\ Len(<<>>) = 0 /\ 1 .. 0 = {}
    OBVIOUS
  <2>2. color \in [{Output} -> Colors] /\ color[Output] = "black"
    BY <1>1 DEF Colors
  <2> QED
    BY <1>1, <1>2, <2>1, <2>2 DEF VisitInv
<1>8. ~Settling
  BY <1>1 DEF Settling
<1>9. \A v : ~Validated(v)
  BY <1>1 DEF Validated
<1> QED
  BY <1>6, <1>7, <1>8, <1>9 DEF ClipInv, ReachedInv, AgreedInv

LEMMA ClipInvariant ==
  ClipSpec => []ClipInv
<1>1. ClipInit => ClipInv
  BY InitClip
<1>2. ClipInv /\ [ClipNext]_clipVars => ClipInv'
  <2> SUFFICES ASSUME ClipInv, [ClipNext]_clipVars
               PROVE  ClipInv'
    OBVIOUS
  <2>1. ClipTypes /\ VisitInv /\ ReachedInv /\ AgreedInv
    BY DEF ClipInv
  <2>2. phase \in {"setup2"} => Discovered(Output)
    BY <2>1 DEF ReachedInv, Settling
  <2>3. ClipTypes' /\ VisitInv' /\ ReachedInv' /\ AgreedInv'
    BY <2>1, <2>2, StepClipTypes, StepClipVisits, StepReached, StepAgreed
  <2>4. Settling' /\ Linked' => MainInv'
    BY StepMain
  <2> QED
    BY <2>3, <2>4 DEF ClipInv, MainInv
<1> QED
  BY <1>1, <1>2, PTL DEF ClipSpec

(* What the invariant says of a setup that has succeeded. *)
LEMMA WhenNegotiated ==
  ASSUME ClipInv, Negotiated
  PROVE  /\ ClipTypes /\ Linked
         /\ \A v \in graph.vertices \ {Output} :
              IsPrepared(v) /\ IsValid(v) /\ (Unhindered => IsOne(v))
         /\ \A e \in InputEdges : /\ e \in graph.edges /\ e.in # Output /\ e \in Needs(e.in)
                                  /\ e.in \in graph.vertices \ {Output} /\ e.in \in Nodes
                                  /\ e.out \in graph.vertices \ {Output}
<1>1. ClipTypes /\ phase = "done" /\ ConnectedAsInGraph
  BY DEF ClipInv, Negotiated
<1>2. Linked
  BY <1>1 DEF ConnectedAsInGraph, Linked
<1>3. SetupInv /\ UnhinderedInv
  BY <1>1, <1>2 DEF ClipInv, Settling
<1>4. ASSUME NEW v \in graph.vertices \ {Output}
      PROVE  Prepared(v) /\ Validated(v)
  BY <1>1 DEF Prepared, Validated
<1>5. \A v \in graph.vertices \ {Output} : IsPrepared(v) /\ IsValid(v) /\ (Unhindered => IsOne(v))
  BY <1>3, <1>4 DEF SetupInv, UnhinderedInv
<1>6. \A e \in InputEdges : /\ e \in graph.edges /\ e.in # Output /\ e \in Needs(e.in)
                            /\ e.in \in graph.vertices \ {Output} /\ e.in \in Nodes
                            /\ e.out \in graph.vertices \ {Output}
  BY <1>1, EdgeFacts DEF InputEdges, Needs
<1> QED
  BY <1>1, <1>2, <1>5, <1>6

(* The types of everything that the negotiation keeps. *)
THEOREM ClipTypesHold ==
  ClipSpec => []ClipTypeOK
<1>1. ClipInv => ClipTypeOK
  BY DEF ClipInv, ClipTypes, VisitInv, Colors, ClipTypeOK
<1> QED
  BY <1>1, ClipInvariant, PTL

(* However the visits have raised depths on the way, both sides of each    *)
(* connection along an edge agree at the end, whatever clips stay linked   *)
(* from before: a clip is only validated once the node it reads is done    *)
(* with (ProcessGraph::setup, validInputClipsConnections).                 *)
THEOREM ConnectedClipsAgree ==
  ClipSpec => []ConnectionsAgree
<1>1. ClipInv => ConnectionsAgree
  <2> SUFFICES ASSUME ClipInv, phase = "done", NEW e \in InputEdges, link[<<e.in, e.clip>>] = e.out
               PROVE  /\ inDepth[<<e.in, e.clip>>] = outDepth[e.out]
                      /\ inComps[<<e.in, e.clip>>] = outComps[e.out]
    BY DEF ConnectionsAgree
  <2>1. e \in graph.edges /\ e.in # Output /\ e.in \in graph.vertices /\ e \in Needs(e.in)
    BY EdgeFacts DEF InputEdges, ClipInv, Needs
  <2>2. Validated(e.in)
    BY <2>1 DEF Validated
  <2>3. IsAgreed(e.in)
    BY <2>2 DEF ClipInv, AgreedInv
  <2> QED
    BY <2>1, <2>3 DEF IsAgreed, InClip
<1> QED
  BY <1>1, ClipInvariant, PTL

(* And each clip has a depth and components that its node supports: an     *)
(* input clip agrees with an output clip, which always has a depth.        *)
THEOREM EveryClipSupported ==
  ClipSpec => []ClipsSupported
<1>1. ClipInv => ClipsSupported
  <2> SUFFICES ASSUME ClipInv, Negotiated, NEW e \in InputEdges
               PROVE  /\ inDepth[<<e.in, e.clip>>] \in kind[e.in].depths
                      /\ outDepth[e.in] \in kind[e.in].depths
                      /\ SameComps(e.in) =>
                           inComps[<<e.in, e.clip>>] \in kind[e.in].ins \cup {NoComponents}
    BY DEF ClipsSupported
  <2>1. /\ e \in graph.edges /\ e.in # Output /\ e \in Needs(e.in) /\ e.in \in Nodes
        /\ e.in \in graph.vertices /\ ClipTypes /\ Linked
        /\ IsPrepared(e.in) /\ IsValid(e.in) /\ IsPrepared(e.out)
    BY WhenNegotiated
  <2>2. outDepth[e.in] \in kind[e.in].depths
    BY <2>1 DEF IsPrepared
  <2>3. inDepth[InClip(e)] \in kind[e.in].depths
    <3>1. inDepth[InClip(e)] \in kind[e.in].depths \cup {NoDepth}
      BY <2>1 DEF IsPrepared
    <3>2. inDepth[InClip(e)] = outDepth[e.out] /\ outDepth[e.out] # NoDepth
      BY <2>1 DEF IsValid, IsPrepared
    <3> QED
      BY <3>1, <3>2
  <2>4. ASSUME SameComps(e.in)
        PROVE  inComps[InClip(e)] \in kind[e.in].ins \cup {NoComponents}
    <3>1. inComps[InClip(e)] = ReadComps(e.in, InClip(e)) /\ link[InClip(e)] = e.out
      BY <2>1, LinkedEdge DEF IsPrepared
    <3>2. MostChromatic(e.in) = outComps[e.out]
      BY <2>1, <2>4, ChromaticFacts
    <3>3. OnlyOf(kind[e.in].ins) \in kind[e.in].ins \cup {NoComponents}
      BY <2>1, KindFacts, OnlyOfType
    <3> QED
      BY <3>1, <3>2, <3>3 DEF ReadComps
  <2> QED
    BY <2>2, <2>3, <2>4 DEF InClip
<1> QED
  BY <1>1, ClipInvariant, PTL

(* When Setup2 meets each node before the ones it raises, and no choice of *)
(* a plugin is in the way, a node of one depth gets it on all its clips.   *)
THEOREM OneDepthPerNode ==
  ClipSpec => []OneDepthUnhindered
<1>1. ClipInv => OneDepthUnhindered
  <2> SUFFICES ASSUME ClipInv, Unhindered, Negotiated, NEW e \in InputEdges, ~kind[e.in].multi
               PROVE  inDepth[<<e.in, e.clip>>] = outDepth[e.in]
    BY DEF OneDepthUnhindered, OneDepth
  <2>1. e \in Needs(e.in) /\ IsOne(e.in)
    BY WhenNegotiated
  <2> QED
    BY <2>1 DEF IsOne, InClip
<1> QED
  BY <1>1, ClipInvariant, PTL

=============================================================================
