-------------------------- MODULE FrameRenderProofs --------------------------
(***************************************************************************)
(* Proofs about FrameRender.tla, for every graph at time and every answer  *)
(* of isIdentity.                                                          *)
(***************************************************************************)
EXTENDS FrameRender, FiniteSetTheorems, WellFoundedInduction, TLAPS

-----------------------------------------------------------------------------
(* Induction on a rank, from the minimum of a set of naturals.             *)

(* A set of natural numbers has a minimum. *)
LEMMA NatMin ==
  ASSUME NEW S \in SUBSET Nat, S # {}
  PROVE  \E n \in S : \A m \in S : n <= m
<1>1. PICK x \in S : \A y \in S : ~ (<<y, x>> \in OpToRel(<, Nat))
  BY NatLessThanWellFounded, WFMin
<1>2. \A y \in S : ~ (y < x)
  BY <1>1 DEF OpToRel
<1> QED
  BY <1>2

(* What holds of a vertex once it holds of those of lower rank holds of all. *)
LEMMA RankInduction ==
  ASSUME NEW U, NEW rank \in [U -> Nat], NEW S,
         \A w \in U : (\A u \in U : rank[u] < rank[w] => u \in S) => w \in S
  PROVE  U \subseteq S
<1> SUFFICES ASSUME U \ S # {}
             PROVE  FALSE
  OBVIOUS
<1> DEFINE R == {rank[u] : u \in U \ S}
<1>1. R \in SUBSET Nat /\ R # {}
  OBVIOUS
<1>2. PICK n \in R : \A m \in R : n <= m
  BY <1>1, NatMin
<1>3. PICK w \in U \ S : rank[w] = n
  BY <1>2
<1>4. ASSUME NEW u \in U, rank[u] < rank[w]
      PROVE  u \in S
  <2> SUFFICES ASSUME u \notin S PROVE FALSE
    OBVIOUS
  <2>1. rank[u] \in R
    OBVIOUS
  <2>2. n <= rank[u] /\ rank[u] < n /\ n \in Nat /\ rank[u] \in Nat
    BY <1>1, <1>2, <1>3, <1>4, <2>1
  <2> QED
    BY <2>2
<1> QED
  BY <1>3, <1>4

(* f follows next down to where its value is given. *)
Follows(f, U, T, base, next) == f = [w \in U |-> IF w \in T THEN base[w] ELSE f[next[w]]]

(* It exists when next goes to a lower rank. *)
LEMMA Chase ==
  ASSUME NEW U, NEW N \in Nat, NEW rank \in [U -> 0 .. N], NEW T, NEW base, NEW next,
         \A w \in U \ T : next[w] \in U /\ rank[next[w]] < rank[w]
  PROVE  \E f : Follows(f, U, T, base, next)
<1> DEFINE Below(k) == {w \in U : rank[w] < k}
           Solves(f, k) == f = [w \in Below(k) |-> IF w \in T THEN base[w] ELSE f[next[w]]]
           Stuck == {k \in Nat : \A f : ~ Solves(f, k)}
<1>1. Stuck = {}
  <2> SUFFICES ASSUME Stuck # {}
               PROVE  FALSE
    OBVIOUS
  <2>1. PICK k \in Stuck : \A j \in Stuck : k <= j
    BY NatMin
  <2>2. k # 0
    <3> SUFFICES ASSUME k = 0 PROVE FALSE
      OBVIOUS
    <3> DEFINE f == [w \in {} |-> 0]
    <3>1. Below(k) = {}
      OBVIOUS
    <3>2. Solves(f, k)
      BY <3>1
    <3> QED
      BY <3>2, <2>1
  <2>3. k - 1 \in Nat /\ k - 1 \notin Stuck
    BY <2>1, <2>2
  <2>4. PICK f : Solves(f, k - 1)
    BY <2>3
  <2> DEFINE g == [w \in Below(k) |-> IF w \in T THEN base[w] ELSE f[next[w]]]
  <2>5. \A w \in Below(k - 1) : f[w] = IF w \in T THEN base[w] ELSE f[next[w]]
    BY <2>4
  <2>6. Below(k - 1) \subseteq Below(k)
    BY <2>3, <2>1
  <2>7. \A w \in Below(k - 1) : g[w] = f[w]
    BY <2>5, <2>6
  <2>8. \A w \in Below(k) \ T : next[w] \in Below(k - 1)
    BY <2>1, <2>3
  <2>9. \A w \in Below(k) \ T : f[next[w]] = g[next[w]]
    BY <2>7, <2>8
  <2>10. Solves(g, k)
    <3> HIDE DEF Below
    <3>1. \A w \in Below(k) : (IF w \in T THEN base[w] ELSE f[next[w]])
                                = IF w \in T THEN base[w] ELSE g[next[w]]
      BY <2>9
    <3> QED
      BY <3>1
  <2> QED
    BY <2>10, <2>1
<1>2. \E f : Solves(f, N + 1)
  <2>1. N + 1 \in Nat
    OBVIOUS
  <2>2. N + 1 \notin Stuck
    BY <1>1
  <2> QED
    BY <2>1, <2>2
<1>3. Below(N + 1) = U
  OBVIOUS
<1>4. PICK f : Solves(f, N + 1)
  BY <1>2
<1>5. f = [w \in U |-> IF w \in T THEN base[w] ELSE f[next[w]]]
  BY <1>3, <1>4
<1> QED
  BY <1>5 DEF Follows
-----------------------------------------------------------------------------
(* What is behind a vertex: the least set closed under the edges.          *)

LEMMA BehindSelf ==
  ASSUME NEW v, NEW es
  PROVE  v \in Behind(v, es)
BY DEF Behind

LEMMA BehindClosed ==
  ASSUME NEW v, NEW es, NEW e \in es, e.in \in Behind(v, es)
  PROVE  e.out \in Behind(v, es)
BY DEF Behind

LEMMA BehindLeast ==
  ASSUME NEW v, NEW es, NEW S, v \in S, \A e \in es : e.in \in S => e.out \in S
  PROVE  Behind(v, es) \subseteq S
<1> DEFINE ends == {v} \cup {e.out : e \in es}
<1>1. S \cap ends \in SUBSET ends /\ v \in S \cap ends
  OBVIOUS
<1>2. \A e \in es : e.in \in S \cap ends => e.out \in S \cap ends
  OBVIOUS
<1>3. \A w \in Behind(v, es) : w \in S \cap ends
  <2> TAKE w \in Behind(v, es)
  <2>1. \A R \in SUBSET ends : v \in R /\ (\A e \in es : e.in \in R => e.out \in R) => w \in R
    BY DEF Behind
  <2> HIDE DEF ends
  <2> QED
    BY <2>1, <1>1, <1>2
<1> QED
  BY <1>3

LEMMA BehindTransitive ==
  ASSUME NEW v, NEW es, NEW w \in Behind(v, es)
  PROVE  Behind(w, es) \subseteq Behind(v, es)
BY BehindClosed, BehindLeast

LEMMA BehindEnds ==
  ASSUME NEW v, NEW es, NEW w \in Behind(v, es), w # v
  PROVE  \E e \in es : e.out = w
BY DEF Behind

LEMMA BehindFinite ==
  ASSUME NEW v, NEW es, IsFiniteSet(es)
  PROVE  IsFiniteSet(Behind(v, es))
<1> DEFINE outs == {e.out : e \in es}
           f == [e \in es |-> e.out]
<1>1. IsFiniteSet(outs)
  <2>1. f \in Surjection(es, outs)
    BY DEF Surjection
  <2> QED
    BY <2>1, FS_Surjection
<1>2. IsFiniteSet({v} \cup outs)
  BY <1>1, FS_AddElement, FS_Union, FS_Singleton
<1>3. Behind(v, es) \subseteq {v} \cup outs
  BY DEF Behind
<1> QED
  BY <1>2, <1>3, FS_Subset

-----------------------------------------------------------------------------
(* Following identities.                                                   *)

Good == \A v \in V : ~BadIdentity(v)

LEMMA CaseFacts ==
  ASSUME case \in Cases
  PROVE  /\ IsFrame(case) /\ IsFiniteSet(V) /\ IsFiniteSet(case.edges)
         /\ Rendered # Disabled /\ Rendered \notin V /\ Disabled \notin V /\ Output \notin V
         /\ \A e \in case.edges : /\ e.in \in V \cup {Output} /\ e.out \in V
                                  /\ e.time = case.time[e.out] /\ e.time # NoTime
                                  /\ e.in # e.out
         /\ \A v \in V : /\ case.identity[v] \in V \cup {Rendered, Disabled}
                         /\ v \in Nat /\ 1 \in V /\ case.time[v] # NoTime
<1>1. IsFrame(case) /\ {Rendered, Disabled} \cap Vertices(case) = {} /\ Rendered # Disabled
  BY CasesAssumption
<1>2. \A e \in case.edges : e.in # e.out
  BY <1>1, BehindSelf DEF IsFrame
<1>3. ASSUME NEW v \in V
      PROVE  v \in Nat /\ 1 \in V
  <2>1. Cardinality(V) \in Nat /\ V = 1 .. Cardinality(V)
    BY <1>1, FS_CardinalityType DEF IsFrame, V
  <2> QED
    BY <2>1, <1>3
<1>4. case.edges \subseteq [in : V \cup {Output}, clip : {e.clip : e \in case.edges},
                            out : V, time : {case.time[v] : v \in V}, n : Nat]
  BY <1>1 DEF IsFrame, V
<1>5. \A e \in case.edges : e.in \in V \cup {Output} /\ e.out \in V
  BY <1>4
<1>6. \A e \in case.edges : e.time = case.time[e.out] /\ e.time # NoTime
  BY <1>1, <1>5 DEF IsFrame, V
<1>7. \A v \in V : case.identity[v] \in V \cup {Rendered, Disabled} /\ case.time[v] # NoTime
  BY <1>1 DEF IsFrame, V
<1> QED
  BY <1>1, <1>2, <1>3, <1>5, <1>6, <1>7 DEF IsFrame, V

Rank == [w \in V |-> Cardinality(Behind(w, case.edges))]

(* Every edge goes to a vertex with fewer vertices behind it. *)
LEMMA RankBounded ==
  ASSUME case \in Cases
  PROVE  /\ Cardinality(V) \in Nat /\ Rank \in [V -> 0 .. Cardinality(V)]
         /\ \A e \in case.edges : e.in \in V => Rank[e.out] < Rank[e.in]
<1>1. Cardinality(V) \in Nat
  BY CaseFacts, FS_CardinalityType
<1>2. ASSUME NEW w \in V
      PROVE  /\ IsFiniteSet(Behind(w, case.edges))
             /\ Cardinality(Behind(w, case.edges)) \in 0 .. Cardinality(V)
  <2>1. Behind(w, case.edges) \subseteq V
    BY <1>2, CaseFacts DEF Behind
  <2>2. IsFiniteSet(Behind(w, case.edges))
    BY <2>1, CaseFacts, FS_Subset
  <2>3. Cardinality(Behind(w, case.edges)) <= Cardinality(V)
    BY <2>1, CaseFacts, FS_Subset
  <2>4. Cardinality(Behind(w, case.edges)) \in Nat
    BY <2>2, FS_CardinalityType
  <2> QED
    BY <1>1, <2>2, <2>3, <2>4
<1>3. ASSUME NEW e \in case.edges, e.in \in V
      PROVE  Rank[e.out] < Rank[e.in]
  <2> DEFINE B(v) == Behind(v, case.edges)
  <2>1. e.out \in V /\ e.in \notin B(e.out)
    BY CaseFacts DEF IsFrame
  <2>2. B(e.out) \subseteq B(e.in)
    BY BehindSelf, BehindClosed, BehindTransitive
  <2>3. e.in \in B(e.in)
    BY BehindSelf
  <2>4. Cardinality(B(e.out)) <= Cardinality(B(e.in)) /\ Cardinality(B(e.out)) # Cardinality(B(e.in))
    <3> HIDE DEF B
    <3>1. IsFiniteSet(B(e.in))
      BY <1>2, <1>3 DEF B
    <3> QED
      BY <3>1, <2>1, <2>2, <2>3, FS_Subset
  <2>5. Cardinality(B(e.out)) \in Nat /\ Cardinality(B(e.in)) \in Nat
    BY <1>1, <1>2, <1>3, <2>1
  <2> QED
    BY <2>1, <2>4, <2>5, <1>3 DEF Rank
<1>4. Rank \in [V -> 0 .. Cardinality(V)]
  BY <1>2 DEF Rank
<1> QED
  BY <1>1, <1>3, <1>4

(* The identities of a good frame name one of the vertices an edge goes to. *)
LEMMA IdentityEdge ==
  ASSUME case \in Cases, Good, NEW w \in V, case.identity[w] \in V
  PROVE  /\ \E e \in case.edges : e.in = w /\ e.out = case.identity[w]
         /\ Rank[case.identity[w]] < Rank[w]
<1>1. PICK e \in case.edges : e.in = w /\ e.out = case.identity[w]
  BY DEF Good, BadIdentity, InEdges
<1> QED
  BY <1>1, RankBounded

LEMMA SourceSteps ==
  ASSUME case \in Cases, Good, NEW w \in V
  PROVE  /\ case.identity[w] = Rendered => SourceFrom[w] = [out |-> w, time |-> case.time[w]]
         /\ case.identity[w] = Disabled => SourceFrom[w] = [out |-> 1, time |-> NoTime]
         /\ case.identity[w] \in V => SourceFrom[w] = SourceFrom[case.identity[w]]
<1> DEFINE T == {v \in V : case.identity[v] \in {Rendered, Disabled}}
           base == [v \in V |-> IF case.identity[v] = Rendered
                                THEN [out |-> v, time |-> case.time[v]]
                                ELSE [out |-> 1, time |-> NoTime]]
           next == [v \in V |-> case.identity[v]]
<1>1. \A v \in V \ T : next[v] \in V /\ Rank[next[v]] < Rank[v]
  BY CaseFacts, IdentityEdge
<1>2. \E f : Follows(f, V, T, base, next)
  <2> HIDE DEF T, base, next
  <2> QED
    BY <1>1, RankBounded, Chase
<1> DEFINE Is(f) == f = [v \in V |-> CASE case.identity[v] = Rendered -> [out |-> v, time |-> case.time[v]]
                                       [] case.identity[v] = Disabled -> [out |-> 1, time |-> NoTime]
                                       [] OTHER -> f[case.identity[v]]]
<1>3. PICK f : f = [v \in V |-> IF v \in T THEN base[v] ELSE f[next[v]]]
  BY <1>2 DEF Follows
<1>4. \A v \in V : (IF v \in T THEN base[v] ELSE f[next[v]])
                     = CASE case.identity[v] = Rendered -> [out |-> v, time |-> case.time[v]]
                         [] case.identity[v] = Disabled -> [out |-> 1, time |-> NoTime]
                         [] OTHER -> f[case.identity[v]]
  BY CaseFacts
<1>5. Is(f)
  <2> HIDE DEF T, base, next
  <2> QED
    BY <1>3, <1>4
<1>6. SourceFrom = CHOOSE g : Is(g)
  BY DEF SourceFrom
<1>7. Is(SourceFrom)
  <2> HIDE DEF Is
  <2> QED
    BY <1>5, <1>6
<1> QED
  BY <1>7, CaseFacts

LEMMA StandsSteps ==
  ASSUME case \in Cases, Good, NEW w \in V
  PROVE  StandsFor[w] = IF case.identity[w] \in V THEN StandsFor[case.identity[w]] ELSE w
<1> DEFINE T == {v \in V : case.identity[v] \notin V}
           base == [v \in V |-> v]
           next == [v \in V |-> case.identity[v]]
<1>1. \A v \in V \ T : next[v] \in V /\ Rank[next[v]] < Rank[v]
  BY IdentityEdge
<1>2. \E f : Follows(f, V, T, base, next)
  <2> HIDE DEF T, base, next
  <2> QED
    BY <1>1, RankBounded, Chase
<1> DEFINE Is(f) == f = [v \in V |-> IF case.identity[v] \in V THEN f[case.identity[v]] ELSE v]
<1>3. PICK f : f = [v \in V |-> IF v \in T THEN base[v] ELSE f[next[v]]]
  BY <1>2 DEF Follows
<1>4. \A v \in V : (IF v \in T THEN base[v] ELSE f[next[v]])
                     = IF case.identity[v] \in V THEN f[case.identity[v]] ELSE v
  OBVIOUS
<1>5. Is(f)
  <2> HIDE DEF T, base, next
  <2> QED
    BY <1>3, <1>4
<1>6. StandsFor = CHOOSE g : Is(g)
  BY DEF StandsFor
<1>7. Is(StandsFor)
  <2> HIDE DEF Is
  <2> QED
    BY <1>5, <1>6
<1> QED
  BY <1>7

(* A search ends at a rendered vertex, or names the first one at no time.  *)
LEMMA SourceTyped ==
  ASSUME case \in Cases, Good, NEW w \in V
  PROVE  LET s == SourceFrom[w]
         IN  /\ s.out \in V
             /\ \/ s.time = case.time[s.out] /\ case.identity[s.out] = Rendered
                \/ s.time = NoTime
<1> DEFINE P(v) == LET s == SourceFrom[v]
                   IN  /\ s.out \in V
                       /\ \/ s.time = case.time[s.out] /\ case.identity[s.out] = Rendered
                          \/ s.time = NoTime
           S == {v \in V : P(v)}
<1>1. ASSUME NEW v \in V, \A u \in V : Rank[u] < Rank[v] => u \in S
      PROVE  v \in S
  <2>1. CASE case.identity[v] = Rendered
    <3>1. SourceFrom[v] = [out |-> v, time |-> case.time[v]]
      BY <2>1, SourceSteps
    <3> QED
      BY <2>1, <3>1
  <2>2. CASE case.identity[v] = Disabled
    <3>1. SourceFrom[v] = [out |-> 1, time |-> NoTime] /\ 1 \in V
      BY <2>2, SourceSteps, CaseFacts
    <3> QED
      BY <3>1
  <2>3. CASE case.identity[v] \in V
    <3>1. case.identity[v] \in S
      BY <1>1, <2>3, IdentityEdge
    <3>2. SourceFrom[v] = SourceFrom[case.identity[v]]
      BY <2>3, SourceSteps
    <3> QED
      BY <3>1, <3>2
  <2> QED
    BY <2>1, <2>2, <2>3, CaseFacts
<1>2. Rank \in [V -> Nat]
  BY RankBounded
<1>3. V \subseteq S
  <2> HIDE DEF S
  <2> QED
    BY <1>1, <1>2, RankInduction
<1> QED
  BY <1>3

(* Without disabled vertices it ends at the vertex w stands for. *)
LEMMA SourceStands ==
  ASSUME case \in Cases, Good, \A v \in V : ~IsDisabled(v), NEW w \in V
  PROVE  /\ StandsFor[w] \in V /\ case.identity[StandsFor[w]] = Rendered
         /\ SourceFrom[w] = [out |-> StandsFor[w], time |-> case.time[StandsFor[w]]]
<1> DEFINE P(v) == /\ StandsFor[v] \in V /\ case.identity[StandsFor[v]] = Rendered
                   /\ SourceFrom[v] = [out |-> StandsFor[v], time |-> case.time[StandsFor[v]]]
           S == {v \in V : P(v)}
<1>1. ASSUME NEW v \in V, \A u \in V : Rank[u] < Rank[v] => u \in S
      PROVE  v \in S
  <2>1. CASE case.identity[v] = Rendered
    BY <2>1, SourceSteps, StandsSteps, CaseFacts
  <2>2. CASE case.identity[v] \in V
    <3>1. case.identity[v] \in S
      BY <1>1, <2>2, IdentityEdge
    <3>2. SourceFrom[v] = SourceFrom[case.identity[v]] /\ StandsFor[v] = StandsFor[case.identity[v]]
      BY <2>2, SourceSteps, StandsSteps
    <3> QED
      BY <3>1, <3>2
  <2>3. case.identity[v] # Disabled
    BY CaseFacts DEF IsDisabled
  <2> QED
    BY <2>1, <2>2, <2>3, CaseFacts
<1>2. Rank \in [V -> Nat]
  BY RankBounded
<1>3. V \subseteq S
  <2> HIDE DEF S
  <2> QED
    BY <1>1, <1>2, RankInduction
<1> QED
  BY <1>3

-----------------------------------------------------------------------------
(* The inductive invariant.                                                *)

(* The edge e was made for a user u of a vertex that is bypassed. *)
MadeFor(e, u) ==
  /\ e.in = u.in /\ e.clip = u.clip
  /\ e.out = Source(u.out).out /\ e.time = Source(u.out).time

(* While identities are bypassed and after: the edges that are left are    *)
(* those of the graph between vertices that are left, and those made to    *)
(* go around the removed ones.                                             *)
EdgesInv ==
  /\ Good
  /\ IsFiniteSet(edges)
  /\ \A v \in removed : IsIdentity(v)
  /\ \A v \in removed : \A w \in Behind(v, case.edges) \ {v} : IsIdentity(w) => w \in removed
  /\ \A e \in edges : e.in \notin removed
  /\ \A e \in edges : e.out \in removed => e.time = NoTime
  /\ \A e \in case.edges : e.in \notin removed /\ e.out \notin removed => e \in edges
  /\ \A e \in edges \ case.edges :
       \E u \in case.edges : u.out \in removed /\ ~IsDisabled(u.out) /\ MadeFor(e, u)
  /\ (\A v \in V : ~IsDisabled(v)) =>
       \A u \in case.edges :
         u.in \notin removed /\ u.out \in removed => \E e \in edges : MadeFor(e, u)

Idle ==
  /\ bound = {} /\ toRelease = {} /\ done = {} /\ cached = {} /\ outCache = {}
  /\ current = Output /\ step = "none"
  /\ outDegree = [v \in V |-> 0] /\ refs = [v \in V |-> 0]

RealEdges == {e \in edges : e.in # Output}

BakedInv ==
  /\ \A v \in V : IsIdentity(v) => v \in removed
  /\ outDegree = [v \in V |-> Cardinality(OutEdges(v, edges))]
  /\ bound = {e \in RealEdges : \A f \in InEdges(e.in, edges) : f.clip = e.clip => f.out <= e.out}
  /\ \A p \in connected : \E e \in RealEdges :
       p = <<<<case.node[e.in], e.clip>>, case.node[e.out]>>

(* The vertices are processed one at a time, each after its inputs. *)
StepInv ==
  /\ current = Output <=> step = "none"
  /\ current # Output => /\ current \in Reachable \ done
                         /\ \A e \in InEdges(current, edges) : e.out \in done
  /\ done \subseteq Reachable
  /\ \A e \in edges : e.in \in done => e.out \in done
  /\ step \in {"allocate", "render"} => toRelease = InEdges(current, bound)
  /\ step = "release" => toRelease \subseteq InEdges(current, bound)
  /\ step \in {"none", "deliver"} => toRelease = {}
  /\ done \cap Final \subseteq outCache
  /\ phase = "done" => Reachable \subseteq done

(* The edges that can still have the image of v read. *)
Waiting(v) == {e \in bound \ Released : e.out = v /\ e.time = case.time[v]}

CountInv ==
  OneSourceNode => \A v \in Declared :
    /\ refs[v] >= Cardinality(Waiting(v))
    /\ phase = "process" /\ refs[v] >= 1 => v \in cached

ExactInv ==
  OneSourceNode /\ bound = {e \in case.edges : e.in # Output}
    => \A v \in V : refs[v] = IF v \in Declared THEN Cardinality(Waiting(v)) ELSE 0

ReadsInv ==
  OneSourceNode => \A v \in done \cup ({current} \ {Output}) :
    reads[v] = {<<e.clip, e.out>> : e \in InEdges(v, bound)}

Running == BakedInv /\ StepInv /\ CountInv /\ ExactInv /\ ReadsInv

IInv ==
  /\ TypeOK
  /\ case \in Cases
  /\ phase = "identities" => edges = case.edges /\ removed = {}
  /\ phase \in {"remove", "process", "done"} => EdgesInv
  /\ phase \in {"identities", "remove"} => Idle
  /\ phase \in {"process", "done"} => Running
  /\ ReadsDeclaredSources

-----------------------------------------------------------------------------
(* What depends on the graph and the answers alone.                        *)

LEMMA CaseSame ==
  ASSUME case' = case
  PROVE  /\ V' = V /\ Final' = Final /\ Good' = Good
         /\ SourceFrom' = SourceFrom /\ StandsFor' = StandsFor
         /\ \A v : /\ IsIdentity(v)' = IsIdentity(v) /\ IsDisabled(v)' = IsDisabled(v)
                   /\ Source(v)' = Source(v) /\ DeclaredSources(v)' = DeclaredSources(v)
                   /\ OneFrame(v)' = OneFrame(v)
<1>1. V' = V
  BY DEF V, Vertices
<1>2. Final' = Final
  BY DEF Final, InEdges
<1>3. Good' = Good
  BY <1>1 DEF Good, BadIdentity, InEdges
<1>4. SourceFrom' = SourceFrom
  BY <1>1 DEF SourceFrom
<1>5. StandsFor' = StandsFor
  BY <1>1 DEF StandsFor
<1>6. \A v : IsIdentity(v)' = IsIdentity(v) /\ IsDisabled(v)' = IsDisabled(v)
  BY DEF IsIdentity, IsDisabled
<1>7. \A v : Source(v)' = Source(v)
  BY <1>4 DEF Source
<1>8. \A v : DeclaredSources(v)' = DeclaredSources(v)
  BY <1>5 DEF DeclaredSources, InEdges
<1>9. \A v : OneFrame(v)' = OneFrame(v)
  BY DEF OneFrame, InEdges
<1> QED
  BY <1>1, <1>2, <1>3, <1>4, <1>5, <1>6, <1>7, <1>8, <1>9

LEMMA EdgesSame ==
  ASSUME UNCHANGED <<case, edges, removed>>
  PROVE  EdgesInv' = EdgesInv
BY CaseSame DEF EdgesInv, MadeFor

LEMMA SetupSame ==
  ASSUME UNCHANGED setupVars
  PROVE  /\ EdgesInv' = EdgesInv /\ BakedInv' = BakedInv
         /\ Reachable' = Reachable /\ OneSourceNode' = OneSourceNode
         /\ \A e : (e \in RealEdges)' = (e \in RealEdges)
<1>1. case' = case /\ edges' = edges /\ removed' = removed /\ bound' = bound
      /\ connected' = connected /\ outDegree' = outDegree
  BY DEF setupVars
<1>2. EdgesInv' = EdgesInv
  BY <1>1, EdgesSame
<1>3. RealEdges' = RealEdges
  BY <1>1 DEF RealEdges
<1>4. BakedInv' = BakedInv
  BY <1>1, <1>3, CaseSame DEF BakedInv, InEdges, OutEdges
<1>5. Reachable' = Reachable
  BY <1>1 DEF Reachable
<1>6. OneSourceNode' = OneSourceNode
  BY <1>1 DEF OneSourceNode
<1> QED
  BY <1>2, <1>3, <1>4, <1>5, <1>6

LEMMA ReadsDeclaredSame ==
  ASSUME ReadsDeclaredSources, UNCHANGED <<case, edges, done, reads>>
  PROVE  ReadsDeclaredSources'
<1>1. OneSourceNode' = OneSourceNode
  BY DEF OneSourceNode
<1> QED
  BY <1>1, CaseSame DEF ReadsDeclaredSources

(* A step that gives up only has types to keep. *)
LEMMA GivesUp ==
  ASSUME IInv, phase' \in {"failed", "cleared"}, UNCHANGED <<case, edges, done, reads>>, TypeOK'
  PROVE  IInv'
BY ReadsDeclaredSame DEF IInv

LEMMA InitInv ==
  Init => IInv
<1> SUFFICES ASSUME Init PROVE IInv
  OBVIOUS
<1> USE DEF Init
<1>1. TypeOK
  <2>1. \A e \in edges : /\ e.in \in V \cup {Output} /\ e.out \in V
                         /\ e.time \in {NoTime, case.time[e.out]}
                         /\ \E u \in case.edges : e.in = u.in /\ e.clip = u.clip
    BY CaseFacts
  <2>2. Cardinality(edges) \in Nat
    BY CaseFacts, FS_CardinalityType
  <2> QED
    BY <2>1, <2>2 DEF TypeOK
<1>2. ReadsDeclaredSources
  BY DEF ReadsDeclaredSources
<1> QED
  BY <1>1, <1>2 DEF IInv, Idle

LEMMA CollectIdentitiesInv ==
  ASSUME IInv, CollectIdentities
  PROVE  IInv'
<1> USE DEF CollectIdentities
<1>1. UNCHANGED <<case, edges, removed, bound, connected, outDegree, current, step, toRelease,
                  done, cached, refs, outCache, reads>>
  BY DEF setupVars, processVars, cacheVars
<1>2. TypeOK'
  BY <1>1, CaseSame DEF TypeOK, IInv
<1>3. CASE \E v \in V : BadIdentity(v)
  BY <1>1, <1>2, <1>3, GivesUp
<1>4. CASE \A v \in V : ~BadIdentity(v)
  <2>1. phase' = "remove" /\ case \in Cases /\ edges = case.edges /\ removed = {}
    BY <1>4 DEF IInv
  <2>2. EdgesInv
    <3>1. IsFiniteSet(edges)
      BY <2>1, CaseFacts
    <3> QED
      BY <1>4, <2>1, <3>1 DEF EdgesInv, Good
  <2>3. EdgesInv'
    BY <1>1, <2>2, SetupSame DEF setupVars
  <2>4. Idle'
    BY <1>1, CaseSame DEF IInv, Idle
  <2>5. ReadsDeclaredSources'
    BY <1>1, ReadsDeclaredSame DEF IInv
  <2> QED
    BY <1>1, <1>2, <2>1, <2>3, <2>4, <2>5 DEF IInv
<1> QED
  BY <1>3, <1>4

LEMMA RemoveIdentityInv ==
  ASSUME IInv, NEW v \in V, RemoveIdentity(v)
  PROVE  IInv'
<1> DEFINE added == IF IsDisabled(v) THEN {}
                    ELSE {Rerouted(u, Source(v)) : u \in OutEdges(v, case.edges)}
<1>1. UNCHANGED <<case, bound, connected, outDegree, current, step, toRelease, done,
                  cached, refs, outCache, reads>>
  BY DEF RemoveIdentity, processVars, cacheVars
<1>2. TypeOK /\ case \in Cases /\ EdgesInv /\ Idle /\ ReadsDeclaredSources
  BY DEF IInv, RemoveIdentity
<1>3. IsIdentity(v) /\ v \notin removed
      /\ \A u \in Behind(v, case.edges) \ {v} : IsIdentity(u) => u \in removed
  BY DEF RemoveIdentity
<1>4. ~IsDisabled(v) => /\ case.identity[v] \in V /\ Source(v).out \in V
                        /\ Source(v).out \in removed \cup {v} => Source(v).time = NoTime
                        /\ Source(v).time \in {NoTime, case.time[Source(v).out]}
  <2> SUFFICES ASSUME ~IsDisabled(v)
               PROVE  /\ case.identity[v] \in V /\ Source(v).out \in V
                      /\ Source(v).out \in removed \cup {v} => Source(v).time = NoTime
                      /\ Source(v).time \in {NoTime, case.time[Source(v).out]}
    OBVIOUS
  <2>1. case.identity[v] \in V
    BY <1>2, <1>3, CaseFacts DEF IsIdentity, IsDisabled
  <2>2. /\ Source(v).out \in V
        /\ \/ Source(v).time = case.time[Source(v).out] /\ case.identity[Source(v).out] = Rendered
           \/ Source(v).time = NoTime
    BY <2>1, <1>2, SourceTyped DEF Source, EdgesInv
  <2>3. \A w \in removed \cup {v} : case.identity[w] # Rendered
    BY <1>2, <1>3 DEF EdgesInv, IsIdentity
  <2> QED
    BY <2>1, <2>2, <2>3
<1>5. \A e \in added : \E u \in OutEdges(v, case.edges) : ~IsDisabled(v) /\ e = Rerouted(u, Source(v))
  OBVIOUS
<1>6. \A e \in added :
        \E u \in case.edges : u.out = v /\ ~IsDisabled(v) /\ MadeFor(e, u) /\ e.in \notin removed \cup {v}
  <2> TAKE e \in added
  <2>1. PICK u \in OutEdges(v, case.edges) : ~IsDisabled(v) /\ e = Rerouted(u, Source(v))
    BY <1>5
  <2>2. u \in case.edges /\ u.out = v
    BY <2>1 DEF OutEdges
  <2>3. MadeFor(e, u)
    BY <2>1, <2>2 DEF MadeFor, Rerouted
  <2>4. u.in # v
    BY <1>2, <2>2, CaseFacts
  <2>5. u.in \notin removed
    <3>1. v \in Behind(u.in, case.edges) \ {u.in}
      BY <2>2, <2>4, BehindSelf, BehindClosed
    <3> QED
      BY <3>1, <1>2, <1>3 DEF EdgesInv
  <2> QED
    BY <2>1, <2>2, <2>3, <2>4, <2>5 DEF MadeFor
<1>7. CASE \E e \in added : Refused(e, edges \cup {f \in added : f.n < e.n})
  <2>1. phase' = "failed" /\ UNCHANGED <<edges, removed>>
    BY <1>7 DEF RemoveIdentity
  <2>2. TypeOK'
    BY <1>1, <1>2, <2>1, CaseSame DEF TypeOK
  <2> QED
    BY <1>1, <2>1, <2>2, GivesUp
<1>8. CASE ~ \E e \in added : Refused(e, edges \cup {f \in added : f.n < e.n})
  <2>1. /\ edges' = {e \in edges \cup added : e.in # v /\ e.out # v}
        /\ removed' = removed \cup {v} /\ phase' = "remove"
    BY <1>8 DEF RemoveIdentity
  <2> HIDE DEF added
  <2>2. IsFiniteSet(edges')
    <3>1. IsFiniteSet(OutEdges(v, case.edges))
      BY <1>2, CaseFacts, FS_Subset DEF OutEdges
    <3>2. IsFiniteSet(added)
      <4>1. CASE IsDisabled(v)
        BY <4>1, FS_EmptySet DEF added
      <4>2. CASE ~IsDisabled(v)
        <5> DEFINE f == [u \in OutEdges(v, case.edges) |-> Rerouted(u, Source(v))]
        <5>1. f \in Surjection(OutEdges(v, case.edges), added)
          BY <4>2 DEF Surjection, added
        <5> QED
          BY <5>1, <3>1, FS_Surjection
      <4> QED
        BY <4>1, <4>2
    <3>3. IsFiniteSet(edges \cup added)
      BY <1>2, <3>2, FS_Union DEF EdgesInv
    <3> QED
      BY <2>1, <3>3, FS_Subset
  <2>3. TypeOK'
    <3>1. \A e \in added : /\ e.in \in V \cup {Output} /\ e.out \in V
                           /\ e.time \in {NoTime, case.time[e.out]}
                           /\ \E u \in case.edges : e.in = u.in /\ e.clip = u.clip
      BY <1>2, <1>4, <1>6, CaseFacts DEF MadeFor
    <3>2. Cardinality(edges') \in Nat
      BY <2>2, FS_CardinalityType
    <3>3. \A e \in edges' : /\ e.in \in V \cup {Output} /\ e.out \in V
                           /\ e.time \in {NoTime, case.time[e.out]}
                           /\ \E u \in case.edges : e.in = u.in /\ e.clip = u.clip
      BY <1>2, <3>1, <2>1 DEF TypeOK
    <3>4. bound' \subseteq edges' /\ outDegree' \in [V -> 0 .. Cardinality(edges')]
      BY <1>1, <1>2, <3>2 DEF Idle
    <3> QED
      BY <1>1, <1>2, <2>1, <3>3, <3>4, CaseSame DEF TypeOK
  <2>4. EdgesInv'
    <3>1. Good /\ \A w \in removed' : IsIdentity(w)
      BY <1>2, <1>3, <2>1 DEF EdgesInv
    <3>2. \A w \in removed' : \A u \in Behind(w, case.edges) \ {w} : IsIdentity(u) => u \in removed'
      BY <1>2, <1>3, <2>1 DEF EdgesInv
    <3>3. \A e \in edges' : e.in \notin removed' /\ (e.out \in removed' => e.time = NoTime)
      BY <1>2, <1>4, <1>6, <2>1 DEF EdgesInv, MadeFor
    <3>4. \A e \in case.edges : e.in \notin removed' /\ e.out \notin removed' => e \in edges'
      BY <1>2, <2>1 DEF EdgesInv
    <3>5. \A e \in edges' \ case.edges :
            \E u \in case.edges : u.out \in removed' /\ ~IsDisabled(u.out) /\ MadeFor(e, u)
      BY <1>2, <1>6, <2>1 DEF EdgesInv
    <3>6. ASSUME \A w \in V : ~IsDisabled(w), NEW u \in case.edges, u.in \notin removed', u.out \in removed'
          PROVE  \E e \in edges' : MadeFor(e, u)
      <4>1. /\ u.out \in V /\ case.identity[u.out] \in V
            /\ Source(u.out).out \in V /\ case.identity[Source(u.out).out] = Rendered
        <5>1. u.out \in V
          BY <1>2, <3>6, CaseFacts
        <5>2. case.identity[u.out] \in V
          BY <1>2, <3>1, <3>6, <5>1, CaseFacts DEF IsIdentity, IsDisabled
        <5> DEFINE w == case.identity[u.out]
        <5>3. /\ StandsFor[w] \in V /\ case.identity[StandsFor[w]] = Rendered
              /\ Source(u.out) = [out |-> StandsFor[w], time |-> case.time[StandsFor[w]]]
          <6> HIDE DEF w
          <6>1. Good /\ case \in Cases /\ w \in V
            BY <1>2, <5>2 DEF w, EdgesInv
          <6>2. Source(u.out) = SourceFrom[w]
            BY DEF w, Source
          <6> QED
            BY <3>6, <6>1, <6>2, SourceStands
        <5> QED
          BY <5>1, <5>2, <5>3
      <4>2. Source(u.out).out # v /\ u.in # v
        BY <1>3, <2>1, <3>6, <4>1 DEF IsIdentity
      <4>3. CASE u.out = v
        <5>1. ~IsDisabled(v) /\ u \in OutEdges(v, case.edges)
          BY <3>6, <4>3 DEF OutEdges
        <5>2. Rerouted(u, Source(v)) \in added
          BY <5>1 DEF added
        <5>3. MadeFor(Rerouted(u, Source(v)), u)
          BY <4>3 DEF MadeFor, Rerouted
        <5> QED
          BY <2>1, <4>2, <4>3, <5>2, <5>3 DEF MadeFor
      <4>4. CASE u.out # v
        <5>1. PICK e \in edges : MadeFor(e, u)
          BY <1>2, <2>1, <3>6, <4>4 DEF EdgesInv
        <5> QED
          BY <2>1, <4>2, <5>1 DEF MadeFor
      <4> QED
        BY <4>3, <4>4
    <3>7. \A e, u : MadeFor(e, u)' = MadeFor(e, u)
      BY <1>1, CaseSame DEF MadeFor
    <3> QED
      BY <1>1, <2>2, <3>1, <3>2, <3>3, <3>4, <3>5, <3>6, <3>7, CaseSame DEF EdgesInv
  <2>5. Idle'
    BY <1>1, <1>2, CaseSame DEF Idle
  <2>6. ReadsDeclaredSources'
    BY <1>1, <1>2 DEF ReadsDeclaredSources, Idle
  <2> QED
    BY <1>1, <1>2, <2>1, <2>3, <2>4, <2>5, <2>6 DEF IInv
<1> QED
  BY <1>7, <1>8

LEMMA BakeInv ==
  ASSUME IInv, Bake
  PROVE  IInv'
<1>1. /\ UNCHANGED <<case, edges, removed, current, step, toRelease, done, cached, refs, outCache, reads>>
      /\ phase' = "process"
  BY DEF Bake, processVars, cacheVars
<1>2. TypeOK /\ case \in Cases /\ EdgesInv /\ Idle /\ ReadsDeclaredSources
  BY DEF IInv, Bake
<1>3. BakedInv'
  <2>1. \A v \in V : IsIdentity(v) => v \in removed
    BY DEF Bake
  <2>2. outDegree' = [v \in V |-> Cardinality(OutEdges(v, edges))]
    BY DEF Bake
  <2>3. bound' = {e \in RealEdges : \A f \in InEdges(e.in, edges) : f.clip = e.clip => f.out <= e.out}
    BY DEF Bake, RealEdges
  <2>4. \A p \in connected' : \E e \in RealEdges :
          p = <<<<case.node[e.in], e.clip>>, case.node[e.out]>>
    BY DEF Bake, RealEdges
  <2>5. RealEdges' = RealEdges
    BY <1>1 DEF RealEdges
  <2> QED
    BY <1>1, <2>1, <2>2, <2>3, <2>4, <2>5, CaseSame DEF BakedInv, InEdges, OutEdges
<1>4. TypeOK'
  <2>1. \A v \in V : Cardinality(OutEdges(v, edges)) \in 0 .. Cardinality(edges)
    <3> TAKE v \in V
    <3>1. IsFiniteSet(edges) /\ OutEdges(v, edges) \subseteq edges
      BY <1>2 DEF EdgesInv, OutEdges
    <3> QED
      BY <3>1, FS_Subset, FS_CardinalityType
  <2>2. outDegree' \in [V -> 0 .. Cardinality(edges)]
    BY <2>1 DEF Bake
  <2>3. bound' \subseteq edges
    BY DEF Bake
  <2> QED
    BY <1>1, <1>2, <2>2, <2>3, CaseSame DEF TypeOK, Idle
<1>5. EdgesInv'
  BY <1>1, <1>2, EdgesSame
<1>6. StepInv'
  BY <1>1, <1>2 DEF StepInv, Idle
<1>7. Declared' = {}
  BY <1>1, <1>2 DEF Declared, Idle
<1>8. CountInv' /\ ExactInv'
  BY <1>1, <1>2, <1>7, CaseSame DEF CountInv, ExactInv, Idle
<1>9. ReadsInv'
  BY <1>1, <1>2 DEF ReadsInv, Idle
<1>10. ReadsDeclaredSources'
  BY <1>1, <1>2, ReadsDeclaredSame
<1> QED
  BY <1>1, <1>2, <1>3, <1>4, <1>5, <1>6, <1>8, <1>9, <1>10 DEF IInv, Running

-----------------------------------------------------------------------------
(* The steps of process.                                                   *)

(* When the clips keep one node each, an edge finds its own source or none. *)
LEMMA FoundIsSource ==
  ASSUME TypeOK, case \in Cases, BakedInv, OneSourceNode, NEW e \in bound, NEW w \in Found(e)
  PROVE  w = e.out /\ e.time = case.time[e.out]
<1>1. e \in RealEdges /\ e.out \in V /\ e.time \in {NoTime, case.time[e.out]}
  BY DEF BakedInv, RealEdges, TypeOK
<1>2. /\ w \in V /\ case.time[w] = e.time
      /\ <<<<case.node[e.in], e.clip>>, case.node[w]>> \in connected
  BY DEF Found, TypeOK
<1>3. PICK x \in RealEdges : <<<<case.node[e.in], e.clip>>, case.node[w]>>
                               = <<<<case.node[x.in], x.clip>>, case.node[x.out]>>
  BY <1>2 DEF BakedInv
<1>4. case.node[w] = case.node[e.out]
  BY <1>1, <1>3 DEF OneSourceNode, RealEdges
<1>5. e.time # NoTime
  BY <1>2, CaseFacts DEF IsFrame, V
<1> QED
  BY <1>1, <1>2, <1>4, <1>5, CaseFacts DEF IsFrame, V

(* The accounts of references hold on while nothing is declared, released  *)
(* or dropped in use.                                                      *)
LEMMA AccountSame ==
  ASSUME phase = "process", CountInv, ExactInv, UNCHANGED <<setupVars, refs>>,
         Released' = Released, Declared' = Declared,
         \A v \in cached : refs[v] >= 1 => v \in cached'
  PROVE  CountInv' /\ ExactInv'
<1>1. case' = case /\ bound' = bound /\ V' = V
  BY CaseSame DEF setupVars
<1>2. OneSourceNode' = OneSourceNode
  BY SetupSame
<1>3. \A v : Waiting(v)' = Waiting(v)
  BY <1>1 DEF Waiting
<1>4. CountInv'
  BY <1>2, <1>3 DEF CountInv
<1>5. ExactInv'
  BY <1>1, <1>2, <1>3 DEF ExactInv
<1> QED
  BY <1>4, <1>5

(* What a step of process or of another computation starts from. *)
LEMMA Processing ==
  ASSUME IInv, phase = "process"
  PROVE  /\ TypeOK /\ case \in Cases /\ EdgesInv /\ ReadsDeclaredSources
         /\ BakedInv /\ StepInv /\ CountInv /\ ExactInv /\ ReadsInv
BY DEF IInv, Running

(* What is left to show of a step of process. *)
LEMMA Processed ==
  ASSUME IInv, phase = "process", phase' \in {"process", "done"}, UNCHANGED setupVars,
         TypeOK', StepInv', CountInv', ExactInv', ReadsInv', ReadsDeclaredSources'
  PROVE  IInv'
<1>1. case' = case
  BY DEF setupVars
<1> QED
  BY <1>1, Processing, SetupSame DEF IInv, Running

LEMMA AcquireInv ==
  ASSUME IInv, NEW v \in V, Acquire(v)
  PROVE  IInv'
<1> DEFINE ins == InEdges(v, bound)
<1>1. /\ phase = "process" /\ current = Output /\ v \in Reachable \ done
      /\ \A e \in InEdges(v, edges) : e.out \in done
      /\ UNCHANGED <<setupVars, cached, refs, outCache>>
  BY DEF Acquire, cacheVars
<1>2. Output \notin V /\ step = "none" /\ toRelease = {}
  BY <1>1, Processing, CaseFacts DEF StepInv
<1>3. case' = case /\ edges' = edges /\ V' = V
  BY <1>1, CaseSame DEF setupVars
<1>4. CASE \E e \in ins : Found(e) = {}
  <2>1. phase' = "failed" /\ UNCHANGED <<current, step, toRelease, done, reads>>
    BY <1>4 DEF Acquire, Fail, processVars
  <2>2. TypeOK'
    BY <1>1, <1>3, <2>1, Processing, CaseSame DEF TypeOK, setupVars
  <2> QED
    BY <1>3, <2>1, <2>2, GivesUp
<1>5. CASE ~ \E e \in ins : Found(e) = {}
  <2>1. /\ current' = v /\ step' = "allocate" /\ toRelease' = ins
        /\ reads' = [reads EXCEPT ![v] = UNION {{e.clip} \X Found(e) : e \in ins}]
        /\ phase' = "process" /\ done' = done
    BY <1>1, <1>5 DEF Acquire
  <2>2. TypeOK'
    <3>1. \A e \in ins : e.clip \in {u.clip : u \in case.edges} /\ Found(e) \subseteq V
      BY <1>1, Processing DEF InEdges, TypeOK, Found
    <3>2. UNION {{e.clip} \X Found(e) : e \in ins} \in SUBSET ({u.clip : u \in case.edges} \X V)
      BY <3>1
    <3>3. reads' \in [V -> SUBSET ({u.clip : u \in case.edges} \X V)]
      BY <1>1, <2>1, <3>2, Processing DEF TypeOK
    <3>4. ins \subseteq bound
      BY DEF InEdges
    <3> QED
      BY <1>1, <1>3, <2>1, <3>3, <3>4, Processing DEF TypeOK, setupVars
  <2>3. StepInv'
    <3>1. Final' = Final /\ Reachable' = Reachable /\ bound' = bound
      BY <1>1, SetupSame, CaseSame DEF setupVars
    <3> QED
      BY <1>1, <1>2, <1>3, <2>1, <3>1, Processing DEF StepInv, InEdges
  <2>4. Declared' = Declared
    BY <1>2, <2>1 DEF Declared
  <2>5. Released' = Released
    BY <1>1, <1>2, <2>1 DEF Released, InEdges, setupVars
  <2>6. CountInv' /\ ExactInv'
    BY <1>1, <2>4, <2>5, Processing, AccountSame
  <2>7. ReadsInv'
    <3>1. OneSourceNode' = OneSourceNode
      BY <1>1, SetupSame
    <3>2. bound' = bound
      BY <1>1 DEF setupVars
    <3>3. ASSUME OneSourceNode
          PROVE  reads'[v] = {<<e.clip, e.out>> : e \in ins}
      <4>1. \A e \in ins : Found(e) = {e.out}
        BY <1>1, <1>5, <3>3, Processing, FoundIsSource DEF InEdges
      <4>2. reads'[v] = UNION {{e.clip} \X Found(e) : e \in ins}
        BY <1>1, <2>1, Processing DEF TypeOK
      <4>3. UNION {{e.clip} \X Found(e) : e \in ins} = {<<e.clip, e.out>> : e \in ins}
        BY <4>1
      <4> QED
        BY <4>2, <4>3
    <3>4. \A w \in done : reads'[w] = reads[w]
      BY <1>1, <2>1, Processing DEF TypeOK
    <3> QED
      BY <1>1, <1>2, <2>1, <3>1, <3>2, <3>3, <3>4, Processing DEF ReadsInv, InEdges
  <2>8. ReadsDeclaredSources'
    <3>1. \A w \in done : reads'[w] = reads[w]
      BY <1>1, <2>1, Processing DEF TypeOK
    <3>2. OneSourceNode' = OneSourceNode
      BY <1>1, SetupSame
    <3> QED
      BY <1>3, <2>1, <3>1, <3>2, Processing, <1>1, CaseSame DEF ReadsDeclaredSources
  <2> QED
    BY <1>1, <2>1, <2>2, <2>3, <2>6, <2>7, <2>8, Processed
<1> QED
  BY <1>4, <1>5

LEMMA AllocateInv ==
  ASSUME IInv, AllocateAndPut
  PROVE  IInv'
<1>1. /\ phase = "process" /\ step = "allocate"
      /\ UNCHANGED <<setupVars, current, toRelease, done, outCache, reads>>
      /\ UNCHANGED <<case, edges, bound>>
  BY DEF AllocateAndPut, setupVars
<1>2. V' = V /\ Final' = Final /\ Reachable' = Reachable /\ OneSourceNode' = OneSourceNode
  BY <1>1, SetupSame, CaseSame
<1>3. current # Output /\ current \in V /\ current \notin done /\ toRelease = InEdges(current, bound)
  BY <1>1, Processing DEF StepInv, TypeOK
<1>4. CASE phase' = "failed" /\ UNCHANGED <<step, cached, refs>>
  <2>1. TypeOK'
    BY <1>1, <1>2, <1>4, Processing DEF TypeOK, setupVars
  <2> QED
    BY <1>1, <1>4, <2>1, GivesUp
<1>5. CASE /\ cached' = cached \cup {current}
           /\ refs' = [refs EXCEPT ![current] = 0]
           /\ step' = "render" /\ phase' = "process"
  <2>1. TypeOK'
    BY <1>1, <1>2, <1>3, <1>5, Processing DEF TypeOK, setupVars
  <2>2. StepInv'
    BY <1>1, <1>2, <1>3, <1>5, Processing DEF StepInv, InEdges
  <2>3. Declared = done /\ Declared' = done
    BY <1>1, <1>5 DEF Declared
  <2>4. Released' = Released
    BY <1>1, <1>3, <1>5 DEF Released
  <2>5. \A v : Waiting(v)' = Waiting(v)
    BY <1>1, <2>4 DEF Waiting
  <2>6. \A v \in V : v # current => refs'[v] = refs[v]
    BY <1>1, <1>5, Processing DEF TypeOK
  <2>7. refs'[current] = 0 /\ done \subseteq V
    BY <1>1, <1>3, <1>5, Processing DEF TypeOK
  <2>8. CountInv'
    BY <1>1, <1>2, <1>3, <1>5, <2>3, <2>5, <2>6, <2>7, Processing DEF CountInv
  <2>9. ExactInv'
    BY <1>1, <1>2, <1>3, <2>3, <2>5, <2>6, <2>7, Processing DEF ExactInv
  <2>10. ReadsInv'
    BY <1>1, <1>2, Processing DEF ReadsInv, InEdges
  <2>11. ReadsDeclaredSources'
    BY <1>1, Processing, ReadsDeclaredSame
  <2> QED
    BY <1>1, <1>5, <2>1, <2>2, <2>8, <2>9, <2>10, <2>11, Processed
<1> QED
  BY <1>1, <1>4, <1>5 DEF AllocateAndPut, Fail

LEMMA RenderInv ==
  ASSUME IInv, Render
  PROVE  IInv'
<1>1. /\ phase = "process" /\ step = "render"
      /\ UNCHANGED <<setupVars, current, toRelease, done, cached, refs, outCache, reads>>
      /\ UNCHANGED <<case, edges, bound>>
  BY DEF Render, setupVars, cacheVars
<1>2. V' = V /\ Final' = Final /\ Reachable' = Reachable /\ OneSourceNode' = OneSourceNode
  BY <1>1, SetupSame, CaseSame
<1>3. current # Output /\ current \in V /\ current \notin done /\ toRelease = InEdges(current, bound)
  BY <1>1, Processing DEF StepInv, TypeOK
<1>4. CASE phase' = "failed" /\ step' = step
  <2>1. TypeOK'
    BY <1>1, <1>2, <1>4, Processing DEF TypeOK, setupVars
  <2> QED
    BY <1>1, <1>4, <2>1, GivesUp
<1>5. CASE step' = "release" /\ phase' = "process"
  <2>1. TypeOK'
    BY <1>1, <1>2, <1>5, Processing DEF TypeOK, setupVars
  <2>2. StepInv'
    BY <1>1, <1>2, <1>3, <1>5, Processing DEF StepInv, InEdges
  <2>3. Declared' = Declared
    BY <1>1, <1>5 DEF Declared
  <2>4. Released' = Released
    BY <1>1, <1>3, <1>5 DEF Released, InEdges
  <2>5. CountInv' /\ ExactInv'
    BY <1>1, <2>3, <2>4, Processing, AccountSame
  <2>6. ReadsInv'
    BY <1>1, <1>2, Processing DEF ReadsInv, InEdges
  <2>7. ReadsDeclaredSources'
    BY <1>1, Processing, ReadsDeclaredSame
  <2> QED
    BY <1>1, <1>5, <2>1, <2>2, <2>5, <2>6, <2>7, Processed
<1> QED
  BY <1>1, <1>4, <1>5 DEF Render, Fail

LEMMA WaitingFinite ==
  ASSUME EdgesInv, BakedInv, NEW v
  PROVE  IsFiniteSet(Waiting(v)) /\ Cardinality(Waiting(v)) \in Nat
<1>1. Waiting(v) \subseteq edges /\ IsFiniteSet(edges)
  BY DEF Waiting, BakedInv, RealEdges, EdgesInv
<1> QED
  BY <1>1, FS_Subset, FS_CardinalityType

LEMMA ReleaseInputInv ==
  ASSUME IInv, NEW e \in toRelease, ReleaseInput(e)
  PROVE  IInv'
<1>1. /\ phase = "process" /\ step = "release"
      /\ UNCHANGED <<setupVars, current, step, done, cached, outCache, reads>>
      /\ UNCHANGED <<case, edges, bound>>
  BY DEF ReleaseInput, setupVars
<1>2. V' = V /\ Final' = Final /\ Reachable' = Reachable /\ OneSourceNode' = OneSourceNode
  BY <1>1, SetupSame, CaseSame
<1>3. /\ current # Output /\ current \notin done /\ toRelease \subseteq InEdges(current, bound)
      /\ e \in bound /\ e \in edges /\ e.in = current /\ e.out \in V /\ e.out \in done
  BY <1>1, Processing DEF StepInv, TypeOK, InEdges
<1>4. CASE Found(e) = {} \/ \E w \in Found(e) : refs[w] = 0
  <2>1. phase' = "failed" /\ UNCHANGED <<toRelease, refs>>
    BY <1>4 DEF ReleaseInput, Fail
  <2>2. TypeOK'
    BY <1>1, <1>2, <2>1, Processing DEF TypeOK, setupVars
  <2> QED
    BY <1>1, <2>1, <2>2, GivesUp
<1>5. CASE ~ (Found(e) = {} \/ \E w \in Found(e) : refs[w] = 0)
  <2>1. /\ refs' = [w \in V |-> IF w \in Found(e) THEN refs[w] - 1 ELSE refs[w]]
        /\ toRelease' = toRelease \ {e} /\ phase' = "process"
    BY <1>1, <1>5 DEF ReleaseInput
  <2>2. refs \in [V -> Nat] /\ refs' \in [V -> Nat]
    <3>1. refs \in [V -> Nat] /\ \A w \in Found(e) : refs[w] # 0
      BY <1>1, <1>5, Processing DEF TypeOK
    <3> QED
      BY <2>1, <3>1
  <2>3. TypeOK'
    BY <1>1, <1>2, <2>1, <2>2, Processing DEF TypeOK, setupVars
  <2>4. StepInv'
    BY <1>1, <1>2, <2>1, Processing DEF StepInv, InEdges
  <2>5. Declared' = Declared /\ Declared = done
    BY <1>1 DEF Declared
  <2>6. Released' = Released \cup {e} /\ e \notin Released
    BY <1>1, <1>3, <2>1 DEF Released
  <2>7. ASSUME OneSourceNode
        PROVE  Found(e) = {e.out} /\ e.time = case.time[e.out]
    BY <1>1, <1>3, <1>5, <2>7, Processing, FoundIsSource
  <2>8. ASSUME OneSourceNode
        PROVE  /\ Waiting(e.out)' = Waiting(e.out) \ {e} /\ e \in Waiting(e.out)
               /\ \A w : w # e.out => Waiting(w)' = Waiting(w)
    <3>1. e \in Waiting(e.out)
      BY <1>3, <2>6, <2>7, <2>8 DEF Waiting
    <3>2. \A w : Waiting(w)' = Waiting(w) \ {e}
      BY <1>1, <2>6 DEF Waiting
    <3>3. \A w : w # e.out => e \notin Waiting(w)
      BY DEF Waiting
    <3> QED
      BY <3>1, <3>2, <3>3
  <2>9. ASSUME OneSourceNode
        PROVE  /\ Cardinality(Waiting(e.out)') = Cardinality(Waiting(e.out)) - 1
               /\ refs'[e.out] = refs[e.out] - 1
               /\ \A w \in V : w # e.out => refs'[w] = refs[w] /\ Waiting(w)' = Waiting(w)
    <3>1. Cardinality(Waiting(e.out) \ {e}) = Cardinality(Waiting(e.out)) - 1
      BY <1>1, <2>8, <2>9, Processing, WaitingFinite, FS_RemoveElement
    <3> QED
      BY <1>3, <2>1, <2>7, <2>8, <2>9, <3>1
  <2>10. \A w : Cardinality(Waiting(w)) \in Nat
    BY <1>1, Processing, WaitingFinite
  <2>11. done \subseteq V
    BY <1>1, Processing DEF TypeOK
  <2>12. CountInv'
    <3> SUFFICES ASSUME OneSourceNode, NEW w \in done
                 PROVE  /\ refs'[w] >= Cardinality(Waiting(w)')
                        /\ refs'[w] >= 1 => w \in cached
      BY <1>1, <1>2, <2>5 DEF CountInv
    <3>1. refs[w] >= Cardinality(Waiting(w)) /\ (refs[w] >= 1 => w \in cached)
      BY <1>1, <2>5, Processing DEF CountInv
    <3>2. refs[w] \in Nat
      BY <2>2, <2>11
    <3> QED
      BY <2>9, <2>10, <2>11, <3>1, <3>2
  <2>13. ExactInv'
    <3> SUFFICES ASSUME OneSourceNode, bound = {f \in case.edges : f.in # Output}, NEW w \in V
                 PROVE  refs'[w] = IF w \in done THEN Cardinality(Waiting(w)') ELSE 0
      BY <1>1, <1>2, <2>5 DEF ExactInv
    <3>1. refs[w] = IF w \in done THEN Cardinality(Waiting(w)) ELSE 0
      BY <1>1, <2>5, Processing DEF ExactInv
    <3> QED
      BY <1>3, <2>9, <3>1
  <2>14. ReadsInv'
    BY <1>1, <1>2, Processing DEF ReadsInv, InEdges
  <2>15. ReadsDeclaredSources'
    BY <1>1, Processing, ReadsDeclaredSame
  <2> QED
    BY <1>1, <2>1, <2>3, <2>4, <2>12, <2>13, <2>14, <2>15, Processed
<1> QED
  BY <1>4, <1>5

(* The usages counted for a vertex are at least the edges that wait for it. *)
LEMMA UsagesCover ==
  ASSUME TypeOK, case \in Cases, EdgesInv, BakedInv, NEW v \in Reachable
  PROVE  RealOutDegree(v) \in Nat /\ RealOutDegree(v) >= Cardinality(Waiting(v))
<1>1. PICK e \in edges : e.out = v
  BY BehindEnds DEF Reachable
<1>2. v \in V /\ Output \notin V
  BY <1>1, CaseFacts DEF TypeOK
<1>3. IsFiniteSet(OutEdges(v, edges)) /\ Cardinality(OutEdges(v, edges)) \in Nat
  BY FS_Subset, FS_CardinalityType DEF EdgesInv, OutEdges
<1>4. Waiting(v) \subseteq OutEdges(v, edges)
  BY DEF Waiting, BakedInv, RealEdges, OutEdges
<1>5. outDegree[v] = Cardinality(OutEdges(v, edges))
  BY <1>2 DEF BakedInv
<1>6. CASE v \notin Final
  <2>1. Cardinality(Waiting(v)) <= Cardinality(OutEdges(v, edges))
    BY <1>3, <1>4, FS_Subset
  <2> QED
    BY <1>3, <1>5, <1>6, <2>1 DEF RealOutDegree
<1>7. CASE v \in Final
  <2>1. PICK o \in OutEdges(v, edges) : o \notin Waiting(v)
    <3>1. CASE v \in removed
      <4>1. e.time = NoTime /\ NoTime # case.time[v]
        BY <1>1, <1>2, <3>1, CaseFacts DEF EdgesInv, IsFrame, V
      <4> QED
        BY <1>1, <4>1 DEF Waiting, OutEdges
    <3>2. CASE v \notin removed
      <4>1. PICK o \in case.edges : o.in = Output /\ o.out = v
        BY <1>7 DEF Final, InEdges
      <4>2. o \in edges
        BY <1>2, <3>2, <4>1 DEF EdgesInv, TypeOK
      <4>3. o \notin Waiting(v)
        BY <4>1 DEF Waiting, BakedInv, RealEdges
      <4> QED
        BY <4>1, <4>2, <4>3 DEF OutEdges
    <3> QED
      BY <3>1, <3>2
  <2>2. Cardinality(OutEdges(v, edges) \ {o}) = Cardinality(OutEdges(v, edges)) - 1
    BY <1>3, FS_RemoveElement
  <2>3. Cardinality(Waiting(v)) <= Cardinality(OutEdges(v, edges) \ {o})
        /\ Cardinality(OutEdges(v, edges) \ {o}) \in Nat
    BY <1>3, <1>4, <2>1, FS_Subset, FS_RemoveElement, FS_CardinalityType
  <2>4. Cardinality(Waiting(v)) \in Nat
    BY WaitingFinite
  <2> QED
    BY <1>3, <1>5, <1>7, <2>2, <2>3, <2>4 DEF RealOutDegree
<1> QED
  BY <1>6, <1>7

(* The frames whose graph is left as it is: no identity stands for a       *)
(* source, and no clip was given two.                                      *)
Plain == bound = {e \in case.edges : e.in # Output}

LEMMA PlainFrame ==
  ASSUME TypeOK, case \in Cases, EdgesInv, BakedInv, Plain
  PROVE  /\ edges \subseteq case.edges
         /\ \A e \in edges : e.out \notin removed
         /\ \A e \in case.edges : e.in \notin removed
<1>1. \A e \in case.edges : e.in \notin removed
  <2> TAKE e \in case.edges
  <2>1. CASE e.in = Output
    BY <2>1, CaseFacts DEF TypeOK
  <2>2. CASE e.in # Output
    BY <2>2 DEF Plain, EdgesInv, BakedInv, RealEdges
  <2> QED
    BY <2>1, <2>2
<1>2. \A w \in removed : IsDisabled(w)
  <2> SUFFICES ASSUME NEW w \in removed, ~IsDisabled(w) PROVE FALSE
    OBVIOUS
  <2>1. w \in V /\ case.identity[w] \in V
    BY CaseFacts DEF TypeOK, EdgesInv, IsIdentity, IsDisabled
  <2>2. PICK e \in case.edges : e.in = w
    BY <2>1, IdentityEdge DEF EdgesInv
  <2> QED
    BY <1>1, <2>2
<1>3. edges \subseteq case.edges
  BY <1>2 DEF EdgesInv
<1>4. \A e \in edges : e.out \notin removed
  BY <1>3, CaseFacts DEF EdgesInv
<1> QED
  BY <1>1, <1>3, <1>4

LEMMA UsagesExact ==
  ASSUME TypeOK, case \in Cases, EdgesInv, BakedInv, StepInv, Plain, NEW v \in Reachable \ done
  PROVE  RealOutDegree(v) = Cardinality({e \in bound : e.out = v})
<1> DEFINE B == {e \in bound : e.out = v}
           O == {e \in edges : e.in = Output /\ e.out = v}
<1>1. PICK e \in edges : e.out = v
  BY BehindEnds DEF Reachable
<1>2. v \in V /\ Output \notin V /\ v \notin removed
  BY <1>1, CaseFacts, PlainFrame DEF TypeOK
<1>3. OutEdges(v, edges) = B \cup O /\ B \cap O = {}
  BY PlainFrame DEF Plain, OutEdges, BakedInv, RealEdges
<1>4. IsFiniteSet(B) /\ IsFiniteSet(O) /\ Cardinality(B) \in Nat
  <2>1. B \subseteq edges /\ O \subseteq edges /\ IsFiniteSet(edges)
    BY DEF EdgesInv, BakedInv, RealEdges
  <2> QED
    BY <2>1, FS_Subset, FS_CardinalityType
<1>5. Cardinality(O) = IF v \in Final THEN 1 ELSE 0
  <2>1. CASE v \in Final
    <3>1. PICK o \in case.edges : o.in = Output /\ o.out = v
      BY <2>1 DEF Final, InEdges
    <3>2. o \in edges
      BY <1>2, <3>1 DEF EdgesInv, TypeOK
    <3>3. \A f \in O : f = o
      <4> TAKE f \in O
      <4>1. f \in case.edges /\ f.in = o.in /\ f.out = o.out
        BY <3>1, PlainFrame
      <4>2. f.clip = o.clip
        BY <3>1, <4>1, CaseFacts DEF IsFrame
      <4> QED
        BY <3>1, <4>1, <4>2, CaseFacts DEF IsFrame
    <3>4. O = {o}
      BY <3>1, <3>2, <3>3
    <3> QED
      BY <2>1, <3>4, FS_Singleton
  <2>2. CASE v \notin Final
    <3>1. O = {}
      BY <2>2, PlainFrame DEF Final, InEdges
    <3> QED
      BY <2>2, <3>1, FS_EmptySet
  <2> QED
    BY <2>1, <2>2
<1>6. Cardinality(OutEdges(v, edges)) = Cardinality(B) + Cardinality(O)
  <2>1. Cardinality(B \cap O) = 0
    BY <1>3, FS_EmptySet
  <2>2. Cardinality(B \cup O) = Cardinality(B) + Cardinality(O) - Cardinality(B \cap O)
    BY <1>4, FS_Union
  <2>3. Cardinality(O) \in Nat
    BY <1>5
  <2> HIDE DEF B, O
  <2> QED
    BY <1>3, <1>4, <2>1, <2>2, <2>3
<1>7. outDegree[v] = Cardinality(OutEdges(v, edges))
  BY <1>2 DEF BakedInv
<1> HIDE DEF B, O
<1>8. RealOutDegree(v) = Cardinality(B)
  BY <1>4, <1>5, <1>6, <1>7 DEF RealOutDegree
<1> QED
  BY <1>8 DEF B

LEMMA DeclareUsagesInv ==
  ASSUME IInv, DeclareUsages
  PROVE  IInv'
<1>1. /\ phase = "process" /\ step = "release" /\ toRelease = {}
      /\ UNCHANGED <<setupVars, current, toRelease, done, cached, outCache, reads>>
      /\ UNCHANGED <<case, edges, bound>>
  BY DEF DeclareUsages, setupVars
<1>2. V' = V /\ Final' = Final /\ Reachable' = Reachable /\ OneSourceNode' = OneSourceNode
  BY <1>1, SetupSame, CaseSame
<1>3. current # Output /\ current \in V /\ current \in Reachable \ done
  BY <1>1, Processing DEF StepInv, TypeOK
<1>4. CASE current \notin cached
  <2>1. phase' = "failed" /\ UNCHANGED <<step, refs>>
    BY <1>4 DEF DeclareUsages, Fail
  <2>2. TypeOK'
    BY <1>1, <1>2, <2>1, Processing DEF TypeOK, setupVars
  <2> QED
    BY <1>1, <2>1, <2>2, GivesUp
<1>5. CASE current \in cached
  <2>1. /\ refs' = [refs EXCEPT ![current] = @ + RealOutDegree(current)]
        /\ step' = "deliver" /\ phase' = "process"
    BY <1>1, <1>5 DEF DeclareUsages
  <2>2. /\ RealOutDegree(current) \in Nat /\ RealOutDegree(current) >= Cardinality(Waiting(current))
        /\ Cardinality(Waiting(current)) \in Nat
    BY <1>1, <1>3, Processing, UsagesCover, WaitingFinite
  <2>3. /\ refs[current] \in Nat /\ refs'[current] = refs[current] + RealOutDegree(current)
        /\ refs' \in [V -> Nat] /\ \A w \in V : w # current => refs'[w] = refs[w]
    BY <1>1, <1>3, <2>1, <2>2, Processing DEF TypeOK
  <2>4. TypeOK'
    BY <1>1, <1>2, <2>1, <2>3, Processing DEF TypeOK, setupVars
  <2>5. StepInv'
    BY <1>1, <1>2, <2>1, Processing DEF StepInv, InEdges
  <2>6. Declared' = done \cup {current} /\ Declared = done /\ done \subseteq V
    BY <1>1, <2>1, Processing DEF Declared, TypeOK
  <2>7. Released' = Released
    BY <1>1, <2>1 DEF Released
  <2>8. \A w : Waiting(w)' = Waiting(w)
    BY <1>1, <2>7 DEF Waiting
  <2>9. CountInv'
    <3>1. OneSourceNode => \A w \in done : /\ refs[w] >= Cardinality(Waiting(w))
                                           /\ refs[w] >= 1 => w \in cached
      BY <1>1, <2>6, Processing DEF CountInv
    <3>2. refs'[current] >= Cardinality(Waiting(current))
      BY <2>2, <2>3
    <3> QED
      BY <1>1, <1>2, <1>3, <1>5, <2>3, <2>6, <2>8, <3>1, <3>2 DEF CountInv
  <2>10. ExactInv'
    <3> SUFFICES ASSUME OneSourceNode, Plain, NEW w \in V
                 PROVE  refs'[w] = IF w \in done \cup {current} THEN Cardinality(Waiting(w)) ELSE 0
      BY <1>1, <1>2, <2>6, <2>8 DEF ExactInv, Plain
    <3>1. refs[w] = IF w \in done THEN Cardinality(Waiting(w)) ELSE 0
      BY <1>1, <2>6, Processing DEF ExactInv, Plain
    <3>2. CASE w = current
      <4>1. RealOutDegree(current) = Cardinality({e \in bound : e.out = current})
        BY <1>1, <1>3, Processing, UsagesExact
      <4>2. {e \in bound : e.out = current} = Waiting(current)
        <5>1. \A e \in bound : e.time = case.time[e.out] /\ e.in # e.out
          BY <1>1, Processing, CaseFacts DEF Plain
        <5>2. \A e \in bound : e.out = current => e.in \notin done
          BY <1>1, <1>3, Processing DEF StepInv, BakedInv, RealEdges
        <5> QED
          BY <5>1, <5>2 DEF Waiting, Released
      <4>3. refs[current] = 0
        BY <1>3, <3>1, <3>2
      <4>4. refs'[current] = RealOutDegree(current)
        BY <2>2, <2>3, <4>3
      <4>5. RealOutDegree(current) = Cardinality(Waiting(current))
        BY <4>1, <4>2
      <4> QED
        BY <3>2, <4>4, <4>5
    <3>3. CASE w # current
      BY <2>3, <3>1, <3>3
    <3> QED
      BY <3>2, <3>3
  <2>11. ReadsInv'
    BY <1>1, <1>2, Processing DEF ReadsInv, InEdges
  <2>12. ReadsDeclaredSources'
    BY <1>1, Processing, ReadsDeclaredSame
  <2> QED
    BY <1>1, <2>1, <2>4, <2>5, <2>9, <2>10, <2>11, <2>12, Processed
<1> QED
  BY <1>4, <1>5

(* A set of numbers below a bound has a maximum. *)
LEMMA IntervalMax ==
  ASSUME NEW N \in Nat, NEW S \in SUBSET (1 .. N), S # {}
  PROVE  \E n \in S : \A m \in S : m <= n
<1> DEFINE R == {N - n : n \in S}
<1>1. R \in SUBSET Nat /\ R # {}
  <2>1. \A n \in S : N - n \in Nat
    OBVIOUS
  <2>2. PICK n \in S : TRUE
    OBVIOUS
  <2>3. N - n \in R
    OBVIOUS
  <2> QED
    BY <2>1, <2>3
<1>2. PICK k \in R : \A j \in R : k <= j
  <2> HIDE DEF R
  <2> QED
    BY <1>1, NatMin
<1>3. PICK n \in S : k = N - n
  BY <1>2
<1>4. ASSUME NEW m \in S PROVE m <= n
  <2>1. N - m \in R
    OBVIOUS
  <2>2. k <= N - m
    BY <1>2, <2>1
  <2>3. m \in Int /\ n \in Int
    OBVIOUS
  <2> QED
    BY <1>3, <2>2, <2>3
<1> QED
  BY <1>4

(* Each clip of a vertex keeps one of its sources. *)
LEMMA EachClipBound ==
  ASSUME TypeOK, case \in Cases, BakedInv, NEW f \in RealEdges
  PROVE  \E e \in InEdges(f.in, bound) : e.clip = f.clip
<1> DEFINE same == {g \in edges : g.in = f.in /\ g.clip = f.clip}
           outs == {g.out : g \in same}
<1>1. Cardinality(V) \in Nat /\ V = 1 .. Cardinality(V)
  BY CaseFacts, FS_CardinalityType DEF IsFrame, V
<1>2. outs \in SUBSET (1 .. Cardinality(V)) /\ outs # {}
  <2>1. outs \subseteq V
    BY DEF TypeOK
  <2>2. f.out \in outs
    BY DEF RealEdges
  <2> QED
    BY <1>1, <2>1, <2>2
<1>3. PICK n \in outs : \A m \in outs : m <= n
  <2> HIDE DEF outs
  <2> QED
    BY <1>1, <1>2, IntervalMax
<1>4. PICK e \in same : e.out = n
  BY <1>3
<1>5. \A g \in InEdges(e.in, edges) : g.clip = e.clip => g.out <= e.out
  BY <1>3, <1>4 DEF InEdges
<1>6. e \in RealEdges
  BY <1>4 DEF RealEdges
<1> QED
  BY <1>4, <1>5, <1>6 DEF BakedInv, InEdges

(* Without disabled vertices, the edges that are left name the image of a  *)
(* rendered vertex, which the vertex the user asked for stands for.        *)
LEMMA EdgesNameImages ==
  ASSUME TypeOK, case \in Cases, EdgesInv, \A v \in V : ~IsDisabled(v), NEW e \in edges
  PROVE  /\ e.time # NoTime /\ e.out \notin removed
         /\ BakedInv => \E u \in case.edges :
                          e.in = u.in /\ e.clip = u.clip /\ e.out = StandsFor[u.out]
<1>1. CASE e \in case.edges
  <2>1. e.time # NoTime /\ e.out \notin removed /\ e.out \in V
    BY <1>1, CaseFacts DEF EdgesInv
  <2>2. BakedInv => StandsFor[e.out] = e.out
    <3>1. BakedInv => case.identity[e.out] = Rendered
      BY <2>1, CaseFacts DEF BakedInv, IsIdentity
    <3> QED
      BY <2>1, <3>1, StandsSteps, CaseFacts DEF EdgesInv
  <2> QED
    BY <1>1, <2>1, <2>2
<1>2. CASE e \notin case.edges
  <2>1. PICK u \in case.edges : u.out \in removed /\ MadeFor(e, u)
    BY <1>2 DEF EdgesInv
  <2> DEFINE w == case.identity[u.out]
  <2>2. u.out \in V /\ w \in V
    BY <2>1, CaseFacts DEF EdgesInv, IsIdentity, IsDisabled
  <2>3. /\ StandsFor[w] \in V
        /\ Source(u.out) = [out |-> StandsFor[w], time |-> case.time[StandsFor[w]]]
    <3>1. Source(u.out) = SourceFrom[w]
      BY DEF Source
    <3> HIDE DEF w
    <3> QED
      BY <2>2, <3>1, SourceStands DEF EdgesInv
  <2>4. StandsFor[u.out] = StandsFor[w]
    BY <2>2, StandsSteps DEF EdgesInv
  <2>5. e.out = StandsFor[w] /\ e.time = case.time[StandsFor[w]]
    BY <2>1, <2>3 DEF MadeFor
  <2>6. e.time # NoTime
    BY <2>3, <2>5, CaseFacts
  <2> QED
    BY <2>1, <2>4, <2>5, <2>6 DEF EdgesInv, MadeFor
<1> QED
  BY <1>1, <1>2

LEMMA BoundIsDeclared ==
  ASSUME TypeOK, case \in Cases, EdgesInv, BakedInv, \A w \in V : ~IsDisabled(w),
         NEW v \in Reachable, NEW rs, rs = {<<e.clip, e.out>> : e \in InEdges(v, bound)}
  PROVE  /\ OneFrame(v) => rs = DeclaredSources(v)
         /\ rs \subseteq DeclaredSources(v)
         /\ {r[1] : r \in rs} = {r[1] : r \in DeclaredSources(v)}
<1>1. v \notin removed /\ v # Output
  <2>1. PICK e \in edges : e.out = v
    BY BehindEnds DEF Reachable
  <2> QED
    BY <2>1, EdgesNameImages DEF Reachable
<1>2. bound \subseteq edges
  BY DEF TypeOK
<1>3. rs \subseteq DeclaredSources(v)
  <2>1. ASSUME NEW e \in InEdges(v, bound)
        PROVE  <<e.clip, e.out>> \in DeclaredSources(v)
    <3>1. e \in edges /\ e.in = v
      BY <1>2 DEF InEdges
    <3>2. PICK u \in case.edges : e.in = u.in /\ e.clip = u.clip /\ e.out = StandsFor[u.out]
      BY <3>1, EdgesNameImages
    <3> QED
      BY <3>1, <3>2 DEF DeclaredSources, InEdges
  <2> QED
    BY <2>1
<1>4. \A r \in rs : r[1] \in {s[1] : s \in DeclaredSources(v)}
  BY <1>3
<1>5. ASSUME NEW u \in InEdges(v, case.edges)
      PROVE  \E r \in rs : r[1] = u.clip
  <2>1. PICK f \in edges : f.in = v /\ f.clip = u.clip
    <3>1. CASE u.out \in removed
      BY <1>1, <3>1 DEF EdgesInv, InEdges, MadeFor
    <3>2. CASE u.out \notin removed
      BY <1>1, <3>2 DEF EdgesInv, InEdges
    <3> QED
      BY <3>1, <3>2
  <2>2. PICK e \in InEdges(v, bound) : e.clip = u.clip
    BY <1>1, <2>1, EachClipBound DEF RealEdges
  <2>3. <<e.clip, e.out>> \in rs
    OBVIOUS
  <2> QED
    BY <2>2, <2>3
<1>6. \A s \in DeclaredSources(v) : s[1] \in {r[1] : r \in rs}
  <2> TAKE s \in DeclaredSources(v)
  <2>1. PICK u \in InEdges(v, case.edges) : s = <<u.clip, StandsFor[u.out]>>
    BY DEF DeclaredSources
  <2>2. PICK r \in rs : r[1] = u.clip
    BY <1>5
  <2> QED
    BY <2>1, <2>2
<1>7. ASSUME OneFrame(v), NEW s \in DeclaredSources(v)
      PROVE  s \in rs
  <2>1. PICK u \in InEdges(v, case.edges) : s = <<u.clip, StandsFor[u.out]>>
    BY DEF DeclaredSources
  <2>2. PICK r \in rs : r[1] = u.clip
    BY <1>5
  <2>3. PICK w \in InEdges(v, case.edges) : r = <<w.clip, StandsFor[w.out]>>
    BY <1>3 DEF DeclaredSources
  <2>4. w = u
    BY <1>7, <2>2, <2>3 DEF OneFrame
  <2> QED
    BY <2>1, <2>2, <2>3, <2>4
<1> QED
  BY <1>3, <1>4, <1>6, <1>7

LEMMA DeliverInv ==
  ASSUME IInv, Deliver
  PROVE  IInv'
<1>1. /\ phase = "process" /\ step = "deliver"
      /\ UNCHANGED <<setupVars, toRelease, cached, refs, reads>>
      /\ UNCHANGED <<case, edges, bound>>
  BY DEF Deliver, setupVars
<1>2. V' = V /\ Final' = Final /\ Reachable' = Reachable /\ OneSourceNode' = OneSourceNode
  BY <1>1, SetupSame, CaseSame
<1>3. /\ current # Output /\ current \in V /\ current \in Reachable \ done /\ toRelease = {}
      /\ \A e \in InEdges(current, edges) : e.out \in done
  BY <1>1, Processing DEF StepInv, TypeOK
<1>4. CASE current \in Final /\ current \notin cached
  <2>1. phase' = "failed" /\ UNCHANGED <<current, step, done, outCache>>
    BY <1>4 DEF Deliver, Fail
  <2>2. TypeOK'
    BY <1>1, <1>2, <2>1, Processing DEF TypeOK, setupVars
  <2> QED
    BY <1>1, <2>1, <2>2, GivesUp
<1>5. CASE ~(current \in Final /\ current \notin cached)
  <2>1. /\ outCache' = outCache \cup ({current} \cap Final)
        /\ done' = done \cup {current} /\ current' = Output /\ step' = "none" /\ phase' = "process"
    BY <1>1, <1>5 DEF Deliver
  <2>2. TypeOK'
    BY <1>1, <1>2, <1>3, <2>1, Processing DEF TypeOK, setupVars
  <2>3. StepInv'
    BY <1>1, <1>2, <1>3, <2>1, Processing DEF StepInv, InEdges
  <2>4. Declared' = Declared
    BY <1>1, <2>1 DEF Declared
  <2>5. Released' = Released
    <3>1. \A e \in bound : e.in # Output
      BY <1>1, Processing DEF BakedInv, RealEdges
    <3> QED
      BY <1>1, <2>1, <3>1 DEF Released
  <2>6. CountInv' /\ ExactInv'
    BY <1>1, <2>4, <2>5, Processing, AccountSame
  <2>7. ReadsInv'
    BY <1>1, <1>2, <1>3, <2>1, Processing DEF ReadsInv, InEdges
  <2>8. ReadsDeclaredSources'
    <3> SUFFICES ASSUME NEW w \in done', OneSourceNode, \A u \in V : ~IsDisabled(u)
                 PROVE  /\ OneFrame(w) => reads[w] = DeclaredSources(w)
                        /\ reads[w] \subseteq DeclaredSources(w)
                        /\ {r[1] : r \in reads[w]} = {r[1] : r \in DeclaredSources(w)}
      BY <1>1, <1>2, CaseSame DEF ReadsDeclaredSources
    <3>1. CASE w \in done
      BY <1>1, <3>1, Processing DEF ReadsDeclaredSources
    <3>2. CASE w = current
      <4>1. reads[current] = {<<e.clip, e.out>> : e \in InEdges(current, bound)}
        BY <1>1, <1>3, Processing DEF ReadsInv
      <4> QED
        BY <1>1, <1>3, <3>2, <4>1, Processing, BoundIsDeclared
    <3> QED
      BY <2>1, <3>1, <3>2
  <2> QED
    BY <1>1, <2>1, <2>2, <2>3, <2>6, <2>7, <2>8, Processed
<1> QED
  BY <1>4, <1>5

(* Images without references leave the cache, during the frame or at its end. *)
LEMMA DropInv ==
  ASSUME IInv, phase = "process", phase' \in {"process", "done"},
         UNCHANGED <<setupVars, processVars, refs, outCache, reads>>,
         cached' \subseteq cached, \A v \in cached : refs[v] >= 1 => v \in cached',
         phase' = "done" => Reachable \subseteq done
  PROVE  IInv'
<1>1. /\ UNCHANGED <<case, edges, removed, bound, connected, outDegree>>
      /\ UNCHANGED <<current, step, toRelease, done>>
  BY DEF setupVars, processVars
<1>2. V' = V /\ Final' = Final /\ Reachable' = Reachable /\ OneSourceNode' = OneSourceNode
  BY SetupSame, CaseSame, <1>1
<1>3. TypeOK'
  BY <1>1, <1>2, Processing DEF TypeOK
<1>4. StepInv'
  BY <1>1, <1>2, Processing DEF StepInv, InEdges
<1>5. Declared' = Declared /\ Released' = Released
  BY <1>1 DEF Declared, Released
<1>6. CountInv' /\ ExactInv'
  BY <1>5, Processing, AccountSame
<1>7. ReadsInv'
  BY <1>1, <1>2, Processing DEF ReadsInv, InEdges
<1>8. ReadsDeclaredSources'
  BY <1>1, Processing, ReadsDeclaredSame
<1> QED
  BY <1>3, <1>4, <1>6, <1>7, <1>8, Processed

LEMMA ClearInv ==
  ASSUME IInv, ClearAfterError
  PROVE  IInv'
<1>1. /\ UNCHANGED <<case, edges, removed, bound, connected, outDegree>>
      /\ UNCHANGED <<current, step, toRelease, done, refs, outCache, reads>>
      /\ phase' = "cleared" /\ cached' \subseteq cached
  BY DEF ClearAfterError, setupVars, processVars
<1>2. TypeOK'
  BY <1>1, CaseSame DEF IInv, TypeOK
<1> QED
  BY <1>1, <1>2, GivesUp

LEMMA StepKeepsInv ==
  IInv /\ [Next]_vars => IInv'
<1> SUFFICES ASSUME IInv, [Next]_vars
             PROVE  IInv'
  OBVIOUS
<1>1. CASE CollectIdentities
  BY <1>1, CollectIdentitiesInv
<1>2. CASE Bake
  BY <1>2, BakeInv
<1>3. CASE AllocateAndPut
  BY <1>3, AllocateInv
<1>4. CASE Render
  BY <1>4, RenderInv
<1>5. CASE DeclareUsages
  BY <1>5, DeclareUsagesInv
<1>6. CASE Deliver
  BY <1>6, DeliverInv
<1>7. CASE EndFrame
  BY <1>7, DropInv DEF EndFrame
<1>8. CASE ClearAfterError
  BY <1>8, ClearInv
<1>9. ASSUME NEW v \in V, RemoveIdentity(v)
      PROVE  IInv'
  BY <1>9, RemoveIdentityInv
<1>10. ASSUME NEW v \in V, Acquire(v)
       PROVE  IInv'
  BY <1>10, AcquireInv
<1>11. ASSUME NEW v \in V, Evict(v)
       PROVE  IInv'
  <2>1. refs[v] \in Nat
    BY <1>11 DEF IInv, TypeOK
  <2>2. /\ phase = "process" /\ phase' = "process" /\ refs[v] < 1 /\ cached' = cached \ {v}
        /\ UNCHANGED <<setupVars, processVars, refs, outCache, reads>>
    BY <1>11 DEF Evict
  <2>3. cached' \subseteq cached /\ \A w \in cached : refs[w] >= 1 => w \in cached'
    BY <2>1, <2>2
  <2> QED
    BY <2>2, <2>3, DropInv
<1>12. ASSUME NEW e \in toRelease, ReleaseInput(e)
       PROVE  IInv'
  BY <1>12, ReleaseInputInv
<1>13. CASE UNCHANGED vars
  <2>1. /\ UNCHANGED <<setupVars, phase, processVars, cacheVars, reads>>
        /\ UNCHANGED <<case, edges, removed, bound, connected, outDegree, phase>>
        /\ UNCHANGED <<current, step, toRelease, done, cached, refs, outCache, reads>>
    BY <1>13 DEF vars, setupVars, processVars, cacheVars
  <2>2. TypeOK' /\ ReadsDeclaredSources'
    BY <2>1, CaseSame, ReadsDeclaredSame DEF IInv, TypeOK
  <2>3. CASE phase = "process"
    BY <2>1, <2>3, DropInv
  <2>4. CASE phase = "done"
    <3>1. StepInv' /\ ReadsInv'
      BY <2>1, <2>4, SetupSame, CaseSame DEF IInv, Running, StepInv, ReadsInv, InEdges
    <3>2. Declared' = Declared /\ Released' = Released
      BY <2>1 DEF Declared, Released
    <3>3. \A v : Waiting(v)' = Waiting(v)
      BY <2>1, <3>2 DEF Waiting
    <3>4. CountInv' /\ ExactInv'
      BY <2>1, <2>4, <3>2, <3>3, SetupSame, CaseSame DEF IInv, Running, CountInv, ExactInv
    <3> QED
      BY <2>1, <2>2, <2>4, <3>1, <3>4, SetupSame DEF IInv, Running
  <2>5. CASE phase \notin {"process", "done"}
    <3>1. Idle' = Idle
      BY <2>1, CaseSame DEF Idle
    <3> QED
      BY <2>1, <2>2, <2>5, <3>1, SetupSame DEF IInv
  <2> QED
    BY <2>3, <2>4, <2>5
<1> QED
  BY <1>1, <1>2, <1>3, <1>4, <1>5, <1>6, <1>7, <1>8, <1>9, <1>10, <1>11, <1>12, <1>13 DEF Next

LEMMA Inductive ==
  Spec => []IInv
<1>1. Init => IInv
  BY InitInv
<1>2. IInv /\ [Next]_vars => IInv'
  BY StepKeepsInv
<1> QED
  BY <1>1, <1>2, PTL DEF Spec

-----------------------------------------------------------------------------
(* What the invariant says of a frame.                                     *)

LEMMA InvPending ==
  IInv => PendingInputsCached
<1> SUFFICES ASSUME IInv, phase = "process", OneSourceNode, NEW v \in Declared, Readers(v) # {}
             PROVE  v \in cached /\ refs[v] >= Cardinality(Readers(v))
  BY DEF PendingInputsCached
<1>1. Readers(v) \subseteq Waiting(v)
  BY DEF Readers, Waiting
<1>2. IsFiniteSet(Waiting(v)) /\ Cardinality(Waiting(v)) \in Nat
  BY Processing, WaitingFinite
<1>3. IsFiniteSet(Readers(v)) /\ Cardinality(Readers(v)) <= Cardinality(Waiting(v))
  BY <1>1, <1>2, FS_Subset
<1>4. Cardinality(Readers(v)) \in Nat /\ Cardinality(Readers(v)) # 0
  BY <1>3, FS_CardinalityType, FS_EmptySet
<1>5. refs[v] >= Cardinality(Waiting(v)) /\ (refs[v] >= 1 => v \in cached)
  BY Processing DEF CountInv
<1>6. refs[v] \in Nat
  <2>1. Declared \subseteq V
    BY Processing, CaseFacts DEF Declared, TypeOK, StepInv
  <2> QED
    BY <2>1, Processing DEF TypeOK
<1> QED
  BY <1>2, <1>3, <1>4, <1>5, <1>6

(* In a plain frame every reader is a vertex the output needs. *)
LEMMA PlainReaders ==
  ASSUME TypeOK, case \in Cases, EdgesInv, BakedInv, Plain, NEW e \in bound
  PROVE  e.in \in Reachable
<1> DEFINE S == Behind(Output, edges) \cup removed
<1>1. ASSUME NEW f \in case.edges, f.in \in S
      PROVE  f.out \in S
  <2>1. f.in \notin removed
    BY PlainFrame
  <2>2. CASE f \in edges
    BY <1>1, <2>1, <2>2, BehindClosed
  <2>3. CASE f \notin edges
    BY <2>1, <2>3 DEF EdgesInv
  <2> QED
    BY <2>2, <2>3
<1>2. Behind(Output, case.edges) \subseteq S
  <2>1. Output \in S
    BY BehindSelf
  <2> HIDE DEF S
  <2> QED
    BY <1>1, <2>1, BehindLeast
<1>3. e \in case.edges /\ e.in \in V /\ e.in # Output /\ e.in \notin removed
  BY PlainFrame, CaseFacts DEF Plain
<1>4. e.in \in Behind(Output, case.edges)
  BY <1>3, CaseFacts DEF IsFrame, V
<1> QED
  BY <1>2, <1>3, <1>4 DEF Reachable

LEMMA InvRefs ==
  IInv => RefsAreReaders
<1> SUFFICES ASSUME IInv, phase \in {"process", "done"}, OneSourceNode, Plain, NEW v \in V
             PROVE  refs[v] = IF v \in Declared THEN Cardinality(Readers(v)) ELSE 0
  BY DEF RefsAreReaders, Plain
<1>1. TypeOK /\ case \in Cases /\ EdgesInv /\ BakedInv /\ ExactInv
  BY DEF IInv, Running
<1>2. Readers(v) = Waiting(v)
  BY <1>1, PlainReaders DEF Readers, Waiting
<1> QED
  BY <1>1, <1>2 DEF ExactInv, Plain

LEMMA InvFinals ==
  IInv => RenderedFinalsDelivered
<1> SUFFICES ASSUME IInv, phase = "done", NEW v \in Final, ~IsIdentity(v)
             PROVE  v \in outCache
  BY DEF RenderedFinalsDelivered
<1>1. TypeOK /\ case \in Cases /\ EdgesInv /\ StepInv
  BY DEF IInv, Running
<1>2. PICK o \in case.edges : o.in = Output /\ o.out = v
  BY DEF Final, InEdges
<1>3. v \notin removed /\ Output \notin removed /\ v # Output
  BY <1>1, <1>2, CaseFacts DEF EdgesInv, TypeOK
<1>4. o \in edges
  BY <1>1, <1>2, <1>3 DEF EdgesInv
<1>5. v \in Reachable
  BY <1>2, <1>3, <1>4, BehindSelf, BehindClosed DEF Reachable
<1> QED
  BY <1>1, <1>5 DEF StepInv

(* The bookkeeping of a frame keeps its types: the edges that go around    *)
(* removed vertices name vertices of the graph, no reference count is      *)
(* negative, and only images a vertex can have are read or delivered.      *)
THEOREM TypeCorrect ==
  Spec => []TypeOK
<1>1. IInv => TypeOK
  BY DEF IInv
<1> QED
  BY <1>1, Inductive, PTL

(* For every graph and every answer of isIdentity: while the clips keep    *)
(* one source node each, the image a vertex has to read is in the cache    *)
(* with a reference for each of its readers, whatever is evicted.          *)
THEOREM PendingInputsStayCached ==
  Spec => []PendingInputsCached
BY InvPending, Inductive, PTL

(* In a frame that keeps its graph, the references are the readers to      *)
(* come, none too many: process releases exactly what it declared.         *)
THEOREM RefsCountReaders ==
  Spec => []RefsAreReaders
BY InvRefs, Inductive, PTL

(* Without disabled vertices, and where clips keep one source node each, a *)
(* vertex whose plugin needs one frame of each clip reads exactly these,   *)
(* with every identity replaced by the rendered vertex it stands for.  Of  *)
(* a clip that needs several, it reads one of them.                        *)
THEOREM DeclaredSourcesAreRead ==
  Spec => []ReadsDeclaredSources
<1>1. IInv => ReadsDeclaredSources
  BY DEF IInv
<1> QED
  BY <1>1, Inductive, PTL

(* A frame that succeeds has delivered every final node it renders. *)
THEOREM FinalsAreDelivered ==
  Spec => []RenderedFinalsDelivered
BY InvFinals, Inductive, PTL

=============================================================================
