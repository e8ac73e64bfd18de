--------------------------- MODULE UserGraphProofs ---------------------------
(***************************************************************************)
(* Proofs about UserGraph.tla, for every set of labels and attributes and  *)
(* every bound.                                                            *)
(***************************************************************************)
EXTENDS UserGraph, SequenceTheorems, FiniteSetTheorems, WellFoundedInduction, TLAPS

-----------------------------------------------------------------------------
(* What can be reached upstream: the least set closed under the edges.     *)

LEMMA UpstreamSelf ==
  ASSUME NEW n, NEW es
  PROVE  n \in Upstream(n, es)
BY DEF Upstream

LEMMA UpstreamClosed ==
  ASSUME NEW n, NEW es, NEW e \in es, e.in \in Upstream(n, es)
  PROVE  e.out \in Upstream(n, es)
BY DEF Upstream

LEMMA UpstreamLeast ==
  ASSUME NEW n, NEW es, NEW S, n \in S, \A e \in es : e.in \in S => e.out \in S
  PROVE  Upstream(n, es) \subseteq S
<1> DEFINE ends == {n} \cup {e.out : e \in es}
<1>1. S \cap ends \in SUBSET ends /\ n \in S \cap ends
  OBVIOUS
<1>2. \A e \in es : e.in \in S \cap ends => e.out \in S \cap ends
  OBVIOUS
<1>3. ASSUME NEW m \in Upstream(n, es)
      PROVE  m \in S \cap ends
  <2>1. \A R \in SUBSET ends : n \in R /\ (\A e \in es : e.in \in R => e.out \in R) => m \in R
    BY DEF Upstream
  <2> HIDE DEF ends
  <2> QED
    BY <2>1, <1>1, <1>2
<1> QED
  BY <1>3

LEMMA UpstreamTransitive ==
  ASSUME NEW n, NEW es, NEW m \in Upstream(n, es)
  PROVE  Upstream(m, es) \subseteq Upstream(n, es)
BY UpstreamClosed, UpstreamLeast

(* No edge of es closes a cycle. *)
NoCycle(es) == \A e \in es : e.in \notin Upstream(e.out, es)

LEMMA FewerEdges ==
  ASSUME NEW es, NoCycle(es), NEW fs, fs \subseteq es
  PROVE  NoCycle(fs)
<1>1. \A n : Upstream(n, fs) \subseteq Upstream(n, es)
  BY UpstreamSelf, UpstreamClosed, UpstreamLeast
<1> QED
  BY <1>1 DEF NoCycle

(* Edges that close no cycle with the others, one by one, close none       *)
(* together.                                                               *)
LEMMA MoreEdges ==
  ASSUME NEW es, NoCycle(es), NEW added,
         \A e \in added : ~Refused(e, es \cup (added \ {e}))
  PROVE  NoCycle(es \cup added)
<1> DEFINE all == es \cup added
           Up(n) == Upstream(n, all)
<1>1. ASSUME NEW e \in added
      PROVE  e.in \notin Up(e.out)
  <2> DEFINE S == Upstream(e.out, es \cup (added \ {e}))
  <2>1. e.in \notin S
    BY <1>1 DEF Refused
  <2>2. \A f \in es \cup (added \ {e}) : f.in \in S => f.out \in S
    BY UpstreamClosed
  <2>3. \A f \in all : f = e \/ f \in es \cup (added \ {e})
    OBVIOUS
  <2>4. e.out \in S
    BY UpstreamSelf
  <2>5. Up(e.out) \subseteq S
    <3> HIDE DEF S
    <3>1. \A f \in all : f.in \in S => f.out \in S
      BY <2>1, <2>2, <2>3
    <3> HIDE DEF all
    <3> QED
      BY <2>4, <3>1, UpstreamLeast
  <2> QED
    BY <2>1, <2>5
<1>2. ASSUME NEW f \in es, f.in \in Up(f.out)
      PROVE  FALSE
  <2> DEFINE through == {w \in added : w.in \in Up(f.out)}
             S == Upstream(f.out, es) \cup UNION {Up(w.out) : w \in through}
  <2>1. S \subseteq Up(f.out)
    <3>1. Upstream(f.out, es) \subseteq Up(f.out)
      BY UpstreamSelf, UpstreamClosed, UpstreamLeast
    <3>2. \A w \in through : Up(w.out) \subseteq Up(f.out)
      BY UpstreamClosed, UpstreamTransitive
    <3> QED
      BY <3>1, <3>2
  <2>2. ASSUME NEW e \in all, e.in \in S
        PROVE  e.out \in S
    <3>1. CASE e \in added
      <4>1. e \in through
        BY <2>1, <2>2, <3>1
      <4>2. e.out \in Up(e.out)
        BY UpstreamSelf
      <4> QED
        BY <4>1, <4>2
    <3>2. CASE e \in es /\ e.in \in Upstream(f.out, es)
      BY <3>2, UpstreamClosed
    <3>3. CASE \E w \in through : e.in \in Up(w.out)
      BY <3>3, <2>2, UpstreamClosed
    <3> QED
      BY <2>2, <3>1, <3>2, <3>3
  <2>3. f.out \in S
    BY UpstreamSelf
  <2>4. Up(f.out) \subseteq S
    <3> HIDE DEF S, all
    <3> QED
      BY <2>2, <2>3, UpstreamLeast
  <2>5. PICK w \in through : f.in \in Up(w.out)
    BY <1>2, <2>4 DEF NoCycle
  <2>6. f.out \in Up(w.out)
    BY <2>5, UpstreamClosed
  <2>7. Up(f.out) \subseteq Up(w.out)
    BY <2>6, UpstreamTransitive
  <2> QED
    BY <2>7, <1>1
<1> QED
  BY <1>1, <1>2 DEF NoCycle

-----------------------------------------------------------------------------
(* Removing vertices of the vector.                                        *)

(* A set of natural numbers has a minimum. *)
LEMMA NatMin ==
  ASSUME NEW S \in SUBSET Nat, S # {}
  PROVE  \E n \in S : \A m \in S : n <= m
<1>1. PICK x \in S : \A y \in S : ~ (<<y, x>> \in OpToRel(<, Nat))
  BY NatLessThanWellFounded, WFMin
<1>2. \A y \in S : ~ (y < x)
  BY <1>1 DEF OpToRel
<1> QED
  BY <1>2


LEMMA RemoveAtProperties ==
  ASSUME NEW S, NEW s \in Seq(S), NEW d \in 1 .. Len(s)
  PROVE  /\ RemoveAt(s, d) \in Seq(S) /\ Len(RemoveAt(s, d)) = Len(s) - 1
         /\ \A i \in 1 .. Len(s) - 1 : RemoveAt(s, d)[i] = s[IF i < d THEN i ELSE i + 1]
<1> DEFINE a == SubSeq(s, 1, d - 1)
           b == SubSeq(s, d + 1, Len(s))
<1>1. Len(s) \in Nat /\ \A i \in 1 .. Len(s) : s[i] \in S
  BY LenProperties, ElementOfSeq
<1>2. a \in Seq(S) /\ Len(a) = d - 1 /\ \A i \in 1 .. d - 1 : a[i] = s[i]
  <2>1. \A i \in 1 .. d - 1 : s[i] \in S
    BY <1>1
  <2>2. /\ a \in Seq(S) /\ Len(a) = IF 1 <= d - 1 THEN d - 1 - 1 + 1 ELSE 0
        /\ \A i \in 1 .. d - 1 - 1 + 1 : a[i] = s[1 + i - 1]
    BY <1>1, <2>1, SubSeqProperties
  <2> QED
    BY <1>1, <2>2
<1>3. b \in Seq(S) /\ Len(b) = Len(s) - d /\ \A i \in 1 .. Len(s) - d : b[i] = s[d + i]
  <2>1. \A i \in d + 1 .. Len(s) : s[i] \in S
    BY <1>1
  <2>2. /\ b \in Seq(S) /\ Len(b) = IF d + 1 <= Len(s) THEN Len(s) - (d + 1) + 1 ELSE 0
        /\ \A i \in 1 .. Len(s) - (d + 1) + 1 : b[i] = s[d + 1 + i - 1]
    BY <1>1, <2>1, SubSeqProperties
  <2> QED
    BY <1>1, <2>2
<1> HIDE DEF a, b
<1>4. /\ a \o b \in Seq(S) /\ Len(a \o b) = Len(a) + Len(b)
      /\ \A i \in 1 .. Len(a) + Len(b) : (a \o b)[i] = IF i <= Len(a) THEN a[i] ELSE b[i - Len(a)]
  BY <1>2, <1>3, ConcatProperties
<1>5. RemoveAt(s, d) = a \o b
  BY DEF RemoveAt, a, b
<1>6. Len(a) + Len(b) = Len(s) - 1
  BY <1>1, <1>2, <1>3
<1>7. ASSUME NEW i \in 1 .. Len(s) - 1
      PROVE  (a \o b)[i] = s[IF i < d THEN i ELSE i + 1]
  <2>1. CASE i < d
    BY <1>1, <1>2, <1>4, <1>6, <2>1
  <2>2. CASE ~(i < d)
    <3>1. i - (d - 1) \in 1 .. Len(s) - d /\ d + (i - (d - 1)) = i + 1
      BY <1>1, <2>2
    <3>2. (a \o b)[i] = b[i - (d - 1)]
      BY <1>1, <1>2, <1>4, <1>6, <2>2
    <3> QED
      BY <1>3, <2>2, <3>1, <3>2
  <2> QED
    BY <2>1, <2>2
<1> QED
  BY <1>4, <1>5, <1>6, <1>7

(* All vertices of the vector differ. *)
Distinct(s) == \A i, j \in 1 .. Len(s) : s[i] = s[j] => i = j

LEMMA RemoveAtDistinct ==
  ASSUME NEW S, NEW s \in Seq(S), NEW d \in 1 .. Len(s)
  PROVE  /\ ToSet(RemoveAt(s, d)) \subseteq ToSet(s)
         /\ Distinct(s) => Distinct(RemoveAt(s, d)) /\ ToSet(RemoveAt(s, d)) = ToSet(s) \ {s[d]}
<1> DEFINE r == RemoveAt(s, d)
           from(i) == IF i < d THEN i ELSE i + 1
<1>1. /\ Len(s) \in Nat /\ r \in Seq(S) /\ Len(r) = Len(s) - 1
      /\ \A i \in 1 .. Len(s) - 1 : r[i] = s[from(i)] /\ from(i) \in 1 .. Len(s) \ {d}
  <2>1. Len(s) \in Nat
    BY LenProperties
  <2>2. \A i \in 1 .. Len(s) - 1 : from(i) \in 1 .. Len(s) \ {d}
    BY <2>1
  <2> QED
    BY <2>1, <2>2, RemoveAtProperties
<1>2. DOMAIN s = 1 .. Len(s) /\ DOMAIN r = 1 .. Len(s) - 1
  BY <1>1, LenProperties
<1>3. ToSet(r) \subseteq ToSet(s)
  <2> HIDE DEF r, from
  <2> QED
    BY <1>1, <1>2 DEF ToSet
<1>4. ASSUME Distinct(s)
      PROVE  Distinct(r) /\ ToSet(r) = ToSet(s) \ {s[d]}
  <2>1. \A i, j \in 1 .. Len(s) - 1 : from(i) = from(j) => i = j
    BY <1>1
  <2>2. Distinct(r)
    <3> HIDE DEF r, from
    <3> QED
      BY <1>1, <1>4, <2>1 DEF Distinct
  <2>3. s[d] \notin ToSet(r)
    <3> HIDE DEF r, from
    <3> QED
      BY <1>1, <1>2, <1>4 DEF Distinct, ToSet
  <2>4. ASSUME NEW k \in 1 .. Len(s), k # d
        PROVE  s[k] \in ToSet(r)
    <3> DEFINE i == IF k < d THEN k ELSE k - 1
    <3>1. i \in 1 .. Len(s) - 1 /\ from(i) = k
      BY <1>1, <2>4
    <3> HIDE DEF i, r, from
    <3> QED
      BY <1>1, <1>2, <3>1 DEF ToSet
  <2>5. ToSet(s) \ {s[d]} \subseteq ToSet(r)
    <3> HIDE DEF r
    <3> QED
      BY <1>2, <2>4 DEF ToSet
  <2> QED
    BY <1>3, <2>2, <2>3, <2>5
<1> QED
  BY <1>3, <1>4

(* f repeats op from x0 on. *)
Repeats(f, N, x0, op) == f = [d \in 0 .. N |-> IF d = 0 THEN x0 ELSE op[d][f[d - 1]]]

LEMMA Repetition ==
  ASSUME NEW N \in Nat, NEW X, NEW x0 \in X, NEW op \in [1 .. N -> [X -> X]]
  PROVE  \E f \in [0 .. N -> X] : Repeats(f, N, x0, op)
<1> DEFINE Stuck == {k \in 0 .. N : \A f \in [0 .. k -> X] : ~Repeats(f, k, x0, op)}
<1> SUFFICES ASSUME Stuck # {}
             PROVE  FALSE
  OBVIOUS
<1>1. PICK k \in Stuck : \A j \in Stuck : k <= j
  <2>1. Stuck \in SUBSET Nat
    OBVIOUS
  <2> HIDE DEF Stuck
  <2> QED
    BY <2>1, NatMin
<1>2. CASE k = 0
  <2> DEFINE f == [d \in 0 .. 0 |-> x0]
  <2>1. f \in [0 .. 0 -> X] /\ f = [d \in 0 .. 0 |-> IF d = 0 THEN x0 ELSE op[d][f[d - 1]]]
    OBVIOUS
  <2> QED
    BY <1>1, <1>2, <2>1 DEF Repeats
<1>3. CASE k # 0
  <2>1. k \in 1 .. N /\ k - 1 \in 0 .. N /\ k - 1 \notin Stuck
    BY <1>1, <1>3
  <2>2. PICK f \in [0 .. k - 1 -> X] : Repeats(f, k - 1, x0, op)
    BY <2>1
  <2>3. \A d \in 0 .. k - 1 : f[d] = IF d = 0 THEN x0 ELSE op[d][f[d - 1]]
    BY <2>2 DEF Repeats
  <2> DEFINE g == [d \in 0 .. k |-> IF d = 0 THEN x0 ELSE op[d][f[d - 1]]]
  <2>4. \A d \in 0 .. k - 1 : g[d] = f[d]
    BY <2>1, <2>3
  <2>5. \A d \in 0 .. k : d # 0 => d - 1 \in 0 .. k - 1 /\ f[d - 1] \in X /\ d \in 1 .. N
    BY <2>1
  <2>6. \A d \in 0 .. k : g[d] \in X
    BY <2>5
  <2>7. \A d \in 0 .. k : (IF d = 0 THEN x0 ELSE op[d][f[d - 1]])
                            = IF d = 0 THEN x0 ELSE op[d][g[d - 1]]
    BY <2>4, <2>5
  <2>8. g \in [0 .. k -> X] /\ Repeats(g, k, x0, op)
    BY <2>6, <2>7 DEF Repeats
  <2> QED
    BY <1>1, <2>8
<1> QED
  BY <1>2, <1>3

(* What deleteUnconnectedNodes leaves is some of the vertices, each once,  *)
(* whichever descriptors have become those of other vertices.              *)
LEMMA LeftAfterProperties ==
  ASSUME NEW S, vertices \in Seq(S), NEW doomed
  PROVE  /\ LeftAfter(doomed) \in Seq(S) /\ Len(LeftAfter(doomed)) <= Len(vertices)
         /\ ToSet(LeftAfter(doomed)) \subseteq ToSet(vertices)
         /\ Distinct(vertices) => Distinct(LeftAfter(doomed))
<1> DEFINE N == Len(vertices)
           X == Seq(S)
           after(d, s) == IF d \in doomed /\ d <= Len(s) THEN RemoveAt(s, d) ELSE s
           op == [d \in 1 .. N |-> [s \in X |-> after(d, s)]]
           Is(f) == f = [d \in 0 .. N |-> IF d = 0 THEN vertices
                                          ELSE IF d \in doomed /\ d <= Len(f[d - 1])
                                               THEN RemoveAt(f[d - 1], d) ELSE f[d - 1]]
<1>1. N \in Nat
  BY LenProperties
<1>2. ASSUME NEW d \in 1 .. N, NEW s \in X
      PROVE  /\ after(d, s) \in X /\ Len(after(d, s)) <= Len(s) /\ Len(s) \in Nat
             /\ Len(after(d, s)) \in Nat
             /\ ToSet(after(d, s)) \subseteq ToSet(s) /\ (Distinct(s) => Distinct(after(d, s)))
  <2>1. Len(s) \in Nat
    BY LenProperties
  <2>2. CASE d \in doomed /\ d <= Len(s)
    <3>1. d \in 1 .. Len(s)
      BY <1>1, <2>1, <2>2
    <3>2. RemoveAt(s, d) \in X /\ Len(RemoveAt(s, d)) = Len(s) - 1
      BY <3>1, RemoveAtProperties
    <3> QED
      BY <2>1, <2>2, <3>1, <3>2, RemoveAtDistinct
  <2>3. CASE ~(d \in doomed /\ d <= Len(s))
    BY <2>1, <2>3
  <2> QED
    BY <2>2, <2>3
<1>3. op \in [1 .. N -> [X -> X]] /\ vertices \in X
  BY <1>2
<1>4. PICK f \in [0 .. N -> X] : Repeats(f, N, vertices, op)
  <2> HIDE DEF N, X, op
  <2> QED
    BY <1>1, <1>3, Repetition
<1>5. Is(f)
  <2>1. \A d \in 0 .. N : d # 0 => d - 1 \in 0 .. N /\ d \in 1 .. N /\ f[d - 1] \in X
    <3> HIDE DEF N, X
    <3>1. \A d \in 0 .. N : d # 0 => d - 1 \in 0 .. N /\ d \in 1 .. N
      BY <1>1
    <3> QED
      BY <3>1
  <2>2. \A d \in 1 .. N : \A s \in X : op[d][s] = after(d, s)
    OBVIOUS
  <2>3. \A d \in 0 .. N : d # 0 => op[d][f[d - 1]] = after(d, f[d - 1])
    <3> HIDE DEF op, after, X, N
    <3> QED
      BY <2>1, <2>2
  <2>4. f = [d \in 0 .. N |-> IF d = 0 THEN vertices ELSE op[d][f[d - 1]]]
    BY <1>4 DEF Repeats
  <2>5. \A d \in 0 .. N : (IF d = 0 THEN vertices ELSE op[d][f[d - 1]])
                            = IF d = 0 THEN vertices ELSE after(d, f[d - 1])
    <3> HIDE DEF op, after, X, N
    <3> QED
      BY <2>3
  <2>6. f = [d \in 0 .. N |-> IF d = 0 THEN vertices ELSE after(d, f[d - 1])]
    <3> HIDE DEF op, after, X, N
    <3> QED
      BY <2>4, <2>5
  <2> QED
    BY <2>6
<1>6. LET left == CHOOSE g : Is(g) IN LeftAfter(doomed) = left[N]
  BY DEF LeftAfter
<1> DEFINE left == CHOOSE g : Is(g)
<1>7. Is(left)
  <2> HIDE DEF Is
  <2> QED
    BY <1>5
<1>8. left[0] = vertices /\ \A d \in 1 .. N : left[d] = after(d, left[d - 1])
  <2> HIDE DEF left
  <2>1. \A d \in 1 .. N : d \in 0 .. N /\ d # 0
    BY <1>1
  <2>2. 0 \in 0 .. N
    BY <1>1
  <2> QED
    BY <1>7, <2>1, <2>2
<1> DEFINE P(s) == /\ s \in X /\ Len(s) <= N /\ ToSet(s) \subseteq ToSet(vertices)
                   /\ Distinct(vertices) => Distinct(s)
           Bad == {d \in 0 .. N : ~P(left[d])}
<1>9. Bad = {}
  <2> SUFFICES ASSUME Bad # {} PROVE FALSE
    OBVIOUS
  <2>1. Bad \in SUBSET Nat
    OBVIOUS
  <2>2. PICK k \in Bad : \A j \in Bad : k <= j
    <3> HIDE DEF Bad
    <3> QED
      BY <2>1, NatMin
  <2> HIDE DEF left
  <2>3. P(vertices)
    BY <1>1
  <2>4. k # 0
    <3> HIDE DEF P
    <3> QED
      BY <1>8, <2>2, <2>3
  <2>5. k \in 1 .. N /\ k - 1 \in 0 .. N /\ k - 1 \notin Bad
    <3> HIDE DEF P
    <3> QED
      BY <1>1, <2>2, <2>4
  <2>6. P(left[k - 1])
    <3> HIDE DEF P
    <3> QED
      BY <2>5
  <2>7. P(after(k, left[k - 1]))
    <3>1. left[k - 1] \in X
      BY <2>6
    <3> HIDE DEF after
    <3>2. /\ after(k, left[k - 1]) \in X /\ Len(after(k, left[k - 1])) <= Len(left[k - 1])
          /\ Len(left[k - 1]) \in Nat /\ Len(after(k, left[k - 1])) \in Nat
          /\ ToSet(after(k, left[k - 1])) \subseteq ToSet(left[k - 1])
          /\ Distinct(left[k - 1]) => Distinct(after(k, left[k - 1]))
      BY <1>2, <2>5, <3>1
    <3> QED
      BY <1>1, <2>6, <3>2
  <2> QED
    <3> HIDE DEF P
    <3> QED
      BY <1>8, <2>2, <2>5, <2>7
<1>10. P(left[N])
  <2> HIDE DEF P, left
  <2> QED
    BY <1>1, <1>9
<1> QED
  BY <1>6, <1>10

-----------------------------------------------------------------------------
(* The inductive invariant: while the program is defined, the vector holds *)
(* each node of the map once and the edges join them without a cycle.      *)

Agree ==
  /\ ToSet(vertices) = nodes /\ Distinct(vertices)
  /\ \A e \in edges : e.out \in nodes /\ e.in \in nodes

IInv == TypeOK /\ NoCycle(edges) /\ (~undefined => Agree)

(* The step keeps the vertices, and its edges are old ones or join nodes. *)
LEMMA EdgeEdit ==
  ASSUME IInv, ~undefined, UNCHANGED <<nodes, vertices, instanceCount, undefined>>,
         edges' \subseteq edges \cup {e \in Edges : e.out \in nodes /\ e.in \in nodes},
         NoCycle(edges'), last'.threw \in BOOLEAN, last'.kept = {}
  PROVE  IInv'
<1>1. TypeOK'
  BY DEF IInv, TypeOK
<1>2. Agree'
  BY DEF IInv, Agree
<1>3. NoCycle(edges)'
  OBVIOUS
<1> QED
  BY <1>1, <1>2, <1>3 DEF IInv

LEMMA DescriptorOf ==
  ASSUME Agree, TypeOK, NEW n \in nodes
  PROVE  /\ Descriptor(n) \in 1 .. Len(vertices) /\ vertices[Descriptor(n)] = n
         /\ RemoveAt(vertices, Descriptor(n)) \in Seq(Names)
         /\ Len(RemoveAt(vertices, Descriptor(n))) = Len(vertices) - 1
         /\ Distinct(RemoveAt(vertices, Descriptor(n)))
         /\ ToSet(RemoveAt(vertices, Descriptor(n))) = nodes \ {n}
<1>1. vertices \in Seq(Names) /\ DOMAIN vertices = 1 .. Len(vertices)
  BY LenProperties DEF TypeOK
<1>2. \E d \in 1 .. Len(vertices) : vertices[d] = n
  BY <1>1 DEF Agree, ToSet
<1>3. Descriptor(n) \in 1 .. Len(vertices) /\ vertices[Descriptor(n)] = n
  BY <1>2 DEF Descriptor
<1> DEFINE d == Descriptor(n)
<1>4. d \in 1 .. Len(vertices) /\ vertices[d] = n /\ Distinct(vertices) /\ ToSet(vertices) = nodes
  BY <1>3 DEF Agree
<1> HIDE DEF d
<1>5. /\ RemoveAt(vertices, d) \in Seq(Names)
      /\ Len(RemoveAt(vertices, d)) = Len(vertices) - 1
  BY <1>1, <1>4, RemoveAtProperties
<1>6. /\ Distinct(RemoveAt(vertices, d))
      /\ ToSet(RemoveAt(vertices, d)) = nodes \ {n}
  BY <1>1, <1>4, RemoveAtDistinct
<1> QED
  BY <1>4, <1>5, <1>6 DEF d

LEMMA AppendDistinct ==
  ASSUME NEW S, NEW s \in Seq(S), NEW x \in S, Distinct(s), x \notin ToSet(s)
  PROVE  /\ Append(s, x) \in Seq(S) /\ Len(Append(s, x)) = Len(s) + 1
         /\ Distinct(Append(s, x)) /\ ToSet(Append(s, x)) = ToSet(s) \cup {x}
<1>1. /\ Len(s) \in Nat /\ DOMAIN s = 1 .. Len(s)
      /\ Append(s, x) \in Seq(S) /\ Len(Append(s, x)) = Len(s) + 1
      /\ \A i \in 1 .. Len(s) : Append(s, x)[i] = s[i]
      /\ Append(s, x)[Len(s) + 1] = x
  BY AppendProperties, LenProperties
<1>2. DOMAIN Append(s, x) = 1 .. Len(s) + 1
  BY <1>1, LenProperties
<1>3. \A i \in 1 .. Len(s) + 1 : i \in 1 .. Len(s) \/ i = Len(s) + 1
  BY <1>1
<1>4. \A i \in 1 .. Len(s) : s[i] \in ToSet(s)
  BY <1>1 DEF ToSet
<1>5. Distinct(Append(s, x))
  BY <1>1, <1>3, <1>4 DEF Distinct
<1>6. ToSet(Append(s, x)) = ToSet(s) \cup {x}
  <2>1. \A i \in 1 .. Len(s) : i \in 1 .. Len(s) + 1
    BY <1>1
  <2>2. Len(s) + 1 \in 1 .. Len(s) + 1
    BY <1>1
  <2> QED
    BY <1>1, <1>2, <1>3, <2>1, <2>2 DEF ToSet
<1> QED
  BY <1>1, <1>5, <1>6

LEMMA CreateNodeInv ==
  ASSUME IInv, NEW l \in Labels, CreateNode(l)
  PROVE  IInv'
<1> DEFINE name == <<l, instanceCount[l] + 1>>
<1>1. /\ instanceCount[l] < MaxCount /\ Len(vertices) < MaxVertices /\ ~undefined
      /\ instanceCount' = [instanceCount EXCEPT ![l] = @ + 1] /\ edges' = edges
      /\ last'.threw \in BOOLEAN /\ last'.kept = {}
  BY DEF CreateNode, Report, Reports
<1>2. TypeOK /\ NoCycle(edges) /\ Agree
  BY <1>1 DEF IInv
<1>3. instanceCount[l] \in 0 .. MaxCount
  BY <1>2 DEF TypeOK
<1>4. instanceCount[l] + 1 \in 1 .. MaxCount
  BY <1>1, <1>3, GraphAssumption
<1>5. name \in Names
  BY <1>4 DEF Names
<1>6. instanceCount' \in [Labels -> 0 .. MaxCount]
  <2>1. \A c \in 1 .. MaxCount : c \in 0 .. MaxCount
    OBVIOUS
  <2>2. instanceCount[l] + 1 \in 0 .. MaxCount
    BY <1>4, <2>1
  <2> QED
    BY <1>1, <1>2, <2>2 DEF TypeOK
<1> HIDE DEF name
<1>7. CASE name \in nodes
  <2>1. undefined' = TRUE /\ nodes' = nodes /\ vertices' = vertices
    BY <1>7 DEF CreateNode, name
  <2>2. TypeOK'
    BY <1>1, <1>2, <1>6, <2>1 DEF TypeOK
  <2> QED
    BY <1>1, <1>2, <2>1, <2>2 DEF IInv
<1>8. CASE name \notin nodes
  <2>1. nodes' = nodes \cup {name} /\ vertices' = Append(vertices, name) /\ undefined' = undefined
    BY <1>8 DEF CreateNode, name
  <2>2. /\ vertices' \in Seq(Names) /\ Len(vertices') = Len(vertices) + 1
        /\ Distinct(vertices') /\ ToSet(vertices') = nodes'
    BY <1>2, <1>5, <1>8, <2>1, AppendDistinct DEF TypeOK, Agree
  <2>3. Len(vertices') <= MaxVertices
    BY <1>1, <1>2, <2>2, LenProperties, GraphAssumption DEF TypeOK
  <2>4. TypeOK'
    BY <1>1, <1>2, <1>5, <1>6, <2>1, <2>2, <2>3 DEF TypeOK
  <2>5. Agree'
    BY <1>1, <1>2, <2>1, <2>2 DEF Agree
  <2> QED
    BY <1>1, <1>2, <2>1, <2>4, <2>5 DEF IInv
<1> QED
  BY <1>7, <1>8

LEMMA RenameNodeInv ==
  ASSUME IInv, NEW n \in nodes, NEW name \in Names, RenameNode(n, name)
  PROVE  IInv'
<1>1. ~undefined /\ UNCHANGED <<instanceCount, undefined>> /\ last'.threw \in BOOLEAN /\ last'.kept = {}
  <2>1. Report("renameNode", FALSE) \/ Report("renameNode", TRUE)
    BY DEF RenameNode
  <2>2. ~undefined /\ (last'.threw = FALSE \/ last'.threw = TRUE) /\ last'.kept = {}
    BY <2>1 DEF Report, Reports
  <2>3. last'.threw \in BOOLEAN
    BY <2>2
  <2> QED
    BY <2>2, <2>3 DEF RenameNode
<1>2. TypeOK /\ NoCycle(edges) /\ Agree
  BY <1>1 DEF IInv
<1>3. CASE name \in nodes
  <2>1. UNCHANGED <<nodes, vertices, edges>>
    BY <1>3 DEF RenameNode
  <2> QED
    BY <1>1, <1>2, <2>1, EdgeEdit
<1>4. CASE name \notin nodes
  <2> DEFINE rest == RemoveAt(vertices, Descriptor(n))
  <2>1. /\ nodes' = (nodes \ {n}) \cup {name} /\ vertices' = Append(rest, name)
        /\ edges' = WithoutNode(n, edges)
    BY <1>4 DEF RenameNode
  <2>2. /\ rest \in Seq(Names) /\ Len(rest) = Len(vertices) - 1
        /\ Distinct(rest) /\ ToSet(rest) = nodes \ {n}
    BY <1>2, DescriptorOf
  <2> HIDE DEF rest
  <2>3. /\ vertices' \in Seq(Names) /\ Len(vertices') = Len(rest) + 1
        /\ Distinct(vertices') /\ ToSet(vertices') = nodes'
    BY <1>4, <2>1, <2>2, AppendDistinct
  <2>4. Len(vertices') <= MaxVertices
    <3>1. Len(vertices') = Len(vertices) /\ Len(vertices) <= MaxVertices
      BY <1>2, <2>2, <2>3, LenProperties DEF TypeOK
    <3> QED
      BY <3>1
  <2>5. TypeOK'
    BY <1>1, <1>2, <2>1, <2>3, <2>4 DEF TypeOK, WithoutNode
  <2>6. Agree'
    BY <1>2, <2>1, <2>3 DEF Agree, WithoutNode
  <2>7. NoCycle(edges')
    BY <1>2, <2>1, FewerEdges DEF WithoutNode
  <2>8. NoCycle(edges)'
    BY <2>7
  <2> QED
    BY <2>5, <2>6, <2>8 DEF IInv
<1> QED
  BY <1>3, <1>4

LEMMA DeleteNodeInv ==
  ASSUME IInv, NEW n \in nodes, DeleteNode(n)
  PROVE  IInv'
<1>1. /\ ~undefined /\ UNCHANGED <<instanceCount, undefined>> /\ last'.threw \in BOOLEAN /\ last'.kept = {}
      /\ nodes' = nodes \ {n} /\ vertices' = RemoveAt(vertices, Descriptor(n))
      /\ edges' = WithoutNode(n, edges)
  BY DEF DeleteNode, RemoveVertex, Report, Reports
<1>2. TypeOK /\ NoCycle(edges) /\ Agree
  BY <1>1 DEF IInv
<1>3. /\ vertices' \in Seq(Names) /\ Len(vertices') = Len(vertices) - 1
      /\ Distinct(vertices') /\ ToSet(vertices') = nodes'
  BY <1>1, <1>2, DescriptorOf
<1>4. Len(vertices') <= MaxVertices
  BY <1>2, <1>3, LenProperties, GraphAssumption DEF TypeOK
<1>5. TypeOK'
  BY <1>1, <1>2, <1>3, <1>4 DEF TypeOK, WithoutNode
<1>6. Agree'
  BY <1>1, <1>2, <1>3 DEF Agree, WithoutNode
<1>7. NoCycle(edges')
  BY <1>1, <1>2, FewerEdges DEF WithoutNode
<1>8. NoCycle(edges)'
  BY <1>7
<1> QED
  BY <1>5, <1>6, <1>8 DEF IInv

LEMMA DeleteUnconnectedInv ==
  ASSUME IInv, NEW n \in nodes, DeleteUnconnectedNodes(n)
  PROVE  IInv'
<1> DEFINE doomed == {d \in 1 .. Len(vertices) : vertices[d] \notin ConnectedTo(n)}
           left == LeftAfter(doomed)
<1>1. /\ ~undefined /\ instanceCount' = instanceCount
      /\ last'.threw = FALSE /\ last'.kept = ConnectedTo(n)
      /\ vertices' = left /\ nodes' = ToSet(left) /\ undefined' \in BOOLEAN
      /\ edges' = {e \in edges : e.out \in ToSet(left) /\ e.in \in ToSet(left)}
  BY DEF DeleteUnconnectedNodes, Reports
<1>2. TypeOK /\ NoCycle(edges) /\ Agree
  BY <1>1 DEF IInv
<1>3. /\ left \in Seq(Names) /\ Len(left) <= Len(vertices)
      /\ ToSet(left) \subseteq ToSet(vertices) /\ Distinct(left)
  <2> HIDE DEF doomed
  <2> QED
    BY <1>2, LeftAfterProperties DEF TypeOK, Agree
<1> HIDE DEF left
<1>4. Len(vertices') <= MaxVertices
  BY <1>1, <1>2, <1>3, LenProperties, GraphAssumption DEF TypeOK
<1>5. ConnectedTo(n) \subseteq Names
  BY <1>2 DEF ConnectedTo, TypeOK
<1>6. TypeOK'
  BY <1>1, <1>2, <1>3, <1>4, <1>5 DEF TypeOK, Agree
<1>7. Agree'
  BY <1>1, <1>3 DEF Agree
<1>8. NoCycle(edges')
  BY <1>1, <1>2, FewerEdges
<1>9. NoCycle(edges)'
  BY <1>8
<1> QED
  BY <1>6, <1>7, <1>9 DEF IInv

LEMMA ConnectInv ==
  ASSUME IInv, NEW out \in nodes, NEW in \in nodes, NEW attr \in Attrs, Connect(out, in, attr)
  PROVE  IInv'
<1> DEFINE e == Edge(out, in, attr)
<1>1. /\ ~undefined /\ UNCHANGED <<nodes, vertices, instanceCount, undefined>>
      /\ last'.threw \in BOOLEAN /\ last'.kept = {}
      /\ edges' = IF Refused(e, edges) THEN edges ELSE edges \cup {e}
  BY DEF Connect, Report, Reports, Refused
<1>2. e \in Edges /\ e.out \in nodes /\ e.in \in nodes
  BY DEF IInv, TypeOK, Edge, Edges
<1> HIDE DEF e
<1>3. NoCycle(edges')
  <2>1. CASE Refused(e, edges)
    BY <1>1, <2>1 DEF IInv
  <2>2. CASE ~Refused(e, edges)
    <3>1. edges \cup ({e} \ {e}) = edges
      OBVIOUS
    <3>2. \A f \in {e} : ~Refused(f, edges \cup ({e} \ {f}))
      BY <2>2, <3>1
    <3> QED
      BY <1>1, <2>2, <3>2, MoreEdges DEF IInv
  <2> QED
    BY <2>1, <2>2
<1> QED
  BY <1>1, <1>2, <1>3, EdgeEdit

LEMMA ReplaceInv ==
  ASSUME IInv, NEW from \in nodes, NEW to \in nodes, ReplaceNodeConnections(from, to)
  PROVE  IInv'
<1> DEFINE wanted == InputsFor(to, from) \cup OutputsFor(to, from)
<1>1. /\ ~undefined /\ UNCHANGED <<nodes, vertices, instanceCount, undefined>>
      /\ last'.threw \in BOOLEAN /\ last'.kept = {}
  <2>1. Report("replaceNodeConnections", FALSE) \/ Report("replaceNodeConnections", TRUE)
    BY DEF ReplaceNodeConnections, ConnectAll, ConnectSome
  <2>2. ~undefined /\ (last'.threw = FALSE \/ last'.threw = TRUE) /\ last'.kept = {}
    BY <2>1 DEF Report, Reports
  <2>3. last'.threw \in BOOLEAN
    BY <2>2
  <2> QED
    BY <2>2, <2>3 DEF ReplaceNodeConnections
<1>2. TypeOK /\ NoCycle(edges) /\ Agree
  BY <1>1 DEF IInv
<1>3. wanted \subseteq {e \in Edges : e.out \in nodes /\ e.in \in nodes}
  BY <1>2 DEF InputsFor, OutputsFor, Edges, Agree, TypeOK
<1> HIDE DEF wanted
<1>4. CASE ConnectAll(from, to)
  <2>1. /\ \A e \in wanted : ~Refused(e, edges \cup (wanted \ {e}))
        /\ edges' = WithoutNode(from, edges \cup wanted)
    BY <1>4 DEF ConnectAll, wanted
  <2>2. NoCycle(edges \cup wanted)
    BY <1>2, <2>1, MoreEdges
  <2>3. edges' \subseteq edges \cup wanted
    BY <2>1 DEF WithoutNode
  <2>4. NoCycle(edges')
    BY <2>2, <2>3, FewerEdges
  <2> QED
    BY <1>1, <1>3, <2>3, <2>4, EdgeEdit
<1>5. CASE ConnectSome(from, to)
  <2>1. PICK before \in SUBSET wanted :
          /\ \A b \in before : ~Refused(b, edges \cup (before \ {b}))
          /\ edges' = edges \cup before
    BY <1>5 DEF ConnectSome, wanted
  <2>2. NoCycle(edges')
    BY <1>2, <2>1, MoreEdges
  <2> QED
    BY <1>1, <1>3, <2>1, <2>2, EdgeEdit
<1> QED
  BY <1>4, <1>5 DEF ReplaceNodeConnections

LEMMA StepKeepsInv ==
  IInv /\ [Next]_vars => IInv'
<1> SUFFICES ASSUME IInv, [Next]_vars
             PROVE  IInv'
  OBVIOUS
<1>1. ASSUME NEW l \in Labels, CreateNode(l)
      PROVE  IInv'
  BY <1>1, CreateNodeInv
<1>2. ASSUME NEW n \in nodes, NEW name \in Names, RenameNode(n, name)
      PROVE  IInv'
  BY <1>2, RenameNodeInv
<1>3. ASSUME NEW n \in nodes, DeleteNode(n)
      PROVE  IInv'
  BY <1>3, DeleteNodeInv
<1>4. ASSUME NEW n \in nodes, DeleteUnconnectedNodes(n)
      PROVE  IInv'
  BY <1>4, DeleteUnconnectedInv
<1>5. ASSUME NEW out \in nodes, NEW in \in nodes, NEW attr \in Attrs, Connect(out, in, attr)
      PROVE  IInv'
  BY <1>5, ConnectInv
<1>6. ASSUME NEW e \in edges, Unconnect(e)
      PROVE  IInv'
  <2>1. /\ ~undefined /\ UNCHANGED <<nodes, vertices, instanceCount, undefined>>
        /\ last'.threw \in BOOLEAN /\ last'.kept = {} /\ edges' = edges \ {e}
    BY <1>6 DEF Unconnect, Report, Reports
  <2>2. NoCycle(edges')
    BY <2>1, FewerEdges DEF IInv
  <2> QED
    BY <2>1, <2>2, EdgeEdit
<1>7. ASSUME NEW n \in nodes, UnconnectNode(n)
      PROVE  IInv'
  <2>1. /\ ~undefined /\ UNCHANGED <<nodes, vertices, instanceCount, undefined>>
        /\ last'.threw \in BOOLEAN /\ last'.kept = {} /\ edges' = WithoutNode(n, edges)
    BY <1>7 DEF UnconnectNode, Report, Reports
  <2>2. edges' \subseteq edges
    BY <2>1 DEF WithoutNode
  <2>3. NoCycle(edges')
    BY <2>2, FewerEdges DEF IInv
  <2> QED
    BY <2>1, <2>2, <2>3, EdgeEdit
<1>8. ASSUME NEW from \in nodes, NEW to \in nodes, ReplaceNodeConnections(from, to)
      PROVE  IInv'
  BY <1>8, ReplaceInv
<1>9. CASE Clear
  <2>1. /\ nodes' = {} /\ vertices' = <<>> /\ edges' = {} /\ undefined' = undefined
        /\ instanceCount' = [l \in Labels |-> 0] /\ last'.threw \in BOOLEAN /\ last'.kept = {}
    BY <1>9 DEF Clear, Report, Reports
  <2>2. <<>> \in Seq(Names) /\ Len(<<>>) = 0 /\ ToSet(<<>>) = {} /\ Distinct(<<>>)
    BY DEF ToSet, Distinct
  <2>3. TypeOK'
    BY <2>1, <2>2, GraphAssumption DEF IInv, TypeOK
  <2>4. Agree' /\ NoCycle(edges)'
    BY <2>1, <2>2 DEF Agree, NoCycle
  <2> QED
    BY <2>3, <2>4 DEF IInv
<1>10. CASE UNCHANGED vars
  BY <1>10 DEF vars, IInv, TypeOK, Agree, NoCycle
<1> QED
  BY <1>1, <1>2, <1>3, <1>4, <1>5, <1>6, <1>7, <1>8, <1>9, <1>10 DEF Next

LEMMA InitInv ==
  Init => IInv
<1> SUFFICES ASSUME Init PROVE IInv
  OBVIOUS
<1>1. <<>> \in Seq(Names) /\ Len(<<>>) = 0 /\ ToSet(<<>>) = {} /\ Distinct(<<>>)
  BY DEF ToSet, Distinct
<1>2. /\ nodes = {} /\ vertices = <<>> /\ edges = {} /\ undefined = FALSE
      /\ instanceCount = [l \in Labels |-> 0] /\ last.threw = FALSE /\ last.kept = {}
  BY DEF Init
<1>3. TypeOK
  <2>1. 0 \in 0 .. MaxCount
    BY GraphAssumption
  <2>2. vertices \in Seq(Names) /\ Len(vertices) <= MaxVertices
    BY <1>1, <1>2, GraphAssumption
  <2>3. instanceCount \in [Labels -> 0 .. MaxCount]
    BY <1>2, <2>1
  <2>4. last.threw \in BOOLEAN /\ last.kept \subseteq Names /\ undefined \in BOOLEAN
    BY <1>2
  <2> QED
    BY <1>2, <2>2, <2>3, <2>4 DEF TypeOK
<1>4. Agree /\ NoCycle(edges)
  BY <1>1, <1>2 DEF Agree, NoCycle
<1> QED
  BY <1>3, <1>4 DEF IInv

LEMMA Inductive ==
  Spec => []IInv
BY InitInv, StepKeepsInv, PTL DEF Spec

(* The state of the graph keeps its types under every edit, also those     *)
(* that delete at descriptors which have become those of other vertices.   *)
THEOREM TypeCorrect ==
  Spec => []TypeOK
<1>1. IInv => TypeOK
  BY DEF IInv
<1> QED
  BY <1>1, Inductive, PTL

(* The map of nodes and the internal graph agree after every edit: one     *)
(* vertex per node, and no connection of a node that is gone.              *)
THEOREM VerticesStayNodes ==
  Spec => []VerticesAreNodes
<1>1. IInv => VerticesAreNodes
  <2> SUFFICES ASSUME IInv, ~undefined
               PROVE  /\ ToSet(vertices) = nodes
                      /\ Len(vertices) = Cardinality(nodes)
                      /\ \A e \in edges : e.out \in nodes /\ e.in \in nodes
    BY DEF VerticesAreNodes
  <2>1. Agree /\ vertices \in Seq(Names) /\ Len(vertices) \in Nat /\ DOMAIN vertices = 1 .. Len(vertices)
    BY LenProperties DEF IInv, TypeOK
  <2>2. vertices \in Bijection(1 .. Len(vertices), nodes)
    <3>1. vertices \in [1 .. Len(vertices) -> nodes]
      BY <2>1 DEF Agree, ToSet
    <3>2. \A n \in nodes : \E i \in 1 .. Len(vertices) : vertices[i] = n
      BY <2>1 DEF Agree, ToSet
    <3> QED
      BY <2>1, <3>1, <3>2 DEF Bijection, Injection, Surjection, IsInjective, Agree, Distinct
  <2>3. Cardinality(nodes) = Len(vertices)
    BY <2>1, <2>2, FS_CountingElements DEF ExistsBijection
  <2> QED
    BY <2>1, <2>3 DEF Agree
<1> QED
  BY <1>1, Inductive, PTL

(* No sequence of edits closes a cycle, whatever connections               *)
(* replaceNodeConnections makes at once or leaves half way: the test of    *)
(* addEdge on one edge at a time is enough.                                *)
THEOREM StaysAcyclic ==
  Spec => []Acyclic
<1>1. IInv => Acyclic
  BY DEF IInv, NoCycle, Acyclic
<1> QED
  BY <1>1, Inductive, PTL

(* An edit that throws keeps every node and every connection. *)
THEOREM FailedEditsLoseNothing ==
  Spec => FailedEditLosesNothing
<1> DEFINE Keeps == last'.threw => nodes' = nodes /\ edges \subseteq edges'
<1>1. [Next]_vars => Keeps \/ UNCHANGED vars
  <2> SUFFICES ASSUME Next, last'.threw
               PROVE  nodes' = nodes /\ edges \subseteq edges'
    OBVIOUS
  <2> USE DEF Report, Reports
  <2>1. \A l \in Labels : ~CreateNode(l)
    BY DEF CreateNode
  <2>2. \A n \in nodes : ~DeleteNode(n) /\ ~DeleteUnconnectedNodes(n) /\ ~UnconnectNode(n)
    BY DEF DeleteNode, DeleteUnconnectedNodes, UnconnectNode
  <2>3. ~Clear /\ \A e \in edges : ~Unconnect(e)
    BY DEF Clear, Unconnect
  <2>4. ASSUME NEW n \in nodes, NEW name \in Names, RenameNode(n, name)
        PROVE  nodes' = nodes /\ edges \subseteq edges'
    BY <2>4 DEF RenameNode
  <2>5. ASSUME NEW out \in nodes, NEW in \in nodes, NEW attr \in Attrs, Connect(out, in, attr)
        PROVE  nodes' = nodes /\ edges \subseteq edges'
    BY <2>5 DEF Connect
  <2>6. ASSUME NEW from \in nodes, NEW to \in nodes, ReplaceNodeConnections(from, to)
        PROVE  nodes' = nodes /\ edges \subseteq edges'
    <3>1. ~ConnectAll(from, to)
      BY DEF ConnectAll
    <3>2. nodes' = nodes /\ ConnectSome(from, to)
      BY <2>6, <3>1 DEF ReplaceNodeConnections
    <3>3. PICK before : edges' = edges \cup before
      BY <3>2 DEF ConnectSome
    <3> QED
      BY <3>2, <3>3
  <2> QED
    BY <2>1, <2>2, <2>3, <2>4, <2>5, <2>6 DEF Next
<1>2. Spec => [][Keeps]_vars
  BY <1>1, PTL DEF Spec
<1> QED
  BY <1>2 DEF FailedEditLosesNothing

=============================================================================
