----------------------------- MODULE ParamProofs -----------------------------
(***************************************************************************)
(* Proofs about the parameters of a node, for any times, values and graphs *)
(* at time without a cycle, and any number of parameters.                  *)
(*                                                                         *)
(* Key frames (AnimatedParam.tla): every edit keeps them sorted, which is  *)
(* all that the binary search of an evaluation needs.                      *)
(*                                                                         *)
(* Hashes (NodeHash.tla): the recursion from the generators to the output  *)
(* is well founded, and the hash and the picture of two vertices, of the   *)
(* same graph or not, are equal together.                                  *)
(*                                                                         *)
(* Changes (ParamChange.tla): the edits under way are a stack of which     *)
(* only the top moves, with at most one that tells the plugin of each      *)
(* parameter.                                                              *)
(*                                                                         *)
(* The parts share no variable: a theorem is about Spec, the hashes of a   *)
(* graph while a parameter is edited, or about ChangeSpec, the changes.    *)
(***************************************************************************)
EXTENDS NodeHash, ParamChange,
        FiniteSetTheorems, SequenceTheorems, WellFoundedInduction, TLAPS

-----------------------------------------------------------------------------
(* The key frames, sorted by time.                                         *)

(* A set of natural numbers has a minimum. *)
LEMMA NatMin ==
  ASSUME NEW S \in SUBSET Nat, S # {}
  PROVE  \E n \in S : \A m \in S : n <= m
<1>1. PICK x \in S : \A y \in S : ~ (<<y, x>> \in OpToRel(<, Nat))
  BY NatLessThanWellFounded, WFMin
<1>2. \A y \in S : ~ (y < x)
  BY <1>1 DEF OpToRel
<1> QED
  BY <1>2

Sorted(m, n) == \A i, j \in 1..n : i < j => m[i].time < m[j].time

LEMMA KeyFacts ==
  ASSUME TypeOK
  PROVE  /\ size \in Nat /\ Len(memory) \in Nat /\ size <= Len(memory)
         /\ \A i \in 1..Len(memory) : memory[i] \in TimeValue \cup {Unwritten}
         /\ \A i \in 1..size : /\ memory[i] \in TimeValue /\ memory[i].time \in Times
                               /\ memory[i].time \in Int /\ memory[i].value \in Values
         /\ Sorted(memory, size)
         /\ TimeValue \in SUBSET [time : Int, value : Nat]
<1>1. TimeValue \in SUBSET [time : Int, value : Nat]
  BY ParamAssumption DEF TimeValue
<1>2. \A k \in TimeValue : k.time \in Times /\ k.time \in Int /\ k.value \in Values
  BY ParamAssumption DEF TimeValue
<1>3. Len(memory) \in Nat /\ size \in 0..Len(memory)
  BY DEF TypeOK
<1>4. \A i \in 1..Len(memory) : memory[i] \in TimeValue \cup {Unwritten}
  BY DEF TypeOK
<1>5. \A i \in 1..size : memory[i] \in TimeValue
  BY DEF TypeOK
<1>6. Sorted(memory, size)
  BY DEF TypeOK, Sorted
<1> QED
  BY <1>1, <1>2, <1>3, <1>4, <1>5, <1>6

(* The keys that are before a time are the first ones, and the lower bound *)
(* is the place behind them.                                               *)
LEMMA LowerBoundFacts ==
  ASSUME TypeOK, NEW time \in Int
  PROVE  /\ LowerBound(time) \in 1..(size + 1)
         /\ \A i \in 1..size : memory[i].time < time <=> i < LowerBound(time)
<1> DEFINE early == {i \in 1..size : memory[i].time < time}
           late == {i \in 1..(size + 1) : i = size + 1 \/ ~ (memory[i].time < time)}
<1>1. /\ size \in Nat /\ Sorted(memory, size)
      /\ \A i \in 1..size : memory[i].time \in Int
  BY KeyFacts
<1>2. late \in SUBSET Nat /\ size + 1 \in late
  BY <1>1
<1>3. PICK m \in late : \A i \in late : m <= i
  <2> HIDE DEF late
  <2> QED
    BY <1>2, NatMin
<1>4. m \in 1..(size + 1) /\ m \in Int
  BY <1>1
<1>5. ASSUME NEW i \in 1..size
      PROVE  memory[i].time < time <=> i < m
  <2>1. CASE i < m
    <3>1. i \notin late
      BY <1>1, <1>3, <1>4, <2>1
    <3> QED
      BY <1>1, <2>1, <3>1
  <2>2. CASE ~ (i < m)
    <3>1. m \in 1..size /\ ~ (memory[m].time < time)
      BY <1>1, <1>4, <2>2
    <3>2. CASE i = m
      BY <2>2, <3>1, <3>2
    <3>3. CASE i # m
      <4>1. m < i
        BY <1>4, <2>2, <3>3
      <4>2. memory[m].time < memory[i].time
        BY <1>1, <3>1, <4>1 DEF Sorted
      <4> QED
        BY <1>1, <2>2, <3>1, <4>2
    <3> QED
      BY <3>2, <3>3
  <2> QED
    BY <2>1, <2>2
<1>6. early = 1..(m - 1)
  BY <1>1, <1>4, <1>5
<1>7. Cardinality(1..(m - 1)) = m - 1
  <2>1. 1 \in Int /\ m - 1 \in Int /\ m >= 1
    BY <1>1, <1>4
  <2>2. Cardinality(1..(m - 1)) = IF 1 > m - 1 THEN 0 ELSE (m - 1) - 1 + 1
    BY <2>1, FS_Interval
  <2> QED
    BY <1>4, <2>1, <2>2
<1>8. LowerBound(time) = 1 + Cardinality(early)
  BY DEF LowerBound
<1> HIDE DEF early, late
<1>9. LowerBound(time) = m
  BY <1>4, <1>6, <1>7, <1>8
<1> QED
  BY <1>4, <1>5, <1>9

(* It is the place of the key at that time, if there is one. *)
LEMMA KeyAt ==
  ASSUME TypeOK, NEW time \in Int, HasKeyAt(time)
  PROVE  LowerBound(time) \in 1..size /\ memory[LowerBound(time)].time = time
<1> DEFINE at == LowerBound(time)
<1>1. at \in 1..(size + 1) /\ \A i \in 1..size : memory[i].time < time <=> i < at
  BY LowerBoundFacts
<1>2. /\ size \in Nat /\ Sorted(memory, size)
      /\ \A i \in 1..size : memory[i].time \in Int
  BY KeyFacts
<1>3. PICK i \in 1..size : memory[i].time = time
  BY DEF HasKeyAt
<1> HIDE DEF at
<1>4. ~ (i < at)
  BY <1>1, <1>3
<1>5. at \in 1..size
  BY <1>1, <1>2, <1>4
<1>6. at = i
  <2> SUFFICES ASSUME at # i
               PROVE  FALSE
    OBVIOUS
  <2>1. at < i
    BY <1>1, <1>2, <1>4
  <2>2. memory[at].time < time
    BY <1>2, <1>3, <1>5, <2>1 DEF Sorted
  <2> QED
    BY <1>1, <1>5, <2>2
<1> QED
  BY <1>3, <1>5, <1>6 DEF at

-----------------------------------------------------------------------------
(* The edits keep them sorted.                                             *)

(* What TypeOK says of a memory given by its elements. *)
LEMMA NewMemory ==
  ASSUME TypeOK, NEW n \in Nat, NEW f, memory' = [i \in 1..n |-> f[i]],
         \A i \in 1..n : f[i] \in TimeValue \cup {Unwritten},
         size' \in 0..n, \A i \in 1..size' : f[i] \in TimeValue, Sorted(f, size'),
         value' = value
  PROVE  TypeOK'
<1>1. memory' \in [1..n -> TimeValue \cup {Unwritten}]
  OBVIOUS
<1>2. memory' \in Seq(TimeValue \cup {Unwritten}) /\ Len(memory') = n
  BY <1>1, SeqDef, LenProperties
<1>3. \A i \in 1..size' : i \in 1..n /\ memory'[i] = f[i]
  OBVIOUS
<1>4. \A i, j \in 1..size' : i < j => memory'[i].time < memory'[j].time
  BY <1>3 DEF Sorted
<1> QED
  BY <1>2, <1>3, <1>4 DEF TypeOK, TimeValue

LEMMA SetAtTimeTypes ==
  ASSUME TypeOK, NEW time \in Times, NEW v \in Values, SetValueAtTime(time, v)
  PROVE  TypeOK'
<1> DEFINE at == LowerBound(time)
           key == [time |-> time, value |-> v]
<1>1. /\ size \in Nat /\ Len(memory) \in Nat /\ size <= Len(memory)
      /\ \A i \in 1..Len(memory) : memory[i] \in TimeValue \cup {Unwritten}
      /\ \A i \in 1..size : memory[i] \in TimeValue /\ memory[i].time \in Int
      /\ Sorted(memory, size) /\ time \in Int /\ key \in TimeValue
  BY KeyFacts, ParamAssumption DEF TimeValue
<1>2. at \in 1..(size + 1) /\ \A i \in 1..size : memory[i].time < time <=> i < at
  BY <1>1, LowerBoundFacts
<1>3. CASE HasKeyAt(time)
  <2>1. memory' = [memory EXCEPT ![at].value = v] /\ size' = size /\ value' = value
    BY <1>3 DEF SetValueAtTime
  <2>2. at \in 1..size /\ memory[at].time = time
    BY <1>1, <1>3, KeyAt
  <2> DEFINE f == [i \in 1..Len(memory) |-> IF i = at THEN key ELSE memory[i]]
  <2>3. memory' = [i \in 1..Len(memory) |-> f[i]]
    <3>1. memory[at] \in [time : Times, value : Values]
      BY <1>1, <2>2 DEF TimeValue
    <3>2. [memory[at] EXCEPT !.value = v] = key
      BY <2>2, <3>1
    <3>3. memory' = [memory EXCEPT ![at] = [memory[at] EXCEPT !.value = v]]
      BY <2>1
    <3>4. memory = [i \in 1..Len(memory) |-> memory[i]]
      BY DEF TypeOK
    <3> QED
      BY <3>2, <3>3, <3>4
  <2>4. \A i \in 1..Len(memory) : f[i] \in TimeValue \cup {Unwritten}
    BY <1>1
  <2>5. \A i \in 1..size : f[i] \in TimeValue /\ f[i].time = memory[i].time
    BY <1>1, <2>2
  <2>6. Sorted(f, size)
    BY <1>1, <2>5 DEF Sorted
  <2> HIDE DEF f, key, at
  <2>7. size' \in 0..Len(memory) /\ (\A i \in 1..size' : f[i] \in TimeValue) /\ Sorted(f, size')
    BY <1>1, <2>1, <2>5, <2>6
  <2> QED
    BY <1>1, <2>1, <2>3, <2>4, <2>7, NewMemory
<1>4. CASE ~HasKeyAt(time)
  <2> DEFINE f == [i \in 1..Room |->
                     IF i < at THEN memory[i]
                     ELSE IF i = at THEN key
                     ELSE IF i <= size + 1 THEN memory[i - 1]
                     ELSE IF i <= Len(memory) THEN memory[i]
                     ELSE Unwritten]
  <2>1. memory' = f /\ size' = size + 1 /\ value' = value
    BY <1>4 DEF SetValueAtTime, Inserted
  <2>2. Room \in Nat /\ size + 1 <= Room
    BY <1>1 DEF Room
  <2>3. f = [i \in 1..Room |-> f[i]]
    OBVIOUS
  <2>4. \A i \in 1..Room : f[i] \in TimeValue \cup {Unwritten}
    <3> SUFFICES ASSUME NEW i \in 1..Room
                 PROVE  f[i] \in TimeValue \cup {Unwritten}
      OBVIOUS
    <3>1. i < at => i \in 1..Len(memory)
      BY <1>1, <1>2, <2>2
    <3>2. ~ (i < at) /\ i # at /\ i <= size + 1 => i - 1 \in 1..Len(memory)
      BY <1>1, <1>2, <2>2
    <3>3. i <= Len(memory) => i \in 1..Len(memory)
      BY <2>2
    <3> HIDE DEF at, key
    <3> QED
      BY <1>1, <3>1, <3>2, <3>3
  <2>5. \A i \in 1..(size + 1) :
          /\ i \in 1..Room
          /\ i < at => i \in 1..size /\ f[i] = memory[i]
          /\ i = at => f[i] = key
          /\ i > at => i - 1 \in 1..size /\ f[i] = memory[i - 1]
    BY <1>1, <1>2, <2>2
  <2>6. \A i \in 1..(size + 1) : f[i] \in TimeValue
    <3> SUFFICES ASSUME NEW i \in 1..(size + 1)
                 PROVE  f[i] \in TimeValue
      OBVIOUS
    <3> HIDE DEF f, at, key
    <3> QED
      BY <1>1, <1>2, <2>5
  <2>7. \A i \in 1..size : i >= at => time < memory[i].time
    <3> SUFFICES ASSUME NEW i \in 1..size, i >= at
                 PROVE  time < memory[i].time
      OBVIOUS
    <3>1. ~ (memory[i].time < time) /\ memory[i].time # time
      BY <1>2, <1>4 DEF HasKeyAt
    <3> QED
      BY <1>1, <3>1
  <2>8. Sorted(f, size + 1)
    <3> SUFFICES ASSUME NEW i \in 1..(size + 1), NEW j \in 1..(size + 1), i < j
                 PROVE  f[i].time < f[j].time
      BY DEF Sorted
    <3>1. key.time = time
      OBVIOUS
    <3> HIDE DEF f, at, key
    <3>2. CASE j < at
      <4>1. i \in 1..size /\ j \in 1..size /\ f[i] = memory[i] /\ f[j] = memory[j]
        BY <1>1, <1>2, <2>5, <3>2
      <4> QED
        BY <1>1, <4>1 DEF Sorted
    <3>3. CASE j = at
      <4>1. i \in 1..size /\ f[i] = memory[i] /\ f[j] = key /\ memory[i].time < time
        BY <1>1, <1>2, <2>5, <3>3
      <4> QED
        BY <3>1, <4>1
    <3>4. CASE j > at /\ i < at
      <4>1. i \in 1..size /\ j - 1 \in 1..size /\ f[i] = memory[i] /\ f[j] = memory[j - 1]
        BY <1>1, <1>2, <2>5, <3>4
      <4>2. memory[i].time < time /\ time < memory[j - 1].time
        BY <1>1, <1>2, <2>7, <3>4, <4>1
      <4> QED
        BY <1>1, <4>1, <4>2
    <3>5. CASE j > at /\ i = at
      <4>1. j - 1 \in 1..size /\ f[i] = key /\ f[j] = memory[j - 1] /\ j - 1 >= at
        BY <1>1, <1>2, <2>5, <3>5
      <4> QED
        BY <2>7, <3>1, <4>1
    <3>6. CASE j > at /\ i > at
      <4>1. /\ i - 1 \in 1..size /\ f[i] = memory[i - 1] /\ i - 1 < j - 1
            /\ j - 1 \in 1..size /\ f[j] = memory[j - 1]
        BY <1>1, <1>2, <2>5, <3>6
      <4> QED
        BY <1>1, <4>1 DEF Sorted
    <3> QED
      BY <1>1, <1>2, <3>2, <3>3, <3>4, <3>5, <3>6
  <2>9. memory' = [i \in 1..Room |-> f[i]]
    BY <2>1, <2>3
  <2> HIDE DEF f, at, key
  <2>10. size' \in 0..Room /\ (\A i \in 1..size' : f[i] \in TimeValue) /\ Sorted(f, size')
    BY <1>1, <2>1, <2>2, <2>6, <2>8
  <2> QED
    BY <2>1, <2>2, <2>4, <2>9, <2>10, NewMemory
<1> QED
  BY <1>3, <1>4

LEMMA DeleteTypes ==
  ASSUME TypeOK, NEW time \in Times, DeleteKey(time)
  PROVE  TypeOK'
<1> DEFINE at == LowerBound(time)
           f == [i \in 1..Len(memory) |->
                  IF at <= i /\ i < size THEN memory[i + 1] ELSE memory[i]]
<1>1. /\ size \in Nat /\ Len(memory) \in Nat /\ size <= Len(memory)
      /\ \A i \in 1..Len(memory) : memory[i] \in TimeValue \cup {Unwritten}
      /\ \A i \in 1..size : memory[i] \in TimeValue /\ memory[i].time \in Int
      /\ Sorted(memory, size) /\ time \in Int
  BY KeyFacts, ParamAssumption
<1>2. memory' = f /\ size' = size - 1 /\ value' = value
  BY DEF DeleteKey
<1>3. at \in 1..size
  BY <1>1, KeyAt DEF DeleteKey
<1>4. f = [i \in 1..Len(memory) |-> f[i]]
  OBVIOUS
<1>5. \A i \in 1..Len(memory) : f[i] \in TimeValue \cup {Unwritten}
  <2> SUFFICES ASSUME NEW i \in 1..Len(memory)
               PROVE  f[i] \in TimeValue \cup {Unwritten}
    OBVIOUS
  <2>1. i < size => i + 1 \in 1..Len(memory)
    BY <1>1
  <2> QED
    BY <1>1, <2>1
<1>6. \A i \in 1..(size - 1) :
        /\ i \in 1..size /\ i + 1 \in 1..size
        /\ i < at => f[i] = memory[i]
        /\ i >= at => f[i] = memory[i + 1]
  BY <1>1, <1>3
<1> HIDE DEF f, at
<1>7. \A i \in 1..(size - 1) : f[i] \in TimeValue
  BY <1>1, <1>3, <1>6
<1>8. Sorted(f, size - 1)
  <2> SUFFICES ASSUME NEW i \in 1..(size - 1), NEW j \in 1..(size - 1), i < j
               PROVE  f[i].time < f[j].time
    BY DEF Sorted
  <2>1. CASE j < at
    BY <1>1, <1>3, <1>6, <2>1 DEF Sorted
  <2>2. CASE i < at /\ j >= at
    <3>1. /\ i \in 1..size /\ f[i] = memory[i]
          /\ j + 1 \in 1..size /\ f[j] = memory[j + 1] /\ i < j + 1
      BY <1>1, <1>3, <1>6, <2>2
    <3> QED
      BY <3>1, <1>1 DEF Sorted
  <2>3. CASE i >= at
    <3>1. /\ i + 1 \in 1..size /\ f[i] = memory[i + 1]
          /\ j + 1 \in 1..size /\ f[j] = memory[j + 1] /\ i + 1 < j + 1
      BY <1>1, <1>3, <1>6, <2>3
    <3> QED
      BY <3>1, <1>1 DEF Sorted
  <2> QED
    BY <1>1, <1>3, <2>1, <2>2, <2>3
<1>9. memory' = [i \in 1..Len(memory) |-> f[i]]
  BY <1>2, <1>4
<1>10. size' \in 0..Len(memory) /\ (\A i \in 1..size' : f[i] \in TimeValue) /\ Sorted(f, size')
  BY <1>1, <1>2, <1>3, <1>7, <1>8
<1> QED
  BY <1>1, <1>2, <1>5, <1>9, <1>10, NewMemory

LEMMA CopyTypes ==
  ASSUME TypeOK, NEW v \in Values, NEW keys \in KeyLists, Copy(v, keys)
  PROVE  TypeOK'
<1> DEFINE rest == SubSeq(memory, Len(keys) + 1, Len(memory))
           S == TimeValue \cup {Unwritten}
<1>1. value' = v /\ size' = Len(keys) /\ memory' = keys \o rest
  BY DEF Copy
<1>2. keys \in Seq(TimeValue) /\ Len(keys) \in {0, 1} /\ keys \in Seq(S)
  <2>1. CASE keys = << >>
    BY <2>1
  <2>2. ASSUME NEW k \in TimeValue, keys = <<k>>
        PROVE  keys \in Seq(TimeValue) /\ Len(keys) = 1 /\ keys \in Seq(S)
    <3>1. k \in S
      OBVIOUS
    <3> HIDE DEF S
    <3> QED
      BY <2>2, <3>1
  <2> QED
    BY <2>1, <2>2 DEF KeyLists
<1>3. rest \in Seq(S)
  <2>1. memory \in Seq(S) /\ Len(memory) \in Nat
    BY DEF TypeOK
  <2> HIDE DEF S
  <2>2. \A i \in (Len(keys) + 1)..Len(memory) : memory[i] \in S
    BY <1>2, <2>1
  <2> QED
    BY <1>2, <2>1, <2>2, SubSeqProperties
<1> HIDE DEF rest, S
<1>4. memory' \in Seq(S) /\ Len(memory') = Len(keys) + Len(rest)
      /\ \A i \in 1..Len(keys) : memory'[i] = keys[i]
  BY <1>1, <1>2, <1>3, ConcatProperties
<1>5. Len(rest) \in Nat
  BY <1>3
<1>6. size' \in 0..Len(memory')
  BY <1>1, <1>2, <1>4, <1>5
<1>7. \A i \in 1..size' : memory'[i] \in TimeValue
  BY <1>1, <1>2, <1>4
<1>8. \A i, j \in 1..size' : ~ (i < j)
  BY <1>1, <1>2
<1> QED
  BY <1>1, <1>4, <1>6, <1>7, <1>8 DEF TypeOK, S, TimeValue

LEMMA EditTypes ==
  ASSUME TypeOK, [Edit]_paramVars
  PROVE  TypeOK'
<1>1. CASE UNCHANGED paramVars
  BY <1>1 DEF paramVars, TypeOK, TimeValue
<1>2. ASSUME NEW v \in Values, SetValue(v) \/ SetValueFromExpression(v)
      PROVE  TypeOK'
  <2>1. value' = v /\ memory' = memory /\ size' \in {0, size}
    BY <1>2 DEF SetValue, SetValueFromExpression
  <2>2. size \in Nat /\ Len(memory) \in Nat
    BY DEF TypeOK
  <2> QED
    BY <2>1, <2>2 DEF TypeOK, TimeValue
<1>3. CASE DeleteAllKeys
  <2>1. value' = value /\ memory' = memory /\ size' = 0
    BY <1>3 DEF DeleteAllKeys
  <2>2. Len(memory) \in Nat
    BY DEF TypeOK
  <2> QED
    BY <2>1, <2>2 DEF TypeOK, TimeValue
<1> QED
  BY <1>1, <1>2, <1>3, SetAtTimeTypes, DeleteTypes, CopyTypes DEF Edit

-----------------------------------------------------------------------------
(* What the questions answer, from the place of the lower bound.           *)

LEMMA KeyOrder ==
  ASSUME TypeOK, NEW i \in 1..size, NEW j \in 1..size
  PROVE  /\ memory[i].time < memory[j].time <=> i < j
         /\ memory[i].time = memory[j].time <=> i = j
<1>1. /\ i \in Int /\ j \in Int
      /\ memory[i].time \in Int /\ memory[j].time \in Int
      /\ i < j => memory[i].time < memory[j].time
      /\ j < i => memory[j].time < memory[i].time
  BY KeyFacts DEF Sorted
<1> QED
  BY <1>1

LEMMA KeyValueIs ==
  ASSUME TypeOK, NEW i \in 1..size
  PROVE  memory[i].time \in KeyTimes /\ KeyValue(memory[i].time) = memory[i].value
<1>1. \A j \in 1..size : memory[j].time = memory[i].time <=> j = i
  BY KeyOrder
<1>2. (CHOOSE j \in 1..size : memory[j].time = memory[i].time) = i
  BY <1>1
<1> QED
  BY <1>2 DEF KeyTimes, KeyValue

LEMMA KeyTimesInt ==
  ASSUME TypeOK
  PROVE  KeyTimes \in SUBSET Int
  BY KeyFacts DEF KeyTimes

LEMMA LatestIs ==
  ASSUME NEW T \in SUBSET Int, NEW t \in T, \A u \in T : u <= t
  PROVE  Latest(T) = t
<1>1. \A s \in T : (\A u \in T : u <= s) <=> s = t
  OBVIOUS
<1> QED
  BY <1>1 DEF Latest

LEMMA EarliestIs ==
  ASSUME NEW T \in SUBSET Int, NEW t \in T, \A u \in T : u >= t
  PROVE  Earliest(T) = t
<1>1. \A s \in T : (\A u \in T : u >= s) <=> s = t
  OBVIOUS
<1> QED
  BY <1>1 DEF Earliest

(* The keys before a time end just below its lower bound. *)
LEMMA BeforeFacts ==
  ASSUME TypeOK, NEW time \in Int
  PROVE  /\ Before(time) = KeyTimes <=> LowerBound(time) = size + 1
         /\ Before(time) = {} <=> LowerBound(time) = 1
         /\ LowerBound(time) > 1 =>
              Latest(Before(time)) = memory[LowerBound(time) - 1].time
<1> DEFINE at == LowerBound(time)
<1>1. at \in 1..(size + 1) /\ \A i \in 1..size : memory[i].time < time <=> i < at
  BY LowerBoundFacts
<1>2. size \in Nat
  BY KeyFacts
<1> HIDE DEF at
<1>3. \A i \in 1..size : memory[i].time \in Before(time) <=> i < at
  BY <1>1 DEF Before, KeyTimes
<1>4. \A t \in Before(time) : \E i \in 1..size : i < at /\ t = memory[i].time
  BY <1>1 DEF Before, KeyTimes
<1>5. Before(time) = KeyTimes <=> at = size + 1
  <2>1. CASE at = size + 1
    BY <1>2, <1>3, <2>1 DEF Before, KeyTimes
  <2>2. CASE at # size + 1
    <3>1. at \in 1..size
      BY <1>1, <1>2, <2>2
    <3>2. memory[at].time \in KeyTimes /\ memory[at].time \notin Before(time)
      BY <1>3, <3>1 DEF KeyTimes
    <3> QED
      BY <2>2, <3>2
  <2> QED
    BY <2>1, <2>2
<1>6. Before(time) = {} <=> at = 1
  <2>1. CASE at = 1
    BY <1>4, <2>1
  <2>2. CASE at # 1
    <3>1. 1 \in 1..size /\ 1 < at
      BY <1>1, <1>2, <2>2
    <3>2. memory[1].time \in Before(time)
      BY <1>3, <3>1
    <3> QED
      BY <2>2, <3>2
  <2> QED
    BY <2>1, <2>2
<1>7. ASSUME at > 1
      PROVE  Latest(Before(time)) = memory[at - 1].time
  <2>1. at - 1 \in 1..size /\ at - 1 < at
    BY <1>1, <1>2, <1>7
  <2>2. memory[at - 1].time \in Before(time)
    BY <1>3, <2>1
  <2>3. \A t \in Before(time) : t <= memory[at - 1].time
    <3> SUFFICES ASSUME NEW i \in 1..size, i < at
                 PROVE  memory[i].time <= memory[at - 1].time
      BY <1>4
    <3>1. i < at - 1 \/ i = at - 1
      BY <1>1
    <3>2. memory[i].time < memory[at - 1].time \/ memory[i].time = memory[at - 1].time
      BY <2>1, <3>1, KeyOrder
    <3>3. memory[i].time \in Int /\ memory[at - 1].time \in Int
      BY <2>1, KeyFacts
    <3> QED
      BY <3>2, <3>3
  <2>4. Before(time) \in SUBSET Int
    BY KeyTimesInt DEF Before
  <2> QED
    BY <2>2, <2>3, <2>4, LatestIs
<1> QED
  BY <1>5, <1>6, <1>7 DEF at

(* Those after it start at the lower bound, or behind the key at that time. *)
LEMMA AfterFacts ==
  ASSUME TypeOK, NEW time \in Int, NEW i \in 1..size,
         time < memory[i].time, \A j \in 1..size : j < i => memory[j].time <= time
  PROVE  After(time) # {} /\ Earliest(After(time)) = memory[i].time
<1>1. size \in Nat /\ \A j \in 1..size : memory[j].time \in Int
  BY KeyFacts
<1>2. memory[i].time \in After(time)
  BY <1>1 DEF After, KeyTimes
<1>3. \A t \in After(time) : t >= memory[i].time
  <2> SUFFICES ASSUME NEW j \in 1..size, memory[j].time > time
               PROVE  memory[j].time >= memory[i].time
    BY DEF After, KeyTimes
  <2>1. ~ (j < i)
    BY <1>1
  <2>2. i < j \/ i = j
    BY <2>1
  <2>3. memory[i].time < memory[j].time \/ memory[i].time = memory[j].time
    BY <2>2, KeyOrder
  <2> QED
    BY <1>1, <2>3
<1>4. After(time) \in SUBSET Int
  BY KeyTimesInt DEF After
<1> QED
  BY <1>2, <1>3, <1>4, EarliestIs

(* The place of a time up to the last key, as both questions look it up. *)
LEMMA PlaceOf ==
  ASSUME TypeOK, NEW time \in Int, Before(time) # KeyTimes
  PROVE  /\ LowerBound(time) \in 1..size
         /\ time <= memory[LowerBound(time)].time
         /\ time \in KeyTimes <=> memory[LowerBound(time)].time = time
         /\ \A j \in 1..size : j < LowerBound(time) => memory[j].time < time
<1> DEFINE at == LowerBound(time)
<1>1. at \in 1..(size + 1) /\ \A i \in 1..size : memory[i].time < time <=> i < at
  BY LowerBoundFacts
<1>2. at # size + 1
  BY BeforeFacts
<1>3. size \in Nat /\ \A j \in 1..size : memory[j].time \in Int
  BY KeyFacts
<1> HIDE DEF at
<1>4. at \in 1..size
  BY <1>1, <1>2, <1>3
<1>5. time <= memory[at].time
  <2>1. ~ (memory[at].time < time)
    BY <1>1, <1>4
  <2> QED
    BY <1>3, <1>4, <2>1
<1>6. time \in KeyTimes => memory[at].time = time
  BY KeyAt DEF KeyTimes, HasKeyAt, at
<1>7. memory[at].time = time => time \in KeyTimes
  BY <1>4 DEF KeyTimes
<1> QED
  BY <1>1, <1>4, <1>5, <1>6, <1>7 DEF at

LEMMA DivBounds ==
  ASSUME NEW a \in Nat, NEW n \in Nat \ {0}
  PROVE  a \div n \in Nat /\ n * (a \div n) <= a /\ a < n * (a \div n) + n
  BY SMT

(* The point on the line between two keys, rounded down. *)
LEMMA OnTheLine ==
  ASSUME NEW prev \in TimeValue, NEW next \in TimeValue, NEW time \in Int,
         prev.time < time, time < next.time
  PROVE  LET v == Interpolated(prev, next, time)
             n == next.time - prev.time
             exact == prev.value * (next.time - time) + next.value * (time - prev.time)
         IN v * n <= exact /\ exact < (v + 1) * n
<1> DEFINE n == next.time - prev.time
           exact == prev.value * (next.time - time) + next.value * (time - prev.time)
           v == exact \div n
<1>1. /\ prev.time \in Int /\ next.time \in Int
      /\ prev.value \in Nat /\ next.value \in Nat
  BY ParamAssumption DEF TimeValue
<1>2. n \in Nat \ {0} /\ next.time - time \in Nat /\ time - prev.time \in Nat
  BY <1>1
<1>3. exact \in Nat
  <2>1. \A x, y \in Nat : x * y \in Nat
    OBVIOUS
  <2>2. /\ prev.value * (next.time - time) \in Nat
        /\ next.value * (time - prev.time) \in Nat
    BY <1>1, <1>2, <2>1
  <2> QED
    BY <2>2
<1>4. Interpolated(prev, next, time) = v
  BY DEF Interpolated
<1> HIDE DEF n, exact
<1>5. v \in Nat /\ n * v <= exact /\ exact < n * v + n
  BY <1>2, <1>3, DivBounds
<1> HIDE DEF v
<1>6. v * n = n * v /\ (v + 1) * n = n * v + n
  BY <1>2, <1>5
<1>7. v * n <= exact /\ exact < (v + 1) * n
  BY <1>5, <1>6
<1> QED
  BY <1>4, <1>7 DEF n, exact

LEMMA ValueFromTypes == TypeOK => ValueFollowsKeys
<1> SUFFICES ASSUME TypeOK, NEW time \in Times,
                    KeyTimes # {}, Before(time) # KeyTimes,
                    NEW v \in ValuesAtTime(time)
             PROVE  IF time \in KeyTimes THEN v = KeyValue(time)
                    ELSE IF Before(time) = {} THEN v = KeyValue(Earliest(KeyTimes))
                    ELSE LET a == Latest(Before(time))
                             b == Earliest(After(time))
                             exact == KeyValue(a) * (b - time) + KeyValue(b) * (time - a)
                         IN v * (b - a) <= exact /\ exact < (v + 1) * (b - a)
  BY DEF ValueFollowsKeys
<1> DEFINE at == LowerBound(time)
<1>1. time \in Int
  BY ParamAssumption
<1>2. /\ at \in 1..size /\ time <= memory[at].time
      /\ time \in KeyTimes <=> memory[at].time = time
      /\ \A j \in 1..size : j < at => memory[j].time < time
  BY <1>1, PlaceOf
<1>3. /\ size \in Nat
      /\ \A j \in 1..size : memory[j] \in TimeValue /\ memory[j].time \in Int
  BY KeyFacts
<1>4. v = IF at = 1 THEN memory[1].value
          ELSE IF memory[at].time = time THEN memory[at].value
          ELSE Interpolated(memory[at - 1], memory[at], time)
  BY <1>2, <1>3 DEF ValuesAtTime
<1>5. Before(time) = {} <=> at = 1
  BY <1>1, BeforeFacts
<1>6. at > 1 => Latest(Before(time)) = memory[at - 1].time
  BY <1>1, BeforeFacts
<1> HIDE DEF at
<1>7. CASE time \in KeyTimes
  <2>1. v = memory[at].value /\ memory[at].time = time
    BY <1>2, <1>4, <1>7
  <2>2. KeyValue(time) = memory[at].value
    BY <1>2, <2>1, KeyValueIs
  <2> QED
    BY <1>7, <2>1, <2>2
<1>8. CASE time \notin KeyTimes /\ Before(time) = {}
  <2>1. at = 1 /\ v = memory[1].value /\ 1 \in 1..size
    BY <1>2, <1>4, <1>5, <1>8
  <2>2. \A t \in KeyTimes : t >= memory[1].time
    <3> SUFFICES ASSUME NEW j \in 1..size
                 PROVE  memory[j].time >= memory[1].time
      BY DEF KeyTimes
    <3>1. 1 < j \/ j = 1
      OBVIOUS
    <3>2. memory[1].time < memory[j].time \/ memory[1].time = memory[j].time
      BY <2>1, <3>1, KeyOrder
    <3> QED
      BY <1>3, <2>1, <3>2
  <2>3. memory[1].time \in KeyTimes /\ KeyValue(memory[1].time) = memory[1].value
    BY <2>1, KeyValueIs
  <2>4. Earliest(KeyTimes) = memory[1].time
    BY <2>2, <2>3, KeyTimesInt, EarliestIs
  <2> QED
    BY <1>8, <2>1, <2>3, <2>4
<1>9. CASE time \notin KeyTimes /\ Before(time) # {}
  <2>1. at > 1 /\ at - 1 \in 1..size /\ at - 1 < at
    BY <1>2, <1>3, <1>5, <1>9
  <2>2. v = Interpolated(memory[at - 1], memory[at], time)
    BY <1>2, <1>4, <1>9, <2>1
  <2>3. memory[at - 1].time < time /\ time < memory[at].time
    BY <1>1, <1>2, <1>3, <1>9, <2>1
  <2>4. \A j \in 1..size : j < at => memory[j].time <= time
    BY <1>1, <1>2, <1>3
  <2>5. Earliest(After(time)) = memory[at].time
    BY <1>1, <1>2, <2>3, <2>4, AfterFacts
  <2>6. /\ KeyValue(memory[at - 1].time) = memory[at - 1].value
        /\ KeyValue(memory[at].time) = memory[at].value
    BY <1>2, <2>1, KeyValueIs
  <2>7. memory[at - 1] \in TimeValue /\ memory[at] \in TimeValue
    BY <1>2, <1>3, <2>1
  <2> DEFINE n == memory[at].time - memory[at - 1].time
             exact == memory[at - 1].value * (memory[at].time - time)
                        + memory[at].value * (time - memory[at - 1].time)
  <2>8. v * n <= exact /\ exact < (v + 1) * n
    BY <1>1, <2>2, <2>3, <2>7, OnTheLine
  <2> QED
    BY <1>6, <1>9, <2>1, <2>5, <2>6, <2>8
<1> QED
  BY <1>7, <1>8, <1>9

LEMMA IndexFromTypes == TypeOK => KeyIndexNearest
<1> SUFFICES ASSUME TypeOK, NEW time \in Times, Before(time) # KeyTimes
             PROVE  LET Is(i, T, t) == IF T = {} THEN i = NoIndex
                                       ELSE i \in 1..size /\ memory[i].time = t
                    IN /\ Is(KeyIndex(time, 0), KeyTimes \cap {time}, time)
                       /\ Is(KeyIndex(time, -1), Before(time), Latest(Before(time)))
                       /\ Is(KeyIndex(time, 1), After(time), Earliest(After(time)))
  BY DEF KeyIndexNearest
<1> DEFINE at == LowerBound(time)
           Is(i, T, t) == IF T = {} THEN i = NoIndex
                          ELSE i \in 1..size /\ memory[i].time = t
<1>1. time \in Int
  BY ParamAssumption
<1>2. /\ at \in 1..size /\ time <= memory[at].time
      /\ time \in KeyTimes <=> memory[at].time = time
      /\ \A j \in 1..size : j < at => memory[j].time < time
  BY <1>1, PlaceOf
<1>3. size \in Nat /\ \A j \in 1..size : memory[j].time \in Int
  BY KeyFacts
<1>4. /\ KeyIndex(time, 0) = IF memory[at].time = time THEN at ELSE NoIndex
      /\ KeyIndex(time, -1) = at - 1
      /\ KeyIndex(time, 1) = IF memory[at].time > time THEN at
                             ELSE IF at < size THEN at + 1 ELSE NoIndex
  BY <1>2, <1>3 DEF KeyIndex
<1>5. Before(time) = {} <=> at = 1
  BY <1>1, BeforeFacts
<1>6. at > 1 => Latest(Before(time)) = memory[at - 1].time
  BY <1>1, BeforeFacts
<1> HIDE DEF at
<1>7. Is(KeyIndex(time, 0), KeyTimes \cap {time}, time)
  BY <1>2, <1>4
<1>8. Is(KeyIndex(time, -1), Before(time), Latest(Before(time)))
  <2>1. CASE at = 1
    BY <1>4, <1>5, <2>1 DEF NoIndex
  <2>2. CASE at # 1
    <3>1. at > 1 /\ at - 1 \in 1..size
      BY <1>2, <1>3, <2>2
    <3> QED
      BY <1>4, <1>5, <1>6, <2>2, <3>1
  <2> QED
    BY <2>1, <2>2
<1>9. Is(KeyIndex(time, 1), After(time), Earliest(After(time)))
  <2>1. CASE memory[at].time > time
    <3>1. \A j \in 1..size : j < at => memory[j].time <= time
      BY <1>1, <1>2, <1>3
    <3>2. After(time) # {} /\ Earliest(After(time)) = memory[at].time
      BY <1>1, <1>2, <2>1, <3>1, AfterFacts
    <3> QED
      BY <1>2, <1>4, <2>1, <3>2
  <2>2. CASE ~ (memory[at].time > time) /\ at < size
    <3>1. memory[at].time = time /\ at + 1 \in 1..size
      BY <1>1, <1>2, <1>3, <2>2
    <3>2. memory[at].time < memory[at + 1].time
      BY <1>2, <3>1, KeyOrder
    <3>3. \A j \in 1..size : j < at + 1 => memory[j].time <= time
      <4> SUFFICES ASSUME NEW j \in 1..size, j < at + 1
                   PROVE  memory[j].time <= time
        OBVIOUS
      <4>1. j < at \/ j = at
        BY <1>2
      <4> QED
        BY <1>1, <1>2, <1>3, <3>1, <4>1
    <3>4. After(time) # {} /\ Earliest(After(time)) = memory[at + 1].time
      BY <1>1, <3>1, <3>2, <3>3, AfterFacts
    <3> QED
      BY <1>4, <2>2, <3>1, <3>4
  <2>3. CASE ~ (memory[at].time > time) /\ ~ (at < size)
    <3>1. memory[at].time = time /\ at = size
      BY <1>1, <1>2, <1>3, <2>3
    <3>2. \A j \in 1..size : ~ (memory[j].time > time)
      <4> SUFFICES ASSUME NEW j \in 1..size
                   PROVE  ~ (memory[j].time > time)
        OBVIOUS
      <4>1. j < at \/ j = at
        BY <1>2, <1>3, <3>1
      <4> QED
        BY <1>1, <1>2, <1>3, <3>1, <4>1
    <3>3. After(time) = {}
      BY <3>2 DEF After, KeyTimes
    <3> QED
      BY <1>4, <2>3, <3>3 DEF NoIndex
  <2> QED
    BY <2>1, <2>2, <2>3
<1> QED
  BY <1>7, <1>8, <1>9

LEMMA InitKeys == Init => TypeOK
<1> SUFFICES ASSUME Init
             PROVE  TypeOK
  OBVIOUS
<1>1. value \in Values /\ memory = << >> /\ size = 0
  BY DEF Init
<1>2. memory \in Seq(TimeValue \cup {Unwritten}) /\ Len(memory) = 0
  BY <1>1
<1> QED
  BY <1>1, <1>2 DEF TypeOK

LEMMA NextEdits == [Next]_vars => [Edit]_paramVars
  BY DEF Next, EditParam, Rebuild, Keep, vars, paramVars

(* Whatever the application and the plugin edit, the memory holds the key frames sorted
   by time, each time once. *)
THEOREM KeysAreSorted == Spec => []TypeOK
<1>1. NodeHashInit => TypeOK
  BY InitKeys DEF NodeHashInit
<1>2. TypeOK /\ [Next]_vars => TypeOK'
  BY NextEdits, EditTypes
<1> QED
  BY <1>1, <1>2, PTL DEF Spec

(* An evaluation up to the last key frame answers the key at that time, the first key or
   the point on the line between the nearest two, for any times and values. *)
THEOREM ValuesFollow == Spec => []ValueFollowsKeys
  BY KeysAreSorted, ValueFromTypes, PTL

(* getKeyIndex finds the key at a time or the nearest one up to the last key frame. *)
THEOREM IndexIsNearest == Spec => []KeyIndexNearest
  BY KeysAreSorted, IndexFromTypes, PTL

-----------------------------------------------------------------------------
(* The hash and the picture of every vertex, as the function that the      *)
(* recursion of GlobalHash and of Picture defines, for a graph g whose     *)
(* hash can tell of all the frame shows, and the value x of the edited     *)
(* parameter at the frame.                                                 *)

LocalTerm(g, frame, x, v) ==
  <<g.plugin[v], IF g.varying[v] THEN {frame} ELSE {},
    {IF v \in Animated THEN x ELSE g.constant[v]}>>

HashTerm(g, frame, x, h, v) ==
  <<LocalTerm(g, frame, x, v),
    [i \in DOMAIN g.inputs[v] |-> <<g.inputs[v][i].clip, h[g.inputs[v][i].vertex]>>]>>

IsHash(g, frame, x, h) == h = [v \in g.vertices |-> HashTerm(g, frame, x, h, v)]

PictureTerm(g, frame, x, p, v) ==
  [plugin |-> g.plugin[v],
   time   |-> IF g.varying[v] THEN {frame} ELSE {},
   param  |-> IF v \in Animated THEN x ELSE g.constant[v],
   inputs |-> [i \in DOMAIN g.inputs[v] |->
                 [clip |-> g.inputs[v][i].clip, of |-> p[g.inputs[v][i].vertex]]]]

IsPicture(g, frame, x, p) == p = [v \in g.vertices |-> PictureTerm(g, frame, x, p, v)]

(* What the hash and the render read in a frame that is told.              *)
OneValue(frame, x) ==
  \A v \in graph.vertices :
    LET param == IF v \in Animated THEN x ELSE graph.constant[v]
    IN /\ \A h \in HashReads(frame) : h[v] = param
       /\ \A r \in RenderReads(frame) : r[v] = param

LEMMA ToldValue ==
  ASSUME NEW frame, Told(frame)
  PROVE  \E x : OneValue(frame, x)
<1>1. PICK x : \A v \in graph.vertices : v \in Animated =>
                 {x} = ValuesAtTime(frame) /\ {x} = ValuesAtTime(TimeOf(v, frame))
  <2>1. CASE \E v \in graph.vertices : v \in Animated
    <3>1. PICK u \in graph.vertices : u \in Animated
      BY <2>1
    <3>2. PICK x : {x} = ValuesAtTime(frame)
      BY <3>1 DEF Told
    <3>3. ASSUME NEW v \in graph.vertices, v \in Animated
          PROVE  {x} = ValuesAtTime(TimeOf(v, frame))
      <4>1. PICK y : {y} = ValuesAtTime(frame) /\ {y} = ValuesAtTime(TimeOf(v, frame))
        BY <3>3 DEF Told
      <4>2. y \in {x}
        BY <3>2, <4>1
      <4> QED
        BY <4>1, <4>2
    <3> QED
      BY <3>2, <3>3
  <2>2. CASE ~ \E v \in graph.vertices : v \in Animated
    BY <2>2
  <2> QED
    BY <2>1, <2>2
<1>2. ASSUME NEW v \in graph.vertices, NEW h \in HashReads(frame)
      PROVE  h[v] = IF v \in Animated THEN x ELSE graph.constant[v]
  <2>1. h[v] \in ParamsAtTime(v, frame)
    BY DEF HashReads, Reads
  <2> QED
    BY <1>1, <2>1 DEF ParamsAtTime
<1>3. ASSUME NEW v \in graph.vertices, NEW r \in RenderReads(frame)
      PROVE  r[v] = IF v \in Animated THEN x ELSE graph.constant[v]
  <2>1. r[v] \in ParamsAtTime(v, TimeOf(v, frame))
    BY DEF RenderReads, Reads
  <2> QED
    BY <1>1, <2>1 DEF ParamsAtTime
<1> QED
  BY <1>2, <1>3 DEF OneValue

LEMMA InputsBelow ==
  ASSUME NEW g \in Graphs
  PROVE  \E n \in Nat, rank \in [g.vertices -> Nat] :
           /\ \A v \in g.vertices : rank[v] \in 1..n
           /\ \A v \in g.vertices : \A i \in DOMAIN g.inputs[v] :
                /\ g.inputs[v][i].vertex \in g.vertices
                /\ rank[g.inputs[v][i].vertex] < rank[v]
<1>1. PICK rank \in [g.vertices -> 1..Cardinality(g.vertices)] :
        \A v \in g.vertices :
          \A i \in DOMAIN g.inputs[v] : rank[g.inputs[v][i].vertex] < rank[v]
  BY GraphAssumption
<1>2. Cardinality(g.vertices) \in Nat
  BY GraphAssumption, FS_CardinalityType
<1>3. rank \in [g.vertices -> Nat]
  BY <1>2
<1>4. \A v \in g.vertices : \A i \in DOMAIN g.inputs[v] : g.inputs[v][i].vertex \in g.vertices
  BY GraphAssumption
<1>5. \A v \in g.vertices : rank[v] \in 1..Cardinality(g.vertices)
  OBVIOUS
<1> QED
  BY <1>1, <1>2, <1>3, <1>4, <1>5

(* The recursion is sound: there is such a function of the vertices, built *)
(* along the ranks.                                                        *)
LEMMA HashExists ==
  ASSUME NEW g \in Graphs, NEW frame, NEW x
  PROVE  \E h : IsHash(g, frame, x, h)
<1>1. PICK n \in Nat, rank \in [g.vertices -> Nat] :
        /\ \A v \in g.vertices : rank[v] \in 1..n
        /\ \A v \in g.vertices : \A i \in DOMAIN g.inputs[v] :
             /\ g.inputs[v][i].vertex \in g.vertices
             /\ rank[g.inputs[v][i].vertex] < rank[v]
  BY InputsBelow
<1> DEFINE Upto(m) == {v \in g.vertices : rank[v] <= m}
           Partial(m, h) == h = [v \in Upto(m) |-> HashTerm(g, frame, x, h, v)]
           Missing == {m \in Nat : ~ \E h : Partial(m, h)}
<1>2. Missing = {}
  <2> SUFFICES ASSUME Missing # {}
               PROVE  FALSE
    OBVIOUS
  <2>1. Missing \in SUBSET Nat
    OBVIOUS
  <2>2. PICK m \in Missing : \A k \in Missing : m <= k
    <3> HIDE DEF Missing
    <3> QED
      BY <2>1, NatMin
  <2>3. PICK h : m # 0 => Partial(m - 1, h)
    <3>1. CASE m = 0
      BY <3>1
    <3>2. CASE m # 0
      <4>1. m - 1 \in Nat /\ ~ (m <= m - 1)
        BY <3>2
      <4>2. m - 1 \notin Missing
        BY <2>2, <4>1
      <4> QED
        BY <4>1, <4>2
    <3> QED
      BY <3>1, <3>2
  <2> DEFINE next == [v \in Upto(m) |-> HashTerm(g, frame, x, h, v)]
  <2>4. ASSUME NEW v \in Upto(m)
        PROVE  HashTerm(g, frame, x, h, v) = HashTerm(g, frame, x, next, v)
    <3>1. ASSUME NEW i \in DOMAIN g.inputs[v]
          PROVE  h[g.inputs[v][i].vertex] = next[g.inputs[v][i].vertex]
      <4> DEFINE u == g.inputs[v][i].vertex
      <4>1. u \in g.vertices /\ rank[u] < rank[v] /\ rank[u] \in 1..n /\ rank[v] \in Nat
        BY <1>1, <3>1
      <4>2. m # 0 /\ u \in Upto(m - 1) /\ u \in Upto(m)
        BY <4>1
      <4> HIDE DEF u, Upto
      <4>3. h[u] = HashTerm(g, frame, x, h, u)
        BY <2>3, <4>2
      <4>4. next[u] = HashTerm(g, frame, x, h, u)
        BY <4>2
      <4> QED
        BY <4>3, <4>4 DEF u
    <3> HIDE DEF next
    <3> QED
      BY <3>1 DEF HashTerm
  <2>5. Partial(m, next)
    <3>1. next = [v \in Upto(m) |-> HashTerm(g, frame, x, h, v)]
      OBVIOUS
    <3> HIDE DEF next, Upto
    <3> QED
      BY <2>4, <3>1
  <2> HIDE DEF Partial
  <2> QED
    BY <2>5
<1>3. PICK h : Partial(n, h)
  BY <1>2
<1>4. Upto(n) = g.vertices
  BY <1>1
<1> HIDE DEF Upto
<1> QED
  BY <1>3, <1>4 DEF IsHash

LEMMA PictureExists ==
  ASSUME NEW g \in Graphs, NEW frame, NEW x
  PROVE  \E p : IsPicture(g, frame, x, p)
<1>1. PICK n \in Nat, rank \in [g.vertices -> Nat] :
        /\ \A v \in g.vertices : rank[v] \in 1..n
        /\ \A v \in g.vertices : \A i \in DOMAIN g.inputs[v] :
             /\ g.inputs[v][i].vertex \in g.vertices
             /\ rank[g.inputs[v][i].vertex] < rank[v]
  BY InputsBelow
<1> DEFINE Upto(m) == {v \in g.vertices : rank[v] <= m}
           Partial(m, p) == p = [v \in Upto(m) |-> PictureTerm(g, frame, x, p, v)]
           Missing == {m \in Nat : ~ \E p : Partial(m, p)}
<1>2. Missing = {}
  <2> SUFFICES ASSUME Missing # {}
               PROVE  FALSE
    OBVIOUS
  <2>1. Missing \in SUBSET Nat
    OBVIOUS
  <2>2. PICK m \in Missing : \A k \in Missing : m <= k
    <3> HIDE DEF Missing
    <3> QED
      BY <2>1, NatMin
  <2>3. PICK p : m # 0 => Partial(m - 1, p)
    <3>1. CASE m = 0
      BY <3>1
    <3>2. CASE m # 0
      <4>1. m - 1 \in Nat /\ ~ (m <= m - 1)
        BY <3>2
      <4>2. m - 1 \notin Missing
        BY <2>2, <4>1
      <4> QED
        BY <4>1, <4>2
    <3> QED
      BY <3>1, <3>2
  <2> DEFINE next == [v \in Upto(m) |-> PictureTerm(g, frame, x, p, v)]
  <2>4. ASSUME NEW v \in Upto(m)
        PROVE  PictureTerm(g, frame, x, p, v) = PictureTerm(g, frame, x, next, v)
    <3>1. ASSUME NEW i \in DOMAIN g.inputs[v]
          PROVE  p[g.inputs[v][i].vertex] = next[g.inputs[v][i].vertex]
      <4> DEFINE u == g.inputs[v][i].vertex
      <4>1. u \in g.vertices /\ rank[u] < rank[v] /\ rank[u] \in 1..n /\ rank[v] \in Nat
        BY <1>1, <3>1
      <4>2. m # 0 /\ u \in Upto(m - 1) /\ u \in Upto(m)
        BY <4>1
      <4> HIDE DEF u, Upto
      <4>3. p[u] = PictureTerm(g, frame, x, p, u)
        BY <2>3, <4>2
      <4>4. next[u] = PictureTerm(g, frame, x, p, u)
        BY <4>2
      <4> QED
        BY <4>3, <4>4 DEF u
    <3> HIDE DEF next
    <3> QED
      BY <3>1 DEF PictureTerm
  <2>5. Partial(m, next)
    <3>1. next = [v \in Upto(m) |-> PictureTerm(g, frame, x, p, v)]
      OBVIOUS
    <3> HIDE DEF next, Upto
    <3> QED
      BY <2>4, <3>1
  <2> HIDE DEF Partial
  <2> QED
    BY <2>5
<1>3. PICK p : Partial(n, p)
  BY <1>2
<1>4. Upto(n) = g.vertices
  BY <1>1
<1> HIDE DEF Upto
<1> QED
  BY <1>3, <1>4 DEF IsPicture

(* What ComputeHashAtTime and the render end with. *)
LEMMA HashOfOutput ==
  ASSUME NEW frame, Told(frame), graph \in Graphs, NEW x, OneValue(frame, x),
         NEW a \in HashReads(frame)
  PROVE  \E h : /\ IsHash(graph, frame, x, h)
                /\ GlobalHash(frame, a) = h[graph.output]
<1> DEFINE Recursion(h) ==
             h = [v \in graph.vertices |->
                    <<LocalHash(v, frame, a),
                      [i \in DOMAIN graph.inputs[v] |->
                         <<graph.inputs[v][i].clip, h[graph.inputs[v][i].vertex]>>]>>]
<1>1. \A h : Recursion(h) <=> IsHash(graph, frame, x, h)
  <2>1. ASSUME NEW v \in graph.vertices
        PROVE  LocalHash(v, frame, a) = LocalTerm(graph, frame, x, v)
    <3>1. a[v] = IF v \in Animated THEN x ELSE graph.constant[v]
      BY DEF OneValue
    <3>2. graph.evaluated[v]
      BY DEF Told
    <3> QED
      BY <3>1, <3>2 DEF LocalHash, LocalTerm
  <2> QED
    BY <2>1 DEF IsHash, HashTerm
<1>2. \E h : Recursion(h)
  BY <1>1, HashExists
<1>3. Recursion(CHOOSE h : Recursion(h))
  <2> HIDE DEF Recursion
  <2> QED
    BY <1>2
<1>4. GlobalHash(frame, a) = (CHOOSE h : Recursion(h))[graph.output]
  BY DEF GlobalHash
<1> HIDE DEF Recursion
<1> QED
  BY <1>1, <1>3, <1>4

LEMMA PictureOfOutput ==
  ASSUME NEW frame \in Int, Told(frame), graph \in Graphs, NEW x, OneValue(frame, x),
         NEW a \in RenderReads(frame)
  PROVE  \E p : /\ IsPicture(graph, frame, x, p)
                /\ Picture(frame, a) = p[graph.output]
<1> DEFINE Shown(p, v) ==
             [plugin |-> graph.plugin[v],
              time   |-> IF graph.varying[v] THEN {TimeOf(v, frame)} ELSE {},
              param  |-> a[v],
              inputs |-> [i \in DOMAIN graph.inputs[v] |->
                            [clip |-> graph.inputs[v][i].clip,
                             of   |-> p[graph.inputs[v][i].vertex]]]]
           Recursion(p) == p = [v \in graph.vertices |-> Shown(p, v)]
<1>1. ASSUME NEW p, NEW v \in graph.vertices
      PROVE  Shown(p, v) = PictureTerm(graph, frame, x, p, v)
  <2>1. a[v] = IF v \in Animated THEN x ELSE graph.constant[v]
    BY DEF OneValue
  <2>2. graph.varying[v] => TimeOf(v, frame) = frame
    BY DEF Told, TimeOf
  <2>3. (IF graph.varying[v] THEN {TimeOf(v, frame)} ELSE {})
          = (IF graph.varying[v] THEN {frame} ELSE {})
    BY <2>2
  <2> QED
    BY <2>1, <2>3 DEF PictureTerm
<1>2. \A p : Recursion(p) <=> IsPicture(graph, frame, x, p)
  <2> HIDE DEF Shown
  <2> QED
    BY <1>1 DEF IsPicture
<1>3. \E p : Recursion(p)
  <2> HIDE DEF Recursion
  <2> QED
    BY <1>2, PictureExists
<1>4. Recursion(CHOOSE p : Recursion(p))
  <2> HIDE DEF Recursion
  <2> QED
    BY <1>3
<1>5. Picture(frame, a) = (CHOOSE p : Recursion(p))[graph.output]
  BY DEF Picture
<1> HIDE DEF Recursion
<1> QED
  BY <1>2, <1>4, <1>5

(* A hash and a picture of two vertices combine the same things, so they   *)
(* are equal together, if those of their inputs are.                       *)
LEMMA TermsAgree ==
  ASSUME NEW g1, NEW f1, NEW x1, NEW h1, NEW p1, NEW v1,
         NEW g2, NEW f2, NEW x2, NEW h2, NEW p2, NEW v2,
         \A i \in DOMAIN g1.inputs[v1] : i \in DOMAIN g2.inputs[v2] =>
           (h1[g1.inputs[v1][i].vertex] = h2[g2.inputs[v2][i].vertex]
              <=> p1[g1.inputs[v1][i].vertex] = p2[g2.inputs[v2][i].vertex])
  PROVE  HashTerm(g1, f1, x1, h1, v1) = HashTerm(g2, f2, x2, h2, v2)
           <=> PictureTerm(g1, f1, x1, p1, v1) = PictureTerm(g2, f2, x2, p2, v2)
<1> DEFINE time1 == IF g1.varying[v1] THEN {f1} ELSE {}
           time2 == IF g2.varying[v2] THEN {f2} ELSE {}
           param1 == IF v1 \in Animated THEN x1 ELSE g1.constant[v1]
           param2 == IF v2 \in Animated THEN x2 ELSE g2.constant[v2]
           In1 == g1.inputs[v1]
           In2 == g2.inputs[v2]
           hashes1 == [i \in DOMAIN In1 |-> <<In1[i].clip, h1[In1[i].vertex]>>]
           hashes2 == [i \in DOMAIN In2 |-> <<In2[i].clip, h2[In2[i].vertex]>>]
           shown1 == [i \in DOMAIN In1 |-> [clip |-> In1[i].clip, of |-> p1[In1[i].vertex]]]
           shown2 == [i \in DOMAIN In2 |-> [clip |-> In2[i].clip, of |-> p2[In2[i].vertex]]]
           SameLocal == g1.plugin[v1] = g2.plugin[v2] /\ time1 = time2 /\ param1 = param2
<1>1. HashTerm(g1, f1, x1, h1, v1) = <<<<g1.plugin[v1], time1, {param1}>>, hashes1>>
  BY DEF HashTerm, LocalTerm
<1>2. HashTerm(g2, f2, x2, h2, v2) = <<<<g2.plugin[v2], time2, {param2}>>, hashes2>>
  BY DEF HashTerm, LocalTerm
<1>3. PictureTerm(g1, f1, x1, p1, v1) =
        [plugin |-> g1.plugin[v1], time |-> time1, param |-> param1, inputs |-> shown1]
  BY DEF PictureTerm
<1>4. PictureTerm(g2, f2, x2, p2, v2) =
        [plugin |-> g2.plugin[v2], time |-> time2, param |-> param2, inputs |-> shown2]
  BY DEF PictureTerm
<1>5. hashes1 = hashes2 <=>
        /\ DOMAIN In1 = DOMAIN In2
        /\ \A i \in DOMAIN In1 : In1[i].clip = In2[i].clip
                                 /\ h1[In1[i].vertex] = h2[In2[i].vertex]
  <2> HIDE DEF In1, In2
  <2>1. ASSUME hashes1 = hashes2
        PROVE  DOMAIN In1 = DOMAIN In2
    <3>1. DOMAIN hashes1 = DOMAIN In1 /\ DOMAIN hashes2 = DOMAIN In2
      OBVIOUS
    <3> HIDE DEF hashes1, hashes2
    <3> QED
      BY <2>1, <3>1
  <2>2. ASSUME hashes1 = hashes2, NEW i \in DOMAIN In1
        PROVE  In1[i].clip = In2[i].clip /\ h1[In1[i].vertex] = h2[In2[i].vertex]
    <3>1. i \in DOMAIN In2
      BY <2>1, <2>2
    <3>2. /\ hashes1[i] = <<In1[i].clip, h1[In1[i].vertex]>>
          /\ hashes2[i] = <<In2[i].clip, h2[In2[i].vertex]>>
      BY <3>1
    <3> HIDE DEF hashes1, hashes2
    <3>3. <<In1[i].clip, h1[In1[i].vertex]>> = <<In2[i].clip, h2[In2[i].vertex]>>
      BY <2>2, <3>2
    <3> QED
      BY <3>3
  <2>3. ASSUME DOMAIN In1 = DOMAIN In2,
               \A i \in DOMAIN In1 : In1[i].clip = In2[i].clip
                                     /\ h1[In1[i].vertex] = h2[In2[i].vertex]
        PROVE  hashes1 = hashes2
    BY <2>3
  <2> HIDE DEF hashes1, hashes2
  <2> QED
    BY <2>1, <2>2, <2>3
<1>6. shown1 = shown2 <=>
        /\ DOMAIN In1 = DOMAIN In2
        /\ \A i \in DOMAIN In1 : In1[i].clip = In2[i].clip
                                 /\ p1[In1[i].vertex] = p2[In2[i].vertex]
  <2> HIDE DEF In1, In2
  <2>1. ASSUME shown1 = shown2
        PROVE  DOMAIN In1 = DOMAIN In2
    <3>1. DOMAIN shown1 = DOMAIN In1 /\ DOMAIN shown2 = DOMAIN In2
      OBVIOUS
    <3> HIDE DEF shown1, shown2
    <3> QED
      BY <2>1, <3>1
  <2>2. ASSUME shown1 = shown2, NEW i \in DOMAIN In1
        PROVE  In1[i].clip = In2[i].clip /\ p1[In1[i].vertex] = p2[In2[i].vertex]
    <3>1. i \in DOMAIN In2
      BY <2>1, <2>2
    <3>2. /\ shown1[i].clip = In1[i].clip /\ shown1[i].of = p1[In1[i].vertex]
          /\ shown2[i].clip = In2[i].clip /\ shown2[i].of = p2[In2[i].vertex]
      BY <3>1
    <3> HIDE DEF shown1, shown2
    <3> QED
      BY <2>2, <3>2
  <2>3. ASSUME DOMAIN In1 = DOMAIN In2,
               \A i \in DOMAIN In1 : In1[i].clip = In2[i].clip
                                     /\ p1[In1[i].vertex] = p2[In2[i].vertex]
        PROVE  shown1 = shown2
    BY <2>3
  <2> HIDE DEF shown1, shown2
  <2> QED
    BY <2>1, <2>2, <2>3
<1>7. \A i \in DOMAIN In1 : i \in DOMAIN In2 =>
        (h1[In1[i].vertex] = h2[In2[i].vertex] <=> p1[In1[i].vertex] = p2[In2[i].vertex])
  OBVIOUS
<1> HIDE DEF time1, time2, param1, param2, In1, In2, hashes1, hashes2, shown1, shown2
<1>8. hashes1 = hashes2 <=> shown1 = shown2
  BY <1>5, <1>6, <1>7
<1>9. HashTerm(g1, f1, x1, h1, v1) = HashTerm(g2, f2, x2, h2, v2)
        <=> SameLocal /\ hashes1 = hashes2
  BY <1>1, <1>2
<1>10. PictureTerm(g1, f1, x1, p1, v1) = PictureTerm(g2, f2, x2, p2, v2)
        <=> SameLocal /\ shown1 = shown2
  <2> DEFINE r1 == [plugin |-> g1.plugin[v1], time |-> time1, param |-> param1,
                    inputs |-> shown1]
             r2 == [plugin |-> g2.plugin[v2], time |-> time2, param |-> param2,
                    inputs |-> shown2]
  <2>1. /\ r1.plugin = g1.plugin[v1] /\ r1.time = time1 /\ r1.param = param1
        /\ r1.inputs = shown1
        /\ r2.plugin = g2.plugin[v2] /\ r2.time = time2 /\ r2.param = param2
        /\ r2.inputs = shown2
    OBVIOUS
  <2>2. SameLocal /\ shown1 = shown2 => r1 = r2
    OBVIOUS
  <2> HIDE DEF r1, r2
  <2>3. r1 = r2 => SameLocal /\ shown1 = shown2
    BY <2>1
  <2> QED
    BY <1>3, <1>4, <2>2, <2>3 DEF r1, r2
<1> HIDE DEF SameLocal
<1> QED
  BY <1>8, <1>9, <1>10

(* So they are, over any two graphs: from the generators to the outputs. *)
LEMMA HashesAgree ==
  ASSUME NEW g1 \in Graphs, NEW f1, NEW x1, NEW h1, NEW p1,
         NEW g2 \in Graphs, NEW f2, NEW x2, NEW h2, NEW p2,
         IsHash(g1, f1, x1, h1), IsPicture(g1, f1, x1, p1),
         IsHash(g2, f2, x2, h2), IsPicture(g2, f2, x2, p2)
  PROVE  \A v1 \in g1.vertices, v2 \in g2.vertices : h1[v1] = h2[v2] <=> p1[v1] = p2[v2]
<1>1. PICK n \in Nat, rank \in [g1.vertices -> Nat] :
        /\ \A v \in g1.vertices : rank[v] \in 1..n
        /\ \A v \in g1.vertices : \A i \in DOMAIN g1.inputs[v] :
             /\ g1.inputs[v][i].vertex \in g1.vertices
             /\ rank[g1.inputs[v][i].vertex] < rank[v]
  BY InputsBelow
<1>2. \A v2 \in g2.vertices : \A i \in DOMAIN g2.inputs[v2] :
        g2.inputs[v2][i].vertex \in g2.vertices
  BY GraphAssumption
<1>3. /\ \A v \in g1.vertices : h1[v] = HashTerm(g1, f1, x1, h1, v)
      /\ \A v \in g2.vertices : h2[v] = HashTerm(g2, f2, x2, h2, v)
  BY DEF IsHash
<1>4. /\ \A v \in g1.vertices : p1[v] = PictureTerm(g1, f1, x1, p1, v)
      /\ \A v \in g2.vertices : p2[v] = PictureTerm(g2, f2, x2, p2, v)
  BY DEF IsPicture
<1> DEFINE Agree(v1) == \A v2 \in g2.vertices : h1[v1] = h2[v2] <=> p1[v1] = p2[v2]
           Bad == {m \in Nat : \E v1 \in g1.vertices : rank[v1] = m /\ ~Agree(v1)}
<1>5. Bad = {}
  <2> SUFFICES ASSUME Bad # {}
               PROVE  FALSE
    OBVIOUS
  <2>1. PICK m \in Bad : \A k \in Bad : m <= k
    <3>1. Bad \in SUBSET Nat
      OBVIOUS
    <3> HIDE DEF Bad
    <3> QED
      BY <3>1, NatMin
  <2>2. PICK v1 \in g1.vertices : rank[v1] = m /\ ~Agree(v1)
    OBVIOUS
  <2>3. ASSUME NEW u \in g1.vertices, rank[u] < m
        PROVE  Agree(u)
    <3>1. rank[u] \in Nat /\ m \in Nat
      OBVIOUS
    <3>2. ~ (m <= rank[u])
      BY <2>3, <3>1
    <3>3. rank[u] \notin Bad
      BY <2>1, <3>2
    <3> HIDE DEF Agree
    <3> QED
      BY <3>1, <3>3
  <2>4. ASSUME NEW v2 \in g2.vertices
        PROVE  h1[v1] = h2[v2] <=> p1[v1] = p2[v2]
    <3>1. ASSUME NEW i \in DOMAIN g1.inputs[v1], i \in DOMAIN g2.inputs[v2]
          PROVE  h1[g1.inputs[v1][i].vertex] = h2[g2.inputs[v2][i].vertex]
                   <=> p1[g1.inputs[v1][i].vertex] = p2[g2.inputs[v2][i].vertex]
      <4>1. /\ g1.inputs[v1][i].vertex \in g1.vertices
            /\ rank[g1.inputs[v1][i].vertex] < m
        BY <1>1, <2>2
      <4>2. Agree(g1.inputs[v1][i].vertex)
        BY <2>3, <4>1
      <4>3. g2.inputs[v2][i].vertex \in g2.vertices
        BY <1>2, <3>1
      <4> QED
        BY <4>2, <4>3
    <3>2. HashTerm(g1, f1, x1, h1, v1) = HashTerm(g2, f2, x2, h2, v2)
            <=> PictureTerm(g1, f1, x1, p1, v1) = PictureTerm(g2, f2, x2, p2, v2)
      BY <3>1, TermsAgree
    <3> QED
      BY <1>3, <1>4, <3>2
  <2> QED
    BY <2>2, <2>4
<1>6. ASSUME NEW v1 \in g1.vertices
      PROVE  Agree(v1)
  <2>1. rank[v1] \in Nat /\ rank[v1] \notin Bad
    BY <1>5
  <2> HIDE DEF Agree
  <2> QED
    BY <2>1
<1> QED
  BY <1>6

-----------------------------------------------------------------------------
(* What is kept.                                                           *)

(* The hash and the picture of the output of one of the graphs, both with  *)
(* one value of the parameter, if the frame was told.                      *)
KeptInv ==
  /\ graph \in Graphs
  /\ \A k \in kept : k.told => \E g \in Graphs, frame \in Frames : \E x, h, p :
       /\ IsHash(g, frame, x, h) /\ IsPicture(g, frame, x, p)
       /\ k.hash = h[g.output] /\ k.picture = p[g.output]

LEMMA KeepKept ==
  ASSUME KeptInv, NEW frame \in Frames, Keep(frame)
  PROVE  KeptInv'
<1>1. PICK a \in HashReads(frame), b \in RenderReads(frame) :
        kept' = {[hash |-> GlobalHash(frame, a), picture |-> Picture(frame, b),
                  told |-> Told(frame)]}
  BY DEF Keep
<1>2. graph' = graph /\ graph \in Graphs /\ frame \in Int
  BY GraphAssumption DEF Keep, KeptInv
<1>3. ASSUME NEW k \in kept', k.told
      PROVE  \E g \in Graphs, f \in Frames : \E x, hh, pp :
               /\ IsHash(g, f, x, hh) /\ IsPicture(g, f, x, pp)
               /\ k.hash = hh[g.output] /\ k.picture = pp[g.output]
  <2>1. /\ k.hash = GlobalHash(frame, a) /\ k.picture = Picture(frame, b)
        /\ Told(frame)
    BY <1>1, <1>3
  <2>2. PICK x : OneValue(frame, x)
    BY <2>1, ToldValue
  <2>3. PICK h : IsHash(graph, frame, x, h) /\ GlobalHash(frame, a) = h[graph.output]
    BY <1>2, <2>1, <2>2, HashOfOutput
  <2>4. PICK p : IsPicture(graph, frame, x, p) /\ Picture(frame, b) = p[graph.output]
    BY <1>2, <2>1, <2>2, PictureOfOutput
  <2> QED
    BY <1>2, <2>1, <2>3, <2>4
<1> QED
  BY <1>2, <1>3 DEF KeptInv

LEMMA KeptSteps == KeptInv /\ [Next]_vars => KeptInv'
<1> SUFFICES ASSUME KeptInv, [Next]_vars
             PROVE  KeptInv'
  OBVIOUS
<1>1. CASE \E frame \in Frames : Keep(frame)
  BY <1>1, KeepKept
<1>2. CASE EditParam \/ Rebuild \/ UNCHANGED vars
  <2>1. kept' = kept /\ graph' \in Graphs
    BY <1>2 DEF EditParam, Rebuild, vars, KeptInv
  <2> QED
    BY <2>1 DEF KeptInv
<1> QED
  BY <1>1, <1>2 DEF Next

LEMMA KeptAgrees ==
  KeptInv => HashTellsPicture /\ PictureTellsHash
<1> SUFFICES ASSUME KeptInv, NEW k \in kept, NEW frame \in Frames, k.told, Told(frame),
                    NEW a \in HashReads(frame), NEW b \in RenderReads(frame)
             PROVE  k.hash = GlobalHash(frame, a) <=> k.picture = Picture(frame, b)
  BY DEF HashTellsPicture, PictureTellsHash
<1>1. graph \in Graphs /\ frame \in Int
  BY GraphAssumption DEF KeptInv
<1>2. PICK x : OneValue(frame, x)
  BY ToldValue
<1>3. PICK h : IsHash(graph, frame, x, h) /\ GlobalHash(frame, a) = h[graph.output]
  BY <1>1, <1>2, HashOfOutput
<1>4. PICK p : IsPicture(graph, frame, x, p) /\ Picture(frame, b) = p[graph.output]
  BY <1>1, <1>2, PictureOfOutput
<1>5. PICK g1 \in Graphs, f1 \in Frames :
        \E y, hh, pp :
          /\ IsHash(g1, f1, y, hh) /\ IsPicture(g1, f1, y, pp)
          /\ k.hash = hh[g1.output] /\ k.picture = pp[g1.output]
  BY DEF KeptInv
<1>6. PICK x1, h1, p1 :
        /\ IsHash(g1, f1, x1, h1) /\ IsPicture(g1, f1, x1, p1)
        /\ k.hash = h1[g1.output] /\ k.picture = p1[g1.output]
  BY <1>5
<1>7. g1.output \in g1.vertices /\ graph.output \in graph.vertices
  BY <1>1, GraphAssumption
<1>8. h1[g1.output] = h[graph.output] <=> p1[g1.output] = p[graph.output]
  BY <1>1, <1>3, <1>4, <1>6, <1>7, HashesAgree
<1> QED
  BY <1>3, <1>4, <1>6, <1>8

LEMMA KeptHolds == Spec => []KeptInv
<1>1. NodeHashInit => KeptInv
  BY DEF NodeHashInit, KeptInv
<1> QED
  BY <1>1, KeptSteps, PTL DEF Spec

(* For any graphs without a cycle, any two of them, any edits and any two frames of which
   the hash can tell: an equal hash means an equal picture, so a picture kept under it is
   not taken for another one.  Of a frame where it cannot, it may be: HashShifted.cfg. *)
THEOREM EqualHashEqualPicture == Spec => []HashTellsPicture
<1>1. KeptInv => HashTellsPicture
  BY KeptAgrees
<1> QED
  BY <1>1, KeptHolds, PTL

(* For the same graphs and frames an equal picture has an equal hash: what is kept is
   found again. *)
THEOREM EqualPictureEqualHash == Spec => []PictureTellsHash
<1>1. KeptInv => PictureTellsHash
  BY KeptAgrees
<1> QED
  BY <1>1, KeptHolds, PTL

-----------------------------------------------------------------------------
(* Types, and what the operations on the stack do. *)

LEMMA TopType ==
  ASSUME ChangeTypeOK, stack # << >>
  PROVE  /\ Len(stack) \in Nat \ {0}
         /\ Top \in UnderWay
         /\ Top = stack[Len(stack)]
  BY DEF ChangeTypeOK, Top

\* The innermost edit goes on.
LEMMA Moved ==
  ASSUME ChangeTypeOK, stack # << >>, NEW e \in UnderWay,
         stack' = [stack EXCEPT ![Len(stack)] = e]
  PROVE  /\ stack' \in Seq(UnderWay)
         /\ Len(stack') = Len(stack)
         /\ stack'[Len(stack)] = e
         /\ \A i \in 1..Len(stack) : i # Len(stack) => stack'[i] = stack[i]
  BY DEF ChangeTypeOK

\* The innermost edit returns or throws.
LEMMA Fallen ==
  ASSUME ChangeTypeOK, stack # << >>, stack' = Below
  PROVE  /\ stack' \in Seq(UnderWay)
         /\ Len(stack') = Len(stack) - 1
         /\ \A i \in 1..Len(stack) - 1 : stack'[i] = stack[i]
<1>1. stack \in Seq(UnderWay) /\ Len(stack) \in Nat \ {0}
  BY TopType DEF ChangeTypeOK
<1>2. \A i \in 1..Len(stack) - 1 : stack[i] \in UnderWay
  BY <1>1
<1>3. Len(stack) - 1 \in Int /\ 1 \in Int
  BY <1>1
<1>4. /\ Below \in Seq(UnderWay)
      /\ Len(Below) = IF 1 <= Len(stack) - 1 THEN Len(stack) - 1 - 1 + 1 ELSE 0
      /\ \A i \in 1..Len(stack) - 1 - 1 + 1 : Below[i] = stack[1 + i - 1]
  BY <1>2, <1>3, SubSeqProperties DEF Below
<1>5. Len(Below) = Len(stack) - 1
  <2>1. \A k \in Nat : k + 1 = Len(stack) => Len(SubSeq(stack, 1, k)) = k
    BY <1>1, SubSeqProperties, ElementOfSeq
  <2>2. Len(stack) - 1 \in Nat /\ (Len(stack) - 1) + 1 = Len(stack)
    BY <1>1
  <2> QED
    BY <2>1, <2>2 DEF Below
<1>6. \A i \in 1..Len(stack) - 1 : Below[i] = stack[i]
  BY <1>1, <1>4
<1> QED
  BY <1>4, <1>5, <1>6

\* An edit begins on top.
LEMMA Risen ==
  ASSUME ChangeTypeOK, NEW e \in UnderWay, stack' = Append(stack, e)
  PROVE  /\ stack' \in Seq(UnderWay)
         /\ Len(stack') = Len(stack) + 1
         /\ stack'[Len(stack) + 1] = e
         /\ \A i \in 1..Len(stack) : stack'[i] = stack[i]
  BY AppendProperties DEF ChangeTypeOK

(* What is left to do ends with a notification. *)
Notifies(e) == e.rest # << >> => e.rest[Len(e.rest)] = "notify"

LEMMA EditsNotify ==
  ASSUME NEW p \in Params
  PROVE  \A e \in EditsOf(p) : /\ e \in UnderWay /\ e.param = p /\ e.phase = "own"
                               /\ Notifies(e)
<1>1. dim[p] \in Nat \ {0}
  BY ChangeAssumption
<1>2. Together(dim[p]) \in Seq(EditSteps)
  BY <1>1 DEF Together, EditSteps
<1>3. Len(Together(dim[p])) = dim[p] + 1 /\ Together(dim[p])[dim[p] + 1] = "notify"
  BY <1>1 DEF Together
<1>4. OneByOne(dim[p]) \in Seq(EditSteps)
  BY <1>1 DEF OneByOne, EditSteps
<1>5. OneByOne(dim[p])[Len(OneByOne(dim[p]))] = "notify"
  BY <1>1 DEF OneByOne
<1>6. OneOfThem \in Seq(EditSteps) /\ OneOfThem[Len(OneOfThem)] = "notify"
  BY DEF OneOfThem, EditSteps
<1> QED
  BY <1>1, <1>2, <1>3, <1>4, <1>5, <1>6 DEF EditsOf, UnderWay, Phases, Notifies

\* The actions that move the innermost edit.
MovesTo(e) == stack # << >> /\ e \in UnderWay /\ stack' = [stack EXCEPT ![Len(stack)] = e]

LEMMA PhaseMoves ==
  ASSUME ChangeTypeOK, stack # << >>, NEW phase \in Phases, TopGoes(phase)
  PROVE  MovesTo([Top EXCEPT !.phase = phase])
  BY TopType DEF ChangeTypeOK, TopGoes, MovesTo, UnderWay

LEMMA RestMoves ==
  ASSUME ChangeTypeOK, stack # << >>, Top.rest # << >>, NEW phase \in Phases,
         stack' = [stack EXCEPT ![Len(stack)].rest = Tail(Top.rest),
                                ![Len(stack)].phase = phase]
  PROVE  MovesTo([Top EXCEPT !.rest = Tail(Top.rest), !.phase = phase])
<1>1. Tail(Top.rest) \in Seq(EditSteps)
  BY TopType, HeadTailProperties DEF UnderWay
<1>2. Len(stack) \in 1..Len(stack) /\ stack \in Seq(UnderWay)
  BY TopType DEF ChangeTypeOK
<1> QED
  BY <1>1, <1>2, TopType DEF MovesTo, UnderWay

LEMMA SetMoves ==
  ASSUME ChangeTypeOK, SetComponent
  PROVE  MovesTo([Top EXCEPT !.rest = Tail(Top.rest)])
<1>1. Tail(Top.rest) \in Seq(EditSteps)
  BY TopType, HeadTailProperties DEF UnderWay, SetComponent, InPhase
<1>2. Len(stack) \in 1..Len(stack) /\ stack \in Seq(UnderWay)
  BY TopType DEF ChangeTypeOK, SetComponent, InPhase
<1> QED
  BY <1>1, <1>2, TopType DEF MovesTo, UnderWay, SetComponent, InPhase

-----------------------------------------------------------------------------
(* The stack.  Only the innermost edit moves; the others wait in the call that tells
   the plugin, each with the flag of its parameter set, and so of another one. *)
OnlyTopMoves == \A i \in 1..Len(stack) : i < Len(stack) => stack[i].phase = "changed"
ChangedAvoided ==
  \A i \in 1..Len(stack) : stack[i].phase = "changed" => avoid[stack[i].param]
NotInItself ==
  \A i, j \in 1..Len(stack) :
    (i < j /\ stack[i].phase = "changed" /\ stack[j].phase = "changed")
      => stack[i].param # stack[j].param

(* The promise.  A flag is set by an action in progress or by one that has thrown; what
   the application has set and the plugin does not know, the edit still tells, unless it
   was edited by something that tells nobody. *)
StuckBroken ==
  \A p \in Params : avoid[p] =>
    p \in broken \/ \E i \in 1..Len(stack) : stack[i].param = p /\ stack[i].phase = "changed"
WillTell ==
  \A p \in untold :
    \/ p \in broken \cup quiet
    \/ /\ stack # << >> /\ stack[1].param = p
       /\ stack[1].phase = "begin" \/ stack[1].rest # << >>
EndsNotified == \A i \in 1..Len(stack) : Notifies(stack[i])

ChangeInv ==
  /\ ChangeTypeOK
  /\ OnlyTopMoves /\ ChangedAvoided /\ NotInItself
  /\ StuckBroken /\ WillTell /\ EndsNotified

LEMMA InitChange == ChangeInit => ChangeInv
  BY DEF ChangeInit, ChangeInv, ChangeTypeOK, OnlyTopMoves, ChangedAvoided, NotInItself, StuckBroken,
         WillTell, EndsNotified

(* An edit that tells nobody. *)
LEMMA QuietKeeps ==
  ASSUME ChangeInv, NEW p \in Params, EditsQuietly(p)
  PROVE  ChangeInv'
<1>1. /\ UNCHANGED <<stack, avoid, broken>>
      /\ untold' = untold \cup {p} /\ quiet' = quiet \cup {p}
  BY DEF EditsQuietly
<1>2. ChangeTypeOK' /\ OnlyTopMoves' /\ ChangedAvoided' /\ NotInItself' /\ EndsNotified'
  BY <1>1 DEF ChangeInv, ChangeTypeOK, OnlyTopMoves, ChangedAvoided, NotInItself, EndsNotified
<1>3. StuckBroken' /\ WillTell'
  BY <1>1 DEF ChangeInv, StuckBroken, WillTell
<1> QED
  BY <1>2, <1>3 DEF ChangeInv

LEMMA NoLength ==
  ASSUME ChangeTypeOK
  PROVE  /\ Len(stack) \in Nat /\ (stack = << >> <=> Len(stack) = 0)
         /\ \A i \in 1..Len(stack) : stack[i] \in UnderWay
  BY DEF ChangeTypeOK

LEMMA RiseKeeps ==
  ASSUME ChangeInv, NEW p \in Params, NEW e \in EditsOf(p),
         stack = << >> \/ InPhase("changed"),
         stack' = Append(stack, e), UNCHANGED <<avoid, untold, quiet, broken>>
  PROVE  ChangeInv'
<1>1. ChangeTypeOK /\ e \in UnderWay /\ e.phase = "own" /\ Notifies(e)
  BY EditsNotify DEF ChangeInv
<1>2. /\ stack' \in Seq(UnderWay) /\ Len(stack') = Len(stack) + 1
      /\ stack'[Len(stack) + 1] = e /\ Len(stack) \in Nat
      /\ \A i \in 1..Len(stack) : stack'[i] = stack[i]
      /\ \A i \in 1..Len(stack') : i # Len(stack) + 1 => i \in 1..Len(stack)
  BY <1>1, Risen, NoLength
<1>3. \A i \in 1..Len(stack) : stack[i].phase = "changed"
  BY <1>1, <1>2, NoLength DEF ChangeInv, OnlyTopMoves, InPhase, Top
<1>4. ChangeTypeOK'
  BY <1>1, <1>2 DEF ChangeTypeOK
<1>5. OnlyTopMoves'
  BY <1>2, <1>3 DEF OnlyTopMoves
<1>6. ChangedAvoided'
  BY <1>1, <1>2 DEF ChangeInv, ChangedAvoided
<1>7. NotInItself'
  BY <1>1, <1>2 DEF ChangeInv, NotInItself
<1>8. StuckBroken'
  BY <1>1, <1>2 DEF ChangeInv, StuckBroken
<1>9. WillTell'
  <2> SUFFICES ASSUME NEW x \in untold, x \notin broken \cup quiet
               PROVE  stack' # << >> /\ stack'[1].param = x
                      /\ (stack'[1].phase = "begin" \/ stack'[1].rest # << >>)
    BY DEF WillTell
  <2>1. /\ stack # << >> /\ stack[1].param = x
        /\ stack[1].phase = "begin" \/ stack[1].rest # << >>
    BY DEF ChangeInv, WillTell
  <2>2. 1 \in 1..Len(stack) /\ stack' # << >>
    BY <1>1, <1>2, <2>1, NoLength
  <2> QED
    BY <2>1, <2>2, <1>2
<1>10. EndsNotified'
  BY <1>1, <1>2 DEF ChangeInv, EndsNotified
<1> QED
  BY <1>4, <1>5, <1>6, <1>7, <1>8, <1>9, <1>10 DEF ChangeInv

LEMMA FallKeeps ==
  ASSUME ChangeInv, stack # << >>, stack' = Below, UNCHANGED <<avoid, untold, quiet>>,
         \/ broken' = broken \cup {Top.param}
         \/ broken' = broken /\ Top.phase = "own" /\ Top.rest = << >>
  PROVE  ChangeInv'
<1>1. /\ ChangeTypeOK /\ Top \in UnderWay /\ Top = stack[Len(stack)] /\ Len(stack) \in Nat \ {0}
      /\ \A i \in 1..Len(stack) : stack[i] \in UnderWay
  BY TopType, NoLength DEF ChangeInv
<1>2. /\ stack' \in Seq(UnderWay) /\ Len(stack') = Len(stack) - 1
      /\ \A i \in 1..Len(stack') : /\ stack'[i] = stack[i]
                                  /\ i \in 1..Len(stack) /\ i < Len(stack)
  BY <1>1, Fallen
<1>3. Top.param \in Params /\ broken \subseteq broken'
  BY <1>1 DEF UnderWay
<1>4. ChangeTypeOK'
  BY <1>1, <1>2, <1>3 DEF ChangeTypeOK
<1>5. OnlyTopMoves' /\ ChangedAvoided' /\ EndsNotified'
  BY <1>1, <1>2 DEF ChangeInv, OnlyTopMoves, ChangedAvoided, EndsNotified
<1>6. NotInItself'
  BY <1>1, <1>2 DEF ChangeInv, NotInItself
<1>7. StuckBroken'
  <2> SUFFICES ASSUME NEW p \in Params, avoid[p], p \notin broken'
               PROVE  \E i \in 1..Len(stack') :
                        stack'[i].param = p /\ stack'[i].phase = "changed"
    BY DEF StuckBroken
  <2>1. PICK i \in 1..Len(stack) : stack[i].param = p /\ stack[i].phase = "changed"
    BY <1>3 DEF ChangeInv, StuckBroken
  <2>2. i # Len(stack)
    BY <1>1, <1>3, <2>1
  <2>3. i \in 1..Len(stack')
    BY <1>1, <1>2, <2>2
  <2> QED
    BY <1>2, <2>1, <2>3
<1>8. WillTell'
  <2> SUFFICES ASSUME NEW p \in untold, p \notin broken' \cup quiet
               PROVE  stack' # << >> /\ stack'[1].param = p
                      /\ (stack'[1].phase = "begin" \/ stack'[1].rest # << >>)
    BY DEF WillTell
  <2>1. /\ stack[1].param = p
        /\ stack[1].phase = "begin" \/ stack[1].rest # << >>
    BY <1>3 DEF ChangeInv, WillTell
  <2>2. Len(stack) # 1
    BY <1>1, <2>1
  <2>3. 1 \in 1..Len(stack') /\ stack' # << >>
    BY <1>1, <1>2, <2>2
  <2> QED
    BY <1>2, <2>1, <2>3
<1> QED
  BY <1>4, <1>5, <1>6, <1>7, <1>8 DEF ChangeInv

(* A move of the innermost edit, in general: the others stay, and so does its
   parameter. *)
Moves(e) == MovesTo(e) /\ e.param = Top.param /\ Notifies(e)

LEMMA MoveKeeps ==
  ASSUME ChangeInv, NEW e, Moves(e)
  PROVE  /\ stack # << >> /\ stack' \in Seq(UnderWay)
         /\ Len(stack') = Len(stack) /\ Len(stack) \in Nat \ {0}
         /\ stack'[Len(stack)] = e /\ e \in UnderWay
         /\ stack[Len(stack)] = Top /\ Top \in UnderWay /\ Top.param \in Params
         /\ \A i \in 1..Len(stack) : /\ stack[i] \in UnderWay
                                     /\ stack'[i].param = stack[i].param
                                     /\ i # Len(stack) => /\ stack'[i] = stack[i]
                                                          /\ stack[i].phase = "changed"
         /\ OnlyTopMoves' /\ EndsNotified'
<1>1. stack # << >> /\ ChangeTypeOK /\ e \in UnderWay
  BY DEF ChangeInv, Moves, MovesTo
<1>2. /\ stack' \in Seq(UnderWay)
      /\ Len(stack') = Len(stack) /\ Len(stack) \in Nat \ {0}
      /\ stack'[Len(stack)] = e
      /\ stack[Len(stack)] = Top /\ Top \in UnderWay
      /\ \A i \in 1..Len(stack) : stack[i] \in UnderWay
      /\ \A i \in 1..Len(stack) : i # Len(stack) => stack'[i] = stack[i]
  BY <1>1, Moved, TopType, NoLength DEF Moves, MovesTo
<1>3. \A i \in 1..Len(stack) : i # Len(stack) => stack[i].phase = "changed"
  BY <1>2 DEF ChangeInv, OnlyTopMoves
<1>4. \A i \in 1..Len(stack) : stack'[i].param = stack[i].param
  BY <1>2 DEF Moves
<1>5. OnlyTopMoves'
  BY <1>2, <1>3 DEF OnlyTopMoves
<1>6. EndsNotified'
  BY <1>2 DEF ChangeInv, EndsNotified, Moves
<1> QED
  BY <1>1, <1>2, <1>3, <1>4, <1>5, <1>6 DEF UnderWay

(* A move outside of the call that tells, with the flags as they are. *)
LEMMA QuietMoveKeeps ==
  ASSUME ChangeInv, NEW e, Moves(e), Top.phase # "changed", e.phase # "changed",
         UNCHANGED <<avoid, quiet, broken>>
  PROVE  ChangedAvoided' /\ NotInItself' /\ StuckBroken'
<1>1. \A i \in 1..Len(stack) : (stack'[i].phase = "changed") <=> (stack[i].phase = "changed")
  BY MoveKeeps
<1>2. ChangedAvoided'
  BY <1>1, MoveKeeps DEF ChangeInv, ChangedAvoided
<1>3. NotInItself'
  BY <1>1, MoveKeeps DEF ChangeInv, NotInItself
<1>4. StuckBroken'
  BY <1>1, MoveKeeps DEF ChangeInv, StuckBroken
<1> QED
  BY <1>2, <1>3, <1>4

LEMMA TailNotifies ==
  ASSUME NEW s \in Seq(EditSteps), s # << >>, s[Len(s)] = "notify"
  PROVE  /\ Tail(s) # << >> => Tail(s)[Len(Tail(s))] = "notify"
         /\ Head(s) = "set" => Tail(s) # << >>
<1>1. /\ Tail(s) \in Seq(EditSteps) /\ Len(Tail(s)) = Len(s) - 1
      /\ \A i \in 1..Len(Tail(s)) : Tail(s)[i] = s[i + 1]
  BY HeadTailProperties
<1>2. Len(s) \in Nat \ {0} /\ Head(s) = s[1]
  OBVIOUS
<1>3. \A t \in Seq(EditSteps) : t = << >> => Len(t) = 0
  OBVIOUS
<1>4. Head(s) = "set" => Len(s) # 1
  BY <1>2
<1>5. ASSUME Tail(s) # << >>
      PROVE  Tail(s)[Len(Tail(s))] = "notify"
  <2>1. Len(Tail(s)) \in 1..Len(Tail(s))
    BY <1>1, <1>5
  <2> QED
    BY <2>1, <1>1, <1>2
<1>6. Tail(s) = << >> => Len(Tail(s)) = 0
  BY <1>1, <1>3
<1> QED
  BY <1>1, <1>2, <1>4, <1>5, <1>6

LEMMA RestType ==
  ASSUME ChangeInv, stack # << >>, Top.rest # << >>
  PROVE  /\ Tail(Top.rest) # << >> =>
              Tail(Top.rest)[Len(Tail(Top.rest))] = "notify"
         /\ Head(Top.rest) = "set" => Tail(Top.rest) # << >>
<1>1. Top \in UnderWay /\ Top.rest \in Seq(EditSteps) /\ Notifies(Top)
  BY TopType DEF ChangeInv, UnderWay, EndsNotified
<1> QED
  BY <1>1, TailNotifies DEF Notifies

LEMMA SetKeeps ==
  ASSUME ChangeInv, SetComponent
  PROVE  ChangeInv'
<1> DEFINE e == [Top EXCEPT !.rest = Tail(Top.rest)]
<1>1. ChangeTypeOK /\ stack # << >> /\ Top.rest # << >> /\ Head(Top.rest) = "set"
      /\ Top.phase = "own" /\ UNCHANGED <<avoid, quiet, broken>>
  BY DEF ChangeInv, SetComponent, InPhase
<1>2. Top \in UnderWay /\ e.param = Top.param /\ e.phase = "own" /\ e.rest = Tail(Top.rest)
  BY <1>1, TopType DEF UnderWay
<1>3. Moves(e) /\ e.rest # << >>
  BY <1>1, <1>2, SetMoves, RestType DEF Moves, Notifies
<1> HIDE DEF e
<1>4. ChangedAvoided' /\ NotInItself' /\ StuckBroken'
  BY <1>1, <1>2, <1>3, QuietMoveKeeps
<1>5. WillTell'
  <2> SUFFICES ASSUME NEW p \in untold', p \notin broken \cup quiet
               PROVE  stack' # << >> /\ stack'[1].param = p
                      /\ (stack'[1].phase = "begin" \/ stack'[1].rest # << >>)
    BY <1>1 DEF WillTell
  <2>1. 1 \in 1..Len(stack) /\ stack' # << >>
    BY <1>3, MoveKeeps
  <2>2. CASE Len(stack) = 1 /\ p = Top.param
    BY <2>1, <2>2, <1>2, <1>3, MoveKeeps
  <2>3. CASE p \in untold
    <3>1. stack[1].param = p /\ (stack[1].phase = "begin" \/ stack[1].rest # << >>)
      BY <1>1, <2>3 DEF ChangeInv, WillTell
    <3>2. CASE Len(stack) = 1
      BY <2>1, <3>1, <3>2, <1>2, <1>3, MoveKeeps
    <3>3. CASE Len(stack) # 1
      BY <2>1, <3>1, <3>3, <1>3, MoveKeeps
    <3> QED
      BY <3>2, <3>3
  <2> QED
    BY <2>2, <2>3 DEF SetComponent
<1>6. ChangeTypeOK'
  <2>1. untold' \subseteq Params
    BY <1>1, <1>3, MoveKeeps DEF SetComponent, ChangeTypeOK
  <2> QED
    BY <1>1, <1>3, <2>1, MoveKeeps DEF ChangeTypeOK
<1> QED
  BY <1>3, <1>4, <1>5, <1>6, MoveKeeps DEF ChangeInv

LEMMA NotifyKeeps ==
  ASSUME ChangeInv, Notify
  PROVE  ChangeInv'
<1> DEFINE e == [Top EXCEPT !.rest = Tail(Top.rest), !.phase = "begin"]
<1>1. ChangeTypeOK /\ stack # << >> /\ Top.rest # << >>
      /\ Top.phase = "own" /\ UNCHANGED <<avoid, untold, quiet, broken>>
  BY DEF ChangeInv, Notify, InPhase
<1>2. Top \in UnderWay /\ e.param = Top.param /\ e.phase = "begin" /\ e.rest = Tail(Top.rest)
  BY <1>1, TopType DEF UnderWay
<1>3. Moves(e)
  BY <1>1, <1>2, RestMoves, RestType DEF Moves, Notifies, Notify, Phases
<1> HIDE DEF e
<1>4. ChangedAvoided' /\ NotInItself' /\ StuckBroken'
  BY <1>1, <1>2, <1>3, QuietMoveKeeps
<1>5. WillTell'
  <2> SUFFICES ASSUME NEW p \in untold, p \notin broken \cup quiet
               PROVE  stack' # << >> /\ stack'[1].param = p
                      /\ (stack'[1].phase = "begin" \/ stack'[1].rest # << >>)
    BY <1>1 DEF WillTell
  <2>1. stack[1].param = p /\ (stack[1].phase = "begin" \/ stack[1].rest # << >>)
    BY <1>1 DEF ChangeInv, WillTell
  <2>2. 1 \in 1..Len(stack) /\ stack' # << >>
    BY <1>3, MoveKeeps
  <2>3. CASE Len(stack) = 1
    BY <2>1, <2>2, <2>3, <1>2, <1>3, MoveKeeps
  <2>4. CASE Len(stack) # 1
    BY <2>1, <2>2, <2>4, <1>3, MoveKeeps
  <2> QED
    BY <2>3, <2>4
<1>6. ChangeTypeOK'
  BY <1>1, <1>3, MoveKeeps DEF ChangeTypeOK
<1> QED
  BY <1>3, <1>4, <1>5, <1>6, MoveKeeps DEF ChangeInv

LEMMA RestKept ==
  ASSUME ChangeInv, NEW e, Moves(e), Top.phase # "begin", e.rest = Top.rest,
         UNCHANGED <<untold, quiet, broken>>
  PROVE  WillTell'
<1> SUFFICES ASSUME NEW p \in untold, p \notin broken \cup quiet
             PROVE  stack' # << >> /\ stack'[1].param = p
                    /\ (stack'[1].phase = "begin" \/ stack'[1].rest # << >>)
  BY DEF WillTell
<1>1. stack[1].param = p /\ (stack[1].phase = "begin" \/ stack[1].rest # << >>)
  BY DEF ChangeInv, WillTell
<1>2. 1 \in 1..Len(stack) /\ stack' # << >>
  BY MoveKeeps
<1>3. CASE Len(stack) = 1
  BY <1>1, <1>2, <1>3, MoveKeeps
<1>4. CASE Len(stack) # 1
  BY <1>1, <1>2, <1>4, MoveKeeps
<1> QED
  BY <1>3, <1>4

LEMMA ReturnKeeps ==
  ASSUME ChangeInv, BeginReturns \/ ChangedReturns \/ EndReturns
  PROVE  ChangeInv'
<1>1. ChangeTypeOK /\ stack # << >> /\ UNCHANGED broken /\ avoid \in [Params -> BOOLEAN]
  BY DEF ChangeInv, ChangeTypeOK, BeginReturns, ChangedReturns, EndReturns, InPhase
<1>2. Top \in UnderWay /\ Top.param \in Params /\ Notifies(Top)
  BY <1>1, TopType DEF UnderWay, ChangeInv, EndsNotified
<1>3. \A phase \in Phases : TopGoes(phase) =>
        LET e == [Top EXCEPT !.phase = phase]
        IN /\ Moves(e) /\ e.phase = phase /\ e.rest = Top.rest
  <2> SUFFICES ASSUME NEW phase \in Phases, TopGoes(phase)
               PROVE  LET e == [Top EXCEPT !.phase = phase]
                      IN Moves(e) /\ e.phase = phase /\ e.rest = Top.rest
    OBVIOUS
  <2>1. MovesTo([Top EXCEPT !.phase = phase])
    BY <1>1, PhaseMoves
  <2> QED
    BY <1>2, <2>1 DEF Moves, UnderWay, Notifies
<1>4. CASE avoid[Top.param] /\ BeginReturns
  <2> DEFINE e == [Top EXCEPT !.phase = "end"]
  <2>1. Top.phase = "begin" /\ TopGoes("end") /\ UNCHANGED <<avoid, untold, quiet>>
    BY <1>4 DEF BeginReturns, InPhase
  <2>2. Moves(e) /\ e.phase = "end" /\ e.rest = Top.rest
    BY <1>3, <2>1 DEF Phases
  <2> HIDE DEF e
  <2>3. ChangedAvoided' /\ NotInItself' /\ StuckBroken'
    BY <1>1, <2>1, <2>2, QuietMoveKeeps
  <2>4. WillTell'
    <3> SUFFICES ASSUME NEW p \in untold, p \notin broken \cup quiet
                 PROVE  stack' # << >> /\ stack'[1].param = p
                        /\ (stack'[1].phase = "begin" \/ stack'[1].rest # << >>)
      BY <1>1, <2>1 DEF WillTell
    <3>1. stack[1].param = p /\ (stack[1].phase = "begin" \/ stack[1].rest # << >>)
      BY <1>1 DEF ChangeInv, WillTell
    <3>2. 1 \in 1..Len(stack) /\ stack' # << >>
      BY <2>2, MoveKeeps
    <3>3. CASE Len(stack) = 1
      <4>1. p = Top.param /\ p \in Params
        BY <3>1, <3>3, <1>2, <2>2, MoveKeeps
      <4>2. PICK i \in 1..Len(stack) : stack[i].phase = "changed"
        BY <1>4, <4>1 DEF ChangeInv, StuckBroken
      <4>3. i = 1 /\ stack[1] = Top
        BY <3>3, <4>2, <2>2, MoveKeeps
      <4> QED
        BY <4>2, <4>3, <2>1
    <3>4. CASE Len(stack) # 1
      BY <3>1, <3>2, <3>4, <2>2, MoveKeeps
    <3> QED
      BY <3>3, <3>4
  <2>5. ChangeTypeOK'
    BY <1>1, <2>1, <2>2, MoveKeeps DEF ChangeTypeOK
  <2> QED
    BY <2>2, <2>3, <2>4, <2>5, MoveKeeps DEF ChangeInv
<1>5. CASE ~avoid[Top.param] /\ BeginReturns
  <2> DEFINE e == [Top EXCEPT !.phase = "changed"]
  <2>1. /\ Top.phase = "begin" /\ TopGoes("changed")
        /\ avoid' = [avoid EXCEPT ![Top.param] = TRUE]
        /\ untold' = untold \ {Top.param} /\ quiet' = quiet \ {Top.param}
    BY <1>5 DEF BeginReturns, InPhase
  <2>2. Moves(e) /\ e.phase = "changed" /\ e.rest = Top.rest
    BY <1>3, <2>1 DEF Phases
  <2> HIDE DEF e
  <2>3. /\ avoid' \in [Params -> BOOLEAN]
        /\ \A p \in Params : avoid'[p] = IF p = Top.param THEN TRUE ELSE avoid[p]
    BY <1>1, <2>1
  <2>4. ChangedAvoided'
    <3> SUFFICES ASSUME NEW i \in 1..Len(stack), stack'[i].phase = "changed"
                 PROVE  avoid'[stack[i].param]
      BY <2>2, MoveKeeps DEF ChangedAvoided
    <3>1. stack[i].param \in Params
      BY <2>2, MoveKeeps DEF UnderWay
    <3>2. i = Len(stack) \/ avoid[stack[i].param]
      BY <2>2, MoveKeeps DEF ChangeInv, ChangedAvoided
    <3> QED
      BY <3>1, <3>2, <2>2, <2>3, MoveKeeps
  <2>5. \A i \in 1..Len(stack) : i # Len(stack) => stack[i].param # Top.param
    <3> SUFFICES ASSUME NEW i \in 1..Len(stack), i # Len(stack), stack[i].param = Top.param
                 PROVE  FALSE
      OBVIOUS
    <3>1. stack[i].phase = "changed"
      BY <2>2, MoveKeeps
    <3> QED
      BY <3>1, <1>5 DEF ChangeInv, ChangedAvoided
  <2>6. NotInItself'
    <3> SUFFICES ASSUME NEW i \in 1..Len(stack), NEW j \in 1..Len(stack), i < j,
                        stack'[i].phase = "changed", stack'[j].phase = "changed"
                 PROVE  stack[i].param # stack[j].param
      BY <2>2, MoveKeeps DEF NotInItself
    <3>1. i # Len(stack)
      BY <2>2, MoveKeeps
    <3>2. CASE j = Len(stack)
      BY <3>1, <3>2, <2>2, <2>5, MoveKeeps
    <3>3. CASE j # Len(stack)
      BY <3>1, <3>3, <2>2, MoveKeeps DEF ChangeInv, NotInItself
    <3> QED
      BY <3>2, <3>3
  <2>7. StuckBroken'
    <3> SUFFICES ASSUME NEW p \in Params, avoid'[p], p \notin broken
                 PROVE  \E i \in 1..Len(stack') :
                          stack'[i].param = p /\ stack'[i].phase = "changed"
      BY <1>1 DEF StuckBroken
    <3>1. CASE p = Top.param
      <4>1. Len(stack) \in 1..Len(stack')
        BY <2>2, MoveKeeps
      <4> QED
        BY <3>1, <4>1, <2>2, MoveKeeps
    <3>2. CASE p # Top.param
      <4>1. PICK i \in 1..Len(stack) : stack[i].param = p /\ stack[i].phase = "changed"
        BY <3>2, <2>3 DEF ChangeInv, StuckBroken
      <4>2. i # Len(stack)
        BY <4>1, <3>2, <2>2, MoveKeeps
      <4> QED
        BY <4>1, <4>2, <2>2, MoveKeeps
    <3> QED
      BY <3>1, <3>2
  <2>8. WillTell'
    <3> SUFFICES ASSUME NEW p \in untold, p # Top.param, p \notin broken \cup quiet
                 PROVE  stack' # << >> /\ stack'[1].param = p
                        /\ (stack'[1].phase = "begin" \/ stack'[1].rest # << >>)
      BY <1>1, <2>1 DEF WillTell
    <3>1. stack[1].param = p /\ (stack[1].phase = "begin" \/ stack[1].rest # << >>)
      BY <1>1 DEF ChangeInv, WillTell
    <3>2. 1 \in 1..Len(stack) /\ stack' # << >>
      BY <2>2, MoveKeeps
    <3>3. Len(stack) # 1
      BY <3>1, <2>2, MoveKeeps
    <3> QED
      BY <3>1, <3>2, <3>3, <2>2, MoveKeeps
  <2>9. ChangeTypeOK'
    BY <1>1, <2>1, <2>2, <2>3, MoveKeeps DEF ChangeTypeOK
  <2> QED
    BY <2>2, <2>4, <2>6, <2>7, <2>8, <2>9, MoveKeeps DEF ChangeInv
<1>6. CASE ChangedReturns
  <2> DEFINE e == [Top EXCEPT !.phase = "end"]
  <2>1. /\ Top.phase = "changed" /\ TopGoes("end") /\ UNCHANGED <<untold, quiet>>
        /\ avoid' = [avoid EXCEPT ![Top.param] = FALSE]
    BY <1>6 DEF ChangedReturns, InPhase
  <2>2. Moves(e) /\ e.phase = "end" /\ e.rest = Top.rest
    BY <1>3, <2>1 DEF Phases
  <2> HIDE DEF e
  <2>3. /\ avoid' \in [Params -> BOOLEAN]
        /\ \A p \in Params : avoid'[p] = IF p = Top.param THEN FALSE ELSE avoid[p]
    BY <1>1, <2>1
  <2>4. \A i \in 1..Len(stack) : stack'[i].phase = "changed" =>
          i # Len(stack) /\ stack[i].phase = "changed" /\ stack[i].param # Top.param
    <3> SUFFICES ASSUME NEW i \in 1..Len(stack), stack'[i].phase = "changed"
                 PROVE  i # Len(stack) /\ stack[i].phase = "changed"
                        /\ stack[i].param # Top.param
      OBVIOUS
    <3>1. i # Len(stack) /\ stack[i].phase = "changed"
      BY <2>2, MoveKeeps
    <3>2. i < Len(stack) /\ Len(stack) \in 1..Len(stack) /\ stack[Len(stack)] = Top
      BY <3>1, <2>2, MoveKeeps
    <3> QED
      BY <3>1, <3>2, <2>1 DEF ChangeInv, NotInItself
  <2>5. ChangedAvoided'
    <3> SUFFICES ASSUME NEW i \in 1..Len(stack), stack'[i].phase = "changed"
                 PROVE  avoid'[stack[i].param]
      BY <2>2, MoveKeeps DEF ChangedAvoided
    <3>1. stack[i].param \in Params
      BY <2>2, MoveKeeps DEF UnderWay
    <3>2. avoid[stack[i].param] /\ stack[i].param # Top.param
      BY <2>4 DEF ChangeInv, ChangedAvoided
    <3> QED
      BY <3>1, <3>2, <2>3
  <2>6. NotInItself'
    BY <2>2, <2>4, MoveKeeps DEF ChangeInv, NotInItself
  <2>7. StuckBroken'
    <3> SUFFICES ASSUME NEW p \in Params, avoid'[p], p \notin broken
                 PROVE  \E i \in 1..Len(stack') :
                          stack'[i].param = p /\ stack'[i].phase = "changed"
      BY <1>1 DEF StuckBroken
    <3>1. p # Top.param /\ avoid[p]
      BY <2>3
    <3>2. PICK i \in 1..Len(stack) : stack[i].param = p /\ stack[i].phase = "changed"
      BY <3>1 DEF ChangeInv, StuckBroken
    <3>3. i # Len(stack)
      BY <3>1, <3>2, <2>2, MoveKeeps
    <3> QED
      BY <3>2, <3>3, <2>2, MoveKeeps
  <2>8. WillTell'
    BY <1>1, <2>1, <2>2, RestKept
  <2>9. ChangeTypeOK'
    BY <1>1, <2>1, <2>2, <2>3, MoveKeeps DEF ChangeTypeOK
  <2> QED
    BY <2>2, <2>5, <2>6, <2>7, <2>8, <2>9, MoveKeeps DEF ChangeInv
<1>7. CASE EndReturns
  <2> DEFINE e == [Top EXCEPT !.phase = "own"]
  <2>1. Top.phase = "end" /\ TopGoes("own") /\ UNCHANGED <<avoid, untold, quiet>>
    BY <1>7 DEF EndReturns, InPhase
  <2>2. Moves(e) /\ e.phase = "own" /\ e.rest = Top.rest
    BY <1>3, <2>1 DEF Phases
  <2> HIDE DEF e
  <2>3. ChangedAvoided' /\ NotInItself' /\ StuckBroken'
    BY <1>1, <2>1, <2>2, QuietMoveKeeps
  <2>4. WillTell'
    BY <1>1, <2>1, <2>2, RestKept
  <2>5. ChangeTypeOK'
    BY <1>1, <2>1, <2>2, MoveKeeps DEF ChangeTypeOK
  <2> QED
    BY <2>2, <2>3, <2>4, <2>5, MoveKeeps DEF ChangeInv
<1> QED
  BY <1>1, <1>2, <1>4, <1>5, <1>6, <1>7

-----------------------------------------------------------------------------
LEMMA StepKeeps ==
  ASSUME ChangeInv, [ChangeNext]_changeVars
  PROVE  ChangeInv'
<1>1. CASE UNCHANGED changeVars
  BY <1>1 DEF changeVars, ChangeInv, ChangeTypeOK, OnlyTopMoves, ChangedAvoided, NotInItself,
              StuckBroken, WillTell, EndsNotified
<1>2. ASSUME NEW p \in Params, ApplicationEdits(p)
      PROVE  ChangeInv'
  <2>1. PICK e \in EditsOf(p) : stack' = <<e>>
    BY <1>2 DEF ApplicationEdits
  <2>2. stack' = Append(stack, e)
    BY <1>2, <2>1 DEF ApplicationEdits
  <2> QED
    BY <1>2, <2>2, RiseKeeps DEF ApplicationEdits
<1>3. ASSUME NEW p \in Params, PluginEdits(p)
      PROVE  ChangeInv'
  BY <1>3, RiseKeeps DEF PluginEdits
<1>4. CASE Throws \/ EditReturns
  BY <1>4, FallKeeps DEF Throws, EditReturns, InPhase
<1>5. ASSUME NEW p \in Params, EditsQuietly(p)
      PROVE  ChangeInv'
  BY <1>5, QuietKeeps
<1> QED
  BY <1>1, <1>2, <1>3, <1>4, <1>5, SetKeeps, NotifyKeeps, ReturnKeeps DEF ChangeNext

LEMMA ChangeHolds == ChangeSpec => []ChangeInv
<1> QED
  BY InitChange, StepKeeps, PTL DEF ChangeSpec

(* The edits that wait are of different parameters: they are no more than these. *)
LEMMA NestingFromInv ==
  ASSUME ChangeInv
  PROVE  NestingBounded
<1>1. Len(stack) \in Nat /\ \A i \in 1..Len(stack) : stack[i] \in UnderWay
  BY NoLength DEF ChangeInv
<1>2. CASE Len(stack) = 0
  BY <1>2, ChangeAssumption, FS_CardinalityType DEF NestingBounded
<1>3. CASE Len(stack) > 0
  <2> DEFINE f == [i \in 1..Len(stack) - 1 |-> stack[i].param]
  <2>1. f \in [1..Len(stack) - 1 -> Params]
    BY <1>1 DEF UnderWay
  <2>2. \A i, j \in 1..Len(stack) - 1 : i < j => stack[i].param # stack[j].param
    BY <1>1 DEF ChangeInv, OnlyTopMoves, NotInItself
  <2>3. f \in Injection(1..Len(stack) - 1, Params)
    <3> SUFFICES ASSUME NEW i \in 1..Len(stack) - 1, NEW j \in 1..Len(stack) - 1, f[i] = f[j]
                 PROVE  i = j
      BY <2>1 DEF Injection, IsInjective
    <3> QED
      BY <1>1, <2>2
  <2>4. Cardinality(1..Len(stack) - 1) <= Cardinality(Params)
    BY <2>3, ChangeAssumption, FS_Injection
  <2>5. Cardinality(1..Len(stack) - 1) = Len(stack) - 1
    BY <1>1, <1>3, FS_Interval
  <2>6. Cardinality(Params) \in Nat
    BY ChangeAssumption, FS_CardinalityType
  <2> QED
    BY <1>1, <2>4, <2>5, <2>6 DEF NestingBounded
<1> QED
  BY <1>1, <1>2, <1>3

(* No chain of edits in reaction to edits goes deeper than the parameters are many, and
   one more, whatever the plugin edits and whichever calls fail. *)
THEOREM ReactionsAreBounded == ChangeSpec => []NestingBounded
<1> QED
  BY ChangeHolds, NestingFromInv, PTL

(* The plugin is told of every edit of the application, unless an edit of the same
   parameter has thrown, or something that tells nobody has edited it since. *)
THEOREM EditsAreTold == ChangeSpec => []EveryEditTold
<1>1. ChangeInv => EveryEditTold
  BY DEF ChangeInv, WillTell, EveryEditTold
<1> QED
  BY <1>1, ChangeHolds, PTL

==============================================================================
