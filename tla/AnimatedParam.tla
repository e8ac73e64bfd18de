---------------------------- MODULE AnimatedParam ----------------------------
(***************************************************************************)
(* A parameter with key frames (attribute::AnimatedParam, of integers): a  *)
(* value, and a vector of key frames kept sorted by time, that an          *)
(* application and a plugin edit in any order.                             *)
(*                                                                         *)
(* getValueAtTime reads the element after the last one before it tests for *)
(* the end, so the memory of the vector is part of the state: clear and    *)
(* erase leave what was there, push_back overwrites it or, at the end of   *)
(* the capacity, moves to memory never written.                            *)
(*                                                                         *)
(* Abstracted: interpolation is linear, the only kind the host asks for,   *)
(* in exact arithmetic; values are not negative.  What an edit tells the   *)
(* plugin (paramChanged) is in ParamChange.                                *)
(***************************************************************************)
EXTENDS Integers, Sequences, FiniteSets

CONSTANTS
  Times,      \* times of key frames and of evaluations
  Values,     \* values set
  MaxKeys,    \* bound of the model: key frames
  Unwritten   \* memory never written

ASSUME ParamAssumption ==
  /\ Times \subseteq Int
  /\ Values \subseteq Nat
  /\ MaxKeys \in Nat
  /\ Unwritten \notin [time : Int, value : Nat]

VARIABLES
  value,      \* _value
  memory,     \* the memory of _key_frames, as long as its capacity
  size        \* the number of its elements

paramVars == <<value, memory, size>>

TimeValue == [time : Times, value : Values]
Keys == SubSeq(memory, 1, size)

\* std::lower_bound by time: the first element that is not before time, or the end.
LowerBound(time) == 1 + Cardinality({i \in 1..size : memory[i].time < time})
HasKeyAt(time) == \E i \in 1..size : memory[i].time = time

Init ==
  /\ value \in Values
  /\ memory = << >>
  /\ size = 0

-----------------------------------------------------------------------------
(* Edits. *)

(* Setting a single value clears the animation. *)
SetValue(v) ==
  /\ value' = v
  /\ size' = 0
  /\ UNCHANGED memory

(* An expression sets the value only. *)
SetValueFromExpression(v) ==
  /\ value' = v
  /\ UNCHANGED <<memory, size>>

\* The memory after push_back and sort: the element in its place, in a memory twice
\* as large when there was no room.
Room == IF size < Len(memory) THEN Len(memory) ELSE IF size = 0 THEN 1 ELSE 2 * size
Appended(key) ==  \* mutant: the vector is not sorted again
  [i \in 1..Room |->
     IF i <= size THEN memory[i]
     ELSE IF i = size + 1 THEN key
     ELSE IF i <= Len(memory) THEN memory[i]
     ELSE Unwritten]

Inserted(key) ==
  LET at == LowerBound(key.time)
  IN [i \in 1..Room |->
        IF i < at THEN memory[i]
        ELSE IF i = at THEN key
        ELSE IF i <= size + 1 THEN memory[i - 1]
        ELSE IF i <= Len(memory) THEN memory[i]
        ELSE Unwritten]

SetValueAtTime(time, v) ==
  /\ IF HasKeyAt(time)
     THEN /\ memory' = [memory EXCEPT ![LowerBound(time)].value = v]
          /\ UNCHANGED size
     ELSE /\ size < MaxKeys
          /\ memory' = Inserted([time |-> time, value |-> v])
          /\ size' = size + 1
  /\ UNCHANGED value

(* The elements after the key move down; the last one stays behind the new end.
   Without a key at that time it throws and nothing changes. *)
DeleteKey(time) ==
  /\ HasKeyAt(time)
  /\ memory' = [i \in 1..Len(memory) |->
                  IF LowerBound(time) <= i /\ i < size THEN memory[i + 1] ELSE memory[i]]
  /\ size' = size - 1
  /\ UNCHANGED value

DeleteAllKeys ==
  /\ size > 0
  /\ size' = 0
  /\ UNCHANGED <<value, memory>>

(* The value and the keys of another parameter are assigned, in the same memory when
   they fit. *)
Copy(v, keys) ==
  /\ value' = v
  /\ size' = Len(keys)
  /\ memory' = keys \o SubSeq(memory, Len(keys) + 1, Len(memory))

KeyLists == {<< >>} \cup {<<k>> : k \in TimeValue}

Edit ==
  \/ \E v \in Values : \/ SetValue(v) \/ SetValueFromExpression(v)
                       \/ \E time \in Times : SetValueAtTime(time, v)
                       \/ \E keys \in KeyLists : Copy(v, keys)
  \/ \E time \in Times : DeleteKey(time)
  \/ DeleteAllKeys

-----------------------------------------------------------------------------
(* Questions. *)

\* LinearInterpolator, and the conversion to an integer.
Interpolated(prev, next, time) ==
  (prev.value * (next.time - time) + next.value * (time - prev.time))
    \div (next.time - prev.time)

\* What getValueAtTime may answer.  The element at the end may be a key that was
\* deleted, or anything.
ValuesAtTimeByNext(time) ==  \* mutant: a time between two keys gets the next one
  LET i == LowerBound(time)
  IN IF size = 0 THEN {value} ELSE IF i > size THEN {memory[size].value}
     ELSE {memory[i].value}

ValuesAtTime(time) ==
  LET i == LowerBound(time)
  IN IF size = 0 THEN {value}
     ELSE IF i = 1 THEN {memory[1].value}
     ELSE IF i > size
          THEN IF size = Len(memory) \/ memory[i] = Unwritten
               THEN {memory[size].value} \cup Values
               ELSE {IF memory[i].time = time THEN memory[i].value
                     ELSE memory[size].value}
     ELSE IF memory[i].time = time THEN {memory[i].value}
     ELSE {Interpolated(memory[i - 1], memory[i], time)}

\* What getKeyIndex answers, counting from 1; 0 when it throws.
NoIndex == 0
KeyIndexPastExact(time, direction) ==  \* mutant: the key at that time is not skipped
  LET i == LowerBound(time)
  IN IF i > size THEN NoIndex
     ELSE IF direction = 0 THEN IF memory[i].time = time THEN i ELSE NoIndex
     ELSE IF direction < 0 THEN i - 1
     ELSE i
KeyIndex(time, direction) ==
  LET i == LowerBound(time)
  IN IF i > size THEN NoIndex
     ELSE IF direction = 0 THEN IF memory[i].time = time THEN i ELSE NoIndex
     ELSE IF direction < 0 THEN i - 1
     ELSE IF memory[i].time > time THEN i
     ELSE IF i < size THEN i + 1
     ELSE NoIndex

-----------------------------------------------------------------------------
(* Properties. *)

(* The memory holds the elements, whatever edits came before, sorted by time and each
   time once. *)
TypeOK ==
  /\ value \in Values
  /\ memory \in Seq(TimeValue \cup {Unwritten})
  /\ size \in 0..Len(memory)
  /\ \A i \in 1..size : memory[i] \in TimeValue
  /\ \A i, j \in 1..size : i < j => memory[i].time < memory[j].time

\* The animation as a function of the times that have a key.
KeyTimes == {memory[i].time : i \in 1..size}
KeyValue(time) == memory[CHOOSE i \in 1..size : memory[i].time = time].value
Before(time) == {t \in KeyTimes : t < time}
After(time) == {t \in KeyTimes : t > time}
Latest(T) == CHOOSE t \in T : \A u \in T : u <= t
Earliest(T) == CHOOSE t \in T : \A u \in T : u >= t

(* Up to the last key the value at a time is that of the key at that time, of the first
   key before any, and on the line between the nearest two keys otherwise, however the
   keys were edited. *)
ValueFollowsKeys ==
  \A time \in Times :
    (KeyTimes # {} /\ Before(time) # KeyTimes) =>
      \A v \in ValuesAtTime(time) :
        IF time \in KeyTimes THEN v = KeyValue(time)
        ELSE IF Before(time) = {} THEN v = KeyValue(Earliest(KeyTimes))
        ELSE LET a == Latest(Before(time))
                 b == Earliest(After(time))
                 exact == KeyValue(a) * (b - time) + KeyValue(b) * (time - a)
             IN v * (b - a) <= exact /\ exact < (v + 1) * (b - a)

(* Up to the last key, getKeyIndex finds the key at a time, the nearest one before or
   the nearest one after, and fails exactly when there is none. *)
KeyIndexNearest ==
  \A time \in Times : Before(time) # KeyTimes =>
    LET Is(i, T, t) == IF T = {} THEN i = NoIndex
                       ELSE i \in 1..size /\ memory[i].time = t
    IN /\ Is(KeyIndex(time, 0), KeyTimes \cap {time}, time)
       /\ Is(KeyIndex(time, -1), Before(time), Latest(Before(time)))
       /\ Is(KeyIndex(time, 1), After(time), Earliest(After(time)))

(* "There's no key frame at or after this time" "Return the last key frame value"
   (AnimatedParam.hpp:119): after the last key the value is that of the last key. *)
LastKeyHolds ==
  \A time \in Times :
    (KeyTimes # {} /\ Before(time) = KeyTimes) =>
      ValuesAtTime(time) = {KeyValue(Latest(KeyTimes))}

(* "< 0 indicates search for the previous key before the indicated time"
   (ofxParam.h:1119): it is found whenever there is a key before. *)
PreviousKeyFound ==
  \A time \in Times : Before(time) # {} => KeyIndex(time, -1) # NoIndex

=============================================================================
