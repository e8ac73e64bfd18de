---------------------------- MODULE ComputeProofs ----------------------------
(***************************************************************************)
(* What a computation promises: the sequence that Graph::compute renders,  *)
(* for every set of nodes and every list of time ranges, and ThreadEnv,    *)
(* which runs it, for any number of computes.                              *)
(*                                                                         *)
(* Sequence: the inductive invariant says, at each place of process, which *)
(* nodes are open, whether a frame is, and which data at time the nodes    *)
(* point to.  With the frames attempted so far it shows that process keeps *)
(* the promise of SequencePromise.                                         *)
(*                                                                         *)
(* ThreadEnv: as long as no compute is called while another goes on, at    *)
(* most the latest one is unfinished, and the flags follow its progress    *)
(* step by step.                                                           *)
(***************************************************************************)
EXTENDS RenderSequence, ThreadEnv, TLAPS

Looping == {"range", "loop"} \cup InFrame

(* beginSequence opens the nodes one by one and endSequence closes them so, *)
(* which makes toCall the frontier between those open and those closed.     *)
NodesOpened ==
  /\ pc = "setup" => opened = [n \in Nodes |-> 0]
  /\ pc = "begin" => \A n \in Nodes : opened[n] = IF n \in toCall THEN 0 ELSE 1
  /\ pc \in Looping => \A n \in Nodes : opened[n] = 1
  /\ pc = "end" => \A n \in Nodes : opened[n] = IF n \in toCall THEN 1 ELSE 0

(* The range that is rendered is one of those asked for. *)
RangeExists == pc \in {"loop"} \cup InFrame => i \in DOMAIN ranges

(* A frame begun after abort() is the last. *)
LateIsLast == late = 0 \/ (late = 1 /\ abort /\ pc \in InFrame \cup {"end"} \cup Ended)

(* The data at time is set by the graph of a frame, and gone before the    *)
(* next graph unless a frame was skipped.                                  *)
DataOfFrame ==
  ~skipped =>
    /\ pc \notin {"render", "end"} \cup Ended => attached = {}
    /\ pc \notin Ended => attached \subseteq {graphOf}

SequenceInv ==
  /\ TypeOK
  /\ NodesOpened
  /\ RangeExists
  /\ LateIsLast
  /\ DataOfFrame
  /\ FramesClosed
  /\ SequencesClosed

-----------------------------------------------------------------------------
(* The bounds of a range that is asked for are integers. *)
LEMMA RangeIsInteger ==
  ASSUME TypeOK, i \in DOMAIN ranges
  PROVE  Range \in TimeRanges
<1>1. ranges \in Seq(TimeRanges)
  BY SequenceAssumption DEF TypeOK
<1> QED BY <1>1 DEF Range

LEMMA InitSequence == Init => SequenceInv
<1> SUFFICES ASSUME Init PROVE SequenceInv
  OBVIOUS
<1> USE DEF Init, InFrame, Ended, Exits, Looping
<1>1. TypeOK
  <2>1. opened \in [Nodes -> 0 .. 1] /\ graphOf \in (Nat \X Int) \cup {NoFrame}
    OBVIOUS
  <2>2. /\ ranges \in RangeLists
        /\ onError \in BOOLEAN /\ onMissing \in BOOLEAN /\ abort \in BOOLEAN
        /\ skipped \in BOOLEAN /\ broken \in BOOLEAN /\ calledOff \in BOOLEAN
    OBVIOUS
  <2> QED BY <2>1, <2>2 DEF TypeOK
<1>2. NodesOpened /\ RangeExists
  BY DEF NodesOpened, RangeExists
<1>3. LateIsLast /\ DataOfFrame /\ FramesClosed /\ SequencesClosed
  BY DEF LateIsLast, DataOfFrame, FramesClosed, SequencesClosed
<1> QED BY <1>1, <1>2, <1>3 DEF SequenceInv

(* What no step but its own touches, unfolded together. *)
LEMMA SequenceStep ==
  ASSUME SequenceInv, [Next]_vars
  PROVE  SequenceInv'
<1> USE DEF InFrame, Ended, Exits, Looping, options, loop, calls, data, history, Now,
            SequenceInv, TypeOK, NodesOpened, RangeExists, LateIsLast, DataOfFrame,
            FramesClosed, SequencesClosed
<1>1. CASE Setup
  BY <1>1 DEF Setup
<1>2. ASSUME NEW n \in Nodes, BeginNode(n)
      PROVE  SequenceInv'
  <2>1. TypeOK'
    <3>1. opened[n] = 0
      BY <1>2 DEF BeginNode
    <3>2. \/ opened' = [opened EXCEPT ![n] = 1]
          \/ opened' = opened
      BY <1>2, <3>1 DEF BeginNode
    <3>3. opened' \in [Nodes -> 0 .. 1]
      BY <3>2
    <3> QED BY <1>2, <3>3 DEF BeginNode
  <2>2. NodesOpened'
    BY <1>2 DEF BeginNode
  <2>3. (RangeExists /\ LateIsLast /\ DataOfFrame /\ FramesClosed /\ SequencesClosed)'
    BY <1>2 DEF BeginNode
  <2> QED BY <2>1, <2>2, <2>3
<1>3. CASE BeginDone
  BY <1>3 DEF BeginDone
<1>4. CASE NextRange
  <2>1. Range \in TimeRanges
    BY <1>4, RangeIsInteger DEF NextRange
  <2> QED BY <1>4, <2>1 DEF NextRange, CloseSequence, TimeRanges
<1>5. CASE LastRangeDone
  BY <1>5 DEF LastRangeDone, CloseSequence
<1>6. CASE BeginFrame
  <2>1. attempted' \subseteq Nat \X Int /\ late' \in 0 .. 1
    BY <1>6 DEF BeginFrame
  <2> QED BY <1>6, <2>1 DEF BeginFrame
<1>7. CASE RangeDone
  BY <1>7 DEF RangeDone
<1>8. ASSUME NEW kind, FrameThrows(kind)
      PROVE  SequenceInv'
  <2> USE <1>8 DEF FrameThrows, CloseSequence
  <2>1. CASE pc' = "check"
    BY <2>1 DEF Catch
  <2>2. CASE pc' = "end"
    BY <2>2 DEF Catch
  <2> QED BY <2>1, <2>2 DEF Catch
<1>9. CASE DeployTimes
  BY <1>9 DEF DeployTimes
<1>10. CASE BuildGraph
  BY <1>10 DEF BuildGraph
<1>11. CASE ProcessAtTime
  BY <1>11 DEF ProcessAtTime
<1>12. CASE AbortedAfterFrame
  BY <1>12 DEF AbortedAfterFrame, CloseSequence
<1>13. CASE EndFrame
  <2>1. Range \in TimeRanges
    BY <1>13, RangeIsInteger DEF EndFrame
  <2> QED BY <1>13, <2>1 DEF EndFrame, NextTime, TimeRanges
<1>14. ASSUME NEW n \in Nodes, EndNode(n)
       PROVE  SequenceInv'
  <2>1. TypeOK'
    <3>1. opened[n] = 1
      BY <1>14 DEF EndNode
    <3>2. \/ opened' = [opened EXCEPT ![n] = 0]
          \/ opened' = opened
      BY <1>14, <3>1 DEF EndNode
    <3>3. opened' \in [Nodes -> 0 .. 1]
      BY <3>2
    <3> QED BY <1>14, <3>3 DEF EndNode
  <2>2. NodesOpened'
    BY <1>14 DEF EndNode
  <2>3. (RangeExists /\ LateIsLast /\ DataOfFrame /\ FramesClosed /\ SequencesClosed)'
    BY <1>14 DEF EndNode
  <2> QED BY <2>1, <2>2, <2>3
<1>15. CASE Leave
  BY <1>15 DEF Leave
<1>16. CASE Abort
  BY <1>16 DEF Abort
<1>17. CASE UNCHANGED vars
  BY <1>17 DEF vars
<1> QED
  BY <1>1, <1>2, <1>3, <1>4, <1>5, <1>6, <1>7, <1>8, <1>9, <1>10, <1>11, <1>12,
     <1>13, <1>14, <1>15, <1>16, <1>17 DEF Next, ProcessStep

(* SequenceInv holds of every state of the render. *)
THEOREM SequenceInvariant == Spec => []SequenceInv
  BY InitSequence, SequenceStep, PTL DEF Spec

(* The types of the render's state: a node is opened once at most, and an  *)
(* abort lets at most one more frame begin.                                *)
THEOREM SequenceTypes == Spec => []TypeOK
  BY SequenceInvariant, PTL DEF SequenceInv

(* beginFrameHandle and endFrameHandle are paired on every path out of a   *)
(* frame: success, error that is continued or not, abort.                  *)
THEOREM FramesAreClosed == Spec => []FramesClosed
  BY SequenceInvariant, PTL DEF SequenceInv

(* Every node whose beginSequence returned has its endSequence before      *)
(* process ends, unless one of these calls has itself thrown.              *)
THEOREM SequencesAreClosed == Spec => []SequencesClosed
  BY SequenceInvariant, PTL DEF SequenceInv

(* No node points to data at time of a graph that has been cleared, unless *)
(* a failed frame was skipped.                                             *)
THEOREM NodeDataIsAlive == Spec => []NodeDataAlive
<1>1. SequenceInv => NodeDataAlive
  BY DEF SequenceInv, DataOfFrame, NodeDataAlive
<1> QED BY <1>1, SequenceInvariant, PTL

-----------------------------------------------------------------------------
(* process keeps its promise: RenderSequence implements SequencePromise.   *)

(* The frames that come before the time t of range j. *)
FramesBefore(j, t) == {f \in FramesOf(ranges) : f[1] < j \/ (f[1] = j /\ f[2] < t)}

(* The time is one the range asks for, or the first one past its end. *)
OnStep == pc \in {"loop"} \cup InFrame =>
            /\ time >= Range.begin /\ (time - Range.begin) % Range.step = 0
            /\ pc \in InFrame => time <= Range.end

(* What has been attempted is what the loops have been through. *)
FramesInOrder ==
  /\ pc \in {"setup", "begin"} => i = 1 /\ attempted = {}
  /\ pc \in {"range", "loop"} \cup InFrame => i \in 1 .. Len(ranges) + 1
  /\ pc = "range" => attempted = {f \in FramesOf(ranges) : f[1] < i}
  /\ pc = "loop" => attempted = FramesBefore(i, time)
  /\ pc \in InFrame => attempted = FramesBefore(i, time) \cup {Now}
  /\ pc = "end" /\ exit = "done" => attempted = FramesOf(ranges)

(* An early exit has been asked for; an abort asked before process leaves  *)
(* no other.                                                               *)
AbortObeyed ==
  /\ pc = "end" /\ exit \in {"abortedBefore", "abortedAfter"} => abort
  /\ calledOff =>
       /\ abort /\ pc \notin {"loop"} \cup InFrame
       /\ pc = "range" => i = 1
       /\ pc = "end" => exit # "done"

PromiseInv == SequenceInv /\ OnStep /\ FramesInOrder /\ AbortObeyed

LEMMA FramesAsked ==
  ASSUME TypeOK
  PROVE  /\ FramesOf(ranges) \subseteq Nat \X Int
         /\ \A j, t : <<j, t>> \in FramesOf(ranges) <=>
              /\ j \in DOMAIN ranges /\ t \in Int
              /\ ranges[j].begin <= t /\ t <= ranges[j].end
              /\ (t - ranges[j].begin) % ranges[j].step = 0
<1>1. /\ ranges \in Seq(TimeRanges)
      /\ \A j \in DOMAIN ranges : j \in Nat /\ ranges[j] \in TimeRanges
  BY SequenceAssumption DEF TypeOK
<1>2. FramesOf(ranges) \subseteq Nat \X Int
  BY <1>1 DEF FramesOf
<1>3. ASSUME NEW j, NEW t
      PROVE  <<j, t>> \in FramesOf(ranges) <=>
              /\ j \in DOMAIN ranges
              /\ t \in ranges[j].begin .. ranges[j].end
              /\ (t - ranges[j].begin) % ranges[j].step = 0
  BY DEF FramesOf
<1>4. \A j \in DOMAIN ranges : ranges[j].begin \in Int /\ ranges[j].end \in Int
  BY <1>1 DEF TimeRanges
<1> QED BY <1>2, <1>3, <1>4

LEMMA RangeParts ==
  ASSUME TypeOK, i \in DOMAIN ranges
  PROVE  Range.begin \in Int /\ Range.end \in Int /\ Range.step \in Int /\ Range.step > 0
<1>1. Range \in TimeRanges
  BY RangeIsInteger
<1>2. Range.step > 0
  BY SequenceAssumption DEF TypeOK, Range
<1> QED BY <1>1, <1>2 DEF TimeRanges

(* Multiples of a step, and two of them a step apart. *)
LEMMA IsMultiple ==
  ASSUME NEW x \in Int, NEW s \in Int, s > 0, x % s = 0
  PROVE  x \div s \in Int /\ x = s * (x \div s)
OBVIOUS

LEMMA MultipleOf ==
  ASSUME NEW q \in Int, NEW s \in Int, s > 0
  PROVE  (s * q) % s = 0
OBVIOUS

LEMMA ApartBy ==
  ASSUME NEW p \in Int, NEW q \in Int, NEW s \in Int, s > 0, s * p > s * q
  PROVE  s * p >= s * q + s
<1>1. s * p - s * q = s * (p - q)
  OBVIOUS
<1>2. p - q > 0
  <2>1. CASE p - q <= 0
    <3>1. s * (p - q) <= 0
      BY <2>1
    <3> QED BY <1>1, <3>1
  <2> QED BY <2>1
<1>3. s * (p - q) >= s
  BY <1>2
<1> QED BY <1>1, <1>3

(* Two times of one range are a step apart. *)
LEMMA NextStep ==
  ASSUME NEW b \in Int, NEW s \in Int, s > 0, NEW t \in Int, NEW u \in Int,
         (t - b) % s = 0, (u - b) % s = 0, u > t
  PROVE  u >= t + s
<1>1. PICK p \in Int : u - b = s * p
  BY IsMultiple
<1>2. PICK q \in Int : t - b = s * q
  BY IsMultiple
<1>3. s * p \in Int /\ s * q \in Int
  OBVIOUS
<1>4. s * p > s * q
  BY <1>1, <1>2
<1>5. s * p >= s * q + s
  BY <1>4, ApartBy
<1>6. u - b >= t - b + s
  BY <1>1, <1>2, <1>5
<1> QED BY <1>6

LEMMA StepOn ==
  ASSUME NEW b \in Int, NEW s \in Int, s > 0, NEW t \in Int, (t - b) % s = 0
  PROVE  ((t + s) - b) % s = 0
<1>1. PICK q \in Int : t - b = s * q
  <2>1. t - b \in Int
    OBVIOUS
  <2>2. (t - b) \div s \in Int /\ t - b = s * ((t - b) \div s)
    BY <2>1, IsMultiple
  <2> QED BY <2>2
<1>2. (t + s) - b = s * (q + 1)
  BY <1>1
<1> QED BY <1>2, MultipleOf

LEMMA FirstStep ==
  ASSUME NEW b \in Int, NEW s \in Int, s > 0
  PROVE  (b - b) % s = 0
OBVIOUS

LEMMA InitPromise == Init => PromiseInv
<1> SUFFICES ASSUME Init PROVE PromiseInv
  OBVIOUS
<1>1. SequenceInv /\ OnStep /\ AbortObeyed
  BY InitSequence DEF Init, OnStep, AbortObeyed, InFrame
<1>2. FramesInOrder
  BY DEF Init, FramesInOrder, InFrame
<1> QED BY <1>1, <1>2 DEF PromiseInv

(* The loops go through the frames one by one: each step keeps what has    *)
(* been attempted in agreement with where process is.                      *)
LEMMA LoopStep ==
  ASSUME PromiseInv, Next
  PROVE  OnStep' /\ FramesInOrder' /\ AbortObeyed'
<1> USE DEF PromiseInv, InFrame, Ended
<1>0. TypeOK /\ ranges' = ranges /\ ranges \in Seq(TimeRanges) /\ ranges # <<>>
  <2>1. TypeOK
    BY DEF SequenceInv
  <2>2. ranges' = ranges
    BY DEF Next, ProcessStep, Setup, BeginDone, NextRange, LastRangeDone, BeginFrame,
           RangeDone, DeployTimes, BuildGraph, ProcessAtTime, AbortedAfterFrame,
           EndFrame, Leave, BeginNode, EndNode, FrameThrows, Abort, options
  <2> QED BY <2>1, <2>2, SequenceAssumption DEF TypeOK
<1>1. Len(ranges) \in Nat /\ Len(ranges) > 0 /\ DOMAIN ranges = 1 .. Len(ranges)
  BY <1>0
<1>2. CASE Setup \/ BeginDone \/ (\E n \in Nodes : BeginNode(n))
  <2>1. /\ UNCHANGED <<i, attempted, abort, calledOff>>
        /\ pc \in {"setup", "begin"} /\ pc' \in {"begin", "range", "threw"}
    BY <1>2 DEF Setup, BeginDone, BeginNode, loop, history
  <2>2. i = 1 /\ attempted = {}
    BY <2>1 DEF FramesInOrder
  <2>3. {f \in FramesOf(ranges) : f[1] < i} = {}
    BY <1>0, <1>1, <2>2, FramesAsked
  <2>4. FramesInOrder'
    BY <1>0, <1>1, <2>1, <2>2, <2>3 DEF FramesInOrder
  <2>5. OnStep' /\ AbortObeyed'
    BY <2>1, <2>2 DEF OnStep, AbortObeyed
  <2> QED BY <2>4, <2>5
<1>3. CASE NextRange
  <2>1. /\ pc = "range" /\ i \in DOMAIN ranges
        /\ UNCHANGED <<i, attempted, abort, calledOff>>
        /\ \/ abort /\ pc' = "end" /\ exit' = "abortedBefore"
           \/ ~abort /\ pc' = "loop" /\ time' = Range.begin
    BY <1>3 DEF NextRange, CloseSequence, history
  <2>2. i \in Nat /\ attempted = {f \in FramesOf(ranges) : f[1] < i}
    BY <1>0, <2>1 DEF FramesInOrder, TypeOK
  <2>3. Range.begin \in Int /\ Range.step \in Int /\ Range.step > 0
    BY <1>0, <2>1, RangeParts
  <2>4. FramesBefore(i, Range.begin) = {f \in FramesOf(ranges) : f[1] < i}
    <3>1. ASSUME NEW f \in FramesOf(ranges)
          PROVE  ~(f[1] = i /\ f[2] < Range.begin)
      <4>1. f = <<f[1], f[2]>> /\ f[2] \in Int
        BY <1>0, FramesAsked
      <4>2. ranges[f[1]].begin <= f[2]
        BY <1>0, <4>1, FramesAsked
      <4> QED BY <2>3, <4>1, <4>2 DEF Range
    <3> QED BY <3>1 DEF FramesBefore
  <2>5. OnStep'
    BY <1>0, <2>1, <2>3, FirstStep DEF OnStep, Range
  <2>6. FramesInOrder'
    BY <1>0, <1>1, <2>1, <2>2, <2>4 DEF FramesInOrder, FramesBefore
  <2>7. AbortObeyed'
    BY <2>1 DEF AbortObeyed
  <2> QED BY <2>5, <2>6, <2>7
<1>4. CASE LastRangeDone
  <2>1. /\ pc = "range" /\ i \notin DOMAIN ranges /\ pc' = "end" /\ exit' = "done"
        /\ UNCHANGED <<i, attempted, abort, calledOff>>
    BY <1>4 DEF LastRangeDone, CloseSequence, loop, history
  <2>2. i = Len(ranges) + 1 /\ attempted = {f \in FramesOf(ranges) : f[1] < i}
    BY <1>1, <2>1 DEF FramesInOrder
  <2>3. attempted = FramesOf(ranges)
    <3>1. ASSUME NEW f \in FramesOf(ranges)
          PROVE  f[1] < i
      <4>1. f = <<f[1], f[2]>>
        BY <1>0, FramesAsked
      <4>2. f[1] \in DOMAIN ranges
        BY <1>0, <4>1, FramesAsked
      <4> QED BY <1>1, <2>2, <4>2
    <3> QED BY <2>2, <3>1
  <2>4. FramesInOrder' /\ OnStep'
    BY <1>0, <2>1, <2>3 DEF FramesInOrder, OnStep
  <2>5. AbortObeyed'
    BY <1>1, <2>1, <2>2 DEF AbortObeyed
  <2> QED BY <2>4, <2>5
<1>5. CASE BeginFrame
  <2>1. /\ pc = "loop" /\ pc' = "deploy" /\ time <= Range.end
        /\ attempted' = attempted \cup {Now}
        /\ UNCHANGED <<i, time, exit, abort, calledOff>>
    BY <1>5 DEF BeginFrame, InRange, loop
  <2>2. OnStep'
    BY <1>0, <2>1 DEF OnStep, Range
  <2>3. FramesInOrder'
    BY <1>0, <2>1 DEF FramesInOrder, FramesBefore, Now
  <2>4. AbortObeyed'
    BY <2>1 DEF AbortObeyed
  <2> QED BY <2>2, <2>3, <2>4
<1>6. CASE RangeDone
  <2>1. /\ pc = "loop" /\ pc' = "range" /\ ~(time <= Range.end) /\ i' = i + 1
        /\ UNCHANGED <<attempted, abort, calledOff>>
    BY <1>6 DEF RangeDone, InRange, history
  <2>2. i \in DOMAIN ranges /\ i \in Nat /\ time \in Int /\ Range.end \in Int
    BY <1>0, <2>1, RangeParts DEF SequenceInv, RangeExists, TypeOK
  <2>3. FramesBefore(i, time) = {f \in FramesOf(ranges) : f[1] < i + 1}
    <3>1. ASSUME NEW f \in FramesOf(ranges)
          PROVE  (f[1] < i \/ (f[1] = i /\ f[2] < time)) <=> f[1] < i + 1
      <4>1. f = <<f[1], f[2]>> /\ f[1] \in Nat /\ f[2] \in Int
        BY <1>0, FramesAsked
      <4>2. f[2] <= ranges[f[1]].end
        BY <1>0, <4>1, FramesAsked
      <4>3. f[1] = i => f[2] < time
        BY <2>1, <2>2, <4>1, <4>2 DEF Range
      <4> QED BY <2>2, <4>1, <4>3
    <3> QED BY <3>1 DEF FramesBefore
  <2>4. FramesInOrder'
    BY <1>0, <1>1, <2>1, <2>2, <2>3 DEF FramesInOrder
  <2>5. OnStep' /\ AbortObeyed'
    BY <2>1 DEF OnStep, AbortObeyed
  <2> QED BY <2>4, <2>5
<1>7. CASE DeployTimes \/ BuildGraph \/ ProcessAtTime
  <2>1. /\ pc \in InFrame /\ pc' \in InFrame
        /\ UNCHANGED <<i, time, exit, attempted, abort, calledOff>>
    BY <1>7 DEF DeployTimes, BuildGraph, ProcessAtTime, loop, history
  <2>2. OnStep' /\ FramesInOrder' /\ AbortObeyed'
    BY <1>0, <2>1 DEF OnStep, FramesInOrder, AbortObeyed, FramesBefore, Now, Range
  <2> QED BY <2>2
<1>8. CASE \/ \E kind \in {"missing", "other"} : FrameThrows(kind)
           \/ AbortedAfterFrame
  <2>1. /\ pc \in InFrame
        /\ \/ pc' = "check" /\ exit' = exit
           \/ pc' = "end" /\ exit' = "threw"
           \/ pc' = "end" /\ exit' = "abortedAfter" /\ abort
        /\ UNCHANGED <<i, time, attempted, abort, calledOff>>
    BY <1>8 DEF FrameThrows, Catch, AbortedAfterFrame, CloseSequence, loop, history
  <2>2. OnStep' /\ FramesInOrder' /\ AbortObeyed'
    BY <1>0, <2>1 DEF OnStep, FramesInOrder, AbortObeyed, FramesBefore, Now, Range
  <2> QED BY <2>2
<1>9. CASE EndFrame
  <2>1. /\ pc = "check" /\ pc' = "loop" /\ time' = time + Range.step
        /\ UNCHANGED <<i, exit, attempted, abort, calledOff>>
    BY <1>9 DEF EndFrame, NextTime, history
  <2>2. i \in DOMAIN ranges /\ i \in Nat /\ time \in Int
    BY <2>1 DEF SequenceInv, RangeExists, TypeOK
  <2>3. Range.begin \in Int /\ Range.end \in Int /\ Range.step \in Int /\ Range.step > 0
    BY <1>0, <2>2, RangeParts
  <2>4. time >= Range.begin /\ (time - Range.begin) % Range.step = 0 /\ time <= Range.end
    BY <2>1 DEF OnStep
  <2>5. FramesBefore(i, time) \cup {Now} = FramesBefore(i, time + Range.step)
    <3>1. Now \in FramesOf(ranges)
      BY <1>0, <2>2, <2>4, FramesAsked DEF Now, Range
    <3>2. Now \in FramesBefore(i, time + Range.step)
      BY <2>2, <2>3, <3>1 DEF FramesBefore, Now
    <3>3. ASSUME NEW f \in FramesOf(ranges)
          PROVE  (f[1] < i \/ (f[1] = i /\ f[2] < time)) \/ f = Now
                 <=> f[1] < i \/ (f[1] = i /\ f[2] < time + Range.step)
      <4>1. f = <<f[1], f[2]>> /\ f[1] \in Nat /\ f[2] \in Int
        BY <1>0, FramesAsked
      <4>2. (f[2] - ranges[f[1]].begin) % ranges[f[1]].step = 0
        BY <1>0, <4>1, FramesAsked
      <4>3. f[1] = i /\ f[2] > time => f[2] >= time + Range.step
        BY <2>2, <2>3, <2>4, <4>1, <4>2, NextStep DEF Range
      <4>4. f = Now <=> f[1] = i /\ f[2] = time
        BY <4>1 DEF Now
      <4> QED BY <2>2, <2>3, <4>1, <4>3, <4>4
    <3> QED BY <3>1, <3>2, <3>3 DEF FramesBefore
  <2>6. OnStep'
    <3>1. ((time + Range.step) - Range.begin) % Range.step = 0
      BY <2>2, <2>3, <2>4, StepOn
    <3>2. time + Range.step >= Range.begin
      BY <2>2, <2>3, <2>4
    <3> QED BY <1>0, <2>1, <3>1, <3>2 DEF OnStep, Range
  <2>7. FramesInOrder'
    BY <1>0, <2>1, <2>5 DEF FramesInOrder, FramesBefore
  <2>8. AbortObeyed'
    BY <2>1 DEF AbortObeyed
  <2> QED BY <2>6, <2>7, <2>8
<1>10. CASE (\E n \in Nodes : EndNode(n)) \/ Leave
  <2>1. /\ pc = "end" /\ pc' \in {"end"} \cup Ended
        /\ UNCHANGED <<i, exit, attempted, abort, calledOff>>
    BY <1>10 DEF EndNode, Leave, loop, history
  <2>2. OnStep' /\ FramesInOrder' /\ AbortObeyed'
    BY <1>0, <2>1 DEF OnStep, FramesInOrder, AbortObeyed
  <2> QED BY <2>2
<1>11. CASE Abort
  <2>1. abort' /\ UNCHANGED <<pc, i, time, exit, attempted, calledOff>>
    BY <1>11 DEF Abort, loop, history
  <2>2. OnStep' /\ FramesInOrder' /\ AbortObeyed'
    BY <1>0, <2>1 DEF OnStep, FramesInOrder, AbortObeyed, FramesBefore, Now, Range
  <2> QED BY <2>2
<1> QED
  BY <1>2, <1>3, <1>4, <1>5, <1>6, <1>7, <1>8, <1>9, <1>10, <1>11 DEF Next, ProcessStep

LEMMA PromiseStep ==
  ASSUME PromiseInv, [Next]_vars
  PROVE  PromiseInv'
<1>1. SequenceInv'
  BY SequenceStep DEF PromiseInv
<1>2. CASE Next
  BY <1>1, <1>2, LoopStep DEF PromiseInv
<1>3. CASE UNCHANGED vars
  BY <1>1, <1>3 DEF PromiseInv, vars, options, loop, history, OnStep, FramesInOrder, AbortObeyed,
                    FramesBefore, Range, Now
<1> QED BY <1>2, <1>3

(* A frame begins when those before it have been attempted, and no other. *)
LEMMA BeginFrameAttempts ==
  ASSUME PromiseInv, BeginFrame
  PROVE  Promise!AttemptFrame
<1> USE DEF PromiseInv, InFrame, Ended
<1>1. /\ pc = "loop" /\ pc' = "deploy" /\ time <= Range.end
      /\ attempted' = attempted \cup {Now}
      /\ late' = IF abort THEN late + 1 ELSE late
      /\ UNCHANGED <<ranges, abort, calledOff>>
  BY DEF BeginFrame, InRange, options
<1>2. TypeOK /\ i \in DOMAIN ranges /\ i \in Nat /\ time \in Int
  BY <1>1 DEF SequenceInv, RangeExists, TypeOK
<1>3. attempted = FramesBefore(i, time) /\ ~calledOff /\ late = 0
  BY <1>1 DEF FramesInOrder, AbortObeyed, SequenceInv, LateIsLast
<1>4. Now \in FramesOf(ranges)
  BY <1>1, <1>2, FramesAsked DEF OnStep, Now, Range
<1>5. Now \notin attempted
  BY <1>2, <1>3 DEF FramesBefore, Now
<1>6. \A g \in FramesOf(ranges) :
        (g[1] < Now[1] \/ (g[1] = Now[1] /\ g[2] < Now[2])) <=> g \in attempted
  BY <1>3 DEF FramesBefore, Now
<1>7. FramesOf(ranges)' = FramesOf(ranges)
  BY <1>1
<1> QED BY <1>1, <1>3, <1>4, <1>5, <1>6, <1>7 DEF Promise!AttemptFrame

(* process returns true after all the frames, false after an abort. *)
LEMMA LeaveConcludes ==
  ASSUME PromiseInv, Leave
  PROVE  Promise!Conclude
<1> USE DEF PromiseInv, Ended
<1>1. /\ pc = "end"
      /\ pc' = CASE exit = "done" -> "true" [] exit = "threw" -> "threw" [] OTHER -> "false"
      /\ UNCHANGED <<ranges, attempted, abort, late, calledOff>>
  BY DEF Leave, options, history
<1>2. exit \in Exits
  BY DEF SequenceInv, TypeOK
<1>3. FramesOf(ranges)' = FramesOf(ranges)
  BY <1>1
<1>4. CASE exit = "done"
  BY <1>1, <1>3, <1>4 DEF FramesInOrder, AbortObeyed, Promise!Conclude
<1>5. CASE exit = "threw"
  BY <1>1, <1>3, <1>5 DEF Promise!Conclude
<1>6. CASE exit \in {"abortedBefore", "abortedAfter"}
  BY <1>1, <1>3, <1>6 DEF AbortObeyed, Promise!Conclude
<1> QED BY <1>2, <1>4, <1>5, <1>6 DEF Exits

(* Every other step changes nothing the caller sees, or fails. *)
LEMMA SequenceRefines ==
  ASSUME PromiseInv, [Next]_vars
  PROVE  [Promise!PromiseNext]_(Promise!promised)
<1> USE DEF InFrame, Ended
<1>1. CASE BeginFrame
  BY <1>1, BeginFrameAttempts DEF Promise!PromiseNext
<1>2. CASE Leave
  BY <1>2, LeaveConcludes DEF Promise!PromiseNext
<1>3. CASE Abort
  <2>1. Promise!AskAbort
    BY <1>3 DEF Abort, options, history, Promise!AskAbort
  <2> QED BY <2>1 DEF Promise!PromiseNext
<1>4. CASE Setup \/ (\E n \in Nodes : BeginNode(n)) \/ (\E n \in Nodes : EndNode(n))
  <2>1. /\ pc \notin Ended
        /\ pc' \notin Ended \/ pc' = "threw"
        /\ UNCHANGED <<ranges, attempted, abort, late, calledOff>>
    BY <1>4 DEF Setup, BeginNode, EndNode, options, history
  <2>2. CASE pc' = "threw"
    BY <2>1, <2>2 DEF Promise!Conclude, Promise!PromiseNext
  <2>3. CASE pc' \notin Ended
    BY <2>1, <2>3 DEF Promise!promised
  <2> QED BY <2>1, <2>2, <2>3
<1>5. CASE \/ BeginDone \/ NextRange \/ LastRangeDone \/ RangeDone
           \/ DeployTimes \/ BuildGraph \/ ProcessAtTime \/ AbortedAfterFrame \/ EndFrame
           \/ \E kind \in {"missing", "other"} : FrameThrows(kind)
  <2>1. /\ pc \notin Ended /\ pc' \notin Ended
        /\ UNCHANGED <<ranges, attempted, abort, late, calledOff>>
    BY <1>5 DEF BeginDone, NextRange, LastRangeDone, RangeDone, DeployTimes, BuildGraph,
                ProcessAtTime, AbortedAfterFrame, EndFrame, FrameThrows, Catch, CloseSequence,
                options, history
  <2> QED BY <2>1 DEF Promise!promised
<1>6. CASE UNCHANGED vars
  BY <1>6 DEF vars, options, history, Promise!promised
<1> QED BY <1>1, <1>2, <1>3, <1>4, <1>5, <1>6 DEF Next, ProcessStep

(* process attempts the frames asked for in their order, returns true only *)
(* after all of them and false only after an abort, and obeys an abort     *)
(* after one frame at most: RenderSequence implements SequencePromise.     *)
THEOREM SequenceKeepsPromise == Spec => KeepsPromise
<1>1. Init => Promise!PromiseInit
  <2> SUFFICES ASSUME Init PROVE Promise!PromiseInit
    OBVIOUS
  <2>1. FramesOf(ranges) \subseteq Nat \X Int
    BY InitSequence, FramesAsked DEF SequenceInv
  <2> QED BY <2>1 DEF Init, Ended, Promise!PromiseInit
<1>2. PromiseInv /\ [Next]_vars => [Promise!PromiseNext]_(Promise!promised)
  BY SequenceRefines
<1> QED BY <1>1, <1>2, InitPromise, PromiseStep, PTL DEF Spec, KeepsPromise, Promise!PromiseSpec

-----------------------------------------------------------------------------
InThread == {"thread", "resultSet", "notRunning"}

(* Computes are called in order, and have an outcome before they end. *)
Progress ==
  /\ thread <= latest
  /\ \A c \in Computes :
       /\ c > latest <=> at[c] = "none"
       /\ at[c] = "none" => outcome[c] = "none"
       /\ at[c] \in {"resultSet", "notRunning", "finished"} => outcome[c] # "none"
       /\ at[c] # "finished" => signalled[c] = 0

(* Without overlap, the latest compute alone goes on, in the thread of the *)
(* handle unless it is the caller's. *)
Alone ==
  /\ \A c \in Computes : c < latest => at[c] \in {"finished", "notStarted"}
  /\ latest # 0 =>
       /\ at[latest] \in InThread => thread = latest
       /\ at[latest] \in {"sync", "notStarted"} => thread # latest
       /\ thread = latest /\ at[latest] = "finished" => signalled[latest] = 1

(* The flags are its own once it has stored them, *)
FlagsFollow ==
  latest # 0 =>
    /\ at[latest] \in {"resultSet", "notRunning"} \/ signalled[latest] = 1 =>
         result = (outcome[latest] = "true")
    /\ at[latest] = "notRunning" \/ signalled[latest] = 1 => ~isRunning

(* who joined its thread has seen them, *)
JoinerHasSeen ==
  latest # 0 /\ signalled[latest] = 1 /\ thread = 0 =>
    /\ runningReads["control"] = {FALSE}
    /\ resultReads["control"] = {outcome[latest] = "true"}

(* and the flag is up for a thread that runs, or that was not created.     *)
FlagHasReason ==
  isRunning => \/ \E c \in Computes : at[c] = "notStarted"
               \/ latest # 0 /\ at[latest] \in {"thread", "resultSet"}

LatestAlone == ~overlapped => Alone /\ FlagsFollow /\ JoinerHasSeen /\ FlagHasReason

EnvInv == EnvTypeOK /\ Progress /\ LatestAlone

-----------------------------------------------------------------------------
LEMMA InitEnv == EnvInit => EnvInv
<1> SUFFICES ASSUME EnvInit PROVE EnvInv
  OBVIOUS
<1> USE EnvAssumption DEF EnvInit, Computes
<1>1. EnvTypeOK
  <2>1. signalled \in [Computes -> 0 .. 1] /\ calledAborted \subseteq Computes
    OBVIOUS
  <2>2. asynchronous \in BOOLEAN /\ thread \in 0 .. MaxComputes /\ latest \in 0 .. MaxComputes
    OBVIOUS
  <2>3. runningReads \in [Observers -> SUBSET BOOLEAN] /\ resultReads \in [Observers -> SUBSET BOOLEAN]
    OBVIOUS
  <2> QED BY <2>1, <2>2, <2>3 DEF EnvTypeOK
<1>2. Progress
  BY DEF Progress
<1>3. LatestAlone
  BY DEF LatestAlone, Alone, FlagsFollow,
         JoinerHasSeen, FlagHasReason
<1> QED BY <1>1, <1>2, <1>3 DEF EnvInv

(* A store keeps the types of what the observers may read. *)
LEMMA StoredReads ==
  ASSUME NEW reads \in [Observers -> SUBSET BOOLEAN], NEW value \in BOOLEAN, NEW by
  PROVE  Stored(reads, value, by) \in [Observers -> SUBSET BOOLEAN]
BY DEF Stored

(* The ways to call a compute differ in the place it runs in. *)
LEMMA CallKeepsProgress ==
  ASSUME EnvInv, NEW place \in {"thread", "notStarted", "sync"}, Called(place),
         thread' \in {thread, latest + 1}
  PROVE  /\ at' = [at EXCEPT ![latest + 1] = place]
         /\ latest + 1 \in Computes /\ latest' = latest + 1
         /\ Progress'
         /\ signalled'[latest'] = 0
         /\ ~overlapped' => /\ \A c \in Computes : c < latest' => at'[c] \in {"finished", "notStarted"}
                            /\ ~overlapped
<1> USE EnvAssumption DEF EnvInv, EnvTypeOK, Progress, Called, Computes
<1>1. latest + 1 \in Computes /\ latest \in Nat /\ thread \in Nat
  OBVIOUS
<1>2. Progress'
  BY <1>1
<1>3. ASSUME ~overlapped', NEW c \in Computes, c < latest'
      PROVE  at'[c] \in {"finished", "notStarted"}
  <2>1. GoingOn = {}
    BY <1>3
  <2>2. c <= latest /\ at[c] # "none"
    BY <1>1, <1>3
  <2>3. at[c] \in {"finished", "notStarted"}
    BY <2>1, <2>2 DEF GoingOn
  <2> QED BY <1>1, <2>2, <2>3
<1>4. signalled'[latest'] = 0
  BY <1>1
<1> QED BY <1>1, <1>2, <1>3, <1>4

(* A call that does not overlap finds the flag down, unless a thread could *)
(* not be created.                                                         *)
LEMMA CallFindsFlagDown ==
  ASSUME EnvInv, NEW place, Called(place), ~overlapped', \A c \in Computes : at[c] # "notStarted"
  PROVE  ~isRunning
<1>1. GoingOn = {} /\ ~overlapped
  BY DEF Called, EnvInv, EnvTypeOK
<1>2. latest = 0 \/ latest \in Computes
  BY EnvAssumption DEF EnvInv, EnvTypeOK, Computes
<1>3. CASE latest = 0
  BY <1>1, <1>3 DEF EnvInv, LatestAlone, FlagHasReason
<1>4. CASE latest \in Computes
  <2>1. at[latest] \notin {"thread", "resultSet"}
    BY <1>1, <1>4 DEF GoingOn
  <2>2. latest # 0
    BY <1>4 DEF Computes
  <2> QED BY <1>1, <2>1, <2>2 DEF EnvInv, LatestAlone, FlagHasReason
<1> QED BY <1>2, <1>3, <1>4

LEMMA EnvStep ==
  ASSUME EnvInv, [EnvNext]_envVars
  PROVE  EnvInv'
<1> USE EnvAssumption DEF EnvInv, Computes, flags, runningFlag, resultFlag
<1>1. CASE SetAsynchronous
  BY <1>1 DEF SetAsynchronous, EnvTypeOK, Progress, LatestAlone, Alone, FlagsFollow,
                  JoinerHasSeen, FlagHasReason
<1>2. CASE ComputeInThread
  <2>0. PICK place \in {"thread", "notStarted"} :
          /\ Called(place)
          /\ thread' = IF place = "thread" THEN latest + 1 ELSE thread
    BY <1>2 DEF ComputeInThread
  <2>1. /\ at' = [at EXCEPT ![latest + 1] = place] /\ latest + 1 \in Computes
        /\ latest' = latest + 1
        /\ Progress'
        /\ signalled'[latest'] = 0
        /\ ~overlapped' => /\ \A c \in Computes : c < latest' => at'[c] \in {"finished", "notStarted"}
                           /\ ~overlapped
    BY <2>0, CallKeepsProgress
  <2>2. EnvTypeOK'
    <3>1. isRunning' = TRUE /\ runningReads' \in [Observers -> SUBSET BOOLEAN]
      BY <1>2, StoredReads DEF ComputeInThread, StoreRunning, EnvTypeOK
    <3> QED BY <2>0, <2>1, <3>1 DEF Called, EnvTypeOK
  <2>3. LatestAlone'
    <3>2. at'[latest'] = place
      BY <2>0, <2>1 DEF EnvTypeOK
    <3>3. thread' = latest' <=> place = "thread"
      BY <2>0, <2>1 DEF EnvTypeOK, Progress
    <3>4. latest' \in Computes
      BY <2>1
    <3> QED BY <2>0, <2>1, <3>2, <3>3, <3>4 DEF LatestAlone, Alone, FlagsFollow,
         JoinerHasSeen, FlagHasReason, InThread
  <2> QED BY <2>1, <2>2, <2>3
<1>3. CASE ComputeHere
  <2>1. /\ at' = [at EXCEPT ![latest + 1] = "sync"] /\ latest + 1 \in Computes
        /\ latest' = latest + 1
        /\ Progress'
        /\ signalled'[latest'] = 0
        /\ ~overlapped' => /\ \A c \in Computes : c < latest' => at'[c] \in {"finished", "notStarted"}
                           /\ ~overlapped
    BY <1>3, CallKeepsProgress DEF ComputeHere
  <2>2. EnvTypeOK'
    BY <1>3, <2>1 DEF ComputeHere, Called, EnvTypeOK
  <2>3. ~overlapped' /\ (\A c \in Computes : at'[c] # "notStarted") => ~isRunning'
    <3>1. (\A c \in Computes : at'[c] # "notStarted") => \A c \in Computes : at[c] # "notStarted"
      BY <2>1 DEF EnvTypeOK, Progress
    <3> QED BY <1>3, <3>1, CallFindsFlagDown DEF ComputeHere
  <2>4. LatestAlone'
    <3>1. at'[latest'] = "sync" /\ thread' # latest'
      BY <1>3, <2>1 DEF ComputeHere, EnvTypeOK, Progress
    <3> QED BY <2>1, <2>3, <3>1 DEF LatestAlone, Alone, FlagsFollow,
         JoinerHasSeen, FlagHasReason, InThread
  <2> QED BY <2>1, <2>2, <2>4
<1>4. CASE Join
  <2>1. EnvTypeOK' /\ Progress'
    BY <1>4 DEF Join, EnvTypeOK, Progress, Observers
  <2>2. /\ ~overlapped => /\ runningReads'["control"] = {isRunning}
                          /\ resultReads'["control"] = {result}
        /\ thread' = 0 /\ thread # 0 /\ at[thread] = "finished"
        /\ UNCHANGED <<isRunning, result, latest, at, outcome, signalled, overlapped>>
    BY <1>4 DEF Join, EnvTypeOK, Observers
  <2>3. ASSUME ~overlapped
        PROVE  (Alone /\ FlagsFollow /\ JoinerHasSeen /\ FlagHasReason)'
    <3>1. Alone /\ FlagsFollow /\ FlagHasReason /\ isRunning \in BOOLEAN
      BY <2>3 DEF LatestAlone, EnvTypeOK
    <3>2. Alone' /\ FlagsFollow' /\ FlagHasReason'
      BY <2>2, <3>1 DEF Alone, FlagsFollow, FlagHasReason, InThread
    <3>3. JoinerHasSeen'
      <4> SUFFICES ASSUME latest # 0, signalled[latest] = 1
                   PROVE  /\ runningReads'["control"] = {FALSE}
                          /\ resultReads'["control"] = {outcome[latest] = "true"}
        BY <2>2 DEF JoinerHasSeen
      <4>1. isRunning = FALSE
        BY <3>1 DEF FlagsFollow
      <4>2. result = (outcome[latest] = "true")
        BY <3>1 DEF FlagsFollow
      <4>3. runningReads'["control"] = {FALSE}
        BY <2>2, <2>3, <4>1
      <4>4. resultReads'["control"] = {outcome[latest] = "true"}
        BY <2>2, <2>3, <4>2
      <4> QED BY <4>3, <4>4
    <3> QED BY <3>2, <3>3
  <2> QED BY <2>1, <2>2, <2>3 DEF LatestAlone
<1>5. CASE AskAbort
  BY <1>5 DEF AskAbort, EnvTypeOK, Progress, LatestAlone, Alone, FlagsFollow,
         JoinerHasSeen, FlagHasReason
<1>6. ASSUME NEW o \in Observers, Arrive(o)
      PROVE  EnvInv'
  <2>1. EnvTypeOK' /\ Progress'
    BY <1>6 DEF Arrive, EnvTypeOK, Progress
  <2>2. /\ runningReads'["control"] \in {runningReads["control"], {isRunning}}
        /\ resultReads'["control"] \in {resultReads["control"], {result}}
        /\ UNCHANGED <<isRunning, result, thread, latest, at, outcome, signalled, overlapped>>
    BY <1>6 DEF Arrive, EnvTypeOK, Observers
  <2>3. ASSUME ~overlapped
        PROVE  (Alone /\ FlagsFollow /\ JoinerHasSeen /\ FlagHasReason)'
    <3>1. Alone /\ FlagsFollow /\ JoinerHasSeen /\ FlagHasReason /\ isRunning \in BOOLEAN
      BY <2>3 DEF LatestAlone, EnvTypeOK
    <3>2. Alone' /\ FlagsFollow' /\ FlagHasReason'
      BY <2>2, <3>1 DEF Alone, FlagsFollow, FlagHasReason, InThread
    <3>3. JoinerHasSeen'
      <4> SUFFICES ASSUME latest # 0, signalled[latest] = 1, thread = 0
                   PROVE  /\ runningReads'["control"] = {FALSE}
                          /\ resultReads'["control"] = {outcome[latest] = "true"}
        BY <2>2 DEF JoinerHasSeen
      <4>1. isRunning = FALSE
        BY <3>1 DEF FlagsFollow
      <4>2. result = (outcome[latest] = "true")
        BY <3>1 DEF FlagsFollow
      <4>3. {result} = {outcome[latest] = "true"}
        BY <4>2
      <4>4. runningReads["control"] = {FALSE} /\ resultReads["control"] = {outcome[latest] = "true"}
        BY <3>1 DEF JoinerHasSeen
      <4>5. runningReads'["control"] = {FALSE}
        BY <2>2, <4>1, <4>4
      <4>6. resultReads'["control"] = {outcome[latest] = "true"}
        BY <2>2, <4>3, <4>4
      <4> QED BY <4>5, <4>6
    <3> QED BY <3>2, <3>3
  <2> QED BY <2>1, <2>2, <2>3 DEF LatestAlone
<1>7. ASSUME NEW c \in Computes, Step(c)
      PROVE  EnvInv'
  <2> USE DEF EnvTypeOK, Progress
  <2>0. /\ at[c] \in InThread \cup {"sync"} /\ signalled[c] = 0
        /\ UNCHANGED <<thread, latest, overlapped>>
        /\ ~overlapped => c = latest /\ latest # 0 /\ Alone /\ FlagsFollow /\ FlagHasReason
    <3>1. /\ at[c] \in InThread \cup {"sync"}
          /\ UNCHANGED <<thread, latest, overlapped>>
      BY <1>7 DEF Step, Compute, ReturnHere, SetResult, SetNotRunning, SignalEnd, InThread
    <3>2. signalled[c] = 0 /\ c <= latest
      BY <3>1 DEF InThread
    <3>3. ~overlapped => Alone /\ FlagsFollow /\ FlagHasReason
      BY DEF LatestAlone
    <3>4. ~overlapped => c = latest /\ latest # 0
      BY <3>1, <3>2, <3>3 DEF Alone, InThread
    <3> QED BY <3>1, <3>2, <3>3, <3>4
  <2>1. CASE Compute(c)
    <3>2. EnvTypeOK' /\ Progress'
      BY <2>1 DEF Compute, Outcomes
    <3>3. /\ at' = at /\ signalled' = signalled /\ result' = result /\ isRunning' = isRunning
          /\ at[c] \in {"thread", "sync"} /\ outcome' = [outcome EXCEPT ![c] = outcome'[c]]
      BY <2>1 DEF Compute
    <3>4. ASSUME ~overlapped
          PROVE  (Alone /\ FlagsFollow /\ JoinerHasSeen /\ FlagHasReason)'
      <4>1. Alone'
        BY <2>0, <3>3, <3>4 DEF Alone, InThread
      <4>2. FlagsFollow'
        BY <2>0, <3>3, <3>4 DEF FlagsFollow, Alone, InThread
      <4>3. JoinerHasSeen'
        BY <2>0, <3>3, <3>4 DEF JoinerHasSeen, Alone, InThread
      <4>4. FlagHasReason'
        BY <2>0, <3>3, <3>4 DEF FlagHasReason, InThread
      <4> QED BY <4>1, <4>2, <4>3, <4>4
    <3> QED BY <2>0, <3>2, <3>4 DEF LatestAlone
  <2>2. CASE ReturnHere(c)
    <3>1. result' \in BOOLEAN /\ resultReads' \in [Observers -> SUBSET BOOLEAN]
      <4>1. CASE outcome[c] = "threw"
        BY <2>2, <4>1 DEF ReturnHere
      <4>2. CASE outcome[c] # "threw"
        <5>1. /\ result' = (outcome[c] = "true")
              /\ resultReads' = Stored(resultReads, outcome[c] = "true", "control")
          BY <2>2, <4>2 DEF ReturnHere, StoreResult
        <5>2. (outcome[c] = "true") \in BOOLEAN
          OBVIOUS
        <5>3. Stored(resultReads, outcome[c] = "true", "control") \in [Observers -> SUBSET BOOLEAN]
          BY <5>2, StoredReads
        <5> QED BY <5>1, <5>2, <5>3
      <4> QED BY <4>1, <4>2
    <3>2. EnvTypeOK' /\ Progress'
      BY <2>2, <3>1 DEF ReturnHere
    <3>3. /\ at[c] = "sync" /\ at' = [at EXCEPT ![c] = "finished"] /\ signalled' = signalled
          /\ isRunning' = isRunning
      BY <2>2, <3>1 DEF ReturnHere
    <3>4. ASSUME ~overlapped
          PROVE  (Alone /\ FlagsFollow /\ JoinerHasSeen /\ FlagHasReason)'
      <4>1. Alone'
        BY <2>0, <3>3, <3>4 DEF Alone, InThread
      <4>2. FlagsFollow'
        BY <2>0, <3>3, <3>4 DEF FlagsFollow, Alone, InThread
      <4>3. JoinerHasSeen'
        BY <2>0, <3>3, <3>4 DEF JoinerHasSeen, Alone, InThread
      <4>4. FlagHasReason'
        BY <2>0, <3>3, <3>4 DEF FlagHasReason, InThread
      <4> QED BY <4>1, <4>2, <4>3, <4>4
    <3> QED BY <2>0, <3>2, <3>4 DEF LatestAlone
  <2>3. CASE SetResult(c)
    <3>1. result' = (outcome[c] = "true") /\ resultReads' \in [Observers -> SUBSET BOOLEAN]
      BY <2>3, StoredReads DEF SetResult, StoreResult
    <3>2. EnvTypeOK' /\ Progress'
      BY <2>3, <3>1 DEF SetResult
    <3>3. /\ at[c] = "thread" /\ at' = [at EXCEPT ![c] = "resultSet"] /\ signalled' = signalled
          /\ isRunning' = isRunning /\ outcome' = outcome /\ result' = (outcome[c] = "true")
      BY <2>3, <3>1 DEF SetResult
    <3>4. ASSUME ~overlapped
          PROVE  (Alone /\ FlagsFollow /\ JoinerHasSeen /\ FlagHasReason)'
      <4>1. Alone'
        BY <2>0, <3>3, <3>4 DEF Alone, InThread
      <4>2. FlagsFollow'
        BY <2>0, <3>3, <3>4 DEF FlagsFollow, Alone, InThread
      <4>3. JoinerHasSeen'
        BY <2>0, <3>3, <3>4 DEF JoinerHasSeen, Alone, InThread
      <4>4. FlagHasReason'
        BY <2>0, <3>3, <3>4 DEF FlagHasReason, InThread
      <4> QED BY <4>1, <4>2, <4>3, <4>4
    <3> QED BY <2>0, <3>2, <3>4 DEF LatestAlone
  <2>4. CASE SetNotRunning(c)
    <3>1. isRunning' = FALSE /\ runningReads' \in [Observers -> SUBSET BOOLEAN]
      BY <2>4, StoredReads DEF SetNotRunning, StoreRunning
    <3>2. EnvTypeOK' /\ Progress'
      BY <2>4, <3>1 DEF SetNotRunning
    <3>3. /\ at[c] = "resultSet" /\ at' = [at EXCEPT ![c] = "notRunning"] /\ signalled' = signalled
          /\ isRunning' = FALSE /\ outcome' = outcome /\ result' = result
      BY <2>4, <3>1 DEF SetNotRunning
    <3>4. ASSUME ~overlapped
          PROVE  (Alone /\ FlagsFollow /\ JoinerHasSeen /\ FlagHasReason)'
      <4>1. Alone'
        BY <2>0, <3>3, <3>4 DEF Alone, InThread
      <4>2. FlagsFollow'
        BY <2>0, <3>3, <3>4 DEF FlagsFollow, Alone, InThread
      <4>3. JoinerHasSeen'
        BY <2>0, <3>3, <3>4 DEF JoinerHasSeen, Alone, InThread
      <4>4. FlagHasReason'
        BY <2>0, <3>3, <3>4 DEF FlagHasReason, InThread
      <4> QED BY <4>1, <4>2, <4>3, <4>4
    <3> QED BY <2>0, <3>2, <3>4 DEF LatestAlone
  <2>5. CASE SignalEnd(c)
    <3>2. EnvTypeOK' /\ Progress'
      BY <2>5 DEF SignalEnd
    <3>3. /\ at[c] = "notRunning" /\ at' = [at EXCEPT ![c] = "finished"]
          /\ signalled' = [signalled EXCEPT ![c] = @ + 1]
          /\ isRunning' = isRunning /\ outcome' = outcome /\ result' = result
      BY <2>5 DEF SignalEnd
    <3>4. ASSUME ~overlapped
          PROVE  (Alone /\ FlagsFollow /\ JoinerHasSeen /\ FlagHasReason)'
      <4>1. Alone'
        BY <2>0, <3>3, <3>4 DEF Alone, InThread
      <4>2. FlagsFollow'
        BY <2>0, <3>3, <3>4 DEF FlagsFollow, Alone, InThread
      <4>3. JoinerHasSeen'
        BY <2>0, <3>3, <3>4 DEF JoinerHasSeen, Alone, InThread
      <4>4. FlagHasReason'
        BY <2>0, <3>3, <3>4 DEF FlagHasReason, InThread
      <4> QED BY <4>1, <4>2, <4>3, <4>4
    <3> QED BY <2>0, <3>2, <3>4 DEF LatestAlone
  <2> QED BY <1>7, <2>1, <2>2, <2>3, <2>4, <2>5 DEF Step
<1>8. CASE UNCHANGED envVars
  BY <1>8 DEF envVars, EnvTypeOK, Progress, LatestAlone, Alone, FlagsFollow,
                  JoinerHasSeen, FlagHasReason
<1> QED
  BY <1>1, <1>2, <1>3, <1>4, <1>5, <1>6, <1>7, <1>8 DEF EnvNext

(* EnvInv holds of every state of the environment. *)
THEOREM EnvInvariant == EnvSpec => []EnvInv
  BY InitEnv, EnvStep, PTL DEF EnvSpec

(* The types of the environment's state: signalEnd is emitted once at most *)
(* for a compute.                                                          *)
THEOREM EnvTypes == EnvSpec => []EnvTypeOK
  BY EnvInvariant, PTL DEF EnvInv

(* Who is told of the end reads the result: the slots of signalEnd, in the *)
(* thread that stored it, and the thread that has joined, whatever the     *)
(* relaxed flags let it read before; computes that overlap set aside.      *)
THEOREM EndIsEnough == EnvSpec => []EndTellsResult
<1>1. EnvInv => EndTellsResult
  BY DEF EnvInv, LatestAlone, FlagsFollow, JoinerHasSeen, EndTellsResult
<1> QED BY <1>1, EnvInvariant, PTL

(* Once joined, nothing goes on: the flag is down and signalEnd emitted,   *)
(* where computes do not overlap and their threads could be created.       *)
THEOREM JoinIsEnough == EnvSpec => []JoinedMeansOver
<1>1. EnvInv => JoinedMeansOver
  BY EnvAssumption DEF EnvInv, EnvTypeOK, Progress, LatestAlone, Alone, FlagsFollow,
         JoinerHasSeen, FlagHasReason, InThread, JoinedMeansOver,
     ControlFree, GoingOn, Computes
<1> QED BY <1>1, EnvInvariant, PTL

=============================================================================
