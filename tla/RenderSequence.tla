--------------------------- MODULE RenderSequence ---------------------------
(***************************************************************************)
(* ProcessGraph::process: the render of the frames of several time ranges, *)
(* with the calls that open and close the sequence on every node, errors   *)
(* and the options that continue past them, and an abort asked by another  *)
(* thread.  What one frame does is in FrameRender.tla; here a frame has    *)
(* three parts (the times are deployed, the graph at time is built, the    *)
(* nodes are processed), each of which may throw.                          *)
(***************************************************************************)
EXTENDS Integers, Sequences, FiniteSets

CONSTANTS
  Nodes,       \* the nodes of the render graph
  RangeLists,  \* the lists of time ranges a caller may ask for
  NoFrame

TimeRanges == [begin : Int, end : Int, step : Int]

ASSUME SequenceAssumption ==
  /\ IsFiniteSet(Nodes)
  /\ \A l \in RangeLists :
       /\ l \in Seq(TimeRanges) /\ l # <<>>  \* process reads timeRanges.back()
       /\ \A j \in DOMAIN l : l[j].step > 0
  /\ NoFrame \notin Nat \X Int

VARIABLES
  ranges,      \* timeRanges
  onError,     \* _options.getContinueOnError()
  onMissing,   \* _options.getContinueOnMissingFile()
  abort,       \* _options._abort, set by another thread
  pc,          \* where process is
  exit,        \* how it will end once the sequence is closed
  i, time,     \* the loop variables
  toCall,      \* the nodes beginSequence or endSequence has still to call
  opened,      \* per node, beginSequence calls less endSequence calls
  frameDepth,  \* beginFrameHandle calls less endFrameHandle calls
  graphOf,     \* the frame _renderGraphAtTime was built for, or NoFrame
  attached,    \* the frames whose data the nodes point to (INode::_dataAtTime)
  attempted,   \* history: the frames begun
  skipped,     \* history: a frame has failed and was skipped
  late,        \* history: the frames begun after abort() was called
  broken,      \* history: a node's beginSequence or endSequence has thrown
  calledOff    \* history: abort() was called before process

options == <<ranges, onError, onMissing>>
loop    == <<i, time>>
calls   == <<toCall, opened>>
data    == <<graphOf, attached>>
history == <<attempted, skipped, late, broken, calledOff>>
vars    == <<options, abort, pc, exit, loop, calls, frameDepth, data, history>>

Ended == {"true", "false", "threw"}
Exits == {"done", "abortedBefore", "abortedAfter", "threw"}
InFrame == {"deploy", "build", "render", "check"}

Range == ranges[i]
Now == <<i, time>>

(* The frames a list of ranges asks for, and their order. *)
FramesOf(l) ==
  UNION {{j} \X {t \in l[j].begin .. l[j].end : (t - l[j].begin) % l[j].step = 0} : j \in DOMAIN l}

Init ==
  /\ ranges \in RangeLists
  /\ onError \in BOOLEAN /\ onMissing \in BOOLEAN
  /\ abort \in BOOLEAN
  /\ pc = "setup" /\ exit = "done"
  /\ i = 1 /\ time = 0
  /\ toCall = {} /\ opened = [n \in Nodes |-> 0]
  /\ frameDepth = 0
  /\ graphOf = NoFrame /\ attached = {}
  /\ attempted = {} /\ skipped = FALSE /\ late = 0 /\ broken = FALSE
  /\ calledOff = abort

-----------------------------------------------------------------------------
(* setup and computeTimeRange; nothing has begun if they throw. *)
Setup ==
  /\ pc = "setup"
  /\ \/ pc' = "begin" /\ toCall' = Nodes
     \/ pc' = "threw" /\ UNCHANGED toCall
  /\ UNCHANGED <<options, abort, exit, loop, opened, frameDepth, data, history>>

(* beginSequence calls the nodes one by one; nobody catches what they throw. *)
BeginNode(n) ==
  /\ pc = "begin" /\ n \in toCall
  /\ \/ /\ opened' = [opened EXCEPT ![n] = @ + 1]
        /\ toCall' = toCall \ {n}
        /\ UNCHANGED <<pc, broken>>
     \/ pc' = "threw" /\ broken' = TRUE /\ UNCHANGED calls
  /\ UNCHANGED <<options, abort, exit, loop, frameDepth, data, attempted, skipped, late, calledOff>>

BeginDone ==
  /\ pc = "begin" /\ toCall = {}
  /\ pc' = "range"
  /\ UNCHANGED <<options, abort, exit, loop, calls, frameDepth, data, history>>

(* endSequence() is reached from several places; `how` is what follows it. *)
CloseSequenceOnSuccess(how) ==  \* mutant: a render that stops early closes nothing
  /\ exit' = how
  /\ toCall' = IF how = "done" THEN Nodes ELSE {}
  /\ pc' = "end"

CloseSequence(how) ==
  /\ exit' = how
  /\ toCall' = Nodes
  /\ pc' = "end"

NextRange ==
  /\ pc = "range" /\ i \in DOMAIN ranges
  /\ \/ abort /\ CloseSequence("abortedBefore") /\ UNCHANGED time
     \/ ~abort /\ pc' = "loop" /\ time' = Range.begin /\ UNCHANGED <<exit, toCall>>
  /\ UNCHANGED <<options, abort, i, opened, frameDepth, data, history>>

LastRangeDone ==
  /\ pc = "range" /\ i \notin DOMAIN ranges
  /\ CloseSequence("done")
  /\ UNCHANGED <<options, abort, loop, opened, frameDepth, data, history>>

(* The condition of the loop over time. *)
InRange == time <= Range.end

BeginFrame ==
  /\ pc = "loop" /\ InRange
  /\ frameDepth' = frameDepth + 1
  /\ attempted' = attempted \cup {Now}
  /\ late' = IF abort THEN late + 1 ELSE late
  /\ pc' = "deploy"
  /\ UNCHANGED <<options, abort, exit, loop, calls, data, skipped, broken, calledOff>>

RangeDone ==
  /\ pc = "loop" /\ ~InRange
  /\ i' = i + 1
  /\ pc' = "range"
  /\ UNCHANGED <<options, abort, exit, time, calls, frameDepth, data, history>>

-----------------------------------------------------------------------------
(* The frame.  Its exceptions are of two kinds: FileInSequenceNotExist     *)
(* ("missing") and any other.                                              *)

Continues(kind) == onError \/ (kind = "missing" /\ onMissing)

CatchKeepFrame(kind) ==  \* mutant: an error leaves the frame open
  \/ /\ Continues(kind) /\ pc' = "check" /\ skipped' = TRUE
     /\ UNCHANGED <<exit, toCall, frameDepth>>
  \/ /\ ~Continues(kind) /\ CloseSequence("threw") /\ UNCHANGED <<frameDepth, skipped>>

Catch(kind) ==
  \/ /\ Continues(kind)
     /\ pc' = "check"
     /\ skipped' = TRUE
     /\ UNCHANGED <<exit, toCall, frameDepth>>
  \/ /\ ~Continues(kind)
     /\ frameDepth' = frameDepth - 1
     /\ CloseSequence("threw")
     /\ UNCHANGED skipped

FrameThrows(kind) ==
  /\ pc \in {"deploy", "build", "render"}
  /\ Catch(kind)
  /\ UNCHANGED <<options, abort, loop, opened, data, attempted, late, broken, calledOff>>

(* DeployTime asks the plugins for the times they need. *)
DeployTimes ==
  /\ pc = "deploy"
  /\ pc' = "build"
  /\ UNCHANGED <<options, abort, exit, loop, calls, frameDepth, data, history>>

(* _renderGraphAtTime.clear(), then the new graph, and setProcessDataAtTime *)
(* on its nodes; identities and preprocess come after.                      *)
BuildGraph ==
  /\ pc = "build"
  /\ graphOf' = Now
  /\ attached' = attached \cup {Now}
  /\ pc' = "render"
  /\ UNCHANGED <<options, abort, exit, loop, calls, frameDepth, history>>

ProcessAtTimeKeepData ==  \* mutant: the nodes keep their data at time
  /\ pc = "render"
  /\ pc' = "check"
  /\ UNCHANGED <<options, abort, exit, loop, calls, frameDepth, data, history>>

(* processAtTime: the nodes forget their data at time (clearProcessDataAtTime). *)
ProcessAtTime ==
  /\ pc = "render"
  /\ attached' = {}
  /\ pc' = "check"
  /\ UNCHANGED <<options, abort, exit, loop, calls, frameDepth, graphOf, history>>

NextTimeStays == time  \* mutant: the loop does not advance

NextTime == time + Range.step

(* After the frame, even one that was skipped. *)
AbortedAfterFrame ==
  /\ pc = "check" /\ abort
  /\ frameDepth' = frameDepth - 1
  /\ CloseSequence("abortedAfter")
  /\ UNCHANGED <<options, abort, loop, opened, data, history>>

EndFrameNeverAborts ==  \* mutant: the abort is only looked at before a range
  /\ pc = "check"
  /\ frameDepth' = frameDepth - 1
  /\ time' = NextTime
  /\ pc' = "loop"
  /\ UNCHANGED <<options, abort, exit, i, calls, data, history>>

EndFrame ==
  /\ pc = "check" /\ ~abort
  /\ frameDepth' = frameDepth - 1
  /\ time' = NextTime
  /\ pc' = "loop"
  /\ UNCHANGED <<options, abort, exit, i, calls, data, history>>

-----------------------------------------------------------------------------
EndNodeTwice(n) ==  \* mutant: a node that throws is called again
  /\ pc = "end" /\ n \in toCall
  /\ opened' = [opened EXCEPT ![n] = @ - 1]
  /\ \/ toCall' = toCall \ {n} /\ UNCHANGED <<pc, broken>>
     \/ UNCHANGED <<toCall, pc, broken>>
  /\ UNCHANGED <<options, abort, exit, loop, frameDepth, data, attempted, skipped, late, calledOff>>

(* endSequence calls the nodes one by one; what one throws leaves process. *)
EndNode(n) ==
  /\ pc = "end" /\ n \in toCall
  /\ opened' = [opened EXCEPT ![n] = @ - 1]
  /\ \/ toCall' = toCall \ {n} /\ UNCHANGED <<pc, broken>>
     \/ pc' = "threw" /\ broken' = TRUE /\ UNCHANGED toCall
  /\ UNCHANGED <<options, abort, exit, loop, frameDepth, data, attempted, skipped, late, calledOff>>

(* The graph at time is cleared after an error or an abort in a frame, then *)
(* process returns or throws again.                                         *)
Leave ==
  /\ pc = "end" /\ toCall = {}
  /\ graphOf' = IF exit \in {"threw", "abortedAfter"} THEN NoFrame ELSE graphOf
  /\ pc' = CASE exit = "done" -> "true"
             [] exit = "threw" -> "threw"
             [] OTHER -> "false"
  /\ UNCHANGED <<options, abort, exit, loop, calls, frameDepth, attached, history>>

(* Another thread. *)
Abort ==
  /\ ~abort
  /\ abort' = TRUE
  /\ UNCHANGED <<options, pc, exit, loop, calls, frameDepth, data, history>>

ProcessStep ==
  \/ Setup \/ BeginDone \/ NextRange \/ LastRangeDone \/ BeginFrame \/ RangeDone
  \/ DeployTimes \/ BuildGraph \/ ProcessAtTime \/ AbortedAfterFrame \/ EndFrame
  \/ Leave
  \/ \E n \in Nodes : BeginNode(n)
  \/ \E n \in Nodes : EndNode(n)
  \/ \E kind \in {"missing", "other"} : FrameThrows(kind)

Next == ProcessStep \/ Abort

(* The thread that renders goes on, and the plugins return. *)
Spec == Init /\ [][Next]_vars /\ WF_vars(ProcessStep)

-----------------------------------------------------------------------------
TypeOK ==
  /\ ranges \in RangeLists
  /\ onError \in BOOLEAN /\ onMissing \in BOOLEAN /\ abort \in BOOLEAN
  /\ pc \in {"setup", "begin", "range", "loop", "end"} \cup InFrame \cup Ended
  /\ exit \in Exits
  /\ i \in Nat /\ time \in Int
  /\ toCall \subseteq Nodes /\ opened \in [Nodes -> 0 .. 1]
  /\ frameDepth \in 0 .. 1
  /\ graphOf \in (Nat \X Int) \cup {NoFrame}
  /\ attached \subseteq Nat \X Int
  /\ attempted \subseteq Nat \X Int
  /\ late \in 0 .. 1 /\ skipped \in BOOLEAN /\ broken \in BOOLEAN /\ calledOff \in BOOLEAN

(* When process ends, by whichever of its ways, every node whose           *)
(* beginSequence returned has had its endSequence, unless one of these     *)
(* calls has itself thrown.                                                *)
SequencesClosed == pc \in Ended /\ ~broken => \A n \in Nodes : opened[n] = 0

(* The progress handle sees one endFrame for each beginFrame, before the   *)
(* sequence ends and before the next frame begins.                         *)
FramesClosed == frameDepth = IF pc \in InFrame THEN 1 ELSE 0

(* Plugin code runs while the nodes point to data of the graph that exists *)
(* (getProjectSize reads it), as long as no failed frame was skipped.      *)
NodeDataAlive ==
  pc \notin Ended /\ ~skipped => attached \subseteq {graphOf}

(* Frames end in finite time, so the render does: an abort is obeyed.      *)
Terminates == <>(pc \in Ended)

(* process keeps its promise. *)
Promise == INSTANCE SequencePromise WITH
  Frame <- Nat \X Int,
  Before <- LAMBDA f, g : f[1] < g[1] \/ (f[1] = g[1] /\ f[2] < g[2]),
  asked <- FramesOf(ranges),
  outcome <- IF pc \in Ended THEN pc ELSE "running"

KeepsPromise == Promise!PromiseSpec

=============================================================================
