------------------------------ MODULE TimeSetup ------------------------------
(***************************************************************************)
(* Time in the process graph.  ProcessGraph::setup gives each node its     *)
(* time domain (visitor TimeDomain) and computeTimeRange the ranges to     *)
(* render.  For each frame setupAtTime finds the times at which each node  *)
(* is needed (visitor DeployTime) and builds the graph at time, one vertex *)
(* for each node and time, which FrameRender.tla renders.                  *)
(*                                                                         *)
(* A plugin is asked for the frames it needs of each clip; the answer is   *)
(* abstracted to a set of offsets for each edge, {0} when it has no        *)
(* temporal clip access or does not answer.  It may also give its time     *)
(* domain.  Both calls may throw.  Of the edges into one clip, one links   *)
(* it to the clip it reads (ClipSetup.tla).                                *)
(***************************************************************************)
EXTENDS DepthFirst, Integers, FiniteSetsExt

CONSTANTS
  Graphs,    \* the render graphs: vertices, edges, linked, offsets, answer
  Requests,  \* the options: a begin and an end, and explicit time ranges
  NoAnswer,  \* the plugin leaves the time domain to the host
  IntMin, IntMax,  \* the bounds of int: no begin, no end, infinite domains
  MaxFrames  \* bound: frames set up

ASSUME TimeAssumption ==
  /\ IntMin \in Int /\ IntMax \in Int /\ IntMin < 0 /\ 0 < IntMax
  /\ MaxFrames \in Nat
  /\ \A g \in Graphs :
       /\ IsGraph(g) /\ g.vertices \subseteq Int
       /\ IsFiniteSet(g.vertices) /\ IsFiniteSet(g.edges)
       /\ Output \in g.vertices /\ \A e \in g.edges : e.out < Output
       /\ \A v \in g.vertices : v <= Output
       /\ g.linked \subseteq g.edges
       /\ \A e \in g.edges : \E f \in g.linked : f.in = e.in /\ f.clip = e.clip
       /\ \A e, f \in g.linked : e.in = f.in /\ e.clip = f.clip => e = f
       /\ g.offsets \in [g.edges -> SUBSET Int]
       /\ \A e \in g.edges : IsFiniteSet(g.offsets[e])
       /\ g.answer \in [g.vertices -> [min : Int, max : Int] \cup {NoAnswer}]
  /\ \A r \in Requests :
       /\ r.begin \in Int /\ r.end \in Int /\ r.ranges \subseteq [min : Int, max : Int]
       /\ IntMin <= r.begin /\ r.end <= IntMax

VARIABLES
  request,   \* ComputeOptions: _begin, _end, _timeRanges
  pc,        \* where setup and setupAtTime are
  domain,    \* ProcessVertexData::_timeDomain
  ranges,    \* the ranges of computeTimeRange
  time,      \* the frame set up
  times,     \* ProcessVertexData::_times
  needed,    \* ProcessEdge::_timesNeeded, as pairs (time of in, time of out)
  atVertices, atEdges,  \* _renderGraphAtTime
  frames     \* bound: the number of frames set up

domainVars == <<domain, ranges>>
deployVars == <<time, times, needed>>
atTimeVars == <<atVertices, atEdges>>
vars == <<graph, request, pc, visitVars, domainVars, deployVars, atTimeVars, frames>>

Outputs == {e.out : e \in Needs(Output)}

Infinite == [min |-> IntMin, max |-> IntMax]

Init ==
  /\ graph \in Graphs /\ request \in Requests
  /\ pc = "domain"
  /\ stack = <<Output>>
  /\ color = [v \in graph.vertices |-> IF v = Output THEN "gray" ELSE "white"]
  /\ domain = [v \in graph.vertices |-> Infinite]
  /\ ranges = {}
  /\ time = 0
  /\ times = [v \in graph.vertices |-> {}]
  /\ needed = [e \in graph.edges |-> {}]
  /\ atVertices = {} /\ atEdges = {}
  /\ frames = 0

-----------------------------------------------------------------------------
(* The time domain.                                                        *)

(* The edges that link the input clips of v. *)
Links(v) == Needs(v) \cap graph.linked

(* getDefaultTimeDomain: the hull of the domains of the nodes that the     *)
(* input clips are linked to.                                              *)
DefaultTimeDomain(v) ==
  LET inputs == {domain[e.out] : e \in Links(v)}
  IN  IF inputs = {} THEN Infinite
      ELSE [min |-> Min({d.min : d \in inputs}), max |-> Max({d.max : d \in inputs})]

ComputeTimeDomain(v) ==
  IF graph.answer[v] = NoAnswer THEN DefaultTimeDomain(v) ELSE graph.answer[v]

DiscoverForDomain(w) ==
  /\ pc = "domain"
  /\ Discover(w)
  /\ UNCHANGED <<graph, request, pc, domainVars, deployVars, atTimeVars, frames>>

FinishForDomain(v) ==
  /\ pc = "domain"
  /\ Finish(v)
  /\ domain' = IF v = Output THEN domain ELSE [domain EXCEPT ![v] = ComputeTimeDomain(v)]
  /\ UNCHANGED <<graph, request, pc, ranges, deployVars, atTimeVars, frames>>

(* What computeTimeRange makes of the domain of an output node. *)
ClampedLate(d) ==  \* mutant: infinity is replaced before the options are read
  LET from == IF d.min <= IntMin THEN 0 ELSE d.min
      to   == IF d.max >= IntMax THEN 0 ELSE d.max
  IN  [min |-> IF request.begin # IntMin /\ from < request.begin THEN request.begin ELSE from,
       max |-> to]

Clamped(d) ==
  LET from == IF request.begin # IntMin /\ d.min < request.begin THEN request.begin ELSE d.min
      to   == IF request.end # IntMax /\ d.max > request.end THEN request.end ELSE d.max
  IN  [min |-> IF from <= IntMin THEN 0 ELSE from,
       max |-> IF to >= IntMax THEN 0 ELSE to]

ComputeTimeRange ==
  /\ pc = "domain" /\ Over
  /\ ranges' = IF request.ranges # {} THEN request.ranges
               ELSE {Clamped(domain[v]) : v \in Outputs}
  /\ pc' = "ready"
  /\ UNCHANGED <<graph, request, visitVars, domain, deployVars, atTimeVars, frames>>

-----------------------------------------------------------------------------
(* The times of one frame.                                                 *)

TimesNeeded(e, t) == {t + o : o \in graph.offsets[e]}

(* The output vertex needs its inputs at the time of the frame. *)
AsksFor(e, t) == IF e.in = Output THEN {t} ELSE TimesNeeded(e, t)

(* What the discovery of w by DeployTime adds to its edges. *)
Declare(w, ts) ==
  [e \in graph.edges |-> IF e.in = w THEN UNION {{t} \X TimesNeeded(e, t) : t \in ts}
                         ELSE needed[e]]

(* The constructor of DeployTime clears what the last frame has left, and  *)
(* the output vertex is discovered.                                        *)
StartFrameUncleared(t) ==  \* mutant: the times of the last frame remain
  /\ pc = "ready" /\ frames < MaxFrames
  /\ \E r \in ranges : t \in r.min .. r.max
  /\ time' = t /\ frames' = frames + 1
  /\ pc' = "deploy"
  /\ Start(Output)
  /\ times' = [times EXCEPT ![Output] = @ \cup {t}]
  /\ needed' = [e \in graph.edges |-> IF e.in = Output THEN needed[e] \cup {<<t, t>>} ELSE needed[e]]
  /\ UNCHANGED <<graph, request, domainVars, atTimeVars>>

StartFrame(t) ==
  /\ pc = "ready" /\ frames < MaxFrames
  /\ \E r \in ranges : t \in r.min .. r.max
  /\ time' = t /\ frames' = frames + 1
  /\ pc' = "deploy"
  /\ Start(Output)
  /\ times' = [v \in graph.vertices |-> IF v = Output THEN {t} ELSE {}]
  /\ needed' = [e \in graph.edges |-> IF e.in = Output THEN {<<t, t>>} ELSE {}]
  /\ UNCHANGED <<graph, request, domainVars, atTimeVars>>

(* The times merged into w when it is discovered. *)
TimesOfFrame(w) ==  \* mutant: a node is needed at the time of the frame
  {time}

TimesDeclared(w) == {p[2] : p \in UNION {needed[e] : e \in UsesOf(w)}}

DiscoverForDeploy(w) ==
  /\ pc = "deploy"
  /\ Discover(w)
  /\ times' = [times EXCEPT ![w] = TimesDeclared(w)]
  /\ needed' = Declare(w, TimesDeclared(w))
  /\ UNCHANGED <<graph, request, pc, domainVars, time, atTimeVars, frames>>

FinishForDeploy(v) ==
  /\ pc = "deploy"
  /\ Finish(v)
  /\ UNCHANGED <<graph, request, pc, domainVars, deployVars, atTimeVars, frames>>

(* A call of the plugin throws: nothing is rendered, or the frame is given *)
(* up and the next one may be set up.                                      *)
PluginThrows ==
  /\ pc \in {"domain", "deploy"} /\ Visiting /\ Top # Output
  /\ pc' = IF pc = "domain" THEN "failed" ELSE "ready"
  /\ UNCHANGED <<graph, request, visitVars, domainVars, deployVars, atTimeVars, frames>>

-----------------------------------------------------------------------------
(* The graph at time.                                                      *)

Deployed == UNION {{v} \X times[v] : v \in graph.vertices}

(* The descriptor of a key that is not in the graph is that of the first   *)
(* vertex: operator[] of the map of descriptors makes it.                  *)
First == CHOOSE p \in Deployed :
           \A q \in Deployed : p[1] < q[1] \/ (p[1] = q[1] /\ p[2] <= q[2])

Lookup(p) == IF p \in Deployed THEN p ELSE First

Demands == UNION {{e} \X needed[e] : e \in graph.edges}

EdgeAtTime(d) ==
  [in |-> Lookup(<<d[1].in, d[2][1]>>), clip |-> d[1].clip,
   out |-> Lookup(<<d[1].out, d[2][2]>>), time |-> d[2][2]]

EdgesAtTime == {EdgeAtTime(d) : d \in Demands}

(* addEdge refuses an edge that closes a cycle, and a second edge between  *)
(* two vertices with the same clip.                                        *)
Reached(es, n) ==
  LET reach[k \in 0 .. n] ==
        IF k = 0 THEN [p \in Deployed |-> {e.out : e \in {x \in es : x.in = p}}]
        ELSE [p \in Deployed |-> reach[k - 1][p] \cup UNION {reach[k - 1][q] : q \in reach[k - 1][p]}]
  IN  reach[n]

Refused ==
  \/ \E p \in Deployed : p \in Reached(EdgesAtTime, Cardinality(graph.vertices))[p]
  \/ \E c, d \in Demands :
       c # d /\ [EdgeAtTime(c) EXCEPT !.time = 0] = [EdgeAtTime(d) EXCEPT !.time = 0]

BuildGraph ==
  /\ pc = "deploy" /\ Over
  /\ \/ /\ ~Refused
        /\ atVertices' = Deployed /\ atEdges' = EdgesAtTime
        /\ pc' = "built"
     \/ /\ Refused
        /\ pc' = "ready"
        /\ UNCHANGED atTimeVars
  /\ UNCHANGED <<graph, request, visitVars, domainVars, deployVars, frames>>

EndFrameKeepEdges ==  \* mutant: the edges are not cleared
  /\ pc = "built"
  /\ pc' = "ready"
  /\ atVertices' = {}
  /\ UNCHANGED <<graph, request, visitVars, domainVars, deployVars, atEdges, frames>>

(* The frame is over; its graph is cleared by the next setupAtTime. *)
EndFrame ==
  /\ pc = "built"
  /\ pc' = "ready"
  /\ atVertices' = {} /\ atEdges' = {}
  /\ UNCHANGED <<graph, request, visitVars, domainVars, deployVars, frames>>

-----------------------------------------------------------------------------
Next ==
  \/ \E w \in graph.vertices :
       \/ DiscoverForDomain(w) \/ FinishForDomain(w)
       \/ DiscoverForDeploy(w) \/ FinishForDeploy(w)
  \/ ComputeTimeRange
  \/ \E r \in ranges : \E t \in r.min .. r.max : StartFrame(t)
  \/ PluginThrows \/ BuildGraph \/ EndFrame

Spec == Init /\ [][Next]_vars

-----------------------------------------------------------------------------
(* Type invariant of the time setup. *)
TypeOK ==
  /\ graph \in Graphs /\ request \in Requests
  /\ pc \in {"domain", "ready", "deploy", "built", "failed"}
  /\ stack \in Seq(graph.vertices)
  /\ color \in [graph.vertices -> {"white", "gray", "black"}]
  /\ domain \in [graph.vertices -> [min : Int, max : Int]]
  /\ ranges \subseteq [min : Int, max : Int]
  /\ time \in Int /\ frames \in 0 .. MaxFrames
  /\ times \in [graph.vertices -> SUBSET Int]
  /\ needed \in [graph.edges -> SUBSET (Int \X Int)]
  /\ atVertices \subseteq graph.vertices \X Int
  /\ \A a \in atEdges : {a.in, a.out} \subseteq atVertices /\ a.time \in Int

(* The time domain of each finished node is the plugin's, or the hull of   *)
(* those its inputs have now: TimeDomain reads no domain that another      *)
(* vertex is still to compute.                                             *)
DomainsFollowInputs ==
  pc \in {"domain", "ready"} /\ frames = 0 =>
    \A v \in graph.vertices \ {Output} :
      color[v] = "black" => domain[v] = ComputeTimeDomain(v)

(* The frames to render are the frames of the output domains that the      *)
(* options ask for.  An infinite domain stands for the frame 0 (a still    *)
(* image): the part of it beyond 0 on that side is not rendered, so that   *)
(* nothing is when the options begin after 0 and have no end, or end       *)
(* before 0 and have no begin.                                             *)
Asked(d) ==
  LET from == IF d.min <= IntMin /\ request.begin = IntMin THEN 0 ELSE d.min
      to   == IF d.max >= IntMax /\ request.end = IntMax THEN 0 ELSE d.max
  IN  (from .. to) \cap (request.begin .. request.end)

RangesObeyRequest ==
  pc = "ready" /\ request.ranges = {} =>
    UNION {r.min .. r.max : r \in ranges} = UNION {Asked(domain[v]) : v \in Outputs}

(* A vertex is deployed at a time only if a vertex that reads it was       *)
(* deployed at a time for which it asked for that time, in this frame: the *)
(* times of an earlier frame, finished or given up, leave no trace.        *)
DeployedTimesAreNeeded ==
  pc \in {"deploy", "built"} =>
    \A v \in graph.vertices : \A u \in times[v] :
      \/ v = Output /\ u = time
      \/ \E e \in UsesOf(v) : \E t \in times[e.in] : u \in AsksFor(e, t)

(* What the graph at time must be: each vertex has an edge for each frame  *)
(* of each input that its node asked for, to that frame.                   *)
EveryNeedDeployed ==
  pc = "built" =>
    \A p \in atVertices : \A e \in Needs(p[1]) : \A u \in AsksFor(e, p[2]) :
      [in |-> p, clip |-> e.clip, out |-> <<e.out, u>>, time |-> u] \in atEdges

(* DeployTime works at the discovery of a vertex, when one of those that   *)
(* read it has said what it needs.  That is enough when no other one reads *)
(* it, or when every node needs the time of the frame only.                *)
ReadOnce == \A e, f \in graph.edges : e.out = f.out => e.in = f.in
AllPlain == \A e \in graph.edges : graph.offsets[e] = {0}

NeedsDeployed == ReadOnce \/ AllPlain => EveryNeedDeployed

=============================================================================
