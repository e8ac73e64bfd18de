----------------------------- MODULE FrameRender -----------------------------
(***************************************************************************)
(* One frame of a render: ProcessGraph::setupAtTime once the graph at time *)
(* is built (the final nodes are declared, identity nodes are bypassed,    *)
(* the connections are baked into the nodes), then processAtTime, where    *)
(* each node takes its input images from the memory cache, renders its     *)
(* output image into the cache and accounts for its future usages.         *)
(*                                                                         *)
(* A vertex is a node at a time.  Vertices are numbered as the graph       *)
(* container numbers them (vertex_descriptor), from 1; the fake output     *)
(* vertex is Output.  The graph is transposed: an edge goes from the       *)
(* vertex that needs an image (in) to the one that produces it (out), and  *)
(* time is its getOutTime().                                               *)
(*                                                                         *)
(* The memory cache is shared with the other computations of the program,  *)
(* whose allocations and clean-ups drop the images nobody declared a use   *)
(* for (MemoryPool.tla): that is the action Evict.                         *)
(***************************************************************************)
EXTENDS Integers, FiniteSetsExt

CONSTANTS
  Cases,   \* graphs at time, with what isIdentity answers for each vertex
  Output   \* the fake output vertex

(* isIdentity answers for a vertex: it is rendered, it is disabled (an     *)
(* empty clip name), or it stands for one of the vertices.                 *)
CONSTANTS Rendered, Disabled

NoTime == 0  \* the time of a default NodeAtTimeKey, at which no node is needed

Vertices(c) == DOMAIN c.node

(* What v needs images of, directly or not, along the edges es: the least  *)
(* set that contains v and the targets of its edges.                       *)
Behind(v, es) ==
  LET ends == {v} \cup {e.out : e \in es}
  IN  {w \in ends : \A S \in SUBSET ends :
                      v \in S /\ (\A e \in es : e.in \in S => e.out \in S) => w \in S}

(* A vertex is a node at a time, no vertex needs itself, and the output    *)
(* needs them all, because times are deployed from there.  addEdge has     *)
(* refused a second edge of one clip between two vertices; n is the place  *)
(* of an edge in the list of all edges.                                    *)
IsFrame(c) ==
  /\ IsFiniteSet(Vertices(c)) /\ Vertices(c) = 1 .. Cardinality(Vertices(c))
  /\ Output \notin Vertices(c)
  /\ \A v \in Vertices(c) :
       /\ c.time[v] # NoTime
       /\ c.identity[v] \in Vertices(c) \cup {Rendered, Disabled}
       /\ \A w \in Vertices(c) : c.node[v] = c.node[w] /\ c.time[v] = c.time[w] => v = w
  /\ IsFiniteSet(c.edges)
  /\ c.edges \subseteq [in : Vertices(c) \cup {Output}, clip : {e.clip : e \in c.edges},
                        out : Vertices(c), time : {c.time[v] : v \in Vertices(c)}, n : Nat]
  /\ \A e \in c.edges : e.time = c.time[e.out]
  /\ \A e, f \in c.edges :
       /\ e.in = f.in /\ e.clip = f.clip /\ e.out = f.out => e = f
       /\ e.n = f.n => e = f
       /\ e.in = Output /\ f.in = Output => e.clip = f.clip
  /\ \A e \in c.edges : e.in \notin Behind(e.out, c.edges)
  /\ \A v \in Vertices(c) : v \in Behind(Output, c.edges)

ASSUME CasesAssumption ==
  /\ Rendered # Disabled
  /\ \A c \in Cases : IsFrame(c) /\ {Rendered, Disabled} \cap Vertices(c) = {}

VARIABLES
  case,       \* the graph and the identities of this frame
  edges,      \* the edges of _renderGraphAtTime, numbered in the order of its edge list
  removed,    \* identity vertices already bypassed
  bound,      \* ProcessVertexAtTimeData::_inEdges of all vertices
  connected,  \* the node each input clip is connected to (ClipImage::_connectedClip)
  outDegree,  \* ProcessVertexAtTimeData::_outDegree
  phase,      \* where setupAtTime and processAtTime are
  current,    \* the vertex in ImageEffectNode::process, or Output
  step,       \* where process is
  toRelease,  \* its input edges not released yet
  done,       \* vertices whose process returned
  cached,     \* vertices whose output image is in the memory cache
  refs,       \* the host reference count of that image
  outCache,   \* vertices whose image was put in the caller's cache
  reads       \* history: the images each process acquired, as <<clip, vertex>>

setupVars   == <<case, edges, removed, bound, connected, outDegree>>
processVars == <<current, step, toRelease, done>>
cacheVars   == <<cached, refs, outCache>>
vars        == <<setupVars, phase, processVars, cacheVars, reads>>

V == Vertices(case)

IsIdentity(v)  == v # Output /\ case.identity[v] # Rendered
IsDisabled(v)  == v # Output /\ case.identity[v] = Disabled
InEdges(v, es) == {e \in es : e.in = v}    \* the inputs of v
OutEdges(v, es) == {e \in es : e.out = v}  \* its future usages

(* The final nodes, declared before the identities are removed. *)
Final == {e.out : e \in InEdges(Output, case.edges)}

Init ==
  /\ case \in Cases
  /\ edges = case.edges
  /\ removed = {}
  /\ bound = {} /\ connected = {} /\ outDegree = [v \in V |-> 0]
  /\ phase = "identities"
  /\ current = Output /\ step = "none" /\ toRelease = {}
  /\ done = {} /\ cached = {} /\ outCache = {}
  /\ refs = [v \in V |-> 0]
  /\ reads = [v \in V |-> {}]

-----------------------------------------------------------------------------
(* Identity nodes.                                                         *)

(* RemoveIdentityNodes throws when the clip or the time a plugin answers   *)
(* is not one of the frames it needs.                                      *)
BadIdentity(v) ==
  case.identity[v] \in V \ {e.out : e \in InEdges(v, case.edges)}

CollectIdentities ==
  /\ phase = "identities"
  /\ phase' = IF \E v \in V : BadIdentity(v) THEN "failed" ELSE "remove"
  /\ UNCHANGED <<setupVars, processVars, cacheVars, reads>>

(* The search for a non-identity source.  A disabled vertex has none: the  *)
(* default key found there gets the descriptor of the first vertex when it *)
(* is looked up, and gives its own time to the edge.                       *)
SourceNotSearched(v) ==  \* mutant: identities in a row are not followed
  [out |-> case.identity[v], time |-> case.time[case.identity[v]]]

SourceFrom[w \in V] ==
  CASE case.identity[w] = Rendered -> [out |-> w, time |-> case.time[w]]
    [] case.identity[w] = Disabled -> [out |-> 1, time |-> NoTime]
    [] OTHER -> SourceFrom[case.identity[w]]

Source(v) == SourceFrom[case.identity[v]]

(* addEdge refuses an edge that is already there and one that closes a cycle. *)
Refused(e, es) ==
  \/ \E f \in es : f.in = e.in /\ f.clip = e.clip /\ f.out = e.out
  \/ e.in \in Behind(e.out, es)

(* The edge of a user of an identity vertex, to the source instead; it is  *)
(* added at the end of the list.                                           *)
Rerouted(user, source) ==
  [in |-> user.in, clip |-> user.clip, out |-> source.out, time |-> source.time,
   n |-> Max({e.n : e \in edges}) + 1 + user.n]

(* The edges of identity vertex v are replaced by edges from its users to  *)
(* its source.  The users were recorded before any removal; the vertices   *)
(* come in the order of DFS finish, sources first.                         *)
RemoveIdentity(v) ==
  /\ phase = "remove"
  /\ IsIdentity(v) /\ v \notin removed
  /\ \A u \in Behind(v, case.edges) \ {v} : IsIdentity(u) => u \in removed
  /\ LET added == IF IsDisabled(v) THEN {}
                  ELSE {Rerouted(u, Source(v)) : u \in OutEdges(v, case.edges)}
     IN  IF \E e \in added : Refused(e, edges \cup {f \in added : f.n < e.n})
         THEN phase' = "failed" /\ UNCHANGED <<edges, removed>>
         ELSE /\ edges' = {e \in edges \cup added : e.in # v /\ e.out # v}
              /\ removed' = removed \cup {v}
              /\ UNCHANGED phase
  /\ UNCHANGED <<case, bound, connected, outDegree, processVars, cacheVars, reads>>

(* bakeGraphInformationToNodes: the out-edges of a vertex come in the      *)
(* order of their targets and the last one of a clip stays in _inEdges;    *)
(* connectClips follows the list of all edges, and connects the clip of a  *)
(* node, whatever the time.                                                *)
Bake ==
  /\ phase = "remove"
  /\ \A v \in V : IsIdentity(v) => v \in removed
  /\ LET real == {e \in edges : e.in # Output}
         clipOf(e) == <<case.node[e.in], e.clip>>
     IN  /\ outDegree' = [v \in V |-> Cardinality(OutEdges(v, edges))]
         /\ bound' = {e \in real : \A f \in InEdges(e.in, edges) : f.clip = e.clip => f.out <= e.out}
         /\ connected' = {<<clipOf(e), case.node[e.out]>> :
                            e \in {x \in real : \A f \in real : clipOf(f) = clipOf(x) => f.n <= x.n}}
  /\ phase' = "process"
  /\ UNCHANGED <<case, edges, removed, processVars, cacheVars, reads>>

-----------------------------------------------------------------------------
(* ImageEffectNode::process.                                               *)

Fail == phase' = "failed"

(* The image the cache returns for an input edge: the output of the node   *)
(* the clip is connected to, at the time of the edge, if it is there.      *)
Found(e) ==
  {w \in cached : /\ <<<<case.node[e.in], e.clip>>, case.node[w]>> \in connected
                  /\ case.time[w] = e.time}

Reachable == Behind(Output, edges) \ {Output}

(* Process::finish_vertex: every vertex the output needs, after its inputs. *)
Acquire(v) ==
  /\ phase = "process" /\ current = Output
  /\ v \in Reachable \ done
  /\ \A e \in InEdges(v, edges) : e.out \in done
  /\ LET ins == InEdges(v, bound)
     IN  IF \E e \in ins : Found(e) = {}
         THEN Fail /\ UNCHANGED <<processVars, reads>>
         ELSE /\ current' = v /\ step' = "allocate" /\ toRelease' = ins
              /\ reads' = [reads EXCEPT ![v] = UNION {{e.clip} \X Found(e) : e \in ins}]
              /\ UNCHANGED <<phase, done>>
  /\ UNCHANGED <<setupVars, cacheVars>>

(* A new image, with no references, replaces one left under the same key. *)
AllocateAndPut ==
  /\ phase = "process" /\ step = "allocate"
  /\ \/ /\ cached' = cached \cup {current}
        /\ refs' = [refs EXCEPT ![current] = 0]
        /\ step' = "render"
        /\ UNCHANGED phase
     \/ Fail /\ UNCHANGED <<step, cached, refs>>
  /\ UNCHANGED <<setupVars, current, toRelease, done, outCache, reads>>

(* renderAction, the plugin's code. *)
Render ==
  /\ phase = "process" /\ step = "render"
  /\ \/ step' = "release" /\ UNCHANGED phase
     \/ Fail /\ UNCHANGED step
  /\ UNCHANGED <<setupVars, current, toRelease, done, cacheVars, reads>>

ReleaseInputUnchecked(e) ==  \* mutant: a release below zero is not noticed
  /\ phase = "process" /\ step = "release" /\ e \in toRelease
  /\ IF Found(e) = {} THEN Fail /\ UNCHANGED <<toRelease, refs>>
     ELSE /\ refs' = [w \in V |-> IF w \in Found(e) THEN refs[w] - 1 ELSE refs[w]]
          /\ toRelease' = toRelease \ {e}
          /\ UNCHANGED phase
  /\ UNCHANGED <<setupVars, current, step, done, cached, outCache, reads>>

(* releaseReference throws when there is nothing to release; the count of  *)
(* -1 it leaves behind keeps the image no more than a count of 0.          *)
ReleaseInput(e) ==
  /\ phase = "process" /\ step = "release" /\ e \in toRelease
  /\ IF Found(e) = {} \/ \E w \in Found(e) : refs[w] = 0
     THEN Fail /\ UNCHANGED <<toRelease, refs>>
     ELSE /\ refs' = [w \in V |-> IF w \in Found(e) THEN refs[w] - 1 ELSE refs[w]]
          /\ toRelease' = toRelease \ {e}
          /\ UNCHANGED phase
  /\ UNCHANGED <<setupVars, current, step, done, cached, outCache, reads>>

(* The edge from the output is no usage of a final node's image. *)
RealOutDegreeOfAll(v) == outDegree[v]  \* mutant: final nodes count the fake output

RealOutDegree(v) == outDegree[v] - (IF v \in Final THEN 1 ELSE 0)

DeclareUsages ==
  /\ phase = "process" /\ step = "release" /\ toRelease = {}
  /\ IF current \notin cached THEN Fail /\ UNCHANGED <<step, refs>>
     ELSE /\ refs' = [refs EXCEPT ![current] = @ + RealOutDegree(current)]
          /\ step' = "deliver"
          /\ UNCHANGED phase
  /\ UNCHANGED <<setupVars, current, toRelease, done, cached, outCache, reads>>

(* Process::finish_vertex, with returnBuffers, keeps the final images. *)
DeliverOthers ==  \* mutant: images that other vertices use are not delivered
  /\ phase = "process" /\ step = "deliver"
  /\ outCache' = outCache \cup ({current} \cap (Final \ {v \in V : refs[v] > 0}))
  /\ done' = done \cup {current} /\ current' = Output /\ step' = "none"
  /\ UNCHANGED <<setupVars, phase, toRelease, cached, refs, reads>>

Deliver ==
  /\ phase = "process" /\ step = "deliver"
  /\ IF current \in Final /\ current \notin cached
     THEN Fail /\ UNCHANGED <<current, step, done, outCache>>
     ELSE /\ outCache' = outCache \cup ({current} \cap Final)
          /\ done' = done \cup {current} /\ current' = Output /\ step' = "none"
          /\ UNCHANGED phase
  /\ UNCHANGED <<setupVars, toRelease, cached, refs, reads>>

(* Another computation, or an allocation, drops an image without references. *)
EvictAny(v) ==  \* mutant: references do not protect an image
  /\ v \in cached /\ phase = "process"
  /\ cached' = cached \ {v} /\ refs' = [refs EXCEPT ![v] = 0]
  /\ UNCHANGED <<setupVars, phase, processVars, outCache, reads>>

Evict(v) ==
  /\ v \in cached /\ refs[v] < 1 /\ phase = "process"
  /\ cached' = cached \ {v}
  /\ UNCHANGED <<setupVars, phase, processVars, refs, outCache, reads>>

(* The end of processAtTime: _internMemoryCache.clearUnused(). *)
EndFrame ==
  /\ phase = "process" /\ current = Output /\ Reachable \subseteq done
  /\ cached' = {v \in cached : refs[v] >= 1}
  /\ phase' = "done"
  /\ UNCHANGED <<setupVars, processVars, refs, outCache, reads>>

(* ProcessGraph::process after an exception, unless it continues on errors. *)
ClearAfterError ==
  /\ phase = "failed"
  /\ cached' = {v \in cached : refs[v] >= 1}
  /\ phase' = "cleared"
  /\ UNCHANGED <<setupVars, processVars, refs, outCache, reads>>

Next ==
  \/ CollectIdentities \/ Bake
  \/ AllocateAndPut \/ Render \/ DeclareUsages \/ Deliver
  \/ EndFrame \/ ClearAfterError
  \/ \E v \in V : RemoveIdentity(v)
  \/ \E v \in V : Acquire(v)
  \/ \E v \in V : Evict(v)
  \/ \E e \in toRelease : ReleaseInput(e)

Spec == Init /\ [][Next]_vars

-----------------------------------------------------------------------------
TypeOK ==
  /\ \A e \in edges : /\ e.in \in V \cup {Output} /\ e.out \in V
                     /\ e.time \in {NoTime, case.time[e.out]}
                     /\ \E u \in case.edges : e.in = u.in /\ e.clip = u.clip
  /\ removed \subseteq V /\ bound \subseteq edges
  /\ outDegree \in [V -> 0 .. Cardinality(edges)]
  /\ phase \in {"identities", "remove", "process", "done", "failed", "cleared"}
  /\ current \in V \cup {Output}
  /\ step \in {"none", "allocate", "render", "release", "deliver"}
  /\ toRelease \subseteq bound
  /\ done \subseteq V /\ cached \subseteq V /\ outCache \subseteq V
  /\ refs \in [V -> Nat]
  /\ reads \in [V -> SUBSET ({e.clip : e \in case.edges} \X V)]

(* The vertices whose future usages have been declared. *)
Declared == done \cup (IF step = "deliver" THEN {current} ELSE {})

(* The input edges whose image has been released. *)
Released ==
  {e \in bound : e.in \in done \/ (e.in = current /\ step \in {"release", "deliver"})} \ toRelease

(* The clips of the graph keep one node each: an input clip of a node has  *)
(* the same source node at all times and in all its frames.                *)
OneSourceNode ==
  \A e, f \in edges :
    e.in # Output /\ f.in # Output /\ e.clip = f.clip /\ case.node[e.in] = case.node[f.in]
      => case.node[e.out] = case.node[f.out]

(* The vertices that still have to read the image of v, one per edge.  An  *)
(* edge that names no time, as for a disabled source, never finds one.     *)
Readers(v) ==
  {e \in bound \ Released : e.out = v /\ e.time = case.time[v] /\ e.in \in Reachable}

(* An image is kept, with a reference for each vertex that still has to    *)
(* read it, whatever other computations evict and whichever image the      *)
(* references are released for.                                            *)
PendingInputsCached ==
  phase = "process" /\ OneSourceNode =>
    \A v \in Declared : Readers(v) # {} => v \in cached /\ refs[v] >= Cardinality(Readers(v))

(* In a frame without identities whose clips need one image each, the host *)
(* references are exactly the readers to come, so that the frame ends with *)
(* every image free to be evicted.                                         *)
RefsAreReaders ==
  phase \in {"process", "done"} /\ OneSourceNode /\ bound = {e \in case.edges : e.in # Output}
    => \A v \in V : refs[v] = IF v \in Declared THEN Cardinality(Readers(v)) ELSE 0

(* What the clips of a vertex read when identities stand for their source. *)
StandsFor[w \in V] ==
  IF case.identity[w] \in V THEN StandsFor[case.identity[w]] ELSE w

DeclaredSources(v) == {<<e.clip, StandsFor[e.out]>> : e \in InEdges(v, case.edges)}

(* The plugin needs no more than one frame of each clip: no two edges of   *)
(* the vertex have the same key in _inEdges.                               *)
OneFrame(v) == \A e, f \in InEdges(v, case.edges) : e.clip = f.clip => e = f

(* A vertex whose plugin needs one frame of each clip reads these frames,  *)
(* all of them and no other, identities replaced by the image they stand   *)
(* for.  Of a clip that needs several frames one stays in _inEdges and     *)
(* hides the others; what is read of it is still one that was asked for.   *)
(* (Where clips keep one source node each and nothing is disabled.)        *)
ReadsDeclaredSources ==
  \A v \in done :
    LET clips(rs) == {r[1] : r \in rs}
    IN  OneSourceNode /\ (\A w \in V : ~IsDisabled(w)) =>
          /\ OneFrame(v) => reads[v] = DeclaredSources(v)
          /\ reads[v] \subseteq DeclaredSources(v)
          /\ clips(reads[v]) = clips(DeclaredSources(v))

(* "keep the hand on all needed datas during the process function"         *)
(* (ImageEffectNode.cpp:846): every frame the plugin needs is acquired.    *)
AllNeededRead ==
  \A v \in done : (\A w \in V : ~IsIdentity(w)) => reads[v] = DeclaredSources(v)

(* With returnBuffers a frame that succeeds delivers the image of every    *)
(* final node that is rendered.                                            *)
RenderedFinalsDelivered ==
  phase = "done" => {v \in Final : ~IsIdentity(v)} \subseteq outCache

(* "accumulate output nodes buffers into the outCache MemoryCache": the    *)
(* image of every output node is there once the frame has succeeded.       *)
OutputsDelivered ==
  phase = "done" => \A v \in Final : v \in outCache \/ IsDisabled(v)

(* The vertices the output needs, by way of nodes that are not disabled    *)
(* and of the one source an identity stands for.                           *)
Wanted ==
  LET needs(e) == e.in = Output \/ case.identity[e.in] \in {Rendered, e.out}
  IN  Behind(Output, {e \in case.edges : needs(e)})

(* A disabled node disables "the process of the node and all the graph     *)
(* branch behind": what only that branch needs is never processed.         *)
DisabledBranchStaysOut == done \subseteq Wanted

=============================================================================
