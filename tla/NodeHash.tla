------------------------------- MODULE NodeHash -------------------------------
(***************************************************************************)
(* The hash of each node of a graph at a frame                             *)
(* (Graph::computeGlobalHashAtTime), with which an application tells       *)
(* whether a picture it has kept is still the one the graph would render.  *)
(*                                                                         *)
(* One node has an animated parameter, edited between two computations;    *)
(* the others have a constant one.  The graph at time is given, as         *)
(* setupAtTime leaves it: identity nodes removed, inputs as the map of     *)
(* ComputeHashAtTime keeps and orders them, which depthFirstVisit finishes *)
(* before their readers.                                                   *)
(*                                                                         *)
(* Abstracted: a hash is the term it combines, so that two are equal only  *)
(* if everything combined in them is.  In the same way a picture is the    *)
(* term of all that the render of a vertex sees: a plugin may read every   *)
(* parameter it has, hashed or not.  Hash and picture are made by reads of *)
(* their own of the parameter.                                             *)
(***************************************************************************)
EXTENDS AnimatedParam

CONSTANTS
  Graphs,     \* graphs at time: [vertices, output, plugin, varying, later, evaluated,
              \* constant, inputs]
  Animated,   \* the vertices of the node whose parameter is edited
  Frames      \* the frames asked for

(* Of each vertex: its plugin, whether that is frame varying, by how much its time is
   later than the frame, whether its parameter is evaluated on change, its constant
   parameter, and its inputs: the name of a clip and the vertex it reads.  No vertex
   reads itself through others: connect refuses it. *)
ASSUME GraphAssumption ==
  /\ Frames \subseteq Int
  /\ \A g \in Graphs :
       /\ IsFiniteSet(g.vertices)
       /\ g.output \in g.vertices
       /\ g.varying \in [g.vertices -> BOOLEAN]
       /\ g.later \in [g.vertices -> Int]
       /\ g.evaluated \in [g.vertices -> BOOLEAN]
       /\ g.constant \in [g.vertices -> Values]
       /\ \A v \in g.vertices :
            \A i \in DOMAIN g.inputs[v] : g.inputs[v][i].vertex \in g.vertices
       /\ \E rank \in [g.vertices -> 1..Cardinality(g.vertices)] :
            \A v \in g.vertices :
              \A i \in DOMAIN g.inputs[v] : rank[g.inputs[v][i].vertex] < rank[v]

VARIABLES
  graph,      \* what the application has built
  kept        \* history: the last hash computed, the picture of the output, and whether
              \* the hash tells of all that this picture shows

vars == <<value, memory, size, graph, kept>>

\* What a read of the parameter of a vertex may give, in the standard case of cache
\* invalidation.
ParamsAtTime(v, time) ==
  IF v \in Animated THEN ValuesAtTime(time) ELSE {graph.constant[v]}

\* The reads of all the vertices, each at a time: by the hash, and by the render.
TimeOf(v, frame) == frame + graph.later[v]
Reads(time) ==
  {params \in [graph.vertices -> UNION {ParamsAtTime(v, time[v]) : v \in graph.vertices}] :
     \A v \in graph.vertices : params[v] \in ParamsAtTime(v, time[v])}
HashReads(frame) == Reads([v \in graph.vertices |-> frame])
RenderReads(frame) == Reads([v \in graph.vertices |-> TimeOf(v, frame)])

-----------------------------------------------------------------------------
(* getLocalHashAtTime: the plugin, the parameters evaluated on change and, of a plugin
   that is frame varying, the time. *)
LocalHashWithTime(v, frame, params) ==  \* mutant: every plugin is frame varying
  <<graph.plugin[v], {frame}, IF graph.evaluated[v] THEN {params[v]} ELSE {}>>
LocalHash(v, frame, params) ==
  <<graph.plugin[v], IF graph.varying[v] THEN {frame} ELSE {},
    IF graph.evaluated[v] THEN {params[v]} ELSE {}>>

(* ComputeHashAtTime, of the output.  Each vertex is hashed for the frame, also one
   that is needed at another time. *)
GlobalHashUnnamed(frame, params) ==  \* mutant: the names of the clips are left out
  LET hash[v \in graph.vertices] ==
        <<LocalHash(v, frame, params),
          [i \in DOMAIN graph.inputs[v] |-> hash[graph.inputs[v][i].vertex]]>>
  IN hash[graph.output]
GlobalHash(frame, params) ==
  LET hash[v \in graph.vertices] ==
        <<LocalHash(v, frame, params),
          [i \in DOMAIN graph.inputs[v] |->
             <<graph.inputs[v][i].clip, hash[graph.inputs[v][i].vertex]>>]>>
  IN hash[graph.output]

\* What the render of the output sees: each vertex at its own time.
Picture(frame, params) ==
  LET picture[v \in graph.vertices] ==
        [plugin |-> graph.plugin[v],
         time   |-> IF graph.varying[v] THEN {TimeOf(v, frame)} ELSE {},
         param  |-> params[v],
         inputs |-> [i \in DOMAIN graph.inputs[v] |->
                       [clip |-> graph.inputs[v][i].clip,
                        of   |-> picture[graph.inputs[v][i].vertex]]]]
  IN picture[graph.output]

(* The hash can tell of all that the picture of a frame shows: every parameter is
   evaluated on change; a vertex needed at another time is not frame varying; and the
   edited parameter has one value, the same at the frame and at the time of the vertex
   (after the last key a read may give anything). *)
Told(frame) ==
  \A v \in graph.vertices :
    /\ graph.evaluated[v]
    /\ graph.varying[v] => graph.later[v] = 0
    /\ v \in Animated =>
         \E x \in ValuesAtTime(frame) :
           {x} = ValuesAtTime(frame) /\ {x} = ValuesAtTime(TimeOf(v, frame))

-----------------------------------------------------------------------------
(* The application. *)

\* It edits the parameter,
EditParam ==
  /\ Edit
  /\ UNCHANGED <<graph, kept>>

\* builds another graph,
Rebuild ==
  /\ graph' \in Graphs
  /\ UNCHANGED <<paramVars, kept>>

\* or renders and keeps the picture with its hash.
Keep(frame) ==
  /\ \E h \in HashReads(frame), r \in RenderReads(frame) :
       kept' = {[hash |-> GlobalHash(frame, h), picture |-> Picture(frame, r),
                 told |-> Told(frame)]}
  /\ UNCHANGED <<paramVars, graph>>

NodeHashInit ==
  /\ Init
  /\ graph \in Graphs
  /\ kept = {}

Next == EditParam \/ Rebuild \/ \E frame \in Frames : Keep(frame)

Spec == NodeHashInit /\ [][Next]_vars

-----------------------------------------------------------------------------
(* Properties. *)

(* An equal hash means an equal picture: of two frames, of any two graphs and over any
   edits, whose hashes can tell of all they show, a picture kept under a hash is never
   taken for one of other parameters, of another graph or of another frame. *)
HashTellsPicture ==
  \A k \in kept, frame \in Frames :
    k.told /\ Told(frame) =>
      \A h \in HashReads(frame), r \in RenderReads(frame) :
        k.hash = GlobalHash(frame, h) => k.picture = Picture(frame, r)

(* Of such frames an equal picture has an equal hash: what is kept is found again when
   the edits, the connections and the frame come back to the same picture. *)
PictureTellsHash ==
  \A k \in kept, frame \in Frames :
    k.told /\ Told(frame) =>
      \A h \in HashReads(frame), r \in RenderReads(frame) :
        k.picture = Picture(frame, r) => k.hash = GlobalHash(frame, h)

(* "it only modify the timing of nodes. So if the input doesn't change over time, it
   doesn't modify the hash" (testGlobalHash.py:169): if the input does change, a shift
   modifies the hash of the same frame. *)
ShiftTold ==
  \A k \in kept, frame \in Frames :
    \A h \in HashReads(frame), r \in RenderReads(frame) :
      k.hash = GlobalHash(frame, h) => k.picture = Picture(frame, r)

=============================================================================
