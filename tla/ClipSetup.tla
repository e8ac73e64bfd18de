------------------------------ MODULE ClipSetup ------------------------------
(***************************************************************************)
(* How the clips of the process graph get their bit depth and components   *)
(* (ProcessGraph::setup).  The clips are connected along the edges, then   *)
(* three visits negotiate: Setup1 asks each plugin for its preferences and *)
(* carries depths from the readers to the writers, when a vertex is        *)
(* finished; Setup2 carries them back, when it is discovered; Setup3 goes  *)
(* forward again and throws if a connection does not agree.                *)
(*                                                                         *)
(* The nodes are those of the user graph, not copies                       *)
(* (PROCESSGRAPH_USE_LINK): a clip keeps its connection from one compute   *)
(* to the next, whatever the application does to the graph in between.     *)
(* Frame rate, pixel aspect ratio and premultiplication, which are only    *)
(* copied, are left out; plugins prefer a depth and components for their   *)
(* output clip, as those of the repository do.                             *)
(***************************************************************************)
EXTENDS DepthFirst, Integers, FiniteSetsExt

CONSTANTS
  Nodes,       \* the nodes an application has made
  ClipNames,   \* the names of the input clips
  Nobody,      \* an input clip that was never connected
  ClipGraphs,  \* the render graphs of the computes, what nobody reads removed
  Kinds,       \* what each node supports, needs and prefers
  MaxComputes  \* bound: computes

(* The values of EBitDepth, and the number of components. *)
NoDepth == -1
Byte    == 1
Short   == 2
Float   == 4
RealDepths == {Byte, Short, Float}
Depths     == RealDepths \cup {NoDepth}

NoComponents == 0
RealComponents == {1, 3, 4}
Components == RealComponents \cup {NoComponents}

ASSUME ClipAssumption ==
  /\ MaxComputes \in Nat /\ IsFiniteSet(Nodes) /\ Output \notin Nodes /\ Nobody \notin Nodes
  /\ \A g \in ClipGraphs :
       /\ IsGraph(g) /\ Output \in g.vertices /\ g.vertices \subseteq Nodes \cup {Output}
       /\ \A e \in g.edges : e.out \in Nodes /\ (e.in = Output \/ e.clip \in ClipNames)
       /\ \A v \in g.vertices \ {Output} : \E e \in g.edges : e.out = v
  /\ \A k \in Kinds : \A v \in Nodes :
       /\ k[v].depths \subseteq RealDepths /\ k[v].depths # {}
       /\ k[v].multi \in BOOLEAN
       /\ k[v].depth \in k[v].depths \cup {NoDepth}
       /\ k[v].ins \subseteq RealComponents /\ k[v].outs \subseteq RealComponents
       /\ k[v].comps \in k[v].outs \cup {NoComponents}
       /\ k[v].mandatory \subseteq ClipNames

Clips == Nodes \X ClipNames

VARIABLES
  kind,      \* depths: supported; multi: several depths at once; depth, comps: its
             \* preference or none; ins, outs: components of its clips; mandatory: clips
  exists,    \* the nodes that the application has not deleted
  link,      \* ClipImage::_connectedClip, by the node that owns the other clip
  phase,     \* where setup is
  inDepth, inComps,    \* the properties of the input clips
  outDepth, outComps,  \* those of the output clips
  byPlugin,  \* the depth of the output clip is modified by the plugin
  computes   \* bound: the number of computes

compsVars == <<inComps, outComps>>
depthVars == <<inDepth, outDepth, byPlugin>>
nodeVars  == <<kind, exists, link>>
clipVars == <<graph, visitVars, nodeVars, phase, compsVars, depthVars, computes>>

ClipInit ==
  /\ graph = [vertices |-> {Output}, edges |-> {}]
  /\ stack = <<>> /\ color = [v \in {Output} |-> "black"]
  /\ kind \in Kinds /\ exists = Nodes
  /\ link = [c \in Clips |-> Nobody]
  /\ phase = "idle"
  /\ inDepth = [c \in Clips |-> NoDepth] /\ outDepth = [v \in Nodes |-> NoDepth]
  /\ inComps = [c \in Clips |-> NoComponents] /\ outComps = [v \in Nodes |-> NoComponents]
  /\ byPlugin = [v \in Nodes |-> FALSE]
  /\ computes = 0

-----------------------------------------------------------------------------
(* What the application and connectClips do.                               *)

EditAny(g, deleted) ==  \* mutant: the deleted nodes stay in the graph
  /\ phase \in {"idle", "done", "rendered", "failed"} /\ computes < MaxComputes
  /\ exists' = exists \ deleted
  /\ graph' = g
  /\ stack' = <<>> /\ color' = [v \in g.vertices |-> "white"]
  /\ phase' = "edited" /\ computes' = computes + 1
  /\ UNCHANGED <<kind, link, compsVars, depthVars>>

(* Nodes are deleted, connections are edited, and the next compute copies  *)
(* the graph.                                                              *)
Edit(g, deleted) ==
  /\ phase \in {"idle", "done", "rendered", "failed"} /\ computes < MaxComputes
  /\ exists' = exists \ deleted
  /\ g.vertices \subseteq exists' \cup {Output}
  /\ graph' = g
  /\ stack' = <<>> /\ color' = [v \in g.vertices |-> "white"]
  /\ phase' = "edited" /\ computes' = computes + 1
  /\ UNCHANGED <<kind, link, compsVars, depthVars>>

(* connectClips sets the link of each edge: nothing ever unsets one.  Of   *)
(* several edges into a clip, which addEdge accepts, the last stays.       *)
SameClip(e, f) == e.in = f.in /\ e.clip = f.clip

ConnectClips ==
  /\ phase = "edited"
  /\ \E lasting \in SUBSET graph.edges :
       /\ \A e \in graph.edges : \E f \in lasting : SameClip(e, f)
       /\ \A e, f \in lasting : SameClip(e, f) => e = f
       /\ link' = [c \in Clips |->
            IF \E e \in lasting : <<e.in, e.clip>> = c
            THEN (CHOOSE e \in lasting : <<e.in, e.clip>> = c).out
            ELSE link[c]]
  /\ phase' = "setup1"
  /\ Start(Output)
  /\ UNCHANGED <<graph, kind, exists, compsVars, depthVars, computes>>

-----------------------------------------------------------------------------
(* What a node finds on its clips.                                         *)

ClipsOf(v) == {v} \X ClipNames
Connected(v) == {c \in ClipsOf(v) : link[c] # Nobody}

(* findDeepestBitDepth, findMostChromaticComponents. *)
DeepestSwapped(v) ==  \* mutant: the first depth is kept unless it is none
  Min({outDepth[link[c]] : c \in Connected(v)} \cup (IF Connected(v) = {} THEN {NoDepth} ELSE {}))

Deepest(v)       == Max({outDepth[link[c]] : c \in Connected(v)} \cup {NoDepth})
MostChromatic(v) == Max({outComps[link[c]] : c \in Connected(v)} \cup {NoComponents})

(* bestSupportedBitDepth: a byte is best widened as little as possible, a  *)
(* short is best widened, a float narrowed as little as possible.          *)
BestDepth(v, d) ==
  LET supported == kind[v].depths
  IN  IF d \in supported \cup {NoDepth} THEN d
      ELSE IF d = Byte THEN Min(supported) ELSE Max(supported)

(* findSupportedComp of no components: the only ones supported, or none. *)
OnlyOf(comps) == IF Cardinality(comps) = 1 THEN Max(comps) ELSE NoComponents

(* setBitDepthStringIfUpper. *)
Upper(old, new) == IF new > old THEN new ELSE old

(* The depth of the connected clip c after maximizeBitDepthFromReadsToWrites. *)
ReadDepthUnchecked(v, c, old) ==  \* mutant: taken, whoever supports it
  Upper(old, IF kind[v].multi THEN outDepth[link[c]] ELSE BestDepth(v, Deepest(v)))

ReadDepth(v, c, old) ==
  LET asked == IF kind[v].multi THEN outDepth[link[c]] ELSE BestDepth(v, Deepest(v))
      asker == IF kind[v].multi THEN v ELSE link[c]
  IN  IF asked \in kind[asker].depths THEN Upper(old, asked) ELSE old

WrittenDepth(v, old, plugin) ==
  IF plugin THEN old ELSE Upper(old, BestDepth(v, Deepest(v)))

DepthNotSupported(v) ==
  ~kind[v].multi /\ Connected(v) # {} /\ BestDepth(v, Deepest(v)) = NoDepth

(* Without a preference of the plugin the output clip has no depth, save   *)
(* that of a node without connected clips, which is a float.               *)
PreferredDepth(v) ==
  IF kind[v].depth # NoDepth THEN kind[v].depth
  ELSE IF Connected(v) = {} THEN Float ELSE NoDepth

(* initComponents: an input clip takes the components it is connected to   *)
(* if it supports the most chromatic ones among all inputs.                *)
ReadComps(v, c) ==
  IF MostChromatic(v) \in kind[v].ins THEN outComps[link[c]] ELSE OnlyOf(kind[v].ins)

WrittenComps(v) ==
  IF kind[v].comps # NoComponents THEN kind[v].comps
  ELSE IF MostChromatic(v) \in kind[v].outs THEN MostChromatic(v) ELSE OnlyOf(kind[v].outs)

-----------------------------------------------------------------------------
(* Setup1: finish_vertex.                                                  *)

Reset(f, v, value) == [c \in Clips |-> IF c \in ClipsOf(v) THEN value ELSE f[c]]

(* checkClipsConnected. *)
MissingClip(v) == \E n \in kind[v].mandatory : link[<<v, n>>] = Nobody

(* The clips are read through the kept pointers: one to a clip of a deleted *)
(* node is not valid, and nothing is known of what follows.                *)
Dangling(v) == \E c \in Connected(v) : link[c] \notin exists

(* The plugin fails, after setDefaultClipPreferences. *)
NoPreferences(v) ==
  /\ inDepth' = Reset(inDepth, v, NoDepth)
  /\ outDepth' = [outDepth EXCEPT ![v] = NoDepth]
  /\ byPlugin' = [byPlugin EXCEPT ![v] = FALSE]
  /\ inComps' = Reset(inComps, v, OnlyOf(kind[v].ins))
  /\ outComps' = [outComps EXCEPT ![v] = OnlyOf(kind[v].outs)]
  /\ phase' = "failed"

(* getClipPreferencesAction, initComponents and                            *)
(* maximizeBitDepthFromReadsToWrites, which throws when the node supports  *)
(* none of the depths.                                                     *)
Prefer(v) ==
  LET plugin == kind[v].depth # NoDepth
      throws == DepthNotSupported(v)
  IN  /\ inComps' = [c \in Clips |-> IF c \in Connected(v) THEN ReadComps(v, c)
                                     ELSE Reset(inComps, v, OnlyOf(kind[v].ins))[c]]
      /\ outComps' = [outComps EXCEPT ![v] = WrittenComps(v)]
      /\ byPlugin' = [byPlugin EXCEPT ![v] = plugin]
      /\ inDepth' = [c \in Clips |-> IF c \in Connected(v) /\ ~throws THEN ReadDepth(v, c, NoDepth)
                                     ELSE Reset(inDepth, v, NoDepth)[c]]
      /\ outDepth' = [outDepth EXCEPT ![v] =
           IF throws THEN PreferredDepth(v) ELSE WrittenDepth(v, PreferredDepth(v), plugin)]
      /\ phase' = IF throws THEN "failed" ELSE phase

Setup1(v) ==
  \/ /\ MissingClip(v) /\ phase' = "failed"
     /\ UNCHANGED <<compsVars, depthVars>>
  \/ /\ ~MissingClip(v) /\ Dangling(v) /\ phase' = "undefined"
     /\ UNCHANGED <<compsVars, depthVars>>
  \/ ~MissingClip(v) /\ ~Dangling(v) /\ (NoPreferences(v) \/ Prefer(v))

FinishSetup1(v) ==
  /\ phase = "setup1"
  /\ Finish(v)
  /\ IF v = Output THEN UNCHANGED <<phase, compsVars, depthVars>> ELSE Setup1(v)
  /\ UNCHANGED <<graph, nodeVars, computes>>

-----------------------------------------------------------------------------
(* Setup2: discover_vertex.                                                *)

RaisedByPolite(w) ==  \* mutant: no choice of a plugin is overridden
  IF kind[w].multi THEN {}
  ELSE {u \in {link[c] : c \in Connected(w)} :
          outDepth[w] \in kind[u].depths /\ outDepth[w] > outDepth[u] /\ ~byPlugin[u]}

(* maximizeBitDepthFromWritesToReads: a node of one depth raises its       *)
(* inputs to the depth of its output.  A node of several depths is raised  *)
(* even above the choice of its plugin, which is then forgotten.           *)
RaisedBy(w) ==
  IF kind[w].multi THEN {}
  ELSE {u \in {link[c] : c \in Connected(w)} :
          /\ outDepth[w] \in kind[u].depths /\ outDepth[w] > outDepth[u]
          /\ kind[u].multi \/ ~byPlugin[u]}

DiscoverSetup2(w) ==
  /\ phase = "setup2"
  /\ Discover(w)
  /\ outDepth' = [u \in Nodes |-> IF u \in RaisedBy(w) THEN outDepth[w] ELSE outDepth[u]]
  /\ byPlugin' = [u \in Nodes |-> byPlugin[u] /\ u \notin RaisedBy(w)]
  /\ UNCHANGED <<graph, nodeVars, phase, compsVars, inDepth, computes>>

-----------------------------------------------------------------------------
(* Setup3: finish_vertex.                                                  *)

(* validInputClipsConnections. *)
AgreesInDepth(v) ==  \* mutant: components are not validated
  \A c \in Connected(v) : inDepth'[c] = outDepth'[link[c]]

Agrees(v) ==
  \A c \in Connected(v) : inDepth'[c] = outDepth'[link[c]] /\ inComps[c] = outComps[link[c]]

Setup3(v) ==
  /\ IF DepthNotSupported(v)
     THEN phase' = "failed" /\ UNCHANGED depthVars
     ELSE /\ inDepth' = [c \in Clips |-> IF c \in Connected(v) THEN ReadDepth(v, c, inDepth[c])
                                         ELSE inDepth[c]]
          /\ outDepth' = [outDepth EXCEPT ![v] = WrittenDepth(v, @, byPlugin[v])]
          /\ UNCHANGED byPlugin
          /\ phase' = IF Agrees(v) THEN phase ELSE "failed"

FinishSetup3(v) ==
  /\ phase = "setup3"
  /\ Finish(v)
  /\ IF v = Output THEN UNCHANGED <<phase, depthVars>> ELSE Setup3(v)
  /\ UNCHANGED <<graph, nodeVars, compsVars, computes>>

-----------------------------------------------------------------------------
(* The rest of the visits, where the visitor does nothing. *)

DiscoverOnly(w) ==
  /\ phase \in {"setup1", "setup3"}
  /\ Discover(w)
  /\ UNCHANGED <<graph, nodeVars, phase, compsVars, depthVars, computes>>

FinishOnly(v) ==
  /\ phase = "setup2"
  /\ Finish(v)
  /\ UNCHANGED <<graph, nodeVars, phase, compsVars, depthVars, computes>>

NextVisit ==
  /\ phase \in {"setup1", "setup2", "setup3"} /\ Over
  /\ \/ /\ phase \in {"setup1", "setup2"}
        /\ phase' = IF phase = "setup1" THEN "setup2" ELSE "setup3"
        /\ Start(Output)
     \/ /\ phase = "setup3" /\ phase' = "done"
        /\ UNCHANGED visitVars
  /\ UNCHANGED <<graph, nodeVars, compsVars, depthVars, computes>>

(* Each frame connects the clips again once the identity nodes are out of  *)
(* its graph: a clip is then linked past a node, to an input of that node. *)
ConnectAtTime(c) ==
  /\ phase \in {"done", "rendered"} /\ c[1] \in graph.vertices
  /\ \E e \in graph.edges : e.in = link[c] /\ link' = [link EXCEPT ![c] = e.out]
  /\ phase' = "rendered"
  /\ UNCHANGED <<graph, visitVars, kind, exists, compsVars, depthVars, computes>>

ClipNext ==
  \/ \E g \in ClipGraphs : \E deleted \in SUBSET (exists \ g.vertices) : Edit(g, deleted)
  \/ ConnectClips
  \/ \E v \in graph.vertices :
       \/ FinishSetup1(v) \/ DiscoverSetup2(v) \/ FinishSetup3(v)
       \/ DiscoverOnly(v) \/ FinishOnly(v)
  \/ NextVisit
  \/ \E c \in Clips : ConnectAtTime(c)

ClipSpec == ClipInit /\ [][ClipNext]_clipVars

-----------------------------------------------------------------------------
(* Type invariant of the setup of the clips. *)
ClipTypeOK ==
  /\ graph.vertices \subseteq exists \cup {Output} /\ kind \in Kinds /\ exists \subseteq Nodes
  /\ link \in [Clips -> Nodes \cup {Nobody}]
  /\ phase \in {"idle", "edited", "setup1", "setup2", "setup3", "done", "rendered",
            "failed", "undefined"}
  /\ stack \in Seq(graph.vertices)
  /\ color \in [graph.vertices -> {"white", "gray", "black"}]
  /\ inDepth \in [Clips -> Depths] /\ outDepth \in [Nodes -> Depths]
  /\ inComps \in [Clips -> Components] /\ outComps \in [Nodes -> Components]
  /\ byPlugin \in [Nodes -> BOOLEAN]
  /\ computes \in 0 .. MaxComputes

(* "Says whether the clip is currently connected": the clips of the nodes  *)
(* that are rendered are connected as in the graph, and only so.  The code *)
(* has no way to disconnect one.                                           *)
ConnectedAsInGraph ==
  phase \in {"setup1", "setup2", "setup3", "done"} =>
    \A c \in Clips : c[1] \in graph.vertices =>
      {e.out : e \in {x \in graph.edges : <<x.in, x.clip>> = c}} = {link[c]} \ {Nobody}

(* The setup that succeeds, on clips connected as in the graph. *)
Negotiated == phase = "done" /\ ConnectedAsInGraph

InputEdges == {e \in graph.edges : e.in # Output}

(* Every connection ends up with the same depth and components on both     *)
(* sides, whichever of the visits changed them last: no output clip        *)
(* changes after a node that reads it was validated.  So it is whatever    *)
(* stays connected from earlier computes and whatever is read through      *)
(* that, for each edge along which a clip is connected.                    *)
ConnectionsAgree ==
  phase = "done" =>
    \A e \in InputEdges : link[<<e.in, e.clip>>] = e.out =>
      /\ inDepth[<<e.in, e.clip>>] = outDepth[e.out]
      /\ inComps[<<e.in, e.clip>>] = outComps[e.out]

(* Each clip of a node gets a depth the node supports, but the output of a *)
(* generator without a preference, which is always a float; and components *)
(* it supports, if the inputs of the node all come with the same ones.     *)
SameComps(v) == \A e, f \in Needs(v) : outComps[e.out] = outComps[f.out]

ClipsSupported ==
  Negotiated =>
    \A e \in InputEdges :
      /\ inDepth[<<e.in, e.clip>>] \in kind[e.in].depths
      /\ outDepth[e.in] \in kind[e.in].depths
      /\ SameComps(e.in) => inComps[<<e.in, e.clip>>] \in kind[e.in].ins \cup {NoComponents}

(* A node that supports the depth of an input, and has no preference,      *)
(* writes images at least as deep.                                         *)
NothingNarrowed ==
  Negotiated =>
    \A e \in InputEdges :
      kind[e.in].depth = NoDepth /\ outDepth[e.out] \in kind[e.in].depths =>
        outDepth[e.in] >= outDepth[e.out]

(* A node that does not support several depths works with one. *)
OneDepth ==
  Negotiated => \A e \in InputEdges :
    ~kind[e.in].multi => inDepth[<<e.in, e.clip>>] = outDepth[e.in]

(* It does when Setup2 can raise each clip before it visits the node that  *)
(* writes it: every node supports every depth, has one reader, and leaves  *)
(* its depth to the host.                                                  *)
Unhindered ==
  /\ \A e, f \in graph.edges : e.out = f.out => e.in = f.in
  /\ \A v \in graph.vertices \ {Output} :
       kind[v].depths = RealDepths /\ (kind[v].depth = NoDepth \/ (kind[v].multi /\ Needs(v) = {}))

OneDepthUnhindered == Unhindered => OneDepth

=============================================================================
