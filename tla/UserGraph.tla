------------------------------ MODULE UserGraph ------------------------------
(***************************************************************************)
(* The graph an application edits: Graph keeps the nodes in a map by their *)
(* unique name, and the vertices and edges in an InternalGraph, a vector   *)
(* of vertices that moves down when one of them is removed.                *)
(*                                                                         *)
(* A node is its name: the pair of its label and of the number addNode     *)
(* gave it, or whatever renameNode was asked for.  An edge goes from the   *)
(* node that produces an image (out) to an input attribute of another.     *)
(***************************************************************************)
EXTENDS Integers, FiniteSets, Sequences, SequencesExt

CONSTANTS
  Labels,      \* plugin labels
  Attrs,       \* input attributes, the same for every node
  MaxCount,    \* bound: nodes created per label
  MaxVertices  \* bound: nodes in the graph at one time

ASSUME GraphAssumption == MaxCount \in Nat /\ MaxVertices \in Nat

Names == Labels \X (1 .. MaxCount)
Edges == [out : Names, in : Names, attr : Attrs]

VARIABLES
  nodes,          \* the keys of _nodesMap
  vertices,       \* the vertices of _graph, by descriptor, each with its node
  edges,          \* the edges of _graph
  instanceCount,  \* _instanceCount
  last,           \* the latest edit: its name, its node, and whether it threw
  undefined       \* the program has used a deleted node or vertex

vars == <<nodes, vertices, edges, instanceCount, last, undefined>>

Init ==
  /\ nodes = {} /\ vertices = <<>> /\ edges = {}
  /\ instanceCount = [l \in Labels |-> 0]
  /\ last = [edit |-> "none", threw |-> FALSE, kept |-> {}]
  /\ undefined = FALSE

(* An edit of a program whose behaviour is still defined: its name,        *)
(* whether it threw, and, for an edit that deletes, the nodes it keeps.    *)
Reports(edit, threw, kept) ==
  /\ ~undefined
  /\ last' = [edit |-> edit, threw |-> threw, kept |-> kept]

Report(edit, threw) == Reports(edit, threw, {})

(* What a node can be reached from, along the edges es: the least set that *)
(* contains it and, with a node, the nodes its inputs come from.           *)
Upstream(n, es) ==
  LET ends == {n} \cup {e.out : e \in es}
  IN  {m \in ends : \A S \in SUBSET ends :
                      n \in S /\ (\A e \in es : e.in \in S => e.out \in S) => m \in S}

(* boost::connected_components sees an undirected graph. *)
ConnectedTo(n) ==
  {m \in nodes : \A S \in SUBSET nodes :
                   n \in S /\ (\A e \in edges : e.in \in S <=> e.out \in S) => m \in S}

WithoutNode(n, es) == {e \in es : e.out # n /\ e.in # n}

-----------------------------------------------------------------------------
(* addNode: the map refuses a name it already has, and deletes the new     *)
(* node, whose reference is used next.                                     *)
CreateNode(l) ==
  LET name == <<l, instanceCount[l] + 1>>
  IN  /\ instanceCount[l] < MaxCount /\ Len(vertices) < MaxVertices
      /\ instanceCount' = [instanceCount EXCEPT ![l] = @ + 1]
      /\ IF name \in nodes
         THEN undefined' = TRUE /\ UNCHANGED <<nodes, vertices>>
         ELSE /\ nodes' = nodes \cup {name}
              /\ vertices' = Append(vertices, name)
              /\ UNCHANGED undefined
      /\ Report("createNode", FALSE)
      /\ UNCHANGED edges

(* The descriptor of a node's vertex, from _vertexDescriptorMap. *)
Descriptor(n) == CHOOSE d \in 1 .. Len(vertices) : vertices[d] = n

(* InternalGraph::removeVertex: the edges of the vertex go with it. *)
RemoveVertexOnly(n) ==  \* mutant: clear_vertex is not called first
  /\ vertices' = RemoveAt(vertices, Descriptor(n))
  /\ UNCHANGED edges

RemoveVertex(n) ==
  /\ vertices' = RemoveAt(vertices, Descriptor(n))
  /\ edges' = WithoutNode(n, edges)

RenameNodeAddsVertex(n, name) ==  \* mutant: removeFromInternalGraph is not called
  /\ n \in nodes /\ n # name /\ name \notin nodes
  /\ nodes' = (nodes \ {n}) \cup {name}
  /\ vertices' = Append(vertices, name)
  /\ edges' = WithoutNode(n, edges)
  /\ Report("renameNode", FALSE)
  /\ UNCHANGED <<instanceCount, undefined>>

(* renameNode: the vertex is removed, with its connections, and added      *)
(* again, at the end.                                                      *)
RenameNode(n, name) ==
  /\ n \in nodes /\ n # name
  /\ IF name \in nodes
     THEN Report("renameNode", TRUE) /\ UNCHANGED <<nodes, vertices, edges>>
     ELSE /\ nodes' = (nodes \ {n}) \cup {name}
          /\ vertices' = Append(RemoveAt(vertices, Descriptor(n)), name)
          /\ edges' = WithoutNode(n, edges)
          /\ Report("renameNode", FALSE)
  /\ UNCHANGED <<instanceCount, undefined>>

DeleteNode(n) ==
  /\ n \in nodes
  /\ nodes' = nodes \ {n}
  /\ RemoveVertex(n)
  /\ Report("deleteNode", FALSE)
  /\ UNCHANGED <<instanceCount, undefined>>

(* The vertices left once those at the descriptors of doomed are deleted,   *)
(* in increasing order: every deletion moves the vertices above it down.   *)
LeftAfter(doomed) ==
  LET left[d \in 0 .. Len(vertices)] ==
        IF d = 0 THEN vertices
        ELSE IF d \in doomed /\ d <= Len(left[d - 1]) THEN RemoveAt(left[d - 1], d)
        ELSE left[d - 1]
  IN  left[Len(vertices)]

(* deleteUnconnectedNodes takes the descriptors of the unconnected         *)
(* vertices first, then deletes the node found at each of them.            *)
DeleteUnconnectedNodes(n) ==
  LET doomed == {d \in 1 .. Len(vertices) : vertices[d] \notin ConnectedTo(n)}
      left == LeftAfter(doomed)
  IN  /\ n \in nodes /\ doomed # {}
      /\ vertices' = left
      /\ nodes' = ToSet(left)
      /\ edges' = {e \in edges : e.out \in ToSet(left) /\ e.in \in ToSet(left)}
      /\ undefined' = (Len(left) > Len(vertices) - Cardinality(doomed))
      /\ Reports("deleteUnconnectedNodes", FALSE, ConnectedTo(n))
      /\ UNCHANGED instanceCount

Clear ==
  /\ nodes # {}
  /\ nodes' = {} /\ vertices' = <<>> /\ edges' = {}
  /\ instanceCount' = [l \in Labels |-> 0]
  /\ Report("clear", FALSE)
  /\ UNCHANGED undefined

-----------------------------------------------------------------------------
(* addEdge refuses an edge that exists and one that closes a cycle. *)
RefusedTwice(e, es) == e \in es  \* mutant: no search for a cycle

Refused(e, es) == e \in es \/ e.in \in Upstream(e.out, es)

Edge(out, in, attr) == [out |-> out, in |-> in, attr |-> attr]

Connect(out, in, attr) ==
  LET e == Edge(out, in, attr)
  IN  /\ out \in nodes /\ in \in nodes
      /\ Report("connect", Refused(e, edges))
      /\ edges' = IF Refused(e, edges) THEN edges ELSE edges \cup {e}
      /\ UNCHANGED <<nodes, vertices, instanceCount, undefined>>

(* An edge that is not there is not reported: the exception is swallowed. *)
Unconnect(e) ==
  /\ e.out \in nodes /\ e.in \in nodes
  /\ edges' = edges \ {e}
  /\ Report("unconnect", FALSE)
  /\ UNCHANGED <<nodes, vertices, instanceCount, undefined>>

UnconnectNode(n) ==
  /\ n \in nodes
  /\ edges' = WithoutNode(n, edges)
  /\ Report("unconnectNode", FALSE)
  /\ UNCHANGED <<nodes, vertices, instanceCount, undefined>>

(* replaceNodeConnections connects `to` as `from` is, inputs first, then   *)
(* unconnects `from`.  A connection that is refused stops it half way.     *)
InputsFor(to, from)  == {[e EXCEPT !.in = to] : e \in {f \in edges : f.in = from}}
OutputsFor(to, from) == {[e EXCEPT !.out = to] : e \in {f \in edges : f.out = from}}

ConnectAll(from, to) ==
  LET wanted == InputsFor(to, from) \cup OutputsFor(to, from)
  IN  /\ \A e \in wanted : ~Refused(e, edges \cup (wanted \ {e}))
      /\ edges' = WithoutNode(from, edges \cup wanted)
      /\ Report("replaceNodeConnections", FALSE)

ConnectSomeAndUnconnect(from, to) ==  \* mutant: unconnected although a connection was refused
  LET ins == InputsFor(to, from)
      outs == OutputsFor(to, from)
  IN  /\ \E e \in ins \cup outs : Refused(e, edges)
      /\ edges' = WithoutNode(from, edges)
      /\ Report("replaceNodeConnections", TRUE)

ConnectSome(from, to) ==
  LET ins == InputsFor(to, from)
      outs == OutputsFor(to, from)
  IN  \E before \in SUBSET (ins \cup outs), e \in ins \cup outs :
        /\ e \notin before
        /\ IF e \in ins THEN before \subseteq ins ELSE ins \subseteq before
        /\ \A b \in before : ~Refused(b, edges \cup (before \ {b}))
        /\ Refused(e, edges \cup before)
        /\ edges' = edges \cup before
        /\ Report("replaceNodeConnections", TRUE)

ReplaceNodeConnections(from, to) ==
  /\ from \in nodes /\ to \in nodes
  /\ ConnectAll(from, to) \/ ConnectSome(from, to)
  /\ UNCHANGED <<nodes, vertices, instanceCount, undefined>>

Next ==
  \/ \E l \in Labels : CreateNode(l)
  \/ \E n \in nodes, name \in Names : RenameNode(n, name)
  \/ \E n \in nodes : DeleteNode(n)
  \/ \E n \in nodes : DeleteUnconnectedNodes(n)
  \/ \E out, in \in nodes, attr \in Attrs : Connect(out, in, attr)
  \/ \E e \in edges : Unconnect(e)
  \/ \E n \in nodes : UnconnectNode(n)
  \/ \E from, to \in nodes : ReplaceNodeConnections(from, to)
  \/ Clear

Spec == Init /\ [][Next]_vars

-----------------------------------------------------------------------------
TypeOK ==
  /\ nodes \subseteq Names
  /\ vertices \in Seq(Names) /\ Len(vertices) <= MaxVertices
  /\ edges \subseteq Edges
  /\ instanceCount \in [Labels -> 0 .. MaxCount]
  /\ last.threw \in BOOLEAN /\ last.kept \subseteq Names
  /\ undefined \in BOOLEAN

(* The map and the internal graph agree: one vertex per node, and edges    *)
(* between nodes that exist, whatever was renamed, deleted or replaced.    *)
VerticesAreNodes ==
  ~undefined =>
    /\ ToSet(vertices) = nodes
    /\ Len(vertices) = Cardinality(nodes)
    /\ \A e \in edges : e.out \in nodes /\ e.in \in nodes

(* The graph never has a cycle, which the depth-first visits of the render *)
(* rely on.                                                                *)
Acyclic == \A e \in edges : e.in \notin Upstream(e.out, edges)

(* An edit that throws loses no node and no connection. *)
FailedEditLosesNothing ==
  [][last'.threw => nodes' = nodes /\ edges \subseteq edges']_vars

(* "Delete all unconnected nodes": those, and no other. *)
DeletesTheUnconnected ==
  last.edit = "deleteUnconnectedNodes" => ~undefined /\ nodes = last.kept

=============================================================================
