---------------------------- MODULE GraphCompiler ----------------------------
(***************************************************************************)
(* From the graph on the editor's canvas to the steps of an automation.     *)
(* The editor refuses an edge that would close a cycle and validates the    *)
(* graph; the backend numbers the nodes breadth-first and turns edges into  *)
(* step numbers; the vault accepts the array or reverts.  Nodes and edges   *)
(* are sequences, for their order decides the numbering.                    *)
(*                                                                         *)
(* A graph may also come from a draft that was proposed through the API,    *)
(* whose edges nobody checked.                                             *)
(***************************************************************************)
EXTENDS Naturals, Sequences, FiniteSets, SequencesExt

CONSTANTS
    DONE,         \* the run ends
    MAX_STEPS,    \* nodes validateGraph accepts
    MaxNodes,     \* bound: nodes on the canvas
    MaxEdges,     \* bound: edges on the canvas
    MaxForeign    \* bound: nodes on the canvas at a reload, and nodes that are copied

VARIABLES
    nodes,         \* [id, type], oldest first
    edges,         \* [source, handle, target], oldest first
    nodeCounter    \* the number in the last id given by this page

graphVars == <<nodes, edges, nodeCounter>>

Type == {"CONDITION", "ACTION"}
CopyOf(id) == id + 10
Id == (1 .. MaxNodes) \cup {CopyOf(i) : i \in 1 .. MaxForeign}

GraphTypeOK ==
    /\ nodes \in Seq([id : Id, type : Type]) /\ Len(nodes) <= MaxNodes
    /\ edges \in Seq([source : Id, handle : {"true", "false", "out"}, target : Id])
    /\ Len(edges) <= MaxEdges
    /\ nodeCounter \in 0 .. MaxNodes

GraphInit == nodes = <<>> /\ edges = <<>> /\ nodeCounter = 0

Ids == {nodes[i].id : i \in DOMAIN nodes}
EdgeSet == {edges[i] : i \in DOMAIN edges}
Out(id) == SelectSeq(edges, LAMBDA e : e.source = id)

\* The nodes a walk from `id` visits.
ReachableFrom(id) ==
    LET reach[n \in 0 .. Cardinality(Ids)] ==
          IF n = 0 THEN {id}
          ELSE reach[n - 1] \cup {e.target : e \in {f \in EdgeSet : f.source \in reach[n - 1]}}
    IN reach[Cardinality(Ids)]

(***************************************************************************)
(* Editing.                                                                *)
(***************************************************************************)

addNode(type) ==
    /\ Len(nodes) < MaxNodes /\ nodeCounter < MaxNodes
    /\ nodeCounter' = nodeCounter + 1
    /\ nodes' = Append(nodes, [id |-> nodeCounter', type |-> type])
    /\ UNCHANGED edges

isValidConnection(source, target) ==
    source # target /\ source \notin ReachableFrom(target)

Handles(type) == IF type = "CONDITION" THEN {"true", "false"} ELSE {"out"}

Draw(source, handle, target) ==
    LET e == [source |-> source, handle |-> handle, target |-> target] IN
    /\ Len(edges) < MaxEdges
    /\ e \notin EdgeSet
    /\ edges' = Append(edges, e)
    /\ UNCHANGED <<nodes, nodeCounter>>

\* The handle is one the node shows; several edges may leave it.
onConnect(i, j) ==
    /\ isValidConnection(nodes[i].id, nodes[j].id)
    /\ \E handle \in Handles(nodes[i].type) : Draw(nodes[i].id, handle, nodes[j].id)

\* An edge of a proposed draft: its handle defaults to "out".
importEdge(i, j) == Draw(nodes[i].id, "out", nodes[j].id)

removeNode(id) ==
    /\ nodes' = SelectSeq(nodes, LAMBDA n : n.id # id)
    /\ edges' = SelectSeq(edges, LAMBDA e : id \notin {e.source, e.target})
    /\ UNCHANGED nodeCounter

removeEdge(k) ==
    /\ edges' = RemoveAt(edges, k)
    /\ UNCHANGED <<nodes, nodeCounter>>

\* copySelected and paste: the chosen nodes and the edges among them.
paste(chosen) ==
    LET copied == SelectSeq(nodes, LAMBDA n : n.id \in chosen)
        within == SelectSeq(edges, LAMBDA e : e.source \in chosen /\ e.target \in chosen)
    IN /\ chosen # {} /\ chosen \subseteq 1 .. MaxForeign
       /\ {CopyOf(i) : i \in chosen} \cap Ids = {}
       /\ Len(nodes) + Len(copied) <= MaxNodes /\ Len(edges) + Len(within) <= MaxEdges
       /\ nodes' = nodes \o [k \in DOMAIN copied |-> [copied[k] EXCEPT !.id = CopyOf(@)]]
       /\ edges' = edges \o [k \in DOMAIN within |->
                     [within[k] EXCEPT !.source = CopyOf(@), !.target = CopyOf(@)]]
       /\ UNCHANGED nodeCounter

\* The page is loaded again and counts from zero; the draft is as it was.
reload ==
    /\ Len(nodes) <= MaxForeign
    /\ nodeCounter' = 0
    /\ UNCHANGED <<nodes, edges>>

GraphNext ==
    \/ \E type \in Type : addNode(type)
    \/ \E i, j \in DOMAIN nodes : onConnect(i, j) \/ importEdge(i, j)
    \/ \E id \in Ids : removeNode(id)
    \/ \E k \in DOMAIN edges : removeEdge(k)
    \/ \E chosen \in SUBSET Ids : paste(chosen)
    \/ reload

GraphSpec == GraphInit /\ [][GraphNext]_graphVars

(***************************************************************************)
(* Validation.                                                             *)
(***************************************************************************)

StartNodes == SelectSeq(nodes, LAMBDA n : \A e \in EdgeSet : e.target # n.id)

hasCycle == \E e \in EdgeSet : e.source \in ReachableFrom(e.target)

inferOwnerOnly == Len(StartNodes) = 1 /\ StartNodes[1].type = "ACTION"

\* No error for a graph of the kind inferOwnerOnly says it is.
validateGraph ==
    /\ Len(nodes) \in 1 .. MAX_STEPS
    /\ Len(StartNodes) = 1
    /\ ~hasCycle
    /\ \A i \in DOMAIN nodes :
         IF nodes[i].type = "CONDITION" THEN Len(Out(nodes[i].id)) >= 1
         ELSE Len(Out(nodes[i].id)) <= 1
    /\ Ids \subseteq ReachableFrom(StartNodes[1].id)

(***************************************************************************)
(* Encoding.                                                               *)
(***************************************************************************)

\* The oldest node, wherever its edges lead.
startNode_Oldest == nodes[1].id

startNode == StartNodes[1].id

\* The first in, first out search: nodes dequeued, and nodes in the queue.
bfs ==
    LET Enqueue(s, e) ==
          IF e.target \in ToSet(s.order) \cup ToSet(s.queue) THEN s
          ELSE [s EXCEPT !.queue = Append(@, e.target)]
        search[n \in 0 .. Cardinality(Ids)] ==
          IF n = 0 THEN [order |-> <<>>, queue |-> <<startNode>>]
          ELSE LET s == search[n - 1] IN
               IF s.queue = <<>> THEN s
               ELSE FoldLeft(Enqueue,
                             [order |-> Append(s.order, Head(s.queue)), queue |-> Tail(s.queue)],
                             Out(Head(s.queue)))
    IN search[Cardinality(Ids)].order

\* The last node of an id, as in a Map of the nodes.
NodeOf(id) == nodes[CHOOSE i \in DOMAIN nodes :
                      nodes[i].id = id /\ \A j \in DOMAIN nodes : nodes[j].id = id => j <= i]

\* The step the first edge of a handle leads to.
IndexOfNext(order, id, handle) ==
    LET out == SelectSeq(Out(id), LAMBDA e : e.handle = handle) IN
    IF out = <<>> THEN DONE ELSE CHOOSE k \in DOMAIN order : order[k] = out[1].target

steps ==
    LET order == bfs IN
    [k \in DOMAIN order |->
       LET node == NodeOf(order[k]) IN
       IF node.type = "CONDITION"
       THEN [stepType |-> "CONDITION",
             nextOnTrue |-> IndexOfNext(order, node.id, "true"),
             nextOnFalse |-> IndexOfNext(order, node.id, "false")]
       ELSE [stepType |-> "ACTION",
             nextOnTrue |-> IndexOfNext(order, node.id, "out"), nextOnFalse |-> DONE]]

\* _validateSteps of the vault.
validateSteps(array, ownerOnly) ==
    /\ array # <<>>
    /\ ownerOnly \/ array[1].stepType = "CONDITION"
    /\ \A k \in DOMAIN array :
         /\ array[k].nextOnTrue \in DOMAIN array \cup {DONE}
         /\ IF array[k].stepType = "CONDITION"
            THEN array[k].nextOnFalse \in DOMAIN array \cup {DONE}
            ELSE array[k].nextOnFalse = DONE

(***************************************************************************)
(* Properties.                                                             *)
(***************************************************************************)

UniqueIds == Cardinality(Ids) = Len(nodes)

\* Each edge leaves a handle its node has, and is the only one to do so.
OneEdgePerHandle ==
    /\ \A i \in DOMAIN nodes : \A e \in EdgeSet :
         e.source = nodes[i].id => e.handle \in Handles(nodes[i].type)
    /\ \A e, f \in EdgeSet : e.source = f.source /\ e.handle = f.handle => e = f

\* Step number `next` is where the edge of `handle` leads from node n.
Leads(at, next, n, handle) ==
    IF next = DONE THEN \A e \in EdgeSet : ~(e.source = n.id /\ e.handle = handle)
    ELSE [source |-> n.id, handle |-> handle, target |-> at[next].id] \in EdgeSet

\* A graph the editor accepts becomes an array the vault accepts, and running
\* the array walks the graph: it starts at the start node, has one step per
\* node, and each outcome of a step leads where the edge of that outcome leads.
\* Excepted are graphs the editor accepts and the encoder cuts down in silence:
\* two nodes of one id (addNode after a reload), two edges of one handle, an
\* "out" edge of a condition (encoding.service.ts, encode and bfs).
CompiledKeepsFlow ==
    UniqueIds /\ OneEdgePerHandle /\ validateGraph =>
        LET array == steps IN
        /\ validateSteps(array, inferOwnerOnly)
        /\ Len(array) = Len(nodes)
        /\ \E at \in [DOMAIN array -> ToSet(nodes)] :
             /\ {at[k].id : k \in DOMAIN array} = Ids
             /\ at[1] = StartNodes[1]
             /\ \A k \in DOMAIN array :
                  /\ array[k].stepType = at[k].type
                  /\ IF at[k].type = "CONDITION"
                     THEN /\ Leads(at, array[k].nextOnTrue, at[k], "true")
                          /\ Leads(at, array[k].nextOnFalse, at[k], "false")
                     ELSE Leads(at, array[k].nextOnTrue, at[k], "out")
=============================================================================
