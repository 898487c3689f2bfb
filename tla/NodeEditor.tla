----------------------------- MODULE NodeEditor -----------------------------
(***************************************************************************)
(* The canvas on which an operator draws a federation                      *)
(* (src/public/frontend/jsm/nebula/polaris/node_editor.js): the lists of   *)
(* nodes and lines, the lookup maps beside them, the line that is being    *)
(* drawn with the mouse, and the frame loop.                               *)
(*                                                                         *)
(* Each handler of the page runs to its end, so an action is one handler.  *)
(* A handler that throws keeps what it did before the throw.  Positions,   *)
(* colours, dragging and the inspector are left out.                       *)
(*                                                                         *)
(* An identifier is drawn once (generateUUID), and UrlOf is the url the    *)
(* operator types for it; two nodes may have the same url.  A node has one *)
(* input and one output vertex; "gone" tells a vertex of a node that was   *)
(* removed from the vertex of the node loaded again with the same id.      *)
(***************************************************************************)
EXTENDS Naturals, Sequences, FiniteSets

CONSTANTS
    Ids,        \* the identifiers a session can draw
    Urls,       \* the urls of the cluster
    UrlOf,      \* the url typed for a node
    None,       \* JavaScript's undefined
    MaxNodes,   \* bound: nodes created in a session
    MaxEdges,   \* bound: lines on the canvas
    MaxRays     \* bound: vertices with an Edge object after a click

Vertex == [node : Ids, flag : {"input", "output"}, gone : BOOLEAN]

ASSUME EditorAssumption ==
    /\ UrlOf \in [Ids -> Urls]
    /\ None \notin Ids \cup Vertex
    /\ MaxNodes \in Nat /\ MaxEdges \in Nat /\ MaxRays \in Nat

In(n)  == [node |-> n, flag |-> "input", gone |-> FALSE]
Out(n) == [node |-> n, flag |-> "output", gone |-> FALSE]

VARIABLES
    minted,         \* the identifiers drawn so far
    nodes,          \* this.nodes, and the keys of nodeHash
    observables,    \* the keys of the map drawText reads
    nodeHashUrl,    \* the node a url stands for
    blank,          \* a string was pushed on this.nodes
    edges,          \* this.edges: pairs of vertices
    hasEdge,        \* the vertices whose edge is defined
    pair,           \* vertex.pair; connected is pair /= None
    systemState,    \* "default" or "edgeConstruction"
    focusVertex,    \* the vertex the line under construction starts from
    alive           \* the frame loop still asks for the next frame

canvas == <<nodes, observables, nodeHashUrl, blank>>
wires  == <<edges, hasEdge, pair>>
mouse  == <<systemState, focusVertex>>
editorVars == <<minted, canvas, wires, mouse, alive>>

\* A vertex the mouse can hit: it is in clickables.
LiveVertices == [node : nodes, flag : {"input", "output"}, gone : {FALSE}]

\* A pair of ids for each line: what a script says of the lines.
Links == Seq(Ids \X Ids)

Unconnected == [v \in Vertex |-> None]

-----------------------------------------------------------------------------

InitEditor ==
    /\ nodes = {} /\ observables = {}
    /\ nodeHashUrl = [u \in Urls |-> None]
    /\ blank = FALSE
    /\ edges = <<>> /\ hasEdge = {} /\ pair = Unconnected
    /\ systemState = "default" /\ focusVertex = None
    /\ alive = TRUE

(***************************************************************************)
(* Nodes.                                                                  *)
(***************************************************************************)

\* observables.set(node.id, node), and the slip of a caller of addNode alone.
Unobserved(n) == observables
Observed(n) == observables \cup {n}

\* createNode and addNode: the newest node of a url hides the others.
CreateNode(n) ==
    /\ n \notin minted /\ Cardinality(minted) < MaxNodes
    /\ minted' = minted \cup {n}
    /\ nodes' = nodes \cup {n}
    /\ observables' = Observed(n)
    /\ nodeHashUrl' = [nodeHashUrl EXCEPT ![UrlOf[n]] = n]
    /\ UNCHANGED <<blank, wires, mouse, alive>>

\* The buttons "output", "index" and "function" call addNode with a string:
\* it is pushed on the lists, then reading its widgets throws.
AddBlank ==
    /\ blank' = TRUE
    /\ UNCHANGED <<minted, nodes, observables, nodeHashUrl, wires, mouse, alive>>

\* A vertex keeps its object when its node leaves the canvas; a clear() that
\* reset focusVertex as well would leave systemState behind.
Forgotten(v) == None
Removed(v) == [v EXCEPT !.gone = TRUE]

\* nodeHashUrl.clear(), and the slip of a map that is not cleared.
KeptUrls == nodeHashUrl
NoUrls == [u \in Urls |-> None]

\* The Edge object of the vertex in focus, which clear() leaves alone; the slip
\* would be to clear the edge and not the state.
NoRay == {}
KeptRay == IF focusVertex \in hasEdge THEN {Removed(focusVertex)} ELSE {}

\* clear() empties the lists and the maps, and neither systemState nor
\* focusVertex: a line under construction outlives the node it starts from.
\* Vertices that nothing refers to any more are as if new.
ForgetWires ==
    /\ focusVertex' = IF focusVertex = None THEN None ELSE Removed(focusVertex)
    /\ hasEdge' = KeptRay

Clear ==
    /\ nodes' = {} /\ observables' = {}
    /\ nodeHashUrl' = NoUrls
    /\ blank' = FALSE
    /\ edges' = <<>> /\ pair' = Unconnected
    /\ ForgetWires
    /\ UNCHANGED <<minted, systemState, alive>>

(***************************************************************************)
(* Lines.                                                                  *)
(***************************************************************************)

\* Vertex.connect: the last line of a vertex is the one it draws.
ConnectVertices(a, b) ==
    /\ Len(edges) < MaxEdges
    /\ edges' = Append(edges, <<a, b>>)
    /\ pair' = [pair EXCEPT ![a] = b]

\* The second click ends the line on an input; the slip would be on any vertex.
EndsOnAny(v) == systemState = "edgeConstruction"
EndsLine(v) == systemState = "edgeConstruction" /\ v.flag = "input"

\* The left button on a vertex (mousedown, collide, click, Vertex.click):
\* construction goes on after the click that ends a line.
\* With a blank node in draggables, collide throws before any vertex is asked.
ClickVertex(v) ==
    /\ ~blank
    /\ v \in LiveVertices
    /\ hasEdge' = hasEdge \cup {v}
    /\ Cardinality(hasEdge') <= MaxRays
    /\ \/ /\ EndsLine(v)
          /\ ConnectVertices(focusVertex, v)
          /\ UNCHANGED mouse
       \/ /\ ~EndsLine(v)
          /\ systemState' = "edgeConstruction"
          /\ focusVertex' = v
          /\ UNCHANGED <<edges, pair>>
    /\ UNCHANGED <<minted, canvas, alive>>

\* The middle button drops the line under construction: clearEdge.
CancelLine ==
    /\ systemState = "edgeConstruction"
    /\ systemState' = "default"
    /\ focusVertex' = None
    /\ hasEdge' = hasEdge \ {focusVertex}
    /\ UNCHANGED <<minted, canvas, edges, pair, alive>>

\* "node-connect" from the server; an unknown url throws and changes nothing.
Connect(src, dest) ==
    /\ nodeHashUrl[src] # None /\ nodeHashUrl[dest] # None
    /\ ConnectVertices(Out(nodeHashUrl[src]), In(nodeHashUrl[dest]))
    /\ hasEdge' = hasEdge \cup {Out(nodeHashUrl[src])}
    /\ UNCHANGED <<minted, canvas, mouse, alive>>

Matching(src, dest) ==
    {k \in DOMAIN edges : /\ UrlOf[edges[k][1].node] = src
                          /\ UrlOf[edges[k][2].node] = dest}

\* edges.splice(k, 1), and the slip of an index that is one too low.
SpliceBefore(k) ==
    [i \in 1 .. Len(edges) - 1 |-> IF i < k - 1 THEN edges[i] ELSE edges[i + 1]]
Splice(k) ==
    [i \in 1 .. Len(edges) - 1 |-> IF i < k THEN edges[i] ELSE edges[i + 1]]

\* "node-disconnect": the vertex of every line between the two urls is
\* disconnected, but only the last of these lines leaves the list.
Disconnect(src, dest) ==
    \E k \in Matching(src, dest) :
        /\ \A j \in Matching(src, dest) : j <= k
        /\ LET cut == {edges[j][1] : j \in Matching(src, dest)}
           IN  /\ hasEdge' = hasEdge \ cut
               /\ pair' = [v \in Vertex |-> IF v \in cut THEN None ELSE pair[v]]
        /\ edges' = Splice(k)
        /\ UNCHANGED <<minted, canvas, mouse, alive>>

(***************************************************************************)
(* Scripts and frames.                                                     *)
(***************************************************************************)

\* What saveJericho writes: the nodes by id and, for each, the ids its lines
\* lead to.  A blank node is written under the key "undefined", without a url.
Script == [nodes : SUBSET Ids, blank : BOOLEAN, links : Links]

\* saveJericho throws when a line starts from a node that is not listed; the
\* slip would be to make the missing array.
AnyCanvas == TRUE
Savable == \A k \in DOMAIN edges : edges[k][1].node \in nodes

ScriptOf ==
    [nodes |-> nodes, blank |-> blank,
     links |-> [k \in 1 .. Len(edges) |-> <<edges[k][1].node, edges[k][2].node>>]]

\* The nodes a script's lines name are its own.
Closed(s) ==
    \A k \in DOMAIN s.links : s.links[k][1] \in s.nodes /\ s.links[k][2] \in s.nodes

\* The nodes are built before a node without a url, or a line to an unknown
\* node, throws: such a script leaves its nodes on the canvas and no line.
Sound(s) == ~s.blank /\ Closed(s)

\* The orders in which "for (let e in edges)" can meet the links: they are
\* grouped by source, and the links of one source keep their order.
Listings(links) ==
    {[k \in 1 .. Len(links) |-> links[p[k]]] :
        p \in {q \in [1 .. Len(links) -> 1 .. Len(links)] :
                 /\ \A k, m \in 1 .. Len(links) :
                      k < m => /\ q[k] # q[m]
                               /\ links[q[k]][1] = links[q[m]][1] => q[k] < q[m]
                 /\ \A k, l, m \in 1 .. Len(links) :
                      k < l /\ l < m /\ links[q[k]][1] = links[q[m]][1]
                         => links[q[l]][1] = links[q[k]][1]}}

\* The vertex a links to last, in a list of links.
LastOf(links, a) ==
    IF \E k \in DOMAIN links : links[k][1] = a
    THEN In(links[CHOOSE k \in DOMAIN links :
                    links[k][1] = a /\ \A m \in DOMAIN links : links[m][1] = a => m <= k][2])
    ELSE None

\* generateEdges on an empty canvas.
DrawLinks(links) ==
    /\ edges' = [k \in 1 .. Len(links) |-> <<Out(links[k][1]), In(links[k][2])>>]
    /\ pair' = [v \in Vertex |->
                  IF v = Out(v.node) THEN LastOf(links, v.node) ELSE None]
    /\ hasEdge' = KeptRay \cup {Out(links[k][1]) : k \in DOMAIN links}

\* jerichoScript: clear, then the nodes, then the lines.  Which of two nodes
\* with one url is added last depends on their ids.
LoadScript(s) ==
    /\ nodes' = s.nodes /\ observables' = s.nodes
    /\ nodeHashUrl' \in [Urls -> s.nodes \cup {None}]
    /\ \A u \in Urls :
          IF \E n \in s.nodes : UrlOf[n] = u
          THEN nodeHashUrl'[u] # None /\ UrlOf[nodeHashUrl'[u]] = u
          ELSE nodeHashUrl'[u] = None
    /\ blank' = FALSE
    /\ focusVertex' = IF focusVertex = None THEN None ELSE Removed(focusVertex)
    /\ \E links \in Listings(IF Sound(s) THEN s.links ELSE <<>>) : DrawLinks(links)
    /\ UNCHANGED <<minted, systemState, alive>>

\* Node.draw needs the node's entry in observables and a string has no draw.
DrawThrows == blank \/ ~(nodes \subseteq observables)

\* loop() asks for the next frame after it has drawn this one: a frame that
\* throws is the last.
Frame ==
    /\ alive
    /\ alive' = ~DrawThrows
    /\ UNCHANGED <<minted, canvas, wires, mouse>>

-----------------------------------------------------------------------------
(***************************************************************************)
(* Properties of the canvas.                                               *)
(***************************************************************************)

EditorTypeOK ==
    /\ minted \subseteq Ids
    /\ nodes \subseteq Ids
    /\ observables \subseteq Ids
    /\ nodeHashUrl \in [Urls -> Ids \cup {None}]
    /\ blank \in BOOLEAN
    /\ edges \in Seq(Vertex \X Vertex)
    /\ hasEdge \subseteq Vertex
    /\ pair \in [Vertex -> Vertex \cup {None}]
    /\ systemState \in {"default", "edgeConstruction"}
    /\ focusVertex \in Vertex \cup {None}
    /\ systemState = "edgeConstruction" <=> focusVertex # None
    /\ alive \in BOOLEAN

\* The maps agree with the list of nodes: a url stands for a listed node with
\* that url, or for none when there is none, and drawText finds every listed
\* node in observables.  A server message never reaches a removed node.
MapsAgree ==
    /\ \A u \in Urls :
          IF nodeHashUrl[u] = None
          THEN \A n \in nodes : UrlOf[n] # u
          ELSE nodeHashUrl[u] \in nodes /\ UrlOf[nodeHashUrl[u]] = u
    /\ nodes \subseteq observables

\* A line a vertex draws is in the list that is saved and that
\* "node-disconnect" looks through, however lines were drawn, cancelled,
\* disconnected and loaded.
DrawnLinesListed ==
    \A v \in Vertex :
        pair[v] # None => \E k \in DOMAIN edges : edges[k] = <<v, pair[v]>>

\* A listed line ends at an input of a node that is on the canvas: only its
\* source can be a vertex of a removed node.
ListedTargetsLive ==
    \A k \in DOMAIN edges : edges[k][2] \in LiveVertices /\ edges[k][2].flag = "input"

\* A line under construction loses the ray that mousemove stretches (and then
\* throws at every move of the mouse) only when the server disconnects the
\* vertex it starts from.
RayLost == systemState = "edgeConstruction" /\ focusVertex \notin hasEdge

RayLostToServerOnly ==
    [][RayLost' /\ ~RayLost => \E src, dest \in Urls : Disconnect(src, dest)]_editorVars

=============================================================================
