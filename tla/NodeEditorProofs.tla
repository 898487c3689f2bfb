-------------------------- MODULE NodeEditorProofs --------------------------
(***************************************************************************)
(* Proofs about the canvas and its scripts, for any ids, urls, names and   *)
(* bounds.  The canvas invariant is inductive by itself; what the scripts  *)
(* contain follows from it.                                                *)
(***************************************************************************)
EXTENDS ScriptStore, SequenceTheorems, WellFoundedInduction, TLAPS

CanvasInv ==
    /\ EditorTypeOK
    /\ MapsAgree
    /\ DrawnLinesListed
    /\ ListedTargetsLive

-----------------------------------------------------------------------------
(***************************************************************************)
(* Lists of links.                                                         *)
(***************************************************************************)

\* A nonempty set of positions has a last one: the place Disconnect splices
\* and the link a loaded vertex draws exist.
LEMMA LastPosition ==
    ASSUME NEW n \in Nat, NEW S \in SUBSET (1 .. n), S # {}
    PROVE  \E k \in S : \A m \in S : m <= k
<1> DEFINE T == {n - k : k \in S}
           R == {r \in Nat \X Nat : r[1] < r[2]}
<1>1. T \subseteq Nat /\ T # {}
  <2>1. \A k \in S : n - k \in Nat
    OBVIOUS
  <2> QED BY <2>1
<1>2. IsWellFoundedOn(R, Nat)
  <2>1. R = OpToRel(<, Nat)
    BY DEF OpToRel
  <2> QED BY <2>1, NatLessThanWellFounded
<1>3. PICK x \in T : \A y \in T : ~(<<y, x>> \in R)
  <2> HIDE DEF T, R
  <2> QED BY <1>1, <1>2, WFMin
<1>4. PICK k \in S : x = n - k
  OBVIOUS
<1>5. ASSUME NEW m \in S PROVE m <= k
  <2>1. n - m \in T /\ ~(<<n - m, x>> \in R)
    BY <1>3
  <2> QED BY <2>1, <1>4
<1> QED BY <1>5

\* Reordering the links of a file adds and drops none.
LEMMA ListingIsReordering ==
    ASSUME NEW links \in Links, NEW l \in Listings(links)
    PROVE  /\ l \in Links
           /\ \A k \in DOMAIN l : \E m \in DOMAIN links : l[k] = links[m]
<1>1. PICK p \in [1 .. Len(links) -> 1 .. Len(links)] :
        l = [k \in 1 .. Len(links) |-> links[p[k]]]
  BY DEF Listings
<1>2. Len(links) \in Nat /\ DOMAIN links = 1 .. Len(links)
  BY LenProperties DEF Links
<1>3. l \in Links /\ DOMAIN l = 1 .. Len(links)
  <2>1. \A k \in 1 .. Len(links) : links[p[k]] \in Ids \X Ids
    BY <1>1, <1>2, ElementOfSeq DEF Links
  <2>2. l \in [1 .. Len(links) -> Ids \X Ids]
    BY <1>1, <2>1
  <2> QED BY <1>2, <2>2, SeqDef DEF Links
<1> QED BY <1>1, <1>2, <1>3

\* A loaded vertex draws one of the links of its node.
LEMMA LastIsLink ==
    ASSUME NEW links \in Links, NEW a \in Ids
    PROVE  \/ LastOf(links, a) = None
           \/ \E k \in DOMAIN links : /\ links[k][1] = a
                                      /\ LastOf(links, a) = In(links[k][2])
<1> SUFFICES ASSUME \E k \in DOMAIN links : links[k][1] = a
             PROVE  \E k \in DOMAIN links : /\ links[k][1] = a
                                            /\ LastOf(links, a) = In(links[k][2])
  BY DEF LastOf
<1> DEFINE S == {k \in DOMAIN links : links[k][1] = a}
<1>1. S \in SUBSET (1 .. Len(links)) /\ S # {} /\ Len(links) \in Nat
  BY DEF Links
<1>2. \E k \in S : \A m \in S : m <= k
  <2> HIDE DEF S
  <2> QED BY <1>1, LastPosition
<1>3. \E k \in DOMAIN links :
         links[k][1] = a /\ \A m \in DOMAIN links : links[m][1] = a => m <= k
  BY <1>2
<1> QED BY <1>3 DEF LastOf

-----------------------------------------------------------------------------
(***************************************************************************)
(* The handlers keep the canvas invariant.                                 *)
(***************************************************************************)

LEMMA VerticesAreVertices ==
    \A n \in Ids : In(n) \in Vertex /\ Out(n) \in Vertex
BY DEF In, Out, Vertex

LEMMA RemovedIsVertex ==
    \A v \in Vertex : Removed(v) \in Vertex /\ Removed(v) # None
BY EditorAssumption DEF Removed, Vertex

LEMMA InitKeepsCanvas ==
    ASSUME InitEditor, minted = {} PROVE CanvasInv
<1>1. EditorTypeOK
  BY EditorAssumption, EmptySeq DEF InitEditor, EditorTypeOK, Unconnected
<1>2. MapsAgree /\ DrawnLinesListed /\ ListedTargetsLive
  BY DEF InitEditor, MapsAgree, DrawnLinesListed, ListedTargetsLive, Unconnected
<1> QED BY <1>1, <1>2 DEF CanvasInv

LEMMA CreateKeepsCanvas ==
    ASSUME CanvasInv, NEW n \in Ids, CreateNode(n) PROVE CanvasInv'
<1> USE DEF CanvasInv, CreateNode, wires, mouse
<1>1. EditorTypeOK'
  BY EditorAssumption DEF EditorTypeOK, Observed
<1>2. MapsAgree'
  <2>1. nodes' \subseteq observables'
    BY DEF MapsAgree, Observed
  <2>2. ASSUME NEW u \in Urls
        PROVE  IF nodeHashUrl'[u] = None
               THEN \A m \in nodes' : UrlOf[m] # u
               ELSE nodeHashUrl'[u] \in nodes' /\ UrlOf[nodeHashUrl'[u]] = u
    <3>1. CASE u = UrlOf[n]
      BY <3>1, EditorAssumption DEF EditorTypeOK
    <3>2. CASE u # UrlOf[n]
      BY <3>2, EditorAssumption DEF EditorTypeOK, MapsAgree
    <3> QED BY <3>1, <3>2
  <2> QED BY <2>1, <2>2 DEF MapsAgree
<1>3. DrawnLinesListed' /\ ListedTargetsLive'
  BY DEF DrawnLinesListed, ListedTargetsLive, LiveVertices
<1> QED BY <1>1, <1>2, <1>3

LEMMA BlankKeepsCanvas ==
    ASSUME CanvasInv, AddBlank PROVE CanvasInv'
BY DEF CanvasInv, AddBlank, wires, mouse, EditorTypeOK, MapsAgree,
       DrawnLinesListed, ListedTargetsLive, LiveVertices

LEMMA ClearKeepsCanvas ==
    ASSUME CanvasInv, Clear PROVE CanvasInv'
<1> USE DEF CanvasInv, Clear
<1>1. EditorTypeOK'
  <2>1. focusVertex' \in Vertex \cup {None} /\ (focusVertex' = None <=> focusVertex = None)
    BY RemovedIsVertex DEF EditorTypeOK, ForgetWires
  <2>2. hasEdge' \subseteq Vertex
    BY RemovedIsVertex DEF EditorTypeOK, ForgetWires, KeptRay
  <2>3. edges' \in Seq(Vertex \X Vertex) /\ pair' \in [Vertex -> Vertex \cup {None}]
    BY EmptySeq DEF Unconnected
  <2> QED BY <2>1, <2>2, <2>3 DEF EditorTypeOK, NoUrls
<1>2. MapsAgree' /\ DrawnLinesListed' /\ ListedTargetsLive'
  BY DEF MapsAgree, DrawnLinesListed, ListedTargetsLive, NoUrls, Unconnected
<1> QED BY <1>1, <1>2

\* The one way a line gets on the list by hand or from the server: it must end
\* at the input of a listed node.
LEMMA ConnectKeepsLines ==
    ASSUME CanvasInv, NEW a \in Vertex, NEW b \in LiveVertices, b.flag = "input",
           ConnectVertices(a, b), nodes' = nodes
    PROVE  /\ edges' \in Seq(Vertex \X Vertex)
           /\ pair' \in [Vertex -> Vertex \cup {None}]
           /\ DrawnLinesListed'
           /\ ListedTargetsLive'
<1> USE DEF CanvasInv, ConnectVertices
<1>1. b \in Vertex
  BY DEF LiveVertices, Vertex, EditorTypeOK
<1>2. /\ edges' \in Seq(Vertex \X Vertex)
      /\ Len(edges') = Len(edges) + 1
      /\ edges'[Len(edges) + 1] = <<a, b>>
      /\ \A k \in 1 .. Len(edges) : edges'[k] = edges[k]
  BY <1>1, AppendProperties DEF EditorTypeOK
<1>3. DOMAIN edges = 1 .. Len(edges) /\ DOMAIN edges' = 1 .. Len(edges') /\ Len(edges) \in Nat
  BY <1>2, LenProperties DEF EditorTypeOK
<1>4. pair' \in [Vertex -> Vertex \cup {None}]
  BY <1>1 DEF EditorTypeOK
<1>5. DrawnLinesListed'
  <2> SUFFICES ASSUME NEW v \in Vertex, pair'[v] # None
               PROVE  \E k \in DOMAIN edges' : edges'[k] = <<v, pair'[v]>>
    BY DEF DrawnLinesListed
  <2>1. CASE v = a
    BY <2>1, <1>2, <1>3 DEF EditorTypeOK
  <2>2. CASE v # a
    <3>1. PICK k \in DOMAIN edges : edges[k] = <<v, pair[v]>>
      BY <2>2 DEF DrawnLinesListed, EditorTypeOK
    <3> QED BY <2>2, <3>1, <1>2, <1>3 DEF EditorTypeOK
  <2> QED BY <2>1, <2>2
<1>6. ListedTargetsLive'
  <2> SUFFICES ASSUME NEW k \in DOMAIN edges'
               PROVE  edges'[k][2] \in LiveVertices /\ edges'[k][2].flag = "input"
    BY DEF ListedTargetsLive, LiveVertices
  <2>1. CASE k = Len(edges) + 1
    BY <2>1, <1>2
  <2>2. CASE k \in 1 .. Len(edges)
    BY <2>2, <1>2, <1>3 DEF ListedTargetsLive
  <2> QED BY <2>1, <2>2, <1>2, <1>3
<1> QED BY <1>2, <1>4, <1>5, <1>6

LEMMA ClickKeepsCanvas ==
    ASSUME CanvasInv, NEW v \in LiveVertices, ClickVertex(v) PROVE CanvasInv'
<1> USE DEF CanvasInv, ClickVertex, canvas, mouse
<1>1. v \in Vertex /\ v # None
  BY EditorAssumption DEF LiveVertices, Vertex, EditorTypeOK
<1>2. MapsAgree'
  BY DEF MapsAgree
<1>3. CASE EndsLine(v) /\ ConnectVertices(focusVertex, v) /\ UNCHANGED mouse
  <2>1. focusVertex \in Vertex /\ v.flag = "input"
    BY <1>3 DEF EndsLine, EditorTypeOK
  <2>2. /\ edges' \in Seq(Vertex \X Vertex)
        /\ pair' \in [Vertex -> Vertex \cup {None}]
        /\ DrawnLinesListed'
        /\ ListedTargetsLive'
    BY <2>1, <1>3, ConnectKeepsLines
  <2>3. EditorTypeOK'
    BY <1>1, <1>3, <2>2 DEF EditorTypeOK
  <2> QED BY <1>2, <2>2, <2>3
<1>4. CASE /\ systemState' = "edgeConstruction" /\ focusVertex' = v
           /\ UNCHANGED <<edges, pair>>
  <2>1. EditorTypeOK'
    BY <1>1, <1>4 DEF EditorTypeOK
  <2>2. DrawnLinesListed' /\ ListedTargetsLive'
    BY <1>4 DEF DrawnLinesListed, ListedTargetsLive, LiveVertices
  <2> QED BY <1>2, <2>1, <2>2
<1> QED BY <1>3, <1>4

LEMMA CancelKeepsCanvas ==
    ASSUME CanvasInv, CancelLine PROVE CanvasInv'
BY DEF CanvasInv, CancelLine, canvas, EditorTypeOK, MapsAgree,
       DrawnLinesListed, ListedTargetsLive, LiveVertices

LEMMA ServerConnectKeepsCanvas ==
    ASSUME CanvasInv, NEW src \in Urls, NEW dest \in Urls, Connect(src, dest)
    PROVE  CanvasInv'
<1> USE DEF CanvasInv, Connect, canvas, mouse
<1> DEFINE a == Out(nodeHashUrl[src])
           b == In(nodeHashUrl[dest])
<1>1. nodeHashUrl[src] \in nodes /\ nodeHashUrl[dest] \in nodes
  BY DEF MapsAgree
<1>2. a \in Vertex /\ b \in LiveVertices /\ b.flag = "input"
  BY <1>1, VerticesAreVertices DEF In, LiveVertices, EditorTypeOK
<1>3. /\ edges' \in Seq(Vertex \X Vertex)
      /\ pair' \in [Vertex -> Vertex \cup {None}]
      /\ DrawnLinesListed'
      /\ ListedTargetsLive'
  <2> HIDE DEF a, b
  <2>1. ConnectVertices(a, b) /\ nodes' = nodes
    BY DEF a, b
  <2> QED BY <1>2, <2>1, ConnectKeepsLines
<1>4. EditorTypeOK' /\ MapsAgree'
  BY <1>2, <1>3 DEF EditorTypeOK, MapsAgree
<1> QED BY <1>3, <1>4

\* Splicing the last matching line away leaves every line of another vertex.
LEMMA SpliceKeepsOthers ==
    ASSUME NEW S, edges \in Seq(S), NEW k \in DOMAIN edges
    PROVE  /\ Splice(k) \in Seq(S)
           /\ \A i \in DOMAIN Splice(k) : \E j \in DOMAIN edges : Splice(k)[i] = edges[j]
           /\ \A j \in DOMAIN edges \ {k} : \E i \in DOMAIN Splice(k) : Splice(k)[i] = edges[j]
<1>1. Len(edges) \in Nat /\ DOMAIN edges = 1 .. Len(edges) /\ Len(edges) - 1 \in Nat
  BY LenProperties
<1>2. DOMAIN Splice(k) = 1 .. Len(edges) - 1
  BY DEF Splice
<1>3. \A i \in 1 .. Len(edges) - 1 :
         Splice(k)[i] = IF i < k THEN edges[i] ELSE edges[i + 1]
  BY DEF Splice
<1>4. \A i \in 1 .. Len(edges) - 1 : i \in DOMAIN edges /\ i + 1 \in DOMAIN edges
  BY <1>1
<1>5. Splice(k) \in Seq(S)
  <2>1. \A i \in 1 .. Len(edges) - 1 : edges[i] \in S /\ edges[i + 1] \in S
    BY <1>1, <1>4, ElementOfSeq
  <2>2. Splice(k) \in [1 .. Len(edges) - 1 -> S]
    BY <2>1 DEF Splice
  <2> QED BY <1>1, <2>2, SeqDef
<1>6. ASSUME NEW j \in DOMAIN edges \ {k}
      PROVE  \E i \in DOMAIN Splice(k) : Splice(k)[i] = edges[j]
  <2>1. CASE j < k
    <3>1. j \in 1 .. Len(edges) - 1
      BY <2>1, <1>1
    <3> QED BY <2>1, <3>1, <1>2, <1>3
  <2>2. CASE j > k
    <3>1. j - 1 \in 1 .. Len(edges) - 1 /\ ~(j - 1 < k) /\ (j - 1) + 1 = j
      BY <2>2, <1>1
    <3> QED BY <3>1, <1>2, <1>3
  <2> QED BY <2>1, <2>2, <1>1
<1> QED BY <1>2, <1>3, <1>4, <1>5, <1>6

LEMMA DisconnectKeepsCanvas ==
    ASSUME CanvasInv, NEW src \in Urls, NEW dest \in Urls, Disconnect(src, dest)
    PROVE  CanvasInv'
<1> USE DEF CanvasInv, canvas, mouse
<1> DEFINE cut == {edges[j][1] : j \in Matching(src, dest)}
<1>1. PICK k \in Matching(src, dest) :
        /\ hasEdge' = hasEdge \ cut
        /\ pair' = [v \in Vertex |-> IF v \in cut THEN None ELSE pair[v]]
        /\ edges' = Splice(k)
        /\ UNCHANGED <<minted, canvas, mouse, alive>>
  BY DEF Disconnect
<1>2. k \in DOMAIN edges /\ edges[k][1] \in cut
  BY DEF Matching
<1> HIDE DEF cut
<1>3. /\ edges' \in Seq(Vertex \X Vertex)
      /\ \A i \in DOMAIN edges' : \E j \in DOMAIN edges : edges'[i] = edges[j]
      /\ \A j \in DOMAIN edges \ {k} : \E i \in DOMAIN edges' : edges'[i] = edges[j]
  BY <1>1, <1>2, SpliceKeepsOthers DEF EditorTypeOK
<1>4. EditorTypeOK' /\ MapsAgree'
  BY <1>1, <1>3 DEF EditorTypeOK, MapsAgree
<1>5. DrawnLinesListed'
  <2> SUFFICES ASSUME NEW v \in Vertex, pair'[v] # None
               PROVE  \E i \in DOMAIN edges' : edges'[i] = <<v, pair'[v]>>
    BY DEF DrawnLinesListed
  <2>1. v \notin cut /\ pair'[v] = pair[v]
    BY <1>1
  <2>2. PICK j \in DOMAIN edges : edges[j] = <<v, pair[v]>>
    BY <2>1 DEF DrawnLinesListed
  <2>3. j # k
    BY <2>1, <2>2, <1>2
  <2> QED BY <2>1, <2>2, <2>3, <1>3
<1>6. ListedTargetsLive'
  BY <1>1, <1>3 DEF ListedTargetsLive, LiveVertices
<1> QED BY <1>4, <1>5, <1>6

LEMMA FrameKeepsCanvas ==
    ASSUME CanvasInv, Frame PROVE CanvasInv'
BY DEF CanvasInv, Frame, canvas, wires, mouse, EditorTypeOK, DrawThrows, MapsAgree,
       DrawnLinesListed, ListedTargetsLive, LiveVertices

\* Whatever script is loaded over whatever was drawn.
LEMMA LoadKeepsCanvas ==
    ASSUME CanvasInv, NEW s \in Script, LoadScript(s) PROVE CanvasInv'
<1> USE DEF CanvasInv
<1> DEFINE sound == IF Sound(s) THEN s.links ELSE <<>>
<1>1. s.nodes \subseteq Ids /\ s.links \in Links
  BY DEF Script
<1>2. sound \in Links /\ \A k \in DOMAIN sound :
                             sound[k][1] \in s.nodes /\ sound[k][2] \in s.nodes
  <2>1. CASE Sound(s)
    BY <2>1, <1>1 DEF Sound, Closed
  <2>2. CASE ~Sound(s)
    BY <2>2, EmptySeq DEF Links
  <2> QED BY <2>1, <2>2
<1>3. PICK links \in Listings(sound) : DrawLinks(links)
  BY DEF LoadScript
<1>4. /\ links \in Links
      /\ \A k \in DOMAIN links : \E m \in DOMAIN sound : links[k] = sound[m]
  <2> HIDE DEF sound
  <2> QED BY <1>2, <1>3, ListingIsReordering
<1>5. \A k \in DOMAIN links : links[k][1] \in s.nodes /\ links[k][2] \in s.nodes
  <2> HIDE DEF sound
  <2> QED BY <1>2, <1>4
<1> HIDE DEF sound
<1>6. DOMAIN links = 1 .. Len(links) /\ Len(links) \in Nat
  BY <1>4, LenProperties DEF Links
<1>7. MapsAgree'
  BY DEF LoadScript, MapsAgree
<1>8. edges' \in Seq(Vertex \X Vertex)
  <2>1. edges' \in [1 .. Len(links) -> Vertex \X Vertex]
    BY <1>1, <1>3, <1>5, <1>6, VerticesAreVertices DEF DrawLinks
  <2> QED BY <2>1, <1>6, SeqDef
<1>9. \A v \in Vertex : pair'[v] # None =>
         \E k \in DOMAIN links : v = Out(links[k][1]) /\ pair'[v] = In(links[k][2])
  <2> SUFFICES ASSUME NEW v \in Vertex, pair'[v] # None
               PROVE  \E k \in DOMAIN links : v = Out(links[k][1]) /\ pair'[v] = In(links[k][2])
    OBVIOUS
  <2>1. v = Out(v.node) /\ pair'[v] = LastOf(links, v.node) /\ v.node \in Ids
    BY <1>3 DEF DrawLinks, Vertex
  <2>2. PICK k \in DOMAIN links :
          links[k][1] = v.node /\ LastOf(links, v.node) = In(links[k][2])
    BY <2>1, <1>4, LastIsLink
  <2> QED BY <2>1, <2>2
<1>10. pair' \in [Vertex -> Vertex \cup {None}]
  <2>1. \A v \in Vertex : pair'[v] \in Vertex \cup {None}
    BY <1>9, <1>5, <1>1, VerticesAreVertices
  <2>2. pair' = [v \in Vertex |-> pair'[v]]
    BY <1>3 DEF DrawLinks
  <2> QED BY <2>1, <2>2
<1>11. hasEdge' \subseteq Vertex
  BY <1>1, <1>3, <1>5, RemovedIsVertex, VerticesAreVertices
  DEF DrawLinks, KeptRay, EditorTypeOK
<1>12. EditorTypeOK'
  <2>1. focusVertex' \in Vertex \cup {None} /\ (focusVertex' = None <=> focusVertex = None)
    BY RemovedIsVertex DEF EditorTypeOK, LoadScript
  <2>2. nodeHashUrl' \in [Urls -> Ids \cup {None}]
    BY <1>1 DEF LoadScript
  <2> QED BY <2>1, <2>2, <1>1, <1>8, <1>10, <1>11 DEF EditorTypeOK, LoadScript
<1>13. DrawnLinesListed'
  BY <1>3, <1>6, <1>9 DEF DrawLinks, DrawnLinesListed
<1>14. ListedTargetsLive'
  BY <1>3, <1>5, <1>6 DEF DrawLinks, ListedTargetsLive, LiveVertices, LoadScript, In
<1> QED BY <1>7, <1>12, <1>13, <1>14

-----------------------------------------------------------------------------
(***************************************************************************)
(* Scripts.                                                                *)
(***************************************************************************)

\* What is stored, sent or answered is nothing, null, or a script whose links
\* name its own nodes.
Whole(s) == s \in Body /\ (s \in {None, Null} \/ Closed(s))

StoreInv ==
    /\ TypeOK
    /\ \A n \in Names : Whole(config[n])
    /\ \A r \in requests : Whole(r.body)
    /\ \A s \in replies : Whole(s)
    /\ OnlyDemoIsCut

Inv == CanvasInv /\ StoreInv /\ CanvasDiesOnlyOfBlank

\* saveJericho goes through only when every line starts at a listed node.
LEMMA SavedScriptIsWhole ==
    ASSUME CanvasInv, Savable PROVE ScriptOf \in Script /\ Whole(ScriptOf)
<1> USE DEF CanvasInv, EditorTypeOK
<1>1. Len(edges) \in Nat /\ DOMAIN edges = 1 .. Len(edges)
  BY LenProperties
<1>2. \A k \in 1 .. Len(edges) : edges[k][1].node \in nodes /\ edges[k][2].node \in nodes
  BY <1>1 DEF Savable, ListedTargetsLive, LiveVertices
<1> DEFINE links == [k \in 1 .. Len(edges) |-> <<edges[k][1].node, edges[k][2].node>>]
<1>3. links \in Links
  <2>1. links \in [1 .. Len(edges) -> Ids \X Ids]
    BY <1>2
  <2> QED BY <1>1, <2>1, SeqDef DEF Links
<1>4. ScriptOf \in Script
  BY <1>3 DEF ScriptOf, Script
<1>5. Closed(ScriptOf)
  BY <1>2 DEF ScriptOf, Closed
<1> QED BY <1>4, <1>5 DEF Whole, Body

\* However a body is cut, no link of what is left names a node that is not.
LEMMA CutIsWhole ==
    ASSUME NEW s \in Script, Closed(s), NEW rest \in Cut(s) PROVE Whole(rest)
<1> USE DEF Whole, Body
<1>1. CASE rest = Null
  BY <1>1
<1>2. ASSUME NEW ns \in SUBSET s.nodes, NEW b \in BOOLEAN,
             rest = [nodes |-> ns, blank |-> b, links |-> <<>>]
      PROVE  Whole(rest)
  BY <1>2, EmptySeq DEF Script, Links, Closed
<1>3. ASSUME NEW links \in Listings(s.links), NEW k \in 0 .. Len(links),
             rest = [s EXCEPT !.links = SubSeq(links, 1, k)]
      PROVE  Whole(rest)
  <2>1. s.links \in Links
    BY DEF Script
  <2>2. /\ links \in Links
        /\ \A i \in DOMAIN links : \E m \in DOMAIN s.links : links[i] = s.links[m]
    BY <2>1, ListingIsReordering
  <2>3. Len(links) \in Nat /\ DOMAIN links = 1 .. Len(links)
    BY <2>2, LenProperties DEF Links
  <2>4. \A i \in 1 .. k : links[i] \in Ids \X Ids
    BY <2>2, <2>3, ElementOfSeq DEF Links
  <2>5. /\ SubSeq(links, 1, k) \in Links
        /\ DOMAIN SubSeq(links, 1, k) = 1 .. k
        /\ \A i \in 1 .. k : SubSeq(links, 1, k)[i] = links[i]
    BY <2>3, <2>4 DEF Links
  <2>6. rest \in Script /\ rest.nodes = s.nodes /\ rest.links = SubSeq(links, 1, k)
    BY <1>3, <2>5 DEF Script
  <2>7. Closed(rest)
    BY <2>2, <2>3, <2>5, <2>6 DEF Closed
  <2> QED BY <2>6, <2>7
<1> QED BY <1>1, <1>2, <1>3 DEF Cut

-----------------------------------------------------------------------------
(***************************************************************************)
(* The inductive invariant.                                                *)
(***************************************************************************)

LEMMA InitInv == Init => Inv
<1> SUFFICES ASSUME Init PROVE Inv
  OBVIOUS
<1>1. CanvasInv
  BY InitKeepsCanvas DEF Init
<1>2. StoreInv
  BY <1>1, StoreAssumption
  DEF Init, StoreInv, TypeOK, CanvasInv, Whole, Body, OnlyDemoIsCut
<1>3. CanvasDiesOnlyOfBlank
  BY DEF Init, InitEditor, CanvasDiesOnlyOfBlank, DrawThrows
<1> QED BY <1>1, <1>2, <1>3 DEF Inv

\* The handlers that touch only the canvas.
LEMMA CanvasStep ==
    ASSUME Inv, OnCanvas PROVE Inv'
<1> USE DEF Inv
<1>1. CanvasInv'
  BY CreateKeepsCanvas, ClearKeepsCanvas, ClickKeepsCanvas, CancelKeepsCanvas,
     ServerConnectKeepsCanvas, DisconnectKeepsCanvas, FrameKeepsCanvas
  DEF OnCanvas
<1>2. StoreInv'
  BY <1>1 DEF OnCanvas, store, StoreInv, TypeOK, CanvasInv, Whole, Body, OnlyDemoIsCut
<1>3. CanvasDiesOnlyOfBlank'
  <2>1. nodes' \subseteq observables'
    BY <1>1 DEF CanvasInv, MapsAgree
  <2>2. (blank' => blank) /\ (~alive' => ~alive \/ DrawThrows) /\ everBlank' = everBlank
    BY DEF OnCanvas, CreateNode, Clear, ClickVertex, CancelLine, Connect, Disconnect, Frame,
           canvas, CanvasInv, EditorTypeOK
  <2> QED BY <2>1, <2>2 DEF CanvasDiesOnlyOfBlank, DrawThrows
<1> QED BY <1>1, <1>2, <1>3

LEMMA CanvasUnchanged ==
    ASSUME CanvasInv, UNCHANGED editorVars PROVE CanvasInv'
BY DEF editorVars, canvas, wires, mouse, CanvasInv, EditorTypeOK, MapsAgree,
       DrawnLinesListed, ListedTargetsLive, LiveVertices

LEMMA StepInv == Inv /\ [Next]_vars => Inv'
<1> SUFFICES ASSUME Inv, [Next]_vars PROVE Inv'
  OBVIOUS
<1> USE DEF Inv
<1>1. CASE OnCanvas
  BY <1>1, CanvasStep
<1>2. CASE PressBlank
  <2>1. CanvasInv'
    BY <1>2, BlankKeepsCanvas DEF PressBlank
  <2> QED BY <1>2, <2>1 DEF PressBlank, AddBlank, store, StoreInv, TypeOK, CanvasInv,
                            Whole, Body, OnlyDemoIsCut, CanvasDiesOnlyOfBlank
<1>3. ASSUME NEW name \in Names, PressSave(name) PROVE Inv'
  <2> USE DEF PressSave
  <2>1. CanvasInv' /\ CanvasDiesOnlyOfBlank'
    BY <1>3, CanvasUnchanged
    DEF editorVars, canvas, CanvasDiesOnlyOfBlank, DrawThrows
  <2>2. ScriptOf \in Script /\ Whole(ScriptOf)
    BY <1>3, SavedScriptIsWhole
  <2>3. Save(name, ScriptOf) \in Request /\ Save(name, ScriptOf).body = ScriptOf
    BY <2>2 DEF Save, Request, Body
  <2>4. TypeOK'
    BY <1>3, <2>1, <2>2, <2>3 DEF StoreInv, TypeOK, CanvasInv
  <2>5. \A r \in requests' : Whole(r.body)
    BY <1>3, <2>2, <2>3 DEF StoreInv
  <2> QED BY <1>3, <2>1, <2>4, <2>5 DEF StoreInv, OnlyDemoIsCut, Whole, Body
<1>4. ASSUME NEW name \in Names, PressLoad(name) PROVE Inv'
  <2> USE DEF PressLoad
  <2>1. CanvasInv' /\ CanvasDiesOnlyOfBlank'
    BY <1>4, CanvasUnchanged
    DEF editorVars, canvas, CanvasDiesOnlyOfBlank, DrawThrows
  <2>2. /\ Load(name) \in Request /\ Load(name).op = "load"
        /\ Whole(Load(name).body)
    BY DEF Load, Request, Body, Whole
  <2> QED BY <1>4, <2>1, <2>2 DEF StoreInv, TypeOK, CanvasInv, OnlyDemoIsCut, Whole, Body
<1>5. ASSUME NEW body \in replies, ReceiveScript(body) PROVE Inv'
  <2> USE DEF ReceiveScript
  <2>1. CASE body \in {None, Null}
    <3>1. CanvasInv' /\ CanvasDiesOnlyOfBlank'
      BY <1>5, <2>1, CanvasUnchanged
      DEF editorVars, canvas, CanvasDiesOnlyOfBlank, DrawThrows
    <3> QED BY <1>5, <3>1 DEF StoreInv, TypeOK, CanvasInv, OnlyDemoIsCut, Whole, Body
  <2>2. CASE body \notin {None, Null}
    <3>1. body \in Script /\ LoadScript(body)
      BY <1>5, <2>2 DEF StoreInv, TypeOK, Body
    <3>2. CanvasInv'
      BY <3>1, LoadKeepsCanvas
    <3>3. CanvasDiesOnlyOfBlank'
      BY <1>5, <3>1 DEF LoadScript, CanvasDiesOnlyOfBlank, DrawThrows
    <3> QED BY <1>5, <3>2, <3>3 DEF StoreInv, TypeOK, CanvasInv, OnlyDemoIsCut, Whole, Body
  <2> QED BY <2>1, <2>2
<1>6. ASSUME NEW r \in requests, HandleSave(r) PROVE Inv'
  <2> USE DEF HandleSave
  <2>1. CanvasInv' /\ CanvasDiesOnlyOfBlank'
    BY <1>6, CanvasUnchanged
    DEF editorVars, canvas, CanvasDiesOnlyOfBlank, DrawThrows
  <2>2. r.name \in Names /\ r.body \in Script /\ Whole(r.body) /\ Closed(r.body)
    BY <1>6, StoreAssumption DEF StoreInv, TypeOK, Request, Whole
  <2>3. \A n \in Names : Whole(config'[n])
    <3>1. CASE config' = [config EXCEPT ![r.name] = r.body]
      BY <3>1, <2>2 DEF StoreInv, TypeOK
    <3>2. CASE \E rest \in Cut(r.body) : config' = [config EXCEPT ![DefaultFile(r)] = rest]
      BY <3>2, <2>2, CutIsWhole DEF StoreInv, TypeOK
    <3> QED BY <1>6, <3>1, <3>2
  <2>4. config' \in [Names -> Body]
    BY <1>6, <2>3 DEF StoreInv, TypeOK, Whole
  <2>5. OnlyDemoIsCut'
    BY <1>6, <2>2, StoreAssumption DEF StoreInv, TypeOK, OnlyDemoIsCut, DefaultFile
  <2> QED BY <1>6, <2>1, <2>3, <2>4, <2>5 DEF StoreInv, TypeOK, CanvasInv, Whole, Body
<1>7. ASSUME NEW r \in requests, HandleLoad(r) PROVE Inv'
  <2> USE DEF HandleLoad
  <2>1. CanvasInv' /\ CanvasDiesOnlyOfBlank'
    BY <1>7, CanvasUnchanged
    DEF editorVars, canvas, CanvasDiesOnlyOfBlank, DrawThrows
  <2>2. Whole(config[r.name]) /\ config[r.name] \in Body
    BY <1>7 DEF StoreInv, TypeOK, Request
  <2> QED BY <1>7, <2>1, <2>2 DEF StoreInv, TypeOK, CanvasInv, OnlyDemoIsCut, Whole, Body
<1>8. CASE UNCHANGED vars
  BY <1>8, CanvasUnchanged DEF vars, editorVars, canvas, StoreInv, TypeOK, CanvasInv,
     OnlyDemoIsCut, Whole, Body, CanvasDiesOnlyOfBlank, DrawThrows
<1> QED BY <1>1, <1>2, <1>3, <1>4, <1>5, <1>6, <1>7, <1>8 DEF Next

LEMMA Invariance == Spec => []Inv
BY InitInv, StepInv, PTL DEF Spec

-----------------------------------------------------------------------------
(***************************************************************************)
(* Results.                                                                *)
(***************************************************************************)

\* Every variable of the canvas, the page and the server keeps its type.
THEOREM TypeCorrect == Spec => []TypeOK
BY Invariance, PTL DEF Inv, StoreInv

\* A url stands for a node of the canvas, and every node can be drawn, however
\* createNode, clear and jerichoScript follow each other.
THEOREM MapsAlwaysAgree == Spec => []MapsAgree
BY Invariance, PTL DEF Inv, CanvasInv

\* Vertex.connect, disconnect and the list of edges stay together: a line that
\* is drawn is a line that is saved.
THEOREM DrawnLinesAreListed == Spec => []DrawnLinesListed
BY Invariance, PTL DEF Inv, CanvasInv

\* saveJericho reads the target of a line only at nodes of the canvas.
THEOREM TargetsAreLive == Spec => []ListedTargetsLive
BY Invariance, PTL DEF Inv, CanvasInv

\* loop() stops only after addNode was called with a string.
THEOREM CanvasStaysAlive == Spec => []CanvasDiesOnlyOfBlank
BY Invariance, PTL DEF Inv

\* What SaveScript stores, whole or cut, names no node that it lacks, and its
\* default name takes every body that does not parse.
THEOREM ScriptsStaySound == Spec => []ScriptsAreSound
<1>1. Inv => ScriptsAreClosed
  BY DEF Inv, StoreInv, Whole, ScriptsAreClosed
<1>2. Inv => OnlyDemoIsCut
  BY DEF Inv, StoreInv
<1> QED BY <1>1, <1>2, Invariance, PTL DEF ScriptsAreSound

LEMMA StepKeepsRay ==
    ASSUME Inv, [Next]_vars, RayLost', ~RayLost
    PROVE  \E src, dest \in Urls : Disconnect(src, dest)
<1> USE DEF RayLost, Inv, CanvasInv
<1>1. CASE OnCanvas
  <2>1. ASSUME NEW n \in Ids, CreateNode(n) PROVE FALSE
    BY <2>1 DEF CreateNode, wires, mouse
  <2>2. CASE Clear
    <3>1. focusVertex # None /\ focusVertex \in hasEdge /\ focusVertex' = Removed(focusVertex)
      BY <2>2 DEF Clear, ForgetWires, EditorTypeOK
    <3> QED BY <2>2, <3>1 DEF Clear, ForgetWires, KeptRay
  <2>3. ASSUME NEW v \in LiveVertices, ClickVertex(v) PROVE FALSE
    BY <2>3 DEF ClickVertex, mouse, EndsLine
  <2>4. CASE CancelLine
    BY <2>4 DEF CancelLine
  <2>5. ASSUME NEW src \in Urls, NEW dest \in Urls, Connect(src, dest) PROVE FALSE
    BY <2>5 DEF Connect, mouse
  <2>6. CASE Frame
    BY <2>6 DEF Frame, wires, mouse
  <2> QED BY <1>1, <2>1, <2>2, <2>3, <2>4, <2>5, <2>6 DEF OnCanvas
<1>2. ASSUME NEW body \in replies, ReceiveScript(body) PROVE FALSE
  <2>1. CASE UNCHANGED editorVars
    BY <2>1 DEF editorVars, wires, mouse
  <2>2. CASE LoadScript(body)
    <3>1. focusVertex # None /\ focusVertex \in hasEdge /\ focusVertex' = Removed(focusVertex)
      BY <2>2 DEF LoadScript, EditorTypeOK
    <3>2. Removed(focusVertex) \in hasEdge'
      BY <2>2, <3>1 DEF LoadScript, DrawLinks, KeptRay
    <3> QED BY <3>1, <3>2
  <2> QED BY <1>2, <2>1, <2>2 DEF ReceiveScript
<1>3. CASE PressBlank
  BY <1>3 DEF PressBlank, AddBlank, wires, mouse
<1>4. CASE UNCHANGED editorVars
  BY <1>4 DEF editorVars, wires, mouse
<1> QED BY <1>1, <1>2, <1>3, <1>4
        DEF Next, PressSave, PressLoad, HandleSave, HandleLoad, vars

\* mousemove finds an edge to stretch unless a "node-disconnect" took it.
THEOREM RayStays == Spec => RayLostToServerOnly
<1>1. Inv /\ [Next]_vars
        => [RayLost' /\ ~RayLost => \E src, dest \in Urls : Disconnect(src, dest)]_editorVars
  BY StepKeepsRay
<1> QED BY <1>1, Invariance, PTL DEF Spec, RayLostToServerOnly

=============================================================================
