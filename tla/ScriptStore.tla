---------------------------- MODULE ScriptStore ----------------------------
(***************************************************************************)
(* The scripts of the dashboard: the canvas of NodeEditor, the buttons of  *)
(* the page that save it and load another (frontend/jsm/nebula/jquery.js), *)
(* and the server's files ./config/<name>.json (api/sys.h).                *)
(*                                                                         *)
(* Every request is a connection of its own, so requests and replies pass  *)
(* each other.  The server reads a request up to its first empty line and  *)
(* may then hold the body whole, cut anywhere, or not at all.              *)
(***************************************************************************)
EXTENDS NodeEditor

CONSTANTS
    Names,          \* the script names of the page
    Demo,           \* "demo-gui", where a script without a name goes
    Null,           \* the JSON value null
    MaxRequests,    \* bound: requests and replies under way
    MaxSaves,       \* bound: presses of the save button
    LaterEdges      \* bound: lines drawn on the canvas once a script was saved

ASSUME StoreAssumption ==
    /\ Demo \in Names
    /\ Null \notin Script /\ None \notin Script /\ Null # None
    /\ MaxRequests \in Nat /\ MaxSaves \in Nat /\ LaterEdges \in Nat

VARIABLES
    config,         \* the files: absent (None), null, or a script
    requests,       \* the requests the server has not handled
    replies,        \* the scripts the page has not received yet
    saves,          \* history: presses of the save button
    everBlank       \* history: a blank node was on the canvas once

vars == <<editorVars, config, requests, replies, saves, everBlank>>

store == <<config, requests, replies, saves>>

\* The file's text: none, null or a script.
Body == Script \cup {None, Null}

Save(name, s) == [op |-> "save", name |-> name, body |-> s]
Load(name)    == [op |-> "load", name |-> name, body |-> None]

Request == [op : {"save", "load"}, name : Names, body : Body]

Room == Cardinality(requests) + Cardinality(replies) < MaxRequests

-----------------------------------------------------------------------------

Init ==
    /\ InitEditor
    /\ minted = {}
    /\ config = [n \in Names |-> None]
    /\ requests = {} /\ replies = {}
    /\ saves = 0
    /\ everBlank = FALSE

(***************************************************************************)
(* The page.                                                               *)
(***************************************************************************)

\* #save-script with the name of the field, or the last one when it is empty
\* (loading sets none, so any name may meet any canvas).
PressSave(name) ==
    /\ Room
    /\ saves < MaxSaves /\ saves' = saves + 1
    /\ Savable
    /\ requests' = requests \cup {Save(name, ScriptOf)}
    /\ UNCHANGED <<editorVars, config, replies, everBlank>>

\* A click on a name of the list, which shows the files there are.
PressLoad(name) ==
    /\ Room
    /\ config[name] # None
    /\ requests' = requests \cup {Load(name)}
    /\ UNCHANGED <<editorVars, config, replies, saves, everBlank>>

\* The reply of /load-script: null and an error text throw in the page before
\* anything is cleared.
ReceiveScript(body) ==
    /\ body \in replies
    /\ replies' = replies \ {body}
    /\ IF body \in {None, Null} THEN UNCHANGED editorVars ELSE LoadScript(body)
    /\ UNCHANGED <<config, requests, saves, everBlank>>

PressBlank ==
    /\ AddBlank
    /\ everBlank' = TRUE
    /\ UNCHANGED store

\* The other handlers of the page touch the canvas only.
OnCanvas ==
    /\ \/ \E n \in Ids : CreateNode(n)
       \/ Clear
       \/ \E v \in LiveVertices : ClickVertex(v)
       \/ CancelLine
       \/ \E src, dest \in Urls : Connect(src, dest)
       \/ \E src, dest \in Urls : Disconnect(src, dest)
       \/ Frame
    /\ Len(edges') > Len(edges) /\ saves > 0 => Len(edges') <= LaterEdges
    /\ UNCHANGED <<store, everBlank>>

(***************************************************************************)
(* The server.                                                             *)
(***************************************************************************)

\* What the parser leaves of a body that ends too early: the value null, some
\* nodes (the last perhaps without its url), or the nodes and the first links.
Cut(s) ==
    {Null}
        \cup {[nodes |-> ns, blank |-> b, links |-> <<>>] : ns \in SUBSET s.nodes, b \in BOOLEAN}
        \cup UNION {{[s EXCEPT !.links = SubSeq(links, 1, k)] : k \in 0 .. Len(links)} :
                      links \in Listings(s.links)}

\* The file a cut body is written to, and the slip of using the name asked for.
NamedFile(r) == r.name
DefaultFile(r) == Demo

\* SaveScript takes the name from the object when the body parses, and writes
\* what the parser left to demo-gui when it does not.
HandleSave(r) ==
    /\ r \in requests /\ r.op = "save"
    /\ requests' = requests \ {r}
    /\ \/ config' = [config EXCEPT ![r.name] = r.body]
       \/ \E rest \in Cut(r.body) : config' = [config EXCEPT ![DefaultFile(r)] = rest]
    /\ UNCHANGED <<editorVars, replies, saves, everBlank>>

\* LoadScript answers with the file as it is now.
HandleLoad(r) ==
    /\ r \in requests /\ r.op = "load"
    /\ requests' = requests \ {r}
    /\ replies' = replies \cup {config[r.name]}
    /\ UNCHANGED <<editorVars, config, saves, everBlank>>

Next ==
    \/ OnCanvas
    \/ PressBlank
    \/ \E name \in Names : PressSave(name)
    \/ \E name \in Names : PressLoad(name)
    \/ \E body \in replies : ReceiveScript(body)
    \/ \E r \in requests : HandleSave(r)
    \/ \E r \in requests : HandleLoad(r)

Spec == Init /\ [][Next]_vars

-----------------------------------------------------------------------------
(***************************************************************************)
(* Properties.                                                             *)
(***************************************************************************)

TypeOK ==
    /\ EditorTypeOK
    /\ config \in [Names -> Body]
    /\ requests \subseteq Request
    /\ \A r \in requests : r.op = "save" => r.body \in Script
    /\ replies \subseteq Body
    /\ saves \in Nat
    /\ everBlank \in BOOLEAN

\* The canvas stops drawing for good only if one of the buttons that add a
\* string was pressed once: no order of creating, clearing, loading and server
\* messages makes a frame throw otherwise.
CanvasDiesOnlyOfBlank == ~alive \/ DrawThrows => everBlank

\* Every script under way or in a file, whole or cut, can be loaded again with
\* all its lines unless a blank node was saved with it or the cut fell inside a
\* node: no link of it names a node it does not have.
ScriptsAreClosed ==
    \A s \in {r.body : r \in requests} \cup replies \cup {config[n] : n \in Names} :
        s \in {None, Null} \/ Closed(s)

\* A body that arrives cut replaces no script but demo-gui: a file under
\* another name is there or not, and never null.
OnlyDemoIsCut == \A n \in Names \ {Demo} : config[n] # Null

\* However saves, loads and edits of the canvas alternate, what is stored can be
\* put back on a canvas.
ScriptsAreSound == ScriptsAreClosed /\ OnlyDemoIsCut

=============================================================================
