-------------------------------- MODULE Feed --------------------------------
(***************************************************************************)
(* The live feed of the dashboard: values that the nodes report go through *)
(* the websocket (WsLink) into the chart of the page (Chart).  Loading a   *)
(* script opens another connection and replaces the charts; the handlers   *)
(* of the older connections go on plotting into the new ones.  graphMap is *)
(* never emptied: a bandwidth of a node that the last script does not list *)
(* is plotted into a chart that is off the page.                           *)
(***************************************************************************)
EXTENDS WsLink, Chart

CONSTANT
    Value       \* the number in a message

ASSUME FeedAssumption == Value \in [Messages -> Int]

VARIABLES
    chart,      \* the node's chart in graphMap
    received    \* history: the messages the page has plotted or dropped

feedVars == <<chart, received>>
vars == <<linkVars, chartVars, feedVars>>

Init ==
    /\ InitLink
    /\ InitChart
    /\ chart = "none"
    /\ received = {}

\* The reply of /load-script: socketTest, the old tabs go, and each node of the
\* script gets new charts.
LoadPage(s, listed) ==
    /\ AskSocket(s)
    /\ IF listed
       THEN NewChart /\ chart' = "shown"
       ELSE /\ chart' = IF chart = "none" THEN "none" ELSE "removed"
            /\ UNCHANGED chartVars
    /\ UNCHANGED <<ws, buf, queue, work, main, unsent, lone, early, wire, received>>

\* onmessage: a text that is not JSON is ignored, and without a chart for the
\* url the handler throws.
Receive(s) ==
    /\ phase[s] = "open" /\ wire[s] # <<>>
    /\ wire' = [wire EXCEPT ![s] = Tail(@)]
    /\ LET m == Head(wire[s])
       IN  /\ received' = IF m \in Messages THEN received \cup {m} ELSE received
           /\ IF m \in Messages /\ chart # "none"
              THEN AppendValue(Value[m])
              ELSE UNCHANGED chartVars
    /\ UNCHANGED <<ws, phase, buf, queue, work, main, unsent, lone, early, chart>>

Server ==
    /\ \/ \E s \in Sockets : Upgrade(s)
       \/ \E m \in Messages : SendClear(m)
       \/ SendCopy
       \/ \E w \in Workers : WorkerStep(w)
    /\ UNCHANGED <<chartVars, feedVars>>

View ==
    /\ chart = "shown"
    /\ ZoomIn \/ ZoomOut \/ DrawChart
    /\ UNCHANGED <<linkVars, feedVars>>

Next ==
    \/ \E s \in Sockets, listed \in BOOLEAN : LoadPage(s, listed)
    \/ \E s \in Sockets : Receive(s)
    \/ Server
    \/ View

\* The threads of the server run, and the page handles what has arrived.
Fairness ==
    /\ WF_vars(SendCopy /\ UNCHANGED <<chartVars, feedVars>>)
    /\ \A w \in Workers : WF_vars(WorkerStep(w) /\ UNCHANGED <<chartVars, feedVars>>)
    /\ \A s \in Sockets : WF_vars(Receive(s))

Spec == Init /\ [][Next]_vars /\ Fairness

-----------------------------------------------------------------------------
(***************************************************************************)
(* Properties of the feed.                                                 *)
(***************************************************************************)

TypeOK ==
    /\ LinkTypeOK
    /\ ChartTypeOK
    /\ chart \in {"none", "shown", "removed"}
    /\ received \subseteq Messages

\* A message written while its connection was open and quiet is plotted or
\* dropped by the page, unless another is written to the connection first.
LoneSendArrives ==
    \A s \in Sockets, m \in Messages :
        main = m /\ ws = s /\ phase[s] = "open" /\ lone[s] = m
            ~> m \in received \/ lone[s] # m

=============================================================================
