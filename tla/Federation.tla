----------------------------- MODULE Federation -----------------------------
(***************************************************************************)
(* Synchronous calls between nodes, and the rounds of federated learning   *)
(* that are made of them: Bifrost::send and Bifrost::broadcast of          *)
(* core/src/message/bifrost.cc, the routes of api/fl_api.h and             *)
(* api/bifrost.h that use them, and federator/aggregator.h.                *)
(*                                                                         *)
(* A node serves requests on one thread, one at a time.  A handler that    *)
(* calls starts one worker per destination and joins them all, so the node *)
(* accepts no connection and reads no request before every worker is done. *)
(* A worker needs the destination twice: to accept its connection, which   *)
(* it awaits for TIMEOUT2 seconds, and to answer, which it awaits as long  *)
(* as it takes.                                                            *)
(***************************************************************************)
EXTENDS Naturals, Sequences, FiniteSets, SequencesExt

CONSTANTS
  Leader,          \* 127.0.0.1:8080, role "main", has no parents
  Aggregator,      \* 127.0.0.1:8081, role "agg", whose parent is Leader
  Trainers,        \* the nodes of role "cli", which start without a federator
  Scripts          \* sets of requests: the browsers make those of one of them

Nodes == Trainers \cup {Leader, Aggregator}

BrowserRoutes == {"train", "join-network", "sync-rpc", "broadcast-sync-rpc"}
CallRoutes == {"join-network", "aggregate-model", "new-model", "sync-job", "broadcast-sync-job"}
Routes == BrowserRoutes \cup CallRoutes

\* The requests of browsers.  /train is for trainers and /join-network for
\* aggregators: the casts of fl_api.h have no meaning elsewhere.
Visits ==
  {v \in [node : Nodes, route : BrowserRoutes] :
     /\ v.route = "train" => v.node \in Trainers
     /\ v.route = "join-network" => v.node \notin Trainers}

ASSUME FederationAssumption ==
  /\ Leader # Aggregator
  /\ Leader \notin Trainers
  /\ Aggregator \notin Trainers
  /\ Scripts \subseteq SUBSET Visits

\* A request: from is its Host header, which for a browser is the node itself,
\* and call the number of the call it belongs to, 0 for a browser.
Requests == [route : Routes, from : Nodes, call : Nat]

NoRequest == [route |-> "none"]

VARIABLES
  unmade,          \* the requests browsers have still to make
  inbox,           \* the requests each node accepted and has not served
  task,            \* the request a node was serving when it called
  sends,           \* the route its call goes to, "nothing" when it does not call
  calls,           \* how many calls each node has made
  worker,          \* where fetch() is with the message to each destination
  clients,         \* _clients of each aggregator
  weights,         \* the keys of _weights of each aggregator
  trained,         \* trainers that completed a /train
  cut              \* callers one of whose messages got no response

vars == <<unmade, inbox, task, sends, calls, worker, clients, weights, trained, cut>>

\* "connecting" until TLS is set up, then "open" until there is a response.
WorkerStates == {"none", "connecting", "open", "answered", "failed"}

NoWorkers == [t \in Nodes |-> "none"]

Init ==
  /\ unmade \in Scripts
  /\ inbox = [n \in Nodes |-> {}]
  /\ task = [n \in Nodes |-> NoRequest]
  /\ sends = [n \in Nodes |-> "nothing"]
  /\ calls = [n \in Nodes |-> 0]
  /\ worker = [n \in Nodes |-> NoWorkers]
  /\ clients = [n \in Nodes |-> <<>>]
  /\ weights = [n \in Nodes |-> {}]
  /\ trained = {}
  /\ cut = {}

\* The thread of n is in the main loop, not in pthread_join.
Idle(n) == sends[n] = "nothing"

\* pthread_join of one of the workers of n has not returned.
Joining(n) == \E t \in Nodes : worker[n][t] \in {"connecting", "open"}

-----------------------------------------------------------------------------
(***************************************************************************)
(* Sending and answering.                                                  *)
(***************************************************************************)

\* send and broadcast: n calls the targets while it serves r.
Calls(n, r, targets, route) ==
  /\ task' = [task EXCEPT ![n] = r]
  /\ sends' = [sends EXCEPT ![n] = route]
  /\ calls' = [calls EXCEPT ![n] = @ + 1]
  /\ worker' = [worker EXCEPT ![n] =
       [t \in Nodes |-> IF t \in targets THEN "connecting" ELSE "none"]]

AnswersNobody(n, r) == worker

\* The workers after n wrote its response to r and closed the connection: the
\* one that sent r has its response, if it still reads.
Answered(n, r) ==
  [m \in Nodes |-> [t \in Nodes |->
     IF m = r.from /\ t = n /\ r.call = calls[m] /\ worker[m][t] = "open"
       THEN "answered" ELSE worker[m][t]]]

\* n serves r without calling anybody.
Answers(n, r) ==
  /\ worker' = Answered(n, r)
  /\ UNCHANGED <<task, sends, calls>>

\* The main loop of n takes up r.
Takes(n, r) ==
  /\ Idle(n)
  /\ r \in inbox[n]
  /\ inbox' = [inbox EXCEPT ![n] = @ \ {r}]

-----------------------------------------------------------------------------
(***************************************************************************)
(* The routes.                                                             *)
(***************************************************************************)

\* SyncJob, BroadcastSyncJob; NewModel, where stop() is always true
Reports(n, r) ==
  /\ r.route \in {"sync-job", "broadcast-sync-job", "new-model"}
  /\ Takes(n, r)
  /\ Answers(n, r)
  /\ UNCHANGED <<unmade, clients, weights, trained, cut>>

SyncRPC(n, r) ==
  /\ r.route = "sync-rpc"
  /\ Takes(n, r)
  /\ Calls(n, r, {Aggregator}, "sync-job")
  /\ UNCHANGED <<unmade, clients, weights, trained, cut>>

\* The ports 8081 to 8090: everybody but the leader, the caller included
BroadcastSyncRPC(n, r) ==
  /\ r.route = "broadcast-sync-rpc"
  /\ Takes(n, r)
  /\ Calls(n, r, Nodes \ {Leader}, "broadcast-sync-job")
  /\ UNCHANGED <<unmade, clients, weights, trained, cut>>

Train(n, r) ==
  /\ r.route = "train"
  /\ Takes(n, r)
  /\ Calls(n, r, {Aggregator}, "join-network")
  /\ UNCHANGED <<unmade, clients, weights, trained, cut>>

AddsItself(n, host) == Append(clients[n], n)

\* addClient
Joined(n, host) == Append(clients[n], host)

JoinNetwork(n, r) ==
  /\ r.route = "join-network"
  /\ Takes(n, r)
  /\ clients' = [clients EXCEPT ![n] = Joined(n, r.from)]
  /\ Answers(n, r)
  /\ UNCHANGED <<unmade, weights, trained, cut>>

AboveOne(n, stored) ==
  Len(clients[n]) # 0 /\ Cardinality(stored) \div Len(clients[n]) > 1

\* quorumMet: the quotient of two sizes is an integer, and _quorum is 0.8.
QuorumMet(n, stored) ==
  Len(clients[n]) # 0 /\ (Cardinality(stored) \div Len(clients[n])) * 10 > 8

StoredByRequest(n, r) == weights[n] \cup {r}

\* storeWeights: by the Host header
Stored(n, r) == weights[n] \cup {r.from}

\* hasAggregator
HasAggregator(n) == n = Aggregator

\* storeWeights, then fuse, then the model goes up or down.
AggregateModel(n, r) ==
  LET stored == Stored(n, r)
  IN /\ r.route = "aggregate-model"
     /\ Takes(n, r)
     /\ weights' = [weights EXCEPT ![n] = stored]
     /\ \/ ~QuorumMet(n, stored) /\ Answers(n, r)
        \/ QuorumMet(n, stored) /\ HasAggregator(n) /\ Calls(n, r, {Leader}, "aggregate-model")
        \/ QuorumMet(n, stored) /\ ~HasAggregator(n) /\ Calls(n, r, {Aggregator}, "new-model")
     /\ UNCHANGED <<unmade, clients, trained, cut>>

\* Both sends of Train are over only after the second: a failed first one does
\* not keep it from the second.
TrainSends(n) ==
  /\ ~Idle(n)
  /\ ~Joining(n)
  /\ task[n].route = "train"
  /\ sends[n] = "join-network"
  /\ Calls(n, task[n], {Aggregator}, "aggregate-model")
  /\ UNCHANGED <<unmade, inbox, clients, weights, trained, cut>>

\* The last pthread_join returns, the handler ends and n answers its request.
Finish(n) ==
  /\ ~Idle(n)
  /\ ~Joining(n)
  /\ ~(task[n].route = "train" /\ sends[n] = "join-network")
  /\ task' = [task EXCEPT ![n] = NoRequest]
  /\ sends' = [sends EXCEPT ![n] = "nothing"]
  /\ worker' = [Answered(n, task[n]) EXCEPT ![n] = NoWorkers]
  /\ trained' = IF task[n].route = "train" THEN trained \cup {n} ELSE trained
  /\ UNCHANGED <<unmade, inbox, calls, clients, weights, cut>>

-----------------------------------------------------------------------------
(***************************************************************************)
(* Connections.                                                            *)
(***************************************************************************)

\* A node that a browser sent a request to accepts it.
Visit(v) ==
  /\ v \in unmade
  /\ Idle(v.node)
  /\ unmade' = unmade \ {v}
  /\ inbox' = [inbox EXCEPT ![v.node] =
       @ \cup {[route |-> v.route, from |-> v.node, call |-> 0]}]
  /\ UNCHANGED <<task, sends, calls, worker, clients, weights, trained, cut>>

AlwaysAccepts(t) == TRUE

\* connection_setup runs on the thread of t.
Accepts(t) == Idle(t)

Connect(n, t) ==
  /\ worker[n][t] = "connecting"
  /\ Accepts(t)
  /\ worker' = [worker EXCEPT ![n][t] = "open"]
  /\ inbox' = [inbox EXCEPT ![t] =
       @ \cup {[route |-> sends[n], from |-> n, call |-> calls[n]]}]
  /\ UNCHANGED <<unmade, task, sends, calls, clients, weights, trained, cut>>

AwaitsConnection(n, t) == FALSE /\ UNCHANGED vars

\* The target refuses the connection, or SSL_connect waits TIMEOUT2 for it.
Unreached(n, t) ==
  /\ worker[n][t] = "connecting"
  /\ worker' = [worker EXCEPT ![n][t] = "failed"]
  /\ cut' = cut \cup {n}
  /\ UNCHANGED <<unmade, inbox, task, sends, calls, clients, weights, trained>>

\* fetch stops reading, after TIMEOUT2 of processor time: the request remains.
GiveUp(n, t) ==
  /\ worker[n][t] = "open"
  /\ worker' = [worker EXCEPT ![n][t] = "failed"]
  /\ cut' = cut \cup {n}
  /\ UNCHANGED <<unmade, inbox, task, sends, calls, clients, weights, trained>>

\* The target stops and closes the connection of a request it has not served.
Hangup(n, t, r) ==
  /\ worker[n][t] = "open"
  /\ r \in inbox[t]
  /\ r.from = n
  /\ r.call = calls[n]
  /\ inbox' = [inbox EXCEPT ![t] = @ \ {r}]
  /\ worker' = [worker EXCEPT ![n][t] = "failed"]
  /\ cut' = cut \cup {n}
  /\ UNCHANGED <<unmade, task, sends, calls, clients, weights, trained>>

-----------------------------------------------------------------------------
Serve(n, r) ==
  \/ Reports(n, r)
  \/ SyncRPC(n, r)
  \/ BroadcastSyncRPC(n, r)
  \/ Train(n, r)
  \/ JoinNetwork(n, r)
  \/ AggregateModel(n, r)

Return(n) == TrainSends(n) \/ Finish(n)

Reach(n, t) == Connect(n, t) \/ Unreached(n, t)

Next ==
  \/ \E v \in unmade : Visit(v)
  \/ \E n \in Nodes : Return(n) \/ \E r \in inbox[n] : Serve(n, r)
  \/ \E n, t \in Nodes :
       \/ Reach(n, t)
       \/ GiveUp(n, t)
       \/ \E r \in inbox[t] : Hangup(n, t, r)

Spec == Init /\ [][Next]_vars

(***************************************************************************)
(* The thread of a node runs, serves every client that select reports and  *)
(* comes back from pthread_join; a worker gets its connection or is told   *)
(* by connect or by SO_RCVTIMEO that there is none.  Nothing makes a       *)
(* worker give up on a response, a target stop or a browser ask.           *)
(***************************************************************************)
FairSpec ==
  /\ Spec
  /\ \A n \in Nodes : WF_vars(Return(n))
  /\ \A n \in Nodes : WF_vars(\E r \in inbox[n] : Serve(n, r))
  /\ \A n, t \in Nodes : WF_vars(Reach(n, t))

-----------------------------------------------------------------------------
(***************************************************************************)
(* Properties.                                                             *)
(***************************************************************************)

\* The type of every variable.
TypeOK ==
  /\ unmade \subseteq Visits
  /\ inbox \in [Nodes -> SUBSET Requests]
  /\ task \in [Nodes -> Requests \cup {NoRequest}]
  /\ sends \in [Nodes -> CallRoutes \cup {"nothing"}]
  /\ calls \in [Nodes -> Nat]
  /\ worker \in [Nodes -> [Nodes -> WorkerStates]]
  /\ clients \in [Nodes -> Seq(Nodes)]
  /\ weights \in [Nodes -> SUBSET Nodes]
  /\ trained \subseteq Nodes
  /\ cut \subseteq Nodes

\* n awaits the response of t, and no timer ends that.
Awaits(n, t) == worker[n][t] = "open"

\* However many nodes call each other from their handlers, they never wait for
\* each other's responses in a circle: every group of nodes has one that awaits
\* no other of them.  That t calls after it accepted n is why it could fail.
NoWaitCycle ==
  \A S \in SUBSET Nodes :
    S # {} => \E n \in S : \A t \in S : ~Awaits(n, t)

\* A node that awaits a response awaits one that will be written: its request
\* is with the target, waiting or being served, under the number of this call.
AwaitedRequestsExist ==
  \A n, t \in Nodes : Awaits(n, t) =>
    \E r \in inbox[t] \cup ({task[t]} \ {NoRequest}) :
      r.from = n /\ r.call = calls[n] /\ r.route = sends[n]

\* A trainer that completed /train, and always got a response, takes part in
\* the round: the aggregator counts it as a client and has its weights.
TrainedIsCounted ==
  \A n \in trained \ cut :
    n \in ToSet(clients[Aggregator]) /\ n \in weights[Aggregator]

\* When every client has delivered its weights, all messages having arrived and
\* the aggregator being done, the leader has the model of the aggregator: no
\* order of joins and deliveries leaves a complete round unfused.
CompleteRoundReachesLeader ==
  /\ cut = {}
  /\ Idle(Aggregator)
  /\ clients[Aggregator] # <<>>
  /\ ToSet(clients[Aggregator]) \subseteq weights[Aggregator]
  => Aggregator \in weights[Leader]

\* A node that calls comes back to its main loop, also when it calls itself or
\* calls a node that calls it.
CallsReturn == \A n \in Nodes : ~Idle(n) ~> Idle(n)
=============================================================================
