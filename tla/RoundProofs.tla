---------------------------- MODULE RoundProofs ----------------------------
(***************************************************************************)
(* What a call was made for, and what a round of federated learning brings *)
(* about, for every set of trainers and every set of requests of browsers. *)
(***************************************************************************)
EXTENDS FederationProofs, Lists

-----------------------------------------------------------------------------
(***************************************************************************)
(* The inductive invariant.                                                *)
(***************************************************************************)

\* The requests that reached t and have no response yet
Held(t) == inbox[t] \cup ({task[t]} \ {NoRequest})

\* A handler that calls knows what for, and its workers were started.
TasksSound ==
  \A n \in Nodes :
    /\ Idle(n) <=> task[n] = NoRequest
    /\ sends[n] = "join-network" => task[n].route = "train"
    /\ task[n].route # "join-network"
    /\ task[n].route = "train" =>
         sends[n] \in {"join-network", "aggregate-model"} /\ worker[n][Aggregator] # "none"
    /\ task[n].route = "aggregate-model" =>
         /\ task[n].from \in weights[n]
         /\ sends[n] = "aggregate-model" => worker[n][Leader] # "none"

\* The last call of a node is the one whose number it has: a request with that
\* number goes to the route the node calls.
RequestsSound ==
  \A t \in Nodes : \A r \in Held(t) :
    /\ r.call <= calls[r.from]
    /\ r.call = calls[r.from] /\ ~Idle(r.from) => r.route = sends[r.from]
    /\ r.route = "train" => r = [route |-> "train", from |-> t, call |-> 0]
    /\ r.route = "aggregate-model" /\ t = Aggregator =>
         r.from \in cut \cup ToSet(clients[Aggregator])

\* A response means that the request was served; without one the node is cut.
CallsSound ==
  \A n, t \in Nodes :
    /\ worker[n][t] = "failed" => n \in cut
    /\ worker[n][t] = "answered" =>
         /\ sends[n] = "join-network" => n \in ToSet(clients[t])
         /\ sends[n] = "aggregate-model" => n \in weights[t]
    /\ sends[n] = "aggregate-model" /\ worker[n][Aggregator] # "none" =>
         n \in cut \cup ToSet(clients[Aggregator])

\* The stages of a node on its way to the clients of the aggregator
WillJoin(n) ==
  \E v \in unmade : v.node = n /\ (v.route = "train" \/ (n = Aggregator /\ v.route = "join-network"))
MayTrain(n) == \E r \in inbox[n] : r.route = "train"
Joins(n) == sends[n] = "join-network" /\ worker[n][Aggregator] = "connecting"
AsksToJoin(n) == \E r \in inbox[Aggregator] : r.route = "join-network" /\ r.from = n
HasJoined(n) == n \in ToSet(clients[Aggregator])

\* No node is at two of them, so that none joins twice.
JoinsSound ==
  /\ \A n \in Nodes :
       /\ WillJoin(n) => ~MayTrain(n) /\ ~Joins(n) /\ ~AsksToJoin(n) /\ ~HasJoined(n)
       /\ MayTrain(n) => ~Joins(n) /\ ~AsksToJoin(n) /\ ~HasJoined(n)
       /\ Joins(n) => ~AsksToJoin(n) /\ ~HasJoined(n)
       /\ AsksToJoin(n) => ~HasJoined(n)
  /\ \A r, q \in inbox[Aggregator] :
       r.route = "join-network" /\ q.route = "join-network" /\ r.from = q.from => r = q
  /\ IsInjective(clients[Aggregator])

\* Weights come from clients, and when those of all are there the aggregator
\* has told the leader, or is about to.
RoundSound ==
  /\ weights[Aggregator] \subseteq cut \cup ToSet(clients[Aggregator])
  /\ cut = {} /\ clients[Aggregator] # <<>> /\ ToSet(clients[Aggregator]) \subseteq weights[Aggregator]
     => \/ Aggregator \in weights[Leader]
        \/ task[Aggregator].route = "aggregate-model" /\ sends[Aggregator] = "aggregate-model"

RoundInv ==
  /\ FreeInv
  /\ TasksSound
  /\ RequestsSound
  /\ CallsSound
  /\ JoinsSound
  /\ RoundSound
  /\ AwaitedRequestsExist
  /\ TrainedIsCounted

-----------------------------------------------------------------------------
(***************************************************************************)
(* What every step leaves true of requests and calls.                      *)
(***************************************************************************)

LEMMA NoRequestFacts ==
  /\ NoRequest \notin Requests /\ NoRequest.route = "none"
  /\ Leader \in Nodes /\ Aggregator \in Nodes
<1>1. NoRequest.route = "none"
  BY DEF NoRequest
<1>2. \A r \in Requests : r.route # "none"
  BY DEF Requests, Routes, BrowserRoutes, CallRoutes
<1> QED
  BY <1>1, <1>2 DEF Nodes

\* A request that is held is a request, and its sender a node.
LEMMA HeldTyped ==
  ASSUME TypeOK, NEW t \in Nodes, NEW r \in Held(t)
  PROVE  r \in Requests /\ r.from \in Nodes /\ r.call \in Nat /\ r.route \in Routes
<1>1. r \in Requests
  BY DEF TypeOK, Held
<1> QED
  BY <1>1 DEF Requests

\* Clients, weights and cut only grow.
Grows ==
  /\ cut \subseteq cut'
  /\ \A n \in Nodes : ToSet(clients[n]) \subseteq ToSet(clients'[n]) /\ weights[n] \subseteq weights'[n]

\* A node that calls takes the next number; a number that stays stands for the
\* same call, or for none.
NumbersMoveOn ==
  \A m \in Nodes :
    \/ calls'[m] = calls[m] /\ (sends'[m] = sends[m] \/ sends'[m] = "nothing")
    \/ calls'[m] = calls[m] + 1

LEMMA RequestsAfterStep ==
  ASSUME RoundInv, FreeInv', Grows, NumbersMoveOn,
         \A t \in Nodes : \A r \in Held(t)' :
           \/ r \in Held(t)
           \/ /\ r.call <= calls'[r.from]
              /\ r.call = calls'[r.from] /\ ~Idle(r.from)' => r.route = sends'[r.from]
              /\ r.route = "train" => r = [route |-> "train", from |-> t, call |-> 0]
              /\ r.route = "aggregate-model" /\ t = Aggregator =>
                   r.from \in cut' \cup ToSet(clients'[Aggregator])
  PROVE  RequestsSound'
<1> SUFFICES ASSUME NEW t \in Nodes, NEW r \in Held(t)'
             PROVE  /\ r.call <= calls'[r.from]
                    /\ r.call = calls'[r.from] /\ ~Idle(r.from)' => r.route = sends'[r.from]
                    /\ r.route = "train" => r = [route |-> "train", from |-> t, call |-> 0]
                    /\ r.route = "aggregate-model" /\ t = Aggregator =>
                         r.from \in cut' \cup ToSet(clients'[Aggregator])
  BY DEF RequestsSound, Idle
<1>1. SUFFICES ASSUME r \in Held(t)
               PROVE  /\ r.call <= calls'[r.from]
                      /\ r.call = calls'[r.from] /\ ~Idle(r.from)' => r.route = sends'[r.from]
                      /\ r.route = "train" => r = [route |-> "train", from |-> t, call |-> 0]
                      /\ r.route = "aggregate-model" /\ t = Aggregator =>
                           r.from \in cut' \cup ToSet(clients'[Aggregator])
  OBVIOUS
<1>2. r.from \in Nodes /\ r.call \in Nat
  BY <1>1, HeldTyped DEF RoundInv, FreeInv
<1>3. PICK m \in Nodes : m = r.from
  BY <1>2
<1>4. /\ r.call <= calls[m]
      /\ r.call = calls[m] /\ ~Idle(m) => r.route = sends[m]
      /\ r.route = "train" => r = [route |-> "train", from |-> t, call |-> 0]
      /\ r.route = "aggregate-model" /\ t = Aggregator => m \in cut \cup ToSet(clients[Aggregator])
  BY <1>1, <1>3 DEF RoundInv, RequestsSound
<1>5. calls[m] \in Nat
  BY DEF RoundInv, FreeInv, TypeOK
<1>6. m \in cut \cup ToSet(clients[Aggregator]) => m \in cut' \cup ToSet(clients'[Aggregator])
  BY NoRequestFacts DEF Grows
<1>7. CASE calls'[m] = calls[m] /\ (sends'[m] = sends[m] \/ sends'[m] = "nothing")
  BY <1>3, <1>4, <1>6, <1>7 DEF Idle
<1>8. CASE calls'[m] = calls[m] + 1
  <2>1. r.call <= calls'[m] /\ r.call # calls'[m]
    BY <1>2, <1>4, <1>5, <1>8
  <2> QED
    BY <1>3, <1>4, <1>6, <2>1
<1> QED
  BY <1>7, <1>8 DEF NumbersMoveOn

\* fetch ends with a response of a handler that served the request, or cuts.
LEMMA CallsAfterStep ==
  ASSUME RoundInv, Grows,
         \A m, t \in Nodes :
           \/ /\ sends'[m] = sends[m]
              /\ \/ worker'[m][t] = worker[m][t]
                 \/ worker[m][t] = "connecting" /\ worker'[m][t] = "open"
                 \/ worker[m][t] # "none" /\ worker'[m][t] = "failed" /\ m \in cut'
                 \/ /\ worker[m][t] = "open" /\ worker'[m][t] = "answered"
                    /\ sends[m] = "join-network" => m \in ToSet(clients'[t])
                    /\ sends[m] = "aggregate-model" => m \in weights'[t]
           \/ worker'[m][t] = "none"
           \/ /\ worker'[m][t] = "connecting"
              /\ sends'[m] = "aggregate-model" /\ t = Aggregator =>
                   m \in cut' \cup ToSet(clients'[Aggregator])
  PROVE  CallsSound'
<1> SUFFICES ASSUME NEW m \in Nodes, NEW t \in Nodes
             PROVE  /\ worker'[m][t] = "failed" => m \in cut'
                    /\ worker'[m][t] = "answered" =>
                         /\ sends'[m] = "join-network" => m \in ToSet(clients'[t])
                         /\ sends'[m] = "aggregate-model" => m \in weights'[t]
                    /\ t = Aggregator /\ sends'[m] = "aggregate-model" /\ worker'[m][t] # "none" =>
                         m \in cut' \cup ToSet(clients'[Aggregator])
  BY NoRequestFacts DEF CallsSound
<1>1. /\ worker[m][t] = "failed" => m \in cut
      /\ worker[m][t] = "answered" =>
           /\ sends[m] = "join-network" => m \in ToSet(clients[t])
           /\ sends[m] = "aggregate-model" => m \in weights[t]
      /\ t = Aggregator /\ sends[m] = "aggregate-model" /\ worker[m][t] # "none" =>
           m \in cut \cup ToSet(clients[Aggregator])
  BY DEF RoundInv, CallsSound
<1>2. /\ m \in cut => m \in cut'
      /\ m \in ToSet(clients[t]) => m \in ToSet(clients'[t])
      /\ m \in weights[t] => m \in weights'[t]
      /\ m \in ToSet(clients[Aggregator]) => m \in ToSet(clients'[Aggregator])
  BY NoRequestFacts DEF Grows
<1> QED
  BY <1>1, <1>2

\* A request stays with its target while its sender awaits the response.
LEMMA AwaitedAfterStep ==
  ASSUME RoundInv,
         \A m, t \in Nodes : worker'[m][t] = "open" =>
           \/ /\ worker[m][t] = "open" /\ sends'[m] = sends[m] /\ calls'[m] = calls[m]
              /\ \A r \in Held(t) : r.from = m /\ r.call = calls[m] => r \in Held(t)'
           \/ \E r \in Held(t)' : r.from = m /\ r.call = calls'[m] /\ r.route = sends'[m]
  PROVE  AwaitedRequestsExist'
<1> SUFFICES ASSUME NEW m \in Nodes, NEW t \in Nodes, worker'[m][t] = "open"
             PROVE  \E r \in Held(t)' : r.from = m /\ r.call = calls'[m] /\ r.route = sends'[m]
  BY DEF AwaitedRequestsExist, Awaits, Held
<1>1. worker[m][t] = "open" =>
        \E r \in Held(t) : r.from = m /\ r.call = calls[m] /\ r.route = sends[m]
  BY DEF RoundInv, AwaitedRequestsExist, Awaits, Held
<1> QED
  BY <1>1

\* Nobody gets nearer to the clients of the aggregator.
LEMMA JoinsAfterStep ==
  ASSUME RoundInv, unmade' \subseteq unmade, \A t \in Nodes : inbox'[t] \subseteq inbox[t],
         \A n \in Nodes : Joins(n)' => Joins(n),
         clients'[Aggregator] = clients[Aggregator]
  PROVE  JoinsSound'
<1>1. JoinsSound /\ Aggregator \in Nodes
  BY NoRequestFacts DEF RoundInv
<1>2. ASSUME NEW n \in Nodes
      PROVE  /\ WillJoin(n)' => WillJoin(n)
             /\ MayTrain(n)' => MayTrain(n)
             /\ Joins(n)' => Joins(n)
             /\ AsksToJoin(n)' => AsksToJoin(n)
             /\ HasJoined(n)' <=> HasJoined(n)
  BY <1>1 DEF WillJoin, MayTrain, AsksToJoin, HasJoined
<1>3. \A r, q \in inbox'[Aggregator] :
        r.route = "join-network" /\ q.route = "join-network" /\ r.from = q.from => r = q
  BY <1>1 DEF JoinsSound
<1> QED
  BY <1>1, <1>2, <1>3 DEF JoinsSound

\* The round is where it was, unless the aggregator was about to tell the leader.
LEMMA RoundAfterStep ==
  ASSUME RoundInv, Grows,
         clients'[Aggregator] = clients[Aggregator], weights'[Aggregator] = weights[Aggregator],
         \/ task'[Aggregator] = task[Aggregator] /\ sends'[Aggregator] = sends[Aggregator]
         \/ ~(task[Aggregator].route = "aggregate-model" /\ sends[Aggregator] = "aggregate-model")
  PROVE  RoundSound'
<1>1. weights'[Aggregator] \subseteq cut' \cup ToSet(clients'[Aggregator])
  BY DEF RoundInv, RoundSound, Grows
<1>2. ASSUME cut' = {}, clients'[Aggregator] # <<>>,
             ToSet(clients'[Aggregator]) \subseteq weights'[Aggregator]
      PROVE  \/ Aggregator \in weights'[Leader]
             \/ task'[Aggregator].route = "aggregate-model" /\ sends'[Aggregator] = "aggregate-model"
  <2>1. cut = {} /\ weights[Leader] \subseteq weights'[Leader]
    BY <1>2, NoRequestFacts DEF Grows
  <2> QED
    BY <1>2, <2>1 DEF RoundInv, RoundSound
<1> QED
  BY <1>1, <1>2 DEF RoundSound

-----------------------------------------------------------------------------
(***************************************************************************)
(* Calling.                                                                *)
(***************************************************************************)

\* The step changes who is called, and nothing about the round.
LEMMA CallsMoveOn ==
  ASSUME RoundInv, FreeInv', NEW n \in Nodes, NEW r \in Requests, NEW targets,
         NEW route \in CallRoutes, Calls(n, r, targets, route), Grows,
         \A t \in Nodes : Held(t)' = Held(t),
         route = "aggregate-model" /\ Aggregator \in targets =>
           n \in cut' \cup ToSet(clients'[Aggregator])
  PROVE  RequestsSound' /\ CallsSound' /\ AwaitedRequestsExist'
<1>1. TypeOK
  BY DEF RoundInv, FreeInv
<1>2. \A m \in Nodes : m # n => calls'[m] = calls[m] /\ sends'[m] = sends[m] /\ worker'[m] = worker[m]
  BY <1>1 DEF TypeOK, Calls
<1>3. calls'[n] = calls[n] + 1 /\ sends'[n] = route
  BY <1>1 DEF TypeOK, Calls
<1>4. \A t \in Nodes : worker'[n][t] = IF t \in targets THEN "connecting" ELSE "none"
  BY <1>1 DEF TypeOK, Calls
<1>5. NumbersMoveOn
  BY <1>2, <1>3 DEF NumbersMoveOn
<1>6. RequestsSound'
  BY <1>5, RequestsAfterStep
<1>7. CallsSound'
  <2>1. ASSUME NEW m \in Nodes, NEW t \in Nodes
        PROVE  \/ sends'[m] = sends[m] /\ worker'[m][t] = worker[m][t]
               \/ worker'[m][t] = "none"
               \/ /\ worker'[m][t] = "connecting"
                  /\ sends'[m] = "aggregate-model" /\ t = Aggregator =>
                       m \in cut' \cup ToSet(clients'[Aggregator])
    BY <1>2, <1>3, <1>4
  <2> QED
    BY <2>1, CallsAfterStep
<1>8. AwaitedRequestsExist'
  <2>1. ASSUME NEW m \in Nodes, NEW t \in Nodes, worker'[m][t] = "open"
        PROVE  /\ worker[m][t] = "open" /\ sends'[m] = sends[m] /\ calls'[m] = calls[m]
               /\ \A q \in Held(t) : q.from = m /\ q.call = calls[m] => q \in Held(t)'
    BY <1>2, <1>4, <2>1
  <2> QED
    BY <2>1, AwaitedAfterStep
<1> QED
  BY <1>6, <1>7, <1>8

\* The task of the one that calls has its workers, those of the others keep theirs.
LEMMA CallsKeepTasks ==
  ASSUME RoundInv, NEW n \in Nodes, NEW r \in Requests, NEW targets,
         NEW route \in CallRoutes, Calls(n, r, targets, route), Grows,
         r.route # "join-network",
         route = "join-network" => r.route = "train",
         r.route = "train" => route \in {"join-network", "aggregate-model"} /\ Aggregator \in targets,
         r.route = "aggregate-model" =>
           r.from \in weights'[n] /\ (route = "aggregate-model" => Leader \in targets)
  PROVE  TasksSound'
<1>1. TypeOK
  BY DEF RoundInv, FreeInv
<1> SUFFICES ASSUME NEW m \in Nodes
             PROVE  /\ sends'[m] = "nothing" <=> task'[m] = NoRequest
                    /\ sends'[m] = "join-network" => task'[m].route = "train"
                    /\ task'[m].route # "join-network"
                    /\ task'[m].route = "train" =>
                         /\ sends'[m] \in {"join-network", "aggregate-model"}
                         /\ worker'[m][Aggregator] # "none"
                    /\ task'[m].route = "aggregate-model" =>
                         /\ task'[m].from \in weights'[m]
                         /\ sends'[m] = "aggregate-model" => worker'[m][Leader] # "none"
  BY DEF TasksSound, Idle
<1>2. CASE m = n
  <2>1. task'[m] = r /\ sends'[m] = route /\ route # "nothing"
    BY <1>1, <1>2 DEF TypeOK, Calls, CallRoutes
  <2>2. \A t \in Nodes : worker'[m][t] = IF t \in targets THEN "connecting" ELSE "none"
    BY <1>1, <1>2 DEF TypeOK, Calls
  <2> QED
    BY <1>2, <2>1, <2>2, NoRequestFacts
<1>3. CASE m # n
  <2>1. task'[m] = task[m] /\ sends'[m] = sends[m] /\ worker'[m] = worker[m]
    BY <1>1, <1>3 DEF TypeOK, Calls
  <2>2. weights[m] \subseteq weights'[m]
    BY DEF Grows
  <2> QED
    BY <2>1, <2>2 DEF RoundInv, TasksSound, Idle
<1> QED
  BY <1>2, <1>3

\* A trainer that a round counts stays counted.
LEMMA CountedStay ==
  ASSUME RoundInv, Grows, trained' = trained
  PROVE  TrainedIsCounted'
BY NoRequestFacts DEF RoundInv, TrainedIsCounted, Grows

\* A handler takes up a request and calls: the request is still with its node.
LEMMA TakingHolds ==
  ASSUME RoundInv, NEW n \in Nodes, NEW r, Takes(n, r)
  PROVE  /\ r \in Requests /\ r \in Held(n) /\ task[n] = NoRequest
         /\ \A t \in Nodes : inbox'[t] \subseteq inbox[t] /\ (t # n => inbox'[t] = inbox[t])
         /\ inbox'[n] = inbox[n] \ {r}
         /\ r \in inbox[n] /\ Idle(n)
<1>1. TypeOK /\ TasksSound
  BY DEF RoundInv, FreeInv
<1> QED
  BY <1>1 DEF Takes, TypeOK, TasksSound, Held

LEMMA TakingAndCallingHolds ==
  ASSUME RoundInv, NEW n \in Nodes, NEW r, NEW targets, NEW route,
         Takes(n, r), Calls(n, r, targets, route)
  PROVE  \A t \in Nodes : Held(t)' = Held(t)
<1>1. \A t \in Nodes : task'[t] = IF t = n THEN r ELSE task[t]
  BY DEF RoundInv, FreeInv, TypeOK, Calls
<1>2. r # NoRequest
  BY TakingHolds, NoRequestFacts
<1> QED
  BY <1>1, <1>2, TakingHolds DEF Held

\* sync-rpc and broadcast-sync-rpc
LEMMA RemoteCallKeepsRound ==
  ASSUME RoundInv, FreeInv', NEW n \in Nodes, NEW r, SyncRPC(n, r) \/ BroadcastSyncRPC(n, r)
  PROVE  RoundInv'
<1>1. PICK targets, route :
        /\ route \in {"sync-job", "broadcast-sync-job"}
        /\ Calls(n, r, targets, route)
  BY DEF SyncRPC, BroadcastSyncRPC
<1>2. /\ r.route \in {"sync-rpc", "broadcast-sync-rpc"} /\ Takes(n, r)
      /\ UNCHANGED <<unmade, clients, weights, trained, cut>>
  BY DEF SyncRPC, BroadcastSyncRPC
<1>3. TypeOK /\ route \in CallRoutes /\ Grows
  BY <1>1, <1>2 DEF RoundInv, FreeInv, CallRoutes, Grows
<1>4. /\ r \in Requests /\ Idle(n)
      /\ \A t \in Nodes : inbox'[t] \subseteq inbox[t]
      /\ \A t \in Nodes : Held(t)' = Held(t)
  BY <1>1, <1>2, TakingHolds, TakingAndCallingHolds
<1>5. RequestsSound' /\ CallsSound' /\ AwaitedRequestsExist'
  BY <1>1, <1>3, <1>4, CallsMoveOn
<1>6. TasksSound'
  BY <1>1, <1>2, <1>3, <1>4, CallsKeepTasks
<1>7. \A m \in Nodes : sends'[m] = sends[m] \/ (m = n /\ sends'[m] = route)
  BY <1>1, <1>3 DEF TypeOK, Calls
<1>8. JoinsSound'
  <2>1. ASSUME NEW m \in Nodes, Joins(m)' PROVE Joins(m)
    <3>1. m # n
      BY <1>1, <1>3, <2>1 DEF Joins, TypeOK, Calls
    <3> QED
      BY <1>1, <1>3, <2>1, <3>1 DEF Joins, TypeOK, Calls
  <2> QED
    BY <1>2, <1>4, <2>1, JoinsAfterStep
<1>9. RoundSound'
  <2>1. CASE n = Aggregator
    BY <1>2, <1>3, <1>4, <2>1, RoundAfterStep DEF Idle
  <2>2. CASE n # Aggregator
    <3>1. task'[Aggregator] = task[Aggregator] /\ sends'[Aggregator] = sends[Aggregator]
      BY <1>1, <1>3, <2>2, NoRequestFacts DEF TypeOK, Calls
    <3> QED
      BY <1>2, <1>3, <3>1, RoundAfterStep
  <2> QED
    BY <2>1, <2>2
<1> QED
  BY <1>2, <1>3, <1>5, <1>6, <1>8, <1>9, CountedStay DEF RoundInv

\* The second call of train: the first one made n a client, or cut it.
LEMMA TrainSendsKeepsRound ==
  ASSUME RoundInv, FreeInv', NEW n \in Nodes, TrainSends(n)
  PROVE  RoundInv'
<1>1. /\ Calls(n, task[n], {Aggregator}, "aggregate-model")
      /\ task[n].route = "train" /\ sends[n] = "join-network" /\ ~Joining(n)
      /\ UNCHANGED <<unmade, inbox, clients, weights, trained, cut>>
  BY DEF TrainSends
<1>2. TypeOK /\ Grows /\ "aggregate-model" \in CallRoutes
  BY <1>1 DEF RoundInv, FreeInv, CallRoutes, Grows
<1>3. task[n] \in Requests
  BY <1>1, <1>2, NoRequestFacts DEF TypeOK
<1>4. \A t \in Nodes : Held(t)' = Held(t)
  <2>1. task' = task
    BY <1>1, <1>2 DEF TypeOK, Calls
  <2> QED
    BY <1>1, <2>1 DEF Held
<1>5. n \in cut' \cup ToSet(clients'[Aggregator])
  <2>1. worker[n][Aggregator] \in WorkerStates
    BY <1>2, NoRequestFacts DEF TypeOK
  <2>2. worker[n][Aggregator] \in {"answered", "failed"}
    BY <1>1, <2>1, NoRequestFacts DEF RoundInv, TasksSound, Joining, WorkerStates
  <2> QED
    BY <1>1, <2>2, NoRequestFacts DEF RoundInv, CallsSound
<1>6. RequestsSound' /\ CallsSound' /\ AwaitedRequestsExist'
  BY <1>1, <1>2, <1>3, <1>4, <1>5, CallsMoveOn
<1>7. TasksSound'
  BY <1>1, <1>2, <1>3, CallsKeepTasks
<1>8. JoinsSound'
  <2>1. ASSUME NEW m \in Nodes, Joins(m)' PROVE Joins(m)
    <3>1. m # n
      BY <1>1, <1>2, <2>1 DEF Joins, TypeOK, Calls
    <3> QED
      BY <1>1, <1>2, <2>1, <3>1 DEF Joins, TypeOK, Calls
  <2> QED
    BY <1>1, <2>1, JoinsAfterStep
<1>9. RoundSound'
  <2>1. CASE n = Aggregator
    BY <1>1, <1>2, <2>1, RoundAfterStep
  <2>2. CASE n # Aggregator
    <3>1. task'[Aggregator] = task[Aggregator] /\ sends'[Aggregator] = sends[Aggregator]
      BY <1>1, <1>2, <2>2, NoRequestFacts DEF TypeOK, Calls
    <3> QED
      BY <1>1, <1>2, <3>1, RoundAfterStep
  <2> QED
    BY <2>1, <2>2
<1> QED
  BY <1>1, <1>2, <1>6, <1>7, <1>8, <1>9, CountedStay DEF RoundInv

\* /train: the node goes from the browser's request to its call of join-network.
LEMMA TrainKeepsRound ==
  ASSUME RoundInv, FreeInv', NEW n \in Nodes, NEW r, Train(n, r)
  PROVE  RoundInv'
<1>1. /\ r.route = "train" /\ Takes(n, r)
      /\ Calls(n, r, {Aggregator}, "join-network")
      /\ UNCHANGED <<unmade, clients, weights, trained, cut>>
  BY DEF Train
<1>2. TypeOK /\ Grows /\ "join-network" \in CallRoutes
  BY <1>1 DEF RoundInv, FreeInv, CallRoutes, Grows
<1>3. /\ r \in Requests /\ Idle(n) /\ r \in inbox[n] /\ inbox'[n] = inbox[n] \ {r}
      /\ \A t \in Nodes : inbox'[t] \subseteq inbox[t]
      /\ \A t \in Nodes : Held(t)' = Held(t)
  BY <1>1, TakingHolds, TakingAndCallingHolds
<1>4. RequestsSound' /\ CallsSound' /\ AwaitedRequestsExist'
  BY <1>1, <1>2, <1>3, CallsMoveOn
<1>5. TasksSound'
  BY <1>1, <1>2, <1>3, CallsKeepTasks
<1>6. JoinsSound'
  <2>1. MayTrain(n)
    BY <1>1, <1>3 DEF MayTrain
  <2>2. ~MayTrain(n)'
    <3>1. \A q \in inbox[n] : q.route = "train" => q = [route |-> "train", from |-> n, call |-> 0]
      BY DEF RoundInv, RequestsSound, Held
    <3> QED
      BY <1>1, <1>3, <3>1 DEF MayTrain
  <2>3. ASSUME NEW m \in Nodes
        PROVE  /\ WillJoin(m)' <=> WillJoin(m)
               /\ MayTrain(m)' => MayTrain(m)
               /\ Joins(m)' => Joins(m) \/ m = n
               /\ AsksToJoin(m)' => AsksToJoin(m)
               /\ HasJoined(m)' <=> HasJoined(m)
    <3>1. m # n => sends'[m] = sends[m] /\ worker'[m] = worker[m]
      BY <1>1, <1>2 DEF TypeOK, Calls
    <3>2. inbox'[m] \subseteq inbox[m] /\ inbox'[Aggregator] \subseteq inbox[Aggregator]
      BY <1>3, NoRequestFacts
    <3> QED
      BY <1>1, <3>1, <3>2 DEF WillJoin, MayTrain, Joins, AsksToJoin, HasJoined
  <2>4. \A q, s \in inbox'[Aggregator] :
          q.route = "join-network" /\ s.route = "join-network" /\ q.from = s.from => q = s
    BY <1>3, NoRequestFacts DEF RoundInv, JoinsSound
  <2>5. JoinsSound
    BY DEF RoundInv
  <2>6. \A m \in Nodes :
          /\ WillJoin(m)' => ~MayTrain(m)' /\ ~Joins(m)' /\ ~AsksToJoin(m)' /\ ~HasJoined(m)'
          /\ MayTrain(m)' => ~Joins(m)' /\ ~AsksToJoin(m)' /\ ~HasJoined(m)'
          /\ Joins(m)' => ~AsksToJoin(m)' /\ ~HasJoined(m)'
          /\ AsksToJoin(m)' => ~HasJoined(m)'
    BY <2>1, <2>2, <2>3, <2>5 DEF JoinsSound
  <2> QED
    BY <1>1, <2>4, <2>5, <2>6 DEF JoinsSound
<1>7. RoundSound'
  <2>1. CASE n = Aggregator
    BY <1>1, <1>2, <1>3, <2>1, RoundAfterStep DEF Idle
  <2>2. CASE n # Aggregator
    <3>1. task'[Aggregator] = task[Aggregator] /\ sends'[Aggregator] = sends[Aggregator]
      BY <1>1, <1>2, <2>2, NoRequestFacts DEF TypeOK, Calls
    <3> QED
      BY <1>1, <1>2, <3>1, RoundAfterStep
  <2> QED
    BY <2>1, <2>2
<1> QED
  BY <1>1, <1>2, <1>4, <1>5, <1>6, <1>7, CountedStay DEF RoundInv

-----------------------------------------------------------------------------
(***************************************************************************)
(* Answering.                                                              *)
(***************************************************************************)

\* A response reaches the worker whose request was served, and no other: its
\* node is still in the call that the number and the route are of.
LEMMA AnsweredFacts ==
  ASSUME RoundInv, NEW n \in Nodes, NEW r \in Held(n), NEW m \in Nodes, NEW t \in Nodes
  PROVE  \/ /\ m = r.from /\ t = n /\ r.call = calls[m] /\ r.route = sends[m]
            /\ worker[m][t] = "open" /\ Answered(n, r)[m][t] = "answered"
         \/ /\ ~(m = r.from /\ t = n /\ r.call = calls[m] /\ worker[m][t] = "open")
            /\ Answered(n, r)[m][t] = worker[m][t]
<1>1. Answered(n, r)[m][t] =
        IF m = r.from /\ t = n /\ r.call = calls[m] /\ worker[m][t] = "open"
          THEN "answered" ELSE worker[m][t]
  BY DEF Answered
<1>2. worker[m][t] = "open" => ~Idle(m)
  BY DEF RoundInv, FreeInv, IdleIsFree, Joining
<1>3. m = r.from /\ r.call = calls[m] /\ ~Idle(m) => r.route = sends[m]
  BY DEF RoundInv, RequestsSound
<1> QED
  BY <1>1, <1>2, <1>3

\* n has served r: its response is written, and r is gone.
LEMMA ServedMovesOn ==
  ASSUME RoundInv, FreeInv', NEW n \in Nodes, NEW r \in Held(n), Grows, calls' = calls,
         \A m \in Nodes : sends'[m] = sends[m] \/ (sends'[m] = "nothing" /\ worker'[m] = NoWorkers),
         \A m, t \in Nodes : worker'[m][t] = Answered(n, r)[m][t] \/ worker'[m] = NoWorkers,
         \A t \in Nodes : Held(t)' \subseteq Held(t),
         \A t \in Nodes : Held(t) \subseteq Held(t)' \/ (t = n /\ Held(t) \ {r} \subseteq Held(t)'),
         r.route = "join-network" => r.from \in ToSet(clients'[n]),
         r.route = "aggregate-model" => r.from \in weights'[n]
  PROVE  RequestsSound' /\ CallsSound' /\ AwaitedRequestsExist'
<1>1. NumbersMoveOn
  BY DEF NumbersMoveOn
<1>2. RequestsSound'
  BY <1>1, RequestsAfterStep
<1>3. CallsSound'
  <2>1. ASSUME NEW m \in Nodes, NEW t \in Nodes
        PROVE  \/ /\ sends'[m] = sends[m]
                  /\ \/ worker'[m][t] = worker[m][t]
                     \/ /\ worker[m][t] = "open" /\ worker'[m][t] = "answered"
                        /\ sends[m] = "join-network" => m \in ToSet(clients'[t])
                        /\ sends[m] = "aggregate-model" => m \in weights'[t]
               \/ worker'[m][t] = "none"
    BY AnsweredFacts DEF NoWorkers
  <2> QED
    BY <2>1, CallsAfterStep
<1>4. AwaitedRequestsExist'
  <2>1. ASSUME NEW m \in Nodes, NEW t \in Nodes, worker'[m][t] = "open"
        PROVE  /\ worker[m][t] = "open" /\ sends'[m] = sends[m] /\ calls'[m] = calls[m]
               /\ \A q \in Held(t) : q.from = m /\ q.call = calls[m] => q \in Held(t)'
    <3>1. worker'[m] # NoWorkers
      BY <2>1 DEF NoWorkers
    <3>2. /\ worker[m][t] = "open" /\ sends'[m] = sends[m]
          /\ ~(m = r.from /\ t = n /\ r.call = calls[m])
      BY <2>1, <3>1, AnsweredFacts
    <3> QED
      BY <3>2
  <2> QED
    BY <2>1, AwaitedAfterStep
<1> QED
  BY <1>2, <1>3, <1>4

\* Tasks stay sound when no node calls: workers only get on, or their node is done.
LEMMA TasksAfterStep ==
  ASSUME RoundInv, Grows,
         \A m \in Nodes :
           \/ /\ task'[m] = task[m] /\ sends'[m] = sends[m]
              /\ \A t \in Nodes : worker[m][t] # "none" => worker'[m][t] # "none"
           \/ task'[m] = NoRequest /\ sends'[m] = "nothing"
  PROVE  TasksSound'
<1> SUFFICES ASSUME NEW m \in Nodes
             PROVE  /\ sends'[m] = "nothing" <=> task'[m] = NoRequest
                    /\ sends'[m] = "join-network" => task'[m].route = "train"
                    /\ task'[m].route # "join-network"
                    /\ task'[m].route = "train" =>
                         /\ sends'[m] \in {"join-network", "aggregate-model"}
                         /\ worker'[m][Aggregator] # "none"
                    /\ task'[m].route = "aggregate-model" =>
                         /\ task'[m].from \in weights'[m]
                         /\ sends'[m] = "aggregate-model" => worker'[m][Leader] # "none"
  BY DEF TasksSound, Idle
<1>1. CASE task'[m] = task[m] /\ sends'[m] = sends[m]
           /\ \A t \in Nodes : worker[m][t] # "none" => worker'[m][t] # "none"
  <2>1. weights[m] \subseteq weights'[m]
    BY DEF Grows
  <2> QED
    BY <1>1, <2>1, NoRequestFacts DEF RoundInv, TasksSound, Idle
<1>2. CASE task'[m] = NoRequest /\ sends'[m] = "nothing"
  BY <1>2, NoRequestFacts
<1> QED
  BY <1>1, <1>2

\* A handler answers without calling: what is the same for all routes.
LEMMA AnswersMoveOn ==
  ASSUME RoundInv, FreeInv', NEW n \in Nodes, NEW r, Takes(n, r), Answers(n, r), Grows,
         r.route = "join-network" => r.from \in ToSet(clients'[n]),
         r.route = "aggregate-model" => r.from \in weights'[n]
  PROVE  /\ RequestsSound' /\ CallsSound' /\ AwaitedRequestsExist' /\ TasksSound'
         /\ \A m \in Nodes : Joins(m)' => Joins(m)
<1>1. worker' = Answered(n, r) /\ task' = task /\ sends' = sends /\ calls' = calls
  BY DEF Answers
<1>2. /\ r \in Held(n) /\ inbox'[n] = inbox[n] \ {r}
      /\ \A t \in Nodes : inbox'[t] \subseteq inbox[t] /\ (t # n => inbox'[t] = inbox[t])
  BY TakingHolds
<1>3. /\ \A t \in Nodes : Held(t)' \subseteq Held(t)
      /\ \A t \in Nodes : Held(t) \subseteq Held(t)' \/ (t = n /\ Held(t) \ {r} \subseteq Held(t)')
  BY <1>1, <1>2 DEF Held
<1>4. \A m, t \in Nodes : worker'[m][t] = Answered(n, r)[m][t]
  BY <1>1
<1>5. RequestsSound' /\ CallsSound' /\ AwaitedRequestsExist'
  BY <1>1, <1>2, <1>3, <1>4, ServedMovesOn
<1>6. \A m, t \in Nodes : worker'[m][t] = worker[m][t] \/ worker'[m][t] = "answered"
  BY <1>2, <1>4, AnsweredFacts
<1>7. TasksSound'
  BY <1>1, <1>6, TasksAfterStep
<1>8. \A m \in Nodes : Joins(m)' => Joins(m)
  BY <1>1, <1>6, NoRequestFacts DEF Joins
<1> QED
  BY <1>5, <1>7, <1>8

\* sync-job, broadcast-sync-job and new-model
LEMMA ReportKeepsRound ==
  ASSUME RoundInv, FreeInv', NEW n \in Nodes, NEW r, Reports(n, r)
  PROVE  RoundInv'
<1>1. /\ r.route \in {"sync-job", "broadcast-sync-job", "new-model"}
      /\ Takes(n, r) /\ Answers(n, r)
      /\ UNCHANGED <<unmade, clients, weights, trained, cut>>
  BY DEF Reports
<1>2. Grows /\ task' = task /\ sends' = sends
  BY <1>1 DEF Grows, Answers
<1>3. /\ RequestsSound' /\ CallsSound' /\ AwaitedRequestsExist' /\ TasksSound'
      /\ \A m \in Nodes : Joins(m)' => Joins(m)
  BY <1>1, <1>2, AnswersMoveOn
<1>4. \A t \in Nodes : inbox'[t] \subseteq inbox[t]
  BY <1>1, TakingHolds
<1>5. JoinsSound'
  BY <1>1, <1>3, <1>4, JoinsAfterStep
<1>6. RoundSound'
  BY <1>1, <1>2, RoundAfterStep
<1> QED
  BY <1>1, <1>2, <1>3, <1>5, <1>6, CountedStay DEF RoundInv

-----------------------------------------------------------------------------
(***************************************************************************)
(* Joining, delivering weights, and the quorum.                            *)
(***************************************************************************)

\* join-network: the sender of the request becomes a client, for the first time
\* where the aggregator serves it.
LEMMA JoinNetworkKeepsRound ==
  ASSUME RoundInv, FreeInv', NEW n \in Nodes, NEW r, JoinNetwork(n, r)
  PROVE  RoundInv'
<1>1. /\ r.route = "join-network" /\ Takes(n, r) /\ Answers(n, r)
      /\ clients' = [clients EXCEPT ![n] = Append(clients[n], r.from)]
      /\ UNCHANGED <<unmade, weights, trained, cut>>
  BY DEF JoinNetwork, Joined
<1>2. TypeOK /\ task' = task /\ sends' = sends /\ worker' = Answered(n, r)
  BY <1>1 DEF RoundInv, FreeInv, Answers
<1>3. /\ r \in Requests /\ r \in inbox[n] /\ inbox'[n] = inbox[n] \ {r}
      /\ \A t \in Nodes : inbox'[t] \subseteq inbox[t]
  BY <1>1, TakingHolds
<1>4. r.from \in Nodes
  BY <1>3 DEF Requests
<1>5. PICK j \in Nodes : j = r.from
  BY <1>4
<1>6. /\ \A t \in Nodes : t # n => clients'[t] = clients[t]
      /\ clients'[n] = Append(clients[n], j)
      /\ \A t \in Nodes : clients[t] \in Seq(Nodes)
  BY <1>1, <1>2, <1>5 DEF TypeOK
<1>7. /\ ToSet(clients'[n]) = ToSet(clients[n]) \cup {j}
      /\ clients'[n] # <<>>
      /\ IsInjective(clients[n]) /\ j \notin ToSet(clients[n]) => IsInjective(clients'[n])
  BY <1>6, AppendAddsOne
<1>8. Grows
  BY <1>1, <1>6, <1>7 DEF Grows
<1>9. r.from \in ToSet(clients'[n])
  BY <1>5, <1>7
<1>10. /\ RequestsSound' /\ CallsSound' /\ AwaitedRequestsExist' /\ TasksSound'
       /\ \A m \in Nodes : Joins(m)' => Joins(m)
  BY <1>1, <1>8, <1>9, AnswersMoveOn
<1>11. CASE n # Aggregator
  <2>1. clients'[Aggregator] = clients[Aggregator]
    BY <1>6, <1>11, NoRequestFacts
  <2>2. JoinsSound'
    BY <1>1, <1>3, <1>10, <2>1, JoinsAfterStep
  <2>3. RoundSound'
    BY <1>1, <1>2, <1>8, <2>1, RoundAfterStep
  <2> QED
    BY <1>1, <1>8, <1>10, <2>2, <2>3, CountedStay DEF RoundInv
<1>12. CASE n = Aggregator
  <2>1. AsksToJoin(j) /\ ~HasJoined(j) /\ JoinsSound
    BY <1>1, <1>3, <1>5, <1>12 DEF RoundInv, JoinsSound, AsksToJoin
  <2>2. ~AsksToJoin(j)'
    BY <1>1, <1>3, <1>5, <1>12, <2>1 DEF JoinsSound, AsksToJoin
  <2>3. ASSUME NEW m \in Nodes
        PROVE  /\ WillJoin(m)' <=> WillJoin(m)
               /\ MayTrain(m)' => MayTrain(m)
               /\ Joins(m)' => Joins(m)
               /\ AsksToJoin(m)' => AsksToJoin(m)
               /\ HasJoined(m)' => HasJoined(m) \/ m = j
    BY <1>1, <1>3, <1>7, <1>10, <1>12, NoRequestFacts
       DEF WillJoin, MayTrain, AsksToJoin, HasJoined
  <2>4. \A q, s \in inbox'[Aggregator] :
          q.route = "join-network" /\ s.route = "join-network" /\ q.from = s.from => q = s
    BY <1>3, <2>1, NoRequestFacts DEF JoinsSound
  <2>5. IsInjective(clients'[Aggregator])
    BY <1>7, <1>12, <2>1 DEF JoinsSound, HasJoined
  <2>6. \A m \in Nodes :
          /\ WillJoin(m)' => ~MayTrain(m)' /\ ~Joins(m)' /\ ~AsksToJoin(m)' /\ ~HasJoined(m)'
          /\ MayTrain(m)' => ~Joins(m)' /\ ~AsksToJoin(m)' /\ ~HasJoined(m)'
          /\ Joins(m)' => ~AsksToJoin(m)' /\ ~HasJoined(m)'
          /\ AsksToJoin(m)' => ~HasJoined(m)'
    BY <2>1, <2>2, <2>3 DEF JoinsSound
  <2>7. JoinsSound'
    BY <2>4, <2>5, <2>6 DEF JoinsSound
  <2>8. RoundSound'
    <3>1. weights[Aggregator] \subseteq cut \cup ToSet(clients[Aggregator])
      BY DEF RoundInv, RoundSound
    <3>2. weights'[Aggregator] \subseteq cut' \cup ToSet(clients'[Aggregator])
      BY <1>1, <1>7, <1>12, <3>1
    <3>3. ~(cut' = {} /\ ToSet(clients'[Aggregator]) \subseteq weights'[Aggregator])
      BY <1>1, <1>7, <1>12, <2>1, <3>1 DEF HasJoined
    <3> QED
      BY <3>2, <3>3 DEF RoundSound
  <2> QED
    BY <1>1, <1>8, <1>10, <2>7, <2>8, CountedStay DEF RoundInv
<1> QED
  BY <1>11, <1>12

\* When the clients are those that delivered, the quotient of the quorum is 1.
LEMMA CompleteIsQuorum ==
  ASSUME RoundInv, cut = {}, clients[Aggregator] # <<>>, NEW stored,
         stored = ToSet(clients[Aggregator])
  PROVE  QuorumMet(Aggregator, stored)
<1>1. clients[Aggregator] \in Seq(Nodes)
  BY NoRequestFacts DEF RoundInv, FreeInv, TypeOK
<1>2. Cardinality(stored) = Len(clients[Aggregator])
  BY <1>1, DistinctEntriesCount DEF RoundInv, JoinsSound
<1>3. Len(clients[Aggregator]) \in Nat /\ Len(clients[Aggregator]) # 0
  BY <1>1, EmptySeq, LenProperties
<1>4. \A k \in Nat : k # 0 => k \div k = 1
  OBVIOUS
<1>5. Cardinality(stored) \div Len(clients[Aggregator]) = 1
  BY <1>2, <1>3, <1>4
<1> QED
  BY <1>3, <1>5 DEF QuorumMet

\* aggregate-model: the weights of the last client make the quorum.
LEMMA AggregateModelKeepsRound ==
  ASSUME RoundInv, FreeInv', NEW n \in Nodes, NEW r, AggregateModel(n, r)
  PROVE  RoundInv'
<1> DEFINE stored == weights[n] \cup {r.from}
<1>1. /\ r.route = "aggregate-model" /\ Takes(n, r)
      /\ weights' = [weights EXCEPT ![n] = stored]
      /\ \/ ~QuorumMet(n, stored) /\ Answers(n, r)
         \/ QuorumMet(n, stored) /\ n = Aggregator /\ Calls(n, r, {Leader}, "aggregate-model")
         \/ QuorumMet(n, stored) /\ n # Aggregator /\ Calls(n, r, {Aggregator}, "new-model")
      /\ UNCHANGED <<unmade, clients, trained, cut>>
  BY DEF AggregateModel, Stored, HasAggregator
<1>2. TypeOK
  BY DEF RoundInv, FreeInv
<1>3. /\ r \in Requests /\ r \in Held(n) /\ Idle(n)
      /\ \A t \in Nodes : inbox'[t] \subseteq inbox[t]
  BY <1>1, TakingHolds
<1>4. /\ weights'[n] = weights[n] \cup {r.from}
      /\ \A t \in Nodes : t # n => weights'[t] = weights[t]
  BY <1>1, <1>2 DEF TypeOK
<1>5. Grows
  BY <1>1, <1>4 DEF Grows
<1>6. r.from \in weights'[n]
  BY <1>4
\* What both ways to end have in common
<1>7. /\ RequestsSound' /\ CallsSound' /\ AwaitedRequestsExist' /\ TasksSound'
      /\ \A m \in Nodes : Joins(m)' => Joins(m)
  <2>1. CASE Answers(n, r)
    BY <1>1, <1>5, <1>6, <2>1, AnswersMoveOn
  <2>2. ASSUME NEW targets, NEW route \in {"aggregate-model", "new-model"}, Calls(n, r, targets, route),
               route = "aggregate-model" => Leader \in targets /\ Aggregator \notin targets
        PROVE  /\ RequestsSound' /\ CallsSound' /\ AwaitedRequestsExist' /\ TasksSound'
               /\ \A m \in Nodes : Joins(m)' => Joins(m)
    <3>1. route \in CallRoutes
      BY DEF CallRoutes
    <3>2. \A t \in Nodes : Held(t)' = Held(t)
      BY <1>1, <2>2, TakingAndCallingHolds
    <3>3. RequestsSound' /\ CallsSound' /\ AwaitedRequestsExist'
      BY <1>3, <1>5, <2>2, <3>1, <3>2, CallsMoveOn
    <3>4. TasksSound'
      BY <1>1, <1>3, <1>5, <1>6, <2>2, <3>1, CallsKeepTasks
    <3>5. ASSUME NEW m \in Nodes, Joins(m)' PROVE Joins(m)
      <4>1. m # n
        BY <1>2, <2>2, <3>5 DEF Joins, TypeOK, Calls
      <4> QED
        BY <1>2, <2>2, <3>5, <4>1 DEF Joins, TypeOK, Calls
    <3> QED
      BY <3>3, <3>4, <3>5
  <2>3. Leader # Aggregator
    BY FederationAssumption
  <2> QED
    BY <1>1, <2>1, <2>2, <2>3
<1>8. JoinsSound'
  BY <1>1, <1>3, <1>7, JoinsAfterStep
<1>9. RoundSound'
  <2>1. CASE n # Aggregator
    <3>1. weights'[Aggregator] = weights[Aggregator]
      BY <1>4, <2>1, NoRequestFacts
    <3>2. task'[Aggregator] = task[Aggregator] /\ sends'[Aggregator] = sends[Aggregator]
      BY <1>1, <1>2, <2>1, NoRequestFacts DEF TypeOK, Answers, Calls
    <3> QED
      BY <1>1, <1>5, <3>1, <3>2, RoundAfterStep
  <2>2. CASE n = Aggregator
    <3>1. r.from \in cut \cup ToSet(clients[Aggregator])
      BY <1>1, <1>3, <2>2 DEF RoundInv, RequestsSound
    <3>2. weights[Aggregator] \subseteq cut \cup ToSet(clients[Aggregator])
      BY DEF RoundInv, RoundSound
    <3>3. weights'[Aggregator] \subseteq cut' \cup ToSet(clients'[Aggregator])
      BY <1>1, <1>4, <2>2, <3>1, <3>2
    <3>4. ASSUME cut' = {}, clients'[Aggregator] # <<>>,
                 ToSet(clients'[Aggregator]) \subseteq weights'[Aggregator]
          PROVE  task'[Aggregator].route = "aggregate-model" /\ sends'[Aggregator] = "aggregate-model"
      <4>1. stored = ToSet(clients[Aggregator])
        BY <1>1, <1>4, <2>2, <3>1, <3>2, <3>4
      <4>2. QuorumMet(Aggregator, stored)
        BY <1>1, <3>4, <4>1, CompleteIsQuorum
      <4>3. Calls(Aggregator, r, {Leader}, "aggregate-model")
        BY <1>1, <2>2, <4>2
      <4>4. task'[Aggregator] = r /\ sends'[Aggregator] = "aggregate-model"
        BY <1>2, <4>3, NoRequestFacts DEF TypeOK, Calls
      <4> QED
        BY <1>1, <4>4
    <3> QED
      BY <3>3, <3>4 DEF RoundSound
  <2> QED
    BY <2>1, <2>2
<1> QED
  BY <1>1, <1>5, <1>7, <1>8, <1>9, CountedStay DEF RoundInv

-----------------------------------------------------------------------------
(***************************************************************************)
(* The end of a call.                                                      *)
(***************************************************************************)

\* Every worker that was started has its response, or its node is cut.
LEMMA JoinedWorkerFacts ==
  ASSUME RoundInv, NEW n \in Nodes, ~Joining(n), NEW t \in Nodes, worker[n][t] # "none"
  PROVE  \/ n \in cut
         \/ /\ sends[n] = "join-network" => n \in ToSet(clients[t])
            /\ sends[n] = "aggregate-model" => n \in weights[t]
<1>1. worker[n][t] \in WorkerStates
  BY DEF RoundInv, FreeInv, TypeOK
<1>2. worker[n][t] \in {"answered", "failed"}
  BY <1>1 DEF WorkerStates, Joining
<1> QED
  BY <1>2 DEF RoundInv, CallsSound

LEMMA FinishKeepsRound ==
  ASSUME RoundInv, FreeInv', NEW n \in Nodes, Finish(n)
  PROVE  RoundInv'
<1>1. /\ ~Idle(n) /\ ~Joining(n)
      /\ ~(task[n].route = "train" /\ sends[n] = "join-network")
      /\ task' = [task EXCEPT ![n] = NoRequest]
      /\ sends' = [sends EXCEPT ![n] = "nothing"]
      /\ worker' = [Answered(n, task[n]) EXCEPT ![n] = NoWorkers]
      /\ trained' = IF task[n].route = "train" THEN trained \cup {n} ELSE trained
      /\ UNCHANGED <<unmade, inbox, calls, clients, weights, cut>>
  BY DEF Finish
<1>2. TypeOK /\ Grows
  BY <1>1 DEF RoundInv, FreeInv, Grows
<1>3. /\ task'[n] = NoRequest /\ sends'[n] = "nothing"
      /\ \A m \in Nodes : m # n => task'[m] = task[m] /\ sends'[m] = sends[m]
  BY <1>1, <1>2 DEF TypeOK
<1>4. \A m \in Nodes : worker'[m] = IF m = n THEN NoWorkers ELSE Answered(n, task[n])[m]
  BY <1>1, <1>2, AnsweredType
<1>5. /\ \A t \in Nodes : Held(t)' \subseteq Held(t)
      /\ \A t \in Nodes : Held(t) \subseteq Held(t)' \/ (t = n /\ Held(t) \ {task[n]} \subseteq Held(t)')
  BY <1>1, <1>3 DEF Held
<1>6. task[n] \in Requests /\ task[n] \in Held(n)
  <2>1. task[n] # NoRequest
    BY <1>1 DEF RoundInv, TasksSound
  <2> QED
    BY <1>2, <2>1 DEF TypeOK, Held
\* Its route is not join-network, and the weights it brought are there.
<1>7. /\ task[n].route # "join-network"
      /\ task[n].route = "aggregate-model" => task[n].from \in weights'[n]
  BY <1>1 DEF RoundInv, TasksSound
<1>8. \A m, t \in Nodes : worker'[m][t] = Answered(n, task[n])[m][t] \/ worker'[m] = NoWorkers
  BY <1>4
<1>9. \A m \in Nodes : sends'[m] = sends[m] \/ (sends'[m] = "nothing" /\ worker'[m] = NoWorkers)
  BY <1>3, <1>4
<1>10. RequestsSound' /\ CallsSound' /\ AwaitedRequestsExist'
  BY <1>1, <1>2, <1>5, <1>6, <1>7, <1>8, <1>9, ServedMovesOn
<1>11. \A m, t \in Nodes : m # n =>
         worker'[m][t] = worker[m][t] \/ (worker[m][t] = "open" /\ worker'[m][t] = "answered")
  BY <1>4, <1>6, AnsweredFacts
<1>12. TasksSound'
  BY <1>2, <1>3, <1>11, TasksAfterStep
<1>13. JoinsSound'
  <2>1. ASSUME NEW m \in Nodes, Joins(m)' PROVE Joins(m)
    <3>1. m # n
      BY <1>3, <2>1 DEF Joins
    <3> QED
      BY <1>3, <1>11, <2>1, <3>1, NoRequestFacts DEF Joins
  <2> QED
    BY <1>1, <2>1, JoinsAfterStep
<1>14. RoundSound'
  <2>1. CASE n # Aggregator
    BY <1>1, <1>2, <1>3, <2>1, NoRequestFacts, RoundAfterStep
  <2>2. CASE n = Aggregator
    <3>1. CASE task[n].route = "aggregate-model" /\ sends[n] = "aggregate-model"
      <4>1. worker[n][Leader] # "none"
        BY <3>1 DEF RoundInv, TasksSound
      <4>2. n \in cut \/ n \in weights[Leader]
        BY <1>1, <3>1, <4>1, NoRequestFacts, JoinedWorkerFacts
      <4>3. weights'[Aggregator] \subseteq cut' \cup ToSet(clients'[Aggregator])
        BY <1>1 DEF RoundInv, RoundSound
      <4> QED
        BY <1>1, <2>2, <4>2, <4>3 DEF RoundSound
    <3>2. CASE ~(task[n].route = "aggregate-model" /\ sends[n] = "aggregate-model")
      BY <1>1, <1>2, <2>2, <3>2, RoundAfterStep
    <3> QED
      BY <3>1, <3>2
  <2> QED
    BY <2>1, <2>2
\* A trainer that is done has sent its weights last: it is a client since the
\* call before, and the aggregator has them.
<1>15. TrainedIsCounted'
  <2>1. ASSUME task[n].route = "train", n \notin cut
        PROVE  n \in ToSet(clients[Aggregator]) /\ n \in weights[Aggregator]
    <3>1. sends[n] = "aggregate-model" /\ worker[n][Aggregator] # "none"
      BY <1>1, <2>1 DEF RoundInv, TasksSound
    <3>2. n \in weights[Aggregator]
      BY <1>1, <2>1, <3>1, NoRequestFacts, JoinedWorkerFacts
    <3>3. n \in ToSet(clients[Aggregator])
      BY <2>1, <3>1, NoRequestFacts DEF RoundInv, CallsSound
    <3> QED
      BY <3>2, <3>3
  <2> QED
    BY <1>1, <2>1 DEF RoundInv, TrainedIsCounted
<1> QED
  BY <1>10, <1>12, <1>13, <1>14, <1>15 DEF RoundInv

-----------------------------------------------------------------------------
(***************************************************************************)
(* Connections.                                                            *)
(***************************************************************************)

\* A browser's request has the number 0, which no call of a busy node has.
LEMMA VisitKeepsRound ==
  ASSUME RoundInv, FreeInv', NEW v \in unmade, Visit(v)
  PROVE  RoundInv'
<1>1. v \in Visits /\ v.node \in Nodes
  BY DEF RoundInv, FreeInv, TypeOK, Visits
<1>2. PICK n \in Nodes : n = v.node
  BY <1>1
<1> DEFINE q == [route |-> v.route, from |-> n, call |-> 0]
<1>3. /\ Idle(n) /\ unmade' = unmade \ {v}
      /\ inbox' = [inbox EXCEPT ![n] = @ \cup {q}]
      /\ UNCHANGED <<task, sends, calls, worker, clients, weights, trained, cut>>
  BY <1>2 DEF Visit
<1>4. TypeOK /\ Grows /\ NumbersMoveOn
  BY <1>3 DEF RoundInv, FreeInv, Grows, NumbersMoveOn
<1>5. /\ inbox'[n] = inbox[n] \cup {q}
      /\ \A t \in Nodes : t # n => inbox'[t] = inbox[t]
  BY <1>3, <1>4 DEF TypeOK
<1>6. q.route = v.route /\ q.from = n /\ q.call = 0 /\ v.route \in BrowserRoutes
  BY <1>1 DEF Visits
<1>7. /\ \A t \in Nodes : Held(t) \subseteq Held(t)'
      /\ \A t \in Nodes : \A r \in Held(t)' : r \in Held(t) \/ (t = n /\ r = q)
  BY <1>3, <1>5 DEF Held
<1>8. RequestsSound'
  <2>1. calls[n] \in Nat
    BY <1>4 DEF TypeOK
  <2>2. /\ q.call <= calls'[q.from]
        /\ ~(~Idle(q.from)')
        /\ q.route = "train" => q = [route |-> "train", from |-> n, call |-> 0]
        /\ q.route # "aggregate-model"
    BY <1>3, <1>6, <2>1 DEF Idle, BrowserRoutes
  <2>3. \A t \in Nodes : \A r \in Held(t)' :
           \/ r \in Held(t)
           \/ /\ r.call <= calls'[r.from]
              /\ r.call = calls'[r.from] /\ ~Idle(r.from)' => r.route = sends'[r.from]
              /\ r.route = "train" => r = [route |-> "train", from |-> t, call |-> 0]
              /\ r.route = "aggregate-model" /\ t = Aggregator =>
                   r.from \in cut' \cup ToSet(clients'[Aggregator])
    BY <1>7, <2>2
  <2> QED
    BY <1>4, <2>3, RequestsAfterStep
<1>9. CallsSound'
  BY <1>3, <1>4, CallsAfterStep
<1>10. AwaitedRequestsExist'
  BY <1>3, <1>7, AwaitedAfterStep
<1>11. TasksSound'
  BY <1>3, <1>4, TasksAfterStep
<1>12. JoinsSound'
  <2>1. JoinsSound
    BY DEF RoundInv
  <2>2. ASSUME NEW m \in Nodes
        PROVE  /\ WillJoin(m)' => WillJoin(m)
               /\ MayTrain(m)' => MayTrain(m) \/ (m = n /\ v.route = "train")
               /\ Joins(m)' <=> Joins(m)
               /\ AsksToJoin(m)' =>
                    AsksToJoin(m) \/ (m = n /\ n = Aggregator /\ v.route = "join-network")
               /\ HasJoined(m)' <=> HasJoined(m)
    <3>1. \A r \in inbox'[m] : r \in inbox[m] \/ (m = n /\ r = q)
      BY <1>5
    <3>2. \A r \in inbox'[Aggregator] : r \in inbox[Aggregator] \/ (Aggregator = n /\ r = q)
      BY <1>5, NoRequestFacts
    <3> QED
      BY <1>3, <1>6, <3>1, <3>2 DEF WillJoin, MayTrain, Joins, AsksToJoin, HasJoined
  \* The request was the only one of its kind to come.
  <2>3. v.route = "train" \/ (n = Aggregator /\ v.route = "join-network") =>
          WillJoin(n) /\ ~WillJoin(n)'
    <3>1. ASSUME NEW w \in unmade, w # v, w.node = n,
                 v.route = "train" \/ (n = Aggregator /\ v.route = "join-network")
          PROVE  ~(w.route = "train" \/ (n = Aggregator /\ w.route = "join-network"))
      <4>1. w \in Visits /\ w = [node |-> w.node, route |-> w.route]
        BY <1>4 DEF TypeOK, Visits
      <4>2. v = [node |-> v.node, route |-> v.route]
        BY <1>1 DEF Visits
      <4>3. w.route # v.route
        BY <1>2, <3>1, <4>1, <4>2
      <4>4. n = Aggregator => v.route # "train" /\ w.route # "train"
        BY <1>1, <1>2, <3>1, <4>1, FederationAssumption DEF Visits
      <4> QED
        BY <3>1, <4>3, <4>4
    <3> QED
      BY <1>2, <1>3, <3>1 DEF WillJoin
  <2>4. \A r, s \in inbox'[Aggregator] :
          r.route = "join-network" /\ s.route = "join-network" /\ r.from = s.from => r = s
    <3>1. CASE n = Aggregator /\ v.route = "join-network"
      <4>1. ~AsksToJoin(n)
        BY <2>1, <2>3, <3>1 DEF JoinsSound
      <4>2. \A r \in inbox[Aggregator] : r.route = "join-network" => r.from # n
        BY <4>1 DEF AsksToJoin
      <4> QED
        BY <1>5, <1>6, <2>1, <3>1, <4>2 DEF JoinsSound
    <3>2. CASE ~(n = Aggregator /\ v.route = "join-network")
      <4>1. \A r \in inbox'[Aggregator] : r.route = "join-network" => r \in inbox[Aggregator]
        BY <1>5, <1>6, <3>2, NoRequestFacts
      <4> QED
        BY <2>1, <4>1 DEF JoinsSound
    <3> QED
      BY <3>1, <3>2
  <2>5. ~(v.route = "train" /\ v.route = "join-network")
    OBVIOUS
  <2>6. \A m \in Nodes :
          /\ WillJoin(m)' => ~MayTrain(m)' /\ ~Joins(m)' /\ ~AsksToJoin(m)' /\ ~HasJoined(m)'
          /\ MayTrain(m)' => ~Joins(m)' /\ ~AsksToJoin(m)' /\ ~HasJoined(m)'
          /\ Joins(m)' => ~AsksToJoin(m)' /\ ~HasJoined(m)'
          /\ AsksToJoin(m)' => ~HasJoined(m)'
    BY <2>1, <2>2, <2>3, <2>5 DEF JoinsSound
  <2> QED
    BY <1>3, <2>1, <2>4, <2>6 DEF JoinsSound
<1>13. RoundSound'
  BY <1>3, <1>4, RoundAfterStep
<1> QED
  BY <1>3, <1>4, <1>8, <1>9, <1>10, <1>11, <1>12, <1>13, CountedStay DEF RoundInv

\* The request of a call arrives with the number and the route of the call.
LEMMA ConnectKeepsRound ==
  ASSUME RoundInv, FreeInv', NEW n \in Nodes, NEW t \in Nodes, Connect(n, t)
  PROVE  RoundInv'
<1> DEFINE q == [route |-> sends[n], from |-> n, call |-> calls[n]]
<1>1. /\ worker[n][t] = "connecting" /\ Moves(n, t, "open")
      /\ inbox' = [inbox EXCEPT ![t] = @ \cup {q}]
      /\ UNCHANGED <<unmade, task, sends, calls, clients, weights, trained, cut>>
  BY DEF Connect, Moves
<1>2. TypeOK /\ Grows /\ NumbersMoveOn
  BY <1>1 DEF RoundInv, FreeInv, Grows, NumbersMoveOn
<1>3. \A m, u \in Nodes : worker'[m][u] = IF m = n /\ u = t THEN "open" ELSE worker[m][u]
  BY <1>1, <1>2, WorkerMoves
<1>4. /\ inbox'[t] = inbox[t] \cup {q}
      /\ \A u \in Nodes : u # t => inbox'[u] = inbox[u]
  BY <1>1, <1>2 DEF TypeOK
<1>5. q.route = sends[n] /\ q.from = n /\ q.call = calls[n]
  OBVIOUS
<1>6. /\ \A u \in Nodes : Held(u) \subseteq Held(u)'
      /\ \A u \in Nodes : \A r \in Held(u)' : r \in Held(u) \/ (u = t /\ r = q)
  BY <1>1, <1>4 DEF Held
<1>7. calls[n] \in Nat /\ sends[n] \in CallRoutes
  <2>1. ~Idle(n)
    BY <1>1 DEF RoundInv, FreeInv, IdleIsFree, Joining
  <2> QED
    BY <1>2, <2>1 DEF TypeOK, Idle
<1>8. q \in Held(t)'
  <2>1. q # NoRequest
    BY <1>5, <1>7, NoRequestFacts DEF CallRoutes
  <2> QED
    BY <1>4, <2>1 DEF Held
<1>9. RequestsSound'
  <2>1. /\ q.call <= calls'[q.from]
        /\ q.route = sends'[q.from]
        /\ q.route # "train"
        /\ q.route = "aggregate-model" /\ t = Aggregator =>
             q.from \in cut' \cup ToSet(clients'[Aggregator])
    BY <1>1, <1>5, <1>7 DEF CallRoutes, RoundInv, CallsSound
  <2>2. \A u \in Nodes : \A r \in Held(u)' :
           \/ r \in Held(u)
           \/ /\ r.call <= calls'[r.from]
              /\ r.call = calls'[r.from] /\ ~Idle(r.from)' => r.route = sends'[r.from]
              /\ r.route = "train" => r = [route |-> "train", from |-> u, call |-> 0]
              /\ r.route = "aggregate-model" /\ u = Aggregator =>
                   r.from \in cut' \cup ToSet(clients'[Aggregator])
    BY <1>6, <2>1
  <2> QED
    BY <1>2, <2>2, RequestsAfterStep
<1>10. CallsSound'
  BY <1>1, <1>2, <1>3, CallsAfterStep
<1>11. AwaitedRequestsExist'
  <2>1. ASSUME NEW m \in Nodes, NEW u \in Nodes, worker'[m][u] = "open"
        PROVE  \/ /\ worker[m][u] = "open" /\ sends'[m] = sends[m] /\ calls'[m] = calls[m]
                  /\ \A r \in Held(u) : r.from = m /\ r.call = calls[m] => r \in Held(u)'
               \/ \E r \in Held(u)' : r.from = m /\ r.call = calls'[m] /\ r.route = sends'[m]
    <3>1. CASE m = n /\ u = t
      BY <1>1, <1>5, <1>8, <3>1
    <3>2. CASE ~(m = n /\ u = t)
      BY <1>1, <1>3, <1>6, <2>1, <3>2
    <3> QED
      BY <3>1, <3>2
  <2> QED
    BY <2>1, AwaitedAfterStep
<1>12. TasksSound'
  BY <1>1, <1>2, <1>3, TasksAfterStep
<1>13. JoinsSound'
  <2>1. JoinsSound
    BY DEF RoundInv
  <2>2. ASSUME NEW m \in Nodes
        PROVE  /\ WillJoin(m)' <=> WillJoin(m)
               /\ MayTrain(m)' => MayTrain(m)
               /\ Joins(m)' => Joins(m) /\ ~(m = n /\ t = Aggregator)
               /\ AsksToJoin(m)' =>
                    AsksToJoin(m) \/ (m = n /\ t = Aggregator /\ sends[n] = "join-network")
               /\ HasJoined(m)' <=> HasJoined(m)
    <3>1. \A r \in inbox'[m] : r \in inbox[m] \/ (m = t /\ r = q)
      BY <1>4
    <3>2. \A r \in inbox'[Aggregator] : r \in inbox[Aggregator] \/ (Aggregator = t /\ r = q)
      BY <1>4, NoRequestFacts
    <3>3. q.route # "train"
      BY <1>5, <1>7 DEF CallRoutes
    <3>4. Joins(m)' => Joins(m) /\ ~(m = n /\ t = Aggregator)
      BY <1>1, <1>3, NoRequestFacts DEF Joins
    <3>5. /\ WillJoin(m)' <=> WillJoin(m)
          /\ HasJoined(m)' <=> HasJoined(m)
      BY <1>1 DEF WillJoin, HasJoined
    <3>6. MayTrain(m)' => MayTrain(m)
      BY <3>1, <3>3 DEF MayTrain
    <3>7. AsksToJoin(m)' =>
            AsksToJoin(m) \/ (m = n /\ t = Aggregator /\ sends[n] = "join-network")
      BY <1>5, <3>2 DEF AsksToJoin
    <3> QED
      BY <3>4, <3>5, <3>6, <3>7
  <2>3. sends[n] = "join-network" /\ t = Aggregator => Joins(n)
    BY <1>1 DEF Joins
  <2>4. \A r, s \in inbox'[Aggregator] :
          r.route = "join-network" /\ s.route = "join-network" /\ r.from = s.from => r = s
    <3>1. CASE t = Aggregator /\ sends[n] = "join-network"
      <4>1. ~AsksToJoin(n)
        BY <2>1, <2>3, <3>1 DEF JoinsSound
      <4>2. \A r \in inbox[Aggregator] : r.route = "join-network" => r.from # n
        BY <4>1 DEF AsksToJoin
      <4> QED
        BY <1>4, <1>5, <2>1, <3>1, <4>2 DEF JoinsSound
    <3>2. CASE ~(t = Aggregator /\ sends[n] = "join-network")
      <4>1. \A r \in inbox'[Aggregator] : r.route = "join-network" => r \in inbox[Aggregator]
        BY <1>4, <1>5, <3>2, NoRequestFacts
      <4> QED
        BY <2>1, <4>1 DEF JoinsSound
    <3> QED
      BY <3>1, <3>2
  <2>5. \A m \in Nodes :
          /\ WillJoin(m)' => ~MayTrain(m)' /\ ~Joins(m)' /\ ~AsksToJoin(m)' /\ ~HasJoined(m)'
          /\ MayTrain(m)' => ~Joins(m)' /\ ~AsksToJoin(m)' /\ ~HasJoined(m)'
          /\ Joins(m)' => ~AsksToJoin(m)' /\ ~HasJoined(m)'
          /\ AsksToJoin(m)' => ~HasJoined(m)'
    BY <2>1, <2>2, <2>3 DEF JoinsSound
  <2> QED
    BY <1>1, <2>1, <2>4, <2>5 DEF JoinsSound
<1>14. RoundSound'
  BY <1>1, <1>2, RoundAfterStep
<1> QED
  BY <1>1, <1>2, <1>9, <1>10, <1>11, <1>12, <1>13, <1>14, CountedStay DEF RoundInv

\* A message that gets no response cuts its node; its request may be gone too.
LEMMA CutKeepsRound ==
  ASSUME RoundInv, FreeInv', NEW n \in Nodes, NEW t \in Nodes,
         Unreached(n, t) \/ GiveUp(n, t) \/ \E r \in inbox[t] : Hangup(n, t, r)
  PROVE  RoundInv'
<1>1. /\ worker[n][t] # "none" /\ Moves(n, t, "failed") /\ cut' = cut \cup {n}
      /\ UNCHANGED <<unmade, task, sends, calls, clients, weights, trained>>
  BY DEF Unreached, GiveUp, Hangup, Moves
<1>2. TypeOK /\ Grows /\ NumbersMoveOn
  BY <1>1 DEF RoundInv, FreeInv, Grows, NumbersMoveOn
<1>3. \A m, u \in Nodes : worker'[m][u] = IF m = n /\ u = t THEN "failed" ELSE worker[m][u]
  BY <1>1, <1>2, WorkerMoves
<1>4. /\ \A u \in Nodes : inbox'[u] \subseteq inbox[u]
      /\ \A u \in Nodes : \A r \in inbox[u] :
           r \in inbox'[u] \/ (u = t /\ r.from = n /\ r.call = calls[n])
  <2>1. CASE inbox' = inbox
    BY <2>1
  <2>2. ASSUME NEW r \in inbox[t], Hangup(n, t, r)
        PROVE  /\ \A u \in Nodes : inbox'[u] = IF u = t THEN inbox[u] \ {r} ELSE inbox[u]
               /\ r.from = n /\ r.call = calls[n]
    BY <1>2, <2>2 DEF TypeOK, Hangup
  <2> QED
    BY <2>1, <2>2 DEF Unreached, GiveUp
<1>5. /\ \A u \in Nodes : Held(u)' \subseteq Held(u)
      /\ \A u \in Nodes : \A r \in Held(u) :
           r \in Held(u)' \/ (u = t /\ r.from = n /\ r.call = calls[n])
  BY <1>1, <1>4 DEF Held
<1>6. RequestsSound'
  BY <1>2, <1>5, RequestsAfterStep
<1>7. CallsSound'
  BY <1>1, <1>2, <1>3, CallsAfterStep
<1>8. AwaitedRequestsExist'
  <2>1. ASSUME NEW m \in Nodes, NEW u \in Nodes, worker'[m][u] = "open"
        PROVE  /\ worker[m][u] = "open" /\ sends'[m] = sends[m] /\ calls'[m] = calls[m]
               /\ \A r \in Held(u) : r.from = m /\ r.call = calls[m] => r \in Held(u)'
    <3>1. ~(m = n /\ u = t)
      BY <1>3, <2>1
    <3> QED
      BY <1>1, <1>3, <1>5, <2>1, <3>1
  <2> QED
    BY <2>1, AwaitedAfterStep
<1>9. TasksSound'
  BY <1>1, <1>2, <1>3, TasksAfterStep
<1>10. JoinsSound'
  <2>1. \A m \in Nodes : Joins(m)' => Joins(m)
    BY <1>1, <1>3, NoRequestFacts DEF Joins
  <2> QED
    BY <1>1, <1>4, <2>1, JoinsAfterStep
<1>11. RoundSound'
  BY <1>1, <1>2, RoundAfterStep
<1> QED
  BY <1>1, <1>2, <1>6, <1>7, <1>8, <1>9, <1>10, <1>11, CountedStay DEF RoundInv

-----------------------------------------------------------------------------
(***************************************************************************)
(* The theorems.                                                           *)
(***************************************************************************)

LEMMA RoundInit == Init => RoundInv
<1> SUFFICES ASSUME Init PROVE RoundInv
  OBVIOUS
<1>1. FreeInv
  BY TypeInit, FreeInit DEF FreeInv
<1>2. \A n \in Nodes :
        /\ inbox[n] = {} /\ task[n] = NoRequest /\ sends[n] = "nothing"
        /\ calls[n] = 0 /\ clients[n] = <<>> /\ weights[n] = {}
        /\ \A t \in Nodes : worker[n][t] = "none"
  BY DEF Init, NoWorkers
<1>3. \A n \in Nodes : Held(n) = {}
  BY <1>2 DEF Held
<1>4. TasksSound
  BY <1>2, NoRequestFacts DEF TasksSound, Idle
<1>5. RequestsSound
  BY <1>3 DEF RequestsSound
<1>6. CallsSound
  BY <1>2, NoRequestFacts DEF CallsSound
<1>7. JoinsSound
  <2>1. \A n \in Nodes : ~MayTrain(n) /\ ~Joins(n) /\ ~AsksToJoin(n) /\ ~HasJoined(n)
    BY <1>2, NoRequestFacts DEF MayTrain, Joins, AsksToJoin, HasJoined, ToSet
  <2>2. inbox[Aggregator] = {} /\ clients[Aggregator] = <<>>
    BY <1>2, NoRequestFacts
  <2> QED
    BY <2>1, <2>2 DEF JoinsSound, IsInjective
<1>8. RoundSound
  BY <1>2, NoRequestFacts DEF RoundSound
<1>9. AwaitedRequestsExist /\ TrainedIsCounted
  BY <1>2 DEF Init, AwaitedRequestsExist, Awaits, TrainedIsCounted
<1> QED
  BY <1>1, <1>4, <1>5, <1>6, <1>7, <1>8, <1>9 DEF RoundInv

LEMMA RoundStep == RoundInv /\ [Next]_vars => RoundInv'
<1> SUFFICES ASSUME RoundInv, [Next]_vars PROVE RoundInv'
  OBVIOUS
<1>1. FreeInv'
  BY TypeStep, FreeStep DEF RoundInv, FreeInv
<1>2. ASSUME NEW v \in unmade, Visit(v) PROVE RoundInv'
  BY <1>1, <1>2, VisitKeepsRound
<1>3. ASSUME NEW n \in Nodes, Return(n) PROVE RoundInv'
  BY <1>1, <1>3, TrainSendsKeepsRound, FinishKeepsRound DEF Return
<1>4. ASSUME NEW n \in Nodes, NEW r \in inbox[n], Serve(n, r) PROVE RoundInv'
  <2>1. CASE Reports(n, r)
    BY <1>1, <2>1, ReportKeepsRound
  <2>2. CASE SyncRPC(n, r) \/ BroadcastSyncRPC(n, r)
    BY <1>1, <2>2, RemoteCallKeepsRound
  <2>3. CASE Train(n, r)
    BY <1>1, <2>3, TrainKeepsRound
  <2>4. CASE JoinNetwork(n, r)
    BY <1>1, <2>4, JoinNetworkKeepsRound
  <2>5. CASE AggregateModel(n, r)
    BY <1>1, <2>5, AggregateModelKeepsRound
  <2> QED
    BY <1>4, <2>1, <2>2, <2>3, <2>4, <2>5 DEF Serve
<1>5. ASSUME NEW n \in Nodes, NEW t \in Nodes, Connect(n, t) PROVE RoundInv'
  BY <1>1, <1>5, ConnectKeepsRound
<1>6. ASSUME NEW n \in Nodes, NEW t \in Nodes,
             Unreached(n, t) \/ GiveUp(n, t) \/ \E r \in inbox[t] : Hangup(n, t, r)
      PROVE  RoundInv'
  BY <1>1, <1>6, CutKeepsRound
<1>7. CASE UNCHANGED vars
  <2>1. TasksSound' /\ RequestsSound' /\ CallsSound' /\ RoundSound'
    BY <1>7 DEF vars, RoundInv, TasksSound, Idle, RequestsSound, Held, CallsSound, RoundSound
  <2>2. JoinsSound'
    BY <1>7 DEF vars, RoundInv, JoinsSound, WillJoin, MayTrain, Joins, AsksToJoin, HasJoined
  <2>3. AwaitedRequestsExist' /\ TrainedIsCounted'
    BY <1>7 DEF vars, RoundInv, AwaitedRequestsExist, Awaits, TrainedIsCounted
  <2> QED
    BY <1>1, <2>1, <2>2, <2>3 DEF RoundInv
<1> QED
  BY <1>2, <1>3, <1>4, <1>5, <1>6, <1>7 DEF Next, Reach

LEMMA RoundCorrect == Spec => []RoundInv
BY RoundInit, RoundStep, PTL DEF Spec

\* Whoever awaits a response awaits one that will be written: its request is
\* with the target, waiting or being served, under the number of the last call.
\* Requests leave inbox only to be served, or with the worker that awaits them.
THEOREM AwaitedAreServed == Spec => []AwaitedRequestsExist
BY RoundCorrect, PTL DEF RoundInv

\* A trainer whose /train is over, and whose messages all had a response, is a
\* client of the aggregator, which has its weights, whatever else is under way.
THEOREM TrainersAreCounted == Spec => []TrainedIsCounted
BY RoundCorrect, PTL DEF RoundInv

\* For any number of trainers and any order of their joins and deliveries: when
\* all clients have delivered and no message was lost, the leader has the model
\* of the aggregator, although the quorum of quorumMet is a quotient of integers.
THEOREM CompleteRoundsReachTheLeader == Spec => []CompleteRoundReachesLeader
<1>1. RoundInv => CompleteRoundReachesLeader
  <2>1. ASSUME RoundInv, Idle(Aggregator) PROVE task[Aggregator].route # "aggregate-model"
    BY <2>1, NoRequestFacts DEF RoundInv, TasksSound
  <2> QED
    BY <2>1 DEF RoundInv, RoundSound, CompleteRoundReachesLeader
<1> QED
  BY <1>1, RoundCorrect, PTL
=============================================================================
