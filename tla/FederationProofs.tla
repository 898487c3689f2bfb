-------------------------- MODULE FederationProofs --------------------------
(***************************************************************************)
(* Type correctness of Federation and the absence of wait cycles, for      *)
(* every set of trainers and every set of requests of browsers.            *)
(***************************************************************************)
EXTENDS Federation, TLAPS

\* A node in its main loop has no worker under way: every call is joined.
IdleIsFree == \A n \in Nodes : Idle(n) => ~Joining(n)

FreeInv == TypeOK /\ IdleIsFree

\* Appending a node to the clients of an aggregator gives a sequence of nodes.
LEMMA JoinedIsSeq ==
  ASSUME TypeOK, NEW n \in Nodes, NEW host \in Nodes
  PROVE  Joined(n, host) \in Seq(Nodes)
<1>1. clients[n] \in Seq(Nodes)
  BY DEF TypeOK
<1> QED
  BY <1>1 DEF Joined

\* A response changes the state of a worker to another of its states.
LEMMA AnsweredType ==
  ASSUME TypeOK, NEW n \in Nodes, NEW r
  PROVE  Answered(n, r) \in [Nodes -> [Nodes -> WorkerStates]]
<1>1. \A m, t \in Nodes : worker[m][t] \in WorkerStates
  BY DEF TypeOK
<1>2. "answered" \in WorkerStates
  BY DEF WorkerStates
<1> QED
  BY <1>1, <1>2 DEF Answered

\* fetch moves a worker to another of its states.
LEMMA WorkerType ==
  ASSUME TypeOK, NEW n \in Nodes, NEW t \in Nodes, NEW s \in WorkerStates
  PROVE  [worker EXCEPT ![n][t] = s] \in [Nodes -> [Nodes -> WorkerStates]]
<1>1. worker[n] \in [Nodes -> WorkerStates]
  BY DEF TypeOK
<1>2. [worker[n] EXCEPT ![t] = s] \in [Nodes -> WorkerStates]
  BY <1>1
<1> QED
  BY <1>2 DEF TypeOK

\* The worker of n for t moves to the state s.
Moves(n, t, s) == worker' = [worker EXCEPT ![n][t] = s]

\* The other workers stay where they are.
LEMMA WorkerMoves ==
  ASSUME TypeOK, NEW n \in Nodes, NEW t \in Nodes, NEW s, Moves(n, t, s)
  PROVE  \A m, u \in Nodes : worker'[m][u] = IF m = n /\ u = t THEN s ELSE worker[m][u]
<1> SUFFICES ASSUME NEW m \in Nodes, NEW u \in Nodes
             PROVE  worker'[m][u] = IF m = n /\ u = t THEN s ELSE worker[m][u]
  OBVIOUS
<1>1. worker \in [Nodes -> [Nodes -> WorkerStates]]
  BY DEF TypeOK
<1>2. worker[n] \in [Nodes -> WorkerStates] /\ worker[m] \in [Nodes -> WorkerStates]
  BY <1>1
<1>3. CASE m = n
  <2>1. worker'[m] = [worker[n] EXCEPT ![t] = s]
    BY <1>1, <1>3 DEF Moves
  <2> QED
    BY <1>2, <1>3, <2>1
<1>4. CASE m # n
  BY <1>1, <1>4 DEF Moves
<1> QED
  BY <1>3, <1>4

\* A response opens no connection.
LEMMA AnsweredOpensNothing ==
  ASSUME NEW n \in Nodes, NEW r, NEW m \in Nodes, NEW t \in Nodes,
         Answered(n, r)[m][t] \in {"connecting", "open"}
  PROVE  Answered(n, r)[m][t] = worker[m][t]
BY DEF Answered

\* The call a handler makes keeps the types.
LEMMA CallsType ==
  ASSUME TypeOK, NEW n \in Nodes, NEW r \in Requests, NEW targets,
         NEW route \in CallRoutes, Calls(n, r, targets, route)
  PROVE  /\ task' \in [Nodes -> Requests \cup {NoRequest}]
         /\ sends' \in [Nodes -> CallRoutes \cup {"nothing"}]
         /\ calls' \in [Nodes -> Nat]
         /\ worker' \in [Nodes -> [Nodes -> WorkerStates]]
<1>1. task' \in [Nodes -> Requests \cup {NoRequest}]
  BY DEF TypeOK, Calls
<1>2. sends' \in [Nodes -> CallRoutes \cup {"nothing"}]
  BY DEF TypeOK, Calls
<1>3. calls' \in [Nodes -> Nat]
  BY DEF TypeOK, Calls
<1>4. [t \in Nodes |-> IF t \in targets THEN "connecting" ELSE "none"] \in [Nodes -> WorkerStates]
  BY DEF WorkerStates
<1>5. worker' \in [Nodes -> [Nodes -> WorkerStates]]
  BY <1>4 DEF TypeOK, Calls
<1> QED
  BY <1>1, <1>2, <1>3, <1>5

\* Taking up a request keeps the type of inbox; the request is one.
LEMMA TakesType ==
  ASSUME TypeOK, NEW n \in Nodes, NEW r, Takes(n, r)
  PROVE  r \in Requests /\ inbox' \in [Nodes -> SUBSET Requests]
BY DEF TypeOK, Takes

-----------------------------------------------------------------------------
(***************************************************************************)
(* Types.                                                                  *)
(***************************************************************************)

LEMMA TypeInit == Init => TypeOK
<1> SUFFICES ASSUME Init PROVE TypeOK
  OBVIOUS
<1>1. unmade \subseteq Visits
  BY FederationAssumption DEF Init
<1>2. worker \in [Nodes -> [Nodes -> WorkerStates]]
  BY DEF Init, NoWorkers, WorkerStates
<1>3. clients \in [Nodes -> Seq(Nodes)]
  BY DEF Init
<1> QED
  BY <1>1, <1>2, <1>3 DEF Init, TypeOK

LEMMA TypeStep == FreeInv /\ [Next]_vars => TypeOK'
<1> SUFFICES ASSUME FreeInv, [Next]_vars PROVE TypeOK'
  OBVIOUS
<1> TypeOK
  BY DEF FreeInv

<1>1. ASSUME NEW v \in unmade, Visit(v) PROVE TypeOK'
  <2>1. v \in Visits /\ v.node \in Nodes /\ v.route \in Routes
    BY DEF TypeOK, Visits, Routes
  <2>2. [route |-> v.route, from |-> v.node, call |-> 0] \in Requests
    BY <2>1 DEF Requests
  <2>3. inbox' \in [Nodes -> SUBSET Requests]
    BY <1>1, <2>1, <2>2 DEF TypeOK, Visit
  <2> QED
    BY <1>1, <2>3 DEF TypeOK, Visit
<1>2. ASSUME NEW n \in Nodes, TrainSends(n) PROVE TypeOK'
  <2>1. task[n] \in Requests
    <3>1. task[n] # NoRequest
      BY <1>2 DEF TrainSends, NoRequest
    <3> QED
      BY <3>1 DEF TypeOK
  <2> QED
    BY <1>2, <2>1, CallsType DEF TypeOK, TrainSends, CallRoutes
<1>3. ASSUME NEW n \in Nodes, Finish(n) PROVE TypeOK'
  <2>1. worker' \in [Nodes -> [Nodes -> WorkerStates]]
    <3>1. NoWorkers \in [Nodes -> WorkerStates]
      BY DEF NoWorkers, WorkerStates
    <3> QED
      BY <1>3, <3>1, AnsweredType DEF Finish
  <2>2. trained' \subseteq Nodes
    BY <1>3 DEF Finish, TypeOK
  <2> QED
    BY <1>3, <2>1, <2>2 DEF TypeOK, Finish
<1>4. ASSUME NEW n \in Nodes, NEW r \in inbox[n], Serve(n, r) PROVE TypeOK'
  <2>1. CASE Reports(n, r)
    BY <2>1, TakesType, AnsweredType DEF Reports, Answers, TypeOK
  <2>2. CASE SyncRPC(n, r)
    BY <2>2, TakesType, CallsType DEF SyncRPC, TypeOK, CallRoutes
  <2>3. CASE BroadcastSyncRPC(n, r)
    BY <2>3, TakesType, CallsType DEF BroadcastSyncRPC, TypeOK, CallRoutes
  <2>4. CASE Train(n, r)
    BY <2>4, TakesType, CallsType DEF Train, TypeOK, CallRoutes
  <2>5. CASE JoinNetwork(n, r)
    <3>1. r \in Requests /\ r.from \in Nodes
      BY <2>5, TakesType DEF JoinNetwork, Requests
    <3>2. clients' \in [Nodes -> Seq(Nodes)]
      BY <2>5, <3>1, JoinedIsSeq DEF JoinNetwork, TypeOK
    <3> QED
      BY <2>5, <3>2, TakesType, AnsweredType DEF JoinNetwork, Answers, TypeOK
  <2>6. CASE AggregateModel(n, r)
    <3>1. r \in Requests /\ r.from \in Nodes /\ inbox' \in [Nodes -> SUBSET Requests]
      BY <2>6, TakesType DEF AggregateModel, Requests
    <3>2. weights' \in [Nodes -> SUBSET Nodes]
      BY <2>6, <3>1 DEF AggregateModel, Stored, TypeOK
    <3>3. /\ task' \in [Nodes -> Requests \cup {NoRequest}]
          /\ sends' \in [Nodes -> CallRoutes \cup {"nothing"}]
          /\ calls' \in [Nodes -> Nat]
          /\ worker' \in [Nodes -> [Nodes -> WorkerStates]]
      <4>1. CASE Answers(n, r)
        BY <4>1, AnsweredType DEF Answers, TypeOK
      <4>2. CASE Calls(n, r, {Leader}, "aggregate-model")
        BY <4>2, <3>1, CallsType DEF CallRoutes
      <4>3. CASE Calls(n, r, {Aggregator}, "new-model")
        BY <4>3, <3>1, CallsType DEF CallRoutes
      <4> QED
        BY <2>6, <4>1, <4>2, <4>3 DEF AggregateModel
    <3> QED
      BY <2>6, <3>1, <3>2, <3>3 DEF AggregateModel, TypeOK
  <2> QED
    BY <1>4, <2>1, <2>2, <2>3, <2>4, <2>5, <2>6 DEF Serve
<1>5. ASSUME NEW n \in Nodes, NEW t \in Nodes, Connect(n, t) PROVE TypeOK'
  <2>1. ~Idle(n)
    BY <1>5 DEF FreeInv, IdleIsFree, Joining, Connect
  <2>2. sends[n] \in CallRoutes /\ calls[n] \in Nat
    BY <2>1 DEF Idle, TypeOK
  <2>3. [route |-> sends[n], from |-> n, call |-> calls[n]] \in Requests
    BY <2>2 DEF Requests, Routes
  <2>4. inbox' \in [Nodes -> SUBSET Requests]
    BY <1>5, <2>3 DEF TypeOK, Connect
  <2>5. worker' \in [Nodes -> [Nodes -> WorkerStates]]
    BY <1>5, WorkerType DEF Connect, WorkerStates
  <2> QED
    BY <1>5, <2>4, <2>5 DEF TypeOK, Connect
<1>6. ASSUME NEW n \in Nodes, NEW t \in Nodes, Unreached(n, t) \/ GiveUp(n, t) PROVE TypeOK'
  <2>1. worker' \in [Nodes -> [Nodes -> WorkerStates]]
    BY <1>6, WorkerType DEF Unreached, GiveUp, WorkerStates
  <2> QED
    BY <1>6, <2>1 DEF TypeOK, Unreached, GiveUp
<1>7. ASSUME NEW n \in Nodes, NEW t \in Nodes, NEW r \in inbox[t], Hangup(n, t, r) PROVE TypeOK'
  <2>1. worker' \in [Nodes -> [Nodes -> WorkerStates]]
    BY <1>7, WorkerType DEF Hangup, WorkerStates
  <2>2. inbox' \in [Nodes -> SUBSET Requests]
    BY <1>7 DEF TypeOK, Hangup
  <2> QED
    BY <1>7, <2>1, <2>2 DEF TypeOK, Hangup
<1>8. CASE UNCHANGED vars
  BY <1>8 DEF TypeOK, vars
<1> QED
  BY <1>1, <1>2, <1>3, <1>4, <1>5, <1>6, <1>7, <1>8 DEF Next, Return, Reach

-----------------------------------------------------------------------------
(***************************************************************************)
(* A node in its main loop has no worker under way.                        *)
(***************************************************************************)

LEMMA FreeInit == Init => IdleIsFree
BY DEF Init, IdleIsFree, Joining, NoWorkers

LEMMA FreeStep == FreeInv /\ [Next]_vars => IdleIsFree'
<1> SUFFICES ASSUME FreeInv, [Next]_vars, NEW m \in Nodes, Idle(m)',
                    NEW t \in Nodes, worker'[m][t] \in {"connecting", "open"}
             PROVE  FALSE
  BY DEF IdleIsFree, Joining
<1> TypeOK
  BY DEF FreeInv
<1>1. Idle(m) => worker[m][t] \notin {"connecting", "open"}
  BY DEF FreeInv, IdleIsFree, Joining
\* A call makes its node busy and leaves the workers of the others alone.
<1>2. ASSUME NEW n \in Nodes, NEW r, NEW targets, NEW route \in CallRoutes,
             Calls(n, r, targets, route)
      PROVE  FALSE
  <2>1. sends'[n] # "nothing"
    BY <1>2 DEF Calls, TypeOK, CallRoutes
  <2>2. m # n
    BY <2>1 DEF Idle
  <2>3. worker'[m] = worker[m] /\ sends'[m] = sends[m]
    BY <1>2, <2>2 DEF Calls, TypeOK
  <2> QED
    BY <1>1, <2>3 DEF Idle
\* Steps that leave sends alone and start no worker
<1>3. ASSUME sends' = sends,
             worker'[m][t] = worker[m][t] \/ worker[m][t] \in {"connecting", "open"}
      PROVE  FALSE
  BY <1>1, <1>3 DEF Idle
<1>4. ASSUME NEW n \in Nodes, NEW r, Answers(n, r) PROVE FALSE
  <2>1. worker'[m][t] = worker[m][t]
    BY <1>4, AnsweredOpensNothing DEF Answers
  <2> QED
    BY <1>3, <1>4, <2>1 DEF Answers
<1>5. ASSUME NEW v \in unmade, Visit(v) PROVE FALSE
  BY <1>3, <1>5 DEF Visit
<1>6. ASSUME NEW n \in Nodes, TrainSends(n) PROVE FALSE
  BY <1>2, <1>6 DEF TrainSends, CallRoutes
<1>7. ASSUME NEW n \in Nodes, Finish(n) PROVE FALSE
  <2>1. CASE m = n
    <3>1. worker'[m] = NoWorkers
      BY <1>7, <2>1, AnsweredType DEF Finish
    <3> QED
      BY <3>1 DEF NoWorkers
  <2>2. CASE m # n
    <3>1. worker'[m][t] = Answered(n, task[n])[m][t] /\ sends'[m] = sends[m]
      BY <1>7, <2>2, AnsweredType DEF Finish, TypeOK
    <3>2. worker'[m][t] = worker[m][t]
      BY <3>1, AnsweredOpensNothing
    <3> QED
      BY <1>1, <3>1, <3>2 DEF Idle
  <2> QED
    BY <2>1, <2>2
<1>8. ASSUME NEW n \in Nodes, NEW r \in inbox[n], Serve(n, r) PROVE FALSE
  <2>1. Answers(n, r) \/ \E targets, route : route \in CallRoutes /\ Calls(n, r, targets, route)
    BY <1>8 DEF Serve, Reports, SyncRPC, BroadcastSyncRPC, Train, JoinNetwork,
                AggregateModel, CallRoutes
  <2> QED
    BY <1>2, <1>4, <2>1
<1>9. ASSUME NEW n \in Nodes, NEW u \in Nodes,
             Reach(n, u) \/ GiveUp(n, u) \/ \E r \in inbox[u] : Hangup(n, u, r)
      PROVE  FALSE
  <2>1. worker[n][u] \in {"connecting", "open"} /\ sends' = sends
    BY <1>9 DEF Reach, Connect, Unreached, GiveUp, Hangup
  <2>2. Moves(n, u, "open") \/ Moves(n, u, "failed")
    BY <1>9 DEF Reach, Connect, Unreached, GiveUp, Hangup, Moves
  <2>3. worker'[m][t] = worker[m][t] \/ (m = n /\ t = u)
    BY <2>2, WorkerMoves
  <2> QED
    BY <1>3, <2>1, <2>3
<1>10. CASE UNCHANGED vars
  BY <1>3, <1>10 DEF vars
<1> QED
  BY <1>5, <1>6, <1>7, <1>8, <1>9, <1>10 DEF Next, Return

LEMMA FreeCorrect == Spec => []FreeInv
<1>1. Init => FreeInv
  BY TypeInit, FreeInit DEF FreeInv
<1>2. FreeInv /\ [Next]_vars => FreeInv'
  BY TypeStep, FreeStep DEF FreeInv
<1> QED
  BY <1>1, <1>2, PTL DEF Spec

\* Every variable has its type: what a node calls is a route of calls, a client
\* is a node and a worker is in one of its states.
THEOREM TypeCorrect == Spec => []TypeOK
BY FreeCorrect, PTL DEF FreeInv

-----------------------------------------------------------------------------
(***************************************************************************)
(* Nobody waits in a circle.  The node that a connection reaches is in its *)
(* main loop, so it awaits nobody: any group it belongs to has a node that *)
(* awaits none of the others, and a group it does not belong to is left as *)
(* it was.  Every other step ends waiting or changes nothing about it.     *)
(***************************************************************************)

CycleInv == FreeInv /\ NoWaitCycle

\* A step after which nobody awaits whom it did not await before
Relaxes == \A n, t \in Nodes : worker'[n][t] = "open" => worker[n][t] = "open"

LEMMA RelaxedStaysAcyclic == NoWaitCycle /\ Relaxes => NoWaitCycle'
<1> SUFFICES ASSUME NoWaitCycle, Relaxes, NEW S \in SUBSET Nodes, S # {}
             PROVE  \E n \in S : \A t \in S : ~(worker'[n][t] = "open")
  BY DEF NoWaitCycle, Awaits
<1>1. PICK n \in S : \A t \in S : ~(worker[n][t] = "open")
  BY DEF NoWaitCycle, Awaits
<1> QED
  BY <1>1 DEF Relaxes

LEMMA ConnectStaysAcyclic ==
  ASSUME CycleInv, NEW m \in Nodes, NEW u \in Nodes, Connect(m, u)
  PROVE  NoWaitCycle'
<1> SUFFICES ASSUME NEW S \in SUBSET Nodes, S # {}
             PROVE  \E n \in S : \A t \in S : ~(worker'[n][t] = "open")
  BY DEF NoWaitCycle, Awaits
<1>1. \A n, t \in Nodes : worker'[n][t] = IF n = m /\ t = u THEN "open" ELSE worker[n][t]
  <2>1. Moves(m, u, "open")
    BY DEF Connect, Moves
  <2> QED
    BY <2>1, WorkerMoves DEF CycleInv, FreeInv
<1>2. CASE u \in S
  \* u awaits nobody, and it is not m, which does.
  <2>1. \A t \in Nodes : worker[u][t] \notin {"connecting", "open"}
    BY DEF Connect, Accepts, CycleInv, FreeInv, IdleIsFree, Joining
  <2>2. u # m
    BY <2>1 DEF Connect
  <2>3. \A t \in S : ~(worker'[u][t] = "open")
    BY <1>1, <2>1, <2>2
  <2> QED
    BY <1>2, <2>3
<1>3. CASE u \notin S
  <2>1. PICK n \in S : \A t \in S : ~(worker[n][t] = "open")
    BY DEF CycleInv, NoWaitCycle, Awaits
  <2> QED
    BY <1>1, <1>3, <2>1
<1> QED
  BY <1>2, <1>3

LEMMA CycleStep == CycleInv /\ [Next]_vars => NoWaitCycle'
<1> SUFFICES ASSUME CycleInv, [Next]_vars PROVE NoWaitCycle'
  OBVIOUS
<1> TypeOK /\ NoWaitCycle
  BY DEF CycleInv, FreeInv
<1>1. ASSUME NEW n \in Nodes, NEW r, NEW targets, NEW route, Calls(n, r, targets, route)
      PROVE  Relaxes
  <2>1. \A m \in Nodes : worker'[m] =
          IF m = n THEN [t \in Nodes |-> IF t \in targets THEN "connecting" ELSE "none"]
                   ELSE worker[m]
    BY <1>1 DEF Calls, TypeOK
  <2> QED
    BY <2>1 DEF Relaxes
<1>2. ASSUME NEW n \in Nodes, NEW r, Answers(n, r) PROVE Relaxes
  BY <1>2, AnsweredOpensNothing DEF Answers, Relaxes
<1>3. ASSUME NEW v \in unmade, Visit(v) PROVE Relaxes
  BY <1>3 DEF Visit, Relaxes
<1>4. ASSUME NEW n \in Nodes, TrainSends(n) PROVE Relaxes
  BY <1>1, <1>4 DEF TrainSends
<1>5. ASSUME NEW n \in Nodes, Finish(n) PROVE Relaxes
  <2>1. \A m \in Nodes : worker'[m] = IF m = n THEN NoWorkers ELSE Answered(n, task[n])[m]
    BY <1>5, AnsweredType DEF Finish
  <2> QED
    BY <2>1, AnsweredOpensNothing DEF Relaxes, NoWorkers
<1>6. ASSUME NEW n \in Nodes, NEW r \in inbox[n], Serve(n, r) PROVE Relaxes
  <2>1. Answers(n, r) \/ \E targets, route : Calls(n, r, targets, route)
    BY <1>6 DEF Serve, Reports, SyncRPC, BroadcastSyncRPC, Train, JoinNetwork, AggregateModel
  <2> QED
    BY <1>1, <1>2, <2>1
<1>7. ASSUME NEW n \in Nodes, NEW t \in Nodes,
             Unreached(n, t) \/ GiveUp(n, t) \/ \E r \in inbox[t] : Hangup(n, t, r)
      PROVE  Relaxes
  <2>1. Moves(n, t, "failed")
    BY <1>7 DEF Unreached, GiveUp, Hangup, Moves
  <2>2. \A m, u \in Nodes : worker'[m][u] = IF m = n /\ u = t THEN "failed" ELSE worker[m][u]
    BY <2>1, WorkerMoves
  <2> QED
    BY <2>2 DEF Relaxes
<1>8. ASSUME UNCHANGED vars PROVE Relaxes
  BY <1>8 DEF vars, Relaxes
<1>9. Relaxes \/ \E n, t \in Nodes : Connect(n, t)
  BY <1>3, <1>4, <1>5, <1>6, <1>7, <1>8 DEF Next, Return, Reach
<1> QED
  BY <1>9, ConnectStaysAcyclic, RelaxedStaysAcyclic

\* For any number of nodes, whatever they call from their handlers: they never
\* await each other's responses in a circle.
THEOREM NoNodesDeadlock == Spec => []NoWaitCycle
<1>1. Init => NoWaitCycle
  BY DEF Init, NoWaitCycle, Awaits, NoWorkers
<1>2. FreeInv /\ NoWaitCycle /\ [Next]_vars => NoWaitCycle'
  BY CycleStep DEF CycleInv
<1> QED
  BY <1>1, <1>2, FreeCorrect, PTL DEF Spec
=============================================================================
