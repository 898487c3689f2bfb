----------------------------- MODULE LoopProofs -----------------------------
(***************************************************************************)
(* Proofs about the main loop, for any connections and whatever arrives on *)
(* them.                                                                   *)
(***************************************************************************)
EXTENDS ClientLoop, Lists

-----------------------------------------------------------------------------
(***************************************************************************)
(* The inductive invariant.                                                *)
(***************************************************************************)

\* The script is one of those that were given, and what came of it is counted.
InputsGiven ==
  /\ script \in [Conns -> Seq(Inputs)]
  /\ arrived \in [Conns -> Nat] /\ taken \in [Conns -> Nat]

\* The shutdown thread counts down a copy of num_clients.
CountSound == Len(clients) <= num_clients

\* The loop is at a client unless it waits in select, and visits none twice.
WalkSound == (pc = "select" <=> walk = <<>>) /\ IsInjective(walk)

\* Jobs and ws_send write to websockets only.
WritersSound ==
  /\ ws # None => websocket[ws]
  /\ \A i \in 1..Len(jobs) : websocket[jobs[i].client]

\* The loop has read the request of c, or the end of the connection.
Visited(c) == pc \in {"check", "eval"} /\ c = Head(walk)

\* The buffer of c holds what was read, and nothing that has an empty line.
NoneComplete(c, n) == \A k \in 1..n : request[c][k] \notin Complete
Unfinished(c) == taken[c] = received[c] /\ NoneComplete(c, received[c])
Finished(c) ==
  \/ /\ taken[c] = received[c] /\ received[c] > 0
     /\ request[c][received[c]] \in Complete /\ NoneComplete(c, received[c] - 1)
  \/ /\ taken[c] = received[c] + 1 /\ script[c][taken[c]] = "eof"
     /\ NoneComplete(c, received[c])

FreshSound(c) ==
  conn[c] \in {"idle", "pending"} =>
    arrived[c] = 0 /\ request[c] = <<>> /\ received[c] = 0 /\ sent[c] = <<>>
OpenSound(c) ==
  conn[c] = "open" =>
    /\ sent[c] = <<>> /\ Len(request[c]) = received[c]
    /\ \A k \in 1..received[c] : request[c][k] = script[c][k] /\ request[c][k] # "eof"
    /\ Visited(c) => Finished(c)
    /\ ~Visited(c) => Unfinished(c)
DroppedSound(c) ==
  conn[c] = "dropped" =>
    /\ Len(sent[c]) <= 1
    /\ taken[c] > 0 /\ script[c][taken[c]] = "page" /\ shutdown = "no" => sent[c] = <<"page">>

\* A connection that is no websocket is closed after one request.
RequestSound(c) == ~websocket[c] => FreshSound(c) /\ OpenSound(c) /\ DroppedSound(c)
RequestsSound == \A c \in Conns : RequestSound(c)

LoopInv ==
  /\ TypeOK
  /\ InputsGiven
  /\ CountSound
  /\ WalkSound
  /\ ListSound
  /\ WritersSound
  /\ RequestsSound

-----------------------------------------------------------------------------
(***************************************************************************)
(* The list.                                                               *)
(***************************************************************************)

\* The variables of the list and of the walk, and what is invariant of them
ListTyped ==
  /\ conn \in [Conns -> {"idle", "pending", "open", "dropped"}]
  /\ clients \in Seq(Conns)
  /\ num_clients \in Nat
  /\ pc \in {"select", "read", "check", "eval"}
  /\ walk \in Seq(Conns)
  /\ unfound \subseteq Conns

ListInv == ListTyped /\ CountSound /\ WalkSound /\ ListSound

LEMMA ListPart == LoopInv => ListInv
BY DEF LoopInv, TypeOK, ListTyped, ListInv

\* drop_client takes out the one node that is c.
LEMMA UnlinkedFacts ==
  ASSUME ListInv, NEW c \in ToSet(clients)
  PROVE  /\ Unlinked(c) \in Seq(Conns)
         /\ Len(Unlinked(c)) = Len(clients) - 1
         /\ IsInjective(Unlinked(c))
         /\ ToSet(Unlinked(c)) = ToSet(clients) \ {c}
<1>1. clients \in Seq(Conns) /\ IsInjective(clients)
  BY DEF ListInv, ListTyped, ListSound
<1>2. DOMAIN clients = 1..Len(clients)
  BY <1>1, LenProperties
<1> DEFINE i == CHOOSE i \in DOMAIN clients : clients[i] = c
<1>3. i \in DOMAIN clients /\ clients[i] = c
  BY DEF ToSet
<1>4. Unlinked(c) = RemoveAt(clients, i)
  BY DEF Unlinked
<1> HIDE DEF i
<1>5. i \in 1..Len(clients)
  BY <1>2, <1>3
<1> QED
  BY <1>1, <1>3, <1>4, <1>5, RemoveAtFacts, RemoveAtKeeps

\* The loop over the list that select's result selects from, run by run
LEMMA ReportedRuns ==
  ASSUME ListInv
  PROVE  \E upTo \in [0..Len(clients) -> Seq(Conns)] :
           /\ Reported = upTo[Len(clients)]
           /\ upTo[0] = <<>>
           /\ \A i \in 1..Len(clients) :
                upTo[i] = IF Readable(clients[i]) THEN Append(upTo[i - 1], clients[i]) ELSE upTo[i - 1]
<1> DEFINE n == Len(clients)
           F(f) == f = [i \in 0..n |-> IF i = 0 THEN <<>>
                          ELSE IF Readable(clients[i]) THEN Append(f[i - 1], clients[i]) ELSE f[i - 1]]
           step == [i \in Nat |-> [s \in Seq(Conns) |->
                     IF i \in 1..n /\ Readable(clients[i]) THEN Append(s, clients[i]) ELSE s]]
<1>1. n \in Nat /\ \A i \in 1..n : clients[i] \in Conns
  BY ElementOfSeq, LenProperties DEF ListInv, ListTyped
<1>2. step \in [Nat -> [Seq(Conns) -> Seq(Conns)]]
  <2>1. ASSUME NEW i \in Nat, NEW s \in Seq(Conns)
        PROVE  (IF i \in 1..n /\ Readable(clients[i]) THEN Append(s, clients[i]) ELSE s) \in Seq(Conns)
    <3>1. CASE i \in 1..n /\ Readable(clients[i])
      BY <1>1, <3>1, AppendProperties
    <3>2. CASE ~(i \in 1..n /\ Readable(clients[i]))
      BY <3>2
    <3> QED
      BY <3>1, <3>2
  <2> QED
    BY <2>1
<1>3. <<>> \in Seq(Conns)
  BY EmptySeq
<1> HIDE DEF n
<1>4. PICK g \in [0..n -> Seq(Conns)] :
        g[0] = <<>> /\ \A i \in 1..n : g[i] = step[i][g[i - 1]]
  <2> DEFINE X == Seq(Conns)
             start == <<>>
  <2>1. start \in X /\ step \in [Nat -> [X -> X]] /\ n \in Nat
    BY <1>1, <1>2, <1>3
  <2> HIDE DEF step, start, X
  <2>2. \E f \in [0..n -> X] : f[0] = start /\ \A i \in 1..n : f[i] = step[i][f[i - 1]]
    BY <2>1, RunsExist
  <2> QED
    BY <2>2 DEF start, X
<1>5. \A i \in 1..n :
        g[i] = IF Readable(clients[i]) THEN Append(g[i - 1], clients[i]) ELSE g[i - 1]
  <2> SUFFICES ASSUME NEW i \in 1..n
               PROVE  g[i] = IF Readable(clients[i]) THEN Append(g[i - 1], clients[i]) ELSE g[i - 1]
    OBVIOUS
  <2>1. g[i - 1] \in Seq(Conns) /\ i \in Nat
    BY <1>1
  <2>2. g[i] = step[i][g[i - 1]]
    BY <1>4
  <2> QED
    BY <2>1, <2>2
<1>6. F(g)
  <2>1. \A i \in 0..n : g[i] = IF i = 0 THEN <<>>
          ELSE IF Readable(clients[i]) THEN Append(g[i - 1], clients[i]) ELSE g[i - 1]
    <3> SUFFICES ASSUME NEW i \in 0..n
                 PROVE  g[i] = IF i = 0 THEN <<>>
          ELSE IF Readable(clients[i]) THEN Append(g[i - 1], clients[i]) ELSE g[i - 1]
      OBVIOUS
    <3>1. CASE i = 0
      BY <1>4, <3>1
    <3>2. CASE i # 0
      <4>1. i \in 1..n
        BY <1>1, <3>2
      <4> QED
        BY <1>5, <3>2, <4>1
    <3> QED
      BY <3>1, <3>2
  <2>2. g = [i \in 0..n |-> g[i]]
    OBVIOUS
  <2> QED
    BY <2>1, <2>2
<1> DEFINE upTo == CHOOSE f : F(f)
<1>7. Reported = upTo[n]
  BY DEF Reported, n
<1>8. F(upTo)
  BY <1>6
<1> HIDE DEF upTo, step
<1>9. \A i \in 0..n : upTo[i] = IF i = 0 THEN <<>>
        ELSE IF Readable(clients[i]) THEN Append(upTo[i - 1], clients[i]) ELSE upTo[i - 1]
  BY <1>8
<1>10. \A i \in 0..n : upTo[i] = g[i]
  <2> DEFINE P == {i \in Nat : i \in 0..n => upTo[i] = g[i]}
  <2>1. 0 \in P
    BY <1>1, <1>4, <1>9
  <2>2. ASSUME NEW i \in P PROVE i + 1 \in P
    <3>1. i \in Nat /\ (i \in 0..n => upTo[i] = g[i])
      OBVIOUS
    <3>2. ASSUME i + 1 \in 0..n PROVE upTo[i + 1] = g[i + 1]
      <4>1. i \in 0..n /\ i + 1 \in 1..n /\ (i + 1) - 1 = i /\ i + 1 # 0
        BY <1>1, <3>1, <3>2
      <4>2. upTo[i + 1] = IF Readable(clients[i + 1]) THEN Append(upTo[i], clients[i + 1]) ELSE upTo[i]
        BY <1>9, <3>2, <4>1
      <4>3. g[i + 1] = IF Readable(clients[i + 1]) THEN Append(g[i], clients[i + 1]) ELSE g[i]
        BY <1>5, <4>1
      <4> QED
        BY <3>1, <4>1, <4>2, <4>3
    <3> QED
      BY <3>1, <3>2
  <2>3. P = Nat
    <3> HIDE DEF P
    <3>1. P \subseteq Nat
      BY DEF P
    <3> QED
      BY <2>1, <2>2, <3>1, NatsBySteps
  <2> QED
    BY <1>1, <2>3
<1>11. Reported = g[n]
  BY <1>1, <1>7, <1>10
<1> QED
  BY <1>4, <1>5, <1>11 DEF n

\* What select reports are clients to read from, each once.
LEMMA ReportedFacts ==
  ASSUME ListInv
  PROVE  /\ Reported \in Seq(Conns)
         /\ IsInjective(Reported)
         /\ ToSet(Reported) \subseteq ToSet(clients)
         /\ \A c \in ToSet(Reported) : Readable(c)
<1> DEFINE n == Len(clients)
           First(i) == {clients[k] : k \in 1..i}
           Readables == {c \in Conns : Readable(c)}
<1>1. PICK upTo \in [0..n -> Seq(Conns)] :
        /\ Reported = upTo[n]
        /\ upTo[0] = <<>>
        /\ \A i \in 1..n :
             upTo[i] = IF Readable(clients[i]) THEN Append(upTo[i - 1], clients[i]) ELSE upTo[i - 1]
  BY ReportedRuns
<1>2. /\ n \in Nat /\ DOMAIN clients = 1..n /\ IsInjective(clients)
      /\ \A i \in 1..n : clients[i] \in Conns
  BY ElementOfSeq, LenProperties DEF ListInv, ListTyped, ListSound
<1> HIDE DEF n
<1> DEFINE Good(i) == ToSet(upTo[i]) \subseteq First(i) /\ ToSet(upTo[i]) \subseteq Readables
           P == {i \in Nat : i \in 0..n => IsInjective(upTo[i]) /\ Good(i)}
<1>3. 0 \in P
  BY <1>1 DEF IsInjective, ToSet
<1>4. ASSUME NEW i \in P PROVE i + 1 \in P
  <2>1. i \in Nat /\ (i \in 0..n => IsInjective(upTo[i]) /\ Good(i))
    OBVIOUS
  <2>2. ASSUME i + 1 \in 0..n
        PROVE  IsInjective(upTo[i + 1]) /\ Good(i + 1)
    <3>1. /\ i \in 0..n /\ i + 1 \in 1..n /\ (i + 1) - 1 = i
          /\ upTo[i] \in Seq(Conns) /\ clients[i + 1] \in Conns
      BY <1>2, <2>1, <2>2
    <3>2. upTo[i + 1] = IF Readable(clients[i + 1]) THEN Append(upTo[i], clients[i + 1]) ELSE upTo[i]
      BY <1>1, <3>1
    <3>3. First(i + 1) = First(i) \cup {clients[i + 1]}
      BY <2>1
    <3>4. clients[i + 1] \notin First(i)
      <4>1. \A k \in 1..i : k \in DOMAIN clients /\ i + 1 \in DOMAIN clients /\ k # i + 1
        BY <1>2, <2>1, <3>1
      <4>2. \A k \in 1..i : clients[k] # clients[i + 1]
        BY <1>2, <4>1 DEF IsInjective
      <4> QED
        BY <4>2
    <3>5. CASE Readable(clients[i + 1])
      <4>1. upTo[i + 1] = Append(upTo[i], clients[i + 1])
        BY <3>2, <3>5
      <4>2. clients[i + 1] \notin ToSet(upTo[i]) /\ IsInjective(upTo[i]) /\ Good(i)
        BY <2>1, <3>1, <3>4
      <4>3. /\ ToSet(upTo[i + 1]) = ToSet(upTo[i]) \cup {clients[i + 1]}
            /\ IsInjective(upTo[i + 1])
        BY <3>1, <4>1, <4>2, AppendAddsOne
      <4>4. clients[i + 1] \in Readables
        BY <3>1, <3>5
      <4> HIDE DEF Readables, First
      <4>5. Good(i + 1)
        BY <3>3, <4>2, <4>3, <4>4
      <4> QED
        BY <4>3, <4>5
    <3>6. CASE ~Readable(clients[i + 1])
      BY <2>1, <3>1, <3>2, <3>3, <3>6
    <3> QED
      BY <3>5, <3>6
  <2> QED
    BY <2>1, <2>2
<1>5. P = Nat
  <2> HIDE DEF P
  <2>1. P \subseteq Nat
    BY DEF P
  <2> QED
    BY <1>3, <1>4, <2>1, NatsBySteps
<1>6. IsInjective(upTo[n]) /\ Good(n) /\ upTo[n] \in Seq(Conns)
  <2>1. n \in P /\ n \in 0..n
    <3> HIDE DEF P
    <3> QED
      BY <1>2, <1>5
  <2> QED
    BY <2>1
<1>7. First(n) = ToSet(clients)
  BY <1>2 DEF ToSet
<1> QED
  BY <1>1, <1>6, <1>7

-----------------------------------------------------------------------------
(***************************************************************************)
(* The list after a step.                                                  *)
(***************************************************************************)

\* What drop_client leaves: the list without c, and every other connection.
LEMMA DropFacts ==
  ASSUME ListInv, NEW c \in Conns, Drop(c)
  PROVE  /\ conn' \in [Conns -> {"idle", "pending", "open", "dropped"}]
         /\ clients' \in Seq(Conns) /\ num_clients' \in Nat /\ unfound' \subseteq Conns
         /\ IsInjective(clients') /\ ToSet(clients') = {d \in Conns : conn'[d] = "open"}
         /\ Len(clients') <= num_clients'
         /\ shutdown = "no" => num_clients' = Len(clients')
         /\ ToSet(clients') = ToSet(clients) \ {c}
         /\ \A d \in Conns : d # c => conn'[d] = conn[d]
         /\ conn'[c] = IF conn[c] = "open" THEN "dropped" ELSE conn[c]
<1>1. /\ conn \in [Conns -> {"idle", "pending", "open", "dropped"}]
      /\ clients \in Seq(Conns) /\ num_clients \in Nat /\ unfound \subseteq Conns
      /\ Len(clients) <= num_clients /\ Len(clients) \in Nat
      /\ IsInjective(clients) /\ ToSet(clients) = {d \in Conns : conn[d] = "open"}
      /\ shutdown = "no" => num_clients = Len(clients)
  BY LenProperties DEF ListInv, ListTyped, CountSound, ListSound
<1>2. CASE c \in ToSet(clients)
  <2>1. /\ clients' = Unlinked(c) /\ conn' = [conn EXCEPT ![c] = "dropped"]
        /\ num_clients' = num_clients - 1 /\ unfound' = unfound
    BY <1>2 DEF Drop, OneLess
  <2>2. /\ Unlinked(c) \in Seq(Conns) /\ Len(Unlinked(c)) = Len(clients) - 1
        /\ IsInjective(Unlinked(c)) /\ ToSet(Unlinked(c)) = ToSet(clients) \ {c}
    BY <1>2, UnlinkedFacts
  <2>3. Len(Unlinked(c)) \in Nat
    BY <2>2, LenProperties
  <2>4. conn'[c] = "dropped" /\ conn[c] = "open" /\ \A d \in Conns : d # c => conn'[d] = conn[d]
    BY <1>1, <1>2, <2>1
  <2>5. ToSet(clients') = {d \in Conns : conn'[d] = "open"}
    BY <1>1, <2>1, <2>2, <2>4
  <2>6. num_clients' \in Nat /\ Len(clients') <= num_clients'
        /\ (shutdown = "no" => num_clients' = Len(clients'))
    BY <1>1, <2>1, <2>2, <2>3
  <2> QED
    BY <1>1, <2>1, <2>2, <2>4, <2>5, <2>6
<1>3. CASE c \notin ToSet(clients)
  <2>1. /\ clients' = clients /\ conn' = conn /\ num_clients' = num_clients
        /\ unfound' = unfound \cup {c}
    BY <1>3 DEF Drop, list
  <2> QED
    BY <1>1, <1>3, <2>1
<1> QED
  BY <1>2, <1>3

\* The loop is done with c: it goes on behind c, or begins a new round.
Leaves(c) ==
  /\ pc # "select" /\ c = Head(walk) /\ shutdown' = shutdown
  /\ walk' \in {Tail(walk), <<>>} /\ pc' = Walked(walk')
  /\ UNCHANGED <<list, unfound>> \/ Drop(c)

LEMMA LeavingKeepsList ==
  ASSUME ListInv, NEW c \in Conns, Leaves(c)
  PROVE  ListInv'
<1>1. walk \in Seq(Conns) /\ walk # <<>> /\ IsInjective(walk) /\ pc # "select"
  BY DEF ListInv, ListTyped, WalkSound, Leaves
<1>2. /\ walk' \in Seq(Conns) /\ IsInjective(walk')
      /\ ToSet(walk') \subseteq ToSet(walk) \ {c}
  <2>1. CASE walk' = <<>>
    BY <2>1, EmptySeq DEF IsInjective, ToSet
  <2>2. CASE walk' = Tail(walk)
    BY <1>1, <2>2, TailKeeps DEF Leaves
  <2> QED
    BY <2>1, <2>2 DEF Leaves
<1>3. pc' \in {"select", "read", "check", "eval"} /\ (pc' = "select" <=> walk' = <<>>)
  BY DEF Leaves, Walked
<1>4. CASE Drop(c)
  <2>1. /\ conn' \in [Conns -> {"idle", "pending", "open", "dropped"}]
        /\ clients' \in Seq(Conns) /\ num_clients' \in Nat /\ unfound' \subseteq Conns
        /\ IsInjective(clients') /\ ToSet(clients') = {d \in Conns : conn'[d] = "open"}
        /\ Len(clients') <= num_clients'
        /\ shutdown = "no" => num_clients' = Len(clients')
        /\ ToSet(clients') = ToSet(clients) \ {c}
    BY <1>4, DropFacts
  <2>2. shutdown' = "no" => ToSet(walk') \subseteq ToSet(clients')
    BY <1>2, <2>1 DEF ListInv, ListSound, Leaves
  <2>3. shutdown' = shutdown
    BY DEF Leaves
  <2> QED
    BY <1>2, <1>3, <2>1, <2>2, <2>3 DEF ListInv, ListTyped, CountSound, WalkSound, ListSound
<1>5. CASE UNCHANGED <<list, unfound>>
  BY <1>2, <1>3, <1>5 DEF list, ListInv, ListTyped, CountSound, WalkSound, ListSound, Leaves
<1> QED
  BY <1>4, <1>5 DEF Leaves

\* Who enters the loop, and how it is left, by the actions of the main thread
EvalActions(c) ==
  Result(c) \/ Refuse(c) \/ Serve(c) \/ NotServed(c) \/ Upgrade(c) \/ Receive(c)

LEMMA EvalLeaves ==
  ASSUME NEW c \in Conns, EvalActions(c)
  PROVE  Leaves(c) /\ UNCHANGED <<script, arrived, taken, cli>>
<1>1. pc = "eval" /\ c = Head(walk) /\ UNCHANGED <<script, arrived, taken, stop>>
  BY DEF EvalActions, Result, Refuse, Serve, NotServed, Upgrade, Receive, Evaluates, Alive
<1>2. DropAndBreak(c) \/ CleanUp(c)
  BY DEF EvalActions, Result, Refuse, Serve, NotServed, Upgrade, Receive
<1>3. CASE DropAndBreak(c)
  BY <1>1, <1>3 DEF DropAndBreak, Leaves, Walked, stop
<1>4. CASE CleanUp(c)
  BY <1>1, <1>4 DEF CleanUp, Leaves, stop
<1> QED
  BY <1>2, <1>3, <1>4

LEMMA CheckLeaves ==
  ASSUME NEW c \in Conns, Check(c)
  PROVE  \/ Leaves(c)
         \/ pc = "check" /\ pc' = "eval" /\ UNCHANGED <<list, walk, unfound, stop>>
<1>1. /\ pc = "check" /\ c = Head(walk) /\ UNCHANGED stop
      /\ IF received[c] > 0
           THEN pc' = "eval" /\ UNCHANGED <<list, walk, unfound>>
           ELSE CleanUp(c)
  BY DEF Check
<1>2. CASE received[c] > 0
  BY <1>1, <1>2
<1>3. CASE ~(received[c] > 0)
  BY <1>1, <1>3 DEF CleanUp, Leaves, stop
<1> QED
  BY <1>2, <1>3

LEMMA UseLeaves ==
  ASSUME NEW c \in Conns, UseFreed(c)
  PROVE  Leaves(c) /\ Drop(c)
BY DEF UseFreed, Leaves, stop

\* Select and accept
LEMMA SelectKeepsList ==
  ASSUME ListInv, Select
  PROVE  ListInv'
<1>1. /\ Reported \in Seq(Conns) /\ IsInjective(Reported)
      /\ ToSet(Reported) \subseteq ToSet(clients)
  BY ReportedFacts
<1>2. walk' = Reported /\ pc' = Walked(Reported) /\ UNCHANGED <<stop, unfound>>
  BY DEF Select
<1>3. /\ walk' \in Seq(Conns) /\ IsInjective(walk') /\ ToSet(walk') \subseteq ToSet(clients)
      /\ pc' \in {"select", "read", "check", "eval"} /\ (pc' = "select" <=> walk' = <<>>)
      /\ shutdown' = shutdown /\ unfound' = unfound
  BY <1>1, <1>2 DEF Walked, stop
<1>4. /\ conn \in [Conns -> {"idle", "pending", "open", "dropped"}]
      /\ clients \in Seq(Conns) /\ num_clients \in Nat /\ unfound \subseteq Conns
      /\ Len(clients) <= num_clients /\ Len(clients) \in Nat
      /\ IsInjective(clients) /\ ToSet(clients) = {d \in Conns : conn[d] = "open"}
      /\ shutdown = "no" => num_clients = Len(clients)
  BY LenProperties DEF ListInv, ListTyped, CountSound, ListSound
<1> DEFINE Good ==
      /\ conn' \in [Conns -> {"idle", "pending", "open", "dropped"}]
      /\ clients' \in Seq(Conns) /\ num_clients' \in Nat
      /\ Len(clients') <= num_clients'
      /\ IsInjective(clients') /\ ToSet(clients') = {d \in Conns : conn'[d] = "open"}
      /\ shutdown = "no" => num_clients' = Len(clients')
      /\ ToSet(clients) \subseteq ToSet(clients')
<1>5. Good
  <2>1. CASE UNCHANGED list
    BY <1>4, <2>1 DEF list
  <2>2. ASSUME NEW c \in Conns, conn[c] = "pending",
               conn' = [conn EXCEPT ![c] = "open"], clients' = <<c>> \o clients,
               num_clients' = num_clients + 1
        PROVE  Good
    <3>1. c \notin ToSet(clients)
      BY <1>4, <2>2
    <3>2. /\ clients' \in Seq(Conns) /\ Len(clients') = Len(clients) + 1
          /\ ToSet(clients') = ToSet(clients) \cup {c} /\ IsInjective(clients')
      BY <1>4, <2>2, <3>1, FrontAddsOne
    <3>3. conn'[c] = "open" /\ \A d \in Conns : d # c => conn'[d] = conn[d]
      BY <1>4, <2>2
    <3>4. ToSet(clients') = {d \in Conns : conn'[d] = "open"}
      BY <1>4, <3>2, <3>3
    <3>5. conn' \in [Conns -> {"idle", "pending", "open", "dropped"}]
      BY <1>4, <2>2
    <3>6. /\ num_clients' \in Nat /\ Len(clients') <= num_clients'
          /\ shutdown = "no" => num_clients' = Len(clients')
      BY <1>4, <2>2, <3>2
    <3> QED
      BY <3>2, <3>4, <3>5, <3>6
  <2>3. ASSUME NEW c \in Conns, conn[c] = "pending",
               conn' = [conn EXCEPT ![c] = "dropped"], UNCHANGED <<clients, num_clients>>
        PROVE  Good
    <3>1. conn'[c] = "dropped" /\ \A d \in Conns : d # c => conn'[d] = conn[d]
      BY <1>4, <2>3
    <3>2. conn' \in [Conns -> {"idle", "pending", "open", "dropped"}]
      BY <1>4, <2>3
    <3>3. {d \in Conns : conn'[d] = "open"} = {d \in Conns : conn[d] = "open"}
      BY <2>3, <3>1
    <3> QED
      BY <1>4, <2>3, <3>2, <3>3
  <2> QED
    BY <2>1, <2>2, <2>3 DEF Select
<1> QED
  BY <1>3, <1>5 DEF ListInv, ListTyped, CountSound, WalkSound, ListSound

\* Connections come and data arrives: the list stays.
LEMMA DialKeepsList ==
  ASSUME ListInv, NEW c \in Conns, Dial(c)
  PROVE  ListInv'
<1>1. /\ conn[c] = "idle" /\ conn' = [conn EXCEPT ![c] = "pending"]
      /\ UNCHANGED <<clients, num_clients, pc, walk, shutdown, unfound>>
  BY DEF Dial, main, stop
<1>2. conn \in [Conns -> {"idle", "pending", "open", "dropped"}]
  BY DEF ListInv, ListTyped
<1>3. /\ conn' \in [Conns -> {"idle", "pending", "open", "dropped"}]
      /\ {d \in Conns : conn'[d] = "open"} = {d \in Conns : conn[d] = "open"}
  BY <1>1, <1>2
<1> QED
  BY <1>1, <1>3 DEF ListInv, ListTyped, CountSound, WalkSound, ListSound

\* A step that leaves the list and the place of the loop in it
LEMMA StayingKeepsList ==
  ASSUME ListInv, UNCHANGED <<conn, clients, num_clients, walk, unfound>>,
         pc' = pc \/ (pc # "select" /\ pc' \in {"read", "check", "eval"}),
         shutdown' = "no" => shutdown = "no"
  PROVE  ListInv'
BY DEF ListInv, ListTyped, CountSound, WalkSound, ListSound

LEMMA ShutdownDropKeepsList ==
  ASSUME ListInv, ShutdownDrop, cli \in Seq(Conns)
  PROVE  ListInv'
<1> DEFINE c == Head(cli)
<1>1. c \in Conns
  BY TailKeeps DEF ShutdownDrop
<1>2. /\ conn \in [Conns -> {"idle", "pending", "open", "dropped"}]
      /\ clients \in Seq(Conns) /\ num_clients \in Nat /\ unfound \subseteq Conns
      /\ Len(clients) <= num_clients /\ Len(clients) \in Nat
      /\ IsInjective(clients) /\ ToSet(clients) = {d \in Conns : conn[d] = "open"}
  BY LenProperties DEF ListInv, ListTyped, CountSound, ListSound
<1>3. /\ shutdown = "dropping" /\ shutdown' = "dropping"
      /\ UNCHANGED <<num_clients, pc, walk>>
      /\ IF c \in ToSet(clients)
           THEN clients' = Unlinked(c) /\ conn' = [conn EXCEPT ![c] = "dropped"] /\ UNCHANGED unfound
           ELSE unfound' = unfound \cup {c} /\ UNCHANGED <<clients, conn>>
  BY DEF ShutdownDrop, main
<1> HIDE DEF c
<1>4. CASE c \in ToSet(clients)
  <2>1. clients' = Unlinked(c) /\ conn' = [conn EXCEPT ![c] = "dropped"] /\ unfound' = unfound
    BY <1>3, <1>4
  <2>2. /\ clients' \in Seq(Conns) /\ Len(clients') = Len(clients) - 1
        /\ IsInjective(clients') /\ ToSet(clients') = ToSet(clients) \ {c}
    BY <1>4, <2>1, UnlinkedFacts
  <2>3. conn'[c] = "dropped" /\ \A d \in Conns : d # c => conn'[d] = conn[d]
    BY <1>1, <1>2, <2>1
  <2>4. /\ conn' \in [Conns -> {"idle", "pending", "open", "dropped"}]
        /\ ToSet(clients') = {d \in Conns : conn'[d] = "open"}
    BY <1>2, <2>1, <2>2, <2>3
  <2>5. Len(clients') <= num_clients'
    BY <1>2, <1>3, <2>2
  <2> QED
    BY <1>3, <2>1, <2>2, <2>4, <2>5 DEF ListInv, ListTyped, CountSound, WalkSound, ListSound
<1>5. CASE c \notin ToSet(clients)
  BY <1>1, <1>2, <1>3, <1>5 DEF ListInv, ListTyped, CountSound, WalkSound, ListSound
<1> QED
  BY <1>4, <1>5

\* The jobs and the end of the process leave the list alone.
JobActions(i, c) ==
  JobUsesFreed(i, c) \/ Link(i, c) \/ Enable(i, c) \/ WsToClient(i, c) \/ RecvWebsocket(i, c)

LEMMA JobsLeaveList ==
  ASSUME NEW i, NEW c, JobActions(i, c)
  PROVE  UNCHANGED <<script, list, arrived, taken, websocket, ws, main, stop, unfound>>
BY DEF JobActions, JobUsesFreed, Link, Enable, WsToClient, RecvWebsocket, Alive

LEMMA ListStep ==
  ASSUME ListInv, cli \in Seq(Conns), [Next]_vars
  PROVE  ListInv'
<1>1. ASSUME NEW c \in Conns, Dial(c) PROVE ListInv'
  BY <1>1, DialKeepsList
<1>2. ASSUME NEW c \in Conns, Arrive(c) PROVE ListInv'
  BY <1>2, StayingKeepsList DEF Arrive, list, main, stop
<1>3. CASE Select
  BY <1>3, SelectKeepsList
<1>4. ASSUME NEW c \in Conns, Read(c) PROVE ListInv'
  <2>1. pc = "read" /\ pc' \in {"read", "check"} /\ UNCHANGED <<list, walk, stop, unfound>>
    BY <1>4 DEF Read
  <2> QED
    BY <2>1, StayingKeepsList DEF list, stop
<1>5. ASSUME NEW c \in Conns, UseFreed(c) PROVE ListInv'
  BY <1>5, UseLeaves, LeavingKeepsList
<1>6. ASSUME NEW c \in Conns, Check(c) PROVE ListInv'
  <2>1. CASE Leaves(c)
    BY <2>1, LeavingKeepsList
  <2>2. CASE pc = "check" /\ pc' = "eval" /\ UNCHANGED <<list, walk, unfound, stop>>
    BY <2>2, StayingKeepsList DEF list, stop
  <2> QED
    BY <1>6, <2>1, <2>2, CheckLeaves
<1>7. ASSUME NEW c \in Conns, EvalActions(c) PROVE ListInv'
  BY <1>7, EvalLeaves, LeavingKeepsList
<1>8. ASSUME NEW i, NEW c, JobActions(i, c) PROVE ListInv'
  BY <1>8, JobsLeaveList, StayingKeepsList DEF list, main, stop
<1>9. CASE Interrupt
  BY <1>9, StayingKeepsList DEF Interrupt, list, main
<1>10. CASE ShutdownDrop
  BY <1>10, ShutdownDropKeepsList
<1>11. CASE Exit
  BY <1>11, StayingKeepsList DEF Exit, list, main
<1>12. CASE UNCHANGED vars
  BY <1>12, StayingKeepsList DEF vars, list, main, stop
<1> QED
  BY <1>1, <1>2, <1>3, <1>4, <1>5, <1>6, <1>7, <1>8, <1>9, <1>10, <1>11, <1>12
     DEF Next, Main, Job, EvalActions, JobActions

-----------------------------------------------------------------------------
(***************************************************************************)
(* Types of the other variables.                                           *)
(***************************************************************************)
JobRecords ==
  [fn : {"connect", "recv_websocket", "ws_to_client"}, client : Conns, step : {"start", "linked"}]
Texts == {"page", "http", "handshake", "enabled", "empty"} \cup Inputs \cup Conns

DataTyped ==
  /\ state \in [Conns -> States]
  /\ websocket \in [Conns -> BOOLEAN]
  /\ request \in [Conns -> Seq(Inputs \cup Conns)]
  /\ received \in [Conns -> Nat]
  /\ ws \in Conns \cup {None}
  /\ jobs \in Seq(JobRecords)
  /\ sent \in [Conns -> Seq(Texts)]
  /\ shutdown \in {"no", "dropping", "exited"}
  /\ cli \in Seq(Conns)
  /\ dangling \subseteq Conns

InputsSound ==
  /\ InputsGiven
  /\ \A c \in Conns : taken[c] <= arrived[c] /\ arrived[c] <= Len(script[c])

\* TypeOK in three parts
LEMMA TypesSplit ==
  TypeOK /\ InputsGiven <=> ListTyped /\ DataTyped /\ InputsSound
<1>1. ASSUME InputsGiven
      PROVE  (\A c \in Conns : taken[c] \in 0..arrived[c] /\ arrived[c] \in 0..Len(script[c]))
               <=> (\A c \in Conns : taken[c] <= arrived[c] /\ arrived[c] <= Len(script[c]))
  <2>1. \A c \in Conns : taken[c] \in Nat /\ arrived[c] \in Nat /\ Len(script[c]) \in Nat
    BY <1>1, LenProperties DEF InputsGiven
  <2> QED
    BY <2>1
<1> QED
  BY <1>1 DEF TypeOK, ListTyped, DataTyped, InputsSound, JobRecords, Texts

\* One more text is written to a connection.
LEMMA Written ==
  ASSUME NEW f \in [Conns -> Seq(Texts)], NEW c \in Conns, NEW x \in Texts
  PROVE  [f EXCEPT ![c] = Append(@, x)] \in [Conns -> Seq(Texts)]
<1>1. Append(f[c], x) \in Seq(Texts)
  BY AppendProperties
<1> QED
  BY <1>1

\* One more job is given to the pool.
LEMMA JobGiven ==
  ASSUME DataTyped, NEW c \in Conns, NEW fn \in {"connect", "recv_websocket", "ws_to_client"}
  PROVE  /\ Append(jobs, [fn |-> fn, client |-> c, step |-> "start"]) \in Seq(JobRecords)
         /\ Len(Append(jobs, [fn |-> fn, client |-> c, step |-> "start"])) = Len(jobs) + 1
         /\ \A i \in 1..(Len(jobs) + 1) :
              Append(jobs, [fn |-> fn, client |-> c, step |-> "start"])[i]
                = IF i <= Len(jobs) THEN jobs[i] ELSE [fn |-> fn, client |-> c, step |-> "start"]
<1> DEFINE j == [fn |-> fn, client |-> c, step |-> "start"]
<1>1. j \in JobRecords
  BY DEF JobRecords
<1>2. jobs \in Seq(JobRecords) /\ Len(jobs) \in Nat
  BY LenProperties DEF DataTyped
<1> HIDE DEF j
<1>3. /\ Append(jobs, j) \in Seq(JobRecords) /\ Len(Append(jobs, j)) = Len(jobs) + 1
      /\ \A i \in 1..Len(jobs) : Append(jobs, j)[i] = jobs[i]
      /\ Append(jobs, j)[Len(jobs) + 1] = j
  BY <1>1, <1>2, AppendProperties
<1>4. \A i \in 1..(Len(jobs) + 1) : Append(jobs, j)[i] = IF i <= Len(jobs) THEN jobs[i] ELSE j
  BY <1>2, <1>3
<1> QED
  BY <1>3, <1>4 DEF j

\* A job ends, or does its first step.
LEMMA JobDone ==
  ASSUME DataTyped, NEW i \in 1..Len(jobs)
  PROVE  /\ RemoveAt(jobs, i) \in Seq(JobRecords)
         /\ Len(RemoveAt(jobs, i)) = Len(jobs) - 1
         /\ \A k \in 1..(Len(jobs) - 1) : RemoveAt(jobs, i)[k] = IF k < i THEN jobs[k] ELSE jobs[k + 1]
BY RemoveAtFacts DEF DataTyped

LEMMA JobLinked ==
  ASSUME DataTyped, NEW i \in 1..Len(jobs)
  PROVE  /\ [jobs EXCEPT ![i].step = "linked"] \in Seq(JobRecords)
         /\ Len([jobs EXCEPT ![i].step = "linked"]) = Len(jobs)
         /\ \A k \in 1..Len(jobs) : [jobs EXCEPT ![i].step = "linked"][k].client = jobs[k].client
<1> DEFINE e == [jobs[i] EXCEPT !.step = "linked"]
<1>1. jobs \in Seq(JobRecords) /\ jobs[i] \in JobRecords
  BY ElementOfSeq DEF DataTyped
<1>2. e \in JobRecords /\ e.client = jobs[i].client
  BY <1>1 DEF JobRecords
<1>3. [jobs EXCEPT ![i].step = "linked"] = [jobs EXCEPT ![i] = e]
  OBVIOUS
<1> HIDE DEF e
<1>4. /\ [jobs EXCEPT ![i] = e] \in Seq(JobRecords)
      /\ Len([jobs EXCEPT ![i] = e]) = Len(jobs)
      /\ \A k \in 1..Len(jobs) : [jobs EXCEPT ![i] = e][k] = IF k = i THEN e ELSE jobs[k]
  BY <1>1, <1>2, ExceptSeq
<1> QED
  BY <1>2, <1>3, <1>4

\* A step that changes none of the fields of a client but these keeps the types
\* when the new values have them.
LEMMA TypedFields ==
  ASSUME DataTyped,
         state' \in [Conns -> States], websocket' \in [Conns -> BOOLEAN],
         request' \in [Conns -> Seq(Inputs \cup Conns)], received' \in [Conns -> Nat],
         ws' \in Conns \cup {None}, jobs' \in Seq(JobRecords), sent' \in [Conns -> Seq(Texts)],
         UNCHANGED stop, dangling' \subseteq Conns
  PROVE  DataTyped'
BY DEF DataTyped, stop

\* The buffer after a read
LEMMA FilledTyped ==
  ASSUME DataTyped, NEW c \in Conns, NEW input \in Inputs
  PROVE  Filled(c, input) \in Seq(Inputs \cup Conns)
<1>1. request[c] \in Seq(Inputs \cup Conns) /\ received[c] \in Nat /\ Len(request[c]) \in Nat
  BY LenProperties DEF DataTyped
<1>2. CASE received[c] <= Len(request[c])
  <2>1. \A k \in 1..received[c] : request[c][k] \in Inputs \cup Conns
    <3>1. \A k \in 1..received[c] : k \in 1..Len(request[c])
      BY <1>1, <1>2
    <3> QED
      BY <1>1, <3>1, ElementOfSeq
  <2>2. SubSeq(request[c], 1, received[c]) \in Seq(Inputs \cup Conns)
    BY <1>1, <2>1, SubSeqProperties
  <2>3. Filled(c, input) = Append(SubSeq(request[c], 1, received[c]), input)
    BY <1>2 DEF Filled
  <2> QED
    BY <2>2, <2>3, AppendProperties
<1>3. CASE ~(received[c] <= Len(request[c]))
  BY <1>1, <1>3 DEF Filled
<1> QED
  BY <1>2, <1>3

\* One read: what arrived is taken at most once.
LEMMA ReadFacts ==
  ASSUME DataTyped, InputsSound, NEW c \in Conns, Read(c)
  PROVE  /\ InputsSound'
         /\ DataTyped'
<1>1. /\ script \in [Conns -> Seq(Inputs)] /\ arrived \in [Conns -> Nat] /\ taken \in [Conns -> Nat]
      /\ \A d \in Conns : taken[d] <= arrived[d] /\ arrived[d] <= Len(script[d])
      /\ received \in [Conns -> Nat]
  BY DEF InputsSound, InputsGiven, DataTyped
<1>2. Len(script[c]) \in Nat /\ taken[c] \in Nat /\ arrived[c] \in Nat
  BY <1>1, LenProperties
<1>3. /\ taken[c] < arrived[c] \/ Ended(c)
      /\ UNCHANGED <<script, arrived, state, websocket, ws, jobs, sent, stop, dangling>>
  BY DEF Read, Readable, Alive
<1> DEFINE input == script[c][taken[c] + 1]
<1>4. CASE Ended(c) \/ input = "eof"
  <2>1. /\ taken' = [taken EXCEPT ![c] = IF Ended(c) THEN @ ELSE @ + 1]
        /\ UNCHANGED <<request, received>>
    BY <1>4 DEF Read
  <2>2. taken' \in [Conns -> Nat] /\ \A d \in Conns : taken'[d] <= arrived[d]
    <3>1. CASE Ended(c)
      BY <1>1, <2>1, <3>1
    <3>2. CASE ~Ended(c)
      BY <1>1, <1>2, <1>3, <2>1, <3>2
    <3> QED
      BY <3>1, <3>2
  <2> QED
    BY <1>1, <1>3, <2>1, <2>2 DEF InputsSound, InputsGiven, DataTyped, stop
<1>5. CASE ~(Ended(c) \/ input = "eof")
  <2>1. taken[c] < arrived[c]
    BY <1>3, <1>5
  <2>2. input \in Inputs
    <3>1. taken[c] + 1 \in 1..Len(script[c])
      BY <1>1, <1>2, <2>1
    <3> QED
      BY <1>1, <3>1, ElementOfSeq
  <2>3. /\ taken' = [taken EXCEPT ![c] = @ + 1]
        /\ request' = [request EXCEPT ![c] = Filled(c, input)]
        /\ received' = [received EXCEPT ![c] = @ + 1]
    BY <1>5 DEF Read
  <2>4. taken' \in [Conns -> Nat] /\ \A d \in Conns : taken'[d] <= arrived[d]
    BY <1>1, <1>2, <2>1, <2>3
  <2>5. received' \in [Conns -> Nat]
    BY <1>1, <2>3
  <2>6. Filled(c, input) \in Seq(Inputs \cup Conns)
    BY <2>2, FilledTyped
  <2>7. request' \in [Conns -> Seq(Inputs \cup Conns)]
    BY <2>3, <2>6 DEF DataTyped
  <2> QED
    BY <1>1, <1>3, <2>4, <2>5, <2>7 DEF InputsSound, InputsGiven, DataTyped, stop
<1> QED
  BY <1>4, <1>5

\* The main thread evaluates a request.
LEMMA EvalTyped ==
  ASSUME DataTyped, NEW c \in Conns, EvalActions(c)
  PROVE  DataTyped'
<1>1. /\ state \in [Conns -> States] /\ websocket \in [Conns -> BOOLEAN]
      /\ request \in [Conns -> Seq(Inputs \cup Conns)] /\ received \in [Conns -> Nat]
      /\ ws \in Conns \cup {None} /\ jobs \in Seq(JobRecords) /\ sent \in [Conns -> Seq(Texts)]
      /\ dangling \subseteq Conns
  BY DEF DataTyped
<1>2. CASE Result(c)
  <2>1. /\ UNCHANGED <<state, websocket, received, ws, stop>>
        /\ sent' = [sent EXCEPT ![c] = Append(@, "http")]
    BY <1>2 DEF Result
  <2>2. sent' \in [Conns -> Seq(Texts)]
    BY <1>1, <2>1, Written DEF Texts
  <2>3. /\ request' \in [Conns -> Seq(Inputs \cup Conns)] /\ jobs' \in Seq(JobRecords)
        /\ dangling' \subseteq Conns
    <3>1. CASE ws = None
      BY <1>1, <1>2, <3>1 DEF Result
    <3>2. CASE ws # None /\ ws \notin ToSet(clients)
      BY <1>1, <1>2, <3>2 DEF Result
    <3>3. CASE ws # None /\ ws \in ToSet(clients)
      <4>1. /\ request' = [request EXCEPT ![ws] = <<c>>]
            /\ jobs' = Append(jobs, [fn |-> "ws_to_client", client |-> ws, step |-> "start"])
            /\ UNCHANGED dangling
        BY <1>2, <3>3 DEF Result
      <4>2. <<c>> \in Seq(Inputs \cup Conns) /\ ws \in Conns
        BY <1>1, <3>3
      <4>3. jobs' \in Seq(JobRecords)
        BY <4>1, <4>2, JobGiven
      <4> QED
        BY <1>1, <4>1, <4>2, <4>3
    <3> QED
      BY <3>1, <3>2, <3>3
  <2> QED
    BY <1>1, <2>1, <2>2, <2>3, TypedFields
<1>3. CASE Refuse(c)
  BY <1>1, <1>3, TypedFields DEF Refuse, data
<1>4. CASE Serve(c)
  <2>1. /\ UNCHANGED <<websocket, request, received, ws, jobs, stop, dangling>>
        /\ state' = [state EXCEPT ![c] = "alive"]
        /\ sent' = [sent EXCEPT ![c] = Append(@, "page")] \/ UNCHANGED sent
    BY <1>4 DEF Serve
  <2>2. sent' \in [Conns -> Seq(Texts)]
    <3>1. CASE sent' = [sent EXCEPT ![c] = Append(@, "page")]
      BY <1>1, <3>1, Written DEF Texts
    <3>2. CASE UNCHANGED sent
      BY <1>1, <3>2
    <3> QED
      BY <2>1, <3>1, <3>2
  <2>3. state' \in [Conns -> States]
    BY <1>1, <2>1 DEF States
  <2> QED
    BY <1>1, <2>1, <2>2, <2>3, TypedFields
<1>5. CASE NotServed(c)
  <2>1. /\ UNCHANGED <<websocket, request, received, ws, jobs, sent, stop, dangling>>
        /\ state' = [state EXCEPT ![c] = "closing"] \/ UNCHANGED state
    BY <1>5 DEF NotServed
  <2>2. state' \in [Conns -> States]
    BY <1>1, <2>1 DEF States
  <2> QED
    BY <1>1, <2>1, <2>2, TypedFields
<1>6. CASE Upgrade(c)
  <2>1. /\ UNCHANGED <<request, received, sent, stop, dangling>>
        /\ state' = [state EXCEPT ![c] = "upgrading"] /\ ws' = c
        /\ websocket' = [websocket EXCEPT ![c] = TRUE]
        /\ jobs' = Append(jobs, [fn |-> "connect", client |-> c, step |-> "start"])
    BY <1>6 DEF Upgrade, Marked
  <2>2. state' \in [Conns -> States] /\ websocket' \in [Conns -> BOOLEAN] /\ ws' \in Conns \cup {None}
    BY <1>1, <2>1 DEF States
  <2>3. jobs' \in Seq(JobRecords)
    BY <2>1, JobGiven
  <2> QED
    BY <1>1, <2>1, <2>2, <2>3, TypedFields
<1>7. CASE Receive(c)
  <2>1. /\ UNCHANGED <<state, request, received, ws, sent, stop, dangling>>
        /\ websocket' = [websocket EXCEPT ![c] = TRUE]
        /\ jobs' = Append(jobs, [fn |-> "recv_websocket", client |-> c, step |-> "start"])
    BY <1>7 DEF Receive, Marked
  <2>2. websocket' \in [Conns -> BOOLEAN]
    BY <1>1, <2>1
  <2>3. jobs' \in Seq(JobRecords)
    BY <2>1, JobGiven
  <2> QED
    BY <1>1, <2>1, <2>2, <2>3, TypedFields
<1> QED
  BY <1>2, <1>3, <1>4, <1>5, <1>6, <1>7 DEF EvalActions

\* The jobs
LEMMA JobsTyped ==
  ASSUME DataTyped, NEW i \in Nat, NEW c \in Conns, JobActions(i, c)
  PROVE  /\ DataTyped'
         /\ i \in 1..Len(jobs) /\ jobs[i].client = c
         /\ jobs' = RemoveAt(jobs, i) \/ jobs' = [jobs EXCEPT ![i].step = "linked"]
<1>1. /\ state \in [Conns -> States] /\ websocket \in [Conns -> BOOLEAN]
      /\ request \in [Conns -> Seq(Inputs \cup Conns)] /\ received \in [Conns -> Nat]
      /\ ws \in Conns \cup {None} /\ jobs \in Seq(JobRecords) /\ sent \in [Conns -> Seq(Texts)]
      /\ dangling \subseteq Conns
  BY DEF DataTyped
<1>2. i \in 1..Len(jobs) /\ jobs[i].client = c
  BY DEF JobActions, JobUsesFreed, Link, Enable, WsToClient, RecvWebsocket, Runs
<1>3. jobs' = RemoveAt(jobs, i) \/ jobs' = [jobs EXCEPT ![i].step = "linked"]
  BY DEF JobActions, JobUsesFreed, Link, Enable, WsToClient, RecvWebsocket
<1>4. jobs' \in Seq(JobRecords)
  BY <1>2, <1>3, JobDone, JobLinked
<1>5. UNCHANGED <<websocket, ws, stop>>
  BY JobsLeaveList
<1>6. CASE JobUsesFreed(i, c)
  <2>1. UNCHANGED <<state, request, received, sent>> /\ dangling' = dangling \cup {c}
    BY <1>6 DEF JobUsesFreed
  <2>2. DataTyped'
    BY <1>1, <1>4, <1>5, <2>1, TypedFields
  <2> QED
    BY <1>2, <1>3, <2>2
<1>7. CASE Link(i, c)
  <2>1. /\ UNCHANGED <<request, received, dangling>>
        /\ state' = [state EXCEPT ![c] = "open_ws"] \/ state' = [state EXCEPT ![c] = "null"]
        /\ sent' = [sent EXCEPT ![c] = Append(@, "handshake")] \/ UNCHANGED sent
    BY <1>7 DEF Link
  <2>2. sent' \in [Conns -> Seq(Texts)]
    <3>1. CASE sent' = [sent EXCEPT ![c] = Append(@, "handshake")]
      BY <1>1, <3>1, Written DEF Texts
    <3>2. CASE UNCHANGED sent
      BY <1>1, <3>2
    <3> QED
      BY <2>1, <3>1, <3>2
  <2>3. state' \in [Conns -> States]
    BY <1>1, <2>1 DEF States
  <2>4. DataTyped'
    BY <1>1, <1>4, <1>5, <2>1, <2>2, <2>3, TypedFields
  <2> QED
    BY <1>2, <1>3, <2>4
<1>8. CASE Enable(i, c)
  <2>1. /\ UNCHANGED <<state, dangling>>
        /\ sent' = [sent EXCEPT ![c] = Append(@, "enabled")]
        /\ request' = [request EXCEPT ![c] = <<>>]
        /\ received' = [received EXCEPT ![c] = 0]
    BY <1>8 DEF Enable, Emptied
  <2>2. sent' \in [Conns -> Seq(Texts)]
    BY <1>1, <2>1, Written DEF Texts
  <2>3. request' \in [Conns -> Seq(Inputs \cup Conns)] /\ received' \in [Conns -> Nat]
    BY <1>1, <2>1, EmptySeq
  <2>4. DataTyped'
    BY <1>1, <1>4, <1>5, <2>1, <2>2, <2>3, TypedFields
  <2> QED
    BY <1>2, <1>3, <2>4
<1>9. CASE WsToClient(i, c)
  <2> DEFINE x == IF request[c] = <<>> THEN "empty" ELSE request[c][1]
  <2>1. /\ UNCHANGED <<state, received, dangling>>
        /\ sent' = [sent EXCEPT ![c] = Append(@, x)]
        /\ request' = [request EXCEPT ![c] = <<>>]
    BY <1>9 DEF WsToClient
  <2>2. x \in Texts
    <3>1. CASE request[c] = <<>>
      BY <3>1 DEF Texts
    <3>2. CASE request[c] # <<>>
      <4>1. request[c] \in Seq(Inputs \cup Conns) /\ 1 \in 1..Len(request[c])
        BY <1>1, <3>2, EmptySeq, LenProperties
      <4>2. request[c][1] \in Inputs \cup Conns
        BY <4>1, ElementOfSeq
      <4> QED
        BY <3>2, <4>2 DEF Texts
    <3> QED
      BY <3>1, <3>2
  <2> HIDE DEF x
  <2>3. sent' \in [Conns -> Seq(Texts)]
    BY <1>1, <2>1, <2>2, Written
  <2>4. request' \in [Conns -> Seq(Inputs \cup Conns)]
    BY <1>1, <2>1, EmptySeq
  <2>5. DataTyped'
    BY <1>1, <1>4, <1>5, <2>1, <2>3, <2>4, TypedFields
  <2> QED
    BY <1>2, <1>3, <2>5
<1>10. CASE RecvWebsocket(i, c)
  <2>1. UNCHANGED <<state, request, received, sent, dangling>>
    BY <1>10 DEF RecvWebsocket
  <2>2. DataTyped'
    BY <1>1, <1>4, <1>5, <2>1, TypedFields
  <2> QED
    BY <1>2, <1>3, <2>2
<1> QED
  BY <1>6, <1>7, <1>8, <1>9, <1>10 DEF JobActions

LEMMA TypesStep ==
  ASSUME ListInv, DataTyped, InputsSound, [Next]_vars
  PROVE  DataTyped' /\ InputsSound'
<1>1. /\ script \in [Conns -> Seq(Inputs)] /\ arrived \in [Conns -> Nat] /\ taken \in [Conns -> Nat]
      /\ \A d \in Conns : taken[d] <= arrived[d] /\ arrived[d] <= Len(script[d])
      /\ \A d \in Conns : Len(script[d]) \in Nat
  BY LenProperties DEF InputsSound, InputsGiven
<1>2. ASSUME UNCHANGED <<script, arrived, taken>> PROVE InputsSound'
  BY <1>1, <1>2 DEF InputsSound, InputsGiven
<1>3. ASSUME UNCHANGED <<data, stop>>, dangling' = dangling PROVE DataTyped'
  BY <1>3 DEF DataTyped, data, stop
<1>4. ASSUME NEW c \in Conns, Dial(c) PROVE DataTyped' /\ InputsSound'
  BY <1>2, <1>3, <1>4 DEF Dial, Alive
<1>5. ASSUME NEW c \in Conns, Arrive(c) PROVE DataTyped' /\ InputsSound'
  <2>1. /\ arrived' = [arrived EXCEPT ![c] = @ + 1] /\ arrived[c] < Len(script[c])
        /\ UNCHANGED <<script, taken>> /\ UNCHANGED <<data, stop>> /\ dangling' = dangling
    BY <1>5 DEF Arrive, Alive
  <2>2. /\ arrived' \in [Conns -> Nat]
        /\ \A d \in Conns : taken'[d] <= arrived'[d] /\ arrived'[d] <= Len(script'[d])
    BY <1>1, <2>1
  <2> QED
    BY <1>1, <1>3, <2>1, <2>2 DEF InputsSound, InputsGiven
<1>6. CASE Select
  BY <1>2, <1>3, <1>6 DEF Select, Alive
<1>7. ASSUME NEW c \in Conns, Read(c) PROVE DataTyped' /\ InputsSound'
  BY <1>7, ReadFacts
<1>8. ASSUME NEW c \in Conns, UseFreed(c) PROVE DataTyped' /\ InputsSound'
  <2>1. /\ UNCHANGED <<script, arrived, taken>> /\ UNCHANGED <<data, stop>>
        /\ dangling' = dangling \cup {c}
    BY <1>8 DEF UseFreed, Alive
  <2> QED
    BY <1>2, <2>1 DEF DataTyped, data, stop
<1>9. ASSUME NEW c \in Conns, Check(c) PROVE DataTyped' /\ InputsSound'
  <2>1. /\ UNCHANGED <<script, arrived, taken>> /\ UNCHANGED <<data, stop>> /\ dangling' = dangling
    BY <1>9 DEF Check, Alive, data
  <2> QED
    BY <1>2, <1>3, <2>1
<1>10. ASSUME NEW c \in Conns, EvalActions(c) PROVE DataTyped' /\ InputsSound'
  BY <1>2, <1>10, EvalLeaves, EvalTyped
<1>11. ASSUME NEW i \in Nat, NEW c \in Conns, JobActions(i, c) PROVE DataTyped' /\ InputsSound'
  BY <1>2, <1>11, JobsLeaveList, JobsTyped
<1>12. CASE Interrupt
  <2>1. /\ UNCHANGED <<script, arrived, taken>> /\ jobs' = <<>> /\ cli' = clients /\ shutdown' = "dropping"
        /\ UNCHANGED <<state, websocket, request, received, ws, sent, dangling>>
    BY <1>12 DEF Interrupt, Alive
  <2>2. jobs' \in Seq(JobRecords) /\ cli' \in Seq(Conns)
    BY <2>1, EmptySeq DEF ListInv, ListTyped
  <2> QED
    BY <1>2, <2>1, <2>2 DEF DataTyped
<1>13. CASE ShutdownDrop
  <2>1. /\ UNCHANGED <<script, arrived, taken>> /\ UNCHANGED <<data, shutdown, dangling>>
        /\ cli # <<>> /\ cli' = Tail(cli)
    BY <1>13 DEF ShutdownDrop, Alive
  <2>2. cli' \in Seq(Conns)
    BY <2>1, TailKeeps DEF DataTyped
  <2> QED
    BY <1>2, <2>1, <2>2 DEF DataTyped, data
<1>14. CASE Exit
  <2>1. /\ UNCHANGED <<script, arrived, taken>> /\ UNCHANGED <<data, cli, dangling>>
        /\ shutdown' = "exited"
    BY <1>14 DEF Exit, Alive
  <2> QED
    BY <1>2, <2>1 DEF DataTyped, data
<1>15. CASE UNCHANGED vars
  BY <1>2, <1>3, <1>15 DEF vars
<1>16. \A i \in 1..Threads : i \in Nat
  OBVIOUS
<1> QED
  BY <1>4, <1>5, <1>6, <1>7, <1>8, <1>9, <1>10, <1>11, <1>12, <1>13, <1>14, <1>15, <1>16
     DEF Next, Main, Job, EvalActions, JobActions

-----------------------------------------------------------------------------
(***************************************************************************)
(* Jobs and ws_send write to websockets.                                   *)
(***************************************************************************)

\* A client that is a websocket remains one; what becomes one was evaluated.
LEMMA WebsocketsGrow ==
  ASSUME DataTyped, [Next]_vars
  PROVE  /\ \A c \in Conns : websocket[c] => websocket'[c]
         /\ UNCHANGED websocket \/ \E c \in Conns : (Upgrade(c) \/ Receive(c))
<1>1. websocket \in [Conns -> BOOLEAN]
  BY DEF DataTyped
<1>2. ASSUME NEW c \in Conns, Upgrade(c) \/ Receive(c)
      PROVE  \A d \in Conns : websocket[d] => websocket'[d]
  BY <1>1, <1>2 DEF Upgrade, Receive, Marked
<1>3. ASSUME NEW c \in Conns, Result(c) \/ Refuse(c) \/ Serve(c) \/ NotServed(c) \/ Check(c)
                                \/ Read(c) \/ UseFreed(c) \/ Dial(c) \/ Arrive(c)
      PROVE  UNCHANGED websocket
  BY <1>3 DEF Result, Refuse, Serve, NotServed, Check, Read, UseFreed, Dial, Arrive, data
<1>4. ASSUME NEW i, NEW c, JobActions(i, c) PROVE UNCHANGED websocket
  BY <1>4, JobsLeaveList
<1>5. ASSUME Select \/ Interrupt \/ ShutdownDrop \/ Exit \/ UNCHANGED vars PROVE UNCHANGED websocket
  BY <1>5 DEF Select, Interrupt, ShutdownDrop, Exit, vars, data
<1> QED
  BY <1>2, <1>3, <1>4, <1>5 DEF Next, Main, Job, JobActions

LEMMA WritersStep ==
  ASSUME DataTyped, WritersSound, [Next]_vars
  PROVE  WritersSound'
<1>1. /\ jobs \in Seq(JobRecords) /\ Len(jobs) \in Nat /\ websocket \in [Conns -> BOOLEAN]
      /\ \A i \in 1..Len(jobs) : jobs[i].client \in Conns /\ websocket[jobs[i].client]
      /\ ws \in Conns \cup {None} /\ (ws # None => websocket[ws])
  <2>1. jobs \in Seq(JobRecords) /\ Len(jobs) \in Nat
    BY LenProperties DEF DataTyped
  <2>2. \A i \in 1..Len(jobs) : jobs[i] \in JobRecords
    BY <2>1, ElementOfSeq
  <2>3. \A i \in 1..Len(jobs) : jobs[i].client \in Conns
    BY <2>2 DEF JobRecords
  <2> QED
    BY <2>1, <2>3 DEF DataTyped, WritersSound
<1>2. \A c \in Conns : websocket[c] => websocket'[c]
  BY WebsocketsGrow
<1>3. ASSUME UNCHANGED <<jobs, ws>> PROVE WritersSound'
  BY <1>1, <1>2, <1>3 DEF WritersSound
<1>4. ASSUME NEW c \in Conns, websocket'[c], ws' \in {c, ws},
             NEW fn \in {"connect", "recv_websocket", "ws_to_client"},
             jobs' = Append(jobs, [fn |-> fn, client |-> c, step |-> "start"])
      PROVE  WritersSound'
  <2>1. /\ Len(jobs') = Len(jobs) + 1
        /\ \A i \in 1..(Len(jobs) + 1) :
             jobs'[i] = IF i <= Len(jobs) THEN jobs[i] ELSE [fn |-> fn, client |-> c, step |-> "start"]
    BY <1>4, JobGiven
  <2>2. ASSUME NEW i \in 1..Len(jobs') PROVE websocket'[jobs'[i].client]
    <3>1. CASE i <= Len(jobs)
      BY <1>1, <1>2, <2>1, <3>1
    <3>2. CASE ~(i <= Len(jobs))
      BY <1>1, <1>4, <2>1, <3>2
    <3> QED
      BY <3>1, <3>2
  <2>3. ws' # None => websocket'[ws']
    BY <1>1, <1>2, <1>4
  <2> QED
    BY <2>2, <2>3 DEF WritersSound
<1>5. ASSUME NEW c \in Conns, Result(c) PROVE WritersSound'
  <2>1. CASE ws # None /\ ws \in ToSet(clients)
    <3>1. /\ jobs' = Append(jobs, [fn |-> "ws_to_client", client |-> ws, step |-> "start"])
          /\ ws' = ws /\ ws \in Conns /\ websocket'[ws]
      BY <1>1, <1>2, <1>5, <2>1 DEF Result
    <3> QED
      BY <1>4, <3>1
  <2>2. CASE ~(ws # None /\ ws \in ToSet(clients))
    BY <1>3, <1>5, <2>2 DEF Result
  <2> QED
    BY <2>1, <2>2
<1>6. ASSUME NEW c \in Conns, Upgrade(c) PROVE WritersSound'
  <2>1. /\ ws' = c /\ websocket' = [websocket EXCEPT ![c] = TRUE]
        /\ jobs' = Append(jobs, [fn |-> "connect", client |-> c, step |-> "start"])
    BY <1>6 DEF Upgrade, Marked
  <2> QED
    BY <1>1, <1>4, <2>1
<1>7. ASSUME NEW c \in Conns, Receive(c) PROVE WritersSound'
  <2>1. /\ ws' = ws /\ websocket' = [websocket EXCEPT ![c] = TRUE]
        /\ jobs' = Append(jobs, [fn |-> "recv_websocket", client |-> c, step |-> "start"])
    BY <1>7 DEF Receive, Marked
  <2> QED
    BY <1>1, <1>4, <2>1
<1>8. ASSUME NEW c \in Conns, Refuse(c) \/ Serve(c) \/ NotServed(c) \/ Check(c) \/ Read(c)
                                \/ UseFreed(c) \/ Dial(c) \/ Arrive(c)
      PROVE  WritersSound'
  BY <1>3, <1>8 DEF Refuse, Serve, NotServed, Check, Read, UseFreed, Dial, Arrive, data
<1>9. ASSUME NEW i \in Nat, NEW c \in Conns, JobActions(i, c) PROVE WritersSound'
  <2>1. /\ i \in 1..Len(jobs) /\ ws' = ws
        /\ jobs' = RemoveAt(jobs, i) \/ jobs' = [jobs EXCEPT ![i].step = "linked"]
    BY <1>9, JobsLeaveList, JobsTyped
  <2>2. CASE jobs' = RemoveAt(jobs, i)
    <3>1. /\ Len(jobs') = Len(jobs) - 1
          /\ \A k \in 1..(Len(jobs) - 1) : jobs'[k] = IF k < i THEN jobs[k] ELSE jobs[k + 1]
      BY <2>1, <2>2, JobDone
    <3>2. ASSUME NEW k \in 1..Len(jobs') PROVE websocket'[jobs'[k].client]
      <4>1. k \in 1..(Len(jobs) - 1) /\ k \in 1..Len(jobs) /\ k + 1 \in 1..Len(jobs)
        BY <1>1, <3>1
      <4> QED
        BY <1>1, <1>2, <3>1, <4>1
    <3> QED
      BY <1>1, <1>2, <2>1, <3>2 DEF WritersSound
  <2>3. CASE jobs' = [jobs EXCEPT ![i].step = "linked"]
    <3>1. Len(jobs') = Len(jobs) /\ \A k \in 1..Len(jobs) : jobs'[k].client = jobs[k].client
      BY <2>1, <2>3, JobLinked
    <3> QED
      BY <1>1, <1>2, <2>1, <3>1 DEF WritersSound
  <2> QED
    BY <2>1, <2>2, <2>3
<1>10. CASE Interrupt
  BY <1>1, <1>2, <1>10 DEF Interrupt, WritersSound
<1>11. ASSUME Select \/ ShutdownDrop \/ Exit \/ UNCHANGED vars PROVE WritersSound'
  BY <1>3, <1>11 DEF Select, ShutdownDrop, Exit, vars, data
<1>12. \A i \in 1..Threads : i \in Nat
  OBVIOUS
<1> QED
  BY <1>5, <1>6, <1>7, <1>8, <1>9, <1>10, <1>11, <1>12 DEF Next, Main, Job, JobActions

-----------------------------------------------------------------------------
(***************************************************************************)
(* Requests on connections that are no websockets.                         *)
(***************************************************************************)

\* The step does nothing to d, unless d is a websocket.
Kept(d) ==
  ~websocket'[d] =>
    /\ ~websocket[d] /\ conn'[d] = conn[d] /\ taken'[d] = taken[d]
    /\ request'[d] = request[d] /\ received'[d] = received[d] /\ sent'[d] = sent[d]
    /\ conn[d] # "open" => arrived'[d] = arrived[d]
    /\ conn[d] = "open" => (Visited(d)' <=> Visited(d))

LEMMA KeptSound ==
  ASSUME NEW d \in Conns, RequestSound(d), Kept(d), script' = script,
         shutdown' = "no" => shutdown = "no"
  PROVE  RequestSound(d)'
<1> SUFFICES ASSUME ~websocket'[d]
             PROVE  FreshSound(d)' /\ OpenSound(d)' /\ DroppedSound(d)'
  BY DEF RequestSound
<1>1. /\ FreshSound(d) /\ OpenSound(d) /\ DroppedSound(d)
      /\ conn'[d] = conn[d] /\ taken'[d] = taken[d]
      /\ request'[d] = request[d] /\ received'[d] = received[d] /\ sent'[d] = sent[d]
      /\ conn[d] # "open" => arrived'[d] = arrived[d]
      /\ conn[d] = "open" => (Visited(d)' <=> Visited(d))
  BY DEF Kept, RequestSound
<1>2. FreshSound(d)'
  BY <1>1 DEF FreshSound
<1>3. /\ Finished(d) => Finished(d)'
      /\ Unfinished(d) => Unfinished(d)'
  BY <1>1 DEF Finished, Unfinished, NoneComplete
<1>4. OpenSound(d)'
  BY <1>1, <1>3 DEF OpenSound
<1>5. DroppedSound(d)'
  BY <1>1 DEF DroppedSound
<1> QED
  BY <1>2, <1>4, <1>5

\* Who is in the list, and what of an open connection holds
LEMMA OpenFacts ==
  ASSUME LoopInv, NEW c \in Conns, c \in ToSet(clients), ~websocket[c]
  PROVE  /\ conn[c] = "open" /\ sent[c] = <<>>
         /\ received[c] \in Nat /\ taken[c] \in Nat /\ Len(request[c]) = received[c]
         /\ request[c] \in Seq(Inputs \cup Conns)
         /\ \A k \in 1..received[c] : request[c][k] = script[c][k] /\ request[c][k] # "eof"
         /\ Visited(c) => Finished(c)
         /\ ~Visited(c) => Unfinished(c)
<1>1. conn[c] = "open" /\ RequestSound(c)
  BY DEF LoopInv, ListSound, RequestsSound
<1>2. DataTyped /\ InputsSound
  BY TypesSplit DEF LoopInv
<1>3. received[c] \in Nat /\ taken[c] \in Nat /\ request[c] \in Seq(Inputs \cup Conns)
  BY <1>2 DEF DataTyped, InputsSound, InputsGiven
<1> QED
  BY <1>1, <1>3 DEF RequestSound, OpenSound

\* A client leaves the list with what it was sent.
LEMMA DroppedIsSound ==
  ASSUME NEW c, conn'[c] = "dropped", Len(sent'[c]) <= 1,
         shutdown' = "no" /\ script'[c][taken'[c]] = "page" => sent'[c] = <<"page">>
  PROVE  RequestSound(c)'
BY DEF RequestSound, FreshSound, OpenSound, DroppedSound

\* One read appends one input to the buffer of c, or finds that c was closed.
LEMMA ReadSound ==
  ASSUME LoopInv, NEW c \in Conns, Read(c)
  PROVE  RequestSound(c)'
<1> SUFFICES ASSUME ~websocket'[c]
             PROVE  FreshSound(c)' /\ OpenSound(c)' /\ DroppedSound(c)'
  BY DEF RequestSound
<1>1. /\ pc = "read" /\ c = Head(walk) /\ c \in ToSet(clients)
      /\ UNCHANGED <<script, list, arrived, websocket, walk, sent>>
  BY DEF Read, Alive
<1>2. ~websocket[c] /\ ~Visited(c)
  BY <1>1 DEF Visited
<1>3. /\ conn[c] = "open" /\ sent[c] = <<>>
      /\ received[c] \in Nat /\ taken[c] \in Nat /\ Len(request[c]) = received[c]
      /\ request[c] \in Seq(Inputs \cup Conns)
      /\ \A k \in 1..received[c] : request[c][k] = script[c][k] /\ request[c][k] # "eof"
      /\ Unfinished(c)
  BY <1>1, <1>2, OpenFacts
<1>4. taken[c] = received[c] /\ NoneComplete(c, received[c])
  BY <1>3 DEF Unfinished
<1>5. ~Ended(c)
  <2>1. ASSUME taken[c] > 0 PROVE script[c][taken[c]] # "eof"
    <3>1. taken[c] \in 1..received[c]
      BY <1>3, <1>4, <2>1
    <3> QED
      BY <1>3, <3>1
  <2> QED
    BY <2>1 DEF Ended
<1>6. conn'[c] = "open" /\ sent'[c] = <<>> /\ script' = script
  BY <1>1, <1>3 DEF list
<1>7. /\ conn \in [Conns -> {"idle", "pending", "open", "dropped"}]
      /\ taken \in [Conns -> Nat] /\ received \in [Conns -> Nat]
      /\ request \in [Conns -> Seq(Inputs \cup Conns)]
      /\ script \in [Conns -> Seq(Inputs)]
      /\ \A d \in Conns : taken[d] <= arrived[d] /\ arrived[d] <= Len(script[d])
      /\ arrived \in [Conns -> Nat]
  BY TypesSplit DEF LoopInv, ListTyped, DataTyped, InputsSound, InputsGiven
<1> DEFINE input == script[c][taken[c] + 1]
<1>8. CASE input = "eof"
  <2>1. /\ pc' = "check" /\ taken' = [taken EXCEPT ![c] = IF Ended(c) THEN @ ELSE @ + 1]
        /\ UNCHANGED <<request, received>>
    BY <1>8 DEF Read
  <2>2. taken'[c] = received[c] + 1 /\ script[c][received[c] + 1] = "eof"
    BY <1>4, <1>5, <1>7, <1>8, <2>1
  <2>3. Finished(c)'
    BY <1>4, <1>6, <2>1, <2>2 DEF Finished, NoneComplete
  <2>4. Visited(c)'
    BY <1>1, <2>1 DEF Visited
  <2> QED
    BY <1>3, <1>6, <2>1, <2>3, <2>4 DEF FreshSound, OpenSound, DroppedSound
<1>9. CASE input # "eof"
  <2>1. /\ pc' = IF HasEmptyLine(Filled(c, input)) THEN "check" ELSE "read"
        /\ taken' = [taken EXCEPT ![c] = @ + 1]
        /\ request' = [request EXCEPT ![c] = Filled(c, input)]
        /\ received' = [received EXCEPT ![c] = @ + 1]
    BY <1>5, <1>9 DEF Read
  <2>2. input \in Inputs
    <3>1. taken[c] < arrived[c]
      BY <1>5 DEF Read, Readable
    <3>2. taken[c] + 1 \in 1..Len(script[c])
      <4>1. Len(script[c]) \in Nat /\ arrived[c] \in Nat
        BY <1>7, LenProperties
      <4> QED
        BY <1>3, <1>7, <3>1, <4>1
    <3> QED
      BY <1>7, <3>2, ElementOfSeq
  <2> DEFINE n == received[c]
             b == Filled(c, input)
  <2>3. /\ b \in Seq(Inputs \cup Conns) /\ Len(b) = n + 1 /\ b[n + 1] = input
        /\ \A k \in 1..n : b[k] = request[c][k]
    <3> DEFINE s == SubSeq(request[c], 1, n)
    <3>1. \A k \in 1..n : request[c][k] \in Inputs \cup Conns
      BY <1>3, ElementOfSeq
    <3>2. s \in Seq(Inputs \cup Conns) /\ Len(s) = n /\ \A k \in 1..n : s[k] = request[c][k]
      BY <1>3, <3>1, SubSeqProperties
    <3>3. b = Append(s, input)
      BY <1>3 DEF Filled
    <3>4. input \in Inputs \cup Conns
      BY <2>2
    <3> HIDE DEF s, b, input
    <3>5. /\ Append(s, input) \in Seq(Inputs \cup Conns) /\ Len(Append(s, input)) = Len(s) + 1
          /\ \A k \in 1..Len(s) : Append(s, input)[k] = s[k]
          /\ Append(s, input)[Len(s) + 1] = input
      BY <3>2, <3>4, AppendProperties
    <3> QED
      BY <3>2, <3>3, <3>5
  <2>4. received'[c] = n + 1 /\ taken'[c] = n + 1 /\ request'[c] = b
    BY <1>4, <1>7, <2>1
  <2>5. HasEmptyLine(b) <=> input \in Complete
    <3>1. ToSet(b) = {b[k] : k \in 1..(n + 1)}
      BY <2>3, LenProperties DEF ToSet
    <3>2. \A k \in 1..n : b[k] \notin Complete
      BY <1>4, <2>3 DEF NoneComplete
    <3>3. \A k \in 1..(n + 1) : b[k] \in Complete => k = n + 1
      BY <1>3, <3>2
    <3>4. n + 1 \in 1..(n + 1)
      BY <1>3
    <3> HIDE DEF n, b, input
    <3> QED
      BY <2>3, <3>1, <3>3, <3>4 DEF HasEmptyLine
  <2>6. input = script[c][n + 1]
    BY <1>4
  <2> HIDE DEF b, input, n
  <2>7. n \in Nat /\ n = received[c]
    BY <1>3 DEF n
  <2>8. \A k \in 1..(n + 1) : b[k] = script[c][k] /\ b[k] # "eof"
    <3> SUFFICES ASSUME NEW k \in 1..(n + 1) PROVE b[k] = script[c][k] /\ b[k] # "eof"
      OBVIOUS
    <3>1. CASE k = n + 1
      BY <1>9, <2>3, <2>6, <3>1
    <3>2. CASE k # n + 1
      <4>1. k \in 1..n
        BY <2>7, <3>2
      <4> QED
        BY <1>3, <2>3, <2>7, <4>1
    <3> QED
      BY <3>1, <3>2
  <2>9. \A k \in 1..n : request'[c][k] \notin Complete
    BY <1>4, <2>3, <2>4, <2>7 DEF NoneComplete
  <2>10. CASE input \in Complete
    <3>1. pc' = "check" /\ Visited(c)'
      BY <1>1, <2>1, <2>5, <2>10 DEF Visited, b
    <3>2. Finished(c)'
      <4>1. (n + 1) - 1 = n /\ n + 1 > 0
        BY <2>7
      <4> QED
        BY <2>3, <2>4, <2>9, <2>10, <4>1 DEF Finished, NoneComplete
    <3> QED
      BY <1>6, <2>3, <2>4, <2>8, <3>1, <3>2 DEF FreshSound, OpenSound, DroppedSound
  <2>11. CASE input \notin Complete
    <3>1. pc' = "read" /\ ~Visited(c)'
      BY <2>1, <2>5, <2>11 DEF Visited, b
    <3>2. Unfinished(c)'
      <4>1. \A k \in 1..(n + 1) : request'[c][k] \notin Complete
        <5> SUFFICES ASSUME NEW k \in 1..(n + 1) PROVE request'[c][k] \notin Complete
          OBVIOUS
        <5>1. CASE k = n + 1
          BY <2>3, <2>4, <2>11, <5>1
        <5>2. CASE k # n + 1
          <6>1. k \in 1..n
            BY <2>7, <5>2
          <6> QED
            BY <2>9, <6>1
        <5> QED
          BY <5>1, <5>2
      <4> QED
        BY <2>4, <4>1 DEF Unfinished, NoneComplete
    <3> QED
      BY <1>6, <2>3, <2>4, <2>8, <3>1, <3>2 DEF FreshSound, OpenSound, DroppedSound
  <2> QED
    BY <2>10, <2>11
<1> QED
  BY <1>8, <1>9

\* What the loop evaluates is the last input it took: the buffer holds no other
\* that ends with an empty line, and nothing is evaluated after the end.
LEMMA EvaluatesLast ==
  ASSUME LoopInv, NEW c \in Conns, ~websocket[c], NEW kind, Evaluates(c, kind)
  PROVE  /\ conn[c] = "open" /\ sent[c] = <<>>
         /\ kind # "invalid" => script[c][taken[c]] = kind
         /\ kind = "invalid" => script[c][taken[c]] = "eof"
<1>1. pc = "eval" /\ c = Head(walk) /\ c \in ToSet(clients) /\ Visited(c)
  BY DEF Evaluates, Visited
<1>2. /\ conn[c] = "open" /\ sent[c] = <<>>
      /\ received[c] \in Nat /\ taken[c] \in Nat /\ Len(request[c]) = received[c]
      /\ request[c] \in Seq(Inputs \cup Conns)
      /\ \A k \in 1..received[c] : request[c][k] = script[c][k]
      /\ Finished(c)
  BY <1>1, OpenFacts
<1> DEFINE n == received[c]
<1>3. ToSet(request[c]) = {request[c][k] : k \in 1..n}
  BY <1>2, LenProperties DEF ToSet
<1>4. CASE /\ taken[c] = n /\ n > 0 /\ request[c][n] \in Complete /\ NoneComplete(c, n - 1)
  <2>1. n \in 1..n /\ request[c][n] = script[c][taken[c]]
    BY <1>2, <1>4
  <2>2. HasEmptyLine(request[c])
    BY <1>3, <1>4, <2>1 DEF HasEmptyLine
  <2>3. PICK i \in 1..Len(request[c]) :
          /\ kind = request[c][i] /\ kind \in Complete
          /\ \A k \in 1..(i - 1) : request[c][k] \notin Complete
    BY <2>2 DEF Evaluates
  <2>4. i = n
    <3>1. ~(i \in 1..(n - 1))
      BY <1>4, <2>3 DEF NoneComplete
    <3> QED
      BY <1>2, <3>1
  <2>5. kind # "invalid"
    BY <2>3 DEF Complete
  <2> QED
    BY <1>2, <2>1, <2>3, <2>4, <2>5
<1>5. CASE /\ taken[c] = n + 1 /\ script[c][taken[c]] = "eof" /\ NoneComplete(c, n)
  <2>1. ~HasEmptyLine(request[c])
    BY <1>3, <1>5 DEF HasEmptyLine, NoneComplete
  <2>2. kind = "invalid"
    <3>1. \A i \in 1..Len(request[c]) : request[c][i] \notin Complete
      BY <1>2, <1>5 DEF NoneComplete
    <3> QED
      BY <3>1 DEF Evaluates
  <2> QED
    BY <1>2, <1>5, <2>2
<1> QED
  BY <1>2, <1>4, <1>5 DEF Finished

\* Leaving a client, the loop has read nothing yet of the next.
LEMMA LeavingVisitsNone ==
  ASSUME NEW c, Leaves(c), NEW d
  PROVE  ~Visited(d)' /\ (d # c => ~Visited(d)) /\ shutdown' = shutdown
BY DEF Leaves, Walked, Visited

\* The request of c is answered, or refused, and the connection closed.
LEMMA EvalSound ==
  ASSUME LoopInv, NEW c \in Conns, EvalActions(c)
  PROVE  RequestSound(c)'
<1> SUFFICES ASSUME ~websocket'[c]
             PROVE  RequestSound(c)'
  BY DEF RequestSound
<1>1. /\ websocket \in [Conns -> BOOLEAN] /\ sent \in [Conns -> Seq(Texts)]
      /\ conn \in [Conns -> {"idle", "pending", "open", "dropped"}]
  BY TypesSplit DEF LoopInv, DataTyped, ListTyped
<1>2. /\ ListInv /\ Leaves(c) /\ UNCHANGED <<script, arrived, taken>>
      /\ pc = "eval" /\ c = Head(walk) /\ c \in ToSet(clients)
  BY ListPart, EvalLeaves DEF EvalActions, Result, Refuse, Serve, NotServed, Upgrade, Receive, Evaluates
<1>3. ~Upgrade(c) /\ ~Receive(c)
  BY <1>1 DEF Upgrade, Receive, Marked
<1>4. ~websocket[c] /\ Drop(c) /\ UNCHANGED websocket
  BY <1>3 DEF EvalActions, Result, Refuse, Serve, NotServed, DropAndBreak, CleanUp, data
<1>5. conn[c] = "open" /\ sent[c] = <<>>
  BY <1>2, <1>4, OpenFacts DEF LoopInv
<1>6. conn'[c] = "dropped"
  BY <1>2, <1>4, <1>5, DropFacts
<1>7. \A kind : Evaluates(c, kind) =>
        /\ kind # "invalid" => script[c][taken[c]] = kind
        /\ kind = "invalid" => script[c][taken[c]] = "eof"
  BY <1>4, EvaluatesLast
<1>8. script'[c][taken'[c]] = script[c][taken[c]]
  BY <1>2
<1>9. Append(<<>>, "http") = <<"http">> /\ Append(<<>>, "page") = <<"page">>
  OBVIOUS
<1>10. CASE Result(c)
  <2>1. script[c][taken[c]] = "result"
    BY <1>7, <1>10 DEF Result
  <2>2. sent'[c] = <<"http">>
    BY <1>1, <1>5, <1>9, <1>10 DEF Result
  <2>3. Len(sent'[c]) <= 1
    BY <2>2
  <2> QED
    BY <1>6, <1>8, <2>1, <2>3, DroppedIsSound
<1>11. CASE Refuse(c)
  <2>1. script[c][taken[c]] \in {"stale", "eof"}
    BY <1>7, <1>11 DEF Refuse
  <2>2. sent'[c] = <<>> /\ Len(sent'[c]) = 0
    BY <1>5, <1>11 DEF Refuse, data
  <2> QED
    BY <1>6, <1>8, <2>1, <2>2, DroppedIsSound
<1>12. CASE Serve(c)
  <2>1. CASE Evaluates(c, "page") /\ sent' = [sent EXCEPT ![c] = Append(@, "page")]
    <3>1. sent'[c] = <<"page">>
      BY <1>1, <1>5, <1>9, <2>1
    <3>2. Len(sent'[c]) <= 1
      BY <3>1
    <3> QED
      BY <1>6, <3>1, <3>2, DroppedIsSound
  <2>2. CASE Evaluates(c, "ticket") /\ UNCHANGED sent
    <3>1. script[c][taken[c]] = "ticket" /\ sent'[c] = <<>> /\ Len(sent'[c]) = 0
      BY <1>5, <1>7, <2>2
    <3> QED
      BY <1>6, <1>8, <3>1, DroppedIsSound
  <2> QED
    BY <1>12, <2>1, <2>2 DEF Serve
<1>13. CASE NotServed(c)
  <2>1. script[c][taken[c]] \in {"closed", "odd"} /\ sent'[c] = <<>> /\ Len(sent'[c]) = 0
    BY <1>5, <1>7, <1>13 DEF NotServed
  <2> QED
    BY <1>6, <1>8, <2>1, DroppedIsSound
<1> QED
  BY <1>3, <1>10, <1>11, <1>12, <1>13 DEF EvalActions

\* Of the other connections only that of a websocket changes.
LEMMA EvalKeeps ==
  ASSUME LoopInv, NEW c \in Conns, EvalActions(c), NEW d \in Conns, d # c
  PROVE  Kept(d)
<1> SUFFICES ASSUME ~websocket'[d] PROVE Kept(d)
  BY DEF Kept
<1>1. /\ websocket \in [Conns -> BOOLEAN] /\ sent \in [Conns -> Seq(Texts)]
      /\ request \in [Conns -> Seq(Inputs \cup Conns)]
      /\ ws # None => websocket[ws]
  BY TypesSplit DEF LoopInv, DataTyped, ListTyped, WritersSound
<1>2. ListInv /\ Leaves(c) /\ UNCHANGED <<script, arrived, taken>>
  BY ListPart, EvalLeaves
<1>3. ~Visited(d)' /\ ~Visited(d)
  BY <1>2, LeavingVisitsNone
<1>4. conn'[d] = conn[d]
  <2>1. CASE Drop(c)
    BY <1>2, <2>1, DropFacts
  <2>2. CASE UNCHANGED <<list, unfound>>
    BY <2>2 DEF list
  <2> QED
    BY <1>2, <2>1, <2>2 DEF Leaves
<1>5. UNCHANGED received
  BY DEF EvalActions, Result, Refuse, Serve, NotServed, Upgrade, Receive, data
<1>6. websocket'[d] = websocket[d]
  BY <1>1 DEF EvalActions, Result, Refuse, Serve, NotServed, Upgrade, Receive, data, Marked
<1>7. sent'[d] = sent[d]
  BY <1>1 DEF EvalActions, Result, Refuse, Serve, NotServed, Upgrade, Receive, data
<1>8. request'[d] = request[d]
  <2>1. CASE Result(c)
    <3>1. d # ws
      BY <1>1, <1>6, LoopAssumption
    <3> QED
      BY <1>1, <2>1, <3>1 DEF Result
  <2>2. CASE ~Result(c)
    BY <2>2 DEF EvalActions, Refuse, Serve, NotServed, Upgrade, Receive, data
  <2> QED
    BY <2>1, <2>2
<1> QED
  BY <1>2, <1>3, <1>4, <1>5, <1>6, <1>7, <1>8 DEF Kept

\* Select lets one connection in.
LEMMA SelectSound ==
  ASSUME LoopInv, Select, NEW d \in Conns
  PROVE  RequestSound(d)'
<1>1. /\ pc = "select" /\ pc' = Walked(Reported) /\ script' = script
      /\ UNCHANGED <<arrived, taken, data, shutdown>>
  BY DEF Select, Alive, stop
<1>2. ~Visited(d) /\ ~Visited(d)' /\ RequestSound(d)
  BY <1>1 DEF Visited, Walked, LoopInv, RequestsSound
<1>3. /\ conn \in [Conns -> {"idle", "pending", "open", "dropped"}]
      /\ taken[d] \in Nat /\ taken[d] <= arrived[d]
  BY TypesSplit DEF LoopInv, ListTyped, InputsSound, InputsGiven
<1>4. CASE conn'[d] = conn[d]
  <2>1. Kept(d)
    BY <1>1, <1>2, <1>4 DEF Kept, data
  <2> QED
    BY <1>1, <1>2, <2>1, KeptSound
<1>5. CASE conn[d] = "pending" /\ conn'[d] \in {"open", "dropped"} /\ ~websocket'[d]
  <2>1. /\ arrived[d] = 0 /\ request[d] = <<>> /\ received[d] = 0 /\ sent[d] = <<>>
        /\ ~websocket[d]
    BY <1>1, <1>2, <1>5 DEF RequestSound, FreshSound, data
  <2>2. /\ taken'[d] = 0 /\ request'[d] = <<>> /\ received'[d] = 0 /\ sent'[d] = <<>>
        /\ Len(<<>>) = 0
    BY <1>1, <1>3, <2>1 DEF data
  <2>3. Unfinished(d)'
    BY <2>2 DEF Unfinished, NoneComplete
  <2> QED
    BY <1>2, <1>5, <2>2, <2>3 DEF RequestSound, FreshSound, OpenSound, DroppedSound
<1>6. conn'[d] = conn[d] \/ (conn[d] = "pending" /\ conn'[d] \in {"open", "dropped"})
  BY <1>3 DEF Select, list
<1>7. CASE websocket'[d]
  BY <1>7 DEF RequestSound
<1> QED
  BY <1>4, <1>5, <1>6, <1>7

\* A client of which nothing came was closed by the other side: it is dropped.
LEMMA CheckSound ==
  ASSUME LoopInv, NEW c \in Conns, Check(c), NEW d \in Conns
  PROVE  RequestSound(d)'
<1>1. /\ pc = "check" /\ c = Head(walk) /\ c \in ToSet(clients) /\ RequestSound(d)
      /\ UNCHANGED <<script, arrived, taken, websocket, request, received, sent, shutdown>>
      /\ IF received[c] > 0
           THEN pc' = "eval" /\ UNCHANGED <<list, walk, unfound>>
           ELSE CleanUp(c)
  BY DEF Check, Alive, stop, LoopInv, RequestsSound
<1>2. ListInv /\ received[c] \in Nat
  BY ListPart, TypesSplit DEF LoopInv, DataTyped
<1>3. CASE received[c] > 0
  <2>1. Kept(d)
    BY <1>1, <1>3 DEF Kept, Visited, list
  <2> QED
    BY <1>1, <2>1, KeptSound
<1>4. CASE ~(received[c] > 0)
  <2>1. Leaves(c) /\ CleanUp(c)
    BY <1>1, <1>4 DEF CleanUp, Leaves
  <2>2. CASE d # c
    <3>1. conn'[d] = conn[d]
      BY <1>2, <2>1, <2>2, DropFacts DEF CleanUp, list
    <3>2. ~Visited(d) /\ ~Visited(d)'
      BY <2>1, <2>2, LeavingVisitsNone
    <3>3. Kept(d)
      BY <1>1, <3>1, <3>2 DEF Kept
    <3> QED
      BY <1>1, <3>3, KeptSound
  <2>3. CASE d = c /\ websocket[c]
    BY <1>1, <2>3 DEF RequestSound
  <2>4. CASE d = c /\ ~websocket[c]
    <3>1. conn[c] = "open" /\ sent[c] = <<>> /\ Finished(c)
      <4>1. Visited(c)
        BY <1>1 DEF Visited
      <4> QED
        BY <1>1, <2>4, <4>1, OpenFacts
    <3>2. script[c][taken[c]] = "eof"
      BY <1>4, <3>1 DEF Finished
    <3>3. conn'[c] = "dropped"
      BY <1>1, <1>2, <2>1, <2>4, <3>1, DropFacts DEF CleanUp
    <3>4. sent'[c] = <<>> /\ Len(sent'[c]) <= 1 /\ script'[c][taken'[c]] = "eof"
      BY <1>1, <3>1, <3>2
    <3> QED
      BY <2>4, <3>3, <3>4, DroppedIsSound
  <2> QED
    BY <2>2, <2>3, <2>4
<1> QED
  BY <1>3, <1>4

\* The shutdown thread closes connections whatever they asked.
LEMMA ShutdownSound ==
  ASSUME LoopInv, ShutdownDrop, NEW d \in Conns
  PROVE  RequestSound(d)'
<1> DEFINE c == Head(cli)
<1>1. /\ UNCHANGED <<script, arrived, taken, data, main>> /\ shutdown' = "dropping"
      /\ IF c \in ToSet(clients)
           THEN conn' = [conn EXCEPT ![c] = "dropped"]
           ELSE UNCHANGED conn
      /\ RequestSound(d)
  BY DEF ShutdownDrop, Alive, LoopInv, RequestsSound
<1>2. conn \in [Conns -> {"idle", "pending", "open", "dropped"}]
  BY TypesSplit DEF LoopInv, ListTyped
<1> HIDE DEF c
<1>3. CASE d = c /\ c \in ToSet(clients)
  <2>1. CASE websocket[d]
    BY <1>1, <2>1 DEF RequestSound, data
  <2>2. CASE ~websocket[d]
    <3>1. sent[d] = <<>> /\ conn'[d] = "dropped"
      BY <1>1, <1>2, <1>3, <2>2, OpenFacts
    <3>2. Len(sent'[d]) <= 1
      BY <1>1, <3>1 DEF data
    <3> QED
      BY <1>1, <3>1, <3>2, DroppedIsSound
  <2> QED
    BY <2>1, <2>2
<1>4. CASE ~(d = c /\ c \in ToSet(clients))
  <2>1. conn'[d] = conn[d]
    BY <1>1, <1>2, <1>4
  <2>2. Kept(d)
    BY <1>1, <2>1 DEF Kept, data, main, Visited
  <2> QED
    BY <1>1, <2>2, KeptSound
<1> QED
  BY <1>3, <1>4

\* A job writes to a websocket.
LEMMA JobsSound ==
  ASSUME LoopInv, NEW i \in Nat, NEW c \in Conns, JobActions(i, c), NEW d \in Conns
  PROVE  RequestSound(d)'
<1>1. RequestSound(d) /\ DataTyped
  BY TypesSplit DEF LoopInv, RequestsSound
<1>2. /\ script' = script /\ shutdown' = shutdown
      /\ UNCHANGED <<conn, arrived, taken, websocket, pc, walk>>
  BY JobsLeaveList DEF list, main, stop
<1>3. websocket[c]
  BY <1>1, JobsTyped DEF LoopInv, WritersSound
<1>4. CASE d = c
  BY <1>2, <1>3, <1>4 DEF RequestSound
<1>5. CASE d # c
  <2>1. sent'[d] = sent[d] /\ request'[d] = request[d] /\ received'[d] = received[d]
    BY <1>1, <1>5 DEF DataTyped, JobActions, JobUsesFreed, Link, Enable, WsToClient, RecvWebsocket, Emptied
  <2>2. Kept(d)
    BY <1>2, <2>1 DEF Kept, Visited
  <2> QED
    BY <1>1, <1>2, <2>2, KeptSound
<1> QED
  BY <1>4, <1>5

\* Connections come, data arrives, and the loop finds a client freed.
LEMMA ArrivalSound ==
  ASSUME LoopInv, NEW c \in Conns, Dial(c) \/ Arrive(c) \/ UseFreed(c), NEW d \in Conns
  PROVE  RequestSound(d)'
<1>1. RequestSound(d) /\ ListInv
  BY ListPart DEF LoopInv, RequestsSound
<1>2. /\ conn \in [Conns -> {"idle", "pending", "open", "dropped"}] /\ arrived \in [Conns -> Nat]
      /\ ToSet(clients) = {e \in Conns : conn[e] = "open"}
  BY TypesSplit DEF LoopInv, ListTyped, InputsSound, InputsGiven, ListSound
<1>3. CASE Dial(c)
  <2>1. /\ UNCHANGED <<script, arrived, taken, data, pc, walk, shutdown>>
        /\ conn' = [conn EXCEPT ![c] = "pending"] /\ conn[c] = "idle"
    BY <1>3 DEF Dial, Alive, main, stop
  <2>2. CASE d = c
    <3>1. conn'[d] = "pending" /\ conn[d] = "idle"
      BY <1>2, <2>1, <2>2
    <3> QED
      BY <1>1, <2>1, <3>1 DEF RequestSound, FreshSound, OpenSound, DroppedSound, data
  <2>3. CASE d # c
    <3>1. conn'[d] = conn[d]
      BY <1>2, <2>1, <2>3
    <3>2. Kept(d)
      BY <2>1, <3>1 DEF Kept, Visited, data
    <3> QED
      BY <1>1, <2>1, <3>2, KeptSound
  <2> QED
    BY <2>2, <2>3
<1>4. CASE Arrive(c)
  <2>1. /\ UNCHANGED <<script, conn, taken, data, pc, walk, shutdown>>
        /\ arrived' = [arrived EXCEPT ![c] = @ + 1] /\ conn[c] = "open"
    BY <1>4 DEF Arrive, Alive, list, main, stop
  <2>2. conn[d] # "open" => arrived'[d] = arrived[d]
    BY <1>2, <2>1
  <2>3. Kept(d)
    BY <2>1, <2>2 DEF Kept, Visited, data
  <2> QED
    BY <1>1, <2>1, <2>3, KeptSound
<1>5. CASE UseFreed(c)
  <2>1. /\ UNCHANGED <<script, arrived, taken, data>>
        /\ c \notin ToSet(clients)
    BY <1>5 DEF UseFreed, Alive
  <2>2. Leaves(c) /\ Drop(c)
    BY <1>5, UseLeaves
  <2>3. conn[c] # "open" /\ conn'[d] = conn[d]
    BY <1>2, <2>1, <2>2 DEF Drop, list
  <2>4. ~Visited(d)' /\ (d # c => ~Visited(d)) /\ shutdown' = shutdown
    BY <2>2, LeavingVisitsNone
  <2>5. Kept(d)
    BY <2>1, <2>3, <2>4 DEF Kept, data
  <2> QED
    BY <1>1, <2>1, <2>4, <2>5, KeptSound
<1> QED
  BY <1>3, <1>4, <1>5

LEMMA RequestsStep ==
  ASSUME LoopInv, [Next]_vars
  PROVE  RequestsSound'
<1> SUFFICES ASSUME NEW d \in Conns PROVE RequestSound(d)'
  BY DEF RequestsSound
<1>1. RequestSound(d)
  BY DEF LoopInv, RequestsSound
<1>2. ASSUME NEW c \in Conns, Dial(c) \/ Arrive(c) \/ UseFreed(c) PROVE RequestSound(d)'
  BY <1>2, ArrivalSound
<1>3. CASE Select
  BY <1>3, SelectSound
<1>4. ASSUME NEW c \in Conns, Read(c) PROVE RequestSound(d)'
  <2>1. CASE d = c
    BY <1>4, <2>1, ReadSound
  <2>2. CASE d # c
    <3>1. /\ UNCHANGED <<script, conn, arrived, websocket, walk, sent, shutdown>>
          /\ c = Head(walk) /\ pc = "read"
      BY <1>4 DEF Read, Alive, list, stop
    <3>2. taken'[d] = taken[d] /\ request'[d] = request[d] /\ received'[d] = received[d]
      <4>1. /\ taken \in [Conns -> Nat] /\ request \in [Conns -> Seq(Inputs \cup Conns)]
            /\ received \in [Conns -> Nat]
        BY TypesSplit DEF LoopInv, DataTyped, InputsSound, InputsGiven
      <4>2. CASE UNCHANGED <<request, received>>
        BY <1>4, <2>2, <4>1, <4>2 DEF Read
      <4>3. CASE ~(UNCHANGED <<request, received>>)
        BY <1>4, <2>2, <4>1, <4>3 DEF Read
      <4> QED
        BY <4>2, <4>3
    <3>3. Kept(d)
      BY <2>2, <3>1, <3>2 DEF Kept, Visited
    <3> QED
      BY <1>1, <3>1, <3>3, KeptSound
  <2> QED
    BY <2>1, <2>2
<1>5. ASSUME NEW c \in Conns, Check(c) PROVE RequestSound(d)'
  BY <1>5, CheckSound
<1>6. ASSUME NEW c \in Conns, EvalActions(c) PROVE RequestSound(d)'
  <2>1. CASE d = c
    BY <1>6, <2>1, EvalSound
  <2>2. CASE d # c
    <3>1. Kept(d)
      BY <1>6, <2>2, EvalKeeps
    <3>2. script' = script /\ shutdown' = shutdown
      BY <1>6, EvalLeaves DEF Leaves
    <3> QED
      BY <1>1, <3>1, <3>2, KeptSound
  <2> QED
    BY <2>1, <2>2
<1>7. ASSUME NEW i \in Nat, NEW c \in Conns, JobActions(i, c) PROVE RequestSound(d)'
  BY <1>7, JobsSound
<1>8. CASE Interrupt
  <2>1. /\ UNCHANGED <<script, conn, arrived, taken, websocket, request, received, sent, pc, walk>>
        /\ shutdown' = "dropping"
    BY <1>8 DEF Interrupt, Alive, list, main
  <2>2. Kept(d)
    BY <2>1 DEF Kept, Visited
  <2> QED
    BY <1>1, <2>1, <2>2, KeptSound
<1>9. CASE ShutdownDrop
  BY <1>9, ShutdownSound
<1>10. CASE Exit
  <2>1. /\ UNCHANGED <<script, conn, arrived, taken, websocket, request, received, sent, pc, walk>>
        /\ shutdown' = "exited"
    BY <1>10 DEF Exit, Alive, list, main, data
  <2>2. Kept(d)
    BY <2>1 DEF Kept, Visited
  <2> QED
    BY <1>1, <2>1, <2>2, KeptSound
<1>11. CASE UNCHANGED vars
  <2>1. UNCHANGED <<script, conn, arrived, taken, websocket, request, received, sent, pc, walk, shutdown>>
    BY <1>11 DEF vars, list, main, data, stop
  <2>2. Kept(d)
    BY <2>1 DEF Kept, Visited
  <2> QED
    BY <1>1, <2>1, <2>2, KeptSound
<1>12. \A i \in 1..Threads : i \in Nat
  OBVIOUS
<1> QED
  BY <1>2, <1>3, <1>4, <1>5, <1>6, <1>7, <1>8, <1>9, <1>10, <1>11, <1>12
     DEF Next, Main, Job, EvalActions, JobActions

-----------------------------------------------------------------------------
(***************************************************************************)
(* The invariant of the loop, and what it says.                            *)
(***************************************************************************)
LEMMA LoopInit == Init => LoopInv
<1> SUFFICES ASSUME Init PROVE LoopInv
  OBVIOUS
<1>1. script \in [Conns -> Seq(Inputs)]
  BY LoopAssumption DEF Init
<1>2. InputsSound
  <2>1. \A c \in Conns : Len(script[c]) \in Nat
    BY <1>1, LenProperties
  <2> QED
    BY <1>1, <2>1 DEF Init, InputsSound, InputsGiven
<1>3. DataTyped
  BY EmptySeq DEF Init, DataTyped, States
<1>4. ListTyped
  BY EmptySeq DEF Init, ListTyped
<1>5. TypeOK /\ InputsGiven
  BY <1>2, <1>3, <1>4, TypesSplit
<1>6. Len(<<>>) = 0 /\ ToSet(<<>>) = {} /\ IsInjective(<<>>)
  BY DEF ToSet, IsInjective
<1>7. ListSound
  <2>1. {c \in Conns : conn[c] = "open"} = {}
    BY DEF Init
  <2> QED
    BY <1>6, <2>1 DEF Init, ListSound
<1>8. CountSound /\ WalkSound
  BY <1>6 DEF Init, CountSound, WalkSound
<1>9. WritersSound
  BY <1>6 DEF Init, WritersSound
<1>10. RequestsSound
  BY DEF Init, RequestsSound, RequestSound, FreshSound, OpenSound, DroppedSound
<1> QED
  BY <1>5, <1>7, <1>8, <1>9, <1>10 DEF LoopInv

LEMMA LoopStep == LoopInv /\ [Next]_vars => LoopInv'
<1> SUFFICES ASSUME LoopInv, [Next]_vars PROVE LoopInv'
  OBVIOUS
<1>1. ListInv /\ DataTyped /\ InputsSound /\ WritersSound
  BY ListPart, TypesSplit DEF LoopInv
<1>2. ListInv'
  BY <1>1, ListStep DEF DataTyped
<1>3. DataTyped' /\ InputsSound'
  BY <1>1, TypesStep
<1>4. WritersSound'
  BY <1>1, WritersStep
<1>5. RequestsSound'
  BY RequestsStep
<1>6. TypeOK' /\ InputsGiven'
  <2>1. ListTyped'
    BY <1>2 DEF ListInv
  <2> QED
    BY <1>3, <2>1 DEF TypeOK, ListTyped, DataTyped, InputsSound, InputsGiven, JobRecords, Texts
<1> QED
  BY <1>2, <1>4, <1>5, <1>6 DEF LoopInv, ListInv

LEMMA LoopInvariant == Spec => []LoopInv
BY LoopInit, LoopStep, PTL DEF Spec

\* Every variable of the main loop has its type, whatever arrives.
THEOREM TypeCorrect == Spec => []TypeOK
<1>1. LoopInv => TypeOK
  BY DEF LoopInv
<1> QED
  BY <1>1, LoopInvariant, PTL

\* The list of clients holds every open connection once, num_clients counts it
\* until the server is shut down, and the places the loop of run() keeps over
\* drop_client lead to clients that are still in it.
THEOREM ListStaysSound == Spec => []ListSound
<1>1. LoopInv => ListSound
  BY DEF LoopInv
<1> QED
  BY <1>1, LoopInvariant, PTL

LEMMA OneAnswer == LoopInv => PagesAnsweredOnce
<1> SUFFICES ASSUME LoopInv, NEW c \in Conns, NEW k \in 1..Len(script[c]),
                    script[c][k] = "page", ~websocket[c]
             PROVE  /\ Len(sent[c]) <= 1
                    /\ conn[c] = "dropped" /\ taken[c] = k /\ shutdown = "no" => sent[c] = <<"page">>
  BY DEF PagesAnsweredOnce
<1>1. RequestSound(c) /\ conn[c] \in {"idle", "pending", "open", "dropped"}
  BY DEF LoopInv, RequestsSound, TypeOK
<1>2. FreshSound(c) /\ OpenSound(c) /\ DroppedSound(c)
  BY <1>1 DEF RequestSound
<1>3. Len(sent[c]) <= 1
  <2>1. CASE conn[c] = "dropped"
    BY <1>2, <2>1 DEF DroppedSound
  <2>2. CASE conn[c] # "dropped"
    <3>1. sent[c] = <<>>
      BY <1>1, <1>2, <2>2 DEF FreshSound, OpenSound
    <3> QED
      BY <3>1
  <2> QED
    BY <2>1, <2>2
<1>4. k > 0
  OBVIOUS
<1> QED
  BY <1>2, <1>3, <1>4 DEF DroppedSound

\* Serve writes a page once, and the loop closes the connection of whoever asked
\* for one only after it was written, whatever else arrives and in what pieces.
THEOREM PagesOnce == Spec => []PagesAnsweredOnce
BY OneAnswer, LoopInvariant, PTL

-----------------------------------------------------------------------------
(***************************************************************************)
(* Websockets of patient browsers.                                         *)
(***************************************************************************)

\* Browsers wait for "Web sockets enabled!" and send nothing behind the request
\* for a websocket but the end, and the operator lets the server run.
PatientBrowsers ==
  /\ Patient /\ ~MayShutdown
  /\ \A s \in Scripts : \A c \in Conns : \A k \in 1..Len(s[c]) : \A j \in 1..(k - 1) :
       s[c][j] = "upgrade" => s[c][k] = "eof"

\* Its connect job has not ended, and the loop has nothing to read of it; or
\* nothing is in its buffer, and it is not evaluated.
Awaiting(c) ==
  /\ taken[c] = arrived[c] /\ script[c][taken[c]] = "upgrade"
  /\ "enabled" \notin ToSet(sent[c]) /\ c \notin ToSet(walk)
Silent(c) == received[c] = 0 /\ ~(pc = "eval" /\ c = Head(walk))

WebsocketStays(c) ==
  /\ conn[c] = "open"
  /\ \E k \in 1..taken[c] : script[c][k] = "upgrade"
  /\ Awaiting(c) \/ Silent(c)
NotUpgraded(c) ==
  /\ state[c] # "open_ws"
  /\ \A k \in 1..(arrived[c] - 1) : script[c][k] # "upgrade"
PatientSound(c) == IF websocket[c] THEN WebsocketStays(c) ELSE NotUpgraded(c)

PatientInv ==
  /\ PatientBrowsers /\ script \in Scripts
  /\ shutdown = "no" /\ dangling = {}
  /\ \A c \in Conns : PatientSound(c)

\* The step leaves d where it is.
Steady(d) ==
  /\ script' = script /\ websocket'[d] = websocket[d] /\ taken'[d] = taken[d]
  /\ arrived'[d] = arrived[d]
  /\ ~websocket[d] => state'[d] \in {state[d], "alive", "closing"}
  /\ websocket[d] => conn'[d] = conn[d] /\ received'[d] = received[d] /\ sent'[d] = sent[d]
  /\ \/ pc' = pc /\ walk' = walk
     \/ /\ d \in ToSet(walk') => d \in ToSet(walk) \/ Readable(d)
        /\ ~(pc' = "eval" /\ d = Head(walk'))

LEMMA SteadySound ==
  ASSUME NEW d \in Conns, arrived[d] \in Nat, PatientSound(d), Steady(d)
  PROVE  PatientSound(d)'
<1>1. CASE websocket[d]
  <2>1. /\ WebsocketStays(d) /\ script' = script /\ websocket'[d] /\ taken'[d] = taken[d]
        /\ arrived'[d] = arrived[d] /\ conn'[d] = conn[d] /\ received'[d] = received[d]
        /\ sent'[d] = sent[d]
        /\ \/ pc' = pc /\ walk' = walk
           \/ /\ d \in ToSet(walk') => d \in ToSet(walk) \/ Readable(d)
              /\ ~(pc' = "eval" /\ d = Head(walk'))
    BY <1>1 DEF PatientSound, Steady
  <2>2. Awaiting(d) => ~Readable(d)
    BY DEF Awaiting, Readable, Ended
  <2>3. Awaiting(d) => Awaiting(d)'
    BY <2>1, <2>2 DEF Awaiting
  <2> QED
    BY <2>1, <2>3 DEF PatientSound, WebsocketStays, Silent
<1>2. CASE ~websocket[d]
  <2>1. NotUpgraded(d) /\ ~websocket'[d] /\ state'[d] \in {state[d], "alive", "closing"}
        /\ arrived'[d] = arrived[d] /\ script' = script
    BY <1>2 DEF PatientSound, Steady
  <2>2. NotUpgraded(d)'
    BY <2>1 DEF NotUpgraded
  <2> QED
    BY <2>1, <2>2 DEF PatientSound
<1> QED
  BY <1>1, <1>2

\* The loop visits open connections only, and evaluates no websocket.
LEMMA PatientWalk ==
  ASSUME LoopInv, PatientInv
  PROVE  /\ pc # "select" => Head(walk) \in ToSet(walk)
         /\ ToSet(walk) \subseteq ToSet(clients)
         /\ \A c \in Conns : websocket[c] =>
              /\ c \in ToSet(clients)
              /\ ~(pc = "eval" /\ c = Head(walk))
              /\ c \in ToSet(walk) => received[c] = 0
<1>1. ToSet(walk) \subseteq ToSet(clients) /\ walk \in Seq(Conns)
  BY DEF LoopInv, PatientInv, ListSound, TypeOK
<1>2. pc # "select" => Head(walk) \in ToSet(walk)
  BY <1>1, TailKeeps DEF LoopInv, WalkSound
<1>3. ASSUME NEW c \in Conns, websocket[c]
      PROVE  /\ c \in ToSet(clients)
             /\ ~(pc = "eval" /\ c = Head(walk))
             /\ c \in ToSet(walk) => received[c] = 0
  <2>1. WebsocketStays(c)
    BY <1>3 DEF PatientInv, PatientSound
  <2>2. c \in ToSet(clients)
    BY <2>1 DEF WebsocketStays, LoopInv, ListSound
  <2> QED
    BY <1>2, <2>1, <2>2 DEF WebsocketStays, Awaiting, Silent
<1> QED
  BY <1>1, <1>2, <1>3

\* What follows the request for a websocket is the end.
LEMMA PatientArrival ==
  ASSUME LoopInv, PatientInv, NEW c \in Conns, Arrive(c)
  PROVE  PatientSound(c)'
<1>1. /\ UNCHANGED <<script, conn, taken, state, websocket, received, sent, pc, walk>>
      /\ arrived' = [arrived EXCEPT ![c] = @ + 1] /\ Greeted(c) /\ conn[c] = "open"
  BY DEF Arrive, Alive, list, data, main
<1>2. /\ arrived \in [Conns -> Nat] /\ taken[c] \in Nat /\ taken[c] <= arrived[c]
      /\ arrived[c] <= Len(script[c]) /\ script[c] \in Seq(Inputs)
  BY TypesSplit DEF LoopInv, InputsSound, InputsGiven
<1>3. "enabled" \notin ToSet(sent[c]) =>
        \A k \in 1..arrived[c] : script[c][k] # "upgrade"
  <2>1. "enabled" \notin ToSet(sent[c]) => "upgrade" \notin ToSet(SubSeq(script[c], 1, arrived[c]))
    BY <1>1 DEF Greeted, PatientInv, PatientBrowsers
  <2> DEFINE s == SubSeq(script[c], 1, arrived[c])
  <2>2. Len(script[c]) \in Nat
    BY <1>2, LenProperties
  <2>3. \A k \in 1..arrived[c] : script[c][k] \in Inputs
    <3>1. \A k \in 1..arrived[c] : k \in 1..Len(script[c])
      BY <1>2, <2>2
    <3> QED
      BY <1>2, <3>1, ElementOfSeq
  <2>4. s \in Seq(Inputs) /\ Len(s) = arrived[c] /\ \A k \in 1..arrived[c] : s[k] = script[c][k]
    BY <1>2, <2>3, SubSeqProperties
  <2> HIDE DEF s
  <2>5. DOMAIN s = 1..arrived[c]
    BY <2>4, LenProperties
  <2>6. \A k \in 1..arrived[c] : script[c][k] \in ToSet(s)
    BY <2>4, <2>5 DEF ToSet
  <2> QED
    BY <2>1, <2>6 DEF s
<1>4. PatientSound(c) /\ RequestSound(c)
  BY DEF PatientInv, LoopInv, RequestsSound
<1>5. CASE websocket[c]
  <2>1. WebsocketStays(c)
    BY <1>4, <1>5 DEF PatientSound
  <2>2. ~Awaiting(c)
    <3>1. \E k \in 1..arrived[c] : script[c][k] = "upgrade"
      BY <1>2, <2>1 DEF WebsocketStays
    <3> QED
      BY <1>3, <3>1 DEF Awaiting
  <2>3. Silent(c)'
    BY <1>1, <2>1, <2>2 DEF WebsocketStays, Silent
  <2> QED
    BY <1>1, <1>5, <2>1, <2>3 DEF PatientSound, WebsocketStays
<1>6. CASE ~websocket[c]
  <2>1. sent[c] = <<>>
    BY <1>1, <1>4, <1>6 DEF RequestSound, OpenSound
  <2>2. "enabled" \notin ToSet(sent[c])
    BY <2>1 DEF ToSet
  <2>3. \A k \in 1..(arrived'[c] - 1) : script'[c][k] # "upgrade"
    BY <1>1, <1>2, <1>3, <2>2
  <2> QED
    BY <1>1, <1>4, <1>6, <2>3 DEF PatientSound, NotUpgraded
<1> QED
  BY <1>5, <1>6

\* Of a websocket the loop reads the end, and no more.
LEMMA PatientRead ==
  ASSUME LoopInv, PatientInv, NEW c \in Conns, Read(c)
  PROVE  PatientSound(c)'
<1>1. /\ UNCHANGED <<script, conn, arrived, state, websocket, sent, walk>>
      /\ pc = "read" /\ c = Head(walk) /\ Readable(c)
  BY DEF Read, Alive, list
<1>2. /\ arrived[c] \in Nat /\ taken \in [Conns -> Nat] /\ taken[c] <= arrived[c]
      /\ arrived[c] <= Len(script[c]) /\ script[c] \in Seq(Inputs) /\ Len(script[c]) \in Nat
  BY TypesSplit, LenProperties DEF LoopInv, InputsSound, InputsGiven
<1>3. PatientSound(c)
  BY DEF PatientInv
<1>4. CASE websocket[c]
  <2>1. WebsocketStays(c) /\ received[c] = 0
    BY <1>1, <1>3, <1>4, PatientWalk DEF PatientSound
  <2>2. PICK j \in 1..taken[c] : script[c][j] = "upgrade"
    BY <2>1 DEF WebsocketStays
  <2> DEFINE input == script[c][taken[c] + 1]
  <2>3. Ended(c) \/ input = "eof"
    <3> SUFFICES ASSUME ~Ended(c) PROVE input = "eof"
      OBVIOUS
    <3>1. taken[c] < arrived[c]
      BY <1>1 DEF Readable
    <3>2. taken[c] + 1 \in 1..Len(script[c]) /\ j \in 1..((taken[c] + 1) - 1)
      BY <1>2, <3>1
    <3>3. \A k \in 1..Len(script[c]) : \A i \in 1..(k - 1) :
            script[c][i] = "upgrade" => script[c][k] = "eof"
      BY DEF PatientInv, PatientBrowsers
    <3> QED
      BY <2>2, <3>2, <3>3
  <2>4. /\ pc' = "check" /\ UNCHANGED received
        /\ taken' = [taken EXCEPT ![c] = IF Ended(c) THEN @ ELSE @ + 1]
    BY <2>3 DEF Read
  <2>5. j \in 1..taken'[c]
    BY <1>2, <2>2, <2>4
  <2>6. Silent(c)'
    BY <2>1, <2>4 DEF Silent
  <2> QED
    BY <1>1, <1>4, <2>1, <2>2, <2>5, <2>6 DEF PatientSound, WebsocketStays
<1>5. CASE ~websocket[c]
  BY <1>1, <1>3, <1>5 DEF PatientSound, NotUpgraded
<1> QED
  BY <1>4, <1>5

\* Nothing but the request for a websocket makes a client one, and whoever is
\* dropped is none.
LEMMA PatientEval ==
  ASSUME LoopInv, PatientInv, NEW c \in Conns, EvalActions(c), NEW d \in Conns
  PROVE  PatientSound(d)' /\ dangling' = {}
<1>1. /\ ListInv /\ Leaves(c) /\ UNCHANGED <<script, arrived, taken>>
      /\ pc = "eval" /\ c = Head(walk) /\ c \in ToSet(clients)
  BY ListPart, EvalLeaves DEF EvalActions, Result, Refuse, Serve, NotServed, Upgrade, Receive, Evaluates
<1>2. /\ websocket \in [Conns -> BOOLEAN] /\ sent \in [Conns -> Seq(Texts)]
      /\ state \in [Conns -> States] /\ arrived \in [Conns -> Nat] /\ ws \in Conns \cup {None}
      /\ walk \in Seq(Conns) /\ walk # <<>> /\ IsInjective(walk)
  BY <1>1, TypesSplit DEF LoopInv, DataTyped, ListTyped, InputsSound, InputsGiven, WalkSound
<1>3. ~websocket[c] /\ NotUpgraded(c) /\ PatientSound(d) /\ dangling = {}
  BY <1>1, PatientWalk DEF PatientInv, PatientSound
<1>4. ~Receive(c)
  <2>1. state[c] # "open_ws"
    BY <1>3 DEF NotUpgraded
  <2> QED
    BY <2>1 DEF Receive
<1>5. dangling' = {}
  <2>1. CASE Result(c)
    <3>1. ws # None => ws \in ToSet(clients)
      BY <1>2, PatientWalk DEF LoopInv, WritersSound
    <3> QED
      BY <1>3, <2>1, <3>1 DEF Result
  <2>2. CASE ~Result(c)
    BY <1>3, <1>4, <2>2 DEF EvalActions, Refuse, Serve, NotServed, Upgrade
  <2> QED
    BY <2>1, <2>2
<1>6. /\ walk' \in {Tail(walk), <<>>} /\ pc' # "eval"
      /\ ToSet(walk') \subseteq ToSet(walk) /\ c \notin ToSet(walk')
  <2>1. walk' \in {Tail(walk), <<>>} /\ pc' # "eval"
    BY <1>1 DEF Leaves, Walked
  <2>2. ToSet(<<>>) = {}
    BY DEF ToSet
  <2>3. ToSet(Tail(walk)) \subseteq ToSet(walk) /\ c \notin ToSet(Tail(walk))
    BY <1>1, <1>2, TailKeeps
  <2> QED
    BY <2>1, <2>2, <2>3
<1>7. CASE d = c /\ Upgrade(c)
  <2>1. /\ websocket'[c] /\ UNCHANGED <<sent, conn>>
    BY <1>2, <1>7 DEF Upgrade, Marked, CleanUp, list
  <2>2. conn[c] = "open" /\ sent[c] = <<>> /\ script[c][taken[c]] = "upgrade"
    BY <1>3, <1>7, EvaluatesLast DEF Upgrade
  <2>3. taken[c] \in Nat /\ taken[c] > 0 /\ taken[c] <= arrived[c] /\ arrived[c] \in Nat
    <3>1. taken[c] \in Nat /\ taken[c] <= arrived[c] /\ arrived[c] \in Nat
      BY TypesSplit DEF LoopInv, InputsSound, InputsGiven
    <3>2. Finished(c) /\ received[c] \in Nat
      <4>1. Visited(c)
        BY <1>1 DEF Visited
      <4> QED
        BY <1>1, <1>3, <4>1, OpenFacts
    <3>3. taken[c] = received[c] \/ taken[c] = received[c] + 1
      BY <3>2 DEF Finished
    <3>4. received[c] > 0 \/ taken[c] = received[c] + 1
      BY <3>2 DEF Finished
    <3> QED
      BY <3>1, <3>2, <3>3, <3>4
  <2>4. taken[c] = arrived[c]
    <3>1. ~(taken[c] \in 1..(arrived[c] - 1))
      BY <1>3, <2>2 DEF NotUpgraded
    <3> QED
      BY <2>3, <3>1
  <2>5. "enabled" \notin ToSet(sent'[c])
    BY <2>1, <2>2 DEF ToSet
  <2>6. Awaiting(c)'
    BY <1>1, <1>6, <2>2, <2>4, <2>5 DEF Awaiting
  <2>7. taken'[c] \in 1..taken'[c] /\ script'[c][taken'[c]] = "upgrade"
    BY <1>1, <2>2, <2>3
  <2>8. WebsocketStays(c)'
    BY <2>1, <2>2, <2>6, <2>7 DEF WebsocketStays
  <2> QED
    BY <1>5, <1>7, <2>1, <2>8 DEF PatientSound
<1>8. CASE d = c /\ ~Upgrade(c)
  <2>1. websocket' = websocket
    BY <1>4, <1>8 DEF EvalActions, Result, Refuse, Serve, NotServed, data
  <2>2. state'[c] \in {state[c], "alive", "closing"}
    BY <1>2, <1>4, <1>8 DEF EvalActions, Result, Refuse, Serve, NotServed, data
  <2>3. Steady(d)
    BY <1>1, <1>3, <1>6, <1>8, <2>1, <2>2 DEF Steady
  <2> QED
    BY <1>2, <1>3, <1>5, <2>3, SteadySound
<1>9. CASE d # c
  <2>1. websocket'[d] = websocket[d] /\ state'[d] = state[d]
    BY <1>2, <1>9 DEF EvalActions, Result, Refuse, Serve, NotServed, Upgrade, Receive, data, Marked
  <2>2. sent'[d] = sent[d] /\ received'[d] = received[d]
    BY <1>2, <1>9 DEF EvalActions, Result, Refuse, Serve, NotServed, Upgrade, Receive, data
  <2>3. conn'[d] = conn[d]
    <3>1. CASE Drop(c)
      BY <1>1, <1>9, <3>1, DropFacts
    <3>2. CASE UNCHANGED <<list, unfound>>
      BY <3>2 DEF list
    <3> QED
      BY <1>1, <3>1, <3>2 DEF Leaves
  <2>4. Steady(d)
    BY <1>1, <1>6, <2>1, <2>2, <2>3 DEF Steady
  <2> QED
    BY <1>2, <1>3, <1>5, <2>4, SteadySound
<1> QED
  BY <1>7, <1>8, <1>9

\* A job meets its websocket in the list.
LEMMA PatientJobs ==
  ASSUME LoopInv, PatientInv, NEW i \in Nat, NEW c \in Conns, JobActions(i, c), NEW d \in Conns
  PROVE  PatientSound(d)' /\ dangling' = {}
<1>1. /\ UNCHANGED <<script, conn, arrived, taken, websocket, pc, walk>> /\ DataTyped
      /\ arrived[d] \in Nat /\ PatientSound(d) /\ dangling = {}
  BY JobsLeaveList, TypesSplit DEF list, main, LoopInv, InputsSound, InputsGiven, PatientInv
<1>2. /\ state \in [Conns -> States] /\ received \in [Conns -> Nat]
      /\ sent \in [Conns -> Seq(Texts)] /\ request \in [Conns -> Seq(Inputs \cup Conns)]
  BY <1>1 DEF DataTyped
<1>3. websocket[c]
  BY <1>1, JobsTyped DEF LoopInv, WritersSound
<1>4. c \in ToSet(clients)
  BY <1>3, PatientWalk
<1>5. dangling' = {} /\ ~JobUsesFreed(i, c)
  BY <1>1, <1>4 DEF JobActions, JobUsesFreed, Link, Enable, WsToClient, RecvWebsocket
<1>6. CASE d # c
  <2>1. state'[d] = state[d] /\ received'[d] = received[d] /\ sent'[d] = sent[d]
    BY <1>2, <1>5, <1>6 DEF JobActions, Link, Enable, WsToClient, RecvWebsocket, Emptied
  <2>2. Steady(d)
    BY <1>1, <2>1 DEF Steady
  <2> QED
    BY <1>1, <1>5, <2>2, SteadySound
<1>7. CASE d = c
  <2>1. WebsocketStays(c)
    BY <1>1, <1>3, <1>7 DEF PatientSound
  <2>2. CASE Enable(i, c)
    <3>1. received'[c] = 0
      BY <1>2, <2>2 DEF Enable, Emptied
    <3>2. ~(pc = "eval" /\ c = Head(walk))
      BY <1>3, PatientWalk
    <3>3. Silent(c)'
      BY <1>1, <3>1, <3>2 DEF Silent
    <3> QED
      BY <1>1, <1>3, <1>5, <1>7, <2>1, <3>3 DEF PatientSound, WebsocketStays
  <2>3. CASE ~Enable(i, c)
    <3>1. received' = received
      BY <1>5, <2>3 DEF JobActions, Link, WsToClient, RecvWebsocket
    <3>2. "enabled" \notin ToSet(sent[c]) => "enabled" \notin ToSet(sent'[c])
      <4>1. ASSUME NEW x \in Texts, x # "enabled", sent'[c] = Append(sent[c], x)
            PROVE  "enabled" \notin ToSet(sent[c]) => "enabled" \notin ToSet(sent'[c])
        <5>1. sent[c] \in Seq(Texts)
          BY <1>2
        <5>2. ToSet(Append(sent[c], x)) = ToSet(sent[c]) \cup {x}
          BY <5>1, AppendAddsOne
        <5> QED
          BY <4>1, <5>2
      <4>2. CASE Link(i, c)
        <5>1. sent'[c] = sent[c] \/ sent'[c] = Append(sent[c], "handshake")
          BY <1>2, <4>2 DEF Link
        <5>2. "handshake" \in Texts /\ "handshake" # "enabled"
          BY DEF Texts
        <5> QED
          BY <4>1, <5>1, <5>2
      <4>3. CASE WsToClient(i, c)
        <5> DEFINE x == IF request[c] = <<>> THEN "empty" ELSE request[c][1]
        <5>1. sent'[c] = Append(sent[c], x)
          BY <1>2, <4>3 DEF WsToClient
        <5>2. x \in Texts /\ x # "enabled"
          <6>1. CASE request[c] = <<>>
            BY <6>1 DEF Texts
          <6>2. CASE request[c] # <<>>
            <7>1. request[c] \in Seq(Inputs \cup Conns) /\ 1 \in 1..Len(request[c])
              BY <1>2, <6>2, EmptySeq, LenProperties
            <7>2. request[c][1] \in Inputs \cup Conns
              BY <7>1, ElementOfSeq
            <7>3. "enabled" \notin Inputs /\ "enabled" \notin Conns
              BY LoopAssumption DEF Inputs, Complete
            <7> QED
              BY <6>2, <7>2, <7>3 DEF Texts
          <6> QED
            BY <6>1, <6>2
        <5> HIDE DEF x
        <5> QED
          BY <4>1, <5>1, <5>2
      <4>4. CASE RecvWebsocket(i, c)
        BY <4>4 DEF RecvWebsocket
      <4> QED
        BY <1>5, <2>3, <4>2, <4>3, <4>4 DEF JobActions
    <3>3. Awaiting(c) => Awaiting(c)'
      BY <1>1, <3>2 DEF Awaiting
    <3>4. Silent(c) => Silent(c)'
      BY <1>1, <3>1 DEF Silent
    <3> QED
      BY <1>1, <1>3, <1>5, <1>7, <2>1, <3>3, <3>4 DEF PatientSound, WebsocketStays
  <2> QED
    BY <2>2, <2>3
<1> QED
  BY <1>6, <1>7

\* The loop drops no websocket and enters none that it evaluated before.
LEMMA PatientVisit ==
  ASSUME LoopInv, PatientInv, NEW c \in Conns, Check(c) \/ UseFreed(c), NEW d \in Conns
  PROVE  PatientSound(d)' /\ dangling' = {}
<1>1. /\ ListInv /\ arrived[d] \in Nat /\ received[c] \in Nat /\ PatientSound(d) /\ dangling = {}
      /\ walk \in Seq(Conns)
  BY ListPart, TypesSplit DEF LoopInv, InputsSound, InputsGiven, DataTyped, ListTyped, PatientInv
<1>2. Check(c) /\ c \in ToSet(walk)
  <2>1. pc # "select" /\ c = Head(walk)
    BY DEF Check, UseFreed
  <2>2. c \in ToSet(walk) /\ c \in ToSet(clients)
    BY <2>1, PatientWalk
  <2> QED
    BY <2>2 DEF UseFreed
<1>3. /\ UNCHANGED <<script, arrived, taken, state, websocket, received, sent, dangling>>
      /\ pc = "check" /\ c = Head(walk)
      /\ IF received[c] > 0
           THEN pc' = "eval" /\ UNCHANGED <<list, walk, unfound>>
           ELSE CleanUp(c)
  BY <1>2 DEF Check, Alive
<1>4. CASE received[c] > 0
  <2>1. ~websocket[c]
    BY <1>2, <1>4, PatientWalk
  <2>2. CASE d = c
    BY <1>1, <1>3, <2>1, <2>2 DEF PatientSound, NotUpgraded
  <2>3. CASE d # c
    <3>1. Steady(d)
      BY <1>3, <1>4, <2>3 DEF Steady, list
    <3> QED
      BY <1>1, <1>3, <3>1, SteadySound
  <2> QED
    BY <1>1, <1>3, <2>2, <2>3
<1>5. CASE ~(received[c] > 0)
  <2>1. CleanUp(c) /\ walk' = Tail(walk) /\ pc' \in {"select", "read"}
    BY <1>3, <1>5 DEF CleanUp, Walked
  <2>2. ToSet(walk') \subseteq ToSet(walk)
    <3>1. walk # <<>>
      BY <1>2 DEF ToSet
    <3> QED
      BY <1>1, <2>1, <3>1, TailKeeps
  <2>3. websocket[d] => conn'[d] = conn[d]
    <3>1. CASE websocket[c]
      BY <1>3, <2>1, <3>1 DEF CleanUp, list
    <3>2. CASE ~websocket[c]
      BY <1>1, <1>3, <2>1, <3>2, DropFacts DEF CleanUp
    <3> QED
      BY <3>1, <3>2
  <2>4. Steady(d)
    BY <1>3, <2>1, <2>2, <2>3 DEF Steady
  <2> QED
    BY <1>1, <1>3, <2>4, SteadySound
<1> QED
  BY <1>4, <1>5

LEMMA PatientStep == LoopInv /\ PatientInv /\ [Next]_vars => PatientInv'
<1> SUFFICES ASSUME LoopInv, PatientInv, [Next]_vars PROVE PatientInv'
  OBVIOUS
<1>1. /\ PatientBrowsers /\ ~MayShutdown /\ script \in Scripts /\ shutdown = "no" /\ dangling = {}
      /\ \A d \in Conns : PatientSound(d)
      /\ conn \in [Conns -> {"idle", "pending", "open", "dropped"}]
      /\ taken \in [Conns -> Nat] /\ arrived \in [Conns -> Nat]
      /\ request \in [Conns -> Seq(Inputs \cup Conns)] /\ received \in [Conns -> Nat]
  BY TypesSplit DEF PatientInv, PatientBrowsers, LoopInv, ListTyped, InputsSound, InputsGiven, DataTyped
<1>2. ~Interrupt /\ ~ShutdownDrop /\ ~Exit
  BY <1>1 DEF Interrupt, ShutdownDrop, Exit
<1> DEFINE Good == (\A d \in Conns : PatientSound(d)') /\ dangling' = {}
<1>3. ASSUME NEW c \in Conns, Dial(c) PROVE Good
  <2>1. /\ UNCHANGED <<script, arrived, taken, state, websocket, received, sent, pc, walk, dangling>>
        /\ conn[c] = "idle" /\ conn' = [conn EXCEPT ![c] = "pending"]
    BY <1>3 DEF Dial, Alive, data, main
  <2>2. ASSUME NEW d \in Conns PROVE Steady(d)
    <3>1. websocket[d] => conn[d] = "open"
      BY <1>1 DEF PatientSound, WebsocketStays
    <3>2. websocket[d] => conn'[d] = conn[d]
      BY <1>1, <2>1, <3>1
    <3> QED
      BY <2>1, <3>2 DEF Steady
  <2> QED
    BY <1>1, <2>1, <2>2, SteadySound
<1>4. ASSUME NEW c \in Conns, Arrive(c) PROVE Good
  <2>1. /\ UNCHANGED <<script, conn, taken, state, websocket, received, sent, pc, walk, dangling>>
        /\ arrived' = [arrived EXCEPT ![c] = @ + 1]
    BY <1>4 DEF Arrive, Alive, data, main, list
  <2>2. ASSUME NEW d \in Conns, d # c PROVE PatientSound(d)'
    <3>1. Steady(d)
      BY <1>1, <2>1, <2>2 DEF Steady
    <3> QED
      BY <1>1, <3>1, SteadySound
  <2>3. PatientSound(c)'
    BY <1>4, PatientArrival
  <2> QED
    BY <1>1, <2>1, <2>2, <2>3
<1>5. ASSUME Select PROVE Good
  <2>1. /\ UNCHANGED <<script, arrived, taken, state, websocket, received, sent, dangling>>
        /\ walk' = Reported /\ pc' \in {"select", "read"}
    BY <1>5 DEF Select, Alive, data, Walked
  <2>2. \A d \in ToSet(Reported) : Readable(d)
    BY ListPart, ReportedFacts
  <2>3. ASSUME NEW d \in Conns PROVE Steady(d)
    <3>1. websocket[d] => conn[d] = "open"
      BY <1>1 DEF PatientSound, WebsocketStays
    <3>2. websocket[d] => conn'[d] = conn[d]
      BY <1>1, <1>5, <3>1 DEF Select, list
    <3> QED
      BY <2>1, <2>2, <3>2 DEF Steady
  <2> QED
    BY <1>1, <2>1, <2>3, SteadySound
<1>6. ASSUME NEW c \in Conns, Read(c) PROVE Good
  <2>1. /\ UNCHANGED <<script, conn, arrived, state, websocket, sent, walk, dangling>>
        /\ c = Head(walk) /\ pc' \in {"read", "check"}
    BY <1>6 DEF Read, Alive, list
  <2>2. ASSUME NEW d \in Conns, d # c PROVE PatientSound(d)'
    <3>1. taken'[d] = taken[d] /\ received'[d] = received[d]
      <4>1. CASE UNCHANGED <<request, received>>
        BY <1>1, <1>6, <2>2, <4>1 DEF Read
      <4>2. CASE ~(UNCHANGED <<request, received>>)
        BY <1>1, <1>6, <2>2, <4>2 DEF Read
      <4> QED
        BY <4>1, <4>2
    <3>2. Steady(d)
      BY <2>1, <3>1 DEF Steady
    <3> QED
      BY <1>1, <3>2, SteadySound
  <2>3. PatientSound(c)'
    BY <1>6, PatientRead
  <2> QED
    BY <1>1, <2>1, <2>2, <2>3
<1>7. ASSUME NEW c \in Conns, Check(c) \/ UseFreed(c) PROVE Good
  BY <1>7, PatientVisit
<1>8. ASSUME NEW c \in Conns, EvalActions(c) PROVE Good
  <2>1. \A d \in Conns : PatientSound(d)' /\ dangling' = {}
    BY <1>8, PatientEval
  <2> QED
    BY <1>8, <2>1
<1>9. ASSUME NEW i \in Nat, NEW c \in Conns, JobActions(i, c) PROVE Good
  <2>1. \A d \in Conns : PatientSound(d)' /\ dangling' = {}
    BY <1>9, PatientJobs
  <2> QED
    BY <1>9, <2>1
<1>10. ASSUME UNCHANGED vars PROVE Good
  <2>1. UNCHANGED <<script, conn, arrived, taken, state, websocket, received, sent, pc, walk, dangling>>
    BY <1>10 DEF vars, list, data, main
  <2>2. \A d \in Conns : Steady(d)
    BY <2>1 DEF Steady
  <2> QED
    BY <1>1, <2>1, <2>2, SteadySound
<1>11. \A i \in 1..Threads : i \in Nat
  OBVIOUS
<1>12. Good
  <2> HIDE DEF Good
  <2> QED
    BY <1>2, <1>3, <1>4, <1>5, <1>6, <1>7, <1>8, <1>9, <1>10, <1>11
       DEF Next, Main, Job, EvalActions, JobActions
<1>13. script' = script /\ shutdown' = shutdown
  <2>1. ASSUME NEW c \in Conns, Dial(c) \/ Arrive(c) \/ Read(c) \/ UseFreed(c) \/ Check(c)
        PROVE  script' = script /\ shutdown' = shutdown
    BY <2>1 DEF Dial, Arrive, Read, UseFreed, Check, Alive, stop
  <2>2. ASSUME NEW c \in Conns, EvalActions(c) PROVE script' = script /\ shutdown' = shutdown
    BY <2>2, EvalLeaves DEF Leaves
  <2>3. ASSUME NEW i \in Nat, NEW c \in Conns, JobActions(i, c)
        PROVE  script' = script /\ shutdown' = shutdown
    BY <2>3, JobsLeaveList DEF stop
  <2>4. ASSUME Select \/ UNCHANGED vars PROVE script' = script /\ shutdown' = shutdown
    BY <2>4 DEF Select, Alive, vars, stop
  <2> QED
    BY <1>2, <1>11, <2>1, <2>2, <2>3, <2>4 DEF Next, Main, Job, EvalActions, JobActions
<1> QED
  BY <1>1, <1>12, <1>13 DEF PatientInv

\* When browsers wait for "Web sockets enabled!" and then only close, no job, nor
\* ws_send, nor the loop uses a client that drop_client freed, however JOBs,
\* refused requests and other connections come between.
THEOREM ClientsStay == PatientBrowsers /\ Spec => []ClientsOutliveUse
<1>1. PatientBrowsers /\ Init => LoopInv /\ PatientInv
  <2> SUFFICES ASSUME PatientBrowsers, Init PROVE LoopInv /\ PatientInv
    OBVIOUS
  <2>1. \A c \in Conns : PatientSound(c)
    BY DEF Init, PatientSound, NotUpgraded
  <2> QED
    BY <2>1, LoopInit DEF Init, PatientInv
<1>2. (LoopInv /\ PatientInv) /\ [Next]_vars => (LoopInv /\ PatientInv)'
  BY LoopStep, PatientStep
<1>3. LoopInv /\ PatientInv => ClientsOutliveUse
  BY DEF PatientInv, ClientsOutliveUse
<1> QED
  BY <1>1, <1>2, <1>3, PTL DEF Spec
=============================================================================
