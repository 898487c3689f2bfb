--------------------------- MODULE BifrostProofs ---------------------------
(***************************************************************************)
(* Proofs about asynchronous calls, for any nodes, calls and destinations. *)
(***************************************************************************)
EXTENDS Bifrost, Lists

-----------------------------------------------------------------------------
(***************************************************************************)
(* The inductive invariant.                                                *)
(***************************************************************************)

\* What a node has in _brokers: open calls of its own, each under a ticket that
\* was given out and that the headers of its messages bear, and no others.
BrokersSound ==
  /\ DOMAIN brokers = Nodes
  /\ \A n \in Nodes : \A t \in DOMAIN brokers[n] :
       /\ t < ticketId[n]
       /\ Caller[brokers[n][t]] = n
       /\ outcome[brokers[n][t]] = "open"
       /\ \A u \in DOMAIN brokers[n] : brokers[n][u] = brokers[n][t] => u = t
       /\ \A b \in Buffers : b.kind = "ask" /\ Caller[b.call] = n =>
            (header[b] = t <=> b.call = brokers[n][t])
  /\ \A c \in Calls : outcome[c] = "open" =>
       \E t \in DOMAIN brokers[Caller[c]] : brokers[Caller[c]][t] = c

\* The messages of a call follow the call: they are made with it, bear a ticket
\* that was given out, and are deleted when it is over.
AsksSound ==
  \A b \in Buffers : b.kind = "ask" =>
    /\ header[b] # NoTicket => header[b] < ticketId[Caller[b.call]]
    /\ worker[b] = "none" <=> outcome[b.call] \in {"never", "none"}
    /\ b \in freed <=> outcome[b.call] \in {"answered", "timed_out"}

\* A JOB is made once, by the node that was called, bears the ticket of the
\* message it answers, and is in _fnfs until it is deleted after its exchange.
RepliesSound ==
  /\ \A b \in Buffers : b.kind = "reply" =>
       /\ worker[b] # "none" => header[b] = header[AskOf(b)]
       /\ worker[AskOf(b)] \in {"none", "queued"} => worker[b] = "none"
       /\ AskOf(b) \in inbox[Target(AskOf(b))] => worker[b] = "none"
       /\ worker[b] \in {"none", "queued", "open"} => fulfilled[b] = 0 /\ b \notin freed
       /\ b \in fnfs[b.dest] <=> worker[b] # "none" /\ b \notin freed
  /\ \A n \in Nodes : \A b \in fnfs[n] : b.kind = "reply" /\ b.dest = n

\* A request waits only at its target and only after it was sent; one that was
\* lost has no open connection.  A message that is fulfilled before its
\* exchange is over was fulfilled by its JOB.
ExchangesSound ==
  /\ \A n \in Nodes : \A b \in inbox[n] : n = Target(b) /\ worker[b] \notin {"none", "queued"}
  /\ \A b \in Buffers :
       /\ result[b] # "reply"
       /\ b \in lost => worker[b] \notin {"none", "queued", "open"}
       /\ b.kind = "ask" =>
            /\ fulfilled[b] # 0 /\ worker[b] \in {"none", "queued", "open"}
                 => worker[ReplyTo(b)] \notin {"none", "queued"}
            /\ received[b] = "reply" => worker[ReplyTo(b)] # "none"

\* Nothing is told to a browser but the answer.
AnswersSound ==
  /\ \A c \in Calls : outcome[c] # "answered" => answer[c] = {}
  /\ AnswersAreReal

Inv == TypeOK /\ BrokersSound /\ AsksSound /\ RepliesSound /\ ExchangesSound /\ AnswersSound

-----------------------------------------------------------------------------
(***************************************************************************)
(* Buffers.                                                                *)
(***************************************************************************)

LEMMA DestsAreNodes ==
  ASSUME NEW c \in Calls
  PROVE  ToSet(Dests[c]) \subseteq Nodes /\ Caller[c] \in Nodes
<1>1. Dests[c] \in Seq(Nodes) /\ Caller[c] \in Nodes
  BY CallAssumption
<1> QED
  BY <1>1, ElementOfSeq, LenProperties DEF ToSet

LEMMA BufferFields ==
  ASSUME NEW b
  PROVE  b \in Buffers <=>
           /\ b = [call |-> b.call, dest |-> b.dest, kind |-> b.kind]
           /\ b.call \in Calls
           /\ b.dest \in ToSet(Dests[b.call])
           /\ b.kind \in {"ask", "reply"}
<1>1. ASSUME b \in Buffers
      PROVE  /\ b = [call |-> b.call, dest |-> b.dest, kind |-> b.kind]
             /\ b.call \in Calls
             /\ b.dest \in ToSet(Dests[b.call])
             /\ b.kind \in {"ask", "reply"}
  BY <1>1 DEF Buffers
<1>2. ASSUME b = [call |-> b.call, dest |-> b.dest, kind |-> b.kind],
             b.call \in Calls, b.dest \in ToSet(Dests[b.call]), b.kind \in {"ask", "reply"}
      PROVE  b \in Buffers
  <2>1. b \in [call : {b.call}, dest : ToSet(Dests[b.call]), kind : {"ask", "reply"}]
    BY <1>2
  <2> QED
    BY <1>2, <2>1 DEF Buffers
<1> QED
  BY <1>1, <1>2

\* Each message has its JOB, and the two know each other.
LEMMA BufferPairs ==
  ASSUME NEW b \in Buffers
  PROVE  /\ b.call \in Calls /\ b.dest \in Nodes /\ b.dest \in ToSet(Dests[b.call])
         /\ b.kind \in {"ask", "reply"}
         /\ Caller[b.call] \in Nodes /\ Target(b) \in Nodes
         /\ ReplyTo(b) \in Buffers /\ ReplyTo(b).kind = "reply"
         /\ ReplyTo(b).call = b.call /\ ReplyTo(b).dest = b.dest
         /\ AskOf(b) \in Buffers /\ AskOf(b).kind = "ask"
         /\ AskOf(b).call = b.call /\ AskOf(b).dest = b.dest
         /\ b.kind = "ask" => AskOf(b) = b /\ AskOf(ReplyTo(b)) = b /\ b = Ask(b.call, b.dest)
         /\ b.kind = "reply" => ReplyTo(b) = b /\ ReplyTo(AskOf(b)) = b
<1>1. /\ b = [call |-> b.call, dest |-> b.dest, kind |-> b.kind]
      /\ b.call \in Calls
      /\ b.dest \in ToSet(Dests[b.call])
      /\ b.kind \in {"ask", "reply"}
  BY BufferFields
<1>2. b.dest \in Nodes /\ Caller[b.call] \in Nodes
  BY <1>1, DestsAreNodes
<1>3. /\ ReplyTo(b) = [call |-> b.call, dest |-> b.dest, kind |-> "reply"]
      /\ AskOf(b) = [call |-> b.call, dest |-> b.dest, kind |-> "ask"]
  BY <1>1 DEF ReplyTo, AskOf
<1>4. ReplyTo(b) \in Buffers /\ AskOf(b) \in Buffers
  BY <1>1, <1>3, BufferFields
<1>5. /\ b.kind = "ask" => AskOf(b) = b /\ AskOf(ReplyTo(b)) = b /\ b = Ask(b.call, b.dest)
      /\ b.kind = "reply" => ReplyTo(b) = b /\ ReplyTo(AskOf(b)) = b
  BY <1>1, <1>3 DEF ReplyTo, AskOf, Ask
<1> QED
  BY <1>1, <1>2, <1>3, <1>4, <1>5 DEF Target

LEMMA MessagesOf ==
  ASSUME NEW c \in Calls
  PROVE  /\ Messages(c) \subseteq Buffers
         /\ \A b \in Buffers : b \in Messages(c) <=> b.kind = "ask" /\ b.call = c
         /\ \A d \in ToSet(Dests[c]) : Ask(c, d) \in Messages(c) /\ Ask(c, d).dest = d
<1>1. \A d \in ToSet(Dests[c]) : Ask(c, d) \in Buffers /\ Ask(c, d).kind = "ask"
                                 /\ Ask(c, d).call = c /\ Ask(c, d).dest = d
  BY BufferFields DEF Ask
<1>2. \A b \in Buffers : b.kind = "ask" => b = Ask(b.call, b.dest) /\ b.dest \in ToSet(Dests[b.call])
  BY BufferPairs
<1> QED
  BY <1>1, <1>2 DEF Messages

-----------------------------------------------------------------------------
(***************************************************************************)
(* The start.                                                              *)
(***************************************************************************)

LEMMA InitInv == ASSUME Init PROVE Inv
<1>1. TypeOK
  BY DEF Init, TypeOK, Outcomes, WorkerStates, Contents, ToSet
<1>2. BrokersSound
  BY DEF Init, BrokersSound
<1>3. AsksSound
  BY BufferPairs DEF Init, AsksSound
<1>4. RepliesSound
  BY BufferPairs DEF Init, RepliesSound
<1>5. ExchangesSound
  BY DEF Init, ExchangesSound
<1>6. AnswersSound
  BY DEF Init, AnswersSound, AnswersAreReal
<1> QED
  BY <1>1, <1>2, <1>3, <1>4, <1>5, <1>6 DEF Inv

-----------------------------------------------------------------------------
(***************************************************************************)
(* Tickets.                                                                *)
(***************************************************************************)

\* The calls under some tickets of a node
CallsUnder(n, tickets) == {brokers[n][t] : t \in tickets}

\* The calls that end and those that stay have no ticket in common, and a call
\* that stays keeps its ticket.
LEMMA BrokersAfterClosing ==
  ASSUME TypeOK, BrokersSound, NEW n \in Nodes, NEW gone \in SUBSET DOMAIN brokers[n],
         brokers' = [brokers EXCEPT ![n] = Without(n, gone)],
         \A c \in Calls : IF c \in CallsUnder(n, gone) THEN outcome'[c] # "open"
                         ELSE outcome'[c] = outcome[c],
         \A b \in Buffers : b.kind = "ask" => header'[b] = header[b],
         \A m \in Nodes : ticketId'[m] \in Nat /\ ticketId[m] <= ticketId'[m]
  PROVE  BrokersSound'
<1>1. DOMAIN brokers = Nodes /\ DOMAIN brokers' = Nodes
  BY DEF BrokersSound
<1>2. ASSUME NEW m \in Nodes
      PROVE  /\ DOMAIN brokers'[m] = IF m = n THEN DOMAIN brokers[n] \ gone ELSE DOMAIN brokers[m]
             /\ \A t \in DOMAIN brokers'[m] : t \in DOMAIN brokers[m] /\ brokers'[m][t] = brokers[m][t]
  BY <1>1 DEF Without
<1>3. ASSUME NEW m \in Nodes, NEW t \in DOMAIN brokers'[m]
      PROVE  /\ t < ticketId'[m]
             /\ Caller[brokers'[m][t]] = m
             /\ outcome'[brokers'[m][t]] = "open"
             /\ \A u \in DOMAIN brokers'[m] : brokers'[m][u] = brokers'[m][t] => u = t
             /\ \A b \in Buffers : b.kind = "ask" /\ Caller[b.call] = m =>
                  (header'[b] = t <=> b.call = brokers'[m][t])
  <2>1. t \in DOMAIN brokers[m] /\ brokers'[m][t] = brokers[m][t] /\ brokers[m][t] \in Calls
    BY <1>2, <1>3 DEF TypeOK, ToSet
  <2>2. /\ t < ticketId[m] /\ Caller[brokers[m][t]] = m
        /\ outcome[brokers[m][t]] = "open"
        /\ \A u \in DOMAIN brokers[m] : brokers[m][u] = brokers[m][t] => u = t
        /\ \A b \in Buffers : b.kind = "ask" /\ Caller[b.call] = m =>
             (header[b] = t <=> b.call = brokers[m][t])
    BY <2>1 DEF BrokersSound
  <2>3. t < ticketId'[m]
    BY <2>1, <2>2 DEF TypeOK
  <2>4. brokers[m][t] \notin CallsUnder(n, gone)
    <3>1. ASSUME NEW u \in gone, brokers[n][u] = brokers[m][t] PROVE FALSE
      <4>1. m = n
        BY <3>1, <2>2 DEF BrokersSound
      <4> QED
        BY <3>1, <4>1, <2>2, <1>2, <1>3
    <3> QED
      BY <3>1 DEF CallsUnder
  <2>5. outcome'[brokers'[m][t]] = "open"
    BY <2>1, <2>2, <2>4
  <2> QED
    BY <1>2, <2>1, <2>2, <2>3, <2>5
<1>4. ASSUME NEW c \in Calls, outcome'[c] = "open"
      PROVE  \E t \in DOMAIN brokers'[Caller[c]] : brokers'[Caller[c]][t] = c
  <2>1. c \notin CallsUnder(n, gone) /\ outcome[c] = "open" /\ Caller[c] \in Nodes
    BY <1>4, DestsAreNodes
  <2>2. PICK t \in DOMAIN brokers[Caller[c]] : brokers[Caller[c]][t] = c
    BY <2>1 DEF BrokersSound
  <2>3. t \in DOMAIN brokers'[Caller[c]]
    BY <1>2, <2>1, <2>2 DEF CallsUnder
  <2> QED
    BY <1>2, <2>1, <2>2, <2>3
<1> QED
  BY <1>1, <1>3, <1>4 DEF BrokersSound

\* The messages of calls that end are deleted, and no others.
LEMMA AsksAfterClosing ==
  ASSUME TypeOK, BrokersSound, AsksSound,
         NEW n \in Nodes, NEW gone \in SUBSET DOMAIN brokers[n],
         \A c \in Calls : IF c \in CallsUnder(n, gone)
                            THEN outcome'[c] \in {"answered", "timed_out"}
                            ELSE outcome'[c] = outcome[c],
         \A b \in Buffers : b.kind = "ask" =>
           /\ header'[b] = header[b]
           /\ worker'[b] = "none" <=> worker[b] = "none"
           /\ b \in freed' <=> b \in freed \/ b.call \in CallsUnder(n, gone),
         \A m \in Nodes : ticketId'[m] \in Nat /\ ticketId[m] <= ticketId'[m]
  PROVE  AsksSound'
<1> SUFFICES ASSUME NEW b \in Buffers, b.kind = "ask"
             PROVE  /\ header'[b] # NoTicket => header'[b] < ticketId'[Caller[b.call]]
                    /\ worker'[b] = "none" <=> outcome'[b.call] \in {"never", "none"}
                    /\ b \in freed' <=> outcome'[b.call] \in {"answered", "timed_out"}
  BY DEF AsksSound
<1>1. b.call \in Calls /\ Caller[b.call] \in Nodes
  BY BufferPairs
<1>2. /\ header[b] # NoTicket => header[b] < ticketId[Caller[b.call]]
      /\ worker[b] = "none" <=> outcome[b.call] \in {"never", "none"}
      /\ b \in freed <=> outcome[b.call] \in {"answered", "timed_out"}
  BY DEF AsksSound
<1>3. b.call \in CallsUnder(n, gone) => outcome[b.call] = "open"
  BY DEF CallsUnder, BrokersSound
<1>4. header'[b] # NoTicket => header'[b] < ticketId'[Caller[b.call]]
  <2>1. header'[b] = header[b] /\ header[b] \in Nat \cup {NoTicket}
    BY DEF TypeOK
  <2>2. ticketId[Caller[b.call]] \in Nat /\ ticketId'[Caller[b.call]] \in Nat
        /\ ticketId[Caller[b.call]] <= ticketId'[Caller[b.call]]
    BY <1>1 DEF TypeOK
  <2> QED
    BY <1>2, <2>1, <2>2
<1>5. worker'[b] = "none" <=> outcome'[b.call] \in {"never", "none"}
  BY <1>1, <1>2, <1>3
<1>6. b \in freed' <=> outcome'[b.call] \in {"answered", "timed_out"}
  BY <1>1, <1>2, <1>3
<1> QED
  BY <1>4, <1>5, <1>6

-----------------------------------------------------------------------------
(***************************************************************************)
(* What a request that reaches a node does to buffers and workers.         *)
(***************************************************************************)

LEMMA CleanseFacts ==
  ASSUME TypeOK, RepliesSound, NEW n \in Nodes
  PROVE  /\ Expired(n) \in SUBSET DOMAIN brokers[n]
         /\ KeptBrokers(n) = Without(n, Expired(n))
         /\ DOMAIN KeptBrokers(n) = DOMAIN brokers[n] \ Expired(n)
         /\ ExpiredCalls(n) = CallsUnder(n, Expired(n)) /\ ExpiredCalls(n) \subseteq Calls
         /\ \A b \in DoneFnfs(n) : b \in Buffers /\ b.kind = "reply" /\ b.dest = n /\ fulfilled[b] # 0
         /\ Cleansed(n) \subseteq Buffers
         /\ \A b \in Buffers : b \in Cleansed(n) <=>
              b \in DoneFnfs(n) \/ (b.kind = "ask" /\ b.call \in ExpiredCalls(n))
<1>1. Expired(n) \in SUBSET DOMAIN brokers[n]
  BY DEF Expired
<1>2. KeptBrokers(n) = Without(n, Expired(n)) /\ DOMAIN KeptBrokers(n) = DOMAIN brokers[n] \ Expired(n)
  BY DEF KeptBrokers, Without
<1>3. ExpiredCalls(n) = CallsUnder(n, Expired(n)) /\ ExpiredCalls(n) \subseteq Calls
  BY <1>1 DEF ExpiredCalls, CallsUnder, TypeOK, ToSet
<1>4. \A b \in DoneFnfs(n) : b \in Buffers /\ b.kind = "reply" /\ b.dest = n /\ fulfilled[b] # 0
  BY DEF DoneFnfs, TypeOK, RepliesSound
<1>5. \A c \in ExpiredCalls(n) : Messages(c) \subseteq Buffers /\
        \A b \in Buffers : b \in Messages(c) <=> b.kind = "ask" /\ b.call = c
  BY <1>3, MessagesOf
<1>6. Cleansed(n) \subseteq Buffers
  BY <1>4, <1>5 DEF Cleansed
<1>7. \A b \in Buffers : b \in Cleansed(n) <=>
        b \in DoneFnfs(n) \/ (b.kind = "ask" /\ b.call \in ExpiredCalls(n))
  BY <1>5 DEF Cleansed
<1> QED
  BY <1>1, <1>2, <1>3, <1>4, <1>6, <1>7

\* Workers are handed to the pool, and connections are closed.
HandlerMoves ==
  \A b \in Buffers :
    \/ worker'[b] = worker[b]
    \/ worker[b] = "none" /\ worker'[b] = "queued"
    \/ worker[b] = "open" /\ worker'[b] = "closed"

\* The JOBs in made are new; those of n that are done are deleted.
LEMMA RepliesAfterHandling ==
  ASSUME TypeOK, RepliesSound, HandlerMoves, NEW n \in Nodes, NEW made \in SUBSET Buffers,
         \A b \in made :
           /\ b.kind = "reply" /\ b.dest = n
           /\ worker[b] = "none" /\ worker'[b] = "queued"
           /\ header'[b] = header'[AskOf(b)]
           /\ worker[AskOf(b)] \notin {"none", "queued"}
           /\ AskOf(b) \notin inbox'[Target(AskOf(b))],
         \A b \in Buffers \ made : b.kind = "reply" =>
           /\ worker'[b] = "none" <=> worker[b] = "none"
           /\ worker[b] # "none" => header'[b] = header[b] /\ header'[AskOf(b)] = header[AskOf(b)],
         \A m \in Nodes : inbox'[m] \subseteq inbox[m],
         \A b \in Buffers : b.kind = "reply" =>
           /\ fulfilled'[b] = fulfilled[b]
           /\ b \in freed' <=> b \in freed \/ b \in DoneFnfs(n),
         fnfs' = [fnfs EXCEPT ![n] = KeptFnfs(n) \cup made]
  PROVE  RepliesSound'
<1>1. \A m \in Nodes : fnfs'[m] = IF m = n THEN (fnfs[n] \ DoneFnfs(n)) \cup made ELSE fnfs[m]
  BY DEF TypeOK, KeptFnfs
<1>2. \A b \in DoneFnfs(n) : b \in Buffers /\ b.kind = "reply" /\ b.dest = n /\ fulfilled[b] # 0
  BY CleanseFacts
<1>3. \A m \in Nodes : \A b \in fnfs'[m] : b.kind = "reply" /\ b.dest = m
  BY <1>1 DEF RepliesSound
<1>4. ASSUME NEW b \in Buffers, b.kind = "reply"
      PROVE  /\ worker'[b] # "none" => header'[b] = header'[AskOf(b)]
             /\ worker'[AskOf(b)] \in {"none", "queued"} => worker'[b] = "none"
             /\ AskOf(b) \in inbox'[Target(AskOf(b))] => worker'[b] = "none"
             /\ worker'[b] \in {"none", "queued", "open"} => fulfilled'[b] = 0 /\ b \notin freed'
             /\ b \in fnfs'[b.dest] <=> worker'[b] # "none" /\ b \notin freed'
  <2>1. AskOf(b) \in Buffers /\ AskOf(b).kind = "ask" /\ b.dest \in Nodes /\ Target(AskOf(b)) \in Nodes
    BY BufferPairs
  <2>2. /\ worker[b] # "none" => header[b] = header[AskOf(b)]
        /\ worker[AskOf(b)] \in {"none", "queued"} => worker[b] = "none"
        /\ AskOf(b) \in inbox[Target(AskOf(b))] => worker[b] = "none"
        /\ worker[b] \in {"none", "queued", "open"} => fulfilled[b] = 0 /\ b \notin freed
        /\ b \in fnfs[b.dest] <=> worker[b] # "none" /\ b \notin freed
    BY <1>4 DEF RepliesSound
  <2>3. worker'[AskOf(b)] \in {"none", "queued"} => worker[AskOf(b)] \in {"none", "queued"}
    BY <2>1 DEF HandlerMoves
  <2>4. CASE b \in made
    <3>1. worker[b] = "none" /\ worker'[b] = "queued" /\ b.dest = n
      BY <2>4
    <3>2. b \notin freed' /\ fulfilled'[b] = 0
      BY <1>2, <1>4, <2>2, <3>1
    <3>3. b \in fnfs'[b.dest]
      BY <1>1, <2>4, <3>1
    <3> QED
      BY <2>3, <2>4, <3>1, <3>2, <3>3
  <2>5. CASE b \notin made
    <3>1. worker'[b] = "none" <=> worker[b] = "none"
      BY <1>4, <2>5
    <3>2. worker'[b] \in {"none", "queued", "open"} => worker[b] \in {"none", "queued", "open"}
      BY DEF HandlerMoves
    <3>3. b \in fnfs'[b.dest] <=> b \in fnfs[b.dest] /\ b \notin DoneFnfs(n)
      BY <1>1, <1>2, <2>1, <2>5
    <3>4. worker'[b] \in {"none", "queued", "open"} => fulfilled'[b] = 0 /\ b \notin freed'
      BY <1>2, <1>4, <2>2, <3>2
    <3>5. b \in fnfs'[b.dest] <=> worker'[b] # "none" /\ b \notin freed'
      BY <1>4, <2>2, <3>1, <3>3
    <3>6. worker'[b] # "none" => header'[b] = header'[AskOf(b)]
      BY <1>4, <2>2, <2>5, <3>1
    <3>7. AskOf(b) \in inbox'[Target(AskOf(b))] => worker'[b] = "none"
      BY <2>1, <2>2, <3>1
    <3> QED
      BY <2>2, <2>3, <3>1, <3>4, <3>5, <3>6, <3>7
  <2> QED
    BY <2>4, <2>5
<1> QED
  BY <1>3, <1>4 DEF RepliesSound

\* No request is sent; what is written to a message comes from its JOB.
LEMMA ExchangesAfterHandling ==
  ASSUME TypeOK, ExchangesSound, HandlerMoves,
         \A m \in Nodes : inbox'[m] \subseteq inbox[m],
         \A b \in Buffers : result'[b] # "reply",
         lost' = lost,
         \A b \in Buffers : b.kind = "ask" =>
           \/ fulfilled'[b] = fulfilled[b] /\ received'[b] = received[b]
           \/ worker[ReplyTo(b)] \notin {"none", "queued"}
  PROVE  ExchangesSound'
<1>1. ASSUME NEW m \in Nodes, NEW b \in inbox'[m]
      PROVE  m = Target(b) /\ worker'[b] \notin {"none", "queued"}
  <2>1. b \in inbox[m] /\ b \in Buffers
    BY DEF TypeOK
  <2>2. m = Target(b) /\ worker[b] \notin {"none", "queued"}
    BY <2>1 DEF ExchangesSound
  <2> QED
    BY <2>1, <2>2 DEF HandlerMoves
<1>2. ASSUME NEW b \in Buffers, b \in lost'
      PROVE  worker'[b] \notin {"none", "queued", "open"}
  BY <1>2 DEF ExchangesSound, HandlerMoves
<1>3. ASSUME NEW b \in Buffers, b.kind = "ask"
      PROVE  /\ fulfilled'[b] # 0 /\ worker'[b] \in {"none", "queued", "open"}
                  => worker'[ReplyTo(b)] \notin {"none", "queued"}
             /\ received'[b] = "reply" => worker'[ReplyTo(b)] # "none"
  <2>1. ReplyTo(b) \in Buffers
    BY BufferPairs
  <2>2. /\ fulfilled[b] # 0 /\ worker[b] \in {"none", "queued", "open"}
             => worker[ReplyTo(b)] \notin {"none", "queued"}
        /\ received[b] = "reply" => worker[ReplyTo(b)] # "none"
    BY <1>3 DEF ExchangesSound
  <2>3. worker'[b] \in {"none", "queued", "open"} => worker[b] \in {"none", "queued", "open"}
    BY DEF HandlerMoves
  <2>4. /\ worker[ReplyTo(b)] \notin {"none", "queued"} => worker'[ReplyTo(b)] \notin {"none", "queued"}
        /\ worker[ReplyTo(b)] # "none" => worker'[ReplyTo(b)] # "none"
    BY <2>1 DEF HandlerMoves
  <2> QED
    BY <1>3, <2>2, <2>3, <2>4
<1> QED
  BY <1>1, <1>2, <1>3 DEF ExchangesSound

-----------------------------------------------------------------------------
(***************************************************************************)
(* What browsers were told.                                                *)
(***************************************************************************)

\* No worker goes back.
WorkersMoveOn ==
  \A b \in Buffers :
    /\ worker'[b] = "none" => worker[b] = "none"
    /\ worker'[b] \in {"none", "queued"} => worker[b] \in {"none", "queued"}
    /\ worker'[b] \in {"none", "queued", "open"} => worker[b] \in {"none", "queued", "open"}

\* What AnswersAreReal says of one answered call
AnswerIsReal(c) ==
  /\ {a[1] : a \in answer[c]} = ToSet(Dests[c])
  /\ \A a \in answer[c] : a[2] = "reply" => worker[ReplyTo(Ask(c, a[1]))] # "none"
  /\ Kind[c] = "broadcast" => AllHeardOf(c)

\* An answer that was given stays real while the workers move on.
LEMMA AnswersAfterStep ==
  ASSUME TypeOK, AsksSound, AnswersSound, WorkersMoveOn, NEW fresh \in SUBSET Calls,
         \A c \in Calls \ fresh :
           answer'[c] = answer[c] /\ (outcome'[c] = "answered" <=> outcome[c] = "answered"),
         \A c \in fresh : outcome'[c] = "answered" /\ AnswerIsReal(c)'
  PROVE  AnswersSound'
<1>1. ASSUME NEW c \in Calls, outcome'[c] = "answered"
      PROVE  AnswerIsReal(c)'
  <2>1. CASE c \in fresh
    BY <2>1
  <2>2. CASE c \notin fresh
    <3>1. outcome[c] = "answered" /\ answer'[c] = answer[c]
      BY <1>1, <2>2
    <3>2. AnswerIsReal(c)
      BY <3>1 DEF AnswersSound, AnswersAreReal, AnswerIsReal
    <3>3. {a[1] : a \in answer'[c]} = ToSet(Dests[c])
      BY <3>1, <3>2 DEF AnswerIsReal
    <3>4. ASSUME NEW a \in answer'[c], a[2] = "reply"
          PROVE  worker'[ReplyTo(Ask(c, a[1]))] # "none"
      <4>1. worker[ReplyTo(Ask(c, a[1]))] # "none"
        BY <3>1, <3>2, <3>4 DEF AnswerIsReal
      <4>2. a[1] \in ToSet(Dests[c])
        BY <3>3, <3>4
      <4>3. ReplyTo(Ask(c, a[1])) \in Buffers
        BY <4>2, MessagesOf, BufferPairs
      <4> QED
        BY <4>1, <4>3 DEF WorkersMoveOn
    <3>5. ASSUME Kind[c] = "broadcast", NEW m \in Messages(c), worker'[m] \in {"queued", "open"}
          PROVE  worker'[ReplyTo(m)] \notin {"none", "queued"}
      <4>1. m \in Buffers /\ m.kind = "ask" /\ m.call = c /\ ReplyTo(m) \in Buffers
        BY <3>5, MessagesOf, BufferPairs
      <4>2. worker[m] # "none"
        BY <3>1, <4>1 DEF AsksSound
      <4>3. worker[m] \in {"queued", "open"}
        BY <3>5, <4>1, <4>2 DEF WorkersMoveOn
      <4>4. worker[ReplyTo(m)] \notin {"none", "queued"}
        BY <3>2, <3>5, <4>3 DEF AnswerIsReal, AllHeardOf
      <4> QED
        BY <4>1, <4>4 DEF WorkersMoveOn
    <3> QED
      BY <3>3, <3>4, <3>5 DEF AnswerIsReal, AllHeardOf, Messages
  <2> QED
    BY <2>1, <2>2
<1>2. ASSUME NEW c \in Calls, outcome'[c] # "answered"
      PROVE  answer'[c] = {}
  BY <1>2 DEF AnswersSound
<1> QED
  BY <1>1, <1>2 DEF AnswersSound, AnswersAreReal, AnswerIsReal

-----------------------------------------------------------------------------
(***************************************************************************)
(* The steps of fetch().                                                   *)
(***************************************************************************)

\* What a worker may do to the state around its buffer
LEMMA WorkerStep ==
  ASSUME Inv, NEW b \in Buffers, NEW s \in {"open", "closed", "fulfilled", "finished"},
         worker[b] # "none", s = "open" => worker[b] = "queued",
         worker' = [worker EXCEPT ![b] = s],
         \A n \in Nodes : \A a \in inbox'[n] :
           a \in inbox[n] \/ (s = "open" /\ a = b /\ n = Target(b)),
         \A a \in Buffers :
           /\ fulfilled'[a] = fulfilled[a] \/ (a = b /\ s # "open")
           /\ received'[a] = received[a] \/ received'[a] = result[a]
           /\ result'[a] # "reply",
         lost' \subseteq lost \cup (IF s = "open" THEN {} ELSE {b}),
         UNCHANGED Node, TypeOK'
  PROVE  Inv'
<1>1. TypeOK /\ BrokersSound /\ AsksSound /\ RepliesSound /\ ExchangesSound /\ AnswersSound
  BY DEF Inv
<1>2. /\ \A a \in Buffers : worker'[a] = IF a = b THEN s ELSE worker[a]
      /\ \A a \in Buffers : worker'[a] = "none" <=> worker[a] = "none"
      /\ \A a \in Buffers : worker'[a] \in {"none", "queued"} => worker[a] \in {"none", "queued"}
      /\ \A a \in Buffers : worker'[a] \in {"none", "queued", "open"}
                              => worker[a] \in {"none", "queued", "open"}
  BY <1>1 DEF TypeOK
<1>3. WorkersMoveOn
  BY <1>2 DEF WorkersMoveOn
<1>4. ticketId' = ticketId /\ header' = header /\ brokers' = brokers /\ fnfs' = fnfs
      /\ freed' = freed /\ outcome' = outcome /\ answer' = answer
  BY DEF Node
<1>5. BrokersSound'
  BY <1>1, <1>4 DEF BrokersSound
<1>6. AsksSound'
  BY <1>1, <1>2, <1>4 DEF AsksSound
<1>7. RepliesSound'
  <2>1. ASSUME NEW a \in Buffers, a.kind = "reply"
        PROVE  /\ worker'[a] # "none" => header'[a] = header'[AskOf(a)]
               /\ worker'[AskOf(a)] \in {"none", "queued"} => worker'[a] = "none"
               /\ AskOf(a) \in inbox'[Target(AskOf(a))] => worker'[a] = "none"
               /\ worker'[a] \in {"none", "queued", "open"} => fulfilled'[a] = 0 /\ a \notin freed'
               /\ a \in fnfs'[a.dest] <=> worker'[a] # "none" /\ a \notin freed'
    <3>1. AskOf(a) \in Buffers /\ Target(AskOf(a)) \in Nodes
      BY BufferPairs
    <3>2. /\ worker[a] # "none" => header[a] = header[AskOf(a)]
          /\ worker[AskOf(a)] \in {"none", "queued"} => worker[a] = "none"
          /\ AskOf(a) \in inbox[Target(AskOf(a))] => worker[a] = "none"
          /\ worker[a] \in {"none", "queued", "open"} => fulfilled[a] = 0 /\ a \notin freed
          /\ a \in fnfs[a.dest] <=> worker[a] # "none" /\ a \notin freed
      BY <1>1, <2>1 DEF RepliesSound
    <3>3. AskOf(a) \in inbox'[Target(AskOf(a))] => worker[a] = "none"
      BY <3>1, <3>2
    <3>4. worker'[a] \in {"none", "queued", "open"} => fulfilled'[a] = 0 /\ a \notin freed'
      BY <1>2, <1>4, <3>2
    <3> QED
      BY <1>2, <1>4, <3>1, <3>2, <3>3, <3>4
  <2>2. \A n \in Nodes : \A a \in fnfs'[n] : a.kind = "reply" /\ a.dest = n
    BY <1>1, <1>4 DEF RepliesSound
  <2> QED
    BY <2>1, <2>2 DEF RepliesSound
<1>8. ExchangesSound'
  <2>1. ASSUME NEW n \in Nodes, NEW a \in inbox'[n]
        PROVE  n = Target(a) /\ worker'[a] \notin {"none", "queued"}
    <3>1. CASE a \in inbox[n]
      BY <1>1, <1>2, <3>1 DEF ExchangesSound, TypeOK
    <3>2. CASE s = "open" /\ a = b /\ n = Target(b)
      BY <1>2, <3>2
    <3> QED
      BY <3>1, <3>2
  <2>2. ASSUME NEW a \in Buffers, a \in lost'
        PROVE  worker'[a] \notin {"none", "queued", "open"}
    BY <1>1, <1>2, <2>2 DEF ExchangesSound
  <2>3. ASSUME NEW a \in Buffers, a.kind = "ask"
        PROVE  /\ fulfilled'[a] # 0 /\ worker'[a] \in {"none", "queued", "open"}
                    => worker'[ReplyTo(a)] \notin {"none", "queued"}
               /\ received'[a] = "reply" => worker'[ReplyTo(a)] # "none"
    <3>1. ReplyTo(a) \in Buffers
      BY BufferPairs
    <3>2. /\ fulfilled[a] # 0 /\ worker[a] \in {"none", "queued", "open"}
               => worker[ReplyTo(a)] \notin {"none", "queued"}
          /\ received[a] = "reply" => worker[ReplyTo(a)] # "none"
          /\ result[a] # "reply"
      BY <1>1, <2>3 DEF ExchangesSound
    <3>3. ASSUME fulfilled'[a] # 0, worker'[a] \in {"none", "queued", "open"}
          PROVE  worker'[ReplyTo(a)] \notin {"none", "queued"}
      BY <1>2, <3>1, <3>2, <3>3
    <3> QED
      BY <1>2, <3>1, <3>2, <3>3
  <2> QED
    BY <2>1, <2>2, <2>3 DEF ExchangesSound
<1>9. AnswersSound'
  <2>1. {} \in SUBSET Calls
    OBVIOUS
  <2>2. \A c \in Calls \ {} :
          answer'[c] = answer[c] /\ (outcome'[c] = "answered" <=> outcome[c] = "answered")
    BY <1>4
  <2>3. \A c \in {} : outcome'[c] = "answered" /\ AnswerIsReal(c)'
    OBVIOUS
  <2> QED
    BY <1>1, <1>3, <2>1, <2>2, <2>3, AnswersAfterStep
<1> QED
  BY <1>5, <1>6, <1>7, <1>8, <1>9 DEF Inv

LEMMA FetchInv ==
  ASSUME Inv, NEW b \in Buffers, Fetch(b) \/ Hangup(b) \/ GiveUp(b)
  PROVE  Inv'
<1>1. /\ TypeOK /\ ExchangesSound
      /\ \A a \in Buffers : result[a] # "reply"
      /\ Target(b) \in Nodes
  BY BufferPairs DEF Inv, ExchangesSound
<1>2. CASE Connect(b)
  <2>1. TypeOK'
    BY <1>1, <1>2 DEF Connect, TypeOK, WorkerStates, Node
  <2>2. \A n \in Nodes : \A a \in inbox'[n] : a \in inbox[n] \/ (a = b /\ n = Target(b))
    BY <1>1, <1>2 DEF Connect, TypeOK
  <2> QED
    BY <1>1, <1>2, <2>1, <2>2, WorkerStep DEF Connect
<1>3. CASE ConnectFails(b)
  <2>1. /\ result' \in [Buffers -> Contents] /\ fulfilled' \in [Buffers -> 0..2]
        /\ \A a \in Buffers : fulfilled'[a] = fulfilled[a] \/ a = b
        /\ \A a \in Buffers : result'[a] # "reply"
    <3>1. CASE result' = [result EXCEPT ![b] = "failed"] /\ fulfilled' = [fulfilled EXCEPT ![b] = 2]
      <4>1. result \in [Buffers -> Contents] /\ fulfilled \in [Buffers -> 0..2]
        BY <1>1 DEF TypeOK
      <4>2. result' \in [Buffers -> Contents] /\ \A a \in Buffers : result'[a] # "reply"
        BY <1>1, <3>1, <4>1 DEF Contents
      <4>3. fulfilled' \in [Buffers -> 0..2] /\ \A a \in Buffers : fulfilled'[a] = fulfilled[a] \/ a = b
        BY <3>1, <4>1
      <4> QED
        BY <4>2, <4>3
    <3>2. CASE UNCHANGED <<result, fulfilled>>
      BY <1>1, <3>2 DEF TypeOK
    <3> QED
      BY <1>3, <3>1, <3>2 DEF ConnectFails
  <2>2. /\ worker[b] = "queued" /\ worker' = [worker EXCEPT ![b] = "closed"]
        /\ lost' = lost \cup {b} /\ received' = received /\ inbox' = inbox /\ aged' = aged
        /\ dangling' = dangling /\ UNCHANGED Node
    BY <1>3 DEF ConnectFails
  <2>3. TypeOK'
    BY <1>1, <2>1, <2>2 DEF TypeOK, WorkerStates, Node
  <2> QED
    BY <1>1, <2>1, <2>2, <2>3, WorkerStep
<1>4. CASE StartDangling(b)
  <2>1. TypeOK'
    BY <1>1, <1>4 DEF StartDangling, TypeOK, WorkerStates, Node
  <2> QED
    BY <1>1, <1>4, <2>1, WorkerStep DEF StartDangling
<1>5. CASE SetFulfilled(b)
  <2>1. TypeOK'
    BY <1>1, <1>5 DEF SetFulfilled, TypeOK, WorkerStates, Node
  <2>2. \A a \in Buffers : fulfilled'[a] = fulfilled[a] \/ a = b
    BY <1>1, <1>5 DEF SetFulfilled, TypeOK
  <2> QED
    BY <1>1, <1>5, <2>1, <2>2, WorkerStep DEF SetFulfilled
<1>6. CASE SetReceived(b)
  <2>1. TypeOK'
    BY <1>1, <1>6 DEF SetReceived, TypeOK, WorkerStates, Node
  <2>2. \A a \in Buffers : received'[a] = received[a] \/ received'[a] = result[a]
    BY <1>1, <1>6 DEF SetReceived, TypeOK
  <2> QED
    BY <1>1, <1>6, <2>1, <2>2, WorkerStep DEF SetReceived
<1>7. CASE Hangup(b)
  <2>1. TypeOK'
    BY <1>1, <1>7 DEF Hangup, TypeOK, WorkerStates, Contents, Node
  <2>2. /\ \A n \in Nodes : inbox'[n] \subseteq inbox[n]
        /\ \A a \in Buffers : result'[a] # "reply"
    BY <1>1, <1>7 DEF Hangup, TypeOK
  <2>3. /\ worker[b] # "none" /\ worker' = [worker EXCEPT ![b] = "closed"]
        /\ \A n \in Nodes : \A a \in inbox'[n] : a \in inbox[n]
        /\ fulfilled' = fulfilled /\ received' = received
        /\ lost' \subseteq lost \cup {b} /\ UNCHANGED Node
    BY <1>7, <2>2 DEF Hangup
  <2> QED
    BY <2>1, <2>2, <2>3, WorkerStep
<1>8. CASE GiveUp(b)
  <2>1. TypeOK'
    BY <1>1, <1>8 DEF GiveUp, TypeOK, WorkerStates, Contents, Node
  <2>2. \A a \in Buffers : result'[a] # "reply"
    BY <1>1, <1>8 DEF GiveUp, TypeOK
  <2>3. /\ worker[b] # "none" /\ worker' = [worker EXCEPT ![b] = "closed"]
        /\ \A n \in Nodes : \A a \in inbox'[n] : a \in inbox[n]
        /\ fulfilled' = fulfilled /\ received' = received
        /\ lost' \subseteq lost \cup {b} /\ UNCHANGED Node
    BY <1>8 DEF GiveUp
  <2> QED
    BY <2>1, <2>2, <2>3, WorkerStep
<1> QED
  BY <1>2, <1>3, <1>4, <1>5, <1>6, <1>7, <1>8 DEF Fetch

\* The age of a message says nothing about who owns it.
LEMMA AgeInv ==
  ASSUME Inv, NEW c \in Calls, Age(c)
  PROVE  Inv'
<1>1. TypeOK'
  BY DEF Inv, Age, TypeOK, Node
<1>2. BrokersSound'
  BY DEF Inv, Age, BrokersSound, Node
<1>3. AsksSound'
  BY DEF Inv, Age, AsksSound, Node
<1>4. RepliesSound'
  BY DEF Inv, Age, RepliesSound, Node
<1>5. ExchangesSound'
  BY DEF Inv, Age, ExchangesSound, Node
<1>6. AnswersSound'
  BY DEF Inv, Age, AnswersSound, AnswersAreReal, AllHeardOf, Node
<1> QED
  BY <1>1, <1>2, <1>3, <1>4, <1>5, <1>6 DEF Inv

-----------------------------------------------------------------------------
(***************************************************************************)
(* The handlers.                                                           *)
(***************************************************************************)

\* The calls of n whose tickets are in gone end, answered or not, and no others.
CallsEnd(n, gone) ==
  /\ gone \in SUBSET DOMAIN brokers[n]
  /\ brokers' = [brokers EXCEPT ![n] = Without(n, gone)]
  /\ \A b \in Buffers : b \in freed' <=>
       b \in freed \/ b \in DoneFnfs(n) \/ (b.kind = "ask" /\ b.call \in CallsUnder(n, gone))
  /\ \A c \in Calls : IF c \in CallsUnder(n, gone)
                        THEN outcome'[c] \in {"answered", "timed_out"}
                        ELSE outcome'[c] = outcome[c]
  /\ \A c \in Calls : IF outcome'[c] = "answered" /\ outcome[c] # "answered"
                        THEN AnswerIsReal(c)'
                        ELSE answer'[c] = answer[c]
  /\ \A c \in Calls : IF c \in ExpiredCalls(n)
                        THEN outcome'[c] = "timed_out"
                        ELSE outcome'[c] \in {outcome[c], "answered"}

\* n sends the JOBs in made.
JobsMade(n, made) ==
  /\ made \in SUBSET Buffers
  /\ fnfs' = [fnfs EXCEPT ![n] = KeptFnfs(n) \cup made]
  /\ \A b \in made :
       /\ b.kind = "reply" /\ b.dest = n
       /\ worker[b] = "none" /\ worker'[b] = "queued"
       /\ header'[b] = header[AskOf(b)]
       /\ worker[AskOf(b)] \notin {"none", "queued"}
       /\ AskOf(b) \notin inbox'[Target(AskOf(b))]
  /\ \A b \in Buffers \ made :
       header'[b] = header[b] /\ (worker'[b] = "none" <=> worker[b] = "none")
  /\ \A m \in Nodes : ticketId[m] <= ticketId'[m]

\* Requests are only taken, and messages only written to by their JOB.
RequestsTaken ==
  /\ \A m \in Nodes : inbox'[m] \subseteq inbox[m]
  /\ \A b \in Buffers : result'[b] # "reply"
  /\ \A b \in Buffers : b.kind = "reply" => fulfilled'[b] = fulfilled[b]
  /\ \A b \in Buffers : b.kind = "ask" =>
       \/ fulfilled'[b] = fulfilled[b] /\ received'[b] = received[b]
       \/ worker[ReplyTo(b)] \notin {"none", "queued"}
  /\ lost' = lost

LEMMA HandlingInv ==
  ASSUME Inv, TypeOK', HandlerMoves, NEW n \in Nodes, NEW gone, NEW made,
         CallsEnd(n, gone), JobsMade(n, made), RequestsTaken
  PROVE  Inv'
<1>1. TypeOK /\ BrokersSound /\ AsksSound /\ RepliesSound /\ ExchangesSound /\ AnswersSound
  BY DEF Inv
<1>2. \A m \in Nodes : ticketId'[m] \in Nat /\ ticketId[m] <= ticketId'[m]
  BY DEF TypeOK, JobsMade
<1>3. \A b \in Buffers : b.kind = "ask" =>
        header'[b] = header[b] /\ (worker'[b] = "none" <=> worker[b] = "none")
  <2> SUFFICES ASSUME NEW b \in Buffers, b.kind = "ask"
               PROVE  header'[b] = header[b] /\ (worker'[b] = "none" <=> worker[b] = "none")
    OBVIOUS
  <2>1. b \notin made
    BY DEF JobsMade
  <2> QED
    BY <2>1 DEF JobsMade
<1>4. \A b \in Buffers : b.kind = "reply" => (b \in freed' <=> b \in freed \/ b \in DoneFnfs(n))
  BY DEF CallsEnd
<1>5. \A b \in Buffers : b.kind = "ask" =>
        (b \in freed' <=> b \in freed \/ b.call \in CallsUnder(n, gone))
  <2>1. \A b \in DoneFnfs(n) : b.kind = "reply"
    BY <1>1, CleanseFacts
  <2> QED
    BY <2>1 DEF CallsEnd
<1>6. \A c \in Calls : IF c \in CallsUnder(n, gone) THEN outcome'[c] # "open"
                                                    ELSE outcome'[c] = outcome[c]
  BY DEF CallsEnd
<1>7. BrokersSound'
  <2>1. \A b \in Buffers : b.kind = "ask" => header'[b] = header[b]
    BY <1>3
  <2> QED
    BY <1>1, <1>2, <1>6, <2>1, BrokersAfterClosing DEF CallsEnd
<1>8. AsksSound'
  <2>1. \A b \in Buffers : b.kind = "ask" =>
          /\ header'[b] = header[b]
          /\ worker'[b] = "none" <=> worker[b] = "none"
          /\ b \in freed' <=> b \in freed \/ b.call \in CallsUnder(n, gone)
    BY <1>3, <1>5
  <2> QED
    BY <1>1, <1>2, <2>1, AsksAfterClosing DEF CallsEnd
<1>9. RepliesSound'
  <2>1. ASSUME NEW b \in made
        PROVE  header'[b] = header'[AskOf(b)]
    <3>1. b \in Buffers
      BY DEF JobsMade
    <3>2. AskOf(b) \in Buffers /\ AskOf(b).kind = "ask"
      BY <3>1, BufferPairs
    <3> QED
      BY <1>3, <3>2 DEF JobsMade
  <2>2. ASSUME NEW b \in Buffers \ made, b.kind = "reply"
        PROVE  /\ worker'[b] = "none" <=> worker[b] = "none"
               /\ worker[b] # "none" => header'[b] = header[b] /\ header'[AskOf(b)] = header[AskOf(b)]
    <3>1. AskOf(b) \in Buffers /\ AskOf(b).kind = "ask"
      BY BufferPairs
    <3> QED
      BY <1>3, <2>2, <3>1 DEF JobsMade
  <2>3. \A b \in made :
           /\ b.kind = "reply" /\ b.dest = n
           /\ worker[b] = "none" /\ worker'[b] = "queued"
           /\ header'[b] = header'[AskOf(b)]
           /\ worker[AskOf(b)] \notin {"none", "queued"}
           /\ AskOf(b) \notin inbox'[Target(AskOf(b))]
    BY <2>1 DEF JobsMade
  <2>4. \A b \in Buffers : b.kind = "reply" =>
          /\ fulfilled'[b] = fulfilled[b]
          /\ b \in freed' <=> b \in freed \/ b \in DoneFnfs(n)
    BY <1>4 DEF RequestsTaken
  <2>5. /\ made \in SUBSET Buffers
        /\ fnfs' = [fnfs EXCEPT ![n] = KeptFnfs(n) \cup made]
        /\ \A m \in Nodes : inbox'[m] \subseteq inbox[m]
    BY DEF JobsMade, RequestsTaken
  <2> QED
    BY <1>1, <2>2, <2>3, <2>4, <2>5, RepliesAfterHandling
<1>10. ExchangesSound'
  BY <1>1, ExchangesAfterHandling DEF RequestsTaken
<1>11. AnswersSound'
  <2> DEFINE fresh == {c \in Calls : outcome'[c] = "answered" /\ outcome[c] # "answered"}
  <2>1. \A c \in CallsUnder(n, gone) : outcome[c] = "open"
    BY <1>1 DEF BrokersSound, CallsUnder, CallsEnd
  <2>2. WorkersMoveOn
    BY <1>1 DEF HandlerMoves, WorkersMoveOn
  <2>3. \A c \in Calls \ fresh :
          answer'[c] = answer[c] /\ (outcome'[c] = "answered" <=> outcome[c] = "answered")
    BY <2>1 DEF CallsEnd
  <2>4. \A c \in fresh : outcome'[c] = "answered" /\ AnswerIsReal(c)'
    BY DEF CallsEnd
  <2>5. fresh \in SUBSET Calls
    OBVIOUS
  <2> HIDE DEF fresh
  <2> QED
    BY <1>1, <2>2, <2>3, <2>4, <2>5, AnswersAfterStep
<1> QED
  BY <1>7, <1>8, <1>9, <1>10, <1>11 DEF Inv

\* cleanse ends the calls whose tickets it drops, and no others.
LEMMA CleanseStep ==
  ASSUME TypeOK, RepliesSound, NEW n \in Nodes,
         brokers' = [brokers EXCEPT ![n] = KeptBrokers(n)],
         freed' = freed \cup Cleansed(n), outcome' = TimedOut(n), answer' = answer
  PROVE  /\ CallsEnd(n, Expired(n))
         /\ freed' \subseteq Buffers
         /\ outcome' \in [Calls -> Outcomes]
<1>1. /\ Expired(n) \in SUBSET DOMAIN brokers[n]
      /\ KeptBrokers(n) = Without(n, Expired(n))
      /\ ExpiredCalls(n) = CallsUnder(n, Expired(n))
      /\ Cleansed(n) \subseteq Buffers
      /\ \A b \in Buffers : b \in Cleansed(n) <=>
           b \in DoneFnfs(n) \/ (b.kind = "ask" /\ b.call \in ExpiredCalls(n))
  BY CleanseFacts
<1>2. \A c \in Calls : outcome'[c] = IF c \in CallsUnder(n, Expired(n)) THEN "timed_out" ELSE outcome[c]
  BY <1>1 DEF TimedOut
<1>3. outcome' \in [Calls -> Outcomes]
  BY <1>1 DEF TimedOut, TypeOK, Outcomes
<1>4. freed' \subseteq Buffers
  BY <1>1 DEF TypeOK
<1>5. \A c \in Calls : IF outcome'[c] = "answered" /\ outcome[c] # "answered"
                         THEN AnswerIsReal(c)'
                         ELSE answer'[c] = answer[c]
  BY <1>2
<1>6. brokers' = [brokers EXCEPT ![n] = Without(n, Expired(n))]
  BY <1>1
<1>7. \A b \in Buffers : b \in freed' <=>
        b \in freed \/ b \in DoneFnfs(n) \/ (b.kind = "ask" /\ b.call \in CallsUnder(n, Expired(n)))
  BY <1>1
<1>8. \A c \in Calls : IF c \in ExpiredCalls(n) THEN outcome'[c] = "timed_out"
                                                ELSE outcome'[c] \in {outcome[c], "answered"}
  BY <1>1, <1>2
<1> QED
  BY <1>1, <1>2, <1>3, <1>4, <1>5, <1>6, <1>7, <1>8 DEF CallsEnd

\* The tickets that stay are numbers, and lead to calls.
LEMMA BrokersTyped ==
  ASSUME TypeOK, BrokersSound, NEW n \in Nodes, NEW gone \in SUBSET DOMAIN brokers[n],
         brokers' = [brokers EXCEPT ![n] = Without(n, gone)]
  PROVE  \A m \in Nodes : DOMAIN brokers'[m] \subseteq Nat /\ ToSet(brokers'[m]) \subseteq Calls
<1>1. \A m \in Nodes : brokers'[m] = IF m = n THEN Without(n, gone) ELSE brokers[m]
  BY DEF BrokersSound
<1>2. \A m \in Nodes : DOMAIN brokers[m] \subseteq Nat /\ \A t \in DOMAIN brokers[m] : brokers[m][t] \in Calls
  BY DEF TypeOK, ToSet
<1>3. DOMAIN Without(n, gone) \subseteq Nat /\ \A t \in DOMAIN Without(n, gone) :
                                           Without(n, gone)[t] \in Calls
  BY <1>2 DEF Without
<1> QED
  BY <1>1, <1>2, <1>3 DEF ToSet

\* drop_client reaches one worker, and hands others to the pool.
LEMMA DropFacts ==
  ASSUME TypeOK, NEW b \in Buffers, NEW content \in Contents, content # "reply",
         NEW started \in SUBSET Buffers,
         \A a \in started : worker[a] = "none", \A a \in Buffers : result[a] # "reply",
         Drop(b, content, started)
  PROVE  /\ worker' \in [Buffers -> WorkerStates] /\ result' \in [Buffers -> Contents]
         /\ HandlerMoves
         /\ \A a \in started : worker'[a] = "queued"
         /\ \A a \in Buffers \ started : worker'[a] = "none" <=> worker[a] = "none"
         /\ \A a \in Buffers : result'[a] # "reply"
<1>1. \A a \in Buffers : worker'[a] = IF a \in started THEN "queued"
                                      ELSE IF a = b /\ worker[b] = "open" THEN "closed"
                                      ELSE worker[a]
  BY DEF Drop
<1>2. worker' \in [Buffers -> WorkerStates]
  BY DEF Drop, TypeOK, WorkerStates
<1>3. result' \in [Buffers -> Contents] /\ \A a \in Buffers : result'[a] # "reply"
  BY DEF Drop, TypeOK, Contents
<1>4. HandlerMoves
  BY <1>1 DEF HandlerMoves
<1> QED
  BY <1>1, <1>2, <1>3, <1>4

LEMMA OtherRequestInv ==
  ASSUME Inv, NEW n \in Nodes, OtherRequest(n)
  PROVE  Inv' /\ \E gone : CallsEnd(n, gone)
<1>1. /\ TypeOK /\ BrokersSound /\ RepliesSound
      /\ \A a \in Buffers : result[a] # "reply"
  BY DEF Inv, ExchangesSound
<1>2. /\ brokers' = [brokers EXCEPT ![n] = KeptBrokers(n)]
      /\ fnfs' = [fnfs EXCEPT ![n] = KeptFnfs(n) \cup {}]
      /\ freed' = freed \cup Cleansed(n) /\ outcome' = TimedOut(n)
      /\ ticketId' = ticketId /\ header' = header /\ worker' = worker /\ result' = result
      /\ fulfilled' = fulfilled /\ received' = received /\ inbox' = inbox /\ aged' = aged
      /\ answer' = answer /\ lost' = lost /\ dangling' = dangling
  BY DEF OtherRequest
<1>3. CallsEnd(n, Expired(n)) /\ freed' \subseteq Buffers /\ outcome' \in [Calls -> Outcomes]
  BY <1>1, <1>2, CleanseStep
<1>4. TypeOK'
  <2>1. \A m \in Nodes : DOMAIN brokers'[m] \subseteq Nat /\ ToSet(brokers'[m]) \subseteq Calls
    BY <1>1, <1>3, BrokersTyped DEF CallsEnd
  <2>2. fnfs' \in [Nodes -> SUBSET Buffers]
    BY <1>1, <1>2 DEF TypeOK, KeptFnfs
  <2> QED
    BY <1>1, <1>2, <1>3, <2>1, <2>2 DEF TypeOK
<1>5. HandlerMoves
  BY <1>2 DEF HandlerMoves
<1>6. JobsMade(n, {})
  BY <1>1, <1>2 DEF JobsMade, TypeOK
<1>7. RequestsTaken
  BY <1>1, <1>2 DEF RequestsTaken
<1> QED
  BY <1>3, <1>4, <1>5, <1>6, <1>7, HandlingInv

LEMMA HandleAskInv ==
  ASSUME Inv, NEW n \in Nodes, NEW b \in Buffers, HandleAsk(n, b)
  PROVE  Inv' /\ \E gone : CallsEnd(n, gone)
<1> DEFINE r == ReplyTo(b)
<1>1. /\ TypeOK /\ BrokersSound /\ RepliesSound /\ ExchangesSound
      /\ \A a \in Buffers : result[a] # "reply"
  BY DEF Inv, ExchangesSound
<1>2. /\ b \in inbox[n] /\ b.kind = "ask"
      /\ brokers' = [brokers EXCEPT ![n] = KeptBrokers(n)]
      /\ fnfs' = [fnfs EXCEPT ![n] = KeptFnfs(n) \cup {r}]
      /\ freed' = freed \cup Cleansed(n) /\ outcome' = TimedOut(n)
      /\ ticketId' = [ticketId EXCEPT ![n] = @ + 1]
      /\ header' = [header EXCEPT ![r] = header[b]]
      /\ inbox' = [inbox EXCEPT ![n] = @ \ {b}]
      /\ \E content \in Contents : content # "reply" /\ Drop(b, content, {r})
      /\ fulfilled' = fulfilled /\ received' = received /\ aged' = aged
      /\ answer' = answer /\ lost' = lost /\ dangling' = dangling
  BY DEF HandleAsk, ReplyTicket, Contents
<1>3. /\ r \in Buffers /\ r.kind = "reply" /\ r.dest = n /\ AskOf(r) = b /\ n = Target(b)
      /\ worker[b] \notin {"none", "queued"}
      /\ worker[r] = "none"
  <2>1. r \in Buffers /\ r.kind = "reply" /\ AskOf(r) = b /\ r.dest = b.dest /\ Target(b) \in Nodes
    BY <1>2, BufferPairs
  <2>2. n = Target(b) /\ worker[b] \notin {"none", "queued"}
    BY <1>1, <1>2 DEF ExchangesSound
  <2>3. b.dest = n
    BY <1>2, <2>2 DEF Target
  <2>4. worker[r] = "none"
    BY <1>1, <1>2, <2>1, <2>2 DEF RepliesSound
  <2> QED
    BY <2>1, <2>2, <2>3, <2>4
<1> HIDE DEF r
<1>4. /\ worker' \in [Buffers -> WorkerStates] /\ result' \in [Buffers -> Contents]
      /\ HandlerMoves
      /\ worker'[r] = "queued"
      /\ \A a \in Buffers \ {r} : worker'[a] = "none" <=> worker[a] = "none"
      /\ \A a \in Buffers : result'[a] # "reply"
  <2>1. {r} \in SUBSET Buffers /\ \A a \in {r} : worker[a] = "none"
    BY <1>3
  <2>2. PICK content \in Contents : content # "reply" /\ Drop(b, content, {r})
    BY <1>2
  <2>3. \A a \in {r} : worker'[a] = "queued"
    BY <1>1, <2>1, <2>2, DropFacts
  <2> QED
    BY <1>1, <2>1, <2>2, <2>3, DropFacts
<1>5. CallsEnd(n, Expired(n)) /\ freed' \subseteq Buffers /\ outcome' \in [Calls -> Outcomes]
  BY <1>1, <1>2, CleanseStep
<1>6. /\ ticketId' \in [Nodes -> Nat]
      /\ \A m \in Nodes : ticketId[m] <= ticketId'[m]
  <2>1. ticketId \in [Nodes -> Nat]
    BY <1>1 DEF TypeOK
  <2> QED
    BY <1>2, <2>1
<1>7. TypeOK'
  <2>1. \A m \in Nodes : DOMAIN brokers'[m] \subseteq Nat /\ ToSet(brokers'[m]) \subseteq Calls
    BY <1>1, <1>5, BrokersTyped DEF CallsEnd
  <2>2. fnfs' \in [Nodes -> SUBSET Buffers]
    BY <1>1, <1>2, <1>3 DEF TypeOK, KeptFnfs
  <2>3. header' \in [Buffers -> Nat \cup {NoTicket}]
    BY <1>1, <1>2 DEF TypeOK
  <2>4. inbox' \in [Nodes -> SUBSET Buffers]
    BY <1>1, <1>2 DEF TypeOK
  <2> QED
    BY <1>1, <1>2, <1>4, <1>5, <1>6, <2>1, <2>2, <2>3, <2>4 DEF TypeOK
<1>8. JobsMade(n, {r})
  <2>1. b \notin inbox'[Target(b)]
    BY <1>1, <1>2, <1>3 DEF TypeOK
  <2>2. /\ header'[r] = header[b]
        /\ \A a \in Buffers \ {r} : header'[a] = header[a]
    BY <1>1, <1>2, <1>3 DEF TypeOK
  <2> QED
    BY <1>2, <1>3, <1>4, <1>6, <2>1, <2>2 DEF JobsMade
<1>9. RequestsTaken
  BY <1>1, <1>2, <1>4 DEF RequestsTaken, TypeOK
<1> QED
  BY <1>4, <1>5, <1>7, <1>8, <1>9, HandlingInv

\* A JOB whose ticket has a broker finds its own call there.
LEMMA JobTicket ==
  ASSUME Inv, NEW n \in Nodes, NEW b \in inbox[n], b.kind = "reply",
         header[b] \in DOMAIN KeptBrokers(n)
  PROVE  brokers[n][header[b]] = b.call
<1>1. TypeOK /\ BrokersSound /\ RepliesSound /\ ExchangesSound
  BY DEF Inv
<1>2. b \in Buffers /\ n = Target(b) /\ worker[b] \notin {"none", "queued"}
  BY <1>1 DEF ExchangesSound, TypeOK
<1>3. AskOf(b) \in Buffers /\ AskOf(b).kind = "ask" /\ AskOf(b).call = b.call
  BY <1>2, BufferPairs
<1>4. Caller[b.call] = n
  BY <1>2 DEF Target
<1>5. header[b] = header[AskOf(b)]
  BY <1>1, <1>2 DEF RepliesSound
<1>6. header[b] \in DOMAIN brokers[n]
  BY <1>1, CleanseFacts
<1> QED
  BY <1>1, <1>3, <1>4, <1>5, <1>6 DEF BrokersSound

\* Handling a JOB makes no buffer, wherever it leads.
LEMMA JobFacts ==
  ASSUME Inv, NEW n \in Nodes, NEW b \in inbox[n], b.kind = "reply",
         NEW content \in Contents, content # "reply", Drop(b, content, {}),
         inbox' = [inbox EXCEPT ![n] = @ \ {b}],
         fnfs' = [fnfs EXCEPT ![n] = KeptFnfs(n)],
         ticketId' = ticketId, header' = header
  PROVE  /\ b \in Buffers /\ worker[b] \notin {"none", "queued"} /\ worker'[b] # "none"
         /\ \A a \in Buffers : result'[a] # "reply"
         /\ HandlerMoves /\ JobsMade(n, {})
         /\ \A m \in Nodes : inbox'[m] \subseteq inbox[m]
         /\ worker' \in [Buffers -> WorkerStates] /\ result' \in [Buffers -> Contents]
         /\ inbox' \in [Nodes -> SUBSET Buffers] /\ fnfs' \in [Nodes -> SUBSET Buffers]
<1>1. TypeOK /\ BrokersSound /\ RepliesSound /\ ExchangesSound
  BY DEF Inv
<1>2. b \in Buffers /\ n = Target(b) /\ worker[b] \notin {"none", "queued"}
  BY <1>1 DEF ExchangesSound, TypeOK
<1>3. /\ worker' \in [Buffers -> WorkerStates] /\ result' \in [Buffers -> Contents]
      /\ HandlerMoves
      /\ \A a \in Buffers : worker'[a] = "none" <=> worker[a] = "none"
      /\ \A a \in Buffers : result'[a] # "reply"
  <2>1. {} \in SUBSET Buffers /\ \A a \in {} : worker[a] = "none"
    OBVIOUS
  <2>2. \A a \in Buffers : result[a] # "reply"
    BY <1>1 DEF ExchangesSound
  <2>3. \A a \in Buffers \ {} : worker'[a] = "none" <=> worker[a] = "none"
    BY <1>1, <1>2, <2>1, <2>2, DropFacts
  <2> QED
    BY <1>1, <1>2, <2>1, <2>2, <2>3, DropFacts
<1>4. /\ inbox' \in [Nodes -> SUBSET Buffers] /\ fnfs' \in [Nodes -> SUBSET Buffers]
      /\ \A m \in Nodes : inbox'[m] \subseteq inbox[m]
  BY <1>1 DEF TypeOK, KeptFnfs
<1>5. JobsMade(n, {})
  <2>1. fnfs' = [fnfs EXCEPT ![n] = KeptFnfs(n) \cup {}]
    OBVIOUS
  <2>2. \A m \in Nodes : ticketId[m] <= ticketId'[m]
    BY <1>1 DEF TypeOK
  <2> QED
    BY <1>3, <2>1, <2>2 DEF JobsMade
<1> QED
  BY <1>2, <1>3, <1>4, <1>5

LEMMA HandleStaleJobInv ==
  ASSUME Inv, NEW n \in Nodes, NEW b \in Buffers, HandleStaleJob(n, b)
  PROVE  Inv' /\ \E gone : CallsEnd(n, gone)
<1>1. TypeOK /\ BrokersSound /\ RepliesSound
  BY DEF Inv
<1>2. /\ b \in inbox[n] /\ b.kind = "reply"
      /\ \E content \in Contents : content # "reply" /\ Drop(b, content, {})
      /\ brokers' = [brokers EXCEPT ![n] = KeptBrokers(n)]
      /\ fnfs' = [fnfs EXCEPT ![n] = KeptFnfs(n)]
      /\ freed' = freed \cup Cleansed(n) /\ outcome' = TimedOut(n)
      /\ inbox' = [inbox EXCEPT ![n] = @ \ {b}]
      /\ ticketId' = ticketId /\ header' = header
      /\ fulfilled' = fulfilled /\ received' = received /\ aged' = aged
      /\ answer' = answer /\ lost' = lost /\ dangling' = dangling
  BY DEF HandleStaleJob, Contents
<1>3. /\ \A a \in Buffers : result'[a] # "reply"
      /\ HandlerMoves /\ JobsMade(n, {})
      /\ \A m \in Nodes : inbox'[m] \subseteq inbox[m]
      /\ worker' \in [Buffers -> WorkerStates] /\ result' \in [Buffers -> Contents]
      /\ inbox' \in [Nodes -> SUBSET Buffers] /\ fnfs' \in [Nodes -> SUBSET Buffers]
  BY <1>2, JobFacts
<1>4. CallsEnd(n, Expired(n)) /\ freed' \subseteq Buffers /\ outcome' \in [Calls -> Outcomes]
  BY <1>1, <1>2, CleanseStep
<1>5. TypeOK'
  <2>1. \A m \in Nodes : DOMAIN brokers'[m] \subseteq Nat /\ ToSet(brokers'[m]) \subseteq Calls
    BY <1>1, <1>4, BrokersTyped DEF CallsEnd
  <2> QED
    BY <1>1, <1>2, <1>3, <1>4, <2>1 DEF TypeOK
<1>6. RequestsTaken
  BY <1>2, <1>3 DEF RequestsTaken
<1> QED
  BY <1>3, <1>4, <1>5, <1>6, HandlingInv

\* fulfill ends one call more than cleanse, and tells the browser content.
LEMMA ResolveStep ==
  ASSUME Inv, NEW n \in Nodes, NEW t \in DOMAIN KeptBrokers(n), NEW c, brokers[n][t] = c,
         NEW content \in SUBSET (Nodes \X Contents), Resolve(n, t, content)
  PROVE  /\ c \in Calls /\ answer'[c] = content
         /\ AnswerIsReal(c)' => CallsEnd(n, Expired(n) \cup {t})
         /\ fnfs' = [fnfs EXCEPT ![n] = KeptFnfs(n)]
         /\ Expired(n) \cup {t} \in SUBSET DOMAIN brokers[n]
         /\ brokers' = [brokers EXCEPT ![n] = Without(n, Expired(n) \cup {t})]
         /\ freed' \subseteq Buffers /\ outcome' \in [Calls -> Outcomes]
         /\ answer' \in [Calls -> SUBSET (Nodes \X Contents)]
<1> DEFINE gone == Expired(n) \cup {t}
<1>1. TypeOK /\ BrokersSound /\ RepliesSound /\ AnswersSound
  BY DEF Inv
<1>2. /\ Expired(n) \in SUBSET DOMAIN brokers[n]
      /\ DOMAIN KeptBrokers(n) = DOMAIN brokers[n] \ Expired(n)
      /\ ExpiredCalls(n) = CallsUnder(n, Expired(n)) /\ ExpiredCalls(n) \subseteq Calls
      /\ Cleansed(n) \subseteq Buffers
      /\ \A b \in Buffers : b \in Cleansed(n) <=>
           b \in DoneFnfs(n) \/ (b.kind = "ask" /\ b.call \in ExpiredCalls(n))
  BY <1>1, CleanseFacts
<1>3. t \in DOMAIN brokers[n] /\ gone \in SUBSET DOMAIN brokers[n]
  BY <1>2
<1>4. c \in Calls /\ outcome[c] = "open" /\ answer[c] = {}
  <2>1. c \in Calls
    BY <1>1, <1>3 DEF TypeOK, ToSet
  <2>2. outcome[c] = "open"
    BY <1>1, <1>3 DEF BrokersSound
  <2> QED
    BY <1>1, <2>1, <2>2 DEF AnswersSound
<1>5. CallsUnder(n, gone) = ExpiredCalls(n) \cup {c}
  BY <1>2 DEF CallsUnder
<1>6. /\ Messages(c) \subseteq Buffers
      /\ \A b \in Buffers : b \in Messages(c) <=> b.kind = "ask" /\ b.call = c
  BY <1>4, MessagesOf
<1>7. /\ brokers' = [brokers EXCEPT ![n] = Without(n, gone)]
      /\ fnfs' = [fnfs EXCEPT ![n] = KeptFnfs(n)]
      /\ freed' = freed \cup Cleansed(n) \cup Messages(c)
      /\ outcome' = [TimedOut(n) EXCEPT ![c] = "answered"]
      /\ answer' = [answer EXCEPT ![c] = @ \cup content]
  BY DEF Resolve, Erased
<1> HIDE DEF gone
<1>8. \A k \in Calls : outcome'[k] = IF k = c THEN "answered"
                                     ELSE IF k \in ExpiredCalls(n) THEN "timed_out" ELSE outcome[k]
  BY <1>4, <1>7 DEF TimedOut
<1>9. \A k \in Calls : answer'[k] = IF k = c THEN content ELSE answer[k]
  BY <1>1, <1>4, <1>7 DEF TypeOK
<1>10. outcome' \in [Calls -> Outcomes]
  <2>1. TimedOut(n) \in [Calls -> Outcomes]
    BY <1>1 DEF TimedOut, TypeOK, Outcomes
  <2> QED
    BY <1>4, <1>7, <2>1 DEF Outcomes
<1>11. answer' \in [Calls -> SUBSET (Nodes \X Contents)]
  <2>1. answer \in [Calls -> SUBSET (Nodes \X Contents)]
    BY <1>1 DEF TypeOK
  <2> QED
    BY <1>4, <1>7, <2>1
<1>12. freed' \subseteq Buffers
  BY <1>1, <1>2, <1>6, <1>7 DEF TypeOK
<1>13. ASSUME AnswerIsReal(c)'
       PROVE  CallsEnd(n, gone)
  <2>1. \A b \in Buffers : b \in freed' <=>
          b \in freed \/ b \in DoneFnfs(n) \/ (b.kind = "ask" /\ b.call \in CallsUnder(n, gone))
    BY <1>2, <1>5, <1>6, <1>7
  <2>2. \A k \in Calls : IF k \in CallsUnder(n, gone)
                           THEN outcome'[k] \in {"answered", "timed_out"}
                           ELSE outcome'[k] = outcome[k]
    BY <1>5, <1>8
  <2>3. \A k \in Calls : IF outcome'[k] = "answered" /\ outcome[k] # "answered"
                           THEN AnswerIsReal(k)'
                           ELSE answer'[k] = answer[k]
    <3> SUFFICES ASSUME NEW k \in Calls
                 PROVE  IF outcome'[k] = "answered" /\ outcome[k] # "answered"
                          THEN AnswerIsReal(k)'
                          ELSE answer'[k] = answer[k]
      OBVIOUS
    <3>1. CASE k = c
      <4>1. outcome'[k] = "answered" /\ outcome[k] # "answered"
        BY <1>4, <1>8, <3>1
      <4> QED
        BY <1>13, <3>1, <4>1
    <3>2. CASE k # c
      BY <1>8, <1>9, <3>2
    <3> QED
      BY <3>1, <3>2
  <2>4. c \notin ExpiredCalls(n)
    BY <1>1, <1>2, <1>3 DEF BrokersSound, CallsUnder
  <2>5. \A k \in Calls : IF k \in ExpiredCalls(n) THEN outcome'[k] = "timed_out"
                                                  ELSE outcome'[k] \in {outcome[k], "answered"}
    BY <1>8, <2>4
  <2> QED
    BY <1>3, <1>7, <2>1, <2>2, <2>3, <2>5 DEF CallsEnd
<1> QED
  BY <1>3, <1>4, <1>7, <1>9, <1>10, <1>11, <1>12, <1>13 DEF gone

LEMMA HandleSimpleJobInv ==
  ASSUME Inv, NEW n \in Nodes, NEW b \in Buffers, HandleSimpleJob(n, b)
  PROVE  Inv' /\ \E gone : CallsEnd(n, gone)
<1>0. PICK t : t = header[b]
  OBVIOUS
<1> DEFINE content == {<<b.dest, "reply">>}
<1>1. TypeOK /\ BrokersSound
  BY DEF Inv
<1>2. /\ b \in inbox[n] /\ b.kind = "reply" /\ Kind[b.call] = "simple"
      /\ t \in DOMAIN KeptBrokers(n)
      /\ \E said \in Contents : said # "reply" /\ Drop(b, said, {})
      /\ Resolve(n, t, content)
      /\ inbox' = [inbox EXCEPT ![n] = @ \ {b}]
      /\ ticketId' = ticketId /\ header' = header
      /\ fulfilled' = fulfilled /\ received' = received /\ aged' = aged
      /\ lost' = lost /\ dangling' = dangling
  BY <1>0 DEF HandleSimpleJob, Contents
<1>3. b.call \in Calls /\ b.dest \in Nodes /\ b.dest \in ToSet(Dests[b.call])
      /\ ReplyTo(b) = b /\ ReplyTo(Ask(b.call, b.dest)) = b
  <2>1. /\ b.call \in Calls /\ b.dest \in Nodes /\ b.dest \in ToSet(Dests[b.call])
        /\ ReplyTo(b) = b /\ ReplyTo(AskOf(b)) = b
        /\ AskOf(b) \in Buffers /\ AskOf(b).kind = "ask" /\ AskOf(b).call = b.call
        /\ AskOf(b).dest = b.dest
    BY <1>2, BufferPairs
  <2>2. AskOf(b) = Ask(AskOf(b).call, AskOf(b).dest)
    BY <2>1, BufferPairs
  <2> QED
    BY <2>1, <2>2
<1>4. content \in SUBSET (Nodes \X Contents)
  <2>1. "reply" \in Contents
    BY DEF Contents
  <2> QED
    BY <1>3, <2>1
<1> HIDE DEF content
<1>5. brokers[n][t] = b.call
  BY <1>0, <1>2, JobTicket
<1>6. /\ answer'[b.call] = content
      /\ AnswerIsReal(b.call)' => CallsEnd(n, Expired(n) \cup {t})
      /\ fnfs' = [fnfs EXCEPT ![n] = KeptFnfs(n)]
      /\ Expired(n) \cup {t} \in SUBSET DOMAIN brokers[n]
      /\ brokers' = [brokers EXCEPT ![n] = Without(n, Expired(n) \cup {t})]
      /\ freed' \subseteq Buffers /\ outcome' \in [Calls -> Outcomes]
      /\ answer' \in [Calls -> SUBSET (Nodes \X Contents)]
  BY <1>2, <1>4, <1>5, ResolveStep
<1>7. /\ worker'[b] # "none"
      /\ \A a \in Buffers : result'[a] # "reply"
      /\ HandlerMoves /\ JobsMade(n, {})
      /\ \A m \in Nodes : inbox'[m] \subseteq inbox[m]
      /\ worker' \in [Buffers -> WorkerStates] /\ result' \in [Buffers -> Contents]
      /\ inbox' \in [Nodes -> SUBSET Buffers] /\ fnfs' \in [Nodes -> SUBSET Buffers]
  BY <1>2, <1>6, JobFacts
<1>8. TypeOK'
  <2>1. \A m \in Nodes : DOMAIN brokers'[m] \subseteq Nat /\ ToSet(brokers'[m]) \subseteq Calls
    BY <1>1, <1>6, BrokersTyped
  <2> QED
    BY <1>1, <1>2, <1>6, <1>7, <2>1 DEF TypeOK
<1>9. AnswerIsReal(b.call)'
  <2>1. ToSet(Dests[b.call]) = {b.dest}
    <3>1. Len(Dests[b.call]) = 1 /\ Dests[b.call] \in Seq(Nodes)
      BY <1>2, <1>3, CallAssumption
    <3>2. ToSet(Dests[b.call]) = {Dests[b.call][1]}
      BY <3>1, LenProperties DEF ToSet
    <3> QED
      BY <1>3, <3>2
  <2>2. answer'[b.call] = {<<b.dest, "reply">>}
    BY <1>6 DEF content
  <2>3. {a[1] : a \in answer'[b.call]} = {b.dest}
    BY <2>2
  <2>4. \A a \in answer'[b.call] : worker'[ReplyTo(Ask(b.call, a[1]))] # "none"
    BY <1>3, <1>7, <2>2
  <2>5. Kind[b.call] # "broadcast"
    BY <1>2
  <2> QED
    BY <2>1, <2>3, <2>4, <2>5 DEF AnswerIsReal
<1>10. RequestsTaken
  BY <1>2, <1>7 DEF RequestsTaken
<1> QED
  BY <1>6, <1>7, <1>8, <1>9, <1>10, HandlingInv

\* What a broadcast tells the browser is real: each message was fulfilled, by
\* its JOB or by the worker that is past its exchange.
LEMMA BroadcastAnswerReal ==
  ASSUME Inv, HandlerMoves, NEW b \in Buffers, b.kind = "reply",
         NEW c \in Calls, c = b.call, worker[b] \notin {"none", "queued"},
         AllFulfilled(c, FulfilledNow(c, b)),
         NEW content, \A a \in Messages(c) : content[a] = "reply" =>
           a \in FulfilledNow(c, b) \/ received[a] = "reply",
         answer'[c] = {<<a.dest, content[a]>> : a \in Messages(c)}
  PROVE  AnswerIsReal(c)'
<1>1. /\ TypeOK /\ AsksSound /\ ExchangesSound
      /\ \A k \in Messages(c) : k \in Buffers /\ k.kind = "ask" /\ k.call = c /\ k = Ask(c, k.dest)
  BY MessagesOf, BufferPairs DEF Inv
<1>2. \A a \in FulfilledNow(c, b) : ReplyTo(a) = b
  BY BufferPairs DEF FulfilledNow, Matches
<1>3. ASSUME NEW a \in Buffers, worker[a] \notin {"none", "queued"}
      PROVE  worker'[a] \notin {"none", "queued"}
  BY <1>3 DEF HandlerMoves
<1>4. {x[1] : x \in answer'[c]} = ToSet(Dests[c])
  <2>1. {x[1] : x \in answer'[c]} = {a.dest : a \in Messages(c)}
    <3>1. ASSUME NEW x \in answer'[c] PROVE x[1] \in {a.dest : a \in Messages(c)}
      OBVIOUS
    <3>2. ASSUME NEW a \in Messages(c) PROVE a.dest \in {x[1] : x \in answer'[c]}
      <4>1. <<a.dest, content[a]>> \in answer'[c] /\ <<a.dest, content[a]>>[1] = a.dest
        OBVIOUS
      <4> QED
        BY <4>1
    <3> QED
      BY <3>1, <3>2
  <2>2. {a.dest : a \in Messages(c)} = ToSet(Dests[c])
    BY <1>1, MessagesOf, BufferPairs
  <2> QED
    BY <2>1, <2>2
<1>5. ASSUME NEW x \in answer'[c], x[2] = "reply"
      PROVE  worker'[ReplyTo(Ask(c, x[1]))] # "none"
  <2>1. PICK a \in Messages(c) : x = <<a.dest, content[a]>>
    BY <1>5
  <2>2. a = Ask(c, x[1]) /\ content[a] = "reply" /\ ReplyTo(a) \in Buffers
    BY <1>1, <1>5, <2>1, BufferPairs
  <2>3. worker[ReplyTo(a)] # "none"
    BY <1>1, <1>2, <2>1, <2>2 DEF ExchangesSound
  <2> QED
    BY <2>2, <2>3 DEF HandlerMoves
<1>6. AllHeardOf(c)'
  <2> SUFFICES ASSUME NEW k \in Messages(c), worker'[k] \in {"queued", "open"}
               PROVE  worker'[ReplyTo(k)] \notin {"none", "queued"}
    BY DEF AllHeardOf, Messages
  <2>1. k \in Buffers /\ k.kind = "ask" /\ ReplyTo(k) \in Buffers
    BY <1>1, BufferPairs
  <2>2. CASE k \in FulfilledNow(c, b)
    BY <1>2, <1>3, <2>2
  <2>3. CASE fulfilled[k] # 0
    <3>1. worker[k] \in {"none", "queued", "open"}
      BY <2>1 DEF HandlerMoves
    <3> QED
      BY <1>1, <1>3, <2>1, <2>3, <3>1 DEF ExchangesSound
  <2> QED
    BY <2>2, <2>3 DEF AllFulfilled
<1> QED
  BY <1>4, <1>5, <1>6 DEF AnswerIsReal

LEMMA HandleBroadcastJobInv ==
  ASSUME Inv, NEW n \in Nodes, NEW b \in Buffers, HandleBroadcastJob(n, b)
  PROVE  Inv' /\ \E gone : CallsEnd(n, gone)
<1>0. PICK t : t = header[b]
  OBVIOUS
<1>1. /\ TypeOK /\ BrokersSound /\ RepliesSound
  BY DEF Inv
<1>2. /\ b \in inbox[n] /\ b.kind = "reply" /\ t \in DOMAIN KeptBrokers(n)
  BY <1>0 DEF HandleBroadcastJob
<1>3. PICK c \in Calls : c = b.call
  BY BufferPairs
<1>4. brokers[n][t] = c
  BY <1>0, <1>2, <1>3, JobTicket
<1>5. PICK now : now = FulfilledNow(c, b)
  OBVIOUS
<1>6. PICK content : content = [m \in Messages(c) |-> IF m \in now THEN "reply" ELSE received[m]]
  OBVIOUS
<1> DEFINE said == {<<a.dest, content[a]>> : a \in Messages(c)}
<1>7. /\ fulfilled' = [m \in Buffers |-> IF m \in now THEN 1 ELSE fulfilled[m]]
      /\ received' = [m \in Buffers |-> IF m \in now THEN "reply" ELSE received[m]]
      /\ inbox' = [inbox EXCEPT ![n] = @ \ {b}]
      /\ \E text \in Contents : text # "reply" /\ Drop(b, text, {})
      /\ ticketId' = ticketId /\ header' = header /\ aged' = aged
      /\ lost' = lost /\ dangling' = dangling
  BY <1>0, <1>4, <1>5 DEF HandleBroadcastJob, Contents
<1>8. \/ AllFulfilled(c, now) /\ Resolve(n, t, said)
      \/ /\ brokers' = [brokers EXCEPT ![n] = KeptBrokers(n)]
         /\ fnfs' = [fnfs EXCEPT ![n] = KeptFnfs(n)]
         /\ freed' = freed \cup Cleansed(n)
         /\ outcome' = TimedOut(n)
         /\ answer' = answer
  BY <1>0, <1>4, <1>5, <1>6 DEF HandleBroadcastJob
<1>9. \A a \in Messages(c) : a \in Buffers /\ a.kind = "ask" /\ a.dest \in Nodes
  BY MessagesOf, BufferPairs
<1>10. \A a \in now : a \in Messages(c) /\ a \in Buffers /\ a.kind = "ask" /\ ReplyTo(a) = b
  BY <1>2, <1>5, <1>9, BufferPairs DEF FulfilledNow, Matches
<1>11. "reply" \in Contents /\ 1 \in 0..2
  <2>1. "reply" \in Contents
    BY DEF Contents
  <2> QED
    BY <2>1
<1>12. said \in SUBSET (Nodes \X Contents)
  <2>1. \A a \in Messages(c) : content[a] \in Contents
    BY <1>1, <1>6, <1>9, <1>11 DEF TypeOK
  <2> QED
    BY <1>9, <2>1
<1>13. fulfilled' \in [Buffers -> 0..2] /\ received' \in [Buffers -> Contents]
  BY <1>1, <1>7, <1>11 DEF TypeOK
<1> HIDE DEF said
<1>14. fnfs' = [fnfs EXCEPT ![n] = KeptFnfs(n)]
  BY <1>8 DEF Resolve
<1>15. /\ worker[b] \notin {"none", "queued"}
       /\ \A a \in Buffers : result'[a] # "reply"
       /\ HandlerMoves /\ JobsMade(n, {})
       /\ \A m \in Nodes : inbox'[m] \subseteq inbox[m]
       /\ worker' \in [Buffers -> WorkerStates] /\ result' \in [Buffers -> Contents]
       /\ inbox' \in [Nodes -> SUBSET Buffers] /\ fnfs' \in [Nodes -> SUBSET Buffers]
  BY <1>2, <1>7, <1>14, JobFacts
<1>16. RequestsTaken
  <2>1. \A a \in Buffers : a.kind = "reply" => fulfilled'[a] = fulfilled[a]
    BY <1>7, <1>10
  <2>2. \A a \in Buffers : a.kind = "ask" =>
          \/ fulfilled'[a] = fulfilled[a] /\ received'[a] = received[a]
          \/ worker[ReplyTo(a)] \notin {"none", "queued"}
    BY <1>7, <1>10, <1>15
  <2> QED
    BY <1>7, <1>15, <2>1, <2>2 DEF RequestsTaken
<1>17. ASSUME NEW gone, CallsEnd(n, gone), freed' \subseteq Buffers, outcome' \in [Calls -> Outcomes],
              answer' \in [Calls -> SUBSET (Nodes \X Contents)]
       PROVE  Inv' /\ \E over : CallsEnd(n, over)
  <2>1. \A m \in Nodes : DOMAIN brokers'[m] \subseteq Nat /\ ToSet(brokers'[m]) \subseteq Calls
    BY <1>1, <1>17, BrokersTyped DEF CallsEnd
  <2>2. TypeOK'
    BY <1>1, <1>7, <1>13, <1>15, <1>17, <2>1 DEF TypeOK
  <2> QED
    BY <1>15, <1>16, <1>17, <2>2, HandlingInv
<1>18. CASE AllFulfilled(c, now) /\ Resolve(n, t, said)
  <2>1. /\ answer'[c] = said
        /\ AnswerIsReal(c)' => CallsEnd(n, Expired(n) \cup {t})
        /\ freed' \subseteq Buffers /\ outcome' \in [Calls -> Outcomes]
        /\ answer' \in [Calls -> SUBSET (Nodes \X Contents)]
    BY <1>2, <1>4, <1>12, <1>18, ResolveStep
  <2>2. \A a \in Messages(c) : content[a] = "reply" =>
          a \in FulfilledNow(c, b) \/ received[a] = "reply"
    BY <1>5, <1>6
  <2>3. AnswerIsReal(c)'
    BY <1>2, <1>3, <1>5, <1>15, <1>18, <2>1, <2>2, BroadcastAnswerReal DEF said
  <2> QED
    BY <1>17, <2>1, <2>3
<1>19. CASE /\ brokers' = [brokers EXCEPT ![n] = KeptBrokers(n)]
            /\ fnfs' = [fnfs EXCEPT ![n] = KeptFnfs(n)]
            /\ freed' = freed \cup Cleansed(n)
            /\ outcome' = TimedOut(n)
            /\ answer' = answer
  <2>1. CallsEnd(n, Expired(n)) /\ freed' \subseteq Buffers /\ outcome' \in [Calls -> Outcomes]
    BY <1>1, <1>19, CleanseStep
  <2>2. answer' \in [Calls -> SUBSET (Nodes \X Contents)]
    BY <1>1, <1>19 DEF TypeOK
  <2> QED
    BY <1>17, <2>1, <2>2
<1> QED
  BY <1>8, <1>18, <1>19

\* A call takes a ticket that nothing bears yet, so it takes no broker's place.
LEMMA StartInv ==
  ASSUME Inv, NEW c \in Calls, Start(c)
  PROVE  Inv'
<1>1. TypeOK /\ BrokersSound /\ AsksSound /\ RepliesSound /\ ExchangesSound /\ AnswersSound
  BY DEF Inv
<1>2. PICK n \in Nodes : n = Caller[c]
  BY DestsAreNodes
<1>3. PICK t \in Nat : t = ticketId[n]
  BY <1>1 DEF TypeOK
<1>4. /\ Expired(n) \in SUBSET DOMAIN brokers[n]
      /\ KeptBrokers(n) = Without(n, Expired(n))
      /\ DOMAIN KeptBrokers(n) = DOMAIN brokers[n] \ Expired(n)
      /\ ExpiredCalls(n) = CallsUnder(n, Expired(n)) /\ ExpiredCalls(n) \subseteq Calls
      /\ \A b \in DoneFnfs(n) : b \in Buffers /\ b.kind = "reply"
      /\ Cleansed(n) \subseteq Buffers
      /\ \A b \in Buffers : b \in Cleansed(n) <=>
           b \in DoneFnfs(n) \/ (b.kind = "ask" /\ b.call \in ExpiredCalls(n))
  BY <1>1, CleanseFacts
<1>5. \A u \in DOMAIN brokers[n] : u < t /\ u # t
  <2> SUFFICES ASSUME NEW u \in DOMAIN brokers[n] PROVE u < t /\ u # t
    OBVIOUS
  <2>1. u < t /\ u \in Nat
    BY <1>1, <1>3 DEF BrokersSound, TypeOK
  <2> QED
    BY <2>1
<1>6. t \notin DOMAIN KeptBrokers(n)
  BY <1>4, <1>5
<1>7. outcome[c] = "none" /\ c \notin ExpiredCalls(n)
  <2>1. outcome[c] = "none"
    BY DEF Start
  <2> QED
    BY <1>1, <1>4, <2>1 DEF CallsUnder, BrokersSound
<1>8. /\ \A b \in Buffers : b \in Messages(c) <=> b.kind = "ask" /\ b.call = c
      /\ Messages(c) \subseteq Buffers
  BY MessagesOf
<1>9. /\ ticketId' = [ticketId EXCEPT ![n] = t + 1]
      /\ header' = [b \in Buffers |-> IF b \in Messages(c) THEN t ELSE header[b]]
      /\ brokers' = [brokers EXCEPT ![n] =
           [u \in DOMAIN KeptBrokers(n) \cup {t} |-> IF u = t THEN c ELSE KeptBrokers(n)[u]]]
      /\ worker' = [b \in Buffers |-> IF b \in Messages(c) THEN "queued" ELSE worker[b]]
      /\ fnfs' = [fnfs EXCEPT ![n] = KeptFnfs(n)]
      /\ freed' = freed \cup Cleansed(n)
      /\ outcome' = [TimedOut(n) EXCEPT ![c] = "open"]
      /\ result' = result /\ fulfilled' = fulfilled /\ received' = received /\ inbox' = inbox
      /\ aged' = aged /\ answer' = answer /\ lost' = lost /\ dangling' = dangling
  BY <1>2, <1>3, <1>6 DEF Start
<1>10. /\ DOMAIN brokers' = Nodes
       /\ \A m \in Nodes : m # n => brokers'[m] = brokers[m]
       /\ DOMAIN brokers'[n] = (DOMAIN brokers[n] \ Expired(n)) \cup {t}
       /\ brokers'[n][t] = c
       /\ \A u \in DOMAIN brokers[n] \ Expired(n) : brokers'[n][u] = brokers[n][u]
  BY <1>1, <1>4, <1>5, <1>9 DEF BrokersSound, Without
<1>11. \A k \in Calls : outcome'[k] = IF k = c THEN "open"
                                      ELSE IF k \in ExpiredCalls(n) THEN "timed_out" ELSE outcome[k]
  BY <1>9 DEF TimedOut
<1>12. /\ ticketId' \in [Nodes -> Nat] /\ ticketId'[n] = t + 1
       /\ \A m \in Nodes : ticketId[m] <= ticketId'[m]
  <2>1. ticketId \in [Nodes -> Nat]
    BY <1>1 DEF TypeOK
  <2> QED
    BY <1>3, <1>9, <2>1
<1>13. \A b \in Buffers : b.kind = "ask" /\ b.call = c => worker[b] = "none"
  BY <1>1, <1>7 DEF AsksSound
<1>14. HandlerMoves
  BY <1>8, <1>9, <1>13 DEF HandlerMoves
<1>15. TypeOK'
  <2>1. \A m \in Nodes : DOMAIN brokers'[m] \subseteq Nat /\ ToSet(brokers'[m]) \subseteq Calls
    <3>1. \A m \in Nodes : DOMAIN brokers[m] \subseteq Nat
                             /\ \A u \in DOMAIN brokers[m] : brokers[m][u] \in Calls
      BY <1>1 DEF TypeOK, ToSet
    <3>2. \A m \in Nodes : DOMAIN brokers'[m] \subseteq Nat
                             /\ \A u \in DOMAIN brokers'[m] : brokers'[m][u] \in Calls
      BY <1>4, <1>10, <3>1
    <3> QED
      BY <3>2 DEF ToSet
  <2>2. fnfs' \in [Nodes -> SUBSET Buffers]
    BY <1>1, <1>9 DEF TypeOK, KeptFnfs
  <2>3. header' \in [Buffers -> Nat \cup {NoTicket}]
    BY <1>1, <1>9 DEF TypeOK
  <2>4. worker' \in [Buffers -> WorkerStates]
    BY <1>1, <1>9 DEF TypeOK, WorkerStates
  <2>5. outcome' \in [Calls -> Outcomes]
    BY <1>1, <1>9 DEF TypeOK, Outcomes, TimedOut
  <2>6. freed' \subseteq Buffers
    BY <1>1, <1>4, <1>9 DEF TypeOK
  <2> QED
    BY <1>1, <1>9, <1>12, <2>1, <2>2, <2>3, <2>4, <2>5, <2>6 DEF TypeOK
<1>16. BrokersSound'
  <2>1. ASSUME NEW m \in Nodes, NEW u \in DOMAIN brokers'[m]
        PROVE  /\ u < ticketId'[m]
               /\ Caller[brokers'[m][u]] = m
               /\ outcome'[brokers'[m][u]] = "open"
               /\ \A v \in DOMAIN brokers'[m] : brokers'[m][v] = brokers'[m][u] => v = u
               /\ \A b \in Buffers : b.kind = "ask" /\ Caller[b.call] = m =>
                    (header'[b] = u <=> b.call = brokers'[m][u])
    <3>1. CASE m = n /\ u = t
      <4>1. \A v \in DOMAIN brokers[n] : brokers[n][v] # c
        BY <1>1, <1>2, <1>7 DEF BrokersSound
      <4>2. \A v \in DOMAIN brokers'[n] : brokers'[n][v] = c => v = t
        BY <1>10, <4>1
      <4>3. ASSUME NEW b \in Buffers, b.kind = "ask", Caller[b.call] = n
            PROVE  header'[b] = t <=> b.call = c
        <5>1. CASE b.call = c
          BY <1>8, <1>9, <4>3, <5>1
        <5>2. CASE b.call # c
          <6>1. header'[b] = header[b]
            BY <1>8, <1>9, <5>2
          <6>2. header[b] \in Nat \cup {NoTicket} /\ NoTicket \notin Nat
            BY <1>1, CallAssumption DEF TypeOK
          <6>3. header[b] # NoTicket => header[b] < t
            BY <1>1, <1>3, <4>3 DEF AsksSound
          <6>4. header[b] # t
            BY <6>2, <6>3
          <6> QED
            BY <5>2, <6>1, <6>4
        <5> QED
          BY <5>1, <5>2
      <4>4. t < t + 1
        OBVIOUS
      <4> QED
        BY <1>2, <1>10, <1>11, <1>12, <3>1, <4>2, <4>3, <4>4
    <3>2. CASE ~(m = n /\ u = t)
      <4>1. /\ u \in DOMAIN brokers[m] /\ brokers'[m][u] = brokers[m][u]
            /\ m = n => u \notin Expired(n)
        BY <1>10, <3>2
      <4>2. /\ u < ticketId[m] /\ Caller[brokers[m][u]] = m
            /\ outcome[brokers[m][u]] = "open" /\ brokers[m][u] \in Calls /\ u \in Nat
            /\ \A v \in DOMAIN brokers[m] : brokers[m][v] = brokers[m][u] => v = u
            /\ \A b \in Buffers : b.kind = "ask" /\ Caller[b.call] = m =>
                 (header[b] = u <=> b.call = brokers[m][u])
        BY <1>1, <4>1 DEF BrokersSound, TypeOK, ToSet
      <4>3. brokers[m][u] # c
        BY <1>7, <4>2
      <4>4. brokers[m][u] \notin ExpiredCalls(n)
        <5>1. ASSUME NEW v \in Expired(n), brokers[n][v] = brokers[m][u] PROVE FALSE
          <6>1. v \in DOMAIN brokers[n] /\ Caller[brokers[n][v]] = n
            BY <1>1, <1>4 DEF BrokersSound
          <6>2. m = n
            BY <4>2, <5>1, <6>1
          <6> QED
            BY <4>1, <4>2, <5>1, <6>1, <6>2
        <5> QED
          BY <1>4, <5>1 DEF CallsUnder
      <4>5. outcome'[brokers'[m][u]] = "open"
        BY <1>11, <4>1, <4>2, <4>3, <4>4
      <4>6. u < ticketId'[m]
        <5>1. ticketId[m] \in Nat /\ ticketId'[m] \in Nat /\ ticketId[m] <= ticketId'[m]
          BY <1>1, <1>12 DEF TypeOK
        <5> QED
          BY <4>2, <5>1
      <4>7. \A v \in DOMAIN brokers'[m] : brokers'[m][v] = brokers'[m][u] => v = u
        BY <1>10, <4>1, <4>2, <4>3
      <4>8. ASSUME NEW b \in Buffers, b.kind = "ask", Caller[b.call] = m
            PROVE  header'[b] = u <=> b.call = brokers'[m][u]
        <5>1. CASE b.call = c
          <6>1. header'[b] = t /\ m = n
            BY <1>2, <1>8, <1>9, <4>8, <5>1
          <6>2. u # t
            BY <3>2, <6>1
          <6> QED
            BY <4>1, <4>3, <5>1, <6>1, <6>2
        <5>2. CASE b.call # c
          <6>1. header'[b] = header[b]
            BY <1>8, <1>9, <5>2
          <6> QED
            BY <4>1, <4>2, <4>8, <6>1
        <5> QED
          BY <5>1, <5>2
      <4> QED
        BY <4>1, <4>2, <4>5, <4>6, <4>7, <4>8
    <3> QED
      BY <3>1, <3>2
  <2>2. ASSUME NEW k \in Calls, outcome'[k] = "open"
        PROVE  \E u \in DOMAIN brokers'[Caller[k]] : brokers'[Caller[k]][u] = k
    <3>1. CASE k = c
      BY <1>2, <1>10, <3>1
    <3>2. CASE k # c
      <4>1. outcome[k] = "open" /\ k \notin ExpiredCalls(n) /\ Caller[k] \in Nodes
        BY <1>11, <2>2, <3>2, DestsAreNodes
      <4>2. PICK u \in DOMAIN brokers[Caller[k]] : brokers[Caller[k]][u] = k
        BY <1>1, <4>1 DEF BrokersSound
      <4>3. Caller[k] = n => u \notin Expired(n)
        BY <1>4, <4>1, <4>2 DEF CallsUnder
      <4> QED
        BY <1>10, <4>1, <4>2, <4>3
    <3> QED
      BY <3>1, <3>2
  <2> QED
    BY <1>10, <2>1, <2>2 DEF BrokersSound
<1>17. AsksSound'
  <2> SUFFICES ASSUME NEW b \in Buffers, b.kind = "ask"
               PROVE  /\ header'[b] # NoTicket => header'[b] < ticketId'[Caller[b.call]]
                      /\ worker'[b] = "none" <=> outcome'[b.call] \in {"never", "none"}
                      /\ b \in freed' <=> outcome'[b.call] \in {"answered", "timed_out"}
    BY DEF AsksSound
  <2>1. /\ header[b] # NoTicket => header[b] < ticketId[Caller[b.call]]
        /\ worker[b] = "none" <=> outcome[b.call] \in {"never", "none"}
        /\ b \in freed <=> outcome[b.call] \in {"answered", "timed_out"}
        /\ b.call \in Calls /\ Caller[b.call] \in Nodes
        /\ header[b] \in Nat \cup {NoTicket}
    BY <1>1, BufferPairs DEF AsksSound, TypeOK
  <2>2. b \in Cleansed(n) <=> b.call \in ExpiredCalls(n)
    BY <1>4
  <2>3. CASE b.call = c
    <3>1. header'[b] = t /\ worker'[b] = "queued" /\ outcome'[c] = "open" /\ t < t + 1
      BY <1>8, <1>9, <1>11, <2>3
    <3>2. b \notin freed'
      BY <1>7, <1>9, <2>1, <2>2, <2>3
    <3> QED
      BY <1>2, <1>12, <2>3, <3>1, <3>2
  <2>4. CASE b.call # c
    <3>1. header'[b] = header[b] /\ worker'[b] = worker[b]
      BY <1>8, <1>9, <2>4
    <3>2. b.call \in ExpiredCalls(n) => outcome[b.call] = "open"
      BY <1>1, <1>4 DEF CallsUnder, BrokersSound
    <3>3. header[b] # NoTicket => header[b] < ticketId'[Caller[b.call]]
      <4>1. ticketId[Caller[b.call]] \in Nat /\ ticketId'[Caller[b.call]] \in Nat
            /\ ticketId[Caller[b.call]] <= ticketId'[Caller[b.call]]
        BY <1>1, <1>12, <2>1 DEF TypeOK
      <4> QED
        BY <2>1, <4>1
    <3>4. worker'[b] = "none" <=> outcome'[b.call] \in {"never", "none"}
      BY <1>11, <2>1, <2>4, <3>1, <3>2
    <3>5. b \in freed' <=> outcome'[b.call] \in {"answered", "timed_out"}
      BY <1>9, <1>11, <2>1, <2>2, <2>4, <3>2
    <3> QED
      BY <3>1, <3>3, <3>4, <3>5
  <2> QED
    BY <2>3, <2>4
<1>18. RepliesSound'
  <2> DEFINE made == {}
  <2>1. /\ made \in SUBSET Buffers
        /\ fnfs' = [fnfs EXCEPT ![n] = KeptFnfs(n) \cup made]
        /\ \A b \in made :
             /\ b.kind = "reply" /\ b.dest = n
             /\ worker[b] = "none" /\ worker'[b] = "queued"
             /\ header'[b] = header'[AskOf(b)]
             /\ worker[AskOf(b)] \notin {"none", "queued"}
             /\ AskOf(b) \notin inbox'[Target(AskOf(b))]
    BY <1>9
  <2> HIDE DEF made
  <2>2. ASSUME NEW b \in Buffers \ made, b.kind = "reply"
        PROVE  /\ worker'[b] = "none" <=> worker[b] = "none"
               /\ worker[b] # "none" => header'[b] = header[b] /\ header'[AskOf(b)] = header[AskOf(b)]
    <3>1. worker'[b] = worker[b] /\ header'[b] = header[b]
      BY <1>8, <1>9, <2>2
    <3>2. AskOf(b) \in Buffers /\ AskOf(b).kind = "ask"
      BY BufferPairs
    <3>3. ASSUME AskOf(b) \in Messages(c) PROVE worker[b] = "none"
      BY <1>1, <1>8, <1>13, <2>2, <3>2, <3>3 DEF RepliesSound
    <3> QED
      BY <1>9, <3>1, <3>2, <3>3
  <2>3. \A m \in Nodes : inbox'[m] \subseteq inbox[m]
    BY <1>9
  <2>4. \A b \in Buffers : b.kind = "reply" =>
          /\ fulfilled'[b] = fulfilled[b]
          /\ b \in freed' <=> b \in freed \/ b \in DoneFnfs(n)
    BY <1>4, <1>9
  <2> QED
    BY <1>1, <1>14, <2>1, <2>2, <2>3, <2>4, RepliesAfterHandling
<1>19. ExchangesSound'
  <2>1. /\ \A m \in Nodes : inbox'[m] \subseteq inbox[m]
        /\ \A b \in Buffers : result'[b] # "reply"
        /\ \A b \in Buffers : b.kind = "ask" =>
             \/ fulfilled'[b] = fulfilled[b] /\ received'[b] = received[b]
             \/ worker[ReplyTo(b)] \notin {"none", "queued"}
        /\ lost' = lost
    BY <1>1, <1>9 DEF ExchangesSound
  <2> QED
    BY <1>1, <1>14, <2>1, ExchangesAfterHandling
<1>20. AnswersSound'
  <2>1. WorkersMoveOn
    BY <1>14 DEF HandlerMoves, WorkersMoveOn
  <2>2. \A k \in ExpiredCalls(n) : outcome[k] = "open"
    BY <1>1, <1>4 DEF CallsUnder, BrokersSound
  <2>3. {} \in SUBSET Calls /\ \A k \in {} : outcome'[k] = "answered" /\ AnswerIsReal(k)'
    OBVIOUS
  <2>4. \A k \in Calls \ {} :
          answer'[k] = answer[k] /\ (outcome'[k] = "answered" <=> outcome[k] = "answered")
    BY <1>7, <1>9, <1>11, <2>2
  <2> QED
    BY <1>1, <2>1, <2>3, <2>4, AnswersAfterStep
<1> QED
  BY <1>15, <1>16, <1>17, <1>18, <1>19, <1>20 DEF Inv

-----------------------------------------------------------------------------
(***************************************************************************)
(* The loop of cleanse.                                                    *)
(***************************************************************************)

\* One run of the loop, on the messages s that are left
SweepStep(c, s, i) == IF i <= Len(s) /\ s[i] <= aged[c] THEN RemoveAt(s, i) ELSE s

\* The loop is well defined: each of its runs starts from what the last one left.
LEMMA SweepRuns ==
  ASSUME NEW c \in Calls
  PROVE  \E left : /\ Swept(c) = left[Len(Dests[c])]
                   /\ left[0] = [k \in 1..Len(Dests[c]) |-> k]
                   /\ \A i \in 1..Len(Dests[c]) : left[i] = SweepStep(c, left[i - 1], i)
<1> DEFINE n == Len(Dests[c])
           start == [k \in 1..n |-> k]
           Runs(m, f) == f = [i \in 0..m |-> IF i = 0 THEN start ELSE SweepStep(c, f[i - 1], i)]
           P == {m \in Nat : \E f : Runs(m, f)}
<1>1. n \in Nat
  BY CallAssumption, LenProperties
<1> HIDE DEF start
<1>2. 0 \in P
  <2>1. Runs(0, [i \in 0..0 |-> start])
    OBVIOUS
  <2> QED
    BY <2>1
<1>3. ASSUME NEW m \in P
      PROVE  m + 1 \in P
  <2>1. PICK f : Runs(m, f)
    BY <1>3
  <2> DEFINE g == [i \in 0..(m + 1) |-> IF i <= m THEN f[i] ELSE SweepStep(c, f[m], m + 1)]
  <2>2. m \in Nat /\ \A i \in 0..m : f[i] = IF i = 0 THEN start ELSE SweepStep(c, f[i - 1], i)
    BY <2>1
  <2>3. ASSUME NEW i \in 0..(m + 1)
        PROVE  g[i] = IF i = 0 THEN start ELSE SweepStep(c, g[i - 1], i)
    <3>1. CASE i = 0
      BY <2>1, <2>2, <3>1
    <3>2. CASE i # 0 /\ i <= m
      <4>1. f[i] = SweepStep(c, f[i - 1], i)
        BY <2>1, <2>2, <3>2
      <4>2. g[i] = f[i] /\ g[i - 1] = f[i - 1]
        BY <2>2, <3>2
      <4> QED
        BY <3>2, <4>1, <4>2
    <3>3. CASE i = m + 1
      <4>1. g[i] = SweepStep(c, f[m], m + 1) /\ g[i - 1] = f[m] /\ i # 0
        BY <2>2, <3>3
      <4> QED
        BY <3>3, <4>1
    <3> QED
      BY <2>2, <3>1, <3>2, <3>3
  <2>4. Runs(m + 1, g)
    <3>1. g = [i \in 0..(m + 1) |-> g[i]]
      OBVIOUS
    <3> HIDE DEF g
    <3> QED
      BY <2>3, <3>1
  <2> HIDE DEF g, Runs
  <2> QED
    BY <2>2, <2>4
<1>4. P = Nat
  <2> HIDE DEF P
  <2>1. P \subseteq Nat
    BY DEF P
  <2> QED
    BY <1>2, <1>3, <2>1, NatsBySteps
<1>5. \E f : Runs(n, f)
  BY <1>1, <1>4
<1> DEFINE left == CHOOSE f : Runs(n, f)
<1>6. Swept(c) = left[n]
  BY DEF Swept, SweepStep, start
<1>7. Runs(n, left)
  BY <1>5
<1> HIDE DEF left
<1>8. \A i \in 0..n : left[i] = IF i = 0 THEN start ELSE SweepStep(c, left[i - 1], i)
  BY <1>7
<1>9. left[0] = start /\ \A i \in 1..n : left[i] = SweepStep(c, left[i - 1], i)
  BY <1>1, <1>8
<1> QED
  BY <1>6, <1>9 DEF start

\* The one message of a call that is too old is erased, and its broker with it.
LEMMA SweptOfOne ==
  ASSUME NEW c \in Calls, Len(Dests[c]) = 1, aged[c] = 1
  PROVE  Swept(c) = <<>>
<1> DEFINE n == Len(Dests[c])
<1>1. PICK left : /\ Swept(c) = left[n]
                  /\ left[0] = [k \in 1..n |-> k]
                  /\ \A i \in 1..n : left[i] = SweepStep(c, left[i - 1], i)
  BY SweepRuns
<1>2. n = 1
  OBVIOUS
<1> HIDE DEF n
<1>3. left[0] \in Seq(Nat) /\ Len(left[0]) = 1 /\ left[0][1] = 1
  BY <1>1, <1>2
<1>4. left[1] = SweepStep(c, left[0], 1)
  BY <1>1, <1>2
<1>5. left[1] = RemoveAt(left[0], 1)
  <2>1. 1 <= Len(left[0]) /\ left[0][1] <= aged[c]
    BY <1>3
  <2> QED
    BY <1>4, <2>1 DEF SweepStep
<1>6. left[1] \in Seq(Nat) /\ Len(left[1]) = 0
  <2>1. 1 \in 1..Len(left[0])
    BY <1>3
  <2>2. left[1] \in Seq(Nat) /\ Len(left[1]) = Len(left[0]) - 1
    BY <1>3, <1>5, <2>1, RemoveAtFacts
  <2> QED
    BY <1>3, <2>2
<1> QED
  BY <1>1, <1>2, <1>6, EmptySeq

\* Of two messages or more one is always left, however old they are: the loop
\* skips the element after one that it erased.
LEMMA SweptOfMany ==
  ASSUME NEW c \in Calls, Len(Dests[c]) >= 2
  PROVE  Swept(c) # <<>>
<1> DEFINE n == Len(Dests[c])
<1>1. n \in Nat
  BY CallAssumption, LenProperties
<1>2. PICK left : /\ Swept(c) = left[n]
                  /\ left[0] = [k \in 1..n |-> k]
                  /\ \A i \in 1..n : left[i] = SweepStep(c, left[i - 1], i)
  BY SweepRuns
<1> DEFINE P == {m \in Nat : m <= n =>
                   left[m] \in Seq(Nat) /\ Len(left[m]) >= 1 /\ (m = 0 => Len(left[m]) = n)}
<1> HIDE DEF n
<1>3. 0 \in P
  <2>1. left[0] \in Seq(Nat) /\ Len(left[0]) = n
    BY <1>1, <1>2
  <2> QED
    BY <1>1, <2>1 DEF n
<1>4. ASSUME NEW m \in P
      PROVE  m + 1 \in P
  <2> SUFFICES ASSUME m + 1 <= n
               PROVE  left[m + 1] \in Seq(Nat) /\ Len(left[m + 1]) >= 1
    BY <1>4
  <2>1. /\ m \in Nat /\ left[m] \in Seq(Nat) /\ Len(left[m]) \in Nat
        /\ Len(left[m]) >= 1 /\ (m = 0 => Len(left[m]) = n)
    BY <1>1, <1>4, LenProperties
  <2>2. left[m + 1] = SweepStep(c, left[m], m + 1)
    BY <1>1, <1>2, <2>1
  <2>3. CASE m + 1 <= Len(left[m]) /\ left[m][m + 1] <= aged[c]
    <3>1. left[m + 1] = RemoveAt(left[m], m + 1)
      BY <2>2, <2>3 DEF SweepStep
    <3>2. m + 1 \in 1..Len(left[m])
      BY <2>1, <2>3
    <3>3. left[m + 1] \in Seq(Nat) /\ Len(left[m + 1]) = Len(left[m]) - 1
      BY <2>1, <3>1, <3>2, RemoveAtFacts
    <3>4. Len(left[m]) >= 2
      <4>1. CASE m = 0
        BY <2>1, <4>1 DEF n
      <4>2. CASE m # 0
        BY <2>1, <2>3, <4>2
      <4> QED
        BY <4>1, <4>2
    <3> QED
      BY <2>1, <3>3, <3>4
  <2>4. CASE ~(m + 1 <= Len(left[m]) /\ left[m][m + 1] <= aged[c])
    BY <2>1, <2>2, <2>4 DEF SweepStep
  <2> QED
    BY <2>3, <2>4
<1>5. P = Nat
  <2> HIDE DEF P
  <2>1. P \subseteq Nat
    BY DEF P
  <2> QED
    BY <1>3, <1>4, <2>1, NatsBySteps
<1>6. left[n] \in Seq(Nat) /\ Len(left[n]) >= 1
  BY <1>1, <1>5
<1> QED
  BY <1>2, <1>6

-----------------------------------------------------------------------------
(***************************************************************************)
(* The theorems.                                                           *)
(***************************************************************************)

LEMMA StepInv == ASSUME Inv, [Next]_vars PROVE Inv'
<1>1. CASE Next
  <2>1. ASSUME NEW c \in Calls, Start(c) \/ Age(c) PROVE Inv'
    BY <2>1, StartInv, AgeInv
  <2>2. ASSUME NEW n \in Nodes, OtherRequest(n) PROVE Inv'
    BY <2>2, OtherRequestInv
  <2>3. ASSUME NEW n \in Nodes, NEW b \in Buffers, Handle(n, b) PROVE Inv'
    BY <2>3, HandleAskInv, HandleStaleJobInv, HandleSimpleJobInv, HandleBroadcastJobInv DEF Handle
  <2>4. ASSUME NEW b \in Buffers, Fetch(b) \/ Hangup(b) \/ GiveUp(b) PROVE Inv'
    BY <2>4, FetchInv
  <2> QED
    BY <1>1, <2>1, <2>2, <2>3, <2>4 DEF Next
<1>2. CASE UNCHANGED vars
  <2>1. TypeOK'
    BY <1>2 DEF Inv, TypeOK, vars
  <2>2. BrokersSound'
    BY <1>2 DEF Inv, BrokersSound, vars
  <2>3. AsksSound'
    BY <1>2 DEF Inv, AsksSound, vars
  <2>4. RepliesSound'
    BY <1>2 DEF Inv, RepliesSound, vars
  <2>5. ExchangesSound'
    BY <1>2 DEF Inv, ExchangesSound, vars
  <2>6. AnswersSound'
    BY <1>2 DEF Inv, AnswersSound, AnswersAreReal, AllHeardOf, vars
  <2> QED
    BY <2>1, <2>2, <2>3, <2>4, <2>5, <2>6 DEF Inv
<1> QED
  BY <1>1, <1>2

LEMMA Invariance == Spec => []Inv
  BY InitInv, StepInv, PTL DEF Spec

\* What a step does to the outcomes: only handling a request ends a call.
LEMMA StepOutcomes ==
  ASSUME Inv, [Next]_vars
  PROVE  \/ \E n \in Nodes : /\ \E gone : CallsEnd(n, gone)
                             /\ \A m \in Nodes \ {n} : inbox'[m] = inbox[m]
         \/ /\ answer' = answer
            /\ \A c \in Calls : \/ outcome'[c] = outcome[c]
                                \/ outcome[c] = "none" /\ outcome'[c] = "open"
                                \/ /\ outcome[c] = "open" /\ outcome'[c] = "timed_out"
                                   /\ Swept(c) = <<>>
            /\ \A n \in Nodes : inbox[n] \subseteq inbox'[n] \/ lost' # lost
<1>1. TypeOK /\ BrokersSound /\ ExchangesSound /\ RepliesSound
  BY DEF Inv
<1>2. CASE Next
  <2>1. ASSUME NEW c \in Calls, Start(c)
        PROVE  /\ answer' = answer /\ inbox' = inbox
               /\ \A k \in Calls : \/ outcome'[k] = outcome[k]
                                   \/ outcome[k] = "none" /\ outcome'[k] = "open"
                                   \/ /\ outcome[k] = "open" /\ outcome'[k] = "timed_out"
                                      /\ Swept(k) = <<>>
    <3>1. PICK n \in Nodes : n = Caller[c]
      BY DestsAreNodes
    <3>2. /\ outcome[c] = "none" /\ outcome' = [TimedOut(n) EXCEPT ![c] = "open"]
          /\ answer' = answer /\ inbox' = inbox
      BY <2>1, <3>1 DEF Start
    <3>3. \A k \in Calls : outcome'[k] = IF k = c THEN "open"
                                         ELSE IF k \in ExpiredCalls(n) THEN "timed_out" ELSE outcome[k]
      BY <3>2 DEF TimedOut
    <3>4. \A k \in ExpiredCalls(n) : outcome[k] = "open" /\ Swept(k) = <<>>
      BY <1>1 DEF ExpiredCalls, Expired, BrokersSound
    <3> QED
      BY <3>2, <3>3, <3>4
  <2>2. ASSUME NEW c \in Calls, Age(c)
        PROVE  answer' = answer /\ outcome' = outcome /\ inbox' = inbox
    BY <2>2 DEF Age, Node
  <2>3. ASSUME NEW n \in Nodes, OtherRequest(n)
        PROVE  /\ \E gone : CallsEnd(n, gone)
               /\ \A m \in Nodes \ {n} : inbox'[m] = inbox[m]
    BY <2>3, OtherRequestInv DEF OtherRequest
  <2>4. ASSUME NEW n \in Nodes, NEW b \in Buffers, Handle(n, b)
        PROVE  /\ \E gone : CallsEnd(n, gone)
               /\ \A m \in Nodes \ {n} : inbox'[m] = inbox[m]
    <3>1. \E gone : CallsEnd(n, gone)
      BY <2>4, HandleAskInv, HandleStaleJobInv, HandleSimpleJobInv, HandleBroadcastJobInv DEF Handle
    <3>2. inbox' = [inbox EXCEPT ![n] = @ \ {b}]
      BY <2>4 DEF Handle, HandleAsk, HandleStaleJob, HandleSimpleJob, HandleBroadcastJob
    <3> QED
      BY <1>1, <3>1, <3>2 DEF TypeOK
  <2>5. ASSUME NEW b \in Buffers, Fetch(b)
        PROVE  answer' = answer /\ outcome' = outcome /\ \A n \in Nodes : inbox[n] \subseteq inbox'[n]
    <3>1. Target(b) \in Nodes
      BY BufferPairs
    <3>2. inbox' = inbox \/ inbox' = [inbox EXCEPT ![Target(b)] = @ \cup {b}]
      BY <2>5 DEF Fetch, Connect, ConnectFails, StartDangling, SetFulfilled, SetReceived
    <3>3. answer' = answer /\ outcome' = outcome
      BY <2>5 DEF Fetch, Connect, ConnectFails, StartDangling, SetFulfilled, SetReceived, Node
    <3> QED
      BY <1>1, <3>1, <3>2, <3>3 DEF TypeOK
  <2>6. ASSUME NEW b \in Buffers, Hangup(b)
        PROVE  answer' = answer /\ outcome' = outcome /\ lost' # lost
    <3>1. worker[b] = "open" /\ lost' = lost \cup {b} /\ answer' = answer /\ outcome' = outcome
      BY <2>6 DEF Hangup, Node
    <3>2. b \notin lost
      BY <1>1, <3>1 DEF ExchangesSound
    <3> QED
      BY <3>1, <3>2
  <2>7. ASSUME NEW b \in Buffers, GiveUp(b)
        PROVE  answer' = answer /\ outcome' = outcome /\ inbox' = inbox
    BY <2>7 DEF GiveUp, Node
  <2> QED
    BY <1>2, <2>1, <2>2, <2>3, <2>4, <2>5, <2>6, <2>7 DEF Next
<1>3. CASE UNCHANGED vars
  BY <1>3 DEF vars
<1> QED
  BY <1>2, <1>3

\* Every variable has its type in every reachable state: a ticket leads to a
\* call, and what fetch() and fulfill write to a buffer is one of the contents.
THEOREM TypeCorrect == Spec => []TypeOK
<1>1. Inv => TypeOK
  BY DEF Inv
<1> QED
  BY <1>1, Invariance, PTL

LEMMA InvOwnedOnce == ASSUME Inv PROVE OwnedOnce
<1> SUFFICES ASSUME NEW b \in Buffers, worker[b] # "none"
             PROVE  \/ b \in freed /\ Owners(b) = {}
                    \/ b \notin freed /\ \E o \in Owners(b) : Owners(b) = {o}
  BY DEF OwnedOnce
<1>1. TypeOK /\ BrokersSound /\ AsksSound /\ RepliesSound
  BY DEF Inv
<1>2. b.kind \in {"ask", "reply"} /\ b.call \in Calls /\ b.dest \in Nodes /\ Caller[b.call] \in Nodes
  BY BufferPairs
<1>3. \A o \in Owners(b) :
        \/ \E n \in Nodes : \E t \in DOMAIN brokers[n] :
             o = <<n, t>> /\ b.kind = "ask" /\ brokers[n][t] = b.call
        \/ \E n \in Nodes : o = <<n, NoTicket>> /\ b \in fnfs[n]
  <2>1. \A n \in Nodes : \A t \in DOMAIN brokers[n] : brokers[n][t] \in Calls
    BY <1>1 DEF TypeOK, ToSet
  <2>2. \A n \in Nodes : \A t \in DOMAIN brokers[n] : b \in Messages(brokers[n][t])
          => b.kind = "ask" /\ brokers[n][t] = b.call
    BY <2>1, MessagesOf
  <2> QED
    BY <2>2 DEF Owners
<1>4. \A n \in Nodes : \A t \in DOMAIN brokers[n] :
        b.kind = "ask" /\ brokers[n][t] = b.call => <<n, t>> \in Owners(b)
  <2>1. b.kind = "ask" => b \in Messages(b.call)
    BY <1>2, MessagesOf
  <2> QED
    BY <2>1 DEF Owners
<1>5. CASE b.kind = "ask"
  <2>1. \A n \in Nodes : b \notin fnfs[n]
    BY <1>1, <1>5 DEF RepliesSound
  <2>2. CASE outcome[b.call] = "open"
    <3>1. PICK t \in DOMAIN brokers[Caller[b.call]] : brokers[Caller[b.call]][t] = b.call
      BY <1>1, <1>2, <2>2 DEF BrokersSound
    <3>2. b \notin freed
      BY <1>1, <1>5, <2>2 DEF AsksSound
    <3>3. \A o \in Owners(b) : o = <<Caller[b.call], t>>
      <4>1. ASSUME NEW n \in Nodes, NEW u \in DOMAIN brokers[n], brokers[n][u] = b.call
            PROVE  n = Caller[b.call] /\ u = t
        BY <1>1, <3>1, <4>1 DEF BrokersSound
      <4> QED
        BY <1>3, <2>1, <4>1
    <3>4. <<Caller[b.call], t>> \in Owners(b)
      BY <1>2, <1>4, <1>5, <3>1
    <3> QED
      BY <3>2, <3>3, <3>4
  <2>3. CASE outcome[b.call] # "open"
    <3>1. b \in freed
      <4>1. outcome[b.call] \in {"answered", "timed_out"}
        BY <1>1, <1>2, <1>5, <2>3 DEF AsksSound, TypeOK, Outcomes
      <4> QED
        BY <1>1, <1>5, <4>1 DEF AsksSound
    <3>2. \A n \in Nodes : \A t \in DOMAIN brokers[n] : brokers[n][t] # b.call
      BY <1>1, <2>3 DEF BrokersSound
    <3> QED
      BY <1>3, <2>1, <3>1, <3>2
  <2> QED
    BY <2>2, <2>3
<1>6. CASE b.kind = "reply"
  <2>1. \A n \in Nodes : b \in fnfs[n] => n = b.dest
    BY <1>1 DEF RepliesSound
  <2>2. b \in fnfs[b.dest] <=> b \notin freed
    BY <1>1, <1>6 DEF RepliesSound
  <2>3. \A o \in Owners(b) : o = <<b.dest, NoTicket>> /\ b \in fnfs[b.dest]
    BY <1>3, <1>6, <2>1
  <2>4. b \in fnfs[b.dest] => <<b.dest, NoTicket>> \in Owners(b)
    BY <1>2 DEF Owners
  <2> QED
    BY <2>2, <2>3, <2>4
<1> QED
  BY <1>2, <1>5, <1>6

\* Every buffer that was created is deleted exactly once: cleanse, fulfill and
\* the replacing of a broker never delete the same buffer, and none forgets one.
THEOREM BuffersDeletedOnce == Spec => []OwnedOnce
  BY Invariance, InvOwnedOnce, PTL

\* A JOB finds the broker of the call it answers, and no other: open calls are
\* those that the ticket in the header of their messages leads to.
THEOREM TicketsLeadToCalls == Spec => []OpenCallsFindable
<1>1. ASSUME Inv PROVE OpenCallsFindable
  <2> SUFFICES ASSUME NEW c \in Calls
               PROVE  outcome[c] = "open" <=>
                        \E t \in DOMAIN brokers[Caller[c]] :
                          brokers[Caller[c]][t] = c /\ \A m \in Messages(c) : header[m] = t
    BY DEF OpenCallsFindable
  <2>1. BrokersSound /\ Caller[c] \in Nodes
    BY <1>1, DestsAreNodes DEF Inv
  <2>2. \A t \in DOMAIN brokers[Caller[c]] : brokers[Caller[c]][t] = c =>
          outcome[c] = "open" /\ \A m \in Messages(c) : header[m] = t
    BY <2>1, MessagesOf DEF BrokersSound
  <2>3. outcome[c] = "open" => \E t \in DOMAIN brokers[Caller[c]] : brokers[Caller[c]][t] = c
    BY <2>1 DEF BrokersSound
  <2> QED
    BY <2>2, <2>3
<1> QED
  BY <1>1, Invariance, PTL

\* cleanse deletes the buffer of a JOB only after the worker is past the
\* exchange that reads it.
THEOREM JobsOutliveExchange == Spec => []RepliesOutliveExchange
<1>1. ASSUME Inv PROVE RepliesOutliveExchange
  BY <1>1 DEF Inv, RepliesSound, RepliesOutliveExchange
<1> QED
  BY <1>1, Invariance, PTL

\* fulfill tells a browser something of each destination, a reply only of one
\* that made it, and nothing of a broadcast while a message is still out.
THEOREM BrowsersToldTheTruth == Spec => []AnswersAreReal
<1>1. Inv => AnswersAreReal
  BY DEF Inv, AnswersSound
<1> QED
  BY <1>1, Invariance, PTL

\* No step answers a call twice, lets it time out after its answer, or answers
\* one to a single destination that was too old when the JOB came.
THEOREM OutcomesKept == Spec => OutcomesAreFinal
<1>1. ASSUME Inv, [Next]_vars
      PROVE  \A c \in Calls : OutcomeKept(c) /\ LateJobRefused(c)
  <2> SUFFICES ASSUME NEW c \in Calls
               PROVE  OutcomeKept(c) /\ LateJobRefused(c)
    OBVIOUS
  <2>1. TypeOK /\ BrokersSound /\ Caller[c] \in Nodes
    BY <1>1, DestsAreNodes DEF Inv
  <2>2. CASE \E n \in Nodes : /\ \E gone : CallsEnd(n, gone)
                              /\ \A m \in Nodes \ {n} : inbox'[m] = inbox[m]
    <3>0. PICK n \in Nodes : /\ \E gone : CallsEnd(n, gone)
                             /\ \A m \in Nodes \ {n} : inbox'[m] = inbox[m]
      BY <2>2
    <3>1. PICK gone : CallsEnd(n, gone)
      BY <3>0
    <3>2. OutcomeKept(c)
      <4>1. \A k \in CallsUnder(n, gone) : outcome[k] = "open"
        BY <2>1, <3>1 DEF CallsEnd, CallsUnder, BrokersSound
      <4> QED
        BY <3>1, <4>1 DEF CallsEnd, OutcomeKept
    <3>3. ASSUME outcome[c] = "open", aged[c] = 1, Len(Dests[c]) = 1, RequestHandled(Caller[c])
          PROVE  outcome'[c] = "timed_out"
      <4>1. n = Caller[c]
        BY <2>1, <3>0, <3>3 DEF RequestHandled
      <4>2. PICK t \in DOMAIN brokers[n] : brokers[n][t] = c
        BY <2>1, <3>3, <4>1 DEF BrokersSound
      <4>3. Swept(c) = <<>>
        BY <3>3, SweptOfOne
      <4>4. c \in ExpiredCalls(n)
        BY <4>2, <4>3 DEF ExpiredCalls, Expired
      <4> QED
        BY <3>1, <4>4 DEF CallsEnd
    <3> QED
      BY <3>2, <3>3 DEF LateJobRefused
  <2>3. CASE /\ answer' = answer
             /\ \A k \in Calls : \/ outcome'[k] = outcome[k]
                                 \/ outcome[k] = "none" /\ outcome'[k] = "open"
                                 \/ /\ outcome[k] = "open" /\ outcome'[k] = "timed_out"
                                    /\ Swept(k) = <<>>
             /\ \A n \in Nodes : inbox[n] \subseteq inbox'[n] \/ lost' # lost
    <3>1. OutcomeKept(c)
      BY <2>3 DEF OutcomeKept
    <3>2. ~RequestHandled(Caller[c])
      BY <2>1, <2>3 DEF RequestHandled
    <3> QED
      BY <3>1, <3>2 DEF LateJobRefused
  <2> QED
    BY <1>1, <2>2, <2>3, StepOutcomes
<1> QED
  BY <1>1, Invariance, PTL DEF Spec, OutcomesAreFinal

\* A call to several destinations never times out, however old its messages
\* are: of them the loop of cleanse always leaves one.
ManyNeverTimeOut == \A c \in Calls : outcome[c] = "timed_out" => Len(Dests[c]) <= 1

\* "Async call timed out" never comes true of a broadcast to several nodes:
\* CallsTimeOut fails of every one of them, not only of those TLC tried.
THEOREM BroadcastsNeverTimeOut == Spec => []ManyNeverTimeOut
<1>1. Init => ManyNeverTimeOut
  BY DEF Init, ManyNeverTimeOut
<1>2. ASSUME Inv, ManyNeverTimeOut, [Next]_vars
      PROVE  ManyNeverTimeOut'
  <2> SUFFICES ASSUME NEW c \in Calls, outcome'[c] = "timed_out", outcome[c] # "timed_out"
               PROVE  Len(Dests[c]) <= 1
    BY <1>2 DEF ManyNeverTimeOut
  <2>1. Swept(c) = <<>>
    <3>1. ASSUME NEW n \in Nodes, NEW gone, CallsEnd(n, gone)
          PROVE  Swept(c) = <<>>
      <4>1. c \in ExpiredCalls(n)
        BY <3>1 DEF CallsEnd
      <4> QED
        BY <4>1 DEF ExpiredCalls, Expired
    <3> QED
      BY <1>2, <3>1, StepOutcomes
  <2>2. ~(Len(Dests[c]) >= 2) /\ Len(Dests[c]) \in Nat
    BY <2>1, SweptOfMany, CallAssumption, LenProperties
  <2> QED
    BY <2>2
<1> QED
  BY <1>1, <1>2, Invariance, PTL DEF Spec

=============================================================================
