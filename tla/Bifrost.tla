------------------------------ MODULE Bifrost ------------------------------
(***************************************************************************)
(* Asynchronous calls between nodes: core/src/message/bifrost.cc, the      *)
(* workers of core/src/server/fetch.cc and the part of the main loop of    *)
(* core/src/server/server.cc that hands requests to them.                  *)
(*                                                                         *)
(* A call (AsyncRPC, BroadcastAsyncRPC) takes a ticket, opens a broker     *)
(* with one MessageBuffer per destination and gives each buffer to a       *)
(* worker.  The destination answers with a second request, a JOB, whose    *)
(* buffer is "fire and forget".  Each node handles requests on one thread, *)
(* and every request first cleanses the brokers, so a handler is one       *)
(* action.  Workers run beside it and share the buffers with it.           *)
(***************************************************************************)
EXTENDS Naturals, Sequences, SequencesExt

CONSTANTS
  Nodes,
  Calls,           \* the requests of browsers that start a call
  Caller,          \* [Calls -> Nodes], the node that serves the request
  Kind,            \* [Calls -> {"simple", "broadcast"}]
  Dests,           \* [Calls -> Seq(Nodes)], where the call sends its messages
  Together,        \* sets of calls: the browsers make those of one of them
  NoTicket         \* the header of a buffer that was not created yet

ASSUME CallAssumption ==
  /\ NoTicket \notin Nat
  /\ Together \subseteq SUBSET Calls
  /\ Caller \in [Calls -> Nodes]
  /\ Kind \in [Calls -> {"simple", "broadcast"}]
  /\ \A c \in Calls :
       /\ Dests[c] \in Seq(Nodes)
       /\ Kind[c] = "simple" => Len(Dests[c]) = 1
       /\ \A i, k \in 1..Len(Dests[c]) : Dests[c][i] = Dests[c][k] => i = k

\* "ask" buffers carry a call to a destination, "reply" buffers the JOB back.
Buffers == UNION {[call : {c}, dest : ToSet(Dests[c]), kind : {"ask", "reply"}] : c \in Calls}

Ask(c, d) == [call |-> c, dest |-> d, kind |-> "ask"]
ReplyTo(b) == [b EXCEPT !.kind = "reply"]
AskOf(b) == [b EXCEPT !.kind = "ask"]

Messages(c) == {Ask(c, d) : d \in ToSet(Dests[c])}

\* The node a worker connects to, and the node it runs on.
Target(b) == IF b.kind = "ask" THEN b.dest ELSE Caller[b.call]
Home(b) == IF b.kind = "ask" THEN Caller[b.call] ELSE b.dest

VARIABLES
  ticketId,        \* the next ticket of each node, TICKET_ID + 1
  header,          \* the Ticket header of each buffer
  brokers,         \* the _brokers of each node: from tickets to calls
  fnfs,            \* the _fnfs of each node
  worker,          \* where fetch() is with each buffer
  result,          \* the local variable result of fetch()
  fulfilled,       \* the field of each buffer
  received,        \* the field of each buffer
  inbox,           \* requests that reached a node and wait for its main thread
  aged,            \* of each call, how many buffers are older than their timeout
  freed,           \* deleted buffers
  outcome,         \* what became of each call
  answer,          \* what the browser was told: pairs <<destination, content>>
  lost,            \* buffers whose request never reached its target
  dangling         \* buffers a worker used after they were deleted

vars == <<ticketId, header, brokers, fnfs, worker, result, fulfilled, received,
          inbox, aged, freed, outcome, answer, lost, dangling>>

\* "queued": in the thread pool or before connect_to_host.  "open": the request
\* was sent.  "closed": past the read loop.  "fulfilled": fulfilled was written
\* and received was not.
WorkerStates == {"none", "queued", "open", "closed", "fulfilled", "finished"}

\* "" stands for a connection closed without a response, "http" for the
\* response of serve_http, "failed" for the message of a connection that could
\* not be made, "reply" for the content of a JOB.
Contents == {"undefined", "", "http", "failed", "reply"}

\* A call that is "timed_out" was dropped by cleanse; "never" is made by nobody.
Outcomes == {"never", "none", "open", "answered", "timed_out"}

Init ==
  /\ ticketId = [n \in Nodes |-> 0]
  /\ header = [b \in Buffers |-> NoTicket]
  /\ brokers = [n \in Nodes |-> <<>>]
  /\ fnfs = [n \in Nodes |-> {}]
  /\ worker = [b \in Buffers |-> "none"]
  /\ result = [b \in Buffers |-> "undefined"]
  /\ fulfilled = [b \in Buffers |-> 0]
  /\ received = [b \in Buffers |-> "undefined"]
  /\ inbox = [n \in Nodes |-> {}]
  /\ aged = [c \in Calls |-> 0]
  /\ freed = {}
  /\ \E made \in Together : outcome = [c \in Calls |-> IF c \in made THEN "none" ELSE "never"]
  /\ answer = [c \in Calls |-> {}]
  /\ lost = {}
  /\ dangling = {}

-----------------------------------------------------------------------------
(***************************************************************************)
(* cleanse(), which every request that reaches a node runs first.          *)
(***************************************************************************)

\* One run of the loop of cleanse over the messages of a broker, from its i-th
\* element on: erase and i++ together skip the element after an erased one.
\* Messages are older the earlier they were sent, so the first k have timed out.
Swept(c) ==
  LET n == Len(Dests[c])
      left[i \in 0..n] ==
        IF i = 0 THEN [k \in 1..n |-> k]
        ELSE LET s == left[i - 1]
             IN IF i <= Len(s) /\ s[i] <= aged[c] THEN RemoveAt(s, i) ELSE s
  IN left[n]

NothingExpires(n) == {}

\* The tickets whose broker is erased: its copied list of messages is empty.
Expired(n) == {t \in DOMAIN brokers[n] : Swept(brokers[n][t]) = <<>>}

AllFnfs(n) == fnfs[n]

\* The buffers of _fnfs that are deleted
DoneFnfs(n) == {b \in fnfs[n] : fulfilled[b] # 0}

Without(n, tickets) == [t \in DOMAIN brokers[n] \ tickets |-> brokers[n][t]]

KeptBrokers(n) == Without(n, Expired(n))

KeptAllFnfs(n) == fnfs[n]

KeptFnfs(n) == fnfs[n] \ DoneFnfs(n)

ExpiredCalls(n) == {brokers[n][t] : t \in Expired(n)}

Cleansed(n) == DoneFnfs(n) \cup UNION {Messages(c) : c \in ExpiredCalls(n)}

\* What cleanse makes of the outcomes
TimedOut(n) == [c \in Calls |-> IF c \in ExpiredCalls(n) THEN "timed_out" ELSE outcome[c]]

-----------------------------------------------------------------------------
(***************************************************************************)
(* The main thread of a node.                                              *)
(***************************************************************************)

\* send_async and broadcast_async, called while the node serves a browser
Start(c) ==
  LET n == Caller[c]
      t == ticketId[n]
      replaced == IF t \in DOMAIN KeptBrokers(n) THEN Messages(KeptBrokers(n)[t]) ELSE {}
  IN /\ outcome[c] = "none"
     /\ ticketId' = [ticketId EXCEPT ![n] = t + 1]
     /\ header' = [b \in Buffers |-> IF b \in Messages(c) THEN t ELSE header[b]]
     /\ brokers' = [brokers EXCEPT ![n] =
          [u \in DOMAIN KeptBrokers(n) \cup {t} |-> IF u = t THEN c ELSE KeptBrokers(n)[u]]]
     /\ worker' = [b \in Buffers |-> IF b \in Messages(c) THEN "queued" ELSE worker[b]]
     /\ fnfs' = [fnfs EXCEPT ![n] = KeptFnfs(n)]
     /\ freed' = freed \cup Cleansed(n) \cup replaced
     /\ outcome' = [TimedOut(n) EXCEPT ![c] = "open"]
     /\ UNCHANGED <<result, fulfilled, received, inbox, aged, answer, lost, dangling>>

\* Any other request: only the cleansing is of interest.
OtherRequest(n) ==
  /\ Cleansed(n) # {} \/ Expired(n) # {}
  /\ brokers' = [brokers EXCEPT ![n] = KeptBrokers(n)]
  /\ fnfs' = [fnfs EXCEPT ![n] = KeptFnfs(n)]
  /\ freed' = freed \cup Cleansed(n)
  /\ outcome' = TimedOut(n)
  /\ UNCHANGED <<ticketId, header, worker, result, fulfilled, received, inbox,
                 aged, answer, lost, dangling>>

DropOnly(b, content, started) ==
  /\ worker' = [worker EXCEPT ![b] = IF @ = "open" THEN "closed" ELSE @]
  /\ result' = [result EXCEPT ![b] = IF worker[b] = "open" THEN content ELSE @]

KeepOpen(b, content, started) ==
  /\ worker' = [a \in Buffers |-> IF a \in started THEN "queued" ELSE worker[a]]
  /\ UNCHANGED result

\* drop_client closes the connection the worker of b reads from: it gets what
\* was written to it, content, unless it has given up before.  The workers of
\* started were handed to the pool.
Drop(b, content, started) ==
  /\ worker' = [a \in Buffers |-> CASE a \in started -> "queued"
                                   [] a = b /\ worker[b] = "open" -> "closed"
                                   [] OTHER -> worker[a]]
  /\ result' = [result EXCEPT ![b] = IF worker[b] = "open" THEN content ELSE @]

PreviousTicket(n, b) == header[b] - 1

\* The ticket a JOB carries back
ReplyTicket(n, b) == header[b]

\* AsyncJob and BroadcastAsyncJob: reply() makes a buffer of its own, whose
\* constructor takes a ticket as its id.
HandleAsk(n, b) ==
  /\ b \in inbox[n]
  /\ b.kind = "ask"
  /\ inbox' = [inbox EXCEPT ![n] = @ \ {b}]
  /\ ticketId' = [ticketId EXCEPT ![n] = @ + 1]
  /\ header' = [header EXCEPT ![ReplyTo(b)] = ReplyTicket(n, b)]
  /\ brokers' = [brokers EXCEPT ![n] = KeptBrokers(n)]
  /\ fnfs' = [fnfs EXCEPT ![n] = KeptFnfs(n) \cup {ReplyTo(b)}]
  /\ freed' = freed \cup Cleansed(n)
  /\ outcome' = TimedOut(n)
  /\ Drop(b, "", {ReplyTo(b)})
  /\ UNCHANGED <<fulfilled, received, aged, answer, lost, dangling>>

\* A JOB whose ticket has no broker: fulfill returns 0.
HandleStaleJob(n, b) ==
  /\ b \in inbox[n]
  /\ b.kind = "reply"
  /\ header[b] \notin DOMAIN KeptBrokers(n)
  /\ inbox' = [inbox EXCEPT ![n] = @ \ {b}]
  /\ brokers' = [brokers EXCEPT ![n] = KeptBrokers(n)]
  /\ fnfs' = [fnfs EXCEPT ![n] = KeptFnfs(n)]
  /\ freed' = freed \cup Cleansed(n)
  /\ outcome' = TimedOut(n)
  /\ Drop(b, "", {})
  /\ UNCHANGED <<ticketId, header, fulfilled, received, aged, answer, lost, dangling>>

NotErased(n, t) == KeptBrokers(n)

\* _brokers.erase(ticket)
Erased(n, t) == Without(n, Expired(n) \cup {t})

\* fulfill answers the call with content and deletes its broker.
Resolve(n, t, content) ==
  LET c == brokers[n][t]
  IN /\ brokers' = [brokers EXCEPT ![n] = Erased(n, t)]
     /\ fnfs' = [fnfs EXCEPT ![n] = KeptFnfs(n)]
     /\ freed' = freed \cup Cleansed(n) \cup Messages(c)
     /\ outcome' = [TimedOut(n) EXCEPT ![c] = "answered"]
     /\ answer' = [answer EXCEPT ![c] = @ \cup content]

\* fulfill, type "simple"
HandleSimpleJob(n, b) ==
  /\ b \in inbox[n]
  /\ b.kind = "reply"
  /\ Kind[b.call] = "simple"
  /\ header[b] \in DOMAIN KeptBrokers(n)
  /\ inbox' = [inbox EXCEPT ![n] = @ \ {b}]
  /\ Resolve(n, header[b], {<<b.dest, "reply">>})
  /\ Drop(b, "http", {})
  /\ UNCHANGED <<ticketId, header, fulfilled, received, aged, lost, dangling>>

MatchesAny(m, b) == TRUE

\* m->id == message_id
Matches(m, b) == m = AskOf(b)

\* The messages that the JOB b fulfils
FulfilledNow(c, b) == {m \in Messages(c) : fulfilled[m] = 0 /\ Matches(m, b)}

SomeFulfilled(c, now) == now # {}

\* all_fulfilled
AllFulfilled(c, now) == \A m \in Messages(c) : m \in now \/ fulfilled[m] # 0

\* fulfill, type "broadcast": a message that its worker fulfilled already keeps
\* what the worker wrote.
HandleBroadcastJob(n, b) ==
  LET t == header[b]
      c == brokers[n][t]
      now == FulfilledNow(c, b)
      content == [m \in Messages(c) |-> IF m \in now THEN "reply" ELSE received[m]]
  IN /\ b \in inbox[n]
     /\ b.kind = "reply"
     /\ Kind[b.call] = "broadcast"
     /\ t \in DOMAIN KeptBrokers(n)
     /\ inbox' = [inbox EXCEPT ![n] = @ \ {b}]
     /\ fulfilled' = [m \in Buffers |-> IF m \in now THEN 1 ELSE fulfilled[m]]
     /\ received' = [m \in Buffers |-> IF m \in now THEN "reply" ELSE received[m]]
     /\ IF AllFulfilled(c, now)
          THEN Resolve(n, t, {<<a.dest, content[a]>> : a \in Messages(c)})
          ELSE /\ brokers' = [brokers EXCEPT ![n] = KeptBrokers(n)]
               /\ fnfs' = [fnfs EXCEPT ![n] = KeptFnfs(n)]
               /\ freed' = freed \cup Cleansed(n)
               /\ outcome' = TimedOut(n)
               /\ UNCHANGED answer
     /\ Drop(b, "", {})
     /\ UNCHANGED <<ticketId, header, aged, lost, dangling>>

-----------------------------------------------------------------------------
(***************************************************************************)
(* fetch(), one worker per buffer.  What a worker writes to a buffer that  *)
(* was deleted reaches no live object; the step is kept in dangling.       *)
(***************************************************************************)

Node == <<ticketId, header, brokers, fnfs, freed, outcome, answer>>

Connect(b) ==
  /\ worker[b] = "queued"
  /\ b \notin freed
  /\ worker' = [worker EXCEPT ![b] = "open"]
  /\ inbox' = [inbox EXCEPT ![Target(b)] = @ \cup {b}]
  /\ UNCHANGED <<Node, result, fulfilled, received, aged, lost, dangling>>

\* No connection, or no TLS on it within TIMEOUT2: then result stays as it was.
ConnectFails(b) ==
  /\ worker[b] = "queued"
  /\ b \notin freed
  /\ worker' = [worker EXCEPT ![b] = "closed"]
  /\ \/ /\ result' = [result EXCEPT ![b] = "failed"]
        /\ fulfilled' = [fulfilled EXCEPT ![b] = 2]
     \/ UNCHANGED <<result, fulfilled>>
  /\ lost' = lost \cup {b}
  /\ UNCHANGED <<Node, received, inbox, aged, dangling>>

\* The worker starts after its buffer was deleted.
StartDangling(b) ==
  /\ worker[b] = "queued"
  /\ b \in freed
  /\ worker' = [worker EXCEPT ![b] = "finished"]
  /\ dangling' = dangling \cup {b}
  /\ UNCHANGED <<Node, result, fulfilled, received, inbox, aged, lost>>

\* The target closes the connection without handling the request: it stopped.
Hangup(b) ==
  /\ worker[b] = "open"
  /\ b \in inbox[Target(b)]
  /\ worker' = [worker EXCEPT ![b] = "closed"]
  /\ result' = [result EXCEPT ![b] = ""]
  /\ inbox' = [inbox EXCEPT ![Target(b)] = @ \ {b}]
  /\ lost' = lost \cup {b}
  /\ UNCHANGED <<Node, fulfilled, received, aged, dangling>>

\* TIMEOUT2 passes; the socket stays open and the target may still handle it.
GiveUp(b) ==
  /\ worker[b] = "open"
  /\ worker' = [worker EXCEPT ![b] = "closed"]
  /\ result' = [result EXCEPT ![b] = ""]
  /\ UNCHANGED <<Node, fulfilled, received, inbox, aged, lost, dangling>>

SetFulfilled(b) ==
  /\ worker[b] = "closed"
  /\ worker' = [worker EXCEPT ![b] = "fulfilled"]
  /\ IF b \in freed
       THEN dangling' = dangling \cup {b} /\ UNCHANGED fulfilled
       ELSE fulfilled' = [fulfilled EXCEPT ![b] = 1] /\ UNCHANGED dangling
  /\ UNCHANGED <<Node, result, received, inbox, aged, lost>>

SetReceived(b) ==
  /\ worker[b] = "fulfilled"
  /\ worker' = [worker EXCEPT ![b] = "finished"]
  /\ IF b \in freed
       THEN dangling' = dangling \cup {b} /\ UNCHANGED received
       ELSE received' = [received EXCEPT ![b] = result[b]] /\ UNCHANGED dangling
  /\ UNCHANGED <<Node, result, fulfilled, inbox, aged, lost>>

\* Five seconds pass for the next buffer of a call.
Age(c) ==
  /\ outcome[c] \notin {"never", "none"}
  /\ aged[c] < Len(Dests[c])
  /\ aged' = [aged EXCEPT ![c] = @ + 1]
  /\ UNCHANGED <<Node, worker, result, fulfilled, received, inbox, lost, dangling>>

-----------------------------------------------------------------------------
Handle(n, b) ==
  \/ HandleAsk(n, b)
  \/ HandleStaleJob(n, b)
  \/ HandleSimpleJob(n, b)
  \/ HandleBroadcastJob(n, b)

Fetch(b) ==
  \/ Connect(b)
  \/ ConnectFails(b)
  \/ StartDangling(b)
  \/ SetFulfilled(b)
  \/ SetReceived(b)

Next ==
  \/ \E c \in Calls : Start(c) \/ Age(c)
  \/ \E n \in Nodes : OtherRequest(n)
  \/ \E n \in Nodes, b \in Buffers : Handle(n, b)
  \/ \E b \in Buffers : Fetch(b) \/ Hangup(b) \/ GiveUp(b)

Spec == Init /\ [][Next]_vars

(***************************************************************************)
(* The pool runs every worker (ThreadPool!AcceptedJobStarts) and the main  *)
(* loop serves every client that select reports.  Nothing forces a browser *)
(* to send a request, time to pass or a connection to break.               *)
(***************************************************************************)
FairSpec ==
  /\ Spec
  /\ \A b \in Buffers : WF_vars(Fetch(b))
  /\ \A n \in Nodes, b \in Buffers : WF_vars(Handle(n, b))
-----------------------------------------------------------------------------
(***************************************************************************)
(* Properties.                                                             *)
(***************************************************************************)

\* The type of every variable.
TypeOK ==
  /\ ticketId \in [Nodes -> Nat]
  /\ header \in [Buffers -> Nat \cup {NoTicket}]
  /\ \A n \in Nodes : DOMAIN brokers[n] \subseteq Nat /\ ToSet(brokers[n]) \subseteq Calls
  /\ fnfs \in [Nodes -> SUBSET Buffers]
  /\ worker \in [Buffers -> WorkerStates]
  /\ result \in [Buffers -> Contents]
  /\ fulfilled \in [Buffers -> 0..2]
  /\ received \in [Buffers -> Contents]
  /\ inbox \in [Nodes -> SUBSET Buffers]
  /\ aged \in [Calls -> Nat]
  /\ freed \subseteq Buffers
  /\ outcome \in [Calls -> Outcomes]
  /\ answer \in [Calls -> SUBSET (Nodes \X Contents)]
  /\ lost \subseteq Buffers
  /\ dangling \subseteq Buffers

\* Who deletes a buffer: a broker, or the list of fire-and-forget buffers.
Owners(b) ==
  {o \in UNION {{n} \X DOMAIN brokers[n] : n \in Nodes} : b \in Messages(brokers[o[1]][o[2]])}
    \cup {<<n, NoTicket>> : n \in {k \in Nodes : b \in fnfs[k]}}

\* Every buffer that was created is deleted once: it is freed and nobody owns
\* it, or exactly one broker or list still does.  Neither a leak nor a double
\* delete, although three handlers and two tickets from one counter compete.
OwnedOnce ==
  \A b \in Buffers : worker[b] # "none" =>
    \/ b \in freed /\ Owners(b) = {}
    \/ b \notin freed /\ \E o \in Owners(b) : Owners(b) = {o}

\* An open call is the one its ticket leads to on its node: a JOB can answer it
\* and no other call of the node has its number.
OpenCallsFindable ==
  \A c \in Calls : outcome[c] = "open" <=>
    \E t \in DOMAIN brokers[Caller[c]] :
      brokers[Caller[c]][t] = c /\ \A m \in Messages(c) : header[m] = t

\* cleanse deletes a fire-and-forget buffer only when its exchange is over.
RepliesOutliveExchange ==
  \A b \in Buffers : b.kind = "reply" /\ worker[b] \in {"queued", "open"} => b \notin freed

\* A broadcast is answered when each destination has sent its JOB or the worker
\* that called it is past its exchange, never while a message is still out.
AllHeardOf(c) ==
  \A m \in Messages(c) :
    worker[m] \in {"queued", "open"} => worker[ReplyTo(m)] \notin {"none", "queued"}

\* A browser is told something about each destination, a reply only of a
\* destination that handled the call, and nothing before all were heard of.
AnswersAreReal ==
  \A c \in Calls : outcome[c] = "answered" =>
    /\ {a[1] : a \in answer[c]} = ToSet(Dests[c])
    /\ \A a \in answer[c] : a[2] = "reply" => worker[ReplyTo(Ask(c, a[1]))] # "none"
    /\ Kind[c] = "broadcast" => AllHeardOf(c)

\* A request reaches n and n handles it: its main thread runs cleanse first.
RequestHandled(n) ==
  \E b \in Buffers : b \in inbox[n] /\ b \notin inbox'[n] /\ lost' = lost

\* An answered or timed out call stays so, whatever late JOBs arrive: its answer
\* is never changed and it never times out after it was answered.
OutcomeKept(c) ==
  outcome[c] \in {"answered", "timed_out"} =>
    outcome'[c] = outcome[c] /\ answer'[c] = answer[c]

\* When a request reaches a node, none of its calls to a single destination
\* that has timed out survives it, and a late JOB does not answer it.
LateJobRefused(c) ==
  outcome[c] = "open" /\ aged[c] = 1 /\ Len(Dests[c]) = 1 /\ RequestHandled(Caller[c])
    => outcome'[c] = "timed_out"

\* No step gives a call a second outcome, and none answers one that is too old:
\* every handler runs cleanse before fulfill.
OutcomesAreFinal ==
  [][\A c \in Calls : OutcomeKept(c) /\ LateJobRefused(c)]_vars

\* The same of every call: cleanse says "Async call timed out" of each message
\* that is too old, and a call all of whose messages are is dropped.
CallsTimeOut ==
  [][\A c \in Calls :
        /\ outcome[c] = "open" /\ aged[c] = Len(Dests[c])
        /\ RequestHandled(Caller[c])
        => outcome'[c] = "timed_out"]_vars

\* Every worker comes to an end, also when the other side fails: when the calls
\* of the browsers are over, no thread of the pool is held by an exchange.
ExchangesEnd ==
  <>[](\A b \in Buffers : worker[b] \in {"none", "finished"})

\* A call to one destination is answered or times out, unless one of its two
\* requests was lost.
SimpleCallsSettle ==
  \A c \in Calls : Kind[c] = "simple" =>
    (outcome[c] = "open" ~> \/ outcome[c] # "open"
                            \/ \E b \in lost : b.call = c)
=============================================================================
