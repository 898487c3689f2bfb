----------------------------- MODULE ClientLoop -----------------------------
(***************************************************************************)
(* The main loop of a node, run() of core/src/server/server.cc, with its   *)
(* list of clients (core/src/server/client.cc), the jobs it gives to the   *)
(* thread pool for websockets, and the thread that shuts the server down   *)
(* (core/src/main.cc).                                                     *)
(*                                                                         *)
(* One thread accepts, reads, evaluates and answers.  Reading blocks: the  *)
(* loop waits in SSL_read until the buffer of the client it visits holds   *)
(* an empty line or the connection ends.  The jobs share the buffer, the   *)
(* state and the memory of the client with the loop.                       *)
(***************************************************************************)
EXTENDS Naturals, Sequences, SequencesExt

CONSTANTS
  Conns,           \* connections, each a browser or another node
  Scripts,         \* a set of [Conns -> Seq(Inputs)], what may arrive on each
  Threads,         \* threads of the pool
  MaxJobs,         \* bound on the jobs of the pool: the code has none
  Patient,         \* whether browsers wait for "Web sockets enabled!"
  MayShutdown,     \* whether the operator interrupts the server
  None             \* no client

\* "page", "ticket": requests that are answered now, or later over the
\* websocket.  "closed", "odd": a Connection header the loop does not serve, or
\* none.  "result", "stale": a JOB with and without a broker.  "part", "frame":
\* bytes without an empty line.  "eof": the other side closed.
Complete == {"page", "ticket", "closed", "odd", "upgrade", "result", "stale"}
Inputs == Complete \cup {"part", "frame", "eof"}

ASSUME LoopAssumption ==
  /\ \A s \in Scripts : s \in [Conns -> Seq(Inputs)]
  /\ Threads \in Nat \ {0}
  /\ MaxJobs \in Nat \ {0}
  /\ Patient \in BOOLEAN
  /\ MayShutdown \in BOOLEAN
  /\ None \notin Conns
  /\ "enabled" \notin Conns

States == {"null", "closing", "open_ws", "upgrading", "alive"}

VARIABLES
  script,          \* what arrives on each connection, in order
  conn,            \* where each connection is
  arrived,         \* how many of its inputs reached the server
  taken,           \* how many of them SSL_read returned
  clients,         \* the list of clients, newest first
  num_clients,
  state,           \* fields of each client
  websocket,
  request,         \* the buffer of each client, a sequence of inputs
  received,
  pc,              \* of the main thread: "select", "read", "check", "eval"
  walk,            \* the clients it still visits in this round
  ws,              \* System::_ws, the client ws_send writes to
  jobs,            \* jobs of the pool that have not ended, in order
  sent,            \* what was written to each connection
  shutdown,        \* of the shutdown thread: "no", "dropping", "exited"
  cli,             \* the clients it still drops
  dangling,        \* clients used after they were freed
  unfound          \* clients drop_client did not find in the list

data == <<state, websocket, request, received, ws, jobs, sent>>
list == <<conn, clients, num_clients>>
main == <<pc, walk>>
stop == <<shutdown, cli>>
vars == <<script, list, arrived, taken, data, main, stop, dangling, unfound>>

Init ==
  /\ script \in Scripts
  /\ conn = [c \in Conns |-> "idle"]
  /\ arrived = [c \in Conns |-> 0]
  /\ taken = [c \in Conns |-> 0]
  /\ clients = <<>>
  /\ num_clients = 0
  /\ state = [c \in Conns |-> "null"]
  /\ websocket = [c \in Conns |-> FALSE]
  /\ request = [c \in Conns |-> <<>>]
  /\ received = [c \in Conns |-> 0]
  /\ pc = "select"
  /\ walk = <<>>
  /\ ws = None
  /\ jobs = <<>>
  /\ sent = [c \in Conns |-> <<>>]
  /\ shutdown = "no"
  /\ cli = <<>>
  /\ dangling = {}
  /\ unfound = {}

\* The process runs; what will arrive does not change.
Alive == shutdown # "exited" /\ UNCHANGED script

-----------------------------------------------------------------------------
(***************************************************************************)
(* The other ends.                                                         *)
(***************************************************************************)
Dial(c) ==
  /\ Alive
  /\ conn[c] = "idle"
  /\ conn' = [conn EXCEPT ![c] = "pending"]
  /\ UNCHANGED <<arrived, taken, clients, num_clients, data, main, stop, dangling, unfound>>

\* What the browser of a websocket has received before it sends its next input
Greeted(c) ==
  LET input == script[c][arrived[c] + 1]
  IN /\ input = "frame" => "handshake" \in ToSet(sent[c])
     /\ Patient /\ "upgrade" \in ToSet(SubSeq(script[c], 1, arrived[c])) => "enabled" \in ToSet(sent[c])

\* A browser sends frames once its handshake was answered.
Arrive(c) ==
  /\ Alive
  /\ conn[c] = "open"
  /\ arrived[c] < Len(script[c])
  /\ Greeted(c)
  /\ arrived' = [arrived EXCEPT ![c] = @ + 1]
  /\ UNCHANGED <<list, taken, data, main, stop, dangling, unfound>>

Ended(c) == taken[c] > 0 /\ script[c][taken[c]] = "eof"

\* select reports c: bytes have come, or the connection has ended.
Readable(c) == taken[c] < arrived[c] \/ Ended(c)

-----------------------------------------------------------------------------
(***************************************************************************)
(* The main thread.                                                        *)
(***************************************************************************)
NotUnlinked(c) == clients

\* The list without c
Unlinked(c) ==
  LET i == CHOOSE i \in DOMAIN clients : clients[i] = c IN RemoveAt(clients, i)

CountedTwice(n) == n - 2

\* (*num_clients)--
OneLess(n) == n - 1

DropLater(c) == UNCHANGED <<list, unfound>>

\* drop_client, called by the main thread
Drop(c) ==
  IF c \in ToSet(clients)
    THEN /\ clients' = Unlinked(c)
         /\ conn' = [conn EXCEPT ![c] = "dropped"]
         /\ num_clients' = OneLess(num_clients)
         /\ UNCHANGED unfound
    ELSE unfound' = unfound \cup {c} /\ UNCHANGED list

\* Where the loop goes when it is done with a client
Walked(rest) == IF rest = <<>> THEN "select" ELSE "read"

FirstReported == IF clients # <<>> /\ Readable(clients[1]) THEN <<clients[1]>> ELSE <<>>

\* The clients that select reports, in the order of the list: upTo[i] are those
\* among its first i.
Reported ==
  LET upTo[i \in 0..Len(clients)] ==
        IF i = 0 THEN <<>>
        ELSE IF Readable(clients[i]) THEN Append(upTo[i - 1], clients[i])
        ELSE upTo[i - 1]
  IN upTo[Len(clients)]

\* Select returns.  A new client is accepted and put in front, unless the TLS
\* handshake fails: then it is dropped at once.
Select ==
  /\ Alive
  /\ pc = "select"
  /\ \/ /\ Reported # <<>>
        /\ \A c \in Conns : conn[c] # "pending"
        /\ UNCHANGED list
     \/ \E c \in Conns :
          /\ conn[c] = "pending"
          /\ \/ /\ conn' = [conn EXCEPT ![c] = "open"]
                /\ clients' = <<c>> \o clients
                /\ num_clients' = num_clients + 1
             \/ /\ conn' = [conn EXCEPT ![c] = "dropped"]
                /\ UNCHANGED <<clients, num_clients>>
  /\ walk' = Reported
  /\ pc' = Walked(Reported)
  /\ UNCHANGED <<arrived, taken, data, stop, dangling, unfound>>

HasEmptyLine(buffer) == ToSet(buffer) \cap Complete # {}

\* The buffer of c as a string when input was written behind received: what
\* lies behind a NUL byte, in a buffer that ws_to_client cleared, is not seen.
Filled(c, input) ==
  IF received[c] <= Len(request[c])
    THEN Append(SubSeq(request[c], 1, received[c]), input)
    ELSE request[c]

\* One SSL_read of poll_request.  It returns nothing when the connection ended;
\* when no empty line has come the loop reads again, and waits.
Read(c) ==
  LET input == script[c][taken[c] + 1]
      buffer == Filled(c, input)
  IN /\ Alive
     /\ pc = "read"
     /\ c = Head(walk)
     /\ c \in ToSet(clients)
     /\ Readable(c)
     /\ IF Ended(c) \/ input = "eof"
          THEN /\ pc' = "check"
               /\ taken' = [taken EXCEPT ![c] = IF Ended(c) THEN @ ELSE @ + 1]
               /\ UNCHANGED <<request, received>>
          ELSE /\ pc' = IF HasEmptyLine(buffer) THEN "check" ELSE "read"
               /\ taken' = [taken EXCEPT ![c] = @ + 1]
               /\ request' = [request EXCEPT ![c] = buffer]
               /\ received' = [received EXCEPT ![c] = @ + 1]
     /\ UNCHANGED <<list, arrived, state, websocket, walk, ws, jobs, sent, stop, dangling, unfound>>

\* The shutdown thread freed the client that the loop visits.
UseFreed(c) ==
  /\ Alive
  /\ pc \in {"read", "check", "eval"}
  /\ c = Head(walk)
  /\ c \notin ToSet(clients)
  /\ dangling' = dangling \cup {c}
  /\ Drop(c)
  /\ walk' = Tail(walk)
  /\ pc' = Walked(Tail(walk))
  /\ UNCHANGED <<arrived, taken, data, stop>>

\* The last lines of the loop
CleanUp(c) ==
  /\ IF websocket'[c] THEN UNCHANGED <<list, unfound>> ELSE Drop(c)
  /\ walk' = Tail(walk)
  /\ pc' = Walked(Tail(walk))

\* r > 0
Check(c) ==
  /\ Alive
  /\ pc = "check"
  /\ c = Head(walk)
  /\ c \in ToSet(clients)
  /\ UNCHANGED websocket
  /\ IF received[c] > 0
       THEN pc' = "eval" /\ UNCHANGED <<list, walk, unfound>>
       ELSE CleanUp(c)
  /\ UNCHANGED <<arrived, taken, state, request, received, ws, jobs, sent, stop, dangling>>

\* The main thread is about to evaluate the buffer of c, which begins with kind.
Evaluates(c, kind) ==
  /\ pc = "eval"
  /\ c = Head(walk)
  /\ c \in ToSet(clients)
  /\ \/ \E i \in 1..Len(request[c]) :
          /\ kind = request[c][i] /\ kind \in Complete
          /\ \A k \in 1..(i - 1) : request[c][k] \notin Complete
     \/ kind = "invalid" /\ ~HasEmptyLine(request[c])

BreakOnly(c) == UNCHANGED <<list, unfound>> /\ walk' = <<>> /\ pc' = "select"

\* drop_client and break: the clients behind c wait for the next round.
DropAndBreak(c) ==
  /\ Drop(c)
  /\ walk' = <<>>
  /\ pc' = "select"

\* A JOB that fulfil answers: the browser gets the result over the websocket.
\* ws_send overwrites the buffer of that client and leaves received.
Result(c) ==
  /\ Alive
  /\ Evaluates(c, "result")
  /\ sent' = [sent EXCEPT ![c] = Append(@, "http")]
  /\ IF ws = None THEN UNCHANGED <<request, jobs, dangling>>
     ELSE IF ws \notin ToSet(clients)
       THEN dangling' = dangling \cup {ws} /\ UNCHANGED <<request, jobs>>
       ELSE /\ request' = [request EXCEPT ![ws] = <<c>>]
            /\ jobs' = Append(jobs, [fn |-> "ws_to_client", client |-> ws, step |-> "start"])
            /\ UNCHANGED dangling
  /\ DropAndBreak(c)
  /\ UNCHANGED <<arrived, taken, state, websocket, received, ws, stop>>

Refuse(c) ==
  /\ Alive
  /\ Evaluates(c, "stale") \/ Evaluates(c, "invalid")
  /\ DropAndBreak(c)
  /\ UNCHANGED <<arrived, taken, data, stop, dangling>>

\* Bifrost::serve.  A call that takes a ticket is not answered here.
Serve(c) ==
  /\ Alive
  /\ \/ Evaluates(c, "page") /\ sent' = [sent EXCEPT ![c] = Append(@, "page")]
     \/ Evaluates(c, "ticket") /\ UNCHANGED sent
  /\ state' = [state EXCEPT ![c] = "alive"]
  /\ UNCHANGED websocket
  /\ CleanUp(c)
  /\ UNCHANGED <<arrived, taken, request, received, ws, jobs, stop, dangling>>

\* "closed" is not served; an unknown header leaves the state as it is.
NotServed(c) ==
  /\ Alive
  /\ \/ Evaluates(c, "closed") /\ state' = [state EXCEPT ![c] = "closing"]
     \/ Evaluates(c, "odd") /\ state[c] # "open_ws" /\ UNCHANGED state
  /\ UNCHANGED websocket
  /\ CleanUp(c)
  /\ UNCHANGED <<arrived, taken, request, received, ws, jobs, sent, stop, dangling>>

NotMarked(c) == websocket

\* client->websocket = true
Marked(c) == [websocket EXCEPT ![c] = TRUE]

Upgrade(c) ==
  /\ Alive
  /\ Evaluates(c, "upgrade")
  /\ Len(jobs) < MaxJobs
  /\ state' = [state EXCEPT ![c] = "upgrading"]
  /\ ws' = c
  /\ websocket' = Marked(c)
  /\ jobs' = Append(jobs, [fn |-> "connect", client |-> c, step |-> "start"])
  /\ CleanUp(c)
  /\ UNCHANGED <<arrived, taken, request, received, sent, stop, dangling>>

\* Text with an empty line on an open websocket is handed to recv_websocket.
Receive(c) ==
  /\ Alive
  /\ Evaluates(c, "odd") /\ state[c] = "open_ws"
  /\ Len(jobs) < MaxJobs
  /\ websocket' = Marked(c)
  /\ jobs' = Append(jobs, [fn |-> "recv_websocket", client |-> c, step |-> "start"])
  /\ CleanUp(c)
  /\ UNCHANGED <<arrived, taken, state, request, received, ws, sent, stop, dangling>>

-----------------------------------------------------------------------------
(***************************************************************************)
(* The jobs.  The pool starts them in order and Threads of them at a time. *)
(***************************************************************************)

\* The job at place i is on a thread and about to do step of fn for c.
Runs(i, fn, step, c) ==
  /\ i \in 1..Len(jobs) /\ i <= Threads
  /\ jobs[i] = [fn |-> fn, client |-> c, step |-> step]
  /\ shutdown = "no"

JobUsesFreed(i, c) ==
  /\ Alive
  /\ \E fn \in {"connect", "recv_websocket", "ws_to_client"}, step \in {"start", "linked"} :
       Runs(i, fn, step, c)
  /\ c \notin ToSet(clients)
  /\ dangling' = dangling \cup {c}
  /\ jobs' = RemoveAt(jobs, i)
  /\ UNCHANGED <<list, arrived, taken, state, websocket, request, received, ws, sent, main, stop, unfound>>

\* link() of connect(): the handshake needs the request in the buffer.
Link(i, c) ==
  /\ Alive
  /\ Runs(i, "connect", "start", c)
  /\ c \in ToSet(clients)
  /\ IF HasEmptyLine(request[c])
       THEN /\ sent' = [sent EXCEPT ![c] = Append(@, "handshake")]
            /\ state' = [state EXCEPT ![c] = "open_ws"]
       ELSE /\ state' = [state EXCEPT ![c] = "null"]
            /\ UNCHANGED sent
  /\ jobs' = [jobs EXCEPT ![i].step = "linked"]
  /\ UNCHANGED <<list, arrived, taken, websocket, request, received, ws, main, stop, dangling, unfound>>

\* frame.client->received = 0 and the memset of the buffer
Emptied(c) ==
  /\ request' = [request EXCEPT ![c] = <<>>]
  /\ received' = [received EXCEPT ![c] = 0]

\* The rest of connect()
Enable(i, c) ==
  /\ Alive
  /\ Runs(i, "connect", "linked", c)
  /\ c \in ToSet(clients)
  /\ sent' = [sent EXCEPT ![c] = Append(@, "enabled")]
  /\ Emptied(c)
  /\ jobs' = RemoveAt(jobs, i)
  /\ UNCHANGED <<list, arrived, taken, state, websocket, ws, main, stop, dangling, unfound>>

\* ws_to_client() sends what the buffer holds and clears it.
WsToClient(i, c) ==
  /\ Alive
  /\ Runs(i, "ws_to_client", "start", c)
  /\ c \in ToSet(clients)
  /\ sent' = [sent EXCEPT ![c] = Append(@, IF request[c] = <<>> THEN "empty" ELSE request[c][1])]
  /\ request' = [request EXCEPT ![c] = <<>>]
  /\ jobs' = RemoveAt(jobs, i)
  /\ UNCHANGED <<list, arrived, taken, state, websocket, received, ws, main, stop, dangling, unfound>>

\* recv_websocket() parses the text in the buffer as a frame.  A letter has the
\* bits of RSV set: next_frame fails and nothing was changed.
RecvWebsocket(i, c) ==
  /\ Alive
  /\ Runs(i, "recv_websocket", "start", c)
  /\ c \in ToSet(clients)
  /\ jobs' = RemoveAt(jobs, i)
  /\ UNCHANGED <<list, arrived, taken, state, websocket, request, received, ws, sent, main, stop, dangling,
                 unfound>>

-----------------------------------------------------------------------------
(***************************************************************************)
(* server_destroy().  Nobody reads accepting: the main loop goes on.       *)
(***************************************************************************)

\* thread_pool_wait waits for jobs that run, not for the queue, and
\* thread_pool_destroy frees the queue.
Interrupt ==
  /\ Alive
  /\ MayShutdown
  /\ shutdown = "no"
  /\ \A i \in 1..Len(jobs) : jobs[i].step = "start"
  /\ jobs' = <<>>
  /\ shutdown' = "dropping"
  /\ cli' = clients
  /\ UNCHANGED <<list, arrived, taken, state, websocket, request, received, ws, sent, main, dangling,
                 unfound>>

\* drop_client(cli, &clients, &num_clis) and cli = cli->next, which reads the
\* memory just freed; here it still holds the pointer.  num_clis is a local.
ShutdownDrop ==
  /\ Alive
  /\ shutdown = "dropping"
  /\ cli # <<>>
  /\ LET c == Head(cli)
     IN IF c \in ToSet(clients)
          THEN /\ clients' = Unlinked(c)
               /\ conn' = [conn EXCEPT ![c] = "dropped"]
               /\ UNCHANGED unfound
          ELSE unfound' = unfound \cup {c} /\ UNCHANGED <<clients, conn>>
  /\ cli' = Tail(cli)
  /\ UNCHANGED <<num_clients, arrived, taken, data, main, shutdown, dangling>>

Exit ==
  /\ Alive
  /\ shutdown = "dropping"
  /\ cli = <<>>
  /\ shutdown' = "exited"
  /\ UNCHANGED <<list, arrived, taken, data, main, cli, dangling, unfound>>

-----------------------------------------------------------------------------
Main ==
  \/ Select
  \/ \E c \in Conns :
       \/ Read(c) \/ UseFreed(c) \/ Check(c)
       \/ Result(c) \/ Refuse(c) \/ Serve(c) \/ NotServed(c) \/ Upgrade(c) \/ Receive(c)

Job(i) ==
  \E c \in Conns :
    \/ JobUsesFreed(i, c)
    \/ Link(i, c) \/ Enable(i, c)
    \/ WsToClient(i, c)
    \/ RecvWebsocket(i, c)

Next ==
  \/ \E c \in Conns : Dial(c) \/ Arrive(c)
  \/ Main
  \/ \E i \in 1..Threads : Job(i)
  \/ Interrupt \/ ShutdownDrop \/ Exit

Spec == Init /\ [][Next]_vars

\* The operating system runs the main thread and the threads of the pool, and
\* the network brings what was sent.
FairSpec ==
  /\ Spec
  /\ WF_vars(Main)
  /\ \A i \in 1..Threads : WF_vars(Job(i))
  /\ \A c \in Conns : WF_vars(Arrive(c))
-----------------------------------------------------------------------------
(***************************************************************************)
(* Properties.                                                             *)
(***************************************************************************)

\* The type of every variable.
TypeOK ==
  /\ conn \in [Conns -> {"idle", "pending", "open", "dropped"}]
  /\ \A c \in Conns : taken[c] \in 0..arrived[c] /\ arrived[c] \in 0..Len(script[c])
  /\ clients \in Seq(Conns)
  /\ num_clients \in Nat
  /\ state \in [Conns -> States]
  /\ websocket \in [Conns -> BOOLEAN]
  /\ request \in [Conns -> Seq(Inputs \cup Conns)]
  /\ received \in [Conns -> Nat]
  /\ pc \in {"select", "read", "check", "eval"}
  /\ walk \in Seq(Conns)
  /\ ws \in Conns \cup {None}
  /\ jobs \in Seq([fn : {"connect", "recv_websocket", "ws_to_client"},
                   client : Conns, step : {"start", "linked"}])
  /\ sent \in [Conns -> Seq({"page", "http", "handshake", "enabled", "empty"} \cup Inputs \cup Conns)]
  /\ shutdown \in {"no", "dropping", "exited"}
  /\ cli \in Seq(Conns)
  /\ dangling \subseteq Conns
  /\ unfound \subseteq Conns

\* The list holds every open connection once.  While the server runs it has
\* num_clients elements, and the pointers the loop keeps across a visit, its
\* place and what is behind it, lead to clients that were not freed.
ListSound ==
  /\ IsInjective(clients)
  /\ ToSet(clients) = {c \in Conns : conn[c] = "open"}
  /\ shutdown = "no" => /\ num_clients = Len(clients)
                        /\ ToSet(walk) \subseteq ToSet(clients)

\* A connection is written to and closed by the loop for what it asked: a page
\* is sent once and then the connection is closed, before anything else is read.
PagesAnsweredOnce ==
  \A c \in Conns : \A k \in 1..Len(script[c]) :
    script[c][k] = "page" /\ ~websocket[c] =>
      /\ Len(sent[c]) <= 1
      /\ conn[c] = "dropped" /\ taken[c] = k /\ shutdown = "no" => sent[c] = <<"page">>

\* Neither a job nor ws_send uses a client that was freed: a websocket that a
\* job or System::_ws points to is not dropped before, when JOBs are answered on
\* it and its browser closes it, provided that the browser is patient.
ClientsOutliveUse == dangling = {}

\* A page that a browser asked for is sent, whatever JOBs and refused requests
\* make the loop break off its rounds.
PagesServed ==
  \A c \in Conns :
    (conn[c] = "open" /\ script[c] = <<"page">> ~> sent[c] = <<"page">>)

\* Each connection that is not a websocket is closed in the end.
RequestsEnd ==
  \A c \in Conns :
    (conn[c] = "open" /\ ToSet(script[c]) \cap Complete # {}
       ~> websocket[c] \/ conn[c] = "dropped")

\* drop_client finds the client it is given ("Error dropping client -- client
\* not found!"): no two threads drop the same one.
DropFindsClient == unfound = {}

\* What ws_send takes is sent: a result it put in the buffer of a websocket
\* reaches the browser, although the next one may be written over it.
ResultsSent ==
  \A w, c \in Conns :
    (request[w] # <<>> /\ request[w][1] = c ~> c \in ToSet(sent[w]))
=============================================================================
