------------------------------- MODULE WsLink -------------------------------
(***************************************************************************)
(* The websocket that carries the state of the federation to the page:     *)
(* System::ws_send and the jobs connect and ws_to_client of the thread     *)
(* pool (src/core/src/server/server.cc, include/jericho/system/system.h).  *)
(*                                                                         *)
(* A message goes through the request buffer of the client that was        *)
(* upgraded last: the main thread writes it there and leaves a job; the    *)
(* job copies the buffer, sends a frame and clears the buffer.  Nothing    *)
(* orders the main thread and the jobs of one client.  A half-written      *)
(* message does not parse in the page, as if it were blank.                *)
(***************************************************************************)
EXTENDS Naturals, Sequences

CONSTANTS
    Sockets,    \* the connections the page opens
    Messages,   \* what ws_send is called with, each once
    Workers,    \* threads of the pool
    Handshake,  \* the text of the upgrade request
    Blank,      \* a cleared or half-written buffer
    None        \* no message, no socket, no work

Text == Messages \cup {Handshake, Blank}

Job  == [job : {"connect", "send"}, sock : Sockets]
Work == [job : {"connect", "send"}, sock : Sockets,
         pc : {"copy", "transmit", "wipe"}, text : Text]

ASSUME LinkAssumption ==
    /\ Handshake \notin Messages /\ Blank \notin Messages /\ None \notin Messages
    /\ Handshake # Blank /\ Handshake # None /\ Blank # None
    /\ None \notin Sockets \cup Work

VARIABLES
    ws,         \* System::_ws
    phase,      \* a connection as the page sees it
    buf,        \* client->request
    queue,      \* the jobs of the pool
    work,       \* what each worker does
    main,       \* the message between the memset and the memcpy of ws_send
    unsent,     \* history: the messages ws_send was not called with yet
    lone,       \* history: the last message of a connection, if it was written
                \* while no job of the connection was queued or under way
    early,      \* history: one was written before the handshake was answered
    wire        \* the frames the page has not received yet

linkVars == <<ws, phase, buf, queue, work, main, unsent, lone, early, wire>>

InitLink ==
    /\ ws = None
    /\ phase = [s \in Sockets |-> "new"]
    /\ buf = [s \in Sockets |-> Blank]
    /\ queue = <<>>
    /\ work = [w \in Workers |-> None]
    /\ main = None
    /\ unsent = Messages
    /\ lone = [s \in Sockets |-> None]
    /\ early = [s \in Sockets |-> FALSE]
    /\ wire = [s \in Sockets |-> <<>>]

\* A job of the connection is queued or under way.
Busy(s) ==
    \/ \E k \in DOMAIN queue : queue[k].sock = s
    \/ \E w \in Workers : work[w] # None /\ work[w].sock = s

-----------------------------------------------------------------------------
(***************************************************************************)
(* The page and the main thread.                                           *)
(***************************************************************************)

\* socketTest: a new connection each time; the older ones stay open.
AskSocket(s) ==
    /\ phase[s] = "new"
    /\ phase' = [phase EXCEPT ![s] = "asked"]

\* The request of a new connection asks for the upgrade: the client becomes
\* _ws before the pool has answered it.
Upgrade(s) ==
    /\ main = None
    /\ phase[s] = "asked"
    /\ phase' = [phase EXCEPT ![s] = "upgrading"]
    /\ ws' = s
    /\ buf' = [buf EXCEPT ![s] = Handshake]
    /\ queue' = Append(queue, [job |-> "connect", sock |-> s])
    /\ UNCHANGED <<work, main, unsent, lone, early, wire>>

\* ws_send: memset, then memcpy and thread_pool_add.
SendClear(m) ==
    /\ main = None /\ ws # None
    /\ m \in unsent
    /\ unsent' = unsent \ {m}
    /\ main' = m
    /\ buf' = [buf EXCEPT ![ws] = Blank]
    /\ lone' = [lone EXCEPT ![ws] = IF Busy(ws) THEN None ELSE m]
    /\ early' = [early EXCEPT ![ws] = @ \/ phase[ws] = "upgrading"]
    /\ UNCHANGED <<ws, phase, queue, work, wire>>

\* The job of a message; the slip is to leave it for the memset as well.
SendJob   == [job |-> "send", sock |-> ws]
LeftTwice == queue \o <<SendJob, SendJob>>
Left      == Append(queue, SendJob)

SendCopy ==
    /\ main # None
    /\ buf' = [buf EXCEPT ![ws] = main]
    /\ queue' = Left
    /\ main' = None
    /\ UNCHANGED <<ws, phase, work, unsent, lone, early, wire>>

(***************************************************************************)
(* The workers.                                                            *)
(***************************************************************************)

Take(w) ==
    /\ work[w] = None
    /\ queue # <<>>
    /\ work' = [work EXCEPT ![w] = [job |-> Head(queue).job, sock |-> Head(queue).sock,
                                    pc |-> "copy", text |-> Blank]]
    /\ queue' = Tail(queue)
    /\ UNCHANGED <<ws, phase, buf, main, unsent, lone, early, wire>>

\* The text that a job reads; the slip is to read the buffer of the socket
\* that was upgraded last.
LatestText(w) == IF ws = None THEN Blank ELSE buf[ws]
OwnText(w) == buf[work[w].sock]

CopyBuffer(w) ==
    /\ work[w] # None /\ work[w].pc = "copy"
    /\ work' = [work EXCEPT ![w].pc = "transmit", ![w].text = OwnText(w)]
    /\ UNCHANGED <<ws, phase, buf, queue, main, unsent, lone, early, wire>>

\* link() answers only the text of a request; the page gives a connection up
\* whose first bytes are not that answer.
Answered(w) == work[w].job = "connect" /\ work[w].text = Handshake

\* The frame "Web sockets enabled!" after the answer is not JSON: the page
\* ignores it, and it is left out.
Transmit(w) ==
    /\ work[w] # None /\ work[w].pc = "transmit"
    /\ work' = [work EXCEPT ![w].pc = "wipe"]
    /\ LET s == work[w].sock
       IN  /\ phase' = [phase EXCEPT ![s] =
                          IF @ # "upgrading" THEN @
                          ELSE IF Answered(w) THEN "open" ELSE "failed"]
           /\ wire' = IF phase[s] = "open" /\ work[w].job = "send"
                      THEN [wire EXCEPT ![s] = Append(@, work[w].text)]
                      ELSE wire
    /\ UNCHANGED <<ws, buf, queue, main, unsent, lone, early>>

\* The buffer is cleared after the frame is sent; a message written in between
\* is lost.
Wipe(w) ==
    /\ work[w] # None /\ work[w].pc = "wipe"
    /\ buf' = [buf EXCEPT ![work[w].sock] = Blank]
    /\ work' = [work EXCEPT ![w] = None]
    /\ UNCHANGED <<ws, phase, queue, main, unsent, lone, early, wire>>

WorkerStep(w) == Take(w) \/ CopyBuffer(w) \/ Transmit(w) \/ Wipe(w)

-----------------------------------------------------------------------------
(***************************************************************************)
(* Properties of the link.                                                 *)
(***************************************************************************)

LinkTypeOK ==
    /\ ws \in Sockets \cup {None}
    /\ phase \in [Sockets -> {"new", "asked", "upgrading", "open", "failed"}]
    /\ buf \in [Sockets -> Text]
    /\ queue \in Seq(Job)
    /\ work \in [Workers -> Work \cup {None}]
    /\ main \in Messages \cup {None}
    /\ main # None => ws # None
    /\ unsent \subseteq Messages
    /\ lone \in [Sockets -> Messages \cup {None}]
    /\ early \in [Sockets -> BOOLEAN]
    /\ wire \in [Sockets -> Seq(Messages \cup {Blank, Handshake})]

\* A message written while no job of its connection was under way, and before
\* any other is written, reaches the wire as it is: no wipe and no other
\* thread can come between.  (Two that overlap may be lost, doubled or
\* exchanged.)
LoneSendIntact ==
    \A w \in Workers :
        LET k == work[w]
        IN  k # None /\ k.job = "send" /\ k.pc = "transmit" /\ lone[k.sock] # None
              => k.text = lone[k.sock] /\ phase[k.sock] # "upgrading"

\* The upgrade of a connection fails only when a message was written to it
\* before the pool answered the handshake.
FailsOnlyByEarlySend == \A s \in Sockets : phase[s] = "failed" => early[s]

=============================================================================
