---------------------------- MODULE MCClientLoop ----------------------------
(* Small instances of ClientLoop: what arrives on three connections. *)
EXTENDS ClientLoop

CONSTANTS p, q, u

Arrives(onP, onQ, onU) == [c \in Conns |-> CASE c = p -> onP [] c = q -> onQ [] c = u -> onU]

\* A page in pieces with a second one behind it, and websockets that are closed
\* early, sent text, or sent frames.
SafetyScripts ==
  { Arrives(<<"part", "page", "page">>, <<"upgrade", "odd">>, <<"upgrade", "eof">>),
    Arrives(<<"ticket", "page">>, <<"result">>, <<"upgrade", "eof">>),
    Arrives(<<"page", "eof">>, <<"closed">>, <<"upgrade", "frame", "eof">>) }

\* A websocket that is closed, and a page between other requests.
LiveScripts ==
  { Arrives(<<"page">>, <<"stale">>, <<"upgrade", "eof">>),
    Arrives(<<"page">>, <<"odd">>, <<"upgrade", "eof">>),
    Arrives(<<"page">>, <<"result">>, <<"upgrade", "eof">>) }

\* Two pages and an interrupt.
ShutdownScripts == {Arrives(<<"page">>, <<"page">>, <<>>)}

\* Two JOBs and the websocket they are answered on.
ResultScripts == {Arrives(<<"result">>, <<"result">>, <<"upgrade">>)}
=============================================================================
