----------------------------- MODULE FeedProofs -----------------------------
(***************************************************************************)
(* Proofs about the websocket and the charts it feeds, for any sockets,    *)
(* messages, threads, values and sizes.                                    *)
(***************************************************************************)
EXTENDS Feed, SequenceTheorems, TLAPS

-----------------------------------------------------------------------------
(***************************************************************************)
(* The chart.                                                              *)
(***************************************************************************)

\* There is a label for each append since the chart was made.
ChartInv ==
    /\ ChartTypeOK
    /\ labels = aggregated
    /\ aggregated > 0 => length = aggregated
    /\ SpanCovers
    /\ AtMostFirstHidden

\* A tenth of an interval is no less than nothing.
LEMMA TenthIsNat == ASSUME NEW x \in Nat PROVE Tenth(x) \in Nat
BY DEF Tenth

LEMMA InitChartInv == ASSUME InitChart PROVE ChartInv
BY ChartAssumption DEF InitChart, ChartInv, ChartTypeOK, SpanCovers, Span, AtMostFirstHidden

LEMMA NewChartInv == ASSUME NewChart PROVE ChartInv'
BY ChartAssumption DEF NewChart, ChartInv, ChartTypeOK, SpanCovers, Span, AtMostFirstHidden

\* The fitted interval is the spread and a tenth of the old interval on both
\* sides: it covers the spread.
LEMMA FittedCovers ==
    ASSUME NEW h \in Int, NEW l \in Int, NEW s \in Nat, NEW t \in Nat,
           5 * (h - l) > 6 * s
    PROVE  /\ 5 * (h - l) <= 6 * ((h + t) - (l - t))
           /\ (h + t) - (l - t) >= 0
<1>1. h - l >= 0
  OBVIOUS
<1>2. (h + t) - (l - t) = (h - l) + 2 * t
  OBVIOUS
<1> QED BY <1>1, <1>2

\* append either finds that the axis covers the spread, or fits it.
LEMMA AppendKeepsAxis ==
    ASSUME ChartInv, NEW y \in Int, AppendValue(y)
    PROVE  /\ SpanCovers'
           /\ yRangeStart' \in Int /\ yRangeEnd' \in Int
<1>1. PICK h \in Int, l \in Int, s \in Nat :
        h = hi' /\ l = lo' /\ s = Span
  BY DEF ChartInv, ChartTypeOK, SpanCovers, Span, AppendValue, Higher, Lower
<1>2. yRangeStart \in Int /\ yRangeEnd \in Int
  BY DEF ChartInv, ChartTypeOK
<1>3. CASE Outgrown(h - l)
  <2>1. PICK t \in Nat : t = Tenth(Span)
    BY <1>1, TenthIsNat
  <2>2. yRangeEnd' = h + t /\ yRangeStart' = l - t
    BY <1>1, <1>3, <2>1 DEF AppendValue
  <2>3. 5 * (h - l) > 6 * s
    BY <1>1, <1>3 DEF Outgrown
  <2>4. 5 * (h - l) <= 6 * ((h + t) - (l - t)) /\ (h + t) - (l - t) >= 0
    BY <2>3, FittedCovers
  <2>5. Span' = (h + t) - (l - t)
    BY <2>2 DEF Span
  <2>6. 5 * (hi' - lo') <= 6 * Span' /\ Span' >= 0
    BY <1>1, <2>4, <2>5
  <2> QED BY <2>2, <2>6 DEF SpanCovers
<1>4. CASE ~Outgrown(h - l)
  <2>1. yRangeEnd' = yRangeEnd /\ yRangeStart' = yRangeStart
    BY <1>1, <1>4 DEF AppendValue
  <2>2. ~(5 * (h - l) > 6 * s)
    BY <1>1, <1>4, Zenon DEF Outgrown
  <2>3. 5 * (h - l) <= 6 * s
    BY <2>2
  <2>4. Span' = s
    BY <1>1, <2>1 DEF Span
  <2>5. 5 * (hi' - lo') <= 6 * Span'
    BY <1>1, <2>3, <2>4, Zenon
  <2>6. Span' >= 0
    BY <2>4
  <2> QED BY <1>2, <2>1, <2>5, <2>6 DEF SpanCovers
<1> QED BY <1>3, <1>4

LEMMA AppendKeepsChart ==
    ASSUME ChartInv, NEW y \in Int, AppendValue(y)
    PROVE  ChartInv'
<1>1. /\ aggregated' = aggregated + 1
      /\ length' = aggregated + 1
      /\ labels' = labels + 1
      /\ UNCHANGED <<zoomX, xBegin, xEnd>>
  BY DEF AppendValue, NextLabel, window
<1>2. hi' \in Int /\ lo' \in Int
  BY DEF ChartInv, ChartTypeOK, AppendValue, Higher, Lower
<1>3. ChartTypeOK'
  BY <1>1, <1>2, AppendKeepsAxis DEF ChartInv, ChartTypeOK
<1>4. labels' = aggregated' /\ (aggregated' > 0 => length' = aggregated') /\ AtMostFirstHidden'
  BY <1>1 DEF ChartInv, ChartTypeOK, AtMostFirstHidden
<1> QED BY <1>3, <1>4, AppendKeepsAxis DEF ChartInv

LEMMA ViewKeepsChart ==
    ASSUME ChartInv, ZoomIn \/ ZoomOut \/ DrawChart
    PROVE  ChartInv'
<1> USE DEF ChartInv, ChartTypeOK, SpanCovers, Span, AtMostFirstHidden, data
<1>1. CASE ZoomIn
  BY <1>1 DEF ZoomIn, Wheel, Begin
<1>2. CASE ZoomOut
  BY <1>2 DEF ZoomOut, Wheel, Begin, Notched
<1>3. CASE DrawChart
  BY <1>3 DEF DrawChart, NewEnd
<1> QED BY <1>1, <1>2, <1>3

LEMMA ChartStays == ASSUME ChartInv, UNCHANGED chartVars PROVE ChartInv'
BY DEF ChartInv, ChartTypeOK, SpanCovers, Span, AtMostFirstHidden, chartVars, data, window

LEMMA ChartInvSound == ASSUME ChartInv PROVE ChartSound
BY DEF ChartInv, ChartTypeOK, ChartSound, LabelPerPoint, FramesDrawPoints, NewEnd

-----------------------------------------------------------------------------
(***************************************************************************)
(* The link.  The argument is about the jobs of one connection.            *)
(***************************************************************************)

At(w, s) == work[w] # None /\ work[w].sock = s

\* A connection has one job at most.
OneJob(s) ==
    /\ \A k, l \in DOMAIN queue : queue[k].sock = s /\ queue[l].sock = s => k = l
    /\ \A k \in DOMAIN queue, w \in Workers : queue[k].sock = s => ~At(w, s)
    /\ \A v, w \in Workers : At(v, s) /\ At(w, s) => v = w

\* The one job of a connection is of this kind and has read, or will read, this
\* text.
OnlyJob(s, kind, text) ==
    /\ OneJob(s)
    /\ \A k \in DOMAIN queue : queue[k].sock = s => queue[k].job = kind /\ buf[s] = text
    /\ \A w \in Workers : At(w, s) =>
          /\ work[w].job = kind
          /\ work[w].pc = "copy" => buf[s] = text
          /\ work[w].pc = "transmit" => work[w].text = text

\* Before its upgrade a connection has no job; until the pool has answered, the
\* job is there; and it is alone with its text unless a message came early.
\* The same of a message that was written to a quiet connection.
SocketInv(s) ==
    /\ phase[s] \in {"new", "asked"} => ~Busy(s) /\ ws # s /\ lone[s] = None
    /\ phase[s] = "upgrading" =>
          /\ Busy(s) /\ lone[s] = None
          /\ \A w \in Workers : At(w, s) => work[w].pc # "wipe"
    /\ phase[s] = "upgrading" /\ ~early[s] =>
          /\ OnlyJob(s, "connect", Handshake)
          /\ ws = s => main = None
    /\ phase[s] = "failed" => early[s]
    /\ lone[s] # None =>
          /\ OnlyJob(s, "send", lone[s])
          /\ main # None /\ ws = s => main = lone[s] /\ ~Busy(s)

LinkInv == LinkTypeOK /\ \A s \in Sockets : SocketInv(s)

LEMMA InitLinkInv == ASSUME InitLink PROVE LinkInv
<1>1. LinkTypeOK
  BY DEF InitLink, LinkTypeOK, Text
<1>2. ASSUME NEW s \in Sockets PROVE SocketInv(s)
  BY LinkAssumption DEF InitLink, SocketInv, Busy
<1> QED BY <1>1, <1>2 DEF LinkInv

(***************************************************************************)
(* The queue.                                                              *)
(***************************************************************************)

LEMMA QueueAppended ==
    ASSUME LinkTypeOK, NEW j \in Job, queue' = Append(queue, j)
    PROVE  /\ queue' \in Seq(Job)
           /\ Len(queue) \in Nat
           /\ DOMAIN queue = 1 .. Len(queue)
           /\ DOMAIN queue' = 1 .. Len(queue) + 1
           /\ \A k \in DOMAIN queue : queue'[k] = queue[k]
           /\ queue'[Len(queue) + 1] = j
<1>1. queue \in Seq(Job)
  BY DEF LinkTypeOK
<1>2. Len(queue) \in Nat /\ DOMAIN queue = 1 .. Len(queue)
  BY <1>1, LenProperties
<1>3. /\ queue' \in Seq(Job)
      /\ Len(queue') = Len(queue) + 1
      /\ \A k \in 1 .. Len(queue) : queue'[k] = queue[k]
      /\ queue'[Len(queue) + 1] = j
  BY <1>1, AppendProperties
<1>4. DOMAIN queue' = 1 .. Len(queue')
  BY <1>3, LenProperties
<1> QED BY <1>2, <1>3, <1>4

LEMMA QueueShortened ==
    ASSUME LinkTypeOK, queue # <<>>, queue' = Tail(queue)
    PROVE  /\ queue' \in Seq(Job)
           /\ 1 \in DOMAIN queue
           /\ Head(queue) = queue[1] /\ Head(queue) \in Job
           /\ \A k \in DOMAIN queue' : k + 1 \in DOMAIN queue /\ queue'[k] = queue[k + 1] /\ k \in Nat \ {0}
           /\ \A k \in DOMAIN queue : k = 1 \/ \E l \in DOMAIN queue' : k = l + 1
<1>1. queue \in Seq(Job)
  BY DEF LinkTypeOK
<1>2. Len(queue) \in Nat /\ DOMAIN queue = 1 .. Len(queue) /\ Len(queue) # 0
  BY <1>1, LenProperties, EmptySeq
<1>3. /\ Head(queue) \in Job /\ queue' \in Seq(Job)
      /\ Len(queue') = Len(queue) - 1
      /\ \A k \in 1 .. Len(queue') : queue'[k] = queue[k + 1]
  BY <1>1, HeadTailProperties
<1>4. DOMAIN queue' = 1 .. Len(queue')
  BY <1>3, LenProperties
<1>5. Head(queue) = queue[1]
  BY <1>1, <1>2
<1>6. ASSUME NEW k \in DOMAIN queue'
      PROVE  k + 1 \in DOMAIN queue /\ queue'[k] = queue[k + 1] /\ k \in Nat \ {0}
  <2>1. PICK n \in Nat : n = Len(queue) /\ n # 0
    BY <1>2
  <2>2. DOMAIN queue' = 1 .. n - 1 /\ DOMAIN queue = 1 .. n
    BY <1>2, <1>3, <1>4, <2>1
  <2>3. k \in 1 .. n - 1
    BY <2>2
  <2>4. k + 1 \in 1 .. n /\ k \in Nat \ {0}
    BY <2>1, <2>3
  <2>5. queue'[k] = queue[k + 1]
    BY <1>3, <1>4
  <2> QED BY <2>2, <2>4, <2>5
<1>7. ASSUME NEW k \in DOMAIN queue, k # 1
      PROVE  \E l \in DOMAIN queue' : k = l + 1
  <2>1. PICK n \in Nat : n = Len(queue) /\ n # 0
    BY <1>2
  <2>2. DOMAIN queue' = 1 .. n - 1 /\ k \in 1 .. n
    BY <1>2, <1>3, <1>4, <2>1
  <2>3. k - 1 \in 1 .. n - 1 /\ k = (k - 1) + 1
    BY <2>1, <2>2, <1>7
  <2> QED BY <2>2, <2>3
<1> QED BY <1>2, <1>3, <1>5, <1>6, <1>7

\* A job of one connection that is queued changes nothing for another.
LEMMA QueuedElsewhere ==
    ASSUME LinkTypeOK, NEW j \in Job, queue' = Append(queue, j), work' = work,
           NEW s \in Sockets, j.sock # s, buf'[s] = buf[s]
    PROVE  /\ Busy(s)' <=> Busy(s)
           /\ \A kind, text : OnlyJob(s, kind, text) => OnlyJob(s, kind, text)'
<1> DEFINE n == Len(queue)
<1>1. /\ n \in Nat /\ DOMAIN queue = 1 .. n /\ DOMAIN queue' = 1 .. n + 1
      /\ \A k \in DOMAIN queue : queue'[k] = queue[k]
      /\ queue'[n + 1] = j
  BY QueueAppended
<1> HIDE DEF n
<1>2. \A k \in DOMAIN queue' : queue'[k].sock = s =>
        k \in DOMAIN queue /\ queue[k].sock = s /\ queue'[k] = queue[k]
  BY <1>1
<1>3. \A k \in DOMAIN queue : k \in DOMAIN queue'
  BY <1>1
<1>4. Busy(s)' <=> Busy(s)
  BY <1>1, <1>2, <1>3 DEF Busy
<1>5. ASSUME NEW kind, NEW text, OnlyJob(s, kind, text)
      PROVE  OnlyJob(s, kind, text)'
  BY <1>2, <1>5 DEF OnlyJob, OneJob, At
<1> QED BY <1>4, <1>5


(***************************************************************************)
(* What a step must not disturb at a connection.                           *)
(***************************************************************************)

\* A connection whose phase and history stay, whose only job stays its only
\* job, and to which nothing is written, keeps its invariant.
LEMMA SocketStays ==
    ASSUME NEW s \in Sockets, SocketInv(s),
           phase'[s] = phase[s], lone'[s] = lone[s], early'[s] = early[s],
           Busy(s)' => Busy(s), phase[s] = "upgrading" => Busy(s)',
           \A kind, text : OnlyJob(s, kind, text) => OnlyJob(s, kind, text)',
           phase[s] = "upgrading" => \A w \in Workers : At(w, s)' => work'[w].pc # "wipe",
           ws' = s => ws = s,
           main' # None /\ ws' = s => main = main'
    PROVE  SocketInv(s)'
<1>1. (phase[s] \in {"new", "asked"} => ~Busy(s) /\ ws # s /\ lone[s] = None)'
  BY DEF SocketInv
<1>2. (phase[s] = "upgrading" =>
          /\ Busy(s) /\ lone[s] = None
          /\ \A w \in Workers : At(w, s) => work[w].pc # "wipe")'
  BY DEF SocketInv
<1>3. (phase[s] = "upgrading" /\ ~early[s] =>
          /\ OnlyJob(s, "connect", Handshake)
          /\ ws = s => main = None)'
  BY DEF SocketInv
<1>4. (phase[s] = "failed" => early[s])'
  BY DEF SocketInv
<1>5. (lone[s] # None =>
          /\ OnlyJob(s, "send", lone[s])
          /\ main # None /\ ws = s => main = lone[s] /\ ~Busy(s))'
  <2>1. SUFFICES ASSUME lone'[s] # None
                 PROVE  /\ OnlyJob(s, "send", lone[s])'
                        /\ main' # None /\ ws' = s => main' = lone'[s] /\ ~Busy(s)'
    OBVIOUS
  <2>2. PICK m : m = lone[s]
    OBVIOUS
  <2>3. OnlyJob(s, "send", m)'
    BY <2>1, <2>2 DEF SocketInv
  <2>4. OnlyJob(s, "send", lone[s])'
    BY <2>2, <2>3 DEF OnlyJob
  <2> QED BY <2>1, <2>4 DEF SocketInv
<1> QED BY <1>1, <1>2, <1>3, <1>4, <1>5 DEF SocketInv

\* Without a change of the jobs nothing is disturbed.
LEMMA JobsStay ==
    ASSUME NEW s \in Sockets, queue' = queue, work' = work, buf'[s] = buf[s]
    PROVE  /\ Busy(s)' <=> Busy(s)
           /\ \A kind, text : OnlyJob(s, kind, text) => OnlyJob(s, kind, text)'
           /\ \A w : At(w, s)' => At(w, s) /\ work'[w] = work[w]
BY DEF Busy, OnlyJob, OneJob, At

(***************************************************************************)
(* The main thread.                                                        *)
(***************************************************************************)

LEMMA AskSocketKeeps ==
    ASSUME LinkInv, NEW s \in Sockets, AskSocket(s),
           UNCHANGED <<ws, buf, queue, work, main, unsent, lone, early, wire>>
    PROVE  LinkInv'
<1>1. LinkTypeOK'
  BY DEF LinkInv, LinkTypeOK, AskSocket
<1>2. ASSUME NEW t \in Sockets PROVE SocketInv(t)'
  <2>1. SocketInv(t) /\ phase \in [Sockets -> {"new", "asked", "upgrading", "open", "failed"}]
    BY DEF LinkInv, LinkTypeOK
  <2>2. /\ Busy(t)' <=> Busy(t)
        /\ \A kind, text : OnlyJob(t, kind, text) => OnlyJob(t, kind, text)'
        /\ \A w : At(w, t)' => At(w, t) /\ work'[w] = work[w]
    BY JobsStay
  <2>3. CASE t = s
    BY <2>1, <2>2, <2>3 DEF SocketInv, AskSocket
  <2>4. CASE t # s
    <3>1. phase'[t] = phase[t]
      BY <2>1, <2>4 DEF AskSocket
    <3>2. phase[t] = "upgrading" => Busy(t)' /\ \A w \in Workers : At(w, t)' => work'[w].pc # "wipe"
      BY <2>1, <2>2 DEF SocketInv
    <3> QED BY <2>1, <2>2, <3>1, <3>2, SocketStays
  <2> QED BY <2>3, <2>4
<1> QED BY <1>1, <1>2 DEF LinkInv

LEMMA UpgradeKeeps ==
    ASSUME LinkInv, NEW s \in Sockets, Upgrade(s)
    PROVE  LinkInv'
<1> DEFINE j == [job |-> "connect", sock |-> s]
           n == Len(queue)
<1>1. LinkTypeOK /\ j \in Job /\ queue' = Append(queue, j) /\ work' = work
  BY DEF LinkInv, Job, Upgrade
<1>2. /\ queue' \in Seq(Job)
      /\ n \in Nat /\ DOMAIN queue = 1 .. n /\ DOMAIN queue' = 1 .. n + 1
      /\ \A k \in DOMAIN queue : queue'[k] = queue[k]
      /\ queue'[n + 1] = j
  BY <1>1, QueueAppended
<1>3. LinkTypeOK'
  BY <1>1, <1>2 DEF LinkTypeOK, Upgrade, Text
<1>4. j.sock = s /\ j.job = "connect"
  OBVIOUS
<1> HIDE DEF j, n
<1>5. ASSUME NEW t \in Sockets, t # s PROVE SocketInv(t)'
  <2>1. SocketInv(t) /\ phase'[t] = phase[t] /\ buf'[t] = buf[t]
    BY <1>1, <1>5 DEF LinkInv, LinkTypeOK, Upgrade
  <2>2. /\ Busy(t)' <=> Busy(t)
        /\ \A kind, text : OnlyJob(t, kind, text) => OnlyJob(t, kind, text)'
    BY <1>1, <1>4, <1>5, <2>1, QueuedElsewhere
  <2>3. phase[t] = "upgrading" => Busy(t)' /\ \A w \in Workers : At(w, t)' => work'[w].pc # "wipe"
    BY <1>1, <2>1, <2>2 DEF SocketInv, At
  <2> QED BY <1>1, <1>5, <2>1, <2>2, <2>3, SocketStays, LinkAssumption DEF Upgrade
<1>6. SocketInv(s)'
  <2>1. SocketInv(s) /\ ~Busy(s) /\ lone[s] = None /\ phase'[s] = "upgrading" /\ buf'[s] = Handshake
        /\ main' = None /\ lone' = lone
    BY <1>1 DEF LinkInv, LinkTypeOK, Upgrade, SocketInv
  <2>2. \A w \in Workers : ~At(w, s) /\ ~At(w, s)'
    BY <1>1, <2>1 DEF Busy, At
  <2>3. \A k \in DOMAIN queue' : queue'[k].sock = s => k = n + 1
    BY <1>2, <2>1 DEF Busy
  <2>4. Busy(s)'
    BY <1>2, <1>4 DEF Busy
  <2>5. OnlyJob(s, "connect", Handshake)'
    BY <1>2, <1>4, <2>1, <2>2, <2>3 DEF OnlyJob, OneJob
  <2> QED BY <2>1, <2>2, <2>4, <2>5 DEF SocketInv
<1> QED BY <1>3, <1>5, <1>6 DEF LinkInv

LEMMA SendClearKeeps ==
    ASSUME LinkInv, NEW m \in Messages, SendClear(m)
    PROVE  LinkInv'
<1>1. LinkTypeOK /\ ws \in Sockets /\ ws' = ws /\ phase' = phase /\ queue' = queue /\ work' = work
  BY DEF LinkInv, LinkTypeOK, SendClear
<1>2. LinkTypeOK'
  <2>1. buf' \in [Sockets -> Text] /\ early' \in [Sockets -> BOOLEAN]
    BY <1>1 DEF LinkTypeOK, SendClear, Text
  <2>2. lone' \in [Sockets -> Messages \cup {None}]
    BY <1>1 DEF LinkTypeOK, SendClear
  <2> QED BY <1>1, <2>1, <2>2 DEF LinkTypeOK, SendClear
<1>3. ASSUME NEW t \in Sockets, t # ws PROVE SocketInv(t)'
  <2>1. SocketInv(t) /\ buf'[t] = buf[t] /\ lone'[t] = lone[t] /\ early'[t] = early[t]
    BY <1>1, <1>3 DEF LinkInv, LinkTypeOK, SendClear
  <2>2. /\ Busy(t)' <=> Busy(t)
        /\ \A kind, text : OnlyJob(t, kind, text) => OnlyJob(t, kind, text)'
        /\ \A w : At(w, t)' => At(w, t) /\ work'[w] = work[w]
    BY <1>1, <2>1, JobsStay
  <2>3. phase[t] = "upgrading" => Busy(t)' /\ \A w \in Workers : At(w, t)' => work'[w].pc # "wipe"
    BY <2>1, <2>2 DEF SocketInv
  <2> QED BY <1>1, <1>3, <2>1, <2>2, <2>3, SocketStays
<1>4. SocketInv(ws)'
  <2>1. PICK s \in Sockets : s = ws /\ s = ws'
    BY <1>1
  <2>2. SocketInv(s) /\ phase[s] \notin {"new", "asked"}
    BY <2>1 DEF LinkInv, SocketInv
  <2>3. /\ early'[s] = (early[s] \/ phase[s] = "upgrading")
        /\ lone'[s] = IF Busy(s) THEN None ELSE m
        /\ main' = m /\ m # None /\ lone[s] \in Messages \cup {None}
    BY <1>1, <2>1, LinkAssumption DEF LinkTypeOK, SendClear
  <2>4. (Busy(s)' <=> Busy(s)) /\ \A w : At(w, s)' => At(w, s) /\ work'[w] = work[w]
    BY <1>1 DEF Busy, At
  <2>5. (phase[s] = "upgrading" =>
            /\ Busy(s) /\ lone[s] = None
            /\ \A w \in Workers : At(w, s) => work[w].pc # "wipe")'
    BY <1>1, <2>2, <2>3, <2>4 DEF SocketInv
  <2>6. phase'[s] = "upgrading" => early'[s]
    BY <1>1, <2>3
  <2>7. phase'[s] = "failed" => early'[s]
    BY <1>1, <2>2, <2>3 DEF SocketInv
  <2>8. (lone[s] # None =>
            /\ OnlyJob(s, "send", lone[s])
            /\ main # None /\ ws = s => main = lone[s] /\ ~Busy(s))'
    <3>1. SUFFICES ASSUME lone'[s] # None
                   PROVE  OnlyJob(s, "send", lone[s])' /\ main' = lone'[s] /\ ~Busy(s)'
      OBVIOUS
    <3>2. ~Busy(s) /\ lone'[s] = m
      BY <2>3, <3>1
    <3>3. OnlyJob(s, "send", lone[s])'
      BY <1>1, <3>2 DEF OnlyJob, OneJob, At, Busy
    <3> QED BY <2>3, <2>4, <3>2, <3>3
  <2>9. SocketInv(s)'
    BY <1>1, <2>2, <2>5, <2>6, <2>7, <2>8 DEF SocketInv
  <2> QED BY <2>1, <2>9 DEF SocketInv, OnlyJob, OneJob, At, Busy
<1> QED BY <1>1, <1>2, <1>3, <1>4 DEF LinkInv

LEMMA SendCopyKeeps ==
    ASSUME LinkInv, SendCopy
    PROVE  LinkInv'
<1> DEFINE n == Len(queue)
<1>1. LinkTypeOK /\ ws \in Sockets /\ UNCHANGED <<ws, phase, work, lone, early>>
  BY DEF LinkInv, LinkTypeOK, SendCopy
<1>2. SendJob \in Job /\ queue' = Append(queue, SendJob) /\ SendJob.sock = ws /\ SendJob.job = "send"
  BY <1>1 DEF SendJob, Job, SendCopy, Left
<1>3. /\ queue' \in Seq(Job)
      /\ n \in Nat /\ DOMAIN queue = 1 .. n /\ DOMAIN queue' = 1 .. n + 1
      /\ \A k \in DOMAIN queue : queue'[k] = queue[k]
      /\ queue'[n + 1] = SendJob
  BY <1>1, <1>2, QueueAppended
<1> HIDE DEF n
<1>4. LinkTypeOK'
  <2>1. buf' \in [Sockets -> Text]
    BY <1>1 DEF LinkTypeOK, SendCopy, Text
  <2> QED BY <1>1, <1>3, <2>1 DEF LinkTypeOK, SendCopy
<1>5. ASSUME NEW t \in Sockets, t # ws PROVE SocketInv(t)'
  <2>1. SocketInv(t) /\ buf'[t] = buf[t] /\ main' = None
    BY <1>1, <1>5 DEF LinkInv, LinkTypeOK, SendCopy
  <2>2. /\ Busy(t)' <=> Busy(t)
        /\ \A kind, text : OnlyJob(t, kind, text) => OnlyJob(t, kind, text)'
    BY <1>1, <1>2, <1>5, <2>1, QueuedElsewhere
  <2>3. phase[t] = "upgrading" => Busy(t)' /\ \A w \in Workers : At(w, t)' => work'[w].pc # "wipe"
    BY <1>1, <2>1, <2>2 DEF SocketInv, At
  <2> QED BY <1>1, <1>5, <2>1, <2>2, <2>3, SocketStays
<1>6. ASSUME NEW t \in Sockets, t = ws PROVE SocketInv(t)'
  <2>1. SocketInv(t) /\ phase[t] \notin {"new", "asked"} /\ main # None /\ buf'[t] = main /\ main' = None
    BY <1>1, <1>6 DEF LinkInv, LinkTypeOK, SendCopy, SocketInv
  <2>2. Busy(t)'
    BY <1>2, <1>3, <1>6 DEF Busy
  <2>3. phase[t] = "upgrading" =>
            /\ early[t] /\ lone[t] = None
            /\ \A w \in Workers : At(w, t)' => work'[w].pc # "wipe"
    BY <1>1, <1>6, <2>1 DEF SocketInv, At
  <2>4. ASSUME lone[t] # None PROVE OnlyJob(t, "send", lone[t])'
    <3>1. ~Busy(t) /\ buf'[t] = lone'[t]
      BY <1>1, <1>6, <2>1, <2>4 DEF SocketInv
    <3>2. \A w \in Workers : ~At(w, t)'
      BY <1>1, <3>1 DEF Busy, At
    <3>3. \A k \in DOMAIN queue' : queue'[k].sock = t => k = n + 1
      BY <1>3, <3>1 DEF Busy
    <3> QED BY <1>2, <1>3, <3>1, <3>2, <3>3 DEF OnlyJob, OneJob
  <2>5. phase[t] = "failed" => early[t]
    BY <2>1 DEF SocketInv
  <2> QED BY <1>1, <2>1, <2>2, <2>3, <2>4, <2>5 DEF SocketInv
<1> QED BY <1>4, <1>5, <1>6 DEF LinkInv

(***************************************************************************)
(* The workers.                                                            *)
(***************************************************************************)

\* A job that a worker takes stays the only job of its connection.
LEMMA TakeKeepsJobs ==
    ASSUME LinkTypeOK, NEW w \in Workers, Take(w), NEW s \in Sockets
    PROVE  /\ Busy(s)' <=> Busy(s)
           /\ \A kind, text : OnlyJob(s, kind, text) => OnlyJob(s, kind, text)'
           /\ \A v \in Workers : At(v, s)' => work'[v].pc = "copy" \/ (At(v, s) /\ work'[v] = work[v])
<1> DEFINE h == Head(queue)
<1>1. /\ 1 \in DOMAIN queue
      /\ h = queue[1] /\ h \in Job
      /\ \A k \in DOMAIN queue' : k + 1 \in DOMAIN queue /\ queue'[k] = queue[k + 1] /\ k \in Nat \ {0}
      /\ \A k \in DOMAIN queue : k = 1 \/ \E l \in DOMAIN queue' : k = l + 1
  BY QueueShortened DEF Take
<1>2. /\ work[w] = None /\ buf' = buf
      /\ work'[w] = [job |-> h.job, sock |-> h.sock, pc |-> "copy", text |-> Blank]
      /\ \A v \in Workers : v # w => work'[v] = work[v]
  BY DEF Take, LinkTypeOK
<1> HIDE DEF h
<1>3. work'[w] # None /\ work'[w].job = h.job /\ work'[w].sock = h.sock /\ work'[w].pc = "copy"
  <2>1. work'[w] \in Work
    BY <1>1, <1>2 DEF Work, Job, Text
  <2> QED BY <1>2, <2>1, LinkAssumption
<1>4. \A v \in Workers : At(v, s)' <=> (v = w /\ queue[1].sock = s) \/ (v # w /\ At(v, s))
  BY <1>1, <1>2, <1>3 DEF At
<1>5. Busy(s)' <=> Busy(s)
  <2>1. ASSUME Busy(s) PROVE Busy(s)'
    <3>1. CASE \E v \in Workers : At(v, s)
      BY <1>2, <1>4, <3>1 DEF Busy, At
    <3>2. CASE \E k \in DOMAIN queue : queue[k].sock = s
      BY <1>1, <1>3, <3>2 DEF Busy
    <3> QED BY <2>1, <3>1, <3>2 DEF Busy, At
  <2>2. ASSUME Busy(s)' PROVE Busy(s)
    <3>1. CASE \E v \in Workers : At(v, s)'
      BY <1>1, <1>4, <3>1 DEF Busy, At
    <3>2. CASE \E k \in DOMAIN queue' : queue'[k].sock = s
      BY <1>1, <3>2 DEF Busy
    <3> QED BY <2>2, <3>1, <3>2 DEF Busy, At
  <2> QED BY <2>1, <2>2
<1>6. ASSUME OneJob(s) PROVE OneJob(s)'
  <2>1. \A k, l \in DOMAIN queue' : queue'[k].sock = s /\ queue'[l].sock = s => k = l
    BY <1>1, <1>6 DEF OneJob
  <2>2. \A k \in DOMAIN queue', v \in Workers : queue'[k].sock = s => ~At(v, s)'
    BY <1>1, <1>4, <1>6 DEF OneJob
  <2>3. \A u, v \in Workers : At(u, s)' /\ At(v, s)' => u = v
    BY <1>1, <1>4, <1>6 DEF OneJob
  <2> QED BY <2>1, <2>2, <2>3 DEF OneJob
<1>7. ASSUME NEW kind, NEW text, OnlyJob(s, kind, text) PROVE OnlyJob(s, kind, text)'
  <2>1. OneJob(s)'
    BY <1>6, <1>7 DEF OnlyJob
  <2>2. \A k \in DOMAIN queue' : queue'[k].sock = s => queue'[k].job = kind /\ buf'[s] = text
    BY <1>1, <1>2, <1>7 DEF OnlyJob
  <2>3. \A v \in Workers : At(v, s)' =>
          /\ work'[v].job = kind
          /\ work'[v].pc = "copy" => buf'[s] = text
          /\ work'[v].pc = "transmit" => work'[v].text = text
    BY <1>1, <1>2, <1>3, <1>4, <1>7 DEF OnlyJob
  <2> QED BY <2>1, <2>2, <2>3 DEF OnlyJob
<1>8. \A v \in Workers : At(v, s)' => work'[v].pc = "copy" \/ (At(v, s) /\ work'[v] = work[v])
  BY <1>2, <1>3, <1>4
<1> QED BY <1>5, <1>7, <1>8

LEMMA TakeKeeps ==
    ASSUME LinkInv, NEW w \in Workers, Take(w)
    PROVE  LinkInv'
<1>1. LinkTypeOK
  BY DEF LinkInv
<1>2. LinkTypeOK'
  <2>1. queue' \in Seq(Job) /\ Head(queue) \in Job
    BY <1>1, QueueShortened DEF Take
  <2>2. [job |-> Head(queue).job, sock |-> Head(queue).sock, pc |-> "copy", text |-> Blank] \in Work
    BY <2>1 DEF Job, Work, Text
  <2>3. work' \in [Workers -> Work \cup {None}]
    BY <1>1, <2>2 DEF LinkTypeOK, Take
  <2> QED BY <1>1, <2>1, <2>3 DEF LinkTypeOK, Take
<1>3. ASSUME NEW s \in Sockets PROVE SocketInv(s)'
  <2>1. SocketInv(s)
    BY DEF LinkInv
  <2>2. /\ Busy(s)' <=> Busy(s)
        /\ \A kind, text : OnlyJob(s, kind, text) => OnlyJob(s, kind, text)'
        /\ \A v \in Workers : At(v, s)' => work'[v].pc = "copy" \/ (At(v, s) /\ work'[v] = work[v])
    BY <1>1, TakeKeepsJobs
  <2>3. phase[s] = "upgrading" => Busy(s)' /\ \A v \in Workers : At(v, s)' => work'[v].pc # "wipe"
    BY <2>1, <2>2 DEF SocketInv
  <2> QED BY <2>1, <2>2, <2>3, SocketStays DEF Take
<1> QED BY <1>2, <1>3 DEF LinkInv

\* A worker that goes on with its job leaves every job where it is.
LEMMA StepKeepsJobs ==
    ASSUME LinkTypeOK, NEW w \in Workers, NEW s \in Sockets, work[w] # None,
           work'[w] # None, work'[w].sock = work[w].sock, work'[w].job = work[w].job,
           \A v \in Workers : v # w => work'[v] = work[v],
           queue' = queue, buf' = buf,
           work'[w].pc = "transmit" => work[w].pc = "copy" /\ work'[w].text = buf[work[w].sock],
           work'[w].pc # "copy"
    PROVE  /\ \A v \in Workers : At(v, s)' <=> At(v, s)
           /\ Busy(s)' <=> Busy(s)
           /\ \A kind, text : OnlyJob(s, kind, text) => OnlyJob(s, kind, text)'
<1>1. \A v \in Workers : At(v, s)' <=> At(v, s)
  BY DEF At
<1>2. Busy(s)' <=> Busy(s)
  BY <1>1 DEF Busy, At
<1>3. ASSUME OneJob(s) PROVE OneJob(s)'
  BY <1>1, <1>3 DEF OneJob
<1>4. ASSUME NEW kind, NEW text, OnlyJob(s, kind, text) PROVE OnlyJob(s, kind, text)'
  <2>1. OneJob(s)'
    BY <1>3, <1>4 DEF OnlyJob
  <2>2. \A k \in DOMAIN queue' : queue'[k].sock = s => queue'[k].job = kind /\ buf'[s] = text
    BY <1>4 DEF OnlyJob
  <2>3. ASSUME NEW v \in Workers, At(v, s)'
        PROVE  /\ work'[v].job = kind
               /\ work'[v].pc = "copy" => buf'[s] = text
               /\ work'[v].pc = "transmit" => work'[v].text = text
    <3>1. At(v, s) /\ work[v].sock = s
      BY <1>1, <2>3 DEF At
    <3> QED BY <1>4, <3>1 DEF OnlyJob
  <2> QED BY <2>1, <2>2, <2>3 DEF OnlyJob
<1> QED BY <1>1, <1>2, <1>4

LEMMA CopyBufferKeeps ==
    ASSUME LinkInv, NEW w \in Workers, CopyBuffer(w)
    PROVE  LinkInv'
<1>1. LinkTypeOK /\ work[w] \in Work /\ work[w].pc = "copy" /\ buf[work[w].sock] \in Text
  BY DEF LinkInv, LinkTypeOK, CopyBuffer, Work
<1>2. /\ work'[w] = [work[w] EXCEPT !.pc = "transmit", !.text = buf[work[w].sock]]
      /\ \A v \in Workers : v # w => work'[v] = work[v]
  BY <1>1 DEF CopyBuffer, OwnText, LinkTypeOK
<1>3. work'[w] \in Work /\ work'[w].sock = work[w].sock /\ work'[w].job = work[w].job
      /\ work'[w].pc = "transmit" /\ work'[w].text = buf[work[w].sock]
  BY <1>1, <1>2 DEF Work
<1>4. work'[w] # None /\ work[w] # None
  BY <1>1, <1>3, LinkAssumption
<1>5. LinkTypeOK'
  <2>1. work' \in [Workers -> Work \cup {None}]
    <3>1. work' = [work EXCEPT ![w] = work'[w]]
      BY <1>1 DEF CopyBuffer, LinkTypeOK
    <3> QED BY <1>1, <1>3, <3>1 DEF LinkTypeOK
  <2> QED BY <1>1, <2>1 DEF LinkTypeOK, CopyBuffer
<1>6. ASSUME NEW s \in Sockets PROVE SocketInv(s)'
  <2>1. SocketInv(s)
    BY DEF LinkInv
  <2>2. /\ \A v \in Workers : At(v, s)' <=> At(v, s)
        /\ Busy(s)' <=> Busy(s)
        /\ \A kind, text : OnlyJob(s, kind, text) => OnlyJob(s, kind, text)'
    BY <1>1, <1>2, <1>3, <1>4, StepKeepsJobs DEF CopyBuffer
  <2>3. phase[s] = "upgrading" => Busy(s)' /\ \A v \in Workers : At(v, s)' => work'[v].pc # "wipe"
    BY <1>2, <1>3, <2>1, <2>2 DEF SocketInv
  <2> QED BY <2>1, <2>2, <2>3, SocketStays DEF CopyBuffer
<1> QED BY <1>5, <1>6 DEF LinkInv

LEMMA TransmitKeeps ==
    ASSUME LinkInv, NEW w \in Workers, Transmit(w)
    PROVE  LinkInv'
<1>1. LinkTypeOK /\ work[w] \in Work /\ work[w].pc = "transmit" /\ work[w].sock \in Sockets
  BY DEF LinkInv, LinkTypeOK, Transmit, Work
<1>2. /\ work'[w] = [work[w] EXCEPT !.pc = "wipe"]
      /\ \A v \in Workers : v # w => work'[v] = work[v]
  BY <1>1 DEF Transmit, LinkTypeOK
<1>3. work'[w] \in Work /\ work'[w].sock = work[w].sock /\ work'[w].job = work[w].job /\ work'[w].pc = "wipe"
  BY <1>1, <1>2 DEF Work
<1>4. work'[w] # None /\ work[w] # None
  BY <1>1, <1>3, LinkAssumption
<1>5. LinkTypeOK'
  <2>1. work' \in [Workers -> Work \cup {None}]
    <3>1. work' = [work EXCEPT ![w] = work'[w]]
      BY <1>1 DEF Transmit, LinkTypeOK
    <3> QED BY <1>1, <1>3, <3>1 DEF LinkTypeOK
  <2>2. phase' \in [Sockets -> {"new", "asked", "upgrading", "open", "failed"}]
    BY <1>1 DEF LinkTypeOK, Transmit
  <2>3. wire' \in [Sockets -> Seq(Messages \cup {Blank, Handshake})]
    <3>1. wire[work[w].sock] \in Seq(Messages \cup {Blank, Handshake})
          /\ work[w].text \in Messages \cup {Blank, Handshake}
      BY <1>1 DEF LinkTypeOK, Work, Text
    <3>2. Append(wire[work[w].sock], work[w].text) \in Seq(Messages \cup {Blank, Handshake})
      BY <3>1, AppendProperties
    <3> QED BY <1>1, <3>2 DEF LinkTypeOK, Transmit
  <2> QED BY <1>1, <2>1, <2>2, <2>3 DEF LinkTypeOK, Transmit
<1>6. ASSUME NEW s \in Sockets PROVE SocketInv(s)'
  <2>1. SocketInv(s)
    BY DEF LinkInv
  <2>2. /\ \A v \in Workers : At(v, s)' <=> At(v, s)
        /\ Busy(s)' <=> Busy(s)
        /\ \A kind, text : OnlyJob(s, kind, text) => OnlyJob(s, kind, text)'
    BY <1>1, <1>2, <1>3, <1>4, StepKeepsJobs DEF Transmit
  <2>3. CASE s # work[w].sock \/ phase[s] # "upgrading"
    <3>1. phase'[s] = phase[s]
      BY <1>1, <2>3 DEF Transmit, LinkTypeOK
    <3>2. phase[s] = "upgrading" => Busy(s)' /\ \A v \in Workers : At(v, s)' => work'[v].pc # "wipe"
      BY <1>2, <1>3, <2>1, <2>2, <2>3 DEF SocketInv, At
    <3> QED BY <2>1, <2>2, <3>1, <3>2, SocketStays DEF Transmit
  <2>4. CASE s = work[w].sock /\ phase[s] = "upgrading"
    <3>1. phase'[s] = IF Answered(w) THEN "open" ELSE "failed"
      BY <1>1, <2>4 DEF Transmit, LinkTypeOK
    <3>2. At(w, s) /\ lone[s] = None
      BY <1>4, <2>1, <2>4 DEF At, SocketInv
    <3>3. ~early[s] => Answered(w)
      BY <1>1, <2>1, <2>4, <3>2 DEF SocketInv, OnlyJob, Answered
    <3> QED BY <3>1, <3>2, <3>3 DEF SocketInv, Transmit
  <2> QED BY <2>3, <2>4
<1> QED BY <1>5, <1>6 DEF LinkInv

\* The end of a job leaves the jobs of the other connections, and none where it
\* was the only one.
LEMMA WipeKeeps ==
    ASSUME LinkInv, NEW w \in Workers, Wipe(w)
    PROVE  LinkInv'
<1>1. LinkTypeOK /\ work[w] \in Work /\ work[w].pc = "wipe" /\ work[w].sock \in Sockets /\ work[w] # None
  BY DEF LinkInv, LinkTypeOK, Wipe, Work
<1>2. work'[w] = None /\ (\A v \in Workers : v # w => work'[v] = work[v]) /\ queue' = queue
  BY <1>1 DEF Wipe, LinkTypeOK
<1>3. LinkTypeOK'
  <2>1. buf' \in [Sockets -> Text]
    BY <1>1 DEF LinkTypeOK, Wipe, Text
  <2>2. work' \in [Workers -> Work \cup {None}]
    BY <1>1 DEF LinkTypeOK, Wipe
  <2> QED BY <1>1, <2>1, <2>2 DEF LinkTypeOK, Wipe
<1>4. ASSUME NEW s \in Sockets PROVE SocketInv(s)'
  <2>1. SocketInv(s)
    BY DEF LinkInv
  <2>2. \A v \in Workers : At(v, s)' <=> v # w /\ At(v, s)
    BY <1>2 DEF At
  <2>3. Busy(s)' => Busy(s)
    BY <1>2 DEF Busy
  <2>4. CASE s # work[w].sock
    <3>1. \A v \in Workers : (At(v, s)' <=> At(v, s)) /\ (At(v, s) => work'[v] = work[v])
      BY <1>2, <2>2, <2>4 DEF At
    <3>2. Busy(s)' <=> Busy(s)
      BY <1>2, <3>1 DEF Busy, At
    <3>3. buf'[s] = buf[s]
      BY <1>1, <2>4 DEF Wipe, LinkTypeOK
    <3>4. \A kind, text : OnlyJob(s, kind, text) => OnlyJob(s, kind, text)'
      BY <1>2, <3>1, <3>3 DEF OnlyJob, OneJob
    <3>5. phase[s] = "upgrading" => Busy(s)' /\ \A v \in Workers : At(v, s)' => work'[v].pc # "wipe"
      BY <2>1, <3>1, <3>2 DEF SocketInv
    <3> QED BY <2>1, <3>2, <3>4, <3>5, SocketStays DEF Wipe
  <2>5. CASE s = work[w].sock
    <3>1. At(w, s) /\ phase[s] # "upgrading"
      BY <1>1, <2>1, <2>5 DEF At, SocketInv
    <3>2. ASSUME NEW kind, NEW text, OnlyJob(s, kind, text)
          PROVE  OnlyJob(s, kind, text)'
      <4>1. \A v \in Workers : ~At(v, s)'
        BY <2>2, <3>1, <3>2 DEF OnlyJob, OneJob
      <4>2. \A k \in DOMAIN queue : queue[k].sock # s
        BY <3>1, <3>2 DEF OnlyJob, OneJob
      <4> QED BY <1>2, <4>1, <4>2 DEF OnlyJob, OneJob
    <3> QED BY <2>1, <2>3, <3>1, <3>2, SocketStays DEF Wipe
  <2> QED BY <2>4, <2>5
<1> QED BY <1>3, <1>4 DEF LinkInv

LEMMA ServerKeeps == ASSUME LinkInv, Server PROVE LinkInv'
<1>1. CASE \E s \in Sockets : Upgrade(s)
  BY <1>1, UpgradeKeeps
<1>2. CASE \E m \in Messages : SendClear(m)
  BY <1>2, SendClearKeeps
<1>3. CASE SendCopy
  BY <1>3, SendCopyKeeps
<1>4. CASE \E w \in Workers : WorkerStep(w)
  BY <1>4, TakeKeeps, CopyBufferKeeps, TransmitKeeps, WipeKeeps DEF WorkerStep
<1> QED BY <1>1, <1>2, <1>3, <1>4 DEF Server

(***************************************************************************)
(* The page.                                                               *)
(***************************************************************************)

\* Nothing that the page receives or draws changes the connections.
LEMMA QuietKeeps ==
    ASSUME LinkInv, wire' \in [Sockets -> Seq(Messages \cup {Blank, Handshake})],
           UNCHANGED <<ws, phase, buf, queue, work, main, unsent, lone, early>>
    PROVE  LinkInv'
<1>1. LinkTypeOK'
  BY DEF LinkInv, LinkTypeOK
<1>2. ASSUME NEW s \in Sockets PROVE SocketInv(s)'
  BY DEF LinkInv, SocketInv, OnlyJob, OneJob, At, Busy
<1> QED BY <1>1, <1>2 DEF LinkInv

-----------------------------------------------------------------------------
(***************************************************************************)
(* The feed.                                                               *)
(***************************************************************************)

Inv == TypeOK /\ LinkInv /\ ChartInv

LEMMA InitInv == ASSUME Init PROVE Inv
<1>1. LinkInv /\ ChartInv
  BY InitLinkInv, InitChartInv DEF Init
<1> QED BY <1>1 DEF Init, Inv, TypeOK, LinkInv, ChartInv

LEMMA ReceiveKeeps == ASSUME Inv, NEW s \in Sockets, Receive(s) PROVE Inv'
<1> DEFINE m == Head(wire[s])
           S == Messages \cup {Blank, Handshake}
<1>1. wire \in [Sockets -> Seq(S)] /\ wire[s] # <<>> /\ wire' = [wire EXCEPT ![s] = Tail(wire[s])]
  BY DEF Inv, TypeOK, LinkTypeOK, Receive
<1>2. Tail(wire[s]) \in Seq(S)
  BY <1>1, HeadTailProperties
<1>3. wire' \in [Sockets -> Seq(S)]
  BY <1>1, <1>2
<1>4. LinkInv'
  BY <1>3, QuietKeeps DEF Inv, Receive
<1>5. ChartInv'
  <2>1. CASE m \in Messages /\ chart # "none"
    <3>1. Value[m] \in Int /\ AppendValue(Value[m])
      BY <2>1, FeedAssumption DEF Receive
    <3> QED BY <3>1, AppendKeepsChart DEF Inv
  <2>2. CASE ~(m \in Messages /\ chart # "none")
    BY <2>2, ChartStays DEF Inv, Receive
  <2> QED BY <2>1, <2>2
<1>6. chart' \in {"none", "shown", "removed"} /\ received' \subseteq Messages
  BY DEF Inv, TypeOK, Receive
<1> QED BY <1>4, <1>5, <1>6 DEF Inv, TypeOK, LinkInv, ChartInv

LEMMA LoadPageKeeps ==
    ASSUME Inv, NEW s \in Sockets, NEW listed \in BOOLEAN, LoadPage(s, listed)
    PROVE  Inv'
<1>1. LinkInv'
  BY AskSocketKeeps DEF Inv, LoadPage
<1>2. ChartInv'
  <2>1. CASE listed
    BY <2>1, NewChartInv DEF LoadPage
  <2>2. CASE ~listed
    BY <2>2, ChartStays DEF Inv, LoadPage
  <2> QED BY <2>1, <2>2
<1>3. chart' \in {"none", "shown", "removed"} /\ received' \subseteq Messages
  BY DEF Inv, TypeOK, LoadPage
<1> QED BY <1>1, <1>2, <1>3 DEF Inv, TypeOK, LinkInv, ChartInv

LEMMA StepInv == ASSUME Inv, [Next]_vars PROVE Inv'
<1>1. CASE \E s \in Sockets, listed \in BOOLEAN : LoadPage(s, listed)
  BY <1>1, LoadPageKeeps
<1>2. CASE \E s \in Sockets : Receive(s)
  BY <1>2, ReceiveKeeps
<1>3. CASE Server
  <2>1. LinkInv' /\ ChartInv'
    BY <1>3, ServerKeeps, ChartStays DEF Inv, Server
  <2> QED BY <1>3, <2>1 DEF Inv, TypeOK, LinkInv, ChartInv, Server, feedVars
<1>4. CASE View \/ UNCHANGED vars
  <2>1. LinkInv'
    BY <1>4, QuietKeeps DEF Inv, TypeOK, LinkTypeOK, View, vars, linkVars
  <2>2. ChartInv'
    BY <1>4, ViewKeepsChart, ChartStays DEF Inv, View, vars
  <2> QED BY <1>4, <2>1, <2>2 DEF Inv, TypeOK, LinkInv, ChartInv, View, vars, feedVars
<1> QED BY <1>1, <1>2, <1>3, <1>4 DEF Next

LEMMA Invariance == Spec => []Inv
BY InitInv, StepInv, PTL DEF Spec

\* The types of the link, the chart and the feed, for any number of connections,
\* messages and threads: in particular ws_send is between its two writes only
\* when a client was upgraded.
THEOREM FeedTypeCorrect == Spec => []TypeOK
<1>1. Inv => TypeOK
  BY DEF Inv
<1> QED BY <1>1, Invariance, PTL

\* ws_send and ws_to_client: a message written while no job of its connection
\* was queued or under way is the text that its job sends, whatever the other
\* connections and threads do, until another is written.
THEOREM LoneSendsIntact == Spec => []LoneSendIntact
<1>1. Inv => LoneSendIntact
  <2>1. SUFFICES ASSUME Inv, NEW w \in Workers, work[w] # None, work[w].job = "send",
                        work[w].pc = "transmit", lone[work[w].sock] # None
                 PROVE  work[w].text = lone[work[w].sock] /\ phase[work[w].sock] # "upgrading"
    BY DEF LoneSendIntact
  <2>2. work[w].sock \in Sockets
    BY <2>1 DEF Inv, TypeOK, LinkTypeOK, Work
  <2> QED BY <2>1, <2>2 DEF Inv, LinkInv, SocketInv, OnlyJob, At
<1> QED BY <1>1, Invariance, PTL

\* connect: the pool finds the request of a new client in its buffer and answers
\* the handshake, unless a message was written over it first.
THEOREM UpgradesFailOnlyByEarlySend == Spec => []FailsOnlyByEarlySend
<1>1. Inv => FailsOnlyByEarlySend
  BY DEF Inv, LinkInv, SocketInv, FailsOnlyByEarlySend
<1> QED BY <1>1, Invariance, PTL

\* LiveChart: the axis covers the values within its tolerance, every point has
\* its label, and no frame reads a point that is not there, for any values and
\* in any order of appends, wheel turns, frames and reloads.
THEOREM ChartStaysSound == Spec => []ChartSound
<1>1. Inv => ChartSound
  BY ChartInvSound DEF Inv
<1> QED BY <1>1, Invariance, PTL

=============================================================================
