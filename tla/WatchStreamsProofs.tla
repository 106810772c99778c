-------------------------- MODULE WatchStreamsProofs --------------------------
(***************************************************************************)
(* The queue between a gRPC stream and its reader, for any number of       *)
(* signals, connections and failures and for every reconnect delay: no     *)
(* call outlives its reader, no wakeup is lost, and the signal watch       *)
(* handles what reached it in the order of arrival.                        *)
(***************************************************************************)
EXTENDS WatchStreams, SequenceTheorems, TLAPS

Connection ==
  [call : {"resolving", "open", "cancelled", "over"}, buffer : Seq(Nat),
   ended : BOOLEAN, failure : {"no", "lagged", "error"}]

WatchTypeOK ==
  /\ kind \in {"signals", "sessions", "session"}
  /\ conn \in Connection
  /\ strays \in Nat /\ leaked \in Nat /\ sent \in Nat /\ item \in Nat
  /\ loop \in {"reading", "parked", "handling", "waiting", "done"}
  /\ handled \in Seq(Nat)

\* A watch whose stream has ended has no open call (a session stream may, until its
\* return()), and a loop that waits or is done has given its connection up.
GivenUp ==
  /\ leaked = 0
  /\ Watch /\ conn.ended => conn.call # "open"
  /\ loop \in {"waiting", "done"} => conn.ended /\ conn.call # "open"

\* Signals handled, in hand (0 when none is) and buffered, of n sent: one ascending
\* run.
Rising(q, n) ==
  /\ \A j \in DOMAIN q : q[j] \in 1 .. n
  /\ \A j, k \in DOMAIN q : j < k => q[j] < q[k]

Chain(done, inHand, queue, n) ==
  /\ inHand <= n
  /\ Rising(done, n) /\ Rising(queue, n)
  /\ inHand # 0 => \A i \in DOMAIN done : done[i] < inHand
  /\ \A j \in DOMAIN queue : inHand < queue[j]
  /\ \A i \in DOMAIN done, j \in DOMAIN queue : done[i] < queue[j]

\* The signals pass through the loop in one ascending run.
InOrder ==
  /\ item # 0 <=> loop = "handling"
  /\ Chain(handled, item, conn.buffer, sent)

\* Until a shutdown the signal watch loses nothing it received, and waits for a new
\* connection only once the old one's buffer is empty.
Complete ==
  kind = "signals" /\ ~aborted =>
    /\ loop = "waiting" => conn.buffer = <<>>
    /\ received = Range(handled) \cup Range(conn.buffer) \cup ({item} \ {0})

IInv == WatchTypeOK /\ GivenUp /\ NoLostWakeup /\ InOrder /\ Complete
-------------------------------------------------------------------------------
\* What Append and Tail do to the set of a sequence's elements.
LEMMA RangeAppend ==
  ASSUME NEW s \in Seq(Nat), NEW e \in Nat
  PROVE  Range(Append(s, e)) = Range(s) \cup {e}
<1>1. /\ DOMAIN Append(s, e) = DOMAIN s \cup {Len(s) + 1}
      /\ \A i \in DOMAIN s : Append(s, e)[i] = s[i]
      /\ Append(s, e)[Len(s) + 1] = e
  OBVIOUS
<1> QED BY <1>1, Zenon DEF Range

\* Nothing is lost between head and tail.
LEMMA RangeTail ==
  ASSUME NEW s \in Seq(Nat), s # <<>>
  PROVE  Range(s) = Range(Tail(s)) \cup {Head(s)}
<1> DEFINE t == Tail(s)
<1>1. /\ Len(s) \in Nat /\ Len(s) > 0 /\ DOMAIN s = 1 .. Len(s)
      /\ t \in Seq(Nat) /\ Len(t) = Len(s) - 1 /\ DOMAIN t = 1 .. Len(t)
      /\ \A i \in 1 .. Len(t) : t[i] = s[i + 1]
      /\ Head(s) = s[1]
  OBVIOUS
<1> HIDE DEF t
<1>2. ASSUME NEW i \in DOMAIN s PROVE s[i] \in Range(t) \cup {Head(s)}
  <2>1. CASE i = 1
    BY <1>1, <2>1
  <2>2. CASE i # 1
    <3>1. i - 1 \in DOMAIN t /\ t[i - 1] = s[i]
      BY <1>1, <2>2
    <3> QED BY <3>1 DEF Range
  <2> QED BY <2>1, <2>2
<1>3. ASSUME NEW i \in DOMAIN t PROVE t[i] \in Range(s)
  <2>1. i + 1 \in DOMAIN s /\ s[i + 1] = t[i]
    BY <1>1
  <2> QED BY <2>1 DEF Range
<1>4. Head(s) \in Range(s)
  BY <1>1 DEF Range
<1> QED BY <1>2, <1>3, <1>4, Zenon DEF Range, t

\* Appending a larger signal, or taking the first away, leaves a rising sequence.
LEMMA RisingAppend ==
  ASSUME NEW q \in Seq(Nat), NEW n \in Nat, NEW e \in 1 .. n, Rising(q, n),
         \A j \in DOMAIN q : q[j] < e
  PROVE  /\ Append(q, e) \in Seq(Nat) /\ Rising(Append(q, e), n)
         /\ \A j \in DOMAIN Append(q, e) : Append(q, e)[j] = e \/ \E k \in DOMAIN q : Append(q, e)[j] = q[k]
<1> DEFINE r == Append(q, e)
           m == Len(q)
<1>1. /\ m \in Nat /\ DOMAIN q = 1 .. m
      /\ r \in Seq(Nat) /\ DOMAIN r = 1 .. m + 1 /\ r[m + 1] = e
      /\ \A j \in 1 .. m : r[j] = q[j]
  OBVIOUS
<1> HIDE DEF r, m
<1>2. \A j \in DOMAIN q : q[j] \in 1 .. n
  BY DEF Rising
<1>3. \A j, k \in DOMAIN q : j < k => q[j] < q[k]
  BY DEF Rising
<1>4. ASSUME NEW j \in DOMAIN r
      PROVE  r[j] \in 1 .. n /\ (r[j] = e \/ \E k \in DOMAIN q : r[j] = q[k])
  <2>1. CASE j = m + 1
    BY <1>1, <2>1
  <2>2. CASE j # m + 1
    <3>1. j \in DOMAIN q /\ r[j] = q[j]
      BY <1>1, <2>2
    <3> QED BY <1>2, <3>1
  <2> QED BY <2>1, <2>2
<1>5. ASSUME NEW j \in DOMAIN r, NEW k \in DOMAIN r, j < k PROVE r[j] < r[k]
  <2>1. j \in DOMAIN q /\ r[j] = q[j]
    BY <1>1, <1>5
  <2>2. CASE k = m + 1
    BY <1>1, <2>1, <2>2
  <2>3. CASE k # m + 1
    <3>1. k \in DOMAIN q /\ r[k] = q[k]
      BY <1>1, <2>3
    <3> QED BY <1>3, <1>5, <2>1, <3>1
  <2> QED BY <2>2, <2>3
<1>6. Rising(r, n)
  BY <1>4, <1>5 DEF Rising
<1> QED BY <1>1, <1>4, <1>6 DEF r

\* The head of an ascending queue is below its tail.
LEMMA RisingTail ==
  ASSUME NEW q \in Seq(Nat), NEW n \in Nat, Rising(q, n), q # <<>>
  PROVE  /\ Tail(q) \in Seq(Nat) /\ Rising(Tail(q), n)
         /\ 1 \in DOMAIN q /\ Head(q) = q[1] /\ Head(q) \in 1 .. n
         /\ \A j \in DOMAIN Tail(q) :
              Head(q) < Tail(q)[j] /\ \E k \in DOMAIN q : Tail(q)[j] = q[k]
<1> DEFINE t == Tail(q)
           m == Len(q)
<1>1. /\ m \in Nat /\ m > 0 /\ DOMAIN q = 1 .. m /\ Head(q) = q[1]
      /\ t \in Seq(Nat) /\ DOMAIN t = 1 .. m - 1
      /\ \A j \in 1 .. m - 1 : t[j] = q[j + 1]
  OBVIOUS
<1> HIDE DEF t, m
<1>2. \A j \in DOMAIN q : q[j] \in 1 .. n
  BY DEF Rising
<1>3. \A j, k \in DOMAIN q : j < k => q[j] < q[k]
  BY DEF Rising
<1>4. 1 \in DOMAIN q
  BY <1>1
<1>5. ASSUME NEW j \in DOMAIN t PROVE j + 1 \in DOMAIN q /\ t[j] = q[j + 1] /\ 1 < j + 1
  <2>1. j \in 1 .. m - 1
    BY <1>1, Zenon
  <2>2. t[j] = q[j + 1]
    BY <1>1, <2>1, Zenon
  <2>3. j + 1 \in 1 .. m /\ 1 < j + 1
    <3>1. m \in Nat
      BY <1>1
    <3> QED BY <2>1, <3>1
  <2> QED BY <1>1, <2>2, <2>3, Zenon
<1>6. \A j \in DOMAIN t : t[j] \in 1 .. n /\ q[1] < t[j] /\ \E k \in DOMAIN q : t[j] = q[k]
  BY <1>2, <1>3, <1>4, <1>5
<1>7. ASSUME NEW j \in DOMAIN t, NEW k \in DOMAIN t, j < k PROVE t[j] < t[k]
  <2>1. j + 1 < k + 1
    BY <1>1, <1>7
  <2> QED BY <1>3, <1>5, <2>1
<1>8. Rising(t, n)
  BY <1>6, <1>7 DEF Rising
<1>9. Head(q) \in 1 .. n
  BY <1>1, <1>2, <1>4
<1> QED BY <1>1, <1>4, <1>6, <1>8, <1>9 DEF t

\* What the steps of the loop do to the run: a new signal extends it, next() moves
\* the first of the queue into the hand, the handler moves it behind those done,
\* and dropping the one in hand or the queue leaves a run.
LEMMA ChainReceive ==
  ASSUME NEW h \in Seq(Nat), NEW x \in Nat, NEW q \in Seq(Nat), NEW n \in Nat, Chain(h, x, q, n)
  PROVE  Chain(h, x, Append(q, n + 1), n + 1) /\ Chain(h, x, q, n + 1)
<1> DEFINE e == n + 1
           r == Append(q, e)
<1>1. e \in Nat /\ e \in 1 .. e /\ e > n /\ \A i \in 1 .. n : i \in 1 .. e /\ i < e
  OBVIOUS
<1> HIDE DEF e
<1>2. /\ x <= n /\ (x # 0 => \A i \in DOMAIN h : h[i] < x)
      /\ \A j \in DOMAIN q : x < q[j]
      /\ \A i \in DOMAIN h, j \in DOMAIN q : h[i] < q[j]
  BY DEF Chain
<1>3. Rising(h, e) /\ Rising(q, e) /\ (\A j \in DOMAIN q : q[j] < e) /\ \A i \in DOMAIN h : h[i] < e
  BY <1>1 DEF Chain, Rising
<1>4. x <= e /\ x < e
  BY <1>1, <1>2
<1>5. Rising(r, e) /\ \A j \in DOMAIN r : r[j] = e \/ \E k \in DOMAIN q : r[j] = q[k]
  BY <1>1, <1>3, RisingAppend
<1> HIDE DEF r
<1>6. (\A j \in DOMAIN r : x < r[j]) /\ \A i \in DOMAIN h, j \in DOMAIN r : h[i] < r[j]
  BY <1>2, <1>3, <1>4, <1>5
<1>7. Chain(h, x, r, e) /\ Chain(h, x, q, e)
  BY <1>2, <1>3, <1>4, <1>5, <1>6, Zenon DEF Chain
<1> QED BY <1>7 DEF r, e

\* Taking the head of the buffer in hand, ...
LEMMA ChainPull ==
  ASSUME NEW h \in Seq(Nat), NEW q \in Seq(Nat), NEW n \in Nat, Chain(h, 0, q, n), q # <<>>
  PROVE  Head(q) # 0 /\ Chain(h, Head(q), Tail(q), n)
<1> DEFINE x == Head(q)
           t == Tail(q)
<1>1. Rising(h, n) /\ Rising(q, n) /\ \A i \in DOMAIN h, j \in DOMAIN q : h[i] < q[j]
  BY DEF Chain
<1>2. /\ Rising(t, n) /\ 1 \in DOMAIN q /\ x = q[1] /\ x \in 1 .. n
      /\ \A j \in DOMAIN t : x < t[j] /\ \E k \in DOMAIN q : t[j] = q[k]
  BY <1>1, RisingTail
<1> HIDE DEF x, t
<1>3. x # 0 /\ x <= n
  BY <1>2
<1>4. (\A i \in DOMAIN h : h[i] < x) /\ \A i \in DOMAIN h, j \in DOMAIN t : h[i] < t[j]
  BY <1>1, <1>2
<1>5. Chain(h, x, t, n)
  BY <1>1, <1>2, <1>3, <1>4 DEF Chain
<1> QED BY <1>3, <1>5 DEF x, t

\* ... handling it, ...
LEMMA ChainHandle ==
  ASSUME NEW h \in Seq(Nat), NEW x \in Nat, NEW q \in Seq(Nat), NEW n \in Nat, Chain(h, x, q, n), x # 0
  PROVE  Chain(Append(h, x), 0, q, n)
<1> DEFINE g == Append(h, x)
<1>1. /\ x <= n /\ Rising(h, n) /\ Rising(q, n)
      /\ \A i \in DOMAIN h : h[i] < x
      /\ \A j \in DOMAIN q : x < q[j]
      /\ \A i \in DOMAIN h, j \in DOMAIN q : h[i] < q[j]
  BY DEF Chain
<1>2. x \in 1 .. n
  BY <1>1
<1>3. Rising(g, n) /\ \A i \in DOMAIN g : g[i] = x \/ \E k \in DOMAIN h : g[i] = h[k]
  BY <1>1, <1>2, RisingAppend
<1> HIDE DEF g
<1>4. \A i \in DOMAIN g, j \in DOMAIN q : g[i] < q[j]
  BY <1>1, <1>3
<1>5. \A j \in DOMAIN q : 0 < q[j]
  BY <1>1 DEF Rising
<1>6. 0 <= n
  OBVIOUS
<1>7. Chain(g, 0, q, n)
  BY <1>1, <1>3, <1>4, <1>5, <1>6, Zenon DEF Chain
<1> QED BY <1>7 DEF g

\* ... and dropping what is in hand or buffered keep the order.
LEMMA ChainDrop ==
  ASSUME NEW h \in Seq(Nat), NEW x \in Nat, NEW q \in Seq(Nat), NEW n \in Nat, Chain(h, x, q, n)
  PROVE  Chain(h, 0, q, n) /\ Chain(h, x, <<>>, n)
<1>1. DOMAIN << >> = {}
  OBVIOUS
<1>2. 0 <= n /\ \A j \in DOMAIN q : 0 < q[j]
  BY DEF Chain, Rising
<1>3. Chain(h, 0, q, n)
  BY <1>2, Zenon DEF Chain
<1>4. Chain(h, x, <<>>, n)
  BY <1>1 DEF Chain, Rising
<1> QED BY <1>3, <1>4

\* The loop starts in a state the invariant allows.
LEMMA InitIInv == Init => IInv
<1> SUFFICES ASSUME Init PROVE IInv
  OBVIOUS
<1>1. /\ conn.call = "resolving" /\ conn.buffer = <<>> /\ conn.ended = FALSE
      /\ conn \in Connection
  BY DEF Init, Fresh, Connection
<1>2. WatchTypeOK
  BY <1>1 DEF Init, WatchTypeOK
<1>3. GivenUp /\ NoLostWakeup /\ InOrder
  BY <1>1 DEF Init, GivenUp, NoLostWakeup, InOrder, Chain, Rising
<1>4. Complete
  BY <1>1 DEF Init, Complete, Range
<1> QED BY <1>2, <1>3, <1>4 DEF IInv

\* A step that leaves the signals where they are keeps their order, and nothing
\* of what was received is lost.
LEMMA QueueKept ==
  ASSUME IInv, conn' \in Connection, conn'.buffer = conn.buffer,
         UNCHANGED <<kind, item, sent, received, handled>>,
         aborted' = FALSE => aborted = FALSE,
         loop' = "handling" <=> loop = "handling",
         kind = "signals" /\ loop' = "waiting" => loop = "waiting" \/ conn.buffer = <<>>
  PROVE  InOrder' /\ Complete'
<1>1. InOrder'
  BY DEF IInv, InOrder
<1>2. Complete'
  BY DEF IInv, Complete
<1> QED BY <1>1, <1>2

\* The callbacks that put nothing into the buffer change call, end and failure of
\* the connection, and wake the reader when they end it.
LEMMA CallbackIInv ==
  ASSUME IInv, Launch \/ LaunchFails \/ WriteFails \/ CallEnds \/ CallErrors PROVE IInv'
<1>1. conn \in Connection
  BY DEF IInv, WatchTypeOK
<1>2. /\ conn' \in Connection /\ conn'.buffer = conn.buffer
      /\ conn.ended => conn'.ended
      /\ conn'.call = "open" => ~conn.ended /\ (conn'.ended => kind = "session")
      /\ conn'.ended = conn.ended \/ Notify
      /\ loop' = loop \/ Notify
      /\ UNCHANGED <<kind, strays, leaked, item, wait, since, aborted, handled, sent, received>>
  <2>1. CASE Launch
    BY <1>1, <2>1 DEF Launch, OpenedBy, Connection, loopRest
  <2>2. CASE LaunchFails
    BY <1>1, <2>2 DEF LaunchFails, Connection, loopRest
  <2>3. CASE CallEnds
    BY <1>1, <2>3 DEF CallEnds, Connection, loopRest
  <2>4. CASE CallErrors
    BY <1>1, <2>4 DEF CallErrors, Connection, loopRest
  <2>5. CASE WriteFails
    BY <1>1, <2>5 DEF WriteFails, Connection, loopRest
  <2> QED BY <2>1, <2>2, <2>3, <2>4, <2>5
<1>3. /\ loop' \in {"reading", "parked", "handling", "waiting", "done"}
      /\ loop' = "parked" => loop = "parked" /\ conn'.ended = conn.ended
      /\ loop' = "handling" <=> loop = "handling"
      /\ loop' \in {"waiting", "done"} => loop' = loop
  BY <1>2 DEF IInv, WatchTypeOK, Notify
<1>4. WatchTypeOK'
  BY <1>2, <1>3 DEF IInv, WatchTypeOK
<1>5. GivenUp' /\ NoLostWakeup'
  BY <1>2, <1>3 DEF IInv, GivenUp, Watch, NoLostWakeup
<1>6. InOrder' /\ Complete'
  BY <1>2, <1>3, QueueKept
<1> QED BY <1>4, <1>5, <1>6 DEF IInv

\* An earlier connection was ended when it was given up, so its call is cancelled
\* as soon as it exists.
LEMMA LaunchStrayIInv == ASSUME IInv, LaunchStray PROVE IInv'
<1>1. OpenedBy([Fresh EXCEPT !.ended = TRUE]) = "over"
  BY DEF OpenedBy, Fresh
<1>2. /\ strays \in Nat /\ strays > 0 /\ strays' = strays - 1 /\ leaked' = leaked
      /\ UNCHANGED <<kind, conn, loop, item, wait, since, aborted, handled, sent, received>>
  BY <1>1 DEF LaunchStray, loopRest, IInv, WatchTypeOK
<1>3. WatchTypeOK' /\ GivenUp' /\ NoLostWakeup'
  BY <1>2 DEF IInv, WatchTypeOK, GivenUp, Watch, NoLostWakeup
<1>4. InOrder' /\ Complete'
  BY <1>2, QueueKept DEF IInv, WatchTypeOK
<1> QED BY <1>3, <1>4 DEF IInv

\* A signal is the latest of all; the buffer it enters wakes the reader.
LEMMA SignalIInv == ASSUME IInv, Signal PROVE IInv'
<1>1. /\ conn \in Connection /\ sent \in Nat /\ sent' = sent + 1
      /\ UNCHANGED <<kind, strays, leaked, item, wait, since, aborted, handled>>
  BY DEF Signal, loopRest, IInv, WatchTypeOK
<1>2. CASE conn.call = "open"
  <2>1. /\ conn' \in Connection /\ conn'.buffer = Append(conn.buffer, sent + 1)
        /\ conn'.call = conn.call /\ conn'.ended = conn.ended
        /\ received' = received \cup {sent + 1}
        /\ Notify
    <3>1. /\ conn' = [conn EXCEPT !.buffer = Append(conn.buffer, sent + 1)]
          /\ received' = received \cup {sent + 1} /\ Notify
      BY <1>1, <1>2 DEF Signal
    <3>2. conn.buffer \in Seq(Nat) /\ Append(conn.buffer, sent + 1) \in Seq(Nat)
      BY <1>1 DEF Connection
    <3> QED BY <1>1, <3>1, <3>2 DEF Connection
  <2>2. /\ loop' \in {"reading", "handling", "waiting", "done"}
        /\ loop' = "handling" <=> loop = "handling"
        /\ loop' \in {"waiting", "done"} => loop' = loop
    BY <2>1 DEF IInv, WatchTypeOK, Notify
  <2>3. WatchTypeOK'
    BY <1>1, <2>1, <2>2 DEF IInv, WatchTypeOK
  <2>4. GivenUp' /\ NoLostWakeup'
    BY <1>1, <2>1, <2>2 DEF IInv, GivenUp, Watch, NoLostWakeup
  <2>5. conn.buffer \in Seq(Nat)
    BY <1>1 DEF Connection
  <2>7. InOrder'
    BY <1>1, <2>1, <2>2, <2>5, ChainReceive DEF IInv, InOrder, WatchTypeOK
  <2>8. Complete'
    <3>1. Range(conn'.buffer) = Range(conn.buffer) \cup {sent + 1}
      BY <1>1, <2>1, <2>5, RangeAppend
    <3>2. loop' # "waiting"
      BY <1>2, <2>1 DEF IInv, GivenUp, WatchTypeOK, Notify
    <3> QED BY <1>1, <2>1, <3>1, <3>2 DEF IInv, Complete
  <2> QED BY <2>3, <2>4, <2>7, <2>8 DEF IInv
<1>3. CASE conn.call # "open"
  <2>1. UNCHANGED <<conn, received, loop>>
    BY <1>3 DEF Signal
  <2>2. WatchTypeOK' /\ GivenUp' /\ NoLostWakeup'
    BY <1>1, <2>1 DEF IInv, WatchTypeOK, GivenUp, Watch, NoLostWakeup
  <2>3. InOrder'
    BY <1>1, <2>1, ChainReceive DEF IInv, InOrder, WatchTypeOK, Connection
  <2>4. Complete'
    BY <1>1, <2>1 DEF IInv, Complete
  <2> QED BY <2>2, <2>3, <2>4 DEF IInv
<1> QED BY <1>2, <1>3

\* What return() and abort() do to a connection.
LEMMA GiveUpFacts ==
  ASSUME NEW c \in Connection, NEW d \in {GiveUp(c), GiveUpSession(c)}
  PROVE  d \in Connection /\ d.buffer = c.buffer /\ d.ended /\ d.call # "open"
  BY DEF GiveUp, GiveUpSession, Cancelled, Connection

\* And thus to the current one.
LEMMA ReleasedFacts ==
  ASSUME conn \in Connection
  PROVE  Released \in Connection /\ Released.buffer = conn.buffer /\ Released.ended
         /\ Released.call # "open"
<1>1. Released \in {GiveUp(conn), GiveUpSession(conn)}
  BY DEF Released
<1> QED BY <1>1, GiveUpFacts

\* next() takes the first of the queue, or gives the connection up in a shutdown.
LEMMA PullIInv == ASSUME IInv, Pull PROVE IInv'
<1>1. /\ conn \in Connection /\ loop = "reading" /\ conn.buffer # <<>> /\ item = 0
      /\ handled \in Seq(Nat) /\ conn.buffer \in Seq(Nat) /\ sent \in Nat
      /\ UNCHANGED <<kind, strays, leaked, aborted, sent, received, handled>>
  BY DEF Pull, HasNext, IInv, WatchTypeOK, InOrder, Connection
<1>2. CASE aborted
  <2>1. loop' = "done" /\ item' = item /\ aborted' /\ conn' = Released
    BY <1>1, <1>2 DEF Pull
  <2>2. conn' \in Connection /\ conn'.buffer = conn.buffer /\ conn'.ended /\ conn'.call # "open"
    BY <1>1, <2>1, ReleasedFacts
  <2>3. WatchTypeOK' /\ GivenUp' /\ NoLostWakeup'
    BY <1>1, <2>1, <2>2 DEF IInv, WatchTypeOK, GivenUp, Watch, NoLostWakeup
  <2>4. InOrder' /\ Complete'
    BY <1>1, <2>1, <2>2, QueueKept
  <2> QED BY <2>3, <2>4 DEF IInv
<1>3. CASE ~aborted
  <2>1. /\ loop' = "handling" /\ item' = Head(conn.buffer)
        /\ conn' = [conn EXCEPT !.buffer = Tail(conn.buffer)]
    BY <1>1, <1>3 DEF Pull
  <2>2. Head(conn.buffer) \in Nat /\ Tail(conn.buffer) \in Seq(Nat)
    BY <1>1
  <2>3. /\ conn' \in Connection /\ conn'.buffer = Tail(conn.buffer)
        /\ conn'.ended = conn.ended /\ conn'.call = conn.call
    BY <1>1, <2>1, <2>2 DEF Connection
  <2>4. WatchTypeOK' /\ GivenUp' /\ NoLostWakeup'
    BY <1>1, <2>1, <2>2, <2>3 DEF IInv, WatchTypeOK, GivenUp, Watch, NoLostWakeup
  <2>5. InOrder'
    <3>1. Head(conn.buffer) # 0 /\ Chain(handled, Head(conn.buffer), Tail(conn.buffer), sent)
      BY <1>1, ChainPull DEF IInv, InOrder
    <3> QED BY <1>1, <2>1, <2>3, <3>1 DEF InOrder
  <2>6. Complete'
    <3>1. Head(conn.buffer) # 0
      BY <1>1, ChainPull DEF IInv, InOrder
    <3>2. Range(conn.buffer) = Range(conn'.buffer) \cup {item'}
      BY <1>1, <2>1, <2>3, RangeTail
    <3> QED BY <1>1, <2>1, <3>1, <3>2 DEF IInv, Complete
  <2> QED BY <2>4, <2>5, <2>6 DEF IInv
<1> QED BY <1>2, <1>3

\* next() waits only with nothing to read on a stream that goes on.
LEMMA ParkIInv == ASSUME IInv, Park PROVE IInv'
<1>1. /\ loop = "reading" /\ conn.buffer = <<>> /\ ~conn.ended /\ loop' = "parked"
      /\ UNCHANGED <<kind, conn, strays, leaked, item, wait, since, aborted, handled, sent, received>>
  BY DEF Park, HasNext, loopRest
<1>2. WatchTypeOK' /\ GivenUp' /\ NoLostWakeup'
  BY <1>1 DEF IInv, WatchTypeOK, GivenUp, Watch, NoLostWakeup
<1>3. InOrder' /\ Complete'
  BY <1>1, QueueKept DEF IInv, WatchTypeOK
<1> QED BY <1>2, <1>3 DEF IInv

\* The signal in hand comes after those handled before it.
LEMMA HandleIInv == ASSUME IInv, Handle PROVE IInv'
<1>1. /\ loop = "handling" /\ loop' = "reading" /\ item # 0 /\ item' = 0
      /\ conn \in Connection /\ conn.buffer \in Seq(Nat)
      /\ handled \in Seq(Nat) /\ item \in Nat /\ sent \in Nat
      /\ handled' = Append(handled, item)
      /\ UNCHANGED <<kind, conn, strays, leaked, wait, since, aborted, sent, received>>
  BY DEF Handle, IInv, InOrder, WatchTypeOK, Connection
<1>2. WatchTypeOK' /\ GivenUp' /\ NoLostWakeup'
  BY <1>1 DEF IInv, WatchTypeOK, GivenUp, Watch, NoLostWakeup
<1>3. InOrder'
  <2>1. Chain(Append(handled, item), 0, conn.buffer, sent)
    BY <1>1, ChainHandle DEF IInv, InOrder
  <2> QED BY <1>1, <2>1 DEF InOrder
<1>4. Complete'
  <2>1. Range(handled') = Range(handled) \cup {item}
    BY <1>1, RangeAppend
  <2> QED BY <1>1, <2>1 DEF IInv, Complete
<1> QED BY <1>2, <1>3, <1>4 DEF IInv

\* A loop gives its connection up, with an event in hand or none.
LEMMA LoopGivesUpIInv == ASSUME IInv, HandleFails \/ Idle PROVE IInv'
<1>1. /\ conn \in Connection /\ kind # "signals" /\ conn' \in {Released, GiveUpSession(conn)}
      /\ loop' \in {"done", "waiting"} /\ item' = 0
      /\ UNCHANGED <<kind, strays, leaked, aborted, sent, received, handled>>
  BY DEF HandleFails, Idle, IInv, WatchTypeOK, InOrder
<1>2. conn' \in Connection /\ conn'.buffer = conn.buffer /\ conn'.ended /\ conn'.call # "open"
  BY <1>1, ReleasedFacts, GiveUpFacts
<1>3. WatchTypeOK' /\ GivenUp' /\ NoLostWakeup'
  BY <1>1, <1>2 DEF IInv, WatchTypeOK, GivenUp, Watch, NoLostWakeup
<1>4. InOrder'
  <2>1. Chain(handled, 0, conn.buffer, sent)
    BY <1>1, ChainDrop DEF IInv, InOrder, WatchTypeOK, Connection
  <2> QED BY <1>1, <1>2, <2>1 DEF InOrder
<1>5. Complete'
  BY <1>1 DEF Complete
<1> QED BY <1>3, <1>4, <1>5 DEF IInv

\* A new connection replaces one that has no open call; for the signal watch it also
\* has nothing left to read.
LEMMA ConnectIInv ==
  ASSUME IInv, Connect, conn.call # "open", item = 0,
         kind = "signals" => conn.buffer = <<>>,
         UNCHANGED <<kind, item, aborted, sent, received, handled>>,
         ~aborted
  PROVE  IInv'
<1>1. /\ conn' \in Connection /\ conn'.buffer = <<>> /\ conn'.ended = FALSE
      /\ conn'.call = "resolving"
      /\ leaked' = leaked /\ loop' = "reading" /\ strays' \in Nat
  BY DEF Connect, Fresh, Connection, IInv, WatchTypeOK
<1>2. WatchTypeOK' /\ GivenUp' /\ NoLostWakeup'
  BY <1>1 DEF IInv, WatchTypeOK, GivenUp, Watch, NoLostWakeup
<1>3. InOrder'
  <2>1. Chain(handled, 0, <<>>, sent)
    BY ChainDrop DEF IInv, InOrder, WatchTypeOK, Connection
  <2> QED BY <1>1, <2>1 DEF InOrder
<1>4. Complete'
  BY <1>1 DEF IInv, Complete
<1> QED BY <1>2, <1>3, <1>4 DEF IInv

\* At the end of a stream the loop stops, connects again, or waits.
LEMMA StreamOverIInv == ASSUME IInv, StreamOver PROVE IInv'
<1>1. /\ loop = "reading" /\ conn.buffer = <<>> /\ conn.ended /\ item = 0
      /\ conn \in Connection /\ (Watch => conn.call # "open")
      /\ UNCHANGED <<kind, item, aborted, sent, received, handled>>
  BY DEF StreamOver, Over, HasNext, IInv, WatchTypeOK, GivenUp, InOrder
<1>2. CASE Watch /\ Connect /\ ~aborted
  BY <1>1, <1>2, ConnectIInv
<1>3. CASE /\ loop' \in {"done", "waiting"} /\ UNCHANGED <<strays, leaked>>
           /\ conn' = Released \/ (Watch /\ conn' = conn)
  <2>1. conn' \in Connection /\ conn'.buffer = conn.buffer /\ conn'.ended /\ conn'.call # "open"
    BY <1>1, <1>3, ReleasedFacts
  <2>2. WatchTypeOK' /\ GivenUp' /\ NoLostWakeup'
    BY <1>1, <1>3, <2>1 DEF IInv, WatchTypeOK, GivenUp, Watch, NoLostWakeup
  <2>3. InOrder' /\ Complete'
    BY <1>1, <1>3, <2>1, QueueKept
  <2> QED BY <2>2, <2>3 DEF IInv
<1> QED BY <1>2, <1>3 DEF StreamOver

\* After the delay, too.
LEMMA WaitOverIInv == ASSUME IInv, WaitOver PROVE IInv'
<1>1. /\ loop = "waiting" /\ conn.ended /\ conn.call # "open" /\ item = 0
      /\ kind = "signals" /\ ~aborted => conn.buffer = <<>>
      /\ UNCHANGED <<kind, item, aborted, sent, received, handled>>
  BY DEF WaitOver, IInv, GivenUp, InOrder, Complete
<1>2. CASE aborted
  <2>1. loop' = "done" /\ UNCHANGED <<conn, strays, leaked>>
    BY <1>2 DEF WaitOver
  <2>2. WatchTypeOK' /\ GivenUp' /\ NoLostWakeup'
    BY <1>1, <2>1 DEF IInv, WatchTypeOK, GivenUp, Watch, NoLostWakeup
  <2>3. InOrder' /\ Complete'
    BY <1>1, <2>1, QueueKept DEF IInv, WatchTypeOK
  <2> QED BY <2>2, <2>3 DEF IInv
<1>3. CASE ~aborted
  <2>1. Connect
    BY <1>3 DEF WaitOver
  <2> QED BY <1>1, <1>3, <2>1, ConnectIInv
<1> QED BY <1>2, <1>3

\* A shutdown ends the connection and wakes its reader.
LEMMA DestroyIInv == ASSUME IInv, Destroy PROVE IInv'
<1>1. /\ conn \in Connection /\ aborted' = TRUE /\ Notify
      /\ conn' = Released
      /\ UNCHANGED <<kind, strays, leaked, item, sent, received, handled>>
  BY DEF Destroy, IInv, WatchTypeOK
<1>2. conn' \in Connection /\ conn'.buffer = conn.buffer /\ conn'.ended /\ conn'.call # "open"
  BY <1>1, ReleasedFacts
<1>3. /\ loop' \in {"reading", "handling", "waiting", "done"}
      /\ loop' = "handling" <=> loop = "handling"
      /\ loop' = "waiting" => loop = "waiting"
  BY <1>1 DEF Notify, IInv, WatchTypeOK
<1>4. WatchTypeOK' /\ GivenUp' /\ NoLostWakeup'
  BY <1>1, <1>2, <1>3 DEF IInv, WatchTypeOK, GivenUp, Watch, NoLostWakeup
<1>5. InOrder' /\ Complete'
  BY <1>1, <1>2, <1>3, QueueKept
<1> QED BY <1>4, <1>5 DEF IInv

\* Every step keeps the invariant.
LEMMA NextIInv == IInv /\ [Next]_vars => IInv'
<1> SUFFICES ASSUME IInv, [Next]_vars PROVE IInv'
  OBVIOUS
<1>1. CASE UNCHANGED <<kind, conn, strays, leaked, loop, item, aborted, sent, received, handled>>
  <2>1. WatchTypeOK' /\ GivenUp' /\ NoLostWakeup'
    BY <1>1 DEF IInv, WatchTypeOK, GivenUp, Watch, NoLostWakeup
  <2>2. InOrder' /\ Complete'
    BY <1>1, QueueKept DEF IInv, WatchTypeOK
  <2> QED BY <2>1, <2>2 DEF IInv
<1>2. CASE Tick \/ Outage \/ Stopped \/ UNCHANGED vars
  BY <1>1, <1>2 DEF Tick, Outage, Stopped, vars, loopRest
<1> QED
  BY <1>2, CallbackIInv, LaunchStrayIInv, SignalIInv, PullIInv, ParkIInv, HandleIInv,
     LoopGivesUpIInv, StreamOverIInv, WaitOverIInv, DestroyIInv
     DEF Next, Reader, Callback

\* The inductive invariant holds throughout.
THEOREM Invariance == Spec => []IInv
  BY InitIInv, NextIInv, PTL DEF Spec

\* No call outlives its reader: whatever the order of credentials, callbacks,
\* timeouts and shutdown, launch() opens no stream for a connection that was given
\* up, and a loop that is done has no open call.
THEOREM NoCallOutlivesReader == Spec => []NoStrayCall
<1>1. IInv => NoStrayCall
  BY DEF IInv, GivenUp, NoStrayCall
<1> QED BY <1>1, Invariance, PTL

\* A parked next() never misses the callback that gave it something to do.
THEOREM WakeupsReachReader == Spec => []NoLostWakeup
<1>1. IInv => NoLostWakeup
  BY DEF IInv
<1> QED BY <1>1, Invariance, PTL

\* Until a shutdown, the signal watch handles every signal that reached any of its
\* connections, once and in the order of arrival, or still holds it.
THEOREM WatchKeepsOrder == Spec => []WatchHandlesInOrder
<1>1. IInv => WatchHandlesInOrder
  <2> SUFFICES ASSUME IInv PROVE \A i \in 1 .. Len(handled) - 1 : handled[i] < handled[i + 1]
    BY DEF WatchHandlesInOrder, IInv, Complete
  <2> SUFFICES ASSUME NEW i \in 1 .. Len(handled) - 1 PROVE handled[i] < handled[i + 1]
    OBVIOUS
  <2>1. i \in DOMAIN handled /\ i + 1 \in DOMAIN handled /\ i < i + 1
    BY DEF IInv, WatchTypeOK
  <2> QED BY <2>1 DEF IInv, InOrder, Chain, Rising
<1> QED BY <1>1, Invariance, PTL
===============================================================================
