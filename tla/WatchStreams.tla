----------------------------- MODULE WatchStreams -----------------------------
(***************************************************************************)
(* The queue between a gRPC stream and the loop that reads it.  The        *)
(* provider builds it three times: watchSessions and watchSignals for the  *)
(* two ambient watches, whose loops reconnect for ever, and                *)
(* subscribeSession for the stream of one session.  A connection first     *)
(* resolves credentials, then opens the call; callbacks fill the buffer    *)
(* and wake a reader that waits for it; the reader, an idle timeout or a   *)
(* shutdown may give a connection up at any moment, also before its call   *)
(* exists.  Every step is one turn of the event loop.                      *)
(***************************************************************************)
EXTENDS Integers, Sequences, SequencesExt

CONSTANTS
  MaxSignals,  \* bound on the signals the runtime sends
  Delay,       \* ticks of WATCH_RECONNECT_DELAY_MS
  MaxStrays    \* bound on connections given up while they resolve credentials

ASSUME WatchAssumption == {MaxSignals, Delay, MaxStrays} \subseteq Nat

VARIABLES
  kind,      \* the stream: "signals", "sessions" or "session"; never changes
  conn,      \* the current connection
  strays,    \* number of earlier connections still resolving credentials
  leaked,    \* number of earlier connections whose call is open
  loop,      \* "reading", "parked" in next(), "handling", "waiting" or "done"
  item,      \* the signal being handled, or 0
  wait,      \* ticks left of the reconnect delay
  since,     \* ticks since the last immediate reconnect, at most Delay
  aborted,   \* the service is being destroyed
  sent,      \* signals the runtime has broadcast
  received,  \* those that reached the buffer of a watch
  handled,   \* those the loop has stored or skipped, in that order
  up         \* runtime and credentials service answer

vars == <<kind, conn, strays, leaked, loop, item, wait, since, aborted, sent, received, handled, up>>

\* The two ambient watches.
Watch == kind # "session"

\* call is "resolving" until credentials are there, then "open", "cancelled" until
\* gRPC reports it, or "over".
Fresh == [call |-> "resolving", buffer |-> <<>>, ended |-> FALSE, failure |-> "no"]

Init ==
  /\ kind \in {"signals", "sessions", "session"}
  /\ conn = Fresh /\ strays = 0 /\ leaked = 0
  /\ loop = "reading" /\ item = 0 /\ wait = 0 /\ since = Delay
  /\ aborted = FALSE /\ sent = 0 /\ received = {} /\ handled = <<>>
  /\ up = TRUE

-------------------------------------------------------------------------------
(* The callbacks. *)

\* notify: a parked next() looks at the queue again.
Notify == loop' = IF loop = "parked" THEN "reading" ELSE loop

loopRest == <<item, wait, since, aborted, handled>>

\* Mutant of OpenedBy: the call is opened whoever still wants it.
OpenedByAlways(c) == "open"

\* The call of a connection that was given up meanwhile is cancelled at once.
OpenedBy(c) == IF c.ended THEN "over" ELSE "open"

Launch ==
  /\ conn.call = "resolving"
  /\ conn' = [conn EXCEPT !.call = OpenedBy(conn)]
  /\ UNCHANGED <<kind, strays, leaked, loop, loopRest, sent, received, up>>

\* The same for an earlier connection: each of them was ended when it was given up.
LaunchStray ==
  /\ strays > 0
  /\ strays' = strays - 1
  /\ leaked' = IF OpenedBy([Fresh EXCEPT !.ended = TRUE]) = "open" THEN leaked + 1 ELSE leaked
  /\ UNCHANGED <<kind, conn, loop, loopRest, sent, received, up>>

\* No credentials.
LaunchFails ==
  /\ conn.call = "resolving" /\ ~up
  /\ conn' = [conn EXCEPT !.call = "over", !.ended = TRUE, !.failure = "error"]
  /\ Notify
  /\ UNCHANGED <<kind, strays, leaked, loopRest, sent, received, up>>

\* The subscribe frame of a session stream cannot be written: the stream has ended,
\* and its call stays open until return().
WriteFails ==
  /\ conn.call = "resolving" /\ kind = "session" /\ ~conn.ended
  /\ conn' = [conn EXCEPT !.call = "open", !.ended = TRUE, !.failure = "error"]
  /\ Notify
  /\ UNCHANGED <<kind, strays, leaked, loopRest, sent, received, up>>

\* A signal is broadcast; it reaches the buffer if there is an open call.
Signal ==
  /\ sent < MaxSignals
  /\ sent' = sent + 1
  /\ IF conn.call = "open"
     THEN /\ conn' = [conn EXCEPT !.buffer = Append(@, sent')]
          /\ received' = received \cup {sent'}
          /\ Notify
     ELSE UNCHANGED <<conn, received, loop>>
  /\ UNCHANGED <<kind, strays, leaked, loopRest, up>>

\* The runtime closes the stream.
CallEnds ==
  /\ conn.call = "open" /\ ~up
  /\ conn' = [conn EXCEPT !.call = "over", !.ended = TRUE]
  /\ Notify
  /\ UNCHANGED <<kind, strays, leaked, loopRest, sent, received, up>>

\* The stream fails, lagged or otherwise, or a cancelled call reports itself.
CallErrors ==
  /\ conn.call = "cancelled" \/ (conn.call = "open" /\ ~up)
  /\ \E f \in {"lagged", "error"} :
       /\ f = "lagged" => conn.call = "open"
       /\ conn' = [conn EXCEPT !.call = "over", !.ended = TRUE, !.failure = f]
  /\ Notify
  /\ UNCHANGED <<kind, strays, leaked, loopRest, sent, received, up>>

-------------------------------------------------------------------------------
(* The iterator and the loop that reads it. *)

\* A cancelled call is over once gRPC has said so.
Cancelled(call) == IF call = "open" THEN "cancelled" ELSE call

\* return() of a watch.
GiveUp(c) == [c EXCEPT !.ended = TRUE, !.failure = "no", !.call = Cancelled(@)]

\* return() of a session stream, and abort(): the failure is kept.
GiveUpSession(c) == [c EXCEPT !.ended = TRUE, !.call = Cancelled(@)]

\* return() or abort() on the current connection.
Released == IF Watch THEN GiveUp(conn) ELSE GiveUpSession(conn)

\* A new connection; the one before stays behind if it has no call to cancel yet.
Connect ==
  /\ conn' = Fresh
  /\ strays' = IF conn.call = "resolving" THEN strays + 1 ELSE strays
  /\ leaked' = IF conn.call = "open" THEN leaked + 1 ELSE leaked
  /\ loop' = "reading"

\* Mutant of HasNext: a stream that has ended has nothing left.
HasNextUnlessEnded == conn.buffer # <<>> /\ ~conn.ended

\* next() empties the buffer before it looks at the end of the stream.
HasNext == conn.buffer # <<>>

\* next() gives the loop an item (the status frame a session stream begins with
\* is left out).
Pull ==
  /\ loop = "reading" /\ HasNext
  /\ IF aborted
     THEN /\ loop' = "done"
          /\ conn' = Released
          /\ UNCHANGED item
     ELSE /\ loop' = "handling"
          /\ conn' = [conn EXCEPT !.buffer = Tail(@)]
          /\ item' = Head(conn.buffer)
  /\ UNCHANGED <<kind, strays, leaked, wait, since, aborted, sent, received, handled, up>>

\* next() waits.
Park ==
  /\ loop = "reading" /\ ~HasNext /\ ~conn.ended
  /\ loop' = "parked"
  /\ UNCHANGED <<kind, conn, strays, leaked, loopRest, sent, received, up>>

\* Stored, or skipped: no session, no run, or the error is logged.
Handle ==
  /\ loop = "handling"
  /\ loop' = "reading"
  /\ item' = 0
  /\ handled' = Append(handled, item)
  /\ UNCHANGED <<kind, conn, strays, leaked, wait, since, aborted, sent, received, up>>

\* The session consumer drops a stream whose event it cannot persist, and discovery
\* one whose event it cannot apply, the database failing or the run manager refusing
\* the transition: what is buffered goes with it.  The consumer resumes after its
\* last stored envelope; discovery relies on the next sync.
HandleFails ==
  /\ loop = "handling" /\ kind # "signals"
  /\ conn' = Released
  /\ loop' = IF aborted THEN "done" ELSE "waiting"
  /\ wait' = Delay
  /\ item' = 0
  /\ UNCHANGED <<kind, strays, leaked, since, aborted, sent, received, handled, up>>

\* withIdleTimeout gives up; the next() it raced stays parked, and nobody reads it.
Idle ==
  /\ loop = "parked" /\ kind = "session"
  /\ conn' = GiveUpSession(conn)
  /\ loop' = IF aborted THEN "done" ELSE "waiting"
  /\ wait' = Delay
  /\ UNCHANGED <<kind, strays, leaked, item, since, aborted, sent, received, handled, up>>

\* watchReconnectDelay: a lagged watch may come back at once, once in a while.
Immediate == conn.failure = "lagged" /\ since >= Delay

Over == loop = "reading" /\ ~HasNext /\ conn.ended

\* The stream is over.  withIdleTimeout then calls return() on a session stream; a
\* watch that ended without an error reconnects at once.
StreamOver ==
  /\ Over
  /\ \/ /\ kind = "session"
        /\ conn' = Released
        /\ loop' = IF aborted THEN "done" ELSE "waiting"
        /\ wait' = Delay
        /\ UNCHANGED <<strays, leaked, since>>
     \/ /\ Watch /\ aborted
        /\ loop' = "done"
        /\ UNCHANGED <<conn, strays, leaked, wait, since>>
     \/ /\ Watch /\ ~aborted /\ conn.failure = "no"
        /\ Connect
        /\ UNCHANGED <<wait, since>>
     \/ /\ Watch /\ ~aborted /\ Immediate
        /\ Connect
        /\ since' = 0
        /\ UNCHANGED wait
     \/ /\ Watch /\ ~aborted /\ conn.failure # "no" /\ ~Immediate
        /\ loop' = "waiting"
        /\ wait' = Delay
        /\ UNCHANGED <<conn, strays, leaked, since>>
  /\ UNCHANGED <<kind, item, aborted, sent, received, handled, up>>

\* Mutant of WaitOver: the loop runs once.
WaitOverOnce ==
  /\ loop = "waiting" /\ (wait = 0 \/ aborted)
  /\ loop' = "done"
  /\ wait' = 0
  /\ UNCHANGED <<kind, conn, strays, leaked, item, since, aborted, sent, received, handled, up>>

\* The timer, or a shutdown, ends the wait.
WaitOver ==
  /\ loop = "waiting" /\ (wait = 0 \/ aborted)
  /\ strays < MaxStrays
  /\ IF aborted THEN loop' = "done" /\ UNCHANGED <<conn, strays, leaked>> ELSE Connect
  /\ wait' = 0
  /\ UNCHANGED <<kind, item, since, aborted, sent, received, handled, up>>

-------------------------------------------------------------------------------
\* Mutant of Destroy: a watch's return() leaves a parked next() alone.
DestroySilent ==
  /\ ~aborted
  /\ aborted' = TRUE
  /\ conn' = Released
  /\ IF Watch THEN UNCHANGED loop ELSE Notify
  /\ UNCHANGED <<kind, strays, leaked, item, wait, since, sent, received, handled, up>>

\* onModuleDestroy of each loop.
Destroy ==
  /\ ~aborted
  /\ aborted' = TRUE
  /\ conn' = Released
  /\ Notify
  /\ UNCHANGED <<kind, strays, leaked, item, wait, since, sent, received, handled, up>>

Tick ==
  /\ wait > 0 \/ since < Delay
  /\ wait' = IF wait > 0 THEN wait - 1 ELSE 0
  /\ since' = IF since < Delay THEN since + 1 ELSE Delay
  /\ UNCHANGED <<kind, conn, strays, leaked, loop, item, aborted, sent, received, handled, up>>

Outage ==
  /\ up' = ~up
  /\ UNCHANGED <<kind, conn, strays, leaked, loop, loopRest, sent, received>>

\* Nothing is left to do once the loop is done and every call is over.
Stopped == loop = "done" /\ UNCHANGED vars

Reader == Pull \/ Park \/ Handle \/ StreamOver \/ WaitOver
Callback == Launch \/ LaunchStray \/ LaunchFails \/ WriteFails \/ Signal \/ CallEnds \/ CallErrors

Next == Reader \/ Callback \/ HandleFails \/ Idle \/ Destroy \/ Tick \/ Outage \/ Stopped

\* The event loop runs what is ready, timers fire, and credentials come or fail.
Fairness ==
  /\ WF_vars(Reader) /\ WF_vars(Tick)
  /\ WF_vars(Launch) /\ WF_vars(LaunchStray)

Spec == Init /\ [][Next]_vars /\ Fairness

-------------------------------------------------------------------------------
\* No call outlives its reader: a connection given up while its credentials were
\* still being resolved opens no stream that nobody will ever cancel (the comment
\* in launch(): such a stream hangs the process at shutdown).
NoStrayCall == leaked = 0 /\ (loop = "done" => conn.call # "open")

\* No wakeup is lost: a reader that waits has nothing to read and a stream that
\* goes on, whichever callback came last.
NoLostWakeup == loop = "parked" => conn.buffer = <<>> /\ ~conn.ended

\* A signal that reached the signal watch is handled, in the order of arrival,
\* though its stream fails behind it: until a shutdown none is skipped.
WatchHandlesInOrder ==
  kind = "signals" /\ ~aborted =>
    /\ received = Range(handled) \cup Range(conn.buffer) \cup ({item} \ {0})
    /\ \A i \in 1 .. Len(handled) - 1 : handled[i] < handled[i + 1]

\* A shutdown ends the loop wherever it stands: parked, waiting, handling, or on a
\* connection whose call does not exist yet.
ShutdownEndsLoop == aborted ~> (loop = "done")

\* While the service runs and the runtime stays up, a watch gets back to a stream
\* it listens on, however its streams and its credentials failed before.
WatchComesBack == <>[](up /\ ~aborted /\ Watch) => []<>(loop = "parked" /\ conn.call = "open")

\* ARCHITECTURE.md:134: "Both watch consumers reconnect after a stream end with a
\* 5s back-off, except on a coded STREAM_LAGGED".
EndIsFollowedByDelay == [][Watch /\ Over /\ conn' = Fresh => Immediate]_vars
===============================================================================
