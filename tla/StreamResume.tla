----------------------------- MODULE StreamResume -----------------------------
(***************************************************************************)
(* How the envelopes of one session reach the event log exactly once: the  *)
(* consume loop of StreamConsumerService, the event transaction that moves *)
(* the resume ordinal with the events, and the resume of the stream after  *)
(* a disconnect or a restart.                                              *)
(*                                                                         *)
(* Envelopes are numbered 1, 2, ... by the runtime.  after_sequence = n    *)
(* asks for the envelopes after the n-th; a resume point the runtime has   *)
(* compacted away is refused, and the loop then only polls.                *)
(***************************************************************************)
EXTENDS Integers, Sequences

CONSTANTS
  MaxEnvelopes,    \* bound on the envelopes of the session
  MaxCrashes,      \* bound on crashes of the control plane
  MaxRetries,      \* STREAM_MAX_RETRIES
  ResumeEnabled,   \* STREAM_RESUME_ENABLED
  EmitFaults       \* whether an event the loop emits itself may fail

ASSUME BoundsAssumption ==
  MaxEnvelopes \in Nat /\ MaxCrashes \in Nat /\ MaxRetries \in Nat
ASSUME SwitchesAssumption ==
  ResumeEnabled \in BOOLEAN /\ EmitFaults \in BOOLEAN

VARIABLES
  hist,      \* envelopes the runtime has accepted
  base,      \* envelopes up to this one are compacted away
  over,      \* "no", or "yes" once the session is in a terminal state
  bound,     \* the runtime_sessions row: "yes", "no", or "pending" while its
             \* insert is under way behind a consumer
  stored,    \* the envelopes in the event log, in seq order
  cursor,    \* runtime_sessions.last_envelope_ordinal
  gap,       \* "yes" once a session.stream.gap event is in the log
  outcome,   \* what the loop finalized the run as, or "none"
  mode,      \* where the loop stands; "down" when there is no loop
  ordinal,   \* marker.envelopeOrdinal
  pos,       \* the last envelope read from the open stream
  retries,   \* streamRetries, then the retries of the poll loop
  crashes,
  clean      \* "no" once a commit took effect and was reported failed, or the log
             \* held envelopes without a runtime_sessions row when the process
             \* stopped or when that row was inserted at last

runtimeVars == <<hist, base, over>>
dbVars == <<bound, stored, cursor, gap, outcome>>
loopVars == <<mode, ordinal, pos, retries>>
vars == <<hist, base, over, bound, stored, cursor, gap, outcome,
          mode, ordinal, pos, retries, crashes, clean>>

Flag == {"yes", "no"}
Row == {"yes", "no", "pending"}
Mode == {"binding", "down", "stream", "persist", "ended", "rejected", "poll",
         "polled", "done"}

Larger(a, b) == IF a >= b THEN a ELSE b

Init ==
  /\ hist = 0 /\ base = 0 /\ over = "no"
  /\ bound = "no" /\ stored = <<>> /\ cursor = 0 /\ gap = "no" /\ outcome = "none"
  /\ mode = "binding" /\ ordinal = 0 /\ pos = 0 /\ retries = 0
  /\ crashes = 0 /\ clean = "yes"

-------------------------------------------------------------------------------
(* The runtime (external). *)

Accept ==
  /\ over = "no" /\ hist < MaxEnvelopes
  /\ hist' = hist + 1
  /\ UNCHANGED <<base, over, dbVars, loopVars, crashes, clean>>

Compact ==
  /\ base < hist
  /\ base' = hist
  /\ UNCHANGED <<hist, over, dbVars, loopVars, crashes, clean>>

EndSession ==
  /\ over = "no"
  /\ over' = "yes"
  /\ UNCHANGED <<hist, base, dbVars, loopVars, crashes, clean>>

-------------------------------------------------------------------------------

\* bindSession, once it has moved the run to binding_session: it inserts the
\* runtime_sessions row, and the run is then attached.
Bind ==
  /\ mode = "binding"
  /\ bound' = "yes"
  /\ mode' = "down"
  /\ UNCHANGED <<runtimeVars, stored, cursor, gap, outcome, ordinal, pos, retries, crashes, clean>>

\* The insert fails.  The executor fails the run; discovery logs the error and
\* streams the session all the same, and nothing inserts the row later.
BindFails ==
  /\ mode = "binding"
  /\ \/ mode' = "down" /\ UNCHANGED outcome
     \/ mode' = "done" /\ outcome' = "failed"
  /\ UNCHANGED <<runtimeVars, bound, stored, cursor, gap, ordinal, pos, retries, crashes, clean>>

\* The status update makes bindSession a no-op for the other caller, executor or
\* discovery, which attaches its consumer while the insert is still under way.
BindOvertaken ==
  /\ mode = "binding"
  /\ bound' = "pending"
  /\ mode' = "down"
  /\ UNCHANGED <<runtimeVars, stored, cursor, gap, outcome, ordinal, pos, retries, crashes, clean>>

\* That insert ends: a row with the ordinal 0, or none.
InsertEnds ==
  /\ bound = "pending"
  /\ bound' \in {"yes", "no"}
  /\ clean' = IF bound' = "yes" /\ stored # <<>> THEN "no" ELSE clean
  /\ UNCHANGED <<runtimeVars, stored, cursor, gap, outcome, loopVars, crashes>>

\* updateStreamCursor: a floor, and no effect without the row.
CursorAfter(n) == IF bound = "yes" THEN Larger(cursor, n) ELSE cursor

\* Mutant of Subscribe: the resume point is not sent.
SubscribeFromStart(n) ==
  /\ mode' = IF base > 0 THEN "rejected" ELSE "stream"
  /\ pos' = 0
  /\ cursor' = CursorAfter(n)

\* subscribeSession(after_sequence = n).  The synthetic stream-status frame
\* each subscribe yields is persisted too, with the ordinal as it is.
Subscribe(n) ==
  /\ mode' = IF n < base THEN "rejected" ELSE "stream"
  /\ pos' = n
  /\ cursor' = CursorAfter(n)

\* Mutant of Seed: a marker that always starts at 0.
SeedZero == 0

\* resumeFromEnvelopeOrdinal: the stored ordinal, 0 without a row.
Seed == IF bound = "yes" THEN cursor ELSE 0

\* start(), from the executor, from discovery or from recovery: the marker takes
\* the stored ordinal.  Recovery subscribes only with STREAM_RESUME_ENABLED.
Attach ==
  /\ mode = "down" /\ outcome = "none"
  /\ ordinal' = Seed
  /\ IF ResumeEnabled \/ crashes = 0 THEN Subscribe(Seed)
     ELSE mode' = "poll" /\ UNCHANGED <<pos, cursor>>
  /\ retries' = 0
  /\ UNCHANGED <<runtimeVars, bound, stored, gap, outcome, crashes, clean>>

\* Mutant of Deliver: an envelope is counted when it is read, not when it is stored.
DeliverCounted ==
  /\ mode = "stream" /\ pos < hist
  /\ mode' = "persist"
  /\ pos' = pos + 1
  /\ ordinal' = ordinal + 1
  /\ UNCHANGED <<runtimeVars, dbVars, retries, crashes, clean>>

\* The stream yields the next envelope.
Deliver ==
  /\ mode = "stream" /\ pos < hist
  /\ mode' = "persist"
  /\ pos' = pos + 1
  /\ UNCHANGED <<runtimeVars, dbVars, ordinal, retries, crashes, clean>>

\* Mutant of CommitEnvelope: the cursor is not part of the transaction.
CommitEnvelopeOnly ==
  /\ stored' = Append(stored, pos)
  /\ UNCHANGED cursor

\* persistRawAndCanonical commits: the events and the ordinal together.
CommitEnvelope ==
  /\ stored' = Append(stored, pos)
  /\ cursor' = CursorAfter(ordinal + 1)

\* The commit is known: the marker follows, and the retry budget is whole.
Persist ==
  /\ mode = "persist"
  /\ CommitEnvelope
  /\ ordinal' = ordinal + 1
  /\ retries' = 0
  /\ mode' = "stream"
  /\ UNCHANGED <<runtimeVars, bound, gap, outcome, pos, crashes, clean>>

\* The transaction fails, or its acknowledgement is lost, and the stream loop
\* treats it as a stream error.
PersistFails ==
  /\ mode = "persist"
  /\ \/ UNCHANGED <<stored, cursor, clean>>
     \/ CommitEnvelope /\ clean' = "no"
  /\ mode' = "ended"
  /\ UNCHANGED <<runtimeVars, bound, gap, outcome, ordinal, pos, retries, crashes>>

\* Disconnect, idle timeout, or the end of the session.
StreamEnds ==
  /\ mode = "stream"
  /\ mode' = "ended"
  /\ UNCHANGED <<runtimeVars, dbVars, ordinal, pos, retries, crashes, clean>>

\* Mutant of RetriesLeft: one attempt too many.
RetriesLeftPlusOne == retries <= MaxRetries

RetriesLeft == retries < MaxRetries

\* Mutant of Resubscribe: every subscribe renews the budget.
ResubscribeForever ==
  /\ mode = "ended" /\ ResumeEnabled
  /\ retries' = 0
  /\ Subscribe(ordinal)
  /\ UNCHANGED <<runtimeVars, bound, stored, gap, outcome, ordinal, crashes, clean>>

\* Resubscribe after the marker's ordinal, within the retry budget.
Resubscribe ==
  /\ mode = "ended" /\ ResumeEnabled /\ RetriesLeft
  /\ retries' = retries + 1
  /\ Subscribe(ordinal)
  /\ UNCHANGED <<runtimeVars, bound, stored, gap, outcome, ordinal, crashes, clean>>

\* Out of budget, or resume is off: the poll loop.
DegradeToPoll ==
  /\ mode = "ended" /\ (~ResumeEnabled \/ ~RetriesLeft)
  /\ mode' = "poll"
  /\ retries' = 0
  /\ UNCHANGED <<runtimeVars, dbVars, ordinal, pos, crashes, clean>>

\* The resume point was compacted: emitStreamGap, then the poll loop.  When
\* the emit throws, the error escapes the loop and the run is failed.
RecordGap ==
  /\ mode = "rejected"
  /\ \/ gap' = "yes" /\ mode' = "poll" /\ retries' = 0 /\ UNCHANGED outcome
     \/ EmitFaults /\ outcome' = "failed" /\ mode' = "done" /\ UNCHANGED <<gap, retries>>
  /\ UNCHANGED <<runtimeVars, bound, stored, cursor, ordinal, pos, crashes, clean>>

\* One getSession.  Its snapshot is persisted with the ordinal as it is, and a
\* terminal one finalizes the run.
Poll ==
  /\ mode = "poll"
  /\ cursor' = CursorAfter(ordinal)
  /\ IF over = "yes" THEN outcome' = "completed" /\ mode' = "done"
                     ELSE mode' = "polled" /\ UNCHANGED outcome
  /\ UNCHANGED <<runtimeVars, bound, stored, gap, ordinal, pos, retries, crashes, clean>>

\* A poll without a terminal state costs a retry; out of retries, or when the
\* event before the next poll cannot be written, the run is failed.
PollAgain ==
  /\ mode = "polled"
  /\ \/ /\ RetriesLeft
        /\ retries' = retries + 1 /\ mode' = "poll" /\ UNCHANGED outcome
     \/ /\ ~RetriesLeft \/ EmitFaults
        /\ outcome' = "failed" /\ mode' = "done" /\ UNCHANGED retries
  /\ UNCHANGED <<runtimeVars, bound, stored, cursor, gap, ordinal, pos, crashes, clean>>

\* The process dies, and an insert under way with it; a run that is not over is
\* attached again after restart.
Crash ==
  /\ crashes < MaxCrashes
  /\ mode \notin {"down", "done"}
  /\ crashes' = crashes + 1
  /\ bound' = IF bound = "yes" THEN "yes" ELSE "no"
  /\ clean' = IF bound = "yes" \/ stored = <<>> THEN clean ELSE "no"
  /\ mode' = "down" /\ ordinal' = 0 /\ pos' = 0 /\ retries' = 0
  /\ UNCHANGED <<runtimeVars, stored, cursor, gap, outcome>>

Loop ==
  \/ Bind \/ Attach \/ Deliver \/ Persist \/ Resubscribe \/ DegradeToPoll
  \/ RecordGap \/ Poll \/ PollAgain

Next ==
  \/ Accept \/ Compact \/ EndSession
  \/ Loop \/ PersistFails \/ StreamEnds
  \/ BindFails \/ BindOvertaken \/ InsertEnds
  \/ Crash

Spec == Init /\ [][Next]_vars

\* The loop goes on.  The stream of a session that is over ends: the runtime
\* closes it, or the idle timeout does.
Fairness ==
  /\ WF_vars(Loop)
  /\ WF_vars(StreamEnds /\ over = "yes" /\ pos = hist)

FairSpec == Spec /\ Fairness

-------------------------------------------------------------------------------
(* Properties. *)

TypeOK ==
  /\ hist \in 0 .. MaxEnvelopes /\ base \in 0 .. hist /\ over \in Flag
  /\ bound \in Row /\ stored \in Seq(1 .. MaxEnvelopes) /\ cursor \in Nat
  /\ gap \in Flag /\ outcome \in {"none", "completed", "failed"}
  /\ mode \in Mode /\ ordinal \in Nat /\ pos \in 0 .. hist
  /\ retries \in 0 .. MaxRetries /\ crashes \in 0 .. MaxCrashes /\ clean \in Flag

\* The log holds a prefix of the session: no envelope twice, none out of order,
\* none skipped, whatever disconnects, failed transactions, compactions, failed
\* binds and restarts happened on the way.  Two things undo it: a commit that is
\* taken for a failure, and envelopes in the log of a run without its
\* runtime_sessions row when the process stops or the row comes late.
StoredIsPrefix == clean = "yes" => \A i \in DOMAIN stored : stored[i] = i

\* Until then the stored resume point, if there is a row to store it, is the number
\* of envelopes in the log, so a restart asks for exactly the next one ...
CursorCoversLog == clean = "yes" /\ bound = "yes" => cursor = Len(stored)

\* ... and the marker of a live loop agrees with the log, row or no row, so a
\* reconnect does too.
MarkerCoversLog ==
  clean = "yes" /\ mode \notin {"binding", "down", "done"} => ordinal = Len(stored)

\* At least once, come what may: every envelope up to the point from which a
\* reconnect or a restart resumes is in the log, even when acknowledgements of
\* commits are lost and the runtime_sessions row was never written.
NothingLost ==
  \A e \in 1 .. Larger(cursor, ordinal) : \E i \in DOMAIN stored : stored[i] = e

\* The run of a session that is over is finalized.
RunEnds == over = "yes" ~> outcome # "none"

\* "A crash can then never leave the persisted resume ordinal one envelope behind
\* the events it covers, which would re-ingest that envelope as a duplicate on
\* restart" (persistRawAndCanonical): no envelope is ever in the log twice.
NeverTwice == \A i, j \in DOMAIN stored : stored[i] = stored[j] => i = j

\* "a real history gap must be recorded on every run" (consumeLoop): a run is
\* completed with envelopes missing only if the gap is in its log.
MissingIsVisible ==
  outcome = "completed" => Len(stored) = hist \/ gap = "yes"
===============================================================================
