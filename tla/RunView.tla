-------------------------------- MODULE RunView --------------------------------
(***************************************************************************)
(* The read model of one run while it is written: the stream consumer's    *)
(* frames, the signal consumer's, the lifecycle events of whoever moves    *)
(* the run row, artifacts and the gap marker, in any order they can reach  *)
(* the log.  A batch is stored whole or not at all (module EventLog); the  *)
(* row's transition and the event that reports it are two steps.           *)
(***************************************************************************)
EXTENDS Normalizer, Projection

CONSTANTS
  Frames,       \* frames of the session's stream
  Signals,      \* envelopes of WatchSignals
  Declared,     \* the participant lists a run may be created with
  MaxBatches,   \* bound on the batches that are not lifecycle events
  MaxRowSteps   \* bound on the transitions of the row

ASSUME ViewBounds == MaxBatches \in Nat /\ MaxRowSteps \in Nat
ASSUME FramesAssumption ==
  \A f \in Frames \cup Signals :
    /\ f.kind \in {"stream-status", "session-snapshot", "stream-inline-error", "stream-envelope"}
    /\ f.kind = "session-snapshot" => f.state \in SessionState
    /\ f.kind = "stream-envelope" =>
         f.payload.participants \in Seq(ToSet(f.payload.participants))
ASSUME DeclaredAssumption == \A ps \in Declared : ps \in Seq(ToSet(ps))

VARIABLES
  proj,       \* the stored projection
  known,      \* the stream consumer's knownParticipants
  retry,      \* the envelope whose batch failed, if any: the stream resumes with it
  row,        \* runs.status
  pending,    \* transitions of the row whose event is not yet in the log
  batches,    \* batches so far: also the clock
  rowSteps,
  sent,       \* who sent a message that is in the log
  committed,  \* the action of the last commitment in the log
  settled,    \* a decision, or the end of a failed or cancelled run, is in the log
  swept       \* participants there when the run last ended in the log

vars == <<proj, known, retry, row, pending, batches, rowSteps,
          sent, committed, settled, swept>>

Started == <<PlainEvent("run.created", 0, "run", "queued"),
             PlainEvent("run.started", 0, "run", "starting"),
             PlainEvent("session.bound", 0, "session", "OPEN")>>

Announced(ps) ==
  [i \in DOMAIN ps |-> PlainEvent("participant.seen", 0, ps[i], "none")]

\* Bound and running: created, started, bound, its participants announced.  A
\* run found by discovery has none.
Init ==
  /\ \E ps \in Declared :
       /\ known = ToSet(ps)
       /\ proj = ApplyEvents(Empty, Started \o Announced(ps)
                   \o <<PlainEvent("session.state.changed", 0, "session", "OPEN")>>)
  /\ retry = {} /\ row = "running" /\ pending = {}
  /\ batches = 0 /\ rowSteps = 0
  /\ sent = {} /\ committed = "none" /\ settled = FALSE /\ swept = {}

-------------------------------------------------------------------------------
EndsRun(ev) ==
  \/ ev.type \in TerminalEventType
  \/ ev.type \in SessionEventType /\ ev.data \in SessionTerminal

ReopensRun(ev) == ev.type \in {"run.suspended", "run.resumed"}

\* applyAndPersist of a batch, and what the properties remember of it.
Persist(evs) ==
  LET of(types) == {i \in DOMAIN evs : evs[i].type \in types} IN
  /\ proj' = Stored(ApplyEvents(proj, evs))
  /\ sent' = sent \cup {evs[i].sender : i \in of({"message.received"})}
  /\ committed' = IF of({"decision.finalized"}) = {} THEN committed
                  ELSE CommittedAction(evs[CHOOSE i \in of({"decision.finalized"}) : TRUE].payload)
  /\ settled' = (settled \/ of({"decision.finalized", "run.failed", "run.cancelled"}) # {})
  /\ swept' = CASE \E i \in DOMAIN evs : EndsRun(evs[i]) -> DOMAIN proj.parts
                [] \E i \in DOMAIN evs : ReopensRun(evs[i]) -> {}
                [] OTHER -> swept

Batch(evs) ==
  /\ batches < MaxBatches
  /\ batches' = batches + 1
  /\ Persist(evs)

\* handleRawEvent: normalize, which remembers the sender, then store.  Envelopes
\* are numbered: after a failed one the stream resumes with that one.  A status,
\* an inline error or a polled snapshot may come before it, and for ever when the
\* loop has given up on the stream.
Envelope(f) == f.kind = "stream-envelope"

StreamFrame(f) ==
  /\ Envelope(f) => retry \subseteq {f}
  /\ Batch(Normalize(f, batches + 1, known))
  /\ known' = KnownAfter(f, known)
  /\ retry' = retry \ {f}
  /\ UNCHANGED <<row, pending, rowSteps>>

\* The transaction of an envelope fails, perhaps again; the sender is remembered
\* all the same.  That of another frame leaves nothing behind.
StreamFrameFails(f) ==
  /\ Envelope(f) /\ retry \subseteq {f} /\ batches < MaxBatches
  /\ known' = KnownAfter(f, known)
  /\ retry' = {f}
  /\ UNCHANGED <<proj, row, pending, batches, rowSteps, sent, committed, settled, swept>>

\* The signal consumer normalizes with an empty set every time.
Signal(f) ==
  /\ Batch(Normalize(f, batches + 1, {}))
  /\ UNCHANGED <<known, retry, row, pending, rowSteps>>

\* A mark* of the run manager moves the row ...
EventOf == [s \in Terminal \cup {"suspended", "running"} |->
  CASE s = "completed" -> "run.completed" [] s = "failed" -> "run.failed"
    [] s = "cancelled" -> "run.cancelled" [] s = "suspended" -> "run.suspended"
    [] s = "running" -> "run.resumed"]

RowStep(status) ==
  /\ row \in ValidFrom(status) /\ rowSteps < MaxRowSteps
  /\ row' = status
  /\ rowSteps' = rowSteps + 1
  /\ pending' = pending \cup {status}
  /\ UNCHANGED <<proj, known, retry, batches, sent, committed, settled, swept>>

\* ... and then writes its event, which another one's may overtake.
Emit(status) ==
  /\ status \in pending
  /\ pending' = pending \ {status}
  /\ Persist(<<PlainEvent(EventOf[status], batches + 1, "run", status)>>)
  /\ UNCHANGED <<known, retry, row, batches, rowSteps>>

\* createArtifact, or the trace artifact of the executor.
CreateArtifact ==
  /\ Batch(<<PlainEvent("artifact.created", batches + 1, "artifact", "none")>>)
  /\ UNCHANGED <<known, retry, row, pending, rowSteps>>

\* The history the stream would have resumed from is gone.
StreamGap ==
  /\ Batch(<<PlainEvent("session.stream.gap", batches + 1, "session", "none")>>)
  /\ UNCHANGED <<known, retry, row, pending, rowSteps>>

Next ==
  \/ \E f \in Frames : StreamFrame(f) \/ StreamFrameFails(f)
  \/ \E f \in Signals : Signal(f)
  \/ \E s \in DOMAIN EventOf : RowStep(s) \/ Emit(s)
  \/ CreateArtifact \/ StreamGap

Spec == Init /\ [][Next]_vars

-------------------------------------------------------------------------------
(* Properties. *)

\* A committed decision is final: whatever proposals, votes and evaluations
\* arrive or are replayed after the commitment, the read model shows it as
\* finalized, with the action that was committed.
DecisionIsLastCommitment ==
  committed # "none" => proj.decision.finalized /\ proj.decision.action = committed

\* A participant swept when the run ended is not active or waiting again, for
\* all late messages and signals, unless a suspend or resume is logged later.
SweptStaySwept == \A p \in swept : proj.parts[p].status \in ParticipantTerminal

\* Once a decision or a failed end is in the log the quorum is settled, and no
\* later vote puts it back to pending.
QuorumSettled == settled => proj.quorum \in {"reached", "failed"}

\* Whoever sent a message that is in the log is shown, also when the frame was
\* normalized twice and its participant.seen lost with the first attempt.
SendersAreShown == sent \subseteq DOMAIN proj.parts

\* "`completed` - participant emitted at least one canonical event",
\* "`skipped` - participant was declared but never emitted any event": one that
\* never sent anything is not shown as completed.
SilentIsSkipped ==
  \A p \in DOMAIN proj.parts : proj.parts[p].status = "completed" => p \in sent
===============================================================================
