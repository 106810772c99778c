------------------------------- MODULE EventLog -------------------------------
(***************************************************************************)
(* The event log of one run and everyone who uses it at the same time: the *)
(* batches that RunEventService writes (sequence numbers, event rows and   *)
(* projection in one transaction behind the run's row lock, then metrics   *)
(* and publication), the rebuild of the projection, and one client: an SSE *)
(* client that reconnects with Last-Event-ID, or the reader of a replay.   *)
(*                                                                         *)
(* An event is its kind; a raw row takes a sequence number and is read by  *)
(* nobody here.  The stored projection is the set of events folded into it *)
(* (module Projection says what the fold computes).                        *)
(***************************************************************************)
EXTENDS Integers, Sequences, FiniteSets, SequencesExt

CONSTANTS
  Writers,     \* callers of RunEventService: consumers, discovery, operators
  Batches,     \* what they write: sequences of row kinds
  Hubs,        \* what the client is connected to: an SSE handler with the memory
               \* hub, with the Redis hub on the publishing instance or on
               \* another one, or a replay
  PageSize,    \* rows of one backfill or replay query
  MaxSeq,      \* bound on the sequence numbers
  MaxBreaks    \* bound on crashes, disconnects and rebuilds

RowKind == {"raw", "event", "decision", "terminal"}

ASSUME WritersAssumption == {"none", "rebuild"} \cap Writers = {}
ASSUME BatchesAssumption == Batches \subseteq Seq(RowKind) /\ <<>> \notin Batches
ASSUME HubsAssumption == Hubs \subseteq {"memory", "local", "remote", "replay"}
ASSUME BoundsAssumption ==
  PageSize \in Nat \ {0} /\ MaxSeq \in Nat /\ MaxBreaks \in Nat

VARIABLES
  lastSeq,    \* runs.last_event_seq
  rows,       \* run_events_raw and run_events_canonical, committed
  lock,       \* who holds the row lock of the run, or "none"
  proj,       \* run_projections: version and the events folded in
  metrics,    \* run_metrics.decision_count (the other counters go the same way)
  writer,     \* the batch each caller is writing
  rebuild,    \* the rebuild under way
  hub,        \* how the client gets events: from a hub, or from a replay
  wire,       \* events on the Redis channel, oldest first
  sub,        \* the SSE handler of the connected client
  got,        \* sequence numbers the client has received, over all connections
  since,      \* the log's end when the client first connected
  published,  \* events handed to the hub
  excused,    \* published events that came after a later one, or got lost
  breaks

logVars == <<lastSeq, rows, lock, proj>>
sseVars == <<wire, sub, got, since, published, excused>>
vars == <<lastSeq, rows, lock, proj, metrics, writer, rebuild, hub,
          wire, sub, got, since, published, excused, breaks>>

\* The rows readers see: a query of run_events_canonical.
Canonical == {r \in rows : r.kind # "raw"}
Seqs(rs) == {r.seq : r \in rs}

SeqMax(S) == CHOOSE m \in S \cup {0} : \A n \in S : n <= m

\* The members of a finite set of numbers in increasing order.
Rising(q) == \A i, j \in DOMAIN q : i < j => q[i] < q[j]
Ascending(S) == CHOOSE q \in [1 .. Cardinality(S) -> S] : Rising(q) /\ ToSet(q) = S

IdleWriter == [pc |-> "idle", batch |-> <<>>, start |-> 0,
               seen |-> {}, decisions |-> 0]
IdleRebuild == [pc |-> "idle", seen |-> {}]
NoClient == [phase |-> "off", cursor |-> 0, high |-> 0, buffer |-> <<>>]

Init ==
  /\ lastSeq = 0 /\ rows = {} /\ lock = "none"
  /\ proj = [version |-> 0, seen |-> {}]
  /\ metrics = 0
  /\ writer = [w \in Writers |-> IdleWriter]
  /\ rebuild = IdleRebuild
  /\ hub \in Hubs
  /\ wire = <<>> /\ sub = NoClient /\ got = <<>> /\ since = 0
  /\ published = {} /\ excused = {}
  /\ breaks = 0

-------------------------------------------------------------------------------
(* One batch: emitControlPlaneEvents and persistRawAndCanonical. *)

\* The rows of w's batch, numbered from the sequence it was given.
BatchRows(w) ==
  {[seq |-> writer[w].start + i - 1, kind |-> writer[w].batch[i]] :
     i \in DOMAIN writer[w].batch}
BatchEvents(w) == {r \in BatchRows(w) : r.kind # "raw"}

Step(w, pc) == writer' = [writer EXCEPT ![w].pc = pc]

\* Mutant of Allocate: the sequence is allocated outside the transaction.
AllocateOutside(w, b) ==
  /\ writer[w].pc = "idle" /\ lastSeq + Len(b) <= MaxSeq
  /\ lastSeq' = lastSeq + Len(b)
  /\ writer' = [writer EXCEPT ![w] =
       [IdleWriter EXCEPT !.pc = "allocated", !.batch = b, !.start = lastSeq + 1]]
  /\ UNCHANGED <<rows, lock, proj, metrics, rebuild, hub, sseVars, breaks>>

\* allocateSequence: the UPDATE takes the row lock, which is held to commit.
Allocate(w, b) ==
  /\ writer[w].pc = "idle" /\ lock = "none"
  /\ lastSeq + Len(b) <= MaxSeq
  /\ lock' = w
  /\ lastSeq' = lastSeq + Len(b)
  /\ writer' = [writer EXCEPT ![w] =
       [IdleWriter EXCEPT !.pc = "allocated", !.batch = b, !.start = lastSeq + 1]]
  /\ UNCHANGED <<rows, proj, metrics, rebuild, hub, sseVars, breaks>>

\* appendRaw, appendCanonical, and applyAndPersist up to its write: the
\* projection is read through the transaction and the batch folded into it.
Apply(w) ==
  /\ writer[w].pc = "allocated"
  /\ writer' = [writer EXCEPT ![w].pc = "applied",
                              ![w].seen = proj.seen \cup Seqs(BatchEvents(w))]
  /\ UNCHANGED <<logVars, metrics, rebuild, hub, sseVars, breaks>>

\* upsert: a normal write must raise the version, a forced one always lands.
Upsert(version, seen, force) ==
  proj' = IF force \/ proj.version < version
            THEN [version |-> version, seen |-> seen] ELSE proj

Unlocked(w) == IF lock = w THEN "none" ELSE lock

\* The projection is written and the transaction commits.
Commit(w) ==
  /\ writer[w].pc = "applied"
  /\ rows' = rows \cup BatchRows(w)
  /\ Upsert(SeqMax(Seqs(BatchEvents(w))), writer[w].seen, FALSE)
  /\ lock' = Unlocked(w)
  /\ Step(w, "committed")
  /\ UNCHANGED <<lastSeq, metrics, rebuild, hub, sseVars, breaks>>

\* A statement of the transaction throws, or the commit does: nothing of the
\* batch stays, the sequence numbers included, and the caller gets the error.
Rollback(w) ==
  /\ writer[w].pc \in {"allocated", "applied"} /\ breaks < MaxBreaks
  /\ breaks' = breaks + 1
  /\ lastSeq' = writer[w].start - 1
  /\ lock' = Unlocked(w)
  /\ writer' = [writer EXCEPT ![w] = IdleWriter]
  /\ UNCHANGED <<rows, proj, metrics, rebuild, hub, sseVars>>

-------------------------------------------------------------------------------
(* runPostCommitSideEffects: metrics first, then publication. *)

\* recordEvents reads the counters, outside any transaction ...
ReadMetrics(w) ==
  /\ writer[w].pc = "committed"
  /\ writer' = [writer EXCEPT ![w].pc = "counting", ![w].decisions = metrics]
  /\ UNCHANGED <<logVars, metrics, rebuild, hub, sseVars, breaks>>

\* ... adds the batch, and writes all of them back.
WriteMetrics(w) ==
  /\ writer[w].pc = "counting"
  /\ metrics' = writer[w].decisions
                + Cardinality({r \in BatchEvents(w) : r.kind = "decision"})
  /\ Step(w, "counted")
  /\ UNCHANGED <<logVars, rebuild, hub, sseVars, breaks>>

\* Either call throws; the error is counted and logged.
MetricsFail(w) ==
  /\ writer[w].pc \in {"committed", "counting"} /\ breaks < MaxBreaks
  /\ breaks' = breaks + 1
  /\ Step(w, "counted")
  /\ UNCHANGED <<logVars, metrics, rebuild, hub, sseVars>>

\* Mutant of Fresh: no comparison with what was sent before.
FreshAll(high, msgs) ==
  [high |-> SeqMax({high} \cup ToSet(msgs)), out |-> msgs]

\* The filter of the SSE handler: an event offered is sent when it is above the
\* last one sent, that is above high and above all that were offered before it.
Passes(high, msgs) ==
  {i \in DOMAIN msgs : msgs[i] > high /\ \A j \in 1 .. i - 1 : msgs[j] < msgs[i]}
Fresh(high, msgs) ==
  [high |-> SeqMax({high} \cup ToSet(msgs)),
   out  |-> Ascending({msgs[i] : i \in Passes(high, msgs)})]

\* Mutant of Receive: live events are only listened to after the backfill.
ReceiveLiveOnly(msgs) ==
  IF sub.phase = "live"
    THEN LET f == Fresh(sub.high, msgs)
         IN  sub' = [sub EXCEPT !.high = f.high] /\ got' = got \o f.out
    ELSE UNCHANGED <<sub, got>>

\* The live subscription: buffered until the backfill is done, then filtered.
Receive(msgs) ==
  CASE sub.phase = "live" ->
         LET f == Fresh(sub.high, msgs)
         IN  sub' = [sub EXCEPT !.high = f.high] /\ got' = got \o f.out
    [] sub.phase \in {"snapshot", "backfill"} ->
         sub' = [sub EXCEPT !.buffer = @ \o msgs] /\ UNCHANGED got
    [] OTHER -> UNCHANGED <<sub, got>>

\* publishEvent for each event of the batch, then publishSnapshot, with no
\* await in between.  The Redis hub sends to the channel and emits locally.
\* A writer that ended the run may go on to complete the stream.
Publish(w) ==
  LET evs == Ascending(Seqs(BatchEvents(w))) IN
  /\ writer[w].pc = "counted"
  /\ published' = published \cup ToSet(evs)
  /\ excused' = excused \cup {s \in ToSet(evs) : s < SeqMax(published)}
  /\ wire' = IF hub \in {"local", "remote"} THEN wire \o evs ELSE wire
  /\ IF hub = "remote" THEN UNCHANGED <<sub, got>> ELSE Receive(evs)
  /\ \/ writer' = [writer EXCEPT ![w] = IdleWriter]
     \/ /\ \E r \in BatchEvents(w) : r.kind = "terminal"
        /\ Step(w, "closing")
  /\ UNCHANGED <<logVars, metrics, rebuild, hub, since, breaks>>

\* streamHub.complete, from finalizeRun or cancel.  The memory hub completes
\* the subject, and with it the response, wherever the handler stands; the
\* Redis hub sends a message that ends nothing.
Complete(w) ==
  /\ writer[w].pc = "closing"
  /\ writer' = [writer EXCEPT ![w] = IdleWriter]
  /\ sub' = IF hub = "memory" THEN NoClient ELSE sub
  /\ UNCHANGED <<logVars, metrics, rebuild, hub, wire, got, since,
                 published, excused, breaks>>

\* The subscriber connection of the client's instance gets the next message;
\* on the publishing instance that is the echo of a local one.
FromRedis ==
  /\ wire # <<>>
  /\ wire' = Tail(wire)
  /\ Receive(<<Head(wire)>>)
  /\ UNCHANGED <<logVars, metrics, writer, rebuild, hub, since,
                 published, excused, breaks>>

\* publish to Redis fails: a warning is logged.
LostOnWire ==
  /\ wire # <<>> /\ breaks < MaxBreaks
  /\ breaks' = breaks + 1
  /\ wire' = Tail(wire)
  /\ excused' = IF hub = "remote" THEN excused \cup {Head(wire)} ELSE excused
  /\ UNCHANGED <<logVars, metrics, writer, rebuild, hub, sub, got, since, published>>

-------------------------------------------------------------------------------
(* The SSE client and its handler, streamRun. *)

LastId == IF got = <<>> THEN 0 ELSE Last(got)

\* A reconnect sends the last id it received.  A first connection asks for
\* what is new, or for what follows an event it knows from elsewhere.
Connect(after, snapshot) ==
  /\ sub.phase = "off" /\ hub # "replay"
  /\ IF got # <<>> THEN after = LastId ELSE after \in {0} \cup Seqs(Canonical)
  /\ since' = IF got # <<>> THEN since
              ELSE IF after = 0 THEN SeqMax(Seqs(rows)) ELSE after
  /\ sub' = [phase |-> IF snapshot THEN "snapshot"
                       ELSE IF after > 0 THEN "backfill" ELSE "live",
             cursor |-> after, high |-> after, buffer |-> <<>>]
  /\ UNCHANGED <<logVars, metrics, writer, rebuild, hub, wire, got,
                 published, excused, breaks>>

\* The buffered live events are filtered and sent; from here on the handler is live.
Drain(high, sent) ==
  LET f == Fresh(high, sub.buffer)
  IN  /\ got' = got \o sent \o f.out
      /\ sub' = [sub EXCEPT !.phase = "live", !.high = f.high, !.buffer = <<>>]

\* getState for the snapshot; without a resume point there is no backfill.
SendSnapshot ==
  /\ sub.phase = "snapshot"
  /\ IF sub.cursor > 0 THEN sub' = [sub EXCEPT !.phase = "backfill"] /\ UNCHANGED got
                       ELSE Drain(sub.high, <<>>)
  /\ UNCHANGED <<logVars, metrics, writer, rebuild, hub, wire, since,
                 published, excused, breaks>>

\* listCanonicalByRun: the next rows after a cursor, in seq order.
Page(cursor) ==
  LET after == Ascending({s \in Seqs(Canonical) : s > cursor})
  IN  SubSeq(after, 1, IF Len(after) < PageSize THEN Len(after) ELSE PageSize)

\* One page of the backfill; a short one is the last.
Backfill ==
  LET page == Page(sub.cursor)
      f == Fresh(sub.high, page)
  IN  /\ sub.phase = "backfill"
      /\ IF Len(page) < PageSize THEN Drain(f.high, f.out)
         ELSE /\ sub' = [sub EXCEPT !.cursor = Last(page), !.high = f.high]
              /\ got' = got \o f.out
      /\ UNCHANGED <<logVars, metrics, writer, rebuild, hub, wire, since,
                     published, excused, breaks>>

\* ReplayService.stream from fromSeq: the first page ...
StartReplay(fromSeq) ==
  /\ hub = "replay" /\ sub.phase = "off" /\ got = <<>>
  /\ since' = fromSeq - 1
  /\ sub' = [NoClient EXCEPT !.phase = "replay", !.cursor = fromSeq - 1]
  /\ UNCHANGED <<logVars, metrics, writer, rebuild, hub, wire, got, published, excused, breaks>>

\* ... and the next ones, sent as they are read, up to toSeq.
ReplayPage(toSeq) ==
  LET page == Page(sub.cursor)
      sent == Ascending({s \in ToSet(page) : s <= toSeq})
  IN  /\ sub.phase = "replay"
      /\ got' = got \o sent
      /\ sub' = IF Len(page) < PageSize \/ sent # page THEN NoClient
                ELSE [sub EXCEPT !.cursor = Last(page)]
      /\ UNCHANGED <<logVars, metrics, writer, rebuild, hub, wire, since,
                     published, excused, breaks>>

\* The connection breaks, or a query of the backfill throws.
Disconnect ==
  /\ sub.phase # "off" /\ breaks < MaxBreaks
  /\ breaks' = breaks + 1
  /\ sub' = NoClient
  /\ UNCHANGED <<logVars, metrics, writer, rebuild, hub, wire, got, since,
                 published, excused>>

-------------------------------------------------------------------------------
(* Rebuild, and the end of the process. *)

\* Mutant of RebuildRead: the rebuild does not lock the run.
RebuildReadUnlocked ==
  /\ rebuild.pc = "idle" /\ breaks < MaxBreaks
  /\ breaks' = breaks + 1
  /\ rebuild' = [pc |-> "read", seen |-> Seqs(Canonical)]
  /\ UNCHANGED <<logVars, metrics, writer, hub, sseVars>>

\* rebuildProjection, from its endpoint or from getState's repair of a terminal
\* run: lockForUpdate, then the whole log.
RebuildRead ==
  /\ rebuild.pc = "idle" /\ lock = "none" /\ breaks < MaxBreaks
  /\ breaks' = breaks + 1
  /\ lock' = "rebuild"
  /\ rebuild' = [pc |-> "read", seen |-> Seqs(Canonical)]
  /\ UNCHANGED <<lastSeq, rows, proj, metrics, writer, hub, sseVars>>

RebuildWrite ==
  /\ rebuild.pc = "read"
  /\ Upsert(SeqMax(rebuild.seen), rebuild.seen, TRUE)
  /\ lock' = IF lock = "rebuild" THEN "none" ELSE lock
  /\ rebuild' = IdleRebuild
  /\ UNCHANGED <<lastSeq, rows, metrics, writer, hub, sseVars, breaks>>

\* The process ends: open transactions roll back, responses and timers are
\* gone.  A client of another instance stays connected.
ProcessExit ==
  /\ breaks < MaxBreaks
  /\ breaks' = breaks + 1
  /\ lastSeq' = SeqMax(Seqs(rows))
  /\ lock' = "none"
  /\ writer' = [w \in Writers |-> IdleWriter]
  /\ rebuild' = IdleRebuild
  /\ IF hub = "remote" THEN UNCHANGED <<wire, sub>> ELSE wire' = <<>> /\ sub' = NoClient
  /\ UNCHANGED <<rows, proj, metrics, hub, got, since, published, excused>>

Crash == ProcessExit

\* The projection read or write of applyAndPersist throws.  The transaction
\* rolls back; the promise kept in applyLocks is rejected too, nobody handles
\* that rejection, and Node ends the process.
ApplyThrows(w) == writer[w].pc = "allocated" /\ ProcessExit

Next ==
  \/ \E w \in Writers :
       \/ \E b \in Batches : Allocate(w, b)
       \/ Apply(w) \/ ApplyThrows(w) \/ Commit(w) \/ Rollback(w)
       \/ ReadMetrics(w) \/ WriteMetrics(w) \/ MetricsFail(w)
       \/ Publish(w) \/ Complete(w)
  \/ FromRedis \/ LostOnWire
  \/ \E after \in 0 .. MaxSeq, snapshot \in BOOLEAN : Connect(after, snapshot)
  \/ SendSnapshot \/ Backfill \/ Disconnect
  \/ \E seq \in 1 .. MaxSeq : StartReplay(seq) \/ ReplayPage(seq)
  \/ RebuildRead \/ RebuildWrite
  \/ Crash

Spec == Init /\ [][Next]_vars

-------------------------------------------------------------------------------
(* Properties. *)

\* Rows become visible in the order of their numbers, so a replay that pages
\* through the log while batches commit and roll back has sent every event up to
\* where it stands.
ReplayIsLog ==
  hub = "replay" => ToSet(got) = {s \in Seqs(Canonical) : since < s /\ s <= LastId}

\* The stored projection is the fold of the whole log, no event lost to a
\* concurrent batch or to a rebuild that read the log before it.
ProjectionCoversLog ==
  /\ proj.seen = Seqs(Canonical)
  /\ proj.version = SeqMax(Seqs(Canonical))

\* An SSE client sees no event twice and none after a later one, however often
\* it reconnects, and whatever both the database and the hub deliver.
ClientInOrder == \A i \in 1 .. Len(got) - 1 : got[i] < got[i + 1]

Missed == {s \in published \cap Seqs(Canonical) : since < s /\ s < LastId /\ s \notin ToSet(got)}

\* Between snapshot, backfill, buffer and live events no published event falls
\* through: the client has every one below its last id, except those published
\* after a later one, or lost on the way to another instance.
MissedOnlyIfLate == Missed \subseteq excused

\* "Subscribe to normalized live run events over SSE with resume support"
\* (streamRun): what a client does not get live it gets by resuming after the
\* last id it has, so below that id nothing is missing.
NothingMissed == Missed = {}

\* A committed decision shows in the counters once every batch is through: the
\* repairs of getState and getRun look for it there.
DecisionIsCounted ==
  (\A w \in Writers : writer[w].pc = "idle") /\ breaks = 0 =>
    metrics = Cardinality({r \in rows : r.kind = "decision"})
===============================================================================
