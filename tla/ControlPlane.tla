----------------------------- MODULE ControlPlane -----------------------------
(***************************************************************************)
(* The control plane around one runtime session and the run that observes  *)
(* it.  The actors are asynchronous and share the run through              *)
(* RunManagerService (module RunManager):                                  *)
(*                                                                         *)
(*   launchers  POST /runs and the executor loop it leaves behind          *)
(*   consumer   StreamConsumerService: the per-run stream and poll loop    *)
(*   discovery  SessionDiscoveryService: the WatchSessions loop            *)
(*   recovery   RunRecoveryService, once after each restart                *)
(*   uis        the cancel, suspend and resume requests of operators       *)
(*                                                                         *)
(* The runtime session and the agents that drive it are external: they act *)
(* when they like.  An actor awaits an operation of RunManagerService by   *)
(* waiting for its own call to settle; every other actor may move first.   *)
(***************************************************************************)
EXTENDS RunProjection, Integers, Sequences

CONSTANTS
  Launchers,    \* POST /runs requests for this session (same idempotency key)
  Uis,          \* operator requests that may be in flight at once
  UiOps,        \* the requests they make: "cancel", "suspend", "resume"
  Discovery,    \* SESSION_DISCOVERY_ENABLED
  MaxPauses,    \* bound on suspensions of the session
  MaxBreaks,    \* bound on breaks of the WatchSessions stream
  MaxCrashes,   \* bound on crashes of the control plane
  MaxRetries,   \* STREAM_MAX_RETRIES
  Faults        \* whether database and runtime calls may fail

ASSUME LaunchersAssumption == Launchers \cap Uis = {}
ASSUME UiOpsAssumption == UiOps \subseteq {"cancel", "suspend", "resume"}
ASSUME BoundsAssumption ==
  /\ MaxPauses \in Nat /\ MaxBreaks \in Nat
  /\ MaxCrashes \in Nat /\ MaxRetries \in Nat
ASSUME SwitchesAssumption == Discovery \in BOOLEAN /\ Faults \in BOOLEAN

VARIABLES
  row, rowKey, sessionRow, outcomes, proj, fired, call,   \* see RunManager
  session,     \* the runtime session: "none" or a SessionState
  pauses,      \* suspensions so far
  committed,   \* whether the Commitment envelope has been ingested
  watch,       \* the WatchSessions stream: up, undelivered events
  known,       \* knownSessions has this session
  disc,        \* the discovery loop
  exec,        \* the executor loop of each launch
  cons,        \* the consumer's ActiveStream marker and where its loop stands
  rec,         \* the recovery sweep
  ui,          \* each operator request
  breaks, crashes

Callers == Launchers \cup Uis \cup {"consumer", "discovery", "recovery"}
Reports == SessionState

RM == INSTANCE RunManager

rmVars == <<row, rowKey, sessionRow, outcomes, proj, fired, call>>
runtimeVars == <<session, pauses>>
discVars == <<watch, known, disc, breaks>>
vars == <<rmVars, runtimeVars, committed, discVars, exec, cons, rec, ui, crashes>>

-------------------------------------------------------------------------------

Off == [mode |-> "off", st |-> "none", retries |-> 0, aborted |-> FALSE]
Quiet == [pc |-> "idle", st |-> "none"]

Init ==
  /\ RM!Init
  /\ session = "none"
  /\ pauses = 0
  /\ committed = FALSE
  /\ watch = [up |-> FALSE, q |-> <<>>]
  /\ known = FALSE
  /\ disc = Quiet
  /\ exec = [l \in Launchers |-> Quiet]
  /\ cons = Off
  /\ rec = "off"
  /\ ui = [u \in Uis |-> [op |-> "none", pc |-> "idle"]]
  /\ breaks = 0
  /\ crashes = 0

\* The operation c awaits has settled.
Settled(c) == call[c].pc = "idle"
Ok(c) == call[c].res = "ok"

-------------------------------------------------------------------------------
(* The runtime (external).  A change of the session is an event of the     *)
(* watch, lost when nobody watches.                                        *)

LifecycleEvent(type, st) == [type |-> type, st |-> st]

Report(ev) == watch' = IF watch.up THEN [watch EXCEPT !.q = Append(@, ev)] ELSE watch

MoveSession(st, type) == session' = st /\ Report(LifecycleEvent(type, st))

Suspend ==
  /\ session = "OPEN" /\ pauses < MaxPauses
  /\ pauses' = pauses + 1
  /\ MoveSession("SUSPENDED", "suspended")

Resume ==
  /\ session = "SUSPENDED"
  /\ MoveSession("OPEN", "resumed")
  /\ UNCHANGED pauses

Cancel ==
  /\ session \in {"OPEN", "SUSPENDED"}
  /\ MoveSession("CANCELLED", "cancelled")
  /\ UNCHANGED pauses

\* The agents and the runtime's own clock.
Agents ==
  /\ \/ Suspend \/ Resume \/ Cancel
     \/ /\ UNCHANGED pauses
        /\ \/ session = "none" /\ MoveSession("OPEN", "created")
           \/ session = "OPEN" /\ MoveSession("RESOLVED", "resolved")
           \/ session \in {"OPEN", "SUSPENDED"} /\ MoveSession("EXPIRED", "expired")
  /\ UNCHANGED <<rmVars, committed, known, disc, breaks, exec, cons, rec, ui, crashes>>

-------------------------------------------------------------------------------
(* StreamConsumerService.  Reconnects of the stream are in StreamResume;   *)
(* here a stream delivers, or ends for good and leaves the poll loop.      *)

\* Mutant of StartConsumer: nothing is started without a stream handle.
StartConsumerStreamOnly(mode) ==
  cons' = IF cons.mode = "off" /\ mode = "stream" THEN [Off EXCEPT !.mode = mode] ELSE cons

\* start(): a second start for a run that has a marker is dropped.
StartConsumer(mode) ==
  cons' = IF cons.mode = "off" THEN [Off EXCEPT !.mode = mode] ELSE cons

\* The stream delivers the Commitment that resolved the session.
ConsCommitment ==
  /\ cons.mode = "stream" /\ ~cons.aborted
  /\ session = "RESOLVED" /\ ~committed
  /\ RM!Ingest([type |-> "decision.finalized", data |-> "none"])
  /\ committed' = TRUE
  /\ UNCHANGED cons

ConsStreamEnds ==
  /\ cons.mode = "stream"
  /\ cons' = IF cons.aborted THEN Off ELSE [cons EXCEPT !.mode = "poll"]
  /\ UNCHANGED <<rmVars, committed>>

\* One getSession of the poll loop.  A session that is not there, or a call
\* that fails, costs a retry.
ConsPoll ==
  /\ cons.mode = "poll"
  /\ \/ cons.aborted /\ cons' = Off
     \/ /\ ~cons.aborted /\ session # "none"
        /\ cons' = [cons EXCEPT !.mode = "persist", !.st = session]
     \/ /\ ~cons.aborted /\ (session = "none" \/ Faults)
        /\ cons' = [cons EXCEPT !.mode = "retry"]
  /\ UNCHANGED <<rmVars, committed>>

\* handleRawEvent of the snapshot: the event transaction, then updateState.
\* Either may throw, which the poll loop only logs.
ConsPersist ==
  /\ cons.mode = "persist"
  /\ \/ /\ row \in RunStatus
        /\ RM!AppendCanonical([type |-> "session.state.changed", data |-> cons.st])
        /\ sessionRow' = IF sessionRow = "none" THEN "none" ELSE cons.st
        /\ cons' = [cons EXCEPT !.mode =
             IF cons.st \in SessionTerminal THEN "finalize" ELSE "retry"]
     \/ /\ Faults
        /\ \/ RM!AppendCanonical([type |-> "session.state.changed", data |-> cons.st])
           \/ UNCHANGED <<outcomes, proj>>
        /\ cons' = [cons EXCEPT !.mode = "retry"]
        /\ UNCHANGED sessionRow
  /\ UNCHANGED <<row, rowKey, fired, call, committed>>

\* Mutant of FinalOp: whatever is not cancelled is completed.
FinalOpCompletes(st) == IF st = "CANCELLED" THEN "markCancelled" ELSE "markCompleted"

\* What a run ends as when its session is in state st, or when polling is
\* exhausted ("none").
FinalOp(st) ==
  CASE st = "RESOLVED"  -> "markCompleted"
    [] st = "CANCELLED" -> "markCancelled"
    [] OTHER            -> "markFailed"

RetriesLeft == cons.retries < MaxRetries

\* A poll that saw no terminal state.  Out of retries, or when the event it
\* emits before sleeping throws, the run is failed.
ConsRetry ==
  /\ cons.mode = "retry"
  /\ \/ /\ RetriesLeft
        /\ cons' = [cons EXCEPT !.mode = "poll", !.retries = @ + 1]
     \/ /\ ~RetriesLeft
        /\ cons' = [cons EXCEPT !.mode = "finalize", !.st = "none"]
     \/ /\ Faults /\ RetriesLeft
        /\ cons' = IF cons.aborted THEN Off
                   ELSE [cons EXCEPT !.mode = "finalize", !.st = "none"]
  /\ UNCHANGED <<rmVars, committed>>

\* finalizeRun: the marker is finalized and aborted before the write.
ConsFinalize ==
  /\ cons.mode = "finalize"
  /\ RM!Begin("consumer", FinalOp(cons.st), "none")
  /\ cons' = [cons EXCEPT !.mode = "final", !.aborted = TRUE]
  /\ UNCHANGED committed

\* Mutant of ConsFinalized: the marker is dropped only after a clean write.
ConsFinalizedIfOk ==
  /\ cons.mode = "final" /\ Settled("consumer") /\ Ok("consumer")
  /\ cons' = Off
  /\ UNCHANGED <<rmVars, committed>>

\* Whether the write took effect or threw, the loop is over.
ConsFinalized ==
  /\ cons.mode = "final" /\ Settled("consumer")
  /\ cons' = Off
  /\ UNCHANGED <<rmVars, committed>>

ConsStep ==
  /\ \/ ConsCommitment \/ ConsPoll \/ ConsPersist \/ ConsRetry
     \/ ConsFinalize \/ ConsFinalized
  /\ UNCHANGED <<runtimeVars, discVars, exec, rec, ui, crashes>>

\* The stream breaks, stays idle, or its session is over.
ConsEnds ==
  /\ ConsStreamEnds
  /\ UNCHANGED <<runtimeVars, discVars, exec, rec, ui, crashes>>

-------------------------------------------------------------------------------
(* RunExecutorService.launch and execute.                                  *)

ExecTo(l, pc) == exec' = [exec EXCEPT ![l].pc = pc]

\* The server listens once the recovery sweep of onApplicationBootstrap is over.
Listening == rec = "off"

\* POST /runs.
Launch(l) ==
  /\ Listening /\ exec[l].pc = "idle"
  /\ RM!Begin(l, "createRun", "key")
  /\ ExecTo(l, "create")
  /\ UNCHANGED cons

\* createRun returned, a new run or the one the key already had: execute().
ExecStart(l) ==
  /\ exec[l].pc = "create" /\ Settled(l)
  /\ IF Ok(l) THEN RM!Begin(l, "markStarted", "none") /\ ExecTo(l, "start")
              ELSE ExecTo(l, "done") /\ UNCHANGED rmVars
  /\ UNCHANGED cons

\* markStarted, then Initialize.
ExecInitialize(l) ==
  /\ exec[l].pc = "start" /\ Settled(l)
  /\ \/ Ok(l) /\ ExecTo(l, "poll")
     \/ (~Ok(l) \/ Faults) /\ ExecTo(l, "fail")
  /\ UNCHANGED <<rmVars, cons>>

\* pollForOpenSession sees the session, and the run is bound to it.
ExecBind(l) ==
  /\ exec[l].pc = "poll" /\ session \in {"OPEN", "RESOLVED"}
  /\ RM!Begin(l, "bindSession", session)
  /\ exec' = [exec EXCEPT ![l] = [pc |-> "bind", st |-> session]]
  /\ UNCHANGED cons

\* It sees a session that ended otherwise, or waits in vain.
ExecGiveUp(l) ==
  /\ exec[l].pc = "poll" /\ session \in {"EXPIRED", "CANCELLED", "none", "SUSPENDED"}
  /\ ExecTo(l, "fail")
  /\ UNCHANGED <<rmVars, cons>>

ExecMarkRunning(l) ==
  /\ exec[l].pc = "bind" /\ Settled(l)
  /\ IF Ok(l) THEN RM!Begin(l, "markRunning", exec[l].st) /\ ExecTo(l, "run")
              ELSE ExecTo(l, "fail") /\ UNCHANGED rmVars
  /\ UNCHANGED cons

\* The run is running: the consumer takes the stream, or only polls when the
\* session was already resolved.
ExecAttach(l) ==
  /\ exec[l].pc = "run" /\ Settled(l)
  /\ IF Ok(l)
       THEN /\ StartConsumer(IF exec[l].st = "RESOLVED" THEN "poll" ELSE "stream")
            /\ ExecTo(l, "artifact")
       ELSE ExecTo(l, "fail") /\ UNCHANGED cons
  /\ UNCHANGED rmVars

\* The trace artifact is registered; an error here still fails the run.
ExecArtifact(l) ==
  /\ exec[l].pc = "artifact"
  /\ \/ ExecTo(l, "done")
     \/ Faults /\ ExecTo(l, "fail")
  /\ UNCHANGED <<rmVars, cons>>

\* handleExecuteError.
ExecFail(l) ==
  /\ exec[l].pc = "fail"
  /\ RM!Begin(l, "markFailed", "none")
  /\ ExecTo(l, "failing")
  /\ UNCHANGED cons

ExecFailed(l) ==
  /\ exec[l].pc = "failing" /\ Settled(l)
  /\ ExecTo(l, "done")
  /\ UNCHANGED <<rmVars, cons>>

ExecStep(l) ==
  /\ \/ ExecStart(l) \/ ExecInitialize(l) \/ ExecBind(l) \/ ExecGiveUp(l)
     \/ ExecMarkRunning(l) \/ ExecAttach(l) \/ ExecArtifact(l)
     \/ ExecFail(l) \/ ExecFailed(l)
  /\ UNCHANGED <<runtimeVars, committed, discVars, rec, ui, crashes>>

Post(l) == Launch(l) /\ UNCHANGED <<runtimeVars, committed, discVars, rec, ui, crashes>>
-------------------------------------------------------------------------------
(* SessionDiscoveryService.                                                *)

DiscTo(pc) == disc' = [disc EXCEPT !.pc = pc]

\* (Re)connecting opens with a sync: the session as `created`, as it is now.
WatchConnect ==
  /\ Discovery /\ ~watch.up /\ disc.pc = "idle"
  /\ watch' = [watch EXCEPT !.up = TRUE, !.q =
       IF session = "none" THEN <<>> ELSE <<LifecycleEvent("created", session)>>]
  /\ UNCHANGED <<known, disc, breaks, rmVars, cons>>

Lost == watch' = [up |-> FALSE, q |-> <<>>]

\* The watch breaks, STREAM_LAGGED or otherwise: what it had is gone.
WatchBreak ==
  /\ watch.up /\ disc.pc = "idle" /\ breaks < MaxBreaks
  /\ breaks' = breaks + 1
  /\ Lost
  /\ UNCHANGED <<known, disc, rmVars, cons>>

\* Mutant of ReconcileOp: a session that is over completes its run.
ReconcileOpCompletes(state, st) ==
  CASE state = "SUSPENDED" /\ st = "running" -> "markSuspended"
    [] state = "OPEN" /\ st = "suspended"    -> "markResumed"
    [] state \in SessionTerminal /\ st \in {"running", "suspended"} -> "markCompleted"
    [] OTHER -> "none"

\* What reconcileFromSnapshot does to a run with status st.
ReconcileOp(state, st) ==
  CASE state = "SUSPENDED" /\ st = "running"                  -> "markSuspended"
    [] state = "OPEN" /\ st = "suspended"                     -> "markResumed"
    [] state \in SessionTerminal /\ st \in {"running", "suspended"} -> FinalOp(state)
    [] OTHER -> "none"

\* What a lifecycle event asks for: handleSessionTerminal, handleSessionPaused.
EventOp(ev) ==
  CASE ev.type = "suspended" -> "markSuspended"
    [] ev.type = "resumed"   -> "markResumed"
    [] OTHER                 -> FinalOp(ev.st)

\* handleSessionCreated for a session that has a run: reconcile it.
DiscReconcile(ev) ==
  /\ ev.type = "created" /\ row \in RunStatus
  /\ known' = TRUE
  /\ LET op == ReconcileOp(ev.st, row) IN
     IF op = "none" THEN UNCHANGED <<rmVars, disc>>
     ELSE RM!Begin("discovery", op, "none") /\ disc' = [pc |-> "reconcile", st |-> ev.st]

\* handleSessionCreated for a session without a run.
DiscCreate(ev) ==
  /\ ev.type = "created" /\ row \notin RunStatus
  /\ known' = TRUE
  /\ IF known THEN UNCHANGED <<rmVars, disc>>
     ELSE /\ RM!Begin("discovery", "createRun", "nokey")
          /\ disc' = [pc |-> "create", st |-> ev.st]

\* The other events: a run that is not there, or is over, is left alone.
DiscApply(ev) ==
  /\ ev.type # "created"
  /\ IF row \notin RunStatus \/ row \in Terminal THEN UNCHANGED <<rmVars, disc>>
     ELSE RM!Begin("discovery", EventOp(ev), "none") /\ disc' = [pc |-> "mark", st |-> ev.st]
  /\ UNCHANGED known

DiscTake ==
  /\ disc.pc = "idle" /\ watch.q # <<>>
  /\ LET ev == Head(watch.q) IN DiscReconcile(ev) \/ DiscCreate(ev) \/ DiscApply(ev)
  /\ watch' = [watch EXCEPT !.q = Tail(@)]
  /\ UNCHANGED <<breaks, cons>>

\* The lookup of the run throws.  For a session that is known this only skips
\* the snapshot of a sync; otherwise it ends the watch.
DiscLookupFails ==
  /\ Faults /\ disc.pc = "idle" /\ watch.q # <<>>
  /\ IF Head(watch.q).type = "created" /\ known
       THEN watch' = [watch EXCEPT !.q = Tail(@)]
       ELSE Lost
  /\ UNCHANGED <<known, disc, breaks, rmVars, cons>>

\* A new run is driven to running; whatever happens on the way, the consumer
\* is started on it.
DiscDrive ==
  /\ Settled("discovery")
  /\ \/ /\ disc.pc = "create" /\ Ok("discovery")
        /\ RM!Begin("discovery", "markStarted", "none") /\ DiscTo("start")
     \/ /\ disc.pc = "start" /\ Ok("discovery")
        /\ RM!Begin("discovery", "bindSession", disc.st) /\ DiscTo("bind")
     \/ /\ disc.pc = "bind" /\ Ok("discovery")
        /\ RM!Begin("discovery", "markRunning", "OPEN") /\ DiscTo("run")
  /\ UNCHANGED <<watch, known, breaks, cons>>

DiscSubscribe ==
  /\ Settled("discovery")
  /\ disc.pc = "run" \/ (disc.pc \in {"start", "bind"} /\ ~Ok("discovery"))
  /\ StartConsumer("stream")
  /\ disc' = Quiet
  /\ UNCHANGED <<watch, known, breaks, rmVars>>

\* A handler ends.  An error of createRun or of a lifecycle event escapes
\* consumeWatchStream and ends the watch; one of a reconcile is caught.
DiscDone ==
  /\ Settled("discovery")
  /\ disc.pc \in {"mark", "reconcile"} \/ (disc.pc = "create" /\ ~Ok("discovery"))
  /\ IF Ok("discovery") \/ disc.pc = "reconcile" THEN UNCHANGED watch
     ELSE Lost
  /\ disc' = Quiet
  /\ UNCHANGED <<known, breaks, rmVars, cons>>

DiscStep ==
  /\ WatchConnect \/ DiscTake \/ DiscDrive \/ DiscSubscribe \/ DiscDone
  /\ UNCHANGED <<runtimeVars, committed, exec, rec, ui, crashes>>

\* What the loop does not owe: the watch breaking, the lookup throwing.
DiscFault ==
  /\ WatchBreak \/ DiscLookupFails
  /\ UNCHANGED <<runtimeVars, committed, exec, rec, ui, crashes>>

-------------------------------------------------------------------------------
(* RunRecoveryService.                                                     *)

\* listActiveRuns and the advisory lock of the run; a run that is already
\* bound is promoted.  A lock that cannot be had because of an error fails it.
RecScan ==
  /\ rec = "scan"
  /\ \/ /\ row = "binding_session"
        /\ RM!Begin("recovery", "markRunning", "OPEN") /\ rec' = "promote"
     \/ row \in ActiveStatus \ {"binding_session"} /\ rec' = "open" /\ UNCHANGED rmVars
     \/ Faults /\ row \in ActiveStatus /\ rec' = "fail" /\ UNCHANGED rmVars
     \/ row \notin ActiveStatus /\ rec' = "off" /\ UNCHANGED rmVars
  /\ UNCHANGED cons

RecPromoted ==
  /\ rec = "promote" /\ Settled("recovery")
  /\ rec' = IF Ok("recovery") THEN "open" ELSE "fail"
  /\ UNCHANGED <<rmVars, cons>>

\* The stream is resumed.  The event that says so may fail before it, and the
\* unlock after it; either error fails the run.
RecResume ==
  /\ rec = "open"
  /\ \/ StartConsumer("stream") /\ (rec' = "off" \/ (Faults /\ rec' = "fail"))
     \/ Faults /\ rec' = "fail" /\ UNCHANGED cons
  /\ UNCHANGED rmVars

RecFail ==
  /\ \/ /\ rec = "fail" /\ rec' = "failing"
        /\ RM!Begin("recovery", "markFailed", "none")
     \/ rec = "failing" /\ Settled("recovery") /\ rec' = "off" /\ UNCHANGED rmVars
  /\ UNCHANGED cons

RecStep ==
  /\ RecScan \/ RecPromoted \/ RecResume \/ RecFail
  /\ UNCHANGED <<runtimeVars, committed, discVars, exec, ui, crashes>>

-------------------------------------------------------------------------------
(* Operator requests.                                                      *)

\* Where a request stands: its operation and "ask" (the run was checked), "mark"
\* (the runtime has answered) or "wait" (the run is being written).
NoRequest == [op |-> "none", pc |-> "idle"]

UiTo(u, pc) == ui' = [ui EXCEPT ![u].pc = pc]

\* getRun and the 400s: a suspend needs a running run, a resume a suspended one.
UiCheck(u, op) ==
  /\ Listening /\ ui[u].pc = "idle" /\ op \in UiOps
  /\ \/ op = "cancel" /\ row \in RunStatus
     \/ op = "suspend" /\ row = "running"
     \/ op = "resume" /\ row = "suspended"
  /\ ui' = [ui EXCEPT ![u] = [op |-> op, pc |-> "ask"]]
  /\ UNCHANGED <<rmVars, cons, session, pauses, watch>>

\* The runtime, or for a cancel the initiator's callback, is asked.  A cancel
\* goes on whether or not the session was cancelled; a suspend or a resume
\* only when the runtime agreed, and every request may be refused.
UiAsk(u) ==
  /\ ui[u].pc = "ask"
  /\ \/ /\ ui[u].op = "cancel" /\ (Cancel \/ UNCHANGED <<session, pauses, watch>>)
        /\ UiTo(u, "mark")
     \/ ui[u].op = "suspend" /\ Suspend /\ UiTo(u, "mark")
     \/ ui[u].op = "resume" /\ Resume /\ UiTo(u, "mark")
     \/ ui' = [ui EXCEPT ![u] = NoRequest] /\ UNCHANGED <<session, pauses, watch>>
  /\ UNCHANGED <<rmVars, cons>>

UiMark(u) ==
  /\ ui[u].pc = "mark"
  /\ RM!Begin(u, CASE ui[u].op = "cancel" -> "markCancelled"
                   [] ui[u].op = "suspend" -> "markSuspended"
                   [] ui[u].op = "resume" -> "markResumed", "none")
  /\ UiTo(u, "wait")
  /\ UNCHANGED <<cons, session, pauses, watch>>

\* A cancel that went through also stops the consumer.
UiDone(u) ==
  /\ ui[u].pc = "wait" /\ Settled(u)
  /\ cons' = IF ui[u].op = "cancel" /\ Ok(u) /\ cons.mode # "off"
               THEN [cons EXCEPT !.aborted = TRUE] ELSE cons
  /\ ui' = [ui EXCEPT ![u] = NoRequest]
  /\ UNCHANGED <<rmVars, session, pauses, watch>>

UiStep(u) ==
  /\ UiAsk(u) \/ UiMark(u) \/ UiDone(u)
  /\ UNCHANGED <<committed, known, disc, breaks, exec, rec, crashes>>

Request(u) ==
  /\ \E op \in UiOps : UiCheck(u, op)
  /\ UNCHANGED <<committed, known, disc, breaks, exec, rec, crashes>>

-------------------------------------------------------------------------------

\* The control plane dies and starts again.
Crash ==
  /\ crashes < MaxCrashes
  /\ crashes' = crashes + 1
  /\ call' = [c \in Callers |-> RM!Idle]
  /\ exec' = [l \in Launchers |-> IF exec[l].pc = "idle" THEN Quiet
                                   ELSE [pc |-> "done", st |-> "none"]]
  /\ cons' = Off
  /\ Lost
  /\ known' = FALSE
  /\ disc' = Quiet
  /\ ui' = [u \in Uis |-> NoRequest]
  /\ rec' = "scan"
  /\ UNCHANGED <<row, rowKey, sessionRow, outcomes, proj, fired, runtimeVars,
                 committed, breaks>>

\* RunManagerService moves an operation on, or its database call throws.
ManagerStep(c) ==
  /\ RM!Step(c)
  /\ UNCHANGED <<runtimeVars, committed, discVars, exec, cons, rec, ui, crashes>>

ManagerThrow(c) ==
  /\ RM!Throw(c)
  /\ UNCHANGED <<runtimeVars, committed, discVars, exec, cons, rec, ui, crashes>>

Next ==
  \/ Agents
  \/ ConsStep \/ ConsEnds
  \/ \E l \in Launchers : Post(l) \/ ExecStep(l)
  \/ DiscStep \/ DiscFault
  \/ RecStep
  \/ \E u \in Uis : Request(u) \/ UiStep(u)
  \/ \E c \in Callers : ManagerStep(c) \/ ManagerThrow(c)
  \/ Crash

Spec == Init /\ [][Next]_vars

\* Every promise settles and every loop goes on.  A stream whose session is
\* over, or that was stopped, ends: its idle timeout and its retry budget are
\* finite.  Agents, operators and faults owe nothing.
Fairness ==
  /\ \A c \in Callers : WF_vars(ManagerStep(c))
  /\ WF_vars(ConsStep)
  /\ WF_vars(ConsEnds /\ (session \in SessionTerminal \/ cons.aborted))
  /\ \A l \in Launchers : WF_vars(ExecStep(l))
  /\ WF_vars(DiscStep)
  /\ WF_vars(RecStep)
  /\ \A u \in Uis : WF_vars(UiStep(u))

FairSpec == Spec /\ Fairness

-------------------------------------------------------------------------------
(* Properties. *)

\* A run is reported completed only when its session really resolved, whichever
\* actor finished it, from however old a snapshot or watch event.
CompletedIsResolved == row = "completed" => session = "RESOLVED"

\* The same for everyone who only sees events and webhooks.
NotifiedCompletedIsResolved ==
  "run.completed" \in fired \/ "completed" \in RM!Announced => session = "RESOLVED"

\* The run never leaves the abstract run state machine, with all its actors.
Refines == RM!Refines

\* Without crashes or failures, a run whose session is over ends: the watch,
\* the stream and the executor between them do not lose the end.
SessionEndEndsRun ==
  (session \in SessionTerminal /\ row \in RunStatus) ~> (row \in Terminal)

\* Without crashes or failures, a run that reached a terminal status gets its
\* terminal event in the log, whichever of the actors that raced to end it lost.
OutcomeIsAnnounced == row \in Terminal ~> RM!Announced # {}

\* A crash in any of the gaps loses no end of a run that is bound to its session:
\* recovery and the consumer it starts bring the run to its end.
BoundRunEnds ==
  (session \in SessionTerminal /\ row \in {"binding_session", "running", "suspended"})
    ~> (row \in Terminal)

\* The consumer of a finished run over a finished session lets go of it.
FinishedRunIsReleased ==
  (session \in SessionTerminal /\ row \in Terminal) ~> (cons.mode = "off")

\* "A terminal run never re-enters a paused state" (handleSessionPaused): once
\* the run and the projection that GET /runs/:id/state serves are terminal, the
\* projection does not go back to suspended.
TerminalNeverPaused ==
  [][(row \in Terminal /\ proj \in Terminal) => proj' # "suspended"]_vars

\* "suspension is non-terminal" and "the observer stream stays subscribed"
\* (suspend): a suspended run is not failed while its session is suspended.
SuspendedRunSurvives ==
  [][(row = "suspended" /\ session = "SUSPENDED") => row' # "failed"]_vars

\* "run-recovery resumes it on restart" (execute): a run that recovery has
\* taken up follows its session to the end.
RecoveredRunEnds ==
  (session \in SessionTerminal /\ row \in ActiveStatus) ~> (row \in Terminal)
===============================================================================
