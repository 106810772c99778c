------------------------------ MODULE RunManager ------------------------------
(***************************************************************************)
(* One run, written by concurrent callers through RunManagerService: the   *)
(* HTTP handlers, the executor, the stream consumer, session discovery and *)
(* recovery all call its operations, in any order.                         *)
(*                                                                         *)
(* An operation is a sequence of awaited database calls, and other         *)
(* operations run in every gap between two of them:                        *)
(*                                                                         *)
(*   read     getRun / findByIdempotencyKey, and the early returns on it   *)
(*   insert   RunRepository.create                                         *)
(*   update   the conditional UPDATE of transitionTo                       *)
(*   recheck  transitionTo's findById when the UPDATE matched no row       *)
(*   upsert   bindSession's runtime_sessions row                           *)
(*   emit     the transaction of emitControlPlaneEvents                    *)
(*   notify   the webhook fired once the event is durable                  *)
(*                                                                         *)
(* The emit transaction takes the row lock of `runs` first                 *)
(* (allocateSequence), so event transactions of one run are serial and     *)
(* each is one atomic step.                                                *)
(***************************************************************************)
EXTENDS RunProjection, Integers, Sequences

CONSTANTS
  Callers,    \* the concurrent callers of RunManagerService
  Reports,    \* the session states the runtime reports to them
  Faults      \* whether database calls may throw and the process may crash

ASSUME CallersAssumption == Callers # {}
ASSUME ReportsAssumption == Reports \subseteq SessionState
ASSUME FaultsAssumption == Faults \in BOOLEAN

VARIABLES
  row,          \* runs.status, or "absent" / "deleted"
  rowKey,       \* runs.idempotency_key: the callers' key or none
  sessionRow,   \* runtime_sessions.session_state, "none" without a row
  outcomes,     \* the terminal run.* events of run_events_canonical, in seq order
  proj,         \* run_projections: run.status
  fired,        \* the webhook events fired for this run
  call          \* the operation each caller is in

durable == <<row, rowKey, sessionRow, outcomes, proj>>
vars == <<row, rowKey, sessionRow, outcomes, proj, fired, call>>

-------------------------------------------------------------------------------
(* The operations. *)

TerminalOp == {"markCompleted", "markFailed", "markCancelled"}
TransitionOp == {"markStarted", "bindSession", "markRunning", "markSuspended",
                 "markResumed"} \cup TerminalOp
Op == TransitionOp \cup {"createRun", "deleteRun"}

\* What an operation is called with: createRun with or without an idempotency
\* key, bindSession and markRunning with the session state they report.
ArgsOf(op) ==
  CASE op = "createRun"                      -> {"key", "nokey"}
    [] op \in {"bindSession", "markRunning"} -> Reports
    [] OTHER                                 -> {"none"}

Arg == {"key", "nokey", "none"} \cup SessionState

\* The status an operation moves the row to.
Target(op) ==
  CASE op = "markStarted"                      -> "starting"
    [] op = "bindSession"                      -> "binding_session"
    [] op \in {"markRunning", "markResumed"}   -> "running"
    [] op = "markSuspended"                    -> "suspended"
    [] op = "markCompleted"                    -> "completed"
    [] op = "markFailed"                       -> "failed"
    [] op = "markCancelled"                    -> "cancelled"
    [] OTHER                                   -> "queued"

\* The lifecycle event an operation emits.
EventOf(op, arg) ==
  CASE op = "createRun"     -> [type |-> "run.created",   data |-> "queued"]
    [] op = "markStarted"   -> [type |-> "run.started",   data |-> "starting"]
    [] op = "bindSession"   -> [type |-> "session.bound", data |-> arg]
    [] op = "markRunning"   -> [type |-> "session.state.changed", data |-> arg]
    [] op = "markSuspended" -> [type |-> "run.suspended", data |-> "suspended"]
    [] op = "markResumed"   -> [type |-> "run.resumed",   data |-> "running"]
    [] op = "markCompleted" -> [type |-> "run.completed", data |-> "completed"]
    [] op = "markFailed"    -> [type |-> "run.failed",    data |-> "failed"]
    [] op = "markCancelled" -> [type |-> "run.cancelled", data |-> "cancelled"]

\* Mutant of WebhookOf: the canonical event's name for every webhook.
WebhookOfEvent(op) == EventOf(op, "none").type

\* The webhook event an operation fires; the other operations fire none.
WebhookOf(op) ==
  CASE op = "markRunning" -> "run.started"
    [] OTHER              -> EventOf(op, "none").type

NotifyingOp == TransitionOp \ {"markStarted", "bindSession"}

\* The operations that look at the run before they update it.
PreRead(op, arg) ==
  \/ op \in TerminalOp \cup {"markSuspended", "markResumed", "deleteRun"}
  \/ op = "createRun" /\ arg = "key"

FirstStep(op, arg) ==
  CASE PreRead(op, arg) -> "read"
    [] op = "createRun" -> "insert"
    [] OTHER            -> "update"

\* The early returns on the row an operation has read.
EarlyReturn(op, st) ==
  CASE op = "markResumed"   -> st # "suspended"
    [] op = "markSuspended" -> st \in Terminal \cup {"suspended"}
    [] op \in TerminalOp    -> st \in Terminal
    [] OTHER                -> FALSE

\* Mutant of AfterUpdate: the webhook goes out and the event is forgotten.
AfterUpdateNoEvent(op) ==
  CASE op = "bindSession"  -> "upsert"
    [] op \in TerminalOp   -> "notify"
    [] OTHER               -> "emit"

\* What follows a transition that took effect, or that found it taken.
AfterUpdate(op) == IF op = "bindSession" THEN "upsert" ELSE "emit"

Pc == {"idle", "read", "insert", "update", "recheck", "upsert", "emit", "notify"}
Result == {"none", "ok", "conflict", "missing", "error"}
Idle == [op |-> "none", arg |-> "none", pc |-> "idle", res |-> "none"]

-------------------------------------------------------------------------------

Init ==
  /\ row = "absent"
  /\ rowKey = "none"
  /\ sessionRow = "none"
  /\ outcomes = <<>>
  /\ proj = EmptyStatus
  /\ fired = {}
  /\ call = [c \in Callers |-> Idle]

Goto(c, pc) == call' = [call EXCEPT ![c].pc = pc]

\* The operation ends: its promise settles with res.
Settle(c, res) == call' = [call EXCEPT ![c] = [Idle EXCEPT !.res = res]]

\* Append an event and fold it into the projection: one transaction.
AppendCanonical(ev) ==
  /\ outcomes' = IF ev.type \in TerminalEventType
                   THEN Append(outcomes, ev.data) ELSE outcomes
  /\ proj' = ApplyStatus(ev, proj)

\* A caller invokes an operation.  Only createRun can come before the row.
Begin(c, op, arg) ==
  /\ call[c].pc = "idle"
  /\ op # "createRun" => row # "absent"
  /\ call' = [call EXCEPT ![c] =
       [op |-> op, arg |-> arg, pc |-> FirstStep(op, arg), res |-> "none"]]
  /\ UNCHANGED <<row, rowKey, sessionRow, outcomes, proj, fired>>

\* createRun's lookup by idempotency key: an existing run is returned as is.
Lookup(c) ==
  /\ call[c].pc = "read" /\ call[c].op = "createRun"
  /\ IF row \in RunStatus /\ rowKey = "key" THEN Settle(c, "ok") ELSE Goto(c, "insert")
  /\ UNCHANGED <<row, rowKey, sessionRow, outcomes, proj, fired>>

\* Mutant of DeletableFrom: a delete checks only that the run is there.
DeletableFromAny == RunStatus

\* The statuses deleteRun lets through.
DeletableFrom == Terminal

\* getRun and the early returns before the write.
Read(c) ==
  /\ call[c].pc = "read" /\ call[c].op # "createRun"
  /\ LET op == call[c].op IN
     CASE row = "deleted" -> Settle(c, "missing")
       [] row # "deleted" /\ op = "deleteRun" ->
            IF row \in DeletableFrom THEN Goto(c, "update") ELSE Settle(c, "error")
       [] row # "deleted" /\ op # "deleteRun" ->
            IF EarlyReturn(op, row) THEN Settle(c, "ok") ELSE Goto(c, "update")
  /\ UNCHANGED <<row, rowKey, sessionRow, outcomes, proj, fired>>

\* The INSERT of createRun.  The idempotency key and the session id are unique
\* columns: against an existing row it throws.  Once the row is deleted the
\* insert makes another run, with an id of its own.
Insert(c) ==
  /\ call[c].pc = "insert"
  /\ \/ /\ row = "absent"
        /\ row' = "queued"
        /\ rowKey' = IF call[c].arg = "key" THEN "key" ELSE "none"
        /\ Goto(c, "emit")
     \/ row \in RunStatus /\ Settle(c, "error") /\ UNCHANGED <<row, rowKey>>
     \/ row = "deleted" /\ Settle(c, "ok") /\ UNCHANGED <<row, rowKey>>
  /\ UNCHANGED <<sessionRow, outcomes, proj, fired>>

\* The conditional UPDATE of transitionTo: it matches only a row whose status
\* may move to the target.
Update(c) ==
  /\ call[c].pc = "update" /\ call[c].op \in TransitionOp
  /\ LET op == call[c].op IN
     IF row \in ValidFrom(Target(op))
       THEN row' = Target(op) /\ Goto(c, AfterUpdate(op))
       ELSE UNCHANGED row /\ Goto(c, "recheck")
  /\ UNCHANGED <<rowKey, sessionRow, outcomes, proj, fired>>

\* Mutant of Recheck: any terminal status counts as already done.
RecheckAnyTerminal(c) ==
  /\ call[c].pc = "recheck"
  /\ LET op == call[c].op IN
     CASE row = Target(op) \/ row \in Terminal -> Goto(c, AfterUpdate(op))
       [] row = "deleted" -> Settle(c, "error")
       [] OTHER -> Settle(c, IF op = "bindSession" THEN "ok" ELSE "conflict")
  /\ UNCHANGED <<row, rowKey, sessionRow, outcomes, proj, fired>>

\* transitionTo matched nothing and looks again: a row already at the target
\* counts as success.  bindSession swallows the ConflictException.
Recheck(c) ==
  /\ call[c].pc = "recheck"
  /\ LET op == call[c].op IN
     CASE row = Target(op) -> Goto(c, AfterUpdate(op))
       [] row = "deleted"  -> Settle(c, "error")
       [] OTHER -> Settle(c, IF op = "bindSession" THEN "ok" ELSE "conflict")
  /\ UNCHANGED <<row, rowKey, sessionRow, outcomes, proj, fired>>

\* bindSession upserts the runtime_sessions row (a foreign key of the run).
Upsert(c) ==
  /\ call[c].pc = "upsert"
  /\ IF row = "deleted"
       THEN Settle(c, "error") /\ UNCHANGED sessionRow
       ELSE sessionRow' = call[c].arg /\ Goto(c, "emit")
  /\ UNCHANGED <<row, rowKey, outcomes, proj, fired>>

\* The event transaction.  allocateSequence throws when the row is gone.
Emit(c) ==
  /\ call[c].pc = "emit"
  /\ LET op == call[c].op IN
     IF row = "deleted"
       THEN Settle(c, "error") /\ UNCHANGED <<outcomes, proj>>
       ELSE /\ AppendCanonical(EventOf(op, call[c].arg))
            /\ IF op \in NotifyingOp THEN Goto(c, "notify") ELSE Settle(c, "ok")
  /\ UNCHANGED <<row, rowKey, sessionRow, fired>>

\* The webhook, fired and not awaited.
Notify(c) ==
  /\ call[c].pc = "notify"
  /\ fired' = fired \cup {WebhookOf(call[c].op)}
  /\ Settle(c, "ok")
  /\ UNCHANGED <<row, rowKey, sessionRow, outcomes, proj>>

\* The DELETE of deleteRun; the run's events, projection and session cascade.
Delete(c) ==
  /\ call[c].pc = "update" /\ call[c].op = "deleteRun"
  /\ IF row = "deleted" THEN UNCHANGED durable
     ELSE /\ row' = "deleted"
          /\ rowKey' = "none"
          /\ sessionRow' = "none"
          /\ outcomes' = <<>>
          /\ proj' = EmptyStatus
  /\ Settle(c, "ok")
  /\ UNCHANGED fired

\* The stream consumer persists a frame of the session: a snapshot of its
\* state, or a Commitment envelope (decision.finalized).
Frame == [type : {"session.state.changed"}, data : Reports]
         \cup [type : {"decision.finalized"}, data : {"none"}]

Ingest(ev) ==
  /\ row \in RunStatus
  /\ AppendCanonical(ev)
  /\ UNCHANGED <<row, rowKey, sessionRow, fired, call>>

\* A database call throws; what the calls before it wrote stays.
Throw(c) ==
  /\ Faults
  /\ call[c].pc # "idle"
  /\ Settle(c, "error")
  /\ UNCHANGED <<row, rowKey, sessionRow, outcomes, proj, fired>>

\* The process dies: what was in flight is lost, the tables stay.
Crash ==
  /\ Faults
  /\ \E c \in Callers : call[c].pc # "idle"
  /\ call' = [c \in Callers |-> Idle]
  /\ UNCHANGED <<row, rowKey, sessionRow, outcomes, proj, fired>>

Step(c) == \/ Lookup(c) \/ Read(c) \/ Insert(c) \/ Update(c) \/ Recheck(c)
           \/ Upsert(c) \/ Emit(c) \/ Notify(c) \/ Delete(c)

Next ==
  \/ \E c \in Callers, op \in Op : \E arg \in ArgsOf(op) : Begin(c, op, arg)
  \/ \E c \in Callers : Step(c)
  \/ \E ev \in Frame : Ingest(ev)
  \/ \E c \in Callers : Throw(c)
  \/ Crash

Spec == Init /\ [][Next]_vars

-------------------------------------------------------------------------------
(* Properties. *)

TypeOK ==
  /\ row \in RunStatus \cup {"absent", "deleted"}
  /\ rowKey \in {"key", "none"}
  /\ sessionRow \in SessionState \cup {"none"}
  /\ outcomes \in Seq(Terminal)
  /\ proj \in RunStatus
  /\ fired \subseteq RunEventType
  /\ call \in [Callers -> [op : Op \cup {"none"}, arg : Arg, pc : Pc, res : Result]]

\* The terminal outcomes the event log announces.
Announced == {outcomes[i] : i \in DOMAIN outcomes}

\* No race of completion, failure and cancellation makes the audit log tell
\* another outcome than the runs table: every run.completed, run.failed or
\* run.cancelled event in the log carries the status the row ended in.
OutcomeAgrees == Announced \subseteq {row}

\* A webhook subscriber is never told two different outcomes of a run, nor one
\* the table contradicts: the terminal webhooks fired all name the row's
\* status, however many callers raced to finish the run.
WebhookOutcomeAgrees ==
  row # "deleted" =>
    \A op \in TerminalOp : WebhookOf(op) \in fired => row = Target(op)

\* A caller that is past its transition and about to announce a terminal
\* outcome is right about it: the outcome is still the row's, unless the run
\* was deleted since.
PendingOutcomeAgrees ==
  \A c \in Callers :
    call[c].pc \in {"emit", "notify"} /\ call[c].op \in TerminalOp
      => row \in {Target(call[c].op), "deleted"}

\* A delete that has passed its check can only hit a terminal run: nothing
\* that happens between the check and the DELETE revives the run.
PendingDeleteIsTerminal ==
  \A c \in Callers :
    call[c].pc = "update" /\ call[c].op = "deleteRun"
      => row \in Terminal \cup {"deleted"}

\* RunManagerService, seen through its table and its log, is the abstract run
\* state machine.
Abstract == INSTANCE RunStateMachine WITH status <- row, announced <- Announced

Refines == Abstract!Spec
===============================================================================
