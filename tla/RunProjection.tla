---------------------------- MODULE RunProjection -----------------------------
(***************************************************************************)
(* The part of the read model that says where a run stands: how            *)
(* ProjectionService.applyEvents folds one canonical event into            *)
(* projection.run.status.  An event is a type and the one datum of its     *)
(* payload the status depends on.                                          *)
(***************************************************************************)
EXTENDS RunTransitions

\* Lifecycle events of the control plane: data is the event's data.status.
RunEventType ==
  {"run.created", "run.started", "run.completed", "run.failed",
   "run.cancelled", "run.suspended", "run.resumed"}

\* Events that carry the state of the runtime session: data is data.state.
SessionEventType == {"session.bound", "session.state.changed"}

TerminalEventType == {"run.completed", "run.failed", "run.cancelled"}

Event ==
       [type : RunEventType, data : RunStatus]
  \cup [type : SessionEventType, data : SessionState]
  \cup [type : {"decision.finalized"}, data : {"none"}]

\* The projection before any event (ProjectionService.empty).
EmptyStatus == "queued"

\* The status a session state imposes on a projection whose status is st.
StatusFromSession(state, st) ==
  CASE state = "RESOLVED"  -> "completed"
    [] state = "EXPIRED"   -> "failed"
    [] state = "CANCELLED" -> "cancelled"
    [] state = "SUSPENDED" -> IF st \in Terminal THEN st ELSE "suspended"
    [] state = "OPEN"      -> IF st = "suspended" THEN "running" ELSE st

\* applyEvents, restricted to run.status.
ApplyStatus(ev, st) ==
  CASE ev.type \in RunEventType         -> ev.data
    [] ev.type \in SessionEventType     -> StatusFromSession(ev.data, st)
    [] ev.type = "decision.finalized"   -> "completed"
===============================================================================
