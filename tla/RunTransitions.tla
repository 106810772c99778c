---------------------------- MODULE RunTransitions ----------------------------
(***************************************************************************)
(* The status of a run, the transitions RunRepository.transitionTo allows, *)
(* and the lifecycle states of the runtime session a run observes.         *)
(***************************************************************************)

\* The statuses with no outgoing transition.
Terminal == {"completed", "failed", "cancelled"}

RunStatus ==
  {"queued", "starting", "binding_session", "running", "suspended"} \cup Terminal

\* VALID_TRANSITIONS of run.repository.ts.
VALID_TRANSITIONS ==
  [s \in RunStatus |->
     CASE s = "queued"          -> {"starting", "failed", "cancelled"}
       [] s = "starting"        -> {"binding_session", "failed", "cancelled"}
       [] s = "binding_session" -> {"running", "failed", "cancelled"}
       [] s = "running"         -> {"suspended"} \cup Terminal
       [] s = "suspended"       -> {"running"} \cup Terminal
       [] s \in Terminal        -> {}]

\* Mutant of ValidFrom: the UPDATE without its WHERE on the status.
ValidFromAny(target) == RunStatus

\* The statuses the conditional UPDATE of transitionTo matches.
ValidFrom(target) == {s \in RunStatus : target \in VALID_TRANSITIONS[s]}

\* Mutant of ActiveStatus: the list from before runs could be suspended.
ActiveStatusUnpaused == {"starting", "binding_session", "running"}

\* listActiveRuns: the statuses a restarted control plane recovers.
ActiveStatus == {"starting", "binding_session", "running", "suspended"}

\* The states GetSession, ListSessions and WatchSessions report.
SessionState == {"OPEN", "SUSPENDED", "RESOLVED", "EXPIRED", "CANCELLED"}

SessionTerminal == {"RESOLVED", "EXPIRED", "CANCELLED"}
===============================================================================
