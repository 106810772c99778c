---------------------------- MODULE RunStateMachine ---------------------------
(***************************************************************************)
(* What the run lifecycle promises to everyone outside it: a run moves     *)
(* along VALID_TRANSITIONS, a terminal status is final, only a terminal    *)
(* run is deleted, and the outcome announced in the event log is the       *)
(* outcome in the runs table.                                              *)
(***************************************************************************)
EXTENDS RunTransitions

VARIABLES
  status,      \* "absent", a RunStatus, or "deleted"
  announced    \* the terminal outcomes the run's event log announces

vars == <<status, announced>>

TypeOK ==
  /\ status \in RunStatus \cup {"absent", "deleted"}
  /\ announced \subseteq Terminal

Init ==
  /\ status = "absent"
  /\ announced = {}

Create ==
  /\ status = "absent"
  /\ status' = "queued"
  /\ UNCHANGED announced

Advance ==
  /\ status \in RunStatus
  /\ status' \in VALID_TRANSITIONS[status]
  /\ UNCHANGED announced

Announce ==
  /\ status \in Terminal
  /\ announced' = {status}
  /\ UNCHANGED status

Delete ==
  /\ status \in Terminal
  /\ status' = "deleted"
  /\ announced' = {}

Next == Create \/ Advance \/ Announce \/ Delete

Spec == Init /\ [][Next]_vars
===============================================================================
