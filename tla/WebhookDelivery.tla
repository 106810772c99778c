--------------------------- MODULE WebhookDelivery ----------------------------
(***************************************************************************)
(* WebhookService: an event is recorded as one pending delivery per        *)
(* matching webhook, and each delivery is then sent by a loop of its own,  *)
(* at most three times.  Database writes may fail, with or without having  *)
(* taken effect, the service may be shut down or the process may exit at   *)
(* any point.  retryPending, which would pick up a pending row without a   *)
(* loop, is called from nowhere.                                           *)
(***************************************************************************)
EXTENDS Integers, FiniteSets

CONSTANTS
  Hooks, Events,
  Blank,         \* webhooks stored without a usable secret
  MaxAttempts,
  MaxStarts      \* bound on the starts of the process

ASSUME WebhookAssumption ==
  Blank \subseteq Hooks /\ MaxAttempts \in Nat \ {0} /\ MaxStarts \in Nat

Deliveries == Hooks \X Events

VARIABLES
  hook,      \* each webhook: "active", "inactive" or "deleted"
  firing,    \* fireEvent of each event: "no", "listed" or "done", and the hooks left
  row,       \* webhook_deliveries: status ("none" and "gone" without a row) and attempts
  worker,    \* deliverWithTracking of each delivery: where it stands, its attempt
  sends,     \* requests made for each delivery
  acked,     \* deliveries the receiver answered with a 2xx
  mine,      \* deliveries this process has recorded and knows to have recorded
  proc,      \* "up", "stopping", "closed" (the pool is gone) or "down"
  dbUp,
  threw,     \* what proc was when a rejection that nobody handles ended the process
  starts

procVars == <<proc, dbUp, threw, starts>>
vars == <<hook, firing, row, worker, sends, acked, mine, procVars>>

Settled == {"delivered", "failed"}
NoWorker == [at |-> "none", attempt |-> 0]

Init ==
  /\ hook = [h \in Hooks |-> "active"]
  /\ firing = [e \in Events |-> [at |-> "no", left |-> {}]]
  /\ row = [d \in Deliveries |-> [status |-> "none", attempts |-> 0]]
  /\ worker = [d \in Deliveries |-> NoWorker]
  /\ sends = [d \in Deliveries |-> 0] /\ acked = {} /\ mine = {}
  /\ proc = "up" /\ dbUp = TRUE /\ threw = "no" /\ starts = 1

Running == proc \in {"up", "stopping", "closed"}
ShuttingDown == proc \in {"stopping", "closed"}
Writes == dbUp /\ proc # "closed"

\* A write fails with the database or with the pool.
WriteFails == ~dbUp \/ proc = "closed"

\* One that fails with the database may have taken effect: then it is only its
\* acknowledgement that is lost.
Unacknowledged == ~dbUp /\ proc # "closed"

-------------------------------------------------------------------------------
(* fireEvent *)

\* listActive, filtered by the event.
List(e) ==
  /\ Running /\ firing[e].at = "no"
  /\ \/ /\ Writes
        /\ firing' = [firing EXCEPT ![e] = [at |-> "listed", left |-> {h \in Hooks : hook[h] = "active"}]]
     \/ /\ WriteFails
        /\ firing' = [firing EXCEPT ![e] = [at |-> "done", left |-> {}]]
  /\ UNCHANGED <<hook, row, worker, sends, acked, mine, procVars>>

Insert(e, h) == row' = [row EXCEPT ![<<h, e>>] = [status |-> "pending", attempts |-> 0]]

\* The row first, then its loop.
Record(e, h) ==
  /\ Running /\ firing[e].at = "listed" /\ h \in firing[e].left
  /\ Writes /\ hook[h] # "deleted"
  /\ Insert(e, h)
  /\ worker' = [worker EXCEPT ![<<h, e>>] = [at |-> "next", attempt |-> 0]]
  /\ mine' = mine \cup {<<h, e>>}
  /\ firing' = [firing EXCEPT ![e].left = @ \ {h}]
  /\ UNCHANGED <<hook, sends, acked, procVars>>

\* An insert that fails, also for a webhook deleted meanwhile, drops the rest; a
\* row it left behind has no loop.
RecordFails(e, h) ==
  /\ Running /\ firing[e].at = "listed" /\ h \in firing[e].left
  /\ \/ (WriteFails \/ hook[h] = "deleted") /\ UNCHANGED row
     \/ Unacknowledged /\ hook[h] # "deleted" /\ Insert(e, h)
  /\ firing' = [firing EXCEPT ![e] = [at |-> "done", left |-> {}]]
  /\ UNCHANGED <<hook, worker, sends, acked, mine, procVars>>

-------------------------------------------------------------------------------
(* deliverWithTracking *)

At(d, p) == Running /\ worker[d].at = p
Goto(d, p) == worker' = [worker EXCEPT ![d].at = p]

\* An update of a row that is gone changes nothing.
Update(d, status, attempts) ==
  row' = IF row[d].status = "gone" THEN row
         ELSE [row EXCEPT ![d] = [status |-> status, attempts |-> attempts]]

\* Mutant of FailedStatus: one attempt early.
FailedStatusEarly(attempt) == IF attempt + 1 >= MaxAttempts THEN "failed" ELSE "pending"

\* markFailed of the repository.
FailedStatus(attempt) == IF attempt >= MaxAttempts THEN "failed" ELSE "pending"

\* The head of the loop: a request, nothing more once the service stops.
Send(d) ==
  /\ At(d, "next") /\ d[1] \notin Blank
  /\ IF ShuttingDown THEN Goto(d, "done") /\ UNCHANGED sends
     ELSE /\ worker' = [worker EXCEPT ![d] = [at |-> "sending", attempt |-> @.attempt + 1]]
          /\ sends' = [sends EXCEPT ![d] = @ + 1]
  /\ UNCHANGED <<hook, firing, row, acked, mine, procVars>>

\* A 2xx, or an error, a refusal or a timeout, the receiver having got it or not.
Answer(d) ==
  /\ At(d, "sending")
  /\ \/ Goto(d, "accepted") /\ acked' = acked \cup {d}
     \/ Goto(d, "refused") /\ UNCHANGED acked
  /\ UNCHANGED <<hook, firing, row, sends, mine, procVars>>

\* Mutant of AfterUnmarked: whatever the reason, the error is swallowed.
AfterUnmarkedAlways == "done"

\* markDeliveredSafe: only a shutdown excuses a failed write; otherwise the catch
\* of the loop takes the delivery for a refused one, even if the row says delivered.
AfterUnmarked == IF ShuttingDown THEN "done" ELSE "refused"

MarkDelivered(d) ==
  /\ At(d, "accepted")
  /\ \/ Writes /\ Update(d, "delivered", 1) /\ Goto(d, "done")
     \/ /\ WriteFails /\ Goto(d, AfterUnmarked)
        /\ UNCHANGED row \/ (Unacknowledged /\ Update(d, "delivered", 1))
  /\ UNCHANGED <<hook, firing, sends, acked, mine, procVars>>

\* The process ends and takes every loop with it.
Exit ==
  /\ proc' = "down"
  /\ worker' = [d \in Deliveries |-> NoWorker]
  /\ firing' = [e \in Events |-> IF firing[e].at = "listed" THEN [at |-> "done", left |-> {}] ELSE firing[e]]

\* Mutant of Unmarked: nothing is swallowed.
UnmarkedThrows(d) == Exit /\ threw' = proc

\* markFailedSafe: in a shutdown the loop stops; otherwise the rejection leaves the
\* loop, nobody handles it, and Node ends the process.
Unmarked(d) ==
  IF ShuttingDown THEN Goto(d, "done") /\ UNCHANGED <<proc, firing, threw>>
  ELSE Exit /\ threw' = proc

\* A blank secret is never sent: the row is closed with all attempts used.
Refusable(d) == At(d, "refused") \/ (At(d, "next") /\ d[1] \in Blank)
AttemptOf(d) == IF d[1] \in Blank THEN MaxAttempts ELSE worker[d].attempt

AttemptsLeft(attempt) == attempt < MaxAttempts

MarkFailed(d) ==
  /\ Refusable(d)
  /\ \/ /\ Writes
        /\ Update(d, FailedStatus(AttemptOf(d)), AttemptOf(d))
        /\ Goto(d, IF AttemptsLeft(AttemptOf(d)) THEN "backoff" ELSE "done")
        /\ UNCHANGED <<proc, firing, threw>>
     \/ /\ WriteFails /\ Unmarked(d)
        /\ \/ UNCHANGED row
           \/ Unacknowledged /\ Update(d, FailedStatus(AttemptOf(d)), AttemptOf(d))
  /\ UNCHANGED <<hook, sends, acked, mine, dbUp, starts>>

\* The backoff timer.
Wake(d) ==
  /\ At(d, "backoff")
  /\ Goto(d, IF ShuttingDown THEN "done" ELSE "next")
  /\ UNCHANGED <<hook, firing, row, sends, acked, mine, procVars>>

-------------------------------------------------------------------------------
\* onModuleDestroy: the timers are cleared, and their promises never settle.
Destroy ==
  /\ proc = "up"
  /\ proc' = "stopping"
  /\ worker' = [d \in Deliveries |->
       IF worker[d].at = "backoff" THEN [worker[d] EXCEPT !.at = "hung"] ELSE worker[d]]
  /\ UNCHANGED <<hook, firing, row, sends, acked, mine, dbUp, threw, starts>>

\* The drain is bounded, so the pool may close under a delivery.
Close ==
  /\ proc = "stopping"
  /\ proc' = "closed"
  /\ UNCHANGED <<hook, firing, row, worker, sends, acked, mine, dbUp, threw, starts>>

Crash ==
  /\ Running
  /\ Exit
  /\ UNCHANGED <<hook, row, sends, acked, mine, dbUp, threw, starts>>

Restart ==
  /\ proc = "down" /\ starts < MaxStarts
  /\ proc' = "up" /\ starts' = starts + 1
  /\ mine' = {}
  /\ UNCHANGED <<hook, firing, row, worker, sends, acked, dbUp, threw>>

Outage == dbUp' = ~dbUp /\ UNCHANGED <<hook, firing, row, worker, sends, acked, mine, proc, threw, starts>>

\* PATCH /webhooks/:id switches a webhook off or on.
Toggle(h) ==
  /\ proc = "up" /\ dbUp /\ hook[h] # "deleted"
  /\ hook' = [hook EXCEPT ![h] = IF @ = "active" THEN "inactive" ELSE "active"]
  /\ UNCHANGED <<firing, row, worker, sends, acked, mine, procVars>>

\* DELETE /webhooks/:id, and the retention sweep: the rows of a webhook go.
Remove(h) ==
  /\ proc = "up" /\ dbUp /\ hook[h] # "deleted"
  /\ hook' = [hook EXCEPT ![h] = "deleted"]
  /\ row' = [d \in Deliveries |->
       IF d[1] = h /\ row[d].status # "none" THEN [row[d] EXCEPT !.status = "gone"] ELSE row[d]]
  /\ UNCHANGED <<firing, worker, sends, acked, mine, procVars>>

Fire(e) == List(e) \/ \E h \in Hooks : Record(e, h) \/ RecordFails(e, h)
Deliver(d) == Send(d) \/ Answer(d) \/ MarkDelivered(d) \/ MarkFailed(d) \/ Wake(d)

Next ==
  \/ \E e \in Events : Fire(e)
  \/ \E d \in Deliveries : Deliver(d)
  \/ \E h \in Hooks : Toggle(h) \/ Remove(h)
  \/ Destroy \/ Close \/ Crash \/ Restart \/ Outage

\* A request has a timeout, a timer fires, a write ends.
Fairness == \A d \in Deliveries : WF_vars(Deliver(d))

Spec == Init /\ [][Next]_vars /\ Fairness

-------------------------------------------------------------------------------
\* What a settled row says happened: a delivered one was accepted by the receiver,
\* a failed one was tried as often as allowed or never sent for want of a secret,
\* though writes failed, or took effect and were reported failed, and were repeated
\* on the way.
SettledRowIsTrue ==
  \A d \in Deliveries :
    /\ row[d].status = "delivered" => d \in acked
    /\ row[d].status = "failed" => sends[d] = IF d[1] \in Blank THEN 0 ELSE MaxAttempts

\* A delivery that a shutdown overtakes does not end the process through a write
\* against the closed pool (ARCHITECTURE.md:371).
ShutdownIsQuiet == threw \in {"no", "up"}

\* A delivery is settled by the process that recorded it and was told so, unless
\* that process stops or the row is deleted.
PendingIsSettled ==
  \A d \in Deliveries : (d \in mine /\ row[d].status = "pending") ~> (row[d].status # "pending" \/ proc # "up")

\* ARCHITECTURE.md:349: "Webhooks use outbox pattern for reliable delivery": a
\* recorded delivery survives a restart and is settled in the end.
OutboxIsDurable ==
  <>[](proc = "up") => \A d \in Deliveries : (row[d].status = "pending") ~> (row[d].status # "pending")
===============================================================================
