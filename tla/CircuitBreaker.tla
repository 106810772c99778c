---------------------------- MODULE CircuitBreaker ----------------------------
(***************************************************************************)
(* The circuit breaker all unary calls to the runtime share.  Callers do   *)
(* not wait for each other: calls that started under one state end under   *)
(* another.  The clock is the time since the last failure, in ticks, and   *)
(* stops at the reset timeout.                                             *)
(***************************************************************************)
EXTENDS Integers, Sequences

CONSTANTS
  Callers,           \* whoever may have a call under way
  FailureThreshold,  \* failures that open the breaker
  ResetTimeout,      \* ticks an open breaker stays open
  HistorySize,       \* entries of the transition history
  MaxFailures        \* bound on the failure count

ASSUME BreakerAssumption ==
  /\ FailureThreshold \in Nat \ {0} /\ ResetTimeout \in Nat
  /\ HistorySize \in Nat \ {0} /\ MaxFailures \in Nat

BreakerState == {"CLOSED", "OPEN", "HALF_OPEN"}

VARIABLES
  state, failureCount, history,
  elapsed,   \* ticks since lastFailureTime
  calls,     \* what each caller is doing: "idle" or "calling"
  up         \* the runtime answers every call in time, and no page is too large

breakerVars == <<state, failureCount, history, elapsed, calls, up>>

BreakerInit ==
  /\ state = "CLOSED" /\ failureCount = 0 /\ history = <<"CLOSED">>
  /\ elapsed = ResetTimeout
  /\ calls = [c \in Callers |-> "idle"]
  /\ up = TRUE

-------------------------------------------------------------------------------
\* The last entries a ring of HistorySize keeps.
Ring(h) == IF Len(h) > HistorySize THEN Tail(h) ELSE h

\* recordTransition: nothing when the state is the last one recorded.
RecordTransition(s) ==
  history' = IF Len(history) > 0 /\ history[Len(history)] = s THEN history
             ELSE Ring(Append(history, s))

\* Mutant of TimedOut: an open breaker waits for an operator.
TimedOutNever == FALSE

\* getState: an open breaker whose time is over is half open from now on.
TimedOut == state = "OPEN" /\ elapsed >= ResetTimeout
GetState ==
  IF TimedOut THEN state' = "HALF_OPEN" /\ RecordTransition("HALF_OPEN")
              ELSE UNCHANGED <<state, history>>

\* execute, up to the call: any number of calls may probe a half-open breaker.
Execute(c) ==
  /\ calls[c] = "idle"
  /\ state # "OPEN" \/ TimedOut
  /\ GetState
  /\ calls' = [calls EXCEPT ![c] = "calling"]
  /\ UNCHANGED <<failureCount, elapsed, up>>

\* execute throws; nothing changes for the caller.
Rejected(c) == calls[c] = "idle" /\ state = "OPEN" /\ ~TimedOut /\ UNCHANGED breakerVars

Ended(c) == calls' = [calls EXCEPT ![c] = "idle"]

\* onSuccess: closed, whatever the state was when the call started.
OnSuccess ==
  /\ failureCount' = 0
  /\ state' = "CLOSED"
  /\ IF state # "CLOSED" THEN RecordTransition("CLOSED") ELSE UNCHANGED history

\* Mutant of OnFailure: only the first trip is recorded.
OnFailureFirst ==
  /\ failureCount' = failureCount + 1
  /\ elapsed' = 0
  /\ state' = IF failureCount' >= FailureThreshold THEN "OPEN" ELSE state
  /\ IF state = "CLOSED" /\ state' = "OPEN" THEN RecordTransition("OPEN") ELSE UNCHANGED history

\* onFailure: the count is not reset while half open, so one failed probe reopens.
OnFailure ==
  /\ failureCount' = failureCount + 1
  /\ elapsed' = 0
  /\ state' = IF failureCount' >= FailureThreshold THEN "OPEN" ELSE state
  /\ IF state' = "OPEN" /\ state # "OPEN" THEN RecordTransition("OPEN") ELSE UNCHANGED history

Succeed(c) == calls[c] = "calling" /\ OnSuccess /\ Ended(c) /\ UNCHANGED <<elapsed, up>>

Fail(c) ==
  /\ calls[c] = "calling" /\ ~up /\ failureCount < MaxFailures
  /\ OnFailure
  /\ Ended(c)
  /\ UNCHANGED up

\* isExpectedError: a refusal counts neither way.
Refused(c) ==
  calls[c] = "calling" /\ Ended(c) /\ UNCHANGED <<state, failureCount, history, elapsed, up>>

\* Mutant of Reset: a new state, the old count.
ResetStateOnly ==
  /\ state' = "CLOSED"
  /\ IF state # "CLOSED" THEN RecordTransition("CLOSED") ELSE UNCHANGED history
  /\ UNCHANGED <<failureCount, elapsed, calls, up>>

\* POST /admin/circuit-breaker/reset.
Reset ==
  /\ failureCount' = 0
  /\ state' = "CLOSED"
  /\ IF state # "CLOSED" THEN RecordTransition("CLOSED") ELSE UNCHANGED history
  /\ UNCHANGED <<elapsed, calls, up>>

\* GET /readyz and the history endpoint call getState too.
Poll == GetState /\ UNCHANGED <<failureCount, elapsed, calls, up>>

Tick ==
  /\ elapsed < ResetTimeout
  /\ elapsed' = elapsed + 1
  /\ UNCHANGED <<state, failureCount, history, calls, up>>

\* The runtime goes away and comes back.
Outage == up' = ~up /\ UNCHANGED <<state, failureCount, history, elapsed, calls>>

CallStep(c) == Execute(c) \/ Rejected(c) \/ Succeed(c) \/ Fail(c) \/ Refused(c)

BreakerNext == (\E c \in Callers : CallStep(c)) \/ Reset \/ Poll \/ Tick \/ Outage

\* Time passes, a call ends (it has a deadline), and somebody keeps calling:
\* discovery's fallback, the polls of the consumers, the readiness probe.
BreakerFairness ==
  /\ WF_breakerVars(Tick)
  /\ \A c \in Callers : WF_breakerVars(Succeed(c) \/ Refused(c)) /\ WF_breakerVars(Execute(c))

BreakerSpec == BreakerInit /\ [][BreakerNext]_breakerVars /\ BreakerFairness

-------------------------------------------------------------------------------
BreakerTypeOK ==
  /\ state \in BreakerState
  /\ failureCount \in 0 .. MaxFailures
  /\ history \in Seq(BreakerState) /\ Len(history) \in 1 .. HistorySize
  /\ elapsed \in 0 .. ResetTimeout
  /\ calls \in [Callers -> {"idle", "calling"}]
  /\ up \in BOOLEAN

\* A closed breaker always has its whole allowance or part of it, never none: it
\* is closed exactly while fewer than the threshold of failures followed the
\* last success or reset, also when calls from before a trip end after it.
ClosedWithinAllowance == state = "CLOSED" <=> failureCount < FailureThreshold

\* The history an operator reads ends in the state the breaker is in, and
\* records no state twice in a row, whatever the order late calls end in.
HistoryAgrees ==
  /\ history[Len(history)] = state
  /\ \A i \in 1 .. Len(history) - 1 : history[i] # history[i + 1]

\* Once the runtime stays up, calls get through again for good, without anyone
\* resetting the breaker.
RecoveredIsReached == <>[]up => <>[](state # "OPEN")
===============================================================================
