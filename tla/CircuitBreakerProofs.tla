------------------------- MODULE CircuitBreakerProofs -------------------------
(***************************************************************************)
(* The circuit breaker under any number of callers, one of which drains    *)
(* ListSessions, for every threshold, reset time and history size: when it *)
(* is closed, and what its history says.  The drain and the drift report   *)
(* use the breaker only through its own steps (DrainUsesBreaker), so what  *)
(* those steps preserve holds in RuntimeCalls.                             *)
(***************************************************************************)
EXTENDS RuntimeCalls, SequenceTheorems, FiniteSetTheorems, WellFoundedInduction, TLAPS

\* The inductive invariant: the type bounds the history from below, which the
\* last entry needs, and the count's type decides the comparison.
BreakerInv == BreakerTypeOK /\ ClosedWithinAllowance /\ HistoryAgrees

\* What a history of this breaker looks like.
GoodHistory(h, s) ==
  /\ h \in Seq(BreakerState) /\ Len(h) \in 1 .. HistorySize
  /\ h[Len(h)] = s
  /\ \A i \in 1 .. Len(h) - 1 : h[i] # h[i + 1]

-------------------------------------------------------------------------------
\* recordTransition keeps the history well formed and makes its last entry the
\* new state, full ring or not.
LEMMA RecordKeepsHistory ==
  ASSUME NEW s \in BreakerState, NEW t \in BreakerState,
         GoodHistory(history, t), RecordTransition(s)
  PROVE  GoodHistory(history', s)
  <1> DEFINE n == Len(history)
             a == Append(history, s)
  <1>1. HistorySize \in Nat \ {0} /\ n \in Nat /\ n > 0 /\ n <= HistorySize
    BY BreakerAssumption DEF GoodHistory
  <1>2. CASE history[n] = s
    BY <1>1, <1>2 DEF GoodHistory, RecordTransition
  <1>3. CASE history[n] # s
    <2>1. history' = Ring(a)
      BY <1>1, <1>3 DEF RecordTransition
    <2>2. /\ a \in Seq(BreakerState) /\ Len(a) = n + 1 /\ a[n + 1] = s
          /\ \A i \in 1 .. n : a[i] = history[i]
      BY <1>1 DEF GoodHistory
    <2>3. \A i \in 1 .. n : a[i] # a[i + 1]
      <3> SUFFICES ASSUME NEW i \in 1 .. n PROVE a[i] # a[i + 1]
        OBVIOUS
      <3>1. CASE i = n
        BY <1>1, <1>3, <2>2, <3>1
      <3>2. CASE i # n
        BY <1>1, <2>2, <3>2 DEF GoodHistory
      <3> QED  BY <3>1, <3>2
    <2> HIDE DEF a
    <2>4. CASE n < HistorySize
      <3>1. history' = a
        BY <1>1, <2>1, <2>2, <2>4 DEF Ring
      <3> QED  BY <1>1, <2>2, <2>3, <2>4, <3>1 DEF GoodHistory
    <2>5. CASE n = HistorySize
      <3>1. history' = Tail(a)
        BY <1>1, <2>1, <2>2, <2>5 DEF Ring
      <3>2. /\ Tail(a) \in Seq(BreakerState) /\ Len(Tail(a)) = n
            /\ \A i \in 1 .. n : Tail(a)[i] = a[i + 1]
        BY <1>1, <2>2
      <3>3. Tail(a)[n] = s
        BY <1>1, <2>2, <3>2
      <3>4. \A i \in 1 .. n - 1 : Tail(a)[i] # Tail(a)[i + 1]
        BY <1>1, <2>3, <3>2
      <3> QED  BY <1>1, <2>5, <3>1, <3>2, <3>3, <3>4 DEF GoodHistory
    <2> QED  BY <1>1, <2>4, <2>5
  <1> QED  BY <1>2, <1>3

\* The two forms of the history part of the invariant.
LEMMA HistoryForms ==
  BreakerTypeOK => (HistoryAgrees <=> GoodHistory(history, state))
  BY DEF BreakerTypeOK, HistoryAgrees, GoodHistory

-------------------------------------------------------------------------------
LEMMA InitHolds == BreakerInit => BreakerInv
  <1> SUFFICES ASSUME BreakerInit PROVE BreakerInv
    OBVIOUS
  <1>1. BreakerTypeOK
    BY BreakerAssumption DEF BreakerInit, BreakerTypeOK, BreakerState
  <1>2. ClosedWithinAllowance
    BY BreakerAssumption DEF BreakerInit, ClosedWithinAllowance
  <1>3. HistoryAgrees
    BY DEF BreakerInit, HistoryAgrees
  <1> QED  BY <1>1, <1>2, <1>3 DEF BreakerInv

\* What a step does to state and count decides the rest: the history follows the
\* state, and the other variables keep their type.
LEMMA Preserved ==
  ASSUME BreakerInv,
         state' \in BreakerState, failureCount' \in 0 .. MaxFailures,
         elapsed' \in 0 .. ResetTimeout, calls' \in [Callers -> {"idle", "calling"}],
         up' \in BOOLEAN,
         (state' = "CLOSED") <=> (failureCount' < FailureThreshold),
         \/ state' # state /\ RecordTransition(state')
         \/ state' = state /\ history' = history
  PROVE  BreakerInv'
  <1>1. GoodHistory(history, state) /\ state \in BreakerState
    BY HistoryForms DEF BreakerInv, BreakerTypeOK
  <1>2. GoodHistory(history', state')
    BY <1>1, RecordKeepsHistory
  <1>3. BreakerTypeOK' /\ HistoryAgrees'
    BY <1>2 DEF BreakerTypeOK, HistoryAgrees, GoodHistory
  <1> QED  BY <1>3 DEF BreakerInv, ClosedWithinAllowance

LEMMA StepPreserves == BreakerInv /\ [BreakerNext]_breakerVars => BreakerInv'
  <1> SUFFICES ASSUME BreakerInv, [BreakerNext]_breakerVars PROVE BreakerInv'
    OBVIOUS
  <1> USE BreakerAssumption
  <1>t. /\ state \in BreakerState /\ failureCount \in 0 .. MaxFailures
        /\ elapsed \in 0 .. ResetTimeout /\ calls \in [Callers -> {"idle", "calling"}]
        /\ up \in BOOLEAN
        /\ (state = "CLOSED") <=> (failureCount < FailureThreshold)
    BY DEF BreakerInv, BreakerTypeOK, ClosedWithinAllowance
  <1>g. ASSUME GetState
        PROVE  /\ state' \in BreakerState
               /\ (state' = "CLOSED") <=> (state = "CLOSED")
               /\ \/ state' # state /\ RecordTransition(state')
                  \/ state' = state /\ history' = history
    BY <1>t, <1>g DEF GetState, TimedOut, BreakerState
  <1>1. ASSUME NEW c \in Callers, Execute(c) PROVE BreakerInv'
    <2>1. GetState /\ calls' \in [Callers -> {"idle", "calling"}]
          /\ failureCount' = failureCount /\ elapsed' = elapsed /\ up' = up
      BY <1>1, <1>t DEF Execute
    <2> QED  BY <2>1, <1>t, <1>g, Preserved
  <1>2. ASSUME NEW c \in Callers, Rejected(c) PROVE BreakerInv'
    BY <1>2, <1>t, Preserved DEF Rejected, breakerVars
  <1>s. ASSUME OnSuccess \/ Reset
        PROVE  /\ state' \in BreakerState /\ failureCount' \in 0 .. MaxFailures
               /\ (state' = "CLOSED") <=> (failureCount' < FailureThreshold)
               /\ \/ state' # state /\ RecordTransition(state')
                  \/ state' = state /\ history' = history
    BY <1>t, <1>s DEF OnSuccess, Reset, BreakerState
  <1>3. ASSUME NEW c \in Callers, Succeed(c) PROVE BreakerInv'
    <2>1. OnSuccess /\ calls' \in [Callers -> {"idle", "calling"}]
          /\ elapsed' = elapsed /\ up' = up
      BY <1>3, <1>t DEF Succeed, Ended
    <2> QED  BY <2>1, <1>t, <1>s, Preserved
  <1>4. ASSUME NEW c \in Callers, Fail(c) PROVE BreakerInv'
    <2>1. OnFailure /\ failureCount < MaxFailures /\ up' = up
          /\ calls' \in [Callers -> {"idle", "calling"}]
      BY <1>4, <1>t DEF Fail, Ended
    <2>2. /\ failureCount' = failureCount + 1 /\ failureCount' \in 0 .. MaxFailures
          /\ elapsed' \in 0 .. ResetTimeout
          /\ state' = IF failureCount' >= FailureThreshold THEN "OPEN" ELSE state
      BY <2>1, <1>t DEF OnFailure
    <2>3. /\ state' \in BreakerState
          /\ (state' = "CLOSED") <=> (failureCount' < FailureThreshold)
      BY <2>2, <1>t DEF BreakerState
    <2>4. \/ state' # state /\ RecordTransition(state')
          \/ state' = state /\ history' = history
      BY <2>1, <2>2 DEF OnFailure
    <2> QED  BY <2>1, <2>2, <2>3, <2>4, <1>t, Preserved
  <1>5. ASSUME NEW c \in Callers, Refused(c) PROVE BreakerInv'
    <2>1. calls' \in [Callers -> {"idle", "calling"}]
          /\ UNCHANGED <<state, failureCount, history, elapsed, up>>
      BY <1>5, <1>t DEF Refused, Ended
    <2> QED  BY <2>1, <1>t, Preserved
  <1>6. ASSUME Reset PROVE BreakerInv'
    <2>1. UNCHANGED <<elapsed, calls, up>>
      BY <1>6 DEF Reset
    <2> QED  BY <1>6, <2>1, <1>t, <1>s, Preserved
  <1>7. ASSUME Poll PROVE BreakerInv'
    <2>1. GetState /\ UNCHANGED <<failureCount, elapsed, calls, up>>
      BY <1>7 DEF Poll
    <2> QED  BY <2>1, <1>t, <1>g, Preserved
  <1>8. ASSUME Tick PROVE BreakerInv'
    BY <1>8, <1>t, Preserved DEF Tick
  <1>9. ASSUME Outage PROVE BreakerInv'
    BY <1>9, <1>t, Preserved DEF Outage
  <1>10. ASSUME UNCHANGED breakerVars PROVE BreakerInv'
    BY <1>10, <1>t, Preserved DEF breakerVars
  <1> QED
    BY <1>1, <1>2, <1>3, <1>4, <1>5, <1>6, <1>7, <1>8, <1>9, <1>10 DEF BreakerNext, CallStep

-------------------------------------------------------------------------------
\* Whatever the drain, the report, the clock and the sessions do, the breaker makes
\* a step of its own or none.
LEMMA DrainUsesBreaker == [CallsNext]_callsVars => [BreakerNext]_breakerVars
  <1> SUFFICES ASSUME [CallsNext]_callsVars PROVE [BreakerNext]_breakerVars
    OBVIOUS
  <1>d. Drainer \in Callers
    BY DrainAssumption
  <1>1. ASSUME DrainStep PROVE [BreakerNext]_breakerVars
    BY <1>1, <1>d DEF DrainStep, Start, NextPage, PageArrives, PageTooLarge, PageTimesOut,
       PageFails, Report, BreakerNext, CallStep
  <1>2. ASSUME Others PROVE [BreakerNext]_breakerVars
    BY <1>2 DEF Others, BreakerNext
  <1>3. ASSUME Operator \/ Clock \/ Weather PROVE [BreakerNext]_breakerVars
    BY <1>3 DEF Operator, Clock, Weather, BreakerNext
  <1>4. ASSUME NEW s \in Sessions, SessionStep(s) PROVE [BreakerNext]_breakerVars
    BY <1>4 DEF SessionStep
  <1>5. ASSUME UNCHANGED callsVars PROVE [BreakerNext]_breakerVars
    BY <1>5 DEF callsVars
  <1> QED  BY <1>1, <1>2, <1>3, <1>4, <1>5 DEF CallsNext

LEMMA Invariance == CallsSpec => []BreakerInv
  <1>1. CallsInit => BreakerInv
    BY InitHolds DEF CallsInit
  <1>2. BreakerInv /\ [CallsNext]_callsVars => BreakerInv'
    BY DrainUsesBreaker, StepPreserves
  <1> QED  BY <1>1, <1>2, PTL DEF CallsSpec

\* The breaker is closed exactly while fewer failures than the threshold followed
\* the last success or reset, for any number of calls that overlap trips, probes,
\* resets and each other.
THEOREM Allowance == CallsSpec => []ClosedWithinAllowance
  BY Invariance, PTL DEF BreakerInv

\* The history served to operators ends in the current state and never records a
\* state twice in a row, for every size of the ring.
THEOREM HistoryIsTrue == CallsSpec => []HistoryAgrees
  BY Invariance, PTL DEF BreakerInv

-------------------------------------------------------------------------------
(* The page-size ladder. *)

\* A record with the fields of a drain.
IsDrain(d) ==
  d \in [phase : {d.phase}, token : {d.token}, size : {d.size}, pages : {d.pages},
         halvings : {d.halvings}, left : {d.left}, got : {d.got}, complete : {d.complete},
         held : {d.held}, alone : {d.alone}, missing : {d.missing}]

Active == drain.phase \notin {"off", "reported"}

\* A drain that is alone accounts for every failure on the count: one for each
\* time it halved its page, and one more if its budget ended it.
LadderInv ==
  /\ IsDrain(drain)
  /\ drain.alone \in BOOLEAN
  /\ drain.halvings \in 0 .. MaxHalvings
  /\ Active /\ drain.alone =>
       failureCount <= drain.halvings + (IF drain.phase = "listed" THEN 1 ELSE 0)

LEMMA LadderInit == CallsInit => LadderInv
  BY DrainAssumption, BreakerAssumption
  DEF CallsInit, NoDrain, LadderInv, Active, IsDrain

\* A drain that finishes keeps its count of halvings.
LEMMA FinishFields ==
  ASSUME IsDrain(drain)
  PROVE  /\ IsDrain(Finish(FALSE)) /\ Finish(FALSE).phase = "listed"
         /\ Finish(FALSE).halvings = drain.halvings
         /\ Finish(FALSE).alone = drain.alone
  <1> DEFINE f == [drain EXCEPT !.phase = "listed", !.complete = FALSE]
  <1>1. /\ f.phase = "listed" /\ f.complete = FALSE /\ f.token = drain.token
        /\ f.size = drain.size /\ f.pages = drain.pages /\ f.halvings = drain.halvings
        /\ f.left = drain.left /\ f.got = drain.got /\ f.held = drain.held
        /\ f.alone = drain.alone /\ f.missing = drain.missing
    BY DEF IsDrain
  <1>2. f \in [phase : {"listed"}, token : {drain.token}, size : {drain.size},
               pages : {drain.pages}, halvings : {drain.halvings}, left : {drain.left},
               got : {drain.got}, complete : {FALSE}, held : {drain.held},
               alone : {drain.alone}, missing : {drain.missing}]
    BY DEF IsDrain
  <1>3. IsDrain(f)
    BY <1>1, <1>2 DEF IsDrain
  <1> QED  BY <1>1, <1>3 DEF Finish

\* So does one that goes on to its next page, or stops after this one.
LEMMA PageFields ==
  ASSUME NEW d, IsDrain(d), NEW more \in BOOLEAN
  PROVE  /\ IsDrain(AfterPage(d, more))
         /\ AfterPage(d, more).alone = d.alone /\ AfterPage(d, more).halvings = d.halvings
  BY DEF AfterPage, IsDrain

LEMMA LadderStep == BreakerInv /\ LadderInv /\ [CallsNext]_callsVars => LadderInv'
  <1> SUFFICES ASSUME BreakerInv, LadderInv, [CallsNext]_callsVars PROVE LadderInv'
    OBVIOUS
  <1> USE DrainAssumption, BreakerAssumption
  <1>f. failureCount \in Nat
    BY DEF BreakerInv, BreakerTypeOK
  <1>t. ASSUME Throw PROVE LadderInv'
    BY <1>t DEF Throw, NoDrain, LadderInv, Active, IsDrain
  <1>1. ASSUME Start PROVE LadderInv'
    <2>1. drain' = [phase |-> "between", token |-> 0, size |-> PageSize, pages |-> 0,
                    halvings |-> 0, left |-> Budget, got |-> {}, complete |-> FALSE,
                    held |-> Open, alone |-> (failureCount = 0), missing |-> {}]
      BY <1>1, Zenon DEF Start, NoDrain
    <2>2. IsDrain(drain)' /\ drain'.halvings = 0 /\ drain'.alone = (failureCount = 0)
      BY <2>1 DEF IsDrain
    <2>3. failureCount' = failureCount
      BY <1>1 DEF Start, breakerVars
    <2>4. drain'.alone \in BOOLEAN /\ (drain'.alone => failureCount = 0)
      BY <2>2, Zenon
    <2> QED  BY <2>2, <2>3, <2>4 DEF LadderInv, Active
  <1>2. ASSUME NextPage PROVE LadderInv'
    <2>1. CASE drain' = Finish(FALSE) /\ failureCount' = failureCount
      <3>1. /\ IsDrain(drain)' /\ drain'.phase = "listed"
            /\ drain'.halvings = drain.halvings /\ drain'.alone = drain.alone
        BY <2>1, FinishFields, Zenon DEF LadderInv
      <3>2. drain.phase = "between"
        BY <1>2 DEF NextPage
      <3>3. drain.alone => failureCount <= drain.halvings
        BY <3>2, <1>f DEF LadderInv, Active
      <3>4. drain'.alone => failureCount' <= drain'.halvings
        BY <2>1, <3>1, <3>3, Zenon
      <3>5. drain'.alone \in BOOLEAN /\ drain'.halvings \in 0 .. MaxHalvings
        BY <3>1, Zenon DEF LadderInv
      <3>6. failureCount' \in Nat
        BY <2>1, <1>f
      <3> QED  BY <3>1, <3>4, <3>5, <3>6 DEF LadderInv, Active
    <2>2. CASE drain' = [drain EXCEPT !.phase = "paging"] /\ failureCount' = failureCount
      BY <2>2, <1>2, <1>f DEF NextPage, LadderInv, Active, IsDrain
    <2> QED  BY <1>2, <2>1, <2>2, <1>t DEF NextPage, Execute, breakerVars
  <1>3. ASSUME PageArrives PROVE LadderInv'
    <2>1. failureCount' = 0
      BY <1>3 DEF PageArrives, Succeed, OnSuccess
    <2> DEFINE e == [drain EXCEPT !.pages = @ + 1,
                                  !.token = IF PageOf = {} THEN @ ELSE Max(PageOf),
                                  !.got = @ \cup {s \in PageOf : session[s] = "open"}]
    <2>2. PICK more \in BOOLEAN : drain' = AfterPage(e, more)
      BY <1>3 DEF PageArrives
    <2>3. IsDrain(e) /\ e.alone = drain.alone /\ e.halvings = drain.halvings
      BY DEF LadderInv, IsDrain
    <2>4. /\ IsDrain(drain)'
          /\ drain'.alone = drain.alone /\ drain'.halvings = drain.halvings
      BY <2>2, <2>3, PageFields, Zenon
    <2> QED  BY <2>1, <2>4 DEF LadderInv, Active
  <1>4. ASSUME PageTooLarge PROVE LadderInv'
    <2>1. drain.phase = "paging" /\ failureCount' \in {failureCount, failureCount + 1} /\ Shrink
      BY <1>4 DEF PageTooLarge, Fail, OnFailure, Refused
    <2>2. CASE drain' = [drain EXCEPT !.phase = "between", !.size = @ \div 2, !.halvings = @ + 1]
               /\ drain.halvings < MaxHalvings
      <3>1. /\ IsDrain(drain)' /\ drain'.phase = "between"
            /\ drain'.halvings = drain.halvings + 1 /\ drain'.alone = drain.alone
        BY <2>2 DEF LadderInv, IsDrain
      <3> QED  BY <2>1, <2>2, <3>1, <1>f DEF LadderInv, Active
    <2> QED  BY <2>1, <2>2, <1>t DEF Shrink
  <1>5. ASSUME PageTimesOut PROVE LadderInv'
    <2>1. drain.phase = "paging" /\ failureCount' = failureCount + 1 /\ drain' = Finish(FALSE)
      BY <1>5 DEF PageTimesOut, Fail, OnFailure
    <2>2. /\ IsDrain(drain)' /\ drain'.phase = "listed"
          /\ drain'.halvings = drain.halvings /\ drain'.alone = drain.alone
      BY <2>1, FinishFields, Zenon DEF LadderInv
    <2>3. drain.phase = "paging"
      BY <2>1
    <2>4. drain.alone => failureCount <= drain.halvings
      BY <2>3, <1>f DEF LadderInv, Active
    <2>5. drain'.alone => failureCount <= drain'.halvings
      BY <2>2, <2>4, Zenon
    <2>6. drain'.alone \in BOOLEAN /\ drain'.halvings \in 0 .. MaxHalvings
      BY <2>2, Zenon DEF LadderInv
    <2>7. failureCount' = failureCount + 1
      BY <2>1
    <2> QED  BY <2>2, <2>5, <2>6, <2>7, <1>f DEF LadderInv, Active
  <1>6. ASSUME PageFails PROVE LadderInv'
    BY <1>6, <1>t DEF PageFails
  <1>7. ASSUME Report PROVE LadderInv'
    <2>1. PICK h, m :
            drain' = [phase |-> "reported", token |-> 0, size |-> PageSize, pages |-> 0,
                      halvings |-> 0, left |-> Budget, got |-> {}, complete |-> FALSE,
                      held |-> h, alone |-> FALSE, missing |-> m]
      BY <1>7, Zenon DEF Report, NoDrain
    <2> QED  BY <2>1 DEF LadderInv, Active, IsDrain
  <1>8. ASSUME Others PROVE LadderInv'
    <2>1. PICK c \in Callers \ {Drainer} :
            CallStep(c) /\ drain' = [drain EXCEPT !.alone = @ /\ ~Fail(c)]
      BY <1>8 DEF Others
    <2>2. ~Fail(c) => failureCount' <= failureCount /\ failureCount' \in Nat
      BY <2>1, <1>f DEF CallStep, Execute, Rejected, Succeed, OnSuccess, Refused, breakerVars
    <2>3. /\ IsDrain(drain)'
          /\ drain'.phase = drain.phase /\ drain'.halvings = drain.halvings
          /\ drain'.alone = (drain.alone /\ ~Fail(c))
      BY <2>1 DEF LadderInv, IsDrain
    <2>4. CASE Fail(c)
      BY <2>3, <2>4 DEF LadderInv
    <2>5. CASE ~Fail(c)
      BY <2>2, <2>3, <2>5, <1>f DEF LadderInv, Active
    <2> QED  BY <2>4, <2>5
  <1>9. ASSUME Operator PROVE LadderInv'
    <2>1. drain' = drain /\ failureCount' \in {0, failureCount}
      BY <1>9 DEF Operator, Reset, Poll
    <2> QED  BY <2>1, <1>f DEF LadderInv, Active
  <1>10. ASSUME Clock PROVE LadderInv'
    <2>1. failureCount' = failureCount
      BY <1>10 DEF Clock, Tick, breakerVars
    <2>2. /\ IsDrain(drain)'
          /\ drain'.phase = drain.phase /\ drain'.halvings = drain.halvings
          /\ drain'.alone = drain.alone
      BY <1>10 DEF Clock, LadderInv, IsDrain
    <2> QED  BY <2>1, <2>2 DEF LadderInv, Active
  <1>11. ASSUME Weather \/ UNCHANGED callsVars PROVE LadderInv'
    <2>1. drain' = drain /\ failureCount' = failureCount
      BY <1>11 DEF Weather, Outage, callsVars, breakerVars
    <2> QED  BY <2>1 DEF LadderInv, Active
  <1>12. ASSUME NEW s \in Sessions, SessionStep(s) PROVE LadderInv'
    <2>1. failureCount' = failureCount
      BY <1>12 DEF SessionStep, breakerVars
    <2>2. /\ IsDrain(drain)'
          /\ drain'.phase = drain.phase /\ drain'.halvings = drain.halvings
          /\ drain'.alone = drain.alone
      BY <1>12 DEF SessionStep, LadderInv, IsDrain
    <2> QED  BY <2>1, <2>2 DEF LadderInv, Active
  <1> QED
    BY <1>1, <1>2, <1>3, <1>4, <1>5, <1>6, <1>7, <1>8, <1>9, <1>10, <1>11, <1>12
    DEF CallsNext, DrainStep

\* A threshold above MAX_PAGE_SIZE_HALVINGS + 1 is enough, whatever the page size
\* and the budget: the ladder of one drain, that met no failure but its own, does
\* not open the breaker under the other callers.
THEOREM LadderIsSafe ==
  ASSUME FailureThreshold > MaxHalvings + 1
  PROVE  CallsSpec => []LadderAloneDoesNotTrip
  <1>1. BreakerInv /\ LadderInv => LadderAloneDoesNotTrip
    BY BreakerAssumption, DrainAssumption
    DEF BreakerInv, BreakerTypeOK, ClosedWithinAllowance, LadderInv, Active, LadderAloneDoesNotTrip
  <1> QED  BY <1>1, Invariance, LadderInit, LadderStep, PTL DEF CallsSpec

-------------------------------------------------------------------------------
(* The drift report. *)

\* A set of naturals that is not empty and has a bound has a largest element, the
\* one Max chooses.
LEMMA MaxOfBounded ==
  ASSUME NEW S \in SUBSET Nat, S # {}, NEW n \in Nat, \A s \in S : s <= n
  PROVE  Max(S) \in S /\ \A s \in S : s <= Max(S)
  <1> DEFINE R == OpToRel(<, Nat)
             T == {n - s : s \in S}
  <1>1. IsWellFoundedOn(R, Nat)
    BY NatLessThanWellFounded
  <1>2. \A x, y \in Nat : <<x, y>> \in R <=> x < y
    BY DEF OpToRel
  <1> HIDE DEF R
  <1>3. T \subseteq Nat /\ T # {}
    OBVIOUS
  <1>4. PICK x \in T : \A y \in T : ~(<<y, x>> \in R)
    BY <1>1, <1>3, WFMin
  <1>5. PICK m \in S : x = n - m
    OBVIOUS
  <1>6. ASSUME NEW s \in S PROVE m >= s
    <2>1. n - s \in T /\ n - s \in Nat /\ x \in Nat
      BY <1>3
    <2>2. ~(n - s < x)
      BY <1>2, <1>4, <2>1
    <2> QED  BY <1>5, <2>2
  <1>7. \E u \in S : \A s \in S : u >= s
    BY <1>6
  <1>8. Max(S) \in S /\ \A s \in S : Max(S) >= s
    BY <1>7, Zenon DEF Max
  <1> QED  BY <1>8

\* The sessions held open throughout, so far as the token has come, were on the
\* pages; a drain that is complete has them all.
HeldListed ==
  /\ drain.held \subseteq Open
  /\ drain.token \in Nat /\ drain.size \in Nat
  /\ drain.phase \in {"between", "paging"} =>
       \A s \in drain.held : s <= drain.token => s \in drain.got
  /\ drain.phase = "listed" /\ drain.complete => drain.held \subseteq drain.got

DriftInv ==
  /\ session \in [Sessions -> {"none", "open", "ended"}]
  /\ IsDrain(drain) /\ drain.complete \in BOOLEAN
  /\ HeldListed /\ MissingWasAway

\* A page holds every session listed between the token and its own last one, and
\* one without a successor every session after the token.
LEMMA PageCovers ==
  ASSUME DriftInv, NEW s \in drain.held, drain.phase = "paging",
         \/ s <= (IF PageOf = {} THEN drain.token ELSE Max(PageOf))
         \/ Listed = PageOf
  PROVE  s \in drain.got \cup {t \in PageOf : session[t] = "open"}
  <1>1. /\ NSessions \in Nat /\ drain.size \in Nat /\ drain.token \in Nat
        /\ s \in Sessions /\ session[s] = "open" /\ s \in 1 .. NSessions /\ s \in Nat
    BY DrainAssumption DEF DriftInv, HeldListed, Open, Sessions
  <1>2. CASE s <= drain.token
    BY <1>2 DEF DriftInv, HeldListed
  <1>3. CASE s > drain.token
    <2>1. s \in Listed
      BY <1>1, <1>3 DEF Listed
    <2>2. CASE Listed = PageOf
      BY <1>1, <2>1, <2>2
    <2>3. CASE PageOf # {} /\ s <= Max(PageOf)
      <3>1. Listed \in SUBSET Nat /\ IsFiniteSet(Listed) /\ PageOf \subseteq Listed
            /\ \A t \in PageOf : t <= NSessions
        <4>1. IsFiniteSet(1 .. NSessions)
          BY <1>1, FS_Interval
        <4>2. Listed \in SUBSET (1 .. NSessions)
          BY DEF Listed, Sessions
        <4>3. PageOf \subseteq Listed
          BY DEF PageOf
        <4>4. IsFiniteSet(Listed)
          BY <4>1, <4>2, FS_Subset
        <4>5. \A t \in Listed : t \in Nat /\ t <= NSessions
          BY <1>1, <4>2
        <4> QED  BY <4>3, <4>4, <4>5
      <3>2. PageOf \in SUBSET Nat
        BY <3>1
      <3> DEFINE m == Max(PageOf)
                 below(x) == {t \in Listed : t <= x}
      <3>3. m \in PageOf
        BY <1>1, <2>3, <3>1, <3>2, MaxOfBounded
      <3>4. m \in Nat /\ s <= m
        BY <2>3, <3>2, <3>3
      <3> HIDE DEF m
      <3>5. below(s) \in SUBSET below(m) /\ below(m) \in SUBSET Listed
        <4>1. \A t \in Listed : t <= s => t <= m
          BY <1>1, <3>1, <3>4
        <4> QED  BY <4>1
      <3>6. /\ Cardinality(below(s)) <= Cardinality(below(m))
            /\ Cardinality(below(s)) \in Nat /\ Cardinality(below(m)) \in Nat
        <4>1. IsFiniteSet(below(m))
          BY <3>1, <3>5, FS_Subset
        <4>2. IsFiniteSet(below(s)) /\ Cardinality(below(s)) <= Cardinality(below(m))
          BY <3>5, <4>1, FS_Subset
        <4> QED  BY <4>1, <4>2, FS_CardinalityType
      <3>7. Cardinality(below(m)) <= drain.size
        BY <3>3 DEF PageOf
      <3>8. Cardinality(below(s)) <= drain.size
        BY <1>1, <3>6, <3>7
      <3>9. s \in PageOf
        BY <2>1, <3>8 DEF PageOf
      <3> QED  BY <1>1, <3>9
    <2> QED  BY <1>1, <1>3, <2>2, <2>3
  <1> QED  BY <1>1, <1>2, <1>3

\* What an arriving page leaves in the drain.
LEMMA PageArrivesDrift == ASSUME DriftInv, PageArrives PROVE DriftInv'
  <1> DEFINE tok == IF PageOf = {} THEN drain.token ELSE Max(PageOf)
             g == drain.got \cup {t \in PageOf : session[t] = "open"}
             e == [drain EXCEPT !.pages = @ + 1, !.token = tok, !.got = g]
  <1>1. drain.phase = "paging" /\ UNCHANGED session
    BY DEF PageArrives
  <1>2. PICK more \in BOOLEAN : (Listed # PageOf => more) /\ drain' = AfterPage(e, more)
    BY DEF PageArrives
  <1>3. tok \in Nat
    <2>1. CASE PageOf = {}
      BY <2>1 DEF DriftInv, HeldListed
    <2>2. CASE PageOf # {}
      <3>1. PageOf \in SUBSET Nat /\ NSessions \in Nat /\ \A t \in PageOf : t <= NSessions
        BY DrainAssumption DEF PageOf, Listed, Sessions
      <3>2. Max(PageOf) \in PageOf
        BY <2>2, <3>1, MaxOfBounded
      <3> QED  BY <2>2, <3>1, <3>2
    <2> QED  BY <2>1, <2>2
  <1>4. \A s \in drain.held : s <= tok => s \in g
    BY <1>1, PageCovers
  <1>5. Listed = PageOf => drain.held \subseteq g
    BY <1>1, PageCovers
  <1> HIDE DEF tok, g
  <1>6. /\ IsDrain(e) /\ e.token = tok /\ e.got = g /\ e.size = drain.size
        /\ e.held = drain.held /\ e.missing = drain.missing
        /\ e.complete = drain.complete
    BY DEF DriftInv, IsDrain
  <1> HIDE DEF e
  <1>7. /\ IsDrain(drain') /\ drain'.token = tok /\ drain'.got = g /\ drain'.size = drain.size
        /\ drain'.held = drain.held /\ drain'.missing = drain.missing
        /\ drain'.phase \in {"listed", "between"}
        /\ drain'.complete \in BOOLEAN
        /\ drain'.phase = "listed" /\ drain'.complete => ~more
    <2>0. drain.complete \in BOOLEAN
      BY DEF DriftInv
    <2>1. CASE drain' = [e EXCEPT !.phase = "between"]
      BY <1>6, <2>0, <2>1 DEF IsDrain
    <2>2. CASE ~more /\ drain' = [e EXCEPT !.phase = "listed", !.complete = TRUE]
      BY <1>6, <2>2 DEF IsDrain
    <2>3. CASE drain' = [e EXCEPT !.phase = "listed", !.complete = FALSE]
      BY <1>6, <2>3 DEF IsDrain
    <2> QED  BY <1>2, <2>1, <2>2, <2>3, Zenon DEF AfterPage
  <1>8. HeldListed'
    BY <1>1, <1>2, <1>3, <1>4, <1>5, <1>7 DEF DriftInv, HeldListed, Open
  <1>9. MissingWasAway'
    BY <1>7 DEF DriftInv, MissingWasAway
  <1> QED  BY <1>1, <1>7, <1>8, <1>9 DEF DriftInv

\* A step that adds no page and takes none away.
LEMMA DriftKept ==
  ASSUME DriftInv, UNCHANGED session, IsDrain(drain'), drain'.complete \in BOOLEAN,
         drain'.size \in Nat, drain'.token = drain.token, drain'.got = drain.got,
         drain'.held = drain.held, drain'.missing = drain.missing,
         drain'.phase \in {"between", "paging"} => drain.phase \in {"between", "paging"},
         drain'.phase = "listed" /\ drain'.complete => drain.phase = "listed" /\ drain.complete
  PROVE  DriftInv'
  <1>1. HeldListed'
    BY DEF DriftInv, HeldListed, Open
  <1>2. MissingWasAway'
    BY DEF DriftInv, MissingWasAway
  <1> QED  BY <1>1, <1>2 DEF DriftInv

LEMMA DriftInit == CallsInit => DriftInv
  BY DrainAssumption
  DEF CallsInit, NoDrain, DriftInv, IsDrain, HeldListed, Open, MissingWasAway

LEMMA DriftStep == DriftInv /\ [CallsNext]_callsVars => DriftInv'
  <1> SUFFICES ASSUME DriftInv, [CallsNext]_callsVars PROVE DriftInv'
    OBVIOUS
  <1>0. IsDrain(drain) /\ drain.complete \in BOOLEAN /\ drain.size \in Nat /\ PageSize \in Nat
    BY DrainAssumption DEF DriftInv, HeldListed
  <1>t. ASSUME Throw, UNCHANGED session PROVE DriftInv'
    BY <1>0, <1>t DEF Throw, NoDrain, DriftInv, IsDrain, HeldListed, Open, MissingWasAway
  <1>f. ASSUME drain' = Finish(FALSE), UNCHANGED session PROVE DriftInv'
    <2>1. /\ IsDrain(drain') /\ drain'.phase = "listed" /\ drain'.complete = FALSE
          /\ drain'.size = drain.size /\ drain'.token = drain.token /\ drain'.got = drain.got
          /\ drain'.held = drain.held /\ drain'.missing = drain.missing
      BY <1>f, <1>0 DEF Finish, IsDrain
    <2> QED  BY <1>0, <1>f, <2>1, DriftKept
  <1>1. ASSUME Start PROVE DriftInv'
    <2>1. drain' = [phase |-> "between", token |-> 0, size |-> PageSize, pages |-> 0,
                    halvings |-> 0, left |-> Budget, got |-> {}, complete |-> FALSE,
                    held |-> Open, alone |-> (failureCount = 0), missing |-> {}]
      BY <1>1, Zenon DEF Start, NoDrain
    <2>2. /\ IsDrain(drain') /\ drain'.complete = FALSE /\ drain'.size = PageSize
          /\ drain'.token = 0 /\ drain'.held = Open /\ drain'.missing = {} /\ drain'.phase = "between"
      BY <2>1 DEF IsDrain
    <2>3. session' = session
      BY <1>1 DEF Start
    <2>4. \A s \in Open : s > 0 /\ s \in Nat
      BY DEF Open, Sessions
    <2>5. drain'.held = Open'
      BY <2>2, <2>3 DEF Open
    <2>6. HeldListed'
      BY <1>0, <2>2, <2>4, <2>5 DEF HeldListed
    <2>7. MissingWasAway'
      BY <2>2 DEF MissingWasAway
    <2> QED  BY <2>2, <2>3, <2>6, <2>7 DEF DriftInv
  <1>2. ASSUME NextPage PROVE DriftInv'
    <2>1. session' = session /\ drain.phase = "between"
      BY <1>2 DEF NextPage
    <2>2. CASE drain' = [drain EXCEPT !.phase = "paging"]
      <3>1. /\ IsDrain(drain') /\ drain'.phase = "paging" /\ drain'.complete = drain.complete
            /\ drain'.size = drain.size /\ drain'.token = drain.token /\ drain'.got = drain.got
            /\ drain'.held = drain.held /\ drain'.missing = drain.missing
        BY <1>0, <2>2 DEF IsDrain
      <3> QED  BY <1>0, <2>1, <3>1, DriftKept
    <2> QED  BY <1>2, <1>t, <1>f, <2>1, <2>2 DEF NextPage
  <1>3. ASSUME PageTooLarge PROVE DriftInv'
    <2>1. session' = session /\ drain.phase = "paging" /\ Shrink
      BY <1>3 DEF PageTooLarge
    <2>2. CASE drain' = [drain EXCEPT !.phase = "between", !.size = @ \div 2, !.halvings = @ + 1]
      <3>1. /\ IsDrain(drain') /\ drain'.phase = "between" /\ drain'.complete = drain.complete
            /\ drain'.size = drain.size \div 2 /\ drain'.token = drain.token
            /\ drain'.got = drain.got
            /\ drain'.held = drain.held /\ drain'.missing = drain.missing
        BY <1>0, <2>2 DEF IsDrain
      <3>2. drain'.size \in Nat
        BY <1>0, <3>1
      <3> QED  BY <1>0, <2>1, <3>1, <3>2, DriftKept
    <2> QED  BY <1>t, <2>1, <2>2 DEF Shrink
  <1>4. ASSUME PageTimesOut \/ PageFails PROVE DriftInv'
    BY <1>4, <1>t, <1>f DEF PageTimesOut, PageFails
  <1>5. ASSUME Report PROVE DriftInv'
    <2>1. PICK active \in SUBSET Sessions :
            drain' = [NoDrain EXCEPT
                       !.phase = "reported", !.held = drain.held,
                       !.missing = IF drain.complete THEN active \ drain.got ELSE {}]
      BY <1>5 DEF Report
    <2>2. /\ IsDrain(drain') /\ drain'.phase = "reported" /\ drain'.complete = FALSE
          /\ drain'.size = PageSize /\ drain'.token = 0 /\ drain'.held = drain.held
          /\ drain'.missing = IF drain.complete THEN active \ drain.got ELSE {}
      BY <2>1 DEF NoDrain, IsDrain
    <2>3. session' = session /\ drain.phase = "listed"
      BY <1>5 DEF Report
    <2>4. MissingWasAway'
      BY <1>0, <2>2, <2>3 DEF DriftInv, HeldListed, MissingWasAway
    <2>5. HeldListed'
      BY <1>0, <2>2, <2>3 DEF DriftInv, HeldListed, Open
    <2> QED  BY <2>2, <2>3, <2>4, <2>5 DEF DriftInv
  <1>6. ASSUME Others PROVE DriftInv'
    <2>1. PICK c \in Callers \ {Drainer} : drain' = [drain EXCEPT !.alone = @ /\ ~Fail(c)]
      BY <1>6 DEF Others
    <2>2. /\ IsDrain(drain') /\ drain'.phase = drain.phase /\ drain'.complete = drain.complete
          /\ drain'.size = drain.size /\ drain'.token = drain.token /\ drain'.got = drain.got
          /\ drain'.held = drain.held /\ drain'.missing = drain.missing
      BY <1>0, <2>1 DEF IsDrain
    <2>3. session' = session
      BY <1>6 DEF Others
    <2> QED  BY <1>0, <2>2, <2>3, DriftKept
  <1>7. ASSUME Clock PROVE DriftInv'
    <2>1. /\ IsDrain(drain') /\ drain'.phase = drain.phase /\ drain'.complete = drain.complete
          /\ drain'.size = drain.size /\ drain'.token = drain.token /\ drain'.got = drain.got
          /\ drain'.held = drain.held /\ drain'.missing = drain.missing
      BY <1>0, <1>7 DEF Clock, IsDrain
    <2>2. session' = session
      BY <1>7 DEF Clock
    <2> QED  BY <1>0, <2>1, <2>2, DriftKept
  <1>8. ASSUME Operator \/ Weather \/ UNCHANGED callsVars PROVE DriftInv'
    BY <1>0, <1>8, DriftKept DEF Operator, Weather, callsVars
  <1>9. ASSUME NEW s \in Sessions, SessionStep(s) PROVE DriftInv'
    <2>1. /\ IsDrain(drain') /\ drain'.phase = drain.phase /\ drain'.complete = drain.complete
          /\ drain'.size = drain.size /\ drain'.token = drain.token /\ drain'.got = drain.got
          /\ drain'.held = drain.held \ {s} /\ drain'.missing = drain.missing
      BY <1>0, <1>9 DEF SessionStep, IsDrain
    <2>2. /\ session' \in [Sessions -> {"none", "open", "ended"}]
          /\ \A t \in Sessions \ {s} : session'[t] = session[t]
      BY <1>9 DEF SessionStep, DriftInv
    <2>3. drain'.held \subseteq Open'
      BY <2>1, <2>2 DEF DriftInv, HeldListed, Open
    <2>4. HeldListed'
      BY <2>1, <2>3 DEF DriftInv, HeldListed
    <2>5. MissingWasAway'
      BY <2>1 DEF DriftInv, MissingWasAway
    <2> QED  BY <1>0, <2>1, <2>2, <2>4, <2>5 DEF DriftInv
  <1> QED
    BY <1>1, <1>2, <1>3, <1>4, <1>5, <1>6, <1>7, <1>8, <1>9, PageArrivesDrift
    DEF CallsNext, DrainStep

\* No run is reported as missing whose session the runtime held open throughout
\* the drain, for any number of sessions, pages and halvings, any page size and
\* budget, and whatever sessions come and go between the round trips.
THEOREM DriftIsFair == CallsSpec => []MissingWasAway
  <1>1. DriftInv => MissingWasAway
    BY DEF DriftInv
  <1> QED  BY <1>1, DriftInit, DriftStep, PTL DEF CallsSpec
===============================================================================
