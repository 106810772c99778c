----------------------------- MODULE RuntimeCalls -----------------------------
(***************************************************************************)
(* listSessions, the one unary call of the provider that takes several     *)
(* round trips, beside the other callers of the breaker, and the drift     *)
(* report of the admin controller, which compares its result with the      *)
(* runs.  Sessions are numbered in the order the runtime pages through     *)
(* them; a page token is the last number of the page before.  Sessions     *)
(* come and go between the round trips, and so do the runs: those the      *)
(* report finds active are any of the sessions that were ever opened.      *)
(***************************************************************************)
EXTENDS CircuitBreaker, FiniteSets, FiniteSetsExt

CONSTANTS
  Drainer,       \* the caller that lists sessions
  NSessions,     \* number of sessions
  PageSize, MaxPages, MaxHalvings,
  Budget         \* ticks a whole drain may take

ASSUME DrainAssumption ==
  /\ Drainer \in Callers
  /\ {NSessions, PageSize, MaxPages, MaxHalvings, Budget} \subseteq Nat
  /\ PageSize > 0

Sessions == 1 .. NSessions

VARIABLES
  session,   \* what the runtime holds: "none", "open" or, for its retention window, "ended"
  drain      \* the locals of the drain under way, and what was reported of it

callsVars == <<breakerVars, session, drain>>

Open == {s \in Sessions : session[s] = "open"}

\* The drain is "off", "between" two round trips, "paging", it has "listed" the
\* sessions and the runs are still to be read, or it is "reported".  held is the
\* set of sessions that were open ever since the drain began; alone says that no
\* failure but the drain's own is on the breaker's count.
NoDrain ==
  [phase |-> "off", token |-> 0, size |-> PageSize, pages |-> 0, halvings |-> 0,
   left |-> Budget, got |-> {}, complete |-> FALSE, held |-> {}, alone |-> FALSE,
   missing |-> {}]

CallsInit ==
  /\ BreakerInit
  /\ session = [s \in Sessions |-> "none"]
  /\ drain = NoDrain

-------------------------------------------------------------------------------
Start ==
  /\ drain.phase \in {"off", "reported"}
  /\ drain' = [NoDrain EXCEPT !.phase = "between", !.held = Open, !.alone = failureCount = 0]
  /\ UNCHANGED <<breakerVars, session>>

\* finishListSessions.
Finish(complete) == [drain EXCEPT !.phase = "listed", !.complete = complete]

\* The error goes to the caller and every page is dropped.
Throw == drain' = NoDrain

\* The head of the loop: out of time, a call, or a breaker that rejects it.
NextPage ==
  /\ drain.phase = "between"
  /\ \/ /\ drain.left = 0
        /\ drain' = Finish(FALSE)
        /\ UNCHANGED breakerVars
     \/ /\ drain.left > 0
        /\ Execute(Drainer)
        /\ drain' = [drain EXCEPT !.phase = "paging"]
     \/ /\ drain.left > 0
        /\ Rejected(Drainer)
        /\ Throw
  /\ UNCHANGED session

\* What ListSessions lists after the token: open sessions and ended ones.
Listed == {s \in Sessions : s > drain.token /\ session[s] # "none"}

PageOf == {s \in Listed : Cardinality({t \in Listed : t <= s}) <= drain.size}

\* Mutant of AfterPage: the last page allowed counts as the last page.
AfterPageCapped(d, more) ==
  IF more /\ d.pages < MaxPages THEN [d EXCEPT !.phase = "between"]
  ELSE [d EXCEPT !.phase = "listed", !.complete = TRUE]

\* A page without a next token completes the drain, the page limit truncates it.
AfterPage(d, more) ==
  CASE ~more -> [d EXCEPT !.phase = "listed", !.complete = TRUE]
    [] more /\ d.pages < MaxPages -> [d EXCEPT !.phase = "between"]
    [] OTHER -> [d EXCEPT !.phase = "listed", !.complete = FALSE]

\* A page arrives.  A token after the last session comes from a looping server.
PageArrives ==
  /\ drain.phase = "paging"
  /\ Succeed(Drainer)
  /\ \E more \in BOOLEAN :
       /\ Listed # PageOf => more
       /\ drain' = AfterPage(
            [drain EXCEPT !.pages = @ + 1,
                          !.token = IF PageOf = {} THEN @ ELSE Max(PageOf),
                          !.got = @ \cup {s \in PageOf : session[s] = "open"}], more)
  /\ UNCHANGED session

\* Mutant of Shrink: as often as the page is too large.
ShrinkAlways ==
  drain' = [drain EXCEPT !.phase = "between", !.size = IF @ > 1 THEN @ \div 2 ELSE 1]

\* The same page again, half as large, a bounded number of times per drain.
Shrink ==
  IF drain.size > 1 /\ drain.halvings < MaxHalvings
  THEN drain' = [drain EXCEPT !.phase = "between", !.size = @ \div 2, !.halvings = @ + 1]
  ELSE Throw

\* RESOURCE_EXHAUSTED for the size of the page.  Uncoded it is a failure to the
\* breaker, coded PAYLOAD_TOO_LARGE a refusal.
PageTooLarge ==
  /\ drain.phase = "paging" /\ PageOf # {}
  /\ Fail(Drainer) \/ Refused(Drainer)
  /\ Shrink
  /\ UNCHANGED session

\* DEADLINE_EXCEEDED once the budget is gone keeps the pages; the breaker counts it.
PageTimesOut ==
  /\ drain.phase = "paging" /\ drain.left = 0
  /\ Fail(Drainer)
  /\ drain' = Finish(FALSE)
  /\ UNCHANGED session

\* Every other error.
PageFails ==
  /\ drain.phase = "paging"
  /\ Fail(Drainer) \/ Refused(Drainer)
  /\ Throw
  /\ UNCHANGED session

\* getRuntimeSessionDrift: the runs are read after the sessions.  missing are the
\* active runs, not the starting ones, without an open session in the result.
Report ==
  /\ drain.phase = "listed"
  /\ \E active \in SUBSET {s \in Sessions : session[s] # "none"} :
       drain' = [NoDrain EXCEPT
                  !.phase = "reported", !.held = drain.held,
                  !.missing = IF drain.complete THEN active \ drain.got ELSE {}]
  /\ UNCHANGED <<breakerVars, session>>

-------------------------------------------------------------------------------
\* The other callers; a failure of theirs ends a drain's claim to be alone.
Others ==
  \E c \in Callers \ {Drainer} :
    /\ CallStep(c)
    /\ drain' = [drain EXCEPT !.alone = @ /\ ~Fail(c)]
    /\ UNCHANGED session

Operator == (Reset \/ Poll) /\ UNCHANGED <<session, drain>>

\* Time passes for the breaker and for the drain.
Clock ==
  /\ Tick \/ (elapsed = ResetTimeout /\ drain.phase \notin {"off", "reported"} /\ drain.left > 0 /\ UNCHANGED breakerVars)
  /\ drain' = [drain EXCEPT !.left = IF drain.phase \notin {"off", "reported"} /\ @ > 0 THEN @ - 1 ELSE @]
  /\ UNCHANGED session

Weather == Outage /\ UNCHANGED <<session, drain>>

\* A session opens and ends.
SessionStep(s) ==
  /\ \/ session[s] = "none" /\ session' = [session EXCEPT ![s] = "open"]
     \/ session[s] = "open" /\ session' = [session EXCEPT ![s] = "ended"]
  /\ drain' = [drain EXCEPT !.held = @ \ {s}]
  /\ UNCHANGED breakerVars

DrainStep == Start \/ NextPage \/ PageArrives \/ PageTooLarge \/ PageTimesOut \/ PageFails \/ Report

CallsNext ==
  \/ DrainStep \/ Others \/ Operator \/ Clock \/ Weather
  \/ \E s \in Sessions : SessionStep(s)

\* As for the breaker; the drain's own calls have deadlines too.
CallsFairness ==
  /\ WF_callsVars(Clock)
  /\ WF_callsVars(NextPage) /\ WF_callsVars(PageArrives) /\ WF_callsVars(Report)
  /\ \A c \in Callers \ {Drainer} :
       /\ WF_callsVars(Others /\ (Succeed(c) \/ Refused(c)))
       /\ WF_callsVars(Others /\ Execute(c))

CallsSpec == CallsInit /\ [][CallsNext]_callsVars /\ CallsFairness

-------------------------------------------------------------------------------
\* The page-size ladder of one drain does not open the breaker under everyone
\* else: a drain that found no failure on the count, and met none but its own,
\* leaves the breaker closed, whatever pages it got or gave up (the comment on
\* MAX_PAGE_SIZE_HALVINGS, for a threshold above MaxHalvings + 1).
LadderAloneDoesNotTrip == drain.phase \notin {"off", "reported"} /\ drain.alone => state = "CLOSED"

\* A run is reported as missing from the runtime only if its session was away
\* for some of the time the drain took: one the runtime held open throughout is
\* never reported, though pages shrank, sessions came and went and the drain ran
\* against its limits on the way.
MissingWasAway == drain.missing \cap drain.held = {}

\* Comment at missingFromRuntime: only runs "whose bound session the runtime no
\* longer reports as live at all".
MissingIsReal == [][drain'.phase = "reported" => drain'.missing \cap Open \subseteq drain.missing]_drain
===============================================================================
