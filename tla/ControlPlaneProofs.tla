--------------------------- MODULE ControlPlaneProofs --------------------------
(***************************************************************************)
(* ControlPlane for any number of launches and operator requests, breaks,  *)
(* faults and crashes: a run is reported completed only over a resolved    *)
(* session, and with all its actors it is the abstract run state machine.  *)
(*                                                                         *)
(* What RunManagerService itself guarantees is taken from the lemmas of    *)
(* RunManagerProofs, instantiated with the actors as callers; here is what *)
(* the actors ask of it, and why they may.                                 *)
(***************************************************************************)
EXTENDS ControlPlane, SequenceTheorems, TLAPS

RMP == INSTANCE RunManagerProofs

-------------------------------------------------------------------------------
(* The inductive invariant. *)

Resolved == session = "RESOLVED"

\* What an actor remembers of the session was true when it was read; that it
\* is resolved is the one thing that stays true.
Truthful(st) == st = "RESOLVED" => Resolved

EventTypes == {"created", "suspended", "resumed", "cancelled", "resolved", "expired"}
ConsModes == {"off", "stream", "poll", "persist", "retry", "finalize", "final"}
ExecPcs == {"idle", "create", "start", "poll", "bind", "run", "artifact", "fail", "failing", "done"}
DiscPcs == {"idle", "create", "start", "bind", "run", "mark", "reconcile"}
UiPcs == {"idle", "ask", "mark", "wait"}
Seen == SessionState \cup {"none"}

\* The calls in flight and the row: nobody deletes the run here, and whoever
\* wants it completed has seen the session resolved.
RunInv ==
  /\ RMP!IInv
  /\ row # "deleted"
  /\ row = "completed" => Resolved
  /\ \A c \in Callers : call[c].op # "deleteRun" /\ (call[c].op = "markCompleted" => Resolved)

\* The undelivered events of the watch.
WatchInv ==
  /\ session \in Seen
  /\ watch \in [up : BOOLEAN, q : Seq([type : EventTypes, st : SessionState])]
  /\ \A i \in 1 .. Len(watch.q) : Truthful(watch.q[i].st)

\* The consumer's last snapshot.
ConsInv ==
  /\ cons \in [mode : ConsModes, st : Seen, retries : Int, aborted : BOOLEAN]
  /\ Truthful(cons.st)
  /\ cons.mode = "persist" => cons.st \in SessionState

\* The state a launch binds the run with.
ExecInv ==
  /\ exec \in [Launchers -> [pc : ExecPcs, st : Seen]]
  /\ \A l \in Launchers : exec[l].pc \in {"bind", "run"} => exec[l].st \in SessionState

\* The state discovery binds it with.
DiscInv ==
  /\ disc \in [pc : DiscPcs, st : Seen]
  /\ disc.pc # "idle" => disc.st \in SessionState

\* A request that waits has an operation.
UiInv ==
  /\ ui \in [Uis -> [op : {"none", "cancel", "suspend", "resume"}, pc : UiPcs]]
  /\ \A u \in Uis : ui[u].pc # "idle" => ui[u].op \in {"cancel", "suspend", "resume"}

IInv == RunInv /\ WatchInv /\ ConsInv /\ ExecInv /\ DiscInv /\ UiInv

-------------------------------------------------------------------------------
(* RM, through which the actors call the run manager, and RMP, which has   *)
(* its lemmas, are the same module: each operation of one is that of the   *)
(* other.                                                                  *)

\* The actors satisfy what RunManager asks of its callers.
LEMMA CallerFacts ==
  /\ Faults \in BOOLEAN /\ Callers # {}
  /\ Reports \subseteq RMP!SessionState /\ RMP!SessionState = SessionState
  /\ "consumer" \in Callers /\ "discovery" \in Callers /\ "recovery" \in Callers
  /\ Launchers \subseteq Callers /\ Uis \subseteq Callers
  BY SwitchesAssumption DEF Callers, Reports, SessionState, RMP!SessionState

\* Both have the same statuses, operations and transitions.
LEMMA SameConstants ==
  /\ RM!Terminal = RMP!Terminal /\ RM!RunStatus = RMP!RunStatus
  /\ RunStatus = RMP!RunStatus /\ Terminal = RMP!Terminal
  /\ RM!TerminalOp = RMP!TerminalOp /\ RM!TransitionOp = RMP!TransitionOp
  /\ RM!NotifyingOp = RMP!NotifyingOp /\ RM!Idle = RMP!Idle
  /\ RM!DeletableFrom = RMP!DeletableFrom /\ RM!EmptyStatus = RMP!EmptyStatus
  /\ RM!TerminalEventType = RMP!TerminalEventType
  BY DEF RM!Terminal, RMP!Terminal, Terminal, RM!RunStatus, RMP!RunStatus, RunStatus,
         RM!TerminalOp, RMP!TerminalOp, RM!TransitionOp, RMP!TransitionOp,
         RM!NotifyingOp, RMP!NotifyingOp, RM!Idle, RMP!Idle, RM!DeletableFrom,
         RMP!DeletableFrom, RM!EmptyStatus, RMP!EmptyStatus,
         RM!TerminalEventType, RMP!TerminalEventType

\* Operation by operation:
LEMMA SameBegin ==
  ASSUME NEW c \in Callers, NEW op, NEW arg, RM!Begin(c, op, arg)
  PROVE  RMP!Begin(c, op, arg)
  BY SameConstants DEF RM!Begin, RMP!Begin, RM!FirstStep, RMP!FirstStep,
     RM!PreRead, RMP!PreRead

LEMMA SameLookup == ASSUME NEW c \in Callers, RM!Lookup(c) PROVE RMP!Lookup(c)
  BY SameConstants DEF RM!Lookup, RMP!Lookup, RM!Settle, RMP!Settle, RM!Goto, RMP!Goto

LEMMA SameRead == ASSUME NEW c \in Callers, RM!Read(c) PROVE RMP!Read(c)
  BY SameConstants DEF RM!Read, RMP!Read, RM!Settle, RMP!Settle, RM!Goto, RMP!Goto,
     RM!EarlyReturn, RMP!EarlyReturn

LEMMA SameInsert == ASSUME NEW c \in Callers, RM!Insert(c) PROVE RMP!Insert(c)
  BY SameConstants DEF RM!Insert, RMP!Insert, RM!Settle, RMP!Settle, RM!Goto, RMP!Goto

\* The tables of the run manager are the same.
LEMMA SameTarget ==
  ASSUME NEW op
  PROVE  /\ RM!Target(op) = RMP!Target(op)
         /\ RM!ValidFrom(RM!Target(op)) = RMP!ValidFrom(RMP!Target(op))
         /\ RM!AfterUpdate(op) = RMP!AfterUpdate(op)
  BY SameConstants DEF RM!Target, RMP!Target, RM!ValidFrom, RMP!ValidFrom,
     RM!VALID_TRANSITIONS, RMP!VALID_TRANSITIONS, RM!AfterUpdate, RMP!AfterUpdate

LEMMA SameUpdate == ASSUME NEW c \in Callers, RM!Update(c) PROVE RMP!Update(c)
  BY SameConstants, SameTarget DEF RM!Update, RMP!Update, RM!Goto, RMP!Goto

LEMMA SameRecheck == ASSUME NEW c \in Callers, RM!Recheck(c) PROVE RMP!Recheck(c)
  BY SameConstants, SameTarget DEF RM!Recheck, RMP!Recheck, RM!Settle, RMP!Settle,
     RM!Goto, RMP!Goto

LEMMA SameUpsert == ASSUME NEW c \in Callers, RM!Upsert(c) PROVE RMP!Upsert(c)
  BY SameConstants DEF RM!Upsert, RMP!Upsert, RM!Settle, RMP!Settle, RM!Goto, RMP!Goto

\* So is what it appends to the log ...
LEMMA SameAppend ==
  ASSUME NEW ev, RM!AppendCanonical(ev) PROVE RMP!AppendCanonical(ev)
  BY SameConstants DEF RM!AppendCanonical, RMP!AppendCanonical, RM!ApplyStatus, RMP!ApplyStatus,
     RM!StatusFromSession, RMP!StatusFromSession, RM!RunEventType, RMP!RunEventType,
     RM!SessionEventType, RMP!SessionEventType

\* ... and what its operations announce.
LEMMA SameEvent ==
  ASSUME NEW op, NEW arg
  PROVE  RM!EventOf(op, arg) = RMP!EventOf(op, arg) /\ RM!WebhookOf(op) = RMP!WebhookOf(op)
  BY DEF RM!EventOf, RMP!EventOf, RM!WebhookOf, RMP!WebhookOf

LEMMA SameEmit == ASSUME NEW c \in Callers, RM!Emit(c) PROVE RMP!Emit(c)
  BY SameConstants, SameAppend, SameEvent DEF RM!Emit, RMP!Emit, RM!Settle, RMP!Settle,
     RM!Goto, RMP!Goto

LEMMA SameNotify == ASSUME NEW c \in Callers, RM!Notify(c) PROVE RMP!Notify(c)
  BY SameConstants, SameEvent DEF RM!Notify, RMP!Notify, RM!Settle, RMP!Settle

LEMMA SameDelete == ASSUME NEW c \in Callers, RM!Delete(c) PROVE RMP!Delete(c)
  BY SameConstants DEF RM!Delete, RMP!Delete, RM!Settle, RMP!Settle, RM!durable, RMP!durable

\* Hence every step of a call is.
LEMMA SameStep == ASSUME NEW c \in Callers, RM!Step(c) PROVE RMP!Step(c)
  BY SameLookup, SameRead, SameInsert, SameUpdate, SameRecheck, SameUpsert, SameEmit,
     SameNotify, SameDelete DEF RM!Step, RMP!Step

-------------------------------------------------------------------------------
(* The run, as its actors call the run manager. *)

\* A resolved session stays resolved.
StaysResolved == Resolved => Resolved'

\* A call of an actor that has reason to make it.
LEMMA BeginRun ==
  ASSUME RunInv, StaysResolved, NEW c \in Callers, NEW op \in RMP!Op \ {"deleteRun"},
         NEW arg \in RMP!ArgsOf(op), RM!Begin(c, op, arg),
         op = "markCompleted" => Resolved
  PROVE  RunInv'
  <1>1. RMP!Begin(c, op, arg)
    BY SameBegin
  <1>2. RMP!IInv'
    BY <1>1, CallerFacts, RMP!BeginIInv DEF RunInv
  <1>3. row' = row /\ call' = [call EXCEPT ![c] = [op |-> op, arg |-> arg,
                                pc |-> RMP!FirstStep(op, arg), res |-> "none"]]
    BY <1>1 DEF RMP!Begin
  <1>4. call'[c].op = op /\ \A d \in Callers \ {c} : call'[d] = call[d]
    BY <1>3 DEF RunInv, RMP!IInv, RMP!TypeOK
  <1> QED  BY <1>2, <1>3, <1>4 DEF RunInv, StaysResolved

\* A step that leaves the tables alone and takes no new call.
LEMMA QuietRun ==
  ASSUME RunInv, StaysResolved, RMP!IInv', row' = row,
         \A c \in Callers : call'[c].op \in {call[c].op, "none"}
  PROVE  RunInv'
  BY DEF RunInv, StaysResolved

\* A step outside the run manager that does not unresolve the session.
LEMMA IdleRun ==
  ASSUME RunInv, StaysResolved, UNCHANGED rmVars
  PROVE  RunInv'
  <1>1. RMP!IInv'
    BY CallerFacts, RMP!NextIInv DEF RunInv, rmVars, RMP!vars
  <1> QED  BY <1>1, QuietRun DEF rmVars

\* The operation a call is in does not change until it settles.
LEMMA StepKeepsOp ==
  ASSUME RunInv, NEW c \in Callers, RMP!Step(c)
  PROVE  \A d \in Callers : call'[d].op \in {call[d].op, "none"}
  <1>1. (\E pc : RMP!Goto(c, pc)) \/ (\E res : RMP!Settle(c, res))
    <2>1. CASE RMP!Lookup(c) \/ RMP!Read(c) \/ RMP!Insert(c) \/ RMP!Update(c)
      BY <2>1 DEF RMP!Lookup, RMP!Read, RMP!Insert, RMP!Update
    <2>2. CASE RMP!Recheck(c) \/ RMP!Upsert(c) \/ RMP!Emit(c)
      BY <2>2 DEF RMP!Recheck, RMP!Upsert, RMP!Emit
    <2>3. CASE RMP!Notify(c) \/ RMP!Delete(c)
      BY <2>3 DEF RMP!Notify, RMP!Delete
    <2> QED  BY <2>1, <2>2, <2>3 DEF RMP!Step
  <1>2. call \in [Callers -> [op : RMP!Op \cup {"none"}, arg : RMP!Arg, pc : RMP!Pc, res : RMP!Result]]
    BY DEF RunInv, RMP!IInv, RMP!TypeOK
  <1>3. ASSUME NEW pc, RMP!Goto(c, pc) PROVE \A d \in Callers : call'[d].op \in {call[d].op, "none"}
    BY <1>2, <1>3 DEF RMP!Goto
  <1>4. ASSUME NEW res, RMP!Settle(c, res) PROVE \A d \in Callers : call'[d].op \in {call[d].op, "none"}
    BY <1>2, <1>4 DEF RMP!Settle, RMP!Idle
  <1> QED  BY <1>1, <1>3, <1>4

\* The row is completed only by a markCompleted, and never deleted.
LEMMA StepRow ==
  ASSUME RunInv, NEW c \in Callers, RMP!Step(c)
  PROVE  row' # "deleted" /\ (row' = "completed" => row = "completed" \/ call[c].op = "markCompleted")
  <1>1. CASE RMP!Lookup(c) \/ RMP!Read(c) \/ RMP!Recheck(c) \/ RMP!Upsert(c)
    BY <1>1 DEF RMP!Lookup, RMP!Read, RMP!Recheck, RMP!Upsert, RunInv
  <1>2. CASE RMP!Emit(c) \/ RMP!Notify(c)
    BY <1>2 DEF RMP!Emit, RMP!Notify, RunInv
  <1>3. CASE RMP!Insert(c)
    BY <1>3 DEF RMP!Insert, RunInv
  <1>4. CASE RMP!Update(c)
    <2>1. call[c].op \in RMP!TransitionOp
      BY <1>4 DEF RMP!Update
    <2>2. /\ RMP!Target(call[c].op) # "deleted"
          /\ RMP!Target(call[c].op) = "completed" => call[c].op = "markCompleted"
      BY <2>1 DEF RMP!Target, RMP!TransitionOp, RMP!TerminalOp
    <2>3. row' \in {row, RMP!Target(call[c].op)}
      BY <1>4 DEF RMP!Update
    <2> QED  BY <2>2, <2>3 DEF RunInv
  <1>5. CASE RMP!Delete(c)
    BY <1>5 DEF RMP!Delete, RunInv
  <1> QED  BY <1>1, <1>2, <1>3, <1>4, <1>5 DEF RMP!Step

\* One database call of an operation.
LEMMA StepRun ==
  ASSUME RunInv, StaysResolved, NEW c \in Callers, RM!Step(c)
  PROVE  RunInv'
  <1>1. RMP!Step(c)
    BY SameStep
  <1>2. RMP!IInv'
    <2>1. RMP!Next
      BY <1>1 DEF RMP!Next
    <2> QED  BY <2>1, CallerFacts, RMP!NextIInv DEF RunInv
  <1>3. \A d \in Callers : call'[d].op \in {call[d].op, "none"}
    BY <1>1, StepKeepsOp
  <1>4. row' # "deleted" /\ (row' = "completed" => row = "completed" \/ call[c].op = "markCompleted")
    BY <1>1, StepRow
  <1>5. row' = "completed" => Resolved'
    BY <1>4 DEF RunInv, StaysResolved
  <1>6. \A d \in Callers : call'[d].op # "deleteRun" /\ (call'[d].op = "markCompleted" => Resolved')
    BY <1>3 DEF RunInv, StaysResolved
  <1> QED  BY <1>2, <1>4, <1>5, <1>6 DEF RunInv

\* A call that throws keeps what it wrote.
LEMMA ThrowRun ==
  ASSUME RunInv, StaysResolved, NEW c \in Callers, RM!Throw(c)
  PROVE  RunInv'
  <1>1. RMP!Settle(c, "error") /\ UNCHANGED <<row, rowKey, sessionRow, outcomes, proj, fired>>
    BY DEF RM!Throw, RM!Settle, RMP!Settle, RM!Idle, RMP!Idle
  <1>2. RMP!IInv'
    BY <1>1, CallerFacts, RMP!SettleIInv DEF RunInv, RMP!Result
  <1>3. \A d \in Callers : call'[d].op \in {call[d].op, "none"}
    BY <1>1 DEF RMP!Settle, RMP!Idle, RunInv, RMP!IInv, RMP!TypeOK
  <1> QED  BY <1>1, <1>2, <1>3, QuietRun

\* A frame of the session reaches the log: of the run only the projection, and
\* the session row, are changed.
LEMMA AppendRun ==
  ASSUME RunInv, StaysResolved,
         NEW ev \in [type : {"session.state.changed"}, data : SessionState]
                    \cup [type : {"decision.finalized"}, data : {"none"}],
         RM!AppendCanonical(ev), UNCHANGED <<row, rowKey, fired, call>>,
         sessionRow' \in SessionState \cup {"none"}
  PROVE  RunInv' /\ outcomes' = outcomes
  <1>1. RMP!AppendCanonical(ev)
    BY SameAppend
  <1>2. ev \in RMP!Event /\ ev.type \notin RMP!TerminalEventType
    BY CallerFacts DEF RMP!Event, RMP!SessionEventType, RMP!TerminalEventType
  <1>3. outcomes' = outcomes
    BY <1>1, <1>2 DEF RMP!AppendCanonical
  <1>4. proj' \in RMP!RunStatus
    BY <1>1, <1>2, CallerFacts, RMP!AppendCanonicalFacts DEF RunInv
  <1>5. RMP!TypeOK'
    BY <1>3, <1>4, CallerFacts DEF RunInv, RMP!IInv, RMP!TypeOK
  <1>6. RMP!IInv'
    BY <1>3, <1>5 DEF RunInv, RMP!IInv, RMP!PcMatchesOp, RMP!OutcomeAgrees, RMP!Announced,
       RMP!PendingOutcomeAgrees, RMP!PendingDeleteIsTerminal, RMP!WebhookOutcomeAgrees
  <1> QED  BY <1>3, <1>6, QuietRun

\* A restart forgets every call.
LEMMA CrashRun ==
  ASSUME RunInv, StaysResolved, call' = [c \in Callers |-> RM!Idle],
         UNCHANGED <<row, rowKey, sessionRow, outcomes, proj, fired>>
  PROVE  RunInv'
  <1>1. \A c \in Callers : call'[c] = RMP!Idle
    BY SameConstants
  <1>2. call' \in [Callers -> [op : RMP!Op \cup {"none"}, arg : RMP!Arg, pc : RMP!Pc, res : RMP!Result]]
    BY SameConstants DEF RMP!Idle, RMP!Arg, RMP!Pc, RMP!Result
  <1>3. RMP!PcMatchesOp' /\ RMP!PendingOutcomeAgrees' /\ RMP!PendingDeleteIsTerminal'
    BY <1>1 DEF RMP!Idle, RMP!PcMatchesOp, RMP!PendingOutcomeAgrees,
       RMP!PendingDeleteIsTerminal, RMP!TransitionOp, RMP!TerminalOp
  <1>4. RMP!IInv'
    BY <1>2, <1>3, CallerFacts, RMP!CallOnly DEF RunInv
  <1> QED  BY <1>1, <1>4, QuietRun DEF RMP!Idle

-------------------------------------------------------------------------------
(* What each actor remembers. *)

\* The session moves only while it is not over, and the event that reports it
\* says where it is.
LEMMA SessionMoves ==
  ASSUME WatchInv, NEW st \in SessionState, NEW type \in EventTypes,
         MoveSession(st, type), ~Resolved
  PROVE  WatchInv' /\ StaysResolved
  <1> DEFINE ev == [type |-> type, st |-> st]
             q == watch.q
  <1>1. q \in Seq([type : EventTypes, st : SessionState]) /\ session' = st
    BY DEF WatchInv, MoveSession
  <1>2. CASE ~watch.up
    BY <1>1, <1>2 DEF WatchInv, MoveSession, Report, Seen, Truthful, StaysResolved
  <1>3. CASE watch.up
    <2>1. watch' = [watch EXCEPT !.q = Append(q, ev)]
      BY <1>3 DEF MoveSession, Report, LifecycleEvent
    <2>2. ev \in [type : EventTypes, st : SessionState] /\ ev.st = st
      OBVIOUS
    <2> HIDE DEF ev
    <2>3. Append(q, ev) \in Seq([type : EventTypes, st : SessionState])
      BY <1>1, <2>2, AppendProperties
    <2>4. watch'.q = Append(q, ev)
          /\ watch' \in [up : BOOLEAN, q : Seq([type : EventTypes, st : SessionState])]
      BY <2>1, <2>3 DEF WatchInv
    <2>5. \A i \in 1 .. Len(Append(q, ev)) : Append(q, ev)[i] = ev \/ (i \in 1 .. Len(q) /\ Append(q, ev)[i] = q[i])
      BY <1>1, <2>2
    <2>6. \A i \in 1 .. Len(q) : q[i].st # "RESOLVED"
      BY DEF WatchInv, Truthful
    <2>7. \A i \in 1 .. Len(watch'.q) : watch'.q[i].st = "RESOLVED" => session' = "RESOLVED"
      BY <1>1, <2>2, <2>4, <2>5, <2>6
    <2>8. session' \in Seen /\ StaysResolved
      BY <1>1 DEF Seen, StaysResolved
    <2> QED  BY <2>4, <2>7, <2>8 DEF WatchInv, Truthful, Resolved
  <1> QED  BY <1>2, <1>3

\* The requests the runtime answers by moving the session.
LEMMA RequestMoves ==
  ASSUME WatchInv, Suspend \/ Resume \/ Cancel
  PROVE  WatchInv' /\ StaysResolved
  <1>1. \E st \in SessionState, type \in EventTypes : MoveSession(st, type) /\ ~Resolved
    BY DEF Suspend, Resume, Cancel, SessionState, EventTypes, Resolved
  <1> QED  BY <1>1, SessionMoves

\* The watch as it is, cut short, or gone.
LEMMA WatchShrinks ==
  ASSUME WatchInv, session' = session,
         \/ watch' = watch
         \/ watch.q # <<>> /\ watch' = [watch EXCEPT !.q = Tail(@)]
         \/ Lost
  PROVE  WatchInv' /\ StaysResolved
  <1>1. StaysResolved
    BY DEF StaysResolved, Resolved
  <1>2. CASE watch' = watch
    BY <1>1, <1>2 DEF WatchInv, Truthful, Resolved
  <1>3. CASE watch.q # <<>> /\ watch' = [watch EXCEPT !.q = Tail(@)]
    <2> DEFINE q == watch.q
    <2>1. q \in Seq([type : EventTypes, st : SessionState]) /\ q # <<>>
      BY <1>3 DEF WatchInv
    <2>2. watch'.q = Tail(q) /\ watch' \in [up : BOOLEAN, q : Seq([type : EventTypes, st : SessionState])]
      BY <1>3, <2>1 DEF WatchInv
    <2>3. \A i \in 1 .. Len(Tail(q)) : i + 1 \in 1 .. Len(q) /\ Tail(q)[i] = q[i + 1]
      BY <2>1
    <2>4. \A i \in 1 .. Len(watch'.q) : Truthful(watch'.q[i].st)
      BY <2>2, <2>3 DEF WatchInv
    <2> QED  BY <1>1, <2>2, <2>4 DEF WatchInv, Truthful, Resolved
  <1>4. CASE Lost
    <2>1. watch' = [up |-> FALSE, q |-> <<>>] /\ Len(<<>>) = 0
      BY <1>4 DEF Lost
    <2>2. watch' \in [up : BOOLEAN, q : Seq([type : EventTypes, st : SessionState])] /\ watch'.q = <<>>
      BY <2>1
    <2> QED  BY <1>1, <2>1, <2>2 DEF WatchInv
  <1> QED  BY <1>2, <1>3, <1>4

\* The head of a queue is one of its elements.
LEMMA HeadFacts ==
  ASSUME NEW S, NEW s \in Seq(S), s # <<>>
  PROVE  Head(s) = s[1] /\ 1 \in 1 .. Len(s) /\ Head(s) \in S
  <1>1. Len(s) \in Nat \ {0} /\ Head(s) \in S
    BY EmptySeq, HeadTailProperties
  <1> QED  BY <1>1

\* The event at the head of the watch.
LEMMA HeadEvent ==
  ASSUME WatchInv, watch.q # <<>>
  PROVE  /\ Head(watch.q) \in [type : EventTypes, st : SessionState]
         /\ Truthful(Head(watch.q).st)
  <1>1. /\ watch.q \in Seq([type : EventTypes, st : SessionState]) /\ watch.q # <<>>
        /\ \A i \in 1 .. Len(watch.q) : Truthful(watch.q[i].st)
    BY DEF WatchInv
  <1>2. Head(watch.q) = watch.q[1] /\ 1 \in 1 .. Len(watch.q)
        /\ Head(watch.q) \in [type : EventTypes, st : SessionState]
    BY <1>1, HeadFacts
  <1> QED  BY <1>1, <1>2

\* An actor that does not move remembers what it did.
LEMMA ActorsKeep ==
  ASSUME StaysResolved
  PROVE  /\ ConsInv /\ cons' = cons => ConsInv'
         /\ ExecInv /\ exec' = exec => ExecInv'
         /\ DiscInv /\ disc' = disc => DiscInv'
         /\ UiInv /\ ui' = ui => UiInv'
  BY DEF StaysResolved, Truthful, ConsInv, ExecInv, DiscInv, UiInv

\* What a run ends as is markCompleted only for a resolved session.
LEMMA FinalOpFacts ==
  ASSUME NEW st, Truthful(st)
  PROVE  FinalOp(st) \in RMP!TerminalOp /\ (FinalOp(st) = "markCompleted" => Resolved)
  BY DEF FinalOp, RMP!TerminalOp, Truthful

\* The operations without an argument.
LEMMA PlainOps ==
  /\ RMP!TerminalOp \cup {"markStarted", "markSuspended", "markResumed"} \subseteq RMP!Op \ {"deleteRun"}
  /\ {"createRun", "bindSession", "markRunning"} \subseteq RMP!Op \ {"deleteRun"}
  /\ \A op \in RMP!TerminalOp \cup {"markStarted", "markSuspended", "markResumed"} : "none" \in RMP!ArgsOf(op)
  /\ "key" \in RMP!ArgsOf("createRun") /\ "nokey" \in RMP!ArgsOf("createRun")
  /\ \A op \in {"bindSession", "markRunning"} : RMP!ArgsOf(op) = SessionState
  BY DEF RMP!TerminalOp, RMP!Op, RMP!TransitionOp, RMP!ArgsOf, Reports

\* A call without an argument.
LEMMA BeginPlain ==
  ASSUME RunInv, StaysResolved, NEW c \in Callers,
         NEW op \in RMP!TerminalOp \cup {"markStarted", "markSuspended", "markResumed"},
         RM!Begin(c, op, "none"), op = "markCompleted" => Resolved
  PROVE  RunInv'
  BY PlainOps, BeginRun

\* A call with one.
LEMMA BeginReport ==
  ASSUME RunInv, StaysResolved, NEW c \in Callers, NEW op \in {"bindSession", "markRunning"},
         NEW st \in SessionState, RM!Begin(c, op, st)
  PROVE  RunInv'
  BY PlainOps, BeginRun

-------------------------------------------------------------------------------
(* Every step keeps the invariant. *)

\* The agents and the clock of the runtime.
LEMMA AgentsKeep == ASSUME IInv, Agents PROVE IInv'
  <1>1. WatchInv' /\ StaysResolved
    <2>1. CASE Suspend \/ Resume \/ Cancel
      BY <2>1, RequestMoves DEF IInv
    <2>2. CASE ~(Suspend \/ Resume \/ Cancel)
      <3>1. \E st \in SessionState, type \in EventTypes : MoveSession(st, type) /\ ~Resolved
        BY <2>2 DEF Agents, SessionState, EventTypes, Resolved
      <3> QED  BY <3>1, SessionMoves DEF IInv
    <2> QED  BY <2>1, <2>2
  <1>2. UNCHANGED <<rmVars, cons, exec, disc, ui>>
    BY DEF Agents
  <1>3. RunInv'
    BY <1>1, <1>2, IdleRun DEF IInv
  <1> QED  BY <1>1, <1>2, <1>3, ActorsKeep DEF IInv

\* A step of the consumer.
LEMMA ConsKeeps ==
  ASSUME IInv, RunInv' /\ ConsInv', UNCHANGED <<session, watch, exec, disc, ui>>
  PROVE  IInv'
  BY WatchShrinks, ActorsKeep DEF IInv

\* The consumer takes a snapshot that is true now, writes it, and ends the run
\* by what it holds.
LEMMA ConsStepKeeps == ASSUME IInv, ConsStep \/ ConsEnds PROVE IInv'
  <1>1. UNCHANGED <<session, watch, exec, disc, ui>> /\ StaysResolved
    BY DEF ConsStep, ConsEnds, runtimeVars, discVars, StaysResolved, Resolved
  <1>2. /\ cons \in [mode : ConsModes, st : Seen, retries : Int, aborted : BOOLEAN]
        /\ Truthful(cons.st) /\ (cons.mode = "persist" => cons.st \in SessionState)
        /\ session \in Seen
    BY DEF IInv, ConsInv, WatchInv
  <1>3. Off \in [mode : ConsModes, st : Seen, retries : Int, aborted : BOOLEAN]
        /\ Off.st = "none" /\ Off.mode = "off"
    BY DEF Off, ConsModes, Seen
  <1>4. ASSUME cons' \in [mode : ConsModes, st : Seen, retries : Int, aborted : BOOLEAN],
               cons'.st \in {cons.st, "none"}, cons'.mode # "persist"
        PROVE  ConsInv'
    BY <1>1, <1>2, <1>4 DEF ConsInv, Truthful, Resolved
  <1>5. CASE ConsCommitment
    <2>1. /\ RM!AppendCanonical([type |-> "decision.finalized", data |-> "none"])
          /\ UNCHANGED <<row, rowKey, sessionRow, fired, call, cons>>
      BY <1>5 DEF ConsCommitment, RM!Ingest
    <2>2. sessionRow' \in SessionState \cup {"none"}
      BY <2>1, CallerFacts DEF IInv, RunInv, RMP!IInv, RMP!TypeOK
    <2>3. RunInv'
      BY <1>1, <2>1, <2>2, AppendRun DEF IInv
    <2> QED  BY <1>1, <2>1, <2>3, ActorsKeep, ConsKeeps DEF IInv
  <1>6. CASE ConsStreamEnds
    <2>1. cons' \in [mode : ConsModes, st : Seen, retries : Int, aborted : BOOLEAN]
          /\ cons'.st \in {cons.st, "none"} /\ cons'.mode # "persist"
      BY <1>2, <1>3, <1>6 DEF ConsStreamEnds, ConsModes
    <2> QED  BY <1>1, <1>4, <1>6, <2>1, IdleRun, ConsKeeps DEF ConsStreamEnds, IInv
  <1>7. CASE ConsPoll
    <2>1. CASE session # "none" /\ cons' = [cons EXCEPT !.mode = "persist", !.st = session]
      <3>1. session \in SessionState
        BY <1>2, <2>1 DEF Seen
      <3>2. cons' \in [mode : ConsModes, st : Seen, retries : Int, aborted : BOOLEAN]
            /\ cons'.st = session
        BY <1>2, <2>1 DEF ConsModes
      <3>3. ConsInv'
        BY <1>1, <3>1, <3>2 DEF ConsInv, Truthful, Resolved
      <3> QED  BY <1>1, <1>7, <3>3, IdleRun, ConsKeeps DEF ConsPoll, IInv
    <2>2. CASE cons' = Off \/ cons' = [cons EXCEPT !.mode = "retry"]
      <3>1. cons' \in [mode : ConsModes, st : Seen, retries : Int, aborted : BOOLEAN]
            /\ cons'.st \in {cons.st, "none"} /\ cons'.mode # "persist"
        BY <1>2, <1>3, <2>2 DEF ConsModes
      <3> QED  BY <1>1, <1>4, <1>7, <3>1, IdleRun, ConsKeeps DEF ConsPoll, IInv
    <2> QED  BY <1>7, <2>1, <2>2 DEF ConsPoll
  <1>8. CASE ConsPersist
    <2>1. cons.st \in SessionState /\ UNCHANGED <<row, rowKey, fired, call>>
      BY <1>2, <1>8 DEF ConsPersist
    <2>2. cons' \in [mode : ConsModes, st : Seen, retries : Int, aborted : BOOLEAN]
          /\ cons'.st \in {cons.st, "none"} /\ cons'.mode # "persist"
      BY <1>2, <1>8 DEF ConsPersist, ConsModes
    <2>3. sessionRow' \in SessionState \cup {"none"}
      BY <1>8, <2>1, CallerFacts DEF ConsPersist, IInv, RunInv, RMP!IInv, RMP!TypeOK
    <2>4. CASE RM!AppendCanonical([type |-> "session.state.changed", data |-> cons.st])
      <3>1. RunInv'
        BY <1>1, <2>1, <2>3, <2>4, AppendRun DEF IInv
      <3> QED  BY <1>1, <1>4, <2>2, <3>1, ConsKeeps
    <2>5. CASE UNCHANGED <<outcomes, proj, sessionRow>>
      <3>1. RunInv'
        BY <1>1, <2>1, <2>5, IdleRun DEF IInv, rmVars
      <3> QED  BY <1>1, <1>4, <2>2, <3>1, ConsKeeps
    <2> QED  BY <1>8, <2>4, <2>5 DEF ConsPersist
  <1>9. CASE ConsRetry
    <2>1. cons' \in {Off, [cons EXCEPT !.mode = "poll", !.retries = @ + 1],
                     [cons EXCEPT !.mode = "finalize", !.st = "none"]}
      BY <1>9 DEF ConsRetry
    <2>2. [cons EXCEPT !.mode = "poll", !.retries = @ + 1]
            \in [mode : ConsModes \ {"persist"}, st : {cons.st}, retries : Int, aborted : BOOLEAN]
      <3>1. cons.retries + 1 \in Int
        BY <1>2
      <3> DEFINE n == cons.retries + 1
      <3> HIDE DEF n
      <3>2. [cons EXCEPT !.mode = "poll", !.retries = n]
              \in [mode : ConsModes \ {"persist"}, st : {cons.st}, retries : Int, aborted : BOOLEAN]
        BY <1>2, <3>1 DEF ConsModes, n
      <3> QED  BY <3>2 DEF n
    <2>3. [cons EXCEPT !.mode = "finalize", !.st = "none"]
            \in [mode : ConsModes \ {"persist"}, st : {"none"}, retries : Int, aborted : BOOLEAN]
      BY <1>2 DEF ConsModes
    <2>4. cons' \in [mode : ConsModes, st : Seen, retries : Int, aborted : BOOLEAN]
          /\ cons'.st \in {cons.st, "none"} /\ cons'.mode # "persist"
      BY <1>2, <1>3, <2>1, <2>2, <2>3 DEF Seen
    <2> QED  BY <1>1, <1>4, <1>9, <2>4, IdleRun, ConsKeeps DEF ConsRetry, IInv
  <1>10. CASE ConsFinalize
    <2>1. cons' \in [mode : ConsModes, st : Seen, retries : Int, aborted : BOOLEAN]
          /\ cons'.st \in {cons.st, "none"} /\ cons'.mode # "persist"
      BY <1>2, <1>10 DEF ConsFinalize, ConsModes
    <2>2. RunInv'
      BY <1>1, <1>2, <1>10, CallerFacts, FinalOpFacts, BeginPlain DEF ConsFinalize, IInv
    <2> QED  BY <1>1, <1>4, <2>1, <2>2, ConsKeeps
  <1>11. CASE ConsFinalized
    BY <1>1, <1>3, <1>4, <1>11, IdleRun, ConsKeeps DEF ConsFinalized, IInv
  <1> QED  BY <1>5, <1>6, <1>7, <1>8, <1>9, <1>10, <1>11 DEF ConsStep, ConsEnds

\* The marker of a consumer that starts holds no snapshot.
LEMMA StartKeeps ==
  ASSUME ConsInv, StaysResolved, NEW mode \in {"stream", "poll"}, StartConsumer(mode)
  PROVE  ConsInv'
  <1>1. CASE cons.mode = "off"
    <2>1. cons' = [mode |-> mode, st |-> "none", retries |-> 0, aborted |-> FALSE]
      BY <1>1 DEF StartConsumer, Off
    <2> QED  BY <2>1 DEF ConsInv, ConsModes, Seen, Truthful
  <1>2. CASE cons.mode # "off"
    BY <1>2, ActorsKeep DEF StartConsumer
  <1> QED  BY <1>1, <1>2

\* A launch moves on.
LEMMA ExecMoves ==
  ASSUME ExecInv, NEW l \in Launchers, NEW pc \in ExecPcs, ExecTo(l, pc),
         pc \in {"bind", "run"} => exec[l].st \in SessionState
  PROVE  ExecInv'
  <1>1. exec' = [exec EXCEPT ![l] = [exec[l] EXCEPT !.pc = pc]]
        /\ exec \in [Launchers -> [pc : ExecPcs, st : Seen]]
    BY DEF ExecTo, ExecInv
  <1>2. exec' \in [Launchers -> [pc : ExecPcs, st : Seen]]
    BY <1>1
  <1>3. /\ exec'[l].pc = pc /\ exec'[l].st = exec[l].st
        /\ \A k \in Launchers \ {l} : exec'[k] = exec[k]
    BY <1>1
  <1> QED  BY <1>2, <1>3 DEF ExecInv

\* A launch binds the run with the state it has seen and asks for nothing else
\* but its failure.
LEMMA ExecKeeps == ASSUME IInv, NEW l \in Launchers, Post(l) \/ ExecStep(l) PROVE IInv'
  <1>1. UNCHANGED <<session, watch, disc, ui>> /\ StaysResolved /\ l \in Callers
    BY CallerFacts DEF Post, ExecStep, runtimeVars, discVars, StaysResolved, Resolved
  <1>2. ASSUME RunInv', ExecInv', ConsInv' PROVE IInv'
    BY <1>1, <1>2, WatchShrinks, ActorsKeep DEF IInv
  <1>3. UNCHANGED cons => ConsInv'
    BY <1>1, ActorsKeep DEF IInv
  <1>4. UNCHANGED rmVars => RunInv'
    BY <1>1, IdleRun DEF IInv
  <1>5. ASSUME NEW pc \in ExecPcs \ {"bind", "run"}, ExecTo(l, pc) PROVE ExecInv'
    BY <1>5, ExecMoves DEF IInv
  <1>6. CASE Launch(l)
    <2>1. RunInv'
      BY <1>1, <1>6, PlainOps, BeginRun DEF Launch, IInv
    <2> QED  BY <1>2, <1>3, <1>5, <1>6, <2>1 DEF Launch, ExecPcs
  <1>7. CASE ExecStart(l)
    <2>1. RunInv'
      BY <1>1, <1>4, <1>7, BeginPlain DEF ExecStart, IInv
    <2> QED  BY <1>2, <1>3, <1>5, <1>7, <2>1 DEF ExecStart, ExecPcs
  <1>8. CASE ExecInitialize(l) \/ ExecGiveUp(l) \/ ExecArtifact(l) \/ ExecFailed(l)
    BY <1>2, <1>3, <1>4, <1>5, <1>8 DEF ExecInitialize, ExecGiveUp, ExecArtifact, ExecFailed,
       ExecPcs
  <1>9. CASE ExecBind(l)
    <2>1. session \in SessionState
      BY <1>9 DEF ExecBind, SessionState
    <2>2. RunInv'
      BY <1>1, <1>9, <2>1, BeginReport DEF ExecBind, IInv
    <2>3. exec' = [exec EXCEPT ![l] = [pc |-> "bind", st |-> session]]
          /\ exec \in [Launchers -> [pc : ExecPcs, st : Seen]]
          /\ \A k \in Launchers : exec[k].pc \in {"bind", "run"} => exec[k].st \in SessionState
      BY <1>9 DEF ExecBind, IInv, ExecInv
    <2>4. ExecInv'
      BY <2>1, <2>3 DEF ExecInv, Seen, ExecPcs
    <2> QED  BY <1>2, <1>3, <1>9, <2>2, <2>4 DEF ExecBind
  <1>10. CASE ExecMarkRunning(l)
    <2>1. exec[l].st \in SessionState
      BY <1>10 DEF ExecMarkRunning, IInv, ExecInv
    <2>2. RunInv'
      BY <1>1, <1>4, <1>10, <2>1, BeginReport DEF ExecMarkRunning, IInv
    <2>3. ExecInv'
      BY <1>10, <2>1, ExecMoves DEF ExecMarkRunning, IInv, ExecPcs
    <2> QED  BY <1>2, <1>3, <1>10, <2>2, <2>3 DEF ExecMarkRunning
  <1>11. CASE ExecAttach(l)
    <2>1. ConsInv'
      BY <1>1, <1>3, <1>11, StartKeeps DEF ExecAttach, IInv
    <2> QED  BY <1>2, <1>4, <1>5, <1>11, <2>1 DEF ExecAttach, ExecPcs
  <1>12. CASE ExecFail(l)
    <2>1. RunInv'
      BY <1>1, <1>12, BeginPlain DEF ExecFail, IInv, RMP!TerminalOp
    <2> QED  BY <1>2, <1>3, <1>5, <1>12, <2>1 DEF ExecFail, ExecPcs
  <1> QED  BY <1>6, <1>7, <1>8, <1>9, <1>10, <1>11, <1>12 DEF Post, ExecStep

\* Discovery acts on events that are true of a session that is over, however
\* late it takes them.
LEMMA EventOpFacts ==
  ASSUME NEW ev \in [type : EventTypes, st : SessionState], Truthful(ev.st), ev.type # "created"
  PROVE  /\ EventOp(ev) \in RMP!TerminalOp \cup {"markStarted", "markSuspended", "markResumed"}
         /\ EventOp(ev) = "markCompleted" => Resolved
  BY FinalOpFacts DEF EventOp

\* Reconciling completes a run only for a resolved session.
LEMMA ReconcileOpFacts ==
  ASSUME NEW state \in SessionState, Truthful(state), NEW st, ReconcileOp(state, st) # "none"
  PROVE  /\ ReconcileOp(state, st) \in RMP!TerminalOp \cup {"markStarted", "markSuspended", "markResumed"}
         /\ ReconcileOp(state, st) = "markCompleted" => Resolved
  BY FinalOpFacts DEF ReconcileOp

\* The state of the session discovery holds on to is that of its event.
LEMMA DiscMoves ==
  ASSUME DiscInv, \/ disc' = Quiet
                  \/ \E pc \in DiscPcs, st \in SessionState : disc' = [pc |-> pc, st |-> st]
                  \/ disc.pc # "idle" /\ \E pc \in DiscPcs : DiscTo(pc)
  PROVE  DiscInv'
  <1>1. CASE disc' = Quiet
    BY <1>1 DEF Quiet, DiscInv, DiscPcs, Seen
  <1>2. ASSUME NEW pc \in DiscPcs, NEW st \in SessionState, disc' = [pc |-> pc, st |-> st]
        PROVE  DiscInv'
    BY <1>2 DEF DiscInv, Seen
  <1>3. ASSUME disc.pc # "idle", NEW pc \in DiscPcs, DiscTo(pc) PROVE DiscInv'
    BY <1>3 DEF DiscInv, DiscTo
  <1> QED  BY <1>1, <1>2, <1>3

\* A handler of the watch.
LEMMA DiscTakeKeeps == ASSUME IInv, DiscTake, session' = session PROVE RunInv' /\ DiscInv'
  <1> DEFINE ev == Head(watch.q)
  <1>1. ev \in [type : EventTypes, st : SessionState] /\ Truthful(ev.st)
    BY HeadEvent DEF DiscTake, IInv
  <1>2. StaysResolved /\ "discovery" \in Callers
    BY CallerFacts DEF StaysResolved, Resolved
  <1>3. UNCHANGED <<rmVars, disc>> => RunInv' /\ DiscInv'
    BY <1>2, IdleRun, ActorsKeep DEF IInv
  <1>4. DiscReconcile(ev) \/ DiscCreate(ev) \/ DiscApply(ev)
    BY DEF DiscTake
  <1> HIDE DEF ev
  <1>5. CASE DiscReconcile(ev)
    <2>1. CASE ReconcileOp(ev.st, row) = "none"
      BY <1>3, <1>5, <2>1 DEF DiscReconcile
    <2>2. CASE ReconcileOp(ev.st, row) # "none"
      <3>1. RM!Begin("discovery", ReconcileOp(ev.st, row), "none")
            /\ disc' = [pc |-> "reconcile", st |-> ev.st]
        BY <1>5, <2>2 DEF DiscReconcile
      <3>2. RunInv'
        BY <1>1, <1>2, <2>2, <3>1, ReconcileOpFacts, BeginPlain DEF IInv
      <3> QED  BY <1>1, <3>1, <3>2, DiscMoves DEF IInv, DiscPcs
    <2> QED  BY <2>1, <2>2
  <1>6. CASE DiscCreate(ev)
    <2>1. CASE known
      BY <1>3, <1>6, <2>1 DEF DiscCreate
    <2>2. CASE ~known
      <3>1. RM!Begin("discovery", "createRun", "nokey") /\ disc' = [pc |-> "create", st |-> ev.st]
        BY <1>6, <2>2 DEF DiscCreate
      <3>2. RunInv'
        BY <1>2, <3>1, PlainOps, BeginRun DEF IInv
      <3> QED  BY <1>1, <3>1, <3>2, DiscMoves DEF IInv, DiscPcs
    <2> QED  BY <2>1, <2>2
  <1>7. CASE DiscApply(ev)
    <2>1. CASE row \notin RunStatus \/ row \in Terminal
      BY <1>3, <1>7, <2>1 DEF DiscApply
    <2>2. CASE ~(row \notin RunStatus \/ row \in Terminal)
      <3>1. /\ RM!Begin("discovery", EventOp(ev), "none") /\ disc' = [pc |-> "mark", st |-> ev.st]
            /\ ev.type # "created"
        BY <1>7, <2>2 DEF DiscApply
      <3>2. RunInv'
        BY <1>1, <1>2, <3>1, EventOpFacts, BeginPlain DEF IInv
      <3> QED  BY <1>1, <3>1, <3>2, DiscMoves DEF IInv, DiscPcs
    <2> QED  BY <2>1, <2>2
  <1> QED  BY <1>4, <1>5, <1>6, <1>7

\* A connection opens with the session as it is.
LEMMA ConnectKeeps == ASSUME IInv, WatchConnect, session' = session PROVE WatchInv'
  <1> DEFINE E == [type : EventTypes, st : SessionState]
             ev == LifecycleEvent("created", session)
             q == IF session = "none" THEN <<>> ELSE <<ev>>
  <1>1. watch \in [up : BOOLEAN, q : Seq(E)] /\ session \in Seen
    BY DEF IInv, WatchInv
  <1>2. watch' = [watch EXCEPT !.up = TRUE, !.q = q]
    BY DEF WatchConnect
  <1>3. CASE session = "none"
    <2>1. q = <<>> /\ q \in Seq(E) /\ Len(q) = 0
      BY <1>3
    <2> HIDE DEF q, E
    <2>2. watch' \in [up : BOOLEAN, q : Seq(E)] /\ watch'.q = q
      BY <1>1, <1>2, <2>1
    <2> QED  BY <1>1, <2>1, <2>2 DEF WatchInv, E
  <1>4. CASE session # "none"
    <2>1. ev \in E /\ ev.st = session
      BY <1>1, <1>4 DEF LifecycleEvent, Seen, EventTypes
    <2> HIDE DEF ev, E
    <2>2. q = <<ev>> /\ q \in Seq(E) /\ Len(q) = 1 /\ q[1] = ev
      BY <1>4, <2>1
    <2> HIDE DEF q
    <2>3. watch' \in [up : BOOLEAN, q : Seq(E)] /\ watch'.q = q
      BY <1>1, <1>2, <2>2
    <2>4. \A i \in 1 .. Len(watch'.q) : watch'.q[i].st = session
      BY <2>1, <2>2, <2>3
    <2> QED  BY <1>1, <2>3, <2>4 DEF WatchInv, Truthful, Resolved, E
  <1> QED  BY <1>3, <1>4

\* Every step of discovery.
LEMMA DiscKeeps == ASSUME IInv, DiscStep \/ DiscFault PROVE IInv'
  <1>1. UNCHANGED <<session, exec, ui>> /\ StaysResolved /\ "discovery" \in Callers
    BY CallerFacts DEF DiscStep, DiscFault, runtimeVars, StaysResolved, Resolved
  <1>2. ASSUME RunInv', WatchInv', ConsInv', DiscInv' PROVE IInv'
    BY <1>1, <1>2, ActorsKeep DEF IInv
  <1>3. /\ UNCHANGED cons => ConsInv'
        /\ UNCHANGED disc => DiscInv'
    BY <1>1, ActorsKeep DEF IInv
  <1>4. UNCHANGED rmVars => RunInv'
    BY <1>1, IdleRun DEF IInv
  <1>5. \/ watch' = watch
        \/ watch.q # <<>> /\ watch' = [watch EXCEPT !.q = Tail(@)]
        \/ Lost
        => WatchInv'
    BY <1>1, WatchShrinks DEF IInv
  <1>6. disc' = Quiet => DiscInv'
    BY DiscMoves DEF IInv
  <1>7. CASE WatchConnect
    BY <1>1, <1>2, <1>3, <1>4, <1>7, ConnectKeeps DEF WatchConnect
  <1>8. CASE WatchBreak
    BY <1>2, <1>3, <1>4, <1>5, <1>8 DEF WatchBreak
  <1>9. CASE DiscLookupFails
    BY <1>2, <1>3, <1>4, <1>5, <1>9 DEF DiscLookupFails
  <1>10. CASE DiscTake
    <2>1. WatchInv'
      BY <1>5, <1>10 DEF DiscTake
    <2> QED  BY <1>1, <1>2, <1>3, <1>10, <2>1, DiscTakeKeeps DEF DiscTake
  <1>11. CASE DiscDrive
    <2>1. disc.pc # "idle" => disc.st \in SessionState
      BY DEF IInv, DiscInv
    <2>2. RunInv'
      BY <1>1, <1>11, <2>1, BeginPlain, BeginReport DEF DiscDrive, IInv, SessionState
    <2>3. DiscInv'
      BY <1>11, DiscMoves DEF DiscDrive, IInv, DiscPcs
    <2> QED  BY <1>2, <1>3, <1>5, <1>11, <2>2, <2>3 DEF DiscDrive
  <1>12. CASE DiscSubscribe
    <2>1. ConsInv'
      BY <1>1, <1>12, StartKeeps DEF DiscSubscribe, IInv
    <2> QED  BY <1>2, <1>4, <1>5, <1>6, <1>12, <2>1 DEF DiscSubscribe
  <1>13. CASE DiscDone
    BY <1>2, <1>3, <1>4, <1>5, <1>6, <1>13 DEF DiscDone
  <1> QED  BY <1>7, <1>8, <1>9, <1>10, <1>11, <1>12, <1>13 DEF DiscStep, DiscFault

\* The recovery sweep promotes a bound run, resumes its stream, or fails it.
LEMMA RecKeeps == ASSUME IInv, RecStep PROVE IInv'
  <1>1. UNCHANGED <<session, watch, exec, disc, ui>> /\ StaysResolved /\ "recovery" \in Callers
    BY CallerFacts DEF RecStep, runtimeVars, discVars, StaysResolved, Resolved
  <1>2. ASSUME RunInv', ConsInv' PROVE IInv'
    BY <1>1, <1>2, WatchShrinks, ActorsKeep DEF IInv
  <1>3. UNCHANGED cons => ConsInv'
    BY <1>1, ActorsKeep DEF IInv
  <1>4. UNCHANGED rmVars => RunInv'
    BY <1>1, IdleRun DEF IInv
  <1>5. CASE RecScan
    <2>1. RunInv'
      BY <1>1, <1>4, <1>5, BeginReport DEF RecScan, IInv, SessionState
    <2> QED  BY <1>2, <1>3, <1>5, <2>1 DEF RecScan
  <1>6. CASE RecPromoted
    BY <1>2, <1>3, <1>4, <1>6 DEF RecPromoted
  <1>7. CASE RecResume
    <2>1. ConsInv'
      BY <1>1, <1>3, <1>7, StartKeeps DEF RecResume, IInv
    <2> QED  BY <1>2, <1>4, <1>7, <2>1 DEF RecResume
  <1>8. CASE RecFail
    <2>1. RunInv'
      BY <1>1, <1>4, <1>8, BeginPlain DEF RecFail, IInv, RMP!TerminalOp
    <2> QED  BY <1>2, <1>3, <1>8, <2>1 DEF RecFail
  <1> QED  BY <1>5, <1>6, <1>7, <1>8 DEF RecStep

\* A request moves on, or is over.
LEMMA UiMoves ==
  ASSUME UiInv, NEW u \in Uis,
         \/ ui' = [ui EXCEPT ![u] = NoRequest]
         \/ ui[u].pc # "idle" /\ \E pc \in UiPcs : UiTo(u, pc)
         \/ \E op \in UiOps : ui' = [ui EXCEPT ![u] = [op |-> op, pc |-> "ask"]]
  PROVE  UiInv'
  <1> DEFINE Ops == {"none", "cancel", "suspend", "resume"}
  <1>1. /\ ui \in [Uis -> [op : Ops, pc : UiPcs]]
        /\ \A v \in Uis : ui[v].pc # "idle" => ui[v].op \in {"cancel", "suspend", "resume"}
    BY DEF UiInv
  <1>2. ASSUME NEW r \in [op : Ops, pc : UiPcs], ui' = [ui EXCEPT ![u] = r],
               r.pc # "idle" => r.op \in {"cancel", "suspend", "resume"}
        PROVE  UiInv'
    BY <1>1, <1>2 DEF UiInv
  <1>3. CASE ui' = [ui EXCEPT ![u] = NoRequest]
    BY <1>2, <1>3 DEF NoRequest, UiPcs
  <1>4. ASSUME ui[u].pc # "idle", NEW pc \in UiPcs, UiTo(u, pc) PROVE UiInv'
    <2> DEFINE r == [ui[u] EXCEPT !.pc = pc]
    <2>1. ui' = [ui EXCEPT ![u] = r]
      BY <1>4 DEF UiTo
    <2>2. r \in [op : Ops, pc : UiPcs] /\ r.op = ui[u].op
      BY <1>1, <1>4
    <2> HIDE DEF r
    <2> QED  BY <1>1, <1>2, <1>4, <2>1, <2>2
  <1>5. ASSUME NEW op \in UiOps, ui' = [ui EXCEPT ![u] = [op |-> op, pc |-> "ask"]] PROVE UiInv'
    BY <1>2, <1>5, UiOpsAssumption DEF UiPcs
  <1> QED  BY <1>3, <1>4, <1>5

\* An operator's request never completes a run.
LEMMA UiKeeps == ASSUME IInv, NEW u \in Uis, Request(u) \/ UiStep(u) PROVE IInv'
  <1>1. UNCHANGED <<exec, disc>> /\ u \in Callers
    BY CallerFacts DEF Request, UiStep
  <1>2. ASSUME RunInv', WatchInv', StaysResolved, ConsInv', UiInv' PROVE IInv'
    BY <1>1, <1>2, ActorsKeep DEF IInv
  <1>3. UNCHANGED <<session, watch>> => WatchInv' /\ StaysResolved
    BY WatchShrinks DEF IInv
  <1>4. CASE Request(u)
    <2>1. UNCHANGED <<rmVars, cons, session, watch>> /\ StaysResolved /\ WatchInv'
      BY <1>3, <1>4 DEF Request, UiCheck
    <2>2. UiInv'
      BY <1>4, UiMoves DEF Request, UiCheck, IInv
    <2> QED  BY <1>2, <2>1, <2>2, IdleRun, ActorsKeep DEF IInv
  <1>5. CASE UiAsk(u)
    <2>1. WatchInv' /\ StaysResolved
      BY <1>3, <1>5, RequestMoves DEF UiAsk, IInv
    <2>2. UiInv'
      BY <1>5, UiMoves DEF UiAsk, IInv, UiPcs
    <2>3. UNCHANGED <<rmVars, cons>>
      BY <1>5 DEF UiAsk
    <2> QED  BY <1>2, <2>1, <2>2, <2>3, IdleRun, ActorsKeep DEF IInv
  <1>6. CASE UiMark(u)
    <2>1. UNCHANGED <<cons, session, watch>> /\ StaysResolved /\ WatchInv'
      BY <1>3, <1>6 DEF UiMark
    <2>2. ui[u].op \in {"cancel", "suspend", "resume"}
      BY <1>6 DEF UiMark, IInv, UiInv
    <2>3. \E op \in {"markCancelled", "markSuspended", "markResumed"} : RM!Begin(u, op, "none")
      BY <1>6, <2>2 DEF UiMark
    <2>4. RunInv'
      BY <1>1, <2>1, <2>3, BeginPlain DEF IInv, RMP!TerminalOp
    <2>5. UiInv'
      BY <1>6, UiMoves DEF UiMark, IInv, UiPcs
    <2> QED  BY <1>2, <2>1, <2>4, <2>5, ActorsKeep DEF IInv
  <1>7. CASE UiDone(u)
    <2>1. UNCHANGED <<rmVars, session, watch>> /\ StaysResolved /\ WatchInv'
      BY <1>3, <1>7 DEF UiDone
    <2>2. UiInv'
      BY <1>7, UiMoves DEF UiDone, IInv
    <2>3. cons' = cons \/ cons' = [cons EXCEPT !.aborted = TRUE]
      BY <1>7 DEF UiDone
    <2>4. cons' \in [mode : ConsModes, st : Seen, retries : Int, aborted : BOOLEAN]
          /\ cons'.st = cons.st /\ cons'.mode = cons.mode
      BY <2>3 DEF IInv, ConsInv
    <2>5. ConsInv'
      BY <2>1, <2>4 DEF IInv, ConsInv, Truthful, Resolved
    <2> QED  BY <1>2, <2>1, <2>2, <2>5, IdleRun DEF IInv
  <1> QED  BY <1>4, <1>5, <1>6, <1>7 DEF UiStep

\* A restart forgets what the actors knew.
LEMMA CrashKeeps == ASSUME IInv, Crash PROVE IInv'
  <1>1. /\ call' = [c \in Callers |-> RM!Idle]
        /\ UNCHANGED <<row, rowKey, sessionRow, outcomes, proj, fired, session>>
        /\ cons' = Off /\ disc' = Quiet /\ Lost
        /\ exec' = [l \in Launchers |-> IF exec[l].pc = "idle" THEN Quiet
                                         ELSE [pc |-> "done", st |-> "none"]]
        /\ ui' = [u \in Uis |-> NoRequest]
    BY DEF Crash, runtimeVars
  <1>2. WatchInv' /\ StaysResolved
    BY <1>1, WatchShrinks DEF IInv
  <1>3. RunInv'
    BY <1>1, <1>2, CrashRun DEF IInv
  <1>4. ConsInv'
    BY <1>1 DEF ConsInv, Off, ConsModes, Seen, Truthful
  <1>5. ExecInv'
    <2>1. \A l \in Launchers : exec'[l] = Quiet \/ exec'[l] = [pc |-> "done", st |-> "none"]
      BY <1>1
    <2>2. exec' \in [Launchers -> [pc : ExecPcs, st : Seen]]
      BY <1>1 DEF Quiet, ExecPcs, Seen
    <2> QED  BY <2>1, <2>2 DEF ExecInv, Quiet
  <1>6. DiscInv'
    BY <1>1, DiscMoves DEF IInv
  <1>7. UiInv'
    BY <1>1 DEF UiInv, NoRequest, UiPcs
  <1> QED  BY <1>2, <1>3, <1>4, <1>5, <1>6, <1>7 DEF IInv

\* The run manager works on its own.
LEMMA ManagerKeeps ==
  ASSUME IInv, NEW c \in Callers, ManagerStep(c) \/ ManagerThrow(c) PROVE IInv'
  <1>1. UNCHANGED <<session, watch, cons, exec, disc, ui>>
    BY DEF ManagerStep, ManagerThrow, runtimeVars, discVars
  <1>2. WatchInv' /\ StaysResolved
    BY <1>1, WatchShrinks DEF IInv
  <1>3. RunInv'
    BY <1>2, StepRun, ThrowRun DEF ManagerStep, ManagerThrow, IInv
  <1> QED  BY <1>1, <1>2, <1>3, ActorsKeep DEF IInv

\* The start satisfies the invariant, ...
LEMMA InitKeeps == Init => IInv
  <1> SUFFICES ASSUME Init PROVE IInv
    OBVIOUS
  <1>1. RunInv
    <2>1. RMP!Init
      BY SameConstants DEF Init, RM!Init, RMP!Init
    <2>2. RMP!IInv
      BY <2>1, CallerFacts, RMP!InitIInv
    <2> QED  BY <2>1, <2>2 DEF RMP!Init, RMP!Idle, RunInv
  <1>2. WatchInv
    BY DEF Init, WatchInv, Seen
  <1>3. ConsInv
    BY DEF Init, ConsInv, Off, ConsModes, Seen, Truthful
  <1>4. ExecInv
    BY DEF Init, ExecInv, Quiet, ExecPcs, Seen
  <1>5. DiscInv
    BY DEF Init, DiscInv, Quiet, DiscPcs, Seen
  <1>6. UiInv
    BY DEF Init, UiInv, UiPcs
  <1> QED  BY <1>1, <1>2, <1>3, <1>4, <1>5, <1>6 DEF IInv

\* ... and every step keeps it.
LEMMA NextKeeps == IInv /\ [Next]_vars => IInv'
  <1> SUFFICES ASSUME IInv, [Next]_vars PROVE IInv'
    OBVIOUS
  <1>1. CASE UNCHANGED vars
    <2>1. UNCHANGED <<rmVars, session, watch, cons, exec, disc, ui>>
      BY <1>1 DEF vars, runtimeVars, discVars
    <2>2. WatchInv' /\ StaysResolved
      BY <2>1, WatchShrinks DEF IInv
    <2> QED  BY <2>1, <2>2, IdleRun, ActorsKeep DEF IInv
  <1>2. ASSUME NEW l \in Launchers, Post(l) \/ ExecStep(l) PROVE IInv'
    BY <1>2, ExecKeeps
  <1>3. ASSUME NEW u \in Uis, Request(u) \/ UiStep(u) PROVE IInv'
    BY <1>3, UiKeeps
  <1>4. ASSUME NEW c \in Callers, ManagerStep(c) \/ ManagerThrow(c) PROVE IInv'
    BY <1>4, ManagerKeeps
  <1> QED  BY <1>1, <1>2, <1>3, <1>4, AgentsKeep, ConsStepKeeps, DiscKeeps, RecKeeps, CrashKeeps
       DEF Next

\* The inductive invariant holds in every behaviour of the control plane.
THEOREM Invariance == Spec => []IInv
  BY InitKeeps, NextKeeps, PTL DEF Spec

\* Whoever ends a run, the consumer, discovery, the executor, recovery or an
\* operator, and from however old a snapshot or event of the watch, through
\* faults and crashes: a run is completed only if its session resolved.
THEOREM CompletedMeansResolved == Spec => []CompletedIsResolved
  <1>1. IInv => CompletedIsResolved
    BY DEF IInv, RunInv, CompletedIsResolved, Resolved
  <1> QED  BY <1>1, Invariance, PTL

\* Nor is a completion announced in the event log or by webhook otherwise.
THEOREM NotifiedMeansResolved == Spec => []NotifiedCompletedIsResolved
  <1>1. ASSUME IInv PROVE NotifiedCompletedIsResolved
    <2>1. RM!Announced = RMP!Announced
      BY DEF RM!Announced, RMP!Announced
    <2>2. "completed" \in RMP!Announced => row = "completed"
      BY <1>1 DEF IInv, RunInv, RMP!IInv, RMP!OutcomeAgrees
    <2>3. /\ "markCompleted" \in RMP!TerminalOp /\ RMP!WebhookOf("markCompleted") = "run.completed"
          /\ RMP!Target("markCompleted") = "completed"
      BY DEF RMP!TerminalOp, RMP!WebhookOf, RMP!EventOf, RMP!Target
    <2>4. "run.completed" \in fired => row = "completed"
      BY <1>1, <2>3 DEF IInv, RunInv, RMP!IInv, RMP!WebhookOutcomeAgrees
    <2> QED  BY <1>1, <2>1, <2>2, <2>4 DEF NotifiedCompletedIsResolved, IInv, RunInv, Resolved
  <1> QED  BY <1>1, Invariance, PTL

-------------------------------------------------------------------------------
(* The refinement. *)

\* The two instances of the abstract run state machine are the same.
LEMMA SameAbstract ==
  /\ RM!Abstract!vars = RMP!Abstract!vars /\ RM!Abstract!vars' = RMP!Abstract!vars'
  /\ RM!Abstract!Next <=> RMP!Abstract!Next
  <1>1. RM!Abstract!vars = RMP!Abstract!vars /\ RM!Abstract!vars' = RMP!Abstract!vars'
    BY DEF RM!Abstract!vars, RMP!Abstract!vars, RM!Announced, RMP!Announced
  <1>2. RM!Abstract!RunStatus = RMP!Abstract!RunStatus
        /\ RM!Abstract!Terminal = RMP!Abstract!Terminal
        /\ RM!Abstract!VALID_TRANSITIONS = RMP!Abstract!VALID_TRANSITIONS
    BY DEF RM!Abstract!RunStatus, RMP!Abstract!RunStatus, RM!Abstract!Terminal,
       RMP!Abstract!Terminal, RM!Abstract!VALID_TRANSITIONS, RMP!Abstract!VALID_TRANSITIONS
  <1>3. RM!Announced = RMP!Announced /\ RM!Announced' = RMP!Announced'
    BY DEF RM!Announced, RMP!Announced
  <1>4. RM!Abstract!Next <=> RMP!Abstract!Next
    BY <1>2, <1>3 DEF RM!Abstract!Next, RMP!Abstract!Next, RM!Abstract!Create, RMP!Abstract!Create,
       RM!Abstract!Advance, RMP!Abstract!Advance, RM!Abstract!Announce, RMP!Abstract!Announce,
       RM!Abstract!Delete, RMP!Abstract!Delete
  <1> QED  BY <1>1, <1>4

\* An actor that calls the run manager, or waits for it, writes nothing itself;
\* a frame the consumer stores is no outcome.
LEMMA ActorsStutter ==
  ASSUME Next, ~ \E c \in Callers : ManagerStep(c)
  PROVE  UNCHANGED <<row, outcomes>>
  <1>1. UNCHANGED rmVars => UNCHANGED <<row, outcomes>>
    BY DEF rmVars
  <1>2. \A c, op, arg : RM!Begin(c, op, arg) => UNCHANGED <<row, outcomes>>
    BY DEF RM!Begin
  <1>3. \A st : RM!AppendCanonical([type |-> "session.state.changed", data |-> st])
                  => outcomes' = outcomes
    BY DEF RM!AppendCanonical, RM!TerminalEventType
  <1>4. RM!Ingest([type |-> "decision.finalized", data |-> "none"]) => UNCHANGED <<row, outcomes>>
    BY DEF RM!Ingest, RM!AppendCanonical, RM!TerminalEventType
  <1>5. CASE Agents \/ Crash
    BY <1>1, <1>5 DEF Agents, Crash
  <1>6. CASE ConsStep \/ ConsEnds
    <2>1. CASE ConsPersist
      BY <1>3, <2>1 DEF ConsPersist
    <2>2. CASE ~ConsPersist
      BY <1>1, <1>2, <1>4, <1>6, <2>2 DEF ConsStep, ConsEnds, ConsCommitment, ConsStreamEnds,
         ConsPoll, ConsRetry, ConsFinalize, ConsFinalized
    <2> QED  BY <2>1, <2>2
  <1>7. ASSUME NEW l \in Launchers, Post(l) \/ ExecStep(l) PROVE UNCHANGED <<row, outcomes>>
    BY <1>1, <1>2, <1>7 DEF Post, Launch, ExecStep, ExecStart, ExecInitialize, ExecBind, ExecGiveUp,
       ExecMarkRunning, ExecAttach, ExecArtifact, ExecFail, ExecFailed
  <1>8. CASE DiscStep \/ DiscFault
    BY <1>1, <1>2, <1>8 DEF DiscStep, DiscFault, WatchConnect, WatchBreak, DiscTake, DiscReconcile,
       DiscCreate, DiscApply, DiscLookupFails, DiscDrive, DiscSubscribe, DiscDone
  <1>9. CASE RecStep
    BY <1>1, <1>2, <1>9 DEF RecStep, RecScan, RecPromoted, RecResume, RecFail
  <1>10. ASSUME NEW u \in Uis, Request(u) \/ UiStep(u) PROVE UNCHANGED <<row, outcomes>>
    BY <1>1, <1>2, <1>10 DEF Request, UiCheck, UiStep, UiAsk, UiMark, UiDone
  <1>11. ASSUME NEW c \in Callers, ManagerThrow(c) PROVE UNCHANGED <<row, outcomes>>
    BY <1>11 DEF ManagerThrow, RM!Throw
  <1> QED  BY <1>5, <1>6, <1>7, <1>8, <1>9, <1>10, <1>11 DEF Next

\* Every step of the control plane is a step of the abstract run, or none.
LEMMA NextRefines == IInv /\ [Next]_vars => [RM!Abstract!Next]_(RM!Abstract!vars)
  <1> SUFFICES ASSUME IInv, [Next]_vars PROVE [RMP!Abstract!Next]_(RMP!Abstract!vars)
    BY SameAbstract
  <1>1. CASE UNCHANGED <<row, outcomes>>
    BY <1>1, CallerFacts, RMP!Stutters
  <1>2. ASSUME NEW c \in Callers, ManagerStep(c) PROVE [RMP!Abstract!Next]_(RMP!Abstract!vars)
    <2>1. RMP!Step(c)
      BY <1>2, SameStep DEF ManagerStep
    <2> QED  BY <2>1, CallerFacts, RMP!StepRefines DEF IInv, RunInv
  <1> QED  BY <1>1, <1>2, ActorsStutter DEF vars, rmVars

\* The start is a start of the abstract machine.
LEMMA InitRefines == Init => RM!Abstract!Init
  BY DEF Init, RM!Init, RM!Abstract!Init, RM!Announced

\* With every actor that moves it, and over faults and restarts, a run follows
\* the run state machine: VALID_TRANSITIONS is never left, a terminal status is
\* final, and only the recorded outcome is announced.
THEOREM Refinement == Spec => Refines
  BY InitRefines, NextRefines, Invariance, PTL DEF Spec, Refines, RM!Refines, RM!Abstract!Spec
===============================================================================
