--------------------------- MODULE RunManagerProofs ---------------------------
(***************************************************************************)
(* RunManager for any set of callers, with throws and crashes: its type,   *)
(* the agreement of announced and recorded outcomes, and the refinement of *)
(* RunStateMachine.                                                        *)
(***************************************************************************)
EXTENDS RunManager, SequenceTheorems, TLAPS

\* Which operations can stand at which step.
PcMatchesOp ==
  \A c \in Callers :
    /\ call[c].pc \in {"recheck", "upsert", "notify"} => call[c].op \in TransitionOp
    /\ call[c].pc = "update" => call[c].op \in TransitionOp \cup {"deleteRun"}
    /\ call[c].pc = "insert" => call[c].op = "createRun"
    /\ call[c].pc = "upsert" => call[c].op = "bindSession"
    /\ call[c].pc = "emit" => call[c].op \in TransitionOp \cup {"createRun"}
    /\ call[c].pc = "notify" => call[c].op \in NotifyingOp
    /\ call[c].op \in {"bindSession", "markRunning"} => call[c].arg \in SessionState
    /\ call[c].pc # "idle" => call[c].op \in Op

\* The inductive invariant.
IInv ==
  /\ TypeOK
  /\ PcMatchesOp
  /\ OutcomeAgrees
  /\ PendingOutcomeAgrees
  /\ PendingDeleteIsTerminal
  /\ WebhookOutcomeAgrees

-------------------------------------------------------------------------------

\* The event an operation emits is an event, and it is a terminal one exactly
\* for the operations that end the run, whose status it then carries.
LEMMA EventOfType ==
  ASSUME NEW op \in TransitionOp \cup {"createRun"}, NEW arg \in Arg,
         op \in {"bindSession", "markRunning"} => arg \in SessionState
  PROVE  /\ EventOf(op, arg) \in Event
         /\ EventOf(op, arg).type \in TerminalEventType <=> op \in TerminalOp
         /\ op \in TerminalOp => EventOf(op, arg).data = Target(op)
  BY DEF EventOf, Event, TransitionOp, TerminalOp, Arg, RunEventType,
         SessionEventType, TerminalEventType, Target, RunStatus, Terminal,
         SessionState

\* Folding any event into a status gives a status.
LEMMA ApplyStatusType ==
  ASSUME NEW ev \in Event, NEW st \in RunStatus
  PROVE  ApplyStatus(ev, st) \in RunStatus
  <1>1. CASE ev \in [type : RunEventType, data : RunStatus]
    BY <1>1 DEF ApplyStatus, RunEventType, SessionEventType
  <1>2. CASE ev \in [type : SessionEventType, data : SessionState]
    <2>1. ApplyStatus(ev, st) = StatusFromSession(ev.data, st)
      BY <1>2 DEF ApplyStatus, RunEventType, SessionEventType
    <2>2. StatusFromSession(ev.data, st) \in RunStatus
      BY <1>2 DEF StatusFromSession, SessionState, RunStatus, Terminal
    <2> QED  BY <2>1, <2>2
  <1>3. CASE ev \in [type : {"decision.finalized"}, data : {"none"}]
    BY <1>3 DEF ApplyStatus, RunEventType, SessionEventType, RunStatus, Terminal
  <1> QED  BY <1>1, <1>2, <1>3 DEF Event

\* Appending an outcome announces it and nothing else.
LEMMA AnnouncedAppend ==
  ASSUME NEW s \in Seq(Terminal), NEW o \in Terminal
  PROVE  {Append(s, o)[i] : i \in DOMAIN Append(s, o)}
           = {s[i] : i \in DOMAIN s} \cup {o}
  <1>1. /\ Append(s, o) \in Seq(Terminal)
        /\ Len(Append(s, o)) = Len(s) + 1
        /\ \A i \in 1 .. Len(s) : Append(s, o)[i] = s[i]
        /\ Append(s, o)[Len(s) + 1] = o
    BY AppendProperties
  <1>2. DOMAIN Append(s, o) = 1 .. Len(s) + 1 /\ DOMAIN s = 1 .. Len(s) /\ Len(s) \in Nat
    BY <1>1, LenProperties
  <1>3. \A i \in 1 .. Len(s) + 1 : i \in 1 .. Len(s) \/ i = Len(s) + 1
    BY <1>2
  <1>4. 1 .. Len(s) \subseteq 1 .. Len(s) + 1 /\ Len(s) + 1 \in 1 .. Len(s) + 1
    BY <1>2
  <1> QED  BY <1>1, <1>2, <1>3, <1>4

\* No status leaves Terminal, and every other transition target is a status.
LEMMA TransitionFacts ==
  /\ \A s \in Terminal, t \in RunStatus : s \notin ValidFrom(t)
  /\ \A op \in TransitionOp : Target(op) \in RunStatus
  /\ \A op \in TerminalOp : Target(op) \in Terminal
  /\ \A op \in TransitionOp : Target(op) \in Terminal => op \in TerminalOp
  BY DEF ValidFrom, VALID_TRANSITIONS, Terminal, RunStatus, TransitionOp,
         TerminalOp, Target
-------------------------------------------------------------------------------

\* No run, no event, no call: the invariant holds at the start.
LEMMA InitIInv == Init => IInv
  BY DEF Init, IInv, TypeOK, PcMatchesOp, OutcomeAgrees, Announced,
         PendingOutcomeAgrees, PendingDeleteIsTerminal, WebhookOutcomeAgrees,
         Idle, EmptyStatus, RunStatus, Arg, Pc, Result

\* A step that only moves calls, none of them to a step that owes the table
\* anything, keeps the invariant once it keeps the two facts about calls.
LEMMA CallOnly ==
  ASSUME IInv, UNCHANGED <<row, rowKey, sessionRow, outcomes, proj, fired>>,
         call' \in [Callers -> [op : Op \cup {"none"}, arg : Arg, pc : Pc, res : Result]],
         PcMatchesOp', PendingOutcomeAgrees', PendingDeleteIsTerminal'
  PROVE  IInv'
  BY DEF IInv, TypeOK, OutcomeAgrees, Announced, WebhookOutcomeAgrees

\* A call that begins owes nothing yet.
LEMMA BeginIInv ==
  ASSUME IInv, NEW c \in Callers, NEW op \in Op, NEW arg \in ArgsOf(op), Begin(c, op, arg)
  PROVE  IInv'
  <1> USE DEF Begin
  <1>1. arg \in Arg /\ FirstStep(op, arg) \in {"read", "insert", "update"}
    BY ReportsAssumption DEF ArgsOf, Arg, FirstStep, PreRead
  <1>2. call' \in [Callers -> [op : Op \cup {"none"}, arg : Arg, pc : Pc, res : Result]]
    BY <1>1 DEF IInv, TypeOK, Pc, Result
  <1>3. /\ FirstStep(op, arg) = "insert" => op = "createRun"
        /\ FirstStep(op, arg) = "update" => op \in TransitionOp /\ op # "deleteRun"
        /\ op \in {"bindSession", "markRunning"} => arg \in SessionState
    BY ReportsAssumption DEF FirstStep, PreRead, Op, TransitionOp, TerminalOp, ArgsOf
  <1>4. PcMatchesOp'
    BY <1>1, <1>3 DEF IInv, TypeOK, PcMatchesOp
  <1>5. PendingOutcomeAgrees' /\ PendingDeleteIsTerminal'
    BY <1>1, <1>3 DEF IInv, TypeOK, PendingOutcomeAgrees, PendingDeleteIsTerminal
  <1> QED  BY <1>2, <1>4, <1>5, CallOnly

\* An operation that settles owes nothing any more.
LEMMA SettleIInv ==
  ASSUME IInv, NEW c \in Callers, NEW res \in Result, Settle(c, res),
         UNCHANGED <<row, rowKey, sessionRow, outcomes, proj, fired>>
  PROVE  IInv'
  <1> USE DEF Settle, Idle
  <1>1. call' \in [Callers -> [op : Op \cup {"none"}, arg : Arg, pc : Pc, res : Result]]
    BY DEF IInv, TypeOK, Pc, Result, Arg
  <1>2. PcMatchesOp' /\ PendingOutcomeAgrees' /\ PendingDeleteIsTerminal'
    BY DEF IInv, TypeOK, PcMatchesOp, PendingOutcomeAgrees, PendingDeleteIsTerminal, TransitionOp,
           TerminalOp
  <1> QED  BY <1>1, <1>2, CallOnly

\* Moving on to a step is safe when the operation fits the step and the row
\* already is what the step will rely on.
LEMMA GotoIInv ==
  ASSUME IInv, NEW c \in Callers, NEW pc \in Pc, Goto(c, pc),
         UNCHANGED <<row, rowKey, sessionRow, outcomes, proj, fired>>,
         call[c].pc # "idle", PcMatchesOp',
         pc \in {"emit", "notify"} /\ call[c].op \in TerminalOp
           => row \in {Target(call[c].op), "deleted"},
         pc = "update" /\ call[c].op = "deleteRun" => row \in Terminal \cup {"deleted"}
  PROVE  IInv'
  <1> USE DEF Goto
  <1>1. call' \in [Callers -> [op : Op \cup {"none"}, arg : Arg, pc : Pc, res : Result]]
    BY DEF IInv, TypeOK
  <1>2. PendingOutcomeAgrees' /\ PendingDeleteIsTerminal'
    BY DEF IInv, TypeOK, PendingOutcomeAgrees, PendingDeleteIsTerminal
  <1> QED  BY <1>1, <1>2, CallOnly

\* The lookup by idempotency key only moves the call on.
LEMMA LookupIInv == ASSUME IInv, NEW c \in Callers, Lookup(c) PROVE IInv'
  <1>1. CASE row \in RunStatus /\ rowKey = "key"
    BY <1>1, SettleIInv DEF Lookup, Result
  <1>2. CASE ~(row \in RunStatus /\ rowKey = "key")
    <2>1. Goto(c, "insert") /\ UNCHANGED <<row, rowKey, sessionRow, outcomes, proj, fired>>
      BY <1>2 DEF Lookup
    <2>2. PcMatchesOp'
      BY <2>1 DEF Lookup, Goto, IInv, TypeOK, PcMatchesOp
    <2> QED  BY <2>1, <2>2, GotoIInv DEF Lookup, Pc
  <1> QED  BY <1>1, <1>2

\* getRun and the early returns: a delete goes on only over a terminal run.
LEMMA ReadIInv == ASSUME IInv, NEW c \in Callers, Read(c) PROVE IInv'
  <1>1. UNCHANGED <<row, rowKey, sessionRow, outcomes, proj, fired>>
    BY DEF Read
  <1>2. \/ \E res \in Result : Settle(c, res)
        \/ /\ Goto(c, "update")
           /\ call[c].op = "deleteRun" => row \in Terminal
    BY DEF Read, Result, DeletableFrom
  <1>3. CASE \E res \in Result : Settle(c, res)
    BY <1>1, <1>3, SettleIInv
  <1>4. CASE Goto(c, "update") /\ (call[c].op = "deleteRun" => row \in Terminal)
    <2>1. PcMatchesOp'
      BY <1>1, <1>4 DEF Read, Goto, IInv, TypeOK, PcMatchesOp, Op
    <2> QED  BY <1>1, <1>4, <2>1, GotoIInv DEF Read, Pc
  <1> QED  BY <1>2, <1>3, <1>4

\* Before a run ends, its log announces no outcome.
LEMMA NothingAnnounced ==
  ASSUME IInv, row \notin Terminal
  PROVE  Announced = {}
  <1>1. Announced \subseteq Terminal
    BY DEF IInv, TypeOK, Announced
  <1> QED  BY <1>1 DEF IInv, OutcomeAgrees

\* A new run is queued, and nothing has been announced of it.
LEMMA InsertIInv == ASSUME IInv, NEW c \in Callers, Insert(c) PROVE IInv'
  <1>1. CASE row = "absent" /\ row' = "queued" /\ Goto(c, "emit")
    <2>1. Announced = {}
      BY <1>1, NothingAnnounced DEF Terminal
    <2>2. call' \in [Callers -> [op : Op \cup {"none"}, arg : Arg, pc : Pc, res : Result]]
      BY <1>1 DEF Goto, IInv, TypeOK, Pc
    <2>3. TypeOK'
      BY <1>1, <2>2 DEF Insert, IInv, TypeOK, RunStatus
    <2>4. PcMatchesOp'
      BY <1>1 DEF Insert, Goto, IInv, TypeOK, PcMatchesOp
    <2>5. PendingOutcomeAgrees' /\ PendingDeleteIsTerminal'
      BY <1>1, TransitionFacts DEF Insert, Goto, IInv, TypeOK, PcMatchesOp,
         PendingOutcomeAgrees, PendingDeleteIsTerminal, TerminalOp, Terminal
    <2>6. OutcomeAgrees' /\ WebhookOutcomeAgrees'
      BY <1>1, <2>1, TransitionFacts DEF Insert, IInv, OutcomeAgrees, Announced,
         WebhookOutcomeAgrees, Terminal
    <2> QED  BY <2>3, <2>4, <2>5, <2>6 DEF IInv
  <1>2. CASE \E res \in Result : Settle(c, res) /\ UNCHANGED <<row, rowKey>>
    BY <1>2, SettleIInv DEF Insert
  <1> QED  BY <1>1, <1>2 DEF Insert, Result

\* The conditional UPDATE: whoever moves the row to a terminal status is owed an
\* announcement, and of that very status.
LEMMA UpdateIInv == ASSUME IInv, NEW c \in Callers, Update(c) PROVE IInv'
  <1> DEFINE op == call[c].op
  <1>1. op \in TransitionOp /\ op \in Op /\ AfterUpdate(op) \in {"upsert", "emit"}
    BY DEF Update, AfterUpdate, Op
  <1>2. CASE row \in ValidFrom(Target(op))
    <2>1. row' = Target(op) /\ Goto(c, AfterUpdate(op))
      BY <1>2 DEF Update
    <2>2. row \in RunStatus \ Terminal /\ Target(op) \in RunStatus
      BY <1>1, <1>2, TransitionFacts DEF ValidFrom
    <2>3. Announced = {}
      BY <2>2, NothingAnnounced
    <2>4. TypeOK'
      BY <1>1, <2>1, <2>2 DEF Update, Goto, IInv, TypeOK, Pc
    <2>5. PcMatchesOp'
      BY <1>1, <2>1 DEF Update, Goto, AfterUpdate, IInv, TypeOK, PcMatchesOp, TransitionOp
    <2>6. PendingOutcomeAgrees'
      <3>1. \A d \in Callers : call[d].pc \in {"emit", "notify"} => call[d].op \notin TerminalOp
        BY <2>2, TransitionFacts DEF IInv, PendingOutcomeAgrees, RunStatus, Terminal
      <3> QED  BY <3>1, <2>1 DEF PendingOutcomeAgrees, Goto, IInv, TypeOK
    <2>7. PendingDeleteIsTerminal'
      <3>1. \A d \in Callers : ~(call[d].pc = "update" /\ call[d].op = "deleteRun")
        BY <2>2 DEF IInv, PendingDeleteIsTerminal, RunStatus, Terminal
      <3> QED  BY <1>1, <3>1, <2>1 DEF PendingDeleteIsTerminal, Goto, IInv, TypeOK
    <2>8. OutcomeAgrees'
      BY <2>3 DEF Update, OutcomeAgrees, Announced
    <2>9. WebhookOutcomeAgrees'
      <3>1. \A o \in TerminalOp : WebhookOf(o) \notin fired
        BY <2>2, TransitionFacts DEF IInv, WebhookOutcomeAgrees, RunStatus, Terminal
      <3> QED  BY <3>1 DEF Update, WebhookOutcomeAgrees
    <2> QED  BY <2>4, <2>5, <2>6, <2>7, <2>8, <2>9 DEF IInv
  <1>3. CASE row \notin ValidFrom(Target(op))
    <2>1. Goto(c, "recheck") /\ UNCHANGED <<row, rowKey, sessionRow, outcomes, proj, fired>>
      BY <1>3 DEF Update
    <2>2. PcMatchesOp'
      BY <1>1, <2>1 DEF Goto, IInv, TypeOK, PcMatchesOp
    <2> QED  BY <2>1, <2>2, GotoIInv DEF Update, Pc
  <1> QED  BY <1>2, <1>3

\* The loser of a race announces only when the row is at its own target.
LEMMA RecheckIInv == ASSUME IInv, NEW c \in Callers, Recheck(c) PROVE IInv'
  <1> DEFINE op == call[c].op
  <1>1. op \in TransitionOp /\ AfterUpdate(op) \in {"upsert", "emit"}
    BY DEF Recheck, IInv, PcMatchesOp, AfterUpdate
  <1>2. UNCHANGED <<row, rowKey, sessionRow, outcomes, proj, fired>>
    BY DEF Recheck
  <1>3. CASE row = Target(op)
    <2>1. Goto(c, AfterUpdate(op))
      BY <1>1, <1>3, TransitionFacts DEF Recheck, RunStatus, Terminal
    <2>2. PcMatchesOp'
      BY <1>1, <1>2, <2>1 DEF Recheck, Goto, AfterUpdate, IInv, TypeOK, PcMatchesOp, Op
    <2> QED  BY <1>1, <1>2, <1>3, <2>1, <2>2, GotoIInv DEF Recheck, Pc
  <1>4. CASE row # Target(op)
    <2>1. \E res \in Result : Settle(c, res)
      BY <1>4 DEF Recheck, Result
    <2> QED  BY <1>2, <2>1, SettleIInv
  <1> QED  BY <1>3, <1>4

\* The runtime_sessions row touches neither status nor outcome.
LEMMA UpsertIInv == ASSUME IInv, NEW c \in Callers, Upsert(c) PROVE IInv'
  <1>1. CASE row = "deleted"
    BY <1>1, SettleIInv DEF Upsert, Result
  <1>2. CASE row # "deleted"
    <2>1. /\ sessionRow' = call[c].arg /\ Goto(c, "emit")
          /\ UNCHANGED <<row, rowKey, outcomes, proj, fired>>
      BY <1>2 DEF Upsert
    <2>2. call[c].op = "bindSession" /\ call[c].arg \in SessionState
      BY DEF Upsert, IInv, PcMatchesOp
    <2>3. TypeOK'
      BY <2>1, <2>2 DEF IInv, TypeOK, Goto, Pc
    <2>4. PcMatchesOp'
      BY <2>1, <2>2 DEF IInv, TypeOK, Goto, PcMatchesOp, TransitionOp
    <2>5. PendingOutcomeAgrees' /\ PendingDeleteIsTerminal'
      BY <2>1, <2>2 DEF IInv, TypeOK, Goto, PendingOutcomeAgrees,
         PendingDeleteIsTerminal, TerminalOp
    <2>6. OutcomeAgrees' /\ WebhookOutcomeAgrees'
      BY <2>1 DEF IInv, OutcomeAgrees, Announced, WebhookOutcomeAgrees
    <2> QED  BY <2>3, <2>4, <2>5, <2>6 DEF IInv
  <1> QED  BY <1>1, <1>2

\* One event transaction: types are kept, and the log announces one more
\* outcome exactly when the event is terminal.
LEMMA AppendCanonicalFacts ==
  ASSUME IInv, NEW ev \in Event, AppendCanonical(ev),
         ev.type \in TerminalEventType => ev.data \in Terminal
  PROVE  /\ outcomes' \in Seq(Terminal)
         /\ proj' \in RunStatus
         /\ ev.type \notin TerminalEventType => Announced' = Announced
         /\ ev.type \in TerminalEventType => Announced' = Announced \cup {ev.data}
  <1>1. outcomes \in Seq(Terminal) /\ proj \in RunStatus
    BY DEF IInv, TypeOK
  <1>2. proj' \in RunStatus
    BY <1>1, ApplyStatusType DEF AppendCanonical
  <1>3. CASE ev.type \in TerminalEventType
    <2>1. outcomes' = Append(outcomes, ev.data) /\ ev.data \in Terminal
      BY <1>3 DEF AppendCanonical
    <2>2. outcomes' \in Seq(Terminal)
      BY <1>1, <2>1, AppendProperties
    <2>3. Announced' = Announced \cup {ev.data}
      BY <1>1, <2>1, AnnouncedAppend DEF Announced
    <2> QED  BY <1>2, <1>3, <2>2, <2>3
  <1>4. CASE ev.type \notin TerminalEventType
    BY <1>1, <1>2, <1>4 DEF AppendCanonical, Announced
  <1> QED  BY <1>3, <1>4

\* What an Emit does while the run exists.
LEMMA EmitFacts ==
  ASSUME IInv, NEW c \in Callers, Emit(c), row # "deleted"
  PROVE  /\ outcomes' \in Seq(Terminal)
         /\ proj' \in RunStatus
         /\ call[c].op \notin TerminalOp => Announced' = Announced
         /\ call[c].op \in TerminalOp =>
              row \in Terminal /\ Announced' = Announced \cup {row}
  <1> DEFINE op == call[c].op
             ev == EventOf(op, call[c].arg)
  <1>1. /\ op \in TransitionOp \cup {"createRun"} /\ call[c].arg \in Arg
        /\ op \in {"bindSession", "markRunning"} => call[c].arg \in SessionState
    BY DEF Emit, IInv, TypeOK, PcMatchesOp
  <1>2. /\ ev \in Event
        /\ ev.type \in TerminalEventType <=> op \in TerminalOp
        /\ op \in TerminalOp => ev.data = Target(op)
    BY <1>1, EventOfType
  <1>3. op \in TerminalOp => Target(op) \in Terminal /\ row = Target(op)
    BY TransitionFacts DEF Emit, IInv, PendingOutcomeAgrees
  <1>4. AppendCanonical(ev)
    BY DEF Emit
  <1>5. ev.type \in TerminalEventType => ev.data \in Terminal
    BY <1>2, <1>3
  <1> HIDE DEF ev, op
  <1>6. /\ outcomes' \in Seq(Terminal)
        /\ proj' \in RunStatus
        /\ ev.type \notin TerminalEventType => Announced' = Announced
        /\ ev.type \in TerminalEventType => Announced' = Announced \cup {ev.data}
    BY <1>2, <1>4, <1>5, AppendCanonicalFacts
  <1> QED  BY <1>2, <1>3, <1>6 DEF op

\* The event transaction announces an outcome only if it is the row's.
LEMMA EmitIInv == ASSUME IInv, NEW c \in Callers, Emit(c) PROVE IInv'
  <1>1. CASE row = "deleted"
    BY <1>1, SettleIInv DEF Emit, Result
  <1>2. CASE row # "deleted"
    <2>1. UNCHANGED <<row, rowKey, sessionRow, fired>>
      BY DEF Emit
    <2>2. call' \in [Callers -> [op : Op \cup {"none"}, arg : Arg, pc : Pc, res : Result]]
      BY <1>2 DEF Emit, Goto, Settle, Idle, IInv, TypeOK, Pc, Result, Arg
    <2>3. TypeOK'
      BY <1>2, <2>1, <2>2, EmitFacts DEF IInv, TypeOK
    <2>4. PcMatchesOp'
      BY <1>2 DEF Emit, Goto, Settle, Idle, IInv, TypeOK, PcMatchesOp, NotifyingOp
    <2>5. PendingOutcomeAgrees' /\ PendingDeleteIsTerminal'
      <3>1. Goto(c, "notify") \/ Settle(c, "ok")
        BY <1>2 DEF Emit
      <3>2. \A d \in Callers \ {c} : call'[d] = call[d]
        BY <3>1 DEF Goto, Settle, IInv, TypeOK
      <3>3. \/ call'[c].pc = "idle"
            \/ call'[c].pc = "notify" /\ call'[c].op = call[c].op /\ call[c].pc = "emit"
        BY <3>1 DEF Emit, Goto, Settle, Idle, IInv, TypeOK
      <3> QED  BY <2>1, <3>2, <3>3 DEF IInv, PendingOutcomeAgrees, PendingDeleteIsTerminal
    <2>6. OutcomeAgrees'
      BY <1>2, <2>1, EmitFacts DEF IInv, OutcomeAgrees
    <2>7. WebhookOutcomeAgrees'
      BY <2>1 DEF IInv, WebhookOutcomeAgrees
    <2> QED  BY <2>3, <2>4, <2>5, <2>6, <2>7 DEF IInv
  <1> QED  BY <1>1, <1>2

\* Each operation that ends the run has a webhook event of its own.
LEMMA WebhookOfFacts ==
  /\ \A op \in NotifyingOp : WebhookOf(op) \in RunEventType
  /\ \A op \in NotifyingOp, t \in TerminalOp : WebhookOf(op) = WebhookOf(t) => op = t
  BY DEF WebhookOf, EventOf, NotifyingOp, TransitionOp, TerminalOp, RunEventType

\* The webhook names the row's status.
LEMMA NotifyIInv == ASSUME IInv, NEW c \in Callers, Notify(c) PROVE IInv'
  <1>1. call[c].op \in NotifyingOp
    BY DEF Notify, IInv, PcMatchesOp
  <1>2. fired' = fired \cup {WebhookOf(call[c].op)} /\ UNCHANGED <<row, rowKey, sessionRow, outcomes, proj>>
    BY DEF Notify
  <1>3. TypeOK'
    BY <1>1, <1>2, WebhookOfFacts DEF Notify, Settle, Idle, IInv, TypeOK, Pc, Result, Arg
  <1>4. PcMatchesOp' /\ PendingOutcomeAgrees' /\ PendingDeleteIsTerminal'
    BY <1>2 DEF Notify, Settle, Idle, IInv, TypeOK, PcMatchesOp, PendingOutcomeAgrees,
       PendingDeleteIsTerminal, TransitionOp, TerminalOp
  <1>5. OutcomeAgrees'
    BY <1>2 DEF IInv, OutcomeAgrees, Announced
  <1>6. WebhookOutcomeAgrees'
    <2> SUFFICES ASSUME row # "deleted", NEW t \in TerminalOp, WebhookOf(t) \in fired'
                 PROVE  row = Target(t)
      BY <1>2 DEF WebhookOutcomeAgrees
    <2>1. CASE WebhookOf(t) \in fired
      BY <2>1 DEF IInv, WebhookOutcomeAgrees
    <2>2. CASE WebhookOf(t) = WebhookOf(call[c].op)
      <3>1. call[c].op = t
        BY <1>1, <2>2, WebhookOfFacts
      <3> QED  BY <3>1 DEF Notify, IInv, PendingOutcomeAgrees
    <2> QED  BY <1>2, <2>1, <2>2
  <1> QED  BY <1>3, <1>4, <1>5, <1>6 DEF IInv

\* The DELETE finds a terminal run and takes its log along.
LEMMA DeleteIInv == ASSUME IInv, NEW c \in Callers, Delete(c) PROVE IInv'
  <1>1. CASE row = "deleted"
    BY <1>1, SettleIInv DEF Delete, durable, Result
  <1>2. CASE row # "deleted"
    <2>1. /\ row' = "deleted" /\ rowKey' = "none" /\ sessionRow' = "none" /\ outcomes' = <<>>
          /\ proj' = EmptyStatus /\ Settle(c, "ok") /\ fired' = fired
      BY <1>2 DEF Delete
    <2>2. TypeOK'
      BY <2>1 DEF IInv, TypeOK, Settle, Idle, EmptyStatus, RunStatus, Pc, Result, Arg
    <2>3. PcMatchesOp' /\ PendingOutcomeAgrees' /\ PendingDeleteIsTerminal'
      BY <2>1 DEF IInv, TypeOK, Settle, Idle, PcMatchesOp, PendingOutcomeAgrees,
         PendingDeleteIsTerminal, TransitionOp, TerminalOp
    <2>4. OutcomeAgrees' /\ WebhookOutcomeAgrees'
      BY <2>1 DEF OutcomeAgrees, Announced, WebhookOutcomeAgrees
    <2> QED  BY <2>2, <2>3, <2>4 DEF IInv
  <1> QED  BY <1>1, <1>2

\* Only the projection follows a frame of the session.
LEMMA IngestFacts ==
  ASSUME IInv, NEW ev \in Frame, Ingest(ev)
  PROVE  proj' \in RunStatus /\ UNCHANGED <<row, rowKey, sessionRow, outcomes, fired, call>>
  <1>1. ev \in Event /\ ev.type \notin TerminalEventType
    BY ReportsAssumption DEF Frame, Event, SessionEventType, TerminalEventType
  <1>2. outcomes' = outcomes
    BY <1>1 DEF Ingest, AppendCanonical
  <1>3. proj' \in RunStatus
    BY <1>1, ApplyStatusType DEF Ingest, AppendCanonical, IInv, TypeOK
  <1> QED  BY <1>2, <1>3 DEF Ingest

\* A frame of the session announces no outcome of the run.
LEMMA IngestIInv == ASSUME IInv, NEW ev \in Frame, Ingest(ev) PROVE IInv'
  BY IngestFacts DEF IInv, TypeOK, PcMatchesOp, OutcomeAgrees, Announced,
     PendingOutcomeAgrees, PendingDeleteIsTerminal, WebhookOutcomeAgrees

\* After a crash nothing is in flight and the tables are as they were.
LEMMA CrashIInv == ASSUME IInv, Crash PROVE IInv'
  <1>1. PcMatchesOp' /\ PendingOutcomeAgrees' /\ PendingDeleteIsTerminal'
    BY DEF Crash, Idle, PcMatchesOp, PendingOutcomeAgrees, PendingDeleteIsTerminal, TransitionOp,
       TerminalOp
  <1>2. call' \in [Callers -> [op : Op \cup {"none"}, arg : Arg, pc : Pc, res : Result]]
    BY DEF Crash, Idle, Arg, Pc, Result
  <1> QED  BY <1>1, <1>2, CallOnly DEF Crash

\* Every step keeps the invariant.
LEMMA NextIInv == IInv /\ [Next]_vars => IInv'
  <1> SUFFICES ASSUME IInv, [Next]_vars PROVE IInv'
    OBVIOUS
  <1>1. ASSUME NEW c \in Callers, NEW op \in Op, NEW arg \in ArgsOf(op), Begin(c, op, arg)
        PROVE  IInv'
    BY <1>1, BeginIInv
  <1>2. ASSUME NEW c \in Callers, Step(c) PROVE IInv'
    BY <1>2, LookupIInv, ReadIInv, InsertIInv, UpdateIInv, RecheckIInv, UpsertIInv,
       EmitIInv, NotifyIInv, DeleteIInv DEF Step
  <1>3. ASSUME NEW ev \in Frame, Ingest(ev) PROVE IInv'
    BY <1>3, IngestIInv
  <1>4. ASSUME NEW c \in Callers, Throw(c) PROVE IInv'
    BY <1>4, SettleIInv DEF Throw, Result
  <1>5. CASE Crash
    BY <1>5, CrashIInv
  <1>6. CASE UNCHANGED vars
    BY <1>6 DEF vars, IInv, TypeOK, PcMatchesOp, OutcomeAgrees, Announced,
       PendingOutcomeAgrees, PendingDeleteIsTerminal, WebhookOutcomeAgrees
  <1> QED  BY <1>1, <1>2, <1>3, <1>4, <1>5, <1>6 DEF Next

\* The inductive invariant holds throughout, for any set of callers.
THEOREM Invariance == Spec => []IInv
  BY InitIInv, NextIInv, PTL DEF Spec

\* RunManagerService and its tables keep their types, in any race of callers.
THEOREM TypeCorrect == Spec => []TypeOK
  <1>1. IInv => TypeOK  BY DEF IInv
  <1> QED  BY <1>1, Invariance, PTL

\* However markCompleted, markFailed and markCancelled race, and wherever the
\* process crashes, no terminal event contradicts the runs table.
THEOREM OutcomesAgree == Spec => []OutcomeAgrees
  <1>1. IInv => OutcomeAgrees  BY DEF IInv
  <1> QED  BY <1>1, Invariance, PTL

\* Nor does a terminal webhook.
THEOREM WebhooksAgree == Spec => []WebhookOutcomeAgrees
  <1>1. IInv => WebhookOutcomeAgrees  BY DEF IInv
  <1> QED  BY <1>1, Invariance, PTL

\* A delete that passed its check of the status still finds a terminal run.
THEOREM DeletesHitTerminalRuns == Spec => []PendingDeleteIsTerminal
  <1>1. IInv => PendingDeleteIsTerminal  BY DEF IInv
  <1> QED  BY <1>1, Invariance, PTL

-------------------------------------------------------------------------------
(* The refinement. *)

\* An absent run is an absent run.
LEMMA InitRefines == Init => Abstract!Init
  BY DEF Init, Abstract!Init, Announced

\* Steps that leave the row and the log of outcomes alone are stutters.
LEMMA Stutters ==
  ASSUME UNCHANGED <<row, outcomes>>
  PROVE  UNCHANGED Abstract!vars
  BY DEF Abstract!vars, Announced

\* Every database call of an operation is a step of the abstract run, or none.
LEMMA StepRefines ==
  ASSUME IInv, NEW c \in Callers, Step(c)
  PROVE  [Abstract!Next]_(Abstract!vars)
  <1> USE DEF Abstract!Next
  <1>1. CASE Lookup(c) \/ Read(c) \/ Recheck(c) \/ Upsert(c) \/ Notify(c)
    BY <1>1, Stutters DEF Lookup, Read, Recheck, Upsert, Notify
  <1>2. CASE Insert(c)
    BY <1>2, Stutters DEF Insert, Abstract!Create, Announced
  <1>3. CASE Update(c)
    <2>1. CASE row \in ValidFrom(Target(call[c].op))
      <3>1. row' = Target(call[c].op) /\ outcomes' = outcomes
        BY <1>3, <2>1 DEF Update
      <3>2. row \in RunStatus /\ row' \in VALID_TRANSITIONS[row]
        BY <2>1, <3>1 DEF ValidFrom
      <3>3. Abstract!Advance
        BY <3>1, <3>2 DEF Abstract!Advance, Announced, Abstract!VALID_TRANSITIONS,
           Abstract!RunStatus, Abstract!Terminal, VALID_TRANSITIONS, RunStatus, Terminal
      <3> QED  BY <3>3
    <2>2. CASE row \notin ValidFrom(Target(call[c].op))
      BY <1>3, <2>2, Stutters DEF Update
    <2> QED  BY <2>1, <2>2
  <1>4. CASE Emit(c)
    <2>1. CASE row = "deleted"
      BY <1>4, <2>1, Stutters DEF Emit
    <2>2. CASE row # "deleted" /\ call[c].op \notin TerminalOp
      BY <1>4, <2>2, EmitFacts DEF Emit, Abstract!vars
    <2>3. CASE row # "deleted" /\ call[c].op \in TerminalOp
      <3>1. row \in Terminal /\ Announced' = Announced \cup {row} /\ row' = row
        BY <1>4, <2>3, EmitFacts DEF Emit
      <3>2. Announced' = {row}
        BY <3>1 DEF IInv, OutcomeAgrees
      <3>3. Abstract!Announce
        BY <3>1, <3>2 DEF Abstract!Announce, Abstract!Terminal, Terminal
      <3> QED  BY <3>3
    <2> QED  BY <2>1, <2>2, <2>3
  <1>5. CASE Delete(c)
    <2>1. CASE row = "deleted"
      BY <1>5, <2>1, Stutters DEF Delete, durable
    <2>2. CASE row # "deleted"
      <3>1. row \in Terminal /\ row' = "deleted" /\ outcomes' = <<>>
        BY <1>5, <2>2 DEF Delete, IInv, PendingDeleteIsTerminal
      <3>2. Abstract!Delete
        BY <3>1 DEF Abstract!Delete, Announced, Abstract!Terminal, Terminal
      <3> QED  BY <3>2
    <2> QED  BY <2>1, <2>2
  <1> QED  BY <1>1, <1>2, <1>3, <1>4, <1>5 DEF Step

\* So is every step of the system.
LEMMA NextRefines == IInv /\ [Next]_vars => [Abstract!Next]_(Abstract!vars)
  <1> SUFFICES ASSUME IInv, [Next]_vars PROVE [Abstract!Next]_(Abstract!vars)
    OBVIOUS
  <1>1. ASSUME NEW c \in Callers, Step(c) PROVE [Abstract!Next]_(Abstract!vars)
    BY <1>1, StepRefines
  <1>2. ASSUME NEW ev \in Frame, Ingest(ev) PROVE [Abstract!Next]_(Abstract!vars)
    BY <1>2, IngestFacts, Stutters
  <1>3. CASE \/ \E c \in Callers, op \in Op : \E arg \in ArgsOf(op) : Begin(c, op, arg)
             \/ \E c \in Callers : Throw(c)
             \/ Crash
             \/ UNCHANGED vars
    BY <1>3, Stutters DEF Begin, Throw, Crash, vars
  <1> QED  BY <1>1, <1>2, <1>3 DEF Next

\* RunManagerService implements the run state machine: VALID_TRANSITIONS is
\* never left, a terminal status is final, only terminal runs are deleted, and
\* only the recorded outcome is announced.
THEOREM Refinement == Spec => Refines
  BY InitRefines, NextRefines, Invariance, PTL DEF Spec, Refines, Abstract!Spec

===============================================================================
