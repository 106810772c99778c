------------------------------ MODULE Projection ------------------------------
(***************************************************************************)
(* ProjectionService.applyEvents: how the canonical events of a run make   *)
(* its read model, section by section.  RunProjection has the status.      *)
(*                                                                         *)
(* Left out: texts, confidences and times other than the activity of a     *)
(* participant; the caps on the lists (50 to 300 entries), which only drop *)
(* the oldest; and the branches for events nothing emits (message.sent,    *)
(* expectedCommitments, decisionPrompt, the role of a participant).        *)
(***************************************************************************)
EXTENDS RunProjection, Integers, Sequences, FiniteSets, SequencesExt, TLC

ParticipantTerminal == {"completed", "failed", "skipped"}
ParticipantStatus == {"idle", "active", "waiting"} \cup ParticipantTerminal

NoDecision ==
  [action |-> "none", finalized |-> FALSE, proposalId |-> "none",
   outcomePositive |-> "undefined", resolvedBy |-> "none"]

\* ProjectionService.empty.
Empty ==
  [status |-> EmptyStatus, historyGap |-> FALSE,
   parts |-> <<>>, nodes |-> <<>>, edges |-> {},
   decision |-> NoDecision, signals |-> <<>>, progress |-> <<>>, artifacts |-> {},
   quorum |-> "undefined", resolved |-> FALSE, evaluations |-> <<>>, tally |-> <<>>,
   llmCalls |-> 0, rejected |-> 0]

\* What get() reads back: the table has no column for llm and outboundMessages.
Stored(pr) == [pr EXCEPT !.llmCalls = 0, !.rejected = 0]

Put(f, k, v) == [x \in DOMAIN f \cup {k} |-> IF x = k THEN v ELSE f[x]]

-------------------------------------------------------------------------------
(* Participants. *)

\* A participant that is not there yet, at the end of the list.
NewParticipant(pr) ==
  [status |-> "idle", at |-> 0, pos |-> Cardinality(DOMAIN pr.parts) + 1]

SeeParticipant(pr, p) ==
  IF p \in DOMAIN pr.parts THEN pr
  ELSE [pr EXCEPT !.parts = Put(@, p, NewParticipant(pr)), !.nodes = Put(@, p, "idle")]

\* Mutant of TouchParticipant: only a participant already seen is touched.
TouchKnown(pr, p, ts, status) ==
  IF p \notin DOMAIN pr.parts THEN pr
  ELSE IF pr.status \in Terminal /\ pr.parts[p].status \in ParticipantTerminal
    THEN [pr EXCEPT !.parts[p].at = ts]
    ELSE [pr EXCEPT !.parts[p].at = ts, !.parts[p].status = status, !.nodes[p] = status]

\* Mutant of TouchParticipant: a late message wakes a participant of a run that is over.
TouchAwake(pr0, p, ts, status) ==
  LET pr == SeeParticipant(pr0, p)
  IN  [pr EXCEPT !.parts[p].at = ts, !.parts[p].status = status, !.nodes[p] = status]

\* touchParticipant: once the run is over, one that was swept keeps its status.
TouchParticipant(pr0, p, ts, status) ==
  LET pr == SeeParticipant(pr0, p)
  IN  IF pr.status \in Terminal /\ pr.parts[p].status \in ParticipantTerminal
        THEN [pr EXCEPT !.parts[p].at = ts]
        ELSE [pr EXCEPT !.parts[p].at = ts, !.parts[p].status = status, !.nodes[p] = status]

\* sweepTerminal: everyone not yet through is; with a failure, the last one of
\* those active at the latest time has failed.
SweepTerminal(pr, outcome) ==
  LET toSweep == {p \in DOMAIN pr.parts : pr.parts[p].status \notin ParticipantTerminal}
      NotAfter(p, q) ==
        \/ pr.parts[p].at < pr.parts[q].at
        \/ pr.parts[p].at = pr.parts[q].at /\ pr.parts[p].pos <= pr.parts[q].pos
      NewStatus(p) ==
        CASE pr.parts[p].at = 0 -> "skipped"
          [] pr.parts[p].at # 0 /\ outcome = "failed" /\ (\A q \in toSweep : NotAfter(q, p)) -> "failed"
          [] OTHER -> "completed"
  IN  [pr EXCEPT !.parts = [p \in DOMAIN @ |-> IF p \in toSweep
                              THEN [@[p] EXCEPT !.status = NewStatus(p)] ELSE @[p]],
                 !.nodes = [n \in DOMAIN @ |-> IF n \in toSweep THEN NewStatus(n) ELSE @[n]]]

-------------------------------------------------------------------------------
(* The run and its session. *)

\* The quorum is decided at most once by the end of a run or its decision.
Settle(quorum, outcome) == IF quorum \in {"undefined", "pending"} THEN outcome ELSE quorum

\* run.*: the status, and at the end the participants and the quorum.
ApplyRun(pr, ev) ==
  LET st == [pr EXCEPT !.status = ApplyStatus(ev, @)]
      swept == IF ev.type \in TerminalEventType THEN SweepTerminal(st, ev.data) ELSE st
      allowed == \E i \in DOMAIN pr.evaluations : pr.evaluations[i] = "allow"
  IN  IF ev.type \in {"run.failed", "run.cancelled"}
        THEN [swept EXCEPT !.quorum = Settle(@, IF allowed THEN "reached" ELSE "failed")]
        ELSE swept

\* session.bound and session.state.changed: a terminal state ends the run here too.
ApplySession(pr, ev) ==
  LET st == [pr EXCEPT !.status = ApplyStatus(ev, @)]
  IN  IF ev.data \in SessionTerminal THEN SweepTerminal(st, st.status) ELSE st

-------------------------------------------------------------------------------
(* Messages and the graph. *)

\* upsertNode, for the lifecycle nodes: a completed one does not become active again.
UpsertNode(pr, id, status) ==
  IF id \in DOMAIN pr.nodes /\ pr.nodes[id] = "completed" THEN pr
  ELSE [pr EXCEPT !.nodes = Put(@, id, status)]

\* upsertEdge, for a set of edges.
UpsertEdges(pr, es) == [pr EXCEPT !.edges = @ \cup {e \in es : e.from # e.to}]

Edge(from, to, kind) == [from |-> from, to |-> to, kind |-> kind]

\* Who a message is for: a SessionStart names them, a Proposal is for everyone.
Recipients(pr, ev) ==
  CASE ev.msg = "SessionStart" -> ev.payload.participants
    [] ev.msg = "Proposal"     -> SetToSeq(DOMAIN pr.parts)
    [] OTHER                   -> <<>>

\* The lifecycle nodes start, proposal, decision, outcome, and the edges to them.
DrawMessage(pr, ev, to) ==
  LET started == UpsertNode(pr, "__start", "completed") IN
  CASE ev.msg = "SessionStart" ->
         UpsertEdges(started, {Edge("__start", ev.sender, "session.bound")}
                              \cup {Edge(ev.sender, r, "fanout") : r \in to})
    [] ev.msg = "Proposal" ->
         UpsertEdges(UpsertNode(started, "__proposal", "completed"),
                     {Edge(ev.sender, "__proposal", "proposes")}
                     \cup {Edge("__proposal", r, "review") : r \in to})
    [] ev.msg \in {"Vote", "Evaluation", "Objection"} ->
         UpsertEdges(UpsertNode(started, "__decision", "active"),
                     {Edge(ev.sender, "__decision", ev.msg)})
    [] ev.msg = "Commitment" ->
         UpsertEdges(UpsertNode(UpsertNode(started, "__decision", "completed"),
                                "__outcome", "completed"),
                     {Edge("__decision", "__outcome", "commits")})
    [] OTHER -> started

\* The recipients wait, except for the sender itself.
Hear(pr, p, ev) ==
  IF p = ev.sender THEN pr ELSE TouchParticipant(pr, p, ev.ts, "waiting")

HearAll(pr, names, ev) ==
  LET heard[n \in 0 .. Len(names)] ==
        IF n = 0 THEN pr ELSE Hear(heard[n - 1], names[n], ev)
  IN  heard[Len(names)]

ApplyMessage(pr0, ev) ==
  LET sent == TouchParticipant(pr0, ev.sender, ev.ts, "active")
      names == Recipients(sent, ev)
      to == ToSet(names) \ {ev.sender}
  IN  UpsertEdges(DrawMessage(HearAll(sent, names, ev), ev, to),
                  {Edge(ev.sender, r, ev.msg) : r \in to})

-------------------------------------------------------------------------------
(* Signals, proposals, the decision and the policy. *)

ApplySignal(pr, ev) ==
  [pr EXCEPT !.signals = Append(@, [id |-> ev.id, from |-> ev.sender, acknowledgedBy |-> "none"])]

\* The first signal with the id; an acknowledgement that comes before its
\* signal is forgotten.
ApplyAck(pr, ev) ==
  LET hits == {i \in DOMAIN pr.signals : pr.signals[i].id = ev.id}
  IN  IF hits = {} THEN pr
      ELSE [pr EXCEPT !.signals[CHOOSE i \in hits : \A j \in hits : i <= j].acknowledgedBy = ev.sender]

InferContributionVote(ev) ==
  CASE ev.payload.vote = "APPROVE" -> "allow"
    [] ev.payload.vote = "REJECT" -> "deny"
    [] ev.payload.vote \notin {"APPROVE", "REJECT"}
       /\ ev.msg \in {"Accept", "Approve", "TaskAccept", "HandoffAccept"} -> "allow"
    [] ev.payload.vote \notin {"APPROVE", "REJECT"}
       /\ ev.msg \in {"Reject", "TaskReject", "HandoffDecline"} -> "deny"
    [] OTHER -> "none"

\* Mutant of BumpVoteTally: every vote reopens the quorum.
BumpReopens(pr, id, vote) == [pr EXCEPT !.quorum = "pending"]

\* One more vote on a proposal; how many are required is counted anew.
BumpVoteTally(pr, id, vote) ==
  LET entry == IF id \in DOMAIN pr.tally THEN pr.tally[id]
               ELSE [allow |-> 0, deny |-> 0, required |-> 0]
  IN  [pr EXCEPT !.tally = Put(@, id, [entry EXCEPT ![vote] = @ + 1,
                                                    !.required = Cardinality(DOMAIN pr.parts)]),
                 !.quorum = Settle(@, "pending")]

\* Mutant of ApplyProposal: a late proposal takes over a committed decision.
ApplyProposalAlways(pr, ev) ==
  [pr EXCEPT !.decision.action = ev.id, !.decision.finalized = FALSE, !.decision.proposalId = ev.id]

\* proposal.created and proposal.updated: a committed decision stays as it is.
ApplyProposal(pr, ev) ==
  LET vote == InferContributionVote(ev)
      current == IF pr.decision.finalized THEN pr
                 ELSE [pr EXCEPT !.decision.action = ev.id, !.decision.proposalId = ev.id]
  IN  IF vote = "none" THEN current ELSE BumpVoteTally(current, ev.id, vote)

InferOutcomePositive(payload) ==
  CASE payload.positive # "none" -> payload.positive
    [] payload.positive = "none" /\ payload.action = "approve" -> "true"
    [] payload.positive = "none" /\ payload.action = "reject"  -> "false"
    [] OTHER -> "null"

CommittedAction(payload) == IF payload.action = "none" THEN "resolved" ELSE payload.action

\* decision.finalized also completes the run, resolves the policy and settles
\* the quorum; the participants are left to the events that end the run.
ApplyDecision(pr, ev) ==
  LET positive == InferOutcomePositive(ev.payload)
  IN  [pr EXCEPT !.status = ApplyStatus(ev, @),
                 !.decision = [action |-> CommittedAction(ev.payload), finalized |-> TRUE,
                               proposalId |-> IF ev.payload.id # "none" THEN ev.payload.id
                                              ELSE pr.decision.proposalId,
                               outcomePositive |-> positive, resolvedBy |-> ev.sender],
                 !.resolved = TRUE,
                 !.quorum = Settle(@, IF positive = "false" THEN "failed" ELSE "reached")]

\* An evaluation without a verdict counts as an allow.
ApplyEvaluation(pr, ev) ==
  LET verdict == IF ev.payload.verdict = "none" THEN "allow" ELSE ev.payload.verdict
  IN  [pr EXCEPT !.evaluations = Append(@, verdict),
                 !.quorum = IF verdict = "allow" THEN "reached" ELSE @]

-------------------------------------------------------------------------------
\* One event.
ApplyEvent(pr, ev) ==
  CASE ev.type \in RunEventType -> ApplyRun(pr, ev)
    [] ev.type \in SessionEventType -> ApplySession(pr, ev)
    [] ev.type = "session.stream.gap" -> [pr EXCEPT !.historyGap = TRUE]
    [] ev.type = "participant.seen" -> SeeParticipant(pr, ev.id)
    [] ev.type = "message.send_failed" -> [pr EXCEPT !.rejected = @ + 1]
    [] ev.type = "message.received" -> ApplyMessage(pr, ev)
    [] ev.type = "signal.emitted" -> ApplySignal(pr, ev)
    [] ev.type = "signal.acknowledged" -> ApplyAck(pr, ev)
    [] ev.type \in {"proposal.created", "proposal.updated"} -> ApplyProposal(pr, ev)
    [] ev.type = "decision.finalized" -> ApplyDecision(pr, ev)
    [] ev.type = "progress.reported" -> [pr EXCEPT !.progress = Append(@, ev.sender)]
    [] ev.type = "artifact.created" -> [pr EXCEPT !.artifacts = @ \cup {ev.id}]
    [] ev.type = "policy.resolved" -> [pr EXCEPT !.resolved = TRUE]
    [] ev.type = "llm.call.completed" -> [pr EXCEPT !.llmCalls = @ + 1]
    [] ev.type = "policy.commitment.evaluated" -> ApplyEvaluation(pr, ev)
    [] OTHER -> pr

\* A batch, one event after the other.
ApplyEvents(pr, evs) ==
  LET applied[n \in 0 .. Len(evs)] ==
        IF n = 0 THEN pr ELSE ApplyEvent(applied[n - 1], evs[n])
  IN  applied[Len(evs)]
===============================================================================
