------------------------------ MODULE Normalizer ------------------------------
(***************************************************************************)
(* EventNormalizerService: the canonical events one frame of the runtime   *)
(* becomes.  A frame is what the provider yields on a stream; the branch   *)
(* for send-ack frames is left out, since no code produces one.            *)
(*                                                                         *)
(* Of a decoded payload only the fields that later decide something are    *)
(* kept: the id it refers to, a vote, an action, a verdict, and whether it *)
(* carries progress, token usage or a denial.  Texts, numbers and times    *)
(* inside payloads are left out.                                           *)
(***************************************************************************)
EXTENDS Integers, Sequences

\* A payload that says nothing: also what a body that is not the expected
\* protobuf decodes to.
NoPayload ==
  [id |-> "none", participants |-> <<>>, vote |-> "none", action |-> "none",
   positive |-> "none", verdict |-> "none", progress |-> FALSE,
   llm |-> FALSE, denied |-> FALSE]

MakeEvent(type, ts, sender, msg, id, data, payload) ==
  [type |-> type, ts |-> ts, sender |-> sender, msg |-> msg, id |-> id,
   data |-> data, payload |-> payload]

PlainEvent(type, ts, id, data) == MakeEvent(type, ts, "none", "none", id, data, NoPayload)

\* One event or none.
When(cond, ev) == IF cond THEN <<ev>> ELSE <<>>

-------------------------------------------------------------------------------
(* The event an envelope stands for. *)

ProposalMsg ==
  {"Proposal", "CounterProposal", "ApprovalRequest", "TaskRequest", "HandoffOffer"}

ProposalUpdateMsg ==
  {"Evaluation", "Objection", "Vote", "Accept", "Reject", "Withdraw", "Approve",
   "Abstain", "TaskAccept", "TaskReject", "TaskUpdate", "TaskComplete", "TaskFail",
   "HandoffContext", "HandoffAccept", "HandoffDecline", "Contribute"}

DeriveEventType(msg) ==
  CASE msg = "Signal"                              -> "signal.emitted"
    [] msg \in {"SignalAck", "SignalAcknowledged"} -> "signal.acknowledged"
    [] msg = "Commitment"                          -> "decision.finalized"
    [] msg \in ProposalMsg                         -> "proposal.created"
    [] msg \in ProposalUpdateMsg                   -> "proposal.updated"
    [] msg = "Progress"                            -> "progress.reported"
    [] msg = "PolicyResolved"                      -> "policy.resolved"
    [] msg = "PolicyCommitmentEvaluated"           -> "policy.commitment.evaluated"
    [] msg = "PolicyDenied"                        -> "policy.denied"
    [] msg \in {"ToolCall", "ToolRequest"}         -> "tool.called"
    [] msg \in {"ToolResult", "ToolCompleted", "ToolOutput"} -> "tool.completed"
    [] OTHER                                       -> "none"

\* The subject's id: what the payload refers to, or else the message itself.
DeriveSubject(type, f) ==
  IF f.payload.id # "none"
     /\ type \in {"signal.acknowledged", "proposal.created", "proposal.updated",
                  "decision.finalized", "tool.called", "tool.completed"}
    THEN f.payload.id ELSE f.id

\* The event of an envelope, about its sender.
Attributed(type, f, ts, id) == MakeEvent(type, ts, f.sender, f.msg, id, "none", f.payload)

ParticipantSeen(f, ts, known) ==
  When(f.sender \notin known,
       MakeEvent("participant.seen", ts, f.sender, f.msg, f.sender, "none", NoPayload))

MessageReceived(f, ts) == <<Attributed("message.received", f, ts, f.id)>>

\* Token usage in any of the places agents put it.
LlmCall(f, ts) == When(f.payload.llm, Attributed("llm.call.completed", f, ts, f.id))

DerivedEvent(f, ts) ==
  LET type == DeriveEventType(f.msg)
  IN  When(type # "none", Attributed(type, f, ts, DeriveSubject(type, f)))

\* Events in addition to the derived one.  For Progress and the policy
\* messages they are of the same type: such an envelope is recorded twice.
TaskProgress(f, ts) ==
  When(\/ f.msg = "TaskUpdate" /\ f.payload.progress
       \/ f.msg \in {"TaskComplete", "TaskFail"},
       Attributed("progress.reported", f, ts, f.id))

PolicyEvents(f, ts) ==
     When(f.msg = "PolicyResolved" /\ f.decoded, Attributed("policy.resolved", f, ts, f.payload.id))
  \o When(f.msg = "PolicyCommitmentEvaluated" /\ f.decoded,
          Attributed("policy.commitment.evaluated", f, ts, f.payload.id))
  \o When(f.msg = "PolicyDenied" \/ f.payload.denied,
          Attributed("policy.denied", f, ts, f.payload.id))

AmbientProgress(f, ts) ==
  When(f.msg = "Progress" /\ f.decoded, Attributed("progress.reported", f, ts, f.sender))

EnvelopeEvents(f, ts, known) ==
  ParticipantSeen(f, ts, known) \o MessageReceived(f, ts) \o LlmCall(f, ts)
    \o DerivedEvent(f, ts) \o TaskProgress(f, ts) \o PolicyEvents(f, ts)
    \o AmbientProgress(f, ts)

\* A MACPError inside the stream; the run goes on.
InlineErrorEvents(f, ts) ==
  <<PlainEvent("message.send_failed", ts, f.id, "none")>>
    \o When(f.payload.denied, PlainEvent("policy.denied", ts, f.id, "none"))

\* normalize, for a frame received at ts.
Normalize(f, ts, known) ==
  CASE f.kind = "stream-status" ->
         <<PlainEvent("session.stream.opened", ts, "session", "none")>>
    [] f.kind = "session-snapshot" ->
         <<PlainEvent("session.state.changed", ts, "session", f.state)>>
    [] f.kind = "stream-inline-error" -> InlineErrorEvents(f, ts)
    [] f.kind = "stream-envelope" -> EnvelopeEvents(f, ts, known)

\* knownParticipants after normalize.
KnownAfter(f, known) ==
  IF f.kind = "stream-envelope" THEN known \cup {f.sender} ELSE known
===============================================================================
