------------------------------ MODULE MCRunView ------------------------------
EXTENDS RunView

Env(msg, sender, payload) ==
  [kind |-> "stream-envelope", msg |-> msg, sender |-> sender, id |-> "m",
   decoded |-> TRUE, payload |-> payload]
Other(kind, state, denied) ==
  [kind |-> kind, state |-> state, id |-> "m", payload |-> [NoPayload EXCEPT !.denied = denied]]

Vote(v) == [NoPayload EXCEPT !.id = "p", !.vote = v]
Commitment(a) == [NoPayload EXCEPT !.action = a]

MCFrames ==
  {Env("SessionStart", "ann", [NoPayload EXCEPT !.participants = <<"ann", "bob">>]),
   Env("Proposal", "ann", [NoPayload EXCEPT !.id = "p"]),
   Env("Vote", "bob", Vote("APPROVE")), Env("Vote", "ann", Vote("REJECT")),
   Env("Evaluation", "bob", [NoPayload EXCEPT !.llm = TRUE]),
   Env("Commitment", "ann", Commitment("approve")),
   Env("Commitment", "bob", [Commitment("reject") EXCEPT !.id = "c"]),
   Env("TaskComplete", "bob", NoPayload),
   Env("SignalAck", "ann", NoPayload),
   Env("PolicyCommitmentEvaluated", "ann", [NoPayload EXCEPT !.verdict = "deny"]),
   Other("stream-inline-error", "none", TRUE),
   Other("stream-status", "none", FALSE),
   Other("session-snapshot", "OPEN", FALSE),
   Other("session-snapshot", "EXPIRED", FALSE)}
  \cup {[Env("ToolCall", "bob", NoPayload) EXCEPT !.decoded = FALSE]}

MCSignals == {Env("Signal", "bob", NoPayload), Env("Progress", "cyd", NoPayload)}

MCDeclared == {<<>>, <<"ann", "bob">>}
===============================================================================
