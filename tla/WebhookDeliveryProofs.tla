------------------------- MODULE WebhookDeliveryProofs ------------------------
(***************************************************************************)
(* Webhook deliveries for any set of webhooks and events, any limit on the *)
(* attempts, and any number of database failures, shutdowns, crashes and   *)
(* restarts: a settled row says what happened, and a shutdown ends no      *)
(* process through a delivery.                                             *)
(***************************************************************************)
EXTENDS WebhookDelivery, TLAPS

Place == {"none", "next", "sending", "accepted", "refused", "backoff", "hung", "done"}

WebhookTypeOK ==
  /\ firing \in [Events -> [at : {"no", "listed", "done"}, left : SUBSET Hooks]]
  /\ row \in [Deliveries -> [status : {"none", "pending", "gone"} \cup Settled, attempts : Nat]]
  /\ worker \in [Deliveries -> [at : Place, attempt : Nat]]
  /\ sends \in [Deliveries -> Nat]
  /\ proc \in {"up", "stopping", "closed", "down"}

\* A delivery that has not been recorded: no loop, no request.
Untouched(d) == sends[d] = 0 /\ worker[d].at = "none"

\* The loop of a delivery counts its requests, and is not at its head once they
\* are used up.
Counts(d) ==
  /\ sends[d] <= MaxAttempts
  /\ d[1] \in Blank => sends[d] = 0
  /\ worker[d].at # "none" => worker[d].attempt = sends[d]
  /\ worker[d].at \in {"next", "backoff"} => sends[d] < MaxAttempts

\* What the row and the loop say of the answer, and that nothing follows a
\* failed row.
Truthful(d) ==
  /\ worker[d].at = "accepted" => d \in acked
  /\ row[d].status = "delivered" => d \in acked
  /\ row[d].status = "failed" =>
       /\ worker[d].at \in {"none", "done"}
       /\ sends[d] = IF d[1] \in Blank THEN 0 ELSE MaxAttempts

\* fireEvent records a delivery at most once.
Once(d) == (firing[d[2]].at = "no" \/ d[1] \in firing[d[2]].left) => Untouched(d)

DeliveryInv(d) == Counts(d) /\ Truthful(d) /\ Once(d)

IInv == WebhookTypeOK /\ ShutdownIsQuiet /\ \A d \in Deliveries : DeliveryInv(d)

-------------------------------------------------------------------------------
\* A delivery is a webhook and an event.
LEMMA Pairs ==
  ASSUME NEW h \in Hooks, NEW e \in Events
  PROVE  <<h, e>> \in Deliveries /\ <<h, e>>[1] = h /\ <<h, e>>[2] = e
  BY DEF Deliveries

\* And the other way round.
LEMMA Parts ==
  ASSUME NEW d \in Deliveries
  PROVE  d[1] \in Hooks /\ d[2] \in Events /\ d = <<d[1], d[2]>>
  BY DEF Deliveries

\* Nothing is recorded, sent or answered at the start.
LEMMA InitIInv == Init => IInv
<1> SUFFICES ASSUME Init PROVE IInv
  OBVIOUS
<1>1. WebhookTypeOK /\ ShutdownIsQuiet
  BY DEF Init, WebhookTypeOK, ShutdownIsQuiet, NoWorker, Place, Settled
<1>2. ASSUME NEW d \in Deliveries PROVE DeliveryInv(d)
  <2>1. /\ row[d].status = "none" /\ worker[d].at = "none" /\ sends[d] = 0
    BY DEF Init, NoWorker
  <2> QED BY <2>1, WebhookAssumption DEF DeliveryInv, Counts, Truthful, Once, Untouched
<1> QED BY <1>1, <1>2 DEF IInv

\* A step that leaves row, loop and requests of a delivery alone, takes back no
\* answer and lists nothing twice keeps what is said of it.
LEMMA DeliveryKept ==
  ASSUME NEW d \in Deliveries, DeliveryInv(d),
         row'[d] = row[d], worker'[d] = worker[d], sends'[d] = sends[d],
         d \in acked => d \in acked',
         firing'[d[2]].at = "no" \/ d[1] \in firing'[d[2]].left =>
           firing[d[2]].at = "no" \/ d[1] \in firing[d[2]].left
  PROVE  DeliveryInv(d)'
<1>1. Counts(d)'
  BY DEF DeliveryInv, Counts
<1>2. Truthful(d)'
  BY DEF DeliveryInv, Truthful
<1>3. Once(d)'
  BY DEF DeliveryInv, Once, Untouched
<1> QED BY <1>1, <1>2, <1>3 DEF DeliveryInv

\* A step of one delivery's loop: the others are not touched, and its own row,
\* place, requests and answer decide.
LEMMA LoopStep ==
  ASSUME IInv, NEW c \in Deliveries, WebhookTypeOK', ShutdownIsQuiet',
         worker[c].at # "none",
         \A d \in Deliveries \ {c} :
           /\ row'[d] = row[d] /\ worker'[d] = worker[d] /\ sends'[d] = sends[d]
           /\ d \in acked => d \in acked',
         firing' = firing,
         Counts(c)', Truthful(c)'
  PROVE  IInv'
<1>1. ASSUME NEW d \in Deliveries PROVE DeliveryInv(d)'
  <2>1. CASE d = c
    <3>1. Once(c)'
      BY DEF IInv, DeliveryInv, Once, Untouched
    <3> QED BY <2>1, <3>1 DEF DeliveryInv
  <2>2. CASE d # c
    BY <2>2, DeliveryKept DEF IInv
  <2> QED BY <2>1, <2>2
<1> QED BY <1>1 DEF IInv

\* listActive fixes which webhooks an event is for; nothing is recorded before.
LEMMA ListIInv == ASSUME IInv, NEW e \in Events, List(e) PROVE IInv'
<1>1. /\ firing[e].at = "no"
      /\ UNCHANGED <<hook, row, worker, sends, acked, mine, proc, dbUp, threw, starts>>
      /\ firing' \in [Events -> [at : {"no", "listed", "done"}, left : SUBSET Hooks]]
      /\ \A f \in Events \ {e} : firing'[f] = firing[f]
  BY DEF List, procVars, IInv, WebhookTypeOK
<1>2. WebhookTypeOK' /\ ShutdownIsQuiet'
  BY <1>1 DEF IInv, WebhookTypeOK, ShutdownIsQuiet
<1>3. ASSUME NEW d \in Deliveries PROVE DeliveryInv(d)'
  BY <1>1, DeliveryKept, Parts DEF IInv
<1> QED BY <1>2, <1>3 DEF IInv

\* A row and its loop start together, and the webhook leaves the list.
LEMMA RecordIInv ==
  ASSUME IInv, NEW e \in Events, NEW h \in Hooks, Record(e, h) PROVE IInv'
<1> DEFINE c == <<h, e>>
<1>1. c \in Deliveries /\ c[1] = h /\ c[2] = e
  BY Pairs
<1> HIDE DEF c
<1>2. /\ h \in firing[e].left
      /\ row' = [row EXCEPT ![c] = [status |-> "pending", attempts |-> 0]]
      /\ worker' = [worker EXCEPT ![c] = [at |-> "next", attempt |-> 0]]
      /\ firing' = [firing EXCEPT ![e] = [firing[e] EXCEPT !.left = firing[e].left \ {h}]]
      /\ UNCHANGED <<hook, sends, acked, proc, dbUp, threw, starts>>
  BY DEF Record, Insert, procVars, c
<1>3. /\ firing[e] \in [at : {"no", "listed", "done"}, left : SUBSET Hooks]
      /\ firing'[e].at = firing[e].at /\ firing'[e].left = firing[e].left \ {h}
      /\ firing' \in [Events -> [at : {"no", "listed", "done"}, left : SUBSET Hooks]]
  BY <1>2 DEF IInv, WebhookTypeOK
<1>4. WebhookTypeOK' /\ ShutdownIsQuiet'
  <2>1. /\ [status |-> "pending", attempts |-> 0] \in [status : {"none", "pending", "gone"} \cup Settled, attempts : Nat]
        /\ [at |-> "next", attempt |-> 0] \in [at : Place, attempt : Nat]
    BY DEF Place
  <2> QED BY <1>1, <1>2, <1>3, <2>1 DEF IInv, WebhookTypeOK, ShutdownIsQuiet
<1>5. ASSUME NEW d \in Deliveries PROVE DeliveryInv(d)'
  <2>1. CASE d = c
    <3>1. /\ row'[d].status = "pending" /\ worker'[d].at = "next" /\ worker'[d].attempt = 0
          /\ sends'[d] = sends[d]
      BY <1>1, <1>2, <2>1 DEF IInv, WebhookTypeOK
    <3>2. firing[e].at # "no"
      BY DEF Record
    <3>3. sends[d] = 0
      BY <1>1, <1>2, <2>1 DEF IInv, DeliveryInv, Once, Untouched
    <3>4. Counts(d)' /\ Truthful(d)'
      BY <3>1, <3>3, WebhookAssumption DEF Counts, Truthful
    <3>5. Once(d)'
      BY <1>1, <1>3, <2>1, <3>2 DEF Once
    <3> QED BY <3>4, <3>5 DEF DeliveryInv
  <2>2. CASE d # c
    <3>1. row'[d] = row[d] /\ worker'[d] = worker[d] /\ sends'[d] = sends[d]
      BY <1>2, <2>2 DEF IInv, WebhookTypeOK
    <3>2. firing'[d[2]].at = firing[d[2]].at /\ firing'[d[2]].left \subseteq firing[d[2]].left
      BY <1>2, <1>3, Parts DEF IInv, WebhookTypeOK
    <3> QED BY <1>2, <3>1, <3>2, DeliveryKept DEF IInv
  <2> QED BY <2>1, <2>2
<1> QED BY <1>4, <1>5 DEF IInv

\* A failed insert ends the list, and leaves at most a pending row.
LEMMA RecordFailsIInv ==
  ASSUME IInv, NEW e \in Events, NEW h \in Hooks, RecordFails(e, h) PROVE IInv'
<1> DEFINE c == <<h, e>>
<1>0. c \in Deliveries
  BY Pairs
<1> HIDE DEF c
<1>1. /\ UNCHANGED <<hook, worker, sends, acked, mine, proc, dbUp, threw, starts>>
      /\ firing' = [firing EXCEPT ![e] = [at |-> "done", left |-> {}]]
      /\ row' = row \/ row' = [row EXCEPT ![c] = [status |-> "pending", attempts |-> 0]]
  BY DEF RecordFails, Insert, procVars, c
<1>2. /\ firing' \in [Events -> [at : {"no", "listed", "done"}, left : SUBSET Hooks]]
      /\ row' \in [Deliveries -> [status : {"none", "pending", "gone"} \cup Settled, attempts : Nat]]
  <2>1. [status |-> "pending", attempts |-> 0] \in [status : {"none", "pending", "gone"} \cup Settled, attempts : Nat]
    OBVIOUS
  <2> QED BY <1>0, <1>1, <2>1 DEF IInv, WebhookTypeOK
<1>3. WebhookTypeOK' /\ ShutdownIsQuiet'
  BY <1>1, <1>2 DEF IInv, WebhookTypeOK, ShutdownIsQuiet
<1>4. ASSUME NEW d \in Deliveries PROVE DeliveryInv(d)'
  <2>1. firing'[d[2]].at = "no" \/ d[1] \in firing'[d[2]].left =>
          firing[d[2]].at = "no" \/ d[1] \in firing[d[2]].left
    BY <1>1, Parts DEF IInv, WebhookTypeOK
  <2>2. row'[d] = row[d] \/ row'[d].status = "pending"
    BY <1>0, <1>1 DEF IInv, WebhookTypeOK
  <2>3. Counts(d)'
    BY <1>1 DEF IInv, DeliveryInv, Counts
  <2>4. Truthful(d)'
    BY <1>1, <2>2 DEF IInv, DeliveryInv, Truthful
  <2>5. Once(d)'
    BY <1>1, <2>1 DEF IInv, DeliveryInv, Once, Untouched
  <2> QED BY <2>3, <2>4, <2>5 DEF DeliveryInv
<1> QED BY <1>3, <1>4 DEF IInv

\* Goto moves one loop and keeps its count.
LEMMA GotoFacts ==
  ASSUME WebhookTypeOK, NEW c \in Deliveries, NEW p \in Place, Goto(c, p)
  PROVE  /\ worker' \in [Deliveries -> [at : Place, attempt : Nat]]
         /\ worker'[c].at = p /\ worker'[c].attempt = worker[c].attempt
         /\ \A d \in Deliveries \ {c} : worker'[d] = worker[d]
<1>1. worker[c] \in [at : Place, attempt : Nat]
  BY DEF WebhookTypeOK
<1>2. worker' = [worker EXCEPT ![c] = [worker[c] EXCEPT !.at = p]]
  BY DEF Goto
<1>3. /\ [worker[c] EXCEPT !.at = p] \in [at : Place, attempt : Nat]
      /\ [worker[c] EXCEPT !.at = p].at = p
      /\ [worker[c] EXCEPT !.at = p].attempt = worker[c].attempt
  BY <1>1
<1> QED BY <1>2, <1>3 DEF WebhookTypeOK

\* Update changes one row, or none when it is gone.
LEMMA UpdateFacts ==
  ASSUME WebhookTypeOK, NEW c \in Deliveries, NEW n \in Nat,
         NEW st \in {"pending"} \cup Settled, Update(c, st, n)
  PROVE  /\ row' \in [Deliveries -> [status : {"none", "pending", "gone"} \cup Settled, attempts : Nat]]
         /\ row'[c].status \in {"gone", st}
         /\ \A d \in Deliveries \ {c} : row'[d] = row[d]
<1>1. CASE row[c].status = "gone"
  BY <1>1 DEF Update, WebhookTypeOK
<1>2. CASE row[c].status # "gone"
  <2>1. row' = [row EXCEPT ![c] = [status |-> st, attempts |-> n]]
    BY <1>2 DEF Update
  <2>2. [status |-> st, attempts |-> n] \in [status : {"none", "pending", "gone"} \cup Settled, attempts : Nat]
    OBVIOUS
  <2> QED BY <2>1, <2>2 DEF WebhookTypeOK
<1> QED BY <1>1, <1>2

\* A request is one more attempt, and there is one left.
LEMMA SendIInv == ASSUME IInv, NEW c \in Deliveries, Send(c) PROVE IInv'
<1>1. /\ worker[c].at = "next" /\ c[1] \notin Blank
      /\ UNCHANGED <<hook, firing, row, acked, mine, proc, dbUp, threw, starts>>
  BY DEF Send, At, procVars
<1>2. sends[c] \in Nat /\ sends[c] < MaxAttempts /\ worker[c].attempt = sends[c]
  BY <1>1 DEF IInv, WebhookTypeOK, DeliveryInv, Counts
<1>3. row[c].status # "failed" /\ (row[c].status = "delivered" => c \in acked)
  BY <1>1 DEF IInv, DeliveryInv, Truthful
<1>4. CASE ShuttingDown
  <2>1. Goto(c, "done") /\ sends' = sends
    BY <1>4 DEF Send
  <2>2. /\ worker' \in [Deliveries -> [at : Place, attempt : Nat]]
        /\ worker'[c].at = "done" /\ worker'[c].attempt = worker[c].attempt
        /\ \A d \in Deliveries \ {c} : worker'[d] = worker[d]
    BY <2>1, GotoFacts DEF IInv, Place
  <2>3. WebhookTypeOK' /\ ShutdownIsQuiet'
    BY <1>1, <2>1, <2>2 DEF IInv, WebhookTypeOK, ShutdownIsQuiet
  <2>4. Counts(c)' /\ Truthful(c)'
    BY <1>1, <1>2, <1>3, <2>1, <2>2, WebhookAssumption DEF Counts, Truthful
  <2> QED BY <1>1, <2>1, <2>2, <2>3, <2>4, LoopStep
<1>5. CASE ~ShuttingDown
  <2>1. /\ worker' = [worker EXCEPT ![c] = [at |-> "sending", attempt |-> worker[c].attempt + 1]]
        /\ sends' = [sends EXCEPT ![c] = sends[c] + 1]
    BY <1>5 DEF Send
  <2>2. [at |-> "sending", attempt |-> worker[c].attempt + 1] \in [at : Place, attempt : Nat]
    BY <1>2 DEF Place
  <2>3. /\ worker' \in [Deliveries -> [at : Place, attempt : Nat]]
        /\ sends' \in [Deliveries -> Nat]
        /\ worker'[c].at = "sending" /\ worker'[c].attempt = sends[c] + 1
        /\ sends'[c] = sends[c] + 1
        /\ \A d \in Deliveries \ {c} : worker'[d] = worker[d] /\ sends'[d] = sends[d]
    BY <1>2, <2>1, <2>2 DEF IInv, WebhookTypeOK
  <2>4. WebhookTypeOK' /\ ShutdownIsQuiet'
    BY <1>1, <2>3 DEF IInv, WebhookTypeOK, ShutdownIsQuiet
  <2>5. Counts(c)' /\ Truthful(c)'
    BY <1>1, <1>2, <1>3, <2>3, WebhookAssumption DEF Counts, Truthful
  <2> QED BY <1>1, <2>3, <2>4, <2>5, LoopStep
<1> QED BY <1>4, <1>5

\* Only a 2xx leads to the branch that marks the row delivered.
LEMMA AnswerIInv == ASSUME IInv, NEW c \in Deliveries, Answer(c) PROVE IInv'
<1>1. /\ worker[c].at = "sending"
      /\ UNCHANGED <<hook, firing, row, sends, mine, proc, dbUp, threw, starts>>
  BY DEF Answer, At, procVars
<1>2. PICK p \in {"accepted", "refused"} :
        Goto(c, p) /\ acked' = (IF p = "accepted" THEN acked \cup {c} ELSE acked)
  BY DEF Answer
<1>3. /\ worker' \in [Deliveries -> [at : Place, attempt : Nat]]
      /\ worker'[c].at = p /\ worker'[c].attempt = worker[c].attempt
      /\ \A d \in Deliveries \ {c} : worker'[d] = worker[d]
  BY <1>2, GotoFacts DEF IInv, Place
<1>4. WebhookTypeOK' /\ ShutdownIsQuiet'
  BY <1>1, <1>3 DEF IInv, WebhookTypeOK, ShutdownIsQuiet
<1>5. Counts(c)'
  BY <1>1, <1>3 DEF IInv, DeliveryInv, Counts
<1>6. Truthful(c)'
  BY <1>1, <1>2, <1>3 DEF IInv, DeliveryInv, Truthful
<1>7. \A d \in Deliveries : d \in acked => d \in acked'
  BY <1>2
<1> QED BY <1>1, <1>3, <1>4, <1>5, <1>6, <1>7, LoopStep

\* A row becomes delivered after a 2xx only, whether the write is acknowledged or not.
LEMMA MarkDeliveredIInv == ASSUME IInv, NEW c \in Deliveries, MarkDelivered(c) PROVE IInv'
<1>1. /\ worker[c].at = "accepted" /\ c \in acked /\ row[c].status # "failed"
      /\ UNCHANGED <<hook, firing, sends, acked, mine, proc, dbUp, threw, starts>>
  BY DEF MarkDelivered, At, procVars, IInv, DeliveryInv, Truthful
<1>2. PICK p \in {"done", "refused"} : Goto(c, p) /\ (row' = row \/ Update(c, "delivered", 1))
  BY DEF MarkDelivered, AfterUnmarked
<1>3. /\ worker' \in [Deliveries -> [at : Place, attempt : Nat]]
      /\ worker'[c].at = p /\ worker'[c].attempt = worker[c].attempt
      /\ \A d \in Deliveries \ {c} : worker'[d] = worker[d]
  BY <1>2, GotoFacts DEF IInv, Place
<1>4. /\ row' \in [Deliveries -> [status : {"none", "pending", "gone"} \cup Settled, attempts : Nat]]
      /\ row'[c].status # "failed"
      /\ \A d \in Deliveries \ {c} : row'[d] = row[d]
  <2>1. CASE row' = row
    BY <1>1, <2>1 DEF IInv, WebhookTypeOK
  <2>2. CASE Update(c, "delivered", 1)
    <3>1. "delivered" \in {"pending"} \cup Settled /\ 1 \in Nat
      BY DEF Settled
    <3>2. /\ row' \in [Deliveries -> [status : {"none", "pending", "gone"} \cup Settled, attempts : Nat]]
          /\ row'[c].status \in {"gone", "delivered"}
          /\ \A d \in Deliveries \ {c} : row'[d] = row[d]
      BY <2>2, <3>1, UpdateFacts DEF IInv
    <3> QED BY <3>2
  <2> QED BY <1>2, <2>1, <2>2
<1>5. WebhookTypeOK' /\ ShutdownIsQuiet'
  BY <1>1, <1>3, <1>4 DEF IInv, WebhookTypeOK, ShutdownIsQuiet
<1>6. Counts(c)'
  BY <1>1, <1>3 DEF IInv, DeliveryInv, Counts
<1>7. Truthful(c)'
  BY <1>1, <1>3, <1>4 DEF Truthful
<1> QED BY <1>1, <1>3, <1>4, <1>5, <1>6, <1>7, LoopStep

\* The backoff ends at the head of the loop, or nowhere in a shutdown.
LEMMA WakeIInv == ASSUME IInv, NEW c \in Deliveries, Wake(c) PROVE IInv'
<1>1. /\ worker[c].at = "backoff"
      /\ UNCHANGED <<hook, firing, row, sends, acked, mine, proc, dbUp, threw, starts>>
  BY DEF Wake, At, procVars
<1>2. PICK p \in {"done", "next"} : Goto(c, p)
  BY DEF Wake
<1>3. /\ worker' \in [Deliveries -> [at : Place, attempt : Nat]]
      /\ worker'[c].at = p /\ worker'[c].attempt = worker[c].attempt
      /\ \A d \in Deliveries \ {c} : worker'[d] = worker[d]
  BY <1>2, GotoFacts DEF IInv, Place
<1>4. WebhookTypeOK' /\ ShutdownIsQuiet'
  BY <1>1, <1>3 DEF IInv, WebhookTypeOK, ShutdownIsQuiet
<1>5. Counts(c)'
  BY <1>1, <1>3 DEF IInv, DeliveryInv, Counts
<1>6. Truthful(c)'
  BY <1>1, <1>3 DEF IInv, DeliveryInv, Truthful
<1> QED BY <1>1, <1>3, <1>4, <1>5, <1>6, LoopStep

\* When the process ends, every loop ends with it and no list survives.  Its last
\* write may settle a row as long as it says what happened.
LEMMA ExitIInv ==
  ASSUME IInv, Exit, threw' \in {"no", "up"}, UNCHANGED <<sends, acked>>,
         row' \in [Deliveries -> [status : {"none", "pending", "gone"} \cup Settled, attempts : Nat]],
         \A d \in Deliveries :
           /\ row'[d].status = "delivered" => d \in acked
           /\ row'[d].status = "failed" => sends[d] = IF d[1] \in Blank THEN 0 ELSE MaxAttempts
  PROVE  IInv'
<1>1. /\ proc' = "down" /\ worker' = [d \in Deliveries |-> NoWorker]
      /\ firing' = [e \in Events |-> IF firing[e].at = "listed" THEN [at |-> "done", left |-> {}] ELSE firing[e]]
  BY DEF Exit
<1>2. NoWorker \in [at : Place, attempt : Nat] /\ NoWorker.at = "none"
  BY DEF NoWorker, Place
<1>3. firing' \in [Events -> [at : {"no", "listed", "done"}, left : SUBSET Hooks]]
  BY <1>1 DEF IInv, WebhookTypeOK
<1>4. WebhookTypeOK' /\ ShutdownIsQuiet'
  BY <1>1, <1>2, <1>3 DEF IInv, WebhookTypeOK, ShutdownIsQuiet
<1>5. ASSUME NEW d \in Deliveries PROVE DeliveryInv(d)'
  <2>1. worker'[d].at = "none" /\ sends'[d] = sends[d]
    BY <1>1, <1>2
  <2>2. firing'[d[2]].at = "no" \/ d[1] \in firing'[d[2]].left =>
          firing[d[2]].at = "no" \/ d[1] \in firing[d[2]].left
    BY <1>1, Parts DEF IInv, WebhookTypeOK
  <2>3. Counts(d)'
    BY <2>1 DEF IInv, DeliveryInv, Counts
  <2>4. Truthful(d)'
    BY <2>1 DEF Truthful
  <2>5. Once(d)'
    BY <2>1, <2>2 DEF IInv, DeliveryInv, Once, Untouched
  <2> QED BY <2>3, <2>4, <2>5 DEF DeliveryInv
<1> QED BY <1>4, <1>5 DEF IInv

\* A row becomes failed with the last attempt, and its loop ends there.  A write
\* that fails ends the process only while the service is up.
LEMMA MarkFailedIInv == ASSUME IInv, NEW c \in Deliveries, MarkFailed(c) PROVE IInv'
<1>1. /\ worker[c].at \in {"refused", "next"} /\ (worker[c].at = "next" => c[1] \in Blank)
      /\ proc \in {"up", "stopping", "closed"}
      /\ UNCHANGED <<hook, sends, acked, mine, dbUp, starts>>
  BY DEF MarkFailed, Refusable, At, Running
<1>2. /\ sends[c] \in Nat /\ sends[c] <= MaxAttempts /\ worker[c].attempt = sends[c]
      /\ c[1] \in Blank => sends[c] = 0
      /\ MaxAttempts \in Nat /\ MaxAttempts > 0
      /\ row[c].status # "failed" /\ (row[c].status = "delivered" => c \in acked)
  BY <1>1, WebhookAssumption DEF IInv, WebhookTypeOK, DeliveryInv, Counts, Truthful
<1> DEFINE n == AttemptOf(c)
           st == FailedStatus(n)
<1>3. n \in Nat /\ n = (IF c[1] \in Blank THEN MaxAttempts ELSE sends[c])
  BY <1>2 DEF AttemptOf
<1>4. st \in {"pending", "failed"} /\ (st = "failed" <=> n >= MaxAttempts)
  BY DEF FailedStatus
<1>5. st \in {"pending"} \cup Settled
      /\ (st = "failed" => sends[c] = IF c[1] \in Blank THEN 0 ELSE MaxAttempts)
  BY <1>2, <1>3, <1>4 DEF Settled
<1>6. /\ row' = row \/ Update(c, st, n)
      /\ \/ /\ Goto(c, IF AttemptsLeft(n) THEN "backoff" ELSE "done")
            /\ Update(c, st, n)
            /\ UNCHANGED <<proc, firing, threw>>
         \/ Unmarked(c)
  BY DEF MarkFailed
<1> HIDE DEF n, st
<1>7. /\ row' \in [Deliveries -> [status : {"none", "pending", "gone"} \cup Settled, attempts : Nat]]
      /\ row'[c].status \in {"gone", st, row[c].status}
      /\ \A d \in Deliveries \ {c} : row'[d] = row[d]
  <2>1. CASE row' = row
    BY <2>1 DEF IInv, WebhookTypeOK
  <2>2. CASE Update(c, st, n)
    BY <1>3, <1>5, <2>2, UpdateFacts DEF IInv
  <2> QED BY <1>6, <2>1, <2>2
<1>8. CASE /\ Goto(c, IF AttemptsLeft(n) THEN "backoff" ELSE "done")
           /\ Update(c, st, n)
           /\ UNCHANGED <<proc, firing, threw>>
  <2> DEFINE p == IF AttemptsLeft(n) THEN "backoff" ELSE "done"
  <2>1. p \in {"backoff", "done"} /\ p \in Place /\ (p = "backoff" <=> n < MaxAttempts)
    BY DEF AttemptsLeft, Place
  <2> HIDE DEF p
  <2>2. Goto(c, p)
    BY <1>8 DEF p
  <2>3. /\ worker' \in [Deliveries -> [at : Place, attempt : Nat]]
        /\ worker'[c].at = p /\ worker'[c].attempt = worker[c].attempt
        /\ \A d \in Deliveries \ {c} : worker'[d] = worker[d]
    BY <2>1, <2>2, GotoFacts DEF IInv
  <2>4. WebhookTypeOK' /\ ShutdownIsQuiet'
    BY <1>1, <1>7, <1>8, <2>3 DEF IInv, WebhookTypeOK, ShutdownIsQuiet
  <2>5. p = "backoff" => c[1] \notin Blank /\ sends[c] < MaxAttempts
    BY <1>2, <1>3, <2>1
  <2>6. st = "failed" => p = "done"
    BY <1>2, <1>3, <1>4, <2>1
  <2>7. Counts(c)'
    BY <1>1, <1>2, <2>1, <2>3, <2>5 DEF Counts
  <2>8. Truthful(c)'
    BY <1>1, <1>2, <1>4, <1>5, <1>7, <2>1, <2>3, <2>6 DEF Truthful
  <2> QED BY <1>1, <1>7, <1>8, <2>3, <2>4, <2>7, <2>8, LoopStep
<1>9. CASE Unmarked(c)
  <2>1. CASE ShuttingDown
    <3>1. Goto(c, "done") /\ UNCHANGED <<proc, firing, threw>>
      BY <1>9, <2>1 DEF Unmarked
    <3>2. /\ worker' \in [Deliveries -> [at : Place, attempt : Nat]]
          /\ worker'[c].at = "done" /\ worker'[c].attempt = worker[c].attempt
          /\ \A d \in Deliveries \ {c} : worker'[d] = worker[d]
      BY <3>1, GotoFacts DEF IInv, Place
    <3>3. WebhookTypeOK' /\ ShutdownIsQuiet'
      BY <1>1, <1>7, <3>1, <3>2 DEF IInv, WebhookTypeOK, ShutdownIsQuiet
    <3>4. Counts(c)'
      BY <1>1, <1>2, <3>2 DEF Counts
    <3>5. Truthful(c)'
      BY <1>1, <1>2, <1>4, <1>5, <1>7, <3>2 DEF Truthful
    <3> QED BY <1>1, <1>7, <3>1, <3>2, <3>3, <3>4, <3>5, LoopStep
  <2>2. CASE ~ShuttingDown
    <3>1. Exit /\ threw' = proc /\ proc = "up"
      BY <1>1, <1>9, <2>2 DEF Unmarked, ShuttingDown
    <3>2. ASSUME NEW d \in Deliveries
          PROVE  /\ row'[d].status = "delivered" => d \in acked
                 /\ row'[d].status = "failed" => sends[d] = IF d[1] \in Blank THEN 0 ELSE MaxAttempts
      <4>1. CASE d = c
        BY <1>2, <1>4, <1>5, <1>7, <4>1
      <4>2. CASE d # c
        BY <1>7, <4>2 DEF IInv, DeliveryInv, Truthful
      <4> QED BY <4>1, <4>2
    <3> QED BY <1>1, <1>7, <3>1, <3>2, ExitIInv
  <2> QED BY <2>1, <2>2
<1> QED BY <1>6, <1>8, <1>9

\* The shutdown hangs the loops that wait for a timer.
LEMMA DestroyIInv == ASSUME IInv, Destroy PROVE IInv'
<1>1. /\ proc' = "stopping"
      /\ worker' = [d \in Deliveries |->
           IF worker[d].at = "backoff" THEN [worker[d] EXCEPT !.at = "hung"] ELSE worker[d]]
      /\ UNCHANGED <<hook, firing, row, sends, acked, mine, dbUp, threw, starts>>
  BY DEF Destroy
<1>2. ASSUME NEW d \in Deliveries
      PROVE  /\ worker'[d] \in [at : Place, attempt : Nat]
             /\ worker'[d].attempt = worker[d].attempt
             /\ worker'[d].at = IF worker[d].at = "backoff" THEN "hung" ELSE worker[d].at
  <2>1. worker[d] \in [at : Place, attempt : Nat]
    BY DEF IInv, WebhookTypeOK
  <2>2. worker'[d] = IF worker[d].at = "backoff" THEN [worker[d] EXCEPT !.at = "hung"] ELSE worker[d]
    BY <1>1
  <2> QED BY <2>1, <2>2 DEF Place
<1>3. WebhookTypeOK' /\ ShutdownIsQuiet'
  BY <1>1, <1>2 DEF IInv, WebhookTypeOK, ShutdownIsQuiet
<1>4. ASSUME NEW d \in Deliveries PROVE DeliveryInv(d)'
  <2>1. Counts(d)'
    BY <1>1, <1>2 DEF IInv, DeliveryInv, Counts
  <2>2. Truthful(d)'
    BY <1>1, <1>2 DEF IInv, DeliveryInv, Truthful
  <2>3. Once(d)'
    BY <1>1, <1>2 DEF IInv, DeliveryInv, Once, Untouched
  <2> QED BY <2>1, <2>2, <2>3 DEF DeliveryInv
<1> QED BY <1>3, <1>4 DEF IInv

\* Deleting a webhook takes its rows away and settles none.
LEMMA RemoveIInv == ASSUME IInv, NEW h \in Hooks, Remove(h) PROVE IInv'
<1>1. /\ UNCHANGED <<firing, worker, sends, acked, mine, proc, dbUp, threw, starts>>
      /\ row' = [d \in Deliveries |->
           IF d[1] = h /\ row[d].status # "none" THEN [row[d] EXCEPT !.status = "gone"] ELSE row[d]]
  BY DEF Remove, procVars
<1>2. ASSUME NEW d \in Deliveries
      PROVE  /\ row'[d] \in [status : {"none", "pending", "gone"} \cup Settled, attempts : Nat]
             /\ row'[d].status \in {"gone", row[d].status}
  <2>1. row[d] \in [status : {"none", "pending", "gone"} \cup Settled, attempts : Nat]
    BY DEF IInv, WebhookTypeOK
  <2>2. row'[d] = IF d[1] = h /\ row[d].status # "none" THEN [row[d] EXCEPT !.status = "gone"] ELSE row[d]
    BY <1>1
  <2> QED BY <2>1, <2>2
<1>3. WebhookTypeOK' /\ ShutdownIsQuiet'
  BY <1>1, <1>2 DEF IInv, WebhookTypeOK, ShutdownIsQuiet
<1>4. ASSUME NEW d \in Deliveries PROVE DeliveryInv(d)'
  <2>1. Counts(d)'
    BY <1>1 DEF IInv, DeliveryInv, Counts
  <2>2. Truthful(d)'
    BY <1>1, <1>2 DEF IInv, DeliveryInv, Truthful
  <2>3. Once(d)'
    BY <1>1 DEF IInv, DeliveryInv, Once, Untouched
  <2> QED BY <2>1, <2>2, <2>3 DEF DeliveryInv
<1> QED BY <1>3, <1>4 DEF IInv

\* The steps that touch no delivery.
LEMMA QuietIInv ==
  ASSUME IInv, UNCHANGED <<firing, row, worker, sends, acked>>,
         proc' \in {"up", "stopping", "closed", "down"}, threw' = threw
  PROVE  IInv'
<1>1. WebhookTypeOK' /\ ShutdownIsQuiet'
  BY DEF IInv, WebhookTypeOK, ShutdownIsQuiet
<1>2. ASSUME NEW d \in Deliveries PROVE DeliveryInv(d)'
  BY DeliveryKept DEF IInv
<1> QED BY <1>1, <1>2 DEF IInv

\* Every step keeps the invariant.
LEMMA NextIInv == IInv /\ [Next]_vars => IInv'
<1> SUFFICES ASSUME IInv, [Next]_vars PROVE IInv'
  OBVIOUS
<1>1. ASSUME NEW e \in Events, Fire(e) PROVE IInv'
  BY <1>1, ListIInv, RecordIInv, RecordFailsIInv DEF Fire
<1>2. ASSUME NEW d \in Deliveries, Deliver(d) PROVE IInv'
  BY <1>2, SendIInv, AnswerIInv, MarkDeliveredIInv, MarkFailedIInv, WakeIInv DEF Deliver
<1>3. ASSUME NEW h \in Hooks, Toggle(h) \/ Remove(h) PROVE IInv'
  <2>1. CASE Toggle(h)
    BY <2>1, QuietIInv DEF Toggle, procVars, IInv, WebhookTypeOK
  <2> QED BY <1>3, <2>1, RemoveIInv
<1>4. CASE Close \/ Restart \/ Outage \/ UNCHANGED vars
  BY <1>4, QuietIInv DEF Close, Restart, Outage, vars, procVars, IInv, WebhookTypeOK
<1>5. CASE Crash
  <2>1. Exit /\ threw' \in {"no", "up"} /\ UNCHANGED <<row, sends, acked>>
    BY <1>5 DEF Crash, IInv, ShutdownIsQuiet
  <2> QED BY <2>1, ExitIInv DEF IInv, WebhookTypeOK, DeliveryInv, Truthful
<1> QED BY <1>1, <1>2, <1>3, <1>4, <1>5, DestroyIInv DEF Next

\* The inductive invariant holds throughout.
THEOREM Invariance == Spec => []IInv
  BY InitIInv, NextIInv, PTL DEF Spec

\* A settled row is true: a delivered one was accepted, a failed one was sent as
\* often as allowed, or never for want of a secret, whatever writes failed, with or
\* without effect, and were repeated, and wherever the process stopped.
THEOREM SettledRowsAreTrue == Spec => []SettledRowIsTrue
<1>1. IInv => SettledRowIsTrue
  BY DEF IInv, DeliveryInv, Truthful, SettledRowIsTrue
<1> QED BY <1>1, Invariance, PTL

\* No shutdown ends the process through the rejection of a delivery's write.
THEOREM ShutdownStaysQuiet == Spec => []ShutdownIsQuiet
<1>1. IInv => ShutdownIsQuiet
  BY DEF IInv
<1> QED BY <1>1, Invariance, PTL

\* The receiver of a webhook gets a delivery at most MaxAttempts times over all
\* processes, and not at all without a secret.
RequestsAreBounded ==
  \A d \in Deliveries : sends[d] <= MaxAttempts /\ (d[1] \in Blank => sends[d] = 0)

\* deliverWithTracking makes no request beyond its limit, though a delivery whose
\* 2xx could not be written down is sent again.
THEOREM BoundedRequests == Spec => []RequestsAreBounded
<1>1. IInv => RequestsAreBounded
  BY DEF IInv, DeliveryInv, Counts, RequestsAreBounded
<1> QED BY <1>1, Invariance, PTL
===============================================================================
