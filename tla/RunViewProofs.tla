----------------------------- MODULE RunViewProofs -----------------------------
(***************************************************************************)
(* RunView for any frames, signals and participants, and any number of     *)
(* batches and transitions: each property is kept by every event, and so   *)
(* by every batch.                                                         *)
(***************************************************************************)
EXTENDS RunView, FiniteSetTheorems, SequenceTheorems, NaturalsInduction,
        WellFoundedInduction, TLAPS

-------------------------------------------------------------------------------
(* A batch, event by event.  The provers have no induction over a recursive *)
(* definition; its values are built here, up to the least length for which *)
(* there would be none.                                                    *)

\* A set of naturals that is not empty has a least element.
LEMMA LeastNatural ==
  ASSUME NEW S \in SUBSET Nat, S # {}
  PROVE  \E m \in S : \A s \in S : m <= s
  <1> DEFINE R == OpToRel(<, Nat)
  <1>1. IsWellFoundedOn(R, Nat)
    BY NatLessThanWellFounded
  <1>2. \A x, y \in Nat : <<x, y>> \in R <=> x < y
    BY DEF OpToRel
  <1> HIDE DEF R
  <1>3. PICK m \in S : \A s \in S : ~(<<s, m>> \in R)
    BY <1>1, WFMin
  <1>4. ASSUME NEW s \in S PROVE m <= s
    <2>1. ~(s < m) /\ s \in Nat /\ m \in Nat
      BY <1>2, <1>3
    <2> QED  BY <2>1
  <1> QED  BY <1>4

\* g has the projection before the batch and after each of its first n events.
Steps(g, n, pr, evs) == g = [k \in 0 .. n |-> IF k = 0 THEN pr ELSE ApplyEvent(g[k - 1], evs[k])]

LEMMA StepsExist == \A n \in Nat : \A pr, evs : \E g : Steps(g, n, pr, evs)
  <1> SUFFICES ASSUME NEW pr, NEW evs PROVE \A n \in Nat : \E g : Steps(g, n, pr, evs)
    OBVIOUS
  <1> DEFINE Bad == {n \in Nat : ~ \E g : Steps(g, n, pr, evs)}
  <1>1. SUFFICES ASSUME Bad # {} PROVE FALSE
    OBVIOUS
  <1>2. PICK n \in Bad : \A k \in Bad : n <= k
    <2>1. Bad \in SUBSET Nat
      OBVIOUS
    <2> HIDE DEF Bad
    <2> QED  BY <1>1, <2>1, LeastNatural
  <1>3. CASE n = 0
    <2> DEFINE g == [k \in 0 .. 0 |-> pr]
    <2>1. Steps(g, 0, pr, evs)
      BY DEF Steps
    <2> QED  BY <1>2, <1>3, <2>1
  <1>4. CASE n # 0
    <2>1. n \in Nat /\ n - 1 \in Nat /\ n - 1 \notin Bad
      BY <1>2, <1>4
    <2>2. PICK g : Steps(g, n - 1, pr, evs)
      BY <2>1
    <2> DEFINE h == [k \in 0 .. n |-> IF k <= n - 1 THEN g[k] ELSE ApplyEvent(g[n - 1], evs[n])]
    <2>3. \A k \in 0 .. n - 1 : h[k] = g[k] /\ g[k] = IF k = 0 THEN pr ELSE ApplyEvent(g[k - 1], evs[k])
      <3>1. \A k \in 0 .. n - 1 : g[k] = IF k = 0 THEN pr ELSE ApplyEvent(g[k - 1], evs[k])
        BY <2>1, <2>2, Zenon DEF Steps
      <3> QED  BY <2>1, <3>1
    <2>4. h[n] = ApplyEvent(g[n - 1], evs[n])
      BY <2>1
    <2>5. h[n] = ApplyEvent(h[n - 1], evs[n])
      BY <2>1, <2>3, <2>4
    <2> HIDE DEF h
    <2>6. \A k \in 0 .. n : h[k] = IF k = 0 THEN pr ELSE ApplyEvent(h[k - 1], evs[k])
      <3> TAKE k \in 0 .. n
      <3>1. CASE k = n
        BY <2>1, <2>5, <3>1, <1>4
      <3>2. CASE k # n /\ k # 0
        <4>1. k \in 0 .. n - 1 /\ k - 1 \in 0 .. n - 1
          BY <2>1, <3>2
        <4> QED  BY <2>3, <3>2, <4>1
      <3>3. CASE k # n /\ k = 0
        BY <2>1, <2>3, <3>3
      <3> QED  BY <3>1, <3>2, <3>3
    <2>7. h = [k \in 0 .. n |-> h[k]]
      BY DEF h
    <2>8. Steps(h, n, pr, evs)
      BY <2>6, <2>7, Zenon DEF Steps
    <2> QED  BY <1>2, <2>8
  <1> QED  BY <1>3, <1>4

\* A batch has such a function, and ends where it does.
LEMMA BatchSteps ==
  ASSUME NEW pr, NEW evs, Len(evs) \in Nat
  PROVE  \E g : Steps(g, Len(evs), pr, evs) /\ ApplyEvents(pr, evs) = g[Len(evs)]
  <1>1. \E g : Steps(g, Len(evs), pr, evs)
    BY StepsExist
  <1> QED  BY <1>1 DEF ApplyEvents, Steps

\* The same for the recipients of a message.
Heard(g, n, pr, names, ev) == g = [k \in 0 .. n |-> IF k = 0 THEN pr ELSE Hear(g[k - 1], names[k], ev)]

LEMMA HeardExist == \A n \in Nat : \A pr, names, ev : \E g : Heard(g, n, pr, names, ev)
  <1> SUFFICES ASSUME NEW pr, NEW names, NEW ev PROVE \A n \in Nat : \E g : Heard(g, n, pr, names, ev)
    OBVIOUS
  <1> DEFINE Bad == {n \in Nat : ~ \E g : Heard(g, n, pr, names, ev)}
  <1>1. SUFFICES ASSUME Bad # {} PROVE FALSE
    OBVIOUS
  <1>2. PICK n \in Bad : \A k \in Bad : n <= k
    <2>1. Bad \in SUBSET Nat
      OBVIOUS
    <2> HIDE DEF Bad
    <2> QED  BY <1>1, <2>1, LeastNatural
  <1>3. CASE n = 0
    <2> DEFINE g == [k \in 0 .. 0 |-> pr]
    <2>1. Heard(g, 0, pr, names, ev)
      BY DEF Heard
    <2> QED  BY <1>2, <1>3, <2>1
  <1>4. CASE n # 0
    <2>1. n \in Nat /\ n - 1 \in Nat /\ n - 1 \notin Bad
      BY <1>2, <1>4
    <2>2. PICK g : Heard(g, n - 1, pr, names, ev)
      BY <2>1
    <2> DEFINE h == [k \in 0 .. n |-> IF k <= n - 1 THEN g[k] ELSE Hear(g[n - 1], names[n], ev)]
    <2>3. \A k \in 0 .. n - 1 : h[k] = g[k] /\ g[k] = IF k = 0 THEN pr ELSE Hear(g[k - 1], names[k], ev)
      <3>1. \A k \in 0 .. n - 1 : g[k] = IF k = 0 THEN pr ELSE Hear(g[k - 1], names[k], ev)
        BY <2>1, <2>2, Zenon DEF Heard
      <3> QED  BY <2>1, <3>1
    <2>4. h[n] = Hear(g[n - 1], names[n], ev)
      BY <2>1
    <2>5. h[n] = Hear(h[n - 1], names[n], ev)
      BY <2>1, <2>3, <2>4
    <2> HIDE DEF h
    <2>6. \A k \in 0 .. n : h[k] = IF k = 0 THEN pr ELSE Hear(h[k - 1], names[k], ev)
      <3> TAKE k \in 0 .. n
      <3>1. CASE k = n
        BY <2>1, <2>5, <3>1, <1>4
      <3>2. CASE k # n /\ k # 0
        <4>1. k \in 0 .. n - 1 /\ k - 1 \in 0 .. n - 1
          BY <2>1, <3>2
        <4> QED  BY <2>3, <3>2, <4>1
      <3>3. CASE k # n /\ k = 0
        BY <2>1, <2>3, <3>3
      <3> QED  BY <3>1, <3>2, <3>3
    <2>7. h = [k \in 0 .. n |-> h[k]]
      BY DEF h
    <2>8. Heard(h, n, pr, names, ev)
      BY <2>6, <2>7, Zenon DEF Heard
    <2> QED  BY <1>2, <2>8
  <1> QED  BY <1>3, <1>4

LEMMA HearSteps ==
  ASSUME NEW pr, NEW names, NEW ev, Len(names) \in Nat
  PROVE  \E g : Heard(g, Len(names), pr, names, ev) /\ HearAll(pr, names, ev) = g[Len(names)]
  <1>1. \E g : Heard(g, Len(names), pr, names, ev)
    BY HeardExist
  <1> QED  BY <1>1 DEF HearAll, Heard

-------------------------------------------------------------------------------
(* The projection: what the properties read of it. *)

Fields == {"status", "historyGap", "parts", "nodes", "edges", "decision", "signals", "progress",
           "artifacts", "quorum", "resolved", "evaluations", "tally", "llmCalls", "rejected"}

Record(pr) == DOMAIN pr = Fields /\ pr = [f \in DOMAIN pr |-> pr[f]]

Part == [status : ParticipantStatus, at : Int, pos : Int]
SettledQuorum == {"reached", "failed"}

Shape(pr) ==
  /\ Record(pr)
  /\ pr.status \in RunStatus
  /\ pr.quorum \in {"undefined", "pending"} \cup SettledQuorum
  /\ IsFiniteSet(DOMAIN pr.parts)
  /\ pr.parts \in [DOMAIN pr.parts -> Part]

\* Whoever is shown stays shown, and a run that is over keeps its swept
\* participants as they are.
Late(pr, r) ==
  /\ DOMAIN pr.parts \subseteq DOMAIN r.parts
  /\ pr.status \in Terminal =>
       /\ r.status \in Terminal
       /\ \A p \in DOMAIN pr.parts :
            pr.parts[p].status \in ParticipantTerminal => r.parts[p].status \in ParticipantTerminal

\* Only the participants and what is drawn of them have changed.
Touched(pr, r) ==
  /\ Shape(r) /\ Late(pr, r)
  /\ r.status = pr.status /\ r.quorum = pr.quorum /\ r.decision = pr.decision

\* Nothing the properties read has changed.
Same(pr, r) ==
  /\ Record(r)
  /\ r.status = pr.status /\ r.parts = pr.parts /\ r.quorum = pr.quorum /\ r.decision = pr.decision

LEMMA SameIsTouched ==
  ASSUME NEW pr, NEW r, Shape(pr), Same(pr, r) PROVE Touched(pr, r)
  BY DEF Touched, Same, Shape, Late

LEMMA TouchedTransitive ==
  ASSUME NEW a, NEW b, NEW c, Touched(a, b), Touched(b, c) PROVE Touched(a, c)
  BY DEF Touched, Late

\* A participant is added once, at the end.
LEMMA SeeFacts ==
  ASSUME NEW pr, Shape(pr), NEW p
  PROVE  Touched(pr, SeeParticipant(pr, p)) /\ p \in DOMAIN SeeParticipant(pr, p).parts
  <1>1. CASE p \in DOMAIN pr.parts
    BY <1>1 DEF SeeParticipant, Touched, Shape, Late
  <1>2. CASE p \notin DOMAIN pr.parts
    <2> DEFINE r == SeeParticipant(pr, p)
               D == DOMAIN pr.parts
               new == NewParticipant(pr)
    <2>1. Record(r) /\ r.parts = Put(pr.parts, p, new)
          /\ r.status = pr.status /\ r.quorum = pr.quorum /\ r.decision = pr.decision
      BY <1>2 DEF SeeParticipant, Shape, Record, Fields
    <2>2. new \in Part
      <3>1. Cardinality(D) \in Nat
        BY FS_CardinalityType DEF Shape
      <3>2. Cardinality(D) + 1 \in Int
        BY <3>1
      <3> HIDE DEF D
      <3> QED  BY <3>2 DEF NewParticipant, Part, ParticipantStatus, D
    <2>3. IsFiniteSet(D \cup {p})
      BY FS_AddElement DEF Shape
    <2> HIDE DEF r, new
    <2>4. DOMAIN r.parts = D \cup {p}
          /\ r.parts = [x \in D \cup {p} |-> IF x = p THEN new ELSE pr.parts[x]]
      BY <2>1 DEF Put
    <2>5. r.parts \in [DOMAIN r.parts -> Part] /\ \A x \in D : r.parts[x] = pr.parts[x]
      BY <1>2, <2>2, <2>4 DEF Shape
    <2> QED  BY <2>1, <2>3, <2>4, <2>5 DEF Touched, Shape, Late, r
  <1> QED  BY <1>1, <1>2

\* Touching a participant wakes nobody who was swept.
LEMMA TouchFacts ==
  ASSUME NEW pr0, Shape(pr0), NEW p, NEW ts \in Int, NEW st \in ParticipantStatus
  PROVE  /\ Touched(pr0, TouchParticipant(pr0, p, ts, st))
         /\ p \in DOMAIN TouchParticipant(pr0, p, ts, st).parts
  <1> DEFINE pr == SeeParticipant(pr0, p)
             r == TouchParticipant(pr0, p, ts, st)
  <1>1. Touched(pr0, pr) /\ p \in DOMAIN pr.parts /\ Shape(pr)
    BY SeeFacts DEF Touched
  <1>2. r = IF pr.status \in Terminal /\ pr.parts[p].status \in ParticipantTerminal
              THEN [pr EXCEPT !.parts[p].at = ts]
              ELSE [pr EXCEPT !.parts[p].at = ts, !.parts[p].status = st, !.nodes[p] = st]
    BY DEF TouchParticipant
  <1> HIDE DEF pr, r
  <1> DEFINE D == DOMAIN pr.parts
             old == pr.parts[p]
  <1>3. old \in Part /\ pr.parts \in [D -> Part]
    BY <1>1 DEF Shape
  <1>4. CASE pr.status \in Terminal /\ old.status \in ParticipantTerminal
    <2> DEFINE new == [old EXCEPT !.at = ts]
    <2>1. new \in Part /\ new.status = old.status
      BY <1>3 DEF Part
    <2>2. Record(r) /\ r.parts = [pr.parts EXCEPT ![p] = new]
          /\ r.status = pr.status /\ r.quorum = pr.quorum /\ r.decision = pr.decision
      BY <1>1, <1>2, <1>4 DEF Shape, Record, Fields
    <2> HIDE DEF new
    <2>3. DOMAIN r.parts = D /\ r.parts \in [D -> Part]
          /\ \A x \in D : r.parts[x].status = pr.parts[x].status
      BY <1>1, <1>3, <2>1, <2>2
    <2>4. Touched(pr, r)
      BY <1>1, <2>2, <2>3 DEF Touched, Shape, Late
    <2> QED  BY <1>1, <2>3, <2>4, TouchedTransitive DEF r
  <1>5. CASE ~(pr.status \in Terminal /\ old.status \in ParticipantTerminal)
    <2> DEFINE new == [[old EXCEPT !.at = ts] EXCEPT !.status = st]
    <2>1. new \in Part
      BY <1>3 DEF Part
    <2>2. Record(r) /\ r.parts = [pr.parts EXCEPT ![p] = new]
          /\ r.status = pr.status /\ r.quorum = pr.quorum /\ r.decision = pr.decision
      BY <1>1, <1>2, <1>3, <1>5 DEF Shape, Record, Fields
    <2> HIDE DEF new
    <2>3. DOMAIN r.parts = D /\ r.parts \in [D -> Part]
          /\ \A x \in D \ {p} : r.parts[x] = pr.parts[x]
      BY <1>1, <1>3, <2>1, <2>2
    <2>4. Touched(pr, r)
      BY <1>1, <1>5, <2>2, <2>3 DEF Touched, Shape, Late
    <2> QED  BY <1>1, <2>3, <2>4, TouchedTransitive DEF r
  <1> QED  BY <1>4, <1>5

\* After a sweep everyone is through.
LEMMA SweepFacts ==
  ASSUME NEW pr, Shape(pr), NEW outcome
  PROVE  LET r == SweepTerminal(pr, outcome)
         IN  /\ Shape(r) /\ DOMAIN r.parts = DOMAIN pr.parts
             /\ r.status = pr.status /\ r.quorum = pr.quorum /\ r.decision = pr.decision
             /\ \A p \in DOMAIN pr.parts : r.parts[p].status \in ParticipantTerminal
  <1> DEFINE r == SweepTerminal(pr, outcome)
             D == DOMAIN pr.parts
             toSweep == {p \in D : pr.parts[p].status \notin ParticipantTerminal}
             NotAfter(p, q) ==
               \/ pr.parts[p].at < pr.parts[q].at
               \/ pr.parts[p].at = pr.parts[q].at /\ pr.parts[p].pos <= pr.parts[q].pos
             NewStatus(p) ==
               CASE pr.parts[p].at = 0 -> "skipped"
                 [] pr.parts[p].at # 0 /\ outcome = "failed" /\ (\A q \in toSweep : NotAfter(q, p)) -> "failed"
                 [] OTHER -> "completed"
             new == [p \in D |-> IF p \in toSweep
                                   THEN [pr.parts[p] EXCEPT !.status = NewStatus(p)] ELSE pr.parts[p]]
  <1>1. \A p \in D : NewStatus(p) \in ParticipantTerminal
    BY DEF ParticipantTerminal
  <1>2. Record(r) /\ r.parts = new
        /\ r.status = pr.status /\ r.quorum = pr.quorum /\ r.decision = pr.decision
    BY DEF SweepTerminal, Shape, Record, Fields
  <1>3. pr.parts \in [D -> Part] /\ IsFiniteSet(D)
    BY DEF Shape
  <1> HIDE DEF NewStatus, r
  <1>4. \A p \in D : new[p] \in Part /\ new[p].status \in ParticipantTerminal
    <2> TAKE p \in D
    <2>1. pr.parts[p] \in Part /\ NewStatus(p) \in ParticipantStatus
      BY <1>1, <1>3 DEF ParticipantStatus
    <2>2. CASE p \in toSweep
      <3>1. new[p] = [pr.parts[p] EXCEPT !.status = NewStatus(p)]
        BY <2>2
      <3> HIDE DEF new, toSweep
      <3> QED  BY <1>1, <2>1, <3>1 DEF Part
    <2>3. CASE p \notin toSweep
      BY <2>1, <2>3
    <2> QED  BY <2>2, <2>3
  <1>5. DOMAIN new = D /\ new \in [D -> Part]
    <2>1. DOMAIN new = D /\ new = [p \in D |-> new[p]]
      OBVIOUS
    <2> HIDE DEF new
    <2> QED  BY <1>4, <2>1
  <1> HIDE DEF new
  <1> QED  BY <1>2, <1>3, <1>4, <1>5 DEF Shape, r

-------------------------------------------------------------------------------
(* Messages. *)

LEMMA EdgesFacts ==
  ASSUME NEW pr, Record(pr), NEW es PROVE Same(pr, UpsertEdges(pr, es))
  BY DEF Record, Fields, UpsertEdges, Same

LEMMA NodeFacts ==
  ASSUME NEW pr, Record(pr), NEW id, NEW status PROVE Same(pr, UpsertNode(pr, id, status))
  BY DEF Record, Fields, UpsertNode, Same

LEMMA SameTransitive ==
  ASSUME NEW a, NEW b, NEW c, Same(a, b), Same(b, c) PROVE Same(a, c)
  BY DEF Same

\* Drawing a message only adds nodes and edges.
LEMMA DrawFacts ==
  ASSUME NEW pr, Record(pr), NEW ev, NEW to PROVE Same(pr, DrawMessage(pr, ev, to))
  <1> DEFINE Two(id, status) == UpsertNode(UpsertNode(pr, "__start", "completed"), id, status)
             Three == UpsertNode(Two("__decision", "completed"), "__outcome", "completed")
  <1>1. Same(pr, UpsertNode(pr, "__start", "completed")) /\ Record(UpsertNode(pr, "__start", "completed"))
    BY NodeFacts, Zenon DEF Same
  <1>0. \A q, id, status :
          Same(pr, q) /\ Record(q) =>
            Same(pr, UpsertNode(q, id, status)) /\ Record(UpsertNode(q, id, status))
    <2> TAKE q, id, status
    <2> HAVE Same(pr, q) /\ Record(q)
    <2>1. Same(q, UpsertNode(q, id, status))
      BY NodeFacts, Zenon
    <2>2. Record(UpsertNode(q, id, status))
      BY <2>1, Zenon DEF Same
    <2> QED  BY <2>1, <2>2, SameTransitive, Zenon
  <1>2. \A id, status : Same(pr, Two(id, status)) /\ Record(Two(id, status))
    BY <1>0, <1>1, Zenon
  <1>3. Same(pr, Three) /\ Record(Three)
    BY <1>0, <1>2, Zenon
  <1>4. \A q, es : Same(pr, q) /\ Record(q) => Same(pr, UpsertEdges(q, es))
    BY EdgesFacts, SameTransitive, Zenon
  <1>5. \/ DrawMessage(pr, ev, to) = UpsertNode(pr, "__start", "completed")
        \/ \E es : DrawMessage(pr, ev, to) = UpsertEdges(UpsertNode(pr, "__start", "completed"), es)
        \/ \E id, status, es : DrawMessage(pr, ev, to) = UpsertEdges(Two(id, status), es)
        \/ \E es : DrawMessage(pr, ev, to) = UpsertEdges(Three, es)
    <2>1. CASE ev.msg = "SessionStart"
      BY <2>1 DEF DrawMessage
    <2>2. CASE ev.msg = "Proposal"
      BY <2>2 DEF DrawMessage
    <2>3. CASE ev.msg \in {"Vote", "Evaluation", "Objection"}
      BY <2>3 DEF DrawMessage
    <2>4. CASE ev.msg = "Commitment"
      BY <2>4 DEF DrawMessage
    <2>5. CASE ev.msg \notin {"SessionStart", "Proposal", "Vote", "Evaluation", "Objection", "Commitment"}
      BY <2>5 DEF DrawMessage
    <2> QED  BY <2>1, <2>2, <2>3, <2>4, <2>5
  <1> QED  BY <1>1, <1>2, <1>3, <1>4, <1>5, Zenon

\* The participants as a list.
LEMMA ListOf ==
  ASSUME NEW S, IsFiniteSet(S) PROVE Len(SetToSeq(S)) \in Nat
  <1>1. Cardinality(S) \in Nat /\ ExistsBijection(1 .. Cardinality(S), S)
    BY FS_CardinalityType
  <1>2. \E f \in [1 .. Cardinality(S) -> S] : IsInjective(f)
    BY <1>1 DEF ExistsBijection, Bijection, Injection, IsInjective
  <1>3. SetToSeq(S) \in [1 .. Cardinality(S) -> S]
    BY <1>2, Zenon DEF SetToSeq
  <1>4. Len(SetToSeq(S)) = Cardinality(S)
    BY <1>1, <1>3
  <1> QED  BY <1>1, <1>4

\* A message that starts a session names its participants in a list.
GoodMessage(ev) ==
  /\ ev.ts \in Int
  /\ Len(ev.payload.participants) \in Nat

\* A message shows its sender, and wakes nobody who was swept.
LEMMA HearAllFacts ==
  ASSUME NEW pr, Shape(pr), NEW names, Len(names) \in Nat, NEW ev, ev.ts \in Int
  PROVE  Touched(pr, HearAll(pr, names, ev))
  <1>1. PICK g : Heard(g, Len(names), pr, names, ev) /\ HearAll(pr, names, ev) = g[Len(names)]
    BY HearSteps
  <1> DEFINE N == Len(names)
             Bad == {k \in 0 .. N : ~ Touched(pr, g[k])}
  <1>2. SUFFICES ASSUME Bad # {} PROVE FALSE
    <2>1. N \in 0 .. N
      OBVIOUS
    <2> QED  BY <1>1, <2>1
  <1>3. PICK k \in Bad : \A j \in Bad : k <= j
    <2>1. Bad \in SUBSET Nat
      OBVIOUS
    <2> HIDE DEF Bad
    <2> QED  BY <1>2, <2>1, LeastNatural
  <1>4. \A j \in 0 .. N : g[j] = IF j = 0 THEN pr ELSE Hear(g[j - 1], names[j], ev)
    BY <1>1, Zenon DEF Heard
  <1>5. CASE k = 0
    <2>1. g[k] = pr
      BY <1>3, <1>4, <1>5
    <2>2. Touched(pr, pr)
      BY DEF Touched, Late
    <2> QED  BY <1>3, <2>1, <2>2
  <1>6. CASE k # 0
    <2>1. k - 1 \in 0 .. N /\ k - 1 \notin Bad /\ k \in 0 .. N
      BY <1>3, <1>6
    <2>2. Touched(pr, g[k - 1]) /\ g[k] = Hear(g[k - 1], names[k], ev)
      BY <1>4, <1>6, <2>1
    <2>3. Shape(g[k - 1])
      BY <2>2 DEF Touched
    <2>4. "waiting" \in ParticipantStatus
      BY DEF ParticipantStatus
    <2>5. Touched(g[k - 1], TouchParticipant(g[k - 1], names[k], ev.ts, "waiting"))
      BY <2>3, <2>4, TouchFacts, Zenon
    <2>6. Touched(pr, g[k])
      BY <2>2, <2>5, TouchedTransitive, Zenon DEF Hear
    <2> QED  BY <1>3, <2>6
  <1> QED  BY <1>5, <1>6

LEMMA MessageFacts ==
  ASSUME NEW pr, Shape(pr), NEW ev, GoodMessage(ev)
  PROVE  Touched(pr, ApplyMessage(pr, ev)) /\ ev.sender \in DOMAIN ApplyMessage(pr, ev).parts
  <1> DEFINE first == TouchParticipant(pr, ev.sender, ev.ts, "active")
             names == Recipients(first, ev)
             to == ToSet(names) \ {ev.sender}
             heard == HearAll(first, names, ev)
             drawn == DrawMessage(heard, ev, to)
             r == UpsertEdges(drawn, {Edge(ev.sender, q, ev.msg) : q \in to})
  <1>1. "active" \in ParticipantStatus /\ ev.ts \in Int
    BY DEF ParticipantStatus, GoodMessage
  <1>2. Touched(pr, first) /\ ev.sender \in DOMAIN first.parts
    BY <1>1, TouchFacts
  <1>3. Shape(first)
    BY <1>2 DEF Touched
  <1> HIDE DEF first
  <1>4. Len(names) \in Nat
    <2>1. Len(SetToSeq(DOMAIN first.parts)) \in Nat
      BY <1>3, ListOf DEF Shape
    <2>2. Len(<<>>) \in Nat
      OBVIOUS
    <2> HIDE DEF first
    <2>3. names \in {ev.payload.participants, SetToSeq(DOMAIN first.parts), <<>>}
      BY Zenon DEF Recipients
    <2> QED  BY <2>1, <2>2, <2>3, Zenon DEF GoodMessage
  <1> HIDE DEF names
  <1>5. Touched(first, heard)
    BY <1>1, <1>3, <1>4, HearAllFacts
  <1>6. Shape(heard) /\ Record(heard)
    BY <1>5 DEF Touched, Shape
  <1> HIDE DEF heard
  <1>7. Same(heard, drawn) /\ Record(drawn)
    BY <1>6, DrawFacts DEF Same
  <1> HIDE DEF drawn
  <1>8. Same(drawn, r)
    BY <1>7, EdgesFacts
  <1> HIDE DEF r
  <1>9. Touched(heard, r)
    BY <1>6, <1>7, <1>8, SameTransitive, SameIsTouched, Zenon
  <1>10. Touched(first, r)
    BY <1>5, <1>9, TouchedTransitive, Zenon
  <1>11. Touched(pr, r) /\ ev.sender \in DOMAIN r.parts
    BY <1>2, <1>10, TouchedTransitive, Zenon DEF Touched, Late
  <1>12. r = ApplyMessage(pr, ev)
    BY DEF ApplyMessage, r, drawn, heard, names, first
  <1> QED  BY <1>11, <1>12

-------------------------------------------------------------------------------
(* One event. *)

GoodEvent(ev) ==
  /\ ev.type \in RunEventType => ev.data \in RunStatus
  /\ ev.type \in TerminalEventType => ev.data \in Terminal
  /\ ev.type \in SessionEventType => ev.data \in SessionState
  /\ ev.type = "message.received" => GoodMessage(ev)

SettlingType == {"decision.finalized", "run.failed", "run.cancelled"}

\* What an event that leads from pr to r has done to what the properties read.
After(pr, r, ev) ==
  /\ Shape(r)
  /\ DOMAIN pr.parts \subseteq DOMAIN r.parts
  /\ ev.type = "message.received" => ev.sender \in DOMAIN r.parts
  /\ ev.type = "decision.finalized" =>
       r.decision.finalized /\ r.decision.action = CommittedAction(ev.payload)
  /\ ev.type # "decision.finalized" /\ pr.decision.finalized => r.decision = pr.decision
  /\ pr.quorum \in SettledQuorum \/ ev.type \in SettlingType => r.quorum \in SettledQuorum
  /\ ev.type \notin RunEventType /\ ~ EndsRun(ev) => Late(pr, r)
  /\ EndsRun(ev) =>
       /\ r.status \in Terminal
       /\ \A p \in DOMAIN pr.parts : r.parts[p].status \in ParticipantTerminal

\* An event that does nothing to them, or only touches participants.
LEMMA TouchedAfter ==
  ASSUME NEW pr, NEW r, NEW ev, Touched(pr, r), Shape(pr), ~ EndsRun(ev),
         ev.type # "decision.finalized", ev.type \notin RunEventType,
         ev.type = "message.received" => ev.sender \in DOMAIN r.parts
  PROVE  After(pr, r, ev)
  BY DEF After, Touched, SettlingType, RunEventType, Late

LEMMA SessionStatus ==
  ASSUME NEW ev, ev.type \in SessionEventType, ev.data \in SessionState, NEW st \in RunStatus
  PROVE  /\ ApplyStatus(ev, st) \in RunStatus
         /\ st \in Terminal \/ ev.data \in SessionTerminal => ApplyStatus(ev, st) \in Terminal
  BY DEF ApplyStatus, StatusFromSession, SessionEventType, RunEventType, SessionState, SessionTerminal,
         RunStatus, Terminal

\* run.*: only the end of a run sweeps its participants.
LEMMA RunFacts ==
  ASSUME NEW pr, Shape(pr), NEW ev, GoodEvent(ev), ev.type \in RunEventType
  PROVE  After(pr, ApplyRun(pr, ev), ev)
  <1> DEFINE st == [pr EXCEPT !.status = ApplyStatus(ev, @)]
             after == IF ev.type \in TerminalEventType THEN SweepTerminal(st, ev.data) ELSE st
             r == ApplyRun(pr, ev)
  <1>1. Record(st) /\ st.status = ev.data /\ st.parts = pr.parts
        /\ st.quorum = pr.quorum /\ st.decision = pr.decision
    <2>1. ApplyStatus(ev, pr.status) = ev.data
      BY DEF ApplyStatus, RunEventType, SessionEventType
    <2> QED  BY <2>1 DEF Shape, Record, Fields
  <1>2. Shape(st)
    BY <1>1 DEF Shape, GoodEvent
  <1> HIDE DEF st
  <1>3. /\ Shape(after) /\ DOMAIN after.parts = DOMAIN pr.parts
        /\ after.status = ev.data /\ after.quorum = pr.quorum /\ after.decision = pr.decision
        /\ ev.type \in TerminalEventType =>
             \A p \in DOMAIN pr.parts : after.parts[p].status \in ParticipantTerminal
    BY <1>1, <1>2, SweepFacts
  <1>4. \/ r = after /\ ev.type \notin SettlingType
        \/ \E o \in SettledQuorum : r = [after EXCEPT !.quorum = Settle(@, o)]
    BY DEF ApplyRun, st, SettlingType, SettledQuorum, RunEventType
  <1> HIDE DEF after, r
  <1>5. Record(r) /\ r.status = after.status /\ r.parts = after.parts /\ r.decision = after.decision
        /\ r.quorum \in {"undefined", "pending"} \cup SettledQuorum
        /\ (pr.quorum \in SettledQuorum \/ ev.type \in SettlingType => r.quorum \in SettledQuorum)
    <2>1. CASE r = after /\ ev.type \notin SettlingType
      BY <1>3, <2>1 DEF Shape
    <2>2. CASE \E o \in SettledQuorum : r = [after EXCEPT !.quorum = Settle(@, o)]
      BY <1>3, <2>2 DEF Shape, Record, Fields, Settle, SettledQuorum
    <2> QED  BY <1>4, <2>1, <2>2
  <1>6. Shape(r)
    BY <1>3, <1>5 DEF Shape
  <1>7. ev.type \notin SessionEventType /\ ev.type # "message.received" /\ ev.type # "decision.finalized"
    BY DEF RunEventType, SessionEventType
  <1>8. EndsRun(ev) => ev.type \in TerminalEventType /\ ev.data \in Terminal
    BY <1>7 DEF EndsRun, GoodEvent
  <1>9. After(pr, r, ev)
    BY <1>3, <1>5, <1>6, <1>7, <1>8 DEF After
  <1> QED  BY <1>9 DEF r

LEMMA SessionFacts ==
  ASSUME NEW pr, Shape(pr), NEW ev, GoodEvent(ev), ev.type \in SessionEventType
  PROVE  After(pr, ApplySession(pr, ev), ev)
  <1> DEFINE st == [pr EXCEPT !.status = ApplyStatus(ev, @)]
             r == ApplySession(pr, ev)
  <1>1. Record(st) /\ st.status = ApplyStatus(ev, pr.status) /\ st.parts = pr.parts
        /\ st.quorum = pr.quorum /\ st.decision = pr.decision
    BY DEF Shape, Record, Fields
  <1>2. /\ ApplyStatus(ev, pr.status) \in RunStatus
        /\ pr.status \in Terminal \/ ev.data \in SessionTerminal =>
             ApplyStatus(ev, pr.status) \in Terminal
    BY SessionStatus DEF Shape, GoodEvent
  <1>3. Shape(st)
    BY <1>1, <1>2 DEF Shape
  <1>4. ev.type \notin RunEventType /\ ev.type # "message.received" /\ ev.type # "decision.finalized"
        /\ ev.type \notin SettlingType /\ (EndsRun(ev) <=> ev.data \in SessionTerminal)
    BY DEF RunEventType, SessionEventType, SettlingType, EndsRun, TerminalEventType
  <1> HIDE DEF st
  <1>5. CASE ev.data \in SessionTerminal
    <2>1. r = SweepTerminal(st, st.status)
      BY <1>5 DEF ApplySession, st
    <2> HIDE DEF r
    <2>2. /\ Shape(r) /\ DOMAIN r.parts = DOMAIN pr.parts
          /\ r.status = st.status /\ r.quorum = pr.quorum /\ r.decision = pr.decision
          /\ \A p \in DOMAIN pr.parts : r.parts[p].status \in ParticipantTerminal
      BY <1>1, <1>3, <2>1, SweepFacts
    <2>3. After(pr, r, ev)
      BY <1>1, <1>2, <1>4, <1>5, <2>2 DEF After
    <2> QED  BY <2>3 DEF r
  <1>6. CASE ev.data \notin SessionTerminal
    <2>1. r = st
      BY <1>6 DEF ApplySession, st
    <2> HIDE DEF r
    <2>2. Late(pr, st)
      BY <1>1, <1>2 DEF Late
    <2>3. After(pr, r, ev)
      BY <1>1, <1>3, <1>4, <1>6, <2>1, <2>2 DEF After
    <2> QED  BY <2>3 DEF r
  <1> QED  BY <1>5, <1>6

\* Proposals leave a committed decision, and votes a settled quorum, alone.
LEMMA ProposalFacts ==
  ASSUME NEW pr, Shape(pr), NEW ev, ev.type \in {"proposal.created", "proposal.updated"}
  PROVE  After(pr, ApplyProposal(pr, ev), ev)
  <1> DEFINE current == IF pr.decision.finalized THEN pr
                        ELSE [pr EXCEPT !.decision.action = ev.id, !.decision.proposalId = ev.id]
             vote == InferContributionVote(ev)
             r == ApplyProposal(pr, ev)
  <1>1. Record(current) /\ current.status = pr.status /\ current.parts = pr.parts
        /\ current.quorum = pr.quorum
        /\ (pr.decision.finalized => current.decision = pr.decision)
    BY DEF Shape, Record, Fields
  <1>2. r = IF vote = "none" THEN current ELSE BumpVoteTally(current, ev.id, vote)
    BY Zenon DEF ApplyProposal
  <1> HIDE DEF current, vote, r
  <1>3. \/ r = current
        \/ \E t : r = [current EXCEPT !.tally = t, !.quorum = Settle(@, "pending")]
    BY <1>2, Zenon DEF BumpVoteTally
  <1>4. Record(r) /\ r.status = pr.status /\ r.parts = pr.parts
        /\ (pr.decision.finalized => r.decision = pr.decision)
        /\ r.quorum \in {"undefined", "pending"} \cup SettledQuorum
        /\ (pr.quorum \in SettledQuorum => r.quorum \in SettledQuorum)
    <2>1. CASE r = current
      BY <1>1, <2>1 DEF Shape
    <2>2. CASE \E t : r = [current EXCEPT !.tally = t, !.quorum = Settle(@, "pending")]
      <3>1. PICK t : r = [current EXCEPT !.tally = t, !.quorum = Settle(@, "pending")]
        BY <2>2
      <3>2. Record(r) /\ r.status = current.status /\ r.parts = current.parts
            /\ r.decision = current.decision /\ r.quorum = Settle(current.quorum, "pending")
        BY <1>1, <3>1 DEF Record, Fields
      <3>3. Settle(pr.quorum, "pending") \in {"undefined", "pending"} \cup SettledQuorum
            /\ (pr.quorum \in SettledQuorum => Settle(pr.quorum, "pending") \in SettledQuorum)
        BY DEF Settle, SettledQuorum, Shape
      <3> QED  BY <1>1, <3>2, <3>3
    <2> QED  BY <1>3, <2>1, <2>2
  <1>5. Shape(r) /\ Late(pr, r)
    BY <1>4 DEF Shape, Late
  <1>6. ev.type \notin SettlingType /\ ~ EndsRun(ev) /\ ev.type # "message.received"
        /\ ev.type # "decision.finalized"
    BY DEF SettlingType, EndsRun, TerminalEventType, SessionEventType
  <1>7. After(pr, r, ev)
    BY <1>4, <1>5, <1>6 DEF After
  <1> QED  BY <1>7 DEF r

\* A commitment is the decision, and settles the quorum.
LEMMA DecisionFacts ==
  ASSUME NEW pr, Shape(pr), NEW ev, ev.type = "decision.finalized"
  PROVE  After(pr, ApplyDecision(pr, ev), ev)
  <1> DEFINE r == ApplyDecision(pr, ev)
             o == IF InferOutcomePositive(ev.payload) = "false" THEN "failed" ELSE "reached"
  <1>1. ApplyStatus(ev, pr.status) = "completed"
    BY DEF ApplyStatus, RunEventType, SessionEventType
  <1>2. Record(r) /\ r.status = "completed" /\ r.parts = pr.parts
        /\ r.decision.finalized /\ r.decision.action = CommittedAction(ev.payload)
        /\ r.quorum = Settle(pr.quorum, o)
    BY <1>1 DEF ApplyDecision, Shape, Record, Fields
  <1>3. Settle(pr.quorum, o) \in SettledQuorum
    BY DEF Settle, SettledQuorum, Shape
  <1> HIDE DEF r, o
  <1>4. "completed" \in RunStatus /\ "completed" \in Terminal
    BY DEF RunStatus, Terminal
  <1>5. Shape(r) /\ Late(pr, r)
    BY <1>2, <1>3, <1>4 DEF Shape, Late
  <1>6. ~ EndsRun(ev)
    BY DEF EndsRun, TerminalEventType, SessionEventType
  <1>7. After(pr, r, ev)
    BY <1>2, <1>3, <1>5, <1>6 DEF After
  <1> QED  BY <1>7 DEF r

\* An evaluation that allows reaches the quorum; any other leaves it.
LEMMA EvaluationFacts ==
  ASSUME NEW pr, Shape(pr), NEW ev, ev.type = "policy.commitment.evaluated"
  PROVE  After(pr, ApplyEvaluation(pr, ev), ev)
  <1> DEFINE r == ApplyEvaluation(pr, ev)
  <1>1. Record(r) /\ r.status = pr.status /\ r.parts = pr.parts /\ r.decision = pr.decision
        /\ r.quorum \in {"reached", pr.quorum}
    BY DEF ApplyEvaluation, Shape, Record, Fields
  <1> HIDE DEF r
  <1>2. Shape(r) /\ Late(pr, r) /\ (pr.quorum \in SettledQuorum => r.quorum \in SettledQuorum)
    BY <1>1 DEF Shape, Late, SettledQuorum
  <1>3. ev.type \notin SettlingType /\ ~ EndsRun(ev)
    BY DEF SettlingType, EndsRun, TerminalEventType, SessionEventType
  <1>4. After(pr, r, ev)
    BY <1>1, <1>2, <1>3 DEF After
  <1> QED  BY <1>4 DEF r

\* Every event.
LEMMA EventFacts ==
  ASSUME NEW pr, Shape(pr), NEW ev, GoodEvent(ev)
  PROVE  After(pr, ApplyEvent(pr, ev), ev)
  <1> DEFINE r == ApplyEvent(pr, ev)
             Told == {"message.received", "decision.finalized", "policy.commitment.evaluated",
                      "proposal.created", "proposal.updated", "participant.seen"}
  <1>1. CASE ev.type \in RunEventType
    <2>1. r = ApplyRun(pr, ev)
      BY <1>1 DEF ApplyEvent, RunEventType, SessionEventType
    <2> QED  BY <1>1, <2>1, RunFacts, Zenon
  <1>2. CASE ev.type \in SessionEventType
    <2>1. r = ApplySession(pr, ev)
      BY <1>2 DEF ApplyEvent, RunEventType, SessionEventType
    <2> QED  BY <1>2, <2>1, SessionFacts, Zenon
  <1>3. CASE ev.type = "message.received"
    <2>1. r = ApplyMessage(pr, ev)
      BY <1>3 DEF ApplyEvent, RunEventType, SessionEventType
    <2>2. Touched(pr, r) /\ ev.sender \in DOMAIN r.parts
      BY <1>3, <2>1, MessageFacts, Zenon DEF GoodEvent
    <2>3. ~ EndsRun(ev) /\ ev.type \notin RunEventType
      BY <1>3 DEF EndsRun, TerminalEventType, SessionEventType, RunEventType
    <2> HIDE DEF r
    <2>4. After(pr, r, ev)
      BY <1>3, <2>2, <2>3, TouchedAfter
    <2> QED  BY <2>4 DEF r
  <1>4. CASE ev.type = "participant.seen"
    <2>1. r = SeeParticipant(pr, ev.id)
      BY <1>4 DEF ApplyEvent, RunEventType, SessionEventType
    <2>2. Touched(pr, r)
      BY <2>1, SeeFacts, Zenon
    <2>3. ~ EndsRun(ev) /\ ev.type \notin RunEventType
      BY <1>4 DEF EndsRun, TerminalEventType, SessionEventType, RunEventType
    <2> HIDE DEF r
    <2>4. After(pr, r, ev)
      BY <1>4, <2>2, <2>3, TouchedAfter
    <2> QED  BY <2>4 DEF r
  <1>5. CASE ev.type = "decision.finalized"
    <2>1. r = ApplyDecision(pr, ev)
      BY <1>5 DEF ApplyEvent, RunEventType, SessionEventType
    <2> QED  BY <1>5, <2>1, DecisionFacts, Zenon
  <1>6. CASE ev.type \in {"proposal.created", "proposal.updated"}
    <2>1. r = ApplyProposal(pr, ev)
      BY <1>6 DEF ApplyEvent, RunEventType, SessionEventType
    <2>2. After(pr, ApplyProposal(pr, ev), ev)
      BY <1>6, ProposalFacts
    <2> QED  BY <2>1, <2>2, Zenon
  <1>7. CASE ev.type = "policy.commitment.evaluated"
    <2>1. r = ApplyEvaluation(pr, ev)
      BY <1>7 DEF ApplyEvent, RunEventType, SessionEventType
    <2> QED  BY <1>7, <2>1, EvaluationFacts, Zenon
  <1>8. CASE ev.type \notin RunEventType \cup SessionEventType \cup Told
    <2>1. Same(pr, r)
      <3>0. Record(pr)
        BY DEF Shape
      <3>1. CASE ev.type = "session.stream.gap"
        BY <3>0, <3>1 DEF ApplyEvent, RunEventType, SessionEventType, Same, Record, Fields
      <3>2. CASE ev.type = "message.send_failed"
        BY <3>0, <3>2 DEF ApplyEvent, RunEventType, SessionEventType, Same, Record, Fields
      <3>3. CASE ev.type = "signal.emitted"
        BY <3>0, <3>3 DEF ApplyEvent, ApplySignal, RunEventType, SessionEventType, Same, Record, Fields
      <3>4. CASE ev.type = "signal.acknowledged"
        <4>1. r = ApplyAck(pr, ev)
          BY <3>4 DEF ApplyEvent, RunEventType, SessionEventType
        <4>2. Same(pr, ApplyAck(pr, ev))
          BY <3>0 DEF ApplyAck, Same, Record, Fields
        <4> QED  BY <4>1, <4>2
      <3>5. CASE ev.type = "progress.reported"
        BY <3>0, <3>5 DEF ApplyEvent, RunEventType, SessionEventType, Same, Record, Fields
      <3>6. CASE ev.type = "artifact.created"
        BY <3>0, <3>6 DEF ApplyEvent, RunEventType, SessionEventType, Same, Record, Fields
      <3>7. CASE ev.type = "policy.resolved"
        BY <3>0, <3>7 DEF ApplyEvent, RunEventType, SessionEventType, Same, Record, Fields
      <3>8. CASE ev.type = "llm.call.completed"
        BY <3>0, <3>8 DEF ApplyEvent, RunEventType, SessionEventType, Same, Record, Fields
      <3>9. CASE ev.type \notin {"session.stream.gap", "message.send_failed", "signal.emitted",
                                 "signal.acknowledged", "progress.reported", "artifact.created",
                                 "policy.resolved", "llm.call.completed"}
        <4>1. r = pr
          BY <1>8, <3>9 DEF ApplyEvent
        <4> QED  BY <3>0, <4>1 DEF Same
      <3> QED  BY <3>1, <3>2, <3>3, <3>4, <3>5, <3>6, <3>7, <3>8, <3>9
    <2> HIDE DEF r
    <2>2. Touched(pr, r)
      BY <2>1, SameIsTouched
    <2>3. ~ EndsRun(ev)
      BY <1>8 DEF EndsRun, TerminalEventType, RunEventType
    <2>4. After(pr, r, ev)
      BY <1>8, <2>2, <2>3, TouchedAfter
    <2> QED  BY <2>4 DEF r
  <1> QED  BY <1>1, <1>2, <1>3, <1>4, <1>5, <1>6, <1>7, <1>8

-------------------------------------------------------------------------------
(* A batch. *)

\* A list of good events, with no two different commitments.
GoodBatch(evs) ==
  /\ Len(evs) \in Nat /\ DOMAIN evs = 1 .. Len(evs)
  /\ \A i \in DOMAIN evs : GoodEvent(evs[i])
  /\ \A i, j \in DOMAIN evs :
       evs[i].type = "decision.finalized" /\ evs[j].type = "decision.finalized" =>
         evs[i].payload = evs[j].payload

\* After, for the first k events of a batch together.
Folded(pr, r, evs, k) ==
  /\ Shape(r)
  /\ DOMAIN pr.parts \subseteq DOMAIN r.parts
  /\ \A i \in 1 .. k : evs[i].type = "message.received" => evs[i].sender \in DOMAIN r.parts
  /\ \A i \in 1 .. k : evs[i].type = "decision.finalized" =>
       r.decision.finalized /\ r.decision.action = CommittedAction(evs[i].payload)
  /\ (\A i \in 1 .. k : evs[i].type # "decision.finalized") /\ pr.decision.finalized =>
       r.decision = pr.decision
  /\ pr.quorum \in SettledQuorum \/ (\E i \in 1 .. k : evs[i].type \in SettlingType) =>
       r.quorum \in SettledQuorum
  /\ (\A i \in 1 .. k : evs[i].type \notin RunEventType /\ ~ EndsRun(evs[i])) => Late(pr, r)

LEMMA LateTransitive ==
  ASSUME NEW a, NEW b, NEW c, Late(a, b), Late(b, c) PROVE Late(a, c)
  BY DEF Late

\* One more event.
LEMMA FoldedStep ==
  ASSUME NEW pr, NEW a, NEW r, NEW evs, GoodBatch(evs), NEW k \in 1 .. Len(evs),
         Folded(pr, a, evs, k - 1), After(a, r, evs[k])
  PROVE  Folded(pr, r, evs, k)
  <1>1. k \in 1 .. k /\ \A i \in 1 .. k : i \in DOMAIN evs /\ (i = k \/ i \in 1 .. k - 1)
    BY DEF GoodBatch
  <1>2. \A i \in 1 .. k - 1 : i \in 1 .. k
    BY DEF GoodBatch
  <1>3. Shape(r) /\ DOMAIN pr.parts \subseteq DOMAIN r.parts
    BY DEF After, Folded
  <1>4. \A i \in 1 .. k : evs[i].type = "message.received" => evs[i].sender \in DOMAIN r.parts
    BY <1>1, Zenon DEF After, Folded
  <1>5. ASSUME NEW i \in 1 .. k, evs[i].type = "decision.finalized"
        PROVE  r.decision.finalized /\ r.decision.action = CommittedAction(evs[i].payload)
    <2>1. CASE evs[k].type = "decision.finalized"
      <3>1. evs[i].payload = evs[k].payload
        BY <1>1, <1>5, <2>1, Zenon DEF GoodBatch
      <3> QED  BY <2>1, <3>1, Zenon DEF After
    <2>2. CASE evs[k].type # "decision.finalized"
      <3>1. a.decision.finalized /\ a.decision.action = CommittedAction(evs[i].payload)
        BY <1>1, <1>5, <2>2, Zenon DEF Folded
      <3>2. r.decision = a.decision
        BY <2>2, <3>1, Zenon DEF After
      <3> QED  BY <3>1, <3>2, Zenon
    <2> QED  BY <2>1, <2>2
  <1>6. ASSUME \A i \in 1 .. k : evs[i].type # "decision.finalized", pr.decision.finalized
        PROVE  r.decision = pr.decision
    <2>1. a.decision = pr.decision
      BY <1>2, <1>6, Zenon DEF Folded
    <2> QED  BY <1>1, <1>6, <2>1, Zenon DEF After
  <1>7. ASSUME pr.quorum \in SettledQuorum \/ (\E i \in 1 .. k : evs[i].type \in SettlingType)
        PROVE  r.quorum \in SettledQuorum
    <2>1. a.quorum \in SettledQuorum \/ evs[k].type \in SettlingType
      BY <1>1, <1>7, Zenon DEF Folded
    <2> QED  BY <2>1, Zenon DEF After
  <1>8. ASSUME \A i \in 1 .. k : evs[i].type \notin RunEventType /\ ~ EndsRun(evs[i])
        PROVE  Late(pr, r)
    <2>1. Late(pr, a)
      BY <1>2, <1>8, Zenon DEF Folded
    <2>2. Late(a, r)
      BY <1>1, <1>8, Zenon DEF After
    <2> QED  BY <2>1, <2>2, LateTransitive, Zenon
  <1> QED  BY <1>3, <1>4, <1>5, <1>6, <1>7, <1>8, Zenon DEF Folded

\* What a batch does; and if it is one event, what that event does.
LEMMA BatchFacts ==
  ASSUME NEW pr, Shape(pr), NEW evs, GoodBatch(evs)
  PROVE  /\ Folded(pr, ApplyEvents(pr, evs), evs, Len(evs))
         /\ Len(evs) = 1 => After(pr, ApplyEvents(pr, evs), evs[1])
  <1> DEFINE N == Len(evs)
  <1>0. N \in Nat /\ DOMAIN evs = 1 .. N /\ \A i \in 1 .. N : GoodEvent(evs[i])
    BY DEF GoodBatch
  <1>1. PICK g : Steps(g, N, pr, evs) /\ ApplyEvents(pr, evs) = g[N]
    BY <1>0, BatchSteps
  <1>2. \A j \in 0 .. N : g[j] = IF j = 0 THEN pr ELSE ApplyEvent(g[j - 1], evs[j])
    BY <1>1, Zenon DEF Steps
  <1>3. Folded(pr, g[0], evs, 0)
    <2>1. g[0] = pr /\ 1 .. 0 = {}
      BY <1>0, <1>2
    <2>2. Late(pr, pr)
      BY DEF Late
    <2> QED  BY <2>1, <2>2 DEF Folded
  <1> DEFINE Bad == {k \in 0 .. N : ~ Folded(pr, g[k], evs, k)}
  <1>4. Bad = {}
    <2>1. SUFFICES ASSUME Bad # {} PROVE FALSE
      OBVIOUS
    <2>2. PICK k \in Bad : \A j \in Bad : k <= j
      <3>1. Bad \in SUBSET Nat
        BY <1>0
      <3> HIDE DEF Bad
      <3> QED  BY <2>1, <3>1, LeastNatural
    <2>3. k # 0
      BY <1>3, <2>2
    <2>4. k \in 1 .. N /\ k - 1 \in 0 .. N /\ k - 1 \notin Bad /\ k \in 0 .. N
      BY <1>0, <2>2, <2>3
    <2>5. Folded(pr, g[k - 1], evs, k - 1) /\ g[k] = ApplyEvent(g[k - 1], evs[k])
      BY <1>2, <2>3, <2>4
    <2>6. Shape(g[k - 1]) /\ GoodEvent(evs[k])
      BY <1>0, <2>4, <2>5, Zenon DEF Folded
    <2>7. After(g[k - 1], g[k], evs[k])
      BY <2>5, <2>6, EventFacts, Zenon
    <2>8. Folded(pr, g[k], evs, k)
      BY <2>4, <2>5, <2>7, FoldedStep
    <2> QED  BY <2>2, <2>8
  <1>5. Folded(pr, g[N], evs, N)
    BY <1>0, <1>4
  <1>6. ASSUME N = 1 PROVE After(pr, g[N], evs[1])
    <2>1. 0 \in 0 .. N /\ 1 \in 0 .. N /\ 1 \in 1 .. N /\ 1 - 1 = 0 /\ 1 # 0
      BY <1>6
    <2>2. g[0] = pr /\ g[1] = ApplyEvent(g[0], evs[1])
      BY <1>2, <2>1
    <2> QED  BY <1>0, <1>6, <2>1, <2>2, EventFacts, Zenon
  <1> QED  BY <1>1, <1>5, <1>6

-------------------------------------------------------------------------------
(* The batches of RunView. *)

LEMMA WhenSeq ==
  ASSUME NEW E, NEW cond, NEW ev \in E PROVE When(cond, ev) \in Seq(E)
  <1>1. <<ev>> \in Seq(E) /\ <<>> \in Seq(E)
    OBVIOUS
  <1> QED  BY <1>1, Zenon DEF When

EnvelopeType ==
  {"message.received", "llm.call.completed", "signal.emitted", "signal.acknowledged",
   "decision.finalized", "proposal.created", "proposal.updated", "progress.reported",
   "policy.resolved", "policy.commitment.evaluated", "policy.denied", "tool.called",
   "tool.completed"}

\* What an envelope may become.
EnvelopeEvent(f, ts) ==
  {Attributed(type, f, ts, id) : type \in EnvelopeType,
                                 id \in {f.id, f.payload.id, f.sender}}
  \cup {MakeEvent("participant.seen", ts, f.sender, f.msg, f.sender, "none", NoPayload)}

\* Every event of an envelope is about that envelope.
LEMMA EnvelopeFacts ==
  ASSUME NEW f, NEW ts, NEW seen PROVE EnvelopeEvents(f, ts, seen) \in Seq(EnvelopeEvent(f, ts))
  <1> DEFINE E == EnvelopeEvent(f, ts)
  <1>1. \A type \in EnvelopeType, id \in {f.id, f.payload.id, f.sender} : Attributed(type, f, ts, id) \in E
    BY DEF EnvelopeEvent
  <1>2. MakeEvent("participant.seen", ts, f.sender, f.msg, f.sender, "none", NoPayload) \in E
    BY DEF EnvelopeEvent
  <1> HIDE DEF E
  <1>3. /\ "message.received" \in EnvelopeType /\ "llm.call.completed" \in EnvelopeType
        /\ "progress.reported" \in EnvelopeType /\ "policy.resolved" \in EnvelopeType
        /\ "policy.commitment.evaluated" \in EnvelopeType /\ "policy.denied" \in EnvelopeType
    BY DEF EnvelopeType
  <1>4. \A type \in EnvelopeType : DeriveSubject(type, f) \in {f.id, f.payload.id, f.sender}
    BY DEF DeriveSubject
  <1>5. DeriveEventType(f.msg) # "none" => DeriveEventType(f.msg) \in EnvelopeType
    BY DEF DeriveEventType, EnvelopeType
  <1>6. ParticipantSeen(f, ts, seen) \in Seq(E)
    BY <1>2, WhenSeq, Zenon DEF ParticipantSeen
  <1>7. MessageReceived(f, ts) \in Seq(E)
    <2>1. Attributed("message.received", f, ts, f.id) \in E
      BY <1>1, <1>3
    <2>2. \A e \in E : <<e>> \in Seq(E)
      OBVIOUS
    <2> QED  BY <2>1, <2>2, Zenon DEF MessageReceived
  <1>8. LlmCall(f, ts) \in Seq(E)
    <2>1. Attributed("llm.call.completed", f, ts, f.id) \in E
      BY <1>1, <1>3
    <2> QED  BY <2>1, WhenSeq, Zenon DEF LlmCall
  <1>9. DerivedEvent(f, ts) \in Seq(E)
    <2> DEFINE type == DeriveEventType(f.msg)
    <2>1. CASE type # "none"
      <3>1. Attributed(type, f, ts, DeriveSubject(type, f)) \in E
        BY <1>1, <1>4, <1>5, <2>1, Zenon
      <3> QED  BY <3>1, WhenSeq, Zenon DEF DerivedEvent
    <2>2. CASE type = "none"
      <3>1. DerivedEvent(f, ts) = <<>>
        BY <2>2 DEF DerivedEvent, When
      <3> QED  BY <3>1
    <2> QED  BY <2>1, <2>2
  <1>10. TaskProgress(f, ts) \in Seq(E)
    <2>1. Attributed("progress.reported", f, ts, f.id) \in E
      BY <1>1, <1>3
    <2> QED  BY <2>1, WhenSeq, Zenon DEF TaskProgress
  <1>11. PolicyEvents(f, ts) \in Seq(E)
    <2> DEFINE a == When(f.msg = "PolicyResolved" /\ f.decoded, Attributed("policy.resolved", f, ts, f.payload.id))
               b == When(f.msg = "PolicyCommitmentEvaluated" /\ f.decoded,
                         Attributed("policy.commitment.evaluated", f, ts, f.payload.id))
               c == When(f.msg = "PolicyDenied" \/ f.payload.denied,
                         Attributed("policy.denied", f, ts, f.payload.id))
    <2>1. /\ Attributed("policy.resolved", f, ts, f.payload.id) \in E
          /\ Attributed("policy.commitment.evaluated", f, ts, f.payload.id) \in E
          /\ Attributed("policy.denied", f, ts, f.payload.id) \in E
      BY <1>1, <1>3
    <2>2. a \in Seq(E) /\ b \in Seq(E) /\ c \in Seq(E)
      BY <2>1, WhenSeq, Zenon
    <2>3. PolicyEvents(f, ts) = a \o b \o c
      BY Zenon DEF PolicyEvents
    <2> HIDE DEF a, b, c
    <2> QED  BY <2>2, <2>3
  <1>12. AmbientProgress(f, ts) \in Seq(E)
    <2>1. Attributed("progress.reported", f, ts, f.sender) \in E
      BY <1>1, <1>3
    <2> QED  BY <2>1, WhenSeq, Zenon DEF AmbientProgress
  <1>13. EnvelopeEvents(f, ts, seen) \in Seq(E)
    BY <1>6, <1>7, <1>8, <1>9, <1>10, <1>11, <1>12 DEF EnvelopeEvents
  <1> QED  BY <1>13 DEF E

\* The lifecycle events come in batches of their own.
LifecycleApart(evs) ==
  \A i \in DOMAIN evs :
    /\ evs[i].type \in RunEventType => evs[i].type \in TerminalEventType \/ ReopensRun(evs[i])
    /\ evs[i].type \in RunEventType \/ EndsRun(evs[i]) => Len(evs) = 1

LEMMA Alone ==
  ASSUME NEW ev, GoodEvent(ev),
         ev.type \in RunEventType => ev.type \in TerminalEventType \/ ReopensRun(ev)
  PROVE  GoodBatch(<<ev>>) /\ LifecycleApart(<<ev>>)
  <1>1. Len(<<ev>>) = 1 /\ DOMAIN <<ev>> = 1 .. 1 /\ 1 \in Nat /\ \A i \in 1 .. 1 : <<ev>>[i] = ev
    OBVIOUS
  <1> DEFINE evs == <<ev>>
  <1> HIDE DEF evs
  <1>2. Len(evs) = 1 /\ DOMAIN evs = 1 .. 1 /\ 1 \in Nat /\ \A i \in 1 .. 1 : evs[i] = ev
    BY <1>1 DEF evs
  <1>3. GoodBatch(evs) /\ LifecycleApart(evs)
    BY <1>2, Zenon DEF GoodBatch, LifecycleApart
  <1> QED  BY <1>3 DEF evs

\* Every frame becomes a good batch.
LEMMA NormalizeFacts ==
  ASSUME NEW f \in Frames \cup Signals, NEW ts \in Int, NEW seen
  PROVE  GoodBatch(Normalize(f, ts, seen)) /\ LifecycleApart(Normalize(f, ts, seen))
  <1> DEFINE evs == Normalize(f, ts, seen)
  <1>1. CASE f.kind = "stream-status"
    <2> DEFINE ev == PlainEvent("session.stream.opened", ts, "session", "none")
    <2>1. evs = <<ev>>
      BY <1>1 DEF Normalize
    <2>2. ev.type = "session.stream.opened"
      BY DEF PlainEvent, MakeEvent
    <2> HIDE DEF ev
    <2>3. GoodEvent(ev) /\ ev.type \notin RunEventType
      BY <2>2 DEF GoodEvent, RunEventType, TerminalEventType, SessionEventType
    <2> QED  BY <2>1, <2>3, Alone, Zenon
  <1>2. CASE f.kind = "session-snapshot"
    <2> DEFINE ev == PlainEvent("session.state.changed", ts, "session", f.state)
    <2>1. evs = <<ev>>
      BY <1>2 DEF Normalize
    <2>2. ev.type = "session.state.changed" /\ ev.data = f.state
      BY DEF PlainEvent, MakeEvent
    <2>3. f.state \in SessionState
      BY <1>2, FramesAssumption
    <2> HIDE DEF ev
    <2>4. GoodEvent(ev) /\ ev.type \notin RunEventType
      BY <2>2, <2>3 DEF GoodEvent, RunEventType, TerminalEventType, SessionEventType
    <2> QED  BY <2>1, <2>4, Alone, Zenon
  <1>3. CASE f.kind = "stream-inline-error"
    <2> DEFINE a == PlainEvent("message.send_failed", ts, f.id, "none")
               b == PlainEvent("policy.denied", ts, f.id, "none")
               E == {a, b}
    <2>1. a.type = "message.send_failed" /\ b.type = "policy.denied"
      BY DEF PlainEvent, MakeEvent
    <2>2. evs = <<a>> \o When(f.payload.denied, b)
      BY <1>3, Zenon DEF Normalize, InlineErrorEvents
    <2> HIDE DEF a, b
    <2>3. a \in E /\ b \in E
      OBVIOUS
    <2>4. \A e \in E : e.type \in {"message.send_failed", "policy.denied"}
      BY <2>1
    <2> HIDE DEF E
    <2>5. <<a>> \in Seq(E) /\ When(f.payload.denied, b) \in Seq(E)
      BY <2>3, WhenSeq
    <2> HIDE DEF evs
    <2>6. evs \in Seq(E)
      BY <2>2, <2>5
    <2>7. Len(evs) \in Nat /\ DOMAIN evs = 1 .. Len(evs) /\ \A i \in DOMAIN evs : evs[i] \in E
      BY <2>6
    <2>8. \A i \in DOMAIN evs : evs[i].type \in {"message.send_failed", "policy.denied"}
      BY <2>4, <2>7, Zenon
    <2>9. \A i \in DOMAIN evs : /\ GoodEvent(evs[i]) /\ ~ EndsRun(evs[i])
                                /\ evs[i].type \notin RunEventType /\ evs[i].type # "decision.finalized"
      BY <2>8 DEF GoodEvent, EndsRun, RunEventType, TerminalEventType, SessionEventType
    <2>10. GoodBatch(evs) /\ LifecycleApart(evs)
      BY <2>7, <2>9, Zenon DEF GoodBatch, LifecycleApart
    <2> QED  BY <2>10 DEF evs
  <1>4. CASE f.kind = "stream-envelope"
    <2> DEFINE E == EnvelopeEvent(f, ts)
    <2>1. evs \in Seq(E)
      BY <1>4, EnvelopeFacts DEF Normalize
    <2>2. Len(f.payload.participants) \in Nat
      <3>1. f.payload.participants \in Seq(ToSet(f.payload.participants))
        BY <1>4, FramesAssumption
      <3> QED  BY <3>1
    <2>3. \A e \in E : /\ e.type \in EnvelopeType \cup {"participant.seen"} /\ e.ts = ts
                       /\ e.type \in EnvelopeType => e.payload = f.payload
      BY DEF EnvelopeEvent, Attributed, MakeEvent, EnvelopeType
    <2>4. "message.received" \in EnvelopeType /\ "decision.finalized" \in EnvelopeType
      BY DEF EnvelopeType
    <2> HIDE DEF E, evs
    <2>5. Len(evs) \in Nat /\ DOMAIN evs = 1 .. Len(evs) /\ \A i \in DOMAIN evs : evs[i] \in E
      BY <2>1
    <2>6. \A e \in E : /\ e.type \notin RunEventType /\ ~ EndsRun(e)
                       /\ e.type \notin SessionEventType /\ e.type \notin TerminalEventType
      BY <2>3 DEF EndsRun, RunEventType, TerminalEventType, SessionEventType, EnvelopeType
    <2>7. \A e \in E : e.type = "message.received" => GoodMessage(e)
      BY <2>2, <2>3, <2>4, Zenon DEF GoodMessage
    <2>8. \A e \in E : GoodEvent(e)
      BY <2>6, <2>7, Zenon DEF GoodEvent
    <2>9. GoodBatch(evs) /\ LifecycleApart(evs)
      BY <2>3, <2>4, <2>5, <2>6, <2>8, Zenon DEF GoodBatch, LifecycleApart
    <2> QED  BY <2>9 DEF evs
  <1> QED  BY <1>1, <1>2, <1>3, <1>4, FramesAssumption

\* An event of the control plane itself.
LEMMA PlainFacts ==
  ASSUME NEW ts, NEW id, NEW data,
         NEW type \in {"artifact.created", "session.stream.gap", "participant.seen"}
  PROVE  GoodEvent(PlainEvent(type, ts, id, data)) /\ type \notin RunEventType
  <1>1. PlainEvent(type, ts, id, data).type = type
    BY DEF PlainEvent, MakeEvent
  <1> QED  BY <1>1 DEF GoodEvent, RunEventType, TerminalEventType, SessionEventType

-------------------------------------------------------------------------------
(* The invariant. *)

RVInv ==
  /\ Shape(proj)
  /\ batches \in Nat
  /\ DecisionIsLastCommitment
  /\ QuorumSettled
  /\ SendersAreShown
  /\ SweptStaySwept
  /\ swept \subseteq DOMAIN proj.parts
  /\ swept # {} => proj.status \in Terminal

LEMMA EmptyShape == Shape(Empty)
  <1>1. IsFiniteSet({})
    BY FS_EmptySet
  <1>2. Record(Empty) /\ Empty.status = "queued" /\ Empty.quorum = "undefined" /\ Empty.parts = <<>>
    BY DEF Empty, EmptyStatus, Record, Fields
  <1>3. DOMAIN Empty.parts = {} /\ Empty.parts \in [{} -> Part]
    BY <1>2
  <1> QED  BY <1>1, <1>2, <1>3 DEF Shape, RunStatus

\* What starts a run is a good batch too.
LEMMA InitFacts == Init => RVInv
  <1> SUFFICES ASSUME Init PROVE RVInv
    OBVIOUS
  <1> DEFINE state == PlainEvent("session.state.changed", 0, "session", "OPEN")
  <1>1. PICK ps \in Declared : proj = ApplyEvents(Empty, Started \o Announced(ps) \o <<state>>)
    BY DEF Init
  <1> DEFINE created == PlainEvent("run.created", 0, "run", "queued")
             started == PlainEvent("run.started", 0, "run", "starting")
             bound == PlainEvent("session.bound", 0, "session", "OPEN")
             seen == {PlainEvent("participant.seen", 0, p, "none") : p \in ToSet(ps)}
             E == {created, started, bound, state} \cup seen
             evs == Started \o Announced(ps) \o <<state>>
  <1>2. /\ created.type = "run.created" /\ created.data = "queued"
        /\ started.type = "run.started" /\ started.data = "starting"
        /\ bound.type = "session.bound" /\ bound.data = "OPEN"
        /\ state.type = "session.state.changed" /\ state.data = "OPEN"
    BY DEF PlainEvent, MakeEvent
  <1>3. Started = <<created, started, bound>>
    BY DEF Started
  <1>4. \A e \in seen : GoodEvent(e) /\ e.type # "decision.finalized"
    <2>1. \A p : PlainEvent("participant.seen", 0, p, "none").type = "participant.seen"
      BY DEF PlainEvent, MakeEvent
    <2>2. \A p : GoodEvent(PlainEvent("participant.seen", 0, p, "none"))
      BY PlainFacts
    <2> QED  BY <2>1, <2>2
  <1>5. Announced(ps) \in Seq(seen)
    <2>1. ps \in Seq(ToSet(ps))
      BY DeclaredAssumption
    <2>2. /\ Len(ps) \in Nat /\ DOMAIN ps = 1 .. Len(ps)
          /\ \A i \in 1 .. Len(ps) : ps[i] \in ToSet(ps)
      BY <2>1
    <2>3. \A i \in 1 .. Len(ps) : PlainEvent("participant.seen", 0, ps[i], "none") \in seen
      BY <2>2
    <2> HIDE DEF seen
    <2>4. Announced(ps) \in [1 .. Len(ps) -> seen]
      BY <2>2, <2>3 DEF Announced
    <2> QED  BY <2>2, <2>4
  <1> HIDE DEF created, started, bound, state, seen
  <1>6. \A e \in {created, started, bound, state} : GoodEvent(e) /\ e.type # "decision.finalized"
    <2>1. "queued" \in RunStatus /\ "starting" \in RunStatus /\ "OPEN" \in SessionState
      BY DEF RunStatus, SessionState
    <2> QED  BY <1>2, <2>1 DEF GoodEvent, RunEventType, TerminalEventType, SessionEventType
  <1>7. evs \in Seq(E)
    <2>1. created \in E /\ started \in E /\ bound \in E /\ state \in E /\ \A e \in seen : e \in E
      OBVIOUS
    <2> HIDE DEF E
    <2>2. Started \in Seq(E) /\ <<state>> \in Seq(E)
      BY <1>3, <2>1
    <2>3. Announced(ps) \in Seq(E)
      BY <1>5, <2>1
    <2> QED  BY <2>2, <2>3
  <1>8. \A e \in E : GoodEvent(e) /\ e.type # "decision.finalized"
    BY <1>4, <1>6
  <1> HIDE DEF E
  <1>9. proj = ApplyEvents(Empty, evs)
    BY <1>1
  <1> HIDE DEF evs
  <1>10. Len(evs) \in Nat /\ DOMAIN evs = 1 .. Len(evs) /\ \A i \in DOMAIN evs : evs[i] \in E
    BY <1>7
  <1>11. GoodBatch(evs)
    BY <1>8, <1>10, Zenon DEF GoodBatch
  <1>12. Shape(proj)
    BY <1>9, <1>11, EmptyShape, BatchFacts, Zenon DEF Folded
  <1>13. batches = 0 /\ sent = {} /\ committed = "none" /\ settled = FALSE /\ swept = {}
    BY DEF Init
  <1> QED
    BY <1>12, <1>13 DEF RVInv, DecisionIsLastCommitment, QuorumSettled, SendersAreShown, SweptStaySwept

\* What is read back of a projection is the same where it matters here.
LEMMA StoredFacts == ASSUME NEW pr, Record(pr) PROVE Same(pr, Stored(pr))
  BY DEF Stored, Record, Fields, Same

\* Storing a batch keeps the invariant.
LEMMA PersistFacts ==
  ASSUME RVInv, batches' \in Nat, NEW evs, GoodBatch(evs), LifecycleApart(evs), Persist(evs)
  PROVE  RVInv'
  <1> DEFINE r == ApplyEvents(proj, evs)
             N == Len(evs)
             Of(types) == {i \in DOMAIN evs : evs[i].type \in types}
  <1>0. N \in Nat /\ DOMAIN evs = 1 .. N
    BY DEF GoodBatch
  <1>1. Shape(proj)
    BY DEF RVInv
  <1>2. Folded(proj, r, evs, N) /\ (N = 1 => After(proj, r, evs[1]))
    BY <1>1, BatchFacts
  <1>3. /\ proj' = Stored(r)
        /\ sent' = sent \cup {evs[i].sender : i \in Of({"message.received"})}
        /\ committed' = IF Of({"decision.finalized"}) = {} THEN committed
                        ELSE CommittedAction(evs[CHOOSE i \in Of({"decision.finalized"}) : TRUE].payload)
        /\ settled' = (settled \/ Of(SettlingType) # {})
        /\ swept' = CASE \E i \in DOMAIN evs : EndsRun(evs[i]) -> DOMAIN proj.parts
                      [] \E i \in DOMAIN evs : ReopensRun(evs[i]) -> {}
                      [] OTHER -> swept
    BY DEF Persist, SettlingType
  <1> HIDE DEF r, N, Of
  <1>4. Same(r, proj') /\ Shape(r)
    <2>1. Shape(r)
      BY <1>2 DEF Folded
    <2>2. Same(r, Stored(r))
      BY <2>1, StoredFacts DEF Shape
    <2> QED  BY <1>3, <2>1, <2>2
  <1>5. /\ proj'.status = r.status /\ proj'.parts = r.parts
        /\ proj'.quorum = r.quorum /\ proj'.decision = r.decision
    BY <1>4 DEF Same
  <1>6. Shape(proj)'
    BY <1>4, SameIsTouched DEF Touched
  <1>7. DecisionIsLastCommitment'
    <2>1. CASE Of({"decision.finalized"}) = {}
      <3>1. \A i \in 1 .. N : evs[i].type # "decision.finalized"
        BY <1>0, <2>1 DEF Of
      <3>2. committed' = committed
        BY <1>3, <2>1
      <3>3. proj.decision.finalized => r.decision = proj.decision
        BY <1>2, <3>1, Zenon DEF Folded
      <3> QED  BY <1>5, <3>2, <3>3 DEF RVInv, DecisionIsLastCommitment
    <2>2. CASE Of({"decision.finalized"}) # {}
      <3> DEFINE i == CHOOSE j \in Of({"decision.finalized"}) : TRUE
      <3>1. i \in Of({"decision.finalized"})
        BY <2>2
      <3>2. committed' = CommittedAction(evs[i].payload)
        BY <1>3, <2>2
      <3> HIDE DEF i
      <3>3. i \in 1 .. N /\ evs[i].type = "decision.finalized"
        BY <1>0, <3>1 DEF Of
      <3>4. r.decision.finalized /\ r.decision.action = CommittedAction(evs[i].payload)
        BY <1>2, <3>3, Zenon DEF Folded
      <3> QED  BY <1>5, <3>2, <3>4 DEF DecisionIsLastCommitment
    <2> QED  BY <2>1, <2>2
  <1>8. QuorumSettled'
    <2>1. ASSUME settled' PROVE r.quorum \in SettledQuorum
      <3>1. CASE settled
        <4>1. proj.quorum \in SettledQuorum
          BY <3>1 DEF RVInv, QuorumSettled, SettledQuorum
        <4> QED  BY <1>2, <4>1, Zenon DEF Folded
      <3>2. CASE Of(SettlingType) # {}
        <4>1. \E i \in 1 .. N : evs[i].type \in SettlingType
          BY <1>0, <3>2 DEF Of
        <4> QED  BY <1>2, <4>1, Zenon DEF Folded
      <3> QED  BY <1>3, <2>1, <3>1, <3>2
    <2> QED  BY <1>5, <2>1 DEF QuorumSettled, SettledQuorum
  <1>9. DOMAIN proj.parts \subseteq DOMAIN r.parts
    BY <1>2, Zenon DEF Folded
  <1>10. SendersAreShown'
    <2>1. \A i \in 1 .. N : evs[i].type = "message.received" => evs[i].sender \in DOMAIN r.parts
      BY <1>2, Zenon DEF Folded
    <2>2. sent \subseteq DOMAIN r.parts
      BY <1>9 DEF RVInv, SendersAreShown
    <2>3. \A s \in sent' : s \in DOMAIN r.parts
      BY <1>0, <1>3, <2>1, <2>2 DEF Of
    <2> QED  BY <1>5, <2>3 DEF SendersAreShown
  <1>11. /\ \A p \in swept' : p \in DOMAIN r.parts /\ r.parts[p].status \in ParticipantTerminal
         /\ swept' # {} => r.status \in Terminal
    <2>1. CASE \E i \in DOMAIN evs : EndsRun(evs[i])
      <3>1. N = 1 /\ EndsRun(evs[1])
        <4>1. PICK i \in DOMAIN evs : EndsRun(evs[i])
          BY <2>1
        <4>2. N = 1
          BY <4>1 DEF LifecycleApart, N
        <4> QED  BY <1>0, <4>1, <4>2
      <3>2. swept' = DOMAIN proj.parts
        <4>1. ~ \E i \in DOMAIN evs : ReopensRun(evs[i])
          <5>1. ~ ReopensRun(evs[1])
            BY <3>1 DEF EndsRun, ReopensRun, TerminalEventType, SessionEventType
          <5> QED  BY <1>0, <3>1, <5>1
        <4> QED  BY <1>3, <2>1, <4>1, Zenon
      <3>3. After(proj, r, evs[1])
        BY <1>2, <3>1
      <3>4. r.status \in Terminal /\ \A p \in DOMAIN proj.parts : r.parts[p].status \in ParticipantTerminal
        BY <3>1, <3>3, Zenon DEF After
      <3> QED  BY <1>9, <3>2, <3>4
    <2>2. CASE ~ (\E i \in DOMAIN evs : EndsRun(evs[i])) /\ (\E i \in DOMAIN evs : ReopensRun(evs[i]))
      <3>1. swept' = {}
        BY <1>3, <2>2, Zenon
      <3> QED  BY <3>1
    <2>3. CASE ~ (\E i \in DOMAIN evs : EndsRun(evs[i])) /\ ~ (\E i \in DOMAIN evs : ReopensRun(evs[i]))
      <3>1. swept' = swept
        BY <1>3, <2>3, Zenon
      <3>2. \A i \in 1 .. N : evs[i].type \notin RunEventType /\ ~ EndsRun(evs[i])
        <4> TAKE i \in 1 .. N
        <4>1. ~ EndsRun(evs[i]) /\ ~ ReopensRun(evs[i]) /\ i \in DOMAIN evs
          BY <1>0, <2>3
        <4>2. evs[i].type \notin TerminalEventType
          BY <4>1 DEF EndsRun
        <4> QED  BY <4>1, <4>2, Zenon DEF LifecycleApart
      <3>3. Late(proj, r)
        BY <1>2, <3>2, Zenon DEF Folded
      <3>4. /\ swept \subseteq DOMAIN proj.parts /\ (swept # {} => proj.status \in Terminal)
            /\ \A p \in swept : proj.parts[p].status \in ParticipantTerminal
        BY DEF RVInv, SweptStaySwept
      <3>5. CASE swept = {}
        BY <3>1, <3>5
      <3>6. CASE swept # {}
        <4>1. r.status \in Terminal
              /\ \A p \in DOMAIN proj.parts :
                   proj.parts[p].status \in ParticipantTerminal => r.parts[p].status \in ParticipantTerminal
          BY <3>3, <3>4, <3>6, Zenon DEF Late
        <4> QED  BY <1>9, <3>1, <3>4, <4>1
      <3> QED  BY <3>5, <3>6
    <2> QED  BY <2>1, <2>2, <2>3
  <1>12. SweptStaySwept' /\ (swept \subseteq DOMAIN proj.parts)' /\ (swept # {} => proj.status \in Terminal)'
    BY <1>5, <1>11 DEF SweptStaySwept
  <1> QED  BY <1>6, <1>7, <1>8, <1>10, <1>12 DEF RVInv

\* Every step keeps it.
LEMMA StepFacts == RVInv /\ [Next]_vars => RVInv'
  <1> SUFFICES ASSUME RVInv, [Next]_vars PROVE RVInv'
    OBVIOUS
  <1>0. batches \in Nat /\ batches + 1 \in Nat /\ batches + 1 \in Int
    BY DEF RVInv
  <1>1. ASSUME NEW f \in Frames, StreamFrame(f) PROVE RVInv'
    BY <1>0, <1>1, NormalizeFacts, PersistFacts DEF StreamFrame, Batch
  <1>2. ASSUME NEW f \in Frames, StreamFrameFails(f) PROVE RVInv'
    BY <1>2 DEF StreamFrameFails, RVInv, DecisionIsLastCommitment, QuorumSettled, SendersAreShown, SweptStaySwept
  <1>3. ASSUME NEW f \in Signals, Signal(f) PROVE RVInv'
    BY <1>0, <1>3, NormalizeFacts, PersistFacts DEF Signal, Batch
  <1>4. ASSUME NEW s \in DOMAIN EventOf, RowStep(s) PROVE RVInv'
    BY <1>4 DEF RowStep, RVInv, DecisionIsLastCommitment, QuorumSettled, SendersAreShown, SweptStaySwept
  <1>5. ASSUME NEW s \in DOMAIN EventOf, Emit(s) PROVE RVInv'
    <2> DEFINE ev == PlainEvent(EventOf[s], batches + 1, "run", s)
    <2>1. s \in Terminal \cup {"suspended", "running"}
      BY DEF EventOf
    <2>2. ev.type = EventOf[s] /\ ev.data = s
      BY DEF PlainEvent, MakeEvent
    <2>3. EventOf[s] = CASE s = "completed" -> "run.completed" [] s = "failed" -> "run.failed"
                         [] s = "cancelled" -> "run.cancelled" [] s = "suspended" -> "run.suspended"
                         [] s = "running" -> "run.resumed"
      BY <2>1 DEF EventOf
    <2>4. Persist(<<ev>>) /\ batches' = batches
      BY <1>5 DEF Emit
    <2> HIDE DEF ev
    <2>5. GoodEvent(ev) /\ (ev.type \in TerminalEventType \/ ReopensRun(ev))
      BY <2>1, <2>2, <2>3
      DEF GoodEvent, ReopensRun, RunEventType, TerminalEventType, SessionEventType, RunStatus, Terminal
    <2>6. GoodBatch(<<ev>>) /\ LifecycleApart(<<ev>>)
      BY <2>5, Alone, Zenon
    <2> QED  BY <1>0, <2>4, <2>6, PersistFacts, Zenon
  <1>6. ASSUME CreateArtifact PROVE RVInv'
    <2> DEFINE ev == PlainEvent("artifact.created", batches + 1, "artifact", "none")
    <2>1. GoodEvent(ev) /\ ev.type \notin RunEventType
      <3>1. ev.type = "artifact.created"
        BY DEF PlainEvent, MakeEvent
      <3> QED  BY <3>1, PlainFacts DEF RunEventType
    <2>2. Persist(<<ev>>) /\ batches' \in Nat
      BY <1>0, <1>6 DEF CreateArtifact, Batch
    <2> HIDE DEF ev
    <2>3. GoodBatch(<<ev>>) /\ LifecycleApart(<<ev>>)
      BY <2>1, Alone, Zenon
    <2> QED  BY <2>2, <2>3, PersistFacts, Zenon
  <1>7. ASSUME StreamGap PROVE RVInv'
    <2> DEFINE ev == PlainEvent("session.stream.gap", batches + 1, "session", "none")
    <2>1. GoodEvent(ev) /\ ev.type \notin RunEventType
      <3>1. ev.type = "session.stream.gap"
        BY DEF PlainEvent, MakeEvent
      <3> QED  BY <3>1, PlainFacts DEF RunEventType
    <2>2. Persist(<<ev>>) /\ batches' \in Nat
      BY <1>0, <1>7 DEF StreamGap, Batch
    <2> HIDE DEF ev
    <2>3. GoodBatch(<<ev>>) /\ LifecycleApart(<<ev>>)
      BY <2>1, Alone, Zenon
    <2> QED  BY <2>2, <2>3, PersistFacts, Zenon
  <1>8. ASSUME UNCHANGED vars PROVE RVInv'
    BY <1>8 DEF vars, RVInv, DecisionIsLastCommitment, QuorumSettled, SendersAreShown, SweptStaySwept
  <1> QED  BY <1>1, <1>2, <1>3, <1>4, <1>5, <1>6, <1>7, <1>8, Zenon DEF Next

LEMMA Invariance == Spec => []RVInv
  <1> QED  BY InitFacts, StepFacts, PTL DEF Spec

-------------------------------------------------------------------------------
(* The theorems. *)

\* Whatever proposals, votes and evaluations follow a commitment in the log, in
\* whichever order and however often a frame is delivered again, the read model
\* shows the decision as finalized, with the action that was committed last.
THEOREM CommittedIsFinal == Spec => []DecisionIsLastCommitment
  <1>1. RVInv => DecisionIsLastCommitment
    BY DEF RVInv
  <1> QED  BY <1>1, Invariance, PTL

\* A participant who was shown when the run ended is not shown active or
\* waiting again for any late message or signal, until a suspension or a
\* resumption is logged.  The reason is that a run that is over stays over for
\* every event but those, and touchParticipant asks for both.
THEOREM LateEventsWakeNobody == Spec => []SweptStaySwept
  <1>1. RVInv => SweptStaySwept
    BY DEF RVInv
  <1> QED  BY <1>1, Invariance, PTL

\* Once a decision or a failed end is in the log, no vote counted later makes
\* the quorum pending again.
THEOREM QuorumStaysSettled == Spec => []QuorumSettled
  <1>1. RVInv => QuorumSettled
    BY DEF RVInv
  <1> QED  BY <1>1, Invariance, PTL

\* Everyone whose message is in the log is shown, whatever knownParticipants
\* has forgotten or remembers too early of a batch that failed.
THEOREM NobodyIsMissing == Spec => []SendersAreShown
  <1>1. RVInv => SendersAreShown
    BY DEF RVInv
  <1> QED  BY <1>1, Invariance, PTL
===============================================================================
