---------------------------- MODULE EventLogProofs ----------------------------
(***************************************************************************)
(* Proofs about the event log: whatever the interleaving of batches,       *)
(* rollbacks, rebuilds, deliveries, reconnects and crashes, the stored     *)
(* projection covers the log, a replay is the log, and an SSE client gets  *)
(* its events in order and misses only those that came late.               *)
(***************************************************************************)
EXTENDS EventLog, FiniteSetTheorems, SequenceTheorems, WellFoundedInduction, TLAPS

Seqno == 1 .. MaxSeq
AllSeqs == Seqs(rows)
Logged == Seqs(Canonical)
InTransaction == {"allocated", "applied"}
AfterCommit == {"committed", "counting", "counted", "closing"}
Connected == {"snapshot", "backfill", "live"}

\* The types.
WriterRecord == [pc : {"idle"} \cup InTransaction \cup AfterCommit,
                 batch : Seq(RowKind), start : 0 .. MaxSeq + 1,
                 seen : SUBSET Seqno, decisions : Nat]

LogTypes ==
  /\ lastSeq \in 0 .. MaxSeq
  /\ rows \subseteq [seq : Seqno, kind : RowKind]
  /\ lock \in Writers \cup {"none", "rebuild"}
  /\ proj \in [version : 0 .. MaxSeq, seen : SUBSET Seqno]
  /\ metrics \in Nat
  /\ writer \in [Writers -> WriterRecord]
  /\ rebuild \in [pc : {"idle", "read"}, seen : SUBSET Seqno]
  /\ breaks \in Nat

ClientTypes ==
  /\ hub \in Hubs
  /\ wire \in Seq(Seqno)
  /\ sub \in [phase : {"off", "replay"} \cup Connected,
              cursor : 0 .. MaxSeq, high : 0 .. MaxSeq, buffer : Seq(Seqno)]
  /\ got \in Seq(Seqno)
  /\ since \in 0 .. MaxSeq
  /\ published \subseteq Seqno
  /\ excused \subseteq Seqno

EventLogTypeOK == LogTypes /\ ClientTypes

(***************************************************************************)
(* The log: whoever holds the row lock has allocated from the end of the   *)
(* committed rows, so that what it commits comes after all of them, and    *)
(* what it folded its events into is still the stored projection.          *)
(***************************************************************************)
\* BatchRows and the numbers of BatchEvents, of the batch in writer record x.
RowsOf(x) == {[seq |-> x.start + i - 1, kind |-> x.batch[i]] : i \in DOMAIN x.batch}
EventsOf(x) == Seqs({r \in RowsOf(x) : r.kind # "raw"})

WriterInv(w) ==
  /\ writer[w].pc \in InTransaction <=> lock = w
  /\ lock = w => /\ writer[w].start = SeqMax(AllSeqs) + 1
                 /\ lastSeq = SeqMax(AllSeqs) + Len(writer[w].batch)
  /\ writer[w].pc = "applied" => writer[w].seen = proj.seen \cup EventsOf(writer[w])
  /\ writer[w].pc \in AfterCommit => EventsOf(writer[w]) \subseteq Logged

LogInv ==
  /\ lock \notin Writers => lastSeq = SeqMax(AllSeqs)
  /\ \A w \in Writers : WriterInv(w)
  /\ rebuild.pc = "read" => lock = "rebuild" /\ rebuild.seen = Logged
  /\ ProjectionCoversLog

(***************************************************************************)
(* The client: where its handler stands, what it has, and why it lacks the *)
(* rest.                                                                   *)
(***************************************************************************)
\* Only committed events travel, and a published one is never in doubt.
TravelInv ==
  /\ published \subseteq Logged
  /\ ToSet(wire) \subseteq published
  /\ ToSet(sub.buffer) \subseteq published
  /\ ToSet(got) \subseteq Logged

\* The handler's high mark is the client's last id; before it got any event the
\* mark is where the client asked to resume.
HandlerInv ==
  /\ sub.phase \in Connected =>
       /\ hub # "replay"
       /\ IF got = <<>> THEN sub.high <= since ELSE sub.high = LastId
  /\ sub.phase \in {"snapshot", "backfill"} => sub.cursor = sub.high
  /\ sub.phase = "backfill" => sub.cursor > 0
  /\ sub.phase = "live" => sub.buffer = <<>>

\* An event can still pass the filter: everything queued before it is smaller.
Ahead(s, q) == \E i \in DOMAIN q : q[i] = s /\ \A j \in 1 .. i - 1 : q[j] < s

\* What the handler has yet to be handed: buffered events, and those that come
\* to its instance over Redis.
Pending == IF hub = "remote" THEN sub.buffer \o wire ELSE sub.buffer

\* A logged event the client has passed was late when it was published, or
\* will be.
PassedInv ==
  \A s \in Logged : since < s /\ s < LastId /\ s \notin ToSet(got) =>
    s \in excused \/ (s \notin published /\ s < SeqMax(published))

\* While only live events reach the client, one it lacks was late, was lost, or
\* is on its way.
LiveInv ==
  sub.phase = "live" \/ (sub.phase = "snapshot" /\ sub.cursor = 0) =>
    \A s \in published : since < s /\ s \notin ToSet(got) =>
      s \in excused \/ Ahead(s, Pending)

\* A replay has sent the log up to its cursor; once it is over, up to its last id.
ReplayInv ==
  /\ sub.phase = "replay" =>
       /\ hub = "replay"
       /\ since <= sub.cursor
       /\ sub.cursor = since \/ sub.cursor \in Logged
       /\ ToSet(got) = {s \in Logged : since < s /\ s <= sub.cursor}
  /\ ReplayIsLog

ClientInv == Rising(got) /\ TravelInv /\ HandlerInv /\ PassedInv /\ LiveInv /\ ReplayInv

IInv == EventLogTypeOK /\ LogInv /\ ClientInv

-------------------------------------------------------------------------------
(* The operators: largest number, ascending sequence, filter, page. *)

\* A set of naturals that is not empty has a least element.
LEMMA LeastNatural ==
  ASSUME NEW S \in SUBSET Nat, S # {}
  PROVE  \E m \in S : \A s \in S : m <= s
  <1> DEFINE R == OpToRel(<, Nat)
  <1>1. IsWellFoundedOn(R, Nat)
    BY NatLessThanWellFounded
  <1>2. \A x, y \in Nat : <<x, y>> \in R <=> x < y
    BY DEF OpToRel
  <1> HIDE DEF R
  <1>3. PICK m \in S : \A s \in S : ~(<<s, m>> \in R)
    BY <1>1, WFMin
  <1>4. ASSUME NEW s \in S PROVE m <= s
    <2>1. ~(s < m) /\ s \in Nat /\ m \in Nat
      BY <1>2, <1>3
    <2> QED  BY <2>1
  <1> QED  BY <1>4

\* A set of numbers with a bound has a largest one, which SeqMax returns; it
\* returns 0 for the empty set.
LEMMA SeqMaxFacts ==
  ASSUME NEW n \in Nat, NEW S \in SUBSET (0 .. n)
  PROVE  /\ SeqMax(S) \in 0 .. n
         /\ SeqMax(S) \in S \cup {0}
         /\ \A s \in S : s <= SeqMax(S)
  <1> DEFINE T == {n - s : s \in S \cup {0}}
  <1>1. T \in SUBSET Nat /\ T # {}
    OBVIOUS
  <1>2. PICK x \in T : \A y \in T : x <= y
    BY <1>1, LeastNatural
  <1>3. PICK m \in S \cup {0} : x = n - m
    OBVIOUS
  <1>4. ASSUME NEW s \in S PROVE s <= m
    <2>1. n - s \in T
      OBVIOUS
    <2> QED  BY <1>2, <1>3, <2>1
  <1>5. \E u \in S \cup {0} : \A s \in S : s <= u
    BY <1>4
  <1>6. SeqMax(S) \in S \cup {0} /\ \A s \in S : s <= SeqMax(S)
    BY <1>5, Zenon DEF SeqMax
  <1>7. S \cup {0} \subseteq 0 .. n
    OBVIOUS
  <1> HIDE DEF T
  <1> QED  BY <1>6, <1>7

\* An element that none exceeds is the largest number.
LEMMA SeqMaxIs ==
  ASSUME NEW n \in Nat, NEW S \in SUBSET (0 .. n), NEW m \in S \cup {0}, \A s \in S : s <= m
  PROVE  SeqMax(S) = m
  <1> DEFINE g == SeqMax(S)
  <1>1. g \in 0 .. n /\ g \in S \cup {0} /\ \A s \in S : s <= g
    BY SeqMaxFacts
  <1> HIDE DEF g
  <1>2. g \in Nat /\ m \in Nat
    BY <1>1
  <1>3. g <= m
    BY <1>1, <1>2
  <1>4. m <= g
    BY <1>1, <1>2
  <1>5. g = m
    BY <1>2, <1>3, <1>4
  <1> QED  BY <1>5 DEF g

\* What sequences of numbers hold, and how that goes with concatenation.
LEMMA ToSetFacts ==
  ASSUME NEW A, NEW q \in Seq(A)
  PROVE  /\ ToSet(q) \subseteq A
         /\ ToSet(q) = {q[i] : i \in 1 .. Len(q)}
         /\ q \in Seq(ToSet(q))
         /\ ToSet(q) = {} <=> q = <<>>
  <1>1. Len(q) \in Nat /\ DOMAIN q = 1 .. Len(q) /\ \A i \in 1 .. Len(q) : q[i] \in A
    OBVIOUS
  <1>2. ToSet(q) = {q[i] : i \in 1 .. Len(q)}
    BY <1>1 DEF ToSet
  <1>3. q \in [1 .. Len(q) -> ToSet(q)]
    BY <1>1, <1>2, LenProperties
  <1>4. q \in Seq(ToSet(q))
    BY <1>1, <1>3, SeqDef
  <1>5. q = <<>> => ToSet(q) = {}
    BY <1>2
  <1>6. q # <<>> => 1 \in 1 .. Len(q)
    BY <1>1
  <1> QED  BY <1>1, <1>2, <1>4, <1>5, <1>6

\* Only the empty sequence has no elements.
LEMMA ToSetEmpty ==
  ASSUME NEW A, NEW q \in Seq(A)
  PROVE  q = <<>> <=> ToSet(q) = {}
  BY ToSetFacts

\* The elements of two sequences in a row.
LEMMA ToSetConcat ==
  ASSUME NEW A, NEW q \in Seq(A), NEW r \in Seq(A)
  PROVE  q \o r \in Seq(A) /\ ToSet(q \o r) = ToSet(q) \cup ToSet(r)
  <1>1. /\ q \o r \in Seq(A) /\ Len(q) \in Nat /\ Len(r) \in Nat
        /\ Len(q \o r) = Len(q) + Len(r)
        /\ \A i \in 1 .. Len(q) + Len(r) :
             (q \o r)[i] = IF i <= Len(q) THEN q[i] ELSE r[i - Len(q)]
    BY ConcatProperties, LenProperties
  <1>2. /\ ToSet(q) = {q[i] : i \in 1 .. Len(q)}
        /\ ToSet(r) = {r[i] : i \in 1 .. Len(r)}
        /\ ToSet(q \o r) = {(q \o r)[i] : i \in 1 .. Len(q) + Len(r)}
    <2>1. ToSet(q) = {q[i] : i \in 1 .. Len(q)}
      BY ToSetFacts
    <2>2. ToSet(r) = {r[i] : i \in 1 .. Len(r)}
      BY ToSetFacts
    <2>3. ToSet(q \o r) = {(q \o r)[i] : i \in 1 .. Len(q \o r)}
      BY <1>1, ToSetFacts
    <2> QED  BY <1>1, <2>1, <2>2, <2>3
  <1>3. ASSUME NEW x \in ToSet(q \o r) PROVE x \in ToSet(q) \cup ToSet(r)
    <2>1. PICK i \in 1 .. Len(q) + Len(r) : x = (q \o r)[i]
      BY <1>2
    <2>2. CASE i <= Len(q)
      <3>1. i \in 1 .. Len(q) /\ x = q[i]
        BY <1>1, <2>1, <2>2
      <3> QED  BY <1>2, <3>1
    <2>3. CASE ~(i <= Len(q))
      <3>1. i - Len(q) \in 1 .. Len(r) /\ x = r[i - Len(q)]
        BY <1>1, <2>1, <2>3
      <3> QED  BY <1>2, <3>1
    <2> QED  BY <2>2, <2>3
  <1>4. ASSUME NEW x \in ToSet(q) PROVE x \in ToSet(q \o r)
    <2>1. PICK i \in 1 .. Len(q) : x = q[i]
      BY <1>2
    <2>2. i \in 1 .. Len(q) + Len(r) /\ x = (q \o r)[i]
      BY <1>1, <2>1
    <2> QED  BY <1>2, <2>2
  <1>5. ASSUME NEW x \in ToSet(r) PROVE x \in ToSet(q \o r)
    <2>1. PICK i \in 1 .. Len(r) : x = r[i]
      BY <1>2
    <2>2. i + Len(q) \in 1 .. Len(q) + Len(r) /\ ~(i + Len(q) <= Len(q))
          /\ (i + Len(q)) - Len(q) = i
      BY <1>1, <2>1
    <2>3. x = (q \o r)[i + Len(q)]
      BY <1>1, <2>1, <2>2
    <2> QED  BY <1>2, <2>2, <2>3
  <1> QED  BY <1>1, <1>3, <1>4, <1>5

\* Rising sequences, one above the other, make a rising sequence.
LEMMA RisingConcat ==
  ASSUME NEW q \in Seq(Nat), NEW r \in Seq(Nat), Rising(q), Rising(r),
         \A x \in ToSet(q), y \in ToSet(r) : x < y
  PROVE  Rising(q \o r)
  <1>1. /\ Len(q) \in Nat /\ Len(r) \in Nat
        /\ DOMAIN q = 1 .. Len(q) /\ DOMAIN r = 1 .. Len(r)
        /\ DOMAIN (q \o r) = 1 .. Len(q) + Len(r)
        /\ \A i \in 1 .. Len(q) + Len(r) :
             (q \o r)[i] = IF i <= Len(q) THEN q[i] ELSE r[i - Len(q)]
    BY ConcatProperties, LenProperties
  <1>2. /\ \A i, j \in 1 .. Len(q) : i < j => q[i] < q[j]
        /\ \A i, j \in 1 .. Len(r) : i < j => r[i] < r[j]
    BY <1>1 DEF Rising
  <1>3. /\ \A i \in 1 .. Len(q) : q[i] \in ToSet(q)
        /\ \A i \in 1 .. Len(r) : r[i] \in ToSet(r)
    BY <1>1 DEF ToSet
  <1>4. ASSUME NEW i \in 1 .. Len(q) + Len(r), NEW j \in 1 .. Len(q) + Len(r), i < j
        PROVE  (q \o r)[i] < (q \o r)[j]
    <2>1. CASE j <= Len(q)
      <3>1. i \in 1 .. Len(q) /\ j \in 1 .. Len(q) /\ i <= Len(q)
        BY <1>1, <1>4, <2>1
      <3> QED  BY <1>1, <1>2, <1>4, <2>1, <3>1
    <2>2. CASE i <= Len(q) /\ ~(j <= Len(q))
      <3>1. i \in 1 .. Len(q) /\ j - Len(q) \in 1 .. Len(r)
        BY <1>1, <1>4, <2>2
      <3>2. (q \o r)[i] = q[i] /\ (q \o r)[j] = r[j - Len(q)]
        BY <1>1, <2>2
      <3>3. q[i] \in ToSet(q) /\ r[j - Len(q)] \in ToSet(r)
        BY <1>3, <3>1
      <3> QED  BY <3>2, <3>3
    <2>3. CASE ~(i <= Len(q)) /\ ~(j <= Len(q))
      <3>1. i - Len(q) \in 1 .. Len(r) /\ j - Len(q) \in 1 .. Len(r) /\ i - Len(q) < j - Len(q)
        BY <1>1, <1>4, <2>3
      <3>2. (q \o r)[i] = r[i - Len(q)] /\ (q \o r)[j] = r[j - Len(q)]
        BY <1>1, <2>3
      <3> QED  BY <1>2, <3>1, <3>2
    <2> QED  BY <1>1, <1>4, <2>1, <2>2, <2>3
  <1> QED  BY <1>1, <1>4 DEF Rising

\* The last number of a rising sequence is its largest.
LEMMA LastOfRising ==
  ASSUME NEW q \in Seq(Nat), Rising(q), q # <<>>
  PROVE  Last(q) \in ToSet(q) /\ \A x \in ToSet(q) : x <= Last(q)
  <1>1. /\ Len(q) \in Nat /\ DOMAIN q = 1 .. Len(q) /\ Len(q) \in 1 .. Len(q)
        /\ \A i \in 1 .. Len(q) : q[i] \in Nat
    OBVIOUS
  <1>2. Last(q) = q[Len(q)]
    BY DEF Last
  <1>3. ASSUME NEW x \in ToSet(q) PROVE x <= q[Len(q)]
    <2>1. PICK i \in 1 .. Len(q) : x = q[i]
      BY <1>1 DEF ToSet
    <2>2. Len(q) \in Nat /\ i \in Nat /\ i <= Len(q)
      OBVIOUS
    <2>3. CASE i = Len(q)
      <3>1. x = q[Len(q)] /\ q[Len(q)] \in Nat
        BY <1>1, <2>1, <2>3
      <3> QED  BY <3>1
    <2>4. CASE i < Len(q)
      <3>1. q[i] < q[Len(q)] /\ q[i] \in Nat /\ q[Len(q)] \in Nat
        BY <1>1, <2>4 DEF Rising
      <3> QED  BY <2>1, <3>1
    <2> QED  BY <2>2, <2>3, <2>4
  <1>4. q[Len(q)] \in ToSet(q)
    BY <1>1 DEF ToSet
  <1> QED  BY <1>2, <1>3, <1>4

\* Every finite set of numbers has an ascending enumeration, which Ascending
\* returns.
Enumerates(q, S) ==
  /\ q \in [1 .. Cardinality(S) -> S]
  /\ Rising(q)
  /\ ToSet(q) = S

\* One more number, above all others, goes to the end of the list.
LEMMA EnumerationGrows ==
  ASSUME NEW U \in SUBSET Nat, NEW m \in Nat, IsFiniteSet(U), \A u \in U : u < m,
         NEW q, Enumerates(q, U)
  PROVE  \E r : Enumerates(r, U \cup {m})
  <1> DEFINE c == Cardinality(U)
             T == U \cup {m}
             r == [i \in 1 .. c + 1 |-> IF i <= c THEN q[i] ELSE m]
  <1>1. c \in Nat
    BY FS_CardinalityType
  <1>2. Cardinality(T) = c + 1
    <2>1. m \notin U
      OBVIOUS
    <2> QED  BY <2>1, FS_AddElement
  <1>3. q \in [1 .. c -> U] /\ \A i \in 1 .. c : q[i] \in U
    BY DEF Enumerates
  <1>4. \A i, j \in 1 .. c : i < j => q[i] < q[j]
    BY <1>3 DEF Enumerates, Rising
  <1>5. U = {q[i] : i \in 1 .. c}
    BY <1>3 DEF Enumerates, ToSet
  <1> HIDE DEF c
  <1>6. \A i \in 1 .. c : i \in 1 .. c + 1 /\ i <= c /\ r[i] = q[i]
    BY <1>1
  <1>7. c + 1 \in 1 .. c + 1 /\ r[c + 1] = m
    BY <1>1
  <1>8. \A i \in 1 .. c + 1 : i \in 1 .. c \/ i = c + 1
    BY <1>1
  <1>9. DOMAIN r = 1 .. c + 1 /\ r \in [1 .. c + 1 -> T]
    <2>1. \A i \in 1 .. c + 1 : r[i] \in T
      BY <1>3, <1>6, <1>7, <1>8
    <2> QED  BY <2>1
  <1> HIDE DEF r
  <1>10. ASSUME NEW i \in 1 .. c + 1, NEW j \in 1 .. c + 1, i < j
         PROVE  r[i] < r[j]
    <2>1. i \in 1 .. c
      BY <1>1, <1>10
    <2>2. CASE j \in 1 .. c
      BY <1>4, <1>6, <1>10, <2>1, <2>2
    <2>3. CASE j = c + 1
      <3>1. r[i] \in U /\ r[j] = m
        BY <1>3, <1>6, <1>7, <2>1, <2>3
      <3> QED  BY <3>1
    <2> QED  BY <1>8, <2>2, <2>3
  <1>11. Rising(r)
    BY <1>9, <1>10 DEF Rising
  <1>12. ToSet(r) = T
    <2>1. ToSet(r) = {r[i] : i \in 1 .. c + 1}
      BY <1>9 DEF ToSet
    <2>2. ASSUME NEW i \in 1 .. c + 1 PROVE r[i] \in T
      BY <1>9
    <2>3. ASSUME NEW x \in T PROVE \E i \in 1 .. c + 1 : x = r[i]
      BY <1>5, <1>6, <1>7
    <2> QED  BY <2>1, <2>2, <2>3
  <1>13. Enumerates(r, T)
    BY <1>2, <1>9, <1>11, <1>12 DEF Enumerates
  <1> QED  BY <1>13

\* A bounded set of numbers is finite and can be listed in ascending order.
LEMMA EnumerationExists ==
  \A n \in Nat : \A S \in SUBSET (1 .. n) : IsFiniteSet(S) /\ \E q : Enumerates(q, S)
  <1> DEFINE P(n) == \A S \in SUBSET (1 .. n) : IsFiniteSet(S) /\ \E q : Enumerates(q, S)
             Bad == {n \in Nat : ~P(n)}
  <1>1. SUFFICES ASSUME Bad # {} PROVE FALSE
    OBVIOUS
  <1>2. PICK n \in Bad : \A k \in Bad : n <= k
    <2>1. Bad \in SUBSET Nat
      OBVIOUS
    <2> HIDE DEF Bad
    <2> QED  BY <1>1, <2>1, LeastNatural
  <1>3. n \in Nat /\ ~P(n)
    BY <1>2
  <1>4. ASSUME NEW S \in SUBSET (1 .. n)
        PROVE  IsFiniteSet(S) /\ \E q : Enumerates(q, S)
    <2> HIDE DEF P
    <2>1. IsFiniteSet(S)
      <3>1. n \in Int /\ 1 \in Int
        BY <1>3
      <3>2. IsFiniteSet(1 .. n)
        BY <3>1, FS_Interval
      <3> QED  BY <3>2, FS_Subset
    <2>2. CASE S = {}
      <3>1. Cardinality(S) = 0
        BY <2>2, FS_EmptySet
      <3>2. 1 .. 0 = {}
        OBVIOUS
      <3> DEFINE e == [i \in 1 .. 0 |-> 0]
      <3>3. e \in [1 .. 0 -> S] /\ DOMAIN e = {}
        BY <3>2
      <3> HIDE DEF e
      <3>4. Rising(e) /\ ToSet(e) = {}
        BY <3>3 DEF Rising, ToSet
      <3>5. Enumerates(e, S)
        BY <2>2, <3>1, <3>3, <3>4 DEF Enumerates
      <3> QED  BY <2>1, <3>5
    <2>3. CASE S # {}
      <3>1. n # 0 /\ n - 1 \in Nat
        <4>1. PICK s \in S : s \in 1 .. n
          BY <2>3
        <4> QED  BY <1>3, <4>1
      <3>2. P(n - 1)
        <4>1. n - 1 \notin Bad
          BY <1>2, <1>3, <3>1
        <4> QED  BY <3>1, <4>1
      <3>3. \A U \in SUBSET (1 .. n - 1) : IsFiniteSet(U) /\ \E q : Enumerates(q, U)
        BY <3>2 DEF P
      <3>4. CASE n \notin S
        <4>1. S \in SUBSET (1 .. n - 1)
          BY <1>3, <3>4
        <4> QED  BY <3>3, <4>1
      <3>5. CASE n \in S
        <4> DEFINE U == S \ {n}
        <4>1. U \in SUBSET (1 .. n - 1) /\ U \in SUBSET Nat /\ S = U \cup {n}
          BY <1>3, <3>5
        <4>2. \A u \in U : u < n
          BY <1>3, <4>1
        <4>3. IsFiniteSet(U) /\ \E q : Enumerates(q, U)
          BY <3>3, <4>1
        <4> HIDE DEF U
        <4>4. \E r : Enumerates(r, U \cup {n})
          BY <1>3, <4>1, <4>2, <4>3, EnumerationGrows
        <4> QED  BY <2>1, <4>1, <4>4
      <3> QED  BY <3>4, <3>5
    <2> QED  BY <2>2, <2>3
  <1>5. P(n)
    BY <1>4
  <1> QED  BY <1>3, <1>5

\* Ascending(S) is such a list: what ORDER BY seq returns.
LEMMA AscendingFacts ==
  ASSUME NEW n \in Nat, NEW S \in SUBSET (1 .. n)
  PROVE  /\ Ascending(S) \in Seq(S)
         /\ Rising(Ascending(S))
         /\ ToSet(Ascending(S)) = S
  <1>1. IsFiniteSet(S) /\ \E q : Enumerates(q, S)
    BY EnumerationExists
  <1>2. \E q \in [1 .. Cardinality(S) -> S] : Rising(q) /\ ToSet(q) = S
    BY <1>1, Zenon DEF Enumerates
  <1>3. /\ Ascending(S) \in [1 .. Cardinality(S) -> S]
        /\ Rising(Ascending(S)) /\ ToSet(Ascending(S)) = S
    BY <1>2, Zenon DEF Ascending
  <1>4. Cardinality(S) \in Nat
    BY <1>1, FS_CardinalityType
  <1> QED  BY <1>3, <1>4, SeqDef

\* What passes the filter is, in increasing order, what is above the last event
\* sent and comes ahead of all larger ones.
LEMMA AheadIsBehindNothing ==
  ASSUME NEW q \in Seq(Nat), NEW x \in ToSet(q), \A y \in ToSet(q) : y <= x
  PROVE  Ahead(x, q)
  <1> DEFINE I == {i \in 1 .. Len(q) : q[i] = x}
  <1>1. Len(q) \in Nat /\ DOMAIN q = 1 .. Len(q) /\ \A i \in 1 .. Len(q) : q[i] \in Nat
    OBVIOUS
  <1>2. I \in SUBSET Nat /\ I # {}
    BY <1>1 DEF ToSet
  <1>3. PICK i \in I : \A k \in I : i <= k
    BY <1>2, LeastNatural
  <1>4. i \in 1 .. Len(q) /\ q[i] = x
    OBVIOUS
  <1>5. ASSUME NEW j \in 1 .. i - 1 PROVE q[j] < x
    <2>1. j \in 1 .. Len(q) /\ j < i /\ j \in Nat /\ i \in Nat
      BY <1>1, <1>4
    <2>2. q[j] # x
      BY <1>3, <2>1
    <2>3. q[j] \in ToSet(q) /\ q[j] \in Nat /\ x \in Nat
      BY <1>1, <1>4, <2>1 DEF ToSet
    <2>4. q[j] <= x
      BY <2>3
    <2> QED  BY <2>2, <2>3, <2>4
  <1> QED  BY <1>1, <1>4, <1>5 DEF Ahead

\* In an ascending list no number has a larger one before it.
LEMMA RisingIsAhead ==
  ASSUME NEW q \in Seq(Nat), Rising(q), NEW x \in ToSet(q)
  PROVE  Ahead(x, q)
  <1>1. Len(q) \in Nat /\ DOMAIN q = 1 .. Len(q)
    OBVIOUS
  <1>2. PICK i \in 1 .. Len(q) : q[i] = x
    BY <1>1 DEF ToSet
  <1>3. ASSUME NEW j \in 1 .. i - 1 PROVE q[j] < x
    <2>1. j \in 1 .. Len(q) /\ j < i
      BY <1>1
    <2> QED  BY <1>1, <1>2, <2>1 DEF Rising
  <1> QED  BY <1>1, <1>2, <1>3 DEF Ahead

\* The filter on the high mark: it passes, in order, what is above the mark and has
\* no larger number before it.
LEMMA FreshFacts ==
  ASSUME NEW n \in Nat, NEW high \in 0 .. n, NEW msgs \in Seq(1 .. n)
  PROVE  LET f == Fresh(high, msgs) IN
         /\ f.high \in 0 .. n /\ high <= f.high
         /\ \A x \in ToSet(msgs) : x <= f.high
         /\ f.out \in Seq(1 .. n) /\ Rising(f.out)
         /\ ToSet(f.out) = {x \in ToSet(msgs) : high < x /\ Ahead(x, msgs)}
         /\ IF f.out = <<>> THEN f.high = high ELSE f.high = Last(f.out)
  <1> DEFINE f == Fresh(high, msgs)
             M == ToSet(msgs)
             S == {msgs[i] : i \in Passes(high, msgs)}
  <1>1. f.high = SeqMax({high} \cup M) /\ f.out = Ascending(S)
    BY DEF Fresh
  <1>2. M \subseteq 1 .. n /\ {high} \cup M \in SUBSET (0 .. n)
    <2>1. M \subseteq 1 .. n
      BY ToSetFacts
    <2> HIDE DEF M
    <2> QED  BY <2>1
  <1>3. /\ f.high \in 0 .. n /\ high <= f.high
        /\ f.high \in {high} \cup M
        /\ \A x \in M : x <= f.high
    <2>1. /\ f.high \in 0 .. n /\ f.high \in {high} \cup M \cup {0}
          /\ \A x \in {high} \cup M : x <= f.high
      BY <1>1, <1>2, SeqMaxFacts
    <2> HIDE DEF f, M
    <2>2. f.high \in {high} \cup M
      BY <2>1
    <2> QED  BY <2>1, <2>2
  <1>4. S = {x \in M : high < x /\ Ahead(x, msgs)}
    BY DEF Passes, Ahead, ToSet
  <1>5. S \in SUBSET (1 .. n)
    BY <1>2, <1>4
  <1>6. f.out \in Seq(S) /\ Rising(f.out) /\ ToSet(f.out) = S
    BY <1>1, <1>5, AscendingFacts
  <1>7. f.out \in Seq(1 .. n) /\ f.out \in Seq(Nat)
    <2>1. S \subseteq 1 .. n /\ S \subseteq Nat
      BY <1>5
    <2> HIDE DEF f, S
    <2> QED  BY <1>6, <2>1, SeqMonotonic
  <1>8. f.high # high => f.high \in S
    <2>1. ASSUME f.high # high PROVE f.high \in S
      <3>1. f.high \in M
        BY <1>3, <2>1
      <3>2. msgs \in Seq(Nat)
        BY SeqMonotonic
      <3>3. Ahead(f.high, msgs)
        BY <1>3, <3>1, <3>2, AheadIsBehindNothing
      <3>4. high < f.high
        BY <1>3, <2>1
      <3> QED  BY <1>4, <3>1, <3>3, <3>4
    <2> QED  BY <2>1
  <1> HIDE DEF f, M, S
  <1>9. CASE f.out = <<>>
    <2>1. S = {}
      BY <1>6, <1>9, ToSetFacts
    <2> QED  BY <1>3, <1>4, <1>6, <1>7, <1>8, <1>9, <2>1 DEF f, M
  <1>10. CASE f.out # <<>>
    <2>1. Last(f.out) \in S /\ \A x \in S : x <= Last(f.out)
      BY <1>6, <1>7, <1>10, LastOfRising
    <2>2. Last(f.out) \in M /\ high < Last(f.out) /\ Last(f.out) \in 0 .. n
      BY <1>2, <1>4, <2>1
    <2>3. Last(f.out) <= f.high
      BY <1>3, <2>2
    <2>4. f.high # high
      BY <1>3, <2>2, <2>3
    <2>5. f.high <= Last(f.out)
      BY <1>8, <2>1, <2>4
    <2>6. f.high = Last(f.out)
      BY <1>3, <2>2, <2>3, <2>5
    <2> QED  BY <1>3, <1>4, <1>6, <1>7, <1>10, <2>6 DEF f, M
  <1> QED  BY <1>9, <1>10

Filtered(f, n, high, msgs) ==
  /\ f.high \in 0 .. n /\ high <= f.high
  /\ \A x \in ToSet(msgs) : x <= f.high
  /\ f.out \in Seq(1 .. n) /\ Rising(f.out)
  /\ ToSet(f.out) = {x \in ToSet(msgs) : high < x /\ Ahead(x, msgs)}
  /\ IF f.out = <<>> THEN f.high = high ELSE f.high = Last(f.out)

\* The same under the name the steps of the client use.
LEMMA FreshFilters ==
  ASSUME NEW n \in Nat, NEW high \in 0 .. n, NEW msgs \in Seq(1 .. n)
  PROVE  Filtered(Fresh(high, msgs), n, high, msgs)
  BY FreshFacts DEF Filtered

\* A rising sequence of events above the last one sent passes as it is.
LEMMA FreshOfRising ==
  ASSUME NEW n \in Nat, NEW high \in 0 .. n, NEW msgs \in Seq(1 .. n), Rising(msgs)
  PROVE  ToSet(Fresh(high, msgs).out) = {x \in ToSet(msgs) : high < x}
  <1>1. msgs \in Seq(Nat)
    BY SeqMonotonic
  <1>2. \A x \in ToSet(msgs) : Ahead(x, msgs)
    BY <1>1, RisingIsAhead
  <1>3. ToSet(Fresh(high, msgs).out) = {x \in ToSet(msgs) : high < x /\ Ahead(x, msgs)}
    BY FreshFacts
  <1> QED  BY <1>2, <1>3

\* An event that is ahead in a queue stays ahead when the queue grows, and when
\* its head goes, unless it is the head.
LEMMA AheadConcat ==
  ASSUME NEW q \in Seq(Nat), NEW r \in Seq(Nat), NEW x, Ahead(x, q)
  PROVE  Ahead(x, q \o r)
  <1>1. /\ Len(q) \in Nat /\ Len(r) \in Nat /\ DOMAIN q = 1 .. Len(q)
        /\ DOMAIN (q \o r) = 1 .. Len(q) + Len(r)
        /\ \A i \in 1 .. Len(q) + Len(r) :
             (q \o r)[i] = IF i <= Len(q) THEN q[i] ELSE r[i - Len(q)]
    BY ConcatProperties, LenProperties
  <1>2. PICK i \in 1 .. Len(q) : q[i] = x /\ \A j \in 1 .. i - 1 : q[j] < x
    BY <1>1 DEF Ahead
  <1>3. i \in 1 .. Len(q) + Len(r) /\ i <= Len(q) /\ (q \o r)[i] = x
    BY <1>1, <1>2
  <1>4. ASSUME NEW j \in 1 .. i - 1 PROVE (q \o r)[j] < x
    <2>1. j \in 1 .. Len(q) + Len(r) /\ j <= Len(q)
      BY <1>1, <1>3
    <2>2. (q \o r)[j] = q[j]
      BY <1>1, <2>1
    <2> QED  BY <1>2, <2>2
  <1> QED  BY <1>1, <1>3, <1>4 DEF Ahead

\* Smaller numbers in front take nothing away.
LEMMA AheadAppend ==
  ASSUME NEW q \in Seq(Nat), NEW r \in Seq(Nat), NEW x,
         Ahead(x, r), \A y \in ToSet(q) : y < x
  PROVE  Ahead(x, q \o r)
  <1>1. /\ Len(q) \in Nat /\ Len(r) \in Nat
        /\ DOMAIN q = 1 .. Len(q) /\ DOMAIN r = 1 .. Len(r)
        /\ DOMAIN (q \o r) = 1 .. Len(q) + Len(r)
        /\ \A i \in 1 .. Len(q) + Len(r) :
             (q \o r)[i] = IF i <= Len(q) THEN q[i] ELSE r[i - Len(q)]
    BY ConcatProperties, LenProperties
  <1>2. PICK i \in 1 .. Len(r) : r[i] = x /\ \A j \in 1 .. i - 1 : r[j] < x
    BY <1>1 DEF Ahead
  <1>3. /\ i + Len(q) \in 1 .. Len(q) + Len(r)
        /\ ~(i + Len(q) <= Len(q)) /\ (i + Len(q)) - Len(q) = i
    BY <1>1
  <1>4. (q \o r)[i + Len(q)] = x
    BY <1>1, <1>2, <1>3
  <1>5. ASSUME NEW j \in 1 .. (i + Len(q)) - 1 PROVE (q \o r)[j] < x
    <2>1. j \in 1 .. Len(q) + Len(r)
      BY <1>1
    <2>2. CASE j <= Len(q)
      <3>1. j \in 1 .. Len(q) /\ (q \o r)[j] = q[j]
        BY <1>1, <2>1, <2>2
      <3>2. q[j] \in ToSet(q)
        BY <1>1, <3>1 DEF ToSet
      <3> QED  BY <3>1, <3>2
    <2>3. CASE ~(j <= Len(q))
      <3>1. j - Len(q) \in 1 .. i - 1 /\ (q \o r)[j] = r[j - Len(q)]
        BY <1>1, <2>1, <2>3
      <3> QED  BY <1>2, <3>1
    <2> QED  BY <2>2, <2>3
  <1> QED  BY <1>1, <1>3, <1>4, <1>5 DEF Ahead

\* A number with no larger one before it is in the first part, or in the second
\* with only smaller ones in the first.
LEMMA AheadSplit ==
  ASSUME NEW q \in Seq(Nat), NEW r \in Seq(Nat), NEW x, Ahead(x, q \o r)
  PROVE  Ahead(x, q) \/ (Ahead(x, r) /\ \A y \in ToSet(q) : y < x)
  <1>1. /\ Len(q) \in Nat /\ Len(r) \in Nat
        /\ DOMAIN q = 1 .. Len(q) /\ DOMAIN r = 1 .. Len(r)
        /\ DOMAIN (q \o r) = 1 .. Len(q) + Len(r)
        /\ \A i \in 1 .. Len(q) + Len(r) :
             (q \o r)[i] = IF i <= Len(q) THEN q[i] ELSE r[i - Len(q)]
    BY ConcatProperties, LenProperties
  <1>2. PICK i \in 1 .. Len(q) + Len(r) :
               (q \o r)[i] = x /\ \A j \in 1 .. i - 1 : (q \o r)[j] < x
    BY <1>1 DEF Ahead
  <1>3. CASE i <= Len(q)
    <2>1. i \in 1 .. Len(q) /\ q[i] = x
      BY <1>1, <1>2, <1>3
    <2>2. ASSUME NEW j \in 1 .. i - 1 PROVE q[j] < x
      <3>1. j \in 1 .. Len(q) + Len(r) /\ j <= Len(q)
        BY <1>1, <1>3
      <3>2. (q \o r)[j] = q[j]
        BY <1>1, <3>1
      <3> QED  BY <1>2, <3>2
    <2> QED  BY <1>1, <2>1, <2>2 DEF Ahead
  <1>4. CASE ~(i <= Len(q))
    <2>1. i - Len(q) \in 1 .. Len(r) /\ r[i - Len(q)] = x
      BY <1>1, <1>2, <1>4
    <2>2. ASSUME NEW j \in 1 .. (i - Len(q)) - 1 PROVE r[j] < x
      <3>1. /\ j + Len(q) \in 1 .. Len(q) + Len(r) /\ ~(j + Len(q) <= Len(q))
            /\ (j + Len(q)) - Len(q) = j /\ j + Len(q) \in 1 .. i - 1
        BY <1>1, <1>4
      <3>2. (q \o r)[j + Len(q)] = r[j]
        BY <1>1, <3>1
      <3> QED  BY <1>2, <3>1, <3>2
    <2>3. ASSUME NEW y \in ToSet(q) PROVE y < x
      <3>1. PICK j \in 1 .. Len(q) : y = q[j]
        BY <1>1 DEF ToSet
      <3>2. j \in 1 .. i - 1 /\ j \in 1 .. Len(q) + Len(r) /\ j <= Len(q)
        BY <1>1, <1>4
      <3>3. (q \o r)[j] = q[j]
        BY <1>1, <3>2
      <3> QED  BY <1>2, <3>1, <3>2, <3>3
    <2>4. Ahead(x, r)
      BY <1>1, <2>1, <2>2 DEF Ahead
    <2> QED  BY <2>3, <2>4
  <1> QED  BY <1>3, <1>4

\* A queue is its head and then its tail.
LEMMA HeadThenTail ==
  ASSUME NEW A, NEW q \in Seq(A), q # <<>>
  PROVE  /\ <<Head(q)>> \in Seq(A) /\ Head(q) \in ToSet(q)
         /\ Tail(q) \in Seq(A) /\ q = <<Head(q)>> \o Tail(q)
         /\ ToSet(Tail(q)) \subseteq ToSet(q)
         /\ ToSet(<<Head(q)>>) = {Head(q)}
  <1>1. Head(q) \in A /\ Tail(q) \in Seq(A) /\ <<Head(q)>> \in Seq(A)
    OBVIOUS
  <1>2. q = <<Head(q)>> \o Tail(q)
    OBVIOUS
  <1>3. ToSet(<<Head(q)>>) = {Head(q)}
    BY DEF ToSet
  <1>4. ToSet(q) = ToSet(<<Head(q)>>) \cup ToSet(Tail(q))
    <2>1. ToSet(<<Head(q)>> \o Tail(q)) = ToSet(<<Head(q)>>) \cup ToSet(Tail(q))
      BY <1>1, ToSetConcat
    <2> QED  BY <1>2, <2>1
  <1> QED  BY <1>1, <1>2, <1>3, <1>4

\* Taking the head off leaves the others ahead.
LEMMA AheadTail ==
  ASSUME NEW q \in Seq(Nat), q # <<>>, NEW x, Ahead(x, q), x # Head(q)
  PROVE  Ahead(x, Tail(q)) /\ Head(q) < x
  <1>1. /\ <<Head(q)>> \in Seq(Nat) /\ Tail(q) \in Seq(Nat) /\ q = <<Head(q)>> \o Tail(q)
        /\ ToSet(<<Head(q)>>) = {Head(q)}
    BY HeadThenTail
  <1>2. Ahead(x, <<Head(q)>>) \/ (Ahead(x, Tail(q)) /\ \A y \in ToSet(<<Head(q)>>) : y < x)
    <2>1. Ahead(x, <<Head(q)>> \o Tail(q))
      BY <1>1
    <2> QED  BY <1>1, <2>1, AheadSplit
  <1>3. ~Ahead(x, <<Head(q)>>)
    BY DEF Ahead
  <1> QED  BY <1>1, <1>2, <1>3

\* A page is the beginning of the log after its cursor, and all of it when it is
\* short.
LEMMA PageFacts ==
  ASSUME MaxSeq \in Nat, PageSize \in Nat \ {0}, Logged \subseteq Seqno,
         NEW cursor \in 0 .. MaxSeq
  PROVE  LET page == Page(cursor) IN
         /\ page \in Seq(Seqno) /\ Rising(page)
         /\ ToSet(page) \subseteq {s \in Logged : cursor < s}
         /\ \A t \in ToSet(page) : \A s \in Logged : cursor < s /\ s <= t => s \in ToSet(page)
         /\ IF Len(page) < PageSize THEN ToSet(page) = {s \in Logged : cursor < s}
                                    ELSE page # <<>>
  <1> DEFINE A == {s \in Logged : cursor < s}
             after == Ascending(A)
             k == IF Len(after) < PageSize THEN Len(after) ELSE PageSize
             page == SubSeq(after, 1, k)
  <1>1. Page(cursor) = page
    <2>1. {s \in Seqs(Canonical) : s > cursor} = A
      BY DEF Logged
    <2> QED  BY <2>1, Zenon DEF Page
  <1>2. A \in SUBSET (1 .. MaxSeq) /\ A \subseteq Nat
    <2>1. \A s \in Logged : s \in 1 .. MaxSeq /\ s \in Nat
      BY DEF Seqno
    <2> QED  BY <2>1
  <1>3. after \in Seq(A) /\ Rising(after) /\ ToSet(after) = A
    BY <1>2, AscendingFacts
  <1> HIDE DEF after
  <1>4. /\ Len(after) \in Nat /\ DOMAIN after = 1 .. Len(after)
        /\ \A i \in 1 .. Len(after) : after[i] \in A
    BY <1>3, LenProperties, ElementOfSeq
  <1> HIDE DEF A
  <1>5. k \in Nat /\ k <= Len(after) /\ k <= PageSize
        /\ (k < PageSize => k = Len(after))
    <2>1. Len(after) \in Nat /\ PageSize \in Nat
      BY <1>4
    <2>2. CASE Len(after) < PageSize
      BY <2>1, <2>2
    <2>3. CASE ~(Len(after) < PageSize)
      BY <2>1, <2>3
    <2> QED  BY <2>2, <2>3
  <1> HIDE DEF k
  <1>17. k \in Int /\ Len(after) \in Int /\ k <= Len(after)
    <2>1. Len(after) \in Nat
      BY <1>4
    <2> QED  BY <1>5, <2>1
  <1>6. page \in Seq(A) /\ Len(page) = k /\ \A i \in 1 .. k : page[i] = after[i]
    <2>1. \A i \in 1 .. k : i \in 1 .. Len(after)
      BY <1>17
    <2>2. \A i \in 1 .. k : after[i] \in A
      BY <1>4, <2>1
    <2>3. /\ page \in Seq(A)
          /\ Len(page) = IF 1 <= k THEN k - 1 + 1 ELSE 0
          /\ \A i \in 1 .. k - 1 + 1 : page[i] = after[1 + i - 1]
      BY <1>5, <2>2, SubSeqProperties
    <2>4. k - 1 + 1 = k /\ \A i \in 1 .. k : 1 + i - 1 = i
      BY <1>5
    <2>5. Len(page) = k
      BY <1>5, <2>3
    <2>6. \A i \in 1 .. k : page[i] = after[i]
      BY <2>3, <2>4
    <2> QED  BY <2>3, <2>5, <2>6
  <1> HIDE DEF page
  <1>7. DOMAIN page = 1 .. k /\ ToSet(page) = {after[i] : i \in 1 .. k}
    <2>1. DOMAIN page = 1 .. k
      BY <1>6, LenProperties
    <2> QED  BY <1>6, <2>1 DEF ToSet
  <1>8. \A i \in 1 .. k : i \in 1 .. Len(after)
    BY <1>17
  <1>9. \A i, j \in 1 .. Len(after) : i < j => after[i] < after[j]
    BY <1>3, <1>4 DEF Rising
  <1>10. Rising(page)
    BY <1>6, <1>7, <1>8, <1>9 DEF Rising
  <1>11. page \in Seq(Seqno)
    BY <1>2, <1>6, SeqMonotonic DEF Seqno
  <1>12. ToSet(page) \subseteq A
    BY <1>6, ToSetFacts
  <1>13. A = {after[i] : i \in 1 .. Len(after)}
    BY <1>3, <1>4 DEF ToSet
  <1>14. ASSUME NEW t \in ToSet(page), NEW s \in A, s <= t
         PROVE  s \in ToSet(page)
    <2>1. PICK i \in 1 .. k : t = after[i]
      BY <1>7
    <2>2. PICK j \in 1 .. Len(after) : s = after[j]
      BY <1>13
    <2>3. i \in 1 .. Len(after) /\ s \in Nat /\ t \in Nat
      BY <1>2, <1>8, <1>12
    <2>4. ~(i < j)
      <3>1. i < j => after[i] < after[j]
        BY <1>9, <2>3
      <3> QED  BY <1>14, <2>1, <2>2, <2>3, <3>1
    <2>5. j \in 1 .. k
      BY <1>17, <2>4
    <2> QED  BY <1>7, <2>2, <2>5
  <1>15. k < PageSize => ToSet(page) = A
    BY <1>5, <1>7, <1>13
  <1>16. ~(k < PageSize) => page # <<>>
    BY <1>5, <1>6
  <1> QED
    BY <1>1, <1>6, <1>10, <1>11, <1>12, <1>14, <1>15, <1>16 DEF A

-------------------------------------------------------------------------------
(* The log. *)

ConstantTypes == MaxSeq \in Nat /\ MaxBreaks \in Nat /\ PageSize \in Nat \ {0}

\* The bounds, in the form the steps use.
LEMMA Constants == ConstantTypes
  BY BoundsAssumption DEF ConstantTypes

\* What a batch of n rows from number k on looks like.
LEMMA BatchNumbers ==
  ASSUME NEW x \in WriterRecord
  PROVE  /\ Seqs(RowsOf(x)) = x.start .. x.start + Len(x.batch) - 1
         /\ EventsOf(x) \subseteq Seqs(RowsOf(x))
         /\ \A r \in RowsOf(x) : r.kind \in RowKind /\ r = [seq |-> r.seq, kind |-> r.kind]
         /\ Len(x.batch) \in Nat /\ x.start \in Nat
         /\ IsFiniteSet(RowsOf(x))
  <1>1. x.batch \in Seq(RowKind) /\ x.start \in 0 .. MaxSeq + 1
    BY DEF WriterRecord
  <1>2. /\ Len(x.batch) \in Nat /\ DOMAIN x.batch = 1 .. Len(x.batch)
        /\ \A i \in 1 .. Len(x.batch) : x.batch[i] \in RowKind
    BY <1>1, LenProperties, ElementOfSeq
  <1> DEFINE n == Len(x.batch)
             k == x.start
             row(i) == [seq |-> k + i - 1, kind |-> x.batch[i]]
  <1>3. RowsOf(x) = {row(i) : i \in 1 .. n}
    BY <1>2 DEF RowsOf
  <1>4. k \in Nat /\ n \in Nat
    BY <1>1, <1>2, Constants DEF ConstantTypes
  <1>5. Seqs(RowsOf(x)) = {k + i - 1 : i \in 1 .. n}
    <2>1. \A i \in 1 .. n : row(i).seq = k + i - 1
      OBVIOUS
    <2>2. Seqs(RowsOf(x)) = {r.seq : r \in {row(i) : i \in 1 .. n}}
      BY <1>3, Zenon DEF Seqs
    <2> HIDE DEF row
    <2>3. {r.seq : r \in {row(i) : i \in 1 .. n}} = {row(i).seq : i \in 1 .. n}
      OBVIOUS
    <2>4. {row(i).seq : i \in 1 .. n} = {k + i - 1 : i \in 1 .. n}
      BY <2>1
    <2> QED  BY <2>2, <2>3, <2>4
  <1>6. {k + i - 1 : i \in 1 .. n} = k .. k + n - 1
    <2> HIDE DEF n, k
    <2>1. ASSUME NEW s \in k .. k + n - 1 PROVE \E i \in 1 .. n : s = k + i - 1
      <3>1. s - k + 1 \in 1 .. n /\ s = k + (s - k + 1) - 1
        BY <1>4
      <3> QED  BY <3>1
    <2>2. \A i \in 1 .. n : k + i - 1 \in k .. k + n - 1
      BY <1>4
    <2> QED  BY <2>1, <2>2
  <1>7. EventsOf(x) \subseteq Seqs(RowsOf(x))
    BY DEF EventsOf, Seqs
  <1>8. \A r \in RowsOf(x) : r.kind \in RowKind /\ r = [seq |-> r.seq, kind |-> r.kind]
    BY <1>2, <1>3
  <1>9. IsFiniteSet(RowsOf(x))
    <2> DEFINE f == [i \in 1 .. n |-> row(i)]
    <2>1. f \in Surjection(1 .. n, RowsOf(x))
      BY <1>3 DEF Surjection
    <2>2. IsFiniteSet(1 .. n)
      <3>1. 1 \in Int /\ n \in Int
        BY <1>4
      <3> QED  BY <3>1, FS_Interval
    <2> HIDE DEF f
    <2> QED  BY <2>1, <2>2, FS_Surjection
  <1> QED  BY <1>4, <1>5, <1>6, <1>7, <1>8, <1>9

\* The log is part of the rows, and no row is above their largest number.
LEMMA RowTypes ==
  ASSUME LogTypes
  PROVE  Logged \subseteq AllSeqs /\ AllSeqs \subseteq Seqno
         /\ SeqMax(AllSeqs) \in 0 .. MaxSeq
         /\ \A s \in AllSeqs : s <= SeqMax(AllSeqs)
  <1>1. Logged \subseteq AllSeqs /\ AllSeqs \subseteq Seqno
    BY DEF LogTypes, Logged, AllSeqs, Seqs, Canonical
  <1>2. AllSeqs \in SUBSET (0 .. MaxSeq) /\ MaxSeq \in Nat
    BY <1>1, Constants DEF Seqno, ConstantTypes
  <1> QED  BY <1>1, <1>2, SeqMaxFacts

\* A step leaves every event in the log, and what it adds comes after them all.
LogGrows ==
  /\ Logged \subseteq Logged'
  /\ \A s \in Logged' : s \in Logged \/ \A t \in Logged : t < s

\* The writers other than w.
LEMMA OtherWriters ==
  ASSUME LogInv, Logged \subseteq Logged', NEW w \in Writers,
         \A v \in Writers \ {w} :
           /\ writer'[v] = writer[v]
           /\ lock' = v => lock = v
           /\ lock = v => UNCHANGED <<lastSeq, rows, lock, proj>>
  PROVE  \A v \in Writers \ {w} : WriterInv(v)'
  <1> SUFFICES ASSUME NEW v \in Writers \ {w} PROVE WriterInv(v)'
    OBVIOUS
  <1>1. WriterInv(v) /\ writer'[v] = writer[v]
    BY DEF LogInv
  <1>2. CASE lock = v
    <2>1. UNCHANGED <<lastSeq, rows, lock, proj>>
      BY <1>2
    <2> QED  BY <1>1, <1>2, <2>1 DEF WriterInv, AllSeqs, Logged, Canonical
  <1>3. CASE lock # v
    <2>1. lock' # v
      BY <1>3
    <2>2. writer[v].pc \notin InTransaction
      BY <1>1, <1>3 DEF WriterInv
    <2> QED  BY <1>1, <2>1, <2>2 DEF WriterInv, InTransaction
  <1> QED  BY <1>2, <1>3

\* A writer at rest has its type.
LEMMA IdleWriterType ==
  IdleWriter \in WriterRecord /\ IdleWriter.pc = "idle"
  <1>1. <<>> \in Seq(RowKind) /\ 0 \in 0 .. MaxSeq + 1
    BY Constants DEF ConstantTypes
  <1> QED  BY <1>1 DEF IdleWriter, WriterRecord

\* What each step of a batch makes of the log.
LEMMA AllocateLog ==
  ASSUME LogTypes, LogInv, NEW w \in Writers, NEW b \in Batches, Allocate(w, b)
  PROVE  LogTypes' /\ LogInv' /\ LogGrows
  <1> DEFINE x == [IdleWriter EXCEPT !.pc = "allocated", !.batch = b, !.start = lastSeq + 1]
  <1>1. /\ writer[w].pc = "idle" /\ lock = "none" /\ lock' = w
        /\ lastSeq + Len(b) <= MaxSeq /\ lastSeq' = lastSeq + Len(b)
        /\ writer' = [writer EXCEPT ![w] = x]
        /\ UNCHANGED <<rows, proj, metrics, rebuild, breaks>>
    BY DEF Allocate
  <1>2. b \in Seq(RowKind) /\ Len(b) \in Nat
    BY BatchesAssumption
  <1>3. "none" \notin Writers /\ "rebuild" \notin Writers
    BY WritersAssumption
  <1>4. lastSeq \in 0 .. MaxSeq /\ MaxSeq \in Nat /\ writer \in [Writers -> WriterRecord]
    BY Constants DEF LogTypes, ConstantTypes
  <1>5. /\ x \in WriterRecord
        /\ x.pc = "allocated" /\ x.batch = b /\ x.start = lastSeq + 1
    <2>1. IdleWriter \in WriterRecord
      BY IdleWriterType
    <2>2. lastSeq + 1 \in 0 .. MaxSeq + 1
      BY <1>4
    <2> QED  BY <1>2, <2>1, <2>2 DEF WriterRecord, InTransaction
  <1> HIDE DEF x
  <1>6. /\ writer' \in [Writers -> WriterRecord] /\ writer'[w] = x
        /\ \A v \in Writers \ {w} : writer'[v] = writer[v]
    BY <1>1, <1>4, <1>5
  <1>7. lastSeq' \in 0 .. MaxSeq
    BY <1>1, <1>2, <1>4
  <1>8. LogTypes'
    BY <1>1, <1>6, <1>7 DEF LogTypes
  <1>9. AllSeqs' = AllSeqs /\ Logged' = Logged /\ ProjectionCoversLog'
    BY <1>1 DEF AllSeqs, Logged, Canonical, LogInv, ProjectionCoversLog
  <1>10. \A v \in Writers \ {w} : WriterInv(v)'
    BY <1>1, <1>3, <1>6, <1>9, OtherWriters
  <1>11. WriterInv(w)'
    <2>1. lastSeq = SeqMax(AllSeqs)
      BY <1>1, <1>3 DEF LogInv
    <2> QED  BY <1>1, <1>5, <1>6, <1>9, <2>1 DEF WriterInv, InTransaction, AfterCommit
  <1>12. rebuild'.pc # "read"
    BY <1>1 DEF LogInv
  <1>13. LogInv'
    BY <1>1, <1>9, <1>10, <1>11, <1>12 DEF LogInv
  <1> QED  BY <1>8, <1>9, <1>13 DEF LogGrows

\* The inserts are invisible and the projection is computed on the locked log.
LEMMA ApplyLog ==
  ASSUME LogTypes, LogInv, NEW w \in Writers, Apply(w)
  PROVE  LogTypes' /\ LogInv' /\ LogGrows
  <1> DEFINE x == [writer[w] EXCEPT !.pc = "applied",
                                    !.seen = proj.seen \cup Seqs(BatchEvents(w))]
  <1>1. /\ writer[w].pc = "allocated"
        /\ writer' = [writer EXCEPT ![w].pc = "applied",
                                    ![w].seen = proj.seen \cup Seqs(BatchEvents(w))]
        /\ UNCHANGED <<lastSeq, rows, lock, proj, metrics, rebuild, breaks>>
    BY DEF Apply, logVars
  <1>2. writer \in [Writers -> WriterRecord] /\ writer[w] \in WriterRecord
    BY DEF LogTypes
  <1>3. Seqs(BatchEvents(w)) = EventsOf(writer[w])
    BY DEF BatchEvents, BatchRows, EventsOf, RowsOf
  <1>4. lock = w /\ WriterInv(w)
    BY <1>1 DEF LogInv, WriterInv, InTransaction
  <1>5. EventsOf(writer[w]) \subseteq Seqno
    <2>1. EventsOf(writer[w]) \subseteq writer[w].start .. writer[w].start + Len(writer[w].batch) - 1
      BY <1>2, BatchNumbers
    <2>2. /\ writer[w].start = SeqMax(AllSeqs) + 1 /\ SeqMax(AllSeqs) \in 0 .. MaxSeq
          /\ SeqMax(AllSeqs) + Len(writer[w].batch) = lastSeq
          /\ lastSeq \in 0 .. MaxSeq /\ MaxSeq \in Nat /\ Len(writer[w].batch) \in Nat
      BY <1>2, <1>4, RowTypes, BatchNumbers, Constants DEF WriterInv, LogTypes, ConstantTypes
    <2>3. \A s \in writer[w].start .. writer[w].start + Len(writer[w].batch) - 1 : s \in Seqno
      BY <2>2 DEF Seqno
    <2> QED  BY <2>1, <2>3
  <1>6. /\ writer' = [writer EXCEPT ![w] = x]
        /\ x \in WriterRecord /\ x.pc = "applied"
        /\ x.start = writer[w].start /\ x.batch = writer[w].batch
        /\ x.seen = proj.seen \cup EventsOf(writer[w])
    <2>1. writer' = [writer EXCEPT ![w] = x]
      BY <1>1, <1>2
    <2>2. proj.seen \subseteq Seqno
      BY DEF LogTypes
    <2> QED  BY <1>2, <1>3, <1>5, <2>1, <2>2 DEF WriterRecord, InTransaction
  <1> HIDE DEF x
  <1>7. /\ writer' \in [Writers -> WriterRecord] /\ writer'[w] = x
        /\ \A v \in Writers \ {w} : writer'[v] = writer[v]
    BY <1>2, <1>6
  <1>8. LogTypes'
    BY <1>1, <1>7 DEF LogTypes
  <1>9. AllSeqs' = AllSeqs /\ Logged' = Logged /\ ProjectionCoversLog'
    BY <1>1 DEF AllSeqs, Logged, Canonical, LogInv, ProjectionCoversLog
  <1>10. \A v \in Writers \ {w} : WriterInv(v)'
    BY <1>1, <1>7, <1>9, OtherWriters
  <1>11. EventsOf(x) = EventsOf(writer[w])
    BY <1>6 DEF EventsOf, RowsOf
  <1>12. WriterInv(w)'
    BY <1>1, <1>4, <1>6, <1>7, <1>9, <1>11 DEF WriterInv, InTransaction, AfterCommit
  <1>13. LogInv'
    BY <1>1, <1>9, <1>10, <1>12 DEF LogInv
  <1> QED  BY <1>8, <1>9, <1>13 DEF LogGrows

\* Rows and projection become visible together.
LEMMA CommitLog ==
  ASSUME LogTypes, LogInv, NEW w \in Writers, Commit(w)
  PROVE  LogTypes' /\ LogInv' /\ LogGrows
  <1> DEFINE x == writer[w]
             E == EventsOf(x)
             v == SeqMax(E)
             n == SeqMax(AllSeqs)
             y == [x EXCEPT !.pc = "committed"]
  <1>1. /\ x.pc = "applied"
        /\ rows' = rows \cup RowsOf(x)
        /\ proj' = IF proj.version < v THEN [version |-> v, seen |-> x.seen] ELSE proj
        /\ lock' = Unlocked(w)
        /\ writer' = [writer EXCEPT ![w].pc = "committed"]
        /\ UNCHANGED <<lastSeq, metrics, rebuild, breaks>>
    BY DEF Commit, Step, Upsert, BatchEvents, BatchRows, EventsOf, RowsOf
  <1>2. writer \in [Writers -> WriterRecord] /\ x \in WriterRecord
    BY DEF LogTypes
  <1>3. lock = w /\ x.start = n + 1 /\ lastSeq = n + Len(x.batch) /\ x.seen = proj.seen \cup E
    BY <1>1 DEF LogInv, WriterInv, InTransaction
  <1>4. "none" \notin Writers /\ "rebuild" \notin Writers /\ lock' = "none"
    BY <1>1, <1>3, WritersAssumption DEF Unlocked
  <1>5. /\ MaxSeq \in Nat /\ n \in 0 .. MaxSeq /\ lastSeq \in 0 .. MaxSeq
        /\ Len(x.batch) \in Nat
        /\ Logged \subseteq AllSeqs /\ AllSeqs \subseteq Seqno /\ \A s \in AllSeqs : s <= n
    BY <1>2, RowTypes, BatchNumbers, Constants DEF LogTypes, ConstantTypes
  <1>6. Seqs(RowsOf(x)) = n + 1 .. lastSeq /\ E \subseteq n + 1 .. lastSeq
    <2>1. Seqs(RowsOf(x)) = x.start .. x.start + Len(x.batch) - 1 /\ E \subseteq Seqs(RowsOf(x))
      BY <1>2, BatchNumbers
    <2>2. x.start + Len(x.batch) - 1 = lastSeq
      BY <1>3, <1>5
    <2> QED  BY <1>3, <2>1, <2>2
  <1>7. AllSeqs' = AllSeqs \cup (n + 1 .. lastSeq) /\ Logged' = Logged \cup E
    <2>1. AllSeqs' = AllSeqs \cup Seqs(RowsOf(x))
      BY <1>1 DEF AllSeqs, Seqs
    <2>2. Logged' = Logged \cup E
      BY <1>1 DEF Logged, Canonical, Seqs, EventsOf
    <2> QED  BY <1>6, <2>1, <2>2
  <1>8. rows' \subseteq [seq : Seqno, kind : RowKind]
    <2>1. \A r \in RowsOf(x) : r.kind \in RowKind /\ r = [seq |-> r.seq, kind |-> r.kind]
      BY <1>2, BatchNumbers
    <2>2. \A r \in RowsOf(x) : r.seq \in n + 1 .. lastSeq
      <3>1. \A r \in RowsOf(x) : r.seq \in Seqs(RowsOf(x))
        BY DEF Seqs
      <3> QED  BY <1>6, <3>1
    <2>3. n + 1 .. lastSeq \subseteq Seqno
      BY <1>5 DEF Seqno
    <2>4. ASSUME NEW r \in RowsOf(x) PROVE r \in [seq : Seqno, kind : RowKind]
      <3>1. r.seq \in Seqno /\ r.kind \in RowKind /\ r = [seq |-> r.seq, kind |-> r.kind]
        BY <2>1, <2>2, <2>3
      <3>2. [seq |-> r.seq, kind |-> r.kind] \in [seq : Seqno, kind : RowKind]
        BY <3>1
      <3> QED  BY <3>1, <3>2
    <2> QED  BY <1>1, <2>4 DEF LogTypes
  <1>9. y \in WriterRecord /\ y.pc = "committed" /\ y.batch = x.batch /\ y.start = x.start
    BY <1>2 DEF WriterRecord, AfterCommit
  <1>10. EventsOf(y) = E
    BY <1>9 DEF EventsOf, RowsOf
  <1>11. /\ writer' \in [Writers -> WriterRecord] /\ writer'[w] = y
         /\ \A u \in Writers \ {w} : writer'[u] = writer[u]
    <2>1. writer' = [writer EXCEPT ![w] = y]
      BY <1>1, <1>2
    <2> HIDE DEF y
    <2> QED  BY <1>2, <1>9, <2>1
  <1> HIDE DEF x, E, n, y
  <1>12. SeqMax(AllSeqs') = lastSeq
    <2>1. AllSeqs' \in SUBSET (0 .. MaxSeq)
      BY <1>5, <1>7 DEF Seqno
    <2>2. \A s \in AllSeqs' : s <= lastSeq
      <3>1. n <= lastSeq
        BY <1>3, <1>5
      <3>2. \A s \in AllSeqs : s <= lastSeq
        BY <1>5, <3>1 DEF Seqno
      <3>3. \A s \in n + 1 .. lastSeq : s <= lastSeq
        BY <1>5
      <3> QED  BY <1>7, <3>2, <3>3
    <2>3. lastSeq \in AllSeqs' \cup {0}
      <3>1. CASE Len(x.batch) = 0
        <4>1. n \in AllSeqs \cup {0}
          <5>1. AllSeqs \in SUBSET (0 .. MaxSeq)
            BY <1>5 DEF Seqno
          <5> QED  BY <1>5, <5>1, SeqMaxFacts DEF n
        <4>2. lastSeq = n
          BY <1>3, <1>5, <3>1
        <4> QED  BY <1>7, <4>1, <4>2
      <3>2. CASE Len(x.batch) # 0
        <4>1. lastSeq \in n + 1 .. lastSeq
          BY <1>3, <1>5, <3>2
        <4> QED  BY <1>7, <4>1
      <3> QED  BY <3>1, <3>2
    <2> QED  BY <1>5, <2>1, <2>2, <2>3, SeqMaxIs
  <1>13. proj \in [version : 0 .. MaxSeq, seen : SUBSET Seqno]
         /\ proj.seen = Logged /\ proj.version = SeqMax(Logged)
    BY DEF LogInv, ProjectionCoversLog, LogTypes, Logged
  <1>14. Logged \in SUBSET (0 .. MaxSeq) /\ E \in SUBSET (0 .. MaxSeq)
         /\ Logged' \in SUBSET (0 .. MaxSeq) /\ E \subseteq Seqno /\ \A s \in E : n < s
    BY <1>5, <1>6, <1>7 DEF Seqno
  <1>15. proj.version \in Logged \cup {0} /\ proj.version <= n
    <2>1. proj.version \in Logged \cup {0}
      BY <1>5, <1>13, <1>14, SeqMaxFacts
    <2> QED  BY <1>5, <2>1
  <1>16. /\ proj' \in [version : 0 .. MaxSeq, seen : SUBSET Seqno]
         /\ proj'.seen = Logged' /\ proj'.version = SeqMax(Logged')
    <2>1. CASE E = {}
      <3>1. v = 0
        BY <1>5, <1>14, <2>1, SeqMaxFacts
      <3> HIDE DEF v
      <3>2. proj' = proj
        BY <1>1, <1>13, <3>1
      <3> QED  BY <1>7, <1>13, <2>1, <3>2
    <2>2. CASE E # {}
      <3>1. v \in E \cup {0} /\ \A s \in E : s <= v
        BY <1>5, <1>14, SeqMaxFacts
      <3>2. v \in E
        <4>1. PICK s \in E : TRUE
          BY <2>2
        <4>2. s <= v /\ n < s /\ s \in Nat /\ n \in Nat
          BY <1>5, <1>14, <3>1
        <4> HIDE DEF v
        <4> QED  BY <3>1, <4>2
      <3>3. v \in 0 .. MaxSeq /\ proj.version < v /\ n < v
        <4> HIDE DEF v
        <4>1. v \in 0 .. MaxSeq /\ n < v
          BY <1>14, <3>2
        <4>2. proj.version \in 0 .. MaxSeq
          BY <1>13
        <4> QED  BY <1>5, <1>15, <4>1, <4>2
      <3> HIDE DEF v
      <3>4. proj' = [version |-> v, seen |-> x.seen] /\ x.seen = Logged'
        BY <1>1, <1>3, <1>7, <1>13, <3>3
      <3>5. \A s \in Logged' : s <= v
        <4>1. \A s \in Logged : s <= v
          BY <1>5, <1>14, <3>3 DEF Seqno
        <4> QED  BY <1>7, <3>1, <4>1
      <3>6. SeqMax(Logged') = v
        BY <1>5, <1>7, <1>14, <3>2, <3>5, SeqMaxIs
      <3>7. Logged' \subseteq Seqno
        BY <1>5, <1>7, <1>14
      <3> QED  BY <3>3, <3>4, <3>6, <3>7
    <2> QED  BY <2>1, <2>2
  <1> HIDE DEF v
  <1>17. LogTypes'
    BY <1>1, <1>4, <1>8, <1>11, <1>16 DEF LogTypes
  <1>18. LogGrows
    BY <1>5, <1>7, <1>14 DEF LogGrows, Seqno
  <1>19. \A u \in Writers \ {w} : WriterInv(u)'
    BY <1>3, <1>4, <1>11, <1>18, OtherWriters DEF LogGrows
  <1>20. WriterInv(w)'
    BY <1>4, <1>7, <1>9, <1>10, <1>11 DEF WriterInv, InTransaction, AfterCommit
  <1>21. ProjectionCoversLog'
    BY <1>16 DEF ProjectionCoversLog, Logged
  <1>22. rebuild'.pc # "read"
    BY <1>1, <1>3, <1>4 DEF LogInv
  <1>23. LogInv'
    BY <1>1, <1>12, <1>19, <1>20, <1>21, <1>22 DEF LogInv
  <1> QED  BY <1>17, <1>18, <1>23

\* A rollback gives the numbers back: the lock kept everyone else from allocating.
LEMMA RollbackLog ==
  ASSUME LogTypes, LogInv, NEW w \in Writers, Rollback(w)
  PROVE  LogTypes' /\ LogInv' /\ LogGrows
  <1> DEFINE n == SeqMax(AllSeqs)
  <1>1. /\ writer[w].pc \in InTransaction /\ breaks' = breaks + 1
        /\ lastSeq' = writer[w].start - 1 /\ lock' = Unlocked(w)
        /\ writer' = [writer EXCEPT ![w] = IdleWriter]
        /\ UNCHANGED <<rows, proj, metrics, rebuild>>
    BY DEF Rollback, InTransaction
  <1>2. lock = w /\ writer[w].start = n + 1 /\ rebuild.pc # "read"
    BY <1>1, WritersAssumption DEF LogInv, WriterInv
  <1>3. "none" \notin Writers /\ lock' = "none"
    BY <1>1, <1>2, WritersAssumption DEF Unlocked
  <1>4. n \in 0 .. MaxSeq
    BY RowTypes
  <1> HIDE DEF n
  <1>5. lastSeq' = n /\ breaks' \in Nat
    BY <1>1, <1>2, <1>4, Constants DEF LogTypes, ConstantTypes
  <1>6. /\ writer' \in [Writers -> WriterRecord] /\ writer'[w] = IdleWriter
        /\ \A v \in Writers \ {w} : writer'[v] = writer[v]
    BY <1>1, IdleWriterType DEF LogTypes
  <1>7. LogTypes'
    BY <1>1, <1>3, <1>4, <1>5, <1>6 DEF LogTypes
  <1>8. AllSeqs' = AllSeqs /\ Logged' = Logged /\ ProjectionCoversLog'
    BY <1>1 DEF AllSeqs, Logged, Canonical, LogInv, ProjectionCoversLog
  <1>9. \A v \in Writers \ {w} : WriterInv(v)'
    BY <1>2, <1>3, <1>6, <1>8, OtherWriters
  <1>10. WriterInv(w)'
    BY <1>3, <1>6, IdleWriterType DEF WriterInv, InTransaction, AfterCommit
  <1>11. LogInv'
    BY <1>1, <1>2, <1>5, <1>8, <1>9, <1>10 DEF LogInv, n
  <1> QED  BY <1>7, <1>8, <1>11 DEF LogGrows

\* A step after the commit moves the writer on, or ends the batch.
LEMMA AfterCommitLog ==
  ASSUME LogTypes, LogInv, NEW w \in Writers, writer[w].pc \in AfterCommit,
         NEW y \in WriterRecord, writer' = [writer EXCEPT ![w] = y],
         \/ y.pc = "idle"
         \/ y.pc \in AfterCommit /\ y.batch = writer[w].batch /\ y.start = writer[w].start,
         UNCHANGED <<lastSeq, rows, lock, proj, rebuild>>, metrics' \in Nat, breaks' \in Nat
  PROVE  LogTypes' /\ LogInv' /\ LogGrows
  <1>1. /\ writer' \in [Writers -> WriterRecord] /\ writer'[w] = y
        /\ \A v \in Writers \ {w} : writer'[v] = writer[v]
    BY DEF LogTypes
  <1>2. LogTypes'
    BY <1>1 DEF LogTypes
  <1>3. AllSeqs' = AllSeqs /\ Logged' = Logged /\ ProjectionCoversLog'
    BY DEF AllSeqs, Logged, Canonical, LogInv, ProjectionCoversLog
  <1>4. \A v \in Writers \ {w} : WriterInv(v)'
    BY <1>1, <1>3, OtherWriters
  <1>5. WriterInv(w)'
    <2>1. WriterInv(w) /\ lock # w
      BY DEF LogInv, WriterInv, InTransaction, AfterCommit
    <2>2. y.pc \notin InTransaction /\ y.pc # "applied"
      BY DEF InTransaction, AfterCommit
    <2>3. y.pc \in AfterCommit => EventsOf(y) = EventsOf(writer[w])
      <3>1. y.pc # "idle" => y.batch = writer[w].batch /\ y.start = writer[w].start
        OBVIOUS
      <3>2. y.pc \in AfterCommit => y.pc # "idle"
        BY DEF AfterCommit
      <3> QED  BY <3>1, <3>2 DEF EventsOf, RowsOf
    <2> QED  BY <1>1, <1>3, <2>1, <2>2, <2>3 DEF WriterInv
  <1>6. LogInv'
    BY <1>3, <1>4, <1>5 DEF LogInv
  <1> QED  BY <1>2, <1>3, <1>6 DEF LogGrows

\* After its commit a writer only reads and writes the counters and publishes.
LEMMA ReadMetricsLog ==
  ASSUME LogTypes, LogInv, NEW w \in Writers, ReadMetrics(w)
  PROVE  LogTypes' /\ LogInv' /\ LogGrows
  <1> DEFINE y == [writer[w] EXCEPT !.pc = "counting", !.decisions = metrics]
  <1>1. writer[w].pc \in AfterCommit /\ UNCHANGED <<lastSeq, rows, lock, proj, rebuild, metrics, breaks>>
    BY DEF ReadMetrics, logVars, AfterCommit
  <1>2. writer[w] \in WriterRecord /\ metrics \in Nat /\ breaks \in Nat
    BY DEF LogTypes
  <1>3. /\ y \in WriterRecord /\ y.pc \in AfterCommit
        /\ y.batch = writer[w].batch /\ y.start = writer[w].start
    BY <1>2 DEF WriterRecord, AfterCommit
  <1>4. writer' = [writer EXCEPT ![w] = y]
    BY DEF ReadMetrics, LogTypes
  <1> HIDE DEF y
  <1> QED  BY <1>1, <1>2, <1>3, <1>4, AfterCommitLog

\* Step(w, pc), to a program counter after the commit.
LEMMA StepLog ==
  ASSUME LogTypes, LogInv, NEW w \in Writers, writer[w].pc \in AfterCommit,
         NEW pc \in AfterCommit, Step(w, pc),
         UNCHANGED <<lastSeq, rows, lock, proj, rebuild>>, metrics' \in Nat, breaks' \in Nat
  PROVE  LogTypes' /\ LogInv' /\ LogGrows
  <1> DEFINE y == [writer[w] EXCEPT !.pc = pc]
  <1>1. writer[w] \in WriterRecord
    BY DEF LogTypes
  <1>2. /\ y \in WriterRecord /\ y.pc \in AfterCommit
        /\ y.batch = writer[w].batch /\ y.start = writer[w].start
    BY <1>1 DEF WriterRecord
  <1>3. writer' = [writer EXCEPT ![w] = y]
    BY DEF Step, LogTypes
  <1> HIDE DEF y
  <1> QED  BY <1>2, <1>3, AfterCommitLog

\* A writer that ends after its commit leaves log and projection alone.
LEMMA IdleLog ==
  ASSUME LogTypes, LogInv, NEW w \in Writers, writer[w].pc \in AfterCommit,
         writer' = [writer EXCEPT ![w] = IdleWriter],
         UNCHANGED <<lastSeq, rows, lock, proj, rebuild>>, metrics' \in Nat, breaks' \in Nat
  PROVE  LogTypes' /\ LogInv' /\ LogGrows
  BY IdleWriterType, AfterCommitLog

\* The counters are written without the lock.
LEMMA WriteMetricsLog ==
  ASSUME LogTypes, LogInv, NEW w \in Writers, WriteMetrics(w)
  PROVE  LogTypes' /\ LogInv' /\ LogGrows
  <1> DEFINE D == {r \in BatchEvents(w) : r.kind = "decision"}
  <1>1. /\ writer[w].pc \in AfterCommit /\ Step(w, "counted")
        /\ metrics' = writer[w].decisions + Cardinality(D)
        /\ UNCHANGED <<lastSeq, rows, lock, proj, rebuild, breaks>>
    BY DEF WriteMetrics, logVars, AfterCommit
  <1>2. writer[w] \in WriterRecord /\ writer[w].decisions \in Nat /\ breaks \in Nat
    BY DEF LogTypes, WriterRecord
  <1>3. D \in SUBSET RowsOf(writer[w])
    BY DEF BatchEvents, BatchRows, RowsOf
  <1>4. IsFiniteSet(D)
    BY <1>2, <1>3, BatchNumbers, FS_Subset
  <1> HIDE DEF D
  <1>5. metrics' \in Nat
    <2>1. Cardinality(D) \in Nat
      BY <1>4, FS_CardinalityType
    <2> QED  BY <1>1, <1>2, <2>1
  <1> QED  BY <1>1, <1>2, <1>5, StepLog DEF AfterCommit

\* A rebuild reads the whole log under the lock ...
LEMMA RebuildReadLog ==
  ASSUME LogTypes, LogInv, RebuildRead
  PROVE  LogTypes' /\ LogInv' /\ LogGrows
  <1>1. /\ lock = "none" /\ lock' = "rebuild" /\ breaks' = breaks + 1
        /\ rebuild' = [pc |-> "read", seen |-> Logged]
        /\ UNCHANGED <<lastSeq, rows, proj, metrics, writer>>
    BY DEF RebuildRead, Logged
  <1>2. "none" \notin Writers /\ "rebuild" \notin Writers
    BY WritersAssumption
  <1>3. Logged \subseteq Seqno
    BY RowTypes
  <1>4. LogTypes'
    BY <1>1, <1>3 DEF LogTypes
  <1>5. AllSeqs' = AllSeqs /\ Logged' = Logged /\ ProjectionCoversLog'
    BY <1>1 DEF AllSeqs, Logged, Canonical, LogInv, ProjectionCoversLog
  <1>6. \A w \in Writers : WriterInv(w)'
    BY <1>1, <1>2, <1>5 DEF LogInv, WriterInv
  <1>7. LogInv'
    BY <1>1, <1>2, <1>5, <1>6 DEF LogInv
  <1> QED  BY <1>4, <1>5, <1>7 DEF LogGrows

\* ... and writes its fold while nobody else has it.
LEMMA RebuildWriteLog ==
  ASSUME LogTypes, LogInv, RebuildWrite
  PROVE  LogTypes' /\ LogInv' /\ LogGrows
  <1>1. /\ rebuild.pc = "read" /\ rebuild' = IdleRebuild
        /\ proj' = [version |-> SeqMax(rebuild.seen), seen |-> rebuild.seen]
        /\ lock' = IF lock = "rebuild" THEN "none" ELSE lock
        /\ UNCHANGED <<lastSeq, rows, metrics, writer, breaks>>
    BY DEF RebuildWrite, Upsert
  <1>2. "none" \notin Writers /\ "rebuild" \notin Writers
    BY WritersAssumption
  <1>3. lock = "rebuild" /\ lock' = "none" /\ rebuild.seen = Logged
    BY <1>1 DEF LogInv
  <1>4. Logged \subseteq Seqno /\ SeqMax(Logged) \in 0 .. MaxSeq
    <2>1. Logged \subseteq Seqno
      BY RowTypes
    <2>2. Logged \in SUBSET (0 .. MaxSeq) /\ MaxSeq \in Nat
      BY <2>1, Constants DEF Seqno, ConstantTypes
    <2> QED  BY <2>1, <2>2, SeqMaxFacts
  <1>5. LogTypes'
    BY <1>1, <1>3, <1>4 DEF LogTypes, IdleRebuild
  <1>6. AllSeqs' = AllSeqs /\ Logged' = Logged
    BY <1>1 DEF AllSeqs, Logged, Canonical
  <1>7. ProjectionCoversLog'
    BY <1>1, <1>3, <1>6 DEF ProjectionCoversLog, Logged
  <1>8. \A w \in Writers : WriterInv(w)'
    BY <1>1, <1>2, <1>3, <1>6 DEF LogInv, WriterInv, InTransaction
  <1>9. LogInv'
    BY <1>1, <1>2, <1>3, <1>6, <1>7, <1>8 DEF LogInv, IdleRebuild
  <1> QED  BY <1>5, <1>6, <1>9 DEF LogGrows

\* Open transactions roll back.
LEMMA ProcessExitLog ==
  ASSUME LogTypes, LogInv, ProcessExit
  PROVE  LogTypes' /\ LogInv' /\ LogGrows
  <1>1. /\ breaks' = breaks + 1 /\ lastSeq' = SeqMax(AllSeqs) /\ lock' = "none"
        /\ writer' = [w \in Writers |-> IdleWriter] /\ rebuild' = IdleRebuild
        /\ UNCHANGED <<rows, proj, metrics>>
    BY DEF ProcessExit, AllSeqs
  <1>2. "none" \notin Writers
    BY WritersAssumption
  <1>3. SeqMax(AllSeqs) \in 0 .. MaxSeq
    BY RowTypes
  <1>4. LogTypes'
    BY <1>1, <1>3, IdleWriterType DEF LogTypes, IdleRebuild
  <1>5. AllSeqs' = AllSeqs /\ Logged' = Logged /\ ProjectionCoversLog'
    BY <1>1 DEF AllSeqs, Logged, Canonical, LogInv, ProjectionCoversLog
  <1>6. \A w \in Writers : WriterInv(w)'
    BY <1>1, <1>2, IdleWriterType DEF WriterInv, InTransaction, AfterCommit
  <1>7. LogInv'
    BY <1>1, <1>5, <1>6 DEF LogInv, IdleRebuild
  <1> QED  BY <1>4, <1>5, <1>7 DEF LogGrows

\* A step that concerns only the client.
LEMMA LogKept ==
  ASSUME LogTypes, LogInv, breaks' \in Nat,
         UNCHANGED <<lastSeq, rows, lock, proj, metrics, writer, rebuild>>
  PROVE  LogTypes' /\ LogInv' /\ Logged' = Logged
  <1>1. LogTypes'
    BY DEF LogTypes
  <1>2. AllSeqs' = AllSeqs /\ Logged' = Logged /\ ProjectionCoversLog'
    BY DEF AllSeqs, Logged, Canonical, LogInv, ProjectionCoversLog
  <1>3. \A w \in Writers : WriterInv(w)'
    BY <1>2 DEF LogInv, WriterInv
  <1> QED  BY <1>1, <1>2, <1>3 DEF LogInv

-------------------------------------------------------------------------------
(* The client. *)

LastOf(q) == IF q = <<>> THEN 0 ELSE Last(q)

\* The last number of an ascending list is its largest.
LEMMA LastOfFacts ==
  ASSUME NEW n \in Nat, NEW q \in Seq(1 .. n), Rising(q)
  PROVE  /\ LastOf(q) \in 0 .. n
         /\ q = <<>> <=> ToSet(q) = {}
         /\ q = <<>> => LastOf(q) = 0
         /\ q # <<>> => LastOf(q) \in ToSet(q) /\ 0 < LastOf(q)
         /\ \A x \in ToSet(q) : x \in 1 .. n /\ x <= LastOf(q)
  <1>1. ToSet(q) \subseteq 1 .. n /\ (q = <<>> <=> ToSet(q) = {})
    <2>1. ToSet(q) \subseteq 1 .. n
      BY ToSetFacts
    <2>2. q = <<>> <=> ToSet(q) = {}
      BY ToSetEmpty
    <2> QED  BY <2>1, <2>2
  <1>2. q \in Seq(Nat)
    BY SeqMonotonic
  <1>3. q # <<>> => Last(q) \in ToSet(q) /\ \A x \in ToSet(q) : x <= Last(q)
    BY <1>2, LastOfRising
  <1>4. CASE q = <<>>
    BY <1>1, <1>4 DEF LastOf
  <1>5. CASE q # <<>>
    <2>1. LastOf(q) = Last(q)
      BY <1>5 DEF LastOf
    <2>2. LastOf(q) \in 1 .. n
      BY <1>1, <1>3, <1>5, <2>1
    <2> QED  BY <1>1, <1>3, <1>5, <2>1, <2>2
  <1> QED  BY <1>4, <1>5

\* Two ascending lists, the second above the first, are one.
LEMMA ExtendFacts ==
  ASSUME NEW n \in Nat, NEW q \in Seq(1 .. n), NEW r \in Seq(1 .. n), Rising(q), Rising(r),
         \A x \in ToSet(q), y \in ToSet(r) : x < y
  PROVE  /\ q \o r \in Seq(1 .. n) /\ Rising(q \o r)
         /\ ToSet(q \o r) = ToSet(q) \cup ToSet(r)
         /\ LastOf(q \o r) = IF r = <<>> THEN LastOf(q) ELSE LastOf(r)
         /\ q \o r = <<>> <=> q = <<>> /\ r = <<>>
  <1>1. q \o r \in Seq(1 .. n) /\ ToSet(q \o r) = ToSet(q) \cup ToSet(r)
    BY ToSetConcat
  <1>2. q \in Seq(Nat) /\ r \in Seq(Nat)
    BY SeqMonotonic
  <1>3. Rising(q \o r)
    BY <1>2, RisingConcat
  <1>4. q \o r = <<>> <=> q = <<>> /\ r = <<>>
    BY ConcatEqualIffEmpty
  <1>5. CASE r = <<>>
    <2>1. q \o r = q
      BY <1>5, ConcatEmptySeq
    <2> QED  BY <1>1, <1>3, <1>4, <1>5, <2>1
  <1>6. CASE r # <<>>
    <2> DEFINE a == LastOf(q \o r)
               b == LastOf(r)
    <2>1. a \in ToSet(q \o r) /\ \A x \in ToSet(q \o r) : x <= a
      BY <1>1, <1>3, <1>4, <1>6, LastOfFacts
    <2>2. b \in ToSet(r) /\ \A x \in ToSet(r) : x <= b
      BY <1>6, LastOfFacts
    <2>3. ToSet(q) \subseteq Nat /\ ToSet(r) \subseteq Nat
      BY <1>2, ToSetFacts
    <2> HIDE DEF a, b
    <2>4. b <= a /\ a \in Nat /\ b \in Nat
      BY <1>1, <2>1, <2>2, <2>3
    <2>5. a \in ToSet(r)
      <3>1. a \in ToSet(q) => a < b
        BY <2>2
      <3> QED  BY <1>1, <2>1, <2>4, <3>1
    <2>6. a = b
      BY <2>2, <2>4, <2>5
    <2> QED  BY <1>1, <1>3, <1>4, <1>6, <2>6 DEF a, b
  <1> QED  BY <1>5, <1>6

\* The type and the shape of the client's state, for the steps below.
LEMMA ClientFacts ==
  ASSUME EventLogTypeOK, ClientInv
  PROVE  /\ MaxSeq \in Nat /\ Logged \subseteq Seqno /\ Seqno \subseteq Nat
         /\ got \in Seq(1 .. MaxSeq) /\ wire \in Seq(1 .. MaxSeq) /\ sub.buffer \in Seq(1 .. MaxSeq)
         /\ got \in Seq(Nat) /\ wire \in Seq(Nat) /\ sub.buffer \in Seq(Nat)
         /\ sub.high \in 0 .. MaxSeq /\ sub.cursor \in 0 .. MaxSeq /\ since \in 0 .. MaxSeq
         /\ LastId = LastOf(got) /\ LastId \in 0 .. MaxSeq
         /\ got = <<>> <=> ToSet(got) = {}
         /\ got = <<>> => LastId = 0
         /\ got # <<>> => LastId \in ToSet(got) /\ 0 < LastId
         /\ \A x \in ToSet(got) : x <= LastId
  <1>1. MaxSeq \in Nat /\ Logged \subseteq Seqno /\ Seqno \subseteq Nat
    BY RowTypes, Constants DEF EventLogTypeOK, ConstantTypes, Seqno
  <1>2. /\ got \in Seq(1 .. MaxSeq) /\ wire \in Seq(1 .. MaxSeq)
        /\ sub.buffer \in Seq(1 .. MaxSeq)
        /\ sub.high \in 0 .. MaxSeq /\ sub.cursor \in 0 .. MaxSeq /\ since \in 0 .. MaxSeq
    BY DEF EventLogTypeOK, ClientTypes, Seqno
  <1>3. got \in Seq(Nat) /\ wire \in Seq(Nat) /\ sub.buffer \in Seq(Nat)
    <2>1. 1 .. MaxSeq \subseteq Nat
      OBVIOUS
    <2> QED  BY <1>2, <2>1, SeqMonotonic
  <1>4. LastId = LastOf(got)
    BY DEF LastId, LastOf
  <1>5. Rising(got)
    BY DEF ClientInv
  <1> QED  BY <1>1, <1>2, <1>3, <1>4, <1>5, LastOfFacts

\* A longer log changes nothing for the client: it has passed none of the new
\* events.
LEMMA LogGrowsClient ==
  ASSUME EventLogTypeOK, ClientInv, LogGrows, (Logged \subseteq Seqno)', UNCHANGED <<hub, sseVars>>
  PROVE  ClientTypes' /\ ClientInv'
  <1>1. UNCHANGED <<hub, wire, sub, got, since, published, excused>>
    BY DEF sseVars
  <1>2. ClientTypes'
    BY <1>1 DEF EventLogTypeOK, ClientTypes
  <1>3. LastId' = LastId /\ Pending' = Pending
    BY <1>1 DEF LastId, Pending
  <1>4. Rising(got)' /\ TravelInv' /\ HandlerInv' /\ LiveInv'
    BY <1>1, <1>3 DEF ClientInv, TravelInv, HandlerInv, LiveInv, LogGrows
  <1>5. \A s \in Logged' : s \in Logged \/ \A t \in Logged : t < s
    BY DEF LogGrows
  <1>6. /\ Logged \subseteq Logged' /\ Logged' \subseteq Nat
        /\ Logged \subseteq Nat /\ LastId \in Nat /\ since \in Nat /\ sub.cursor \in Nat
        /\ (LastId = 0 \/ LastId \in Logged) /\ \A x \in ToSet(got) : x \in Logged
    <2>1. Logged \subseteq Logged' /\ Logged' \subseteq Nat
      BY ClientFacts DEF LogGrows, Seqno
    <2>2. TravelInv
      BY DEF ClientInv
    <2>3. /\ Logged \subseteq Nat /\ LastId \in Nat /\ since \in Nat /\ sub.cursor \in Nat
      BY ClientFacts
    <2>4. LastId = 0 \/ LastId \in ToSet(got)
      BY ClientFacts
    <2> QED  BY <2>1, <2>2, <2>3, <2>4 DEF TravelInv
  <1>7. PassedInv'
    <2>1. ASSUME NEW s \in Logged', s < LastId PROVE s \in Logged
      BY <1>5, <1>6, <2>1
    <2> QED  BY <1>1, <1>3, <2>1 DEF ClientInv, PassedInv
  <1>8. ReplayInv'
    <2>1. ReplayIsLog'
      <3>1. {s \in Logged' : since < s /\ s <= LastId} = {s \in Logged : since < s /\ s <= LastId}
        <4>1. ASSUME NEW s \in Logged', since < s, s <= LastId PROVE s \in Logged
          BY <1>5, <1>6, <4>1
        <4> QED  BY <1>6, <4>1
      <3>2. hub = "replay" => ToSet(got) = {s \in Logged : since < s /\ s <= LastId}
        BY DEF ClientInv, ReplayInv, ReplayIsLog, Logged
      <3> QED  BY <1>1, <1>3, <3>1, <3>2 DEF ReplayIsLog, Logged
    <2>2. CASE sub.phase = "replay"
      <3>1. /\ hub = "replay" /\ since <= sub.cursor
            /\ sub.cursor = since \/ sub.cursor \in Logged
            /\ ToSet(got) = {s \in Logged : since < s /\ s <= sub.cursor}
        BY <2>2 DEF ClientInv, ReplayInv
      <3>2. {s \in Logged' : since < s /\ s <= sub.cursor}
              = {s \in Logged : since < s /\ s <= sub.cursor}
        <4>1. ASSUME NEW s \in Logged', since < s, s <= sub.cursor PROVE s \in Logged
          <5>1. sub.cursor \in Logged
            BY <1>6, <3>1, <4>1
          <5> QED  BY <1>5, <1>6, <4>1, <5>1
        <4> QED  BY <1>6, <4>1
      <3>3. sub.cursor = since \/ sub.cursor \in Logged'
        BY <1>6, <3>1
      <3> QED  BY <1>1, <2>1, <3>1, <3>2, <3>3 DEF ReplayInv
    <2> QED  BY <1>1, <2>1, <2>2 DEF ReplayInv
  <1> QED  BY <1>2, <1>4, <1>7, <1>8 DEF ClientInv

\* The handler is gone: what the client has stays.
LEMMA OffClient ==
  ASSUME EventLogTypeOK, ClientInv, Logged' = Logged, sub' = NoClient,
         wire' = wire \/ wire' = <<>>, UNCHANGED <<hub, got, since, published, excused>>
  PROVE  ClientTypes' /\ ClientInv'
  <1>1. wire' \in Seq(Seqno) /\ ToSet(wire') \subseteq ToSet(wire)
    <2>1. <<>> \in Seq(Seqno) /\ ToSet(<<>>) = {}
      BY DEF ToSet
    <2> QED  BY <2>1 DEF EventLogTypeOK, ClientTypes
  <1>2. /\ sub'.phase = "off" /\ sub'.cursor = 0 /\ sub'.high = 0 /\ sub'.buffer = <<>>
        /\ sub' \in [phase : {"off", "replay"} \cup Connected,
                     cursor : 0 .. MaxSeq, high : 0 .. MaxSeq, buffer : Seq(Seqno)]
    BY Constants DEF NoClient, ConstantTypes
  <1>3. ClientTypes'
    BY <1>1, <1>2 DEF EventLogTypeOK, ClientTypes
  <1>4. LastId' = LastId
    BY DEF LastId
  <1>5. TravelInv'
    <2>1. ToSet(<<>>) = {}
      BY DEF ToSet
    <2> QED  BY <1>1, <1>2, <2>1 DEF ClientInv, TravelInv
  <1>6. HandlerInv' /\ LiveInv'
    BY <1>2 DEF HandlerInv, LiveInv, Connected
  <1>7. PassedInv'
    BY <1>4 DEF ClientInv, PassedInv
  <1>8. ReplayInv'
    BY <1>2, <1>4 DEF ClientInv, ReplayInv, ReplayIsLog, Logged
  <1> QED  BY <1>3, <1>5, <1>6, <1>7, <1>8 DEF ClientInv

\* An event published now that the client has passed is late, and so excused.
LateIsExcused ==
  /\ published \subseteq published' /\ excused \subseteq excused'
  /\ published' \subseteq Logged /\ excused' \subseteq Seqno
  /\ \A s \in published' \ published : s < SeqMax(published) => s \in excused'

\* A reason why the client lacks an event stays a reason.
LEMMA PassedStaysExcused ==
  ASSUME EventLogTypeOK, ClientInv, LateIsExcused,
         NEW s \in Logged, s \in excused \/ (s \notin published /\ s < SeqMax(published))
  PROVE  s \in excused' \/ (s \notin published' /\ s < SeqMax(published'))
  <1>1. s \in Nat /\ MaxSeq \in Nat /\ published \in SUBSET (0 .. MaxSeq) /\ published' \in SUBSET (0 .. MaxSeq)
    BY ClientFacts DEF LateIsExcused, Seqno
  <1>2. /\ SeqMax(published) \in 0 .. MaxSeq /\ SeqMax(published) \in published \cup {0}
        /\ SeqMax(published') \in 0 .. MaxSeq /\ \A x \in published' : x <= SeqMax(published')
    BY <1>1, SeqMaxFacts
  <1>3. SeqMax(published) <= SeqMax(published')
    BY <1>2 DEF LateIsExcused
  <1>4. s < SeqMax(published) => s < SeqMax(published')
    BY <1>1, <1>2, <1>3
  <1> QED  BY <1>4 DEF LateIsExcused

\* A step that gives the client nothing leaves nothing more behind it.
LEMMA PassedKept ==
  ASSUME EventLogTypeOK, ClientInv, LateIsExcused, Logged' = Logged, UNCHANGED <<got, since>>
  PROVE  PassedInv'
  <1>1. LastId' = LastId
    BY DEF LastId
  <1> SUFFICES ASSUME NEW s \in Logged, since < s, s < LastId, s \notin ToSet(got)
               PROVE  s \in excused' \/ (s \notin published' /\ s < SeqMax(published'))
    BY <1>1 DEF PassedInv
  <1>2. s \in excused \/ (s \notin published /\ s < SeqMax(published))
    BY DEF ClientInv, PassedInv
  <1> QED  BY <1>2, PassedStaysExcused

\* Where a published event that the client lacks may be, once msgs went through
\* the filter.
Accounted(msgs) ==
  \A s \in published' : since < s /\ s \notin ToSet(got') =>
    s \in excused' \/ (Ahead(s, Pending') /\ \A x \in ToSet(msgs) : x < s)

\* Live events go through the filter to the client.
LEMMA ReceiveWhenLive ==
  ASSUME EventLogTypeOK, ClientInv, LateIsExcused, Logged' = Logged, UNCHANGED <<hub, since>>,
         wire' \in Seq(Seqno), ToSet(wire') \subseteq published',
         NEW msgs \in Seq(Seqno), ToSet(msgs) \subseteq published',
         sub.phase = "live", Receive(msgs), Accounted(msgs)
  PROVE  ClientTypes' /\ ClientInv'
  <1> DEFINE f == Fresh(sub.high, msgs)
  <1>1. sub' = [sub EXCEPT !.high = f.high] /\ got' = got \o f.out
    BY DEF Receive
  <1>2. /\ MaxSeq \in Nat /\ Logged \subseteq Seqno /\ Seqno \subseteq Nat
        /\ got \in Seq(1 .. MaxSeq) /\ sub.high \in 0 .. MaxSeq /\ since \in 0 .. MaxSeq
        /\ LastId = LastOf(got) /\ LastId \in 0 .. MaxSeq
        /\ got # <<>> => LastId \in ToSet(got)
        /\ got = <<>> => LastId = 0
        /\ \A x \in ToSet(got) : x <= LastId
    BY ClientFacts
  <1>3. Rising(got) /\ TravelInv /\ HandlerInv /\ PassedInv
    BY DEF ClientInv
  <1>4. /\ f.high \in 0 .. MaxSeq /\ sub.high <= f.high
        /\ f.out \in Seq(1 .. MaxSeq) /\ Rising(f.out)
        /\ ToSet(f.out) = {x \in ToSet(msgs) : sub.high < x /\ Ahead(x, msgs)}
        /\ IF f.out = <<>> THEN f.high = sub.high ELSE f.high = Last(f.out)
    <2>1. msgs \in Seq(1 .. MaxSeq)
      BY DEF Seqno
    <2> QED  BY <1>2, <2>1, FreshFacts
  <1> HIDE DEF f
  <1>5. /\ sub.phase \in Connected /\ hub # "replay" /\ sub.buffer = <<>>
        /\ IF got = <<>> THEN sub.high <= since ELSE sub.high = LastId
    BY <1>3 DEF HandlerInv, Connected
  <1>6. \A x \in ToSet(got), y \in ToSet(f.out) : x < y
    <2>1. ASSUME NEW x \in ToSet(got), NEW y \in ToSet(f.out) PROVE x < y
      <3>1. got # <<>>
        BY ClientFacts
      <3>2. x <= sub.high /\ sub.high < y
        BY <1>2, <1>4, <1>5, <3>1
      <3>3. x \in Nat /\ y \in Nat /\ sub.high \in Nat
        <4>1. ToSet(got) \subseteq 1 .. MaxSeq
          BY <1>2, <1>3, LastOfFacts
        <4>2. ToSet(f.out) \subseteq 1 .. MaxSeq
          BY <1>2, <1>4, LastOfFacts
        <4> QED  BY <1>2, <4>1, <4>2
      <3> QED  BY <3>2, <3>3
    <2> QED  BY <2>1
  <1>7. /\ got' \in Seq(1 .. MaxSeq) /\ Rising(got')
        /\ ToSet(got') = ToSet(got) \cup ToSet(f.out)
        /\ LastId' = IF f.out = <<>> THEN LastId ELSE f.high
        /\ got' = <<>> <=> got = <<>> /\ f.out = <<>>
    <2>1. /\ got' \in Seq(1 .. MaxSeq) /\ Rising(got')
          /\ ToSet(got') = ToSet(got) \cup ToSet(f.out)
          /\ LastOf(got') = IF f.out = <<>> THEN LastOf(got) ELSE LastOf(f.out)
          /\ got' = <<>> <=> got = <<>> /\ f.out = <<>>
      BY <1>1, <1>2, <1>3, <1>4, <1>6, ExtendFacts
    <2>2. LastId' = LastOf(got')
      BY DEF LastId, LastOf
    <2>3. f.out # <<>> => LastOf(f.out) = f.high
      BY <1>4 DEF LastOf
    <2> QED  BY <1>2, <2>1, <2>2, <2>3
  <1>8. /\ sub' \in [phase : {"off", "replay"} \cup Connected,
                     cursor : 0 .. MaxSeq, high : 0 .. MaxSeq, buffer : Seq(Seqno)]
        /\ sub'.phase = "live" /\ sub'.high = f.high /\ sub'.buffer = <<>>
    BY <1>1, <1>4, <1>5 DEF EventLogTypeOK, ClientTypes
  <1>9. ClientTypes'
    BY <1>7, <1>8 DEF ClientTypes, EventLogTypeOK, LateIsExcused, LogTypes, Seqno, Logged, Canonical, Seqs
  <1>10. TravelInv'
    <2>1. ToSet(<<>>) = {}
      BY DEF ToSet
    <2> QED  BY <1>3, <1>4, <1>7, <1>8, <2>1 DEF TravelInv, LateIsExcused
  <1>11. HandlerInv'
    <2>1. IF got' = <<>> THEN f.high <= since ELSE f.high = LastId'
      BY <1>4, <1>5, <1>7
    <2> QED  BY <1>5, <1>8, <2>1 DEF HandlerInv
  <1>12. PassedInv'
    <2> SUFFICES ASSUME NEW s \in Logged, since < s, s < LastId', s \notin ToSet(got')
                 PROVE  s \in excused' \/ (s \notin published' /\ s < SeqMax(published'))
      BY DEF PassedInv
    <2>1. s \in Nat /\ s \notin ToSet(got) /\ s # 0
      BY <1>2, <1>7 DEF Seqno
    <2>2. CASE s < LastId
      <3>1. s \in excused \/ (s \notin published /\ s < SeqMax(published))
        BY <1>3, <2>1, <2>2 DEF PassedInv
      <3> QED  BY <3>1, PassedStaysExcused
    <2>3. CASE ~(s < LastId)
      <3>1. f.out # <<>> /\ LastId' = f.high
        BY <1>7, <2>3
      <3>2. LastId' \in ToSet(msgs) /\ LastId' \in 0 .. MaxSeq
        <4>1. LastId' = LastOf(f.out)
          BY <1>4, <3>1 DEF LastOf
        <4>2. LastOf(f.out) \in ToSet(f.out)
          BY <1>2, <1>4, <3>1, LastOfFacts
        <4> QED  BY <1>4, <3>1, <4>1, <4>2
      <3>3. CASE s \in published'
        <4>1. s \in excused' \/ \A x \in ToSet(msgs) : x < s
          BY <3>3 DEF Accounted
        <4>2. ~(LastId' < s)
          BY <2>1, <3>2
        <4> QED  BY <3>2, <4>1, <4>2
      <3>4. CASE s \notin published'
        <4>1. published' \in SUBSET (0 .. MaxSeq)
          BY <1>2 DEF LateIsExcused, Seqno
        <4>2. LastId' <= SeqMax(published') /\ SeqMax(published') \in 0 .. MaxSeq
          BY <1>2, <3>2, <4>1, SeqMaxFacts
        <4>3. s < SeqMax(published')
          BY <2>1, <3>2, <4>2
        <4> QED  BY <3>4, <4>3
      <3> QED  BY <3>3, <3>4
    <2> QED  BY <2>2, <2>3
  <1>13. LiveInv'
    BY DEF Accounted, LiveInv
  <1>14. ReplayInv'
    BY <1>5, <1>8 DEF ReplayInv, ReplayIsLog
  <1> QED  BY <1>7, <1>9, <1>10, <1>11, <1>12, <1>13, <1>14 DEF ClientInv

\* Events are queued for the handler, or dropped: the client has what it had.
LEMMA QueuedClient ==
  ASSUME EventLogTypeOK, ClientInv, LateIsExcused, Logged' = Logged,
         UNCHANGED <<hub, got, since>>,
         wire' \in Seq(Seqno), ToSet(wire') \subseteq published',
         NEW b \in Seq(Seqno), ToSet(b) \subseteq published',
         sub' = [sub EXCEPT !.buffer = b], sub.phase = "live" => b = <<>>, LiveInv'
  PROVE  ClientTypes' /\ ClientInv'
  <1>1. /\ sub' \in [phase : {"off", "replay"} \cup Connected,
                     cursor : 0 .. MaxSeq, high : 0 .. MaxSeq, buffer : Seq(Seqno)]
        /\ sub'.phase = sub.phase /\ sub'.cursor = sub.cursor /\ sub'.high = sub.high
        /\ sub'.buffer = b
    BY DEF EventLogTypeOK, ClientTypes
  <1>2. Logged \subseteq Seqno
    BY ClientFacts
  <1>3. ClientTypes'
    BY <1>1, <1>2 DEF EventLogTypeOK, ClientTypes, LateIsExcused
  <1>4. LastId' = LastId
    BY DEF LastId
  <1>5. TravelInv'
    BY <1>1 DEF ClientInv, TravelInv, LateIsExcused
  <1>6. HandlerInv'
    BY <1>1, <1>4 DEF ClientInv, HandlerInv
  <1>7. PassedInv'
    BY PassedKept
  <1>8. ReplayInv'
    BY <1>1, <1>4 DEF ClientInv, ReplayInv, ReplayIsLog, Logged
  <1> QED  BY <1>3, <1>5, <1>6, <1>7, <1>8 DEF ClientInv

\* A batch is published.
LEMMA PublishedBatch ==
  ASSUME EventLogTypeOK, LogInv, ClientInv, NEW w \in Writers, Publish(w)
  PROVE  LET evs == Ascending(Seqs(BatchEvents(w))) IN
         /\ evs \in Seq(Seqno) /\ Rising(evs) /\ ToSet(evs) \subseteq Logged
         /\ published' = published \cup ToSet(evs)
         /\ excused' = excused \cup {s \in ToSet(evs) : s < SeqMax(published)}
         /\ LateIsExcused /\ Logged' = Logged
         /\ wire' \in Seq(Seqno) /\ ToSet(wire') \subseteq published'
  <1> DEFINE evs == Ascending(Seqs(BatchEvents(w)))
  <1>1. /\ writer[w].pc \in AfterCommit
        /\ published' = published \cup ToSet(evs)
        /\ excused' = excused \cup {s \in ToSet(evs) : s < SeqMax(published)}
        /\ wire' = IF hub \in {"local", "remote"} THEN wire \o evs ELSE wire
        /\ rows' = rows
    BY DEF Publish, logVars, AfterCommit
  <1>2. Seqs(BatchEvents(w)) = EventsOf(writer[w])
    BY DEF BatchEvents, BatchRows, EventsOf, RowsOf
  <1>3. Seqs(BatchEvents(w)) \subseteq Logged
    BY <1>1, <1>2 DEF LogInv, WriterInv
  <1>4. MaxSeq \in Nat /\ Logged \subseteq Seqno /\ wire \in Seq(Seqno)
    BY ClientFacts DEF EventLogTypeOK, ClientTypes
  <1>5. /\ evs \in Seq(Seqs(BatchEvents(w))) /\ Rising(evs)
        /\ ToSet(evs) = Seqs(BatchEvents(w))
    <2>1. Seqs(BatchEvents(w)) \in SUBSET (1 .. MaxSeq)
      BY <1>3, <1>4 DEF Seqno
    <2> QED  BY <1>4, <2>1, AscendingFacts
  <1> HIDE DEF evs
  <1>6. evs \in Seq(Seqno) /\ ToSet(evs) \subseteq Logged
    <2>1. Seqs(BatchEvents(w)) \subseteq Seqno
      BY <1>3, <1>4
    <2> QED  BY <1>3, <1>5, <2>1, SeqMonotonic
  <1>7. Logged' = Logged
    BY <1>1 DEF Logged, Canonical
  <1>8. LateIsExcused
    BY <1>1, <1>4, <1>6 DEF LateIsExcused, ClientInv, TravelInv, EventLogTypeOK, ClientTypes
  <1>9. wire' \in Seq(Seqno) /\ ToSet(wire') \subseteq published'
    <2>1. wire \o evs \in Seq(Seqno) /\ ToSet(wire \o evs) = ToSet(wire) \cup ToSet(evs)
      BY <1>4, <1>6, ToSetConcat
    <2>2. ToSet(wire) \subseteq published
      BY DEF ClientInv, TravelInv
    <2> QED  BY <1>1, <1>4, <2>1, <2>2
  <1> QED  BY <1>1, <1>5, <1>6, <1>7, <1>8, <1>9 DEF evs

\* Joining queues is associative.
LEMMA QueuesJoin ==
  \A q, r, t \in Seq(Nat) : (q \o r) \o t = q \o (r \o t)
  <1> TAKE q, r, t \in Seq(Nat)
  <1> DEFINE a == (q \o r) \o t
             b == q \o (r \o t)
             k == Len(q)
             m == Len(r)
             n == Len(t)
  <1>1. /\ q \o r \in Seq(Nat) /\ Len(q \o r) = k + m /\ k \in Nat /\ m \in Nat /\ n \in Nat
        /\ \A i \in 1 .. k + m : (q \o r)[i] = IF i <= k THEN q[i] ELSE r[i - k]
    BY ConcatProperties, LenProperties
  <1>2. /\ r \o t \in Seq(Nat) /\ Len(r \o t) = m + n
        /\ \A i \in 1 .. m + n : (r \o t)[i] = IF i <= m THEN r[i] ELSE t[i - m]
    BY ConcatProperties
  <1>3. /\ a \in Seq(Nat) /\ Len(a) = (k + m) + n
        /\ \A i \in 1 .. (k + m) + n : a[i] = IF i <= k + m THEN (q \o r)[i] ELSE t[i - (k + m)]
    <2> HIDE DEF k, m
    <2>1. /\ a \in Seq(Nat) /\ Len(a) = Len(q \o r) + Len(t)
          /\ \A i \in 1 .. Len(q \o r) + Len(t) :
               a[i] = IF i <= Len(q \o r) THEN (q \o r)[i] ELSE t[i - Len(q \o r)]
      BY <1>1, ConcatProperties
    <2> QED  BY <1>1, <2>1
  <1>4. /\ b \in Seq(Nat) /\ Len(b) = k + (m + n)
        /\ \A i \in 1 .. k + (m + n) : b[i] = IF i <= k THEN q[i] ELSE (r \o t)[i - k]
    <2> HIDE DEF m, n
    <2>1. /\ b \in Seq(Nat) /\ Len(b) = Len(q) + Len(r \o t)
          /\ \A i \in 1 .. Len(q) + Len(r \o t) :
               b[i] = IF i <= Len(q) THEN q[i] ELSE (r \o t)[i - Len(q)]
      BY <1>2, ConcatProperties
    <2> QED  BY <1>2, <2>1
  <1> HIDE DEF a, b, k, m, n
  <1>5. Len(a) = Len(b) /\ (k + m) + n = k + (m + n)
    BY <1>1, <1>3, <1>4
  <1>6. ASSUME NEW i \in 1 .. (k + m) + n PROVE a[i] = b[i]
    <2>1. i \in 1 .. k + (m + n) /\ i \in Nat /\ 1 <= i /\ i <= k + m + n
      BY <1>1
    <2>2. CASE i <= k
      <3>1. i <= k + m /\ i \in 1 .. k + m
        BY <1>1, <2>1, <2>2
      <3> QED  BY <1>1, <1>3, <1>4, <2>1, <2>2, <3>1
    <2>3. CASE ~(i <= k) /\ i <= k + m
      <3>1. i \in 1 .. k + m /\ i - k \in 1 .. m + n /\ i - k <= m
        BY <1>1, <2>1, <2>3
      <3>2. a[i] = r[i - k]
        BY <1>1, <1>3, <2>3, <3>1
      <3>3. b[i] = (r \o t)[i - k]
        BY <1>4, <2>1, <2>3
      <3> QED  BY <1>2, <3>1, <3>2, <3>3
    <2>4. CASE ~(i <= k + m)
      <3>1. ~(i <= k) /\ i - k \in 1 .. m + n /\ ~(i - k <= m) /\ (i - k) - m = i - (k + m)
        BY <1>1, <2>1, <2>4
      <3>2. a[i] = t[i - (k + m)]
        BY <1>3, <2>4
      <3>3. b[i] = (r \o t)[i - k]
        BY <1>4, <2>1, <3>1
      <3> QED  BY <1>2, <3>1, <3>2, <3>3
    <2> QED  BY <2>2, <2>3, <2>4
  <1>7. a = b
    BY <1>3, <1>4, <1>5, <1>6, SeqEqual
  <1> QED  BY <1>7 DEF a, b

\* A batch that joins the events on their way keeps the invariant of live events.
LEMMA PublishPending ==
  ASSUME EventLogTypeOK, ClientInv, NEW evs \in Seq(Seqno), Rising(evs),
         published' = published \cup ToSet(evs),
         excused' = excused \cup {s \in ToSet(evs) : s < SeqMax(published)},
         UNCHANGED <<got, since>>, sub'.phase = sub.phase, sub'.cursor = sub.cursor,
         Pending' = Pending \o evs
  PROVE  LiveInv'
  <1>1. /\ MaxSeq \in Nat /\ Seqno \subseteq Nat /\ published \in SUBSET (0 .. MaxSeq)
        /\ published \subseteq Seqno
    BY ClientFacts DEF EventLogTypeOK, ClientTypes, Seqno
  <1>2. Pending \in Seq(Nat) /\ evs \in Seq(Nat) /\ ToSet(Pending) \subseteq published
    <2>1. /\ sub.buffer \in Seq(Nat) /\ wire \in Seq(Nat)
      BY ClientFacts
    <2>2. sub.buffer \o wire \in Seq(Nat)
          /\ ToSet(sub.buffer \o wire) = ToSet(sub.buffer) \cup ToSet(wire)
      BY <2>1, ToSetConcat
    <2>3. ToSet(sub.buffer) \subseteq published /\ ToSet(wire) \subseteq published
      BY DEF ClientInv, TravelInv
    <2>4. evs \in Seq(Nat)
      BY <1>1, SeqMonotonic
    <2> QED  BY <2>1, <2>2, <2>3, <2>4 DEF Pending
  <1>3. /\ SeqMax(published) \in 0 .. MaxSeq /\ SeqMax(published) \in published \cup {0}
        /\ \A x \in published : x <= SeqMax(published)
    BY <1>1, SeqMaxFacts
  <1> SUFFICES ASSUME sub.phase = "live" \/ (sub.phase = "snapshot" /\ sub.cursor = 0),
                      NEW s \in published', since < s, s \notin ToSet(got)
               PROVE  s \in excused' \/ Ahead(s, Pending \o evs)
    BY DEF LiveInv
  <1>4. CASE s \in published
    <2>1. s \in excused \/ Ahead(s, Pending)
      BY <1>4 DEF ClientInv, LiveInv
    <2> QED  BY <1>2, <2>1, AheadConcat
  <1>5. CASE s \in ToSet(evs) /\ s \notin published /\ ~(s < SeqMax(published))
    <2>1. s \in Seqno /\ s \in Nat /\ s # 0
      BY <1>1, <1>5, ToSetFacts DEF Seqno
    <2>2. SeqMax(published) < s
      BY <1>1, <1>3, <1>5, <2>1
    <2>3. \A x \in ToSet(Pending) : x < s
      <3>1. \A x \in published : x \in Nat
        BY <1>1
      <3>2. \A x \in published : x < s
        BY <1>3, <2>1, <2>2, <3>1
      <3> QED  BY <1>2, <3>2
    <2>4. Ahead(s, evs)
      BY <1>2, <1>5, RisingIsAhead
    <2> QED  BY <1>2, <2>3, <2>4, AheadAppend
  <1> QED  BY <1>4, <1>5

\* Publishing: to the memory hub at once, to Redis through the wire.
LEMMA PublishClient ==
  ASSUME EventLogTypeOK, LogInv, ClientInv, NEW w \in Writers, Publish(w)
  PROVE  ClientTypes' /\ ClientInv'
  <1> DEFINE evs == Ascending(Seqs(BatchEvents(w)))
  <1>1. /\ evs \in Seq(Seqno) /\ Rising(evs) /\ ToSet(evs) \subseteq Logged
        /\ published' = published \cup ToSet(evs)
        /\ excused' = excused \cup {s \in ToSet(evs) : s < SeqMax(published)}
        /\ LateIsExcused /\ Logged' = Logged
        /\ wire' \in Seq(Seqno) /\ ToSet(wire') \subseteq published'
    BY PublishedBatch
  <1>2. /\ wire' = IF hub \in {"local", "remote"} THEN wire \o evs ELSE wire
        /\ IF hub = "remote" THEN UNCHANGED <<sub, got>> ELSE Receive(evs)
        /\ UNCHANGED <<hub, since>>
    BY DEF Publish
  <1> HIDE DEF evs
  <1>3. /\ sub.buffer \in Seq(Seqno) /\ sub.buffer \in Seq(Nat) /\ wire \in Seq(Nat) /\ evs \in Seq(Nat)
        /\ ToSet(sub.buffer) \subseteq published
    <2>1. sub.buffer \in Seq(Nat) /\ wire \in Seq(Nat) /\ Seqno \subseteq Nat
      BY ClientFacts
    <2>2. evs \in Seq(Nat)
      BY <1>1, <2>1, SeqMonotonic
    <2> QED  BY <2>1, <2>2 DEF EventLogTypeOK, ClientTypes, ClientInv, TravelInv
  <1>4. sub = [sub EXCEPT !.buffer = sub.buffer]
    BY DEF EventLogTypeOK, ClientTypes
  <1>5. CASE hub = "remote"
    <2>1. UNCHANGED <<sub, got>> /\ wire' = wire \o evs
      BY <1>2, <1>5
    <2>2. Pending' = Pending \o evs
      <3>1. (sub.buffer \o wire) \o evs = sub.buffer \o (wire \o evs)
        BY <1>3, QueuesJoin
      <3> QED  BY <1>2, <1>5, <2>1, <3>1 DEF Pending
    <2>3. LiveInv'
      BY <1>1, <1>2, <2>1, <2>2, PublishPending
    <2>4. sub.phase = "live" => sub.buffer = <<>>
      BY DEF ClientInv, HandlerInv
    <2>5. ToSet(sub.buffer) \subseteq published'
      BY <1>1, <1>3
    <2>6. sub' = [sub EXCEPT !.buffer = sub.buffer]
      BY <1>4, <2>1
    <2> QED  BY <1>1, <1>2, <1>3, <2>1, <2>3, <2>4, <2>5, <2>6, QueuedClient
  <1>6. CASE hub # "remote" /\ sub.phase \in {"snapshot", "backfill"}
    <2>1. sub' = [sub EXCEPT !.buffer = sub.buffer \o evs] /\ UNCHANGED got
      BY <1>2, <1>6 DEF Receive
    <2>2. sub'.phase = sub.phase /\ sub'.cursor = sub.cursor /\ sub'.buffer = sub.buffer \o evs
      BY <2>1 DEF EventLogTypeOK, ClientTypes
    <2>3. Pending' = Pending \o evs
      BY <1>2, <1>6, <2>2 DEF Pending
    <2>4. LiveInv'
      BY <1>1, <1>2, <2>1, <2>2, <2>3, PublishPending
    <2>5. sub.buffer \o evs \in Seq(Seqno) /\ ToSet(sub.buffer \o evs) \subseteq published'
      <3>1. sub.buffer \o evs \in Seq(Seqno) /\ ToSet(sub.buffer \o evs) = ToSet(sub.buffer) \cup ToSet(evs)
        BY <1>1, <1>3, ToSetConcat
      <3> QED  BY <1>1, <1>3, <3>1
    <2> QED  BY <1>1, <1>2, <1>6, <2>1, <2>4, <2>5, QueuedClient
  <1>7. CASE hub # "remote" /\ sub.phase \in {"off", "replay"}
    <2>1. UNCHANGED <<sub, got>>
      BY <1>2, <1>7 DEF Receive
    <2>2. LiveInv'
      BY <1>7, <2>1 DEF LiveInv
    <2>3. ToSet(sub.buffer) \subseteq published'
      BY <1>1, <1>3
    <2>4. sub' = [sub EXCEPT !.buffer = sub.buffer]
      BY <1>4, <2>1
    <2> QED  BY <1>1, <1>2, <1>3, <1>7, <2>1, <2>2, <2>3, <2>4, QueuedClient
  <1>8. CASE hub # "remote" /\ sub.phase = "live"
    <2>1. Receive(evs)
      BY <1>2, <1>8
    <2> DEFINE f == Fresh(sub.high, evs)
    <2>2. sub' = [sub EXCEPT !.high = f.high] /\ got' = got \o f.out
      BY <1>8, <2>1 DEF Receive
    <2>3. /\ MaxSeq \in Nat /\ got \in Seq(1 .. MaxSeq) /\ sub.high \in 0 .. MaxSeq
          /\ since \in 0 .. MaxSeq /\ Seqno \subseteq Nat /\ LastId \in 0 .. MaxSeq
          /\ got # <<>> => LastId \in ToSet(got)
      BY ClientFacts
    <2>4. evs \in Seq(1 .. MaxSeq)
      BY <1>1 DEF Seqno
    <2>5. f.out \in Seq(1 .. MaxSeq) /\ ToSet(f.out) = {x \in ToSet(evs) : sub.high < x}
      BY <1>1, <2>3, <2>4, FreshFacts, FreshOfRising
    <2> HIDE DEF f
    <2>6. ToSet(got') = ToSet(got) \cup ToSet(f.out)
      BY <2>2, <2>3, <2>5, ToSetConcat
    <2>7. sub.buffer = <<>> /\ IF got = <<>> THEN sub.high <= since ELSE sub.high = LastId
      BY <1>8 DEF ClientInv, HandlerInv, Connected
    <2>8. ASSUME NEW s \in published', since < s, s \notin ToSet(got')
          PROVE  s \in excused'
      <3>1. s \notin ToSet(got)
        BY <2>6, <2>8
      <3>2. CASE s \in published
        <4>1. s \in excused \/ Ahead(s, Pending)
          BY <1>8, <2>8, <3>1, <3>2 DEF ClientInv, LiveInv
        <4>2. Pending = <<>>
          BY <1>8, <2>7 DEF Pending
        <4>3. ~Ahead(s, <<>>)
          BY DEF Ahead
        <4> QED  BY <1>1, <4>1, <4>2, <4>3
      <3>3. CASE s \notin published
        <4>1. s \in ToSet(evs) /\ s \in Logged /\ s \in Nat
          BY <1>1, <2>3, <3>3, ClientFacts
        <4>2. ~(sub.high < s)
          BY <2>5, <2>6, <2>8, <4>1
        <4>3. got # <<>> /\ sub.high = LastId
          BY <2>3, <2>7, <2>8, <4>1, <4>2
        <4>4. s # LastId
          BY <2>3, <3>1, <4>3
        <4>5. s < LastId
          BY <2>3, <4>1, <4>2, <4>3, <4>4
        <4>6. s \in excused \/ s < SeqMax(published)
          BY <2>8, <3>1, <4>1, <4>5 DEF ClientInv, PassedInv
        <4> QED  BY <1>1, <4>1, <4>6
      <3> QED  BY <3>2, <3>3
    <2>9. Accounted(evs)
      BY <2>8 DEF Accounted
    <2>10. ToSet(evs) \subseteq published'
      BY <1>1
    <2> QED  BY <1>1, <1>2, <1>8, <2>1, <2>9, <2>10, ReceiveWhenLive
  <1>9. sub.phase \in {"off", "replay", "snapshot", "backfill", "live"}
    BY DEF EventLogTypeOK, ClientTypes, Connected
  <1> QED  BY <1>5, <1>6, <1>7, <1>8, <1>9

\* The next message of the Redis channel arrives, or is lost.
LEMMA NextOnWire ==
  ASSUME EventLogTypeOK, ClientInv, wire # <<>>
  PROVE  /\ Tail(wire) \in Seq(Seqno) /\ ToSet(Tail(wire)) \subseteq published
         /\ <<Head(wire)>> \in Seq(Seqno) /\ ToSet(<<Head(wire)>>) = {Head(wire)}
         /\ Head(wire) \in published /\ Head(wire) \in Logged
         /\ wire = <<Head(wire)>> \o Tail(wire)
         /\ Tail(wire) \in Seq(Nat) /\ <<Head(wire)>> \in Seq(Nat)
  <1>1. wire \in Seq(Seqno)
    BY DEF EventLogTypeOK, ClientTypes
  <1>2. /\ <<Head(wire)>> \in Seq(Seqno) /\ Head(wire) \in ToSet(wire)
        /\ Tail(wire) \in Seq(Seqno) /\ wire = <<Head(wire)>> \o Tail(wire)
        /\ ToSet(Tail(wire)) \subseteq ToSet(wire)
        /\ ToSet(<<Head(wire)>>) = {Head(wire)}
    BY <1>1, HeadThenTail
  <1>3. ToSet(wire) \subseteq published /\ published \subseteq Logged
    BY DEF ClientInv, TravelInv
  <1>4. Tail(wire) \in Seq(Nat) /\ <<Head(wire)>> \in Seq(Nat)
    BY <1>2, ClientFacts, SeqMonotonic
  <1> QED  BY <1>2, <1>3, <1>4

\* A message reaches the hub of the client's instance ...
LEMMA FromRedisClient ==
  ASSUME EventLogTypeOK, ClientInv, FromRedis
  PROVE  ClientTypes' /\ ClientInv'
  <1> DEFINE h == Head(wire)
             rest == Tail(wire)
             msgs == <<h>>
  <1>1. /\ wire # <<>> /\ wire' = rest /\ Receive(msgs)
        /\ UNCHANGED <<hub, since, published, excused>> /\ Logged' = Logged
    BY DEF FromRedis, logVars, Logged, Canonical
  <1>2. /\ rest \in Seq(Seqno) /\ ToSet(rest) \subseteq published
        /\ msgs \in Seq(Seqno) /\ ToSet(msgs) = {h}
        /\ h \in published /\ h \in Logged /\ wire = msgs \o rest
        /\ rest \in Seq(Nat) /\ msgs \in Seq(Nat)
    BY <1>1, NextOnWire
  <1>3. /\ sub.buffer \in Seq(Seqno) /\ sub.buffer \in Seq(Nat) /\ wire \in Seq(Nat)
        /\ ToSet(sub.buffer) \subseteq published /\ Seqno \subseteq Nat /\ Logged \subseteq Seqno
    BY ClientFacts DEF EventLogTypeOK, ClientTypes, ClientInv, TravelInv
  <1>4. LateIsExcused
    BY <1>1 DEF LateIsExcused, ClientInv, TravelInv, EventLogTypeOK, ClientTypes
  <1>5. \A s : Ahead(s, wire) /\ s # h => Ahead(s, rest) /\ h < s
    BY <1>1, <1>3, AheadTail
  <1>6. Ahead(h, msgs)
    BY DEF Ahead
  <1> HIDE DEF h, rest, msgs
  <1>7. CASE sub.phase \in {"snapshot", "backfill"}
    <2>1. sub' = [sub EXCEPT !.buffer = sub.buffer \o msgs] /\ UNCHANGED got
      BY <1>1, <1>7 DEF Receive
    <2>2. sub'.phase = sub.phase /\ sub'.cursor = sub.cursor /\ sub'.buffer = sub.buffer \o msgs
      BY <2>1 DEF EventLogTypeOK, ClientTypes
    <2>3. sub.buffer \o msgs \in Seq(Seqno) /\ ToSet(sub.buffer \o msgs) \subseteq published
      <3>1. sub.buffer \o msgs \in Seq(Seqno) /\ ToSet(sub.buffer \o msgs) = ToSet(sub.buffer) \cup ToSet(msgs)
        BY <1>2, <1>3, ToSetConcat
      <3> QED  BY <1>2, <1>3, <3>1
    <2>4. \A s : Ahead(s, Pending) => Ahead(s, Pending')
      <3>1. CASE hub = "remote"
        <4>1. Pending = sub.buffer \o (msgs \o rest) /\ Pending' = (sub.buffer \o msgs) \o rest
          BY <1>1, <1>2, <2>2, <3>1 DEF Pending
        <4>2. (sub.buffer \o msgs) \o rest = sub.buffer \o (msgs \o rest)
          BY <1>2, <1>3, QueuesJoin
        <4> QED  BY <4>1, <4>2
      <3>2. CASE hub # "remote"
        <4>1. Pending = sub.buffer /\ Pending' = sub.buffer \o msgs
          BY <1>1, <2>2, <3>2 DEF Pending
        <4> QED  BY <1>2, <1>3, <4>1, AheadConcat
      <3> QED  BY <3>1, <3>2
    <2>5. LiveInv'
      BY <1>1, <2>1, <2>2, <2>4 DEF ClientInv, LiveInv
    <2> QED  BY <1>1, <1>2, <1>4, <1>7, <2>1, <2>3, <2>5, QueuedClient
  <1>8. CASE sub.phase \in {"off", "replay"}
    <2>1. UNCHANGED <<sub, got>>
      BY <1>1, <1>8 DEF Receive
    <2>2. LiveInv'
      BY <1>8, <2>1 DEF LiveInv
    <2>3. sub' = [sub EXCEPT !.buffer = sub.buffer]
      BY <2>1 DEF EventLogTypeOK, ClientTypes
    <2> QED  BY <1>1, <1>2, <1>3, <1>4, <1>8, <2>1, <2>2, <2>3, QueuedClient
  <1>9. CASE sub.phase = "live"
    <2> DEFINE f == Fresh(sub.high, msgs)
    <2>1. sub' = [sub EXCEPT !.high = f.high] /\ got' = got \o f.out
      BY <1>1, <1>9 DEF Receive
    <2>2. /\ MaxSeq \in Nat /\ got \in Seq(1 .. MaxSeq) /\ sub.high \in 0 .. MaxSeq
          /\ since \in 0 .. MaxSeq /\ LastId \in 0 .. MaxSeq
          /\ got # <<>> => LastId \in ToSet(got)
      BY ClientFacts
    <2>3. /\ f.out \in Seq(1 .. MaxSeq)
          /\ ToSet(f.out) = {x \in ToSet(msgs) : sub.high < x /\ Ahead(x, msgs)}
      <3>1. msgs \in Seq(1 .. MaxSeq)
        BY <1>2 DEF Seqno
      <3> QED  BY <2>2, <3>1, FreshFacts
    <2> HIDE DEF f
    <2>4. ToSet(got') = ToSet(got) \cup ToSet(f.out)
      BY <2>1, <2>2, <2>3, ToSetConcat
    <2>5. sub.buffer = <<>> /\ IF got = <<>> THEN sub.high <= since ELSE sub.high = LastId
      BY <1>9 DEF ClientInv, HandlerInv, Connected
    <2>6. sub'.buffer = <<>>
      BY <2>1, <2>5 DEF EventLogTypeOK, ClientTypes
    <2>7. ASSUME NEW s \in published, since < s, s \notin ToSet(got')
          PROVE  s \in excused \/ (Ahead(s, Pending') /\ h < s)
      <3>1. s \notin ToSet(got) /\ s \in Logged /\ s \in Nat
        BY <1>3, <2>4, <2>7 DEF ClientInv, TravelInv
      <3>2. s \in excused \/ Ahead(s, Pending)
        BY <1>9, <2>7, <3>1 DEF ClientInv, LiveInv
      <3>3. CASE hub # "remote"
        <4>1. Pending = <<>>
          BY <2>5, <3>3 DEF Pending
        <4>2. ~Ahead(s, <<>>)
          BY DEF Ahead
        <4> QED  BY <3>2, <4>1, <4>2
      <3>4. CASE hub = "remote"
        <4>1. Pending = wire /\ Pending' = rest
          BY <1>1, <1>2, <1>3, <2>5, <2>6, <3>4, ConcatEmptySeq DEF Pending
        <4>2. CASE s # h
          BY <1>5, <3>2, <4>1, <4>2
        <4>3. CASE s = h
          <5>1. ~(sub.high < s)
            BY <1>2, <1>6, <2>3, <2>4, <2>7, <4>3
          <5>2. got # <<>> /\ sub.high = LastId
            BY <2>2, <2>5, <2>7, <3>1, <5>1
          <5>3. s # LastId
            BY <2>2, <3>1, <5>2
          <5>4. s < LastId
            BY <2>2, <3>1, <5>1, <5>2, <5>3
          <5> QED  BY <2>7, <3>1, <5>4 DEF ClientInv, PassedInv
        <4> QED  BY <4>2, <4>3
      <3> QED  BY <3>3, <3>4
    <2>8. Accounted(msgs)
      BY <1>1, <1>2, <2>7 DEF Accounted
    <2> QED  BY <1>1, <1>2, <1>4, <1>9, <2>8, ReceiveWhenLive
  <1>10. sub.phase \in {"off", "replay", "snapshot", "backfill", "live"}
    BY DEF EventLogTypeOK, ClientTypes, Connected
  <1> QED  BY <1>7, <1>8, <1>9, <1>10

\* ... or is lost, which excuses its event.
LEMMA LostOnWireClient ==
  ASSUME EventLogTypeOK, ClientInv, LostOnWire
  PROVE  ClientTypes' /\ ClientInv'
  <1> DEFINE h == Head(wire)
             rest == Tail(wire)
  <1>1. /\ wire # <<>> /\ wire' = rest
        /\ excused' = IF hub = "remote" THEN excused \cup {h} ELSE excused
        /\ UNCHANGED <<hub, sub, got, since, published>> /\ Logged' = Logged
    BY DEF LostOnWire, logVars, Logged, Canonical
  <1>2. /\ rest \in Seq(Seqno) /\ ToSet(rest) \subseteq published
        /\ h \in published /\ h \in Logged /\ rest \in Seq(Nat)
    BY <1>1, NextOnWire
  <1>3. /\ sub.buffer \in Seq(Seqno) /\ sub.buffer \in Seq(Nat) /\ wire \in Seq(Nat)
        /\ ToSet(sub.buffer) \subseteq published /\ Logged \subseteq Seqno
    BY ClientFacts DEF EventLogTypeOK, ClientTypes, ClientInv, TravelInv
  <1>4. LateIsExcused
    BY <1>1, <1>2, <1>3 DEF LateIsExcused, ClientInv, TravelInv, EventLogTypeOK, ClientTypes
  <1>5. \A s : Ahead(s, wire) /\ s # h => Ahead(s, rest)
    BY <1>1, <1>3, AheadTail
  <1> HIDE DEF h, rest
  <1>6. \A s : Ahead(s, Pending) => (hub = "remote" /\ s = h) \/ Ahead(s, Pending')
    <2>1. CASE hub # "remote"
      BY <1>1, <2>1 DEF Pending
    <2>2. CASE hub = "remote"
      <3>1. Pending = sub.buffer \o wire /\ Pending' = sub.buffer \o rest
        BY <1>1, <2>2 DEF Pending
      <3>2. ASSUME NEW s, Ahead(s, sub.buffer \o wire), s # h PROVE Ahead(s, sub.buffer \o rest)
        <4>1. Ahead(s, sub.buffer) \/ (Ahead(s, wire) /\ \A y \in ToSet(sub.buffer) : y < s)
          BY <1>3, <3>2, AheadSplit
        <4>2. CASE Ahead(s, sub.buffer)
          BY <1>2, <1>3, <4>2, AheadConcat
        <4>3. CASE Ahead(s, wire) /\ \A y \in ToSet(sub.buffer) : y < s
          BY <1>2, <1>3, <1>5, <3>2, <4>3, AheadAppend
        <4> QED  BY <4>1, <4>2, <4>3
      <3> QED  BY <2>2, <3>1, <3>2
    <2> QED  BY <2>1, <2>2
  <1>7. LiveInv'
    BY <1>1, <1>6 DEF ClientInv, LiveInv
  <1>8. sub' = [sub EXCEPT !.buffer = sub.buffer]
    BY <1>1 DEF EventLogTypeOK, ClientTypes
  <1>9. sub.phase = "live" => sub.buffer = <<>>
    BY DEF ClientInv, HandlerInv
  <1> QED  BY <1>1, <1>2, <1>3, <1>4, <1>7, <1>8, <1>9, QueuedClient

\* The client connects: before its first event nothing it asked for is published.
LEMMA ConnectClient ==
  ASSUME EventLogTypeOK, ClientInv, NEW after \in 0 .. MaxSeq, NEW snapshot \in BOOLEAN,
         Connect(after, snapshot)
  PROVE  ClientTypes' /\ ClientInv'
  <1> DEFINE phase == IF snapshot THEN "snapshot" ELSE IF after > 0 THEN "backfill" ELSE "live"
  <1>1. /\ hub # "replay"
        /\ got # <<>> => after = LastId /\ since' = since
        /\ got = <<>> => since' = IF after = 0 THEN SeqMax(AllSeqs) ELSE after
        /\ sub' = [phase |-> phase, cursor |-> after, high |-> after, buffer |-> <<>>]
        /\ UNCHANGED <<hub, wire, got, published, excused>> /\ Logged' = Logged
    BY DEF Connect, AllSeqs, logVars, Logged, Canonical
  <1>2. phase \in {"snapshot", "backfill", "live"} /\ (phase = "backfill" => after > 0)
        /\ (phase = "live" => after = 0)
    OBVIOUS
  <1> HIDE DEF phase
  <1>3. /\ sub' \in [phase : {"off", "replay"} \cup Connected,
                     cursor : 0 .. MaxSeq, high : 0 .. MaxSeq, buffer : Seq(Seqno)]
        /\ sub'.phase = phase /\ sub'.cursor = after /\ sub'.high = after /\ sub'.buffer = <<>>
    BY <1>1, <1>2 DEF Connected
  <1>4. /\ SeqMax(AllSeqs) \in 0 .. MaxSeq /\ Logged \subseteq AllSeqs
        /\ \A s \in AllSeqs : s <= SeqMax(AllSeqs)
    BY RowTypes DEF EventLogTypeOK
  <1>5. /\ LastId' = LastId /\ since' \in 0 .. MaxSeq
        /\ MaxSeq \in Nat /\ Logged \subseteq Nat
        /\ got = <<>> => LastId = 0
        /\ got # <<>> => 0 < LastId
    <2>1. LastId' = LastId
      BY <1>1 DEF LastId
    <2>2. since' \in 0 .. MaxSeq
      BY <1>1, <1>4 DEF EventLogTypeOK, ClientTypes
    <2> QED  BY <2>1, <2>2, ClientFacts
  <1>6. ClientTypes'
    BY <1>1, <1>3, <1>5 DEF EventLogTypeOK, ClientTypes
  <1>7. TravelInv'
    <2>1. ToSet(<<>>) = {}
      BY DEF ToSet
    <2> QED  BY <1>1, <1>3, <2>1 DEF ClientInv, TravelInv
  <1>8. HandlerInv'
    <2>1. IF got = <<>> THEN after <= since' ELSE after = LastId
      BY <1>1, <1>4, <1>5
    <2> QED  BY <1>1, <1>2, <1>3, <1>5, <2>1 DEF HandlerInv
  <1>9. PassedInv'
    <2>1. CASE got = <<>>
      <3>1. \A s \in Logged : ~(s < LastId')
        BY <1>5, <2>1
      <3> QED  BY <1>1, <3>1 DEF PassedInv
    <2>2. CASE got # <<>>
      BY <1>1, <1>5, <2>2 DEF ClientInv, PassedInv
    <2> QED  BY <2>1, <2>2
  <1>10. LiveInv'
    <2>1. CASE after = 0
      <3>1. since' = SeqMax(AllSeqs)
        BY <1>1, <1>5, <2>1
      <3>2. \A s \in published : ~(since' < s)
        <4>1. \A s \in published : s \in AllSeqs /\ s \in Nat
          BY <1>4, <1>5 DEF ClientInv, TravelInv
        <4> QED  BY <1>4, <3>1, <4>1
      <3> QED  BY <1>1, <3>2 DEF LiveInv
    <2>2. CASE after # 0
      BY <1>2, <1>3, <2>2 DEF LiveInv
    <2> QED  BY <2>1, <2>2
  <1>11. ReplayInv'
    BY <1>1, <1>2, <1>3 DEF ReplayInv, ReplayIsLog
  <1>12. Rising(got)'
    BY <1>1 DEF ClientInv
  <1> QED  BY <1>6, <1>7, <1>8, <1>9, <1>10, <1>11, <1>12 DEF ClientInv

\* Without a resume point the buffered events are all the client has missed.
LEMMA DrainSnapshotClient ==
  ASSUME EventLogTypeOK, ClientInv, Logged' = Logged,
         sub.phase = "snapshot", sub.cursor = 0, Drain(sub.high, <<>>),
         UNCHANGED <<hub, wire, since, published, excused>>
  PROVE  ClientTypes' /\ ClientInv'
  <1> DEFINE f == Fresh(sub.high, sub.buffer)
  <1>1. /\ got' = got \o <<>> \o f.out
        /\ sub' = [sub EXCEPT !.phase = "live", !.high = f.high, !.buffer = <<>>]
    BY DEF Drain
  <1>2. /\ MaxSeq \in Nat /\ Logged \subseteq Seqno /\ Seqno \subseteq Nat
        /\ sub.high \in 0 .. MaxSeq /\ sub.buffer \in Seq(1 .. MaxSeq)
        /\ sub.buffer \in Seq(Nat) /\ wire \in Seq(Nat)
        /\ got # <<>> => 0 < LastId
    BY ClientFacts
  <1>3. /\ hub # "replay" /\ sub.cursor = sub.high
        /\ IF got = <<>> THEN sub.high <= since ELSE sub.high = LastId
    BY DEF ClientInv, HandlerInv, Connected
  <1>4. sub.high = 0 /\ got = <<>>
    BY <1>2, <1>3
  <1>5. /\ f.high \in 0 .. MaxSeq /\ sub.high <= f.high
        /\ f.out \in Seq(1 .. MaxSeq) /\ Rising(f.out)
        /\ ToSet(f.out) = {x \in ToSet(sub.buffer) : sub.high < x /\ Ahead(x, sub.buffer)}
        /\ IF f.out = <<>> THEN f.high = sub.high ELSE f.high = Last(f.out)
    <2>1. MaxSeq \in Nat /\ sub.high \in 0 .. MaxSeq /\ sub.buffer \in Seq(1 .. MaxSeq)
      BY <1>2
    <2>2. Filtered(f, MaxSeq, sub.high, sub.buffer)
      BY <2>1, FreshFilters
    <2> HIDE DEF f
    <2> QED  BY <2>2 DEF Filtered
  <1> HIDE DEF f
  <1>6. got' = f.out
    BY <1>1, <1>4, <1>5, ConcatEmptySeq
  <1>7. LastId' = f.high /\ (got' # <<>> => LastId' \in ToSet(sub.buffer))
    <2>1. LastId' = f.high
      BY <1>4, <1>5, <1>6 DEF LastId
    <2>2. got' # <<>> => LastOf(f.out) \in ToSet(f.out) /\ LastOf(f.out) = f.high
      BY <1>2, <1>5, <1>6, LastOfFacts DEF LastOf
    <2> QED  BY <1>5, <2>1, <2>2
  <1>8. /\ sub' \in [phase : {"off", "replay"} \cup Connected,
                     cursor : 0 .. MaxSeq, high : 0 .. MaxSeq, buffer : Seq(Seqno)]
        /\ sub'.phase = "live" /\ sub'.high = f.high /\ sub'.buffer = <<>>
    <2>1. /\ sub \in [phase : {"off", "replay"} \cup Connected,
                      cursor : 0 .. MaxSeq, high : 0 .. MaxSeq, buffer : Seq(Seqno)]
          /\ <<>> \in Seq(Seqno) /\ "live" \in Connected
      BY DEF EventLogTypeOK, ClientTypes, Connected
    <2> QED  BY <1>1, <1>5, <2>1
  <1>9. ClientTypes'
    BY <1>5, <1>6, <1>8 DEF EventLogTypeOK, ClientTypes, Seqno
  <1>10. TravelInv
    BY DEF ClientInv
  <1>11. TravelInv'
    <2>1. ToSet(<<>>) = {}
      BY DEF ToSet
    <2> QED  BY <1>5, <1>6, <1>8, <1>10, <2>1 DEF TravelInv
  <1>12. HandlerInv'
    <2>1. IF got' = <<>> THEN f.high <= since ELSE f.high = LastId'
      BY <1>3, <1>4, <1>5, <1>6, <1>7
    <2> QED  BY <1>3, <1>8, <2>1 DEF HandlerInv
  \* A published event the client lacks is excused, or still on the wire.
  <1>13. ASSUME NEW s \in published, since < s, s \notin ToSet(got')
         PROVE  s \in excused \/ (Ahead(s, Pending') /\ \A y \in ToSet(sub.buffer) : y < s)
    <2>1. s \in Nat /\ s # 0
      <3>1. s \in 1 .. MaxSeq
        BY <1>2, <1>10 DEF TravelInv, Seqno
      <3> QED  BY <3>1
    <2>2. s \in excused \/ Ahead(s, Pending)
      <3>1. s \notin ToSet(got)
        BY <1>4 DEF ToSet
      <3> QED  BY <1>13, <3>1 DEF ClientInv, LiveInv
    <2>3. ~Ahead(s, sub.buffer)
      <3>1. ASSUME Ahead(s, sub.buffer) PROVE FALSE
        <4>1. s \in ToSet(sub.buffer)
          BY <3>1 DEF Ahead, ToSet
        <4>2. sub.high < s
          BY <1>4, <2>1
        <4> QED  BY <1>5, <1>6, <1>13, <3>1, <4>1, <4>2
      <3> QED  BY <3>1
    <2>4. CASE hub # "remote"
      BY <2>2, <2>3, <2>4 DEF Pending
    <2>5. CASE hub = "remote"
      <3>1. Pending = sub.buffer \o wire /\ Pending' = <<>> \o wire
        BY <1>8, <2>5 DEF Pending
      <3>2. <<>> \o wire = wire
        BY <1>2, ConcatEmptySeq
      <3>3. Ahead(s, sub.buffer \o wire) => Ahead(s, wire) /\ \A y \in ToSet(sub.buffer) : y < s
        BY <1>2, <2>3, AheadSplit
      <3> QED  BY <2>2, <3>1, <3>2, <3>3
    <2> QED  BY <2>4, <2>5
  <1>14. LiveInv'
    BY <1>13 DEF LiveInv
  <1>15. PassedInv'
    <2> SUFFICES ASSUME NEW s \in Logged, since < s, s < LastId', s \notin ToSet(got')
                 PROVE  s \in excused \/ (s \notin published /\ s < SeqMax(published))
      BY DEF PassedInv
    <2>1. s \in Nat /\ LastId' \in 0 .. MaxSeq
      BY <1>2, <1>5, <1>7
    <2>2. got' # <<>> /\ LastId' \in ToSet(sub.buffer)
      BY <1>4, <1>5, <1>6, <1>7, <2>1
    <2>3. CASE s \in published
      <3>1. ~(LastId' < s)
        BY <2>1
      <3> QED  BY <1>13, <2>2, <2>3, <3>1
    <2>4. CASE s \notin published
      <3>1. LastId' \in published /\ published \in SUBSET (0 .. MaxSeq)
        BY <1>2, <1>10, <2>2 DEF TravelInv, Seqno
      <3>2. LastId' <= SeqMax(published) /\ SeqMax(published) \in 0 .. MaxSeq
        BY <1>2, <3>1, SeqMaxFacts
      <3> QED  BY <2>1, <2>4, <3>2
    <2> QED  BY <2>3, <2>4
  <1>16. ReplayInv'
    BY <1>3, <1>8 DEF ReplayInv, ReplayIsLog
  <1> QED  BY <1>5, <1>6, <1>9, <1>11, <1>12, <1>14, <1>15, <1>16 DEF ClientInv

\* The snapshot names no event; the backfill begins at the resume point.
LEMMA SendSnapshotClient ==
  ASSUME EventLogTypeOK, ClientInv, SendSnapshot
  PROVE  ClientTypes' /\ ClientInv'
  <1>1. /\ sub.phase = "snapshot" /\ Logged' = Logged
        /\ UNCHANGED <<hub, wire, since, published, excused>>
    BY DEF SendSnapshot, logVars, Logged, Canonical
  <1>2. CASE sub.cursor > 0
    <2>1. sub' = [sub EXCEPT !.phase = "backfill"] /\ got' = got
      BY <1>2 DEF SendSnapshot
    <2>2. /\ sub' \in [phase : {"off", "replay"} \cup Connected,
                       cursor : 0 .. MaxSeq, high : 0 .. MaxSeq, buffer : Seq(Seqno)]
          /\ sub'.phase = "backfill" /\ sub'.cursor = sub.cursor /\ sub'.high = sub.high
          /\ sub'.buffer = sub.buffer
      BY <2>1 DEF EventLogTypeOK, ClientTypes, Connected
    <2>3. LastId' = LastId
      BY <2>1 DEF LastId
    <2>4. ClientTypes' /\ TravelInv' /\ LiveInv'
      BY <1>1, <2>1, <2>2 DEF EventLogTypeOK, ClientTypes, ClientInv, TravelInv, LiveInv
    <2>5. PassedInv' /\ HandlerInv'
      BY <1>1, <1>2, <2>1, <2>2, <2>3 DEF ClientInv, PassedInv, HandlerInv, Connected
    <2>6. ReplayInv'
      BY <1>1, <2>2 DEF ClientInv, HandlerInv, Connected, ReplayInv, ReplayIsLog
    <2> QED  BY <2>1, <2>4, <2>5, <2>6 DEF ClientInv
  <1>3. CASE ~(sub.cursor > 0)
    <2>1. sub.cursor = 0
      BY <1>3, ClientFacts
    <2>2. Drain(sub.high, <<>>)
      BY <1>3 DEF SendSnapshot
    <2> QED  BY <1>1, <2>1, <2>2, DrainSnapshotClient
  <1> QED  BY <1>2, <1>3

\* The page a backfill reads is sent whole, and brings the handler to its end.
LEMMA BackfillPage ==
  ASSUME EventLogTypeOK, ClientInv, sub.phase = "backfill"
  PROVE  LET page == Page(sub.cursor)
             f == Fresh(sub.high, page)
         IN  /\ f.high \in 0 .. MaxSeq /\ sub.high <= f.high
             /\ f.out \in Seq(1 .. MaxSeq) /\ Rising(f.out)
             /\ f.high = (IF f.out = <<>> THEN sub.high ELSE LastOf(f.out))
             /\ ToSet(f.out) \subseteq {s \in Logged : sub.high < s}
             /\ \A s \in Logged : sub.high < s /\ s <= f.high => s \in ToSet(f.out)
             /\ Len(page) < PageSize => ToSet(f.out) = {s \in Logged : sub.high < s}
             /\ ~(Len(page) < PageSize) => f.out # <<>> /\ Last(page) = f.high
  <1> DEFINE page == Page(sub.cursor)
             f == Fresh(sub.high, page)
  <1>1. /\ MaxSeq \in Nat /\ Logged \subseteq Seqno /\ Seqno \subseteq Nat
        /\ sub.high \in 0 .. MaxSeq /\ sub.cursor \in 0 .. MaxSeq /\ PageSize \in Nat \ {0}
    BY ClientFacts, Constants DEF ConstantTypes
  <1>2. sub.cursor = sub.high
    BY DEF ClientInv, HandlerInv
  <1>3. /\ page \in Seq(Seqno) /\ Rising(page)
        /\ ToSet(page) \subseteq {s \in Logged : sub.cursor < s}
        /\ \A t \in ToSet(page) : \A s \in Logged : sub.cursor < s /\ s <= t => s \in ToSet(page)
        /\ IF Len(page) < PageSize THEN ToSet(page) = {s \in Logged : sub.cursor < s}
                                   ELSE page # <<>>
    BY <1>1, PageFacts
  <1> HIDE DEF page
  <1>4. page \in Seq(1 .. MaxSeq)
    BY <1>3 DEF Seqno
  <1>5. Filtered(f, MaxSeq, sub.high, page)
    BY <1>1, <1>4, FreshFilters
  <1>6. ToSet(f.out) = {x \in ToSet(page) : sub.high < x}
    BY <1>1, <1>3, <1>4, FreshOfRising
  <1> HIDE DEF f
  <1>7. ToSet(f.out) = ToSet(page)
    BY <1>2, <1>3, <1>6
  <1>8. /\ f.high \in 0 .. MaxSeq /\ sub.high <= f.high
        /\ f.out \in Seq(1 .. MaxSeq) /\ Rising(f.out)
        /\ IF f.out = <<>> THEN f.high = sub.high ELSE f.high = Last(f.out)
    BY <1>5 DEF Filtered
  <1>9. f.high = IF f.out = <<>> THEN sub.high ELSE LastOf(f.out)
    BY <1>8 DEF LastOf
  <1>10. f.out # <<>> => f.high \in ToSet(f.out) /\ \A x \in ToSet(f.out) : x <= f.high
    BY <1>1, <1>8, <1>9, LastOfFacts
  <1>11. ASSUME NEW s \in Logged, sub.high < s, s <= f.high PROVE s \in ToSet(f.out)
    <2>1. f.out # <<>>
      BY <1>1, <1>8, <1>11
    <2> QED  BY <1>2, <1>3, <1>7, <1>10, <1>11, <2>1
  <1>12. ASSUME ~(Len(page) < PageSize) PROVE f.out # <<>> /\ Last(page) = f.high
    <2>1. page # <<>>
      BY <1>3, <1>12
    <2>2. /\ LastOf(page) \in ToSet(page) /\ LastOf(page) = Last(page)
          /\ \A x \in ToSet(page) : x <= LastOf(page)
      BY <1>1, <1>3, <1>4, <2>1, LastOfFacts DEF LastOf
    <2>3. f.out # <<>>
      BY <1>7, <1>8, <2>2, ToSetEmpty
    <2>4. f.high \in ToSet(page) /\ \A x \in ToSet(page) : x <= f.high
      BY <1>7, <1>10, <2>3
    <2>5. f.high <= Last(page) /\ Last(page) <= f.high
      BY <2>2, <2>4
    <2>6. Last(page) \in Nat
      BY <1>1, <1>3, <2>2
    <2> QED  BY <1>8, <2>3, <2>5, <2>6
  <1>13. Len(page) < PageSize => ToSet(f.out) = {s \in Logged : sub.high < s}
    BY <1>2, <1>3, <1>7
  <1>14. ToSet(f.out) \subseteq {s \in Logged : sub.high < s}
    BY <1>2, <1>3, <1>7
  <1> QED  BY <1>8, <1>9, <1>11, <1>12, <1>13, <1>14 DEF f, page

\* The client after a page: everything logged up to the page's end is there.
LEMMA BackfillClient ==
  ASSUME EventLogTypeOK, ClientInv, Backfill
  PROVE  ClientTypes' /\ ClientInv'
  <1> DEFINE page == Page(sub.cursor)
             f == Fresh(sub.high, page)
             all == got \o f.out
             g == Fresh(f.high, sub.buffer)
  <1>1. /\ sub.phase = "backfill"
        /\ IF Len(page) < PageSize THEN Drain(f.high, f.out)
           ELSE sub' = [sub EXCEPT !.cursor = Last(page), !.high = f.high] /\ got' = all
        /\ UNCHANGED <<hub, wire, since, published, excused>> /\ Logged' = Logged
    BY DEF Backfill, logVars, Logged, Canonical
  <1>2. Len(page) < PageSize =>
          /\ got' = all \o g.out
          /\ sub' = [sub EXCEPT !.phase = "live", !.high = g.high, !.buffer = <<>>]
    BY <1>1 DEF Drain
  <1>3. /\ f.high \in 0 .. MaxSeq /\ sub.high <= f.high
        /\ f.out \in Seq(1 .. MaxSeq) /\ Rising(f.out)
        /\ f.high = (IF f.out = <<>> THEN sub.high ELSE LastOf(f.out))
        /\ ToSet(f.out) \subseteq {s \in Logged : sub.high < s}
        /\ \A s \in Logged : sub.high < s /\ s <= f.high => s \in ToSet(f.out)
        /\ Len(page) < PageSize => ToSet(f.out) = {s \in Logged : sub.high < s}
        /\ ~(Len(page) < PageSize) => f.out # <<>> /\ Last(page) = f.high
    BY <1>1, BackfillPage
  <1>4. /\ MaxSeq \in Nat /\ Logged \subseteq Seqno /\ Seqno \subseteq Nat
        /\ got \in Seq(1 .. MaxSeq) /\ sub.buffer \in Seq(1 .. MaxSeq)
        /\ sub.high \in 0 .. MaxSeq /\ since \in 0 .. MaxSeq
        /\ LastId = LastOf(got) /\ LastId \in 0 .. MaxSeq
        /\ got # <<>> => LastId \in ToSet(got)
        /\ \A x \in ToSet(got) : x <= LastId
        /\ got = <<>> <=> ToSet(got) = {}
    BY ClientFacts
  <1>5. /\ hub # "replay" /\ sub.cursor = sub.high
        /\ IF got = <<>> THEN sub.high <= since ELSE sub.high = LastId
    BY <1>1 DEF ClientInv, HandlerInv, Connected
  <1>6. Rising(got) /\ TravelInv /\ PassedInv
    BY DEF ClientInv
  <1> HIDE DEF f, page, g
  <1>7. \A x \in ToSet(got), y \in ToSet(f.out) : x < y
    <2>1. ASSUME NEW x \in ToSet(got), NEW y \in ToSet(f.out) PROVE x < y
      <3>1. x <= sub.high /\ sub.high < y
        BY <1>3, <1>4, <1>5
      <3>2. x \in Nat /\ y \in Nat /\ sub.high \in Nat
        <4>1. x \in Logged /\ y \in Logged
          BY <1>3, <1>6 DEF TravelInv
        <4>2. Logged \subseteq Nat
          BY <1>4
        <4>3. sub.high \in Nat
          BY <1>4
        <4> QED  BY <4>1, <4>2, <4>3
      <3> QED  BY <3>1, <3>2
    <2> QED  BY <2>1
  <1>8. /\ all \in Seq(1 .. MaxSeq) /\ Rising(all)
        /\ ToSet(all) = ToSet(got) \cup ToSet(f.out)
        /\ LastOf(all) = IF f.out = <<>> THEN LastOf(got) ELSE LastOf(f.out)
        /\ all = <<>> <=> got = <<>> /\ f.out = <<>>
    BY <1>3, <1>4, <1>6, <1>7, ExtendFacts
  <1> HIDE DEF all
  <1>9. IF all = <<>> THEN f.high <= since ELSE f.high = LastOf(all)
    BY <1>3, <1>4, <1>5, <1>8
  \* What was passed before is all that is still missing.
  <1>10. ASSUME NEW s \in Logged, since < s, s <= f.high, s \notin ToSet(all)
         PROVE  s \in excused \/ (s \notin published /\ s < SeqMax(published))
    <2>1. s \in Nat /\ ~(sub.high < s) /\ s \notin ToSet(got)
      BY <1>3, <1>4, <1>8, <1>10
    <2>2. got # <<>> /\ sub.high = LastId
      BY <1>4, <1>5, <1>10, <2>1
    <2>3. s # LastId
      BY <1>4, <2>1, <2>2
    <2>4. s < LastId
      BY <1>4, <2>1, <2>2, <2>3
    <2> QED  BY <1>6, <1>10, <2>1, <2>4 DEF PassedInv
  <1>11. got' = all /\ IF Len(page) < PageSize
            THEN sub' = [sub EXCEPT !.phase = "live", !.high = f.high, !.buffer = <<>>]
            ELSE sub' = [sub EXCEPT !.cursor = f.high, !.high = f.high]
    <2>1. CASE Len(page) < PageSize
      <3>1. Filtered(g, MaxSeq, f.high, sub.buffer)
        <4>1. MaxSeq \in Nat /\ f.high \in 0 .. MaxSeq /\ sub.buffer \in Seq(1 .. MaxSeq)
          BY <1>3, <1>4
        <4> QED  BY <4>1, FreshFilters DEF g
      <3>2. /\ g.out \in Seq(1 .. MaxSeq)
            /\ ToSet(g.out) \subseteq {x \in ToSet(sub.buffer) : f.high < x}
            /\ IF g.out = <<>> THEN g.high = f.high ELSE g.high = Last(g.out)
        BY <3>1 DEF Filtered
      <3>3. ASSUME NEW x \in ToSet(g.out) PROVE FALSE
        <4>1. x \in Logged /\ f.high < x /\ x \in Nat
          BY <1>4, <1>6, <3>2 DEF TravelInv
        <4>2. sub.high < x
          BY <1>3, <1>4, <4>1
        <4>3. x \in ToSet(f.out) /\ f.out # <<>>
          BY <1>3, <2>1, <4>1, <4>2, ToSetEmpty
        <4>4. x <= LastOf(f.out) /\ LastOf(f.out) = f.high
          BY <1>3, <1>4, <4>3, LastOfFacts
        <4> QED  BY <1>3, <4>1, <4>4
      <3>4. g.out = <<>>
        BY <3>2, <3>3, ToSetEmpty
      <3>5. all \o g.out = all
        BY <1>8, <3>4, ConcatEmptySeq
      <3> QED  BY <1>2, <2>1, <3>2, <3>4, <3>5
    <2>2. CASE ~(Len(page) < PageSize)
      BY <1>1, <1>3, <2>2
    <2> QED  BY <2>1, <2>2
  <1>12. /\ sub' \in [phase : {"off", "replay"} \cup Connected,
                      cursor : 0 .. MaxSeq, high : 0 .. MaxSeq, buffer : Seq(Seqno)]
         /\ sub'.phase = (IF Len(page) < PageSize THEN "live" ELSE "backfill")
         /\ sub'.high = f.high
         /\ sub'.buffer = (IF Len(page) < PageSize THEN <<>> ELSE sub.buffer)
         /\ Len(page) < PageSize \/ sub'.cursor = f.high
    <2>1. /\ sub \in [phase : {"off", "replay"} \cup Connected,
                      cursor : 0 .. MaxSeq, high : 0 .. MaxSeq, buffer : Seq(Seqno)]
          /\ <<>> \in Seq(Seqno) /\ "live" \in Connected
      BY DEF EventLogTypeOK, ClientTypes, Connected
    <2>2. CASE Len(page) < PageSize
      BY <1>3, <1>11, <2>1, <2>2
    <2>3. CASE ~(Len(page) < PageSize)
      BY <1>1, <1>3, <1>11, <2>1, <2>3
    <2> QED  BY <2>2, <2>3
  <1>13. LastId' = LastOf(all)
    BY <1>11 DEF LastId, LastOf
  <1>14. ClientTypes'
    BY <1>1, <1>8, <1>11, <1>12 DEF EventLogTypeOK, ClientTypes, Seqno
  <1>15. TravelInv'
    <2>1. ToSet(<<>>) = {}
      BY DEF ToSet
    <2>2. ToSet(all) \subseteq Logged
      BY <1>3, <1>6, <1>8 DEF TravelInv
    <2>3. ToSet(sub'.buffer) \subseteq published
      BY <1>6, <1>12, <2>1 DEF TravelInv
    <2> QED  BY <1>1, <1>6, <1>11, <2>2, <2>3 DEF TravelInv
  <1>16. HandlerInv'
    <2>1. ~(Len(page) < PageSize) => f.high > 0
      <3>1. ASSUME ~(Len(page) < PageSize) PROVE f.high > 0
        BY <1>3, <1>4, <3>1, LastOfFacts
      <3> QED  BY <3>1
    <2> QED  BY <1>1, <1>5, <1>9, <1>11, <1>12, <1>13, <2>1 DEF HandlerInv
  <1>17. PassedInv'
    <2> SUFFICES ASSUME NEW s \in Logged, since < s, s < LastId', s \notin ToSet(all)
                 PROVE  s \in excused \/ (s \notin published /\ s < SeqMax(published))
      BY <1>1, <1>11 DEF PassedInv
    <2>1. s \in Nat /\ s # 0
      BY <1>4
    <2>2. all # <<>>
      BY <1>13, <2>1 DEF LastOf
    <2>3. s <= f.high
      BY <1>3, <1>9, <1>13, <2>1, <2>2
    <2> QED  BY <1>10, <2>3
  <1>18. LiveInv'
    <2>1. CASE ~(Len(page) < PageSize)
      BY <1>12, <2>1 DEF LiveInv
    <2>2. CASE Len(page) < PageSize
      <3>1. ASSUME NEW s \in published, since < s, s \notin ToSet(all) PROVE s \in excused
        <4>1. s \in Logged /\ s \in Nat
          BY <1>4, <1>6 DEF TravelInv
        <4>2. ~(sub.high < s)
          BY <1>3, <1>8, <2>2, <3>1, <4>1
        <4>3. s <= f.high
          BY <1>3, <1>4, <4>1, <4>2
        <4> QED  BY <1>10, <3>1, <4>1, <4>3
      <3> QED  BY <1>1, <1>11, <3>1 DEF LiveInv
    <2> QED  BY <2>1, <2>2
  <1>19. ReplayInv'
    BY <1>1, <1>5, <1>12 DEF ReplayInv, ReplayIsLog
  <1> QED  BY <1>8, <1>11, <1>14, <1>15, <1>16, <1>17, <1>18, <1>19 DEF ClientInv

\* A replay starts where it is asked to.
LEMMA StartReplayClient ==
  ASSUME EventLogTypeOK, ClientInv, NEW fromSeq \in 1 .. MaxSeq, StartReplay(fromSeq)
  PROVE  ClientTypes' /\ ClientInv'
  <1>1. /\ hub = "replay" /\ got = <<>> /\ since' = fromSeq - 1
        /\ sub' = [NoClient EXCEPT !.phase = "replay", !.cursor = fromSeq - 1]
        /\ UNCHANGED <<hub, wire, got, published, excused>> /\ Logged' = Logged
    BY DEF StartReplay, logVars, Logged, Canonical
  <1>2. MaxSeq \in Nat /\ Logged \subseteq Seqno /\ Seqno \subseteq Nat /\ LastId = 0 /\ ToSet(got) = {}
        /\ fromSeq - 1 \in 0 .. MaxSeq
    BY <1>1, ClientFacts
  <1>3. /\ sub' \in [phase : {"off", "replay"} \cup Connected,
                     cursor : 0 .. MaxSeq, high : 0 .. MaxSeq, buffer : Seq(Seqno)]
        /\ sub'.phase = "replay" /\ sub'.cursor = fromSeq - 1 /\ sub'.buffer = <<>>
    <2>1. <<>> \in Seq(Seqno) /\ 0 \in 0 .. MaxSeq
      BY <1>2
    <2> QED  BY <1>1, <1>2, <2>1 DEF NoClient
  <1>4. ClientTypes'
    BY <1>1, <1>2, <1>3 DEF EventLogTypeOK, ClientTypes
  <1>5. LastId' = 0
    BY <1>1 DEF LastId
  <1>6. TravelInv'
    <2>1. ToSet(<<>>) = {}
      BY DEF ToSet
    <2> QED  BY <1>1, <1>3, <2>1 DEF ClientInv, TravelInv
  <1>7. HandlerInv' /\ LiveInv'
    BY <1>3 DEF HandlerInv, LiveInv, Connected
  <1>8. \A s \in Logged : s \in Nat /\ ~(s < 0) /\ ~(s <= 0)
    BY <1>2 DEF Seqno
  <1>9. PassedInv'
    BY <1>1, <1>5, <1>8 DEF PassedInv
  <1>10. ReplayInv'
    <2>1. {s \in Logged : since' < s /\ s <= since'} = {}
      BY <1>1, <1>2, <1>8
    <2>2. {s \in Logged : since' < s /\ s <= 0} = {}
      BY <1>8
    <2>3. ReplayIsLog'
      BY <1>1, <1>2, <1>5, <2>2 DEF ReplayIsLog, Logged
    <2>4. since' <= sub'.cursor /\ sub'.cursor = since'
      BY <1>1, <1>2, <1>3
    <2>5. ToSet(got') = {s \in Logged' : since' < s /\ s <= sub'.cursor}
      BY <1>1, <1>2, <2>1, <2>4
    <2> QED  BY <1>1, <2>3, <2>4, <2>5 DEF ReplayInv
  <1>11. Rising(got)'
    BY <1>1 DEF ClientInv
  <1> QED  BY <1>4, <1>6, <1>7, <1>9, <1>10, <1>11 DEF ClientInv

\* A page of the replay continues where the last one ended.
LEMMA ReplayPageClient ==
  ASSUME EventLogTypeOK, ClientInv, NEW toSeq \in 1 .. MaxSeq, ReplayPage(toSeq)
  PROVE  ClientTypes' /\ ClientInv'
  <1> DEFINE page == Page(sub.cursor)
             sent == Ascending({s \in ToSet(page) : s <= toSeq})
             over == Len(page) < PageSize \/ sent # page
  <1>1. /\ sub.phase = "replay" /\ got' = got \o sent
        /\ sub' = IF over THEN NoClient ELSE [sub EXCEPT !.cursor = Last(page)]
        /\ UNCHANGED <<hub, wire, since, published, excused>> /\ Logged' = Logged
    BY DEF ReplayPage, logVars, Logged, Canonical
  <1>2. /\ MaxSeq \in Nat /\ Logged \subseteq Seqno /\ Seqno \subseteq Nat
        /\ got \in Seq(1 .. MaxSeq) /\ sub.cursor \in 0 .. MaxSeq /\ since \in 0 .. MaxSeq
        /\ LastId = LastOf(got) /\ PageSize \in Nat \ {0}
    BY ClientFacts, Constants DEF ConstantTypes
  <1>3. /\ page \in Seq(Seqno) /\ Rising(page)
        /\ ToSet(page) \subseteq {s \in Logged : sub.cursor < s}
        /\ \A t \in ToSet(page) : \A s \in Logged : sub.cursor < s /\ s <= t => s \in ToSet(page)
        /\ ~(Len(page) < PageSize) => page # <<>>
    BY <1>2, PageFacts
  <1> HIDE DEF page
  <1>4. /\ hub = "replay" /\ since <= sub.cursor
        /\ ToSet(got) = {s \in Logged : since < s /\ s <= sub.cursor}
        /\ Rising(got) /\ TravelInv
    BY <1>1 DEF ClientInv, ReplayInv
  <1>5. sent \in Seq(1 .. MaxSeq) /\ Rising(sent) /\ ToSet(sent) = {s \in ToSet(page) : s <= toSeq}
    <2> DEFINE S == {s \in ToSet(page) : s <= toSeq}
    <2>1. S \in SUBSET (1 .. MaxSeq)
      BY <1>2, <1>3 DEF Seqno
    <2> HIDE DEF S
    <2>2. Ascending(S) \in Seq(S) /\ Rising(Ascending(S)) /\ ToSet(Ascending(S)) = S
      BY <1>2, <2>1, AscendingFacts
    <2>3. Ascending(S) \in Seq(1 .. MaxSeq)
      BY <2>1, <2>2, SeqMonotonic
    <2> QED  BY <2>2, <2>3 DEF S
  <1> HIDE DEF sent
  <1>6. \A x \in ToSet(got), y \in ToSet(sent) : x < y
    <2>1. ASSUME NEW x \in ToSet(got), NEW y \in ToSet(sent) PROVE x < y
      <3>1. x \in Logged /\ x <= sub.cursor
        BY <1>4
      <3>2. y \in Logged /\ sub.cursor < y
        BY <1>3, <1>5
      <3>3. x \in Nat /\ y \in Nat
        BY <1>2, <3>1, <3>2
      <3> QED  BY <1>2, <3>1, <3>2, <3>3
    <2> QED  BY <2>1
  <1>7. /\ got' \in Seq(1 .. MaxSeq) /\ Rising(got')
        /\ ToSet(got') = ToSet(got) \cup ToSet(sent)
        /\ LastId' = IF sent = <<>> THEN LastId ELSE LastOf(sent)
    <2>1. LastId' = LastOf(got')
      BY DEF LastId, LastOf
    <2> QED  BY <1>1, <1>2, <1>4, <1>5, <1>6, <2>1, ExtendFacts
  <1>8. /\ \A x \in ToSet(got') : x \in Logged /\ since < x /\ x <= LastId'
        /\ LastId' \in 0 .. MaxSeq
        /\ got' = <<>> => LastId' = 0
        /\ got' # <<>> => LastId' \in ToSet(got')
    <2>1. /\ LastId' = LastOf(got') /\ LastId' \in 0 .. MaxSeq
          /\ got' = <<>> => LastId' = 0
          /\ got' # <<>> => LastId' \in ToSet(got')
          /\ \A x \in ToSet(got') : x <= LastId'
      <3>1. LastId' = LastOf(got')
        BY DEF LastId, LastOf
      <3> QED  BY <1>2, <1>7, <3>1, LastOfFacts
    <2>2. ASSUME NEW x \in ToSet(sent) PROVE x \in Logged /\ since < x
      <3>1. x \in Logged /\ sub.cursor < x
        BY <1>3, <1>5
      <3>2. x \in Nat
        BY <1>2, <3>1
      <3> QED  BY <1>2, <1>4, <3>1, <3>2
    <2>3. \A x \in ToSet(got) : x \in Logged /\ since < x
      BY <1>4
    <2> QED  BY <1>7, <2>1, <2>2, <2>3
  <1>9. ToSet(got') = {s \in Logged : since < s /\ s <= LastId'}
    <2>1. ASSUME NEW s \in Logged, since < s, s <= LastId' PROVE s \in ToSet(got')
      <3>1. s \in Nat /\ s # 0
        <4>1. s \in 1 .. MaxSeq
          BY <1>2 DEF Seqno
        <4> QED  BY <4>1
      <3>2. got' # <<>> /\ LastId' \in ToSet(got')
        BY <1>8, <2>1, <3>1
      <3>3. CASE s <= sub.cursor
        BY <1>4, <1>7, <2>1, <3>3
      <3>4. CASE sub.cursor < s
        <4>1. LastId' \notin ToSet(got)
          BY <1>2, <1>4, <1>8, <2>1, <3>1, <3>4
        <4>2. LastId' \in ToSet(page) /\ LastId' <= toSeq
          BY <1>5, <1>7, <3>2, <4>1
        <4>3. s \in ToSet(page)
          BY <1>3, <2>1, <3>4, <4>2
        <4>4. s <= toSeq
          BY <1>8, <2>1, <3>1, <4>2
        <4> QED  BY <1>5, <1>7, <4>3, <4>4
      <3> QED  BY <1>2, <3>1, <3>3, <3>4
    <2> QED  BY <1>8, <2>1
  <1>10. /\ sub' \in [phase : {"off", "replay"} \cup Connected,
                      cursor : 0 .. MaxSeq, high : 0 .. MaxSeq, buffer : Seq(Seqno)]
         /\ sub'.phase \in {"off", "replay"}
         /\ sub'.phase = "replay" => sub'.cursor = LastId' /\ LastId' \in ToSet(got')
         /\ sub'.buffer = <<>> \/ sub'.buffer = sub.buffer
    <2>1. CASE over
      <3>1. sub' = NoClient
        BY <1>1, <2>1
      <3>2. <<>> \in Seq(Seqno) /\ 0 \in 0 .. MaxSeq
        BY <1>2
      <3> QED  BY <3>1, <3>2 DEF NoClient
    <2>2. CASE ~over
      <3>1. sub' = [sub EXCEPT !.cursor = Last(page)] /\ sent = page /\ page # <<>>
        BY <1>1, <1>3, <2>2
      <3>2. LastId' = Last(page)
        BY <1>7, <3>1 DEF LastOf
      <3>3. got' # <<>>
        <4>1. ToSet(sent) # {}
          BY <1>5, <3>1, ToSetEmpty
        <4>2. ToSet(got') # {}
          BY <1>7, <4>1
        <4> QED  BY <1>7, <4>2, ToSetEmpty
      <3>4. sub \in [phase : {"off", "replay"} \cup Connected,
                     cursor : 0 .. MaxSeq, high : 0 .. MaxSeq, buffer : Seq(Seqno)]
        BY DEF EventLogTypeOK, ClientTypes
      <3> QED  BY <1>1, <1>8, <3>1, <3>2, <3>3, <3>4
    <2> QED  BY <2>1, <2>2
  <1> HIDE DEF over
  <1>11. ClientTypes'
    BY <1>1, <1>7, <1>10 DEF EventLogTypeOK, ClientTypes, Seqno
  <1>12. TravelInv'
    <2>1. ToSet(<<>>) = {}
      BY DEF ToSet
    <2>2. ToSet(sub'.buffer) \subseteq published
      BY <1>4, <1>10, <2>1 DEF TravelInv
    <2> QED  BY <1>1, <1>4, <1>8, <2>2 DEF TravelInv
  <1>13. HandlerInv' /\ LiveInv'
    BY <1>10 DEF HandlerInv, LiveInv, Connected
  <1>14. PassedInv'
    <2>1. ASSUME NEW s \in Logged, since < s, s < LastId' PROVE s \in ToSet(got')
      <3>1. s \in Nat
        BY <1>2
      <3>2. s <= LastId'
        BY <1>8, <2>1, <3>1
      <3> QED  BY <1>9, <2>1, <3>2
    <2> QED  BY <1>1, <2>1 DEF PassedInv
  <1>15. ReplayInv'
    <2>1. ReplayIsLog'
      BY <1>1, <1>9 DEF ReplayIsLog, Logged
    <2>2. ASSUME sub'.phase = "replay"
          PROVE  /\ hub = "replay" /\ since <= sub'.cursor /\ sub'.cursor \in Logged
                 /\ ToSet(got') = {s \in Logged : since < s /\ s <= sub'.cursor}
      <3>1. sub'.cursor = LastId' /\ LastId' \in Logged /\ since < LastId'
        BY <1>8, <1>10, <2>2
      <3> QED  BY <1>2, <1>4, <1>8, <1>9, <3>1
    <2> QED  BY <1>1, <2>1, <2>2 DEF ReplayInv
  <1> QED  BY <1>7, <1>11, <1>12, <1>13, <1>14, <1>15 DEF ClientInv

-------------------------------------------------------------------------------
(* The inductive invariant. *)

\* Everything is empty at the start.
LEMMA InitEstablishes == Init => IInv
  <1> SUFFICES ASSUME Init PROVE IInv
    OBVIOUS
  <1>1. /\ lastSeq = 0 /\ rows = {} /\ lock = "none" /\ proj = [version |-> 0, seen |-> {}]
        /\ metrics = 0 /\ writer = [w \in Writers |-> IdleWriter] /\ rebuild = IdleRebuild
        /\ hub \in Hubs /\ wire = <<>> /\ sub = NoClient /\ got = <<>> /\ since = 0
        /\ published = {} /\ excused = {} /\ breaks = 0
    BY DEF Init
  <1>2. MaxSeq \in Nat /\ "none" \notin Writers /\ <<>> \in Seq(Seqno) /\ ToSet(<<>>) = {}
        /\ Rising(<<>>)
    BY Constants, WritersAssumption DEF ConstantTypes, ToSet, Rising
  <1>3. LogTypes
    BY <1>1, <1>2, IdleWriterType DEF LogTypes, IdleRebuild
  <1>4. /\ sub \in [phase : {"off", "replay"} \cup Connected,
                    cursor : 0 .. MaxSeq, high : 0 .. MaxSeq, buffer : Seq(Seqno)]
        /\ sub.phase = "off" /\ sub.buffer = <<>>
    BY <1>1, <1>2 DEF NoClient
  <1>5. ClientTypes
    BY <1>1, <1>2, <1>4 DEF ClientTypes
  <1>6. AllSeqs = {} /\ Logged = {} /\ SeqMax({}) = 0
    BY <1>1 DEF AllSeqs, Logged, Seqs, Canonical, SeqMax
  <1>7. \A w \in Writers : WriterInv(w)
    BY <1>1, <1>2, IdleWriterType DEF WriterInv, InTransaction, AfterCommit
  <1>8. LogInv
    BY <1>1, <1>6, <1>7 DEF LogInv, ProjectionCoversLog, Logged, IdleRebuild
  <1>9. TravelInv /\ HandlerInv /\ PassedInv /\ LiveInv
    BY <1>1, <1>2, <1>4, <1>6 DEF TravelInv, HandlerInv, PassedInv, LiveInv, Connected
  <1>10. ReplayInv
    BY <1>1, <1>2, <1>4, <1>6 DEF ReplayInv, ReplayIsLog, Logged
  <1> QED  BY <1>1, <1>2, <1>3, <1>5, <1>8, <1>9, <1>10 DEF IInv, EventLogTypeOK, ClientInv

\* A step that only concerns the log, seen from the client.
LEMMA LogStep ==
  ASSUME IInv, LogTypes' /\ LogInv' /\ LogGrows, UNCHANGED <<hub, sseVars>>
  PROVE  IInv'
  <1>1. (Logged \subseteq Seqno)'
    <2>1. LogTypes' => (Logged \subseteq Seqno)'
      BY DEF LogTypes, Logged, Seqs, Canonical
    <2> QED  BY <2>1
  <1>2. ClientTypes' /\ ClientInv'
    BY <1>1, LogGrowsClient DEF IInv
  <1> QED  BY <1>2 DEF IInv, EventLogTypeOK

\* The end of a process, for the log and for the client.
LEMMA ProcessExitStep == ASSUME IInv, ProcessExit PROVE IInv'
  <1>1. LogTypes' /\ LogInv' /\ LogGrows
    BY ProcessExitLog DEF IInv, EventLogTypeOK
  <1>2. rows' = rows /\ Logged' = Logged
    BY DEF ProcessExit, Logged, Canonical
  <1>3. CASE hub = "remote"
    <2>1. UNCHANGED <<hub, sseVars>>
      BY <1>3 DEF ProcessExit, sseVars
    <2> QED  BY <1>1, <2>1, LogStep
  <1>4. CASE hub # "remote"
    <2>1. sub' = NoClient /\ wire' = <<>> /\ UNCHANGED <<hub, got, since, published, excused>>
      BY <1>4 DEF ProcessExit
    <2>2. ClientTypes' /\ ClientInv'
      BY <1>2, <2>1, OffClient DEF IInv
    <2> QED  BY <1>1, <2>2 DEF IInv, EventLogTypeOK
  <1> QED  BY <1>3, <1>4

\* A step of a writer.
LEMMA WriterStep ==
  ASSUME IInv, NEW w \in Writers,
         \/ \E b \in Batches : Allocate(w, b)
         \/ Apply(w) \/ ApplyThrows(w) \/ Commit(w) \/ Rollback(w)
         \/ ReadMetrics(w) \/ WriteMetrics(w) \/ MetricsFail(w)
         \/ Publish(w) \/ Complete(w)
  PROVE  IInv'
  <1>1. LogTypes /\ LogInv /\ EventLogTypeOK /\ ClientInv /\ metrics \in Nat /\ breaks \in Nat
    BY DEF IInv, EventLogTypeOK, LogTypes
  <1>2. CASE \E b \in Batches : Allocate(w, b)
    <2>1. PICK b \in Batches : Allocate(w, b)
      BY <1>2
    <2>2. LogTypes' /\ LogInv' /\ LogGrows
      BY <1>1, <2>1, AllocateLog
    <2>3. UNCHANGED <<hub, sseVars>>
      BY <2>1 DEF Allocate
    <2> QED  BY <2>2, <2>3, LogStep
  <1>3. CASE Apply(w)
    <2>1. LogTypes' /\ LogInv' /\ LogGrows
      BY <1>1, <1>3, ApplyLog
    <2>2. UNCHANGED <<hub, sseVars>>
      BY <1>3 DEF Apply
    <2> QED  BY <2>1, <2>2, LogStep
  <1>4. CASE ApplyThrows(w)
    BY <1>4, ProcessExitStep DEF ApplyThrows
  <1>5. CASE Commit(w)
    <2>1. LogTypes' /\ LogInv' /\ LogGrows
      BY <1>1, <1>5, CommitLog
    <2>2. UNCHANGED <<hub, sseVars>>
      BY <1>5 DEF Commit
    <2> QED  BY <2>1, <2>2, LogStep
  <1>6. CASE Rollback(w)
    <2>1. LogTypes' /\ LogInv' /\ LogGrows
      BY <1>1, <1>6, RollbackLog
    <2>2. UNCHANGED <<hub, sseVars>>
      BY <1>6 DEF Rollback
    <2> QED  BY <2>1, <2>2, LogStep
  <1>7. CASE ReadMetrics(w)
    <2>1. LogTypes' /\ LogInv' /\ LogGrows
      BY <1>1, <1>7, ReadMetricsLog
    <2>2. UNCHANGED <<hub, sseVars>>
      BY <1>7 DEF ReadMetrics
    <2> QED  BY <2>1, <2>2, LogStep
  <1>8. CASE WriteMetrics(w)
    <2>1. LogTypes' /\ LogInv' /\ LogGrows
      BY <1>1, <1>8, WriteMetricsLog
    <2>2. UNCHANGED <<hub, sseVars>>
      BY <1>8 DEF WriteMetrics
    <2> QED  BY <2>1, <2>2, LogStep
  <1>9. CASE MetricsFail(w)
    <2>1. /\ writer[w].pc \in AfterCommit /\ Step(w, "counted") /\ breaks' = breaks + 1
          /\ UNCHANGED <<lastSeq, rows, lock, proj, rebuild, metrics>> /\ UNCHANGED <<hub, sseVars>>
      BY <1>9 DEF MetricsFail, logVars, AfterCommit
    <2>2. metrics' \in Nat /\ breaks' \in Nat /\ "counted" \in AfterCommit
      BY <1>1, <2>1 DEF AfterCommit
    <2>3. LogTypes' /\ LogInv' /\ LogGrows
      BY <1>1, <2>1, <2>2, StepLog
    <2> QED  BY <2>1, <2>3, LogStep
  <1>10. CASE Publish(w)
    <2>1. /\ writer[w].pc \in AfterCommit
          /\ writer' = [writer EXCEPT ![w] = IdleWriter] \/ Step(w, "closing")
          /\ UNCHANGED <<lastSeq, rows, lock, proj, rebuild, metrics, breaks>>
      BY <1>10 DEF Publish, logVars, AfterCommit
    <2>2. metrics' \in Nat /\ breaks' \in Nat /\ "closing" \in AfterCommit
      BY <1>1, <2>1 DEF AfterCommit
    <2>3. LogTypes' /\ LogInv'
      BY <1>1, <2>1, <2>2, StepLog, IdleLog
    <2>4. ClientTypes' /\ ClientInv'
      BY <1>1, <1>10, PublishClient
    <2> QED  BY <2>3, <2>4 DEF IInv, EventLogTypeOK
  <1>11. CASE Complete(w)
    <2>1. /\ writer[w].pc \in AfterCommit
          /\ writer' = [writer EXCEPT ![w] = IdleWriter]
          /\ UNCHANGED <<lastSeq, rows, lock, proj, rebuild, metrics, breaks>>
          /\ sub' = (IF hub = "memory" THEN NoClient ELSE sub)
          /\ UNCHANGED <<hub, wire, got, since, published, excused>>
      BY <1>11 DEF Complete, logVars, AfterCommit
    <2>2. LogTypes' /\ LogInv' /\ LogGrows
      BY <1>1, <2>1, IdleLog
    <2>3. CASE hub = "memory"
      <3>1. Logged' = Logged
        BY <2>1 DEF Logged, Canonical
      <3>2. ClientTypes' /\ ClientInv'
        BY <1>1, <2>1, <2>3, <3>1, OffClient
      <3> QED  BY <2>2, <3>2 DEF IInv, EventLogTypeOK
    <2>4. CASE hub # "memory"
      <3>1. UNCHANGED <<hub, sseVars>>
        BY <2>1, <2>4 DEF sseVars
      <3> QED  BY <2>2, <3>1, LogStep
    <2> QED  BY <2>3, <2>4
  <1> QED  BY <1>2, <1>3, <1>4, <1>5, <1>6, <1>7, <1>8, <1>9, <1>10, <1>11

\* A step of the client or of its handler.
LEMMA ClientStep ==
  ASSUME IInv, UNCHANGED <<lastSeq, rows, lock, proj, metrics, writer, rebuild>>,
         breaks' \in {breaks, breaks + 1}, ClientTypes' /\ ClientInv'
  PROVE  IInv'
  <1>1. breaks' \in Nat
    BY DEF IInv, EventLogTypeOK, LogTypes
  <1>2. LogTypes' /\ LogInv'
    BY <1>1, LogKept DEF IInv, EventLogTypeOK
  <1> QED  BY <1>2 DEF IInv, EventLogTypeOK

\* Every step keeps the invariant.
LEMMA NextPreserves == IInv /\ [Next]_vars => IInv'
  <1> SUFFICES ASSUME IInv, [Next]_vars PROVE IInv'
    OBVIOUS
  <1>1. LogTypes /\ LogInv /\ EventLogTypeOK /\ ClientInv
    BY DEF IInv, EventLogTypeOK
  <1>2. CASE UNCHANGED vars
    <2>1. UNCHANGED <<hub, sseVars>> /\ UNCHANGED <<lastSeq, rows, lock, proj, metrics, writer, rebuild, breaks>>
      BY <1>2 DEF vars, sseVars
    <2>2. LogTypes' /\ LogInv' /\ LogGrows
      BY <1>1, <2>1, LogKept DEF LogTypes, LogGrows
    <2> QED  BY <2>1, <2>2, LogStep
  <1>3. ASSUME NEW w \in Writers,
               \/ \E b \in Batches : Allocate(w, b)
               \/ Apply(w) \/ ApplyThrows(w) \/ Commit(w) \/ Rollback(w)
               \/ ReadMetrics(w) \/ WriteMetrics(w) \/ MetricsFail(w)
               \/ Publish(w) \/ Complete(w)
        PROVE  IInv'
    BY <1>3, WriterStep
  <1>4. CASE FromRedis
    BY <1>1, <1>4, FromRedisClient, ClientStep DEF FromRedis, logVars
  <1>5. CASE LostOnWire
    BY <1>1, <1>5, LostOnWireClient, ClientStep DEF LostOnWire, logVars
  <1>6. ASSUME NEW after \in 0 .. MaxSeq, NEW snapshot \in BOOLEAN, Connect(after, snapshot)
        PROVE  IInv'
    BY <1>1, <1>6, ConnectClient, ClientStep DEF Connect, logVars
  <1>7. CASE SendSnapshot
    BY <1>1, <1>7, SendSnapshotClient, ClientStep DEF SendSnapshot, logVars
  <1>8. CASE Backfill
    BY <1>1, <1>8, BackfillClient, ClientStep DEF Backfill, logVars
  <1>9. CASE Disconnect
    <2>1. /\ sub' = NoClient /\ breaks' = breaks + 1 /\ wire' = wire
          /\ UNCHANGED <<lastSeq, rows, lock, proj, metrics, writer, rebuild>>
          /\ UNCHANGED <<hub, got, since, published, excused>>
      BY <1>9 DEF Disconnect, logVars
    <2>2. Logged' = Logged
      BY <2>1 DEF Logged, Canonical
    <2>3. ClientTypes' /\ ClientInv'
      BY <1>1, <2>1, <2>2, OffClient
    <2> QED  BY <2>1, <2>3, ClientStep
  <1>10. ASSUME NEW seq \in 1 .. MaxSeq, StartReplay(seq) PROVE IInv'
    BY <1>1, <1>10, StartReplayClient, ClientStep DEF StartReplay, logVars
  <1>11. ASSUME NEW seq \in 1 .. MaxSeq, ReplayPage(seq) PROVE IInv'
    BY <1>1, <1>11, ReplayPageClient, ClientStep DEF ReplayPage, logVars
  <1>12. CASE RebuildRead
    BY <1>1, <1>12, RebuildReadLog, LogStep DEF RebuildRead
  <1>13. CASE RebuildWrite
    BY <1>1, <1>13, RebuildWriteLog, LogStep DEF RebuildWrite
  <1>14. CASE Crash
    BY <1>14, ProcessExitStep DEF Crash
  <1> QED
    BY <1>2, <1>3, <1>4, <1>5, <1>6, <1>7, <1>8, <1>9, <1>10, <1>11, <1>12, <1>13, <1>14 DEF Next

\* The types hold, and with them the log's and the client's invariants: the facts
\* the theorems below rest on.
THEOREM Invariance == Spec => []IInv
  BY InitEstablishes, NextPreserves, PTL DEF Spec

\* Batches that commit, roll back or die with their process, and rebuilds among
\* them, leave the stored projection equal to the fold of the whole log: the row
\* lock that allocateSequence and rebuildProjection take is held to the commit.
THEOREM ProjectionIsTheLog == Spec => []ProjectionCoversLog
  <1>1. IInv => ProjectionCoversLog
    BY DEF IInv, LogInv
  <1> QED  BY <1>1, Invariance, PTL

\* A replay that pages through the log while batches commit has sent, up to where
\* it stands, every event of the log and nothing else: numbers become visible in
\* their order.
THEOREM ReplaySendsTheLog == Spec => []ReplayIsLog
  <1>1. IInv => ReplayIsLog
    BY DEF IInv, ClientInv, ReplayInv
  <1> QED  BY <1>1, Invariance, PTL

\* No SSE client gets an event twice or after a later one, over any number of
\* reconnects and whatever the backfill, the buffer and the hub deliver twice.
THEOREM ClientGetsEventsInOrder == Spec => []ClientInOrder
  <1>1. IInv => ClientInOrder
    <2> SUFFICES ASSUME IInv PROVE ClientInOrder
      OBVIOUS
    <2>1. got \in Seq(Seqno) /\ Rising(got)
      BY DEF IInv, EventLogTypeOK, ClientTypes, ClientInv
    <2>2. Len(got) \in Nat /\ DOMAIN got = 1 .. Len(got)
      BY <2>1, LenProperties
    <2>3. ASSUME NEW i \in 1 .. Len(got) - 1 PROVE got[i] < got[i + 1]
      <3>1. i \in 1 .. Len(got) /\ i + 1 \in 1 .. Len(got) /\ i < i + 1
        BY <2>2
      <3> QED  BY <2>1, <2>2, <3>1 DEF Rising
    <2> QED  BY <2>3 DEF ClientInOrder
  <1> QED  BY <1>1, Invariance, PTL

\* Below its last id a client lacks only published events that came after a later
\* one or were lost on their way to its instance: nothing falls between
\* snapshot, backfill, buffer and live events.
THEOREM NothingFallsThrough == Spec => []MissedOnlyIfLate
  <1>1. IInv => MissedOnlyIfLate
    <2> SUFFICES ASSUME IInv, NEW s \in published \cap Logged,
                        since < s, s < LastId, s \notin ToSet(got)
                 PROVE  s \in excused
      BY DEF MissedOnlyIfLate, Missed, Logged
    <2> QED  BY DEF IInv, ClientInv, PassedInv
  <1> QED  BY <1>1, Invariance, PTL
=============================================================================
