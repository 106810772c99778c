-------------------------- MODULE StreamResumeProofs --------------------------
(***************************************************************************)
(* Proofs about StreamResume, for every number of envelopes, crashes and   *)
(* retries.  Nothing below a resume point is ever missing from the event   *)
(* log.  And the log is a prefix of the session, whatever disconnects,     *)
(* failed transactions, compactions, failed binds and restarts happen,     *)
(* until a commit acknowledgement is lost, or envelopes are in the log of  *)
(* a run without its runtime_sessions row when the process stops or when   *)
(* the row comes late.  A run without its row is exact up to then.         *)
(***************************************************************************)
EXTENDS StreamResume, TLAPS

\* None of these events has happened: after any of them the log can repeat
\* envelopes.
Clean == clean = "yes"

\* Where the open stream stands, relative to the marker.
Positions ==
  /\ cursor <= hist
  /\ ordinal <= hist
  /\ mode = "stream" => pos = ordinal
  /\ mode = "persist" => pos = ordinal + 1

\* A consumer that is attached while there is no runtime_sessions row, and thus
\* reads from the start, finds an empty log; without a row no ordinal is stored.
RowlessStart ==
  /\ mode = "binding" => bound = "no"
  /\ bound # "yes" => cursor = 0
  /\ bound # "yes" /\ mode \in {"binding", "down"} => stored = <<>>

Exact == StoredIsPrefix /\ CursorCoversLog /\ MarkerCoversLog /\ RowlessStart

IInv == TypeOK /\ Positions /\ NothingLost /\ (Clean => Exact)

-------------------------------------------------------------------------------

\* updateStreamCursor is a floor: it keeps the stored ordinal within the
\* history, and writing the stored ordinal changes nothing.
LEMMA CursorFacts ==
  ASSUME TypeOK, Positions, NEW n \in 0 .. hist
  PROVE  /\ CursorAfter(n) \in 0 .. hist
         /\ n = cursor => CursorAfter(n) = cursor
         /\ bound = "yes" /\ cursor <= n => CursorAfter(n) = n
         /\ bound # "yes" => CursorAfter(n) = cursor
         /\ CursorAfter(n) \in {cursor, n}
<1>1. hist \in Nat /\ cursor \in 0 .. hist
  BY DEF TypeOK, Positions
<1> QED BY <1>1 DEF CursorAfter, Larger

\* Subscribing anywhere within the accepted history keeps the types, and a
\* resume point that is the stored one leaves the stored one as it is.
LEMMA SubscribeFacts ==
  ASSUME TypeOK, Positions, NEW n \in 0 .. hist, Subscribe(n)
  PROVE  /\ mode' \in {"rejected", "stream"} /\ pos' = n
         /\ cursor' \in 0 .. hist
         /\ cursor' \in {cursor, n}
         /\ n = cursor \/ bound # "yes" => cursor' = cursor
  BY CursorFacts DEF Subscribe

\* A step that appends nothing and takes both resume points from what they
\* were, or to 0, keeps everything below them in the log.
LEMMA ResumePointsKept ==
  ASSUME IInv, stored' = stored,
         cursor' \in {cursor, ordinal, 0}, ordinal' \in {cursor, ordinal, 0}
  PROVE  NothingLost'
<1>1. cursor \in Nat /\ ordinal \in Nat
  BY DEF IInv, TypeOK
<1>2. Larger(cursor', ordinal') \in Nat /\ Larger(cursor', ordinal') <= Larger(cursor, ordinal)
  BY <1>1 DEF Larger
<1>3. 1 .. Larger(cursor', ordinal') \subseteq 1 .. Larger(cursor, ordinal)
  BY <1>1, <1>2 DEF Larger
<1> QED BY <1>3 DEF IInv, NothingLost

\* The loop starts in a state the invariant allows.
LEMMA InitIInv == Init => IInv
  BY BoundsAssumption DEF Init, IInv, TypeOK, Positions, NothingLost, Larger, Clean, Exact,
     StoredIsPrefix, CursorCoversLog, MarkerCoversLog, RowlessStart, Flag, Row, Mode

\* The runtime's own steps only add history, or forget what is compacted.
LEMMA RuntimeIInv ==
  ASSUME IInv, Accept \/ Compact \/ EndSession PROVE IInv'
<1>1. TypeOK'
  BY BoundsAssumption DEF IInv, TypeOK, Accept, Compact, EndSession, dbVars, loopVars, Flag, Mode
<1>2. Positions'
  BY DEF IInv, TypeOK, Positions, Accept, Compact, EndSession, dbVars, loopVars
<1>3. Clean' => Exact'
  BY DEF IInv, Clean, Exact, StoredIsPrefix, CursorCoversLog, MarkerCoversLog, RowlessStart,
     Accept, Compact, EndSession, dbVars, loopVars
<1>4. NothingLost'
  BY ResumePointsKept DEF Accept, Compact, EndSession, dbVars, loopVars
<1> QED BY <1>1, <1>2, <1>3, <1>4 DEF IInv

\* bindSession leaves a row, none, or one under way, before anything is streamed.
LEMMA BindIInv ==
  ASSUME IInv, Bind \/ BindFails \/ BindOvertaken
  PROVE  IInv'
<1>1. /\ mode = "binding" /\ mode' \in {"down", "done"}
      /\ bound' \in {"yes", "pending", bound}
      /\ outcome' \in {"failed", outcome}
      /\ UNCHANGED <<hist, base, over, stored, cursor, gap, ordinal, pos, retries, crashes, clean>>
  BY DEF Bind, BindFails, BindOvertaken, runtimeVars
<1>2. TypeOK' /\ Positions'
  BY <1>1 DEF IInv, TypeOK, Positions, Row, Mode
<1>3. ASSUME Clean' PROVE Exact'
  <2>1. stored = <<>> /\ cursor = 0
    BY <1>1, <1>3 DEF IInv, Clean, Exact, RowlessStart
  <2> QED
    BY <1>1, <2>1 DEF Exact, StoredIsPrefix, CursorCoversLog, MarkerCoversLog, RowlessStart
<1>4. NothingLost'
  BY <1>1, ResumePointsKept
<1> QED BY <1>2, <1>3, <1>4 DEF IInv

\* A row that comes late has the ordinal 0, which is right for an empty log only.
LEMMA InsertIInv == ASSUME IInv, InsertEnds PROVE IInv'
<1>1. /\ bound = "pending" /\ bound' \in {"yes", "no"} /\ clean' \in {"no", clean}
      /\ bound' = "yes" /\ clean' = "yes" => stored = <<>>
      /\ UNCHANGED <<hist, base, over, stored, cursor, gap, outcome, mode, ordinal, pos,
                     retries, crashes>>
  BY DEF InsertEnds, runtimeVars, loopVars
<1>2. TypeOK' /\ Positions'
  BY <1>1 DEF IInv, TypeOK, Positions, Row, Flag
<1>3. ASSUME Clean' PROVE Exact'
  <2>1. Exact /\ mode # "binding" /\ cursor = 0
    BY <1>1, <1>3 DEF IInv, Clean, Exact, RowlessStart
  <2> QED
    BY <1>1, <1>3, <2>1 DEF Clean, Exact, StoredIsPrefix, CursorCoversLog, MarkerCoversLog,
       RowlessStart
<1>4. NothingLost'
  BY <1>1, ResumePointsKept
<1> QED BY <1>2, <1>3, <1>4 DEF IInv

\* start() seeds the marker with the stored ordinal, so both count the log.
LEMMA AttachIInv == ASSUME IInv, Attach PROVE IInv'
<1>1. Seed \in 0 .. hist
  BY DEF IInv, TypeOK, Positions, Seed
<1>2. /\ mode = "down" /\ ordinal' = Seed /\ retries' = 0
      /\ UNCHANGED <<hist, base, over, bound, stored, gap, outcome, crashes, clean>>
      /\ Subscribe(Seed) \/ (mode' = "poll" /\ UNCHANGED <<pos, cursor>>)
  BY DEF Attach, runtimeVars
<1>3. /\ mode' \in {"rejected", "stream", "poll"}
      /\ pos' \in 0 .. hist /\ (mode' = "stream" => pos' = Seed)
      /\ cursor' \in 0 .. hist /\ (Seed = cursor => cursor' = cursor)
      /\ cursor' \in {cursor, Seed}
  BY <1>1, <1>2, SubscribeFacts DEF IInv, TypeOK, Positions
<1>4. TypeOK'
  BY <1>1, <1>2, <1>3, BoundsAssumption DEF IInv, TypeOK, Mode
<1>5. Positions'
  BY <1>1, <1>2, <1>3 DEF IInv, TypeOK, Positions
<1>6. ASSUME Clean' PROVE Exact'
  <2>1. Seed = cursor /\ cursor' = cursor /\ cursor = Len(stored)
    <3>1. CASE bound = "yes"
      BY <1>2, <1>3, <1>6, <3>1 DEF Seed, IInv, Clean, Exact, CursorCoversLog
    <3>2. CASE bound # "yes"
      BY <1>2, <1>3, <1>6, <3>2 DEF Seed, IInv, Clean, Exact, RowlessStart
    <3> QED BY <3>1, <3>2
  <2> QED
    BY <2>1, <1>2, <1>3, <1>6 DEF IInv, Clean, Exact, StoredIsPrefix, CursorCoversLog,
       MarkerCoversLog, RowlessStart
<1>7. NothingLost'
  BY <1>2, <1>3, ResumePointsKept DEF Seed
<1> QED BY <1>4, <1>5, <1>6, <1>7 DEF IInv

\* Reading an envelope only moves the stream on.
LEMMA DeliverIInv == ASSUME IInv, Deliver PROVE IInv'
<1>1. TypeOK' /\ Positions'
  BY DEF IInv, TypeOK, Positions, Deliver, runtimeVars, dbVars, Mode
<1>2. Clean' => Exact'
  BY DEF IInv, Clean, Exact, StoredIsPrefix, CursorCoversLog, MarkerCoversLog, RowlessStart,
     Deliver, runtimeVars, dbVars
<1>3. NothingLost'
  BY ResumePointsKept DEF Deliver, dbVars
<1> QED BY <1>1, <1>2, <1>3 DEF IInv

\* The event transaction: the envelope it appends is one of the session, and
\* the stored ordinal stays within the history.
LEMMA CommitFacts ==
  ASSUME IInv, mode = "persist", CommitEnvelope
  PROVE  /\ pos = ordinal + 1
         /\ stored' = Append(stored, pos) /\ stored' \in Seq(1 .. MaxEnvelopes)
         /\ cursor' \in 0 .. hist
         /\ bound = "yes" /\ cursor = ordinal => cursor' = ordinal + 1
         /\ bound # "yes" => cursor' = cursor
         /\ ordinal' \in {ordinal, ordinal + 1} => NothingLost'
<1>1. pos = ordinal + 1 /\ pos \in 1 .. hist /\ pos \in 1 .. MaxEnvelopes
  BY BoundsAssumption DEF IInv, TypeOK, Positions
<1>2. stored' = Append(stored, pos) /\ stored' \in Seq(1 .. MaxEnvelopes)
  BY <1>1 DEF IInv, TypeOK, CommitEnvelope
<1>3. cursor \in Nat /\ ordinal + 1 \in Nat /\ cursor <= hist
  BY DEF IInv, TypeOK, Positions
<1>4. cursor' = CursorAfter(ordinal + 1) /\ ordinal + 1 \in 0 .. hist
  BY <1>1 DEF IInv, TypeOK, CommitEnvelope
<1>5. /\ cursor' \in 0 .. hist
      /\ bound = "yes" /\ cursor <= ordinal + 1 => cursor' = ordinal + 1
      /\ bound # "yes" => cursor' = cursor
  BY <1>4, CursorFacts DEF IInv
<1>6. ASSUME ordinal' \in {ordinal, ordinal + 1} PROVE NothingLost'
  <2>1. SUFFICES ASSUME NEW e \in 1 .. Larger(cursor', ordinal')
                 PROVE  \E i \in DOMAIN stored' : stored'[i] = e
    BY DEF NothingLost
  <2>2. stored \in Seq(1 .. MaxEnvelopes) /\ cursor \in Nat /\ ordinal \in Nat
    BY DEF IInv, TypeOK
  <2>3. cursor' \in {cursor, ordinal + 1}
    BY <1>4, CursorFacts DEF IInv
  <2>4. CASE e = pos
    <3>1. Len(stored) + 1 \in DOMAIN stored' /\ stored'[Len(stored) + 1] = e
      BY <1>2, <2>2, <2>4
    <3> QED BY <3>1
  <2>5. CASE e # pos
    <3>1. e \in 1 .. Larger(cursor, ordinal)
      BY <1>1, <1>6, <2>2, <2>3, <2>5 DEF Larger
    <3>2. PICK i \in DOMAIN stored : stored[i] = e
      BY <3>1 DEF IInv, NothingLost
    <3>3. i \in DOMAIN stored' /\ stored'[i] = e
      BY <1>2, <2>2, <3>2
    <3> QED BY <3>3
  <2> QED BY <2>4, <2>5
<1> QED BY <1>1, <1>2, <1>3, <1>5, <1>6

\* An envelope that is committed, and known to be, extends the prefix by the
\* next envelope, and moves row and marker with it.
LEMMA PersistIInv == ASSUME IInv, Persist PROVE IInv'
<1>1. /\ mode = "persist" /\ CommitEnvelope /\ mode' = "stream"
      /\ ordinal' = ordinal + 1 /\ retries' = 0
      /\ UNCHANGED <<hist, base, over, bound, gap, outcome, pos, crashes, clean>>
  BY DEF Persist, runtimeVars
<1>2. TypeOK' /\ Positions'
  BY <1>1, CommitFacts, BoundsAssumption DEF IInv, TypeOK, Positions, Mode
<1>3. ASSUME Clean' PROVE Exact'
  <2>1. /\ bound = "yes" => cursor = Len(stored)
        /\ bound # "yes" => cursor = 0
        /\ ordinal = Len(stored)
        /\ stored \in Seq(1 .. MaxEnvelopes)
        /\ \A i \in DOMAIN stored : stored[i] = i
    BY <1>1, <1>3 DEF IInv, TypeOK, Clean, Exact, RowlessStart, StoredIsPrefix,
       CursorCoversLog, MarkerCoversLog
  <2>2. /\ stored' = Append(stored, Len(stored) + 1)
        /\ bound = "yes" => cursor' = Len(stored) + 1
        /\ bound # "yes" => cursor' = 0
        /\ Len(stored') = Len(stored) + 1
    BY <1>1, <2>1, CommitFacts
  <2>3. StoredIsPrefix'
    BY <2>1, <2>2 DEF StoredIsPrefix
  <2> QED
    BY <1>1, <2>1, <2>2, <2>3 DEF Clean, Exact, CursorCoversLog, MarkerCoversLog, RowlessStart
<1>4. NothingLost'
  BY <1>1, CommitFacts
<1> QED BY <1>2, <1>3, <1>4 DEF IInv

\* A transaction that fails leaves log and row together, unless a commit's
\* acknowledgement is lost.
LEMMA PersistFailsIInv == ASSUME IInv, PersistFails PROVE IInv'
<1>1. /\ mode = "persist" /\ mode' = "ended"
      /\ UNCHANGED <<stored, cursor, clean>> \/ (CommitEnvelope /\ clean' = "no")
      /\ UNCHANGED <<hist, base, over, bound, gap, outcome, ordinal, pos, retries, crashes>>
  BY DEF PersistFails, runtimeVars
<1>2. stored' \in Seq(1 .. MaxEnvelopes) /\ cursor' \in 0 .. hist /\ clean' \in Flag
  BY <1>1, CommitFacts DEF IInv, TypeOK, Positions, Flag
<1>3. TypeOK' /\ Positions'
  BY <1>1, <1>2 DEF IInv, TypeOK, Positions, Mode
<1>4. Clean' => Exact'
  BY <1>1 DEF IInv, Clean, Exact, StoredIsPrefix, CursorCoversLog, MarkerCoversLog, RowlessStart
<1>5. NothingLost'
  BY <1>1, CommitFacts, ResumePointsKept
<1> QED BY <1>3, <1>4, <1>5 DEF IInv

\* A reconnect asks for what follows the marker, which is what follows the log.
LEMMA ResubscribeIInv == ASSUME IInv, Resubscribe PROVE IInv'
<1>1. /\ mode = "ended" /\ retries < MaxRetries /\ retries' = retries + 1
      /\ Subscribe(ordinal)
      /\ UNCHANGED <<hist, base, over, bound, stored, gap, outcome, ordinal, crashes, clean>>
  BY DEF Resubscribe, RetriesLeft, runtimeVars
<1>2. ordinal \in 0 .. hist
  BY DEF IInv, TypeOK, Positions
<1>3. /\ mode' \in {"rejected", "stream"} /\ pos' = ordinal /\ cursor' \in 0 .. hist
      /\ cursor' \in {cursor, ordinal}
      /\ ordinal = cursor \/ bound # "yes" => cursor' = cursor
  BY <1>1, <1>2, SubscribeFacts DEF IInv
<1>4. TypeOK' /\ Positions'
  BY <1>1, <1>2, <1>3, BoundsAssumption DEF IInv, TypeOK, Positions, Mode
<1>5. Clean' => Exact'
  BY <1>1, <1>3 DEF IInv, TypeOK, Flag, Clean, Exact, StoredIsPrefix, CursorCoversLog,
     MarkerCoversLog, RowlessStart
<1>6. NothingLost'
  BY <1>1, <1>3, ResumePointsKept
<1> QED BY <1>4, <1>5, <1>6 DEF IInv

\* One poll writes the marker's ordinal, which the stored one already has.
LEMMA PollIInv == ASSUME IInv, Poll PROVE IInv'
<1>1. /\ mode = "poll" /\ mode' \in {"done", "polled"} /\ outcome' \in {"completed", outcome}
      /\ cursor' = CursorAfter(ordinal)
      /\ UNCHANGED <<hist, base, over, bound, stored, gap, ordinal, pos, retries, crashes, clean>>
  BY DEF Poll, runtimeVars
<1>2. /\ cursor' \in 0 .. hist /\ cursor' \in {cursor, ordinal}
      /\ ordinal = cursor \/ bound # "yes" => cursor' = cursor
  <2>1. ordinal \in 0 .. hist
    BY DEF IInv, TypeOK, Positions
  <2> QED BY <1>1, <2>1, CursorFacts DEF IInv
<1>3. TypeOK' /\ Positions'
  BY <1>1, <1>2 DEF IInv, TypeOK, Positions, Mode
<1>4. Clean' => Exact'
  BY <1>1, <1>2 DEF IInv, TypeOK, Flag, Clean, Exact, StoredIsPrefix, CursorCoversLog,
     MarkerCoversLog, RowlessStart
<1>5. NothingLost'
  BY <1>1, <1>2, ResumePointsKept
<1> QED BY <1>3, <1>4, <1>5 DEF IInv

\* The steps of the loop that write neither log nor resume point.
LEMMA LoopIInv ==
  ASSUME IInv, StreamEnds \/ DegradeToPoll \/ RecordGap \/ PollAgain
  PROVE  IInv'
<1> DEFINE Quiet ==
      /\ mode \in {"stream", "ended", "rejected", "polled"}
      /\ mode' \in {"ended", "poll", "done"}
      /\ gap' \in {"yes", gap} /\ outcome' \in {"failed", outcome}
      /\ retries' \in {0, retries} \/ (retries < MaxRetries /\ retries' = retries + 1)
      /\ UNCHANGED <<hist, base, over, bound, stored, cursor, ordinal, pos, crashes, clean>>
<1>1. Quiet
  <2>1. CASE StreamEnds     BY <2>1 DEF StreamEnds, runtimeVars, dbVars
  <2>2. CASE DegradeToPoll  BY <2>2 DEF DegradeToPoll, runtimeVars, dbVars
  <2>3. CASE RecordGap      BY <2>3 DEF RecordGap, runtimeVars
  <2>4. CASE PollAgain      BY <2>4 DEF PollAgain, RetriesLeft, runtimeVars
  <2> QED BY <2>1, <2>2, <2>3, <2>4
<1>2. TypeOK' /\ Positions'
  BY <1>1, BoundsAssumption DEF IInv, TypeOK, Positions, Mode, Flag
<1>3. Clean' => Exact'
  BY <1>1 DEF IInv, Clean, Exact, StoredIsPrefix, CursorCoversLog, MarkerCoversLog, RowlessStart
<1>4. NothingLost'
  BY <1>1, ResumePointsKept
<1> QED BY <1>2, <1>3, <1>4 DEF IInv

\* A crash forgets the marker and an insert under way; log and row are as they
\* were.  Without a row the log is empty, or no longer clean.
LEMMA CrashIInv == ASSUME IInv, Crash PROVE IInv'
<1>1. /\ crashes < MaxCrashes /\ crashes' = crashes + 1
      /\ bound' \in {"yes", "no"} /\ (bound' = "yes" <=> bound = "yes")
      /\ clean' \in {"no", clean}
      /\ clean' = "yes" => bound = "yes" \/ stored = <<>>
      /\ mode' = "down" /\ ordinal' = 0 /\ pos' = 0 /\ retries' = 0
      /\ UNCHANGED <<hist, base, over, stored, cursor, gap, outcome>>
  BY DEF Crash, runtimeVars
<1>2. TypeOK' /\ Positions'
  BY <1>1, BoundsAssumption DEF IInv, TypeOK, Positions, Flag, Row, Mode
<1>3. Clean' => Exact'
  BY <1>1 DEF IInv, Clean, Exact, StoredIsPrefix, CursorCoversLog, MarkerCoversLog, RowlessStart
<1>4. NothingLost'
  BY <1>1, ResumePointsKept
<1> QED BY <1>2, <1>3, <1>4 DEF IInv

\* Every step keeps the invariant.
LEMMA NextIInv == IInv /\ [Next]_vars => IInv'
<1> SUFFICES ASSUME IInv, [Next]_vars PROVE IInv'
  OBVIOUS
<1>1. CASE UNCHANGED vars
  BY <1>1 DEF IInv, TypeOK, Positions, NothingLost, Clean, Exact, StoredIsPrefix,
     CursorCoversLog, MarkerCoversLog, RowlessStart, vars
<1>2. CASE Next
  BY <1>2, RuntimeIInv, BindIInv, InsertIInv, AttachIInv, DeliverIInv, PersistIInv, PersistFailsIInv,
     ResubscribeIInv, PollIInv, LoopIInv, CrashIInv DEF Next, Loop
<1> QED BY <1>1, <1>2

\* The inductive invariant holds throughout.
THEOREM Invariance == Spec => []IInv
  BY InitIInv, NextIInv, PTL DEF Spec

\* The loop's state is well typed for every bound and every switch: no resume
\* point, read position or retry count leaves its range.
THEOREM TypeCorrect == Spec => []TypeOK
<1>1. IInv => TypeOK  BY DEF IInv
<1> QED BY <1>1, Invariance, PTL

\* At least once, with no condition: every envelope below the points from which
\* reconnects and restarts resume is in the log, for any number of envelopes,
\* disconnects, failed or unacknowledged transactions and crashes.
THEOREM AtLeastOnce == Spec => []NothingLost
<1>1. IInv => NothingLost  BY DEF IInv
<1> QED BY <1>1, Invariance, PTL

\* Exactly once: the event log is a prefix of the session, for any number of
\* envelopes, disconnects, failed transactions, compactions, failed binds and
\* restarts, until a commit's acknowledgement is lost, or the log of a run without
\* its runtime_sessions row holds envelopes when the process stops or the row
\* comes late.
THEOREM ExactlyOnce == Spec => []StoredIsPrefix
<1>1. IInv => StoredIsPrefix  BY DEF IInv, Clean, Exact, StoredIsPrefix
<1> QED BY <1>1, Invariance, PTL

\* Until then the stored resume point, where there is a row, is the length of the
\* log, so a restart asks the runtime for exactly the next envelope.
THEOREM ResumePointIsExact == Spec => []CursorCoversLog
<1>1. IInv => CursorCoversLog  BY DEF IInv, Clean, Exact, CursorCoversLog
<1> QED BY <1>1, Invariance, PTL

\* Until then the marker of a live loop is the length of the log too, also of a loop
\* that runs without a row, so a reconnect asks for exactly the next envelope.
THEOREM MarkerIsExact == Spec => []MarkerCoversLog
<1>1. IInv => MarkerCoversLog  BY DEF IInv, Clean, Exact, MarkerCoversLog
<1> QED BY <1>1, Invariance, PTL
===============================================================================
