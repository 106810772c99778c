---------------------------- MODULE InstanceLocks -----------------------------
(***************************************************************************)
(* Several instances of the control plane on one database: the advisory    *)
(* locks that are to keep them apart, the recovery sweep each instance     *)
(* makes when it starts, and the retention sweep.  An advisory lock        *)
(* belongs to the database session that took it.  Every query goes through *)
(* the pool, so the lock and the unlock may use different sessions, and    *)
(* the pool closes sessions that are idle.                                 *)
(***************************************************************************)
EXTENDS Integers, FiniteSets

CONSTANTS
  Instances,
  Conns,      \* the sessions of each instance's pool
  Runs,
  BatchSize   \* DATA_RETENTION_BATCH_SIZE

Retention == "data-retention-lock"
Keys == Runs \cup {Retention}
Free == [owner |-> {}, held |-> 0]

VARIABLES
  lock,       \* pg_locks: the session that holds each key, if any, and how often
  status,     \* each run: "active", "stale" (terminal, past the cutoff) or "deleted"
  sweep,      \* recoverActiveRuns of each instance: the runs left, the one in hand
  consumers,  \* <<i, r>>: instance i consumes the stream of run r
  purge       \* runRetention of each instance: "idle", "purging", and the ids selected

vars == <<lock, status, sweep, consumers, purge>>

NoRun == "none"

Init ==
  /\ lock = [k \in Keys |-> Free]
  /\ status \in [Runs -> {"active", "stale"}]
  /\ sweep = [i \in Instances |-> [at |-> "boot", left |-> {}, run |-> NoRun]]
  /\ consumers = {}
  /\ purge = [i \in Instances |-> [at |-> "idle", ids |-> {}]]

-------------------------------------------------------------------------------
\* tryAdvisoryLock on session c of instance i; a session may take it again.
TryLock(i, c, k) ==
  /\ lock[k].owner \subseteq {<<i, c>>}
  /\ lock' = [lock EXCEPT ![k] = [owner |-> {<<i, c>>}, held |-> @.held + 1]]

\* Postgres refuses, and the caller skips.
Locked(i, c, k) == ~(lock[k].owner \subseteq {<<i, c>>})

\* advisoryUnlock: from another session it only earns a warning.
Unlock(i, c, k) ==
  lock' = IF lock[k].owner # {<<i, c>>} THEN lock
          ELSE [lock EXCEPT ![k] = IF @.held = 1 THEN Free ELSE [@ EXCEPT !.held = @ - 1]]

\* The pool closes an idle session, and its locks go with it.
CloseIdle(i, c) ==
  /\ lock' = [k \in Keys |-> IF lock[k].owner = {<<i, c>>} THEN Free ELSE lock[k]]
  /\ UNCHANGED <<status, sweep, consumers, purge>>

-------------------------------------------------------------------------------
\* onApplicationBootstrap lists the active runs once.
ListActive(i) ==
  /\ sweep[i].at = "boot"
  /\ sweep' = [sweep EXCEPT ![i] = [at |-> "next", left |-> {r \in Runs : status[r] = "active"}, run |-> NoRun]]
  /\ UNCHANGED <<lock, status, consumers, purge>>

Claim(i, c, r) ==
  /\ sweep[i].at = "next" /\ r \in sweep[i].left
  /\ TryLock(i, c, r)
  /\ sweep' = [sweep EXCEPT ![i] = [at |-> "recovering", left |-> @.left \ {r}, run |-> r]]
  /\ UNCHANGED <<status, consumers, purge>>

Skip(i, c, r) ==
  /\ sweep[i].at = "next" /\ r \in sweep[i].left
  /\ Locked(i, c, r)
  /\ sweep' = [sweep EXCEPT ![i].left = @ \ {r}]
  /\ UNCHANGED <<lock, status, consumers, purge>>

\* recoverRun starts a consumer, which lives on, and the lock is given back.
Recover(i, c) ==
  /\ sweep[i].at = "recovering"
  /\ consumers' = consumers \cup {<<i, sweep[i].run>>}
  /\ Unlock(i, c, sweep[i].run)
  /\ sweep' = [sweep EXCEPT ![i].at = "next", ![i].run = NoRun]
  /\ UNCHANGED <<status, purge>>

\* A run ends, and is stale once the cutoff has passed it.
EndRun(r) ==
  /\ status[r] = "active"
  /\ status' = [status EXCEPT ![r] = "stale"]
  /\ consumers' = {x \in consumers : x[2] # r}
  /\ UNCHANGED <<lock, sweep, purge>>

-------------------------------------------------------------------------------
StartRetention(i, c) ==
  /\ purge[i].at = "idle"
  /\ TryLock(i, c, Retention)
  /\ purge' = [purge EXCEPT ![i].at = "purging"]
  /\ UNCHANGED <<status, sweep, consumers>>

\* purgeTerminalRuns selects a batch ...
Select(i) ==
  /\ purge[i].at = "purging" /\ purge[i].ids = {}
  /\ \E ids \in SUBSET {r \in Runs : status[r] = "stale"} :
       /\ ids # {} /\ Cardinality(ids) <= BatchSize
       /\ purge' = [purge EXCEPT ![i].ids = ids]
  /\ UNCHANGED <<lock, status, sweep, consumers>>

\* ... and deletes it by id.
Delete(i) ==
  /\ purge[i].at = "purging" /\ purge[i].ids # {}
  /\ status' = [r \in Runs |-> IF r \in purge[i].ids THEN "deleted" ELSE status[r]]
  /\ purge' = [purge EXCEPT ![i].ids = {}]
  /\ UNCHANGED <<lock, sweep, consumers>>

\* Nothing is left, or an error was logged.
EndRetention(i, c) ==
  /\ purge[i].at = "purging"
  /\ Unlock(i, c, Retention)
  /\ purge' = [purge EXCEPT ![i] = [at |-> "idle", ids |-> {}]]
  /\ UNCHANGED <<status, sweep, consumers>>

Next ==
  \/ \E i \in Instances :
       \/ ListActive(i) \/ Select(i) \/ Delete(i)
       \/ \E c \in Conns :
            \/ CloseIdle(i, c) \/ Recover(i, c) \/ StartRetention(i, c) \/ EndRetention(i, c)
            \/ \E r \in Runs : Claim(i, c, r) \/ Skip(i, c, r)
  \/ \E r \in Runs : EndRun(r)

Spec == Init /\ [][Next]_vars

-------------------------------------------------------------------------------
\* Comment in recoverActiveRuns: "Distributed lock: prevent multiple CP instances
\* from recovering the same run".
RecoveredByOne ==
  \A r \in Runs : Cardinality({i \in Instances : <<i, r>> \in consumers}) <= 1

\* API.md:1096: "only one instance runs retention at a time".
OneRetention == Cardinality({i \in Instances : purge[i].at = "purging"}) <= 1
===============================================================================
