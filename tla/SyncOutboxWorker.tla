--------------------------- MODULE SyncOutboxWorker ---------------------------
(***************************************************************************)
(* The sync outbox of one device and the worker that drains it.            *)
(*                                                                         *)
(* Every local mutation commits the changed entity and a sync_outbox row   *)
(* in one SQLite transaction.  A single-flight worker, started by a 2 s    *)
(* timer, by the user's retry commands and at startup, claims due rows one *)
(* after the other and hands each one to the Supabase transport.  The      *)
(* transport awaits a session token, then reads the CURRENT local state of *)
(* the entity, then sends it; other callbacks of the process run during    *)
(* each of these awaits, and the process may die in any of them.           *)
(*                                                                         *)
(* Times are relative, in minutes: wait[r] is next_retry_at minus now,     *)
(* age[r] is now minus updated_at of a processing row.                     *)
(***************************************************************************)
EXTENDS Integers, Sequences, FiniteSets

CONSTANTS
    Rows,             \* ids of sync_outbox rows
    Entities,         \* local entities the rows speak of
    EntityOf,         \* EntityOf[r]: the entity of row r (entity_type, entity_id)
    StableRows,       \* ids derived from the entity alone: enqueued again with
                      \*   INSERT OR REPLACE (notifications, todos, reminders)
    NoRow,            \* no row is in flight
    BatchSize,        \* LIMIT of the due-row query
    StaleMinutes,     \* age at which a processing row counts as interrupted
    MaxRetryMinutes,  \* ceiling of the retry delay
    MaxAttempts,      \* attempt_count saturates here, where the delay is at its ceiling
    MaxEdits,         \* bound: local mutations of one entity
    MaxCrashes,       \* bound: crashes of the process
    MaxRetries,       \* bound: retry commands of the user
    Unsendable,       \* rows the cloud never accepts
    FailureKinds      \* can a failure's message match recoverableRemoteErrorPattern?

ASSUME RowsAssumption ==
    /\ IsFiniteSet(Rows)
    /\ NoRow \notin Rows
    /\ StableRows \subseteq Rows
    /\ Unsendable \subseteq Rows
    /\ EntityOf \in [Rows -> Entities]
ASSUME TimingAssumption ==
    /\ BatchSize \in Nat \ {0}
    /\ StaleMinutes \in Nat \ {0}
    /\ MaxRetryMinutes \in Nat \ {0}
    /\ MaxAttempts \in Nat \ {0}
    /\ FailureKinds \subseteq BOOLEAN
ASSUME BoundAssumption == MaxEdits \in Nat /\ MaxCrashes \in Nat /\ MaxRetries \in Nat

VARIABLES
    \* sync_outbox, one function per column
    status,       \* "none" before the row exists, "dropped" after its deletion
    attempt,      \* attempt_count, saturating
    wait,         \* minutes until next_retry_at, 0 when null or past
    recoverable,  \* last_error matches the recoverable patterns
    age,          \* minutes since updated_at, kept for processing rows only
    created,      \* created_at, as a rank
    version,      \* the mutation of its entity that enqueued the row
    \* the two copies of the data
    local,        \* number of committed local mutations of each entity
    delivered,    \* newest mutation of each entity the cloud has stored
    \* the worker
    up,           \* the process is running
    current,      \* claimedRow of the running pass; isRunning is current # NoRow
    queue,        \* dueRows not yet visited by the for loop
    passAge,      \* minutes since startedAt
    phase,        \* await the transport is in
    captured,     \* the mutation whose state the transport has read
    enqueues,     \* outbox inserts so far: the clock of created_at
    crashes,
    retries       \* retry commands of the user so far

boundVars == <<crashes, retries>>
rowVars == <<status, attempt, wait, recoverable, age, created, version, enqueues>>
dataVars == <<local, delivered>>
workerVars == <<current, queue, passAge, phase, captured>>
vars == <<rowVars, dataVars, up, workerVars, boundVars>>

Active == {"pending", "processing", "failed"}
Claimable == {"pending", "failed"}
RowStatus == Active \cup {"none", "sent", "dropped"}

Init ==
    /\ status = [r \in Rows |-> "none"]
    /\ attempt = [r \in Rows |-> 0]
    /\ wait = [r \in Rows |-> 0]
    /\ recoverable = [r \in Rows |-> FALSE]
    /\ age = [r \in Rows |-> 0]
    /\ created = [r \in Rows |-> 0]
    /\ version = [r \in Rows |-> 0]
    /\ local = [e \in Entities |-> 0]
    /\ delivered = [e \in Entities |-> 0]
    /\ up = TRUE
    /\ current = NoRow
    /\ queue = <<>>
    /\ passAge = 0
    /\ phase = "idle"
    /\ captured = 0
    /\ enqueues = 0
    /\ crashes = 0
    /\ retries = 0

-------------------------------------------------------------------------------
(* Local mutations                                                         *)

\* A command commits a mutation and its outbox row.  A fresh id is inserted
\* once; a stable id replaces whatever row holds it, in flight or not.
Enqueue(r) ==
    LET e == EntityOf[r] IN
    /\ up
    /\ status[r] = "none" \/ r \in StableRows
    /\ local[e] < MaxEdits
    /\ local' = [local EXCEPT ![e] = @ + 1]
    /\ version' = [version EXCEPT ![r] = local[e] + 1]
    /\ status' = [status EXCEPT ![r] = "pending"]
    /\ attempt' = [attempt EXCEPT ![r] = 0]
    /\ wait' = [wait EXCEPT ![r] = 0]
    /\ recoverable' = [recoverable EXCEPT ![r] = FALSE]
    /\ age' = [age EXCEPT ![r] = 0]
    /\ enqueues' = enqueues + 1
    /\ created' = [created EXCEPT ![r] = enqueues + 1]
    /\ UNCHANGED <<delivered, up, workerVars, boundVars>>

\* Choosing the cloud version of a conflict deletes the entity's unsent rows,
\* the one in flight included.
DeletePendingOutbox(e) ==
    LET doomed == {r \in Rows : EntityOf[r] = e /\ status[r] \in Active} IN
    /\ up
    /\ doomed # {}
    /\ status' = [r \in Rows |-> IF r \in doomed THEN "dropped" ELSE status[r]]
    /\ wait' = [r \in Rows |-> IF r \in doomed THEN 0 ELSE wait[r]]
    /\ age' = [r \in Rows |-> IF r \in doomed THEN 0 ELSE age[r]]
    /\ UNCHANGED <<attempt, recoverable, created, version, enqueues,
                   dataVars, up, workerVars, boundVars>>

-------------------------------------------------------------------------------
(* One pass of the worker                                                  *)

\* The sequences the due-row query may return: the oldest BatchSize due rows
\* by created_at.
DueBatches(due) ==
    LET n == IF Cardinality(due) < BatchSize THEN Cardinality(due) ELSE BatchSize IN
    {q \in [1..n -> due] :
        /\ \A i, j \in 1..n : i < j => created[q[i]] < created[q[j]]
        /\ \A r \in due : (\E i \in 1..n : q[i] = r)
                           \/ (\A i \in 1..n : created[q[i]] < created[r])}

\* The for loop runs on without an await until it has claimed a row: rows that
\* are no longer pending or failed are skipped.  st is the status column it
\* sees, q the rows it has not visited, a the minutes since startedAt.
ClaimNext(st, q, a) ==
    /\ captured' = 0
    /\ \/ /\ \A i \in DOMAIN q : st[q[i]] \notin Claimable
          /\ status' = st
          /\ current' = NoRow
          /\ queue' = <<>>
          /\ phase' = "idle"
          /\ passAge' = 0
          /\ age' = [r \in Rows |-> IF st[r] = "processing" THEN age[r] ELSE 0]
          /\ UNCHANGED attempt
       \/ \E k \in DOMAIN q :
            /\ st[q[k]] \in Claimable
            /\ \A i \in 1..(k - 1) : st[q[i]] \notin Claimable
            /\ status' = [st EXCEPT ![q[k]] = "processing"]
            /\ attempt' = [attempt EXCEPT ![q[k]] = IF @ < MaxAttempts THEN @ + 1 ELSE @]
            /\ age' = [r \in Rows |-> IF r = q[k] THEN a
                                      ELSE IF st[r] = "processing" THEN age[r] ELSE 0]
            /\ current' = q[k]
            /\ queue' = SubSeq(q, k + 1, Len(q))
            /\ phase' = "token"
            /\ passAge' = a

\* runDueEntries up to its first await, from the columns st, w and rec: first
\* both recoveries, then the query, then the first claim.
NeverStale(st) == {}
Stale(st) == {r \in Rows : st[r] = "processing" /\ age[r] > StaleMinutes}
Recovered(st) == [r \in Rows |-> IF r \in Stale(st) THEN "failed" ELSE st[r]]
WaitAfterRecovery(st, w, rec) ==
    [r \in Rows |-> IF r \in Stale(st) \/ (st[r] = "failed" /\ rec[r]) THEN 0 ELSE w[r]]
DueRows(st, w, rec) ==
    {r \in Rows : /\ Recovered(st)[r] \in Claimable
                  /\ WaitAfterRecovery(st, w, rec)[r] = 0}

StartPass(st, w, rec) ==
    \E q \in DueBatches(DueRows(st, w, rec)) :
        /\ ClaimNext(Recovered(st), q, 0)
        /\ wait' = WaitAfterRecovery(st, w, rec)
        /\ recoverable' = rec

\* The timer's tick: a pass already running makes it return at once.
RunDueEntries ==
    /\ up
    /\ current = NoRow
    /\ StartPass(status, wait, recoverable)
    /\ UNCHANGED <<created, version, enqueues, dataVars, up, boundVars>>

\* retryRow and retryAllFailedRows make rows pending, in flight or not, and then
\* call runDueEntries, which returns at once when a pass is running.
MakePending(R) ==
    LET st == [r \in Rows |-> IF r \in R THEN "pending" ELSE status[r]]
        w == [r \in Rows |-> IF r \in R THEN 0 ELSE wait[r]]
        rec == [r \in Rows |-> recoverable[r] /\ r \notin R]
    IN
    /\ \/ /\ current = NoRow
          /\ StartPass(st, w, rec)
       \/ /\ current # NoRow
          /\ status' = st
          /\ wait' = w
          /\ recoverable' = rec
          /\ age' = [r \in Rows |-> IF r \in R THEN 0 ELSE age[r]]
          /\ UNCHANGED <<attempt, workerVars>>
    /\ retries < MaxRetries
    /\ retries' = retries + 1
    /\ UNCHANGED <<created, version, enqueues, dataVars, up, crashes>>

RetryWhateverStatus(r) ==
    /\ up
    /\ status[r] # "none"
    /\ MakePending({r})
RetrySyncOutboxRow(r) ==
    /\ up
    /\ status[r] \in {"failed", "processing"}
    /\ MakePending({r})

RetryAllFailedSyncOutboxRows ==
    /\ up
    /\ MakePending({r \in Rows : status[r] = "failed"})

-------------------------------------------------------------------------------
(* The transport of the claimed row                                        *)

ResolveDelivered ==
    /\ phase = "token"
    /\ phase' = "request"
    /\ captured' = delivered[EntityOf[current]]
    /\ UNCHANGED <<rowVars, dataVars, up, current, queue, passAge, boundVars>>

\* The session token has arrived: the resolvers read the entity as it is now.
ResolveSnapshot ==
    /\ phase = "token"
    /\ phase' = "request"
    /\ captured' = local[EntityOf[current]]
    /\ UNCHANGED <<rowVars, dataVars, up, current, queue, passAge, boundVars>>

\* The cloud stores what was read.
ServerStores ==
    LET e == EntityOf[current] IN
    /\ phase = "request"
    /\ current \notin Unsendable
    /\ phase' = "stored"
    /\ delivered' = [delivered EXCEPT ![e] = IF captured > @ THEN captured ELSE @]
    /\ UNCHANGED <<rowVars, local, up, current, queue, passAge, captured, boundVars>>

MarkSentUnawaited ==
    /\ phase \in {"request", "stored"}
    /\ LET st == [status EXCEPT ![current] = IF @ = "dropped" THEN @ ELSE "sent"] IN
       ClaimNext(st, queue, passAge)
    /\ wait' = [wait EXCEPT ![current] = 0]
    /\ recoverable' = [recoverable EXCEPT ![current] = FALSE]
    /\ UNCHANGED <<created, version, enqueues, dataVars, up, boundVars>>

\* The transport has returned: the row becomes sent, whatever its status is by
\* now, unless it was deleted, and the loop moves on.
MarkSent ==
    /\ phase = "stored"
    /\ LET st == [status EXCEPT ![current] = IF @ = "dropped" THEN @ ELSE "sent"] IN
       ClaimNext(st, queue, passAge)
    /\ wait' = [wait EXCEPT ![current] = 0]
    /\ recoverable' = [recoverable EXCEPT ![current] = FALSE]
    /\ UNCHANGED <<created, version, enqueues, dataVars, up, boundVars>>

UncappedRetryDelay(n) == 2^n
ResolveRetryDelay(n) ==
    IF n <= 1 THEN 1
    ELSE IF 2^(n - 1) \in 1..MaxRetryMinutes THEN 2^(n - 1) ELSE MaxRetryMinutes

\* The transport has thrown, before or after the cloud stored anything.
MarkFailed ==
    /\ phase \in {"token", "request", "stored"}
    /\ \E kind \in FailureKinds :
         /\ wait' = [wait EXCEPT ![current] =
                        IF status[current] = "dropped" THEN @
                        ELSE IF kind THEN 1 ELSE ResolveRetryDelay(attempt[current])]
         /\ recoverable' = [recoverable EXCEPT ![current] =
                        IF status[current] = "dropped" THEN @ ELSE kind]
    /\ LET st == [status EXCEPT ![current] = IF @ = "dropped" THEN @ ELSE "failed"] IN
       ClaimNext(st, queue, passAge)
    /\ UNCHANGED <<created, version, enqueues, dataVars, up, boundVars>>

-------------------------------------------------------------------------------
(* Time, crash and restart                                                 *)

\* A minute passes.  The timer ticks thirty times a minute, so a running process
\* with nothing in flight has no row left that is due.
Elapse ==
    /\ ~up \/ current # NoRow \/ DueRows(status, wait, recoverable) = {}
    /\ wait' = [r \in Rows |-> IF wait[r] > 0 THEN wait[r] - 1 ELSE 0]
    /\ age' = [r \in Rows |-> IF status[r] = "processing" /\ age[r] <= StaleMinutes
                              THEN age[r] + 1 ELSE age[r]]
    /\ passAge' = IF current # NoRow /\ passAge <= StaleMinutes THEN passAge + 1 ELSE passAge
    /\ UNCHANGED <<status, attempt, recoverable, created, version, enqueues,
                   dataVars, up, current, queue, phase, captured, boundVars>>

\* The process dies; the row in flight stays in processing.
Crash ==
    /\ up
    /\ crashes < MaxCrashes
    /\ crashes' = crashes + 1
    /\ up' = FALSE
    /\ current' = NoRow
    /\ queue' = <<>>
    /\ passAge' = 0
    /\ phase' = "idle"
    /\ captured' = 0
    /\ UNCHANGED <<rowVars, dataVars, retries>>

\* Startup runs a pass.
Restart ==
    /\ ~up
    /\ up' = TRUE
    /\ StartPass(status, wait, recoverable)
    /\ UNCHANGED <<created, version, enqueues, dataVars, boundVars>>

Next ==
    \/ \E r \in Rows : Enqueue(r) \/ RetrySyncOutboxRow(r)
    \/ \E e \in Entities : DeletePendingOutbox(e)
    \/ RetryAllFailedSyncOutboxRows
    \/ RunDueEntries
    \/ ResolveSnapshot
    \/ ServerStores
    \/ MarkSent
    \/ MarkFailed
    \/ Elapse
    \/ Crash
    \/ Restart

Spec == Init /\ [][Next]_vars

-------------------------------------------------------------------------------
(* Properties                                                              *)

\* Every column, copy and local of the worker has its type.
TypeOK ==
    /\ status \in [Rows -> RowStatus]
    /\ attempt \in [Rows -> 0..MaxAttempts]
    /\ wait \in [Rows -> 0..MaxRetryMinutes]
    /\ recoverable \in [Rows -> BOOLEAN]
    /\ age \in [Rows -> Nat]
    /\ created \in [Rows -> Nat]
    /\ version \in [Rows -> Nat]
    /\ enqueues \in Nat
    /\ local \in [Entities -> Nat]
    /\ delivered \in [Entities -> Nat]
    /\ up \in BOOLEAN
    /\ current \in Rows \cup {NoRow}
    /\ queue \in Seq(Rows)
    /\ passAge \in Nat
    /\ phase \in {"idle", "token", "request", "stored"}
    /\ (phase = "idle") <=> (current = NoRow)
    /\ captured \in Nat
    /\ crashes \in Nat
    /\ retries \in Nat

\* A row with an id of its own is marked sent only when the cloud holds the
\* mutation it was enqueued for, or a newer one of the same entity: whatever the
\* retries, the crashes, the deletions and the edits made during the awaits.
SentImpliesDelivered ==
    \A r \in Rows \ StableRows :
        status[r] = "sent" => version[r] <= delivered[EntityOf[r]]

\* What a row, the transport and the cloud know of one entity stays in order:
\* the cloud is never ahead of the device; the snapshot in flight is no older
\* than the mutation that queued its row; and while the transport holds a row no
\* retry, recovery, deletion or edit turns it into one that is failed or sent.
VersionsInOrder ==
    /\ \A r \in Rows : version[r] <= local[EntityOf[r]]
    /\ \A e \in Entities : delivered[e] <= local[e]
    /\ current # NoRow => status[current] \in {"pending", "processing", "dropped"}
    /\ phase \in {"request", "stored"} =>
         /\ captured <= local[EntityOf[current]]
         /\ current \notin StableRows => version[current] <= captured
    /\ phase = "stored" => captured <= delivered[EntityOf[current]]

\* The inductive invariant behind SentImpliesDelivered.
IInv == TypeOK /\ VersionsInOrder /\ SentImpliesDelivered

\* A row that was sent is not processed again.
SentIsFinal ==
    [][\A r \in Rows \ StableRows : status[r] = "sent" => status'[r] = "sent"]_vars

\* The rows under their own ids, seen as OutboxDelivery's mutations.
Mutations == Rows \ StableRows
Submitted == {r \in Mutations : status[r] # "none"}
Stored == {r \in Submitted : version[r] <= delivered[EntityOf[r]]}
Acknowledged == {r \in Submitted : status[r] = "sent"}
Withdrawn == {r \in Submitted : status[r] = "dropped"}
Delivery ==
    INSTANCE OutboxDelivery WITH
        submitted <- Submitted,
        stored <- Stored,
        acknowledged <- Acknowledged,
        withdrawn <- Withdrawn

\* The worker implements the abstract outbox.
ImplementsDelivery == Delivery!Spec

-------------------------------------------------------------------------------
(* Fairness: the timer keeps ticking, time passes, a dead process is started *)
(* again, every await of the transport ends, and a row the cloud accepts is  *)
(* not refused or disconnected for ever at the same await.                   *)
Settles == ResolveSnapshot \/ ServerStores \/ MarkSent \/ MarkFailed

FairSpec ==
    /\ Spec
    /\ WF_vars(RunDueEntries)
    /\ SF_vars(Elapse)
    /\ WF_vars(Restart)
    /\ WF_vars(Settles)
    /\ \A r \in Rows :
        /\ SF_vars(current = r /\ ResolveSnapshot)
        /\ SF_vars(current = r /\ ServerStores)
        /\ SF_vars(current = r /\ MarkSent)

\* Every row the cloud accepts leaves the queue: interrupted, failing, retried
\* or behind others, it is eventually sent or withdrawn.
EveryRowSettles ==
    \A r \in Rows \ Unsendable :
        status[r] \in Active ~> status[r] \in {"sent", "dropped"}
===============================================================================
