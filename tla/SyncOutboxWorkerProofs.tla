------------------------ MODULE SyncOutboxWorkerProofs ------------------------
(***************************************************************************)
(* Proofs about SyncOutboxWorker, for any rows, entities, batch size, delay *)
(* ceiling and bounds: its types, that a row marked sent has reached the    *)
(* cloud, that it stays sent, and that the worker implements                *)
(* OutboxDelivery.                                                          *)
(*                                                                          *)
(* Every step of a pass ends in ClaimNext, so its effect is stated once, in *)
(* ClaimNextFacts, from the status column st it starts from; StartPassFacts *)
(* does the same for the beginning of a pass.  A step then only has to say  *)
(* what st is.                                                              *)
(***************************************************************************)
EXTENDS SyncOutboxWorker, FiniteSetTheorems, SequenceTheorems, TLAPS

\* st differs from the status column only by rows that were and are unsent.
SameOutcome(before, after) ==
    \A r \in Rows : after[r] = before[r] \/ (before[r] \in Active /\ after[r] \in Active)

\* The part of the state that ClaimNext assigns has its type, and is what it is
\* at the transport's first await or between two passes.
ClaimedState ==
    /\ status' \in [Rows -> RowStatus]
    /\ attempt' \in [Rows -> 0..MaxAttempts]
    /\ age' \in [Rows -> Nat]
    /\ current' \in Rows \cup {NoRow}
    /\ queue' \in Seq(Rows)
    /\ passAge' \in Nat
    /\ phase' \in {"idle", "token"}
    /\ (phase' = "idle") <=> (current' = NoRow)
    /\ captured' = 0
    /\ current' # NoRow => status'[current'] = "processing"

\* The delay before a retry is between one minute and the ceiling.
LEMMA RetryDelayBounds ==
    ASSUME NEW n
    PROVE  ResolveRetryDelay(n) \in 1..MaxRetryMinutes
  <1>1. 1 \in 1..MaxRetryMinutes /\ MaxRetryMinutes \in 1..MaxRetryMinutes
    BY TimingAssumption
  <1> QED
    BY <1>1, Zenon DEF ResolveRetryDelay

\* Visiting the rest of the batch changes no row but one, from pending or failed
\* to processing, and leaves the worker at a claimed row or idle.
LEMMA ClaimNextFacts ==
    ASSUME NEW st \in [Rows -> RowStatus], NEW q \in Seq(Rows), NEW a \in Nat,
           attempt \in [Rows -> 0..MaxAttempts], age \in [Rows -> Nat],
           ClaimNext(st, q, a)
    PROVE  ClaimedState /\ SameOutcome(st, status')
  <1> USE RowsAssumption, TimingAssumption
  <1>1. CASE \A i \in DOMAIN q : st[q[i]] \notin Claimable
    <2>1. /\ status' = st /\ current' = NoRow /\ queue' = <<>> /\ phase' = "idle"
          /\ passAge' = 0 /\ captured' = 0 /\ attempt' = attempt
          /\ age' = [r \in Rows |-> IF st[r] = "processing" THEN age[r] ELSE 0]
      BY <1>1 DEF ClaimNext
    <2> QED
      BY <2>1 DEF ClaimedState, SameOutcome
  <1>2. CASE \E i \in DOMAIN q : st[q[i]] \in Claimable
    <2>1. PICK k \in DOMAIN q :
            /\ st[q[k]] \in Claimable
            /\ status' = [st EXCEPT ![q[k]] = "processing"]
            /\ attempt' = [attempt EXCEPT ![q[k]] = IF @ < MaxAttempts THEN @ + 1 ELSE @]
            /\ age' = [r \in Rows |-> IF r = q[k] THEN a
                                      ELSE IF st[r] = "processing" THEN age[r] ELSE 0]
            /\ current' = q[k]
            /\ queue' = SubSeq(q, k + 1, Len(q))
            /\ phase' = "token"
            /\ passAge' = a
            /\ captured' = 0
      BY <1>2 DEF ClaimNext
    <2>2. q[k] \in Rows /\ k \in 1..Len(q) /\ Len(q) \in Nat
      OBVIOUS
    <2>3. queue' \in Seq(Rows)
      BY <2>1, <2>2, SubSeqProperties
    <2>4. attempt' \in [Rows -> 0..MaxAttempts]
      BY <2>1, <2>2
    <2>5. age' \in [Rows -> Nat]
      BY <2>1
    <2>6. status' \in [Rows -> RowStatus] /\ status'[q[k]] = "processing"
      BY <2>1, <2>2 DEF RowStatus, Active
    <2>7. SameOutcome(st, status')
      BY <2>1, <2>2 DEF SameOutcome, Active, Claimable
    <2> QED
      BY <2>1, <2>2, <2>3, <2>4, <2>5, <2>6, <2>7 DEF ClaimedState
  <1> QED
    BY <1>1, <1>2

\* A batch of the due-row query is a sequence of rows.
LEMMA DueBatchIsSequence ==
    ASSUME NEW due \in SUBSET Rows, NEW q \in DueBatches(due)
    PROVE  q \in Seq(Rows)
  <1>1. Cardinality(due) \in Nat
    BY RowsAssumption, FS_Subset, FS_CardinalityType
  <1>2. PICK n \in Nat : q \in [1..n -> due]
    BY <1>1, TimingAssumption DEF DueBatches
  <1> QED
    BY <1>2

\* Both recoveries, the query and the first claim.
LEMMA StartPassFacts ==
    ASSUME NEW st \in [Rows -> RowStatus], NEW w \in [Rows -> 0..MaxRetryMinutes],
           NEW rec \in [Rows -> BOOLEAN],
           attempt \in [Rows -> 0..MaxAttempts], age \in [Rows -> Nat],
           StartPass(st, w, rec)
    PROVE  /\ ClaimedState
           /\ SameOutcome(st, status')
           /\ wait' \in [Rows -> 0..MaxRetryMinutes]
           /\ recoverable' \in [Rows -> BOOLEAN]
  <1>1. PICK q \in DueBatches(DueRows(st, w, rec)) :
          /\ ClaimNext(Recovered(st), q, 0)
          /\ wait' = WaitAfterRecovery(st, w, rec)
          /\ recoverable' = rec
    BY DEF StartPass
  <1>2. q \in Seq(Rows)
    BY <1>1, DueBatchIsSequence DEF DueRows
  <1>3. Recovered(st) \in [Rows -> RowStatus]
    BY DEF Recovered, RowStatus, Active
  <1>4. SameOutcome(st, Recovered(st))
    BY DEF SameOutcome, Recovered, Stale, Active
  <1>5. ClaimedState /\ SameOutcome(Recovered(st), status')
    BY <1>1, <1>2, <1>3, ClaimNextFacts
  <1>6. wait' \in [Rows -> 0..MaxRetryMinutes]
    BY <1>1, TimingAssumption DEF WaitAfterRecovery
  <1> QED
    BY <1>1, <1>4, <1>5, <1>6 DEF SameOutcome

-------------------------------------------------------------------------------
(* The inductive invariant                                                 *)

\* A step that ends in ClaimNext keeps the versions in order.
LEMMA ClaimKeepsOrder ==
    ASSUME VersionsInOrder, ClaimedState, UNCHANGED <<version, local, delivered>>
    PROVE  VersionsInOrder'
  BY DEF VersionsInOrder, ClaimedState

\* A step that only moves unsent rows keeps what is known of the sent ones.
LEMMA UnsentKeepsSent ==
    ASSUME SentImpliesDelivered, SameOutcome(status, status'), UNCHANGED <<version, delivered>>
    PROVE  SentImpliesDelivered'
  BY DEF SentImpliesDelivered, SameOutcome, Active

\* MakePending(R), for unsent rows R, moves unsent rows only.
LEMMA MakePendingFacts ==
    ASSUME IInv, NEW R \in SUBSET Rows, \A r \in R : status[r] \in Active, MakePending(R)
    PROVE  /\ TypeOK' /\ VersionsInOrder' /\ SameOutcome(status, status')
           /\ UNCHANGED <<version, local, delivered>>
  <1> DEFINE st == [r \in Rows |-> IF r \in R THEN "pending" ELSE status[r]]
             w == [r \in Rows |-> IF r \in R THEN 0 ELSE wait[r]]
             rec == [r \in Rows |-> recoverable[r] /\ r \notin R]
  <1>1. /\ status \in [Rows -> RowStatus] /\ attempt \in [Rows -> 0..MaxAttempts]
        /\ wait \in [Rows -> 0..MaxRetryMinutes] /\ recoverable \in [Rows -> BOOLEAN]
        /\ age \in [Rows -> Nat]
    BY DEF IInv, TypeOK
  <1>2. st \in [Rows -> RowStatus] /\ SameOutcome(status, st)
    BY <1>1 DEF RowStatus, Active, SameOutcome
  <1>3. w \in [Rows -> 0..MaxRetryMinutes]
    BY <1>1, TimingAssumption
  <1>4. rec \in [Rows -> BOOLEAN]
    BY <1>1
  <1>5. /\ UNCHANGED <<created, version, enqueues, local, delivered, up, crashes>>
        /\ retries' = retries + 1
    BY DEF MakePending, dataVars
  <1>6. CASE current = NoRow /\ StartPass(st, w, rec)
    <2>1. /\ ClaimedState /\ SameOutcome(st, status')
          /\ wait' \in [Rows -> 0..MaxRetryMinutes]
          /\ recoverable' \in [Rows -> BOOLEAN]
      <3> HIDE DEF st, w, rec
      <3> QED
        BY <1>1, <1>2, <1>3, <1>4, <1>6, StartPassFacts
    <2>2. TypeOK'
      BY <1>5, <2>1 DEF IInv, TypeOK, ClaimedState
    <2>3. VersionsInOrder'
      BY <1>5, <2>1, ClaimKeepsOrder DEF IInv
    <2>4. SameOutcome(status, status')
      BY <1>2, <2>1 DEF SameOutcome
    <2> QED
      BY <1>5, <2>2, <2>3, <2>4
  <1>7. CASE /\ current # NoRow
             /\ status' = st
             /\ wait' = w
             /\ recoverable' = rec
             /\ age' = [r \in Rows |-> IF r \in R THEN 0 ELSE age[r]]
             /\ UNCHANGED <<attempt, workerVars>>
    <2>1. UNCHANGED <<current, queue, passAge, phase, captured>>
      BY <1>7 DEF workerVars
    <2>2. age' \in [Rows -> Nat]
      BY <1>1, <1>7
    <2>3. TypeOK'
      <3> HIDE DEF st, w, rec
      <3> QED
        BY <1>2, <1>3, <1>4, <1>5, <1>7, <2>1, <2>2 DEF IInv, TypeOK
    <2>4. VersionsInOrder'
      BY <1>5, <1>7, <2>1 DEF IInv, TypeOK, VersionsInOrder
    <2> QED
      BY <1>2, <1>5, <1>7, <2>3, <2>4
  <1> QED
    BY <1>6, <1>7 DEF MakePending

\* A pass that starts by itself moves unsent rows only.
LEMMA PassStartsFacts ==
    ASSUME IInv, RunDueEntries \/ Restart
    PROVE  /\ TypeOK' /\ VersionsInOrder' /\ SameOutcome(status, status')
           /\ UNCHANGED <<version, local, delivered>>
  <1>0. TypeOK /\ VersionsInOrder
    BY DEF IInv
  <1>1. /\ StartPass(status, wait, recoverable)
        /\ UNCHANGED <<created, version, enqueues, local, delivered, crashes, retries>>
        /\ up' \in BOOLEAN
    BY <1>0 DEF RunDueEntries, Restart, dataVars, boundVars, TypeOK
  <1>2. /\ ClaimedState /\ SameOutcome(status, status')
        /\ wait' \in [Rows -> 0..MaxRetryMinutes]
        /\ recoverable' \in [Rows -> BOOLEAN]
    BY <1>0, <1>1, StartPassFacts DEF TypeOK
  <1>3. TypeOK'
    BY <1>0, <1>1, <1>2 DEF TypeOK, ClaimedState
  <1> QED
    BY <1>0, <1>1, <1>2, <1>3, ClaimKeepsOrder

\* A transport that returns makes its row sent, unless it was deleted meanwhile,
\* and its mutation is in the cloud by then.
LEMMA MarkSentFacts ==
    ASSUME IInv, MarkSent
    PROVE  LET st == [status EXCEPT ![current] = IF @ = "dropped" THEN @ ELSE "sent"]
           IN  /\ current \in Rows
               /\ current \notin StableRows => version[current] <= delivered[EntityOf[current]]
               /\ SameOutcome(st, status')
               /\ TypeOK' /\ VersionsInOrder'
               /\ UNCHANGED <<version, local, delivered>>
  <1> DEFINE st == [status EXCEPT ![current] = IF @ = "dropped" THEN @ ELSE "sent"]
  <1>0. TypeOK /\ VersionsInOrder
    BY DEF IInv
  <1>1. /\ ClaimNext(st, queue, passAge)
        /\ UNCHANGED <<created, version, enqueues, local, delivered, up, crashes, retries>>
        /\ phase = "stored"
    BY DEF MarkSent, dataVars, boundVars
  <1>2. current \in Rows
    BY <1>0, <1>1 DEF TypeOK
  <1>3. st \in [Rows -> RowStatus]
    BY <1>0, <1>2 DEF TypeOK, RowStatus
  <1>4. ClaimedState /\ SameOutcome(st, status')
    <2> HIDE DEF st
    <2> QED
      BY <1>0, <1>1, <1>3, ClaimNextFacts DEF TypeOK
  <1>5. wait' \in [Rows -> 0..MaxRetryMinutes] /\ recoverable' \in [Rows -> BOOLEAN]
    BY <1>0, <1>2, TimingAssumption DEF TypeOK, MarkSent
  <1>6. TypeOK'
    BY <1>0, <1>1, <1>4, <1>5 DEF TypeOK, ClaimedState
  <1>7. current \notin StableRows => version[current] <= delivered[EntityOf[current]]
    BY <1>0, <1>1, <1>2, RowsAssumption DEF TypeOK, VersionsInOrder
  <1> QED
    BY <1>0, <1>1, <1>2, <1>4, <1>6, <1>7, ClaimKeepsOrder

\* A transport that throws moves unsent rows only: its own row is unsent.
LEMMA MarkFailedFacts ==
    ASSUME IInv, MarkFailed
    PROVE  /\ TypeOK' /\ VersionsInOrder' /\ SameOutcome(status, status')
           /\ UNCHANGED <<version, local, delivered>>
  <1> DEFINE st == [status EXCEPT ![current] = IF @ = "dropped" THEN @ ELSE "failed"]
  <1>0. TypeOK /\ VersionsInOrder
    BY DEF IInv
  <1>1. /\ ClaimNext(st, queue, passAge)
        /\ UNCHANGED <<created, version, enqueues, local, delivered, up, crashes, retries>>
        /\ phase # "idle"
    BY DEF MarkFailed, dataVars, boundVars
  <1>2. current \in Rows /\ current # NoRow
    BY <1>0, <1>1 DEF TypeOK
  <1>3. st \in [Rows -> RowStatus] /\ SameOutcome(status, st)
    BY <1>0, <1>2 DEF TypeOK, VersionsInOrder, RowStatus, Active, SameOutcome
  <1>4. ClaimedState /\ SameOutcome(st, status')
    <2> HIDE DEF st
    <2> QED
      BY <1>0, <1>1, <1>3, ClaimNextFacts DEF TypeOK
  <1>5. PICK kind \in FailureKinds :
          /\ wait' = [wait EXCEPT ![current] =
                          IF status[current] = "dropped" THEN @
                          ELSE IF kind THEN 1 ELSE ResolveRetryDelay(attempt[current])]
          /\ recoverable' = [recoverable EXCEPT ![current] =
                          IF status[current] = "dropped" THEN @ ELSE kind]
    BY DEF MarkFailed
  <1>6. wait' \in [Rows -> 0..MaxRetryMinutes]
    <2>1. ResolveRetryDelay(attempt[current]) \in 0..MaxRetryMinutes
      BY RetryDelayBounds, TimingAssumption
    <2> QED
      BY <1>0, <1>2, <1>5, <2>1, TimingAssumption DEF TypeOK
  <1>7. recoverable' \in [Rows -> BOOLEAN]
    BY <1>0, <1>2, <1>5, TimingAssumption DEF TypeOK
  <1>8. TypeOK'
    BY <1>0, <1>1, <1>4, <1>6, <1>7 DEF TypeOK, ClaimedState
  <1>9. SameOutcome(status, status')
    BY <1>3, <1>4 DEF SameOutcome
  <1> QED
    BY <1>0, <1>1, <1>4, <1>8, <1>9, ClaimKeepsOrder

LEMMA InitEstablishesIInv == Init => IInv
  <1> SUFFICES ASSUME Init PROVE IInv
    OBVIOUS
  <1>1. TypeOK
    BY TimingAssumption, RowsAssumption DEF Init, TypeOK, RowStatus, Active
  <1>2. VersionsInOrder /\ SentImpliesDelivered
    BY RowsAssumption DEF Init, VersionsInOrder, SentImpliesDelivered
  <1> QED
    BY <1>1, <1>2 DEF IInv

LEMMA NextKeepsIInv == IInv /\ [Next]_vars => IInv'
  <1> SUFFICES ASSUME IInv, [Next]_vars PROVE IInv'
    OBVIOUS
  <1> USE RowsAssumption, TimingAssumption
  <1>0. TypeOK /\ VersionsInOrder /\ SentImpliesDelivered
    BY DEF IInv
  <1>1. ASSUME NEW r \in Rows, Enqueue(r)
        PROVE  IInv'
    <2>1. local[EntityOf[r]] \in Nat /\ EntityOf[r] \in Entities
      BY <1>0 DEF TypeOK
    <2>2. TypeOK'
      <3>1. /\ status \in [Rows -> RowStatus] /\ status' = [status EXCEPT ![r] = "pending"]
            /\ recoverable \in [Rows -> BOOLEAN] /\ recoverable' = [recoverable EXCEPT ![r] = FALSE]
            /\ attempt \in [Rows -> 0..MaxAttempts] /\ attempt' = [attempt EXCEPT ![r] = 0]
            /\ wait \in [Rows -> 0..MaxRetryMinutes] /\ wait' = [wait EXCEPT ![r] = 0]
        BY <1>0, <1>1 DEF TypeOK, Enqueue
      <3>2. /\ age \in [Rows -> Nat] /\ age' = [age EXCEPT ![r] = 0]
            /\ created \in [Rows -> Nat] /\ created' = [created EXCEPT ![r] = enqueues + 1]
            /\ version \in [Rows -> Nat] /\ version' = [version EXCEPT ![r] = local[EntityOf[r]] + 1]
            /\ local \in [Entities -> Nat] /\ local' = [local EXCEPT ![EntityOf[r]] = @ + 1]
            /\ enqueues \in Nat /\ enqueues' = enqueues + 1
        BY <1>0, <1>1 DEF TypeOK, Enqueue
      <3>4. "pending" \in RowStatus /\ 0 \in 0..MaxAttempts /\ 0 \in 0..MaxRetryMinutes
        BY DEF RowStatus, Active
      <3>5. status' \in [Rows -> RowStatus] /\ recoverable' \in [Rows -> BOOLEAN]
        BY <3>1, <3>4
      <3>6. attempt' \in [Rows -> 0..MaxAttempts] /\ wait' \in [Rows -> 0..MaxRetryMinutes]
        BY <3>1, <3>4
      <3>7. age' \in [Rows -> Nat] /\ created' \in [Rows -> Nat] /\ enqueues' \in Nat
        BY <3>2
      <3>8. version' \in [Rows -> Nat] /\ local' \in [Entities -> Nat]
        BY <2>1, <3>2
      <3>3. /\ delivered' \in [Entities -> Nat] /\ up' \in BOOLEAN /\ current' \in Rows \cup {NoRow}
            /\ queue' \in Seq(Rows) /\ passAge' \in Nat /\ captured' \in Nat
            /\ phase' \in {"idle", "token", "request", "stored"} /\ ((phase' = "idle") <=> (current' = NoRow))
            /\ crashes' \in Nat /\ retries' \in Nat
        BY <1>0, <1>1 DEF TypeOK, Enqueue, workerVars, boundVars
      <3> QED
        BY <3>3, <3>5, <3>6, <3>7, <3>8 DEF TypeOK
    <2>3. VersionsInOrder'
      <3>1. /\ UNCHANGED <<delivered, current, phase, captured>>
            /\ version' = [version EXCEPT ![r] = local[EntityOf[r]] + 1]
            /\ local' = [local EXCEPT ![EntityOf[r]] = @ + 1]
            /\ status' = [status EXCEPT ![r] = "pending"]
            /\ status[r] = "none" \/ r \in StableRows
        BY <1>1 DEF Enqueue, workerVars
      <3>2. \A e \in Entities : local[e] \in Nat /\ local[e] <= local'[e]
        BY <1>0, <2>1, <3>1 DEF TypeOK
      <3>3. \A x \in Rows : version'[x] <= local'[EntityOf[x]]
        <4> TAKE x \in Rows
        <4>1. CASE x = r
          BY <1>0, <2>1, <3>1, <4>1 DEF TypeOK
        <4>2. CASE x # r
          BY <1>0, <3>1, <3>2, <4>2 DEF TypeOK, VersionsInOrder
        <4> QED
          BY <4>1, <4>2
      <3>4. \A e \in Entities : delivered'[e] <= local'[e]
        <4> TAKE e \in Entities
        <4>1. delivered[e] <= local[e] /\ delivered[e] \in Nat
          BY <1>0 DEF TypeOK, VersionsInOrder
        <4>2. local'[e] \in Nat
          BY <2>2 DEF TypeOK
        <4> QED
          BY <3>1, <3>2, <4>1, <4>2
      <3>5. current # NoRow => status'[current] \in {"pending", "processing", "dropped"}
        BY <1>0, <3>1 DEF TypeOK, VersionsInOrder
      <3>6. ASSUME phase \in {"request", "stored"}
            PROVE  /\ captured <= local'[EntityOf[current]]
                   /\ current \notin StableRows => version'[current] <= captured
        <4>1. current \in Rows /\ current # NoRow /\ EntityOf[current] \in Entities
          BY <1>0, <3>6 DEF TypeOK
        <4>2. captured <= local[EntityOf[current]] /\ captured \in Nat
          BY <1>0, <3>6 DEF VersionsInOrder, TypeOK
        <4> DEFINE e == EntityOf[current]
        <4>3. local[e] \in Nat /\ local[e] <= local'[e] /\ local'[e] \in Nat
          BY <2>2, <3>2, <4>1 DEF TypeOK
        <4>6. captured <= local'[e]
          BY <4>2, <4>3
        <4>4. current \notin StableRows => current # r
          BY <1>0, <3>1, <4>1 DEF VersionsInOrder
        <4>5. current \notin StableRows => version'[current] <= captured
          BY <1>0, <3>1, <3>6, <4>1, <4>4 DEF VersionsInOrder, TypeOK
        <4> QED
          BY <4>5, <4>6
      <3>7. phase = "stored" => captured <= delivered[EntityOf[current]]
        BY <1>0 DEF VersionsInOrder
      <3> QED
        BY <3>1, <3>3, <3>4, <3>5, <3>6, <3>7 DEF VersionsInOrder
    <2>4. SentImpliesDelivered'
      BY <1>0, <1>1 DEF TypeOK, SentImpliesDelivered, Enqueue
    <2> QED
      BY <2>2, <2>3, <2>4 DEF IInv
  <1>2. ASSUME NEW e \in Entities, DeletePendingOutbox(e)
        PROVE  IInv'
    <2>1. TypeOK'
      BY <1>0, <1>2
         DEF TypeOK, DeletePendingOutbox, dataVars, workerVars, boundVars, RowStatus
    <2>2. VersionsInOrder'
      BY <1>0, <1>2 DEF TypeOK, VersionsInOrder, DeletePendingOutbox, dataVars, workerVars
    <2>3. SentImpliesDelivered'
      BY <1>0, <1>2 DEF TypeOK, SentImpliesDelivered, DeletePendingOutbox, dataVars
    <2> QED
      BY <2>1, <2>2, <2>3 DEF IInv
  <1>3. ASSUME NEW r \in Rows, RetrySyncOutboxRow(r)
        PROVE  IInv'
    <2>1. \A x \in {r} : status[x] \in Active
      BY <1>3 DEF RetrySyncOutboxRow, Active
    <2>2. MakePending({r})
      BY <1>3 DEF RetrySyncOutboxRow
    <2> QED
      BY <1>0, <2>1, <2>2, MakePendingFacts, UnsentKeepsSent DEF IInv
  <1>4. CASE RetryAllFailedSyncOutboxRows
    <2> DEFINE R == {r \in Rows : status[r] = "failed"}
    <2>1. R \in SUBSET Rows /\ \A x \in R : status[x] \in Active
      BY DEF Active
    <2>2. MakePending(R)
      BY <1>4 DEF RetryAllFailedSyncOutboxRows
    <2> HIDE DEF R
    <2> QED
      BY <1>0, <2>1, <2>2, MakePendingFacts, UnsentKeepsSent DEF IInv
  <1>5. CASE RunDueEntries \/ Restart
    BY <1>0, <1>5, PassStartsFacts, UnsentKeepsSent DEF IInv
  <1>6. CASE ResolveSnapshot
    <2>1. /\ current \in Rows /\ EntityOf[current] \in Entities
          /\ current # NoRow
      BY <1>0, <1>6 DEF TypeOK, ResolveSnapshot
    <2>2. TypeOK'
      BY <1>0, <1>6, <2>1
         DEF TypeOK, ResolveSnapshot, rowVars, dataVars, boundVars
    <2>3. VersionsInOrder'
      BY <1>0, <1>6, <2>1
         DEF TypeOK, VersionsInOrder, ResolveSnapshot, rowVars, dataVars
    <2>4. SentImpliesDelivered'
      BY <1>0, <1>6 DEF SentImpliesDelivered, ResolveSnapshot, rowVars, dataVars
    <2> QED
      BY <2>2, <2>3, <2>4 DEF IInv
  <1>7. CASE ServerStores
    <2>1. current \in Rows /\ EntityOf[current] \in Entities
      BY <1>0, <1>7 DEF TypeOK, ServerStores
    <2>2. TypeOK'
      BY <1>0, <1>7, <2>1 DEF TypeOK, ServerStores, rowVars, boundVars
    <2>3. \A e \in Entities : delivered[e] <= delivered'[e]
      BY <1>0, <1>7, <2>1 DEF TypeOK, ServerStores
    <2>4. VersionsInOrder'
      BY <1>0, <1>7, <2>1 DEF TypeOK, VersionsInOrder, ServerStores, rowVars
    <2>5. SentImpliesDelivered'
      BY <1>0, <1>7, <2>2, <2>3 DEF TypeOK, SentImpliesDelivered, ServerStores, rowVars
    <2> QED
      BY <2>2, <2>4, <2>5 DEF IInv
  <1>8. CASE MarkSent
    <2> DEFINE st == [status EXCEPT ![current] = IF @ = "dropped" THEN @ ELSE "sent"]
    <2>1. /\ current \in Rows
          /\ current \notin StableRows => version[current] <= delivered[EntityOf[current]]
          /\ SameOutcome(st, status')
          /\ TypeOK' /\ VersionsInOrder'
          /\ UNCHANGED <<version, local, delivered>>
      BY <1>8, MarkSentFacts
    <2>2. \A r \in Rows \ StableRows : st[r] = "sent" => version[r] <= delivered[EntityOf[r]]
      BY <1>0, <2>1 DEF TypeOK, SentImpliesDelivered
    <2>3. SentImpliesDelivered'
      BY <2>1, <2>2 DEF SentImpliesDelivered, SameOutcome, Active
    <2> QED
      BY <2>1, <2>3 DEF IInv
  <1>9. CASE MarkFailed
    BY <1>0, <1>9, MarkFailedFacts, UnsentKeepsSent DEF IInv
  <1>10. CASE Elapse
    <2>1. TypeOK'
      <3>0. /\ wait \in [Rows -> 0..MaxRetryMinutes] /\ age \in [Rows -> Nat]
            /\ passAge \in Nat
        BY <1>0 DEF TypeOK
      <3>1. wait' \in [Rows -> 0..MaxRetryMinutes]
        <4>1. wait' = [r \in Rows |-> IF wait[r] > 0 THEN wait[r] - 1 ELSE 0]
          BY <1>10 DEF Elapse
        <4> QED
          BY <3>0, <4>1
      <3>2. age' \in [Rows -> Nat]
        <4>1. age' = [r \in Rows |-> IF status[r] = "processing" /\ age[r] <= StaleMinutes
                                     THEN age[r] + 1 ELSE age[r]]
          BY <1>10 DEF Elapse
        <4> QED
          BY <3>0, <4>1
      <3>4. passAge' \in Nat
        <4>1. passAge' = passAge \/ passAge' = passAge + 1
          BY <1>10 DEF Elapse
        <4> QED
          BY <3>0, <4>1
      <3>3. UNCHANGED <<status, attempt, recoverable, created, version, enqueues, local,
                        delivered, up, current, queue, phase, captured, crashes, retries>>
        BY <1>10 DEF Elapse, dataVars, boundVars
      <3> QED
        BY <1>0, <3>1, <3>2, <3>3, <3>4 DEF TypeOK
    <2>2. VersionsInOrder' /\ SentImpliesDelivered'
      BY <1>0, <1>10 DEF VersionsInOrder, SentImpliesDelivered, Elapse, dataVars
    <2> QED
      BY <2>1, <2>2 DEF IInv
  <1>11. CASE Crash
    <2>1. TypeOK'
      <3>1. UNCHANGED <<status, attempt, wait, recoverable, age, created, version, enqueues,
                        local, delivered, retries>>
        BY <1>11 DEF Crash, rowVars, dataVars
      <3>2. /\ crashes' = crashes + 1 /\ up' = FALSE /\ current' = NoRow
            /\ queue' = <<>> /\ passAge' = 0 /\ phase' = "idle" /\ captured' = 0
        BY <1>11 DEF Crash
      <3>3. crashes' \in Nat
        <4>1. crashes \in Nat
          BY <1>0 DEF TypeOK
        <4> QED
          BY <3>2, <4>1
      <3>6. up' \in BOOLEAN
        BY <3>2
      <3>4. queue' \in Seq(Rows)
        BY <3>2
      <3>5. /\ current' \in Rows \cup {NoRow} /\ passAge' \in Nat /\ captured' \in Nat
            /\ phase' \in {"idle", "token", "request", "stored"}
            /\ (phase' = "idle") <=> (current' = NoRow)
        BY <3>2
      <3> QED
        BY <1>0, <3>1, <3>3, <3>4, <3>5, <3>6 DEF TypeOK
    <2>2. VersionsInOrder' /\ SentImpliesDelivered'
      BY <1>0, <1>11 DEF VersionsInOrder, SentImpliesDelivered, Crash, rowVars, dataVars
    <2> QED
      BY <2>1, <2>2 DEF IInv
  <1>12. CASE UNCHANGED vars
    BY <1>0, <1>12
       DEF IInv, TypeOK, VersionsInOrder, SentImpliesDelivered,
           vars, rowVars, dataVars, workerVars, boundVars
  <1> QED
    BY <1>1, <1>2, <1>3, <1>4, <1>5, <1>6, <1>7, <1>8, <1>9, <1>10, <1>11, <1>12 DEF Next

\* The worker's state always has its type: the retry delays of resolveRetryDelay-
\* Minutes stay within the ceiling, a pass is idle exactly when no row is claimed.
THEOREM TypeCorrectness == Spec => []TypeOK
  <1>1. IInv => TypeOK
    BY DEF IInv
  <1> QED
    BY <1>1, InitEstablishesIInv, NextKeepsIInv, PTL DEF Spec

\* The cloud, the transport and the device never disagree on the order of the
\* mutations of an entity, and the row in flight is never failed or sent.
THEOREM OrderOfVersions == Spec => []VersionsInOrder
  <1>1. IInv => VersionsInOrder
    BY DEF IInv
  <1> QED
    BY <1>1, InitEstablishesIInv, NextKeepsIInv, PTL DEF Spec

\* A row under an id of its own is marked sent only after the cloud has stored
\* the mutation it was enqueued for.
THEOREM SentMeansDelivered == Spec => []SentImpliesDelivered
  <1>1. IInv => SentImpliesDelivered
    BY DEF IInv
  <1> QED
    BY <1>1, InitEstablishesIInv, NextKeepsIInv, PTL DEF Spec

-------------------------------------------------------------------------------
(* What a step may never do to a sent row                                  *)

LEMMA NextKeepsSentRows ==
    ASSUME IInv, [Next]_vars, NEW r \in Rows \ StableRows, status[r] = "sent"
    PROVE  status'[r] = "sent"
  <1>0. TypeOK /\ VersionsInOrder /\ r \in Rows
    BY DEF IInv
  <1>1. SameOutcome(status, status') => status'[r] = "sent"
    BY <1>0 DEF SameOutcome, Active
  <1>2. ASSUME NEW x \in Rows, Enqueue(x)
        PROVE  status'[r] = "sent"
    BY <1>0, <1>2 DEF Enqueue, TypeOK
  <1>3. ASSUME NEW e \in Entities, DeletePendingOutbox(e)
        PROVE  status'[r] = "sent"
    BY <1>0, <1>3 DEF DeletePendingOutbox, Active
  <1>4. ASSUME NEW x \in Rows, RetrySyncOutboxRow(x)
        PROVE  status'[r] = "sent"
    <2>1. \A y \in {x} : status[y] \in Active
      BY <1>4 DEF RetrySyncOutboxRow, Active
    <2> QED
      BY <1>1, <1>4, <2>1, MakePendingFacts DEF RetrySyncOutboxRow
  <1>5. CASE RetryAllFailedSyncOutboxRows
    <2> DEFINE R == {x \in Rows : status[x] = "failed"}
    <2>1. R \in SUBSET Rows /\ (\A y \in R : status[y] \in Active) /\ MakePending(R)
      BY <1>5 DEF Active, RetryAllFailedSyncOutboxRows
    <2> HIDE DEF R
    <2> QED
      BY <1>1, <2>1, MakePendingFacts
  <1>6. CASE MarkSent
    <2> DEFINE st == [status EXCEPT ![current] = IF @ = "dropped" THEN @ ELSE "sent"]
    <2>1. SameOutcome(st, status')
      BY <1>6, MarkSentFacts
    <2>2. st[r] = "sent"
      BY <1>0 DEF TypeOK
    <2> QED
      BY <1>0, <2>1, <2>2 DEF SameOutcome, Active
  <1>7. CASE ResolveSnapshot \/ ServerStores \/ Elapse \/ Crash \/ UNCHANGED vars
    BY <1>7 DEF ResolveSnapshot, ServerStores, Elapse, Crash, vars, rowVars
  <1> QED
    BY <1>1, <1>2, <1>3, <1>4, <1>5, <1>6, <1>7, PassStartsFacts, MarkFailedFacts DEF Next

\* A row under an id of its own that was sent is never processed again.
THEOREM SentRowsStaySent == Spec => SentIsFinal
  <1>1. IInv /\ [Next]_vars =>
          [\A r \in Rows \ StableRows : status[r] = "sent" => status'[r] = "sent"]_vars
    BY NextKeepsSentRows
  <1> QED
    BY <1>1, InitEstablishesIInv, NextKeepsIInv, PTL DEF Spec, SentIsFinal

-------------------------------------------------------------------------------
(* The worker implements OutboxDelivery                                    *)

\* Moving unsent rows is invisible to the abstract outbox.
LEMMA UnsentStutters ==
    ASSUME \A r \in Mutations :
               status'[r] = status[r] \/ (status[r] \in Active /\ status'[r] \in Active),
           \A r \in Mutations : version'[r] = version[r],
           delivered' = delivered
    PROVE  UNCHANGED Delivery!deliveryVars
  <1>1. Submitted' = Submitted
    BY DEF Submitted, Mutations, Active
  <1>2. Stored' = Stored
    BY <1>1 DEF Stored, Submitted
  <1>3. Acknowledged' = Acknowledged
    BY <1>1 DEF Acknowledged, Submitted, Active
  <1>4. Withdrawn' = Withdrawn
    BY <1>1 DEF Withdrawn, Submitted, Active
  <1> QED
    BY <1>1, <1>2, <1>3, <1>4 DEF Delivery!deliveryVars

LEMMA SameOutcomeStutters ==
    ASSUME SameOutcome(status, status'), UNCHANGED <<version, delivered>>
    PROVE  UNCHANGED Delivery!deliveryVars
  BY UnsentStutters DEF SameOutcome, Mutations

LEMMA NextImplementsDelivery ==
    ASSUME IInv, [Next]_vars
    PROVE  [Delivery!Next]_Delivery!deliveryVars
  <1>0. TypeOK /\ VersionsInOrder /\ SentImpliesDelivered
    BY DEF IInv
  <1>1. ASSUME NEW r \in Rows, Enqueue(r)
        PROVE  [Delivery!Next]_Delivery!deliveryVars
    <2>1. /\ status' = [status EXCEPT ![r] = "pending"]
          /\ version' = [version EXCEPT ![r] = local[EntityOf[r]] + 1]
          /\ delivered' = delivered
          /\ status[r] = "none" \/ r \in StableRows
      BY <1>1 DEF Enqueue
    <2>2. CASE r \in StableRows
      <3>1. \A x \in Mutations : status'[x] = status[x] /\ version'[x] = version[x]
        BY <1>0, <2>1, <2>2 DEF TypeOK, Mutations
      <3> QED
        BY <2>1, <3>1, UnsentStutters
    <2>3. CASE r \notin StableRows
      <3>1. r \in Mutations /\ status[r] = "none"
        BY <2>1, <2>3 DEF Mutations
      <3>2. Submitted' = Submitted \cup {r} /\ r \notin Submitted
        BY <1>0, <2>1, <3>1 DEF TypeOK, Submitted, Mutations
      <3>3. ~(version'[r] <= delivered'[EntityOf[r]])
        <4>1. EntityOf[r] \in Entities
          BY RowsAssumption
        <4>2. /\ delivered[EntityOf[r]] <= local[EntityOf[r]]
              /\ delivered[EntityOf[r]] \in Nat /\ local[EntityOf[r]] \in Nat
          BY <1>0, <4>1 DEF TypeOK, VersionsInOrder
        <4>3. version'[r] = local[EntityOf[r]] + 1
          BY <1>0, <2>1 DEF TypeOK
        <4> QED
          BY <2>1, <4>2, <4>3
      <3>4. \A x \in Submitted : x \in Rows /\ x # r /\ version'[x] = version[x] /\ status'[x] = status[x]
        BY <1>0, <2>1, <3>2 DEF TypeOK, Submitted, Mutations
      <3>5. status'[r] = "pending"
        BY <1>0, <2>1 DEF TypeOK
      <3>6. Stored' = Stored
        BY <2>1, <3>2, <3>3, <3>4 DEF Stored
      <3>7. Acknowledged' = Acknowledged
        BY <3>2, <3>4, <3>5 DEF Acknowledged
      <3>8. Withdrawn' = Withdrawn
        BY <3>2, <3>4, <3>5 DEF Withdrawn
      <3>9. Delivery!Submit(r)
        BY <3>2, <3>6, <3>7, <3>8 DEF Delivery!Submit
      <3> QED
        BY <3>1, <3>9 DEF Delivery!Next
    <2> QED
      BY <2>2, <2>3
  <1>2. ASSUME NEW e \in Entities, DeletePendingOutbox(e)
        PROVE  [Delivery!Next]_Delivery!deliveryVars
    <2> DEFINE doomed == {r \in Rows : EntityOf[r] = e /\ status[r] \in Active}
               S == doomed \ StableRows
    <2>1. /\ status' = [r \in Rows |-> IF r \in doomed THEN "dropped" ELSE status[r]]
          /\ version' = version /\ delivered' = delivered
      BY <1>2 DEF DeletePendingOutbox, dataVars
    <2>2. S \in SUBSET Mutations /\ S \subseteq Submitted \ Acknowledged
      BY DEF Mutations, Submitted, Acknowledged, Active
    <2>3. Submitted' = Submitted
      BY <2>1 DEF Submitted, Mutations, Active
    <2>4. Stored' = Stored
      BY <2>1, <2>3 DEF Stored
    <2>5. Acknowledged' = Acknowledged
      BY <2>1, <2>3 DEF Acknowledged, Submitted, Mutations, Active
    <2>6. Withdrawn' = Withdrawn \cup S
      BY <2>1, <2>3 DEF Withdrawn, Submitted, Mutations, Active
    <2>7. Delivery!Withdraw(S)
      <3> HIDE DEF S
      <3> QED
        BY <2>2, <2>3, <2>4, <2>5, <2>6 DEF Delivery!Withdraw
    <2> QED
      BY <2>2, <2>7 DEF Delivery!Next
  <1>3. ASSUME NEW r \in Rows, RetrySyncOutboxRow(r)
        PROVE  [Delivery!Next]_Delivery!deliveryVars
    <2>1. \A x \in {r} : status[x] \in Active
      BY <1>3 DEF RetrySyncOutboxRow, Active
    <2>2. MakePending({r})
      BY <1>3 DEF RetrySyncOutboxRow
    <2> QED
      BY <2>1, <2>2, MakePendingFacts, SameOutcomeStutters
  <1>4. CASE RetryAllFailedSyncOutboxRows
    <2> DEFINE R == {r \in Rows : status[r] = "failed"}
    <2>1. R \in SUBSET Rows /\ (\A x \in R : status[x] \in Active) /\ MakePending(R)
      BY <1>4 DEF Active, RetryAllFailedSyncOutboxRows
    <2> HIDE DEF R
    <2> QED
      BY <2>1, MakePendingFacts, SameOutcomeStutters
  <1>5. CASE RunDueEntries \/ Restart
    BY <1>5, PassStartsFacts, SameOutcomeStutters
  <1>6. CASE MarkFailed
    BY <1>6, MarkFailedFacts, SameOutcomeStutters
  <1>7. CASE ServerStores
    <2>1. /\ status' = status /\ version' = version
          /\ current \in Rows /\ EntityOf[current] \in Entities
      BY <1>0, <1>7, RowsAssumption DEF ServerStores, rowVars, TypeOK
    <2>2. \A e \in Entities : delivered[e] \in Nat /\ delivered'[e] \in Nat
                              /\ delivered[e] <= delivered'[e]
      BY <1>0, <1>7, <2>1 DEF TypeOK, ServerStores
    <2>3. Submitted' = Submitted /\ Acknowledged' = Acknowledged /\ Withdrawn' = Withdrawn
      BY <2>1 DEF Submitted, Acknowledged, Withdrawn
    <2>4. Stored' \subseteq Submitted /\ Stored' \in SUBSET Mutations
      BY <2>3 DEF Stored, Submitted
    <2>5. Stored \subseteq Stored'
      <3> SUFFICES ASSUME NEW r \in Stored PROVE r \in Stored'
        OBVIOUS
      <3>1. r \in Submitted /\ r \in Rows /\ version[r] <= delivered[EntityOf[r]]
        BY DEF Stored, Submitted, Mutations
      <3>2. EntityOf[r] \in Entities /\ version[r] \in Nat
        BY <1>0, <3>1, RowsAssumption DEF TypeOK
      <3>3. version'[r] <= delivered'[EntityOf[r]]
        BY <2>1, <2>2, <3>1, <3>2
      <3> QED
        BY <2>3, <3>1, <3>3 DEF Stored
    <2>6. Delivery!Store(Stored')
      BY <2>3, <2>4, <2>5 DEF Delivery!Store
    <2> QED
      BY <2>4, <2>6 DEF Delivery!Next
  <1>8. CASE MarkSent
    <2> DEFINE st == [status EXCEPT ![current] = IF @ = "dropped" THEN @ ELSE "sent"]
    <2>1. /\ current \in Rows
          /\ current \notin StableRows => version[current] <= delivered[EntityOf[current]]
          /\ SameOutcome(st, status')
          /\ UNCHANGED <<version, delivered>>
      BY <1>8, MarkSentFacts
    <2>2. status[current] \in {"pending", "processing", "dropped"}
      BY <1>0, <2>1, RowsAssumption DEF VersionsInOrder
    <2>3. \A r \in Rows : r # current => st[r] = status[r]
      BY <1>0 DEF TypeOK
    <2>4. CASE current \in StableRows \/ status[current] = "dropped"
      <3>1. \A r \in Mutations : st[r] = status[r]
        BY <1>0, <2>1, <2>4 DEF TypeOK, Mutations
      <3>2. \A r \in Mutations :
              status'[r] = status[r] \/ (status[r] \in Active /\ status'[r] \in Active)
        BY <2>1, <3>1 DEF SameOutcome, Mutations
      <3> QED
        BY <2>1, <3>2, UnsentStutters
    <2>5. CASE current \notin StableRows /\ status[current] # "dropped"
      <3>1. current \in Mutations /\ st[current] = "sent" /\ status[current] \in Active
        BY <1>0, <2>1, <2>2, <2>5 DEF TypeOK, Mutations, Active
      <3>2. status'[current] = "sent"
        BY <2>1, <3>1 DEF SameOutcome, Active
      <3>3. \A r \in Mutations : r # current =>
              status'[r] = status[r] \/ (status[r] \in Active /\ status'[r] \in Active)
        BY <2>1, <2>3 DEF SameOutcome, Mutations
      <3>4. Submitted' = Submitted
        BY <3>1, <3>2, <3>3 DEF Submitted, Active, Mutations
      <3>5. Stored' = Stored
        BY <2>1, <3>4 DEF Stored
      <3>6. Withdrawn' = Withdrawn
        BY <3>1, <3>2, <3>3, <3>4 DEF Withdrawn, Submitted, Active
      <3>7. Acknowledged' = Acknowledged \cup {current}
        BY <3>1, <3>2, <3>3, <3>4 DEF Acknowledged, Submitted, Active
      <3>8. current \in Stored \ Withdrawn
        BY <2>1, <2>5, <3>1 DEF Stored, Withdrawn, Submitted, Active
      <3>9. Delivery!Acknowledge(current)
        BY <3>4, <3>5, <3>6, <3>7, <3>8 DEF Delivery!Acknowledge
      <3> QED
        BY <3>1, <3>9 DEF Delivery!Next
    <2> QED
      BY <2>4, <2>5
  <1>9. CASE ResolveSnapshot \/ Elapse \/ Crash \/ UNCHANGED vars
    <2>1. UNCHANGED <<status, version, delivered>>
      BY <1>9 DEF ResolveSnapshot, Elapse, Crash, vars, rowVars, dataVars
    <2> QED
      BY <2>1, UnsentStutters
  <1> QED
    BY <1>1, <1>2, <1>3, <1>4, <1>5, <1>6, <1>7, <1>8, <1>9 DEF Next

LEMMA InitImplementsDelivery == Init => Delivery!Init
  BY DEF Init, Delivery!Init, Submitted, Stored, Acknowledged, Withdrawn, Mutations

\* The worker implements the abstract outbox: for mutations under ids of their
\* own it submits, stores, acknowledges and withdraws as OutboxDelivery allows.
THEOREM WorkerImplementsDelivery == Spec => ImplementsDelivery
  <1>1. IInv /\ [Next]_vars => [Delivery!Next]_Delivery!deliveryVars
    BY NextImplementsDelivery
  <1> QED
    BY <1>1, InitEstablishesIInv, InitImplementsDelivery, NextKeepsIInv, PTL
       DEF Spec, ImplementsDelivery, Delivery!Spec

===============================================================================
