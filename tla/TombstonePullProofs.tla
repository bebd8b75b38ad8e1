-------------------------- MODULE TombstonePullProofs --------------------------
(***************************************************************************)
(* What the pull of the tombstones guarantees for every set of rows, every *)
(* forest of foreign keys and every number of operations: the types; that  *)
(* no unsent mutation goes with its row or the row's parent; that a        *)
(* deleted row stays behind on the device only if it is about to be pushed *)
(* again (ConsumedMeansGone); and that a device with nothing to send or    *)
(* pull agrees with Postgres (SettledDeviceAgrees).  The last two follow   *)
(* from IInv, which is inductive; both except the rows that crossed.       *)
(***************************************************************************)
EXTENDS TombstonePull, TLAPS

-------------------------------------------------------------------------------
(* The operators on rows                                                   *)

\* Deleting rows zeroes them and what hangs from them, and nothing else.
LEMMA WithoutRows ==
    ASSUME NEW rows \in [Rows -> Nat], NEW S
    PROVE  /\ Without(rows, S) \in [Rows -> Nat]
           /\ \A r \in Rows : Without(rows, S)[r] \in {0, rows[r]}
           /\ \A r \in Rows \cap S : Without(rows, S)[r] = 0
           /\ \A r \in Rows : r \in Cascade(S) => Without(rows, S)[r] = 0
           /\ \A r \in Rows : r \notin Cascade(S) => Without(rows, S)[r] = rows[r]
BY DEF Without, Cascade

\* Deleting rows keeps the import_ids of the others, or clears them.
LEMMA UnlinkedIds ==
    ASSUME NEW ids \in ImportIds, NEW S
    PROVE  /\ Unlinked(ids, S) \in ImportIds
           /\ \A r \in Rows : r \in Cascade(S) => Unlinked(ids, S)[r] = NoRow
           /\ \A r \in Rows : ids[r] \in Cascade(S) => Unlinked(ids, S)[r] = NoRow
           /\ \A r \in Rows : Unlinked(ids, S)[r] \in {NoRow, ids[r]}
           /\ \A r \in Rows : (r \notin Cascade(S) /\ ids[r] \notin Cascade(S)) =>
                Unlinked(ids, S)[r] = ids[r]
BY DEF Unlinked, ImportIds

\* A deletion in Postgres puts the new tombstones after everything else.
LEMMA DeletesRows ==
    ASSUME TypeOK, NEW S, Deletes(S)
    PROVE  /\ clock' = clock + 1
           /\ clock' \in Nat \ {0}
           /\ cloud' \in [Rows -> Nat] /\ tombs' \in [Rows -> Nat]
           /\ cloudImportId' \in ImportIds /\ astray' \in SUBSET Rows
           /\ \A r \in Rows : cloud'[r] \in {0, cloud[r]}
           /\ \A r \in Rows : \/ tombs'[r] = tombs[r] /\ cloud'[r] = cloud[r]
                              \/ tombs'[r] = clock + 1 /\ cloud'[r] = 0
           /\ \A r \in Rows \cap S : cloud'[r] = 0
<1>1. cloud \in [Rows -> Nat] /\ tombs \in [Rows -> Nat] /\ clock \in Nat
  BY DEF TypeOK
<1>2. clock' = clock + 1 /\ cloud' = Without(cloud, S)
  BY DEF Deletes
<1>3. \A r \in Rows :
        tombs'[r] = IF r \in Cascade(S) /\ cloud[r] > 0 THEN clock + 1 ELSE tombs[r]
  BY DEF Deletes
<1>4. \A r \in Rows : cloud'[r] = IF r \in Cascade(S) THEN 0 ELSE cloud[r]
  BY <1>2 DEF Without
<1>5. cloud' \in [Rows -> Nat]
  BY <1>1, <1>2, WithoutRows
<1>6. tombs' \in [Rows -> Nat]
  BY <1>1 DEF Deletes
<1>7. \A r \in Rows \cap S : r \in Cascade(S)
  BY DEF Cascade
<1>8. cloudImportId' \in ImportIds
  <2>1. cloudImportId \in ImportIds /\ cloudImportId' = Unlinked(cloudImportId, S)
    BY DEF Deletes, TypeOK
  <2> QED
    BY <2>1, UnlinkedIds
<1>9. astray' \in SUBSET Rows
  BY DEF Deletes, TypeOK, Adrift
<1> QED
  BY <1>1, <1>2, <1>3, <1>4, <1>5, <1>6, <1>7, <1>8, <1>9

\* An upsert stamps rows and removes the tombstones of those it inserts.
LEMMA UpsertsRows ==
    ASSUME TypeOK, NEW S, NEW ids \in ImportIds, Upserts(S, ids)
    PROVE  /\ clock' = clock + 1
           /\ clock' \in Nat \ {0}
           /\ cloud' \in [Rows -> Nat] /\ tombs' \in [Rows -> Nat]
           /\ cloudImportId' \in ImportIds /\ astray' \in SUBSET Rows
           /\ \A r \in Rows : cloud'[r] \in {clock + 1, cloud[r]}
           /\ \A r \in Rows \cap S : cloud'[r] > 0
           /\ \A r \in Rows : r \notin S => cloud'[r] = cloud[r] /\ tombs'[r] = tombs[r]
           /\ \A r \in Rows \cap S : \/ cloud[r] > 0 /\ tombs'[r] = tombs[r]
                                     \/ cloud[r] = 0 /\ tombs'[r] = 0
BY DEF TypeOK, Upserts, ImportIds, Adrift

\* The requests of an entry are sets of rows.
LEMMA RequestsType ==
    ASSUME NEW e \in Entry
    PROVE  Requests(e) \in Seq(SUBSET Rows)
<1>1. Members(e.root) \in SUBSET Rows /\ {e.root} \in SUBSET Rows
  BY DEF Entry, Members
<1>2. {r \in Rows : Batch[r] = e.root} \in SUBSET Rows
  OBVIOUS
<1>3. \A S, T \in SUBSET Rows : <<S, T>> \in Seq(SUBSET Rows)
  OBVIOUS
<1>4. \A S \in SUBSET Rows : <<S>> \in Seq(SUBSET Rows)
  OBVIOUS
<1>5. <<>> \in Seq(SUBSET Rows)
  OBVIOUS
<1> QED
  BY <1>1, <1>2, <1>3, <1>4, <1>5 DEF Requests

-------------------------------------------------------------------------------
(* Type correctness                                                        *)

\* The initial state is well typed.
LEMMA InitType == Init => TypeOK
<1> SUFFICES ASSUME Init PROVE TypeOK
  OBVIOUS
<1>1. cloudImportId \in ImportIds /\ importId \in ImportIds
  BY TombstoneAssumption DEF Init, ImportIds
<1> QED
  BY <1>1, TombstoneAssumption DEF Init, TypeOK, Absent, NotSending, NoPage, Push, Journal

\* A deletion keeps the types of the rows the device has.
LEMMA LocalType ==
    ASSUME TypeOK, NEW S, local' = Without(local, S), importId' = Unlinked(importId, S)
    PROVE  local' \in [Rows -> Nat] /\ importId' \in ImportIds
BY WithoutRows, UnlinkedIds DEF TypeOK

\* Every step of the module keeps the types.
LEMMA StepType == TypeOK /\ [Next]_vars => TypeOK'
<1> SUFFICES ASSUME TypeOK, [Next]_vars PROVE TypeOK'
  OBVIOUS
<1> USE DEF cloudVars, localVars, deviceVars, tombVars, rowVars, bounds
<1>1. CASE UNCHANGED vars
  BY <1>1 DEF vars, TypeOK
<1>2. ASSUME NEW r \in Rows, Edit(r) PROVE TypeOK'
  BY <1>2 DEF Edit, Operate, Unsent, TypeOK, Entry
<1>3. ASSUME NEW b \in Rows, DeleteImport(b) PROVE TypeOK'
  <2> DEFINE gone == Members(b) \cup {b}
  <2>1. local' \in [Rows -> Nat] /\ importId' \in ImportIds
    <3>1. local' = Without(local, gone) /\ importId' = Unlinked(importId, gone)
      BY <1>3 DEF DeleteImport
    <3> QED
      BY <3>1, LocalType
  <2>2. outbox' \in SUBSET Entry
    BY <1>3 DEF DeleteImport, TypeOK, Unsent, Entry
  <2>3. journal' \in Journal
    BY <1>3 DEF DeleteImport, TypeOK, Journal, Members
  <2>4. /\ ops' = ops + 1 /\ clock' = clock + 1
        /\ UNCHANGED <<cloud, tombs, cloudImportId, halfDeleted, astray>>
        /\ UNCHANGED <<waiting, sending, tombVars, rowVars, elsewhere, failures>>
    BY <1>3 DEF DeleteImport, Operate
  <2> QED
    BY <2>1, <2>2, <2>3, <2>4 DEF TypeOK
<1>4. ASSUME UndoDelete PROVE TypeOK'
  <2> DEFINE restored == {r \in Rows : journal.rows[r] > 0}
             ids == [r \in Rows |-> IF r \in journal.members THEN journal.root ELSE NoRow]
  <2>1. /\ journal.rows \in [Rows -> Nat] /\ journal.root \in Rows \cup {NoRow}
        /\ journal.members \subseteq Rows
    BY DEF TypeOK, Journal
  <2>2. local' \in [Rows -> Nat]
    <3>1. Without(local, restored) \in [Rows -> Nat]
      BY WithoutRows DEF TypeOK
    <3>2. local' = [r \in Rows |->
            IF r \in restored THEN journal.rows[r] ELSE Without(local, restored)[r]]
      BY <1>4 DEF UndoDelete
    <3> QED
      BY <2>1, <3>1, <3>2
  <2>3. importId' \in ImportIds
    <3>1. Unlinked(importId, restored) \in ImportIds
      BY UnlinkedIds DEF TypeOK
    <3>2. importId' = [r \in Rows |->
            IF r \in restored THEN ids[r] ELSE Unlinked(importId, restored)[r]]
      BY <1>4 DEF UndoDelete
    <3>3. ids \in ImportIds
      BY <2>1 DEF ImportIds
    <3> QED
      BY <3>1, <3>2, <3>3 DEF ImportIds
  <2>4. outbox' \in SUBSET Entry
    <3> DEFINE roots == (restored \ (journal.members \cup {journal.root})) \cup {journal.root}
    <3>1. clock \in Nat /\ outbox \in SUBSET Entry
      BY DEF TypeOK
    <3>2. journal.root # NoRow /\ outbox' = outbox \cup {Unsent("upsert", r) : r \in roots}
      BY <1>4 DEF UndoDelete
    <3>3. roots \subseteq Rows
      BY <2>1, <3>2
    <3>4. \A r \in Rows : Unsent("upsert", r) \in Entry
      BY <3>1 DEF Unsent, Entry
    <3> QED
      BY <3>1, <3>2, <3>3, <3>4
  <2>5. journal' \in Journal
    <3>1. journal' = [journal EXCEPT !.undone = clock + 1]
      BY <1>4 DEF UndoDelete
    <3>2. journal \in Journal /\ clock + 1 \in Nat
      BY DEF TypeOK
    <3> QED
      BY <3>1, <3>2 DEF Journal
  <2>6. /\ ops' = ops + 1 /\ clock' = clock + 1
        /\ UNCHANGED <<cloud, tombs, cloudImportId, halfDeleted>>
        /\ UNCHANGED <<waiting, sending, tombVars, rowVars, elsewhere, failures>>
        /\ astray' \in SUBSET Rows
    BY <1>4 DEF UndoDelete, Operate, TypeOK, Cascade
  <2> QED
    BY <2>2, <2>3, <2>4, <2>5, <2>6 DEF TypeOK
<1>5. ASSUME NEW r \in Rows, ChangeElsewhere(r) PROVE TypeOK'
  <2>1. \/ \E S \in SUBSET Rows : Deletes(S)
        \/ \E b \in {Batch[r], NoRow} : Upserts({r}, [q \in Rows |-> b])
    BY <1>5 DEF ChangeElsewhere
  <2>2. \A b \in {Batch[r], NoRow} : [q \in Rows |-> b] \in ImportIds
    BY TombstoneAssumption DEF ImportIds
  <2>3. /\ clock' \in Nat \ {0} /\ cloud' \in [Rows -> Nat] /\ tombs' \in [Rows -> Nat]
        /\ cloudImportId' \in ImportIds /\ astray' \in SUBSET Rows
    BY <2>1, <2>2, DeletesRows, UpsertsRows
  <2>4. /\ elsewhere' = elsewhere + 1
        /\ halfDeleted' = halfDeleted \/ halfDeleted' = halfDeleted \cup {r}
        /\ UNCHANGED <<deviceVars, tombVars, rowVars, ops, failures>>
    BY <1>5 DEF ChangeElsewhere
  <2> QED
    BY <2>3, <2>4 DEF TypeOK
<1>6. ASSUME NEW b \in Rows, DeleteImportElsewhere(b) PROVE TypeOK'
  <2>1. /\ Deletes({b})
        /\ halfDeleted' = halfDeleted \ {b}
        /\ UNCHANGED <<deviceVars, tombVars, rowVars, bounds>>
    BY <1>6 DEF DeleteImportElsewhere
  <2>2. /\ clock' \in Nat \ {0} /\ cloud' \in [Rows -> Nat] /\ tombs' \in [Rows -> Nat]
        /\ cloudImportId' \in ImportIds /\ astray' \in SUBSET Rows
    BY <2>1, DeletesRows
  <2> QED
    BY <2>1, <2>2 DEF TypeOK
<1>7. ASSUME NEW e \in outbox, StartPush(e) PROVE TypeOK'
  <2>1. Requests(e) \in Seq(SUBSET Rows) /\ e \in Entry
    BY RequestsType DEF TypeOK
  <2>2. sending' = [entry |-> {e}, left |-> Requests(e)]
    BY <1>7 DEF StartPush
  <2>3. sending' \in Push
    BY <2>1, <2>2 DEF Push
  <2>4. UNCHANGED <<cloudVars, localVars, outbox, waiting, journal, tombVars, rowVars, bounds>>
    BY <1>7 DEF StartPush
  <2> QED
    BY <2>3, <2>4 DEF TypeOK
<1>8. ASSUME SendRequest PROVE TypeOK'
  <2>1. \E e \in sending.entry : \/ \E S : Deletes(S)
                                 \/ Upserts(Head(sending.left), Written(e))
    BY <1>8 DEF SendRequest
  <2>2. \A e \in sending.entry : Written(e) \in ImportIds
    BY DEF TypeOK, Push, Entry, Written, ImportIds
  <2>3. /\ clock' \in Nat \ {0} /\ cloud' \in [Rows -> Nat] /\ tombs' \in [Rows -> Nat]
        /\ cloudImportId' \in ImportIds /\ astray' \in SUBSET Rows
    BY <2>1, <2>2, DeletesRows, UpsertsRows
  <2>4. /\ sending.left # <<>>
        /\ sending' = [sending EXCEPT !.left = Tail(sending.left)]
        /\ UNCHANGED <<halfDeleted, localVars, outbox, waiting, journal, tombVars, rowVars, bounds>>
    BY <1>8 DEF SendRequest
  <2>5. sending' \in Push
    <3>1. sending \in Push
      BY DEF TypeOK
    <3>2. sending.left \in Seq(SUBSET Rows) /\ sending.left # <<>>
      BY <2>4, <3>1 DEF Push
    <3>3. Tail(sending.left) \in Seq(SUBSET Rows)
      BY <3>2
    <3> QED
      BY <2>4, <3>1, <3>3 DEF Push
  <2> QED
    BY <2>3, <2>4, <2>5 DEF TypeOK
<1>9. ASSUME PushDone PROVE TypeOK'
  BY <1>9 DEF PushDone, TypeOK, NotSending, Push
<1>10. ASSUME PushFails PROVE TypeOK'
  <2>1. /\ failures' \in Nat
        /\ waiting' = waiting \cup sending.entry
        /\ sending' = NotSending
        /\ UNCHANGED <<cloudVars, localVars, outbox, journal, tombVars, rowVars, ops, elsewhere>>
    BY <1>10 DEF PushFails, TypeOK
  <2>2. waiting' \in SUBSET Entry /\ sending' \in Push
    BY <2>1 DEF TypeOK, NotSending, Push
  <2> QED
    BY <2>1, <2>2 DEF TypeOK
<1>11. ASSUME NEW e \in outbox, RetryDue(e) PROVE TypeOK'
  BY <1>11 DEF RetryDue, TypeOK
<1>12. ASSUME FetchTombstones PROVE TypeOK'
  <2>1. /\ tombPage' = {[row |-> r, deletedAt |-> tombs[r]] : r \in {q \in Rows : tombs[q] > tombCursor}}
        /\ UNCHANGED <<cloudVars, deviceVars, tombCursor, rowVars, bounds>>
    BY <1>12 DEF FetchTombstones
  <2>2. \A r \in Rows : tombs[r] \in Nat
    BY DEF TypeOK
  <2>3. tombPage' \in SUBSET [row : Rows, deletedAt : Nat]
    BY <2>1, <2>2
  <2> QED
    BY <2>1, <2>3 DEF TypeOK
<1>13. ASSUME ApplyTombstones PROVE TypeOK'
  <2>1. local' \in [Rows -> Nat] /\ importId' \in ImportIds
    <3>1. local' = Without(local, Deletable) /\ importId' = Unlinked(importId, Deletable)
      BY <1>13 DEF ApplyTombstones
    <3> QED
      BY <3>1, LocalType
  <2>2. tombCursor' \in Nat
    BY <1>13 DEF ApplyTombstones, TypeOK
  <2>3. /\ tombPage' = {} /\ crossed' \in SUBSET Rows
        /\ UNCHANGED <<cloudVars, outbox, waiting, sending, journal, rowCursor, rowPage, bounds>>
    BY <1>13 DEF ApplyTombstones, NoPage, TypeOK
  <2> QED
    BY <2>1, <2>2, <2>3 DEF TypeOK
<1>14. ASSUME NEW r \in Rows, FetchRow(r) PROVE TypeOK'
  <2>1. /\ rowPage' = {[row |-> r, stamp |-> cloud[r], batch |-> cloudImportId[r]]}
        /\ UNCHANGED <<cloudVars, deviceVars, tombVars, rowCursor, crossed, bounds>>
    BY <1>14 DEF FetchRow
  <2>2. cloud[r] \in Nat /\ cloudImportId[r] \in Rows \cup {NoRow}
    BY DEF TypeOK, ImportIds
  <2>3. rowPage' \in SUBSET [row : Rows, stamp : Nat, batch : Rows \cup {NoRow}]
    BY <2>1, <2>2
  <2> QED
    BY <2>1, <2>3 DEF TypeOK
<1>15. ASSUME ApplyRow PROVE TypeOK'
  <2>1. PICK p \in rowPage :
            \/ UNCHANGED <<localVars, rowCursor>>
            \/ /\ local' = [local EXCEPT ![p.row] = IF IsOlder(p) THEN @ ELSE p.stamp]
               /\ importId' = [importId EXCEPT ![p.row] = IF IsOlder(p) THEN @ ELSE p.batch]
               /\ rowCursor' = [rowCursor EXCEPT ![p.row] = p.stamp]
    BY <1>15 DEF ApplyRow
  <2>2. p.row \in Rows /\ p.stamp \in Nat /\ p.batch \in Rows \cup {NoRow}
    BY DEF TypeOK
  <2>3. local' \in [Rows -> Nat] /\ importId' \in ImportIds /\ rowCursor' \in [Rows -> Nat]
    BY <2>1, <2>2 DEF TypeOK, ImportIds
  <2>4. /\ rowPage' = {} /\ crossed' \in SUBSET Rows
        /\ UNCHANGED <<cloudVars, outbox, waiting, sending, journal, tombVars, bounds>>
    BY <1>15 DEF ApplyRow, NoPage, TypeOK
  <2> QED
    BY <2>3, <2>4 DEF TypeOK
<1>16. ASSUME Restart PROVE TypeOK'
  BY <1>16 DEF Restart, TypeOK, NotSending, NoPage, Push
<1> QED
  BY <1>1, <1>2, <1>3, <1>4, <1>5, <1>6, <1>7, <1>8, <1>9, <1>10, <1>11, <1>12,
     <1>13, <1>14, <1>15, <1>16 DEF Next

\* Every variable keeps its type in every behaviour (TypeOK).
THEOREM TypeCorrect == Spec => []TypeOK
BY InitType, StepType, PTL DEF Spec

-------------------------------------------------------------------------------
(* Unsent mutations                                                        *)

\* A page of tombstones takes a row with an unsent mutation only through its
\* parent's parent: the protection of the row and of its children
\* (UnsentRowSurvives).
THEOREM UnsentSurvives == Spec => UnsentRowSurvives
<1>1. ASSUME TypeOK, NEW r \in Rows, ApplyTombstones, HasPending(r),
             local[r] > 0, local'[r] = 0
      PROVE  Up(r) \in Deletable
  <2>1. r \notin Deletable
    BY <1>1 DEF Deletable, Blocked
  <2>2. Parent[r] \notin Deletable
    BY <1>1 DEF Deletable, Blocked, HasPendingChild, Children
  <2>3. r \in Cascade(Deletable)
    <3>1. local' = Without(local, Deletable) /\ local[r] \in Nat
      BY <1>1 DEF ApplyTombstones, TypeOK
    <3> QED
      BY <1>1, <3>1 DEF Without
  <2> QED
    BY <2>1, <2>2, <2>3 DEF Cascade
<1>2. TypeOK =>
        \A r \in Rows : (local[r] > 0 /\ local'[r] = 0 /\ HasPending(r) /\ ApplyTombstones) =>
            Up(r) \in Deletable
  BY <1>1
<1> QED
  BY <1>2, TypeCorrect, PTL DEF UnsentRowSurvives

-------------------------------------------------------------------------------
(* What is passed stays gone.  A row that is not clean (a tombstone of it is *)
(* passed, or older than the row) owes its presence to an edit or an undo,   *)
(* whose outbox entry is still to be sent; the request that sends it removes *)
(* the tombstone.  One lemma per part of IInv, one step per action.          *)

\* The tuples of variables, which every UNCHANGED below is about.
USE DEF cloudVars, localVars, deviceVars, tombVars, rowVars, bounds

\* What the device knows of a row names nothing but rows.
LEMMA ImportsAreRows == Imports \subseteq Rows
BY TombstoneAssumption DEF Imports

\* An import came with no other, and nothing of an import is above another.
LEMMA ImportsStandApart ==
    ASSUME NEW b \in Imports
    PROVE  /\ b \in Rows /\ b # NoRow /\ Batch[b] = NoRow /\ Up(b) = NoRow
           /\ Parent[b] # NoRow => Batch[Parent[b]] = NoRow /\ Parent[b] \notin Imports
<1>1. PICK r \in Rows : Batch[r] = b /\ Batch[r] # NoRow
  BY DEF Imports
<1> QED
  BY <1>1, ImportsAreRows, TombstoneAssumption DEF ImportsHangFromAccounts, Imports

\* An import_id that is not empty names an import, which came with no other.
LEMMA ImportIdIsImport ==
    ASSUME ImportIdsAreBatches, NEW r \in Rows, importId[r] # NoRow
    PROVE  /\ importId[r] = Batch[r]
           /\ importId[r] \in Imports /\ importId[r] \in Rows /\ importId[r] # r
           /\ Batch[importId[r]] = NoRow
<1>1. importId[r] = Batch[r]
  BY DEF ImportIdsAreBatches
<1>2. importId[r] \in Imports
  BY <1>1 DEF Imports
<1> QED
  BY <1>1, <1>2, ImportsStandApart

\* Deleting rows clears the import_id of a row that stays only if its import
\* is one of them: the account they hang from is the same.
LEMMA ImportIdStays ==
    ASSUME ImportIdsAreBatches, TypeOK, NEW S \in SUBSET Rows, NEW r \in Rows,
           r \notin Cascade(S), importId[r] \notin S
    PROVE  Unlinked(importId, S)[r] = importId[r]
<1>1. importId \in ImportIds
  BY DEF TypeOK
<1>2. CASE importId[r] = NoRow
  BY <1>1, <1>2, UnlinkedIds
<1>3. CASE importId[r] # NoRow
  <2>1. importId[r] = Batch[r]
    BY <1>3, ImportIdIsImport
  <2>2. Parent[importId[r]] = Parent[r] /\ Up(importId[r]) = NoRow
    BY <1>3, <2>1, TombstoneAssumption DEF ImportsHangFromAccounts
  <2>3. importId[r] \notin Cascade(S)
    BY <2>2, TombstoneAssumption DEF Cascade
  <2> QED
    BY <1>1, <2>3, UnlinkedIds
<1> QED
  BY <1>2, <1>3

\* The requests the worker has left after the first are those it had.
LEMMA StillAfterHead ==
    ASSUME TypeOK, sending.left # <<>>, sending' = [sending EXCEPT !.left = Tail(@)], NEW r
    PROVE  /\ StillToSend(r)' => StillToSend(r)
           /\ r \in Head(sending.left) => StillToSend(r)
           /\ StillToSend(r) => (r \in Head(sending.left) \/ StillToSend(r)')
<1>1. sending.left \in Seq(SUBSET Rows) /\ sending'.left = Tail(sending.left)
  BY DEF TypeOK, Push
<1>2. /\ Len(sending'.left) = Len(sending.left) - 1
      /\ Len(sending.left) \in Nat \ {0}
      /\ \A i \in 1..Len(sending'.left) : sending'.left[i] = sending.left[i + 1]
      /\ Head(sending.left) = sending.left[1]
  BY <1>1
<1>3. StillToSend(r)' => StillToSend(r)
  BY <1>2 DEF StillToSend
<1>4. r \in Head(sending.left) => StillToSend(r)
  BY <1>2 DEF StillToSend
<1>5. ASSUME NEW i \in 1..Len(sending.left), r \in sending.left[i], i # 1
      PROVE  StillToSend(r)'
  <2>1. i - 1 \in 1..Len(sending'.left) /\ sending'.left[i - 1] = sending.left[i]
    BY <1>2, <1>5
  <2> QED
    BY <1>5, <2>1 DEF StillToSend
<1> QED
  BY <1>2, <1>3, <1>4, <1>5 DEF StillToSend

\* What a deletion or an upsert in Postgres does to a row: its tombstone is the
\* newest stamp, or there is none, or nothing happens to it.
PostgresMoves ==
    /\ clock' = clock + 1
    /\ \A r \in Rows : \/ tombs'[r] = clock + 1 /\ cloud'[r] = 0
                       \/ tombs'[r] = 0 /\ cloud'[r] > 0 /\ cloud'[r] \in {clock + 1, cloud[r]}
                       \/ tombs'[r] = tombs[r] /\ cloud'[r] = cloud[r]

\* Deletes is such a step.
LEMMA DeletesMoves ==
    ASSUME TypeOK, NEW S, Deletes(S)
    PROVE  PostgresMoves
BY DeletesRows DEF PostgresMoves

\* So is Upserts: the rows it finds in Postgres have no tombstone.
LEMMA UpsertsMoves ==
    ASSUME TypeOK, BehindClock, TombstonesAreOfAbsentRows,
           NEW S, NEW ids \in ImportIds, Upserts(S, ids)
    PROVE  PostgresMoves
<1>1. clock \in Nat /\ \A r \in Rows : cloud[r] \in Nat /\ tombs[r] \in Nat
  BY DEF TypeOK
<1>2. \A r \in Rows : cloud[r] <= clock /\ (cloud[r] > 0 => tombs[r] = 0)
  BY DEF BehindClock, TombstonesAreOfAbsentRows
<1>3. clock' = clock + 1
  BY DEF Upserts
<1>4. ASSUME NEW r \in Rows, r \notin S
      PROVE  tombs'[r] = tombs[r] /\ cloud'[r] = cloud[r]
  BY <1>4, UpsertsRows
<1>5. ASSUME NEW r \in Rows, r \in S
      PROVE  tombs'[r] = 0 /\ cloud'[r] > 0 /\ cloud'[r] \in {clock + 1, cloud[r]}
  <2>1. /\ cloud'[r] \in {clock + 1, cloud[r]} /\ cloud'[r] > 0
        /\ tombs'[r] \in {0, tombs[r]}
    BY <1>5, UpsertsRows
  <2>2. cloud[r] = 0 => tombs'[r] = 0
    BY <1>1, <1>5, UpsertsRows
  <2> QED
    BY <1>1, <1>2, <2>1, <2>2
<1> QED
  BY <1>3, <1>4, <1>5 DEF PostgresMoves

\* The requests of the device and of the others are deletions and upserts.
LEMMA CloudMoves ==
    ASSUME TypeOK, BehindClock, TombstonesAreOfAbsentRows,
           \/ \E r \in Rows : ChangeElsewhere(r) \/ DeleteImportElsewhere(r)
           \/ SendRequest
    PROVE  PostgresMoves
<1>1. ASSUME NEW r \in Rows, ChangeElsewhere(r) PROVE PostgresMoves
  <2>1. \A b \in {Batch[r], NoRow} : [q \in Rows |-> b] \in ImportIds
    BY TombstoneAssumption DEF ImportIds
  <2>2. \/ \E S \in SUBSET Rows : Deletes(S)
        \/ \E b \in {Batch[r], NoRow} : Upserts({r}, [q \in Rows |-> b])
    BY <1>1 DEF ChangeElsewhere
  <2> QED
    BY <2>1, <2>2, DeletesMoves, UpsertsMoves
<1>2. ASSUME NEW b \in Rows, DeleteImportElsewhere(b) PROVE PostgresMoves
  BY <1>2, DeletesMoves DEF DeleteImportElsewhere
<1>3. ASSUME SendRequest PROVE PostgresMoves
  <2>1. \A e \in sending.entry : Written(e) \in ImportIds
    BY DEF TypeOK, Push, Entry, Written, ImportIds
  <2>2. \E e \in sending.entry : \/ \E S : Deletes(S)
                                 \/ Upserts(Head(sending.left), Written(e))
    BY <1>3 DEF SendRequest
  <2> QED
    BY <2>1, <2>2, DeletesMoves, UpsertsMoves
<1> QED
  BY <1>1, <1>2, <1>3

-------------------------------------------------------------------------------
(* One part of the invariant after the other                               *)

\* The clock of Postgres stays ahead, and a row in Postgres has no tombstone.
LEMMA ClockStep ==
    ASSUME IInv, [Next]_vars
    PROVE  BehindClock' /\ TombstonesAreOfAbsentRows'
<1> USE DEF BehindClock, TombstonesAreOfAbsentRows
<1>t. TypeOK /\ BehindClock /\ TombstonesAreOfAbsentRows
  BY DEF IInv
<1>n. /\ clock \in Nat /\ tombCursor \in Nat
      /\ \A r \in Rows : cloud[r] \in Nat /\ tombs[r] \in Nat /\ local[r] \in Nat
      /\ \A r \in Rows : journal.rows[r] \in Nat
      /\ \A e \in outbox : e.at \in Nat
      /\ \A t \in tombPage : t.deletedAt \in Nat
      /\ \A p \in rowPage : p.row \in Rows /\ p.stamp \in Nat
      /\ \A r \in Rows : rowCursor[r] \in Nat
  BY <1>t DEF TypeOK, Journal, Entry
<1>1. CASE UNCHANGED vars
  BY <1>1, <1>t DEF vars
<1>2. ASSUME NEW r \in Rows, Edit(r) PROVE BehindClock' /\ TombstonesAreOfAbsentRows'
  <2>1. /\ clock' = clock + 1
        /\ outbox' = outbox \cup {[op |-> "upsert", root |-> r, at |-> clock + 1]}
        /\ UNCHANGED <<cloud, tombs, tombVars, rowVars, journal>>
    BY <1>2 DEF Edit, Operate, Unsent
  <2>2. \A q \in Rows : local'[q] \in {clock + 1, local[q]}
    BY <1>2, <1>t DEF Edit, TypeOK
  <2> QED
    BY <1>t, <1>n, <2>1, <2>2
<1>3. ASSUME NEW b \in Rows, DeleteImport(b) PROVE BehindClock' /\ TombstonesAreOfAbsentRows'
  <2>1. \A r \in Rows : local'[r] \in {0, local[r]} /\ journal'.rows[r] \in {0, local[r]}
    <3>1. /\ local' = Without(local, Members(b) \cup {b})
          /\ journal'.rows = [r \in Rows |-> IF r \in Cascade(Members(b) \cup {b}) THEN local[r] ELSE 0]
      BY <1>3 DEF DeleteImport
    <3> QED
      BY <1>t, <3>1, WithoutRows DEF TypeOK
  <2>2. /\ clock' = clock + 1
        /\ outbox' = outbox \cup {[op |-> "delete", root |-> b, at |-> clock + 1]}
        /\ UNCHANGED <<cloud, tombs, tombVars, rowVars>>
    BY <1>3 DEF DeleteImport, Operate, Unsent
  <2> QED
    BY <1>t, <1>n, <2>1, <2>2
<1>4. ASSUME UndoDelete PROVE BehindClock' /\ TombstonesAreOfAbsentRows'
  <2>1. \A r \in Rows : local'[r] \in {0, local[r], journal.rows[r]}
    <3>1. local' = [r \in Rows |->
            IF journal.rows[r] > 0 THEN journal.rows[r]
            ELSE Without(local, {q \in Rows : journal.rows[q] > 0})[r]]
      BY <1>4 DEF UndoDelete
    <3> QED
      BY <1>t, <3>1, WithoutRows DEF TypeOK
  <2>2. /\ clock' = clock + 1
        /\ \A e \in outbox' : e \in outbox \/ e.at = clock + 1
        /\ UNCHANGED <<cloud, tombs, tombVars, rowVars>>
        /\ journal'.rows = journal.rows
    BY <1>4, <1>t DEF UndoDelete, Operate, Unsent, TypeOK, Journal
  <2> QED
    BY <1>t, <1>n, <2>1, <2>2
<1>5. CASE \/ \E r \in Rows : ChangeElsewhere(r) \/ DeleteImportElsewhere(r)
           \/ SendRequest
  <2>1. PostgresMoves
    BY <1>5, <1>t, CloudMoves
  <2>2. UNCHANGED <<local, outbox, journal, tombVars, rowVars>>
    BY <1>5 DEF ChangeElsewhere, DeleteImportElsewhere, SendRequest
  <2> QED
    BY <1>t, <1>n, <2>1, <2>2 DEF PostgresMoves
<1>7. ASSUME NEW e \in outbox, StartPush(e) PROVE BehindClock' /\ TombstonesAreOfAbsentRows'
  BY <1>7, <1>t DEF StartPush
<1>9. ASSUME PushDone PROVE BehindClock' /\ TombstonesAreOfAbsentRows'
  BY <1>9, <1>t DEF PushDone
<1>10. ASSUME PushFails PROVE BehindClock' /\ TombstonesAreOfAbsentRows'
  BY <1>10, <1>t DEF PushFails
<1>11. ASSUME NEW e \in outbox, RetryDue(e) PROVE BehindClock' /\ TombstonesAreOfAbsentRows'
  BY <1>11, <1>t DEF RetryDue
<1>12. ASSUME FetchTombstones PROVE BehindClock' /\ TombstonesAreOfAbsentRows'
  BY <1>12, <1>t DEF FetchTombstones
<1>13. ASSUME ApplyTombstones PROVE BehindClock' /\ TombstonesAreOfAbsentRows'
  BY <1>13, <1>t, WithoutRows DEF ApplyTombstones, TypeOK, NoPage
<1>14. ASSUME NEW r \in Rows, FetchRow(r) PROVE BehindClock' /\ TombstonesAreOfAbsentRows'
  BY <1>14, <1>t DEF FetchRow
<1>15. ASSUME ApplyRow PROVE BehindClock' /\ TombstonesAreOfAbsentRows'
  BY <1>15, <1>t DEF ApplyRow, NoPage, TypeOK
<1>16. ASSUME Restart PROVE BehindClock' /\ TombstonesAreOfAbsentRows'
  BY <1>16, <1>t DEF Restart, NoPage
<1> QED
  BY <1>1, <1>2, <1>3, <1>4, <1>5, <1>7, <1>9, <1>10, <1>11, <1>12,
     <1>13, <1>14, <1>15, <1>16 DEF Next

\* The pages in flight stay complete and fresh, but for the rows that cross.
LEMMA PagesStep ==
    ASSUME IInv, [Next]_vars
    PROVE  TombPageIsComplete' /\ RowPageIsFresh'
<1> USE DEF TombPageIsComplete, RowPageIsFresh
<1>t. /\ TypeOK /\ BehindClock /\ TombstonesAreOfAbsentRows
      /\ TombPageIsComplete /\ RowPageIsFresh
  BY DEF IInv
<1>n. /\ clock \in Nat /\ tombCursor \in Nat
      /\ \A r \in Rows : tombs[r] \in Nat
      /\ \A t \in tombPage : t.deletedAt \in Nat /\ t.deletedAt <= clock
      /\ \A p \in rowPage : p.row \in Rows /\ p.stamp \in Nat /\ p.stamp <= clock
      /\ tombCursor <= clock
  BY <1>t DEF TypeOK, BehindClock
<1>1. CASE UNCHANGED <<cloud, tombs, tombCursor, tombPage, rowPage, crossed>>
  BY <1>1, <1>t
<1>2. CASE \/ \E r \in Rows : ChangeElsewhere(r) \/ DeleteImportElsewhere(r)
           \/ SendRequest
  <2>1. PostgresMoves
    BY <1>2, <1>t, CloudMoves
  <2>2. UNCHANGED <<tombVars, rowVars>>
    BY <1>2 DEF ChangeElsewhere, DeleteImportElsewhere, SendRequest
  <2> QED
    BY <1>t, <1>n, <2>1, <2>2 DEF PostgresMoves
<1>3. CASE FetchTombstones
  <2>1. UNCHANGED <<rowPage, crossed, cloud, tombs, tombCursor>>
    BY <1>3 DEF FetchTombstones
  <2>2. tombPage' = {[row |-> r, deletedAt |-> tombs[r]] : r \in {q \in Rows : tombs[q] > tombCursor}}
    BY <1>3 DEF FetchTombstones
  <2> QED
    BY <1>t, <2>1, <2>2
<1>4. CASE ApplyTombstones
  <2>1. /\ tombPage' = {} /\ rowPage' = rowPage
        /\ \A p \in rowPage : p.row \in crossed'
    BY <1>4 DEF ApplyTombstones, NoPage
  <2> QED
    BY <1>t, <2>1
<1>5. ASSUME NEW r \in Rows, FetchRow(r) PROVE TombPageIsComplete' /\ RowPageIsFresh'
  <2>1. /\ UNCHANGED <<tombVars, crossed>>
        /\ rowPage' = {[row |-> r, stamp |-> cloud[r], batch |-> cloudImportId[r]]}
        /\ tombs' = tombs /\ tombs[r] = 0 /\ cloud' = cloud /\ cloud[r] > 0
    <3>1. cloud[r] > rowCursor[r] /\ rowCursor[r] \in Nat /\ cloud[r] \in Nat
      BY <1>5, <1>t DEF FetchRow, TypeOK
    <3>2. tombs[r] = 0 /\ cloud[r] > 0
      BY <3>1, <1>t DEF TombstonesAreOfAbsentRows
    <3> QED
      BY <1>5, <3>2 DEF FetchRow
  <2> QED
    BY <1>t, <2>1
<1>6. CASE ApplyRow \/ Restart
  <2>1. rowPage' = NoPage /\ (tombPage' = tombPage \/ tombPage' = NoPage)
    BY <1>6 DEF ApplyRow, Restart
  <2>2. tombs' = tombs /\ tombCursor' = tombCursor
    BY <1>6 DEF ApplyRow, Restart
  <2> QED
    BY <1>t, <2>1, <2>2 DEF NoPage
<1>7. CASE \/ UNCHANGED vars \/ \E r \in Rows : Edit(r) \/ DeleteImport(r)
           \/ UndoDelete \/ \E e \in outbox : StartPush(e) \/ RetryDue(e)
           \/ PushDone \/ PushFails
  <2>1. UNCHANGED <<cloud, tombs, tombCursor, tombPage, rowPage, crossed>>
    BY <1>7 DEF vars, Edit, DeleteImport, UndoDelete, Operate, StartPush, RetryDue,
                PushDone, PushFails
  <2> QED
    BY <1>1, <2>1
<1> QED
  BY <1>2, <1>3, <1>4, <1>5, <1>6, <1>7 DEF Next

-------------------------------------------------------------------------------
(* Clean rows                                                              *)

\* A row stays clean when it goes or stays as it is.
LEMMA CleanWithLess ==
    ASSUME NEW r \in Rows, Clean(r), local'[r] \in {0, local[r]},
           UNCHANGED <<cloud, tombs, tombCursor>>
    PROVE  Clean(r)'
BY DEF Clean

\* A deletion in Postgres makes the rows it takes clean, an upsert those it inserts.
LEMMA CleanUnderCloud ==
    ASSUME TypeOK, BehindClock, PostgresMoves, UNCHANGED <<local, tombCursor>>,
           NEW r \in Rows, Clean(r) \/ tombs'[r] # tombs[r] \/ cloud'[r] > 0
    PROVE  Clean(r)'
<1>1. /\ clock \in Nat /\ tombCursor \in Nat /\ tombs[r] \in Nat /\ local[r] \in Nat
      /\ local[r] <= clock /\ tombCursor <= clock
  BY DEF TypeOK, BehindClock
<1> QED
  BY <1>1 DEF PostgresMoves, Clean

\* Consuming a page keeps clean rows clean: what it passes, it deletes.
LEMMA CleanUnderTombstones ==
    ASSUME TypeOK, TombPageIsComplete, ApplyTombstones, NEW r \in Rows, Clean(r)
    PROVE  Clean(r)'
<1>1. /\ tombs[r] \in Nat /\ local[r] \in Nat /\ tombs' = tombs /\ cloud' = cloud
      /\ tombCursor \in Nat /\ local' = Without(local, Deletable)
  BY DEF TypeOK, ApplyTombstones
<1>2. local'[r] \in {0, local[r]} /\ (r \in Deletable => local'[r] = 0)
  <2>1. local \in [Rows -> Nat]
    BY DEF TypeOK
  <2> QED
    BY <1>1, <2>1, WithoutRows
<1>3. CASE ~CanAdvance
  BY <1>2, <1>3, CleanWithLess DEF ApplyTombstones
<1>4. CASE CanAdvance /\ ~(cloud[r] > 0) /\ local'[r] > 0
  <2>1. PICK t \in tombPage : tombCursor' = t.deletedAt
    BY <1>4 DEF ApplyTombstones
  <2>2. tombs[r] > tombCursor /\ local[r] <= tombs[r] /\ local'[r] = local[r]
    BY <1>1, <1>2, <1>4 DEF Clean
  <2>3. ASSUME tombs[r] <= t.deletedAt PROVE FALSE
    <3> DEFINE u == [row |-> r, deletedAt |-> tombs[r]]
    <3>1. u \in tombPage
      BY <2>2, <2>3 DEF TombPageIsComplete
    <3>2. ~Newer(u)
      BY <1>1, <2>2 DEF Newer
    <3>3. ~Blocked(u)
      BY <1>4, <3>1 DEF CanAdvance
    <3>4. r \in Deletable
      BY <3>1, <3>2, <3>3 DEF Deletable
    <3> QED
      BY <1>2, <1>4, <3>4
  <2>4. t.deletedAt \in Nat
    BY DEF TypeOK
  <2> QED
    BY <1>1, <2>1, <2>2, <2>3, <2>4 DEF Clean
<1>5. CASE cloud[r] > 0 \/ ~(local'[r] > 0)
  BY <1>1, <1>5 DEF Clean
<1> QED
  BY <1>3, <1>4, <1>5

\* A row fetched before it was deleted is clean when it arrives, unless it crossed.
LEMMA CleanUnderRow ==
    ASSUME TypeOK, RowPageIsFresh, ApplyRow, NEW r \in Rows \ crossed,
           Clean(r) \/ importId'[r] # importId[r]
    PROVE  Clean(r)'
<1>1. PICK p \in rowPage :
        \/ UNCHANGED <<localVars, rowCursor>>
        \/ /\ ~Refused(p)
           /\ local' = [local EXCEPT ![p.row] = IF IsOlder(p) THEN @ ELSE p.stamp]
           /\ importId' = [importId EXCEPT ![p.row] = IF IsOlder(p) THEN @ ELSE p.batch]
  BY DEF ApplyRow
<1>2. /\ p.row \in Rows /\ p.stamp \in Nat /\ local \in [Rows -> Nat]
      /\ tombs' = tombs /\ tombCursor' = tombCursor /\ cloud' = cloud
      /\ importId \in ImportIds
  BY DEF TypeOK, ApplyRow
<1>3. CASE local'[r] = local[r] /\ importId'[r] = importId[r]
  BY <1>2, <1>3 DEF Clean
<1>4. CASE r = p.row /\ local'[r] = p.stamp
  BY <1>2, <1>4 DEF Clean, RowPageIsFresh
<1> QED
  BY <1>1, <1>2, <1>3, <1>4 DEF ImportIds

-------------------------------------------------------------------------------
(* Imports                                                                 *)

\* A deletion in Postgres keeps the import_ids of the others, or clears them.
LEMMA DeletesIds ==
    ASSUME TypeOK, NEW S, Deletes(S), NEW r \in Rows
    PROVE  cloudImportId'[r] \in {NoRow, cloudImportId[r]}
<1>1. cloudImportId \in ImportIds /\ cloudImportId' = Unlinked(cloudImportId, S)
  BY DEF TypeOK, Deletes
<1> QED
  BY <1>1, UnlinkedIds

\* The import_ids stay those that the rows came with.
LEMMA ImportIdsStep ==
    ASSUME IInv, [Next]_vars
    PROVE  ImportIdsAreBatches'
<1> USE DEF ImportIdsAreBatches
<1>t. TypeOK /\ ImportIdsAreBatches
  BY DEF IInv
<1>c. \A r \in Rows : cloudImportId[r] \in {NoRow, Batch[r]} /\ importId[r] \in {NoRow, Batch[r]}
  BY <1>t
<1>1. CASE UNCHANGED <<cloudImportId, importId, rowPage, journal, sending>>
  BY <1>1, <1>t DEF StillToSend
<1>2. ASSUME NEW b \in Rows, DeleteImport(b) PROVE ImportIdsAreBatches'
  <2>1. /\ importId' = Unlinked(importId, Members(b) \cup {b}) /\ importId \in ImportIds
        /\ journal'.members = Members(b) /\ journal'.root = b
        /\ UNCHANGED <<cloudImportId, rowPage, sending>>
    BY <1>2, <1>t DEF DeleteImport, Operate, TypeOK
  <2>2. \A r \in Rows : importId'[r] \in {NoRow, importId[r]}
    BY <2>1, UnlinkedIds
  <2>3. \A r \in journal'.members : Batch[r] = b
    BY <1>c, <2>1, TombstoneAssumption DEF Members
  <2> QED
    BY <1>t, <1>c, <2>1, <2>2, <2>3 DEF StillToSend
<1>3. CASE UndoDelete
  <2> DEFINE restored == {r \in Rows : journal.rows[r] > 0}
  <2>1. /\ importId' = [r \in Rows |->
            IF r \in restored THEN (IF r \in journal.members THEN journal.root ELSE NoRow)
            ELSE Unlinked(importId, restored)[r]]
        /\ importId \in ImportIds
        /\ journal'.members = journal.members /\ journal'.root = journal.root
        /\ UNCHANGED <<cloudImportId, rowPage, sending>>
    BY <1>3, <1>t DEF UndoDelete, Operate, TypeOK, Journal
  <2>2. \A r \in Rows : Unlinked(importId, restored)[r] \in {NoRow, importId[r]}
    BY <2>1, UnlinkedIds
  <2>3. \A r \in Rows : importId'[r] \in {NoRow, Batch[r]}
    BY <1>t, <1>c, <2>1, <2>2
  <2> QED
    BY <1>t, <2>1, <2>3 DEF StillToSend
<1>4. ASSUME NEW r \in Rows, ChangeElsewhere(r) \/ DeleteImportElsewhere(r)
      PROVE  ImportIdsAreBatches'
  <2>1. UNCHANGED <<importId, rowPage, journal, sending>>
    BY <1>4 DEF ChangeElsewhere, DeleteImportElsewhere
  <2>2. CASE \E S : Deletes(S)
    <3>1. \A q \in Rows : cloudImportId'[q] \in {NoRow, cloudImportId[q]}
      BY <1>t, <2>2, DeletesIds
    <3> QED
      BY <1>t, <2>1, <3>1 DEF StillToSend
  <2>3. CASE \E b \in {Batch[r], NoRow} : Upserts({r}, [q \in Rows |-> b])
    <3>1. \A q \in Rows : cloudImportId'[q] \in {NoRow, Batch[q]}
      BY <1>c, <2>3 DEF Upserts
    <3> QED
      BY <1>t, <2>1, <3>1 DEF StillToSend
  <2> QED
    BY <1>4, <2>2, <2>3 DEF ChangeElsewhere, DeleteImportElsewhere
<1>5. ASSUME NEW e \in outbox, StartPush(e) PROVE ImportIdsAreBatches'
  <2>1. /\ sending' = [entry |-> {e}, left |-> Requests(e)]
        /\ UNCHANGED <<cloudImportId, importId, rowPage, journal>>
    BY <1>5 DEF StartPush
  <2>2. ASSUME NEW r \in Rows, StillToSend(r)'
        PROVE  r \in Taken(e)
    <3>1. PICK i \in 1..Len(Requests(e)) : r \in Requests(e)[i]
      BY <2>1, <2>2 DEF StillToSend
    <3>2. Requests(e) \in {<<>>, <<{e.root}>>, <<{e.root}, Members(e.root)>>,
                           <<{q \in Rows : Batch[q] = e.root}, {e.root}>>}
      BY <2>2 DEF Requests
    <3>3. r = e.root \/ r \in Members(e.root) \/ Batch[r] = e.root
      BY <3>1, <3>2
    <3>4. e.root # NoRow
      BY <1>t, TombstoneAssumption DEF TypeOK, Entry
    <3> QED
      BY <1>c, <3>3, <3>4 DEF Members, Taken
  <2> QED
    BY <1>t, <2>1, <2>2
<1>6. CASE SendRequest
  <2>1. /\ sending.left # <<>> /\ sending' = [sending EXCEPT !.left = Tail(@)]
        /\ UNCHANGED <<importId, rowPage, journal>>
    BY <1>6 DEF SendRequest
  <2>2. sending'.entry = sending.entry
    BY <1>t, <2>1 DEF TypeOK, Push
  <2>3. \A r \in Rows : StillToSend(r)' => StillToSend(r)
    BY <1>t, <2>1, StillAfterHead
  <2>4. \A q \in Rows : cloudImportId'[q] \in {NoRow, Batch[q]}
    <3>1. CASE \E S : Deletes(S)
      BY <1>t, <1>c, <3>1, DeletesIds
    <3>2. ASSUME NEW e \in sending.entry, e.op = "upsert", Upserts(Head(sending.left), Written(e))
          PROVE  \A q \in Rows : cloudImportId'[q] \in {NoRow, Batch[q]}
      <4>1. \A q \in Rows : q \in Head(sending.left) => q = e.root \/ Batch[q] = e.root
        BY <1>t, <2>1, <3>2, StillAfterHead DEF Taken
      <4>2. \A q \in Rows : cloudImportId'[q] =
                IF q \in Head(sending.left) THEN Written(e)[q] ELSE cloudImportId[q]
        BY <3>2 DEF Upserts
      <4> QED
        BY <1>c, <4>1, <4>2 DEF Written
    <3> QED
      BY <1>6, <3>1, <3>2 DEF SendRequest
  <2> QED
    BY <1>t, <2>1, <2>2, <2>3, <2>4
<1>7. CASE ApplyTombstones
  <2>1. /\ importId' = Unlinked(importId, Deletable) /\ importId \in ImportIds
        /\ UNCHANGED <<cloudImportId, rowPage, journal, sending>>
    BY <1>7, <1>t DEF ApplyTombstones, TypeOK
  <2>2. \A r \in Rows : importId'[r] \in {NoRow, importId[r]}
    BY <2>1, UnlinkedIds
  <2> QED
    BY <1>t, <2>1, <2>2 DEF StillToSend
<1>8. ASSUME NEW r \in Rows, FetchRow(r) PROVE ImportIdsAreBatches'
  BY <1>8, <1>t DEF FetchRow, StillToSend
<1>9. CASE ApplyRow
  <2>1. PICK p \in rowPage :
        \/ UNCHANGED importId
        \/ importId' = [importId EXCEPT ![p.row] = IF IsOlder(p) THEN @ ELSE p.batch]
    BY <1>9 DEF ApplyRow
  <2>2. rowPage' = {} /\ UNCHANGED <<cloudImportId, journal, sending>>
    BY <1>9 DEF ApplyRow, NoPage
  <2>3. \A r \in Rows : importId'[r] \in {NoRow, Batch[r]}
    BY <1>t, <1>c, <2>1 DEF TypeOK, ImportIds
  <2> QED
    BY <1>t, <2>2, <2>3 DEF StillToSend
<1>10. CASE PushDone \/ PushFails \/ Restart
  <2>1. /\ UNCHANGED <<cloudImportId, importId, journal>> /\ sending'.entry = {}
        /\ rowPage' = {} \/ rowPage' = rowPage
    BY <1>10 DEF PushDone, PushFails, Restart, NotSending, NoPage
  <2> QED
    BY <1>t, <2>1
<1>11. CASE \/ UNCHANGED vars \/ \E r \in Rows : Edit(r)
            \/ \E e \in outbox : RetryDue(e)
  <2>1. UNCHANGED <<cloudImportId, importId, rowPage, sending, journal>>
    BY <1>11 DEF vars, Edit, Operate, RetryDue
  <2> QED
    BY <1>1, <2>1
<1>12. CASE FetchTombstones
  BY <1>1, <1>12 DEF FetchTombstones
<1> QED
  BY <1>2, <1>3, <1>4, <1>5, <1>6, <1>7, <1>8, <1>9, <1>10, <1>11, <1>12 DEF Next

\* Deleting rows, and what hangs from them, leaves no transaction that names an
\* import which is gone.
LEMMA HeldWithout ==
    ASSUME TypeOK, ImportIdsAreBatches, ImportIsHeld, NEW S, NEW r \in Rows,
           Unlinked(importId, S)[r] # NoRow
    PROVE  /\ Unlinked(importId, S)[r] = importId[r]
           /\ Without(local, S)[r] = local[r] /\ local[r] > 0
           /\ importId[r] \in Rows
           /\ Without(local, S)[importId[r]] = local[importId[r]] /\ local[importId[r]] > 0
<1>1. importId \in ImportIds /\ local \in [Rows -> Nat]
  BY DEF TypeOK
<1>2. /\ r \notin Cascade(S) /\ importId[r] \notin Cascade(S)
      /\ Unlinked(importId, S)[r] = importId[r]
  BY <1>1, UnlinkedIds
<1>3. importId[r] \in Rows
  BY <1>1, <1>2 DEF ImportIds
<1> QED
  BY <1>1, <1>2, <1>3, WithoutRows DEF ImportIsHeld

\* The device has the import of every transaction that names one.
LEMMA HeldStep ==
    ASSUME IInv, [Next]_vars
    PROVE  ImportIsHeld'
<1>t. TypeOK /\ ImportIdsAreBatches /\ ImportIsHeld /\ JournalIsApart
  BY DEF IInv
<1>n. importId \in ImportIds /\ local \in [Rows -> Nat]
  BY <1>t DEF TypeOK
<1>1. CASE UNCHANGED localVars
  BY <1>1, <1>t DEF ImportIsHeld
<1>2. ASSUME NEW r \in Rows, Edit(r) PROVE ImportIsHeld'
  <2>1. local' = [local EXCEPT ![r] = clock + 1] /\ importId' = importId /\ clock \in Nat
    BY <1>2, <1>t DEF Edit, TypeOK
  <2>2. \A q \in Rows : local[q] > 0 => local'[q] > 0
    BY <1>n, <2>1
  <2> QED
    BY <1>t, <1>n, <2>1, <2>2 DEF ImportIsHeld, ImportIds
<1>3. ASSUME NEW S, local' = Without(local, S), importId' = Unlinked(importId, S)
      PROVE  ImportIsHeld'
  BY <1>3, <1>t, HeldWithout DEF ImportIsHeld
<1>4. CASE UndoDelete
  <2> DEFINE restored == {r \in Rows : journal.rows[r] > 0}
  <2>1. /\ importId' = [r \in Rows |->
            IF r \in restored THEN (IF r \in journal.members THEN journal.root ELSE NoRow)
            ELSE Unlinked(importId, restored)[r]]
        /\ local' = [r \in Rows |->
            IF r \in restored THEN journal.rows[r] ELSE Without(local, restored)[r]]
        /\ journal.root # NoRow
    BY <1>4 DEF UndoDelete
  <2>2. journal.root \in restored
    BY <1>t, <2>1, ImportsAreRows DEF JournalIsApart
  <2>3. \A q \in restored : local'[q] > 0
    BY <2>1
  <2>4. ASSUME NEW r \in Rows, importId'[r] # NoRow
        PROVE  local'[r] > 0 /\ local'[importId'[r]] > 0
    <3>1. CASE r \in restored
      BY <2>1, <2>2, <2>3, <2>4, <3>1
    <3>2. CASE r \notin restored
      <4>1. importId'[r] = Unlinked(importId, restored)[r]
        BY <2>1, <3>2
      <4>2. /\ importId'[r] = importId[r] /\ importId[r] \in Rows
            /\ Without(local, restored)[r] > 0
            /\ Without(local, restored)[importId[r]] > 0
        BY <1>t, <2>4, <4>1, HeldWithout
      <4> QED
        BY <2>1, <2>3, <3>2, <4>2
    <3> QED
      BY <3>1, <3>2
  <2> QED
    BY <2>4 DEF ImportIsHeld
<1>5. CASE ApplyRow
  <2>1. PICK p \in rowPage :
        \/ UNCHANGED localVars
        \/ /\ ~Refused(p)
           /\ local' = [local EXCEPT ![p.row] = IF IsOlder(p) THEN @ ELSE p.stamp]
           /\ importId' = [importId EXCEPT ![p.row] = IF IsOlder(p) THEN @ ELSE p.batch]
    BY <1>5 DEF ApplyRow
  <2>2. /\ p.row \in Rows /\ p.stamp \in Nat
        /\ p.batch \in {NoRow, Batch[p.row]}
    BY <1>t DEF TypeOK, ImportIdsAreBatches
  <2>3. CASE UNCHANGED localVars
    BY <1>1, <2>3
  <2>4. CASE ~UNCHANGED localVars /\ ~IsOlder(p)
    <3>1. ~Orphans({p.row}, [r \in Rows |-> p.batch], local)
      BY <2>1, <2>4 DEF Refused
    <3>2. p.batch # NoRow => p.batch \in Rows /\ p.batch # p.row /\ local[p.batch] > 0
      <4>1. p.batch # NoRow => p.batch \in Imports /\ p.batch \in Rows /\ Batch[p.batch] = NoRow
        BY <2>2, ImportsStandApart DEF Imports
      <4>2. p.batch # NoRow => p.batch # p.row
        BY <2>2, <4>1
      <4>3. p.batch # NoRow => local[p.batch] # 0
        BY <2>2, <3>1, <4>1, <4>2 DEF Orphans
      <4> QED
        BY <1>n, <4>1, <4>2, <4>3
    <3>3. /\ local' = [local EXCEPT ![p.row] = p.stamp]
          /\ importId' = [importId EXCEPT ![p.row] = p.batch]
          /\ p.stamp > 0
      BY <1>n, <2>1, <2>2, <2>4 DEF IsOlder
    <3>4. \A q \in Rows : local[q] > 0 => local'[q] > 0
      BY <1>n, <3>3
    <3> QED
      BY <1>t, <1>n, <2>2, <3>2, <3>3, <3>4 DEF ImportIsHeld, ImportIds
  <2>5. CASE IsOlder(p)
    BY <1>1, <1>n, <2>1, <2>5 DEF ImportIds
  <2> QED
    BY <2>3, <2>4, <2>5
<1>6. ASSUME NEW b \in Rows, DeleteImport(b) PROVE ImportIsHeld'
  BY <1>3, <1>6 DEF DeleteImport
<1>7. CASE ApplyTombstones
  BY <1>3, <1>7 DEF ApplyTombstones
<1>8. CASE \/ UNCHANGED vars
           \/ \E r \in Rows : ChangeElsewhere(r) \/ DeleteImportElsewhere(r) \/ FetchRow(r)
           \/ \E e \in outbox : StartPush(e) \/ RetryDue(e)
           \/ SendRequest \/ PushDone \/ PushFails \/ FetchTombstones \/ Restart
  <2>1. UNCHANGED localVars
    BY <1>8 DEF vars, ChangeElsewhere, DeleteImportElsewhere, FetchRow, StartPush, RetryDue,
                SendRequest, PushDone, PushFails, FetchTombstones, Restart
  <2> QED
    BY <1>1, <2>1
<1> QED
  BY <1>2, <1>4, <1>5, <1>6, <1>7, <1>8 DEF Next

\* The journal stays apart from the rows that other imports brought.
LEMMA JournalStep ==
    ASSUME IInv, [Next]_vars
    PROVE  JournalIsApart'
<1>t. /\ TypeOK /\ BehindClock /\ TombstonesAreOfAbsentRows /\ TombPageIsComplete
      /\ RowPageIsFresh /\ ImportIdsAreBatches /\ JournalIsApart
  BY DEF IInv
<1>n. /\ importId \in ImportIds /\ local \in [Rows -> Nat] /\ journal \in Journal
      /\ clock \in Nat
  BY <1>t DEF TypeOK
<1>1. ASSUME journal' = journal,
             crossed \subseteq crossed',
             \A r \in Rows \ crossed : importId'[r] # NoRow =>
                Clean(r)' \/ (importId'[r] = importId[r] /\ (Clean(r) => Clean(r)'))
      PROVE  JournalIsApart'
  BY <1>1, <1>t DEF JournalIsApart
<1>2. ASSUME NEW r \in Rows, Edit(r) PROVE JournalIsApart'
  <2>1. /\ local' = [local EXCEPT ![r] = clock + 1] /\ importId' = importId /\ journal' = journal
        /\ UNCHANGED <<cloud, tombs, tombCursor>>
    BY <1>2 DEF Edit, Operate
  <2>2. importId[r] = NoRow
    BY <1>2, <1>t, TombstoneAssumption DEF Edit, ImportIdsAreBatches
  <2>3. \A q \in Rows : q # r => local'[q] = local[q]
    BY <1>n, <2>1
  <2>4. \A q \in Rows : q # r => (Clean(q) => Clean(q)')
    BY <2>1, <2>3 DEF Clean
  <2> QED
    BY <1>1, <1>2, <2>1, <2>2, <2>4 DEF Edit, Operate
<1>3. ASSUME NEW b \in Rows, DeleteImport(b) PROVE JournalIsApart'
  <2> DEFINE gone == Members(b) \cup {b}
  <2>1. /\ journal' = [rows |-> [r \in Rows |-> IF r \in Cascade(gone) THEN local[r] ELSE 0],
                       members |-> Members(b), root |-> b, undone |-> 0]
        /\ importId' = Unlinked(importId, gone)
        /\ b \in Imports /\ local[b] > 0
    BY <1>3 DEF DeleteImport
  <2>2. b \in Cascade(gone) /\ b # NoRow /\ gone \in SUBSET Rows
    BY TombstoneAssumption DEF Cascade, Members
  <2>3. \A r \in Rows : importId'[r] # b
    <3>1. \A r \in Rows : importId[r] = b => importId'[r] = NoRow
      BY <1>n, <2>1, <2>2, UnlinkedIds
    <3>2. \A r \in Rows : importId'[r] \in {NoRow, importId[r]}
      BY <1>n, <2>1, UnlinkedIds
    <3> QED
      BY <2>2, <3>1, <3>2
  <2>4. ASSUME NEW r \in Imports, journal'.rows[r] > 0
        PROVE  r = b
    <3>1. /\ r \in Rows /\ Batch[r] = NoRow /\ Up(r) = NoRow
          /\ Parent[r] # NoRow => Batch[Parent[r]] = NoRow /\ Parent[r] \notin Imports
      BY <2>4, ImportsStandApart
    <3>2. r \in Cascade(gone)
      BY <2>1, <2>4, <3>1
    <3>3. r \in gone
      <4>1. Parent[r] \notin gone
        <5>1. NoRow \notin gone
          BY <2>2, TombstoneAssumption
        <5>2. ASSUME Parent[r] \in Members(b) PROVE FALSE
          BY <1>t, <2>2, <3>1, <5>1, <5>2 DEF Members, ImportIdsAreBatches
        <5> QED
          BY <2>1, <3>1, <5>1, <5>2
      <4>2. Up(r) \notin gone
        BY <2>2, <3>1, TombstoneAssumption
      <4> QED
        BY <3>2, <4>1, <4>2 DEF Cascade
    <3>4. importId[r] # b
      BY <1>t, <2>2, <3>1 DEF ImportIdsAreBatches
    <3> QED
      BY <3>3, <3>4 DEF Members
  <2>5. journal'.rows[b] > 0 /\ journal'.root = b
    BY <2>1, <2>2
  <2> QED
    BY <2>1, <2>3, <2>4, <2>5 DEF JournalIsApart
<1>4. CASE UndoDelete
  <2>1. journal' = [journal EXCEPT !.undone = clock + 1]
    BY <1>4 DEF UndoDelete
  <2>2. journal'.root = journal.root /\ journal'.rows = journal.rows /\ journal'.undone # 0
    BY <1>n, <2>1 DEF Journal
  <2> QED
    BY <1>t, <2>2 DEF JournalIsApart
<1>5. CASE \/ \E r \in Rows : ChangeElsewhere(r) \/ DeleteImportElsewhere(r)
           \/ SendRequest
  <2>1. PostgresMoves
    BY <1>5, <1>t, CloudMoves
  <2>2. UNCHANGED <<local, importId, journal, tombCursor, crossed>>
    BY <1>5 DEF ChangeElsewhere, DeleteImportElsewhere, SendRequest
  <2>3. \A r \in Rows : Clean(r) => Clean(r)'
    BY <1>t, <2>1, <2>2, CleanUnderCloud
  <2> QED
    BY <1>1, <2>2, <2>3
<1>6. CASE ApplyTombstones
  <2>1. /\ importId' = Unlinked(importId, Deletable) /\ journal' = journal
        /\ crossed \subseteq crossed'
    BY <1>6 DEF ApplyTombstones
  <2>2. \A r \in Rows : Clean(r) => Clean(r)'
    BY <1>6, <1>t, CleanUnderTombstones
  <2> QED
    BY <1>1, <1>n, <2>1, <2>2, UnlinkedIds
<1>7. CASE ApplyRow
  <2>1. \A r \in Rows \ crossed : (Clean(r) \/ importId'[r] # importId[r]) => Clean(r)'
    BY <1>7, <1>t, CleanUnderRow
  <2>2. journal' = journal /\ crossed \subseteq crossed'
    BY <1>7 DEF ApplyRow
  <2> QED
    BY <1>1, <2>1, <2>2
<1>8. CASE \/ UNCHANGED vars \/ \E r \in Rows : FetchRow(r)
           \/ \E e \in outbox : StartPush(e) \/ RetryDue(e)
           \/ PushDone \/ PushFails \/ FetchTombstones \/ Restart
  <2>1. UNCHANGED <<local, importId, journal, cloud, tombs, tombCursor, crossed>>
    BY <1>8 DEF vars, FetchRow, StartPush, RetryDue, PushDone, PushFails,
                FetchTombstones, Restart
  <2> QED
    BY <1>1, <2>1 DEF Clean
<1> QED
  BY <1>2, <1>3, <1>4, <1>5, <1>6, <1>7, <1>8 DEF Next

-------------------------------------------------------------------------------
(* Rows that are not clean                                                 *)

\* A step that does not touch the push in progress keeps every row covered when
\* a row it leaves unclean is covered anew, or was so and has kept its import.
LEMMA CoverStays ==
    ASSUME OutboxCovers, SendingCovers, sending' = sending, outbox \subseteq outbox',
           crossed \subseteq crossed',
           \A r \in Rows \ crossed' :
                \/ Clean(r)'
                \/ \E e \in outbox' \ outbox :
                        e.op = "upsert" /\ (e.root = r \/ e.root = importId'[r])
                \/ /\ ~Clean(r)
                   /\ \A e \in outbox : e.root = importId[r] => e.root = importId'[r]
    PROVE  OutboxCovers' /\ SendingCovers'
<1>1. OutboxCovers'
  BY DEF OutboxCovers, CoveredBy
<1>2. /\ sending'.entry \subseteq outbox'
      /\ sending'.entry = {} <=> sending' = NotSending
      /\ \A e, f \in sending'.entry : e = f
  BY DEF SendingCovers
<1>3. ASSUME NEW r \in Rows \ crossed', ~Clean(r)'
      PROVE  \/ CoveredBy(r, outbox \ sending.entry)'
             \/ StillToSend(r)' /\ \E e \in sending'.entry : e.op = "upsert"
  <2>1. StillToSend(r)' <=> StillToSend(r)
    BY DEF StillToSend
  <2>2. outbox' \ outbox \subseteq outbox' \ sending'.entry
    BY DEF SendingCovers
  <2>3. CASE \E e \in outbox' \ outbox :
                e.op = "upsert" /\ (e.root = r \/ e.root = importId'[r])
    BY <2>2, <2>3 DEF CoveredBy
  <2>4. CASE /\ ~Clean(r)
             /\ \A e \in outbox : e.root = importId[r] => e.root = importId'[r]
    BY <2>1, <2>4 DEF SendingCovers, CoveredBy
  <2> QED
    BY <1>3, <2>3, <2>4
<1> QED
  BY <1>1, <1>2, <1>3 DEF SendingCovers

\* The requests of an upsert reach every row it covers.
LEMMA RequestsReach ==
    ASSUME TypeOK, ImportIdsAreBatches, ImportIsHeld,
           NEW e \in Entry, e.op = "upsert", NEW r \in Rows, local[r] > 0,
           e.root = r \/ e.root = importId[r]
    PROVE  \E i \in 1..Len(Requests(e)) : r \in Requests(e)[i]
<1>1. local[e.root] > 0 /\ e.root \in Rows
  BY TombstoneAssumption DEF Entry, ImportIsHeld
<1>2. local[e.root] # 0 /\ e.op # "delete"
  BY <1>1
<1>3. CASE e.root \in Imports
  <2>1. Requests(e) = <<{e.root}, Members(e.root)>>
    BY <1>2, <1>3 DEF Requests
  <2>2. Len(Requests(e)) = 2 /\ Requests(e)[1] = {e.root} /\ Requests(e)[2] = Members(e.root)
    BY <2>1
  <2>3. r = e.root \/ r \in Members(e.root)
    BY DEF Members
  <2>4. CASE r = e.root
    BY <2>2, <2>4
  <2>5. CASE r \in Members(e.root)
    BY <2>2, <2>5
  <2> QED
    BY <2>3, <2>4, <2>5
<1>4. CASE e.root \notin Imports
  <2>1. Requests(e) = <<{e.root}>>
    BY <1>2, <1>4 DEF Requests
  <2>2. e.root = r
    <3>1. ASSUME e.root = importId[r] PROVE FALSE
      <4>1. importId[r] = Batch[r] /\ importId[r] # NoRow
        BY <1>1, <3>1, TombstoneAssumption DEF ImportIdsAreBatches
      <4> QED
        BY <1>4, <3>1, <4>1 DEF Imports
    <3> QED
      BY <3>1
  <2>3. Len(Requests(e)) = 1 /\ Requests(e)[1] = {r}
    BY <2>1, <2>2
  <2> QED
    BY <2>3
<1> QED
  BY <1>3, <1>4

\* A row that is not clean stays covered by an upsert, and by the requests left.
LEMMA CoverStep ==
    ASSUME IInv, [Next]_vars
    PROVE  OutboxCovers' /\ SendingCovers'
<1>t. /\ TypeOK /\ BehindClock /\ TombstonesAreOfAbsentRows /\ TombPageIsComplete
      /\ RowPageIsFresh /\ ImportIdsAreBatches /\ ImportIsHeld /\ JournalIsApart
      /\ OutboxCovers /\ SendingCovers
  BY DEF IInv
<1>n. /\ importId \in ImportIds /\ local \in [Rows -> Nat] /\ journal \in Journal
      /\ outbox \in SUBSET Entry /\ clock \in Nat
  BY <1>t DEF TypeOK
<1>f. ASSUME NEW r
      PROVE  /\ Unsent("upsert", r) \notin outbox
             /\ Unsent("upsert", r).op = "upsert" /\ Unsent("upsert", r).root = r
  <2>1. Unsent("upsert", r).at = clock + 1 /\ ~(clock + 1 <= clock)
    BY <1>n DEF Unsent
  <2>2. Unsent("upsert", r) \notin outbox
    BY <1>t, <2>1 DEF BehindClock
  <2> QED
    BY <2>2 DEF Unsent
<1>1. ASSUME NEW r \in Rows, Edit(r) PROVE OutboxCovers' /\ SendingCovers'
  <2>1. /\ local' = [local EXCEPT ![r] = clock + 1] /\ importId' = importId
        /\ outbox' = outbox \cup {Unsent("upsert", r)}
        /\ UNCHANGED <<cloud, tombs, tombCursor, sending, crossed>>
    BY <1>1 DEF Edit, Operate
  <2>2. \A q \in Rows : q # r => (Clean(q) => Clean(q)')
    <3>1. \A q \in Rows : q # r => local'[q] = local[q]
      BY <1>n, <2>1
    <3> QED
      BY <2>1, <3>1 DEF Clean
  <2>3. \E e \in outbox' \ outbox : e.op = "upsert" /\ e.root = r
    BY <1>f, <2>1
  <2> QED
    BY <1>t, <2>1, <2>2, <2>3, CoverStays
<1>2. ASSUME NEW b \in Rows, DeleteImport(b) PROVE OutboxCovers' /\ SendingCovers'
  <2> DEFINE gone == Members(b) \cup {b}
  <2>1. /\ local' = Without(local, gone) /\ importId' = Unlinked(importId, gone)
        /\ outbox \subseteq outbox' /\ UNCHANGED <<cloud, tombs, tombCursor, sending, crossed>>
        /\ gone \in SUBSET Rows
    BY <1>2 DEF DeleteImport, Operate, Members
  <2>2. \A r \in Rows : Clean(r) => Clean(r)'
    BY <1>n, <2>1, WithoutRows, CleanWithLess
  <2>3. ASSUME NEW r \in Rows, ~Clean(r)'
        PROVE  importId'[r] = importId[r]
    <3>1. r \notin Cascade(gone)
      BY <1>n, <2>1, <2>3, WithoutRows DEF Clean
    <3>2. importId[r] \notin gone
      <4>1. importId[r] # b
        BY <3>1 DEF Cascade, Members
      <4>2. importId[r] \notin Members(b)
        BY <1>t, ImportIdIsImport, TombstoneAssumption DEF Members
      <4> QED
        BY <4>1, <4>2
    <3> QED
      BY <1>t, <2>1, <3>1, <3>2, ImportIdStays
  <2> QED
    BY <1>t, <2>1, <2>2, <2>3, CoverStays
<1>3. CASE UndoDelete
  <2> DEFINE restored == {r \in Rows : journal.rows[r] > 0}
             below == restored \ (journal.members \cup {journal.root})
  <2>1. /\ importId' = [r \in Rows |->
            IF r \in restored THEN (IF r \in journal.members THEN journal.root ELSE NoRow)
            ELSE Unlinked(importId, restored)[r]]
        /\ local' = [r \in Rows |->
            IF r \in restored THEN journal.rows[r] ELSE Without(local, restored)[r]]
        /\ outbox' = outbox \cup {Unsent("upsert", r) : r \in below \cup {journal.root}}
        /\ journal.root # NoRow /\ journal.undone = 0
        /\ UNCHANGED <<cloud, tombs, tombCursor, sending, crossed>>
    BY <1>3 DEF UndoDelete, Operate
  <2>2. \A q \in below \cup {journal.root} :
            \E e \in outbox' \ outbox : e.op = "upsert" /\ e.root = q
    BY <1>f, <2>1
  <2>3. ASSUME NEW r \in restored
        PROVE  \E e \in outbox' \ outbox :
                    e.op = "upsert" /\ (e.root = r \/ e.root = importId'[r])
    <3>1. CASE r \in journal.members
      BY <2>1, <2>2, <3>1
    <3>2. CASE r \notin journal.members
      BY <2>2, <3>2
    <3> QED
      BY <3>1, <3>2
  <2>4. ASSUME NEW r \in Rows \ crossed, r \notin restored, ~Clean(r)'
        PROVE  ~Clean(r) /\ importId'[r] = importId[r]
    <3>1. local'[r] = Without(local, restored)[r] /\ importId'[r] = Unlinked(importId, restored)[r]
      BY <2>1, <2>4
    <3>2. Without(local, restored)[r] \in {0, local[r]} /\ r \notin Cascade(restored)
      BY <1>n, <2>1, <2>4, <3>1, WithoutRows DEF Clean
    <3>3. ~Clean(r)
      BY <2>1, <2>4, <3>1, <3>2, CleanWithLess
    <3>4. importId[r] \notin restored
      <4>1. ASSUME importId[r] \in restored PROVE FALSE
        <5>1. importId[r] \in Imports
          BY <1>t, <4>1, ImportIdIsImport, TombstoneAssumption
        <5>2. importId[r] = journal.root
          BY <1>t, <2>1, <4>1, <5>1 DEF JournalIsApart
        <5> QED
          BY <1>t, <2>1, <3>3, <5>2 DEF JournalIsApart
      <4> QED
        BY <4>1
    <3>5. Unlinked(importId, restored)[r] = importId[r]
      BY <1>t, <3>2, <3>4, ImportIdStays
    <3> QED
      BY <3>1, <3>3, <3>5
  <2> QED
    BY <1>t, <2>1, <2>3, <2>4, CoverStays
<1>4. ASSUME NEW r \in Rows, ChangeElsewhere(r) \/ DeleteImportElsewhere(r)
      PROVE  OutboxCovers' /\ SendingCovers'
  <2>1. PostgresMoves /\ UNCHANGED <<deviceVars, tombVars, crossed>>
    BY <1>4, <1>t, CloudMoves DEF ChangeElsewhere, DeleteImportElsewhere
  <2>2. \A q \in Rows : Clean(q) => Clean(q)'
    BY <1>t, <2>1, CleanUnderCloud
  <2> QED
    BY <1>t, <2>1, <2>2, CoverStays
<1>5. CASE ApplyTombstones
  <2>1. /\ local' = Without(local, Deletable) /\ importId' = Unlinked(importId, Deletable)
        /\ UNCHANGED <<outbox, sending>> /\ crossed \subseteq crossed'
    BY <1>5 DEF ApplyTombstones
  <2>2. \A r \in Rows : Clean(r) => Clean(r)'
    BY <1>5, <1>t, CleanUnderTombstones
  <2>3. Deletable \in SUBSET Rows
    <3>1. \A t \in tombPage : t.row \in Rows
      BY <1>t DEF TypeOK
    <3> QED
      BY <3>1 DEF Deletable
  <2>4. ASSUME NEW r \in Rows, ~Clean(r)', NEW e \in outbox, e.root = importId[r]
        PROVE  importId'[r] = importId[r]
    <3>1. r \notin Cascade(Deletable)
      BY <1>n, <2>1, <2>4, WithoutRows DEF Clean
    <3>2. importId[r] \notin Deletable
      BY <2>4 DEF Deletable, Blocked, HasPending
    <3> QED
      BY <1>t, <2>1, <2>3, <3>1, <3>2, ImportIdStays
  <2> QED
    BY <1>t, <2>1, <2>2, <2>4, CoverStays
<1>6. CASE ApplyRow
  <2>1. \A r \in Rows \ crossed : (Clean(r) \/ importId'[r] # importId[r]) => Clean(r)'
    BY <1>6, <1>t, CleanUnderRow
  <2>2. UNCHANGED <<outbox, sending>> /\ crossed \subseteq crossed'
    BY <1>6 DEF ApplyRow
  <2> QED
    BY <1>t, <2>1, <2>2, CoverStays
<1>7. CASE \/ UNCHANGED vars \/ FetchTombstones
           \/ \E r \in Rows : FetchRow(r)
           \/ \E e \in outbox : RetryDue(e)
  <2>1. UNCHANGED <<local, importId, cloud, tombs, tombCursor, outbox, sending, crossed>>
    BY <1>7 DEF vars, FetchRow, RetryDue, FetchTombstones
  <2>2. \A r \in Rows : Clean(r) <=> Clean(r)'
    BY <2>1 DEF Clean
  <2> QED
    BY <1>t, <2>1, <2>2, CoverStays
<1>8. ASSUME NEW e \in outbox, StartPush(e) PROVE OutboxCovers' /\ SendingCovers'
  <2>1. /\ sending = NotSending /\ sending' = [entry |-> {e}, left |-> Requests(e)]
        /\ UNCHANGED <<local, importId, cloud, tombs, tombCursor, outbox, crossed>>
    BY <1>8 DEF StartPush
  <2>2. OutboxCovers'
    BY <1>t, <2>1 DEF OutboxCovers, CoveredBy, Clean
  <2>3. ASSUME NEW r \in Rows, ~Clean(r), NEW f \in outbox, f.op = "upsert",
               f.root = r \/ f.root = importId[r], f = e
        PROVE  StillToSend(r)'
    <3>1. local[r] > 0 /\ e \in Entry
      BY <1>n, <2>3 DEF Clean
    <3>2. \E i \in 1..Len(Requests(e)) : r \in Requests(e)[i]
      BY <1>t, <2>3, <3>1, RequestsReach
    <3> QED
      BY <2>1, <3>2 DEF StillToSend
  <2>4. ASSUME NEW r \in Rows \ crossed, ~Clean(r)'
        PROVE  \/ CoveredBy(r, outbox \ sending.entry)'
               \/ StillToSend(r)' /\ \E f \in sending'.entry : f.op = "upsert"
    <3>1. ~Clean(r)
      BY <2>1, <2>4 DEF Clean
    <3>2. PICK f \in outbox : f.op = "upsert" /\ (f.root = r \/ f.root = importId[r])
      BY <1>t, <3>1 DEF OutboxCovers, CoveredBy
    <3>3. CASE f = e
      BY <2>1, <2>3, <3>1, <3>2, <3>3
    <3>4. CASE f # e
      BY <2>1, <3>2, <3>4 DEF CoveredBy
    <3> QED
      BY <3>3, <3>4
  <2>5. sending' # NotSending
    BY <2>1 DEF NotSending
  <2> QED
    BY <1>8, <2>1, <2>2, <2>4, <2>5 DEF SendingCovers
<1>9. CASE SendRequest
  <2>1. /\ sending.left # <<>> /\ sending' = [sending EXCEPT !.left = Tail(@)]
        /\ UNCHANGED <<local, importId, outbox, tombCursor, crossed>>
    BY <1>9 DEF SendRequest
  <2>2. PostgresMoves
    BY <1>9, <1>t, CloudMoves
  <2>3. \A r \in Rows : (Clean(r) \/ tombs'[r] # tombs[r] \/ cloud'[r] > 0) => Clean(r)'
    BY <1>t, <2>1, <2>2, CleanUnderCloud
  <2>4. OutboxCovers'
    BY <1>t, <2>1, <2>3 DEF OutboxCovers, CoveredBy
  <2>5. sending'.entry = sending.entry
    BY <1>t, <2>1 DEF TypeOK, Push
  <2>6. sending'.entry # {} /\ sending' # NotSending
    <3>1. sending # NotSending
      BY <2>1 DEF NotSending
    <3> QED
      BY <1>t, <2>5, <3>1 DEF SendingCovers, NotSending
  <2>7. ASSUME NEW r \in Rows, ~Clean(r)', StillToSend(r), NEW e \in sending.entry, e.op = "upsert"
        PROVE  StillToSend(r)'
    <3>1. Upserts(Head(sending.left), Written(e))
      BY <1>9, <1>t, <2>7 DEF SendRequest, SendingCovers
    <3>2. r \notin Head(sending.left)
      <4>1. ASSUME r \in Head(sending.left) PROVE FALSE
        <5>1. Written(e) \in ImportIds
          BY <1>t DEF TypeOK, Push, Entry, Written, ImportIds
        <5>2. cloud'[r] > 0
          BY <1>t, <3>1, <4>1, <5>1, UpsertsRows
        <5> QED
          BY <2>3, <2>7, <5>2
      <4> QED
        BY <4>1
    <3> QED
      BY <1>t, <2>1, <2>7, <3>2, StillAfterHead
  <2>8. ASSUME NEW r \in Rows \ crossed, ~Clean(r)'
        PROVE  \/ CoveredBy(r, outbox \ sending.entry)'
               \/ StillToSend(r)' /\ \E f \in sending'.entry : f.op = "upsert"
    <3>1. ~Clean(r)
      BY <2>3, <2>8
    <3>2. CASE CoveredBy(r, outbox \ sending.entry)
      BY <2>1, <2>5, <3>2 DEF CoveredBy
    <3>3. CASE StillToSend(r) /\ \E e \in sending.entry : e.op = "upsert"
      BY <2>5, <2>7, <2>8, <3>3
    <3> QED
      BY <1>t, <3>1, <3>2, <3>3 DEF SendingCovers
  <2> QED
    BY <1>t, <2>1, <2>4, <2>5, <2>6, <2>8 DEF SendingCovers
<1>10. CASE PushDone
  <2>1. /\ sending.left = <<>> /\ outbox' = outbox \ sending.entry
        /\ sending' = NotSending
        /\ UNCHANGED <<local, importId, cloud, tombs, tombCursor, crossed>>
    BY <1>10 DEF PushDone
  <2>2. \A r \in Rows : ~StillToSend(r)
    BY <2>1 DEF StillToSend
  <2>3. \A r \in Rows \ crossed : Clean(r)' \/ CoveredBy(r, outbox)'
    BY <1>t, <2>1, <2>2 DEF SendingCovers, CoveredBy, Clean
  <2>4. sending'.entry = {} /\ outbox' \ sending'.entry = outbox'
    BY <2>1 DEF NotSending
  <2> QED
    BY <2>1, <2>3, <2>4 DEF OutboxCovers, SendingCovers, CoveredBy
<1>11. CASE PushFails \/ Restart
  <2>1. /\ sending' = NotSending
        /\ UNCHANGED <<local, importId, outbox, cloud, tombs, tombCursor, crossed>>
    BY <1>11 DEF PushFails, Restart
  <2>2. \A r \in Rows \ crossed : Clean(r)' \/ CoveredBy(r, outbox)'
    BY <1>t, <2>1 DEF OutboxCovers, CoveredBy, Clean
  <2>3. sending'.entry = {} /\ outbox' \ sending'.entry = outbox'
    BY <2>1 DEF NotSending
  <2> QED
    BY <2>1, <2>2, <2>3 DEF OutboxCovers, SendingCovers, CoveredBy
<1> QED
  BY <1>1, <1>2, <1>3, <1>4, <1>5, <1>6, <1>7, <1>8, <1>9, <1>10, <1>11 DEF Next

-------------------------------------------------------------------------------
(* Rows in Postgres that the device lacks                                  *)

\* What hangs from a row that goes, goes.
LEMMA ChildFalls ==
    ASSUME NEW S \in SUBSET Rows, NEW r \in Rows, Parent[r] # NoRow, Parent[r] \in Cascade(S)
    PROVE  r \in Cascade(S)
<1>1. CASE Parent[r] \in S
  BY <1>1 DEF Cascade
<1>2. CASE Parent[Parent[r]] \in S
  BY <1>2 DEF Cascade, Up
<1>3. CASE Up(Parent[r]) \in S
  <2>1. NoRow \notin S
    BY TombstoneAssumption
  <2>2. Parent[Parent[r]] # NoRow /\ Parent[Parent[Parent[r]]] # NoRow
    BY <1>3, <2>1 DEF Up
  <2>3. Up(r) = Parent[Parent[r]]
    BY DEF Up
  <2> QED
    BY <2>2, <2>3, TombstoneAssumption
<1> QED
  BY <1>1, <1>2, <1>3 DEF Cascade

\* In Postgres a row hangs from rows that are there.
LEMMA AncestorsAreThere ==
    ASSUME TypeOK, CloudHangs, NEW x \in Rows, NEW r \in Cascade({x}), cloud[r] > 0
    PROVE  cloud[x] > 0
<1>1. r \in Rows /\ NoRow \notin Rows
  BY TombstoneAssumption DEF Cascade
<1>2. CASE r = x
  BY <1>2
<1>3. CASE Parent[r] = x
  BY <1>1, <1>3 DEF CloudHangs
<1>4. CASE Up(r) = x
  <2>1. Parent[r] # NoRow /\ Parent[Parent[r]] = x
    BY <1>1, <1>4 DEF Up
  <2>2. Parent[r] \in Rows /\ cloud[Parent[r]] > 0
    BY <1>1, <2>1, TombstoneAssumption DEF CloudHangs
  <2> QED
    BY <1>1, <2>1, <2>2 DEF CloudHangs
<1> QED
  BY <1>2, <1>3, <1>4 DEF Cascade

LEMMA DeletesHang ==
    ASSUME TypeOK, CloudHangs, NEW S \in SUBSET Rows, Deletes(S)
    PROVE  CloudHangs'
<1>1. cloud \in [Rows -> Nat] /\ cloud' = Without(cloud, S)
  BY DEF TypeOK, Deletes
<1>2. ASSUME NEW r \in Rows, cloud'[r] > 0, Parent[r] # NoRow
      PROVE  cloud'[Parent[r]] > 0
  <2>1. r \notin Cascade(S) /\ cloud[r] > 0
    BY <1>1, <1>2, WithoutRows
  <2>2. Parent[r] \in Rows /\ Parent[r] \notin Cascade(S)
    BY <1>2, <2>1, ChildFalls, TombstoneAssumption
  <2>3. cloud[Parent[r]] > 0
    BY <1>2, <2>1 DEF CloudHangs
  <2> QED
    BY <1>1, <2>2, <2>3, WithoutRows
<1> QED
  BY <1>2 DEF CloudHangs

LEMMA UpsertsHang ==
    ASSUME TypeOK, CloudHangs, NEW S \in SUBSET Rows, NEW ids \in ImportIds, Upserts(S, ids)
    PROVE  CloudHangs'
<1>1. /\ clock \in Nat /\ cloud \in [Rows -> Nat]
      /\ \A r \in Rows : cloud'[r] \in {clock + 1, cloud[r]} /\ (r \in S => cloud'[r] > 0)
      /\ \A r \in Rows : r \notin S => cloud'[r] = cloud[r]
  BY UpsertsRows DEF TypeOK
<1>2. ASSUME NEW r \in Rows, cloud'[r] > 0, Parent[r] # NoRow
      PROVE  cloud'[Parent[r]] > 0
  <2>1. Parent[r] \in Rows
    BY <1>2, TombstoneAssumption
  <2>2. Parent[r] \in S \/ cloud[Parent[r]] > 0
    <3>1. CASE cloud[r] > 0
      BY <1>2, <3>1 DEF CloudHangs
    <3>2. CASE ~(cloud[r] > 0)
      <4>1. r \in S
        BY <1>1, <1>2, <3>2
      <4>2. Parent[r] \in S \/ cloud[Parent[r]] # 0
        BY <1>2, <4>1 DEF Upserts, Orphans
      <4> QED
        BY <1>1, <2>1, <4>2
    <3> QED
      BY <3>1, <3>2
  <2> QED
    BY <1>1, <2>1, <2>2
<1> QED
  BY <1>2 DEF CloudHangs

\* Foreign keys hold in Postgres, and what has lost its import_id is noted.
LEMMA CloudStep ==
    ASSUME IInv, [Next]_vars
    PROVE  CloudHangs' /\ StraysAreKnown' /\ astray \subseteq astray'
<1>t. TypeOK /\ CloudHangs /\ StraysAreKnown
  BY DEF IInv
<1>1. ASSUME UNCHANGED <<cloud, cloudImportId>>, astray \subseteq astray'
      PROVE  CloudHangs' /\ StraysAreKnown' /\ astray \subseteq astray'
  BY <1>1, <1>t DEF CloudHangs, StraysAreKnown, Adrift
<1>2. ASSUME NEW S \in SUBSET Rows, Deletes(S)
      PROVE  CloudHangs' /\ StraysAreKnown' /\ astray \subseteq astray'
  <2>1. CloudHangs'
    BY <1>2, <1>t, DeletesHang
  <2> QED
    BY <1>2, <2>1 DEF Deletes, StraysAreKnown
<1>3. ASSUME NEW S \in SUBSET Rows, NEW ids \in ImportIds, Upserts(S, ids)
      PROVE  CloudHangs' /\ StraysAreKnown' /\ astray \subseteq astray'
  <2>1. CloudHangs'
    BY <1>3, <1>t, UpsertsHang
  <2> QED
    BY <1>3, <2>1 DEF Upserts, StraysAreKnown
<1>4. ASSUME NEW r \in Rows, ChangeElsewhere(r) \/ DeleteImportElsewhere(r)
      PROVE  CloudHangs' /\ StraysAreKnown' /\ astray \subseteq astray'
  <2>1. \A b \in {Batch[r], NoRow} : [q \in Rows |-> b] \in ImportIds
    BY TombstoneAssumption DEF ImportIds
  <2>2. \/ \E S \in SUBSET Rows : Deletes(S)
        \/ \E b \in {Batch[r], NoRow} : Upserts({r}, [q \in Rows |-> b])
    BY <1>4 DEF ChangeElsewhere, DeleteImportElsewhere
  <2> QED
    BY <1>2, <1>3, <2>1, <2>2
<1>5. CASE SendRequest
  <2>1. Head(sending.left) \in SUBSET Rows
    <3>1. sending.left \in Seq(SUBSET Rows) /\ sending.left # <<>>
      BY <1>5, <1>t DEF SendRequest, TypeOK, Push
    <3> QED
      BY <3>1
  <2>2. \A e \in sending.entry : Written(e) \in ImportIds
    BY <1>t DEF TypeOK, Push, Entry, Written, ImportIds
  <2>3. \E e \in sending.entry : \/ \E S \in SUBSET Rows : Deletes(S)
                                 \/ Upserts(Head(sending.left), Written(e))
    BY <1>5, <2>1 DEF SendRequest
  <2> QED
    BY <1>2, <1>3, <2>1, <2>2, <2>3
<1>6. CASE \/ UNCHANGED vars
           \/ \E r \in Rows : Edit(r) \/ DeleteImport(r) \/ FetchRow(r)
           \/ \E e \in outbox : StartPush(e) \/ RetryDue(e)
           \/ UndoDelete \/ PushDone \/ PushFails \/ FetchTombstones \/ ApplyTombstones
           \/ ApplyRow \/ Restart
  <2>1. UNCHANGED <<cloud, cloudImportId>> /\ astray \subseteq astray'
    BY <1>6 DEF vars, Edit, DeleteImport, UndoDelete, Operate, FetchRow, StartPush, RetryDue,
                PushDone, PushFails, FetchTombstones, ApplyTombstones, ApplyRow, Restart
  <2> QED
    BY <1>1, <2>1
<1> QED
  BY <1>4, <1>5, <1>6 DEF Next

\* A row that comes back while a page of tombstones is in flight is past the
\* device's cursor for it.
LEMMA GoneStep ==
    ASSUME IInv, [Next]_vars
    PROVE  TombPageIsOfGoneRows'
<1> USE DEF TombPageIsOfGoneRows
<1>t. /\ TypeOK /\ BehindClock /\ TombstonesAreOfAbsentRows /\ RowPageIsFresh
      /\ TombPageIsOfGoneRows /\ CloudHangs
  BY DEF IInv
<1>1. CASE /\ UNCHANGED <<cloud, rowCursor>> /\ crossed \subseteq crossed'
           /\ tombPage' = tombPage \/ tombPage' = NoPage
  BY <1>1, <1>t DEF NoPage
<1>2. CASE \/ \E r \in Rows : ChangeElsewhere(r) \/ DeleteImportElsewhere(r)
           \/ SendRequest
  <2>1. PostgresMoves
    BY <1>2, <1>t, CloudMoves
  <2>2. UNCHANGED <<tombVars, rowVars>>
    BY <1>2 DEF ChangeElsewhere, DeleteImportElsewhere, SendRequest
  <2>3. ASSUME NEW t \in tombPage, NEW r \in Cascade({t.row}) \ crossed, cloud'[r] > 0
        PROVE  cloud'[r] > rowCursor[r]
    <3>1. r \in Rows /\ clock \in Nat /\ rowCursor[r] \in Nat /\ rowCursor[r] <= clock
      BY <1>t DEF Cascade, TypeOK, BehindClock
    <3>2. cloud'[r] \in {clock + 1, cloud[r]}
      BY <2>1, <2>3, <3>1 DEF PostgresMoves
    <3> QED
      BY <1>t, <2>3, <3>1, <3>2
  <2> QED
    BY <2>2, <2>3
<1>3. CASE FetchTombstones
  <2>1. /\ tombPage' = {[row |-> r, deletedAt |-> tombs[r]] : r \in {q \in Rows : tombs[q] > tombCursor}}
        /\ UNCHANGED <<cloud, rowCursor>>
    BY <1>3 DEF FetchTombstones
  <2>2. ASSUME NEW t \in tombPage', NEW r \in Cascade({t.row}), cloud[r] > 0
        PROVE  FALSE
    <3>1. t.row \in Rows /\ tombs[t.row] > tombCursor
      BY <2>1
    <3>2. tombs[t.row] # 0
      BY <1>t, <3>1 DEF TypeOK
    <3>3. cloud[t.row] > 0
      BY <1>t, <2>2, <3>1, AncestorsAreThere
    <3> QED
      BY <1>t, <3>1, <3>2, <3>3 DEF TombstonesAreOfAbsentRows
  <2> QED
    BY <2>1, <2>2
<1>4. CASE ApplyRow
  <2>1. CASE tombPage = NoPage
    BY <1>4, <2>1 DEF ApplyRow, NoPage
  <2>2. CASE tombPage # NoPage
    <3>1. PICK p \in rowPage :
            \/ rowCursor' = rowCursor
            \/ rowCursor' = [rowCursor EXCEPT ![p.row] = p.stamp]
      BY <1>4 DEF ApplyRow
    <3>2. /\ crossed \subseteq crossed' /\ p.row \in crossed'
          /\ UNCHANGED <<cloud, tombPage>>
      BY <1>4, <2>2 DEF ApplyRow
    <3>3. \A r \in Rows \ crossed' : rowCursor'[r] = rowCursor[r]
      BY <1>t, <3>1, <3>2 DEF TypeOK
    <3>4. \A t \in tombPage : Cascade({t.row}) \subseteq Rows
      BY DEF Cascade
    <3> QED
      BY <1>t, <3>2, <3>3, <3>4
  <2> QED
    BY <2>1, <2>2
<1>5. CASE \/ UNCHANGED vars
           \/ \E r \in Rows : Edit(r) \/ DeleteImport(r) \/ FetchRow(r)
           \/ \E e \in outbox : StartPush(e) \/ RetryDue(e)
           \/ UndoDelete \/ PushDone \/ PushFails \/ ApplyTombstones \/ Restart
  <2>1. /\ UNCHANGED <<cloud, rowCursor>> /\ crossed \subseteq crossed'
        /\ tombPage' = tombPage \/ tombPage' = NoPage
    BY <1>5 DEF vars, Edit, DeleteImport, UndoDelete, Operate, FetchRow, StartPush, RetryDue,
                PushDone, PushFails, ApplyTombstones, Restart
  <2> QED
    BY <1>1, <2>1
<1> QED
  BY <1>2, <1>3, <1>4, <1>5 DEF Next

\* A step that does not touch the push in progress keeps the deletions of the
\* missing rows due when it makes no other row missing.
LEMMA DueStays ==
    ASSUME MissingAreDue, MissingAreDueBySending, SendingCovers, sending' = sending,
           outbox \subseteq outbox', astray \subseteq astray', crossed \subseteq crossed',
           \A r \in Rows \ crossed' : Missing(r)' =>
                Missing(r) \/ r \in Cascade(astray') \/ DueBy(r, outbox' \ outbox)
    PROVE  MissingAreDue' /\ MissingAreDueBySending'
<1>1. Cascade(astray) \subseteq Cascade(astray')
  BY DEF Cascade
<1>2. MissingAreDue'
  BY <1>1 DEF MissingAreDue, DueBy
<1>3. outbox' \ outbox \subseteq outbox' \ sending'.entry
  BY DEF SendingCovers
<1>4. ASSUME NEW r \in Rows \ crossed', Missing(r)'
      PROVE  \/ r \in Cascade(astray')
             \/ DueBy(r, outbox' \ sending'.entry)
             \/ /\ \E x \in Rows : StillToSend(x)' /\ r \in Cascade({x})
                /\ \E e \in sending'.entry : e.op = "delete"
  <2>1. \A x : StillToSend(x)' <=> StillToSend(x)
    BY DEF StillToSend
  <2>2. CASE Missing(r)
    BY <1>1, <2>1, <2>2 DEF MissingAreDueBySending, DueBy
  <2>3. CASE DueBy(r, outbox' \ outbox)
    BY <1>3, <2>3 DEF DueBy
  <2> QED
    BY <1>4, <2>2, <2>3
<1> QED
  BY <1>2, <1>4 DEF MissingAreDueBySending

\* A row that Postgres keeps is missing after one of its moves if it was before.
LEMMA MissingUnderCloud ==
    ASSUME TypeOK, BehindClock, PostgresMoves, UNCHANGED <<local, rowCursor>>,
           NEW r \in Rows, Missing(r)'
    PROVE  Missing(r)
<1>1. clock \in Nat /\ rowCursor[r] \in Nat /\ rowCursor[r] <= clock
  BY DEF TypeOK, BehindClock
<1>2. cloud'[r] \in {clock + 1, cloud[r]}
  BY DEF PostgresMoves, Missing
<1> QED
  BY <1>1, <1>2 DEF Missing

\* The requests of a deletion reach every row it takes.
LEMMA DeletionReaches ==
    ASSUME NEW e \in Entry, e.op = "delete", NEW x \in Taken(e)
    PROVE  \E i \in 1..Len(Requests(e)) : x \in Requests(e)[i]
<1>1. Requests(e) = <<{r \in Rows : Batch[r] = e.root}, {e.root}>>
  BY DEF Requests
<1>2. /\ Len(Requests(e)) = 2
      /\ Requests(e)[1] = {r \in Rows : Batch[r] = e.root} /\ Requests(e)[2] = {e.root}
  BY <1>1
<1>3. CASE x = e.root
  BY <1>2, <1>3
<1>4. CASE Batch[x] = e.root
  BY <1>2, <1>4 DEF Taken
<1> QED
  BY <1>3, <1>4 DEF Taken

\* Rows that crossed stay known.
LEMMA CrossedStays == ASSUME [Next]_vars PROVE crossed \subseteq crossed'
<1>1. CASE ApplyTombstones \/ ApplyRow
  BY <1>1 DEF ApplyTombstones, ApplyRow
<1>2. CASE ~(ApplyTombstones \/ ApplyRow)
  <2>1. crossed' = crossed
    BY <1>2 DEF Next, vars, Edit, DeleteImport, UndoDelete, Operate, FetchRow, ChangeElsewhere,
                DeleteImportElsewhere, StartPush, RetryDue, SendRequest, PushDone, PushFails,
                FetchTombstones, Restart
  <2> QED
    BY <2>1
<1> QED
  BY <1>1, <1>2

\* A row the device lacks goes with an import whose deletion is still to be sent,
\* or hangs from one that is astray.
LEMMA MissingStep ==
    ASSUME IInv, [Next]_vars
    PROVE  MissingAreDue' /\ MissingAreDueBySending'
<1>t. /\ TypeOK /\ BehindClock /\ TombstonesAreOfAbsentRows /\ RowPageIsFresh
      /\ ImportIdsAreBatches /\ SendingCovers /\ TombPageIsOfGoneRows
      /\ CloudHangs /\ StraysAreKnown /\ MissingAreDue /\ MissingAreDueBySending
  BY DEF IInv
<1>n. /\ importId \in ImportIds /\ local \in [Rows -> Nat] /\ clock \in Nat
      /\ outbox \in SUBSET Entry
  BY <1>t DEF TypeOK
<1>a. /\ astray \subseteq astray' /\ Cascade(astray) \subseteq Cascade(astray')
      /\ crossed \subseteq crossed'
  <2>1. astray \subseteq astray'
    BY CloudStep
  <2>2. crossed \subseteq crossed'
    BY CrossedStays
  <2> QED
    BY <2>1, <2>2 DEF Cascade
<1>1. ASSUME NEW r \in Rows, Edit(r) PROVE MissingAreDue' /\ MissingAreDueBySending'
  <2>1. /\ local' = [local EXCEPT ![r] = clock + 1]
        /\ outbox \subseteq outbox' /\ UNCHANGED <<cloud, rowCursor, sending>>
    BY <1>1 DEF Edit, Operate
  <2>2. \A q \in Rows : local'[q] = 0 => local[q] = 0
    BY <1>n, <2>1
  <2>3. \A q \in Rows : Missing(q)' => Missing(q)
    BY <2>1, <2>2 DEF Missing
  <2> QED
    BY <1>t, <1>a, <2>1, <2>3, DueStays
<1>2. ASSUME NEW b \in Rows, DeleteImport(b) PROVE MissingAreDue' /\ MissingAreDueBySending'
  <2> DEFINE gone == Members(b) \cup {b}
             e == Unsent("delete", b)
  <2>1. /\ local' = Without(local, gone) /\ outbox' = outbox \cup {e}
        /\ UNCHANGED <<cloud, rowCursor, sending>>
    BY <1>2 DEF DeleteImport, Operate
  <2>2. e.op = "delete" /\ e.root = b /\ e \notin outbox
    <3>1. e.at = clock + 1 /\ ~(clock + 1 <= clock)
      BY <1>n DEF Unsent
    <3>2. e \notin outbox
      BY <1>t, <3>1 DEF BehindClock
    <3> QED
      BY <3>2 DEF Unsent
  <2>3. gone \subseteq Taken(e)
    <3>1. b # NoRow
      BY TombstoneAssumption
    <3> QED
      BY <1>t, <2>2, <3>1 DEF Members, Taken, ImportIdsAreBatches
  <2>4. Cascade(gone) \subseteq Cascade(Taken(e))
    BY <2>3 DEF Cascade
  <2>5. ASSUME NEW r \in Rows, Missing(r)'
        PROVE  Missing(r) \/ DueBy(r, outbox' \ outbox)
    <3>1. CASE r \in Cascade(gone)
      BY <2>1, <2>2, <2>4, <3>1 DEF DueBy
    <3>2. CASE r \notin Cascade(gone)
      BY <1>n, <2>1, <2>5, <3>2, WithoutRows DEF Missing
    <3> QED
      BY <3>1, <3>2
  <2> QED
    BY <1>t, <1>a, <2>1, <2>5, DueStays
<1>3. CASE UndoDelete
  <2> DEFINE restored == {r \in Rows : journal.rows[r] > 0}
  <2>1. /\ local' = [r \in Rows |->
            IF r \in restored THEN journal.rows[r] ELSE Without(local, restored)[r]]
        /\ astray' = astray \cup (Cascade(restored) \ restored)
        /\ outbox \subseteq outbox' /\ UNCHANGED <<cloud, rowCursor, sending>>
    BY <1>3 DEF UndoDelete, Operate
  <2>2. ASSUME NEW r \in Rows, Missing(r)'
        PROVE  Missing(r) \/ r \in Cascade(astray')
    <3>1. r \notin restored /\ Without(local, restored)[r] = 0
      <4>1. local'[r] = 0
        BY <2>2 DEF Missing
      <4> QED
        BY <2>1, <4>1
    <3>2. CASE r \in Cascade(restored)
      <4>1. r \in astray'
        BY <2>1, <3>1, <3>2
      <4> QED
        BY <4>1 DEF Cascade
    <3>3. CASE r \notin Cascade(restored)
      BY <1>n, <2>1, <2>2, <3>1, <3>3, WithoutRows DEF Missing
    <3> QED
      BY <3>2, <3>3
  <2> QED
    BY <1>t, <1>a, <2>1, <2>2, DueStays
<1>4. ASSUME NEW r \in Rows, ChangeElsewhere(r) \/ DeleteImportElsewhere(r)
      PROVE  MissingAreDue' /\ MissingAreDueBySending'
  <2>1. PostgresMoves /\ UNCHANGED <<deviceVars, rowVars>>
    BY <1>4, <1>t, CloudMoves DEF ChangeElsewhere, DeleteImportElsewhere
  <2>2. \A q \in Rows : Missing(q)' => Missing(q)
    BY <1>t, <2>1, MissingUnderCloud
  <2> QED
    BY <1>t, <1>a, <2>1, <2>2, DueStays
<1>5. CASE ApplyTombstones
  <2>1. /\ local' = Without(local, Deletable)
        /\ UNCHANGED <<cloud, rowCursor, outbox, sending>>
    BY <1>5 DEF ApplyTombstones
  <2>2. ASSUME NEW r \in Rows \ crossed, Missing(r)' PROVE Missing(r)
    <3>1. r \notin Cascade(Deletable)
      <4>1. ASSUME r \in Cascade(Deletable) PROVE FALSE
        <5>1. PICK t \in tombPage : r \in Cascade({t.row})
          BY <4>1 DEF Cascade, Deletable
        <5>2. cloud[r] > rowCursor[r]
          BY <1>t, <2>1, <2>2, <5>1 DEF TombPageIsOfGoneRows, Missing
        <5>3. cloud[r] \in Nat /\ rowCursor[r] \in Nat
          BY <1>t DEF TypeOK
        <5> QED
          BY <2>1, <2>2, <5>2, <5>3 DEF Missing
      <4> QED
        BY <4>1
    <3> QED
      BY <1>n, <2>1, <2>2, <3>1, WithoutRows DEF Missing
  <2> QED
    BY <1>t, <1>a, <2>1, <2>2, DueStays
<1>6. CASE ApplyRow
  <2>1. PICK p \in rowPage :
        \/ UNCHANGED <<localVars, rowCursor>>
        \/ /\ local' = [local EXCEPT ![p.row] = IF IsOlder(p) THEN @ ELSE p.stamp]
           /\ rowCursor' = [rowCursor EXCEPT ![p.row] = p.stamp]
    BY <1>6 DEF ApplyRow
  <2>2. UNCHANGED <<cloud, outbox, sending>>
    BY <1>6 DEF ApplyRow
  <2>3. /\ p.row \in Rows /\ p.stamp \in Nat /\ p.stamp > 0 /\ rowCursor \in [Rows -> Nat]
    BY <1>t DEF TypeOK, RowPageIsFresh
  <2>4. ASSUME NEW r \in Rows, Missing(r)' PROVE Missing(r)
    <3>1. CASE UNCHANGED <<localVars, rowCursor>>
      BY <2>2, <2>4, <3>1 DEF Missing
    <3>2. CASE /\ local' = [local EXCEPT ![p.row] = IF IsOlder(p) THEN @ ELSE p.stamp]
               /\ rowCursor' = [rowCursor EXCEPT ![p.row] = p.stamp]
      <4>1. local'[p.row] # 0
        BY <1>n, <2>3, <3>2 DEF IsOlder
      <4>2. r # p.row
        BY <2>4, <4>1 DEF Missing
      <4> QED
        BY <1>n, <2>2, <2>3, <2>4, <3>2, <4>2 DEF Missing
    <3> QED
      BY <2>1, <3>1, <3>2
  <2> QED
    BY <1>t, <1>a, <2>2, <2>4, DueStays
<1>7. CASE \/ UNCHANGED vars \/ FetchTombstones
           \/ \E r \in Rows : FetchRow(r)
           \/ \E e \in outbox : RetryDue(e)
  <2>1. UNCHANGED <<local, cloud, rowCursor, outbox, sending>>
    BY <1>7 DEF vars, FetchRow, RetryDue, FetchTombstones
  <2>2. \A r \in Rows : Missing(r)' => Missing(r)
    BY <2>1 DEF Missing
  <2> QED
    BY <1>t, <1>a, <2>1, <2>2, DueStays
<1>8. ASSUME NEW e \in outbox, StartPush(e) PROVE MissingAreDue' /\ MissingAreDueBySending'
  <2>1. /\ sending' = [entry |-> {e}, left |-> Requests(e)]
        /\ UNCHANGED <<local, cloud, rowCursor, outbox>>
    BY <1>8 DEF StartPush
  <2>2. \A r \in Rows : Missing(r)' => Missing(r)
    BY <2>1 DEF Missing
  <2>3. MissingAreDue'
    BY <1>t, <1>a, <2>1, <2>2 DEF MissingAreDue, DueBy
  <2>4. ASSUME NEW r \in Rows \ crossed, Missing(r), r \notin Cascade(astray)
        PROVE  \/ DueBy(r, outbox' \ sending'.entry)
               \/ /\ \E x \in Rows : StillToSend(x)' /\ r \in Cascade({x})
                  /\ \E f \in sending'.entry : f.op = "delete"
    <3>1. PICK f \in outbox : f.op = "delete" /\ r \in Cascade(Taken(f))
      BY <1>t, <2>4 DEF MissingAreDue, DueBy
    <3>2. CASE f # e
      BY <2>1, <3>1, <3>2 DEF DueBy
    <3>3. CASE f = e
      <4>1. PICK x \in Taken(e) : r \in Cascade({x})
        BY <3>1, <3>3 DEF Cascade
      <4>2. e \in Entry /\ e.op = "delete" /\ x \in Rows
        BY <1>n, <3>1, <3>3, <4>1 DEF Taken
      <4>3. StillToSend(x)'
        BY <2>1, <4>2, DeletionReaches DEF StillToSend
      <4> QED
        BY <2>1, <4>1, <4>2, <4>3
    <3> QED
      BY <3>2, <3>3
  <2> QED
    BY <1>a, <2>2, <2>3, <2>4 DEF MissingAreDueBySending
<1>9. CASE SendRequest
  <2>1. /\ sending.left # <<>> /\ sending' = [sending EXCEPT !.left = Tail(@)]
        /\ UNCHANGED <<local, outbox, rowCursor>>
    BY <1>9 DEF SendRequest
  <2>2. PostgresMoves
    BY <1>9, <1>t, CloudMoves
  <2>3. \A r \in Rows : Missing(r)' => Missing(r)
    BY <1>t, <2>1, <2>2, MissingUnderCloud
  <2>4. MissingAreDue'
    BY <1>t, <1>a, <2>1, <2>3 DEF MissingAreDue, DueBy
  <2>5. sending'.entry = sending.entry
    BY <1>t, <2>1 DEF TypeOK, Push
  <2>6. ASSUME NEW r \in Rows, Missing(r)', r \notin Cascade(astray),
               NEW x \in Rows, StillToSend(x), r \in Cascade({x}),
               NEW e \in sending.entry, e.op = "delete"
        PROVE  StillToSend(x)'
    <3> DEFINE D == {q \in Head(sending.left) : q = e.root \/ cloudImportId[q] = e.root}
    <3>1. Deletes(D)
      BY <1>9, <1>t, <2>6 DEF SendRequest, SendingCovers
    <3>2. x \notin Head(sending.left)
      <4>1. ASSUME x \in Head(sending.left) PROVE FALSE
        <5>1. cloud[x] > 0
          BY <1>t, <2>3, <2>6, AncestorsAreThere DEF Missing
        <5>2. x \notin astray
          BY <2>6 DEF Cascade
        <5>3. cloudImportId[x] = Batch[x]
          BY <1>t, <5>1, <5>2 DEF StraysAreKnown, Adrift
        <5>4. x \in Taken(e)
          BY <1>t, <2>6 DEF ImportIdsAreBatches
        <5>5. x \in D
          BY <4>1, <5>3, <5>4 DEF Taken
        <5>6. r \in Cascade(D)
          BY <2>6, <5>5 DEF Cascade
        <5>7. cloud'[r] = 0
          <6>1. cloud \in [Rows -> Nat] /\ cloud' = Without(cloud, D)
            BY <1>t, <3>1 DEF TypeOK, Deletes
          <6> QED
            BY <5>6, <6>1, WithoutRows
        <5> QED
          BY <2>6, <5>7 DEF Missing
      <4> QED
        BY <4>1
    <3> QED
      BY <1>t, <2>1, <2>6, <3>2, StillAfterHead
  <2>7. ASSUME NEW r \in Rows \ crossed, Missing(r)', r \notin Cascade(astray)
        PROVE  \/ DueBy(r, outbox' \ sending'.entry)
               \/ /\ \E x \in Rows : StillToSend(x)' /\ r \in Cascade({x})
                  /\ \E e \in sending'.entry : e.op = "delete"
    <3>1. \/ DueBy(r, outbox \ sending.entry)
          \/ /\ \E x \in Rows : StillToSend(x) /\ r \in Cascade({x})
             /\ \E e \in sending.entry : e.op = "delete"
      BY <1>t, <2>3, <2>7 DEF MissingAreDueBySending
    <3> QED
      BY <2>1, <2>5, <2>6, <2>7, <3>1
  <2> QED
    BY <1>a, <2>4, <2>7 DEF MissingAreDueBySending
<1>10. CASE PushDone
  <2>1. /\ sending.left = <<>> /\ outbox' = outbox \ sending.entry
        /\ sending' = NotSending
        /\ UNCHANGED <<local, cloud, rowCursor, crossed>>
    BY <1>10 DEF PushDone
  <2>2. \A r \in Rows : ~StillToSend(r)
    BY <2>1 DEF StillToSend
  <2>3. ASSUME NEW r \in Rows \ crossed, Missing(r)' PROVE r \in Cascade(astray') \/ DueBy(r, outbox')
    BY <1>t, <1>a, <2>1, <2>2, <2>3 DEF MissingAreDueBySending, Missing
  <2>4. outbox' \ sending'.entry = outbox'
    BY <2>1 DEF NotSending
  <2> QED
    BY <2>1, <2>3, <2>4 DEF MissingAreDue, MissingAreDueBySending
<1>11. CASE PushFails \/ Restart
  <2>1. /\ sending' = NotSending
        /\ UNCHANGED <<local, outbox, cloud, rowCursor, crossed>>
    BY <1>11 DEF PushFails, Restart
  <2>2. ASSUME NEW r \in Rows \ crossed, Missing(r)' PROVE r \in Cascade(astray') \/ DueBy(r, outbox')
    BY <1>t, <1>a, <2>1, <2>2 DEF MissingAreDue, Missing
  <2>3. outbox' \ sending'.entry = outbox'
    BY <2>1 DEF NotSending
  <2> QED
    BY <2>1, <2>2, <2>3 DEF MissingAreDue, MissingAreDueBySending
<1> QED
  BY <1>1, <1>2, <1>3, <1>4, <1>5, <1>6, <1>7, <1>8, <1>9, <1>10, <1>11 DEF Next

-------------------------------------------------------------------------------
(* The theorems                                                            *)

\* Everything holds when the device has what Postgres has.
LEMMA InitInvariant == Init => IInv
<1> SUFFICES ASSUME Init PROVE IInv
  OBVIOUS
<1>1. TypeOK
  BY InitType
<1>2. /\ clock = 1 /\ cloud \in [Rows -> 0..1] /\ local = cloud
      /\ tombs = [r \in Rows |-> 0] /\ outbox = {} /\ sending = [entry |-> {}, left |-> <<>>]
      /\ importId = cloudImportId
      /\ cloudImportId = [r \in Rows |-> IF cloud[r] = 1 THEN Batch[r] ELSE NoRow]
      /\ journal = [rows |-> [r \in Rows |-> 0], members |-> {}, root |-> NoRow, undone |-> 0]
      /\ tombCursor = 0 /\ tombPage = {} /\ rowPage = {} /\ astray = {}
      /\ rowCursor = [r \in Rows |-> 1]
      /\ ~Orphans({r \in Rows : cloud[r] = 1}, Batch, cloud)
  BY DEF Init, Absent, NotSending, NoPage
<1>3. BehindClock /\ TombstonesAreOfAbsentRows /\ TombPageIsComplete /\ RowPageIsFresh
  BY <1>2 DEF BehindClock, TombstonesAreOfAbsentRows, TombPageIsComplete, RowPageIsFresh, NoPage
<1>4. ImportIdsAreBatches /\ JournalIsApart
  BY <1>2 DEF ImportIdsAreBatches, JournalIsApart
<1>5. ImportIsHeld
  <2>1. ASSUME NEW r \in Rows, importId[r] # NoRow
        PROVE  local[r] > 0 /\ local[importId[r]] > 0
    <3>1. cloud[r] = 1 /\ importId[r] = Batch[r] /\ Batch[r] # NoRow
      BY <1>2, <2>1
    <3>2. Batch[r] \in Rows
      BY <3>1, TombstoneAssumption
    <3>3. cloud[Batch[r]] # 0
      BY <1>2, <3>1, <3>2 DEF Orphans
    <3> QED
      BY <1>2, <3>1, <3>2, <3>3
  <2> QED
    BY <2>1 DEF ImportIsHeld
<1>6. OutboxCovers /\ SendingCovers
  BY <1>2 DEF OutboxCovers, SendingCovers, Clean, NotSending
<1>7. CloudHangs
  <2>1. ASSUME NEW r \in Rows, cloud[r] > 0, Parent[r] # NoRow
        PROVE  cloud[Parent[r]] > 0
    <3>1. cloud[r] = 1 /\ Parent[r] \in Rows
      BY <1>2, <2>1, TombstoneAssumption
    <3>2. cloud[Parent[r]] # 0
      BY <1>2, <2>1, <3>1 DEF Orphans
    <3> QED
      BY <1>2, <3>1, <3>2
  <2> QED
    BY <2>1 DEF CloudHangs
<1>8. TombPageIsOfGoneRows /\ StraysAreKnown /\ MissingAreDue /\ MissingAreDueBySending
  <2>1. Adrift = {}
    BY <1>2 DEF Adrift
  <2>2. \A r \in Rows : ~Missing(r)
    BY <1>2 DEF Missing
  <2> QED
    BY <1>2, <2>1, <2>2 DEF TombPageIsOfGoneRows, StraysAreKnown, MissingAreDue,
                            MissingAreDueBySending
<1> QED
  BY <1>1, <1>3, <1>4, <1>5, <1>6, <1>7, <1>8 DEF IInv

\* Every step keeps the invariant.
LEMMA StepInvariant == IInv /\ [Next]_vars => IInv'
<1> SUFFICES ASSUME IInv, [Next]_vars PROVE IInv'
  OBVIOUS
<1>1. TypeOK'
  BY StepType DEF IInv
<1> QED
  BY <1>1, ClockStep, PagesStep, ImportIdsStep, HeldStep, JournalStep, CoverStep,
     CloudStep, GoneStep, MissingStep DEF IInv

\* A row whose tombstone is behind the cursor is gone from the device unless an
\* unsent mutation of it, or of the import it came with, is about to bring it back
\* (ConsumedMeansGone), or a page of the row crossed a page of tombstones.
THEOREM ConsumedStaysGone == Spec => []ConsumedMeansGone
<1>1. IInv => ConsumedMeansGone
  <2> SUFFICES ASSUME IInv, NEW r \in Rows \ crossed, tombs[r] > 0, tombs[r] <= tombCursor, local[r] # 0
               PROVE  HasPending(r) \/ HasPending(importId[r])
    BY DEF ConsumedMeansGone
  <2>1. /\ tombs[r] \in Nat /\ tombCursor \in Nat /\ local[r] \in Nat
        /\ Clean(r) \/ CoveredBy(r, outbox)
    BY DEF IInv, TypeOK, OutboxCovers
  <2>2. ~(cloud[r] > 0)
    BY DEF IInv, TombstonesAreOfAbsentRows
  <2>3. ~Clean(r)
    BY <2>1, <2>2 DEF Clean
  <2> QED
    BY <2>1, <2>3 DEF CoveredBy, HasPending
<1> QED
  BY <1>1, InitInvariant, StepInvariant, PTL DEF Spec

\* A device that has nothing to send or to pull has the rows Postgres has
\* (SettledDeviceAgrees): a deleted row stays nowhere, and a row is missing only
\* below one whose import went without it or one that an undo replaced; nothing is
\* claimed of the rows that crossed a page of tombstones.
THEOREM SettledAgrees == Spec => []SettledDeviceAgrees
<1>1. IInv => SettledDeviceAgrees
  <2> SUFFICES ASSUME IInv, Settled, NEW r \in Rows \ crossed
               PROVE  /\ local[r] > 0 => cloud[r] > 0
                      /\ (cloud[r] > 0 /\ r \notin Cascade(astray)) => local[r] > 0
    BY DEF SettledDeviceAgrees
  <2>1. /\ tombs[r] \in Nat /\ tombCursor \in Nat /\ local[r] \in Nat
        /\ tombs[r] <= tombCursor /\ cloud[r] <= rowCursor[r] /\ outbox = {}
    BY DEF IInv, TypeOK, Settled
  <2>2. Clean(r)
    BY <2>1 DEF IInv, OutboxCovers, CoveredBy
  <2>3. Missing(r) => r \in Cascade(astray)
    BY <2>1 DEF IInv, MissingAreDue, DueBy
  <2> QED
    BY <2>1, <2>2, <2>3 DEF Clean, Missing
<1> QED
  BY <1>1, InitInvariant, StepInvariant, PTL DEF Spec
===============================================================================
