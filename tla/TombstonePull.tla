----------------------------- MODULE TombstonePull -----------------------------
(***************************************************************************)
(* How a deletion reaches a device, and how the device's own deletions and *)
(* undos leave it.                                                         *)
(*                                                                         *)
(* Deleting rows in Postgres leaves a tombstone per row, cascaded children *)
(* included; inserting a row again removes its tombstone.  The device      *)
(* pulls the tombstones past its cursor and deletes the rows they name,    *)
(* children first, except a row it holds a newer version of and a row with *)
(* an unsent mutation, its own or a child's; one unsent mutation holds the *)
(* cursor.  Beside that pull run the pull of the rows themselves and the   *)
(* outbox, which pushes edits, the deletion of an import batch and its     *)
(* undo.                                                                   *)
(*                                                                         *)
(* The other devices and clients are the writes and deletions they make in *)
(* Postgres, of any row at any time.  One row per table, so the cursor of  *)
(* a table is a stamp per row: paging many rows is the subject of          *)
(* PullCursor, the outbox's bookkeeping that of SyncOutboxWorker.          *)
(***************************************************************************)
EXTENDS Naturals, FiniteSets, Sequences

CONSTANTS
    Rows,
    NoRow,
    Parent,       \* ON DELETE CASCADE foreign key of a row, or NoRow
    Batch,        \* the import a transaction came with, or NoRow
    Mutable,      \* rows ordered by updated_at; the others by created_at
    MaxOps,       \* bound: edits, deletions and undos on the device
    MaxElsewhere, \* bound: writes and deletions of the other clients
    MaxFailures,  \* bound: requests that fail, restarts
    MaxEvents     \* bound: all of these together

Up(r) == IF Parent[r] = NoRow THEN NoRow ELSE Parent[Parent[r]]

\* The rows that go when the rows S are deleted: ON DELETE CASCADE.
Cascade(S) == {r \in Rows : r \in S \/ Parent[r] \in S \/ Up(r) \in S}

\* A transaction and its import hang from the same bank account, which hangs from
\* nothing; nothing that hangs from either came with an import.
ImportsHangFromAccounts ==
    \A r \in Rows : Batch[r] # NoRow =>
        /\ Batch[Batch[r]] = NoRow
        /\ Parent[Batch[r]] = Parent[r] /\ Up(Batch[r]) = NoRow
        /\ Parent[r] # NoRow => Batch[Parent[r]] = NoRow
        /\ \A s \in Rows : Batch[s] # Parent[r] \/ Batch[s] = NoRow

ASSUME TombstoneAssumption ==
    /\ NoRow \notin Rows
    /\ Parent \in [Rows -> Rows \cup {NoRow}]
    /\ Batch \in [Rows -> Rows \cup {NoRow}]
    /\ \A r \in Rows : Up(r) # NoRow => Parent[Up(r)] = NoRow
    /\ \A r, s \in Rows : (Batch[r] # NoRow /\ s \in Cascade({r, Batch[r]}) \ {r}) =>
        Batch[s] = NoRow
    /\ ImportsHangFromAccounts
    /\ Mutable \subseteq {r \in Rows : Batch[r] = NoRow}
    /\ MaxOps \in Nat /\ MaxElsewhere \in Nat /\ MaxFailures \in Nat
    /\ MaxEvents \in Nat

VARIABLES
    clock,      \* the clock of Postgres; the device agrees with it
    cloud,      \* cloud[r]: the stamp of the row in Postgres, 0 when there is none
    tombs,      \* tombs[r]: deleted_at of the row's tombstone, 0 when there is none
    halfDeleted,  \* imports whose transactions another device has deleted already
    cloudImportId, importId, \* import_id of the row there and here, or NoRow
    astray,     \* history: rows whose import_id Postgres has lost, or that an undo replaced
    local,      \* local[r]: the stamp of the row in the device, 0 when there is none
    outbox,     \* the rows of sync_outbox that are not sent
    waiting,    \* those that failed and whose next_retry_at has not come
    sending,    \* the entry the worker is pushing and the requests it has left
    journal,    \* the last batch deletion of treasury_undo_journal
    tombCursor, tombPage,   \* the tombstone pull: cursor, page fetched
    rowCursor, rowPage,     \* the row pulls: cursor per table, page fetched
    crossed,    \* history: rows whose page was in flight beside a page of tombstones
    ops, elsewhere, failures

cloudVars == <<clock, cloud, tombs, cloudImportId, halfDeleted, astray>>
localVars == <<local, importId>>
deviceVars == <<localVars, outbox, waiting, sending, journal>>
tombVars == <<tombCursor, tombPage>>
rowVars == <<rowCursor, rowPage, crossed>>
bounds == <<ops, elsewhere, failures>>
vars == <<cloudVars, deviceVars, tombVars, rowVars, bounds>>

Entry == [op : {"upsert", "delete"}, root : Rows, at : Nat]
Push == [entry : SUBSET Entry, left : Seq(SUBSET Rows)]
Journal == [rows : [Rows -> Nat], members : SUBSET Rows, root : Rows \cup {NoRow}, undone : Nat]
ImportIds == [Rows -> Rows \cup {NoRow}]
Absent == [r \in Rows |-> 0]

Children(r) == {c \in Rows : Parent[c] = r}
Members(b) == {r \in Rows : importId[r] = b}
Imports == {Batch[r] : r \in Rows} \ {NoRow}

Without(rows, S) == [r \in Rows |-> IF r \in Cascade(S) THEN 0 ELSE rows[r]]

\* A row that stays when its import goes has no import_id: ON DELETE SET NULL.
Unlinked(ids, S) ==
    [r \in Rows |-> IF r \in Cascade(S) \/ ids[r] \in Cascade(S) THEN NoRow ELSE ids[r]]

\* A foreign key would refuse the rows S, with these import_ids, beside the rows held.
Orphans(S, ids, held) ==
    \E r \in S : \E p \in {Parent[r], ids[r]} \ {NoRow} : p \notin S /\ held[p] = 0

HasPending(r) == \E e \in outbox : e.root = r
IgnoresChildren(r) == FALSE
HasPendingChild(r) == \E c \in Children(r) : local[c] > 0 /\ HasPending(c)

NotSending == [entry |-> {}, left |-> <<>>]
NoPage == {}

InBudget == ops + elsewhere + failures < MaxEvents

\* The device has the rows Postgres has, a set that respects the foreign keys.
Init ==
    /\ clock = 1
    /\ cloud \in [Rows -> 0..1]
    /\ ~Orphans({r \in Rows : cloud[r] = 1}, Batch, cloud)
    /\ cloudImportId = [r \in Rows |-> IF cloud[r] = 1 THEN Batch[r] ELSE NoRow]
    /\ importId = cloudImportId
    /\ halfDeleted = {}
    /\ astray = {}
    /\ tombs = Absent
    /\ local = cloud
    /\ outbox = {}
    /\ waiting = {}
    /\ sending = NotSending
    /\ journal = [rows |-> Absent, members |-> {}, root |-> NoRow, undone |-> 0]
    /\ tombCursor = 0
    /\ tombPage = NoPage
    /\ rowCursor = [r \in Rows |-> 1]
    /\ rowPage = NoPage
    /\ crossed = {}
    /\ ops = 0 /\ elsewhere = 0 /\ failures = 0

-------------------------------------------------------------------------------
(* What the user does on the device                                        *)

Operate ==
    /\ ops < MaxOps /\ InBudget
    /\ ops' = ops + 1
    /\ clock' = clock + 1
    /\ UNCHANGED <<cloud, tombs, cloudImportId, halfDeleted>>
    /\ UNCHANGED <<waiting, sending, tombVars, rowVars, elsewhere, failures>>

UnsentUnderBatch(op, r) == [op |-> op, root |-> Batch[r], at |-> clock + 1]
Unsent(op, r) == [op |-> op, root |-> r, at |-> clock + 1]

\* annotateTransaction, upsertBankAccount
Edit(r) ==
    /\ r \in Mutable
    /\ ~Orphans({r}, importId, local)
    /\ Operate
    /\ local' = [local EXCEPT ![r] = clock + 1]
    /\ outbox' = outbox \cup {Unsent("upsert", r)}
    /\ UNCHANGED <<importId, journal, astray>>

\* The batch with its transactions and what hangs from them goes into the
\* journal; the transactions go, then the batch.
DeleteImport(b) ==
    LET gone == Members(b) \cup {b} IN
    /\ b \in Imports
    /\ local[b] > 0
    /\ Operate
    /\ journal' = [rows |-> [r \in Rows |-> IF r \in Cascade(gone) THEN local[r] ELSE 0],
                   members |-> Members(b), root |-> b, undone |-> 0]
    /\ local' = Without(local, gone)
    /\ importId' = Unlinked(importId, gone)
    /\ outbox' = outbox \cup {Unsent("delete", b)}
    /\ UNCHANGED astray

\* The rows come back verbatim (INSERT OR REPLACE, so what hangs from a replaced
\* row goes); one outbox entry for the batch, one per row that hangs from it.
UndoDelete ==
    LET restored == {r \in Rows : journal.rows[r] > 0}
        below == restored \ (journal.members \cup {journal.root})
        ids == [r \in Rows |-> IF r \in journal.members THEN journal.root ELSE NoRow]
    IN
    /\ journal.root # NoRow
    /\ journal.undone = 0
    /\ ~Orphans(restored, ids, local)
    /\ Operate
    /\ local' = [r \in Rows |->
        IF r \in restored THEN journal.rows[r] ELSE Without(local, restored)[r]]
    /\ importId' = [r \in Rows |->
        IF r \in restored THEN ids[r] ELSE Unlinked(importId, restored)[r]]
    /\ outbox' = outbox \cup {Unsent("upsert", r) : r \in below \cup {journal.root}}
    /\ journal' = [journal EXCEPT !.undone = clock + 1]
    /\ astray' = astray \cup (Cascade(restored) \ restored)

-------------------------------------------------------------------------------
(* Postgres                                                                *)

\* Rows in Postgres without the import_id they came with.
Adrift == {r \in Rows : cloud[r] > 0 /\ cloudImportId[r] # Batch[r]}

\* record_sync_tombstone, for the rows named and those their deletion cascades to.
Deletes(S) ==
    /\ clock' = clock + 1
    /\ cloud' = Without(cloud, S)
    /\ cloudImportId' = Unlinked(cloudImportId, S)
    /\ tombs' = [r \in Rows |->
        IF r \in Cascade(S) /\ cloud[r] > 0 THEN clock + 1 ELSE tombs[r]]
    /\ astray' = astray \cup Adrift'

\* stamp_sync_updated_at, stamp_sync_created_at, clear_sync_tombstone_on_recreation,
\* unless a foreign key refuses the rows.
Upserts(S, ids) ==
    /\ ~Orphans(S, ids, cloud)
    /\ clock' = clock + 1
    /\ cloud' = [r \in Rows |->
        IF r \in S /\ (r \in Mutable \/ cloud[r] = 0) THEN clock + 1 ELSE cloud[r]]
    /\ cloudImportId' = [r \in Rows |-> IF r \in S THEN ids[r] ELSE cloudImportId[r]]
    /\ tombs' = [r \in Rows |-> IF r \in S /\ cloud[r] = 0 THEN 0 ELSE tombs[r]]
    /\ astray' = astray \cup Adrift'

\* Another device pushes a row, with its import_id unless the import is gone, or
\* a deletion; that of an import takes two requests, like the device's own.
ChangeElsewhere(r) ==
    /\ elsewhere < MaxElsewhere /\ InBudget
    /\ elsewhere' = elsewhere + 1
    /\ \/ /\ cloud[r] > 0
          /\ r \notin Imports
          /\ Deletes({r})
          /\ UNCHANGED halfDeleted
       \/ /\ cloud[r] > 0
          /\ r \in Imports
          /\ Deletes({q \in Rows : cloudImportId[q] = r})
          /\ halfDeleted' = halfDeleted \cup {r}
       \/ /\ \E b \in {Batch[r], NoRow} :
                /\ b = NoRow => Batch[r] \notin {q \in Rows : cloud[q] > 0}
                /\ Upserts({r}, [q \in Rows |-> b])
          /\ UNCHANGED halfDeleted
    /\ UNCHANGED <<deviceVars, tombVars, rowVars, ops, failures>>

DeleteImportElsewhere(b) ==
    /\ b \in halfDeleted
    /\ Deletes({b})
    /\ halfDeleted' = halfDeleted \ {b}
    /\ UNCHANGED <<deviceVars, tombVars, rowVars, bounds>>

-------------------------------------------------------------------------------
(* The outbox                                                              *)

RequestsBatchOnly(e) == IF local[e.root] > 0 \/ e.op = "delete" THEN <<{e.root}>> ELSE <<>>

\* The rows of each request: a deleted batch's transactions before the batch,
\* an upserted batch before its transactions, nothing for a row that is gone.
Requests(e) ==
    IF e.op = "delete" THEN <<{r \in Rows : Batch[r] = e.root}, {e.root}>>
    ELSE IF local[e.root] = 0 THEN <<>>
    ELSE IF e.root \in Imports THEN <<{e.root}, Members(e.root)>>
    ELSE <<{e.root}>>

\* The import_id that a request for e writes: the batch in its transactions.
Written(e) == [r \in Rows |-> IF r = e.root THEN NoRow ELSE e.root]

\* The oldest entry that is due.
StartPush(e) ==
    /\ sending = NotSending
    /\ e \in outbox \ waiting
    /\ \A f \in outbox \ waiting : e.at <= f.at
    /\ sending' = [entry |-> {e}, left |-> Requests(e)]
    /\ UNCHANGED <<cloudVars, localVars, outbox, waiting, journal, tombVars, rowVars, bounds>>

\* A deletion names the batch, so it takes the transactions that have its id by then.
SendRequest ==
    LET S == Head(sending.left) IN
    /\ sending.left # <<>>
    /\ \E e \in sending.entry :
        \/ e.op = "delete" /\ Deletes({r \in S : r = e.root \/ cloudImportId[r] = e.root})
        \/ e.op = "upsert" /\ Upserts(S, Written(e))
    /\ sending' = [sending EXCEPT !.left = Tail(@)]
    /\ UNCHANGED <<halfDeleted, localVars, outbox, waiting, journal, tombVars, rowVars, bounds>>

PushDone ==
    /\ sending # NotSending
    /\ sending.left = <<>>
    /\ outbox' = outbox \ sending.entry
    /\ sending' = NotSending
    /\ UNCHANGED <<cloudVars, localVars, waiting, journal, tombVars, rowVars, bounds>>

\* A foreign key refuses the request, or the network loses it or its answer.
PushFails ==
    /\ sending # NotSending
    /\ \/ /\ sending.left # <<>>
          /\ \E e \in sending.entry :
                e.op = "upsert" /\ Orphans(Head(sending.left), Written(e), cloud)
          /\ UNCHANGED failures
       \/ failures < MaxFailures /\ InBudget /\ failures' = failures + 1
    /\ waiting' = waiting \cup sending.entry
    /\ sending' = NotSending
    /\ UNCHANGED <<cloudVars, localVars, outbox, journal, tombVars, rowVars, ops, elsewhere>>

\* next_retry_at has passed.
RetryDue(e) ==
    /\ e \in waiting
    /\ waiting' = waiting \ {e}
    /\ UNCHANGED <<cloudVars, localVars, outbox, sending, journal, tombVars, rowVars, bounds>>

-------------------------------------------------------------------------------
(* The pull of the tombstones                                              *)

FetchTombstones ==
    LET page == {r \in Rows : tombs[r] > tombCursor} IN
    /\ tombPage = NoPage
    /\ page # {}
    /\ tombPage' = {[row |-> r, deletedAt |-> tombs[r]] : r \in page}
    /\ UNCHANGED <<cloudVars, deviceVars, tombCursor, rowVars, bounds>>

\* The local row is strictly newer than the deletion.
Newer(t) == local[t.row] > t.deletedAt
Blocked(t) == ~Newer(t) /\ (HasPending(t.row) \/ HasPendingChild(t.row))
Deletable == {t.row : t \in {u \in tombPage : ~Newer(u) /\ ~Blocked(u)}}
AdvancesAnyway == TRUE
CanAdvance == \A t \in tombPage : ~Blocked(t)
IsLast(t) == \A u \in tombPage : u.deletedAt <= t.deletedAt

\* Children come first, so a row's tombstone is judged before its ancestors'
\* deletions reach it; the deletions stay when the cursor does not move.
ApplyTombstones ==
    /\ tombPage # NoPage
    /\ local' = Without(local, Deletable)
    /\ importId' = Unlinked(importId, Deletable)
    /\ \/ ~CanAdvance /\ UNCHANGED tombCursor
       \/ CanAdvance /\ \E t \in tombPage : IsLast(t) /\ tombCursor' = t.deletedAt
    /\ tombPage' = NoPage
    /\ crossed' = crossed \cup {p.row : p \in rowPage}
    /\ UNCHANGED <<cloudVars, outbox, waiting, sending, journal, rowCursor, rowPage, bounds>>

-------------------------------------------------------------------------------
(* The pull of the rows                                                    *)

FetchRow(r) ==
    /\ rowPage = NoPage
    /\ cloud[r] > rowCursor[r]
    /\ rowPage' = {[row |-> r, stamp |-> cloud[r], batch |-> cloudImportId[r]]}
    /\ UNCHANGED <<cloudVars, deviceVars, tombVars, rowCursor, crossed, bounds>>

\* The local row is at least as new as the row fetched.
IsOlder(p) == local[p.row] >= p.stamp
Refused(p) ==
    \/ HasPending(p.row)
    \/ ~IsOlder(p) /\ Orphans({p.row}, [r \in Rows |-> p.batch], local)

ApplyRow ==
    /\ \E p \in rowPage :
        \/ Refused(p) /\ UNCHANGED <<localVars, rowCursor>>
        \/ /\ ~Refused(p)
           /\ local' = [local EXCEPT ![p.row] = IF IsOlder(p) THEN @ ELSE p.stamp]
           /\ importId' = [importId EXCEPT ![p.row] = IF IsOlder(p) THEN @ ELSE p.batch]
           /\ rowCursor' = [rowCursor EXCEPT ![p.row] = p.stamp]
    /\ rowPage' = NoPage
    /\ crossed' = IF tombPage = NoPage THEN crossed ELSE crossed \cup {p.row : p \in rowPage}
    /\ UNCHANGED <<cloudVars, outbox, waiting, sending, journal, tombVars, bounds>>

-------------------------------------------------------------------------------
(* The application quits: pages and the push in progress go, the database stays. *)
Restart ==
    /\ <<sending, tombPage, rowPage>> # <<NotSending, NoPage, NoPage>>
    /\ failures < MaxFailures /\ InBudget
    /\ failures' = failures + 1
    /\ sending' = NotSending
    /\ tombPage' = NoPage
    /\ rowPage' = NoPage
    /\ UNCHANGED <<cloudVars, localVars, outbox, waiting, journal, tombCursor, rowCursor, crossed, ops, elsewhere>>

Next ==
    \/ \E r \in Rows : Edit(r) \/ DeleteImport(r) \/ FetchRow(r)
    \/ \E r \in Rows : ChangeElsewhere(r) \/ DeleteImportElsewhere(r)
    \/ \E e \in outbox : StartPush(e) \/ RetryDue(e)
    \/ UndoDelete \/ Restart
    \/ SendRequest \/ PushDone \/ PushFails
    \/ FetchTombstones \/ ApplyTombstones \/ ApplyRow

Spec == Init /\ [][Next]_vars

-------------------------------------------------------------------------------
(* Properties                                                              *)

\* Every variable keeps its type.
TypeOK ==
    /\ clock \in Nat \ {0}
    /\ cloud \in [Rows -> Nat]
    /\ tombs \in [Rows -> Nat]
    /\ local \in [Rows -> Nat]
    /\ crossed \in SUBSET Rows
    /\ halfDeleted \in SUBSET Rows /\ astray \in SUBSET Rows
    /\ cloudImportId \in ImportIds /\ importId \in ImportIds
    /\ outbox \in SUBSET Entry /\ waiting \in SUBSET Entry
    /\ sending \in Push
    /\ journal \in Journal
    /\ tombCursor \in Nat
    /\ tombPage \in SUBSET [row : Rows, deletedAt : Nat]
    /\ rowCursor \in [Rows -> Nat]
    /\ rowPage \in SUBSET [row : Rows, stamp : Nat, batch : Rows \cup {NoRow}]
    /\ ops \in Nat /\ elsewhere \in Nat /\ failures \in Nat

\* Consuming a page of tombstones removes a row that the device has an unsent
\* mutation of only through its parent's parent, two levels up, where the check of
\* the children does not reach; never by itself or with its parent
\* (syncTombstonePullService.ts: "prevents SQLite from silently destroying a
\* mutation that still has to be pushed").
UnsentRowSurvives ==
    [][\A r \in Rows :
        (local[r] > 0 /\ local'[r] = 0 /\ HasPending(r) /\ ApplyTombstones) =>
            Up(r) \in Deletable]_vars

\* Once its cursor has passed a tombstone the device has the row only if it is
\* about to push it again: no order of edits, undos, pushes, failures and pulls
\* lets a deleted row stay behind (useSyncTombstonePull.ts), but for a row that
\* crossed: the other loop had a page of it in hand beside a page of tombstones.
ConsumedMeansGone ==
    \A r \in Rows \ crossed : (tombs[r] > 0 /\ tombs[r] <= tombCursor) =>
        local[r] = 0 \/ HasPending(r) \/ HasPending(importId[r])

\* Why ConsumedMeansGone and SettledDeviceAgrees hold of the rows that have not
\* crossed.  A row of the device is
\* clean when Postgres has it or has a tombstone of it that is not passed and not
\* older than the row; a row that is not clean is covered by an upsert that is
\* still to be sent, and by the requests the worker has left when only the entry
\* in progress covers it.
Clean(r) ==
    local[r] > 0 => cloud[r] > 0 \/ (tombs[r] > tombCursor /\ local[r] <= tombs[r])
CoveredBy(r, entries) ==
    \E e \in entries : e.op = "upsert" /\ (e.root = r \/ e.root = importId[r])

\* A row that the device lacks although its pull has passed it has gone with an
\* import: the deletion is still to be sent, and takes the row.
Missing(r) == local[r] = 0 /\ cloud[r] > 0 /\ cloud[r] <= rowCursor[r]
Taken(e) == {r \in Rows : r = e.root \/ Batch[r] = e.root}
DueBy(r, entries) == \E e \in entries : e.op = "delete" /\ r \in Cascade(Taken(e))
StillToSend(r) == \E i \in 1..Len(sending.left) : r \in sending.left[i]

BehindClock ==
    /\ tombCursor <= clock
    /\ \A r \in Rows : tombs[r] <= clock /\ local[r] <= clock /\ cloud[r] <= clock
    /\ \A r \in Rows : journal.rows[r] <= clock
    /\ \A e \in outbox : e.at <= clock
    /\ \A t \in tombPage : t.deletedAt <= clock
    /\ \A p \in rowPage : p.stamp <= clock
    /\ \A r \in Rows : rowCursor[r] <= clock

\* A row Postgres has has no tombstone.
TombstonesAreOfAbsentRows == \A r \in Rows : cloud[r] > 0 => tombs[r] = 0

\* A page holds every tombstone between the cursor and its last one.
TombPageIsComplete ==
    \A u \in tombPage, r \in Rows : (tombs[r] > tombCursor /\ tombs[r] <= u.deletedAt) =>
        [row |-> r, deletedAt |-> tombs[r]] \in tombPage

\* A row fetched and since deleted has a tombstone the device has not passed, unless
\* the row has crossed.
RowPageIsFresh ==
    /\ \A p \in rowPage :
        /\ p.stamp > 0
        /\ \/ p.row \in crossed \/ cloud[p.row] > 0
           \/ tombs[p.row] > tombCursor /\ p.stamp <= tombs[p.row]

\* A row that hangs from one on the page of tombstones has come back since, and has
\* not been pulled since without crossing the page.
TombPageIsOfGoneRows ==
    \A t \in tombPage : \A r \in Cascade({t.row}) \ crossed : cloud[r] > 0 => cloud[r] > rowCursor[r]

\* Foreign keys hold in Postgres.
CloudHangs == \A r \in Rows : (cloud[r] > 0 /\ Parent[r] # NoRow) => cloud[Parent[r]] > 0

\* A row in Postgres without its import_id is known to be astray.
StraysAreKnown == Adrift \subseteq astray

\* An import_id is the one the row came with, wherever it is.
ImportIdsAreBatches ==
    /\ \A r \in Rows : cloudImportId[r] \in {NoRow, Batch[r]} /\ importId[r] \in {NoRow, Batch[r]}
    /\ \A p \in rowPage : p.batch \in {NoRow, Batch[p.row]}
    /\ \A r \in journal.members : Batch[r] = journal.root
    /\ \A e \in sending.entry, r \in Rows : StillToSend(r) => r \in Taken(e)

\* The device has a transaction's import while the transaction names it.
ImportIsHeld ==
    \A r \in Rows : importId[r] # NoRow => local[r] > 0 /\ local[importId[r]] > 0

\* The journal holds one import; until the undo its transactions here are clean.
JournalIsApart ==
    journal.root # NoRow =>
        /\ journal.root \in Imports
        /\ journal.rows[journal.root] > 0
        /\ \A r \in Imports : journal.rows[r] > 0 => r = journal.root
        /\ journal.undone = 0 => \A r \in Rows \ crossed : importId[r] = journal.root => Clean(r)

OutboxCovers == \A r \in Rows \ crossed : Clean(r) \/ CoveredBy(r, outbox)
SendingCovers ==
    /\ sending.entry \subseteq outbox
    /\ sending.entry = {} <=> sending = NotSending
    /\ \A e, f \in sending.entry : e = f
    /\ \A r \in Rows \ crossed :
        \/ Clean(r)
        \/ CoveredBy(r, outbox \ sending.entry)
        \/ StillToSend(r) /\ \E e \in sending.entry : e.op = "upsert"

MissingAreDue ==
    \A r \in Rows \ crossed : Missing(r) => r \in Cascade(astray) \/ DueBy(r, outbox)
MissingAreDueBySending ==
    \A r \in Rows \ crossed : Missing(r) =>
        \/ r \in Cascade(astray)
        \/ DueBy(r, outbox \ sending.entry)
        \/ /\ \E x \in Rows : StillToSend(x) /\ r \in Cascade({x})
           /\ \E e \in sending.entry : e.op = "delete"

IInv ==
    /\ TypeOK /\ BehindClock /\ TombstonesAreOfAbsentRows
    /\ TombPageIsComplete /\ RowPageIsFresh
    /\ ImportIdsAreBatches /\ ImportIsHeld /\ JournalIsApart
    /\ OutboxCovers /\ SendingCovers
    /\ TombPageIsOfGoneRows /\ CloudHangs /\ StraysAreKnown
    /\ MissingAreDue /\ MissingAreDueBySending

Settled ==
    /\ outbox = {}
    /\ tombPage = NoPage
    /\ rowPage = NoPage
    /\ \A r \in Rows : tombs[r] <= tombCursor /\ cloud[r] <= rowCursor[r]

\* A device with nothing left to send or to pull has no row that Postgres has not
\* (supabaseOutboxTransport.ts: "so a second machine's pull won't resurrect
\* them"), and every row Postgres has, but for those that hang from a row whose
\* import once went without it, or from one that an undo replaced, and for the rows
\* that crossed a page of tombstones.
SettledDeviceAgrees ==
    Settled => \A r \in Rows \ crossed :
        /\ local[r] > 0 => cloud[r] > 0
        /\ (cloud[r] > 0 /\ r \notin Cascade(astray)) => local[r] > 0
===============================================================================
