# bukowskiOS: models, checks and proofs

bukowskiOS is a local-first desktop application (Electron) for an equipment
rental company. Every workstation works on its own SQLite database; Supabase
(Postgres behind PostgREST) carries the changes between workstations. This
directory holds TLA+ models of the parts where a mistake is hard to see in a
test: what is queued, pushed, pulled, refused, retried and resolved, by several
processes, in any order; and the books that long sequences of legal commands keep:
stock, invoices, bank movements, messages taken from Telegram.

Paths below are relative to the repository. `data/` stands for
`src/apps/desktop/electron/main/services/data/`, `hooks/` for
`src/apps/desktop/src/shared/hooks/`, `connectors/` for
`src/apps/desktop/electron/main/services/connectors/`.

## 1. Inventory

### How the parts interact

    command (IPC) --> mutation service --+--> SQLite entity tables
                                         +--> sync_outbox row   (one transaction)
    timer 2 s / retry / startup --> outbox worker --> Supabase transport --> Postgres
                                                                               |
    interval / realtime event --> renderer pull hook <-- page past a cursor ---+
                                       |
                                       +--> main process: apply service --> SQLite
                                                 |
                                                 +--> sync_conflicts --> review page

* The **main process** runs services as callbacks on one thread. SQLite calls are
  synchronous; only the transport awaits. Whatever runs during those awaits is the
  concurrency of the device.
* The **renderer** runs one pull loop per table or entity type. It awaits the
  query, then the IPC call that applies the page.
* **Postgres** stamps rows with its own clock and is written by all devices.
* A process may end at any point. SQLite and localStorage survive.

### Components

| Component | State | Operations | What is hard | What makes it correct |
|---|---|---|---|---|
| Outbox worker (`data/syncOutboxWorkerService.ts`) | `sync_outbox`, `isRunning` | enqueue, claim, send, fail, recover, retry | edits, retries and deletions during an await; crash in flight; back-off | a sent row was delivered; no row is stuck |
| Supabase transport (`src/packages/sync/src/transport/supabaseOutboxTransport.ts`) | none of its own | token, resolve, requests, record | the snapshot is read later than the row was queued; several requests per row | what is acknowledged is stored |
| Operational snapshots (`data/operationalSnapshotService.ts`) | projects, packing slips, incidents, RMA cases | resolve, apply, refuse | two devices edit one entity; stale pages; clocks | no unsent edit is lost; devices agree |
| Conflict review (`data/syncConflictService.ts`) | `sync_conflicts` | record, keep local, take remote | the conflict ages while the cloud moves on; the worker keeps pushing | the user's choice holds |
| Timestamp policy (`data/syncTimestampPolicy.ts`) | none | compare | client clocks | Postgres has the last word |
| Pull hooks, composite cursor (`hooks/use*Pull.ts`, `src/apps/desktop/src/shared/lib/compositePullCursor.ts`) | cursor in localStorage, in-flight and rerun flags | fetch, apply, advance | equal stamps, refused rows, late commits | no row behind the cursor is missing |
| Tombstones (`data/syncTombstonePullService.ts`, SQL triggers) | `sync_tombstones` | record, clear, apply | recreation, cascades, pending children | a delete neither resurrects nor destroys unsent work |
| Asset snapshot pull, financial domain pull, catalog, kit, file, automation pulls | their tables | apply pages | aggregates read in several requests | as above, per table |
| Local database runtime (`data/localDatabase.ts`) | the SQLite file, timers | start, retry, backup, restore, retention | startup order | the worker always restarts |
| Asset mutations (`data/assetMutationService.ts`) | `assets`, `asset_current_state`, `asset_assignments` | assign, top up, reassign, release, count, archive | five writers of the same counters | shelf, reserved and out add up |
| Packing slips (`data/packingMutationService.ts`) | slips, items | issue, return | partial returns; units from the shelf or from a reservation | what is out is what the slips list |
| RMA and incidents (`data/rmaMutationService.ts`, `data/incidentMutationService.ts`) | cases, their assets, incidents | open, change status, replace assets, resolve | they write the same counters | a repair invents and loses no units |
| Projects (`data/projectMutationService.ts`) | projects, units, crew | wizard, edit, archive, delete | the wizard reserves equipment and writes a slip | as stock |
| Invoices (`data/invoiceMutationService.ts`) | `invoices`, `invoice_payments`, `currency_settings` | draft, issue, cancel, pay, renumber | two devices change one invoice; commands that queue no row | status fits payments; numbers stay |
| Treasury (`data/treasuryMutationService.ts`) | accounts, imports, movements, annotations, allocations, undo journal | import, correct, classify, allocate, review, settle, undo | undo after other commands; cascades | nothing visible is unsent; decisions can be taken back |
| Invoice inbox (`data/invoiceInboxService.ts`, `data/invoiceExtractionService.ts`) | `invoice_extractions` | enqueue, read, retry, dismiss, apply | loops beside each other; a booking in three transactions | applied means booked; every document is read |
| Quotes, finance, catalog | their tables | status columns, totals | little state shared with the rest | totals and statuses agree |
| Notifications, todos, reminders (`data/notificationLocalService.ts`) | their tables | create, complete, snooze | outbox rows under stable ids | as the worker |
| Telegram connector (`connectors/telegramConnectorService.ts`, `connectors/connectorBridgeService.ts`) | pollers in memory, receipts, links | reconcile, poll, process, reply | pollers that overlap; timeouts; crashes | no message is forgotten unsettled |
| Assistant gateway, workspace access, updates | sessions, approvals, tokens | turns, approvals, refresh | timeouts, late answers | an approval is used once |

`PROJECT.json` lists every component with its sources and whether it is modelled.

## 2. Plan

Modules are written in the order in which a mistake would cost the most.

1. **Done.** `SyncOutboxWorker` with the abstract `OutboxDelivery`: the queue of one device.
2. **Done.** `OperationalSync`: one entity between devices, with conflicts.
3. **Done.** `PullCursor`: one table paged into a device.
4. **Done.** `TombstonePull`: deletes, recreations, cascades and undos beside the
   row pull and the outbox.
5. **Done.** `Warehouse`: the counters of stock under assets, slips, repairs,
   incidents and the project wizard.
6. **Done.** `TelegramConnector` with the abstract `UpdateFeed`.
7. **Done.** `Invoices`: invoices and payments on several devices.
8. **Done.** `Treasury`, and `InvoiceInbox` composed with it.
9. An aggregate pushed in several requests (parent, delete children, insert
   children) and pulled in two, such as the tags of an invoice; child rows merged by
   `applyRmaSnapshot` and `applyPackingSnapshot`, with the positional ids of
   `replaceCaseAssets`.
10. Approvals of the assistant's tools, the refresh of workspace tokens, outbound
    messages of the connectors, quotes and the creation of an invoice from one, the
    asset snapshot pull.

Abstract specifications: `OutboxDelivery` for 1, `UpdateFeed` for 6; for 9 a register
that each device eventually copies would be one. Theorems worth proving next:
`SettledDevicesAgree` of 2 with conflicts, once it says which divergences they leave;
the register of each aggregate for 9.

Each question has one run. Runs that asked two questions of one instance have been
merged, so that the set stays small enough to be run after every change.

## 3. Modules and code

### SyncOutboxWorker (refines OutboxDelivery)

One device's `sync_outbox`, the single-flight worker and the transport's awaits.

| Model | Code |
|---|---|
| `status`, `attempt`, `wait`, `recoverable`, `age`, `created` | columns `status`, `attempt_count`, `next_retry_at`, `last_error`, `updated_at`, `created_at` |
| `local`, `version`, `delivered` | how many mutations an entity has had, which one queued the row, which one the cloud stores |
| `current`, `queue`, `passAge`, `phase`, `captured` | `claimedRow`, the rest of `dueRows`, `startedAt`, the await, the resolved snapshot |
| `Enqueue` | a mutation with its outbox row; `INSERT OR REPLACE` for `StableRows` |
| `RunDueEntries`, `StartPass`, `ClaimNext` | `runDueEntries` up to its first await: both recoveries, the query, the claim |
| `ResolveSnapshot`, `ServerStores` | token received and entity read; requests answered |
| `MarkSent`, `MarkFailed` | the two ends of `await transport(claimedRow)`, with the next claim |
| `RetrySyncOutboxRow`, `RetryAllFailedSyncOutboxRows` | the user's commands, each followed by a pass |
| `DeletePendingOutbox` | `take_remote` in the conflict review |
| `Elapse`, `Crash`, `Restart` | time, the end of the process, startup |

Time is counted in minutes and relative, so that the state space is finite: a
row's remaining wait and age instead of absolute stamps. `attempt` saturates where
the delay has reached its ceiling. The error texts are reduced to the one bit the
code tests. Local-only workspaces, whose rows are acknowledged without a request,
are left out.

`OutboxDelivery` says what the queue promises: a mutation is submitted, stored,
then acknowledged, or withdrawn; nothing is acknowledged that is not stored. The
refinement reads it off the worker's state (`Submitted`, `Stored`, `Acknowledged`,
`Withdrawn`) for rows under ids of their own.

### OperationalSync

One entity on several devices. A copy of the entity is the set of edits it
includes, its liveness and its `updated_at`: a snapshot that overwrites another
device's edit is a set without it. The cloud's row also carries the stamp
Postgres gave it. `ahead`, no column of the code, records that an `updated_at` was
taken from a clock ahead of Postgres's: the exception `SettledDevicesAgree` names.

| Model | Code |
|---|---|
| `Edit` | a mutation service and `enqueueOperationalSnapshotOutbox` |
| `ClaimRow`, `ReadSnapshot`, `ServerUpserts`, `MarkSent`, `PushFails` | worker, token, `resolveOperationalSnapshot`, upsert with `stamp_sync_updated_at`, the two ends |
| `FetchPage`, `ApplyPage`, `PullFails` | `useOperationalSnapshotPull`, `applyRemoteSnapshots` |
| `SkipForOutbox`, `SkipOlder`, `ApplySnapshot` | the three outcomes for a row, in the code's order |
| `TakeRemote`, `KeepLocal` | `resolveConflict` |

The set of edits stands for the parent row, whose snapshot replaces the copy as a
whole. For RMA cases and packing slips the code merges child rows; that is
step 9 of the plan. The worker's back-off is `SyncOutboxWorker`'s subject and is
left out here; a failed push simply leaves its row queued.

### PullCursor

One remote table and one pull loop. A write gets its stamp when its statement
starts (`StampRows`) and is visible when it commits (`Commit`). `RunOnce`,
`FetchPage`, `ApplyPage`, `EndPass` follow `runOnce` of the pull hooks;
`refused` holds the rows the apply service would not take now. A cursor with id 0
is a timestamp alone (the `gte` form), the initial one is no cursor.
A page may be read between a statement's start and its commit; `overtaken`, no
variable of the code, records the stamps of the transactions that were open behind
such a page, the exception the properties name. The row's content is its version number: what an apply does with it is the
subject of `OperationalSync`.

### TombstonePull

One device, Postgres and the tombstones between them, with one row per table: a
bank account, an import of its statement, a transaction that came with it, what
hangs from the transaction.

| Model | Code |
|---|---|
| `cloud`, `tombs`, `cloudImportId` | the rows, `sync_tombstones.deleted_at`, `bank_transactions.import_id` in Postgres |
| `local`, `importId` | the same in SQLite; a row is its `updated_at` or `created_at`, 0 when it is not there |
| `outbox`, `waiting`, `sending` | unsent `sync_outbox` rows, those in back-off, the claimed one with the requests it has left |
| `journal` | the last `import_delete` of `treasury_undo_journal` |
| `astray` | no variable of the code: rows whose `import_id` Postgres has lost, or that an undo took with `INSERT OR REPLACE`; the exception `SettledDeviceAgrees` names |
| `crossed` | no variable of the code: rows whose page was in hand beside a page of tombstones; the exception `ConsumedMeansGone` and `SettledDeviceAgrees` name |
| `Edit`, `DeleteImport`, `UndoDelete` | `annotateTransaction`, `deleteImport`, `undoLastAction`, each with its outbox rows |
| `StartPush`, `SendRequest`, `PushDone`, `PushFails`, `RetryDue` | claim, one request of the transport, the two ends, back-off over |
| `Deletes`, `Upserts` | a statement in Postgres with its triggers: tombstones for the rows and what cascades, their removal on recreation, stamps |
| `FetchTombstones`, `ApplyTombstones` | `useSyncTombstonePull`, `syncTombstonePullService.apply` |
| `FetchRow`, `ApplyRow` | `useTreasuryPull`, `financialDomainPullService.applyRows` |
| `ChangeElsewhere`, `DeleteImportElsewhere` | what other devices push: any row, any deletion, an import's in two requests |
| `Restart` | the application quits |

Foreign keys are data: `Parent` is what `ON DELETE CASCADE` follows, `Batch` the
import whose deletion sets `import_id` to null. `Orphans` is the foreign key check of
either database. `ImportsHangFromAccounts` is the shape of the schema
(`0022_treasury_schema.sql:49,68-69`): a transaction and its import hang from the same
account. A page of rows and a page of tombstones may be in flight together, as in the
program, where `useTreasuryPull` takes one table after the other in one loop and
`useSyncTombstonePull` is another. The device's clock agrees with Postgres' here (clocks that do not are in
`OperationalSync`), the deletion of an import names it, so it takes the transactions
that carry its id when it arrives, and the journal's older deletions are left out.

### Warehouse

The counters of each asset and everything that writes them, one transaction per command.

| Model | Code |
|---|---|
| `stock`, `assignment` | `asset_current_state` with `assets.is_active`; the `asset_assignments` row that `active_assignment_id` names |
| `beside` | rows of `asset_assignments` that are open too (neither returned nor reassigned) but not the active one |
| `spread` | no column of the code: assets the wizard has listed in several units, the exception `AssignmentHoldsUnits` names |
| `known`, `slip`, `case`, `incident` | `projects`; `packing_slips` with items; `rma_cases` with assets; the status of an asset's incident |
| `Assign`, `Release`, `Reconcile`, `Archive`, `Reactivate` | `assignMoveAssets` in both modes, `reconcileAssetQuantities`, `archiveAsset`, `updateAsset` |
| `CreatePackingSlip`, `ReturnPackingSlipItems` | the same names; `SourceFlow` is the choice between reservation and shelf |
| `CreateRmaCase`, `UpdateRmaCase`, `ReportIncident`, `UpdateIncident`, `ResolveIncident` | the same names, with `applyRmaStatusToAssets` |
| `SetupProject` | the wizard: every unit an asset is listed in, with its assignments, and the packing slips, empty ones included |
| `RepairState` | `repairAssetCurrentStateFromActiveAssignments`, which may take up an open row beside the active one |

A project stands for the whole context of an assignment. "ready" stands for every
operational status other than maintenance and retirement. Left out: kits,
permissions, wrapped projects, the refusal of equipment by overlapping dates (an
asset is in a unit at most once), moves between locations. A staging slip the wizard
takes over is modelled as a new one. Slip items are named by the millisecond
(`projectMutationService.ts:1834`), so that two slips written in the same one collide
and the wizard is rolled back: nothing changes.

### TelegramConnector (refines UpdateFeed)

| Model | Code |
|---|---|
| `inbox`, `confirmed` | what Telegram holds, and up to where it has forgotten |
| `status`, `linked` | `agent_connector_configs.status`; whether the sender is linked to a user |
| `poller`, `started`, `listed` | every `WorkspacePollerState`; the entry of `workspacePollers` |
| `calls`, `thread`, `receipt` | `processTelegramDm` calls in progress; rows of the chat thread; inbound receipts |
| `noticed` | updates the poller itself replied to, whether the reply arrived or not |
| `Reconcile`, `SaveConfig`, `WriteStatus` | the timer, the command followed by a reconciliation, a status written by others |
| `StopPoller`, `BeginPoll`, `Answer`, `PollFails`, `TakeUpdate`, `EndBatch` | the poll loop |
| `Unreadable`, `ConsumeTelegramLinkToken`, `ProcessTelegramDm` | an update in hand |
| `AssistantAnswers`, `DeliverOutboundReply`, `TimeOut` | the call that goes on, and `withTimeout` giving up on it |
| `Crash` | the process ends; `reconcileInterruptedThreads` at the start |

`UpdateFeed` says what a consumer of numbered updates promises: it confirms one only
when that one and all before it are settled, and what is settled stays so. Settled
means that nothing more is owed to the update: it has a receipt, or a reply of the
poller, or needed none.

### Invoices

| Model | Code |
|---|---|
| `bill`, `ledger`, `counter` | `invoices`, `invoice_payments`, `currency_settings.ncf_sequence_next` in each device and in Postgres |
| `queued`, `due` | unsent outbox rows of documents and of payments |
| `newer` | documents whose local `updated_at` is at least the cloud's |
| `silent` | documents changed since without an outbox row: no variable of the code, the exception that `QuietCopiesAgree` names |
| `CreateInvoice`, `UpdateInvoice`, `IssueInvoice`, `CancelInvoice`, `RecordInvoicePayment`, `RenumberInvoice`, `UpsertSettings` | the commands of the same names |
| `PushInvoice`, `PushPayment`, `PushSettings` | the outbox entries; a payment's sends its invoice first |
| `PullInvoice`, `PullPayment`, `PullSettings` | `applyRows` with its guards and the tables' constraints |

A push reads and stores in one step; what happens between is `SyncOutboxWorker`'s
and `OperationalSync`'s subject. Clocks agree. Line items are left out: a total
stands for them. Amounts are whole: the code rounds what it adds and compares to
cents (`invoiceMutationService.ts:743-746`), so a unit of the model is a cent, and a
payment given with more decimals is not modelled.

### Treasury

One device's bank books, its undo journal and their way to Postgres.

| Model | Code |
|---|---|
| `books`, `cloud` | accounts, imports, movements, annotations and allocations in SQLite and in Postgres |
| `journal` | entries of `treasury_undo_journal` that are not undone |
| `outbox`, `sending` | keys of unsent rows in order; the one in flight with the rows read for it |
| `ImportStatement`, `DeleteImport`, `CorrectTransaction`, `AnnotateTransaction`, `ApplyCounterpartyRule`, `SetAllocations`, `ReviewReimbursement`, `CreateCardSettlement`, `UpsertBankAccount`, `DeactivatePaymentInstrument` | the commands of the same names |
| `UndoAnnotations`, `UndoAllocations`, `UndoCorrection`, `UndoAccount`, `UndoDelete` | the cases of `undoLastAction` |
| `StartPush`, `FinishPush`, `PushFails`, `WorkerRestarts` | claim and read, the two ends, restart |
| `resent` | no variable of the code: imports whose deletion failed and was queued again, the exception `ChangesAreQueued` names |

`ReplaceMovement` and `ReplaceAccount` are `INSERT OR REPLACE`: with foreign keys on,
SQLite deletes the old row and what hangs from it first. `Refused` is a foreign key
in Postgres. Requests of every kind fail, or are carried out and lose their answer,
and are sent again, deletions included. Undo takes the newest entry, as the interface
and the tests do; `undoLastAction` also accepts the `undoId` of an older one
(`treasuryMutationService.ts:2286-2291`), which nothing sends and which is not
modelled.

### InvoiceInbox (composed with Treasury)

| Model | Code |
|---|---|
| `status`, `suggested` | columns of `invoice_extractions` |
| `receipts` | `command_receipts` of the two booking commands, whose ids are fixed per document |
| `loop`, `reading` | runs of `processInvoiceQueue`, each over its own documents |
| `stranded` | documents that waited when the process ended: history, for `EveryDocumentIsRead` |
| `EnqueueBatch`, `Retry`, `StartReading`, `RecordExtraction`, `RecordFailure`, `Dismiss` | the service and the loop |
| `ApplyExtraction`, `ApplyRefused`, `ApplyCutShort` | `apply`: all its transactions, a movement that is gone, the process ending after the first |

The treasury's commands, undos and pushes run beside it, so that the movement a
document is booked on may be deleted, undone or classified meanwhile.

### Modules of each part

`X.tla` is the model with its properties, `MCX.tla` the values for TLC,
`X_<run>.cfg` the instances, `XProofs.tla` the theorems; those about `Treasury` are in
`InvoiceInboxProofs`, which needs them. Operators marked `Mutant:` or
whose name reads like a wrong version of the next one (`NeverStale`,
`IgnoresProcessingRow`, `AdvancesAnyway`, `RequestsBatchOnly`...) are what
`PROJECT.json` swaps in as mutants: each property has one that breaks it.

## 4. Runs

| Run | Instance | What it shows |
|---|---|---|
| `outbox_rows` | 2 rows of 1 entity, one under a stable id, 2 edits, 1 retry, 1 crash, every failure kind | a sent row under an id of its own was delivered and stays sent; versions stay in order; the worker implements `OutboxDelivery`; every row is eventually sent or withdrawn |
| `operational_shared` | 2 devices, 2 edits, 1 failure, clocks behind, in step or ahead | settled devices agree and all end with the cloud's copy, unless a fast clock has stamped a copy past the cloud's row |
| `operational_sensitive` | 2 devices, 3 edits, conflicts resolved either way | no unsent edit lost; a later edit keeps a row of its own |
| `cursor_pages` | 3 rows, pages of 2, 2 pages a pass, 2 transactions of any rows, 1 refusal, 1 failure or reload, pages read while transactions are open | nothing behind the cursor is missing and every row arrives, but for transactions a page overtook |
| `tombstone_deletes` | account, import, transaction, annotation; up to 2 operations, 2 changes elsewhere and 1 failure or restart, 3 of them in all; the pull loops in flight together | a tombstone that was passed leaves nothing behind; no unsent row goes with its parent; a settled device has what Postgres has, but for rows that crossed a page of tombstones and what hangs from rows that are `astray` |
| `warehouse_stock` | 2 assets of 2 units, 2 slips, 2 cases, 2 projects, up to 2 units of a new project, 4 commands | agreement of counters, slips and assignments is lost only by three named writers; a slip's status is its items'; no active assignment without units, and none open beside it but for assets the wizard lists in several units |
| `telegram_feed` | 2 updates, voice notes or links, 2 pollers, 2 changes of the configuration, 1 failure or crash | the connector implements `UpdateFeed`; one run per message and poller; no row stays pending; every message is settled |
| `invoices_books` | 2 devices, 2 invoices, 2 payments, 2 totals, 5 commands, 1 command or push cut short | status fits what is paid; nothing is paid that was not recorded; payments arrive; settled copies agree |
| `treasury_books` | 1 account, 1 movement imported before, 2 amounts, 4 commands, 1 failure or restart | where the cloud has another row than the device, the device's is queued; a movement is missing there only if a deletion was sent again, a decision only if a request failed; foreign keys hold; decisions can be undone |
| `inbox_reads` | the same account and movement, 1 document, 2 loops, 1 retry, 2 commands, 1 failure or restart | applied means booked; every document is read |
| `treasury_undo` | as `treasury_books`, 3 commands | **violated**: undoing the edit of an account deletes its movements |
| `invoices_ncf` | as `invoices_books`, nothing cut short | **violated**: an issued invoice loses its fiscal number |

### Bounds

* *Outbox.* Two rows are the least with which a row can be behind, replaced by or
  older than another; two edits the least with which a snapshot can be newer than
  its row. Two retry minutes let the delay double once and meet its ceiling; two
  attempts reach the point where it no longer grows. A second crash repeats the
  first: a crash forgets all but the rows.
* *Operational.* Two devices and three edits give both devices an unsent edit
  while one of them has a second; every collision of the code is between one
  device and the cloud's row. Stamps are counted by accepted writes and edits; a
  device's clock is two stamps behind, in step or three ahead, and the accepted skew
  is one, so that a copy stamped ahead counts as newer on the device that made it, and
  on another only from some stamp on.
* *Cursor.* Three rows and pages of two have a full page, a partial page and a cut
  between equal stamps; two pages a pass reach the batch limit.
* *Tombstones.* Two operations are a deletion and its undo, or an edit and a
  deletion of what it hangs from; changes elsewhere delete, recreate or write any row
  before, between or after them (a foreign deletion of an import continues with its
  second request); one failure lets any request be answered or not and sent again.
  `MaxEvents` allows any three of these together: a deletion, its undo and a change or
  a failure between; one edit with two changes elsewhere. What hangs from a row that is
  `astray` is exempt from the second half of `SettledDeviceAgrees`, for the reasons
  given in section 6; its first half, that a settled device has no row Postgres
  lacks, excepts only the rows that crossed.
* *Warehouse.* Two units are the least that can be split between shelf, reservation
  and slip, and three what a count may find beyond them. Four commands reserve, issue
  in part, count or top up, and return, or list an asset in two units, release it and
  assign it anew; the rewriting of the counters is no
  command and may come between any two. Assets, slips and cases are interchangeable.
* *Telegram.* Two updates make a batch of which the first may fail; two pollers may
  overlap, two changes switch the connector off and on again. A third poller was not
  needed for any of the shapes section 6 tells of but one.
* *Invoices.* Five commands are a draft, its edit, its issue and two payments, on
  either device. Two totals with payments of one make a payment partial or last.
* *Treasury.* One movement has every row a deletion takes along; four commands are a
  classification, a deletion and the undo of both. Shares of 0 and 2 against amounts
  of 1 and 2 are none, within and over the limit.
* *Inbox.* One document in two loops is every race between loops; two commands are
  a booking and something of the treasury's before or after it.

`CHECK_DEADLOCK FALSE` stands only where the bounds let everything settle: users
stop giving commands and there is nothing left to send, pull or read.

### Fairness

* *Worker.* The 2 s timer keeps calling `runDueEntries` (weak fairness), a dead
  process is started again, every await ends. A row the cloud accepts is not
  refused at the same await each time it gets there (strong fairness on the
  success of each await): errors are transient for such rows. Time passes (strong
  fairness on `Elapse`, which waits while a pass is due).
* *Operational, cursor.* Timer and interval keep both loops going (weak
  fairness); failures are bounded; no fairness on edits or on the user's
  decisions. A row the device refuses is eventually acceptable unless it is
  `Stubborn`.
* *Telegram.* The timer reconciles, a poller and the calls it has made go on (weak
  fairness on each). No fairness on what the user does and none on failures, which
  are bounded. `EveryMessageSettles` asks that the connector stays configured from
  some point on and that the instance's bound on pollers is not used up.
* *Inbox.* A loop goes on to its next document and the request for the one in hand
  is answered, well or badly (weak fairness on each). Nothing obliges the user to
  retry, dismiss or book.
* Requests are assumed to be answered: neither the transport nor the hooks set a
  time limit, so a request that hangs stops its loop.

## 5. Proofs

TLAPS proves these for every value of the constants that satisfies the modules'
assumptions (`RowsAssumption`, `TimingAssumption`, `BoundAssumption`,
`SyncAssumption`, `CursorAssumption`, `TombstoneAssumption`, `WarehouseAssumption`,
`ConnectorAssumption`, `InvoicesAssumption`, `TreasuryAssumption` with the
treasury's own `RowsAssumption`, `InboxAssumption`). They say that bounds are
natural numbers, that the mark for "no row" is none of the rows, and that what is
counted or put in an order is finite: slips, movements, documents. Each is evaluated
by TLC in a run. Where a theorem needs more, its statement says so and the text
below says what the code does without it.

* `SyncOutboxWorkerProofs`: `TypeCorrectness`, `OrderOfVersions`,
  `SentMeansDelivered`, `SentRowsStaySent`, `WorkerImplementsDelivery`. That a
  sent row was delivered is not inductive: `MarkSent` sees only the phase. The
  invariant `IInv` adds `VersionsInOrder`, which follows the version from the
  row (no newer than the device) to the snapshot in flight (no older than the
  row) to the cloud (no older than the snapshot once stored), and says that no
  retry, recovery or deletion turns a row in flight into a failed or sent one. The
  refinement follows from it step by step.
* `OperationalSyncProofs`: `TypeCorrectness`, `LaterEditsQueued`, `NoEditIsLost`.
  An unsent edit stays in the local copy because pulls refuse entities with queued
  rows; that the row is still queued needs `LaterEditsStayQueued`: an edit that is
  not in the snapshot in flight has a second row.
  `SettledAgree` for entities without conflicts (`~Sensitive`; section 6,
  "Conflicts") and any clocks. `AgreeInv` says why they agree: a stored row is stamped
  later than any cursor, so a device whose last push is stored has its own row still
  to pull; with nothing unsent a copy that no fast clock has stamped is older than the
  cloud's stamp, so no row is passed over as older; and a cursor gets to the cloud's
  stamp only with the cloud's row, taken in or passed over for a copy stamped ahead.
* `PullCursorProofs`: `TypeCorrectness`, `CursorCovers`, `PagesStayComplete`, for
  pages read at any moment. The invariant says that a page in hand stays complete
  while the table moves on: whatever is written after the fetch is stamped past the
  page, and what was being written during it is either stamped past it or overtaken.
* `TombstonePullProofs`: `TypeCorrect`; `UnsentSurvives`, whose exception is what
  `hasPendingChildMutation` does not reach, the children of children;
  `ConsumedStaysGone` and `SettledAgrees`, of the rows that have not crossed a page of
  tombstones, with the loops in flight in any way and imports that hang from the
  account of their transactions. Neither is inductive: a page
  fetched, a request not yet sent or an import not yet restored can break it later.
  `IInv` looks at both directions.
  A row the device has is clean when Postgres has it or has a tombstone of it that is
  not passed and not older than the row; one that is not clean is covered by an
  upsert in the outbox (`OutboxCovers`) and, when only the entry in flight covers it,
  by the requests that are left (`SendingCovers`); the request that carries the row
  removes its tombstone.
  A row the device lacks although its cursor has passed it is due to go: a deletion
  in the outbox takes it or what it hangs from (`MissingAreDue`), and, when only the
  entry in flight does, the requests that are left (`MissingAreDueBySending`); or it
  hangs from a row that is known to be astray (`StraysAreKnown`).
  The other parts say what keeps this so: pages are complete and fresh
  (`TombPageIsComplete`, `RowPageIsFresh`), what a page of tombstones takes is gone
  in Postgres or has come back since (`TombPageIsOfGoneRows`), an import is there as
  long as a transaction names it (`ImportIsHeld`), the journal's import brought no
  row of another (`JournalIsApart`), foreign keys hold in Postgres (`CloudHangs`).
  One lemma per part, one step per action.
* `WarehouseProofs`: `SlipStatusIsRight`, `TypesHold`, `AssignmentsHoldUnits`,
  `OnlyThreeDrift`, for any assets, quantities and number of slips. The status of a
  slip is computed from the items in the command that changes them; the proof is that
  no other command, the wizard's seeded slip included, disturbs either. The rest is
  proved of one asset at a time (`AllAssetsStep`): its row is taken together with its
  active assignment, and each command turns a sound pair (`PairOK`) into a sound
  pair, and one that agrees with what is pending on the slips into one that agrees,
  but for the three exempt. An open row beside the active one is written by the wizard
  alone, for assets it lists in several units (`spread`), and what the rewriting takes
  up or displaces is such an asset's. What is pending is a sum over a set of slips, of which a
  command adds one, removes one or leaves all as they are.
* `TelegramConnectorProofs`: `TypesHold`, `PendingRowsAlwaysHaveCalls`,
  `ConnectorImplementsFeed`, `OneRunAlways`. `IInv` says of each poller, by phase, up
  to where all updates are settled (`LoopInv`: at the head of the loop all before its
  offset, in a batch all before the next update), of Telegram that all it has
  forgotten are settled, and of the calls that the one a poller waits for is about
  the update it has in hand and has written its receipt before it delivers
  (`CallsInv`). That is what an offset that moves before the update is processed
  needs: the offset is only sent from the head of the loop, and the loop gets there
  only past a settled update or with the reply that settles it. For `OneRunAlways`
  the chat rows of a message are counted against the pollers that have taken it
  (`RunsInv`): a run is started by a poller that takes the message, and a poller does
  not go back to a message it has taken (`Keeps`).
* `InvoicesProofs`: `TypesHold`, `StatusAlwaysFits`, `PaymentsNeverLost`,
  `QuietCopiesAlwaysAgree`, `PaidIsAlwaysRecorded`. `RowFits` is inductive together
  with the total of a row being positive; it survives pushes and pulls because rows
  travel whole, so that a stale row is wrong about the world but never about itself.
  `QuietCopiesAgree` is inductive as it stands: each command makes its copy queued,
  due or silent, and each stored row makes all other copies older.
  `PaidIsRecorded` compares a row with a sum: the payments recorded anywhere only
  grow, a command that adds to a row adds the payment, and every other row is a copy
  of one for which it held (`PaidInv`).
* `InvoiceInboxProofs`: of the treasury by itself `BooksAreTyped`,
  `NothingIsLeftUnsent`, `EveryDecisionHasItsEntry`, `NothingGoesMissing`; with the
  inbox beside it `InboxIsTyped`, `NothingIsAppliedUnbooked`. Foreign keys are the
  hard part of the types: an undo brings back rows read long ago, and Postgres takes
  rows one request at a time. `BooksInv` holds that every copy of the tables, on the device, in
  Postgres, on the journal and in flight, agrees to which account an import belongs,
  so that any of them may be laid over any other. `FlightInv` says that a row in
  flight that the device has changed since waits again, which makes
  `ChangesAreQueued` inductive under a push that is answered late (a deletion that
  fails joins `resent`, for it may now arrive after its undo); `DeletionsInv`
  that behind the deletion of an import the device has again waits the import. A
  decision is covered by an earlier entry of the journal wherever it stands, in the
  tables or in the rows an entry would bring back (`DecisionsInv`): undos take the
  last entry, and what it brings back is covered before it.
  That no decision goes missing is about the order of the outbox. `OrderInv`: a
  deletion that is queued or in flight and would take a decision with it in Postgres
  has that decision behind it, or the movement is out of its reach by the time it is
  sent, because its import is ahead of the deletion or Postgres has the movement
  elsewhere. That a command that queues a deletion finds it so needs `HomesInv`
  (Postgres has a movement under the import the device has it under, or that import
  is still to come); and this would break if undoing a correction moved a movement
  to another import, of which only the row of the movement is queued.
  `CorrectionsInv` says that it never does: as long as the import of a correction
  is there, so is the movement in it, and a deletion that can be taken back before
  brings back both or neither. Only `OrderInv` and the property itself in its
  inductive form, `OwedInv`, need that no request has failed.

Sums and counts need induction, and its theorems take an operator as a parameter,
which the provers at hand cannot instantiate. `WarehouseProofs` and `InvoicesProofs`
use it in the form that every non-empty set of numbers has a least one: the fold over
a set is shown to be defined for sets of every size, because there is no least size
for which it is not, and what adding or removing one element does to it follows.

Only model-checked: the liveness properties (`EveryRowSettles`,
`EventuallyAllAgree`, `EveryRowArrives`, `EveryMessageSettles`,
`EveryDocumentIsRead`), which rest on fairness. `SettledDevicesAgree` is not proved
for `Sensitive` entities, where it is false.

## 6. What the models say of the code

Two runs show the code doing other than what it says of itself (`PROJECT.json`,
"findings"):

* *A fiscal number is lost* (`invoices_ncf`). A device edits its draft while another
  issues that invoice. The push is an upsert of the whole row, so the draft takes
  status and NCF from the cloud's row and, with the next pull, from the device that
  issued it. `docs/foundation/finance-quotes-v1.md` calls the number immutable.
* *An undo deletes movements* (`treasury_undo`). The undo of an account's edit restores
  the row with `INSERT OR REPLACE`, which cascades to its imports and movements. The
  undo of a correction does the same to a movement's annotation and allocations.

The rest was met while modelling. The first group can be seen with other constants in
the same modules, or is named as an exception by a property.

### Synchronisation

* *Stable ids.* The row of a reminder that is replaced while it is in flight is
  marked sent by the answer of the old push (`notificationLocalService.ts:47`,
  `syncOutboxWorkerService.ts:457`): the later edit is never pushed.
  `SentImpliesDelivered` is about rows with ids of their own.
* *Clock ahead.* With a workstation clock ahead by no more than the accepted five
  minutes, a newer server row is passed over, and the cursor moves past it: the
  device keeps its copy until a row is stamped past that copy. The same befalls a
  device in step that has taken in such a copy. `SettledDevicesAgree` and
  `EventuallyAllAgree` say that nothing else keeps devices apart
  (`HeldBackByFastClock`).
* *Starvation.* With fewer rows a pass than rows that keep failing with a recoverable
  message, those are due at every pass (`recoverRetryableRemoteRows`) and, being
  older, claimed first: the row behind them is never sent. The batch is 100.
* *Late commits.* A transaction that is open while a page past its stamp is read
  commits behind the cursor and is not pulled: stamp, stamp and commit of a second
  row, pull, commit of the first. The properties of `PullCursor` except just these
  (`overtaken`). The hooks have no look-back although `docs/foundation/sync-roadmap.md:53` has one.
* *Unappliable rows.* A page of rows with a permanent error holds the cursor: what is
  behind it never arrives (`Stubborn`; `useFinanceBusinessPull.ts:126`).
* *Conflicts.* A sensitive entity's conflict does not hold the push of its local
  side; a device that pulls its own push before the row is marked sent records a
  conflict with itself; choosing the cloud's version deletes the outbox row of a push
  that is already past its local read, whose discarded change then overwrites the
  cloud; and choosing a version that the cloud has since moved past leaves the
  device behind for good, because the cursor has already passed the newer row.
* *Overlapping pages.* A row fetched before its deletion and applied after its
  tombstone comes back for good: the hooks are separate loops. The properties of
  `TombstonePull` except the rows whose page was in hand beside a page of tombstones
  (`crossed`).
* *Own tombstones.* An undo restores the rows of an import; the device's own
  tombstones arrive before the push that would remove them and delete what was
  restored.
* *Cascades.* The deletion of an account is not held by the unsent annotation of one
  of its transactions, two levels down, although the comment at
  `data/syncTombstonePullService.ts:63-65` speaks of any mutation that still has to be
  pushed. `UnsentRowSurvives` excepts this and nothing else.
* *Imports deleted in two requests.* A transaction whose `import_id` has been set to
  null between them is in no request: it stays in Postgres and is missing on the
  device that deleted it, even when a later edit gives it the `import_id` back
  (`astray`).
* *Undo and retry.* A deletion whose answer is lost is sent again after it was
  undone, and takes what the undo had brought back; restoring with
  `INSERT OR REPLACE` cascades to annotations received since the deletion. The first
  leaves device and cloud in agreement, without the rows; the second is why
  `SettledDeviceAgrees` excepts what hangs from a row that an undo replaced.
* *A held cursor.* An edit of a row deleted elsewhere is refused by Postgres for
  ever; its outbox row protects the local row, so the tombstone cursor waits for ever
  and later deletions are applied again with each page.
* *Beyond these models.* A workspace switch during a pull makes the follow-up pass run
  the old workspace's closure (`useOperationalSnapshotPull.ts:138`); a request that
  never answers stops its loop; RMA snapshots only upsert their child rows, so a
  removed asset stays on other devices.

### Stock

`DriftsOnlyByThree` names three writers that break the agreement of the tables:

* the wizard reserves every unit of an asset, whatever is out, and its slip lists one
  unit of each (`projectMutationService.ts:1732`, `1814`): the return of that slip
  counts one unit back;
* the rewriting of counters after a partial issue counts the whole assignment as out
  (`assetQuantityFoundationBootstrap.ts:349`);
* reassigning fewer units than are reserved while none is on the shelf loses the
  difference (`assetMutationService.ts:1168-1183`).

An asset may be listed in several units of a new project whose dates do not overlap
(`projectMutationService.ts:1300-1337`). Each time the wizard closes the assignment it
read at the start and opens another (`1765`), so that all but the last stay open and
no command closes them. When the active one is released or returned, the next start
or listing takes up the youngest of them and reserves the asset again.
`AssignmentHoldsUnits` excepts these assets.

Also: a slip takes another project's partial reservation without saying so when it
takes from the shelf and moves the asset's project; closing one of two cases of an
asset returns it to the shelf; archived assets can be assigned; returns during
maintenance add to the available units; RMA commands look up no receipt, so a
repeated command is carried out twice.

### Telegram

* Switching the connector off and on while a poller waits starts a second one; the
  first removes the workspace's entry when it ends (`telegramConnectorService.ts:549`),
  whoever's it is, and the next reconciliation starts a third. A poller that had been
  failing writes `configured` when it recovers, whatever the status is by then.
* Messages may therefore reach the assistant more than once: `OneRunPerPoller` is the
  bound that holds. `docs/telegram-single-host.md` and
  `connector-bridge-service.test.ts:612` speak of one.
* What a refused sender should read is computed and not sent. A crash between receipt
  and delivery loses the reply, and a failed delivery is never repeated. A call that
  was given up on answers into the thread when it ends, and its reply may be taken
  from another turn's row.

### Invoices

* Issuing moves the fiscal counter without queueing it: two devices take the same NCF,
  and the push of the second is refused for ever. The settings forms send the counter
  they were filled with.
* `renumberInvoice`, `renumberQuote` and the expiry of quotes queue nothing;
  `cancelInvoice` is three statements without a transaction; `deleteQuote` queues an
  upsert. `QuietCopiesAgree` names the first and third as exceptions.
* Devices number drafts on their own copies and may choose the same number. A row's
  paid amount and the sum of its payments differ between devices, since a pulled
  payment leaves the row alone; `PaidIsRecorded` is the half that holds. More than
  the total may be paid.

### Treasury and inbox

* After an undo has deleted movements, older entries of the journal that restore
  their annotations fail the foreign key and block the journal from then on.
* A deletion may overtake the import that was to rescue a movement from it. An import
  is deleted, its lines are imported again and pushed, the deletion is undone, which
  queues the first import and the movement's annotation, and the second import is
  deleted. If the push of the first import fails, its row goes behind: the
  annotation is sent, the deletion of the second import erases the movement and the
  annotation in Postgres, and the first import brings back the movement alone. The
  device keeps a decision that Postgres lacks and nothing is queued. Hence the
  condition of `NothingIsMissing`.
* A deletion whose answer is lost, or that failed, is sent again although it was
  undone meanwhile. If the undo's rows have been sent before it, Postgres loses the
  import's movements and nothing is queued for them: `ChangesAreQueued` excepts
  movements of an import whose deletion was sent again (`resent`).
* Undoing an entry out of order by its `undoId`, which the contract allows and nothing
  asks for, would leave decisions without their journal entry:
  `DecisionsCanBeUndone` is about the newest-first undo.
* The classification an import makes by itself is never queued: `ChangesAreQueued`
  and `NothingIsMissing` except it. `createCardSettlement` leaves no journal entry. The limit of allocations
  is not asked again by a correction or an undo. `annotateTransaction` leaves the
  fiscal status as it was reviewed.
* A document whose process ended while it waited is never read: `listPendingIds` has
  no caller and a retry skips `processing`. A reading that ends late takes an applied
  or dismissed document back to extracted.
* Booking ids are fixed per document: booking again, after an undo or on another
  movement, does nothing while the row says applied, and a receipt of failure blocks
  the document for ever. Two documents with the same suggestion overwrite one
  another's classification. A booking writes the verdict that its deductible amount
  gives, accepted or, at 0, rejected (`invoiceInboxService.ts:957-972`); the model
  books either.

## 7. Not modelled

What section 2 still plans: aggregates pushed in several requests and child rows
merged on arrival; approvals, tools and sessions of the assistant; the refresh of
workspace tokens (read for its hazards: refreshes are not single-flight, and a late
one overwrites the store after a sign-out); quotes; the asset snapshot pull and the
catalog, kit, file and automation pulls, whose paging is `PullCursor`'s.

Of modelled parts: kits, permissions, date windows and locations in the warehouse;
attachments, channels, token expiry and other parts' outbound messages in the
connector; line items, fees and the creation from a quote of an invoice; links between
movements and documents, invoice allocations, reimbursed allocations and card
reminders in the treasury; the documents' own synchronisation, updates and bulk links
in the inbox.

Reads, formatting, document generation, uploads, IPC wiring and the user interface,
which are the larger part of the repository's lines, have little state or none to
check. The encryption of the database and of tokens; what
Supabase, SQLite and Electron do inside. Row-level security and authorisation are
outside these models.
