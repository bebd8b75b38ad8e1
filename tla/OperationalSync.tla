---------------------------- MODULE OperationalSync ----------------------------
(***************************************************************************)
(* One operational entity (a project, packing slip, incident or RMA case)  *)
(* replicated between devices through its row of operational_snapshots.    *)
(*                                                                         *)
(* A device edits its own SQLite copy and queues an outbox row.  A push    *)
(* upserts the whole current snapshot; Postgres stamps the row with its    *)
(* own clock.  A pull fetches the row when its stamp is past the device's  *)
(* cursor and, later, applies it unless the device has unsent rows or a    *)
(* local copy that counts as at least as new.  For a sensitive entity the  *)
(* refused remote snapshot is kept as a conflict the user resolves.        *)
(*                                                                         *)
(* A copy is the set of edits it includes, so that an edit overwritten by  *)
(* another device's snapshot is one that disappears from the set.          *)
(***************************************************************************)
EXTENDS Integers, FiniteSets

CONSTANTS
    Devices,
    Sensitive,      \* the entity's type is in SENSITIVE_CONFLICT_ENTITY_TYPES
    Skews,          \* how far a workstation clock may be ahead of Postgres's
    AcceptedSkew,   \* MAX_ACCEPTED_CLIENT_CLOCK_SKEW_MS
    MaxEdits,       \* bound: edits over all devices
    MaxFailures     \* bound: pushes and pulls that fail or are interrupted

ASSUME SyncAssumption ==
    /\ IsFiniteSet(Devices)
    /\ Sensitive \in BOOLEAN
    /\ Skews \subseteq Int
    /\ AcceptedSkew \in Nat
    /\ MaxEdits \in Nat
    /\ MaxFailures \in Nat

VARIABLES
    now,        \* the clock of Postgres
    skew,       \* skew[d]: the clock of device d minus now
    server,     \* the operational_snapshots row, stamp its updated_at
    local,      \* local[d]: the entity in d's SQLite, ts its updated_at
    outbox,     \* outbox[d]: how many pending, processing or failed rows d has
    flight,     \* flight[d]: the push in progress
    page,       \* page[d]: the row fetched and not yet applied, as a set
    cursor,     \* cursor[d]: the pull cursor in d's localStorage
    conflict,   \* conflict[d]: the open sync_conflicts row's remote snapshot, as a set
    made,       \* made[d]: the edits of d
    stored,     \* the edits included in some snapshot the cloud has stored
    discarded,  \* the edits given up by choosing the cloud version
    failures

vars == <<now, skew, server, local, outbox, flight, page, cursor, conflict,
          made, stored, discarded, failures>>

EditIds == 1..MaxEdits

\* ahead is history: ts was taken from a clock ahead of Postgres's.
Snapshot == [doc : SUBSET EditIds, live : BOOLEAN, ts : Int, ahead : BOOLEAN]
Gone == [doc |-> {}, live |-> FALSE, ts |-> 0, ahead |-> FALSE]
NoFlight == [phase |-> "idle", queued |-> FALSE, snap |-> Gone]

AllMade == UNION {made[d] : d \in Devices}
SnapshotOf(row) == [doc |-> row.doc, live |-> row.live, ts |-> row.ts, ahead |-> row.ahead]

\* Every device starts with the entity as the cloud has it.
Init ==
    /\ now = 0
    /\ skew \in [Devices -> Skews]
    /\ server = [doc |-> {}, live |-> TRUE, ts |-> 0, ahead |-> FALSE, stamp |-> 0]
    /\ local = [d \in Devices |-> [doc |-> {}, live |-> TRUE, ts |-> 0, ahead |-> FALSE]]
    /\ outbox = [d \in Devices |-> 0]
    /\ flight = [d \in Devices |-> NoFlight]
    /\ page = [d \in Devices |-> {}]
    /\ cursor = [d \in Devices |-> 0]
    /\ conflict = [d \in Devices |-> {}]
    /\ made = [d \in Devices |-> {}]
    /\ stored = {}
    /\ discarded = {}
    /\ failures = 0

-------------------------------------------------------------------------------
(* Local edits                                                             *)

EditCoalescing(d, live) ==
    LET n == Cardinality(AllMade) + 1 IN
    /\ local[d].live
    /\ n <= MaxEdits
    /\ now' = now + 1
    /\ local' = [local EXCEPT ![d] =
                    [doc |-> @.doc \cup {n}, live |-> live,
                     ts |-> now + 1 + skew[d], ahead |-> skew[d] > 0]]
    /\ made' = [made EXCEPT ![d] = @ \cup {n}]
    /\ outbox' = [outbox EXCEPT ![d] = IF @ = 0 THEN 1 ELSE @]
    /\ UNCHANGED <<skew, server, flight, page, cursor, conflict, stored, discarded, failures>>

\* The user edits or deletes the entity: the row and its outbox row commit
\* together, stamped with the workstation's clock.
Edit(d, live) ==
    LET n == Cardinality(AllMade) + 1 IN
    /\ local[d].live
    /\ n <= MaxEdits
    /\ now' = now + 1
    /\ local' = [local EXCEPT ![d] =
                    [doc |-> @.doc \cup {n}, live |-> live,
                     ts |-> now + 1 + skew[d], ahead |-> skew[d] > 0]]
    /\ made' = [made EXCEPT ![d] = @ \cup {n}]
    /\ outbox' = [outbox EXCEPT ![d] = @ + 1]
    /\ UNCHANGED <<skew, server, flight, page, cursor, conflict, stored, discarded, failures>>

-------------------------------------------------------------------------------
(* Push: the worker's transport of one outbox row                          *)

\* The worker claims a row and awaits the session token.
ClaimRow(d) ==
    /\ flight[d].phase = "idle"
    /\ outbox[d] > 0
    /\ flight' = [flight EXCEPT ![d] = [phase |-> "token", queued |-> TRUE, snap |-> Gone]]
    /\ UNCHANGED <<now, skew, server, local, outbox, page, cursor, conflict,
                   made, stored, discarded, failures>>

\* resolveOperationalSnapshot reads the entity as it is now.
ReadSnapshot(d) ==
    /\ flight[d].phase = "token"
    /\ flight' = [flight EXCEPT ![d].phase = "request", ![d].snap = local[d]]
    /\ UNCHANGED <<now, skew, server, local, outbox, page, cursor, conflict,
                   made, stored, discarded, failures>>

ServerUpsertsClientStamp(d) ==
    LET s == flight[d].snap IN
    /\ flight[d].phase = "request"
    /\ now' = now + 1
    /\ server' = [doc |-> s.doc, live |-> s.live, ts |-> s.ts, ahead |-> s.ahead, stamp |-> s.ts]
    /\ stored' = stored \cup s.doc
    /\ flight' = [flight EXCEPT ![d].phase = "stored"]
    /\ UNCHANGED <<skew, local, outbox, page, cursor, conflict, made, discarded, failures>>

\* Postgres accepts the upsert and stamps it with its own clock.
ServerUpserts(d) ==
    LET s == flight[d].snap IN
    /\ flight[d].phase = "request"
    /\ now' = now + 1
    /\ server' = [doc |-> s.doc, live |-> s.live, ts |-> s.ts, ahead |-> s.ahead, stamp |-> now + 1]
    /\ stored' = stored \cup s.doc
    /\ flight' = [flight EXCEPT ![d].phase = "stored"]
    /\ UNCHANGED <<skew, local, outbox, page, cursor, conflict, made, discarded, failures>>

MarkSentUnconditionally(d) ==
    /\ flight[d].phase = "stored"
    /\ flight' = [flight EXCEPT ![d] = NoFlight]
    /\ outbox' = [outbox EXCEPT ![d] = @ - 1]
    /\ UNCHANGED <<now, skew, server, local, page, cursor, conflict,
                   made, stored, discarded, failures>>

\* The row becomes sent, unless it has been deleted meanwhile.
MarkSent(d) ==
    /\ flight[d].phase = "stored"
    /\ flight' = [flight EXCEPT ![d] = NoFlight]
    /\ outbox' = [outbox EXCEPT ![d] = IF flight[d].queued THEN @ - 1 ELSE @]
    /\ UNCHANGED <<now, skew, server, local, page, cursor, conflict,
                   made, stored, discarded, failures>>

PushFailsForGood(d) ==
    /\ flight[d].phase # "idle"
    /\ failures < MaxFailures
    /\ failures' = failures + 1
    /\ flight' = [flight EXCEPT ![d] = NoFlight]
    /\ outbox' = [outbox EXCEPT ![d] = @ - 1]
    /\ UNCHANGED <<now, skew, server, local, page, cursor, conflict,
                   made, stored, discarded>>

\* The push fails, or the process dies during it: the row stays in the outbox.
PushFails(d) ==
    /\ flight[d].phase # "idle"
    /\ failures < MaxFailures
    /\ failures' = failures + 1
    /\ flight' = [flight EXCEPT ![d] = NoFlight]
    /\ UNCHANGED <<now, skew, server, local, outbox, page, cursor, conflict,
                   made, stored, discarded>>

-------------------------------------------------------------------------------
(* Pull                                                                    *)

\* The renderer's query: rows stamped past the cursor.
FetchPage(d) ==
    /\ page[d] = {}
    /\ server.stamp > cursor[d]
    /\ page' = [page EXCEPT ![d] = {server}]
    /\ UNCHANGED <<now, skew, server, local, outbox, flight, cursor, conflict,
                   made, stored, discarded, failures>>

IgnoresProcessingRow(d) == outbox[d] > IF flight[d].queued THEN 1 ELSE 0
HasPendingOutbox(d) == outbox[d] > 0

\* isLocalTimestampAtLeastAsNew on d's clock.
LocalAtLeastAsNew(d, stamp) ==
    /\ local[d].live
    /\ local[d].ts <= now + skew[d] + AcceptedSkew
    /\ local[d].ts >= stamp

\* The cursor is written after the apply, if the renderer lives that long.
Consume(d, row) ==
    /\ page' = [page EXCEPT ![d] = {}]
    /\ cursor' = [cursor EXCEPT ![d] = row.stamp]

\* An unsent local change: the remote row is refused and the cursor stays; a
\* sensitive entity's conflict is recorded or refreshed.
SkipForOutbox(d, row) ==
    /\ HasPendingOutbox(d)
    /\ conflict' = IF Sensitive THEN [conflict EXCEPT ![d] = {SnapshotOf(row)}] ELSE conflict
    /\ page' = [page EXCEPT ![d] = {}]
    /\ UNCHANGED <<cursor, local>>

\* The local copy counts as at least as new: the row is passed over for good.
SkipOlder(d, row) ==
    /\ ~HasPendingOutbox(d)
    /\ LocalAtLeastAsNew(d, row.stamp)
    /\ Consume(d, row)
    /\ UNCHANGED <<local, conflict>>

\* The remote snapshot replaces the local copy, its own updated_at included.
ApplySnapshot(d, row) ==
    /\ ~HasPendingOutbox(d)
    /\ ~LocalAtLeastAsNew(d, row.stamp)
    /\ local' = [local EXCEPT ![d] = SnapshotOf(row)]
    /\ Consume(d, row)
    /\ UNCHANGED conflict

ApplyPage(d) ==
    /\ \E row \in page[d] :
         \/ SkipForOutbox(d, row)
         \/ SkipOlder(d, row)
         \/ ApplySnapshot(d, row)
    /\ UNCHANGED <<now, skew, server, outbox, flight, made, stored, discarded, failures>>

\* The query or the apply fails, or the renderer goes away before it has written
\* the cursor: the page is fetched again.
PullFails(d) ==
    /\ page[d] # {}
    /\ failures < MaxFailures
    /\ failures' = failures + 1
    /\ page' = [page EXCEPT ![d] = {}]
    /\ UNCHANGED <<now, skew, server, local, outbox, flight, cursor, conflict,
                   made, stored, discarded>>

-------------------------------------------------------------------------------
(* Conflict review                                                         *)

\* take_remote: the recorded snapshot replaces the local copy and the unsent
\* rows are deleted, the one in flight included.
TakeRemote(d) ==
    /\ \E s \in conflict[d] : local' = [local EXCEPT ![d] = s]
    /\ conflict' = [conflict EXCEPT ![d] = {}]
    /\ outbox' = [outbox EXCEPT ![d] = 0]
    /\ flight' = [flight EXCEPT ![d].queued = FALSE]
    /\ discarded' = discarded \cup (local[d].doc \ stored)
    /\ UNCHANGED <<now, skew, server, page, cursor, made, stored, failures>>

\* keep_local: the conflict is closed, nothing else changes.
KeepLocal(d) ==
    /\ conflict[d] # {}
    /\ conflict' = [conflict EXCEPT ![d] = {}]
    /\ UNCHANGED <<now, skew, server, local, outbox, flight, page, cursor,
                   made, stored, discarded, failures>>

Next ==
    \E d \in Devices :
        \/ \E live \in BOOLEAN : Edit(d, live)
        \/ ClaimRow(d)
        \/ ReadSnapshot(d)
        \/ ServerUpserts(d)
        \/ MarkSent(d)
        \/ PushFails(d)
        \/ FetchPage(d)
        \/ ApplyPage(d)
        \/ PullFails(d)
        \/ TakeRemote(d)
        \/ KeepLocal(d)

Spec == Init /\ [][Next]_vars

\* The worker's timer and the pull's interval keep both loops going; failures
\* are bounded and the user owes nothing.
FairSpec ==
    /\ Spec
    /\ \A d \in Devices :
        /\ WF_vars(ClaimRow(d))
        /\ WF_vars(ReadSnapshot(d))
        /\ WF_vars(ServerUpserts(d))
        /\ WF_vars(MarkSent(d))
        /\ WF_vars(FetchPage(d))
        /\ WF_vars(ApplyPage(d))

-------------------------------------------------------------------------------
(* Properties                                                              *)

\* Every variable has its type.
TypeOK ==
    /\ now \in Nat
    /\ skew \in [Devices -> Skews]
    /\ server \in [doc : SUBSET EditIds, live : BOOLEAN, ts : Int, ahead : BOOLEAN,
                   stamp : Nat]
    /\ local \in [Devices -> Snapshot]
    /\ outbox \in [Devices -> Nat]
    /\ flight \in [Devices -> [phase : {"idle", "token", "request", "stored"},
                               queued : BOOLEAN, snap : Snapshot]]
    /\ page \in [Devices -> SUBSET [doc : SUBSET EditIds, live : BOOLEAN,
                                    ts : Int, ahead : BOOLEAN, stamp : Nat]]
    /\ cursor \in [Devices -> Nat]
    /\ conflict \in [Devices -> SUBSET Snapshot]
    /\ made \in [Devices -> SUBSET EditIds]
    /\ stored \in SUBSET EditIds
    /\ discarded \in SUBSET EditIds
    /\ failures \in Nat

\* The edits of d that no snapshot has carried to the cloud and that its user
\* has not given up.
Unpushed(d) == made[d] \ (stored \cup discarded)

\* Until an edit has reached the cloud it stays in the local copy with an outbox
\* row to push it, whatever is pulled meanwhile, unless its own user chose the
\* cloud version over it.
NoEditLostLocally ==
    \A d \in Devices :
        /\ Unpushed(d) \subseteq local[d].doc
        /\ Unpushed(d) # {} => outbox[d] > 0

\* An edit made after the snapshot in flight was read has an outbox row of its
\* own, so that marking the pushed row sent does not leave it unqueued.
LaterEditsStayQueued ==
    \A d \in Devices :
        /\ flight[d].queued => outbox[d] > 0
        /\ flight[d].phase = "stored" => flight[d].snap.doc \subseteq stored
        /\ flight[d].phase \in {"request", "stored"} /\ flight[d].queued =>
             (Unpushed(d) \subseteq flight[d].snap.doc \/ outbox[d] > 1)

\* The inductive invariant behind NoEditLostLocally.
IInv == TypeOK /\ NoEditLostLocally /\ LaterEditsStayQueued

\* d holds what the cloud holds.
HoldsCloudCopy(d) == local[d].doc = server.doc /\ local[d].live = server.live

\* d holds a copy stamped by a clock ahead of Postgres's, and the row of the cloud
\* is stamped no later: isLocalTimestampAtLeastAsNew makes d pass that row over.
HeldBackByFastClock(d) == local[d].ahead /\ local[d].ts >= server.stamp

\* A device with nothing to send, nothing in flight and nothing left to pull
\* holds what the cloud holds, whatever the clocks of the workstations show.  The
\* exception is a device whose copy a fast clock has stamped past the cloud's row;
\* it lasts until a row is stamped past that copy.
SettledDevicesAgree ==
    \A d \in Devices :
        (outbox[d] = 0 /\ flight[d] = NoFlight /\ page[d] = {} /\ cursor[d] >= server.stamp)
            => HoldsCloudCopy(d) \/ HeldBackByFastClock(d)

\* Why SettledDevicesAgree holds where no conflict is kept: the last push of a
\* device is stamped past its cursor, so that the device still has its own row to
\* pull, and past every copy that no fast clock has stamped, so that what it pulls
\* is newer than such a copy.
RowInHand(row) ==
    /\ 0 < row.stamp /\ row.stamp <= server.stamp
    /\ row.ahead \/ row.ts < row.stamp
    /\ row.stamp = server.stamp => row = server
PushInHand(d) ==
    /\ flight[d].snap.ahead \/ flight[d].snap.ts <= now
    /\ flight[d].phase # "idle" => flight[d].queued
    /\ flight[d].phase = "stored" =>
        /\ cursor[d] < server.stamp
        /\ flight[d].snap.ahead \/ flight[d].snap.ts < server.stamp
    /\ flight[d].phase \in {"request", "stored"} /\ outbox[d] = 1 =>
        local[d] = flight[d].snap
NothingUnsent(d) ==
    /\ server.stamp = 0 \/ local[d].ahead \/ local[d].ts < server.stamp
    /\ cursor[d] >= server.stamp => HoldsCloudCopy(d) \/ HeldBackByFastClock(d)
AgreeInv ==
    /\ server.stamp <= now
    /\ server.stamp > 0 => server.ahead \/ server.ts < server.stamp
    /\ \A d \in Devices :
        /\ conflict[d] = {}
        /\ cursor[d] <= server.stamp
        /\ local[d].ahead \/ local[d].ts <= now
        /\ \A row \in page[d] : RowInHand(row)
        /\ PushInHand(d)
        /\ outbox[d] = 0 => NothingUnsent(d)

\* When the users stop editing, every device ends with the cloud's copy, except
\* one that a fast clock holds back.
EventuallyAllAgree ==
    <>[](\A d \in Devices : HoldsCloudCopy(d) \/ HeldBackByFastClock(d))
===============================================================================
