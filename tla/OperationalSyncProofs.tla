------------------------- MODULE OperationalSyncProofs -------------------------
(***************************************************************************)
(* Proofs about OperationalSync, for any number of devices, edits and       *)
(* failures and any workstation clocks: its types, and that no edit leaves  *)
(* its device before the cloud has it or its user gives it up.              *)
(*                                                                          *)
(* The danger is MarkSent, which takes a row out of the outbox, and the     *)
(* apply, which a single row left in the outbox holds off.                  *)
(* LaterEditsStayQueued is the invariant that makes MarkSent safe: what the *)
(* pushed snapshot does not carry was queued after it was read.             *)
(*                                                                          *)
(* Devices that have settled agree with the cloud (AgreeInv) if no conflict *)
(* is kept for the user to resolve, except those a fast clock holds back.   *)
(***************************************************************************)
EXTENDS OperationalSync, FiniteSetTheorems, TLAPS

ServerRow == [doc : SUBSET EditIds, live : BOOLEAN, ts : Int, ahead : BOOLEAN, stamp : Nat]
Flight == [phase : {"idle", "token", "request", "stored"}, queued : BOOLEAN, snap : Snapshot]

LEMMA SnapshotTypes ==
    /\ NoFlight \in Flight
    /\ Gone \in Snapshot
    /\ \A row \in ServerRow : SnapshotOf(row) \in Snapshot
  BY DEF NoFlight, Gone, Flight, Snapshot, SnapshotOf, ServerRow

LEMMA InitEstablishesIInv == Init => IInv
  <1> SUFFICES ASSUME Init PROVE IInv
    OBVIOUS
  <1>1. TypeOK
    BY SnapshotTypes, SyncAssumption DEF Init, TypeOK, Flight, Snapshot
  <1>2. \A d \in Devices : Unpushed(d) = {}
    BY DEF Init, Unpushed
  <1>3. NoEditLostLocally /\ LaterEditsStayQueued
    BY <1>2 DEF Init, NoEditLostLocally, LaterEditsStayQueued, NoFlight
  <1> QED
    BY <1>1, <1>3 DEF IInv

LEMMA NextKeepsType ==
    ASSUME TypeOK, LaterEditsStayQueued, [Next]_vars
    PROVE  TypeOK'
  <1> USE SyncAssumption
  <1>1. ASSUME NEW d \in Devices, NEW live \in BOOLEAN, Edit(d, live)
        PROVE  TypeOK'
    <2> DEFINE n == Cardinality(AllMade) + 1
    <2>1. n \in EditIds
      <3>1. AllMade \in SUBSET EditIds
        BY DEF TypeOK, AllMade
      <3>2. IsFiniteSet(EditIds)
        BY FS_Interval DEF EditIds
      <3>3. Cardinality(AllMade) \in Nat
        BY <3>1, <3>2, FS_Subset, FS_CardinalityType
      <3> QED
        BY <1>1, <3>3 DEF Edit, EditIds
    <2>2. local' \in [Devices -> Snapshot]
      <3>1. local' = [local EXCEPT ![d] =
                        [doc |-> local[d].doc \cup {n}, live |-> live,
                         ts |-> now + 1 + skew[d], ahead |-> skew[d] > 0]]
        BY <1>1 DEF Edit
      <3>2. [doc |-> local[d].doc \cup {n}, live |-> live,
             ts |-> now + 1 + skew[d], ahead |-> skew[d] > 0] \in Snapshot
        <4>1. local[d].doc \cup {n} \in SUBSET EditIds
          BY <2>1 DEF TypeOK, Snapshot
        <4>2. now \in Nat /\ skew \in [Devices -> Skews]
          BY DEF TypeOK
        <4>4. skew[d] \in Int
          BY <4>2
        <4>3. now + 1 + skew[d] \in Int
          BY <4>2, <4>4
        <4> QED
          BY <4>1, <4>3 DEF Snapshot
      <3> QED
        BY <3>1, <3>2 DEF TypeOK
    <2>3. made' \in [Devices -> SUBSET EditIds]
      BY <1>1, <2>1 DEF TypeOK, Edit
    <2>4. outbox' \in [Devices -> Nat] /\ now' \in Nat
      BY <1>1 DEF TypeOK, Edit
    <2>5. UNCHANGED <<skew, server, flight, page, cursor, conflict, stored, discarded, failures>>
      BY <1>1 DEF Edit
    <2> QED
      BY <2>2, <2>3, <2>4, <2>5 DEF TypeOK
  <1>2. ASSUME NEW d \in Devices, ClaimRow(d)
        PROVE  TypeOK'
    <2>1. [phase |-> "token", queued |-> TRUE, snap |-> Gone] \in Flight
      BY SnapshotTypes DEF Flight
    <2>2. flight' \in [Devices -> Flight]
      BY <1>2, <2>1 DEF TypeOK, ClaimRow, Flight
    <2> QED
      BY <1>2, <2>2 DEF TypeOK, ClaimRow, Flight
  <1>3. ASSUME NEW d \in Devices, ReadSnapshot(d)
        PROVE  TypeOK'
    <2>1. [flight[d] EXCEPT !.phase = "request", !.snap = local[d]] \in Flight
      BY DEF TypeOK, Flight
    <2>2. flight' \in [Devices -> Flight]
      BY <1>3, <2>1 DEF TypeOK, ReadSnapshot, Flight
    <2> QED
      BY <1>3, <2>2 DEF TypeOK, ReadSnapshot, Flight
  <1>4. ASSUME NEW d \in Devices, ServerUpserts(d)
        PROVE  TypeOK'
    <2>1. flight[d].snap \in Snapshot /\ [flight[d] EXCEPT !.phase = "stored"] \in Flight
      BY DEF TypeOK, Flight
    <2>2. flight' \in [Devices -> Flight]
      BY <1>4, <2>1 DEF TypeOK, ServerUpserts, Flight
    <2>3. server' \in ServerRow /\ now' \in Nat /\ stored' \in SUBSET EditIds
      BY <1>4, <2>1 DEF TypeOK, ServerUpserts, Snapshot, ServerRow
    <2> QED
      BY <1>4, <2>2, <2>3 DEF TypeOK, ServerUpserts, Flight, ServerRow
  <1>5. ASSUME NEW d \in Devices, MarkSent(d)
        PROVE  TypeOK'
    <2>1. flight' \in [Devices -> Flight]
      BY <1>5, SnapshotTypes DEF TypeOK, MarkSent, Flight
    <2>2. outbox' \in [Devices -> Nat]
      BY <1>5 DEF TypeOK, MarkSent, LaterEditsStayQueued
    <2> QED
      BY <1>5, <2>1, <2>2 DEF TypeOK, MarkSent, Flight
  <1>6. ASSUME NEW d \in Devices, PushFails(d)
        PROVE  TypeOK'
    <2>1. flight' \in [Devices -> Flight]
      BY <1>6, SnapshotTypes DEF TypeOK, PushFails, Flight
    <2> QED
      BY <1>6, <2>1 DEF TypeOK, PushFails, Flight
  <1>7. ASSUME NEW d \in Devices, FetchPage(d) \/ PullFails(d) \/ KeepLocal(d)
        PROVE  TypeOK'
    <2>1. page' \in [Devices -> SUBSET ServerRow] /\ failures' \in Nat
      BY <1>7 DEF TypeOK, FetchPage, PullFails, KeepLocal, ServerRow
    <2>2. conflict' \in [Devices -> SUBSET Snapshot]
      BY <1>7 DEF TypeOK, FetchPage, PullFails, KeepLocal
    <2>3. UNCHANGED <<now, skew, server, local, outbox, flight, cursor, made, stored, discarded>>
      BY <1>7 DEF FetchPage, PullFails, KeepLocal
    <2> QED
      BY <2>1, <2>2, <2>3 DEF TypeOK, ServerRow
  <1>8. ASSUME NEW d \in Devices, ApplyPage(d)
        PROVE  TypeOK'
    <2>1. PICK row \in page[d] : SkipForOutbox(d, row) \/ SkipOlder(d, row) \/ ApplySnapshot(d, row)
      BY <1>8 DEF ApplyPage
    <2>2. row \in ServerRow /\ row.stamp \in Nat /\ SnapshotOf(row) \in Snapshot
      BY SnapshotTypes DEF TypeOK, ServerRow
    <2>3. page' \in [Devices -> SUBSET ServerRow]
      BY <2>1 DEF TypeOK, SkipForOutbox, SkipOlder, ApplySnapshot, Consume, ServerRow
    <2>4. cursor' \in [Devices -> Nat]
      BY <2>1, <2>2 DEF TypeOK, SkipForOutbox, SkipOlder, ApplySnapshot, Consume
    <2>5. local' \in [Devices -> Snapshot]
      BY <2>1, <2>2 DEF TypeOK, SkipForOutbox, SkipOlder, ApplySnapshot
    <2>6. conflict' \in [Devices -> SUBSET Snapshot]
      BY <2>1, <2>2 DEF TypeOK, SkipForOutbox, SkipOlder, ApplySnapshot
    <2>7. UNCHANGED <<now, skew, server, outbox, flight, made, stored, discarded, failures>>
      BY <1>8 DEF ApplyPage
    <2> QED
      BY <2>3, <2>4, <2>5, <2>6, <2>7 DEF TypeOK, ServerRow
  <1>9. ASSUME NEW d \in Devices, TakeRemote(d)
        PROVE  TypeOK'
    <2>1. local' \in [Devices -> Snapshot]
      BY <1>9 DEF TypeOK, TakeRemote
    <2>2. conflict' \in [Devices -> SUBSET Snapshot] /\ outbox' \in [Devices -> Nat]
      BY <1>9 DEF TypeOK, TakeRemote
    <2>3. [flight[d] EXCEPT !.queued = FALSE] \in Flight
      BY DEF TypeOK, Flight
    <2>4. flight' \in [Devices -> Flight]
      BY <1>9, <2>3 DEF TypeOK, TakeRemote, Flight
    <2>5. discarded' \in SUBSET EditIds
      BY <1>9 DEF TypeOK, TakeRemote, Snapshot
    <2>6. UNCHANGED <<now, skew, server, page, cursor, made, stored, failures>>
      BY <1>9 DEF TakeRemote
    <2> QED
      BY <2>1, <2>2, <2>4, <2>5, <2>6 DEF TypeOK, Flight
  <1>10. CASE UNCHANGED vars
    BY <1>10 DEF TypeOK, vars
  <1> QED
    BY <1>1, <1>2, <1>3, <1>4, <1>5, <1>6, <1>7, <1>8, <1>9, <1>10 DEF Next

LEMMA NextKeepsEdits ==
    ASSUME IInv, [Next]_vars
    PROVE  NoEditLostLocally' /\ LaterEditsStayQueued'
  <1>0. TypeOK /\ NoEditLostLocally /\ LaterEditsStayQueued
    BY DEF IInv
  <1>1. ASSUME NEW d \in Devices, NEW live \in BOOLEAN, Edit(d, live)
        PROVE  NoEditLostLocally' /\ LaterEditsStayQueued'
    <2> DEFINE n == Cardinality(AllMade) + 1
    <2>1. /\ local'[d].doc = local[d].doc \cup {n}
          /\ made'[d] = made[d] \cup {n}
          /\ outbox'[d] = outbox[d] + 1 /\ outbox[d] \in Nat
          /\ \A x \in Devices \ {d} :
               local'[x] = local[x] /\ made'[x] = made[x] /\ outbox'[x] = outbox[x]
          /\ UNCHANGED <<flight, stored, discarded>>
      BY <1>0, <1>1 DEF TypeOK, Edit
    <2>2. Unpushed(d)' \subseteq Unpushed(d) \cup {n}
      BY <2>1 DEF Unpushed
    <2>3. \A x \in Devices \ {d} : Unpushed(x)' = Unpushed(x)
      BY <2>1 DEF Unpushed
    <2> HIDE DEF n
    <2>4. NoEditLostLocally'
      BY <1>0, <2>1, <2>2, <2>3 DEF NoEditLostLocally
    <2>5. LaterEditsStayQueued'
      BY <1>0, <2>1, <2>2, <2>3 DEF LaterEditsStayQueued
    <2> QED
      BY <2>4, <2>5
  <1>2. ASSUME NEW d \in Devices, ClaimRow(d) \/ PushFails(d)
        PROVE  NoEditLostLocally' /\ LaterEditsStayQueued'
    <2>1. /\ \A x \in Devices \ {d} : flight'[x] = flight[x]
          /\ flight'[d].phase \in {"idle", "token"}
          /\ flight'[d].queued => outbox[d] > 0
          /\ UNCHANGED <<local, outbox, made, stored, discarded>>
      BY <1>0, <1>2 DEF TypeOK, ClaimRow, PushFails, NoFlight
    <2>2. \A x \in Devices : Unpushed(x)' = Unpushed(x)
      BY <2>1 DEF Unpushed
    <2> QED
      BY <1>0, <2>1, <2>2 DEF NoEditLostLocally, LaterEditsStayQueued
  <1>3. ASSUME NEW d \in Devices, ReadSnapshot(d)
        PROVE  NoEditLostLocally' /\ LaterEditsStayQueued'
    <2>1. /\ \A x \in Devices \ {d} : flight'[x] = flight[x]
          /\ flight'[d].phase = "request" /\ flight'[d].snap = local[d]
          /\ flight'[d].queued = flight[d].queued
          /\ UNCHANGED <<local, outbox, made, stored, discarded>>
      BY <1>0, <1>3 DEF TypeOK, ReadSnapshot
    <2>2. \A x \in Devices : Unpushed(x)' = Unpushed(x)
      BY <2>1 DEF Unpushed
    <2> QED
      BY <1>0, <2>1, <2>2 DEF NoEditLostLocally, LaterEditsStayQueued
  <1>4. ASSUME NEW d \in Devices, ServerUpserts(d)
        PROVE  NoEditLostLocally' /\ LaterEditsStayQueued'
    <2>1. /\ \A x \in Devices \ {d} : flight'[x] = flight[x]
          /\ flight'[d].phase = "stored" /\ flight[d].phase = "request"
          /\ flight'[d].snap = flight[d].snap
          /\ flight'[d].queued = flight[d].queued
          /\ stored' = stored \cup flight[d].snap.doc
          /\ UNCHANGED <<local, outbox, made, discarded>>
      BY <1>0, <1>4 DEF TypeOK, ServerUpserts
    <2>2. \A x \in Devices : Unpushed(x)' \subseteq Unpushed(x)
      BY <2>1 DEF Unpushed
    <2>3. NoEditLostLocally'
      BY <1>0, <2>1, <2>2 DEF NoEditLostLocally
    <2>4. LaterEditsStayQueued'
      BY <1>0, <2>1, <2>2 DEF LaterEditsStayQueued
    <2> QED
      BY <2>3, <2>4
  <1>5. ASSUME NEW d \in Devices, MarkSent(d)
        PROVE  NoEditLostLocally' /\ LaterEditsStayQueued'
    <2>1. /\ \A x \in Devices \ {d} : flight'[x] = flight[x] /\ outbox'[x] = outbox[x]
          /\ flight'[d].phase = "idle" /\ ~flight'[d].queued
          /\ flight[d].phase = "stored"
          /\ outbox'[d] = IF flight[d].queued THEN outbox[d] - 1 ELSE outbox[d]
          /\ outbox[d] \in Nat
          /\ UNCHANGED <<local, made, stored, discarded>>
      BY <1>0, <1>5 DEF TypeOK, MarkSent, NoFlight
    <2>2. \A x \in Devices : Unpushed(x)' = Unpushed(x)
      BY <2>1 DEF Unpushed
    <2>3. Unpushed(d) # {} => outbox'[d] > 0
      <3>1. flight[d].snap.doc \subseteq stored
        BY <1>0, <2>1 DEF LaterEditsStayQueued
      <3>2. Unpushed(d) \subseteq flight[d].snap.doc => Unpushed(d) = {}
        BY <3>1 DEF Unpushed
      <3> QED
        BY <1>0, <2>1, <3>2 DEF LaterEditsStayQueued, NoEditLostLocally
    <2>4. NoEditLostLocally'
      BY <1>0, <2>1, <2>2, <2>3 DEF NoEditLostLocally
    <2>5. LaterEditsStayQueued'
      BY <1>0, <2>1, <2>2 DEF LaterEditsStayQueued
    <2> QED
      BY <2>4, <2>5
  <1>6. ASSUME NEW d \in Devices, ApplyPage(d)
        PROVE  NoEditLostLocally' /\ LaterEditsStayQueued'
    <2>1. /\ UNCHANGED <<outbox, flight, made, stored, discarded>>
          /\ \A x \in Devices \ {d} : local'[x] = local[x]
          /\ local' = local \/ ~HasPendingOutbox(d)
      BY <1>0, <1>6 DEF TypeOK, ApplyPage, SkipForOutbox, SkipOlder, ApplySnapshot
    <2>2. \A x \in Devices : Unpushed(x)' = Unpushed(x)
      BY <2>1 DEF Unpushed
    <2>3. ~HasPendingOutbox(d) => Unpushed(d) = {}
      BY <1>0 DEF HasPendingOutbox, NoEditLostLocally
    <2> QED
      BY <1>0, <2>1, <2>2, <2>3 DEF NoEditLostLocally, LaterEditsStayQueued
  <1>7. ASSUME NEW d \in Devices, TakeRemote(d)
        PROVE  NoEditLostLocally' /\ LaterEditsStayQueued'
    <2>1. /\ \A x \in Devices \ {d} :
               local'[x] = local[x] /\ flight'[x] = flight[x] /\ outbox'[x] = outbox[x]
          /\ ~flight'[d].queued
          /\ flight'[d].phase = flight[d].phase /\ flight'[d].snap = flight[d].snap
          /\ discarded' = discarded \cup (local[d].doc \ stored)
          /\ UNCHANGED <<made, stored>>
      BY <1>0, <1>7 DEF TypeOK, TakeRemote
    <2>2. \A x \in Devices : Unpushed(x)' \subseteq Unpushed(x)
      BY <2>1 DEF Unpushed
    <2>3. Unpushed(d)' = {}
      BY <1>0, <2>1 DEF Unpushed, NoEditLostLocally
    <2>4. NoEditLostLocally'
      BY <1>0, <2>1, <2>2, <2>3 DEF NoEditLostLocally
    <2>5. LaterEditsStayQueued'
      BY <1>0, <2>1, <2>2 DEF LaterEditsStayQueued
    <2> QED
      BY <2>4, <2>5
  <1>8. ASSUME NEW d \in Devices, FetchPage(d) \/ PullFails(d) \/ KeepLocal(d)
        PROVE  NoEditLostLocally' /\ LaterEditsStayQueued'
    BY <1>0, <1>8
       DEF FetchPage, PullFails, KeepLocal, NoEditLostLocally, LaterEditsStayQueued, Unpushed
  <1>9. CASE UNCHANGED vars
    BY <1>0, <1>9 DEF vars, NoEditLostLocally, LaterEditsStayQueued, Unpushed
  <1> QED
    BY <1>1, <1>2, <1>3, <1>4, <1>5, <1>6, <1>7, <1>8, <1>9 DEF Next

LEMMA NextKeepsIInv == IInv /\ [Next]_vars => IInv'
  BY NextKeepsType, NextKeepsEdits DEF IInv

\* The replicas, the rows in flight and the cursors always have their types; in
\* particular the outbox count never goes below zero.
THEOREM TypeCorrectness == Spec => []TypeOK
  <1>1. IInv => TypeOK
    BY DEF IInv
  <1> QED
    BY <1>1, InitEstablishesIInv, NextKeepsIInv, PTL DEF Spec

\* What is edited while a push is in flight has an outbox row left when that
\* push is marked sent.
THEOREM LaterEditsQueued == Spec => []LaterEditsStayQueued
  <1>1. IInv => LaterEditsStayQueued
    BY DEF IInv
  <1> QED
    BY <1>1, InitEstablishesIInv, NextKeepsIInv, PTL DEF Spec

\* No pull, push, failure or conflict resolution makes a device lose an edit that
\* has not reached the cloud, unless its user gave it up.
THEOREM NoEditIsLost == Spec => []NoEditLostLocally
  <1>1. IInv => NoEditLostLocally
    BY DEF IInv
  <1> QED
    BY <1>1, InitEstablishesIInv, NextKeepsIInv, PTL DEF Spec

-------------------------------------------------------------------------------
(* Agreement                                                               *)

LEMMA InitAgrees == Init => AgreeInv
  <1> SUFFICES ASSUME Init PROVE AgreeInv
    OBVIOUS
  <1>1. /\ now = 0 /\ server = [doc |-> {}, live |-> TRUE, ts |-> 0, ahead |-> FALSE, stamp |-> 0]
        /\ \A d \in Devices :
            /\ local[d] = [doc |-> {}, live |-> TRUE, ts |-> 0, ahead |-> FALSE]
            /\ flight[d] = NoFlight /\ page[d] = {} /\ cursor[d] = 0 /\ conflict[d] = {}
    BY DEF Init
  <1>2. \A d \in Devices : PushInHand(d) /\ NothingUnsent(d)
    <2> SUFFICES ASSUME NEW d \in Devices PROVE PushInHand(d) /\ NothingUnsent(d)
      OBVIOUS
    <2>1. flight[d].phase = "idle" /\ flight[d].snap.ts = 0
      BY <1>1 DEF NoFlight, Gone
    <2>2. /\ local[d].doc = {} /\ local[d].live = TRUE
          /\ server.doc = {} /\ server.live = TRUE /\ server.stamp = 0
      BY <1>1
    <2>3. now = 0 /\ flight[d].snap.ts <= now
      BY <1>1, <2>1
    <2>4. PushInHand(d)
      BY <2>1, <2>3 DEF PushInHand
    <2> QED
      BY <2>2, <2>4 DEF NothingUnsent, HoldsCloudCopy
  <1> QED
    BY <1>1, <1>2 DEF AgreeInv

LEMMA NextKeepsAgreement ==
    ASSUME ~Sensitive, IInv, AgreeInv, [Next]_vars
    PROVE  AgreeInv'
  <1>0. TypeOK /\ LaterEditsStayQueued
    BY DEF IInv
  <1>t. /\ now \in Nat /\ server \in ServerRow
        /\ \A d \in Devices :
            /\ local[d] \in Snapshot /\ outbox[d] \in Nat /\ cursor[d] \in Nat
            /\ flight[d] \in Flight /\ page[d] \subseteq ServerRow
            /\ skew[d] \in Int
    BY <1>0, SyncAssumption DEF TypeOK, Flight, ServerRow
  <1>a. \A d \in Devices :
            /\ conflict[d] = {}
            /\ cursor[d] <= server.stamp
            /\ local[d].ahead \/ local[d].ts <= now
            /\ \A row \in page[d] : RowInHand(row)
            /\ PushInHand(d)
            /\ outbox[d] = 0 => NothingUnsent(d)
    BY DEF AgreeInv
  <1>1. ASSUME NEW d \in Devices, NEW live \in BOOLEAN, Edit(d, live)
        PROVE  AgreeInv'
    <2>1. /\ now' = now + 1 /\ outbox'[d] = outbox[d] + 1
          /\ local'[d].ts = now + 1 + skew[d] /\ local'[d].ahead = (skew[d] > 0)
          /\ \A x \in Devices \ {d} : local'[x] = local[x] /\ outbox'[x] = outbox[x]
          /\ UNCHANGED <<server, flight, page, cursor, conflict>>
      BY <1>0, <1>1 DEF TypeOK, Edit
    <2>2. \A x \in Devices : outbox'[x] = 0 => x # d
      BY <1>t, <2>1
    <2>3. \A x \in Devices : outbox'[x] = 0 => NothingUnsent(x)'
      BY <1>a, <2>1, <2>2 DEF NothingUnsent, HoldsCloudCopy, HeldBackByFastClock
    <2>4. \A x \in Devices : local'[x].ahead \/ local'[x].ts <= now'
      <3>1. skew[d] > 0 \/ now + 1 + skew[d] <= now + 1
        BY <1>t
      <3>2. \A x \in Devices \ {d} : local[x].ahead \/ local[x].ts <= now + 1
        BY <1>a, <1>t DEF Snapshot
      <3> QED
        BY <2>1, <3>1, <3>2
    <2>5. flight[d].phase \in {"request", "stored"} => outbox'[d] # 1
      BY <1>0, <1>a, <1>t, <2>1 DEF PushInHand, LaterEditsStayQueued
    <2>6. \A x \in Devices : PushInHand(x)'
      <3>1. \A x \in Devices : flight[x].snap.ahead \/ flight[x].snap.ts <= now + 1
        BY <1>a, <1>t DEF PushInHand, Flight, Snapshot
      <3> QED
        BY <1>a, <2>1, <2>5, <3>1 DEF PushInHand
    <2>7. \A x \in Devices : \A row \in page[x] : RowInHand(row)'
      BY <1>a, <2>1 DEF RowInHand
    <2> QED
      BY <1>a, <1>t, <2>1, <2>3, <2>4, <2>6, <2>7 DEF AgreeInv, ServerRow
  <1>2. ASSUME NEW d \in Devices, ClaimRow(d) \/ PushFails(d) PROVE AgreeInv'
    <2>1. /\ flight'[d].phase \in {"idle", "token"} /\ flight'[d].snap = Gone
          /\ flight'[d].phase # "idle" => flight'[d].queued
          /\ \A x \in Devices \ {d} : flight'[x] = flight[x]
          /\ UNCHANGED <<now, server, local, outbox, page, cursor, conflict>>
      BY <1>0, <1>2 DEF TypeOK, ClaimRow, PushFails, NoFlight
    <2>2. \A x \in Devices : PushInHand(x)'
      BY <1>a, <1>t, <2>1 DEF PushInHand, Gone
    <2> QED
      BY <1>a, <2>1, <2>2 DEF AgreeInv, RowInHand, NothingUnsent, HoldsCloudCopy, HeldBackByFastClock
  <1>3. ASSUME NEW d \in Devices, ReadSnapshot(d) PROVE AgreeInv'
    <2>1. /\ flight[d].phase = "token" /\ flight'[d].phase = "request"
          /\ flight'[d].snap = local[d] /\ flight'[d].queued = flight[d].queued
          /\ \A x \in Devices \ {d} : flight'[x] = flight[x]
          /\ UNCHANGED <<now, server, local, outbox, page, cursor, conflict>>
      BY <1>0, <1>3 DEF TypeOK, ReadSnapshot
    <2>2. \A x \in Devices : PushInHand(x)'
      BY <1>a, <2>1 DEF PushInHand
    <2> QED
      BY <1>a, <2>1, <2>2 DEF AgreeInv, RowInHand, NothingUnsent, HoldsCloudCopy, HeldBackByFastClock
  <1>4. ASSUME NEW d \in Devices, ServerUpserts(d) PROVE AgreeInv'
    <2>1. /\ flight[d].phase = "request" /\ now' = now + 1
          /\ server'.stamp = now + 1 /\ server'.ts = flight[d].snap.ts
          /\ server'.ahead = flight[d].snap.ahead
          /\ flight'[d].phase = "stored" /\ flight'[d].snap = flight[d].snap
          /\ flight'[d].queued = flight[d].queued
          /\ \A x \in Devices \ {d} : flight'[x] = flight[x]
          /\ UNCHANGED <<local, outbox, page, cursor, conflict>>
      BY <1>0, <1>4 DEF TypeOK, ServerUpserts
    <2>2. /\ server.stamp \in Nat /\ server.stamp <= now
          /\ \A x \in Devices : /\ cursor[x] \in Nat /\ cursor[x] <= now
                                /\ local[x].ts \in Int
                                /\ local[x].ahead \/ local[x].ts <= now
                                /\ flight[x].snap.ts \in Int
                                /\ flight[x].snap.ahead \/ flight[x].snap.ts <= now
      BY <1>a, <1>t DEF AgreeInv, ServerRow, Snapshot, Flight, PushInHand
    <2>3. \A x \in Devices : PushInHand(x)'
      BY <1>a, <1>t, <2>1, <2>2 DEF PushInHand
    <2>4. \A x \in Devices : NothingUnsent(x)'
      BY <1>t, <2>1, <2>2 DEF NothingUnsent
    <2>5. \A x \in Devices : \A row \in page[x] : RowInHand(row)'
      <3>1. \A x \in Devices : \A row \in page[x] : row.stamp \in Nat
        BY <1>t DEF ServerRow
      <3> QED
        BY <1>a, <1>t, <2>1, <2>2, <3>1 DEF RowInHand
    <2> QED
      BY <1>a, <1>t, <2>1, <2>2, <2>3, <2>4, <2>5 DEF AgreeInv
  <1>5. ASSUME NEW d \in Devices, MarkSent(d) PROVE AgreeInv'
    <2>1. /\ flight[d].phase = "stored" /\ flight[d].queued /\ flight'[d] = NoFlight
          /\ outbox'[d] = outbox[d] - 1
          /\ \A x \in Devices \ {d} : flight'[x] = flight[x] /\ outbox'[x] = outbox[x]
          /\ UNCHANGED <<now, server, local, page, cursor, conflict>>
      BY <1>0, <1>5, <1>a DEF TypeOK, MarkSent, PushInHand
    <2>2. \A x \in Devices : PushInHand(x)'
      BY <1>a, <1>t, <2>1 DEF PushInHand, NoFlight, Gone
    <2>3. outbox'[d] = 0 => NothingUnsent(d)'
      <3>1. /\ cursor[d] < server.stamp
            /\ flight[d].snap.ahead \/ flight[d].snap.ts < server.stamp
        BY <1>a, <2>1 DEF PushInHand
      <3>2. outbox'[d] = 0 => local[d] = flight[d].snap
        BY <1>a, <1>t, <2>1 DEF PushInHand
      <3>3. cursor[d] \in Nat /\ server.stamp \in Nat
        BY <1>t DEF ServerRow
      <3>4. local'[d] = local[d] /\ cursor'[d] = cursor[d] /\ server' = server
        BY <2>1
      <3>5. ASSUME outbox'[d] = 0
            PROVE  /\ local'[d].ahead \/ local'[d].ts < server'.stamp
                   /\ ~ cursor'[d] >= server'.stamp
        BY <3>1, <3>2, <3>3, <3>4, <3>5
      <3> QED
        BY <3>5 DEF NothingUnsent
    <2>4. \A x \in Devices : outbox'[x] = 0 => NothingUnsent(x)'
      BY <1>a, <2>1, <2>3 DEF NothingUnsent, HoldsCloudCopy, HeldBackByFastClock
    <2> QED
      BY <1>a, <2>1, <2>2, <2>4 DEF AgreeInv, RowInHand
  <1>6. ASSUME NEW d \in Devices, FetchPage(d) PROVE AgreeInv'
    <2>1. /\ server.stamp > cursor[d] /\ page'[d] = {server}
          /\ \A x \in Devices \ {d} : page'[x] = page[x]
          /\ UNCHANGED <<now, server, local, outbox, flight, cursor, conflict>>
      BY <1>0, <1>6 DEF TypeOK, FetchPage
    <2>2. RowInHand(server)
      BY <1>t, <2>1 DEF RowInHand, AgreeInv, ServerRow
    <2> QED
      BY <1>a, <2>1, <2>2 DEF AgreeInv, RowInHand, PushInHand, NothingUnsent,
           HoldsCloudCopy, HeldBackByFastClock
  <1>7. ASSUME NEW d \in Devices, ApplyPage(d) PROVE AgreeInv'
    <2>1. PICK row \in page[d] : SkipForOutbox(d, row) \/ SkipOlder(d, row) \/ ApplySnapshot(d, row)
      BY <1>7 DEF ApplyPage
    <2>2. UNCHANGED <<now, skew, server, outbox, flight, made, stored, discarded, failures>>
      BY <1>7 DEF ApplyPage
    <2>3. row \in ServerRow /\ RowInHand(row)
      BY <1>a, <1>t
    <2>4. /\ conflict' = conflict /\ page'[d] = {}
          /\ \A x \in Devices \ {d} : page'[x] = page[x]
      BY <1>0, <2>1 DEF TypeOK, SkipForOutbox, SkipOlder, ApplySnapshot, Consume
    <2>5. CASE SkipForOutbox(d, row)
      BY <1>a, <2>2, <2>4, <2>5
         DEF AgreeInv, RowInHand, PushInHand, NothingUnsent, SkipForOutbox,
             HoldsCloudCopy, HeldBackByFastClock
    <2>6. CASE SkipOlder(d, row) \/ ApplySnapshot(d, row)
      <3>1. outbox[d] = 0 /\ flight[d].phase = "idle"
        <4>1. outbox[d] = 0
          BY <1>t, <2>6 DEF SkipOlder, ApplySnapshot, HasPendingOutbox
        <4> QED
          BY <1>0, <1>a, <4>1 DEF PushInHand, LaterEditsStayQueued
      <3>2. /\ cursor'[d] = row.stamp
            /\ \A x \in Devices \ {d} : cursor'[x] = cursor[x] /\ local'[x] = local[x]
            /\ local'[d] = local[d] \/ local'[d] = SnapshotOf(row)
        BY <1>0, <2>6 DEF TypeOK, SkipOlder, ApplySnapshot, Consume
      <3>3. NothingUnsent(d)
        BY <1>a, <3>1
      <3>4. row.stamp \in Nat /\ row.ts \in Int /\ server.stamp \in Nat /\ server.stamp <= now
        BY <1>t, <2>3 DEF ServerRow, AgreeInv
      <3>5. NothingUnsent(d)' /\ (local'[d].ahead \/ local'[d].ts <= now)
        <4>1. CASE SkipOlder(d, row)
          <5>1. local'[d] = local[d] /\ local[d].ts >= row.stamp
            BY <4>1 DEF SkipOlder, LocalAtLeastAsNew
          <5>2. local[d].ts \in Int
            BY <1>t DEF Snapshot
          <5>3. cursor'[d] >= server.stamp => HeldBackByFastClock(d)
            BY <2>3, <3>2, <3>3, <3>4, <5>1, <5>2
               DEF NothingUnsent, RowInHand, HeldBackByFastClock
          <5> QED
            BY <1>a, <2>2, <3>3, <5>1, <5>3 DEF NothingUnsent, HeldBackByFastClock
        <4>2. CASE ApplySnapshot(d, row)
          <5>1. local'[d] = SnapshotOf(row)
            BY <1>0, <4>2 DEF TypeOK, ApplySnapshot
          <5>2. /\ local'[d].doc = row.doc /\ local'[d].live = row.live
                /\ local'[d].ts = row.ts /\ local'[d].ahead = row.ahead
            BY <5>1 DEF SnapshotOf
          <5>3. /\ row.stamp <= server.stamp /\ (row.ahead \/ row.ts < row.stamp)
                /\ row.stamp = server.stamp => row = server
            BY <2>3 DEF RowInHand
          <5>4. local'[d].ahead \/ (local'[d].ts < server.stamp /\ local'[d].ts <= now)
            <6>1. row.ahead \/ (row.ts < server.stamp /\ row.ts <= now)
              <7>1. now \in Nat
                BY <1>t
              <7> QED
                BY <3>4, <5>3, <7>1
            <6> QED
              BY <5>2, <6>1
          <5>5. cursor'[d] >= server.stamp
                => local'[d].doc = server.doc /\ local'[d].live = server.live
            BY <3>2, <3>4, <5>2, <5>3
          <5>6. server' = server
            BY <2>2
          <5> QED
            BY <5>4, <5>5, <5>6 DEF NothingUnsent, HoldsCloudCopy
        <4> QED
          BY <2>6, <4>1, <4>2
      <3>6. \A x \in Devices : PushInHand(x)'
        BY <1>a, <2>2, <3>1, <3>2 DEF PushInHand
      <3>7. \A x \in Devices : outbox'[x] = 0 => NothingUnsent(x)'
        BY <1>a, <2>2, <3>2, <3>5 DEF NothingUnsent, HoldsCloudCopy, HeldBackByFastClock
      <3> QED
        BY <1>a, <2>2, <2>3, <2>4, <3>2, <3>5, <3>6, <3>7 DEF AgreeInv, RowInHand
    <2> QED
      BY <2>1, <2>5, <2>6
  <1>8. ASSUME NEW d \in Devices, PullFails(d) PROVE AgreeInv'
    <2>1. /\ \A x \in Devices : page'[x] \subseteq page[x]
          /\ UNCHANGED <<now, server, local, outbox, flight, cursor, conflict>>
      BY <1>0, <1>8 DEF TypeOK, PullFails
    <2> QED
      BY <1>a, <2>1 DEF AgreeInv, RowInHand, PushInHand, NothingUnsent,
           HoldsCloudCopy, HeldBackByFastClock
  <1>9. ASSUME NEW d \in Devices, TakeRemote(d) \/ KeepLocal(d) PROVE AgreeInv'
    BY <1>9, <1>a DEF TakeRemote, KeepLocal
  <1>10. CASE UNCHANGED vars
    BY <1>10, <1>a DEF vars, AgreeInv, RowInHand, PushInHand, NothingUnsent,
         HoldsCloudCopy, HeldBackByFastClock
  <1> QED
    BY <1>1, <1>2, <1>3, <1>4, <1>5, <1>6, <1>7, <1>8, <1>9, <1>10 DEF Next

\* A device with nothing to send and nothing to pull holds what the cloud holds,
\* for any devices, edits, failures and workstation clocks, unless a fast clock has
\* stamped its copy past the cloud's row; where the refused snapshots of an entity
\* are not kept for the user to choose from.
THEOREM SettledAgree ==
    ASSUME ~Sensitive
    PROVE  Spec => []SettledDevicesAgree
  <1>1. AgreeInv => SettledDevicesAgree
    BY DEF AgreeInv, NothingUnsent, SettledDevicesAgree
  <1>2. IInv /\ AgreeInv /\ [Next]_vars => (IInv /\ AgreeInv)'
    BY NextKeepsIInv, NextKeepsAgreement
  <1> QED
    BY <1>1, <1>2, InitEstablishesIInv, InitAgrees, PTL DEF Spec
===============================================================================
