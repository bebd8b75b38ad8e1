------------------------- MODULE TelegramConnectorProofs -------------------------
(***************************************************************************)
(* The connector keeps the promise of UpdateFeed for any number of         *)
(* updates, pollers, changes and failures.                                 *)
(*                                                                         *)
(* A poller never has more than one update in hand, and everything before  *)
(* it is settled: so is everything before an offset when the poller asks   *)
(* again, and asking is what confirms.  A call that outlives its poller's  *)
(* patience does no harm, since the poller has replied to its message.     *)
(***************************************************************************)
EXTENDS TelegramConnector, FiniteSetTheorems, TLAPS

DoneBefore(n) == \A u \in Updates : u < n => Settled(u)

\* What a poller leaves behind: everything before its offset at the head of the
\* loop, everything before next in a batch but for the update in hand.
LoopInv(state) ==
    /\ state.offset <= Len(inbox) + 1
    /\ state.phase \in {"top", "polling", "ended"} => DoneBefore(state.offset)
    /\ state.phase \in {"batch", "reading", "waiting"} =>
        /\ 1 <= state.next /\ state.offset <= state.next
        /\ state.next <= state.last + 1 /\ state.last <= Len(inbox)
    /\ state.phase = "batch" => DoneBefore(state.next)
    /\ state.phase \in {"reading", "waiting"} =>
        2 <= state.next /\ DoneBefore(state.next - 1)

ConfirmedInv == confirmed <= Len(inbox) /\ DoneBefore(confirmed + 1)

PollersInv ==
    /\ \A p \in Pollers : LoopInv(poller[p])
    /\ \A p \in Pollers : p > started => poller[p].phase = "ended"

\* A poller waits for one call at most, for the update it has in hand; a call
\* about to deliver has written its receipt; no two calls share a row.
CallsInv ==
    /\ \A c \in calls : c.awaited =>
        poller[c.by].phase = "waiting" /\ c.msg = Current(c.by)
    /\ \A c, k \in calls : c.awaited /\ k.awaited /\ c.by = k.by => c = k
    /\ \A c \in calls : c.phase = "delivery" => receipt[c.msg] # "none"
    /\ \A c \in calls : c.msg \in Sent /\ c.row \in DOMAIN thread
    /\ \A c, k \in calls :
        c.phase = "assistant" /\ k.phase = "assistant" /\ c.row = k.row => c = k

IInv == TypeOK /\ ConfirmedInv /\ PollersInv /\ CallsInv /\ PendingRowsHaveCalls

\* How ReconcileTo changes a poller: it is asked to stop, or one that has left
\* its loop is dropped, revived or replaced by a fresh one.
LEMMA ReconcileMoves ==
    ASSUME TypeOK, PollersInv, NEW s \in {"configured", "disabled"}, ReconcileTo(s)
    PROVE  /\ poller' \in [Pollers -> Poller]
           /\ started' \in started..MaxPollers /\ listed' \in 0..started'
           /\ \A p \in Pollers :
                \/ /\ poller'[p].phase = poller[p].phase
                   /\ poller'[p].offset = poller[p].offset
                   /\ poller'[p].next = poller[p].next
                   /\ poller'[p].last = poller[p].last
                   /\ p > started => poller[p].phase = "ended"
                \/ /\ poller[p].phase = "ended" /\ poller'[p].phase \in {"top", "ended"}
                   /\ poller'[p].offset \in {0, poller[p].offset}
                   /\ p <= started'
<1>1. Fresh \in Poller /\ Gone \in Poller /\ Gone.phase = "ended" /\ Gone.offset = 0
      /\ Fresh.phase = "top" /\ Fresh.offset = 0
  BY DEF Fresh, Gone, Poller, Phases
<1>2. listed \in Nat /\ started \in Nat /\ listed <= started /\ started <= MaxPollers
  BY ConnectorAssumption DEF TypeOK
<1>3. \A p \in Pollers : poller[p] \in Poller
  BY DEF TypeOK
<1>4. \A p \in Pollers : p > started => poller[p].phase = "ended"
  BY DEF PollersInv
<1>5. CASE s # "configured"
  <2>1. \A state \in Poller : Dropped(state) \in Poller
    BY <1>1 DEF Dropped, Poller
  <2>2. \A state \in Poller : Dropped(state) =
          IF state.phase = "ended" THEN Gone ELSE [state EXCEPT !.stop = TRUE]
    BY DEF Dropped
  <2>3. \A state \in Poller : LET new == [state EXCEPT !.stop = TRUE] IN
          /\ new.phase = state.phase /\ new.offset = state.offset
          /\ new.next = state.next /\ new.last = state.last
    BY DEF Poller
  <2>4. listed' = 0 /\ started' = started
        /\ poller' = [p \in Pollers |-> IF p = listed THEN Dropped(poller[p]) ELSE poller[p]]
    BY <1>5 DEF ReconcileTo
  <2>5. ASSUME NEW p \in Pollers, p = listed, poller[p].phase = "ended"
        PROVE  poller'[p] = Gone /\ p <= started'
    BY <1>2, <1>3, <2>2, <2>4, <2>5
  <2>6. ASSUME NEW p \in Pollers, p # listed \/ poller[p].phase # "ended"
        PROVE  /\ poller'[p].phase = poller[p].phase /\ poller'[p].offset = poller[p].offset
               /\ poller'[p].next = poller[p].next /\ poller'[p].last = poller[p].last
    BY <1>3, <2>2, <2>3, <2>4, <2>6
  <2>7. poller' \in [Pollers -> Poller]
    BY <1>3, <2>1, <2>4
  <2> QED
    BY <1>1, <1>2, <1>4, <2>4, <2>5, <2>6, <2>7
<1>6. CASE s = "configured" /\ listed # 0
  <2>1. \A state \in Poller : Revived(state) \in Poller
          /\ Revived(state).phase = "top" /\ Revived(state).offset = state.offset
    BY DEF Revived, Poller, Phases
  <2>2. listed' = listed /\ started' = started /\ listed \in Pollers
    BY <1>2, <1>6, ConnectorAssumption DEF ReconcileTo, Pollers
  <2>3. poller' = IF poller[listed].phase # "ended" THEN poller
                  ELSE [poller EXCEPT ![listed] = Revived(poller[listed])]
    BY <1>6 DEF ReconcileTo
  <2> QED
    BY <1>2, <1>3, <1>4, <2>1, <2>2, <2>3 DEF TypeOK
<1>7. CASE s = "configured" /\ listed = 0
  <2>1. started' = started + 1 /\ listed' = started' /\ started < MaxPollers
        /\ poller' = [poller EXCEPT ![started'] = Fresh]
    BY <1>7 DEF ReconcileTo
  <2>2. started' \in Pollers /\ poller[started'].phase = "ended"
    BY <1>2, <1>4, <2>1, ConnectorAssumption DEF Pollers
  <2> QED
    BY <1>1, <1>2, <1>3, <1>4, <2>1, <2>2, ConnectorAssumption DEF TypeOK
<1> QED
  BY <1>5, <1>6, <1>7

LEMMA SentAreUpdates ==
    ASSUME TypeOK
    PROVE  Sent \subseteq Updates /\ Sent \subseteq Nat
  BY ConnectorAssumption DEF TypeOK, Sent, Updates

LEMMA HandIsSent ==
    ASSUME TypeOK, PollersInv, NEW p \in Pollers, Busy(p)
    PROVE  Current(p) \in Sent /\ Current(p) \in Updates /\ Current(p) \in Nat
<1>1. poller[p].next \in Nat /\ poller[p].last \in Nat /\ Len(inbox) \in Nat
  BY DEF TypeOK, Poller
<1>2. 2 <= poller[p].next /\ poller[p].next <= Len(inbox) + 1
  BY <1>1 DEF PollersInv, LoopInv, Busy
<1> QED
  BY <1>1, <1>2, SentAreUpdates DEF Current, Sent

LEMMA StatesAreTyped ==
    /\ Gone \in Poller /\ Fresh \in Poller
    /\ \A state \in Poller : \A f \in Phases : [state EXCEPT !.phase = f] \in Poller
    /\ \A state \in Poller : \A b \in BOOLEAN : LET new == AtTop(state, b) IN
        new \in Poller /\ new.phase = "top" /\ new.offset = state.offset
<1>1. Gone \in Poller /\ Fresh \in Poller
  BY DEF Gone, Fresh, Poller, Phases
<1>2. \A state \in Poller : \A f \in Phases : [state EXCEPT !.phase = f] \in Poller
  BY DEF Poller
<1>3. ASSUME NEW state \in Poller, NEW b \in BOOLEAN, NEW new, new = AtTop(state, b)
      PROVE  new \in Poller /\ new.phase = "top" /\ new.offset = state.offset
  <2>1. [state EXCEPT !.phase = "top", !.next = 1, !.last = 0] \in Poller
    BY DEF Poller, Phases
  <2>2. new = [[state EXCEPT !.phase = "top", !.next = 1, !.last = 0] EXCEPT !.degraded = b]
    BY <1>3 DEF AtTop
  <2> QED
    BY <2>1, <2>2 DEF Poller
<1> QED
  BY <1>1, <1>2, <1>3

\* A reply leaves the poller in its batch, or at the head of its loop.
LEMMA ReplyMoves ==
    ASSUME TypeOK, NEW p \in Pollers, NEW u \in Updates, NEW caught \in BOOLEAN,
           Reply(p, u, caught)
    PROVE  /\ poller' \in [Pollers -> Poller] /\ faults' \in 0..MaxFaults
           /\ noticed' = noticed \cup {u} /\ noticed' \subseteq Updates
           /\ \A q \in Pollers \ {p} : poller'[q] = poller[q]
           /\ poller'[p].offset = poller[p].offset
           /\ \/ poller'[p].phase = "top"
              \/ /\ poller'[p].phase = "batch"
                 /\ poller'[p].next = poller[p].next /\ poller'[p].last = poller[p].last
<1> DEFINE batch == [poller[p] EXCEPT !.phase = "batch"]
<1>1. /\ poller[p] \in Poller /\ batch \in Poller
      /\ batch.phase = "batch" /\ batch.offset = poller[p].offset
      /\ batch.next = poller[p].next /\ batch.last = poller[p].last
  <2>1. poller[p] \in Poller /\ "batch" \in Phases
    BY DEF TypeOK, Phases
  <2> QED
    BY <2>1, StatesAreTyped DEF Poller
<1>2. \E new \in {batch, AtTop(poller[p], TRUE)} : poller' = [poller EXCEPT ![p] = new]
  BY DEF Reply
<1>3. PICK new \in {batch, AtTop(poller[p], TRUE)} : poller' = [poller EXCEPT ![p] = new]
  BY <1>2
<1> HIDE DEF batch
<1>4. new \in Poller
  BY <1>1, StatesAreTyped
<1>5. poller' \in [Pollers -> Poller] /\ poller'[p] = new
      /\ \A q \in Pollers \ {p} : poller'[q] = poller[q]
  BY <1>3, <1>4 DEF TypeOK
<1>6. /\ faults' \in 0..MaxFaults
      /\ noticed' = noticed \cup {u} /\ noticed' \subseteq Updates
  <2>1. faults' = faults \/ (faults < MaxFaults /\ faults' = faults + 1)
    BY DEF Reply
  <2>2. noticed' = noticed \cup {u}
    BY DEF Reply
  <2> QED
    BY <2>1, <2>2, ConnectorAssumption DEF TypeOK
<1> QED
  BY <1>1, <1>4, <1>5, <1>6, StatesAreTyped

LEMMA RowsClose == \A r \in ChatRow : [r EXCEPT !.state = "closed"] \in ChatRow
  BY DEF ChatRow

LEMMA ConfirmedIsNat ==
    ASSUME TypeOK, NEW p \in Pollers
    PROVE  /\ ConfirmedBy(p) \in Nat /\ confirmed <= ConfirmedBy(p)
           /\ poller[p].offset <= ConfirmedBy(p) + 1
           /\ ConfirmedBy(p) = confirmed \/ ConfirmedBy(p) + 1 = poller[p].offset
<1>1. poller[p].offset \in Nat /\ confirmed \in Nat
  BY DEF TypeOK, Poller
<1> QED
  BY <1>1 DEF ConfirmedBy, Larger

LEMMA TypesStay ==
    ASSUME IInv, [Next]_vars
    PROVE  TypeOK'
<1>1. ASSUME NEW kind \in Kinds, Receive(kind)
      PROVE  TypeOK'
  BY <1>1, ConnectorAssumption
  DEF Receive, TypeOK, IInv, Poller, Phases
<1>2. CASE Reconcile
  BY <1>2, ReconcileMoves, ConnectorAssumption DEF Reconcile, TypeOK, IInv
<1>3. ASSUME NEW s \in {"configured", "disabled"}, SaveConfig(s)
      PROVE  TypeOK'
  BY <1>3, ReconcileMoves, ConnectorAssumption DEF SaveConfig, TypeOK, IInv
<1>4. ASSUME NEW s \in {"configured", "disabled"}, WriteStatus(s)
      PROVE  TypeOK'
  BY <1>4, ConnectorAssumption
  DEF WriteStatus, TypeOK, IInv, Poller, Phases
<1>5. CASE Crash
  <2>1. thread' \in Seq(ChatRow)
    <3>1. /\ thread' = [i \in 1..Len(thread) |-> IF thread[i].state = "pending"
                THEN [thread[i] EXCEPT !.state = "closed"] ELSE thread[i]]
          /\ Len(thread) \in Nat
      BY <1>5 DEF Crash, InterruptedThread, TypeOK, IInv
    <3>2. \A i \in 1..Len(thread) : thread'[i] \in ChatRow
      BY <3>1, RowsClose DEF TypeOK, IInv
    <3> QED
      BY <3>1, <3>2
  <2>2. poller' \in [Pollers -> Poller]
    BY <1>5, StatesAreTyped DEF Crash
  <2> QED
    BY <1>5, <2>1, <2>2, ConnectorAssumption DEF Crash, TypeOK, IInv
<1>6. ASSUME NEW p \in Pollers, StopPoller(p)
      PROVE  TypeOK'
  BY <1>6, StatesAreTyped, ConnectorAssumption DEF StopPoller, TypeOK, IInv
<1>7. ASSUME NEW p \in Pollers, BeginPoll(p)
      PROVE  TypeOK'
  BY <1>7, ConnectorAssumption
  DEF BeginPoll, TypeOK, IInv, Poller, Phases
<1>8. ASSUME NEW p \in Pollers, Answer(p)
      PROVE  TypeOK'
  <2>1. confirmed' \in Nat
    BY <1>8, ConfirmedIsNat DEF Answer, IInv
  <2>2. poller' \in [Pollers -> Poller]
    <3>1. PICK last \in 0..Len(inbox) : poller' = [poller EXCEPT ![p] =
            [@ EXCEPT !.phase = "batch", !.next = confirmed' + 1, !.last = last]]
      BY <1>8 DEF Answer, TypeOK, IInv
    <3>2. poller[p] \in Poller /\ last \in Nat /\ confirmed' + 1 \in Nat /\ "batch" \in Phases
      <4>1. poller[p] \in Poller /\ "batch" \in Phases
        BY DEF TypeOK, IInv, Phases
      <4>2. last \in Nat /\ confirmed' + 1 \in Nat
        <5>1. Len(inbox) \in Nat
          BY DEF TypeOK, IInv
        <5> QED
          BY <2>1, <3>1, <5>1
      <4> QED
        BY <4>1, <4>2
    <3>3. [poller[p] EXCEPT !.phase = "batch", !.next = confirmed' + 1, !.last = last] \in Poller
      BY <3>2 DEF Poller
    <3> QED
      BY <3>1, <3>3 DEF TypeOK, IInv
  <2> QED
    BY <1>8, <2>1, <2>2 DEF Answer, TypeOK, IInv
<1>9. ASSUME NEW p \in Pollers, PollFails(p)
      PROVE  TypeOK'
  <2>1. confirmed' \in Nat
    BY <1>9, ConfirmedIsNat DEF PollFails, TypeOK, IInv
  <2>2. poller' \in [Pollers -> Poller]
    BY <1>9 DEF PollFails, TypeOK, IInv, Poller, Phases
  <2> QED
    BY <1>9, <2>1, <2>2, ConnectorAssumption DEF PollFails, TypeOK, IInv
<1>10. ASSUME NEW p \in Pollers, TakeUpdate(p)
      PROVE  TypeOK'
  BY <1>10, ConnectorAssumption
  DEF TakeUpdate, TypeOK, IInv, Poller, Phases, OffsetAfter, Larger
<1>11. ASSUME NEW p \in Pollers, EndBatch(p)
      PROVE  TypeOK'
  BY <1>11, ConnectorAssumption
  DEF EndBatch, TypeOK, IInv, Poller, Phases, AtTop
<1>12. ASSUME NEW p \in Pollers, Unreadable(p)
      PROVE  TypeOK'
  <2>1. Current(p) \in Updates
    BY <1>12, HandIsSent DEF Unreadable, Busy, IInv
  <2> QED
    BY <1>12, <2>1, ReplyMoves DEF Unreadable, TypeOK, IInv
<1>13. ASSUME NEW p \in Pollers, ConsumeTelegramLinkToken(p)
      PROVE  TypeOK'
  <2>1. Current(p) \in Updates
    BY <1>13, HandIsSent DEF ConsumeTelegramLinkToken, Busy, IInv
  <2> QED
    BY <1>13, <2>1, ReplyMoves DEF ConsumeTelegramLinkToken, TypeOK, IInv
<1>14. ASSUME NEW p \in Pollers, ProcessTelegramDm(p)
      PROVE  TypeOK'
  <2>1. Current(p) \in Updates
    BY <1>14, HandIsSent DEF ProcessTelegramDm, Busy, IInv
  <2>2. poller' \in [Pollers -> Poller]
    <3>1. PICK f \in {"batch", "waiting"} : poller' = [poller EXCEPT ![p] = [@ EXCEPT !.phase = f]]
      BY <1>14 DEF ProcessTelegramDm
    <3>2. f \in Phases
      BY DEF Phases
    <3> QED
      BY <3>1, <3>2, StatesAreTyped DEF TypeOK, IInv
  <2>3. receipt' \in [Updates -> {"none", "connector_blocked", "linked_required", "processed"}]
    BY <1>14, <2>1 DEF ProcessTelegramDm, TypeOK, IInv
  <2>4. thread' \in Seq(ChatRow) /\ calls' \in SUBSET Call
    <3>1. CASE UNCHANGED <<calls, thread>>
      BY <3>1 DEF TypeOK, IInv
    <3>2. CASE ~UNCHANGED <<calls, thread>>
      <4>1. /\ thread' = Append(thread, [msg |-> Current(p), state |-> "pending"])
            /\ calls' = calls \cup {[msg |-> Current(p), by |-> p, row |-> Len(thread'),
                                     phase |-> "assistant", awaited |-> TRUE]}
        BY <1>14, <3>2 DEF ProcessTelegramDm
      <4>2. thread' \in Seq(ChatRow)
        BY <2>1, <4>1 DEF TypeOK, IInv, ChatRow
      <4>3. Len(thread') \in Nat \ {0}
        BY <4>1 DEF TypeOK, IInv
      <4>4. [msg |-> Current(p), by |-> p, row |-> Len(thread'), phase |-> "assistant",
             awaited |-> TRUE] \in Call
        BY <2>1, <4>3 DEF Call
      <4> QED
        BY <4>1, <4>2, <4>4 DEF TypeOK, IInv
    <3> QED
      BY <3>1, <3>2
  <2> QED
    BY <1>14, <2>2, <2>3, <2>4 DEF ProcessTelegramDm, TypeOK, IInv
<1>15. ASSUME NEW c \in calls, AssistantAnswers(c)
      PROVE  TypeOK'
  <2>1. c.msg \in Updates /\ [c EXCEPT !.phase = "delivery"] \in Call
    BY DEF TypeOK, IInv, Call
  <2>2. thread' \in Seq(ChatRow)
    <3>1. c.row \in 1..Len(thread) /\ Len(thread) \in Nat
          /\ thread' = [thread EXCEPT ![c.row] = [@ EXCEPT !.state = "closed"]]
      BY <1>15 DEF AssistantAnswers, TypeOK, IInv, CallsInv
    <3>2. [thread[c.row] EXCEPT !.state = "closed"] \in ChatRow
      BY <3>1, RowsClose DEF TypeOK, IInv
    <3> QED
      BY <3>1, <3>2 DEF TypeOK, IInv
  <2>3. receipt' \in [Updates -> {"none", "connector_blocked", "linked_required", "processed"}]
    BY <1>15 DEF AssistantAnswers, TypeOK, IInv
  <2> QED
    BY <1>15, <2>1, <2>2, <2>3 DEF AssistantAnswers, TypeOK, IInv
<1>16. ASSUME NEW c \in calls, DeliverOutboundReply(c)
      PROVE  TypeOK'
  BY <1>16, ConnectorAssumption
  DEF DeliverOutboundReply, TypeOK, IInv, Poller, Phases, Call
<1>17. ASSUME NEW c \in calls, TimeOut(c)
      PROVE  TypeOK'
  <2>1. c.msg \in Updates /\ c.by \in Pollers /\ [c EXCEPT !.awaited = FALSE] \in Call
    BY DEF TypeOK, IInv, Call
  <2>2. calls' \in SUBSET Call
    BY <1>17, <2>1 DEF TimeOut, TypeOK, IInv
  <2> QED
    BY <1>17, <2>1, <2>2, ReplyMoves DEF TimeOut, TypeOK, IInv
<1>18. CASE UNCHANGED vars
  BY <1>18, ConnectorAssumption
  DEF vars, TypeOK, IInv, Poller, Phases
<1> QED
  BY <1>1, <1>2, <1>3, <1>4, <1>5, <1>6, <1>7, <1>8, <1>9,
     <1>10, <1>11, <1>12, <1>13, <1>14, <1>15, <1>16, <1>17, <1>18
  DEF Next, PollerStep, CallStep

\* What is settled stays settled, and a step settles one update at most.
SettlesOneAtMost ==
    /\ \A u \in Updates : Settled(u) => Settled(u)'
    /\ \E u \in Updates \cup {0} : \A v \in Updates \ {u} : Settled(v)' => Settled(v)

LEMMA SettledStays ==
    ASSUME IInv, [Next]_vars
    PROVE  SettlesOneAtMost
<1>1. ASSUME NEW kind \in Kinds, Receive(kind)
      PROVE  SettlesOneAtMost
  <2>1. Len(inbox') = Len(inbox) + 1 /\ Len(inbox) \in Nat
        /\ \A u \in Sent : inbox'[u] = inbox[u]
    BY <1>1 DEF Receive, TypeOK, IInv, Sent
  <2>2. Sent' = Sent \cup {Len(inbox) + 1}
    BY <2>1 DEF Sent
  <2>3. \A u \in Sent : Settled(u)' <=> Settled(u)
    BY <1>1, <2>1, <2>2 DEF Receive, Settled
  <2>4. Len(inbox) + 1 \in Updates
    BY <1>1, <2>1, ConnectorAssumption DEF Receive, Updates
  <2> QED
    BY <2>1, <2>2, <2>3, <2>4, SentAreUpdates DEF SettlesOneAtMost, Settled, IInv
<1>2. CASE Reconcile
  BY <1>2 DEF Reconcile, SettlesOneAtMost, Settled, Sent
<1>3. ASSUME NEW s \in {"configured", "disabled"}, SaveConfig(s)
      PROVE  SettlesOneAtMost
  BY <1>3 DEF SaveConfig, SettlesOneAtMost, Settled, Sent
<1>4. ASSUME NEW s \in {"configured", "disabled"}, WriteStatus(s)
      PROVE  SettlesOneAtMost
  BY <1>4 DEF WriteStatus, SettlesOneAtMost, Settled, Sent
<1>5. CASE Crash
  BY <1>5 DEF Crash, SettlesOneAtMost, Settled, Sent
<1>6. ASSUME NEW p \in Pollers, StopPoller(p)
      PROVE  SettlesOneAtMost
  BY <1>6 DEF StopPoller, SettlesOneAtMost, Settled, Sent
<1>7. ASSUME NEW p \in Pollers, BeginPoll(p)
      PROVE  SettlesOneAtMost
  BY <1>7 DEF BeginPoll, SettlesOneAtMost, Settled, Sent
<1>8. ASSUME NEW p \in Pollers, Answer(p)
      PROVE  SettlesOneAtMost
  BY <1>8 DEF Answer, SettlesOneAtMost, Settled, Sent
<1>9. ASSUME NEW p \in Pollers, PollFails(p)
      PROVE  SettlesOneAtMost
  BY <1>9 DEF PollFails, SettlesOneAtMost, Settled, Sent
<1>10. ASSUME NEW p \in Pollers, TakeUpdate(p)
      PROVE  SettlesOneAtMost
  BY <1>10 DEF TakeUpdate, SettlesOneAtMost, Settled, Sent
<1>11. ASSUME NEW p \in Pollers, EndBatch(p)
      PROVE  SettlesOneAtMost
  BY <1>11 DEF EndBatch, SettlesOneAtMost, Settled, Sent
<1>12. ASSUME NEW p \in Pollers, Unreadable(p)
      PROVE  SettlesOneAtMost
  <2>1. Current(p) \in Updates /\ noticed' = noticed \cup {Current(p)}
    BY <1>12, HandIsSent DEF Unreadable, Busy, Reply, IInv
  <2> QED
    BY <1>12, <2>1 DEF Unreadable, SettlesOneAtMost, Settled, Sent
<1>13. ASSUME NEW p \in Pollers, ConsumeTelegramLinkToken(p)
      PROVE  SettlesOneAtMost
  <2>1. Current(p) \in Updates /\ noticed' = noticed \cup {Current(p)}
    BY <1>13, HandIsSent DEF ConsumeTelegramLinkToken, Busy, Reply, IInv
  <2> QED
    BY <1>13, <2>1 DEF ConsumeTelegramLinkToken, SettlesOneAtMost, Settled, Sent
<1>14. ASSUME NEW p \in Pollers, ProcessTelegramDm(p)
      PROVE  SettlesOneAtMost
  <2>1. Current(p) \in Updates
    BY <1>14, HandIsSent DEF ProcessTelegramDm, Busy, IInv
  <2>2. \/ receipt' = receipt
        \/ \E why \in {"connector_blocked", "linked_required"} :
            receipt' = [receipt EXCEPT ![Current(p)] = why]
    BY <1>14, <2>1 DEF ProcessTelegramDm, TypeOK, IInv
  <2> QED
    BY <1>14, <2>1, <2>2 DEF ProcessTelegramDm, SettlesOneAtMost, Settled, Sent, TypeOK, IInv
<1>15. ASSUME NEW c \in calls, AssistantAnswers(c)
      PROVE  SettlesOneAtMost
  <2>1. c.msg \in Updates
    BY DEF TypeOK, IInv, Call
  <2> QED
    BY <1>15, <2>1 DEF AssistantAnswers, SettlesOneAtMost, Settled, Sent, TypeOK, IInv
<1>16. ASSUME NEW c \in calls, DeliverOutboundReply(c)
      PROVE  SettlesOneAtMost
  BY <1>16 DEF DeliverOutboundReply, SettlesOneAtMost, Settled, Sent
<1>17. ASSUME NEW c \in calls, TimeOut(c)
      PROVE  SettlesOneAtMost
  <2>1. c.msg \in Updates /\ noticed' = noticed \cup {c.msg}
    BY <1>17 DEF TimeOut, Reply, TypeOK, IInv, Call
  <2> QED
    BY <1>17, <2>1 DEF TimeOut, SettlesOneAtMost, Settled, Sent
<1>18. CASE UNCHANGED vars
  BY <1>18 DEF vars, SettlesOneAtMost, Settled, Sent
<1> QED
  BY <1>1, <1>2, <1>3, <1>4, <1>5, <1>6, <1>7, <1>8, <1>9,
     <1>10, <1>11, <1>12, <1>13, <1>14, <1>15, <1>16, <1>17, <1>18
  DEF Next, PollerStep, CallStep

LEMMA InboxGrows ==
    ASSUME IInv, [Next]_vars
    PROVE  Len(inbox) \in Nat /\ Len(inbox') \in Nat /\ Len(inbox) <= Len(inbox')
<1>1. Len(inbox) \in Nat /\ Len(inbox') \in Nat
  BY TypesStay DEF TypeOK, IInv
<1>2. inbox' = inbox \/ \E kind \in Kinds : inbox' = Append(inbox, kind)
  BY DEF Next, PollerStep, CallStep, Receive, Reconcile, SaveConfig, WriteStatus, Crash,
     StopPoller, BeginPoll, Answer, PollFails, TakeUpdate, EndBatch, Unreadable,
     ConsumeTelegramLinkToken, ProcessTelegramDm, AssistantAnswers,
     DeliverOutboundReply, TimeOut, vars
<1>3. ASSUME NEW kind \in Kinds, inbox' = Append(inbox, kind)
      PROVE  Len(inbox') = Len(inbox) + 1
  BY <1>3 DEF TypeOK, IInv
<1> QED
  BY <1>1, <1>2, <1>3

LEMMA DoneStays ==
    ASSUME SettlesOneAtMost, NEW n, DoneBefore(n)
    PROVE  \A u \in Updates : u < n => Settled(u)'
  BY DEF SettlesOneAtMost, DoneBefore

\* A poller that stays where it is in its loop keeps what it has left behind.
LEMMA LoopStays ==
    ASSUME IInv, [Next]_vars, NEW q \in Pollers,
           poller'[q].phase = poller[q].phase, poller'[q].offset = poller[q].offset,
           poller'[q].next = poller[q].next, poller'[q].last = poller[q].last
    PROVE  LoopInv(poller[q])'
<1>1. SettlesOneAtMost
  BY SettledStays
<1>2. poller[q].offset \in Nat /\ poller[q].next \in Nat /\ poller[q].last \in Nat
      /\ LoopInv(poller[q])
  BY DEF IInv, TypeOK, Poller, PollersInv
<1> QED
  BY <1>1, <1>2, InboxGrows DEF LoopInv, DoneBefore, SettlesOneAtMost

LEMMA ConfirmedStays ==
    ASSUME IInv, [Next]_vars
    PROVE  ConfirmedInv'
<1>1. SettlesOneAtMost /\ confirmed \in Nat /\ ConfirmedInv
  BY SettledStays DEF IInv, TypeOK
<1>2. \/ confirmed' = confirmed
      \/ \E p \in Pollers : poller[p].phase = "polling" /\ confirmed' = ConfirmedBy(p)
  BY DEF Next, PollerStep, CallStep, Receive, Reconcile, SaveConfig, WriteStatus, Crash,
     StopPoller, BeginPoll, Answer, PollFails, TakeUpdate, EndBatch, Unreadable,
     ConsumeTelegramLinkToken, ProcessTelegramDm, AssistantAnswers,
     DeliverOutboundReply, TimeOut, vars
<1>3. CASE confirmed' = confirmed
  BY <1>1, <1>3, InboxGrows DEF ConfirmedInv, DoneBefore, SettlesOneAtMost
<1>4. ASSUME NEW p \in Pollers, poller[p].phase = "polling", confirmed' = ConfirmedBy(p)
      PROVE  ConfirmedInv'
  <2>1. /\ DoneBefore(poller[p].offset) /\ poller[p].offset <= Len(inbox) + 1
        /\ poller[p].offset \in Nat
    BY <1>4 DEF IInv, PollersInv, LoopInv, TypeOK, Poller
  <2>2. confirmed' = confirmed \/ confirmed' + 1 = poller[p].offset
    BY <1>4, ConfirmedIsNat DEF IInv
  <2>3. confirmed' \in Nat
    BY <1>4, ConfirmedIsNat DEF IInv
  <2> QED
    BY <1>1, <1>3, <2>1, <2>2, <2>3, InboxGrows DEF ConfirmedInv, DoneBefore, SettlesOneAtMost
<1> QED
  BY <1>2, <1>3, <1>4

LEMMA GoneIsHarmless ==
    ASSUME Len(inbox') \in Nat
    PROVE  Gone.phase = "ended" /\ LoopInv(Gone)'
<1>1. Gone.phase = "ended" /\ Gone.offset = 0
  BY DEF Gone, Fresh
<1>2. \A u \in Updates : ~(u < 0)
  BY DEF Updates
<1> QED
  BY <1>1, <1>2 DEF LoopInv, DoneBefore

\* A poller that is done with the update in hand goes on, or starts over.
LEMMA HandDone ==
    ASSUME IInv, [Next]_vars, NEW p \in Pollers, poller[p].phase \in {"reading", "waiting"},
           \A u \in Updates : u = Current(p) => Settled(u)', poller'[p].offset = poller[p].offset,
           \/ poller'[p].phase = "top"
           \/ /\ poller'[p].phase = "batch"
              /\ poller'[p].next = poller[p].next /\ poller'[p].last = poller[p].last
    PROVE  LoopInv(poller[p])'
<1> DEFINE n == poller[p].next
<1>1. /\ n \in Nat /\ poller[p].last \in Nat /\ poller[p].offset \in Nat
      /\ poller[p].offset <= Len(inbox) + 1
      /\ 2 <= n /\ poller[p].offset <= n /\ n <= poller[p].last + 1
      /\ poller[p].last <= Len(inbox) /\ DoneBefore(n - 1)
  BY DEF IInv, PollersInv, LoopInv, TypeOK, Poller
<1>2. \A u \in Updates : u = n - 1 => Settled(u)'
  BY DEF Current
<1>3. \A u \in Updates : u < n => u < n - 1 \/ u = n - 1
  BY <1>1 DEF Updates
<1>4. \A u \in Updates : u < n => Settled(u)'
  BY <1>1, <1>2, <1>3, SettledStays, DoneStays
<1>5. \A u \in Updates : u < poller[p].offset => u < n
  BY <1>1 DEF Updates
<1> HIDE DEF n
<1> QED
  BY <1>1, <1>4, <1>5, InboxGrows DEF LoopInv, DoneBefore, n

\* Only poller p moves.
LEMMA MovedOnly ==
    ASSUME IInv, [Next]_vars, NEW p \in Pollers, poller[p].phase # "ended",
           \A q \in Pollers \ {p} : poller'[q] = poller[q],
           LoopInv(poller[p])', UNCHANGED started
    PROVE  PollersInv'
<1>1. \A q \in Pollers \ {p} : LoopInv(poller[q])'
  BY LoopStays
<1>2. ~(p > started)
  BY DEF IInv, PollersInv
<1> QED
  BY <1>1, <1>2 DEF IInv, PollersInv

LEMMA PollersStay ==
    ASSUME IInv, [Next]_vars
    PROVE  PollersInv'
<1>1. ASSUME NEW kind \in Kinds, Receive(kind)
      PROVE  PollersInv'
  BY <1>1, LoopStays DEF Receive, PollersInv, IInv
<1>2. CASE Reconcile
  <2>1. PICK s \in {"configured", "disabled"} : ReconcileTo(s)
    BY <1>2 DEF Reconcile, TypeOK, IInv
  <2>2. started \in Nat /\ started' \in Nat /\ started <= started'
    BY <2>1, ReconcileMoves, ConnectorAssumption DEF TypeOK, IInv
  <2>3. ASSUME NEW q \in Pollers
        PROVE  LoopInv(poller[q])' /\ (q > started' => poller'[q].phase = "ended")
    <3>1. q \in Nat /\ poller[q].offset \in Nat /\ LoopInv(poller[q])
      BY DEF Pollers, TypeOK, Poller, PollersInv, IInv
    <3>2. CASE /\ poller'[q].phase = poller[q].phase /\ poller'[q].offset = poller[q].offset
               /\ poller'[q].next = poller[q].next /\ poller'[q].last = poller[q].last
               /\ q > started => poller[q].phase = "ended"
      BY <2>2, <3>1, <3>2, LoopStays
    <3>3. CASE /\ poller[q].phase = "ended" /\ poller'[q].phase \in {"top", "ended"}
               /\ poller'[q].offset \in {0, poller[q].offset} /\ q <= started'
      <4>1. DoneBefore(poller[q].offset) /\ poller[q].offset <= Len(inbox) + 1
        BY <3>1, <3>3 DEF LoopInv
      <4>2. poller'[q].offset <= Len(inbox') + 1 /\ poller'[q].offset <= poller[q].offset
        BY <3>1, <3>3, <4>1, InboxGrows
      <4>3. \A u \in Updates : u < poller'[q].offset => Settled(u)'
        BY <3>1, <3>3, <4>1, SettledStays DEF SettlesOneAtMost, DoneBefore, Updates
      <4> QED
        BY <2>2, <3>1, <3>3, <4>2, <4>3 DEF LoopInv, DoneBefore
    <3> QED
      BY <2>1, <3>2, <3>3, ReconcileMoves DEF IInv
  <2> QED
    BY <2>3 DEF PollersInv
<1>3. ASSUME NEW s \in {"configured", "disabled"}, SaveConfig(s)
      PROVE  PollersInv'
  <2>1. ReconcileTo(s)
    BY <1>3 DEF SaveConfig
  <2>2. started \in Nat /\ started' \in Nat /\ started <= started'
    BY <2>1, ReconcileMoves, ConnectorAssumption DEF TypeOK, IInv
  <2>3. ASSUME NEW q \in Pollers
        PROVE  LoopInv(poller[q])' /\ (q > started' => poller'[q].phase = "ended")
    <3>1. q \in Nat /\ poller[q].offset \in Nat /\ LoopInv(poller[q])
      BY DEF Pollers, TypeOK, Poller, PollersInv, IInv
    <3>2. CASE /\ poller'[q].phase = poller[q].phase /\ poller'[q].offset = poller[q].offset
               /\ poller'[q].next = poller[q].next /\ poller'[q].last = poller[q].last
               /\ q > started => poller[q].phase = "ended"
      BY <2>2, <3>1, <3>2, LoopStays
    <3>3. CASE /\ poller[q].phase = "ended" /\ poller'[q].phase \in {"top", "ended"}
               /\ poller'[q].offset \in {0, poller[q].offset} /\ q <= started'
      <4>1. DoneBefore(poller[q].offset) /\ poller[q].offset <= Len(inbox) + 1
        BY <3>1, <3>3 DEF LoopInv
      <4>2. poller'[q].offset <= Len(inbox') + 1 /\ poller'[q].offset <= poller[q].offset
        BY <3>1, <3>3, <4>1, InboxGrows
      <4>3. \A u \in Updates : u < poller'[q].offset => Settled(u)'
        BY <3>1, <3>3, <4>1, SettledStays DEF SettlesOneAtMost, DoneBefore, Updates
      <4> QED
        BY <2>2, <3>1, <3>3, <4>2, <4>3 DEF LoopInv, DoneBefore
    <3> QED
      BY <2>1, <3>2, <3>3, ReconcileMoves DEF IInv
  <2> QED
    BY <2>3 DEF PollersInv
<1>4. ASSUME NEW s \in {"configured", "disabled"}, WriteStatus(s)
      PROVE  PollersInv'
  BY <1>4, LoopStays DEF WriteStatus, PollersInv, IInv
<1>5. CASE Crash
  BY <1>5, InboxGrows, GoneIsHarmless DEF Crash, PollersInv, IInv
<1>6. ASSUME NEW p \in Pollers, StopPoller(p)
      PROVE  PollersInv'
  <2>1. poller'[p] = Gone /\ \A q \in Pollers \ {p} : poller'[q] = poller[q]
    BY <1>6 DEF StopPoller, TypeOK, IInv
  <2>2. LoopInv(poller[p])'
    BY <2>1, InboxGrows, GoneIsHarmless DEF LoopInv, DoneBefore
  <2> QED
    BY <1>6, <2>1, <2>2, MovedOnly DEF StopPoller
<1>7. ASSUME NEW p \in Pollers, BeginPoll(p)
      PROVE  PollersInv'
  <2>1. poller[p] \in Poller /\ LoopInv(poller[p]) /\ SettlesOneAtMost
    BY SettledStays DEF TypeOK, PollersInv, IInv
  <2>2. /\ poller'[p].offset = poller[p].offset
        /\ poller'[p].phase \in {"top", "polling", "ended"}
    BY <1>7, <2>1 DEF BeginPoll, Poller, TypeOK, IInv
  <2>3. poller[p].offset \in Nat /\ \A q \in Pollers \ {p} : poller'[q] = poller[q]
    BY <1>7, <2>1 DEF BeginPoll, TypeOK, Poller, IInv
  <2>4. DoneBefore(poller[p].offset) /\ poller[p].phase # "ended"
    BY <1>7, <2>1 DEF BeginPoll, LoopInv
  <2>5. LoopInv(poller[p])'
    BY <2>1, <2>2, <2>3, <2>4, InboxGrows DEF LoopInv, DoneBefore, SettlesOneAtMost
  <2> QED
    BY <1>7, <2>3, <2>4, <2>5, MovedOnly DEF BeginPoll
<1>8. ASSUME NEW p \in Pollers, Answer(p)
      PROVE  PollersInv'
  <2>1. poller[p] \in Poller /\ LoopInv(poller[p]) /\ SettlesOneAtMost
    BY SettledStays DEF TypeOK, PollersInv, IInv
  <2>2. PICK last \in 0..Len(inbox) :
          /\ last > confirmed' \/ (last = confirmed' /\ last = Len(inbox))
          /\ poller' = [poller EXCEPT ![p] =
               [@ EXCEPT !.phase = "batch", !.next = confirmed' + 1, !.last = last]]
    BY <1>8 DEF Answer, TypeOK, IInv
  <2>3. /\ poller'[p].phase = "batch" /\ poller'[p].next = confirmed' + 1
        /\ poller'[p].last = last /\ poller'[p].offset = poller[p].offset
    BY <2>1, <2>2 DEF TypeOK, Poller, IInv
  <2>4. confirmed' \in Nat /\ poller[p].offset <= confirmed' + 1 /\ poller[p].offset \in Nat
    BY <1>8, <2>1, ConfirmedIsNat DEF Answer, Poller, IInv
  <2>5. inbox' = inbox /\ Len(inbox) \in Nat
    BY <1>8, InboxGrows DEF Answer
  <2>6. LoopInv(poller[p])'
    BY <2>1, <2>2, <2>3, <2>4, <2>5, ConfirmedStays DEF LoopInv, ConfirmedInv
  <2>9. \A q \in Pollers \ {p} : poller'[q] = poller[q]
    BY <1>8 DEF Answer, TypeOK, IInv
  <2> QED
    BY <1>8, <2>6, <2>9, MovedOnly DEF Answer
<1>9. ASSUME NEW p \in Pollers, PollFails(p)
      PROVE  PollersInv'
  <2>1. poller[p] \in Poller /\ LoopInv(poller[p]) /\ SettlesOneAtMost
    BY SettledStays DEF TypeOK, PollersInv, IInv
  <2>2. /\ poller'[p].offset = poller[p].offset
        /\ poller'[p].phase \in {"top", "polling", "ended"}
    BY <1>9, <2>1 DEF PollFails, Poller, TypeOK, IInv
  <2>3. poller[p].offset \in Nat /\ \A q \in Pollers \ {p} : poller'[q] = poller[q]
    BY <1>9, <2>1 DEF PollFails, TypeOK, Poller, IInv
  <2>4. DoneBefore(poller[p].offset) /\ poller[p].phase # "ended"
    BY <1>9, <2>1 DEF PollFails, LoopInv
  <2>5. LoopInv(poller[p])'
    BY <2>1, <2>2, <2>3, <2>4, InboxGrows DEF LoopInv, DoneBefore, SettlesOneAtMost
  <2> QED
    BY <1>9, <2>3, <2>4, <2>5, MovedOnly DEF PollFails
<1>10. ASSUME NEW p \in Pollers, TakeUpdate(p)
      PROVE  PollersInv'
  <2>1. poller[p] \in Poller /\ LoopInv(poller[p]) /\ SettlesOneAtMost
    BY SettledStays DEF TypeOK, PollersInv, IInv
  <2> DEFINE u == poller[p].next
  <2>3. /\ u \in Nat /\ poller[p].last \in Nat /\ poller[p].offset \in Nat /\ 1 <= u
        /\ u <= poller[p].last /\ poller[p].offset <= u /\ poller[p].last <= Len(inbox)
        /\ DoneBefore(u)
    BY <1>10, <2>1 DEF TakeUpdate, LoopInv, Poller
  <2>4. /\ poller'[p].offset = u + 1 /\ poller'[p].next = u + 1
        /\ poller'[p].last = poller[p].last
        /\ poller'[p].phase = IF inbox[u] = "other" THEN "batch" ELSE "reading"
    BY <1>10, <2>1, <2>3 DEF TakeUpdate, OffsetAfter, Larger, TypeOK, Poller, IInv
  <2>5. inbox' = inbox /\ Len(inbox) \in Nat
    BY <1>10, InboxGrows DEF TakeUpdate
  <2>6. inbox[u] = "other" => Settled(u)
    BY <2>3, <2>5 DEF Settled, Sent
  <2>7. LoopInv(poller[p])'
    <3>1. \A v \in Updates : v < u + 1 => v < u \/ v = u
      BY <2>3 DEF Updates
    <3>2. \A v \in Updates : v < u => Settled(v)'
      BY <2>1, <2>3, DoneStays
    <3>3. inbox[u] = "other" => \A v \in Updates : v < u + 1 => Settled(v)'
      BY <2>1, <2>6, <3>1, <3>2 DEF SettlesOneAtMost
    <3>4. u + 1 - 1 = u /\ u <= u + 1 /\ 2 <= u + 1 /\ u + 1 <= poller[p].last + 1
      BY <2>3
    <3> HIDE DEF u
    <3> QED
      BY <2>3, <2>4, <2>5, <3>2, <3>3, <3>4 DEF LoopInv, DoneBefore
  <2>9. \A q \in Pollers \ {p} : poller'[q] = poller[q]
    BY <1>10 DEF TakeUpdate, TypeOK, IInv
  <2> QED
    BY <1>10, <2>7, <2>9, MovedOnly DEF TakeUpdate
<1>11. ASSUME NEW p \in Pollers, EndBatch(p)
      PROVE  PollersInv'
  <2>1. poller[p] \in Poller /\ LoopInv(poller[p]) /\ SettlesOneAtMost
    BY SettledStays DEF TypeOK, PollersInv, IInv
  <2>2. poller'[p].phase = "top" /\ poller'[p].offset = poller[p].offset
    BY <1>11, <2>1, StatesAreTyped DEF EndBatch, TypeOK, IInv
  <2>3. poller[p].offset \in Nat /\ poller[p].next \in Nat
        /\ DoneBefore(poller[p].next) /\ poller[p].offset <= poller[p].next
        /\ poller[p].offset <= Len(inbox) + 1
    BY <1>11, <2>1 DEF EndBatch, LoopInv, Poller
  <2>4. \A v \in Updates : v < poller[p].offset => Settled(v)'
    BY <2>1, <2>3, DoneStays DEF Updates
  <2>5. LoopInv(poller[p])'
    BY <2>2, <2>3, <2>4, InboxGrows DEF LoopInv, DoneBefore
  <2>9. \A q \in Pollers \ {p} : poller'[q] = poller[q]
    BY <1>11 DEF EndBatch, TypeOK, IInv
  <2> QED
    BY <1>11, <2>5, <2>9, MovedOnly DEF EndBatch
<1>12. ASSUME NEW p \in Pollers, Unreadable(p)
      PROVE  PollersInv'
  <2>1. poller[p].phase = "reading" /\ Current(p) \in Updates /\ Current(p) \in Sent
    BY <1>12, HandIsSent DEF Unreadable, Busy, IInv
  <2>2. \A u \in Updates : u = Current(p) => Settled(u)'
    BY <1>12, <2>1 DEF Unreadable, Reply, Settled, Sent
  <2>3. LoopInv(poller[p])'
    BY <1>12, <2>1, <2>2, HandDone, ReplyMoves DEF Unreadable, IInv
  <2> QED
    BY <1>12, <2>1, <2>3, MovedOnly, ReplyMoves DEF Unreadable, IInv
<1>13. ASSUME NEW p \in Pollers, ConsumeTelegramLinkToken(p)
      PROVE  PollersInv'
  <2>1. poller[p].phase = "reading" /\ Current(p) \in Updates /\ Current(p) \in Sent
    BY <1>13, HandIsSent DEF ConsumeTelegramLinkToken, Busy, IInv
  <2>2. \A u \in Updates : u = Current(p) => Settled(u)'
    BY <1>13, <2>1 DEF ConsumeTelegramLinkToken, Reply, Settled, Sent
  <2>3. LoopInv(poller[p])'
    BY <1>13, <2>1, <2>2, HandDone, ReplyMoves DEF ConsumeTelegramLinkToken, IInv
  <2> QED
    BY <1>13, <2>1, <2>3, MovedOnly, ReplyMoves DEF ConsumeTelegramLinkToken, IInv
<1>14. ASSUME NEW p \in Pollers, ProcessTelegramDm(p)
      PROVE  PollersInv'
  <2>1. poller[p].phase = "reading" /\ Current(p) \in Updates /\ Current(p) \in Sent
        /\ poller[p] \in Poller
    BY <1>14, HandIsSent DEF ProcessTelegramDm, Busy, TypeOK, IInv
  <2>2. PICK f \in {"batch", "waiting"} : poller' = [poller EXCEPT ![p] = [@ EXCEPT !.phase = f]]
    BY <1>14 DEF ProcessTelegramDm
  <2>3. /\ poller'[p].phase = f /\ poller'[p].offset = poller[p].offset
        /\ poller'[p].next = poller[p].next /\ poller'[p].last = poller[p].last
    BY <2>1, <2>2 DEF TypeOK, IInv, Poller
  <2>4. \A q \in Pollers \ {p} : poller'[q] = poller[q]
    BY <2>2 DEF TypeOK, IInv
  <2>5. CASE f = "waiting"
    <3>1. LoopInv(poller[p])'
      BY <2>1, <2>3, <2>5, SettledStays, InboxGrows
      DEF PollersInv, LoopInv, DoneBefore, SettlesOneAtMost, IInv, Poller
    <3> QED
      BY <1>14, <2>1, <2>4, <3>1, MovedOnly DEF ProcessTelegramDm
  <2>6. CASE f = "batch"
    <3>1. \A u \in Updates : u = Current(p) => Settled(u)'
      <4>1. poller' # [poller EXCEPT ![p].phase = "waiting"]
        BY <2>1, <2>3, <2>6 DEF TypeOK, Poller, IInv
      <4>2. receipt'[Current(p)] # "none"
        <5> DEFINE u == Current(p)
        <5>1. \/ receipt[u] # "none" /\ receipt' = [receipt EXCEPT ![u] = receipt[u]]
              \/ receipt' = [receipt EXCEPT ![u] = "connector_blocked"]
              \/ receipt' = [receipt EXCEPT ![u] = "linked_required"]
          BY <1>14, <4>1 DEF ProcessTelegramDm
        <5> HIDE DEF u
        <5>2. u \in Updates
          BY <2>1 DEF u
        <5>3. receipt'[u] # "none"
          BY <5>1, <5>2 DEF TypeOK, IInv
        <5> QED
          BY <5>3 DEF u
      <4> QED
        BY <1>14, <2>1, <4>2 DEF ProcessTelegramDm, Settled, Sent
    <3>2. LoopInv(poller[p])'
      BY <2>1, <2>3, <2>6, <3>1, HandDone
    <3> QED
      BY <1>14, <2>1, <2>4, <3>2, MovedOnly DEF ProcessTelegramDm
  <2> QED
    BY <2>5, <2>6
<1>15. ASSUME NEW c \in calls, AssistantAnswers(c)
      PROVE  PollersInv'
  BY <1>15, LoopStays DEF AssistantAnswers, PollersInv, IInv
<1>16. ASSUME NEW c \in calls, DeliverOutboundReply(c)
      PROVE  PollersInv'
  <2>1. CASE ~c.awaited
    BY <1>16, <2>1, LoopStays DEF DeliverOutboundReply, PollersInv, IInv
  <2>2. CASE c.awaited
    <3> DEFINE p == c.by
    <3>1. p \in Pollers /\ poller[p] \in Poller /\ c.msg \in Updates
          /\ poller[p].phase = "waiting" /\ c.msg = Current(p)
      BY <2>2 DEF CallsInv, TypeOK, Call, IInv
    <3>2. poller' = [poller EXCEPT ![p].phase = "batch"]
      BY <1>16, <2>2 DEF DeliverOutboundReply
    <3>3. /\ poller'[p].phase = "batch" /\ poller'[p].offset = poller[p].offset
          /\ poller'[p].next = poller[p].next /\ poller'[p].last = poller[p].last
      BY <3>1, <3>2 DEF TypeOK, IInv, Poller
    <3>4. \A u \in Updates : u = Current(p) => Settled(u)'
      <4>1. \A u \in Updates : u = Current(p) => Settled(u)
        BY <1>16, <3>1, HandIsSent DEF DeliverOutboundReply, CallsInv, Settled, Busy, IInv
      <4> QED
        BY <3>1, <4>1, SettledStays DEF SettlesOneAtMost
    <3> HIDE DEF p
    <3>5. LoopInv(poller[p])'
      BY <3>1, <3>3, <3>4, HandDone
    <3>6. UNCHANGED started
      BY <1>16 DEF DeliverOutboundReply
    <3>7. \A q \in Pollers \ {p} : poller'[q] = poller[q]
      BY <3>2 DEF TypeOK, IInv
    <3> QED
      BY <3>1, <3>5, <3>6, <3>7, MovedOnly
  <2> QED
    BY <2>1, <2>2
<1>17. ASSUME NEW c \in calls, TimeOut(c)
      PROVE  PollersInv'
  <2> DEFINE p == c.by
  <2>1. p \in Pollers /\ poller[p] \in Poller /\ c.msg \in Updates /\ c.msg \in Sent
        /\ poller[p].phase = "waiting" /\ c.msg = Current(p)
    BY <1>17 DEF TimeOut, CallsInv, TypeOK, Call, IInv
  <2>2. Reply(p, c.msg, FALSE) /\ UNCHANGED started /\ UNCHANGED inbox
    BY <1>17 DEF TimeOut
  <2>3. \A u \in Updates : u = Current(p) => Settled(u)'
    BY <2>1, <2>2 DEF Reply, Settled, Sent
  <2> HIDE DEF p
  <2>4. LoopInv(poller[p])'
    BY <2>1, <2>2, <2>3, HandDone, ReplyMoves DEF IInv
  <2> QED
    BY <2>1, <2>2, <2>4, MovedOnly, ReplyMoves DEF IInv
<1>18. CASE UNCHANGED vars
  BY <1>18, LoopStays DEF vars, PollersInv, IInv
<1> QED
  BY <1>1, <1>2, <1>3, <1>4, <1>5, <1>6, <1>7, <1>8, <1>9,
     <1>10, <1>11, <1>12, <1>13, <1>14, <1>15, <1>16, <1>17, <1>18
  DEF Next, PollerStep, CallStep

\* Calls stay as they are while no waiting poller moves.
LEMMA CallsKept ==
    ASSUME IInv, [Next]_vars, UNCHANGED <<calls, thread>>,
           \A u \in Updates : receipt[u] # "none" => receipt'[u] # "none",
           \A p \in Pollers : poller[p].phase = "waiting" =>
               poller'[p].phase = "waiting" /\ poller'[p].next = poller[p].next
    PROVE  CallsInv' /\ PendingRowsHaveCalls'
<1>1. \A c \in calls : c.by \in Pollers /\ c.msg \in Updates
  BY DEF IInv, TypeOK, Call
<1>2. Sent \subseteq Sent'
  BY InboxGrows DEF Sent
<1>3. \A c \in calls : c.awaited =>
        poller'[c.by].phase = "waiting" /\ c.msg = Current(c.by)'
  BY <1>1 DEF CallsInv, Current, IInv
<1> QED
  BY <1>1, <1>2, <1>3 DEF CallsInv, PendingRowsHaveCalls, IInv

LEMMA CallsStay ==
    ASSUME IInv, [Next]_vars
    PROVE  CallsInv' /\ PendingRowsHaveCalls'
<1>1. ASSUME NEW kind \in Kinds, Receive(kind)
      PROVE  CallsInv' /\ PendingRowsHaveCalls'
  BY <1>1, CallsKept DEF Receive
<1>2. CASE Reconcile
  <2>1. PICK s \in {"configured", "disabled"} : ReconcileTo(s)
    BY <1>2 DEF Reconcile, TypeOK, IInv
  <2>2. UNCHANGED <<calls, thread, receipt>>
    BY <1>2 DEF Reconcile
  <2>3. \A p \in Pollers : poller[p].phase = "waiting" =>
          poller'[p].phase = "waiting" /\ poller'[p].next = poller[p].next
    BY <2>1, ReconcileMoves DEF IInv
  <2> QED
    BY <2>2, <2>3, CallsKept
<1>3. ASSUME NEW s \in {"configured", "disabled"}, SaveConfig(s)
      PROVE  CallsInv' /\ PendingRowsHaveCalls'
  <2>1. ReconcileTo(s)
    BY <1>3 DEF SaveConfig
  <2>2. UNCHANGED <<calls, thread, receipt>>
    BY <1>3 DEF SaveConfig
  <2>3. \A p \in Pollers : poller[p].phase = "waiting" =>
          poller'[p].phase = "waiting" /\ poller'[p].next = poller[p].next
    BY <2>1, ReconcileMoves DEF IInv
  <2> QED
    BY <2>2, <2>3, CallsKept
<1>4. ASSUME NEW s \in {"configured", "disabled"}, WriteStatus(s)
      PROVE  CallsInv' /\ PendingRowsHaveCalls'
  BY <1>4, CallsKept DEF WriteStatus
<1>5. CASE Crash
  <2>1. calls' = {} /\ thread' = InterruptedThread
    BY <1>5 DEF Crash
  <2>2. \A i \in DOMAIN thread' : thread'[i].state # "pending"
    BY <2>1 DEF InterruptedThread, TypeOK, ChatRow, IInv
  <2> QED
    BY <2>1, <2>2 DEF CallsInv, PendingRowsHaveCalls
<1>6. ASSUME NEW p \in Pollers, StopPoller(p)
      PROVE  CallsInv' /\ PendingRowsHaveCalls'
  <2>1. UNCHANGED <<calls, thread, receipt>>
    BY <1>6 DEF StopPoller
  <2>2. \A q \in Pollers : poller[q].phase = "waiting" => poller'[q] = poller[q]
    BY <1>6 DEF StopPoller, TypeOK, IInv
  <2> QED
    BY <2>1, <2>2, CallsKept
<1>7. ASSUME NEW p \in Pollers, BeginPoll(p)
      PROVE  CallsInv' /\ PendingRowsHaveCalls'
  <2>1. UNCHANGED <<calls, thread, receipt>>
    BY <1>7 DEF BeginPoll
  <2>2. \A q \in Pollers : poller[q].phase = "waiting" => poller'[q] = poller[q]
    BY <1>7 DEF BeginPoll, TypeOK, IInv
  <2> QED
    BY <2>1, <2>2, CallsKept
<1>8. ASSUME NEW p \in Pollers, Answer(p)
      PROVE  CallsInv' /\ PendingRowsHaveCalls'
  <2>1. UNCHANGED <<calls, thread, receipt>>
    BY <1>8 DEF Answer
  <2>2. \A q \in Pollers : poller[q].phase = "waiting" => poller'[q] = poller[q]
    BY <1>8 DEF Answer, TypeOK, IInv
  <2> QED
    BY <2>1, <2>2, CallsKept
<1>9. ASSUME NEW p \in Pollers, PollFails(p)
      PROVE  CallsInv' /\ PendingRowsHaveCalls'
  <2>1. UNCHANGED <<calls, thread, receipt>>
    BY <1>9 DEF PollFails
  <2>2. \A q \in Pollers : poller[q].phase = "waiting" => poller'[q] = poller[q]
    BY <1>9 DEF PollFails, TypeOK, IInv
  <2> QED
    BY <2>1, <2>2, CallsKept
<1>10. ASSUME NEW p \in Pollers, TakeUpdate(p)
      PROVE  CallsInv' /\ PendingRowsHaveCalls'
  <2>1. UNCHANGED <<calls, thread, receipt>>
    BY <1>10 DEF TakeUpdate
  <2>2. \A q \in Pollers : poller[q].phase = "waiting" => poller'[q] = poller[q]
    BY <1>10 DEF TakeUpdate, TypeOK, IInv
  <2> QED
    BY <2>1, <2>2, CallsKept
<1>11. ASSUME NEW p \in Pollers, EndBatch(p)
      PROVE  CallsInv' /\ PendingRowsHaveCalls'
  <2>1. UNCHANGED <<calls, thread, receipt>>
    BY <1>11 DEF EndBatch
  <2>2. \A q \in Pollers : poller[q].phase = "waiting" => poller'[q] = poller[q]
    BY <1>11 DEF EndBatch, TypeOK, IInv
  <2> QED
    BY <2>1, <2>2, CallsKept
<1>12. ASSUME NEW p \in Pollers, Unreadable(p)
      PROVE  CallsInv' /\ PendingRowsHaveCalls'
  <2>1. UNCHANGED <<calls, thread, receipt>>
    BY <1>12 DEF Unreadable
  <2>2. Current(p) \in Updates
    BY <1>12, HandIsSent DEF Unreadable, Busy, IInv
  <2>3. \A q \in Pollers : poller[q].phase = "waiting" => poller'[q] = poller[q]
    BY <1>12, <2>2, ReplyMoves DEF Unreadable, IInv
  <2> QED
    BY <2>1, <2>3, CallsKept
<1>13. ASSUME NEW p \in Pollers, ConsumeTelegramLinkToken(p)
      PROVE  CallsInv' /\ PendingRowsHaveCalls'
  <2>1. UNCHANGED <<calls, thread, receipt>>
    BY <1>13 DEF ConsumeTelegramLinkToken
  <2>2. Current(p) \in Updates
    BY <1>13, HandIsSent DEF ConsumeTelegramLinkToken, Busy, IInv
  <2>3. \A q \in Pollers : poller[q].phase = "waiting" => poller'[q] = poller[q]
    BY <1>13, <2>2, ReplyMoves DEF ConsumeTelegramLinkToken, IInv
  <2> QED
    BY <2>1, <2>3, CallsKept
<1>14. ASSUME NEW p \in Pollers, ProcessTelegramDm(p)
      PROVE  CallsInv' /\ PendingRowsHaveCalls'
  <2>1. poller[p].phase = "reading" /\ Current(p) \in Updates /\ Current(p) \in Sent
        /\ poller[p] \in Poller /\ Current(p) \in Nat
    BY <1>14, HandIsSent DEF ProcessTelegramDm, Busy, TypeOK, IInv
  <2>2. PICK f \in {"batch", "waiting"} : poller' = [poller EXCEPT ![p] = [@ EXCEPT !.phase = f]]
    BY <1>14 DEF ProcessTelegramDm
  <2>3. /\ \A q \in Pollers \ {p} : poller'[q] = poller[q]
        /\ poller'[p].phase = f /\ poller'[p].next = poller[p].next
    BY <2>1, <2>2 DEF TypeOK, Poller, IInv
  <2>4. \A u \in Updates : receipt[u] # "none" => receipt'[u] # "none"
    BY <1>14, <2>1 DEF ProcessTelegramDm, TypeOK, IInv
  <2>5. CASE UNCHANGED <<calls, thread>>
    BY <2>1, <2>3, <2>4, <2>5, CallsKept
  <2>6. CASE ~UNCHANGED <<calls, thread>>
    <3> DEFINE row == [msg |-> Current(p), state |-> "pending"]
               new == [msg |-> Current(p), by |-> p, row |-> Len(thread) + 1,
                       phase |-> "assistant", awaited |-> TRUE]
    <3>1. /\ thread' = Append(thread, row) /\ receipt' = receipt
          /\ calls' = calls \cup {[msg |-> Current(p), by |-> p, row |-> Len(thread'),
                                   phase |-> "assistant", awaited |-> TRUE]}
          /\ poller' = [poller EXCEPT ![p].phase = "waiting"]
      BY <1>14, <2>6 DEF ProcessTelegramDm
    <3>2. Len(thread) \in Nat /\ DOMAIN thread = 1..Len(thread) /\ Len(thread') = Len(thread) + 1
      BY <3>1 DEF TypeOK, IInv
    <3>3. /\ DOMAIN thread' = 1..Len(thread) + 1
          /\ \A i \in 1..Len(thread) : thread'[i] = thread[i]
          /\ thread'[Len(thread) + 1] = row
      BY <3>1, <3>2 DEF TypeOK, IInv
    <3>4. calls' = calls \cup {new}
      BY <3>1, <3>2
    <3>5. poller'[p].phase = "waiting" /\ new.msg = poller'[p].next - 1
      BY <2>1, <2>3, <3>1 DEF TypeOK, Poller, Current, IInv
    <3>6. /\ row.state = "pending" /\ new.by = p /\ new.row = Len(thread) + 1
          /\ new.phase = "assistant" /\ new.awaited /\ new.msg \in Sent
      BY <2>1
    <3> HIDE DEF row, new
    <3>7. /\ \A c \in calls : /\ c.row \in 1..Len(thread) /\ c.by \in Pollers
                              /\ c.awaited => c.by # p
          /\ \A c, k \in calls : c.awaited /\ k.awaited /\ c.by = k.by => c = k
      BY <2>1, <3>2 DEF CallsInv, TypeOK, Call, IInv
    <3>8. CallsInv'
      <4>1. \A c \in calls : c.awaited =>
              poller'[c.by].phase = "waiting" /\ c.msg = Current(c.by)'
        <5>1. \A c \in calls : c.awaited => poller'[c.by] = poller[c.by]
          BY <2>3, <3>7
        <5> QED
          BY <5>1 DEF CallsInv, Current, IInv
      <4>2. Sent' = Sent
        BY <1>14 DEF ProcessTelegramDm, Sent
      <4>3. \A c \in calls' : c.awaited =>
              poller'[c.by].phase = "waiting" /\ c.msg = Current(c.by)'
        BY <3>4, <3>5, <3>6, <4>1 DEF Current
      <4>4. \A c, k \in calls' : c.awaited /\ k.awaited /\ c.by = k.by => c = k
        BY <3>4, <3>6, <3>7
      <4>5. \A c, k \in calls' :
              c.phase = "assistant" /\ k.phase = "assistant" /\ c.row = k.row => c = k
        BY <3>2, <3>4, <3>6, <3>7 DEF CallsInv, IInv
      <4>6. \A c \in calls' : c.phase = "delivery" => receipt'[c.msg] # "none"
        BY <3>1, <3>4, <3>6 DEF CallsInv, IInv
      <4>7. \A c \in calls' : c.msg \in Sent' /\ c.row \in DOMAIN thread'
        BY <3>2, <3>3, <3>4, <3>6, <3>7, <4>2 DEF CallsInv, IInv
      <4> QED
        BY <4>3, <4>4, <4>5, <4>6, <4>7 DEF CallsInv
    <3>9. PendingRowsHaveCalls'
      <4>1. {i \in DOMAIN thread' : thread'[i].state = "pending"}
              = {i \in DOMAIN thread : thread[i].state = "pending"} \cup {Len(thread) + 1}
        BY <3>2, <3>3, <3>6
      <4>2. {c.row : c \in {k \in calls' : k.phase = "assistant"}}
              = {c.row : c \in {k \in calls : k.phase = "assistant"}} \cup {Len(thread) + 1}
        BY <3>4, <3>6
      <4> QED
        BY <4>1, <4>2 DEF PendingRowsHaveCalls, IInv
    <3> QED
      BY <3>8, <3>9
  <2> QED
    BY <2>5, <2>6
<1>15. ASSUME NEW c \in calls, AssistantAnswers(c)
      PROVE  CallsInv' /\ PendingRowsHaveCalls'
  <2> DEFINE new == [c EXCEPT !.phase = "delivery"]
  <2>1. /\ c \in Call /\ c.phase = "assistant" /\ c.row \in DOMAIN thread
        /\ calls' = (calls \ {c}) \cup {new}
        /\ thread' = [thread EXCEPT ![c.row] = [@ EXCEPT !.state = "closed"]]
        /\ receipt' = [receipt EXCEPT ![c.msg] = "processed"]
        /\ UNCHANGED <<poller, inbox>>
    BY <1>15 DEF AssistantAnswers, TypeOK, CallsInv, IInv
  <2>2. /\ new.msg = c.msg /\ new.by = c.by /\ new.row = c.row
        /\ new.phase = "delivery" /\ new.awaited = c.awaited
    BY <2>1 DEF Call
  <2> HIDE DEF new
  <2>3. /\ DOMAIN thread' = DOMAIN thread
        /\ \A i \in DOMAIN thread \ {c.row} : thread'[i] = thread[i]
        /\ thread'[c.row].state = "closed"
    <3>1. DOMAIN thread = 1..Len(thread) /\ thread \in Seq(ChatRow)
          /\ \A i \in DOMAIN thread : thread[i] \in ChatRow
      BY DEF TypeOK, IInv
    <3>2. [thread[c.row] EXCEPT !.state = "closed"].state = "closed"
      BY <2>1, <3>1 DEF ChatRow
    <3> QED
      BY <2>1, <3>1, <3>2
  <2>4. receipt'[c.msg] = "processed" /\ \A u \in Updates \ {c.msg} : receipt'[u] = receipt[u]
    BY <2>1 DEF TypeOK, Call, IInv
  <2>5. CallsInv'
    <3>1. \A d \in calls' : d.awaited =>
            poller'[d.by].phase = "waiting" /\ d.msg = Current(d.by)'
      BY <2>1, <2>2 DEF CallsInv, Current, IInv
    <3>2. \A d, k \in calls' : d.awaited /\ k.awaited /\ d.by = k.by => d = k
      BY <2>1, <2>2 DEF CallsInv, IInv
    <3>3. \A d, k \in calls' :
            d.phase = "assistant" /\ k.phase = "assistant" /\ d.row = k.row => d = k
      BY <2>1, <2>2 DEF CallsInv, IInv
    <3>4. \A d \in calls' : d.phase = "delivery" => receipt'[d.msg] # "none"
      BY <2>1, <2>2, <2>4 DEF CallsInv, TypeOK, Call, IInv
    <3>5. \A d \in calls' : d.msg \in Sent' /\ d.row \in DOMAIN thread'
      BY <2>1, <2>2, <2>3 DEF CallsInv, Sent, IInv
    <3> QED
      BY <3>1, <3>2, <3>3, <3>4, <3>5 DEF CallsInv
  <2>6. PendingRowsHaveCalls'
    <3>1. \A i \in DOMAIN thread : thread'[i].state = "pending" <=>
            thread[i].state = "pending" /\ i # c.row
      BY <2>3
    <3>2. {d.row : d \in {k \in calls' : k.phase = "assistant"}}
            = {d.row : d \in {k \in calls : k.phase = "assistant"}} \ {c.row}
      BY <2>1, <2>2 DEF CallsInv, IInv
    <3> QED
      BY <2>3, <3>1, <3>2 DEF PendingRowsHaveCalls, IInv
  <2> QED
    BY <2>5, <2>6
<1>16. ASSUME NEW c \in calls, DeliverOutboundReply(c)
      PROVE  CallsInv' /\ PendingRowsHaveCalls'
  <2>1. /\ c \in Call /\ c.phase = "delivery" /\ calls' = calls \ {c}
        /\ UNCHANGED <<thread, receipt, inbox>>
    BY <1>16 DEF DeliverOutboundReply, TypeOK, IInv
  <2>2. \A d \in calls' : d.awaited => poller'[d.by] = poller[d.by]
    BY <1>16, <2>1 DEF DeliverOutboundReply, CallsInv, TypeOK, Call, IInv
  <2>3. CallsInv'
    <3>1. \A d \in calls' : d.awaited =>
            poller'[d.by].phase = "waiting" /\ d.msg = Current(d.by)'
      BY <2>1, <2>2 DEF CallsInv, Current, IInv
    <3> QED
      BY <2>1, <3>1 DEF CallsInv, Sent, IInv
  <2>4. {d.row : d \in {k \in calls' : k.phase = "assistant"}}
          = {d.row : d \in {k \in calls : k.phase = "assistant"}}
    BY <2>1
  <2> QED
    BY <2>1, <2>3, <2>4 DEF PendingRowsHaveCalls, IInv
<1>17. ASSUME NEW c \in calls, TimeOut(c)
      PROVE  CallsInv' /\ PendingRowsHaveCalls'
  <2> DEFINE new == [c EXCEPT !.awaited = FALSE]
  <2>1. /\ c \in Call /\ c.awaited /\ calls' = (calls \ {c}) \cup {new}
        /\ UNCHANGED <<thread, receipt, inbox>> /\ Reply(c.by, c.msg, FALSE)
    BY <1>17 DEF TimeOut, TypeOK, IInv
  <2>2. /\ new.msg = c.msg /\ new.by = c.by /\ new.row = c.row
        /\ new.phase = c.phase /\ ~new.awaited
    BY <2>1 DEF Call
  <2> HIDE DEF new
  <2>3. c.by \in Pollers /\ c.msg \in Updates /\ \A q \in Pollers \ {c.by} : poller'[q] = poller[q]
    BY <2>1, ReplyMoves DEF Call, IInv
  <2>4. \A d \in calls' : d.awaited => d \in calls /\ d # c /\ poller'[d.by] = poller[d.by]
    BY <2>1, <2>2, <2>3 DEF CallsInv, TypeOK, Call, IInv
  <2>5. CallsInv'
    <3>1. \A d \in calls' : d.awaited =>
            poller'[d.by].phase = "waiting" /\ d.msg = Current(d.by)'
      BY <2>4 DEF CallsInv, Current, IInv
    <3>2. \A d, k \in calls' : d.awaited /\ k.awaited /\ d.by = k.by => d = k
      BY <2>4 DEF CallsInv, IInv
    <3>3. \A d, k \in calls' :
            d.phase = "assistant" /\ k.phase = "assistant" /\ d.row = k.row => d = k
      BY <2>1, <2>2 DEF CallsInv, IInv
    <3>4. \A d \in calls' : /\ d.phase = "delivery" => receipt'[d.msg] # "none"
                            /\ d.msg \in Sent' /\ d.row \in DOMAIN thread'
      BY <2>1, <2>2 DEF CallsInv, Sent, IInv
    <3> QED
      BY <3>1, <3>2, <3>3, <3>4 DEF CallsInv
  <2>6. {d.row : d \in {k \in calls' : k.phase = "assistant"}}
          = {d.row : d \in {k \in calls : k.phase = "assistant"}}
    BY <2>1, <2>2
  <2> QED
    BY <2>1, <2>5, <2>6 DEF PendingRowsHaveCalls, IInv
<1>18. CASE UNCHANGED vars
  BY <1>18, CallsKept DEF vars
<1> QED
  BY <1>1, <1>2, <1>3, <1>4, <1>5, <1>6, <1>7, <1>8, <1>9,
     <1>10, <1>11, <1>12, <1>13, <1>14, <1>15, <1>16, <1>17, <1>18
  DEF Next, PollerStep, CallStep

-----------------------------------------------------------------------------

LEMMA InitInv == Init => IInv
<1> SUFFICES ASSUME Init
             PROVE  IInv
  OBVIOUS
<1>1. TypeOK
  BY StatesAreTyped, ConnectorAssumption DEF Init, TypeOK
<1>2. Len(inbox) = 0 /\ Len(inbox) \in Nat
  BY DEF Init
<1>3. ConfirmedInv
  BY <1>2 DEF Init, ConfirmedInv, DoneBefore, Updates
<1>4. PollersInv
  BY <1>2 DEF Init, PollersInv, LoopInv, DoneBefore, Updates, Gone, Fresh
<1>5. CallsInv /\ PendingRowsHaveCalls
  BY DEF Init, CallsInv, PendingRowsHaveCalls
<1> QED
  BY <1>1, <1>3, <1>4, <1>5 DEF IInv

LEMMA StepInv == IInv /\ [Next]_vars => IInv'
  BY TypesStay, ConfirmedStays, PollersStay, CallsStay DEF IInv

LEMMA AlwaysInv == Spec => []IInv
  BY InitInv, StepInv, PTL DEF Spec

\* Every variable keeps its type.
THEOREM TypesHold == Spec => []TypeOK
<1>1. IInv => TypeOK
  BY DEF IInv
<1> QED
  BY <1>1, AlwaysInv, PTL

\* A row of the chat is pending exactly while a call will still complete it,
\* through timeouts and restarts.
THEOREM PendingRowsAlwaysHaveCalls == Spec => []PendingRowsHaveCalls
<1>1. IInv => PendingRowsHaveCalls
  BY DEF IInv
<1> QED
  BY <1>1, AlwaysInv, PTL

LEMMA InitFeed == Init => Feed!Init
  BY DEF Init, Feed!Init, Sent

\* Telegram's mark moves only when a poller asks, and nothing is settled then.
LEMMA ConfirmedMoves ==
    ASSUME IInv, [Next]_vars, confirmed' # confirmed
    PROVE  UNCHANGED <<inbox, receipt, noticed>> /\ confirmed < confirmed'
<1>1. PICK p \in Pollers : Answer(p) \/ PollFails(p)
  BY DEF Next, PollerStep, CallStep, Receive, Reconcile, SaveConfig, WriteStatus, Crash,
     StopPoller, BeginPoll, TakeUpdate, EndBatch, Unreadable,
     ConsumeTelegramLinkToken, ProcessTelegramDm, AssistantAnswers,
     DeliverOutboundReply, TimeOut, vars
<1>2. confirmed' = ConfirmedBy(p) /\ UNCHANGED <<inbox, receipt, noticed>>
  BY <1>1 DEF Answer, PollFails
<1> QED
  BY <1>2, ConfirmedIsNat DEF IInv, TypeOK

LEMMA StepFeed ==
    ASSUME IInv, [Next]_vars
    PROVE  [Feed!Next]_<<confirmed, {u \in Sent : Settled(u)}>>
<1> DEFINE done == {u \in Sent : Settled(u)}
<1>1. CASE confirmed' # confirmed
  <2>1. UNCHANGED <<inbox, receipt, noticed>> /\ confirmed < confirmed'
    BY <1>1, ConfirmedMoves
  <2>2. done' = done
    BY <2>1 DEF Settled, Sent
  <2>3. confirmed \in Nat /\ confirmed' \in Nat /\ confirmed' <= Len(inbox')
        /\ Len(inbox') \in Nat /\ Len(inbox') <= MaxUpdates
    BY TypesStay, ConfirmedStays DEF TypeOK, ConfirmedInv, IInv
  <2>4. confirmed' \in Updates /\ 1..confirmed' \subseteq Updates
    BY <2>1, <2>3, ConnectorAssumption DEF Updates
  <2>5. \A u \in 1..confirmed' : Settled(u)' /\ u \in Sent'
    <3>1. \A u \in Updates : u < confirmed' + 1 => Settled(u)'
      BY ConfirmedStays DEF ConfirmedInv, DoneBefore
    <3>2. \A u \in 1..confirmed' : u \in Updates /\ u < confirmed' + 1
      <4>1. \A n \in Nat : \A u \in 1..n : u < n + 1
        OBVIOUS
      <4>2. confirmed' \in Nat /\ 1..confirmed' \subseteq Updates
        BY <2>3, <2>4
      <4> QED
        BY <4>1, <4>2
    <3> QED
      BY <3>1, <3>2 DEF Settled
  <2>6. 1..confirmed' \subseteq done
    BY <2>2, <2>5
  <2> HIDE DEF done
  <2>7. \E n \in Updates : n > confirmed /\ 1..n \subseteq done /\ confirmed' = n /\ done' = done
    BY <2>1, <2>2, <2>3, <2>4, <2>6
  <2> QED
    BY <2>7 DEF Feed!Next, Feed!Confirm, done
<1>2. CASE confirmed' = confirmed
  <2>1. SettlesOneAtMost /\ Sent \subseteq Sent' /\ Sent \subseteq Updates /\ Sent' \subseteq Updates
    <3>1. Sent \subseteq Updates
      BY SentAreUpdates DEF IInv
    <3>2. Sent' \subseteq Updates
      BY TypesStay, InboxGrows, ConnectorAssumption DEF TypeOK, Sent, Updates
    <3>3. Sent \subseteq Sent'
      BY InboxGrows DEF Sent
    <3> QED
      BY <3>1, <3>2, <3>3, SettledStays
  <2>2. \A u \in done : u \in Updates /\ u \in done'
    BY <2>1 DEF SettlesOneAtMost
  <2>3. PICK u \in Updates \cup {0} : \A v \in Updates \ {u} : Settled(v)' => Settled(v)
    BY <2>1 DEF SettlesOneAtMost
  <2>4. \A v \in done' : v \in Updates /\ (v = u \/ v \in done)
    BY <2>1, <2>3 DEF Settled
  <2> HIDE DEF done
  <2>5. done' = done \/ (u \in Updates /\ u \notin done /\ done' = done \cup {u})
    BY <2>2, <2>4
  <2> QED
    BY <1>2, <2>5 DEF Feed!Next, Feed!Settle, done
<1> QED
  BY <1>1, <1>2

\* Telegram forgets a message only when nothing more is owed to it.
THEOREM ConnectorImplementsFeed == Spec => ImplementsFeed
  BY InitFeed, StepFeed, AlwaysInv, PTL DEF Spec, ImplementsFeed, Feed!Spec

-----------------------------------------------------------------------------
(* One run per poller.  A poller has taken an update when its offset is past *)
(* it, unless it still has it in hand; a poller that has left its loop for   *)
(* good counts as having taken all.  What is taken stays taken, and only a   *)
(* poller that has not taken an update yet can have it run.                  *)

Retired(p) == poller[p].phase = "ended" /\ p # listed

Took(p, u) ==
    /\ p <= started
    /\ \/ Retired(p)
       \/ poller[p].offset > u /\ ~(poller[p].phase = "reading" /\ Current(p) = u)

Takers(u) == {p \in Pollers : Took(p, u)}

RunsInv == \A u \in Updates : Cardinality(RunsFor(u)) <= Cardinality(Takers(u))

\* An update in hand is one the offset is past.
HandTaken ==
    \A p \in Pollers : Busy(p) => poller[p].offset >= poller[p].next

\* A poller moves without going back to an update it has taken.
Keeps(p) ==
    \/ p <= started' /\ Retired(p)'
    \/ /\ ~Retired(p)
       /\ poller'[p].offset >= poller[p].offset
       /\ poller'[p].phase = "reading" =>
            \/ poller[p].phase = "reading" /\ poller'[p].next = poller[p].next
            \/ poller[p].offset < poller'[p].next

LEMMA TookStays ==
    ASSUME TypeOK, TypeOK', started' >= started,
           NEW p \in Pollers, p <= started => Keeps(p), NEW u \in Updates, Took(p, u)
    PROVE  Took(p, u)'
<1>1. p \in Nat /\ u \in Nat /\ started \in Nat /\ started' \in Nat
      /\ poller[p].offset \in Nat /\ poller[p].next \in Nat
      /\ poller'[p].offset \in Nat /\ poller'[p].next \in Nat
  <2>1. p \in Nat /\ u \in Nat
    BY ConnectorAssumption DEF Pollers, Updates
  <2>2. started \in Nat /\ started' \in Nat
    BY ConnectorAssumption DEF TypeOK
  <2>3. poller[p] \in Poller /\ poller'[p] \in Poller
    BY DEF TypeOK
  <2> QED
    BY <2>1, <2>2, <2>3 DEF Poller
<1>2. p <= started /\ p <= started' /\ Keeps(p)
  BY <1>1 DEF Took
<1>3. CASE Retired(p)'
  BY <1>2, <1>3 DEF Took
<1>4. CASE ~Retired(p)' /\ ~Retired(p)
  <2>1. poller[p].offset > u /\ ~(poller[p].phase = "reading" /\ poller[p].next - 1 = u)
    BY <1>4 DEF Took, Current
  <2>2. poller'[p].offset > u
    BY <1>1, <1>2, <1>4, <2>1 DEF Keeps
  <2>3. ~(poller'[p].phase = "reading" /\ poller'[p].next - 1 = u)
    <3> SUFFICES ASSUME poller'[p].phase = "reading", poller'[p].next - 1 = u
                 PROVE  FALSE
      OBVIOUS
    <3>1. ~(poller[p].phase = "reading" /\ poller'[p].next = poller[p].next)
      BY <2>1
    <3>2. poller[p].offset < poller'[p].next
      BY <1>2, <1>4, <3>1 DEF Keeps
    <3> QED
      BY <1>1, <2>1, <3>2
  <2> QED
    BY <1>2, <2>2, <2>3 DEF Took, Current
<1> QED
  BY <1>2, <1>3, <1>4 DEF Keeps

\* Of a step in which one poller moves, the others have nothing to say.
LEMMA OneMoves ==
    ASSUME TypeOK, HandTaken, NEW p \in Pollers, poller[p].phase # "ended",
           \A q \in Pollers \ {p} : poller'[q] = poller[q],
           started' = started, listed' \in {0, listed},
           \/ poller'[p].phase = "ended" /\ (p # listed' \/ poller'[p].offset >= poller[p].offset)
           \/ /\ poller'[p].offset >= poller[p].offset
              /\ poller'[p].phase \notin {"reading", "waiting"}
           \/ /\ poller'[p].offset >= poller[p].offset
              /\ poller'[p].offset >= poller'[p].next
              /\ \/ poller[p].phase = "reading" /\ poller'[p].next = poller[p].next
                 \/ poller[p].offset < poller'[p].next
    PROVE  HandTaken' /\ \A q \in Pollers : q <= started => Keeps(q)
<1>1. p <= started => Keeps(p)
  BY DEF Keeps, Retired
<1>2. ASSUME NEW q \in Pollers, q # p, q <= started
      PROVE  Keeps(q)
  <2>1. poller'[q] = poller[q] /\ poller[q].offset \in Nat /\ q # 0
    BY <1>2 DEF TypeOK, Poller, Pollers
  <2>2. CASE Retired(q)
    BY <1>2, <2>1, <2>2 DEF Keeps, Retired
  <2>3. CASE ~Retired(q)
    BY <2>1, <2>3 DEF Keeps
  <2> QED
    BY <2>2, <2>3
<1>3. HandTaken'
  BY DEF HandTaken, Busy
<1> QED
  BY <1>1, <1>2, <1>3

\* Pollers the reconciliation drops, revives or leaves alone.
LEMMA ReconcileKeeps ==
    ASSUME IInv, HandTaken, NEW s \in {"configured", "disabled"}, ReconcileTo(s)
    PROVE  HandTaken' /\ \A q \in Pollers : q <= started => Keeps(q)
<1>1. /\ \A q \in Pollers : poller[q] \in Poller /\ q \in Nat \ {0}
      /\ started \in Nat /\ MaxPollers \in Nat /\ listed \in 0..started
      /\ started <= MaxPollers
  BY ConnectorAssumption DEF IInv, TypeOK, Pollers
<1>2. CASE s # "configured"
  <2>1. \A q \in Pollers : poller'[q] = IF q = listed THEN Dropped(poller[q]) ELSE poller[q]
    BY <1>2 DEF ReconcileTo
  <2>2. listed' = 0 /\ started' = started
    BY <1>2 DEF ReconcileTo
  <2>3. ASSUME NEW q \in Pollers
        PROVE  /\ poller[q].phase = "ended" => poller'[q].phase = "ended"
               /\ poller[q].phase # "ended" =>
                    /\ poller'[q].phase = poller[q].phase
                    /\ poller'[q].offset = poller[q].offset
                    /\ poller'[q].next = poller[q].next
    BY <1>1, <2>1 DEF Dropped, Gone, Fresh, Poller
  <2>4. HandTaken'
    BY <2>3 DEF HandTaken, Busy
  <2>5. ASSUME NEW q \in Pollers, q <= started PROVE Keeps(q)
    <3>1. poller[q].offset \in Nat /\ q # 0
      BY <1>1 DEF Poller
    <3> QED
      BY <2>2, <2>3, <2>5, <3>1 DEF Keeps, Retired
  <2> QED
    BY <2>4, <2>5
<1>3. CASE s = "configured" /\ listed # 0
  <2>1. listed \in Pollers
    BY <1>1, <1>3 DEF Pollers
  <2>2. /\ \A q \in Pollers : q # listed => poller'[q] = poller[q]
        /\ poller'[listed].offset = poller[listed].offset
        /\ \/ poller'[listed] = poller[listed]
           \/ poller'[listed].phase = "top"
    <3>1. poller' = IF poller[listed].phase # "ended" THEN poller
            ELSE [poller EXCEPT ![listed] = Revived(@)]
      BY <1>3 DEF ReconcileTo
    <3>2. Revived(poller[listed]).phase = "top"
          /\ Revived(poller[listed]).offset = poller[listed].offset
      BY <1>1, <2>1 DEF Revived, Poller
    <3>3. poller \in [Pollers -> Poller]
      BY DEF IInv, TypeOK
    <3> QED
      BY <2>1, <3>1, <3>2, <3>3
  <2>3. listed' = listed /\ started' = started
    BY <1>3 DEF ReconcileTo
  <2>4. HandTaken'
    BY <2>2 DEF HandTaken, Busy
  <2>5. ASSUME NEW q \in Pollers, q <= started PROVE Keeps(q)
    <3>1. poller[q].offset \in Nat
      BY <1>1 DEF Poller
    <3>2. CASE q = listed
      BY <2>2, <2>3, <3>1, <3>2 DEF Keeps, Retired
    <3>3. CASE q # listed
      BY <2>2, <2>3, <2>5, <3>1, <3>3 DEF Keeps, Retired
    <3> QED
      BY <3>2, <3>3
  <2> QED
    BY <2>4, <2>5
<1>4. CASE s = "configured" /\ listed = 0
  <2>1. started' = started + 1 /\ listed' = started + 1
        /\ poller' = [poller EXCEPT ![started + 1] = Fresh]
    BY <1>4 DEF ReconcileTo
  <2>2. \A q \in Pollers : q # started + 1 => poller'[q] = poller[q]
    BY <2>1
  <2>3. \A q \in Pollers : q = started + 1 => poller'[q].phase = "top"
    BY <2>1 DEF IInv, TypeOK, Fresh
  <2>4. HandTaken'
    BY <2>2, <2>3 DEF HandTaken, Busy
  <2>5. ASSUME NEW q \in Pollers, q <= started PROVE Keeps(q)
    <3>1. poller[q].offset \in Nat /\ q # started + 1 /\ q <= started + 1 /\ q # 0
      BY <1>1, <2>5 DEF Poller
    <3> QED
      BY <1>4, <2>1, <2>2, <3>1 DEF Keeps, Retired
  <2> QED
    BY <2>4, <2>5
<1> QED
  BY <1>2, <1>3, <1>4

\* A reply of the poller leaves its offset where it was.
LEMMA ReplyKeeps ==
    ASSUME TypeOK, HandTaken, NEW p \in Pollers, NEW u, NEW b \in BOOLEAN, Reply(p, u, b),
           poller[p].phase # "ended", UNCHANGED <<started, listed>>
    PROVE  HandTaken' /\ \A q \in Pollers : q <= started => Keeps(q)
<1>1. poller[p] \in Poller /\ poller[p].offset \in Nat
  BY DEF TypeOK, Poller
<1>2. /\ \A q \in Pollers \ {p} : poller'[q] = poller[q]
      /\ poller'[p].offset = poller[p].offset /\ poller'[p].phase \in {"batch", "top"}
  <2> DEFINE batch == [poller[p] EXCEPT !.phase = "batch"]
             top == AtTop(poller[p], TRUE)
  <2>1. batch.offset = poller[p].offset /\ batch.phase = "batch"
        /\ top.offset = poller[p].offset /\ top.phase = "top"
    BY <1>1 DEF Poller, AtTop
  <2>2. poller' \in {[poller EXCEPT ![p] = batch], [poller EXCEPT ![p] = top]}
    BY DEF Reply
  <2> HIDE DEF batch, top
  <2>3. poller \in [Pollers -> Poller]
    BY DEF TypeOK
  <2> QED
    BY <2>1, <2>2, <2>3
<1> QED
  BY <1>1, <1>2, OneMoves

\* No step of the connector goes back.
LEMMA StepKeeps ==
    ASSUME IInv, HandTaken, Next
    PROVE  /\ started' >= started /\ HandTaken'
           /\ \A q \in Pollers : q <= started => Keeps(q)
<1> USE ConnectorAssumption
<1>1. /\ poller \in [Pollers -> Poller]
      /\ \A q \in Pollers : poller[q] \in Poller /\ poller[q].offset \in Nat
                            /\ poller[q].next \in Nat /\ q # 0
      /\ started \in Nat
  BY DEF IInv, TypeOK, Pollers, Poller
<1>2. ASSUME UNCHANGED <<poller, started, listed>> PROVE HandTaken' /\ \A q \in Pollers : q <= started => Keeps(q)
  <2>1. HandTaken'
    BY <1>2 DEF HandTaken, Busy
  <2> QED
    BY <1>1, <1>2, <2>1 DEF Keeps, Retired
<1>3. ASSUME NEW kind \in Kinds, Receive(kind) PROVE started' >= started /\ UNCHANGED <<poller, started, listed>>
  BY <1>1, <1>3 DEF Receive
<1>4. ASSUME NEW s \in {"configured", "disabled"}, WriteStatus(s)
      PROVE  started' >= started /\ UNCHANGED <<poller, started, listed>>
  BY <1>1, <1>4 DEF WriteStatus
<1>5. ASSUME NEW c \in calls, AssistantAnswers(c)
      PROVE  started' >= started /\ UNCHANGED <<poller, started, listed>>
  BY <1>1, <1>5 DEF AssistantAnswers
<1>6. ASSUME NEW s \in {"configured", "disabled"}, ReconcileTo(s)
      PROVE  /\ started' >= started /\ HandTaken'
             /\ \A q \in Pollers : q <= started => Keeps(q)
  <2>1. started' >= started
    BY <1>1, <1>6 DEF ReconcileTo
  <2> QED
    BY <1>6, <2>1, ReconcileKeeps
<1>7. Reconcile => \E s \in {"configured", "disabled"} : ReconcileTo(s)
  BY DEF Reconcile, IInv, TypeOK
<1>8. ASSUME NEW s \in {"configured", "disabled"}, SaveConfig(s) PROVE ReconcileTo(s)
  BY <1>8 DEF SaveConfig
<1>9. ASSUME Crash
      PROVE  /\ started' >= started /\ HandTaken'
             /\ \A q \in Pollers : q <= started => Keeps(q)
  <2>1. /\ listed' = 0 /\ started' = started
        /\ \A q \in Pollers : poller'[q].phase = "ended"
    BY <1>9 DEF Crash, Gone, Fresh
  <2> QED
    BY <1>1, <2>1 DEF HandTaken, Busy, Keeps, Retired
<1>10. ASSUME NEW p \in Pollers, StopPoller(p)
       PROVE  HandTaken' /\ \A q \in Pollers : q <= started => Keeps(q)
  <2>1. /\ poller[p].phase = "top" /\ listed' = 0 /\ started' = started
        /\ \A q \in Pollers \ {p} : poller'[q] = poller[q]
        /\ poller'[p].phase = "ended" /\ p # 0
    BY <1>1, <1>10 DEF StopPoller, Gone, Fresh
  <2> QED
    BY <2>1, OneMoves DEF IInv
<1>11. ASSUME NEW p \in Pollers, BeginPoll(p)
       PROVE  HandTaken' /\ \A q \in Pollers : q <= started => Keeps(q)
  <2>1. /\ poller[p].phase = "top" /\ listed' = listed /\ started' = started
        /\ \A q \in Pollers \ {p} : poller'[q] = poller[q]
        /\ poller'[p].offset = poller[p].offset
        /\ poller'[p].phase \in {"polling", "ended"}
    BY <1>1, <1>11 DEF BeginPoll, Poller
  <2> QED
    BY <1>1, <2>1, OneMoves DEF IInv
<1>12. ASSUME NEW p \in Pollers, Answer(p)
       PROVE  HandTaken' /\ \A q \in Pollers : q <= started => Keeps(q)
  <2>1. /\ poller[p].phase = "polling" /\ listed' = listed /\ started' = started
        /\ \A q \in Pollers \ {p} : poller'[q] = poller[q]
        /\ poller'[p].offset = poller[p].offset
        /\ poller'[p].phase = "batch"
    BY <1>1, <1>12 DEF Answer, Poller
  <2> QED
    BY <1>1, <2>1, OneMoves DEF IInv
<1>13. ASSUME NEW p \in Pollers, PollFails(p)
       PROVE  HandTaken' /\ \A q \in Pollers : q <= started => Keeps(q)
  <2>1. /\ poller[p].phase = "polling" /\ listed' = listed /\ started' = started
        /\ \A q \in Pollers \ {p} : poller'[q] = poller[q]
        /\ poller'[p].offset = poller[p].offset
        /\ poller'[p].phase = "top"
    BY <1>1, <1>13 DEF PollFails, Poller
  <2> QED
    BY <1>1, <2>1, OneMoves DEF IInv
<1>14. ASSUME NEW p \in Pollers, TakeUpdate(p)
       PROVE  HandTaken' /\ \A q \in Pollers : q <= started => Keeps(q)
  <2>1. /\ poller[p].phase = "batch" /\ listed' = listed /\ started' = started
        /\ \A q \in Pollers \ {p} : poller'[q] = poller[q]
        /\ poller'[p].offset = Larger(poller[p].offset, poller[p].next + 1)
        /\ poller'[p].next = poller[p].next + 1
    BY <1>1, <1>14 DEF TakeUpdate, OffsetAfter, Poller
  <2>2. poller[p].offset <= poller[p].next
    BY <2>1 DEF IInv, PollersInv, LoopInv
  <2>3. poller'[p].offset >= poller[p].offset /\ poller'[p].offset >= poller'[p].next
        /\ poller[p].offset < poller'[p].next
    BY <1>1, <2>1, <2>2 DEF Larger
  <2> QED
    BY <2>1, <2>3, OneMoves DEF IInv
<1>15. ASSUME NEW p \in Pollers, EndBatch(p)
       PROVE  HandTaken' /\ \A q \in Pollers : q <= started => Keeps(q)
  <2>1. /\ poller[p].phase = "batch" /\ listed' = listed /\ started' = started
        /\ \A q \in Pollers \ {p} : poller'[q] = poller[q]
        /\ poller'[p].offset = poller[p].offset
        /\ poller'[p].phase = "top"
    BY <1>1, <1>15 DEF EndBatch, AtTop, Poller
  <2> QED
    BY <1>1, <2>1, OneMoves DEF IInv
<1>16. ASSUME NEW p \in Pollers, Unreadable(p) \/ ConsumeTelegramLinkToken(p)
       PROVE  HandTaken' /\ \A q \in Pollers : q <= started => Keeps(q)
  <2>1. /\ poller[p].phase = "reading" /\ UNCHANGED <<started, listed>>
        /\ \E b \in BOOLEAN : Reply(p, Current(p), b)
    BY <1>16 DEF Unreadable, ConsumeTelegramLinkToken
  <2> QED
    BY <2>1, ReplyKeeps DEF IInv
<1>17. ASSUME NEW p \in Pollers, ProcessTelegramDm(p)
       PROVE  HandTaken' /\ \A q \in Pollers : q <= started => Keeps(q)
  <2>1. /\ poller[p].phase = "reading" /\ listed' = listed /\ started' = started
        /\ \/ poller' = [poller EXCEPT ![p].phase = "batch"]
           \/ poller' = [poller EXCEPT ![p].phase = "waiting"]
    BY <1>17 DEF ProcessTelegramDm
  <2>2. /\ \A q \in Pollers \ {p} : poller'[q] = poller[q]
        /\ poller'[p].offset = poller[p].offset /\ poller'[p].next = poller[p].next
    BY <1>1, <2>1 DEF Poller
  <2>3. poller[p].offset >= poller[p].next
    BY <2>1 DEF HandTaken, Busy
  <2> QED
    BY <1>1, <2>1, <2>2, <2>3, OneMoves DEF IInv
<1>18. ASSUME NEW c \in calls, DeliverOutboundReply(c)
       PROVE  HandTaken' /\ \A q \in Pollers : q <= started => Keeps(q)
  <2>1. CASE c.awaited
    <3>1. /\ c.by \in Pollers /\ poller[c.by].phase = "waiting"
          /\ UNCHANGED <<started, listed>>
          /\ poller' = [poller EXCEPT ![c.by].phase = "batch"]
      BY <1>18, <2>1 DEF DeliverOutboundReply, IInv, TypeOK, CallsInv, Call
    <3>2. /\ \A q \in Pollers \ {c.by} : poller'[q] = poller[q]
          /\ poller'[c.by].offset = poller[c.by].offset
          /\ poller'[c.by].phase = "batch"
      BY <1>1, <3>1 DEF Poller
    <3> QED
      BY <1>1, <3>1, <3>2, OneMoves DEF IInv
  <2>2. CASE ~c.awaited
    BY <1>2, <1>18, <2>2 DEF DeliverOutboundReply
  <2> QED
    BY <2>1, <2>2
<1>19. ASSUME NEW c \in calls, TimeOut(c)
       PROVE  HandTaken' /\ \A q \in Pollers : q <= started => Keeps(q)
  <2>1. /\ c.by \in Pollers /\ poller[c.by].phase = "waiting"
        /\ UNCHANGED <<started, listed>> /\ Reply(c.by, c.msg, FALSE)
    BY <1>19 DEF TimeOut, IInv, TypeOK, CallsInv, Call
  <2> QED
    BY <2>1, ReplyKeeps DEF IInv
<1>20. ASSUME NEW p \in Pollers,
              StopPoller(p) \/ BeginPoll(p) \/ Answer(p) \/ PollFails(p) \/ TakeUpdate(p)
              \/ EndBatch(p) \/ Unreadable(p) \/ ConsumeTelegramLinkToken(p)
              \/ ProcessTelegramDm(p) \/ CallStep(p)
       PROVE  started' >= started
  <2>1. StopPoller(p) \/ BeginPoll(p) \/ Answer(p) => started' = started
    BY DEF StopPoller, BeginPoll, Answer
  <2>2. PollFails(p) \/ TakeUpdate(p) \/ EndBatch(p) => started' = started
    BY DEF PollFails, TakeUpdate, EndBatch
  <2>3. Unreadable(p) \/ ConsumeTelegramLinkToken(p) \/ ProcessTelegramDm(p)
            => started' = started
    BY DEF Unreadable, ConsumeTelegramLinkToken, ProcessTelegramDm
  <2>4. CallStep(p) => started' = started
    BY DEF CallStep, AssistantAnswers, DeliverOutboundReply
  <2> QED
    BY <1>1, <1>20, <2>1, <2>2, <2>3, <2>4
<1>21. ASSUME NEW c \in calls, TimeOut(c) PROVE started' >= started
  BY <1>1, <1>21 DEF TimeOut
<1> QED
  BY <1>2, <1>3, <1>4, <1>5, <1>6, <1>7, <1>8, <1>9, <1>10, <1>11, <1>12, <1>13, <1>14,
     <1>15, <1>16, <1>17, <1>18, <1>19, <1>20, <1>21 DEF Next, PollerStep, CallStep

\* Only the assistant's answer to a poller with the update in hand adds a run.
LEMMA RunsMove ==
    ASSUME IInv, HandTaken, Next, NEW u \in Updates
    PROVE  \/ RunsFor(u)' = RunsFor(u)
           \/ \E p \in Pollers : /\ ~Took(p, u) /\ Took(p, u)'
                                 /\ RunsFor(u)' = RunsFor(u) \cup {Len(thread) + 1}
<1>1. thread \in Seq(ChatRow)
  BY DEF IInv, TypeOK
<1>2. ASSUME NEW p \in Pollers, ProcessTelegramDm(p), thread' # thread
      PROVE  \/ RunsFor(u)' = RunsFor(u)
             \/ /\ ~Took(p, u) /\ Took(p, u)'
                /\ RunsFor(u)' = RunsFor(u) \cup {Len(thread) + 1}
  <2>1. /\ poller[p].phase = "reading" /\ UNCHANGED <<started, listed>>
        /\ thread' = Append(thread, [msg |-> Current(p), state |-> "pending"])
        /\ poller' = [poller EXCEPT ![p].phase = "waiting"]
    BY <1>2 DEF ProcessTelegramDm
  <2>2. /\ DOMAIN thread' = DOMAIN thread \cup {Len(thread) + 1}
        /\ Len(thread) + 1 \notin DOMAIN thread
        /\ \A i \in DOMAIN thread : thread'[i] = thread[i]
        /\ thread'[Len(thread) + 1].msg = Current(p)
    BY <1>1, <2>1
  <2>3. CASE Current(p) = u
    <3>1. RunsFor(u)' = RunsFor(u) \cup {Len(thread) + 1}
      BY <2>2, <2>3 DEF RunsFor
    <3>2. ~Took(p, u)
      BY <2>1, <2>3 DEF Took, Retired
    <3>3. p <= started' /\ poller[p] \in Poller /\ u \in Nat /\ poller \in [Pollers -> Poller]
      <4>1. p \in Nat /\ u \in Nat
        BY ConnectorAssumption DEF Pollers, Updates
      <4>2. started \in Nat /\ poller \in [Pollers -> Poller]
        BY ConnectorAssumption DEF IInv, TypeOK
      <4>3. ~(p > started)
        BY <2>1 DEF IInv, PollersInv
      <4> QED
        BY <2>1, <4>1, <4>2, <4>3
    <3>4. poller[p].offset >= poller[p].next
      BY <2>1 DEF HandTaken, Busy
    <3>5. poller[p].offset > u
      BY <2>3, <3>3, <3>4 DEF Current, Poller
    <3>6. poller'[p].offset > u /\ poller'[p].phase = "waiting"
      BY <2>1, <3>3, <3>5 DEF Poller
    <3>7. Took(p, u)'
      BY <3>3, <3>6 DEF Took
    <3> QED
      BY <3>1, <3>2, <3>7
  <2>4. CASE Current(p) # u
    BY <2>2, <2>4 DEF RunsFor
  <2> QED
    BY <2>3, <2>4
<1>3. ASSUME DOMAIN thread' = DOMAIN thread, \A i \in DOMAIN thread : thread'[i].msg = thread[i].msg
      PROVE  RunsFor(u)' = RunsFor(u)
  BY <1>3 DEF RunsFor
<1>4. ASSUME Crash PROVE RunsFor(u)' = RunsFor(u)
  <2>1. \A i \in DOMAIN thread : [thread[i] EXCEPT !.state = "closed"].msg = thread[i].msg
    BY <1>1 DEF ChatRow
  <2> QED
    BY <1>3, <1>4, <2>1 DEF Crash, InterruptedThread
<1>5. ASSUME NEW c \in calls, AssistantAnswers(c) PROVE RunsFor(u)' = RunsFor(u)
  <2>1. \A i \in DOMAIN thread : [thread[i] EXCEPT !.state = "closed"].msg = thread[i].msg
    BY <1>1 DEF ChatRow
  <2>2. thread' = [thread EXCEPT ![c.row] = [thread[c.row] EXCEPT !.state = "closed"]]
    BY <1>5 DEF AssistantAnswers
  <2> QED
    BY <1>1, <1>3, <2>1, <2>2
<1>6. thread' = thread => RunsFor(u)' = RunsFor(u)
  BY <1>3
<1>7. (\E kind \in Kinds : Receive(kind)) \/ Reconcile => thread' = thread
  BY DEF Receive, Reconcile
<1>8. (\E s \in {"configured", "disabled"} : SaveConfig(s) \/ WriteStatus(s)) => thread' = thread
  BY DEF SaveConfig, WriteStatus
<1>9. ASSUME NEW p \in Pollers
      PROVE  StopPoller(p) \/ BeginPoll(p) \/ Answer(p) \/ PollFails(p) => thread' = thread
  BY DEF StopPoller, BeginPoll, Answer, PollFails
<1>10. ASSUME NEW p \in Pollers
       PROVE  TakeUpdate(p) \/ EndBatch(p) \/ Unreadable(p) \/ ConsumeTelegramLinkToken(p)
                => thread' = thread
  BY DEF TakeUpdate, EndBatch, Unreadable, ConsumeTelegramLinkToken
<1>11. ASSUME NEW c \in calls
       PROVE  DeliverOutboundReply(c) \/ TimeOut(c) => thread' = thread
  BY DEF DeliverOutboundReply, TimeOut
<1> QED
  BY <1>2, <1>4, <1>5, <1>6, <1>7, <1>8, <1>9, <1>10, <1>11 DEF Next, PollerStep, CallStep

LEMMA StepRuns ==
    ASSUME IInv, IInv', HandTaken, RunsInv, Next
    PROVE  RunsInv'
<1> SUFFICES ASSUME NEW u \in Updates
             PROVE  Cardinality(RunsFor(u)') <= Cardinality(Takers(u)')
  BY DEF RunsInv
<1>1. TypeOK /\ TypeOK' /\ MaxPollers \in Nat
  BY ConnectorAssumption DEF IInv
<1>2. Takers(u) \subseteq Takers(u)'
  BY <1>1, StepKeeps, TookStays DEF Takers
<1>3. IsFiniteSet(Pollers)
  BY <1>1, FS_Interval DEF Pollers
<1>4. IsFiniteSet(Takers(u)') /\ IsFiniteSet(Takers(u))
  BY <1>3, FS_Subset DEF Takers
<1>5. Cardinality(Takers(u)) \in Nat /\ Cardinality(Takers(u)') \in Nat
  BY <1>4, FS_CardinalityType
<1>6. IsFiniteSet(RunsFor(u)) /\ Cardinality(RunsFor(u)) \in Nat
  <2>1. thread \in Seq(ChatRow) /\ Len(thread) \in Nat /\ DOMAIN thread = 1..Len(thread)
    BY <1>1 DEF TypeOK
  <2>2. IsFiniteSet(1..Len(thread))
    BY <2>1, FS_Interval
  <2>3. RunsFor(u) \subseteq 1..Len(thread)
    BY <2>1 DEF RunsFor
  <2> QED
    BY <2>2, <2>3, FS_Subset, FS_CardinalityType
<1>7. Cardinality(RunsFor(u)) <= Cardinality(Takers(u))
  BY DEF RunsInv
<1>8. CASE RunsFor(u)' = RunsFor(u)
  <2>1. Cardinality(Takers(u)) <= Cardinality(Takers(u)')
    BY <1>2, <1>4, FS_Subset
  <2> QED
    BY <1>5, <1>6, <1>7, <1>8, <2>1
<1>9. ASSUME NEW p \in Pollers, ~Took(p, u), Took(p, u)',
             RunsFor(u)' = RunsFor(u) \cup {Len(thread) + 1}
      PROVE  Cardinality(RunsFor(u)') <= Cardinality(Takers(u)')
  <2>1. p \notin Takers(u) /\ Takers(u) \cup {p} \subseteq Takers(u)'
    BY <1>2, <1>9 DEF Takers
  <2>2. Cardinality(Takers(u) \cup {p}) = Cardinality(Takers(u)) + 1
        /\ IsFiniteSet(Takers(u) \cup {p})
    BY <1>4, <2>1, FS_AddElement
  <2>3. Cardinality(Takers(u) \cup {p}) <= Cardinality(Takers(u)')
    BY <1>4, <2>1, FS_Subset
  <2>4. Cardinality(RunsFor(u)') \in {Cardinality(RunsFor(u)), Cardinality(RunsFor(u)) + 1}
    BY <1>6, <1>9, FS_AddElement
  <2> QED
    BY <1>5, <1>6, <1>7, <2>2, <2>3, <2>4
<1> QED
  BY <1>8, <1>9, RunsMove

LEMMA InitRuns == Init => HandTaken /\ RunsInv
<1> SUFFICES ASSUME Init
             PROVE  HandTaken /\ RunsInv
  OBVIOUS
<1>1. HandTaken
  BY DEF Init, HandTaken, Busy, Gone, Fresh
<1>2. ASSUME NEW u \in Updates
      PROVE  Cardinality(RunsFor(u)) <= Cardinality(Takers(u))
  <2>1. RunsFor(u) = {}
    BY DEF Init, RunsFor
  <2>2. IsFiniteSet(Takers(u))
    <3>1. IsFiniteSet(Pollers)
      BY ConnectorAssumption, FS_Interval DEF Pollers
    <3> QED
      BY <3>1, FS_Subset DEF Takers
  <2> QED
    BY <2>1, <2>2, FS_EmptySet, FS_CardinalityType
<1> QED
  BY <1>1, <1>2 DEF RunsInv

LEMMA AlwaysRuns == Spec => [](HandTaken /\ RunsInv)
<1>1. IInv /\ IInv' /\ HandTaken /\ RunsInv /\ [Next]_vars => (HandTaken /\ RunsInv)'
  <2>1. CASE Next
    BY <2>1, StepKeeps, StepRuns
  <2>2. CASE UNCHANGED vars
    BY <2>2 DEF vars, HandTaken, Busy, RunsInv, RunsFor, Takers, Took, Retired, Current
  <2> QED
    BY <2>1, <2>2
<1> QED
  BY <1>1, InitRuns, AlwaysInv, PTL DEF Spec

\* The assistant runs for a message at most once per poller started: an answer
\* that comes late, a failed reply or a poll that repeats updates adds no run.
THEOREM OneRunAlways == Spec => []OneRunPerPoller
<1>1. IInv /\ RunsInv => OneRunPerPoller
  <2> SUFFICES ASSUME IInv, RunsInv, NEW u \in Updates
               PROVE  Cardinality(RunsFor(u)) <= started
    BY DEF OneRunPerPoller
  <2>1. started \in Nat /\ started <= MaxPollers /\ MaxPollers \in Nat
    BY ConnectorAssumption DEF IInv, TypeOK
  <2>2. Takers(u) \subseteq 1..started
    BY <2>1 DEF Takers, Took, Pollers
  <2>3. IsFiniteSet(1..started) /\ Cardinality(1..started) = started
    BY <2>1, FS_Interval
  <2>4. IsFiniteSet(Takers(u)) /\ Cardinality(Takers(u)) <= started
    BY <2>2, <2>3, FS_Subset
  <2>5. thread \in Seq(ChatRow)
    BY DEF IInv, TypeOK
  <2>6. IsFiniteSet(RunsFor(u))
    BY <2>5, FS_Interval, FS_Subset DEF RunsFor
  <2>7. Cardinality(RunsFor(u)) \in Nat /\ Cardinality(Takers(u)) \in Nat
    BY <2>4, <2>6, FS_CardinalityType
  <2>8. Cardinality(RunsFor(u)) <= Cardinality(Takers(u))
    BY DEF RunsInv
  <2> QED
    BY <2>1, <2>4, <2>7, <2>8
<1> QED
  BY <1>1, AlwaysInv, AlwaysRuns, PTL

===============================================================================
