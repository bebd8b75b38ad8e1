--------------------------- MODULE TelegramConnector ---------------------------
(***************************************************************************)
(* The Telegram connector of one workspace: pollers that take updates from *)
(* Telegram and hand each private message to the assistant.                *)
(*                                                                         *)
(* A poller asks for the updates from its offset on, which confirms all    *)
(* before it; it moves the offset past an update, processes it and goes on *)
(* to the next.  processTelegramDm writes a receipt when the assistant has *)
(* answered; the poller waits for that, but not for ever: after a time     *)
(* limit the call goes on by itself.  A timer, and every change of the     *)
(* configuration, reconciles the pollers with the configuration.  Offsets, *)
(* pollers and calls live in memory only.                                  *)
(*                                                                         *)
(* Messages come from one sender and go to one chat thread.                *)
(***************************************************************************)
EXTENDS Naturals, Sequences, FiniteSets

CONSTANTS
    Kinds,          \* of the updates of an instance, among AllKinds
    MaxUpdates,     \* bound: updates Telegram receives
    MaxPollers,     \* bound: pollers started over all runs of the process
    MaxChanges,     \* bound: changes of the configuration
    MaxFaults       \* bound: crashes, failed requests and failed replies

\* A voice note may fail to be transcribed; "other" stands for what is not a
\* private message or has no text.
AllKinds == {"text", "voice", "link", "other"}

ASSUME ConnectorAssumption ==
    /\ Kinds \subseteq AllKinds
    /\ MaxUpdates \in Nat /\ MaxPollers \in Nat
    /\ MaxChanges \in Nat /\ MaxFaults \in Nat

VARIABLES
    inbox,      \* the kinds of the updates Telegram has received, in order
    confirmed,  \* Telegram delivers the updates after this one
    status,     \* agent_connector_configs.status
    linked,     \* the sender's account is linked to an internal user
    poller,     \* WorkspacePollerState of every poller started so far
    started,    \* how many that is
    listed,     \* the workspacePollers entry of the workspace, 0 for none
    calls,      \* processTelegramDm calls in progress
    thread,     \* the assistant's rows of the chat thread
    receipt,    \* inbound receipts
    noticed,    \* updates the poller itself has replied to, or tried to
    changes, faults

vars == <<inbox, confirmed, status, linked, poller, started, listed, calls,
          thread, receipt, noticed, changes, faults>>

Updates == 1..MaxUpdates
Pollers == 1..MaxPollers
Sent == 1..Len(inbox)

Phases == {"top", "polling", "batch", "reading", "waiting", "ended"}

\* next and last delimit what is left of the batch in hand.
Poller == [phase : Phases, offset : Nat, next : Nat, last : Nat,
           stop : BOOLEAN, degraded : BOOLEAN]
Fresh == [phase |-> "top", offset |-> 0, next |-> 1, last |-> 0,
          stop |-> FALSE, degraded |-> FALSE]
Gone == [Fresh EXCEPT !.phase = "ended"]

\* Back at the head of the loop nothing is left of the batch.
AtTop(state, degraded) ==
    [state EXCEPT !.phase = "top", !.next = 1, !.last = 0, !.degraded = degraded]

\* While a poller reads or waits for an update, that update is the one before next.
Current(p) == poller[p].next - 1
Busy(p) == poller[p].phase \in {"reading", "waiting"}

Larger(m, n) == IF m > n THEN m ELSE n

Init ==
    /\ inbox = <<>> /\ confirmed = 0
    /\ status = "configured" /\ linked \in BOOLEAN
    /\ poller = [p \in Pollers |-> Gone] /\ started = 0 /\ listed = 0
    /\ calls = {} /\ thread = <<>>
    /\ receipt = [u \in Updates |-> "none"]
    /\ noticed = {}
    /\ changes = 0 /\ faults = 0

\* Telegram receives an update.
Receive(kind) ==
    /\ Len(inbox) < MaxUpdates
    /\ inbox' = Append(inbox, kind)
    /\ UNCHANGED <<confirmed, status, linked, poller, started, listed, calls,
                   thread, receipt, noticed, changes, faults>>

(***************************************************************************)
(* Pollers and configuration.                                              *)
(***************************************************************************)

\* Mutant: the loop is not started again.
NotRevived(state) == [state EXCEPT !.stop = FALSE]

\* A listed poller that has left its loop starts again where it was.
Revived(state) == [state EXCEPT !.phase = "top", !.stop = FALSE]

\* A poller no longer listed is asked to stop, and is forgotten if it has.
Dropped(state) == IF state.phase = "ended" THEN Gone ELSE [state EXCEPT !.stop = TRUE]

\* reconcileWorkspacePollers under the configuration s.
ReconcileTo(s) ==
    \/ /\ s # "configured"
       /\ poller' = [p \in Pollers |->
            IF p = listed THEN Dropped(poller[p]) ELSE poller[p]]
       /\ listed' = 0
       /\ UNCHANGED started
    \/ /\ s = "configured" /\ listed # 0
       /\ poller' = IF poller[listed].phase # "ended" THEN poller
            ELSE [poller EXCEPT ![listed] = Revived(@)]
       /\ UNCHANGED <<listed, started>>
    \/ /\ s = "configured" /\ listed = 0 /\ started < MaxPollers
       /\ started' = started + 1
       /\ listed' = started'
       /\ poller' = [poller EXCEPT ![started'] = Fresh]

\* The timer of scheduleReconcile.
Reconcile ==
    /\ ReconcileTo(status)
    /\ UNCHANGED <<inbox, confirmed, status, linked, calls, thread, receipt,
                   noticed, changes, faults>>

SaveConfig(s) ==
    /\ changes < MaxChanges /\ changes' = changes + 1
    /\ status' = s
    /\ ReconcileTo(s)
    /\ UNCHANGED <<inbox, confirmed, linked, calls, thread, receipt, noticed,
                   faults>>

\* testConnection, or the row as another device has written it: the status
\* changes and nothing reconciles before the timer does.
WriteStatus(s) ==
    /\ changes < MaxChanges /\ changes' = changes + 1
    /\ status' = s
    /\ UNCHANGED <<inbox, confirmed, linked, poller, started, listed, calls,
                   thread, receipt, noticed, faults>>

\* Mutant: rows of calls that died with the process stay as they were.
UntouchedThread == thread

\* reconcileInterruptedThreads: no call survives a restart of the process.
InterruptedThread ==
    [i \in DOMAIN thread |-> IF thread[i].state = "pending"
        THEN [thread[i] EXCEPT !.state = "closed"] ELSE thread[i]]

\* The process dies and starts again.
Crash ==
    /\ faults < MaxFaults /\ faults' = faults + 1
    /\ poller' = [p \in Pollers |-> Gone]
    /\ listed' = 0 /\ calls' = {}
    /\ thread' = InterruptedThread
    /\ UNCHANGED <<inbox, confirmed, status, linked, started, receipt, noticed,
                   changes>>

(***************************************************************************)
(* The loop of a poller.                                                   *)
(***************************************************************************)

\* A stopped poller also removes the workspace's entry, whoever's it is.
StopPoller(p) ==
    /\ poller[p].phase = "top" /\ poller[p].stop
    /\ poller' = [poller EXCEPT ![p] = Gone]
    /\ listed' = 0
    /\ UNCHANGED <<inbox, confirmed, status, linked, started, calls, thread,
                   receipt, noticed, changes, faults>>

\* The head of the loop: leave it, or ask for updates.
BeginPoll(p) ==
    /\ poller[p].phase = "top" /\ ~poller[p].stop
    /\ poller' = [poller EXCEPT ![p].phase =
            IF status = "configured" THEN "polling" ELSE "ended"]
    /\ UNCHANGED <<inbox, confirmed, status, linked, started, listed, calls,
                   thread, receipt, noticed, changes, faults>>

\* Mutant: an offset that forgets the first offset is 0.
ConfirmedByOffset(p) == poller[p].offset - 1

\* getUpdates: an offset confirms all updates before it; the answer holds
\* updates from there on, and is empty only when there are none.
ConfirmedBy(p) == Larger(confirmed, Larger(poller[p].offset, 1) - 1)

Answer(p) ==
    /\ poller[p].phase = "polling"
    /\ confirmed' = ConfirmedBy(p)
    /\ \E last \in 0..Len(inbox) :
        /\ last > confirmed' \/ (last = confirmed' /\ last = Len(inbox))
        /\ poller' = [poller EXCEPT ![p].phase = "batch",
                                    ![p].next = confirmed' + 1, ![p].last = last]
    /\ UNCHANGED <<inbox, status, linked, started, listed, calls, thread,
                   receipt, noticed, changes, faults>>

\* The request fails, before or after Telegram has confirmed.
PollFails(p) ==
    /\ poller[p].phase = "polling"
    /\ faults < MaxFaults /\ faults' = faults + 1
    /\ confirmed' \in {confirmed, ConfirmedBy(p)}
    /\ poller' = [poller EXCEPT ![p].phase = "top", ![p].degraded = TRUE]
    /\ UNCHANGED <<inbox, status, linked, started, listed, calls, thread,
                   receipt, noticed, changes>>

\* Mutant: the offset moves past the whole batch before its first update.
OffsetPastBatch(p) == Larger(poller[p].offset, poller[p].last + 1)

\* Mutant: the offset stays at the update instead of after it.
OffsetAtUpdate(p) == Larger(poller[p].offset, poller[p].next)

OffsetAfter(p) == Larger(poller[p].offset, poller[p].next + 1)

\* The offset moves, then the update is processed.
TakeUpdate(p) ==
    /\ poller[p].phase = "batch" /\ poller[p].next <= poller[p].last
    /\ poller' = [poller EXCEPT
            ![p].offset = OffsetAfter(p), ![p].next = @ + 1,
            ![p].phase = IF inbox[poller[p].next] = "other" THEN "batch" ELSE "reading"]
    /\ UNCHANGED <<inbox, confirmed, status, linked, started, listed, calls,
                   thread, receipt, noticed, changes, faults>>

\* A poller that had been failing writes the status, whatever it is by now.
EndBatch(p) ==
    /\ poller[p].phase = "batch" /\ poller[p].next > poller[p].last
    /\ status' = IF poller[p].degraded THEN "configured" ELSE status
    /\ poller' = [poller EXCEPT ![p] = AtTop(@, FALSE)]
    /\ UNCHANGED <<inbox, confirmed, linked, started, listed, calls, thread,
                   receipt, noticed, changes, faults>>

(***************************************************************************)
(* Processing an update.                                                   *)
(***************************************************************************)

\* sendTelegramReply to update u; where the code does not catch a failed
\* reply, the rest of the batch is left to the next poll.
Reply(p, u, caught) ==
    /\ noticed' = noticed \cup {u}
    /\ \/ /\ poller' = [poller EXCEPT ![p].phase = "batch"]
          /\ UNCHANGED faults
       \/ /\ faults < MaxFaults /\ faults' = faults + 1
          /\ poller' = IF caught THEN [poller EXCEPT ![p].phase = "batch"]
               ELSE [poller EXCEPT ![p] = AtTop(@, TRUE)]

\* resolveTelegramMessageText throws.
Unreadable(p) ==
    LET u == Current(p)
    IN /\ poller[p].phase = "reading" /\ inbox[u] = "voice"
       /\ Reply(p, u, FALSE)
       /\ UNCHANGED <<inbox, confirmed, status, linked, started, listed, calls,
                      thread, receipt, changes>>

\* consumeTelegramLinkToken; a used token only changes the reply.
ConsumeTelegramLinkToken(p) ==
    LET u == Current(p)
    IN /\ poller[p].phase = "reading" /\ inbox[u] = "link"
       /\ linked' = TRUE
       /\ Reply(p, u, TRUE)
       /\ UNCHANGED <<inbox, confirmed, status, started, listed, calls, thread,
                      receipt, changes>>

\* processTelegramDm up to its first await.  Only a message that gets past
\* every check reaches the assistant; a refused one leaves a receipt and no reply.
ProcessTelegramDm(p) ==
    LET u == Current(p)
        refused(why) ==
            /\ receipt' = [receipt EXCEPT ![u] = why]
            /\ poller' = [poller EXCEPT ![p].phase = "batch"]
            /\ UNCHANGED <<calls, thread>>
    IN /\ poller[p].phase = "reading" /\ inbox[u] \in {"text", "voice"}
       /\ \/ receipt[u] # "none" /\ refused(receipt[u])
          \/ receipt[u] = "none" /\ status # "configured" /\ refused("connector_blocked")
          \/ receipt[u] = "none" /\ status = "configured" /\ ~linked /\ refused("linked_required")
          \/ /\ receipt[u] = "none" /\ status = "configured" /\ linked
             /\ thread' = Append(thread, [msg |-> u, state |-> "pending"])
             /\ calls' = calls \cup {[msg |-> u, by |-> p, row |-> Len(thread'),
                                      phase |-> "assistant", awaited |-> TRUE]}
             /\ poller' = [poller EXCEPT ![p].phase = "waiting"]
             /\ UNCHANGED receipt
       /\ UNCHANGED <<inbox, confirmed, status, linked, started, listed, noticed,
                      changes, faults>>

\* sendTurn returns, its row completed or in error, and the receipt is written.
AssistantAnswers(c) ==
    /\ c \in calls /\ c.phase = "assistant"
    /\ thread' = [thread EXCEPT ![c.row].state = "closed"]
    /\ receipt' = [receipt EXCEPT ![c.msg] = "processed"]
    /\ calls' = (calls \ {c}) \cup {[c EXCEPT !.phase = "delivery"]}
    /\ UNCHANGED <<inbox, confirmed, status, linked, poller, started, listed,
                   noticed, changes, faults>>

\* deliverOutboundReply catches a failed delivery; the poller, if it still
\* waits for this call, goes on.
DeliverOutboundReply(c) ==
    /\ c \in calls /\ c.phase = "delivery"
    /\ calls' = calls \ {c}
    /\ poller' = IF c.awaited THEN [poller EXCEPT ![c.by].phase = "batch"] ELSE poller
    /\ UNCHANGED <<inbox, confirmed, status, linked, started, listed, thread,
                   receipt, noticed, changes, faults>>

\* withTimeout gives up on a call, which goes on by itself.
TimeOut(c) ==
    /\ c \in calls /\ c.awaited
    /\ calls' = (calls \ {c}) \cup {[c EXCEPT !.awaited = FALSE]}
    /\ Reply(c.by, c.msg, FALSE)
    /\ UNCHANGED <<inbox, confirmed, status, linked, started, listed, thread,
                   receipt, changes>>

PollerStep(p) ==
    \/ StopPoller(p) \/ BeginPoll(p) \/ Answer(p) \/ TakeUpdate(p)
    \/ EndBatch(p) \/ ConsumeTelegramLinkToken(p) \/ ProcessTelegramDm(p)

CallStep(p) == \E c \in calls : c.by = p /\ (AssistantAnswers(c) \/ DeliverOutboundReply(c))

Next ==
    \/ \E kind \in Kinds : Receive(kind)
    \/ Reconcile
    \/ \E s \in {"configured", "disabled"} : SaveConfig(s) \/ WriteStatus(s)
    \/ Crash
    \/ \E p \in Pollers : PollerStep(p) \/ PollFails(p) \/ Unreadable(p) \/ CallStep(p)
    \/ \E c \in calls : TimeOut(c)

Spec == Init /\ [][Next]_vars

\* The timer fires, requests are answered, the assistant answers or fails;
\* nothing obliges the user, or a failure, to happen.
FairSpec ==
    /\ Spec
    /\ WF_vars(Reconcile)
    /\ \A p \in Pollers : WF_vars(PollerStep(p)) /\ WF_vars(CallStep(p))

-----------------------------------------------------------------------------

Call == [msg : Updates, by : Pollers, row : Nat \ {0},
         phase : {"assistant", "delivery"}, awaited : BOOLEAN]
ChatRow == [msg : Updates, state : {"pending", "closed"}]

\* Every variable has its type.
TypeOK ==
    /\ inbox \in Seq(Kinds) /\ Len(inbox) <= MaxUpdates
    /\ confirmed \in Nat
    /\ status \in {"configured", "disabled"} /\ linked \in BOOLEAN
    /\ poller \in [Pollers -> Poller]
    /\ started \in 0..MaxPollers /\ listed \in 0..started
    /\ calls \in SUBSET Call
    /\ thread \in Seq(ChatRow)
    /\ receipt \in [Updates -> {"none", "connector_blocked", "linked_required", "processed"}]
    /\ noticed \subseteq Updates
    /\ changes \in 0..MaxChanges /\ faults \in 0..MaxFaults

\* An update is settled when nothing more is owed to it: a receipt, a reply of
\* the poller (sent or not), or nothing to answer.
Settled(u) ==
    u \in Sent /\ (inbox[u] = "other" \/ receipt[u] # "none" \/ u \in noticed)

\* Telegram forgets a message only when it is settled, in whatever way pollers
\* overlap, die, fail or give up waiting; and what is settled stays so.
Feed == INSTANCE UpdateFeed WITH settled <- {u \in Sent : Settled(u)}
ImplementsFeed == Feed!Spec

\* A message reaches the assistant at most once per poller: only a restart or
\* a second poller can make the assistant run twice for it.
RunsFor(u) == {i \in DOMAIN thread : thread[i].msg = u}
OneRunPerPoller == \A u \in Updates : Cardinality(RunsFor(u)) <= started

\* A row of the chat is pending exactly while a call will still complete it.
PendingRowsHaveCalls ==
    {i \in DOMAIN thread : thread[i].state = "pending"}
        = {c.row : c \in {k \in calls : k.phase = "assistant"}}

\* The instance's bound on pollers is used up and none is left.
OutOfPollers == started = MaxPollers /\ \A p \in Pollers : poller[p].phase = "ended"

\* While the connector stays configured, every message is settled in the end,
\* although a poller or the process may die with it in hand.
EveryMessageSettles ==
    <>[](status = "configured" /\ ~OutOfPollers) =>
        \A u \in Updates : (u \in Sent) ~> Settled(u)
===============================================================================
