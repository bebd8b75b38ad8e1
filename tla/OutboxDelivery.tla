---------------------------- MODULE OutboxDelivery ----------------------------
(***************************************************************************)
(* What a device's outbox promises, without rows, passes, attempts or      *)
(* clocks: a mutation is submitted once; the cloud may store a submitted   *)
(* mutation at any time; a mutation is acknowledged only after the cloud   *)
(* has stored it, and stays acknowledged; the user may withdraw mutations  *)
(* that are not acknowledged, which does not recall a copy already on its  *)
(* way to the cloud.                                                       *)
(***************************************************************************)
CONSTANT Mutations
VARIABLES submitted, stored, acknowledged, withdrawn

deliveryVars == <<submitted, stored, acknowledged, withdrawn>>

Init ==
    /\ submitted = {}
    /\ stored = {}
    /\ acknowledged = {}
    /\ withdrawn = {}

Submit(m) ==
    /\ m \notin submitted
    /\ submitted' = submitted \cup {m}
    /\ UNCHANGED <<stored, acknowledged, withdrawn>>

\* One snapshot of an entity may carry several mutations.
Store(S) ==
    /\ S \subseteq submitted
    /\ stored' = stored \cup S
    /\ UNCHANGED <<submitted, acknowledged, withdrawn>>

Acknowledge(m) ==
    /\ m \in stored \ withdrawn
    /\ acknowledged' = acknowledged \cup {m}
    /\ UNCHANGED <<submitted, stored, withdrawn>>

Withdraw(S) ==
    /\ S \subseteq submitted \ acknowledged
    /\ withdrawn' = withdrawn \cup S
    /\ UNCHANGED <<submitted, stored, acknowledged>>

Next ==
    \/ \E m \in Mutations : Submit(m) \/ Acknowledge(m)
    \/ \E S \in SUBSET Mutations : Store(S) \/ Withdraw(S)

Spec == Init /\ [][Next]_deliveryVars
===============================================================================
