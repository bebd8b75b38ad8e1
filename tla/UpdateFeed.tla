------------------------------- MODULE UpdateFeed -------------------------------
(***************************************************************************)
(* What a consumer of a feed of numbered updates promises: it confirms an  *)
(* update to the sender, who then forgets it, only when that update and    *)
(* all before it have been dealt with, and nothing dealt with reopens.     *)
(***************************************************************************)
EXTENDS Naturals

CONSTANT Updates    \* the numbers updates may have: 1 .. n

VARIABLES
    confirmed,  \* the last update the sender has forgotten
    settled     \* the updates dealt with

Init ==
    /\ confirmed = 0
    /\ settled = {}

Settle(u) ==
    /\ u \notin settled
    /\ settled' = settled \cup {u}
    /\ UNCHANGED confirmed

Confirm(n) ==
    /\ n > confirmed
    /\ 1..n \subseteq settled
    /\ confirmed' = n
    /\ UNCHANGED settled

Next == \E u \in Updates : Settle(u) \/ Confirm(u)

Spec == Init /\ [][Next]_<<confirmed, settled>>
===============================================================================
