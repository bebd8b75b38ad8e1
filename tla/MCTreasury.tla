------------------------------ MODULE MCTreasury ------------------------------
(* A small instance of Treasury: one account with one movement.           *)
EXTENDS Treasury
CONSTANTS acct, m1
OneAccount == [m \in Movements |-> acct]
SameText == [m \in Movements |-> "text"]
SmallAmount == [m \in Movements |-> 1]
===============================================================================
