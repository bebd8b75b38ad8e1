---------------------------- MODULE MCTombstonePull ----------------------------
(* An instance of TombstonePull for TLC: a bank account, a statement import  *)
(* of it with one transaction, and the annotation of the transaction.        *)
EXTENDS TombstonePull

CONSTANTS account, import, txn, annotation

ParentOf == [r \in Rows |->
    CASE r = annotation -> txn [] r \in {import, txn} -> account [] OTHER -> NoRow]
BatchOf == [r \in Rows |-> IF r = txn THEN import ELSE NoRow]
MutableRows == {account, annotation}
===============================================================================
