---------------------------- MODULE MCInvoiceInbox ----------------------------
(* A small instance of InvoiceInbox: one document and one movement to book.  *)
EXTENDS InvoiceInbox
CONSTANTS acct, m1, d1
OneAccount == [m \in Movements |-> acct]
SameText == [m \in Movements |-> "text"]
SmallAmount == [m \in Movements |-> 1]
===============================================================================
