------------------------------- MODULE MCInvoices -------------------------------
(* Instances of Invoices for TLC. *)
EXTENDS Invoices, TLC

CONSTANTS a, b, inv1, inv2, p, q

AnyOrder == Permutations({a, b}) \cup Permutations({p, q}) \cup Permutations({inv1, inv2})
===============================================================================
