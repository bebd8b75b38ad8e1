-------------------------------- MODULE Invoices --------------------------------
(***************************************************************************)
(* The invoices of one workspace on several devices: drafting, issuing     *)
(* with a fiscal number (NCF), cancelling, renumbering, payments, and the  *)
(* rows' way through the cloud.                                            *)
(*                                                                         *)
(* Each device changes its own database, and most commands queue an outbox *)
(* row for what they changed; the worker sends the rows as they are by     *)
(* then, and each device pulls the cloud's.  The cloud stamps what it      *)
(* stores with its own clock; clocks are taken to agree, so that whether a *)
(* device's copy is at least as new as the cloud's row follows from the    *)
(* order of events.  Amounts are whole cents.                              *)
(***************************************************************************)
EXTENDS Naturals, FiniteSets, FiniteSetsExt

CONSTANTS
    Devices,
    Cloud,          \* the shared database, no device
    Invoices,       \* ids of invoices; an id holds the id of its create command
    PaymentIds,     \* ids of payments; likewise
    Settings,       \* the row of currency_settings, no invoice
    Totals,         \* what an invoice may amount to
    Amounts,        \* what a payment may amount to
    MaxNumber,      \* bound: the last commercial number
    MaxNcf,         \* the last fiscal number of the series
    MaxCommands,    \* bound: commands given, all in all
    MaxFaults       \* bound: commands and pushes cut short

ASSUME InvoicesAssumption ==
    /\ Cloud \notin Devices /\ Settings \notin Invoices
    /\ Totals \subseteq Nat \ {0} /\ Amounts \subseteq Nat \ {0}
    /\ MaxNumber \in Nat /\ MaxNcf \in Nat
    /\ MaxCommands \in Nat /\ MaxFaults \in Nat

Sites == Devices \cup {Cloud}
Documents == Invoices \cup {Settings}

VARIABLES
    bill,       \* the row of every invoice in every database
    ledger,     \* invoice_payments in every database
    counter,    \* ncf_sequence_next in every database
    queued,     \* documents with an outbox row not yet sent
    due,        \* payments with an outbox row not yet sent
    newer,      \* documents whose copy is at least as new as the cloud's
    silent,     \* documents changed since the last exchange without an outbox row
    commands, faults

vars == <<bill, ledger, counter, queued, due, newer, silent, commands, faults>>

Statuses == {"absent", "draft", "issued", "partially_paid", "paid", "cancelled"}

Row == [status : Statuses, number : 0..MaxNumber, ncf : 0..MaxNcf,
        total : Totals \cup {0}, paid : Nat]
Payment == [id : PaymentIds, invoice : Invoices, amount : Amounts]

NoRow == [status |-> "absent", number |-> 0, ncf |-> 0, total |-> 0, paid |-> 0]

Exists(s, i) == bill[s][i].status # "absent"

Init ==
    /\ bill = [s \in Sites |-> [i \in Invoices |-> NoRow]]
    /\ ledger = [s \in Sites |-> {}]
    /\ counter = [s \in Sites |-> 1]
    /\ queued = [d \in Devices |-> {}]
    /\ due = [d \in Devices |-> {}]
    /\ newer = [d \in Devices |-> {Settings}]
    /\ silent = [d \in Devices |-> {}]
    /\ commands = 0 /\ faults = 0

\* The UNIQUE constraints of the invoices table, in both databases.
NumberFree(s, i, n) == \A j \in Invoices \ {i} : Exists(s, j) => bill[s][j].number # n
NcfFree(s, i, n) == n = 0 \/ \A j \in Invoices \ {i} : bill[s][j].ncf # n
MayStore(s, i, row) == NumberFree(s, i, row.number) /\ NcfFree(s, i, row.ncf)

(***************************************************************************)
(* Commands.                                                               *)
(***************************************************************************)

Command == commands < MaxCommands /\ commands' = commands + 1

\* The device writes its row of invoice i, which is newer than the cloud's.
Write(d, i, row) ==
    /\ bill' = [bill EXCEPT ![d][i] = row]
    /\ newer' = [newer EXCEPT ![d] = @ \cup {i}]

WriteAndQueue(d, i, row) ==
    /\ Write(d, i, row)
    /\ queued' = [queued EXCEPT ![d] = @ \cup {i}]
    /\ UNCHANGED silent

\* Number n follows the last one among this device's invoices.
IsNextNumber(d, n) ==
    LET used == {0} \cup {bill[d][j].number : j \in Invoices}
    IN n - 1 \in used /\ \A m \in used : m < n

CreateInvoice(d, i, total) ==
    /\ Command
    /\ \A s \in Sites : ~Exists(s, i)
    /\ \E n \in 1..MaxNumber :
        /\ IsNextNumber(d, n)
        /\ WriteAndQueue(d, i, [status |-> "draft", number |-> n, ncf |-> 0,
                                total |-> total, paid |-> 0])
    /\ UNCHANGED <<ledger, counter, due, faults>>

\* Mutant: an invoice may be edited until it is paid.
MayEditUnpaid(row) == row.status \in {"draft", "issued", "partially_paid"}

MayEdit(row) == row.status = "draft"

UpdateInvoice(d, i, total) ==
    /\ Command
    /\ MayEdit(bill[d][i])
    /\ WriteAndQueue(d, i, [bill[d][i] EXCEPT !.total = total])
    /\ UNCHANGED <<ledger, counter, due, faults>>

\* Mutant: the end of the series is not checked.
NcfSeriesEndless(d) == TRUE

NcfAvailable(d) == counter[d] <= MaxNcf

\* The counter moves under the device's clock, with no outbox row for it.
IssueInvoice(d, i) ==
    /\ Command
    /\ bill[d][i].status = "draft"
    /\ NcfAvailable(d) /\ NcfFree(d, i, counter[d])
    /\ bill' = [bill EXCEPT ![d][i].status = "issued", ![d][i].ncf = counter[d]]
    /\ counter' = [counter EXCEPT ![d] = @ + 1]
    /\ newer' = [newer EXCEPT ![d] = @ \cup {i, Settings}]
    /\ queued' = [queued EXCEPT ![d] = @ \cup {i}]
    /\ silent' = [silent EXCEPT ![d] = @ \cup {Settings}]
    /\ UNCHANGED <<ledger, due, faults>>

\* The three statements are no transaction: the process may die after the first.
CancelInvoice(d, i) ==
    /\ Command
    /\ bill[d][i].status \in {"draft", "issued"}
    /\ LET row == [bill[d][i] EXCEPT !.status = "cancelled"]
       IN \/ /\ WriteAndQueue(d, i, row)
             /\ UNCHANGED faults
          \/ /\ faults < MaxFaults /\ faults' = faults + 1
             /\ Write(d, i, row)
             /\ silent' = [silent EXCEPT ![d] = @ \cup {i}]
             /\ UNCHANGED queued
    /\ UNCHANGED <<ledger, counter, due>>

\* Mutant: the receipts of earlier commands are not looked up.
NeverRepeated(id) == FALSE

\* getExistingReceipt: the command has been carried out before.
Repeated(id) == \E s \in Sites : \E p \in ledger[s] : p.id = id

\* The payment counts on top of what this device's row says is paid.
RecordInvoicePayment(d, p) ==
    LET row == bill[d][p.invoice]
        paid == row.paid + p.amount
    IN /\ Command
       /\ ~Repeated(p.id)
       /\ row.status \in {"issued", "partially_paid"}
       /\ Write(d, p.invoice, [row EXCEPT !.paid = paid,
            !.status = IF paid >= row.total THEN "paid" ELSE "partially_paid"])
       /\ ledger' = [ledger EXCEPT ![d] = @ \cup {p}]
       /\ due' = [due EXCEPT ![d] = @ \cup {p}]
       /\ UNCHANGED <<counter, queued, silent, faults>>

\* No outbox row tells of the new number.
RenumberInvoice(d, i, n) ==
    /\ Command
    /\ Exists(d, i) /\ n # bill[d][i].number
    /\ NumberFree(d, i, n)
    /\ Write(d, i, [bill[d][i] EXCEPT !.number = n])
    /\ silent' = [silent EXCEPT ![d] = @ \cup {i}]
    /\ UNCHANGED <<ledger, counter, queued, due, faults>>

\* The form sends the counter it was filled with, or what the user typed.
UpsertSettings(d, n) ==
    /\ Command
    /\ counter' = [counter EXCEPT ![d] = n]
    /\ newer' = [newer EXCEPT ![d] = @ \cup {Settings}]
    /\ queued' = [queued EXCEPT ![d] = @ \cup {Settings}]
    /\ UNCHANGED <<bill, ledger, due, silent, faults>>

(***************************************************************************)
(* The outbox.                                                             *)
(***************************************************************************)

\* Mutant: the cloud keeps the sender's time, so that other copies stay as new.
StoredUnstamped(d, x) == newer' = newer /\ silent' = [silent EXCEPT ![d] = @ \ {x}]

\* The cloud has stored document x for device d: it is older everywhere now.
Stored(d, x) ==
    /\ newer' = [e \in Devices |-> newer[e] \ {x}]
    /\ silent' = [silent EXCEPT ![d] = @ \ {x}]

PushInvoice(d, i) ==
    /\ i \in queued[d] /\ MayStore(Cloud, i, bill[d][i])
    /\ bill' = [bill EXCEPT ![Cloud][i] = bill[d][i]]
    /\ Stored(d, i)
    /\ queued' = [queued EXCEPT ![d] = @ \ {i}]
    /\ UNCHANGED <<ledger, counter, due, commands, faults>>

\* Mutant: the outbox row is done with once its first request is.
DueAfterInvoice(d, p) == due[d] \ {p}

\* A push cut short before the payment leaves the outbox row to a retry.
DueAfterFailure(d, p) == due[d]

\* The outbox row of a payment sends the invoice's row, then the payment.
PushPayment(d, p) ==
    LET i == p.invoice
    IN /\ p \in due[d] /\ MayStore(Cloud, i, bill[d][i])
       /\ bill' = [bill EXCEPT ![Cloud][i] = bill[d][i]]
       /\ Stored(d, i)
       /\ \/ /\ ledger' = [ledger EXCEPT ![Cloud] = @ \cup {p}]
             /\ due' = [due EXCEPT ![d] = @ \ {p}]
             /\ UNCHANGED faults
          \/ /\ faults < MaxFaults /\ faults' = faults + 1
             /\ due' = [due EXCEPT ![d] = DueAfterFailure(d, p)]
             /\ UNCHANGED ledger
       /\ UNCHANGED <<counter, queued, commands>>

PushSettings(d) ==
    /\ Settings \in queued[d]
    /\ counter' = [counter EXCEPT ![Cloud] = counter[d]]
    /\ Stored(d, Settings)
    /\ queued' = [queued EXCEPT ![d] = @ \ {Settings}]
    /\ UNCHANGED <<bill, ledger, due, commands, faults>>

(***************************************************************************)
(* The pull: applyRows.                                                    *)
(***************************************************************************)

\* Document x is applied: nothing is queued for it and the cloud's is newer.
Applied(d, x) ==
    /\ x \notin queued[d] \cup newer[d]
    /\ newer' = [newer EXCEPT ![d] = @ \cup {x}]
    /\ silent' = [silent EXCEPT ![d] = @ \ {x}]

NoPaymentDue(d, i) == \A p \in due[d] : p.invoice # i

\* A row the constraints refuse stays where it is, and is tried again.
PullInvoice(d, i) ==
    /\ Exists(Cloud, i)
    /\ NoPaymentDue(d, i) /\ MayStore(d, i, bill[Cloud][i])
    /\ Applied(d, i)
    /\ bill' = [bill EXCEPT ![d][i] = bill[Cloud][i]]
    /\ UNCHANGED <<ledger, counter, queued, due, commands, faults>>

\* A pulled payment leaves the invoice's row alone.
PullPayment(d, p) ==
    /\ p \in ledger[Cloud] \ ledger[d] /\ Exists(d, p.invoice)
    /\ ledger' = [ledger EXCEPT ![d] = @ \cup {p}]
    /\ UNCHANGED <<bill, counter, queued, due, newer, silent, commands, faults>>

PullSettings(d) ==
    /\ Applied(d, Settings)
    /\ counter' = [counter EXCEPT ![d] = counter[Cloud]]
    /\ UNCHANGED <<bill, ledger, queued, due, commands, faults>>

Next ==
    \E d \in Devices :
        \/ \E i \in Invoices :
            \/ \E t \in Totals : CreateInvoice(d, i, t) \/ UpdateInvoice(d, i, t)
            \/ IssueInvoice(d, i) \/ CancelInvoice(d, i)
            \/ \E n \in 1..MaxNumber : RenumberInvoice(d, i, n)
            \/ PushInvoice(d, i) \/ PullInvoice(d, i)
        \/ \E p \in Payment : RecordInvoicePayment(d, p) \/ PushPayment(d, p) \/ PullPayment(d, p)
        \/ \E n \in 1..MaxNcf : UpsertSettings(d, n)
        \/ PushSettings(d) \/ PullSettings(d)

Spec == Init /\ [][Next]_vars

-----------------------------------------------------------------------------

\* Every variable has its type.
TypeOK ==
    /\ bill \in [Sites -> [Invoices -> Row]]
    /\ ledger \in [Sites -> SUBSET Payment]
    /\ counter \in [Sites -> 1..MaxNcf + 1]
    /\ queued \in [Devices -> SUBSET Documents] /\ due \in [Devices -> SUBSET Payment]
    /\ newer \in [Devices -> SUBSET Documents] /\ silent \in [Devices -> SUBSET Documents]
    /\ commands \in 0..MaxCommands /\ faults \in 0..MaxFaults

\* Wherever a row has come from, its status, amounts and fiscal number fit
\* together: the status says whether anything, or everything, is paid, and only
\* an issued invoice has payments.
RowFits(row) ==
    /\ row.status \in {"absent", "draft", "cancelled", "issued"} => row.paid = 0
    /\ row.status = "partially_paid" => 0 < row.paid /\ row.paid < row.total
    /\ row.status = "paid" => row.paid >= row.total /\ row.total > 0
    /\ row.status \in {"issued", "partially_paid", "paid"} => row.ncf # 0
    /\ row.status \in {"absent", "draft"} => row.ncf = 0
StatusFitsPayments == \A s \in Sites, i \in Invoices : RowFits(bill[s][i])

\* No database says that more is paid than payments were ever recorded, in
\* whatever order rows and payments cross on their way.
Recorded(i) == {p \in UNION {ledger[s] : s \in Sites} : p.invoice = i}
PaidIsRecorded ==
    \A s \in Sites, i \in Invoices :
        bill[s][i].paid <= MapThenSumSet(LAMBDA p : p.amount, Recorded(i))

\* A payment a device has recorded is in the cloud or on its way there,
\* whatever is cut short.
PaymentsAreKept == \A d \in Devices : ledger[d] \subseteq due[d] \cup ledger[Cloud]

\* A copy that is not older than the cloud's row and has nothing left to send
\* is the cloud's row, unless it was changed with no outbox row (a new number,
\* a cancellation cut short).
Quiet(d, i) == i \in newer[d] \ (queued[d] \cup silent[d]) /\ NoPaymentDue(d, i)
QuietCopiesAgree ==
    \A d \in Devices, i \in Invoices : Quiet(d, i) => bill[d][i] = bill[Cloud][i]

\* The fiscal number of an issued invoice never changes, as the documentation
\* of commercial numbers says.
NcfIsImmutable ==
    [][\A s \in Sites, i \in Invoices :
        bill[s][i].ncf # 0 => bill'[s][i].ncf = bill[s][i].ncf]_vars
===============================================================================
