----------------------------- MODULE InvoicesProofs -----------------------------
(***************************************************************************)
(* What holds of the invoices' rows and payments for any number of devices *)
(* and invoices, in every order in which rows cross the cloud.             *)
(*                                                                         *)
(* A row is written whole: every command makes a fitting row of a fitting  *)
(* row, and pushes and pulls only copy rows.  A copy that is as new as the *)
(* cloud's and has nothing to send can then only have come from there.     *)
(* What a row says is paid only grows with the payments recorded for it.   *)
(***************************************************************************)
EXTENDS Invoices, FiniteSetTheorems, WellFoundedInduction, TLAPS

\* RowFits is inductive once an invoice is known to amount to something.
SoundRow(row) ==
    /\ row \in Row /\ RowFits(row)
    /\ row.status # "absent" => row.total \in Totals

BillsAreSound ==
    /\ bill \in [Sites -> [Invoices -> Row]]
    /\ \A s \in Sites, i \in Invoices : SoundRow(bill[s][i])

LEMMA SitesHaveDevices == Devices \subseteq Sites /\ Cloud \in Sites
  BY DEF Sites

\* A sound row in one place leaves all rows sound.
LEMMA StoringKeepsBills ==
    ASSUME BillsAreSound, NEW s \in Sites, NEW i \in Invoices, NEW row, SoundRow(row),
           bill' = [bill EXCEPT ![s][i] = row]
    PROVE  BillsAreSound'
<1>1. row \in Row
  BY DEF SoundRow
<1>2. bill' \in [Sites -> [Invoices -> Row]]
  BY <1>1 DEF BillsAreSound
<1>3. \A t \in Sites, j \in Invoices :
        bill'[t][j] = IF t = s /\ j = i THEN row ELSE bill[t][j]
  BY DEF BillsAreSound
<1> QED
  BY <1>2, <1>3 DEF BillsAreSound

\* Every command makes a sound row of a sound one.
LEMMA NewRowIsSound ==
    ASSUME NEW n \in 1..MaxNumber, NEW t \in Totals
    PROVE  SoundRow([status |-> "draft", number |-> n, ncf |-> 0, total |-> t, paid |-> 0])
  BY InvoicesAssumption DEF SoundRow, RowFits, Row, Statuses

LEMMA EditedRowIsSound ==
    ASSUME NEW row, SoundRow(row), MayEdit(row), NEW t \in Totals
    PROVE  SoundRow([row EXCEPT !.total = t])
<1> DEFINE new == [row EXCEPT !.total = t]
<1>1. row \in Row /\ row.status = "draft"
  BY DEF SoundRow, MayEdit
<1>2. /\ new \in Row /\ new.status = "draft" /\ new.total = t
      /\ new.ncf = row.ncf /\ new.paid = row.paid
  BY <1>1 DEF Row, Statuses
<1>3. row.ncf = 0 /\ row.paid = 0
  BY <1>1 DEF SoundRow, RowFits
<1> HIDE DEF new
<1>4. SoundRow(new)
  BY <1>2, <1>3 DEF SoundRow, RowFits
<1> QED
  BY <1>4 DEF new

LEMMA IssuedRowIsSound ==
    ASSUME NEW row, SoundRow(row), row.status = "draft", NEW n \in 1..MaxNcf,
           NEW new, new = [row EXCEPT !.status = "issued", !.ncf = n]
    PROVE  SoundRow(new)
<1>1. row \in Row /\ row.total \in Totals /\ row.paid = 0
  BY DEF SoundRow, RowFits
<1>2. /\ new.status = "issued" /\ new.ncf = n /\ new.total = row.total
      /\ new.paid = row.paid
  BY <1>1 DEF Row
<1>3. new \in Row
  <2>1. [row EXCEPT !.status = "issued"] \in Row
    BY <1>1 DEF Row, Statuses
  <2>2. n \in 0..MaxNcf
    BY InvoicesAssumption
  <2> QED
    BY <2>1, <2>2 DEF Row
<1> QED
  BY <1>1, <1>2, <1>3, InvoicesAssumption DEF SoundRow, RowFits

LEMMA CancelledRowIsSound ==
    ASSUME NEW row, SoundRow(row), row.status \in {"draft", "issued"}
    PROVE  SoundRow([row EXCEPT !.status = "cancelled"])
  BY InvoicesAssumption DEF SoundRow, RowFits, Row, Statuses

LEMMA RenumberedRowIsSound ==
    ASSUME NEW row, SoundRow(row), NEW n \in 1..MaxNumber
    PROVE  SoundRow([row EXCEPT !.number = n])
  BY InvoicesAssumption DEF SoundRow, RowFits, Row, Statuses

LEMMA PaidRowIsSound ==
    ASSUME NEW row, SoundRow(row), row.status \in {"issued", "partially_paid"},
           NEW amount \in Amounts, NEW new,
           new = [row EXCEPT !.paid = row.paid + amount, !.status =
             IF row.paid + amount >= row.total THEN "paid" ELSE "partially_paid"]
    PROVE  SoundRow(new)
<1>1. row \in Row /\ row.total \in Totals /\ row.ncf # 0
  BY DEF SoundRow, RowFits
<1>2. amount \in Nat \ {0} /\ row.total \in Nat \ {0} /\ row.paid \in Nat
  BY <1>1, InvoicesAssumption DEF Row
<1>3. /\ new.total = row.total /\ new.ncf = row.ncf /\ new.paid = row.paid + amount
      /\ new.status = IF new.paid >= new.total THEN "paid" ELSE "partially_paid"
  BY <1>1, <1>2 DEF Row
<1>4. new \in Row
  <2>1. [row EXCEPT !.paid = row.paid + amount] \in Row
    BY <1>1, <1>2 DEF Row
  <2> QED
    BY <2>1 DEF Row, Statuses
<1> QED
  BY <1>1, <1>2, <1>3, <1>4 DEF SoundRow, RowFits

LEMMA BillsStaySound ==
    ASSUME TypeOK, BillsAreSound, [Next]_vars
    PROVE  BillsAreSound'
<1>1. ASSUME NEW d \in Devices, NEW i \in Invoices, NEW t \in Totals, CreateInvoice(d, i, t)
      PROVE  BillsAreSound'
  <2>1. PICK n \in 1..MaxNumber : bill' = [bill EXCEPT ![d][i] =
          [status |-> "draft", number |-> n, ncf |-> 0, total |-> t, paid |-> 0]]
    BY <1>1 DEF CreateInvoice, WriteAndQueue, Write
  <2> QED
    BY <2>1, NewRowIsSound, StoringKeepsBills, SitesHaveDevices
<1>2. ASSUME NEW d \in Devices, NEW i \in Invoices, NEW t \in Totals, UpdateInvoice(d, i, t)
      PROVE  BillsAreSound'
  <2>1. bill' = [bill EXCEPT ![d][i] = [bill[d][i] EXCEPT !.total = t]]
    BY <1>2 DEF UpdateInvoice, WriteAndQueue, Write
  <2>2. SoundRow([bill[d][i] EXCEPT !.total = t])
    BY <1>2, EditedRowIsSound, SitesHaveDevices DEF UpdateInvoice, BillsAreSound
  <2> QED
    BY <2>1, <2>2, StoringKeepsBills, SitesHaveDevices
<1>3. ASSUME NEW d \in Devices, NEW i \in Invoices, IssueInvoice(d, i)
      PROVE  BillsAreSound'
  <2> DEFINE new == [bill[d][i] EXCEPT !.status = "issued", !.ncf = counter[d]]
  <2>1. bill' = [bill EXCEPT ![d][i] = new]
    BY <1>3, SitesHaveDevices DEF IssueInvoice, BillsAreSound
  <2>2. counter[d] \in 1..MaxNcf
    BY <1>3, InvoicesAssumption, SitesHaveDevices DEF IssueInvoice, NcfAvailable, TypeOK
  <2>3. SoundRow(new)
    BY <1>3, <2>2, IssuedRowIsSound, SitesHaveDevices DEF IssueInvoice, BillsAreSound
  <2> QED
    BY <2>1, <2>3, StoringKeepsBills, SitesHaveDevices
<1>4. ASSUME NEW d \in Devices, NEW i \in Invoices, CancelInvoice(d, i)
      PROVE  BillsAreSound'
  <2>1. bill' = [bill EXCEPT ![d][i] = [bill[d][i] EXCEPT !.status = "cancelled"]]
    BY <1>4 DEF CancelInvoice, WriteAndQueue, Write
  <2>2. SoundRow([bill[d][i] EXCEPT !.status = "cancelled"])
    BY <1>4, CancelledRowIsSound, SitesHaveDevices DEF CancelInvoice, BillsAreSound
  <2> QED
    BY <2>1, <2>2, StoringKeepsBills, SitesHaveDevices
<1>5. ASSUME NEW d \in Devices, NEW i \in Invoices, NEW n \in 1..MaxNumber, RenumberInvoice(d, i, n)
      PROVE  BillsAreSound'
  <2>1. bill' = [bill EXCEPT ![d][i] = [bill[d][i] EXCEPT !.number = n]]
    BY <1>5 DEF RenumberInvoice, Write
  <2>2. SoundRow([bill[d][i] EXCEPT !.number = n])
    BY RenumberedRowIsSound, SitesHaveDevices DEF BillsAreSound
  <2> QED
    BY <2>1, <2>2, StoringKeepsBills, SitesHaveDevices
<1>6. ASSUME NEW d \in Devices, NEW i \in Invoices, PushInvoice(d, i)
      PROVE  BillsAreSound'
  BY <1>6, StoringKeepsBills, SitesHaveDevices DEF PushInvoice, BillsAreSound
<1>7. ASSUME NEW d \in Devices, NEW i \in Invoices, PullInvoice(d, i)
      PROVE  BillsAreSound'
  BY <1>7, StoringKeepsBills, SitesHaveDevices DEF PullInvoice, BillsAreSound
<1>8. ASSUME NEW d \in Devices, NEW p \in Payment, RecordInvoicePayment(d, p)
      PROVE  BillsAreSound'
  <2> DEFINE row == bill[d][p.invoice]
             new == [row EXCEPT !.paid = row.paid + p.amount, !.status =
               IF row.paid + p.amount >= row.total THEN "paid" ELSE "partially_paid"]
  <2>1. p.invoice \in Invoices /\ p.amount \in Amounts
    BY DEF Payment
  <2>2. bill' = [bill EXCEPT ![d][p.invoice] = new]
    BY <1>8 DEF RecordInvoicePayment, Write
  <2>3. SoundRow(new)
    BY <1>8, <2>1, PaidRowIsSound, SitesHaveDevices DEF RecordInvoicePayment, BillsAreSound
  <2> QED
    BY <2>1, <2>2, <2>3, StoringKeepsBills, SitesHaveDevices
<1>9. ASSUME NEW d \in Devices, NEW p \in Payment, PushPayment(d, p)
      PROVE  BillsAreSound'
  <2>1. p.invoice \in Invoices
    BY DEF Payment
  <2> QED
    BY <1>9, <2>1, StoringKeepsBills, SitesHaveDevices DEF PushPayment, BillsAreSound
<1>10. ASSUME NEW d \in Devices, NEW p \in Payment, PullPayment(d, p)
      PROVE  BillsAreSound'
  BY <1>10 DEF PullPayment, BillsAreSound
<1>11. ASSUME NEW d \in Devices, NEW n \in 1..MaxNcf, UpsertSettings(d, n)
      PROVE  BillsAreSound'
  BY <1>11 DEF UpsertSettings, BillsAreSound
<1>12. ASSUME NEW d \in Devices, PushSettings(d)
      PROVE  BillsAreSound'
  BY <1>12 DEF PushSettings, BillsAreSound
<1>13. ASSUME NEW d \in Devices, PullSettings(d)
      PROVE  BillsAreSound'
  BY <1>13 DEF PullSettings, BillsAreSound
<1>14. CASE UNCHANGED vars
  BY <1>14 DEF vars, BillsAreSound
<1> QED
  BY <1>1, <1>2, <1>3, <1>4, <1>5, <1>6, <1>7,
     <1>8, <1>9, <1>10, <1>11, <1>12, <1>13, <1>14 DEF Next

\* What TypeOK says of the variables other than the rows.
RestTyped ==
    /\ ledger \in [Sites -> SUBSET Payment]
    /\ counter \in [Sites -> 1..MaxNcf + 1]
    /\ queued \in [Devices -> SUBSET Documents] /\ due \in [Devices -> SUBSET Payment]
    /\ newer \in [Devices -> SUBSET Documents] /\ silent \in [Devices -> SUBSET Documents]
    /\ commands \in 0..MaxCommands /\ faults \in 0..MaxFaults

LEMMA TypesStay ==
    ASSUME RestTyped, [Next]_vars
    PROVE  RestTyped'
<1>1. ASSUME NEW d \in Devices, NEW i \in Invoices, NEW t \in Totals, CreateInvoice(d, i, t)
      PROVE  RestTyped'
  BY <1>1, InvoicesAssumption DEF CreateInvoice, RestTyped, Command, WriteAndQueue, Write, Documents
<1>2. ASSUME NEW d \in Devices, NEW i \in Invoices, NEW t \in Totals, UpdateInvoice(d, i, t)
      PROVE  RestTyped'
  BY <1>2, InvoicesAssumption DEF UpdateInvoice, RestTyped, Command, WriteAndQueue, Write, Documents
<1>3. ASSUME NEW d \in Devices, NEW i \in Invoices, IssueInvoice(d, i)
      PROVE  RestTyped'
  BY <1>3, InvoicesAssumption DEF IssueInvoice, RestTyped, Command, NcfAvailable, Documents, Sites
<1>4. ASSUME NEW d \in Devices, NEW i \in Invoices, CancelInvoice(d, i)
      PROVE  RestTyped'
  BY <1>4, InvoicesAssumption DEF CancelInvoice, RestTyped, Command, WriteAndQueue, Write, Documents
<1>5. ASSUME NEW d \in Devices, NEW i \in Invoices, NEW n \in 1..MaxNumber, RenumberInvoice(d, i, n)
      PROVE  RestTyped'
  BY <1>5, InvoicesAssumption DEF RenumberInvoice, RestTyped, Command, Write, Documents
<1>6. ASSUME NEW d \in Devices, NEW i \in Invoices, PushInvoice(d, i)
      PROVE  RestTyped'
  BY <1>6, InvoicesAssumption DEF PushInvoice, RestTyped, Stored
<1>7. ASSUME NEW d \in Devices, NEW i \in Invoices, PullInvoice(d, i)
      PROVE  RestTyped'
  BY <1>7, InvoicesAssumption DEF PullInvoice, RestTyped, Applied, Documents
<1>8. ASSUME NEW d \in Devices, NEW p \in Payment, RecordInvoicePayment(d, p)
      PROVE  RestTyped'
  BY <1>8, InvoicesAssumption DEF RecordInvoicePayment, RestTyped, Command, Write, Documents, Payment, Sites
<1>9. ASSUME NEW d \in Devices, NEW p \in Payment, PushPayment(d, p)
      PROVE  RestTyped'
  BY <1>9, InvoicesAssumption DEF PushPayment, RestTyped, Stored, Sites, DueAfterFailure
<1>10. ASSUME NEW d \in Devices, NEW p \in Payment, PullPayment(d, p)
      PROVE  RestTyped'
  BY <1>10, InvoicesAssumption DEF PullPayment, RestTyped, Sites
<1>11. ASSUME NEW d \in Devices, NEW n \in 1..MaxNcf, UpsertSettings(d, n)
      PROVE  RestTyped'
  BY <1>11, InvoicesAssumption DEF UpsertSettings, RestTyped, Command, Documents, Sites
<1>12. ASSUME NEW d \in Devices, PushSettings(d)
      PROVE  RestTyped'
  BY <1>12, InvoicesAssumption DEF PushSettings, RestTyped, Stored, Sites
<1>13. ASSUME NEW d \in Devices, PullSettings(d)
      PROVE  RestTyped'
  BY <1>13, InvoicesAssumption DEF PullSettings, RestTyped, Applied, Documents, Sites
<1>14. CASE UNCHANGED vars
  BY <1>14, InvoicesAssumption DEF vars, RestTyped
<1> QED
  BY <1>1, <1>2, <1>3, <1>4, <1>5, <1>6, <1>7,
     <1>8, <1>9, <1>10, <1>11, <1>12, <1>13, <1>14 DEF Next

LEMMA PaymentsStay ==
    ASSUME RestTyped, PaymentsAreKept, [Next]_vars
    PROVE  PaymentsAreKept'
<1>1. ASSUME NEW d \in Devices, NEW i \in Invoices, NEW t \in Totals, CreateInvoice(d, i, t)
      PROVE  PaymentsAreKept'
  BY <1>1, SitesHaveDevices, InvoicesAssumption DEF CreateInvoice, RestTyped, PaymentsAreKept, WriteAndQueue, Write
<1>2. ASSUME NEW d \in Devices, NEW i \in Invoices, NEW t \in Totals, UpdateInvoice(d, i, t)
      PROVE  PaymentsAreKept'
  BY <1>2, SitesHaveDevices, InvoicesAssumption DEF UpdateInvoice, RestTyped, PaymentsAreKept
<1>3. ASSUME NEW d \in Devices, NEW i \in Invoices, IssueInvoice(d, i)
      PROVE  PaymentsAreKept'
  BY <1>3, SitesHaveDevices, InvoicesAssumption DEF IssueInvoice, RestTyped, PaymentsAreKept
<1>4. ASSUME NEW d \in Devices, NEW i \in Invoices, CancelInvoice(d, i)
      PROVE  PaymentsAreKept'
  BY <1>4, SitesHaveDevices, InvoicesAssumption DEF CancelInvoice, RestTyped, PaymentsAreKept
<1>5. ASSUME NEW d \in Devices, NEW i \in Invoices, NEW n \in 1..MaxNumber, RenumberInvoice(d, i, n)
      PROVE  PaymentsAreKept'
  BY <1>5, SitesHaveDevices, InvoicesAssumption DEF RenumberInvoice, RestTyped, PaymentsAreKept
<1>6. ASSUME NEW d \in Devices, NEW i \in Invoices, PushInvoice(d, i)
      PROVE  PaymentsAreKept'
  BY <1>6, SitesHaveDevices, InvoicesAssumption DEF PushInvoice, RestTyped, PaymentsAreKept
<1>7. ASSUME NEW d \in Devices, NEW i \in Invoices, PullInvoice(d, i)
      PROVE  PaymentsAreKept'
  BY <1>7, SitesHaveDevices, InvoicesAssumption DEF PullInvoice, RestTyped, PaymentsAreKept
<1>8. ASSUME NEW d \in Devices, NEW p \in Payment, RecordInvoicePayment(d, p)
      PROVE  PaymentsAreKept'
  BY <1>8, SitesHaveDevices, InvoicesAssumption DEF RecordInvoicePayment, RestTyped, PaymentsAreKept
<1>9. ASSUME NEW d \in Devices, NEW p \in Payment, PushPayment(d, p)
      PROVE  PaymentsAreKept'
  BY <1>9, SitesHaveDevices, InvoicesAssumption DEF PushPayment, RestTyped, PaymentsAreKept, DueAfterFailure
<1>10. ASSUME NEW d \in Devices, NEW p \in Payment, PullPayment(d, p)
      PROVE  PaymentsAreKept'
  BY <1>10, SitesHaveDevices, InvoicesAssumption DEF PullPayment, RestTyped, PaymentsAreKept
<1>11. ASSUME NEW d \in Devices, NEW n \in 1..MaxNcf, UpsertSettings(d, n)
      PROVE  PaymentsAreKept'
  BY <1>11, SitesHaveDevices, InvoicesAssumption DEF UpsertSettings, RestTyped, PaymentsAreKept
<1>12. ASSUME NEW d \in Devices, PushSettings(d)
      PROVE  PaymentsAreKept'
  BY <1>12, SitesHaveDevices, InvoicesAssumption DEF PushSettings, RestTyped, PaymentsAreKept
<1>13. ASSUME NEW d \in Devices, PullSettings(d)
      PROVE  PaymentsAreKept'
  BY <1>13, SitesHaveDevices, InvoicesAssumption DEF PullSettings, RestTyped, PaymentsAreKept
<1>14. CASE UNCHANGED vars
  BY <1>14 DEF vars, RestTyped, PaymentsAreKept
<1> QED
  BY <1>1, <1>2, <1>3, <1>4, <1>5, <1>6, <1>7,
     <1>8, <1>9, <1>10, <1>11, <1>12, <1>13, <1>14 DEF Next

\* A step that changes a copy, or the cloud's row, leaves it older, queued,
\* or changed without a word; a pull makes the two rows one.
Agrees(e, j) == Quiet(e, j) => bill[e][j] = bill[Cloud][j]

LEMMA CopiesStay ==
    ASSUME RestTyped, BillsAreSound, QuietCopiesAgree, [Next]_vars
    PROVE  QuietCopiesAgree'
<1> SUFFICES ASSUME NEW e \in Devices, NEW j \in Invoices, Agrees(e, j)
             PROVE  Agrees(e, j)'
  BY DEF QuietCopiesAgree, Agrees
<1>1. ASSUME NEW d \in Devices, NEW i \in Invoices, NEW t \in Totals, CreateInvoice(d, i, t)
      PROVE  Agrees(e, j)'
  BY <1>1, SitesHaveDevices, InvoicesAssumption
  DEF CreateInvoice, RestTyped, BillsAreSound, Agrees, Quiet, NoPaymentDue, WriteAndQueue, Write
<1>2. ASSUME NEW d \in Devices, NEW i \in Invoices, NEW t \in Totals, UpdateInvoice(d, i, t)
      PROVE  Agrees(e, j)'
  BY <1>2, SitesHaveDevices, InvoicesAssumption
  DEF UpdateInvoice, RestTyped, BillsAreSound, Agrees, Quiet, NoPaymentDue, WriteAndQueue, Write
<1>3. ASSUME NEW d \in Devices, NEW i \in Invoices, IssueInvoice(d, i)
      PROVE  Agrees(e, j)'
  BY <1>3, SitesHaveDevices, InvoicesAssumption
  DEF IssueInvoice, RestTyped, BillsAreSound, Agrees, Quiet, NoPaymentDue
<1>4. ASSUME NEW d \in Devices, NEW i \in Invoices, CancelInvoice(d, i)
      PROVE  Agrees(e, j)'
  <2>1. /\ bill' = [bill EXCEPT ![d][i] = [bill[d][i] EXCEPT !.status = "cancelled"]]
        /\ newer' = [newer EXCEPT ![d] = @ \cup {i}] /\ UNCHANGED due
        /\ \/ queued' = [queued EXCEPT ![d] = @ \cup {i}] /\ UNCHANGED silent
           \/ silent' = [silent EXCEPT ![d] = @ \cup {i}] /\ UNCHANGED queued
    BY <1>4 DEF CancelInvoice, WriteAndQueue, Write
  <2>2. CASE e = d /\ j = i
    <3>1. i \in queued'[d] \cup silent'[d]
      BY <2>1 DEF RestTyped
    <3> QED
      BY <2>2, <3>1 DEF Agrees, Quiet
  <2>3. CASE e # d \/ j # i
    <3>1. bill'[e][j] = bill[e][j] /\ bill'[Cloud][j] = bill[Cloud][j]
      BY <2>1, <2>3, SitesHaveDevices, InvoicesAssumption DEF BillsAreSound
    <3>2. Quiet(e, j)' => Quiet(e, j)
      BY <2>1, <2>3 DEF RestTyped, Quiet, NoPaymentDue
    <3> QED
      BY <3>1, <3>2 DEF Agrees
  <2> QED
    BY <2>2, <2>3
<1>5. ASSUME NEW d \in Devices, NEW i \in Invoices, NEW n \in 1..MaxNumber, RenumberInvoice(d, i, n)
      PROVE  Agrees(e, j)'
  BY <1>5, SitesHaveDevices, InvoicesAssumption
  DEF RenumberInvoice, RestTyped, BillsAreSound, Agrees, Quiet, NoPaymentDue, Write
<1>6. ASSUME NEW d \in Devices, NEW i \in Invoices, PushInvoice(d, i)
      PROVE  Agrees(e, j)'
  BY <1>6, SitesHaveDevices, InvoicesAssumption
  DEF PushInvoice, RestTyped, BillsAreSound, Agrees, Quiet, NoPaymentDue, Stored
<1>7. ASSUME NEW d \in Devices, NEW i \in Invoices, PullInvoice(d, i)
      PROVE  Agrees(e, j)'
  BY <1>7, SitesHaveDevices, InvoicesAssumption
  DEF PullInvoice, RestTyped, BillsAreSound, Agrees, Quiet, NoPaymentDue, Applied
<1>8. ASSUME NEW d \in Devices, NEW p \in Payment, RecordInvoicePayment(d, p)
      PROVE  Agrees(e, j)'
  BY <1>8, SitesHaveDevices, InvoicesAssumption
  DEF RecordInvoicePayment, RestTyped, BillsAreSound, Agrees, Quiet, NoPaymentDue, Write, Payment
<1>9. ASSUME NEW d \in Devices, NEW p \in Payment, PushPayment(d, p)
      PROVE  Agrees(e, j)'
  BY <1>9, SitesHaveDevices, InvoicesAssumption
  DEF PushPayment, RestTyped, BillsAreSound, Agrees, Quiet, NoPaymentDue, Stored, Payment, DueAfterFailure
<1>10. ASSUME NEW d \in Devices, NEW p \in Payment, PullPayment(d, p)
      PROVE  Agrees(e, j)'
  BY <1>10, SitesHaveDevices, InvoicesAssumption
  DEF PullPayment, RestTyped, BillsAreSound, Agrees, Quiet, NoPaymentDue
<1>11. ASSUME NEW d \in Devices, NEW n \in 1..MaxNcf, UpsertSettings(d, n)
      PROVE  Agrees(e, j)'
  BY <1>11, SitesHaveDevices, InvoicesAssumption
  DEF UpsertSettings, RestTyped, BillsAreSound, Agrees, Quiet, NoPaymentDue
<1>12. ASSUME NEW d \in Devices, PushSettings(d)
      PROVE  Agrees(e, j)'
  BY <1>12, SitesHaveDevices, InvoicesAssumption
  DEF PushSettings, RestTyped, BillsAreSound, Agrees, Quiet, NoPaymentDue, Stored
<1>13. ASSUME NEW d \in Devices, PullSettings(d)
      PROVE  Agrees(e, j)'
  BY <1>13, SitesHaveDevices, InvoicesAssumption
  DEF PullSettings, RestTyped, BillsAreSound, Agrees, Quiet, NoPaymentDue, Applied
<1>14. CASE UNCHANGED vars
  BY <1>14
  DEF vars, RestTyped, BillsAreSound, Agrees, Quiet, NoPaymentDue
<1> QED
  BY <1>1, <1>2, <1>3, <1>4, <1>5, <1>6, <1>7,
     <1>8, <1>9, <1>10, <1>11, <1>12, <1>13, <1>14 DEF Next

-----------------------------------------------------------------------------

(***************************************************************************)
(* Sums of amounts.  The fold over a set is defined through the function   *)
(* of its subsets that adds one chosen element to the sum of the others;   *)
(* that there is one follows by induction on the number of elements, in    *)
(* the form that every set of numbers has a least one.                     *)
(***************************************************************************)

LEMMA LeastNumber ==
    ASSUME NEW T \in SUBSET Nat, T # {}
    PROVE  \E n \in T : \A m \in T : n <= m
<1> DEFINE less == OpToRel(<, Nat)
<1>1. IsWellFoundedOn(less, Nat)
  BY NatLessThanWellFounded
<1>2. \A m, n \in Nat : m < n => <<m, n>> \in less
  BY DEF OpToRel
<1> HIDE DEF less
<1>3. PICK n \in T : \A m \in T : <<m, n>> \notin less
  BY <1>1, WFMin
<1>4. ASSUME NEW m \in T
      PROVE  n <= m
  <2>1. m \in Nat /\ n \in Nat
    OBVIOUS
  <2>2. ~(m < n)
    BY <1>2, <1>3, <2>1
  <2> QED
    BY <2>1, <2>2
<1> QED
  BY <1>4

SumOf(S) == MapThenSumSet(LAMBDA p : p.amount, S)

\* The sum over s that f gives when it is right about smaller sets.
Step(f, s) == IF s = {} THEN 0 ELSE (CHOOSE p \in s : TRUE).amount + f[s \ {CHOOSE p \in s : TRUE}]

Sums(f, S) == f = [s \in SUBSET S |-> Step(f, s)]

LEMMA SumIsFold ==
    ASSUME NEW S
    PROVE  SumOf(S) = (CHOOSE f : Sums(f, S))[S]
BY DEF SumOf, MapThenSumSet, MapThenFoldSet, Sums, Step

LEMMA Smaller ==
    ASSUME NEW S, IsFiniteSet(S), NEW s \in SUBSET S
    PROVE  /\ Cardinality(s) \in Nat /\ (Cardinality(s) = 0 <=> s = {})
           /\ \A p \in s : s \ {p} \in SUBSET S /\ Cardinality(s \ {p}) = Cardinality(s) - 1
<1>1. IsFiniteSet(s)
  BY FS_Subset
<1> QED
  BY <1>1, FS_CardinalityType, FS_EmptySet, FS_RemoveElement

\* What a set says of all smaller subsets holds of all subsets.
LEMMA SubsetsBySize ==
    ASSUME NEW S, IsFiniteSet(S), NEW Bad \in SUBSET (SUBSET S), Bad # {}
    PROVE  \E s \in Bad : \A t \in SUBSET S : Cardinality(t) < Cardinality(s) => t \notin Bad
<1> DEFINE sizes == {Cardinality(s) : s \in Bad}
<1>1. sizes \in SUBSET Nat /\ sizes # {}
  BY Smaller
<1>2. PICK n \in sizes : \A m \in sizes : n <= m
  BY <1>1, LeastNumber
<1>3. PICK s \in Bad : n = Cardinality(s)
  BY <1>2
<1>4. ASSUME NEW t \in SUBSET S, Cardinality(t) < Cardinality(s), t \in Bad
      PROVE  FALSE
  <2>1. Cardinality(t) \in sizes
    BY <1>4
  <2>2. Cardinality(t) \in Nat /\ Cardinality(s) \in Nat
    BY Smaller
  <2> QED
    BY <1>2, <1>3, <1>4, <2>1, <2>2
<1> QED
  BY <1>3, <1>4

First(s) == CHOOSE p \in s : TRUE

LEMMA FirstIn == ASSUME NEW s, s # {} PROVE First(s) \in s
BY DEF First

\* f is right about the subsets of S of at most n elements.
RightUpTo(f, n, S) ==
    /\ f = [s \in SUBSET S |-> f[s]]
    /\ \A s \in SUBSET S : Cardinality(s) <= n => f[s] = Step(f, s)

Known(S) == {n \in Nat : \E f : RightUpTo(f, n, S)}

LEMMA OneMoreIsKnown ==
    ASSUME NEW S, IsFiniteSet(S), NEW n \in Known(S)
    PROVE  n + 1 \in Known(S)
<1>1. n \in Nat /\ \E g : RightUpTo(g, n, S)
  BY DEF Known
<1>2. PICK g : RightUpTo(g, n, S)
  BY <1>1
<1> DEFINE f == [s \in SUBSET S |-> Step(g, s)]
<1>3. ASSUME NEW s \in SUBSET S, Cardinality(s) <= n
      PROVE  f[s] = g[s]
  BY <1>2, <1>3 DEF RightUpTo
<1>4. \A s \in SUBSET S : f[s] = Step(g, s)
  OBVIOUS
<1>5. f = [s \in SUBSET S |-> f[s]]
  OBVIOUS
<1> HIDE DEF f
<1>6. ASSUME NEW s \in SUBSET S, Cardinality(s) <= n + 1
      PROVE  f[s] = Step(f, s)
  <2>1. CASE s = {}
    BY <1>4, <2>1 DEF Step
  <2>2. CASE s # {}
    <3>1. First(s) \in s
      BY <2>2, FirstIn
    <3>2. s \ {First(s)} \in SUBSET S /\ Cardinality(s \ {First(s)}) <= n
      BY <1>1, <1>6, <3>1, Smaller
    <3>3. f[s \ {First(s)}] = g[s \ {First(s)}]
      BY <1>3, <3>2
    <3>4. f[s] = Step(g, s)
      BY <1>4
    <3> QED
      BY <2>2, <3>3, <3>4 DEF Step, First
  <2> QED
    BY <2>1, <2>2
<1>7. RightUpTo(f, n + 1, S)
  BY <1>5, <1>6 DEF RightUpTo
<1>8. \E h : RightUpTo(h, n + 1, S)
  BY <1>7
<1> QED
  BY <1>1, <1>8 DEF Known

\* Some function is right about all subsets of a finite set.
LEMMA SumExists ==
    ASSUME NEW S, IsFiniteSet(S)
    PROVE  \E f : Sums(f, S)
<1>1. 0 \in Known(S)
  <2> DEFINE f == [s \in SUBSET S |-> 0]
  <2>1. \A s \in SUBSET S : Cardinality(s) <= 0 => s = {}
    BY Smaller
  <2>2. RightUpTo(f, 0, S)
    BY <2>1 DEF Step, RightUpTo
  <2>3. \E h : RightUpTo(h, 0, S)
    BY <2>2
  <2> QED
    BY <2>3 DEF Known
<1>2. Known(S) = Nat
  <2> DEFINE T == Nat \ Known(S)
  <2> SUFFICES ASSUME T # {}
               PROVE  FALSE
    BY DEF Known
  <2>1. T \in SUBSET Nat
    OBVIOUS
  <2> HIDE DEF T
  <2>2. PICK n \in T : \A m \in T : n <= m
    BY <2>1, LeastNumber
  <2>3. n \in Nat /\ n \notin Known(S) /\ \A m \in Nat : m < n => m \in Known(S)
    BY <2>2 DEF T
  <2>4. n # 0
    BY <1>1, <2>3
  <2>5. n - 1 \in Known(S)
    BY <2>3, <2>4
  <2>6. (n - 1) + 1 \in Known(S)
    BY <2>5, OneMoreIsKnown
  <2>7. (n - 1) + 1 = n
    BY <2>3
  <2> QED
    BY <2>3, <2>6, <2>7
<1>3. \E f : RightUpTo(f, Cardinality(S), S)
  BY <1>2, FS_CardinalityType DEF Known
<1>4. PICK f : RightUpTo(f, Cardinality(S), S)
  BY <1>3
<1>5. \A s \in SUBSET S : Cardinality(s) <= Cardinality(S)
  BY FS_Subset
<1>6. \A s \in SUBSET S : f[s] = Step(f, s)
  BY <1>4, <1>5 DEF RightUpTo
<1>7. f = [s \in SUBSET S |-> f[s]]
  BY <1>4 DEF RightUpTo
<1>8. f = [s \in SUBSET S |-> Step(f, s)]
  BY <1>6, <1>7
<1> QED
  BY <1>8 DEF Sums

\* The sum of each subset of S, as the fold over S computes it.
SumsOf(S) == CHOOSE f : Sums(f, S)

LEMMA SumStep ==
    ASSUME NEW S, IsFiniteSet(S)
    PROVE  /\ SumsOf(S)[{}] = 0
           /\ \A s \in SUBSET S : s # {} =>
                First(s) \in s /\ SumsOf(S)[s] = First(s).amount + SumsOf(S)[s \ {First(s)}]
<1> DEFINE f == SumsOf(S)
<1>1. f = [s \in SUBSET S |-> Step(f, s)]
  BY SumExists DEF SumsOf, Sums
<1> HIDE DEF f
<1>2. \A s \in SUBSET S : f[s] = Step(f, s)
  BY <1>1
<1> QED
  BY <1>2, FirstIn DEF Step, First, f

AreAmounts(S) == \A p \in S : p.amount \in Nat

LEMMA SumIsNat ==
    ASSUME NEW S, IsFiniteSet(S), AreAmounts(S), NEW s \in SUBSET S
    PROVE  SumsOf(S)[s] \in Nat
<1> DEFINE Bad == {t \in SUBSET S : SumsOf(S)[t] \notin Nat}
<1> SUFFICES ASSUME Bad # {}
             PROVE  FALSE
  OBVIOUS
<1>0. Bad \in SUBSET (SUBSET S)
  OBVIOUS
<1> HIDE DEF Bad
<1>1. PICK t \in Bad : \A u \in SUBSET S : Cardinality(u) < Cardinality(t) => u \notin Bad
  BY <1>0, SubsetsBySize
<1>9. t \in SUBSET S /\ SumsOf(S)[t] \notin Nat
  BY <1>1 DEF Bad
<1>2. t # {}
  BY <1>9, SumStep
<1>3. First(t) \in t /\ SumsOf(S)[t] = First(t).amount + SumsOf(S)[t \ {First(t)}]
  BY <1>9, <1>2, SumStep
<1> DEFINE u == t \ {First(t)}
<1>4. u \in SUBSET S /\ Cardinality(u) < Cardinality(t)
  BY <1>9, <1>3, Smaller
<1>5. SumsOf(S)[u] \in Nat
  BY <1>1, <1>4 DEF Bad
<1>6. First(t).amount \in Nat
  BY <1>3, <1>9 DEF AreAmounts
<1> QED
  BY <1>9, <1>3, <1>5, <1>6

\* The order of summation does not matter.
LEMMA SumWithout ==
    ASSUME NEW S, IsFiniteSet(S), AreAmounts(S), NEW s \in SUBSET S, NEW p \in s
    PROVE  SumsOf(S)[s] = p.amount + SumsOf(S)[s \ {p}]
<1> DEFINE f == SumsOf(S)
           Bad == {t \in SUBSET S : \E q \in t : f[t] # q.amount + f[t \ {q}]}
<1> SUFFICES ASSUME Bad # {}
             PROVE  FALSE
  OBVIOUS
<1> HIDE DEF f
<1>0. Bad \in SUBSET (SUBSET S)
  OBVIOUS
<1> HIDE DEF Bad
<1>1. PICK t \in Bad : \A u \in SUBSET S : Cardinality(u) < Cardinality(t) => u \notin Bad
  BY <1>0, SubsetsBySize
<1>20. t \in SUBSET S /\ \E q \in t : f[t] # q.amount + f[t \ {q}]
  BY <1>1 DEF Bad
<1>2. PICK q \in t : f[t] # q.amount + f[t \ {q}]
  BY <1>20
<1> DEFINE c == First(t)
<1>3. t # {} /\ c \in t /\ f[t] = c.amount + f[t \ {c}]
  BY <1>20, <1>2, SumStep DEF f
<1> HIDE DEF c
<1>4. c # q
  BY <1>2, <1>3
<1> DEFINE w == (t \ {c}) \ {q}
<1>5. /\ t \ {c} \in SUBSET S /\ Cardinality(t \ {c}) < Cardinality(t)
      /\ t \ {q} \in SUBSET S /\ Cardinality(t \ {q}) < Cardinality(t)
  BY <1>20, <1>2, <1>3, Smaller
<1>50. t \ {c} \notin Bad /\ t \ {q} \notin Bad /\ q \in t \ {c} /\ c \in t \ {q}
  BY <1>1, <1>2, <1>3, <1>4, <1>5
<1>6. f[t \ {c}] = q.amount + f[w]
  BY <1>5, <1>50 DEF Bad, w
<1>8. (t \ {q}) \ {c} = w /\ w \in SUBSET S
  BY <1>20
<1>7. f[t \ {q}] = c.amount + f[w]
  <2>1. f[t \ {q}] = c.amount + f[(t \ {q}) \ {c}]
    BY <1>5, <1>50 DEF Bad
  <2> QED
    BY <1>8, <2>1
<1>9. f[w] \in Nat
  BY <1>8, SumIsNat DEF f
<1>10. q.amount \in Nat /\ c.amount \in Nat
  BY <1>20, <1>2, <1>3 DEF AreAmounts
<1>11. f[t] = q.amount + f[t \ {q}]
  <2> DEFINE a == c.amount
             b == q.amount
             r == f[w]
  <2>1. f[t] = a + f[t \ {c}] /\ f[t \ {c}] = b + r /\ f[t \ {q}] = a + r
    BY <1>3, <1>6, <1>7
  <2>2. a \in Nat /\ b \in Nat /\ r \in Nat
    BY <1>9, <1>10
  <2> HIDE DEF a, b, r
  <2>3. a + (b + r) = b + (a + r)
    BY <2>2
  <2>4. f[t] = b + f[t \ {q}]
    BY <2>1, <2>3
  <2> QED
    BY <2>4 DEF b
<1> QED
  BY <1>2, <1>11

\* Nor does the set over which the fold is taken.
LEMMA SumIsLocal ==
    ASSUME NEW S, IsFiniteSet(S), NEW T, IsFiniteSet(T), S \subseteq T, NEW s \in SUBSET S
    PROVE  SumsOf(T)[s] = SumsOf(S)[s]
<1> DEFINE Bad == {t \in SUBSET S : SumsOf(T)[t] # SumsOf(S)[t]}
<1> SUFFICES ASSUME Bad # {}
             PROVE  FALSE
  OBVIOUS
<1>0. Bad \in SUBSET (SUBSET S)
  OBVIOUS
<1> HIDE DEF Bad
<1>1. PICK t \in Bad : \A u \in SUBSET S : Cardinality(u) < Cardinality(t) => u \notin Bad
  BY <1>0, SubsetsBySize
<1>9. t \in SUBSET S /\ t \in SUBSET T /\ SumsOf(T)[t] # SumsOf(S)[t]
  BY <1>1 DEF Bad
<1>2. t # {}
  BY <1>9, SumStep
<1>3. /\ First(t) \in t
      /\ SumsOf(S)[t] = First(t).amount + SumsOf(S)[t \ {First(t)}]
      /\ SumsOf(T)[t] = First(t).amount + SumsOf(T)[t \ {First(t)}]
  BY <1>9, <1>2, SumStep
<1> DEFINE u == t \ {First(t)}
<1>4. u \in SUBSET S /\ Cardinality(u) < Cardinality(t)
  BY <1>9, <1>3, Smaller
<1>5. SumsOf(T)[u] = SumsOf(S)[u]
  BY <1>1, <1>4 DEF Bad
<1> QED
  BY <1>9, <1>3, <1>5

LEMMA SumOfAmounts ==
    ASSUME NEW S, IsFiniteSet(S), AreAmounts(S)
    PROVE  SumOf(S) \in Nat
BY SumIsNat, SumIsFold DEF SumsOf

\* One payment more adds its amount.
LEMMA SumAdds ==
    ASSUME NEW S, IsFiniteSet(S), AreAmounts(S), NEW p, p \notin S, p.amount \in Nat
    PROVE  SumOf(S \cup {p}) = p.amount + SumOf(S)
<1> DEFINE T == S \cup {p}
<1>1. IsFiniteSet(T) /\ AreAmounts(T) /\ S \subseteq T /\ p \in T /\ T \in SUBSET T /\ S \in SUBSET S
  BY FS_AddElement DEF AreAmounts
<1>2. T \ {p} = S
  OBVIOUS
<1> HIDE DEF T
<1>3. SumsOf(T)[T] = p.amount + SumsOf(T)[S]
  BY <1>1, <1>2, SumWithout
<1>4. SumsOf(T)[S] = SumsOf(S)[S]
  BY <1>1, SumIsLocal
<1> QED
  BY <1>3, <1>4, SumIsFold DEF T, SumsOf

LEMMA EmptySum == SumOf({}) = 0
BY SumIsFold, SumStep, FS_EmptySet DEF SumsOf

-----------------------------------------------------------------------------

(***************************************************************************)
(* Payments, wherever they are recorded, and what the rows say is paid.    *)
(***************************************************************************)
AllPayments == UNION {ledger[s] : s \in Sites}

\* PaidIsRecorded with its sums named.
EverythingPaidIsRecorded ==
    \A s \in Sites, i \in Invoices : bill[s][i].paid <= SumOf(Recorded(i))

LEMMA PaidIsRecordedSum == PaidIsRecorded <=> EverythingPaidIsRecorded
  BY DEF PaidIsRecorded, EverythingPaidIsRecorded, SumOf

LEMMA RecordedAreAmounts ==
    ASSUME RestTyped, IsFiniteSet(AllPayments), NEW i \in Invoices
    PROVE  IsFiniteSet(Recorded(i)) /\ AreAmounts(Recorded(i)) /\ SumOf(Recorded(i)) \in Nat
<1>1. Recorded(i) \subseteq AllPayments
  BY DEF Recorded, AllPayments
<1>2. IsFiniteSet(Recorded(i))
  BY <1>1, FS_Subset
<1>3. AllPayments \subseteq Payment
  BY DEF AllPayments, RestTyped
<1>4. \A p \in Payment : p.amount \in Nat
  BY InvoicesAssumption DEF Payment
<1>5. AreAmounts(Recorded(i))
  BY <1>1, <1>3, <1>4 DEF AreAmounts
<1> QED
  BY <1>2, <1>5, SumOfAmounts

LEMMA OnePaymentMore ==
    ASSUME RestTyped, NEW s \in Sites, NEW p \in Payment,
           ledger' = [ledger EXCEPT ![s] = @ \cup {p}]
    PROVE  AllPayments' = AllPayments \cup {p}
<1>1. \A t \in Sites : ledger'[t] = IF t = s THEN ledger[t] \cup {p} ELSE ledger[t]
  BY DEF RestTyped
<1> QED
  BY <1>1 DEF AllPayments

\* Every row a step leaves says no more is paid than some row did before.
PaidIsCopied ==
    \A s \in Sites, i \in Invoices : \E t \in Sites : bill'[s][i].paid <= bill[t][i].paid

PaymentsGrow ==
    \/ AllPayments' = AllPayments
    \/ \E p \in Payment : AllPayments' = AllPayments \cup {p}

\* Unless it records a payment, a step only moves payments and rows.
LEMMA PaymentsMove ==
    ASSUME RestTyped, BillsAreSound, [Next]_vars,
           ~ \E d \in Devices, p \in Payment : RecordInvoicePayment(d, p)
    PROVE  PaymentsGrow /\ PaidIsCopied
<1> DEFINE Moves == PaymentsGrow /\ PaidIsCopied
<1>0. /\ \A s \in Sites, i \in Invoices : bill[s][i] \in Row
      /\ \A row \in Row : row.paid \in Nat
  BY DEF BillsAreSound, SoundRow, Row
<1>s. ASSUME UNCHANGED bill
      PROVE  PaidIsCopied
  BY <1>0, <1>s DEF PaidIsCopied
<1>w. ASSUME NEW t \in Sites, NEW j \in Invoices, NEW row \in Row, NEW u \in Sites,
             bill' = [bill EXCEPT ![t][j] = row], row.paid <= bill[u][j].paid
      PROVE  PaidIsCopied
  <2> SUFFICES ASSUME NEW s \in Sites, NEW i \in Invoices
               PROVE  \E v \in Sites : bill'[s][i].paid <= bill[v][i].paid
    BY DEF PaidIsCopied
  <2>1. CASE s = t /\ i = j
    BY <1>w, <2>1 DEF BillsAreSound
  <2>2. CASE ~(s = t /\ i = j)
    BY <1>0, <1>w, <2>2 DEF BillsAreSound
  <2> QED
    BY <2>1, <2>2
<1>1. ASSUME NEW d \in Devices, NEW i \in Invoices, NEW t \in Totals, CreateInvoice(d, i, t)
      PROVE  Moves
  <2>1. PICK n \in 1..MaxNumber :
          bill' = [bill EXCEPT ![d][i] = [status |-> "draft", number |-> n, ncf |-> 0, total |-> t, paid |-> 0]]
    BY <1>1 DEF CreateInvoice, WriteAndQueue, Write
  <2> DEFINE row == [status |-> "draft", number |-> n, ncf |-> 0, total |-> t, paid |-> 0]
  <2>2. row \in Row /\ row.paid = 0
    BY InvoicesAssumption DEF Row, Statuses
  <2>3. 0 <= bill[d][i].paid
    BY <1>0, SitesHaveDevices
  <2> HIDE DEF row
  <2>4. PaidIsCopied
    BY <1>w, <2>1, <2>2, <2>3, SitesHaveDevices DEF row
  <2> QED
    BY <1>1, <2>4 DEF CreateInvoice, AllPayments, PaymentsGrow
<1>2. ASSUME NEW d \in Devices, NEW i \in Invoices, NEW t \in Totals, UpdateInvoice(d, i, t)
      PROVE  Moves
  <2>1. bill' = [bill EXCEPT ![d][i] = [bill[d][i] EXCEPT !.total = t]]
    BY <1>2 DEF UpdateInvoice, WriteAndQueue, Write
  <2>2. [bill[d][i] EXCEPT !.total = t] \in Row /\ [bill[d][i] EXCEPT !.total = t].paid <= bill[d][i].paid
    BY <1>0, SitesHaveDevices DEF Row
  <2>3. PaidIsCopied
    BY <1>w, <2>1, <2>2, SitesHaveDevices
  <2> QED
    BY <1>2, <2>3 DEF UpdateInvoice, AllPayments, PaymentsGrow
<1>3. ASSUME NEW d \in Devices, NEW i \in Invoices, IssueInvoice(d, i)
      PROVE  Moves
  <2> DEFINE row == [bill[d][i] EXCEPT !.status = "issued", !.ncf = counter[d]]
  <2>1. bill' = [bill EXCEPT ![d][i] = row]
    BY <1>3, SitesHaveDevices DEF IssueInvoice, BillsAreSound
  <2>2. counter[d] \in 1..MaxNcf
    BY <1>3, InvoicesAssumption, SitesHaveDevices DEF IssueInvoice, NcfAvailable, RestTyped
  <2>3. row \in Row
    BY <1>3, <2>2, IssuedRowIsSound, SitesHaveDevices DEF IssueInvoice, BillsAreSound, SoundRow
  <2>4. row.paid <= bill[d][i].paid
    BY <1>0, SitesHaveDevices DEF Row
  <2> HIDE DEF row
  <2>5. PaidIsCopied
    BY <1>w, <2>1, <2>3, <2>4, SitesHaveDevices
  <2> QED
    BY <1>3, <2>5 DEF IssueInvoice, AllPayments, PaymentsGrow
<1>4. ASSUME NEW d \in Devices, NEW i \in Invoices, CancelInvoice(d, i)
      PROVE  Moves
  <2>1. bill' = [bill EXCEPT ![d][i] = [bill[d][i] EXCEPT !.status = "cancelled"]]
    BY <1>4 DEF CancelInvoice, WriteAndQueue, Write
  <2>2. /\ [bill[d][i] EXCEPT !.status = "cancelled"] \in Row
        /\ [bill[d][i] EXCEPT !.status = "cancelled"].paid <= bill[d][i].paid
    BY <1>0, SitesHaveDevices DEF Row, Statuses
  <2>3. PaidIsCopied
    BY <1>w, <2>1, <2>2, SitesHaveDevices
  <2> QED
    BY <1>4, <2>3 DEF CancelInvoice, AllPayments, PaymentsGrow
<1>5. ASSUME NEW d \in Devices, NEW i \in Invoices, NEW n \in 1..MaxNumber, RenumberInvoice(d, i, n)
      PROVE  Moves
  <2>1. bill' = [bill EXCEPT ![d][i] = [bill[d][i] EXCEPT !.number = n]]
    BY <1>5 DEF RenumberInvoice, Write
  <2>2. [bill[d][i] EXCEPT !.number = n] \in Row /\ [bill[d][i] EXCEPT !.number = n].paid <= bill[d][i].paid
    BY <1>0, SitesHaveDevices, InvoicesAssumption DEF Row
  <2>3. PaidIsCopied
    BY <1>w, <2>1, <2>2, SitesHaveDevices
  <2> QED
    BY <1>5, <2>3 DEF RenumberInvoice, AllPayments, PaymentsGrow
<1>6. ASSUME NEW d \in Devices, NEW i \in Invoices, PushInvoice(d, i)
      PROVE  Moves
  <2>1. bill' = [bill EXCEPT ![Cloud][i] = bill[d][i]] /\ bill[d][i] \in Row /\ bill[d][i].paid <= bill[d][i].paid
    BY <1>0, <1>6, SitesHaveDevices DEF PushInvoice
  <2>2. PaidIsCopied
    BY <1>w, <2>1, SitesHaveDevices
  <2> QED
    BY <1>6, <2>2 DEF PushInvoice, AllPayments, PaymentsGrow
<1>7. ASSUME NEW d \in Devices, NEW i \in Invoices, PullInvoice(d, i)
      PROVE  Moves
  <2>1. /\ bill' = [bill EXCEPT ![d][i] = bill[Cloud][i]]
        /\ bill[Cloud][i] \in Row /\ bill[Cloud][i].paid <= bill[Cloud][i].paid
    BY <1>0, <1>7, SitesHaveDevices DEF PullInvoice
  <2>2. PaidIsCopied
    BY <1>w, <2>1, SitesHaveDevices
  <2> QED
    BY <1>7, <2>2 DEF PullInvoice, AllPayments, PaymentsGrow
<1>8. ASSUME NEW d \in Devices, NEW p \in Payment, PushPayment(d, p)
      PROVE  Moves
  <2>1. p.invoice \in Invoices
    BY DEF Payment
  <2>2. /\ bill' = [bill EXCEPT ![Cloud][p.invoice] = bill[d][p.invoice]]
        /\ bill[d][p.invoice] \in Row /\ bill[d][p.invoice].paid <= bill[d][p.invoice].paid
    BY <1>0, <1>8, <2>1, SitesHaveDevices DEF PushPayment
  <2>3. PaidIsCopied
    BY <1>w, <2>1, <2>2, SitesHaveDevices
  <2>4. CASE ledger' = [ledger EXCEPT ![Cloud] = @ \cup {p}]
    BY <2>3, <2>4, OnePaymentMore, SitesHaveDevices DEF PaymentsGrow
  <2>5. CASE UNCHANGED ledger
    BY <2>3, <2>5 DEF AllPayments, PaymentsGrow
  <2> QED
    BY <1>8, <2>4, <2>5 DEF PushPayment
<1>9. ASSUME NEW d \in Devices, NEW p \in Payment, PullPayment(d, p)
      PROVE  Moves
  <2>1. ledger' = [ledger EXCEPT ![d] = @ \cup {p}] /\ UNCHANGED bill
    BY <1>9 DEF PullPayment
  <2>2. AllPayments' = AllPayments \cup {p}
    BY <2>1, OnePaymentMore, SitesHaveDevices
  <2> QED
    BY <1>s, <2>1, <2>2 DEF PaymentsGrow
<1>10. ASSUME NEW d \in Devices, NEW n \in 1..MaxNcf, UpsertSettings(d, n)
      PROVE  Moves
  BY <1>10, <1>s DEF UpsertSettings, AllPayments, PaymentsGrow
<1>11. ASSUME NEW d \in Devices, PushSettings(d)
      PROVE  Moves
  BY <1>11, <1>s DEF PushSettings, AllPayments, PaymentsGrow
<1>12. ASSUME NEW d \in Devices, PullSettings(d)
      PROVE  Moves
  BY <1>12, <1>s DEF PullSettings, AllPayments, PaymentsGrow
<1>13. CASE UNCHANGED vars
  BY <1>13, <1>s DEF vars, AllPayments, PaymentsGrow
<1> QED
  BY <1>1, <1>2, <1>3, <1>4, <1>5, <1>6, <1>7,
     <1>8, <1>9, <1>10, <1>11, <1>12, <1>13 DEF Next

PaidInv == IsFiniteSet(AllPayments) /\ EverythingPaidIsRecorded

LEMMA PaidStaysRecorded ==
    ASSUME RestTyped, RestTyped', BillsAreSound, BillsAreSound', PaidInv, [Next]_vars
    PROVE  PaidInv'
<1>1. CASE \E d \in Devices, p \in Payment : RecordInvoicePayment(d, p)
  <2>1. PICK d \in Devices, p \in Payment : RecordInvoicePayment(d, p)
    BY <1>1
  <2> DEFINE j == p.invoice
             row == bill[d][j]
             new == [row EXCEPT !.paid = row.paid + p.amount, !.status =
               IF row.paid + p.amount >= row.total THEN "paid" ELSE "partially_paid"]
  <2>2. j \in Invoices /\ p.amount \in Nat /\ p \notin AllPayments
    BY <2>1, InvoicesAssumption DEF Payment, RecordInvoicePayment, Repeated, AllPayments
  <2>3. AllPayments' = AllPayments \cup {p}
    BY <2>1, OnePaymentMore, SitesHaveDevices DEF RecordInvoicePayment
  <2>4. IsFiniteSet(AllPayments)'
    BY <2>3, FS_AddElement DEF PaidInv
  <2>5. bill' = [bill EXCEPT ![d][j] = new]
    BY <2>1 DEF RecordInvoicePayment, Write
  <2>6. row.paid \in Nat /\ new.paid = row.paid + p.amount
    BY <2>2, SitesHaveDevices DEF BillsAreSound, SoundRow, Row
  <2> HIDE DEF new
  <2>7. ASSUME NEW s \in Sites, NEW i \in Invoices
        PROVE  bill'[s][i].paid <= SumOf(Recorded(i)')
    <3>0. /\ bill[s][i].paid \in Nat /\ bill[s][i].paid <= SumOf(Recorded(i))
          /\ bill[d][i].paid <= SumOf(Recorded(i))
      BY SitesHaveDevices DEF PaidInv, EverythingPaidIsRecorded, BillsAreSound, SoundRow, Row
    <3>1. IsFiniteSet(Recorded(i)) /\ AreAmounts(Recorded(i)) /\ SumOf(Recorded(i)) \in Nat
      BY RecordedAreAmounts DEF PaidInv
    <3>2. CASE i = j
      <4>1. Recorded(i)' = Recorded(i) \cup {p} /\ p \notin Recorded(i)
        BY <2>2, <2>3, <3>2 DEF Recorded, AllPayments
      <4>2. SumOf(Recorded(i)') = p.amount + SumOf(Recorded(i))
        BY <2>2, <3>1, <4>1, SumAdds
      <4>3. bill'[s][i].paid = new.paid \/ bill'[s][i].paid = bill[s][i].paid
        BY <2>5, <3>2, SitesHaveDevices DEF BillsAreSound
      <4> DEFINE a == p.amount
                 b == row.paid
                 r == SumOf(Recorded(i))
                 c == bill[s][i].paid
                 x == bill'[s][i].paid
                 y == SumOf(Recorded(i)')
      <4>4. /\ a \in Nat /\ b \in Nat /\ r \in Nat /\ c \in Nat
            /\ c <= r /\ b <= r /\ y = a + r /\ (x = b + a \/ x = c)
        BY <2>2, <2>6, <3>0, <3>1, <3>2, <4>2, <4>3
      <4>5. x <= y
        <5> HIDE DEF a, b, c, r, x, y
        <5> QED
          BY <4>4
      <4> QED
        BY <4>5
    <3>3. CASE i # j
      <4>1. Recorded(i)' = Recorded(i)
        BY <2>3, <3>3 DEF Recorded, AllPayments
      <4>2. bill'[s][i] = bill[s][i]
        BY <2>5, <3>3, SitesHaveDevices DEF BillsAreSound
      <4> QED
        BY <3>0, <4>1, <4>2
    <3> QED
      BY <3>2, <3>3
  <2> QED
    BY <2>4, <2>7 DEF PaidInv, EverythingPaidIsRecorded
<1>2. CASE ~ \E d \in Devices, p \in Payment : RecordInvoicePayment(d, p)
  <2>1. PaymentsGrow /\ PaidIsCopied
    BY <1>2, PaymentsMove
  <2>2. IsFiniteSet(AllPayments)'
    BY <2>1, FS_AddElement DEF PaidInv, PaymentsGrow
  <2>3. ASSUME NEW s \in Sites, NEW i \in Invoices
        PROVE  bill'[s][i].paid <= SumOf(Recorded(i)')
    <3>1. PICK t \in Sites : bill'[s][i].paid <= bill[t][i].paid
      BY <2>1 DEF PaidIsCopied
    <3>2. bill[t][i].paid \in Nat /\ bill'[s][i].paid \in Nat /\ bill[t][i].paid <= SumOf(Recorded(i))
      BY DEF PaidInv, EverythingPaidIsRecorded, BillsAreSound, SoundRow, Row
    <3>3. IsFiniteSet(Recorded(i)) /\ AreAmounts(Recorded(i)) /\ SumOf(Recorded(i)) \in Nat
      BY RecordedAreAmounts DEF PaidInv
    <3>4. \/ Recorded(i)' = Recorded(i)
          \/ \E p \in Payment : p \notin Recorded(i) /\ Recorded(i)' = Recorded(i) \cup {p}
      <4>1. CASE AllPayments' = AllPayments
        BY <4>1 DEF Recorded, AllPayments
      <4>2. ASSUME NEW p \in Payment, AllPayments' = AllPayments \cup {p}
            PROVE  Recorded(i)' = Recorded(i) \/ Recorded(i)' = Recorded(i) \cup {p}
        BY <4>2 DEF Recorded, AllPayments
      <4> QED
        BY <2>1, <4>1, <4>2 DEF PaymentsGrow
    <3>5. SumOf(Recorded(i)') \in Nat /\ SumOf(Recorded(i)) <= SumOf(Recorded(i)')
      <4>1. CASE Recorded(i)' = Recorded(i)
        BY <3>3, <4>1
      <4>2. CASE \E p \in Payment : p \notin Recorded(i) /\ Recorded(i)' = Recorded(i) \cup {p}
        <5>1. PICK p \in Payment : p \notin Recorded(i) /\ Recorded(i)' = Recorded(i) \cup {p}
          BY <4>2
        <5>2. p.amount \in Nat
          BY InvoicesAssumption DEF Payment
        <5>3. SumOf(Recorded(i)') = p.amount + SumOf(Recorded(i))
          BY <3>3, <5>1, <5>2, SumAdds
        <5> QED
          BY <3>3, <5>2, <5>3
      <4> QED
        BY <3>4, <4>1, <4>2
    <3> QED
      BY <3>1, <3>2, <3>3, <3>5
  <2> QED
    BY <2>2, <2>3 DEF PaidInv, EverythingPaidIsRecorded
<1> QED
  BY <1>1, <1>2

-----------------------------------------------------------------------------

IInv == RestTyped /\ BillsAreSound /\ PaymentsAreKept /\ QuietCopiesAgree /\ PaidInv

LEMMA InitInv == Init => IInv
<1> SUFFICES ASSUME Init
             PROVE  IInv
  OBVIOUS
<1>1. RestTyped
  BY InvoicesAssumption DEF Init, RestTyped, Documents
<1>2. BillsAreSound
  BY InvoicesAssumption DEF Init, BillsAreSound, SoundRow, RowFits, Row, Statuses, NoRow
<1>3. PaymentsAreKept
  BY SitesHaveDevices DEF Init, PaymentsAreKept
<1>4. QuietCopiesAgree
  BY SitesHaveDevices DEF Init, QuietCopiesAgree
<1>5. PaidInv
  <2>1. AllPayments = {} /\ \A i \in Invoices : Recorded(i) = {}
    BY DEF Init, AllPayments, Recorded
  <2>2. \A s \in Sites, i \in Invoices : bill[s][i].paid = 0
    BY DEF Init, NoRow
  <2>3. IsFiniteSet(AllPayments)
    BY <2>1, FS_EmptySet
  <2>4. ASSUME NEW s \in Sites, NEW i \in Invoices
        PROVE  bill[s][i].paid <= SumOf(Recorded(i))
    <3>1. Recorded(i) = {} /\ bill[s][i].paid = 0
      BY <2>1, <2>2
    <3>2. SumOf(Recorded(i)) = 0
      BY <3>1, EmptySum
    <3> QED
      BY <3>1, <3>2
  <2> QED
    BY <2>3, <2>4 DEF PaidInv, EverythingPaidIsRecorded
<1> QED
  BY <1>1, <1>2, <1>3, <1>4, <1>5 DEF IInv

LEMMA StepInv == IInv /\ [Next]_vars => IInv'
<1> SUFFICES ASSUME IInv, [Next]_vars
             PROVE  IInv'
  OBVIOUS
<1>1. TypeOK
  BY DEF IInv, TypeOK, RestTyped, BillsAreSound
<1>2. RestTyped' /\ BillsAreSound'
  BY <1>1, BillsStaySound, TypesStay DEF IInv
<1> QED
  BY <1>2, PaymentsStay, CopiesStay, PaidStaysRecorded DEF IInv

LEMMA AlwaysInv == Spec => []IInv
  BY InitInv, StepInv, PTL DEF Spec

\* Every variable keeps its type.
THEOREM TypesHold == Spec => []TypeOK
<1>1. IInv => TypeOK
  BY DEF IInv, TypeOK, RestTyped, BillsAreSound
<1> QED
  BY <1>1, AlwaysInv, PTL

\* The status, the paid amount and the fiscal number of every copy of every
\* invoice fit together, although devices edit, pay and cancel stale copies.
THEOREM StatusAlwaysFits == Spec => []StatusFitsPayments
<1>1. IInv => StatusFitsPayments
  BY DEF IInv, BillsAreSound, SoundRow, StatusFitsPayments
<1> QED
  BY <1>1, AlwaysInv, PTL

\* No payment a device has recorded is lost before the cloud has it, although
\* the push of a payment takes two requests and may be cut between them.
THEOREM PaymentsNeverLost == Spec => []PaymentsAreKept
<1>1. IInv => PaymentsAreKept
  BY DEF IInv
<1> QED
  BY <1>1, AlwaysInv, PTL

\* A copy that is as new as the cloud's and has nothing to send is the cloud's.
THEOREM QuietCopiesAlwaysAgree == Spec => []QuietCopiesAgree
<1>1. IInv => QuietCopiesAgree
  BY DEF IInv
<1> QED
  BY <1>1, AlwaysInv, PTL

\* No database says that more is paid of an invoice than the payments recorded
\* for it come to, for any amounts and however rows and payments cross.
THEOREM PaidIsAlwaysRecorded == Spec => []PaidIsRecorded
<1>1. IInv => PaidIsRecorded
  BY PaidIsRecordedSum DEF IInv, PaidInv
<1> QED
  BY <1>1, AlwaysInv, PTL
===============================================================================
