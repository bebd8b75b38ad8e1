------------------------------ MODULE InvoiceInbox ------------------------------
(***************************************************************************)
(* Supplier documents that wait to be read by an AI provider and, once     *)
(* read, to be booked on the bank movement that paid them.                 *)
(*                                                                         *)
(* Every upload and every retry starts a loop of its own over its          *)
(* documents; loops run beside each other, and a document may be in two.   *)
(* Reading is a request: the user goes on meanwhile.  Booking is three     *)
(* transactions in a row, the first two commands of Treasury whose ids are *)
(* fixed per document.  Loops live in memory and end with the process.     *)
(***************************************************************************)
EXTENDS Treasury

CONSTANTS
    Documents,      \* invoice_extractions, by id
    Loops,          \* runs of processInvoiceQueue
    MaxRetries      \* bound: retries asked for

ASSUME InboxAssumption ==
    IsFiniteSet(Documents) /\ NoRow \notin Documents /\ MaxRetries \in Nat

VARIABLES
    status,         \* status of each document's row
    suggested,      \* suggested_transaction_id
    receipts,       \* outcomes of the two booking commands of each document
    loop,           \* documents each loop still has to read, the first in hand
    reading,        \* loops that have begun to read the document in hand
    stranded,       \* history: documents that were waiting when the process ended
    retries

inboxVars == <<status, suggested, receipts, loop, reading, stranded, retries>>
vars == <<treasuryVars, inboxVars>>

Statuses == {"absent", "pending", "processing", "extracted", "failed", "applied", "dismissed"}
Outcomes == {"none", "success", "failed"}

Init ==
    /\ TreasuryInit
    /\ status = [x \in Documents |-> "absent"]
    /\ suggested = [x \in Documents |-> NoRow]
    /\ receipts = [x \in Documents |-> [annotate |-> "none", review |-> "none"]]
    /\ loop = [l \in Loops |-> <<>>]
    /\ reading = {}
    /\ stranded = {}
    /\ retries = 0

-------------------------------------------------------------------------------
(* Reading                                                                 *)

With(column, S, value) == [x \in Documents |-> IF x \in S THEN value ELSE column[x]]

StartLoop(l, S) ==
    /\ loop[l] = <<>>
    /\ loop' = [loop EXCEPT ![l] = SetToSeq(S)]
    /\ stranded' = stranded \ S

EnqueueBatch(l, S) ==
    /\ S # {} /\ \A x \in S : status[x] = "absent"
    /\ status' = With(status, S, "pending")
    /\ StartLoop(l, S)
    /\ UNCHANGED <<treasuryVars, suggested, receipts, reading, retries>>

Retryable(x) == status[x] \notin {"absent", "processing", "applied", "dismissed"}

Retry(l, S) ==
    /\ S # {} /\ \A x \in S : Retryable(x)
    /\ retries < MaxRetries
    /\ retries' = retries + 1
    /\ status' = With(status, S, "pending")
    /\ suggested' = With(suggested, S, NoRow)
    /\ StartLoop(l, S)
    /\ UNCHANGED <<treasuryVars, receipts, reading>>

\* setProcessing, whatever became of the row meanwhile, then the file and the request.
StartReading(l) ==
    /\ loop[l] # <<>> /\ l \notin reading
    /\ status' = [status EXCEPT ![Head(loop[l])] = "processing"]
    /\ reading' = reading \cup {l}
    /\ UNCHANGED <<treasuryVars, suggested, receipts, loop, stranded, retries>>

\* A movement without DGII type, of about that amount and date, or none.
AutoMatch == {NoRow} \cup {m \in Movements : Present(books, m) /\ ~AnnotationOf(books, m).dgii}

RecordExtraction(l) ==
    /\ l \in reading
    /\ status' = [status EXCEPT ![Head(loop[l])] = "extracted"]
    /\ \E m \in AutoMatch : suggested' = [suggested EXCEPT ![Head(loop[l])] = m]
    /\ loop' = [loop EXCEPT ![l] = Tail(@)]
    /\ reading' = reading \ {l}
    /\ UNCHANGED <<treasuryVars, receipts, stranded, retries>>

\* Mutant: one document that fails ends the loop.
FailUnrecorded(l) ==
    /\ l \in reading
    /\ loop' = [loop EXCEPT ![l] = <<>>]
    /\ reading' = reading \ {l}
    /\ UNCHANGED <<treasuryVars, status, suggested, receipts, stranded, retries>>

\* No file, no provider, or the request failed.
RecordFailure(l) ==
    /\ l \in reading
    /\ status' = [status EXCEPT ![Head(loop[l])] = "failed"]
    /\ loop' = [loop EXCEPT ![l] = Tail(@)]
    /\ reading' = reading \ {l}
    /\ UNCHANGED <<treasuryVars, suggested, receipts, stranded, retries>>

-------------------------------------------------------------------------------
(* Deciding                                                                *)

\* The inbox offers both for any row not applied or dismissed, read or not.
Open(x) == status[x] \notin {"absent", "applied", "dismissed"}

Dismiss(x) ==
    /\ Open(x)
    /\ status' = [status EXCEPT ![x] = "dismissed"]
    /\ UNCHANGED <<treasuryVars, suggested, receipts, loop, reading, stranded, retries>>

\* Mutant: the movement is not looked up.
PassesWithoutMovement(outcome, m) == outcome # "failed"

\* A command with a receipt of success is passed over, one with a receipt of
\* failure refused for good; without a receipt it needs the movement.
Passes(outcome, m) == outcome = "success" \/ (outcome = "none" /\ Present(books, m))

Annotates(x) == receipts[x].annotate = "none"

\* Mutant: the second command is taken for done when the first is.
ReviewsOnlyWithFirst(x) == Annotates(x)

Reviews(x) == receipts[x].review = "none"

Annotated(x, m) ==
    IF Annotates(x)
    THEN ReplaceAnnotations(books, [k \in {m} |-> Reclassified(books, m, "expense", TRUE)])
    ELSE books

\* The first transaction, or both, as far as they have no receipt yet.  The second
\* rejects the movement when no amount of the document is deductible.
Book(x, m, both) == \E verdict \in {"accepted", "rejected"} :
    LET first == Annotated(x, m)
        second == ReplaceAnnotations(first, [k \in {m} |-> Reviewed(first, m, verdict)])
        annotates == Annotates(x)
        reviews == both /\ Reviews(x)
        Once(is, value) == IF is THEN value ELSE <<>>
    IN
    /\ books' = IF reviews THEN second ELSE first
    /\ Command(Once(annotates, Prior("annotation", {m}))
                   \o Once(reviews, EntryOf(first, "annotation", {m})),
               Once(annotates, AnnotationKeys({m})) \o Once(reviews, AnnotationKeys({m})))
    /\ receipts' = [receipts EXCEPT
        ![x].annotate = IF annotates THEN "success" ELSE @,
        ![x].review = IF reviews THEN "success" ELSE @]

MayApply(x) ==
    /\ Open(x) /\ suggested[x] # NoRow
    /\ Passes(receipts[x].annotate, suggested[x])
    /\ Passes(receipts[x].review, suggested[x])

ApplyExtraction(x) ==
    /\ MayApply(x)
    /\ Book(x, suggested[x], TRUE)
    /\ status' = [status EXCEPT ![x] = "applied"]
    /\ UNCHANGED <<suggested, loop, reading, stranded, retries>>

\* The movement is gone: the command leaves a receipt of failure and throws.
ApplyRefused(x) ==
    LET first == IF receipts[x].annotate = "none" THEN "annotate" ELSE "review" IN
    /\ Open(x) /\ suggested[x] # NoRow
    /\ ~Present(books, suggested[x])
    /\ receipts[x].annotate # "failed" /\ receipts[x][first] = "none"
    /\ receipts' = [receipts EXCEPT ![x][first] = "failed"]
    /\ UNCHANGED <<treasuryVars, status, suggested, loop, reading, stranded, retries>>

-------------------------------------------------------------------------------
(* The end of the process                                                  *)

Waiting(x) == status[x] \in {"pending", "processing"}

LoopsEnd ==
    /\ loop' = [l \in Loops |-> <<>>]
    /\ reading' = {}
    /\ stranded' = {x \in Documents : Waiting(x)}

Restart ==
    /\ WorkerRestarts
    /\ LoopsEnd
    /\ UNCHANGED <<status, suggested, receipts, retries>>

\* The process ends between the first and the second transaction of a booking;
\* nothing was being sent just then.
ApplyCutShort(x) ==
    /\ MayApply(x) /\ receipts[x].annotate = "none"
    /\ sending = Idle
    /\ Book(x, suggested[x], FALSE)
    /\ LoopsEnd
    /\ UNCHANGED <<status, suggested, retries>>

Next ==
    \/ UserCommand /\ UNCHANGED inboxVars
    \/ UndoLastAction /\ UNCHANGED inboxVars
    \/ Worker /\ UNCHANGED inboxVars
    \/ \E l \in Loops :
        \/ \E S \in SUBSET Documents : EnqueueBatch(l, S) \/ Retry(l, S)
        \/ StartReading(l) \/ RecordExtraction(l) \/ RecordFailure(l)
    \/ \E x \in Documents : Dismiss(x) \/ ApplyExtraction(x) \/ ApplyRefused(x) \/ ApplyCutShort(x)
    \/ Restart

Spec == Init /\ [][Next]_vars

\* A loop goes on by itself, and the requests for one document are answered.
FairSpec ==
    /\ Spec
    /\ \A l \in Loops : WF_vars(StartReading(l)) /\ WF_vars(RecordExtraction(l) \/ RecordFailure(l))

-------------------------------------------------------------------------------
(* Properties                                                              *)

TypeOK ==
    /\ TreasuryTypeOK
    /\ status \in [Documents -> Statuses]
    /\ suggested \in [Documents -> Movements \cup {NoRow}]
    /\ receipts \in [Documents -> [annotate : Outcomes, review : Outcomes]]
    /\ loop \in [Loops -> Seq(Documents)]
    /\ reading \subseteq {l \in Loops : loop[l] # <<>>}
    /\ stranded \subseteq Documents
    /\ retries \in 0..MaxRetries

\* A document marked as applied has been booked: both commands have their receipt
\* of success, whatever failed, was repeated or was cut short before.
AppliedMeansBooked ==
    \A x \in Documents :
        status[x] = "applied" => receipts[x] = [annotate |-> "success", review |-> "success"]

\* A document that waits to be read is read, or fails, or is dismissed, whatever
\* becomes of the others in its batch, unless the process ended while it waited.
EveryDocumentIsRead ==
    \A x \in Documents : Waiting(x) ~> (~Waiting(x) \/ x \in stranded)

===============================================================================
