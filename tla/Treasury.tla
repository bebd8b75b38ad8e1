-------------------------------- MODULE Treasury --------------------------------
(***************************************************************************)
(* The bank books of one device: accounts, imported movements with their   *)
(* classification and project allocations, the journal behind Cmd+Z, and   *)
(* the way of the rows to the cloud.                                       *)
(*                                                                         *)
(* Commands on accounts, movements and classifications put what they       *)
(* overwrite on the journal; Undo takes the newest entry back.  Restoring  *)
(* a row is an INSERT OR REPLACE, which deletes the row of that key first  *)
(* and with it what hangs from it: ON DELETE CASCADE.  Each command queues *)
(* outbox rows by key, and the worker sends the row the key names by then. *)
(*                                                                         *)
(* One workspace, one device.  Links between movements and documents are   *)
(* left out, and of a card settlement its classification is kept.          *)
(***************************************************************************)
EXTENDS Naturals, Sequences, FiniteSets, SequencesExt

CONSTANTS
    Accounts,           \* payment instruments; they exist from the start
    Movements,          \* lines of bank statements: the id is the dedupe hash
    Imported,           \* movements of a statement imported and sent long ago
    NoRow,
    AccountOf,          \* the account a movement belongs to
    TextOf,             \* its description, which rules match
    AmountOf,           \* what the statement says it amounts to
    Amounts,            \* what a movement may amount to
    Shares,             \* what the projects of a movement may get in total
    Verdicts,           \* what a review may decide
    MaxCommands,        \* bound: commands given; imports are numbered by command
    MaxFaults           \* bound: requests that fail, restarts

ASSUME TreasuryAssumption ==
    /\ IsFiniteSet(Movements)
    /\ NoRow \notin Accounts \cup Movements
    /\ DOMAIN AccountOf = Movements /\ \A m \in Movements : AccountOf[m] \in Accounts
    /\ \A m, n \in Imported : AccountOf[m] = AccountOf[n]
    /\ DOMAIN TextOf = Movements
    /\ Imported \subseteq Movements
    /\ AmountOf \in [Movements -> Amounts]
    /\ Amounts \subseteq Nat
    /\ Shares \subseteq Nat /\ Verdicts \subseteq {"accepted", "rejected"}
    /\ MaxCommands \in Nat /\ MaxFaults \in Nat

VARIABLES
    books,      \* the device's tables
    cloud,      \* the same tables in Postgres
    journal,    \* entries of treasury_undo_journal not undone, the oldest first
    outbox,     \* keys of the rows still to be sent, in order
    sending,    \* the key being sent with the rows read for it, or Idle
    commands, faults,
    resent      \* history: imports whose deletion failed and was queued again

treasuryVars == <<books, cloud, journal, outbox, sending, commands, faults, resent>>

Imports == 0..MaxCommands
Unset == "unset"
Kinds == {"auto", "expense", "transfer"}    \* "auto": set by the import itself
Fiscal == {"pending", "accepted", "rejected"}

Movement == [import : Imports, amount : Amounts]
Annotation == [kind : Kinds \cup {Unset}, dgii : BOOLEAN, fiscal : Fiscal]
Books == [active : [Accounts -> BOOLEAN],
          imports : [Imports -> Accounts \cup {NoRow}],
          movement : [Movements -> Movement \cup {NoRow}],
          annotation : [Movements -> Annotation \cup {NoRow}],
          allocated : [Movements -> Nat]]

\* That there is no row is not a row.
ASSUME RowsAssumption == NoRow \notin Movement \cup Annotation

\* A column with the rows laid over it.
Patched(column, rows) ==
    [x \in DOMAIN column |-> IF x \in DOMAIN rows THEN rows[x] ELSE column[x]]

Present(b, m) == b.movement[m] # NoRow
Members(b, i) == {m \in Movements : Present(b, m) /\ b.movement[m].import = i}
Classified(b) == {m \in Movements : b.annotation[m] # NoRow}
Allocated(b) == {m \in Movements : b.allocated[m] > 0}

Idle == [key |-> <<>>, rows |-> NoRow]

NewBooks ==
    [active |-> [a \in Accounts |-> TRUE],
     imports |-> [i \in Imports |-> NoRow],
     movement |-> [m \in Movements |-> NoRow],
     annotation |-> [m \in Movements |-> NoRow],
     allocated |-> [m \in Movements |-> 0]]

TreasuryInit ==
    /\ books = [NewBooks EXCEPT
            !.imports[0] = IF Imported = {} THEN NoRow ELSE AccountOf[CHOOSE m \in Imported : TRUE],
            !.movement = Patched(@, [m \in Imported |-> [import |-> 0, amount |-> AmountOf[m]]])]
    /\ cloud = books
    /\ journal = <<>>
    /\ outbox = <<>>
    /\ sending = Idle
    /\ commands = 0 /\ faults = 0 /\ resent = {}

-------------------------------------------------------------------------------
(* Rows                                                                    *)

\* Movements go with their annotations and allocations: ON DELETE CASCADE.
WithoutMovements(b, S) ==
    LET Cleared(column, empty) == [m \in Movements |-> IF m \in S THEN empty ELSE column[m]]
    IN [b EXCEPT !.movement = Cleared(@, NoRow),
                 !.annotation = Cleared(@, NoRow),
                 !.allocated = Cleared(@, 0)]

\* An account's imports and movements hang from it in the same way.
ReplaceAccount(b, a, active) ==
    LET rest == WithoutMovements(b, {m \in Movements : AccountOf[m] = a}) IN
    [rest EXCEPT !.active[a] = active,
                 !.imports = [i \in Imports |-> IF @[i] = a THEN NoRow ELSE @[i]]]

ReplaceMovement(b, m, row) == [WithoutMovements(b, {m}) EXCEPT !.movement[m] = row]

\* Annotations S -> rows; nothing hangs from an annotation.
ReplaceAnnotations(b, rows) == [b EXCEPT !.annotation = Patched(@, rows)]

Blank == [kind |-> Unset, dgii |-> FALSE, fiscal |-> "pending"]
AnnotationOf(b, m) == IF b.annotation[m] = NoRow THEN Blank ELSE b.annotation[m]
Reclassified(b, m, kind, dgii) == [AnnotationOf(b, m) EXCEPT !.kind = kind, !.dgii = dgii]
Reviewed(b, m, fiscal) == [AnnotationOf(b, m) EXCEPT !.fiscal = fiscal]

\* The rows of b a journal entry or an outbox row is about; all else left out.
RowsOf(b, table, S) ==
    LET members == UNION {Members(b, i) : i \in S}
        Of(column, K) == [k \in K |-> column[k]]
    IN CASE table = "account" -> [NewBooks EXCEPT !.active = Patched(@, Of(b.active, S))]
         [] table \in {"import", "import_delete"} ->
                [NewBooks EXCEPT !.imports = Patched(@, Of(b.imports, S)),
                                 !.movement = Patched(@, Of(b.movement, members)),
                                 !.annotation = Patched(@, Of(b.annotation, members)),
                                 !.allocated = Patched(@, Of(b.allocated, members))]
         [] table = "movement" -> [NewBooks EXCEPT !.movement = Patched(@, Of(b.movement, S))]
         [] table = "annotation" -> [NewBooks EXCEPT !.annotation = Patched(@, Of(b.annotation, S))]
         [] table = "allocations" -> [NewBooks EXCEPT !.allocated = Patched(@, Of(b.allocated, S))]

-------------------------------------------------------------------------------
(* Commands                                                                *)

\* One command: what it overwrites goes on the journal, the keys of its outbox
\* rows to the end of the queue.
Command(entries, keys) ==
    /\ commands < MaxCommands
    /\ commands' = commands + 1
    /\ journal' = journal \o entries
    /\ outbox' = outbox \o keys
    /\ UNCHANGED <<cloud, sending, faults, resent>>

\* An entry: the rows S of a table before the change.
EntryOf(b, table, S) == <<[table |-> table, of |-> S, rows |-> RowsOf(b, table, S)]>>

\* Mutant: the rows are read after the change.
PriorAfterwards(table, S) == EntryOf(books', table, S)

Prior(table, S) == EntryOf(books, table, S)

AnnotationKeys(S) == SetToSeq({<<"annotation", m>> : m \in S})
AllocationKeys(S) == SetToSeq({<<"allocations", m>> : m \in S})

SaveAccount(a, active) ==
    /\ books' = [books EXCEPT !.active[a] = active]
    /\ Command(Prior("account", {a}), <<<<"account", a>>>>)

UpsertBankAccount(a) == \E active \in BOOLEAN : SaveAccount(a, active)
DeactivatePaymentInstrument(a) == SaveAccount(a, FALSE)

\* Lines already known are skipped; some of the new ones are classified at once,
\* by their text or a remembered rule.  One outbox row for the batch; no undo.
ImportStatement(a, lines, auto) ==
    LET i == commands + 1
        new == {m \in lines : ~Present(books, m)}
    IN
    /\ lines # {} /\ \A m \in lines : AccountOf[m] = a
    /\ auto \subseteq new
    /\ books' = [books EXCEPT
        !.imports[i] = a,
        !.movement = Patched(@, [m \in new |-> [import |-> i, amount |-> AmountOf[m]]]),
        !.annotation = Patched(@, [m \in auto |-> [Blank EXCEPT !.kind = "auto"]])]
    /\ Command(<<>>, <<<<"import", i>>>>)

WithoutImport(b, i) == [WithoutMovements(b, Members(b, i)) EXCEPT !.imports[i] = NoRow]

DeleteImport(i) ==
    /\ books.imports[i] # NoRow
    /\ books' = WithoutImport(books, i)
    /\ Command(Prior("import_delete", {i}), <<<<"import_delete", i>>>>)

CorrectTransaction(m, amount) ==
    /\ Present(books, m)
    /\ books' = [books EXCEPT !.movement[m].amount = amount]
    /\ Command(Prior("movement", {m}), <<<<"movement", m>>>>)

AnnotateTransaction(m, dgii) ==
    /\ Present(books, m)
    /\ books' = ReplaceAnnotations(books, [x \in {m} |-> Reclassified(books, m, "expense", dgii)])
    /\ Command(Prior("annotation", {m}), AnnotationKeys({m}))

\* The rule classifies every movement of that text that has no kind yet.
ApplyCounterpartyRule(text, dgii) ==
    LET matches == {m \in Movements : Present(books, m) /\ TextOf[m] = text
                                      /\ AnnotationOf(books, m).kind = Unset}
        rows == [m \in matches |->
            Reclassified(books, m, "expense", dgii \/ AnnotationOf(books, m).dgii)]
    IN
    /\ \E m \in Movements : Present(books, m) /\ TextOf[m] = text
    /\ books' = ReplaceAnnotations(books, rows)
    /\ Command(IF matches = {} THEN <<>> ELSE Prior("annotation", matches),
               AnnotationKeys(matches))

SetAllocations(m, total) ==
    /\ Present(books, m)
    /\ total <= books.movement[m].amount
    /\ books' = [books EXCEPT !.allocated[m] = total]
    /\ Command(Prior("allocations", {m}), AllocationKeys({m}))

ReviewReimbursement(m, fiscal) ==
    /\ Present(books, m)
    /\ books' = ReplaceAnnotations(books, [x \in {m} |-> Reviewed(books, m, fiscal)])
    /\ Command(Prior("annotation", {m}), AnnotationKeys({m}))

\* No entry on the journal.
CreateCardSettlement(m) ==
    LET row == AnnotationOf(books, m) IN
    /\ Present(books, m)
    /\ books' = ReplaceAnnotations(books, [x \in {m} |-> [row EXCEPT !.kind = "transfer"]])
    /\ Command(<<>>, AnnotationKeys({m}))

-------------------------------------------------------------------------------
(* Undo: the newest entry; one whose rows a foreign key refuses stays.     *)
(* The command also takes an undoId, which may name an older entry; no     *)
(* caller sends one, and it is left out: out of order,                     *)
(* DecisionsCanBeUndone would not hold.                                    *)

Entry == Last(journal)

NewestIs(table) == journal # <<>> /\ Entry.table = table

\* Mutant: what is restored is not sent.
UndoUnqueued(restored, keys) ==
    /\ commands < MaxCommands
    /\ commands' = commands + 1
    /\ books' = restored
    /\ journal' = Front(journal)
    /\ UNCHANGED <<outbox, cloud, sending, faults, resent>>

Undo(restored, keys) ==
    /\ commands < MaxCommands
    /\ commands' = commands + 1
    /\ books' = restored
    /\ journal' = Front(journal)
    /\ outbox' = outbox \o keys
    /\ UNCHANGED <<cloud, sending, faults, resent>>

\* A movement that had no annotation gets a blank one, which can be sent.
RestorePriors(b, S) ==
    ReplaceAnnotations(b, [m \in S |-> AnnotationOf(Entry.rows, m)])

\* Mutant: foreign keys are off.
NoForeignKey(S) == TRUE

HasMovement(S) == \A m \in S : Present(books, m)

UndoAnnotations ==
    /\ NewestIs("annotation")
    /\ HasMovement(Entry.of)
    /\ Undo(RestorePriors(books, Entry.of), AnnotationKeys(Entry.of))

UndoAllocations ==
    /\ NewestIs("allocations")
    /\ \E m \in Entry.of :
        /\ Entry.rows.allocated[m] > 0 => HasMovement({m})
        /\ Undo([books EXCEPT !.allocated[m] = Entry.rows.allocated[m]],
                AllocationKeys({m}))

UndoCorrection ==
    /\ NewestIs("movement")
    /\ \E m \in Entry.of :
        LET prior == Entry.rows.movement[m] IN
        /\ books.imports[prior.import] # NoRow
        /\ Undo(ReplaceMovement(books, m, prior), <<<<"movement", m>>>>)

UndoAccount ==
    /\ NewestIs("account")
    /\ \E a \in Entry.of :
        Undo(ReplaceAccount(books, a, Entry.rows.active[a]), <<<<"account", a>>>>)

\* The import, its movements and what hung from them.
UndoDelete ==
    /\ NewestIs("import_delete")
    /\ \E i \in Entry.of :
        LET before == Entry.rows
            members == Members(before, i)
            Of(column) == [m \in members |-> column[m]]
        IN Undo([books EXCEPT !.imports[i] = before.imports[i],
                              !.movement = Patched(@, Of(before.movement)),
                              !.annotation = Patched(@, Of(before.annotation)),
                              !.allocated = Patched(@, Of(before.allocated))],
                <<<<"import", i>>>> \o AnnotationKeys(members \cap Classified(before))
                                    \o AllocationKeys(members \cap Allocated(before)))

-------------------------------------------------------------------------------
(* The outbox worker: the row is read, sent, and either stored or put back *)

StartPush ==
    /\ sending = Idle
    /\ outbox # <<>>
    /\ sending' = [key |-> Head(outbox),
                   rows |-> RowsOf(books, Head(outbox)[1], {Head(outbox)[2]})]
    /\ outbox' = Tail(outbox)
    /\ UNCHANGED <<books, cloud, journal, commands, faults, resent>>

\* What Postgres holds after the rows read for the key; a row that is gone sends
\* nothing, except allocations, which are replaced as a whole.
Stored ==
    LET b == sending.rows
        x == sending.key[2]
    IN CASE sending.key[1] = "account" -> [cloud EXCEPT !.active[x] = b.active[x]]
         [] sending.key[1] = "import" -> IF b.imports[x] = NoRow THEN cloud ELSE
                [cloud EXCEPT !.imports[x] = b.imports[x],
                              !.movement = Patched(@, [m \in Members(b, x) |-> b.movement[m]])]
         [] sending.key[1] = "import_delete" -> WithoutImport(cloud, x)
         [] sending.key[1] = "movement" -> IF ~Present(b, x) THEN cloud ELSE
                [cloud EXCEPT !.movement[x] = b.movement[x]]
         [] sending.key[1] = "annotation" -> IF x \notin Classified(b) THEN cloud ELSE
                [cloud EXCEPT !.annotation[x] = b.annotation[x]]
         [] sending.key[1] = "allocations" -> [cloud EXCEPT !.allocated[x] = b.allocated[x]]

\* A foreign key in Postgres: the row's parent has not arrived, or is gone.
Refused ==
    LET b == sending.rows
        x == sending.key[2]
    IN \/ sending.key[1] = "movement" /\ Present(b, x)
          /\ cloud.imports[b.movement[x].import] = NoRow
       \/ sending.key[1] = "annotation" /\ x \in Classified(b) /\ ~Present(cloud, x)
       \/ sending.key[1] = "allocations" /\ x \in Allocated(b) /\ ~Present(cloud, x)

FinishPush ==
    /\ sending # Idle
    /\ ~Refused
    /\ cloud' = Stored
    /\ sending' = Idle
    /\ UNCHANGED <<books, journal, outbox, commands, faults, resent>>

\* Refused, or the request or its answer was lost: the row waits its turn again,
\* behind what was queued since, a deletion as any other.
PushFails ==
    /\ sending # Idle
    /\ \/ Refused /\ UNCHANGED <<cloud, faults>>
       \/ ~Refused /\ faults < MaxFaults /\ faults' = faults + 1 /\ cloud' \in {cloud, Stored}
    /\ outbox' = Append(outbox, sending.key)
    /\ resent' = IF sending.key[1] = "import_delete" THEN resent \cup {sending.key[2]} ELSE resent
    /\ sending' = Idle
    /\ UNCHANGED <<books, journal, commands>>

\* The process ends and starts again: the row in flight is the oldest due, and
\* its request may have been served.
WorkerRestarts ==
    /\ faults < MaxFaults
    /\ faults' = faults + 1
    /\ outbox' = IF sending = Idle THEN outbox ELSE <<sending.key>> \o outbox
    /\ cloud' \in IF sending = Idle \/ Refused THEN {cloud} ELSE {cloud, Stored}
    /\ sending' = Idle
    /\ UNCHANGED <<books, journal, commands, resent>>

UserCommand ==
    \/ \E a \in Accounts :
        \/ UpsertBankAccount(a) \/ DeactivatePaymentInstrument(a)
        \/ \E lines, auto \in SUBSET Movements : ImportStatement(a, lines, auto)
    \/ \E i \in Imports : DeleteImport(i)
    \/ \E m \in Movements, amount \in Amounts : CorrectTransaction(m, amount)
    \/ \E m \in Movements, dgii \in BOOLEAN : AnnotateTransaction(m, dgii)
    \/ \E m \in Movements, dgii \in BOOLEAN : ApplyCounterpartyRule(TextOf[m], dgii)
    \/ \E m \in Movements, total \in Shares : SetAllocations(m, total)
    \/ \E m \in Movements, fiscal \in Verdicts : ReviewReimbursement(m, fiscal)
    \/ \E m \in Movements : CreateCardSettlement(m)
UndoLastAction ==
    UndoAnnotations \/ UndoAllocations \/ UndoCorrection \/ UndoAccount \/ UndoDelete
Worker == StartPush \/ FinishPush \/ PushFails

TreasuryNext == UserCommand \/ UndoLastAction \/ Worker \/ WorkerRestarts

TreasurySpec == TreasuryInit /\ [][TreasuryNext]_treasuryVars

-------------------------------------------------------------------------------
(* Properties                                                              *)

Tables == {"account", "import", "import_delete", "movement", "annotation", "allocations"}
Keys == Tables \X (Accounts \cup Movements \cup Imports)

\* What hangs from a row is there only with the row.
HangTogether(b) ==
    /\ \A m \in Movements : Present(b, m) => b.imports[b.movement[m].import] = AccountOf[m]
    /\ Classified(b) \cup Allocated(b) \subseteq {m \in Movements : Present(b, m)}

\* The tables, the journal and the queue have their types, and the foreign keys
\* of the tables hold in the device as in Postgres.
TreasuryTypeOK ==
    /\ books \in Books /\ HangTogether(books)
    /\ cloud \in Books /\ HangTogether(cloud)
    /\ \A n \in DOMAIN journal : journal[n].table \in Tables /\ journal[n].rows \in Books
    /\ Range(outbox) \cup ({sending.key} \ {<<>>}) \subseteq Keys
    /\ sending = Idle \/ sending.rows \in Books
    /\ commands \in 0..MaxCommands /\ faults \in 0..MaxFaults /\ resent \subseteq Imports

Waits(table, x) == <<table, x>> \in Range(outbox)
InFlight(table, x) == sending.key = <<table, x>>

\* An account as the device has it is in Postgres, waits or is on its way.
AccountsAreQueued ==
    \A a \in Accounts :
        \/ books.active[a] = cloud.active[a]
        \/ Waits("account", a)
        \/ InFlight("account", a) /\ sending.rows.active[a] = books.active[a]

\* So is a movement, by itself or with its import.  One kind is lost: a deletion
\* that failed is queued again behind the import its undo has queued, so it takes
\* from Postgres what the undo has sent, and nothing sends that again.
MovementsAreQueued ==
    \A m \in Movements : Present(books, m) =>
        LET i == books.movement[m].import IN
        \/ books.movement[m] = cloud.movement[m]
        \/ Waits("movement", m) \/ Waits("import", i)
        \/ /\ InFlight("movement", m) \/ InFlight("import", i)
           /\ sending.rows.movement[m] = books.movement[m]
        \/ i \in resent /\ ~Present(cloud, m)

\* A classification an import made by itself is never queued.
ByItself(m) == books.annotation[m] = [Blank EXCEPT !.kind = "auto"]

AnnotationQueued(m) ==
    \/ Waits("annotation", m)
    \/ InFlight("annotation", m) /\ sending.rows.annotation[m] = books.annotation[m]

AllocationQueued(m) ==
    \/ Waits("allocations", m)
    \/ InFlight("allocations", m) /\ sending.rows.allocated[m] = books.allocated[m]

\* What Postgres has of the classification or the split of a movement is what
\* the device has, or will be replaced.
DecisionsAreCurrent ==
    /\ \A m \in Classified(books) :
        cloud.annotation[m] \in {NoRow, books.annotation[m]} \/ ByItself(m) \/ AnnotationQueued(m)
    /\ \A m \in Allocated(books) :
        cloud.allocated[m] \in {0, books.allocated[m]} \/ AllocationQueued(m)

\* Where Postgres has another row than the device, the device's row as it is now
\* waits in the outbox or is in flight: commands, undos and lost or refused
\* requests never leave an older row behind.  A row may be missing there instead:
\* a movement only if the deletion of its import had failed and was sent again
\* (what hangs from movements is the subject of NothingIsMissing).
ChangesAreQueued == AccountsAreQueued /\ MovementsAreQueued /\ DecisionsAreCurrent

\* As long as no request has failed, no decision about a movement is missing in
\* Postgres for good, although imports are deleted there with all that hangs from
\* them.  (After a failure one may be: a deletion overtakes the import that has
\* moved the movement out of its reach.)
NothingIsMissing ==
    faults = 0 =>
        /\ \A m \in Classified(books) :
            cloud.annotation[m] # NoRow \/ ByItself(m) \/ AnnotationQueued(m)
        /\ \A m \in Allocated(books) : cloud.allocated[m] > 0 \/ AllocationQueued(m)

Journaled(table, m) == \E n \in DOMAIN journal : journal[n].table = table /\ m \in journal[n].of

\* What a person decided about a movement, its kind, its review, its split over
\* projects, can be taken back for as long as it stands: undoing other entries,
\* deleting the import and bringing it back never leaves a decision behind
\* without its entry.
DecisionsCanBeUndone ==
    /\ \A m \in Classified(books) :
        books.annotation[m].kind = "expense" \/ books.annotation[m].fiscal # "pending"
            => Journaled("annotation", m)
    /\ \A m \in Allocated(books) : Journaled("allocations", m)

\* Undo takes back what the entry names and nothing else: undoing the correction
\* of a movement leaves its classification and split, undoing the edit of an
\* account its movements.
UndoKeepsTheRest ==
    [][ Len(journal') < Len(journal) =>
        /\ Entry.table = "movement" =>
            books'.annotation = books.annotation /\ books'.allocated = books.allocated
        /\ Entry.table = "account" => books'.movement = books.movement ]_books

===============================================================================
