------------------------------- MODULE Warehouse -------------------------------
(***************************************************************************)
(* The stock of a rental house: how many units of each asset are on the    *)
(* shelf, reserved for a project and out on packing slips.                 *)
(*                                                                         *)
(* Five services write these counters, each command in one SQLite          *)
(* transaction: the asset registry (assign, release, stock count,          *)
(* archive), packing slips (issue, return), repair cases, incidents, and   *)
(* the wizard that creates a project with equipment.  A sixth writer is    *)
(* not a command: opening the database and listing a project's equipment   *)
(* rewrite the counters from the active assignments.                       *)
(*                                                                         *)
(* An asset is in one context at a time; its project stands for the whole  *)
(* context (project, unit, department, responsible user, location).  Kits  *)
(* and permissions are left out; the projects are those not wrapped.       *)
(***************************************************************************)
EXTENDS Naturals, FiniteSets, FiniteSetsExt

CONSTANTS
    Assets,
    Projects,
    FirstProjects,  \* those that exist before the wizard creates more
    Slips, Cases,   \* identifiers of packing slips and repair cases
    Nothing,        \* NULL
    StartQuantity,  \* units an asset is created with
    MaxQuantity,    \* bound: units a stock count may find
    MaxUnits,       \* bound: units of one new project that an asset may be listed in
    MaxCommands     \* bound: commands executed

Item == [quantity : Nat, source : {"assigned", "available"}, returned : BOOLEAN]
Assignment == [project : Projects \cup {Nothing}, quantity : Nat,
               status : {"assigned", "checked_out"}]
\* An open row beside the active one: when it was written and for which unit.
Spare == [project : Projects \cup {Nothing}, quantity : Nat,
          status : {"assigned", "checked_out"}, since : 0 .. MaxCommands, unit : 0 .. MaxUnits]
Slip == [project : Projects, status : {"Draft", "Issued", "Partial return", "Closed"},
         items : [Assets -> Item \cup {Nothing}]]

ASSUME WarehouseAssumption ==
    /\ FirstProjects \subseteq Projects
    /\ Nothing \notin Projects \cup Item \cup Assignment \cup Slip
    /\ IsFiniteSet(Slips)
    /\ StartQuantity \in Nat \ {0}
    /\ MaxQuantity \in Nat /\ MaxQuantity >= StartQuantity
    /\ MaxUnits \in Nat
    /\ MaxCommands \in Nat

VARIABLES
    stock,      \* asset_current_state, with is_active of assets
    assignment, \* the asset_assignments row named by active_assignment_id
    beside,     \* rows of asset_assignments that are open too, but not named by it
    spread,     \* history: assets a new project has listed in several units
    known,      \* projects
    slip,       \* packing_slips with their packing_slip_items
    case,       \* rma_cases with their rma_case_assets
    incident,   \* status of the incident reported on an asset
    commands    \* how many commands have been executed

vars == <<stock, assignment, beside, spread, known, slip, case, incident, commands>>

openRows == <<beside, spread>>

Terminal == {"Repaired", "No repair / retired"}
CaseStatuses == {"Needs review", "Sent to repair"} \cup Terminal

Stock == [project : Projects \cup {Nothing},
          total : Nat, available : Nat, assigned : Nat, out : Nat,
          custody : {"available", "partial_assigned", "assigned", "checked_out",
                     "partial_checked_out", "partially_allocated", "maintenance", "retired"},
          operational : {"ready", "maintenance", "retired"},
          active : BOOLEAN]
Case == [status : CaseStatuses, assets : SUBSET Assets]

Init ==
    /\ stock = [a \in Assets |->
        [project |-> Nothing, total |-> StartQuantity, available |-> StartQuantity,
         assigned |-> 0, out |-> 0, custody |-> "available", operational |-> "ready",
         active |-> TRUE]]
    /\ assignment = [a \in Assets |-> Nothing]
    /\ beside = [a \in Assets |-> {}]
    /\ spread = {}
    /\ known = FirstProjects
    /\ slip = [s \in Slips |-> Nothing]
    /\ case = [c \in Cases |-> Nothing]
    /\ incident = [a \in Assets |-> "none"]
    /\ commands = 0

Command == commands < MaxCommands /\ commands' = commands + 1

(***************************************************************************)
(* Helpers.                                                                *)
(***************************************************************************)
AtMost(m, n) == IF m < n THEN m ELSE n
AtLeast(m, n) == IF m > n THEN m ELSE n
Less(m, n) == IF m > n THEN m - n ELSE 0

DeriveCustodyStatus(row) ==
    CASE row.operational = "maintenance" -> "maintenance"
      [] row.operational # "maintenance" /\ row.out > 0 ->
            IF row.assigned > 0 THEN "partially_allocated"
            ELSE IF row.available > 0 THEN "partial_checked_out" ELSE "checked_out"
      [] OTHER ->
            IF row.assigned = 0 THEN "available"
            ELSE IF row.available > 0 THEN "partial_assigned" ELSE "assigned"

WithCustody(row) == [row EXCEPT !.custody = DeriveCustodyStatus(row)]

PendingItem(s, a) ==
    slip[s] # Nothing /\ slip[s].items[a] # Nothing /\ ~slip[s].items[a].returned

\* Units of a that the packing slips say are out.
Pending(a) ==
    MapThenSumSet(LAMBDA s : slip[s].items[a].quantity, {s \in Slips : PendingItem(s, a)})

(***************************************************************************)
(* Assign, release and count.                                              *)
(***************************************************************************)

\* The reservation a is moved out of when nothing is left on the shelf.
MovesReservation(a, p) ==
    stock[a].project # p /\ stock[a].available = 0 /\ stock[a].assigned > 0

\* assignMoveAssets, mode assign: q units of a for project p.
MayAssign(a, p, q) ==
    LET row == stock[a]
    IN /\ row.operational = "ready"
       /\ row.out = 0
       /\ q \in 1 .. (IF MovesReservation(a, p) THEN row.assigned ELSE row.available)
       /\ row.available > 0 /\ row.assigned > 0 => row.project = p

AssignedRow(a, p, q) ==
    LET moves == MovesReservation(a, p)
    IN WithCustody([stock[a] EXCEPT
        !.project = p,
        !.available = IF moves THEN @ ELSE @ - q,
        !.assigned = IF moves THEN q ELSE @ + q])

\* The same context tops its assignment up; another one replaces it.
AssignedTo(a, p, q) ==
    [project |-> p, status |-> "assigned",
     quantity |-> IF assignment[a] # Nothing /\ stock[a].project = p
                  THEN stock[a].assigned + q ELSE q]

\* A target without a project (department or user only) keeps the asset's project.
Assign(a, target, q) ==
    LET p == IF target = Nothing THEN stock[a].project ELSE target
    IN /\ Command
       /\ MayAssign(a, p, q)
       /\ stock' = [stock EXCEPT ![a] = AssignedRow(a, p, q)]
       /\ assignment' = [assignment EXCEPT ![a] = AssignedTo(a, p, q)]
       /\ UNCHANGED <<openRows, known, slip, case, incident>>

\* assignMoveAssets, mode release.
Release(a) ==
    LET row == stock[a]
    IN /\ Command
       /\ row.out = 0 /\ row.assigned > 0 /\ assignment[a] # Nothing
       /\ stock' = [stock EXCEPT ![a] = [row EXCEPT
            !.project = Nothing, !.available = @ + row.assigned, !.assigned = 0,
            !.custody = "available"]]
       /\ assignment' = [assignment EXCEPT ![a] = Nothing]
       /\ UNCHANGED <<openRows, known, slip, case, incident>>

\* reconcileAssetQuantities: a stock count found n units.
Reconcile(a, n) ==
    LET row == stock[a]
    IN /\ Command
       /\ row.active /\ n # row.total /\ n >= row.assigned + row.out
       /\ stock' = [stock EXCEPT ![a] = [row EXCEPT
            !.total = n, !.available = n - (row.assigned + row.out)]]
       /\ UNCHANGED <<openRows, assignment, known, slip, case, incident>>

\* archiveAsset.
Archive(a) ==
    LET row == stock[a]
    IN /\ Command
       /\ row.active
       /\ row.project = Nothing /\ assignment[a] = Nothing /\ row.custody = "available"
       /\ row.assigned = 0 /\ row.out = 0
       /\ incident[a] # "Open"
       /\ stock' = [stock EXCEPT ![a].active = FALSE]
       /\ UNCHANGED <<openRows, assignment, known, slip, case, incident>>

\* updateAsset may set is_active; nothing else of this state.
Reactivate(a) ==
    /\ Command
    /\ ~stock[a].active
    /\ stock' = [stock EXCEPT ![a].active = TRUE]
    /\ UNCHANGED <<openRows, assignment, known, slip, case, incident>>

(***************************************************************************)
(* Packing slips.                                                          *)
(***************************************************************************)

\* A slip takes from its project's reservation if there is one, else from the shelf.
SourceFlow(a, p) ==
    IF stock[a].project = p /\ stock[a].assigned > 0 THEN "assigned" ELSE "available"

\* Mutant: a slip may take more than its source holds.
MayOverIssue(a, p, q) ==
    stock[a].operational = "ready" /\ stock[a].custody # "checked_out"

MayIssue(a, p, q) ==
    LET row == stock[a]
    IN /\ row.operational = "ready"
       /\ q \in 1 .. (IF SourceFlow(a, p) = "assigned" THEN row.assigned ELSE row.available)
       /\ row.custody # "checked_out"
       /\ row.custody = "assigned" => row.project \in {Nothing, p}

IssuedRow(a, p, q) ==
    LET flow == SourceFlow(a, p)
    IN WithCustody([stock[a] EXCEPT
        !.project = p,
        !.available = IF flow = "available" THEN @ - q ELSE @,
        !.assigned = IF flow = "assigned" THEN @ - q ELSE @,
        !.out = @ + q])

\* createPackingSlip: q[a] units of each asset of A for project p.
CreatePackingSlip(s, p, A, q) ==
    /\ Command
    /\ slip[s] = Nothing /\ p \in known /\ A # {}
    /\ \A a \in A : MayIssue(a, p, q[a])
    /\ slip' = [slip EXCEPT ![s] = [project |-> p, status |-> "Issued",
        items |-> [a \in Assets |-> IF a \notin A THEN Nothing ELSE
            [quantity |-> q[a], source |-> SourceFlow(a, p), returned |-> FALSE]]]]
    /\ stock' = [a \in Assets |-> IF a \in A THEN IssuedRow(a, p, q[a]) ELSE stock[a]]
    /\ assignment' = [a \in Assets |-> IF a \notin A THEN assignment[a] ELSE
        [project |-> p, status |-> "checked_out",
         quantity |-> IF assignment[a] = Nothing THEN q[a]
                      ELSE IssuedRow(a, p, q[a]).assigned + IssuedRow(a, p, q[a]).out]]
    /\ UNCHANGED <<openRows, known, case, incident>>

ReturnedRow(a, s) ==
    LET item == slip[s].items[a]
        counted == [stock[a] EXCEPT
            !.available = IF item.source = "available" THEN @ + item.quantity ELSE @,
            !.assigned = IF item.source = "assigned" THEN @ + item.quantity ELSE @,
            !.out = Less(@, item.quantity)]
    IN WithCustody([counted EXCEPT !.project =
        IF counted.assigned > 0 \/ counted.out > 0 THEN slip[s].project ELSE Nothing])

\* Mutant: the assignment stays active when its last unit is back.
KeptAssignment(a, s) ==
    IF assignment[a] = Nothing THEN Nothing
    ELSE [assignment[a] EXCEPT !.quantity = ReturnedRow(a, s).assigned + ReturnedRow(a, s).out]

ReturnedAssignment(a, s) ==
    LET row == ReturnedRow(a, s)
    IN IF assignment[a] = Nothing \/ (row.assigned = 0 /\ row.out = 0) THEN Nothing
       ELSE [assignment[a] EXCEPT
                !.status = IF row.out > 0 THEN "checked_out" ELSE "assigned",
                !.quantity = row.assigned + row.out]

\* Mutant: one asset back closes the slip.
ClosedByFirstReturn(items) ==
    IF \E a \in Assets : items[a] # Nothing /\ items[a].returned THEN "Closed" ELSE "Issued"

ResolveSlipStatus(items) ==
    LET listed == {a \in Assets : items[a] # Nothing}
        back == {a \in listed : items[a].returned}
    IN IF back = listed THEN "Closed" ELSE IF back # {} THEN "Partial return" ELSE "Issued"

\* returnPackingSlipItems: the units of A come back.
ReturnPackingSlipItems(s, A) ==
    /\ Command
    /\ A # {} /\ \A a \in A : PendingItem(s, a)
    /\ LET items == [a \in Assets |-> IF a \in A
               THEN [slip[s].items[a] EXCEPT !.returned = TRUE] ELSE slip[s].items[a]]
       IN slip' = [slip EXCEPT ![s].items = items, ![s].status = ResolveSlipStatus(items)]
    /\ stock' = [a \in Assets |-> IF a \in A THEN ReturnedRow(a, s) ELSE stock[a]]
    /\ assignment' = [a \in Assets |-> IF a \in A THEN ReturnedAssignment(a, s) ELSE assignment[a]]
    /\ UNCHANGED <<openRows, known, case, incident>>

(***************************************************************************)
(* The project wizard.                                                     *)
(***************************************************************************)

\* An asset may be listed in several units whose dates do not overlap, once
\* in each: listed[a] times.  Every time the row read at the start is closed and a new one
\* inserted, so that only the last of the new rows is the active one.
SpareRows(a, p, n) ==
    {[project |-> p, quantity |-> stock[a].total, status |-> "assigned",
      since |-> commands, unit |-> u] : u \in 1 .. n - 1}

\* The slip of a unit's department lists one unit of each of its assets A.
SeededSlip(p, A) ==
    [project |-> p, status |-> IF A = {} THEN "Draft" ELSE "Issued",
     items |-> [a \in Assets |-> IF a \notin A THEN Nothing ELSE
        [quantity |-> 1, source |-> "available", returned |-> FALSE]]]

\* The wizard creates project p, reserves every unit of the listed assets and
\* writes the packing slips of those departments that ask for one.
SetupProject(p, listed, seeded) ==
    /\ Command
    /\ p \notin known
    /\ \A s \in DOMAIN seeded : slip[s] = Nothing
    /\ \A a \in Assets : Cardinality({s \in DOMAIN seeded : a \in seeded[s]}) <= listed[a]
    /\ \A a \in Assets : listed[a] > 0 =>
        /\ stock[a].custody # "checked_out"
        /\ stock[a].available > 0 => stock[a].assigned = 0 /\ stock[a].out = 0
    /\ known' = known \cup {p}
    /\ stock' = [a \in Assets |-> IF listed[a] = 0 THEN stock[a] ELSE
        [stock[a] EXCEPT !.project = p, !.available = 0, !.assigned = stock[a].total,
                         !.out = 0, !.custody = "assigned"]]
    /\ assignment' = [a \in Assets |-> IF listed[a] = 0 THEN assignment[a] ELSE
        [project |-> p, quantity |-> stock[a].total, status |-> "assigned"]]
    /\ beside' = [a \in Assets |-> beside[a] \cup SpareRows(a, p, listed[a])]
    /\ spread' = spread \cup {a \in Assets : listed[a] > 1}
    /\ slip' = [s \in Slips |->
        IF s \in DOMAIN seeded THEN SeededSlip(p, seeded[s]) ELSE slip[s]]
    /\ UNCHANGED <<case, incident>>

(***************************************************************************)
(* Repair cases and incidents.                                             *)
(***************************************************************************)

\* Mutant: a repaired asset is back on the shelf with all its units.
RestockedRow(row, status) ==
    [row EXCEPT !.operational = IF status = "Repaired" THEN "ready" ELSE "maintenance",
                !.available = IF status = "Repaired" THEN Less(row.total, row.assigned) ELSE 0]

\* applyRmaStatusToAssets for one asset.
RepairedRow(row, status) ==
    LET operational == CASE status = "No repair / retired" -> "retired"
                         [] status = "Repaired" -> "ready"
                         [] OTHER -> "maintenance"
    IN [row EXCEPT !.operational = operational,
                   !.custody = IF operational = "ready" THEN "available" ELSE operational,
                   !.available = IF operational = "ready"
                                 THEN Less(row.total, row.assigned + row.out) ELSE 0]

NotRetired(A) == \A a \in A : stock[a].operational # "retired"

CreateRmaCase(c, A) ==
    /\ Command
    /\ case[c] = Nothing /\ A # {} /\ NotRetired(A)
    /\ case' = [case EXCEPT ![c] = [status |-> "Needs review", assets |-> A]]
    /\ stock' = [a \in Assets |->
        IF a \in A THEN RepairedRow(stock[a], "Needs review") ELSE stock[a]]
    /\ UNCHANGED <<openRows, assignment, known, slip, incident>>

\* updateRmaCase replaces the list of assets; the status reaches those now
\* listed, and only when it changes.
UpdateRmaCase(c, A, status) ==
    /\ Command
    /\ case[c] # Nothing /\ A # {} /\ NotRetired(A \ case[c].assets)
    /\ case' = [case EXCEPT ![c] = [status |-> status, assets |-> A]]
    /\ stock' = [a \in Assets |-> IF a \in A /\ status # case[c].status
        THEN RepairedRow(stock[a], status) ELSE stock[a]]
    /\ UNCHANGED <<openRows, assignment, known, slip, incident>>

\* reportIncident; updateIncident may reopen it or close it by hand.
ReportIncident(a) ==
    /\ Command
    /\ incident[a] = "none"
    /\ incident' = [incident EXCEPT ![a] = "Open"]
    /\ UNCHANGED <<openRows, stock, assignment, known, slip, case>>

UpdateIncident(a, status) ==
    /\ Command
    /\ incident[a] # "none"
    /\ incident' = [incident EXCEPT ![a] = status]
    /\ UNCHANGED <<openRows, stock, assignment, known, slip, case>>

\* resolveIncident, with or without retiring the asset.
ResolveIncident(a, retire) ==
    /\ Command
    /\ incident[a] # "none"
    /\ incident' = [incident EXCEPT ![a] = "Resolved"]
    /\ stock' = IF retire
        THEN [stock EXCEPT ![a].operational = "retired", ![a].available = 0]
        ELSE stock
    /\ UNCHANGED <<openRows, assignment, known, slip, case>>

(***************************************************************************)
(* repairAssetCurrentStateFromActiveAssignments runs at every start and    *)
(* before every listing of a project's equipment.  Of the open rows with a *)
(* project it takes up the one last written to: the active one if it has a *)
(* project (every command that writes to a row makes it the active one),   *)
(* else the youngest beside it; rows one setup wrote differ in nothing     *)
(* kept here but the unit.                                                 *)
(***************************************************************************)
Candidates(a) == {r \in beside[a] : r.project # Nothing}

HasProject(row) == row # Nothing /\ row.project # Nothing

TakesUp(a) == ~HasProject(assignment[a]) /\ Candidates(a) # {}

Youngest(a) == CHOOSE r \in Candidates(a) : \A t \in Candidates(a) : t.since <= r.since

RepairedAssignment(a) ==
    IF ~TakesUp(a) THEN assignment[a]
    ELSE [project |-> Youngest(a).project, quantity |-> Youngest(a).quantity,
          status |-> Youngest(a).status]

\* An active row without a project is left open when another is taken up.
Displaced(a) ==
    IF assignment[a] = Nothing THEN {}
    ELSE {[project |-> Nothing, quantity |-> assignment[a].quantity,
           status |-> assignment[a].status, since |-> commands, unit |-> 0]}

RebuiltRow(a, held) ==
    LET row == stock[a]
        quantity == AtLeast(1, AtMost(row.total, held.quantity))
        open == AtMost(row.total, Pending(a))
        checkedOut == held.status = "checked_out"
        out == IF checkedOut THEN AtLeast(open, quantity) ELSE open
        assigned == IF checkedOut THEN Less(quantity, out) ELSE AtMost(row.total - out, quantity)
    IN WithCustody([row EXCEPT !.project = held.project, !.out = out,
                        !.assigned = assigned, !.available = Less(row.total, assigned + out)])

RepairState ==
    /\ stock' = [a \in Assets |-> IF HasProject(RepairedAssignment(a))
        THEN RebuiltRow(a, RepairedAssignment(a)) ELSE stock[a]]
    /\ assignment' = [a \in Assets |-> RepairedAssignment(a)]
    /\ beside' = [a \in Assets |-> IF TakesUp(a)
        THEN (beside[a] \ {Youngest(a)}) \cup Displaced(a) ELSE beside[a]]
    /\ UNCHANGED <<spread, known, slip, case, incident, commands>>

Next ==
    \/ \E a \in Assets, p \in known \cup {Nothing}, q \in 1..MaxQuantity : Assign(a, p, q)
    \/ \E a \in Assets : Release(a) \/ Archive(a) \/ Reactivate(a) \/ ReportIncident(a)
    \/ \E a \in Assets, n \in 1..MaxQuantity : Reconcile(a, n)
    \/ \E s \in Slips, p \in known, A \in SUBSET Assets :
        \E q \in [A -> 1..MaxQuantity] : CreatePackingSlip(s, p, A, q)
    \/ \E s \in Slips, A \in SUBSET Assets : ReturnPackingSlipItems(s, A)
    \/ \E p \in Projects, listed \in [Assets -> 0..MaxUnits], S \in SUBSET Slips :
        \E seeded \in [S -> SUBSET Assets] : SetupProject(p, listed, seeded)
    \/ \E c \in Cases, A \in SUBSET Assets : CreateRmaCase(c, A)
    \/ \E c \in Cases, A \in SUBSET Assets, status \in CaseStatuses : UpdateRmaCase(c, A, status)
    \/ \E a \in Assets, retire \in BOOLEAN : ResolveIncident(a, retire)
    \/ \E a \in Assets, status \in {"Open", "Resolved"} : UpdateIncident(a, status)
    \/ RepairState

Spec == Init /\ [][Next]_vars

-----------------------------------------------------------------------------

TypeOK ==
    /\ stock \in [Assets -> Stock]
    /\ assignment \in [Assets -> Assignment \cup {Nothing}]
    /\ beside \in [Assets -> SUBSET Spare]
    /\ spread \in SUBSET Assets
    /\ known \in SUBSET Projects
    /\ slip \in [Slips -> Slip \cup {Nothing}]
    /\ case \in [Cases -> Case \cup {Nothing}]
    /\ incident \in [Assets -> {"none", "Open", "Resolved"}]
    /\ commands \in 0 .. MaxCommands

(***************************************************************************)
(* What is out is what the slips list as pending; every unit of an asset   *)
(* in service is on the shelf, reserved or out (one in repair may be       *)
(* short); and the active assignment covers what is reserved and out.      *)
(***************************************************************************)
SlipsAgree(a) == stock[a].out = Pending(a)

UnitsAccounted(a) ==
    LET row == stock[a] units == row.available + row.assigned + row.out
    IN IF row.operational = "ready" THEN units = row.total ELSE units <= row.total

AssignmentAgrees(a) ==
    LET row == stock[a]
    IN IF assignment[a] = Nothing THEN row.assigned = 0 /\ row.out = 0
       ELSE /\ assignment[a].quantity = row.assigned + row.out
            /\ row.assigned + row.out > 0
            /\ assignment[a].status = IF row.out > 0 THEN "checked_out" ELSE "assigned"

Consistent(a) == SlipsAgree(a) /\ UnitsAccounted(a) /\ AssignmentAgrees(a)

\* From agreement every command keeps the tables in agreement, except the
\* wizard, the rewriting of the counters, and moving a reservation with fewer units
\* than it has: issue, return, release, top-up, stock count, repair and
\* retirement, in any order, on any number of slips and cases.
DriftsOnlyByThree ==
    [][\A a \in Assets : Consistent(a) /\ ~Consistent(a)' =>
        \/ known' # known
        \/ commands' = commands
        \/ /\ stock[a].available = 0 /\ stock'[a].assigned < stock[a].assigned
           /\ stock'[a].project # stock[a].project]_vars

\* A slip is closed exactly when every asset it lists is back, whatever
\* happened to the counters meanwhile; the wizard's slip that lists nothing is a draft.
SlipStatusMatchesItems ==
    \A s \in Slips : slip[s] # Nothing =>
        LET listed == {a \in Assets : slip[s].items[a] # Nothing}
        IN /\ slip[s].status = "Draft" <=> listed = {}
           /\ listed # {} =>
                /\ slip[s].status = "Closed" <=> \A a \in listed : ~PendingItem(s, a)
                /\ slip[s].status = "Issued" <=> \A a \in listed : PendingItem(s, a)

\* The active assignment always holds units, so that release or return can end
\* it; and a row is left open beside it, which neither of them reaches and which
\* reserves the asset again after its release, only if the wizard
\* has listed the asset in several units.
AssignmentHoldsUnits ==
    \A a \in Assets :
        /\ assignment[a] # Nothing => stock[a].assigned + stock[a].out > 0
        /\ beside[a] # {} => a \in spread
===============================================================================
