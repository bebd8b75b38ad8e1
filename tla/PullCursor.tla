------------------------------- MODULE PullCursor -------------------------------
(***************************************************************************)
(* One remote table paged into a device by a composite cursor.             *)
(*                                                                         *)
(* Postgres stamps a row when the statement that writes it starts and      *)
(* shows it when its transaction commits.  The renderer runs one pull pass *)
(* at a time: it fetches a page of rows past its (timestamp, id) cursor,   *)
(* hands it to the main process, and moves the cursor to the page's last   *)
(* row only when no row of the page was refused (an unsent local change, a *)
(* missing dependency, an error).  A pass reads at most MaxBatches pages;  *)
(* a pass asked for during another one follows it.                         *)
(***************************************************************************)
EXTENDS Integers, FiniteSets

CONSTANTS
    Ids,          \* row ids, in their collation order
    PageSize,     \* PULL_BATCH_SIZE
    MaxBatches,   \* MAX_BATCHES_PER_ENTITY
    Stubborn,     \* rows the device never accepts
    MaxWrites,    \* bound: write transactions
    MaxRefusals,  \* bound: times a row becomes unacceptable to the device
    MaxFailures   \* bound: queries that fail, renderers that go away

ASSUME CursorAssumption ==
    /\ Ids \subseteq Nat \ {0}
    /\ IsFiniteSet(Ids)
    /\ Stubborn \subseteq Ids
    /\ PageSize \in Nat \ {0}
    /\ MaxBatches \in Nat \ {0}
    /\ MaxWrites \in Nat /\ MaxRefusals \in Nat /\ MaxFailures \in Nat

VARIABLES
    clock,    \* the clock of Postgres
    open,     \* transactions started and not committed: the rows and their stamp
    table,    \* the committed rows: stamp is updated_at, ver counts the writes
    seen,     \* seen[i]: the newest write of row i the device has taken in
    refused,  \* rows the device would refuse now
    cursor,   \* the cursor in localStorage; id 0 for a timestamp alone
    phase,    \* the await the pass is in; "idle" is inFlightRef.current = false
    page,     \* the rows fetched and not yet applied
    batches,  \* pages consumed by this pass
    rerun,    \* rerunRequestedRef.current
    overtaken,  \* history: stamps of the transactions open while a page past them was read
    writes, refusals, failures

tableVars == <<clock, open, table, writes>>
passVars == <<phase, page, batches, rerun>>
vars == <<tableVars, seen, refused, cursor, passVars, overtaken, refusals, failures>>

Row == [id : Ids, stamp : Nat, ver : Nat]
Committed == {[id |-> i, stamp |-> table[i].stamp, ver |-> table[i].ver] :
                i \in {j \in Ids : table[j].ver > 0}}

\* Order of the query: by timestamp, then by id.
Before(a, b) == a.stamp < b.stamp \/ (a.stamp = b.stamp /\ a.id < b.id)

Init ==
    /\ clock = 0
    /\ open = {}
    /\ table = [i \in Ids |-> [stamp |-> 0, ver |-> 0]]
    /\ seen = [i \in Ids |-> 0]
    /\ refused = Stubborn
    /\ cursor = [stamp |-> 0, id |-> 0]
    /\ phase = "idle"
    /\ page = {}
    /\ batches = 0
    /\ rerun = FALSE
    /\ overtaken = {}
    /\ writes = 0
    /\ refusals = 0
    /\ failures = 0

-------------------------------------------------------------------------------
(* Postgres                                                                *)

StampRowsByWorkstation(S) ==
    /\ writes < MaxWrites
    /\ writes' = writes + 1
    /\ clock' = clock + 1
    /\ \E stamp \in 1..(clock + 1) : open' = open \cup {[ids |-> S, stamp |-> stamp]}
    /\ UNCHANGED <<table, seen, refused, cursor, passVars, overtaken, refusals, failures>>

\* A statement starts: its rows get one stamp (a cascade or a bulk statement
\* writes several).
StampRows(S) ==
    /\ writes < MaxWrites
    /\ writes' = writes + 1
    /\ clock' = clock + 1
    /\ open' = open \cup {[ids |-> S, stamp |-> clock + 1]}
    /\ UNCHANGED <<table, seen, refused, cursor, passVars, overtaken, refusals, failures>>

Commit(w) ==
    /\ open' = open \ {w}
    /\ table' = [i \in Ids |-> IF i \in w.ids
                               THEN [stamp |-> w.stamp, ver |-> table[i].ver + 1]
                               ELSE table[i]]
    /\ UNCHANGED <<clock, writes, seen, refused, cursor, passVars, overtaken, refusals, failures>>

-------------------------------------------------------------------------------
(* The device                                                              *)

\* The row gets an unsent local change, or misses a dependency.
Refuse(i) ==
    /\ i \notin refused
    /\ refusals < MaxRefusals
    /\ refusals' = refusals + 1
    /\ refused' = refused \cup {i}
    /\ UNCHANGED <<tableVars, seen, cursor, passVars, overtaken, failures>>

\* The change is sent, the dependency arrives.
Accept(i) ==
    /\ i \in refused \ Stubborn
    /\ refused' = refused \ {i}
    /\ UNCHANGED <<tableVars, seen, cursor, passVars, overtaken, refusals, failures>>

\* runOnce, called by the interval and by the immediate-pull event.
RunOnce ==
    /\ \/ /\ phase = "idle"
          /\ phase' = "query"
          /\ batches' = 0
          /\ UNCHANGED rerun
       \/ /\ phase # "idle"
          /\ rerun' = TRUE
          /\ UNCHANGED <<phase, batches>>
    /\ UNCHANGED <<tableVars, seen, refused, cursor, page, overtaken, refusals, failures>>

\* The finally block: a pass asked for meanwhile starts at once.
EndPass ==
    /\ phase' = IF rerun THEN "query" ELSE "idle"
    /\ rerun' = FALSE
    /\ batches' = 0

PastByStamp(row) == row.stamp > cursor.stamp
Past(row) == Before(cursor, row)

\* Transactions that will commit rows the query could not see, behind its last row.
OpenBehind(rows) == {w \in open : \E row \in rows : w.stamp <= row.stamp}

\* The query returns the first PageSize rows past the cursor; none ends the pass.
FetchPage ==
    LET found == {row \in Committed : Past(row)} IN
    /\ phase = "query"
    /\ IF found = {}
       THEN EndPass /\ UNCHANGED <<page, overtaken>>
       ELSE /\ \E rows \in SUBSET found :
                 /\ IF Cardinality(found) <= PageSize
                    THEN rows = found
                    ELSE Cardinality(rows) = PageSize
                 /\ \A a \in rows, b \in found \ rows : Before(a, b)
                 /\ page' = rows
                 /\ overtaken' = overtaken \cup {w.stamp : w \in OpenBehind(rows)}
            /\ phase' = "apply"
            /\ UNCHANGED <<rerun, batches>>
    /\ UNCHANGED <<tableVars, seen, refused, cursor, refusals, failures>>

AdvancesAnyway(rows) == TRUE
CanAdvance(rows) == \A row \in rows : row.id \notin refused

MorePagesThanAllowed(rows) == Cardinality(rows) >= PageSize
MorePages(rows) == Cardinality(rows) >= PageSize /\ batches + 1 < MaxBatches

IsLast(row, rows) == \A other \in rows \ {row} : Before(other, row)

\* The main process takes in the rows it accepts; the cursor follows the page
\* only when it accepted all of them.
ApplyPage ==
    /\ phase = "apply"
    /\ seen' = [i \in Ids |->
                  IF i \notin refused /\ \E row \in page : row.id = i
                  THEN (CHOOSE row \in page : row.id = i).ver
                  ELSE seen[i]]
    /\ page' = {}
    /\ IF CanAdvance(page)
       THEN \E last \in page :
              /\ IsLast(last, page)
              /\ cursor' = [stamp |-> last.stamp, id |-> last.id]
       ELSE UNCHANGED cursor
    /\ IF CanAdvance(page) /\ MorePages(page)
       THEN /\ phase' = "query"
            /\ batches' = batches + 1
            /\ UNCHANGED rerun
       ELSE EndPass
    /\ UNCHANGED <<tableVars, refused, overtaken, refusals, failures>>

\* The query or the call to the main process fails.
PassFails ==
    /\ phase # "idle"
    /\ failures < MaxFailures
    /\ failures' = failures + 1
    /\ page' = {}
    /\ EndPass
    /\ UNCHANGED <<tableVars, seen, refused, cursor, overtaken, refusals>>

\* The window is reloaded: what the pass held is gone, the cursor stays.
Reload ==
    /\ phase # "idle"
    /\ failures < MaxFailures
    /\ failures' = failures + 1
    /\ phase' = "idle"
    /\ page' = {}
    /\ batches' = 0
    /\ rerun' = FALSE
    /\ UNCHANGED <<tableVars, seen, refused, cursor, overtaken, refusals>>

Next ==
    \/ \E S \in SUBSET Ids \ {{}} : StampRows(S)
    \/ \E w \in open : Commit(w)
    \/ \E i \in Ids : Refuse(i) \/ Accept(i)
    \/ RunOnce
    \/ FetchPage
    \/ ApplyPage
    \/ PassFails
    \/ Reload

Spec == Init /\ [][Next]_vars

\* The interval keeps calling, requests are answered, transactions commit, and
\* what made the device refuse a row is eventually resolved.
FairSpec ==
    /\ Spec
    /\ WF_vars(\E w \in open : Commit(w))
    /\ \A i \in Ids : WF_vars(Accept(i))
    /\ WF_vars(RunOnce)
    /\ WF_vars(FetchPage)
    /\ WF_vars(ApplyPage)

-------------------------------------------------------------------------------
(* Properties                                                              *)

\* Every variable has its type; a pass never consumes more pages than allowed.
TypeOK ==
    /\ clock \in Nat
    /\ open \subseteq [ids : SUBSET Ids, stamp : Nat]
    /\ table \in [Ids -> [stamp : Nat, ver : Nat]]
    /\ seen \in [Ids -> Nat]
    /\ refused \subseteq Ids
    /\ cursor \in [stamp : Nat, id : Nat]
    /\ phase \in {"idle", "query", "apply"}
    /\ page \subseteq Row
    /\ (page # {}) <=> (phase = "apply")
    /\ batches \in 0..(MaxBatches - 1)
    /\ rerun \in BOOLEAN
    /\ overtaken \subseteq Nat
    /\ writes \in Nat /\ refusals \in Nat /\ failures \in Nat

\* The cursor never stands past a committed write the device has not taken in:
\* whatever pages were cut between equal stamps, refused, failed or lost, a row
\* behind the cursor is a row the device has.  Only a transaction that was open
\* while a page past its stamp was read can commit behind the cursor unseen.
NothingPassedOver ==
    \A row \in Committed :
        ~Past(row) => seen[row.id] = row.ver \/ row.stamp \in overtaken

\* A page in hand stays complete while the table moves on under it.  But for the
\* transactions that page or an earlier one overtook, every committed row past
\* the cursor and up to the page's last row is in the page, a row of the page
\* that was written again is still past the cursor, and every transaction still
\* open will stamp its rows past the cursor and the page.
PageIsComplete ==
    /\ \A w \in open : w.stamp \notin overtaken =>
         w.stamp > cursor.stamp /\ \A row \in page : w.stamp > row.stamp
    /\ \A row \in page : Past(row)
    /\ \A row \in Committed, other \in page : row.stamp \notin overtaken =>
         /\ Past(row) /\ ~Before(other, row) => row \in page
         /\ row.id = other.id => Past(row)

\* The page holds one version of a row, and no stamp is ahead of the clock.
StampsAreBehindClock ==
    /\ \A row, other \in page : row.id = other.id => row = other
    /\ \A row \in page : row.stamp <= clock
    /\ \A w \in open : w.stamp <= clock
    /\ \A i \in Ids : table[i].stamp <= clock
    /\ cursor.stamp <= clock

\* The inductive invariant behind NothingPassedOver.
IInv == TypeOK /\ StampsAreBehindClock /\ PageIsComplete /\ NothingPassedOver

\* Every committed write reaches the device, unless a newer write of its row does
\* or its transaction was overtaken.
EveryRowArrives ==
    \A i \in Ids \ Stubborn :
        seen[i] # table[i].ver ~> seen[i] = table[i].ver \/ table[i].stamp \in overtaken
===============================================================================
