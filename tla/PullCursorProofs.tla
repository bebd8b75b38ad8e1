---------------------------- MODULE PullCursorProofs ----------------------------
(***************************************************************************)
(* What the composite cursor guarantees, for every table, page size and    *)
(* batch limit: the cursor never passes a committed write the device has   *)
(* not taken in, unless its transaction was open while a page past its     *)
(* stamp was read.                                                         *)
(***************************************************************************)
EXTENDS PullCursor, FiniteSetTheorems, TLAPS

\* A pass has at least one page to read.
LEMMA FirstBatch == 0 \in 0..(MaxBatches - 1)
BY CursorAssumption

\* The initial state satisfies the inductive invariant.
LEMMA InitEstablishes == Init => IInv
<1> SUFFICES ASSUME Init PROVE IInv
  OBVIOUS
<1> USE CursorAssumption DEF Init
<1>1. Committed = {}
  BY DEF Committed
<1>2. TypeOK
  BY FirstBatch DEF TypeOK, Row
<1>3. StampsAreBehindClock
  BY DEF StampsAreBehindClock
<1>4. PageIsComplete /\ NothingPassedOver
  BY <1>1 DEF PageIsComplete, NothingPassedOver
<1> QED
  BY <1>2, <1>3, <1>4 DEF IInv

\* Committed rows are rows of the table.
LEMMA CommittedRows ==
    ASSUME TypeOK
    PROVE  /\ Committed \subseteq Row
           /\ \A row, other \in Committed : row.id = other.id => row = other
           /\ \A row \in Committed : /\ row.stamp = table[row.id].stamp
                                     /\ row.ver = table[row.id].ver
BY DEF Committed, Row, TypeOK

\* Steps that leave the table, the cursor, the page and what the device has seen
\* alone keep the invariant.
LEMMA QuietSteps ==
    ASSUME IInv, TypeOK', UNCHANGED <<tableVars, seen, cursor, page, overtaken>>
    PROVE  IInv'
<1> USE DEF IInv, tableVars
<1>1. Committed' = Committed
  BY DEF Committed
<1>2. StampsAreBehindClock'
  BY DEF StampsAreBehindClock
<1>3. \A row : Past(row)' = Past(row)
  BY DEF Past, Before
<1>4. PageIsComplete'
  BY <1>1, <1>3 DEF PageIsComplete, Before
<1>5. NothingPassedOver'
  BY <1>1, <1>3 DEF NothingPassedOver
<1> QED
  BY <1>2, <1>4, <1>5

\* EndPass and its callers leave the pass well typed.
LEMMA EndPassType ==
    ASSUME EndPass
    PROVE  phase' \in {"idle", "query"} /\ rerun' \in BOOLEAN /\ batches' \in 0..(MaxBatches - 1)
BY FirstBatch DEF EndPass

\* What the device would refuse changes, and nothing else.
LEMMA UnacceptableType ==
    ASSUME TypeOK, NEW i \in Ids, Refuse(i) \/ Accept(i)
    PROVE  TypeOK'
<1>1. refused' \subseteq Ids /\ refusals' \in Nat
  BY DEF TypeOK, Refuse, Accept
<1>2. UNCHANGED <<tableVars, seen, cursor, passVars, overtaken, failures>>
  BY DEF Refuse, Accept
<1> QED
  BY <1>1, <1>2 DEF TypeOK, tableVars, passVars

LEMMA StampRowsStep ==
    ASSUME IInv, NEW S \in SUBSET Ids \ {{}}, StampRows(S)
    PROVE  IInv'
<1> USE DEF IInv, StampRows, passVars
<1>1. TypeOK'
  BY DEF TypeOK, Row
<1>2. StampsAreBehindClock'
  BY DEF StampsAreBehindClock, TypeOK, Row
<1>3. Committed' = Committed /\ \A row : Past(row)' = Past(row)
  BY DEF Committed, Past, Before
<1>4. PageIsComplete'
  <2>1. \A w \in open' : w.stamp \notin overtaken' =>
          w.stamp > cursor'.stamp /\ \A row \in page' : w.stamp > row.stamp
    BY DEF PageIsComplete, StampsAreBehindClock, TypeOK, Row
  <2> QED
    BY <2>1, <1>3 DEF PageIsComplete, Before
<1>5. NothingPassedOver'
  BY <1>3 DEF NothingPassedOver
<1> QED
  BY <1>1, <1>2, <1>4, <1>5

LEMMA CommitStep ==
    ASSUME IInv, NEW w \in open, Commit(w)
    PROVE  IInv'
<1> USE DEF IInv, Commit, passVars
<1>1. w \in [ids : SUBSET Ids, stamp : Nat]
  BY DEF TypeOK
<1>2. TypeOK'
  BY <1>1 DEF TypeOK, Row
<1>3. StampsAreBehindClock'
  BY <1>1 DEF StampsAreBehindClock, TypeOK
<1>4. \A row : Past(row)' = Past(row)
  BY DEF Past, Before
<1>5. \A row \in Committed' : row \in Committed \/ row.stamp = w.stamp
  BY <1>1 DEF Committed, TypeOK
<1>6. Committed' \subseteq Row /\ Committed \subseteq Row
  BY <1>2, CommittedRows DEF Committed, Row, TypeOK
<1>7. \A row \in Committed' : row.stamp = w.stamp /\ row.stamp \notin overtaken => Past(row)
  BY <1>1, <1>6 DEF PageIsComplete, Past, Before, TypeOK, Row
<1>8. PageIsComplete'
  <2>1. ASSUME NEW row \in Committed', NEW other \in page, row.stamp \notin overtaken
        PROVE  /\ Past(row) /\ ~Before(other, row) => row \in page
               /\ row.id = other.id => Past(row)
    <3>1. CASE row \in Committed
      BY <2>1, <3>1 DEF PageIsComplete
    <3>2. CASE row.stamp = w.stamp
      <4>1. other.stamp < row.stamp
        BY <2>1, <3>2, <1>1, <1>6 DEF PageIsComplete, TypeOK, Row
      <4> QED
        BY <2>1, <4>1, <3>2, <1>7 DEF Before
    <3> QED
      BY <3>1, <3>2, <1>5
  <2>2. \A v \in open' : v.stamp \notin overtaken' =>
          v.stamp > cursor'.stamp /\ \A row \in page' : v.stamp > row.stamp
    BY DEF PageIsComplete
  <2>3. \A row \in page' : Past(row)'
    BY <1>4 DEF PageIsComplete
  <2> QED
    BY <2>1, <2>2, <2>3, <1>4 DEF PageIsComplete, Before
<1>9. NothingPassedOver'
  <2> SUFFICES ASSUME NEW row \in Committed', ~Past(row), row.stamp \notin overtaken
               PROVE  seen[row.id] = row.ver
    BY <1>4 DEF NothingPassedOver
  <2> QED
    BY <1>5, <1>7 DEF NothingPassedOver
<1> QED
  BY <1>2, <1>3, <1>8, <1>9

LEMMA FetchPageStep ==
    ASSUME IInv, FetchPage
    PROVE  IInv'
<1> DEFINE found == {row \in Committed : Past(row)}
<1> USE DEF IInv
<1>1. phase = "query" /\ UNCHANGED <<tableVars, seen, refused, cursor, refusals, failures>>
  BY DEF FetchPage
<1>2. CASE found = {}
  <2>1. EndPass /\ UNCHANGED <<page, overtaken>>
    BY <1>2 DEF FetchPage
  <2>2. TypeOK'
    BY <2>1, <1>1, EndPassType DEF TypeOK, tableVars, Row
  <2> QED
    BY <2>1, <2>2, <1>1, QuietSteps
<1>3. CASE found # {}
  <2>1. PICK rows \in SUBSET found :
          /\ IF Cardinality(found) <= PageSize THEN rows = found ELSE Cardinality(rows) = PageSize
          /\ \A a \in rows, b \in found \ rows : Before(a, b)
          /\ page' = rows
          /\ overtaken' = overtaken \cup {w.stamp : w \in OpenBehind(rows)}
    BY <1>3 DEF FetchPage
  <2>2. phase' = "apply" /\ UNCHANGED <<rerun, batches>>
    BY <1>3 DEF FetchPage
  <2>3. rows # {}
    BY <2>1, <1>3, FS_EmptySet, CursorAssumption
  <2>4. Committed' = Committed /\ \A row : Past(row)' = Past(row)
    BY <1>1 DEF Committed, Past, Before, tableVars
  <2>5. page' \subseteq Committed /\ page' \subseteq Row
    BY <2>1, CommittedRows
  <2>6. TypeOK'
    <3>1. overtaken' \subseteq Nat
      BY <2>1 DEF TypeOK, OpenBehind
    <3> QED
      BY <3>1, <2>2, <2>3, <2>1, <2>5, <1>1 DEF TypeOK, tableVars
  <2>7. \A row \in Committed : row.stamp <= clock
    BY CommittedRows DEF StampsAreBehindClock, Row
  <2>8. StampsAreBehindClock'
    BY <2>5, <2>7, <1>1, CommittedRows DEF StampsAreBehindClock, tableVars
  <2>9. PageIsComplete'
    <3>1. ASSUME NEW row \in Committed, NEW other \in rows
          PROVE  /\ Past(row) /\ ~Before(other, row) => row \in rows
                 /\ row.id = other.id => Past(row)
      BY <2>1, CommittedRows
    <3>2. ASSUME NEW w \in open, w.stamp \notin overtaken'
          PROVE  w.stamp > cursor.stamp /\ \A row \in rows : w.stamp > row.stamp
      <4>1. w \notin OpenBehind(rows) /\ w.stamp \notin overtaken
        BY <2>1, <3>2
      <4>2. \A row \in rows : ~(w.stamp <= row.stamp) /\ row.stamp \in Nat /\ w.stamp \in Nat
        BY <2>1, <2>5, <4>1 DEF OpenBehind, TypeOK, Row
      <4> QED
        BY <4>1, <4>2 DEF PageIsComplete
    <3>3. \A row \in rows : Past(row)
      BY <2>1
    <3> QED
      BY <3>1, <3>2, <3>3, <2>1, <2>4, <1>1 DEF PageIsComplete, tableVars, Before
  <2>10. NothingPassedOver'
    BY <2>1, <2>4, <1>1 DEF NothingPassedOver
  <2> QED
    BY <2>6, <2>8, <2>9, <2>10
<1> QED
  BY <1>2, <1>3

LEMMA ApplyPageStep ==
    ASSUME IInv, ApplyPage
    PROVE  IInv'
<1> USE DEF IInv
<1>1. /\ phase = "apply"
      /\ page' = {}
      /\ UNCHANGED <<tableVars, refused, overtaken, refusals, failures>>
  BY DEF ApplyPage
<1>2. Committed' = Committed
  BY <1>1 DEF Committed, tableVars
<1>3. \A i \in Ids : (\A row \in page : row.id # i) => seen'[i] = seen[i]
  BY DEF ApplyPage
<1>4. ASSUME NEW row \in page, row.id \notin refused
      PROVE  seen'[row.id] = row.ver
  <2>1. row.id \in Ids
    BY DEF TypeOK, Row
  <2>2. (CHOOSE other \in page : other.id = row.id) = row
    BY DEF StampsAreBehindClock
  <2> QED
    BY <2>1, <2>2, <1>4 DEF ApplyPage
<1>5. seen' \in [Ids -> Nat]
  <2>1. \A i \in Ids : (\E row \in page : row.id = i) =>
                         (CHOOSE row \in page : row.id = i).ver \in Nat
    <3> SUFFICES ASSUME NEW i \in Ids, NEW r \in page, r.id = i
                 PROVE  (CHOOSE row \in page : row.id = i).ver \in Nat
      OBVIOUS
    <3>1. (CHOOSE row \in page : row.id = i) = r
      BY DEF StampsAreBehindClock
    <3> QED
      BY <3>1 DEF TypeOK, Row
  <2> QED
    BY <2>1 DEF ApplyPage, TypeOK
<1>6. phase' \in {"idle", "query"} /\ rerun' \in BOOLEAN /\ batches' \in 0..(MaxBatches - 1)
  <2>1. CASE CanAdvance(page) /\ MorePages(page)
    BY <2>1, CursorAssumption DEF ApplyPage, MorePages, TypeOK
  <2>2. CASE ~(CanAdvance(page) /\ MorePages(page))
    BY <2>2, EndPassType DEF ApplyPage
  <2> QED
    BY <2>1, <2>2
<1>7. CASE CanAdvance(page)
  <2>1. PICK last \in page : /\ IsLast(last, page)
                             /\ cursor' = [stamp |-> last.stamp, id |-> last.id]
    BY <1>7 DEF ApplyPage
  <2>2. last \in Row /\ cursor' \in [stamp : Nat, id : Nat]
    BY <2>1, CursorAssumption DEF TypeOK, Row
  <2>3. TypeOK'
    BY <1>1, <1>5, <1>6, <2>2 DEF TypeOK, tableVars
  <2>4. StampsAreBehindClock'
    BY <1>1, <2>1 DEF StampsAreBehindClock, tableVars
  <2>5. PageIsComplete'
    BY <1>1, <2>1 DEF PageIsComplete, tableVars
  <2>6. NothingPassedOver'
    <3> SUFFICES ASSUME NEW row \in Committed, ~Past(row)', row.stamp \notin overtaken
                 PROVE  seen'[row.id] = row.ver
      BY <1>1, <1>2 DEF NothingPassedOver
    <3>1. ~Before(last, row)
      BY <2>1 DEF Past, Before
    <3>2. CASE Past(row)
      <4>1. row \in page
        BY <3>1, <3>2, <2>1 DEF PageIsComplete
      <4> QED
        BY <4>1, <1>4, <1>7 DEF CanAdvance
    <3>3. CASE ~Past(row)
      <4>1. \A other \in page : other.id # row.id
        BY <3>3 DEF PageIsComplete
      <4>2. row.id \in Ids
        BY CommittedRows DEF Row
      <4> QED
        BY <4>1, <4>2, <1>3, <3>3 DEF NothingPassedOver
    <3> QED
      BY <3>2, <3>3
  <2> QED
    BY <2>3, <2>4, <2>5, <2>6
<1>8. CASE ~CanAdvance(page)
  <2>1. UNCHANGED cursor
    BY <1>8 DEF ApplyPage
  <2>2. TypeOK'
    BY <1>1, <1>5, <1>6, <2>1 DEF TypeOK, tableVars
  <2>3. StampsAreBehindClock'
    BY <1>1, <2>1 DEF StampsAreBehindClock, tableVars
  <2>4. PageIsComplete'
    BY <1>1, <2>1 DEF PageIsComplete, tableVars
  <2>5. NothingPassedOver'
    <3> SUFFICES ASSUME NEW row \in Committed, ~Past(row), row.stamp \notin overtaken
                 PROVE  seen'[row.id] = row.ver
      BY <1>1, <1>2, <2>1 DEF NothingPassedOver, Past, Before
    <3>1. \A other \in page : other.id # row.id
      BY DEF PageIsComplete
    <3>2. row.id \in Ids
      BY CommittedRows DEF Row
    <3> QED
      BY <3>1, <3>2, <1>3 DEF NothingPassedOver
  <2> QED
    BY <2>2, <2>3, <2>4, <2>5
<1> QED
  BY <1>7, <1>8

\* A failed or lost pass drops its page.
LEMMA LostPass ==
    ASSUME IInv, TypeOK', page' = {}, UNCHANGED <<tableVars, seen, cursor, overtaken>>
    PROVE  IInv'
<1> USE DEF IInv, tableVars
<1>1. Committed' = Committed /\ \A row : Past(row)' = Past(row)
  BY DEF Committed, Past, Before
<1>2. StampsAreBehindClock' /\ PageIsComplete'
  BY DEF StampsAreBehindClock, PageIsComplete
<1>3. NothingPassedOver'
  BY <1>1 DEF NothingPassedOver
<1> QED
  BY <1>2, <1>3

\* Every step of the system keeps the invariant.
LEMMA StepKeeps ==
    ASSUME IInv, [Next]_vars
    PROVE  IInv'
<1>1. ASSUME NEW S \in SUBSET Ids \ {{}}, StampRows(S) PROVE IInv'
  BY <1>1, StampRowsStep
<1>2. ASSUME NEW w \in open, Commit(w) PROVE IInv'
  BY <1>2, CommitStep
<1>3. ASSUME NEW i \in Ids, Refuse(i) \/ Accept(i) PROVE IInv'
  <2>1. TypeOK'
    BY <1>3, UnacceptableType DEF IInv
  <2> QED
    BY <1>3, <2>1, QuietSteps DEF Refuse, Accept, passVars
<1>4. ASSUME RunOnce PROVE IInv'
  <2>1. TypeOK'
    BY <1>4, FirstBatch DEF IInv, TypeOK, RunOnce, tableVars, Row
  <2> QED
    BY <1>4, <2>1, QuietSteps DEF RunOnce
<1>5. ASSUME FetchPage PROVE IInv'
  BY <1>5, FetchPageStep
<1>6. ASSUME ApplyPage PROVE IInv'
  BY <1>6, ApplyPageStep
<1>7. ASSUME PassFails PROVE IInv'
  <2>1. TypeOK'
    BY <1>7, EndPassType DEF IInv, TypeOK, PassFails, tableVars
  <2> QED
    BY <1>7, <2>1, LostPass DEF PassFails
<1>8. ASSUME Reload PROVE IInv'
  <2>1. UNCHANGED <<tableVars, seen, refused, cursor, overtaken, refusals>> /\ failures' \in Nat
    BY <1>8 DEF IInv, TypeOK, Reload
  <2>2. phase' = "idle" /\ page' = {} /\ batches' = 0 /\ rerun' = FALSE
    BY <1>8 DEF Reload
  <2>3. TypeOK'
    BY <2>1, <2>2, FirstBatch DEF IInv, TypeOK, tableVars
  <2> QED
    BY <1>8, <2>3, LostPass DEF Reload
<1>9. ASSUME UNCHANGED vars PROVE IInv'
  <2>1. TypeOK'
    BY <1>9 DEF IInv, TypeOK, vars, tableVars, passVars, Row
  <2> QED
    BY <1>9, <2>1, QuietSteps DEF vars, passVars
<1> QED
  BY <1>1, <1>2, <1>3, <1>4, <1>5, <1>6, <1>7, <1>8, <1>9 DEF Next

\* The types alone are inductive.
LEMMA StepKeepsTypes ==
    ASSUME TypeOK, [Next]_vars
    PROVE  TypeOK'
<1>1. ASSUME NEW S \in SUBSET Ids \ {{}}, StampRows(S) PROVE TypeOK'
  BY <1>1 DEF TypeOK, StampRows, passVars, Row
<1>2. ASSUME NEW w \in open, Commit(w) PROVE TypeOK'
  <2>1. w.stamp \in Nat
    BY DEF TypeOK
  <2>2. table' \in [Ids -> [stamp : Nat, ver : Nat]]
    BY <1>2, <2>1 DEF TypeOK, Commit
  <2> QED
    BY <1>2, <2>2 DEF TypeOK, Commit, passVars
<1>3. ASSUME NEW i \in Ids, Refuse(i) \/ Accept(i) PROVE TypeOK'
  BY <1>3, UnacceptableType
<1>4. ASSUME RunOnce PROVE TypeOK'
  BY <1>4, FirstBatch DEF TypeOK, RunOnce, tableVars, Row
<1>5. ASSUME FetchPage PROVE TypeOK'
  <2> DEFINE found == {row \in Committed : Past(row)}
  <2>1. phase = "query" /\ UNCHANGED <<tableVars, seen, refused, cursor, refusals, failures>>
    BY <1>5 DEF FetchPage
  <2>2. CASE found = {}
    <3>1. EndPass /\ UNCHANGED <<page, overtaken>>
      BY <1>5, <2>2 DEF FetchPage
    <3> QED
      BY <2>1, <3>1, EndPassType DEF TypeOK, tableVars
  <2>3. CASE found # {}
    <3>1. PICK rows \in SUBSET found :
            /\ IF Cardinality(found) <= PageSize THEN rows = found ELSE Cardinality(rows) = PageSize
            /\ page' = rows
            /\ overtaken' = overtaken \cup {w.stamp : w \in OpenBehind(rows)}
      BY <1>5, <2>3 DEF FetchPage
    <3>2. rows # {}
      BY <2>3, <3>1, FS_EmptySet, CursorAssumption
    <3>3. page' \subseteq Row
      BY <3>1, CommittedRows
    <3>4. phase' = "apply" /\ UNCHANGED <<rerun, batches>>
      BY <1>5, <2>3 DEF FetchPage
    <3>5. overtaken' \subseteq Nat
      BY <3>1 DEF TypeOK, OpenBehind
    <3> QED
      BY <2>1, <3>1, <3>2, <3>3, <3>4, <3>5 DEF TypeOK, tableVars
  <2> QED
    BY <2>2, <2>3
<1>6. ASSUME ApplyPage PROVE TypeOK'
  <2>1. seen' \in [Ids -> Nat]
    <3>1. ASSUME NEW i \in Ids, \E row \in page : row.id = i
          PROVE  (CHOOSE row \in page : row.id = i).ver \in Nat
      <4>1. (CHOOSE row \in page : row.id = i) \in page
        BY <3>1
      <4> QED
        BY <4>1 DEF TypeOK, Row
    <3> QED
      BY <1>6, <3>1 DEF ApplyPage, TypeOK
  <2>2. phase' \in {"idle", "query"} /\ rerun' \in BOOLEAN /\ batches' \in 0..(MaxBatches - 1)
    <3>1. CASE CanAdvance(page) /\ MorePages(page)
      BY <1>6, <3>1, CursorAssumption DEF ApplyPage, MorePages, TypeOK
    <3>2. CASE ~(CanAdvance(page) /\ MorePages(page))
      BY <1>6, <3>2, EndPassType DEF ApplyPage
    <3> QED
      BY <3>1, <3>2
  <2>3. cursor' \in [stamp : Nat, id : Nat]
    <3>1. CASE CanAdvance(page)
      <4>1. PICK last \in page : cursor' = [stamp |-> last.stamp, id |-> last.id]
        BY <1>6, <3>1 DEF ApplyPage
      <4>2. last.stamp \in Nat /\ last.id \in Nat
        BY CursorAssumption DEF TypeOK, Row
      <4> QED
        BY <4>1, <4>2
    <3>2. CASE ~CanAdvance(page)
      BY <1>6, <3>2 DEF ApplyPage, TypeOK
    <3> QED
      BY <3>1, <3>2
  <2>4. page' = {} /\ UNCHANGED <<tableVars, refused, overtaken, refusals, failures>>
    BY <1>6 DEF ApplyPage
  <2> QED
    BY <2>1, <2>2, <2>3, <2>4 DEF TypeOK, tableVars
<1>7. ASSUME PassFails PROVE TypeOK'
  <2>1. EndPass /\ page' = {} /\ failures' \in Nat
        /\ UNCHANGED <<tableVars, seen, refused, cursor, overtaken, refusals>>
    BY <1>7 DEF TypeOK, PassFails
  <2> QED
    BY <2>1, EndPassType DEF TypeOK, tableVars
<1>8. ASSUME Reload PROVE TypeOK'
  <2>1. UNCHANGED <<tableVars, seen, refused, cursor, overtaken, refusals>> /\ failures' \in Nat
    BY <1>8 DEF TypeOK, Reload
  <2>2. phase' = "idle" /\ page' = {} /\ batches' = 0 /\ rerun' = FALSE
    BY <1>8 DEF Reload
  <2> QED
    BY <2>1, <2>2, FirstBatch DEF TypeOK, tableVars
<1>9. ASSUME UNCHANGED vars PROVE TypeOK'
  BY <1>9 DEF TypeOK, vars, tableVars, passVars, Row
<1> QED
  BY <1>1, <1>2, <1>3, <1>4, <1>5, <1>6, <1>7, <1>8, <1>9 DEF Next

\* Every variable keeps its type, and no pass takes more pages than it may.
THEOREM TypeCorrectness == Spec => []TypeOK
<1>1. Init => TypeOK
  BY InitEstablishes DEF IInv
<1>2. TypeOK /\ [Next]_vars => TypeOK'
  BY StepKeepsTypes
<1> QED
  BY <1>1, <1>2, PTL DEF Spec

\* No committed write is ever behind the cursor without the device having taken it
\* in, unless its transaction was open while a page past its stamp was read.
THEOREM CursorCovers == Spec => []NothingPassedOver
<1>1. Init => IInv
  BY InitEstablishes
<1>2. IInv /\ [Next]_vars => IInv'
  BY StepKeeps
<1>3. IInv => NothingPassedOver
  BY DEF IInv
<1> QED
  BY <1>1, <1>2, <1>3, PTL DEF Spec

\* A page in hand stays complete, but for the transactions it overtook.
THEOREM PagesStayComplete == Spec => []PageIsComplete
<1>1. Init => IInv
  BY InitEstablishes
<1>2. IInv /\ [Next]_vars => IInv'
  BY StepKeeps
<1>3. IInv => PageIsComplete
  BY DEF IInv
<1> QED
  BY <1>1, <1>2, <1>3, PTL DEF Spec
===============================================================================
