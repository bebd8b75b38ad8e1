---------------------------- MODULE WarehouseProofs ----------------------------
(***************************************************************************)
(* The stock of a rental house for any assets, projects, quantities and    *)
(* number of packing slips.                                                *)
(*                                                                         *)
(* First, the status of a slip always says what its items say, although    *)
(* the counters the return works with may have drifted.  Then the row of   *)
(* an asset is taken together with its active assignment: every command    *)
(* turns a sound pair into a sound pair, and an agreeing pair into one     *)
(* that agrees with what is pending on the slips.  What is pending is a    *)
(* sum over the slips; a command adds one slip to it, takes one away, or   *)
(* leaves it, and lemmas on sums say what that does to the total.          *)
(***************************************************************************)
EXTENDS Warehouse, FiniteSetTheorems, WellFoundedInduction, TLAPS

SlipsTyped == slip \in [Slips -> Slip \cup {Nothing}]

StatusFits(record) ==
    LET listed == {a \in Assets : record.items[a] # Nothing}
    IN /\ record.status = "Draft" <=> listed = {}
       /\ listed # {} =>
            /\ record.status = "Closed" <=> \A a \in listed : record.items[a].returned
            /\ record.status = "Issued" <=> \A a \in listed : ~record.items[a].returned

SlipInv == SlipsTyped /\ \A s \in Slips : slip[s] # Nothing => StatusFits(slip[s])

\* A slip that lists A, none of it returned, fits as "Issued", or as a draft if A is empty.
LEMMA NewSlipFits ==
    ASSUME NEW p \in Projects, NEW A \in SUBSET Assets,
           NEW item, \A a \in A : item[a] \in Item /\ ~item[a].returned,
           NEW record, record = [project |-> p, status |-> IF A = {} THEN "Draft" ELSE "Issued",
               items |-> [a \in Assets |-> IF a \notin A THEN Nothing ELSE item[a]]]
    PROVE  record \in Slip /\ StatusFits(record)
<1>1. record \in Slip
  BY DEF Slip
<1>2. \A a \in Assets : record.items[a] # Nothing <=> a \in A
  BY WarehouseAssumption
<1> QED
  BY <1>1, <1>2 DEF StatusFits

\* The status the return computes fits the items it is computed from.
LEMMA ResolvedStatusFits ==
    ASSUME NEW items \in [Assets -> Item \cup {Nothing}],
           \E a \in Assets : items[a] # Nothing /\ items[a].returned,
           NEW record \in Slip, record.items = items,
           record.status = ResolveSlipStatus(items)
    PROVE  StatusFits(record)
  BY DEF StatusFits, ResolveSlipStatus

LEMMA IssueKeepsSlips ==
    ASSUME SlipInv, NEW s \in Slips, NEW p \in Projects, NEW A \in SUBSET Assets,
           NEW q \in [A -> 1..MaxQuantity], CreatePackingSlip(s, p, A, q)
    PROVE  SlipInv'
<1> DEFINE item == [a \in A |->
        [quantity |-> q[a], source |-> SourceFlow(a, p), returned |-> FALSE]]
<1>1. \A a \in A : item[a] \in Item /\ ~item[a].returned
  BY WarehouseAssumption DEF Item, SourceFlow
<1>2. slip'[s] = [project |-> p, status |-> "Issued",
        items |-> [a \in Assets |-> IF a \notin A THEN Nothing ELSE item[a]]]
  BY DEF CreatePackingSlip, SlipInv, SlipsTyped
<1>3. slip'[s] \in Slip /\ StatusFits(slip'[s])
  <2> HIDE DEF item
  <2> QED
    BY <1>1, <1>2, NewSlipFits DEF CreatePackingSlip
<1>4. \A t \in Slips \ {s} : slip'[t] = slip[t]
  BY DEF CreatePackingSlip, SlipInv, SlipsTyped
<1>5. slip' = [slip EXCEPT ![s] = slip'[s]]
  BY DEF CreatePackingSlip, SlipInv, SlipsTyped
<1> QED
  BY <1>3, <1>4, <1>5 DEF SlipInv, SlipsTyped, StatusFits

LEMMA SeededFits ==
    ASSUME NEW p \in Projects, NEW A \in SUBSET Assets
    PROVE  SeededSlip(p, A) \in Slip /\ StatusFits(SeededSlip(p, A))
<1> DEFINE item == [a \in A |->
        [quantity |-> 1, source |-> "available", returned |-> FALSE]]
<1>1. \A a \in A : item[a] \in Item /\ ~item[a].returned
  BY DEF Item
<1>2. SeededSlip(p, A) = [project |-> p, status |-> IF A = {} THEN "Draft" ELSE "Issued",
        items |-> [a \in Assets |-> IF a \notin A THEN Nothing ELSE item[a]]]
  BY DEF SeededSlip
<1> HIDE DEF item
<1> QED
  BY <1>1, <1>2, NewSlipFits

LEMMA SetupKeepsSlips ==
    ASSUME SlipInv, NEW p \in Projects, NEW listed, NEW S \in SUBSET Slips,
           NEW seeded \in [S -> SUBSET Assets], SetupProject(p, listed, seeded)
    PROVE  SlipInv'
<1>1. slip' = [s \in Slips |->
        IF s \in S THEN SeededSlip(p, seeded[s]) ELSE slip[s]]
  BY DEF SetupProject
<1>2. ASSUME NEW s \in Slips
      PROVE  slip'[s] \in Slip \cup {Nothing} /\ (slip'[s] # Nothing => StatusFits(slip'[s]))
  <2>1. CASE s \in S
    BY <1>1, <2>1, SeededFits
  <2>2. CASE s \notin S
    BY <1>1, <2>2 DEF SlipInv, SlipsTyped
  <2> QED
    BY <2>1, <2>2
<1>3. \A s \in Slips : (slip[s] # Nothing => StatusFits(slip[s]))' <=> (slip'[s] # Nothing => StatusFits(slip'[s]))
  BY DEF StatusFits
<1> QED
  BY <1>1, <1>2, <1>3 DEF SlipInv, SlipsTyped

LEMMA ReturnKeepsSlips ==
    ASSUME SlipInv, NEW s \in Slips, NEW A \in SUBSET Assets, ReturnPackingSlipItems(s, A)
    PROVE  SlipInv'
<1> DEFINE items == [a \in Assets |-> IF a \in A
        THEN [slip[s].items[a] EXCEPT !.returned = TRUE] ELSE slip[s].items[a]]
           back == [slip[s] EXCEPT !.items = items, !.status = ResolveSlipStatus(items)]
<1>1. slip[s] \in Slip /\ slip[s] # Nothing /\ A # {}
      /\ \A a \in A : slip[s].items[a] \in Item
  BY DEF ReturnPackingSlipItems, PendingItem, SlipInv, SlipsTyped, Slip
<1>2. slip' = [slip EXCEPT ![s] = back]
  BY <1>1 DEF ReturnPackingSlipItems, SlipInv, SlipsTyped, Slip
<1>3. \A a \in A : items[a] \in Item /\ items[a].returned
  BY <1>1 DEF Item
<1>4. items \in [Assets -> Item \cup {Nothing}]
  BY <1>1, <1>3 DEF Slip
<1>5. \E a \in Assets : items[a] # Nothing /\ items[a].returned
  BY <1>1, <1>3, WarehouseAssumption
<1>6. ResolveSlipStatus(items) \in {"Issued", "Partial return", "Closed"}
  BY DEF ResolveSlipStatus
<1>7. back \in Slip /\ back.items = items /\ back.status = ResolveSlipStatus(items)
  <2> HIDE DEF items
  <2> QED
    BY <1>1, <1>4, <1>6 DEF Slip
<1>8. StatusFits(back)
  <2> HIDE DEF items, back
  <2> QED
    BY <1>4, <1>5, <1>7, ResolvedStatusFits
<1> HIDE DEF items, back
<1> QED
  BY <1>2, <1>7, <1>8 DEF SlipInv, SlipsTyped, StatusFits

LEMMA OthersKeepSlips ==
    ASSUME SlipInv, UNCHANGED slip
    PROVE  SlipInv'
  BY DEF SlipInv, SlipsTyped, StatusFits

LEMMA KnownAreProjects == Spec => [](known \subseteq Projects)
<1>1. Init => known \subseteq Projects
  BY WarehouseAssumption DEF Init
<1>2. known \subseteq Projects /\ [Next]_vars => (known \subseteq Projects)'
  <2> SUFFICES ASSUME known \subseteq Projects, [Next]_vars
               PROVE  (known \subseteq Projects)'
    OBVIOUS
  <2>1. ASSUME NEW p \in Projects, NEW listed \in [Assets -> 0..MaxUnits], NEW S \in SUBSET Slips,
               NEW seeded \in [S -> SUBSET Assets], SetupProject(p, listed, seeded)
        PROVE  (known \subseteq Projects)'
    BY <2>1 DEF SetupProject
  <2>2. CASE UNCHANGED known
    BY <2>2
  <2> QED
    BY <2>1, <2>2 DEF Next, vars, Assign, Release, Archive, Reactivate, ReportIncident,
       UpdateIncident, Reconcile, CreatePackingSlip, ReturnPackingSlipItems,
       CreateRmaCase, UpdateRmaCase, ResolveIncident, RepairState
<1> QED
  BY <1>1, <1>2, PTL DEF Spec

LEMMA SlipInvHolds == Spec => []SlipInv
<1>1. Init => SlipInv
  BY DEF Init, SlipInv, SlipsTyped
<1>2. SlipInv /\ known \subseteq Projects /\ [Next]_vars => SlipInv'
  <2> SUFFICES ASSUME SlipInv, known \subseteq Projects, [Next]_vars
               PROVE  SlipInv'
    OBVIOUS
  <2>1. ASSUME NEW s \in Slips, NEW p \in known, NEW A \in SUBSET Assets,
               NEW q \in [A -> 1..MaxQuantity], CreatePackingSlip(s, p, A, q)
        PROVE  SlipInv'
    BY <2>1, IssueKeepsSlips
  <2>2. ASSUME NEW s \in Slips, NEW A \in SUBSET Assets, ReturnPackingSlipItems(s, A)
        PROVE  SlipInv'
    BY <2>2, ReturnKeepsSlips
  <2>3. ASSUME NEW p \in Projects, NEW listed \in [Assets -> 0..MaxUnits], NEW S \in SUBSET Slips,
               NEW seeded \in [S -> SUBSET Assets], SetupProject(p, listed, seeded)
        PROVE  SlipInv'
    BY <2>3, SetupKeepsSlips
  <2>4. CASE UNCHANGED slip
    BY <2>4, OthersKeepSlips
  <2> QED
    BY <2>1, <2>2, <2>3, <2>4 DEF Next, vars, Assign, Release, Archive, Reactivate,
       ReportIncident, UpdateIncident, Reconcile, CreateRmaCase, UpdateRmaCase,
       ResolveIncident, RepairState
<1> QED
  BY <1>1, <1>2, KnownAreProjects, PTL DEF Spec

-----------------------------------------------------------------------------

(***************************************************************************)
(* Units on packing slips.  The fold over a set of slips is defined        *)
(* through the function of its subsets that adds one chosen slip to the    *)
(* sum of the others; that there is one follows by induction on the number *)
(* of slips, in the form that every set of numbers has a least one.        *)
(***************************************************************************)

LEMMA LeastNumber ==
    ASSUME NEW T \in SUBSET Nat, T # {}
    PROVE  \E n \in T : \A m \in T : n <= m
<1> DEFINE less == OpToRel(<, Nat)
<1>1. IsWellFoundedOn(less, Nat)
  BY NatLessThanWellFounded
<1>2. \A m, n \in Nat : m < n => <<m, n>> \in less
  BY DEF OpToRel
<1> HIDE DEF less
<1>3. PICK n \in T : \A m \in T : <<m, n>> \notin less
  BY <1>1, WFMin
<1>4. ASSUME NEW m \in T
      PROVE  n <= m
  <2>1. m \in Nat /\ n \in Nat
    OBVIOUS
  <2>2. ~(m < n)
    BY <1>2, <1>3, <2>1
  <2> QED
    BY <2>1, <2>2
<1> QED
  BY <1>4

\* The units of asset a that slip s lists, when the slips are book.
Units(book, a, s) == book[s].items[a].quantity

\* The units on the slips s, if f is right about fewer slips.
UnitsStep(book, a, f, s) ==
    IF s = {} THEN 0
    ELSE Units(book, a, CHOOSE p \in s : TRUE) + f[s \ {CHOOSE p \in s : TRUE}]

Sums(book, a, f, S) == f = [s \in SUBSET S |-> UnitsStep(book, a, f, s)]

LEMMA Smaller ==
    ASSUME NEW S, IsFiniteSet(S), NEW s \in SUBSET S
    PROVE  /\ Cardinality(s) \in Nat /\ (Cardinality(s) = 0 <=> s = {})
           /\ \A p \in s : s \ {p} \in SUBSET S /\ Cardinality(s \ {p}) = Cardinality(s) - 1
<1>1. IsFiniteSet(s)
  BY FS_Subset
<1> QED
  BY <1>1, FS_CardinalityType, FS_EmptySet, FS_RemoveElement

\* What a set says of all smaller subsets holds of all subsets.
LEMMA SubsetsBySize ==
    ASSUME NEW S, IsFiniteSet(S), NEW Bad \in SUBSET (SUBSET S), Bad # {}
    PROVE  \E s \in Bad : \A t \in SUBSET S : Cardinality(t) < Cardinality(s) => t \notin Bad
<1> DEFINE sizes == {Cardinality(s) : s \in Bad}
<1>1. sizes \in SUBSET Nat /\ sizes # {}
  BY Smaller
<1>2. PICK n \in sizes : \A m \in sizes : n <= m
  BY <1>1, LeastNumber
<1>3. PICK s \in Bad : n = Cardinality(s)
  BY <1>2
<1>4. ASSUME NEW t \in SUBSET S, Cardinality(t) < Cardinality(s), t \in Bad
      PROVE  FALSE
  <2>1. Cardinality(t) \in sizes
    BY <1>4
  <2>2. Cardinality(t) \in Nat /\ Cardinality(s) \in Nat
    BY Smaller
  <2> QED
    BY <1>2, <1>3, <1>4, <2>1, <2>2
<1> QED
  BY <1>3, <1>4

First(s) == CHOOSE p \in s : TRUE

LEMMA FirstIn == ASSUME NEW s, s # {} PROVE First(s) \in s
BY DEF First

\* f is right about the subsets of S of at most n elements.
RightUpTo(book, a, f, n, S) ==
    /\ f = [s \in SUBSET S |-> f[s]]
    /\ \A s \in SUBSET S : Cardinality(s) <= n => f[s] = UnitsStep(book, a, f, s)

RightAbout(book, a, S) == {n \in Nat : \E f : RightUpTo(book, a, f, n, S)}

LEMMA OneMoreIsKnown ==
    ASSUME NEW book, NEW a, NEW S, IsFiniteSet(S), NEW n \in RightAbout(book, a, S)
    PROVE  n + 1 \in RightAbout(book, a, S)
<1>1. n \in Nat /\ \E g : RightUpTo(book, a, g, n, S)
  BY DEF RightAbout
<1>2. PICK g : RightUpTo(book, a, g, n, S)
  BY <1>1
<1> DEFINE f == [s \in SUBSET S |-> UnitsStep(book, a, g, s)]
<1>3. ASSUME NEW s \in SUBSET S, Cardinality(s) <= n
      PROVE  f[s] = g[s]
  BY <1>2, <1>3 DEF RightUpTo
<1>4. \A s \in SUBSET S : f[s] = UnitsStep(book, a, g, s)
  OBVIOUS
<1>5. f = [s \in SUBSET S |-> f[s]]
  OBVIOUS
<1> HIDE DEF f
<1>6. ASSUME NEW s \in SUBSET S, Cardinality(s) <= n + 1
      PROVE  f[s] = UnitsStep(book, a, f, s)
  <2>1. CASE s = {}
    BY <1>4, <2>1 DEF UnitsStep
  <2>2. CASE s # {}
    <3>1. First(s) \in s
      BY <2>2, FirstIn
    <3>2. s \ {First(s)} \in SUBSET S /\ Cardinality(s \ {First(s)}) <= n
      BY <1>1, <1>6, <3>1, Smaller
    <3>3. f[s \ {First(s)}] = g[s \ {First(s)}]
      BY <1>3, <3>2
    <3>4. f[s] = UnitsStep(book, a, g, s)
      BY <1>4
    <3> QED
      BY <2>2, <3>3, <3>4 DEF UnitsStep, First
  <2> QED
    BY <2>1, <2>2
<1>7. RightUpTo(book, a, f, n + 1, S)
  BY <1>5, <1>6 DEF RightUpTo
<1>8. \E h : RightUpTo(book, a, h, n + 1, S)
  BY <1>7
<1> QED
  BY <1>1, <1>8 DEF RightAbout

\* Some function is right about all subsets of a finite set.
LEMMA SumExists ==
    ASSUME NEW book, NEW a, NEW S, IsFiniteSet(S)
    PROVE  \E f : Sums(book, a, f, S)
<1>1. 0 \in RightAbout(book, a, S)
  <2> DEFINE f == [s \in SUBSET S |-> 0]
  <2>1. \A s \in SUBSET S : Cardinality(s) <= 0 => s = {}
    BY Smaller
  <2>2. RightUpTo(book, a, f, 0, S)
    BY <2>1 DEF UnitsStep, RightUpTo
  <2>3. \E h : RightUpTo(book, a, h, 0, S)
    BY <2>2
  <2> QED
    BY <2>3 DEF RightAbout
<1>2. RightAbout(book, a, S) = Nat
  <2> DEFINE T == Nat \ RightAbout(book, a, S)
  <2> SUFFICES ASSUME T # {}
               PROVE  FALSE
    BY DEF RightAbout
  <2>1. T \in SUBSET Nat
    OBVIOUS
  <2> HIDE DEF T
  <2>2. PICK n \in T : \A m \in T : n <= m
    BY <2>1, LeastNumber
  <2>3. n \in Nat /\ n \notin RightAbout(book, a, S) /\ \A m \in Nat : m < n => m \in RightAbout(book, a, S)
    BY <2>2 DEF T
  <2>4. n # 0
    BY <1>1, <2>3
  <2>5. n - 1 \in RightAbout(book, a, S)
    BY <2>3, <2>4
  <2>6. (n - 1) + 1 \in RightAbout(book, a, S)
    BY <2>5, OneMoreIsKnown
  <2>7. (n - 1) + 1 = n
    BY <2>3
  <2> QED
    BY <2>3, <2>6, <2>7
<1>3. \E f : RightUpTo(book, a, f, Cardinality(S), S)
  BY <1>2, FS_CardinalityType DEF RightAbout
<1>4. PICK f : RightUpTo(book, a, f, Cardinality(S), S)
  BY <1>3
<1>5. \A s \in SUBSET S : Cardinality(s) <= Cardinality(S)
  BY FS_Subset
<1>6. \A s \in SUBSET S : f[s] = UnitsStep(book, a, f, s)
  BY <1>4, <1>5 DEF RightUpTo
<1>7. f = [s \in SUBSET S |-> f[s]]
  BY <1>4 DEF RightUpTo
<1>8. f = [s \in SUBSET S |-> UnitsStep(book, a, f, s)]
  BY <1>6, <1>7
<1> QED
  BY <1>8 DEF Sums

\* The sum of each subset of S, as the fold over S computes it.
SumsOf(book, a, S) == CHOOSE f : Sums(book, a, f, S)

LEMMA SumStep ==
    ASSUME NEW book, NEW a, NEW S, IsFiniteSet(S)
    PROVE  /\ SumsOf(book, a, S)[{}] = 0
           /\ \A s \in SUBSET S : s # {} =>
                First(s) \in s /\ SumsOf(book, a, S)[s] = Units(book, a, First(s)) + SumsOf(book, a, S)[s \ {First(s)}]
<1> DEFINE f == SumsOf(book, a, S)
<1>1. f = [s \in SUBSET S |-> UnitsStep(book, a, f, s)]
  BY SumExists DEF SumsOf, Sums
<1> HIDE DEF f
<1>2. \A s \in SUBSET S : f[s] = UnitsStep(book, a, f, s)
  BY <1>1
<1> QED
  BY <1>2, FirstIn DEF UnitsStep, First, f

AreUnits(book, a, S) == \A p \in S : Units(book, a, p) \in Nat

LEMMA SumIsNat ==
    ASSUME NEW book, NEW a, NEW S, IsFiniteSet(S), AreUnits(book, a, S), NEW s \in SUBSET S
    PROVE  SumsOf(book, a, S)[s] \in Nat
<1> DEFINE Bad == {t \in SUBSET S : SumsOf(book, a, S)[t] \notin Nat}
<1> SUFFICES ASSUME Bad # {}
             PROVE  FALSE
  OBVIOUS
<1>0. Bad \in SUBSET (SUBSET S)
  OBVIOUS
<1> HIDE DEF Bad
<1>1. PICK t \in Bad : \A u \in SUBSET S : Cardinality(u) < Cardinality(t) => u \notin Bad
  BY <1>0, SubsetsBySize
<1>9. t \in SUBSET S /\ SumsOf(book, a, S)[t] \notin Nat
  BY <1>1 DEF Bad
<1>2. t # {}
  <2>1. SumsOf(book, a, S)[{}] = 0
    BY SumStep
  <2> QED
    BY <1>9, <2>1
<1>3. First(t) \in t /\ SumsOf(book, a, S)[t] = Units(book, a, First(t)) + SumsOf(book, a, S)[t \ {First(t)}]
  BY <1>9, <1>2, SumStep
<1> DEFINE u == t \ {First(t)}
<1>4. u \in SUBSET S /\ Cardinality(u) < Cardinality(t)
  BY <1>9, <1>3, Smaller
<1>5. SumsOf(book, a, S)[u] \in Nat
  BY <1>1, <1>4 DEF Bad
<1>6. Units(book, a, First(t)) \in Nat
  BY <1>3, <1>9 DEF AreUnits
<1> QED
  BY <1>9, <1>3, <1>5, <1>6

\* The order of summation does not matter.
LEMMA SumWithout ==
    ASSUME NEW book, NEW a, NEW S, IsFiniteSet(S), AreUnits(book, a, S), NEW s \in SUBSET S, NEW p \in s
    PROVE  SumsOf(book, a, S)[s] = Units(book, a, p) + SumsOf(book, a, S)[s \ {p}]
<1> DEFINE f == SumsOf(book, a, S)
           Bad == {t \in SUBSET S : \E q \in t : f[t] # Units(book, a, q) + f[t \ {q}]}
<1> SUFFICES ASSUME Bad # {}
             PROVE  FALSE
  OBVIOUS
<1> HIDE DEF f
<1>0. Bad \in SUBSET (SUBSET S)
  OBVIOUS
<1> HIDE DEF Bad
<1>1. PICK t \in Bad : \A u \in SUBSET S : Cardinality(u) < Cardinality(t) => u \notin Bad
  BY <1>0, SubsetsBySize
<1>20. t \in SUBSET S /\ \E q \in t : f[t] # Units(book, a, q) + f[t \ {q}]
  BY <1>1 DEF Bad
<1>2. PICK q \in t : f[t] # Units(book, a, q) + f[t \ {q}]
  BY <1>20
<1> DEFINE c == First(t)
<1>3. t # {} /\ c \in t /\ f[t] = Units(book, a, c) + f[t \ {c}]
  BY <1>20, <1>2, SumStep DEF f
<1> HIDE DEF c
<1>4. c # q
  BY <1>2, <1>3
<1> DEFINE w == (t \ {c}) \ {q}
<1>5. /\ t \ {c} \in SUBSET S /\ Cardinality(t \ {c}) < Cardinality(t)
      /\ t \ {q} \in SUBSET S /\ Cardinality(t \ {q}) < Cardinality(t)
  BY <1>20, <1>2, <1>3, Smaller
<1>50. t \ {c} \notin Bad /\ t \ {q} \notin Bad /\ q \in t \ {c} /\ c \in t \ {q}
  BY <1>1, <1>2, <1>3, <1>4, <1>5
<1>6. f[t \ {c}] = Units(book, a, q) + f[w]
  BY <1>5, <1>50 DEF Bad, w
<1>8. (t \ {q}) \ {c} = w /\ w \in SUBSET S
  BY <1>20
<1>7. f[t \ {q}] = Units(book, a, c) + f[w]
  <2>1. f[t \ {q}] = Units(book, a, c) + f[(t \ {q}) \ {c}]
    BY <1>5, <1>50 DEF Bad
  <2> QED
    BY <1>8, <2>1
<1>9. f[w] \in Nat
  BY <1>8, SumIsNat DEF f
<1>10. Units(book, a, q) \in Nat /\ Units(book, a, c) \in Nat
  BY <1>20, <1>2, <1>3 DEF AreUnits
<1>11. f[t] = Units(book, a, q) + f[t \ {q}]
  <2> DEFINE m == Units(book, a, c)
             n == Units(book, a, q)
             r == f[w]
  <2>1. f[t] = m + f[t \ {c}] /\ f[t \ {c}] = n + r /\ f[t \ {q}] = m + r
    BY <1>3, <1>6, <1>7
  <2>2. m \in Nat /\ n \in Nat /\ r \in Nat
    BY <1>9, <1>10
  <2> HIDE DEF m, n, r
  <2>3. m + (n + r) = n + (m + r)
    BY <2>2
  <2>4. f[t] = n + f[t \ {q}]
    BY <2>1, <2>3
  <2> QED
    BY <2>4 DEF n
<1> QED
  BY <1>2, <1>11

\* Nor does the set over which the fold is taken, nor what else the slips say.
LEMMA SumIsLocal ==
    ASSUME NEW book, NEW other, NEW a, NEW S, IsFiniteSet(S), NEW T, IsFiniteSet(T), S \subseteq T,
           \A p \in S : Units(other, a, p) = Units(book, a, p), NEW s \in SUBSET S
    PROVE  SumsOf(other, a, T)[s] = SumsOf(book, a, S)[s]
<1> DEFINE Bad == {t \in SUBSET S : SumsOf(other, a, T)[t] # SumsOf(book, a, S)[t]}
<1> SUFFICES ASSUME Bad # {}
             PROVE  FALSE
  OBVIOUS
<1>0. Bad \in SUBSET (SUBSET S)
  OBVIOUS
<1> HIDE DEF Bad
<1>1. PICK t \in Bad : \A u \in SUBSET S : Cardinality(u) < Cardinality(t) => u \notin Bad
  BY <1>0, SubsetsBySize
<1>2. t \in SUBSET S /\ t \in SUBSET T /\ SumsOf(other, a, T)[t] # SumsOf(book, a, S)[t]
  BY <1>1 DEF Bad
<1>3. t # {}
  <2>1. SumsOf(book, a, S)[{}] = 0
    BY SumStep
  <2>2. SumsOf(other, a, T)[{}] = 0
    BY SumStep
  <2> QED
    BY <1>2, <2>1, <2>2
<1>4. /\ First(t) \in t
      /\ SumsOf(book, a, S)[t] = Units(book, a, First(t)) + SumsOf(book, a, S)[t \ {First(t)}]
      /\ SumsOf(other, a, T)[t] = Units(other, a, First(t)) + SumsOf(other, a, T)[t \ {First(t)}]
  BY <1>2, <1>3, SumStep
<1> DEFINE u == t \ {First(t)}
<1>5. u \in SUBSET S /\ Cardinality(u) < Cardinality(t)
  BY <1>2, <1>4, Smaller
<1>6. SumsOf(other, a, T)[u] = SumsOf(book, a, S)[u]
  BY <1>1, <1>5 DEF Bad
<1>7. Units(other, a, First(t)) = Units(book, a, First(t))
  BY <1>2, <1>4
<1> QED
  BY <1>2, <1>4, <1>6, <1>7

\* The units of asset a on all the slips S.
UnitsOn(book, a, S) == SumsOf(book, a, S)[S]

LEMMA UnitsOnIsNat ==
    ASSUME NEW book, NEW a, NEW S, IsFiniteSet(S), AreUnits(book, a, S)
    PROVE  UnitsOn(book, a, S) \in Nat
BY SumIsNat DEF UnitsOn

LEMMA SameUnits ==
    ASSUME NEW book, NEW other, NEW a, NEW S, IsFiniteSet(S),
           \A p \in S : Units(other, a, p) = Units(book, a, p)
    PROVE  UnitsOn(other, a, S) = UnitsOn(book, a, S)
BY SumIsLocal DEF UnitsOn

\* One slip more adds what it lists.
LEMMA OneSlipMore ==
    ASSUME NEW book, NEW other, NEW a, NEW S, IsFiniteSet(S), NEW p, p \notin S,
           AreUnits(other, a, S \cup {p}), \A t \in S : Units(other, a, t) = Units(book, a, t)
    PROVE  UnitsOn(other, a, S \cup {p}) = Units(other, a, p) + UnitsOn(book, a, S)
<1> DEFINE T == S \cup {p}
<1>1. /\ IsFiniteSet(T) /\ AreUnits(other, a, T) /\ S \subseteq T /\ p \in T
      /\ T \in SUBSET T /\ S \in SUBSET S
  BY FS_AddElement
<1>2. T \ {p} = S
  OBVIOUS
<1> HIDE DEF T
<1>3. SumsOf(other, a, T)[T] = Units(other, a, p) + SumsOf(other, a, T)[S]
  BY <1>1, <1>2, SumWithout
<1>4. SumsOf(other, a, T)[S] = SumsOf(book, a, S)[S]
  BY <1>1, SumIsLocal
<1> QED
  BY <1>3, <1>4 DEF T, UnitsOn

PendingSlips(a) == {s \in Slips : PendingItem(s, a)}

LEMMA PendingIsUnitsOn ==
    ASSUME NEW a
    PROVE  Pending(a) = UnitsOn(slip, a, PendingSlips(a))
BY DEF Pending, PendingSlips, MapThenSumSet, MapThenFoldSet, UnitsOn, SumsOf, Sums, UnitsStep, Units

LEMMA PendingIsUnitsOnAfter ==
    ASSUME NEW a
    PROVE  Pending(a)' = UnitsOn(slip', a, PendingSlips(a)')
BY DEF Pending, PendingSlips, MapThenSumSet, MapThenFoldSet, UnitsOn, SumsOf, Sums, UnitsStep, Units

-----------------------------------------------------------------------------

(***************************************************************************)
(* The row of an asset and its active assignment, taken together.          *)
(***************************************************************************)

\* A row and an assignment of the right types; an asset has units, and an
\* assignment holds some.
PairOK(row, held) ==
    /\ row \in Stock /\ row.total >= 1
    /\ held \in Assignment \cup {Nothing}
    /\ held # Nothing => row.assigned + row.out > 0

\* Consistent(a), of a row, an assignment and the units pending on slips.
Agree(row, held, pending) ==
    /\ row.out = pending
    /\ LET units == row.available + row.assigned + row.out
       IN IF row.operational = "ready" THEN units = row.total ELSE units <= row.total
    /\ IF held = Nothing THEN row.assigned = 0 /\ row.out = 0
       ELSE /\ held.quantity = row.assigned + row.out
            /\ row.assigned + row.out > 0
            /\ held.status = IF row.out > 0 THEN "checked_out" ELSE "assigned"

LEMMA ConsistentIsAgree ==
    ASSUME NEW a
    PROVE  Consistent(a) <=> Agree(stock[a], assignment[a], Pending(a))
  BY DEF Consistent, SlipsAgree, UnitsAccounted, AssignmentAgrees, Agree

LEMMA ConsistentIsAgreeAfter ==
    ASSUME NEW a
    PROVE  Consistent(a)' <=> Agree(stock'[a], assignment'[a], Pending(a)')
  BY DEF Consistent, SlipsAgree, UnitsAccounted, AssignmentAgrees, Agree

LEMMA RowTypes ==
    ASSUME NEW row \in Stock
    PROVE  /\ row.total \in Nat /\ row.available \in Nat /\ row.assigned \in Nat /\ row.out \in Nat
           /\ row.project \in Projects \cup {Nothing}
  BY DEF Stock

\* The columns the counters' rules read and write, and those they leave alone.
SameCounters(new, row) ==
    /\ new.total = row.total /\ new.available = row.available
    /\ new.assigned = row.assigned /\ new.out = row.out
    /\ new.operational = row.operational /\ new.project = row.project

LEMMA CustodyIsDerived ==
    ASSUME NEW row \in Stock
    PROVE  WithCustody(row) \in Stock /\ SameCounters(WithCustody(row), row)
<1>1. DeriveCustodyStatus(row) \in {"maintenance", "partially_allocated", "partial_checked_out",
          "checked_out", "available", "partial_assigned", "assigned"}
  BY DEF DeriveCustodyStatus
<1> DEFINE custody == DeriveCustodyStatus(row)
<1>2. WithCustody(row) = [row EXCEPT !.custody = custody]
  BY DEF WithCustody
<1> HIDE DEF custody
<1> QED
  BY <1>1, <1>2 DEF Stock, SameCounters, custody

Counted(row, p, available, assigned, out) ==
    [row EXCEPT !.project = p, !.available = available, !.assigned = assigned, !.out = out]

LEMMA CountedRow ==
    ASSUME NEW row \in Stock, NEW p \in Projects \cup {Nothing}, NEW available \in Nat,
           NEW assigned \in Nat, NEW out \in Nat
    PROVE  LET new == Counted(row, p, available, assigned, out)
           IN /\ new \in Stock /\ new.total = row.total /\ new.operational = row.operational
              /\ new.project = p /\ new.available = available /\ new.assigned = assigned /\ new.out = out
  BY DEF Stock, Counted

Reserved(row, p, available, assigned) ==
    [row EXCEPT !.project = p, !.available = available, !.assigned = assigned]

LEMMA ReservedRow ==
    ASSUME NEW row \in Stock, NEW p \in Projects \cup {Nothing}, NEW available \in Nat,
           NEW assigned \in Nat
    PROVE  LET new == Reserved(row, p, available, assigned)
           IN /\ new \in Stock /\ new.total = row.total /\ new.operational = row.operational
              /\ new.project = p /\ new.available = available /\ new.assigned = assigned
              /\ new.out = row.out
  BY DEF Stock, Reserved

\* assignMoveAssets, mode assign: the row and the assignment it leaves.
LEMMA AssignPair ==
    ASSUME NEW a, NEW p \in Projects \cup {Nothing}, NEW q \in Nat \ {0},
           PairOK(stock[a], assignment[a]), MayAssign(a, p, q)
    PROVE  /\ PairOK(AssignedRow(a, p, q), AssignedTo(a, p, q))
           /\ \A n \in Nat : Agree(stock[a], assignment[a], n) =>
                \/ Agree(AssignedRow(a, p, q), AssignedTo(a, p, q), n)
                \/ /\ stock[a].available = 0 /\ AssignedRow(a, p, q).assigned < stock[a].assigned
                   /\ AssignedRow(a, p, q).project # stock[a].project
<1> DEFINE row == stock[a]
           moves == MovesReservation(a, p)
           base == [row EXCEPT !.project = p, !.available = IF moves THEN @ ELSE @ - q,
                               !.assigned = IF moves THEN q ELSE @ + q]
           new == AssignedRow(a, p, q)
           held == AssignedTo(a, p, q)
<1>1. row \in Stock /\ row.total >= 1
  BY DEF PairOK
<1>2. /\ row.operational = "ready" /\ row.out = 0
      /\ IF moves THEN q <= row.assigned ELSE q <= row.available
      /\ row.available > 0 /\ row.assigned > 0 => row.project = p
      /\ moves <=> row.project # p /\ row.available = 0 /\ row.assigned > 0
  BY RowTypes, <1>1 DEF MayAssign, MovesReservation
<1> HIDE DEF row
<1>3. /\ row.total \in Nat /\ row.available \in Nat /\ row.assigned \in Nat /\ row.out \in Nat
  BY RowTypes, <1>1
<1> HIDE DEF moves
<1>4. /\ base \in Stock /\ base.total = row.total /\ base.out = row.out
      /\ base.operational = row.operational /\ base.project = p
      /\ base.available = (IF moves THEN row.available ELSE row.available - q)
      /\ base.assigned = (IF moves THEN q ELSE row.assigned + q)
  <2> DEFINE available == IF moves THEN row.available ELSE row.available - q
             assigned == IF moves THEN q ELSE row.assigned + q
  <2>1. available \in Nat /\ assigned \in Nat
    BY <1>2, <1>3
  <2>2. base = Reserved(row, p, available, assigned)
    BY DEF Reserved
  <2> HIDE DEF available, assigned, base
  <2>3. /\ base \in Stock /\ base.total = row.total /\ base.operational = row.operational
        /\ base.project = p /\ base.available = available /\ base.assigned = assigned
        /\ base.out = row.out
    <3>1. LET b == Reserved(row, p, available, assigned)
          IN /\ b \in Stock /\ b.total = row.total /\ b.operational = row.operational
             /\ b.project = p /\ b.available = available /\ b.assigned = assigned
             /\ b.out = row.out
      BY <1>1, <2>1, ReservedRow
    <3> QED
      BY <2>2, <3>1
  <2> QED
    BY <2>3 DEF available, assigned
<1>5. new = WithCustody(base)
  BY DEF AssignedRow, row, moves
<1> HIDE DEF base
<1>6. new \in Stock /\ SameCounters(new, base)
  BY <1>4, <1>5, CustodyIsDerived
<1>7. /\ held = [project |-> p, status |-> "assigned",
                 quantity |-> IF assignment[a] # Nothing /\ row.project = p THEN row.assigned + q ELSE q]
  BY DEF AssignedTo, row
<1>8. held \in Assignment
  BY <1>3, <1>7 DEF Assignment
<1>9. held # Nothing
  BY <1>8, WarehouseAssumption
<1> HIDE DEF new, held
<1>10. new.assigned + new.out > 0
  BY <1>2, <1>3, <1>4, <1>6 DEF SameCounters
<1>11. PairOK(new, held)
  BY <1>1, <1>4, <1>6, <1>8, <1>10 DEF PairOK, SameCounters
<1>12. ASSUME NEW n \in Nat, Agree(row, assignment[a], n),
              ~(row.available = 0 /\ new.assigned < row.assigned /\ new.project # row.project)
       PROVE  Agree(new, held, n)
  <2>1. held.quantity = new.assigned /\ held.status = "assigned"
    BY <1>2, <1>3, <1>4, <1>6, <1>7, <1>12 DEF SameCounters, Agree
  <2>2. new.available + new.assigned = row.available + row.assigned
    BY <1>2, <1>3, <1>4, <1>6, <1>12 DEF SameCounters
  <2> QED
    BY <1>2, <1>3, <1>4, <1>6, <1>9, <1>10, <1>12, <2>1, <2>2 DEF SameCounters, Agree
<1> QED
  BY <1>11, <1>12 DEF row, new, held

\* Mode release: everything reserved is back on the shelf.
LEMMA ReleasePair ==
    ASSUME NEW row, NEW held, PairOK(row, held), row.out = 0
    PROVE  LET new == [row EXCEPT !.project = Nothing, !.available = @ + row.assigned,
                                  !.assigned = 0, !.custody = "available"]
           IN /\ PairOK(new, Nothing)
              /\ \A n \in Nat : Agree(row, held, n) => Agree(new, Nothing, n)
<1> DEFINE available == row.available + row.assigned
           new == [row EXCEPT !.project = Nothing, !.available = available,
                              !.assigned = 0, !.custody = "available"]
<1>1. row \in Stock /\ row.total >= 1
  BY DEF PairOK
<1>2. /\ row.total \in Nat /\ row.available \in Nat /\ row.assigned \in Nat /\ row.out \in Nat
  BY <1>1, RowTypes
<1>3. available \in Nat
  BY <1>2
<1>4. /\ new \in Stock /\ new.total = row.total /\ new.available = available /\ new.assigned = 0
      /\ new.out = row.out /\ new.operational = row.operational
  <2> HIDE DEF available
  <2> QED
    BY <1>1, <1>3 DEF Stock
<1> HIDE DEF new
<1>5. PairOK(new, Nothing)
  BY <1>1, <1>4 DEF PairOK
<1>6. ASSUME NEW n \in Nat, Agree(row, held, n)
      PROVE  Agree(new, Nothing, n)
  BY <1>2, <1>4, <1>6 DEF Agree
<1> QED
  BY <1>5, <1>6 DEF new

\* A stock count: what is neither reserved nor out is on the shelf.
LEMMA CountPair ==
    ASSUME NEW row, NEW held, PairOK(row, held), NEW n \in Nat \ {0}, n >= row.assigned + row.out
    PROVE  LET new == [row EXCEPT !.total = n, !.available = n - (row.assigned + row.out)]
           IN /\ PairOK(new, held)
              /\ \A k \in Nat : Agree(row, held, k) => Agree(new, held, k)
<1> DEFINE available == n - (row.assigned + row.out)
           new == [row EXCEPT !.total = n, !.available = available]
<1>1. row \in Stock /\ row.total >= 1
  BY DEF PairOK
<1>2. /\ row.total \in Nat /\ row.available \in Nat /\ row.assigned \in Nat /\ row.out \in Nat
  BY <1>1, RowTypes
<1>3. available \in Nat
  BY <1>2
<1>4. /\ new \in Stock /\ new.total = n /\ new.available = available /\ new.assigned = row.assigned
      /\ new.out = row.out /\ new.operational = row.operational
  <2> HIDE DEF available
  <2> QED
    BY <1>1, <1>3 DEF Stock
<1> HIDE DEF new
<1>5. PairOK(new, held)
  BY <1>1, <1>2, <1>4 DEF PairOK
<1>6. ASSUME NEW k \in Nat, Agree(row, held, k)
      PROVE  Agree(new, held, k)
  BY <1>2, <1>4, <1>6 DEF Agree
<1> QED
  BY <1>5, <1>6 DEF new

\* Archiving and reactivating touch no counter.
LEMMA ActivePair ==
    ASSUME NEW row, NEW held, PairOK(row, held), NEW active \in BOOLEAN
    PROVE  LET new == [row EXCEPT !.active = active]
           IN /\ PairOK(new, held)
              /\ \A n \in Nat : Agree(row, held, n) => Agree(new, held, n)
<1> DEFINE new == [row EXCEPT !.active = active]
<1>1. row \in Stock /\ row.total >= 1
  BY DEF PairOK
<1>2. new \in Stock /\ SameCounters(new, row)
  BY <1>1 DEF Stock, SameCounters
<1> HIDE DEF new
<1>3. PairOK(new, held)
  BY <1>1, <1>2 DEF PairOK, SameCounters
<1>4. ASSUME NEW n \in Nat, Agree(row, held, n)
      PROVE  Agree(new, held, n)
  BY <1>2, <1>4 DEF Agree, SameCounters
<1> QED
  BY <1>3, <1>4 DEF new

\* A row whose units on the shelf are counted anew: in service, all that are
\* neither reserved nor out; otherwise none.
LEMMA ShelfPair ==
    ASSUME NEW row, NEW held, PairOK(row, held), NEW new \in Stock,
           new.total = row.total, new.assigned = row.assigned, new.out = row.out,
           new.available = IF new.operational = "ready"
                           THEN Less(row.total, row.assigned + row.out) ELSE 0
    PROVE  /\ PairOK(new, held)
           /\ \A n \in Nat : Agree(row, held, n) => Agree(new, held, n)
<1>1. row \in Stock /\ row.total >= 1
  BY DEF PairOK
<1>2. /\ row.total \in Nat /\ row.available \in Nat /\ row.assigned \in Nat /\ row.out \in Nat
  BY <1>1, RowTypes
<1>3. PairOK(new, held)
  BY DEF PairOK
<1>4. ASSUME NEW n \in Nat, Agree(row, held, n)
      PROVE  Agree(new, held, n)
  BY <1>2, <1>4 DEF Agree, Less
<1> QED
  BY <1>3, <1>4

\* applyRmaStatusToAssets.
LEMMA RepairedPair ==
    ASSUME NEW row, NEW held, PairOK(row, held), NEW status \in CaseStatuses
    PROVE  /\ PairOK(RepairedRow(row, status), held)
           /\ \A n \in Nat : Agree(row, held, n) => Agree(RepairedRow(row, status), held, n)
<1> DEFINE operational == CASE status = "No repair / retired" -> "retired"
                            [] status = "Repaired" -> "ready"
                            [] OTHER -> "maintenance"
           custody == IF operational = "ready" THEN "available" ELSE operational
           available == IF operational = "ready"
                        THEN Less(row.total, row.assigned + row.out) ELSE 0
           new == [row EXCEPT !.operational = operational, !.custody = custody, !.available = available]
<1>1. row \in Stock /\ row.total >= 1
  BY DEF PairOK
<1>2. /\ row.total \in Nat /\ row.available \in Nat /\ row.assigned \in Nat /\ row.out \in Nat
  BY <1>1, RowTypes
<1>3. operational \in {"ready", "maintenance", "retired"}
  OBVIOUS
<1>4. RepairedRow(row, status) = new
  BY DEF RepairedRow
<1> HIDE DEF operational
<1>5. custody \in {"available", "maintenance", "retired"} /\ available \in Nat
  BY <1>2, <1>3 DEF Less
<1> HIDE DEF custody
<1>6. /\ new \in Stock /\ new.total = row.total /\ new.assigned = row.assigned /\ new.out = row.out
      /\ new.operational = operational /\ new.available = available
  <2> HIDE DEF available
  <2> QED
    BY <1>1, <1>3, <1>5 DEF Stock
<1> HIDE DEF new
<1>7. /\ PairOK(new, held)
      /\ \A n \in Nat : Agree(row, held, n) => Agree(new, held, n)
  BY <1>6, ShelfPair
<1> QED
  BY <1>4, <1>7

\* resolveIncident, retiring the asset.
LEMMA RetiredPair ==
    ASSUME NEW row, NEW held, PairOK(row, held)
    PROVE  LET new == [row EXCEPT !.operational = "retired", !.available = 0]
           IN /\ PairOK(new, held)
              /\ \A n \in Nat : Agree(row, held, n) => Agree(new, held, n)
<1> DEFINE new == [row EXCEPT !.operational = "retired", !.available = 0]
<1>1. row \in Stock
  BY DEF PairOK
<1>2. /\ new \in Stock /\ new.total = row.total /\ new.assigned = row.assigned /\ new.out = row.out
      /\ new.operational = "retired" /\ new.available = 0
  BY <1>1 DEF Stock
<1> HIDE DEF new
<1>3. /\ PairOK(new, held)
      /\ \A n \in Nat : Agree(row, held, n) => Agree(new, held, n)
  BY <1>2, ShelfPair
<1> QED
  BY <1>3 DEF new

\* createPackingSlip: the units taken are out, and the slip says so.
LEMMA IssuePair ==
    ASSUME NEW a, NEW p \in Projects, NEW q \in Nat \ {0},
           PairOK(stock[a], assignment[a]), MayIssue(a, p, q)
    PROVE  LET new == IssuedRow(a, p, q)
               held == [project |-> p, status |-> "checked_out",
                        quantity |-> IF assignment[a] = Nothing THEN q ELSE new.assigned + new.out]
           IN /\ PairOK(new, held)
              /\ \A n \in Nat : Agree(stock[a], assignment[a], n) => Agree(new, held, q + n)
<1> DEFINE row == stock[a]
           flow == SourceFlow(a, p)
           available == IF flow = "available" THEN row.available - q ELSE row.available
           assigned == IF flow = "assigned" THEN row.assigned - q ELSE row.assigned
           out == row.out + q
           base == Counted(row, p, available, assigned, out)
           new == IssuedRow(a, p, q)
           held == [project |-> p, status |-> "checked_out",
                    quantity |-> IF assignment[a] = Nothing THEN q ELSE new.assigned + new.out]
<1>1. row \in Stock /\ row.total >= 1
  BY DEF PairOK
<1>2. /\ row.total \in Nat /\ row.available \in Nat /\ row.assigned \in Nat /\ row.out \in Nat
  BY <1>1, RowTypes
<1>3. /\ row.operational = "ready" /\ flow \in {"assigned", "available"}
      /\ IF flow = "assigned" THEN row.assigned > 0 /\ q <= row.assigned ELSE q <= row.available
  BY <1>2 DEF MayIssue, SourceFlow
<1>4. new = WithCustody(base)
  BY DEF IssuedRow, Counted
<1> HIDE DEF row, flow
<1>5. available \in Nat /\ assigned \in Nat /\ out \in Nat /\ p \in Projects \cup {Nothing}
  BY <1>2, <1>3
<1> HIDE DEF available, assigned, out
<1>6. /\ base \in Stock /\ base.total = row.total /\ base.operational = row.operational
      /\ base.project = p /\ base.available = available /\ base.assigned = assigned
      /\ base.out = out
  BY <1>1, <1>5, CountedRow
<1> HIDE DEF base
<1>7. new \in Stock /\ SameCounters(new, base)
  BY <1>4, <1>6, CustodyIsDerived
<1> HIDE DEF new
<1>8. /\ new.total = row.total /\ new.operational = "ready" /\ new.available = available
      /\ new.assigned = assigned /\ new.out = row.out + q
  BY <1>3, <1>6, <1>7 DEF SameCounters, out
<1>9. held \in Assignment /\ new.assigned + new.out > 0 /\ new.out > 0
  BY <1>2, <1>5, <1>8 DEF Assignment
<1>10. held # Nothing
  BY <1>9, WarehouseAssumption
<1>11. PairOK(new, held)
  BY <1>1, <1>7, <1>8, <1>9 DEF PairOK
<1>12. held.status = "checked_out"
       /\ held.quantity = (IF assignment[a] = Nothing THEN q ELSE new.assigned + new.out)
  OBVIOUS
<1> HIDE DEF held
<1>13. ASSUME NEW n \in Nat, Agree(row, assignment[a], n)
       PROVE  Agree(new, held, q + n)
  <2>1. new.available + new.assigned + new.out = row.available + row.assigned + row.out
    BY <1>2, <1>3, <1>8 DEF available, assigned
  <2>2. row.out = n /\ row.available + row.assigned + row.out = row.total
    BY <1>3, <1>13 DEF Agree
  <2>3. assignment[a] = Nothing => row.assigned = 0 /\ row.out = 0
    BY <1>13 DEF Agree
  <2>4. assignment[a] = Nothing => new.assigned = 0 /\ new.out = q
    BY <1>2, <1>3, <1>8, <2>3 DEF assigned
  <2>5. held.quantity = new.assigned + new.out
    BY <1>12, <2>4
  <2>6. new.out = q + n
    BY <1>2, <1>8, <2>2
  <2> QED
    BY <1>8, <1>9, <1>10, <1>12, <2>1, <2>2, <2>5, <2>6 DEF Agree
<1> QED
  BY <1>11, <1>13 DEF row, new, held

\* returnPackingSlipItems: the units of one item go back where they came from.
LEMMA ReturnPair ==
    ASSUME NEW a \in Assets, NEW s \in Slips, slip[s] \in Slip, slip[s].items[a] \in Item,
           PairOK(stock[a], assignment[a])
    PROVE  LET new == ReturnedRow(a, s)
               held == ReturnedAssignment(a, s)
               q == slip[s].items[a].quantity
           IN /\ PairOK(new, held)
              /\ \A n \in Nat : Agree(stock[a], assignment[a], q + n) => Agree(new, held, n)
<1> DEFINE row == stock[a]
           item == slip[s].items[a]
           q == item.quantity
           available == IF item.source = "available" THEN row.available + q ELSE row.available
           assigned == IF item.source = "assigned" THEN row.assigned + q ELSE row.assigned
           out == Less(row.out, q)
           counted == [row EXCEPT !.available = available, !.assigned = assigned, !.out = out]
           p == IF counted.assigned > 0 \/ counted.out > 0 THEN slip[s].project ELSE Nothing
           base == [counted EXCEPT !.project = p]
           new == ReturnedRow(a, s)
           held == ReturnedAssignment(a, s)
<1>1. row \in Stock /\ row.total >= 1
  BY DEF PairOK
<1>2. /\ row.total \in Nat /\ row.available \in Nat /\ row.assigned \in Nat /\ row.out \in Nat
  BY <1>1, RowTypes
<1>3. q \in Nat /\ item.source \in {"assigned", "available"} /\ slip[s].project \in Projects
  BY DEF Item, Slip
<1>4. new = WithCustody(base)
  BY DEF ReturnedRow
<1>5. held = IF assignment[a] = Nothing \/ (new.assigned = 0 /\ new.out = 0) THEN Nothing
             ELSE [assignment[a] EXCEPT !.status = IF new.out > 0 THEN "checked_out" ELSE "assigned",
                                        !.quantity = new.assigned + new.out]
  BY DEF ReturnedAssignment
<1>6. available \in Nat /\ assigned \in Nat /\ out \in Nat
  BY <1>2, <1>3 DEF Less
<1>7. /\ q <= row.out => out = row.out - q
      /\ available + assigned = row.available + row.assigned + q
  BY <1>2, <1>3 DEF Less
<1> HIDE DEF row, item, q, available, assigned, out
<1>8. /\ counted \in Stock /\ counted.total = row.total /\ counted.operational = row.operational
      /\ counted.available = available /\ counted.assigned = assigned /\ counted.out = out
  BY <1>1, <1>6 DEF Stock
<1> HIDE DEF counted
<1>9. p \in Projects \cup {Nothing}
  BY <1>3
<1> HIDE DEF p
<1>10. /\ base \in Stock /\ base.total = row.total /\ base.operational = row.operational
       /\ base.available = available /\ base.assigned = assigned /\ base.out = out
  BY <1>8, <1>9 DEF Stock
<1> HIDE DEF base
<1>11. new \in Stock /\ SameCounters(new, base)
  BY <1>4, <1>10, CustodyIsDerived
<1> HIDE DEF new
<1>12. /\ new.total = row.total /\ new.operational = row.operational /\ new.available = available
       /\ new.assigned = assigned /\ new.out = out
  BY <1>10, <1>11 DEF SameCounters
<1> DEFINE status == IF new.out > 0 THEN "checked_out" ELSE "assigned"
           quantity == new.assigned + new.out
           kept == [assignment[a] EXCEPT !.status = status, !.quantity = quantity]
           drops == assignment[a] = Nothing \/ (new.assigned = 0 /\ new.out = 0)
<1>13. assignment[a] \in Assignment \cup {Nothing}
  BY DEF PairOK
<1>14. ~drops => /\ kept \in Assignment /\ kept.quantity = new.assigned + new.out
                 /\ kept.status = IF new.out > 0 THEN "checked_out" ELSE "assigned"
  <2>1. status \in {"assigned", "checked_out"} /\ quantity \in Nat
    BY <1>6, <1>12
  <2> HIDE DEF status, quantity
  <2>2. assignment[a] \in Assignment => kept \in Assignment /\ kept.quantity = quantity /\ kept.status = status
    BY <2>1 DEF Assignment
  <2> QED
    BY <1>13, <2>2 DEF status, quantity
<1> HIDE DEF kept
<1>15. held = IF drops THEN Nothing ELSE kept
  BY <1>5 DEF kept
<1> HIDE DEF held
<1>16. ~drops => held # Nothing /\ new.assigned + new.out > 0
  <2> SUFFICES ASSUME ~drops
               PROVE  held # Nothing /\ new.assigned + new.out > 0
    OBVIOUS
  <2>1. held = kept /\ kept \in Assignment /\ ~(new.assigned = 0 /\ new.out = 0)
    BY <1>14, <1>15
  <2>2. new.assigned + new.out > 0
    BY <1>6, <1>12, <2>1
  <2> QED
    BY <2>1, <2>2, WarehouseAssumption
<1>17. PairOK(new, held)
  <2>1. CASE drops
    BY <1>1, <1>11, <1>12, <1>15, <2>1 DEF PairOK
  <2>2. CASE ~drops
    <3>1. held \in Assignment
      BY <1>14, <1>15, <2>2
    <3> QED
      BY <1>1, <1>11, <1>12, <1>16, <2>2, <3>1 DEF PairOK
  <2> QED
    BY <2>1, <2>2
<1>18. ASSUME NEW n \in Nat, Agree(row, assignment[a], q + n)
       PROVE  Agree(new, held, n)
  <2>1. row.out = q + n
    BY <1>18 DEF Agree
  <2>2. new.out = n /\ q <= row.out
    BY <1>2, <1>3, <1>7, <1>12, <2>1
  <2>3. new.available + new.assigned + new.out = row.available + row.assigned + row.out
    BY <1>2, <1>3, <1>6, <1>7, <1>12, <2>1, <2>2
  <2>4. IF new.operational = "ready"
        THEN new.available + new.assigned + new.out = new.total
        ELSE new.available + new.assigned + new.out <= new.total
    BY <1>12, <1>18, <2>3 DEF Agree
  <2>5. CASE drops
    <3>1. assignment[a] = Nothing => row.assigned = 0 /\ row.out = 0
      BY <1>18 DEF Agree
    <3>2. assignment[a] = Nothing => q = 0 /\ n = 0 /\ new.assigned = 0 /\ new.out = 0
      BY <1>2, <1>3, <1>12, <2>1, <2>2, <3>1 DEF assigned
    <3>3. held = Nothing /\ new.assigned = 0 /\ new.out = 0
      BY <1>15, <2>5, <3>2
    <3> QED
      BY <2>2, <2>4, <3>3 DEF Agree
  <2>6. CASE ~drops
    <3>1. /\ held # Nothing /\ new.assigned + new.out > 0 /\ held.quantity = new.assigned + new.out
          /\ held.status = IF new.out > 0 THEN "checked_out" ELSE "assigned"
      BY <1>14, <1>15, <1>16, <2>6
    <3> QED
      BY <2>2, <2>4, <3>1 DEF Agree
  <2> QED
    BY <2>5, <2>6
<1> QED
  BY <1>17, <1>18 DEF row, new, held, q, item

\* SetupProject: every unit is reserved for the new project.
LEMMA SetupPair ==
    ASSUME NEW row, NEW held, PairOK(row, held), NEW p \in Projects
    PROVE  PairOK([row EXCEPT !.project = p, !.available = 0, !.assigned = row.total,
                              !.out = 0, !.custody = "assigned"],
                  [project |-> p, quantity |-> row.total, status |-> "assigned"])
<1> DEFINE total == row.total
           new == [row EXCEPT !.project = p, !.available = 0, !.assigned = total,
                              !.out = 0, !.custody = "assigned"]
<1>1. row \in Stock /\ total >= 1 /\ total \in Nat
  BY RowTypes DEF PairOK
<1>2. new \in Stock /\ new.total = total /\ new.assigned = total /\ new.out = 0
  <2>1. row.total = total
    OBVIOUS
  <2> HIDE DEF total
  <2> QED
    BY <1>1, <2>1 DEF Stock
<1>3. [project |-> p, quantity |-> total, status |-> "assigned"] \in Assignment
  BY <1>1 DEF Assignment
<1> HIDE DEF new, total
<1>4. new.assigned + new.out > 0
  BY <1>1, <1>2
<1>5. PairOK(new, [project |-> p, quantity |-> total, status |-> "assigned"])
  BY <1>1, <1>2, <1>3, <1>4 DEF PairOK
<1> QED
  BY <1>5 DEF new, total

\* The counters rewritten from an open assignment hold at least one unit.
LEMMA RebuiltPair ==
    ASSUME NEW a, stock[a] \in Stock, stock[a].total >= 1, Pending(a) \in Nat,
           NEW held \in Assignment, held.project # Nothing
    PROVE  PairOK(RebuiltRow(a, held), held)
<1> DEFINE row == stock[a]
           quantity == AtLeast(1, AtMost(row.total, held.quantity))
           open == AtMost(row.total, Pending(a))
           checkedOut == held.status = "checked_out"
           out == IF checkedOut THEN AtLeast(open, quantity) ELSE open
           assigned == IF checkedOut THEN Less(quantity, out) ELSE AtMost(row.total - out, quantity)
           available == Less(row.total, assigned + out)
           base == [row EXCEPT !.project = held.project, !.out = out,
                               !.assigned = assigned, !.available = available]
           new == RebuiltRow(a, held)
<1>1. row \in Stock /\ row.total >= 1 /\ row.total \in Nat
  BY RowTypes
<1>2. held \in Assignment /\ held.quantity \in Nat /\ held.project \in Projects \cup {Nothing}
  BY DEF Assignment
<1>3. new = WithCustody(base)
  BY DEF RebuiltRow
<1> HIDE DEF row
<1>4. quantity \in Nat /\ quantity >= 1 /\ quantity <= row.total /\ open \in Nat /\ open <= row.total
  BY <1>1, <1>2 DEF AtLeast, AtMost
<1> HIDE DEF quantity, open
<1>5. out \in Nat /\ out <= row.total /\ (checkedOut => out >= 1)
  BY <1>1, <1>4 DEF AtLeast
<1>6. assigned \in Nat /\ assigned + out > 0
  <2>1. CASE checkedOut
    BY <1>4, <1>5, <2>1 DEF Less
  <2>2. CASE ~checkedOut
    BY <1>1, <1>4, <1>5, <2>2 DEF AtMost
  <2> QED
    BY <2>1, <2>2
<1> HIDE DEF out, assigned, checkedOut
<1>7. available \in Nat
  BY <1>1, <1>5, <1>6 DEF Less
<1> HIDE DEF available
<1>8. base \in Stock /\ base.total = row.total /\ base.assigned = assigned /\ base.out = out
  <2> DEFINE p == held.project
             given == [row EXCEPT !.project = p, !.out = out,
                                  !.assigned = assigned, !.available = available]
  <2>1. base = given /\ p \in Projects \cup {Nothing}
    BY <1>2
  <2> HIDE DEF p, base
  <2>2. given \in Stock /\ given.total = row.total /\ given.assigned = assigned /\ given.out = out
    BY <1>1, <1>5, <1>6, <1>7, <2>1 DEF Stock
  <2> QED
    BY <2>1, <2>2
<1> HIDE DEF base
<1>9. new \in Stock /\ SameCounters(new, base)
  BY <1>3, <1>8, CustodyIsDerived
<1> HIDE DEF new
<1>10. PairOK(new, held)
  BY <1>1, <1>2, <1>6, <1>8, <1>9 DEF PairOK, SameCounters
<1> QED
  BY <1>10 DEF new

-----------------------------------------------------------------------------

(***************************************************************************)
(* What is pending on the slips, before and after a step.                  *)
(***************************************************************************)
LEMMA PendingSlipsListUnits ==
    ASSUME SlipInv, NEW a \in Assets
    PROVE  IsFiniteSet(PendingSlips(a)) /\ AreUnits(slip, a, PendingSlips(a))
<1>1. PendingSlips(a) \subseteq Slips
  BY DEF PendingSlips
<1>2. IsFiniteSet(PendingSlips(a))
  BY <1>1, WarehouseAssumption, FS_Subset
<1>3. ASSUME NEW s \in PendingSlips(a)
      PROVE  Units(slip, a, s) \in Nat
  <2>1. s \in Slips /\ slip[s] \in Slip /\ slip[s].items[a] # Nothing
    BY <1>3 DEF PendingSlips, PendingItem, SlipInv, SlipsTyped
  <2>2. slip[s].items[a] \in Item
    BY <2>1 DEF Slip
  <2> QED
    BY <2>2 DEF Item, Units
<1> QED
  BY <1>2, <1>3 DEF AreUnits

LEMMA PendingIsNat ==
    ASSUME SlipInv, NEW a \in Assets
    PROVE  Pending(a) \in Nat
  BY PendingSlipsListUnits, PendingIsUnitsOn, UnitsOnIsNat

LEMMA PendingStays ==
    ASSUME UNCHANGED slip, NEW a
    PROVE  Pending(a)' = Pending(a)
<1>1. PendingSlips(a)' = PendingSlips(a)
  BY DEF PendingSlips, PendingItem
<1>2. Pending(a) = UnitsOn(slip, a, PendingSlips(a)) /\ Pending(a)' = UnitsOn(slip', a, PendingSlips(a)')
  BY PendingIsUnitsOn, PendingIsUnitsOnAfter
<1> QED
  BY <1>1, <1>2

\* Slips other than s are as they were, and s lists none of the asset that is pending.
LEMMA PendingStaysBut ==
    ASSUME SlipInv, NEW a \in Assets, NEW s \in Slips, \A t \in Slips \ {s} : slip'[t] = slip[t],
           PendingItem(s, a)' <=> PendingItem(s, a),
           PendingItem(s, a) => Units(slip', a, s) = Units(slip, a, s)
    PROVE  Pending(a)' = Pending(a)
<1>1. \A t \in Slips \ {s} : PendingItem(t, a)' <=> PendingItem(t, a)
  BY DEF PendingItem
<1>2. PendingSlips(a)' = PendingSlips(a)
  BY <1>1 DEF PendingSlips
<1>3. \A t \in PendingSlips(a) : Units(slip', a, t) = Units(slip, a, t)
  BY DEF PendingSlips, Units
<1>4. UnitsOn(slip', a, PendingSlips(a)) = UnitsOn(slip, a, PendingSlips(a))
  BY <1>3, PendingSlipsListUnits, SameUnits
<1> QED
  BY <1>2, <1>4, PendingIsUnitsOn, PendingIsUnitsOnAfter

\* Slip s comes to list q units of the asset as pending.
LEMMA PendingGrows ==
    ASSUME SlipInv, NEW a \in Assets, NEW s \in Slips, \A t \in Slips \ {s} : slip'[t] = slip[t],
           ~PendingItem(s, a), PendingItem(s, a)', Units(slip', a, s) \in Nat
    PROVE  Pending(a)' = Units(slip', a, s) + Pending(a)
<1>1. \A t \in Slips \ {s} : PendingItem(t, a)' <=> PendingItem(t, a)
  BY DEF PendingItem
<1>2. PendingSlips(a)' = PendingSlips(a) \cup {s} /\ s \notin PendingSlips(a)
  BY <1>1 DEF PendingSlips
<1>3. \A t \in PendingSlips(a) : Units(slip', a, t) = Units(slip, a, t)
  BY <1>2 DEF PendingSlips, Units
<1>4. AreUnits(slip', a, PendingSlips(a) \cup {s})
  BY <1>3, PendingSlipsListUnits DEF AreUnits
<1>5. UnitsOn(slip', a, PendingSlips(a) \cup {s}) = Units(slip', a, s) + UnitsOn(slip, a, PendingSlips(a))
  BY <1>2, <1>3, <1>4, PendingSlipsListUnits, OneSlipMore
<1> QED
  BY <1>2, <1>5, PendingIsUnitsOn, PendingIsUnitsOnAfter

\* Slip s lists the asset as returned.
LEMMA PendingShrinks ==
    ASSUME SlipInv, NEW a \in Assets, NEW s \in Slips, \A t \in Slips \ {s} : slip'[t] = slip[t],
           PendingItem(s, a), ~PendingItem(s, a)'
    PROVE  Pending(a) = Units(slip, a, s) + Pending(a)' /\ Pending(a)' \in Nat
<1>1. \A t \in Slips \ {s} : PendingItem(t, a)' <=> PendingItem(t, a)
  BY DEF PendingItem
<1> DEFINE rest == PendingSlips(a)'
<1>2. PendingSlips(a) = rest \cup {s} /\ s \notin rest /\ rest \subseteq Slips
  BY <1>1 DEF PendingSlips
<1> HIDE DEF rest
<1>3. \A t \in rest : Units(slip, a, t) = Units(slip', a, t)
  BY <1>2 DEF Units
<1>4. IsFiniteSet(rest) /\ AreUnits(slip, a, rest \cup {s})
  BY <1>2, PendingSlipsListUnits, FS_Subset, WarehouseAssumption
<1>5. UnitsOn(slip, a, rest \cup {s}) = Units(slip, a, s) + UnitsOn(slip', a, rest)
  BY <1>2, <1>3, <1>4, OneSlipMore
<1>6. AreUnits(slip', a, rest)
  BY <1>3, <1>4 DEF AreUnits
<1>7. UnitsOn(slip', a, rest) \in Nat
  BY <1>4, <1>6, UnitsOnIsNat
<1> QED
  BY <1>2, <1>5, <1>7, PendingIsUnitsOn, PendingIsUnitsOnAfter DEF rest

-----------------------------------------------------------------------------

(***************************************************************************)
(* What a step does to one asset.                                          *)
(***************************************************************************)
AssetsTyped ==
    /\ stock = [a \in Assets |-> stock[a]] /\ assignment = [a \in Assets |-> assignment[a]]
    /\ \A a \in Assets : PairOK(stock[a], assignment[a])

AssetInv == SlipInv /\ AssetsTyped /\ known \subseteq Projects

\* The three ways in which the counters of an asset may come to disagree.
Exempt(a) ==
    \/ known' # known
    \/ commands' = commands
    \/ /\ stock[a].available = 0 /\ stock'[a].assigned < stock[a].assigned
       /\ stock'[a].project # stock[a].project

AssetStep(a) ==
    /\ PairOK(stock'[a], assignment'[a])
    /\ Consistent(a) => Consistent(a)' \/ Exempt(a)

\* A step that leaves what is pending and turns one agreeing pair into another.
LEMMA PairStep ==
    ASSUME AssetInv, NEW a \in Assets, NEW row, NEW held, stock'[a] = row, assignment'[a] = held,
           PairOK(row, held), Pending(a)' = Pending(a),
           \A n \in Nat : Agree(stock[a], assignment[a], n) => Agree(row, held, n)
    PROVE  AssetStep(a)
<1>1. Pending(a) \in Nat
  BY PendingIsNat DEF AssetInv
<1>2. ASSUME Consistent(a)
      PROVE  Consistent(a)'
  <2>1. Agree(stock[a], assignment[a], Pending(a))
    BY <1>2, ConsistentIsAgree
  <2>2. Agree(stock'[a], assignment'[a], Pending(a)')
    BY <1>1, <2>1
  <2> QED
    BY <2>2, ConsistentIsAgreeAfter
<1> QED
  BY <1>2 DEF AssetStep

LEMMA SameStep ==
    ASSUME AssetInv, NEW a \in Assets, stock'[a] = stock[a], assignment'[a] = assignment[a],
           Pending(a)' = Pending(a)
    PROVE  AssetStep(a)
  BY PairStep DEF AssetInv, AssetsTyped

\* A command on one asset's row that leaves the slips.
OneAsset(a, row, held) ==
    /\ stock' = [stock EXCEPT ![a] = row] /\ assignment' = [assignment EXCEPT ![a] = held]
    /\ UNCHANGED slip

LEMMA OthersStay ==
    ASSUME AssetInv, NEW a \in Assets, NEW row, NEW held, OneAsset(a, row, held)
    PROVE  /\ stock'[a] = row /\ assignment'[a] = held
           /\ stock' = [b \in Assets |-> stock'[b]] /\ assignment' = [b \in Assets |-> assignment'[b]]
           /\ \A b \in Assets \ {a} : AssetStep(b)
<1>1. /\ stock' = [b \in Assets |-> IF b = a THEN row ELSE stock[b]]
      /\ assignment' = [b \in Assets |-> IF b = a THEN held ELSE assignment[b]]
  BY DEF OneAsset, AssetInv, AssetsTyped
<1>2. ASSUME NEW b \in Assets \ {a}
      PROVE  AssetStep(b)
  <2>1. Pending(b)' = Pending(b)
    BY PendingStays DEF OneAsset
  <2> QED
    BY <1>1, <2>1, SameStep
<1> QED
  BY <1>1, <1>2

\* Every asset takes such a step, and the tables keep their domains.
AllAssetsStep ==
    /\ stock' = [a \in Assets |-> stock'[a]] /\ assignment' = [a \in Assets |-> assignment'[a]]
    /\ \A a \in Assets : AssetStep(a)

LEMMA OnePairStep ==
    ASSUME AssetInv, NEW a \in Assets, NEW row, NEW held, OneAsset(a, row, held),
           PairOK(row, held),
           \A n \in Nat : Agree(stock[a], assignment[a], n) => Agree(row, held, n)
    PROVE  AllAssetsStep
<1>1. Pending(a)' = Pending(a)
  BY PendingStays DEF OneAsset
<1>2. stock'[a] = row /\ assignment'[a] = held
  BY OthersStay
<1>3. AssetStep(a)
  BY <1>1, <1>2, PairStep
<1> QED
  BY <1>3, OthersStay DEF AllAssetsStep

LEMMA NothingStep ==
    ASSUME AssetInv, UNCHANGED <<stock, assignment, slip>>
    PROVE  AllAssetsStep
<1>1. \A a \in Assets : AssetStep(a)
  BY PendingStays, SameStep
<1> QED
  BY <1>1 DEF AllAssetsStep, AssetInv, AssetsTyped

LEMMA PairsAreOK ==
    ASSUME AssetInv, NEW a \in Assets
    PROVE  PairOK(stock[a], assignment[a]) /\ assignment = [assignment EXCEPT ![a] = assignment[a]]
  BY DEF AssetInv, AssetsTyped

LEMMA AssignStep ==
    ASSUME AssetInv, NEW a \in Assets, NEW target \in known \cup {Nothing}, NEW q \in 1..MaxQuantity,
           Assign(a, target, q)
    PROVE  AllAssetsStep
<1> DEFINE p == IF target = Nothing THEN stock[a].project ELSE target
           row == AssignedRow(a, p, q)
           held == AssignedTo(a, p, q)
<1>1. p \in Projects \cup {Nothing} /\ q \in Nat \ {0}
  BY PairsAreOK, RowTypes, WarehouseAssumption DEF PairOK, AssetInv
<1>2. MayAssign(a, p, q) /\ OneAsset(a, row, held)
  BY DEF Assign, OneAsset
<1> HIDE DEF p
<1>3. /\ PairOK(row, held)
      /\ \A n \in Nat : Agree(stock[a], assignment[a], n) =>
           \/ Agree(row, held, n)
           \/ stock[a].available = 0 /\ row.assigned < stock[a].assigned /\ row.project # stock[a].project
  BY <1>1, <1>2, AssignPair, PairsAreOK
<1> HIDE DEF row, held
<1>4. stock'[a] = row /\ assignment'[a] = held /\ Pending(a)' = Pending(a)
  BY <1>2, OthersStay, PendingStays DEF OneAsset
<1>5. Consistent(a) => Consistent(a)' \/ Exempt(a)
  <2> SUFFICES ASSUME Consistent(a)
               PROVE  Consistent(a)' \/ Exempt(a)
    OBVIOUS
  <2>1. Agree(stock[a], assignment[a], Pending(a)) /\ Pending(a) \in Nat
    BY ConsistentIsAgree, PendingIsNat DEF AssetInv
  <2>2. CASE Agree(row, held, Pending(a))
    BY <1>4, <2>2, ConsistentIsAgreeAfter
  <2>3. CASE ~Agree(row, held, Pending(a))
    BY <1>3, <1>4, <2>1, <2>3 DEF Exempt
  <2> QED
    BY <2>2, <2>3
<1>6. AssetStep(a)
  BY <1>3, <1>4, <1>5 DEF AssetStep
<1> QED
  BY <1>2, <1>6, OthersStay DEF AllAssetsStep

LEMMA ReleaseStep ==
    ASSUME AssetInv, NEW a \in Assets, Release(a)
    PROVE  AllAssetsStep
<1> DEFINE old == stock[a]
           row == [old EXCEPT !.project = Nothing, !.available = @ + old.assigned,
                              !.assigned = 0, !.custody = "available"]
<1>1. OneAsset(a, row, Nothing)
  BY DEF Release, OneAsset
<1>2. PairOK(old, assignment[a]) /\ old.out = 0
  BY PairsAreOK DEF Release
<1>3. /\ PairOK(row, Nothing)
      /\ \A n \in Nat : Agree(old, assignment[a], n) => Agree(row, Nothing, n)
  <2> HIDE DEF old
  <2> QED
    BY <1>2, ReleasePair
<1> HIDE DEF row
<1> QED
  BY <1>1, <1>3, OnePairStep

LEMMA ReconcileStep ==
    ASSUME AssetInv, NEW a \in Assets, NEW n \in 1..MaxQuantity, Reconcile(a, n)
    PROVE  AllAssetsStep
<1> DEFINE old == stock[a]
           row == [old EXCEPT !.total = n, !.available = n - (old.assigned + old.out)]
<1>1. OneAsset(a, row, assignment[a])
  BY PairsAreOK DEF Reconcile, OneAsset
<1>2. PairOK(old, assignment[a]) /\ n >= old.assigned + old.out /\ n \in Nat \ {0}
  BY PairsAreOK, WarehouseAssumption DEF Reconcile
<1>3. /\ PairOK(row, assignment[a])
      /\ \A k \in Nat : Agree(old, assignment[a], k) => Agree(row, assignment[a], k)
  <2> HIDE DEF old
  <2> QED
    BY <1>2, CountPair
<1> HIDE DEF row
<1> QED
  BY <1>1, <1>3, OnePairStep

LEMMA ActiveStep ==
    ASSUME AssetInv, NEW a \in Assets, Archive(a) \/ Reactivate(a)
    PROVE  AllAssetsStep
<1>1. PICK active \in BOOLEAN : stock' = [stock EXCEPT ![a].active = active]
  BY DEF Archive, Reactivate
<1> DEFINE old == stock[a]
           row == [old EXCEPT !.active = active]
<1>2. OneAsset(a, row, assignment[a])
  BY <1>1, PairsAreOK DEF Archive, Reactivate, OneAsset
<1>3. PairOK(old, assignment[a])
  BY PairsAreOK
<1>4. /\ PairOK(row, assignment[a])
      /\ \A k \in Nat : Agree(old, assignment[a], k) => Agree(row, assignment[a], k)
  <2> HIDE DEF old
  <2> QED
    BY <1>3, ActivePair
<1> HIDE DEF row
<1> QED
  BY <1>2, <1>4, OnePairStep

LEMMA ResolveStep ==
    ASSUME AssetInv, NEW a \in Assets, NEW retire \in BOOLEAN, ResolveIncident(a, retire)
    PROVE  AllAssetsStep
<1>1. CASE retire
  <2> DEFINE old == stock[a]
             row == [old EXCEPT !.operational = "retired", !.available = 0]
  <2>1. OneAsset(a, row, assignment[a])
    BY <1>1, PairsAreOK DEF ResolveIncident, OneAsset, AssetInv, AssetsTyped
  <2>2. PairOK(old, assignment[a])
    BY PairsAreOK
  <2>3. /\ PairOK(row, assignment[a])
        /\ \A k \in Nat : Agree(old, assignment[a], k) => Agree(row, assignment[a], k)
    <3> HIDE DEF old
    <3> QED
      BY <2>2, RetiredPair
  <2> HIDE DEF row
  <2> QED
    BY <2>1, <2>3, OnePairStep
<1>2. CASE ~retire
  BY <1>2, NothingStep DEF ResolveIncident
<1> QED
  BY <1>1, <1>2

\* createRmaCase and updateRmaCase: some rows change status, the rest stay.
LEMMA RepairStep ==
    ASSUME AssetInv, NEW A, NEW status \in CaseStatuses, UNCHANGED <<assignment, slip>>,
           stock' = [a \in Assets |-> IF a \in A THEN RepairedRow(stock[a], status) ELSE stock[a]]
    PROVE  AllAssetsStep
<1>1. ASSUME NEW a \in Assets
      PROVE  AssetStep(a)
  <2>1. Pending(a)' = Pending(a)
    BY PendingStays
  <2>2. CASE a \in A
    <3>1. stock'[a] = RepairedRow(stock[a], status) /\ assignment'[a] = assignment[a]
      BY <2>2
    <3>2. /\ PairOK(RepairedRow(stock[a], status), assignment[a])
          /\ \A n \in Nat : Agree(stock[a], assignment[a], n)
                              => Agree(RepairedRow(stock[a], status), assignment[a], n)
      BY RepairedPair, PairsAreOK
    <3> QED
      BY <2>1, <3>1, <3>2, PairStep
  <2>3. CASE a \notin A
    BY <2>1, <2>3, SameStep
  <2> QED
    BY <2>2, <2>3
<1> QED
  BY <1>1 DEF AllAssetsStep, AssetInv, AssetsTyped

LEMMA IssueStep ==
    ASSUME AssetInv, NEW s \in Slips, NEW p \in known, NEW A \in SUBSET Assets,
           NEW q \in [A -> 1..MaxQuantity], CreatePackingSlip(s, p, A, q)
    PROVE  AllAssetsStep
<1> DEFINE items == [a \in Assets |-> IF a \notin A THEN Nothing ELSE
               [quantity |-> q[a], source |-> SourceFlow(a, p), returned |-> FALSE]]
           issued == [project |-> p, status |-> "Issued", items |-> items]
           held(a) == [project |-> p, status |-> "checked_out",
                       quantity |-> IF assignment[a] = Nothing THEN q[a]
                                    ELSE IssuedRow(a, p, q[a]).assigned + IssuedRow(a, p, q[a]).out]
<1>1. /\ slip[s] = Nothing /\ slip' = [slip EXCEPT ![s] = issued]
      /\ \A a \in A : MayIssue(a, p, q[a])
      /\ stock' = [a \in Assets |-> IF a \in A THEN IssuedRow(a, p, q[a]) ELSE stock[a]]
      /\ assignment' = [a \in Assets |-> IF a \notin A THEN assignment[a] ELSE held(a)]
  BY DEF CreatePackingSlip
<1>3. slip'[s] = issued /\ issued \in Slip /\ issued # Nothing /\ \A t \in Slips \ {s} : slip'[t] = slip[t]
  <2> HIDE DEF issued
  <2>1. slip'[s] = issued /\ \A t \in Slips \ {s} : slip'[t] = slip[t]
    BY <1>1 DEF AssetInv, SlipInv, SlipsTyped
  <2>2. issued \in Slip
    <3>1. \A a \in A : SourceFlow(a, p) \in {"assigned", "available"} /\ q[a] \in Nat
      BY WarehouseAssumption DEF SourceFlow
    <3>2. items \in [Assets -> Item \cup {Nothing}]
      BY <3>1 DEF Item
    <3> HIDE DEF items
    <3> QED
      BY <3>2 DEF issued, Slip, AssetInv
  <2>3. issued # Nothing
    BY <2>2, WarehouseAssumption
  <2> QED
    BY <2>1, <2>2, <2>3
<1>4. ASSUME NEW a \in A
      PROVE  AssetStep(a)
  <2>1. a \in Assets /\ q[a] \in Nat \ {0} /\ p \in Projects /\ MayIssue(a, p, q[a])
    BY <1>1, WarehouseAssumption DEF AssetInv
  <2> DEFINE row == IssuedRow(a, p, q[a])
             own == held(a)
             units == q[a]
  <2>2. stock'[a] = row /\ assignment'[a] = own
    BY <1>1, <2>1
  <2>3. /\ PairOK(row, own)
        /\ \A n \in Nat : Agree(stock[a], assignment[a], n) => Agree(row, own, units + n)
    BY <2>1, IssuePair, PairsAreOK
  <2>4. slip'[s].items[a] = [quantity |-> units, source |-> SourceFlow(a, p), returned |-> FALSE]
    BY <1>3, <2>1
  <2>5. slip'[s].items[a] # Nothing
    <3>1. slip'[s].items[a] \in Item
      BY <2>1, <2>4 DEF Item, SourceFlow
    <3> QED
      BY <3>1, WarehouseAssumption
  <2>6. ~PendingItem(s, a) /\ PendingItem(s, a)' /\ Units(slip', a, s) = units
    BY <1>1, <1>3, <2>4, <2>5 DEF PendingItem, Units
  <2> HIDE DEF row, own, units
  <2>7. Pending(a)' = units + Pending(a) /\ Pending(a) \in Nat
    <3>1. units \in Nat
      BY <2>1 DEF units
    <3> QED
      BY <1>3, <2>1, <2>6, <3>1, PendingGrows, PendingIsNat DEF AssetInv
  <2>8. Consistent(a) => Consistent(a)'
    BY <2>2, <2>3, <2>7, ConsistentIsAgree, ConsistentIsAgreeAfter
  <2> QED
    BY <2>2, <2>3, <2>8 DEF AssetStep
<1>5. ASSUME NEW a \in Assets \ A
      PROVE  AssetStep(a)
  <2>1. stock'[a] = stock[a] /\ assignment'[a] = assignment[a]
    BY <1>1
  <2>2. slip'[s].items[a] = Nothing
    BY <1>3
  <2>3. ~PendingItem(s, a) /\ ~PendingItem(s, a)'
    BY <1>1, <2>2 DEF PendingItem
  <2>4. Pending(a)' = Pending(a)
    BY <1>3, <2>3, PendingStaysBut DEF AssetInv
  <2> QED
    BY <2>1, <2>4, SameStep
<1> QED
  BY <1>1, <1>4, <1>5 DEF AllAssetsStep

LEMMA ReturnStep ==
    ASSUME AssetInv, NEW s \in Slips, NEW A \in SUBSET Assets, ReturnPackingSlipItems(s, A)
    PROVE  AllAssetsStep
<1> DEFINE items == [a \in Assets |-> IF a \in A
               THEN [slip[s].items[a] EXCEPT !.returned = TRUE] ELSE slip[s].items[a]]
<1>1. /\ slip[s] \in Slip /\ slip[s] # Nothing
      /\ \A a \in A : PendingItem(s, a) /\ slip[s].items[a] \in Item
      /\ stock' = [a \in Assets |-> IF a \in A THEN ReturnedRow(a, s) ELSE stock[a]]
      /\ assignment' = [a \in Assets |-> IF a \in A THEN ReturnedAssignment(a, s) ELSE assignment[a]]
  BY DEF ReturnPackingSlipItems, PendingItem, AssetInv, SlipInv, SlipsTyped, Slip
<1>2. slip' = [slip EXCEPT ![s].items = items, ![s].status = ResolveSlipStatus(items)]
  BY DEF ReturnPackingSlipItems
<1> HIDE DEF items
<1>3. slip'[s].items = items /\ \A t \in Slips \ {s} : slip'[t] = slip[t]
  BY <1>1, <1>2 DEF AssetInv, SlipInv, SlipsTyped, Slip
<1>4. slip'[s] # Nothing
  <2>2. slip' = [t \in Slips |-> IF t = s
          THEN [slip[s] EXCEPT !.items = items, !.status = ResolveSlipStatus(items)] ELSE slip[t]]
    BY <1>2 DEF AssetInv, SlipInv, SlipsTyped
  <2>3. [slip[s] EXCEPT !.items = items, !.status = ResolveSlipStatus(items)] \in Slip
    <3>1. items \in [Assets -> Item \cup {Nothing}]
      BY <1>1 DEF items, Item, Slip
    <3>2. ResolveSlipStatus(items) \in {"Issued", "Partial return", "Closed"}
      BY DEF ResolveSlipStatus
    <3> QED
      BY <1>1, <3>1, <3>2 DEF Slip
  <2> QED
    BY <2>2, <2>3, WarehouseAssumption
<1>5. ASSUME NEW a \in A
      PROVE  AssetStep(a)
  <2>1. a \in Assets /\ PendingItem(s, a) /\ slip[s].items[a] \in Item
    BY <1>1
  <2> DEFINE row == ReturnedRow(a, s)
             own == ReturnedAssignment(a, s)
             units == Units(slip, a, s)
  <2>2. stock'[a] = row /\ assignment'[a] = own
    BY <1>1, <2>1
  <2>3. /\ PairOK(row, own)
        /\ \A n \in Nat : Agree(stock[a], assignment[a], units + n) => Agree(row, own, n)
    BY <1>1, <2>1, ReturnPair, PairsAreOK DEF Units
  <2> HIDE DEF row, own, units
  <2>4. ~PendingItem(s, a)'
    BY <1>3, <2>1 DEF PendingItem, items, Item
  <2>5. Pending(a) = units + Pending(a)' /\ Pending(a)' \in Nat
    BY <1>3, <2>1, <2>4, PendingShrinks DEF AssetInv, units
  <2>6. Consistent(a) => Consistent(a)'
    BY <2>2, <2>3, <2>5, ConsistentIsAgree, ConsistentIsAgreeAfter
  <2> QED
    BY <2>2, <2>3, <2>6 DEF AssetStep
<1>6. ASSUME NEW a \in Assets \ A
      PROVE  AssetStep(a)
  <2>1. stock'[a] = stock[a] /\ assignment'[a] = assignment[a]
    BY <1>1
  <2>2. slip'[s].items[a] = slip[s].items[a]
    BY <1>3 DEF items
  <2>3. (PendingItem(s, a)' <=> PendingItem(s, a)) /\ Units(slip', a, s) = Units(slip, a, s)
    BY <1>1, <1>4, <2>2 DEF PendingItem, Units
  <2>4. Pending(a)' = Pending(a)
    BY <1>3, <2>3, PendingStaysBut DEF AssetInv
  <2> QED
    BY <2>1, <2>4, SameStep
<1> QED
  BY <1>1, <1>5, <1>6 DEF AllAssetsStep

LEMMA SetupStep ==
    ASSUME AssetInv, NEW p \in Projects, NEW listed \in [Assets -> 0..MaxUnits],
           NEW seeded, SetupProject(p, listed, seeded)
    PROVE  AllAssetsStep
<1>1. /\ known' # known
      /\ stock' = [a \in Assets |-> IF listed[a] = 0 THEN stock[a] ELSE
           [stock[a] EXCEPT !.project = p, !.available = 0, !.assigned = stock[a].total,
                            !.out = 0, !.custody = "assigned"]]
      /\ assignment' = [a \in Assets |-> IF listed[a] = 0 THEN assignment[a] ELSE
           [project |-> p, quantity |-> stock[a].total, status |-> "assigned"]]
  BY DEF SetupProject
<1>2. ASSUME NEW a \in Assets
      PROVE  PairOK(stock'[a], assignment'[a])
  <2>1. PairOK(stock[a], assignment[a])
    BY PairsAreOK
  <2>2. CASE listed[a] = 0
    BY <1>1, <2>1, <2>2
  <2>3. CASE listed[a] # 0
    <3> DEFINE old == stock[a]
    <3>1. /\ stock'[a] = [old EXCEPT !.project = p, !.available = 0, !.assigned = old.total,
                                     !.out = 0, !.custody = "assigned"]
          /\ assignment'[a] = [project |-> p, quantity |-> old.total, status |-> "assigned"]
      BY <1>1, <2>3
    <3> HIDE DEF old
    <3>2. PairOK([old EXCEPT !.project = p, !.available = 0, !.assigned = old.total,
                             !.out = 0, !.custody = "assigned"],
                 [project |-> p, quantity |-> old.total, status |-> "assigned"])
      BY <2>1, SetupPair DEF old
    <3> QED
      BY <3>1, <3>2
  <2> QED
    BY <2>2, <2>3
<1>3. \A a \in Assets : AssetStep(a)
  BY <1>1, <1>2 DEF AssetStep, Exempt
<1> QED
  BY <1>1, <1>3 DEF AllAssetsStep

\* Of the open rows beside the active one there is a youngest.
LEMMA YoungestIsCandidate ==
    ASSUME NEW a \in Assets, beside[a] \in SUBSET Spare, Candidates(a) # {}
    PROVE  Youngest(a) \in Candidates(a)
<1> DEFINE ages == {MaxCommands - r.since : r \in Candidates(a)}
<1>1. \A r \in Candidates(a) : r.since \in 0 .. MaxCommands
  BY DEF Candidates, Spare
<1>2. ages \in SUBSET Nat /\ ages # {}
  BY <1>1, WarehouseAssumption
<1>3. PICK n \in ages : \A m \in ages : n <= m
  BY <1>2, LeastNumber
<1>4. PICK r \in Candidates(a) : n = MaxCommands - r.since
  BY <1>3
<1>5. ASSUME NEW t \in Candidates(a)
      PROVE  t.since <= r.since
  <2>1. n <= MaxCommands - t.since
    BY <1>3
  <2>2. t.since \in Nat /\ r.since \in Nat /\ MaxCommands \in Nat
    BY <1>1, WarehouseAssumption
  <2> QED
    BY <1>4, <2>1, <2>2
<1> QED
  BY <1>5 DEF Youngest

LEMMA RepairedHasProject ==
    ASSUME NEW a \in Assets, beside[a] \in SUBSET Spare,
           assignment[a] \in Assignment \cup {Nothing}
    PROVE  /\ RepairedAssignment(a) \in Assignment \cup {Nothing}
           /\ ~HasProject(RepairedAssignment(a)) => RepairedAssignment(a) = assignment[a]
<1>1. CASE ~TakesUp(a)
  BY <1>1 DEF RepairedAssignment
<1>2. CASE TakesUp(a)
  <2>1. Youngest(a) \in Spare /\ Youngest(a).project # Nothing
    BY <1>2, YoungestIsCandidate DEF TakesUp, Candidates
  <2>2. /\ RepairedAssignment(a) \in Assignment
        /\ RepairedAssignment(a).project = Youngest(a).project
    BY <1>2, <2>1 DEF RepairedAssignment, Spare, Assignment
  <2> QED
    BY <2>1, <2>2, WarehouseAssumption DEF HasProject
<1> QED
  BY <1>1, <1>2

LEMMA RebuildStep ==
    ASSUME AssetInv, beside \in [Assets -> SUBSET Spare], RepairState
    PROVE  AllAssetsStep
<1>1. /\ stock' = [a \in Assets |-> IF HasProject(RepairedAssignment(a))
           THEN RebuiltRow(a, RepairedAssignment(a)) ELSE stock[a]]
      /\ assignment' = [a \in Assets |-> RepairedAssignment(a)] /\ commands' = commands
  BY DEF RepairState
<1>2. ASSUME NEW a \in Assets
      PROVE  PairOK(stock'[a], assignment'[a])
  <2>1. PairOK(stock[a], assignment[a]) /\ Pending(a) \in Nat
    BY PairsAreOK, PendingIsNat DEF AssetInv
  <2>2. /\ RepairedAssignment(a) \in Assignment \cup {Nothing}
        /\ ~HasProject(RepairedAssignment(a)) => RepairedAssignment(a) = assignment[a]
    BY <2>1, RepairedHasProject DEF PairOK
  <2>3. CASE HasProject(RepairedAssignment(a))
    <3> DEFINE held == RepairedAssignment(a)
    <3>1. held \in Assignment /\ held.project # Nothing
      BY <2>2, <2>3 DEF HasProject
    <3>2. stock'[a] = RebuiltRow(a, held) /\ assignment'[a] = held
      BY <1>1, <2>3
    <3> HIDE DEF held
    <3> QED
      BY <2>1, <3>1, <3>2, RebuiltPair DEF PairOK
  <2>4. CASE ~HasProject(RepairedAssignment(a))
    BY <1>1, <2>1, <2>2, <2>4
  <2> QED
    BY <2>3, <2>4
<1>3. \A a \in Assets : AssetStep(a)
  BY <1>1, <1>2 DEF AssetStep, Exempt
<1> QED
  BY <1>1, <1>3 DEF AllAssetsStep

-----------------------------------------------------------------------------

(***************************************************************************)
(* All commands together.                                                  *)
(***************************************************************************)
LEMMA EveryAssetSteps ==
    ASSUME AssetInv, beside \in [Assets -> SUBSET Spare], [Next]_vars
    PROVE  AllAssetsStep
<1>1. ASSUME NEW a \in Assets, NEW p \in known \cup {Nothing}, NEW q \in 1..MaxQuantity, Assign(a, p, q)
      PROVE  AllAssetsStep
  BY <1>1, AssignStep
<1>2. ASSUME NEW a \in Assets, Release(a)
      PROVE  AllAssetsStep
  BY <1>2, ReleaseStep
<1>3. ASSUME NEW a \in Assets, Archive(a) \/ Reactivate(a)
      PROVE  AllAssetsStep
  BY <1>3, ActiveStep
<1>4. ASSUME NEW a \in Assets, NEW n \in 1..MaxQuantity, Reconcile(a, n)
      PROVE  AllAssetsStep
  BY <1>4, ReconcileStep
<1>5. ASSUME NEW s \in Slips, NEW p \in known, NEW A \in SUBSET Assets,
             NEW q \in [A -> 1..MaxQuantity], CreatePackingSlip(s, p, A, q)
      PROVE  AllAssetsStep
  BY <1>5, IssueStep
<1>6. ASSUME NEW s \in Slips, NEW A \in SUBSET Assets, ReturnPackingSlipItems(s, A)
      PROVE  AllAssetsStep
  BY <1>6, ReturnStep
<1>7. ASSUME NEW p \in Projects, NEW listed \in [Assets -> 0..MaxUnits], NEW S \in SUBSET Slips,
             NEW seeded \in [S -> SUBSET Assets], SetupProject(p, listed, seeded)
      PROVE  AllAssetsStep
  BY <1>7, SetupStep
<1>8. ASSUME NEW c \in Cases, NEW A \in SUBSET Assets, CreateRmaCase(c, A)
      PROVE  AllAssetsStep
  <2>1. "Needs review" \in CaseStatuses
    BY DEF CaseStatuses
  <2> QED
    BY <1>8, <2>1, RepairStep DEF CreateRmaCase
<1>9. ASSUME NEW c \in Cases, NEW A \in SUBSET Assets, NEW status \in CaseStatuses, UpdateRmaCase(c, A, status)
      PROVE  AllAssetsStep
  <2> DEFINE reached == {a \in A : status # case[c].status}
  <2>1. stock' = [a \in Assets |-> IF a \in reached THEN RepairedRow(stock[a], status) ELSE stock[a]]
    BY <1>9 DEF UpdateRmaCase
  <2> HIDE DEF reached
  <2> QED
    BY <1>9, <2>1, RepairStep DEF UpdateRmaCase
<1>10. ASSUME NEW a \in Assets, NEW retire \in BOOLEAN, ResolveIncident(a, retire)
       PROVE  AllAssetsStep
  BY <1>10, ResolveStep
<1>11. ASSUME RepairState
       PROVE  AllAssetsStep
  BY <1>11, RebuildStep
<1>12. CASE UNCHANGED <<stock, assignment, slip>>
  BY <1>12, NothingStep
<1> QED
  BY <1>1, <1>2, <1>3, <1>4, <1>5, <1>6, <1>7, <1>8, <1>9, <1>10, <1>11, <1>12
  DEF Next, vars, ReportIncident, UpdateIncident

\* What TypeOK says of the variables other than the assets and the slips.
RestTyped ==
    /\ case \in [Cases -> Case \cup {Nothing}]
    /\ incident \in [Assets -> {"none", "Open", "Resolved"}]
    /\ commands \in 0 .. MaxCommands

LEMMA CaseStored ==
    ASSUME RestTyped, Command, NEW c \in Cases, NEW new \in Case,
           case' = [case EXCEPT ![c] = new], UNCHANGED incident
    PROVE  RestTyped'
  BY WarehouseAssumption DEF RestTyped, Command

LEMMA RestStays ==
    ASSUME RestTyped, [Next]_vars
    PROVE  RestTyped'
<1>1. ASSUME NEW c \in Cases, NEW A \in SUBSET Assets, CreateRmaCase(c, A)
      PROVE  RestTyped'
  <2>1. [status |-> "Needs review", assets |-> A] \in Case
    BY DEF Case, CaseStatuses
  <2> QED
    BY <1>1, <2>1, CaseStored DEF CreateRmaCase
<1>2. ASSUME NEW c \in Cases, NEW A \in SUBSET Assets, NEW status \in CaseStatuses, UpdateRmaCase(c, A, status)
      PROVE  RestTyped'
  <2>1. [status |-> status, assets |-> A] \in Case
    BY DEF Case
  <2> QED
    BY <1>2, <2>1, CaseStored DEF UpdateRmaCase
<1>3. ASSUME NEW a \in Assets, NEW status \in {"none", "Open", "Resolved"}, Command,
             incident' = [incident EXCEPT ![a] = status], UNCHANGED case
      PROVE  RestTyped'
  BY <1>3, WarehouseAssumption DEF Command, RestTyped
<1>4. CASE Command /\ UNCHANGED <<case, incident>>
  BY <1>4, WarehouseAssumption DEF Command, RestTyped
<1>5. CASE UNCHANGED <<commands, case, incident>>
  BY <1>5 DEF RestTyped
<1> QED
  BY <1>1, <1>2, <1>3, <1>4, <1>5 DEF Next, vars, Assign, Release, Archive, Reactivate, ReportIncident,
     UpdateIncident, ResolveIncident, Reconcile, CreatePackingSlip, ReturnPackingSlipItems,
     SetupProject, RepairState

\* An open row beside the active one belongs to an asset listed in several units.
SpareInv ==
    /\ beside \in [Assets -> SUBSET Spare]
    /\ spread \in SUBSET Assets
    /\ \A a \in Assets : beside[a] # {} => a \in spread

LEMMA SetupKeepsSpares ==
    ASSUME SpareInv, AssetInv, RestTyped, NEW p \in Projects, NEW listed \in [Assets -> 0..MaxUnits],
           NEW seeded, SetupProject(p, listed, seeded)
    PROVE  SpareInv'
<1>1. /\ beside' = [a \in Assets |-> beside[a] \cup SpareRows(a, p, listed[a])]
      /\ spread' = spread \cup {a \in Assets : listed[a] > 1}
  BY DEF SetupProject
<1>2. ASSUME NEW a \in Assets
      PROVE  /\ SpareRows(a, p, listed[a]) \in SUBSET Spare
             /\ SpareRows(a, p, listed[a]) # {} => listed[a] > 1
  <2> DEFINE n == listed[a]
             total == stock[a].total
  <2>1. n \in 0 .. MaxUnits /\ MaxUnits \in Nat /\ commands \in 0 .. MaxCommands
    BY WarehouseAssumption DEF RestTyped
  <2>2. total \in Nat
    BY PairsAreOK, RowTypes DEF PairOK
  <2>3. SpareRows(a, p, n) = {[project |-> p, quantity |-> total, status |-> "assigned",
            since |-> commands, unit |-> u] : u \in 1 .. n - 1}
    BY DEF SpareRows
  <2> HIDE DEF n, total
  <2>4. \A u \in 1 .. n - 1 : u \in 0 .. MaxUnits /\ n > 1
    BY <2>1
  <2>5. SpareRows(a, p, n) \in SUBSET Spare /\ (SpareRows(a, p, n) # {} => n > 1)
    BY <2>1, <2>2, <2>3, <2>4 DEF Spare
  <2> QED
    BY <2>5 DEF n
<1> QED
  BY <1>1, <1>2 DEF SpareInv

LEMMA RebuildKeepsSpares ==
    ASSUME SpareInv, AssetInv, RestTyped, RepairState
    PROVE  SpareInv'
<1>1. /\ beside' = [a \in Assets |-> IF TakesUp(a)
           THEN (beside[a] \ {Youngest(a)}) \cup Displaced(a) ELSE beside[a]]
      /\ spread' = spread
  BY DEF RepairState
<1>2. ASSUME NEW a \in Assets
      PROVE  Displaced(a) \in SUBSET Spare /\ (TakesUp(a) => a \in spread)
  <2>1. assignment[a] \in Assignment \cup {Nothing} /\ commands \in 0 .. MaxCommands
    BY PairsAreOK DEF PairOK, RestTyped
  <2>2. 0 \in 0 .. MaxUnits
    BY WarehouseAssumption
  <2>3. Displaced(a) \in SUBSET Spare
    BY <2>1, <2>2 DEF Displaced, Spare, Assignment
  <2>4. TakesUp(a) => beside[a] # {}
    BY DEF TakesUp, Candidates
  <2> QED
    BY <2>3, <2>4 DEF SpareInv
<1> QED
  BY <1>1, <1>2 DEF SpareInv

LEMMA SparesStay ==
    ASSUME SpareInv, AssetInv, RestTyped, [Next]_vars
    PROVE  SpareInv'
<1>1. ASSUME NEW p \in Projects, NEW listed \in [Assets -> 0..MaxUnits], NEW S \in SUBSET Slips,
             NEW seeded \in [S -> SUBSET Assets], SetupProject(p, listed, seeded)
      PROVE  SpareInv'
  BY <1>1, SetupKeepsSpares
<1>2. CASE RepairState
  BY <1>2, RebuildKeepsSpares
<1>3. CASE UNCHANGED openRows
  BY <1>3 DEF SpareInv, openRows
<1> QED
  BY <1>1, <1>2, <1>3 DEF Next, vars, openRows, Assign, Release, Archive, Reactivate, ReportIncident,
     UpdateIncident, ResolveIncident, Reconcile, CreatePackingSlip, ReturnPackingSlipItems,
     CreateRmaCase, UpdateRmaCase

IInv == AssetInv /\ SpareInv /\ RestTyped

LEMMA InitInv == Init => IInv
<1> SUFFICES ASSUME Init
             PROVE  IInv
  OBVIOUS
<1>1. SlipInv /\ known \subseteq Projects
  BY WarehouseAssumption DEF Init, SlipInv, SlipsTyped
<1>2. AssetsTyped
  BY WarehouseAssumption DEF Init, AssetsTyped, PairOK, Stock
<1>3. RestTyped
  BY WarehouseAssumption DEF Init, RestTyped
<1>4. SpareInv
  BY DEF Init, SpareInv
<1> QED
  BY <1>1, <1>2, <1>3, <1>4 DEF IInv, AssetInv

LEMMA StepInv == IInv /\ SlipInv' /\ known' \subseteq Projects /\ [Next]_vars => IInv'
<1> SUFFICES ASSUME IInv, SlipInv', known' \subseteq Projects, [Next]_vars
             PROVE  IInv'
  OBVIOUS
<1>1. AllAssetsStep
  BY EveryAssetSteps DEF IInv, SpareInv
<1>2. AssetsTyped'
  BY <1>1 DEF AllAssetsStep, AssetStep, AssetsTyped
<1>3. RestTyped' /\ SpareInv'
  BY RestStays, SparesStay DEF IInv
<1> QED
  BY <1>2, <1>3 DEF IInv, AssetInv

LEMMA AlwaysInv == Spec => []IInv
<1>1. IInv /\ (SlipInv /\ known \subseteq Projects)' /\ [Next]_vars => IInv'
  BY StepInv
<1> QED
  BY <1>1, InitInv, SlipInvHolds, KnownAreProjects, PTL DEF Spec

-----------------------------------------------------------------------------
\* returnPackingSlipItems keeps packing_slips.status true to the items: a
\* slip is closed exactly when everything it lists is back.
THEOREM SlipStatusIsRight == Spec => []SlipStatusMatchesItems
<1>1. SlipInv => SlipStatusMatchesItems
  BY DEF SlipInv, StatusFits, SlipStatusMatchesItems, PendingItem
<1> QED
  BY <1>1, SlipInvHolds, PTL

\* The counters, assignments, slips, cases and incidents keep their types; in
\* particular no counter of an asset ever goes below zero.
THEOREM TypesHold == Spec => []TypeOK
<1>1. IInv => TypeOK
  <2> SUFFICES ASSUME IInv
               PROVE  TypeOK
    OBVIOUS
  <2>1. stock \in [Assets -> Stock] /\ assignment \in [Assets -> Assignment \cup {Nothing}]
    BY DEF IInv, AssetInv, AssetsTyped, PairOK
  <2> QED
    BY <2>1 DEF IInv, AssetInv, SpareInv, SlipInv, SlipsTyped, RestTyped, TypeOK
<1> QED
  BY <1>1, AlwaysInv, PTL

\* No command, and not the rewriting of the counters either, leaves an active
\* assignment without a unit, which release and return could no longer close;
\* and only of an asset that the wizard has listed in several units is a second
\* row open, which the rewriting makes the active one when the first is released.
THEOREM AssignmentsHoldUnits == Spec => []AssignmentHoldsUnits
<1>1. IInv => AssignmentHoldsUnits
  BY DEF IInv, AssetInv, SpareInv, AssetsTyped, PairOK, AssignmentHoldsUnits
<1> QED
  BY <1>1, AlwaysInv, PTL

\* Issue, return, release, top-up, stock count, repair and retirement keep the
\* counters of every asset in agreement with its slips and its assignment; only
\* the wizard, the rewriting of the counters and moving a part of a reservation
\* do not.
THEOREM OnlyThreeDrift == Spec => DriftsOnlyByThree
<1> DEFINE Kept == \A a \in Assets : Consistent(a) /\ ~Consistent(a)' =>
             \/ known' # known
             \/ commands' = commands
             \/ /\ stock[a].available = 0 /\ stock'[a].assigned < stock[a].assigned
                /\ stock'[a].project # stock[a].project
<1>1. IInv /\ [Next]_vars => [Kept]_vars
  BY EveryAssetSteps DEF IInv, SpareInv, AllAssetsStep, AssetStep, Exempt
<1> HIDE DEF Kept
<1>2. Spec => [][Kept]_vars
  BY <1>1, AlwaysInv, PTL DEF Spec
<1> QED
  BY <1>2 DEF DriftsOnlyByThree, Kept
===============================================================================
