--------------------------- MODULE InvoiceInboxProofs ---------------------------
(***************************************************************************)
(* The bank books and the inbox that books documents on them, for any      *)
(* number of accounts, movements, documents and commands.                  *)
(*                                                                         *)
(* The books are kept together by what all copies of them agree on: to     *)
(* which account an import belongs, wherever it is still spoken of, in the *)
(* tables, in Postgres, on the journal or in the rows being sent.  That    *)
(* no decision goes missing rests on the order of the outbox: a deletion   *)
(* that takes a decision with it in Postgres has that decision behind it.  *)
(***************************************************************************)
EXTENDS InvoiceInbox, FiniteSetTheorems, SequenceTheorems, TLAPS

-------------------------------------------------------------------------------
(* Columns and queues                                                      *)

LEMMA PatchedType ==
    ASSUME NEW A, NEW B, NEW column \in [B -> A], NEW D \in SUBSET B, NEW rows \in [D -> A]
    PROVE  /\ Patched(column, rows) \in [B -> A]
           /\ \A x \in B : Patched(column, rows)[x] = IF x \in D THEN rows[x] ELSE column[x]
BY DEF Patched

LEMMA QueueOf ==
    ASSUME NEW S, IsFiniteSet(S)
    PROVE  SetToSeq(S) \in Seq(S) /\ \A x \in S : \E k \in DOMAIN SetToSeq(S) : SetToSeq(S)[k] = x
<1> DEFINE n == Cardinality(S)
<1>1. n \in Nat /\ ExistsBijection(1..n, S)
  BY FS_CardinalityType
<1>2. PICK f \in [1..n -> S] : IsInjective(f)
  BY <1>1 DEF ExistsBijection, Bijection, Injection, IsInjective
<1>3. SetToSeq(S) \in [1..n -> S] /\ IsInjective(SetToSeq(S))
  BY <1>2 DEF SetToSeq
<1>4. SetToSeq(S) \in Injection(1..n, S)
  BY <1>3 DEF Injection
<1>5. IsFiniteSet(1..n) /\ Cardinality(1..n) = n
  BY <1>1, FS_Interval
<1>6. SetToSeq(S) \in Surjection(1..n, S)
  BY <1>4, <1>5, FS_Injection
<1> QED
  BY <1>1, <1>3, <1>6, SeqDef DEF Surjection

-------------------------------------------------------------------------------
(* Copies of the tables                                                    *)

\* A copy speaks only of imports numbered so far, and of each as its owner says.
Fits(b, own, n) ==
    /\ b \in Books
    /\ \A i \in Imports : b.imports[i] \in {NoRow, own[i]} /\ (i > n => b.imports[i] = NoRow)
    /\ \A m \in Movements : Present(b, m) =>
        own[b.movement[m].import] = AccountOf[m] /\ b.movement[m].import <= n

Owners == [Imports -> Accounts \cup {NoRow}]

LEMMA BookTypes ==
    ASSUME NEW b \in Books
    PROVE  /\ b.active \in [Accounts -> BOOLEAN]
           /\ b.imports \in [Imports -> Accounts \cup {NoRow}]
           /\ b.movement \in [Movements -> Movement \cup {NoRow}]
           /\ b.annotation \in [Movements -> Annotation \cup {NoRow}]
           /\ b.allocated \in [Movements -> Nat]
BY DEF Books

LEMMA BookMade ==
    ASSUME NEW b \in Books,
           NEW active \in [Accounts -> BOOLEAN], NEW imports \in [Imports -> Accounts \cup {NoRow}],
           NEW movement \in [Movements -> Movement \cup {NoRow}],
           NEW annotation \in [Movements -> Annotation \cup {NoRow}],
           NEW allocated \in [Movements -> Nat]
    PROVE  LET c == [b EXCEPT !.active = active, !.imports = imports, !.movement = movement,
                              !.annotation = annotation, !.allocated = allocated]
           IN /\ c \in Books
              /\ c.active = active /\ c.imports = imports /\ c.movement = movement
              /\ c.annotation = annotation /\ c.allocated = allocated
BY DEF Books

LEMMA RowsOfOne ==
    ASSUME NEW b, NEW i
    PROVE  UNION {Members(b, j) : j \in {i}} = Members(b, i)
OBVIOUS

LEMMA NewBooksFit ==
    ASSUME NEW own \in Owners, NEW n \in Nat
    PROVE  Fits(NewBooks, own, n) /\ HangTogether(NewBooks)
<1>1. NewBooks \in Books
  BY DEF NewBooks, Books
<1>2. \A m \in Movements : NewBooks.movement[m] = NoRow /\ NewBooks.annotation[m] = NoRow
                           /\ NewBooks.allocated[m] = 0
  BY DEF NewBooks
<1>3. \A i \in Imports : NewBooks.imports[i] = NoRow
  BY DEF NewBooks
<1> QED
  BY <1>1, <1>2, <1>3 DEF Fits, HangTogether, Present, Classified, Allocated

\* The rows of one kind for one key: what they hold and that they fit.
LEMMA AccountRows ==
    ASSUME NEW own \in Owners, NEW n \in Nat, NEW b, Fits(b, own, n), NEW a \in Accounts,
           NEW S, S = {a}
    PROVE  LET r == RowsOf(b, "account", S) IN
           /\ Fits(r, own, n) /\ HangTogether(r)
           /\ r.active[a] = b.active[a]
           /\ \A m \in Movements : r.movement[m] = NoRow /\ r.annotation[m] = NoRow /\ r.allocated[m] = 0
<1> DEFINE r == RowsOf(b, "account", S)
           of == [k \in S |-> b.active[k]]
<1>1. b \in Books
  BY DEF Fits
<1>2. r = [NewBooks EXCEPT !.active = Patched(@, of)]
  BY DEF RowsOf
<1>3. NewBooks \in Books
  BY DEF NewBooks, Books
<1>4. Patched(NewBooks.active, of) \in [Accounts -> BOOLEAN] /\ Patched(NewBooks.active, of)[a] = b.active[a]
  BY <1>1, <1>3, BookTypes DEF Patched
<1>5. r \in Books /\ r.active[a] = b.active[a] /\ r.imports = NewBooks.imports
      /\ r.movement = NewBooks.movement /\ r.annotation = NewBooks.annotation
      /\ r.allocated = NewBooks.allocated
  <2> HIDE DEF r, of
  <2> QED
    BY <1>2, <1>3, <1>4 DEF Books
<1> HIDE DEF r
<1>6. \A m \in Movements : r.movement[m] = NoRow /\ r.annotation[m] = NoRow /\ r.allocated[m] = 0
  BY <1>5 DEF NewBooks
<1>7. \A i \in Imports : r.imports[i] = NoRow
  BY <1>5 DEF NewBooks
<1>8. Fits(r, own, n) /\ HangTogether(r)
  BY <1>5, <1>6, <1>7 DEF Fits, HangTogether, Present, Classified, Allocated
<1> QED
  BY <1>5, <1>6, <1>8 DEF r

LEMMA ImportRows ==
    ASSUME NEW own \in Owners, NEW n \in Nat, NEW b, Fits(b, own, n), HangTogether(b),
           NEW i \in Imports, NEW T, T = {i}, NEW table \in {"import", "import_delete"}
    PROVE  LET r == RowsOf(b, table, T) IN
           /\ Fits(r, own, n) /\ HangTogether(r)
           /\ r.imports[i] = b.imports[i]
           /\ \A m \in Movements :
                IF m \in Members(b, i)
                THEN /\ r.movement[m] = b.movement[m] /\ r.annotation[m] = b.annotation[m]
                     /\ r.allocated[m] = b.allocated[m]
                ELSE r.movement[m] = NoRow /\ r.annotation[m] = NoRow /\ r.allocated[m] = 0
<1> DEFINE r == RowsOf(b, table, T)
           S == Members(b, i)
           imports == Patched(NewBooks.imports, [k \in T |-> b.imports[k]])
           movement == Patched(NewBooks.movement, [k \in S |-> b.movement[k]])
           annotation == Patched(NewBooks.annotation, [k \in S |-> b.annotation[k]])
           allocated == Patched(NewBooks.allocated, [k \in S |-> b.allocated[k]])
<1>1. b \in Books /\ S \in SUBSET Movements
  BY DEF Fits, Members
<1>2. r = [NewBooks EXCEPT !.imports = imports, !.movement = movement,
                           !.annotation = annotation, !.allocated = allocated]
  BY RowsOfOne DEF RowsOf
<1>3. NewBooks \in Books
  BY DEF NewBooks, Books
<1>4. /\ imports \in [Imports -> Accounts \cup {NoRow}]
      /\ \A k \in Imports : imports[k] = IF k = i THEN b.imports[k] ELSE NoRow
  <2>1. [k \in T |-> b.imports[k]] \in [T -> Accounts \cup {NoRow}]
    BY <1>1, BookTypes
  <2>2. NewBooks.imports = [k \in Imports |-> NoRow]
    BY DEF NewBooks
  <2> QED
    BY <2>1, <2>2 DEF Patched
<1>5. /\ movement \in [Movements -> Movement \cup {NoRow}]
      /\ \A k \in Movements : movement[k] = IF k \in S THEN b.movement[k] ELSE NoRow
  <2>1. NewBooks.movement = [k \in Movements |-> NoRow]
    BY DEF NewBooks
  <2> QED
    BY <1>1, <2>1, BookTypes DEF Patched
<1>6. /\ annotation \in [Movements -> Annotation \cup {NoRow}]
      /\ \A k \in Movements : annotation[k] = IF k \in S THEN b.annotation[k] ELSE NoRow
  <2>1. NewBooks.annotation = [k \in Movements |-> NoRow]
    BY DEF NewBooks
  <2> QED
    BY <1>1, <2>1, BookTypes DEF Patched
<1>7. /\ allocated \in [Movements -> Nat]
      /\ \A k \in Movements : allocated[k] = IF k \in S THEN b.allocated[k] ELSE 0
  <2>1. NewBooks.allocated = [k \in Movements |-> 0]
    BY DEF NewBooks
  <2> QED
    BY <1>1, <2>1, BookTypes DEF Patched
<1>8. r \in Books /\ r.imports = imports /\ r.movement = movement
      /\ r.annotation = annotation /\ r.allocated = allocated
  <2> HIDE DEF r, imports, movement, annotation, allocated
  <2> QED
    BY <1>2, <1>3, <1>4, <1>5, <1>6, <1>7 DEF Books
<1> HIDE DEF r, imports, movement, annotation, allocated
<1>9. Fits(r, own, n)
  <2>1. \A k \in Imports : r.imports[k] \in {NoRow, own[k]} /\ (k > n => r.imports[k] = NoRow)
    BY <1>4, <1>8 DEF Fits
  <2>2. \A m \in Movements : Present(r, m) =>
            own[r.movement[m].import] = AccountOf[m] /\ r.movement[m].import <= n
    BY <1>5, <1>8 DEF Fits, Present
  <2> QED
    BY <1>8, <2>1, <2>2 DEF Fits
<1>10. HangTogether(r)
  <2>1. ASSUME NEW m \in Movements, Present(r, m)
        PROVE  r.imports[r.movement[m].import] = AccountOf[m]
    BY <1>4, <1>5, <1>8, <2>1 DEF HangTogether, Present, Members
  <2>2. ASSUME NEW m \in Movements, r.annotation[m] # NoRow \/ r.allocated[m] > 0
        PROVE  Present(r, m)
    BY <1>5, <1>6, <1>7, <1>8, <2>2 DEF Present, Members
  <2> QED
    BY <2>1, <2>2 DEF HangTogether, Classified, Allocated
<1> QED
  BY <1>4, <1>5, <1>6, <1>7, <1>8, <1>9, <1>10 DEF r

\* The rows of movements, of annotations or of allocations, without what they
\* hang from.
LEMMA ColumnRows ==
    ASSUME NEW own \in Owners, NEW n \in Nat, NEW b, Fits(b, own, n),
           NEW S \in SUBSET Movements, NEW table \in {"movement", "annotation", "allocations"}
    PROVE  LET r == RowsOf(b, table, S) IN
           /\ Fits(r, own, n)
           /\ \A m \in Movements :
                /\ r.movement[m] = IF table = "movement" /\ m \in S THEN b.movement[m] ELSE NoRow
                /\ r.annotation[m] = IF table = "annotation" /\ m \in S THEN b.annotation[m] ELSE NoRow
                /\ r.allocated[m] = IF table = "allocations" /\ m \in S THEN b.allocated[m] ELSE 0
<1> DEFINE r == RowsOf(b, table, S)
           movement == Patched(NewBooks.movement, [k \in S |-> b.movement[k]])
           annotation == Patched(NewBooks.annotation, [k \in S |-> b.annotation[k]])
           allocated == Patched(NewBooks.allocated, [k \in S |-> b.allocated[k]])
<1>1. b \in Books /\ NewBooks \in Books
  BY DEF Fits, NewBooks, Books
<1>2. /\ NewBooks.movement = [k \in Movements |-> NoRow]
      /\ NewBooks.annotation = [k \in Movements |-> NoRow]
      /\ NewBooks.allocated = [k \in Movements |-> 0]
      /\ NewBooks.imports = [k \in Imports |-> NoRow]
  BY DEF NewBooks
<1>3. /\ table = "movement" => r = [NewBooks EXCEPT !.movement = movement]
      /\ table = "annotation" => r = [NewBooks EXCEPT !.annotation = annotation]
      /\ table = "allocations" => r = [NewBooks EXCEPT !.allocated = allocated]
  BY DEF RowsOf
<1>5. /\ movement \in [Movements -> Movement \cup {NoRow}]
      /\ \A k \in Movements : movement[k] = IF k \in S THEN b.movement[k] ELSE NoRow
  BY <1>1, <1>2, BookTypes DEF Patched
<1>6. /\ annotation \in [Movements -> Annotation \cup {NoRow}]
      /\ \A k \in Movements : annotation[k] = IF k \in S THEN b.annotation[k] ELSE NoRow
  BY <1>1, <1>2, BookTypes DEF Patched
<1>7. /\ allocated \in [Movements -> Nat]
      /\ \A k \in Movements : allocated[k] = IF k \in S THEN b.allocated[k] ELSE 0
  BY <1>1, <1>2, BookTypes DEF Patched
<1> HIDE DEF r, movement, annotation, allocated
<1>8. /\ r \in Books /\ r.imports = NewBooks.imports
      /\ r.movement = IF table = "movement" THEN movement ELSE NewBooks.movement
      /\ r.annotation = IF table = "annotation" THEN annotation ELSE NewBooks.annotation
      /\ r.allocated = IF table = "allocations" THEN allocated ELSE NewBooks.allocated
  <2>1. CASE table = "movement"
    BY <1>1, <1>3, <1>5, <2>1 DEF Books
  <2>2. CASE table = "annotation"
    BY <1>1, <1>3, <1>6, <2>2 DEF Books
  <2>3. CASE table = "allocations"
    BY <1>1, <1>3, <1>7, <2>3 DEF Books
  <2> QED
    BY <2>1, <2>2, <2>3
<1>9. \A m \in Movements :
        /\ r.movement[m] = IF table = "movement" /\ m \in S THEN b.movement[m] ELSE NoRow
        /\ r.annotation[m] = IF table = "annotation" /\ m \in S THEN b.annotation[m] ELSE NoRow
        /\ r.allocated[m] = IF table = "allocations" /\ m \in S THEN b.allocated[m] ELSE 0
  BY <1>2, <1>5, <1>6, <1>7, <1>8
<1>10. Fits(r, own, n)
  <2>1. \A i \in Imports : r.imports[i] = NoRow
    BY <1>2, <1>8
  <2> QED
    BY <1>8, <1>9, <2>1 DEF Fits, Present
<1> QED
  BY <1>9, <1>10 DEF r

-------------------------------------------------------------------------------
(* What the commands make of the tables                                    *)

\* A copy whose foreign keys hold.
Sound(b, own, n) == Fits(b, own, n) /\ HangTogether(b)

LEMMA WithoutMovementsSound ==
    ASSUME NEW own \in Owners, NEW n \in Nat, NEW b, Sound(b, own, n), NEW S \in SUBSET Movements
    PROVE  LET c == WithoutMovements(b, S) IN
           /\ Sound(c, own, n)
           /\ c.active = b.active /\ c.imports = b.imports
           /\ \A m \in Movements :
                /\ c.movement[m] = IF m \in S THEN NoRow ELSE b.movement[m]
                /\ c.annotation[m] = IF m \in S THEN NoRow ELSE b.annotation[m]
                /\ c.allocated[m] = IF m \in S THEN 0 ELSE b.allocated[m]
<1> DEFINE c == WithoutMovements(b, S)
           movement == [m \in Movements |-> IF m \in S THEN NoRow ELSE b.movement[m]]
           annotation == [m \in Movements |-> IF m \in S THEN NoRow ELSE b.annotation[m]]
           allocated == [m \in Movements |-> IF m \in S THEN 0 ELSE b.allocated[m]]
<1>1. b \in Books /\ Fits(b, own, n) /\ HangTogether(b)
  BY DEF Sound, Fits
<1>2. c = [b EXCEPT !.movement = movement, !.annotation = annotation, !.allocated = allocated]
  BY DEF WithoutMovements
<1>3. /\ movement \in [Movements -> Movement \cup {NoRow}]
      /\ annotation \in [Movements -> Annotation \cup {NoRow}]
      /\ allocated \in [Movements -> Nat]
  BY <1>1, BookTypes
<1>4. /\ c \in Books /\ c.active = b.active /\ c.imports = b.imports
      /\ c.movement = movement /\ c.annotation = annotation /\ c.allocated = allocated
  <2> HIDE DEF c, movement, annotation, allocated
  <2> QED
    BY <1>1, <1>2, <1>3 DEF Books
<1> HIDE DEF c
<1>5. \A m \in Movements :
        /\ c.movement[m] = IF m \in S THEN NoRow ELSE b.movement[m]
        /\ c.annotation[m] = IF m \in S THEN NoRow ELSE b.annotation[m]
        /\ c.allocated[m] = IF m \in S THEN 0 ELSE b.allocated[m]
  BY <1>4
<1>6. Fits(c, own, n)
  BY <1>1, <1>4, <1>5 DEF Fits, Present
<1>7. HangTogether(c)
  BY <1>1, <1>4, <1>5 DEF HangTogether, Present, Classified, Allocated
<1> QED
  BY <1>4, <1>5, <1>6, <1>7 DEF c, Sound

LEMMA ReplaceAccountSound ==
    ASSUME NEW own \in Owners, NEW n \in Nat, NEW b, Sound(b, own, n), NEW a \in Accounts,
           NEW active \in BOOLEAN
    PROVE  LET c == ReplaceAccount(b, a, active) IN
           /\ Sound(c, own, n)
           /\ c.active = [b.active EXCEPT ![a] = active]
           /\ \A i \in Imports : c.imports[i] \in {NoRow, b.imports[i]}
           /\ \A m \in Movements :
                /\ c.movement[m] \in {NoRow, b.movement[m]}
                /\ c.annotation[m] \in {NoRow, b.annotation[m]}
                /\ c.allocated[m] \in {0, b.allocated[m]}
                /\ Present(b, m) /\ c.imports[b.movement[m].import] # NoRow => c.movement[m] = b.movement[m]
<1> DEFINE S == {m \in Movements : AccountOf[m] = a}
           rest == WithoutMovements(b, S)
           c == ReplaceAccount(b, a, active)
           imports == [i \in Imports |-> IF rest.imports[i] = a THEN NoRow ELSE rest.imports[i]]
<1>1. b \in Books /\ a # NoRow
  BY TreasuryAssumption DEF Sound, Fits
<1>2. /\ Sound(rest, own, n) /\ rest.active = b.active /\ rest.imports = b.imports
      /\ \A m \in Movements :
            /\ rest.movement[m] = IF m \in S THEN NoRow ELSE b.movement[m]
            /\ rest.annotation[m] = IF m \in S THEN NoRow ELSE b.annotation[m]
            /\ rest.allocated[m] = IF m \in S THEN 0 ELSE b.allocated[m]
  BY WithoutMovementsSound
<1>3. c = [rest EXCEPT !.active[a] = active, !.imports = imports]
  BY DEF ReplaceAccount
<1>4. rest \in Books /\ Fits(rest, own, n) /\ HangTogether(rest)
  BY <1>2 DEF Sound, Fits
<1> HIDE DEF rest
<1>5. imports \in [Imports -> Accounts \cup {NoRow}]
  BY <1>4, BookTypes
<1>6. /\ c \in Books /\ c.active = [b.active EXCEPT ![a] = active] /\ c.imports = imports
      /\ c.movement = rest.movement /\ c.annotation = rest.annotation
      /\ c.allocated = rest.allocated
  <2> HIDE DEF c, imports, S
  <2> QED
    BY <1>2, <1>3, <1>4, <1>5 DEF Books
<1> HIDE DEF c
<1>7. Fits(c, own, n)
  BY <1>4, <1>6 DEF Fits, Present
<1>8. HangTogether(c)
  <2>1. ASSUME NEW m \in Movements, Present(c, m)
        PROVE  c.imports[c.movement[m].import] = AccountOf[m]
    <3>1. Present(rest, m) /\ AccountOf[m] # a /\ rest.movement[m] \in Movement
      BY <1>2, <1>4, <1>6, <2>1, BookTypes DEF Present
    <3>2. rest.imports[rest.movement[m].import] = AccountOf[m] /\ rest.movement[m].import \in Imports
      BY <1>4, <3>1 DEF HangTogether, Movement
    <3> QED
      BY <1>6, <3>1, <3>2
  <2> QED
    BY <1>4, <1>6, <2>1 DEF HangTogether, Present, Classified, Allocated
<1>9. \A i \in Imports : c.imports[i] \in {NoRow, b.imports[i]}
  BY <1>2, <1>6
<1>10. \A m \in Movements :
        /\ c.movement[m] \in {NoRow, b.movement[m]}
        /\ c.annotation[m] \in {NoRow, b.annotation[m]}
        /\ c.allocated[m] \in {0, b.allocated[m]}
  BY <1>2, <1>6
<1>11. ASSUME NEW m \in Movements, Present(b, m), c.imports[b.movement[m].import] # NoRow
       PROVE  c.movement[m] = b.movement[m]
  <2>1. b.movement[m].import \in Imports /\ b.imports[b.movement[m].import] = AccountOf[m]
    BY <1>1, <1>11, BookTypes DEF Present, Movement, Sound, HangTogether
  <2>2. AccountOf[m] # a
    BY <1>2, <1>6, <1>11, <2>1
  <2> QED
    BY <1>2, <1>6, <2>2
<1> QED
  BY <1>6, <1>7, <1>8, <1>9, <1>10, <1>11 DEF c, Sound

\* A movement row whose import is there, in place of what was there.
LEMMA PutMovementSound ==
    ASSUME NEW own \in Owners, NEW n \in Nat, NEW b, Sound(b, own, n), NEW m \in Movements,
           NEW row \in Movement, b.imports[row.import] # NoRow,
           own[row.import] = AccountOf[m], row.import <= n
    PROVE  LET c == [b EXCEPT !.movement[m] = row] IN
           /\ Sound(c, own, n)
           /\ c.active = b.active /\ c.imports = b.imports /\ c.annotation = b.annotation
           /\ c.allocated = b.allocated /\ c.movement = [b.movement EXCEPT ![m] = row]
<1> DEFINE c == [b EXCEPT !.movement[m] = row]
<1>1. b \in Books /\ Fits(b, own, n) /\ HangTogether(b)
  BY DEF Sound, Fits
<1>2. b.movement \in [Movements -> Movement \cup {NoRow}]
  BY <1>1, BookTypes
<1>3. /\ c \in Books /\ c.active = b.active /\ c.imports = b.imports
      /\ c.movement = [b.movement EXCEPT ![m] = row]
      /\ c.annotation = b.annotation /\ c.allocated = b.allocated
  BY <1>1, <1>2 DEF Books
<1> HIDE DEF c
<1>4. \A k \in Movements : c.movement[k] = IF k = m THEN row ELSE b.movement[k]
  BY <1>2, <1>3
<1>5. Fits(c, own, n)
  BY <1>1, <1>3, <1>4 DEF Fits, Present
<1>6. b.imports[row.import] = AccountOf[m] /\ row # NoRow
  BY <1>1, RowsAssumption DEF Fits, Movement
<1>7. HangTogether(c)
  BY <1>1, <1>3, <1>4, <1>6 DEF HangTogether, Present, Classified, Allocated
<1> QED
  BY <1>3, <1>5, <1>7 DEF c, Sound

LEMMA ReplaceMovementSound ==
    ASSUME NEW own \in Owners, NEW n \in Nat, NEW b, Sound(b, own, n), NEW m \in Movements,
           NEW row \in Movement, b.imports[row.import] # NoRow,
           own[row.import] = AccountOf[m], row.import <= n
    PROVE  LET c == ReplaceMovement(b, m, row) IN
           /\ Sound(c, own, n)
           /\ c.active = b.active /\ c.imports = b.imports
           /\ \A k \in Movements :
                /\ c.movement[k] = IF k = m THEN row ELSE b.movement[k]
                /\ c.annotation[k] = IF k = m THEN NoRow ELSE b.annotation[k]
                /\ c.allocated[k] = IF k = m THEN 0 ELSE b.allocated[k]
<1> DEFINE rest == WithoutMovements(b, {m})
<1>1. /\ Sound(rest, own, n) /\ rest.active = b.active /\ rest.imports = b.imports
      /\ \A k \in Movements :
            /\ rest.movement[k] = IF k = m THEN NoRow ELSE b.movement[k]
            /\ rest.annotation[k] = IF k = m THEN NoRow ELSE b.annotation[k]
            /\ rest.allocated[k] = IF k = m THEN 0 ELSE b.allocated[k]
  BY WithoutMovementsSound
<1>2. ReplaceMovement(b, m, row) = [rest EXCEPT !.movement[m] = row]
  BY DEF ReplaceMovement
<1>3. rest.movement \in [Movements -> Movement \cup {NoRow}]
  BY <1>1, BookTypes DEF Sound, Fits
<1> HIDE DEF rest
<1> QED
  BY <1>1, <1>2, <1>3, PutMovementSound

\* The tables b with the annotations of S replaced.
HasAnnotations(c, b, S, rows) ==
    /\ c.active = b.active /\ c.imports = b.imports /\ c.movement = b.movement
    /\ c.allocated = b.allocated
    /\ \A m \in Movements : c.annotation[m] = IF m \in S THEN rows[m] ELSE b.annotation[m]

LEMMA AnnotationsSound ==
    ASSUME NEW own \in Owners, NEW n \in Nat, NEW b, Sound(b, own, n), NEW S \in SUBSET Movements,
           \A m \in S : Present(b, m), NEW rows \in [S -> Annotation]
    PROVE  Sound(ReplaceAnnotations(b, rows), own, n)
           /\ HasAnnotations(ReplaceAnnotations(b, rows), b, S, rows)
<1> DEFINE c == ReplaceAnnotations(b, rows)
<1>1. b \in Books /\ Fits(b, own, n) /\ HangTogether(b)
  BY DEF Sound, Fits
<1>2. /\ Patched(b.annotation, rows) \in [Movements -> Annotation \cup {NoRow}]
      /\ \A m \in Movements : Patched(b.annotation, rows)[m] = IF m \in S THEN rows[m] ELSE b.annotation[m]
  BY <1>1, BookTypes DEF Patched
<1>3. /\ c \in Books /\ c.active = b.active /\ c.imports = b.imports /\ c.movement = b.movement
      /\ c.annotation = Patched(b.annotation, rows) /\ c.allocated = b.allocated
  BY <1>1, <1>2 DEF Books, ReplaceAnnotations
<1> HIDE DEF c
<1>4. Fits(c, own, n)
  BY <1>1, <1>3 DEF Fits, Present
<1>5. HangTogether(c)
  BY <1>1, <1>2, <1>3 DEF HangTogether, Present, Classified, Allocated
<1> QED
  BY <1>2, <1>3, <1>4, <1>5 DEF c, Sound, HasAnnotations

LEMMA AllocatedSound ==
    ASSUME NEW own \in Owners, NEW n \in Nat, NEW b, Sound(b, own, n), NEW m \in Movements,
           NEW total \in Nat, total > 0 => Present(b, m)
    PROVE  LET c == [b EXCEPT !.allocated[m] = total] IN
           /\ Sound(c, own, n)
           /\ c.active = b.active /\ c.imports = b.imports /\ c.movement = b.movement
           /\ c.annotation = b.annotation /\ c.allocated = [b.allocated EXCEPT ![m] = total]
<1> DEFINE c == [b EXCEPT !.allocated[m] = total]
<1>1. b \in Books /\ Fits(b, own, n) /\ HangTogether(b)
  BY DEF Sound, Fits
<1>2. b.allocated \in [Movements -> Nat]
  BY <1>1, BookTypes
<1>3. /\ c \in Books /\ c.active = b.active /\ c.imports = b.imports /\ c.movement = b.movement
      /\ c.annotation = b.annotation /\ c.allocated = [b.allocated EXCEPT ![m] = total]
  BY <1>1, <1>2 DEF Books
<1> HIDE DEF c
<1>4. Fits(c, own, n)
  BY <1>1, <1>3 DEF Fits, Present
<1>5. HangTogether(c)
  BY <1>1, <1>2, <1>3 DEF HangTogether, Present, Classified, Allocated
<1> QED
  BY <1>3, <1>4, <1>5 DEF c, Sound

\* The tables b but for an import with its movements and what hangs from them.
LacksImport(c, b, i) ==
    /\ c.active = b.active
    /\ \A k \in Imports : c.imports[k] = IF k = i THEN NoRow ELSE b.imports[k]
    /\ \A m \in Movements :
        /\ c.movement[m] = IF m \in Members(b, i) THEN NoRow ELSE b.movement[m]
        /\ c.annotation[m] = IF m \in Members(b, i) THEN NoRow ELSE b.annotation[m]
        /\ c.allocated[m] = IF m \in Members(b, i) THEN 0 ELSE b.allocated[m]

LEMMA WithoutImportSound ==
    ASSUME NEW own \in Owners, NEW n \in Nat, NEW b, Sound(b, own, n), NEW i \in Imports
    PROVE  Sound(WithoutImport(b, i), own, n) /\ LacksImport(WithoutImport(b, i), b, i)
<1> DEFINE c == WithoutImport(b, i)
           S == Members(b, i)
           rest == WithoutMovements(b, S)
<1>1. b \in Books /\ S \in SUBSET Movements
  BY DEF Sound, Fits, Members
<1>2. /\ Sound(rest, own, n) /\ rest.active = b.active /\ rest.imports = b.imports
      /\ \A m \in Movements :
            /\ rest.movement[m] = IF m \in S THEN NoRow ELSE b.movement[m]
            /\ rest.annotation[m] = IF m \in S THEN NoRow ELSE b.annotation[m]
            /\ rest.allocated[m] = IF m \in S THEN 0 ELSE b.allocated[m]
  BY <1>1, WithoutMovementsSound
<1>3. c = [rest EXCEPT !.imports[i] = NoRow]
  BY DEF WithoutImport
<1>4. rest \in Books /\ Fits(rest, own, n) /\ HangTogether(rest)
  BY <1>2 DEF Sound, Fits
<1>5. rest.imports \in [Imports -> Accounts \cup {NoRow}]
  BY <1>4, BookTypes
<1> HIDE DEF rest
<1>6. /\ c \in Books /\ c.active = b.active /\ c.imports = [b.imports EXCEPT ![i] = NoRow]
      /\ c.movement = rest.movement /\ c.annotation = rest.annotation
      /\ c.allocated = rest.allocated
  BY <1>2, <1>3, <1>4, <1>5 DEF Books
<1> HIDE DEF c
<1>7. Fits(c, own, n)
  BY <1>2, <1>4, <1>5, <1>6 DEF Fits, Present
<1>8. HangTogether(c)
  <2>1. ASSUME NEW m \in Movements, Present(c, m)
        PROVE  c.imports[c.movement[m].import] = AccountOf[m]
    <3>1. Present(rest, m) /\ m \notin S /\ Present(b, m) /\ rest.movement[m] = b.movement[m]
      BY <1>2, <1>6, <2>1 DEF Present
    <3>2. rest.imports[rest.movement[m].import] = AccountOf[m] /\ b.movement[m].import # i
      BY <1>4, <3>1 DEF HangTogether, Members
    <3> QED
      BY <1>2, <1>5, <1>6, <3>1, <3>2
  <2> QED
    BY <1>4, <1>6, <2>1 DEF HangTogether, Present, Classified, Allocated
<1> QED
  BY <1>2, <1>5, <1>6, <1>7, <1>8 DEF c, Sound, LacksImport

\* A copy keeps its owners when the next import gets one.
LEMMA OwnersGrow ==
    ASSUME NEW own \in Owners, NEW n \in Nat, NEW b, Fits(b, own, n), NEW next \in Owners,
           \A i \in Imports : i <= n => next[i] = own[i]
    PROVE  Fits(b, next, n + 1)
<1>1. b \in Books
  BY DEF Fits
<1>2. \A i \in Imports : b.imports[i] \in {NoRow, next[i]} /\ (i > n + 1 => b.imports[i] = NoRow)
  BY TreasuryAssumption DEF Fits, Imports
<1>3. ASSUME NEW m \in Movements, Present(b, m)
      PROVE  next[b.movement[m].import] = AccountOf[m] /\ b.movement[m].import <= n + 1
  <2>1. b.movement[m] \in Movement
    BY <1>1, <1>3, BookTypes DEF Present
  <2>2. b.movement[m].import \in Imports /\ b.movement[m].import \in Nat
    BY <2>1, TreasuryAssumption DEF Movement, Imports
  <2> QED
    BY <1>3, <2>2 DEF Fits
<1> QED
  BY <1>1, <1>2, <1>3 DEF Fits

\* The tables after a statement has been imported.
WithStatement(b, a, i, new, auto) ==
    [b EXCEPT !.imports[i] = a,
              !.movement = Patched(@, [m \in new |-> [import |-> i, amount |-> AmountOf[m]]]),
              !.annotation = Patched(@, [m \in auto |-> [Blank EXCEPT !.kind = "auto"]])]

Line(i, m) == [import |-> i, amount |-> AmountOf[m]]
ByRule == [Blank EXCEPT !.kind = "auto"]

\* What a statement has added to the tables b.
HasStatement(c, b, a, i, new, auto) ==
    /\ c.active = b.active
    /\ \A k \in Imports : c.imports[k] = IF k = i THEN a ELSE b.imports[k]
    /\ c.allocated = b.allocated
    /\ \A m \in new : c.movement[m].import = i
    /\ \A m \in Movements :
        /\ c.movement[m] = IF m \in new THEN Line(i, m) ELSE b.movement[m]
        /\ c.annotation[m] = IF m \in auto THEN ByRule ELSE b.annotation[m]

LEMMA ImportSound ==
    ASSUME NEW own \in Owners, NEW n \in Nat, NEW i \in Imports, i = n + 1, NEW b,
           Sound(b, own, n), NEW a \in Accounts, NEW next \in Owners,
           \A k \in Imports : next[k] = IF k = i THEN a ELSE own[k],
           NEW new \in SUBSET Movements, \A m \in new : ~Present(b, m) /\ AccountOf[m] = a,
           NEW auto \in SUBSET new
    PROVE  HasStatement(WithStatement(b, a, i, new, auto), b, a, i, new, auto) /\
           Sound(WithStatement(b, a, i, new, auto), next, i)
<1> DEFINE c == WithStatement(b, a, i, new, auto)
           lines == [m \in new |-> Line(i, m)]
           kinds == [m \in auto |-> ByRule]
<1>1. b \in Books /\ Fits(b, own, n) /\ HangTogether(b)
  BY DEF Sound, Fits
<1>2. /\ next \in Owners /\ next[i] = a
      /\ \A k \in Imports : k <= n => next[k] = own[k]
  BY DEF Owners
<1>3. Fits(b, next, i)
  BY <1>1, <1>2, OwnersGrow
<1>4. /\ \A m \in new : Line(i, m) \in Movement
      /\ ByRule \in Annotation
  BY TreasuryAssumption DEF Movement, Annotation, Blank, Kinds, Unset, Fiscal, Line, ByRule
<1>5. /\ Patched(b.movement, lines) \in [Movements -> Movement \cup {NoRow}]
      /\ \A m \in Movements : Patched(b.movement, lines)[m] =
            IF m \in new THEN Line(i, m) ELSE b.movement[m]
  <2>1. b.movement \in [Movements -> Movement \cup {NoRow}]
    BY <1>1, BookTypes
  <2>2. lines \in [new -> Movement \cup {NoRow}]
    BY <1>4
  <2>3. \A m \in new : lines[m] = Line(i, m)
    OBVIOUS
  <2> HIDE DEF lines
  <2> QED
    BY <2>1, <2>2, <2>3 DEF Patched
<1>6. /\ Patched(b.annotation, kinds) \in [Movements -> Annotation \cup {NoRow}]
      /\ \A m \in Movements : Patched(b.annotation, kinds)[m] =
            IF m \in auto THEN ByRule ELSE b.annotation[m]
  <2>1. b.annotation \in [Movements -> Annotation \cup {NoRow}]
    BY <1>1, BookTypes
  <2>2. kinds \in [auto -> Annotation \cup {NoRow}]
    BY <1>4
  <2>3. \A m \in auto : kinds[m] = ByRule
    OBVIOUS
  <2> HIDE DEF kinds
  <2> QED
    BY <2>1, <2>2, <2>3 DEF Patched
<1>7. b.imports \in [Imports -> Accounts \cup {NoRow}]
  BY <1>1, BookTypes
<1>8. c = [b EXCEPT !.imports[i] = a, !.movement = Patched(b.movement, lines),
                    !.annotation = Patched(b.annotation, kinds)]
  BY <1>1 DEF WithStatement, Books, Line, ByRule
<1>9. /\ c \in Books /\ c.active = b.active /\ c.imports = [b.imports EXCEPT ![i] = a]
      /\ c.movement = Patched(b.movement, lines) /\ c.annotation = Patched(b.annotation, kinds)
      /\ c.allocated = b.allocated
  <2> HIDE DEF c, lines, kinds
  <2> QED
    BY <1>1, <1>5, <1>6, <1>7, <1>8 DEF Books
<1> HIDE DEF c, lines, kinds
<1>10. \A m \in Movements :
        c.movement[m] = IF m \in new THEN Line(i, m) ELSE b.movement[m]
  BY <1>5, <1>9
<1>11. \A m \in new : c.movement[m].import = i
  <2> SUFFICES ASSUME NEW m \in new PROVE c.movement[m].import = i
    OBVIOUS
  <2>1. c.movement[m] = Line(i, m)
    BY <1>10
  <2>2. Line(i, m).import = i
    BY DEF Line
  <2> QED
    BY <2>1, <2>2
<1>12. Fits(c, next, i)
  <2>1. \A k \in Imports : c.imports[k] \in {NoRow, next[k]} /\ (k > i => c.imports[k] = NoRow)
    BY <1>2, <1>3, <1>7, <1>9 DEF Fits
  <2>2. ASSUME NEW m \in Movements, Present(c, m)
        PROVE  next[c.movement[m].import] = AccountOf[m] /\ c.movement[m].import <= i
    <3>1. CASE m \in new
      BY <1>2, <1>11, <3>1
    <3>2. CASE m \notin new
      BY <1>3, <1>10, <2>2, <3>2 DEF Fits, Present
    <3> QED
      BY <3>1, <3>2
  <2> QED
    BY <1>9, <2>1, <2>2 DEF Fits
<1>13. HangTogether(c)
  <2>1. ASSUME NEW m \in Movements, Present(c, m)
        PROVE  c.imports[c.movement[m].import] = AccountOf[m]
    <3>1. CASE m \in new
      BY <1>7, <1>9, <1>11, <3>1
    <3>2. CASE m \notin new
      <4>1. Present(b, m) /\ c.movement[m] = b.movement[m] /\ b.movement[m] \in Movement
        BY <1>1, <1>5, <1>9, <2>1, <3>2, BookTypes DEF Present
      <4>2. b.movement[m].import <= n /\ b.movement[m].import \in Imports
            /\ b.imports[b.movement[m].import] = AccountOf[m]
        BY <1>1, <4>1 DEF Fits, HangTogether, Movement
      <4> QED
        BY <1>7, <1>9, <4>1, <4>2
    <3> QED
      BY <3>1, <3>2
  <2>2. ASSUME NEW m \in Movements, c.annotation[m] # NoRow \/ c.allocated[m] > 0
        PROVE  Present(c, m)
    <3>1. Line(i, m) # NoRow \/ m \notin new
      BY <1>4, RowsAssumption
    <3> QED
      BY <1>1, <1>5, <1>6, <1>9, <2>2, <3>1 DEF HangTogether, Present, Classified, Allocated
  <2> QED
    BY <2>1, <2>2 DEF HangTogether, Classified, Allocated
<1> QED
  BY <1>2, <1>6, <1>9, <1>10, <1>11, <1>12, <1>13, <1>7 DEF c, Sound, HasStatement

\* The tables after the deletion of an import has been taken back.
Restored(b, before, i) ==
    LET members == Members(before, i)
        Of(column) == [m \in members |-> column[m]]
    IN [b EXCEPT !.imports[i] = before.imports[i],
                 !.movement = Patched(@, Of(before.movement)),
                 !.annotation = Patched(@, Of(before.annotation)),
                 !.allocated = Patched(@, Of(before.allocated))]

\* The tables b with an import, its movements and what hung from them as before.
HasRestored(c, b, before, i) ==
    /\ c.active = b.active
    /\ \A k \in Imports : c.imports[k] = IF k = i THEN before.imports[i] ELSE b.imports[k]
    /\ \A m \in Movements :
        LET from == IF m \in Members(before, i) THEN before ELSE b IN
        /\ c.movement[m] = from.movement[m]
        /\ c.annotation[m] = from.annotation[m]
        /\ c.allocated[m] = from.allocated[m]

LEMMA RestoredSound ==
    ASSUME NEW own \in Owners, NEW n \in Nat, NEW b, Sound(b, own, n), NEW before,
           Sound(before, own, n), NEW i \in Imports, before.imports[i] # NoRow
    PROVE  Sound(Restored(b, before, i), own, n) /\ HasRestored(Restored(b, before, i), b, before, i)
<1> DEFINE c == Restored(b, before, i)
           S == Members(before, i)
           movement == Patched(b.movement, [m \in S |-> before.movement[m]])
           annotation == Patched(b.annotation, [m \in S |-> before.annotation[m]])
           allocated == Patched(b.allocated, [m \in S |-> before.allocated[m]])
<1>1. /\ b \in Books /\ Fits(b, own, n) /\ HangTogether(b) /\ S \in SUBSET Movements
      /\ before \in Books /\ Fits(before, own, n) /\ HangTogether(before)
  BY DEF Sound, Fits, Members
<1>2. c = [b EXCEPT !.imports[i] = before.imports[i], !.movement = movement,
                    !.annotation = annotation, !.allocated = allocated]
  BY <1>1 DEF Restored, Books
<1>3. /\ movement \in [Movements -> Movement \cup {NoRow}]
      /\ \A m \in Movements : movement[m] = IF m \in S THEN before.movement[m] ELSE b.movement[m]
  BY <1>1, BookTypes DEF Patched
<1>4. /\ annotation \in [Movements -> Annotation \cup {NoRow}]
      /\ \A m \in Movements :
            annotation[m] = IF m \in S THEN before.annotation[m] ELSE b.annotation[m]
  BY <1>1, BookTypes DEF Patched
<1>5. /\ allocated \in [Movements -> Nat]
      /\ \A m \in Movements :
            allocated[m] = IF m \in S THEN before.allocated[m] ELSE b.allocated[m]
  BY <1>1, BookTypes DEF Patched
<1>6. /\ b.imports \in [Imports -> Accounts \cup {NoRow}]
      /\ before.imports \in [Imports -> Accounts \cup {NoRow}]
  BY <1>1, BookTypes
<1>7. /\ c \in Books /\ c.active = b.active
      /\ c.imports = [b.imports EXCEPT ![i] = before.imports[i]]
      /\ c.movement = movement /\ c.annotation = annotation /\ c.allocated = allocated
  <2> HIDE DEF c, movement, annotation, allocated
  <2> QED
    BY <1>1, <1>2, <1>3, <1>4, <1>5, <1>6 DEF Books
<1> HIDE DEF c, movement, annotation, allocated
<1>8. before.imports[i] = own[i]
  BY <1>1 DEF Fits
<1>9. Fits(c, own, n)
  <2>1. \A k \in Imports : c.imports[k] \in {NoRow, own[k]} /\ (k > n => c.imports[k] = NoRow)
    BY <1>1, <1>6, <1>7 DEF Fits
  <2>2. \A m \in Movements : Present(c, m) =>
            own[c.movement[m].import] = AccountOf[m] /\ c.movement[m].import <= n
    BY <1>1, <1>3, <1>7 DEF Fits, Present
  <2> QED
    BY <1>7, <2>1, <2>2 DEF Fits
<1>10. HangTogether(c)
  <2>1. ASSUME NEW m \in Movements, Present(c, m)
        PROVE  c.imports[c.movement[m].import] = AccountOf[m]
    <3>1. CASE m \in S
      <4>1. c.movement[m].import = i /\ Present(before, m)
        BY <1>3, <1>7, <3>1 DEF Members
      <4> QED
        BY <1>1, <1>3, <1>6, <1>7, <1>8, <3>1, <4>1 DEF Fits
    <3>2. CASE m \notin S
      <4>1. Present(b, m) /\ c.movement[m] = b.movement[m] /\ b.movement[m] \in Movement
        BY <1>1, <1>3, <1>7, <2>1, <3>2, BookTypes DEF Present
      <4>2. own[b.movement[m].import] = AccountOf[m] /\ b.movement[m].import \in Imports
            /\ b.imports[b.movement[m].import] = AccountOf[m]
        BY <1>1, <4>1 DEF Fits, HangTogether, Movement
      <4> QED
        BY <1>6, <1>7, <1>8, <4>1, <4>2
    <3> QED
      BY <3>1, <3>2
  <2>2. ASSUME NEW m \in Movements, c.annotation[m] # NoRow \/ c.allocated[m] > 0
        PROVE  Present(c, m)
    BY <1>1, <1>3, <1>4, <1>5, <1>7, <2>2 DEF HangTogether, Present, Classified, Allocated, Members
  <2> QED
    BY <2>1, <2>2 DEF HangTogether, Classified, Allocated
<1> QED
  BY <1>3, <1>4, <1>5, <1>6, <1>7, <1>9, <1>10 DEF c, Sound, HasRestored

-------------------------------------------------------------------------------
(* What Postgres holds after a push                                        *)

Keyed == ({"account"} \X Accounts) \cup ({"import", "import_delete"} \X Imports)
         \cup ({"movement", "annotation", "allocations"} \X Movements)

LEMMA KeyedParts ==
    ASSUME NEW k \in Keyed
    PROVE  /\ k = <<k[1], k[2]>>
           /\ \/ k[1] = "account" /\ k[2] \in Accounts
              \/ k[1] \in {"import", "import_delete"} /\ k[2] \in Imports
              \/ k[1] \in {"movement", "annotation", "allocations"} /\ k[2] \in Movements
           /\ k \in Keys /\ k # <<>>
BY DEF Keyed, Keys, Tables

\* The rows being sent.
InHand(own, n) ==
    /\ sending.key \in Keyed
    /\ Fits(sending.rows, own, n)
    /\ sending.key[1] = "import" => HangTogether(sending.rows)

\* The push writes the movement row it has read for m.
Writes(m) ==
    \/ sending.key = <<"movement", m>> /\ Present(sending.rows, m)
    \/ /\ sending.key # <<>> /\ sending.key[1] = "import" /\ sending.rows.imports[sending.key[2]] # NoRow
       /\ m \in Members(sending.rows, sending.key[2])

Erases(m) == sending.key[1] = "import_delete" /\ m \in Members(cloud, sending.key[2])

Becomes(c) ==
    /\ c.active = IF sending.key[1] = "account"
                  THEN [cloud.active EXCEPT ![sending.key[2]] = sending.rows.active[sending.key[2]]]
                  ELSE cloud.active
    /\ \A m \in Movements :
        /\ c.movement[m] = IF Writes(m) THEN sending.rows.movement[m]
                           ELSE IF Erases(m) THEN NoRow ELSE cloud.movement[m]
        /\ c.annotation[m] = IF sending.key = <<"annotation", m>> /\ m \in Classified(sending.rows)
                             THEN sending.rows.annotation[m]
                             ELSE IF Erases(m) THEN NoRow ELSE cloud.annotation[m]
        /\ c.allocated[m] = IF sending.key = <<"allocations", m>> THEN sending.rows.allocated[m]
                            ELSE IF Erases(m) THEN 0 ELSE cloud.allocated[m]

LEMMA AccountStored ==
    ASSUME NEW own \in Owners, NEW n \in Nat, Sound(cloud, own, n), InHand(own, n),
           sending.key[1] = "account"
    PROVE  Sound(Stored, own, n) /\ Becomes(Stored)
<1> DEFINE c == Stored
           x == sending.key[2]
<1>1. cloud \in Books /\ sending.rows \in Books /\ x \in Accounts
      /\ sending.key = <<"account", x>> /\ Fits(cloud, own, n) /\ HangTogether(cloud)
  BY KeyedParts DEF Sound, Fits, InHand
<1>2. c = [cloud EXCEPT !.active[x] = sending.rows.active[x]]
  BY DEF Stored
<1>3. cloud.active \in [Accounts -> BOOLEAN] /\ sending.rows.active[x] \in BOOLEAN
  BY <1>1, BookTypes
<1> HIDE DEF c
<1>4. /\ c \in Books /\ c.active = [cloud.active EXCEPT ![x] = sending.rows.active[x]]
      /\ c.imports = cloud.imports /\ c.movement = cloud.movement
      /\ c.annotation = cloud.annotation /\ c.allocated = cloud.allocated
  BY <1>1, <1>2, <1>3 DEF Books
<1>5. Sound(c, own, n)
  BY <1>1, <1>4 DEF Sound, Fits, HangTogether, Present, Classified, Allocated
<1>6. Becomes(c)
  BY <1>1, <1>4 DEF Becomes, Writes, Erases
<1> QED
  BY <1>5, <1>6 DEF c

LEMMA ImportStored ==
    ASSUME NEW own \in Owners, NEW n \in Nat, Sound(cloud, own, n), InHand(own, n),
           sending.key[1] = "import"
    PROVE  Sound(Stored, own, n) /\ Becomes(Stored)
<1> DEFINE c == Stored
           x == sending.key[2]
           b == sending.rows
           S == Members(b, x)
           movement == Patched(cloud.movement, [m \in S |-> b.movement[m]])
<1>1. /\ cloud \in Books /\ b \in Books /\ x \in Imports /\ sending.key = <<"import", x>>
      /\ Fits(cloud, own, n) /\ HangTogether(cloud) /\ Fits(b, own, n) /\ HangTogether(b)
      /\ S \in SUBSET Movements
  BY KeyedParts DEF Sound, Fits, InHand, Members
<1>2. CASE b.imports[x] = NoRow
  <2>1. c = cloud
    BY <1>1, <1>2 DEF Stored
  <2>2. Becomes(cloud)
    BY <1>1, <1>2 DEF Becomes, Writes, Erases
  <2> QED
    BY <2>1, <2>2
<1>3. CASE b.imports[x] # NoRow
  <2>1. c = [cloud EXCEPT !.imports[x] = b.imports[x], !.movement = movement]
    BY <1>1, <1>3 DEF Stored, Books
  <2>2. /\ movement \in [Movements -> Movement \cup {NoRow}]
        /\ \A m \in Movements : movement[m] = IF m \in S THEN b.movement[m] ELSE cloud.movement[m]
    BY <1>1, BookTypes DEF Patched
  <2>3. /\ cloud.imports \in [Imports -> Accounts \cup {NoRow}]
        /\ b.imports[x] = own[x] /\ b.imports[x] \in Accounts \cup {NoRow}
    BY <1>1, <1>3, BookTypes DEF Fits
  <2>4. /\ c \in Books /\ c.active = cloud.active
        /\ c.imports = [cloud.imports EXCEPT ![x] = b.imports[x]]
        /\ c.movement = movement /\ c.annotation = cloud.annotation /\ c.allocated = cloud.allocated
    <3> HIDE DEF c, movement
    <3> QED
      BY <1>1, <2>1, <2>2, <2>3 DEF Books
  <2> HIDE DEF c, movement
  <2>5. Fits(c, own, n)
    <3>1. \A k \in Imports : c.imports[k] \in {NoRow, own[k]} /\ (k > n => c.imports[k] = NoRow)
      BY <1>1, <2>3, <2>4 DEF Fits
    <3>2. \A m \in Movements : Present(c, m) =>
              own[c.movement[m].import] = AccountOf[m] /\ c.movement[m].import <= n
      BY <1>1, <2>2, <2>4 DEF Fits, Present
    <3> QED
      BY <2>4, <3>1, <3>2 DEF Fits
  <2>6. HangTogether(c)
    <3>1. ASSUME NEW m \in Movements, Present(c, m)
          PROVE  c.imports[c.movement[m].import] = AccountOf[m]
      <4>1. CASE m \in S
        <5>1. c.movement[m].import = x /\ Present(b, m) /\ c.movement[m] = b.movement[m]
          BY <2>2, <2>4, <4>1 DEF Members
        <5> QED
          BY <1>1, <2>3, <2>4, <5>1 DEF Fits
      <4>2. CASE m \notin S
        <5>1. Present(cloud, m) /\ c.movement[m] = cloud.movement[m] /\ cloud.movement[m] \in Movement
          BY <1>1, <2>2, <2>4, <3>1, <4>2, BookTypes DEF Present
        <5>2. own[cloud.movement[m].import] = AccountOf[m] /\ cloud.movement[m].import \in Imports
              /\ cloud.imports[cloud.movement[m].import] = AccountOf[m]
          BY <1>1, <5>1 DEF Fits, HangTogether, Movement
        <5> QED
          BY <2>3, <2>4, <5>1, <5>2
      <4> QED
        BY <4>1, <4>2
    <3>2. ASSUME NEW m \in Movements, c.annotation[m] # NoRow \/ c.allocated[m] > 0
          PROVE  Present(c, m)
      BY <1>1, <2>2, <2>4, <3>2 DEF HangTogether, Present, Classified, Allocated, Members
    <3> QED
      BY <3>1, <3>2 DEF HangTogether, Classified, Allocated
  <2>7. Becomes(c)
    BY <1>1, <1>3, <2>2, <2>4 DEF Becomes, Writes, Erases
  <2> QED
    BY <2>5, <2>6, <2>7 DEF c, Sound
<1> QED
  BY <1>2, <1>3

LEMMA OneRowStored ==
    ASSUME NEW own \in Owners, NEW n \in Nat, Sound(cloud, own, n), InHand(own, n), ~Refused,
           sending.key[1] \in {"movement", "annotation", "allocations"}
    PROVE  Sound(Stored, own, n) /\ Becomes(Stored)
<1> DEFINE x == sending.key[2]
           b == sending.rows
<1>1. /\ cloud \in Books /\ b \in Books /\ x \in Movements /\ sending.key = <<sending.key[1], x>>
      /\ Fits(b, own, n) /\ Fits(cloud, own, n) /\ HangTogether(cloud)
  BY KeyedParts DEF Sound, Fits, InHand
<1>2. \A m \in Movements : ~Erases(m)
  BY DEF Erases
<1>3. CASE sending.key[1] = "movement"
  <2>1. CASE ~Present(b, x)
    <3>1. Stored = cloud
      BY <1>3, <2>1 DEF Stored
    <3>2. Becomes(cloud)
      BY <1>1, <1>2, <1>3, <2>1 DEF Becomes, Writes
    <3> QED
      BY <3>1, <3>2
  <2>2. CASE Present(b, x)
    <3>1. Stored = [cloud EXCEPT !.movement[x] = b.movement[x]]
      BY <1>3, <2>2 DEF Stored
    <3>2. b.movement[x] \in Movement /\ cloud.imports[b.movement[x].import] # NoRow
          /\ own[b.movement[x].import] = AccountOf[x] /\ b.movement[x].import <= n
      <4>1. b.movement \in [Movements -> Movement \cup {NoRow}]
        BY <1>1, BookTypes
      <4>2. b.movement[x] \in Movement
        BY <1>1, <2>2, <4>1 DEF Present
      <4>3. cloud.imports[b.movement[x].import] # NoRow
        BY <1>3, <2>2 DEF Refused
      <4>4. own[b.movement[x].import] = AccountOf[x] /\ b.movement[x].import <= n
        BY <1>1, <2>2 DEF Fits
      <4> QED
        BY <4>2, <4>3, <4>4
    <3> HIDE DEF b, x
    <3>3. /\ Sound(Stored, own, n) /\ Stored.active = cloud.active
          /\ Stored.annotation = cloud.annotation /\ Stored.allocated = cloud.allocated
          /\ Stored.movement = [cloud.movement EXCEPT ![x] = b.movement[x]]
      BY <1>1, <3>1, <3>2, PutMovementSound
    <3>4. \A m \in Movements : Writes(m) <=> m = x
      BY <1>1, <1>3, <2>2 DEF Writes, b, x
    <3>5. Becomes(Stored)
      BY <1>1, <1>2, <1>3, <3>3, <3>4, BookTypes DEF Becomes, b
    <3> QED
      BY <3>3, <3>5
  <2> QED
    BY <2>1, <2>2
<1>4. CASE sending.key[1] = "annotation"
  <2>1. \A m \in Movements : ~Writes(m)
    BY <1>1, <1>4 DEF Writes
  <2>2. CASE x \notin Classified(b)
    <3>1. Stored = cloud
      BY <1>4, <2>2 DEF Stored
    <3>2. Becomes(cloud)
      BY <1>1, <1>2, <1>4, <2>1, <2>2 DEF Becomes
    <3> QED
      BY <3>1, <3>2
  <2>3. CASE x \in Classified(b)
    <3>1. Stored = [cloud EXCEPT !.annotation[x] = b.annotation[x]]
      BY <1>4, <2>3 DEF Stored
    <3>2. b.annotation[x] \in Annotation /\ Present(cloud, x)
      BY <1>1, <1>4, <2>3, BookTypes DEF Refused, Classified
    <3>3. cloud.annotation \in [Movements -> Annotation \cup {NoRow}]
      BY <1>1, BookTypes
    <3> HIDE DEF b, x
    <3>4. /\ Stored \in Books /\ Stored.active = cloud.active /\ Stored.imports = cloud.imports
          /\ Stored.movement = cloud.movement /\ Stored.allocated = cloud.allocated
          /\ Stored.annotation = [cloud.annotation EXCEPT ![x] = b.annotation[x]]
      BY <1>1, <3>1, <3>2, <3>3 DEF Books
    <3>5. Sound(Stored, own, n)
      BY <1>1, <3>2, <3>3, <3>4 DEF Sound, Fits, HangTogether, Present, Classified, Allocated
    <3>6. Becomes(Stored)
      BY <1>1, <1>2, <1>4, <2>1, <2>3, <3>3, <3>4 DEF Becomes, b
    <3> QED
      BY <3>5, <3>6
  <2> QED
    BY <2>2, <2>3
<1>5. CASE sending.key[1] = "allocations"
  <2>1. \A m \in Movements : ~Writes(m)
    BY <1>1, <1>5 DEF Writes
  <2>2. Stored = [cloud EXCEPT !.allocated[x] = b.allocated[x]]
    BY <1>5 DEF Stored
  <2>3. b.allocated[x] \in Nat /\ (b.allocated[x] > 0 => Present(cloud, x))
    BY <1>1, <1>5, BookTypes DEF Refused, Allocated
  <2>4. cloud.allocated \in [Movements -> Nat]
    BY <1>1, BookTypes
  <2> HIDE DEF b, x
  <2>5. /\ Sound(Stored, own, n)
        /\ Stored.active = cloud.active /\ Stored.movement = cloud.movement
        /\ Stored.annotation = cloud.annotation
        /\ Stored.allocated = [cloud.allocated EXCEPT ![x] = b.allocated[x]]
    BY <1>1, <2>2, <2>3, AllocatedSound
  <2>6. Becomes(Stored)
    BY <1>1, <1>2, <1>5, <2>1, <2>4, <2>5 DEF Becomes, b
  <2> QED
    BY <2>5, <2>6
<1> QED
  BY <1>3, <1>4, <1>5

LEMMA StoredSound ==
    ASSUME NEW own \in Owners, NEW n \in Nat, Sound(cloud, own, n), InHand(own, n), ~Refused
    PROVE  Sound(Stored, own, n) /\ Becomes(Stored)
<1>1. CASE sending.key[1] = "import_delete"
  <2> DEFINE x == sending.key[2]
  <2>1. x \in Imports /\ sending.key = <<"import_delete", x>>
    BY <1>1, KeyedParts DEF InHand
  <2>2. Stored = WithoutImport(cloud, x)
    BY <1>1 DEF Stored
  <2> HIDE DEF x
  <2>3. /\ Sound(Stored, own, n) /\ Stored.active = cloud.active
        /\ \A m \in Movements :
            /\ Stored.movement[m] = IF m \in Members(cloud, x) THEN NoRow ELSE cloud.movement[m]
            /\ Stored.annotation[m] = IF m \in Members(cloud, x) THEN NoRow ELSE cloud.annotation[m]
            /\ Stored.allocated[m] = IF m \in Members(cloud, x) THEN 0 ELSE cloud.allocated[m]
    <3>1. Sound(Stored, own, n) /\ LacksImport(Stored, cloud, x)
      BY <2>1, <2>2, WithoutImportSound
    <3> QED
      BY <3>1 DEF LacksImport
  <2>4. \A m \in Movements : ~Writes(m) /\ (Erases(m) <=> m \in Members(cloud, x))
    BY <2>1 DEF Writes, Erases
  <2>5. \A m \in Movements : sending.key # <<"annotation", m>> /\ sending.key # <<"allocations", m>>
    BY <2>1
  <2>6. Becomes(Stored)
    BY <1>1, <2>3, <2>4, <2>5 DEF Becomes
  <2> QED
    BY <2>3, <2>6
<1>2. sending.key[1] \in {"account", "import", "import_delete", "movement", "annotation", "allocations"}
  BY KeyedParts DEF InHand
<1> QED
  BY <1>1, <1>2, AccountStored, ImportStored, OneRowStored

-------------------------------------------------------------------------------
(* The inductive invariant                                                 *)

Entries == [table : Tables, of : SUBSET (Accounts \cup Movements \cup Imports), rows : Books]

\* What an entry of the journal holds for its table.
Entered(e, own, n) ==
    /\ Fits(e.rows, own, n)
    /\ \/ e.table = "account" /\ e.of \subseteq Accounts
       \/ /\ e.table = "import_delete" /\ e.of \subseteq Imports /\ HangTogether(e.rows)
          /\ \A i \in e.of : e.rows.imports[i] # NoRow
       \/ e.table = "movement" /\ e.of \subseteq Movements /\ \A m \in e.of : Present(e.rows, m)
       \/ e.table = "annotation" /\ e.of \subseteq Movements
       \/ e.table = "allocations" /\ \E m \in Movements : e.of = {m}

\* All copies of the tables agree on the owners of the imports.
BooksInv(own) ==
    /\ own \in Owners
    /\ Sound(books, own, commands) /\ Sound(cloud, own, commands)
    /\ journal \in Seq(Entries)
    /\ \A k \in DOMAIN journal : Entered(journal[k], own, commands)
    /\ outbox \in Seq(Keyed)
    /\ sending = Idle \/ InHand(own, commands)
    /\ commands \in 0..MaxCommands /\ faults \in 0..MaxFaults
    /\ resent \subseteq Imports /\ (faults = 0 => resent = {})

MovementWaits(m) == Waits("movement", m) \/ Waits("import", books.movement[m].import)

\* A row in flight that the device has changed since waits as well.
FlightInv ==
    /\ \A a \in Accounts : InFlight("account", a) =>
        sending.rows.active[a] = books.active[a] \/ Waits("account", a)
    /\ \A m \in Movements : Present(books, m) /\ Writes(m) =>
        sending.rows.movement[m] = books.movement[m] \/ MovementWaits(m)
    /\ \A m \in Classified(books) : InFlight("annotation", m) =>
        \/ sending.rows.annotation[m] \in {NoRow, books.annotation[m]}
        \/ ByItself(m) \/ Waits("annotation", m)
    /\ \A m \in Allocated(books) : InFlight("allocations", m) =>
        sending.rows.allocated[m] \in {0, books.allocated[m]} \/ Waits("allocations", m)

\* Behind the deletion of an import that the device has again waits the import,
\* unless the deletion has failed and was queued again.
DeletionsInv ==
    /\ \A x \in Imports \ resent, k \in DOMAIN outbox :
        outbox[k] = <<"import_delete", x>> /\ books.imports[x] # NoRow =>
            \E j \in DOMAIN outbox : j > k /\ outbox[j] = <<"import", x>>
    /\ \A x \in Imports \ resent :
        InFlight("import_delete", x) /\ books.imports[x] # NoRow => Waits("import", x)

QueueInv == ChangesAreQueued /\ FlightInv /\ DeletionsInv

Decided(b, m) ==
    b.annotation[m] # NoRow /\ (b.annotation[m].kind = "expense" \/ b.annotation[m].fiscal # "pending")

\* Before the n-th entry of the list there is one of that table for m.
Listed(list, table, m, n) ==
    \E k \in DOMAIN list : k < n /\ list[k].table = table /\ m \in list[k].of

\* What the device has, or an entry of the journal would bring back, is covered
\* by an earlier entry.
DecisionsInv ==
    /\ \A m \in Movements :
        /\ Decided(books, m) => Listed(journal, "annotation", m, Len(journal) + 1)
        /\ books.allocated[m] > 0 => Listed(journal, "allocations", m, Len(journal) + 1)
    /\ \A n \in DOMAIN journal, m \in Movements :
        /\ Decided(journal[n].rows, m) => Listed(journal, "annotation", m, n)
        /\ journal[n].rows.allocated[m] > 0 => Listed(journal, "allocations", m, n)

TreasuryInv == (\E own : BooksInv(own)) /\ QueueInv /\ DecisionsInv

LEMMA InvImplies == TreasuryInv => TreasuryTypeOK /\ ChangesAreQueued /\ DecisionsCanBeUndone
<1> SUFFICES ASSUME TreasuryInv PROVE TreasuryTypeOK /\ DecisionsCanBeUndone
  BY DEF TreasuryInv, QueueInv
<1>1. PICK own : BooksInv(own)
  BY DEF TreasuryInv
<1>2. /\ books \in Books /\ HangTogether(books) /\ cloud \in Books /\ HangTogether(cloud)
      /\ commands \in 0..MaxCommands /\ faults \in 0..MaxFaults /\ resent \subseteq Imports
  BY <1>1 DEF BooksInv, Sound, Fits
<1>3. \A n \in DOMAIN journal : journal[n].table \in Tables /\ journal[n].rows \in Books
  <2> SUFFICES ASSUME NEW n \in DOMAIN journal
               PROVE  journal[n].table \in Tables /\ journal[n].rows \in Books
    OBVIOUS
  <2>1. journal[n] \in Entries
    BY <1>1, ElementOfSeq, LenProperties DEF BooksInv
  <2> QED
    BY <2>1 DEF Entries
<1>4. Range(outbox) \subseteq Keys
  <2>1. \A k \in DOMAIN outbox : outbox[k] \in Keyed
    BY <1>1, ElementOfSeq, LenProperties DEF BooksInv
  <2> QED
    BY <2>1, KeyedParts DEF Range
<1>5. sending = Idle \/ sending.rows \in Books
  BY <1>1 DEF BooksInv, InHand, Fits
<1>6. sending.key = <<>> \/ sending.key \in Keys
  BY <1>1, KeyedParts DEF BooksInv, InHand, Idle
<1>8. TreasuryTypeOK
  BY <1>2, <1>3, <1>4, <1>5, <1>6 DEF TreasuryTypeOK
<1>7. DecisionsCanBeUndone
  BY DEF TreasuryInv, DecisionsInv, DecisionsCanBeUndone, Journaled, Listed, Decided, Classified,
         Allocated
<1> QED
  BY <1>7, <1>8

-------------------------------------------------------------------------------
(* Commands keep the invariant                                             *)

LEMMA Joined ==
    ASSUME NEW T, NEW s \in Seq(T), NEW t \in Seq(T)
    PROVE  /\ s \o t \in Seq(T) /\ Len(s \o t) = Len(s) + Len(t)
           /\ DOMAIN s = 1..Len(s) /\ DOMAIN t = 1..Len(t) /\ DOMAIN (s \o t) = 1..(Len(s) + Len(t))
           /\ Len(s) \in Nat /\ Len(t) \in Nat
           /\ \A k \in DOMAIN s : k \in DOMAIN (s \o t) /\ (s \o t)[k] = s[k]
           /\ \A k \in DOMAIN t : Len(s) + k \in DOMAIN (s \o t) /\ (s \o t)[Len(s) + k] = t[k]
           /\ \A n \in DOMAIN (s \o t) : n \in DOMAIN s \/ \E k \in DOMAIN t : n = Len(s) + k
           /\ Range(s) \subseteq Range(s \o t) /\ Range(t) \subseteq Range(s \o t)
<1>1. /\ s \o t \in Seq(T) /\ Len(s \o t) = Len(s) + Len(t)
      /\ \A k \in 1..(Len(s) + Len(t)) : (s \o t)[k] = IF k <= Len(s) THEN s[k] ELSE t[k - Len(s)]
  BY ConcatProperties
<1>2. DOMAIN s = 1..Len(s) /\ DOMAIN t = 1..Len(t) /\ DOMAIN (s \o t) = 1..Len(s \o t)
      /\ Len(s) \in Nat /\ Len(t) \in Nat
  BY <1>1, LenProperties
<1>3. \A k \in DOMAIN s : k \in DOMAIN (s \o t) /\ (s \o t)[k] = s[k]
  BY <1>1, <1>2
<1>4. \A k \in DOMAIN t : Len(s) + k \in DOMAIN (s \o t) /\ (s \o t)[Len(s) + k] = t[k]
  BY <1>1, <1>2
<1>5. ASSUME NEW n \in DOMAIN (s \o t), n \notin DOMAIN s
      PROVE  \E k \in DOMAIN t : n = Len(s) + k
  <2>1. n \in Nat /\ n > Len(s) /\ n <= Len(s) + Len(t)
    BY <1>1, <1>2, <1>5
  <2>2. n - Len(s) \in DOMAIN t /\ n = Len(s) + (n - Len(s))
    BY <1>2, <2>1
  <2> QED
    BY <2>2
<1>6. Range(s) \subseteq Range(s \o t) /\ Range(t) \subseteq Range(s \o t)
  BY <1>3, <1>4 DEF Range
<1> QED
  BY <1>1, <1>2, <1>3, <1>4, <1>5, <1>6

\* What a command changes in the tables it queues.
Covers(keys) ==
    /\ \A a \in Accounts :
        books'.active[a] = books.active[a] \/ <<"account", a>> \in Range(keys)
    /\ \A m \in Movements : Present(books', m) =>
        \/ books'.movement[m] = books.movement[m]
        \/ <<"movement", m>> \in Range(keys)
        \/ <<"import", books'.movement[m].import>> \in Range(keys)
    /\ \A m \in Classified(books') :
        \/ books'.annotation[m] = books.annotation[m]
        \/ books'.annotation[m] = ByRule
        \/ <<"annotation", m>> \in Range(keys)
    /\ \A m \in Allocated(books') :
        books'.allocated[m] = books.allocated[m] \/ <<"allocations", m>> \in Range(keys)
    /\ \A i \in Imports : books'.imports[i] # NoRow =>
        books.imports[i] # NoRow \/ <<"import", i>> \in Range(keys)
    /\ \A i \in Imports : <<"import_delete", i>> \in Range(keys) => books'.imports[i] = NoRow

\* What a command decides, or takes over from before, it enters.
Accounted(list) ==
    /\ \A m \in Movements :
        /\ Decided(books', m) => Decided(books, m) \/ Listed(list, "annotation", m, Len(list) + 1)
        /\ books'.allocated[m] > 0 =>
            books.allocated[m] > 0 \/ Listed(list, "allocations", m, Len(list) + 1)
    /\ \A n \in DOMAIN list, m \in Movements :
        /\ Decided(list[n].rows, m) => Decided(books, m) \/ Listed(list, "annotation", m, n)
        /\ list[n].rows.allocated[m] > 0 =>
            books.allocated[m] > 0 \/ Listed(list, "allocations", m, n)

Change(own, next, list, keys) ==
    /\ next \in Owners /\ \A i \in Imports : i <= commands => next[i] = own[i]
    /\ Sound(books', next, commands + 1)
    /\ list \in Seq(Entries) /\ \A k \in DOMAIN list : Entered(list[k], own, commands)
    /\ keys \in Seq(Keyed)
    /\ Covers(keys) /\ Accounted(list)

\* The rows of the tables as they were still fit when the commands are counted on.
LEMMA EnteredGrows ==
    ASSUME NEW own \in Owners, NEW n \in Nat, NEW next \in Owners,
           \A i \in Imports : i <= n => next[i] = own[i], NEW e, Entered(e, own, n)
    PROVE  Entered(e, next, n + 1)
BY OwnersGrow DEF Entered

LEMMA CommandKeepsBooks ==
    ASSUME NEW own, BooksInv(own), NEW next, NEW list, NEW keys,
           Change(own, next, list, keys), Command(list, keys)
    PROVE  BooksInv(next)'
<1>1. /\ own \in Owners /\ next \in Owners /\ commands \in Nat /\ commands' = commands + 1
      /\ \A i \in Imports : i <= commands => next[i] = own[i]
      /\ UNCHANGED <<cloud, sending, faults, resent>>
  BY TreasuryAssumption DEF BooksInv, Change, Command
<1>3. Sound(cloud, next, commands + 1)
  BY <1>1, OwnersGrow DEF BooksInv, Sound
<1>4. sending = Idle \/ InHand(next, commands + 1)
  BY <1>1, OwnersGrow DEF BooksInv, InHand
<1>5. journal' \in Seq(Entries) /\ \A k \in DOMAIN journal' : Entered(journal'[k], next, commands + 1)
  <2>1. journal \in Seq(Entries) /\ list \in Seq(Entries) /\ journal' = journal \o list
    BY DEF BooksInv, Change, Command
  <2>2. \A k \in DOMAIN journal : Entered(journal[k], next, commands + 1)
    BY <1>1, EnteredGrows DEF BooksInv
  <2>3. \A k \in DOMAIN list : Entered(list[k], next, commands + 1)
    BY <1>1, EnteredGrows DEF Change
  <2> QED
    BY <2>1, <2>2, <2>3, Joined
<1>6. outbox' \in Seq(Keyed)
  BY Joined DEF BooksInv, Change, Command
<1>7. /\ commands' \in 0..MaxCommands /\ faults' \in 0..MaxFaults
      /\ resent' \subseteq Imports /\ (faults' = 0 => resent' = {})
  BY TreasuryAssumption DEF BooksInv, Command
<1>8. Sound(books', next, commands + 1)
  BY DEF Change
<1> QED
  BY <1>1, <1>3, <1>4, <1>5, <1>6, <1>7, <1>8 DEF BooksInv, InHand

LEMMA QueueGrows ==
    ASSUME NEW keys \in Seq(Keyed), outbox \in Seq(Keyed), books \in Books, QueueInv, Covers(keys),
           outbox' = outbox \o keys, UNCHANGED <<cloud, sending, resent>>
    PROVE  QueueInv'
<1>1. Range(outbox) \subseteq Range(outbox') /\ Range(keys) \subseteq Range(outbox')
  BY Joined
<1>2. \A table, x : Waits(table, x) \/ <<table, x>> \in Range(keys) => Waits(table, x)'
  BY <1>1 DEF Waits
<1>3. UNCHANGED <<cloud, sending, cloud.active, cloud.movement, cloud.annotation, cloud.allocated>>
  OBVIOUS
<1>4. AccountsAreQueued' /\ (\A a \in Accounts : InFlight("account", a)' =>
        sending'.rows.active[a] = books'.active[a] \/ Waits("account", a)')
  <2> SUFFICES ASSUME NEW a \in Accounts
               PROVE  /\ \/ books'.active[a] = cloud'.active[a]
                         \/ Waits("account", a)'
                         \/ InFlight("account", a)' /\ sending'.rows.active[a] = books'.active[a]
                      /\ InFlight("account", a)' =>
                            sending'.rows.active[a] = books'.active[a] \/ Waits("account", a)'
    BY DEF AccountsAreQueued
  <2>1. CASE books'.active[a] = books.active[a]
    BY <1>2, <1>3, <2>1 DEF QueueInv, ChangesAreQueued, AccountsAreQueued, FlightInv, InFlight
  <2>2. CASE books'.active[a] # books.active[a]
    BY <1>2, <2>2 DEF Covers
  <2> QED
    BY <2>1, <2>2
<1>5. MovementsAreQueued' /\ (\A m \in Movements : Present(books', m) /\ Writes(m)' =>
        sending'.rows.movement[m] = books'.movement[m] \/ MovementWaits(m)')
  <2> SUFFICES ASSUME NEW m \in Movements, Present(books', m)
               PROVE  /\ \/ books'.movement[m] = cloud'.movement[m]
                         \/ MovementWaits(m)'
                         \/ /\ InFlight("movement", m)' \/ InFlight("import", books.movement[m].import)'
                            /\ sending'.rows.movement[m] = books'.movement[m]
                         \/ books'.movement[m].import \in resent /\ ~Present(cloud, m)
                      /\ Writes(m)' =>
                            sending'.rows.movement[m] = books'.movement[m] \/ MovementWaits(m)'
    BY DEF MovementsAreQueued, MovementWaits, Present, Waits, InFlight
  <2>1. CASE books'.movement[m] = books.movement[m]
    <3>1. Present(books, m) /\ (Writes(m)' <=> Writes(m)) /\ (MovementWaits(m) => MovementWaits(m)')
      BY <1>2, <2>1 DEF Present, Writes, MovementWaits
    <3>2. \/ books.movement[m] = cloud.movement[m]
          \/ MovementWaits(m)
          \/ /\ InFlight("movement", m) \/ InFlight("import", books.movement[m].import)
             /\ sending.rows.movement[m] = books.movement[m]
          \/ books.movement[m].import \in resent /\ ~Present(cloud, m)
      BY <3>1 DEF QueueInv, ChangesAreQueued, MovementsAreQueued, MovementWaits
    <3>3. Writes(m) => sending.rows.movement[m] = books.movement[m] \/ MovementWaits(m)
      BY <3>1 DEF QueueInv, FlightInv
    <3> QED
      BY <1>3, <2>1, <3>1, <3>2, <3>3 DEF InFlight, Present, Waits
  <2>2. CASE books'.movement[m] # books.movement[m]
    <3>1. MovementWaits(m)'
      BY <1>2, <2>2 DEF Covers, MovementWaits
    <3> QED
      BY <3>1
  <2> QED
    BY <2>1, <2>2
<1>6. ASSUME NEW m \in Classified(books')
      PROVE  /\ cloud'.annotation[m] \in {NoRow, books'.annotation[m]} \/ ByItself(m)' \/ AnnotationQueued(m)'
             /\ InFlight("annotation", m)' =>
                    \/ sending'.rows.annotation[m] \in {NoRow, books'.annotation[m]}
                    \/ ByItself(m)' \/ Waits("annotation", m)'
  <2>1. CASE books'.annotation[m] = books.annotation[m]
    <3>1. m \in Classified(books) /\ (ByItself(m)' <=> ByItself(m))
      BY <1>6, <2>1 DEF Classified, ByItself
    <3>2. /\ cloud.annotation[m] \in {NoRow, books.annotation[m]} \/ ByItself(m) \/ AnnotationQueued(m)
          /\ InFlight("annotation", m) =>
                    \/ sending.rows.annotation[m] \in {NoRow, books.annotation[m]}
                    \/ ByItself(m) \/ Waits("annotation", m)
      BY <3>1 DEF QueueInv, ChangesAreQueued, DecisionsAreCurrent, FlightInv
    <3> QED
      BY <1>2, <1>3, <2>1, <3>1, <3>2 DEF AnnotationQueued, InFlight
  <2>2. CASE books'.annotation[m] # books.annotation[m]
    <3>1. ByItself(m)' \/ Waits("annotation", m)'
      BY <1>2, <1>6, <2>2 DEF Covers, ByItself, ByRule
    <3> QED
      BY <3>1 DEF AnnotationQueued
  <2> QED
    BY <2>1, <2>2
<1>7. ASSUME NEW m \in Allocated(books')
      PROVE  /\ cloud'.allocated[m] \in {0, books'.allocated[m]} \/ AllocationQueued(m)'
             /\ InFlight("allocations", m)' =>
                    sending'.rows.allocated[m] \in {0, books'.allocated[m]} \/ Waits("allocations", m)'
  <2>1. CASE books'.allocated[m] = books.allocated[m]
    <3>1. m \in Allocated(books)
      BY <1>7, <2>1 DEF Allocated
    <3>2. /\ cloud.allocated[m] \in {0, books.allocated[m]} \/ AllocationQueued(m)
          /\ InFlight("allocations", m) =>
                    sending.rows.allocated[m] \in {0, books.allocated[m]} \/ Waits("allocations", m)
      BY <3>1 DEF QueueInv, ChangesAreQueued, DecisionsAreCurrent, FlightInv
    <3> QED
      BY <1>2, <1>3, <2>1, <3>2 DEF AllocationQueued, InFlight
  <2>2. CASE books'.allocated[m] # books.allocated[m]
    BY <1>2, <1>7, <2>2 DEF Covers, AllocationQueued
  <2> QED
    BY <2>1, <2>2
<1>8. DeletionsInv'
  <2>1. ASSUME NEW x \in Imports \ resent, NEW k \in DOMAIN outbox',
               outbox'[k] = <<"import_delete", x>>, books'.imports[x] # NoRow
        PROVE  \E j \in DOMAIN outbox' : j > k /\ outbox'[j] = <<"import", x>>
    <3>1. <<"import_delete", x>> \notin Range(keys)
      BY <2>1 DEF Covers
    <3>2. k \in DOMAIN outbox /\ outbox[k] = outbox'[k]
      <4>1. k \in DOMAIN outbox \/ \E n \in DOMAIN keys : k = Len(outbox) + n
        BY Joined
      <4>2. \A n \in DOMAIN keys : outbox'[Len(outbox) + n] = keys[n]
        BY Joined
      <4>3. k \in DOMAIN outbox
        BY <2>1, <3>1, <4>1, <4>2 DEF Range
      <4> QED
        BY <4>3, Joined
    <3>3. CASE books.imports[x] # NoRow
      <4>1. PICK j \in DOMAIN outbox : j > k /\ outbox[j] = <<"import", x>>
        BY <2>1, <3>2, <3>3 DEF QueueInv, DeletionsInv
      <4>2. j \in DOMAIN outbox' /\ outbox'[j] = outbox[j]
        BY Joined
      <4> QED
        BY <4>1, <4>2
    <3>4. CASE books.imports[x] = NoRow
      <4>1. PICK n \in DOMAIN keys : keys[n] = <<"import", x>>
        BY <2>1, <3>4 DEF Covers, Range
      <4>2. /\ Len(outbox) + n \in DOMAIN outbox' /\ outbox'[Len(outbox) + n] = keys[n]
            /\ Len(outbox) + n > k
        BY <3>2, Joined
      <4> QED
        BY <4>1, <4>2
    <3> QED
      BY <3>3, <3>4
  <2>2. ASSUME NEW x \in Imports \ resent, InFlight("import_delete", x)', books'.imports[x] # NoRow
        PROVE  Waits("import", x)'
    <3>1. InFlight("import_delete", x)
      BY <2>2 DEF InFlight
    <3>2. CASE books.imports[x] # NoRow
      BY <1>2, <3>1, <3>2 DEF QueueInv, DeletionsInv
    <3>3. CASE books.imports[x] = NoRow
      BY <1>2, <2>2, <3>3 DEF Covers
    <3> QED
      BY <3>2, <3>3
  <2> QED
    BY <2>1, <2>2 DEF DeletionsInv
<1>9. DecisionsAreCurrent'
  BY <1>6, <1>7 DEF DecisionsAreCurrent
<1>10. FlightInv'
  BY <1>4, <1>5, <1>6, <1>7 DEF FlightInv
<1> QED
  BY <1>4, <1>5, <1>8, <1>9, <1>10 DEF QueueInv, ChangesAreQueued

LEMMA DecisionsGrow ==
    ASSUME NEW list \in Seq(Entries), journal \in Seq(Entries), DecisionsInv, Accounted(list),
           journal' = journal \o list
    PROVE  DecisionsInv'
<1>1. /\ Len(journal') = Len(journal) + Len(list) /\ Len(journal) \in Nat /\ Len(list) \in Nat
      /\ DOMAIN journal = 1..Len(journal) /\ DOMAIN list = 1..Len(list)
      /\ \A k \in DOMAIN journal : k \in DOMAIN journal' /\ journal'[k] = journal[k]
      /\ \A k \in DOMAIN list : Len(journal) + k \in DOMAIN journal' /\ journal'[Len(journal) + k] = list[k]
      /\ \A n \in DOMAIN journal' : n \in DOMAIN journal \/ \E k \in DOMAIN list : n = Len(journal) + k
  BY Joined
<1>2. \A table, m : \A n \in 0..Len(journal) + 1, p \in Nat :
        Listed(journal, table, m, n) /\ n <= p => Listed(journal', table, m, p)
  BY <1>1 DEF Listed
<1>3. \A table, m : \A n \in Nat :
        Listed(list, table, m, n) => Listed(journal', table, m, Len(journal) + n)
  <2> SUFFICES ASSUME NEW table, NEW m, NEW n \in Nat, Listed(list, table, m, n)
               PROVE  Listed(journal', table, m, Len(journal) + n)
    OBVIOUS
  <2>1. PICK k \in DOMAIN list : k < n /\ list[k].table = table /\ m \in list[k].of
    BY DEF Listed
  <2>2. /\ Len(journal) + k \in DOMAIN journal' /\ Len(journal) + k < Len(journal) + n
        /\ journal'[Len(journal) + k] = list[k]
    BY <1>1, <2>1
  <2> QED
    BY <2>1, <2>2 DEF Listed
<1>4. ASSUME NEW m \in Movements
      PROVE  /\ Decided(books', m) => Listed(journal', "annotation", m, Len(journal') + 1)
             /\ books'.allocated[m] > 0 => Listed(journal', "allocations", m, Len(journal') + 1)
  <2>1. \A table : \/ Listed(journal, table, m, Len(journal) + 1)
                   \/ Listed(list, table, m, Len(list) + 1)
                => Listed(journal', table, m, Len(journal') + 1)
    <3>1. Len(journal) + (Len(list) + 1) = Len(journal') + 1 /\ Len(journal) + 1 <= Len(journal') + 1
          /\ Len(journal) + 1 \in 0..Len(journal) + 1 /\ Len(journal') + 1 \in Nat
          /\ Len(list) + 1 \in Nat
      BY <1>1
    <3> QED
      BY <1>2, <1>3, <3>1
  <2> QED
    BY <2>1 DEF DecisionsInv, Accounted
<1>5. ASSUME NEW n \in DOMAIN journal', NEW m \in Movements
      PROVE  /\ Decided(journal'[n].rows, m) => Listed(journal', "annotation", m, n)
             /\ journal'[n].rows.allocated[m] > 0 => Listed(journal', "allocations", m, n)
  <2>1. CASE n \in DOMAIN journal
    <3>1. n \in 0..Len(journal) + 1 /\ n \in Nat /\ journal'[n] = journal[n]
      BY <1>1, <2>1
    <3> QED
      BY <1>2, <2>1, <3>1 DEF DecisionsInv
  <2>2. CASE n \notin DOMAIN journal
    <3>1. PICK k \in DOMAIN list : n = Len(journal) + k
      BY <1>1, <2>2
    <3>2. journal'[n] = list[k] /\ k \in Nat /\ n \in Nat /\ Len(journal) + 1 <= n
          /\ Len(journal) + 1 \in 0..Len(journal) + 1
      BY <1>1, <3>1
    <3>3. \A table : Listed(journal, table, m, Len(journal) + 1) \/ Listed(list, table, m, k)
                     => Listed(journal', table, m, n)
      BY <1>2, <1>3, <3>1, <3>2
    <3> QED
      BY <3>2, <3>3 DEF DecisionsInv, Accounted
  <2> QED
    BY <2>1, <2>2
<1> QED
  BY <1>4, <1>5 DEF DecisionsInv

LEMMA CommandKeeps ==
    ASSUME NEW own, BooksInv(own), QueueInv, DecisionsInv, NEW next, NEW list, NEW keys,
           Change(own, next, list, keys), Command(list, keys)
    PROVE  TreasuryInv'
<1>1. BooksInv(next)'
  BY CommandKeepsBooks
<1>2. /\ outbox \in Seq(Keyed) /\ books \in Books /\ journal \in Seq(Entries)
      /\ keys \in Seq(Keyed) /\ list \in Seq(Entries) /\ Covers(keys) /\ Accounted(list)
      /\ outbox' = outbox \o keys /\ journal' = journal \o list
      /\ UNCHANGED <<cloud, sending, resent>>
  BY DEF BooksInv, Sound, Fits, Change, Command
<1>3. QueueInv'
  BY <1>2, QueueGrows
<1>4. DecisionsInv'
  BY <1>2, DecisionsGrow
<1> QED
  BY <1>1, <1>3, <1>4 DEF TreasuryInv

\* What is there after an undo is covered by the entries before the newest.
Uncovered ==
    \A m \in Movements :
        /\ Decided(books', m) => Listed(journal, "annotation", m, Len(journal))
        /\ books'.allocated[m] > 0 => Listed(journal, "allocations", m, Len(journal))

LEMMA Newest ==
    ASSUME NEW own, BooksInv(own), journal # <<>>
    PROVE  /\ Len(journal) \in DOMAIN journal /\ Entry = journal[Len(journal)] /\ Entry \in Entries
           /\ Entered(Entry, own, commands)
           /\ Front(journal) \in Seq(Entries) /\ Len(Front(journal)) + 1 = Len(journal)
           /\ DOMAIN Front(journal) = 1..Len(Front(journal)) /\ DOMAIN journal = 1..Len(journal)
           /\ Len(journal) \in Nat /\ Len(Front(journal)) \in Nat
           /\ \A k \in DOMAIN Front(journal) : k \in DOMAIN journal /\ Front(journal)[k] = journal[k]
<1>1. journal \in Seq(Entries) /\ DOMAIN journal = 1..Len(journal) /\ Len(journal) \in Nat
      /\ Len(journal) # 0
  BY LenProperties, EmptySeq DEF BooksInv
<1>2. Len(journal) \in DOMAIN journal /\ Entry = journal[Len(journal)]
  BY <1>1 DEF Entry, Last
<1>3. Entry \in Entries /\ Entered(Entry, own, commands)
  BY <1>1, <1>2, ElementOfSeq DEF BooksInv
<1>4. /\ Front(journal) \in Seq(Entries) /\ Len(Front(journal)) = Len(journal) - 1
      /\ \A k \in 1..Len(journal) - 1 : Front(journal)[k] = journal[k]
  <2> DEFINE last == Len(journal) - 1
  <2>1. 1 \in Int /\ last \in Int /\ last - 1 + 1 = last /\ (1 <= last \/ last = 0)
    BY <1>1
  <2>2. \A k \in 1..last : journal[k] \in Entries
    BY <1>1, ElementOfSeq
  <2>3. Front(journal) = SubSeq(journal, 1, last)
    BY DEF Front
  <2> HIDE DEF last
  <2>4. /\ Front(journal) \in Seq(Entries) /\ Len(Front(journal)) = last
        /\ \A k \in 1..last : Front(journal)[k] = journal[k]
    BY <2>1, <2>2, <2>3, SubSeqProperties
  <2> QED
    BY <2>4 DEF last
<1>5. DOMAIN Front(journal) = 1..Len(Front(journal))
  BY <1>4, LenProperties
<1> QED
  BY <1>1, <1>2, <1>3, <1>4, <1>5

LEMMA UndoKeeps ==
    ASSUME NEW own, BooksInv(own), QueueInv, DecisionsInv, journal # <<>>,
           NEW restored, NEW keys \in Seq(Keyed), Undo(restored, keys),
           Sound(books', own, commands), Covers(keys), Uncovered
    PROVE  TreasuryInv'
<1>1. /\ own \in Owners /\ commands \in Nat /\ commands' = commands + 1
      /\ UNCHANGED <<cloud, sending, faults, resent>> /\ journal' = Front(journal)
      /\ outbox' = outbox \o keys /\ commands' \in 0..MaxCommands
  BY TreasuryAssumption DEF BooksInv, Undo
<1>2. Sound(cloud, own, commands + 1) /\ Sound(books', own, commands + 1)
  BY <1>1, OwnersGrow DEF BooksInv, Sound
<1>3. sending = Idle \/ InHand(own, commands + 1)
  BY <1>1, OwnersGrow DEF BooksInv, InHand
<1>4. journal' \in Seq(Entries) /\ \A k \in DOMAIN journal' : Entered(journal'[k], own, commands + 1)
  BY <1>1, Newest, EnteredGrows DEF BooksInv
<1>5. outbox' \in Seq(Keyed)
  BY <1>1, Joined DEF BooksInv
<1>6. BooksInv(own)'
  BY <1>1, <1>2, <1>3, <1>4, <1>5 DEF BooksInv, InHand
<1>7. QueueInv'
  BY <1>1, QueueGrows DEF BooksInv, Sound, Fits
<1>8. \A table, m : \A n \in Nat : Listed(journal, table, m, n) /\ n <= Len(journal)
        => Listed(journal', table, m, n)
  <2> SUFFICES ASSUME NEW table, NEW m, NEW n \in Nat, Listed(journal, table, m, n), n <= Len(journal)
               PROVE  Listed(journal', table, m, n)
    OBVIOUS
  <2>1. PICK k \in DOMAIN journal : k < n /\ journal[k].table = table /\ m \in journal[k].of
    BY DEF Listed
  <2>2. k \in DOMAIN journal' /\ journal'[k] = journal[k]
    BY <1>1, <2>1, Newest
  <2> QED
    BY <2>1, <2>2 DEF Listed
<1>9. DecisionsInv'
  <2>1. \A m \in Movements :
            /\ Decided(books', m) => Listed(journal', "annotation", m, Len(journal') + 1)
            /\ books'.allocated[m] > 0 => Listed(journal', "allocations", m, Len(journal') + 1)
    BY <1>1, <1>8, Newest DEF Uncovered
  <2>2. \A n \in DOMAIN journal', m \in Movements :
            /\ Decided(journal'[n].rows, m) => Listed(journal', "annotation", m, n)
            /\ journal'[n].rows.allocated[m] > 0 => Listed(journal', "allocations", m, n)
    <3> TAKE n \in DOMAIN journal', m \in Movements
    <3>1. n \in DOMAIN journal /\ n \in Nat /\ n <= Len(journal) /\ journal'[n] = journal[n]
      BY <1>1, Newest
    <3>2. /\ Decided(journal[n].rows, m) => Listed(journal, "annotation", m, n)
          /\ journal[n].rows.allocated[m] > 0 => Listed(journal, "allocations", m, n)
      BY <3>1 DEF DecisionsInv
    <3> QED
      BY <1>8, <3>1, <3>2
  <2> QED
    BY <2>1, <2>2 DEF DecisionsInv
<1> QED
  BY <1>6, <1>7, <1>9 DEF TreasuryInv

-------------------------------------------------------------------------------
(* The entries and keys of the commands                                    *)

LEMMA EntryMade ==
    ASSUME NEW own \in Owners, NEW n \in Nat, NEW b, Sound(b, own, n), NEW table, NEW S,
           \/ table = "account" /\ \E a \in Accounts : S = {a}
           \/ table = "import_delete" /\ \E i \in Imports : S = {i} /\ b.imports[i] # NoRow
           \/ table = "movement" /\ \E m \in Movements : S = {m} /\ Present(b, m)
           \/ table = "annotation" /\ S \subseteq Movements
           \/ table = "allocations" /\ \E m \in Movements : S = {m}
    PROVE  LET e == RowsOf(b, table, S) IN
           /\ [table |-> table, of |-> S, rows |-> e] \in Entries
           /\ Entered([table |-> table, of |-> S, rows |-> e], own, n)
           /\ \A m \in Movements :
                /\ e.annotation[m] \in {NoRow, b.annotation[m]}
                /\ e.allocated[m] \in {0, b.allocated[m]}
           /\ table = "annotation" => \A m \in Movements :
                e.annotation[m] = (IF m \in S THEN b.annotation[m] ELSE NoRow) /\ e.allocated[m] = 0
<1> DEFINE e == RowsOf(b, table, S)
           r == [table |-> table, of |-> S, rows |-> e]
<1>1. Fits(b, own, n) /\ HangTogether(b)
  BY DEF Sound
<1>2. r.table = table /\ r.of = S /\ r.rows = e
  OBVIOUS
<1>3. Fits(e, own, n) => (r \in Entries <=> table \in Tables /\ S \subseteq Accounts \cup Movements \cup Imports)
  BY DEF Entries, Fits
<1> HIDE DEF r, e
<1>4. CASE table = "account" /\ \E a \in Accounts : S = {a}
  <2>1. PICK a \in Accounts : S = {a}
    BY <1>4
  <2>2. LET c == RowsOf(b, "account", S) IN
        /\ Fits(c, own, n) /\ HangTogether(c)
        /\ c.active[a] = b.active[a]
        /\ \A m \in Movements : c.movement[m] = NoRow /\ c.annotation[m] = NoRow /\ c.allocated[m] = 0
    BY <1>1, <2>1, AccountRows
  <2>3. Fits(e, own, n) /\ \A m \in Movements : e.annotation[m] = NoRow /\ e.allocated[m] = 0
    BY <1>4, <2>1, <2>2 DEF e
  <2> QED
    BY <1>2, <1>3, <1>4, <2>1, <2>3 DEF Entered, Tables, r, e
<1>5. CASE table = "import_delete" /\ \E i \in Imports : S = {i} /\ b.imports[i] # NoRow
  <2>1. PICK i \in Imports : S = {i} /\ b.imports[i] # NoRow
    BY <1>5
  <2>2. LET c == RowsOf(b, "import_delete", S) IN
        /\ Fits(c, own, n) /\ HangTogether(c)
        /\ c.imports[i] = b.imports[i]
        /\ \A m \in Movements :
             IF m \in Members(b, i)
             THEN /\ c.movement[m] = b.movement[m] /\ c.annotation[m] = b.annotation[m]
                  /\ c.allocated[m] = b.allocated[m]
             ELSE c.movement[m] = NoRow /\ c.annotation[m] = NoRow /\ c.allocated[m] = 0
    BY <1>1, <2>1, ImportRows
  <2>3. /\ Fits(e, own, n) /\ HangTogether(e) /\ e.imports[i] = b.imports[i]
        /\ \A m \in Movements :
             /\ e.annotation[m] \in {NoRow, b.annotation[m]}
             /\ e.allocated[m] \in {0, b.allocated[m]}
    BY <1>5, <2>1, <2>2 DEF e
  <2> QED
    BY <1>2, <1>3, <1>5, <2>1, <2>3 DEF Entered, Tables, r, e
<1>6. CASE /\ table \in {"movement", "annotation", "allocations"} /\ S \subseteq Movements
           /\ table = "movement" => \A m \in S : Present(b, m)
           /\ table = "allocations" => \E m \in Movements : S = {m}
  <2>1. /\ Fits(e, own, n)
        /\ \A m \in Movements :
            /\ e.movement[m] = IF table = "movement" /\ m \in S THEN b.movement[m] ELSE NoRow
            /\ e.annotation[m] = IF table = "annotation" /\ m \in S THEN b.annotation[m] ELSE NoRow
            /\ e.allocated[m] = IF table = "allocations" /\ m \in S THEN b.allocated[m] ELSE 0
    BY <1>1, <1>6, ColumnRows DEF e
  <2>2. table = "movement" => \A m \in S : Present(e, m)
    BY <1>6, <2>1 DEF Present
  <2>3. Entered(r, own, n)
    BY <1>2, <1>6, <2>1, <2>2 DEF Entered
  <2> QED
    BY <1>2, <1>3, <1>6, <2>1, <2>3 DEF Tables, r, e
<1> QED
  BY <1>4, <1>5, <1>6

LEMMA KeysMade ==
    ASSUME NEW S \in SUBSET Movements
    PROVE  /\ AnnotationKeys(S) \in Seq(Keyed) /\ \A m \in S : <<"annotation", m>> \in Range(AnnotationKeys(S))
           /\ AllocationKeys(S) \in Seq(Keyed) /\ \A m \in S : <<"allocations", m>> \in Range(AllocationKeys(S))
           /\ \A x : /\ <<"import_delete", x>> \notin Range(AnnotationKeys(S))
                     /\ <<"import_delete", x>> \notin Range(AllocationKeys(S))
<1>1. IsFiniteSet(S)
  BY FS_Subset, TreasuryAssumption
<1>2. ASSUME NEW table \in {"annotation", "allocations"}
      PROVE  LET K == {<<table, m>> : m \in S} IN
             /\ SetToSeq(K) \in Seq(Keyed) /\ \A m \in S : <<table, m>> \in Range(SetToSeq(K))
             /\ \A x : <<"import_delete", x>> \notin Range(SetToSeq(K))
  <2> DEFINE K == {<<table, m>> : m \in S}
  <2>1. IsFiniteSet(K)
    <3>1. [m \in S |-> <<table, m>>] \in Surjection(S, K)
      BY DEF Surjection
    <3> QED
      BY <1>1, <3>1, FS_Surjection
  <2>2. K \subseteq Keyed
    BY DEF Keyed
  <2>3. SetToSeq(K) \in Seq(K) /\ \A x \in K : \E k \in DOMAIN SetToSeq(K) : SetToSeq(K)[k] = x
    BY <2>1, QueueOf
  <2>4. SetToSeq(K) \in Seq(Keyed)
    BY <2>2, <2>3, SeqMonotonic
  <2>5. \A x \in Range(SetToSeq(K)) : x \in K
    BY <2>3, ElementOfSeq, LenProperties DEF Range
  <2>6. \A x : <<"import_delete", x>> \notin K
    OBVIOUS
  <2> QED
    BY <2>3, <2>4, <2>5, <2>6 DEF Range
<1> QED
  BY <1>2 DEF AnnotationKeys, AllocationKeys

LEMMA OneKey ==
    ASSUME NEW k \in Keyed
    PROVE  <<k>> \in Seq(Keyed) /\ \A x : x \in Range(<<k>>) <=> x = k
BY DEF Range

LEMMA NoEntries ==
    ASSUME \A m \in Movements : Decided(books', m) => Decided(books, m),
           \A m \in Movements : books'.allocated[m] > 0 => books.allocated[m] > 0
    PROVE  <<>> \in Seq(Entries) /\ Accounted(<<>>) /\ DOMAIN (<<>>) = {}
BY DEF Accounted

\* One entry made from the tables as they are, where it covers the new decisions.
LEMMA OneEntry ==
    ASSUME NEW own, BooksInv(own), NEW table, NEW S,
           \/ table = "account" /\ \E a \in Accounts : S = {a}
           \/ table = "import_delete" /\ \E i \in Imports : S = {i} /\ books.imports[i] # NoRow
           \/ table = "movement" /\ \E m \in Movements : S = {m} /\ Present(books, m)
           \/ table = "annotation" /\ S \subseteq Movements
           \/ table = "allocations" /\ \E m \in Movements : S = {m},
           \A m \in Movements : Decided(books', m) =>
                Decided(books, m) \/ (table = "annotation" /\ m \in S),
           \A m \in Movements : books'.allocated[m] > 0 =>
                books.allocated[m] > 0 \/ (table = "allocations" /\ m \in S)
    PROVE  /\ Prior(table, S) \in Seq(Entries) /\ Accounted(Prior(table, S))
           /\ \A k \in DOMAIN Prior(table, S) : Entered(Prior(table, S)[k], own, commands)
<1> DEFINE e == [table |-> table, of |-> S, rows |-> RowsOf(books, table, S)]
<1>1. own \in Owners /\ commands \in Nat /\ Sound(books, own, commands) /\ books \in Books
  BY TreasuryAssumption DEF BooksInv, Sound, Fits
<1>2. /\ e \in Entries /\ Entered(e, own, commands)
      /\ \A m \in Movements :
            /\ e.rows.annotation[m] \in {NoRow, books.annotation[m]}
            /\ e.rows.allocated[m] \in {0, books.allocated[m]}
  BY <1>1, EntryMade
<1>3. Prior(table, S) = <<e>> /\ e.table = table /\ e.of = S
  BY DEF Prior, EntryOf
<1> HIDE DEF e
<1>4. Prior(table, S) \in Seq(Entries) /\ DOMAIN Prior(table, S) = {1} /\ Prior(table, S)[1] = e
      /\ Len(Prior(table, S)) = 1
  BY <1>2, <1>3
<1>5. \A x, m : x = table /\ m \in S => Listed(Prior(table, S), x, m, Len(Prior(table, S)) + 1)
  BY <1>3, <1>4 DEF Listed
<1>6. Accounted(Prior(table, S))
  <2>1. \A m \in Movements : (Decided(e.rows, m) => Decided(books, m))
                             /\ (e.rows.allocated[m] > 0 => books.allocated[m] > 0)
    BY <1>1, <1>2, BookTypes DEF Decided
  <2> QED
    BY <1>4, <1>5, <2>1 DEF Accounted
<1> QED
  BY <1>2, <1>4, <1>6

-------------------------------------------------------------------------------
(* The commands one by one                                                 *)

LEMMA Given ==
    ASSUME NEW own, BooksInv(own)
    PROVE  /\ own \in Owners /\ commands \in Nat /\ books \in Books
           /\ Sound(books, own, commands) /\ Sound(cloud, own, commands)
           /\ journal \in Seq(Entries) /\ outbox \in Seq(Keyed)
           /\ \A b : Sound(b, own, commands) => Sound(b, own, commands + 1)
<1>1. own \in Owners /\ commands \in Nat /\ Sound(books, own, commands)
  BY TreasuryAssumption DEF BooksInv
<1> QED
  BY <1>1, OwnersGrow DEF BooksInv, Sound, Fits

LEMMA EntryCommand ==
    ASSUME NEW own, BooksInv(own), QueueInv, DecisionsInv,
           Sound(books', own, commands), NEW table, NEW S,
           \/ table = "account" /\ \E a \in Accounts : S = {a}
           \/ table = "import_delete" /\ \E i \in Imports : S = {i} /\ books.imports[i] # NoRow
           \/ table = "movement" /\ \E m \in Movements : S = {m} /\ Present(books, m)
           \/ table = "annotation" /\ S \subseteq Movements
           \/ table = "allocations" /\ \E m \in Movements : S = {m},
           \A m \in Movements : Decided(books', m) =>
                Decided(books, m) \/ (table = "annotation" /\ m \in S),
           \A m \in Movements : books'.allocated[m] > 0 =>
                books.allocated[m] > 0 \/ (table = "allocations" /\ m \in S),
           NEW keys \in Seq(Keyed), Covers(keys), Command(Prior(table, S), keys)
    PROVE  TreasuryInv'
<1>1. /\ Prior(table, S) \in Seq(Entries) /\ Accounted(Prior(table, S))
      /\ \A k \in DOMAIN Prior(table, S) : Entered(Prior(table, S)[k], own, commands)
  BY OneEntry
<1>2. Change(own, own, Prior(table, S), keys)
  BY <1>1, Given DEF Change
<1> QED
  BY <1>2, CommandKeeps

LEMMA BareCommand ==
    ASSUME NEW own, BooksInv(own), QueueInv, DecisionsInv,
           NEW next \in Owners, \A i \in Imports : i <= commands => next[i] = own[i],
           Sound(books', next, commands + 1),
           \A m \in Movements : Decided(books', m) => Decided(books, m),
           \A m \in Movements : books'.allocated[m] > 0 => books.allocated[m] > 0,
           NEW keys \in Seq(Keyed), Covers(keys), Command(<<>>, keys)
    PROVE  TreasuryInv'
<1>1. Change(own, next, <<>>, keys)
  BY NoEntries DEF Change
<1> QED
  BY <1>1, CommandKeeps

LEMMA SaveAccountKeeps ==
    ASSUME NEW own, BooksInv(own), QueueInv, DecisionsInv, NEW a \in Accounts, NEW active \in BOOLEAN,
           SaveAccount(a, active)
    PROVE  TreasuryInv'
<1>1. books \in Books /\ Sound(books, own, commands)
  BY Given
<1>2. /\ books' \in Books /\ books'.active = [books.active EXCEPT ![a] = active]
      /\ books'.imports = books.imports /\ books'.movement = books.movement
      /\ books'.annotation = books.annotation /\ books'.allocated = books.allocated
  BY <1>1, BookTypes DEF SaveAccount, Books
<1>3. Sound(books', own, commands)
  BY <1>1, <1>2 DEF Sound, Fits, HangTogether, Present, Classified, Allocated
<1> DEFINE keys == <<<<"account", a>>>>
<1>4. keys \in Seq(Keyed) /\ <<"account", a>> \in Range(keys)
      /\ \A x : <<"import_delete", x>> \notin Range(keys)
  BY OneKey DEF Keyed
<1> HIDE DEF keys
<1>5. Covers(keys)
  BY <1>1, <1>2, <1>4, BookTypes DEF Covers
<1>6. /\ \A m \in Movements : Decided(books', m) => Decided(books, m)
      /\ \A m \in Movements : books'.allocated[m] > 0 => books.allocated[m] > 0
  BY <1>2 DEF Decided
<1>7. Command(Prior("account", {a}), keys)
  BY DEF SaveAccount, keys
<1> QED
  BY <1>3, <1>4, <1>5, <1>6, <1>7, EntryCommand

LEMMA ImportKeeps ==
    ASSUME NEW own, BooksInv(own), QueueInv, DecisionsInv, NEW a \in Accounts,
           NEW lines \in SUBSET Movements, NEW auto \in SUBSET Movements, ImportStatement(a, lines, auto)
    PROVE  TreasuryInv'
<1> DEFINE i == commands + 1
           new == {m \in lines : ~Present(books, m)}
           next == [own EXCEPT ![i] = a]
           keys == <<<<"import", i>>>>
<1>1. /\ own \in Owners /\ commands \in Nat /\ books \in Books
      /\ Sound(books, own, commands) /\ HangTogether(books)
  BY Given DEF Sound
<1>2. /\ i \in Imports /\ new \in SUBSET Movements /\ auto \in SUBSET new
      /\ \A m \in new : ~Present(books, m) /\ AccountOf[m] = a
      /\ books' = WithStatement(books, a, i, new, auto)
      /\ Command(<<>>, keys)
  BY <1>1, TreasuryAssumption DEF ImportStatement, Command, Imports, WithStatement
<1> HIDE DEF new, i, keys
<1> DEFINE c == WithStatement(books, a, i, new, auto)
<1> HIDE DEF next
<1>3. Sound(c, next, i) /\ HasStatement(c, books, a, i, new, auto)
  <2>1. /\ i = commands + 1 /\ next \in Owners
        /\ \A k \in Imports : next[k] = IF k = i THEN a ELSE own[k]
    BY <1>1, <1>2 DEF i, next, Owners
  <2> QED
    BY <1>1, <1>2, <2>1, ImportSound
<1> HIDE DEF c
<1>5. books' = c
  BY <1>2 DEF c
<1> USE DEF HasStatement
<1>4. keys \in Seq(Keyed) /\ <<"import", i>> \in Range(keys)
      /\ \A x : <<"import_delete", x>> \notin Range(keys)
  BY <1>2, OneKey DEF Keyed, keys
<1>6. Covers(keys)
  <2>1. \A m \in Movements : books'.movement[m] = books.movement[m] \/ books'.movement[m].import = i
    BY <1>3, <1>5
  <2>2. \A x \in Imports : books'.imports[x] = books.imports[x] \/ x = i
    BY <1>1, <1>2, <1>3, <1>5, BookTypes
  <2> QED
    <3>1. \A m \in Movements :
            \/ books'.movement[m] = books.movement[m]
            \/ <<"import", books'.movement[m].import>> \in Range(keys)
      BY <1>4, <2>1
    <3>2. \A x \in Imports : books'.imports[x] # NoRow =>
            books.imports[x] # NoRow \/ <<"import", x>> \in Range(keys)
      BY <1>4, <2>2
    <3>3. books'.active = books.active /\ books'.allocated = books.allocated
          /\ \A m \in Movements : books'.annotation[m] \in {books.annotation[m], ByRule}
      BY <1>3, <1>5
    <3>4. Classified(books') \subseteq Movements /\ Allocated(books') \subseteq Movements
      BY DEF Classified, Allocated
    <3> QED
      BY <1>4, <3>1, <3>2, <3>3, <3>4 DEF Covers
<1>7. \A m \in Movements : Decided(books', m) => Decided(books, m)
  BY <1>3, <1>5 DEF Decided, Blank, ByRule
<1>8. next \in Owners /\ \A x \in Imports : x <= commands => next[x] = own[x]
  BY <1>1, <1>2, TreasuryAssumption DEF Owners, i, Imports, next
<1>9. Sound(books', next, commands + 1) /\ Command(<<>>, keys)
  BY <1>2, <1>3, <1>5 DEF i
<1>10. \A m \in Movements : books'.allocated[m] > 0 => books.allocated[m] > 0
  BY <1>3, <1>5
<1> QED
  BY <1>3, <1>4, <1>6, <1>7, <1>8, <1>9, <1>10, BareCommand

LEMMA DeleteImportKeeps ==
    ASSUME NEW own, BooksInv(own), QueueInv, DecisionsInv, NEW i \in Imports, DeleteImport(i)
    PROVE  TreasuryInv'
<1> DEFINE keys == <<<<"import_delete", i>>>>
           S == Members(books, i)
           c == WithoutImport(books, i)
<1>1. own \in Owners /\ commands \in Nat /\ books \in Books /\ Sound(books, own, commands)
  BY Given
<1>2. Sound(c, own, commands) /\ LacksImport(c, books, i)
  BY <1>1, WithoutImportSound
<1> HIDE DEF c
<1> USE DEF LacksImport
<1>3. books' = c /\ books.imports[i] # NoRow /\ Command(Prior("import_delete", {i}), keys)
  BY DEF DeleteImport, c
<1>4. keys \in Seq(Keyed) /\ \A x : x \in Range(keys) <=> x = <<"import_delete", i>>
  BY OneKey DEF Keyed
<1> HIDE DEF keys
<1>5. Covers(keys)
  <2>1. \A m \in Movements : /\ Present(books', m) => books'.movement[m] = books.movement[m]
                             /\ books'.annotation[m] \in {NoRow, books.annotation[m]}
                             /\ books'.allocated[m] \in {0, books.allocated[m]}
    BY <1>2, <1>3 DEF Present
  <2>2. \A m \in Classified(books') : books'.annotation[m] = books.annotation[m]
    BY <2>1 DEF Classified
  <2>3. \A m \in Allocated(books') : books'.allocated[m] = books.allocated[m]
    BY <2>1 DEF Allocated
  <2>4. \A x \in Imports : /\ books'.imports[x] # NoRow => books.imports[x] # NoRow
                           /\ x = i => books'.imports[x] = NoRow
    BY <1>1, <1>2, <1>3, BookTypes
  <2>5. \A x \in Imports : <<"import_delete", x>> \in Range(keys) => x = i
    BY <1>4
  <2> QED
    BY <1>2, <1>3, <2>1, <2>2, <2>3, <2>4, <2>5 DEF Covers
<1>6. /\ \A m \in Movements : Decided(books', m) => Decided(books, m)
      /\ \A m \in Movements : books'.allocated[m] > 0 => books.allocated[m] > 0
  BY <1>2, <1>3 DEF Decided
<1> QED
  BY <1>2, <1>3, <1>4, <1>5, <1>6, EntryCommand

LEMMA CorrectKeeps ==
    ASSUME NEW own, BooksInv(own), QueueInv, DecisionsInv, NEW m \in Movements, NEW amount \in Amounts,
           CorrectTransaction(m, amount)
    PROVE  TreasuryInv'
<1> DEFINE row == [books.movement[m] EXCEPT !.amount = amount]
           keys == <<<<"movement", m>>>>
<1>1. /\ own \in Owners /\ commands \in Nat /\ books \in Books /\ Sound(books, own, commands)
      /\ Fits(books, own, commands) /\ HangTogether(books)
  BY Given DEF Sound
<1>2. books.movement[m] \in Movement /\ Present(books, m)
  BY <1>1, BookTypes DEF CorrectTransaction, Present
<1>3. row \in Movement /\ row.import = books.movement[m].import
  BY <1>2 DEF Movement
<1>4. books' = [books EXCEPT !.movement[m] = row]
  BY DEF CorrectTransaction
<1> HIDE DEF row
<1>5. books.imports[row.import] # NoRow /\ own[row.import] = AccountOf[m] /\ row.import <= commands
  BY <1>1, <1>2, <1>3, TreasuryAssumption DEF HangTogether, Fits
<1>6. /\ Sound(books', own, commands)
      /\ books'.active = books.active /\ books'.imports = books.imports
      /\ books'.annotation = books.annotation /\ books'.allocated = books.allocated
      /\ books'.movement = [books.movement EXCEPT ![m] = row]
  BY <1>1, <1>3, <1>4, <1>5, PutMovementSound
<1>7. keys \in Seq(Keyed) /\ \A x : x \in Range(keys) <=> x = <<"movement", m>>
  BY OneKey DEF Keyed
<1> HIDE DEF keys
<1>8. Covers(keys)
  <2>1. \A x \in Movements : books'.movement[x] = books.movement[x] \/ x = m
    BY <1>1, <1>6, BookTypes
  <2>2. \A x \in Imports : <<"import_delete", x>> \notin Range(keys)
    BY <1>7
  <2> QED
    BY <1>6, <1>7, <2>1, <2>2 DEF Covers, Classified, Allocated
<1>9. Command(Prior("movement", {m}), keys)
  BY DEF CorrectTransaction, keys
<1>10. /\ \A x \in Movements : Decided(books', x) => Decided(books, x)
       /\ \A x \in Movements : books'.allocated[x] > 0 => books.allocated[x] > 0
  BY <1>6 DEF Decided
<1> QED
  BY <1>2, <1>6, <1>7, <1>8, <1>9, <1>10, EntryCommand

\* Annotations are replaced and queued, with an entry or, where nothing is decided, without.
LEMMA AnnotationsKeep ==
    ASSUME NEW own, BooksInv(own), QueueInv, DecisionsInv,
           NEW S \in SUBSET Movements, \A m \in S : Present(books, m),
           NEW rows \in [S -> Annotation],
           books' = ReplaceAnnotations(books, rows),
           \/ Command(Prior("annotation", S), AnnotationKeys(S))
           \/ /\ Command(<<>>, AnnotationKeys(S))
              /\ \A m \in S : rows[m].kind = "expense" \/ rows[m].fiscal # "pending" => Decided(books, m)
    PROVE  TreasuryInv'
<1>1. own \in Owners /\ commands \in Nat /\ books \in Books /\ Sound(books, own, commands)
  BY Given
<1>2. Sound(books', own, commands) /\ HasAnnotations(books', books, S, rows)
  BY <1>1, AnnotationsSound
<1> USE DEF HasAnnotations
<1>3. /\ AnnotationKeys(S) \in Seq(Keyed) /\ \A m \in S : <<"annotation", m>> \in Range(AnnotationKeys(S))
      /\ \A x : <<"import_delete", x>> \notin Range(AnnotationKeys(S))
  BY KeysMade
<1>4. Covers(AnnotationKeys(S))
  <2>1. \A m \in Movements : books'.annotation[m] = books.annotation[m]
                             \/ <<"annotation", m>> \in Range(AnnotationKeys(S))
    BY <1>2, <1>3
  <2> QED
    BY <1>2, <1>3, <2>1 DEF Covers, Classified, Allocated
<1>5. /\ \A m \in Movements : Decided(books', m) => Decided(books, m) \/ m \in S
      /\ \A m \in Movements : books'.allocated[m] > 0 => books.allocated[m] > 0
  BY <1>2 DEF Decided
<1>6. CASE Command(Prior("annotation", S), AnnotationKeys(S))
  BY <1>2, <1>3, <1>4, <1>5, <1>6, EntryCommand
<1>7. CASE /\ Command(<<>>, AnnotationKeys(S))
           /\ \A m \in S : rows[m].kind = "expense" \/ rows[m].fiscal # "pending" => Decided(books, m)
  <2>1. \A m \in Movements : Decided(books', m) => Decided(books, m)
    BY <1>2, <1>7 DEF Decided
  <2>2. Sound(books', own, commands + 1)
    BY <1>2, Given
  <2> QED
    BY <1>1, <1>3, <1>4, <1>5, <1>7, <2>1, <2>2, BareCommand
<1> QED
  BY <1>6, <1>7

LEMMA RowsMade ==
    ASSUME NEW b \in Books, NEW m \in Movements
    PROVE  /\ Blank \in Annotation /\ AnnotationOf(b, m) \in Annotation
           /\ \A dgii \in BOOLEAN : Reclassified(b, m, "expense", dgii) \in Annotation
           /\ \A fiscal \in Fiscal : Reviewed(b, m, fiscal) \in Annotation
           /\ [AnnotationOf(b, m) EXCEPT !.kind = "transfer"] \in Annotation
           /\ AnnotationOf(b, m).dgii \in BOOLEAN
<1>1. Blank \in Annotation
  BY DEF Blank, Annotation, Kinds, Unset, Fiscal
<1>2. AnnotationOf(b, m) \in Annotation
  BY <1>1, BookTypes DEF AnnotationOf
<1> QED
  BY <1>1, <1>2 DEF Reclassified, Reviewed, Annotation, Kinds

LEMMA AnnotateKeeps ==
    ASSUME NEW own, BooksInv(own), QueueInv, DecisionsInv, NEW m \in Movements, NEW dgii \in BOOLEAN,
           AnnotateTransaction(m, dgii)
    PROVE  TreasuryInv'
<1> DEFINE rows == [x \in {m} |-> Reclassified(books, m, "expense", dgii)]
<1>1. rows \in [{m} -> Annotation]
  BY RowsMade, Given
<1>2. books' = ReplaceAnnotations(books, rows) /\ Present(books, m)
      /\ Command(Prior("annotation", {m}), AnnotationKeys({m}))
  BY DEF AnnotateTransaction
<1> HIDE DEF rows
<1> DEFINE S == {m}
<1>3. S \in SUBSET Movements /\ (\A x \in S : Present(books, x)) /\ rows \in [S -> Annotation]
      /\ Command(Prior("annotation", S), AnnotationKeys(S))
  BY <1>1, <1>2
<1> HIDE DEF S
<1> QED
  BY <1>2, <1>3, AnnotationsKeep

LEMMA ReviewKeeps ==
    ASSUME NEW own, BooksInv(own), QueueInv, DecisionsInv, NEW m \in Movements, NEW fiscal \in Verdicts,
           ReviewReimbursement(m, fiscal)
    PROVE  TreasuryInv'
<1> DEFINE rows == [x \in {m} |-> Reviewed(books, m, fiscal)]
<1>1. rows \in [{m} -> Annotation]
  BY RowsMade, Given, TreasuryAssumption DEF Fiscal
<1>2. books' = ReplaceAnnotations(books, rows) /\ Present(books, m)
      /\ Command(Prior("annotation", {m}), AnnotationKeys({m}))
  BY DEF ReviewReimbursement
<1> HIDE DEF rows
<1> DEFINE S == {m}
<1>3. S \in SUBSET Movements /\ (\A x \in S : Present(books, x)) /\ rows \in [S -> Annotation]
      /\ Command(Prior("annotation", S), AnnotationKeys(S))
  BY <1>1, <1>2
<1> HIDE DEF S
<1> QED
  BY <1>2, <1>3, AnnotationsKeep

LEMMA CardSettlementKeeps ==
    ASSUME NEW own, BooksInv(own), QueueInv, DecisionsInv, NEW m \in Movements, CreateCardSettlement(m)
    PROVE  TreasuryInv'
<1> DEFINE row == [AnnotationOf(books, m) EXCEPT !.kind = "transfer"]
           rows == [x \in {m} |-> row]
<1>1. rows \in [{m} -> Annotation] /\ row.kind = "transfer" /\ row.fiscal = AnnotationOf(books, m).fiscal
  BY RowsMade, Given DEF Annotation
<1>2. books' = ReplaceAnnotations(books, rows) /\ Present(books, m)
      /\ Command(<<>>, AnnotationKeys({m}))
  BY DEF CreateCardSettlement
<1>3. rows[m].kind = "expense" \/ rows[m].fiscal # "pending" => Decided(books, m)
  BY <1>1 DEF Decided, AnnotationOf, Blank
<1> HIDE DEF rows
<1> DEFINE S == {m}
<1>4. /\ S \in SUBSET Movements /\ (\A x \in S : Present(books, x)) /\ rows \in [S -> Annotation]
      /\ Command(<<>>, AnnotationKeys(S))
      /\ \A x \in S : rows[x].kind = "expense" \/ rows[x].fiscal # "pending" => Decided(books, x)
  BY <1>1, <1>2, <1>3
<1> HIDE DEF S
<1> QED
  BY <1>2, <1>4, AnnotationsKeep

LEMMA RuleKeeps ==
    ASSUME NEW own, BooksInv(own), QueueInv, DecisionsInv, NEW text, NEW dgii \in BOOLEAN,
           ApplyCounterpartyRule(text, dgii)
    PROVE  TreasuryInv'
<1> DEFINE S == {m \in Movements : Present(books, m) /\ TextOf[m] = text
                                   /\ AnnotationOf(books, m).kind = Unset}
           rows == [m \in S |-> Reclassified(books, m, "expense", dgii \/ AnnotationOf(books, m).dgii)]
<1>1. S \in SUBSET Movements /\ (\A m \in S : Present(books, m)) /\ rows \in [S -> Annotation]
  BY RowsMade, Given
<1>2. books' = ReplaceAnnotations(books, rows)
      /\ Command(IF S = {} THEN <<>> ELSE Prior("annotation", S), AnnotationKeys(S))
  BY DEF ApplyCounterpartyRule
<1> HIDE DEF S, rows
<1>3. \/ Command(Prior("annotation", S), AnnotationKeys(S))
      \/ /\ Command(<<>>, AnnotationKeys(S))
         /\ \A m \in S : rows[m].kind = "expense" \/ rows[m].fiscal # "pending" => Decided(books, m)
  BY <1>2
<1> QED
  BY <1>1, <1>2, <1>3, AnnotationsKeep

LEMMA AllocateKeeps ==
    ASSUME NEW own, BooksInv(own), QueueInv, DecisionsInv, NEW m \in Movements, NEW total \in Shares,
           SetAllocations(m, total)
    PROVE  TreasuryInv'
<1>1. /\ own \in Owners /\ commands \in Nat /\ books \in Books /\ Sound(books, own, commands)
      /\ books.allocated \in [Movements -> Nat]
  BY Given, BookTypes
<1>2. /\ books' = [books EXCEPT !.allocated[m] = total] /\ Present(books, m) /\ total \in Nat
      /\ Command(Prior("allocations", {m}), AllocationKeys({m}))
  BY TreasuryAssumption DEF SetAllocations
<1>3. /\ Sound(books', own, commands)
      /\ books'.active = books.active /\ books'.imports = books.imports /\ books'.movement = books.movement
      /\ books'.annotation = books.annotation /\ books'.allocated = [books.allocated EXCEPT ![m] = total]
  BY <1>1, <1>2, AllocatedSound
<1> DEFINE S == {m}
           keys == AllocationKeys(S)
<1>4. /\ keys \in Seq(Keyed) /\ <<"allocations", m>> \in Range(keys)
      /\ \A x : <<"import_delete", x>> \notin Range(keys)
  BY KeysMade
<1>5. Command(Prior("allocations", S), keys) /\ \E x \in Movements : S = {x}
  BY <1>2
<1> HIDE DEF keys
<1>6. \A x \in Movements : books'.allocated[x] = books.allocated[x] \/ x = m
  BY <1>1, <1>3
<1>7. Covers(keys)
  BY <1>3, <1>4, <1>6 DEF Covers, Classified, Allocated
<1>8. /\ \A x \in Movements : Decided(books', x) => Decided(books, x)
      /\ \A x \in Movements : books'.allocated[x] > 0 => books.allocated[x] > 0 \/ x \in S
  BY <1>3, <1>6 DEF Decided
<1> HIDE DEF S
<1> QED
  BY <1>3, <1>4, <1>5, <1>7, <1>8, EntryCommand

LEMMA UserCommandKeeps ==
    ASSUME TreasuryInv, UserCommand
    PROVE  TreasuryInv'
<1>1. PICK own : BooksInv(own)
  BY DEF TreasuryInv
<1>2. QueueInv /\ DecisionsInv
  BY DEF TreasuryInv
<1>3. ASSUME NEW a \in Accounts, UpsertBankAccount(a) PROVE TreasuryInv'
  BY <1>1, <1>2, <1>3, SaveAccountKeeps DEF UpsertBankAccount
<1>4. ASSUME NEW a \in Accounts, DeactivatePaymentInstrument(a) PROVE TreasuryInv'
  BY <1>1, <1>2, <1>4, SaveAccountKeeps DEF DeactivatePaymentInstrument
<1>5. ASSUME NEW a \in Accounts, NEW lines \in SUBSET Movements, NEW auto \in SUBSET Movements,
             ImportStatement(a, lines, auto)
      PROVE  TreasuryInv'
  BY <1>1, <1>2, <1>5, ImportKeeps
<1>6. ASSUME NEW i \in Imports, DeleteImport(i) PROVE TreasuryInv'
  BY <1>1, <1>2, <1>6, DeleteImportKeeps
<1>7. ASSUME NEW m \in Movements, NEW amount \in Amounts, CorrectTransaction(m, amount)
      PROVE  TreasuryInv'
  BY <1>1, <1>2, <1>7, CorrectKeeps
<1>8. ASSUME NEW m \in Movements, NEW dgii \in BOOLEAN, AnnotateTransaction(m, dgii) PROVE TreasuryInv'
  BY <1>1, <1>2, <1>8, AnnotateKeeps
<1>9. ASSUME NEW m \in Movements, NEW dgii \in BOOLEAN, ApplyCounterpartyRule(TextOf[m], dgii)
      PROVE  TreasuryInv'
  BY <1>1, <1>2, <1>9, RuleKeeps
<1>10. ASSUME NEW m \in Movements, NEW total \in Shares, SetAllocations(m, total) PROVE TreasuryInv'
  BY <1>1, <1>2, <1>10, AllocateKeeps
<1>11. ASSUME NEW m \in Movements, NEW fiscal \in Verdicts, ReviewReimbursement(m, fiscal)
       PROVE  TreasuryInv'
  BY <1>1, <1>2, <1>11, ReviewKeeps
<1>12. ASSUME NEW m \in Movements, CreateCardSettlement(m) PROVE TreasuryInv'
  BY <1>1, <1>2, <1>12, CardSettlementKeeps
<1> QED
  BY <1>3, <1>4, <1>5, <1>6, <1>7, <1>8, <1>9, <1>10, <1>11, <1>12 DEF UserCommand

-------------------------------------------------------------------------------
(* Undo                                                                    *)

LEMMA Remaining ==
    ASSUME NEW own, BooksInv(own), DecisionsInv, journal # <<>>, NEW m \in Movements
    PROVE  /\ Decided(books, m) =>
                Listed(journal, "annotation", m, Len(journal)) \/ (Entry.table = "annotation" /\ m \in Entry.of)
           /\ books.allocated[m] > 0 =>
                Listed(journal, "allocations", m, Len(journal)) \/ (Entry.table = "allocations" /\ m \in Entry.of)
           /\ Decided(Entry.rows, m) => Listed(journal, "annotation", m, Len(journal))
           /\ Entry.rows.allocated[m] > 0 => Listed(journal, "allocations", m, Len(journal))
<1>1. /\ Len(journal) \in DOMAIN journal /\ Entry = journal[Len(journal)] /\ Len(journal) \in Nat
      /\ DOMAIN journal = 1..Len(journal)
  BY Newest
<1>2. \A table : Listed(journal, table, m, Len(journal) + 1) =>
        Listed(journal, table, m, Len(journal)) \/ (Entry.table = table /\ m \in Entry.of)
  <2> SUFFICES ASSUME NEW table, Listed(journal, table, m, Len(journal) + 1)
               PROVE  Listed(journal, table, m, Len(journal)) \/ (Entry.table = table /\ m \in Entry.of)
    OBVIOUS
  <2>1. PICK k \in DOMAIN journal : k < Len(journal) + 1 /\ journal[k].table = table /\ m \in journal[k].of
    BY DEF Listed
  <2>2. k < Len(journal) \/ k = Len(journal)
    BY <1>1, <2>1
  <2> QED
    BY <1>1, <2>1, <2>2 DEF Listed
<1> QED
  BY <1>1, <1>2 DEF DecisionsInv

LEMMA UndoAnnotationsKeeps ==
    ASSUME NEW own, BooksInv(own), QueueInv, DecisionsInv, UndoAnnotations
    PROVE  TreasuryInv'
<1> DEFINE S == Entry.of
           rows == [m \in S |-> AnnotationOf(Entry.rows, m)]
           keys == AnnotationKeys(S)
<1>1. /\ own \in Owners /\ commands \in Nat /\ books \in Books /\ Sound(books, own, commands)
  BY Given
<1>2. /\ journal # <<>> /\ Entry.table = "annotation" /\ Entered(Entry, own, commands)
      /\ S \in SUBSET Movements /\ \A m \in S : Present(books, m)
  BY Newest DEF UndoAnnotations, NewestIs, Entered, HasMovement
<1>3. rows \in [S -> Annotation]
  BY <1>2, RowsMade DEF Entered, Fits
<1>4. Undo(ReplaceAnnotations(books, rows), keys)
  BY DEF UndoAnnotations, RestorePriors
<1>5. books' = ReplaceAnnotations(books, rows)
  BY <1>4 DEF Undo
<1>6. \A m \in S : rows[m] = IF Entry.rows.annotation[m] = NoRow THEN Blank ELSE Entry.rows.annotation[m]
  BY DEF AnnotationOf
<1> HIDE DEF S, rows
<1>7. Sound(books', own, commands) /\ HasAnnotations(books', books, S, rows)
  BY <1>1, <1>2, <1>3, <1>5, AnnotationsSound
<1> USE DEF HasAnnotations
<1>8. /\ keys \in Seq(Keyed) /\ \A m \in S : <<"annotation", m>> \in Range(keys)
      /\ \A x : <<"import_delete", x>> \notin Range(keys)
  BY <1>2, KeysMade
<1> HIDE DEF keys
<1>9. Covers(keys)
  <2>1. \A m \in Movements : books'.annotation[m] = books.annotation[m] \/ <<"annotation", m>> \in Range(keys)
    BY <1>7, <1>8
  <2> QED
    BY <1>7, <1>8, <2>1 DEF Covers, Classified, Allocated
<1>10. Uncovered
  <2>1. ASSUME NEW m \in Movements, Decided(books', m)
        PROVE  Listed(journal, "annotation", m, Len(journal))
    <3>1. CASE m \in S
      <4>1. Decided(Entry.rows, m)
        BY <1>6, <1>7, <2>1, <3>1 DEF Decided, Blank, Unset
      <4> QED
        BY <1>2, <4>1, Remaining
    <3>2. CASE m \notin S
      <4>1. Decided(books, m)
        BY <1>7, <2>1, <3>2 DEF Decided
      <4> QED
        BY <1>2, <3>2, <4>1, Remaining DEF S
    <3> QED
      BY <3>1, <3>2
  <2>2. \A m \in Movements : books'.allocated[m] > 0 => Listed(journal, "allocations", m, Len(journal))
    BY <1>2, <1>7, Remaining
  <2> QED
    BY <2>1, <2>2 DEF Uncovered
<1> QED
  BY <1>2, <1>4, <1>7, <1>8, <1>9, <1>10, UndoKeeps

LEMMA UndoAllocationsKeeps ==
    ASSUME NEW own, BooksInv(own), QueueInv, DecisionsInv, UndoAllocations
    PROVE  TreasuryInv'
<1>1. /\ own \in Owners /\ commands \in Nat /\ books \in Books /\ Sound(books, own, commands)
      /\ books.allocated \in [Movements -> Nat]
  BY Given, BookTypes
<1>2. /\ journal # <<>> /\ Entry.table = "allocations" /\ Entered(Entry, own, commands)
      /\ Entry.rows.allocated \in [Movements -> Nat]
  BY Newest, BookTypes DEF UndoAllocations, NewestIs, Entered, Fits
<1>3. PICK m \in Entry.of :
        /\ Entry.rows.allocated[m] > 0 => HasMovement({m})
        /\ Undo([books EXCEPT !.allocated[m] = Entry.rows.allocated[m]], AllocationKeys({m}))
  BY DEF UndoAllocations
<1>4. m \in Movements /\ Entry.of = {m}
  BY <1>2, <1>3 DEF Entered
<1> DEFINE keys == AllocationKeys({m})
           total == Entry.rows.allocated[m]
<1>5. /\ total \in Nat /\ (total > 0 => Present(books, m))
      /\ Undo([books EXCEPT !.allocated[m] = total], keys)
  BY <1>2, <1>3, <1>4 DEF HasMovement
<1>6. books' = [books EXCEPT !.allocated[m] = total]
  BY <1>5 DEF Undo
<1> HIDE DEF total
<1>7. /\ Sound(books', own, commands)
      /\ books'.active = books.active /\ books'.imports = books.imports /\ books'.movement = books.movement
      /\ books'.annotation = books.annotation /\ books'.allocated = [books.allocated EXCEPT ![m] = total]
  BY <1>1, <1>4, <1>5, <1>6, AllocatedSound
<1>8. /\ keys \in Seq(Keyed) /\ <<"allocations", m>> \in Range(keys)
      /\ \A x : <<"import_delete", x>> \notin Range(keys)
  BY <1>4, KeysMade
<1> HIDE DEF keys
<1>9. \A x \in Movements : books'.allocated[x] = IF x = m THEN total ELSE books.allocated[x]
  BY <1>1, <1>4, <1>7
<1>10. Covers(keys)
  <2>1. \A x \in Movements : books'.allocated[x] = books.allocated[x] \/ <<"allocations", x>> \in Range(keys)
    BY <1>8, <1>9
  <2> QED
    BY <1>7, <1>8, <2>1 DEF Covers, Classified, Allocated
<1>11. Uncovered
  <2>1. ASSUME NEW x \in Movements, books'.allocated[x] > 0
        PROVE  Listed(journal, "allocations", x, Len(journal))
    <3>1. CASE x = m
      BY <1>2, <1>9, <2>1, <3>1, Remaining DEF total
    <3>2. CASE x # m
      BY <1>2, <1>4, <1>9, <2>1, <3>2, Remaining
    <3> QED
      BY <3>1, <3>2
  <2>2. ASSUME NEW x \in Movements, Decided(books', x)
        PROVE  Listed(journal, "annotation", x, Len(journal))
    <3>1. Decided(books, x)
      BY <1>7, <2>2 DEF Decided
    <3> QED
      BY <1>2, <3>1, Remaining
  <2> QED
    BY <2>1, <2>2 DEF Uncovered
<1> QED
  BY <1>2, <1>5, <1>7, <1>8, <1>10, <1>11, UndoKeeps

LEMMA UndoCorrectionKeeps ==
    ASSUME NEW own, BooksInv(own), QueueInv, DecisionsInv, UndoCorrection
    PROVE  TreasuryInv'
<1>1. own \in Owners /\ commands \in Nat /\ books \in Books /\ Sound(books, own, commands)
  BY Given
<1>2. journal # <<>> /\ Entry.table = "movement" /\ Entered(Entry, own, commands)
      /\ Fits(Entry.rows, own, commands)
  BY Newest DEF UndoCorrection, NewestIs, Entered
<1>3. PICK m \in Entry.of :
        /\ books.imports[Entry.rows.movement[m].import] # NoRow
        /\ Undo(ReplaceMovement(books, m, Entry.rows.movement[m]), <<<<"movement", m>>>>)
  BY DEF UndoCorrection
<1> DEFINE row == Entry.rows.movement[m]
           keys == <<<<"movement", m>>>>
           restored == ReplaceMovement(books, m, row)
<1>4. m \in Movements /\ Present(Entry.rows, m) /\ Entry.rows \in Books
  BY <1>2, <1>3 DEF Entered, Fits
<1>5. /\ row \in Movement /\ books.imports[row.import] # NoRow
      /\ own[row.import] = AccountOf[m] /\ row.import <= commands
  BY <1>2, <1>3, <1>4, BookTypes DEF Fits, Present
<1>6. books' = restored /\ Undo(restored, keys)
  BY <1>3 DEF Undo
<1>7. keys \in Seq(Keyed) /\ \A x : x \in Range(keys) <=> x = <<"movement", m>>
  BY <1>4, OneKey DEF Keyed
<1> HIDE DEF row, keys
<1>8. /\ Sound(restored, own, commands)
      /\ restored.active = books.active /\ restored.imports = books.imports
      /\ \A k \in Movements :
            /\ restored.movement[k] = IF k = m THEN row ELSE books.movement[k]
            /\ restored.annotation[k] = IF k = m THEN NoRow ELSE books.annotation[k]
            /\ restored.allocated[k] = IF k = m THEN 0 ELSE books.allocated[k]
  BY <1>1, <1>4, <1>5, ReplaceMovementSound
<1> HIDE DEF restored
<1>9. \A k \in Movements :
        /\ books'.movement[k] = books.movement[k] \/ k = m
        /\ books'.annotation[k] \in {NoRow, books.annotation[k]}
        /\ books'.allocated[k] \in {0, books.allocated[k]}
  BY <1>6, <1>8
<1>10. Covers(keys)
  <2>1. \A x : <<"import_delete", x>> \notin Range(keys)
    BY <1>7
  <2>2. \A k \in Classified(books') : k \in Movements /\ books'.annotation[k] = books.annotation[k]
    BY <1>9 DEF Classified
  <2>3. \A k \in Allocated(books') : k \in Movements /\ books'.allocated[k] = books.allocated[k]
    BY <1>9 DEF Allocated
  <2>4. <<"movement", m>> \in Range(keys)
    BY <1>7
  <2> QED
    BY <1>6, <1>8, <1>9, <2>1, <2>2, <2>3, <2>4 DEF Covers
<1>11. Uncovered
  <2>1. \A k \in Movements : /\ Decided(books', k) => Decided(books, k)
                             /\ books'.allocated[k] > 0 => books.allocated[k] > 0
    BY <1>9 DEF Decided
  <2> QED
    BY <1>2, <2>1, Remaining DEF Uncovered
<1>12. Sound(books', own, commands)
  BY <1>6, <1>8
<1> QED
  BY <1>2, <1>6, <1>7, <1>10, <1>11, <1>12, UndoKeeps

LEMMA UndoAccountKeeps ==
    ASSUME NEW own, BooksInv(own), QueueInv, DecisionsInv, UndoAccount
    PROVE  TreasuryInv'
<1>1. own \in Owners /\ commands \in Nat /\ books \in Books /\ Sound(books, own, commands)
  BY Given
<1>2. journal # <<>> /\ Entry.table = "account" /\ Entered(Entry, own, commands)
      /\ Fits(Entry.rows, own, commands)
  BY Newest DEF UndoAccount, NewestIs, Entered
<1>3. PICK a \in Entry.of :
        Undo(ReplaceAccount(books, a, Entry.rows.active[a]), <<<<"account", a>>>>)
  BY DEF UndoAccount
<1> DEFINE active == Entry.rows.active[a]
           keys == <<<<"account", a>>>>
           restored == ReplaceAccount(books, a, active)
<1>4. a \in Accounts /\ active \in BOOLEAN
  BY <1>2, <1>3, BookTypes DEF Entered, Fits
<1>5. books' = restored /\ Undo(restored, keys)
  BY <1>3 DEF Undo
<1>6. keys \in Seq(Keyed) /\ \A x : x \in Range(keys) <=> x = <<"account", a>>
  BY <1>4, OneKey DEF Keyed
<1> HIDE DEF active, keys
<1>7. /\ Sound(restored, own, commands)
      /\ restored.active = [books.active EXCEPT ![a] = active]
      /\ \A i \in Imports : restored.imports[i] \in {NoRow, books.imports[i]}
      /\ \A m \in Movements :
            /\ restored.movement[m] \in {NoRow, books.movement[m]}
            /\ restored.annotation[m] \in {NoRow, books.annotation[m]}
            /\ restored.allocated[m] \in {0, books.allocated[m]}
  BY <1>1, <1>4, ReplaceAccountSound
<1> HIDE DEF restored
<1>8. Covers(keys)
  <2>1. \A x : <<"import_delete", x>> \notin Range(keys)
    BY <1>6
  <2>2. \A k \in Classified(books') : k \in Movements /\ books'.annotation[k] = books.annotation[k]
    BY <1>5, <1>7 DEF Classified
  <2>3. \A k \in Allocated(books') : k \in Movements /\ books'.allocated[k] = books.allocated[k]
    BY <1>5, <1>7 DEF Allocated
  <2>4. \A k \in Accounts : books'.active[k] = books.active[k] \/ <<"account", k>> \in Range(keys)
    BY <1>1, <1>5, <1>6, <1>7, BookTypes
  <2>5. \A m \in Movements : Present(books', m) => books'.movement[m] = books.movement[m]
    BY <1>5, <1>7 DEF Present
  <2>6. \A i \in Imports : books'.imports[i] # NoRow => books.imports[i] # NoRow
    BY <1>5, <1>7
  <2> QED
    BY <2>1, <2>2, <2>3, <2>4, <2>5, <2>6 DEF Covers
<1>9. Uncovered
  <2>1. \A k \in Movements : /\ Decided(books', k) => Decided(books, k)
                             /\ books'.allocated[k] > 0 => books.allocated[k] > 0
    BY <1>5, <1>7 DEF Decided
  <2> QED
    BY <1>2, <2>1, Remaining DEF Uncovered
<1>10. Sound(books', own, commands)
  BY <1>5, <1>7
<1> QED
  BY <1>2, <1>5, <1>6, <1>8, <1>9, <1>10, UndoKeeps

\* What is queued when the deletion of an import is taken back.
LEMMA RestoredKeys ==
    ASSUME NEW i \in Imports, NEW A \in SUBSET Movements, NEW L \in SUBSET Movements
    PROVE  LET keys == <<<<"import", i>>>> \o AnnotationKeys(A) \o AllocationKeys(L) IN
           /\ keys \in Seq(Keyed) /\ <<"import", i>> \in Range(keys)
           /\ \A m \in A : <<"annotation", m>> \in Range(keys)
           /\ \A m \in L : <<"allocations", m>> \in Range(keys)
           /\ \A x : <<"import_delete", x>> \notin Range(keys)
<1> DEFINE keys == <<<<"import", i>>>> \o AnnotationKeys(A) \o AllocationKeys(L)
           s == <<<<"import", i>>>>
           t == AnnotationKeys(A)
           u == AllocationKeys(L)
<1>1. /\ s \in Seq(Keyed) /\ \A x : x \in Range(s) <=> x = <<"import", i>>
  BY OneKey DEF Keyed
<1>2. /\ t \in Seq(Keyed) /\ \A m \in A : <<"annotation", m>> \in Range(t)
      /\ \A x : <<"import_delete", x>> \notin Range(t)
  BY KeysMade
<1>3. /\ u \in Seq(Keyed) /\ \A m \in L : <<"allocations", m>> \in Range(u)
      /\ \A x : <<"import_delete", x>> \notin Range(u)
  BY KeysMade
<1> HIDE DEF keys, s, t, u
<1>4. s \o t \in Seq(Keyed) /\ Range(s \o t) = Range(s) \cup Range(t)
  BY <1>1, <1>2, Joined, RangeConcatenation
<1>5. (s \o t) \o u \in Seq(Keyed) /\ Range((s \o t) \o u) = Range(s \o t) \cup Range(u)
  <2> DEFINE r == s \o t
  <2>1. r \in Seq(Keyed)
    BY <1>4
  <2> HIDE DEF r
  <2>2. r \o u \in Seq(Keyed) /\ Range(r \o u) = Range(r) \cup Range(u)
    BY <1>3, <2>1, Joined, RangeConcatenation
  <2> QED
    BY <2>2 DEF r
<1>6. keys = (s \o t) \o u
  BY DEF keys, s, t, u
<1>7. \A x : <<"import_delete", x>> \notin Range(s)
  BY <1>1
<1> QED
  BY <1>1, <1>2, <1>3, <1>4, <1>5, <1>6, <1>7 DEF keys

LEMMA UndoDeleteKeeps ==
    ASSUME NEW own, BooksInv(own), QueueInv, DecisionsInv, UndoDelete
    PROVE  TreasuryInv'
<1> DEFINE before == Entry.rows
<1>1. own \in Owners /\ commands \in Nat /\ books \in Books /\ Sound(books, own, commands)
  BY Given
<1>2. journal # <<>> /\ Entry.table = "import_delete" /\ Entered(Entry, own, commands)
      /\ Sound(before, own, commands) /\ before \in Books
  BY Newest DEF UndoDelete, NewestIs, Entered, Sound, Fits
<1>3. PICK i \in Entry.of :
        Undo(Restored(books, before, i),
             <<<<"import", i>>>> \o AnnotationKeys(Members(before, i) \cap Classified(before))
                                 \o AllocationKeys(Members(before, i) \cap Allocated(before)))
  BY DEF UndoDelete, Restored
<1> DEFINE S == Members(before, i)
           A == S \cap Classified(before)
           L == S \cap Allocated(before)
           keys == <<<<"import", i>>>> \o AnnotationKeys(A) \o AllocationKeys(L)
           restored == Restored(books, before, i)
<1>4. i \in Imports /\ before.imports[i] # NoRow
  BY <1>2, <1>3 DEF Entered
<1>5. books' = restored /\ Undo(restored, keys)
  BY <1>3 DEF Undo
<1>6. S \in SUBSET Movements /\ A \in SUBSET Movements /\ L \in SUBSET Movements
      /\ \A m \in S : Present(before, m) /\ before.movement[m].import = i
  BY DEF Members
<1>7. /\ Sound(restored, own, commands) /\ HasRestored(restored, books, before, i)
  BY <1>1, <1>2, <1>4, RestoredSound
<1> HIDE DEF restored, before, S, A, L
<1>8. /\ keys \in Seq(Keyed) /\ <<"import", i>> \in Range(keys)
      /\ \A m \in A : <<"annotation", m>> \in Range(keys)
      /\ \A m \in L : <<"allocations", m>> \in Range(keys)
      /\ \A x : <<"import_delete", x>> \notin Range(keys)
  BY <1>4, <1>6, RestoredKeys
<1> HIDE DEF keys
<1>9. Covers(keys)
  <2>1. books'.active = books.active
    BY <1>5, <1>7 DEF HasRestored
  <2>2. \A m \in Movements : \/ books'.movement[m] = books.movement[m]
                             \/ <<"import", books'.movement[m].import>> \in Range(keys)
    BY <1>5, <1>6, <1>7, <1>8 DEF HasRestored, S
  <2>3. \A m \in Movements : books'.annotation[m] = books.annotation[m] \/ books'.annotation[m] = NoRow
                             \/ <<"annotation", m>> \in Range(keys)
    BY <1>5, <1>7, <1>8 DEF HasRestored, S, A, Classified
  <2>4. \A m \in Movements : books'.allocated[m] = books.allocated[m] \/ ~(books'.allocated[m] > 0)
                             \/ <<"allocations", m>> \in Range(keys)
    BY <1>5, <1>7, <1>8 DEF HasRestored, S, L, Allocated
  <2>5. \A x \in Imports : books'.imports[x] = books.imports[x] \/ x = i
    BY <1>5, <1>7 DEF HasRestored
  <2> QED
    BY <1>8, <2>1, <2>2, <2>3, <2>4, <2>5 DEF Covers, Classified, Allocated
<1>10. Uncovered
  <2>1. \A m \in Movements : /\ Decided(books', m) => Decided(books, m) \/ Decided(before, m)
                             /\ books'.allocated[m] > 0 => books.allocated[m] > 0 \/ before.allocated[m] > 0
    BY <1>5, <1>7 DEF HasRestored, Decided
  <2> QED
    BY <1>2, <2>1, Remaining DEF Uncovered, before
<1>11. Sound(books', own, commands)
  BY <1>5, <1>7
<1> QED
  BY <1>2, <1>5, <1>8, <1>9, <1>10, <1>11, UndoKeeps

LEMMA UndoLastActionKeeps ==
    ASSUME TreasuryInv, UndoLastAction
    PROVE  TreasuryInv'
BY UndoAnnotationsKeeps, UndoAllocationsKeeps, UndoCorrectionKeeps, UndoAccountKeeps, UndoDeleteKeeps
   DEF TreasuryInv, UndoLastAction

-------------------------------------------------------------------------------
(* The worker                                                              *)

\* The rows r read from the tables b for a key hold what it names.
Reads(r, b, key) ==
    /\ key[1] = "account" => r.active[key[2]] = b.active[key[2]]
    /\ key[1] = "movement" => r.movement[key[2]] = b.movement[key[2]]
    /\ key[1] = "annotation" => r.annotation[key[2]] = b.annotation[key[2]]
    /\ key[1] = "allocations" => r.allocated[key[2]] = b.allocated[key[2]]
    /\ key[1] = "import" => \A m \in Movements :
            r.movement[m] = IF m \in Members(b, key[2]) THEN b.movement[m] ELSE NoRow

LEMMA RowsRead ==
    ASSUME NEW own \in Owners, NEW n \in Nat, NEW b, Sound(b, own, n), NEW key \in Keyed,
           NEW T, T = {key[2]}
    PROVE  LET r == RowsOf(b, key[1], T) IN
           Fits(r, own, n) /\ (key[1] = "import" => HangTogether(r)) /\ Reads(r, b, key)
<1> DEFINE table == key[1]
           x == key[2]
           r == RowsOf(b, table, T)
<1>1. Fits(b, own, n) /\ HangTogether(b)
  BY DEF Sound
<1>2. CASE table = "account"
  <2>1. x \in Accounts /\ r = RowsOf(b, "account", T)
    BY <1>2, KeyedParts
  <2> HIDE DEF x, r
  <2>2. T = {x}
    BY DEF x
  <2>3. Fits(r, own, n) /\ r.active[x] = b.active[x]
    BY <1>1, <2>1, <2>2, AccountRows
  <2> QED
    BY <1>2, <2>3 DEF Reads, r, x
<1>3. CASE table \in {"import", "import_delete"}
  <2>1. x \in Imports /\ T = {x}
    BY <1>3, KeyedParts
  <2> HIDE DEF x, r, table
  <2>2. r = RowsOf(b, table, T)
    BY DEF r
  <2>3. /\ Fits(r, own, n) /\ HangTogether(r)
        /\ \A m \in Movements : r.movement[m] = IF m \in Members(b, x) THEN b.movement[m] ELSE NoRow
    BY <1>1, <1>3, <2>1, <2>2, ImportRows
  <2> QED
    BY <1>3, <2>3 DEF Reads, r, x, table
<1>4. CASE table \in {"movement", "annotation", "allocations"}
  <2>1. x \in Movements /\ T \in SUBSET Movements /\ x \in T
    BY <1>4, KeyedParts
  <2> HIDE DEF x, r, table
  <2>2. r = RowsOf(b, table, T)
    BY DEF r
  <2>3. /\ Fits(r, own, n)
        /\ \A m \in Movements :
             /\ r.movement[m] = IF table = "movement" /\ m \in T THEN b.movement[m] ELSE NoRow
             /\ r.annotation[m] = IF table = "annotation" /\ m \in T THEN b.annotation[m] ELSE NoRow
             /\ r.allocated[m] = IF table = "allocations" /\ m \in T THEN b.allocated[m] ELSE 0
    BY <1>1, <1>4, <2>1, <2>2, ColumnRows
  <2> QED
    BY <1>4, <2>1, <2>3 DEF Reads, r, x, table
<1>5. table \in {"account", "import", "import_delete", "movement", "annotation", "allocations"}
  BY KeyedParts
<1> QED
  BY <1>2, <1>3, <1>4, <1>5

LEMMA StartPushKeeps ==
    ASSUME NEW own, BooksInv(own), QueueInv, DecisionsInv, StartPush
    PROVE  TreasuryInv'
<1> DEFINE key == Head(outbox)
           r == RowsOf(books, key[1], {key[2]})
<1>1. /\ own \in Owners /\ commands \in Nat /\ books \in Books /\ Sound(books, own, commands)
      /\ outbox \in Seq(Keyed) /\ outbox # <<>>
  BY Given DEF StartPush
<1>2. /\ key \in Keyed /\ outbox' = Tail(outbox) /\ Tail(outbox) \in Seq(Keyed)
      /\ DOMAIN outbox = 1..Len(outbox) /\ DOMAIN outbox' = 1..Len(outbox) - 1 /\ Len(outbox) \in Nat
      /\ outbox[1] = key /\ \A k \in DOMAIN outbox' : outbox'[k] = outbox[k + 1]
  BY <1>1, HeadTailProperties, LenProperties DEF StartPush
<1>3. /\ sending' = [key |-> key, rows |-> r]
      /\ UNCHANGED <<books, cloud, journal, commands, faults, resent>>
  BY DEF StartPush
<1>4. sending'.key = key /\ sending'.rows = r /\ sending.key = <<>>
  BY <1>3 DEF StartPush, Idle
<1>5. Fits(r, own, commands) /\ (key[1] = "import" => HangTogether(r)) /\ Reads(r, books, key)
  <2> DEFINE T == {key[2]}
  <2>1. T = {key[2]}
    OBVIOUS
  <2> HIDE DEF T, key
  <2> DEFINE q == RowsOf(books, key[1], T)
  <2>2. Fits(q, own, commands) /\ (key[1] = "import" => HangTogether(q)) /\ Reads(q, books, key)
    BY <1>1, <1>2, <2>1, RowsRead
  <2> QED
    BY <2>2 DEF T
<1> HIDE DEF r
<1>6. BooksInv(own)'
  BY <1>2, <1>3, <1>4, <1>5 DEF BooksInv, InHand
<1>7. key = <<key[1], key[2]>>
  BY <1>2, KeyedParts
<1> HIDE DEF key
<1>8. \A table, x : Waits(table, x) => Waits(table, x)' \/ key = <<table, x>>
  <2> SUFFICES ASSUME NEW table, NEW x, Waits(table, x), key # <<table, x>>
               PROVE  Waits(table, x)'
    OBVIOUS
  <2>1. PICK k \in DOMAIN outbox : outbox[k] = <<table, x>>
    BY DEF Waits, Range
  <2>2. k \in Nat /\ k # 1 /\ 1 <= k /\ k <= Len(outbox)
    <3>1. k # 1
      BY <1>2, <2>1
    <3>2. k \in 1..Len(outbox) /\ Len(outbox) \in Nat
      BY <1>2, <2>1
    <3> QED
      BY <3>1, <3>2
  <2>3. k - 1 \in DOMAIN outbox' /\ (k - 1) + 1 = k
    BY <1>2, <2>2
  <2>4. outbox'[k - 1] = outbox[k]
    BY <1>2, <2>3
  <2> QED
    BY <2>1, <2>3, <2>4 DEF Waits, Range
<1>9. \A table, x : ~InFlight(table, x) /\ (InFlight(table, x)' <=> key = <<table, x>>)
  BY <1>4 DEF InFlight
<1>10. DeletionsInv'
  <2>1. ASSUME NEW x \in Imports \ resent, NEW k \in DOMAIN outbox',
               outbox'[k] = <<"import_delete", x>>, books.imports[x] # NoRow
        PROVE  \E j \in DOMAIN outbox' : j > k /\ outbox'[j] = <<"import", x>>
    <3>1. k + 1 \in DOMAIN outbox /\ outbox[k + 1] = <<"import_delete", x>>
      BY <1>2, <2>1
    <3>2. PICK j \in DOMAIN outbox : j > k + 1 /\ outbox[j] = <<"import", x>>
      BY <2>1, <3>1 DEF QueueInv, DeletionsInv
    <3>3. j - 1 \in DOMAIN outbox' /\ outbox'[j - 1] = outbox[j] /\ j - 1 > k
      BY <1>2, <3>2
    <3> QED
      BY <3>2, <3>3
  <2>2. ASSUME NEW x \in Imports \ resent, key = <<"import_delete", x>>, books.imports[x] # NoRow
        PROVE  Waits("import", x)'
    <3>1. 1 \in DOMAIN outbox /\ outbox[1] = <<"import_delete", x>>
      BY <1>1, <1>2, <2>2, EmptySeq, LenProperties
    <3>2. PICK j \in DOMAIN outbox : j > 1 /\ outbox[j] = <<"import", x>>
      BY <2>2, <3>1 DEF QueueInv, DeletionsInv
    <3>3. j - 1 \in DOMAIN outbox' /\ outbox'[j - 1] = outbox[j]
      BY <1>2, <3>2
    <3> QED
      BY <3>2, <3>3 DEF Waits, Range
  <2> QED
    BY <1>3, <1>9, <2>1, <2>2 DEF DeletionsInv
<1>11. FlightInv'
  <2>1. \A a \in Accounts : key = <<"account", a>> => r.active[a] = books.active[a]
    BY <1>5 DEF Reads
  <2>2. ASSUME NEW m \in Movements, Writes(m)'
        PROVE  r.movement[m] = books.movement[m]
    <3>1. CASE key = <<"movement", m>>
      BY <1>5, <3>1 DEF Reads
    <3>2. CASE key[1] = "import" /\ m \in Members(r, key[2])
      BY <1>5, <3>2 DEF Reads, Members, Present
    <3> QED
      BY <1>4, <2>2, <3>1, <3>2 DEF Writes
  <2>3. \A m \in Movements : key = <<"annotation", m>> => r.annotation[m] = books.annotation[m]
    BY <1>5 DEF Reads
  <2>4. \A m \in Movements : key = <<"allocations", m>> => r.allocated[m] = books.allocated[m]
    BY <1>5 DEF Reads
  <2> QED
    BY <1>3, <1>4, <1>9, <2>1, <2>2, <2>3, <2>4 DEF FlightInv, Classified, Allocated, Present
<1>12. ChangesAreQueued'
  <2>1. AccountsAreQueued'
    <3> SUFFICES ASSUME NEW a \in Accounts
                 PROVE  \/ books.active[a] = cloud.active[a] \/ Waits("account", a)'
                        \/ key = <<"account", a>> /\ r.active[a] = books.active[a]
      BY <1>3, <1>4, <1>9 DEF AccountsAreQueued
    <3> QED
      BY <1>5, <1>8, <1>9 DEF QueueInv, ChangesAreQueued, AccountsAreQueued, Reads
  <2>2. MovementsAreQueued'
    <3> SUFFICES ASSUME NEW m \in Movements, Present(books, m)
                 PROVE  \/ books.movement[m] = cloud.movement[m]
                        \/ Waits("movement", m)' \/ Waits("import", books.movement[m].import)'
                        \/ /\ key = <<"movement", m>> \/ key = <<"import", books.movement[m].import>>
                           /\ r.movement[m] = books.movement[m]
                        \/ books.movement[m].import \in resent /\ ~Present(cloud, m)
      BY <1>3, <1>4, <1>9 DEF MovementsAreQueued, Present, Waits, InFlight
    <3>1. \/ books.movement[m] = cloud.movement[m]
          \/ Waits("movement", m) \/ Waits("import", books.movement[m].import)
          \/ books.movement[m].import \in resent /\ ~Present(cloud, m)
      BY <1>9 DEF QueueInv, ChangesAreQueued, MovementsAreQueued
    <3>2. key = <<"import", books.movement[m].import>> => r.movement[m] = books.movement[m]
      BY <1>5 DEF Reads, Members
    <3>3. key = <<"movement", m>> => r.movement[m] = books.movement[m]
      BY <1>5 DEF Reads
    <3>4. /\ Waits("movement", m) => Waits("movement", m)' \/ key = <<"movement", m>>
          /\ Waits("import", books.movement[m].import) =>
                Waits("import", books.movement[m].import)' \/ key = <<"import", books.movement[m].import>>
      <4>1. Waits("movement", m) => Waits("movement", m)' \/ key = <<"movement", m>>
        BY <1>8
      <4> DEFINE i == books.movement[m].import
      <4>2. UNCHANGED i
        BY <1>3
      <4>3. \A x : Waits("import", x) => Waits("import", x)' \/ key = <<"import", x>>
        BY <1>8
      <4> HIDE DEF i
      <4>4. Waits("import", i) => (<<"import", i>> \in Range(outbox')) \/ key = <<"import", i>>
        BY <4>3 DEF Waits
      <4> QED
        BY <4>1, <4>2, <4>4 DEF i, Waits
    <3> QED
      BY <3>1, <3>2, <3>3, <3>4
  <2>3. DecisionsAreCurrent'
    <3>1. ASSUME NEW m \in Classified(books)
          PROVE  cloud.annotation[m] \in {NoRow, books.annotation[m]} \/ ByItself(m) \/ AnnotationQueued(m)'
      <4>1. cloud.annotation[m] \in {NoRow, books.annotation[m]} \/ ByItself(m) \/ Waits("annotation", m)
        BY <1>9 DEF QueueInv, ChangesAreQueued, DecisionsAreCurrent, AnnotationQueued
      <4>2. key = <<"annotation", m>> => r.annotation[m] = books.annotation[m]
        BY <1>5 DEF Reads
      <4> QED
        BY <1>3, <1>4, <1>8, <1>9, <4>1, <4>2 DEF AnnotationQueued
    <3>2. ASSUME NEW m \in Allocated(books)
          PROVE  cloud.allocated[m] \in {0, books.allocated[m]} \/ AllocationQueued(m)'
      <4>1. cloud.allocated[m] \in {0, books.allocated[m]} \/ Waits("allocations", m)
        BY <1>9 DEF QueueInv, ChangesAreQueued, DecisionsAreCurrent, AllocationQueued
      <4>2. key = <<"allocations", m>> => r.allocated[m] = books.allocated[m]
        BY <1>5 DEF Reads
      <4> QED
        BY <1>3, <1>4, <1>8, <1>9, <4>1, <4>2 DEF AllocationQueued
    <3> QED
      BY <1>3, <3>1, <3>2 DEF DecisionsAreCurrent, ByItself, Classified, Allocated
  <2> QED
    BY <2>1, <2>2, <2>3 DEF ChangesAreQueued
<1>13. DecisionsInv'
  BY <1>3 DEF DecisionsInv, Listed
<1> QED
  BY <1>6, <1>10, <1>11, <1>12, <1>13 DEF TreasuryInv, QueueInv

\* A push that ends: Postgres has the rows read, or their key waits again.
LEMMA PushEnds ==
    ASSUME NEW own, BooksInv(own), QueueInv, sending' = Idle, UNCHANGED books,
           Range(outbox) \subseteq Range(outbox'), resent \subseteq resent',
           \/ cloud' = cloud /\ (sending = Idle \/ sending.key \in Range(outbox'))
           \/ sending # Idle /\ Becomes(cloud')
    PROVE  ChangesAreQueued' /\ FlightInv'
<1>1. \A table, x : /\ Waits(table, x) => <<table, x>> \in Range(outbox')
                    /\ (<<table, x>> \in Range(outbox') <=> Waits(table, x)')
  BY DEF Waits
<1>2. \A table, x : ~InFlight(table, x)'
  BY DEF InFlight, Idle
<1>3. sending = Idle => \A table, x : ~InFlight(table, x)
  BY DEF InFlight, Idle
<1>4. FlightInv'
  <2>1. sending'.key = <<>>
    BY DEF Idle
  <2>2. \A m \in Movements : ~Writes(m)'
    BY <2>1 DEF Writes
  <2> QED
    BY <1>2, <2>2 DEF FlightInv
<1>5. CASE cloud' = cloud /\ (sending = Idle \/ sending.key \in Range(outbox'))
  <2>1. \A table, x : InFlight(table, x) => <<table, x>> \in Range(outbox')
    BY <1>3, <1>5 DEF InFlight
  <2>2. AccountsAreQueued'
    BY <1>1, <1>5, <2>1 DEF QueueInv, ChangesAreQueued, AccountsAreQueued
  <2>3. MovementsAreQueued'
    <3> SUFFICES ASSUME NEW m \in Movements, Present(books, m)
                 PROVE  \/ books.movement[m] = cloud'.movement[m]
                        \/ <<"movement", m>> \in Range(outbox')
                        \/ <<"import", books.movement[m].import>> \in Range(outbox')
                        \/ books.movement[m].import \in resent' /\ ~Present(cloud', m)
      BY DEF MovementsAreQueued, Waits, Present
    <3> QED
      BY <1>1, <1>5, <2>1 DEF QueueInv, ChangesAreQueued, MovementsAreQueued, Present
  <2>4. DecisionsAreCurrent'
    <3>1. ASSUME NEW m \in Classified(books)
          PROVE  cloud.annotation[m] \in {NoRow, books.annotation[m]} \/ ByItself(m)
                 \/ <<"annotation", m>> \in Range(outbox')
      BY <1>1, <2>1 DEF QueueInv, ChangesAreQueued, DecisionsAreCurrent, AnnotationQueued
    <3>2. ASSUME NEW m \in Allocated(books)
          PROVE  cloud.allocated[m] \in {0, books.allocated[m]} \/ <<"allocations", m>> \in Range(outbox')
      BY <1>1, <2>1 DEF QueueInv, ChangesAreQueued, DecisionsAreCurrent, AllocationQueued
    <3> QED
      BY <1>5, <3>1, <3>2 DEF DecisionsAreCurrent, AnnotationQueued, AllocationQueued, Waits,
                              ByItself, Classified, Allocated
  <2> QED
    BY <1>4, <2>2, <2>3, <2>4 DEF ChangesAreQueued
<1>6. CASE sending # Idle /\ Becomes(cloud')
  <2>1. InHand(own, commands) /\ sending.key \in Keyed /\ sending.key # <<>>
    BY <1>6, KeyedParts DEF BooksInv, InHand
  <2>2. cloud \in Books /\ books \in Books /\ HangTogether(books)
    BY DEF BooksInv, Sound, Fits
  <2>3. AccountsAreQueued'
    <3> SUFFICES ASSUME NEW a \in Accounts
                 PROVE  books.active[a] = cloud'.active[a] \/ <<"account", a>> \in Range(outbox')
      BY DEF AccountsAreQueued, Waits
    <3>1. CASE sending.key = <<"account", a>>
      <4>1. cloud'.active[a] = sending.rows.active[a]
        BY <1>6, <2>2, <3>1, BookTypes DEF Becomes
      <4> QED
        BY <1>1, <3>1, <4>1 DEF QueueInv, FlightInv, InFlight
    <3>2. CASE sending.key # <<"account", a>>
      <4>1. cloud'.active[a] = cloud.active[a]
        BY <1>6, <2>1, <2>2, <3>2, BookTypes, KeyedParts DEF Becomes
      <4> QED
        BY <1>1, <3>2, <4>1 DEF QueueInv, ChangesAreQueued, AccountsAreQueued, InFlight
    <3> QED
      BY <3>1, <3>2
  <2>4. MovementsAreQueued'
    <3> SUFFICES ASSUME NEW m \in Movements, Present(books, m)
                 PROVE  \/ books.movement[m] = cloud'.movement[m]
                        \/ <<"movement", m>> \in Range(outbox')
                        \/ <<"import", books.movement[m].import>> \in Range(outbox')
                        \/ books.movement[m].import \in resent' /\ ~Present(cloud', m)
      BY DEF MovementsAreQueued, Waits, Present
    <3> DEFINE i == books.movement[m].import
    <3>1. MovementWaits(m) => <<"movement", m>> \in Range(outbox') \/ <<"import", i>> \in Range(outbox')
      BY <1>1 DEF MovementWaits
    <3>2. books.movement[m] \in Movement /\ i \in Imports /\ books.imports[i] = AccountOf[m]
      BY <2>2, BookTypes DEF HangTogether, Present, Movement
    <3>3. \/ books.movement[m] = cloud.movement[m] \/ MovementWaits(m)
          \/ /\ sending.key = <<"movement", m>> \/ sending.key = <<"import", i>>
             /\ sending.rows.movement[m] = books.movement[m]
          \/ i \in resent /\ ~Present(cloud, m)
      BY DEF QueueInv, ChangesAreQueued, MovementsAreQueued, MovementWaits, InFlight
    <3>4. CASE Writes(m)
      <4>1. cloud'.movement[m] = sending.rows.movement[m]
        BY <1>6, <3>4 DEF Becomes
      <4>2. sending.rows.movement[m] = books.movement[m] \/ MovementWaits(m)
        BY <3>4 DEF QueueInv, FlightInv
      <4> QED
        BY <3>1, <4>1, <4>2
    <3>5. CASE ~Writes(m)
      <4>1. ~(/\ sending.key = <<"movement", m>> \/ sending.key = <<"import", i>>
              /\ sending.rows.movement[m] = books.movement[m])
        <5>1. ASSUME sending.key = <<"movement", m>>, sending.rows.movement[m] = books.movement[m]
              PROVE  FALSE
          BY <3>5, <5>1 DEF Writes, Present
        <5>2. ASSUME sending.key = <<"import", i>>, sending.rows.movement[m] = books.movement[m]
              PROVE  FALSE
          <6>1. HangTogether(sending.rows) /\ Present(sending.rows, m) /\ sending.key[1] = "import"
                /\ sending.key[2] = i
            BY <2>1, <5>2 DEF InHand, Present
          <6>2. m \in Members(sending.rows, i)
            BY <5>2, <6>1 DEF Members
          <6>3. sending.rows.imports[i] # NoRow
            BY <3>2, <5>2, <6>1, TreasuryAssumption DEF HangTogether
          <6> QED
            BY <2>1, <3>5, <6>1, <6>2, <6>3 DEF Writes
        <5> QED
          BY <5>1, <5>2
      <4>2. CASE Erases(m)
        <5>1. PICK x \in Imports : sending.key = <<"import_delete", x>> /\ m \in Members(cloud, x)
          BY <2>1, <4>2, KeyedParts DEF Erases
        <5>2. CASE MovementWaits(m)
          BY <3>1, <5>2
        <5>3. CASE books.movement[m] = cloud.movement[m]
          <6>1. i = x /\ books.imports[x] # NoRow
            BY <3>2, <5>1, <5>3, TreasuryAssumption DEF Members
          <6>2. InFlight("import_delete", x)
            BY <5>1 DEF InFlight
          <6>3. CASE x \notin resent
            <7>1. Waits("import", x)
              BY <6>1, <6>2, <6>3 DEF QueueInv, DeletionsInv
            <7> QED
              BY <1>1, <6>1, <7>1
          <6>4. CASE x \in resent
            <7>1. cloud'.movement[m] = NoRow
              BY <1>6, <3>5, <4>2 DEF Becomes
            <7> QED
              BY <6>1, <6>4, <7>1 DEF Present
          <6> QED
            BY <6>3, <6>4
        <5>4. Present(cloud, m)
          BY <5>1 DEF Members
        <5> QED
          BY <3>3, <4>1, <5>2, <5>3, <5>4
      <4>3. CASE ~Erases(m)
        <5>1. cloud'.movement[m] = cloud.movement[m]
          BY <1>6, <3>5, <4>3 DEF Becomes
        <5> QED
          BY <3>1, <3>3, <4>1, <5>1 DEF Present
      <4> QED
        BY <4>2, <4>3
    <3> QED
      BY <3>4, <3>5
  <2>5. DecisionsAreCurrent'
    <3>1. ASSUME NEW m \in Classified(books)
          PROVE  cloud'.annotation[m] \in {NoRow, books.annotation[m]} \/ ByItself(m)
                 \/ <<"annotation", m>> \in Range(outbox')
      <4> DEFINE written == sending.key = <<"annotation", m>> /\ m \in Classified(sending.rows)
      <4>1. m \in Movements /\ books.annotation[m] # NoRow
        BY <3>1 DEF Classified
      <4>2. CASE written
        <5>1. cloud'.annotation[m] = sending.rows.annotation[m]
          BY <1>6, <4>1, <4>2 DEF Becomes
        <5>2. \/ sending.rows.annotation[m] \in {NoRow, books.annotation[m]}
              \/ ByItself(m) \/ Waits("annotation", m)
          BY <3>1, <4>2 DEF QueueInv, FlightInv, InFlight
        <5> QED
          BY <1>1, <5>1, <5>2
      <4>3. CASE ~written
        <5>1. cloud'.annotation[m] \in {NoRow, cloud.annotation[m]}
          BY <1>6, <4>1, <4>3 DEF Becomes
        <5>2. InFlight("annotation", m) => sending.rows.annotation[m] # books.annotation[m]
          BY <4>1, <4>3 DEF Classified, InFlight
        <5>3. cloud.annotation[m] \in {NoRow, books.annotation[m]} \/ ByItself(m) \/ Waits("annotation", m)
          BY <3>1, <5>2 DEF QueueInv, ChangesAreQueued, DecisionsAreCurrent, AnnotationQueued
        <5> QED
          BY <1>1, <5>1, <5>3
      <4> QED
        BY <4>2, <4>3
    <3>2. ASSUME NEW m \in Allocated(books)
          PROVE  cloud'.allocated[m] \in {0, books.allocated[m]} \/ <<"allocations", m>> \in Range(outbox')
      <4>1. m \in Movements
        BY <3>2 DEF Allocated
      <4>2. CASE sending.key = <<"allocations", m>>
        <5>1. cloud'.allocated[m] = sending.rows.allocated[m]
          BY <1>6, <4>1, <4>2 DEF Becomes
        <5> QED
          BY <1>1, <3>2, <4>2, <5>1 DEF QueueInv, FlightInv, InFlight
      <4>3. CASE sending.key # <<"allocations", m>>
        <5>1. cloud'.allocated[m] \in {0, cloud.allocated[m]}
          BY <1>6, <4>1, <4>3 DEF Becomes
        <5>2. cloud.allocated[m] \in {0, books.allocated[m]} \/ Waits("allocations", m)
          BY <3>2, <4>3 DEF QueueInv, ChangesAreQueued, DecisionsAreCurrent, AllocationQueued, InFlight
        <5> QED
          BY <1>1, <5>1, <5>2
      <4> QED
        BY <4>2, <4>3
    <3> QED
      BY <3>1, <3>2 DEF DecisionsAreCurrent, AnnotationQueued, AllocationQueued, Waits,
                        ByItself, Classified, Allocated
  <2> QED
    BY <1>4, <2>3, <2>4, <2>5 DEF ChangesAreQueued
<1> QED
  BY <1>5, <1>6

LEMMA PushEndKeeps ==
    ASSUME NEW own, BooksInv(own), QueueInv, DecisionsInv, sending' = Idle,
           UNCHANGED <<books, journal, commands>>, faults' \in 0..MaxFaults,
           resent \subseteq resent', resent' \subseteq Imports, faults' = 0 => resent' = {},
           outbox' \in Seq(Keyed), Range(outbox) \subseteq Range(outbox'),
           \/ cloud' = cloud /\ (sending = Idle \/ sending.key \in Range(outbox'))
           \/ sending # Idle /\ ~Refused /\ cloud' = Stored,
           \A x \in Imports \ resent', k \in DOMAIN outbox' :
                outbox'[k] = <<"import_delete", x>> /\ books.imports[x] # NoRow =>
                    \E j \in DOMAIN outbox' : j > k /\ outbox'[j] = <<"import", x>>
    PROVE  TreasuryInv'
<1>1. own \in Owners /\ commands \in Nat /\ Sound(cloud, own, commands)
  BY Given
<1>2. sending # Idle => InHand(own, commands)
  BY DEF BooksInv
<1>3. sending # Idle /\ ~Refused => Sound(Stored, own, commands) /\ Becomes(Stored)
  BY <1>1, <1>2, StoredSound
<1>4. Sound(cloud', own, commands)
  BY <1>1, <1>3
<1>5. \/ cloud' = cloud /\ (sending = Idle \/ sending.key \in Range(outbox'))
      \/ sending # Idle /\ Becomes(cloud')
  BY <1>3
<1>6. ChangesAreQueued' /\ FlightInv'
  BY <1>5, PushEnds
<1>7. DeletionsInv'
  BY DEF DeletionsInv, InFlight, Idle
<1>8. BooksInv(own)'
  BY <1>4 DEF BooksInv
<1>9. DecisionsInv'
  BY DEF DecisionsInv, Listed
<1> QED
  BY <1>6, <1>7, <1>8, <1>9 DEF TreasuryInv, QueueInv

LEMMA FinishPushKeeps ==
    ASSUME NEW own, BooksInv(own), QueueInv, DecisionsInv, FinishPush
    PROVE  TreasuryInv'
<1>1. outbox \in Seq(Keyed) /\ faults \in 0..MaxFaults
      /\ resent \subseteq Imports /\ (faults = 0 => resent = {})
  BY DEF BooksInv
<1>2. /\ sending # Idle /\ ~Refused /\ cloud' = Stored /\ sending' = Idle
      /\ UNCHANGED <<books, journal, commands>> /\ outbox' = outbox /\ faults' = faults
      /\ resent' = resent
  BY DEF FinishPush
<1>3. \A x \in Imports \ resent', k \in DOMAIN outbox' :
          outbox'[k] = <<"import_delete", x>> /\ books.imports[x] # NoRow =>
              \E j \in DOMAIN outbox' : j > k /\ outbox'[j] = <<"import", x>>
  BY <1>2 DEF QueueInv, DeletionsInv
<1> QED
  BY <1>1, <1>2, <1>3, PushEndKeeps

LEMMA PushFailsKeeps ==
    ASSUME NEW own, BooksInv(own), QueueInv, DecisionsInv, PushFails
    PROVE  TreasuryInv'
<1>1. /\ outbox \in Seq(Keyed) /\ faults \in 0..MaxFaults /\ MaxFaults \in Nat
      /\ resent \subseteq Imports /\ (faults = 0 => resent = {})
  BY TreasuryAssumption DEF BooksInv
<1>2. /\ sending # Idle /\ sending' = Idle
      /\ \/ Refused /\ UNCHANGED <<cloud, faults>>
         \/ ~Refused /\ faults < MaxFaults /\ faults' = faults + 1 /\ cloud' \in {cloud, Stored}
      /\ outbox' = Append(outbox, sending.key) /\ UNCHANGED <<books, journal, commands>>
      /\ resent' = IF sending.key[1] = "import_delete" THEN resent \cup {sending.key[2]} ELSE resent
  BY DEF PushFails
<1>3. /\ sending.key \in Keyed /\ faults' \in 0..MaxFaults
      /\ resent \subseteq resent' /\ resent' \subseteq Imports /\ (faults' = 0 => resent' = {})
  <2>1. sending.key \in Keyed /\ faults' \in 0..MaxFaults
    BY <1>1, <1>2 DEF BooksInv, InHand
  <2>2. sending.key[1] = "import_delete" => sending.key[2] \in Imports
    BY <2>1, KeyedParts
  <2>3. sending.key[1] = "import_delete" => ~Refused
    BY DEF Refused
  <2> QED
    BY <1>1, <1>2, <2>1, <2>2, <2>3
<1>4. /\ outbox' \in Seq(Keyed) /\ Len(outbox) \in Nat
      /\ DOMAIN outbox = 1..Len(outbox) /\ DOMAIN outbox' = 1..(Len(outbox) + 1)
      /\ outbox'[Len(outbox) + 1] = sending.key
      /\ \A k \in DOMAIN outbox : k \in DOMAIN outbox' /\ outbox'[k] = outbox[k]
  BY <1>1, <1>2, <1>3, AppendProperties, LenProperties
<1>5. Range(outbox) \subseteq Range(outbox') /\ sending.key \in Range(outbox')
  BY <1>4 DEF Range
<1>6. ASSUME NEW x \in Imports \ resent', NEW k \in DOMAIN outbox',
             outbox'[k] = <<"import_delete", x>>, books.imports[x] # NoRow
      PROVE  \E j \in DOMAIN outbox' : j > k /\ outbox'[j] = <<"import", x>>
  <2>1. k \in DOMAIN outbox /\ outbox[k] = <<"import_delete", x>>
    BY <1>2, <1>4, <1>6
  <2>2. PICK j \in DOMAIN outbox : j > k /\ outbox[j] = <<"import", x>>
    BY <1>3, <1>6, <2>1 DEF QueueInv, DeletionsInv
  <2> QED
    BY <1>4, <2>2
<1>7. \/ cloud' = cloud /\ sending.key \in Range(outbox')
      \/ ~Refused /\ cloud' = Stored
  BY <1>2, <1>5
<1> QED
  BY <1>2, <1>3, <1>4, <1>5, <1>6, <1>7, PushEndKeeps

LEMMA WorkerRestartsKeeps ==
    ASSUME NEW own, BooksInv(own), QueueInv, DecisionsInv, WorkerRestarts
    PROVE  TreasuryInv'
<1>1. outbox \in Seq(Keyed) /\ faults \in 0..MaxFaults /\ MaxFaults \in Nat
  BY TreasuryAssumption DEF BooksInv
<1>2. /\ sending' = Idle /\ faults < MaxFaults /\ faults' = faults + 1
      /\ outbox' = IF sending = Idle THEN outbox ELSE <<sending.key>> \o outbox
      /\ cloud' \in IF sending = Idle \/ Refused THEN {cloud} ELSE {cloud, Stored}
      /\ UNCHANGED <<books, journal, commands, resent>>
  BY DEF WorkerRestarts
<1>3. faults' \in 0..MaxFaults /\ resent \subseteq resent' /\ resent' \subseteq Imports
      /\ (faults' = 0 => resent' = {})
  BY <1>1, <1>2 DEF BooksInv
<1>4. CASE sending = Idle
  <2>1. outbox' = outbox /\ cloud' = cloud
    BY <1>2, <1>4
  <2>2. \A x \in Imports \ resent', k \in DOMAIN outbox' :
            outbox'[k] = <<"import_delete", x>> /\ books.imports[x] # NoRow =>
                \E j \in DOMAIN outbox' : j > k /\ outbox'[j] = <<"import", x>>
    BY <1>3, <2>1 DEF QueueInv, DeletionsInv
  <2> QED
    BY <1>1, <1>2, <1>3, <1>4, <2>1, <2>2, PushEndKeeps
<1>5. CASE sending # Idle
  <2>1. sending.key \in Keyed
    BY <1>5 DEF BooksInv, InHand
  <2> DEFINE first == <<sending.key>>
  <2>2. first \in Seq(Keyed) /\ DOMAIN first = {1} /\ first[1] = sending.key /\ Len(first) = 1
        /\ sending.key \in Range(first)
    BY <2>1 DEF Range
  <2>3. outbox' = first \o outbox
    BY <1>2, <1>5
  <2> HIDE DEF first
  <2>4. /\ outbox' \in Seq(Keyed) /\ DOMAIN outbox = 1..Len(outbox) /\ Len(outbox) \in Nat
        /\ DOMAIN outbox' = 1..(1 + Len(outbox)) /\ outbox'[1] = sending.key
        /\ \A k \in DOMAIN outbox : 1 + k \in DOMAIN outbox' /\ outbox'[1 + k] = outbox[k]
        /\ \A n \in DOMAIN outbox' : n = 1 \/ \E k \in DOMAIN outbox : n = 1 + k
        /\ Range(outbox) \subseteq Range(outbox') /\ sending.key \in Range(outbox')
    <3> DEFINE all == first \o outbox
    <3>1. /\ all \in Seq(Keyed) /\ DOMAIN outbox = 1..Len(outbox) /\ Len(outbox) \in Nat
          /\ DOMAIN all = 1..(Len(first) + Len(outbox))
          /\ \A k \in DOMAIN first : all[k] = first[k]
          /\ \A k \in DOMAIN outbox : Len(first) + k \in DOMAIN all /\ all[Len(first) + k] = outbox[k]
      BY <1>1, <2>2, Joined
    <3>2. \A n \in DOMAIN all : n \in DOMAIN first \/ \E k \in DOMAIN outbox : n = Len(first) + k
      BY <1>1, <2>2, Joined
    <3>3. Range(first) \subseteq Range(all) /\ Range(outbox) \subseteq Range(all)
      BY <1>1, <2>2, Joined
    <3>4. outbox' = all
      BY <2>3
    <3> HIDE DEF all
    <3> QED
      BY <2>2, <3>1, <3>2, <3>3, <3>4
  <2>5. ASSUME NEW x \in Imports \ resent', NEW n \in DOMAIN outbox',
               outbox'[n] = <<"import_delete", x>>, books.imports[x] # NoRow
        PROVE  \E j \in DOMAIN outbox' : j > n /\ outbox'[j] = <<"import", x>>
    <3>1. CASE n = 1
      <4>1. Waits("import", x)
        BY <1>3, <2>4, <2>5, <3>1 DEF QueueInv, DeletionsInv, InFlight
      <4>2. PICK j \in DOMAIN outbox : outbox[j] = <<"import", x>>
        BY <4>1 DEF Waits, Range
      <4> QED
        BY <2>4, <3>1, <4>2
    <3>2. CASE n # 1
      <4>1. PICK k \in DOMAIN outbox : n = 1 + k
        BY <2>4, <3>2
      <4>2. PICK j \in DOMAIN outbox : j > k /\ outbox[j] = <<"import", x>>
        BY <1>3, <2>4, <2>5, <4>1 DEF QueueInv, DeletionsInv
      <4> QED
        BY <2>4, <4>1, <4>2
    <3> QED
      BY <3>1, <3>2
  <2>6. \/ cloud' = cloud
        \/ ~Refused /\ cloud' = Stored
    BY <1>2, <1>5
  <2>7. \A x \in Imports \ resent', n \in DOMAIN outbox' :
            outbox'[n] = <<"import_delete", x>> /\ books.imports[x] # NoRow =>
                \E j \in DOMAIN outbox' : j > n /\ outbox'[j] = <<"import", x>>
    BY <2>5
  <2>8. /\ sending' = Idle /\ UNCHANGED <<books, journal, commands>>
        /\ cloud' = cloud \/ (sending # Idle /\ ~Refused /\ cloud' = Stored)
    BY <1>2, <1>5, <2>6
  <2> QED
    BY <1>3, <2>4, <2>7, <2>8, PushEndKeeps
<1> QED
  BY <1>4, <1>5

LEMMA WorkerKeeps ==
    ASSUME TreasuryInv, Worker
    PROVE  TreasuryInv'
BY StartPushKeeps, FinishPushKeeps, PushFailsKeeps DEF TreasuryInv, Worker

-------------------------------------------------------------------------------
(* Bookings                                                                *)

LEMMA Pair ==
    ASSUME NEW a, NEW b
    PROVE  <<a>> \o <<b>> = <<a, b>>
<1> DEFINE s == <<a>> \o <<b>>
           t == <<a, b>>
<1>1. <<a>> \in Seq({a, b}) /\ <<b>> \in Seq({a, b}) /\ t \in Seq({a, b})
      /\ Len(<<a>>) = 1 /\ Len(<<b>>) = 1 /\ Len(t) = 2
      /\ t[1] = a /\ t[2] = b
  OBVIOUS
<1>2. s \in Seq({a, b}) /\ Len(s) = 2 /\ s[1] = a /\ s[2] = b
  BY <1>1, ConcatProperties
<1> HIDE DEF s, t
<1>3. s = t
  BY <1>1, <1>2, SeqEqual
<1> QED
  BY <1>3 DEF s, t

\* Both commands of a booking: the second entry holds what the first command made.
LEMMA BothKeep ==
    ASSUME NEW own, BooksInv(own), QueueInv, DecisionsInv,
           NEW m \in Movements, Present(books, m),
           NEW first, NEW one \in [{m} -> Annotation], first = ReplaceAnnotations(books, one),
           NEW two \in [{m} -> Annotation], books' = ReplaceAnnotations(first, two),
           Command(Prior("annotation", {m}) \o EntryOf(first, "annotation", {m}),
                   AnnotationKeys({m}) \o AnnotationKeys({m}))
    PROVE  TreasuryInv'
<1> DEFINE S == {m}
           K == AnnotationKeys(S)
           e == [table |-> "annotation", of |-> S, rows |-> RowsOf(books, "annotation", S)]
           f == [table |-> "annotation", of |-> S, rows |-> RowsOf(first, "annotation", S)]
           list == <<e, f>>
           keys == K \o K
<1>1. own \in Owners /\ commands \in Nat /\ books \in Books /\ Sound(books, own, commands)
  BY Given
<1>2. S \in SUBSET Movements /\ S \subseteq Movements /\ m \in S /\ (\A x \in S : Present(books, x))
      /\ one \in [S -> Annotation] /\ two \in [S -> Annotation]
  OBVIOUS
<1>3. K \in Seq(Keyed) /\ <<"annotation", m>> \in Range(K) /\ \A x : <<"import_delete", x>> \notin Range(K)
  BY KeysMade
<1>4. Command(list, keys)
  <2>1. <<e>> \o <<f>> = list
    BY Pair
  <2>2. Prior("annotation", {m}) = <<e>> /\ EntryOf(first, "annotation", {m}) = <<f>>
    BY DEF Prior, EntryOf
  <2> HIDE DEF list, e, f
  <2> QED
    BY <2>1, <2>2
<1>5. \A x : x \in S <=> x = m
  OBVIOUS
<1> HIDE DEF S
<1>6. Sound(first, own, commands) /\ HasAnnotations(first, books, S, one)
  BY <1>1, <1>2, AnnotationsSound
<1>7. \A x \in S : Present(first, x)
  BY <1>2, <1>6 DEF HasAnnotations, Present
<1>8. Sound(books', own, commands) /\ HasAnnotations(books', first, S, two)
  BY <1>1, <1>2, <1>6, <1>7, AnnotationsSound
<1>9. /\ e \in Entries /\ Entered(e, own, commands) /\ e.table = "annotation" /\ e.of = S
      /\ \A x \in Movements :
            /\ e.rows.annotation[x] \in {NoRow, books.annotation[x]}
            /\ e.rows.allocated[x] \in {0, books.allocated[x]}
  BY <1>1, <1>2, EntryMade
<1>10. /\ f \in Entries /\ Entered(f, own, commands) /\ f.table = "annotation" /\ f.of = S
       /\ \A x \in Movements :
            /\ f.rows.annotation[x] \in {NoRow, first.annotation[x]}
            /\ f.rows.allocated[x] \in {0, first.allocated[x]}
  BY <1>1, <1>2, <1>6, EntryMade
<1> HIDE DEF K, e, f
<1>11. keys \in Seq(Keyed) /\ Range(keys) = Range(K)
  <2>1. K \o K \in Seq(Keyed)
    BY <1>3, Joined
  <2>2. Range(K \o K) = Range(K) \cup Range(K)
    BY <1>3, RangeConcatenation
  <2> QED
    BY <2>1, <2>2
<1>12. list \in Seq(Entries) /\ DOMAIN list = {1, 2} /\ list[1] = e /\ list[2] = f /\ Len(list) = 2
  BY <1>9, <1>10
<1> HIDE DEF keys, list
<1>13. \A x \in Movements :
          /\ books'.allocated[x] = books.allocated[x] /\ first.allocated[x] = books.allocated[x]
          /\ x # m => books'.annotation[x] = books.annotation[x] /\ first.annotation[x] = books.annotation[x]
  BY <1>5, <1>6, <1>8 DEF HasAnnotations
<1>14. Covers(keys)
  <2>1. \A x \in Movements : books'.annotation[x] = books.annotation[x]
                             \/ <<"annotation", x>> \in Range(keys)
    BY <1>3, <1>11, <1>13
  <2>2. books'.active = books.active /\ books'.imports = books.imports /\ books'.movement = books.movement
    BY <1>6, <1>8 DEF HasAnnotations
  <2> QED
    BY <1>3, <1>11, <1>13, <2>1, <2>2 DEF Covers, Classified, Allocated
<1>15. Accounted(list)
  <2>1. Listed(list, "annotation", m, 3) /\ Listed(list, "annotation", m, 2)
    BY <1>5, <1>9, <1>12 DEF Listed
  <2>2. \A x \in Movements : books.allocated[x] \in Nat
    BY <1>1, BookTypes
  <2>3. \A x \in Movements : /\ Decided(books', x) => Decided(books, x) \/ x = m
                             /\ Decided(e.rows, x) => Decided(books, x)
                             /\ Decided(f.rows, x) => Decided(books, x) \/ x = m
    BY <1>9, <1>10, <1>13 DEF Decided
  <2>4. \A x \in Movements : /\ books'.allocated[x] > 0 => books.allocated[x] > 0
                             /\ e.rows.allocated[x] > 0 => books.allocated[x] > 0
                             /\ f.rows.allocated[x] > 0 => books.allocated[x] > 0
    BY <1>9, <1>10, <1>13, <2>2
  <2> QED
    BY <1>12, <2>1, <2>3, <2>4 DEF Accounted
<1>16. Change(own, own, list, keys)
  <2>1. Sound(books', own, commands + 1)
    BY <1>8, Given
  <2>2. \A k \in DOMAIN list : Entered(list[k], own, commands)
    BY <1>9, <1>10, <1>12
  <2> QED
    BY <1>1, <1>11, <1>12, <1>14, <1>15, <2>1, <2>2 DEF Change
<1> QED
  BY <1>4, <1>16, CommandKeeps

LEMMA BookKeeps ==
    ASSUME TreasuryInv, NEW x \in Documents, NEW m \in Movements, NEW both \in BOOLEAN,
           Annotates(x) \/ (both /\ Reviews(x)) => Present(books, m),
           Book(x, m, both)
    PROVE  TreasuryInv'
<1> PICK own : BooksInv(own)
  BY DEF TreasuryInv
<1>1. QueueInv /\ DecisionsInv /\ books \in Books /\ Sound(books, own, commands) /\ own \in Owners
      /\ commands \in Nat
  BY Given DEF TreasuryInv
<1> DEFINE one == [k \in {m} |-> Reclassified(books, m, "expense", TRUE)]
           first == Annotated(x, m)
           annotates == Annotates(x)
           reviews == both /\ Reviews(x)
           S == {m}
           P == Prior("annotation", S)
           E == EntryOf(first, "annotation", S)
           K == AnnotationKeys(S)
           Review(verdict) == [k \in {m} |-> Reviewed(first, m, verdict)]
<1> PICK verdict \in {"accepted", "rejected"} :
        /\ books' = IF reviews THEN ReplaceAnnotations(first, Review(verdict)) ELSE first
        /\ Command((IF annotates THEN P ELSE <<>>) \o (IF reviews THEN E ELSE <<>>),
                   (IF annotates THEN K ELSE <<>>) \o (IF reviews THEN K ELSE <<>>))
  BY DEF Book
<1> DEFINE two == Review(verdict)
           second == ReplaceAnnotations(first, two)
<1>2. /\ books' = IF reviews THEN second ELSE first
      /\ Command((IF annotates THEN P ELSE <<>>) \o (IF reviews THEN E ELSE <<>>),
                 (IF annotates THEN K ELSE <<>>) \o (IF reviews THEN K ELSE <<>>))
  OBVIOUS
<1>3. first = IF annotates THEN ReplaceAnnotations(books, one) ELSE books
  BY DEF Annotated
<1>4. annotates \/ reviews => Present(books, m)
  OBVIOUS
<1>5. /\ P = <<[table |-> "annotation", of |-> S, rows |-> RowsOf(books, "annotation", S)]>>
      /\ E = <<[table |-> "annotation", of |-> S, rows |-> RowsOf(first, "annotation", S)]>>
      /\ K \in Seq(Keyed) /\ (first = books => E = P)
  BY KeysMade DEF Prior, EntryOf
<1>6. one \in [S -> Annotation] /\ S \in SUBSET Movements
  BY <1>1, RowsMade
<1>7. annotates => Sound(first, own, commands) /\ first \in Books
  <2>1. annotates => \A k \in S : Present(books, k)
    BY <1>4
  <2> HIDE DEF S, one
  <2>2. annotates => Sound(ReplaceAnnotations(books, one), own, commands)
    BY <1>1, <1>6, <2>1, AnnotationsSound
  <2> QED
    BY <1>3, <2>2 DEF Sound, Fits
<1>8. two \in [S -> Annotation]
  BY <1>1, <1>3, <1>7, RowsMade DEF Fiscal
<1>9. annotates \/ reviews => \A k \in S : Present(books, k)
  BY <1>4
<1>10. CASE ~annotates /\ ~reviews
  <2>1. books' = books /\ Command(<<>>, <<>>)
    BY <1>2, <1>3, <1>10
  <2>2. <<>> \in Seq(Keyed) /\ Range(<<>>) = {}
    BY DEF Range
  <2>3. Covers(<<>>)
    BY <2>1, <2>2 DEF Covers
  <2>4. Sound(books', own, commands + 1)
    BY <1>1, <2>1, Given
  <2>5. \A k \in Movements : Decided(books', k) => Decided(books, k)
    BY <2>1
  <2>6. \A k \in Movements : books'.allocated[k] > 0 => books.allocated[k] > 0
    BY <2>1
  <2> QED
    BY <1>1, <2>1, <2>2, <2>3, <2>4, <2>5, <2>6, BareCommand
<1>11. CASE annotates /\ ~reviews
  <2>1. P \o <<>> = P /\ K \o <<>> = K
    BY <1>5
  <2>2. books' = ReplaceAnnotations(books, one) /\ Command(P, K)
    BY <1>2, <1>3, <1>11, <2>1
  <2>3. \A k \in S : Present(books, k)
    BY <1>9, <1>11
  <2> HIDE DEF S, one
  <2> QED
    BY <1>1, <1>6, <2>2, <2>3, AnnotationsKeep
<1>12. CASE ~annotates /\ reviews
  <2>1. <<>> \o P = P /\ <<>> \o K = K
    BY <1>5
  <2>2. books' = ReplaceAnnotations(books, two) /\ Command(P, K)
    BY <1>2, <1>3, <1>5, <1>12, <2>1
  <2>3. \A k \in S : Present(books, k)
    BY <1>9, <1>12
  <2> HIDE DEF S, two
  <2> QED
    BY <1>1, <1>6, <1>8, <2>2, <2>3, AnnotationsKeep
<1>13. CASE annotates /\ reviews
  <2>1. first = ReplaceAnnotations(books, one) /\ books' = ReplaceAnnotations(first, two)
        /\ Command(P \o E, K \o K) /\ Present(books, m)
    BY <1>2, <1>3, <1>4, <1>13
  <2> HIDE DEF first, one, two
  <2> QED
    BY <1>1, <1>6, <1>8, <2>1, BothKeep
<1> QED
  BY <1>10, <1>11, <1>12, <1>13

-------------------------------------------------------------------------------
(* What deletions in Postgres take with them                               *)

Decisions == {"annotation", "allocations"}

Holds(b, table, m) == IF table = "annotation" THEN m \in Classified(b) ELSE m \in Allocated(b)

Agree(table, m, b, c) ==
    IF table = "annotation" THEN b.annotation[m] = c.annotation[m] ELSE b.allocated[m] = c.allocated[m]

\* A decision of the device that Postgres is to have.
Owed(table, m) == Holds(books, table, m) /\ (table = "annotation" => ~ByItself(m))

OwedInv ==
    \A table \in Decisions, m \in Movements : Owed(table, m) =>
        \/ Holds(cloud, table, m) \/ Waits(table, m)
        \/ InFlight(table, m) /\ Agree(table, m, sending.rows, books)

Corrected(e, m) == e.table = "movement" /\ m \in e.of
Deleted(e, i) == e.table = "import_delete" /\ i \in e.of

\* To take a correction back never moves a movement to another import: as long as
\* the import of then is there the movement is in it, and a deletion that could be
\* taken back before brings both or neither.
CorrectionsInv ==
    \A n \in DOMAIN journal, m \in Movements : Corrected(journal[n], m) =>
        LET home == journal[n].rows.movement[m].import IN
        /\ books.imports[home] # NoRow => Present(books, m) /\ books.movement[m].import = home
        /\ \A k \in DOMAIN journal, i \in Imports : k > n /\ Deleted(journal[k], i) =>
            IF i = home THEN m \in Members(journal[k].rows, i)
            ELSE m \in Members(journal[k].rows, i) =>
                /\ books.imports[home] = NoRow
                /\ \A l \in DOMAIN journal : l > k => ~Deleted(journal[l], home)

\* As long as no request has failed, Postgres has a movement under the import it
\* has on the device, or the import is still to come.
HomesInv ==
    \A m \in Movements : Present(books, m) =>
        LET home == books.movement[m].import IN
        \/ Waits("import", home)
        \/ InFlight("import", home) /\ Writes(m)
        \/ /\ Present(cloud, m) /\ cloud.movement[m].import = home
           /\ Writes(m) => sending.rows.movement[m].import = home

SplitsInv ==
    \A m \in Allocated(books) : InFlight("allocations", m) =>
        sending.rows.allocated[m] = books.allocated[m] \/ Waits("allocations", m)

SentAfter(table, m, k) == \E j \in DOMAIN outbox : j > k /\ outbox[j] = <<table, m>>

\* When the k-th row of the outbox, the deletion of i, is sent, m is not in i.
OutOfReach(m, i, k) ==
    LET home == books.movement[m].import IN
    /\ home # i
    /\ \/ \E j \in DOMAIN outbox : j < k /\ outbox[j] = <<"import", home>>
       \/ InFlight("import", home) /\ Writes(m)
       \/ m \notin Members(cloud, i) /\ (Writes(m) => sending.rows.movement[m].import # i)

\* A deletion that takes a decision with it has that decision behind it.
OrderInv ==
    \A table \in Decisions, m \in Movements : Owed(table, m) =>
        \A i \in Imports :
            /\ \A k \in DOMAIN outbox : outbox[k] = <<"import_delete", i>> =>
                SentAfter(table, m, k) \/ OutOfReach(m, i, k)
            /\ InFlight("import_delete", i) => Waits(table, m) \/ m \notin Members(cloud, i)

DeliveryInv == SplitsInv /\ (faults = 0 => HomesInv /\ OrderInv /\ OwedInv)

LEMMA OwedSettles == DeliveryInv => NothingIsMissing
<1> SUFFICES ASSUME OwedInv
             PROVE  /\ \A m \in Classified(books) :
                        cloud.annotation[m] # NoRow \/ ByItself(m) \/ AnnotationQueued(m)
                    /\ \A m \in Allocated(books) : cloud.allocated[m] > 0 \/ AllocationQueued(m)
  BY DEF DeliveryInv, NothingIsMissing
<1>1. ASSUME NEW m \in Classified(books)
      PROVE  cloud.annotation[m] # NoRow \/ ByItself(m) \/ AnnotationQueued(m)
  BY DEF OwedInv, Decisions, Owed, Holds, Agree, Classified, AnnotationQueued
<1>2. ASSUME NEW m \in Allocated(books)
      PROVE  cloud.allocated[m] > 0 \/ AllocationQueued(m)
  BY DEF OwedInv, Decisions, Owed, Holds, Agree, Allocated, AllocationQueued
<1> QED
  BY <1>1, <1>2

Stays(m) == Present(books, m) /\ Present(books', m) /\ books'.movement[m].import = books.movement[m].import

\* What a command queues of what it changes.
Settles(keys) ==
    /\ \A m \in Movements : Present(books', m) =>
        Stays(m) \/ <<"import", books'.movement[m].import>> \in Range(keys)
    /\ \A table \in Decisions, m \in Movements : Owed(table, m)' =>
        \/ <<table, m>> \in Range(keys)
        \/ Owed(table, m) /\ Stays(m) /\ Agree(table, m, books', books)
    /\ \A i \in Imports : <<"import_delete", i>> \in Range(keys) =>
        /\ books'.imports[i] = NoRow
        /\ \A table \in Decisions, m \in Movements : <<table, m>> \notin Range(keys)

LEMMA CommandDelivers ==
    ASSUME NEW own, BooksInv(own), DeliveryInv, NEW next, BooksInv(next)',
           NEW keys \in Seq(Keyed), Settles(keys),
           outbox' = outbox \o keys, UNCHANGED <<cloud, sending, faults>>
    PROVE  DeliveryInv'
<1>1. /\ \A k \in DOMAIN outbox : k \in DOMAIN outbox' /\ outbox'[k] = outbox[k] /\ k <= Len(outbox)
      /\ \A k \in DOMAIN keys : Len(outbox) + k \in DOMAIN outbox' /\ outbox'[Len(outbox) + k] = keys[k]
                                /\ k > 0 /\ k \in Nat
      /\ \A k \in DOMAIN outbox' : k \in DOMAIN outbox \/ \E j \in DOMAIN keys : k = Len(outbox) + j
      /\ Len(outbox) \in Nat /\ DOMAIN outbox = 1..Len(outbox)
  <2>1. outbox \in Seq(Keyed)
    BY DEF BooksInv
  <2> DEFINE all == outbox \o keys
  <2>2. /\ DOMAIN outbox = 1..Len(outbox) /\ DOMAIN keys = 1..Len(keys)
        /\ Len(outbox) \in Nat /\ Len(keys) \in Nat
        /\ \A k \in DOMAIN outbox : k \in DOMAIN all /\ all[k] = outbox[k]
        /\ \A k \in DOMAIN keys : Len(outbox) + k \in DOMAIN all /\ all[Len(outbox) + k] = keys[k]
        /\ \A k \in DOMAIN all : k \in DOMAIN outbox \/ \E j \in DOMAIN keys : k = Len(outbox) + j
    BY <2>1, Joined
  <2>3. outbox' = all
    OBVIOUS
  <2> HIDE DEF all
  <2> QED
    BY <2>2, <2>3
<1>2. \A table, x : Waits(table, x) \/ <<table, x>> \in Range(keys) => <<table, x>> \in Range(outbox')
  BY <1>1 DEF Waits, Range
<1>3. /\ \A table, x : InFlight(table, x)' <=> InFlight(table, x)
      /\ \A m : Writes(m)' <=> Writes(m)
      /\ \A b, m : Holds(b, "annotation", m) <=> m \in Classified(b)
      /\ cloud' = cloud /\ sending' = sending /\ faults' = faults
  BY DEF InFlight, Writes, Holds
<1>4. ASSUME faults = 0 PROVE HomesInv'
  <2> SUFFICES ASSUME NEW m \in Movements, Present(books', m)
               PROVE  LET home == books'.movement[m].import IN
                      \/ <<"import", home>> \in Range(outbox')
                      \/ InFlight("import", home) /\ Writes(m)
                      \/ /\ Present(cloud, m) /\ cloud.movement[m].import = home
                         /\ Writes(m) => sending.rows.movement[m].import = home
    BY <1>3 DEF HomesInv, Waits, InFlight, Present
  <2>1. CASE <<"import", books'.movement[m].import>> \in Range(keys)
    BY <1>2, <2>1
  <2>2. CASE Stays(m)
    BY <1>2, <1>4, <2>2 DEF Stays, DeliveryInv, HomesInv
  <2> QED
    BY <2>1, <2>2 DEF Settles
<1>5. SplitsInv'
  <2> SUFFICES ASSUME NEW m \in Movements, m \in Allocated(books'), InFlight("allocations", m)
               PROVE  sending.rows.allocated[m] = books'.allocated[m] \/ <<"allocations", m>> \in Range(outbox')
    BY <1>3 DEF SplitsInv, Waits, Allocated
  <2>1. Owed("allocations", m)'
    BY DEF Owed, Holds, Allocated
  <2>2. \/ <<"allocations", m>> \in Range(keys)
        \/ m \in Allocated(books) /\ books'.allocated[m] = books.allocated[m]
    BY <2>1 DEF Settles, Decisions, Owed, Holds, Agree
  <2> QED
    BY <1>2, <2>2 DEF DeliveryInv, SplitsInv
<1>6. ASSUME faults = 0 PROVE OwedInv'
  <2> SUFFICES ASSUME NEW table \in Decisions, NEW m \in Movements, Owed(table, m)'
               PROVE  \/ Holds(cloud, table, m) \/ <<table, m>> \in Range(outbox')
                      \/ InFlight(table, m) /\ Agree(table, m, sending.rows, books')
    BY <1>3 DEF OwedInv, Waits, InFlight, Holds, Agree, Classified, Allocated
  <2>1. CASE <<table, m>> \in Range(keys)
    BY <1>2, <2>1
  <2>2. CASE Owed(table, m) /\ Agree(table, m, books', books)
    <3>1. \/ Holds(cloud, table, m) \/ Waits(table, m)
          \/ InFlight(table, m) /\ Agree(table, m, sending.rows, books)
      BY <1>6, <2>2 DEF DeliveryInv, OwedInv
    <3>2. Agree(table, m, sending.rows, books) => Agree(table, m, sending.rows, books')
      BY <2>2 DEF Agree
    <3> QED
      BY <1>2, <3>1, <3>2
  <2> QED
    BY <2>1, <2>2 DEF Settles
<1>7. ASSUME faults = 0 PROVE OrderInv'
  <2> SUFFICES ASSUME NEW table \in Decisions, NEW m \in Movements, Owed(table, m)', NEW i \in Imports
               PROVE  /\ \A k \in DOMAIN outbox' : outbox'[k] = <<"import_delete", i>> =>
                            SentAfter(table, m, k)' \/ OutOfReach(m, i, k)'
                      /\ InFlight("import_delete", i) =>
                            <<table, m>> \in Range(outbox') \/ m \notin Members(cloud, i)
    BY <1>3 DEF OrderInv, Waits, InFlight, Members, Present
  <2>1. Present(books', m) /\ books'.imports[books'.movement[m].import] = AccountOf[m]
    BY DEF BooksInv, Sound, HangTogether, Owed, Holds, Decisions, Present, Classified, Allocated
  <2>2. InFlight("import_delete", i) => <<table, m>> \in Range(outbox') \/ m \notin Members(cloud, i)
    BY <1>2, <1>7 DEF Settles, DeliveryInv, OrderInv
  <2>3. ASSUME NEW k \in DOMAIN outbox', outbox'[k] = <<"import_delete", i>>
        PROVE  SentAfter(table, m, k)' \/ OutOfReach(m, i, k)'
    <3> DEFINE home == books.movement[m].import
    <3>1. Stays(m) => (OutOfReach(m, i, k)' <=>
            /\ home # i
            /\ \/ \E j \in DOMAIN outbox' : j < k /\ outbox'[j] = <<"import", home>>
               \/ InFlight("import", home) /\ Writes(m)
               \/ m \notin Members(cloud, i) /\ (Writes(m) => sending.rows.movement[m].import # i))
      BY <1>3 DEF Stays, OutOfReach, InFlight, Members, Present
    <3>2. CASE k \in DOMAIN outbox
      <4>1. outbox[k] = <<"import_delete", i>> /\ k \in 1..Len(outbox)
        BY <1>1, <2>3, <3>2
      <4>2. CASE <<table, m>> \in Range(keys)
        <5>1. PICK j \in DOMAIN keys : keys[j] = <<table, m>>
          BY <4>2 DEF Range
        <5>2. Len(outbox) + j \in DOMAIN outbox' /\ outbox'[Len(outbox) + j] = <<table, m>> /\ Len(outbox) + j > k
          BY <1>1, <4>1, <5>1
        <5> QED
          BY <5>2 DEF SentAfter
      <4>3. CASE Owed(table, m) /\ Stays(m)
        <5>1. SentAfter(table, m, k) \/ OutOfReach(m, i, k)
          BY <1>7, <3>2, <4>1, <4>3 DEF DeliveryInv, OrderInv
        <5>2. SentAfter(table, m, k) => SentAfter(table, m, k)'
          BY <1>1 DEF SentAfter
        <5>3. OutOfReach(m, i, k) => OutOfReach(m, i, k)'
          BY <1>1, <3>1, <4>3 DEF OutOfReach
        <5> QED
          BY <5>1, <5>2, <5>3
      <4> QED
        BY <4>2, <4>3 DEF Settles
    <3>3. CASE k \notin DOMAIN outbox
      <4>1. PICK j \in DOMAIN keys : k = Len(outbox) + j
        BY <1>1, <3>3
      <4>2. keys[j] = <<"import_delete", i>> /\ \A l \in DOMAIN outbox : l < k
        <5>1. j \in Nat /\ j > 0 /\ outbox'[Len(outbox) + j] = keys[j]
          BY <1>1, <4>1
        <5>2. \A l \in DOMAIN outbox : l \in Nat /\ l <= Len(outbox)
          BY <1>1
        <5>3. keys[j] = <<"import_delete", i>>
          BY <2>3, <4>1, <5>1
        <5>4. ASSUME NEW l \in DOMAIN outbox PROVE l < k
          <6>1. l \in Nat /\ l <= Len(outbox) /\ Len(outbox) \in Nat
            BY <1>1, <5>2
          <6> QED
            BY <4>1, <5>1, <6>1
        <5> QED
          BY <5>3, <5>4
      <4>3. <<"import_delete", i>> \in Range(keys)
        BY <4>1, <4>2 DEF Range
      <4>4. books'.imports[i] = NoRow /\ Stays(m)
        BY <4>3 DEF Settles
      <4>5. home # i /\ Present(books, m)
        BY <2>1, <4>4, TreasuryAssumption DEF Stays
      <4>6. \/ Waits("import", home)
            \/ InFlight("import", home) /\ Writes(m)
            \/ /\ Present(cloud, m) /\ cloud.movement[m].import = home
               /\ Writes(m) => sending.rows.movement[m].import = home
        BY <1>7, <4>5 DEF DeliveryInv, HomesInv
      <4>7. Waits("import", home) => \E l \in DOMAIN outbox' : l < k /\ outbox'[l] = <<"import", home>>
        <5> HIDE DEF home
        <5> SUFFICES ASSUME Waits("import", home)
                     PROVE  \E l \in DOMAIN outbox' : l < k /\ outbox'[l] = <<"import", home>>
          OBVIOUS
        <5>1. PICK l \in DOMAIN outbox : outbox[l] = <<"import", home>>
          BY DEF Waits, Range
        <5>2. l \in DOMAIN outbox' /\ outbox'[l] = outbox[l] /\ l < k
          BY <1>1, <4>2
        <5> QED
          BY <5>1, <5>2
      <4>8. cloud.movement[m].import = home => m \notin Members(cloud, i)
        BY <4>5 DEF Members
      <4> HIDE DEF home
      <4> QED
        BY <3>1, <4>4, <4>5, <4>6, <4>7, <4>8
    <3> QED
      BY <3>2, <3>3
  <2> QED
    BY <2>2, <2>3
<1> QED
  BY <1>3, <1>4, <1>5, <1>6, <1>7 DEF DeliveryInv

-------------------------------------------------------------------------------
(* The worker and the order of the queue                                   *)

LEMMA StartPushDelivers ==
    ASSUME NEW own, BooksInv(own), DeliveryInv, StartPush
    PROVE  DeliveryInv'
<1> DEFINE key == Head(outbox)
           r == RowsOf(books, key[1], {key[2]})
<1>1. /\ own \in Owners /\ commands \in Nat /\ books \in Books /\ Sound(books, own, commands)
      /\ outbox \in Seq(Keyed) /\ outbox # <<>> /\ HangTogether(books)
  BY Given DEF StartPush, Sound
<1>2. /\ key \in Keyed /\ outbox' = Tail(outbox)
      /\ DOMAIN outbox = 1..Len(outbox) /\ DOMAIN outbox' = 1..Len(outbox) - 1 /\ Len(outbox) \in Nat
      /\ outbox[1] = key /\ 1 \in DOMAIN outbox /\ \A k \in DOMAIN outbox' : outbox'[k] = outbox[k + 1]
  BY <1>1, HeadTailProperties, LenProperties, EmptySeq DEF StartPush
<1>3. /\ sending' = [key |-> key, rows |-> r] /\ sending = Idle
      /\ UNCHANGED <<books, cloud, journal, commands, faults>>
  BY DEF StartPush
<1>4. sending'.key = key /\ sending'.rows = r /\ sending.key = <<>>
  BY <1>3 DEF Idle
<1>5. /\ Reads(r, books, key)
      /\ key[1] = "import" => r.imports[key[2]] = books.imports[key[2]]
  <2> DEFINE T == {key[2]}
  <2>1. T = {key[2]}
    OBVIOUS
  <2> HIDE DEF T, key
  <2> DEFINE q == RowsOf(books, key[1], T)
  <2>2. Reads(q, books, key)
    BY <1>1, <1>2, <2>1, RowsRead
  <2>3. ASSUME key[1] = "import"
        PROVE  q.imports[key[2]] = books.imports[key[2]]
    <3> DEFINE table == key[1]
               x == key[2]
    <3>1. x \in Imports /\ T = {x}
      BY <1>2, <2>1, <2>3, KeyedParts
    <3>2. Fits(books, own, commands) /\ table \in {"import", "import_delete"}
      BY <1>1, <2>3 DEF Sound
    <3> HIDE DEF table, x
    <3> DEFINE c == RowsOf(books, table, T)
    <3>3. c = RowsOf(books, table, T)
      OBVIOUS
    <3> HIDE DEF c
    <3>4. Fits(c, own, commands) /\ HangTogether(c) /\ c.imports[x] = books.imports[x]
      BY <1>1, <3>1, <3>2, <3>3, ImportRows
    <3> QED
      BY <3>4 DEF table, x, c
  <2> QED
    BY <2>2, <2>3 DEF T
<1> HIDE DEF r
<1>6. key = <<key[1], key[2]>>
  BY <1>2, KeyedParts
<1> HIDE DEF key
<1>7. \A j \in DOMAIN outbox :
        /\ j \in Nat
        /\ outbox[j] = key \/ (j - 1 \in DOMAIN outbox' /\ outbox'[j - 1] = outbox[j])
  <2> TAKE j \in DOMAIN outbox
  <2>1. j \in Nat /\ 1 <= j /\ j <= Len(outbox)
    BY <1>2
  <2>2. CASE j = 1
    BY <1>2, <2>2
  <2>3. CASE j # 1
    <3>1. j - 1 \in DOMAIN outbox' /\ (j - 1) + 1 = j
      BY <1>2, <2>1, <2>3
    <3> QED
      BY <1>2, <2>1, <3>1
  <2> QED
    BY <2>1, <2>2, <2>3
<1>8. \A table, x : Waits(table, x) => <<table, x>> \in Range(outbox') \/ key = <<table, x>>
  BY <1>7 DEF Waits, Range
<1>9. /\ \A table, x : ~InFlight(table, x) /\ (InFlight(table, x)' <=> key = <<table, x>>)
      /\ \A m : ~Writes(m)
  BY <1>4 DEF InFlight, Writes
<1>10. \A m \in Movements : Writes(m)' => r.movement[m] = books.movement[m]
  <2> SUFFICES ASSUME NEW m \in Movements, Writes(m)'
               PROVE  r.movement[m] = books.movement[m]
    OBVIOUS
  <2>1. CASE key = <<"movement", m>>
    BY <1>5, <2>1 DEF Reads
  <2>2. CASE key[1] = "import" /\ m \in Members(r, key[2])
    BY <1>5, <2>2 DEF Reads, Members, Present
  <2> QED
    BY <1>4, <2>1, <2>2 DEF Writes
<1>11. \A m \in Movements : Present(books, m) /\ key = <<"import", books.movement[m].import>> => Writes(m)'
  <2> SUFFICES ASSUME NEW m \in Movements, Present(books, m), key = <<"import", books.movement[m].import>>
               PROVE  Writes(m)'
    OBVIOUS
  <2>1. key[1] = "import" /\ key[2] = books.movement[m].import /\ m \in Members(books, key[2])
    BY DEF Members
  <2>2. r.movement[m] = books.movement[m] /\ r.imports[key[2]] = books.imports[key[2]]
    BY <1>5, <2>1 DEF Reads
  <2>3. m \in Members(r, key[2])
    BY <2>1, <2>2 DEF Members, Present
  <2>4. r.imports[key[2]] # NoRow
    BY <1>1, <2>1, <2>2, TreasuryAssumption DEF HangTogether
  <2> QED
    BY <1>4, <1>6, <2>1, <2>3, <2>4 DEF Writes
<1>12. ASSUME faults = 0 PROVE HomesInv'
  <2> SUFFICES ASSUME NEW m \in Movements, Present(books, m)
               PROVE  LET home == books.movement[m].import IN
                      \/ <<"import", home>> \in Range(outbox')
                      \/ key = <<"import", home>> /\ Writes(m)'
                      \/ /\ Present(cloud, m) /\ cloud.movement[m].import = home
                         /\ Writes(m)' => r.movement[m].import = home
    BY <1>3, <1>4, <1>9 DEF HomesInv, Waits, InFlight, Present
  <2> QED
    BY <1>8, <1>9, <1>10, <1>11, <1>12 DEF DeliveryInv, HomesInv
<1>13. SplitsInv'
  BY <1>3, <1>4, <1>5, <1>9 DEF SplitsInv, Reads, Allocated
<1>14. ASSUME faults = 0 PROVE OwedInv'
  <2> SUFFICES ASSUME NEW table \in Decisions, NEW m \in Movements, Owed(table, m)
               PROVE  \/ Holds(cloud, table, m) \/ <<table, m>> \in Range(outbox')
                      \/ key = <<table, m>> /\ Agree(table, m, r, books)
    BY <1>3, <1>4, <1>9 DEF OwedInv, Waits, InFlight, Holds, Agree, Owed, ByItself, Classified, Allocated
  <2>1. key = <<table, m>> => Agree(table, m, r, books)
    BY <1>5 DEF Agree, Reads, Decisions
  <2> QED
    BY <1>8, <1>9, <1>14, <2>1 DEF DeliveryInv, OwedInv
<1>15. ASSUME faults = 0 PROVE OrderInv'
  <2> SUFFICES ASSUME NEW table \in Decisions, NEW m \in Movements, Owed(table, m), NEW i \in Imports
               PROVE  /\ \A k \in DOMAIN outbox' : outbox'[k] = <<"import_delete", i>> =>
                            SentAfter(table, m, k)' \/ OutOfReach(m, i, k)'
                      /\ key = <<"import_delete", i>> =>
                            <<table, m>> \in Range(outbox') \/ m \notin Members(cloud, i)
    BY <1>3, <1>4, <1>9 DEF OrderInv, Waits, InFlight, Members, Present, Owed, Holds, ByItself, Classified, Allocated
  <2> DEFINE home == books.movement[m].import
  <2>1. \A k \in DOMAIN outbox : outbox[k] = <<"import_delete", i>> =>
            SentAfter(table, m, k) \/ OutOfReach(m, i, k)
    BY <1>15 DEF DeliveryInv, OrderInv
  <2>2. Present(books, m)
    BY <1>1 DEF HangTogether, Owed, Holds, Decisions
  <2>3. ASSUME NEW k \in DOMAIN outbox', outbox'[k] = <<"import_delete", i>>
        PROVE  SentAfter(table, m, k)' \/ OutOfReach(m, i, k)'
    <3>1. k + 1 \in DOMAIN outbox /\ outbox[k + 1] = <<"import_delete", i>> /\ k \in Nat
      BY <1>2, <2>3
    <3>2. ASSUME SentAfter(table, m, k + 1) PROVE SentAfter(table, m, k)'
      <4>1. PICK j \in DOMAIN outbox : j > k + 1 /\ outbox[j] = <<table, m>>
        BY <3>2 DEF SentAfter
      <4>2. j - 1 \in DOMAIN outbox' /\ (j - 1) + 1 = j /\ j - 1 > k
        BY <1>2, <3>1, <4>1
      <4> QED
        BY <1>2, <4>1, <4>2 DEF SentAfter
    <3>3. ASSUME OutOfReach(m, i, k + 1) PROVE OutOfReach(m, i, k)'
      <4> SUFFICES /\ home # i
                   /\ \/ \E j \in DOMAIN outbox' : j < k /\ outbox'[j] = <<"import", home>>
                      \/ key = <<"import", home>> /\ Writes(m)'
                      \/ m \notin Members(cloud, i) /\ (Writes(m)' => r.movement[m].import # i)
        BY <1>3, <1>4, <1>9 DEF OutOfReach, InFlight, Members, Present
      <4>1. /\ home # i
            /\ \/ \E j \in DOMAIN outbox : j < k + 1 /\ outbox[j] = <<"import", home>>
               \/ m \notin Members(cloud, i)
        BY <1>9, <3>3 DEF OutOfReach
      <4> HIDE DEF home
      <4>2. ASSUME NEW j \in DOMAIN outbox, j < k + 1, outbox[j] = <<"import", home>>
            PROVE  \/ \E l \in DOMAIN outbox' : l < k /\ outbox'[l] = <<"import", home>>
                   \/ key = <<"import", home>>
        <5>1. j - 1 < k
          BY <1>7, <3>1, <4>2
        <5> QED
          BY <1>7, <4>2, <5>1
      <4>3. key = <<"import", home>> => Writes(m)'
        BY <1>11, <2>2 DEF home
      <4>4. Writes(m)' => r.movement[m].import = home
        BY <1>10 DEF home
      <4> QED
        BY <4>1, <4>2, <4>3, <4>4
    <3> QED
      BY <2>1, <3>1, <3>2, <3>3
  <2>4. ASSUME key = <<"import_delete", i>>
        PROVE  <<table, m>> \in Range(outbox') \/ m \notin Members(cloud, i)
    <3>1. SentAfter(table, m, 1) \/ OutOfReach(m, i, 1)
      BY <1>2, <2>1, <2>4
    <3>2. SentAfter(table, m, 1) => Waits(table, m)
      BY DEF SentAfter, Waits, Range
    <3>3. key # <<table, m>>
      BY <2>4 DEF Decisions
    <3>4. \A j \in DOMAIN outbox : ~(j < 1)
      BY <1>2
    <3>5. OutOfReach(m, i, 1) => m \notin Members(cloud, i)
      BY <1>9, <3>4 DEF OutOfReach
    <3> QED
      BY <1>8, <3>1, <3>2, <3>3, <3>5
  <2> QED
    BY <2>3, <2>4
<1> QED
  BY <1>3, <1>12, <1>13, <1>14, <1>15 DEF DeliveryInv

LEMMA PushEndHomes ==
    ASSUME NEW own, BooksInv(own), QueueInv, sending' = Idle, UNCHANGED books,
           Range(outbox) \subseteq Range(outbox'),
           \/ cloud' = cloud /\ (sending = Idle \/ sending.key \in Range(outbox'))
           \/ sending # Idle /\ Becomes(cloud')
    PROVE  SplitsInv' /\ (faults = 0 /\ HomesInv => HomesInv')
<1>1. \A table, x : ~InFlight(table, x)' /\ (Waits(table, x) => <<table, x>> \in Range(outbox'))
  BY DEF InFlight, Idle, Waits
<1>2. \A m : ~Writes(m)'
  <2>1. sending'.key = <<>>
    BY DEF Idle
  <2> QED
    BY <2>1 DEF Writes
<1>3. SplitsInv'
  BY <1>1 DEF SplitsInv
<1>4. ASSUME faults = 0, HomesInv PROVE HomesInv'
  <2> SUFFICES ASSUME NEW m \in Movements, Present(books, m)
               PROVE  LET home == books.movement[m].import IN
                      \/ <<"import", home>> \in Range(outbox')
                      \/ Present(cloud', m) /\ cloud'.movement[m].import = home
    BY <1>2 DEF HomesInv, Waits, Present
  <2> DEFINE home == books.movement[m].import
  <2>1. \/ Waits("import", home)
        \/ InFlight("import", home) /\ Writes(m)
        \/ /\ Present(cloud, m) /\ cloud.movement[m].import = home
           /\ Writes(m) => sending.rows.movement[m].import = home
    BY <1>4 DEF HomesInv
  <2>2. home \in Imports /\ books.imports[home] # NoRow
    <3>1. books \in Books /\ HangTogether(books)
      BY DEF BooksInv, Sound, Fits
    <3>2. books.movement[m] \in Movement
      BY <3>1, BookTypes DEF Present
    <3> QED
      BY <3>1, <3>2, TreasuryAssumption DEF HangTogether, Movement
  <2> HIDE DEF home
  <2>3. CASE cloud' = cloud /\ (sending = Idle \/ sending.key \in Range(outbox'))
    <3>1. InFlight("import", home) => <<"import", home>> \in Range(outbox')
      BY <2>3 DEF InFlight, Idle
    <3> QED
      BY <1>1, <2>1, <2>3, <3>1 DEF home
  <2>4. CASE sending # Idle /\ Becomes(cloud')
    <3>1. cloud'.movement[m] = IF Writes(m) THEN sending.rows.movement[m]
                               ELSE IF Erases(m) THEN NoRow ELSE cloud.movement[m]
      BY <2>4 DEF Becomes
    <3>2. sending.key = <<sending.key[1], sending.key[2]>>
          /\ (sending.key[1] = "import_delete" => sending.key[2] \in Imports)
      BY <2>4, KeyedParts DEF BooksInv, InHand
    <3>3. Writes(m) => Present(sending.rows, m)
      BY DEF Writes, Members
    <3>4. CASE InFlight("import", home) /\ Writes(m)
      <4>1. sending.rows.movement[m].import = home
        BY <3>4 DEF InFlight, Writes, Members
      <4> QED
        BY <3>1, <3>3, <3>4, <4>1 DEF Present, home
    <3>5. CASE /\ Present(cloud, m) /\ cloud.movement[m].import = home
               /\ Writes(m) => sending.rows.movement[m].import = home
      <4>1. CASE Writes(m)
        BY <3>1, <3>3, <3>5, <4>1 DEF Present, home
      <4>2. CASE ~Writes(m) /\ Erases(m)
        <5>1. sending.key = <<"import_delete", home>>
          BY <3>2, <3>5, <4>2 DEF Erases, Members
        <5>2. Waits("import", home)
          BY <1>4, <2>2, <5>1 DEF BooksInv, QueueInv, DeletionsInv, InFlight
        <5> QED
          BY <1>1, <5>2 DEF home
      <4>3. CASE ~Writes(m) /\ ~Erases(m)
        BY <3>1, <3>5, <4>3 DEF Present, home
      <4> QED
        BY <4>1, <4>2, <4>3
    <3> QED
      BY <1>1, <2>1, <3>4, <3>5 DEF home
  <2> QED
    BY <2>3, <2>4
<1> QED
  BY <1>3, <1>4

LEMMA FinishPushDelivers ==
    ASSUME NEW own, BooksInv(own), QueueInv, DeliveryInv, FinishPush
    PROVE  DeliveryInv'
<1>1. /\ sending # Idle /\ cloud' = Stored /\ sending' = Idle /\ ~Refused
      /\ books' = books /\ outbox' = outbox /\ faults' = faults
  BY DEF FinishPush
<1>2. InHand(own, commands) /\ sending.key \in Keyed
  BY <1>1 DEF BooksInv, InHand
<1>3. Becomes(cloud')
  BY <1>1, <1>2, Given, StoredSound
<1>4. SplitsInv' /\ (faults = 0 => HomesInv')
  BY <1>1, <1>3, PushEndHomes DEF DeliveryInv
<1>5. /\ \A table, x : ~InFlight(table, x)' /\ (Waits(table, x)' <=> Waits(table, x))
      /\ sending'.key = <<>> /\ sending.key = <<sending.key[1], sending.key[2]>>
      /\ sending.key[1] = "import_delete" => sending.key[2] \in Imports
  BY <1>1, <1>2, KeyedParts DEF InFlight, Idle, Waits
<1>6. \A m : ~Writes(m)'
  BY <1>5 DEF Writes
<1>7. ASSUME faults = 0 PROVE OwedInv'
  <2> SUFFICES ASSUME NEW table \in Decisions, NEW m \in Movements, Owed(table, m)
               PROVE  Holds(cloud', table, m) \/ Waits(table, m)
    BY <1>1, <1>5 DEF OwedInv, Holds, Owed, ByItself, Classified, Allocated
  <2>1. \/ Holds(cloud, table, m) \/ Waits(table, m)
        \/ InFlight(table, m) /\ Agree(table, m, sending.rows, books)
    BY <1>7 DEF DeliveryInv, OwedInv
  <2>2. Erases(m) => Waits(table, m)
    BY <1>5, <1>7 DEF DeliveryInv, OrderInv, Erases, InFlight
  <2>3. CASE table = "annotation"
    BY <1>3, <2>1, <2>2, <2>3 DEF Becomes, Holds, Owed, Agree, Classified, InFlight
  <2>4. CASE table = "allocations"
    <3>1. m \in Allocated(books)
      BY <2>4 DEF Owed, Holds
    <3>2. InFlight("allocations", m) => sending.rows.allocated[m] = books.allocated[m] \/ Waits("allocations", m)
      BY <3>1 DEF DeliveryInv, SplitsInv
    <3>3. cloud'.allocated[m] = IF sending.key = <<"allocations", m>> THEN sending.rows.allocated[m]
                                ELSE IF Erases(m) THEN 0 ELSE cloud.allocated[m]
      BY <1>3 DEF Becomes
    <3> QED
      BY <2>1, <2>2, <2>4, <3>1, <3>2, <3>3 DEF Holds, Allocated, InFlight
  <2> QED
    BY <2>3, <2>4 DEF Decisions
<1>8. ASSUME faults = 0 PROVE OrderInv'
  <2> SUFFICES ASSUME NEW table \in Decisions, NEW m \in Movements, Owed(table, m), NEW i \in Imports,
                      NEW k \in DOMAIN outbox, outbox[k] = <<"import_delete", i>>
               PROVE  SentAfter(table, m, k)' \/ OutOfReach(m, i, k)'
    BY <1>1, <1>5 DEF OrderInv, Owed, Holds, ByItself, Classified, Allocated
  <2>1. SentAfter(table, m, k) \/ OutOfReach(m, i, k)
    BY <1>8 DEF DeliveryInv, OrderInv
  <2>2. SentAfter(table, m, k) => SentAfter(table, m, k)'
    BY <1>1 DEF SentAfter
  <2>3. ASSUME OutOfReach(m, i, k) PROVE OutOfReach(m, i, k)'
    <3> DEFINE home == books.movement[m].import
    <3> SUFFICES /\ home # i
                 /\ \/ \E j \in DOMAIN outbox : j < k /\ outbox[j] = <<"import", home>>
                    \/ m \notin Members(cloud', i)
      BY <1>1, <1>6 DEF OutOfReach, Members, Present
    <3>1. /\ home # i
          /\ \/ \E j \in DOMAIN outbox : j < k /\ outbox[j] = <<"import", home>>
             \/ InFlight("import", home) /\ Writes(m)
             \/ m \notin Members(cloud, i) /\ (Writes(m) => sending.rows.movement[m].import # i)
      BY <2>3 DEF OutOfReach
    <3> HIDE DEF home
    <3>2. cloud'.movement[m] = IF Writes(m) THEN sending.rows.movement[m]
                               ELSE IF Erases(m) THEN NoRow ELSE cloud.movement[m]
      BY <1>3 DEF Becomes
    <3>3. InFlight("import", home) /\ Writes(m) => sending.rows.movement[m].import = home
      BY DEF InFlight, Writes, Members
    <3> QED
      BY <3>1, <3>2, <3>3 DEF Members, Present
  <2> QED
    BY <2>1, <2>2, <2>3
<1> QED
  BY <1>1, <1>4, <1>7, <1>8 DEF DeliveryInv

LEMMA PushFailsDelivers ==
    ASSUME NEW own, BooksInv(own), QueueInv, DeliveryInv, PushFails
    PROVE  DeliveryInv'
<1>1. /\ sending # Idle /\ sending' = Idle
      /\ \/ Refused /\ UNCHANGED <<cloud, faults>>
         \/ ~Refused /\ faults < MaxFaults /\ faults' = faults + 1 /\ cloud' \in {cloud, Stored}
      /\ outbox' = Append(outbox, sending.key) /\ UNCHANGED <<books, journal, commands>>
  BY DEF PushFails
<1>2. /\ InHand(own, commands) /\ sending.key \in Keyed /\ outbox \in Seq(Keyed)
      /\ sending.key = <<sending.key[1], sending.key[2]>> /\ faults \in Nat
  BY <1>1, KeyedParts DEF BooksInv, InHand
<1>3. /\ DOMAIN outbox = 1..Len(outbox) /\ DOMAIN outbox' = 1..(Len(outbox) + 1) /\ Len(outbox) \in Nat
      /\ outbox'[Len(outbox) + 1] = sending.key
      /\ \A k \in DOMAIN outbox : k \in DOMAIN outbox' /\ outbox'[k] = outbox[k]
  BY <1>1, <1>2, AppendProperties, LenProperties
<1>4. Range(outbox) \subseteq Range(outbox') /\ sending.key \in Range(outbox')
  BY <1>3 DEF Range
<1>5. cloud' = cloud \/ Becomes(cloud')
  BY <1>1, <1>2, Given, StoredSound
<1>6. SplitsInv' /\ (faults = 0 => HomesInv')
  BY <1>1, <1>4, <1>5, PushEndHomes DEF DeliveryInv
<1>7. CASE ~Refused
  <2>1. faults' # 0
    BY <1>1, <1>2, <1>7
  <2> QED
    BY <1>6, <2>1 DEF DeliveryInv
<1>8. CASE Refused
  <2>1. /\ cloud' = cloud /\ faults' = faults
        /\ sending.key[1] # "import" /\ sending.key[1] # "import_delete"
    BY <1>1, <1>8 DEF Refused
  <2>2. /\ \A table, x : ~InFlight(table, x)'
        /\ \A table, x : Waits(table, x) \/ InFlight(table, x) => <<table, x>> \in Range(outbox')
        /\ sending'.key = <<>>
    BY <1>1, <1>4 DEF InFlight, Idle, Waits
  <2>3. \A m : ~Writes(m)'
    BY <2>2 DEF Writes
  <2>4. ASSUME faults = 0 PROVE OwedInv'
    <3> SUFFICES ASSUME NEW table \in Decisions, NEW m \in Movements, Owed(table, m)
                 PROVE  Holds(cloud, table, m) \/ <<table, m>> \in Range(outbox')
      BY <1>1, <2>1, <2>2 DEF OwedInv, Holds, Owed, ByItself, Classified, Allocated, Waits
    <3> QED
      BY <2>2, <2>4 DEF DeliveryInv, OwedInv
  <2>5. ASSUME faults = 0 PROVE OrderInv'
    <3> SUFFICES ASSUME NEW table \in Decisions, NEW m \in Movements, Owed(table, m), NEW i \in Imports,
                        NEW k \in DOMAIN outbox', outbox'[k] = <<"import_delete", i>>
                 PROVE  SentAfter(table, m, k)' \/ OutOfReach(m, i, k)'
      BY <1>1, <2>2 DEF OrderInv, Owed, Holds, ByItself, Classified, Allocated
    <3>1. k \in DOMAIN outbox /\ outbox[k] = <<"import_delete", i>>
      BY <1>1, <1>3, <2>1
    <3>2. SentAfter(table, m, k) \/ OutOfReach(m, i, k)
      BY <2>5, <3>1 DEF DeliveryInv, OrderInv
    <3>3. SentAfter(table, m, k) => SentAfter(table, m, k)'
      BY <1>3 DEF SentAfter
    <3>4. ASSUME OutOfReach(m, i, k) PROVE OutOfReach(m, i, k)'
      <4> DEFINE home == books.movement[m].import
      <4> SUFFICES /\ home # i
                   /\ \/ \E j \in DOMAIN outbox' : j < k /\ outbox'[j] = <<"import", home>>
                      \/ m \notin Members(cloud, i)
        BY <1>1, <2>1, <2>3 DEF OutOfReach, Members, Present
      <4>1. ~InFlight("import", home)
        BY <2>1 DEF InFlight
      <4> QED
        BY <1>3, <3>4, <4>1 DEF OutOfReach
    <3> QED
      BY <3>2, <3>3, <3>4
  <2> QED
    BY <1>6, <2>1, <2>4, <2>5 DEF DeliveryInv
<1> QED
  BY <1>7, <1>8

LEMMA WorkerRestartsDelivers ==
    ASSUME NEW own, BooksInv(own), QueueInv, DeliveryInv, WorkerRestarts
    PROVE  DeliveryInv'
<1>1. /\ sending' = Idle /\ faults' = faults + 1
      /\ outbox' = IF sending = Idle THEN outbox ELSE <<sending.key>> \o outbox
      /\ cloud' \in IF sending = Idle \/ Refused THEN {cloud} ELSE {cloud, Stored}
      /\ books' = books
  BY DEF WorkerRestarts
<1>2. outbox \in Seq(Keyed) /\ faults \in Nat /\ (sending # Idle => InHand(own, commands) /\ sending.key \in Keyed)
  BY DEF BooksInv, InHand
<1>3. Range(outbox) \subseteq Range(outbox') /\ (sending = Idle \/ sending.key \in Range(outbox'))
  <2>1. CASE sending = Idle
    BY <1>1, <2>1
  <2>2. CASE sending # Idle
    <3> DEFINE first == <<sending.key>>
    <3>1. first \in Seq(Keyed) /\ sending.key \in Range(first)
      BY <1>2, <2>2 DEF Range
    <3>2. outbox' = first \o outbox
      BY <1>1, <2>2
    <3> HIDE DEF first
    <3>3. Range(first) \subseteq Range(first \o outbox) /\ Range(outbox) \subseteq Range(first \o outbox)
      BY <1>2, <3>1, Joined
    <3> QED
      BY <3>1, <3>2, <3>3
  <2> QED
    BY <2>1, <2>2
<1>4. cloud' = cloud \/ (sending # Idle /\ Becomes(cloud'))
  <2>1. CASE cloud' = cloud
    BY <2>1
  <2>2. CASE cloud' # cloud
    <3>1. sending # Idle /\ ~Refused /\ cloud' = Stored
      BY <1>1, <2>2
    <3> QED
      BY <1>2, <3>1, Given, StoredSound
  <2> QED
    BY <2>1, <2>2
<1>5. SplitsInv'
  BY <1>1, <1>3, <1>4, PushEndHomes DEF DeliveryInv
<1>6. faults' # 0
  BY <1>1, <1>2
<1> QED
  BY <1>5, <1>6 DEF DeliveryInv

-------------------------------------------------------------------------------
(* What commands and undos queue                                           *)

\* The entry a command makes, behind the others.
LEMMA OneMore ==
    ASSUME journal \in Seq(Entries), NEW table, NEW S
    PROVE  LET more == journal \o Prior(table, S)
               e == [table |-> table, of |-> S, rows |-> RowsOf(books, table, S)]
           IN /\ Len(journal) \in Nat /\ DOMAIN journal = 1..Len(journal)
              /\ Len(journal) + 1 \in DOMAIN more /\ more[Len(journal) + 1] = e
              /\ \A n \in DOMAIN journal : n \in DOMAIN more /\ more[n] = journal[n] /\ n < Len(journal) + 1
              /\ \A n \in DOMAIN more : n \in DOMAIN journal \/ n = Len(journal) + 1
<1> DEFINE e == [table |-> table, of |-> S, rows |-> RowsOf(books, table, S)]
           one == <<e>>
           T == Entries \cup {e}
<1>1. journal \in Seq(T) /\ Prior(table, S) = one
  <2>1. Entries \subseteq T
    OBVIOUS
  <2> QED
    BY <2>1, SeqMonotonic DEF Prior, EntryOf
<1>2. one \in Seq(T) /\ DOMAIN one = {1} /\ one[1] = e /\ Len(one) = 1
  OBVIOUS
<1> HIDE DEF one, e, T
<1> DEFINE more == journal \o one
<1>3. /\ Len(journal) \in Nat /\ DOMAIN journal = 1..Len(journal) /\ DOMAIN more = 1..(Len(journal) + Len(one))
      /\ \A n \in DOMAIN journal : n \in DOMAIN more /\ more[n] = journal[n]
      /\ \A n \in DOMAIN one : Len(journal) + n \in DOMAIN more /\ more[Len(journal) + n] = one[n]
  <2>1. more = journal \o one /\ journal \in Seq(T) /\ one \in Seq(T)
    BY <1>1, <1>2
  <2> HIDE DEF more
  <2> QED
    BY <2>1, Joined
<1> HIDE DEF more
<1>4. Len(journal) + 1 \in DOMAIN more /\ more[Len(journal) + 1] = e
  BY <1>2, <1>3
<1>5. \A n \in DOMAIN more : n \in DOMAIN journal \/ n = Len(journal) + 1
  BY <1>2, <1>3
<1>6. \A n \in DOMAIN journal : n < Len(journal) + 1
  BY <1>3
<1> QED
  BY <1>1, <1>3, <1>4, <1>5, <1>6 DEF more, e

\* A correction on the journal is of a movement, in an import numbered before.
LEMMA Home ==
    ASSUME NEW own, BooksInv(own), NEW n \in DOMAIN journal, NEW m, Corrected(journal[n], m)
    PROVE  /\ m \in Movements /\ journal[n].rows.movement[m].import \in Imports
           /\ journal[n].rows.movement[m].import <= commands /\ commands \in Nat
<1> DEFINE r == journal[n].rows
<1>1. Entered(journal[n], own, commands) /\ commands \in Nat
  BY Given DEF BooksInv
<1>2. Fits(r, own, commands) /\ m \in Movements /\ Present(r, m)
  BY <1>1 DEF Entered, Corrected
<1> HIDE DEF r
<1>3. r.movement[m] \in Movement
  BY <1>2, BookTypes DEF Fits, Present
<1> QED
  BY <1>1, <1>2, <1>3 DEF Fits, Movement, r

\* The entries of corrections and deletions are those there were.
Quietly ==
    \A n \in DOMAIN journal' :
        \/ n \in DOMAIN journal /\ journal'[n] = journal[n]
        \/ journal'[n].table \notin {"movement", "import_delete"}

\* Rows leave the tables only with their import.
Lessens ==
    /\ \A i \in Imports : i <= commands => books'.imports[i] \in {NoRow, books.imports[i]}
    /\ \A m \in Movements : Present(books, m) /\ books'.imports[books.movement[m].import] # NoRow => Stays(m)

LEMMA CorrectionsStay ==
    ASSUME NEW own, BooksInv(own), CorrectionsInv, Quietly, Lessens
    PROVE  CorrectionsInv'
<1> SUFFICES ASSUME NEW n \in DOMAIN journal', NEW m \in Movements, Corrected(journal'[n], m)
             PROVE  LET home == journal'[n].rows.movement[m].import IN
                    /\ books'.imports[home] # NoRow => Present(books', m) /\ books'.movement[m].import = home
                    /\ \A k \in DOMAIN journal', i \in Imports : k > n /\ Deleted(journal'[k], i) =>
                        IF i = home THEN m \in Members(journal'[k].rows, i)
                        ELSE m \in Members(journal'[k].rows, i) =>
                            /\ books'.imports[home] = NoRow
                            /\ \A l \in DOMAIN journal' : l > k => ~Deleted(journal'[l], home)
  BY DEF CorrectionsInv, Corrected, Deleted, Members, Present
<1> DEFINE home == journal[n].rows.movement[m].import
<1>1. n \in DOMAIN journal /\ journal'[n] = journal[n] /\ Corrected(journal[n], m)
  BY DEF Quietly, Corrected
<1>2. /\ books.imports[home] # NoRow => Present(books, m) /\ books.movement[m].import = home
      /\ \A k \in DOMAIN journal, i \in Imports : k > n /\ Deleted(journal[k], i) =>
            IF i = home THEN m \in Members(journal[k].rows, i)
            ELSE m \in Members(journal[k].rows, i) =>
                /\ books.imports[home] = NoRow
                /\ \A l \in DOMAIN journal : l > k => ~Deleted(journal[l], home)
  BY <1>1 DEF CorrectionsInv
<1>3. home \in Imports /\ books'.imports[home] \in {NoRow, books.imports[home]}
  BY <1>1, Home DEF Lessens
<1>4. \A k \in DOMAIN journal', i \in Imports : Deleted(journal'[k], i) =>
        k \in DOMAIN journal /\ journal'[k] = journal[k] /\ Deleted(journal[k], i)
  BY DEF Quietly, Deleted
<1>5. journal'[n].rows.movement[m].import = home
  BY <1>1
<1> HIDE DEF home
<1>6. books'.imports[home] # NoRow => Present(books', m) /\ books'.movement[m].import = home
  BY <1>2, <1>3 DEF Lessens, Stays
<1>7. ASSUME NEW k \in DOMAIN journal', NEW i \in Imports, k > n, Deleted(journal'[k], i)
      PROVE  IF i = home THEN m \in Members(journal'[k].rows, i)
             ELSE m \in Members(journal'[k].rows, i) =>
                /\ books'.imports[home] = NoRow
                /\ \A l \in DOMAIN journal' : l > k => ~Deleted(journal'[l], home)
  <2>1. k \in DOMAIN journal /\ journal'[k] = journal[k] /\ Deleted(journal[k], i)
    BY <1>4, <1>7
  <2>2. IF i = home THEN m \in Members(journal[k].rows, i)
        ELSE m \in Members(journal[k].rows, i) =>
            /\ books.imports[home] = NoRow
            /\ \A l \in DOMAIN journal : l > k => ~Deleted(journal[l], home)
    BY <1>2, <1>7, <2>1
  <2> QED
    BY <1>3, <1>4, <2>1, <2>2
<1> QED
  BY <1>5, <1>6, <1>7

Delivers ==
    \E keys \in Seq(Keyed) :
        Settles(keys) /\ outbox' = outbox \o keys /\ UNCHANGED <<cloud, sending, faults>>

LEMMA QuietEntry ==
    ASSUME NEW own, BooksInv(own), NEW table, table \notin {"movement", "import_delete"}, NEW S,
           journal' = journal \o Prior(table, S)
    PROVE  Quietly
<1> DEFINE more == journal \o Prior(table, S)
           e == [table |-> table, of |-> S, rows |-> RowsOf(books, table, S)]
<1>1. journal \in Seq(Entries)
  BY Given
<1>2. /\ more[Len(journal) + 1] = e
      /\ \A n \in DOMAIN journal : more[n] = journal[n]
      /\ \A n \in DOMAIN more : n \in DOMAIN journal \/ n = Len(journal) + 1
  BY <1>1, OneMore
<1>3. journal' = more /\ e.table = table
  OBVIOUS
<1> HIDE DEF more, e
<1> QED
  BY <1>2, <1>3 DEF Quietly

LEMMA QuietNothing ==
    ASSUME NEW own, BooksInv(own), journal' = journal \o <<>>
    PROVE  Quietly
<1>1. journal \o <<>> = journal
  BY Given, ConcatEmptySeq
<1> QED
  BY <1>1 DEF Quietly

LEMMA QuietUndo ==
    ASSUME NEW own, BooksInv(own), journal # <<>>, journal' = Front(journal)
    PROVE  Quietly
BY Newest DEF Quietly

\* Whatever a command removes, what is left it leaves where it was, and what it
\* decides it queues.
LEMMA KeptRows ==
    ASSUME NEW keys \in Seq(Keyed), outbox' = outbox \o keys, UNCHANGED <<cloud, sending, faults>>,
           \A m \in Movements : Present(books', m) => Stays(m),
           \A m \in Movements : books'.annotation[m] # NoRow =>
                \/ Present(books', m) /\ books'.annotation[m] = books.annotation[m]
                \/ <<"annotation", m>> \in Range(keys),
           \A m \in Movements : books'.allocated[m] > 0 =>
                \/ Present(books', m) /\ books'.allocated[m] = books.allocated[m]
                \/ <<"allocations", m>> \in Range(keys),
           \A i : <<"import_delete", i>> \notin Range(keys)
    PROVE  Delivers
<1>1. ASSUME NEW table \in Decisions, NEW m \in Movements, Owed(table, m)', <<table, m>> \notin Range(keys)
      PROVE  Owed(table, m) /\ Stays(m) /\ Agree(table, m, books', books)
  <2>1. CASE table = "annotation"
    BY <1>1, <2>1 DEF Owed, Holds, Agree, ByItself, Classified
  <2>2. CASE table = "allocations"
    BY <1>1, <2>2 DEF Owed, Holds, Agree, Allocated
  <2> QED
    BY <2>1, <2>2 DEF Decisions
<1>2. Settles(keys)
  BY <1>1 DEF Settles
<1> QED
  BY <1>2 DEF Delivers

\* The decisions about movements, and the accounts, but not where the movements are.
LEMMA SameMovements ==
    ASSUME NEW own, BooksInv(own), CorrectionsInv, Quietly, Sound(books', own, commands),
           books'.imports = books.imports, books'.movement = books.movement,
           NEW keys \in Seq(Keyed), outbox' = outbox \o keys, UNCHANGED <<cloud, sending, faults>>,
           \A m \in Movements :
                books'.annotation[m] = books.annotation[m] \/ <<"annotation", m>> \in Range(keys),
           \A m \in Movements :
                books'.allocated[m] = books.allocated[m] \/ <<"allocations", m>> \in Range(keys),
           \A i : <<"import_delete", i>> \notin Range(keys)
    PROVE  Delivers /\ CorrectionsInv'
<1>1. /\ \A m \in Movements : Present(books', m) => Stays(m)
      /\ Lessens
  BY DEF Lessens, Stays, Present
<1>2. \A m \in Movements : books'.annotation[m] # NoRow \/ books'.allocated[m] > 0 => Present(books', m)
  BY DEF Sound, HangTogether, Classified, Allocated
<1> QED
  BY <1>1, <1>2, KeptRows, CorrectionsStay

LEMMA SaveAccountDelivers ==
    ASSUME NEW own, BooksInv(own), CorrectionsInv, NEW a \in Accounts, NEW active \in BOOLEAN,
           SaveAccount(a, active)
    PROVE  Delivers /\ CorrectionsInv'
<1>1. books \in Books /\ Sound(books, own, commands)
  BY Given
<1>2. /\ books' \in Books
      /\ books'.imports = books.imports /\ books'.movement = books.movement
      /\ books'.annotation = books.annotation /\ books'.allocated = books.allocated
  BY <1>1, BookTypes DEF SaveAccount, Books
<1>3. Sound(books', own, commands)
  BY <1>1, <1>2 DEF Sound, Fits, HangTogether, Present, Classified, Allocated
<1> DEFINE keys == <<<<"account", a>>>>
<1>4. keys \in Seq(Keyed) /\ \A x : <<"import_delete", x>> \notin Range(keys)
  BY OneKey DEF Keyed
<1>5. /\ journal' = journal \o Prior("account", {a}) /\ outbox' = outbox \o keys
      /\ UNCHANGED <<cloud, sending, faults>>
  BY DEF SaveAccount, Command
<1>6. Quietly
  BY <1>5, QuietEntry
<1> HIDE DEF keys
<1> QED
  BY <1>2, <1>3, <1>4, <1>5, <1>6, SameMovements

LEMMA AnnotationsDeliver ==
    ASSUME NEW own, BooksInv(own), CorrectionsInv,
           NEW S \in SUBSET Movements, \A m \in S : Present(books, m),
           NEW rows \in [S -> Annotation],
           books' = ReplaceAnnotations(books, rows), Quietly,
           outbox' = outbox \o AnnotationKeys(S), UNCHANGED <<cloud, sending, faults>>
    PROVE  Delivers /\ CorrectionsInv'
<1>1. own \in Owners /\ commands \in Nat /\ Sound(books, own, commands)
  BY Given
<1>2. Sound(books', own, commands) /\ HasAnnotations(books', books, S, rows)
  BY <1>1, AnnotationsSound
<1> DEFINE keys == AnnotationKeys(S)
<1>3. /\ keys \in Seq(Keyed) /\ \A m \in S : <<"annotation", m>> \in Range(keys)
      /\ \A x : <<"import_delete", x>> \notin Range(keys)
  BY KeysMade
<1>4. outbox' = outbox \o keys
  OBVIOUS
<1> HIDE DEF keys
<1>5. /\ books'.imports = books.imports /\ books'.movement = books.movement
      /\ \A m \in Movements :
            /\ books'.annotation[m] = books.annotation[m] \/ <<"annotation", m>> \in Range(keys)
            /\ books'.allocated[m] = books.allocated[m]
  BY <1>2, <1>3 DEF HasAnnotations
<1> QED
  BY <1>2, <1>3, <1>4, <1>5, SameMovements

LEMMA AnnotateDelivers ==
    ASSUME NEW own, BooksInv(own), CorrectionsInv, NEW m \in Movements, NEW dgii \in BOOLEAN,
           AnnotateTransaction(m, dgii)
    PROVE  Delivers /\ CorrectionsInv'
<1> DEFINE S == {m}
           rows == [x \in S |-> Reclassified(books, m, "expense", dgii)]
<1>1. rows \in [S -> Annotation]
  BY RowsMade, Given
<1>2. /\ books' = ReplaceAnnotations(books, rows) /\ Present(books, m)
      /\ Command(Prior("annotation", S), AnnotationKeys(S))
  BY DEF AnnotateTransaction
<1> HIDE DEF rows
<1>3. S \in SUBSET Movements /\ \A x \in S : Present(books, x)
  BY <1>2
<1> HIDE DEF S
<1>4. Quietly
  BY <1>2, QuietEntry DEF Command
<1> QED
  BY <1>1, <1>2, <1>3, <1>4, AnnotationsDeliver DEF Command

LEMMA ReviewDelivers ==
    ASSUME NEW own, BooksInv(own), CorrectionsInv, NEW m \in Movements, NEW fiscal \in Verdicts,
           ReviewReimbursement(m, fiscal)
    PROVE  Delivers /\ CorrectionsInv'
<1> DEFINE S == {m}
           rows == [x \in S |-> Reviewed(books, m, fiscal)]
<1>1. rows \in [S -> Annotation]
  BY RowsMade, Given, TreasuryAssumption DEF Fiscal
<1>2. /\ books' = ReplaceAnnotations(books, rows) /\ Present(books, m)
      /\ Command(Prior("annotation", S), AnnotationKeys(S))
  BY DEF ReviewReimbursement
<1> HIDE DEF rows
<1>3. S \in SUBSET Movements /\ \A x \in S : Present(books, x)
  BY <1>2
<1> HIDE DEF S
<1>4. Quietly
  BY <1>2, QuietEntry DEF Command
<1> QED
  BY <1>1, <1>2, <1>3, <1>4, AnnotationsDeliver DEF Command

LEMMA CardSettlementDelivers ==
    ASSUME NEW own, BooksInv(own), CorrectionsInv, NEW m \in Movements, CreateCardSettlement(m)
    PROVE  Delivers /\ CorrectionsInv'
<1> DEFINE S == {m}
           row == [AnnotationOf(books, m) EXCEPT !.kind = "transfer"]
           rows == [x \in S |-> row]
<1>1. rows \in [S -> Annotation]
  BY RowsMade, Given
<1>2. /\ books' = ReplaceAnnotations(books, rows) /\ Present(books, m)
      /\ Command(<<>>, AnnotationKeys(S))
  BY DEF CreateCardSettlement
<1> HIDE DEF rows
<1>3. S \in SUBSET Movements /\ \A x \in S : Present(books, x)
  BY <1>2
<1> HIDE DEF S
<1>4. Quietly
  BY <1>2, QuietNothing DEF Command
<1> QED
  BY <1>1, <1>2, <1>3, <1>4, AnnotationsDeliver DEF Command

LEMMA RuleDelivers ==
    ASSUME NEW own, BooksInv(own), CorrectionsInv, NEW text, NEW dgii \in BOOLEAN,
           ApplyCounterpartyRule(text, dgii)
    PROVE  Delivers /\ CorrectionsInv'
<1> DEFINE S == {m \in Movements : Present(books, m) /\ TextOf[m] = text
                                   /\ AnnotationOf(books, m).kind = Unset}
           rows == [m \in S |-> Reclassified(books, m, "expense", dgii \/ AnnotationOf(books, m).dgii)]
<1>1. S \in SUBSET Movements /\ (\A m \in S : Present(books, m)) /\ rows \in [S -> Annotation]
  BY RowsMade, Given
<1>2. /\ books' = ReplaceAnnotations(books, rows)
      /\ Command(IF S = {} THEN <<>> ELSE Prior("annotation", S), AnnotationKeys(S))
  BY DEF ApplyCounterpartyRule
<1> HIDE DEF S, rows
<1>3. Quietly
  <2>1. CASE journal' = journal \o <<>>
    BY <2>1, QuietNothing
  <2>2. CASE journal' = journal \o Prior("annotation", S)
    BY <2>2, QuietEntry
  <2> QED
    BY <1>2, <2>1, <2>2 DEF Command
<1> QED
  BY <1>1, <1>2, <1>3, AnnotationsDeliver DEF Command

LEMMA AllocationsDeliver ==
    ASSUME NEW own, BooksInv(own), CorrectionsInv, NEW m \in Movements, NEW total \in Nat,
           total > 0 => Present(books, m),
           books' = [books EXCEPT !.allocated[m] = total], Quietly,
           outbox' = outbox \o AllocationKeys({m}), UNCHANGED <<cloud, sending, faults>>
    PROVE  Delivers /\ CorrectionsInv'
<1>1. /\ own \in Owners /\ commands \in Nat /\ Sound(books, own, commands)
      /\ books.allocated \in [Movements -> Nat]
  BY Given, BookTypes
<1>2. /\ Sound(books', own, commands)
      /\ books'.imports = books.imports /\ books'.movement = books.movement
      /\ books'.annotation = books.annotation /\ books'.allocated = [books.allocated EXCEPT ![m] = total]
  BY <1>1, AllocatedSound
<1> DEFINE keys == AllocationKeys({m})
<1>3. /\ keys \in Seq(Keyed) /\ <<"allocations", m>> \in Range(keys)
      /\ \A x : <<"import_delete", x>> \notin Range(keys)
  BY KeysMade
<1>4. outbox' = outbox \o keys
  OBVIOUS
<1> HIDE DEF keys
<1>5. \A x \in Movements : books'.allocated[x] = books.allocated[x] \/ <<"allocations", x>> \in Range(keys)
  BY <1>1, <1>2, <1>3
<1> QED
  BY <1>2, <1>3, <1>4, <1>5, SameMovements

LEMMA AllocateDelivers ==
    ASSUME NEW own, BooksInv(own), CorrectionsInv, NEW m \in Movements, NEW total \in Shares,
           SetAllocations(m, total)
    PROVE  Delivers /\ CorrectionsInv'
<1>1. /\ books' = [books EXCEPT !.allocated[m] = total] /\ Present(books, m) /\ total \in Nat
      /\ journal' = journal \o Prior("allocations", {m}) /\ outbox' = outbox \o AllocationKeys({m})
      /\ UNCHANGED <<cloud, sending, faults>>
  BY TreasuryAssumption DEF SetAllocations, Command
<1>2. Quietly
  BY <1>1, QuietEntry
<1> QED
  BY <1>1, <1>2, AllocationsDeliver

\* A new entry leaves the others as good as they were.
LEMMA CorrectionsGrow ==
    ASSUME NEW own, BooksInv(own), CorrectionsInv, Lessens, NEW table, NEW S,
           journal' = journal \o Prior(table, S), NEW e,
           e = [table |-> table, of |-> S, rows |-> RowsOf(books, table, S)],
           \A m \in Movements : Corrected(e, m) =>
                Present(books', m) /\ books'.movement[m].import = e.rows.movement[m].import,
           \A i \in Imports : Deleted(e, i) =>
                /\ books.imports[i] # NoRow
                /\ \A m \in Movements : m \in Members(e.rows, i) <=> m \in Members(books, i)
    PROVE  CorrectionsInv'
<1> DEFINE last == Len(journal) + 1
<1>1. /\ Len(journal) \in Nat /\ DOMAIN journal = 1..Len(journal)
      /\ last \in DOMAIN journal' /\ journal'[last] = e
      /\ \A n \in DOMAIN journal : n \in DOMAIN journal' /\ journal'[n] = journal[n] /\ n < last
      /\ \A n \in DOMAIN journal' : n \in DOMAIN journal \/ n = last
  <2> DEFINE more == journal \o Prior(table, S)
  <2>1. journal \in Seq(Entries)
    BY Given
  <2>2. /\ Len(journal) \in Nat /\ DOMAIN journal = 1..Len(journal)
        /\ last \in DOMAIN more /\ more[last] = e
        /\ \A n \in DOMAIN journal : n \in DOMAIN more /\ more[n] = journal[n] /\ n < last
        /\ \A n \in DOMAIN more : n \in DOMAIN journal \/ n = last
    BY <2>1, OneMore
  <2>3. journal' = more
    OBVIOUS
  <2> HIDE DEF more
  <2> QED
    BY <2>2, <2>3
<1> HIDE DEF last
<1> SUFFICES ASSUME NEW n \in DOMAIN journal', NEW m \in Movements, Corrected(journal'[n], m)
             PROVE  LET home == journal'[n].rows.movement[m].import IN
                    /\ books'.imports[home] # NoRow => Present(books', m) /\ books'.movement[m].import = home
                    /\ \A k \in DOMAIN journal', i \in Imports : k > n /\ Deleted(journal'[k], i) =>
                        IF i = home THEN m \in Members(journal'[k].rows, i)
                        ELSE m \in Members(journal'[k].rows, i) =>
                            /\ books'.imports[home] = NoRow
                            /\ \A l \in DOMAIN journal' : l > k => ~Deleted(journal'[l], home)
  BY DEF CorrectionsInv, Corrected, Deleted, Members, Present
<1>2. CASE n = last
  <2>1. \A k \in DOMAIN journal' : ~(k > n)
    BY <1>1, <1>2 DEF last
  <2>2. Present(books', m) /\ books'.movement[m].import = e.rows.movement[m].import
    BY <1>1, <1>2
  <2> QED
    BY <1>1, <1>2, <2>1, <2>2
<1>3. CASE n \in DOMAIN journal
  <2> DEFINE home == journal[n].rows.movement[m].import
  <2>1. journal'[n] = journal[n] /\ Corrected(journal[n], m)
    BY <1>1, <1>3
  <2>2. /\ books.imports[home] # NoRow => Present(books, m) /\ books.movement[m].import = home
        /\ \A k \in DOMAIN journal, i \in Imports : k > n /\ Deleted(journal[k], i) =>
            IF i = home THEN m \in Members(journal[k].rows, i)
            ELSE m \in Members(journal[k].rows, i) =>
                /\ books.imports[home] = NoRow
                /\ \A l \in DOMAIN journal : l > k => ~Deleted(journal[l], home)
    BY <1>3, <2>1 DEF CorrectionsInv
  <2>3. home \in Imports /\ books'.imports[home] \in {NoRow, books.imports[home]}
    BY <1>3, <2>1, Home DEF Lessens
  <2>4. journal'[n].rows.movement[m].import = home
    BY <2>1
  <2> HIDE DEF home
  <2>5. books'.imports[home] # NoRow => Present(books', m) /\ books'.movement[m].import = home
    BY <2>2, <2>3 DEF Lessens, Stays
  <2>6. ASSUME NEW k \in DOMAIN journal', NEW i \in Imports, k > n, Deleted(journal'[k], i)
        PROVE  IF i = home THEN m \in Members(journal'[k].rows, i)
               ELSE m \in Members(journal'[k].rows, i) =>
                    /\ books'.imports[home] = NoRow
                    /\ \A l \in DOMAIN journal' : l > k => ~Deleted(journal'[l], home)
    <3>1. CASE k \in DOMAIN journal
      <4>1. journal'[k] = journal[k] /\ Deleted(journal[k], i)
        BY <1>1, <2>6, <3>1
      <4>2. IF i = home THEN m \in Members(journal[k].rows, i)
            ELSE m \in Members(journal[k].rows, i) =>
                /\ books.imports[home] = NoRow
                /\ \A l \in DOMAIN journal : l > k => ~Deleted(journal[l], home)
        BY <2>2, <2>6, <3>1, <4>1
      <4>3. books.imports[home] = NoRow => ~Deleted(e, home)
        BY <2>3
      <4> QED
        BY <1>1, <2>3, <4>1, <4>2, <4>3
    <3>2. CASE k = last
      <4>1. Deleted(e, i) /\ journal'[k] = e /\ \A l \in DOMAIN journal' : ~(l > k)
        BY <1>1, <2>6, <3>2 DEF last
      <4>2. m \in Members(e.rows, i) <=> m \in Members(books, i)
        BY <4>1
      <4>3. CASE i = home
        BY <2>2, <4>1, <4>2, <4>3 DEF Members
      <4>4. CASE i # home
        <5>1. m \in Members(books, i) => books.imports[home] = NoRow
          BY <2>2, <4>4 DEF Members
        <5> QED
          BY <2>3, <4>1, <4>2, <4>4, <5>1
      <4> QED
        BY <4>3, <4>4
    <3> QED
      BY <1>1, <3>1, <3>2
  <2> QED
    BY <2>4, <2>5, <2>6
<1> QED
  BY <1>1, <1>2, <1>3

LEMMA CorrectDelivers ==
    ASSUME NEW own, BooksInv(own), CorrectionsInv, NEW m \in Movements, NEW amount \in Amounts,
           CorrectTransaction(m, amount)
    PROVE  Delivers /\ CorrectionsInv'
<1> DEFINE row == [books.movement[m] EXCEPT !.amount = amount]
           keys == <<<<"movement", m>>>>
           S == {m}
           e == [table |-> "movement", of |-> S, rows |-> RowsOf(books, "movement", S)]
<1>1. /\ own \in Owners /\ commands \in Nat /\ books \in Books /\ Sound(books, own, commands)
      /\ Fits(books, own, commands) /\ HangTogether(books)
  BY Given DEF Sound
<1>2. books.movement[m] \in Movement /\ Present(books, m)
  BY <1>1, BookTypes DEF CorrectTransaction, Present
<1>3. row \in Movement /\ row.import = books.movement[m].import
  BY <1>2 DEF Movement
<1>4. books' = [books EXCEPT !.movement[m] = row]
  BY DEF CorrectTransaction
<1> HIDE DEF row
<1>5. books.imports[row.import] # NoRow /\ own[row.import] = AccountOf[m] /\ row.import <= commands
  BY <1>1, <1>2, <1>3, TreasuryAssumption DEF HangTogether, Fits
<1>6. /\ books'.imports = books.imports
      /\ books'.annotation = books.annotation /\ books'.allocated = books.allocated
      /\ books'.movement = [books.movement EXCEPT ![m] = row] /\ HangTogether(books')
  BY <1>1, <1>3, <1>4, <1>5, PutMovementSound DEF Sound
<1>7. \A x \in Movements : Present(books, x) \/ Present(books', x) => Stays(x)
  <2>1. \A x \in Movements : books'.movement[x] = IF x = m THEN row ELSE books.movement[x]
    BY <1>1, <1>6, BookTypes
  <2>2. row # NoRow
    BY <1>3, RowsAssumption
  <2> QED
    BY <1>2, <1>3, <2>1, <2>2 DEF Stays, Present
<1>8. keys \in Seq(Keyed) /\ \A x : <<"import_delete", x>> \notin Range(keys)
  BY OneKey DEF Keyed
<1>9. /\ journal' = journal \o Prior("movement", S) /\ outbox' = outbox \o keys
      /\ UNCHANGED <<cloud, sending, faults>>
  BY DEF CorrectTransaction, Command
<1> HIDE DEF keys
<1>10. Delivers
  <2>1. \A x \in Movements : books'.annotation[x] # NoRow \/ books'.allocated[x] > 0 => Present(books', x)
    BY <1>6 DEF HangTogether, Classified, Allocated
  <2> QED
    BY <1>6, <1>7, <1>8, <1>9, <2>1, KeptRows
<1>11. Lessens
  BY <1>6, <1>7 DEF Lessens
<1>12. e.rows.movement[m] = books.movement[m]
  BY <1>1, ColumnRows
<1>13. \A x \in Movements : Corrected(e, x) =>
        Present(books', x) /\ books'.movement[x].import = e.rows.movement[x].import
  <2>1. ASSUME NEW x \in Movements, Corrected(e, x) PROVE x = m
    BY <2>1 DEF Corrected
  <2> QED
    BY <1>2, <1>7, <1>12, <2>1 DEF Stays
<1>14. \A i : ~Deleted(e, i)
  BY DEF Deleted
<1> DEFINE prior == e
<1>15. prior = [table |-> "movement", of |-> S, rows |-> RowsOf(books, "movement", S)]
  OBVIOUS
<1> HIDE DEF e, S
<1>16. CorrectionsInv'
  BY <1>9, <1>11, <1>13, <1>14, <1>15, CorrectionsGrow
<1> QED
  BY <1>10, <1>16

LEMMA DeleteImportDelivers ==
    ASSUME NEW own, BooksInv(own), CorrectionsInv, NEW i \in Imports, DeleteImport(i)
    PROVE  Delivers /\ CorrectionsInv'
<1> DEFINE keys == <<<<"import_delete", i>>>>
           c == WithoutImport(books, i)
           S == {i}
           e == [table |-> "import_delete", of |-> S, rows |-> RowsOf(books, "import_delete", S)]
<1>1. /\ own \in Owners /\ commands \in Nat /\ books \in Books /\ Sound(books, own, commands)
      /\ Fits(books, own, commands) /\ HangTogether(books)
  BY Given DEF Sound
<1>2. Sound(c, own, commands) /\ LacksImport(c, books, i)
  BY <1>1, WithoutImportSound
<1> HIDE DEF c
<1>3. /\ books' = c /\ books.imports[i] # NoRow
      /\ journal' = journal \o Prior("import_delete", S) /\ outbox' = outbox \o keys
      /\ UNCHANGED <<cloud, sending, faults>>
  BY DEF DeleteImport, c, Command
<1>4. keys \in Seq(Keyed) /\ \A x : x \in Range(keys) <=> x = <<"import_delete", i>>
  BY OneKey DEF Keyed
<1> HIDE DEF keys
<1>5. /\ books'.imports[i] = NoRow
      /\ \A x \in Imports : books'.imports[x] \in {NoRow, books.imports[x]}
      /\ \A m \in Movements :
            /\ Present(books', m) => Stays(m)
            /\ books'.annotation[m] # NoRow => books'.annotation[m] = books.annotation[m]
            /\ books'.allocated[m] > 0 => books'.allocated[m] = books.allocated[m]
  BY <1>2, <1>3 DEF LacksImport, Present, Stays
<1>6. \A m \in Movements : books'.annotation[m] # NoRow \/ books'.allocated[m] > 0 => Present(books', m)
  BY <1>2, <1>3 DEF Sound, HangTogether, Classified, Allocated
<1>7. Settles(keys)
  <2>1. ASSUME NEW table \in Decisions, NEW m \in Movements, Owed(table, m)'
        PROVE  Owed(table, m) /\ Stays(m) /\ Agree(table, m, books', books)
    <3>1. CASE table = "annotation"
      BY <1>5, <1>6, <2>1, <3>1 DEF Owed, Holds, Agree, ByItself, Classified
    <3>2. CASE table = "allocations"
      BY <1>5, <1>6, <2>1, <3>2 DEF Owed, Holds, Agree, Allocated
    <3> QED
      BY <3>1, <3>2 DEF Decisions
  <2>2. \A table \in Decisions, m \in Movements : <<table, m>> \notin Range(keys)
    BY <1>4 DEF Decisions
  <2>3. \A x \in Imports : <<"import_delete", x>> \in Range(keys) => x = i
    BY <1>4
  <2> QED
    BY <1>5, <2>1, <2>2, <2>3 DEF Settles
<1>8. Lessens
  <2>1. ASSUME NEW m \in Movements, Present(books, m), books'.imports[books.movement[m].import] # NoRow
        PROVE  Stays(m)
    <3>1. m \notin Members(books, i)
      BY <1>5, <2>1 DEF Members
    <3> QED
      BY <1>2, <1>3, <2>1, <3>1 DEF LacksImport, Stays, Present
  <2> QED
    BY <1>5, <2>1 DEF Lessens
<1>9. \A m \in Movements : m \in Members(e.rows, i) <=> m \in Members(books, i)
  <2> DEFINE r == RowsOf(books, "import_delete", S)
  <2>1. \A m \in Movements : IF m \in Members(books, i) THEN r.movement[m] = books.movement[m]
                             ELSE r.movement[m] = NoRow
    BY <1>1, ImportRows
  <2>2. e.rows = r
    OBVIOUS
  <2> HIDE DEF r, e
  <2> QED
    BY <2>1, <2>2 DEF Members, Present
<1>10. /\ \A m : ~Corrected(e, m)
       /\ \A x \in Imports : Deleted(e, x) => x = i
  BY DEF Corrected, Deleted
<1> DEFINE prior == e
<1>11. prior = [table |-> "import_delete", of |-> S, rows |-> RowsOf(books, "import_delete", S)]
  OBVIOUS
<1> HIDE DEF e, S
<1>12. \A x \in Imports : Deleted(prior, x) =>
        /\ books.imports[x] # NoRow
        /\ \A m \in Movements : m \in Members(prior.rows, x) <=> m \in Members(books, x)
  BY <1>3, <1>9, <1>10
<1>13. CorrectionsInv'
  BY <1>3, <1>8, <1>10, <1>11, <1>12, CorrectionsGrow
<1> QED
  BY <1>3, <1>4, <1>7, <1>13 DEF Delivers

LEMMA ImportDelivers ==
    ASSUME NEW own, BooksInv(own), CorrectionsInv, NEW a \in Accounts,
           NEW lines \in SUBSET Movements, NEW auto \in SUBSET Movements, ImportStatement(a, lines, auto)
    PROVE  Delivers /\ CorrectionsInv'
<1> DEFINE i == commands + 1
           new == {m \in lines : ~Present(books, m)}
           next == [own EXCEPT ![i] = a]
           keys == <<<<"import", i>>>>
<1>1. /\ own \in Owners /\ commands \in Nat /\ books \in Books
      /\ Sound(books, own, commands) /\ HangTogether(books)
  BY Given DEF Sound
<1>2. /\ i \in Imports /\ new \in SUBSET Movements /\ auto \in SUBSET new
      /\ \A m \in new : ~Present(books, m) /\ AccountOf[m] = a
      /\ books' = WithStatement(books, a, i, new, auto)
      /\ journal' = journal \o <<>> /\ outbox' = outbox \o keys /\ UNCHANGED <<cloud, sending, faults>>
  BY <1>1, TreasuryAssumption DEF ImportStatement, Command, Imports, WithStatement
<1> HIDE DEF new, i, keys
<1> DEFINE c == WithStatement(books, a, i, new, auto)
<1> HIDE DEF next
<1>3. Sound(c, next, i) /\ HasStatement(c, books, a, i, new, auto)
  <2>1. /\ i = commands + 1 /\ next \in Owners
        /\ \A k \in Imports : next[k] = IF k = i THEN a ELSE own[k]
    BY <1>1, <1>2 DEF i, next, Owners
  <2> QED
    BY <1>1, <1>2, <2>1, ImportSound
<1> HIDE DEF c
<1>4. /\ keys \in Seq(Keyed) /\ <<"import", i>> \in Range(keys)
      /\ \A x : <<"import_delete", x>> \notin Range(keys)
  BY <1>2, OneKey DEF Keyed, keys
<1>5. /\ \A k \in Imports : k <= commands => books'.imports[k] = books.imports[k]
      /\ books'.allocated = books.allocated
      /\ \A m \in new : ~Present(books, m) /\ books'.movement[m].import = i
      /\ \A m \in Movements \ new : books'.movement[m] = books.movement[m]
      /\ \A m \in Movements : books'.annotation[m] = IF m \in auto THEN ByRule ELSE books.annotation[m]
  BY <1>1, <1>2, <1>3 DEF HasStatement, c, i
<1>6. \A m \in Movements : books.annotation[m] # NoRow \/ books.allocated[m] > 0 => Present(books, m)
  BY <1>1 DEF HangTogether, Classified, Allocated
<1>7. \A m \in Movements : Present(books, m) => Stays(m)
  BY <1>5 DEF Stays, Present
<1>8. Settles(keys)
  <2>1. ASSUME NEW m \in Movements, Present(books', m)
        PROVE  Stays(m) \/ <<"import", books'.movement[m].import>> \in Range(keys)
    BY <1>4, <1>5, <2>1 DEF Stays, Present
  <2>2. ASSUME NEW table \in Decisions, NEW m \in Movements, Owed(table, m)'
        PROVE  Owed(table, m) /\ Stays(m) /\ Agree(table, m, books', books)
    <3>1. CASE table = "annotation"
      <4>1. books'.annotation[m] # NoRow /\ books'.annotation[m] # ByRule
        BY <2>2, <3>1 DEF Owed, Holds, ByItself, ByRule, Classified
      <4>2. books'.annotation[m] = books.annotation[m]
        BY <1>5, <4>1
      <4> QED
        BY <1>6, <1>7, <3>1, <4>1, <4>2 DEF Owed, Holds, Agree, ByItself, ByRule, Classified
    <3>2. CASE table = "allocations"
      BY <1>5, <1>6, <1>7, <2>2, <3>2 DEF Owed, Holds, Agree, Allocated
    <3> QED
      BY <3>1, <3>2 DEF Decisions
  <2> QED
    BY <1>4, <2>1, <2>2 DEF Settles
<1>9. Quietly
  BY <1>2, QuietNothing
<1>10. Lessens
  BY <1>5, <1>7 DEF Lessens
<1> QED
  BY <1>2, <1>4, <1>8, <1>9, <1>10, CorrectionsStay DEF Delivers

LEMMA UndoAnnotationsDelivers ==
    ASSUME NEW own, BooksInv(own), CorrectionsInv, UndoAnnotations
    PROVE  Delivers /\ CorrectionsInv'
<1> DEFINE S == Entry.of
           rows == [m \in S |-> AnnotationOf(Entry.rows, m)]
<1>1. /\ journal # <<>> /\ Entry.table = "annotation" /\ Entered(Entry, own, commands)
      /\ S \in SUBSET Movements /\ \A m \in S : Present(books, m)
  BY Newest DEF UndoAnnotations, NewestIs, Entered, HasMovement
<1>2. rows \in [S -> Annotation]
  BY <1>1, RowsMade DEF Entered, Fits
<1>3. Undo(ReplaceAnnotations(books, rows), AnnotationKeys(S))
  BY DEF UndoAnnotations, RestorePriors
<1> HIDE DEF S, rows
<1>4. Quietly
  BY <1>1, <1>3, QuietUndo DEF Undo
<1> QED
  BY <1>1, <1>2, <1>3, <1>4, AnnotationsDeliver DEF Undo

LEMMA UndoAllocationsDelivers ==
    ASSUME NEW own, BooksInv(own), CorrectionsInv, UndoAllocations
    PROVE  Delivers /\ CorrectionsInv'
<1>1. /\ journal # <<>> /\ Entry.table = "allocations" /\ Entered(Entry, own, commands)
      /\ Entry.rows.allocated \in [Movements -> Nat]
  BY Newest, BookTypes DEF UndoAllocations, NewestIs, Entered, Fits
<1>2. PICK m \in Entry.of :
        /\ Entry.rows.allocated[m] > 0 => HasMovement({m})
        /\ Undo([books EXCEPT !.allocated[m] = Entry.rows.allocated[m]], AllocationKeys({m}))
  BY DEF UndoAllocations
<1> DEFINE total == Entry.rows.allocated[m]
<1>3. /\ m \in Movements /\ total \in Nat /\ (total > 0 => Present(books, m))
      /\ Undo([books EXCEPT !.allocated[m] = total], AllocationKeys({m}))
  BY <1>1, <1>2 DEF Entered, HasMovement
<1> HIDE DEF total
<1>4. Quietly
  BY <1>1, <1>3, QuietUndo DEF Undo
<1> QED
  BY <1>3, <1>4, AllocationsDeliver DEF Undo

LEMMA UndoCorrectionDelivers ==
    ASSUME NEW own, BooksInv(own), CorrectionsInv, UndoCorrection
    PROVE  Delivers /\ CorrectionsInv'
<1>1. own \in Owners /\ commands \in Nat /\ books \in Books /\ Sound(books, own, commands)
  BY Given
<1>2. /\ journal # <<>> /\ Entry.table = "movement" /\ Entered(Entry, own, commands)
      /\ Fits(Entry.rows, own, commands)
      /\ Len(journal) \in DOMAIN journal /\ Entry = journal[Len(journal)]
  BY Newest DEF UndoCorrection, NewestIs, Entered
<1>3. PICK m \in Entry.of :
        /\ books.imports[Entry.rows.movement[m].import] # NoRow
        /\ Undo(ReplaceMovement(books, m, Entry.rows.movement[m]), <<<<"movement", m>>>>)
  BY DEF UndoCorrection
<1> DEFINE row == Entry.rows.movement[m]
           keys == <<<<"movement", m>>>>
           restored == ReplaceMovement(books, m, row)
<1>4. m \in Movements /\ Present(Entry.rows, m) /\ Entry.rows \in Books
  BY <1>2, <1>3 DEF Entered, Fits
<1>5. /\ row \in Movement /\ row # NoRow /\ books.imports[row.import] # NoRow
      /\ own[row.import] = AccountOf[m] /\ row.import <= commands
  BY <1>2, <1>3, <1>4, BookTypes, RowsAssumption DEF Fits, Present
<1>6. Present(books, m) /\ books.movement[m].import = row.import
  BY <1>2, <1>3, <1>4, <1>5 DEF CorrectionsInv, Corrected
<1>7. books' = restored /\ Undo(restored, keys)
  BY <1>3 DEF Undo
<1>8. keys \in Seq(Keyed) /\ \A x : <<"import_delete", x>> \notin Range(keys)
  BY <1>4, OneKey DEF Keyed
<1> HIDE DEF row, keys
<1>9. /\ Sound(restored, own, commands)
      /\ restored.active = books.active /\ restored.imports = books.imports
      /\ \A k \in Movements :
            /\ restored.movement[k] = IF k = m THEN row ELSE books.movement[k]
            /\ restored.annotation[k] = IF k = m THEN NoRow ELSE books.annotation[k]
            /\ restored.allocated[k] = IF k = m THEN 0 ELSE books.allocated[k]
  BY <1>1, <1>4, <1>5, ReplaceMovementSound
<1> HIDE DEF restored
<1>10. \A k \in Movements : Present(books, k) \/ Present(books', k) => Stays(k)
  BY <1>5, <1>6, <1>7, <1>9 DEF Stays, Present
<1>11. \A k \in Movements :
        /\ books'.annotation[k] # NoRow => Present(books', k) /\ books'.annotation[k] = books.annotation[k]
        /\ books'.allocated[k] > 0 => Present(books', k) /\ books'.allocated[k] = books.allocated[k]
  BY <1>7, <1>9 DEF Sound, HangTogether, Classified, Allocated
<1>12. Quietly
  BY <1>2, <1>7, QuietUndo DEF Undo
<1>13. Lessens
  BY <1>7, <1>9, <1>10 DEF Lessens
<1>14. outbox' = outbox \o keys /\ UNCHANGED <<cloud, sending, faults>>
  BY <1>7 DEF Undo
<1>15. Delivers
  BY <1>8, <1>10, <1>11, <1>14, KeptRows
<1> QED
  BY <1>12, <1>13, <1>15, CorrectionsStay

LEMMA UndoAccountDelivers ==
    ASSUME NEW own, BooksInv(own), CorrectionsInv, UndoAccount
    PROVE  Delivers /\ CorrectionsInv'
<1>1. own \in Owners /\ commands \in Nat /\ books \in Books /\ Sound(books, own, commands)
  BY Given
<1>2. journal # <<>> /\ Entry.table = "account" /\ Entered(Entry, own, commands)
      /\ Fits(Entry.rows, own, commands)
  BY Newest DEF UndoAccount, NewestIs, Entered
<1>3. PICK a \in Entry.of :
        Undo(ReplaceAccount(books, a, Entry.rows.active[a]), <<<<"account", a>>>>)
  BY DEF UndoAccount
<1> DEFINE active == Entry.rows.active[a]
           keys == <<<<"account", a>>>>
           restored == ReplaceAccount(books, a, active)
<1>4. a \in Accounts /\ active \in BOOLEAN
  BY <1>2, <1>3, BookTypes DEF Entered, Fits
<1>5. books' = restored /\ Undo(restored, keys)
  BY <1>3 DEF Undo
<1>6. keys \in Seq(Keyed) /\ \A x : <<"import_delete", x>> \notin Range(keys)
  BY <1>4, OneKey DEF Keyed
<1> HIDE DEF active, keys
<1>7. /\ Sound(restored, own, commands)
      /\ restored.active = [books.active EXCEPT ![a] = active]
      /\ \A i \in Imports : restored.imports[i] \in {NoRow, books.imports[i]}
      /\ \A m \in Movements :
            /\ restored.movement[m] \in {NoRow, books.movement[m]}
            /\ restored.annotation[m] \in {NoRow, books.annotation[m]}
            /\ restored.allocated[m] \in {0, books.allocated[m]}
            /\ Present(books, m) /\ restored.imports[books.movement[m].import] # NoRow =>
                    restored.movement[m] = books.movement[m]
  BY <1>1, <1>4, ReplaceAccountSound
<1> HIDE DEF restored
<1>8. \A m \in Movements : Present(books', m) => Stays(m)
  BY <1>5, <1>7 DEF Stays, Present
<1>9. \A m \in Movements :
        /\ books'.annotation[m] # NoRow => Present(books', m) /\ books'.annotation[m] = books.annotation[m]
        /\ books'.allocated[m] > 0 => Present(books', m) /\ books'.allocated[m] = books.allocated[m]
  BY <1>5, <1>7 DEF Sound, HangTogether, Classified, Allocated
<1>10. Lessens
  BY <1>5, <1>7 DEF Lessens, Stays, Present
<1>11. Quietly
  BY <1>2, <1>5, QuietUndo DEF Undo
<1>12. outbox' = outbox \o keys /\ UNCHANGED <<cloud, sending, faults>>
  BY <1>5 DEF Undo
<1>13. Delivers
  BY <1>6, <1>8, <1>9, <1>12, KeptRows
<1> QED
  BY <1>10, <1>11, <1>13, CorrectionsStay

\* To take a deletion back is sound for the corrections before it.
LEMMA CorrectionsReturn ==
    ASSUME NEW own, BooksInv(own), CorrectionsInv, journal # <<>>, journal' = Front(journal),
           NEW i \in Imports, Deleted(Entry, i), HasRestored(books', books, Entry.rows, i)
    PROVE  CorrectionsInv'
<1> DEFINE last == Len(journal)
           S == Members(Entry.rows, i)
<1>1. /\ last \in DOMAIN journal /\ Entry = journal[last]
      /\ \A k \in DOMAIN journal' : k \in DOMAIN journal /\ journal'[k] = journal[k] /\ k < last
  BY Newest
<1>2. \A m \in Movements : m \in S => Present(Entry.rows, m) /\ Entry.rows.movement[m].import = i
  BY DEF Members
<1> HIDE DEF last, S
<1>3. /\ \A k \in Imports : k # i => books'.imports[k] = books.imports[k]
      /\ \A m \in Movements : m \in S => Present(books', m) /\ books'.movement[m].import = i
      /\ \A m \in Movements : m \notin S => books'.movement[m] = books.movement[m]
  BY <1>2 DEF HasRestored, Present, S
<1> SUFFICES ASSUME NEW n \in DOMAIN journal', NEW m \in Movements, Corrected(journal'[n], m)
             PROVE  LET home == journal'[n].rows.movement[m].import IN
                    /\ books'.imports[home] # NoRow => Present(books', m) /\ books'.movement[m].import = home
                    /\ \A k \in DOMAIN journal', x \in Imports : k > n /\ Deleted(journal'[k], x) =>
                        IF x = home THEN m \in Members(journal'[k].rows, x)
                        ELSE m \in Members(journal'[k].rows, x) =>
                            /\ books'.imports[home] = NoRow
                            /\ \A l \in DOMAIN journal' : l > k => ~Deleted(journal'[l], home)
  BY DEF CorrectionsInv, Corrected, Deleted, Members, Present
<1> DEFINE home == journal[n].rows.movement[m].import
<1>4. n \in DOMAIN journal /\ journal'[n] = journal[n] /\ Corrected(journal[n], m) /\ n < last
  BY <1>1
<1>5. /\ books.imports[home] # NoRow => Present(books, m) /\ books.movement[m].import = home
      /\ \A k \in DOMAIN journal, x \in Imports : k > n /\ Deleted(journal[k], x) =>
            IF x = home THEN m \in Members(journal[k].rows, x)
            ELSE m \in Members(journal[k].rows, x) =>
                /\ books.imports[home] = NoRow
                /\ \A l \in DOMAIN journal : l > k => ~Deleted(journal[l], home)
  BY <1>4 DEF CorrectionsInv
<1>6. home \in Imports /\ journal'[n].rows.movement[m].import = home
  BY <1>4, Home
<1> HIDE DEF home
<1>7. \A k \in DOMAIN journal' : k \in Int /\ last \in Int /\ n \in Int
  BY <1>1, <1>4, Newest DEF last
<1>8. IF i = home THEN m \in S ELSE m \in S => books.imports[home] = NoRow
  <2>1. last > n
    BY <1>4, <1>7
  <2> QED
    BY <1>1, <1>5, <2>1 DEF S
<1>9. books'.imports[home] # NoRow => Present(books', m) /\ books'.movement[m].import = home
  BY <1>3, <1>5, <1>6, <1>8 DEF Present
<1>10. ASSUME NEW k \in DOMAIN journal', NEW x \in Imports, k > n, Deleted(journal'[k], x)
       PROVE  IF x = home THEN m \in Members(journal'[k].rows, x)
              ELSE m \in Members(journal'[k].rows, x) =>
                /\ books'.imports[home] = NoRow
                /\ \A l \in DOMAIN journal' : l > k => ~Deleted(journal'[l], home)
  <2>1. k \in DOMAIN journal /\ journal'[k] = journal[k] /\ k < last /\ last > k
    BY <1>1, <1>7
  <2>2. IF x = home THEN m \in Members(journal[k].rows, x)
        ELSE m \in Members(journal[k].rows, x) =>
            /\ books.imports[home] = NoRow
            /\ \A l \in DOMAIN journal : l > k => ~Deleted(journal[l], home)
    BY <1>5, <1>10, <2>1
  <2>3. (\A l \in DOMAIN journal : l > k => ~Deleted(journal[l], home)) => home # i
    BY <1>1, <2>1
  <2> QED
    BY <1>1, <1>3, <1>6, <2>1, <2>2, <2>3
<1> QED
  BY <1>6, <1>9, <1>10

LEMMA UndoDeleteDelivers ==
    ASSUME NEW own, BooksInv(own), CorrectionsInv, UndoDelete
    PROVE  Delivers /\ CorrectionsInv'
<1> DEFINE before == Entry.rows
<1>1. own \in Owners /\ commands \in Nat /\ books \in Books /\ Sound(books, own, commands)
  BY Given
<1>2. journal # <<>> /\ Entry.table = "import_delete" /\ Entered(Entry, own, commands)
      /\ Sound(before, own, commands) /\ before \in Books
  BY Newest DEF UndoDelete, NewestIs, Entered, Sound, Fits
<1>3. PICK i \in Entry.of :
        Undo(Restored(books, before, i),
             <<<<"import", i>>>> \o AnnotationKeys(Members(before, i) \cap Classified(before))
                                 \o AllocationKeys(Members(before, i) \cap Allocated(before)))
  BY DEF UndoDelete, Restored
<1> DEFINE S == Members(before, i)
           A == S \cap Classified(before)
           L == S \cap Allocated(before)
           keys == <<<<"import", i>>>> \o AnnotationKeys(A) \o AllocationKeys(L)
           restored == Restored(books, before, i)
<1>4. i \in Imports /\ before.imports[i] # NoRow /\ Deleted(Entry, i)
  BY <1>2, <1>3 DEF Entered, Deleted
<1>5. /\ books' = restored /\ journal' = Front(journal) /\ outbox' = outbox \o keys
      /\ UNCHANGED <<cloud, sending, faults>>
  BY <1>3 DEF Undo
<1>6. S \in SUBSET Movements /\ A \in SUBSET Movements /\ L \in SUBSET Movements
      /\ \A m \in S : Present(before, m) /\ before.movement[m].import = i
  BY DEF Members
<1>7. HasRestored(restored, books, before, i)
  BY <1>1, <1>2, <1>4, RestoredSound
<1>8. CorrectionsInv'
  <2>1. HasRestored(books', books, Entry.rows, i)
    BY <1>5, <1>7
  <2> QED
    BY <1>2, <1>4, <1>5, <2>1, CorrectionsReturn
<1> HIDE DEF restored, before, S, A, L
<1>9. /\ keys \in Seq(Keyed) /\ <<"import", i>> \in Range(keys)
      /\ \A m \in A : <<"annotation", m>> \in Range(keys)
      /\ \A m \in L : <<"allocations", m>> \in Range(keys)
      /\ \A x : <<"import_delete", x>> \notin Range(keys)
  BY <1>4, <1>6, RestoredKeys
<1> HIDE DEF keys
<1>10. \A m \in Movements :
        /\ m \in S => Present(books', m) /\ books'.movement[m].import = i
        /\ m \notin S => books'.movement[m] = books.movement[m]
        /\ m \notin S => books'.annotation[m] = books.annotation[m]
        /\ m \notin S => books'.allocated[m] = books.allocated[m]
        /\ m \in S /\ books'.annotation[m] # NoRow => m \in A
        /\ m \in S /\ books'.allocated[m] > 0 => m \in L
  BY <1>5, <1>6, <1>7 DEF HasRestored, S, A, L, Classified, Allocated, Present
<1>11. \A m \in Movements : books.annotation[m] # NoRow \/ books.allocated[m] > 0 => Present(books, m)
  BY <1>1 DEF Sound, HangTogether, Classified, Allocated
<1>12. Settles(keys)
  <2>1. ASSUME NEW m \in Movements, Present(books', m)
        PROVE  Stays(m) \/ <<"import", books'.movement[m].import>> \in Range(keys)
    BY <1>9, <1>10, <2>1 DEF Stays, Present
  <2>2. ASSUME NEW table \in Decisions, NEW m \in Movements, Owed(table, m)'
        PROVE  \/ <<table, m>> \in Range(keys)
               \/ Owed(table, m) /\ Stays(m) /\ Agree(table, m, books', books)
    <3>1. CASE table = "annotation"
      <4>1. books'.annotation[m] # NoRow /\ ~ByItself(m)'
        BY <2>2, <3>1 DEF Owed, Holds, Classified
      <4>2. CASE m \in S
        BY <1>9, <1>10, <3>1, <4>1, <4>2
      <4>3. CASE m \notin S
        BY <1>10, <1>11, <3>1, <4>1, <4>3 DEF Owed, Holds, Agree, ByItself, Classified, Stays, Present
      <4> QED
        BY <4>2, <4>3
    <3>2. CASE table = "allocations"
      <4>1. books'.allocated[m] > 0
        BY <2>2, <3>2 DEF Owed, Holds, Allocated
      <4>2. CASE m \in S
        BY <1>9, <1>10, <3>2, <4>1, <4>2
      <4>3. CASE m \notin S
        BY <1>10, <1>11, <3>2, <4>1, <4>3 DEF Owed, Holds, Agree, Allocated, Stays, Present
      <4> QED
        BY <4>2, <4>3
    <3> QED
      BY <3>1, <3>2 DEF Decisions
  <2> QED
    BY <1>9, <2>1, <2>2 DEF Settles
<1> QED
  BY <1>5, <1>8, <1>9, <1>12 DEF Delivers

LEMMA UserCommandDelivers ==
    ASSUME NEW own, BooksInv(own), CorrectionsInv, UserCommand
    PROVE  Delivers /\ CorrectionsInv'
<1>1. CASE \E a \in Accounts :
            \/ UpsertBankAccount(a) \/ DeactivatePaymentInstrument(a)
            \/ \E lines, auto \in SUBSET Movements : ImportStatement(a, lines, auto)
  BY <1>1, SaveAccountDelivers, ImportDelivers DEF UpsertBankAccount, DeactivatePaymentInstrument
<1>2. CASE \E i \in Imports : DeleteImport(i)
  BY <1>2, DeleteImportDelivers
<1>3. CASE \E m \in Movements, amount \in Amounts : CorrectTransaction(m, amount)
  BY <1>3, CorrectDelivers
<1>4. CASE \E m \in Movements, dgii \in BOOLEAN :
            AnnotateTransaction(m, dgii) \/ ApplyCounterpartyRule(TextOf[m], dgii)
  BY <1>4, AnnotateDelivers, RuleDelivers
<1>5. CASE \E m \in Movements, total \in Shares : SetAllocations(m, total)
  BY <1>5, AllocateDelivers
<1>6. CASE \E m \in Movements, fiscal \in Verdicts : ReviewReimbursement(m, fiscal)
  BY <1>6, ReviewDelivers
<1>7. CASE \E m \in Movements : CreateCardSettlement(m)
  BY <1>7, CardSettlementDelivers
<1> QED
  BY <1>1, <1>2, <1>3, <1>4, <1>5, <1>6, <1>7 DEF UserCommand

LEMMA UndoLastActionDelivers ==
    ASSUME NEW own, BooksInv(own), CorrectionsInv, UndoLastAction
    PROVE  Delivers /\ CorrectionsInv'
BY UndoAnnotationsDelivers, UndoAllocationsDelivers, UndoCorrectionDelivers, UndoAccountDelivers,
   UndoDeleteDelivers
   DEF UndoLastAction

-------------------------------------------------------------------------------
(* The theorems                                                            *)

LEMMA TreasuryStarts ==
    ASSUME TreasuryInit
    PROVE  TreasuryInv
<1> DEFINE a == IF Imported = {} THEN NoRow ELSE AccountOf[CHOOSE m \in Imported : TRUE]
           old == [m \in Imported |-> [import |-> 0, amount |-> AmountOf[m]]]
           movement == Patched([m \in Movements |-> NoRow], old)
           imports == [[i \in Imports |-> NoRow] EXCEPT ![0] = a]
<1>1. /\ a \in Accounts \cup {NoRow} /\ (\A m \in Imported : a = AccountOf[m] /\ a \in Accounts)
      /\ Imported \subseteq Movements /\ MaxCommands \in Nat /\ MaxFaults \in Nat /\ 0 \in Imports
  BY TreasuryAssumption DEF Imports
<1>2. old \in [Imported -> Movement]
  BY <1>1, TreasuryAssumption DEF Movement
<1>3. /\ movement \in [Movements -> Movement \cup {NoRow}]
      /\ \A m \in Movements : movement[m] = IF m \in Imported THEN old[m] ELSE NoRow
  BY <1>1, <1>2 DEF Patched
<1>4. books = [NewBooks EXCEPT !.imports[0] = a, !.movement = movement]
  BY DEF TreasuryInit, NewBooks
<1> HIDE DEF a, movement
<1>5. /\ imports \in [Imports -> Accounts \cup {NoRow}] /\ imports[0] = a
      /\ \A i \in Imports : i > 0 => imports[i] = NoRow
  BY <1>1 DEF Imports
<1>6. /\ books.active = [x \in Accounts |-> TRUE] /\ books.imports = imports /\ books.movement = movement
      /\ books.annotation = [m \in Movements |-> NoRow] /\ books.allocated = [m \in Movements |-> 0]
      /\ books = [active |-> books.active, imports |-> books.imports, movement |-> books.movement,
                  annotation |-> books.annotation, allocated |-> books.allocated]
  BY <1>4 DEF NewBooks
<1> HIDE DEF imports
<1>7. books \in Books
  <2>1. /\ books.active \in [Accounts -> BOOLEAN]
        /\ books.imports \in [Imports -> Accounts \cup {NoRow}]
        /\ books.movement \in [Movements -> Movement \cup {NoRow}]
        /\ books.annotation \in [Movements -> Annotation \cup {NoRow}]
        /\ books.allocated \in [Movements -> Nat]
    BY <1>3, <1>5, <1>6
  <2> QED
    BY <1>6, <2>1 DEF Books
<1>8. \A m \in Movements : Present(books, m) =>
          m \in Imported /\ books.movement[m].import = 0 /\ imports[0] = AccountOf[m]
  BY <1>1, <1>3, <1>5, <1>6 DEF Present
<1>9. /\ cloud = books /\ journal = <<>> /\ outbox = <<>> /\ sending = Idle
      /\ commands = 0 /\ faults = 0 /\ resent = {}
  BY DEF TreasuryInit
<1>10. Fits(books, imports, 0)
  BY <1>5, <1>6, <1>7, <1>8 DEF Fits
<1>11. HangTogether(books)
  BY <1>6, <1>8 DEF HangTogether, Classified, Allocated
<1>12. BooksInv(imports)
  BY <1>1, <1>5, <1>9, <1>10, <1>11 DEF BooksInv, Sound, Owners
<1>13. \A table, x : ~InFlight(table, x)
  BY <1>9 DEF InFlight, Idle
<1>14. ChangesAreQueued
  BY <1>9 DEF ChangesAreQueued, AccountsAreQueued, MovementsAreQueued, DecisionsAreCurrent
<1>15. FlightInv
  BY <1>9, <1>13 DEF FlightInv, Writes, Idle
<1>16. DeletionsInv
  BY <1>9, <1>13 DEF DeletionsInv
<1>17. DecisionsInv
  BY <1>6, <1>9 DEF DecisionsInv, Decided
<1> QED
  BY <1>12, <1>14, <1>15, <1>16, <1>17 DEF TreasuryInv, QueueInv

LEMMA TreasuryKeeps ==
    ASSUME TreasuryInv, [TreasuryNext]_treasuryVars
    PROVE  TreasuryInv'
<1>1. CASE UserCommand
  BY <1>1, UserCommandKeeps
<1>2. CASE UndoLastAction
  BY <1>2, UndoLastActionKeeps
<1>3. CASE Worker
  BY <1>3, WorkerKeeps
<1>4. CASE WorkerRestarts
  BY <1>4, WorkerRestartsKeeps DEF TreasuryInv
<1>5. CASE UNCHANGED treasuryVars
  <2>1. PICK own : BooksInv(own)
    BY DEF TreasuryInv
  <2>2. /\ books' = books /\ cloud' = cloud /\ journal' = journal /\ outbox' = outbox
        /\ sending' = sending /\ commands' = commands /\ faults' = faults /\ resent' = resent
    BY <1>5 DEF treasuryVars
  <2>3. BooksInv(own)'
    BY <2>1, <2>2 DEF BooksInv, InHand
  <2>4. QueueInv'
    BY <2>2 DEF TreasuryInv, QueueInv, ChangesAreQueued, AccountsAreQueued, MovementsAreQueued,
                DecisionsAreCurrent, AnnotationQueued, AllocationQueued, FlightInv, DeletionsInv,
                MovementWaits, Writes, Waits, InFlight, Present, Classified, Allocated, ByItself, Members
  <2>5. DecisionsInv'
    BY <2>2 DEF TreasuryInv, DecisionsInv, Listed
  <2> QED
    BY <2>3, <2>4, <2>5 DEF TreasuryInv
<1> QED
  BY <1>1, <1>2, <1>3, <1>4, <1>5 DEF TreasuryNext

MissingInv == TreasuryInv /\ CorrectionsInv /\ DeliveryInv

LEMMA MissingStarts ==
    ASSUME TreasuryInit
    PROVE  MissingInv
<1>1. /\ cloud = books /\ journal = <<>> /\ outbox = <<>> /\ sending = Idle
      /\ books.annotation = [m \in Movements |-> NoRow] /\ books.allocated = [m \in Movements |-> 0]
  BY DEF TreasuryInit, NewBooks
<1>2. CorrectionsInv
  BY <1>1 DEF CorrectionsInv
<1>3. \A table \in Decisions, m \in Movements : ~Owed(table, m)
  BY <1>1 DEF Decisions, Owed, Holds, Classified, Allocated
<1>4. HomesInv /\ SplitsInv /\ OrderInv /\ OwedInv
  BY <1>1, <1>3 DEF HomesInv, SplitsInv, OrderInv, OwedInv, Writes, InFlight, Idle, Allocated
<1> QED
  BY <1>2, <1>4, TreasuryStarts DEF MissingInv, DeliveryInv

LEMMA MissingKeeps ==
    ASSUME MissingInv, [TreasuryNext]_treasuryVars
    PROVE  MissingInv'
<1>1. PICK own : BooksInv(own)
  BY DEF MissingInv, TreasuryInv
<1>2. QueueInv /\ CorrectionsInv /\ DeliveryInv
  BY DEF MissingInv, TreasuryInv
<1>3. TreasuryInv'
  BY TreasuryKeeps DEF MissingInv
<1>4. PICK next : BooksInv(next)'
  BY <1>3 DEF TreasuryInv
<1>5. ASSUME Delivers PROVE DeliveryInv'
  BY <1>1, <1>2, <1>4, <1>5, CommandDelivers DEF Delivers
<1>6. CASE UserCommand \/ UndoLastAction
  BY <1>1, <1>2, <1>3, <1>5, <1>6, UserCommandDelivers, UndoLastActionDelivers DEF MissingInv
<1>7. ASSUME UNCHANGED <<books, journal>> PROVE CorrectionsInv'
  BY <1>2, <1>7 DEF CorrectionsInv, Corrected, Deleted, Present, Members
<1>8. CASE Worker
  <2>1. UNCHANGED <<books, journal>>
    BY <1>8 DEF Worker, StartPush, FinishPush, PushFails
  <2>2. DeliveryInv'
    BY <1>1, <1>2, <1>8, StartPushDelivers, FinishPushDelivers, PushFailsDelivers DEF Worker
  <2> QED
    BY <1>3, <1>7, <2>1, <2>2 DEF MissingInv
<1>9. CASE WorkerRestarts
  <2>1. UNCHANGED <<books, journal>>
    BY <1>9 DEF WorkerRestarts
  <2>2. DeliveryInv'
    BY <1>1, <1>2, <1>9, WorkerRestartsDelivers
  <2> QED
    BY <1>3, <1>7, <2>1, <2>2 DEF MissingInv
<1>10. CASE UNCHANGED treasuryVars
  <2>1. /\ books' = books /\ cloud' = cloud /\ journal' = journal /\ outbox' = outbox
        /\ sending' = sending /\ faults' = faults
    BY <1>10 DEF treasuryVars
  <2>2. DeliveryInv'
    BY <1>2, <2>1 DEF DeliveryInv, HomesInv, SplitsInv, OrderInv, OwedInv, Owed, Holds, Agree, ByItself,
       SentAfter, OutOfReach, Waits, InFlight, Writes, Present, Members, Classified, Allocated
  <2> QED
    BY <1>3, <1>7, <2>1, <2>2 DEF MissingInv
<1> QED
  BY <1>6, <1>8, <1>9, <1>10 DEF TreasuryNext

InboxTypes ==
    /\ status \in [Documents -> Statuses]
    /\ suggested \in [Documents -> Movements \cup {NoRow}]
    /\ receipts \in [Documents -> [annotate : Outcomes, review : Outcomes]]
    /\ loop \in [Loops -> Seq(Documents)]
    /\ reading \subseteq {l \in Loops : loop[l] # <<>>}
    /\ stranded \subseteq Documents
    /\ retries \in 0..MaxRetries

InboxInv == TreasuryInv /\ InboxTypes /\ AppliedMeansBooked

LEMMA InHandIsDocument ==
    ASSUME InboxTypes, NEW l \in Loops, loop[l] # <<>>
    PROVE  Head(loop[l]) \in Documents /\ Tail(loop[l]) \in Seq(Documents)
BY HeadTailProperties DEF InboxTypes

LEMMA StartLoopKeeps ==
    ASSUME InboxTypes, NEW l \in Loops, NEW S \in SUBSET Documents, StartLoop(l, S),
           UNCHANGED reading
    PROVE  /\ loop' \in [Loops -> Seq(Documents)]
           /\ reading' \subseteq {k \in Loops : loop'[k] # <<>>}
           /\ stranded' \subseteq Documents
<1>1. IsFiniteSet(S)
  BY FS_Subset, InboxAssumption
<1>2. SetToSeq(S) \in Seq(S)
  BY <1>1, QueueOf
<1>3. SetToSeq(S) \in Seq(Documents)
  BY <1>2, SeqMonotonic
<1> QED
  BY <1>3 DEF StartLoop, InboxTypes

LEMMA ReadingKeeps ==
    ASSUME InboxTypes, AppliedMeansBooked, NEW l \in Loops,
           \/ \E S \in SUBSET Documents : EnqueueBatch(l, S) \/ Retry(l, S)
           \/ StartReading(l) \/ RecordExtraction(l) \/ RecordFailure(l)
    PROVE  InboxTypes' /\ AppliedMeansBooked' /\ UNCHANGED treasuryVars
<1> USE DEF InboxTypes
<1>1. CASE \E S \in SUBSET Documents : EnqueueBatch(l, S) \/ Retry(l, S)
  <2> PICK S \in SUBSET Documents : EnqueueBatch(l, S) \/ Retry(l, S)
    BY <1>1
  <2>1. /\ status' = With(status, S, "pending") /\ UNCHANGED <<treasuryVars, receipts, reading>>
        /\ suggested' = suggested \/ suggested' = With(suggested, S, NoRow)
        /\ retries' = retries \/ (retries < MaxRetries /\ retries' = retries + 1)
        /\ StartLoop(l, S)
    BY DEF EnqueueBatch, Retry
  <2>2. /\ loop' \in [Loops -> Seq(Documents)]
        /\ reading' \subseteq {k \in Loops : loop'[k] # <<>>}
        /\ stranded' \subseteq Documents
    BY <2>1, StartLoopKeeps
  <2>3. /\ status' \in [Documents -> Statuses]
        /\ \A x \in Documents : status'[x] = "applied" => status[x] = "applied"
    <3>1. "pending" \in Statuses
      BY DEF Statuses
    <3>2. status' \in [Documents -> Statuses]
          /\ \A x \in Documents : status'[x] = IF x \in S THEN "pending" ELSE status[x]
      BY <2>1, <3>1 DEF With
    <3> QED
      BY <3>2
  <2>4. suggested' \in [Documents -> Movements \cup {NoRow}]
    BY <2>1 DEF With
  <2>5. retries' \in 0..MaxRetries
    BY <2>1, InboxAssumption
  <2> QED
    BY <2>1, <2>2, <2>3, <2>4, <2>5 DEF AppliedMeansBooked
<1> DEFINE x == Head(loop[l])
<1>2. CASE StartReading(l)
  <2>1. x \in Documents
    BY <1>2, InHandIsDocument DEF StartReading
  <2>2. /\ loop[l] # <<>> /\ status' = [status EXCEPT ![x] = "processing"]
        /\ reading' = reading \cup {l}
        /\ UNCHANGED <<treasuryVars, suggested, receipts, loop, stranded, retries>>
    BY <1>2 DEF StartReading
  <2> HIDE DEF x
  <2> QED
    BY <2>1, <2>2 DEF AppliedMeansBooked, Statuses
<1>3. CASE RecordExtraction(l) \/ RecordFailure(l)
  <2>1. l \in reading /\ loop[l] # <<>>
    BY <1>3 DEF RecordExtraction, RecordFailure
  <2>2. x \in Documents /\ Tail(loop[l]) \in Seq(Documents)
    BY <2>1, InHandIsDocument
  <2>3. /\ status' = [status EXCEPT ![x] = "extracted"] \/ status' = [status EXCEPT ![x] = "failed"]
        /\ suggested' = suggested \/ \E m \in AutoMatch : suggested' = [suggested EXCEPT ![x] = m]
        /\ loop' = [loop EXCEPT ![l] = Tail(loop[l])] /\ reading' = reading \ {l}
        /\ UNCHANGED <<treasuryVars, receipts, stranded, retries>>
    BY <1>3 DEF RecordExtraction, RecordFailure
  <2> HIDE DEF x
  <2>4. suggested' \in [Documents -> Movements \cup {NoRow}]
    BY <2>2, <2>3 DEF AutoMatch
  <2>5. status' \in [Documents -> Statuses]
        /\ \A y \in Documents : status'[y] = "applied" => status[y] = "applied"
    BY <2>2, <2>3 DEF Statuses
  <2>6. loop' \in [Loops -> Seq(Documents)] /\ \A k \in Loops : k # l => loop'[k] = loop[k]
    BY <2>2, <2>3
  <2>7. reading' \subseteq {k \in Loops : loop'[k] # <<>>}
    BY <2>3, <2>6
  <2> QED
    BY <2>3, <2>4, <2>5, <2>6, <2>7 DEF AppliedMeansBooked
<1> QED
  BY <1>1, <1>2, <1>3

LEMMA DecidingKeeps ==
    ASSUME InboxInv, NEW x \in Documents,
           Dismiss(x) \/ ApplyExtraction(x) \/ ApplyRefused(x) \/ ApplyCutShort(x)
    PROVE  InboxInv'
<1> USE DEF InboxTypes
<1>1. /\ status[x] \in Statuses /\ suggested[x] \in Movements \cup {NoRow} /\ receipts[x].annotate \in Outcomes
      /\ receipts[x].review \in Outcomes /\ TreasuryInv /\ InboxTypes /\ AppliedMeansBooked
  BY DEF InboxInv
<1>2. CASE Dismiss(x)
  <2>1. status' = [status EXCEPT ![x] = "dismissed"]
        /\ UNCHANGED <<treasuryVars, suggested, receipts, loop, reading, stranded, retries>>
    BY <1>2 DEF Dismiss
  <2>2. TreasuryInv'
    BY <1>1, <2>1, TreasuryKeeps
  <2>3. InboxTypes'
    BY <1>1, <2>1 DEF Statuses
  <2>4. AppliedMeansBooked'
    BY <1>1, <2>1 DEF AppliedMeansBooked
  <2> QED
    BY <2>2, <2>3, <2>4 DEF InboxInv
<1>3. ASSUME MayApply(x), NEW both \in BOOLEAN, Book(x, suggested[x], both)
      PROVE  /\ TreasuryInv'
             /\ receipts' \in [Documents -> [annotate : Outcomes, review : Outcomes]]
             /\ receipts'[x].annotate = "success" /\ (both => receipts'[x].review = "success")
             /\ \A y \in Documents : y # x => receipts'[y] = receipts[y]
  <2> DEFINE m == suggested[x]
  <2>1. m \in Movements /\ Open(x) /\ Passes(receipts[x].annotate, m) /\ Passes(receipts[x].review, m)
    BY <1>1, <1>3 DEF MayApply
  <2>2. /\ Annotates(x) \/ (both /\ Reviews(x)) => Present(books, m)
        /\ receipts[x].annotate = "none" \/ receipts[x].annotate = "success"
        /\ receipts[x].review = "none" \/ receipts[x].review = "success"
    BY <2>1 DEF Annotates, Reviews, Passes
  <2>3. Book(x, m, both)
    BY <1>3
  <2> HIDE DEF m
  <2>4. TreasuryInv'
    BY <1>1, <2>1, <2>2, <2>3, BookKeeps
  <2>5. receipts' = [receipts EXCEPT
            ![x].annotate = IF receipts[x].annotate = "none" THEN "success" ELSE @,
            ![x].review = IF both /\ receipts[x].review = "none" THEN "success" ELSE @]
    BY <2>3 DEF Book, Annotates, Reviews
  <2> QED
    BY <1>1, <2>2, <2>4, <2>5 DEF Outcomes
<1>4. CASE ApplyExtraction(x)
  <2>1. /\ MayApply(x) /\ Book(x, suggested[x], TRUE) /\ status' = [status EXCEPT ![x] = "applied"]
        /\ UNCHANGED <<suggested, loop, reading, stranded, retries>>
    BY <1>4 DEF ApplyExtraction
  <2>2. /\ TreasuryInv'
        /\ receipts' \in [Documents -> [annotate : Outcomes, review : Outcomes]]
        /\ receipts'[x].annotate = "success" /\ receipts'[x].review = "success"
        /\ \A y \in Documents : y # x => receipts'[y] = receipts[y]
    BY <1>3, <2>1
  <2>3. InboxTypes'
    BY <1>1, <2>1, <2>2 DEF Statuses
  <2>4. receipts'[x] = [annotate |-> "success", review |-> "success"]
    BY <2>2
  <2>5. AppliedMeansBooked'
    BY <1>1, <2>1, <2>2, <2>4 DEF AppliedMeansBooked
  <2> QED
    BY <2>2, <2>3, <2>5 DEF InboxInv
<1>5. CASE ApplyRefused(x)
  <2> DEFINE first == IF receipts[x].annotate = "none" THEN "annotate" ELSE "review"
  <2>1. /\ Open(x) /\ receipts' = [receipts EXCEPT ![x][first] = "failed"]
        /\ UNCHANGED <<treasuryVars, status, suggested, loop, reading, stranded, retries>>
    BY <1>5 DEF ApplyRefused
  <2>2. first = "annotate" \/ first = "review"
    OBVIOUS
  <2> HIDE DEF first
  <2>3. /\ receipts' \in [Documents -> [annotate : Outcomes, review : Outcomes]]
        /\ \A y \in Documents : y # x => receipts'[y] = receipts[y]
    BY <1>1, <2>1, <2>2 DEF Outcomes
  <2>4. TreasuryInv'
    BY <1>1, <2>1, TreasuryKeeps
  <2>5. InboxTypes'
    BY <1>1, <2>1, <2>3
  <2>6. AppliedMeansBooked'
    BY <1>1, <2>1, <2>3 DEF AppliedMeansBooked, Open
  <2> QED
    BY <2>4, <2>5, <2>6 DEF InboxInv
<1>6. CASE ApplyCutShort(x)
  <2>1. /\ MayApply(x) /\ Book(x, suggested[x], FALSE) /\ LoopsEnd
        /\ UNCHANGED <<suggested, status, retries>>
    BY <1>6 DEF ApplyCutShort
  <2>2. /\ TreasuryInv'
        /\ receipts' \in [Documents -> [annotate : Outcomes, review : Outcomes]]
        /\ \A y \in Documents : y # x => receipts'[y] = receipts[y]
    BY <1>3, <2>1
  <2>3. InboxTypes'
    BY <1>1, <2>1, <2>2 DEF LoopsEnd
  <2>4. AppliedMeansBooked'
    BY <1>1, <2>1, <2>2 DEF AppliedMeansBooked, MayApply, Open
  <2> QED
    BY <2>2, <2>3, <2>4 DEF InboxInv
<1> QED
  BY <1>2, <1>4, <1>5, <1>6

LEMMA InboxKeeps ==
    ASSUME InboxInv, [Next]_vars
    PROVE  InboxInv'
<1>1. TreasuryInv /\ InboxTypes /\ AppliedMeansBooked
  BY DEF InboxInv
<1>2. ASSUME UNCHANGED inboxVars
      PROVE  InboxTypes' /\ AppliedMeansBooked'
  BY <1>1, <1>2 DEF inboxVars, InboxTypes, AppliedMeansBooked
<1>3. CASE (UserCommand \/ UndoLastAction \/ Worker) /\ UNCHANGED inboxVars
  BY <1>1, <1>2, <1>3, TreasuryKeeps DEF InboxInv, TreasuryNext
<1>4. CASE \E l \in Loops :
              \/ \E S \in SUBSET Documents : EnqueueBatch(l, S) \/ Retry(l, S)
              \/ StartReading(l) \/ RecordExtraction(l) \/ RecordFailure(l)
  <2>1. InboxTypes' /\ AppliedMeansBooked' /\ UNCHANGED treasuryVars
    BY <1>1, <1>4, ReadingKeeps
  <2> QED
    BY <1>1, <2>1, TreasuryKeeps DEF InboxInv
<1>5. CASE \E x \in Documents : Dismiss(x) \/ ApplyExtraction(x) \/ ApplyRefused(x) \/ ApplyCutShort(x)
  BY <1>5, DecidingKeeps
<1>6. CASE Restart
  <2>1. WorkerRestarts /\ LoopsEnd /\ UNCHANGED <<status, suggested, receipts, retries>>
    BY <1>6 DEF Restart
  <2>2. TreasuryInv'
    BY <1>1, <2>1, TreasuryKeeps DEF TreasuryNext
  <2>3. InboxTypes'
    BY <1>1, <2>1 DEF InboxTypes, LoopsEnd
  <2>4. AppliedMeansBooked'
    BY <1>1, <2>1 DEF AppliedMeansBooked
  <2> QED
    BY <2>2, <2>3, <2>4 DEF InboxInv
<1>7. CASE UNCHANGED vars
  BY <1>1, <1>2, <1>7, TreasuryKeeps DEF InboxInv, vars
<1> QED
  BY <1>3, <1>4, <1>5, <1>6, <1>7 DEF Next

LEMMA InboxStarts ==
    ASSUME Init
    PROVE  InboxInv
<1>1. TreasuryInv
  BY TreasuryStarts DEF Init
<1>2. InboxTypes
  BY InboxAssumption DEF Init, InboxTypes, Statuses, Outcomes
<1>3. AppliedMeansBooked
  BY DEF Init, AppliedMeansBooked
<1> QED
  BY <1>1, <1>2, <1>3 DEF InboxInv

\* The tables of the device and of Postgres have their types and their foreign
\* keys hold in both, through commands, undos, restored imports and pushes that
\* fail or are repeated: no undo brings a row back without what it hangs from.
THEOREM BooksAreTyped == TreasurySpec => []TreasuryTypeOK
<1>1. TreasuryInit => TreasuryInv
  BY TreasuryStarts
<1>2. TreasuryInv /\ [TreasuryNext]_treasuryVars => TreasuryInv'
  BY TreasuryKeeps
<1>3. TreasuryInv => TreasuryTypeOK
  BY InvImplies
<1> QED
  BY <1>1, <1>2, <1>3, PTL DEF TreasurySpec

\* Whatever commands, undos and lost or refused requests came between, the row
\* the device holds is in Postgres, waits in the outbox or is on its way.
THEOREM NothingIsLeftUnsent == TreasurySpec => []ChangesAreQueued
<1>1. TreasuryInit => TreasuryInv
  BY TreasuryStarts
<1>2. TreasuryInv /\ [TreasuryNext]_treasuryVars => TreasuryInv'
  BY TreasuryKeeps
<1>3. TreasuryInv => ChangesAreQueued
  BY InvImplies
<1> QED
  BY <1>1, <1>2, <1>3, PTL DEF TreasurySpec

\* No sequence of commands and undos leaves a decision of a person standing
\* without the journal entry that takes it back.
THEOREM EveryDecisionHasItsEntry == TreasurySpec => []DecisionsCanBeUndone
<1>1. TreasuryInit => TreasuryInv
  BY TreasuryStarts
<1>2. TreasuryInv /\ [TreasuryNext]_treasuryVars => TreasuryInv'
  BY TreasuryKeeps
<1>3. TreasuryInv => DecisionsCanBeUndone
  BY InvImplies
<1> QED
  BY <1>1, <1>2, <1>3, PTL DEF TreasurySpec

\* As long as no request has failed, a decision the device has queued is not lost
\* in Postgres to the deletion of an import, in whatever order imports were
\* deleted, brought back and corrected: it is there, waits or is on its way.
THEOREM NothingGoesMissing == TreasurySpec => []NothingIsMissing
<1>1. TreasuryInit => MissingInv
  BY MissingStarts
<1>2. MissingInv /\ [TreasuryNext]_treasuryVars => MissingInv'
  BY MissingKeeps
<1>3. MissingInv => NothingIsMissing
  BY OwedSettles DEF MissingInv
<1> QED
  BY <1>1, <1>2, <1>3, PTL DEF TreasurySpec

\* The inbox and the books it books on have their types, and a loop reads only
\* documents it still has.
THEOREM InboxIsTyped == Spec => []TypeOK
<1>1. Init => InboxInv
  BY InboxStarts
<1>2. InboxInv /\ [Next]_vars => InboxInv'
  BY InboxKeeps
<1>3. InboxInv => TypeOK
  BY InvImplies DEF InboxInv, InboxTypes, TypeOK
<1> QED
  BY <1>1, <1>2, <1>3, PTL DEF Spec

\* A document is marked as applied only when both of its booking commands have
\* succeeded, in whatever order it was read again, refused or cut short.
THEOREM NothingIsAppliedUnbooked == Spec => []AppliedMeansBooked
<1>1. Init => InboxInv
  BY InboxStarts
<1>2. InboxInv /\ [Next]_vars => InboxInv'
  BY InboxKeeps
<1>3. InboxInv => AppliedMeansBooked
  BY DEF InboxInv
<1> QED
  BY <1>1, <1>2, <1>3, PTL DEF Spec

===============================================================================
