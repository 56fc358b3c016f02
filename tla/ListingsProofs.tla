--------------------------- MODULE ListingsProofs ---------------------------
(***************************************************************************)
(* Proofs about Listings, for any clients, page sizes, columns and tables: *)
(* its types, and what a client that walks through a listing may rely on.  *)
(***************************************************************************)
EXTENDS Listings, FiniteSetTheorems, TLAPS

-----------------------------------------------------------------------------
(* Places and pages.                                                       *)

(* The rows of a table: finitely many, told apart by their primary keys.   *)
Distinct(rows) == \A q, r \in rows : q.id = r.id => q = r
Rows(rows) == rows \subseteq Row /\ IsFiniteSet(rows) /\ Distinct(rows)

(* Rows are strictly and totally ordered.                                  *)
LEMMA BeforeIsOrder ==
  ASSUME NEW rows, Rows(rows)
  PROVE  /\ \A r \in rows : ~Before(r, r)
         /\ \A p, q, r \in rows : Before(p, q) /\ Before(q, r) => Before(p, r)
         /\ \A q, r \in rows : q # r => Before(q, r) \/ Before(r, q)
  <1> \A r \in rows : r.id \in Int /\ r.key \in Int
    BY ListingsAssumption DEF Rows, Row
  <1> QED
    BY DEF Rows, Distinct, Before

(* A row has fewer rows before it than there are.                          *)
LEMMA PlaceIsBounded ==
  ASSUME NEW rows, Rows(rows), NEW r \in rows
  PROVE  /\ Place(rows, r) \in Nat
         /\ Cardinality(rows) \in Nat
         /\ Place(rows, r) < Cardinality(rows)
  <1> DEFINE ahead == {q \in rows : Before(q, r)}
  <1>1. IsFiniteSet(rows) /\ Cardinality(rows) \in Nat
    BY FS_CardinalityType DEF Rows
  <1>2. /\ IsFiniteSet(rows \ {r})
        /\ Cardinality(rows \ {r}) = Cardinality(rows) - 1
    BY <1>1, FS_RemoveElement
  <1>3. ahead \in SUBSET (rows \ {r})
    BY BeforeIsOrder
  <1>4. IsFiniteSet(ahead) /\ Cardinality(ahead) <= Cardinality(rows \ {r})
    BY <1>2, <1>3, FS_Subset
  <1>5. Cardinality(ahead) \in Nat
    BY <1>4, FS_CardinalityType
  <1> QED
    BY <1>1, <1>2, <1>4, <1>5 DEF Place

(* The more rows, the later the place.                                     *)
LEMMA PlaceGrows ==
  ASSUME NEW rows, NEW more, Rows(more), rows \subseteq more, NEW r
  PROVE  /\ Rows(rows)
         /\ Place(rows, r) \in Nat /\ Place(more, r) \in Nat
         /\ Place(rows, r) <= Place(more, r)
  <1> DEFINE few == {q \in rows : Before(q, r)}
             many == {q \in more : Before(q, r)}
  <1>1. IsFiniteSet(more)
    BY DEF Rows
  <1>2. IsFiniteSet(rows) /\ IsFiniteSet(many)
    BY <1>1, FS_Subset, many \in SUBSET more, rows \in SUBSET more
  <1>3. IsFiniteSet(few) /\ Cardinality(few) <= Cardinality(many)
    BY <1>2, FS_Subset, few \in SUBSET many
  <1>4. Cardinality(few) \in Nat /\ Cardinality(many) \in Nat
    BY <1>2, <1>3, FS_CardinalityType
  <1> QED
    BY <1>2, <1>3, <1>4 DEF Place, Rows, Distinct

(* No two rows have the same place.                                        *)
LEMMA PlacesDiffer ==
  ASSUME NEW rows, Rows(rows), NEW q \in rows, NEW r \in rows, q # r
  PROVE  Place(rows, q) # Place(rows, r)
  <1>1. ASSUME NEW a \in rows, NEW b \in rows, Before(a, b)
        PROVE  Place(rows, a) < Place(rows, b)
    <2> DEFINE near == {p \in rows : Before(p, a)}
               far == {p \in rows : Before(p, b)}
    <2>1. near \in SUBSET far /\ a \in far /\ a \notin near
      BY <1>1, BeforeIsOrder
    <2>2. IsFiniteSet(far)
      BY FS_Subset, far \in SUBSET rows DEF Rows
    <2>3. /\ Cardinality(near) <= Cardinality(far)
          /\ Cardinality(near) # Cardinality(far)
      BY <2>1, <2>2, FS_Subset
    <2> QED
      BY <2>3, PlaceIsBounded DEF Place
  <1>2. Before(q, r) \/ Before(r, q)
    BY BeforeIsOrder
  <1> QED
    BY <1>1, <1>2, PlaceIsBounded

(* A page that is not empty ends within the table.                         *)
LEMMA PageIsWithin ==
  ASSUME NEW rows, Rows(rows), NEW from \in Nat, NEW size \in Nat,
         Page(rows, from, size) # {}
  PROVE  /\ Cardinality(Page(rows, from, size)) \in Nat
         /\ Cardinality(rows) \in Nat
         /\ Cardinality(rows) >= from + Cardinality(Page(rows, from, size))
  <1> DEFINE page1 == Page(rows, from, size)
             n == Cardinality(rows)
             f == [r \in page1 |-> Place(rows, r)]
  <1>1. /\ n \in Nat
        /\ \A r \in page1 : r \in rows /\ Place(rows, r) \in from .. n - 1
    BY PlaceIsBounded DEF Page
  <1>2. f \in Injection(page1, from .. n - 1)
    BY <1>1, PlacesDiffer DEF Injection, IsInjective
  <1>3. IsFiniteSet(from .. n - 1) /\ Cardinality(from .. n - 1) = n - from
    <2>1. from <= n - 1
      BY <1>1
    <2> QED
      BY <2>1, <1>1, FS_Interval
  <1>4. IsFiniteSet(page1) /\ Cardinality(page1) <= n - from
    BY <1>2, <1>3, FS_Injection
  <1>5. Cardinality(page1) \in Nat
    BY <1>4, FS_CardinalityType
  <1> QED
    BY <1>1, <1>4, <1>5

(* A page with rows behind it is full.                                     *)
LEMMA PageIsFull ==
  ASSUME NEW rows, Rows(rows), NEW from \in Nat, NEW size \in Nat,
         NEW r \in rows, Place(rows, r) >= from + size
  PROVE  Cardinality(Page(rows, from, size)) = size
  <1> DEFINE page1 == Page(rows, from, size)
             n == Cardinality(rows)
             f == [q \in rows |-> Place(rows, q)]
             g == [q \in page1 |-> Place(rows, q)]
             slots == from .. from + size - 1
  <1>1. n \in Nat /\ \A q \in rows : Place(rows, q) \in 0 .. n - 1
    BY PlaceIsBounded
  <1>2. f \in Injection(rows, 0 .. n - 1)
    BY <1>1, PlacesDiffer DEF Injection, IsInjective
  <1>3. IsFiniteSet(0 .. n - 1) /\ Cardinality(0 .. n - 1) = n
    BY <1>1, FS_Interval
  <1>4. f \in Surjection(rows, 0 .. n - 1)
    BY <1>2, <1>3, FS_Injection
  <1>5. \A i \in 0 .. n - 1 : \E q \in rows : Place(rows, q) = i
    BY <1>4 DEF Surjection
  <1>6. slots \subseteq 0 .. n - 1
    BY <1>1
  <1>7. g \in [page1 -> slots]
    BY <1>1 DEF Page
  <1>8. g \in Bijection(page1, slots)
    <2>1. g \in Injection(page1, slots)
      BY <1>7, PlacesDiffer DEF Injection, IsInjective, Page
    <2>2. \A i \in slots : \E q \in page1 : g[q] = i
      BY <1>5, <1>6 DEF Page
    <2> QED
      BY <2>1, <2>2, <1>7 DEF Bijection, Surjection
  <1>9. IsFiniteSet(page1)
    BY FS_Subset, page1 \in SUBSET rows DEF Rows, Page
  <1>10. Cardinality(slots) = size
    BY FS_Interval
  <1> QED
    BY <1>8, <1>9, <1>10, FS_Bijection DEF ExistsBijection

-----------------------------------------------------------------------------
(* Types.                                                                  *)

(* Keys are counted up, so no two rows of a table ever share one.          *)
Stock ==
  \A t \in Tables :
    /\ Rows(listable[t] \cup hidden[t])
    /\ \A r \in listable[t] \cup hidden[t] : r.id <= serial[t]

FinitePages == \A w \in Walkers : IsFiniteSet(page[w])

TypeInv == TypeOK /\ Stock /\ FinitePages

LEMMA ListableRows ==
  ASSUME TypeInv, NEW t \in Tables
  PROVE  Rows(listable[t])
  BY PlaceGrows DEF TypeInv, Stock

LEMMA TypeInit == Init => TypeInv
  <1> SUFFICES ASSUME Init PROVE TypeInv
    OBVIOUS
  <1>1. Tables # {} /\ "charge" \in Tables
    BY DEF Tables
  <1>2. TypeOK
    BY <1>1, ListingsAssumption DEF Init, TypeOK
  <1>3. Stock
    BY FS_EmptySet DEF Init, Stock, Rows, Distinct
  <1>4. FinitePages
    BY FS_EmptySet DEF Init, FinitePages
  <1> QED
    BY <1>2, <1>3, <1>4 DEF TypeInv

(* The tables, as seen by what they hold.                                  *)
Filled(t) == listable[t] \cup hidden[t]

LEMMA InsertTypes ==
  ASSUME TypeInv, NEW t \in Tables, NEW k \in Columns, Insert(t, k)
  PROVE  TypeInv'
  <1> DEFINE r == [id |-> serial[t] + 1, key |-> k]
  <1>1. /\ r \in Row /\ serial[t] \in 0 .. MaxId /\ serial[t] + 1 \in 0 .. MaxId
        /\ hidden' = [hidden EXCEPT ![t] = @ \cup {r}]
        /\ serial' = [serial EXCEPT ![t] = @ + 1]
        /\ UNCHANGED <<listable, request, faults, history>>
    BY ListingsAssumption DEF TypeInv, TypeOK, Insert, NewId, Row
  <1>2. ASSUME NEW u \in Tables
        PROVE  /\ Rows(Filled(u)') /\ \A q \in Filled(u)' : q.id <= serial'[u]
    <2>1. CASE u # t
      BY <1>1, <2>1 DEF TypeInv, TypeOK, Stock, Filled
    <2>2. CASE u = t
      <3>1. Filled(t)' = Filled(t) \cup {r} /\ serial'[t] = serial[t] + 1
        BY <1>1 DEF Filled, TypeInv, TypeOK
      <3>2. \A q \in Filled(t) : q.id <= serial[t] /\ q.id \in Int
        <4>1. Filled(t) \subseteq Row /\ \A q \in Filled(t) : q.id <= serial[t]
          BY DEF Filled, TypeInv, Stock, Rows
        <4> QED
          BY <4>1, ListingsAssumption DEF Row
      <3>3. Distinct(Filled(t) \cup {r})
        <4>1. Distinct(Filled(t))
          BY DEF Filled, TypeInv, Stock, Rows
        <4>2. \A q \in Filled(t) : q.id # r.id
          BY <3>2, <1>1
        <4> QED
          BY <4>1, <4>2 DEF Distinct
      <3>4. IsFiniteSet(Filled(t) \cup {r})
        BY FS_AddElement DEF Filled, TypeInv, Stock, Rows
      <3>5. Filled(t) \cup {r} \subseteq Row
        BY <1>1 DEF Filled, TypeInv, Stock, Rows
      <3>6. Rows(Filled(t) \cup {r})
        BY <3>3, <3>4, <3>5 DEF Rows
      <3>7. \A q \in Filled(t) \cup {r} : q.id <= serial[t] + 1
        BY <3>2, <1>1
      <3> QED
        BY <2>2, <3>1, <3>6, <3>7
    <2> QED
      BY <2>1, <2>2
  <1>3. Stock'
    BY <1>2 DEF Stock, Filled
  <1>4. TypeOK'
    BY <1>1, <1>3 DEF TypeInv, TypeOK, Stock, Rows, Distinct, request, history
  <1>5. FinitePages'
    BY <1>1 DEF TypeInv, FinitePages, request
  <1> QED
    BY <1>3, <1>4, <1>5 DEF TypeInv

(* Rows that come, go or leave a table add none to it.                     *)
LEMMA TableTypes ==
  ASSUME TypeInv, NEW t \in Tables, NEW r,
         Appear(t, r) \/ Drop(t, r) \/ Vanish(t, r)
  PROVE  TypeInv'
  <1>1. /\ UNCHANGED <<serial, request, faults>>
        /\ grown' \in [Walkers -> BOOLEAN] /\ shrunk' \in [Walkers -> BOOLEAN]
        /\ old' = old
    BY DEF TypeInv, TypeOK, Appear, Drop, Vanish, history
  <1>2. /\ r \in Filled(t)
        /\ listable' \in [Tables -> SUBSET Row]
        /\ hidden' \in [Tables -> SUBSET Row]
    BY DEF TypeInv, TypeOK, Appear, Drop, Vanish, Filled
  <1>3. \A u \in Tables : Filled(u)' \subseteq Filled(u)
    BY DEF TypeInv, TypeOK, Appear, Drop, Vanish, Filled
  <1>4. \A u \in Tables : Rows(Filled(u)) /\ \A q \in Filled(u) : q.id <= serial[u]
    BY DEF TypeInv, Stock, Filled
  <1>5. \A u \in Tables : Rows(Filled(u)')
    BY <1>3, <1>4, PlaceGrows
  <1>6. Stock'
    BY <1>1, <1>3, <1>4, <1>5 DEF Stock, Filled
  <1>7. TypeOK'
    BY <1>1, <1>2, <1>6 DEF TypeInv, TypeOK, Stock, Rows, Distinct, request
  <1>8. FinitePages'
    BY <1>1 DEF TypeInv, FinitePages, request
  <1> QED
    BY <1>6, <1>7, <1>8 DEF TypeInv

LEMMA WalkTypes ==
  ASSUME TypeInv, NEW w \in Walkers,
         \/ \E t \in Tables, size \in Limits : Start(w, t, size)
         \/ GetCharges(w) \/ GetAccounts(w)
         \/ AnswerCharges(w) \/ AnswerAccounts(w)
         \/ Fail(w) \/ Finish(w)
  PROVE  TypeInv'
  <1> USE DEF TypeInv
  <1>1. UNCHANGED database => Stock'
    BY DEF Stock, database
  <1>2. ASSUME NEW t \in Tables, NEW size \in Limits, Start(w, t, size)
        PROVE  TypeInv'
    <2>1. TypeOK'
      BY <1>2, ListingsAssumption DEF TypeOK, Start, database
    <2> QED
      BY <1>1, <1>2, <2>1 DEF Start, FinitePages
  <1>3. ASSUME NEW t \in Tables, List(w, t) PROVE TypeInv'
    <2> DEFINE page1 == Page(listable[t], offset[w], limit[w])
    <2>1. page1 \subseteq listable[t] /\ page1 \subseteq Row
      BY DEF TypeOK, Page
    <2>2. IsFiniteSet(page1)
      BY <2>1, ListableRows, FS_Subset, page1 \in SUBSET listable[t] DEF Rows
    <2>3. page' = [page EXCEPT ![w] = page1]
      BY <1>3 DEF List
    <2>4. TypeOK'
      BY <1>3, <2>1, <2>3 DEF TypeOK, List, database, history
    <2>5. FinitePages'
      BY <2>2, <2>3 DEF TypeOK, FinitePages
    <2> QED
      BY <1>1, <1>3, <2>4, <2>5 DEF List
  <1>4. ASSUME NEW total \in Nat, NEW more \in BOOLEAN, Answer(w, total, more)
        PROVE  TypeInv'
    <2>1. TypeOK'
      BY <1>4 DEF TypeOK, Answer, database, history
    <2>2. FinitePages'
      BY <1>4, FS_EmptySet DEF TypeOK, Answer, FinitePages
    <2> QED
      BY <1>1, <1>4, <2>1, <2>2 DEF Answer
  <1>5. CASE GetCharges(w) \/ GetAccounts(w)
    BY <1>3, <1>5 DEF GetCharges, GetAccounts, Tables
  <1>6. CASE AnswerCharges(w)
    <2>1. ChargesCount \in Nat
      BY ListableRows, FS_CardinalityType DEF Tables, Rows, ChargesCount
    <2> DEFINE more == offset[w] + limit[w] < ChargesCount
    <2>2. more \in BOOLEAN
      OBVIOUS
    <2>3. Answer(w, ChargesCount, more)
      BY <1>6 DEF AnswerCharges
    <2> HIDE DEF more
    <2> QED
      BY <1>4, <2>1, <2>2, <2>3
  <1>7. CASE AnswerAccounts(w)
    <2>1. Cardinality(page[w]) \in Nat
      BY FS_CardinalityType DEF FinitePages
    <2> QED
      BY <1>4, <1>7, <2>1 DEF AnswerAccounts
  <1>8. CASE Fail(w)
    <2>1. TypeOK'
      BY <1>8, ListingsAssumption DEF TypeOK, Fail, database, history
    <2>2. FinitePages'
      BY <1>8, FS_EmptySet DEF TypeOK, Fail, FinitePages
    <2> QED
      BY <1>1, <1>8, <2>1, <2>2 DEF Fail
  <1>9. CASE Finish(w)
    <2>1. TypeOK'
      BY <1>9 DEF TypeOK, Finish, database
    <2> QED
      BY <1>1, <1>9, <2>1 DEF Finish, FinitePages
  <1> QED
    BY <1>2, <1>5, <1>6, <1>7, <1>8, <1>9

LEMMA TypeNext == TypeInv /\ [Next]_vars => TypeInv'
  <1> SUFFICES ASSUME TypeInv, [Next]_vars PROVE TypeInv'
    OBVIOUS
  <1>1. CASE UNCHANGED vars
    BY <1>1 DEF TypeInv, TypeOK, Stock, FinitePages, vars, database, request,
                history
  <1>2. CASE Next
    BY <1>2, InsertTypes, TableTypes, WalkTypes DEF Next
  <1> QED
    BY <1>1, <1>2

(* Every variable keeps its type, and rows keep to keys of their own.      *)
THEOREM TypeCorrect == Spec => []TypeOK
  <1>1. TypeInv => TypeOK
    BY DEF TypeInv
  <1> QED
    BY <1>1, TypeInit, TypeNext, PTL DEF Spec

-----------------------------------------------------------------------------
(* A walk.  What it has still to come upon lies behind its offset, and     *)
(* what it has been given before it; the first may only be upset by rows   *)
(* that go, the second by rows that come.                                  *)
Behind(w) ==
  pc[w] \in {"list", "answer", "done"} /\ ~shrunk[w] =>
    \A r \in old[w] :
      /\ r \in listable[about[w]]
      /\ pc[w] \in {"list", "answer"} =>
           r \in listed[w] \/ Place(listable[about[w]], r) >= offset[w]
      /\ pc[w] = "answer" =>
           \/ r \in listed[w] \cup page[w]
           \/ /\ Place(listable[about[w]], r) >= offset[w] + limit[w]
              /\ about[w] = "account" => Cardinality(page[w]) = limit[w]
      /\ pc[w] = "done" => r \in listed[w]

Ahead(w) ==
  pc[w] \in {"list", "answer"} /\ ~grown[w] =>
    /\ \A r \in listed[w] \cap listable[about[w]] :
         Place(listable[about[w]], r) < offset[w]
    /\ pc[w] = "answer" =>
         /\ page[w] \cap listed[w] = {}
         /\ \A r \in page[w] \cap listable[about[w]] :
              Place(listable[about[w]], r) < offset[w] + limit[w]

(* A page of charges lies within the charges, of which none ever goes.     *)
Within(w) ==
  pc[w] = "answer" /\ about[w] = "charge" /\ page[w] # {} =>
    Cardinality(listable["charge"]) >= offset[w] + Cardinality(page[w])

WalkInv(w) == Behind(w) /\ Ahead(w) /\ Within(w)

IInv == TypeInv /\ \A w \in Walkers : WalkInv(w)

LEMMA IInit == Init => IInv
  <1> SUFFICES ASSUME Init, NEW w \in Walkers PROVE WalkInv(w)
    BY TypeInit DEF IInv
  <1>1. pc[w] = "idle"
    BY DEF Init
  <1> QED
    BY <1>1 DEF WalkInv, Behind, Ahead, Within

LEMMA SizeType ==
  ASSUME TypeInv, NEW w \in Walkers
  PROVE  /\ about[w] \in Tables /\ offset[w] \in Nat /\ limit[w] \in Nat
         /\ Rows(listable[about[w]])
         /\ Cardinality(listable[about[w]]) \in Nat
         /\ Cardinality(page[w]) \in Nat
  <1>1. about[w] \in Tables /\ offset[w] \in Nat /\ limit[w] \in Nat
    BY DEF TypeInv, TypeOK
  <1>2. Rows(listable[about[w]])
    BY <1>1, ListableRows
  <1>3. IsFiniteSet(page[w])
    BY DEF TypeInv, FinitePages
  <1> QED
    BY <1>1, <1>2, <1>3, FS_CardinalityType DEF Rows

(* Nothing that is listable changes.                                       *)
LEMMA TablesKept ==
  ASSUME IInv, UNCHANGED <<listable, request, history>>, NEW w \in Walkers
  PROVE  WalkInv(w)'
  BY DEF IInv, WalkInv, Behind, Ahead, Within, request, history

(* A row comes.                                                            *)
LEMMA TablesGrow ==
  ASSUME IInv, TypeInv', NEW t \in Tables, NEW r, Appear(t, r),
         NEW w \in Walkers
  PROVE  WalkInv(w)'
  <1> DEFINE a == about[w]
             few == listable[a]
             many == listable'[a]
  <1>1. /\ UNCHANGED request /\ old' = old /\ shrunk' = shrunk
        /\ pc[w] # "idle" /\ a = t => grown'[w]
        /\ ~grown'[w] => ~grown[w]
        /\ a # t => many = few
        /\ few \subseteq many
        /\ listable["charge"] \subseteq listable'["charge"]
    BY SizeType DEF IInv, TypeInv, TypeOK, Appear, Tables
  <1>0. \A u \in Tables : Rows(listable'[u])
    BY PlaceGrows DEF TypeInv, Stock
  <1>2. Rows(many)
    BY <1>0, SizeType DEF IInv
  <1>3. \A q : /\ Place(few, q) \in Nat /\ Place(many, q) \in Nat
               /\ Place(few, q) <= Place(many, q)
    BY <1>1, <1>2, PlaceGrows
  <1>4. a \in Tables /\ offset[w] \in Nat /\ limit[w] \in Nat
    BY SizeType DEF IInv
  <1>5. WalkInv(w)
    BY DEF IInv
  <1>6. Behind(w)'
    <2> SUFFICES ASSUME pc[w] \in {"list", "answer", "done"}, ~shrunk[w],
                        NEW q \in old[w]
                 PROVE  /\ q \in many
                        /\ pc[w] \in {"list", "answer"} =>
                             q \in listed[w] \/ Place(many, q) >= offset[w]
                        /\ pc[w] = "answer" =>
                             \/ q \in listed[w] \cup page[w]
                             \/ /\ Place(many, q) >= offset[w] + limit[w]
                                /\ about[w] = "account"
                                     => Cardinality(page[w]) = limit[w]
                        /\ pc[w] = "done" => q \in listed[w]
      BY <1>1 DEF Behind, request
    <2>1. q \in few /\ q \in many
      BY <1>1, <1>5 DEF WalkInv, Behind
    <2>2. pc[w] \in {"list", "answer"} =>
            q \in listed[w] \/ Place(few, q) >= offset[w]
      BY <1>5 DEF WalkInv, Behind
    <2>3. pc[w] = "answer" =>
             \/ q \in listed[w] \cup page[w]
             \/ /\ Place(few, q) >= offset[w] + limit[w]
                /\ about[w] = "account" => Cardinality(page[w]) = limit[w]
      BY <1>5 DEF WalkInv, Behind
    <2>4. pc[w] = "done" => q \in listed[w]
      BY <1>5 DEF WalkInv, Behind
    <2>5. /\ Place(few, q) \in Nat /\ Place(many, q) \in Nat
          /\ Place(few, q) <= Place(many, q)
      BY <1>3
    <2> HIDE DEF few, many
    <2> QED
      BY <2>1, <2>2, <2>3, <2>4, <2>5, <1>4
  <1>7. Ahead(w)'
    <2> SUFFICES ASSUME ~grown'[w], pc[w] \in {"list", "answer"} PROVE Ahead(w)'
      BY <1>1 DEF Ahead, request
    <2>1. many = few /\ ~grown[w]
      BY <1>1
    <2> QED
      BY <1>1, <1>5, <2>1 DEF WalkInv, Ahead, request
  <1>8. Within(w)'
    <2>1. Rows(listable["charge"]) /\ Rows(listable'["charge"])
      <3>1. Rows(listable["charge"])
        BY ListableRows DEF IInv, Tables
      <3>2. Rows(listable'["charge"])
        BY <1>0 DEF Tables
      <3> QED
        BY <3>1, <3>2
    <2>2. /\ Cardinality(listable["charge"]) \in Nat
          /\ Cardinality(listable'["charge"]) \in Nat
          /\ Cardinality(listable["charge"]) <= Cardinality(listable'["charge"])
      BY <1>1, <2>1, FS_CardinalityType, FS_Subset,
         listable["charge"] \in SUBSET listable'["charge"] DEF Rows
    <2>3. Cardinality(page[w]) \in Nat
      BY SizeType DEF IInv
    <2> QED
      BY <1>1, <1>4, <1>5, <2>2, <2>3 DEF WalkInv, Within, request
  <1> QED
    BY <1>6, <1>7, <1>8 DEF WalkInv

(* A row goes, which no charge does.                                       *)
LEMMA TablesShrink ==
  ASSUME IInv, NEW t \in Tables, NEW r, Vanish(t, r), NEW w \in Walkers
  PROVE  WalkInv(w)'
  <1> DEFINE a == about[w]
             few == listable'[a]
             many == listable[a]
  <1>1. /\ UNCHANGED request /\ old' = old /\ grown' = grown
        /\ pc[w] # "idle" /\ a = t => shrunk'[w]
        /\ ~shrunk'[w] => ~shrunk[w]
        /\ a # t => many = few
        /\ few \subseteq many
        /\ listable["charge"] = listable'["charge"]
    BY SizeType DEF IInv, TypeInv, TypeOK, Vanish, Leaves, Tables
  <1>2. Rows(many) /\ offset[w] \in Nat /\ limit[w] \in Nat
    BY SizeType DEF IInv
  <1>3. \A q : /\ Place(few, q) \in Nat /\ Place(many, q) \in Nat
               /\ Place(few, q) <= Place(many, q)
    BY <1>1, <1>2, PlaceGrows
  <1>5. WalkInv(w)
    BY DEF IInv
  <1>6. Behind(w)'
    <2> SUFFICES ASSUME ~shrunk'[w], pc[w] \in {"list", "answer", "done"}
                 PROVE  Behind(w)'
      BY <1>1 DEF Behind, request
    <2>1. many = few /\ ~shrunk[w]
      BY <1>1
    <2> QED
      BY <1>1, <1>5, <2>1 DEF WalkInv, Behind, request
  <1>7. Ahead(w)'
    <2> SUFFICES ASSUME pc[w] \in {"list", "answer"}, ~grown[w]
                 PROVE  /\ \A q \in listed[w] \cap few : Place(few, q) < offset[w]
                        /\ pc[w] = "answer" =>
                             /\ page[w] \cap listed[w] = {}
                             /\ \A q \in page[w] \cap few :
                                  Place(few, q) < offset[w] + limit[w]
      BY <1>1 DEF Ahead, request
    <2>1. /\ \A q \in listed[w] \cap many : Place(many, q) < offset[w]
          /\ pc[w] = "answer" =>
               /\ page[w] \cap listed[w] = {}
               /\ \A q \in page[w] \cap many :
                    Place(many, q) < offset[w] + limit[w]
      BY <1>5 DEF WalkInv, Ahead
    <2>2. few \subseteq many
      BY <1>1
    <2> HIDE DEF few, many
    <2> QED
      BY <1>2, <1>3, <2>1, <2>2
  <1>8. Within(w)'
    BY <1>1, <1>5 DEF WalkInv, Within, request
  <1> QED
    BY <1>6, <1>7, <1>8 DEF WalkInv

LEMMA TablesStep ==
  ASSUME IInv, TypeInv', NEW w \in Walkers,
         \/ \E t \in Tables, k \in Columns : Insert(t, k)
         \/ \E t \in Tables :
              \/ \E r \in hidden[t] : Appear(t, r) \/ Drop(t, r)
              \/ \E r \in listable[t] : Vanish(t, r)
  PROVE  WalkInv(w)'
  BY TablesKept, TablesGrow, TablesShrink DEF Insert, Drop

(* What a client does concerns no other.                                   *)
LEMMA OthersKept ==
  ASSUME IInv, NEW w \in Walkers, NEW v \in Walkers, v # w,
         \/ \E t \in Tables, size \in Limits : Start(w, t, size)
         \/ \E t \in Tables : List(w, t)
         \/ \E total, more : Answer(w, total, more)
         \/ Fail(w) \/ Finish(w)
  PROVE  WalkInv(v)'
  <1>1. WalkInv(v)
    BY DEF IInv
  <1>2. /\ listable' = listable
        /\ pc'[v] = pc[v] /\ about'[v] = about[v] /\ limit'[v] = limit[v]
        /\ offset'[v] = offset[v] /\ page'[v] = page[v]
        /\ listed'[v] = listed[v] /\ old'[v] = old[v]
        /\ grown'[v] = grown[v] /\ shrunk'[v] = shrunk[v]
    BY DEF IInv, TypeInv, TypeOK, Start, List, Answer, Fail, Finish, database,
           history
  <1> QED
    BY <1>1, <1>2 DEF WalkInv, Behind, Ahead, Within

LEMMA StartStep ==
  ASSUME IInv, NEW w \in Walkers, NEW t \in Tables, NEW size \in Limits,
         Start(w, t, size)
  PROVE  WalkInv(w)'
  <1>1. /\ listable' = listable /\ pc'[w] = "list" /\ about'[w] = t
        /\ offset'[w] = 0 /\ listed'[w] = {} /\ old'[w] = listable[t]
    BY DEF IInv, TypeInv, TypeOK, Start, database
  <1>2. \A r \in listable[t] : Place(listable[t], r) \in Nat
    BY ListableRows, PlaceIsBounded DEF IInv
  <1> QED
    BY <1>1, <1>2 DEF WalkInv, Behind, Ahead, Within

LEMMA ListStep ==
  ASSUME IInv, NEW w \in Walkers, NEW t \in Tables, List(w, t)
  PROVE  WalkInv(w)'
  <1> DEFINE rows == listable[t]
             from == offset[w]
             size == limit[w]
             page1 == Page(rows, from, size)
  <1>1. /\ UNCHANGED <<listable, about, limit, offset, listed, old, grown, shrunk>>
        /\ pc[w] = "list" /\ about[w] = t
        /\ pc'[w] = "answer" /\ page'[w] = page1
    BY DEF IInv, TypeInv, TypeOK, List, database, history
  <1>2. Rows(rows) /\ from \in Nat /\ size \in Nat
    BY ListableRows, SizeType DEF IInv
  <1>3. \A r \in rows : Place(rows, r) \in Nat
    BY <1>2, PlaceIsBounded
  <1>4. /\ ~shrunk[w] => \A r \in old[w] :
             r \in rows /\ (r \in listed[w] \/ Place(rows, r) >= from)
        /\ ~grown[w] => \A r \in listed[w] \cap rows : Place(rows, r) < from
    BY <1>1 DEF IInv, WalkInv, Behind, Ahead
  <1>5. Behind(w)'
    <2> SUFFICES ASSUME ~shrunk[w], NEW r \in old[w]
                 PROVE  /\ r \in rows
                        /\ r \in listed[w] \/ Place(rows, r) >= from
                        /\ \/ r \in listed[w] \cup page1
                           \/ /\ Place(rows, r) >= from + size
                              /\ Cardinality(page1) = size
      BY <1>1 DEF Behind
    <2>1. r \in rows /\ (r \in listed[w] \/ Place(rows, r) >= from)
      BY <1>4
    <2>2. CASE r \in listed[w]
      BY <2>1, <2>2
    <2>3. CASE Place(rows, r) >= from /\ Place(rows, r) < from + size
      BY <2>1, <2>3 DEF Page
    <2>4. CASE Place(rows, r) >= from + size
      BY <1>2, <2>1, <2>4, PageIsFull
    <2> QED
      BY <1>2, <1>3, <2>1, <2>2, <2>3, <2>4
  <1>6. Ahead(w)'
    <2> SUFFICES ASSUME ~grown[w]
                 PROVE  /\ \A r \in listed[w] \cap rows : Place(rows, r) < from
                        /\ page1 \cap listed[w] = {}
                        /\ \A r \in page1 : Place(rows, r) < from + size
      BY <1>1 DEF Ahead
    <2>1. \A r \in page1 : /\ r \in rows
                           /\ from <= Place(rows, r)
                           /\ Place(rows, r) < from + size
      BY DEF Page
    <2>2. \A r \in listed[w] \cap rows : Place(rows, r) < from
      BY <1>4
    <2> HIDE DEF page1, rows, from, size
    <2> QED
      BY <1>2, <1>3, <2>1, <2>2
  <1>7. Within(w)'
    BY <1>1, <1>2, PageIsWithin DEF Within
  <1> QED
    BY <1>5, <1>6, <1>7 DEF WalkInv

(* A walk of charges ends when it has asked for them all, one of accounts  *)
(* at a page that is not full; nothing lies behind either.                 *)
LEMMA AnswerStep ==
  ASSUME IInv, NEW w \in Walkers, AnswerCharges(w) \/ AnswerAccounts(w)
  PROVE  WalkInv(w)'
  <1> DEFINE rows == listable[about[w]]
             from == offset[w]
             size == limit[w]
             more == pc'[w] = "list"
  <1>1. /\ UNCHANGED <<listable, about, old, grown, shrunk>>
        /\ pc[w] = "answer" /\ pc'[w] \in {"list", "done"}
        /\ listed'[w] = listed[w] \cup page[w] /\ offset'[w] = from + size
    BY DEF IInv, TypeInv, TypeOK, AnswerCharges, AnswerAccounts, Answer,
           database, history
  <1>2. /\ Rows(rows) /\ from \in Nat /\ size \in Nat
        /\ Cardinality(rows) \in Nat
    BY SizeType DEF IInv
  <1>3. \A r \in rows : Place(rows, r) \in Nat /\ Place(rows, r) < Cardinality(rows)
    BY <1>2, PlaceIsBounded
  <1>4. ~more => \/ about[w] = "charge" /\ from + size >= Cardinality(rows)
                 \/ about[w] = "account" /\ Cardinality(page[w]) # size
    <2>1. CASE AnswerCharges(w)
      BY <1>2, <2>1 DEF IInv, TypeInv, TypeOK, AnswerCharges, Answer, ChargesCount
    <2>2. CASE AnswerAccounts(w)
      BY <2>2 DEF IInv, TypeInv, TypeOK, AnswerAccounts, Answer
    <2> QED
      BY <2>1, <2>2
  <1>5. Behind(w)'
    <2> SUFFICES ASSUME ~shrunk[w], NEW r \in old[w]
                 PROVE  /\ r \in rows
                        /\ \/ r \in listed[w] \cup page[w]
                           \/ more /\ Place(rows, r) >= from + size
      BY <1>1 DEF Behind
    <2>1. /\ r \in rows
          /\ \/ r \in listed[w] \cup page[w]
             \/ /\ Place(rows, r) >= from + size
                /\ about[w] = "account" => Cardinality(page[w]) = size
      BY <1>1 DEF IInv, WalkInv, Behind
    <2>2. Place(rows, r) \in Nat /\ Place(rows, r) < Cardinality(rows)
      BY <1>3, <2>1
    <2> HIDE DEF more, rows, from, size
    <2> QED
      BY <1>2, <1>4, <2>1, <2>2
  <1>6. Ahead(w)'
    <2> SUFFICES ASSUME ~grown[w]
                 PROVE  \A r \in (listed[w] \cup page[w]) \cap rows :
                          Place(rows, r) < from + size
      BY <1>1 DEF Ahead
    <2>1. /\ \A r \in listed[w] \cap rows : Place(rows, r) < from
          /\ \A r \in page[w] \cap rows : Place(rows, r) < from + size
      BY <1>1 DEF IInv, WalkInv, Ahead
    <2> HIDE DEF rows, from, size
    <2> QED
      BY <1>2, <1>3, <2>1
  <1>7. Within(w)'
    BY <1>1 DEF Within
  <1> QED
    BY <1>5, <1>6, <1>7 DEF WalkInv

(* The page that was read is lost, and still lies behind the offset.       *)
LEMMA FailStep ==
  ASSUME IInv, NEW w \in Walkers, Fail(w)
  PROVE  WalkInv(w)'
  <1>1. /\ UNCHANGED <<listable, about, limit, offset, listed, old, grown, shrunk>>
        /\ pc[w] \in {"list", "answer"} /\ pc'[w] = "list"
    BY DEF IInv, TypeInv, TypeOK, Fail, database, history
  <1>2. Behind(w) /\ Ahead(w)
    BY DEF IInv, WalkInv
  <1>3. Behind(w)'
    BY <1>1, <1>2 DEF Behind
  <1>4. Ahead(w)'
    BY <1>1, <1>2 DEF Ahead
  <1>5. Within(w)'
    BY <1>1 DEF Within
  <1> QED
    BY <1>3, <1>4, <1>5 DEF WalkInv

LEMMA FinishStep ==
  ASSUME IInv, NEW w \in Walkers, Finish(w)
  PROVE  WalkInv(w)'
  <1>1. pc'[w] = "idle"
    BY DEF IInv, TypeInv, TypeOK, Finish
  <1> QED
    BY <1>1 DEF WalkInv, Behind, Ahead, Within

LEMMA ClientStep ==
  ASSUME IInv, NEW v \in Walkers, NEW w \in Walkers,
         \/ \E t \in Tables, size \in Limits : Start(v, t, size)
         \/ GetCharges(v) \/ GetAccounts(v)
         \/ AnswerCharges(v) \/ AnswerAccounts(v)
         \/ Fail(v) \/ Finish(v)
  PROVE  WalkInv(w)'
  <1>1. GetCharges(v) \/ GetAccounts(v) => \E t \in Tables : List(v, t)
    BY DEF GetCharges, GetAccounts, Tables
  <1>2. AnswerCharges(v) \/ AnswerAccounts(v) => \E total, more : Answer(v, total, more)
    <2>1. AnswerCharges(v) =>
            Answer(v, ChargesCount, offset[v] + limit[v] < ChargesCount)
      BY DEF AnswerCharges
    <2>2. AnswerAccounts(v) =>
            Answer(v, Cardinality(page[v]), Cardinality(page[v]) = limit[v])
      BY DEF AnswerAccounts
    <2> QED
      BY <2>1, <2>2, Zenon
  <1>3. CASE w # v
    BY <1>1, <1>2, <1>3, OthersKept
  <1>4. CASE w = v
    BY <1>1, <1>4, StartStep, ListStep, AnswerStep, FailStep, FinishStep
  <1> QED
    BY <1>3, <1>4

LEMMA INext == IInv /\ [Next]_vars => IInv'
  <1> SUFFICES ASSUME IInv, [Next]_vars PROVE IInv'
    OBVIOUS
  <1>1. TypeInv'
    BY TypeNext DEF IInv
  <1>2. ASSUME NEW w \in Walkers PROVE WalkInv(w)'
    <2>1. CASE UNCHANGED vars
      BY <2>1, TablesKept DEF vars, database
    <2>2. CASE Next
      BY <1>1, <2>2, TablesStep, ClientStep DEF Next
    <2> QED
      BY <2>1, <2>2
  <1> QED
    BY <1>1, <1>2 DEF IInv

-----------------------------------------------------------------------------
(* A walk during which no row goes comes upon every row that was there     *)
(* when it began, whatever comes in the meantime, whichever calls fail,    *)
(* and though the end of the charges is read after the page.               *)
THEOREM NoneIsMissed == Spec => []NothingMissed
  <1>1. IInv => NothingMissed
    BY DEF IInv, WalkInv, Behind, NothingMissed
  <1> QED
    BY <1>1, IInit, INext, PTL DEF Spec

(* While no row comes, no page holds a row that an earlier one held.       *)
THEOREM NoneIsRepeated == Spec => []NothingRepeated
  <1>1. IInv => NothingRepeated
    BY DEF IInv, WalkInv, Ahead, NothingRepeated
  <1> QED
    BY <1>1, IInit, INext, PTL DEF Spec

(* The count that is read after a page of charges covers the page and all  *)
(* the places before it, as charges never go.                              *)
THEOREM CountCoversPages == Spec => TotalsCover
  <1> DEFINE Covers == \A w \in Walkers : AnswerCharges(w) /\ page[w] # {} =>
                         count'[w] >= offset[w] + Cardinality(page[w])
  <1>1. IInv => Covers
    <2> SUFFICES ASSUME IInv, NEW w \in Walkers, AnswerCharges(w), page[w] # {}
                 PROVE  count'[w] >= offset[w] + Cardinality(page[w])
      OBVIOUS
    <2>1. /\ pc[w] = "answer" /\ about[w] = "charge"
          /\ count'[w] = Cardinality(listable["charge"])
      BY DEF IInv, TypeInv, TypeOK, AnswerCharges, Answer, ChargesCount
    <2> QED
      BY <2>1 DEF IInv, WalkInv, Within
  <1>2. IInv /\ [Next]_vars => [Covers]_vars
    BY <1>1
  <1> QED
    BY <1>2, IInit, INext, PTL DEF Spec, TotalsCover
=============================================================================
