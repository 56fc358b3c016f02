---------------------------- MODULE BillsProofs ----------------------------
(***************************************************************************)
(* Proofs about Bills, for any resources, services, page sizes and bounds: *)
(* its types, that a summary adds up, that a report is whole, that a page  *)
(* is a slice and that a walk passes over nothing.                         *)
(***************************************************************************)
EXTENDS Bills, DataInduction, SequenceTheorems

-----------------------------------------------------------------------------
(* Order in a sequence.                                                    *)

Before(q, x, y) ==
  \E i, j \in DOMAIN q : i < j /\ q[i] = x /\ q[j] = y

LEMMA InjectiveOrder ==
  ASSUME NEW X, NEW q \in Seq(X)
  PROVE  Injective(q) <=> \A x : ~Before(q, x, x)
<1>1. DOMAIN q = 1 .. Len(q) /\ Len(q) \in Nat
  BY LenProperties
<1>2. ASSUME Injective(q), NEW x, Before(q, x, x) PROVE FALSE
  BY <1>1, <1>2 DEF Injective, Before
<1>3. ASSUME \A x : ~Before(q, x, x), NEW i \in DOMAIN q, NEW j \in DOMAIN q,
             q[i] = q[j]
      PROVE  i = j
  <2>1. ~(i < j) /\ ~(j < i)
    BY <1>3 DEF Before
  <2>2. i \in Nat /\ j \in Nat
    BY <1>1
  <2> QED
    BY <2>1, <2>2
<1> QED
  BY <1>2, <1>3 DEF Injective

LEMMA OrderIsTotal ==
  ASSUME NEW X, NEW q \in Seq(X), Injective(q)
  PROVE  /\ \A x, y : Before(q, x, y) =>
              x \in ToSet(q) /\ y \in ToSet(q) /\ x # y /\ ~Before(q, y, x)
         /\ \A x, y \in ToSet(q) : x # y => Before(q, x, y) \/ Before(q, y, x)
         /\ \A x, y, z : Before(q, x, y) /\ Before(q, y, z) => Before(q, x, z)
<1>1. DOMAIN q = 1 .. Len(q) /\ Len(q) \in Nat
  BY LenProperties
<1>2. ASSUME NEW x, NEW y, Before(q, x, y)
      PROVE  x \in ToSet(q) /\ y \in ToSet(q) /\ x # y /\ ~Before(q, y, x)
  BY <1>1, <1>2 DEF Before, Injective, ToSet
<1>3. ASSUME NEW x \in ToSet(q), NEW y \in ToSet(q), x # y
      PROVE  Before(q, x, y) \/ Before(q, y, x)
  <2>1. PICK i \in DOMAIN q, j \in DOMAIN q : q[i] = x /\ q[j] = y
    BY DEF ToSet
  <2>2. i < j \/ j < i
    BY <1>1, <1>3, <2>1
  <2> QED
    BY <2>1, <2>2 DEF Before
<1>4. ASSUME NEW x, NEW y, NEW z, Before(q, x, y), Before(q, y, z)
      PROVE  Before(q, x, z)
  <2>1. PICK i \in DOMAIN q, j \in DOMAIN q : i < j /\ q[i] = x /\ q[j] = y
    BY <1>4 DEF Before
  <2>2. PICK k \in DOMAIN q, l \in DOMAIN q : k < l /\ q[k] = y /\ q[l] = z
    BY <1>4 DEF Before
  <2>3. j = k
    BY <2>1, <2>2 DEF Injective
  <2>4. i < l
    BY <1>1, <2>1, <2>2, <2>3
  <2> QED
    BY <2>1, <2>2, <2>4 DEF Before
<1> QED
  BY <1>2, <1>3, <1>4

-----------------------------------------------------------------------------
(* What is chosen from a sequence.                                         *)

Choosing(g, q, S, n) ==
  g = [i \in 0 .. n |-> IF i = 0 THEN <<>>
                        ELSE IF q[i] \in S THEN Append(g[i - 1], q[i])
                        ELSE g[i - 1]]

LEMMA ChoosingExists ==
  ASSUME NEW q, NEW S, NEW n \in Nat
  PROVE  \E g : Choosing(g, q, S, n)
<1> DEFINE T == {m \in Nat : ~ \E g : Choosing(g, q, S, m)}
<1> SUFFICES ASSUME T # {} PROVE FALSE
  OBVIOUS
<1>1. PICK m \in T : \A k \in T : m <= k
  <2>1. T \subseteq Nat /\ T # {}
    OBVIOUS
  <2> HIDE DEF T
  <2> QED
    BY <2>1, NatLeast DEF HasFirst
<1>2. CASE m = 0
  <2>1. Choosing([i \in 0 .. 0 |-> <<>>], q, S, 0)
    BY DEF Choosing
  <2> QED
    BY <1>2, <2>1
<1>3. CASE m # 0
  <2>1. m \in Nat /\ m - 1 \in Nat /\ m - 1 \notin T
    BY <1>1, <1>3
  <2>2. PICK g : Choosing(g, q, S, m - 1)
    BY <2>1
  <2> DEFINE h == [i \in 0 .. m |->
                     IF i < m THEN g[i]
                     ELSE IF q[m] \in S THEN Append(g[m - 1], q[m]) ELSE g[m - 1]]
  <2>3. ASSUME NEW i \in 0 .. m
        PROVE  h[i] = IF i = 0 THEN <<>>
                      ELSE IF q[i] \in S THEN Append(h[i - 1], q[i]) ELSE h[i - 1]
    <3>1. i < m => i \in 0 .. m - 1
      BY <2>1
    <3>2. i < m => g[i] = IF i = 0 THEN <<>>
                          ELSE IF q[i] \in S THEN Append(g[i - 1], q[i])
                          ELSE g[i - 1]
      BY <2>2, <3>1 DEF Choosing
    <3>3. i # 0 => i - 1 \in 0 .. m /\ h[i - 1] = g[i - 1]
      BY <2>1
    <3>4. CASE i < m
      BY <3>2, <3>3, <3>4
    <3>5. CASE i = m
      BY <1>3, <2>1, <3>3, <3>5
    <3> QED
      BY <2>1, <3>4, <3>5
  <2>4. h = [i \in 0 .. m |-> h[i]]
    OBVIOUS
  <2>5. Choosing(h, q, S, m)
    <3> HIDE DEF h
    <3> QED
      BY <2>3, <2>4 DEF Choosing
  <2> QED
    BY <2>5
<1> QED
  BY <1>2, <1>3

(* One look at each member of q.                                           *)
LEMMA ChosenSteps ==
  ASSUME NEW q, NEW S, Len(q) \in Nat
  PROVE  \E g : /\ Chosen(q, S) = g[Len(q)]
                /\ g[0] = <<>>
                /\ \A i \in 1 .. Len(q) :
                     g[i] = IF q[i] \in S THEN Append(g[i - 1], q[i])
                            ELSE g[i - 1]
<1> DEFINE g == CHOOSE h : Choosing(h, q, S, Len(q))
<1>1. Choosing(g, q, S, Len(q))
  BY ChoosingExists
<1>2. Chosen(q, S) = g[Len(q)]
  BY DEF Chosen, Choosing
<1> HIDE DEF g
<1>3. g[0] = <<>>
  BY <1>1 DEF Choosing
<1>4. ASSUME NEW i \in 1 .. Len(q)
      PROVE  g[i] = IF q[i] \in S THEN Append(g[i - 1], q[i]) ELSE g[i - 1]
  <2>1. i \in 0 .. Len(q) /\ i # 0
    OBVIOUS
  <2> QED
    BY <1>1, <2>1 DEF Choosing
<1> QED
  BY <1>2, <1>3, <1>4

(* c is what has been chosen from the first n members of q.                *)
ChosenUpTo(c, q, S, n) ==
  /\ \A a \in DOMAIN c : c[a] \in S /\ \E j \in 1 .. n : q[j] = c[a]
  /\ \A j \in 1 .. n : q[j] \in S => \E a \in DOMAIN c : c[a] = q[j]
  /\ \A a, b \in DOMAIN c : a < b =>
       \E j, k \in 1 .. n : j < k /\ q[j] = c[a] /\ q[k] = c[b]

LEMMA ChosenAll ==
  ASSUME NEW X, NEW q \in Seq(X), NEW S
  PROVE  Chosen(q, S) \in Seq(X) /\ ChosenUpTo(Chosen(q, S), q, S, Len(q))
<1> DEFINE n == Len(q)
<1>1. n \in Nat /\ \A i \in 1 .. n : q[i] \in X
  BY LenProperties, ElementOfSeq
<1>2. PICK g : /\ Chosen(q, S) = g[n]
               /\ g[0] = <<>>
               /\ \A i \in 1 .. n :
                    g[i] = IF q[i] \in S THEN Append(g[i - 1], q[i])
                           ELSE g[i - 1]
  BY <1>1, ChosenSteps
<1> DEFINE Right(i) == g[i] \in Seq(X) /\ ChosenUpTo(g[i], q, S, i)
           T == {i \in 0 .. n : ~Right(i)}
<1>3. T = {}
  <2> SUFFICES ASSUME T # {} PROVE FALSE
    OBVIOUS
  <2>1. PICK m \in T : \A k \in T : m <= k
    <3>1. T \subseteq Nat /\ T # {}
      BY <1>1
    <3> HIDE DEF T
    <3> QED
      BY <3>1, NatLeast DEF HasFirst
  <2>2. CASE m = 0
    <3>1. Right(0)
      BY <1>2 DEF ChosenUpTo
    <3> QED
      BY <2>2, <3>1
  <2>3. CASE m # 0
    <3> DEFINE c == g[m - 1]
    <3>1. m \in 1 .. n /\ m - 1 \in 0 .. n /\ m - 1 \notin T
      BY <1>1, <2>1, <2>3
    <3>2. c \in Seq(X) /\ ChosenUpTo(c, q, S, m - 1)
      BY <3>1
    <3>3. q[m] \in X /\ g[m] = IF q[m] \in S THEN Append(c, q[m]) ELSE c
      BY <1>1, <1>2, <3>1
    <3> HIDE DEF c
    <3>4. CASE q[m] \notin S
      <4>1. ChosenUpTo(c, q, S, m)
        BY <3>1, <3>2, <3>4 DEF ChosenUpTo
      <4> QED
        BY <3>2, <3>3, <3>4, <4>1
    <3>5. CASE q[m] \in S
      <4> DEFINE e == Append(c, q[m])
      <4>1. /\ e \in Seq(X) /\ Len(c) \in Nat /\ DOMAIN c = 1 .. Len(c)
            /\ DOMAIN e = 1 .. Len(c) + 1
            /\ \A a \in 1 .. Len(c) : e[a] = c[a]
            /\ e[Len(c) + 1] = q[m]
        BY <3>2, <3>3, AppendProperties, LenProperties
      <4> HIDE DEF e
      <4>2. \A a \in DOMAIN e : e[a] \in S /\ \E j \in 1 .. m : q[j] = e[a]
        BY <3>1, <3>2, <3>5, <4>1 DEF ChosenUpTo
      <4>3. \A j \in 1 .. m : q[j] \in S => \E a \in DOMAIN e : e[a] = q[j]
        <5> SUFFICES ASSUME NEW j \in 1 .. m, q[j] \in S
                     PROVE  \E a \in DOMAIN e : e[a] = q[j]
          OBVIOUS
        <5>1. CASE j = m
          <6>1. Len(c) + 1 \in DOMAIN e
            BY <4>1
          <6> QED
            BY <4>1, <5>1, <6>1
        <5>2. CASE j # m
          <6>1. j \in 1 .. m - 1
            BY <3>1, <5>2
          <6>2. PICK a \in DOMAIN c : c[a] = q[j]
            BY <3>2, <6>1 DEF ChosenUpTo
          <6>3. a \in DOMAIN e /\ e[a] = c[a]
            BY <4>1
          <6> QED
            BY <6>2, <6>3
        <5> QED
          BY <5>1, <5>2
      <4>4. ASSUME NEW a \in DOMAIN e, NEW b \in DOMAIN e, a < b
            PROVE  \E j, k \in 1 .. m : j < k /\ q[j] = e[a] /\ q[k] = e[b]
        <5>1. CASE b = Len(c) + 1
          <6>1. a \in DOMAIN c /\ e[a] = c[a]
            BY <4>1, <4>4, <5>1
          <6>2. PICK j \in 1 .. m - 1 : q[j] = c[a]
            BY <3>2, <6>1 DEF ChosenUpTo
          <6>3. j \in 1 .. m /\ m \in 1 .. m /\ j < m
            BY <3>1
          <6> QED
            BY <4>1, <5>1, <6>1, <6>2, <6>3
        <5>2. CASE b # Len(c) + 1
          <6>1. a \in DOMAIN c /\ b \in DOMAIN c /\ e[a] = c[a] /\ e[b] = c[b]
            BY <4>1, <4>4, <5>2
          <6>2. PICK j \in 1 .. m - 1, k \in 1 .. m - 1 :
                  j < k /\ q[j] = c[a] /\ q[k] = c[b]
            BY <3>2, <4>4, <6>1 DEF ChosenUpTo
          <6>3. j \in 1 .. m /\ k \in 1 .. m
            BY <3>1
          <6> QED
            BY <6>1, <6>2, <6>3
        <5> QED
          BY <5>1, <5>2
      <4>5. ChosenUpTo(e, q, S, m)
        BY <4>2, <4>3, <4>4 DEF ChosenUpTo
      <4> QED
        BY <3>3, <3>5, <4>1, <4>5 DEF e
    <3> QED
      BY <3>4, <3>5
  <2> QED
    BY <2>2, <2>3
<1> HIDE DEF Right
<1>4. Right(n)
  BY <1>1, <1>3
<1> QED
  BY <1>2, <1>4 DEF Right

LEMMA ChosenIs ==
  ASSUME NEW X, NEW q \in Seq(X), NEW S
  PROVE  /\ Chosen(q, S) \in Seq(X)
         /\ ToSet(Chosen(q, S)) = ToSet(q) \cap S
         /\ \A x, y : Before(Chosen(q, S), x, y) => Before(q, x, y)
         /\ Injective(q) =>
              /\ Injective(Chosen(q, S))
              /\ \A x, y \in S : Before(q, x, y) => Before(Chosen(q, S), x, y)
<1> DEFINE c == Chosen(q, S)
<1>1. c \in Seq(X) /\ ChosenUpTo(c, q, S, Len(q))
  BY ChosenAll
<1>2. DOMAIN q = 1 .. Len(q)
  BY LenProperties
<1> HIDE DEF c
<1>3. ToSet(c) = ToSet(q) \cap S
  <2>1. \A a \in DOMAIN c : c[a] \in S /\ \E j \in DOMAIN q : q[j] = c[a]
    BY <1>1, <1>2 DEF ChosenUpTo
  <2>2. \A j \in DOMAIN q : q[j] \in S => \E a \in DOMAIN c : c[a] = q[j]
    BY <1>1, <1>2 DEF ChosenUpTo
  <2> QED
    BY <2>1, <2>2 DEF ToSet
<1>4. ASSUME NEW x, NEW y, Before(c, x, y) PROVE Before(q, x, y)
  <2>1. PICK a \in DOMAIN c, b \in DOMAIN c : a < b /\ c[a] = x /\ c[b] = y
    BY <1>4 DEF Before
  <2>2. PICK j \in 1 .. Len(q), k \in 1 .. Len(q) :
          j < k /\ q[j] = c[a] /\ q[k] = c[b]
    BY <1>1, <2>1 DEF ChosenUpTo
  <2> QED
    BY <1>2, <2>1, <2>2 DEF Before
<1>5. Injective(q) => Injective(c)
  BY <1>1, <1>4, InjectiveOrder
<1>6. ASSUME Injective(q), NEW x \in S, NEW y \in S, Before(q, x, y)
      PROVE  Before(c, x, y)
  <2>1. x \in ToSet(c) /\ y \in ToSet(c) /\ x # y /\ ~Before(q, y, x)
    BY <1>3, <1>6, OrderIsTotal
  <2>2. Before(c, x, y) \/ Before(c, y, x)
    BY <1>1, <1>5, <1>6, <2>1, OrderIsTotal
  <2> QED
    BY <1>4, <2>1, <2>2
<1> QED
  BY <1>1, <1>3, <1>4, <1>5, <1>6 DEF c

(* What is appended, put behind or taken away.                             *)
LEMMA AppendOrder ==
  ASSUME NEW X, NEW q \in Seq(X), NEW e \in X
  PROVE  /\ Append(q, e) \in Seq(X)
         /\ ToSet(Append(q, e)) = ToSet(q) \cup {e}
         /\ \A x, y : Before(Append(q, e), x, y) <=>
                       Before(q, x, y) \/ (x \in ToSet(q) /\ y = e)
<1> DEFINE r == Append(q, e)
<1>1. /\ r \in Seq(X) /\ Len(q) \in Nat /\ DOMAIN q = 1 .. Len(q)
      /\ DOMAIN r = 1 .. Len(q) + 1
      /\ \A i \in 1 .. Len(q) : r[i] = q[i]
      /\ r[Len(q) + 1] = e
  BY AppendProperties, LenProperties
<1> HIDE DEF r
<1>2. ToSet(r) = ToSet(q) \cup {e}
  <2>1. \A i \in DOMAIN q : i \in DOMAIN r /\ r[i] = q[i]
    BY <1>1
  <2>2. \A i \in DOMAIN r : i \in DOMAIN q \/ i = Len(q) + 1
    BY <1>1
  <2>3. Len(q) + 1 \in DOMAIN r
    BY <1>1
  <2> QED
    BY <1>1, <2>1, <2>2, <2>3 DEF ToSet
<1>3. ASSUME NEW x, NEW y, Before(r, x, y)
      PROVE  Before(q, x, y) \/ (x \in ToSet(q) /\ y = e)
  <2>1. PICK i \in DOMAIN r, j \in DOMAIN r : i < j /\ r[i] = x /\ r[j] = y
    BY <1>3 DEF Before
  <2>2. i \in DOMAIN q /\ q[i] = x
    BY <1>1, <2>1
  <2>3. (j \in DOMAIN q /\ q[j] = y) \/ y = e
    BY <1>1, <2>1
  <2> QED
    BY <2>1, <2>2, <2>3 DEF Before, ToSet
<1>4. ASSUME NEW x, NEW y, Before(q, x, y) PROVE Before(r, x, y)
  <2>1. PICK i \in DOMAIN q, j \in DOMAIN q : i < j /\ q[i] = x /\ q[j] = y
    BY <1>4 DEF Before
  <2>2. i \in DOMAIN r /\ j \in DOMAIN r /\ r[i] = x /\ r[j] = y
    BY <1>1, <2>1
  <2> QED
    BY <2>1, <2>2 DEF Before
<1>5. ASSUME NEW x \in ToSet(q) PROVE Before(r, x, e)
  <2>1. PICK i \in DOMAIN q : q[i] = x
    BY DEF ToSet
  <2>2. i \in DOMAIN r /\ r[i] = x /\ i < Len(q) + 1 /\ Len(q) + 1 \in DOMAIN r
    BY <1>1, <2>1
  <2> QED
    BY <1>1, <2>2 DEF Before
<1> QED
  BY <1>1, <1>2, <1>3, <1>4, <1>5 DEF r

LEMMA ConcatOrder ==
  ASSUME NEW X, NEW p \in Seq(X), NEW q \in Seq(X)
  PROVE  /\ p \o q \in Seq(X)
         /\ ToSet(p \o q) = ToSet(p) \cup ToSet(q)
         /\ \A x, y : Before(p \o q, x, y) <=>
                       \/ Before(p, x, y) \/ Before(q, x, y)
                       \/ x \in ToSet(p) /\ y \in ToSet(q)
<1> DEFINE r == p \o q
           m == Len(p)
           n == Len(q)
<1>1. /\ r \in Seq(X) /\ m \in Nat /\ n \in Nat
      /\ DOMAIN p = 1 .. m /\ DOMAIN q = 1 .. n /\ DOMAIN r = 1 .. m + n
      /\ \A i \in 1 .. m + n : r[i] = IF i <= m THEN p[i] ELSE q[i - m]
  <2>1. /\ r \in Seq(X) /\ Len(r) = m + n
        /\ \A i \in 1 .. m + n : r[i] = IF i <= m THEN p[i] ELSE q[i - m]
    BY ConcatProperties
  <2> HIDE DEF r
  <2> QED
    BY <2>1, LenProperties
<1> HIDE DEF r, m, n
<1>2. \A i \in DOMAIN p : i \in DOMAIN r /\ r[i] = p[i]
  BY <1>1
<1>3. \A i \in DOMAIN q : i + m \in DOMAIN r /\ r[i + m] = q[i]
  <2> SUFFICES ASSUME NEW i \in 1 .. n
               PROVE  i + m \in 1 .. m + n /\ r[i + m] = q[i]
    BY <1>1
  <2>1. i + m \in 1 .. m + n /\ ~(i + m <= m) /\ (i + m) - m = i
    BY <1>1
  <2> QED
    BY <1>1, <2>1
<1>4. \A i \in DOMAIN r : \/ i \in DOMAIN p /\ r[i] = p[i]
                          \/ i - m \in DOMAIN q /\ i > m /\ r[i] = q[i - m]
  <2> SUFFICES ASSUME NEW i \in 1 .. m + n
               PROVE  \/ i \in 1 .. m /\ r[i] = p[i]
                      \/ i - m \in 1 .. n /\ i > m /\ r[i] = q[i - m]
    BY <1>1
  <2>1. CASE i <= m
    BY <1>1, <2>1
  <2>2. CASE i > m
    BY <1>1, <2>2
  <2> QED
    BY <1>1, <2>1, <2>2
<1>5. ToSet(r) = ToSet(p) \cup ToSet(q)
  BY <1>2, <1>3, <1>4 DEF ToSet
<1>6. ASSUME NEW x, NEW y, Before(r, x, y)
      PROVE  \/ Before(p, x, y) \/ Before(q, x, y)
             \/ x \in ToSet(p) /\ y \in ToSet(q)
  <2>1. PICK i \in DOMAIN r, j \in DOMAIN r : i < j /\ r[i] = x /\ r[j] = y
    BY <1>6 DEF Before
  <2>2. CASE i \in DOMAIN p /\ j \in DOMAIN p
    BY <1>1, <2>1, <2>2 DEF Before
  <2>3. CASE i \in DOMAIN p /\ j \notin DOMAIN p
    BY <1>2, <1>4, <2>1, <2>3 DEF ToSet
  <2>4. CASE i \notin DOMAIN p
    <3>1. /\ i - m \in DOMAIN q /\ j - m \in DOMAIN q /\ i - m < j - m
          /\ q[i - m] = x /\ q[j - m] = y
      BY <1>1, <1>4, <2>1, <2>4
    <3> QED
      BY <3>1 DEF Before
  <2> QED
    BY <2>2, <2>3, <2>4
<1>7. ASSUME NEW x, NEW y, Before(p, x, y) PROVE Before(r, x, y)
  BY <1>2, <1>7 DEF Before
<1>8. ASSUME NEW x, NEW y, Before(q, x, y) PROVE Before(r, x, y)
  <2>1. PICK i \in DOMAIN q, j \in DOMAIN q : i < j /\ q[i] = x /\ q[j] = y
    BY <1>8 DEF Before
  <2>2. /\ i + m \in DOMAIN r /\ j + m \in DOMAIN r /\ i + m < j + m
        /\ r[i + m] = x /\ r[j + m] = y
    BY <1>1, <1>3, <2>1
  <2> QED
    BY <2>2 DEF Before
<1>9. ASSUME NEW x \in ToSet(p), NEW y \in ToSet(q) PROVE Before(r, x, y)
  <2>1. PICK i \in DOMAIN p, j \in DOMAIN q : p[i] = x /\ q[j] = y
    BY DEF ToSet
  <2>2. i < j + m
    BY <1>1
  <2> QED
    BY <1>2, <1>3, <2>1, <2>2 DEF Before
<1>10. \A x, y : Before(r, x, y) <=>
                   \/ Before(p, x, y) \/ Before(q, x, y)
                   \/ x \in ToSet(p) /\ y \in ToSet(q)
  BY <1>6, <1>7, <1>8, <1>9
<1> QED
  BY <1>1, <1>5, <1>10 DEF r

LEMMA TailOrder ==
  ASSUME NEW X, NEW q \in Seq(X), q # <<>>
  PROVE  /\ Head(q) \in X /\ Tail(q) \in Seq(X)
         /\ ToSet(q) = {Head(q)} \cup ToSet(Tail(q))
         /\ \A x, y : Before(q, x, y) <=>
              Before(Tail(q), x, y) \/ (x = Head(q) /\ y \in ToSet(Tail(q)))
<1>1. /\ Head(q) \in X /\ Tail(q) \in Seq(X) /\ Head(q) = q[1]
      /\ Len(q) \in Nat /\ Len(q) > 0 /\ Len(Tail(q)) = Len(q) - 1
      /\ \A i \in 1 .. Len(Tail(q)) : Tail(q)[i] = q[i + 1]
  BY HeadTailProperties, LenProperties, EmptySeq
<1> DEFINE h == Head(q)
           p == Tail(q)
           n == Len(p)
<1>2. /\ DOMAIN p = 1 .. n /\ n \in Nat /\ DOMAIN q = 1 .. n + 1
      /\ h = q[1] /\ \A i \in 1 .. n : p[i] = q[i + 1]
  BY <1>1, LenProperties
<1> HIDE DEF h, p, n
<1>3. \A i \in DOMAIN p : i + 1 \in DOMAIN q /\ p[i] = q[i + 1]
  BY <1>2
<1>4. \A i \in DOMAIN q : \/ i = 1 /\ q[i] = h
                          \/ i > 1 /\ i - 1 \in DOMAIN p /\ q[i] = p[i - 1]
  BY <1>2
<1>5. ToSet(q) = {h} \cup ToSet(p)
  <2>1. 1 \in DOMAIN q
    BY <1>2
  <2> QED
    BY <1>2, <1>3, <1>4, <2>1 DEF ToSet
<1>6. ASSUME NEW x, NEW y, Before(q, x, y)
      PROVE  Before(p, x, y) \/ (x = h /\ y \in ToSet(p))
  <2>1. PICK i \in DOMAIN q, j \in DOMAIN q : i < j /\ q[i] = x /\ q[j] = y
    BY <1>6 DEF Before
  <2>2. j - 1 \in DOMAIN p /\ p[j - 1] = y
    BY <1>2, <1>4, <2>1
  <2>3. CASE i = 1
    BY <1>4, <2>1, <2>2, <2>3 DEF ToSet
  <2>4. CASE i # 1
    <3>1. i - 1 \in DOMAIN p /\ p[i - 1] = x /\ i - 1 < j - 1
      BY <1>2, <1>4, <2>1, <2>4
    <3> QED
      BY <2>2, <3>1 DEF Before
  <2> QED
    BY <2>3, <2>4
<1>7. ASSUME NEW x, NEW y, Before(p, x, y) PROVE Before(q, x, y)
  <2>1. PICK i \in DOMAIN p, j \in DOMAIN p : i < j /\ p[i] = x /\ p[j] = y
    BY <1>7 DEF Before
  <2>2. /\ i + 1 \in DOMAIN q /\ j + 1 \in DOMAIN q /\ i + 1 < j + 1
        /\ q[i + 1] = x /\ q[j + 1] = y
    BY <1>2, <1>3, <2>1
  <2> QED
    BY <2>2 DEF Before
<1>8. ASSUME NEW y \in ToSet(p) PROVE Before(q, h, y)
  <2>1. PICK j \in DOMAIN p : p[j] = y
    BY DEF ToSet
  <2>2. /\ 1 \in DOMAIN q /\ j + 1 \in DOMAIN q /\ 1 < j + 1
        /\ q[1] = h /\ q[j + 1] = y
    BY <1>2, <1>3, <2>1
  <2> QED
    BY <2>2 DEF Before
<1>9. \A x, y : Before(q, x, y) <=>
                  Before(p, x, y) \/ (x = h /\ y \in ToSet(p))
  BY <1>6, <1>7, <1>8
<1> QED
  BY <1>1, <1>5, <1>9 DEF h, p

-----------------------------------------------------------------------------
(* The loop of _pagination.                                                *)

AtFirst(m) == [result |-> <<>>, start |-> 0, hit |-> FALSE, marker |-> m,
               next |-> FALSE, last |-> NoId]

Looping(g, rs, n, m, l) ==
  g = [i \in 0 .. l |-> IF i = 0 THEN AtFirst(m) ELSE Look(rs, n, g[i - 1], i)]

LEMMA LoopingExists ==
  ASSUME NEW rs, NEW n, NEW m, NEW len \in Nat
  PROVE  \E g : Looping(g, rs, n, m, len)
<1> DEFINE T == {l \in Nat : ~ \E g : Looping(g, rs, n, m, l)}
<1> SUFFICES ASSUME T # {} PROVE FALSE
  OBVIOUS
<1>1. PICK l \in T : \A k \in T : l <= k
  <2>1. T \subseteq Nat /\ T # {}
    OBVIOUS
  <2> HIDE DEF T
  <2> QED
    BY <2>1, NatLeast DEF HasFirst
<1>2. CASE l = 0
  <2>1. Looping([i \in 0 .. 0 |-> AtFirst(m)], rs, n, m, 0)
    BY DEF Looping
  <2> QED
    BY <1>2, <2>1
<1>3. CASE l # 0
  <2>1. l \in Nat /\ l - 1 \in Nat /\ l - 1 \notin T
    BY <1>1, <1>3
  <2>2. PICK g : Looping(g, rs, n, m, l - 1)
    BY <2>1
  <2> DEFINE h == [i \in 0 .. l |->
                     IF i < l THEN g[i] ELSE Look(rs, n, g[l - 1], l)]
  <2>3. ASSUME NEW i \in 0 .. l
        PROVE  h[i] = IF i = 0 THEN AtFirst(m) ELSE Look(rs, n, h[i - 1], i)
    <3>1. i < l => i \in 0 .. l - 1
      BY <2>1
    <3>2. i < l => g[i] = IF i = 0 THEN AtFirst(m) ELSE Look(rs, n, g[i - 1], i)
      BY <2>2, <3>1 DEF Looping
    <3>3. i # 0 => i - 1 \in 0 .. l /\ h[i - 1] = g[i - 1]
      BY <2>1
    <3>4. CASE i < l
      BY <3>2, <3>3, <3>4
    <3>5. CASE i = l
      BY <1>3, <2>1, <3>3, <3>5
    <3> QED
      BY <2>1, <3>4, <3>5
  <2>4. h = [i \in 0 .. l |-> h[i]]
    OBVIOUS
  <2>5. Looping(h, rs, n, m, l)
    <3> HIDE DEF h
    <3> QED
      BY <2>3, <2>4 DEF Looping
  <2> QED
    BY <2>5
<1> QED
  BY <1>2, <1>3

LEMMA LoopSteps ==
  ASSUME NEW rs, NEW n, NEW m, Len(rs) \in Nat
  PROVE  \E g : /\ Loop(rs, n, m) = g[Len(rs)]
                /\ g[0] = AtFirst(m)
                /\ \A i \in 1 .. Len(rs) : g[i] = Look(rs, n, g[i - 1], i)
<1> DEFINE g == CHOOSE h : Looping(h, rs, n, m, Len(rs))
<1>1. Looping(g, rs, n, m, Len(rs))
  BY LoopingExists
<1>2. Loop(rs, n, m) = g[Len(rs)]
  BY DEF Loop, Looping, AtFirst
<1> HIDE DEF g
<1>3. g[0] = AtFirst(m)
  BY <1>1 DEF Looping
<1>4. ASSUME NEW i \in 1 .. Len(rs) PROVE g[i] = Look(rs, n, g[i - 1], i)
  <2>1. i \in 0 .. Len(rs) /\ i # 0
    OBVIOUS
  <2> QED
    BY <1>1, <2>1 DEF Looping
<1> QED
  BY <1>2, <1>3, <1>4

(* The walk begins behind place a of rs.                                   *)
StartsAt(rs, m, a) == IF m = NoId THEN a = 1 ELSE rs[a].id = m

(* Where the loop stands after i of its rows: it has returned a page and   *)
(* the marker for the next, or it collects one, or it looks for the marker.*)
Returned(rs, n, m, st, i) ==
  \E a \in 1 .. i : /\ StartsAt(rs, m, a) /\ a + n < i
                    /\ st.result = SubSeq(rs, a + 1, a + n)
                    /\ st.last = rs[a + n].id

Collects(rs, n, m, st, i) ==
  \E a \in 1 .. i : /\ StartsAt(rs, m, a) /\ i <= a + n
                    /\ st.result = SubSeq(rs, a + 1, i)
                    /\ st.start = i + 1

Fields == {"result", "start", "hit", "marker", "next", "last"}

LoopRight(rs, n, m, st, i) ==
  /\ st = [result |-> st.result, start |-> st.start, hit |-> st.hit,
           marker |-> m, next |-> st.next, last |-> st.last]
  /\ st.hit \in BOOLEAN /\ st.next \in BOOLEAN
  /\ st.next => Returned(rs, n, m, st, i)
  /\ ~st.next /\ st.hit => Collects(rs, n, m, st, i)
  /\ ~st.next /\ ~st.hit => /\ st.start = 0 /\ st.result = <<>>
                            /\ m = NoId => i = 0

LEMMA LookKeepsRight ==
  ASSUME NEW X, NEW rs \in Seq(X), NEW n \in Nat, n > 0, NEW m,
         NEW i \in 1 .. Len(rs), NEW st, LoopRight(rs, n, m, st, i - 1)
  PROVE  LoopRight(rs, n, m, Look(rs, n, st, i), i)
<1> DEFINE t == Look(rs, n, st, i)
<1>1. Len(rs) \in Nat /\ i \in Nat /\ i - 1 \in Nat /\ 1 .. i - 1 \subseteq 1 .. i
  BY LenProperties
<1>2. /\ st = [result |-> st.result, start |-> st.start, hit |-> st.hit,
               marker |-> m, next |-> st.next, last |-> st.last]
      /\ st.hit \in BOOLEAN /\ st.next \in BOOLEAN
  BY DEF LoopRight
<1>3. CASE st.next
  <2>1. t = st
    BY <1>3 DEF Look
  <2>2. PICK a \in 1 .. i - 1 : /\ StartsAt(rs, m, a) /\ a + n < i - 1
                               /\ st.result = SubSeq(rs, a + 1, a + n)
                               /\ st.last = rs[a + n].id
    BY <1>3 DEF LoopRight, Returned
  <2>3. a \in 1 .. i /\ a + n < i
    BY <1>1, <2>2
  <2>4. Returned(rs, n, m, st, i)
    BY <2>2, <2>3 DEF Returned
  <2>5. LoopRight(rs, n, m, st, i)
    BY <1>2, <1>3, <2>4 DEF LoopRight
  <2> QED
    BY <2>1, <2>5
<1>4. CASE ~st.next /\ st.hit
  <2>1. PICK a \in 1 .. i - 1 : /\ StartsAt(rs, m, a) /\ i - 1 <= a + n
                               /\ st.result = SubSeq(rs, a + 1, i - 1)
                               /\ st.start = i
    BY <1>1, <1>4 DEF LoopRight, Collects
  <2>2. /\ SubSeq(rs, a + 1, i - 1) \in Seq(X)
        /\ Len(SubSeq(rs, a + 1, i - 1)) = (i - 1) - a
    <3>1. /\ a + 1 \in 1 .. Len(rs) + 1 /\ i - 1 \in (a + 1) - 1 .. Len(rs)
          /\ IF a + 1 <= i - 1 THEN (i - 1) - (a + 1) + 1 = (i - 1) - a
             ELSE (i - 1) - a = 0
      BY <1>1
    <3> QED
      BY <3>1, SubSeqProperties
  <2>3. CASE Len(st.result) = n
    <3> DEFINE v == rs[i - 1].id
    <3>1. t = [st EXCEPT !.next = TRUE, !.last = v]
      BY <1>4, <2>3 DEF Look
    <3> HIDE DEF v
    <3>2. t = [result |-> st.result, start |-> st.start, hit |-> st.hit,
               marker |-> m, next |-> TRUE, last |-> v]
      <4> HIDE DEF t
      <4>1. t = [f \in Fields |->
                   IF f = "last" THEN v ELSE IF f = "next" THEN TRUE ELSE st[f]]
        BY <1>2, <3>1 DEF Fields
      <4>2. st.marker = m
        BY <1>2
      <4>3. /\ t.result = st.result /\ t.start = st.start /\ t.hit = st.hit
            /\ t.marker = m /\ t.next = TRUE /\ t.last = v
        BY <4>1, <4>2 DEF Fields
      <4>4. t = [f \in Fields |-> t[f]]
        BY <4>1
      <4> QED
        BY <4>3, <4>4 DEF Fields
    <3>3. a + n = i - 1
      BY <1>1, <2>1, <2>2, <2>3
    <3>4. a + n < i /\ a \in 1 .. i
      BY <1>1, <3>3
    <3>5. Returned(rs, n, m, t, i)
      <4>1. t.result = SubSeq(rs, a + 1, a + n)
        BY <2>1, <3>2, <3>3
      <4>2. t.last = rs[a + n].id
        BY <3>2, <3>3 DEF v
      <4> HIDE DEF t
      <4> QED
        BY <2>1, <3>4, <4>1, <4>2 DEF Returned
    <3> QED
      BY <1>2, <3>2, <3>5 DEF LoopRight
  <2>4. CASE Len(st.result) # n
    <3> DEFINE v == Append(st.result, rs[i])
               w == i + 1
    <3>1. t = [st EXCEPT !.result = v, !.start = w]
      BY <1>4, <2>1, <2>4 DEF Look
    <3> HIDE DEF v, w
    <3>2. t = [result |-> v, start |-> w,
               hit |-> st.hit, marker |-> m, next |-> st.next, last |-> st.last]
      <4> HIDE DEF t
      <4>1. t = [f \in Fields |->
                   IF f = "start" THEN w ELSE IF f = "result" THEN v ELSE st[f]]
        BY <1>2, <3>1 DEF Fields
      <4> QED
        BY <1>2, <4>1 DEF Fields
    <3>3. Append(SubSeq(rs, a + 1, i - 1), rs[i]) = SubSeq(rs, a + 1, i)
      <4>1. a + 1 \in 1 .. Len(rs) + 1 /\ i - 1 \in (a + 1) - 1 .. Len(rs) - 1
        BY <1>1
      <4>2. i - 1 + 1 = i
        BY <1>1
      <4> QED
        BY <1>1, <4>1, <4>2, SubSeqRecursiveSecond
    <3>4. i <= a + n /\ a \in 1 .. i
      BY <1>1, <2>1, <2>2, <2>4
    <3>5. Collects(rs, n, m, t, i)
      BY <2>1, <3>2, <3>3, <3>4 DEF Collects, v, w
    <3> QED
      BY <1>2, <1>4, <3>2, <3>5 DEF LoopRight
  <2> QED
    BY <2>3, <2>4
<1>5. CASE ~st.next /\ ~st.hit
  <2>1. st.start = 0 /\ st.result = <<>> /\ (m = NoId => i = 1) /\ st.marker = m
    BY <1>1, <1>2, <1>5 DEF LoopRight
  <2>2. Len(st.result) # n
    BY <2>1
  <2>3. CASE m \in {rs[i].id, NoId}
    <3>1. t = [st EXCEPT !.hit = TRUE, !.start = i + 1]
      BY <1>5, <2>1, <2>2, <2>3 DEF Look
    <3>2. t = [result |-> <<>>, start |-> i + 1, hit |-> TRUE, marker |-> m,
               next |-> FALSE, last |-> st.last]
      BY <1>2, <1>5, <2>1, <3>1
    <3>3. SubSeq(rs, i + 1, i) = <<>>
      BY <1>1, SubSeqEmpty
    <3>4. StartsAt(rs, m, i) /\ i <= i + n /\ i \in 1 .. i
      BY <1>1, <2>1, <2>3 DEF StartsAt
    <3>5. Collects(rs, n, m, t, i)
      BY <3>2, <3>3, <3>4 DEF Collects
    <3> QED
      BY <3>2, <3>5 DEF LoopRight
  <2>4. CASE m \notin {rs[i].id, NoId}
    <3>1. t = st
      BY <1>1, <1>5, <2>1, <2>2, <2>4 DEF Look
    <3>2. LoopRight(rs, n, m, st, i)
      BY <1>2, <1>5, <2>1, <2>4 DEF LoopRight
    <3> QED
      BY <3>1, <3>2
  <2> QED
    BY <2>3, <2>4
<1> QED
  BY <1>2, <1>3, <1>4, <1>5

LEMMA LoopIsRight ==
  ASSUME NEW X, NEW rs \in Seq(X), NEW n \in Nat, n > 0, NEW m
  PROVE  LoopRight(rs, n, m, Loop(rs, n, m), Len(rs))
<1>1. Len(rs) \in Nat
  BY LenProperties
<1>2. PICK g : /\ Loop(rs, n, m) = g[Len(rs)]
               /\ g[0] = AtFirst(m)
               /\ \A i \in 1 .. Len(rs) : g[i] = Look(rs, n, g[i - 1], i)
  BY <1>1, LoopSteps
<1> DEFINE T == {i \in 0 .. Len(rs) : ~LoopRight(rs, n, m, g[i], i)}
<1>3. T = {}
  <2> SUFFICES ASSUME T # {} PROVE FALSE
    OBVIOUS
  <2>1. PICK i \in T : \A k \in T : i <= k
    <3>1. T \subseteq Nat /\ T # {}
      BY <1>1
    <3> HIDE DEF T
    <3> QED
      BY <3>1, NatLeast DEF HasFirst
  <2>2. CASE i = 0
    <3>1. LoopRight(rs, n, m, AtFirst(m), 0)
      BY DEF LoopRight, AtFirst
    <3> QED
      BY <1>2, <2>2, <3>1
  <2>3. CASE i # 0
    <3>1. i \in 1 .. Len(rs) /\ i - 1 \in 0 .. Len(rs) /\ i - 1 \notin T
      BY <1>1, <2>1, <2>3
    <3>2. LoopRight(rs, n, m, g[i - 1], i - 1)
      BY <3>1
    <3>3. LoopRight(rs, n, m, g[i], i)
      BY <1>2, <3>1, <3>2, LookKeepsRight
    <3> QED
      BY <3>3
  <2> QED
    BY <2>2, <2>3
<1>4. LoopRight(rs, n, m, g[Len(rs)], Len(rs))
  BY <1>1, <1>3
<1> QED
  BY <1>2, <1>4

(* A page that has a next one, and what the loop has to say of it.         *)
LEMMA PageOfLoop ==
  ASSUME NEW X, NEW rs \in Seq(X), NEW n \in Nat, n > 0, NEW m,
         Loop(rs, n, m).next
  PROVE  LET end == Loop(rs, n, m) IN
         \E a \in 1 .. Len(rs) :
           /\ StartsAt(rs, m, a) /\ a + n < Len(rs) /\ a + n \in DOMAIN rs
           /\ end.result = SubSeq(rs, a + 1, a + n)
           /\ end.result \in Seq(X)
           /\ end.last = rs[a + n].id
<1>1. Len(rs) \in Nat /\ DOMAIN rs = 1 .. Len(rs)
  BY LenProperties
<1>2. PICK a \in 1 .. Len(rs) :
        /\ StartsAt(rs, m, a) /\ a + n < Len(rs)
        /\ Loop(rs, n, m).result = SubSeq(rs, a + 1, a + n)
        /\ Loop(rs, n, m).last = rs[a + n].id
  BY LoopIsRight DEF LoopRight, Returned
<1>3. a + n \in DOMAIN rs
  BY <1>1, <1>2
<1>4. SubSeq(rs, a + 1, a + n) \in Seq(X)
  <2>1. \A i \in a + 1 .. a + n : rs[i] \in X
    BY <1>1, <1>2, ElementOfSeq
  <2> QED
    BY <2>1, SubSeqProperties
<1> QED
  BY <1>2, <1>3, <1>4

-----------------------------------------------------------------------------
(* Types.                                                                  *)

TypeOfGnocchi ==
  /\ resources \in Seq(Ids) /\ Injective(resources)
  /\ fresh \subseteq Ids \ ToSet(resources)
  /\ measured \subseteq ToSet(resources)
  /\ cost \in [Ids -> 0 .. MaxCost]

TypeOfReading ==
  /\ pc \in {"idle", "weigh", "sum", "collect"}
  /\ answer \in {"none", "bills", "summary", "nothing", "report", "failed"}
  /\ service \in Names \cup {"none"}
  /\ limit \in Limits \cup {0}
  /\ marker \in Ids \cup {NoId}
  /\ found \in Seq(Ids)
  /\ kept \in Seq(Priced)
  /\ page \in [orders : Seq(Priced), next : BOOLEAN, marker : Ids \cup {NoId}]
  /\ pending \subseteq Services \cup Kinds
  /\ totals \in [Services \cup {"generic"} -> Nat]

TypeOfHistory ==
  /\ changes \in 0 .. MaxChanges
  /\ faults \in 0 .. MaxFaults
  /\ low \in [Ids -> 0 .. MaxCost]
  /\ gone \subseteq Ids
  /\ seen \subseteq Ids
  /\ passed \subseteq Ids
  /\ touched \subseteq moved
  /\ moved \subseteq Ids
  /\ lost \in BOOLEAN

LEMMA TypeParts == TypeOK <=> TypeOfGnocchi /\ TypeOfReading /\ TypeOfHistory
  BY DEF TypeOK, TypeOfGnocchi, TypeOfReading, TypeOfHistory

(* The order of a search after a resource has come, been updated or gone.  *)
LEMMA Appended ==
  ASSUME TypeOK, NEW r \in Ids \ ToSet(resources)
  PROVE  LET new == Append(resources, r) IN
         /\ new \in Seq(Ids) /\ Injective(new)
         /\ ToSet(new) = ToSet(resources) \cup {r}
         /\ \A x, y : Before(new, x, y) <=>
                       \/ Before(resources, x, y)
                       \/ x \in ToSet(resources) /\ y = r
<1> DEFINE new == Append(resources, r)
<1>1. resources \in Seq(Ids) /\ Injective(resources)
  BY DEF TypeOK
<1>2. /\ new \in Seq(Ids)
      /\ ToSet(new) = ToSet(resources) \cup {r}
      /\ \A x, y : Before(new, x, y) <=>
                    \/ Before(resources, x, y)
                    \/ x \in ToSet(resources) /\ y = r
  BY <1>1, AppendOrder
<1> HIDE DEF new
<1>3. \A x : ~Before(new, x, x)
  BY <1>1, <1>2, InjectiveOrder
<1>4. Injective(new)
  BY <1>2, <1>3, InjectiveOrder
<1> QED
  BY <1>2, <1>4 DEF new

LEMMA TakenOut ==
  ASSUME TypeOK, NEW r \in Ids
  PROVE  LET new == Chosen(resources, Ids \ {r}) IN
         /\ new \in Seq(Ids) /\ Injective(new)
         /\ ToSet(new) = ToSet(resources) \ {r}
         /\ \A x, y : Before(new, x, y) <=>
                       Before(resources, x, y) /\ x # r /\ y # r
<1> DEFINE new == Chosen(resources, Ids \ {r})
<1>1. resources \in Seq(Ids) /\ Injective(resources)
  BY DEF TypeOK
<1>2. /\ new \in Seq(Ids) /\ Injective(new)
      /\ ToSet(new) = ToSet(resources) \cap (Ids \ {r})
      /\ \A x, y : Before(new, x, y) => Before(resources, x, y)
      /\ \A x, y \in Ids \ {r} : Before(resources, x, y) => Before(new, x, y)
  BY <1>1, ChosenIs
<1>3. ToSet(resources) \subseteq Ids
  BY <1>1, LenProperties, ElementOfSeq DEF ToSet
<1> HIDE DEF new
<1>4. ToSet(new) = ToSet(resources) \ {r}
  BY <1>2, <1>3
<1>5. ASSUME NEW x, NEW y, Before(new, x, y)
      PROVE  Before(resources, x, y) /\ x # r /\ y # r
  <2>1. x \in ToSet(new) /\ y \in ToSet(new)
    BY <1>2, <1>5, OrderIsTotal
  <2> QED
    BY <1>2, <1>4, <1>5, <2>1
<1>6. ASSUME NEW x, NEW y, Before(resources, x, y), x # r, y # r
      PROVE  Before(new, x, y)
  <2>1. x \in Ids \ {r} /\ y \in Ids \ {r}
    <3>1. x \in ToSet(resources) /\ y \in ToSet(resources)
      BY <1>1, <1>6, OrderIsTotal
    <3> QED
      BY <1>3, <1>6, <3>1
  <2> QED
    BY <1>2, <1>6, <2>1
<1>7. \A x, y : Before(new, x, y) <=> Before(resources, x, y) /\ x # r /\ y # r
  BY <1>5, <1>6
<1> QED
  BY <1>2, <1>4, <1>7 DEF new

LEMMA Moved ==
  ASSUME TypeOK, NEW r \in ToSet(resources)
  PROVE  LET new == Append(Chosen(resources, Ids \ {r}), r) IN
         /\ new \in Seq(Ids) /\ Injective(new)
         /\ ToSet(new) = ToSet(resources)
         /\ \A x, y : Before(new, x, y) <=>
                       \/ Before(resources, x, y) /\ x # r /\ y # r
                       \/ x \in ToSet(resources) \ {r} /\ y = r
<1> DEFINE left == Chosen(resources, Ids \ {r})
           new == Append(left, r)
<1>1. r \in Ids
  BY LenProperties, ElementOfSeq DEF TypeOK, ToSet
<1>2. /\ left \in Seq(Ids) /\ Injective(left)
      /\ ToSet(left) = ToSet(resources) \ {r}
      /\ \A x, y : Before(left, x, y) <=>
                    Before(resources, x, y) /\ x # r /\ y # r
  BY <1>1, TakenOut
<1> HIDE DEF left
<1>3. /\ new \in Seq(Ids)
      /\ ToSet(new) = ToSet(left) \cup {r}
      /\ \A x, y : Before(new, x, y) <=>
                    Before(left, x, y) \/ (x \in ToSet(left) /\ y = r)
  BY <1>1, <1>2, AppendOrder
<1> HIDE DEF new
<1>4. \A x : ~Before(left, x, x)
  BY <1>2, InjectiveOrder
<1>5. \A x : ~Before(new, x, x)
  BY <1>2, <1>3, <1>4
<1>6. Injective(new)
  BY <1>3, <1>5, InjectiveOrder
<1> QED
  BY <1>2, <1>3, <1>6 DEF new, left

LEMMA ResourcesAreIds ==
  ASSUME TypeOK
  PROVE  ToSet(resources) \subseteq Ids
  BY LenProperties, ElementOfSeq DEF TypeOK, ToSet

(* The sum of the costs of some resources.                                 *)
LEMMA CostsSum ==
  ASSUME NEW f \in [Ids -> 0 .. MaxCost], NEW S \in SUBSET Ids
  PROVE  SumFunctionOnSet(f, S) \in Nat
<1> DEFINE zero == [r \in S |-> 0]
<1>1. IsFiniteSet(S) /\ MaxCost \in Nat
  BY BillsAssumption, FS_Subset
<1>2. \A r \in S : zero[r] = 0 /\ zero[r] \in Int
  OBVIOUS
<1> HIDE DEF zero
<1>3. \A r \in S : zero[r] \in Int /\ f[r] \in Int /\ zero[r] <= f[r]
  BY <1>1, <1>2
<1>4. SumFunctionOnSet(zero, S) = 0
  BY <1>1, <1>2, SumOfNothing
<1>5. /\ SumFunctionOnSet(f, S) \in Int
      /\ SumFunctionOnSet(zero, S) <= SumFunctionOnSet(f, S)
  BY <1>1, <1>3, SumIsMonotone
<1> QED
  BY <1>4, <1>5

-----------------------------------------------------------------------------
(* Either gnocchi changes, or the reader goes on.                          *)

Cloud ==
  \E r \in Ids : Create(r) \/ Touch(r) \/ Delete(r) \/ Measure(r) \/ Charge(r)

AskBills == \E s \in Names, n \in Limits : Bills(s, n)

AddSome == \E s \in Services : Add(s)

CollectSome == \E k \in Kinds : Collect(k)

Reader ==
  \/ AskBills \/ NextPage \/ Weigh \/ Paginate
  \/ Summary \/ AddSome \/ AddGeneric \/ FailToAdd
  \/ Report \/ CollectSome \/ FailToCollect \/ Price \/ Export

LEMMA CloudOrReader == Next <=> Cloud \/ Reader
  BY Zenon DEF Next, Cloud, Reader, AskBills, AddSome, CollectSome

LEMMA ReaderLeavesCloud == Reader => UNCHANGED <<gnocchi, changes>>
<1> USE DEF Asked, gnocchi
<1>1. AskBills => UNCHANGED <<gnocchi, changes>>
  BY DEF AskBills, Bills, Search, Request
<1>2. NextPage => UNCHANGED <<gnocchi, changes>>
  BY DEF NextPage, Search, Request
<1>3. Weigh \/ Paginate => UNCHANGED <<gnocchi, changes>>
  BY DEF Weigh, Paginate
<1>4. Summary \/ Report => UNCHANGED <<gnocchi, changes>>
  BY DEF Summary, Report, Request
<1>5. AddSome \/ AddGeneric \/ FailToAdd => UNCHANGED <<gnocchi, changes>>
  BY DEF AddSome, Add, AddGeneric, FailToAdd
<1>6. CollectSome \/ FailToCollect \/ Price \/ Export
        => UNCHANGED <<gnocchi, changes>>
  BY DEF CollectSome, Collect, FailToCollect, Price, Export
<1> QED
  BY <1>1, <1>2, <1>3, <1>4, <1>5, <1>6 DEF Reader

LEMMA CloudLeavesReader ==
  Cloud => UNCHANGED <<reading, faults, low, seen, passed, lost>>
  BY DEF Cloud, Create, Touch, Delete, Measure, Charge, Change, walk

-----------------------------------------------------------------------------
(* Every action keeps the types.                                           *)

LEMMA CloudKeepsTypes == TypeOK /\ Cloud => TypeOK'
<1> SUFFICES ASSUME TypeOK, Cloud PROVE TypeOK'
  OBVIOUS
<1>1. TypeOfGnocchi /\ TypeOfReading /\ TypeOfHistory
  BY TypeParts
<1>2. PICK r \in Ids :
        Create(r) \/ Touch(r) \/ Delete(r) \/ Measure(r) \/ Charge(r)
  BY DEF Cloud
<1>3. TypeOfReading'
  BY <1>1, CloudLeavesReader DEF TypeOfReading, reading, arguments
<1>4. TypeOfHistory'
  <2>1. changes' \in 0 .. MaxChanges
    <3>1. Change
      BY <1>2 DEF Create, Touch, Delete, Measure, Charge
    <3> QED
      BY <1>1, <3>1, BillsAssumption DEF Change, TypeOfHistory
  <2>2. UNCHANGED <<faults, low, seen, passed, lost>>
    BY CloudLeavesReader
  <2>3. gone' \subseteq Ids
    BY <1>1, <1>2
       DEF Create, Touch, Delete, Measure, Charge, TypeOfHistory
  <2>4. touched' \subseteq moved' /\ moved' \subseteq Ids
    BY <1>1, <1>2
       DEF Create, Touch, Delete, Measure, Charge, walk, TypeOfHistory
  <2> QED
    BY <1>1, <2>1, <2>2, <2>3, <2>4 DEF TypeOfHistory
<1>5. TypeOfGnocchi'
  <2> USE DEF TypeOfGnocchi
  <2>1. CASE Create(r)
    <3>1. r \in Ids \ ToSet(resources)
      BY <1>1, <2>1 DEF Create
    <3>2. /\ Append(resources, r) \in Seq(Ids) /\ Injective(Append(resources, r))
          /\ ToSet(Append(resources, r)) = ToSet(resources) \cup {r}
      BY <3>1, Appended
    <3> QED
      BY <1>1, <2>1, <3>2 DEF Create
  <2>2. CASE Touch(r)
    <3> DEFINE new == Append(Chosen(resources, Ids \ {r}), r)
    <3>1. r \in ToSet(resources)
      BY <2>2 DEF Touch
    <3>2. new \in Seq(Ids) /\ Injective(new) /\ ToSet(new) = ToSet(resources)
      BY <3>1, Moved
    <3>3. resources' = new /\ UNCHANGED <<fresh, measured, cost>>
      BY <2>2 DEF Touch
    <3> HIDE DEF new
    <3> QED
      BY <1>1, <3>2, <3>3
  <2>3. CASE Delete(r)
    <3> DEFINE new == Chosen(resources, Ids \ {r})
    <3>1. /\ new \in Seq(Ids) /\ Injective(new)
          /\ ToSet(new) = ToSet(resources) \ {r}
      BY TakenOut
    <3>2. /\ resources' = new /\ fresh' = fresh /\ measured' = measured \ {r}
          /\ cost' = [cost EXCEPT ![r] = 0]
      BY <2>3 DEF Delete
    <3> HIDE DEF new
    <3>3. cost' \in [Ids -> 0 .. MaxCost]
      BY <1>1, <3>2, BillsAssumption
    <3> QED
      BY <1>1, <3>1, <3>2, <3>3
  <2>4. CASE Measure(r)
    BY <1>1, <2>4 DEF Measure
  <2>5. CASE Charge(r)
    <3>1. cost[r] \in 0 .. MaxCost /\ cost[r] < MaxCost
      BY <1>1, <2>5 DEF Charge
    <3>2. cost[r] + 1 \in 0 .. MaxCost
      BY <3>1, BillsAssumption
    <3> QED
      BY <1>1, <2>5, <3>2 DEF Charge
  <2> QED
    BY <1>2, <2>1, <2>2, <2>3, <2>4, <2>5
<1> QED
  BY <1>3, <1>4, <1>5 DEF TypeOK, TypeOfGnocchi, TypeOfReading, TypeOfHistory

(* What a search finds, and where a failure leaves the reader.             *)
LEMMA SearchTypes ==
  ASSUME TypeOK, NEW s, NEW n, NEW m, Search(s, n, m),
         s \in Names \cup {"none"}, n \in Limits \cup {0}, m \in Ids \cup {NoId}
  PROVE  /\ TypeOfReading' /\ UNCHANGED faults
         /\ low' \in [Ids -> 0 .. MaxCost] /\ gone' = {} /\ touched' = {}
<1>1. TypeOfGnocchi /\ TypeOfReading /\ MaxCost \in Nat
  BY TypeParts, BillsAssumption
<1>2. found' \in Seq(Ids)
  <2>1. Chosen(resources, OfKind(Kind[s])) \in Seq(Ids)
    BY <1>1, ChosenIs DEF TypeOfGnocchi
  <2> QED
    BY <2>1 DEF Search
<1>3. /\ pc' \in {"idle", "weigh"} /\ answer' \in {"bills", "none"}
      /\ kept' = <<>> /\ page' = NoPage /\ totals' = NoTotals
      /\ gone' = {} /\ touched' = {} /\ faults' = faults /\ pending' = pending
      /\ low' = [r \in Ids |-> 0]
      /\ service' = s /\ limit' = n /\ marker' = m
  BY DEF Search, Request
<1>4. page' \in [orders : Seq(Priced), next : BOOLEAN, marker : Ids \cup {NoId}]
  BY <1>3 DEF NoPage
<1>5. totals' \in [Services \cup {"generic"} -> Nat]
  BY <1>3 DEF NoTotals
<1>6. low' \in [Ids -> 0 .. MaxCost]
  BY <1>1, <1>3
<1> QED
  BY <1>1, <1>2, <1>3, <1>4, <1>5, <1>6 DEF TypeOfReading

LEMMA FailTypes ==
  ASSUME TypeOK, NEW how \in {"failed", "nothing"}, Fail(how)
  PROVE  TypeOfReading' /\ UNCHANGED page
<1>1. /\ pc' = "idle" /\ answer' = how /\ service' = "none" /\ limit' = 0
      /\ marker' = NoId /\ found' = <<>> /\ kept' = <<>> /\ pending' = {}
      /\ totals' = NoTotals /\ UNCHANGED page
  BY DEF Fail, Reply, NoWalk
<1>2. page \in [orders : Seq(Priced), next : BOOLEAN, marker : Ids \cup {NoId}]
  BY DEF TypeOK
<1>3. NoTotals \in [Services \cup {"generic"} -> Nat]
  BY DEF NoTotals
<1> QED
  BY <1>1, <1>2, <1>3 DEF TypeOfReading

LEMMA KeepTypes ==
  ASSUME TypeOK, NEW r \in Ids, NEW price \in 0 .. MaxCost, Keep(r, price)
  PROVE  kept' \in Seq(Priced)
<1>1. [id |-> r, price |-> price] \in Priced
  BY DEF Priced
<1>2. kept \in Seq(Priced)
  BY DEF TypeOK
<1> QED
  BY <1>1, <1>2, AppendProperties DEF Keep

LEMMA HeadIsId ==
  ASSUME TypeOK, found # <<>>
  PROVE  Head(found) \in Ids /\ Tail(found) \in Seq(Ids)
  BY HeadTailProperties DEF TypeOK

(* The walk is over, or stands as it was.                                  *)
WalkTypes ==
  /\ seen \subseteq Ids /\ passed \subseteq Ids /\ touched \subseteq moved
  /\ moved \subseteq Ids /\ lost \in BOOLEAN

LEMMA WalkStands == TypeOK /\ (NoWalk \/ UNCHANGED walk) => WalkTypes'
  BY DEF TypeOK, WalkTypes, NoWalk, walk

LEMMA BillsTypes == TypeOK /\ (AskBills \/ NextPage) => TypeOK'
<1> SUFFICES ASSUME TypeOK, AskBills \/ NextPage PROVE TypeOK'
  OBVIOUS
<1>1. TypeOfGnocchi /\ TypeOfReading /\ TypeOfHistory
  BY TypeParts
<1>2. UNCHANGED <<gnocchi, changes>>
  BY ReaderLeavesCloud DEF Reader
<1>3. TypeOfGnocchi'
  BY <1>1, <1>2 DEF TypeOfGnocchi, gnocchi
<1>4. CASE AskBills
  <2>1. PICK s \in Names, n \in Limits : Bills(s, n)
    BY <1>4 DEF AskBills
  <2>2. Search(s, n, NoId)
    BY <2>1 DEF Bills
  <2>3. /\ TypeOfReading' /\ UNCHANGED faults
        /\ low' \in [Ids -> 0 .. MaxCost] /\ gone' = {} /\ touched' = {}
    BY <2>2, SearchTypes
  <2>4. TypeOfHistory'
    BY <1>1, <1>2, <2>1, <2>3 DEF Bills, TypeOfHistory
  <2> QED
    BY <1>3, <2>3, <2>4 DEF TypeOK, TypeOfGnocchi, TypeOfReading, TypeOfHistory
<1>5. CASE NextPage
  <2>1. Search(service, limit, page.marker)
    BY <1>5 DEF NextPage
  <2>2. page.marker \in Ids \cup {NoId}
    BY <1>1 DEF TypeOfReading
  <2>3. service \in Names \cup {"none"} /\ limit \in Limits \cup {0}
    BY <1>1 DEF TypeOfReading
  <2>4. /\ TypeOfReading' /\ UNCHANGED faults
        /\ low' \in [Ids -> 0 .. MaxCost] /\ gone' = {} /\ touched' = {}
    BY <2>1, <2>2, <2>3, SearchTypes
  <2>5. lost' \in BOOLEAN /\ UNCHANGED <<seen, passed, moved>>
    BY <1>5 DEF NextPage
  <2>6. TypeOfHistory'
    BY <1>1, <1>2, <2>4, <2>5 DEF TypeOfHistory
  <2> QED
    BY <1>3, <2>4, <2>6 DEF TypeOK, TypeOfGnocchi, TypeOfReading, TypeOfHistory
<1> QED
  BY <1>4, <1>5

LEMMA WeighTypes == TypeOK /\ Weigh => TypeOK'
<1> SUFFICES ASSUME TypeOK, Weigh PROVE TypeOK'
  OBVIOUS
<1> DEFINE r == Head(found)
<1>1. TypeOfGnocchi /\ TypeOfReading /\ TypeOfHistory
  BY TypeParts
<1>2. r \in Ids /\ Tail(found) \in Seq(Ids) /\ MaxCost \in Nat
  BY HeadIsId, BillsAssumption DEF Weigh
<1>3. UNCHANGED <<gnocchi, changes, low, gone, page>>
  BY DEF Weigh, Asked
<1>4. TypeOfGnocchi'
  BY <1>1, <1>3 DEF TypeOfGnocchi, gnocchi
<1>5. faults' \in 0 .. MaxFaults
  BY <1>1, BillsAssumption DEF Weigh, Fault, TypeOfHistory
<1>6. TypeOfReading' /\ WalkTypes'
  <2>1. CASE /\ Keep(r, cost[r]) \/ Keep(r, 0)
             /\ found' = Tail(found)
             /\ UNCHANGED <<pc, answer, arguments, pending, totals, walk>>
    <3>1. cost[r] \in 0 .. MaxCost /\ 0 \in 0 .. MaxCost
      BY <1>1, <1>2 DEF TypeOfGnocchi
    <3>2. kept' \in Seq(Priced)
      BY <1>2, <2>1, <3>1, KeepTypes
    <3>3. WalkTypes'
      BY <2>1, WalkStands
    <3> QED
      BY <1>1, <1>2, <1>3, <2>1, <3>2, <3>3 DEF TypeOfReading, arguments
  <2>2. CASE /\ passed' = passed \cup {r}
             /\ found' = Tail(found)
             /\ UNCHANGED <<pc, answer, arguments, kept, pending, totals, faults,
                            seen, touched, moved, lost>>
    <3>1. WalkTypes'
      BY <1>1, <1>2, <2>2 DEF WalkTypes, TypeOfHistory
    <3> QED
      BY <1>1, <1>2, <1>3, <2>2, <3>1 DEF TypeOfReading, arguments
  <2>3. CASE Fail("failed")
    BY <2>3, FailTypes, WalkStands DEF Fail
  <2> QED
    BY <2>1, <2>2, <2>3 DEF Weigh
<1>7. TypeOfHistory'
  BY <1>1, <1>3, <1>5, <1>6 DEF TypeOfHistory, WalkTypes
<1> QED
  BY <1>4, <1>6, <1>7 DEF TypeOK, TypeOfGnocchi, TypeOfReading, TypeOfHistory

LEMMA PaginateTypes == TypeOK /\ Paginate => TypeOK'
<1> SUFFICES ASSUME TypeOK, Paginate PROVE TypeOK'
  OBVIOUS
<1> DEFINE end == Loop(kept, limit, marker)
<1>1. TypeOfGnocchi /\ TypeOfReading /\ TypeOfHistory
  BY TypeParts
<1>2. UNCHANGED <<gnocchi, changes, low, gone, faults>>
  BY DEF Paginate, Asked
<1>3. TypeOfGnocchi'
  BY <1>1, <1>2 DEF TypeOfGnocchi, gnocchi
<1>4. TypeOfReading' /\ WalkTypes'
  <2>1. CASE /\ page' = [orders |-> kept, next |-> FALSE, marker |-> marker]
             /\ Reply("bills") /\ NoWalk /\ UNCHANGED <<kept, pending, totals>>
    <3>1. WalkTypes'
      BY <2>1, WalkStands
    <3>2. page' \in [orders : Seq(Priced), next : BOOLEAN,
                     marker : Ids \cup {NoId}]
      BY <1>1, <2>1 DEF TypeOfReading
    <3> QED
      BY <1>1, <2>1, <3>1, <3>2 DEF TypeOfReading, Reply, NoWalk
  <2>2. CASE /\ limit > 0 /\ Len(kept) > limit /\ end.next
             /\ page' = [orders |-> end.result, next |-> TRUE,
                         marker |-> end.last]
             /\ Reply("bills")
             /\ seen' = seen \cup {o.id : o \in ToSet(end.result)}
             /\ passed' = IF marker = NoId THEN passed \cup {kept[1].id}
                          ELSE passed
             /\ UNCHANGED <<arguments, found, kept, pending, totals, touched,
                            moved, lost>>
    <3>1. kept \in Seq(Priced) /\ limit \in Nat
      BY <1>1, BillsAssumption DEF TypeOfReading
    <3>2. PICK a \in 1 .. Len(kept) :
            /\ a + limit \in DOMAIN kept
            /\ end.result \in Seq(Priced) /\ end.last = kept[a + limit].id
      BY <2>2, <3>1, PageOfLoop
    <3>3. kept[a + limit] \in Priced /\ kept[1] \in Priced
      <4>1. 1 \in 1 .. Len(kept) /\ a + limit \in 1 .. Len(kept)
        BY <3>1, <3>2, LenProperties
      <4> QED
        BY <3>1, <4>1, ElementOfSeq
    <3>4. end.last \in Ids /\ kept[1].id \in Ids
      BY <3>2, <3>3 DEF Priced
    <3>5. {o.id : o \in ToSet(end.result)} \subseteq Ids
      <4>1. \A o \in ToSet(end.result) : o \in Priced
        BY <3>2, LenProperties, ElementOfSeq DEF ToSet
      <4> QED
        BY <4>1 DEF Priced
    <3> HIDE DEF end
    <3>6. page' \in [orders : Seq(Priced), next : BOOLEAN,
                     marker : Ids \cup {NoId}]
      BY <2>2, <3>2, <3>4
    <3>7. WalkTypes'
      BY <1>1, <2>2, <3>4, <3>5 DEF WalkTypes, TypeOfHistory
    <3> QED
      BY <1>1, <2>2, <3>6, <3>7 DEF TypeOfReading, Reply, arguments
  <2>3. CASE Fail("failed")
    <3>1. WalkTypes'
      BY <2>3, WalkStands DEF Fail
    <3> QED
      BY <2>3, <3>1, FailTypes
  <2> QED
    BY <2>1, <2>2, <2>3 DEF Paginate
<1>5. TypeOfHistory'
  BY <1>1, <1>2, <1>4 DEF TypeOfHistory, WalkTypes
<1> QED
  BY <1>3, <1>4, <1>5 DEF TypeOK, TypeOfGnocchi, TypeOfReading, TypeOfHistory

LEMMA SummaryTypes ==
  TypeOK /\ (Summary \/ AddSome \/ AddGeneric \/ FailToAdd) => TypeOK'
<1> SUFFICES ASSUME TypeOK, Summary \/ AddSome \/ AddGeneric \/ FailToAdd
             PROVE  TypeOK'
  OBVIOUS
<1>1. TypeOfGnocchi /\ TypeOfReading /\ TypeOfHistory
  BY TypeParts
<1>2. UNCHANGED <<gnocchi, changes>>
  BY ReaderLeavesCloud DEF Reader
<1>3. TypeOfGnocchi'
  BY <1>1, <1>2 DEF TypeOfGnocchi, gnocchi
<1>4. \A S \in SUBSET Ids : SumFunctionOnSet(cost, S) \in Nat
  BY <1>1, CostsSum DEF TypeOfGnocchi
<1>5. /\ low' \in [Ids -> 0 .. MaxCost] /\ gone' \subseteq Ids
      /\ faults' \in 0 .. MaxFaults
  <2>1. CASE Summary
    BY <1>1, <2>1 DEF Summary, Request, TypeOfGnocchi, TypeOfHistory
  <2>2. CASE AddSome \/ AddGeneric
    BY <1>1, <2>2 DEF AddSome, Add, AddGeneric, Asked, TypeOfHistory
  <2>3. CASE FailToAdd
    BY <1>1, <2>3, BillsAssumption DEF FailToAdd, Fault, Asked, TypeOfHistory
  <2> QED
    BY <2>1, <2>2, <2>3
<1>6. WalkTypes'
  BY WalkStands DEF Summary, AddSome, Add, AddGeneric, FailToAdd, Fail
<1>7. TypeOfHistory'
  BY <1>1, <1>2, <1>5, <1>6 DEF TypeOfHistory, WalkTypes
<1>8. TypeOfReading'
  <2>1. CASE Summary
    <3>1. NoPage \in [orders : Seq(Priced), next : BOOLEAN,
                      marker : Ids \cup {NoId}]
      BY DEF NoPage
    <3> QED
      BY <1>1, <2>1, <3>1
         DEF Summary, Request, NoWalk, NoTotals, TypeOfReading
  <2>2. CASE AddSome
    <3>1. PICK s \in Services : Add(s)
      BY <2>2 DEF AddSome
    <3> DEFINE v == SumFunctionOnSet(cost, Of(Kind[s]))
    <3>2. v \in Nat
      BY <1>4 DEF Of, OfKind
    <3>3. /\ totals' = [totals EXCEPT ![s] = v] /\ pending' = pending \ {s}
          /\ UNCHANGED <<pc, answer, arguments, found, kept, page>>
      BY <3>1 DEF Add
    <3> HIDE DEF v
    <3> QED
      BY <1>1, <3>2, <3>3 DEF TypeOfReading, arguments
  <2>3. CASE AddGeneric
    <3> DEFINE v == SumFunctionOnSet(cost, ToSet(resources))
    <3>1. v \in Nat
      BY <1>4, ResourcesAreIds
    <3>2. /\ totals' = [totals EXCEPT !["generic"] = v]
          /\ pc' = "idle" /\ answer' = "summary"
          /\ UNCHANGED <<arguments, found, kept, page, pending>>
      BY <2>3 DEF AddGeneric, Reply
    <3> HIDE DEF v
    <3> QED
      BY <1>1, <3>1, <3>2 DEF TypeOfReading, arguments
  <2>4. CASE FailToAdd
    BY <2>4, FailTypes DEF FailToAdd
  <2> QED
    BY <2>1, <2>2, <2>3, <2>4
<1> QED
  BY <1>3, <1>7, <1>8 DEF TypeOK, TypeOfGnocchi, TypeOfReading, TypeOfHistory

LEMMA ReportTypes ==
  TypeOK /\ (Report \/ CollectSome \/ FailToCollect \/ Price \/ Export) => TypeOK'
<1> SUFFICES ASSUME TypeOK,
                    Report \/ CollectSome \/ FailToCollect \/ Price \/ Export
             PROVE  TypeOK'
  OBVIOUS
<1>1. TypeOfGnocchi /\ TypeOfReading /\ TypeOfHistory
  BY TypeParts
<1>2. UNCHANGED <<gnocchi, changes>>
  BY ReaderLeavesCloud DEF Reader
<1>3. TypeOfGnocchi'
  BY <1>1, <1>2 DEF TypeOfGnocchi, gnocchi
<1>4. /\ low' \in [Ids -> 0 .. MaxCost] /\ gone' \subseteq Ids
      /\ faults' \in 0 .. MaxFaults
  <2>1. CASE Report
    BY <1>1, <2>1 DEF Report, Request, TypeOfGnocchi, TypeOfHistory
  <2>2. CASE CollectSome \/ Export
    BY <1>1, <2>2 DEF CollectSome, Collect, Export, Asked, TypeOfHistory
  <2>3. CASE FailToCollect \/ Price
    BY <1>1, <2>3, BillsAssumption
       DEF FailToCollect, Price, Fault, Asked, TypeOfHistory
  <2> QED
    BY <2>1, <2>2, <2>3
<1>5. WalkTypes'
  BY WalkStands
     DEF Report, CollectSome, Collect, FailToCollect, Price, Export, Fail
<1>6. TypeOfHistory'
  BY <1>1, <1>2, <1>4, <1>5 DEF TypeOfHistory, WalkTypes
<1>7. TypeOfReading'
  <2>1. CASE Report
    <3>1. NoPage \in [orders : Seq(Priced), next : BOOLEAN,
                      marker : Ids \cup {NoId}]
      BY DEF NoPage
    <3> QED
      BY <1>1, <2>1, <3>1
         DEF Report, Request, NoWalk, NoTotals, TypeOfReading
  <2>2. CASE CollectSome
    <3>1. PICK k \in Kinds : Collect(k)
      BY <2>2 DEF CollectSome
    <3> DEFINE more == Chosen(resources, {r \in OfKind(k) : cost[r] > 0})
    <3>2. more \in Seq(Ids)
      BY <1>1, ChosenIs DEF TypeOfGnocchi
    <3>3. /\ found' = found \o more /\ pending' = pending \ {k}
          /\ UNCHANGED <<pc, answer, arguments, kept, page, totals>>
      BY <3>1 DEF Collect
    <3> HIDE DEF more
    <3>4. found' \in Seq(Ids)
      BY <1>1, <3>2, <3>3, ConcatProperties DEF TypeOfReading
    <3> QED
      BY <1>1, <3>3, <3>4 DEF TypeOfReading, arguments
  <2>3. CASE FailToCollect
    BY <2>3, FailTypes DEF FailToCollect
  <2>4. CASE Price
    <3> DEFINE r == Head(found)
    <3>1. r \in Ids /\ Tail(found) \in Seq(Ids) /\ MaxCost \in Nat
      BY <2>4, HeadIsId, BillsAssumption DEF Price
    <3>2. UNCHANGED page
      BY <2>4 DEF Price
    <3>3. CASE /\ Keep(r, cost[r])
               /\ found' = Tail(found)
               /\ UNCHANGED <<pc, answer, arguments, pending, totals, faults, walk>>
      <4>1. cost[r] \in 0 .. MaxCost
        BY <1>1, <3>1 DEF TypeOfGnocchi
      <4>2. kept' \in Seq(Priced)
        BY <3>1, <3>3, <4>1, KeepTypes
      <4> QED
        BY <1>1, <3>1, <3>2, <3>3, <4>2 DEF TypeOfReading, arguments
    <3>4. CASE Fail("failed")
      BY <3>4, FailTypes
    <3> QED
      BY <2>4, <3>3, <3>4 DEF Price
  <2>5. CASE Export
    BY <1>1, <2>5 DEF Export, Reply, TypeOfReading, arguments
  <2> QED
    BY <2>1, <2>2, <2>3, <2>4, <2>5
<1> QED
  BY <1>3, <1>6, <1>7 DEF TypeOK, TypeOfGnocchi, TypeOfReading, TypeOfHistory

(* What gnocchi holds at first, in any order.                              *)
LEMMA InitTypes == Init => TypeOK
<1> SUFFICES ASSUME Init PROVE TypeOK
  OBVIOUS
<1>1. PICK S \in SUBSET Ids : resources \in SetToSeqs(S)
  BY DEF Init
<1>2. Cardinality(S) \in Nat
  BY BillsAssumption, FS_Subset, FS_CardinalityType
<1>3. /\ resources \in [1 .. Cardinality(S) -> S]
      /\ \A i, j \in 1 .. Cardinality(S) : i # j => resources[i] # resources[j]
  BY <1>1 DEF SetToSeqs
<1>4. resources \in Seq(Ids)
  <2>1. /\ DOMAIN resources = 1 .. Cardinality(S)
        /\ \A i \in 1 .. Cardinality(S) : resources[i] \in Ids
    BY <1>3
  <2> QED
    BY <1>2, <1>3, <2>1, SeqDef
<1>5. Injective(resources)
  BY <1>3 DEF Injective
<1>6. ToSet(resources) \subseteq Ids
  BY <1>3 DEF ToSet
<1>7. cost \in [Ids -> 0 .. MaxCost]
  <2>1. PICK c \in 0 .. MaxCost :
          cost = [r \in Ids |-> IF r \in measured THEN c ELSE 0]
    BY DEF Init
  <2> QED
    BY <2>1, BillsAssumption
<1>8. TypeOfGnocchi
  BY <1>4, <1>5, <1>6, <1>7 DEF Init, TypeOfGnocchi
<1>9. TypeOfReading
  BY DEF Init, TypeOfReading, NoPage
<1>10. TypeOfHistory
  <2>1. /\ changes = 0 /\ faults = 0 /\ low = cost /\ gone = {} /\ seen = {}
        /\ passed = {} /\ touched = {} /\ moved = {} /\ lost = FALSE
    BY DEF Init
  <2>2. 0 \in 0 .. MaxChanges /\ 0 \in 0 .. MaxFaults
    BY BillsAssumption
  <2>3. low \in [Ids -> 0 .. MaxCost]
    BY <1>7, <2>1
  <2> QED
    BY <2>1, <2>2, <2>3 DEF TypeOfHistory
<1> QED
  BY <1>8, <1>9, <1>10, TypeParts

LEMMA NextTypes == TypeOK /\ [Next]_vars => TypeOK'
<1>1. CASE Cloud
  BY <1>1, CloudKeepsTypes
<1>2. CASE Reader
  BY <1>2, BillsTypes, WeighTypes, PaginateTypes, SummaryTypes, ReportTypes
     DEF Reader
<1>3. CASE UNCHANGED vars
  BY <1>3 DEF TypeOK, vars, gnocchi, reading, arguments, walk
<1> QED
  BY <1>1, <1>2, <1>3, CloudOrReader

(* Gnocchi and the reader keep to their types: above all a resource is     *)
(* never found twice, however the order of a search changes.               *)
THEOREM TypeCorrect == Spec => []TypeOK
<1>1. Init => TypeOK
  BY InitTypes
<1>2. TypeOK /\ [Next]_vars => TypeOK'
  BY NextTypes
<1> QED
  BY <1>1, <1>2, PTL DEF Spec

-----------------------------------------------------------------------------
(* Pages.  While a request is under way there is no page yet.              *)
NoPageYet == pc # "idle" => page = NoPage

SliceInv == TypeOK /\ NoPageYet /\ PageIsSlice

Working ==
  \/ Weigh \/ Paginate \/ AddSome \/ AddGeneric \/ FailToAdd
  \/ CollectSome \/ FailToCollect \/ Price \/ Export

LEMMA WorkingWasBusy == Working => pc # "idle"
  BY DEF Working, Weigh, Paginate, AddSome, Add, AddGeneric, FailToAdd,
         CollectSome, Collect, FailToCollect, Price, Export

LEMMA OnlyPaginateTurnsPages == Working => Paginate \/ UNCHANGED page
  BY DEF Working, Weigh, AddSome, Add, AddGeneric, FailToAdd, Fail,
         CollectSome, Collect, FailToCollect, Price, Export

LEMMA AskingTakesPageBack ==
  AskBills \/ NextPage \/ Summary \/ Report => page' = NoPage
  BY DEF AskBills, Bills, NextPage, Search, Summary, Report, Request

LEMMA ReaderAsksOrWorks ==
  Reader <=> AskBills \/ NextPage \/ Summary \/ Report \/ Working
  BY Zenon DEF Reader, Working

LEMMA PaginateSlices ==
  ASSUME TypeOK, NoPageYet, Paginate, page'.next
  PROVE  /\ limit > 0 /\ UNCHANGED <<arguments, found, kept>>
         /\ pc = "weigh" /\ found = <<>> /\ pc' = "idle"
         /\ seen' = seen \cup {o.id : o \in ToSet(page'.orders)}
         /\ passed' = IF marker = NoId THEN passed \cup {kept[1].id} ELSE passed
         /\ UNCHANGED <<touched, moved, lost>>
         /\ \E a \in 1 .. Len(kept) :
              /\ StartsAt(kept, marker, a)
              /\ a + limit < Len(kept) /\ a + limit \in 1 .. Len(kept)
              /\ page'.orders = SubSeq(kept, a + 1, a + limit)
              /\ page'.marker = kept[a + limit].id
<1> DEFINE end == Loop(kept, limit, marker)
<1>1. kept \in Seq(Priced) /\ limit \in Nat /\ page.next \in BOOLEAN
  BY BillsAssumption DEF TypeOK
<1>2. CASE /\ limit > 0 /\ Len(kept) > limit /\ end.next
           /\ page' = [orders |-> end.result, next |-> TRUE, marker |-> end.last]
           /\ Reply("bills")
           /\ seen' = seen \cup {o.id : o \in ToSet(end.result)}
           /\ passed' = IF marker = NoId THEN passed \cup {kept[1].id} ELSE passed
           /\ UNCHANGED <<arguments, found, kept, touched, moved, lost>>
  <2>1. PICK a \in 1 .. Len(kept) :
          /\ StartsAt(kept, marker, a)
          /\ a + limit < Len(kept) /\ a + limit \in DOMAIN kept
          /\ end.result = SubSeq(kept, a + 1, a + limit)
          /\ end.last = kept[a + limit].id
    BY <1>1, <1>2, PageOfLoop
  <2>2. a + limit \in 1 .. Len(kept)
    BY <1>1, <2>1, LenProperties
  <2> HIDE DEF end
  <2>3. /\ page'.orders = end.result /\ page'.marker = end.last
        /\ pc' = "idle" /\ pc = "weigh" /\ found = <<>>
    BY <1>2 DEF Reply, Paginate
  <2> QED
    BY <1>2, <2>1, <2>2, <2>3 DEF end
<1>3. CASE /\ page' = [orders |-> kept, next |-> FALSE, marker |-> marker]
  BY <1>3
<1>4. CASE Fail("failed")
  <2>1. page' = page /\ pc = "weigh"
    BY <1>4 DEF Fail, Paginate
  <2> QED
    BY <2>1 DEF NoPageYet, NoPage
<1> QED
  BY <1>2, <1>3, <1>4 DEF Paginate

LEMMA NoPageComesEarly == TypeOK /\ NoPageYet /\ [Next]_vars => NoPageYet'
<1> SUFFICES ASSUME NoPageYet, [Next]_vars PROVE NoPageYet'
  OBVIOUS
<1>1. CASE Cloud \/ UNCHANGED vars
  BY <1>1, CloudLeavesReader DEF NoPageYet, reading, vars
<1>2. CASE AskBills \/ NextPage \/ Summary \/ Report
  BY <1>2, AskingTakesPageBack DEF NoPageYet
<1>3. CASE Paginate
  BY <1>3 DEF Paginate, Fail, Reply, NoPageYet
<1>4. CASE Working /\ ~Paginate
  BY <1>4, WorkingWasBusy, OnlyPaginateTurnsPages DEF NoPageYet
<1> QED
  BY <1>1, <1>2, <1>3, <1>4, CloudOrReader, ReaderAsksOrWorks

LEMMA SliceStep == SliceInv /\ [Next]_vars => SliceInv'
<1> SUFFICES ASSUME SliceInv, [Next]_vars PROVE SliceInv'
  OBVIOUS
<1>1. TypeOK' /\ NoPageYet'
  BY NextTypes, NoPageComesEarly DEF SliceInv
<1>2. PageIsSlice'
  <2>1. CASE Cloud \/ UNCHANGED vars
    <3>1. UNCHANGED <<page, kept, marker, limit>>
      BY <2>1, CloudLeavesReader DEF reading, arguments, vars
    <3> QED
      BY <3>1 DEF SliceInv, PageIsSlice
  <2>2. CASE AskBills \/ NextPage \/ Summary \/ Report
    BY <2>2, AskingTakesPageBack DEF PageIsSlice, NoPage
  <2>3. CASE Paginate
    <3> SUFFICES ASSUME page'.next PROVE PageIsSlice'
      BY DEF PageIsSlice
    <3>1. UNCHANGED <<arguments, kept>>
      BY <2>3, PaginateSlices DEF SliceInv
    <3>2. PICK a \in 1 .. Len(kept) :
            /\ StartsAt(kept, marker, a) /\ a + limit < Len(kept)
            /\ page'.orders = SubSeq(kept, a + 1, a + limit)
            /\ page'.marker = kept[a + limit].id
      BY <2>3, PaginateSlices DEF SliceInv
    <3>3. a \in DOMAIN kept
      BY LenProperties DEF SliceInv, TypeOK
    <3>4. UNCHANGED <<kept, marker, limit>>
      BY <3>1 DEF arguments
    <3>5. /\ IF marker = NoId THEN a = 1 ELSE kept[a].id = marker
          /\ a + limit < Len(kept)
      BY <3>2 DEF StartsAt
    <3> QED
      BY <3>2, <3>3, <3>4, <3>5 DEF PageIsSlice
  <2>4. CASE Working /\ ~Paginate
    <3>1. page' = NoPage
      BY <2>4, WorkingWasBusy, OnlyPaginateTurnsPages DEF SliceInv, NoPageYet
    <3> QED
      BY <3>1 DEF PageIsSlice, NoPage
  <2> QED
    BY <2>1, <2>2, <2>3, <2>4, CloudOrReader, ReaderAsksOrWorks
<1> QED
  BY <1>1, <1>2 DEF SliceInv

(* Whatever the bills, the limit and the marker, the loop of _pagination   *)
(* cuts a slice out of them: behind the marker (without one behind the     *)
(* first bill), full, ending with the new marker, and with more behind it. *)
THEOREM PagesAreSlices == Spec => []PageIsSlice
<1>1. Init => SliceInv
  BY InitTypes DEF Init, SliceInv, NoPageYet, PageIsSlice, NoPage
<1>2. SliceInv /\ [Next]_vars => SliceInv'
  BY SliceStep
<1>3. SliceInv => PageIsSlice
  BY DEF SliceInv
<1> QED
  BY <1>1, <1>2, <1>3, PTL DEF Spec

-----------------------------------------------------------------------------
(* Costs.  Whatever was not deleted costs no less than when the request    *)
(* began, and costs come from measures.                                    *)
Unanswered == pc # "idle" => answer = "none"

CostsGrow == \A r \in Ids \ gone : low[r] <= cost[r]

CostIsMeasured == \A r \in Ids : cost[r] > 0 => r \in measured

CostInv == TypeOK /\ Unanswered /\ CostsGrow /\ CostIsMeasured

(* What reads no bills keeps what it compares with, and answers at the end.*)
LEMMA OnlyRequestsForget ==
  Working => UNCHANGED <<low, gone>>
  BY DEF Working, Weigh, Paginate, AddSome, Add, AddGeneric, FailToAdd,
         CollectSome, Collect, FailToCollect, Price, Export, Asked

LEMMA RequestsForget ==
  AskBills \/ NextPage \/ Summary \/ Report =>
    /\ gone' = {}
    /\ low' = cost \/ low' = [r \in Ids |-> 0]
    /\ pc' = "idle" => answer' = "bills"
    /\ pc' # "idle" => answer' = "none"
  BY DEF AskBills, Bills, NextPage, Search, Summary, Report, Request

LEMMA AnswersComeLast == Unanswered /\ Working => Unanswered'
  BY DEF Unanswered, Working, Weigh, Paginate, AddSome, Add, AddGeneric,
         FailToAdd, CollectSome, Collect, FailToCollect, Price, Export, Fail,
         Reply

(* Unless r is deleted, its cost does not fall.                            *)
LEMMA CostsDoNotFall ==
  TypeOK /\ Cloud =>
    /\ gone \subseteq gone'
    /\ \A r \in Ids \ gone' : cost[r] <= cost'[r]
<1> SUFFICES ASSUME TypeOK, Cloud
             PROVE  /\ gone \subseteq gone'
                    /\ \A r \in Ids \ gone' : cost[r] <= cost'[r]
  OBVIOUS
<1>1. PICK r \in Ids :
        Create(r) \/ Touch(r) \/ Delete(r) \/ Measure(r) \/ Charge(r)
  BY DEF Cloud
<1>2. cost \in [Ids -> 0 .. MaxCost] /\ \A x \in Ids : cost[x] \in Nat
  BY BillsAssumption DEF TypeOK
<1>3. CASE Create(r) \/ Touch(r) \/ Measure(r)
  BY <1>2, <1>3 DEF Create, Touch, Measure
<1>4. CASE Delete(r)
  BY <1>2, <1>4 DEF Delete
<1>5. CASE Charge(r)
  BY <1>2, <1>5 DEF Charge
<1> QED
  BY <1>1, <1>3, <1>4, <1>5

LEMMA CostStep == CostInv /\ [Next]_vars => CostInv'
<1> SUFFICES ASSUME CostInv, [Next]_vars PROVE CostInv'
  OBVIOUS
<1>1. TypeOK /\ TypeOK'
  BY NextTypes DEF CostInv
<1>2. \A r \in Ids : cost[r] \in Nat /\ low[r] \in Nat /\ cost'[r] \in Nat
  BY <1>1, BillsAssumption DEF TypeOK
<1>3. CASE UNCHANGED vars
  BY <1>1, <1>3
     DEF CostInv, Unanswered, CostsGrow, CostIsMeasured, vars, gnocchi, reading
<1>4. CASE Cloud
  <2>1. UNCHANGED <<pc, answer, low>>
    BY <1>4, CloudLeavesReader DEF reading
  <2>2. CostsGrow'
    <3>1. ASSUME NEW r \in Ids \ gone' PROVE low[r] <= cost'[r]
      <4>1. r \notin gone /\ cost[r] <= cost'[r]
        BY <1>1, <1>4, CostsDoNotFall
      <4>2. low[r] <= cost[r]
        BY <4>1 DEF CostInv, CostsGrow
      <4> QED
        BY <1>2, <4>1, <4>2
    <3> QED
      BY <2>1, <3>1 DEF CostsGrow
  <2>3. CostIsMeasured'
    <3>1. PICK r \in Ids :
            Create(r) \/ Touch(r) \/ Delete(r) \/ Measure(r) \/ Charge(r)
      BY <1>4 DEF Cloud
    <3>2. CASE Create(r) \/ Touch(r) \/ Measure(r)
      BY <3>2 DEF Create, Touch, Measure, CostInv, CostIsMeasured
    <3>3. CASE Delete(r)
      BY <1>1, <3>3 DEF Delete, CostInv, CostIsMeasured, TypeOK
    <3>4. CASE Charge(r)
      BY <1>1, <3>4 DEF Charge, CostInv, CostIsMeasured, TypeOK
    <3> QED
      BY <3>1, <3>2, <3>3, <3>4
  <2> QED
    BY <1>1, <2>1, <2>2, <2>3 DEF CostInv, Unanswered
<1>5. CASE Reader
  <2>1. UNCHANGED <<cost, measured>>
    BY <1>5, ReaderLeavesCloud DEF gnocchi
  <2>2. Unanswered'
    BY <1>5, RequestsForget, AnswersComeLast, ReaderAsksOrWorks
       DEF CostInv, Unanswered
  <2>3. CostsGrow'
    <3>1. CASE Working
      BY <2>1, <3>1, OnlyRequestsForget DEF CostInv, CostsGrow
    <3>2. CASE AskBills \/ NextPage \/ Summary \/ Report
      BY <1>2, <2>1, <3>2, RequestsForget DEF CostsGrow
    <3> QED
      BY <1>5, <3>1, <3>2, ReaderAsksOrWorks
  <2> QED
    BY <1>1, <2>1, <2>2, <2>3 DEF CostInv, CostIsMeasured
<1> QED
  BY <1>3, <1>4, <1>5, CloudOrReader

LEMMA CostInit == Init => CostInv
<1> SUFFICES ASSUME Init PROVE CostInv
  OBVIOUS
<1>1. TypeOK /\ low = cost /\ pc = "idle"
  BY InitTypes DEF Init
<1>2. PICK c \in 0 .. MaxCost :
        cost = [r \in Ids |-> IF r \in measured THEN c ELSE 0]
  BY DEF Init
<1>3. CostIsMeasured
  BY <1>2 DEF CostIsMeasured
<1>4. CostsGrow
  BY <1>1, BillsAssumption DEF CostsGrow, TypeOK
<1> QED
  BY <1>1, <1>3, <1>4 DEF CostInv, Unanswered

(* Sums of costs.                                                          *)
LEMMA SumOfFewer ==
  ASSUME NEW f \in [Ids -> 0 .. MaxCost], NEW S \in SUBSET Ids,
         NEW R \in SUBSET S
  PROVE  SumFunctionOnSet(f, R) <= SumFunctionOnSet(f, S)
<1> DEFINE g == [r \in S |-> IF r \in R THEN f[r] ELSE 0]
<1>1. IsFiniteSet(S) /\ IsFiniteSet(R) /\ MaxCost \in Nat
  BY BillsAssumption, FS_Subset
<1>2. \A r \in S : f[r] \in Int /\ 0 <= f[r]
  BY <1>1
<1>3. /\ \A r \in S : g[r] \in Int /\ g[r] <= f[r]
      /\ \A r \in R : g[r] = f[r]
      /\ \A r \in S \ R : g[r] = 0
  BY <1>2
<1> HIDE DEF g
<1>4. SumFunctionOnSet(g, R) = SumFunctionOnSet(g, S)
  BY <1>1, <1>3, SumWithoutZeros
<1>5. /\ SumFunctionOnSet(g, S) \in Int /\ SumFunctionOnSet(f, S) \in Int
      /\ SumFunctionOnSet(g, S) <= SumFunctionOnSet(f, S)
  BY <1>1, <1>2, <1>3, SumIsMonotone
<1>6. \A r \in R : f[r] \in Int /\ g[r] \in Int /\ f[r] <= g[r]
  BY <1>2, <1>3
<1>7. /\ SumFunctionOnSet(f, R) \in Int
      /\ SumFunctionOnSet(f, R) <= SumFunctionOnSet(g, R)
  BY <1>1, <1>6, SumIsMonotone
<1> QED
  BY <1>4, <1>5, <1>7

LEMMA SumOfMore ==
  ASSUME NEW f \in [Ids -> 0 .. MaxCost], NEW g \in [Ids -> 0 .. MaxCost],
         NEW S \in SUBSET Ids, \A r \in S : f[r] <= g[r]
  PROVE  SumFunctionOnSet(f, S) <= SumFunctionOnSet(g, S)
<1>1. IsFiniteSet(S) /\ MaxCost \in Nat
  BY BillsAssumption, FS_Subset
<1>2. \A r \in S : f[r] \in Int /\ g[r] \in Int /\ f[r] <= g[r]
  BY <1>1
<1> QED
  BY <1>1, <1>2, SumIsMonotone

(* What is not among the resources has cost nothing.                       *)
LEMMA SumOfPresent ==
  ASSUME CostInv, NEW S \in SUBSET Ids
  PROVE  SumFunctionOnSet(cost, S \cap ToSet(resources)) =
         SumFunctionOnSet(cost, S)
<1>1. cost \in [Ids -> 0 .. MaxCost] /\ measured \subseteq ToSet(resources)
  BY DEF CostInv, TypeOK
<1>2. IsFiniteSet(S) /\ MaxCost \in Nat
  BY BillsAssumption, FS_Subset
<1>3. \A r \in S : cost[r] \in Int
  BY <1>1, <1>2
<1>4. \A r \in S \ (S \cap ToSet(resources)) : cost[r] = 0
  BY <1>1, <1>2 DEF CostInv, CostIsMeasured
<1> QED
  BY <1>2, <1>3, <1>4, SumWithoutZeros

(* A total read so far is that of some moment since the request began.     *)
InBetween(s) ==
  /\ SumFunctionOnSet(low, OfKind(Kind[s])) <= totals[s]
  /\ totals[s] <= SumFunctionOnSet(cost, OfKind(Kind[s]))

SumsSoFar ==
  pc = "sum" /\ gone = {} => \A s \in Services \ pending : InBetween(s)

SumInv == CostInv /\ SumsSoFar /\ SummaryAddsUp

(* While costs grow, nothing that held of the totals ceases to hold.       *)
LEMMA SumsOutlastCosts ==
  ASSUME SumInv, TypeOK', UNCHANGED <<reading, low>>, gone \subseteq gone',
         \A r \in Ids \ gone' : cost[r] <= cost'[r]
  PROVE  SumsSoFar' /\ SummaryAddsUp'
<1>1. CASE gone' # {}
  BY <1>1 DEF SumsSoFar, SummaryAddsUp
<1>2. CASE gone' = {}
  <2>1. gone = {} /\ \A r \in Ids : cost[r] <= cost'[r]
    BY <1>2
  <2>2. /\ cost \in [Ids -> 0 .. MaxCost] /\ cost' \in [Ids -> 0 .. MaxCost]
        /\ totals \in [Services \cup {"generic"} -> Nat]
    BY DEF SumInv, CostInv, TypeOK
  <2>3. \A S \in SUBSET Ids :
          /\ SumFunctionOnSet(cost, S) \in Nat
          /\ SumFunctionOnSet(cost', S) \in Nat
          /\ SumFunctionOnSet(cost, S) <= SumFunctionOnSet(cost', S)
    BY <2>1, <2>2, CostsSum, SumOfMore
  <2>4. UNCHANGED <<pc, answer, pending, totals, low>>
    BY DEF reading
  <2>5. SumsSoFar'
    <3> SUFFICES ASSUME pc = "sum", NEW s \in Services \ pending
                 PROVE  InBetween(s)'
      BY <2>4 DEF SumsSoFar
    <3>1. InBetween(s)
      BY <2>1 DEF SumInv, SumsSoFar
    <3> DEFINE now == SumFunctionOnSet(cost, OfKind(Kind[s]))
               then == SumFunctionOnSet(cost', OfKind(Kind[s]))
    <3>2. now \in Nat /\ then \in Nat /\ now <= then
      BY <2>3 DEF OfKind
    <3>3. totals[s] <= now /\ totals[s] \in Nat
      BY <2>2, <3>1 DEF InBetween
    <3>4. totals[s] <= then
      <4> HIDE DEF now, then
      <4> QED
        BY <3>2, <3>3
    <3> QED
      BY <2>4, <3>1, <3>4 DEF InBetween
  <2>6. SummaryAddsUp'
    <3> SUFFICES ASSUME answer = "summary" PROVE SummaryAddsUp'
      BY <2>4 DEF SummaryAddsUp
    <3>1. /\ \A s \in Services :
               /\ SumFunctionOnSet(low, OfKind(Kind[s])) <= totals[s]
               /\ totals[s] <= totals["generic"]
          /\ totals["generic"] <= SumFunctionOnSet(cost, Ids)
      BY <2>1 DEF SumInv, SummaryAddsUp
    <3> DEFINE now == SumFunctionOnSet(cost, Ids)
               then == SumFunctionOnSet(cost', Ids)
    <3>2. now \in Nat /\ then \in Nat /\ now <= then
      BY <2>3
    <3>3. totals["generic"] \in Nat /\ totals["generic"] <= now
      BY <2>2, <3>1
    <3>4. totals["generic"] <= then
      <4> HIDE DEF now, then
      <4> QED
        BY <3>2, <3>3
    <3> QED
      BY <2>4, <3>1, <3>4 DEF SummaryAddsUp
  <2> QED
    BY <2>5, <2>6
<1> QED
  BY <1>1, <1>2

LEMMA AddAddsUp == SumInv /\ AddSome => SumsSoFar' /\ SummaryAddsUp'
<1> SUFFICES ASSUME SumInv, AddSome PROVE SumsSoFar' /\ SummaryAddsUp'
  OBVIOUS
<1>1. PICK s \in Services : Add(s)
  BY DEF AddSome
<1>2. /\ pc = "sum" /\ answer = "none" /\ pending' = pending \ {s}
      /\ UNCHANGED <<pc, answer, cost, low, gone>>
      /\ totals' = [totals EXCEPT ![s] = SumFunctionOnSet(cost, Of(Kind[s]))]
  BY <1>1 DEF Add, Asked, gnocchi, SumInv, CostInv, Unanswered
<1>3. SumFunctionOnSet(cost, Of(Kind[s])) = SumFunctionOnSet(cost, OfKind(Kind[s]))
  BY SumOfPresent DEF SumInv, Of, OfKind
<1>4. totals \in [Services \cup {"generic"} -> Nat]
  BY DEF SumInv, CostInv, TypeOK
<1>5. SumsSoFar'
  <2> SUFFICES ASSUME gone = {}, NEW q \in Services \ pending' PROVE InBetween(q)'
    BY <1>2 DEF SumsSoFar
  <2>1. CASE q = s
    <3> DEFINE before == SumFunctionOnSet(low, OfKind(Kind[s]))
               now == SumFunctionOnSet(cost, OfKind(Kind[s]))
    <3>1. /\ low \in [Ids -> 0 .. MaxCost] /\ cost \in [Ids -> 0 .. MaxCost]
          /\ \A r \in Ids : low[r] <= cost[r]
      BY DEF SumInv, CostInv, CostsGrow, TypeOK
    <3>2. before <= now /\ now \in Nat
      BY <3>1, SumOfMore, CostsSum DEF OfKind
    <3>3. totals'[s] = now
      BY <1>2, <1>3, <1>4
    <3>4. now <= now
      BY <3>2
    <3> QED
      BY <1>2, <2>1, <3>2, <3>3, <3>4 DEF InBetween
  <2>2. CASE q # s
    <3>1. q \in Services \ pending /\ totals'[q] = totals[q]
      BY <1>2, <1>4, <2>2
    <3>2. InBetween(q)
      BY <1>2, <3>1 DEF SumInv, SumsSoFar
    <3> QED
      BY <1>2, <3>1, <3>2 DEF InBetween
  <2> QED
    BY <2>1, <2>2
<1> QED
  BY <1>2, <1>5 DEF SummaryAddsUp

LEMMA GenericAddsUp == SumInv /\ AddGeneric => SumsSoFar' /\ SummaryAddsUp'
<1> SUFFICES ASSUME SumInv, AddGeneric PROVE SumsSoFar' /\ SummaryAddsUp'
  OBVIOUS
<1> DEFINE all == SumFunctionOnSet(cost, Ids)
<1>1. /\ pc = "sum" /\ pending = {} /\ pc' = "idle"
      /\ UNCHANGED <<cost, low, gone>>
      /\ totals' = [totals EXCEPT !["generic"] =
                      SumFunctionOnSet(cost, ToSet(resources))]
  BY DEF AddGeneric, Reply, Asked, gnocchi
<1>2. SumFunctionOnSet(cost, ToSet(resources)) = all
  <2>1. ToSet(resources) = Ids \cap ToSet(resources)
    BY ResourcesAreIds DEF SumInv, CostInv
  <2> QED
    BY <2>1, SumOfPresent DEF SumInv
<1>3. /\ totals \in [Services \cup {"generic"} -> Nat]
      /\ cost \in [Ids -> 0 .. MaxCost]
  BY DEF SumInv, CostInv, TypeOK
<1>4. totals'["generic"] = all /\ all \in Nat
  BY <1>1, <1>2, <1>3, CostsSum
<1>5. SummaryAddsUp'
  <2> SUFFICES ASSUME gone = {} PROVE SummaryAddsUp'
    BY <1>1 DEF SummaryAddsUp
  <2>1. ASSUME NEW s \in Services
        PROVE  /\ SumFunctionOnSet(low, OfKind(Kind[s])) <= totals'[s]
               /\ totals'[s] <= all
    <3> DEFINE now == SumFunctionOnSet(cost, OfKind(Kind[s]))
    <3>1. totals'[s] = totals[s] /\ totals[s] \in Nat
      BY <1>1, <1>3, BillsAssumption
    <3>2. InBetween(s)
      BY <1>1 DEF SumInv, SumsSoFar
    <3>3. now \in Nat /\ now <= all
      BY <1>3, CostsSum, SumOfFewer DEF OfKind
    <3>4. totals[s] <= now
      BY <3>2 DEF InBetween
    <3> HIDE DEF now, all
    <3>5. totals[s] <= all
      BY <1>4, <3>1, <3>3, <3>4
    <3> QED
      BY <3>1, <3>2, <3>5 DEF InBetween
  <2>2. all <= all
    BY <1>4
  <2> QED
    BY <1>1, <1>4, <2>1, <2>2 DEF SummaryAddsUp
<1> QED
  BY <1>1, <1>5 DEF SumsSoFar

LEMMA SumStep == SumInv /\ [Next]_vars => SumInv'
<1> SUFFICES ASSUME SumInv, [Next]_vars PROVE SumInv'
  OBVIOUS
<1>1. CostInv /\ CostInv'
  BY CostStep DEF SumInv
<1>2. CASE UNCHANGED vars
  BY <1>1, <1>2 DEF SumInv, SumsSoFar, InBetween, SummaryAddsUp, vars, gnocchi,
                    reading
<1>3. CASE Cloud
  BY <1>1, <1>3, CostsDoNotFall, CloudLeavesReader, SumsOutlastCosts
     DEF CostInv, SumInv
<1>4. CASE AddSome
  BY <1>1, <1>4, AddAddsUp DEF SumInv
<1>5. CASE AddGeneric
  BY <1>1, <1>5, GenericAddsUp DEF SumInv
<1>6. CASE Summary
  BY <1>1, <1>6 DEF Summary, Request, SumInv, SumsSoFar, SummaryAddsUp
<1>7. CASE AskBills \/ NextPage \/ Report
  <2>1. pc' # "sum" /\ answer' # "summary"
    BY <1>7 DEF AskBills, Bills, NextPage, Search, Report, Request
  <2> QED
    BY <1>1, <2>1 DEF SumInv, SumsSoFar, SummaryAddsUp
<1>8. CASE Working /\ ~AddSome /\ ~AddGeneric
  <2>1. pc # "idle" /\ answer = "none"
    BY <1>1, <1>8, WorkingWasBusy DEF CostInv, Unanswered
  <2>2. pc' # "sum" /\ answer' # "summary"
    BY <1>8, <2>1 DEF Working, Weigh, Paginate, FailToAdd, CollectSome, Collect,
                      FailToCollect, Price, Export, Fail, Reply
  <2> QED
    BY <1>1, <2>2 DEF SumInv, SumsSoFar, SummaryAddsUp
<1> QED
  BY <1>2, <1>3, <1>4, <1>5, <1>6, <1>7, <1>8, CloudOrReader, ReaderAsksOrWorks

(* However costs grow while a summary is put together, no total exceeds    *)
(* the generic one, and none is less than what its service had cost when   *)
(* the summary was asked for; a failed query leaves no summary at all.     *)
THEOREM SummariesAddUp == Spec => []SummaryAddsUp
<1>1. Init => SumInv
  BY CostInit DEF Init, SumInv, SumsSoFar, SummaryAddsUp
<1>2. SumInv /\ [Next]_vars => SumInv'
  BY SumStep
<1>3. SumInv => SummaryAddsUp
  BY DEF SumInv
<1> QED
  BY <1>1, <1>2, <1>3, PTL DEF Spec

-----------------------------------------------------------------------------
(* What has been found, first that which has its price.                    *)
IdsOf(rows) == [i \in DOMAIN rows |-> rows[i].id]

KeptIds == IdsOf(kept)

Listed == KeptIds \o found

LEMMA IdsOfRows ==
  ASSUME NEW rows \in Seq(Priced)
  PROVE  /\ IdsOf(rows) \in Seq(Ids) /\ Len(IdsOf(rows)) = Len(rows)
         /\ Len(rows) \in Nat /\ DOMAIN rows = 1 .. Len(rows)
         /\ \A i \in 1 .. Len(rows) : IdsOf(rows)[i] = rows[i].id
<1>1. Len(rows) \in Nat /\ DOMAIN rows = 1 .. Len(rows)
  BY LenProperties
<1>2. \A i \in 1 .. Len(rows) : rows[i].id \in Ids
  <2>1. \A i \in 1 .. Len(rows) : rows[i] \in Priced
    BY ElementOfSeq
  <2> QED
    BY <2>1 DEF Priced
<1>3. IdsOf(rows) \in [1 .. Len(rows) -> Ids]
  BY <1>1, <1>2 DEF IdsOf
<1>4. IdsOf(rows) \in Seq(Ids)
  BY <1>1, <1>3, SeqDef
<1>5. Len(IdsOf(rows)) = Len(rows)
  <2>1. DOMAIN IdsOf(rows) = 1 .. Len(IdsOf(rows)) /\ Len(IdsOf(rows)) \in Nat
    BY <1>4, LenProperties
  <2> QED
    BY <1>1, <1>3, <2>1
<1> QED
  BY <1>1, <1>4, <1>5 DEF IdsOf

LEMMA KeepExtends ==
  ASSUME TypeOK, NEW r \in Ids, NEW price \in 0 .. MaxCost, Keep(r, price)
  PROVE  KeptIds' = Append(KeptIds, r) /\ KeptIds' \in Seq(Ids)
<1> DEFINE row == [id |-> r, price |-> price]
<1>1. kept \in Seq(Priced) /\ row \in Priced
  BY DEF TypeOK, Priced
<1>2. kept' = Append(kept, row)
  BY DEF Keep
<1> HIDE DEF row
<1>3. /\ kept' \in Seq(Priced) /\ Len(kept') = Len(kept) + 1
      /\ \A i \in 1 .. Len(kept) : kept'[i] = kept[i]
      /\ kept'[Len(kept) + 1] = row
  BY <1>1, <1>2, AppendProperties
<1>4. /\ KeptIds \in Seq(Ids) /\ Len(KeptIds) = Len(kept) /\ Len(kept) \in Nat
      /\ \A i \in 1 .. Len(kept) : KeptIds[i] = kept[i].id
  BY <1>1, IdsOfRows DEF KeptIds
<1>5. /\ KeptIds' \in Seq(Ids) /\ Len(KeptIds') = Len(kept')
      /\ \A i \in 1 .. Len(kept') : KeptIds'[i] = kept'[i].id
  BY <1>3, IdsOfRows DEF KeptIds
<1> DEFINE new == Append(KeptIds, r)
<1>6. /\ new \in Seq(Ids) /\ Len(new) = Len(kept) + 1
      /\ \A i \in 1 .. Len(kept) : new[i] = KeptIds[i]
      /\ new[Len(kept) + 1] = r
  BY <1>4, AppendProperties
<1>7. row.id = r
  BY DEF row
<1> HIDE DEF new
<1>8. ASSUME NEW i \in 1 .. Len(kept) + 1 PROVE KeptIds'[i] = new[i]
  <2>1. CASE i = Len(kept) + 1
    BY <1>3, <1>5, <1>6, <1>7, <2>1
  <2>2. CASE i # Len(kept) + 1
    <3>1. i \in 1 .. Len(kept)
      BY <1>4, <2>2
    <3> QED
      BY <1>3, <1>4, <1>5, <1>6, <3>1
  <2> QED
    BY <2>1, <2>2
<1>9. KeptIds' = new
  BY <1>3, <1>5, <1>6, <1>8, SeqEqual
<1> QED
  BY <1>5, <1>9 DEF new

(* Nothing found is lost when it gets its price.                           *)
LEMMA ListedStays ==
  ASSUME TypeOK, found # <<>>, NEW price \in 0 .. MaxCost,
         Keep(Head(found), price), found' = Tail(found)
  PROVE  Listed' = Listed
<1> DEFINE p == KeptIds
           q == found
           r == Head(q)
           a == Append(p, r)
           t == Tail(q)
<1>1. p \in Seq(Ids) /\ q \in Seq(Ids) /\ q # <<>>
  BY IdsOfRows DEF KeptIds, TypeOK
<1>2. /\ r \in Ids /\ t \in Seq(Ids) /\ Len(t) = Len(q) - 1 /\ q[1] = r
      /\ \A i \in 1 .. Len(t) : t[i] = q[i + 1]
  BY <1>1, HeadTailProperties
<1>3. KeptIds' = a
  BY <1>2, KeepExtends
<1>4. /\ a \in Seq(Ids) /\ Len(a) = Len(p) + 1
      /\ \A i \in 1 .. Len(p) : a[i] = p[i]
      /\ a[Len(p) + 1] = r
  BY <1>1, <1>2, AppendProperties
<1>5. Len(p) \in Nat /\ Len(q) \in Nat /\ Len(q) > 0
  BY <1>1, LenProperties, EmptySeq
<1>6. /\ a \o t \in Seq(Ids) /\ Len(a \o t) = Len(a) + Len(t)
      /\ \A i \in 1 .. Len(a) + Len(t) :
           (a \o t)[i] = IF i <= Len(a) THEN a[i] ELSE t[i - Len(a)]
  BY <1>2, <1>4, ConcatProperties
<1>7. /\ p \o q \in Seq(Ids) /\ Len(p \o q) = Len(p) + Len(q)
      /\ \A i \in 1 .. Len(p) + Len(q) :
           (p \o q)[i] = IF i <= Len(p) THEN p[i] ELSE q[i - Len(p)]
  BY <1>1, ConcatProperties
<1>8. Listed' = a \o t /\ Listed = p \o q
  BY <1>3 DEF Listed
<1> HIDE DEF p, q, r, a, t
<1>9. ASSUME NEW i \in 1 .. Len(p) + Len(q) PROVE (a \o t)[i] = (p \o q)[i]
  <2>1. (a \o t)[i] = IF i <= Len(p) + 1 THEN a[i] ELSE t[i - (Len(p) + 1)]
    BY <1>2, <1>4, <1>5, <1>6
  <2>2. (p \o q)[i] = IF i <= Len(p) THEN p[i] ELSE q[i - Len(p)]
    BY <1>7
  <2>3. CASE i <= Len(p)
    BY <1>4, <1>5, <2>1, <2>2, <2>3
  <2>4. CASE i = Len(p) + 1
    BY <1>2, <1>4, <1>5, <2>1, <2>2, <2>4
  <2>5. CASE i > Len(p) + 1
    <3> DEFINE j == i - (Len(p) + 1)
    <3>1. j \in 1 .. Len(t) /\ j + 1 = i - Len(p)
      BY <1>2, <1>5, <2>5
    <3>2. (a \o t)[i] = t[j]
      BY <1>5, <2>1, <2>5
    <3>3. (p \o q)[i] = q[i - Len(p)]
      BY <1>5, <2>2, <2>5
    <3> HIDE DEF j
    <3>4. t[j] = q[j + 1]
      BY <1>2, <3>1
    <3> QED
      BY <3>1, <3>2, <3>3, <3>4
  <2>6. i <= Len(p) \/ i = Len(p) + 1 \/ i > Len(p) + 1
    BY <1>5
  <2> QED
    BY <2>3, <2>4, <2>5, <2>6
<1>10. Len(a \o t) = Len(p \o q)
  BY <1>2, <1>4, <1>5, <1>6, <1>7
<1>11. a \o t = p \o q
  BY <1>6, <1>7, <1>9, <1>10, SeqEqual
<1> QED
  BY <1>8, <1>11

LEMMA ListedIsSeq ==
  ASSUME TypeOK
  PROVE  KeptIds \in Seq(Ids) /\ found \in Seq(Ids) /\ Listed \in Seq(Ids)
<1>1. KeptIds \in Seq(Ids) /\ found \in Seq(Ids)
  BY IdsOfRows DEF KeptIds, TypeOK
<1> QED
  BY <1>1, ConcatProperties DEF Listed

LEMMA NothingListed ==
  /\ IdsOf(<<>>) = <<>> /\ <<>> \o <<>> = <<>>
  /\ Injective(<<>>) /\ ToSet(<<>>) = {}
<1>1. <<>> \in Seq(Priced) /\ Len(<<>>) = 0
  BY EmptySeq
<1>2. IdsOf(<<>>) \in Seq(Ids) /\ Len(IdsOf(<<>>)) = 0
  BY <1>1, IdsOfRows
<1>3. IdsOf(<<>>) = <<>>
  BY <1>2, EmptySeq
<1>4. <<>> \o <<>> = <<>>
  BY <1>1, ConcatEmptySeq
<1> QED
  BY <1>3, <1>4 DEF Injective, ToSet

-----------------------------------------------------------------------------
(* The report.  What has been collected is listed once, and whatever had a *)
(* cost is among it, as soon as resources of its type have been.           *)
Pending(r) == Kind[ServiceOf[r]] \in pending

HasPrice(r) ==
  \E row \in ToSet(kept) :
    row.id = r /\ low[r] <= row.price /\ row.price <= cost[r]

CollectedInTurn == \A r \in ToSet(Listed) : ~Pending(r)

NoneIsMissing ==
  \A r \in Ids \ gone : low[r] > 0 /\ ~Pending(r) =>
    r \in ToSet(found) \/ HasPrice(r)

Collected ==
  pc = "collect" => Injective(Listed) /\ CollectedInTurn /\ NoneIsMissing

ReportInv == CostInv /\ Collected /\ ReportIsWhole

LEMMA ReportOutlastsCosts ==
  ASSUME ReportInv, TypeOK', UNCHANGED <<reading, low>>, gone \subseteq gone',
         \A r \in Ids \ gone' : cost[r] <= cost'[r]
  PROVE  Collected' /\ ReportIsWhole'
<1>1. UNCHANGED <<pc, answer, found, kept, pending, low>>
  BY DEF reading
<1>2. UNCHANGED <<Listed, KeptIds>> /\ \A r : Pending(r)' <=> Pending(r)
  BY <1>1 DEF Listed, KeptIds, IdsOf, Pending
<1>3. ASSUME NEW r \in Ids \ gone', HasPrice(r) PROVE HasPrice(r)'
  <2>1. PICK row \in ToSet(kept) :
          row.id = r /\ low[r] <= row.price /\ row.price <= cost[r]
    BY <1>3 DEF HasPrice
  <2>2. cost[r] \in Nat /\ cost'[r] \in Nat /\ cost[r] <= cost'[r]
    BY BillsAssumption DEF ReportInv, CostInv, TypeOK
  <2>3. row.price \in Nat
    <3>1. row \in Priced
      BY <2>1, LenProperties, ElementOfSeq DEF ReportInv, CostInv, TypeOK, ToSet
    <3> QED
      BY <3>1, BillsAssumption DEF Priced
  <2>4. row.price <= cost'[r]
    BY <2>1, <2>2, <2>3
  <2> QED
    BY <1>1, <2>1, <2>4 DEF HasPrice
<1>4. Collected'
  BY <1>1, <1>2, <1>3
     DEF ReportInv, Collected, CollectedInTurn, NoneIsMissing
<1>5. ReportIsWhole'
  <2> SUFFICES ASSUME answer = "report" PROVE ReportIsWhole'
    BY <1>1 DEF ReportIsWhole
  <2>1. /\ \A i, j \in DOMAIN kept : kept[i].id = kept[j].id => i = j
        /\ \A r \in Ids \ gone : low[r] > 0 => HasPrice(r)
    BY DEF ReportInv, ReportIsWhole, HasPrice
  <2>2. \A r \in Ids \ gone' : low[r] > 0 => HasPrice(r)'
    BY <1>3, <2>1
  <2> QED
    BY <1>1, <2>1, <2>2 DEF ReportIsWhole, HasPrice
<1> QED
  BY <1>4, <1>5

LEMMA ReportBegins == ReportInv /\ Report => Collected' /\ ReportIsWhole'
<1> SUFFICES ASSUME ReportInv, Report PROVE Collected' /\ ReportIsWhole'
  OBVIOUS
<1>1. /\ pc' = "collect" /\ answer' = "none" /\ found' = <<>> /\ kept' = <<>>
      /\ pending' = Kinds
  BY DEF Report, Request, NoWalk
<1>2. Listed' = <<>>
  BY <1>1, NothingListed DEF Listed, KeptIds
<1>3. \A r \in Ids : Pending(r)'
  BY <1>1, BillsAssumption DEF Pending, Kinds
<1>4. Injective(Listed') /\ CollectedInTurn' /\ NoneIsMissing'
  BY <1>2, <1>3, NothingListed DEF CollectedInTurn, NoneIsMissing
<1> QED
  BY <1>1, <1>4 DEF Collected, ReportIsWhole

LEMMA CollectCollects == ReportInv /\ CollectSome => Collected' /\ ReportIsWhole'
<1> SUFFICES ASSUME ReportInv, CollectSome PROVE Collected' /\ ReportIsWhole'
  OBVIOUS
<1>1. PICK k \in Kinds : Collect(k)
  BY DEF CollectSome
<1> DEFINE S == {r \in OfKind(k) : cost[r] > 0}
           more == Chosen(resources, S)
<1>2. /\ pc = "collect" /\ pc' = "collect" /\ k \in pending
      /\ pending' = pending \ {k} /\ found' = found \o more
      /\ UNCHANGED <<answer, kept, cost, low, gone>>
  BY <1>1 DEF Collect, Asked, gnocchi
<1>3. TypeOK /\ Unanswered /\ CostsGrow /\ CostIsMeasured
  BY DEF ReportInv, CostInv
<1>4. more \in Seq(Ids) /\ Injective(more) /\ ToSet(more) = ToSet(resources) \cap S
  BY <1>3, ChosenIs DEF TypeOK
<1>5. Injective(Listed) /\ CollectedInTurn /\ NoneIsMissing
  BY <1>2 DEF ReportInv, Collected
<1>6. KeptIds \in Seq(Ids) /\ found \in Seq(Ids) /\ Listed \in Seq(Ids)
  BY <1>3, ListedIsSeq
<1> HIDE DEF more
<1>7. Listed' = Listed \o more
  <2>1. KeptIds' = KeptIds
    BY <1>2 DEF KeptIds
  <2> QED
    BY <1>2, <1>4, <1>6, <2>1, ConcatAssociative DEF Listed
<1>8. /\ Listed \o more \in Seq(Ids)
      /\ ToSet(Listed \o more) = ToSet(Listed) \cup ToSet(more)
      /\ \A x, y : Before(Listed \o more, x, y) <=>
                    \/ Before(Listed, x, y) \/ Before(more, x, y)
                    \/ x \in ToSet(Listed) /\ y \in ToSet(more)
  BY <1>4, <1>6, ConcatOrder
<1>9. /\ \A r \in ToSet(more) : Pending(r) /\ ~Pending(r)'
      /\ \A r \in ToSet(Listed) : ~Pending(r) /\ ~Pending(r)'
  BY <1>2, <1>4, <1>5 DEF Pending, OfKind, CollectedInTurn
<1>10. Injective(Listed')
  <2>1. \A x : ~Before(Listed, x, x) /\ ~Before(more, x, x)
    BY <1>4, <1>5, <1>6, InjectiveOrder
  <2>2. \A x : ~(x \in ToSet(Listed) /\ x \in ToSet(more))
    BY <1>9
  <2>3. \A x : ~Before(Listed \o more, x, x)
    BY <1>8, <2>1, <2>2
  <2> QED
    BY <1>7, <1>8, <2>3, InjectiveOrder
<1>11. CollectedInTurn'
  BY <1>7, <1>8, <1>9 DEF CollectedInTurn
<1>12. NoneIsMissing'
  <2> SUFFICES ASSUME NEW r \in Ids \ gone, low[r] > 0, ~Pending(r)'
               PROVE  r \in ToSet(found') \/ HasPrice(r)'
    BY <1>2 DEF NoneIsMissing
  <2>1. ToSet(found') = ToSet(found) \cup ToSet(more)
    BY <1>2, <1>4, <1>6, ConcatOrder
  <2>2. CASE Pending(r)
    <3>1. Kind[ServiceOf[r]] = k
      BY <1>2, <2>2 DEF Pending
    <3>2. low[r] \in Nat /\ cost[r] \in Nat /\ low[r] <= cost[r]
      BY <1>3, BillsAssumption DEF CostsGrow, TypeOK
    <3>3. cost[r] > 0
      BY <3>2
    <3>4. r \in ToSet(resources)
      BY <1>3, <3>3 DEF CostIsMeasured, TypeOK
    <3> QED
      BY <1>4, <2>1, <3>1, <3>3, <3>4 DEF OfKind
  <2>3. CASE ~Pending(r)
    <3>1. r \in ToSet(found) \/ HasPrice(r)
      BY <1>5, <2>3 DEF NoneIsMissing
    <3> QED
      BY <1>2, <2>1, <3>1 DEF HasPrice
  <2> QED
    BY <2>2, <2>3
<1>13. ReportIsWhole'
  BY <1>2, <1>3 DEF Unanswered, ReportIsWhole
<1> QED
  BY <1>10, <1>11, <1>12, <1>13 DEF Collected

LEMMA PriceCounts ==
  ASSUME ReportInv, pc = "collect", found # <<>>,
         Keep(Head(found), cost[Head(found)]), found' = Tail(found),
         UNCHANGED <<cost, low, gone, pc, answer, pending>>
  PROVE  Collected' /\ ReportIsWhole'
<1> DEFINE h == Head(found)
           row == [id |-> h, price |-> cost[h]]
<1>1. TypeOK /\ Unanswered /\ CostsGrow
  BY DEF ReportInv, CostInv
<1>2. /\ h \in Ids /\ ToSet(found) = {h} \cup ToSet(Tail(found))
      /\ kept \in Seq(Priced)
  BY <1>1, TailOrder DEF TypeOK
<1>3. cost[h] \in 0 .. MaxCost /\ cost[h] \in Nat
  BY <1>1, <1>2, BillsAssumption DEF TypeOK
<1>4. Listed' = Listed
  BY <1>1, <1>3, ListedStays
<1>5. ToSet(kept') = ToSet(kept) \cup {row}
  <2>1. row \in Priced /\ kept' = Append(kept, row)
    BY <1>2, <1>3 DEF Priced, Keep
  <2> HIDE DEF row
  <2> QED
    BY <1>2, <2>1, AppendOrder
<1>6. Injective(Listed) /\ CollectedInTurn /\ NoneIsMissing
  BY DEF ReportInv, Collected
<1>7. Injective(Listed') /\ CollectedInTurn'
  BY <1>4, <1>6 DEF CollectedInTurn, Pending
<1>8. NoneIsMissing'
  <2> SUFFICES ASSUME NEW r \in Ids \ gone, low[r] > 0, ~Pending(r)
               PROVE  r \in ToSet(found') \/ HasPrice(r)'
    BY DEF NoneIsMissing, Pending
  <2>1. CASE r = h
    <3>1. low[r] <= cost[r] /\ cost[r] <= cost[r]
      BY <1>1, <1>3, <2>1 DEF CostsGrow
    <3>2. row \in ToSet(kept') /\ row.id = r /\ row.price = cost[r]
      BY <1>5, <2>1
    <3> QED
      BY <3>1, <3>2 DEF HasPrice
  <2>2. CASE r # h
    <3>1. r \in ToSet(found) \/ HasPrice(r)
      BY <1>6 DEF NoneIsMissing
    <3> QED
      BY <1>2, <1>5, <2>2, <3>1 DEF HasPrice
  <2> QED
    BY <2>1, <2>2
<1>9. ReportIsWhole'
  BY <1>1 DEF Unanswered, ReportIsWhole
<1> QED
  BY <1>7, <1>8, <1>9 DEF Collected

LEMMA ExportIsWhole == ReportInv /\ Export => Collected' /\ ReportIsWhole'
<1> SUFFICES ASSUME ReportInv, Export PROVE Collected' /\ ReportIsWhole'
  OBVIOUS
<1>1. /\ pc = "collect" /\ pending = {} /\ found = <<>> /\ pc' = "idle"
      /\ UNCHANGED <<cost, low, gone, kept>>
  BY DEF Export, Reply, Asked, gnocchi
<1>2. Injective(Listed) /\ NoneIsMissing
  BY <1>1 DEF ReportInv, Collected
<1>3. kept \in Seq(Priced) /\ KeptIds \in Seq(Ids)
  BY ListedIsSeq DEF ReportInv, CostInv, TypeOK
<1>4. Injective(KeptIds)
  BY <1>1, <1>2, <1>3, ConcatEmptySeq DEF Listed
<1>5. \A i, j \in DOMAIN kept : kept[i].id = kept[j].id => i = j
  <2>1. DOMAIN KeptIds = DOMAIN kept /\ \A i \in DOMAIN kept : KeptIds[i] = kept[i].id
    BY DEF KeptIds, IdsOf
  <2> QED
    BY <1>4, <2>1 DEF Injective
<1>6. \A r \in Ids \ gone : low[r] > 0 => HasPrice(r)
  BY <1>1, <1>2, NothingListed DEF NoneIsMissing, Pending
<1> QED
  BY <1>1, <1>5, <1>6 DEF Collected, ReportIsWhole, HasPrice

LEMMA ReportStep == ReportInv /\ [Next]_vars => ReportInv'
<1> SUFFICES ASSUME ReportInv, [Next]_vars PROVE ReportInv'
  OBVIOUS
<1>1. CostInv /\ CostInv' /\ TypeOK /\ TypeOK'
  BY CostStep DEF ReportInv, CostInv
<1>2. CASE UNCHANGED vars
  <2>1. /\ UNCHANGED <<reading, low, gone, cost>>
        /\ \A r \in Ids : cost[r] \in Nat /\ cost[r] <= cost[r]
    BY <1>1, <1>2, BillsAssumption DEF vars, gnocchi, TypeOK
  <2> QED
    BY <1>1, <2>1, ReportOutlastsCosts DEF ReportInv
<1>3. CASE Cloud
  BY <1>1, <1>3, CostsDoNotFall, CloudLeavesReader, ReportOutlastsCosts
     DEF ReportInv
<1>4. CASE Report
  BY <1>1, <1>4, ReportBegins DEF ReportInv
<1>5. CASE CollectSome
  BY <1>1, <1>5, CollectCollects DEF ReportInv
<1>6. CASE Export
  BY <1>1, <1>6, ExportIsWhole DEF ReportInv
<1>7. CASE /\ Price
           /\ Keep(Head(found), cost[Head(found)]) /\ found' = Tail(found)
           /\ UNCHANGED <<pc, answer, pending>>
  <2>1. /\ pc = "collect" /\ found # <<>> /\ UNCHANGED <<cost, low, gone>>
    BY <1>7 DEF Price, Asked, gnocchi
  <2> QED
    BY <1>1, <1>7, <2>1, PriceCounts DEF ReportInv
<1>8. CASE AskBills \/ NextPage \/ Summary
  <2>1. pc' # "collect" /\ answer' # "report"
    BY <1>8 DEF AskBills, Bills, NextPage, Search, Summary, Request
  <2> QED
    BY <1>1, <2>1 DEF ReportInv, Collected, ReportIsWhole
<1>9. CASE Price /\ Fail("failed")
  BY <1>1, <1>9 DEF Fail, Reply, ReportInv, Collected, ReportIsWhole
<1>10. CASE /\ Working /\ ~CollectSome /\ ~Export /\ ~Price
  <2>1. pc # "idle" /\ answer = "none"
    BY <1>1, <1>10, WorkingWasBusy DEF CostInv, Unanswered
  <2>2. pc' # "collect" /\ answer' # "report"
    BY <1>10, <2>1 DEF Working, Weigh, Paginate, FailToAdd, FailToCollect,
                       AddSome, Add, AddGeneric, Fail, Reply
  <2> QED
    BY <1>1, <2>2 DEF ReportInv, Collected, ReportIsWhole
<1>11. Price => \/ Fail("failed")
                \/ /\ Keep(Head(found), cost[Head(found)]) /\ found' = Tail(found)
                   /\ UNCHANGED <<pc, answer, pending>>
  BY DEF Price
<1>12. Reader => \/ AskBills \/ NextPage \/ Summary \/ Report
                 \/ CollectSome \/ Export \/ Price
                 \/ Working /\ ~CollectSome /\ ~Export /\ ~Price
  BY ReaderAsksOrWorks
<1> QED
  BY <1>2, <1>3, <1>4, <1>5, <1>6, <1>7, <1>8, <1>9, <1>10, <1>11, <1>12,
     CloudOrReader

(* A report that is delivered lists every resource once, with all that had *)
(* a cost when it was asked for and was not deleted meanwhile, at a price  *)
(* between its cost then and its cost now, however many queries it took.   *)
THEOREM ReportsAreWhole == Spec => []ReportIsWhole
<1>1. Init => ReportInv
  BY CostInit DEF Init, ReportInv, Collected, ReportIsWhole
<1>2. ReportInv /\ [Next]_vars => ReportInv'
  BY ReportStep
<1>3. ReportInv => ReportIsWhole
  BY DEF ReportInv
<1> QED
  BY <1>1, <1>2, <1>3, PTL DEF Spec

-----------------------------------------------------------------------------
(* A walk through bills.                                                   *)

GoneIsGone == gone \cap (ToSet(resources) \cup fresh) = {}

(* What comes, goes and changes on the way of a reader.                    *)
GrowsOlder ==
  /\ fresh' \subseteq fresh /\ gone \subseteq gone'
  /\ touched \subseteq touched' /\ moved \subseteq moved'

NoneVanishes ==
  /\ \A x \in ToSet(resources) : x \in ToSet(resources') \/ x \in gone'
  /\ \A x \in ToSet(resources') : x \in ToSet(resources) \/ x \in fresh

(* Only what is new or updated comes behind anything else.                 *)
MovesBack ==
  /\ \A x, y \in Ids : Before(resources', x, y) =>
       Before(resources, x, y) \/ y \in fresh \/ y \in touched' \cap moved'
  /\ \A x, y \in ToSet(resources') : Before(resources, x, y) =>
       Before(resources', x, y) \/ x \in touched' \cap moved'

LEMMA CreateMoves ==
  ASSUME TypeOK, GoneIsGone, NEW r \in Ids, Create(r)
  PROVE  GrowsOlder /\ NoneVanishes /\ GoneIsGone' /\ MovesBack
<1>1. /\ r \in fresh /\ fresh' = fresh \ {r} /\ resources' = Append(resources, r)
      /\ UNCHANGED <<gone, touched, moved>>
  BY DEF Create, walk
<1>2. r \notin ToSet(resources)
  BY <1>1 DEF TypeOK
<1>3. /\ ToSet(resources') = ToSet(resources) \cup {r}
      /\ \A x, y : Before(resources', x, y) <=>
                    \/ Before(resources, x, y)
                    \/ x \in ToSet(resources) /\ y = r
  BY <1>1, <1>2, Appended
<1>4. GrowsOlder /\ NoneVanishes
  BY <1>1, <1>3 DEF GrowsOlder, NoneVanishes
<1>5. GoneIsGone'
  BY <1>1, <1>3 DEF GoneIsGone
<1>6. MovesBack
  BY <1>1, <1>3 DEF MovesBack
<1> QED
  BY <1>4, <1>5, <1>6

LEMMA TouchMoves ==
  ASSUME TypeOK, GoneIsGone, NEW r \in Ids, Touch(r)
  PROVE  /\ GrowsOlder /\ NoneVanishes /\ GoneIsGone'
         /\ service # "none" => MovesBack
<1>1. /\ r \in ToSet(resources) /\ UNCHANGED <<fresh, gone>>
      /\ resources' = Append(Chosen(resources, Ids \ {r}), r)
      /\ touched \subseteq touched' /\ moved \subseteq moved'
      /\ service # "none" => r \in touched' \cap moved'
  BY DEF Touch
<1>2. /\ ToSet(resources') = ToSet(resources)
      /\ \A x, y : Before(resources', x, y) <=>
                    \/ Before(resources, x, y) /\ x # r /\ y # r
                    \/ x \in ToSet(resources) \ {r} /\ y = r
  BY <1>1, Moved
<1>3. GrowsOlder /\ NoneVanishes
  BY <1>1, <1>2 DEF GrowsOlder, NoneVanishes
<1>4. GoneIsGone'
  BY <1>1, <1>2 DEF GoneIsGone
<1>5. ASSUME service # "none" PROVE MovesBack
  <2>1. ASSUME NEW x \in Ids, NEW y \in Ids, Before(resources', x, y)
        PROVE  Before(resources, x, y) \/ y \in touched' \cap moved'
    <3>1. Before(resources, x, y) \/ y = r
      BY <1>2, <2>1
    <3> QED
      BY <1>1, <1>5, <3>1
  <2>2. ASSUME NEW x \in ToSet(resources'), NEW y \in ToSet(resources'),
               Before(resources, x, y), x # r
        PROVE  Before(resources', x, y)
    BY <1>2, <2>2
  <2> QED
    BY <1>1, <1>5, <2>1, <2>2 DEF MovesBack
<1> QED
  BY <1>3, <1>4, <1>5

LEMMA DeleteMoves ==
  ASSUME TypeOK, GoneIsGone, NEW r \in Ids, Delete(r)
  PROVE  GrowsOlder /\ NoneVanishes /\ GoneIsGone' /\ MovesBack
<1>1. /\ r \in ToSet(resources) /\ UNCHANGED <<fresh, touched, moved>>
      /\ resources' = Chosen(resources, Ids \ {r}) /\ gone' = gone \cup {r}
  BY DEF Delete, walk
<1>2. r \notin fresh
  BY <1>1 DEF TypeOK
<1>3. /\ ToSet(resources') = ToSet(resources) \ {r}
      /\ \A x, y : Before(resources', x, y) <=>
                    Before(resources, x, y) /\ x # r /\ y # r
  BY <1>1, TakenOut
<1>4. GrowsOlder /\ NoneVanishes
  BY <1>1, <1>3 DEF GrowsOlder, NoneVanishes
<1>5. GoneIsGone'
  BY <1>1, <1>2, <1>3 DEF GoneIsGone
<1>6. MovesBack
  BY <1>3 DEF MovesBack
<1> QED
  BY <1>4, <1>5, <1>6

LEMMA CloudMoves ==
  ASSUME TypeOK, GoneIsGone, Cloud
  PROVE  /\ GrowsOlder /\ NoneVanishes /\ GoneIsGone'
         /\ service # "none" => MovesBack
<1>1. PICK r \in Ids :
        Create(r) \/ Touch(r) \/ Delete(r) \/ Measure(r) \/ Charge(r)
  BY DEF Cloud
<1>2. CASE Measure(r) \/ Charge(r)
  <2>1. UNCHANGED <<resources, fresh, gone, touched, moved>>
    BY <1>2 DEF Measure, Charge, walk
  <2> QED
    BY <2>1 DEF GrowsOlder, NoneVanishes, GoneIsGone, MovesBack
<1> QED
  BY <1>1, <1>2, CreateMoves, TouchMoves, DeleteMoves

(* While the bills of a search are looked at: what has been found is no    *)
(* news; before the marker is only what was shown or dropped; before any   *)
(* resource found that stands where it was, there is only what comes before*)
(* it on the list, too, or was dropped.                                    *)
NothingListedIsFresh == ToSet(Listed) \cap fresh = {}

MarkerWasShown == IF marker = NoId THEN seen = {} ELSE marker \in seen

PassedByMarker ==
  ~lost => \A x \in Ids : Before(Listed, x, marker) => x \in seen \cup passed

NoneLeftOut ==
  \A y \in ToSet(Listed) \ (touched \cup gone) :
    /\ y \in ToSet(resources)
    /\ \A x \in OfKind(Kind[service]) :
         Before(resources, x, y) => x \in passed \/ Before(Listed, x, y)

(* What has been shown and not been updated since the walk began comes     *)
(* before all that is behind the marker, and is not listed there.          *)
ListedInOrder ==
  \A x \in ToSet(resources) \ touched, y \in ToSet(resources) :
    Before(Listed, x, y) => Before(resources, x, y)

ShownComeFirst ==
  \A x \in ToSet(resources) \cap (seen \ moved), y \in ToSet(resources) :
    Before(Listed, marker, y) => Before(resources, x, y)

ShownIsNotListed ==
  \A y \in Ids : Before(Listed, marker, y) => y \notin seen \ moved

WalkListed ==
  /\ Injective(Listed) /\ NothingListedIsFresh /\ MarkerWasShown
  /\ PassedByMarker /\ NoneLeftOut
  /\ ListedInOrder /\ ShownComeFirst /\ ShownIsNotListed

(* Between two pages: nothing before the marker is left out, and nothing   *)
(* shown is behind it.                                                     *)
PassedNone ==
  page.marker \notin touched \cup gone =>
    /\ page.marker \in ToSet(resources)
    /\ ~lost => \A x \in OfKind(Kind[service]) :
         Before(resources, x, page.marker) => x \in seen \cup passed

ShownUpToMarker ==
  \A x \in ToSet(resources) \cap (seen \ moved) :
    \/ x = page.marker
    \/ page.marker \in ToSet(resources) => Before(resources, x, page.marker)

PageHolds == page.marker \in seen /\ PassedNone /\ ShownUpToMarker

WalkInv ==
  /\ TypeOK /\ NoPageYet /\ GoneIsGone /\ seen \cap fresh = {}
  /\ pc = "weigh" => service \in Names /\ WalkListed
  /\ page.next => service \in Names /\ PageHolds

(* Whatever gnocchi does, a walk goes on as it was.                        *)
LEMMA CloudKeepsList ==
  ASSUME TypeOK, TypeOK', WalkListed, service # "none", Cloud,
         GrowsOlder, NoneVanishes, MovesBack, seen \cap fresh = {}
  PROVE  WalkListed'
<1>1. UNCHANGED <<reading, seen, passed, lost>>
  BY CloudLeavesReader
<1>2. UNCHANGED <<Listed, marker, service, seen, passed, lost>>
  BY <1>1 DEF reading, arguments, Listed, KeptIds, IdsOf
<1>3. Listed \in Seq(Ids) /\ ToSet(resources) \subseteq Ids
  BY ListedIsSeq, ResourcesAreIds
<1>4. \A x, y \in Ids : Before(Listed, x, y) => x \in ToSet(Listed) /\ y \in ToSet(Listed)
  BY <1>3, OrderIsTotal DEF WalkListed
<1>5. ToSet(resources') \subseteq Ids
  BY <1>3 DEF NoneVanishes, TypeOK
<1>6. ToSet(Listed) \subseteq Ids
  BY <1>3, LenProperties, ElementOfSeq DEF ToSet
<1>7. NothingListedIsFresh'
  BY <1>2 DEF WalkListed, NothingListedIsFresh, GrowsOlder
<1>8. MarkerWasShown' /\ PassedByMarker'
  BY <1>2 DEF WalkListed, MarkerWasShown, PassedByMarker
<1>9. NoneLeftOut'
  <2> SUFFICES ASSUME NEW y \in ToSet(Listed) \ (touched' \cup gone')
               PROVE  /\ y \in ToSet(resources')
                      /\ \A x \in OfKind(Kind[service]) :
                           Before(resources', x, y)
                             => x \in passed \/ Before(Listed, x, y)
    BY <1>2 DEF NoneLeftOut
  <2>1. /\ y \in ToSet(resources) /\ y \notin fresh /\ y \in Ids
        /\ \A x \in OfKind(Kind[service]) :
             Before(resources, x, y) => x \in passed \/ Before(Listed, x, y)
    BY <1>3 DEF WalkListed, NoneLeftOut, NothingListedIsFresh, GrowsOlder
  <2>2. y \in ToSet(resources')
    BY <2>1 DEF NoneVanishes
  <2>3. ASSUME NEW x \in OfKind(Kind[service]), Before(resources', x, y)
        PROVE  x \in passed \/ Before(Listed, x, y)
    <3>1. x \in Ids
      BY DEF OfKind
    <3>2. Before(resources, x, y)
      BY <2>1, <2>3, <3>1 DEF MovesBack
    <3> QED
      BY <2>1, <3>2
  <2> QED
    BY <2>2, <2>3
<1>10. ListedInOrder'
  <2> SUFFICES ASSUME NEW x \in ToSet(resources') \ touched',
                      NEW y \in ToSet(resources'), Before(Listed, x, y)
               PROVE  Before(resources', x, y)
    BY <1>2 DEF ListedInOrder
  <2>1. x \in ToSet(Listed) /\ y \in ToSet(Listed)
    BY <1>4, <1>5
  <2>2. x \in ToSet(resources) \ touched /\ y \in ToSet(resources)
    BY <2>1 DEF WalkListed, NothingListedIsFresh, NoneVanishes, GrowsOlder
  <2>3. Before(resources, x, y)
    BY <2>2 DEF WalkListed, ListedInOrder
  <2> QED
    BY <2>3 DEF MovesBack
<1>11. ShownComeFirst'
  <2> SUFFICES ASSUME NEW x \in ToSet(resources') \cap (seen \ moved'),
                      NEW y \in ToSet(resources'), Before(Listed, marker, y)
               PROVE  Before(resources', x, y)
    BY <1>2 DEF ShownComeFirst
  <2>1. y \in ToSet(Listed)
    BY <1>3, OrderIsTotal DEF WalkListed
  <2>2. y \in ToSet(resources) /\ x \in ToSet(resources) \cap (seen \ moved)
    BY <2>1 DEF WalkListed, NothingListedIsFresh, NoneVanishes, GrowsOlder
  <2>3. Before(resources, x, y)
    BY <2>2 DEF WalkListed, ShownComeFirst
  <2> QED
    BY <2>3 DEF MovesBack
<1>12. ShownIsNotListed'
  BY <1>2 DEF WalkListed, ShownIsNotListed, GrowsOlder
<1> QED
  BY <1>2, <1>7, <1>8, <1>9, <1>10, <1>11, <1>12 DEF WalkListed

LEMMA CloudKeepsPage ==
  ASSUME TypeOK, PageHolds, service # "none", Cloud,
         GrowsOlder, NoneVanishes, MovesBack, seen \cap fresh = {}
  PROVE  PageHolds'
<1>1. UNCHANGED <<reading, seen, passed, lost>>
  BY CloudLeavesReader
<1>2. UNCHANGED <<page, service, seen, passed, lost>>
  BY <1>1 DEF reading, arguments
<1> DEFINE m == page.marker
<1>3. m \in seen /\ m \notin fresh /\ m \in Ids
  BY DEF PageHolds, TypeOK
<1>4. PassedNone'
  <2> SUFFICES ASSUME m \notin touched' \cup gone'
               PROVE  /\ m \in ToSet(resources')
                      /\ ~lost => \A x \in OfKind(Kind[service]) :
                           Before(resources', x, m) => x \in seen \cup passed
    BY <1>2 DEF PassedNone
  <2>1. /\ m \in ToSet(resources)
        /\ ~lost => \A x \in OfKind(Kind[service]) :
             Before(resources, x, m) => x \in seen \cup passed
    BY DEF PageHolds, PassedNone, GrowsOlder
  <2>2. m \in ToSet(resources')
    BY <2>1 DEF NoneVanishes
  <2>3. ASSUME ~lost, NEW x \in OfKind(Kind[service]), Before(resources', x, m)
        PROVE  x \in seen \cup passed
    <3>1. x \in Ids
      BY DEF OfKind
    <3>2. Before(resources, x, m)
      BY <1>3, <2>3, <3>1 DEF MovesBack
    <3> QED
      BY <2>1, <2>3, <3>2
  <2> QED
    BY <2>2, <2>3
<1>5. ShownUpToMarker'
  <2> SUFFICES ASSUME NEW x \in ToSet(resources') \cap (seen \ moved'),
                      x # m, m \in ToSet(resources')
               PROVE  Before(resources', x, m)
    BY <1>2 DEF ShownUpToMarker
  <2>1. m \in ToSet(resources) /\ x \in ToSet(resources) \cap (seen \ moved)
    BY <1>3 DEF NoneVanishes, GrowsOlder
  <2>2. Before(resources, x, m)
    BY <2>1 DEF PageHolds, ShownUpToMarker
  <2> QED
    BY <2>2 DEF MovesBack
<1> QED
  BY <1>2, <1>3, <1>4, <1>5 DEF PageHolds

LEMMA CloudWalks == WalkInv /\ Cloud => WalkInv'
<1> SUFFICES ASSUME WalkInv, Cloud PROVE WalkInv'
  OBVIOUS
<1>1. TypeOK /\ TypeOK' /\ NoPageYet /\ NoPageYet' /\ GoneIsGone
  BY NextTypes, NoPageComesEarly, CloudOrReader DEF WalkInv
<1>2. /\ GrowsOlder /\ NoneVanishes /\ GoneIsGone'
      /\ service # "none" => MovesBack
  BY <1>1, CloudMoves
<1>3. UNCHANGED <<pc, page, service, seen>>
  BY CloudLeavesReader DEF reading, arguments
<1>4. seen' \cap fresh' = {}
  BY <1>2, <1>3 DEF WalkInv, GrowsOlder
<1>5. service \in Names => service # "none"
  BY BillsAssumption
<1>6. pc' = "weigh" => service' \in Names /\ WalkListed'
  BY <1>1, <1>2, <1>3, <1>5, CloudKeepsList DEF WalkInv
<1>7. page'.next => service' \in Names /\ PageHolds'
  BY <1>1, <1>2, <1>3, <1>5, CloudKeepsPage DEF WalkInv
<1> QED
  BY <1>1, <1>2, <1>4, <1>6, <1>7 DEF WalkInv

(* A search lists the resources of a type in their order.                  *)
LEMMA SearchLists ==
  ASSUME TypeOK, NEW s, NEW n, NEW m, Search(s, n, m)
  PROVE  /\ Listed' \in Seq(Ids) /\ Injective(Listed')
         /\ \A x, y : Before(Listed', x, y) =>
              Before(resources, x, y) /\ x \in OfKind(Kind[s])
         /\ NothingListedIsFresh' /\ NoneLeftOut' /\ ListedInOrder'
<1> DEFINE all == Chosen(resources, OfKind(Kind[s]))
<1>1. /\ kept' = <<>> /\ found' = all /\ UNCHANGED <<resources, fresh>>
      /\ service' = s /\ touched' = {} /\ gone' = {}
  BY DEF Search, Request, gnocchi
<1>2. resources \in Seq(Ids) /\ Injective(resources)
  BY DEF TypeOK
<1>3. /\ all \in Seq(Ids) /\ Injective(all)
      /\ ToSet(all) = ToSet(resources) \cap OfKind(Kind[s])
      /\ \A x, y : Before(all, x, y) => Before(resources, x, y)
      /\ \A x, y \in OfKind(Kind[s]) : Before(resources, x, y) => Before(all, x, y)
  BY <1>2, ChosenIs
<1> HIDE DEF all
<1>4. Listed' = all
  BY <1>1, <1>3, NothingListed, ConcatEmptySeq DEF Listed, KeptIds
<1>5. ASSUME NEW x, NEW y, Before(all, x, y)
      PROVE  Before(resources, x, y) /\ x \in OfKind(Kind[s])
  <2>1. x \in ToSet(all)
    BY <1>3, <1>5, OrderIsTotal
  <2> QED
    BY <1>3, <1>5, <2>1
<1>6. NothingListedIsFresh'
  BY <1>1, <1>3, <1>4 DEF NothingListedIsFresh, TypeOK
<1>7. NoneLeftOut'
  BY <1>1, <1>3, <1>4 DEF NoneLeftOut
<1>8. ListedInOrder'
  BY <1>1, <1>3, <1>4 DEF ListedInOrder
<1> QED
  BY <1>3, <1>4, <1>5, <1>6, <1>7, <1>8

LEMMA BillsWalk == WalkInv /\ AskBills => WalkInv'
<1> SUFFICES ASSUME WalkInv, AskBills PROVE WalkInv'
  OBVIOUS
<1>1. PICK s \in Names, n \in Limits : Bills(s, n)
  BY DEF AskBills
<1>2. Search(s, n, NoId)
  BY <1>1 DEF Bills
<1>3. /\ TypeOK' /\ NoPageYet' /\ TypeOK
  BY NextTypes, NoPageComesEarly, CloudOrReader DEF Reader, WalkInv
<1>4. /\ service' = s /\ marker' = NoId /\ gone' = {} /\ page' = NoPage
      /\ UNCHANGED <<resources, fresh>> /\ seen' = {}
  BY <1>1 DEF Bills, Search, Request, gnocchi
<1>5. /\ Listed' \in Seq(Ids) /\ Injective(Listed')
      /\ NothingListedIsFresh' /\ NoneLeftOut' /\ ListedInOrder'
  BY <1>2, <1>3, SearchLists
<1>6. \A x : ~Before(Listed', x, NoId) /\ ~Before(Listed', NoId, x)
  <2>1. NoId \notin ToSet(Listed')
    BY <1>5, LenProperties, ElementOfSeq, BillsAssumption DEF ToSet
  <2> QED
    BY <1>5, <2>1, OrderIsTotal
<1>7. /\ MarkerWasShown' /\ PassedByMarker' /\ ShownComeFirst'
      /\ ShownIsNotListed'
  BY <1>4, <1>6
     DEF MarkerWasShown, PassedByMarker, ShownComeFirst, ShownIsNotListed
<1>8. WalkListed'
  BY <1>5, <1>7 DEF WalkListed
<1>9. GoneIsGone'
  BY <1>4 DEF GoneIsGone
<1> QED
  BY <1>3, <1>4, <1>8, <1>9 DEF WalkInv, NoPage

LEMMA NextPageWalks == WalkInv /\ NextPage => WalkInv'
<1> SUFFICES ASSUME WalkInv, NextPage PROVE WalkInv'
  OBVIOUS
<1> DEFINE m == page.marker
<1>1. Search(service, limit, m) /\ page.next
  BY DEF NextPage
<1>2. service \in Names /\ PageHolds
  BY <1>1 DEF WalkInv
<1>3. TypeOK' /\ NoPageYet' /\ TypeOK
  BY NextTypes, NoPageComesEarly, CloudOrReader DEF Reader, WalkInv
<1>4. /\ UNCHANGED <<service, resources, fresh, seen, passed, moved>>
      /\ marker' = m /\ gone' = {} /\ page' = NoPage
      /\ lost' = (lost \/ m \in touched)
  BY <1>1 DEF NextPage, Search, Request, gnocchi
<1>5. /\ Listed' \in Seq(Ids) /\ Injective(Listed')
      /\ \A x, y : Before(Listed', x, y) =>
           Before(resources, x, y) /\ x \in OfKind(Kind[service])
      /\ NothingListedIsFresh' /\ NoneLeftOut' /\ ListedInOrder'
  BY <1>1, <1>3, SearchLists
<1>6. m \in seen /\ m # NoId
  BY <1>2, <1>3, BillsAssumption DEF PageHolds, TypeOK
<1>7. /\ resources \in Seq(Ids) /\ Injective(resources)
      /\ \A x, y : Before(resources, x, y) =>
           x \in ToSet(resources) /\ y \in ToSet(resources) /\ x # y
                /\ ~Before(resources, y, x)
      /\ \A x, y, z : Before(resources, x, y) /\ Before(resources, y, z)
                        => Before(resources, x, z)
  BY <1>3, OrderIsTotal DEF TypeOK
<1>8. PassedByMarker'
  <2> SUFFICES ASSUME ~lost', NEW x \in Ids, Before(Listed', x, m)
               PROVE  x \in seen \cup passed
    BY <1>4 DEF PassedByMarker
  <2>1. Before(resources, x, m) /\ x \in OfKind(Kind[service])
    BY <1>5
  <2>2. m \in ToSet(resources)
    BY <1>7, <2>1
  <2>3. m \notin gone /\ m \notin touched /\ ~lost
    BY <1>4, <2>2 DEF WalkInv, GoneIsGone
  <2> QED
    BY <1>2, <2>1, <2>3 DEF PageHolds, PassedNone
<1>9. ShownComeFirst'
  <2> SUFFICES ASSUME NEW x \in ToSet(resources) \cap (seen \ moved),
                      NEW y \in ToSet(resources), Before(Listed', m, y)
               PROVE  Before(resources, x, y)
    BY <1>4 DEF ShownComeFirst
  <2>1. Before(resources, m, y)
    BY <1>5
  <2>2. m \in ToSet(resources)
    BY <1>7, <2>1
  <2>3. x = m \/ Before(resources, x, m)
    BY <1>2, <2>2 DEF PageHolds, ShownUpToMarker
  <2> QED
    BY <1>7, <2>1, <2>3
<1>10. ShownIsNotListed'
  <2> SUFFICES ASSUME NEW y \in Ids, Before(Listed', m, y), y \in seen \ moved
               PROVE  FALSE
    BY <1>4 DEF ShownIsNotListed
  <2>1. Before(resources, m, y)
    BY <1>5
  <2>2. m \in ToSet(resources) /\ y \in ToSet(resources) /\ y # m
    BY <1>7, <2>1
  <2>3. Before(resources, y, m)
    BY <1>2, <2>2 DEF PageHolds, ShownUpToMarker
  <2> QED
    BY <1>7, <2>1, <2>3
<1>11. MarkerWasShown'
  BY <1>4, <1>6 DEF MarkerWasShown
<1>12. WalkListed'
  BY <1>5, <1>8, <1>9, <1>10, <1>11 DEF WalkListed
<1>13. GoneIsGone' /\ seen' \cap fresh' = {}
  BY <1>4 DEF GoneIsGone, WalkInv
<1> QED
  BY <1>2, <1>3, <1>4, <1>12, <1>13 DEF WalkInv, NoPage

(* A list of which one is dropped.                                         *)
LEMMA DroppedOrder ==
  ASSUME NEW X, NEW p \in Seq(X), NEW q \in Seq(X), q # <<>>, Injective(p \o q)
  PROVE  LET new == p \o Tail(q) IN
         /\ new \in Seq(X) /\ Injective(new)
         /\ ToSet(new) = ToSet(p \o q) \ {Head(q)}
         /\ \A x, y : Before(new, x, y) => Before(p \o q, x, y)
         /\ \A x, y : Before(p \o q, x, y) =>
              Before(new, x, y) \/ x = Head(q) \/ y = Head(q)
<1> DEFINE old == p \o q
           t == Tail(q)
           h == Head(q)
           new == p \o t
<1>1. /\ h \in X /\ t \in Seq(X) /\ ToSet(q) = {h} \cup ToSet(t)
      /\ \A x, y : Before(q, x, y) <=> Before(t, x, y) \/ (x = h /\ y \in ToSet(t))
  BY TailOrder
<1>2. /\ old \in Seq(X) /\ ToSet(old) = ToSet(p) \cup ToSet(q)
      /\ \A x, y : Before(old, x, y) <=>
                    \/ Before(p, x, y) \/ Before(q, x, y)
                    \/ x \in ToSet(p) /\ y \in ToSet(q)
  BY ConcatOrder
<1> HIDE DEF t, h
<1>3. /\ new \in Seq(X) /\ ToSet(new) = ToSet(p) \cup ToSet(t)
      /\ \A x, y : Before(new, x, y) <=>
                    \/ Before(p, x, y) \/ Before(t, x, y)
                    \/ x \in ToSet(p) /\ y \in ToSet(t)
  BY <1>1, ConcatOrder
<1>4. \A x : ~Before(old, x, x)
  BY <1>2, InjectiveOrder
<1> HIDE DEF old, new
<1>5. \A x, y : Before(new, x, y) => Before(old, x, y)
  BY <1>1, <1>2, <1>3
<1>6. \A x : ~Before(new, x, x)
  BY <1>4, <1>5
<1>7. Injective(new)
  BY <1>3, <1>6, InjectiveOrder
<1>8. h \notin ToSet(p) /\ h \notin ToSet(t)
  <2>1. ASSUME h \in ToSet(p) PROVE FALSE
    BY <1>1, <1>2, <1>4, <2>1
  <2>2. ASSUME h \in ToSet(t) PROVE FALSE
    BY <1>1, <1>2, <1>4, <2>2
  <2> QED
    BY <2>1, <2>2
<1>9. ToSet(new) = ToSet(old) \ {h}
  BY <1>1, <1>2, <1>3, <1>8
<1>10. ASSUME NEW x, NEW y, Before(old, x, y), x # h, y # h
       PROVE  Before(new, x, y)
  BY <1>1, <1>2, <1>3, <1>10
<1> QED
  BY <1>3, <1>5, <1>7, <1>9, <1>10 DEF old, new, h, t

LEMMA DropKeepsList ==
  ASSUME TypeOK, WalkListed, found # <<>>,
         passed' = passed \cup {Head(found)}, found' = Tail(found),
         UNCHANGED <<gnocchi, arguments, kept, gone, seen, touched, moved, lost>>
  PROVE  WalkListed'
<1> DEFINE h == Head(found)
           new == KeptIds \o Tail(found)
<1>1. /\ UNCHANGED <<resources, fresh, marker, service, kept, gone>>
      /\ UNCHANGED <<seen, touched, moved, lost>>
  BY DEF gnocchi, arguments
<1>2. Listed' = new
  BY <1>1 DEF Listed, KeptIds
<1>3. Listed \in Seq(Ids) /\ ToSet(resources) \subseteq Ids
  BY ListedIsSeq, ResourcesAreIds
<1>4. /\ new \in Seq(Ids) /\ Injective(new) /\ ToSet(new) = ToSet(Listed) \ {h}
      /\ \A x, y : Before(new, x, y) => Before(Listed, x, y)
      /\ \A x, y : Before(Listed, x, y) => Before(new, x, y) \/ x = h \/ y = h
  BY ListedIsSeq, DroppedOrder DEF WalkListed, Listed
<1> HIDE DEF new, h
<1>5. NothingListedIsFresh' /\ MarkerWasShown' /\ PassedByMarker'
  BY <1>1, <1>2, <1>4
     DEF WalkListed, NothingListedIsFresh, MarkerWasShown, PassedByMarker
<1>6. NoneLeftOut'
  <2> SUFFICES ASSUME NEW y \in ToSet(new) \ (touched \cup gone)
               PROVE  /\ y \in ToSet(resources)
                      /\ \A x \in OfKind(Kind[service]) :
                           Before(resources, x, y)
                             => x \in passed' \/ Before(new, x, y)
    BY <1>1, <1>2 DEF NoneLeftOut
  <2>1. y # h /\ y \in ToSet(Listed) \ (touched \cup gone)
    BY <1>4
  <2>2. /\ y \in ToSet(resources)
        /\ \A x \in OfKind(Kind[service]) :
             Before(resources, x, y) => x \in passed \/ Before(Listed, x, y)
    BY <2>1 DEF WalkListed, NoneLeftOut
  <2>3. ASSUME NEW x \in OfKind(Kind[service]), Before(resources, x, y)
        PROVE  x \in passed' \/ Before(new, x, y)
    <3>1. x \in passed \/ Before(Listed, x, y)
      BY <2>2, <2>3
    <3>2. passed' = passed \cup {h}
      BY DEF h
    <3> QED
      BY <1>4, <2>1, <3>1, <3>2
  <2> QED
    BY <2>2, <2>3
<1>7. ListedInOrder' /\ ShownComeFirst' /\ ShownIsNotListed'
  <2>1. ListedInOrder'
    BY <1>1, <1>2, <1>4 DEF WalkListed, ListedInOrder
  <2>2. ShownComeFirst'
    BY <1>1, <1>2, <1>4 DEF WalkListed, ShownComeFirst
  <2>3. ShownIsNotListed'
    BY <1>1, <1>2, <1>4 DEF WalkListed, ShownIsNotListed
  <2> QED
    BY <2>1, <2>2, <2>3
<1> QED
  BY <1>2, <1>4, <1>5, <1>6, <1>7 DEF WalkListed

(* Where no bills are looked at and no page is out, there is no walk to    *)
(* keep.                                                                   *)
LEMMA NoWalkToKeep ==
  ASSUME WalkInv, Reader, pc' # "weigh", page' = NoPage,
         gone' \in {gone, {}}, seen' \in {seen, {}}
  PROVE  WalkInv'
<1>1. TypeOK' /\ NoPageYet'
  BY NextTypes, NoPageComesEarly, CloudOrReader DEF WalkInv
<1>2. UNCHANGED <<resources, fresh>>
  BY ReaderLeavesCloud DEF gnocchi
<1>3. GoneIsGone' /\ seen' \cap fresh' = {}
  BY <1>2 DEF WalkInv, GoneIsGone
<1>4. ~page'.next
  BY DEF NoPage
<1> QED
  BY <1>1, <1>3, <1>4 DEF WalkInv

LEMMA WeighWalks == WalkInv /\ Weigh => WalkInv'
<1> SUFFICES ASSUME WalkInv, Weigh PROVE WalkInv'
  OBVIOUS
<1> DEFINE h == Head(found)
<1>1. /\ TypeOK /\ TypeOK' /\ NoPageYet' /\ Reader
  BY NextTypes, NoPageComesEarly, CloudOrReader DEF Reader, WalkInv
<1>2. /\ pc = "weigh" /\ found # <<>> /\ UNCHANGED <<gnocchi, low, gone, page>>
      /\ page = NoPage
  BY DEF Weigh, Asked, WalkInv, NoPageYet
<1>3. service \in Names /\ WalkListed
  BY <1>2 DEF WalkInv
<1>4. CASE Fail("failed")
  BY <1>1, <1>2, <1>4, NoWalkToKeep DEF Fail, Reply, NoWalk
<1>5. ASSUME UNCHANGED <<pc, arguments, seen>>, WalkListed'
      PROVE  WalkInv'
  <2>1. service' \in Names /\ GoneIsGone' /\ seen' \cap fresh' = {}
    BY <1>2, <1>3, <1>5 DEF arguments, WalkInv, GoneIsGone, gnocchi
  <2> QED
    BY <1>1, <1>2, <1>5, <2>1 DEF WalkInv, NoPage
<1>6. CASE /\ Keep(h, cost[h]) \/ Keep(h, 0)
           /\ found' = Tail(found)
           /\ UNCHANGED <<pc, answer, arguments, pending, totals, walk>>
  <2>1. cost[h] \in 0 .. MaxCost /\ 0 \in 0 .. MaxCost
    BY <1>1, <1>2, HeadIsId, BillsAssumption DEF TypeOK
  <2>2. Listed' = Listed
    BY <1>1, <1>2, <1>6, <2>1, ListedStays
  <2>3. /\ UNCHANGED <<Listed, resources, fresh, marker, service, gone>>
        /\ UNCHANGED <<seen, passed, touched, moved, lost>>
    BY <1>2, <1>6, <2>2 DEF gnocchi, arguments, walk
  <2>4. WalkListed'
    BY <1>3, <2>3
       DEF WalkListed, NothingListedIsFresh, MarkerWasShown, PassedByMarker,
           NoneLeftOut, ListedInOrder, ShownComeFirst, ShownIsNotListed
  <2> QED
    BY <1>5, <1>6, <2>3, <2>4
<1>7. CASE /\ passed' = passed \cup {h}
           /\ found' = Tail(found)
           /\ UNCHANGED <<pc, answer, arguments, kept, pending, totals, faults,
                          seen, touched, moved, lost>>
  BY <1>1, <1>2, <1>3, <1>5, <1>7, DropKeepsList
<1> QED
  BY <1>4, <1>6, <1>7 DEF Weigh

(* A page of the walk.                                                     *)
ShownOn(p) == {o.id : o \in ToSet(p.orders)}

LEMMA PageTurns ==
  ASSUME WalkInv, Paginate, page'.next
  PROVE  /\ PageHolds' /\ ShownOn(page') \cap seen \subseteq moved
         /\ seen' = seen \cup ShownOn(page')
         /\ ShownOn(page') \subseteq ToSet(Listed)
<1> DEFINE K == Listed
           p == page'.marker
<1>1. /\ TypeOK /\ NoPageYet /\ pc = "weigh"
  BY DEF WalkInv, Paginate
<1>2. /\ limit > 0 /\ UNCHANGED <<arguments, found, kept>>
      /\ found = <<>>
      /\ seen' = seen \cup ShownOn(page')
      /\ passed' = IF marker = NoId THEN passed \cup {kept[1].id} ELSE passed
      /\ UNCHANGED <<touched, moved, lost>>
  BY <1>1, PaginateSlices DEF ShownOn
<1>3. PICK a \in 1 .. Len(kept) :
        /\ StartsAt(kept, marker, a)
        /\ a + limit < Len(kept) /\ a + limit \in 1 .. Len(kept)
        /\ page'.orders = SubSeq(kept, a + 1, a + limit)
        /\ p = kept[a + limit].id
  BY <1>1, PaginateSlices
<1>4. UNCHANGED <<resources, service, gone, marker>>
  BY <1>2 DEF Paginate, Asked, gnocchi, arguments
<1>5. WalkListed
  BY <1>1 DEF WalkInv
<1>6. limit \in Nat /\ kept \in Seq(Priced)
  BY <1>1, BillsAssumption DEF TypeOK
<1>7. /\ K \in Seq(Ids) /\ DOMAIN K = 1 .. Len(kept) /\ Len(kept) \in Nat
      /\ \A i \in 1 .. Len(kept) : K[i] = kept[i].id /\ K[i] \in Ids
  <2>1. /\ KeptIds \in Seq(Ids) /\ Len(KeptIds) = Len(kept) /\ Len(kept) \in Nat
        /\ \A i \in 1 .. Len(kept) : KeptIds[i] = kept[i].id
    BY <1>6, IdsOfRows DEF KeptIds
  <2>2. K = KeptIds
    BY <1>2, <2>1, ConcatEmptySeq DEF Listed
  <2> HIDE DEF K
  <2> QED
    BY <2>1, <2>2, LenProperties, ElementOfSeq
<1> HIDE DEF K, p
<1>8. Injective(K) /\ K = Listed
  BY <1>5 DEF WalkListed, K
<1> DEFINE n == a + limit
<1>9. n \in 1 .. Len(kept) /\ p = K[n] /\ a < n /\ a \in 1 .. Len(kept)
  BY <1>2, <1>3, <1>6, <1>7
<1>10. \A x : x \in ShownOn(page') <=> \E i \in a + 1 .. n : x = K[i]
  <2> DEFINE q == SubSeq(kept, a + 1, n)
  <2>1. \A i \in a + 1 .. n : i \in 1 .. Len(kept) /\ kept[i] \in Priced
    BY <1>6, <1>7, <1>9, ElementOfSeq
  <2>2. a + 1 \in Int /\ n \in Int /\ a + 1 <= n /\ n - (a + 1) + 1 = limit
    BY <1>6, <1>9
  <2>3. /\ q \in Seq(Priced) /\ Len(q) = limit
        /\ \A j \in 1 .. limit : q[j] = kept[a + 1 + j - 1]
    BY <2>1, <2>2, SubSeqProperties
  <2>4. DOMAIN q = 1 .. limit
    BY <2>3, LenProperties
  <2>5. page'.orders = q
    BY <1>3
  <2> HIDE DEF q
  <2>6. ASSUME NEW x, x \in ShownOn(page') PROVE \E i \in a + 1 .. n : x = K[i]
    <3>1. PICK j \in 1 .. limit : x = q[j].id
      BY <2>4, <2>5, <2>6 DEF ShownOn, ToSet
    <3>2. a + j \in a + 1 .. n /\ a + 1 + j - 1 = a + j
      BY <1>6, <1>9
    <3>3. q[j] = kept[a + j] /\ a + j \in 1 .. Len(kept)
      BY <2>1, <2>3, <3>2
    <3> QED
      BY <1>7, <3>1, <3>2, <3>3
  <2>7. ASSUME NEW i \in a + 1 .. n PROVE K[i] \in ShownOn(page')
    <3>1. i - a \in 1 .. limit /\ a + 1 + (i - a) - 1 = i
      BY <1>6, <1>9
    <3>2. q[i - a] = kept[i] /\ i \in 1 .. Len(kept)
      BY <2>1, <2>3, <3>1
    <3>3. q[i - a] \in ToSet(page'.orders)
      BY <2>4, <2>5, <3>1 DEF ToSet
    <3> QED
      BY <1>7, <3>2, <3>3 DEF ShownOn
  <2> QED
    BY <2>6, <2>7
<1> HIDE DEF n
<1>11. \A i, j \in 1 .. Len(kept) : i < j => Before(K, K[i], K[j])
  BY <1>7 DEF Before
<1>12. /\ marker = NoId => a = 1
       /\ marker # NoId => K[a] = marker
  BY <1>3, <1>7 DEF StartsAt
<1>13. p \in seen'
  <2>1. n \in a + 1 .. n
    BY <1>7, <1>9
  <2> QED
    BY <1>2, <1>9, <1>10, <2>1
<1>14. PassedNone'
  <2> SUFFICES ASSUME p \notin touched \cup gone
               PROVE  /\ p \in ToSet(resources)
                      /\ ~lost => \A x \in OfKind(Kind[service]) :
                           Before(resources, x, p) => x \in seen' \cup passed'
    BY <1>2, <1>4 DEF PassedNone, p
  <2>1. p \in ToSet(K)
    BY <1>7, <1>9 DEF ToSet
  <2>2. /\ p \in ToSet(resources)
        /\ \A x \in OfKind(Kind[service]) :
             Before(resources, x, p) => x \in passed \/ Before(K, x, p)
    BY <1>5, <1>8, <2>1 DEF WalkListed, NoneLeftOut
  <2>3. ASSUME ~lost, NEW x \in OfKind(Kind[service]), Before(K, x, p)
        PROVE  x \in seen' \cup passed'
    <3>1. PICK i \in DOMAIN K, j \in DOMAIN K : i < j /\ K[i] = x /\ K[j] = p
      BY <2>3 DEF Before
    <3>2. j = n
      BY <1>7, <1>8, <1>9, <3>1 DEF Injective
    <3>3. CASE i > a
      <4>1. i \in a + 1 .. n
        BY <1>7, <1>9, <3>1, <3>2, <3>3
      <4> QED
        BY <1>2, <1>10, <3>1, <4>1
    <3>4. CASE marker = NoId /\ ~(i > a)
      <4>1. i = 1
        BY <1>7, <1>9, <1>12, <3>1, <3>4
      <4> QED
        BY <1>2, <1>7, <3>1, <3>4, <4>1
    <3>5. CASE marker # NoId /\ i = a
      BY <1>2, <1>5, <1>12, <3>1, <3>5 DEF WalkListed, MarkerWasShown
    <3>6. CASE marker # NoId /\ i < a
      <4>1. Before(K, x, marker) /\ x \in Ids
        BY <1>7, <1>9, <1>11, <1>12, <3>1, <3>6
      <4>2. x \in seen \cup passed
        BY <1>5, <1>8, <2>3, <4>1 DEF WalkListed, PassedByMarker
      <4> QED
        BY <1>2, <3>6, <4>2
    <3>7. i > a \/ i = a \/ i < a
      BY <1>7, <1>9, <3>1
    <3>8. i < a => ~(i > a)
      BY <1>7, <1>9, <3>1
    <3> QED
      BY <3>3, <3>4, <3>5, <3>6, <3>7, <3>8
  <2>4. passed \subseteq passed'
    BY <1>2
  <2> QED
    BY <2>2, <2>3, <2>4
<1>15. ShownUpToMarker'
  <2> SUFFICES ASSUME NEW x \in ToSet(resources) \cap (seen' \ moved),
                      x # p, p \in ToSet(resources)
               PROVE  Before(resources, x, p)
    BY <1>2, <1>4 DEF ShownUpToMarker, p
  <2>1. x \notin touched
    BY <1>1 DEF TypeOK
  <2>2. CASE x \in ShownOn(page')
    <3>1. PICK i \in a + 1 .. n : x = K[i]
      BY <1>10, <2>2
    <3>2. i \in 1 .. Len(kept) /\ i < n
      BY <1>7, <1>9, <3>1
    <3>3. Before(K, x, p)
      BY <1>9, <1>11, <3>1, <3>2
    <3> QED
      BY <1>5, <1>8, <2>1, <3>3 DEF WalkListed, ListedInOrder
  <2>3. CASE x \in seen
    <3>1. marker # NoId
      BY <1>5, <2>3 DEF WalkListed, MarkerWasShown
    <3>2. Before(K, marker, p)
      BY <1>9, <1>11, <1>12, <3>1
    <3> QED
      BY <1>5, <1>8, <2>3, <3>2 DEF WalkListed, ShownComeFirst
  <2> QED
    BY <1>2, <2>2, <2>3
<1>16. ASSUME NEW x \in ShownOn(page') \cap seen PROVE x \in moved
  <2>1. PICK i \in a + 1 .. n : x = K[i]
    BY <1>10, <1>16
  <2>2. i \in 1 .. Len(kept) /\ a < i
    BY <1>7, <1>9, <2>1
  <2>3. marker # NoId
    BY <1>5, <1>16 DEF WalkListed, MarkerWasShown
  <2>4. Before(K, marker, x) /\ x \in Ids
    BY <1>7, <1>9, <1>11, <1>12, <2>1, <2>2, <2>3
  <2> QED
    BY <1>5, <1>8, <1>16, <2>4 DEF WalkListed, ShownIsNotListed
<1>17. ASSUME NEW x \in ShownOn(page') PROVE x \in ToSet(K)
  <2>1. PICK i \in a + 1 .. n : x = K[i]
    BY <1>10, <1>17
  <2>2. i \in DOMAIN K
    BY <1>7, <1>9, <2>1
  <2> QED
    BY <2>1, <2>2 DEF ToSet
<1> QED
  BY <1>2, <1>8, <1>13, <1>14, <1>15, <1>16, <1>17 DEF PageHolds, p

LEMMA PaginateWalks == WalkInv /\ Paginate => WalkInv'
<1> SUFFICES ASSUME WalkInv, Paginate PROVE WalkInv'
  OBVIOUS
<1>1. /\ TypeOK' /\ NoPageYet' /\ NoPageYet /\ Reader
  BY NextTypes, NoPageComesEarly, CloudOrReader DEF Reader, WalkInv
<1>2. pc = "weigh" /\ pc' = "idle" /\ UNCHANGED <<gnocchi, gone>>
  BY DEF Paginate, Reply, Fail, Asked
<1>3. CASE page'.next
  <2>1. PageHolds'
    BY <1>3, PageTurns
  <2>2. service' \in Names
    BY <1>1, <1>2, <1>3, PaginateSlices DEF WalkInv, arguments
  <2>3. GoneIsGone'
    BY <1>2 DEF WalkInv, GoneIsGone, gnocchi
  <2>4. seen' \cap fresh' = {}
    <3>1. seen' = seen \cup ShownOn(page') /\ ShownOn(page') \subseteq ToSet(Listed)
      BY <1>3, PageTurns
    <3>2. ToSet(Listed) \cap fresh = {} /\ seen \cap fresh = {}
      BY <1>2 DEF WalkInv, WalkListed, NothingListedIsFresh
    <3> QED
      BY <1>2, <3>1, <3>2 DEF gnocchi
  <2> QED
    BY <1>1, <1>2, <2>1, <2>2, <2>3, <2>4 DEF WalkInv
<1>4. CASE ~page'.next
  <2>1. seen' \in {seen, {}}
    BY <1>4 DEF Paginate, Fail, NoWalk
  <2>2. GoneIsGone' /\ seen' \cap fresh' = {}
    BY <1>2, <2>1 DEF WalkInv, GoneIsGone, gnocchi
  <2> QED
    BY <1>1, <1>2, <1>4, <2>2 DEF WalkInv
<1> QED
  BY <1>3, <1>4

LEMMA WalkStep == WalkInv /\ [Next]_vars => WalkInv'
<1> SUFFICES ASSUME WalkInv, [Next]_vars PROVE WalkInv'
  OBVIOUS
<1>1. CASE UNCHANGED vars
  <2>1. /\ UNCHANGED <<Listed, resources, fresh, marker, service, gone, page, pc>>
        /\ UNCHANGED <<seen, passed, touched, moved, lost>>
    BY <1>1 DEF vars, gnocchi, reading, arguments, walk, Listed, KeptIds, IdsOf
  <2>2. TypeOK' /\ NoPageYet'
    BY NextTypes, NoPageComesEarly DEF WalkInv
  <2>3. WalkListed => WalkListed'
    BY <2>1
       DEF WalkListed, NothingListedIsFresh, MarkerWasShown, PassedByMarker,
           NoneLeftOut, ListedInOrder, ShownComeFirst, ShownIsNotListed
  <2>4. PageHolds => PageHolds'
    BY <2>1 DEF PageHolds, PassedNone, ShownUpToMarker
  <2> QED
    BY <2>1, <2>2, <2>3, <2>4 DEF WalkInv, GoneIsGone
<1>2. CASE Cloud
  BY <1>2, CloudWalks
<1>3. CASE AskBills \/ NextPage \/ Weigh \/ Paginate
  BY <1>3, BillsWalk, NextPageWalks, WeighWalks, PaginateWalks
<1>4. CASE Summary \/ Report
  BY <1>4, NoWalkToKeep DEF Summary, Report, Request, NoWalk, Reader
<1>5. CASE Working /\ ~Weigh /\ ~Paginate
  <2>1. page' = NoPage /\ gone' = gone /\ Reader
    BY <1>5, WorkingWasBusy, OnlyPaginateTurnsPages, OnlyRequestsForget,
       ReaderAsksOrWorks DEF WalkInv, NoPageYet
  <2>2. pc' # "weigh" /\ seen' \in {seen, {}}
    BY <1>5 DEF Working, AddSome, Add, AddGeneric, FailToAdd, CollectSome,
                Collect, FailToCollect, Price, Export, Fail, NoWalk, Reply, walk
  <2> QED
    BY <2>1, <2>2, NoWalkToKeep
<1> QED
  BY <1>1, <1>2, <1>3, <1>4, <1>5, CloudOrReader, ReaderAsksOrWorks

LEMMA WalkInit == Init => WalkInv
<1> SUFFICES ASSUME Init PROVE WalkInv
  OBVIOUS
<1>1. TypeOK
  BY InitTypes
<1>2. /\ pc = "idle" /\ page = NoPage /\ gone = {} /\ seen = {}
  BY DEF Init
<1> QED
  BY <1>1, <1>2 DEF WalkInv, NoPageYet, GoneIsGone, NoPage

(* What precedes r in gnocchi.                                             *)
LEMMA PrecedingIs ==
  ASSUME TypeOK, NEW r \in ToSet(resources), NEW x \in Preceding(r)
  PROVE  Before(resources, x, r)
<1>1. DOMAIN resources = 1 .. Len(resources) /\ Len(resources) \in Nat
  BY LenProperties DEF TypeOK
<1> DEFINE at == CHOOSE i \in DOMAIN resources : resources[i] = r
<1>2. at \in DOMAIN resources /\ resources[at] = r
  BY DEF ToSet
<1>3. PICK i \in 1 .. at - 1 : x = resources[i]
  BY DEF Preceding
<1> HIDE DEF at
<1>4. i \in DOMAIN resources /\ i < at
  BY <1>1, <1>2
<1> QED
  BY <1>2, <1>3, <1>4 DEF Before

LEMMA WalkPassesOverNothing == WalkInv => NothingPassedOver
<1> SUFFICES ASSUME WalkInv, page.next, ~lost,
                    page.marker \notin touched \cup gone,
                    NEW x \in Preceding(page.marker) \cap Of(Kind[service])
             PROVE  x \in seen \cup passed
  BY DEF NothingPassedOver
<1>1. /\ page.marker \in ToSet(resources)
      /\ \A z \in OfKind(Kind[service]) :
           Before(resources, z, page.marker) => z \in seen \cup passed
  BY DEF WalkInv, PageHolds, PassedNone
<1>2. Before(resources, x, page.marker)
  BY <1>1, PrecedingIs DEF WalkInv
<1> QED
  BY <1>1, <1>2 DEF Of

(* Whatever is created, updated and deleted on the way, and however pages  *)
(* are cut, a client that follows the markers misses no bill of what stays *)
(* where it is, unless the marker itself was updated.                      *)
THEOREM WalksPassOverNothing == Spec => []NothingPassedOver
<1>1. Init => WalkInv
  BY WalkInit
<1>2. WalkInv /\ [Next]_vars => WalkInv'
  BY WalkStep
<1>3. WalkInv => NothingPassedOver
  BY WalkPassesOverNothing
<1> QED
  BY <1>1, <1>2, <1>3, PTL DEF Spec

LEMMA PagesShowOnce == WalkInv /\ [Next]_vars => [ShownOnce]_vars
<1> SUFFICES ASSUME WalkInv, [Next]_vars, page'.next, ~page.next PROVE ShownOnce
  BY DEF ShownOnce
<1>1. ~(page' = page) /\ ~(page' = NoPage)
  BY DEF NoPage
<1>2. ~(Cloud \/ UNCHANGED vars)
  BY <1>1, CloudLeavesReader DEF vars, reading
<1>3. Working
  BY <1>1, <1>2, CloudOrReader, ReaderAsksOrWorks, AskingTakesPageBack
<1>4. Paginate
  BY <1>1, <1>3, OnlyPaginateTurnsPages
<1> QED
  BY <1>4, PageTurns DEF ShownOnce, ShownOn

(* A page with a next one shows nothing that the walk has shown before,    *)
(* but what was updated since the walk began.                              *)
THEOREM WalksShowNothingTwice == Spec => NothingShownTwice
<1>1. Init => WalkInv
  BY WalkInit
<1>2. WalkInv /\ [Next]_vars => WalkInv'
  BY WalkStep
<1>3. WalkInv /\ [Next]_vars => [ShownOnce]_vars
  BY PagesShowOnce
<1> QED
  BY <1>1, <1>2, <1>3, PTL DEF Spec, NothingShownTwice
=============================================================================
