--------------------------- MODULE DataInduction ---------------------------
(***************************************************************************)
(* Induction over data, in first-order form: what is claimed of every      *)
(* subset of a finite set, or of every number, is proved of one that could *)
(* be a least counterexample.  With it, lemmas about SumFunctionOnSet, a   *)
(* fold that is defined by recursion over subsets.                         *)
(***************************************************************************)
EXTENDS Integers, Functions, FiniteSetTheorems, TLAPS

-----------------------------------------------------------------------------
(* A collection of finite sets has a member with no smaller member in it:  *)
(* a counterexample to what is claimed of every subset can be taken least. *)
HasLeast(T) == \E x \in T : \A y \in T : y \subseteq x => y = x

LEMMA SetLeast ==
  ASSUME NEW T, T # {}, \A x \in T : IsFiniteSet(x)
  PROVE  HasLeast(T)
<1> DEFINE S == UNION T
<1>1. IsWellFoundedOn(StrictSubsetOrdering(S), FiniteSubsetsOf(S))
  BY FS_StrictSubsetOrderingWellFounded
<1>2. T \subseteq FiniteSubsetsOf(S)
  BY DEF FiniteSubsetsOf
<1>3. \E x \in T : \A y \in T : ~ (<<y, x>> \in StrictSubsetOrdering(S))
  BY <1>1, <1>2, WFMin
<1> QED
  BY <1>3 DEF StrictSubsetOrdering, HasLeast

(* So has a set of numbers.                                                *)
HasFirst(T) == \E m \in T : \A k \in T : m <= k

LEMMA NatLeast ==
  ASSUME NEW T, T \subseteq Nat, T # {}
  PROVE  HasFirst(T)
<1> DEFINE U == {1 .. n : n \in T}
<1>1. U # {} /\ \A x \in U : IsFiniteSet(x)
  <2>1. \A n \in T : IsFiniteSet(1 .. n)
    BY FS_Interval
  <2> QED
    BY <2>1
<1>2. HasLeast(U)
  <2> HIDE DEF U
  <2> QED
    BY <1>1, SetLeast
<1>3. PICK m \in T : \A k \in T : 1 .. k \subseteq 1 .. m => 1 .. k = 1 .. m
  <2>1. PICK x \in U : \A y \in U : y \subseteq x => y = x
    <3> HIDE DEF U
    <3> QED
      BY <1>2 DEF HasLeast
  <2>2. PICK m \in T : x = 1 .. m
    OBVIOUS
  <2>3. \A k \in T : 1 .. k \in U
    OBVIOUS
  <2> HIDE DEF U
  <2> QED
    BY <2>1, <2>2, <2>3
<1>4. ASSUME NEW k \in T, k < m PROVE FALSE
  <2>1. k \in Nat /\ m \in Nat
    OBVIOUS
  <2>2. 1 .. k \subseteq 1 .. m /\ m \in 1 .. m /\ m \notin 1 .. k
    BY <1>4, <2>1
  <2> QED
    BY <1>3, <2>2
<1>5. \A k \in T : m <= k
  BY <1>4
<1> QED
  BY <1>5 DEF HasFirst

-----------------------------------------------------------------------------
(* The element that the fold takes out of s.                               *)
Pick(s) == CHOOSE x \in s : TRUE

(* g adds up f over every subset of S, taking out one element at a time.   *)
Adds(g, f, S) ==
  \A s \in SUBSET S :
    g[s] = IF s = {} THEN 0 ELSE f[Pick(s)] + g[s \ {Pick(s)}]

(* It tells every one of these sums.                                       *)
LEMMA AddsOnce ==
  ASSUME NEW S, IsFiniteSet(S), NEW f, NEW g, NEW h,
         Adds(g, f, S), Adds(h, f, S)
  PROVE  \A s \in SUBSET S : g[s] = h[s]
<1> DEFINE T == {s \in SUBSET S : g[s] # h[s]}
<1> SUFFICES ASSUME T # {} PROVE FALSE
  OBVIOUS
<1>1. T # {} /\ \A s \in T : IsFiniteSet(s)
  BY FS_Subset
<1>2. PICK s \in T : \A t \in T : t \subseteq s => t = s
  <2> HIDE DEF T
  <2>1. HasLeast(T)
    BY <1>1, SetLeast
  <2> QED
    BY <2>1 DEF HasLeast
<1>3. s # {}
  BY DEF Adds
<1>4. Pick(s) \in s
  BY <1>3 DEF Pick
<1>5. s \ {Pick(s)} \in SUBSET S /\ s \ {Pick(s)} \notin T
  BY <1>2, <1>4
<1> QED
  BY <1>3, <1>5 DEF Adds

(* The fold's own recursion has a solution.                                *)
Recurs(g, f, S) == g = [s \in SUBSET S |->
                      IF s = {} THEN 0 ELSE f[Pick(s)] + g[s \ {Pick(s)}]]

LEMMA AddsExists ==
  ASSUME NEW S, IsFiniteSet(S), NEW f
  PROVE  \E g : Recurs(g, f, S)
<1> DEFINE T == {s \in SUBSET S : ~ \E g : Adds(g, f, s)}
<1>1. T = {}
  <2> SUFFICES ASSUME T # {} PROVE FALSE
    OBVIOUS
  <2>1. T # {} /\ \A s \in T : IsFiniteSet(s)
    BY FS_Subset
  <2>2. PICK s \in T : \A t \in T : t \subseteq s => t = s
    <3> HIDE DEF T
    <3>1. HasLeast(T)
      BY <2>1, SetLeast
    <3> QED
      BY <3>1 DEF HasLeast
  <2>3. IsFiniteSet(s) /\ s \subseteq S
    BY <2>1
  <2> DEFINE h(x) == CHOOSE g : Adds(g, f, s \ {x})
             out(t) == Pick(s \ t)
             G == [t \in SUBSET s |->
                     IF t = s
                     THEN IF s = {} THEN 0
                          ELSE f[Pick(s)] + h(Pick(s))[s \ {Pick(s)}]
                     ELSE h(out(t))[t]]
  <2>4. ASSUME NEW x \in s PROVE Adds(h(x), f, s \ {x})
    <3>1. s \ {x} \notin T
      BY <2>2
    <3>2. \E g : Adds(g, f, s \ {x})
      BY <3>1
    <3> QED
      BY <3>2
  <2> HIDE DEF h
  <2>5. ASSUME NEW x \in s, NEW y \in s, NEW t \in SUBSET (s \ {x}),
               t \in SUBSET (s \ {y})
        PROVE  h(x)[t] = h(y)[t]
    <3>1. IsFiniteSet(t)
      BY <2>3, FS_Subset
    <3>2. Adds(h(x), f, t) /\ Adds(h(y), f, t)
      BY <2>4, <2>5 DEF Adds
    <3>3. t \in SUBSET t
      OBVIOUS
    <3> QED
      BY <3>1, <3>2, <3>3, AddsOnce
  <2>6. \A t \in SUBSET s : t # s => out(t) \in s /\ t \in SUBSET (s \ {out(t)})
    BY DEF Pick
  <2>7. ASSUME NEW t \in SUBSET s
        PROVE  G[t] = IF t = {} THEN 0 ELSE f[Pick(t)] + G[t \ {Pick(t)}]
    <3> DEFINE y == Pick(t)
               r == t \ {y}
    <3>1. t # {} => y \in t /\ r # s /\ r \in SUBSET s
      BY DEF Pick
    <3>2. t # {} => G[r] = h(out(r))[r] /\ out(r) \in s /\ r \in SUBSET (s \ {out(r)})
      BY <2>6, <3>1
    <3>3. CASE t = s
      <4>1. t # {} => h(out(r))[r] = h(y)[r]
        BY <2>5, <3>1, <3>2, <3>3
      <4> QED
        BY <3>1, <3>2, <3>3, <4>1
    <3>4. CASE t # s
      <4>1. /\ out(t) \in s /\ t \in SUBSET (s \ {out(t)})
            /\ G[t] = h(out(t))[t]
        BY <2>6, <3>4
      <4>2. h(out(t))[t] = IF t = {} THEN 0 ELSE f[y] + h(out(t))[r]
        BY <2>4, <4>1 DEF Adds
      <4>3. t # {} => h(out(t))[r] = h(out(r))[r]
        <5>1. r \in SUBSET (s \ {out(t)})
          BY <4>1
        <5> QED
          BY <2>5, <3>2, <4>1, <5>1
      <4> QED
        BY <3>2, <4>1, <4>2, <4>3
    <3> QED
      BY <3>3, <3>4
  <2>8. Adds(G, f, s)
    <3> HIDE DEF G
    <3> QED
      BY <2>7 DEF Adds
  <2> QED
    BY <2>8
<1>2. PICK g : Adds(g, f, S)
  BY <1>1
<1> DEFINE H == [s \in SUBSET S |-> g[s]]
<1>3. ASSUME NEW s \in SUBSET S
      PROVE  H[s] = IF s = {} THEN 0 ELSE f[Pick(s)] + H[s \ {Pick(s)}]
  BY <1>2 DEF Adds
<1>4. H = [s \in SUBSET S |-> IF s = {} THEN 0 ELSE f[Pick(s)] + H[s \ {Pick(s)}]]
  <2>1. H = [s \in SUBSET S |-> H[s]]
    OBVIOUS
  <2> HIDE DEF H
  <2> QED
    BY <1>3, <2>1
<1> QED
  BY <1>4 DEF Recurs

(* A sum adds up one element at a time.                                    *)
LEMMA SumAdds ==
  ASSUME NEW S, IsFiniteSet(S), NEW f
  PROVE  \E g : Adds(g, f, S) /\ SumFunctionOnSet(f, S) = g[S]
<1> DEFINE it == CHOOSE g : Recurs(g, f, S)
<1>1. Recurs(it, f, S)
  BY AddsExists
<1>2. SumFunctionOnSet(f, S) = it[S]
  BY DEF SumFunctionOnSet, FoldFunctionOnSet, MapThenFoldSet, Pick, Recurs
<1>3. Adds(it, f, S)
  <2> HIDE DEF it
  <2> QED
    BY <1>1 DEF Adds, Recurs
<1> QED
  BY <1>2, <1>3

-----------------------------------------------------------------------------
(* A sum of zeros is zero.                                                 *)
LEMMA SumOfNothing ==
  ASSUME NEW S, IsFiniteSet(S), NEW f, \A x \in S : f[x] = 0
  PROVE  SumFunctionOnSet(f, S) = 0
<1>1. PICK g : Adds(g, f, S) /\ SumFunctionOnSet(f, S) = g[S]
  BY SumAdds
<1> DEFINE T == {s \in SUBSET S : g[s] # 0}
<1>2. T = {}
  <2> SUFFICES ASSUME T # {} PROVE FALSE
    OBVIOUS
  <2>1. T # {} /\ \A s \in T : IsFiniteSet(s)
    BY FS_Subset
  <2>2. PICK s \in T : \A t \in T : t \subseteq s => t = s
    <3> HIDE DEF T
    <3>1. HasLeast(T)
      BY <2>1, SetLeast
    <3> QED
      BY <3>1 DEF HasLeast
  <2>3. s # {}
    BY <1>1 DEF Adds
  <2>4. Pick(s) \in s /\ Pick(s) \in S
    BY <2>3 DEF Pick
  <2>5. s \ {Pick(s)} \in SUBSET S /\ s \ {Pick(s)} \notin T
    BY <2>2, <2>4
  <2>6. g[s] = f[Pick(s)] + g[s \ {Pick(s)}]
    BY <1>1, <2>3 DEF Adds
  <2>7. f[Pick(s)] = 0 /\ g[s \ {Pick(s)}] = 0
    BY <2>4, <2>5
  <2>8. g[s] = 0
    BY <2>6, <2>7
  <2> QED
    BY <2>8
<1> QED
  BY <1>1, <1>2

(* A sum of numbers is a number.                                           *)
LEMMA SumType ==
  ASSUME NEW S, IsFiniteSet(S), NEW f, \A x \in S : f[x] \in Int
  PROVE  SumFunctionOnSet(f, S) \in Int
<1>1. PICK g : Adds(g, f, S) /\ SumFunctionOnSet(f, S) = g[S]
  BY SumAdds
<1> DEFINE T == {s \in SUBSET S : g[s] \notin Int}
<1>2. T = {}
  <2> SUFFICES ASSUME T # {} PROVE FALSE
    OBVIOUS
  <2>1. T # {} /\ \A s \in T : IsFiniteSet(s)
    BY FS_Subset
  <2>2. PICK s \in T : \A t \in T : t \subseteq s => t = s
    <3> HIDE DEF T
    <3>1. HasLeast(T)
      BY <2>1, SetLeast
    <3> QED
      BY <3>1 DEF HasLeast
  <2>3. s # {}
    <3>1. s = {} => g[s] = 0
      BY <1>1 DEF Adds
    <3>2. g[s] # 0
      OBVIOUS
    <3> QED
      BY <3>1, <3>2
  <2>4. Pick(s) \in s /\ Pick(s) \in S
    BY <2>3 DEF Pick
  <2>5. s \ {Pick(s)} \in SUBSET S /\ s \ {Pick(s)} \notin T
    BY <2>2, <2>4
  <2>6. g[s] = f[Pick(s)] + g[s \ {Pick(s)}]
    BY <1>1, <2>3 DEF Adds
  <2>7. f[Pick(s)] \in Int /\ g[s \ {Pick(s)}] \in Int
    BY <2>4, <2>5
  <2>8. g[s] \in Int
    BY <2>6, <2>7
  <2> QED
    BY <2>8
<1> QED
  BY <1>1, <1>2

(* A sum changes by as much as the one of its numbers that changes.        *)
LEMMA SumOfChange ==
  ASSUME NEW S, IsFiniteSet(S), NEW f, NEW g, NEW x \in S,
         \A y \in S : f[y] \in Int /\ g[y] \in Int,
         \A y \in S \ {x} : g[y] = f[y]
  PROVE  SumFunctionOnSet(g, S) = SumFunctionOnSet(f, S) + (g[x] - f[x])
<1>1. PICK a : Adds(a, f, S) /\ SumFunctionOnSet(f, S) = a[S]
  BY SumAdds
<1>2. PICK b : Adds(b, g, S) /\ SumFunctionOnSet(g, S) = b[S]
  BY SumAdds
<1> DEFINE Right(s) == /\ a[s] \in Int
                       /\ b[s] = a[s] + IF x \in s THEN g[x] - f[x] ELSE 0
           T == {s \in SUBSET S : ~Right(s)}
<1>3. T = {}
  <2> SUFFICES ASSUME T # {} PROVE FALSE
    OBVIOUS
  <2>1. T # {} /\ \A s \in T : IsFiniteSet(s)
    BY FS_Subset
  <2>2. PICK s \in T : \A t \in T : t \subseteq s => t = s
    <3> HIDE DEF T
    <3>1. HasLeast(T)
      BY <2>1, SetLeast
    <3> QED
      BY <3>1 DEF HasLeast
  <2> DEFINE y == Pick(s)
             r == s \ {y}
  <2>3. s # {}
    <3> SUFFICES ASSUME s = {} PROVE FALSE
      OBVIOUS
    <3>1. a[s] = 0 /\ b[s] = 0 /\ x \notin s
      BY <1>1, <1>2 DEF Adds
    <3>2. Right(s)
      BY <3>1
    <3> QED
      BY <3>2
  <2>4. y \in s /\ y \in S
    BY <2>3 DEF Pick
  <2>5. r \in SUBSET S /\ Right(r)
    BY <2>2, <2>4
  <2>6. a[s] = f[y] + a[r] /\ b[s] = g[y] + b[r]
    BY <1>1, <1>2, <2>3 DEF Adds
  <2>7. x \in r <=> x \in s /\ y # x
    OBVIOUS
  <2>8. f[y] \in Int /\ g[y] \in Int /\ f[x] \in Int /\ g[x] \in Int
    BY <2>4
  <2>9. y # x => g[y] = f[y]
    BY <2>4
  <2>10. Right(s)
    <3> HIDE DEF y, r
    <3>1. CASE y = x
      BY <2>4, <2>5, <2>6, <2>7, <2>8, <3>1
    <3>2. CASE y # x
      BY <2>4, <2>5, <2>6, <2>7, <2>8, <2>9, <3>2
    <3> QED
      BY <3>1, <3>2
  <2> QED
    BY <2>10
<1> QED
  BY <1>1, <1>2, <1>3

(* It does not matter which number is added last.                          *)
AddsFreely(g, f, S) ==
  \A s \in SUBSET S : /\ g[s] \in Int
                     /\ \A x \in s : g[s] = f[x] + g[s \ {x}]

LEMMA AddsInAnyOrder ==
  ASSUME NEW S, IsFiniteSet(S), NEW f, \A x \in S : f[x] \in Int,
         NEW g, Adds(g, f, S)
  PROVE  AddsFreely(g, f, S)
<1> DEFINE Right(s) == /\ g[s] \in Int
                       /\ \A x \in s : g[s] = f[x] + g[s \ {x}]
           T == {s \in SUBSET S : ~Right(s)}
<1> SUFFICES ASSUME T # {} PROVE FALSE
  BY DEF AddsFreely
<1>1. T # {} /\ \A s \in T : IsFiniteSet(s)
  BY FS_Subset
<1>2. PICK s \in T : \A t \in T : t \subseteq s => t = s
  <2> HIDE DEF T
  <2>1. HasLeast(T)
    BY <1>1, SetLeast
  <2> QED
    BY <2>1 DEF HasLeast
<1>3. \A x \in s : s \ {x} \in SUBSET S /\ Right(s \ {x})
  BY <1>2
<1> DEFINE z == Pick(s)
<1>4. CASE s = {}
  <2>1. g[s] = 0
    BY <1>4 DEF Adds
  <2>2. Right(s)
    BY <1>4, <2>1
  <2> QED
    BY <2>2
<1>5. CASE s # {}
  <2>1. z \in s /\ z \in S
    BY <1>5 DEF Pick
  <2>2. g[s] = f[z] + g[s \ {z}]
    BY <1>5 DEF Adds
  <2>3. f[z] \in Int /\ g[s \ {z}] \in Int
    BY <1>3, <2>1
  <2> HIDE DEF z
  <2>4. ASSUME NEW x \in s PROVE g[s] = f[x] + g[s \ {x}]
    <3>1. CASE x = z
      BY <2>2, <3>1
    <3>2. CASE x # z
      <4> DEFINE r == (s \ {z}) \ {x}
      <4>1. r = (s \ {x}) \ {z} /\ x \in s \ {z} /\ z \in s \ {x}
        BY <2>1, <3>2
      <4>2. g[s \ {z}] = f[x] + g[r]
        BY <1>3, <2>1, <4>1
      <4>3. g[s \ {x}] = f[z] + g[r] /\ g[s \ {x}] \in Int
        BY <1>3, <4>1
      <4>4. f[x] \in Int
        OBVIOUS
      <4>5. g[r] \in Int
        <5>1. Right(s \ {z}) /\ s \ {z} \in SUBSET S
          BY <1>3, <2>1
        <5>2. r \in SUBSET S /\ r # s /\ r \subseteq s
          BY <2>1
        <5>3. r \notin T
          BY <1>2, <5>2
        <5> QED
          BY <5>2, <5>3
      <4> HIDE DEF r
      <4> QED
        BY <2>2, <2>3, <4>2, <4>3, <4>4, <4>5
    <3> QED
      BY <3>1, <3>2
  <2>5. g[s] \in Int
    BY <2>2, <2>3
  <2>6. Right(s)
    BY <2>4, <2>5
  <2> QED
    BY <2>6
<1> QED
  BY <1>4, <1>5

(* Zeros may be left out of a sum.                                         *)
LEMMA SumWithoutZeros ==
  ASSUME NEW S, IsFiniteSet(S), NEW f, \A x \in S : f[x] \in Int,
         NEW R \in SUBSET S, \A x \in S \ R : f[x] = 0
  PROVE  SumFunctionOnSet(f, R) = SumFunctionOnSet(f, S)
<1>1. IsFiniteSet(R)
  BY FS_Subset
<1>2. PICK a : Adds(a, f, R) /\ SumFunctionOnSet(f, R) = a[R]
  BY <1>1, SumAdds
<1>3. PICK b : Adds(b, f, S) /\ SumFunctionOnSet(f, S) = b[S]
  BY SumAdds
<1>4. \A s \in SUBSET R : a[s] \in Int /\ \A x \in s : a[s] = f[x] + a[s \ {x}]
  <2>1. \A x \in R : f[x] \in Int
    OBVIOUS
  <2>2. AddsFreely(a, f, R)
    BY <1>1, <1>2, <2>1, AddsInAnyOrder
  <2> QED
    BY <2>2 DEF AddsFreely
<1> DEFINE T == {s \in SUBSET S : b[s] # a[s \cap R]}
<1>5. T = {}
  <2> SUFFICES ASSUME T # {} PROVE FALSE
    OBVIOUS
  <2>1. T # {} /\ \A s \in T : IsFiniteSet(s)
    BY FS_Subset
  <2>2. PICK s \in T : \A t \in T : t \subseteq s => t = s
    <3> HIDE DEF T
    <3>1. HasLeast(T)
      BY <2>1, SetLeast
    <3> QED
      BY <3>1 DEF HasLeast
  <2>3. s # {}
    <3>1. b[{}] = 0 /\ a[{}] = 0
      BY <1>2, <1>3 DEF Adds
    <3>2. {} \cap R = {}
      OBVIOUS
    <3>3. b[{}] = a[{} \cap R]
      BY <3>1, <3>2
    <3> QED
      BY <3>3
  <2> DEFINE z == Pick(s)
  <2>4. z \in s /\ z \in S
    BY <2>3 DEF Pick
  <2>5. b[s] = f[z] + b[s \ {z}]
    BY <1>3, <2>3 DEF Adds
  <2> HIDE DEF z
  <2>6. b[s \ {z}] = a[(s \ {z}) \cap R]
    <3>1. s \ {z} \in SUBSET S /\ s \ {z} \subseteq s /\ s \ {z} # s
      BY <2>4
    <3>2. s \ {z} \notin T
      BY <2>2, <3>1
    <3> QED
      BY <3>1, <3>2
  <2>7. (s \ {z}) \cap R = (s \cap R) \ {z} /\ s \cap R \in SUBSET R
    OBVIOUS
  <2>8. CASE z \in R
    <3>1. a[s \cap R] = f[z] + a[(s \cap R) \ {z}]
      BY <1>4, <2>4, <2>7, <2>8
    <3> QED
      BY <2>5, <2>6, <2>7, <3>1
  <2>9. CASE z \notin R
    <3>1. (s \cap R) \ {z} = s \cap R
      BY <2>9
    <3>2. f[z] = 0 /\ a[s \cap R] \in Int
      BY <1>4, <2>4, <2>7, <2>9
    <3>3. b[s \ {z}] = a[s \cap R]
      BY <2>6, <2>7, <3>1
    <3>4. b[s] = a[s \cap R]
      BY <2>5, <3>2, <3>3
    <3> QED
      BY <3>4
  <2> QED
    BY <2>8, <2>9
<1>6. b[S] = a[S \cap R] /\ S \cap R = R
  BY <1>5
<1> QED
  BY <1>2, <1>3, <1>6

(* A sum of larger numbers is larger.                                      *)
LEMMA SumIsMonotone ==
  ASSUME NEW S, IsFiniteSet(S), NEW f, NEW g,
         \A x \in S : f[x] \in Int /\ g[x] \in Int /\ f[x] <= g[x]
  PROVE  /\ SumFunctionOnSet(f, S) \in Int
         /\ SumFunctionOnSet(g, S) \in Int
         /\ SumFunctionOnSet(f, S) <= SumFunctionOnSet(g, S)
<1>1. PICK a : Adds(a, f, S) /\ SumFunctionOnSet(f, S) = a[S]
  BY SumAdds
<1>2. PICK b : Adds(b, g, S) /\ SumFunctionOnSet(g, S) = b[S]
  BY SumAdds
<1> DEFINE Right(s) == a[s] \in Int /\ b[s] \in Int /\ a[s] <= b[s]
           T == {s \in SUBSET S : ~Right(s)}
<1>3. T = {}
  <2> SUFFICES ASSUME T # {} PROVE FALSE
    OBVIOUS
  <2>1. T # {} /\ \A s \in T : IsFiniteSet(s)
    BY FS_Subset
  <2>2. PICK s \in T : \A t \in T : t \subseteq s => t = s
    <3> HIDE DEF T
    <3>1. HasLeast(T)
      BY <2>1, SetLeast
    <3> QED
      BY <3>1 DEF HasLeast
  <2>3. CASE s = {}
    <3>1. a[s] = 0 /\ b[s] = 0
      BY <1>1, <1>2, <2>3 DEF Adds
    <3>2. Right(s)
      BY <3>1
    <3> QED
      BY <3>2
  <2>4. CASE s # {}
    <3> DEFINE z == Pick(s)
    <3>1. z \in s /\ z \in S
      BY <2>4 DEF Pick
    <3>2. a[s] = f[z] + a[s \ {z}] /\ b[s] = g[z] + b[s \ {z}]
      BY <1>1, <1>2, <2>4 DEF Adds
    <3> HIDE DEF z
    <3>3. Right(s \ {z})
      BY <2>2, <3>1
    <3>4. f[z] \in Int /\ g[z] \in Int /\ f[z] <= g[z]
      BY <3>1
    <3>5. Right(s)
      BY <3>2, <3>3, <3>4
    <3> QED
      BY <3>5
  <2> QED
    BY <2>3, <2>4
<1> QED
  BY <1>1, <1>2, <1>3
=============================================================================
