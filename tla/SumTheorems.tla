----------------------------- MODULE SumTheorems -----------------------------
(***************************************************************************)
(* What a sum over a finite set is, whatever order it is computed in.      *)
(*                                                                         *)
(* The folds of the community modules are recursive functions on the       *)
(* subsets of a set.  Induction comes from the minimal element that a set  *)
(* of finite subsets has (WFMin): a statement about sets, where the        *)
(* induction theorems of the library are about operators.                  *)
(***************************************************************************)
EXTENDS FiniteSetTheorems, TLAPS

\* g has, for every subset of S, the sum of f over it.
Sums(S, f, g) ==
  /\ g \in [SUBSET S -> Int]
  /\ g[{}] = 0
  /\ \A T \in SUBSET S : \A x \in T : g[T] = f[x] + g[T \ {x}]

\* h is the table of a fold of + over S that takes pick[T] out of T next.
Folds(S, f, pick, h) ==
  /\ h = [T \in SUBSET S |-> h[T]]
  /\ \A T \in SUBSET S : h[T] = IF T = {} THEN 0 ELSE f[pick[T]] + h[T \ {pick[T]}]

SumOver(S, f) == (CHOOSE g : Sums(S, f, g))[S]

-----------------------------------------------------------------------------
\* Induction over the subsets of a finite set.
LEMMA SubsetInduction ==
  ASSUME NEW S, IsFiniteSet(S), NEW Good,
         \A T \in SUBSET S : (\A x \in T : T \ {x} \in Good) => T \in Good
  PROVE  SUBSET S \subseteq Good
<1> DEFINE Bad == {T \in SUBSET S : T \notin Good}
<1> SUFFICES ASSUME Bad # {} PROVE FALSE
  OBVIOUS
<1>1. Bad \subseteq FiniteSubsetsOf(S)
  BY FS_FiniteSubsetsOfFinite
<1>2. IsWellFoundedOn(StrictSubsetOrdering(S), FiniteSubsetsOf(S))
  BY FS_StrictSubsetOrderingWellFounded
<1> HIDE DEF Bad
<1>3. PICK T \in Bad : \A U \in Bad : <<U, T>> \notin StrictSubsetOrdering(S)
  BY <1>1, <1>2, WFMin
<1>4. T \in SUBSET S /\ T \notin Good
  BY DEF Bad
<1>5. ASSUME NEW x \in T
      PROVE  T \ {x} \in Good
  <2>1. T \ {x} \in Bad \/ T \ {x} \in Good
    BY <1>4 DEF Bad
  <2>2. <<T \ {x}, T>> \in StrictSubsetOrdering(S)
    BY <1>4 DEF StrictSubsetOrdering
  <2> QED BY <2>1, <2>2, <1>3
<1> QED BY <1>4, <1>5

\* A finite set of integers has a largest and a smallest element.
LEMMA HasExtremes ==
  ASSUME NEW S, IsFiniteSet(S), S \subseteq Int, S # {}
  PROVE  /\ \E x \in S : \A y \in S : x >= y
         /\ \E x \in S : \A y \in S : x =< y
<1> DEFINE Extreme(T) == /\ \E x \in T : \A y \in T : x >= y
                         /\ \E x \in T : \A y \in T : x =< y
           Good == {T \in SUBSET S : T # {} => Extreme(T)}
<1>1. ASSUME NEW T \in SUBSET S, \A x \in T : T \ {x} \in Good
      PROVE  T \in Good
  <2> SUFFICES ASSUME T # {} PROVE Extreme(T)
    OBVIOUS
  <2>1. PICK x \in T : TRUE
    OBVIOUS
  <2>2. x \in Int
    BY <2>1
  <2>3. CASE T \ {x} = {}
    <3>1. \A y \in T : y = x
      BY <2>1, <2>3
    <3> QED BY <2>1, <2>2, <3>1
  <2>4. CASE T \ {x} # {}
    <3>1. PICK z \in T \ {x} : \A y \in T \ {x} : z >= y
      BY <1>1, <2>1, <2>4
    <3>2. PICK w \in T \ {x} : \A y \in T \ {x} : w =< y
      BY <1>1, <2>1, <2>4
    <3>3. z \in Int /\ w \in Int /\ \A y \in T : y \in Int
      OBVIOUS
    <3>4. \E u \in T : \A y \in T : u >= y
      <4>1. CASE z >= x
        BY <3>1, <4>1
      <4>2. CASE x >= z
        <5>1. \A y \in T : x >= y
          BY <2>2, <3>1, <3>3, <4>2
        <5> QED BY <2>1, <5>1
      <4> QED BY <2>2, <3>3, <4>1, <4>2
    <3>5. \E u \in T : \A y \in T : u =< y
      <4>1. CASE w =< x
        BY <3>2, <4>1
      <4>2. CASE x =< w
        <5>1. \A y \in T : x =< y
          BY <2>2, <3>2, <3>3, <4>2
        <5> QED BY <2>1, <5>1
      <4> QED BY <2>2, <3>3, <4>1, <4>2
    <3> QED BY <3>4, <3>5
  <2> QED BY <2>3, <2>4
<1> HIDE DEF Good
<1>2. SUBSET S \subseteq Good
  BY <1>1, SubsetInduction
<1>3. S \in Good
  BY <1>2
<1> QED BY <1>3 DEF Good

-----------------------------------------------------------------------------
(* There is one sum, and every fold of + is it. *)

\* There is a table of partial sums for integer terms over any finite set.
LEMMA SumsExist ==
  ASSUME NEW S, IsFiniteSet(S), NEW f, \A x \in S : f[x] \in Int
  PROVE  \E g : Sums(S, f, g)
<1> DEFINE Good == {U \in SUBSET S : \E g : Sums(U, f, g)}
<1>1. ASSUME NEW U \in SUBSET S, \A x \in U : U \ {x} \in Good
      PROVE  U \in Good
  <2>1. CASE U = {}
    <3> DEFINE g == [T \in {{}} |-> 0]
    <3>1. Sums({}, f, g)
      BY DEF Sums
    <3> QED BY <3>1, <2>1
  <2>2. CASE U # {}
    <3>1. PICK x \in U : TRUE
      BY <2>2
    <3>2. PICK g : Sums(U \ {x}, f, g)
      BY <1>1, <3>1
    <3>3. /\ g \in [SUBSET (U \ {x}) -> Int] /\ g[{}] = 0
          /\ \A T \in SUBSET (U \ {x}) : \A y \in T : g[T] = f[y] + g[T \ {y}]
      BY <3>2 DEF Sums
    <3> DEFINE h == [T \in SUBSET U |-> IF x \in T THEN f[x] + g[T \ {x}] ELSE g[T]]
    <3>4. \A T \in SUBSET U : /\ T \ {x} \in SUBSET (U \ {x})
                              /\ x \notin T => T \in SUBSET (U \ {x})
      OBVIOUS
    <3>5. f[x] \in Int /\ \A y \in U : f[y] \in Int
      BY <3>1
    <3>6. \A T \in SUBSET U : h[T] \in Int
      BY <3>3, <3>4, <3>5
    <3>7. h \in [SUBSET U -> Int] /\ h[{}] = 0
      BY <3>3, <3>6
    <3>8. ASSUME NEW T \in SUBSET U, NEW y \in T
          PROVE  h[T] = f[y] + h[T \ {y}]
      <4>1. CASE x \notin T
        BY <4>1, <3>3, <3>4
      <4>2. CASE x = y
        BY <4>2
      <4>3. CASE x \in T /\ x # y
        <5>1. T \ {x} \in SUBSET (U \ {x}) /\ y \in T \ {x}
          BY <4>3, <3>4
        <5>2. g[T \ {x}] = f[y] + g[(T \ {x}) \ {y}] /\ g[(T \ {x}) \ {y}] \in Int
          BY <5>1, <3>3
        <5>3. (T \ {x}) \ {y} = (T \ {y}) \ {x} /\ x \in T \ {y} /\ T \ {y} \in SUBSET U
          BY <4>3
        <5>4. h[T] = f[x] + g[T \ {x}] /\ h[T \ {y}] = f[x] + g[(T \ {y}) \ {x}]
          BY <4>3, <5>3
        <5>5. f[x] \in Int /\ f[y] \in Int
          BY <3>5
        <5> HIDE DEF h
        <5>6. PICK v : v = g[(T \ {x}) \ {y}]
          OBVIOUS
        <5>7. v \in Int /\ g[T \ {x}] = f[y] + v /\ h[T \ {y}] = f[x] + v
          BY <5>2, <5>3, <5>4, <5>6
        <5> QED BY <5>4, <5>5, <5>7
      <4> QED BY <4>1, <4>2, <4>3
    <3> HIDE DEF h
    <3>9. Sums(U, f, h)
      BY <3>7, <3>8 DEF Sums
    <3> QED BY <3>9
  <2> QED BY <2>1, <2>2
<1> HIDE DEF Good
<1>2. SUBSET S \subseteq Good
  BY <1>1, SubsetInduction
<1> QED BY <1>2 DEF Good

\* Sums of functions that agree agree, over a common subset.
LEMMA SumsAgree ==
  ASSUME NEW S, IsFiniteSet(S), NEW f, NEW g, Sums(S, f, g),
         NEW R, NEW e, NEW h, Sums(R, e, h),
         NEW T, T \subseteq S, T \subseteq R, \A x \in T : f[x] = e[x]
  PROVE  g[T] = h[T]
<1> DEFINE Good == {U \in SUBSET T : g[U] = h[U]}
<1>1. ASSUME NEW U \in SUBSET T, \A x \in U : U \ {x} \in Good
      PROVE  U \in Good
  <2>1. CASE U = {}
    BY <2>1 DEF Sums
  <2>2. CASE U # {}
    <3>1. PICK x \in U : TRUE
      BY <2>2
    <3>2. g[U] = f[x] + g[U \ {x}] /\ h[U] = e[x] + h[U \ {x}]
      BY DEF Sums
    <3>3. g[U \ {x}] = h[U \ {x}] /\ f[x] = e[x]
      BY <1>1
    <3> QED BY <3>2, <3>3
  <2> QED BY <2>1, <2>2
<1>2. IsFiniteSet(T)
  BY FS_Subset
<1> HIDE DEF Good
<1>3. SUBSET T \subseteq Good
  BY <1>1, <1>2, SubsetInduction
<1> QED BY <1>3 DEF Good

\* A fold, with whatever choice of the next element, has the sums.
LEMMA FoldsAreSums ==
  ASSUME NEW S, IsFiniteSet(S), NEW f, \A x \in S : f[x] \in Int,
         NEW pick, \A T \in SUBSET S : T # {} => pick[T] \in T,
         NEW h, Folds(S, f, pick, h)
  PROVE  Sums(S, f, h)
<1>1. PICK g : Sums(S, f, g)
  BY SumsExist
<1> DEFINE Good == {U \in SUBSET S : h[U] = g[U]}
<1>2. ASSUME NEW U \in SUBSET S, \A x \in U : U \ {x} \in Good
      PROVE  U \in Good
  <2>1. h[U] = IF U = {} THEN 0 ELSE f[pick[U]] + h[U \ {pick[U]}]
    BY DEF Folds
  <2>2. CASE U = {}
    BY <2>1, <2>2, <1>1 DEF Sums
  <2>3. CASE U # {}
    <3>1. pick[U] \in U
      BY <2>3
    <3>2. h[U \ {pick[U]}] = g[U \ {pick[U]}]
      BY <3>1, <1>2
    <3>3. g[U] = f[pick[U]] + g[U \ {pick[U]}]
      BY <3>1, <1>1 DEF Sums
    <3> QED BY <2>1, <2>3, <3>2, <3>3
  <2> QED BY <2>2, <2>3
<1> HIDE DEF Good
<1>3. SUBSET S \subseteq Good
  BY <1>2, SubsetInduction
<1>4. \A U \in SUBSET S : h[U] = g[U]
  BY <1>3 DEF Good
<1>5. g \in [SUBSET S -> Int]
  BY <1>1 DEF Sums
<1>6. h = [T \in SUBSET S |-> h[T]]
  BY DEF Folds
<1>7. h = g
  BY <1>4, <1>5, <1>6
<1> QED BY <1>1, <1>7

\* So there is such a table, and its entry for S is the sum over S.
LEMMA FoldIsSum ==
  ASSUME NEW S, IsFiniteSet(S), NEW f, \A x \in S : f[x] \in Int,
         NEW pick, \A T \in SUBSET S : T # {} => pick[T] \in T
  PROVE  /\ \E h : Folds(S, f, pick, h)
         /\ \A h : Folds(S, f, pick, h) => /\ h[S] = SumOver(S, f)
                                           /\ \A T \in SUBSET S : h[T] \in Int
<1>1. PICK g : Sums(S, f, g)
  BY SumsExist
<1>2. Folds(S, f, pick, g)
  BY <1>1 DEF Sums, Folds
<1>3. ASSUME NEW h, Folds(S, f, pick, h)
      PROVE  h[S] = SumOver(S, f) /\ \A T \in SUBSET S : h[T] \in Int
  <2>1. Sums(S, f, h)
    BY <1>3, FoldsAreSums
  <2> DEFINE c == CHOOSE x : Sums(S, f, x)
  <2>2. Sums(S, f, c)
    BY <1>1
  <2> HIDE DEF c
  <2>3. h[S] = c[S]
    BY <2>1, <2>2, SumsAgree
  <2> QED BY <2>1, <2>3 DEF Sums, SumOver, c
<1> QED BY <1>2, <1>3

-----------------------------------------------------------------------------
(* Sums. *)

\* There is a table of partial sums whose entries are the sums themselves.
LEMMA SumTable ==
  ASSUME NEW S, IsFiniteSet(S), NEW f, \A x \in S : f[x] \in Int
  PROVE  \E g : Sums(S, f, g) /\ \A T \in SUBSET S : g[T] = SumOver(T, f)
<1>1. PICK g : Sums(S, f, g)
  BY SumsExist
<1>2. ASSUME NEW T \in SUBSET S
      PROVE  g[T] = SumOver(T, f)
  <2>1. IsFiniteSet(T) /\ \A x \in T : f[x] \in Int
    BY FS_Subset
  <2>2. \E h : Sums(T, f, h)
    BY <2>1, SumsExist
  <2> DEFINE c == CHOOSE h : Sums(T, f, h)
  <2>3. Sums(T, f, c)
    BY <2>2
  <2> HIDE DEF c
  <2>4. g[T] = c[T]
    BY <1>1, <2>3, SumsAgree
  <2> QED BY <2>4 DEF SumOver, c
<1> QED BY <1>1, <1>2

\* A sum is an integer, and loses what an element that leaves had in it.
LEMMA SumRemove ==
  ASSUME NEW S, IsFiniteSet(S), NEW f, \A x \in S : f[x] \in Int
  PROVE  /\ \A T \in SUBSET S : SumOver(T, f) \in Int
         /\ SumOver({}, f) = 0
         /\ \A T \in SUBSET S : \A x \in T :
              SumOver(T, f) = f[x] + SumOver(T \ {x}, f)
<1>1. PICK g : Sums(S, f, g) /\ \A T \in SUBSET S : g[T] = SumOver(T, f)
  BY SumTable
<1> QED BY <1>1 DEF Sums

\* The sum depends only on the terms summed.
LEMMA SumCongruent ==
  ASSUME NEW S, IsFiniteSet(S), NEW f, NEW e,
         \A x \in S : f[x] \in Int /\ e[x] = f[x]
  PROVE  SumOver(S, f) = SumOver(S, e)
<1>1. PICK g : Sums(S, f, g) /\ g[S] = SumOver(S, f)
  BY SumTable
<1>2. \A x \in S : e[x] \in Int
  OBVIOUS
<1>3. PICK h : Sums(S, e, h) /\ h[S] = SumOver(S, e)
  BY <1>2, SumTable
<1>4. g[S] = h[S]
  BY <1>1, <1>3, SumsAgree
<1> QED BY <1>1, <1>3, <1>4

\* Weighted sums lie where the weighted values do.
LEMMA SumScaled ==
  ASSUME NEW S, IsFiniteSet(S), NEW f, NEW w, NEW k \in Int,
         \A x \in S : f[x] \in Int /\ w[x] \in Int
  PROVE  /\ (\A x \in S : f[x] <= k * w[x]) => SumOver(S, f) <= k * SumOver(S, w)
         /\ (\A x \in S : f[x] >= k * w[x]) => SumOver(S, f) >= k * SumOver(S, w)
<1> DEFINE Good ==
      {T \in SUBSET S :
         /\ (\A x \in S : f[x] <= k * w[x]) => SumOver(T, f) <= k * SumOver(T, w)
         /\ (\A x \in S : f[x] >= k * w[x]) => SumOver(T, f) >= k * SumOver(T, w)}
<1>1. /\ SumOver({}, f) = 0 /\ SumOver({}, w) = 0
      /\ \A T \in SUBSET S : SumOver(T, f) \in Int /\ SumOver(T, w) \in Int
      /\ \A T \in SUBSET S : \A x \in T : /\ SumOver(T, f) = f[x] + SumOver(T \ {x}, f)
                                          /\ SumOver(T, w) = w[x] + SumOver(T \ {x}, w)
  BY SumRemove
<1>2. ASSUME NEW T \in SUBSET S, \A x \in T : T \ {x} \in Good
      PROVE  T \in Good
  <2>1. CASE T = {}
    BY <1>1, <2>1
  <2>2. CASE T # {}
    <3>1. PICK x \in T : TRUE
      BY <2>2
    <3>2. PICK s, t : s = SumOver(T \ {x}, f) /\ t = SumOver(T \ {x}, w)
      OBVIOUS
    <3>3. s \in Int /\ t \in Int /\ f[x] \in Int /\ w[x] \in Int
      BY <3>2, <1>1
    <3>4. SumOver(T, f) = f[x] + s /\ SumOver(T, w) = w[x] + t
      BY <3>2, <1>1
    <3>5. k * (w[x] + t) = k * w[x] + k * t
      BY <3>3
    <3>6. /\ (\A y \in S : f[y] <= k * w[y]) => s <= k * t
          /\ (\A y \in S : f[y] >= k * w[y]) => s >= k * t
      BY <1>2, <3>1, <3>2
    <3>7. k * w[x] \in Int /\ k * t \in Int
      BY <3>3
    <3>8. (\A y \in S : f[y] <= k * w[y]) => SumOver(T, f) <= k * SumOver(T, w)
      <4> SUFFICES ASSUME \A y \in S : f[y] <= k * w[y]
                   PROVE  SumOver(T, f) <= k * SumOver(T, w)
        OBVIOUS
      <4>1. f[x] <= k * w[x] /\ s <= k * t
        BY <3>1, <3>6
      <4> QED BY <4>1, <3>3, <3>4, <3>5, <3>7
    <3>9. (\A y \in S : f[y] >= k * w[y]) => SumOver(T, f) >= k * SumOver(T, w)
      <4> SUFFICES ASSUME \A y \in S : f[y] >= k * w[y]
                   PROVE  SumOver(T, f) >= k * SumOver(T, w)
        OBVIOUS
      <4>1. f[x] >= k * w[x] /\ s >= k * t
        BY <3>1, <3>6
      <4> QED BY <4>1, <3>3, <3>4, <3>5, <3>7
    <3> QED BY <3>8, <3>9
  <2> QED BY <2>1, <2>2
<1> HIDE DEF Good
<1>3. SUBSET S \subseteq Good
  BY <1>2, SubsetInduction
<1>4. S \in Good
  BY <1>3
<1> QED BY <1>4 DEF Good

\* The sum of what may be negative nowhere only grows with the set; it
\* bounds the sum of whatever is sent into it one to one with a loss of no
\* more than k each.
LEMMA SumInjected ==
  ASSUME NEW S, IsFiniteSet(S), NEW f, \A x \in S : f[x] \in Int,
         NEW R, IsFiniteSet(R), NEW e, \A y \in R : e[y] \in Nat,
         NEW k \in Nat, NEW m, \A x \in S : m[x] \in R /\ f[x] <= e[m[x]] + k,
         \A x, y \in S : m[x] = m[y] => x = y
  PROVE  SumOver(S, f) <= SumOver(R, e) + k * Cardinality(S)
<1> DEFINE Bounded(T) ==
      \A Q \in SUBSET R : (\A x \in T : m[x] \in Q) =>
         SumOver(T, f) <= SumOver(Q, e) + k * Cardinality(T)
           Good == {T \in SUBSET S : Bounded(T)}
<1>1. \A y \in R : e[y] \in Int
  OBVIOUS
<1>2. /\ SumOver({}, f) = 0 /\ SumOver({}, e) = 0
      /\ \A T \in SUBSET S : SumOver(T, f) \in Int
      /\ \A Q \in SUBSET R : SumOver(Q, e) \in Int
      /\ \A T \in SUBSET S : \A x \in T : SumOver(T, f) = f[x] + SumOver(T \ {x}, f)
      /\ \A Q \in SUBSET R : \A y \in Q : SumOver(Q, e) = e[y] + SumOver(Q \ {y}, e)
  BY <1>1, SumRemove
<1>3. \A Q \in SUBSET R : SumOver(Q, e) >= 0
  <2> DEFINE Positive == {Q \in SUBSET R : SumOver(Q, e) >= 0}
  <2>1. ASSUME NEW Q \in SUBSET R, \A y \in Q : Q \ {y} \in Positive
        PROVE  Q \in Positive
    <3>1. CASE Q = {}
      BY <3>1, <1>2
    <3>2. CASE Q # {}
      <4>1. PICK y \in Q : TRUE
        BY <3>2
      <4>2. /\ SumOver(Q, e) = e[y] + SumOver(Q \ {y}, e) /\ e[y] \in Nat
            /\ SumOver(Q \ {y}, e) >= 0 /\ SumOver(Q \ {y}, e) \in Int
        BY <4>1, <2>1, <1>2
      <4> QED BY <4>2
    <3> QED BY <3>1, <3>2
  <2> HIDE DEF Positive
  <2>2. SUBSET R \subseteq Positive
    BY <2>1, SubsetInduction
  <2> QED BY <2>2 DEF Positive
<1>4. ASSUME NEW T \in SUBSET S, \A x \in T : T \ {x} \in Good
      PROVE  T \in Good
  <2> SUFFICES ASSUME NEW Q \in SUBSET R, \A x \in T : m[x] \in Q
               PROVE  SumOver(T, f) <= SumOver(Q, e) + k * Cardinality(T)
    OBVIOUS
  <2>0. IsFiniteSet(T)
    BY FS_Subset
  <2>1. CASE T = {}
    <3>1. Cardinality(T) = 0
      BY <2>1, FS_EmptySet
    <3>2. SumOver(Q, e) >= 0 /\ SumOver(Q, e) \in Int
      BY <1>2, <1>3
    <3> QED BY <2>1, <3>1, <3>2, <1>2
  <2>2. CASE T # {}
    <3>1. PICK x \in T : TRUE
      BY <2>2
    <3>2. /\ SumOver(T, f) = f[x] + SumOver(T \ {x}, f)
          /\ SumOver(Q, e) = e[m[x]] + SumOver(Q \ {m[x]}, e)
      BY <1>2, <3>1
    <3>3. \A y \in T \ {x} : m[y] \in Q \ {m[x]}
      BY <3>1
    <3>4. SumOver(T \ {x}, f) <= SumOver(Q \ {m[x]}, e) + k * Cardinality(T \ {x})
      BY <3>1, <3>3, <1>4
    <3>5. Cardinality(T) \in Nat /\ Cardinality(T \ {x}) = Cardinality(T) - 1
          /\ Cardinality(T \ {x}) \in Nat
      BY <2>0, <3>1, FS_RemoveElement, FS_CardinalityType
    <3>6. PICK n \in Nat : n = Cardinality(T \ {x}) /\ Cardinality(T) = n + 1
      BY <3>5
    <3>7. k * (n + 1) = k * n + k /\ k * n \in Nat
      OBVIOUS
    <3>8. f[x] <= e[m[x]] + k /\ f[x] \in Int /\ e[m[x]] \in Nat
      BY <3>1
    <3>9. SumOver(T \ {x}, f) \in Int /\ SumOver(Q \ {m[x]}, e) \in Int
      BY <1>2
    <3> QED BY <3>2, <3>4, <3>6, <3>7, <3>8, <3>9
  <2> QED BY <2>1, <2>2
<1> HIDE DEF Good
<1>5. SUBSET S \subseteq Good
  BY <1>4, SubsetInduction
<1>6. Bounded(S)
  BY <1>5 DEF Good
<1> QED BY <1>6

\* A sum does not fall when what is added to it is not negative.
LEMMA SumGrows ==
  ASSUME NEW S, IsFiniteSet(S), NEW f, \A x \in S : f[x] \in Int,
         NEW T \in SUBSET S, \A x \in S \ T : f[x] \in Nat
  PROVE  SumOver(T, f) <= SumOver(S, f)
<1>0. PICK Rest : Rest = S \ T
  OBVIOUS
<1> DEFINE Good == {U \in SUBSET Rest : SumOver(T, f) <= SumOver(T \cup U, f)}
<1>1. /\ \A U \in SUBSET S : SumOver(U, f) \in Int
      /\ \A U \in SUBSET S : \A x \in U : SumOver(U, f) = f[x] + SumOver(U \ {x}, f)
  BY SumRemove
<1>2. ASSUME NEW U \in SUBSET Rest, \A x \in U : U \ {x} \in Good
      PROVE  U \in Good
  <2>1. CASE U = {}
    <3>1. T \cup U = T /\ SumOver(T, f) \in Int
      BY <1>1, <2>1
    <3> QED BY <3>1
  <2>2. CASE U # {}
    <3>1. PICK x \in U : TRUE
      BY <2>2
    <3>0. U \subseteq S \ T
      BY <1>0
    <3>2. (T \cup U) \ {x} = T \cup (U \ {x})
      BY <3>0, <3>1
    <3>3. /\ T \cup U \in SUBSET S /\ T \cup (U \ {x}) \in SUBSET S
          /\ x \in T \cup U /\ f[x] \in Nat
      BY <3>0, <3>1
    <3>4. SumOver(T, f) <= SumOver(T \cup (U \ {x}), f)
      BY <1>2, <3>1
    <3>5. SumOver(T \cup U, f) = f[x] + SumOver(T \cup (U \ {x}), f)
      BY <1>1, <3>2, <3>3
    <3>6. /\ SumOver(T, f) \in Int /\ SumOver(T \cup U, f) \in Int
          /\ SumOver(T \cup (U \ {x}), f) \in Int
      BY <1>1, <3>3
    <3>7. SumOver(T, f) <= SumOver(T \cup U, f)
      BY <3>3, <3>4, <3>5, <3>6
    <3> QED BY <3>7
  <2> QED BY <2>1, <2>2
<1>3. IsFiniteSet(Rest)
  BY <1>0, FS_Subset
<1> HIDE DEF Good
<1>4. SUBSET Rest \subseteq Good
  BY <1>2, <1>3, SubsetInduction
<1>5. Rest \in Good
  BY <1>4
<1>6. SumOver(T, f) <= SumOver(T \cup Rest, f)
  BY <1>5 DEF Good
<1>7. T \cup Rest = S
  BY <1>0
<1> QED BY <1>6, <1>7
=============================================================================
