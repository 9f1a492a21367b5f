----------------------------- MODULE Session_proofs -----------------------------
(***************************************************************************)
(* Theorems about Session, for every bound: the server that is handed out  *)
(* is ready and its group is taken down; the client is closed and says     *)
(* what ended it; the telemetry file of a run that has its marker is       *)
(* whole; and what the scrape reports is what the engines did.  The parts  *)
(* share `at`, `mishaps`, `events` and `faults` alone, so each has an      *)
(* invariant of its own, which the steps of the others keep.               *)
(***************************************************************************)
EXTENDS Session, Functions, FiniteSetTheorems, WellFoundedInduction, SequenceTheorems, TLAPS

-----------------------------------------------------------------------------
(* Sums over finite sets, with which Scrape adds up counters.  The lemmas    *)
(* go by induction, in the form Grows: a set of numbers that has 0 and the   *)
(* successor of each of its members has them all.  What is proved for n is   *)
(* then that n belongs to the set of the numbers it holds for.               *)

\* A set of natural numbers has a least element.
LEMMA Least ==
  ASSUME NEW T \in SUBSET Nat, T # {}
  PROVE  \E x \in T : \A y \in T : x <= y
<1> DEFINE R == {ss \in Nat \X Nat : ss[1] < ss[2]}
<1>1. IsWellFoundedOn(R, Nat)
  BY NatLessThanWellFounded DEF OpToRel
<1>2. \A x, y \in Nat : <<y, x>> \in R <=> y < x
  OBVIOUS
<1> HIDE DEF R
<1>3. PICK x \in T : \A y \in T : ~ (<<y, x>> \in R)
  BY <1>1, WFMin
<1>4. \A y \in T : y \in Nat /\ x \in Nat /\ ~ (y < x)
  BY <1>2, <1>3
<1>5. \A y \in T : x <= y
  BY <1>4
<1>6. QED
  BY <1>5

\* Induction: no number is the least that is missing.
LEMMA Grows ==
  ASSUME NEW T \in SUBSET Nat, 0 \in T, \A n \in T : n + 1 \in T
  PROVE  T = Nat
<1> SUFFICES ASSUME Nat \ T # {} PROVE FALSE
  OBVIOUS
<1>1. PICK x \in Nat \ T : \A y \in Nat \ T : x <= y
  BY Least
<1>2. x # 0 /\ x - 1 \in Nat
  BY <1>1
<1>3. x - 1 \in T
  BY <1>1, <1>2
<1>4. QED
  BY <1>1, <1>2, <1>3

-----------------------------------------------------------------------------
(* A sum is a recursive function, which exists and is the only one.         *)

One(s) == CHOOSE y \in s : TRUE

\* What g is at s, by the recursion of MapThenFoldSet.
Adds(f, g, s) == g[s] = IF s = {} THEN 0 ELSE f[One(s)] + g[s \ {One(s)}]

\* The element that is taken out first.
LEMMA OneLess ==
  ASSUME NEW s, IsFiniteSet(s), s # {}
  PROVE  /\ One(s) \in s /\ IsFiniteSet(s \ {One(s)}) /\ Cardinality(s \ {One(s)}) = Cardinality(s) - 1
         /\ Cardinality(s) \in Nat /\ Cardinality(s) >= 1
<1>1. One(s) \in s
  BY DEF One
<1>2. QED
  BY <1>1, FS_RemoveElement, FS_CardinalityType, FS_EmptySet

\* Some function adds up every subset as the fold does.
LEMMA SumExists ==
  ASSUME NEW f, NEW W, IsFiniteSet(W)
  PROVE  \E g : \A s \in SUBSET W : Adds(f, g, s)
<1> DEFINE T == {n \in Nat : \E g : \A s \in SUBSET W : Cardinality(s) <= n => Adds(f, g, s)}
<1>1. \A s \in SUBSET W : IsFiniteSet(s) /\ Cardinality(s) \in Nat /\ (Cardinality(s) = 0 <=> s = {})
  BY FS_Subset, FS_CardinalityType, FS_EmptySet
<1>2. 0 \in T
  <2> DEFINE g == [s \in SUBSET W |-> 0]
  <2>1. \A s \in SUBSET W : Cardinality(s) <= 0 => Adds(f, g, s)
    BY <1>1 DEF Adds
  <2> HIDE DEF g
  <2>2. QED
    BY <2>1
<1>3. ASSUME NEW n \in T PROVE n + 1 \in T
  <2>1. PICK g : \A s \in SUBSET W : Cardinality(s) <= n => Adds(f, g, s)
    OBVIOUS
  <2> DEFINE h == [s \in SUBSET W |-> IF Cardinality(s) <= n THEN g[s]
                                      ELSE f[One(s)] + g[s \ {One(s)}]]
  <2>2. ASSUME NEW s \in SUBSET W, Cardinality(s) <= n + 1 PROVE Adds(f, h, s)
    <3>1. CASE s = {}
      <4>1. Cardinality(s) = 0 /\ n \in Nat /\ h[s] = g[s]
        BY <1>1, <3>1
      <4>2. QED
        BY <2>1, <3>1, <4>1 DEF Adds
    <3>2. CASE s # {}
      <4> DEFINE r == s \ {One(s)}
      <4>1. r \in SUBSET W /\ Cardinality(r) = Cardinality(s) - 1 /\ Cardinality(s) \in Nat /\ n \in Nat
        BY <1>1, <3>2, OneLess
      <4>2. Cardinality(r) <= n
        BY <2>2, <4>1
      <4>3. h[r] = g[r]
        BY <4>1, <4>2
      <4>4. CASE Cardinality(s) <= n
        <5>1. h[s] = g[s] /\ Adds(f, g, s)
          BY <2>1, <4>4
        <5>2. QED
          BY <3>2, <4>3, <5>1 DEF Adds
      <4>5. CASE ~(Cardinality(s) <= n)
        BY <3>2, <4>3, <4>5 DEF Adds
      <4>6. QED
        BY <4>4, <4>5
    <3>3. QED
      BY <3>1, <3>2
  <2> HIDE DEF h
  <2>3. QED
    BY <2>2
<1>4. T = Nat
  <2>1. T \in SUBSET Nat
    OBVIOUS
  <2> HIDE DEF T
  <2>2. QED
    BY <1>2, <1>3, <2>1, Grows
<1>5. Cardinality(W) \in T
  BY <1>4, FS_CardinalityType
<1>6. \A s \in SUBSET W : Cardinality(s) <= Cardinality(W)
  BY FS_Subset
<1>7. QED
  BY <1>5, <1>6

\* No other function does.
LEMMA SumUnique ==
  ASSUME NEW f, NEW W, IsFiniteSet(W), NEW g, NEW h, \A s \in SUBSET W : Adds(f, g, s) /\ Adds(f, h, s)
  PROVE  g[W] = h[W]
<1> DEFINE T == {n \in Nat : \A s \in SUBSET W : Cardinality(s) = n => g[s] = h[s]}
<1>1. \A s \in SUBSET W : IsFiniteSet(s) /\ Cardinality(s) \in Nat /\ (Cardinality(s) = 0 <=> s = {})
  BY FS_Subset, FS_CardinalityType, FS_EmptySet
<1>2. 0 \in T
  BY <1>1 DEF Adds
<1>3. ASSUME NEW n \in T PROVE n + 1 \in T
  <2>1. ASSUME NEW s \in SUBSET W, Cardinality(s) = n + 1 PROVE g[s] = h[s]
    <3> DEFINE r == s \ {One(s)}
    <3>1. s # {} /\ n \in Nat
      BY <1>1, <2>1
    <3>2. r \in SUBSET W /\ Cardinality(r) = n
      <4>1. r \in SUBSET W /\ Cardinality(r) = Cardinality(s) - 1
        BY <1>1, <3>1, OneLess
      <4>2. QED
        BY <2>1, <3>1, <4>1
    <3>3. g[r] = h[r]
      BY <3>2
    <3>4. QED
      BY <3>1, <3>3 DEF Adds
  <2>2. QED
    BY <2>1
<1>4. T = Nat
  <2>1. T \in SUBSET Nat
    OBVIOUS
  <2> HIDE DEF T
  <2>2. QED
    BY <1>2, <1>3, <2>1, Grows
<1>5. Cardinality(W) \in T
  BY <1>4, FS_CardinalityType
<1>6. QED
  BY <1>5

\* The fold is that function.
LEMMA SumIs ==
  ASSUME NEW f, NEW W, IsFiniteSet(W), NEW g, \A s \in SUBSET W : Adds(f, g, s)
  PROVE  SumFunctionOnSet(f, W) = g[W]
<1> DEFINE Rec(h) == h = [s \in SUBSET W |-> IF s = {} THEN 0 ELSE f[One(s)] + h[s \ {One(s)}]]
           sum == CHOOSE h : Rec(h)
           k == [s \in SUBSET W |-> g[s]]
<1>1. SumFunctionOnSet(f, W) = sum[W]
  BY DEF SumFunctionOnSet, FoldFunctionOnSet, MapThenFoldSet, One
<1>2. Rec(k)
  <2>1. ASSUME NEW s \in SUBSET W
        PROVE  k[s] = IF s = {} THEN 0 ELSE f[One(s)] + k[s \ {One(s)}]
    <3>1. s \ {One(s)} \in SUBSET W /\ Adds(f, g, s)
      OBVIOUS
    <3>2. QED
      BY <3>1 DEF Adds
  <2>2. QED
    BY <2>1
<1>3. Rec(sum)
  BY <1>2, Zenon
<1> HIDE DEF sum
<1>4. \A s \in SUBSET W : Adds(f, sum, s)
  BY <1>3 DEF Adds
<1>5. sum[W] = g[W]
  BY <1>4, SumUnique
<1>6. QED
  BY <1>1, <1>5

-----------------------------------------------------------------------------
(* What a sum is.                                                           *)

Sum(f, W) == SumFunctionOnSet(f, W)

\* What a sum is: 0 of nothing, and one element more than the sum of the others.
LEMMA SumStep ==
  ASSUME NEW f, NEW W, IsFiniteSet(W)
  PROVE  /\ W = {} => Sum(f, W) = 0
         /\ W # {} => Sum(f, W) = f[One(W)] + Sum(f, W \ {One(W)})
<1>1. PICK g : \A s \in SUBSET W : Adds(f, g, s)
  BY SumExists
<1>2. ASSUME NEW R \in SUBSET W PROVE Sum(f, R) = g[R]
  <2>1. IsFiniteSet(R) /\ \A s \in SUBSET R : Adds(f, g, s)
    BY <1>1, FS_Subset
  <2>2. QED
    BY <2>1, SumIs DEF Sum
<1>3. Sum(f, W) = g[W] /\ Sum(f, W \ {One(W)}) = g[W \ {One(W)}] /\ Adds(f, g, W)
  BY <1>1, <1>2
<1>4. QED
  BY <1>3 DEF Adds

\* The induction that the lemmas below have in common: on the subsets of a finite set.
LEMMA SubsetsByNumber ==
  ASSUME NEW U, IsFiniteSet(U)
  PROVE  \A W \in SUBSET U : IsFiniteSet(W) /\ Cardinality(W) \in Nat /\ (Cardinality(W) = 0 <=> W = {})
BY FS_Subset, FS_CardinalityType, FS_EmptySet

\* The sum of integers is one.
LEMMA SumInt ==
  ASSUME NEW f, NEW U, IsFiniteSet(U), \A x \in U : f[x] \in Int
  PROVE  Sum(f, U) \in Int
<1> DEFINE T == {n \in Nat : \A W \in SUBSET U : Cardinality(W) = n => Sum(f, W) \in Int}
<1>1. 0 \in T
  <2>1. \A W \in SUBSET U : Cardinality(W) = 0 => Sum(f, W) = 0
    BY SubsetsByNumber, SumStep
  <2>2. QED
    BY <2>1
<1>2. ASSUME NEW n \in T PROVE n + 1 \in T
  <2>1. ASSUME NEW W \in SUBSET U, Cardinality(W) = n + 1 PROVE Sum(f, W) \in Int
    <3>1. W # {} /\ IsFiniteSet(W) /\ n \in Nat
      BY <2>1, SubsetsByNumber
    <3>2. One(W) \in W /\ W \ {One(W)} \in SUBSET U /\ Cardinality(W \ {One(W)}) = n
      <4>1. /\ One(W) \in W /\ IsFiniteSet(W \ {One(W)})
            /\ Cardinality(W \ {One(W)}) = Cardinality(W) - 1
        BY <3>1, OneLess
      <4>2. Cardinality(W \ {One(W)}) = n
        BY <2>1, <3>1, <4>1
      <4>3. QED
        BY <4>1, <4>2
    <3>3. Sum(f, W \ {One(W)}) \in Int /\ f[One(W)] \in Int
      BY <3>2
    <3>4. QED
      BY <3>1, <3>3, SumStep
  <2>2. QED
    BY <2>1
<1>3. T = Nat
  <2>1. T \in SUBSET Nat
    OBVIOUS
  <2> HIDE DEF T
  <2>2. QED
    BY <1>1, <1>2, <2>1, Grows
<1>4. Cardinality(U) \in T
  BY <1>3, FS_CardinalityType
<1>5. QED
  BY <1>4

\* The order in which the elements are added does not matter.
LEMMA SumAny ==
  ASSUME NEW f, NEW U, IsFiniteSet(U), \A x \in U : f[x] \in Int, NEW a \in U
  PROVE  Sum(f, U) = f[a] + Sum(f, U \ {a})
<1> DEFINE T == {n \in Nat : \A W \in SUBSET U : Cardinality(W) = n =>
                   \A b \in W : Sum(f, W) = f[b] + Sum(f, W \ {b})}
<1>1. 0 \in T
  BY SubsetsByNumber
<1>2. ASSUME NEW n \in T PROVE n + 1 \in T
  <2>1. ASSUME NEW W \in SUBSET U, Cardinality(W) = n + 1, NEW b \in W
        PROVE  Sum(f, W) = f[b] + Sum(f, W \ {b})
    <3> DEFINE x == One(W)
               R == W \ {x}
    <3>1. W # {} /\ IsFiniteSet(W) /\ n \in Nat
      BY <2>1, SubsetsByNumber
    <3>2. x \in W /\ R \in SUBSET U /\ Cardinality(R) = n /\ IsFiniteSet(R)
      <4>1. /\ One(W) \in W /\ IsFiniteSet(W \ {One(W)})
            /\ Cardinality(W \ {One(W)}) = Cardinality(W) - 1
        BY <3>1, OneLess
      <4>2. Cardinality(W \ {One(W)}) = n
        BY <2>1, <3>1, <4>1
      <4>3. QED
        BY <4>1, <4>2
    <3>3. Sum(f, W) = f[x] + Sum(f, R)
      BY <3>1, SumStep
    <3>4. CASE b = x
      BY <3>3, <3>4
    <3>5. CASE b # x
      <4>1. Sum(f, R) = f[b] + Sum(f, R \ {b})
        BY <3>2, <3>5
      <4>2. W \ {b} \in SUBSET U /\ Cardinality(W \ {b}) = n /\ IsFiniteSet(W \ {b})
        <5>1. Cardinality(W \ {b}) = Cardinality(W) - 1 /\ IsFiniteSet(W \ {b})
          BY <2>1, <3>1, FS_RemoveElement
        <5>2. QED
          BY <2>1, <3>1, <5>1
      <4>3. x \in W \ {b} /\ (W \ {b}) \ {x} = R \ {b}
        BY <3>2, <3>5
      <4>4. Sum(f, W \ {b}) = f[x] + Sum(f, R \ {b})
        BY <4>2, <4>3
      <4>5. f[x] \in Int /\ f[b] \in Int
        BY <3>2
      <4>6. Sum(f, R \ {b}) \in Int
        <5>1. IsFiniteSet(R \ {b}) /\ \A y \in R \ {b} : f[y] \in Int
          BY <3>2, FS_Subset
        <5>2. QED
          BY <5>1, SumInt
      <4> HIDE DEF x, R
      <4>7. QED
        BY <3>3, <4>1, <4>4, <4>5, <4>6
    <3>6. QED
      BY <3>4, <3>5
  <2>2. QED
    BY <2>1
<1>3. T = Nat
  <2>1. T \in SUBSET Nat
    OBVIOUS
  <2> HIDE DEF T
  <2>2. QED
    BY <1>1, <1>2, <2>1, Grows
<1>4. Cardinality(U) \in T
  BY <1>3, FS_CardinalityType
<1>5. QED
  BY <1>4

\* Sums are subtracted term by term.
LEMMA SumMinus ==
  ASSUME NEW f, NEW g, NEW h, NEW U, IsFiniteSet(U),
         \A x \in U : f[x] \in Int /\ g[x] \in Int /\ h[x] = f[x] - g[x]
  PROVE  Sum(h, U) = Sum(f, U) - Sum(g, U)
<1> DEFINE T == {n \in Nat : \A W \in SUBSET U : Cardinality(W) = n => Sum(h, W) = Sum(f, W) - Sum(g, W)}
<1>1. 0 \in T
  <2>1. ASSUME NEW W \in SUBSET U, Cardinality(W) = 0 PROVE Sum(h, W) = Sum(f, W) - Sum(g, W)
    <3>1. W = {} /\ IsFiniteSet(W)
      BY <2>1, SubsetsByNumber
    <3>2. Sum(h, W) = 0 /\ Sum(f, W) = 0 /\ Sum(g, W) = 0
      BY <3>1, SumStep
    <3>3. QED
      BY <3>2
  <2>2. QED
    BY <2>1
<1>2. ASSUME NEW n \in T PROVE n + 1 \in T
  <2>1. ASSUME NEW W \in SUBSET U, Cardinality(W) = n + 1 PROVE Sum(h, W) = Sum(f, W) - Sum(g, W)
    <3> DEFINE x == One(W)
               R == W \ {x}
    <3>1. W # {} /\ IsFiniteSet(W) /\ n \in Nat
      BY <2>1, SubsetsByNumber
    <3>2. x \in W /\ R \in SUBSET U /\ Cardinality(R) = n /\ IsFiniteSet(R)
      <4>1. /\ One(W) \in W /\ IsFiniteSet(W \ {One(W)})
            /\ Cardinality(W \ {One(W)}) = Cardinality(W) - 1
        BY <3>1, OneLess
      <4>2. Cardinality(W \ {One(W)}) = n
        BY <2>1, <3>1, <4>1
      <4>3. QED
        BY <4>1, <4>2
    <3>3. Sum(h, W) = h[x] + Sum(h, R) /\ Sum(f, W) = f[x] + Sum(f, R) /\ Sum(g, W) = g[x] + Sum(g, R)
      BY <3>1, SumStep
    <3>4. Sum(h, R) = Sum(f, R) - Sum(g, R)
      BY <3>2
    <3>5. Sum(f, R) \in Int /\ Sum(g, R) \in Int
      BY <3>2, SumInt
    <3>6. f[x] \in Int /\ g[x] \in Int /\ h[x] = f[x] - g[x]
      BY <3>2
    <3> HIDE DEF x, R
    <3>7. QED
      BY <3>3, <3>4, <3>5, <3>6
  <2>2. QED
    BY <2>1
<1>3. T = Nat
  <2>1. T \in SUBSET Nat
    OBVIOUS
  <2> HIDE DEF T
  <2>2. QED
    BY <1>1, <1>2, <2>1, Grows
<1>4. Cardinality(U) \in T
  BY <1>3, FS_CardinalityType
<1>5. QED
  BY <1>4

\* The sum of natural numbers is one.
LEMMA SumNat ==
  ASSUME NEW f, NEW U, IsFiniteSet(U), \A x \in U : f[x] \in Nat
  PROVE  Sum(f, U) \in Nat
<1> DEFINE T == {n \in Nat : \A W \in SUBSET U : Cardinality(W) = n => Sum(f, W) \in Nat}
<1>1. 0 \in T
  <2>1. \A W \in SUBSET U : Cardinality(W) = 0 => Sum(f, W) = 0
    BY SubsetsByNumber, SumStep
  <2>2. QED
    BY <2>1
<1>2. ASSUME NEW n \in T PROVE n + 1 \in T
  <2>1. ASSUME NEW W \in SUBSET U, Cardinality(W) = n + 1 PROVE Sum(f, W) \in Nat
    <3>1. W # {} /\ IsFiniteSet(W) /\ n \in Nat
      BY <2>1, SubsetsByNumber
    <3>2. One(W) \in W /\ W \ {One(W)} \in SUBSET U /\ Cardinality(W \ {One(W)}) = n
      <4>1. /\ One(W) \in W /\ IsFiniteSet(W \ {One(W)})
            /\ Cardinality(W \ {One(W)}) = Cardinality(W) - 1
        BY <3>1, OneLess
      <4>2. Cardinality(W \ {One(W)}) = n
        BY <2>1, <3>1, <4>1
      <4>3. QED
        BY <4>1, <4>2
    <3>3. Sum(f, W \ {One(W)}) \in Nat /\ f[One(W)] \in Nat
      BY <3>2
    <3>4. QED
      BY <3>1, <3>3, SumStep
  <2>2. QED
    BY <2>1
<1>3. T = Nat
  <2>1. T \in SUBSET Nat
    OBVIOUS
  <2> HIDE DEF T
  <2>2. QED
    BY <1>1, <1>2, <2>1, Grows
<1>4. Cardinality(U) \in T
  BY <1>3, FS_CardinalityType
<1>5. QED
  BY <1>4

\* A sum is no more than that of greater terms.
LEMMA SumAtMost ==
  ASSUME NEW f, NEW g, NEW U, IsFiniteSet(U),
         \A x \in U : f[x] \in Int /\ g[x] \in Int /\ f[x] <= g[x]
  PROVE  Sum(f, U) <= Sum(g, U)
<1> DEFINE h == [x \in U |-> g[x] - f[x]]
<1>1. \A x \in U : h[x] = g[x] - f[x] /\ h[x] \in Nat
  OBVIOUS
<1> HIDE DEF h
<1>2. Sum(h, U) = Sum(g, U) - Sum(f, U)
  BY <1>1, SumMinus
<1>3. Sum(h, U) \in Nat /\ Sum(f, U) \in Int /\ Sum(g, U) \in Int
  BY <1>1, SumNat, SumInt
<1>4. QED
  BY <1>2, <1>3

\* Where f is 0, nothing is added.
LEMMA SumOutside ==
  ASSUME NEW f, NEW U, IsFiniteSet(U), \A x \in U : f[x] \in Int,
         NEW R \in SUBSET U, \A x \in U \ R : f[x] = 0
  PROVE  Sum(f, U) = Sum(f, R)
<1> DEFINE T == {n \in Nat : \A Z \in SUBSET (U \ R) : Cardinality(Z) = n => Sum(f, R \cup Z) = Sum(f, R)}
<1>1. IsFiniteSet(U \ R) /\ IsFiniteSet(R)
  BY FS_Subset
<1>2. \A Z \in SUBSET (U \ R) : IsFiniteSet(Z) /\ Cardinality(Z) \in Nat /\ (Cardinality(Z) = 0 <=> Z = {})
  BY <1>1, SubsetsByNumber
<1>3. 0 \in T
  <2>1. R \cup {} = R
    OBVIOUS
  <2>2. QED
    BY <1>2, <2>1
<1>4. ASSUME NEW n \in T PROVE n + 1 \in T
  <2>1. ASSUME NEW Z \in SUBSET (U \ R), Cardinality(Z) = n + 1 PROVE Sum(f, R \cup Z) = Sum(f, R)
    <3> DEFINE x == One(Z)
               Y == Z \ {x}
    <3>1. Z # {} /\ n \in Nat /\ IsFiniteSet(Z)
      BY <1>2, <2>1
    <3>2. x \in Z /\ Y \in SUBSET (U \ R) /\ Cardinality(Y) = n
      <4>1. x \in Z /\ Cardinality(Y) = Cardinality(Z) - 1
        BY <3>1, OneLess
      <4>2. QED
        BY <2>1, <3>1, <4>1
    <3>3. Sum(f, R \cup Y) = Sum(f, R)
      BY <3>2
    <3>4. IsFiniteSet(R \cup Z) /\ x \in R \cup Z /\ (\A y \in R \cup Z : f[y] \in Int)
          /\ (R \cup Z) \ {x} = R \cup Y
      BY <3>2, FS_Subset
    <3>5. Sum(f, R \cup Z) = f[x] + Sum(f, (R \cup Z) \ {x})
      <4> HIDE DEF x
      <4>1. QED
        BY <3>4, SumAny
    <3>6. Sum(f, R) \in Int
      BY <1>1, SumInt
    <3>7. f[x] = 0
      BY <3>2
    <3>8. Sum(f, R \cup Z) = f[x] + Sum(f, R)
      BY <3>3, <3>4, <3>5
    <3> HIDE DEF x, Y
    <3>9. QED
      BY <3>6, <3>7, <3>8
  <2>2. QED
    BY <2>1
<1>5. T = Nat
  <2>1. T \in SUBSET Nat
    OBVIOUS
  <2> HIDE DEF T
  <2>2. QED
    BY <1>3, <1>4, <2>1, Grows
<1>6. Cardinality(U \ R) \in T
  BY <1>1, <1>5, FS_CardinalityType
<1>7. R \cup (U \ R) = U
  OBVIOUS
<1>8. QED
  BY <1>6, <1>7

-----------------------------------------------------------------------------
(* The invariants.                                                          *)

\* While the server boots, the answers since the last bad one are the streak, and a trial is
\* made when the streak is complete; the sweep follows a leader that was reaped.
EngineInv ==
  /\ E!TypeOK
  /\ eng \in {"out", "poll", "health", "trial"} => answers = [k \in 1..streak |-> "health"]
  /\ eng \in {"out", "poll", "health"} => streak < Consecutive
  /\ eng = "trial" => streak = Consecutive
  /\ eng # "left" => swept < Sweeps
  /\ eng = "sweep" => leader = "reaped"
  /\ E!ReadyIsReady /\ E!NoOrphans

\* What the place the run is at says of the loop and of the outcome.
ClientInv ==
  /\ TypeOK
  /\ at \in {"start", "probe"} => loop = "none"
  /\ at \in {"start", "probe", "body"} => body = "none" /\ ~held
  /\ at = "body" => loop \in {"run", "failed"}
  /\ at = "exit" => loop \in {"stopping", "stopped", "failed"} /\ body # "none"
  /\ at = "close" => loop # "none" /\ body # "none"
  /\ at \in {"await", "final"} => outcome = "ok" /\ loop = "stopped" /\ body # "error"
  /\ at = "start" => http = "closed"
  /\ ClientClosed

\* The thread that writes telemetry has the run's file, the files of other runs are let be,
\* and before the marker the last write is of the whole trajectory.
FileType == [n : Nat, whole : BOOLEAN]

FileOf(n, f, failed) ==
  /\ f \in DOMAIN files
  /\ files[f].whole => files[f].n = n
  /\ ~files[f].whole => failed > 0

TelemetryInv ==
  /\ files \in Seq(FileType) /\ name \in 0..Len(files) /\ ticks \in Nat /\ faults \in Nat
  /\ writers \subseteq [n : Nat, file : 0..Len(files)]
  /\ \A v, w \in writers : v = w
  /\ \A w \in writers : w.file # 0 => w.file = name /\ ~files[name].whole
  /\ at \in {"start", "probe"} => writers = {}
  /\ at = "final" => \A w \in writers : w.n = ticks
  /\ at = "final" /\ ticks > 0 /\ writers = {} => FileOf(ticks, name, faults)
  /\ \A c \in completed : c.ticks > 0 => FileOf(c.ticks, c.file, faults) /\ c.file # name

\* The page that is read is the named engine's, so trtllm-serve's statistics are read at most
\* once, and the reads that asked for nothing are no more than the scrape skipped.
FindInv ==
  /\ kind \in {"vllm", "trtllm", "llamacpp"} /\ exporter \in BOOLEAN /\ events \in 0..MaxEvents
  /\ off \in BOOLEAN /\ fails \in 0..MaxFails /\ blind \in BOOLEAN
  /\ skipped \in Nat /\ skipped < RetryEvery
  /\ late \in Nat /\ late <= S!SkippedNow
  /\ named \in {"none", kind} /\ path = S!MetricsPath(named)
  /\ drained \in Nat /\ drained <= IF named = "none" THEN 0 ELSE 1
  /\ at # "body" => named = "none"

\* A baseline is of the last good read: no gap lies after it, and each engine that did not
\* restart has since then counted what it did.
CountType == [q : Nat, h : Nat]
SinceType == [work : [Series -> CountType], restarted : SUBSET Series, gap : BOOLEAN,
              was : [Series -> CountType]]

Baseline ==
  prefix # S!None =>
    /\ ~since.gap /\ DOMAIN prefix \subseteq Series
    /\ \A s \in DOMAIN prefix : /\ prefix[s].q = since.was[s].q
                                /\ S!Whole(prefix[s]) => prefix[s].h = since.was[s].h
    /\ \A s \in Series \ since.restarted : /\ count[s].q = since.was[s].q + since.work[s].q
                                           /\ count[s].h = since.was[s].h + since.work[s].h

RateInv ==
  /\ shown \subseteq Series /\ count \in [Series -> [q : 0..MaxServed, h : 0..MaxServed]]
  /\ \A s \in Series : count[s].h <= count[s].q
  /\ since \in SinceType /\ \A s \in Series : since.work[s].h <= since.work[s].q
  /\ Baseline /\ S!RateHonest

-----------------------------------------------------------------------------
(* The server.                                                              *)

\* What the proofs use of the assumption on the constants.
LEMMA Bounds == /\ Consecutive \in Nat \ {0} /\ MaxPolls \in Nat \ {0} /\ Sweeps \in Nat \ {0}
                /\ MaxMishaps \in Nat
BY SessionAssumption DEF E!EngineConstants

\* One more good health answer, or none.
LEMMA Answered ==
  ASSUME NEW n \in Nat
  PROVE  /\ Append([k \in 1..n |-> "health"], "health") = [k \in 1..(n + 1) |-> "health"]
         /\ Append([k \in 1..n |-> "health"], "trial")
              = [k \in 1..(n + 1) |-> IF k <= n THEN "health" ELSE "trial"]
         /\ [k \in 1..0 |-> "health"] = << >>
<1> DEFINE h == [k \in 1..n |-> "health"]
<1>1. h \in Seq({"health", "trial"}) /\ Len(h) = n /\ \A k \in 1..n : h[k] = "health"
  OBVIOUS
<1> HIDE DEF h
<1>2. ASSUME NEW x \in {"health", "trial"}
      PROVE  /\ Append(h, x) \in [1..(n + 1) -> {"health", "trial"}]
             /\ Append(h, x)[n + 1] = x
             /\ \A k \in 1..n : Append(h, x)[k] = "health"
  <2>1. /\ Append(h, x) \in Seq({"health", "trial"}) /\ Len(Append(h, x)) = n + 1
        /\ Append(h, x)[n + 1] = x /\ \A k \in 1..n : Append(h, x)[k] = h[k]
    BY <1>1, AppendProperties
  <2>2. Append(h, x) \in [1..(n + 1) -> {"health", "trial"}]
    BY <2>1, LenProperties
  <2>3. QED
    BY <1>1, <2>1, <2>2
<1>3. Append(h, "health") = [k \in 1..(n + 1) |-> "health"]
  <2>1. \A k \in 1..(n + 1) : Append(h, "health")[k] = "health"
    BY <1>2
  <2>2. QED
    BY <1>2, <2>1
<1>4. Append(h, "trial") = [k \in 1..(n + 1) |-> IF k <= n THEN "health" ELSE "trial"]
  <2>1. \A k \in 1..(n + 1) : Append(h, "trial")[k] = IF k <= n THEN "health" ELSE "trial"
    BY <1>2
  <2>2. QED
    BY <1>2, <2>1
<1>5. [k \in 1..0 |-> "health"] = << >>
  OBVIOUS
<1>6. QED
  BY <1>3, <1>4, <1>5 DEF h

\* Nothing was started.
LEMMA EngineInit == E!Init => EngineInv
<1> SUFFICES ASSUME E!Init PROVE EngineInv
  OBVIOUS
<1>1. 0 \in 0..Consecutive /\ 0 \in 0..MaxPolls /\ 0 \in 0..Sweeps /\ 0 \in 0..MaxMishaps
      /\ 0 < Consecutive /\ 0 < Sweeps
  BY Bounds
<1>2. answers = [k \in 1..streak |-> "health"]
  BY Answered DEF E!Init
<1>3. QED
  BY <1>1, <1>2 DEF E!Init, EngineInv, E!TypeOK, E!Places, E!ReadyIsReady, E!NoOrphans

\* What leaves the boot and the sweep alone.
LEMMA EngineRests ==
  ASSUME EngineInv, UNCHANGED <<eng, leader, streak, polls, answers, swept, booted, cut>>,
         mishaps' \in 0..MaxMishaps, child' \in {"none", "up", "zombie"},
         child' = "up" => child = "up" \/ eng # "left"
  PROVE  EngineInv'
BY DEF EngineInv, E!TypeOK, E!Places, E!ReadyIsReady, E!NoOrphans

\* What the server does of itself, while it boots and after.
LEMMA EngineServer ==
  ASSUME EngineInv, E!Server
  PROVE  EngineInv'
<1>1. mishaps \in 0..MaxMishaps /\ MaxMishaps \in Nat
  BY Bounds DEF EngineInv, E!TypeOK
<1>2. UNCHANGED <<eng, streak, polls, answers, swept, booted, cut>>
  BY DEF E!Server, E!boot
<1>3. CASE E!Forks
  BY <1>1, <1>2, <1>3, EngineRests DEF E!Forks
<1>4. CASE E!LeaderEnds
  <2>1. mishaps' \in 0..MaxMishaps /\ leader = "up" /\ leader' = "exited" /\ child' = child
    BY <1>1, <1>4 DEF E!LeaderEnds, E!Unasked
  <2>2. QED
    BY <1>2, <2>1 DEF EngineInv, E!TypeOK, E!Places, E!ReadyIsReady, E!NoOrphans
<1>5. CASE E!ChildEnds
  <2>1. mishaps' \in 0..MaxMishaps
    BY <1>1, <1>5 DEF E!ChildEnds, E!Unasked
  <2>2. QED
    BY <1>2, <1>5, <2>1, EngineRests DEF E!ChildEnds
<1>6. CASE E!ChildReaped
  BY <1>1, <1>2, <1>6, EngineRests DEF E!ChildReaped
<1>7. QED
  BY <1>3, <1>4, <1>5, <1>6 DEF E!Server

\* What _wait_for_health does with each answer.
LEMMA EngineBoot ==
  ASSUME EngineInv, E!Boots
  PROVE  EngineInv'
<1>1. /\ streak \in 0..Consecutive /\ polls \in 0..MaxPolls
      /\ Consecutive \in Nat \ {0} /\ MaxPolls \in Nat \ {0}
  BY Bounds DEF EngineInv, E!TypeOK
<1>2. CASE E!Enter
  BY <1>2 DEF E!Enter, E!boot, EngineInv, E!TypeOK, E!Places, E!ReadyIsReady, E!NoOrphans
<1>3. CASE E!PollDied
  BY <1>3 DEF E!PollDied, E!Fails, E!boot, EngineInv, E!TypeOK, E!Places, E!ReadyIsReady, E!NoOrphans
<1>4. CASE E!PollTimeout
  BY <1>4 DEF E!PollTimeout, E!Fails, E!boot, E!group,
              EngineInv, E!TypeOK, E!Places, E!ReadyIsReady, E!NoOrphans
<1>5. CASE E!PollAlive
  BY <1>1, <1>5 DEF E!PollAlive, E!group, EngineInv, E!TypeOK, E!Places, E!ReadyIsReady, E!NoOrphans
<1>6. ASSUME NEW good \in BOOLEAN, E!Health(good) PROVE EngineInv'
  <2>1. /\ eng = "health" /\ streak' = (IF good THEN streak + 1 ELSE 0)
        /\ answers' = (IF good THEN Append(answers, "health") ELSE << >>)
        /\ eng' = (IF streak' >= Consecutive THEN "trial" ELSE "poll")
        /\ UNCHANGED <<leader, child, polls, swept, booted, mishaps, cut>>
    BY <1>6 DEF E!Health, E!Heard, E!group
  <2>2. answers = [k \in 1..streak |-> "health"] /\ streak < Consecutive
    BY <2>1 DEF EngineInv
  <2>3. /\ streak' \in 0..Consecutive /\ answers' = [k \in 1..streak' |-> "health"]
        /\ eng' = "trial" => streak' = Consecutive
        /\ eng' = "poll" => streak' < Consecutive
    BY <1>1, <2>1, <2>2, Answered
  <2>4. QED
    BY <2>1, <2>3 DEF EngineInv, E!TypeOK, E!Places, E!ReadyIsReady, E!NoOrphans
<1>7. ASSUME NEW good \in BOOLEAN, E!Trial(good) PROVE EngineInv'
  <2>1. /\ eng = "trial" /\ streak' = 0
        /\ answers' = (IF good THEN Append(answers, "trial") ELSE << >>)
        /\ eng' = (IF good THEN "ready" ELSE "poll") /\ booted' = (IF good THEN "yes" ELSE booted)
        /\ polls' = (IF good THEN 0 ELSE polls)
        /\ UNCHANGED <<leader, child, swept, mishaps, cut>>
    BY <1>7 DEF E!Trial, E!Heard, E!group
  <2>2. answers = [k \in 1..Consecutive |-> "health"] /\ Consecutive \in Nat
    BY <1>1, <2>1 DEF EngineInv
  <2>3. good => answers' = [k \in 1..(Consecutive + 1) |-> IF k <= Consecutive THEN "health" ELSE "trial"]
    BY <2>1, <2>2, Answered
  <2>4. ~good => answers' = [k \in 1..streak' |-> "health"] /\ streak' < Consecutive
    BY <1>1, <2>1, Answered
  <2>5. 0 \in 0..Consecutive /\ 0 \in 0..MaxPolls
    BY <1>1
  <2>6. CASE good
    BY <2>1, <2>3, <2>5, <2>6 DEF EngineInv, E!TypeOK, E!Places, E!ReadyIsReady, E!NoOrphans
  <2>7. CASE ~good
    BY <2>1, <2>4, <2>5, <2>7 DEF EngineInv, E!TypeOK, E!Places, E!ReadyIsReady, E!NoOrphans
  <2>8. QED
    BY <2>6, <2>7
<1>8. QED
  BY <1>2, <1>3, <1>4, <1>5, <1>6, <1>7 DEF E!Boots

\* The group is killed, and swept once its leader was reaped.
LEMMA EngineExit ==
  ASSUME EngineInv, E!Exits
  PROVE  EngineInv'
<1>1. swept \in 0..Sweeps /\ Sweeps \in Nat \ {0}
  BY Bounds DEF EngineInv, E!TypeOK
<1>2. CASE E!Terminate
  BY <1>2 DEF E!Terminate, E!boot, EngineInv, E!TypeOK, E!Places, E!ReadyIsReady, E!NoOrphans
<1>3. CASE E!Grace
  BY <1>3 DEF E!Grace, E!boot, EngineInv, E!TypeOK, E!Places, E!ReadyIsReady, E!NoOrphans
<1>4. CASE E!Sweep
  <2>1. swept' \in 0..Sweeps /\ (eng' # "left" => swept' < Sweeps)
    BY <1>1, <1>4 DEF E!Sweep, EngineInv
  <2>2. QED
    BY <1>4, <2>1 DEF E!Sweep, E!boot, EngineInv, E!TypeOK, E!Places, E!ReadyIsReady, E!NoOrphans
<1>5. QED
  BY <1>2, <1>3, <1>4 DEF E!Exits

\* The steps of the client leave the engine.
LEMMA EngineOthers ==
  ASSUME EngineInv, E!Leave \/ E!BootInterrupted \/ E!ExitInterrupted
  PROVE  EngineInv'
<1>1. mishaps \in 0..MaxMishaps /\ MaxMishaps \in Nat
  BY Bounds DEF EngineInv, E!TypeOK
<1>2. CASE E!Leave
  BY <1>2 DEF E!Leave, E!boot, E!group, EngineInv, E!TypeOK, E!Places, E!ReadyIsReady, E!NoOrphans
<1>3. CASE E!BootInterrupted
  <2>1. mishaps' \in 0..MaxMishaps
    BY <1>1, <1>3 DEF E!BootInterrupted
  <2>2. QED
    BY <1>3, <2>1 DEF E!BootInterrupted, E!Fails, E!boot, E!group,
                      EngineInv, E!TypeOK, E!Places, E!ReadyIsReady, E!NoOrphans
<1>4. CASE E!ExitInterrupted
  <2>1. mishaps' \in 0..MaxMishaps
    BY <1>1, <1>4 DEF E!ExitInterrupted
  <2>2. QED
    BY <1>4, <2>1 DEF E!ExitInterrupted, E!boot, E!group,
                      EngineInv, E!TypeOK, E!Places, E!ReadyIsReady, E!NoOrphans
<1>5. QED
  BY <1>2, <1>3, <1>4

\* A cancel of the run is a mishap, and the rest of the run does not touch the server.
LEMMA EngineInterrupt ==
  ASSUME EngineInv, Interrupt \/ UNCHANGED engineVars
  PROVE  EngineInv'
<1>1. mishaps \in 0..MaxMishaps /\ MaxMishaps \in Nat
  BY Bounds DEF EngineInv, E!TypeOK
<1>2. mishaps' \in 0..MaxMishaps
  BY <1>1 DEF Interrupt, engineVars
<1>3. UNCHANGED <<eng, leader, child, streak, polls, answers, swept, booted, cut>>
  BY DEF Interrupt, engineVars
<1>4. child' \in {"none", "up", "zombie"}
  BY <1>3 DEF EngineInv, E!TypeOK
<1>5. QED
  BY <1>2, <1>3, <1>4, EngineRests

\* Each step keeps the engine's invariant.
LEMMA EngineNext ==
  ASSUME EngineInv, Next
  PROVE  EngineInv'
<1>1. CASE EngineBoots
  BY <1>1, EngineBoot DEF EngineBoots
<1>2. CASE EngineExits
  BY <1>2, EngineExit DEF EngineExits
<1>3. CASE EngineMoves
  BY <1>3, EngineServer, EngineOthers DEF EngineMoves
<1>4. CASE EngineLeft
  BY <1>4, EngineOthers DEF EngineLeft
<1>5. CASE Interrupts
  <2>1. Interrupt
    BY <1>5 DEF Interrupts, BeginCancelled, Cancelled, ExitCancelled, EndCancelled
  <2>2. QED
    BY <2>1, EngineInterrupt
<1>6. CASE \/ GaugesMove \/ Run \/ LoopFails \/ Tick \/ Writes
           \/ (\E w \in writers : WriterFails(w)) \/ Over
  <2>1. UNCHANGED engineVars
    BY <1>6 DEF GaugesMove, Run, LoopFails, Tick, Writes, WriterFails, Over, vars, Starts, Begins,
                Finishes, LoopStops, ExitDone, Closes, Final, Marks, Teardown, WriterOpens, WriterEnds
  <2>2. QED
    BY <2>1, EngineInterrupt
<1>7. QED
  BY <1>1, <1>2, <1>3, <1>4, <1>5, <1>6 DEF Next

\* The server that is handed out answered for its readiness, and no process of its group runs
\* when __exit__ is over.
THEOREM EngineAlwaysSound == Spec => []EngineSound
<1>1. Init => EngineInv
  BY EngineInit DEF Init
<1>2. EngineInv /\ [Next]_vars => EngineInv'
  <2>1. ASSUME EngineInv, UNCHANGED vars PROVE EngineInv'
    BY <2>1, EngineInterrupt DEF vars
  <2>2. QED
    BY <2>1, EngineNext
<1>3. EngineInv => EngineSound
  BY DEF EngineInv, EngineSound
<1>4. QED
  BY <1>1, <1>2, <1>3, PTL DEF Spec

-----------------------------------------------------------------------------
(* The client.                                                              *)

\* What the proofs use of the assumption on the constants.
LEMMA RunBounds == MaxTicks \in Nat /\ MaxRuns \in Nat /\ MaxFaults \in Nat /\ Every \in Nat \ {0}
BY SessionAssumption

\* A fault is within its bound.
LEMMA FaultType == ASSUME TypeOK, Fault PROVE faults' \in 0..MaxFaults
BY RunBounds DEF TypeOK, Fault

\* No run has begun.
LEMMA ClientInit == Init => ClientInv
<1> SUFFICES ASSUME Init PROVE ClientInv
  OBVIOUS
<1>1. 0 \in 0..MaxTicks /\ 0 \in 0..MaxRuns /\ 0 \in 0..MaxFaults
  BY RunBounds
<1>2. QED
  BY <1>1 DEF Init, ClientInv, ClientClosed, TypeOK, After

\* The server, the gauges and the writers of telemetry leave the client alone.
LEMMA ClientRests ==
  ASSUME ClientInv, UNCHANGED <<at, http, loop, body, held, outcome, completed, runs>>,
         ticks' \in 0..MaxTicks, faults' \in 0..MaxFaults
  PROVE  ClientInv'
BY DEF ClientInv, ClientClosed, TypeOK, After

\* The steps of a run that nobody cancels.
LEMMA ClientRun ==
  ASSUME ClientInv, Run
  PROVE  ClientInv'
<1>1. 0 \in 0..MaxTicks /\ runs \in 0..MaxRuns /\ MaxRuns \in Nat
  BY RunBounds DEF ClientInv, TypeOK
<1>2. CASE Starts
  <2>1. runs' \in 0..MaxRuns
    BY <1>1, <1>2 DEF Starts
  <2>2. QED
    BY <1>1, <1>2, <2>1 DEF Starts, ClientInv, ClientClosed, TypeOK, After
<1>3. CASE Begins
  BY <1>3 DEF Begins, telemetry, ended, ClientInv, ClientClosed, TypeOK, After
<1>4. CASE Finishes
  <2>1. PICK how \in {"ok", "error"} : BodyEnds(how)
    BY <1>4 DEF Finishes
  <2>2. QED
    BY <2>1 DEF BodyEnds, telemetry, ended, ClientInv, ClientClosed, TypeOK, After
<1>5. CASE LoopStops
  BY <1>5 DEF LoopStops, telemetry, ended, ClientInv, ClientClosed, TypeOK, After
<1>6. CASE ExitDone
  BY <1>6 DEF ExitDone, client, telemetry, ClientInv, ClientClosed, TypeOK, After
<1>7. CASE Closes
  BY <1>7 DEF Closes, telemetry, ended, ClientInv, ClientClosed, TypeOK, After
<1>8. CASE Final
  BY <1>8 DEF Final, client, ended, ClientInv, ClientClosed, TypeOK, After
<1>9. CASE Marks
  <2>1. faults' \in 0..MaxFaults
    BY <1>9, FaultType DEF Marks, ClientInv, TypeOK
  <2>2. UNCHANGED <<http, loop, body, held, ticks, runs>>
    BY <1>9 DEF Marks, client
  <2>3. at = "final" /\ at' = "teardown" /\ outcome' \in {"ok", "error"} /\ loop = "stopped"
    BY <1>9 DEF Marks, ClientInv
  <2>4. \A c \in completed' : c.loop = "stopped"
    BY <1>9, <2>3 DEF Marks, ClientInv, ClientClosed
  <2>5. QED
    BY <2>1, <2>2, <2>3, <2>4 DEF ClientInv, ClientClosed, TypeOK, After
<1>10. CASE Teardown
  BY <1>10 DEF Teardown, telemetry, ended, ClientInv, ClientClosed, TypeOK, After
<1>11. QED
  BY <1>2, <1>3, <1>4, <1>5, <1>6, <1>7, <1>8, <1>9, <1>10 DEF Run

\* A cancel, wherever the run is.
LEMMA ClientInterrupts ==
  ASSUME ClientInv, Interrupts
  PROVE  ClientInv'
<1>1. CASE BeginCancelled
  BY <1>1 DEF BeginCancelled, telemetry, ClientInv, ClientClosed, TypeOK, After
<1>2. CASE Cancelled
  BY <1>2 DEF Cancelled, BodyEnds, telemetry, ended, ClientInv, ClientClosed, TypeOK, After
<1>3. CASE ExitCancelled
  <2>1. /\ at = "exit" /\ loop = "stopping"
        /\ UNCHANGED <<http, loop, body, ticks, completed, runs, faults>>
    BY <1>3 DEF ExitCancelled, telemetry
  <2>2. CASE ~held /\ held' = TRUE /\ UNCHANGED <<at, outcome>>
    BY <2>1, <2>2 DEF ClientInv, ClientClosed, TypeOK, After
  <2>3. CASE held /\ at' = "close" /\ outcome' = "cancel" /\ UNCHANGED held
    BY <2>1, <2>3 DEF ClientInv, ClientClosed, TypeOK, After
  <2>4. QED
    BY <1>3, <2>2, <2>3 DEF ExitCancelled
<1>4. CASE EndCancelled
  BY <1>4 DEF EndCancelled, client, telemetry, ClientInv, ClientClosed, TypeOK, After
<1>5. QED
  BY <1>1, <1>2, <1>3, <1>4 DEF Interrupts

\* Each step keeps the client's invariant.
LEMMA ClientNext ==
  ASSUME ClientInv, Next
  PROVE  ClientInv'
<1>1. ticks \in 0..MaxTicks /\ faults \in 0..MaxFaults /\ MaxTicks \in Nat
  BY RunBounds DEF ClientInv, TypeOK
<1>2. CASE EngineBoots \/ EngineExits \/ EngineMoves \/ EngineLeft \/ GaugesMove \/ Over
  <2>1. UNCHANGED <<at, client, telemetry, ended, runs, faults>>
    BY <1>2 DEF EngineBoots, EngineExits, EngineMoves, EngineLeft, GaugesMove, Over, vars
  <2>2. QED
    BY <1>1, <2>1, ClientRests DEF client, telemetry, ended
<1>3. CASE Run
  BY <1>3, ClientRun
<1>4. CASE Interrupts
  BY <1>4, ClientInterrupts
<1>5. CASE LoopFails
  <2>1. faults' \in 0..MaxFaults
    BY <1>5, FaultType DEF LoopFails, ClientInv
  <2>2. QED
    BY <1>5, <2>1 DEF LoopFails, telemetry, ended, ClientInv, ClientClosed, TypeOK, After
<1>6. CASE Tick
  <2>1. ticks' \in 0..MaxTicks
    BY <1>1, <1>6 DEF Tick, OnTick
  <2>2. QED
    BY <1>1, <1>6, <2>1, ClientRests DEF Tick, client, ended
<1>7. CASE Writes
  BY <1>1, <1>7, ClientRests DEF Writes, WriterOpens, WriterEnds, client, ended
<1>8. CASE \E w \in writers : WriterFails(w)
  <2>1. faults' \in 0..MaxFaults
    BY <1>8, FaultType DEF WriterFails, ClientInv
  <2>2. QED
    BY <1>1, <1>8, <2>1, ClientRests DEF WriterFails, client, ended
<1>9. QED
  BY <1>2, <1>3, <1>4, <1>5, <1>6, <1>7, <1>8 DEF Next

\* However the body ended and whatever was cancelled or crashed, the client is closed and its
\* exit says so.
THEOREM ClientAlwaysClosed == Spec => []ClientClosed
<1>1. ClientInv /\ [Next]_vars => ClientInv'
  <2>1. ASSUME ClientInv, UNCHANGED vars PROVE ClientInv'
    BY <2>1 DEF vars, client, telemetry, ended, ClientInv, ClientClosed, TypeOK, After
  <2>2. QED
    BY <2>1, ClientNext
<1>2. ClientInv => ClientClosed
  BY DEF ClientInv
<1>3. QED
  BY <1>1, <1>2, ClientInit, PTL DEF Spec

-----------------------------------------------------------------------------
(* Telemetry.                                                               *)

\* More faults leave a file as good as it was.
LEMMA FileOfLater ==
  ASSUME NEW n, NEW f, NEW m \in Nat, NEW k \in Nat, m <= k, FileOf(n, f, m)
  PROVE  FileOf(n, f, k)
BY DEF FileOf

\* What leaves the telemetry alone, in the order of the run.
LEMMA TelemetryRests ==
  ASSUME TelemetryInv, UNCHANGED <<ticks, writers, files, name, completed>>,
         faults' \in Nat, faults <= faults',
         at' \in {"start", "probe"} => writers = {}, at' = "final" => at = "final"
  PROVE  TelemetryInv'
<1>1. \A n, f : FileOf(n, f, faults) => FileOf(n, f, faults)'
  BY DEF TelemetryInv, FileOf
<1>2. QED
  BY <1>1 DEF TelemetryInv

\* No file was written.
LEMMA TelemetryInit == Init => TelemetryInv
BY DEF Init, TelemetryInv

\* The next run has a file of its own.
LEMMA TelemetryStarts ==
  ASSUME TelemetryInv, Starts
  PROVE  TelemetryInv'
<1>1. /\ at = "start" /\ at' = "probe" /\ ticks' = 0 /\ name' = 0
      /\ UNCHANGED <<writers, files, completed, faults>>
  BY DEF Starts
<1>2. \A c \in completed : c.ticks > 0 => FileOf(c.ticks, c.file, faults)' /\ c.file # 0
  BY <1>1 DEF TelemetryInv, FileOf
<1>3. QED
  BY <1>1, <1>2 DEF TelemetryInv

\* A tick may spawn the writer.
LEMMA TelemetryTick ==
  ASSUME TelemetryInv, Tick
  PROVE  TelemetryInv'
<1>1. at = "body" /\ at' = "body" /\ ticks' = ticks + 1 /\ UNCHANGED <<files, name, completed, faults>>
  BY DEF Tick, OnTick, ended
<1>2. writers' = writers \/ writers' = {[n |-> ticks + 1, file |-> 0]}
  BY DEF Tick, OnTick, Spawned
<1>3. \A n, f : FileOf(n, f, faults) <=> FileOf(n, f, faults)'
  BY <1>1 DEF FileOf
<1>4. QED
  BY <1>1, <1>2, <1>3 DEF TelemetryInv

\* The complete trajectory is what the last write has.
LEMMA TelemetryFinal ==
  ASSUME TelemetryInv, Final
  PROVE  TelemetryInv'
<1> DEFINE last == [n |-> ticks, file |-> 0]
<1>1. at' = "final" /\ UNCHANGED <<ticks, files, name, completed, faults>>
  BY DEF Final, ended
<1>2. writers' = IF ticks > 0 THEN {last} ELSE {}
  BY DEF Final, Spawned
<1>3. \A n, f : FileOf(n, f, faults) <=> FileOf(n, f, faults)'
  BY <1>1 DEF FileOf
<1>4. Len(files) \in Nat /\ ticks \in Nat
  BY DEF TelemetryInv
<1>5. last \in [n : Nat, file : 0..Len(files)] /\ last.file = 0 /\ last.n = ticks
  BY <1>4
<1> HIDE DEF last
<1>6. CASE ticks > 0
  BY <1>1, <1>2, <1>3, <1>5, <1>6 DEF TelemetryInv
<1>7. CASE ~(ticks > 0)
  BY <1>1, <1>2, <1>3, <1>7 DEF TelemetryInv
<1>8. QED
  BY <1>6, <1>7

\* The marker's record is of the file the last write went to, which no later write has.
LEMMA TelemetryMarks ==
  ASSUME TelemetryInv, Marks
  PROVE  TelemetryInv'
<1>1. /\ at = "final" /\ writers = {} /\ at' = "teardown" /\ UNCHANGED <<ticks, writers, files>>
      /\ faults' \in Nat /\ faults <= faults'
  BY DEF Marks, Fault, TelemetryInv
<1>2. \A n, f : FileOf(n, f, faults) => FileOf(n, f, faults)'
  BY <1>1 DEF TelemetryInv, FileOf
<1>3. CASE /\ name' = 0
           /\ completed' = completed \cup {[run |-> runs, file |-> name, ticks |-> ticks, loop |-> loop]}
  <2>1. \A c \in completed' : c.ticks > 0 => FileOf(c.ticks, c.file, faults)
    BY <1>1, <1>3 DEF TelemetryInv
  <2>2. \A n, f : FileOf(n, f, faults) => f # 0
    BY DEF FileOf, TelemetryInv
  <2>3. \A c \in completed' : c.ticks > 0 => FileOf(c.ticks, c.file, faults)' /\ c.file # name'
    BY <1>2, <1>3, <2>1, <2>2
  <2>4. name' \in 0..Len(files)
    BY <1>3 DEF TelemetryInv
  <2>5. QED
    BY <1>1, <2>3, <2>4 DEF TelemetryInv
<1>4. CASE UNCHANGED <<name, completed>>
  BY <1>1, <1>4, TelemetryRests
<1>5. QED
  BY <1>3, <1>4 DEF Marks

\* A write opens the run's file, which no marker names.
LEMMA TelemetryOpens ==
  ASSUME TelemetryInv, NEW w, WriterOpens(w)
  PROVE  TelemetryInv'
<1> DEFINE new == IF name = 0 THEN Len(files) + 1 ELSE name
           v == [w EXCEPT !.file = new]
           empty == [n |-> 0, whole |-> FALSE]
<1>1. /\ w \in writers /\ w.file = 0 /\ name' = new /\ writers' = (writers \ {w}) \cup {v}
      /\ files' = IF new > Len(files) THEN Append(files, empty) ELSE [files EXCEPT ![new] = empty]
      /\ UNCHANGED <<at, ticks, completed, faults>>
  BY DEF WriterOpens, client, ended
<1>2. Len(files) \in Nat /\ name \in 0..Len(files) /\ files \in Seq(FileType)
  BY DEF TelemetryInv
<1>3. empty \in FileType
  BY DEF FileType
<1>4. /\ files' \in Seq(FileType) /\ new \in 1..Len(files') /\ Len(files) <= Len(files')
      /\ files'[new] = empty /\ \A k \in 1..Len(files) : k # new => files'[k] = files[k]
  <2> HIDE DEF empty
  <2>1. CASE name = 0
    BY <1>1, <1>2, <1>3, <2>1, AppendProperties
  <2>2. CASE name # 0
    <3>1. new \in 1..Len(files) /\ files' = [files EXCEPT ![new] = empty]
      BY <1>1, <1>2, <2>2
    <3> HIDE DEF new
    <3>2. QED
      BY <1>2, <1>3, <3>1
  <2>3. QED
    BY <2>1, <2>2
<1>5. w.n \in Nat /\ v = [n |-> w.n, file |-> new]
  BY <1>1 DEF TelemetryInv
<1>6. writers = {w}
  BY <1>1 DEF TelemetryInv
<1> HIDE DEF v, new
<1>7. writers' = {v}
  BY <1>1, <1>6
<1>8. v \in [n : Nat, file : 0..Len(files')]
  BY <1>4, <1>5
<1>9. \A c \in completed : c.ticks > 0 => FileOf(c.ticks, c.file, faults)' /\ c.file # new
  <2>1. ASSUME NEW c \in completed, c.ticks > 0 PROVE FileOf(c.ticks, c.file, faults)' /\ c.file # new
    <3>1. c.file \in 1..Len(files) /\ c.file # name /\ FileOf(c.ticks, c.file, faults)
      BY <2>1, <1>2 DEF TelemetryInv, FileOf
    <3>2. c.file # new
      BY <3>1, <1>2 DEF new
    <3>3. files'[c.file] = files[c.file] /\ c.file \in DOMAIN files'
      BY <1>2, <1>4, <3>1, <3>2
    <3>4. QED
      BY <1>1, <3>1, <3>2, <3>3 DEF FileOf
  <2>2. QED
    BY <2>1
<1>10. ~files'[name'].whole
  BY <1>1, <1>4
<1>11. at = "final" => v.n = ticks
  BY <1>1, <1>5 DEF TelemetryInv
<1>12. at \notin {"start", "probe"}
  BY <1>1 DEF TelemetryInv
<1>13. name' \in 0..Len(files')
  BY <1>1, <1>4
<1>14. QED
  BY <1>1, <1>4, <1>5, <1>7, <1>8, <1>9, <1>10, <1>11, <1>12, <1>13 DEF TelemetryInv

\* A write that ends leaves the run's file whole; one that fails leaves it as it is.
LEMMA TelemetryCloses ==
  ASSUME TelemetryInv, NEW w, WriterEnds(w) \/ WriterFails(w)
  PROVE  TelemetryInv'
<1>1. /\ w \in writers /\ w.file # 0 /\ writers' = writers \ {w}
      /\ UNCHANGED <<at, ticks, name, completed>>
  BY DEF WriterEnds, WriterFails, client, ended
<1>2. /\ writers = {w} /\ w.file = name /\ w.n \in Nat /\ name \in 1..Len(files) /\ ~files[name].whole
      /\ files \in Seq(FileType) /\ at \notin {"start", "probe"} /\ faults \in Nat
      /\ at = "final" => w.n = ticks
  BY <1>1 DEF TelemetryInv
<1>3. writers' = {}
  BY <1>1, <1>2
<1>4. CASE WriterEnds(w)
  <2> DEFINE whole == [n |-> w.n, whole |-> TRUE]
  <2>1. files' = [files EXCEPT ![name] = whole] /\ faults' = faults
    BY <1>2, <1>4 DEF WriterEnds
  <2>2. whole \in FileType
    BY <1>2 DEF FileType
  <2>3. /\ files' \in Seq(FileType) /\ Len(files') = Len(files)
        /\ files'[name] = whole /\ \A k \in 1..Len(files) : k # name => files'[k] = files[k]
    <3> HIDE DEF whole
    <3>1. QED
      BY <1>2, <2>1, <2>2
  <2>4. \A c \in completed : c.ticks > 0 => FileOf(c.ticks, c.file, faults)'
    BY <1>1, <1>2, <2>1, <2>3 DEF TelemetryInv, FileOf
  <2>5. at = "final" => FileOf(ticks, name, faults)'
    BY <1>1, <1>2, <2>3 DEF FileOf
  <2>6. QED
    BY <1>1, <1>2, <1>3, <2>1, <2>3, <2>4, <2>5 DEF TelemetryInv
<1>5. CASE WriterFails(w)
  <2>1. files' = files /\ faults' = faults + 1
    BY <1>5 DEF WriterFails, Fault
  <2>2. \A n, f : FileOf(n, f, faults) => FileOf(n, f, faults)'
    BY <1>2, <2>1 DEF FileOf
  <2>3. FileOf(ticks, name, faults)'
    BY <1>1, <1>2, <2>1 DEF FileOf
  <2>4. QED
    BY <1>1, <1>2, <1>3, <2>1, <2>2, <2>3 DEF TelemetryInv
<1>6. QED
  BY <1>4, <1>5

\* Each step keeps the invariant of the files.
LEMMA TelemetryNext ==
  ASSUME TelemetryInv, Next
  PROVE  TelemetryInv'
<1>1. faults \in Nat
  BY DEF TelemetryInv
<1>2. CASE EngineBoots \/ EngineExits \/ EngineMoves \/ EngineLeft \/ GaugesMove \/ Over
  <2>1. UNCHANGED <<at, telemetry, ended, faults>>
    BY <1>2 DEF EngineBoots, EngineExits, EngineMoves, EngineLeft, GaugesMove, Over, vars
  <2>2. QED
    BY <1>1, <2>1, TelemetryRests DEF telemetry, ended, TelemetryInv
<1>3. CASE Begins \/ Finishes \/ LoopStops \/ ExitDone \/ Closes \/ Teardown
  <2>1. /\ UNCHANGED <<ticks, writers, files, name, completed, faults>>
        /\ at' \in {"start", "probe"} => writers = {}
        /\ at' = "final" => at = "final"
    BY <1>3 DEF Begins, Finishes, BodyEnds, LoopStops, ExitDone, Closes, Teardown, telemetry, ended,
                TelemetryInv
  <2>2. QED
    BY <1>1, <2>1, TelemetryRests
<1>4. CASE Starts \/ Final \/ Marks
  BY <1>4, TelemetryStarts, TelemetryFinal, TelemetryMarks
<1>5. CASE Interrupts
  <2>1. /\ UNCHANGED <<ticks, writers, files, name, completed, faults>>
        /\ at' \in {"start", "probe"} => writers = {}
        /\ at' = "final" => at = "final"
    BY <1>5 DEF Interrupts, BeginCancelled, Cancelled, BodyEnds, ExitCancelled, EndCancelled,
                telemetry, ended
  <2>2. QED
    BY <1>1, <2>1, TelemetryRests
<1>6. CASE LoopFails
  <2>1. faults' \in Nat /\ faults <= faults'
    BY <1>1, <1>6 DEF LoopFails, Fault
  <2>2. QED
    BY <1>6, <2>1, TelemetryRests DEF LoopFails, telemetry, ended
<1>7. CASE Tick
  BY <1>7, TelemetryTick
<1>8. CASE Writes \/ \E w \in writers : WriterFails(w)
  BY <1>8, TelemetryOpens, TelemetryCloses DEF Writes
<1>9. QED
  BY <1>2, <1>3, <1>4, <1>5, <1>6, <1>7, <1>8 DEF Next, Run

\* One thread writes telemetry at a time, and a run's marker is never beside a trajectory that
\* is not the run's whole one, unless a write failed.
THEOREM TelemetryAlwaysWhole == Spec => []TelemetryWhole
<1>1. TelemetryInv /\ [Next]_vars => TelemetryInv'
  <2>1. ASSUME TelemetryInv, UNCHANGED vars PROVE TelemetryInv'
    BY <2>1, TelemetryRests DEF vars, telemetry, ended, TelemetryInv
  <2>2. QED
    BY <2>1, TelemetryNext
<1>2. TelemetryInv => TelemetryWhole
  <2> SUFFICES ASSUME TelemetryInv PROVE TelemetryWhole
    OBVIOUS
  <2>1. writers = {} \/ \E w : writers = {w}
    <3>1. \A v, w \in writers : v = w
      BY DEF TelemetryInv
    <3>2. ASSUME NEW w \in writers PROVE writers = {w}
      BY <3>1
    <3>3. QED
      BY <3>2
  <2>2. Cardinality(writers) <= 1
    BY <2>1, FS_EmptySet, FS_Singleton
  <2>3. QED
    BY <2>2 DEF TelemetryInv, TelemetryWhole, FileOf
<1>3. QED
  BY <1>1, <1>2, TelemetryInit, PTL DEF Spec

-----------------------------------------------------------------------------
(* The scrape.                                                              *)

\* The steps that read nothing.
LEMMA FindRests ==
  ASSUME FindInv, UNCHANGED <<kind, exporter, off, fails, blind, skipped, late, named, path, drained>>,
         events' \in 0..MaxEvents, at' # "body" => at # "body"
  PROVE  FindInv'
BY DEF FindInv, S!SkippedNow

\* The server's moves cost a run no read.
LEMMA FindServer ==
  ASSUME FindInv, GaugesMove
  PROVE  FindInv'
<1>1. at = "body" /\ at' = at /\ S!ServerMoves /\ MaxEvents \in Nat
  BY SessionAssumption DEF GaugesMove, S!ScrapeConstants
<1>2. CASE S!ExporterComesUp
  BY <1>1, <1>2 DEF S!ExporterComesUp, S!scraper, S!ghosts, FindInv, S!SkippedNow
<1>3. ASSUME NEW s \in Series, S!Serves(s) \/ S!SeriesRestarts(s) \/ S!SeriesMoves(s)
      PROVE  FindInv'
  <2>1. S!Event /\ UNCHANGED <<kind, exporter, off, fails, blind, skipped, late, named, path, drained>>
    BY <1>3 DEF S!Serves, S!SeriesRestarts, S!SeriesMoves, S!scraper, S!ghosts
  <2>2. events' \in 0..MaxEvents
    BY <1>1, <2>1 DEF S!Event, FindInv
  <2>3. QED
    BY <1>1, <2>1, <2>2, FindRests
<1>4. QED
  BY <1>1, <1>2, <1>3 DEF S!ServerMoves

\* The probe names the server or nothing, and the page is that of the name.
LEMMA FindBegins ==
  ASSUME FindInv, Begins
  PROVE  FindInv'
<1>1. PICK a \in BOOLEAN : S!Probed(a)
  BY DEF Begins
<1>2. /\ named' = S!Found(a) /\ path' = S!MetricsPath(S!Found(a)) /\ off' \in BOOLEAN
      /\ UNCHANGED <<kind, exporter, events, fails, blind, skipped, late, drained>>
      /\ at = "probe" /\ at' = "body"
  BY <1>1 DEF Begins, S!Probed, S!Identified, S!server, S!ghosts
<1>3. S!Found(a) \in {"none", kind} /\ named = "none"
  BY <1>2 DEF S!Found, FindInv
<1>4. QED
  BY <1>2, <1>3 DEF FindInv, S!SkippedNow, S!MetricsPath

\* The next scraper begins again.
LEMMA FindFresh ==
  ASSUME FindInv, NEW how, BodyEnds(how)
  PROVE  FindInv'
<1>1. RetryEvery \in Nat \ {0} /\ MaxFails \in Nat
  BY SessionAssumption DEF S!ScrapeConstants
<1>2. /\ named' = "none" /\ path' = "/metrics" /\ off' = FALSE /\ fails' = 0 /\ blind' = FALSE
      /\ skipped' = 0 /\ late' = 0 /\ drained' = 0 /\ UNCHANGED <<kind, exporter, events>>
  BY DEF BodyEnds, S!Fresh
<1>3. path' = S!MetricsPath(named') /\ S!SkippedNow' = 0
  BY <1>2 DEF S!MetricsPath, S!SkippedNow
<1>4. drained' <= IF named' = "none" THEN 0 ELSE 1
  BY <1>2
<1>5. 0 \in 0..MaxFails /\ 0 < RetryEvery
  BY <1>1
<1>6. QED
  BY <1>2, <1>3, <1>4, <1>5 DEF FindInv

\* A read either skips, and counts it, or asks.
LEMMA FindRead ==
  ASSUME FindInv, NEW alive, S!Read(alive), at = "body", at' = at
  PROVE  FindInv'
<1>1. /\ RetryEvery \in Nat \ {0} /\ MaxFails \in Nat \ {0} /\ MaxEvents \in Nat
      /\ fails \in 0..MaxFails /\ skipped \in Nat /\ skipped < RetryEvery /\ late \in Nat
  BY SessionAssumption DEF S!ScrapeConstants, FindInv
<1>2. UNCHANGED <<kind, exporter, events>>
  BY DEF S!Read, S!ReadOff, S!ReadNothing, S!ReadMiss, S!ReadStats, S!ReadGauges, S!server
<1>3. CASE S!ReadOff
  BY <1>1, <1>2, <1>3 DEF FindInv, S!ReadOff, S!SkippedNow, S!ghosts
<1>4. CASE S!ReadNothing
  <2>1. /\ S!SkippedNow + 1 < RetryEvery /\ S!SkippedNow \in Nat /\ late <= S!SkippedNow
        /\ skipped' = S!SkippedNow + 1 /\ blind' = TRUE /\ late' \in {late + 1, 0}
        /\ UNCHANGED <<off, fails, named, path, drained>>
    BY <1>1, <1>4 DEF FindInv, S!ReadNothing, S!SitsOut, S!SkippedNow
  <2>2. skipped' \in Nat /\ skipped' < RetryEvery /\ late' \in Nat /\ late' <= skipped'
    <3> DEFINE n == S!SkippedNow
    <3>1. n \in Nat /\ n + 1 < RetryEvery /\ late <= n /\ skipped' = n + 1 /\ late' \in {late + 1, 0}
      BY <2>1
    <3> HIDE DEF n
    <3>2. QED
      BY <1>1, <3>1
  <2>3. S!SkippedNow' = skipped'
    BY <2>1 DEF S!SkippedNow
  <2>4. QED
    BY <1>2, <2>1, <2>2, <2>3 DEF FindInv
<1>5. ASSUME fails' \in 0..MaxFails, blind' \in BOOLEAN, skipped' \in {skipped, 0}, late' = 0,
             off' = off, named' \in {"none", kind}, path' = S!MetricsPath(named'),
             drained' \in Nat, drained' <= IF named' = "none" THEN 0 ELSE 1
      PROVE  FindInv'
  <2>1. skipped' \in Nat /\ skipped' < RetryEvery
    BY <1>1, <1>5
  <2>2. late' \in Nat /\ late' <= S!SkippedNow'
    BY <1>5, <2>1 DEF S!SkippedNow
  <2>3. path' = S!MetricsPath(named')
    BY <1>5
  <2>4. QED
    BY <1>2, <1>5, <2>1, <2>2, <2>3 DEF FindInv
<1>6. ASSUME NEW lost \in BOOLEAN, S!ReadMiss(lost) PROVE FindInv'
  <2>1. ~(S!HasStats /\ ~lost)
    BY <1>6 DEF FindInv, S!ReadMiss, S!HasStats, S!MetricsPath
  <2>2. /\ fails' \in 0..MaxFails /\ blind' \in BOOLEAN /\ skipped' \in {skipped, 0} /\ late' = 0
        /\ UNCHANGED <<off, named, path, drained>>
    BY <1>1, <1>6, <2>1 DEF FindInv, S!ReadMiss, S!Asking, S!Miss
  <2>3. QED
    BY <1>5, <2>2 DEF FindInv
<1>7. CASE S!ReadStats
  <2>1. kind = "trtllm" /\ named = "none" /\ named' = "trtllm" /\ path' = S!MetricsPath("trtllm")
    BY <1>7 DEF S!ReadStats, S!HasStats
  <2>2. drained = 0 /\ drained' = 1
    BY <1>7, <2>1 DEF S!ReadStats, FindInv
  <2>3. /\ fails' \in 0..MaxFails /\ blind' \in BOOLEAN /\ skipped' \in {skipped, 0} /\ late' = 0
        /\ off' = off
    BY <1>1, <1>7 DEF FindInv, S!ReadStats, S!Asking, S!Miss
  <2>4. QED
    BY <1>5, <2>1, <2>2, <2>3
<1>8. CASE S!ReadGauges
  <2>1. named' = kind /\ path' = S!MetricsPath(kind) /\ drained' = drained
    BY <1>8 DEF S!ReadGauges, S!HasGauges
  <2>2. fails' = 0 /\ blind' = FALSE /\ skipped' \in {skipped, 0} /\ late' = 0 /\ off' = off
    BY <1>8 DEF S!ReadGauges
  <2>3. drained' \in Nat /\ drained' <= IF named' = "none" THEN 0 ELSE 1
    BY <2>1 DEF FindInv
  <2>4. fails' \in 0..MaxFails /\ blind' \in BOOLEAN
    <3>1. 0 \in 0..MaxFails
      BY <1>1
    <3>2. QED
      BY <2>2, <3>1
  <2>5. named' \in {"none", kind} /\ path' = S!MetricsPath(named')
    BY <2>1
  <2>6. QED
    BY <1>5, <2>2, <2>3, <2>4, <2>5
<1>9. QED
  BY <1>3, <1>4, <1>6, <1>7, <1>8 DEF S!Read

\* Each step keeps what is said of finding the gauges.
LEMMA FindNext ==
  ASSUME FindInv, Next
  PROVE  FindInv'
<1>1. CASE GaugesMove
  BY <1>1, FindServer
<1>2. CASE Begins
  BY <1>2, FindBegins
<1>3. CASE Finishes \/ Cancelled
  BY <1>3, FindFresh DEF Finishes, Cancelled
<1>4. CASE Tick
  BY <1>4, FindRead DEF Tick
<1>5. ASSUME UNCHANGED scrapeVars, at' # "body" => at # "body" PROVE FindInv'
  BY <1>5, FindRests DEF scrapeVars, FindInv
<1>6. CASE EngineBoots \/ EngineExits \/ EngineMoves \/ EngineLeft \/ LoopFails \/ Writes \/ Over
           \/ \E w \in writers : WriterFails(w)
  BY <1>5, <1>6 DEF EngineBoots, EngineExits, EngineMoves, EngineLeft, LoopFails, Writes, Over, vars,
                    WriterOpens, WriterEnds, WriterFails
<1>7. CASE Starts \/ LoopStops \/ ExitDone \/ Closes \/ Final \/ Marks \/ Teardown
  BY <1>5, <1>7 DEF Starts, LoopStops, ExitDone, Closes, Final, Marks, Teardown
<1>8. CASE BeginCancelled \/ ExitCancelled \/ EndCancelled
  BY <1>5, <1>8 DEF BeginCancelled, ExitCancelled, EndCancelled
<1>9. QED
  BY <1>1, <1>2, <1>3, <1>4, <1>6, <1>7, <1>8 DEF Next, Run, Interrupts

\* The steps that touch neither the counters nor the readings.
LEMMA RateRests ==
  ASSUME RateInv, UNCHANGED <<shown, count, since, prefix, rate, truth>>
  PROVE  RateInv'
BY DEF RateInv, Baseline, S!RateHonest

\* Two readings are compared: what an engine does counts in both, and one that restarts is
\* not compared.
LEMMA RateServer ==
  ASSUME RateInv, GaugesMove
  PROVE  RateInv'
<1>1. S!ServerMoves /\ UNCHANGED <<prefix, rate, truth>>
  BY DEF GaugesMove, S!ServerMoves, S!ExporterComesUp, S!Serves, S!SeriesRestarts, S!SeriesMoves,
         S!scraper, S!ghosts
<1>2. S!RateHonest'
  BY <1>1 DEF RateInv, S!RateHonest
<1>3. CASE S!ExporterComesUp
  BY <1>1, <1>3, RateRests DEF S!ExporterComesUp, S!ghosts
<1>4. ASSUME NEW s \in Series, S!SeriesMoves(s) PROVE RateInv'
  <2>1. shown' \subseteq Series /\ UNCHANGED <<count, since>>
    BY <1>4 DEF S!SeriesMoves, S!SymDiff, S!ghosts, RateInv
  <2>2. QED
    BY <1>1, <1>2, <2>1 DEF RateInv, Baseline
<1>5. /\ count \in [Series -> [q : 0..MaxServed, h : 0..MaxServed]] /\ MaxServed \in Nat
      /\ \A s \in Series : count[s].h <= count[s].q
      /\ since.work \in [Series -> CountType] /\ since.restarted \subseteq Series /\ since.gap \in BOOLEAN
      /\ since.was \in [Series -> CountType]
      /\ \A s \in Series : since.work[s].h <= since.work[s].q
  BY SessionAssumption DEF RateInv, SinceType, S!ScrapeConstants
<1>6. ASSUME NEW c \in [Series -> [q : 0..MaxServed, h : 0..MaxServed]], count' = c,
             NEW w \in [Series -> CountType], NEW r \in SUBSET Series,
             since' = [work |-> w, restarted |-> r, gap |-> since.gap, was |-> since.was],
             \A s \in Series : c[s].h <= c[s].q /\ w[s].h <= w[s].q,
             since.restarted \subseteq r, shown' = shown,
             \A s \in Series \ r : \E q, h \in Nat :
               /\ c[s].q = count[s].q + q /\ c[s].h = count[s].h + h
               /\ w[s].q = since.work[s].q + q /\ w[s].h = since.work[s].h + h
      PROVE  RateInv'
  <2>1. since' \in SinceType
    BY <1>5, <1>6 DEF SinceType
  <2>2. since'.work = w /\ since'.restarted = r /\ since'.gap = since.gap /\ since'.was = since.was
    BY <1>6
  <2>3. Baseline'
    <3>1. SUFFICES ASSUME prefix # S!None PROVE Baseline'
      BY <1>1 DEF Baseline
    <3>2. ASSUME NEW s \in Series \ r
          PROVE  c[s].q = since.was[s].q + w[s].q /\ c[s].h = since.was[s].h + w[s].h
      <4>1. PICK q, h \in Nat : /\ c[s].q = count[s].q + q /\ c[s].h = count[s].h + h
                                /\ w[s].q = since.work[s].q + q /\ w[s].h = since.work[s].h + h
        BY <1>6
      <4>2. /\ count[s].q = since.was[s].q + since.work[s].q
            /\ count[s].h = since.was[s].h + since.work[s].h
        BY <1>6, <3>1 DEF RateInv, Baseline
      <4>3. since.was[s] \in CountType /\ since.work[s] \in CountType
        BY <1>5
      <4>4. QED
        BY <4>1, <4>2, <4>3 DEF CountType
    <3>3. QED
      BY <1>1, <1>6, <2>2, <3>1, <3>2 DEF RateInv, Baseline
  <2>4. QED
    BY <1>2, <1>6, <2>1, <2>2, <2>3 DEF RateInv
<1>7. ASSUME NEW s \in Series, S!Serves(s) PROVE RateInv'
  <2>1. PICK q \in 1..(MaxServed - count[s].q) : \E h \in 0..q :
          /\ count' = [count EXCEPT ![s] = [q |-> @.q + q, h |-> @.h + h]]
          /\ since' = [since EXCEPT !.work[s] = [q |-> @.q + q, h |-> @.h + h]]
    BY <1>7 DEF S!Serves
  <2>2. PICK h \in 0..q :
          /\ count' = [count EXCEPT ![s] = [q |-> @.q + q, h |-> @.h + h]]
          /\ since' = [since EXCEPT !.work[s] = [q |-> @.q + q, h |-> @.h + h]]
    BY <2>1
  <2> DEFINE c == [count EXCEPT ![s] = [q |-> @.q + q, h |-> @.h + h]]
             w == [since.work EXCEPT ![s] = [q |-> @.q + q, h |-> @.h + h]]
  <2>3. /\ count[s] \in [q : 0..MaxServed, h : 0..MaxServed] /\ since.work[s] \in CountType
        /\ count[s].h <= count[s].q /\ since.work[s].h <= since.work[s].q
    BY <1>5
  <2>4. /\ q \in Nat /\ h \in Nat /\ h <= q
        /\ [q |-> count[s].q + q, h |-> count[s].h + h] \in [q : 0..MaxServed, h : 0..MaxServed]
        /\ [q |-> since.work[s].q + q, h |-> since.work[s].h + h] \in CountType
    BY <1>5, <2>1, <2>2, <2>3 DEF CountType
  <2>5. c \in [Series -> [q : 0..MaxServed, h : 0..MaxServed]] /\ w \in [Series -> CountType]
    BY <1>5, <2>4
  <2>6. \A x \in Series : c[x].h <= c[x].q /\ w[x].h <= w[x].q
    <3>1. ASSUME NEW x \in Series PROVE c[x].h <= c[x].q /\ w[x].h <= w[x].q
      <4>1. CASE x = s
        BY <1>5, <2>3, <2>4, <4>1 DEF CountType
      <4>2. CASE x # s
        BY <1>5, <4>2
      <4>3. QED
        BY <4>1, <4>2
    <3>2. QED
      BY <3>1
  <2>7. ASSUME NEW x \in Series
        PROVE  \E qq, hh \in Nat : /\ c[x].q = count[x].q + qq /\ c[x].h = count[x].h + hh
                                   /\ w[x].q = since.work[x].q + qq /\ w[x].h = since.work[x].h + hh
    <3>1. CASE x = s
      BY <1>5, <2>4, <3>1
    <3>2. CASE x # s
      <4>1. c[x] = count[x] /\ w[x] = since.work[x] /\ count[x] \in [q : 0..MaxServed, h : 0..MaxServed]
            /\ since.work[x] \in CountType
        BY <1>5, <3>2
      <4> HIDE DEF c, w
      <4>2. /\ c[x].q = count[x].q + 0 /\ c[x].h = count[x].h + 0
            /\ w[x].q = since.work[x].q + 0 /\ w[x].h = since.work[x].h + 0
        BY <1>5, <4>1 DEF CountType
      <4>3. QED
        BY <4>2
    <3>3. QED
      BY <3>1, <3>2
  <2>8. since' = [work |-> w, restarted |-> since.restarted, gap |-> since.gap, was |-> since.was]
    BY <2>2 DEF RateInv, SinceType
  <2>9. count' = c /\ shown' = shown
    BY <1>7, <2>2 DEF S!Serves
  <2> HIDE DEF c, w
  <2>10. QED
    BY <1>5, <1>6, <2>5, <2>6, <2>7, <2>8, <2>9
<1>8. ASSUME NEW s \in Series, S!SeriesRestarts(s) PROVE RateInv'
  <2> DEFINE c == [count EXCEPT ![s] = S!NoCounts]
             r == since.restarted \cup {s}
  <2>1. count' = c /\ shown' = shown /\ since' = [since EXCEPT !.restarted = r]
    BY <1>8 DEF S!SeriesRestarts
  <2>2. since' = [work |-> since.work, restarted |-> r, gap |-> since.gap, was |-> since.was]
    BY <2>1 DEF RateInv, SinceType
  <2>3. c \in [Series -> [q : 0..MaxServed, h : 0..MaxServed]] /\ \A x \in Series : c[x].h <= c[x].q
    BY <1>5 DEF S!NoCounts
  <2>4. ASSUME NEW x \in Series \ r
        PROVE  \E qq, hh \in Nat : /\ c[x].q = count[x].q + qq /\ c[x].h = count[x].h + hh
                                   /\ since.work[x].q = since.work[x].q + qq
                                   /\ since.work[x].h = since.work[x].h + hh
    <3>1. c[x] = count[x] /\ count[x] \in [q : 0..MaxServed, h : 0..MaxServed] /\ since.work[x] \in CountType
      BY <1>5, <2>4
    <3> HIDE DEF c
    <3>2. /\ c[x].q = count[x].q + 0 /\ c[x].h = count[x].h + 0
          /\ since.work[x].q = since.work[x].q + 0 /\ since.work[x].h = since.work[x].h + 0
      BY <1>5, <3>1 DEF CountType
    <3>3. QED
      BY <3>2
  <2>5. r \in SUBSET Series /\ since.restarted \subseteq r
    BY <1>5
  <2> HIDE DEF c, r
  <2>6. QED
    BY <1>5, <1>6, <2>1, <2>2, <2>3, <2>4, <2>5
<1>9. QED
  BY <1>1, <1>3, <1>4, <1>7, <1>8 DEF S!ServerMoves

\* A new scraper has no reading to compare with.
LEMMA RateFresh ==
  ASSUME S!Fresh
  PROVE  RateInv'
<1>1. MaxServed \in Nat \ {0}
  BY SessionAssumption DEF S!ScrapeConstants
<1>2. prefix' = S!None /\ rate' = S!None /\ shown' = Series /\ count' = S!Earlier /\ since' = S!Nothing
  BY DEF S!Fresh
<1>3. S!Zero \in [Series -> CountType] /\ S!Earlier \in [Series -> [q : 0..MaxServed, h : 0..MaxServed]]
  BY <1>1 DEF S!Zero, S!Earlier, S!NoCounts, CountType
<1>4. since' \in SinceType /\ \A s \in Series : since'.work[s].h <= since'.work[s].q
  BY <1>2, <1>3 DEF S!Nothing, SinceType, S!Zero, S!NoCounts
<1>5. \A s \in Series : count'[s].h <= count'[s].q
  BY <1>2 DEF S!Earlier
<1>6. QED
  BY <1>2, <1>3, <1>4, <1>5 DEF RateInv, Baseline, S!RateHonest

\* No rate across a read that missed.
LEMMA RateMiss ==
  ASSUME RateInv, S!Miss, UNCHANGED <<shown, count>>
  PROVE  RateInv'
<1>1. prefix' = S!None /\ rate' = S!None /\ since' = [since EXCEPT !.gap = TRUE]
  BY DEF S!Miss
<1>2. since' \in SinceType /\ since'.work = since.work
  BY <1>1 DEF RateInv, SinceType
<1>3. QED
  BY <1>1, <1>2 DEF RateInv, Baseline, S!RateHonest

\* Scrape's sum is the one the lemmas speak of.
LEMMA SumsAgree ==
  ASSUME NEW w, NEW R, NEW f
  PROVE  S!Sum(w, R, f) = Sum([s \in R |-> w[s][f]], R)
BY DEF S!Sum, S!SumFunctionOnSet, S!FoldFunctionOnSet, S!MapThenFoldSet, Sum, SumFunctionOnSet,
       FoldFunctionOnSet, MapThenFoldSet

\* Engines behind one endpoint are finitely many.
LEMMA FiniteSeries == IsFiniteSet(Series)
<1>1. S!IsFiniteSet(Series)
  BY SessionAssumption DEF S!ScrapeConstants
<1>2. QED
  BY <1>1 DEF S!IsFiniteSet, IsFiniteSet

\* The difference of two sums, when it is what `c` holds of the engines in R.
LEMMA Differences ==
  ASSUME NEW R \in SUBSET Series, NEW a, NEW b, NEW c,
         \A s \in R : a[s] \in Nat /\ b[s] \in Nat /\ a[s] >= b[s],
         \A s \in Series : c[s] \in Nat
  PROVE  /\ Sum(a, R) - Sum(b, R) \in Nat
         /\ (\A s \in R : c[s] = a[s] - b[s]) /\ (\A s \in Series \ R : c[s] = 0)
              => Sum(a, R) - Sum(b, R) = Sum(c, Series)
<1>1. IsFiniteSet(Series) /\ IsFiniteSet(R)
  BY FiniteSeries, FS_Subset
<1> DEFINE d == [s \in R |-> a[s] - b[s]]
<1>2. \A s \in R : a[s] \in Int /\ b[s] \in Int /\ d[s] = a[s] - b[s] /\ d[s] \in Nat
  OBVIOUS
<1>3. \A s \in Series : c[s] \in Int
  OBVIOUS
<1> HIDE DEF d
<1>4. Sum(d, R) = Sum(a, R) - Sum(b, R) /\ Sum(d, R) \in Nat
  BY <1>1, <1>2, SumMinus, SumNat
<1>5. ASSUME \A s \in R : c[s] = a[s] - b[s], \A s \in Series \ R : c[s] = 0
      PROVE  Sum(a, R) - Sum(b, R) = Sum(c, Series)
  <2>1. Sum(c, Series) = Sum(c, R)
    BY <1>1, <1>3, <1>5, SumOutside
  <2>2. Sum(c, R) = Sum(a, R) - Sum(b, R)
    BY <1>1, <1>2, <1>3, <1>5, SumMinus
  <2>3. QED
    BY <2>1, <2>2
<1>6. QED
  BY <1>4, <1>5

\* A rate is of two whole readings of the same engines, none of which went back.
LEMMA RateOf ==
  ASSUME NEW now, S!HitRate(now) # S!None
  PROVE  /\ kind = "vllm" /\ prefix # S!None /\ DOMAIN now = DOMAIN prefix
         /\ \A s \in DOMAIN now : /\ S!Whole(now[s]) /\ S!Whole(prefix[s])
                                  /\ ~(now[s].q < prefix[s].q) /\ ~(now[s].h < prefix[s].h)
         /\ S!HitRate(now) = S!Rate(S!Sum(now, DOMAIN now, "q") - S!Sum(prefix, DOMAIN now, "q"),
                                    S!Sum(now, DOMAIN now, "h") - S!Sum(prefix, DOMAIN now, "h"))
BY DEF S!HitRate

\* The read that has the gauges: the rate is of the interval that ends, and the next baseline
\* is what the counters are now.
LEMMA RateGauges ==
  ASSUME RateInv, S!ReadGauges
  PROVE  RateInv'
<1>1. PICK lacks \in {{}} \cup {{s} : s \in IF kind = "vllm" THEN shown ELSE {}} :
        rate' = S!HitRate(S!Reading(lacks)) /\ prefix' = (IF kind = "vllm" THEN S!Reading(lacks) ELSE S!None)
  BY DEF S!ReadGauges
<1> DEFINE now == S!Reading(lacks)
<1>2. /\ UNCHANGED <<kind, shown, count>>
      /\ truth' = [since EXCEPT !.work = [s \in Series |-> IF s \in shown THEN since.work[s] ELSE S!NoCounts]]
      /\ since' = [S!Nothing EXCEPT !.was = count]
  BY DEF S!ReadGauges, S!server
<1>3. /\ count \in [Series -> [q : 0..MaxServed, h : 0..MaxServed]] /\ MaxServed \in Nat
      /\ shown \subseteq Series /\ since \in SinceType
      /\ \A s \in Series : since.work[s].h <= since.work[s].q
      /\ \A s \in Series : count[s].h <= count[s].q
      /\ \A s \in Series : count[s] \in CountType /\ since.work[s] \in CountType /\ since.was[s] \in CountType
  BY SessionAssumption DEF RateInv, SinceType, CountType, S!ScrapeConstants
<1>4. /\ DOMAIN now = shown
      /\ \A s \in shown : now[s].q = count[s].q /\ (S!Whole(now[s]) => now[s].h = count[s].h)
  <2>1. ASSUME NEW s \in shown PROVE now[s].q = count[s].q /\ (S!Whole(now[s]) => now[s].h = count[s].h)
    <3>1. CASE s \in lacks
      <4>1. now[s] = [q |-> count[s].q]
        BY <3>1 DEF S!Reading
      <4> HIDE DEF now
      <4>2. ~S!Whole(now[s])
        BY <4>1 DEF S!Whole
      <4>3. QED
        BY <4>1, <4>2
    <3>2. CASE s \notin lacks
      BY <3>2 DEF S!Reading
    <3>3. QED
      BY <3>1, <3>2
  <2>2. QED
    BY <2>1 DEF S!Reading
<1>5. rate' = S!HitRate(now) /\ prefix' = (IF kind = "vllm" THEN now ELSE S!None)
  BY <1>1
<1> HIDE DEF now
<1>6. /\ since'.work = S!Zero /\ since'.restarted = {} /\ ~since'.gap /\ since'.was = count
      /\ since' \in SinceType /\ S!Zero \in [Series -> CountType]
  <2>1. since' = [work |-> S!Zero, restarted |-> {}, gap |-> FALSE, was |-> count]
    BY <1>2 DEF S!Nothing
  <2>2. S!Zero \in [Series -> CountType] /\ count \in [Series -> CountType]
    BY <1>3 DEF S!Zero, S!NoCounts, CountType
  <2>3. QED
    BY <2>1, <2>2 DEF SinceType
<1>7. Baseline'
  <2>1. ASSUME NEW s \in Series
        PROVE  count[s].q = count[s].q + S!Zero[s].q /\ count[s].h = count[s].h + S!Zero[s].h
    BY <1>3 DEF S!Zero, S!NoCounts, CountType
  <2>2. prefix' # S!None => prefix' = now
    BY <1>5
  <2>3. QED
    BY <1>2, <1>3, <1>4, <1>6, <2>1, <2>2 DEF Baseline
<1>8. ASSUME rate' # S!None PROVE S!RateHonest'
  <2> DEFINE work == [s \in Series |-> IF s \in shown THEN since.work[s] ELSE S!NoCounts]
  <2>1. PICK queries, hits : /\ queries = S!Sum(now, shown, "q") - S!Sum(prefix, shown, "q")
                             /\ hits = S!Sum(now, shown, "h") - S!Sum(prefix, shown, "h")
    OBVIOUS
  <2>2. truth'.work = work /\ truth'.restarted = since.restarted /\ truth'.gap = since.gap
        /\ truth'.was = since.was
    BY <1>2, <1>3 DEF SinceType
  <2>3. /\ kind = "vllm" /\ prefix # S!None /\ DOMAIN prefix = shown /\ rate' = S!Rate(queries, hits)
        /\ \A s \in shown : /\ S!Whole(now[s]) /\ S!Whole(prefix[s])
                            /\ ~(now[s].q < prefix[s].q) /\ ~(now[s].h < prefix[s].h)
    BY <1>4, <1>5, <1>8, <2>1, RateOf
  <2>4. /\ ~since.gap
        /\ \A s \in shown : prefix[s].q = since.was[s].q /\ prefix[s].h = since.was[s].h
        /\ \A s \in Series \ since.restarted : /\ count[s].q = since.was[s].q + since.work[s].q
                                               /\ count[s].h = since.was[s].h + since.work[s].h
    BY <2>3 DEF RateInv, Baseline
  <2>5. \A s \in shown : now[s].q = count[s].q /\ now[s].h = count[s].h
    BY <1>4, <2>3
  <2>6. \A s \in shown : /\ now[s].q \in Nat /\ now[s].h \in Nat /\ prefix[s].q \in Nat /\ prefix[s].h \in Nat
                         /\ now[s].q >= prefix[s].q /\ now[s].h >= prefix[s].h
    BY <1>3, <2>3, <2>4, <2>5 DEF CountType
  <2>7. /\ \A s \in Series : work[s].q \in Nat /\ work[s].h \in Nat /\ work[s].h <= work[s].q
        /\ \A s \in Series \ shown : work[s].q = 0 /\ work[s].h = 0
        /\ \A s \in shown : work[s] = since.work[s]
    BY <1>3 DEF CountType, S!NoCounts
  <2>8. IsFiniteSet(Series)
    BY FiniteSeries
  <2>9. since.restarted = {} =>
          \A s \in shown : work[s].q = now[s].q - prefix[s].q /\ work[s].h = now[s].h - prefix[s].h
    <3>1. SUFFICES ASSUME since.restarted = {}, NEW s \in shown
                   PROVE  work[s].q = now[s].q - prefix[s].q /\ work[s].h = now[s].h - prefix[s].h
      OBVIOUS
    <3>2. work[s] = since.work[s] /\ since.work[s] \in CountType /\ since.was[s] \in CountType
      BY <1>3, <2>7
    <3>3. /\ now[s].q = since.was[s].q + since.work[s].q /\ now[s].h = since.was[s].h + since.work[s].h
          /\ prefix[s].q = since.was[s].q /\ prefix[s].h = since.was[s].h
      BY <1>3, <2>4, <2>5, <3>1
    <3> HIDE DEF work
    <3>4. QED
      BY <3>2, <3>3 DEF CountType
  <2> HIDE DEF work
  <2>10. /\ queries \in Nat
         /\ since.restarted = {} => queries = S!Sum(work, Series, "q")
    <3> DEFINE a == [s \in shown |-> now[s].q]
               b == [s \in shown |-> prefix[s].q]
               c == [s \in Series |-> work[s].q]
    <3>1. /\ \A s \in shown : a[s] \in Nat /\ b[s] \in Nat /\ a[s] >= b[s]
          /\ \A s \in Series : c[s] \in Nat
      BY <2>6, <2>7
    <3>2. /\ since.restarted = {} => \A s \in shown : c[s] = a[s] - b[s]
          /\ \A s \in Series \ shown : c[s] = 0
      BY <1>3, <2>7, <2>9
    <3>3. queries = Sum(a, shown) - Sum(b, shown) /\ S!Sum(work, Series, "q") = Sum(c, Series)
      BY <2>1, SumsAgree
    <3> HIDE DEF a, b, c
    <3>4. QED
      BY <1>3, <3>1, <3>2, <3>3, Differences
  <2>11. /\ hits \in Nat
         /\ since.restarted = {} => hits = S!Sum(work, Series, "h")
    <3> DEFINE a == [s \in shown |-> now[s].h]
               b == [s \in shown |-> prefix[s].h]
               c == [s \in Series |-> work[s].h]
    <3>1. /\ \A s \in shown : a[s] \in Nat /\ b[s] \in Nat /\ a[s] >= b[s]
          /\ \A s \in Series : c[s] \in Nat
      BY <2>6, <2>7
    <3>2. /\ since.restarted = {} => \A s \in shown : c[s] = a[s] - b[s]
          /\ \A s \in Series \ shown : c[s] = 0
      BY <1>3, <2>7, <2>9
    <3>3. hits = Sum(a, shown) - Sum(b, shown) /\ S!Sum(work, Series, "h") = Sum(c, Series)
      BY <2>1, SumsAgree
    <3> HIDE DEF a, b, c
    <3>4. QED
      BY <1>3, <3>1, <3>2, <3>3, Differences
  <2>12. since.restarted = {} => hits <= queries
    <3> DEFINE a == [s \in Series |-> work[s].h]
               b == [s \in Series |-> work[s].q]
    <3>1. \A s \in Series : a[s] \in Int /\ b[s] \in Int /\ a[s] <= b[s]
      BY <2>7
    <3>2. S!Sum(work, Series, "h") = Sum(a, Series) /\ S!Sum(work, Series, "q") = Sum(b, Series)
      BY SumsAgree
    <3> HIDE DEF a, b
    <3>3. Sum(a, Series) <= Sum(b, Series)
      BY <2>8, <3>1, SumAtMost
    <3>4. QED
      BY <2>10, <2>11, <3>2, <3>3
  <2>13. queries # 0 /\ rate' = [queries |-> queries, hits |-> IF hits < queries THEN hits ELSE queries]
    BY <1>8, <2>3 DEF S!Rate
  <2>14. rate'.hits <= rate'.queries
    BY <2>10, <2>11, <2>13
  <2>15. since.restarted = {} =>
           rate' = [queries |-> S!Sum(work, Series, "q"), hits |-> S!Sum(work, Series, "h")]
    <3>1. since.restarted = {} => rate' = [queries |-> queries, hits |-> hits]
      BY <2>10, <2>11, <2>12, <2>13
    <3>2. QED
      BY <2>10, <2>11, <3>1
  <2>16. prefix' = now
    BY <1>5, <2>3
  <2>17. \A s \in DOMAIN prefix' : prefix'[s].q >= since.was[s].q /\ prefix'[s].h >= since.was[s].h
    BY <1>4, <2>4, <2>6, <2>16
  <2>18. QED
    BY <2>2, <2>4, <2>14, <2>15, <2>17 DEF S!RateHonest
<1>9. S!RateHonest'
  BY <1>8 DEF S!RateHonest
<1>10. \A s \in Series : since'.work[s].h <= since'.work[s].q
  BY <1>6 DEF S!Zero, S!NoCounts
<1>11. QED
  BY <1>2, <1>3, <1>6, <1>7, <1>9, <1>10 DEF RateInv

\* Each step keeps what is said of the counters.
LEMMA RateNext ==
  ASSUME RateInv, Next
  PROVE  RateInv'
<1>1. CASE GaugesMove
  BY <1>1, RateServer
<1>2. CASE Finishes \/ Cancelled
  BY <1>2, RateFresh DEF Finishes, Cancelled, BodyEnds
<1>3. CASE Tick
  <2>1. PICK alive : S!Read(alive)
    BY <1>3 DEF Tick
  <2>2. CASE S!ReadOff \/ S!ReadNothing
    <3>1. rate' = S!None /\ UNCHANGED <<shown, count, since, prefix, truth>>
      BY <2>2 DEF S!ReadOff, S!ReadNothing, S!server, S!ghosts
    <3>2. S!RateHonest'
      BY <3>1 DEF S!RateHonest
    <3>3. QED
      BY <3>1, <3>2 DEF RateInv, Baseline
  <2>3. CASE S!ReadStats \/ \E lost \in BOOLEAN : S!ReadMiss(lost)
    BY <2>3, RateMiss DEF S!ReadStats, S!ReadMiss, S!server
  <2>4. QED
    BY <2>1, <2>2, <2>3, RateGauges DEF S!Read
<1>4. ASSUME UNCHANGED <<shown, count, since, prefix, rate, truth>> PROVE RateInv'
  BY <1>4, RateRests
<1>5. CASE Begins
  BY <1>4, <1>5 DEF Begins, S!Probed, S!server, S!ghosts
<1>6. CASE EngineBoots \/ EngineExits \/ EngineMoves \/ EngineLeft \/ LoopFails \/ Writes \/ Over
           \/ \E w \in writers : WriterFails(w)
  BY <1>4, <1>6 DEF EngineBoots, EngineExits, EngineMoves, EngineLeft, LoopFails, Writes, Over, vars,
                    WriterOpens, WriterEnds, WriterFails, scrapeVars
<1>7. CASE Starts \/ LoopStops \/ ExitDone \/ Closes \/ Final \/ Marks \/ Teardown
  BY <1>4, <1>7 DEF Starts, LoopStops, ExitDone, Closes, Final, Marks, Teardown, scrapeVars
<1>8. CASE BeginCancelled \/ ExitCancelled \/ EndCancelled
  BY <1>4, <1>8 DEF BeginCancelled, ExitCancelled, EndCancelled, scrapeVars
<1>9. QED
  BY <1>1, <1>2, <1>3, <1>5, <1>6, <1>7, <1>8 DEF Next, Run, Interrupts

\* No reading was made.
LEMMA ScrapeInit == Init => FindInv /\ RateInv
<1>1. SUFFICES ASSUME Init PROVE FindInv /\ RateInv
  OBVIOUS
<1>2. /\ MaxServed \in Nat \ {0} /\ RetryEvery \in Nat \ {0} /\ MaxFails \in Nat \ {0} /\ MaxEvents \in Nat
  BY SessionAssumption DEF S!ScrapeConstants
<1>3. S!Init /\ at = "start"
  BY <1>1 DEF Init
<1>4. 0 \in 0..MaxFails /\ 0 \in 0..MaxEvents /\ 0 < RetryEvery
  BY <1>2
<1>5. S!SkippedNow = 0 /\ path = S!MetricsPath(named) /\ drained <= IF named = "none" THEN 0 ELSE 1
  BY <1>3 DEF S!Init, S!SkippedNow, S!MetricsPath
<1>6. FindInv
  BY <1>3, <1>4, <1>5 DEF S!Init, FindInv
<1>7. S!Zero \in [Series -> CountType] /\ S!Earlier \in [Series -> [q : 0..MaxServed, h : 0..MaxServed]]
  BY <1>2 DEF S!Zero, S!Earlier, S!NoCounts, CountType
<1>8. since \in SinceType /\ \A s \in Series : since.work[s].h <= since.work[s].q
  BY <1>3, <1>7 DEF S!Init, S!Nothing, SinceType, S!Zero, S!NoCounts
<1>9. \A s \in Series : count[s].h <= count[s].q
  BY <1>3 DEF S!Init, S!Earlier
<1>10. RateInv
  BY <1>3, <1>7, <1>8, <1>9 DEF S!Init, RateInv, Baseline, S!RateHonest
<1>11. QED
  BY <1>6, <1>10

\* A hit rate is of one interval in which every engine was seen at both ends, and is what the
\* engines did in it; gauges that are there are found within RetryEvery reads; the statistics
\* that a read clears are read at most once.
THEOREM ScrapeAlwaysSound == Spec => []ScrapeSound
<1>1. FindInv /\ RateInv /\ [Next]_vars => (FindInv /\ RateInv)'
  <2>1. ASSUME FindInv, RateInv, UNCHANGED vars PROVE FindInv' /\ RateInv'
    <3>1. UNCHANGED scrapeVars /\ at' = at
      BY <2>1 DEF vars
    <3>2. QED
      BY <2>1, <3>1, FindRests, RateRests DEF scrapeVars, FindInv
  <2>2. QED
    BY <2>1, FindNext, RateNext
<1>2. FindInv /\ RateInv => ScrapeSound
  <2> SUFFICES ASSUME FindInv, RateInv PROVE ScrapeSound
    OBVIOUS
  <2>1. RetryEvery \in Nat /\ skipped \in Nat /\ skipped < RetryEvery /\ late \in Nat /\ late <= S!SkippedNow
    BY SessionAssumption DEF FindInv, S!ScrapeConstants
  <2>2. S!FoundInTime /\ skipped \in 0..RetryEvery
    BY <2>1 DEF S!FoundInTime, S!SkippedNow
  <2>3. S!StatsReadOnce
    BY DEF FindInv, S!StatsReadOnce
  <2>4. S!TypeOK
    BY <2>2 DEF FindInv, RateInv, S!TypeOK
  <2>5. QED
    BY <2>2, <2>3, <2>4 DEF RateInv, ScrapeSound, S!ScrapeSound
<1>3. QED
  BY <1>1, <1>2, ScrapeInit, PTL DEF Spec
=============================================================================
