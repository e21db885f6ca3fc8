--------------------------- MODULE InductionProofs ---------------------------
(***************************************************************************)
(* Induction over the natural numbers, for the proofs about loops.  The      *)
(* library's induction theorems take an operator; these take a set or a      *)
(* function in its place.                                                    *)
(***************************************************************************)
EXTENDS Integers, FiniteSets, FiniteSetTheorems, TLAPS

\* Every set of natural numbers has a least element: the strict subsets of a set are
\* well founded on its finite subsets, and n stands for the interval below it.
LEMMA LeastNatural ==
    ASSUME NEW T, T \subseteq Nat, T # {}
    PROVE  \E x \in T : \A y \in T : ~(y < x)
<1> DEFINE R == StrictSubsetOrdering(Nat)
           S == FiniteSubsetsOf(Nat)
           Below(n) == 0..(n - 1)
           U == {Below(n) : n \in T}
<1>1. IsWellFoundedOn(R, S)
  BY FS_StrictSubsetOrderingWellFounded
<1>2. \A n \in Nat : Below(n) \in S
  BY FS_Interval DEF FiniteSubsetsOf
<1>3. U \subseteq S /\ U # {}
  BY <1>2
<1>4. \E u \in U : \A v \in U : <<v, u>> \notin R
  <2> HIDE DEF R, S, U
  <2> QED BY <1>1, <1>3, WFMin
<1>5. \A x \in Nat, y \in Nat : y < x => <<Below(y), Below(x)>> \in R
  BY DEF StrictSubsetOrdering
<1> QED BY <1>4, <1>5

\* A set that has 0 and the successor of each of its members has every natural number.
LEMMA Induction ==
    ASSUME NEW S, 0 \in S, \A n \in Nat : n \in S => n + 1 \in S
    PROVE  Nat \subseteq S
<1> DEFINE T == Nat \ S
<1> SUFFICES ASSUME T # {} PROVE FALSE
  OBVIOUS
<1>1. PICK x \in T : \A y \in T : ~(y < x)
  BY LeastNatural
<1>2. x # 0 /\ x \in Nat /\ x - 1 \in Nat /\ x - 1 < x
  BY <1>1
<1>3. x - 1 \in S
  BY <1>1, <1>2
<1> QED BY <1>1, <1>2, <1>3

\* A function defined by recursion over 0..N stays in a set its step stays in.  F[i]
\* is the step of turn i.
LEMMA TurnsDefined ==
    ASSUME NEW S, NEW a \in S, NEW N \in Nat, NEW F \in [1..N -> [S -> S]]
    PROVE  \E f \in [0..N -> S] : /\ f[0] = a
                                  /\ \A i \in 1..N : f[i] = F[i][f[i - 1]]
<1> DEFINE Upto(m, f) == f[0] = a /\ \A i \in 1..m : f[i] = F[i][f[i - 1]]
           Good == {m \in Nat : m <= N => \E f \in [0..m -> S] : Upto(m, f)}
<1>1. 0 \in Good
  <2>1. [i \in 0..0 |-> a] \in [0..0 -> S] /\ Upto(0, [i \in 0..0 |-> a])
    OBVIOUS
  <2> QED BY <2>1
<1>2. \A m \in Nat : m \in Good => m + 1 \in Good
  <2> SUFFICES ASSUME NEW m \in Nat, m \in Good, m + 1 <= N
               PROVE  \E f \in [0..(m + 1) -> S] : Upto(m + 1, f)
    OBVIOUS
  <2>1. PICK f \in [0..m -> S] : Upto(m, f)
    OBVIOUS
  <2>2. m + 1 \in 1..N /\ f[m] \in S /\ F[m + 1][f[m]] \in S
    BY <2>1
  <2> DEFINE g == [i \in 0..(m + 1) |-> IF i <= m THEN f[i] ELSE F[m + 1][f[m]]]
  <2>3. g \in [0..(m + 1) -> S]
    BY <2>2
  <2>4. g[0] = a
    BY <2>1
  <2>5. \A i \in 1..(m + 1) : g[i] = F[i][g[i - 1]]
    <3> TAKE i \in 1..(m + 1)
    <3>1. i - 1 \in 0..m /\ g[i - 1] = f[i - 1]
      OBVIOUS
    <3>2. CASE i <= m
      BY <2>1, <3>1, <3>2
    <3>3. CASE i = m + 1
      <4>1. i - 1 = m /\ ~(i <= m)
        BY <3>3
      <4>2. g[i] = F[m + 1][f[m]]
        BY <4>1
      <4>3. g[i - 1] = f[m]
        BY <3>1, <4>1
      <4> QED BY <3>3, <4>2, <4>3
    <3> QED BY <3>2, <3>3
  <2> QED BY <2>3, <2>4, <2>5
<1>3. N \in Good
  <2> HIDE DEF Good
  <2> QED BY <1>1, <1>2, Induction
<1> QED BY <1>3

-----------------------------------------------------------------------------
(* The sum of a function's values over a finite set, whatever the order the  *)
(* elements are taken in.                                                    *)

Summands(g, S) == IsFiniteSet(S) /\ \A x \in S : g[x] \in Nat

SomeOf(s) == CHOOSE x \in s : TRUE

\* f adds up g over the subsets of S, one chosen element at a time.
AddsUp(f, g, S) ==
    f = [s \in SUBSET S |-> IF s = {} THEN 0 ELSE g[SomeOf(s)] + f[s \ {SomeOf(s)}]]

SumOver(g, S) == (CHOOSE f : AddsUp(f, g, S))[S]

Totals(f, g, S) ==
    /\ f \in [SUBSET S -> Nat]
    /\ AddsUp(f, g, S)
    /\ \A s \in SUBSET S : f[s] = SumOver(g, s)

LEMMA AddsUpAt ==
    ASSUME NEW f, NEW g, NEW S, AddsUp(f, g, S), NEW s, s \subseteq S
    PROVE  /\ s = {} => f[s] = 0
           /\ s # {} => SomeOf(s) \in s /\ f[s] = g[SomeOf(s)] + f[s \ {SomeOf(s)}]
<1>1. s \in SUBSET S
  OBVIOUS
<1>2. f[s] = IF s = {} THEN 0 ELSE g[SomeOf(s)] + f[s \ {SomeOf(s)}]
  BY <1>1 DEF AddsUp
<1>3. s # {} => SomeOf(s) \in s
  BY DEF SomeOf
<1> QED BY <1>2, <1>3

LEMMA NothingLeft ==
    ASSUME NEW s, IsFiniteSet(s), Cardinality(s) <= 0
    PROVE  s = {}
<1>1. Cardinality(s) = 0
  BY FS_CardinalityType
<1>2. IsFiniteSet(s) => (Cardinality(s) = 0 <=> s = {})
  BY FS_EmptySet
<1> QED BY <1>1, <1>2

LEMMA OneLess ==
    ASSUME NEW s, IsFiniteSet(s), NEW n \in Nat, Cardinality(s) <= n + 1, NEW x \in s
    PROVE  IsFiniteSet(s \ {x}) /\ Cardinality(s \ {x}) <= n
<1>1. IsFiniteSet(s \ {x}) /\ Cardinality(s \ {x}) = Cardinality(s) - 1
  BY FS_RemoveElement
<1>2. Cardinality(s) \in Nat
  BY FS_CardinalityType
<1> QED BY <1>1, <1>2

LEMMA SomeSummands ==
    ASSUME NEW g, NEW S, Summands(g, S), NEW T, T \subseteq S
    PROVE  Summands(g, T) /\ Cardinality(T) \in Nat /\ IsFiniteSet(T)
<1>1. IsFiniteSet(T)
  BY FS_Subset DEF Summands
<1> QED BY <1>1, FS_CardinalityType DEF Summands

\* The sums exist and are numbers.
LEMMA SumsExist ==
    ASSUME NEW S, NEW g, Summands(g, S)
    PROVE  \E f \in [SUBSET S -> Nat] : AddsUp(f, g, S)
<1> DEFINE Small(n) == {s \in SUBSET S : Cardinality(s) <= n}
           Step(f, s) == IF s = {} THEN 0 ELSE g[SomeOf(s)] + f[s \ {SomeOf(s)}]
           Upto(n, f) == f \in [SUBSET S -> Nat] /\ \A s \in Small(n) : f[s] = Step(f, s)
           Good == {n \in Nat : \E f : Upto(n, f)}
<1>0. \A s \in SUBSET S : IsFiniteSet(s)
  BY SomeSummands
<1>1. 0 \in Good
  <2> DEFINE f == [s \in SUBSET S |-> 0]
  <2>1. \A s \in Small(0) : s = {}
    BY <1>0, NothingLeft
  <2>2. Upto(0, f)
    BY <2>1
  <2> QED BY <2>2
<1>2. ASSUME NEW n \in Nat, n \in Good PROVE n + 1 \in Good
  <2>1. PICK f : Upto(n, f)
    BY <1>2
  <2> DEFINE h == [s \in SUBSET S |-> Step(f, s)]
  <2>2. ASSUME NEW s \in Small(n + 1), s # {}
        PROVE  SomeOf(s) \in S /\ s \ {SomeOf(s)} \in Small(n)
    <3>1. SomeOf(s) \in s
      BY <2>2 DEF SomeOf
    <3>2. Cardinality(s \ {SomeOf(s)}) <= n
      BY <1>0, <3>1, OneLess
    <3> QED BY <3>1, <3>2
  <2>3. h \in [SUBSET S -> Nat]
    <3>1. ASSUME NEW s \in SUBSET S PROVE Step(f, s) \in Nat
      <4>1. CASE s = {}
        BY <4>1
      <4>2. CASE s # {}
        <5>1. SomeOf(s) \in S
          BY <4>2 DEF SomeOf
        <5>2. g[SomeOf(s)] \in Nat /\ f[s \ {SomeOf(s)}] \in Nat
          BY <2>1, <5>1 DEF Summands
        <5> QED BY <4>2, <5>2
      <4> QED BY <4>1, <4>2
    <3> QED BY <3>1
  <2>4. ASSUME NEW s \in Small(n) PROVE h[s] = f[s]
    BY <2>1
  <2>5. ASSUME NEW s \in Small(n + 1) PROVE h[s] = Step(h, s)
    <3>1. CASE s = {}
      BY <3>1
    <3>2. CASE s # {}
      <4>1. h[s \ {SomeOf(s)}] = f[s \ {SomeOf(s)}]
        BY <2>2, <2>4, <3>2
      <4> QED BY <3>2, <4>1
    <3> QED BY <3>1, <3>2
  <2> HIDE DEF h, Step, Small
  <2>6. Upto(n + 1, h)
    BY <2>3, <2>5
  <2> HIDE DEF Upto
  <2> QED BY <2>6
<1>3. Cardinality(S) \in Nat
  BY SomeSummands
<1>4. Cardinality(S) \in Good
  <2> HIDE DEF Good
  <2> QED BY <1>1, <1>2, <1>3, Induction
<1>5. PICK f : Upto(Cardinality(S), f)
  <2> HIDE DEF Upto
  <2> QED BY <1>4
<1>6. \A s \in SUBSET S : f[s] = Step(f, s)
  BY <1>5, FS_Subset DEF Summands
<1>7. AddsUp(f, g, S)
  BY <1>5, <1>6 DEF AddsUp
<1> QED BY <1>5, <1>7

\* Where the summands agree, so do the sums.
LEMMA SumsAgree ==
    ASSUME NEW S, NEW T, NEW f, NEW g, NEW h, NEW k, NEW U, IsFiniteSet(U),
           U \subseteq S, U \subseteq T,
           AddsUp(f, g, S), AddsUp(h, k, T), \A x \in U : g[x] = k[x]
    PROVE  f[U] = h[U]
<1> DEFINE Good == {n \in Nat : \A s \in SUBSET U : Cardinality(s) <= n => f[s] = h[s]}
<1>0. \A s \in SUBSET U : IsFiniteSet(s)
  BY FS_Subset
<1>1. 0 \in Good
  <2> SUFFICES ASSUME NEW s \in SUBSET U, Cardinality(s) <= 0 PROVE f[s] = h[s]
    OBVIOUS
  <2>1. s = {}
    BY <1>0, NothingLeft
  <2> QED BY <2>1, AddsUpAt
<1>2. ASSUME NEW n \in Nat, n \in Good PROVE n + 1 \in Good
  <2> SUFFICES ASSUME NEW s \in SUBSET U, Cardinality(s) <= n + 1 PROVE f[s] = h[s]
    OBVIOUS
  <2>1. CASE s = {}
    BY <2>1, AddsUpAt
  <2>2. CASE s # {}
    <3> DEFINE x == SomeOf(s)
    <3>0. s \subseteq S /\ s \subseteq T
      OBVIOUS
    <3>1. x \in s /\ f[s] = g[x] + f[s \ {x}]
      BY <2>2, <3>0, AddsUpAt
    <3>4. h[s] = k[x] + h[s \ {x}]
      <4>1. AddsUp(h, k, T) /\ s \subseteq T /\ s # {}
        BY <2>2, <3>0
      <4>2. h[s] = k[SomeOf(s)] + h[s \ {SomeOf(s)}]
        BY ONLY <4>1, AddsUpAt
      <4> QED BY <4>2
    <3> HIDE DEF x
    <3>2. Cardinality(s \ {x}) <= n
      BY <1>0, <3>1, OneLess
    <3>3. f[s \ {x}] = h[s \ {x}]
      BY <1>2, <3>2
    <3> QED BY <3>1, <3>3, <3>4
  <2> QED BY <2>1, <2>2
<1>3. Cardinality(U) \in Nat
  BY FS_CardinalityType
<1>4. Cardinality(U) \in Good
  <2> HIDE DEF Good
  <2> QED BY <1>1, <1>2, <1>3, Induction
<1> QED BY <1>3, <1>4

\* The order does not matter: any element may be the one added last.
LEMMA AnyOrder ==
    ASSUME NEW S, NEW g, Summands(g, S),
           NEW f \in [SUBSET S -> Nat], AddsUp(f, g, S),
           NEW U \in SUBSET S, NEW y \in U
    PROVE  f[U] = g[y] + f[U \ {y}]
<1> DEFINE Last(s) == \A x \in s : f[s] = g[x] + f[s \ {x}]
           Good == {n \in Nat : \A s \in SUBSET S : Cardinality(s) <= n => Last(s)}
<1>0. \A s \in SUBSET S : IsFiniteSet(s)
  BY SomeSummands
<1>1. 0 \in Good
  <2> SUFFICES ASSUME NEW s \in SUBSET S, Cardinality(s) <= 0 PROVE Last(s)
    OBVIOUS
  <2>1. s = {}
    BY <1>0, NothingLeft
  <2> QED BY <2>1
<1>2. ASSUME NEW n \in Nat, n \in Good PROVE n + 1 \in Good
  <2>1. ASSUME NEW s \in SUBSET S, Cardinality(s) <= n + 1, NEW x \in s
        PROVE  f[s] = g[x] + f[s \ {x}]
    <3> DEFINE z == SomeOf(s)
               both == (s \ {x}) \ {z}
    <3>1. z \in s /\ f[s] = g[z] + f[s \ {z}]
      BY AddsUpAt
    <3> HIDE DEF z
    <3>2. CASE x = z
      BY <3>1, <3>2
    <3>3. CASE x # z
      <4>1. /\ Cardinality(s \ {z}) <= n /\ Cardinality(s \ {x}) <= n
        BY <1>0, <2>1, <3>1, OneLess
      <4>2. x \in s \ {z} /\ z \in s \ {x} /\ (s \ {z}) \ {x} = both
        BY <3>1, <3>3
      <4>3. f[s \ {z}] = g[x] + f[(s \ {z}) \ {x}]
        BY <1>2, <4>1, <4>2
      <4>4. f[s \ {x}] = g[z] + f[both]
        BY <1>2, <4>1, <4>2
      <4>5. g[x] \in Nat /\ g[z] \in Nat /\ f[both] \in Nat
        BY <3>1 DEF Summands
      <4>6. f[s \ {z}] = g[x] + f[both]
        BY <4>2, <4>3
      <4> HIDE DEF both
      <4> QED BY <3>1, <4>4, <4>5, <4>6
    <3> QED BY <3>2, <3>3
  <2> QED BY <2>1
<1>3. Cardinality(U) \in Nat
  BY SomeSummands
<1>4. Cardinality(U) \in Good
  <2> HIDE DEF Good
  <2> QED BY <1>1, <1>2, <1>3, Induction
<1>5. Last(U)
  BY <1>3, <1>4
<1> QED BY <1>5

LEMMA TotalsExist ==
    ASSUME NEW S, NEW g, Summands(g, S)
    PROVE  \E f : Totals(f, g, S)
<1>1. PICK f \in [SUBSET S -> Nat] : AddsUp(f, g, S)
  BY SumsExist
<1>2. ASSUME NEW s \in SUBSET S PROVE f[s] = SumOver(g, s)
  <2>1. Summands(g, s) /\ IsFiniteSet(s)
    BY SomeSummands
  <2> DEFINE h == CHOOSE h : AddsUp(h, g, s)
  <2>2. AddsUp(h, g, s)
    BY <2>1, SumsExist
  <2>3. SumOver(g, s) = h[s]
    BY DEF SumOver
  <2> HIDE DEF h
  <2>4. f[s] = h[s]
    BY <1>1, <2>1, <2>2, SumsAgree
  <2> QED BY <2>3, <2>4
<1> QED BY <1>1, <1>2 DEF Totals

LEMMA SumIsNatural ==
    ASSUME NEW S, NEW g, Summands(g, S)
    PROVE  /\ SumOver(g, S) \in Nat
           /\ S = {} => SumOver(g, S) = 0
<1>1. PICK f : Totals(f, g, S)
  BY TotalsExist
<1>2. S \in SUBSET S /\ f[S] = SumOver(g, S) /\ f[S] \in Nat
  BY <1>1 DEF Totals
<1>3. S = {} => f[S] = 0
  BY <1>1, AddsUpAt DEF Totals
<1> QED BY <1>2, <1>3

LEMMA SumWithout ==
    ASSUME NEW S, NEW g, Summands(g, S), NEW y \in S
    PROVE  SumOver(g, S) = g[y] + SumOver(g, S \ {y})
<1>1. PICK f : Totals(f, g, S)
  BY TotalsExist
<1>2. f \in [SUBSET S -> Nat] /\ AddsUp(f, g, S)
  BY <1>1 DEF Totals
<1>3. f[S] = g[y] + f[S \ {y}]
  <2> DEFINE U == S
  <2>1. U \in SUBSET S /\ y \in U
    OBVIOUS
  <2> HIDE DEF U
  <2>2. f[U] = g[y] + f[U \ {y}]
    BY <1>2, <2>1, AnyOrder
  <2> QED BY <2>2 DEF U
<1>4. f[S] = SumOver(g, S) /\ f[S \ {y}] = SumOver(g, S \ {y})
  BY <1>1 DEF Totals
<1> QED BY <1>3, <1>4

LEMMA SumSame ==
    ASSUME NEW S, NEW g, NEW h, Summands(g, S), \A x \in S : g[x] = h[x]
    PROVE  SumOver(g, S) = SumOver(h, S)
<1>1. Summands(h, S) /\ IsFiniteSet(S)
  BY DEF Summands
<1>2. PICK f : Totals(f, g, S)
  BY TotalsExist
<1>3. PICK e : Totals(e, h, S)
  BY <1>1, TotalsExist
<1>4. f[S] = e[S]
  BY <1>1, <1>2, <1>3, SumsAgree DEF Totals
<1> QED BY <1>2, <1>3, <1>4 DEF Totals

\* A sum is that over a part plus that over the rest.
LEMMA SumInTwo ==
    ASSUME NEW S, NEW g, Summands(g, S), NEW T, T \subseteq S
    PROVE  SumOver(g, S) = SumOver(g, T) + SumOver(g, S \ T)
<1> DEFINE Parts(s) == SumOver(g, S) = SumOver(g, s) + SumOver(g, S \ s)
           Good == {n \in Nat : \A s \in SUBSET S : Cardinality(s) <= n => Parts(s)}
<1>0. ASSUME NEW s \in SUBSET S
      PROVE  IsFiniteSet(s) /\ Summands(g, s) /\ SumOver(g, s) \in Nat
  <2>1. IsFiniteSet(s) /\ Summands(g, s)
    BY SomeSummands
  <2> QED BY <2>1, SumIsNatural
<1>1. ASSUME NEW s \in SUBSET S, s = {} PROVE Parts(s)
  <2>1. S \ s = S /\ SumOver(g, s) = 0 /\ SumOver(g, S) \in Nat
    BY <1>0, <1>1, SumIsNatural
  <2> QED BY <2>1
<1>2. 0 \in Good
  BY <1>0, <1>1, NothingLeft
<1>3. ASSUME NEW n \in Nat, n \in Good PROVE n + 1 \in Good
  <2>1. ASSUME NEW s \in SUBSET S, Cardinality(s) <= n + 1, s # {} PROVE Parts(s)
    <3>1. PICK z : z \in s
      BY <2>1
    <3> DEFINE less == s \ {z}
               rest == S \ less
    <3>2. less \in SUBSET S /\ rest \in SUBSET S /\ z \in rest /\ rest \ {z} = S \ s
      BY <3>1
    <3>3. Cardinality(less) <= n
      BY <1>0, <2>1, <3>1, OneLess
    <3>4. SumOver(g, S) = SumOver(g, less) + SumOver(g, rest)
      BY <1>3, <3>2, <3>3
    <3>5. SumOver(g, s) = g[z] + SumOver(g, less)
      BY <1>0, <3>1, SumWithout
    <3> HIDE DEF less, rest
    <3>6. SumOver(g, rest) = g[z] + SumOver(g, S \ s)
      <4>1. SumOver(g, rest) = g[z] + SumOver(g, rest \ {z})
        BY <1>0, <3>2, SumWithout
      <4> QED BY <3>2, <4>1
    <3>7. g[z] \in Nat /\ SumOver(g, less) \in Nat /\ SumOver(g, S \ s) \in Nat
      BY <1>0, <3>1, <3>2 DEF Summands
    <3> QED BY <3>4, <3>5, <3>6, <3>7
  <2> QED BY <1>1, <2>1
<1>4. Cardinality(T) \in Nat
  BY SomeSummands
<1>5. Cardinality(T) \in Good
  <2> HIDE DEF Good
  <2> QED BY <1>2, <1>3, <1>4, Induction
<1>6. Parts(T)
  BY <1>4, <1>5
<1> QED BY <1>6

LEMMA SumOfZeros ==
    ASSUME NEW S, IsFiniteSet(S), NEW g, \A x \in S : g[x] = 0
    PROVE  SumOver(g, S) = 0
<1> DEFINE Good == {n \in Nat : \A s \in SUBSET S : Cardinality(s) <= n => SumOver(g, s) = 0}
<1>0. Summands(g, S)
  BY DEF Summands
<1>1. ASSUME NEW s \in SUBSET S
      PROVE  IsFiniteSet(s) /\ Summands(g, s) /\ (s = {} => SumOver(g, s) = 0)
  <2>1. IsFiniteSet(s) /\ Summands(g, s)
    BY <1>0, SomeSummands
  <2> QED BY <2>1, SumIsNatural
<1>2. 0 \in Good
  BY <1>1, NothingLeft
<1>3. ASSUME NEW n \in Nat, n \in Good PROVE n + 1 \in Good
  <2>1. ASSUME NEW s \in SUBSET S, Cardinality(s) <= n + 1, s # {} PROVE SumOver(g, s) = 0
    <3>1. PICK z : z \in s
      BY <2>1
    <3>2. Cardinality(s \ {z}) <= n
      BY <1>1, <2>1, <3>1, OneLess
    <3>3. SumOver(g, s) = g[z] + SumOver(g, s \ {z})
      BY <1>1, <3>1, SumWithout
    <3>4. SumOver(g, s \ {z}) = 0 /\ g[z] = 0
      BY <1>3, <3>1, <3>2
    <3> QED BY <3>3, <3>4
  <2> QED BY <1>1, <2>1
<1>4. Cardinality(S) \in Nat
  BY <1>0, SomeSummands
<1>5. Cardinality(S) \in Good
  <2> HIDE DEF Good
  <2> QED BY <1>2, <1>3, <1>4, Induction
<1> QED BY <1>4, <1>5

=============================================================================
