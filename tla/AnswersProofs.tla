---------------------------- MODULE AnswersProofs ----------------------------
(***************************************************************************)
(* What the tools that read the tree and the index answer, and what chunking *)
(* makes of a file.  Loops over a list are folds here: the first part says   *)
(* what a fold keeps, what a filter leaves and where sorting puts an         *)
(* element.  Then, in this order: related files, context, diff, the walks of *)
(* the tree with reads and pages, and chunks.                                *)
(***************************************************************************)
EXTENDS ContextTool, DiffContext, RepoTools, RelatedFiles, Chunking, InductionProofs, SequenceTheorems, TLAPS

\* The last of the numbers up to n.
LEMMA MaxOfNumbers ==
    ASSUME NEW n \in Nat, NEW s, s \subseteq 1..n, s # {}
    PROVE  Max(s) \in s /\ \A y \in s : y <= Max(s)
<1> DEFINE T == {n - x : x \in s}
<1>1. T \subseteq Nat /\ T # {}
  <2>1. \A x \in s : n - x \in Nat
    OBVIOUS
  <2> QED BY <2>1
<1> HIDE DEF T
<1>2. PICK t \in T : \A y \in T : ~(y < t)
  BY <1>1, LeastNatural
<1>3. PICK x \in s : t = n - x
  BY DEF T
<1>4. \A y \in s : x >= y
  <2> TAKE y \in s
  <2>1. ~(n - y < n - x)
    BY <1>2, <1>3 DEF T
  <2>2. y \in Nat /\ x \in Nat
    OBVIOUS
  <2> QED BY <2>1, <2>2
<1>5. \E z \in s : \A y \in s : z >= y
  BY <1>4
<1>6. Max(s) \in s /\ \A y \in s : Max(s) >= y
  BY <1>5 DEF Max
<1>7. \A y \in s : y \in Nat
  OBVIOUS
<1> QED BY <1>6, <1>7

\* f folds the turns F[1], ..., F[N] over a, the last one first.
FoldsUp(f, F, a, N) ==
    f = [s \in SUBSET (1..N) |-> IF s = {} THEN a ELSE F[Max(s)][f[s \ {Max(s)}]]]

\* A fold whose turns stay in S exists.
LEMMA FoldExists ==
    ASSUME NEW S, NEW a \in S, NEW N \in Nat, NEW F \in [1..N -> [S -> S]]
    PROVE  \E f \in [SUBSET (1..N) -> S] : FoldsUp(f, F, a, N)
<1> DEFINE Small(n) == {s \in SUBSET (1..N) : Cardinality(s) <= n}
           Step(f, s) == IF s = {} THEN a ELSE F[Max(s)][f[s \ {Max(s)}]]
           Upto(n, f) == f \in [SUBSET (1..N) -> S] /\ \A s \in Small(n) : f[s] = Step(f, s)
           Good == {n \in Nat : \E f : Upto(n, f)}
<1>0. \A s \in SUBSET (1..N) : /\ IsFiniteSet(s) /\ Cardinality(s) \in Nat
                               /\ s # {} => Max(s) \in s
  <2> SUFFICES ASSUME NEW s \in SUBSET (1..N)
               PROVE  /\ IsFiniteSet(s) /\ Cardinality(s) \in Nat
                      /\ s # {} => Max(s) \in s
    OBVIOUS
  <2>1. IsFiniteSet(1..N)
    BY FS_Interval
  <2>2. IsFiniteSet(s)
    BY <2>1, FS_Subset
  <2>3. s # {} => Max(s) \in s
    BY MaxOfNumbers
  <2> QED BY <2>2, <2>3, FS_CardinalityType
<1>1. 0 \in Good
  <2> DEFINE f == [s \in SUBSET (1..N) |-> a]
  <2>1. \A s \in Small(0) : s = {}
    BY <1>0, NothingLeft
  <2>2. Upto(0, f)
    BY <2>1
  <2> QED BY <2>2
<1>2. ASSUME NEW n \in Nat, n \in Good PROVE n + 1 \in Good
  <2>1. PICK f : Upto(n, f)
    BY <1>2
  <2> DEFINE h == [s \in SUBSET (1..N) |-> Step(f, s)]
  <2>2. ASSUME NEW s \in Small(n + 1), s # {}
        PROVE  Max(s) \in 1..N /\ s \ {Max(s)} \in Small(n)
    BY <1>0, <2>2, OneLess
  <2>3. h \in [SUBSET (1..N) -> S]
    <3>1. ASSUME NEW s \in SUBSET (1..N) PROVE Step(f, s) \in S
      <4>1. CASE s = {}
        BY <4>1
      <4>2. CASE s # {}
        <5>1. Max(s) \in 1..N /\ s \ {Max(s)} \in SUBSET (1..N)
          BY <1>0, <4>2
        <5>2. f[s \ {Max(s)}] \in S /\ F[Max(s)] \in [S -> S]
          BY <2>1, <5>1
        <5> QED BY <4>2, <5>2
      <4> QED BY <4>1, <4>2
    <3> QED BY <3>1
  <2>4. ASSUME NEW s \in Small(n) PROVE h[s] = f[s]
    BY <2>1
  <2>5. ASSUME NEW s \in Small(n + 1) PROVE h[s] = Step(h, s)
    <3>1. CASE s = {}
      BY <3>1
    <3>2. CASE s # {}
      <4>1. h[s \ {Max(s)}] = f[s \ {Max(s)}]
        BY <2>2, <2>4, <3>2
      <4> QED BY <3>2, <4>1
    <3> QED BY <3>1, <3>2
  <2> HIDE DEF h, Step, Small
  <2>6. Upto(n + 1, h)
    BY <2>3, <2>5
  <2> HIDE DEF Upto
  <2> QED BY <2>6
<1>3. IsFiniteSet(1..N) /\ Cardinality(1..N) \in Nat
  BY FS_Interval, FS_CardinalityType
<1>4. Cardinality(1..N) \in Good
  <2> HIDE DEF Good
  <2> QED BY <1>1, <1>2, <1>3, Induction
<1>5. PICK f : Upto(Cardinality(1..N), f)
  <2> HIDE DEF Upto
  <2> QED BY <1>4
<1>6. \A s \in SUBSET (1..N) : f[s] = Step(f, s)
  BY <1>3, <1>5, FS_Subset
<1>7. FoldsUp(f, F, a, N)
  BY <1>5, <1>6 DEF FoldsUp
<1> QED BY <1>5, <1>7

\* The numbers up to i, without their last.
LEMMA UpToNumber ==
    ASSUME NEW N \in Nat, NEW i \in 1..N
    PROVE  /\ 1..i \in SUBSET (1..N) /\ 1..i # {}
           /\ Max(1..i) = i /\ (1..i) \ {i} = 1..(i - 1)
<1>1. i \in 1..i /\ 1..i \subseteq 1..N
  OBVIOUS
<1>2. (1..i) \ {i} = 1..(i - 1)
  OBVIOUS
<1> DEFINE s == 1..i
<1>3. Max(s) \in s /\ \A y \in s : y <= Max(s)
  <2> HIDE DEF s
  <2> QED BY <1>1, MaxOfNumbers DEF s
<1>4. Max(1..i) = i
  BY <1>1, <1>3
<1>5. 1..i # {} /\ 1..i \in SUBSET (1..N)
  BY <1>1
<1> QED BY <1>2, <1>4, <1>5

\* A loop whose turns keep to S ends in S.
LEMMA TurnsStay ==
    ASSUME NEW S, NEW N \in Nat, NEW g, DOMAIN g = 0..N, g[0] \in S,
           \A i \in 1..N : g[i - 1] \in S => g[i] \in S
    PROVE  \A i \in 0..N : g[i] \in S
<1> DEFINE Good == {n \in Nat : n <= N => g[n] \in S}
<1>1. 0 \in Good
  OBVIOUS
<1>2. ASSUME NEW n \in Nat, n \in Good PROVE n + 1 \in Good
  <2>1. n + 1 <= N => n + 1 \in 1..N /\ (n + 1) - 1 = n
    OBVIOUS
  <2> QED BY <1>2, <2>1
<1>3. Nat \subseteq Good
  <2> HIDE DEF Good
  <2> QED BY <1>1, <1>2, Induction
<1> QED BY <1>3

Keeps(g, s, S) ==
    /\ DOMAIN g = 0..Len(s) /\ g[0] = <<>>
    /\ \A i \in 1..Len(s) : g[i] = IF s[i] \in S THEN Append(g[i - 1], s[i]) ELSE g[i - 1]

LEMMA WithinTurns ==
    ASSUME NEW T, NEW s \in Seq(T), NEW S
    PROVE  \E g \in [0..Len(s) -> Seq(T)] : Keeps(g, s, S) /\ Within(s, S) = g[Len(s)]
<1> DEFINE N == Len(s)
           Op(k, x) == IF x \in S THEN Append(k, x) ELSE k
           Turn(f) == f = [t \in SUBSET (DOMAIN s) |->
                             IF t = {} THEN <<>>
                             ELSE LET x == Max(t) IN Op(f[t \ {x}], s[x])]
           F == CHOOSE f : Turn(f)
           G == [i \in 1..N |-> [k \in Seq(T) |-> Op(k, s[i])]]
           g == [i \in 0..N |-> F[1..i]]
<1>0. N \in Nat /\ DOMAIN s = 1..N /\ (\A i \in 1..N : s[i] \in T) /\ N = Len(s)
  BY LenProperties
<1>1. Within(s, S) = F[DOMAIN s]
  BY DEF Within, FoldLeft, MapThenFoldSet
<1>2. \A k \in Seq(T), i \in 1..N : Op(k, s[i]) \in Seq(T)
  BY <1>0
<1> HIDE DEF N, Op
<1>3. G \in [1..N -> [Seq(T) -> Seq(T)]] /\ <<>> \in Seq(T)
  BY <1>2
<1>4. PICK f \in [SUBSET (1..N) -> Seq(T)] : FoldsUp(f, G, <<>>, N)
  <2> HIDE DEF G
  <2> QED BY <1>0, <1>3, FoldExists
<1>5. Turn(f)
  <2>1. ASSUME NEW t \in SUBSET (1..N), t # {}
        PROVE  G[Max(t)][f[t \ {Max(t)}]] = Op(f[t \ {Max(t)}], s[Max(t)])
    <3>1. Max(t) \in 1..N /\ f[t \ {Max(t)}] \in Seq(T)
      BY <1>0, <2>1, MaxOfNumbers
    <3> QED BY <3>1
  <2> HIDE DEF G
  <2> QED BY <1>0, <1>4, <2>1 DEF FoldsUp
<1> HIDE DEF Turn
<1>6. Turn(F)
  BY <1>5
<1> HIDE DEF F
<1>7. F[1..0] = <<>>
  BY <1>0, <1>6 DEF Turn
<1>8. ASSUME NEW i \in 1..N PROVE F[1..i] = Op(F[1..(i - 1)], s[i])
  <2>1. 1..i \in SUBSET (1..N) /\ 1..i # {} /\ Max(1..i) = i /\ (1..i) \ {i} = 1..(i - 1)
    BY <1>0, UpToNumber
  <2> QED BY <1>0, <1>6, <2>1 DEF Turn
<1>9. DOMAIN g = 0..N /\ g[0] = <<>> /\ g[N] = F[1..N] /\ \A i \in 1..N : g[i] = Op(g[i - 1], s[i])
  BY <1>0, <1>7, <1>8
<1> HIDE DEF g
<1>10. \A i \in 0..N : g[i] \in Seq(T)
  <2>1. \A i \in 1..N : g[i - 1] \in Seq(T) => g[i] \in Seq(T)
    BY <1>2, <1>9
  <2>2. g[0] \in Seq(T) /\ DOMAIN g = 0..N
    BY <1>3, <1>9
  <2> QED BY <1>0, <2>1, <2>2, TurnsStay
<1>11. Keeps(g, s, S) /\ Within(s, S) = g[N]
  BY <1>0, <1>1, <1>9 DEF Keeps, Op
<1>12. g \in [0..N -> Seq(T)]
  BY <1>9, <1>10 DEF g
<1> QED BY <1>11, <1>12 DEF N

\* w is what s holds of S up to n, and f where it stood.
Picks(f, w, s, S, n) ==
    /\ f \in [1..Len(w) -> 1..n]
    /\ \A i, j \in 1..Len(w) : i < j => f[i] < f[j]
    /\ \A i \in 1..Len(w) : w[i] = s[f[i]] /\ w[i] \in S
    /\ \A k \in 1..n : s[k] \in S => \E i \in 1..Len(w) : f[i] = k

LEMMA WithinPicks ==
    ASSUME NEW T, NEW s \in Seq(T), NEW S
    PROVE  /\ Within(s, S) \in Seq(T)
           /\ \E f : Picks(f, Within(s, S), s, S, Len(s))
<1> DEFINE N == Len(s)
<1>1. PICK g \in [0..N -> Seq(T)] : Keeps(g, s, S) /\ Within(s, S) = g[N]
  BY WithinTurns
<1> DEFINE Good == {n \in Nat : n <= N => \E f : Picks(f, g[n], s, S, n)}
<1>0. N \in Nat /\ \A i \in 1..N : s[i] \in T
  BY LenProperties
<1>2. 0 \in Good
  <2>1. g[0] = <<>>
    BY <1>1 DEF Keeps
  <2>2. Picks(<<>>, g[0], s, S, 0)
    BY <2>1 DEF Picks
  <2> QED BY <2>2
<1>3. ASSUME NEW n \in Nat, n \in Good PROVE n + 1 \in Good
  <2> SUFFICES ASSUME n + 1 <= N PROVE \E f : Picks(f, g[n + 1], s, S, n + 1)
    OBVIOUS
  <2>1. n \in 0..N /\ n + 1 \in 1..N /\ g[n] \in Seq(T)
    BY <1>0
  <2>2. PICK f : Picks(f, g[n], s, S, n)
    BY <1>3, <2>1
  <2>3. g[n + 1] = IF s[n + 1] \in S THEN Append(g[n], s[n + 1]) ELSE g[n]
    BY <1>1, <2>1 DEF Keeps, N
  <2> DEFINE w == g[n]
             m == Len(w)
  <2>4. m \in Nat
    BY <2>1
  <2>5. CASE s[n + 1] \notin S
    <3>1. g[n + 1] = w
      BY <2>3, <2>5
    <3> HIDE DEF w
    <3>2. Picks(f, w, s, S, n + 1)
      <4>1. \A k \in 1..(n + 1) : s[k] \in S => k \in 1..n
        BY <2>5
      <4>2. f \in [1..Len(w) -> 1..(n + 1)]
        BY <2>2 DEF Picks, w
      <4> QED BY <2>2, <4>1, <4>2 DEF Picks, w
    <3> QED BY <3>1, <3>2
  <2>6. CASE s[n + 1] \in S
    <3> DEFINE v == Append(w, s[n + 1])
               h == [i \in 1..(m + 1) |-> IF i = m + 1 THEN n + 1 ELSE f[i]]
    <3>1. g[n + 1] = v /\ Len(v) = m + 1 /\ v[m + 1] = s[n + 1] /\ \A i \in 1..m : v[i] = w[i]
      <4>1. s[n + 1] \in T
        BY <1>0, <2>1
      <4> QED BY <2>1, <2>3, <2>6, <4>1, AppendProperties
    <3>2. /\ \A i \in 1..m : f[i] \in 1..n /\ w[i] = s[f[i]] /\ w[i] \in S
          /\ \A i, j \in 1..m : i < j => f[i] < f[j]
          /\ \A k \in 1..n : s[k] \in S => \E i \in 1..m : f[i] = k
      BY <2>2 DEF Picks
    <3> HIDE DEF w, m, v
    <3>3. h \in [1..(m + 1) -> 1..(n + 1)]
      BY <2>4, <3>2
    <3>4. \A i, j \in 1..(m + 1) : i < j => h[i] < h[j]
      <4> TAKE i, j \in 1..(m + 1)
      <4> SUFFICES ASSUME i < j PROVE h[i] < h[j]
        OBVIOUS
      <4>1. i \in 1..m /\ h[i] = f[i] /\ f[i] \in 1..n
        BY <2>4, <3>2
      <4>2. CASE j = m + 1
        BY <4>1, <4>2
      <4>3. CASE j # m + 1
        <5>1. j \in 1..m /\ h[j] = f[j]
          BY <2>4, <4>3
        <5> QED BY <3>2, <4>1, <5>1
      <4> QED BY <4>2, <4>3
    <3>5. \A i \in 1..(m + 1) : v[i] = s[h[i]] /\ v[i] \in S
      <4> TAKE i \in 1..(m + 1)
      <4>1. CASE i = m + 1
        BY <2>6, <3>1, <4>1
      <4>2. CASE i # m + 1
        <5>1. i \in 1..m /\ h[i] = f[i]
          BY <2>4, <4>2
        <5> QED BY <3>1, <3>2, <5>1
      <4> QED BY <4>1, <4>2
    <3>6. \A k \in 1..(n + 1) : s[k] \in S => \E i \in 1..(m + 1) : h[i] = k
      <4> TAKE k \in 1..(n + 1)
      <4>1. CASE k = n + 1
        <5>1. m + 1 \in 1..(m + 1) /\ h[m + 1] = n + 1
          BY <2>4
        <5> QED BY <4>1, <5>1
      <4>2. CASE k # n + 1
        <5> SUFFICES ASSUME s[k] \in S PROVE \E i \in 1..(m + 1) : h[i] = k
          OBVIOUS
        <5>1. k \in 1..n
          BY <4>2
        <5>2. PICK i \in 1..m : f[i] = k
          BY <3>2, <5>1
        <5>3. i \in 1..(m + 1) /\ h[i] = f[i]
          BY <2>4
        <5> QED BY <5>2, <5>3
      <4> QED BY <4>1, <4>2
    <3> HIDE DEF h
    <3>7. Picks(h, v, s, S, n + 1)
      BY <3>1, <3>3, <3>4, <3>5, <3>6 DEF Picks
    <3> QED BY <3>1, <3>7
  <2> QED BY <2>5, <2>6
<1>4. N \in Good
  <2> HIDE DEF Good
  <2> QED BY <1>0, <1>2, <1>3, Induction
<1> QED BY <1>0, <1>1, <1>4

\* What is kept is what both have, and as long as there are places that hold it.
LEMMA WithinHas ==
    ASSUME NEW T, NEW s \in Seq(T), NEW S
    PROVE  /\ Within(s, S) \in Seq(T)
           /\ ToSet(Within(s, S)) = ToSet(s) \intersect S
           /\ Len(Within(s, S)) = Cardinality({k \in 1..Len(s) : s[k] \in S})
<1> DEFINE w == Within(s, S)
           K == {k \in 1..Len(s) : s[k] \in S}
<1>1. w \in Seq(T) /\ Len(w) \in Nat /\ Len(s) \in Nat
  BY WithinPicks, LenProperties
<1>2. PICK f : Picks(f, w, s, S, Len(s))
  BY WithinPicks
<1> HIDE DEF w
<1>3. {w[i] : i \in 1..Len(w)} = {s[i] : i \in 1..Len(s)} \intersect S
  <2>1. \A i \in 1..Len(w) : w[i] \in S /\ \E j \in 1..Len(s) : s[j] = w[i]
    BY <1>2 DEF Picks
  <2>2. \A j \in 1..Len(s) : s[j] \in S => \E i \in 1..Len(w) : w[i] = s[j]
    BY <1>2 DEF Picks
  <2> QED BY <2>1, <2>2
<1>4. f \in Bijection(1..Len(w), K)
  <2>1. f \in [1..Len(w) -> K]
    BY <1>2 DEF Picks
  <2>2. \A i, j \in 1..Len(w) : f[i] = f[j] => i = j
    <3> TAKE i, j \in 1..Len(w)
    <3>1. i < j => f[i] < f[j]
      BY <1>2 DEF Picks
    <3>2. j < i => f[j] < f[i]
      BY <1>2 DEF Picks
    <3>3. f[i] \in Nat /\ f[j] \in Nat
      BY <2>1
    <3> QED BY <1>1, <3>1, <3>2, <3>3
  <2>3. \A k \in K : \E i \in 1..Len(w) : f[i] = k
    BY <1>2 DEF Picks
  <2> QED BY <2>1, <2>2, <2>3 DEF Bijection, Injection, Surjection, IsInjective
<1>5. Len(w) = Cardinality(K)
  <2>1. IsFiniteSet(1..Len(w)) /\ Cardinality(1..Len(w)) = Len(w)
    <3> DEFINE m == Len(w)
    <3>1. m \in Nat
      BY <1>1
    <3> HIDE DEF m
    <3>2. IsFiniteSet(1..m) /\ Cardinality(1..m) = m
      BY <3>1, FS_Interval
    <3> QED BY <3>2 DEF m
  <2>2. ExistsBijection(1..Len(w), K)
    BY <1>4 DEF ExistsBijection
  <2> QED BY <2>1, <2>2, FS_Bijection
<1>6. DOMAIN w = 1..Len(w) /\ DOMAIN s = 1..Len(s)
  BY <1>1, LenProperties
<1>7. ToSet(w) = ToSet(s) \intersect S
  BY <1>3, <1>6 DEF ToSet
<1> QED BY <1>1, <1>5, <1>7 DEF w

\* Sorting by an order without ties: every place has one element.
Orders(R, S) ==
    /\ \A x \in S : <<x, x>> \notin R
    /\ \A x, y \in S : x # y => <<x, y>> \in R \/ <<y, x>> \in R
    /\ \A x, y, z \in S : <<x, y>> \in R /\ <<y, z>> \in R => <<x, z>> \in R

LEMMA PlacesFilled ==
    ASSUME NEW S, IsFiniteSet(S), NEW R, Orders(R, S)
    PROVE  /\ Cardinality(S) \in Nat
           /\ \A i \in 1..Cardinality(S) : \E x \in S : PlaceOf(x, S, R) = i
           /\ \A x \in S : PlaceOf(x, S, R) \in 1..Cardinality(S)
           /\ \A x, z \in S : <<x, z>> \in R => PlaceOf(x, S, R) < PlaceOf(z, S, R)
<1> DEFINE N == Cardinality(S)
           Below(x) == {y \in S : <<y, x>> \in R}
           p == [x \in S |-> Cardinality(Below(x)) + 1]
<1>1. N \in Nat
  BY FS_CardinalityType
<1>2. \A x \in S : IsFiniteSet(Below(x)) /\ Cardinality(Below(x)) \in Nat
  <2> TAKE x \in S
  <2>1. Below(x) \in SUBSET S
    OBVIOUS
  <2> HIDE DEF Below
  <2>2. IsFiniteSet(Below(x))
    BY <2>1, FS_Subset
  <2> QED BY <2>2, FS_CardinalityType
<1>3. \A x \in S : p[x] \in 1..N
  <2> TAKE x \in S
  <2> DEFINE B == Below(x)
  <2>1. B \subseteq S \ {x}
    BY DEF Orders
  <2>2. IsFiniteSet(S \ {x}) /\ Cardinality(S \ {x}) = N - 1
    BY FS_RemoveElement
  <2>3. Cardinality(B) \in Nat
    BY <1>2
  <2> HIDE DEF B
  <2>4. Cardinality(B) <= N - 1
    BY <2>1, <2>2, FS_Subset
  <2>5. p[x] = Cardinality(B) + 1
    BY DEF B
  <2> QED BY <1>1, <2>3, <2>4, <2>5
<1>4. \A x, z \in S : <<x, z>> \in R => Cardinality(Below(x)) < Cardinality(Below(z))
  <2> TAKE x, z \in S
  <2> SUFFICES ASSUME <<x, z>> \in R PROVE Cardinality(Below(x)) < Cardinality(Below(z))
    OBVIOUS
  <2> DEFINE A == Below(x)
             B == Below(z)
  <2>1. A \subseteq B /\ x \in B /\ x \notin A
    BY DEF Orders
  <2>2. IsFiniteSet(B) /\ Cardinality(A) \in Nat /\ Cardinality(B) \in Nat
    BY <1>2
  <2> HIDE DEF A, B
  <2>3. Cardinality(A) <= Cardinality(B) /\ Cardinality(A) # Cardinality(B)
    <3>1. Cardinality(A) <= Cardinality(B) /\ (Cardinality(B) = Cardinality(A) => B = A)
      BY <2>1, <2>2, FS_Subset
    <3> QED BY <2>1, <3>1
  <2>4. Cardinality(A) < Cardinality(B)
    BY <2>2, <2>3
  <2> QED BY <2>4 DEF A, B
<1> HIDE DEF Below
<1>5. p \in Injection(S, 1..N)
  <2>1. \A x, z \in S : p[x] = p[z] => x = z
    <3> TAKE x, z \in S
    <3>1. <<x, z>> \in R => p[x] < p[z]
      BY <1>2, <1>4
    <3>2. <<z, x>> \in R => p[z] < p[x]
      BY <1>2, <1>4
    <3>3. p[x] \in Nat /\ p[z] \in Nat
      BY <1>2
    <3>4. x # z => <<x, z>> \in R \/ <<z, x>> \in R
      BY DEF Orders
    <3> HIDE DEF p
    <3> QED BY <3>1, <3>2, <3>3, <3>4
  <2>2. p \in [S -> 1..N]
    BY <1>3
  <2> HIDE DEF p
  <2> QED BY <2>1, <2>2 DEF Injection, IsInjective
<1>6. p \in Surjection(S, 1..N)
  <2>1. IsFiniteSet(1..N) /\ Cardinality(1..N) = N
    BY <1>1, FS_Interval
  <2> HIDE DEF p
  <2> QED BY <1>5, <2>1, FS_Injection
<1>7. \A i \in 1..N : \E x \in S : p[x] = i
  BY <1>6 DEF Surjection
<1>8. \A x \in S : p[x] = PlaceOf(x, S, R)
  BY DEF PlaceOf, Below
<1>9. \A x, z \in S : <<x, z>> \in R => p[x] < p[z]
  BY <1>2, <1>4
<1> HIDE DEF p
<1> QED BY <1>1, <1>3, <1>7, <1>8, <1>9

\* SumFunctionOnSet is the sum that InductionProofs is about.
LEMMA SumFunctionIsSum ==
    ASSUME NEW S, NEW g, Summands(g, S)
    PROVE  /\ SumFunctionOnSet(g, S) = SumOver(g, S)
           /\ SumFunctionOnSet(g, S) \in Nat
           /\ DOMAIN g = S => SumFunction(g) = SumOver(g, S)
<1> DEFINE Turn(f) == f = [s \in SUBSET S |->
                             IF s = {} THEN 0
                             ELSE LET x == CHOOSE x \in s : TRUE
                                  IN g[x] + f[s \ {x}]]
           F == CHOOSE f : Turn(f)
<1>1. SumFunctionOnSet(g, S) = F[S]
  BY DEF SumFunctionOnSet, FoldFunctionOnSet, MapThenFoldSet
<1>2. ASSUME NEW f PROVE Turn(f) <=> AddsUp(f, g, S)
  BY DEF AddsUp, SomeOf
<1>3. PICK h : Totals(h, g, S)
  BY TotalsExist
<1> HIDE DEF Turn
<1>4. AddsUp(F, g, S)
  BY <1>2, <1>3 DEF Totals
<1> HIDE DEF F
<1>5. F[S] = h[S] /\ S \in SUBSET S
  BY <1>3, <1>4, SumsAgree DEF Totals, Summands
<1>6. SumFunctionOnSet(g, S) = SumOver(g, S)
  BY <1>1, <1>3, <1>5 DEF Totals
<1> QED BY <1>6, SumIsNatural DEF SumFunction

\* One summand more than nothing.
LEMMA SumHasPart ==
    ASSUME NEW S, NEW g, Summands(g, S), NEW y \in S
    PROVE  SumOver(g, S) >= g[y]
<1>1. Summands(g, S \ {y}) /\ g[y] \in Nat
  BY SomeSummands DEF Summands
<1> QED BY <1>1, SumWithout, SumIsNatural

\* The image of a finite set.
LEMMA ImageIsFinite ==
    ASSUME NEW g, IsFiniteSet(DOMAIN g)
    PROVE  IsFiniteSet({g[x] : x \in DOMAIN g})
<1> DEFINE S == DOMAIN g
           T == {g[x] : x \in S}
           h == [x \in S |-> g[x]]
<1>1. h \in Surjection(S, T)
  BY DEF Surjection
<1> HIDE DEF h, T
<1>2. IsFiniteSet(T)
  BY <1>1, FS_Surjection
<1> QED BY <1>2 DEF T

\* What a filter leaves is a sublist.
LEMMA WithinLeaves ==
    ASSUME NEW T, NEW s \in Seq(T), NEW S
    PROVE  /\ Within(s, S) \in Seq(T) /\ Len(Within(s, S)) \in Nat
           /\ Len(Within(s, S)) <= Len(s)
           /\ ToSet(Within(s, S)) = ToSet(s) \intersect S
<1> DEFINE w == Within(s, S)
           n == Len(s)
           K == {k \in 1..n : s[k] \in S}
<1>1. w \in Seq(T) /\ ToSet(w) = ToSet(s) \intersect S /\ Len(w) = Cardinality(K)
  BY WithinHas
<1>2. n \in Nat
  BY LenProperties
<1>3. Cardinality(K) \in Nat /\ Cardinality(K) <= n
  <2>1. K \subseteq 1..n
    OBVIOUS
  <2> HIDE DEF n, K
  <2>2. IsFiniteSet(1..n) /\ Cardinality(1..n) = n
    BY <1>2, FS_Interval
  <2> QED BY <2>1, <2>2, FS_Subset, FS_CardinalityType
<1> HIDE DEF w, K
<1> QED BY <1>1, <1>3 DEF w

\* Sorting: every element has its place, and no two the same.
LEMMA RankedHas ==
    ASSUME NEW S, IsFiniteSet(S), NEW R, Orders(R, S)
    PROVE  LET w == Ranked(S, R) IN
           /\ w \in Seq(S) /\ Len(w) = Cardinality(S)
           /\ \A x \in S : \E i \in 1..Len(w) : w[i] = x
           /\ \A i, j \in 1..Len(w) : i < j => <<w[i], w[j]>> \in R
<1> DEFINE Spot(x) == PlaceOf(x, S, R)
           N == Cardinality(S)
           w == [i \in 1..N |-> CHOOSE x \in S : Spot(x) = i]
<1>0. Ranked(S, R) = w
  BY DEF Ranked
<1>1. /\ N \in Nat
      /\ \A i \in 1..N : \E x \in S : Spot(x) = i
      /\ \A x \in S : Spot(x) \in 1..N
  BY PlacesFilled
<1>2. \A x, z \in S : <<x, z>> \in R => Spot(x) < Spot(z)
  BY PlacesFilled
<1> HIDE DEF Spot
<1>3. \A i \in 1..N : w[i] \in S /\ Spot(w[i]) = i
  BY <1>1
<1>4. \A x, z \in S : Spot(x) = Spot(z) => x = z
  <2> TAKE x, z \in S
  <2>1. Spot(x) \in Nat /\ Spot(z) \in Nat
    BY <1>1
  <2>2. x # z => <<x, z>> \in R \/ <<z, x>> \in R
    BY DEF Orders
  <2> QED BY <1>2, <2>1, <2>2
<1> HIDE DEF N
<1>5. w \in Seq(S) /\ Len(w) = N
  BY <1>1, <1>3
<1> HIDE DEF w
<1>6. \A x \in S : \E i \in 1..N : w[i] = x
  BY <1>1, <1>3, <1>4
<1>7. \A i, j \in 1..N : i < j => <<w[i], w[j]>> \in R
  <2> TAKE i, j \in 1..N
  <2>1. w[i] \in S /\ w[j] \in S /\ Spot(w[i]) = i /\ Spot(w[j]) = j
    BY <1>3
  <2>2. i < j => w[i] # w[j]
    BY <2>1, <1>1
  <2>3. <<w[j], w[i]>> \in R => j < i
    BY <1>2, <2>1
  <2>4. i \in Nat /\ j \in Nat
    BY <1>1
  <2> QED BY <2>1, <2>2, <2>3, <2>4 DEF Orders
<1> QED BY <1>0, <1>5, <1>6, <1>7 DEF N

-----------------------------------------------------------------------------
(* Related files                                                            *)

RelStates == {"linked", "bare", "gone"}
RelTypes ==
    /\ rfTree \in [RelFiles -> RelStates] /\ rfSeen \in [RelFiles -> RelStates]
    /\ rfAt \in [tree : [RelFiles -> RelStates], seen : [RelFiles -> RelStates],
                 touched : SUBSET RelFiles]
    /\ rfCall.target \in RelFiles /\ rfCall.max \in Nat
    /\ \A f \in RelFiles : rfFound[f].score \in Nat

\* Since the call began only the files touched changed, and an edge between others
\* that tree and graph then had, the graph still has, however often it is rebuilt.
WorldSince ==
    /\ \A f \in RelFiles \ rfAt.touched : rfTree[f] = rfAt.tree[f]
    /\ \A e \in Edges(rfTree) \intersect Edges(rfAt.seen) :
          e.from \in RelFiles \ rfAt.touched /\ e.to \in RelFiles \ rfAt.touched => e \in Edges(rfSeen)

\* The parts a call goes through depend on the kind of its target.
Routed ==
    LET kind == RelKind[rfCall.target] IN
    /\ rfStep \in {"idle", "same dir", "imports", "importers", "types", "graph", "mentions",
                   "results", "answered"}
    /\ rfStep \in {"imports", "importers", "types"} => IsGo(rfCall.target)
    /\ rfStep = "graph" => kind \notin {"go", "gotest", "other", "hidden"}
    /\ rfStep = "mentions" => kind \in {"template", "other", "hidden"}

\* RelatesTo, part by part.
BySameDir(f, t) == "same" \in rfCall.options /\ RelDir[f] = RelDir[t] /\ RelKind[f] # "hidden"
ByGoImports(f, t) ==
    /\ "imports" \in rfCall.options /\ IsGo(t)
    /\ RelKind[f] = "go" /\ LinksTo(t, "package", f) /\ RelDir[f] # "."
ByGoImporters(f, t) ==
    "importers" \in rfCall.options /\ IsGo(t) /\ RelKind[f] = "go" /\ LinksTo(f, "package", t)
ByGoTypes(f, t) ==
    "refs" \in rfCall.options /\ IsGo(t) /\ (Linked(f, {"type"}, t) \/ Linked(t, {"type"}, f))
ByGraph(f, t) ==
    /\ InGraph(t)
    /\ \/ "imports" \in rfCall.options /\ Linked(t, {"import", "autoload"}, f)
       \/ "importers" \in rfCall.options /\ Linked(f, {"import", "autoload"}, t)
       \/ "refs" \in rfCall.options /\ (Linked(f, {"reference"}, t) \/ Linked(t, {"reference"}, f))
ByMentions(f, t) ==
    RelKind[t] \in {"template", "other"} /\ RelKind[f] # "hidden" /\ LinksTo(f, "mention", t)

\* What the parts that are done must have found.
Owed(f) ==
    LET t == rfCall.target IN
    \/ rfStep \notin {"idle", "same dir"} /\ BySameDir(f, t)
    \/ rfStep \in {"importers", "types", "results", "answered"} /\ ByGoImports(f, t)
    \/ rfStep \in {"types", "results", "answered"} /\ ByGoImporters(f, t)
    \/ rfStep \in {"results", "answered"} /\ ByGoTypes(f, t)
    \/ rfStep \in {"mentions", "results", "answered"} /\ ByGraph(f, t)
    \/ rfStep \in {"results", "answered"} /\ ByMentions(f, t)
FoundSoFar ==
    \A f \in RelFiles \ {rfCall.target} :
        Steady(f) /\ Steady(rfCall.target) /\ Owed(f) => rfFound[f].score > 0

\* What is named and what had a score, once there is an answer.
AnswerNames ==
    rfStep = "answered" =>
        /\ Len(rfAnswer.paths) <= rfCall.max
        /\ \A f \in ToSet(rfAnswer.paths) : rfAt.tree[f] = "gone" => f \in rfAt.touched
        /\ ~rfAnswer.cut => \A f \in RelFiles : Steady(f) /\ rfFound[f].score > 0
                                                  => f \in ToSet(rfAnswer.paths)
RelatedInv == RelTypes /\ WorldSince /\ Routed /\ FoundSoFar /\ AnswerNames

LEMMA RelatedInvGives == RelatedInv => RelatedIsWhole
<1> SUFFICES ASSUME RelatedInv, rfStep = "answered" PROVE RelatedIsWhole
  BY DEF RelatedIsWhole
<1>1. ASSUME ~rfAnswer.cut, Steady(rfCall.target), NEW f \in RelFiles \ {rfCall.target},
             Steady(f), RelatesTo(f, rfCall.target)
      PROVE  f \in ToSet(rfAnswer.paths)
  <2>1. Owed(f)
    BY <1>1 DEF RelatesTo, IsImported, Imports, SharesNames, Owed, BySameDir, ByGoImports,
                ByGoImporters, ByGoTypes, ByGraph, ByMentions
  <2>2. rfFound[f].score > 0
    BY <1>1, <2>1 DEF RelatedInv, FoundSoFar
  <2> QED BY <1>1, <2>2 DEF RelatedInv, AnswerNames
<1> QED BY <1>1 DEF RelatedIsWhole, RelatedInv, AnswerNames

LEMMA RelatedFinite ==
    /\ IsFiniteSet(RelFiles) /\ RelPaths[1] \in RelFiles
    /\ IsFiniteSet(GraphEdges) /\ \A e \in GraphEdges : e.hits \in Nat
<1>1. IsFiniteSet(RelFiles) /\ RelPaths[1] \in RelFiles
  <2>1. IsFiniteSet(DOMAIN RelPaths) /\ 1 \in DOMAIN RelPaths
    <3> DEFINE n == Len(RelPaths)
    <3>1. n \in Nat /\ n # 0 /\ DOMAIN RelPaths = 1..n
      BY RelatedAssumption, LenProperties, EmptySeq
    <3> HIDE DEF n
    <3> QED BY <3>1, FS_Interval
  <2>2. IsFiniteSet({RelPaths[i] : i \in DOMAIN RelPaths})
    BY <2>1, ImageIsFinite
  <2> QED BY <2>1, <2>2 DEF RelFiles, ToSet
<1> DEFINE EdgesOf(f) == {[how |-> l.how, from |-> f, to |-> l.to, hits |-> l.hits] :
                             l \in {l \in RelLinks[f] : l.how \notin {"package", "mention"}}}
           S == {EdgesOf(f) : f \in RelFiles}
<1>2. ASSUME NEW f \in RelFiles PROVE IsFiniteSet(EdgesOf(f))
  <2> DEFINE U == {l \in RelLinks[f] : l.how \notin {"package", "mention"}}
             g == [l \in U |-> [how |-> l.how, from |-> f, to |-> l.to, hits |-> l.hits]]
  <2>1. IsFiniteSet(U)
    BY RelatedAssumption, FS_Subset
  <2>2. EdgesOf(f) = {g[l] : l \in DOMAIN g} /\ DOMAIN g = U
    OBVIOUS
  <2> HIDE DEF EdgesOf, g
  <2> QED BY <2>1, <2>2, ImageIsFinite
<1>3. IsFiniteSet(S)
  <2> DEFINE g == [f \in RelFiles |-> EdgesOf(f)]
  <2>1. S = {g[f] : f \in DOMAIN g} /\ DOMAIN g = RelFiles
    OBVIOUS
  <2> HIDE DEF S, g
  <2> QED BY <1>1, <2>1, ImageIsFinite
<1>4. IsFiniteSet(UNION S)
  <2>1. \A s \in S : IsFiniteSet(s)
    BY <1>2
  <2> HIDE DEF S
  <2> QED BY <1>3, <2>1, FS_UNION
<1>5. GraphEdges = UNION S
  BY DEF GraphEdges
<1>6. \A e \in GraphEdges : e.hits \in Nat
  BY RelatedAssumption DEF GraphEdges
<1> QED BY <1>1, <1>4, <1>5, <1>6

LEMMA RelatedStarts == RelatedInit => RelatedInv
<1> SUFFICES ASSUME RelatedInit PROVE RelatedInv
  OBVIOUS
<1>1. RelTypes
  BY RelatedFinite DEF RelatedInit, RelTypes, RelStates, NothingFound
<1>2. WorldSince
  BY DEF RelatedInit, WorldSince
<1> QED BY <1>1, <1>2 DEF RelatedInit, RelatedInv, Routed, FoundSoFar, Owed, AnswerNames,
               ByGraph, ByGoTypes, ByGoImports, ByGoImporters, ByMentions

\* What a part finds is collected: no score goes down, and one that is found has some.
HitsOK(hits) == IsFiniteSet(hits) /\ \A h \in hits : h.score \in Nat /\ h.score > 0
LEMMA Collects ==
    ASSUME RelatedInv, NEW hits, HitsOK(hits), NEW f \in RelFiles
    PROVE  LET score == Collected(rfFound, hits)[f].score IN
           /\ score \in Nat /\ score >= rfFound[f].score
           /\ f # rfCall.target /\ (\E h \in hits : h.path = f) => score > 0
<1> DEFINE mine == {h \in hits : h.path = f /\ f # rfCall.target}
           g == [h \in mine |-> h.score]
<1>1. Collected(rfFound, hits)[f].score = rfFound[f].score + SumFunction(g)
  BY DEF Collected
<1>2. Summands(g, mine) /\ DOMAIN g = mine /\ \A h \in mine : g[h] = h.score
  BY FS_Subset DEF HitsOK, Summands
<1>3. rfFound[f].score \in Nat
  BY DEF RelatedInv, RelTypes
<1> HIDE DEF g
<1>4. SumFunction(g) = SumOver(g, mine) /\ SumOver(g, mine) \in Nat
  BY <1>2, SumFunctionIsSum, SumIsNatural
<1>5. ASSUME NEW h \in mine PROVE SumOver(g, mine) >= g[h] /\ g[h] > 0 /\ g[h] \in Nat
  BY <1>2, SumHasPart DEF HitsOK
<1>6. f # rfCall.target /\ (\E h \in hits : h.path = f) => SumOver(g, mine) > 0
  BY <1>4, <1>5
<1> HIDE DEF mine
<1> QED BY <1>1, <1>3, <1>4, <1>6

\* A part that finds all it owes.
LEMMA PartKeeps ==
    ASSUME RelatedInv, NEW step, NEW hits, NEW next, RelatedPart(step, hits, next),
           HitsOK(hits), Routed', next # "answered",
           \A f \in RelFiles \ {rfCall.target} :
               Steady(f) /\ Steady(rfCall.target) /\ Owed(f)'
                 => Owed(f) \/ \E h \in hits : h.path = f
    PROVE  RelatedInv'
<1>1. /\ UNCHANGED <<rfTree, rfSeen, rfAt, rfCall>>
      /\ rfFound' = Collected(rfFound, hits) /\ rfStep' = next
  BY DEF RelatedPart, rfWorld
<1>2. \A f \in RelFiles : /\ rfFound'[f].score \in Nat /\ rfFound'[f].score >= rfFound[f].score
                          /\ f # rfCall.target /\ (\E h \in hits : h.path = f) => rfFound'[f].score > 0
  BY <1>1, Collects
<1>3. RelTypes' /\ WorldSince'
  <2>1. RelTypes'
    BY <1>1, <1>2 DEF RelatedInv, RelTypes
  <2>2. WorldSince'
    BY <1>1 DEF RelatedInv, WorldSince, Edges
  <2> QED BY <2>1, <2>2
<1>4. FoundSoFar'
  <2> SUFFICES ASSUME NEW f \in RelFiles \ {rfCall.target},
                      Steady(f)', Steady(rfCall.target)', Owed(f)'
               PROVE  rfFound'[f].score > 0
    BY <1>1 DEF FoundSoFar
  <2>1. Steady(f) /\ Steady(rfCall.target)
    BY <1>1 DEF Steady, There
  <2>2. Owed(f) => rfFound[f].score > 0
    BY <2>1 DEF RelatedInv, FoundSoFar
  <2>3. rfFound[f].score \in Nat
    BY DEF RelatedInv, RelTypes
  <2> QED BY <1>2, <2>1, <2>2, <2>3
<1>5. AnswerNames'
  BY <1>1 DEF AnswerNames
<1> QED BY <1>3, <1>4, <1>5 DEF RelatedInv

\* What a file owes depends on the tree, and on the call, only through these.
LEMMA StillOwed ==
    ASSUME UNCHANGED <<rfTree, rfAt, rfCall>>, NEW f
    PROVE  /\ BySameDir(f, rfCall.target)' <=> BySameDir(f, rfCall.target)
           /\ ByGoImports(f, rfCall.target)' <=> ByGoImports(f, rfCall.target)
           /\ ByGoImporters(f, rfCall.target)' <=> ByGoImporters(f, rfCall.target)
           /\ ByGoTypes(f, rfCall.target)' <=> ByGoTypes(f, rfCall.target)
           /\ ByGraph(f, rfCall.target)' <=> ByGraph(f, rfCall.target)
           /\ ByMentions(f, rfCall.target)' <=> ByMentions(f, rfCall.target)
<1>1. \A g, h, how : LinksTo(g, how, h)' <=> LinksTo(g, how, h)
  BY DEF LinksTo, LinksIn
<1>2. \A g, h, hows : Linked(g, hows, h)' <=> Linked(g, hows, h)
  BY DEF Linked, Edges
<1>3. IsGo(rfCall.target)' <=> IsGo(rfCall.target)
  BY DEF IsGo
<1>4. InGraph(rfCall.target)' <=> InGraph(rfCall.target)
  BY DEF InGraph
<1> QED BY <1>1, <1>2, <1>3, <1>4 DEF BySameDir, ByGoImports, ByGoImporters, ByGoTypes, ByGraph, ByMentions

LEMMA NoHits == HitsOK({})
  BY FS_EmptySet DEF HitsOK

LEMMA SameDirKeeps == RelatedInv /\ SameDirPart => RelatedInv'
<1> SUFFICES ASSUME RelatedInv, SameDirPart PROVE RelatedInv'
  OBVIOUS
<1> DEFINE t == rfCall.target
           S == {f \in RelFiles : RelDir[f] = RelDir[t] /\ RelKind[f] # "hidden" /\ There(rfTree, f)}
           g == [f \in S |-> RelHit(f, IF RelKind[f] = "gotest" THEN 6 ELSE 5, "same_dir", f)]
           hits == IF "same" \in rfCall.options THEN SameDirHits(t) ELSE {}
           next == IF RelKind[t] \in {"go", "gotest"} THEN "imports"
                   ELSE IF RelKind[t] \in {"other", "hidden"} THEN "mentions" ELSE "graph"
<1>1. RelatedPart("same dir", hits, next)
  BY DEF SameDirPart
<1>2. HitsOK(hits)
  <2>1. SameDirHits(t) = {g[f] : f \in DOMAIN g}
    BY DEF SameDirHits
  <2>2. IsFiniteSet(DOMAIN g)
    BY RelatedFinite, FS_Subset
  <2>3. \A h \in SameDirHits(t) : h.score \in Nat /\ h.score > 0
    BY DEF SameDirHits, RelHit
  <2> HIDE DEF g
  <2>4. IsFiniteSet(SameDirHits(t))
    BY <2>1, <2>2, ImageIsFinite
  <2> QED BY <2>3, <2>4, NoHits DEF HitsOK
<1>3. UNCHANGED <<rfTree, rfAt, rfCall>> /\ rfStep' = next
  BY <1>1 DEF RelatedPart, rfWorld
<1>4. Routed'
  BY <1>3 DEF Routed, IsGo
<1>5. ASSUME NEW f \in RelFiles \ {t}, Steady(f), Owed(f)' PROVE \E h \in hits : h.path = f
  <2>1. BySameDir(f, t)
    BY <1>3, <1>5, StillOwed DEF Owed, ByGraph, InGraph
  <2>2. RelHit(f, IF RelKind[f] = "gotest" THEN 6 ELSE 5, "same_dir", f) \in hits
    BY <1>5, <2>1 DEF BySameDir, Steady, SameDirHits
  <2> QED BY <2>2 DEF RelHit
<1> HIDE DEF hits
<1> QED BY <1>1, <1>2, <1>4, <1>5, PartKeeps

LEMMA GoImportsKeeps == RelatedInv /\ GoImportsPart => RelatedInv'
<1> SUFFICES ASSUME RelatedInv, GoImportsPart PROVE RelatedInv'
  OBVIOUS
<1> DEFINE t == rfCall.target
           S == {h \in {l \in LinksIn(rfTree, t) : l.how = "package" /\ l.to # "."} \X RelFiles :
                    /\ RelDir[h[2]] = h[1].to /\ RelKind[h[2]] \in {"go", "gotest"}
                    /\ There(rfTree, h[2])}
           g == [h \in S |-> RelHit(h[2], 8, "imported_package", h[1])]
           hits == IF "imports" \in rfCall.options THEN GoImportHits(t) ELSE {}
<1>1. RelatedPart("imports", hits, "importers")
  BY DEF GoImportsPart
<1>2. HitsOK(hits)
  <2>1. GoImportHits(t) = {g[h] : h \in DOMAIN g}
    BY DEF GoImportHits
  <2>2. IsFiniteSet(DOMAIN g)
    <3> DEFINE L == LinksIn(rfTree, t)
    <3>1. IsFiniteSet(L)
      BY RelatedAssumption, FS_EmptySet DEF RelatedInv, RelTypes, LinksIn
    <3>2. IsFiniteSet({l \in L : l.how = "package" /\ l.to # "."})
      BY <3>1, FS_Subset
    <3> DEFINE P == {l \in L : l.how = "package" /\ l.to # "."}
    <3>3. IsFiniteSet(P \X RelFiles)
      <4> HIDE DEF P
      <4> QED BY <3>2, RelatedFinite, FS_Product DEF P
    <3>4. S \subseteq P \X RelFiles
      OBVIOUS
    <3> HIDE DEF P, S
    <3> QED BY <3>3, <3>4, FS_Subset DEF g
  <2>3. \A h \in GoImportHits(t) : h.score \in Nat /\ h.score > 0
    BY DEF GoImportHits, RelHit
  <2> HIDE DEF g
  <2>4. IsFiniteSet(GoImportHits(t))
    BY <2>1, <2>2, ImageIsFinite
  <2> QED BY <2>3, <2>4, NoHits DEF HitsOK
<1>3. UNCHANGED <<rfTree, rfAt, rfCall>> /\ rfStep = "imports" /\ rfStep' = "importers"
  BY <1>1 DEF RelatedPart, rfWorld
<1>4. Routed'
  BY <1>3 DEF RelatedInv, Routed, IsGo
<1>5. ASSUME NEW f \in RelFiles \ {t}, Steady(f), Owed(f)'
      PROVE  Owed(f) \/ \E h \in hits : h.path = f
  <2>1. CASE BySameDir(f, t)
    BY <1>3, <2>1 DEF Owed
  <2>2. CASE ByGoImports(f, t)
    <3>1. PICK l \in LinksIn(rfTree, t) : l.how = "package" /\ l.to = RelDir[f]
      BY <2>2 DEF ByGoImports, LinksTo
    <3>2. RelHit(f, 8, "imported_package", l) \in hits
      <4>1. <<l, f>> \in S
        BY <1>5, <2>2, <3>1 DEF ByGoImports, Steady
      <4>2. RelHit(f, 8, "imported_package", l) \in GoImportHits(t)
        BY <4>1 DEF GoImportHits
      <4> QED BY <2>2, <4>2 DEF ByGoImports
    <3> QED BY <3>2 DEF RelHit
  <2> QED BY <1>3, <1>5, <2>1, <2>2, StillOwed DEF Owed
<1> HIDE DEF hits
<1> QED BY <1>1, <1>2, <1>4, <1>5, PartKeeps

LEMMA GoImportersKeeps == RelatedInv /\ GoImportersPart => RelatedInv'
<1> SUFFICES ASSUME RelatedInv, GoImportersPart PROVE RelatedInv'
  OBVIOUS
<1> DEFINE t == rfCall.target
           S == {f \in RelFiles : /\ RelKind[f] = "go" /\ There(rfTree, f)
                                  /\ \E l \in LinksIn(rfTree, f) :
                                         l.how = "package" /\ l.inside /\ l.to = RelDir[t]}
           g == [f \in S |-> RelHit(f, 10, "imports_target_package", t)]
           hits == IF "importers" \in rfCall.options THEN GoImporterHits(t) ELSE {}
<1>1. RelatedPart("importers", hits, "types")
  BY DEF GoImportersPart
<1>2. HitsOK(hits)
  <2>1. GoImporterHits(t) = {g[f] : f \in DOMAIN g}
    BY DEF GoImporterHits
  <2>2. IsFiniteSet(DOMAIN g)
    BY RelatedFinite, FS_Subset
  <2>3. \A h \in GoImporterHits(t) : h.score \in Nat /\ h.score > 0
    BY DEF GoImporterHits, RelHit
  <2> HIDE DEF g
  <2>4. IsFiniteSet(GoImporterHits(t))
    BY <2>1, <2>2, ImageIsFinite
  <2> QED BY <2>3, <2>4, NoHits DEF HitsOK
<1>3. UNCHANGED <<rfTree, rfAt, rfCall>> /\ rfStep = "importers" /\ rfStep' = "types"
  BY <1>1 DEF RelatedPart, rfWorld
<1>4. Routed'
  BY <1>3 DEF RelatedInv, Routed, IsGo
<1>5. ASSUME NEW f \in RelFiles \ {t}, Steady(f), Owed(f)'
      PROVE  Owed(f) \/ \E h \in hits : h.path = f
  <2>1. CASE BySameDir(f, t) \/ ByGoImports(f, t)
    BY <1>3, <2>1 DEF Owed
  <2>2. CASE ByGoImporters(f, t)
    <3>1. f \in S
      BY <1>5, <2>2 DEF ByGoImporters, LinksTo, Steady
    <3>2. RelHit(f, 10, "imports_target_package", t) \in hits
      BY <2>2, <3>1 DEF ByGoImporters, GoImporterHits
    <3> QED BY <3>2 DEF RelHit
  <2> QED BY <1>3, <1>5, <2>1, <2>2, StillOwed DEF Owed
<1> HIDE DEF hits
<1> QED BY <1>1, <1>2, <1>4, <1>5, PartKeeps

LEMMA MentionsKeeps == RelatedInv /\ MentionsPart => RelatedInv'
<1> SUFFICES ASSUME RelatedInv, MentionsPart PROVE RelatedInv'
  OBVIOUS
<1> DEFINE t == rfCall.target
           S == {f \in RelFiles : /\ There(rfTree, f) /\ RelKind[f] # "hidden"
                                  /\ \E l \in LinksIn(rfTree, f) : l.how = "mention" /\ l.to = t}
           g == [f \in S |-> RelHit(f, 2, "mention", t)]
           hits == MentionHits(t)
<1>1. RelatedPart("mentions", hits, "results")
  BY DEF MentionsPart
<1>2. HitsOK(hits)
  <2>1. hits = {g[f] : f \in DOMAIN g}
    BY DEF MentionHits
  <2>2. IsFiniteSet(DOMAIN g)
    BY RelatedFinite, FS_Subset
  <2>3. \A h \in hits : h.score \in Nat /\ h.score > 0
    BY DEF MentionHits, RelHit
  <2> HIDE DEF g
  <2>4. IsFiniteSet(hits)
    BY <2>1, <2>2, ImageIsFinite
  <2> QED BY <2>3, <2>4 DEF HitsOK
<1>3. UNCHANGED <<rfTree, rfAt, rfCall>> /\ rfStep = "mentions" /\ rfStep' = "results"
  BY <1>1 DEF RelatedPart, rfWorld
<1>4. Routed'
  BY <1>3 DEF RelatedInv, Routed
<1>5. ASSUME NEW f \in RelFiles \ {t}, Steady(f), Owed(f)'
      PROVE  Owed(f) \/ \E h \in hits : h.path = f
  <2>0. ~IsGo(t)
    BY <1>3 DEF RelatedInv, Routed, IsGo
  <2>1. CASE BySameDir(f, t) \/ ByGraph(f, t)
    BY <1>3, <2>1 DEF Owed
  <2>2. CASE ByMentions(f, t)
    <3>1. f \in S
      BY <1>5, <2>2 DEF ByMentions, LinksTo, Steady
    <3>2. RelHit(f, 2, "mention", t) \in hits
      BY <2>2, <3>1 DEF ByMentions, MentionHits
    <3> QED BY <3>2 DEF RelHit
  <2>3. BySameDir(f, t) \/ ByGraph(f, t) \/ ByMentions(f, t)
    BY <1>3, <1>5, <2>0, StillOwed DEF Owed, ByGoImports, ByGoImporters, ByGoTypes
  <2> QED BY <2>1, <2>2, <2>3
<1> HIDE DEF hits
<1> QED BY <1>1, <1>2, <1>4, <1>5, PartKeeps

\* The hits of edges: as many edges as the graph has.
LEMMA EdgesFinite ==
    ASSUME NEW tree PROVE IsFiniteSet(Edges(tree)) /\ \A e \in Edges(tree) : e.hits \in Nat
<1>1. Edges(tree) \subseteq GraphEdges
  BY DEF Edges
<1> QED BY <1>1, RelatedFinite, FS_Subset

LEMMA GoTypesKeeps == RelatedInv /\ GoTypesPart => RelatedInv'
<1> SUFFICES ASSUME RelatedInv, GoTypesPart PROVE RelatedInv'
  OBVIOUS
<1> DEFINE t == rfCall.target
           AtMost(n, most) == IF n < most THEN n ELSE most
           E == {e \in Edges(rfSeen) : e.how = "type"}
           To == {e \in E : e.to = t}
           From == {e \in E : e.from = t}
           g == [e \in To |-> RelHit(e.from, 12 + AtMost(e.hits, 3), "go_types_refs_target", e)]
           h == [e \in From |-> RelHit(e.to, 7 + AtMost(e.hits, 5), "go_types_used_by_target", e)]
           hits == IF "refs" \in rfCall.options THEN GoTypeHits(t) ELSE {}
<1>1. RelatedPart("types", hits, "results")
  BY DEF GoTypesPart
<1>2. GoTypeHits(t) = {g[e] : e \in DOMAIN g} \union {h[e] : e \in DOMAIN h}
  BY DEF GoTypeHits
<1>3. HitsOK(hits)
  <2>1. IsFiniteSet(DOMAIN g) /\ IsFiniteSet(DOMAIN h)
    BY EdgesFinite, FS_Subset
  <2>2. \A e \in Edges(rfSeen) : e.hits \in Nat
    BY EdgesFinite
  <2>3. \A e \in DOMAIN g : g[e].score \in Nat /\ g[e].score > 0
    BY <2>2 DEF RelHit
  <2>4. \A e \in DOMAIN h : h[e].score \in Nat /\ h[e].score > 0
    BY <2>2 DEF RelHit
  <2> HIDE DEF g, h
  <2>5. IsFiniteSet({g[e] : e \in DOMAIN g}) /\ IsFiniteSet({h[e] : e \in DOMAIN h})
    BY <2>1, ImageIsFinite
  <2>6. IsFiniteSet(GoTypeHits(t))
    BY <1>2, <2>5, FS_Union
  <2>7. \A x \in GoTypeHits(t) : x.score \in Nat /\ x.score > 0
    BY <1>2, <2>3, <2>4
  <2> QED BY <2>6, <2>7, NoHits DEF HitsOK
<1>4. UNCHANGED <<rfTree, rfAt, rfCall>> /\ rfStep = "types" /\ rfStep' = "results"
  BY <1>1 DEF RelatedPart, rfWorld
<1>5. Routed'
  BY <1>4 DEF RelatedInv, Routed, IsGo
<1>6. ASSUME NEW f \in RelFiles \ {t}, Steady(f), Steady(t), Owed(f)'
      PROVE  Owed(f) \/ \E x \in hits : x.path = f
  <2>0. IsGo(t) /\ t \in RelFiles
    BY <1>4 DEF RelatedInv, Routed, RelTypes
  <2>1. CASE BySameDir(f, t) \/ ByGoImports(f, t) \/ ByGoImporters(f, t)
    BY <1>4, <2>1 DEF Owed
  <2>2. CASE ByGoTypes(f, t)
    <3>1. PICK e \in Edges(rfTree) \intersect Edges(rfAt.seen) :
              /\ e.how = "type"
              /\ \/ e.from = f /\ e.to = t
                 \/ e.from = t /\ e.to = f
      <4>1. PICK a, b : Linked(a, {"type"}, b) /\ <<a, b>> \in {<<f, t>>, <<t, f>>}
        BY <2>2 DEF ByGoTypes
      <4>2. PICK e \in Edges(rfTree) \intersect Edges(rfAt.seen) :
                e.how = "type" /\ e.from = a /\ e.to = b
        BY <4>1 DEF Linked
      <4> QED BY <4>1, <4>2
    <3>2. e \in E
      BY <1>6, <2>0, <3>1 DEF RelatedInv, WorldSince, Steady
    <3>3. CASE e.from = f /\ e.to = t
      <4>1. g[e] \in hits /\ g[e].path = f
        BY <2>2, <1>2, <3>2, <3>3 DEF ByGoTypes, RelHit
      <4> QED BY <4>1
    <3>4. CASE e.from = t /\ e.to = f
      <4>1. h[e] \in hits /\ h[e].path = f
        BY <2>2, <1>2, <3>2, <3>4 DEF ByGoTypes, RelHit
      <4> QED BY <4>1
    <3> QED BY <3>1, <3>3, <3>4
  <2>3. ByGraph(f, t) \/ ByMentions(f, t) => FALSE
    BY <2>0 DEF IsGo, ByGraph, InGraph, ByMentions
  <2> QED BY <1>4, <1>6, <2>1, <2>2, <2>3, StillOwed DEF Owed
<1> HIDE DEF hits
<1> QED BY <1>1, <1>3, <1>5, <1>6, PartKeeps

LEMMA GraphKeeps == RelatedInv /\ GraphPart => RelatedInv'
<1> SUFFICES ASSUME RelatedInv, GraphPart PROVE RelatedInv'
  OBVIOUS
<1> DEFINE t == rfCall.target
           E == {e \in Edges(rfSeen) : e.how # "type"}
           To == {e \in E : e.to = t /\ Included(e.how, FALSE)}
           From == {e \in E : e.from = t /\ Included(e.how, TRUE)}
           g == [e \in From |-> RelHit(e.to, EdgeScore(e.how, TRUE), ForthReason(e.how), e)]
           h == [e \in To |-> RelHit(e.from, EdgeScore(e.how, FALSE), BackReason(e.how), e)]
           hits == GraphHits(t)
           next == IF RelKind[t] = "template" THEN "mentions" ELSE "results"
<1>1. RelatedPart("graph", hits, next)
  BY DEF GraphPart
<1>2. hits = {g[e] : e \in DOMAIN g} \union {h[e] : e \in DOMAIN h}
  BY DEF GraphHits
<1>3. HitsOK(hits)
  <2>1. IsFiniteSet(DOMAIN g) /\ IsFiniteSet(DOMAIN h)
    BY EdgesFinite, FS_Subset
  <2>3. \A e \in DOMAIN g : g[e].score \in Nat /\ g[e].score > 0
    BY DEF RelHit, EdgeScore
  <2>4. \A e \in DOMAIN h : h[e].score \in Nat /\ h[e].score > 0
    BY DEF RelHit, EdgeScore
  <2> HIDE DEF g, h
  <2>5. IsFiniteSet({g[e] : e \in DOMAIN g}) /\ IsFiniteSet({h[e] : e \in DOMAIN h})
    BY <2>1, ImageIsFinite
  <2> HIDE DEF hits
  <2>6. IsFiniteSet(hits)
    BY <1>2, <2>5, FS_Union
  <2>7. \A x \in hits : x.score \in Nat /\ x.score > 0
    BY <1>2, <2>3, <2>4
  <2> QED BY <2>6, <2>7 DEF HitsOK
<1>4. UNCHANGED <<rfTree, rfAt, rfCall>> /\ rfStep = "graph" /\ rfStep' = next
  BY <1>1 DEF RelatedPart, rfWorld
<1>5. Routed'
  BY <1>4 DEF RelatedInv, Routed, IsGo
<1>6. ASSUME NEW f \in RelFiles \ {t}, Steady(f), Steady(t), Owed(f)'
      PROVE  Owed(f) \/ \E x \in hits : x.path = f
  <2>0. ~IsGo(t) /\ t \in RelFiles /\ RelKind[t] # "other"
    BY <1>4 DEF RelatedInv, Routed, RelTypes, IsGo
  <2>1. CASE BySameDir(f, t)
    BY <1>4, <2>1 DEF Owed
  <2>2. CASE ByGraph(f, t)
    <3>1. PICK e \in Edges(rfTree) \intersect Edges(rfAt.seen) :
              /\ e.how # "type"
              /\ \/ e.from = f /\ e.to = t /\ Included(e.how, FALSE)
                 \/ e.from = t /\ e.to = f /\ Included(e.how, TRUE)
      BY <2>2 DEF ByGraph, Linked, Included
    <3>2. e \in E
      BY <1>6, <2>0, <3>1 DEF RelatedInv, WorldSince, Steady
    <3>3. CASE e.from = f /\ e.to = t /\ Included(e.how, FALSE)
      <4>1. h[e] \in hits /\ h[e].path = f
        BY <1>2, <3>2, <3>3 DEF RelHit
      <4> QED BY <4>1
    <3>4. CASE e.from = t /\ e.to = f /\ Included(e.how, TRUE)
      <4>1. g[e] \in hits /\ g[e].path = f
        BY <1>2, <3>2, <3>4 DEF RelHit
      <4> QED BY <4>1
    <3> QED BY <3>1, <3>3, <3>4
  <2>3. BySameDir(f, t) \/ ByGraph(f, t)
    BY <1>4, <1>6, <2>0, StillOwed DEF Owed, ByGoImports, ByGoImporters, ByGoTypes, ByMentions
  <2> QED BY <2>1, <2>2, <2>3
<1> HIDE DEF hits
<1> QED BY <1>1, <1>3, <1>5, <1>6, PartKeeps

LEMMA AskedKeeps ==
    ASSUME RelatedInv, NEW t \in RelFiles, NEW options, NEW max \in RelMax,
           RelatedAsked(t, options, max)
    PROVE  RelatedInv'
<1>1. /\ rfStep' = "same dir" /\ rfFound' = NothingFound /\ UNCHANGED <<rfTree, rfSeen>>
      /\ rfCall' = [target |-> t, options |-> options, max |-> max]
      /\ rfAt' = [tree |-> rfTree, seen |-> rfSeen, touched |-> {}]
  BY DEF RelatedAsked, rfWorld
<1>2. RelTypes'
  BY <1>1, RelatedAssumption DEF RelatedInv, RelTypes, NothingFound
<1>3. WorldSince'
  BY <1>1 DEF WorldSince, Edges
<1>4. Routed' /\ AnswerNames'
  BY <1>1 DEF Routed, AnswerNames
<1>5. FoundSoFar'
  <2>1. \A f : ~Owed(f)'
    BY <1>1 DEF Owed
  <2> QED BY <2>1 DEF FoundSoFar
<1> QED BY <1>2, <1>3, <1>4, <1>5 DEF RelatedInv

\* The paths are in an order: no two files share a place.
LEMMA RelatedOrders ==
    ASSUME RelatedInv, NEW S, S \subseteq RelFiles
    PROVE  IsFiniteSet(S) /\ Orders(RelatedBefore, S)
<1>1. IsFiniteSet(S)
  BY RelatedFinite, FS_Subset
<1>2. ASSUME NEW f \in RelFiles
      PROVE  PathPlace(f) \in Int /\ RelPaths[PathPlace(f)] = f /\ rfFound[f].score \in Int
  <2>1. \E i \in DOMAIN RelPaths : RelPaths[i] = f
    BY DEF RelFiles, ToSet
  <2>2. PathPlace(f) \in DOMAIN RelPaths /\ RelPaths[PathPlace(f)] = f
    BY <2>1 DEF PathPlace
  <2>3. DOMAIN RelPaths = 1..Len(RelPaths) /\ Len(RelPaths) \in Nat
    BY RelatedAssumption, LenProperties
  <2> QED BY <2>2, <2>3 DEF RelatedInv, RelTypes
<1>3. \A f, g \in S : <<f, g>> \in RelatedBefore <=>
          \/ rfFound[f].score > rfFound[g].score
          \/ rfFound[f].score = rfFound[g].score /\ PathPlace(f) < PathPlace(g)
  BY DEF RelatedBefore
<1>4. \A f, g \in S : f # g => PathPlace(f) # PathPlace(g)
  BY <1>2
<1>5. \A f \in S : <<f, f>> \notin RelatedBefore
  BY <1>2, <1>3
<1>6. \A f, g \in S : f # g => <<f, g>> \in RelatedBefore \/ <<g, f>> \in RelatedBefore
  BY <1>2, <1>3, <1>4
<1>7. \A f, g, h \in S : <<f, g>> \in RelatedBefore /\ <<g, h>> \in RelatedBefore
                           => <<f, h>> \in RelatedBefore
  BY <1>2, <1>3
<1> QED BY <1>1, <1>5, <1>6, <1>7 DEF Orders

LEMMA ResultsKeeps == RelatedInv /\ RelatedResults => RelatedInv'
<1> SUFFICES ASSUME RelatedInv, RelatedResults PROVE RelatedInv'
  OBVIOUS
<1> DEFINE S == {f \in RelFiles : rfFound[f].score > 0}
           sorted == Ranked(S, RelatedBefore)
           cut == Len(sorted) > rfCall.max
           kept == IF cut THEN SubSeq(sorted, 1, rfCall.max) ELSE sorted
           T == {f \in RelFiles : There(rfTree, f)}
           paths == Within(kept, T)
<1>1. /\ rfStep = "results" /\ rfStep' = "answered" /\ rfAnswer' = [paths |-> paths, cut |-> cut]
      /\ UNCHANGED <<rfTree, rfSeen, rfAt, rfCall, rfFound>>
  BY DEF RelatedResults, rfWorld
<1>2. RelTypes /\ WorldSince
  BY DEF RelatedInv
<1>3. RelTypes' /\ WorldSince' /\ Routed'
  BY <1>1, <1>2 DEF RelTypes, WorldSince, Edges, Routed
<1>4. FoundSoFar'
  <2>1. \A f : Owed(f)' <=> Owed(f)
    BY <1>1, StillOwed DEF Owed
  <2>2. \A f : Steady(f)' <=> Steady(f)
    BY <1>1 DEF Steady, There
  <2> QED BY <1>1, <2>1, <2>2 DEF RelatedInv, FoundSoFar
<1>5. S \subseteq RelFiles
  OBVIOUS
<1> HIDE DEF S
<1>6. /\ sorted \in Seq(S) /\ \A f \in S : \E i \in 1..Len(sorted) : sorted[i] = f
  BY <1>5, RelatedOrders, RankedHas
<1> HIDE DEF sorted
<1>7. rfCall.max \in Nat /\ Len(sorted) \in Nat
  BY <1>2, <1>6 DEF RelTypes
<1>8. kept \in Seq(S) /\ Len(kept) \in Nat /\ Len(kept) <= rfCall.max /\ (~cut => kept = sorted)
  <2>1. CASE cut
    <3>1. \A i \in 1..rfCall.max : sorted[i] \in S
      BY <1>6, <1>7, <2>1, LenProperties
    <3>2. /\ SubSeq(sorted, 1, rfCall.max) \in Seq(S)
          /\ Len(SubSeq(sorted, 1, rfCall.max)) = IF 1 <= rfCall.max THEN rfCall.max - 1 + 1 ELSE 0
      BY <1>7, <3>1, SubSeqProperties
    <3> QED BY <1>7, <2>1, <3>2
  <2>2. CASE ~cut
    BY <1>6, <1>7, <2>2
  <2> QED BY <2>1, <2>2
<1> HIDE DEF kept, T
<1>9. Len(paths) \in Nat /\ Len(paths) <= Len(kept) /\ ToSet(paths) = ToSet(kept) \intersect T
  BY <1>8, WithinLeaves
<1>10. Len(paths) <= rfCall.max
  BY <1>7, <1>8, <1>9
<1> HIDE DEF paths
<1>11. ToSet(paths) = {kept[i] : i \in 1..Len(kept)} \intersect T
  BY <1>8, <1>9, LenProperties DEF ToSet
<1>12. AnswerNames'
  <2>1. ASSUME NEW f \in ToSet(paths) PROVE f \in RelFiles /\ rfTree[f] # "gone"
    BY <1>11, <2>1 DEF T, There
  <2>2. ASSUME NEW f \in ToSet(paths), rfAt.tree[f] = "gone" PROVE f \in rfAt.touched
    BY <1>2, <2>1, <2>2 DEF WorldSince
  <2>3. ASSUME ~cut, NEW f \in RelFiles, Steady(f), rfFound[f].score > 0
        PROVE  f \in ToSet(paths)
    <3>1. PICK i \in 1..Len(sorted) : sorted[i] = f
      BY <1>6, <2>3 DEF S
    <3>2. f \in T
      BY <2>3 DEF Steady, T
    <3> QED BY <1>8, <1>11, <2>3, <3>1, <3>2
  <2>4. \A f : Steady(f)' <=> Steady(f)
    BY <1>1 DEF Steady, There
  <2> HIDE DEF cut
  <2> QED BY <1>1, <1>10, <2>2, <2>3, <2>4 DEF AnswerNames
<1> QED BY <1>3, <1>4, <1>12 DEF RelatedInv

\* The tree or the graph changes: files that stand still owe no more than before.
LEMMA WorldMoves ==
    ASSUME RelatedInv, RelTypes', WorldSince',
           UNCHANGED <<rfStep, rfCall, rfFound, rfAnswer>>,
           rfAt'.tree = rfAt.tree, rfAt'.seen = rfAt.seen, rfAt.touched \subseteq rfAt'.touched,
           \A f \in RelFiles \ rfAt'.touched : rfTree'[f] = rfTree[f]
    PROVE  RelatedInv'
<1> DEFINE t == rfCall.target
<1>1. t \in RelFiles /\ t' = t
  BY DEF RelatedInv, RelTypes
<1>2. \A f \in RelFiles : Steady(f)' => Steady(f) /\ rfTree'[f] = rfTree[f]
  BY DEF Steady, There
<1>3. ASSUME NEW f \in RelFiles, NEW g \in RelFiles, Steady(f)', Steady(g)', NEW how
      PROVE  LinksTo(f, how, g)' => LinksTo(f, how, g)
  BY <1>2, <1>3 DEF LinksTo, LinksIn
<1>4. ASSUME NEW f \in RelFiles, NEW g \in RelFiles, Steady(f)', Steady(g)', NEW hows
      PROVE  Linked(f, hows, g)' => Linked(f, hows, g)
  <2> SUFFICES ASSUME Linked(f, hows, g)' PROVE Linked(f, hows, g)
    OBVIOUS
  <2>1. PICK e \in Edges(rfTree') \intersect Edges(rfAt.seen) : e.how \in hows /\ e.from = f /\ e.to = g
    BY DEF Linked
  <2>2. e \in Edges(rfTree)
    BY <1>2, <1>4, <2>1 DEF Edges
  <2> QED BY <2>1, <2>2 DEF Linked
<1>5. ASSUME NEW f \in RelFiles, Steady(f)', Steady(t)', Owed(f)' PROVE Owed(f)
  <2>1. BySameDir(f, t)' => BySameDir(f, t)
    BY DEF BySameDir
  <2>2. ByGoImports(f, t)' => ByGoImports(f, t)
    BY <1>1, <1>3, <1>5 DEF ByGoImports, IsGo
  <2>3. ByGoImporters(f, t)' => ByGoImporters(f, t)
    BY <1>1, <1>3, <1>5 DEF ByGoImporters, IsGo
  <2>4. ByGoTypes(f, t)' => ByGoTypes(f, t)
    BY <1>1, <1>4, <1>5 DEF ByGoTypes, IsGo
  <2>5. ByGraph(f, t)' => ByGraph(f, t)
    BY <1>1, <1>4, <1>5 DEF ByGraph, InGraph
  <2>6. ByMentions(f, t)' => ByMentions(f, t)
    BY <1>1, <1>3, <1>5 DEF ByMentions
  <2> QED BY <1>1, <1>5, <2>1, <2>2, <2>3, <2>4, <2>5, <2>6 DEF Owed
<1>6. FoundSoFar'
  BY <1>1, <1>2, <1>5 DEF RelatedInv, FoundSoFar
<1>7. Routed'
  BY DEF RelatedInv, Routed, IsGo
<1>8. AnswerNames'
  BY <1>2 DEF RelatedInv, AnswerNames
<1> QED BY <1>6, <1>7, <1>8 DEF RelatedInv

LEMMA RelatedEditKeeps ==
    ASSUME RelatedInv, NEW f \in RelFiles, NEW content \in RelStates, RelatedEdit(f, content)
    PROVE  RelatedInv'
<1>1. /\ rfTree' = [rfTree EXCEPT ![f] = content]
      /\ rfAt' = [rfAt EXCEPT !.touched = @ \union {f}]
      /\ UNCHANGED <<rfSeen, rfStep, rfCall, rfFound, rfAnswer>>
  BY DEF RelatedEdit
<1>2. RelTypes /\ WorldSince
  BY DEF RelatedInv
<1>3. /\ rfAt'.tree = rfAt.tree /\ rfAt'.seen = rfAt.seen
      /\ rfAt'.touched = rfAt.touched \union {f}
      /\ \A g \in RelFiles \ rfAt'.touched : rfTree'[g] = rfTree[g]
  BY <1>1, <1>2 DEF RelTypes
<1>4. RelTypes'
  BY <1>1, <1>2 DEF RelTypes
<1>5. WorldSince'
  <2>1. \A g \in RelFiles \ rfAt'.touched : rfTree'[g] = rfAt'.tree[g]
    BY <1>2, <1>3 DEF WorldSince
  <2>2. ASSUME NEW e \in Edges(rfTree') \intersect Edges(rfAt'.seen),
               e.from \in RelFiles \ rfAt'.touched, e.to \in RelFiles \ rfAt'.touched
        PROVE  e \in Edges(rfSeen')
    <3>1. e \in Edges(rfTree)
      BY <1>3, <2>2 DEF Edges
    <3>2. e \in Edges(rfAt.seen)
      BY <1>3, <2>2
    <3> QED BY <1>1, <1>2, <1>3, <2>2, <3>1, <3>2 DEF WorldSince
  <2> QED BY <2>1, <2>2 DEF WorldSince
<1> QED BY <1>1, <1>3, <1>4, <1>5, WorldMoves

LEMMA RebuiltKeeps == RelatedInv /\ GraphsRebuilt => RelatedInv'
<1> SUFFICES ASSUME RelatedInv, GraphsRebuilt PROVE RelatedInv'
  OBVIOUS
<1>1. rfSeen' = rfTree /\ UNCHANGED <<rfTree, rfStep, rfCall, rfFound, rfAnswer, rfAt>>
  BY DEF GraphsRebuilt
<1>2. RelTypes'
  BY <1>1 DEF RelatedInv, RelTypes
<1>3. WorldSince'
  BY <1>1 DEF RelatedInv, WorldSince
<1> QED BY <1>1, <1>2, <1>3, WorldMoves

LEMMA RelatedStutters == RelatedInv /\ UNCHANGED rfVars => RelatedInv'
<1> SUFFICES ASSUME RelatedInv, UNCHANGED rfVars PROVE RelatedInv'
  OBVIOUS
<1>1. UNCHANGED <<rfTree, rfSeen, rfStep, rfCall, rfFound, rfAnswer, rfAt>>
  BY DEF rfVars
<1>2. RelTypes'
  BY <1>1 DEF RelatedInv, RelTypes
<1>3. WorldSince'
  BY <1>1 DEF RelatedInv, WorldSince
<1> QED BY <1>1, <1>2, <1>3, WorldMoves

\* For any files, links and options, and any changes of the tree while a call runs
\* and the graphs lag behind: repo_related_files names every file that stood still
\* and is related to a target that did, unless it was cut at its maximum.
THEOREM RelatedIsWholeHolds == RelatedSpec => []RelatedIsWhole
<1>1. RelatedInv /\ [RelatedNext]_rfVars => RelatedInv'
  <2> SUFFICES ASSUME RelatedInv, RelatedNext PROVE RelatedInv'
    BY RelatedStutters
  <2>1. CASE \E t \in RelFiles, options \in RelOptions, max \in RelMax : RelatedAsked(t, options, max)
    BY <2>1, AskedKeeps
  <2>2. CASE \E f \in RelFiles, content \in {"linked", "bare", "gone"} : RelatedEdit(f, content)
    BY <2>2, RelatedEditKeeps DEF RelStates
  <2> QED BY <2>1, <2>2, SameDirKeeps, GoImportsKeeps, GoImportersKeeps, GoTypesKeeps, GraphKeeps,
             MentionsKeeps, ResultsKeeps, RebuiltKeeps DEF RelatedNext
<1> QED BY <1>1, RelatedStarts, RelatedInvGives, PTL DEF RelatedSpec

-----------------------------------------------------------------------------
(* repo_context                                                             *)

LEMMA UniqueIsSeq ==
    ASSUME NEW T, NEW s \in Seq(T) PROVE Unique(s) \in Seq(T)
<1> DEFINE N == Len(s)
           Op(seen, p) == IF Contains(seen, p) THEN seen ELSE Append(seen, p)
           Turn(f) == f = [t \in SUBSET (DOMAIN s) |->
                             IF t = {} THEN <<>>
                             ELSE LET x == Max(t) IN Op(f[t \ {x}], s[x])]
           F == CHOOSE f : Turn(f)
           G == [i \in 1..N |-> [k \in Seq(T) |-> Op(k, s[i])]]
           g == [i \in 0..N |-> F[1..i]]
<1>0. N \in Nat /\ DOMAIN s = 1..N /\ (\A i \in 1..N : s[i] \in T)
  BY LenProperties
<1>1. Unique(s) = F[DOMAIN s]
  BY DEF Unique, FoldLeft, MapThenFoldSet
<1>2. \A k \in Seq(T), i \in 1..N : Op(k, s[i]) \in Seq(T)
  BY <1>0
<1> HIDE DEF N, Op
<1>3. G \in [1..N -> [Seq(T) -> Seq(T)]] /\ <<>> \in Seq(T)
  BY <1>2
<1>4. PICK f \in [SUBSET (1..N) -> Seq(T)] : FoldsUp(f, G, <<>>, N)
  <2> HIDE DEF G
  <2> QED BY <1>0, <1>3, FoldExists
<1>5. Turn(f)
  <2>1. ASSUME NEW t \in SUBSET (1..N), t # {}
        PROVE  G[Max(t)][f[t \ {Max(t)}]] = Op(f[t \ {Max(t)}], s[Max(t)])
    <3>1. Max(t) \in 1..N /\ f[t \ {Max(t)}] \in Seq(T)
      BY <1>0, <2>1, MaxOfNumbers
    <3> QED BY <3>1
  <2> HIDE DEF G
  <2> QED BY <1>0, <1>4, <2>1 DEF FoldsUp
<1> HIDE DEF Turn
<1>6. Turn(F)
  BY <1>5
<1> HIDE DEF F
<1>7. F[1..0] = <<>>
  BY <1>0, <1>6 DEF Turn
<1>8. ASSUME NEW i \in 1..N PROVE F[1..i] = Op(F[1..(i - 1)], s[i])
  <2>1. 1..i \in SUBSET (1..N) /\ 1..i # {} /\ Max(1..i) = i /\ (1..i) \ {i} = 1..(i - 1)
    BY <1>0, UpToNumber
  <2> QED BY <1>0, <1>6, <2>1 DEF Turn
<1>9. DOMAIN g = 0..N /\ g[0] = <<>> /\ g[N] = F[1..N] /\ \A i \in 1..N : g[i] = Op(g[i - 1], s[i])
  BY <1>0, <1>7, <1>8
<1> HIDE DEF g
<1>10. \A i \in 0..N : g[i] \in Seq(T)
  <2>1. \A i \in 1..N : g[i - 1] \in Seq(T) => g[i] \in Seq(T)
    BY <1>2, <1>9
  <2>2. g[0] \in Seq(T) /\ DOMAIN g = 0..N
    BY <1>3, <1>9
  <2> QED BY <1>0, <2>1, <2>2, TurnsStay
<1> QED BY <1>0, <1>1, <1>9, <1>10

\* A budget that keeps to limits, and what packing against one leaves.
Budgets(limits) == [maxTokens : {limits.tokens}, maxBytes : {limits.bytes},
                    tokens : 0..limits.tokens, bytes : 0..limits.bytes, clamped : BOOLEAN]
PositiveLimits(limits) == limits.tokens \in Nat \ {0} /\ limits.bytes \in Nat \ {0}
Packings(T, limits) == [taken : Seq(T), budget : Budgets(limits)]

LEMMA TokensAreNatural == \A bytes \in Nat : Tokens(bytes) \in Nat
  BY DEF Tokens

LEMMA NewBudgetFits ==
    ASSUME NEW limits, PositiveLimits(limits)
    PROVE  NewBudget(limits.tokens, limits.bytes) \in Budgets(limits)
  BY DEF PositiveLimits, NewBudget, Budgets

LEMMA SpentFits ==
    ASSUME NEW limits, PositiveLimits(limits), NEW budget \in Budgets(limits), NEW bytes \in Nat
    PROVE  Spent(budget, bytes) \in Budgets(limits)
<1> DEFINE more == Tokens(bytes)
<1>1. more \in Nat
  BY TokensAreNatural
<1>2. CASE Affords(budget, bytes)
  <2>1. Spent(budget, bytes) = [budget EXCEPT !.tokens = @ + more, !.bytes = @ + bytes]
    BY <1>2 DEF Spent
  <2>2. more <= limits.tokens - budget.tokens /\ bytes <= limits.bytes - budget.bytes
    BY <1>1, <1>2 DEF Affords, Exceeds, Budgets, PositiveLimits
  <2> HIDE DEF more
  <2>3. /\ budget.tokens \in Nat /\ budget.bytes \in Nat
        /\ limits.tokens \in Nat /\ limits.bytes \in Nat
    BY DEF Budgets, PositiveLimits
  <2>4. budget.tokens + more \in 0..limits.tokens /\ budget.bytes + bytes \in 0..limits.bytes
    BY <1>1, <2>2, <2>3
  <2> QED BY <2>1, <2>4 DEF Budgets
<1>3. CASE ~Affords(budget, bytes)
  BY <1>3 DEF Spent, Budgets
<1> QED BY <1>2, <1>3

LEMMA TakesFits ==
    ASSUME NEW limits, PositiveLimits(limits), NEW T, NEW state \in Packings(T, limits),
           NEW item \in T, item.bytes \in Nat
    PROVE  Takes(state, item) \in Packings(T, limits)
<1>1. state.taken \in Seq(T) /\ state.budget \in Budgets(limits)
  BY DEF Packings
<1>2. Spent(state.budget, item.bytes) \in Budgets(limits) /\ Append(state.taken, item) \in Seq(T)
  BY <1>1, SpentFits
<1>3. [state EXCEPT !.budget = Spent(@, item.bytes)]
        = [taken |-> state.taken, budget |-> Spent(state.budget, item.bytes)]
  BY DEF Packings
<1> QED BY <1>1, <1>2, <1>3 DEF Takes, Packings

LEMMA TakesChunkFits ==
    ASSUME NEW limits, PositiveLimits(limits), NEW T, NEW state \in Packings(T, limits),
           NEW item \in T, item.bytes \in Nat
    PROVE  TakesChunk(state, item) \in Packings(T, limits)
<1> DEFINE full == Cardinality({i \in DOMAIN state.taken : state.taken[i].path = item.path})
                     >= cxCall.limits.perFile
<1>1. TakesChunk(state, item) = IF full THEN state ELSE Takes(state, item)
  BY DEF TakesChunk
<1> HIDE DEF full
<1> QED BY <1>1, TakesFits

LEMMA ItemsFit ==
    ASSUME NEW limits, PositiveLimits(limits), NEW T, \A item \in T : item.bytes \in Nat,
           NEW s \in Seq(T), NEW start \in Packings(T, limits)
    PROVE  PacksItems(start, s) \in Packings(T, limits)
<1> DEFINE N == Len(s)
           S == Packings(T, limits)
           Turn(f) == f = [t \in SUBSET (DOMAIN s) |->
                             IF t = {} THEN start
                             ELSE LET x == Max(t) IN Takes(f[t \ {x}], s[x])]
           F == CHOOSE f : Turn(f)
           G == [i \in 1..N |-> [k \in S |-> Takes(k, s[i])]]
           g == [i \in 0..N |-> F[1..i]]
<1>0. N \in Nat /\ DOMAIN s = 1..N /\ (\A i \in 1..N : s[i] \in T)
  BY LenProperties
<1>1. PacksItems(start, s) = F[DOMAIN s]
  BY DEF PacksItems, FoldLeft, MapThenFoldSet
<1>2. \A k \in S, i \in 1..N : Takes(k, s[i]) \in S
  BY <1>0, TakesFits
<1> HIDE DEF N, S
<1>3. G \in [1..N -> [S -> S]] /\ start \in S
  BY <1>2 DEF S
<1>4. PICK f \in [SUBSET (1..N) -> S] : FoldsUp(f, G, start, N)
  <2> HIDE DEF G
  <2> QED BY <1>0, <1>3, FoldExists
<1>5. Turn(f)
  <2>1. ASSUME NEW t \in SUBSET (1..N), t # {}
        PROVE  G[Max(t)][f[t \ {Max(t)}]] = Takes(f[t \ {Max(t)}], s[Max(t)])
    <3>1. Max(t) \in 1..N /\ f[t \ {Max(t)}] \in S
      BY <1>0, <2>1, MaxOfNumbers
    <3> QED BY <3>1
  <2> HIDE DEF G
  <2> QED BY <1>0, <1>4, <2>1 DEF FoldsUp
<1> HIDE DEF Turn
<1>6. Turn(F)
  BY <1>5
<1> HIDE DEF F
<1>7. F[1..0] = start
  BY <1>0, <1>6 DEF Turn
<1>8. ASSUME NEW i \in 1..N PROVE F[1..i] = Takes(F[1..(i - 1)], s[i])
  <2>1. 1..i \in SUBSET (1..N) /\ 1..i # {} /\ Max(1..i) = i /\ (1..i) \ {i} = 1..(i - 1)
    BY <1>0, UpToNumber
  <2> QED BY <1>0, <1>6, <2>1 DEF Turn
<1>9. /\ DOMAIN g = 0..N /\ g[0] = start /\ g[N] = F[1..N]
      /\ \A i \in 1..N : g[i] = Takes(g[i - 1], s[i])
  BY <1>0, <1>7, <1>8
<1> HIDE DEF g
<1>10. \A i \in 0..N : g[i] \in S
  <2>1. \A i \in 1..N : g[i - 1] \in S => g[i] \in S
    BY <1>2, <1>9
  <2>2. g[0] \in S /\ DOMAIN g = 0..N
    BY <1>3, <1>9
  <2> QED BY <1>0, <2>1, <2>2, TurnsStay
<1> QED BY <1>0, <1>1, <1>9, <1>10 DEF S

LEMMA ChunksFit ==
    ASSUME NEW limits, PositiveLimits(limits), NEW T, \A item \in T : item.bytes \in Nat,
           NEW s \in Seq(T), Nothing \in Packings(T, limits)
    PROVE  PacksChunks(s) \in Packings(T, limits)
<1> DEFINE N == Len(s)
           S == Packings(T, limits)
           Turn(f) == f = [t \in SUBSET (DOMAIN s) |->
                             IF t = {} THEN Nothing
                             ELSE LET x == Max(t) IN TakesChunk(f[t \ {x}], s[x])]
           F == CHOOSE f : Turn(f)
           G == [i \in 1..N |-> [k \in S |-> TakesChunk(k, s[i])]]
           g == [i \in 0..N |-> F[1..i]]
<1>0. N \in Nat /\ DOMAIN s = 1..N /\ (\A i \in 1..N : s[i] \in T)
  BY LenProperties
<1>1. PacksChunks(s) = F[DOMAIN s]
  BY DEF PacksChunks, FoldLeft, MapThenFoldSet
<1>2. \A k \in S, i \in 1..N : TakesChunk(k, s[i]) \in S
  BY <1>0, TakesChunkFits
<1> HIDE DEF N, S
<1>3. G \in [1..N -> [S -> S]] /\ Nothing \in S
  BY <1>2 DEF S
<1>4. PICK f \in [SUBSET (1..N) -> S] : FoldsUp(f, G, Nothing, N)
  <2> HIDE DEF G
  <2> QED BY <1>0, <1>3, FoldExists
<1>5. Turn(f)
  <2>1. ASSUME NEW t \in SUBSET (1..N), t # {}
        PROVE  G[Max(t)][f[t \ {Max(t)}]] = TakesChunk(f[t \ {Max(t)}], s[Max(t)])
    <3>1. Max(t) \in 1..N /\ f[t \ {Max(t)}] \in S
      BY <1>0, <2>1, MaxOfNumbers
    <3> QED BY <3>1
  <2> HIDE DEF G
  <2> QED BY <1>0, <1>4, <2>1 DEF FoldsUp
<1> HIDE DEF Turn
<1>6. Turn(F)
  BY <1>5
<1> HIDE DEF F
<1>7. F[1..0] = Nothing
  BY <1>0, <1>6 DEF Turn
<1>8. ASSUME NEW i \in 1..N PROVE F[1..i] = TakesChunk(F[1..(i - 1)], s[i])
  <2>1. 1..i \in SUBSET (1..N) /\ 1..i # {} /\ Max(1..i) = i /\ (1..i) \ {i} = 1..(i - 1)
    BY <1>0, UpToNumber
  <2> QED BY <1>0, <1>6, <2>1 DEF Turn
<1>9. /\ DOMAIN g = 0..N /\ g[0] = Nothing /\ g[N] = F[1..N]
      /\ \A i \in 1..N : g[i] = TakesChunk(g[i - 1], s[i])
  BY <1>0, <1>7, <1>8
<1> HIDE DEF g
<1>10. \A i \in 0..N : g[i] \in S
  <2>1. \A i \in 1..N : g[i - 1] \in S => g[i] \in S
    BY <1>2, <1>9
  <2>2. g[0] \in S /\ DOMAIN g = 0..N
    BY <1>3, <1>9
  <2> QED BY <1>0, <2>1, <2>2, TurnsStay
<1> QED BY <1>0, <1>1, <1>9, <1>10 DEF S

LEMMA TimesGrows ==
    ASSUME NEW x \in Nat, NEW y \in Nat, NEW z \in Nat, z > 0
    PROVE  (x > y <=> x * z > y * z) /\ (x = y <=> x * z = y * z)
<1>1. CASE x > y
  <2>1. PICK d \in Nat : x = y + d /\ d > 0
    <3>1. x - y \in Nat /\ x - y > 0 /\ x = y + (x - y)
      BY <1>1
    <3> QED BY <3>1
  <2>2. x * z = y * z + d * z /\ d * z > 0
    BY <2>1
  <2>3. x * z \in Int /\ y * z \in Int /\ d * z \in Int
    BY <2>1
  <2> QED BY <1>1, <2>2, <2>3
<1>2. CASE x = y
  <2>1. x * z \in Int
    OBVIOUS
  <2> QED BY <1>2, <2>1
<1>3. CASE x < y
  <2>1. PICK d \in Nat : y = x + d /\ d > 0
    <3>1. y - x \in Nat /\ y - x > 0 /\ y = x + (y - x)
      BY <1>3
    <3> QED BY <3>1
  <2>2. y * z = x * z + d * z /\ d * z > 0
    BY <2>1
  <2>3. x * z \in Int /\ y * z \in Int /\ d * z \in Int
    BY <2>1
  <2> QED BY <1>3, <2>2, <2>3
<1> QED BY <1>1, <1>2, <1>3

\* Fractions compare transitively.
LEMMA RatiosCompare ==
    ASSUME NEW a \in Nat, NEW b \in Nat, NEW c \in Nat,
           NEW p \in Nat, NEW q \in Nat, NEW r \in Nat, p > 0, q > 0, r > 0,
           a * q >= b * p, b * r >= c * q
    PROVE  /\ a * r >= c * p
           /\ a * q > b * p \/ b * r > c * q => a * r > c * p
           /\ a * q = b * p /\ b * r = c * q => a * r = c * p
<1> DEFINE X == a * q
           Y == b * p
           Z == b * r
           W == c * q
           U == a * r
           V == c * p
<1>1. X \in Nat /\ Y \in Nat /\ Z \in Nat /\ W \in Nat /\ U \in Nat /\ V \in Nat
  OBVIOUS
<1>2. X * r = U * q /\ Y * r = Z * p /\ W * p = V * q
  OBVIOUS
<1>3. X >= Y /\ Z >= W
  OBVIOUS
<1> HIDE DEF X, Y, Z, W, U, V
<1>4. X * r \in Nat /\ Y * r \in Nat /\ W * p \in Nat
  BY <1>1
<1>5. X * r >= Y * r /\ (X > Y => X * r > Y * r) /\ (X = Y => X * r = Y * r)
  BY <1>1, <1>3, <1>4, TimesGrows
<1>6. Z * p >= W * p /\ (Z > W => Z * p > W * p) /\ (Z = W => Z * p = W * p)
  <2>1. Z * p \in Nat
    BY <1>1
  <2> QED BY <1>1, <1>3, <1>4, <2>1, TimesGrows
<1>7. U * q >= V * q /\ (X > Y \/ Z > W => U * q > V * q) /\ (X = Y /\ Z = W => U * q = V * q)
  BY <1>2, <1>4, <1>5, <1>6
<1>8. (U > V <=> U * q > V * q) /\ (U = V <=> U * q = V * q)
  BY <1>1, TimesGrows
<1>9. U * q \in Nat /\ V * q \in Nat
  BY <1>1
<1>10. U >= V /\ (X > Y \/ Z > W => U > V) /\ (X = Y /\ Z = W => U = V)
  BY <1>1, <1>7, <1>8, <1>9
<1> QED BY <1>10 DEF X, Y, Z, W, U, V

\* What density compares.
Weighed(a) == a.signal \in Nat /\ a.bytes \in Nat
Worth(a) == Most(1, Tokens(a.bytes))

LEMMA WorthIsPositive == ASSUME NEW a, Weighed(a) PROVE Worth(a) \in Nat /\ Worth(a) > 0
<1>1. Tokens(a.bytes) \in Nat
  BY TokensAreNatural DEF Weighed
<1> QED BY <1>1 DEF Worth, Most

\* Denser is an order on what is weighed, up to those level in signal and tokens.
LEMMA DenserOrders ==
    ASSUME NEW a, NEW b, NEW c, Weighed(a), Weighed(b), Weighed(c)
    PROVE  /\ ~(Denser(a, b) /\ Denser(b, a))
           /\ Denser(a, b) /\ Denser(b, c) => Denser(a, c)
           /\ ~Denser(a, b) /\ ~Denser(b, a) => a.signal = b.signal /\ Worth(a) = Worth(b)
<1> DEFINE x == a.signal
           y == b.signal
           z == c.signal
           p == Worth(a)
           q == Worth(b)
           r == Worth(c)
<1>1. /\ x \in Nat /\ y \in Nat /\ z \in Nat
      /\ p \in Nat /\ p > 0 /\ q \in Nat /\ q > 0 /\ r \in Nat /\ r > 0
  BY WorthIsPositive DEF Weighed
<1>2. /\ Denser(a, b) <=> (x * q > y * p \/ (x * q = y * p /\ x > y) \/ (x * q = y * p /\ x = y /\ p < q))
      /\ Denser(b, a) <=> (y * p > x * q \/ (y * p = x * q /\ y > x) \/ (y * p = x * q /\ y = x /\ q < p))
      /\ Denser(b, c) <=> (y * r > z * q \/ (y * r = z * q /\ y > z) \/ (y * r = z * q /\ y = z /\ q < r))
      /\ Denser(a, c) <=> (x * r > z * p \/ (x * r = z * p /\ x > z) \/ (x * r = z * p /\ x = z /\ p < r))
  BY DEF Denser, Worth
<1>3. /\ x * q \in Nat /\ y * p \in Nat /\ y * r \in Nat /\ z * q \in Nat
      /\ x * r \in Nat /\ z * p \in Nat
  BY <1>1
<1> HIDE DEF x, y, z, p, q, r
<1>4. ~(Denser(a, b) /\ Denser(b, a))
  BY <1>1, <1>2, <1>3
<1>5. Denser(a, b) /\ Denser(b, c) => Denser(a, c)
  <2> SUFFICES ASSUME Denser(a, b), Denser(b, c) PROVE Denser(a, c)
    OBVIOUS
  <2>1. x * q >= y * p /\ y * r >= z * q
    BY <1>2, <1>3
  <2>2. /\ x * r >= z * p
        /\ x * q > y * p \/ y * r > z * q => x * r > z * p
        /\ x * q = y * p /\ y * r = z * q => x * r = z * p
    BY <1>1, <2>1, RatiosCompare
  <2>3. CASE x * q > y * p \/ y * r > z * q
    BY <1>2, <2>2, <2>3
  <2>4. CASE x * q = y * p /\ y * r = z * q
    <3>1. x * r = z * p
      BY <2>2, <2>4
    <3>2. (x > y \/ (x = y /\ p < q)) /\ (y > z \/ (y = z /\ q < r))
      BY <1>2, <1>3, <2>4
    <3>3. x > z \/ (x = z /\ p < r)
      BY <1>1, <3>2
    <3> QED BY <1>2, <3>1, <3>3
  <2> QED BY <1>3, <2>1, <2>3, <2>4
<1>6. ~Denser(a, b) /\ ~Denser(b, a) => x = y /\ p = q
  <2> SUFFICES ASSUME ~Denser(a, b), ~Denser(b, a) PROVE x = y /\ p = q
    OBVIOUS
  <2>1. x * q = y * p
    BY <1>2, <1>3
  <2> QED BY <1>1, <1>2, <2>1
<1> QED BY <1>4, <1>5, <1>6 DEF x, y, p, q

\* Candidates: sorted by density, then by path and line.
Rated(a) == Weighed(a) /\ a.path \in CtxFiles /\ a.start \in Nat
Distinct(S) == \A a, b \in S : a.path = b.path /\ a.start = b.start => a = b

LEMMA PlacesDiffer ==
    /\ IsFiniteSet(CtxFiles) /\ ContextFiles[1] \in CtxFiles
       /\ ContextFiles[Len(ContextFiles)] \in CtxFiles
    /\ \A p \in CtxFiles : Place(p) \in Nat
    /\ \A p, q \in CtxFiles : Place(p) = Place(q) => p = q
<1> DEFINE n == Len(ContextFiles)
<1>1. n \in Nat /\ n # 0 /\ DOMAIN ContextFiles = 1..n
  BY ContextAssumption, LenProperties, EmptySeq
<1>2. 1 \in DOMAIN ContextFiles /\ n \in DOMAIN ContextFiles
  BY <1>1
<1>3. IsFiniteSet(DOMAIN ContextFiles)
  <2> HIDE DEF n
  <2> QED BY <1>1, FS_Interval
<1>4. IsFiniteSet(CtxFiles)
  BY <1>3, ImageIsFinite DEF CtxFiles
<1>5. ASSUME NEW p \in CtxFiles PROVE Place(p) \in DOMAIN ContextFiles /\ ContextFiles[Place(p)] = p
  <2>1. \E i \in DOMAIN ContextFiles : ContextFiles[i] = p
    BY DEF CtxFiles
  <2> QED BY <2>1 DEF Place
<1>6. \A p \in CtxFiles : Place(p) \in Nat
  BY <1>1, <1>5
<1>7. \A p, q \in CtxFiles : Place(p) = Place(q) => p = q
  BY <1>5
<1> QED BY <1>2, <1>4, <1>6, <1>7 DEF CtxFiles

LEMMA BeforeOrders ==
    ASSUME NEW S, \A a \in S : Rated(a), Distinct(S)
    PROVE  Orders(BeforeIn(S), S)
<1> DEFINE R == BeforeIn(S)
           Tie(a, b) == Place(a.path) < Place(b.path) \/ (a.path = b.path /\ a.start < b.start)
<1>1. \A a, b \in S : <<a, b>> \in R <=> Denser(a, b) \/ (~Denser(b, a) /\ Tie(a, b))
  BY DEF BeforeIn, Before
<1>2. \A a \in S : Weighed(a) /\ a.start \in Nat /\ a.path \in CtxFiles /\ Place(a.path) \in Nat
  BY PlacesDiffer DEF Rated
<1>3. \A a, b \in S : Place(a.path) = Place(b.path) => a.path = b.path
  BY <1>2, PlacesDiffer
<1> HIDE DEF R
<1>4. \A a \in S : <<a, a>> \notin R
  <2> TAKE a \in S
  <2>1. ~Denser(a, a)
    BY <1>2, DenserOrders
  <2>2. ~Tie(a, a)
    BY <1>2
  <2> QED BY <1>1, <2>1, <2>2
<1>5. \A a, b \in S : a # b => <<a, b>> \in R \/ <<b, a>> \in R
  <2> TAKE a, b \in S
  <2>1. a # b => Tie(a, b) \/ Tie(b, a)
    BY <1>2, <1>3 DEF Distinct
  <2> QED BY <1>1, <2>1
<1>6. \A a, b, c \in S : Tie(a, b) /\ Tie(b, c) => Tie(a, c)
  BY <1>2, <1>3
<1> HIDE DEF Tie
<1>7. ASSUME NEW a \in S, NEW b \in S, NEW c \in S, <<a, b>> \in R, <<b, c>> \in R
      PROVE  <<a, c>> \in R
  <2>1. Weighed(a) /\ Weighed(b) /\ Weighed(c)
    BY <1>2
  <2>2. CASE Denser(a, b) /\ Denser(b, c)
    BY <1>1, <2>1, <2>2, DenserOrders
  <2>3. CASE ~Denser(a, b)
    <3>1. ~Denser(b, a) /\ Tie(a, b)
      BY <1>1, <1>7, <2>3
    <3>2. a.signal = b.signal /\ Worth(a) = Worth(b)
      BY <2>1, <2>3, <3>1, DenserOrders
    <3>3. Denser(a, c) <=> Denser(b, c)
      BY <3>2 DEF Denser, Worth
    <3>4. Denser(c, a) <=> Denser(c, b)
      BY <3>2 DEF Denser, Worth
    <3> QED BY <1>1, <1>6, <1>7, <3>1, <3>3, <3>4
  <2>4. CASE ~Denser(b, c)
    <3>1. ~Denser(c, b) /\ Tie(b, c)
      BY <1>1, <1>7, <2>4
    <3>2. b.signal = c.signal /\ Worth(b) = Worth(c)
      BY <2>1, <2>4, <3>1, DenserOrders
    <3>3. Denser(a, c) <=> Denser(a, b)
      BY <3>2 DEF Denser, Worth
    <3>4. Denser(c, a) <=> Denser(b, a)
      BY <3>2 DEF Denser, Worth
    <3> QED BY <1>1, <1>6, <1>7, <3>1, <3>3, <3>4
  <2> QED BY <2>2, <2>3, <2>4
<1> QED BY <1>4, <1>5, <1>7 DEF Orders, R

LEMMA HigherOrders ==
    ASSUME NEW S, \A a \in S : a.score \in Nat /\ a.start \in Nat, \A a, b \in S : a.start = b.start => a = b
    PROVE  Orders(HigherIn(S), S)
<1>1. \A a, b \in S : <<a, b>> \in HigherIn(S)
                        <=> a.score > b.score \/ (a.score = b.score /\ a.start < b.start)
  BY DEF HigherIn, Higher
<1>2. \A a \in S : <<a, a>> \notin HigherIn(S)
  BY <1>1
<1>3. \A a, b \in S : a # b => <<a, b>> \in HigherIn(S) \/ <<b, a>> \in HigherIn(S)
  BY <1>1
<1>4. \A a, b, c \in S : <<a, b>> \in HigherIn(S) /\ <<b, c>> \in HigherIn(S) => <<a, c>> \in HigherIn(S)
  BY <1>1
<1> QED BY <1>2, <1>3, <1>4 DEF Orders

ContextModes == {"full", "auto", "outline", "summary"}
CtxTypes ==
    /\ cxIndexed \subseteq CtxFiles
    /\ cxCall \in [path : CtxFiles, mode : ContextModes, focus : BOOLEAN,
                   excluded : SUBSET CtxFiles, limits : ContextLimits]
    /\ cxPaths \in Seq(CtxFiles) /\ cxFound \in Seq(CtxFiles) /\ cxFirst.files \in Seq(CtxFiles)

\* While a suggested call runs, what was sent before is the file it asks for or is
\* told to it as left out; what is left out is not among the files chosen.
FirstLeftOut ==
    cxStep # "idle" =>
        /\ \A f \in ToSet(cxFirst.files) : f = cxCall.path \/ f \in cxCall.excluded
        /\ ToSet(cxPaths) \intersect cxCall.excluded = {}
AnswerFits ==
    cxStep = "answered" =>
        /\ cxAnswer.files \in Seq(CtxFiles) /\ ToSet(cxAnswer.files) \subseteq ToSet(cxPaths)
        /\ cxAnswer.budget \in Budgets(cxCall.limits)
        /\ cxAnswer.next # NoNext =>
              /\ cxAnswer.next.path \in CtxFiles /\ cxAnswer.next.excluded \subseteq CtxFiles
              /\ \A f \in ToSet(cxAnswer.files) :
                    f = cxAnswer.next.path \/ f \in cxAnswer.next.excluded
ContextInv == CtxTypes /\ FirstLeftOut /\ AnswerFits

LEMMA ContextInvGives == ContextInv => NothingSentTwice
<1> SUFFICES ASSUME ContextInv, cxStep = "answered" PROVE NothingSentTwice
  BY DEF NothingSentTwice
<1>1. ASSUME NEW i \in DOMAIN cxAnswer.files, Contains(cxFirst.files, cxAnswer.files[i])
      PROVE  cxAnswer.files[i] = cxCall.path
  <2> DEFINE f == cxAnswer.files[i]
  <2>1. f \in ToSet(cxAnswer.files)
    BY DEF ToSet
  <2>2. f \in ToSet(cxPaths)
    BY <2>1 DEF ContextInv, AnswerFits
  <2>3. f \in ToSet(cxFirst.files)
    BY <1>1, LenProperties DEF Contains, ToSet, ContextInv, CtxTypes
  <2> QED BY <2>2, <2>3 DEF ContextInv, FirstLeftOut
<1>2. cxCall.limits.tokens \in Nat /\ cxCall.limits.bytes \in Nat
  BY ContextAssumption DEF ContextInv, CtxTypes
<1>3. cxAnswer.budget.tokens <= cxCall.limits.tokens /\ cxAnswer.budget.bytes <= cxCall.limits.bytes
  BY <1>2 DEF ContextInv, AnswerFits, Budgets
<1> QED BY <1>1, <1>3 DEF NothingSentTwice

LEMMA RelationIsNatural ==
    ASSUME CtxTypes, NEW p \in CtxFiles
    PROVE  RelationScore(p) \in Nat /\ FocusRank(p) \in Nat
<1> DEFINE related == RelatedTo[cxCall.path]
           listed == {i \in DOMAIN related : related[i].path = p}
           n == CHOOSE i \in listed : TRUE
           reasons == related[n].reasons
           g == [reason \in reasons |-> ReasonScore(reason)]
<1>1. FocusRank(p) \in Nat
  <2>1. Contains(cxFound, p) => \E i \in DOMAIN cxFound : cxFound[i] = p
    BY LenProperties DEF Contains, CtxTypes
  <2>2. DOMAIN cxFound \subseteq Nat
    BY LenProperties DEF CtxTypes
  <2> QED BY <2>1, <2>2 DEF FocusRank
<1>2. ASSUME listed # {} PROVE SumFunction(g) \in Nat
  <2>1. n \in listed
    BY <1>2
  <2>2. IsFiniteSet(reasons)
    BY <2>1, ContextAssumption DEF CtxTypes
  <2>3. \A reason \in reasons : ReasonScore(reason) \in Nat
    BY DEF ReasonScore
  <2>4. Summands(g, reasons) /\ DOMAIN g = reasons
    BY <2>2, <2>3 DEF Summands
  <2> HIDE DEF g, reasons
  <2> QED BY <2>4, SumFunctionIsSum, SumIsNatural
<1>3. RelationScore(p) = (IF listed = {} THEN 0 ELSE SumFunction(g))
                         + (IF FocusRank(p) > 0 THEN 1 ELSE 0)
  BY DEF RelationScore
<1> HIDE DEF listed, g
<1> QED BY <1>1, <1>2, <1>3

LEMMA CandidateIsRated ==
    ASSUME CtxTypes, NEW p \in CtxFiles, NEW i \in DOMAIN ContextChunks[p]
    PROVE  /\ Rated(Candidate(p, i)) /\ Candidate(p, i).score \in Nat
           /\ Candidate(p, i).path = p /\ Candidate(p, i).start = ContextChunks[p][i].start
<1> DEFINE chunk == ContextChunks[p][i]
           weight == IF p # cxCall.path THEN 1 ELSE IF cxCall.focus THEN 2 ELSE 4
           bonus == IF FocusRank(p) > 0 /\ i = FocusChunk(p) THEN Most(1, 13 - FocusRank(p)) ELSE 0
           score == ChunkScore(chunk)
           relation == IF p = cxCall.path THEN 0 ELSE RelationScore(p)
<1>1. Candidate(p, i) = [path |-> p, start |-> chunk.start, bytes |-> chunk.bytes, score |-> score,
                         signal |-> score * weight + bonus + relation]
  BY DEF Candidate
<1>2. chunk.start \in Nat /\ chunk.bytes \in Nat /\ chunk.hits \in Nat
  <2> DEFINE kind == [start : Nat, bytes : Nat, hits : Nat]
             all == ContextChunks[p]
  <2>1. all \in Seq(kind)
    BY ContextAssumption
  <2> HIDE DEF kind
  <2>2. chunk \in kind
    BY <2>1, LenProperties
  <2> QED BY <2>2 DEF kind
<1>3. score \in Nat
  BY <1>2 DEF ChunkScore
<1>4. weight \in Nat
  OBVIOUS
<1>5. bonus \in Nat
  BY RelationIsNatural DEF Most
<1>6. relation \in Nat
  BY RelationIsNatural
<1> HIDE DEF chunk, score, weight, bonus, relation
<1>7. score * weight \in Nat
  BY <1>3, <1>4
<1>8. score * weight + bonus + relation \in Nat
  BY <1>5, <1>6, <1>7
<1> QED BY <1>1, <1>2, <1>3, <1>8 DEF Rated, Weighed, chunk

\* The candidates of some files can be sorted.
LEMMA CandidatesSort ==
    ASSUME CtxTypes, NEW P, P \subseteq CtxFiles
    PROVE  LET S == UNION {Chunks(p) : p \in P} IN
           /\ IsFiniteSet(S) /\ Distinct(S)
           /\ \A a \in S : Rated(a) /\ a.score \in Nat /\ a.path \in P
<1> DEFINE S == UNION {Chunks(p) : p \in P}
<1>1. ASSUME NEW p \in P PROVE IsFiniteSet(Chunks(p))
  <2> DEFINE g == [i \in DOMAIN ContextChunks[p] |-> Candidate(p, i)]
  <2>1. IsFiniteSet(DOMAIN g)
    <3> DEFINE n == Len(ContextChunks[p])
    <3>1. n \in Nat /\ DOMAIN ContextChunks[p] = 1..n
      BY ContextAssumption, LenProperties
    <3> HIDE DEF n
    <3> QED BY <3>1, FS_Interval
  <2>2. Chunks(p) = IF p \in cxIndexed THEN {g[i] : i \in DOMAIN g} ELSE {}
    BY DEF Chunks
  <2> HIDE DEF g
  <2> QED BY <2>1, <2>2, ImageIsFinite, FS_EmptySet
<1>2. IsFiniteSet(S)
  <2> DEFINE g == [p \in P |-> Chunks(p)]
             U == {Chunks(p) : p \in P}
  <2>1. IsFiniteSet(P)
    BY PlacesDiffer, FS_Subset
  <2>2. U = {g[p] : p \in DOMAIN g} /\ DOMAIN g = P
    OBVIOUS
  <2> HIDE DEF g
  <2>3. IsFiniteSet(U)
    BY <2>1, <2>2, ImageIsFinite
  <2>4. \A s \in U : IsFiniteSet(s)
    BY <1>1
  <2> HIDE DEF U
  <2> QED BY <2>3, <2>4, FS_UNION DEF U
<1>3. ASSUME NEW a \in S
      PROVE  \E p \in P : \E i \in DOMAIN ContextChunks[p] : a = Candidate(p, i)
  BY DEF Chunks
<1>4. \A a \in S : Rated(a) /\ a.score \in Nat /\ a.path \in P
  BY <1>3, CandidateIsRated
<1>5. Distinct(S)
  <2> SUFFICES ASSUME NEW a \in S, NEW b \in S, a.path = b.path, a.start = b.start PROVE a = b
    BY DEF Distinct
  <2>1. PICK p \in P : \E i \in DOMAIN ContextChunks[p] : a = Candidate(p, i)
    BY <1>3
  <2>2. PICK q \in P : \E j \in DOMAIN ContextChunks[q] : b = Candidate(q, j)
    BY <1>3
  <2>3. PICK i \in DOMAIN ContextChunks[p], j \in DOMAIN ContextChunks[q] :
            a = Candidate(p, i) /\ b = Candidate(q, j)
    BY <2>1, <2>2
  <2>4. /\ a.path = p /\ b.path = q /\ a.start = ContextChunks[p][i].start
        /\ b.start = ContextChunks[q][j].start
    BY <2>3, CandidateIsRated
  <2>5. i = j
    BY <2>4, ContextAssumption
  <2> QED BY <2>3, <2>4, <2>5
<1> QED BY <1>2, <1>4, <1>5

LEMMA SeqOfMore ==
    ASSUME NEW S, NEW T, S \subseteq T, NEW s \in Seq(S) PROVE s \in Seq(T)
  BY LenProperties

LEMMA NothingFits ==
    ASSUME CtxTypes, NEW T
    PROVE  PositiveLimits(cxCall.limits) /\ Nothing \in Packings(T, cxCall.limits)
<1>1. PositiveLimits(cxCall.limits)
  BY ContextAssumption DEF CtxTypes, PositiveLimits
<1>2. <<>> \in Seq(T)
  OBVIOUS
<1> QED BY <1>1, <1>2, NewBudgetFits DEF Nothing, Packings

LEMMA OutlinesFit ==
    ASSUME NEW s \in Seq(CtxFiles)
    PROVE  Outlined(s) \in Seq({OutlineOf(p) : p \in CtxFiles})
<1>1. Len(s) \in Nat /\ DOMAIN s = 1..Len(s) /\ \A i \in 1..Len(s) : s[i] \in CtxFiles
  BY LenProperties
<1> DEFINE O == {OutlineOf(p) : p \in CtxFiles}
           n == Len(s)
<1>2. \A i \in 1..n : OutlineOf(s[i]) \in O
  BY <1>1
<1>3. Outlined(s) = [i \in 1..n |-> OutlineOf(s[i])]
  BY <1>1 DEF Outlined
<1> HIDE DEF O, n
<1>4. Outlined(s) \in Seq(O)
  BY <1>1, <1>2, <1>3 DEF n
<1> QED BY <1>4 DEF O

LEMMA PacksFit ==
    ASSUME CtxTypes
    PROVE  /\ PackFull.budget \in Budgets(cxCall.limits)
           /\ PackAuto.budget \in Budgets(cxCall.limits)
           /\ PackOutlines.budget \in Budgets(cxCall.limits)
<1> DEFINE L == cxCall.limits
           O == {OutlineOf(p) : p \in CtxFiles}
<1>1. \A o \in O : o.bytes \in Nat
  BY ContextAssumption DEF OutlineOf
<1>2. Picked \subseteq CtxFiles
  BY LenProperties DEF Picked, CtxTypes
<1>3. PackFull.budget \in Budgets(L)
  <2> DEFINE S == UNION {Chunks(p) : p \in Picked}
             w == Ranked(S, BeforeIn(S))
  <2>1. IsFiniteSet(S) /\ Distinct(S) /\ \A a \in S : Rated(a)
    BY <1>2, CandidatesSort
  <2>2. PackFull = PacksChunks(w)
    BY DEF PackFull
  <2> HIDE DEF S
  <2>3. w \in Seq(S)
    BY <2>1, BeforeOrders, RankedHas
  <2>4. \A a \in S : a.bytes \in Nat
    BY <2>1 DEF Rated, Weighed
  <2> HIDE DEF w
  <2>5. PacksChunks(w) \in Packings(S, L)
    BY <2>3, <2>4, NothingFits, ChunksFit
  <2> QED BY <2>2, <2>5 DEF Packings
<1>4. PackAuto.budget \in Budgets(L)
  <2> DEFINE S == IF cxCall.path \in Picked THEN Chunks(cxCall.path) ELSE {}
             w == Ranked(S, HigherIn(S))
             U == {p \in CtxFiles \ {cxCall.path} : HasOutline(p)}
             others == Outlined(Within(cxPaths, U))
             T == S \union O
  <2>1. /\ IsFiniteSet(S) /\ \A a \in S : Rated(a) /\ a.score \in Nat
        /\ \A a, b \in S : a.start = b.start => a = b
    <3> DEFINE P == IF cxCall.path \in Picked THEN {cxCall.path} ELSE {}
    <3>1. P \subseteq CtxFiles /\ S = UNION {Chunks(p) : p \in P}
      BY <1>2
    <3> HIDE DEF S
    <3>2. /\ IsFiniteSet(S) /\ Distinct(S)
          /\ \A a \in S : Rated(a) /\ a.score \in Nat /\ a.path \in P
      BY <3>1, CandidatesSort
    <3> QED BY <3>2 DEF Distinct
  <2>2. PackAuto = PacksItems(PacksChunks(w), others)
    BY DEF PackAuto
  <2>3. others \in Seq(O)
    BY WithinHas, OutlinesFit DEF CtxTypes
  <2> HIDE DEF S, O, others
  <2>4. \A a \in S : a.score \in Nat /\ a.start \in Nat
    BY <2>1 DEF Rated
  <2>5. w \in Seq(S)
    BY <2>1, <2>4, HigherOrders, RankedHas
  <2>6. \A a \in T : a.bytes \in Nat
    BY <1>1, <2>1 DEF Rated, Weighed
  <2> HIDE DEF w
  <2>7. w \in Seq(T) /\ others \in Seq(T)
    BY <2>3, <2>5, SeqOfMore
  <2> HIDE DEF T
  <2>8. PacksChunks(w) \in Packings(T, L)
    BY <2>6, <2>7, NothingFits, ChunksFit
  <2>9. PacksItems(PacksChunks(w), others) \in Packings(T, L)
    BY <2>6, <2>7, <2>8, NothingFits, ItemsFit
  <2> QED BY <2>2, <2>9 DEF Packings
<1>5. PackOutlines.budget \in Budgets(L)
  <2> DEFINE items == Outlined(Within(cxPaths, {p \in CtxFiles : HasOutline(p)}))
  <2>1. items \in Seq(O)
    BY WithinHas, OutlinesFit DEF CtxTypes
  <2>2. PackOutlines = PacksItems(Nothing, items)
    BY DEF PackOutlines
  <2> HIDE DEF items, O
  <2>3. PacksItems(Nothing, items) \in Packings(O, L)
    BY <1>1, <2>1, NothingFits, ItemsFit
  <2> QED BY <2>2, <2>3 DEF Packings
<1> QED BY <1>3, <1>4, <1>5

LEMMA ContextStarts == ContextInit => ContextInv
<1> SUFFICES ASSUME ContextInit PROVE ContextInv
  OBVIOUS
<1>1. NoCall.limits \in ContextLimits
  BY ContextAssumption DEF NoCall
<1>2. CtxTypes
  BY <1>1, PlacesDiffer DEF ContextInit, CtxTypes, NoCall, NoAnswer, ContextModes
<1> QED BY <1>2 DEF ContextInit, ContextInv, FirstLeftOut, AnswerFits

\* Files chosen: each is one of the project's, and none was to be left out.
LEMMA ChosenLeavesOut ==
    ASSUME NEW call, call.path \in CtxFiles, call.limits \in ContextLimits,
           NEW found \in Seq(CtxFiles)
    PROVE  /\ Chosen(call, found) \in Seq(CtxFiles)
           /\ ToSet(Chosen(call, found)) \intersect call.excluded = {}
<1> DEFINE listed == RelatedTo[call.path]
           related == [i \in DOMAIN listed |-> listed[i].path]
           all == Unique(<<call.path>> \o found \o related)
           wanted == Within(all, CtxFiles \ call.excluded)
           n == Least(Len(wanted), call.limits.files)
           chosen == SubSeq(wanted, 1, n)
<1>1. Chosen(call, found) = chosen
  BY DEF Chosen
<1>2. related \in Seq(CtxFiles)
  <2> DEFINE kind == [path : CtxFiles, reasons : SUBSET STRING]
  <2>1. listed \in Seq(kind)
    BY ContextAssumption
  <2> HIDE DEF kind, listed
  <2>2. Len(listed) \in Nat /\ DOMAIN listed = 1..Len(listed) /\ \A i \in 1..Len(listed) : listed[i] \in kind
    BY <2>1, LenProperties
  <2>3. \A i \in 1..Len(listed) : listed[i].path \in CtxFiles
    BY <2>2 DEF kind
  <2> QED BY <2>2, <2>3
<1> HIDE DEF related
<1>3. <<call.path>> \o found \o related \in Seq(CtxFiles)
  BY <1>2
<1>4. all \in Seq(CtxFiles)
  BY <1>3, UniqueIsSeq
<1> HIDE DEF all
<1>5. /\ wanted \in Seq(CtxFiles) /\ Len(wanted) \in Nat
      /\ ToSet(wanted) = ToSet(all) \intersect (CtxFiles \ call.excluded)
  BY <1>4, WithinLeaves
<1>6. call.limits.files \in Nat
  BY ContextAssumption
<1> HIDE DEF wanted
<1>7. n \in Nat /\ n <= Len(wanted)
  BY <1>5, <1>6 DEF Least
<1> HIDE DEF n
<1>8. \A i \in 1..n : wanted[i] \in CtxFiles /\ wanted[i] \in ToSet(wanted)
  BY <1>5, <1>7, LenProperties DEF ToSet
<1>9. /\ chosen \in Seq(CtxFiles)
      /\ Len(chosen) = (IF 1 <= n THEN n - 1 + 1 ELSE 0)
      /\ \A i \in 1..(n - 1 + 1) : chosen[i] = wanted[1 + i - 1]
  BY <1>7, <1>8, SubSeqProperties
<1>10. ToSet(chosen) \subseteq ToSet(wanted)
  <2>1. Len(chosen) = n /\ DOMAIN chosen = 1..n
    BY <1>7, <1>9, LenProperties
  <2>2. \A i \in 1..n : chosen[i] = wanted[i]
    BY <1>7, <1>9
  <2> QED BY <1>8, <2>1, <2>2 DEF ToSet
<1> QED BY <1>1, <1>5, <1>9, <1>10

\* A call in which what was sent before is asked for or left out.
LEMMA AsksKeeps ==
    ASSUME CtxTypes,
           NEW call \in [path : CtxFiles, mode : ContextModes, focus : BOOLEAN,
                         excluded : SUBSET CtxFiles, limits : ContextLimits],
           Asks(call), cxFirst'.files \in Seq(CtxFiles),
           \A f \in ToSet(cxFirst'.files) : f = call.path \/ f \in call.excluded
    PROVE  ContextInv'
<1>1. PICK found \in FocusFinds : cxFound' = Within(found, cxIndexed) /\ cxPaths' = Chosen(call, cxFound')
  BY DEF Asks
<1>2. cxCall' = call /\ cxStep' = "ensure" /\ cxIndexed' = cxIndexed
  BY DEF Asks
<1>3. found \in Seq(CtxFiles)
  BY ContextAssumption
<1>4. cxFound' \in Seq(CtxFiles)
  BY <1>1, <1>3, WithinHas
<1>5. cxPaths' \in Seq(CtxFiles) /\ ToSet(cxPaths') \intersect call.excluded = {}
  BY <1>1, <1>4, ChosenLeavesOut
<1>6. CtxTypes'
  BY <1>2, <1>4, <1>5 DEF CtxTypes
<1> QED BY <1>2, <1>5, <1>6 DEF ContextInv, FirstLeftOut, AnswerFits

LEMMA FirstCallKeeps == ContextInv /\ FirstCall => ContextInv'
<1> SUFFICES ASSUME ContextInv, FirstCall PROVE ContextInv'
  OBVIOUS
<1>1. PICK path \in CtxFiles, mode \in {"none", "full", "auto", "outline", "summary"},
          intent \in {"none", "navigate", "implement", "review"}, focus \in BOOLEAN,
          excluded \in {{}, {ContextFiles[Len(ContextFiles)]}}, limits \in ContextLimits :
        Asks([path |-> path, mode |-> Resolved(mode, intent), focus |-> focus,
              excluded |-> excluded, limits |-> limits])
  BY DEF FirstCall
<1>2. Resolved(mode, intent) \in ContextModes
  BY DEF Resolved, ContextModes
<1>3. excluded \subseteq CtxFiles
  BY PlacesDiffer
<1>4. cxFirst' = NoAnswer
  BY DEF FirstCall
<1>5. cxFirst'.files \in Seq(CtxFiles) /\ ToSet(cxFirst'.files) = {}
  BY <1>4 DEF NoAnswer, ToSet
<1> DEFINE call == [path |-> path, mode |-> Resolved(mode, intent), focus |-> focus,
                    excluded |-> excluded, limits |-> limits]
<1>6. call \in [path : CtxFiles, mode : ContextModes, focus : BOOLEAN,
                excluded : SUBSET CtxFiles, limits : ContextLimits]
  BY <1>2, <1>3
<1>7. Asks(call)
  BY <1>1
<1> HIDE DEF call
<1> QED BY <1>5, <1>6, <1>7, AsksKeeps DEF ContextInv

LEMMA FollowUpKeeps == ContextInv /\ FollowUp => ContextInv'
<1> SUFFICES ASSUME ContextInv, FollowUp PROVE ContextInv'
  OBVIOUS
<1> DEFINE next == cxAnswer.next
           call == [cxCall EXCEPT !.path = next.path, !.mode = "full", !.excluded = next.excluded]
<1>1. cxStep = "answered" /\ next # NoNext /\ cxFirst' = cxAnswer /\ Asks(call)
  BY DEF FollowUp
<1>2. /\ cxAnswer.files \in Seq(CtxFiles) /\ next.path \in CtxFiles /\ next.excluded \subseteq CtxFiles
      /\ \A f \in ToSet(cxAnswer.files) : f = next.path \/ f \in next.excluded
  BY <1>1 DEF ContextInv, AnswerFits
<1> HIDE DEF next
<1>3. /\ call \in [path : CtxFiles, mode : ContextModes, focus : BOOLEAN,
                   excluded : SUBSET CtxFiles, limits : ContextLimits]
      /\ call.path = next.path /\ call.excluded = next.excluded
  BY <1>2 DEF ContextInv, CtxTypes, ContextModes
<1> HIDE DEF call
<1>4. \A f \in ToSet(cxFirst'.files) : f = call.path \/ f \in call.excluded
  BY <1>1, <1>2, <1>3
<1> QED BY <1>1, <1>2, <1>3, <1>4, AsksKeeps DEF ContextInv

\* What a suggestion leaves out: every file of the answer but the one it names.
LEMMA SuggestedLeavesOut ==
    ASSUME CtxTypes, NEW files \in Seq(CtxFiles), Suggested(files) # NoNext
    PROVE  /\ Suggested(files).path \in CtxFiles /\ Suggested(files).excluded \subseteq CtxFiles
           /\ \A f \in ToSet(files) : f = Suggested(files).path \/ f \in Suggested(files).excluded
<1> DEFINE related == Within(files, CtxFiles \ {cxCall.path})
<1>1. related \in Seq(CtxFiles) /\ ToSet(related) = ToSet(files) \intersect (CtxFiles \ {cxCall.path})
  BY WithinHas
<1>2. related # <<>> /\ Suggested(files) = [path |-> Head(related),
          excluded |-> {cxCall.path} \union {related[i] : i \in 2..Len(related)}]
  BY DEF Suggested
<1> HIDE DEF related
<1>3. /\ Len(related) \in Nat /\ Len(related) # 0 /\ DOMAIN related = 1..Len(related)
      /\ Head(related) = related[1] /\ \A i \in 1..Len(related) : related[i] \in CtxFiles
  BY <1>1, <1>2, LenProperties, EmptySeq
<1>4. ToSet(files) \subseteq CtxFiles
  BY LenProperties DEF ToSet
<1>5. ASSUME NEW f \in ToSet(files), f # cxCall.path
      PROVE  f = related[1] \/ \E i \in 2..Len(related) : f = related[i]
  <2>1. f \in ToSet(related)
    BY <1>1, <1>4, <1>5
  <2>2. PICK i \in 1..Len(related) : f = related[i]
    BY <1>3, <2>1 DEF ToSet
  <2>3. i = 1 \/ i \in 2..Len(related)
    BY <1>3
  <2> QED BY <2>2, <2>3
<1>6. Suggested(files).path = related[1]
      /\ Suggested(files).excluded = {cxCall.path} \union {related[i] : i \in 2..Len(related)}
  BY <1>2, <1>3
<1>7. \A i \in 2..Len(related) : related[i] \in CtxFiles
  BY <1>3
<1> QED BY <1>3, <1>5, <1>6, <1>7 DEF CtxTypes

LEMMA AnswersKeeps == ContextInv /\ Answers => ContextInv'
<1> SUFFICES ASSUME ContextInv, Answers PROVE ContextInv'
  OBVIOUS
<1>0. CtxTypes
  BY DEF ContextInv
<1> DEFINE packed == CASE cxCall.mode = "full" -> PackFull
                       [] cxCall.mode = "auto" -> PackAuto
                       [] OTHER -> PackOutlines
           files == FilesOf(packed.taken)
           next == IF cxCall.mode = "full" THEN NoNext ELSE Suggested(files)
<1>1. /\ cxStep = "pack" /\ cxStep' = "answered"
      /\ cxAnswer' = [files |-> files, budget |-> packed.budget, next |-> next]
      /\ UNCHANGED <<cxGone, cxIndexed, cxCall, cxPaths, cxFound, cxFirst>>
  BY DEF Answers
<1>2. packed.budget \in Budgets(cxCall.limits)
  BY <1>0, PacksFit
<1> HIDE DEF packed
<1>3. files \in Seq(CtxFiles) /\ ToSet(files) \subseteq ToSet(cxPaths)
  <2> DEFINE kept == {packed.taken[i].path : i \in DOMAIN packed.taken}
  <2>1. files = Within(cxPaths, kept)
    BY DEF FilesOf
  <2>2. cxPaths \in Seq(CtxFiles)
    BY <1>0 DEF CtxTypes
  <2> HIDE DEF kept, files
  <2>3. Within(cxPaths, kept) \in Seq(CtxFiles)
        /\ ToSet(Within(cxPaths, kept)) = ToSet(cxPaths) \intersect kept
    BY ONLY <2>2, WithinHas
  <2>4. ToSet(files) = ToSet(cxPaths) \intersect kept
    BY ONLY <2>1, <2>3
  <2> QED BY <2>1, <2>3, <2>4
<1> HIDE DEF files
<1>4. next # NoNext =>
        /\ next.path \in CtxFiles /\ next.excluded \subseteq CtxFiles
        /\ \A f \in ToSet(files) : f = next.path \/ f \in next.excluded
  BY <1>0, <1>3, SuggestedLeavesOut
<1> HIDE DEF next
<1>5. CtxTypes'
  BY <1>0, <1>1 DEF CtxTypes
<1>6. AnswerFits'
  BY <1>1, <1>2, <1>3, <1>4 DEF AnswerFits
<1> QED BY <1>1, <1>5, <1>6 DEF ContextInv, FirstLeftOut

\* For any files, chunks and limits, while files vanish and the index lags: a client
\* that follows repo_context's suggestion is sent nothing twice but the file it asked
\* for, and no answer exceeds its call's limits.
THEOREM NothingSentTwiceHolds == ContextSpec => []NothingSentTwice
<1>1. ContextInv /\ [ContextNext]_cxVars => ContextInv'
  <2> SUFFICES ASSUME ContextInv, [ContextNext]_cxVars PROVE ContextInv'
    OBVIOUS
  <2>1. CASE EnsuresIndexed
    <3>1. ToSet(cxPaths) \subseteq CtxFiles
      BY LenProperties DEF ToSet, ContextInv, CtxTypes
    <3>2. /\ cxIndexed' \subseteq CtxFiles /\ cxStep = "ensure" /\ cxStep' = "pack"
          /\ UNCHANGED <<cxCall, cxPaths, cxFound, cxAnswer, cxFirst>>
      BY <2>1, <3>1 DEF EnsuresIndexed, ContextInv, CtxTypes, ToSet
    <3> QED BY <3>2 DEF ContextInv, CtxTypes, FirstLeftOut, AnswerFits
  <2>2. CASE \E p \in CtxFiles : FileVanishes(p)
    <3>1. cxIndexed' \subseteq CtxFiles /\ UNCHANGED <<cxCall, cxStep, cxPaths, cxFound, cxAnswer, cxFirst>>
      BY <2>2 DEF FileVanishes, ContextInv, CtxTypes
    <3> QED BY <3>1 DEF ContextInv, CtxTypes, FirstLeftOut, AnswerFits
  <2>3. CASE UNCHANGED cxVars
    BY <2>3 DEF cxVars, ContextInv, CtxTypes, FirstLeftOut, AnswerFits
  <2> QED BY <2>1, <2>2, <2>3, FirstCallKeeps, FollowUpKeeps, AnswersKeeps DEF ContextNext
<1> QED BY <1>1, ContextStarts, ContextInvGives, PTL DEF ContextSpec

-----------------------------------------------------------------------------
(* repo_diff_context                                                        *)

\* The loops of a call, turn by turn: for every S their turns keep to.
ChoosesKeep(S, T) == \A k \in S, x \in T : Choose(k, x) \in S
LEMMA ChoosesRun ==
    ASSUME NEW S, NEW T, NEW s \in Seq(T), NEW start \in S, ChoosesKeep(S, T)
    PROVE  \E g \in [0..Len(s) -> S] :
              /\ g[0] = start /\ g[Len(s)] = ChoosesAll(start, s)
              /\ \A i \in 1..Len(s) : g[i] = Choose(g[i - 1], s[i])
<1> DEFINE N == Len(s)
           Op(k, x) == Choose(k, x)
           Turn(f) == f = [t \in SUBSET (DOMAIN s) |->
                             IF t = {} THEN start
                             ELSE LET x == Max(t) IN Choose(f[t \ {x}], s[x])]
           F == CHOOSE f : Turn(f)
           G == [i \in 1..N |-> [k \in S |-> Op(k, s[i])]]
           g == [i \in 0..N |-> F[1..i]]
<1>0. N \in Nat /\ DOMAIN s = 1..N /\ (\A i \in 1..N : s[i] \in T)
  BY LenProperties
<1>1. ChoosesAll(start, s) = F[DOMAIN s]
  BY DEF ChoosesAll, FoldLeft, MapThenFoldSet
<1>2. \A k \in S, i \in 1..N : Op(k, s[i]) \in S
  BY <1>0 DEF ChoosesKeep
<1>3. Turn(F) <=> F = [t \in SUBSET (1..N) |-> IF t = {} THEN start
                                               ELSE Op(F[t \ {Max(t)}], s[Max(t)])]
  BY <1>0
<1> HIDE DEF N, Op
<1>4. PICK f \in [SUBSET (1..N) -> S] : FoldsUp(f, G, start, N)
  <2>1. G \in [1..N -> [S -> S]]
    BY <1>2
  <2> HIDE DEF G
  <2> QED BY <1>0, <2>1, FoldExists
<1>5. f = [t \in SUBSET (1..N) |-> IF t = {} THEN start ELSE Op(f[t \ {Max(t)}], s[Max(t)])]
  <2>1. ASSUME NEW t \in SUBSET (1..N), t # {}
        PROVE  G[Max(t)][f[t \ {Max(t)}]] = Op(f[t \ {Max(t)}], s[Max(t)])
    <3>1. Max(t) \in 1..N /\ f[t \ {Max(t)}] \in S
      BY <1>0, <2>1, MaxOfNumbers
    <3> QED BY <3>1
  <2> HIDE DEF G
  <2> QED BY <1>0, <1>4, <2>1 DEF FoldsUp
<1>6. Turn(f)
  BY <1>0, <1>5 DEF Op
<1> HIDE DEF Turn
<1>7. Turn(F)
  BY <1>6
<1> HIDE DEF F
<1>8. F = [t \in SUBSET (1..N) |-> IF t = {} THEN start ELSE Op(F[t \ {Max(t)}], s[Max(t)])]
  BY <1>3, <1>7
<1>9. F[1..0] = start
  BY <1>0, <1>8
<1>10. ASSUME NEW i \in 1..N PROVE F[1..i] = Op(F[1..(i - 1)], s[i])
  <2>1. 1..i \in SUBSET (1..N) /\ 1..i # {} /\ Max(1..i) = i /\ (1..i) \ {i} = 1..(i - 1)
    BY <1>0, UpToNumber
  <2> QED BY <1>0, <1>8, <2>1
<1>11. /\ DOMAIN g = 0..N /\ g[0] = start /\ g[N] = F[1..N]
       /\ \A i \in 1..N : g[i] = Op(g[i - 1], s[i])
  BY <1>0, <1>9, <1>10
<1>12. g = [i \in 0..N |-> g[i]]
  OBVIOUS
<1> HIDE DEF g
<1>13. \A i \in 0..N : g[i] \in S
  <2>1. \A i \in 1..N : g[i - 1] \in S => g[i] \in S
    BY <1>2, <1>11
  <2> QED BY <1>0, <1>11, <2>1, TurnsStay
<1> QED BY <1>0, <1>1, <1>11, <1>12, <1>13 DEF Op, N

TakesKeep(S, T) == \A k \in S, x \in T : TakesOne(k, x) \in S
LEMMA TakesRun ==
    ASSUME NEW S, NEW T, NEW s \in Seq(T), NEW start \in S, TakesKeep(S, T)
    PROVE  \E g \in [0..Len(s) -> S] :
              /\ g[0] = start /\ g[Len(s)] = TakesEach(start, s)
              /\ \A i \in 1..Len(s) : g[i] = TakesOne(g[i - 1], s[i])
<1> DEFINE N == Len(s)
           Op(k, x) == TakesOne(k, x)
           Turn(f) == f = [t \in SUBSET (DOMAIN s) |->
                             IF t = {} THEN start
                             ELSE LET x == Max(t) IN TakesOne(f[t \ {x}], s[x])]
           F == CHOOSE f : Turn(f)
           G == [i \in 1..N |-> [k \in S |-> Op(k, s[i])]]
           g == [i \in 0..N |-> F[1..i]]
<1>0. N \in Nat /\ DOMAIN s = 1..N /\ (\A i \in 1..N : s[i] \in T)
  BY LenProperties
<1>1. TakesEach(start, s) = F[DOMAIN s]
  BY DEF TakesEach, FoldLeft, MapThenFoldSet
<1>2. \A k \in S, i \in 1..N : Op(k, s[i]) \in S
  BY <1>0 DEF TakesKeep
<1>3. Turn(F) <=> F = [t \in SUBSET (1..N) |-> IF t = {} THEN start
                                               ELSE Op(F[t \ {Max(t)}], s[Max(t)])]
  BY <1>0
<1> HIDE DEF N, Op
<1>4. PICK f \in [SUBSET (1..N) -> S] : FoldsUp(f, G, start, N)
  <2>1. G \in [1..N -> [S -> S]]
    BY <1>2
  <2> HIDE DEF G
  <2> QED BY <1>0, <2>1, FoldExists
<1>5. f = [t \in SUBSET (1..N) |-> IF t = {} THEN start ELSE Op(f[t \ {Max(t)}], s[Max(t)])]
  <2>1. ASSUME NEW t \in SUBSET (1..N), t # {}
        PROVE  G[Max(t)][f[t \ {Max(t)}]] = Op(f[t \ {Max(t)}], s[Max(t)])
    <3>1. Max(t) \in 1..N /\ f[t \ {Max(t)}] \in S
      BY <1>0, <2>1, MaxOfNumbers
    <3> QED BY <3>1
  <2> HIDE DEF G
  <2> QED BY <1>0, <1>4, <2>1 DEF FoldsUp
<1>6. Turn(f)
  BY <1>0, <1>5 DEF Op
<1> HIDE DEF Turn
<1>7. Turn(F)
  BY <1>6
<1> HIDE DEF F
<1>8. F = [t \in SUBSET (1..N) |-> IF t = {} THEN start ELSE Op(F[t \ {Max(t)}], s[Max(t)])]
  BY <1>3, <1>7
<1>9. F[1..0] = start
  BY <1>0, <1>8
<1>10. ASSUME NEW i \in 1..N PROVE F[1..i] = Op(F[1..(i - 1)], s[i])
  <2>1. 1..i \in SUBSET (1..N) /\ 1..i # {} /\ Max(1..i) = i /\ (1..i) \ {i} = 1..(i - 1)
    BY <1>0, UpToNumber
  <2> QED BY <1>0, <1>8, <2>1
<1>11. /\ DOMAIN g = 0..N /\ g[0] = start /\ g[N] = F[1..N]
       /\ \A i \in 1..N : g[i] = Op(g[i - 1], s[i])
  BY <1>0, <1>9, <1>10
<1>12. g = [i \in 0..N |-> g[i]]
  OBVIOUS
<1> HIDE DEF g
<1>13. \A i \in 0..N : g[i] \in S
  <2>1. \A i \in 1..N : g[i - 1] \in S => g[i] \in S
    BY <1>2, <1>11
  <2> QED BY <1>0, <1>11, <2>1, TurnsStay
<1> QED BY <1>0, <1>1, <1>11, <1>12, <1>13 DEF Op, N

PacksKeep(S, T) == \A k \in S, x \in T : PacksPath(k, x) \in S
LEMMA PacksRun ==
    ASSUME NEW S, NEW T, NEW s \in Seq(T), NEW start \in S, PacksKeep(S, T)
    PROVE  \E g \in [0..Len(s) -> S] :
              /\ g[0] = start /\ g[Len(s)] = PacksEach(start, s)
              /\ \A i \in 1..Len(s) : g[i] = PacksPath(g[i - 1], s[i])
<1> DEFINE N == Len(s)
           Op(k, x) == PacksPath(k, x)
           Turn(f) == f = [t \in SUBSET (DOMAIN s) |->
                             IF t = {} THEN start
                             ELSE LET x == Max(t) IN PacksPath(f[t \ {x}], s[x])]
           F == CHOOSE f : Turn(f)
           G == [i \in 1..N |-> [k \in S |-> Op(k, s[i])]]
           g == [i \in 0..N |-> F[1..i]]
<1>0. N \in Nat /\ DOMAIN s = 1..N /\ (\A i \in 1..N : s[i] \in T)
  BY LenProperties
<1>1. PacksEach(start, s) = F[DOMAIN s]
  BY DEF PacksEach, FoldLeft, MapThenFoldSet
<1>2. \A k \in S, i \in 1..N : Op(k, s[i]) \in S
  BY <1>0 DEF PacksKeep
<1>3. Turn(F) <=> F = [t \in SUBSET (1..N) |-> IF t = {} THEN start
                                               ELSE Op(F[t \ {Max(t)}], s[Max(t)])]
  BY <1>0
<1> HIDE DEF N, Op
<1>4. PICK f \in [SUBSET (1..N) -> S] : FoldsUp(f, G, start, N)
  <2>1. G \in [1..N -> [S -> S]]
    BY <1>2
  <2> HIDE DEF G
  <2> QED BY <1>0, <2>1, FoldExists
<1>5. f = [t \in SUBSET (1..N) |-> IF t = {} THEN start ELSE Op(f[t \ {Max(t)}], s[Max(t)])]
  <2>1. ASSUME NEW t \in SUBSET (1..N), t # {}
        PROVE  G[Max(t)][f[t \ {Max(t)}]] = Op(f[t \ {Max(t)}], s[Max(t)])
    <3>1. Max(t) \in 1..N /\ f[t \ {Max(t)}] \in S
      BY <1>0, <2>1, MaxOfNumbers
    <3> QED BY <3>1
  <2> HIDE DEF G
  <2> QED BY <1>0, <1>4, <2>1 DEF FoldsUp
<1>6. Turn(f)
  BY <1>0, <1>5 DEF Op
<1> HIDE DEF Turn
<1>7. Turn(F)
  BY <1>6
<1> HIDE DEF F
<1>8. F = [t \in SUBSET (1..N) |-> IF t = {} THEN start ELSE Op(F[t \ {Max(t)}], s[Max(t)])]
  BY <1>3, <1>7
<1>9. F[1..0] = start
  BY <1>0, <1>8
<1>10. ASSUME NEW i \in 1..N PROVE F[1..i] = Op(F[1..(i - 1)], s[i])
  <2>1. 1..i \in SUBSET (1..N) /\ 1..i # {} /\ Max(1..i) = i /\ (1..i) \ {i} = 1..(i - 1)
    BY <1>0, UpToNumber
  <2> QED BY <1>0, <1>8, <2>1
<1>11. /\ DOMAIN g = 0..N /\ g[0] = start /\ g[N] = F[1..N]
       /\ \A i \in 1..N : g[i] = Op(g[i - 1], s[i])
  BY <1>0, <1>9, <1>10
<1>12. g = [i \in 0..N |-> g[i]]
  OBVIOUS
<1> HIDE DEF g
<1>13. \A i \in 0..N : g[i] \in S
  <2>1. \A i \in 1..N : g[i - 1] \in S => g[i] \in S
    BY <1>2, <1>11
  <2> QED BY <1>0, <1>11, <2>1, TurnsStay
<1> QED BY <1>0, <1>1, <1>11, <1>12, <1>13 DEF Op, N

ChangesKeep(S, T) == \A k \in S, x \in T : AndChangesAt(k, x) \in S
LEMMA ChangesRun ==
    ASSUME NEW S, NEW T, NEW s \in Seq(T), <<>> \in S, ChangesKeep(S, T)
    PROVE  \E g \in [0..Len(s) -> S] :
              /\ g[0] = <<>> /\ g[Len(s)] = ChangesAmong(s)
              /\ \A i \in 1..Len(s) : g[i] = AndChangesAt(g[i - 1], s[i])
<1> DEFINE N == Len(s)
           Op(k, x) == AndChangesAt(k, x)
           Turn(f) == f = [t \in SUBSET (DOMAIN s) |->
                             IF t = {} THEN <<>>
                             ELSE LET x == Max(t) IN AndChangesAt(f[t \ {x}], s[x])]
           F == CHOOSE f : Turn(f)
           G == [i \in 1..N |-> [k \in S |-> Op(k, s[i])]]
           g == [i \in 0..N |-> F[1..i]]
<1>0. N \in Nat /\ DOMAIN s = 1..N /\ (\A i \in 1..N : s[i] \in T)
  BY LenProperties
<1>1. ChangesAmong(s) = F[DOMAIN s]
  BY DEF ChangesAmong, FoldLeft, MapThenFoldSet
<1>2. \A k \in S, i \in 1..N : Op(k, s[i]) \in S
  BY <1>0 DEF ChangesKeep
<1>3. Turn(F) <=> F = [t \in SUBSET (1..N) |-> IF t = {} THEN <<>>
                                               ELSE Op(F[t \ {Max(t)}], s[Max(t)])]
  BY <1>0
<1> HIDE DEF N, Op
<1>4. PICK f \in [SUBSET (1..N) -> S] : FoldsUp(f, G, <<>>, N)
  <2>1. G \in [1..N -> [S -> S]]
    BY <1>2
  <2> HIDE DEF G
  <2> QED BY <1>0, <2>1, FoldExists
<1>5. f = [t \in SUBSET (1..N) |-> IF t = {} THEN <<>> ELSE Op(f[t \ {Max(t)}], s[Max(t)])]
  <2>1. ASSUME NEW t \in SUBSET (1..N), t # {}
        PROVE  G[Max(t)][f[t \ {Max(t)}]] = Op(f[t \ {Max(t)}], s[Max(t)])
    <3>1. Max(t) \in 1..N /\ f[t \ {Max(t)}] \in S
      BY <1>0, <2>1, MaxOfNumbers
    <3> QED BY <3>1
  <2> HIDE DEF G
  <2> QED BY <1>0, <1>4, <2>1 DEF FoldsUp
<1>6. Turn(f)
  BY <1>0, <1>5 DEF Op
<1> HIDE DEF Turn
<1>7. Turn(F)
  BY <1>6
<1> HIDE DEF F
<1>8. F = [t \in SUBSET (1..N) |-> IF t = {} THEN <<>> ELSE Op(F[t \ {Max(t)}], s[Max(t)])]
  BY <1>3, <1>7
<1>9. F[1..0] = <<>>
  BY <1>0, <1>8
<1>10. ASSUME NEW i \in 1..N PROVE F[1..i] = Op(F[1..(i - 1)], s[i])
  <2>1. 1..i \in SUBSET (1..N) /\ 1..i # {} /\ Max(1..i) = i /\ (1..i) \ {i} = 1..(i - 1)
    BY <1>0, UpToNumber
  <2> QED BY <1>0, <1>8, <2>1
<1>11. /\ DOMAIN g = 0..N /\ g[0] = <<>> /\ g[N] = F[1..N]
       /\ \A i \in 1..N : g[i] = Op(g[i - 1], s[i])
  BY <1>0, <1>9, <1>10
<1>12. g = [i \in 0..N |-> g[i]]
  OBVIOUS
<1> HIDE DEF g
<1>13. \A i \in 0..N : g[i] \in S
  <2>1. \A i \in 1..N : g[i - 1] \in S => g[i] \in S
    BY <1>2, <1>11
  <2> QED BY <1>0, <1>11, <2>1, TurnsStay
<1> QED BY <1>0, <1>1, <1>11, <1>12, <1>13 DEF Op, N

GitChanges == [path : DfPaths, from : DfPaths \union {""}, staged : BOOLEAN, unstaged : BOOLEAN,
               untracked : BOOLEAN, deleted : BOOLEAN]
Selections == [paths : Seq(DfPaths), deleted : SUBSET DfPaths, skipped : Seq(DfPaths),
               filtered : Nat, beyond : Nat, detected : Nat]
Sections == [scope : {"staged", "unstaged", "untracked"}, bytes : Nat, truncated : BOOLEAN]
Indexed == Contents \union {Absent}
DfTypes ==
    /\ dfTree \in [head : [DfPaths -> Indexed], staged : [DfPaths -> Indexed],
                   work : [DfPaths -> Indexed \union {Link}]]
    /\ dfIndex \in [DfPaths -> Indexed]
    /\ dfAsked \in Seq(DfPaths) /\ dfChanges \in Seq(GitChanges)
    /\ dfSel \in Selections /\ dfDiff \in Seq(Sections)

LEMMA ContentsArePlain == Contents \subseteq Nat \ {0} /\ Absent \notin Contents /\ Link \notin Contents
<1>1. ChunksIn \in Seq(Seq(Nat))
  BY DiffAssumption
<1>2. Len(ChunksIn) \in Nat /\ DOMAIN ChunksIn = 1..Len(ChunksIn)
  BY <1>1, LenProperties
<1> QED BY <1>2 DEF Contents, Absent, Link

LEMMA OwnElements ==
    ASSUME NEW T, NEW s \in Seq(T)
    PROVE  /\ s \in Seq(ToSet(s)) /\ ToSet(s) \subseteq T
           /\ Len(s) \in Nat /\ DOMAIN s = 1..Len(s)
           /\ \A x : x \in ToSet(s) <=> \E i \in 1..Len(s) : s[i] = x
<1>1. Len(s) \in Nat /\ DOMAIN s = 1..Len(s) /\ s \in [1..Len(s) -> T]
  BY LenProperties
<1>2. s \in [1..Len(s) -> ToSet(s)]
  BY <1>1 DEF ToSet
<1>3. s \in Seq(ToSet(s))
  <2> DEFINE E == ToSet(s)
  <2> HIDE DEF E
  <2>1. s \in [1..Len(s) -> E]
    BY <1>2 DEF E
  <2>2. s \in Seq(E)
    BY <1>1, <2>1, SeqDef
  <2> QED BY <2>2 DEF E
<1> QED BY <1>1, <1>3 DEF ToSet

LEMMA SourceIsPath == ASSUME NEW p PROVE Source(p) \in DfPaths \union {""}
  BY DEF Source, RenamedFrom

LEMMA MembershipIsBoolean == ASSUME NEW x, NEW S PROVE (x \in S) \in BOOLEAN
  BY SMT

LEMMA WorktreeTyped == WorktreeChanges \in Seq(GitChanges)
<1>1. ASSUME NEW p \in DfPaths, NEW from \in DfPaths \union {""}, NEW x, NEW y
      PROVE  Change(p, from, x, y) \in GitChanges
  <2> DEFINE quiet == {" ", "?"}
             xy == {x, y}
             a == x \notin quiet
             b == y \notin quiet
             c == x = "?"
             gone == "D"
             d == gone \in xy
  <2>1. Change(p, from, x, y) = [path |-> p, from |-> from, staged |-> a, unstaged |-> b,
                                 untracked |-> c, deleted |-> d]
    BY DEF Change
  <2> HIDE DEF quiet, xy, gone
  <2>2. a \in BOOLEAN
    OBVIOUS
  <2>3. b \in BOOLEAN
    OBVIOUS
  <2>4. c \in BOOLEAN
    OBVIOUS
  <2>5. d \in BOOLEAN
    BY MembershipIsBoolean
  <2> HIDE DEF a, b, c, d
  <2>6. [path |-> p, from |-> from, staged |-> a, unstaged |-> b, untracked |-> c, deleted |-> d]
            \in GitChanges
    BY <2>2, <2>3, <2>4, <2>5 DEF GitChanges
  <2> QED BY <2>1, <2>6
<1>2. ASSUME NEW p \in DfPaths PROVE ChangesAt(p) \in Seq(GitChanges)
  <2>1. Change(p, "", "?", "?") \in GitChanges /\ Change(p, Source(p), Staged(p), Unstaged(p)) \in GitChanges
    BY <1>1, SourceIsPath
  <2> DEFINE C == GitChanges
  <2>2. Change(p, "", "?", "?") \in C /\ Change(p, Source(p), Staged(p), Unstaged(p)) \in C
    BY <2>1
  <2> HIDE DEF C
  <2>3. \A c \in C : <<c>> \in Seq(C)
    OBVIOUS
  <2>4. <<>> \in Seq(C)
    OBVIOUS
  <2>5. \A s \in Seq(C), t \in Seq(C) : s \o t \in Seq(C)
    OBVIOUS
  <2>6. ChangesAt(p) \in Seq(C)
    BY <2>2, <2>3, <2>4, <2>5 DEF ChangesAt
  <2> QED BY <2>6 DEF C
<1> DEFINE S == Seq(GitChanges)
<1>3. <<>> \in S /\ ChangesKeep(S, DfPaths)
  <2> DEFINE C == GitChanges
  <2> HIDE DEF C
  <2>1. <<>> \in Seq(C) /\ \A k \in Seq(C), t \in Seq(C) : k \o t \in Seq(C)
    OBVIOUS
  <2> QED BY <1>2, <2>1 DEF AndChangesAt, ChangesKeep, C
<1> HIDE DEF S
<1>4. DiffPaths \in Seq(DfPaths) /\ Len(DiffPaths) \in Nat
  BY DiffAssumption, LenProperties
<1>5. PICK g \in [0..Len(DiffPaths) -> S] : g[Len(DiffPaths)] = ChangesAmong(DiffPaths)
  BY <1>3, <1>4, ChangesRun
<1>6. ChangesAmong(DiffPaths) \in S
  BY <1>4, <1>5
<1> QED BY <1>6 DEF S, WorktreeChanges

\* What choosing leaves of a selection.
LEMMA ChoosesFits ==
    ASSUME DfTypes
    PROVE  LET sel == ChoosesAll(dfSel, dfChanges) IN
           /\ sel \in Selections
           /\ sel.deleted \subseteq dfSel.deleted \union {c.path : c \in ToSet(dfChanges)}
           /\ Len(sel.skipped) \in Nat /\ Len(sel.skipped) >= Len(dfSel.skipped)
           /\ sel.filtered = dfSel.filtered /\ sel.beyond = dfSel.beyond
           /\ sel.detected = dfSel.detected
<1> DEFINE P == {c.path : c \in ToSet(dfChanges)}
           S == {sel \in Selections :
                   /\ sel.deleted \subseteq dfSel.deleted \union P
                   /\ Len(sel.skipped) >= Len(dfSel.skipped)
                   /\ sel.filtered = dfSel.filtered /\ sel.beyond = dfSel.beyond
                   /\ sel.detected = dfSel.detected}
<1>1. /\ dfChanges \in Seq(ToSet(dfChanges)) /\ Len(dfChanges) \in Nat
      /\ ToSet(dfChanges) \subseteq GitChanges
  BY OwnElements DEF DfTypes
<1>2. P \subseteq DfPaths
  BY <1>1 DEF GitChanges
<1>3. Len(dfSel.skipped) \in Nat
  BY LenProperties DEF DfTypes, Selections
<1>4. dfSel \in S
  BY <1>3 DEF DfTypes
<1>5. ASSUME NEW k \in S, NEW c \in ToSet(dfChanges) PROVE Choose(k, c) \in S
  <2>1. c.path \in P /\ c.path \in DfPaths
    BY <1>2
  <2> DEFINE p == c.path
             path == Append(k.paths, p)
             skip == Append(k.skipped, p)
  <2>2. k \in Selections /\ k.deleted \subseteq dfSel.deleted \union P
        /\ Len(k.skipped) >= Len(dfSel.skipped) /\ Len(k.skipped) \in Nat
        /\ k.filtered = dfSel.filtered /\ k.beyond = dfSel.beyond /\ k.detected = dfSel.detected
    BY LenProperties DEF Selections
  <2>3. path \in Seq(DfPaths) /\ skip \in Seq(DfPaths) /\ Len(skip) = Len(k.skipped) + 1
    BY <2>1, <2>2, AppendProperties DEF Selections
  <2>4. /\ p \in P /\ p \in DfPaths
        /\ Choose(k, c) \in {k, [k EXCEPT !.deleted = @ \union {p}], [k EXCEPT !.skipped = skip],
                             [k EXCEPT !.paths = path]}
    BY <2>1 DEF Choose
  <2> HIDE DEF p, P, path, skip
  <2>5. [k EXCEPT !.deleted = @ \union {p}] \in S
    BY <2>2, <2>4 DEF Selections
  <2>6. [k EXCEPT !.skipped = skip] \in S
    <3>1. [k EXCEPT !.skipped = skip] \in Selections
      BY <2>2, <2>3 DEF Selections
    <3>2. [k EXCEPT !.skipped = skip].skipped = skip
      BY <2>2 DEF Selections
    <3>3. Len(skip) >= Len(dfSel.skipped)
      BY <1>3, <2>2, <2>3
    <3> QED BY <2>2, <3>1, <3>2, <3>3 DEF Selections
  <2>7. [k EXCEPT !.paths = path] \in S
    BY <2>2, <2>3 DEF Selections
  <2> QED BY <2>4, <2>5, <2>6, <2>7
<1> DEFINE T == ToSet(dfChanges)
<1> HIDE DEF S, P
<1>6. PICK g \in [0..Len(dfChanges) -> S] : g[Len(dfChanges)] = ChoosesAll(dfSel, dfChanges)
  <2>1. dfChanges \in Seq(T) /\ dfSel \in S /\ ChoosesKeep(S, T)
    BY <1>1, <1>4, <1>5 DEF ChoosesKeep
  <2> HIDE DEF T
  <2> QED BY <2>1, ChoosesRun
<1>7. ChoosesAll(dfSel, dfChanges) \in S
  BY <1>1, <1>6
<1>8. ChoosesAll(dfSel, dfChanges) \in Selections
  BY <1>7 DEF S
<1>9. Len(ChoosesAll(dfSel, dfChanges).skipped) \in Nat
  BY <1>8, LenProperties DEF Selections
<1> QED BY <1>7, <1>8, <1>9 DEF S, P

CallLimits == [tokens |-> DiffTokens, bytes |-> DiffBytes]
CallBudgets == Budgets(CallLimits)
DiffFiles == [path : DfPaths, content : Contents, chunks : Nat, total : Nat]
DiffAnswers == [files : Seq(DiffFiles), omitted : Seq(DfPaths), skipped : Seq(DfPaths)]
DiffPackings == [budget : CallBudgets, answer : DiffAnswers]

LEMMA TakesEachFits ==
    ASSUME NEW budget \in CallBudgets, NEW s \in Seq(Nat)
    PROVE  LET packed == TakesEach([budget |-> budget, n |-> 0], s) IN
           packed.budget \in CallBudgets /\ packed.n \in Nat
<1> DEFINE S == [budget : CallBudgets, n : Nat]
           start == [budget |-> budget, n |-> 0]
<1>1. PositiveLimits(CallLimits)
  BY DiffAssumption DEF PositiveLimits, CallLimits
<1>2. \A b \in CallBudgets, bytes \in Nat : Spent(b, bytes) \in CallBudgets
  BY <1>1, SpentFits DEF CallBudgets
<1>3. TakesKeep(S, Nat)
  <2> SUFFICES ASSUME NEW k \in S, NEW x \in Nat PROVE TakesOne(k, x) \in S
    BY DEF TakesKeep
  <2> DEFINE B == CallBudgets
             spent == Spent(k.budget, x)
  <2>1. k.budget \in B /\ k.n \in Nat /\ spent \in B /\ k = [budget |-> k.budget, n |-> k.n]
    BY <1>2
  <2>2. TakesOne(k, x) = [budget |-> spent, n |-> k.n + 1] \/ TakesOne(k, x) = [k EXCEPT !.budget = spent]
    BY DEF TakesOne
  <2> HIDE DEF B, spent
  <2>3. [budget |-> spent, n |-> k.n + 1] \in [budget : B, n : Nat]
        /\ [k EXCEPT !.budget = spent] \in [budget : B, n : Nat]
    BY <2>1
  <2> QED BY <2>2, <2>3 DEF B
<1>4. start \in S
  OBVIOUS
<1> HIDE DEF S, start
<1>5. PICK g \in [0..Len(s) -> S] : g[Len(s)] = TakesEach(start, s)
  BY <1>3, <1>4, TakesRun
<1>6. Len(s) \in Nat
  BY LenProperties
<1>7. TakesEach(start, s) \in S
  BY <1>5, <1>6
<1> QED BY <1>7 DEF S, start

LEMMA ChunksAreSizes == ASSUME NEW c \in Contents PROVE ChunksIn[c] \in Seq(Nat) /\ Len(ChunksIn[c]) \in Nat
<1> DEFINE Q == Seq(Nat)
<1>1. ChunksIn \in Seq(Q)
  BY DiffAssumption
<1> HIDE DEF Q
<1>2. ChunksIn[c] \in Q
  BY <1>1, LenProperties DEF Contents
<1> QED BY <1>2, LenProperties DEF Q

LEMMA OneMore ==
    ASSUME NEW T, NEW s \in Seq(T), NEW x \in T
    PROVE  LET t == Append(s, x) IN
           /\ t \in Seq(T) /\ Len(s) \in Nat /\ Len(t) = Len(s) + 1
           /\ \A i \in 1..Len(s) : t[i] = s[i]
           /\ t[Len(s) + 1] = x
           /\ ToSet(t) = ToSet(s) \union {x}
<1> DEFINE t == Append(s, x)
<1>1. /\ t \in Seq(T) /\ Len(s) \in Nat /\ Len(t) = Len(s) + 1
      /\ \A i \in 1..Len(t) : t[i] = IF i = Len(s) + 1 THEN x ELSE s[i]
  BY AppendProperties, LenProperties
<1> HIDE DEF t
<1>2. \A y : y \in ToSet(t) <=> \E i \in 1..Len(t) : t[i] = y
  BY <1>1, OwnElements
<1>3. \A y : y \in ToSet(s) <=> \E i \in 1..Len(s) : s[i] = y
  BY OwnElements
<1>4. /\ \A i \in 1..Len(s) : i \in 1..Len(t) /\ t[i] = s[i]
      /\ Len(s) + 1 \in 1..Len(t) /\ t[Len(s) + 1] = x
  BY <1>1
<1>5. \A i \in 1..Len(t) : i \in 1..Len(s) \/ i = Len(s) + 1
  BY <1>1
<1>6. ASSUME NEW y PROVE y \in ToSet(t) <=> y \in ToSet(s) \union {x}
  BY <1>2, <1>3, <1>4, <1>5
<1>7. ToSet(t) = ToSet(s) \union {x}
  BY <1>6
<1> QED BY <1>1, <1>4, <1>7 DEF t

\* The paths an answer names after i of them: what it serves, omits or skips beyond
\* what was skipped before.
SkippedSince(answer, before) == {answer.skipped[k] : k \in (before + 1)..Len(answer.skipped)}
NamedBy(answer, before) ==
    {answer.files[k].path : k \in 1..Len(answer.files)} \union ToSet(answer.omitted)
    \union SkippedSince(answer, before)
Names(answer, before) == Len(answer.files) + Len(answer.omitted) + Len(answer.skipped) - before
ServesIndexed(answer, P) ==
    \A k \in 1..Len(answer.files) :
        answer.files[k].path \in P /\ dfIndex[answer.files[k].path] = answer.files[k].content

NamingIn(P, before) ==
    {k \in DiffPackings : before <= Len(k.answer.skipped) /\ ServesIndexed(k.answer, P)}

\* A path more names one path more.
LEMMA PathIsNamed ==
    ASSUME DfTypes, NEW before \in Nat, NEW P \in SUBSET DfPaths,
           NEW k \in NamingIn(P, before), NEW p \in P
    PROVE  /\ PacksPath(k, p) \in NamingIn(P, before)
           /\ Names(PacksPath(k, p).answer, before) = Names(k.answer, before) + 1
           /\ NamedBy(PacksPath(k, p).answer, before) = NamedBy(k.answer, before) \union {p}
<1> DEFINE old == k.answer
           more == PacksPath(k, p)
           chunks == ChunksIn[dfIndex[p]]
           few == SubSeq(chunks, 1, Least(Len(chunks), PerFile))
           packed == TakesEach([budget |-> k.budget, n |-> 0], few)
           file == [path |-> p, content |-> dfIndex[p], chunks |-> packed.n, total |-> Len(chunks)]
<1>1. /\ k.budget \in CallBudgets /\ old \in DiffAnswers /\ p \in DfPaths
      /\ k = [budget |-> k.budget, answer |-> old]
  BY DEF DiffPackings, NamingIn
<1>2. /\ old.files \in Seq(DiffFiles) /\ old.omitted \in Seq(DfPaths) /\ old.skipped \in Seq(DfPaths)
      /\ Len(old.files) \in Nat /\ Len(old.omitted) \in Nat /\ Len(old.skipped) \in Nat
      /\ old = [files |-> old.files, omitted |-> old.omitted, skipped |-> old.skipped]
  <2>1. /\ old.files \in Seq(DiffFiles) /\ old.omitted \in Seq(DfPaths) /\ old.skipped \in Seq(DfPaths)
        /\ old = [files |-> old.files, omitted |-> old.omitted, skipped |-> old.skipped]
    BY <1>1 DEF DiffAnswers
  <2>2. Len(old.files) \in Nat
    <3> DEFINE D == DiffFiles
    <3> HIDE DEF D
    <3>1. old.files \in Seq(D)
      BY <2>1 DEF D
    <3> QED BY <3>1, LenProperties
  <2> QED BY <2>1, <2>2, LenProperties
<1>3. CASE dfIndex[p] = Absent
  <2> DEFINE skipped == Append(old.skipped, p)
  <2>1. more = [k EXCEPT !.answer.skipped = skipped]
    BY <1>3 DEF PacksPath
  <2>2. skipped \in Seq(DfPaths) /\ Len(skipped) = Len(old.skipped) + 1
        /\ (\A i \in 1..Len(old.skipped) : skipped[i] = old.skipped[i])
        /\ skipped[Len(old.skipped) + 1] = p
    BY <1>1, <1>2, OneMore
  <2>3. /\ more.budget = k.budget
        /\ more.answer = [files |-> old.files, omitted |-> old.omitted, skipped |-> skipped]
    BY <1>1, <1>2, <2>1
  <2>4. more = [budget |-> k.budget, answer |-> more.answer]
    BY <1>1, <2>1
  <2> HIDE DEF skipped, more, old
  <2>5. more.answer \in DiffAnswers
    BY <1>2, <2>2, <2>3 DEF DiffAnswers
  <2>6. more \in DiffPackings
    BY <1>1, <2>4, <2>5 DEF DiffPackings
  <2>7. SkippedSince(more.answer, before) = SkippedSince(old, before) \union {p}
    <3> DEFINE n == Len(old.skipped)
    <3>1. n \in Nat /\ before <= n /\ (before + 1)..(n + 1) = ((before + 1)..n) \union {n + 1}
      BY <1>2 DEF old, NamingIn
    <3>2. \A i \in (before + 1)..n : i \in 1..n /\ skipped[i] = old.skipped[i]
      BY <2>2, <3>1
    <3>3. SkippedSince(more.answer, before) = {skipped[i] : i \in (before + 1)..(n + 1)}
      BY <2>2, <2>3 DEF SkippedSince
    <3>4. SkippedSince(old, before) = {old.skipped[i] : i \in (before + 1)..n}
      BY DEF SkippedSince
    <3>5. skipped[n + 1] = p
      BY <2>2
    <3> HIDE DEF n
    <3> QED BY <3>1, <3>2, <3>3, <3>4, <3>5
  <2>8. NamedBy(more.answer, before) = NamedBy(old, before) \union {p}
    BY <2>3, <2>7 DEF NamedBy
  <2>9. Names(more.answer, before) = Names(old, before) + 1 /\ before <= Len(more.answer.skipped)
    <3>1. more.answer.skipped = skipped /\ more.answer.files = old.files /\ more.answer.omitted = old.omitted
      BY <2>3
    <3>2. before <= Len(old.skipped)
      BY DEF old, NamingIn
    <3>3. Names(more.answer, before) = Len(old.files) + Len(old.omitted) + Len(skipped) - before
      BY <3>1 DEF Names
    <3>4. Names(old, before) = Len(old.files) + Len(old.omitted) + Len(old.skipped) - before
      BY DEF Names
    <3>5. Len(more.answer.skipped) = Len(old.skipped) + 1
      BY <2>2, <3>1
    <3> QED BY <1>2, <2>2, <3>2, <3>3, <3>4, <3>5
  <2> QED BY <2>3, <2>6, <2>8, <2>9 DEF ServesIndexed, NamingIn, more, old
<1>4. CASE dfIndex[p] # Absent
  <2>1. dfIndex[p] \in Contents
    BY <1>1, <1>4 DEF DfTypes, Indexed
  <2>2. chunks \in Seq(Nat) /\ Len(chunks) \in Nat
    BY <2>1, ChunksAreSizes
  <2>3. few \in Seq(Nat)
    <3> DEFINE n == Least(Len(chunks), PerFile)
    <3>1. n \in Nat /\ n <= Len(chunks)
      <4>1. PerFile \in Nat
        BY DiffAssumption
      <4> HIDE DEF chunks
      <4> QED BY <2>2, <4>1 DEF Least
    <3> HIDE DEF n, chunks
    <3>2. \A i \in 1..n : chunks[i] \in Nat
      BY <2>2, <3>1, LenProperties
    <3>3. SubSeq(chunks, 1, n) \in Seq(Nat)
      BY <2>2, <3>1, <3>2, SubSeqProperties
    <3> QED BY <3>3 DEF n, chunks
  <2>4. packed.budget \in CallBudgets /\ packed.n \in Nat
    BY <1>1, <2>3, TakesEachFits
  <2>5. file \in DiffFiles
    BY <1>1, <2>1, <2>2, <2>4 DEF DiffFiles
  <2>6. more = [budget |-> packed.budget,
                answer |-> IF packed.n = 0 THEN [old EXCEPT !.omitted = Append(@, p)]
                           ELSE [old EXCEPT !.files = Append(@, file)]]
    BY <1>4 DEF PacksPath
  <2>7. file.path = p /\ file.content = dfIndex[p]
    OBVIOUS
  <2> HIDE DEF packed, file, few, chunks
  <2>8. CASE packed.n = 0
    <3> DEFINE omitted == Append(old.omitted, p)
    <3>1. omitted \in Seq(DfPaths) /\ Len(omitted) = Len(old.omitted) + 1 /\ ToSet(omitted) = ToSet(old.omitted) \union {p}
      BY <1>1, <1>2, OneMore
    <3>2. more.answer = [files |-> old.files, omitted |-> omitted, skipped |-> old.skipped]
          /\ more = [budget |-> packed.budget, answer |-> more.answer]
      <4>1. [old EXCEPT !.omitted = Append(@, p)] = [files |-> old.files, omitted |-> omitted, skipped |-> old.skipped]
        <5> DEFINE f == old.files
                   o == old.omitted
                   s == old.skipped
        <5>1. old = [files |-> f, omitted |-> o, skipped |-> s]
          BY <1>2
        <5> HIDE DEF f, o, s, old
        <5>2. [old EXCEPT !.omitted = Append(@, p)] = [files |-> f, omitted |-> Append(o, p), skipped |-> s]
          <6> HIDE DEF omitted
          <6>1. old.omitted = o
            BY <5>1
          <6> DEFINE t == Append(o, p)
          <6>2. Append(old.omitted, p) = t
            BY <6>1
          <6> HIDE DEF t
          <6>3. [old EXCEPT !.omitted = t] = [files |-> f, omitted |-> t, skipped |-> s]
            BY <5>1
          <6> QED BY <6>2, <6>3 DEF t
        <5> QED BY <5>2 DEF f, o, s
      <4>2. more = [budget |-> packed.budget, answer |-> [old EXCEPT !.omitted = Append(@, p)]]
        BY <2>6, <2>8
      <4> HIDE DEF more, old, omitted
      <4> QED BY <4>1, <4>2
    <3> HIDE DEF omitted, more
    <3>3. more.answer \in DiffAnswers
      BY <1>2, <3>1, <3>2 DEF DiffAnswers
    <3>4. more \in DiffPackings
      BY <2>4, <3>2, <3>3 DEF DiffPackings
    <3>5. NamedBy(more.answer, before) = NamedBy(old, before) \union {p}
      BY <3>1, <3>2 DEF NamedBy, SkippedSince
    <3>6. Names(more.answer, before) = Names(old, before) + 1 /\ before <= Len(more.answer.skipped)
      <4>1. more.answer.skipped = old.skipped /\ more.answer.files = old.files /\ more.answer.omitted = omitted
        BY <3>2
      <4>2. before <= Len(old.skipped)
        BY DEF NamingIn
      <4>3. Names(more.answer, before) = Len(old.files) + Len(omitted) + Len(old.skipped) - before
        BY <4>1 DEF Names
      <4>4. Names(old, before) = Len(old.files) + Len(old.omitted) + Len(old.skipped) - before
        BY DEF Names
      <4>5. Len(more.answer.skipped) = Len(old.skipped)
        BY <4>1
      <4> HIDE DEF old
      <4> QED BY <1>2, <3>1, <4>2, <4>3, <4>4, <4>5
    <3> QED BY <3>2, <3>4, <3>5, <3>6 DEF ServesIndexed, NamingIn, more
  <2>9. CASE packed.n # 0
    <3> DEFINE files == Append(old.files, file)
    <3>1. files \in Seq(DiffFiles) /\ Len(files) = Len(old.files) + 1
          /\ (\A i \in 1..Len(old.files) : files[i] = old.files[i])
          /\ files[Len(old.files) + 1] = file
      <4> DEFINE D == DiffFiles
      <4> HIDE DEF D
      <4>1. old.files \in Seq(D) /\ file \in D
        BY <1>2, <2>5 DEF D
      <4> QED BY <4>1, OneMore DEF D
    <3>2. more.answer = [files |-> files, omitted |-> old.omitted, skipped |-> old.skipped]
          /\ more = [budget |-> packed.budget, answer |-> more.answer]
      <4>1. [old EXCEPT !.files = Append(@, file)] = [files |-> files, omitted |-> old.omitted, skipped |-> old.skipped]
        <5> DEFINE f == old.files
                   o == old.omitted
                   s == old.skipped
        <5>1. old = [files |-> f, omitted |-> o, skipped |-> s]
          BY <1>2
        <5> HIDE DEF f, o, s, old
        <5>2. \A x : [old EXCEPT !.files = Append(@, x)] = [files |-> Append(f, x), omitted |-> o, skipped |-> s]
          <6> HIDE DEF files, file
          <6>1. old.files = f
            BY <5>1
          <6>2. ASSUME NEW x PROVE [old EXCEPT !.files = Append(old.files, x)] = [files |-> Append(f, x), omitted |-> o, skipped |-> s]
            <7> DEFINE t == Append(f, x)
            <7>1. Append(old.files, x) = t
              BY <6>1
            <7> HIDE DEF t
            <7>2. [old EXCEPT !.files = t] = [files |-> t, omitted |-> o, skipped |-> s]
              BY <5>1
            <7> QED BY <7>1, <7>2 DEF t
          <6> QED BY <6>2
        <5> QED BY <5>2 DEF f, o, s
      <4>2. more = [budget |-> packed.budget, answer |-> [old EXCEPT !.files = Append(@, file)]]
        BY <2>6, <2>9
      <4> HIDE DEF more, old, files
      <4> QED BY <4>1, <4>2
    <3> HIDE DEF files, more
    <3>3. more.answer \in DiffAnswers
      BY <1>2, <3>1, <3>2 DEF DiffAnswers
    <3>4. more \in DiffPackings
      BY <2>4, <3>2, <3>3 DEF DiffPackings
    <3>5. NamedBy(more.answer, before) = NamedBy(old, before) \union {p}
      <4>1. {files[i].path : i \in 1..Len(files)} = {old.files[i].path : i \in 1..Len(old.files)} \union {p}
        <5> DEFINE n == Len(old.files)
        <5>1. n \in Nat /\ 1..(n + 1) = (1..n) \union {n + 1} /\ Len(files) = n + 1
          BY <1>2, <3>1
        <5>2. files[n + 1].path = p /\ \A i \in 1..n : files[i] = old.files[i]
          BY <2>7, <3>1
        <5>3. Len(old.files) = n
          OBVIOUS
        <5> HIDE DEF n, old, file
        <5>4. ASSUME NEW y PROVE y \in {files[i].path : i \in 1..(n + 1)}
                                  <=> y \in {old.files[i].path : i \in 1..n} \union {p}
          BY <5>1, <5>2
        <5>5. {files[i].path : i \in 1..(n + 1)} = {old.files[i].path : i \in 1..n} \union {p}
          BY <5>4
        <5> QED BY <5>1, <5>3, <5>5
      <4>2. more.answer.skipped = old.skipped /\ more.answer.files = files /\ more.answer.omitted = old.omitted
        BY <3>2
      <4>3. SkippedSince(more.answer, before) = SkippedSince(old, before)
        BY <4>2 DEF SkippedSince
      <4> DEFINE X == {old.files[i].path : i \in 1..Len(old.files)}
                 Y == {files[i].path : i \in 1..Len(files)}
      <4>4. NamedBy(old, before) = X \union ToSet(old.omitted) \union SkippedSince(old, before)
        BY DEF NamedBy
      <4>5. NamedBy(more.answer, before) = Y \union ToSet(old.omitted) \union SkippedSince(old, before)
        BY <4>2, <4>3 DEF NamedBy
      <4>6. Y = X \union {p}
        BY <4>1
      <4> HIDE DEF old, X, Y
      <4> QED BY <4>4, <4>5, <4>6
    <3>6. Names(more.answer, before) = Names(old, before) + 1 /\ before <= Len(more.answer.skipped)
      <4>1. more.answer.skipped = old.skipped /\ more.answer.files = files /\ more.answer.omitted = old.omitted
        BY <3>2
      <4>2. before <= Len(old.skipped)
        BY DEF NamingIn
      <4>3. Names(more.answer, before) = Len(files) + Len(old.omitted) + Len(old.skipped) - before
        BY <4>1 DEF Names
      <4>4. Names(old, before) = Len(old.files) + Len(old.omitted) + Len(old.skipped) - before
        BY DEF Names
      <4>5. Len(more.answer.skipped) = Len(old.skipped)
        BY <4>1
      <4> HIDE DEF old
      <4> QED BY <1>2, <3>1, <4>2, <4>3, <4>4, <4>5
    <3>7. ServesIndexed(more.answer, P)
      BY <1>2, <2>7, <3>1, <3>2 DEF ServesIndexed, NamingIn
    <3> QED BY <3>4, <3>5, <3>6, <3>7 DEF NamingIn, more
  <2> QED BY <2>8, <2>9
<1> QED BY <1>3, <1>4

PackStart == [budget |-> NewBudget(DiffTokens, DiffBytes),
              answer |-> [EmptyAnswer EXCEPT !.skipped = dfSel.skipped]]
NamesAll(answer) ==
    LET before == Len(dfSel.skipped) IN
    /\ answer \in DiffAnswers /\ before <= Len(answer.skipped)
    /\ Names(answer, before) = Len(dfSel.paths)
    /\ NamedBy(answer, before) = ToSet(dfSel.paths)

LEMMA PackStarts ==
    ASSUME DfTypes
    PROVE  LET before == Len(dfSel.skipped) IN
           /\ before \in Nat
           /\ PackStart \in DiffPackings
           /\ before <= Len(PackStart.answer.skipped)
           /\ \A P : ServesIndexed(PackStart.answer, P)
           /\ Names(PackStart.answer, before) = 0
           /\ NamedBy(PackStart.answer, before) = {}
<1> DEFINE before == Len(dfSel.skipped)
<1>1. dfSel.skipped \in Seq(DfPaths) /\ before \in Nat
  BY LenProperties DEF DfTypes, Selections
<1>2. PositiveLimits(CallLimits)
  BY DiffAssumption DEF PositiveLimits, CallLimits
<1>3. NewBudget(DiffTokens, DiffBytes) \in CallBudgets
  BY <1>2, NewBudgetFits DEF CallLimits, CallBudgets
<1>4. PackStart.answer = [files |-> <<>>, omitted |-> <<>>, skipped |-> dfSel.skipped]
      /\ PackStart.budget = NewBudget(DiffTokens, DiffBytes)
      /\ PackStart = [budget |-> PackStart.budget, answer |-> PackStart.answer]
  BY DEF PackStart, EmptyAnswer
<1>5. <<>> \in Seq(DiffFiles) /\ <<>> \in Seq(DfPaths)
  <2> DEFINE D == DiffFiles
  <2> HIDE DEF D
  <2>1. <<>> \in Seq(D)
    OBVIOUS
  <2> QED BY <2>1 DEF D
<1>6. PackStart.answer \in DiffAnswers
  BY <1>1, <1>4, <1>5 DEF DiffAnswers
<1>7. /\ PackStart.answer.files = <<>> /\ PackStart.answer.omitted = <<>>
      /\ PackStart.answer.skipped = dfSel.skipped
  BY <1>4
<1>8. Len(<<>>) = 0 /\ ToSet(<<>>) = {}
  BY DEF ToSet
<1>9. (before + 1)..before = {} /\ 1..0 = {}
  BY <1>1
<1>10. NamedBy(PackStart.answer, before) = {}
  BY <1>7, <1>8, <1>9 DEF NamedBy, SkippedSince
<1>11. Names(PackStart.answer, before) = 0
  BY <1>1, <1>7, <1>8 DEF Names
<1>12. ASSUME NEW P PROVE ServesIndexed(PackStart.answer, P)
  BY <1>7, <1>8, <1>9 DEF ServesIndexed
<1> QED BY <1>1, <1>3, <1>4, <1>6, <1>7, <1>10, <1>11, <1>12 DEF DiffPackings

\* A call's answer names the paths chosen, each once, and serves what the index holds.
LEMMA PacksNameAll ==
    ASSUME DfTypes
    PROVE  LET answer == PacksEach(PackStart, dfSel.paths).answer IN
           NamesAll(answer) /\ ServesIndexed(answer, ToSet(dfSel.paths))
<1> DEFINE before == Len(dfSel.skipped)
           paths == dfSel.paths
           N == Len(paths)
           P == ToSet(paths)
           S == NamingIn(P, before)
           Done(i) == {paths[k] : k \in 1..i}
           Right(i, k) == Names(k.answer, before) = i /\ NamedBy(k.answer, before) = Done(i)
<1>1. paths \in Seq(DfPaths)
  BY DEF DfTypes, Selections
<1>2. /\ paths \in Seq(P) /\ P \subseteq DfPaths /\ N \in Nat
      /\ \A x : x \in P <=> \E i \in 1..N : paths[i] = x
  BY <1>1, OwnElements
<1>3. before \in Nat
  BY PackStarts
<1> HIDE DEF before, paths, P
<1>4. \A k \in S, p \in P :
        /\ PacksPath(k, p) \in S
        /\ Names(PacksPath(k, p).answer, before) = Names(k.answer, before) + 1
        /\ NamedBy(PacksPath(k, p).answer, before) = NamedBy(k.answer, before) \union {p}
  BY <1>2, <1>3, PathIsNamed
<1>5. PackStart \in S /\ Names(PackStart.answer, before) = 0 /\ NamedBy(PackStart.answer, before) = {}
  BY PackStarts DEF before, NamingIn
<1> HIDE DEF S
<1>6. PICK g \in [0..N -> S] :
        /\ g[0] = PackStart /\ g[N] = PacksEach(PackStart, paths)
        /\ \A i \in 1..N : g[i] = PacksPath(g[i - 1], paths[i])
  <2>1. PacksKeep(S, P)
    BY <1>4 DEF PacksKeep
  <2> QED BY <1>2, <1>5, <2>1, PacksRun
<1> DEFINE h == [i \in 0..N |-> <<i, g[i]>>]
           R == {x \in Nat \X S : Right(x[1], x[2])}
<1>7. \A i \in 1..N : paths[i] \in P /\ g[i - 1] \in S /\ g[i] \in S
  <2>1. \A i \in 1..N : i \in 0..N /\ i - 1 \in 0..N
    BY <1>2
  <2> QED BY <1>2, <1>6, <2>1
<1>8. Right(0, g[0])
  BY <1>5, <1>6
<1>9. ASSUME NEW i \in 1..N, Right(i - 1, g[i - 1]) PROVE Right(i, g[i])
  <2>1. Done(i) = Done(i - 1) \union {paths[i]}
    BY <1>2
  <2>2. /\ Names(g[i].answer, before) = Names(g[i - 1].answer, before) + 1
        /\ NamedBy(g[i].answer, before) = NamedBy(g[i - 1].answer, before) \union {paths[i]}
    <3>1. g[i - 1] \in S /\ paths[i] \in P /\ g[i] = PacksPath(g[i - 1], paths[i])
      BY <1>6, <1>7
    <3> QED BY <1>4, <3>1
  <2> HIDE DEF Done
  <2> QED BY <1>2, <1>9, <2>1, <2>2
<1> HIDE DEF Right
<1>10. N \in 0..N /\ 0 \in 0..N /\ \A i \in 1..N : i \in 0..N /\ i - 1 \in 0..N /\ i \in Nat
  BY <1>2
<1>11. \A i \in 0..N : h[i] \in R
  <2>1. DOMAIN h = 0..N
    OBVIOUS
  <2>2. h[0] \in R
    BY <1>6, <1>8, <1>10
  <2>3. ASSUME NEW i \in 1..N, h[i - 1] \in R PROVE h[i] \in R
    <3>1. h[i] = <<i, g[i]>> /\ h[i - 1] = <<i - 1, g[i - 1]>>
      BY <1>10
    <3>2. Right(i - 1, g[i - 1])
      BY <2>3, <3>1
    <3> QED BY <1>7, <1>9, <1>10, <3>1, <3>2
  <2> HIDE DEF h, R
  <2> QED BY <1>2, <2>1, <2>2, <2>3, TurnsStay
<1>12. h[N] \in R /\ h[N] = <<N, g[N]>>
  BY <1>10, <1>11
<1>13. Right(N, g[N]) /\ g[N] \in S
  BY <1>12
<1>14. Done(N) = P
  <2>1. \A x : x \in Done(N) <=> x \in P
    BY <1>2
  <2> HIDE DEF Done
  <2> QED BY <2>1
<1>15. /\ g[N].answer \in DiffAnswers /\ before <= Len(g[N].answer.skipped)
       /\ ServesIndexed(g[N].answer, P)
  BY <1>13 DEF S, NamingIn, DiffPackings
<1>16. Names(g[N].answer, before) = N /\ NamedBy(g[N].answer, before) = P
  BY <1>13, <1>14 DEF Right
<1> QED BY <1>6, <1>15, <1>16 DEF NamesAll, before, paths, P

LEMMA NamedIsAll ==
    ASSUME DfTypes, NamesAll(dfAnswer)
    PROVE  ToSet(Named) = ToSet(dfSel.paths) /\ Len(Named) = Len(dfSel.paths)
<1> DEFINE before == Len(dfSel.skipped)
           n == Len(dfAnswer.skipped)
           s1 == [i \in DOMAIN dfAnswer.files |-> dfAnswer.files[i].path]
           s2 == dfAnswer.omitted
           s3 == SubSeq(dfAnswer.skipped, before + 1, n)
<1>1. before \in Nat
  BY PackStarts
<1>2. dfAnswer.files \in Seq(DiffFiles) /\ s2 \in Seq(DfPaths) /\ dfAnswer.skipped \in Seq(DfPaths)
  BY DEF NamesAll, DiffAnswers
<1>3. before <= n /\ n \in Nat
  BY <1>2, LenProperties DEF NamesAll
<1>4. /\ Len(dfAnswer.files) \in Nat /\ DOMAIN dfAnswer.files = 1..Len(dfAnswer.files)
      /\ \A i \in 1..Len(dfAnswer.files) : dfAnswer.files[i].path \in DfPaths
  <2> DEFINE D == DiffFiles
  <2>1. \A d \in D : d.path \in DfPaths
    BY DEF DiffFiles
  <2> HIDE DEF D
  <2>2. dfAnswer.files \in Seq(D)
    BY <1>2 DEF D
  <2> QED BY <2>1, <2>2, LenProperties
<1> DEFINE m == Len(dfAnswer.files)
<1>5. s1 \in Seq(DfPaths) /\ Len(s1) = m /\ \A i \in 1..m : s1[i] = dfAnswer.files[i].path
  <2>1. s1 \in [1..m -> DfPaths] /\ m \in Nat
    BY <1>4
  <2> HIDE DEF s1, m
  <2>2. s1 \in Seq(DfPaths) /\ Len(s1) = m
    BY <2>1, SeqDef, LenProperties
  <2> QED BY <1>4, <2>2 DEF s1, m
<1>6. s3 \in Seq(DfPaths) /\ Len(s3) = n - before
      /\ \A i \in 1..(n - before) : s3[i] = dfAnswer.skipped[before + i]
  <2> DEFINE w == dfAnswer.skipped
             first == before + 1
  <2>1. first \in Int /\ n \in Int /\ \A i \in first..n : i \in 1..n
    BY <1>1, <1>3
  <2>2. \A i \in 1..n : w[i] \in DfPaths
    BY <1>2, LenProperties
  <2>3. \A i \in first..n : w[i] \in DfPaths
    BY <2>1, <2>2
  <2> HIDE DEF n, first, w
  <2>4. /\ SubSeq(w, first, n) \in Seq(DfPaths)
        /\ Len(SubSeq(w, first, n)) = IF first <= n THEN n - first + 1 ELSE 0
        /\ \A i \in 1..(n - first + 1) : SubSeq(w, first, n)[i] = w[first + i - 1]
    BY <2>1, <2>3, SubSeqProperties
  <2>5. SubSeq(w, first, n) = s3
    BY DEF w, first, n
  <2> HIDE DEF s3, before
  <2>6. n - first + 1 = n - before /\ \A i \in 1..(n - before) : first + i - 1 = before + i
    BY <1>1, <1>3 DEF first
  <2>7. Len(s3) = n - before
    BY <1>1, <1>3, <2>1, <2>4, <2>5, <2>6 DEF first
  <2> QED BY <2>4, <2>5, <2>6, <2>7 DEF w
<1>7. Named = s1 \o s2 \o s3
  BY DEF Named
<1> HIDE DEF s1, s2, s3
<1>8. /\ s1 \o s2 \in Seq(DfPaths) /\ Len(s1 \o s2) = Len(s1) + Len(s2)
      /\ (s1 \o s2) \o s3 \in Seq(DfPaths)
      /\ Len((s1 \o s2) \o s3) = Len(s1 \o s2) + Len(s3)
  <2>1. s1 \in Seq(DfPaths) /\ s2 \in Seq(DfPaths) /\ s3 \in Seq(DfPaths)
    BY <1>2, <1>5, <1>6 DEF s2
  <2>2. s1 \o s2 \in Seq(DfPaths) /\ Len(s1 \o s2) = Len(s1) + Len(s2)
    BY <2>1, ConcatProperties
  <2> QED BY <2>1, <2>2, ConcatProperties
<1>9. \A s, t \in Seq(DfPaths) : ToSet(s \o t) = ToSet(s) \union ToSet(t)
  <2> SUFFICES ASSUME NEW s \in Seq(DfPaths), NEW t \in Seq(DfPaths)
               PROVE  ToSet(s \o t) = ToSet(s) \union ToSet(t)
    OBVIOUS
  <2> DEFINE a == Len(s)
             b == Len(t)
             st == s \o t
  <2>1. a \in Nat /\ b \in Nat /\ st \in Seq(DfPaths) /\ Len(st) = a + b
        /\ \A i \in 1..(a + b) : st[i] = IF i <= a THEN s[i] ELSE t[i - a]
    BY ConcatProperties, LenProperties
  <2>2. /\ \A x : x \in ToSet(s) <=> \E i \in 1..a : s[i] = x
        /\ \A x : x \in ToSet(t) <=> \E i \in 1..b : t[i] = x
    BY OwnElements
  <2>3. \A x : x \in ToSet(st) <=> \E i \in 1..Len(st) : st[i] = x
    BY <2>1, OwnElements
  <2> HIDE DEF a, b, st
  <2>4. ASSUME NEW i \in 1..a PROVE i \in 1..(a + b) /\ st[i] = s[i]
    BY <2>1
  <2>5. ASSUME NEW i \in 1..b PROVE a + i \in 1..(a + b) /\ st[a + i] = t[i]
    BY <2>1
  <2>6. ASSUME NEW i \in 1..(a + b)
        PROVE  (i \in 1..a /\ st[i] = s[i]) \/ (i - a \in 1..b /\ st[i] = t[i - a])
    <3>0. i \in Nat /\ i >= 1 /\ i <= a + b /\ (i <= a => st[i] = s[i])
          /\ (~(i <= a) => st[i] = t[i - a])
      BY <2>1
    <3>1. CASE i <= a
      <4>1. i \in 1..a
        BY <2>1, <3>0, <3>1
      <4>2. st[i] = s[i]
        BY <3>0, <3>1
      <4> QED BY <4>1, <4>2
    <3>2. CASE ~(i <= a)
      <4>1. i - a \in 1..b
        BY <2>1, <3>0, <3>2
      <4> QED BY <3>0, <3>2, <4>1
    <3> QED BY <3>1, <3>2
  <2>7. ASSUME NEW x PROVE x \in ToSet(st) <=> x \in ToSet(s) \union ToSet(t)
    <3>1. x \in ToSet(st) => x \in ToSet(s) \union ToSet(t)
      BY <2>1, <2>2, <2>3, <2>6
    <3>2. x \in ToSet(s) => x \in ToSet(st)
      BY <2>1, <2>2, <2>3, <2>4
    <3>3. x \in ToSet(t) => x \in ToSet(st)
      BY <2>1, <2>2, <2>3, <2>5
    <3> QED BY <3>1, <3>2, <3>3
  <2>8. ToSet(st) = ToSet(s) \union ToSet(t)
    BY <2>7
  <2> QED BY <2>8 DEF st
<1>10. ToSet(Named) = ToSet(s1) \union ToSet(s2) \union ToSet(s3)
  <2>1. ToSet((s1 \o s2) \o s3) = ToSet(s1 \o s2) \union ToSet(s3)
        /\ ToSet(s1 \o s2) = ToSet(s1) \union ToSet(s2)
    BY <1>2, <1>5, <1>6, <1>8, <1>9 DEF s2
  <2> QED BY <1>7, <2>1
<1>11. ToSet(s1) = {dfAnswer.files[i].path : i \in 1..m}
  <2>1. \A x : x \in ToSet(s1) <=> \E i \in 1..m : s1[i] = x
    BY <1>5, OwnElements
  <2> QED BY <1>5, <2>1
<1>12. ToSet(s3) = SkippedSince(dfAnswer, before)
  <2> DEFINE k == n - before
             w == dfAnswer.skipped
  <2>1. k \in Nat /\ n = before + k
    BY <1>1, <1>3
  <2>2. \A x : x \in ToSet(s3) <=> \E i \in 1..k : s3[i] = x
    BY <1>6, OwnElements
  <2>3. \A i \in 1..k : s3[i] = w[before + i]
    BY <1>6
  <2>4. SkippedSince(dfAnswer, before) = {w[i] : i \in (before + 1)..n}
    BY DEF SkippedSince
  <2> HIDE DEF k, w, before, n
  <2>5. \A i \in 1..k : before + i \in (before + 1)..n
    BY <1>1, <2>1
  <2>6. \A i \in (before + 1)..n : i - before \in 1..k /\ before + (i - before) = i
    BY <1>1, <2>1
  <2>7. ASSUME NEW x PROVE x \in ToSet(s3) <=> x \in {w[i] : i \in (before + 1)..n}
    <3>1. x \in ToSet(s3) => x \in {w[i] : i \in (before + 1)..n}
      BY <2>2, <2>3, <2>5
    <3>2. ASSUME NEW i \in (before + 1)..n, x = w[i] PROVE x \in ToSet(s3)
      <4>1. i - before \in 1..k /\ s3[i - before] = w[i]
        BY <2>3, <2>6
      <4> QED BY <2>2, <3>2, <4>1
    <3> QED BY <3>1, <3>2
  <2>8. ToSet(s3) = {w[i] : i \in (before + 1)..n}
    BY <2>7
  <2> QED BY <2>4, <2>8
<1>13. ToSet(Named) = NamedBy(dfAnswer, before)
  BY <1>10, <1>11, <1>12 DEF NamedBy, s2
<1>14. Len(Named) = Names(dfAnswer, before)
  <2>1. Names(dfAnswer, before) = m + Len(s2) + n - before
    BY DEF Names, s2
  <2>2. Len(s2) \in Nat
    BY <1>2, LenProperties DEF s2
  <2>3. Len(Named) = (m + Len(s2)) + (n - before)
    BY <1>5, <1>6, <1>7, <1>8
  <2> HIDE DEF m, n, before
  <2> QED BY <1>1, <1>3, <1>4, <2>1, <2>2, <2>3 DEF m
<1> QED BY <1>13, <1>14 DEF NamesAll

InAnswer == {"ensure", "staged", "unstaged", "untracked", "pack", "answered"}
HadContent(p) == dfIndex[p] # Absent => \E c \in Contents : <<p, c>> \in dfSeen
SeenSinceBegun == dfStep # "idle" => Seen(dfTree) \subseteq dfSeen
StaleIsOut ==
    /\ dfStep \in {"detect", "classify"} => dfSel.deleted = {}
    /\ dfStep = "choose" => \A c \in ToSet(dfChanges) : HadContent(c.path)
    /\ dfStep \in InAnswer \union {"choose"} =>
           \A p \in dfSel.deleted \union RenameSources(dfChanges) : HadContent(p)
IndexIsSeen ==
    dfStep \in {"staged", "unstaged", "untracked", "pack"} =>
        \A p \in ToSet(dfSel.paths) : dfIndex[p] # Absent => <<p, dfIndex[p]>> \in dfSeen
AnswerIsSeen ==
    dfStep = "answered" =>
        /\ NamesAll(dfAnswer)
        /\ \A k \in 1..Len(dfAnswer.files) :
              <<dfAnswer.files[k].path, dfAnswer.files[k].content>> \in dfSeen
ChangesCounted ==
    /\ dfStep \in {"validate", "changes"} => dfAsked # <<>>
    /\ dfStep = "classify" => dfSel.detected = Len(dfChanges) /\ dfSel.skipped = <<>>
    /\ dfStep \in InAnswer \union {"choose"} /\ dfAsked = <<>> =>
           dfSel.detected <= Len(dfChanges) + dfSel.filtered + dfSel.beyond + Len(dfSel.skipped)
DiffFits == UsedBytes <= MaxDiffBytes
DiffInv == /\ DfTypes /\ SeenSinceBegun /\ StaleIsOut /\ IndexIsSeen /\ AnswerIsSeen
           /\ ChangesCounted /\ DiffFits

LEMMA DiffInvGives == DiffInv => DiffIsCurrent
<1> SUFFICES ASSUME DiffInv, dfStep = "answered" PROVE DiffIsCurrent
  BY DEF DiffIsCurrent
<1>1. ToSet(Named) = ToSet(dfSel.paths) /\ Len(Named) = Len(dfSel.paths)
  BY NamedIsAll DEF DiffInv, AnswerIsSeen
<1>2. DOMAIN dfAnswer.files = 1..Len(dfAnswer.files)
  <2> DEFINE D == DiffFiles
  <2> HIDE DEF D
  <2>1. dfAnswer.files \in Seq(D)
    BY DEF DiffInv, AnswerIsSeen, NamesAll, DiffAnswers, D
  <2> QED BY <2>1, LenProperties
<1>3. \A i \in DOMAIN dfAnswer.files :
          <<dfAnswer.files[i].path, dfAnswer.files[i].content>> \in dfSeen
  BY <1>2 DEF DiffInv, AnswerIsSeen
<1>4. \A p \in dfSel.deleted \union ({c.from : c \in ToSet(dfChanges)} \ {""}) :
          dfIndex[p] # Absent => \E c \in Contents : <<p, c>> \in dfSeen
  BY DEF DiffInv, StaleIsOut, InAnswer, RenameSources, HadContent
<1>5. dfAsked = <<>> => dfSel.detected <= Len(dfChanges) + dfSel.filtered + dfSel.beyond
                                          + Len(dfSel.skipped)
  BY DEF DiffInv, ChangesCounted, InAnswer
<1>6. UsedBytes <= MaxDiffBytes
  BY DEF DiffInv, DiffFits
<1> QED BY <1>1, <1>3, <1>4, <1>5, <1>6 DEF DiffIsCurrent

LEMMA NothingUsed == ASSUME NEW s, s = <<>> PROVE SumFunction([i \in DOMAIN s |-> s[i].bytes]) = 0
<1> DEFINE g == [i \in DOMAIN s |-> s[i].bytes]
<1>1. DOMAIN g = {} /\ Summands(g, {})
  BY FS_EmptySet DEF Summands
<1> HIDE DEF g
<1>2. SumFunction(g) = 0
  BY <1>1, SumFunctionIsSum, SumIsNatural
<1> QED BY <1>2 DEF g

LEMMA UsedIsNatural ==
    ASSUME NEW s \in Seq(Sections)
    PROVE  LET g == [i \in DOMAIN s |-> s[i].bytes] IN
           /\ Len(s) \in Nat /\ DOMAIN g = 1..Len(s) /\ Summands(g, 1..Len(s))
           /\ SumFunction(g) = SumOver(g, 1..Len(s)) /\ SumFunction(g) \in Nat
<1> DEFINE D == Sections
           n == Len(s)
           g == [i \in DOMAIN s |-> s[i].bytes]
<1>1. \A d \in D : d.bytes \in Nat
  BY DEF Sections
<1> HIDE DEF D
<1>2. n \in Nat /\ DOMAIN s = 1..n /\ \A i \in 1..n : s[i] \in D
  BY LenProperties DEF D
<1>3. DOMAIN g = 1..n /\ \A i \in 1..n : g[i] \in Nat
  BY <1>1, <1>2
<1>4. Summands(g, 1..n)
  BY <1>2, <1>3, FS_Interval DEF Summands
<1> HIDE DEF g
<1>5. SumFunction(g) = SumOver(g, 1..n) /\ SumOver(g, 1..n) \in Nat
  BY <1>3, <1>4, SumFunctionIsSum, SumIsNatural
<1> QED BY <1>2, <1>3, <1>4, <1>5 DEF g

\* A section more adds its bytes.
LEMMA SectionAdds ==
    ASSUME NEW s \in Seq(Sections), NEW x \in Sections
    PROVE  LET t == Append(s, x) IN
           SumFunction([i \in DOMAIN t |-> t[i].bytes])
             = SumFunction([i \in DOMAIN s |-> s[i].bytes]) + x.bytes
<1> DEFINE t == Append(s, x)
           n == Len(s)
           g == [i \in DOMAIN s |-> s[i].bytes]
           h == [i \in DOMAIN t |-> t[i].bytes]
           D == Sections
<1> HIDE DEF D
<1>1. /\ t \in Seq(D) /\ n \in Nat /\ Len(t) = n + 1
      /\ (\A i \in 1..n : t[i] = s[i]) /\ t[n + 1] = x
  BY OneMore DEF D
<1> HIDE DEF t
<1>2. DOMAIN g = 1..n /\ Summands(g, 1..n) /\ SumFunction(g) = SumOver(g, 1..n)
  BY UsedIsNatural
<1>3. DOMAIN h = 1..(n + 1) /\ Summands(h, 1..(n + 1)) /\ SumFunction(h) = SumOver(h, 1..(n + 1))
  BY <1>1, UsedIsNatural DEF D
<1>4. DOMAIN s = 1..n /\ DOMAIN t = 1..(n + 1)
  BY <1>2, <1>3
<1>5. h[n + 1] = x.bytes /\ \A i \in 1..n : h[i] = g[i]
  BY <1>1, <1>4
<1>6. n + 1 \in 1..(n + 1) /\ (1..(n + 1)) \ {n + 1} = 1..n
  BY <1>1
<1> HIDE DEF g, h, n
<1>7. SumOver(h, 1..(n + 1)) = h[n + 1] + SumOver(h, (1..(n + 1)) \ {n + 1})
  BY <1>3, <1>6, SumWithout
<1>8. SumOver(h, 1..n) = SumOver(g, 1..n)
  <2>1. Summands(h, 1..n)
    BY <1>2, <1>3, <1>5 DEF Summands
  <2> QED BY <1>5, <2>1, SumSame
<1>9. SumOver(g, 1..n) \in Nat /\ h[n + 1] \in Nat
  BY <1>2, <1>3, <1>6, SumIsNatural DEF Summands
<1>10. SumFunction(h) = SumFunction(g) + x.bytes
  <2> DEFINE m == n + 1
             N == 1..n
             M == 1..m
  <2>1. M \ {m} = N
    BY <1>6
  <2>2. SumOver(h, M) = h[m] + SumOver(h, M \ {m})
    BY <1>7
  <2>3. SumFunction(g) = SumOver(g, N) /\ SumFunction(h) = SumOver(h, M)
        /\ SumOver(h, N) = SumOver(g, N) /\ h[m] = x.bytes
    BY <1>2, <1>3, <1>5, <1>8
  <2>4. SumOver(g, N) \in Nat /\ h[m] \in Nat
    BY <1>9
  <2> HIDE DEF m, N, M
  <2>5. SumOver(h, M \ {m}) = SumOver(h, N)
    BY <2>1, Zenon
  <2> QED BY <2>2, <2>3, <2>4, <2>5
<1> QED BY <1>10 DEF g, h, t

LEMMA SplitInThree ==
    ASSUME NEW T, NEW s \in Seq(T), NEW A, NEW B, A \subseteq B
    PROVE  /\ Len(s) = Len(Within(s, A)) + Len(Within(s, B \ A)) + Len(Within(s, ToSet(s) \ B))
           /\ Len(Within(s, A)) \in Nat /\ Len(Within(s, B \ A)) \in Nat
           /\ Len(Within(s, ToSet(s) \ B)) \in Nat
<1> DEFINE n == Len(s)
           K(S) == {k \in 1..n : s[k] \in S}
           C == ToSet(s) \ B
<1>1. n \in Nat /\ \A i \in 1..n : s[i] \in ToSet(s)
  BY OwnElements
<1>2. \A S : Len(Within(s, S)) = Cardinality(K(S)) /\ Len(Within(s, S)) \in Nat
  BY WithinHas, WithinLeaves
<1> HIDE DEF n
<1>3. IsFiniteSet(1..n) /\ Cardinality(1..n) = n
  BY <1>1, FS_Interval
<1>4. \A S : IsFiniteSet(K(S))
  BY <1>3, FS_Subset
<1> DEFINE a == K(A)
           b == K(B \ A)
           c == K(C)
<1>5. a \intersect b = {} /\ (a \union b) \intersect c = {} /\ (a \union b) \union c = 1..n
  BY <1>1
<1>6. IsFiniteSet(a) /\ IsFiniteSet(b) /\ IsFiniteSet(c)
  BY <1>4
<1>7. /\ Len(Within(s, A)) = Cardinality(a) /\ Len(Within(s, B \ A)) = Cardinality(b)
      /\ Len(Within(s, C)) = Cardinality(c)
      /\ Len(Within(s, A)) \in Nat /\ Len(Within(s, B \ A)) \in Nat /\ Len(Within(s, C)) \in Nat
  BY <1>2
<1> HIDE DEF a, b, c, K
<1>8. /\ IsFiniteSet(a \union b)
      /\ Cardinality(a \union b) = Cardinality(a) + Cardinality(b) - Cardinality(a \intersect b)
  BY <1>6, FS_Union
<1>9. Cardinality((a \union b) \union c)
        = Cardinality(a \union b) + Cardinality(c) - Cardinality((a \union b) \intersect c)
  BY <1>6, <1>8, FS_Union
<1>10. Cardinality({}) = 0
  BY FS_EmptySet
<1>11. n = Cardinality(a) + Cardinality(b) + Cardinality(c)
  <2>1. Cardinality(a) \in Nat /\ Cardinality(b) \in Nat /\ Cardinality(c) \in Nat
    BY <1>7
  <2>2. Cardinality(a \union b) = Cardinality(a) + Cardinality(b)
    <3>1. Cardinality(a \intersect b) = 0
      BY <1>5, <1>10
    <3> QED BY <1>8, <2>1, <3>1
  <2>3. Cardinality((a \union b) \union c) = Cardinality(a \union b) + Cardinality(c)
    <3>1. Cardinality((a \union b) \intersect c) = 0
      BY <1>5, <1>10
    <3> QED BY <1>9, <2>1, <2>2, <3>1
  <2> QED BY <1>3, <1>5, <2>2, <2>3
<1> QED BY <1>7, <1>11 DEF n

LEMMA TreeIsTyped ==
    ASSUME DfTypes, NEW p \in DfPaths
    PROVE  /\ dfTree.work[p] \in Indexed \union {Link} /\ dfTree.staged[p] \in Indexed
           /\ dfTree.head[p] \in Indexed /\ dfIndex[p] \in Indexed
           /\ Regular(dfTree.work[p]) => dfTree.work[p] \in Contents
           /\ dfIndex[p] # Absent => dfIndex[p] \in Contents
  BY DEF DfTypes, Regular, Indexed

LEMMA RemovedHolds ==
    ASSUME DfTypes, NEW P
    PROVE  /\ Removed(P) \in [DfPaths -> Indexed]
           /\ \A p \in DfPaths : Removed(P)[p] = dfIndex[p] \/ Removed(P)[p] = Absent
           /\ \A p \in DfPaths : p \in P => Removed(P)[p] = Absent
<1>1. \A p \in DfPaths : dfIndex[p] \in Indexed
  BY DEF DfTypes
<1>2. Absent \in Indexed
  BY DEF Indexed
<1> QED BY <1>1, <1>2 DEF Removed

LEMMA NoSelectionTyped ==
    /\ NoSelection \in Selections /\ NoSelection.deleted = {} /\ NoSelection.skipped = <<>>
    /\ NoSelection.paths = <<>> /\ NoSelection.filtered = 0 /\ NoSelection.beyond = 0
    /\ <<>> \in Seq(GitChanges) /\ <<>> \in Seq(Sections)
<1>1. \A D : <<>> \in Seq(D)
  OBVIOUS
<1> QED BY <1>1 DEF NoSelection, Selections

LEMMA SourcesArePaths ==
    ASSUME NEW s \in Seq(GitChanges)
    PROVE  RenameSources(s) \subseteq DfPaths /\ \A c \in ToSet(s) : c.path \in DfPaths
<1>1. ToSet(s) \subseteq GitChanges
  BY OwnElements
<1>2. \A c \in GitChanges : c.path \in DfPaths /\ c.from \in DfPaths \union {""}
  BY DEF GitChanges
<1> QED BY <1>1, <1>2 DEF RenameSources

LEMMA DiffStarts == DiffInit => DiffInv
<1> SUFFICES ASSUME DiffInit PROVE DiffInv
  OBVIOUS
<1>1. dfTree \in [head : [DfPaths -> Indexed], staged : [DfPaths -> Indexed],
                  work : [DfPaths -> Indexed \union {Link}]]
  <2>1. Contents \union {Absent, Link} = Indexed \union {Link}
    BY DEF Indexed
  <2>2. DiffTrees \subseteq [head : [DfPaths -> Indexed], staged : [DfPaths -> Indexed],
                             work : [DfPaths -> Indexed \union {Link}]]
    BY <2>1, DiffAssumption DEF Indexed
  <2>3. dfTree \in DiffTrees
    BY DEF DiffInit
  <2> QED BY <2>2, <2>3
<1>2. /\ dfIndex = dfTree.head /\ dfStep = "idle" /\ dfAsked = <<>> /\ dfChanges = <<>>
      /\ dfSel = NoSelection /\ dfDiff = <<>>
  BY DEF DiffInit
<1>3. <<>> \in Seq(DfPaths)
  OBVIOUS
<1>4. dfIndex \in [DfPaths -> Indexed]
  BY <1>1, <1>2
<1>5. DfTypes
  BY <1>1, <1>2, <1>3, <1>4, NoSelectionTyped DEF DfTypes
<1>6. UsedBytes = 0 /\ MaxDiffBytes \in Nat
  BY <1>2, NothingUsed, DiffAssumption DEF UsedBytes
<1>7. SeenSinceBegun /\ StaleIsOut /\ IndexIsSeen /\ AnswerIsSeen /\ ChangesCounted /\ DiffFits
  BY <1>2, <1>6 DEF SeenSinceBegun, StaleIsOut, IndexIsSeen, AnswerIsSeen, ChangesCounted, DiffFits, InAnswer
<1> QED BY <1>5, <1>7 DEF DiffInv

\* The tree or the index moves on while the call stays where it is.
LEMMA WorldMovesOn ==
    ASSUME DiffInv, UNCHANGED <<dfStep, callVars>>, DfTypes',
           dfStep # "idle" => dfSeen \subseteq dfSeen' /\ Seen(dfTree)' \subseteq dfSeen',
           \A p \in DfPaths : dfIndex'[p] \in {dfIndex[p], Absent, dfTree.work[p]}
    PROVE  DiffInv'
<1>0. DfTypes /\ UNCHANGED <<dfAsked, dfChanges, dfSel, dfDiff, dfAnswer, dfStep>>
  BY DEF DiffInv, callVars
<1>1. CASE dfStep = "idle"
  <2>1. DiffFits'
    BY <1>0 DEF DiffInv, DiffFits, UsedBytes
  <2> QED BY <1>0, <1>1, <2>1 DEF DiffInv, SeenSinceBegun, StaleIsOut, IndexIsSeen, AnswerIsSeen,
                                  ChangesCounted, InAnswer
<1>2. CASE dfStep # "idle"
  <2>1. SeenSinceBegun' /\ ChangesCounted' /\ DiffFits'
    BY <1>0, <1>2 DEF DiffInv, SeenSinceBegun, ChangesCounted, DiffFits, UsedBytes
  <2>2. \A p \in DfPaths : <<p, dfTree.work[p]>> \in dfSeen
    BY <1>2 DEF DiffInv, SeenSinceBegun, Seen
  <2>3. ASSUME NEW p \in DfPaths, dfIndex'[p] # Absent
        PROVE  /\ dfIndex'[p] \in Contents
               /\ dfIndex'[p] = dfIndex[p] \/ <<p, dfIndex'[p]>> \in dfSeen
    BY <2>2, <2>3 DEF DfTypes, Indexed
  <2>4. ASSUME NEW p \in DfPaths, HadContent(p) PROVE HadContent(p)'
    BY <1>2, <2>3, <2>4 DEF HadContent
  <2>5. StaleIsOut'
    <3>1. \A p \in dfSel.deleted \union RenameSources(dfChanges) : p \in DfPaths
      BY <1>0, SourcesArePaths DEF DfTypes, Selections
    <3>2. \A c \in ToSet(dfChanges) : c.path \in DfPaths
      BY <1>0, SourcesArePaths DEF DfTypes
    <3>3. RenameSources(dfChanges)' = RenameSources(dfChanges)
      BY <1>0 DEF RenameSources
    <3>4. StaleIsOut
      BY DEF DiffInv
    <3>5. dfStep = "choose" => \A c \in ToSet(dfChanges) : HadContent(c.path)'
      BY <2>4, <3>2, <3>4 DEF StaleIsOut
    <3>6. dfStep \in InAnswer \union {"choose"} =>
              \A p \in dfSel.deleted \union RenameSources(dfChanges) : HadContent(p)'
      BY <2>4, <3>1, <3>4 DEF StaleIsOut
    <3> QED BY <1>0, <3>3, <3>4, <3>5, <3>6 DEF StaleIsOut
  <2>6. IndexIsSeen'
    <3>1. ToSet(dfSel.paths) \subseteq DfPaths
      BY <1>0, OwnElements DEF DfTypes, Selections
    <3> QED BY <1>0, <1>2, <2>3, <3>1 DEF IndexIsSeen, DiffInv
  <2>7. AnswerIsSeen'
    BY <1>0, <1>2 DEF AnswerIsSeen, DiffInv, NamesAll
  <2> QED BY <2>1, <2>5, <2>6, <2>7 DEF DiffInv
<1> QED BY <1>1, <1>2

LEMMA TreeBecomesKeeps ==
    ASSUME DiffInv, NEW tree, TreeBecomes(tree),
           tree \in [head : [DfPaths -> Indexed], staged : [DfPaths -> Indexed],
                     work : [DfPaths -> Indexed \union {Link}]]
    PROVE  DiffInv'
<1>1. /\ dfTree' = tree /\ dfSeen' = dfSeen \union Seen(tree) /\ dfIndex' = dfIndex
      /\ UNCHANGED <<dfStep, callVars>>
  BY DEF TreeBecomes
<1>2. DfTypes'
  BY <1>1 DEF DiffInv, DfTypes, callVars
<1>3. Seen(dfTree)' \subseteq dfSeen' /\ dfSeen \subseteq dfSeen'
  BY <1>1 DEF Seen
<1> QED BY <1>1, <1>2, <1>3, WorldMovesOn

LEMMA UserKeeps ==
    ASSUME DiffInv, \/ UserCommits
                    \/ \E p \in DfPaths : UserEdits(p) \/ UserStages(p)
    PROVE  DiffInv'
<1>0. DfTypes
  BY DEF DiffInv
<1> DEFINE trees == [head : [DfPaths -> Indexed], staged : [DfPaths -> Indexed],
                     work : [DfPaths -> Indexed \union {Link}]]
<1>1. CASE UserCommits
  <2>1. [dfTree EXCEPT !.head = dfTree.staged] \in trees
    BY <1>0 DEF DfTypes
  <2> QED BY <1>1, <2>1, TreeBecomesKeeps DEF UserCommits
<1>2. ASSUME NEW p \in DfPaths, UserEdits(p) PROVE DiffInv'
  <2>1. PICK c \in Contents \union {Absent, Link} : TreeBecomes([dfTree EXCEPT !.work[p] = c])
    BY <1>2 DEF UserEdits
  <2>2. [dfTree EXCEPT !.work[p] = c] \in trees
    <3>1. [dfTree.work EXCEPT ![p] = c] \in [DfPaths -> Indexed \union {Link}]
      BY <1>0, <2>1 DEF DfTypes, Indexed
    <3> QED BY <1>0, <3>1 DEF DfTypes
  <2> QED BY <2>1, <2>2, TreeBecomesKeeps
<1>3. ASSUME NEW p \in DfPaths, UserStages(p) PROVE DiffInv'
  <2>1. dfTree.work[p] \in Indexed
    BY <1>0, <1>3, TreeIsTyped DEF UserStages
  <2>2. [dfTree EXCEPT !.staged[p] = dfTree.work[p]] \in trees
    <3>1. [dfTree.staged EXCEPT ![p] = dfTree.work[p]] \in [DfPaths -> Indexed]
      BY <1>0, <2>1 DEF DfTypes
    <3> QED BY <1>0, <3>1 DEF DfTypes
  <2> QED BY <1>3, <2>2, TreeBecomesKeeps DEF UserStages
<1> QED BY <1>1, <1>2, <1>3

LEMMA IndexReadsTyped ==
    ASSUME DfTypes, NEW P, IndexReads(P)
    PROVE  /\ dfIndex' \in [DfPaths -> Indexed]
           /\ \A p \in DfPaths : dfIndex'[p] \in {dfIndex[p], Absent, dfTree.work[p]}
           /\ \A p \in DfPaths : p \in P => dfIndex'[p] \in {Absent, dfTree.work[p]}
<1>1. \A p \in DfPaths : /\ dfIndex[p] \in Indexed
                         /\ Regular(dfTree.work[p]) => dfTree.work[p] \in Indexed
  BY TreeIsTyped DEF Indexed
<1>2. Absent \in Indexed
  BY DEF Indexed
<1>3. \A p \in DfPaths :
        dfIndex'[p] = IF p \notin P THEN dfIndex[p]
                      ELSE IF Allowed(p) /\ Regular(dfTree.work[p]) THEN dfTree.work[p] ELSE Absent
  BY DEF IndexReads
<1>4. \A p \in DfPaths : dfIndex'[p] \in Indexed
  BY <1>1, <1>2, <1>3
<1>5. dfIndex' = [p \in DfPaths |-> dfIndex'[p]]
  BY DEF IndexReads
<1> HIDE DEF IndexReads
<1> QED BY <1>3, <1>4, <1>5

LEMMA IndexFollowsKeeps ==
    ASSUME DiffInv, NEW p \in DfPaths, IndexFollows(p) PROVE DiffInv'
<1>1. IndexReads({p}) /\ UNCHANGED <<dfTree, dfStep, dfEdits, dfSeen, callVars>>
  BY DEF IndexFollows
<1>2. DfTypes
  BY DEF DiffInv
<1>3. /\ dfIndex' \in [DfPaths -> Indexed]
      /\ \A q \in DfPaths : dfIndex'[q] \in {dfIndex[q], Absent, dfTree.work[q]}
  BY <1>1, <1>2, IndexReadsTyped
<1>4. DfTypes'
  BY <1>1, <1>2, <1>3 DEF DfTypes, callVars
<1>5. dfStep # "idle" => Seen(dfTree)' \subseteq dfSeen'
  BY <1>1 DEF DiffInv, SeenSinceBegun, Seen
<1> QED BY <1>1, <1>3, <1>4, <1>5, WorldMovesOn

LEMMA CallBeginsKeeps == DiffInv /\ CallBegins => DiffInv'
<1> SUFFICES ASSUME DiffInv, CallBegins PROVE DiffInv'
  OBVIOUS
<1>0. DfTypes
  BY DEF DiffInv
<1>1. PICK asked \in DiffRequests :
        dfAsked' = asked /\ dfStep' = IF asked = <<>> THEN "detect" ELSE "validate"
  BY DEF CallBegins
<1>2. /\ dfIndex' = Removed({p \in DfPaths : ~Allowed(p)})
      /\ dfChanges' = <<>> /\ dfSel' = NoSelection /\ dfDiff' = <<>>
      /\ dfSeen' = Seen(dfTree) /\ dfTree' = dfTree
  BY DEF CallBegins
<1>3. asked \in Seq(DfPaths)
  BY DiffAssumption
<1>4. dfIndex' \in [DfPaths -> Indexed]
  BY <1>0, <1>2, RemovedHolds
<1>5. DfTypes'
  BY <1>0, <1>1, <1>2, <1>3, <1>4, NoSelectionTyped DEF DfTypes
<1>6. SeenSinceBegun'
  BY <1>2 DEF SeenSinceBegun, Seen
<1>7. StaleIsOut' /\ IndexIsSeen' /\ AnswerIsSeen' /\ ChangesCounted'
  BY <1>1, <1>2, NoSelectionTyped DEF StaleIsOut, IndexIsSeen, AnswerIsSeen, ChangesCounted, InAnswer
<1>8. DiffFits'
  <2>1. MaxDiffBytes \in Nat
    BY DiffAssumption
  <2>2. UsedBytes' = SumFunction([i \in DOMAIN dfDiff' |-> dfDiff'[i].bytes])
    BY DEF UsedBytes
  <2> DEFINE s == dfDiff'
  <2>3. s = <<>>
    BY <1>2
  <2> HIDE DEF s
  <2>4. SumFunction([i \in DOMAIN s |-> s[i].bytes]) = 0
    BY <2>3, NothingUsed
  <2> QED BY <2>1, <2>2, <2>4 DEF DiffFits, s
<1> QED BY <1>5, <1>6, <1>7, <1>8 DEF DiffInv

LEMMA ValidatesKeeps == DiffInv /\ ExplicitValidates => DiffInv'
<1> SUFFICES ASSUME DiffInv, ExplicitValidates PROVE DiffInv'
  OBVIOUS
<1>0. DfTypes
  BY DEF DiffInv
<1>1. /\ \E P : dfIndex' = Removed(P)
      /\ dfStep = "validate" /\ dfStep' \in {"changes", "failed"}
      /\ UNCHANGED <<dfTree, dfSeen, dfAsked, dfChanges, dfSel, dfDiff, dfAnswer>>
  BY DEF ExplicitValidates, callVars
<1>2. dfIndex' \in [DfPaths -> Indexed]
  BY <1>0, <1>1, RemovedHolds
<1>3. DfTypes'
  BY <1>0, <1>1, <1>2 DEF DfTypes
<1>4. SeenSinceBegun' /\ DiffFits'
  BY <1>1 DEF DiffInv, SeenSinceBegun, Seen, DiffFits, UsedBytes
<1>5. StaleIsOut' /\ IndexIsSeen' /\ AnswerIsSeen' /\ ChangesCounted'
  BY <1>1 DEF DiffInv, StaleIsOut, IndexIsSeen, AnswerIsSeen, ChangesCounted, InAnswer
<1> QED BY <1>3, <1>4, <1>5 DEF DiffInv

LEMMA SelectedKeeps ==
    ASSUME NEW s \in Seq(GitChanges), NEW S
    PROVE  Within(s, S) \in Seq(GitChanges) /\ Len(Within(s, S)) \in Nat /\ Len(Within(s, S)) <= Len(s)
           /\ ToSet(Within(s, S)) = ToSet(s) \intersect S
<1> DEFINE C == GitChanges
<1> HIDE DEF C
<1>1. s \in Seq(C)
  BY DEF C
<1> QED BY <1>1, WithinLeaves DEF C

LEMMA ExplicitChangesKeeps == DiffInv /\ ExplicitChanges => DiffInv'
<1> SUFFICES ASSUME DiffInv, ExplicitChanges PROVE DiffInv'
  OBVIOUS
<1>0. DfTypes
  BY DEF DiffInv
<1> DEFINE changes == WorktreeChanges
           touching == Within(changes, {c \in ToSet(changes) :
                                          {c.path, c.from} \intersect ToSet(dfAsked) # {}})
           left == Within(touching, {c \in ToSet(touching) : SafeChange(c)})
           filtered == Len(touching) - Len(dfChanges')
<1>1. /\ dfStep = "changes" /\ dfStep' = "ensure" /\ dfChanges' = left
      /\ dfSel' = [NoSelection EXCEPT !.paths = dfAsked, !.filtered = filtered]
      /\ dfIndex' = Removed(RenameSources(dfChanges'))
      /\ UNCHANGED <<dfTree, dfSeen, dfAsked, dfDiff, dfAnswer>>
  BY DEF ExplicitChanges
<1>2. changes \in Seq(GitChanges)
  BY WorktreeTyped
<1> HIDE DEF changes
<1>3. touching \in Seq(GitChanges) /\ Len(touching) \in Nat
  BY <1>2, SelectedKeeps
<1> HIDE DEF touching
<1>4. left \in Seq(GitChanges) /\ Len(left) \in Nat /\ Len(left) <= Len(touching)
  BY <1>3, SelectedKeeps
<1> HIDE DEF left
<1>5. filtered \in Nat
  BY <1>1, <1>3, <1>4
<1> HIDE DEF filtered
<1>6. dfSel' \in Selections /\ dfSel'.deleted = {}
  BY <1>0, <1>1, <1>5, NoSelectionTyped DEF Selections, DfTypes
<1>7. /\ dfIndex' \in [DfPaths -> Indexed]
      /\ \A p \in RenameSources(dfChanges') : dfIndex'[p] = Absent
  BY <1>0, <1>1, <1>4, RemovedHolds, SourcesArePaths
<1>8. DfTypes'
  BY <1>0, <1>1, <1>4, <1>6, <1>7 DEF DfTypes
<1>9. SeenSinceBegun' /\ DiffFits'
  BY <1>1 DEF DiffInv, SeenSinceBegun, Seen, DiffFits, UsedBytes
<1>10. StaleIsOut'
  <2>1. \A p \in RenameSources(dfChanges') : HadContent(p)'
    BY <1>7 DEF HadContent
  <2>2. RenameSources(dfChanges)' = RenameSources(dfChanges')
    BY DEF RenameSources
  <2> QED BY <1>1, <1>6, <2>1, <2>2 DEF StaleIsOut
<1>11. IndexIsSeen' /\ AnswerIsSeen' /\ ChangesCounted'
  BY <1>1 DEF DiffInv, IndexIsSeen, AnswerIsSeen, ChangesCounted
<1> QED BY <1>8, <1>9, <1>10, <1>11 DEF DiffInv

LEMMA AutoDetectsKeeps == DiffInv /\ AutoDetects => DiffInv'
<1> SUFFICES ASSUME DiffInv, AutoDetects PROVE DiffInv'
  OBVIOUS
<1>0. DfTypes
  BY DEF DiffInv
<1>1. /\ dfStep = "detect" /\ dfChanges' = WorktreeChanges
      /\ dfSel' = [NoSelection EXCEPT !.detected = Len(dfChanges')]
      /\ dfStep' = IF dfChanges' = <<>> THEN "ensure" ELSE "classify"
      /\ UNCHANGED <<dfTree, dfIndex, dfSeen, dfAsked, dfDiff, dfAnswer>>
  BY DEF AutoDetects
<1>2. dfChanges' \in Seq(GitChanges) /\ Len(dfChanges') \in Nat
  BY <1>1, WorktreeTyped, OwnElements
<1>3. /\ dfSel' \in Selections /\ dfSel'.deleted = {} /\ dfSel'.detected = Len(dfChanges')
      /\ dfSel'.skipped = <<>> /\ dfSel'.filtered = 0 /\ dfSel'.beyond = 0
  BY <1>1, <1>2, NoSelectionTyped DEF Selections
<1>4. DfTypes'
  BY <1>0, <1>1, <1>2, <1>3 DEF DfTypes
<1>5. SeenSinceBegun' /\ DiffFits'
  BY <1>1 DEF DiffInv, SeenSinceBegun, Seen, DiffFits, UsedBytes
<1>6. StaleIsOut'
  <2>1. CASE dfChanges' = <<>>
    <3>1. ToSet(dfChanges') = {}
      BY <2>1 DEF ToSet
    <3>2. RenameSources(dfChanges)' = {}
      BY <3>1 DEF RenameSources
    <3> QED BY <1>1, <1>3, <2>1, <3>2 DEF StaleIsOut
  <2>2. CASE dfChanges' # <<>>
    BY <1>1, <1>3, <2>2 DEF StaleIsOut, InAnswer
  <2> QED BY <2>1, <2>2
<1>7. ChangesCounted'
  <2>1. CASE dfChanges' = <<>>
    <3>1. Len(dfChanges') = 0 /\ Len(dfSel'.skipped) = 0
      BY <1>3, <2>1
    <3> QED BY <1>1, <1>3, <2>1, <3>1 DEF ChangesCounted
  <2>2. CASE dfChanges' # <<>>
    BY <1>1, <1>3, <2>2 DEF ChangesCounted, InAnswer
  <2> QED BY <2>1, <2>2
<1>8. IndexIsSeen' /\ AnswerIsSeen'
  BY <1>1 DEF DiffInv, IndexIsSeen, AnswerIsSeen
<1> QED BY <1>4, <1>5, <1>6, <1>7, <1>8 DEF DiffInv

LEMMA AutoClassifiesKeeps == DiffInv /\ AutoClassifies => DiffInv'
<1> SUFFICES ASSUME DiffInv, AutoClassifies PROVE DiffInv'
  OBVIOUS
<1>0. DfTypes
  BY DEF DiffInv
<1> DEFINE changes == ToSet(dfChanges)
           safe == {c \in changes : SafeChange(c)}
           candidate == {c \in safe : DiffCandidate(c)}
           candidates == Within(dfChanges, candidate)
           skipped == Within(dfChanges, safe \ candidate)
           unsafe == Within(dfChanges, changes \ safe)
           taken == Least(Len(candidates), MaxDiffPaths)
           stale == {c.path : c \in (changes \ candidate)
                                     \union {d \in changes : dfTree.work[d.path] = Absent}}
           beyond == Len(candidates) - taken
           names == [i \in DOMAIN skipped |-> skipped[i].path]
<1>1. /\ dfStep = "classify" /\ dfStep' = "choose"
      /\ dfIndex' = Removed(stale \union RenameSources(dfChanges))
      /\ dfChanges' = SubSeq(candidates, 1, taken)
      /\ dfSel' = [dfSel EXCEPT !.skipped = names, !.filtered = Len(unsafe), !.beyond = beyond]
      /\ UNCHANGED <<dfTree, dfSeen, dfAsked, dfDiff, dfAnswer>>
  BY DEF AutoClassifies
<1>2. dfChanges \in Seq(GitChanges) /\ changes \subseteq GitChanges /\ candidate \subseteq safe
  BY <1>0, OwnElements DEF DfTypes
<1>3. \A p \in RenameSources(dfChanges) : p \in DfPaths
  BY <1>2, SourcesArePaths
<1>4. \A c \in changes : c.path \in DfPaths
  BY <1>2, SourcesArePaths
<1>5. \A c \in changes : c \in candidate \/ c.path \in stale
  OBVIOUS
<1>6. \A c \in changes : dfTree.work[c.path] = Absent => c.path \in stale
  OBVIOUS
<1>7. \A c \in candidate : Regular(dfTree.work[c.path]) \/ dfTree.work[c.path] = Absent
  BY DEF DiffCandidate, Deletion
<1>8. ToSet(candidates) = changes \intersect candidate /\ candidates \in Seq(GitChanges)
      /\ Len(candidates) \in Nat
  BY <1>2, SelectedKeeps
<1>9. /\ Len(dfChanges) = Len(candidates) + Len(skipped) + Len(unsafe)
      /\ Len(skipped) \in Nat /\ Len(unsafe) \in Nat /\ skipped \in Seq(GitChanges)
  <2>1. skipped \in Seq(GitChanges)
    BY <1>2, SelectedKeeps
  <2> DEFINE C == GitChanges
  <2>2. dfChanges \in Seq(C)
    BY <1>2
  <2> HIDE DEF C, changes, safe, candidate
  <2>3. /\ Len(dfChanges) = Len(Within(dfChanges, candidate)) + Len(Within(dfChanges, safe \ candidate))
                            + Len(Within(dfChanges, ToSet(dfChanges) \ safe))
        /\ Len(Within(dfChanges, safe \ candidate)) \in Nat
        /\ Len(Within(dfChanges, ToSet(dfChanges) \ safe)) \in Nat
    BY <1>2, <2>2, SplitInThree
  <2> QED BY <2>1, <2>3 DEF changes
<1> HIDE DEF candidates, skipped, unsafe, stale, candidate
<1>10. taken \in Nat /\ taken <= Len(candidates) /\ beyond \in Nat
  <2>1. MaxDiffPaths \in Nat
    BY DiffAssumption
  <2> QED BY <1>8, <2>1 DEF Least
<1> HIDE DEF taken
<1>11. /\ dfChanges' \in Seq(GitChanges) /\ Len(dfChanges') = taken
       /\ \A c \in ToSet(dfChanges') : c \in changes /\ c \in candidate
  <2> DEFINE C == ToSet(candidates)
             w == candidates
  <2>1. w \in Seq(C)
    BY <1>8, OwnElements
  <2> HIDE DEF C, w
  <2>2. \A i \in 1..taken : w[i] \in C
    BY <1>8, <1>10, <2>1, LenProperties DEF w
  <2>3. SubSeq(w, 1, taken) \in Seq(C) /\ Len(SubSeq(w, 1, taken)) = IF 1 <= taken THEN taken - 1 + 1 ELSE 0
    BY <1>10, <2>2, SubSeqProperties
  <2>4. dfChanges' \in Seq(C)
    BY <1>1, <2>3 DEF w
  <2>5. Len(dfChanges') = taken
    BY <1>1, <1>10, <2>3 DEF w
  <2>6. ToSet(dfChanges') \subseteq C
    BY <2>4, OwnElements
  <2>7. C \subseteq GitChanges /\ \A c \in C : c \in changes /\ c \in candidate
    BY <1>2, <1>8 DEF C
  <2>8. dfChanges' \in Seq(GitChanges)
    <3> DEFINE G == GitChanges
    <3> HIDE DEF G
    <3>1. C \subseteq G
      BY <2>7 DEF G
    <3> QED BY <2>4, <3>1, SeqOfMore DEF G
  <2> QED BY <2>5, <2>6, <2>7, <2>8
<1>12. names \in Seq(DfPaths) /\ Len(names) = Len(skipped)
  <2> DEFINE C == GitChanges
             n == Len(skipped)
  <2>1. \A c \in C : c.path \in DfPaths
    BY DEF GitChanges
  <2> HIDE DEF C
  <2>2. n \in Nat /\ DOMAIN skipped = 1..n /\ \A i \in 1..n : skipped[i] \in C
    BY <1>9, LenProperties DEF C
  <2>3. names \in [1..n -> DfPaths]
    BY <2>1, <2>2
  <2> HIDE DEF n, names
  <2>4. names \in Seq(DfPaths) /\ Len(names) = n
    BY <2>2, <2>3, SeqDef, LenProperties
  <2> QED BY <2>4 DEF n
<1> HIDE DEF names, beyond
<1>13. /\ dfSel' \in Selections /\ dfSel'.deleted = {} /\ dfSel'.skipped = names
       /\ dfSel'.filtered = Len(unsafe) /\ dfSel'.beyond = beyond /\ dfSel'.detected = Len(dfChanges)
  <2>1. dfSel \in Selections /\ dfSel.deleted = {} /\ dfSel.detected = Len(dfChanges)
    BY <1>0, <1>1 DEF DfTypes, DiffInv, StaleIsOut, ChangesCounted
  <2> QED BY <1>1, <1>9, <1>10, <1>12, <2>1 DEF Selections
<1>14. /\ dfIndex' \in [DfPaths -> Indexed]
       /\ \A p \in DfPaths : dfIndex'[p] = dfIndex[p] \/ dfIndex'[p] = Absent
       /\ \A p \in DfPaths : p \in stale \union RenameSources(dfChanges) => dfIndex'[p] = Absent
  BY <1>0, <1>1, RemovedHolds
<1>15. DfTypes'
  BY <1>0, <1>1, <1>11, <1>13, <1>14 DEF DfTypes
<1>16. SeenSinceBegun' /\ DiffFits'
  BY <1>1 DEF DiffInv, SeenSinceBegun, Seen, DiffFits, UsedBytes
<1>17. ASSUME NEW c \in ToSet(dfChanges') PROVE HadContent(c.path)'
  <2>1. c \in changes /\ c \in candidate /\ c.path \in DfPaths
    BY <1>4, <1>11
  <2>2. CASE dfTree.work[c.path] = Absent
    BY <1>6, <1>14, <2>1, <2>2 DEF HadContent
  <2>3. CASE Regular(dfTree.work[c.path])
    <3>1. dfTree.work[c.path] \in Contents
      BY <1>0, <2>1, <2>3, TreeIsTyped
    <3>2. <<c.path, dfTree.work[c.path]>> \in dfSeen
      BY <1>1, <2>1 DEF DiffInv, SeenSinceBegun, Seen
    <3> QED BY <1>1, <3>1, <3>2 DEF HadContent
  <2> QED BY <1>7, <2>1, <2>2, <2>3
<1>18. StaleIsOut'
  <2>1. ASSUME NEW p \in RenameSources(dfChanges') PROVE HadContent(p)'
    <3>1. p \in RenameSources(dfChanges)
      BY <1>11, <2>1 DEF RenameSources
    <3> QED BY <1>3, <1>14, <3>1 DEF HadContent
  <2>2. RenameSources(dfChanges)' = RenameSources(dfChanges')
    BY DEF RenameSources
  <2> QED BY <1>1, <1>13, <1>17, <2>1, <2>2 DEF StaleIsOut
<1>19. ChangesCounted'
  <2>1. dfSel'.detected = Len(dfChanges') + dfSel'.filtered + dfSel'.beyond + Len(dfSel'.skipped)
    <3>1. Len(dfChanges) = taken + beyond + Len(skipped) + Len(unsafe)
      BY <1>8, <1>9, <1>10 DEF beyond
    <3>2. /\ dfSel'.detected = Len(dfChanges) /\ Len(dfChanges') = taken
          /\ dfSel'.filtered = Len(unsafe) /\ dfSel'.beyond = beyond
          /\ Len(dfSel'.skipped) = Len(skipped)
      BY <1>11, <1>12, <1>13
    <3>3. /\ Len(skipped) \in Nat /\ Len(unsafe) \in Nat
          /\ taken \in Nat /\ beyond \in Nat
      BY <1>9, <1>10
    <3> DEFINE k == Len(skipped)
               u == Len(unsafe)
    <3>4. taken + beyond + k + u = taken + u + beyond + k
      BY <3>3
    <3> QED BY <3>1, <3>2, <3>4
  <2>2. dfSel'.detected \in Nat
    BY <1>13 DEF Selections
  <2>3. dfSel'.detected <= Len(dfChanges') + dfSel'.filtered + dfSel'.beyond + Len(dfSel'.skipped)
    BY <2>1, <2>2
  <2>4. dfStep' = "choose"
    BY <1>1
  <2> QED BY <2>3, <2>4 DEF ChangesCounted
<1>20. IndexIsSeen' /\ AnswerIsSeen'
  BY <1>1 DEF IndexIsSeen, AnswerIsSeen
<1> QED BY <1>15, <1>16, <1>18, <1>19, <1>20 DEF DiffInv

LEMMA AutoChoosesKeeps == DiffInv /\ AutoChooses => DiffInv'
<1> SUFFICES ASSUME DiffInv, AutoChooses PROVE DiffInv'
  OBVIOUS
<1>0. DfTypes
  BY DEF DiffInv
<1> DEFINE sel == ChoosesAll(dfSel, dfChanges)
<1>1. /\ dfStep = "choose" /\ dfStep' = "ensure" /\ dfSel' = sel
      /\ UNCHANGED <<dfTree, dfIndex, dfSeen, dfAsked, dfChanges, dfDiff, dfAnswer>>
  BY DEF AutoChooses
<1>2. /\ sel \in Selections
      /\ sel.deleted \subseteq dfSel.deleted \union {c.path : c \in ToSet(dfChanges)}
      /\ Len(sel.skipped) \in Nat /\ Len(sel.skipped) >= Len(dfSel.skipped)
      /\ sel.filtered = dfSel.filtered /\ sel.beyond = dfSel.beyond /\ sel.detected = dfSel.detected
  BY <1>0, ChoosesFits
<1> HIDE DEF sel
<1>3. DfTypes'
  BY <1>0, <1>1, <1>2 DEF DfTypes
<1>4. SeenSinceBegun' /\ DiffFits' /\ IndexIsSeen' /\ AnswerIsSeen'
  BY <1>1 DEF DiffInv, SeenSinceBegun, Seen, DiffFits, UsedBytes, IndexIsSeen, AnswerIsSeen
<1>5. StaleIsOut'
  <2>1. /\ \A c \in ToSet(dfChanges) : HadContent(c.path)
        /\ \A p \in dfSel.deleted \union RenameSources(dfChanges) : HadContent(p)
    BY <1>1 DEF DiffInv, StaleIsOut
  <2>2. \A p \in sel.deleted \union RenameSources(dfChanges) : HadContent(p)
    BY <1>2, <2>1
  <2>3. RenameSources(dfChanges)' = RenameSources(dfChanges) /\ \A p : HadContent(p)' = HadContent(p)
    BY <1>1 DEF RenameSources, HadContent
  <2>4. \A p \in sel.deleted \union RenameSources(dfChanges) : HadContent(p)'
    BY <1>1, <2>2 DEF HadContent
  <2> QED BY <1>1, <2>3, <2>4 DEF StaleIsOut
<1>6. ChangesCounted'
  <2>1. dfAsked = <<>> => dfSel.detected <= Len(dfChanges) + dfSel.filtered + dfSel.beyond + Len(dfSel.skipped)
    BY <1>1 DEF DiffInv, ChangesCounted
  <2>2. dfSel.detected \in Nat /\ dfSel.filtered \in Nat /\ dfSel.beyond \in Nat
        /\ Len(dfChanges) \in Nat /\ Len(dfSel.skipped) \in Nat
    BY <1>0, OwnElements DEF DfTypes, Selections
  <2>3. dfAsked = <<>> => sel.detected <= Len(dfChanges) + sel.filtered + sel.beyond + Len(sel.skipped)
    BY <1>2, <2>1, <2>2
  <2> QED BY <1>1, <2>3 DEF ChangesCounted
<1> QED BY <1>3, <1>4, <1>5, <1>6 DEF DiffInv

LEMMA CallEnsuresKeeps == DiffInv /\ CallEnsures => DiffInv'
<1> SUFFICES ASSUME DiffInv, CallEnsures PROVE DiffInv'
  OBVIOUS
<1>0. DfTypes
  BY DEF DiffInv
<1>1. /\ dfStep = "ensure" /\ dfStep' = "staged" /\ IndexReads(ToSet(dfSel.paths))
      /\ UNCHANGED <<dfTree, dfSeen, dfAsked, dfChanges, dfSel, dfDiff, dfAnswer>>
  BY DEF CallEnsures, callVars
<1>2. /\ dfIndex' \in [DfPaths -> Indexed]
      /\ \A p \in DfPaths : dfIndex'[p] \in {dfIndex[p], Absent, dfTree.work[p]}
      /\ \A p \in DfPaths : p \in ToSet(dfSel.paths) => dfIndex'[p] \in {Absent, dfTree.work[p]}
  BY <1>0, <1>1, IndexReadsTyped
<1>3. DfTypes'
  BY <1>0, <1>1, <1>2 DEF DfTypes
<1>4. \A p \in DfPaths : <<p, dfTree.work[p]>> \in dfSeen
  BY <1>1 DEF DiffInv, SeenSinceBegun, Seen
<1>5. SeenSinceBegun' /\ DiffFits' /\ AnswerIsSeen' /\ ChangesCounted'
  BY <1>1 DEF DiffInv, SeenSinceBegun, Seen, DiffFits, UsedBytes, AnswerIsSeen, ChangesCounted, InAnswer
<1>6. IndexIsSeen'
  <2>1. ToSet(dfSel.paths) \subseteq DfPaths
    BY <1>0, OwnElements DEF DfTypes, Selections
  <2> QED BY <1>1, <1>2, <1>4, <2>1 DEF IndexIsSeen
<1>7. StaleIsOut'
  <2>1. \A p \in dfSel.deleted \union RenameSources(dfChanges) : p \in DfPaths /\ HadContent(p)
    BY <1>0, <1>1, SourcesArePaths DEF DiffInv, StaleIsOut, DfTypes, Selections, InAnswer
  <2>2. ASSUME NEW p \in DfPaths, HadContent(p) PROVE HadContent(p)'
    <3>1. CASE dfIndex'[p] \in {dfIndex[p], Absent}
      BY <1>1, <2>2, <3>1 DEF HadContent
    <3>2. CASE dfIndex'[p] = dfTree.work[p] /\ dfIndex'[p] # Absent
      <4>1. dfIndex'[p] \in Indexed
        BY <1>2
      <4>2. dfTree.work[p] \in Contents
        BY <3>2, <4>1 DEF Indexed
      <4> QED BY <1>1, <1>4, <4>2 DEF HadContent
    <3> QED BY <1>2, <3>1, <3>2
  <2>3. RenameSources(dfChanges)' = RenameSources(dfChanges)
    BY <1>1 DEF RenameSources
  <2> QED BY <1>1, <2>1, <2>2, <2>3 DEF StaleIsOut
<1> QED BY <1>3, <1>5, <1>6, <1>7 DEF DiffInv

LEMMA CutFits ==
    ASSUME NEW clean \in Nat, NEW room \in Nat, room > 0
    PROVE  TruncatedSize(clean, 0..clean, room) \in Nat /\ TruncatedSize(clean, 0..clean, room) <= room
<1>1. CASE clean <= room
  BY <1>1 DEF TruncatedSize
<1>2. CASE ~(clean <= room) /\ room <= Marker
  BY <1>2 DEF TruncatedSize
<1>3. CASE ~(clean <= room) /\ ~(room <= Marker)
  <2> DEFINE m == room - Marker
             s == {b \in 0..clean : b <= m} \union {0}
  <2>1. m \in Nat /\ m > 0 /\ m <= clean /\ Marker = 3
    BY <1>3 DEF Marker
  <2>2. TruncatedSize(clean, 0..clean, room) = AtOrBefore(0..clean, m) + Marker
    BY <1>3 DEF TruncatedSize
  <2>3. AtOrBefore(0..clean, m) = Max(s)
    BY DEF AtOrBefore
  <2> HIDE DEF m
  <2>4. m \in s /\ \A b \in s : b \in Nat /\ b <= m
    BY <2>1
  <2> HIDE DEF s
  <2>5. Max(s) = m
    <3>1. Max(s) = CHOOSE x \in s : \A y \in s : x >= y
      BY DEF Max
    <3>2. \E x \in s : \A y \in s : x >= y
      BY <2>1, <2>4
    <3>3. Max(s) \in s /\ \A y \in s : Max(s) >= y
      BY <3>1, <3>2
    <3> DEFINE x == Max(s)
    <3>4. x \in Nat /\ x <= m /\ x >= m
      BY <2>4, <3>3
    <3> HIDE DEF x
    <3>5. x = m
      BY <2>1, <3>4
    <3> QED BY <3>5 DEF x
  <2> QED BY <2>1, <2>2, <2>3, <2>5 DEF m
<1> QED BY <1>1, <1>2, <1>3

LEMMA SizesAreNatural ==
    ASSUME DfTypes
    PROVE  /\ \A c : BytesOf(c) \in Nat \/ c \notin Indexed \union {Link}
           /\ \A a, b \in Indexed \union {Link} : DiffBetween(a, b) \in Nat
<1>1. ASSUME NEW c \in Indexed \union {Link} PROVE BytesOf(c) \in Nat
  <2>1. CASE ~Regular(c)
    BY <2>1 DEF BytesOf
  <2>2. CASE Regular(c)
    <3>1. c \in Contents
      BY <2>2 DEF Regular, Indexed
    <3> DEFINE g == ChunksIn[c]
               n == Len(g)
    <3>2. g \in Seq(Nat) /\ n \in Nat
      BY <3>1, ChunksAreSizes
    <3> HIDE DEF g
    <3>3. DOMAIN g = 1..n /\ \A i \in 1..n : g[i] \in Nat
      BY <3>2, LenProperties
    <3>4. Summands(g, 1..n)
      BY <3>2, <3>3, FS_Interval DEF Summands
    <3> HIDE DEF n
    <3>5. SumFunction(g) \in Nat
      BY <3>3, <3>4, SumFunctionIsSum, SumIsNatural
    <3> QED BY <2>2, <3>5 DEF BytesOf, g
  <2> QED BY <2>1, <2>2
<1>2. ASSUME NEW a \in Indexed \union {Link}, NEW b \in Indexed \union {Link}
      PROVE  DiffBetween(a, b) \in Nat
  <2>1. BytesOf(a) \in Nat /\ BytesOf(b) \in Nat
    BY <1>1
  <2> QED BY <2>1 DEF DiffBetween
<1> QED BY <1>1, <1>2

LEMMA RawIsNatural ==
    ASSUME DfTypes, NEW scope PROVE RawBytes(scope) \in Nat
<1> DEFINE size(p) == CASE scope = "staged" -> DiffBetween(dfTree.head[p], dfTree.staged[p])
                        [] scope = "unstaged" -> IF dfTree.staged[p] = Absent THEN 0
                                                 ELSE DiffBetween(dfTree.staged[p], dfTree.work[p])
                        [] OTHER -> BytesOf(dfTree.work[p])
           P == PathsOf(scope)
           g == [p \in P |-> size(p)]
<1>1. P \subseteq DfPaths
  <2>1. ToSet(dfChanges) \subseteq GitChanges
    BY OwnElements DEF DfTypes
  <2>2. \A c \in ToSet(dfChanges) : c.path \in DfPaths /\ c.from \in DfPaths \union {""}
    BY <2>1 DEF GitChanges
  <2>3. ASSUME NEW p \in P PROVE p \in DfPaths
    <3>1. \E c \in ToSet(dfChanges) : p = c.path \/ (p = c.from /\ p # "")
      BY <2>3 DEF PathsOf
    <3> QED BY <2>2, <3>1
  <2> QED BY <2>3
<1>2. IsFiniteSet(DfPaths)
  <2>1. DiffPaths \in Seq(DfPaths)
    BY DiffAssumption
  <2>2. Len(DiffPaths) \in Nat /\ DOMAIN DiffPaths = 1..Len(DiffPaths)
    BY <2>1, LenProperties
  <2>3. IsFiniteSet(DOMAIN DiffPaths)
    BY <2>2, FS_Interval
  <2>4. IsFiniteSet({DiffPaths[i] : i \in DOMAIN DiffPaths})
    BY <2>3, ImageIsFinite
  <2> QED BY <2>4 DEF DfPaths, ToSet
<1>3. IsFiniteSet(P)
  BY <1>1, <1>2, FS_Subset
<1>4. ASSUME NEW p \in P PROVE size(p) \in Nat
  <2>1. dfTree.work[p] \in Indexed \union {Link} /\ dfTree.staged[p] \in Indexed /\ dfTree.head[p] \in Indexed
    BY <1>1, TreeIsTyped
  <2>2. /\ DiffBetween(dfTree.head[p], dfTree.staged[p]) \in Nat
        /\ DiffBetween(dfTree.staged[p], dfTree.work[p]) \in Nat /\ BytesOf(dfTree.work[p]) \in Nat
    BY <2>1, SizesAreNatural
  <2> QED BY <2>2
<1>5. RawBytes(scope) = SumFunction(g)
  BY DEF RawBytes
<1> HIDE DEF P
<1>6. DOMAIN g = P /\ Summands(g, P)
  BY <1>3, <1>4 DEF Summands
<1> HIDE DEF g
<1>7. SumFunction(g) \in Nat
  BY <1>6, SumFunctionIsSum, SumIsNatural
<1> QED BY <1>5, <1>7

LEMMA CallDiffsKeeps ==
    ASSUME DiffInv, NEW scope, NEW next, CallDiffs(scope, next),
           \/ scope = "staged" /\ next = "unstaged"
           \/ scope = "unstaged" /\ next = "untracked"
           \/ scope = "untracked" /\ next = "pack"
    PROVE  DiffInv'
<1>0. DfTypes
  BY DEF DiffInv
<1> DEFINE raw == RawBytes(scope)
           cut == raw > MaxDiffBytes + Lookahead
           clean == IF cut THEN OmittedBytes ELSE raw
           room == Most(0, MaxDiffBytes - UsedBytes)
           text == IF room = 0 THEN 0 ELSE TruncatedSize(clean, 0..clean, room)
           short == cut \/ clean > room
           section == [scope |-> scope, bytes |-> text, truncated |-> short]
<1>1. /\ dfStep = scope /\ dfStep' = next
      /\ dfDiff' = IF raw = 0 THEN dfDiff ELSE Append(dfDiff, section)
      /\ UNCHANGED <<dfTree, dfIndex, dfSeen, dfAsked, dfChanges, dfSel, dfAnswer>>
  BY DEF CallDiffs
<1>2. MaxDiffBytes \in Nat /\ OmittedBytes \in Nat
  BY DiffAssumption
<1>3. raw \in Nat
  BY <1>0, RawIsNatural
<1>4. dfDiff \in Seq(Sections) /\ UsedBytes \in Nat /\ UsedBytes <= MaxDiffBytes
  BY <1>0, UsedIsNatural DEF DfTypes, UsedBytes, DiffInv, DiffFits
<1>5. clean \in Nat
  BY <1>2, <1>3
<1>6. room \in Nat /\ room = MaxDiffBytes - UsedBytes
  BY <1>2, <1>4 DEF Most
<1> HIDE DEF raw, clean, room
<1>7. text \in Nat /\ text <= room
  BY <1>5, <1>6, CutFits
<1>8. short \in BOOLEAN
  OBVIOUS
<1> HIDE DEF text, short
<1>9. section \in Sections
  BY <1>7, <1>8 DEF Sections
<1>10. dfDiff' \in Seq(Sections) /\ UsedBytes' <= MaxDiffBytes
  <2>1. CASE raw = 0
    BY <1>1, <1>4, <2>1 DEF UsedBytes
  <2>2. CASE raw # 0
    <3>1. dfDiff' = Append(dfDiff, section)
      BY <1>1, <2>2
    <3>2. section.bytes = text
      OBVIOUS
    <3> HIDE DEF section
    <3>3. dfDiff' \in Seq(Sections)
      <4> DEFINE D == Sections
      <4> HIDE DEF D
      <4> QED BY <1>4, <1>9, <3>1, OneMore DEF D
    <3> DEFINE t == Append(dfDiff, section)
    <3>4. SumFunction([i \in DOMAIN t |-> t[i].bytes])
            = SumFunction([i \in DOMAIN dfDiff |-> dfDiff[i].bytes]) + section.bytes
      BY <1>4, <1>9, SectionAdds
    <3>5. dfDiff' = t
      BY <3>1
    <3> HIDE DEF t
    <3>6. UsedBytes' = SumFunction([i \in DOMAIN t |-> t[i].bytes])
      BY <3>5 DEF UsedBytes
    <3>7. UsedBytes' = UsedBytes + text
      BY <3>2, <3>4, <3>6 DEF UsedBytes
    <3> QED BY <1>2, <1>4, <1>6, <1>7, <3>3, <3>7
  <2> QED BY <2>1, <2>2
<1>11. DfTypes'
  BY <1>0, <1>1, <1>10 DEF DfTypes
<1>12. SeenSinceBegun' /\ DiffFits' /\ AnswerIsSeen' /\ IndexIsSeen'
  BY <1>1, <1>10 DEF DiffInv, SeenSinceBegun, Seen, DiffFits, AnswerIsSeen, IndexIsSeen
<1>13. ChangesCounted'
  BY <1>1 DEF DiffInv, ChangesCounted, InAnswer
<1>14. StaleIsOut'
  <2>1. RenameSources(dfChanges)' = RenameSources(dfChanges)
    BY <1>1 DEF RenameSources
  <2>2. \A p \in dfSel.deleted \union RenameSources(dfChanges) : HadContent(p)
    BY <1>1 DEF DiffInv, StaleIsOut, InAnswer
  <2>3. \A p \in dfSel.deleted \union RenameSources(dfChanges) : HadContent(p)'
    BY <1>1, <2>2 DEF HadContent
  <2> QED BY <1>1, <2>1, <2>3 DEF StaleIsOut
<1> QED BY <1>11, <1>12, <1>13, <1>14 DEF DiffInv

LEMMA CallPacksKeeps == DiffInv /\ CallPacks => DiffInv'
<1> SUFFICES ASSUME DiffInv, CallPacks PROVE DiffInv'
  OBVIOUS
<1>0. DfTypes
  BY DEF DiffInv
<1> DEFINE answer == PacksEach(PackStart, dfSel.paths).answer
<1>1. /\ dfStep = "pack" /\ dfStep' = "answered" /\ dfAnswer' = answer
      /\ UNCHANGED <<dfTree, dfIndex, dfSeen, dfAsked, dfChanges, dfSel, dfDiff>>
  BY DEF CallPacks, PackStart
<1>2. NamesAll(answer) /\ ServesIndexed(answer, ToSet(dfSel.paths))
  BY <1>0, PacksNameAll
<1> HIDE DEF answer
<1>3. NamesAll(dfAnswer)'
  BY <1>1, <1>2 DEF NamesAll
<1>4. ASSUME NEW k \in 1..Len(answer.files)
      PROVE  <<answer.files[k].path, answer.files[k].content>> \in dfSeen
  <2>1. answer.files[k] \in DiffFiles
    <3> DEFINE D == DiffFiles
    <3> HIDE DEF D
    <3>1. answer.files \in Seq(D)
      BY <1>2 DEF NamesAll, DiffAnswers, D
    <3>2. answer.files[k] \in D
      BY <3>1, LenProperties
    <3> QED BY <3>2 DEF D
  <2>2. /\ answer.files[k].path \in ToSet(dfSel.paths)
        /\ dfIndex[answer.files[k].path] = answer.files[k].content
    BY <1>2 DEF ServesIndexed
  <2>3. answer.files[k].content # Absent
    BY <2>1, ContentsArePlain DEF DiffFiles
  <2> QED BY <1>1, <2>2, <2>3 DEF DiffInv, IndexIsSeen
<1>5. AnswerIsSeen'
  BY <1>1, <1>3, <1>4 DEF AnswerIsSeen
<1>6. DfTypes'
  BY <1>0, <1>1 DEF DfTypes
<1>7. SeenSinceBegun' /\ DiffFits' /\ IndexIsSeen' /\ ChangesCounted'
  BY <1>1 DEF DiffInv, SeenSinceBegun, Seen, DiffFits, UsedBytes, IndexIsSeen, ChangesCounted, InAnswer
<1>8. StaleIsOut'
  <2>1. RenameSources(dfChanges)' = RenameSources(dfChanges)
    BY <1>1 DEF RenameSources
  <2>2. \A p \in dfSel.deleted \union RenameSources(dfChanges) : HadContent(p)
    BY <1>1 DEF DiffInv, StaleIsOut, InAnswer
  <2>3. \A p \in dfSel.deleted \union RenameSources(dfChanges) : HadContent(p)'
    BY <1>1, <2>2 DEF HadContent
  <2> QED BY <1>1, <2>1, <2>3 DEF StaleIsOut
<1> QED BY <1>5, <1>6, <1>7, <1>8 DEF DiffInv

LEMMA CallFailsKeeps == DiffInv /\ (CallFails \/ UNCHANGED dfVars) => DiffInv'
<1> SUFFICES ASSUME DiffInv, CallFails \/ UNCHANGED dfVars PROVE DiffInv'
  OBVIOUS
<1>1. UNCHANGED <<dfTree, dfIndex, dfSeen, dfAsked, dfChanges, dfSel, dfDiff, dfAnswer>>
  BY DEF CallFails, dfVars, callVars
<1>2. (dfStep # "idle" /\ dfStep' = "failed") \/ dfStep' = dfStep
  BY DEF CallFails, dfVars
<1>3. DfTypes' /\ DiffFits' /\ SeenSinceBegun'
  BY <1>1, <1>2 DEF DiffInv, DfTypes, DiffFits, UsedBytes, SeenSinceBegun, Seen
<1>4. CASE dfStep' = "failed"
  BY <1>1, <1>3, <1>4 DEF DiffInv, StaleIsOut, IndexIsSeen, AnswerIsSeen, ChangesCounted, InAnswer
<1>5. CASE dfStep' = dfStep
  BY <1>1, <1>3, <1>5 DEF DiffInv, StaleIsOut, IndexIsSeen, AnswerIsSeen, ChangesCounted,
                          RenameSources, HadContent, NamesAll
<1> QED BY <1>2, <1>4, <1>5

\* For any paths, trees and limits, while Git, the tree and the index move under a call
\* of repo_diff_context: what it serves was in the tree since the call began, what it
\* reports as gone is out of the index, every path chosen is named once, every change
\* is counted, and the diff keeps to its size.
THEOREM DiffIsCurrentHolds == DiffSpec => []DiffIsCurrent
<1>1. DiffInv /\ [DiffNext]_dfVars => DiffInv'
  <2> SUFFICES ASSUME DiffInv, [DiffNext]_dfVars PROVE DiffInv'
    OBVIOUS
  <2>1. ASSUME CallDiffs("staged", "unstaged") \/ CallDiffs("unstaged", "untracked")
               \/ CallDiffs("untracked", "pack")
        PROVE  DiffInv'
    BY <2>1, CallDiffsKeeps
  <2>2. ASSUME NEW p \in DfPaths, UserEdits(p) \/ UserStages(p) \/ IndexFollows(p) PROVE DiffInv'
    BY <2>2, UserKeeps, IndexFollowsKeeps
  <2> QED BY <2>1, <2>2, CallBeginsKeeps, ValidatesKeeps, ExplicitChangesKeeps, AutoDetectsKeeps,
             AutoClassifiesKeeps, AutoChoosesKeeps, CallEnsuresKeeps, CallPacksKeeps,
             CallFailsKeeps, UserKeeps DEF DiffNext
<1> QED BY <1>1, DiffStarts, DiffInvGives, PTL DEF DiffSpec

-----------------------------------------------------------------------------
(* repo_search: the snippet that shows a match                              *)

\* Where the window of room bytes begins.
WindowStart(size, from, to, room) ==
    LET centered == Most(0, from - (room - (to - from)) \div 2)
    IN  IF centered + room > size THEN size - room ELSE centered

\* A match of a text, and room for it that is less than the text.
Roomy(size, from, to, room) ==
    /\ size \in Nat /\ from \in Nat /\ to \in Nat /\ room \in Nat
    /\ from < to /\ to <= size /\ room < size /\ to - from <= room

LEMMA HalfOf == ASSUME NEW n \in Nat PROVE n \div 2 \in Nat /\ 2 * (n \div 2) <= n /\ n <= 2 * (n \div 2) + 1
  OBVIOUS

LEMMA WindowIs ==
    ASSUME NEW size, NEW from, NEW to, NEW room, Roomy(size, from, to, room)
    PROVE  LET s == WindowStart(size, from, to, room) IN
           /\ Window(size, from, to, room) = [start |-> s, end |-> s + room]
           /\ s \in Nat /\ s <= from /\ to <= s + room /\ s + room <= size
<1> DEFINE len == to - from
           half == (room - len) \div 2
           c == Most(0, from - half)
           s == WindowStart(size, from, to, room)
<1>0. /\ size \in Nat /\ from \in Nat /\ to \in Nat /\ room \in Nat
      /\ from < to /\ to <= size /\ room < size /\ to - from <= room
  BY DEF Roomy
<1>1. half \in Nat /\ 2 * half <= room - len /\ room - len <= 2 * half + 1
  BY <1>0, HalfOf
<1>2. s = IF c + room > size THEN size - room ELSE c
  BY DEF WindowStart
<1>3. len \in Nat /\ from + len = to /\ len >= 1
  BY <1>0
<1>4. Window(size, from, to, room) =
        IF len >= room
        THEN LET end == Least(from + room, size)
             IN  [start |-> IF from + room > size THEN size - room ELSE from, end |-> end]
        ELSE LET end == Most(to, c + room)
                 start == IF c + room < to THEN end - room ELSE c
             IN  IF end > size THEN [start |-> Most(0, size - room), end |-> size]
                               ELSE [start |-> Most(0, start), end |-> end]
  BY <1>0 DEF Window
<1> HIDE DEF half, len
<1>5. c \in Nat /\ c <= from /\ to <= c + room
  BY <1>0, <1>1, <1>3 DEF Most
<1>6. s \in Nat /\ s <= from /\ to <= s + room /\ s + room <= size
  <2> HIDE DEF c, s
  <2> QED BY <1>0, <1>2, <1>5
<1>7. CASE len >= room
  <2>1. len = room
    BY <1>0, <1>3, <1>7 DEF len
  <2>2. half = 0
    BY <1>0, <1>1, <2>1
  <2>3. c = from
    BY <1>0, <2>2 DEF Most
  <2>4. s = from /\ from + room = to
    BY <1>0, <1>2, <1>3, <2>1, <2>3
  <2>5. Window(size, from, to, room) = [start |-> from, end |-> to]
    BY <1>0, <1>4, <1>7, <2>4 DEF Least
  <2> QED BY <1>6, <2>4, <2>5
<1>8. CASE ~(len >= room)
  <2>1. Most(to, c + room) = c + room
    <3> HIDE DEF c
    <3> QED BY <1>0, <1>5 DEF Most
  <2>2. ~(c + room < to)
    <3> HIDE DEF c
    <3> QED BY <1>0, <1>5
  <2>3. Window(size, from, to, room) =
          IF c + room > size THEN [start |-> Most(0, size - room), end |-> size]
                             ELSE [start |-> Most(0, c), end |-> c + room]
    <3> HIDE DEF c
    <3> QED BY <1>4, <1>8, <2>1, <2>2
  <2>4. Most(0, c) = c /\ Most(0, size - room) = size - room /\ (size - room) + room = size
    <3> HIDE DEF c
    <3> QED BY <1>0, <1>5 DEF Most
  <2>5. Window(size, from, to, room) = [start |-> s, end |-> s + room]
    <3> HIDE DEF c, s
    <3> QED BY <1>2, <2>3, <2>4
  <2> QED BY <1>6, <2>5
<1> QED BY <1>7, <1>8

\* The more room, the more of both ends.
LEMMA WindowGrows ==
    ASSUME NEW size, NEW from, NEW to, NEW room,
           Roomy(size, from, to, room), Roomy(size, from, to, room + 3)
    PROVE  LET s == WindowStart(size, from, to, room)
               t == WindowStart(size, from, to, room + 3) IN
           /\ s = 0 => t = 0
           /\ s + room = size => t + room + 3 = size
           /\ s > 0 /\ s + room = size => t > 0
<1> DEFINE len == to - from
           q == room + 3
           h == (room - len) \div 2
           k == (q - len) \div 2
           c == Most(0, from - h)
           d == Most(0, from - k)
           s == WindowStart(size, from, to, room)
           t == WindowStart(size, from, to, q)
<1>0. /\ size \in Nat /\ from \in Nat /\ to \in Nat /\ room \in Nat
      /\ from < to /\ to <= size /\ q < size /\ to - from <= room /\ q = room + 3
  BY DEF Roomy
<1>1. h \in Nat /\ 2 * h <= room - len /\ room - len <= 2 * h + 1
  BY <1>0, HalfOf
<1>2. k \in Nat /\ 2 * k <= q - len /\ q - len <= 2 * k + 1
  BY <1>0, HalfOf
<1>3. /\ s = IF c + room > size THEN size - room ELSE c
      /\ t = IF d + q > size THEN size - q ELSE d
  <2> HIDE DEF q
  <2> QED BY DEF WindowStart
<1>4. len \in Nat
  BY <1>0
<1>5. h <= k /\ k <= h + 2
  <2> HIDE DEF h, k, len
  <2> QED BY <1>0, <1>1, <1>2, <1>4
<1> HIDE DEF h, k, len, q
<1>6. c \in Nat /\ d \in Nat /\ d <= c /\ c <= d + 2
  BY <1>0, <1>1, <1>2, <1>5 DEF Most
<1> HIDE DEF c, d, s, t
<1>7. /\ s = 0 => t = 0
      /\ s + room = size => t + q = size
      /\ s > 0 /\ s + room = size => t > 0
  BY <1>0, <1>3, <1>6
<1>8. t + q = size <=> t + room + 3 = size
  <2>1. t \in Int
    BY <1>0, <1>3, <1>6
  <2> QED BY <1>0, <2>1
<1> QED BY <1>7, <1>8 DEF s, t, q

LEMMA WindowSettles ==
    ASSUME NEW size, NEW from, NEW to, NEW most,
           size \in Nat, from \in Nat, to \in Nat, most \in Nat, size > most,
           from < to, to <= size, to - from <= most - 6
    PROVE  \E s, e \in Nat :
              /\ SettledWindow(size, from, to, most) = [start |-> s, end |-> e]
              /\ s <= from /\ to <= e /\ e <= size
              /\ (e - s) + Markers(size, [start |-> s, end |-> e]) <= most
<1> DEFINE r == most - 6
           s == WindowStart(size, from, to, r)
           t == WindowStart(size, from, to, r + 3)
           v == [start |-> s, end |-> s + r]
           w == [start |-> t, end |-> t + (r + 3)]
           N1(x) == Again(size, from, to, most, x)
<1>0. /\ Roomy(size, from, to, r) /\ Roomy(size, from, to, r + 3) /\ r \in Nat
      /\ most - 2 * Marker = r /\ most - 3 = r + 3
  BY DEF Roomy, Marker
<1>1. /\ Window(size, from, to, r) = v
      /\ s \in Nat /\ s <= from /\ to <= s + r /\ s + r <= size
  BY <1>0, WindowIs
<1>2. /\ Window(size, from, to, r + 3) = w
      /\ t \in Nat /\ t <= from /\ to <= t + (r + 3) /\ t + (r + 3) <= size
  BY <1>0, WindowIs
<1>3. /\ s = 0 => t = 0
      /\ s + r = size => t + r + 3 = size
      /\ s > 0 /\ s + r = size => t > 0
  BY <1>0, WindowGrows
<1> HIDE DEF s, t
<1>4. SettledWindow(size, from, to, most) = N1(N1(N1(N1(v))))
  BY <1>0, <1>1 DEF SettledWindow
<1>5. Markers(size, v) = (IF s > 0 THEN 3 ELSE 0) + (IF s + r < size THEN 3 ELSE 0)
  BY DEF Markers, Marker
<1>6. Markers(size, w) = (IF t > 0 THEN 3 ELSE 0) + (IF t + (r + 3) < size THEN 3 ELSE 0)
  BY DEF Markers, Marker
<1>7. r < size /\ r + 3 < size /\ r \in Nat /\ r + 6 = most
  BY <1>0 DEF Roomy
<1> HIDE DEF r
<1>8. CASE s > 0 /\ s + r < size
  <2>1. Markers(size, v) = 6
    BY <1>5, <1>8
  <2>2. N1(v) = v
    BY <1>0, <1>1, <2>1 DEF Again, r
  <2>3. SettledWindow(size, from, to, most) = v
    BY <1>4, <2>2
  <2>4. s + r \in Nat /\ (s + r - s) + 6 <= most
    BY <1>1, <1>7
  <2>5. (s + r - s) + Markers(size, v) <= most
    <3> HIDE DEF v
    <3> QED BY <2>1, <2>4
  <2> DEFINE e == s + r
  <2>6. v = [start |-> s, end |-> e] /\ (e - s) + Markers(size, v) <= most /\ e \in Nat
    <3>1. v = [start |-> s, end |-> e]
      OBVIOUS
    <3>2. e \in Nat /\ e - s = r
      BY <1>1, <1>7
    <3> HIDE DEF v, e
    <3> QED BY <1>7, <2>1, <3>1, <3>2
  <2>7. to <= e /\ e <= size
    BY <1>1
  <2> HIDE DEF e, v
  <2> QED BY <1>1, <2>3, <2>6, <2>7
<1>9. CASE ~(s > 0 /\ s + r < size)
  <2>1. Markers(size, v) = 3
    BY <1>1, <1>5, <1>7, <1>9
  <2>2. Markers(size, w) = 3
    <3>1. CASE s = 0
      BY <1>2, <1>3, <1>6, <1>7, <3>1
    <3>2. CASE s > 0 /\ s + r = size
      BY <1>2, <1>3, <1>6, <1>7, <3>2
    <3> QED BY <1>1, <1>7, <1>9, <3>1, <3>2
  <2>3. N1(v) = w /\ N1(w) = w
    BY <1>0, <1>2, <2>1, <2>2 DEF Again
  <2>4. SettledWindow(size, from, to, most) = w
    BY <1>4, <2>3
  <2>5. t + (r + 3) \in Nat /\ ((t + (r + 3)) - t) + Markers(size, w) <= most
    BY <1>2, <1>7, <2>2 DEF r
  <2> QED BY <1>2, <2>4, <2>5
<1> QED BY <1>8, <1>9

LEMMA SnippetShows ==
    ASSUME NEW size, NEW from, NEW to, NEW most,
           size \in Nat, from \in Nat, to \in Nat, most \in Nat, size > most,
           from < to, to <= size, to - from <= most - 6
    PROVE  LET shown == Snippet(size, 0..size, from, to, most) IN
           shown.start <= from /\ to <= shown.end /\ ~shown.cut
<1>1. PICK s \in Nat, e \in Nat :
              /\ SettledWindow(size, from, to, most) = [start |-> s, end |-> e]
              /\ s <= from /\ to <= e /\ e <= size
              /\ (e - s) + Markers(size, [start |-> s, end |-> e]) <= most
  BY WindowSettles
<1> DEFINE A == {b \in 0..size : b >= s} \union {size}
           B == {b \in 0..size : b <= e} \union {0}
<1>2. Min(A) = s
  <2>1. s \in A /\ \A y \in A : s <= y
    BY <1>1
  <2>2. \A x \in A : (\A y \in A : x <= y) => x = s
    BY <1>1, <2>1
  <2> HIDE DEF A
  <2> QED BY <2>1, <2>2 DEF Min
<1>3. Max(B) = e
  <2>1. e \in B /\ \A y \in B : e >= y
    BY <1>1
  <2>2. \A x \in B : (\A y \in B : x >= y) => x = e
    BY <1>1, <2>1
  <2> HIDE DEF B
  <2> QED BY <2>1, <2>2 DEF Max
<1>4. AtOrAfter(size, 0..size, s) = s /\ AtOrBefore(0..size, e) = e
  BY <1>2, <1>3 DEF AtOrAfter, AtOrBefore
<1>5. Most(s, e) = e
  BY <1>1 DEF Most
<1> DEFINE shown == Snippet(size, 0..size, from, to, most)
           bytes == e - s + Markers(size, [start |-> s, end |-> e])
<1>6. shown = [start |-> s, end |-> e, cut |-> bytes > most,
               bytes |-> IF bytes > most THEN TruncatedSize(bytes, 0..bytes, most) ELSE bytes]
  BY <1>1, <1>4, <1>5 DEF Snippet
<1>7. ~(bytes > most)
  <2>1. bytes \in Int
    BY <1>1 DEF Markers, Marker
  <2> HIDE DEF bytes
  <2>2. bytes <= most
    BY <1>1 DEF bytes
  <2> QED BY <2>1, <2>2
<1>8. shown.start = s /\ shown.end = e /\ shown.cut = (bytes > most)
  <2> HIDE DEF bytes, shown
  <2> QED BY <1>6
<1>9. shown.start <= from /\ to <= shown.end /\ ~shown.cut
  <2> HIDE DEF shown, bytes
  <2> QED BY <1>1, <1>7, <1>8
<1> QED BY <1>9

RepoLine == [bytes : Nat, from : Nat, to : Nat]
RepoText == [lines : Seq(RepoLine), grams : BOOLEAN]
AnyText == RepoTexts \union {GoneText}

LEMMA TextsAreTyped ==
    ASSUME NEW text \in AnyText
    PROVE  /\ text.lines \in Seq(RepoLine) /\ text.grams \in BOOLEAN
           /\ text # GoneText => \A n \in DOMAIN text.lines :
                 /\ text.lines[n].to <= text.lines[n].bytes
                 /\ Matching(text.lines[n]) => text.grams
<1>1. text \in RepoText
  BY RepoAssumption DEF AnyText, RepoText, RepoLine
<1>2. text.lines \in Seq(RepoLine) /\ text.grams \in BOOLEAN
  <2> DEFINE S == Seq(RepoLine)
  <2> HIDE DEF S
  <2>1. text \in [lines : S, grams : BOOLEAN]
    BY <1>1 DEF RepoText, S
  <2> QED BY <2>1 DEF S
<1>3. text # GoneText => text \in RepoTexts
  BY DEF AnyText
<1> QED BY <1>2, <1>3, RepoAssumption

LEMMA LineIsTyped ==
    ASSUME NEW lines \in Seq(RepoLine)
    PROVE  /\ Len(lines) \in Nat /\ DOMAIN lines = 1..Len(lines)
           /\ \A n \in DOMAIN lines :
                lines[n].bytes \in Nat /\ lines[n].from \in Nat /\ lines[n].to \in Nat
<1> DEFINE R == RepoLine
<1>1. \A l \in R : l.bytes \in Nat /\ l.from \in Nat /\ l.to \in Nat
  BY DEF RepoLine
<1> HIDE DEF R
<1>2. Len(lines) \in Nat /\ DOMAIN lines = 1..Len(lines) /\ \A n \in 1..Len(lines) : lines[n] \in R
  BY LenProperties DEF R
<1> QED BY <1>1, <1>2

\* Lines as summands.
Sizes(lines, S) == [n \in S |-> lines[n].bytes + 1]
LEMMA LineBytesAdd ==
    ASSUME NEW lines \in Seq(RepoLine), NEW S, S \subseteq DOMAIN lines
    PROVE  /\ Summands(Sizes(lines, S), S)
           /\ LineBytes(lines, S) = SumOver(Sizes(lines, S), S)
           /\ LineBytes(lines, S) \in Nat
<1> DEFINE g == Sizes(lines, S)
<1>1. IsFiniteSet(S)
  <2> DEFINE N == Len(lines)
  <2>1. N \in Nat /\ S \subseteq 1..N
    BY LineIsTyped
  <2> HIDE DEF N
  <2>2. IsFiniteSet(1..N)
    BY <2>1, FS_Interval
  <2> QED BY <2>1, <2>2, FS_Subset
<1>2. \A n \in S : g[n] \in Nat
  <2>1. \A n \in S : lines[n].bytes \in Nat
    BY LineIsTyped
  <2> QED BY <2>1 DEF Sizes
<1>3. DOMAIN g = S /\ LineBytes(lines, S) = SumFunction(g)
  BY DEF Sizes, LineBytes
<1> HIDE DEF g
<1>4. Summands(g, S)
  BY <1>1, <1>2 DEF Summands
<1>5. SumFunction(g) = SumOver(g, S) /\ SumOver(g, S) \in Nat
  BY <1>3, <1>4, SumFunctionIsSum, SumIsNatural
<1> QED BY <1>3, <1>4, <1>5 DEF g

\* The first of some numbers.
LEMMA MinOfNumbers ==
    ASSUME NEW S, S \subseteq Nat, S # {}
    PROVE  Min(S) \in S /\ \A y \in S : Min(S) <= y
<1>1. PICK x \in S : \A y \in S : ~(y < x)
  BY LeastNatural
<1>2. \A y \in S : x <= y
  BY <1>1
<1> QED BY <1>1, <1>2 DEF Min

LEMMA FoundShows ==
    ASSUME NEW f, NEW text \in AnyText, text # GoneText,
           NEW n \in DOMAIN text.lines, Matching(text.lines[n])
    PROVE  LET m == Found(f, text.lines, n)
               line == text.lines[n] IN
           /\ m.path = f /\ m.line = n
           /\ line.to - line.from <= SnippetBytes - 2 * Marker => m.shows
<1> DEFINE lines == text.lines
           first == ContextFrom(lines, n)
           prefix == LineBytes(lines, first..(n - 1))
           size == prefix + lines[n].bytes
           from == prefix + lines[n].from
           to == prefix + lines[n].to
           whole == [start |-> 0, end |-> size, cut |-> FALSE, bytes |-> size]
           shown == IF size <= SnippetBytes THEN whole
                    ELSE Snippet(size, 0..size, from, to, SnippetBytes)
           shows == shown.start <= from /\ to <= shown.end /\ ~shown.cut
           m == Found(f, lines, n)
<1>0. lines \in Seq(RepoLine)
  BY TextsAreTyped
<1>1. m = [path |-> f, line |-> n, bytes |-> shown.bytes, shows |-> shows]
  BY DEF Found
<1>2. n \in Nat /\ n \in 1..Len(lines) /\ DOMAIN lines = 1..Len(lines) /\ Len(lines) \in Nat
  BY <1>0, LineIsTyped
<1>3. first \in 1..n
  <2> DEFINE before == {i \in 1..(n - 1) : /\ n - i <= ContextLines
                                            /\ \A j \in i..(n - 1) : ~Matching(lines[j])}
  <2>1. before \union {n} \subseteq 1..n
    BY <1>2
  <2>2. first = Min(before \union {n})
    BY DEF ContextFrom
  <2> HIDE DEF before
  <2>3. Min(before \union {n}) \in before \union {n}
    <3>1. before \union {n} \subseteq Nat
      BY <1>2, <2>1
    <3> QED BY <3>1, MinOfNumbers
  <2> QED BY <2>1, <2>2, <2>3
<1> HIDE DEF first
<1>4. prefix \in Nat
  <2>1. first..(n - 1) \subseteq DOMAIN lines
    BY <1>2, <1>3
  <2> QED BY <1>0, <2>1, LineBytesAdd
<1> HIDE DEF prefix
<1>5. /\ lines[n].bytes \in Nat /\ lines[n].from \in Nat /\ lines[n].to \in Nat
      /\ lines[n].from < lines[n].to /\ lines[n].to <= lines[n].bytes
  <2>1. lines[n].bytes \in Nat /\ lines[n].from \in Nat /\ lines[n].to \in Nat
    BY <1>0, LineIsTyped
  <2>2. lines[n].to <= lines[n].bytes
    BY TextsAreTyped
  <2> QED BY <2>1, <2>2 DEF Matching
<1>6. /\ size \in Nat /\ from \in Nat /\ to \in Nat /\ from < to /\ to <= size
      /\ to - from = lines[n].to - lines[n].from
  BY <1>4, <1>5
<1>7. SnippetBytes \in Nat
  BY RepoAssumption
<1> HIDE DEF size, from, to, lines
<1>8. ASSUME to - from <= SnippetBytes - 6 PROVE shows
  <2>1. CASE size <= SnippetBytes
    <3>1. shown = whole
      BY <2>1
    <3>2. whole.start = 0 /\ whole.end = size /\ whole.cut = FALSE
      OBVIOUS
    <3> HIDE DEF shown, whole
    <3> QED BY <1>6, <3>1, <3>2
  <2>2. CASE ~(size <= SnippetBytes)
    <3>1. shown = Snippet(size, 0..size, from, to, SnippetBytes)
      BY <2>2
    <3>2. size > SnippetBytes
      BY <1>6, <1>7, <2>2
    <3> HIDE DEF shown
    <3> QED BY <1>6, <1>7, <1>8, <3>1, <3>2, SnippetShows
  <2> QED BY <2>1, <2>2
<1>9. m.path = f /\ m.line = n /\ m.shows = shows
  <2> HIDE DEF m, shown, shows
  <2> QED BY <1>1
<1>10. SnippetBytes - 2 * Marker = SnippetBytes - 6
  BY <1>7 DEF Marker
<1> HIDE DEF shows, m, shown
<1> QED BY <1>6, <1>8, <1>9, <1>10 DEF m, lines

\* The matches of a text are among those found.
HasMatches(f, text, found) ==
    \A n \in DOMAIN text.lines : Matching(text.lines[n]) =>
        \E m \in found : /\ m.path = f /\ m.line = n
                         /\ text.lines[n].to - text.lines[n].from <= SnippetBytes - 2 * Marker => m.shows
IsList(s) == s \in Seq(ToSet(s))

LEMMA FoundInHas ==
    ASSUME NEW f, NEW text \in AnyText
    PROVE  /\ IsList(FoundIn(f, text))
           /\ text # GoneText => HasMatches(f, text, ToSet(FoundIn(f, text)))
<1> DEFINE lines == text.lines
           upto == [n \in DOMAIN lines |-> n]
           K == {n \in DOMAIN lines : Matching(lines[n])}
           hits == Within(upto, K)
           r == FoundIn(f, text)
<1>0. lines \in Seq(RepoLine) /\ Len(lines) \in Nat /\ DOMAIN lines = 1..Len(lines)
  <2>1. lines \in Seq(RepoLine)
    BY TextsAreTyped
  <2> QED BY <2>1, LineIsTyped
<1>1. r = [i \in DOMAIN hits |-> Found(f, lines, hits[i])]
  BY DEF FoundIn
<1>2. upto \in Seq(Nat) /\ ToSet(upto) = DOMAIN lines
  <2> DEFINE N == Len(lines)
  <2>1. upto = [n \in 1..N |-> n] /\ DOMAIN lines = 1..N
    BY <1>0
  <2> HIDE DEF N
  <2>2. N \in Nat
    BY <1>0 DEF N
  <2>3. [n \in 1..N |-> n] \in Seq(Nat)
    BY <2>2, SeqDef
  <2>4. ToSet([n \in 1..N |-> n]) = 1..N
    BY <2>2 DEF ToSet
  <2> QED BY <2>1, <2>3, <2>4
<1> HIDE DEF upto
<1>3. hits \in Seq(Nat) /\ Len(hits) \in Nat /\ ToSet(hits) = DOMAIN lines \intersect K
  BY <1>2, WithinLeaves
<1> HIDE DEF hits
<1>4. r \in Seq(ToSet(r)) /\ DOMAIN r = 1..Len(hits) /\ DOMAIN hits = 1..Len(hits)
  <2> DEFINE N == Len(hits)
  <2>1. N \in Nat /\ DOMAIN hits = 1..N
    BY <1>3, LenProperties
  <2> HIDE DEF N
  <2>2. r = [i \in 1..N |-> Found(f, lines, hits[i])]
    BY <1>1, <2>1
  <2> HIDE DEF r
  <2>3. DOMAIN r = 1..N
    BY <2>2
  <2>4. r = [i \in 1..N |-> r[i]]
    BY <2>2
  <2>5. \A i \in 1..N : r[i] \in ToSet(r)
    BY <2>3 DEF ToSet
  <2>6. r \in [1..N -> ToSet(r)]
    BY <2>4, <2>5
  <2> QED BY <2>1, <2>3, <2>6, SeqDef DEF N
<1>5. ASSUME NEW n \in DOMAIN lines, Matching(lines[n])
      PROVE  Found(f, lines, n) \in ToSet(r)
  <2>1. n \in ToSet(hits)
    BY <1>3, <1>5
  <2>2. PICK i \in DOMAIN hits : hits[i] = n
    BY <2>1 DEF ToSet
  <2>3. r[i] = Found(f, lines, n)
    BY <1>1, <2>2
  <2> HIDE DEF r
  <2> QED BY <1>4, <2>2, <2>3 DEF ToSet
<1>6. ASSUME text # GoneText PROVE HasMatches(f, text, ToSet(r))
  <2> SUFFICES ASSUME NEW n \in DOMAIN text.lines, Matching(text.lines[n])
               PROVE  \E m \in ToSet(r) :
                         /\ m.path = f /\ m.line = n
                         /\ text.lines[n].to - text.lines[n].from <= SnippetBytes - 2 * Marker => m.shows
    BY DEF HasMatches
  <2> HIDE DEF r
  <2> QED BY <1>5, <1>6, FoundShows
<1> QED BY <1>4, <1>6 DEF IsList

-----------------------------------------------------------------------------
(* The tools that walk the tree, and resources/list                         *)

Version == [text : AnyText, stamp : Nat]
Entry == [stamp : Nat, grams : BOOLEAN, ready : BOOLEAN]
\* An entry that is ready is older than the file or knows what it holds.
EntryTrue(e, file) ==
    e.ready => e.stamp <= file.stamp /\ (e.stamp = file.stamp => e.grams = file.text.grams)
TreeHolds ==
    /\ rtEdits \in Nat /\ rtFile \in [RepoPaths -> Version]
    /\ \A f \in RepoPaths : rtFile[f].stamp <= rtEdits + 1
    /\ rtEntry \in [RepoPaths -> Entry]
    /\ \A f \in RepoPaths : EntryTrue(rtEntry[f], rtFile[f])
    /\ rtReading # NoReading =>
          /\ rtReading.path \in RepoPaths /\ rtReading.entry \in Entry
          /\ EntryTrue(rtReading.entry, rtFile[rtReading.path])

\* What a call remembers of its beginning.
CallHolds ==
    /\ DOMAIN rtCall = DOMAIN NoRepoCall
    /\ rtCall.pc \in {"idle", "walk", "read", "answered"}
    /\ rtCall.pc # "idle" =>
          /\ rtCall.kind \in {"search", "list", "read"}
          /\ rtCall.pc = "read" => rtCall.kind = "search"
          /\ rtCall.at \in [RepoPaths -> Version]
          /\ \A f \in RepoPaths : rtCall.at[f].stamp <= rtFile[f].stamp
          /\ rtCall.kind = "search" =>
                /\ rtCall.known \in [RepoPaths -> Entry]
                /\ \A f \in RepoPaths : EntryTrue(rtCall.known[f], rtFile[f])

\* What an answer has of a file that stood still: of the files behind it in the walk.
HasIn(kind, f, text, found) ==
    IF kind = "list" THEN [path |-> f] \in found
    ELSE TextBytes(text) <= RepoMaxFileBytes => HasMatches(f, text, found)
Done(i) == Kept(RepoFiles[i]) =>
    HasIn(rtCall.kind, RepoFiles[i], rtFile[RepoFiles[i]].text, ToSet(rtCall.found))
WalkHolds ==
    rtCall.pc # "idle" /\ rtCall.kind # "read" =>
        /\ IsList(rtCall.found)
        /\ rtCall.pc \in {"walk", "read"} =>
              /\ rtCall.next \in 1..Len(RepoFiles) /\ Len(rtCall.found) < RepoMaxResults
              /\ \A i \in 1..(rtCall.next - 1) : Done(i)
        /\ rtCall.pc = "answered" /\ Len(rtCall.found) < RepoMaxResults =>
              \A i \in 1..Len(RepoFiles) : Done(i)
ReadHolds ==
    rtCall.pc # "idle" /\ rtCall.kind = "read" =>
        /\ rtCall.pc = "answered"
        /\ \E f \in RepoPaths, range \in ReadRequests :
              /\ rtCall.range = range
              /\ rtCall.found = <<[path |-> f, bytes |-> BytesRead(range, rtCall.at[f].text.lines)]>>
PagesHold ==
    /\ rtPage.pc \in {"idle", "paging", "listed"}
    /\ DOMAIN rtPage = DOMAIN NoPaging
    /\ rtPage.pc = "idle" => rtPage = NoPaging
    /\ rtPage.same \in BOOLEAN /\ rtPage.offset \in Nat
    /\ rtPage.pc = "paging" /\ rtPage.same =>
          rtPage.offset \in 1..Len(Resources) /\ rtPage.got = SubSeq(Resources, 1, rtPage.offset)
    /\ rtPage.pc = "listed" /\ rtPage.same => rtPage.got = Resources
RepoInv == TreeHolds /\ CallHolds /\ WalkHolds /\ ReadHolds /\ PagesHold

LEMMA RepoStarts == RepoToolsInit => RepoInv
<1> SUFFICES ASSUME RepoToolsInit PROVE RepoInv
  OBVIOUS
<1>1. TreeHolds
  <2>1. rtFile \in [RepoPaths -> Version] /\ \A f \in RepoPaths : rtFile[f].stamp = 1
    <3>1. \A f \in RepoPaths : rtFile[f] \in [text : RepoTexts, stamp : {1}]
      BY DEF RepoToolsInit
    <3> DEFINE T == RepoTexts
    <3>2. T \subseteq AnyText
      BY DEF AnyText
    <3> HIDE DEF T
    <3>3. rtFile \in [RepoPaths -> [text : T, stamp : {1}]]
      BY DEF RepoToolsInit, T
    <3> QED BY <3>2, <3>3 DEF Version
  <2>2. NoEntry \in Entry /\ NoEntry.ready = FALSE
    BY DEF NoEntry, Entry
  <2> QED BY <2>1, <2>2 DEF RepoToolsInit, TreeHolds, EntryTrue
<1>2. CallHolds /\ WalkHolds /\ ReadHolds
  <2>1. rtCall.pc = "idle"
    BY DEF RepoToolsInit, NoRepoCall
  <2> QED BY <2>1 DEF RepoToolsInit, CallHolds, WalkHolds, ReadHolds
<1>3. PagesHold
  <2>1. NoPaging.pc = "idle" /\ NoPaging.offset \in Nat /\ NoPaging.same \in BOOLEAN
    BY DEF NoPaging
  <2>2. rtPage = NoPaging
    BY DEF RepoToolsInit
  <2> QED BY <2>1, <2>2 DEF PagesHold
<1> QED BY <1>1, <1>2, <1>3 DEF RepoInv

LEMMA ResourcesStay == UNCHANGED <<rtFile, rtNotes>> => Resources' = Resources
  BY DEF Resources

LEMMA CallStays ==
    ASSUME RepoInv, UNCHANGED <<rtFile, rtCall>>
    PROVE  CallHolds' /\ WalkHolds' /\ ReadHolds'
<1>1. CallHolds'
  BY DEF RepoInv, CallHolds
<1>2. ASSUME NEW i PROVE Done(i)' <=> Done(i)
  BY DEF Done, Kept, ToWalk
<1>3. WalkHolds'
  BY <1>2 DEF RepoInv, WalkHolds
<1>4. ReadHolds'
  BY DEF RepoInv, ReadHolds
<1> QED BY <1>1, <1>3, <1>4

LEMMA PagesStay ==
    ASSUME RepoInv, UNCHANGED <<rtFile, rtNotes, rtPage>> PROVE PagesHold'
  BY ResourcesStay DEF RepoInv, PagesHold

LEMMA PagesDisturbed ==
    ASSUME RepoInv, rtPage' = Disturbed PROVE PagesHold'
<1>1. /\ DOMAIN rtPage = DOMAIN NoPaging /\ rtPage.pc \in {"idle", "paging", "listed"}
      /\ rtPage.pc = "idle" => rtPage = NoPaging
      /\ rtPage.same \in BOOLEAN /\ rtPage.offset \in Nat
  BY DEF RepoInv, PagesHold
<1>2. CASE rtPage.pc = "idle"
  <2>1. rtPage' = NoPaging
    BY <1>1, <1>2 DEF Disturbed, NoPaging
  <2>2. NoPaging.pc = "idle" /\ NoPaging.offset \in Nat /\ NoPaging.same \in BOOLEAN
    BY DEF NoPaging
  <2> QED BY <2>1, <2>2 DEF PagesHold
<1>3. CASE rtPage.pc # "idle"
  <2>1. /\ DOMAIN rtPage' = DOMAIN NoPaging /\ rtPage'.same = FALSE
        /\ rtPage'.pc = rtPage.pc /\ rtPage'.offset = rtPage.offset
    BY <1>1, <1>3 DEF Disturbed, NoPaging
  <2> QED BY <1>1, <1>3, <2>1 DEF PagesHold
<1> QED BY <1>2, <1>3

LEMMA NotesChangeKeeps == ASSUME RepoInv, NEW k, NotesChange(k) PROVE RepoInv'
<1>1. TreeHolds'
  <2>1. rtEdits' \in Nat /\ \A f \in RepoPaths : rtFile[f].stamp <= rtEdits' + 1
    <3>1. /\ rtEdits \in Nat /\ rtEdits' = rtEdits + 1
          /\ \A f \in RepoPaths : rtFile[f].stamp \in Nat /\ rtFile[f].stamp <= rtEdits + 1
      BY DEF RepoInv, TreeHolds, NotesChange, Version
    <3> QED BY <3>1
  <2>2. UNCHANGED <<rtFile, rtEntry, rtReading>>
    BY DEF NotesChange
  <2> QED BY <2>1, <2>2 DEF RepoInv, TreeHolds
<1> QED BY <1>1, CallStays, PagesDisturbed DEF RepoInv, NotesChange

LEMMA IndexerReadsKeeps == ASSUME RepoInv, NEW f \in RepoPaths, IndexerReads(f) PROVE RepoInv'
<1>1. rtFile[f] \in Version /\ rtFile[f].text.grams \in BOOLEAN /\ rtFile[f].stamp \in Nat
  <2>1. rtFile[f] \in Version
    BY DEF RepoInv, TreeHolds
  <2>2. rtFile[f].text \in AnyText /\ rtFile[f].stamp \in Nat
    BY <2>1 DEF Version
  <2> QED BY <2>1, <2>2, TextsAreTyped
<1> DEFINE e == [stamp |-> rtFile[f].stamp, grams |-> rtFile[f].text.grams, ready |-> TRUE]
<1>2. e \in Entry /\ EntryTrue(e, rtFile[f])
  BY <1>1 DEF Entry, EntryTrue
<1>3. rtReading' = [path |-> f, entry |-> e]
  BY DEF IndexerReads
<1>4. rtReading'.path = f /\ rtReading'.entry = e
  BY <1>3
<1> HIDE DEF e
<1>5. TreeHolds'
  BY <1>2, <1>4 DEF RepoInv, TreeHolds, IndexerReads
<1> QED BY <1>5, CallStays, PagesStay DEF RepoInv, IndexerReads

LEMMA IndexerStoresKeeps == RepoInv /\ IndexerStores => RepoInv'
<1> SUFFICES ASSUME RepoInv, IndexerStores PROVE RepoInv'
  OBVIOUS
<1>1. TreeHolds'
  BY DEF RepoInv, TreeHolds, IndexerStores
<1> QED BY <1>1, CallStays, PagesStay DEF RepoInv, IndexerStores

LEMMA RepoEditKeeps ==
    ASSUME RepoInv, NEW f \in RepoPaths, NEW text \in AnyText, RepoEdit(f, text)
    PROVE  RepoInv'
<1>0. /\ rtEdits \in Nat /\ rtFile \in [RepoPaths -> Version] /\ rtEdits' = rtEdits + 1
      /\ \A g \in RepoPaths : rtFile[g].stamp \in Nat /\ rtFile[g].stamp <= rtEdits + 1
  BY DEF RepoInv, TreeHolds, RepoEdit, Version
<1> DEFINE new == [text |-> text, stamp |-> rtEdits + 2]
<1>1. /\ new \in Version /\ new.stamp = rtEdits + 2 /\ rtFile' = [rtFile EXCEPT ![f] = new]
  BY <1>0 DEF RepoEdit, Version
<1>2. /\ rtFile' \in [RepoPaths -> Version] /\ rtFile'[f] = new
      /\ \A g \in RepoPaths : g # f => rtFile'[g] = rtFile[g]
  BY <1>0, <1>1
<1> HIDE DEF new
<1>3. ASSUME NEW e \in Entry, NEW g \in RepoPaths, EntryTrue(e, rtFile[g])
      PROVE  EntryTrue(e, rtFile'[g])
  <2>1. CASE g # f
    BY <1>2, <1>3, <2>1
  <2>2. CASE g = f
    <3>1. e.ready => e.stamp <= rtEdits + 1
      <4>1. e.stamp \in Nat
        BY DEF Entry
      <4> QED BY <1>0, <1>3, <4>1 DEF EntryTrue
    <3>2. e.stamp \in Nat
      BY DEF Entry
    <3> QED BY <1>0, <1>1, <1>2, <2>2, <3>1, <3>2 DEF EntryTrue
  <2> QED BY <2>1, <2>2
<1>4. TreeHolds'
  <2>1. rtEntry' = rtEntry /\ rtReading' = rtReading
    BY DEF RepoEdit
  <2>2. \A g \in RepoPaths : rtFile'[g].stamp <= rtEdits' + 1
    BY <1>0, <1>1, <1>2
  <2>3. rtEntry \in [RepoPaths -> Entry]
    BY DEF RepoInv, TreeHolds
  <2>4. \A g \in RepoPaths : EntryTrue(rtEntry[g], rtFile'[g])
    BY <1>3, <2>3 DEF RepoInv, TreeHolds
  <2>5. rtReading # NoReading => EntryTrue(rtReading.entry, rtFile'[rtReading.path])
    BY <1>3 DEF RepoInv, TreeHolds
  <2> QED BY <1>0, <1>2, <2>1, <2>2, <2>3, <2>4, <2>5 DEF RepoInv, TreeHolds
<1>5. rtCall' = rtCall /\ rtPage' = Disturbed
  BY DEF RepoEdit
<1>6. CallHolds'
  <2>1. ASSUME rtCall.pc # "idle", NEW g \in RepoPaths PROVE rtCall.at[g].stamp <= rtFile'[g].stamp
    <3>1. rtCall.at[g].stamp \in Nat /\ rtCall.at[g].stamp <= rtFile[g].stamp
      BY <2>1 DEF RepoInv, CallHolds, Version
    <3>2. CASE g = f
      BY <1>0, <1>1, <1>2, <3>1, <3>2
    <3> QED BY <1>2, <3>1, <3>2
  <2>2. ASSUME rtCall.pc # "idle", rtCall.kind = "search", NEW g \in RepoPaths
        PROVE  EntryTrue(rtCall.known[g], rtFile'[g])
    BY <1>3, <2>2 DEF RepoInv, CallHolds
  <2> QED BY <1>5, <2>1, <2>2 DEF RepoInv, CallHolds
<1>7. ASSUME rtCall.pc # "idle", NEW i \in 1..Len(RepoFiles), Done(i) PROVE Done(i)'
  <2> DEFINE g == RepoFiles[i]
  <2>1. g \in RepoPaths
    BY RepoAssumption, LenProperties DEF RepoPaths
  <2> HIDE DEF g
  <2>2. SUFFICES ASSUME Kept(g)'
                 PROVE  HasIn(rtCall.kind, g, rtFile'[g].text, ToSet(rtCall.found))
    BY <1>5 DEF Done, g
  <2>3. rtFile'[g] = rtCall.at[g]
    BY <1>5, <2>2 DEF Kept
  <2>4. g # f
    <3>1. rtCall.at[f].stamp <= rtFile[f].stamp /\ rtCall.at[f].stamp \in Nat
      BY <1>7 DEF RepoInv, CallHolds, Version
    <3>2. rtFile'[f].stamp # rtCall.at[f].stamp
      BY <1>0, <1>1, <1>2, <3>1
    <3> QED BY <2>3, <3>2
  <2>5. rtFile'[g] = rtFile[g]
    BY <1>2, <2>1, <2>4
  <2>6. Kept(g)
    BY <1>5, <2>2, <2>5 DEF Kept, ToWalk
  <2> QED BY <1>7, <2>5, <2>6 DEF Done, g
<1>8. WalkHolds'
  <2> SUFFICES ASSUME rtCall.pc # "idle", rtCall.kind # "read" PROVE WalkHolds'
    BY <1>5 DEF WalkHolds
  <2>1. Len(RepoFiles) \in Nat
    BY RepoAssumption, LenProperties
  <2>2. rtCall.pc \in {"walk", "read"} =>
          rtCall.next \in 1..Len(RepoFiles) /\ \A i \in 1..(rtCall.next - 1) : i \in 1..Len(RepoFiles) /\ Done(i)'
    <3>1. rtCall.pc \in {"walk", "read"} =>
            rtCall.next \in 1..Len(RepoFiles) /\ \A i \in 1..(rtCall.next - 1) : Done(i)
      BY DEF RepoInv, WalkHolds
    <3>2. rtCall.next \in 1..Len(RepoFiles) => \A i \in 1..(rtCall.next - 1) : i \in 1..Len(RepoFiles)
      BY <2>1
    <3> QED BY <1>7, <3>1, <3>2
  <2>3. rtCall.pc = "answered" /\ Len(rtCall.found) < RepoMaxResults =>
          \A i \in 1..Len(RepoFiles) : Done(i)'
    BY <1>7 DEF RepoInv, WalkHolds
  <2> QED BY <1>5, <2>2, <2>3 DEF RepoInv, WalkHolds
<1>9. ReadHolds'
  BY <1>5 DEF RepoInv, ReadHolds
<1> QED BY <1>4, <1>5, <1>6, <1>8, <1>9, PagesDisturbed DEF RepoInv

LEMMA RepoAskedKeeps ==
    ASSUME RepoInv, NEW kind \in {"search", "list"}, NEW files, NEW p, RepoAsked(kind, files, p)
    PROVE  RepoInv'
<1>1. UNCHANGED <<rtFile, rtEntry, rtReading, rtNotes, rtPage, rtEdits>>
  BY DEF RepoAsked
<1>2. TreeHolds' /\ PagesHold'
  BY <1>1, PagesStay DEF RepoInv, TreeHolds
<1>3. /\ rtCall'.pc = "walk" /\ rtCall'.kind = kind /\ rtCall'.known = rtEntry
      /\ rtCall'.at = rtFile /\ rtCall'.next = 1 /\ rtCall'.found = <<>>
      /\ DOMAIN rtCall' = DOMAIN NoRepoCall
  BY DEF RepoAsked, NoRepoCall
<1>4. CallHolds'
  <2>1. \A f \in RepoPaths : rtFile[f].stamp \in Nat /\ rtFile[f] \in Version
    BY DEF RepoInv, TreeHolds, Version
  <2>2. rtFile \in [RepoPaths -> Version] /\ rtEntry \in [RepoPaths -> Entry]
    BY DEF RepoInv, TreeHolds
  <2>3. \A f \in RepoPaths : rtFile[f].stamp <= rtFile[f].stamp
    BY <2>1
  <2>4. \A f \in RepoPaths : EntryTrue(rtEntry[f], rtFile[f])
    BY DEF RepoInv, TreeHolds
  <2> QED BY <1>1, <1>3, <2>2, <2>3, <2>4 DEF CallHolds
<1>5. WalkHolds'
  <2>1. Len(RepoFiles) \in Nat /\ Len(RepoFiles) # 0
    BY RepoAssumption, LenProperties, EmptySeq
  <2>2. IsList(<<>>) /\ Len(<<>>) = 0
    BY DEF IsList
  <2>3. Len(<<>>) < RepoMaxResults
    BY <2>2, RepoAssumption
  <2>4. 1 \in 1..Len(RepoFiles) /\ \A i \in 1..(1 - 1) : FALSE
    BY <2>1
  <2> QED BY <1>3, <2>2, <2>3, <2>4 DEF WalkHolds
<1>6. ReadHolds'
  BY <1>3 DEF ReadHolds
<1> QED BY <1>2, <1>4, <1>5, <1>6 DEF RepoInv

\* Lists put together, and cut.
LEMMA ListsJoin ==
    ASSUME NEW s, IsList(s), NEW t, IsList(t)
    PROVE  /\ IsList(s \o t) /\ Len(s \o t) = Len(s) + Len(t)
           /\ ToSet(s) \subseteq ToSet(s \o t) /\ ToSet(t) \subseteq ToSet(s \o t)
           /\ Len(s) \in Nat /\ Len(t) \in Nat
<1> DEFINE A == ToSet(s)
           B == ToSet(t)
           C == A \union B
           u == s \o t
<1>0. s \in Seq(A) /\ t \in Seq(B)
  BY DEF IsList
<1>1. s \in Seq(C) /\ t \in Seq(C)
  <2> HIDE DEF A, B
  <2> QED BY <1>0, SeqOfMore
<1>2. /\ Len(s) \in Nat /\ Len(t) \in Nat /\ DOMAIN s = 1..Len(s) /\ DOMAIN t = 1..Len(t)
  BY <1>0, LenProperties
<1> HIDE DEF A, B
<1>3. /\ u \in Seq(C) /\ Len(u) = Len(s) + Len(t) /\ DOMAIN u = 1..(Len(s) + Len(t))
      /\ \A i \in 1..(Len(s) + Len(t)) :
            u[i] = IF i <= Len(s) THEN s[i] ELSE t[i - Len(s)]
  <2> HIDE DEF C
  <2> QED BY <1>1, <1>2, ConcatProperties, LenProperties
<1> HIDE DEF u
<1>4. ASSUME NEW x \in ToSet(s) PROVE x \in ToSet(u)
  <2>1. PICK i \in 1..Len(s) : s[i] = x
    BY <1>2 DEF ToSet
  <2>2. i \in 1..(Len(s) + Len(t)) /\ u[i] = x
    BY <1>2, <1>3, <2>1
  <2> QED BY <1>3, <2>2 DEF ToSet
<1>5. ASSUME NEW x \in ToSet(t) PROVE x \in ToSet(u)
  <2>1. PICK i \in 1..Len(t) : t[i] = x
    BY <1>2 DEF ToSet
  <2> DEFINE j == Len(s) + i
  <2>2. j \in 1..(Len(s) + Len(t)) /\ ~(j <= Len(s)) /\ j - Len(s) = i
    BY <1>2
  <2> HIDE DEF j
  <2>3. u[j] = x
    BY <1>3, <2>1, <2>2
  <2> QED BY <1>3, <2>2, <2>3 DEF ToSet
<1>6. IsList(u)
  <2> HIDE DEF C
  <2> QED BY <1>3, OwnElements DEF IsList
<1> QED BY <1>2, <1>3, <1>4, <1>5, <1>6 DEF u

LEMMA ListIsCut ==
    ASSUME NEW s, IsList(s), NEW n \in Nat
    PROVE  LET k == Least(Len(s), n)
               t == SubSeq(s, 1, k) IN
           /\ IsList(t) /\ Len(t) = k /\ (Len(s) <= n => t = s)
<1> DEFINE A == ToSet(s)
           k == Least(Len(s), n)
           t == SubSeq(s, 1, k)
<1>0. s \in Seq(A) /\ Len(s) \in Nat /\ DOMAIN s = 1..Len(s) /\ \A i \in 1..Len(s) : s[i] \in A
  BY LenProperties DEF IsList
<1>1. k \in Nat /\ k <= Len(s) /\ (Len(s) <= n => k = Len(s))
  <2> DEFINE m == Len(s)
  <2>1. m \in Nat
    BY <1>0
  <2> HIDE DEF m
  <2>2. Least(m, n) \in Nat /\ Least(m, n) <= m /\ (m <= n => Least(m, n) = m)
    BY <2>1 DEF Least
  <2> QED BY <2>2 DEF m
<1> HIDE DEF A, k
<1>2. /\ t \in Seq(A) /\ Len(t) = k /\ \A i \in 1..k : t[i] = s[i]
  <2>0. 1..k \subseteq 1..Len(s)
    <3> DEFINE m == Len(s)
    <3>1. m \in Nat /\ k \in Nat /\ k <= m
      BY <1>0, <1>1
    <3> HIDE DEF m
    <3>2. 1..k \subseteq 1..m
      BY <3>1
    <3> QED BY <3>2 DEF m
  <2>1. \A i \in 1..k : s[i] \in A
    BY <1>0, <2>0
  <2>2. /\ SubSeq(s, 1, k) \in Seq(A)
        /\ Len(SubSeq(s, 1, k)) = IF 1 <= k THEN k - 1 + 1 ELSE 0
        /\ \A i \in 1..(k - 1 + 1) : SubSeq(s, 1, k)[i] = s[1 + i - 1]
    BY <1>1, <2>1, SubSeqProperties
  <2>3. Len(SubSeq(s, 1, k)) = k /\ k - 1 + 1 = k
    BY <1>1, <2>2
  <2>4. \A i \in 1..k : 1 + i - 1 = i
    BY <1>1
  <2> HIDE DEF t
  <2> QED BY <2>2, <2>3, <2>4 DEF t
<1> HIDE DEF t
<1>3. Len(s) <= n => t = s
  BY <1>0, <1>1, <1>2, SeqEqual
<1>4. IsList(t)
  BY <1>2, OwnElements DEF IsList
<1> QED BY <1>2, <1>3, <1>4 DEF t, k

\* What was found stays found.
LEMMA HasMore ==
    ASSUME NEW kind, NEW f, NEW text, NEW A, NEW B, A \subseteq B, HasIn(kind, f, text, A)
    PROVE  HasIn(kind, f, text, B)
  BY DEF HasIn, HasMatches

\* A step of the walk: the file it comes to is looked at.
LEMMA WalksOn ==
    ASSUME RepoInv, rtCall.pc \in {"walk", "read"}, NEW more, IsList(more), Walked(more),
           UNCHANGED <<rtFile, rtEntry, rtReading, rtNotes, rtPage, rtEdits>>, rtCall.kind # "read",
           LET f == RepoFiles[rtCall.next] IN
           Kept(f) => HasIn(rtCall.kind, f, rtFile[f].text, ToSet(more))
    PROVE  RepoInv'
<1> DEFINE n == Len(RepoFiles)
           was == rtCall.found
           all == was \o more
           kept == SubSeq(all, 1, Least(Len(all), RepoMaxResults))
           over == Len(kept) = RepoMaxResults \/ rtCall.next = Len(RepoFiles)
           f == RepoFiles[rtCall.next]
<1>0. /\ DOMAIN rtCall = DOMAIN NoRepoCall
      /\ IsList(was) /\ rtCall.next \in 1..n /\ Len(was) < RepoMaxResults
      /\ \A i \in 1..(rtCall.next - 1) : Done(i)
  BY DEF RepoInv, CallHolds, WalkHolds
<1>00. RepoMaxResults \in Nat /\ n \in Nat
  BY RepoAssumption, LenProperties
<1>1. rtCall' = [rtCall EXCEPT !.found = kept, !.next = @ + 1, !.pc = IF over THEN "answered" ELSE "walk"]
  BY DEF Walked
<1>2. /\ IsList(all) /\ ToSet(was) \subseteq ToSet(all) /\ ToSet(more) \subseteq ToSet(all)
      /\ Len(all) \in Nat
  <2> HIDE DEF was
  <2> QED BY <1>0, ListsJoin
<1> HIDE DEF was, all
<1>3. IsList(kept) /\ Len(kept) = Least(Len(all), RepoMaxResults) /\ (Len(all) <= RepoMaxResults => kept = all)
  BY <1>00, <1>2, ListIsCut
<1>4. Len(kept) < RepoMaxResults => kept = all
  BY <1>00, <1>2, <1>3 DEF Least
<1>5. Len(kept) \in Nat /\ Len(kept) <= RepoMaxResults
  BY <1>00, <1>2, <1>3 DEF Least
<1> HIDE DEF kept, over
<1>6. /\ DOMAIN rtCall' = DOMAIN NoRepoCall /\ rtCall'.found = kept /\ rtCall'.next = rtCall.next + 1
      /\ rtCall'.pc = IF over THEN "answered" ELSE "walk"
      /\ rtCall'.kind = rtCall.kind /\ rtCall'.at = rtCall.at /\ rtCall'.known = rtCall.known
      /\ rtCall'.files = rtCall.files
  BY <1>0, <1>1 DEF NoRepoCall
<1>7. TreeHolds' /\ PagesHold'
  BY PagesStay DEF RepoInv, TreeHolds
<1>8. CallHolds'
  BY <1>6 DEF RepoInv, CallHolds
<1>9. ASSUME Len(kept) < RepoMaxResults, NEW i \in 1..rtCall.next PROVE Done(i)'
  <2> DEFINE g == RepoFiles[i]
  <2> HIDE DEF g
  <2> SUFFICES ASSUME Kept(g)' PROVE HasIn(rtCall.kind, g, rtFile[g].text, ToSet(all))
    BY <1>4, <1>6, <1>9 DEF Done, g
  <2>1. Kept(g)
    BY <1>6 DEF Kept, ToWalk
  <2>2. CASE i = rtCall.next
    BY <1>2, <2>1, <2>2, HasMore DEF g
  <2>3. CASE i # rtCall.next
    <3>1. i \in 1..(rtCall.next - 1)
      BY <1>0, <1>00, <2>3
    <3>2. HasIn(rtCall.kind, g, rtFile[g].text, ToSet(was))
      BY <1>0, <2>1, <3>1 DEF Done, g, was
    <3> QED BY <1>2, <3>2, HasMore
  <2> QED BY <2>2, <2>3
<1>10. WalkHolds'
  <2>1. CASE over
    <3>1. Len(kept) < RepoMaxResults => rtCall.next = n
      BY <1>00, <1>5, <2>1 DEF over
    <3> QED BY <1>3, <1>6, <1>9, <2>1, <3>1 DEF WalkHolds
  <2>2. CASE ~over
    <3>1. Len(kept) < RepoMaxResults /\ rtCall.next + 1 \in 1..n
      BY <1>0, <1>00, <1>5, <2>2 DEF over
    <3>2. (rtCall.next + 1) - 1 = rtCall.next
      BY <1>0, <1>00
    <3> QED BY <1>3, <1>6, <1>9, <2>2, <3>1, <3>2 DEF WalkHolds
  <2> QED BY <2>1, <2>2
<1>11. ReadHolds'
  BY <1>6 DEF ReadHolds
<1> QED BY <1>7, <1>8, <1>10, <1>11 DEF RepoInv

LEMMA EmptyIsList == IsList(<<>>)
  BY DEF IsList

LEMMA ListVisitsKeeps == RepoInv /\ ListVisits => RepoInv'
<1> SUFFICES ASSUME RepoInv, ListVisits PROVE RepoInv'
  OBVIOUS
<1> DEFINE f == RepoFiles[rtCall.next]
           item == [path |-> f]
           more == IF ToWalk(f) THEN <<item>> ELSE <<>>
<1>1. rtCall.pc = "walk" /\ rtCall.kind = "list" /\ Walked(more)
  BY DEF ListVisits
<1>2. UNCHANGED <<rtFile, rtEntry, rtReading, rtNotes, rtPage, rtEdits>>
  BY DEF ListVisits
<1>3. IsList(<<item>>) /\ item \in ToSet(<<item>>)
  <2> HIDE DEF item
  <2> QED BY DEF IsList, ToSet
<1> HIDE DEF item
<1>4. IsList(more)
  BY <1>3, EmptyIsList
<1>5. Kept(f) => HasIn(rtCall.kind, f, rtFile[f].text, ToSet(more))
  BY <1>1, <1>3 DEF Kept, HasIn, item
<1> HIDE DEF more, f
<1> QED BY <1>1, <1>2, <1>4, <1>5, WalksOn DEF f

LEMMA SearchStatsKeeps == RepoInv /\ SearchStats => RepoInv'
<1> SUFFICES ASSUME RepoInv, SearchStats PROVE RepoInv'
  OBVIOUS
<1> DEFINE f == RepoFiles[rtCall.next]
           Looks == /\ ToWalk(f) /\ TextBytes(rtFile[f].text) <= RepoMaxFileBytes
                    /\ rtCall.prefilter => MayContain(rtCall.known, f, rtFile[f].stamp)
<1>1. /\ rtCall.pc = "walk" /\ rtCall.kind = "search"
      /\ UNCHANGED <<rtFile, rtEntry, rtReading, rtNotes, rtPage, rtEdits>>
      /\ IF Looks THEN rtCall' = [rtCall EXCEPT !.pc = "read"] ELSE Walked(<<>>)
  BY DEF SearchStats
<1>2. CASE Looks
  <2>1. /\ DOMAIN rtCall' = DOMAIN NoRepoCall /\ rtCall'.pc = "read"
        /\ rtCall'.kind = rtCall.kind /\ rtCall'.at = rtCall.at /\ rtCall'.known = rtCall.known
        /\ rtCall'.files = rtCall.files /\ rtCall'.found = rtCall.found /\ rtCall'.next = rtCall.next
    <3>1. DOMAIN rtCall = DOMAIN NoRepoCall
      BY DEF RepoInv, CallHolds
    <3>2. rtCall' = [rtCall EXCEPT !.pc = "read"]
      BY <1>1, <1>2
    <3> QED BY <3>1, <3>2 DEF NoRepoCall
  <2>2. TreeHolds' /\ PagesHold'
    BY <1>1, PagesStay DEF RepoInv, TreeHolds
  <2>3. CallHolds'
    BY <1>1, <2>1 DEF RepoInv, CallHolds
  <2>4. ASSUME NEW i PROVE Done(i)' <=> Done(i)
    BY <1>1, <2>1 DEF Done, Kept, ToWalk
  <2>5. WalkHolds'
    BY <1>1, <2>1, <2>4 DEF RepoInv, WalkHolds
  <2>6. ReadHolds'
    BY <1>1, <2>1 DEF ReadHolds
  <2> QED BY <2>2, <2>3, <2>5, <2>6 DEF RepoInv
<1>3. CASE ~Looks
  <2>1. Kept(f) => HasIn(rtCall.kind, f, rtFile[f].text, ToSet(<<>>))
    <3> SUFFICES ASSUME Kept(f), TextBytes(rtFile[f].text) <= RepoMaxFileBytes
                 PROVE  HasMatches(f, rtFile[f].text, ToSet(<<>>))
      BY <1>1 DEF HasIn
    <3>1. f \in RepoPaths
      <4>1. rtCall.next \in 1..Len(RepoFiles)
        BY <1>1 DEF RepoInv, WalkHolds
      <4> QED BY <4>1, RepoAssumption, LenProperties
    <3>2. ToWalk(f)
      BY DEF Kept
    <3>3. ~MayContain(rtCall.known, f, rtFile[f].stamp)
      BY <1>3, <3>2
    <3> HIDE DEF f
    <3>4. rtCall.known[f].ready /\ rtCall.known[f].stamp = rtFile[f].stamp /\ ~rtCall.known[f].grams
      BY <3>3 DEF MayContain
    <3>5. EntryTrue(rtCall.known[f], rtFile[f])
      BY <1>1, <3>1 DEF RepoInv, CallHolds
    <3>6. ~rtFile[f].text.grams
      BY <3>4, <3>5 DEF EntryTrue
    <3>7. rtFile[f].text \in AnyText /\ rtFile[f].text # GoneText
      BY <3>1, <3>2 DEF RepoInv, TreeHolds, Version, ToWalk
    <3>8. \A n \in DOMAIN rtFile[f].text.lines : ~Matching(rtFile[f].text.lines[n])
      BY <3>6, <3>7, TextsAreTyped
    <3> QED BY <3>8 DEF HasMatches
  <2> HIDE DEF f
  <2> QED BY <1>1, <1>3, <2>1, EmptyIsList, WalksOn DEF f
<1> QED BY <1>2, <1>3

LEMMA SearchReadsKeeps == RepoInv /\ SearchReads => RepoInv'
<1> SUFFICES ASSUME RepoInv, SearchReads PROVE RepoInv'
  OBVIOUS
<1> DEFINE f == RepoFiles[rtCall.next]
           text == rtFile[f].text
           more == IF TextBytes(text) > RepoMaxFileBytes THEN <<>> ELSE FoundIn(f, text)
<1>1. /\ rtCall.pc = "read" /\ Walked(more)
      /\ UNCHANGED <<rtFile, rtEntry, rtReading, rtNotes, rtPage, rtEdits>>
  BY DEF SearchReads
<1>2. rtCall.kind = "search"
  BY <1>1 DEF RepoInv, CallHolds
<1>3. f \in RepoPaths
  <2>1. rtCall.next \in 1..Len(RepoFiles)
    BY <1>1, <1>2 DEF RepoInv, WalkHolds
  <2> QED BY <2>1, RepoAssumption, LenProperties
<1> HIDE DEF f
<1>4. text \in AnyText /\ text.lines \in Seq(RepoLine)
  <2>1. text \in AnyText
    BY <1>3 DEF RepoInv, TreeHolds, Version
  <2> QED BY <2>1, TextsAreTyped
<1> HIDE DEF text
<1>5. TextBytes(text) \in Nat /\ RepoMaxFileBytes \in Nat
  BY <1>4, RepoAssumption, LineBytesAdd DEF TextBytes
<1>6. IsList(more)
  BY <1>4, EmptyIsList, FoundInHas
<1>7. Kept(f) => HasIn(rtCall.kind, f, text, ToSet(more))
  <2> SUFFICES ASSUME Kept(f), TextBytes(text) <= RepoMaxFileBytes
               PROVE  HasMatches(f, text, ToSet(more))
    BY <1>2 DEF HasIn
  <2>1. text # GoneText
    BY DEF Kept, ToWalk, text
  <2>2. more = FoundIn(f, text)
    BY <1>5
  <2> HIDE DEF more
  <2> QED BY <1>4, <2>1, <2>2, FoundInHas
<1> HIDE DEF more
<1> QED BY <1>1, <1>2, <1>6, <1>7, WalksOn DEF f, text

\* A list a page longer.
LEMMA PageAdds ==
    ASSUME NEW S, NEW s \in Seq(S), NEW a \in Nat, NEW b \in Nat, a <= b, b <= Len(s)
    PROVE  SubSeq(s, 1, a) \o SubSeq(s, a + 1, b) = SubSeq(s, 1, b)
<1> DEFINE m == Len(s)
           u == SubSeq(s, 1, a)
           v == SubSeq(s, a + 1, b)
           w == SubSeq(s, 1, b)
<1>0. m \in Nat /\ \A i \in 1..m : s[i] \in S
  BY LenProperties
<1>1. /\ u \in Seq(S) /\ Len(u) = a /\ \A i \in 1..a : u[i] = s[i]
  <2>1. /\ SubSeq(s, 1, a) \in Seq(S)
        /\ Len(SubSeq(s, 1, a)) = IF 1 <= a THEN a - 1 + 1 ELSE 0
        /\ \A i \in 1..(a - 1 + 1) : SubSeq(s, 1, a)[i] = s[1 + i - 1]
    <3>1. \A i \in 1..a : s[i] \in S
      <4> HIDE DEF m
      <4>1. m \in Nat /\ a <= m /\ \A i \in 1..m : s[i] \in S
        BY <1>0 DEF m
      <4> QED BY <4>1
    <3> QED BY <3>1, SubSeqProperties
  <2>2. a - 1 + 1 = a /\ (\A i \in 1..a : 1 + i - 1 = i) /\ (~(1 <= a) => a = 0)
    OBVIOUS
  <2> HIDE DEF u
  <2> QED BY <2>1, <2>2 DEF u
<1>2. /\ w \in Seq(S) /\ Len(w) = b /\ \A i \in 1..b : w[i] = s[i]
  <2>1. /\ SubSeq(s, 1, b) \in Seq(S)
        /\ Len(SubSeq(s, 1, b)) = IF 1 <= b THEN b - 1 + 1 ELSE 0
        /\ \A i \in 1..(b - 1 + 1) : SubSeq(s, 1, b)[i] = s[1 + i - 1]
    <3>1. \A i \in 1..b : s[i] \in S
      <4> HIDE DEF m
      <4>1. m \in Nat /\ b <= m /\ \A i \in 1..m : s[i] \in S
        BY <1>0 DEF m
      <4> QED BY <4>1
    <3> QED BY <3>1, SubSeqProperties
  <2>2. b - 1 + 1 = b /\ (\A i \in 1..b : 1 + i - 1 = i) /\ (~(1 <= b) => b = 0)
    OBVIOUS
  <2> HIDE DEF w
  <2> QED BY <2>1, <2>2 DEF w
<1>3. /\ v \in Seq(S) /\ Len(v) = b - a /\ \A i \in 1..(b - a) : v[i] = s[a + i]
  <2>1. /\ SubSeq(s, a + 1, b) \in Seq(S)
        /\ Len(SubSeq(s, a + 1, b)) = IF a + 1 <= b THEN b - (a + 1) + 1 ELSE 0
        /\ \A i \in 1..(b - (a + 1) + 1) : SubSeq(s, a + 1, b)[i] = s[(a + 1) + i - 1]
    <3>1. \A i \in (a + 1)..b : s[i] \in S
      <4> HIDE DEF m
      <4>1. m \in Nat /\ b <= m /\ \A i \in 1..m : s[i] \in S
        BY <1>0 DEF m
      <4> QED BY <4>1
    <3> QED BY <3>1, SubSeqProperties
  <2>2. /\ b - (a + 1) + 1 = b - a /\ (~(a + 1 <= b) => b - a = 0)
        /\ \A i \in 1..(b - a) : (a + 1) + i - 1 = a + i
    OBVIOUS
  <2> HIDE DEF v
  <2> QED BY <2>1, <2>2 DEF v
<1> HIDE DEF u, v, w
<1>4. /\ u \o v \in Seq(S) /\ Len(u \o v) = a + (b - a)
      /\ \A i \in 1..(a + (b - a)) : (u \o v)[i] = IF i <= a THEN u[i] ELSE v[i - a]
  BY <1>1, <1>3, ConcatProperties
<1>5. a + (b - a) = b
  OBVIOUS
<1>6. ASSUME NEW i \in 1..b PROVE (u \o v)[i] = w[i]
  <2>1. (u \o v)[i] = IF i <= a THEN u[i] ELSE v[i - a]
    BY <1>4, <1>5
  <2>2. CASE i <= a
    <3>1. i \in 1..a
      BY <2>2
    <3> QED BY <1>1, <1>2, <2>1, <2>2, <3>1
  <2>3. CASE ~(i <= a)
    <3>1. i - a \in 1..(b - a) /\ a + (i - a) = i
      BY <2>3
    <3>2. v[i - a] = s[i]
      BY <1>3, <3>1
    <3> QED BY <1>2, <2>1, <2>3, <3>2
  <2> QED BY <2>2, <2>3
<1>7. u \o v = w
  BY <1>2, <1>4, <1>5, <1>6, SeqEqual
<1> QED BY <1>7 DEF u, v, w

\* What resources/list offers is a list.
LEMMA ResourcesAreList == \E S : Resources \in Seq(S) /\ Len(Resources) \in Nat
<1> DEFINE A == ToSet(NoteResources)
           F == {f \in RepoPaths \ RepoIgnored : rtFile[f].text # GoneText}
           s == Within(NoteResources, rtNotes)
           t == Within(KeyFiles, F)
           C == A \union RepoPaths
<1>1. s \in Seq(A)
  BY RepoAssumption, WithinLeaves
<1>2. t \in Seq(RepoPaths)
  <2> HIDE DEF F
  <2> QED BY RepoAssumption, WithinLeaves
<1>3. Resources = s \o t
  BY DEF Resources
<1> HIDE DEF s, t
<1>4. s \in Seq(C) /\ t \in Seq(C)
  <2> HIDE DEF A
  <2>1. A \subseteq C /\ RepoPaths \subseteq C
    OBVIOUS
  <2> HIDE DEF C
  <2> QED BY <1>1, <1>2, <2>1, SeqOfMore
<1> HIDE DEF C
<1>5. s \o t \in Seq(C)
  BY <1>4, ConcatProperties
<1> QED BY <1>3, <1>5, LenProperties

LEMMA PageAskedKeeps == RepoInv /\ PageAsked => RepoInv'
<1> SUFFICES ASSUME RepoInv, PageAsked PROVE RepoInv'
  OBVIOUS
<1> DEFINE R == Resources
           n == Len(R)
           a == rtPage.offset
           end == Least(a + PageSize, n)
           more == end < n
           page == SubSeq(R, a + 1, end)
<1>1. UNCHANGED <<rtFile, rtEntry, rtReading, rtNotes, rtCall, rtEdits>> /\ rtPage.pc # "listed"
  BY DEF PageAsked
<1>2. TreeHolds' /\ CallHolds' /\ WalkHolds' /\ ReadHolds'
  BY <1>1, CallStays DEF RepoInv, TreeHolds
<1>3. PagesHold'
  <2>1. R' = R
    BY <1>1, ResourcesStay
  <2>2. PICK S : R \in Seq(S) /\ n \in Nat
    BY ResourcesAreList
  <2>3. /\ a \in Nat /\ PageSize \in Nat /\ PageSize > 0 /\ rtPage.same \in BOOLEAN
        /\ rtPage.pc \in {"idle", "paging"}
    BY <1>1, RepoAssumption DEF RepoInv, PagesHold
  <2>4. CASE a > n
    <3>1. rtPage' = NoPaging
      BY <2>4 DEF PageAsked
    <3>2. NoPaging.pc = "idle" /\ NoPaging.offset \in Nat /\ NoPaging.same \in BOOLEAN
      BY DEF NoPaging
    <3> QED BY <3>1, <3>2 DEF PagesHold
  <2>5. CASE ~(a > n)
    <3>1. rtPage' = [pc |-> IF more THEN "paging" ELSE "listed", same |-> rtPage.same,
                     offset |-> IF more THEN end ELSE 0, got |-> rtPage.got \o page]
      BY <2>5 DEF PageAsked
    <3>2. /\ DOMAIN rtPage' = DOMAIN NoPaging /\ rtPage'.same = rtPage.same
          /\ rtPage'.pc = IF more THEN "paging" ELSE "listed"
          /\ rtPage'.offset = IF more THEN end ELSE 0
          /\ rtPage'.got = rtPage.got \o page
      <4> HIDE DEF more, end, page
      <4> QED BY <3>1 DEF NoPaging
    <3>3. /\ end \in Nat /\ end <= n /\ a <= end /\ (~more => end = n)
          /\ more => end >= 1
      <4> HIDE DEF a, n
      <4> QED BY <2>2, <2>3, <2>5 DEF Least
    <3>4. rtPage.same => rtPage.got = SubSeq(R, 1, a)
      <4>1. CASE rtPage.pc = "paging"
        BY <4>1 DEF RepoInv, PagesHold
      <4>2. CASE rtPage.pc = "idle"
        <5>1. rtPage = NoPaging
          BY <4>2 DEF RepoInv, PagesHold
        <5>2. rtPage.got = <<>> /\ a = 0
          BY <5>1 DEF NoPaging
        <5>3. SubSeq(R, 1, 0) = <<>>
          BY <2>2, SubSeqProperties, EmptySeq
        <5> QED BY <5>2, <5>3
      <4> QED BY <2>3, <4>1, <4>2
    <3>5. rtPage.same => rtPage'.got = SubSeq(R, 1, end)
      <4> HIDE DEF a, n, end, R
      <4>1. SubSeq(R, 1, a) \o SubSeq(R, a + 1, end) = SubSeq(R, 1, end)
        BY <2>2, <2>3, <3>3, PageAdds DEF n
      <4> QED BY <3>2, <3>4, <4>1
    <3>6. SubSeq(R, 1, n) = R
      BY <2>2, SubSeqProperties
    <3> HIDE DEF end, n, R, page, more
    <3>7. CASE more
      <4>1. end \in 1..n
        BY <2>2, <3>3, <3>7
      <4> QED BY <2>1, <2>3, <3>2, <3>3, <3>5, <3>7, <4>1 DEF PagesHold, n, R
    <3>8. CASE ~more
      <4>1. rtPage.same => rtPage'.got = R
        BY <3>3, <3>5, <3>6, <3>8
      <4>2. rtPage'.pc = "listed" /\ rtPage'.offset = 0
        BY <3>2, <3>8
      <4>3. rtPage'.same => rtPage'.got = Resources'
        BY <2>1, <3>2, <4>1 DEF R
      <4> QED BY <2>3, <3>2, <4>2, <4>3 DEF PagesHold
    <3> QED BY <3>7, <3>8
  <2> QED BY <2>4, <2>5
<1> QED BY <1>2, <1>3 DEF RepoInv

LEMMA AnswerTakenKeeps == RepoInv /\ AnswerTaken => RepoInv'
<1> SUFFICES ASSUME RepoInv, AnswerTaken PROVE RepoInv'
  OBVIOUS
<1>1. /\ UNCHANGED <<rtFile, rtEntry, rtReading, rtNotes, rtEdits>>
      /\ rtPage' = NoPaging /\ rtCall' = NoRepoCall
  BY DEF AnswerTaken
<1>2. TreeHolds'
  BY <1>1 DEF RepoInv, TreeHolds
<1>3. NoRepoCall.pc = "idle"
  BY DEF NoRepoCall
<1>4. CallHolds' /\ WalkHolds' /\ ReadHolds'
  BY <1>1, <1>3 DEF CallHolds, WalkHolds, ReadHolds
<1>5. PagesHold'
  <2>1. NoPaging.pc = "idle" /\ NoPaging.offset \in Nat /\ NoPaging.same \in BOOLEAN
    BY DEF NoPaging
  <2> QED BY <1>1, <2>1 DEF PagesHold
<1> QED BY <1>2, <1>4, <1>5 DEF RepoInv

LEMMA ReadFileKeeps ==
    ASSUME RepoInv, NEW f \in RepoPaths, NEW range \in ReadRequests, ReadFile(f, range)
    PROVE  RepoInv'
<1>1. UNCHANGED <<rtFile, rtEntry, rtReading, rtNotes, rtPage, rtEdits>>
  BY DEF ReadFile
<1>2. TreeHolds' /\ PagesHold'
  BY <1>1, PagesStay DEF RepoInv, TreeHolds
<1> DEFINE answer == <<[path |-> f, bytes |-> BytesRead(range, rtFile[f].text.lines)]>>
<1>3. /\ rtCall'.pc = "answered" /\ rtCall'.kind = "read" /\ rtCall'.at = rtFile
      /\ rtCall'.range = range /\ DOMAIN rtCall' = DOMAIN NoRepoCall
      /\ rtCall'.found = answer
  <2>1. rtCall' = [NoRepoCall EXCEPT !.pc = "answered", !.kind = "read", !.range = range,
                     !.at = rtFile, !.found = answer]
    BY DEF ReadFile
  <2> HIDE DEF answer
  <2> QED BY <2>1 DEF NoRepoCall
<1> HIDE DEF answer
<1>4. CallHolds'
  <2>1. rtFile \in [RepoPaths -> Version] /\ \A g \in RepoPaths : rtFile[g].stamp <= rtFile[g].stamp
    BY DEF RepoInv, TreeHolds, Version
  <2> QED BY <1>1, <1>3, <2>1 DEF CallHolds
<1>5. WalkHolds'
  BY <1>3 DEF WalkHolds
<1>6. ReadHolds'
  BY <1>3 DEF ReadHolds, answer
<1> QED BY <1>2, <1>4, <1>5, <1>6 DEF RepoInv

LEMMA RepoStepKeeps == RepoInv /\ [RepoToolsNext]_rtVars => RepoInv'
<1> SUFFICES ASSUME RepoInv, [RepoToolsNext]_rtVars PROVE RepoInv'
  OBVIOUS
<1>1. CASE \E f \in RepoPaths : (\E t \in RepoTexts \union {GoneText} : RepoEdit(f, t)) \/ IndexerReads(f)
  BY <1>1, RepoEditKeeps, IndexerReadsKeeps DEF AnyText
<1>2. CASE \E k \in ToSet(NoteResources) : NotesChange(k)
  BY <1>2, NotesChangeKeeps
<1>3. CASE \E kind \in {"search", "list"}, files \in RepoGlobs, p \in BOOLEAN : RepoAsked(kind, files, p)
  BY <1>3, RepoAskedKeeps
<1>4. CASE \E f \in RepoPaths, range \in ReadRequests : ReadFile(f, range)
  BY <1>4, ReadFileKeeps
<1>5. CASE IndexerStores
  BY <1>5, IndexerStoresKeeps
<1>6. CASE ListVisits
  BY <1>6, ListVisitsKeeps
<1>7. CASE SearchStats
  BY <1>7, SearchStatsKeeps
<1>8. CASE SearchReads
  BY <1>8, SearchReadsKeeps
<1>9. CASE PageAsked
  BY <1>9, PageAskedKeeps
<1>10. CASE AnswerTaken
  BY <1>10, AnswerTakenKeeps
<1>11. CASE UNCHANGED rtVars
  BY <1>11, CallStays, PagesStay DEF rtVars, RepoInv, TreeHolds
<1> QED BY <1>1, <1>2, <1>3, <1>4, <1>5, <1>6, <1>7, <1>8, <1>9, <1>10, <1>11 DEF RepoToolsNext

\* Lines one after the other.
LEMMA LineBytesOneMore ==
    ASSUME NEW lines \in Seq(RepoLine), NEW S, S \subseteq DOMAIN lines, NEW y \in S
    PROVE  LineBytes(lines, S) = lines[y].bytes + 1 + LineBytes(lines, S \ {y})
<1> DEFINE g == Sizes(lines, S)
           h == Sizes(lines, S \ {y})
<1>1. Summands(g, S) /\ LineBytes(lines, S) = SumOver(g, S)
  BY LineBytesAdd
<1>2. Summands(h, S \ {y}) /\ LineBytes(lines, S \ {y}) = SumOver(h, S \ {y})
  BY LineBytesAdd
<1>3. g[y] = lines[y].bytes + 1 /\ \A n \in S \ {y} : h[n] = g[n]
  BY DEF Sizes
<1> HIDE DEF g, h
<1>4. SumOver(g, S) = g[y] + SumOver(g, S \ {y})
  BY <1>1, SumWithout
<1>5. SumOver(h, S \ {y}) = SumOver(g, S \ {y})
  BY <1>2, <1>3, SumSame
<1> QED BY <1>1, <1>2, <1>3, <1>4, <1>5

LEMMA NoLineBytes ==
    ASSUME NEW lines \in Seq(RepoLine) PROVE LineBytes(lines, {}) = 0
<1>1. Summands(Sizes(lines, {}), {}) /\ LineBytes(lines, {}) = SumOver(Sizes(lines, {}), {})
  BY LineBytesAdd
<1> QED BY <1>1, SumIsNatural

\* The bytes of the lines among the first n that are in A.
UpTo(lines, A, n) == LineBytes(lines, A \intersect (1..n))
Accumulates(lines, A) ==
    /\ UpTo(lines, A, 0) = 0
    /\ \A n \in 0..Len(lines) : UpTo(lines, A, n) \in Nat
    /\ \A n \in 1..Len(lines) :
          UpTo(lines, A, n) = UpTo(lines, A, n - 1) + IF n \in A THEN lines[n].bytes + 1 ELSE 0
    /\ UpTo(lines, A, Len(lines)) = LineBytes(lines, A)
LEMMA UpToGrows ==
    ASSUME NEW lines \in Seq(RepoLine), NEW A, A \subseteq DOMAIN lines
    PROVE  Accumulates(lines, A)
<1>0. Len(lines) \in Nat /\ DOMAIN lines = 1..Len(lines)
  BY LineIsTyped
<1>1. UpTo(lines, A, 0) = 0
  <2>1. A \intersect (1..0) = {}
    OBVIOUS
  <2> QED BY <2>1, NoLineBytes DEF UpTo
<1>2. ASSUME NEW n \in 0..Len(lines) PROVE UpTo(lines, A, n) \in Nat
  <2>1. A \intersect (1..n) \subseteq DOMAIN lines
    OBVIOUS
  <2> QED BY <2>1, LineBytesAdd DEF UpTo
<1>3. ASSUME NEW n \in 1..Len(lines)
      PROVE  UpTo(lines, A, n) = UpTo(lines, A, n - 1) + IF n \in A THEN lines[n].bytes + 1 ELSE 0
  <2> DEFINE S == A \intersect (1..n)
             T == A \intersect (1..(n - 1))
  <2>1. S \subseteq DOMAIN lines /\ S \ {n} = T /\ (n \in A => n \in S) /\ (n \notin A => S = T)
    BY <1>0
  <2>2. UpTo(lines, A, n) = LineBytes(lines, S) /\ UpTo(lines, A, n - 1) = LineBytes(lines, T)
    BY DEF UpTo
  <2>3. LineBytes(lines, T) \in Nat /\ lines[n].bytes \in Nat
    <3>1. T \subseteq DOMAIN lines
      BY <1>0
    <3> HIDE DEF T
    <3> QED BY <1>0, <3>1, LineBytesAdd, LineIsTyped
  <2> HIDE DEF S, T
  <2>4. CASE n \in A
    <3>1. LineBytes(lines, S) = lines[n].bytes + 1 + LineBytes(lines, T)
      BY <2>1, <2>4, LineBytesOneMore
    <3> QED BY <2>2, <2>3, <2>4, <3>1
  <2>5. CASE n \notin A
    BY <2>1, <2>2, <2>3, <2>5
  <2> QED BY <2>4, <2>5
<1>4. A \intersect (1..Len(lines)) = A
  BY <1>0
<1>5. UpTo(lines, A, Len(lines)) = LineBytes(lines, A)
  BY <1>4 DEF UpTo
<1> QED BY <1>1, <1>2, <1>3, <1>5 DEF Accumulates

\* The ends of the lines lie one after the other.
LEMMA EndsGrow ==
    ASSUME NEW lines \in Seq(RepoLine)
    PROVE  /\ LineEnd(lines, 0) = 0
           /\ \A n \in 0..Len(lines) : LineEnd(lines, n) \in Nat
           /\ \A n \in 1..Len(lines) : LineEnd(lines, n) = LineEnd(lines, n - 1) + lines[n].bytes + 1
           /\ \A m, n \in 0..Len(lines) : m < n => LineEnd(lines, m) < LineEnd(lines, n)
<1> DEFINE D == DOMAIN lines
           E(n) == LineEnd(lines, n)
           N == Len(lines)
<1>0. N \in Nat /\ D = 1..N /\ \A n \in D : lines[n].bytes \in Nat
  BY LineIsTyped
<1>10. Accumulates(lines, D)
  BY UpToGrows
<1>1. \A n \in 0..N : E(n) = UpTo(lines, D, n)
  <2>1. \A n \in 0..N : D \intersect (1..n) = 1..n
    BY <1>0
  <2> QED BY <2>1 DEF UpTo, LineEnd
<1>2. E(0) = 0 /\ \A n \in 0..N : E(n) \in Nat
  BY <1>0, <1>1, <1>10 DEF Accumulates
<1>3. \A n \in 1..N : E(n) = E(n - 1) + lines[n].bytes + 1
  <2> TAKE n \in 1..N
  <2>1. n \in 0..N /\ n - 1 \in 0..N /\ n \in D
    BY <1>0
  <2>2. UpTo(lines, D, n) = UpTo(lines, D, n - 1) + (lines[n].bytes + 1)
    BY <2>1, <1>10 DEF Accumulates
  <2>3. E(n - 1) \in Nat /\ lines[n].bytes \in Nat
    BY <1>0, <1>2, <2>1
  <2>4. E(n) = E(n - 1) + (lines[n].bytes + 1)
    BY <1>1, <2>1, <2>2
  <2> HIDE DEF E
  <2> QED BY <2>3, <2>4
<1> HIDE DEF E
<1> DEFINE Good == {n \in Nat : n <= N => \A m \in 0..n : m < n => E(m) < E(n)}
<1>4. 0 \in Good
  OBVIOUS
<1>5. ASSUME NEW n \in Nat, n \in Good PROVE n + 1 \in Good
  <2> SUFFICES ASSUME n + 1 <= N, NEW m \in 0..(n + 1), m < n + 1 PROVE E(m) < E(n + 1)
    OBVIOUS
  <2>1. n <= N /\ n \in 0..N /\ n + 1 \in 1..N /\ (n + 1) - 1 = n /\ n + 1 \in D /\ m \in 0..n /\ m \in 0..N
    BY <1>0
  <2>2. E(n) < E(n + 1)
    <3>1. E(n + 1) = E(n) + lines[n + 1].bytes + 1
      BY <1>3, <2>1
    <3>2. lines[n + 1].bytes \in Nat /\ E(n) \in Nat
      BY <1>0, <1>2, <2>1
    <3> QED BY <3>1, <3>2
  <2>3. m = n \/ E(m) < E(n)
    BY <1>5, <2>1
  <2>4. E(m) \in Nat /\ E(n) \in Nat /\ E(n + 1) \in Nat
    BY <1>0, <1>2, <2>1
  <2> QED BY <2>2, <2>3, <2>4
<1>6. Nat \subseteq Good
  <2> HIDE DEF Good
  <2> QED BY <1>4, <1>5, Induction
<1>7. ASSUME NEW m \in 0..N, NEW n \in 0..N, m < n PROVE E(m) < E(n)
  <2>1. n \in Nat /\ n <= N /\ m \in 0..n
    BY <1>0, <1>7
  <2> QED BY <1>6, <1>7, <2>1
<1> QED BY <1>2, <1>3, <1>7 DEF E

\* The loop of readFileContent over the segments.
NothingRead == [bytes |-> 0, over |-> FALSE]
SegmentsAreReadKeep(range, most, S, T) == \A k \in S, x \in T : SegmentRead(range, most, k, x) \in S
SegmentsAreReadInTurn(range, most, S, s) ==
    \E g \in [0..Len(s) -> S] :
        /\ g[0] = NothingRead /\ g[Len(s)] = SegmentsRead(range, most, s)
        /\ \A i \in 1..Len(s) : g[i] = SegmentRead(range, most, g[i - 1], s[i])
LEMMA SegmentsAreRead ==
    ASSUME NEW range, NEW most, NEW S, NEW T, NEW s \in Seq(T), NothingRead \in S,
           SegmentsAreReadKeep(range, most, S, T)
    PROVE  SegmentsAreReadInTurn(range, most, S, s)
<1> DEFINE N == Len(s)
           Op(k, x) == SegmentRead(range, most, k, x)
           Turn(f) == f = [t \in SUBSET (DOMAIN s) |->
                             IF t = {} THEN NothingRead
                             ELSE LET x == Max(t) IN SegmentRead(range, most, f[t \ {x}], s[x])]
           F == CHOOSE f : Turn(f)
           G == [i \in 1..N |-> [k \in S |-> Op(k, s[i])]]
           g == [i \in 0..N |-> F[1..i]]
<1>0. N \in Nat /\ DOMAIN s = 1..N /\ (\A i \in 1..N : s[i] \in T)
  BY LenProperties
<1>1. SegmentsRead(range, most, s) = F[DOMAIN s]
  BY DEF NothingRead, SegmentsRead, FoldLeft, MapThenFoldSet
<1>2. \A k \in S, i \in 1..N : Op(k, s[i]) \in S
  BY <1>0 DEF SegmentsAreReadKeep
<1>3. Turn(F) <=> F = [t \in SUBSET (1..N) |-> IF t = {} THEN NothingRead
                                               ELSE Op(F[t \ {Max(t)}], s[Max(t)])]
  BY <1>0
<1> HIDE DEF N, Op
<1>4. PICK f \in [SUBSET (1..N) -> S] : FoldsUp(f, G, NothingRead, N)
  <2>1. G \in [1..N -> [S -> S]]
    BY <1>2
  <2> HIDE DEF G
  <2> QED BY <1>0, <2>1, FoldExists
<1>5. f = [t \in SUBSET (1..N) |-> IF t = {} THEN NothingRead ELSE Op(f[t \ {Max(t)}], s[Max(t)])]
  <2>1. ASSUME NEW t \in SUBSET (1..N), t # {}
        PROVE  G[Max(t)][f[t \ {Max(t)}]] = Op(f[t \ {Max(t)}], s[Max(t)])
    <3>1. Max(t) \in 1..N /\ f[t \ {Max(t)}] \in S
      BY <1>0, <2>1, MaxOfNumbers
    <3> QED BY <3>1
  <2> HIDE DEF G
  <2> QED BY <1>0, <1>4, <2>1 DEF FoldsUp
<1>6. Turn(f)
  BY <1>0, <1>5 DEF Op
<1> HIDE DEF Turn
<1>7. Turn(F)
  BY <1>6
<1> HIDE DEF F
<1>8. F = [t \in SUBSET (1..N) |-> IF t = {} THEN NothingRead ELSE Op(F[t \ {Max(t)}], s[Max(t)])]
  BY <1>3, <1>7
<1>9. F[1..0] = NothingRead
  BY <1>0, <1>8
<1>10. ASSUME NEW i \in 1..N PROVE F[1..i] = Op(F[1..(i - 1)], s[i])
  <2>1. 1..i \in SUBSET (1..N) /\ 1..i # {} /\ Max(1..i) = i /\ (1..i) \ {i} = 1..(i - 1)
    BY <1>0, UpToNumber
  <2> QED BY <1>0, <1>8, <2>1
<1>11. /\ DOMAIN g = 0..N /\ g[0] = NothingRead /\ g[N] = F[1..N]
       /\ \A i \in 1..N : g[i] = Op(g[i - 1], s[i])
  BY <1>0, <1>9, <1>10
<1>12. g = [i \in 0..N |-> g[i]]
  OBVIOUS
<1> HIDE DEF g
<1>13. \A i \in 0..N : g[i] \in S
  <2>1. \A i \in 1..N : g[i - 1] \in S => g[i] \in S
    BY <1>2, <1>11
  <2> QED BY <1>0, <1>11, <2>1, TurnsStay
<1> QED BY <1>0, <1>1, <1>11, <1>12, <1>13 DEF Op, N, SegmentsAreReadInTurn

\* A byte lies in one line.
LEMMA LineOfByte ==
    ASSUME NEW lines \in Seq(RepoLine), NEW b \in 1..LineEnd(lines, Len(lines))
    PROVE  LET n == LineAt(lines, b) IN
           /\ n \in 1..Len(lines) /\ b <= LineEnd(lines, n) /\ LineEnd(lines, n - 1) < b
<1> DEFINE N == Len(lines)
           E(n) == LineEnd(lines, n)
           T == {n \in DOMAIN lines : b <= E(n)}
           n == LineAt(lines, b)
<1>0. N \in Nat /\ DOMAIN lines = 1..N
  BY LineIsTyped
<1>1. E(0) = 0 /\ \A m \in 0..N : E(m) \in Nat
  BY EndsGrow
<1>2. N \in T
  <2>1. N # 0
    BY <1>1
  <2>2. E(N) \in Nat /\ b <= E(N)
    BY <1>0, <1>1
  <2> QED BY <1>0, <2>1, <2>2
<1>3. n = Min(T)
  BY DEF LineAt
<1>4. n \in T /\ \A y \in T : n <= y
  <2>1. T \subseteq Nat /\ T # {}
    BY <1>0, <1>2
  <2> HIDE DEF T, n
  <2> QED BY <1>3, <2>1, MinOfNumbers
<1> HIDE DEF n
<1>5. n \in 1..N /\ b <= E(n) /\ n - 1 \in 0..N
  BY <1>0, <1>4
<1>6. E(n - 1) < b
  <2>1. CASE n = 1
    BY <1>1, <2>1
  <2>2. CASE n # 1
    <3>1. n - 1 \in DOMAIN lines /\ ~(n <= n - 1)
      BY <1>0, <1>5, <2>2
    <3>2. ~(b <= E(n - 1))
      BY <1>4, <3>1
    <3>3. E(n - 1) \in Nat
      BY <1>1, <1>5
    <3> HIDE DEF E
    <3> QED BY <3>2, <3>3
  <2> QED BY <2>1, <2>2
<1> QED BY <1>5, <1>6 DEF n

\* Where a segment begins.
CutBefore(cuts, i) == IF i = 0 THEN 0 ELSE cuts[i]
\* The cuts lie one after the other, none of them jumps over an end of a line, and the
\* last one is the end of the text.
Cuttings(lines, cuts) ==
    /\ cuts \in Seq(Nat)
    /\ \A i \in 1..Len(cuts) : cuts[i] \in 1..LineEnd(lines, Len(lines))
    /\ \A i, j \in 1..Len(cuts) : i < j => cuts[i] < cuts[j]
    /\ \A n \in 1..Len(lines) : \E i \in 1..Len(cuts) : cuts[i] = LineEnd(lines, n)
LEMMA CutsHold ==
    ASSUME NEW lines \in Seq(RepoLine) PROVE Cuttings(lines, Cuts(lines))
<1> DEFINE N == Len(lines)
           E(n) == LineEnd(lines, n)
           size == E(N)
           s == [b \in 1..size |-> b]
           S == {E(n) : n \in DOMAIN lines} \union {b \in 1..size : b % ReadBuffer = 0}
           cuts == Cuts(lines)
<1>0. N \in Nat /\ DOMAIN lines = 1..N
  BY LineIsTyped
<1>1. /\ E(0) = 0 /\ \A n \in 0..N : E(n) \in Nat
      /\ \A m, n \in 0..N : m < n => E(m) < E(n)
  BY EndsGrow
<1>2. size \in Nat
  <2>1. N \in 0..N
    BY <1>0
  <2> QED BY <1>1, <2>1
<1>3. cuts = Within(s, S)
  BY DEF Cuts
<1>4. \A n \in 1..N : E(n) \in 1..size /\ E(n) \in S
  <2> TAKE n \in 1..N
  <2>1. n \in 0..N /\ 0 \in 0..N /\ N \in 0..N /\ 0 < n /\ (n = N \/ n < N)
    <3>1. N \in Nat
      BY <1>0
    <3> HIDE DEF N
    <3> QED BY <3>1
  <2>2. 0 < E(n) /\ (n = N \/ E(n) < E(N)) /\ E(n) \in Nat
    BY <1>1, <2>1
  <2>3. E(n) \in S
    BY <1>0
  <2> HIDE DEF E, S
  <2>4. E(n) \in 1..E(N)
    BY <1>2, <2>2
  <2> QED BY <2>3, <2>4
<1> HIDE DEF E, size, S, cuts
<1>5. s \in Seq(1..size) /\ Len(s) = size /\ \A b \in 1..size : s[b] = b
  BY <1>2, SeqDef, LenProperties
<1> HIDE DEF s
<1>6. cuts \in Seq(1..size)
  BY <1>3, <1>5, WithinPicks
<1>7. PICK f : Picks(f, cuts, s, S, size)
  BY <1>3, <1>5, WithinPicks
<1>8. \A i \in 1..Len(cuts) : f[i] \in 1..size /\ cuts[i] = f[i]
  BY <1>5, <1>7 DEF Picks
<1>9. \A i, j \in 1..Len(cuts) : i < j => cuts[i] < cuts[j]
  BY <1>7, <1>8 DEF Picks
<1>10. ASSUME NEW n \in 1..N PROVE \E i \in 1..Len(cuts) : cuts[i] = E(n)
  <2>1. E(n) \in 1..size /\ s[E(n)] \in S
    BY <1>4, <1>5
  <2>2. PICK i \in 1..Len(cuts) : f[i] = E(n)
    BY <1>7, <2>1 DEF Picks
  <2> QED BY <1>8, <2>2
<1>11. cuts \in Seq(Nat)
  <2> DEFINE B == 1..size
  <2>1. B \subseteq Nat
    BY <1>2
  <2>2. cuts \in Seq(B)
    BY <1>6
  <2> HIDE DEF B
  <2> QED BY <2>1, <2>2, SeqOfMore
<1> QED BY <1>8, <1>9, <1>10, <1>11 DEF Cuttings, cuts, size, E

\* A segment lies in one line.
LEMMA SegmentInLine ==
    ASSUME NEW lines \in Seq(RepoLine), NEW cuts, Cuttings(lines, cuts), NEW i \in 1..Len(cuts)
    PROVE  LET n == LineAt(lines, cuts[i])
               b == CutBefore(cuts, i - 1) IN
           /\ n \in 1..Len(lines) /\ b \in Nat /\ cuts[i] \in Nat
           /\ LineEnd(lines, n - 1) <= b /\ b < cuts[i] /\ cuts[i] <= LineEnd(lines, n)
<1> DEFINE N == Len(lines)
           E(n) == LineEnd(lines, n)
           n == LineAt(lines, cuts[i])
           b == CutBefore(cuts, i - 1)
           K == Len(cuts)
<1>0. /\ N \in Nat /\ K \in Nat /\ E(0) = 0 /\ (\A m \in 0..N : E(m) \in Nat)
      /\ \A j \in 1..K : cuts[j] \in Nat
  <2>1. cuts \in Seq(Nat)
    BY DEF Cuttings
  <2> QED BY <2>1, EndsGrow, LineIsTyped, LenProperties
<1>1. n \in 1..N /\ cuts[i] <= E(n) /\ E(n - 1) < cuts[i]
  BY LineOfByte DEF Cuttings
<1>2. cuts[i] \in Nat /\ cuts[i] > 0
  <2>1. cuts[i] \in 1..E(N)
    BY DEF Cuttings
  <2>2. E(N) \in Nat
    BY <1>0
  <2> HIDE DEF E
  <2> QED BY <2>1, <2>2
<1>3. b \in Nat /\ b < cuts[i]
  <2>1. CASE i = 1
    BY <1>2, <2>1 DEF CutBefore
  <2>2. CASE i # 1
    <3>1. i - 1 \in 1..K /\ i - 1 < i /\ i - 1 # 0
      BY <1>0, <2>2
    <3>2. b = cuts[i - 1]
      BY <3>1 DEF CutBefore
    <3> QED BY <1>0, <3>1, <3>2 DEF Cuttings
  <2> QED BY <2>1, <2>2
<1>4. E(n - 1) <= b
  <2> DEFINE m == n - 1
  <2>1. m \in 0..N
    BY <1>0, <1>1
  <2>2. CASE m = 0
    BY <1>0, <1>3, <2>2
  <2>3. CASE m # 0
    <3>1. m \in 1..N
      <4>1. N \in Nat
        BY <1>0
      <4> HIDE DEF N, m
      <4> QED BY <2>1, <2>3, <4>1
    <3>2. PICK j \in 1..K : cuts[j] = E(m)
      <4> HIDE DEF m
      <4> QED BY <3>1 DEF Cuttings
    <3>3. cuts[j] < cuts[i]
      BY <1>1, <3>2
    <3>4. j < i
      <4>1. ~(i < j)
        <5>1. ~(cuts[i] < cuts[j])
          BY <1>0, <1>2, <3>3
        <5> QED BY <5>1 DEF Cuttings
      <4>2. j # i
        BY <1>2, <3>3
      <4> QED BY <1>0, <4>1, <4>2
    <3>5. i - 1 \in 1..K /\ i - 1 # 0 /\ (j = i - 1 \/ j < i - 1)
      BY <1>0, <3>4
    <3>6. b = cuts[i - 1] /\ cuts[i - 1] \in Nat /\ cuts[j] \in Nat
      BY <1>0, <3>5 DEF CutBefore
    <3>7. j = i - 1 \/ cuts[j] < cuts[i - 1]
      BY <3>5 DEF Cuttings
    <3> HIDE DEF b
    <3>8. cuts[j] <= b
      BY <3>6, <3>7
    <3> QED BY <3>2, <3>8
  <2> QED BY <2>2, <2>3
<1> QED BY <1>1, <1>2, <1>3, <1>4

\* The last cut is the end of the text, if there is one.
LEMMA LastCut ==
    ASSUME NEW lines \in Seq(RepoLine), NEW cuts, Cuttings(lines, cuts)
    PROVE  /\ Len(cuts) \in Nat
           /\ CutBefore(cuts, Len(cuts)) = LineEnd(lines, Len(lines))
<1> DEFINE N == Len(lines)
           E(n) == LineEnd(lines, n)
           K == Len(cuts)
<1>0. N \in Nat /\ K \in Nat /\ E(0) = 0 /\ E(N) \in Nat
  <2>1. cuts \in Seq(Nat)
    BY DEF Cuttings
  <2>2. N \in Nat /\ K \in Nat
    BY <2>1, LineIsTyped, LenProperties
  <2> QED BY <2>2, EndsGrow
<1>1. CASE N = 0
  <2>1. \A i \in 1..K : cuts[i] \in 1..0
    BY <1>0, <1>1 DEF Cuttings
  <2>2. K = 0
    <3>1. \A i \in 1..K : FALSE
      BY <2>1
    <3>2. K > 0 => K \in 1..K
      BY <1>0
    <3> QED BY <1>0, <3>1, <3>2
  <2> QED BY <1>0, <1>1, <2>2 DEF CutBefore
<1>2. CASE N # 0
  <2>1. N \in 1..N
    BY <1>0, <1>2
  <2>2. PICK i \in 1..K : cuts[i] = E(N)
    BY <2>1 DEF Cuttings
  <2>3. K \in 1..K /\ K # 0 /\ (i = K \/ i < K)
    BY <1>0
  <2>4. i = K \/ cuts[i] < cuts[K]
    BY <2>3 DEF Cuttings
  <2>5. cuts[K] \in 1..E(N)
    BY <2>3 DEF Cuttings
  <2> HIDE DEF E
  <2>6. cuts[K] = E(N)
    BY <1>0, <2>2, <2>4, <2>5
  <2> QED BY <1>0, <2>3, <2>6 DEF CutBefore, E
<1> QED BY <1>0, <1>1, <1>2

\* The lines a read asks for.
Asked(range, lines) ==
    {n \in DOMAIN lines : range.start <= n /\ (range.end = 0 \/ n <= range.end)}
\* The bytes asked for among the first b, b lying in line n.
Wanted(lines, A, n, b) ==
    UpTo(lines, A, n - 1) + IF n \in A THEN b - LineEnd(lines, n - 1) ELSE 0
\* What the loop has when it has come to byte b of line n: all of it up to the limit,
\* and when it has stopped there is nothing more to have.
ReadState == [bytes : Nat, over : BOOLEAN]
ReadUpTo(read, range, most, lines, n, b) ==
    /\ read.bytes = Least(most, Wanted(lines, Asked(range, lines), n, b))
    /\ read.over => read.bytes = most \/ (range.end > 0 /\ n > range.end)
InLine(lines, n, b) == LineEnd(lines, n - 1) <= b /\ b <= LineEnd(lines, n)

LEMMA AskedLines ==
    ASSUME NEW range \in [start : Nat, end : Nat, max : Nat], NEW lines \in Seq(RepoLine)
    PROVE  /\ range.start \in Nat /\ range.end \in Nat /\ range.max \in Nat
           /\ Asked(range, lines) \subseteq DOMAIN lines
           /\ \A n \in 1..Len(lines) :
                 n \in Asked(range, lines) <=> range.start <= n /\ (range.end = 0 \/ n <= range.end)
<1>1. DOMAIN lines = 1..Len(lines)
  BY LineIsTyped
<1> QED BY <1>1 DEF Asked

WantedGrows(lines, A, n) ==
    /\ \A b \in Nat : LineEnd(lines, n - 1) <= b => Wanted(lines, A, n, b) \in Nat
    /\ Wanted(lines, A, n, LineEnd(lines, n)) = UpTo(lines, A, n)
    /\ n + 1 \in 1..Len(lines) => Wanted(lines, A, n + 1, LineEnd(lines, n)) = UpTo(lines, A, n)
    /\ \A b, c \in Nat : LineEnd(lines, n - 1) <= b /\ b <= c =>
          Wanted(lines, A, n, c) = Wanted(lines, A, n, b) + IF n \in A THEN c - b ELSE 0
LEMMA WantedHolds ==
    ASSUME NEW lines \in Seq(RepoLine), NEW A, A \subseteq DOMAIN lines, NEW n \in 1..Len(lines)
    PROVE  WantedGrows(lines, A, n)
<1> DEFINE E(k) == LineEnd(lines, k)
           U(k) == UpTo(lines, A, k)
           N == Len(lines)
<1>0. N \in Nat /\ n \in 0..N /\ n - 1 \in 0..N /\ n - 1 \in Nat
  <2>1. N \in Nat
    BY LineIsTyped
  <2> HIDE DEF N
  <2> QED BY <2>1 DEF N
<1>1. E(n - 1) \in Nat /\ E(n) \in Nat /\ E(n) = E(n - 1) + lines[n].bytes + 1
  BY <1>0, EndsGrow
<1>2. U(n - 1) \in Nat /\ U(n) \in Nat /\ U(n) = U(n - 1) + IF n \in A THEN lines[n].bytes + 1 ELSE 0
  <2>0. Accumulates(lines, A)
    BY UpToGrows
  <2>1. U(n - 1) \in Nat /\ U(n) \in Nat
    BY <1>0, <2>0 DEF Accumulates
  <2>2. \A k \in 1..N : U(k) = U(k - 1) + IF k \in A THEN lines[k].bytes + 1 ELSE 0
    BY <2>0 DEF Accumulates
  <2> HIDE DEF U
  <2> QED BY <2>1, <2>2
<1>3. lines[n].bytes \in Nat
  BY LineIsTyped
<1>4. \A b : Wanted(lines, A, n, b) = U(n - 1) + IF n \in A THEN b - E(n - 1) ELSE 0
  BY DEF Wanted
<1> HIDE DEF E, U
<1>5. \A b \in Nat : E(n - 1) <= b => Wanted(lines, A, n, b) \in Nat
  BY <1>1, <1>2, <1>4
<1>6. Wanted(lines, A, n, E(n)) = U(n)
  BY <1>1, <1>2, <1>3, <1>4
<1>7. ASSUME n + 1 \in 1..N PROVE Wanted(lines, A, n + 1, E(n)) = U(n)
  <2>1. (n + 1) - 1 = n
    OBVIOUS
  <2>2. Wanted(lines, A, n + 1, E(n)) = U(n) + IF n + 1 \in A THEN E(n) - E(n) ELSE 0
    BY <2>1 DEF Wanted, U, E
  <2> QED BY <1>1, <1>2, <2>2
<1>8. \A b, c \in Nat : E(n - 1) <= b /\ b <= c =>
         Wanted(lines, A, n, c) = Wanted(lines, A, n, b) + IF n \in A THEN c - b ELSE 0
  BY <1>1, <1>2, <1>4
<1> QED BY <1>5, <1>6, <1>7, <1>8 DEF E, U, WantedGrows

\* A segment, from b to c of line n, is read.
LEMMA SegmentIsRead ==
    ASSUME NEW lines \in Seq(RepoLine), NEW range \in [start : Nat, end : Nat, max : Nat],
           NEW most \in Nat, NEW read \in ReadState,
           NEW n \in 1..Len(lines), NEW b \in Nat, NEW c \in Nat,
           InLine(lines, n, b), InLine(lines, n, c), b < c,
           NEW seg, seg.line = n, seg.bytes = c - b,
           ReadUpTo(read, range, most, lines, n, b)
    PROVE  LET next == SegmentRead(range, most, read, seg) IN
           next \in ReadState /\ ReadUpTo(next, range, most, lines, n, c)
<1> DEFINE A == Asked(range, lines)
           was == Wanted(lines, A, n, b)
           now == Wanted(lines, A, n, c)
           next == SegmentRead(range, most, read, seg)
           Over == read.over \/ (range.end > 0 /\ n > range.end) \/ read.bytes >= most
           Early == n < range.start
<1>0. /\ range.start \in Nat /\ range.end \in Nat /\ A \subseteq DOMAIN lines
      /\ n \in A <=> range.start <= n /\ (range.end = 0 \/ n <= range.end)
  BY AskedLines
<1>1. was \in Nat /\ now = was + IF n \in A THEN c - b ELSE 0
  <2>1. LineEnd(lines, n - 1) <= b /\ b <= c
    BY DEF InLine
  <2>2. /\ \A x \in Nat : LineEnd(lines, n - 1) <= x => Wanted(lines, A, n, x) \in Nat
        /\ \A x, y \in Nat : LineEnd(lines, n - 1) <= x /\ x <= y =>
              Wanted(lines, A, n, y) = Wanted(lines, A, n, x) + IF n \in A THEN y - x ELSE 0
    <3> HIDE DEF A
    <3>1. WantedGrows(lines, A, n)
      BY <1>0, WantedHolds
    <3> QED BY <3>1 DEF WantedGrows
  <2> HIDE DEF A
  <2> QED BY <2>1, <2>2
<1>2. /\ read.bytes \in Nat /\ read.over \in BOOLEAN /\ DOMAIN read = {"bytes", "over"}
      /\ read.bytes = Least(most, was)
      /\ read.over => read.bytes = most \/ (range.end > 0 /\ n > range.end)
  BY DEF ReadState, ReadUpTo
<1>3. next = IF Over THEN [read EXCEPT !.over = TRUE]
             ELSE IF Early THEN read
             ELSE IF c - b > most - read.bytes THEN [bytes |-> most, over |-> TRUE]
             ELSE [read EXCEPT !.bytes = @ + (c - b)]
  BY DEF SegmentRead
<1>4. n \in Nat
  <2>1. Len(lines) \in Nat
    BY LineIsTyped
  <2> QED BY <2>1
<1> HIDE DEF A, was, now, next
<1> SUFFICES ASSUME TRUE
             PROVE  /\ next \in ReadState /\ next.bytes = Least(most, now)
                    /\ next.over => next.bytes = most \/ (range.end > 0 /\ n > range.end)
  BY DEF ReadUpTo, A, now, next
<1>5. CASE Over
  <2>1. next = [read EXCEPT !.over = TRUE]
    BY <1>3, <1>5
  <2>2. next.bytes = read.bytes /\ next.over = TRUE /\ next \in ReadState
    BY <1>2, <2>1 DEF ReadState
  <2>3. read.bytes = most \/ (range.end > 0 /\ n > range.end)
    BY <1>1, <1>2, <1>5 DEF Least
  <2>4. CASE read.bytes = most
    <3>1. most <= was /\ was <= now
      BY <1>0, <1>1, <1>2, <2>4 DEF Least
    <3>2. Least(most, now) = most
      BY <1>1, <3>1 DEF Least
    <3> QED BY <2>2, <2>4, <3>2
  <2>5. CASE range.end > 0 /\ n > range.end
    <3>1. n \notin A
      BY <1>0, <1>4, <2>5
    <3>2. now = was
      BY <1>1, <3>1
    <3> QED BY <1>2, <2>2, <2>5, <3>2
  <2> QED BY <2>3, <2>4, <2>5
<1>6. CASE ~Over /\ Early
  <2>1. next = read
    BY <1>3, <1>6
  <2>2. n \notin A
    BY <1>0, <1>4, <1>6
  <2>3. now = was
    BY <1>1, <2>2
  <2> QED BY <1>2, <2>1, <2>3
<1>7. CASE ~Over /\ ~Early
  <2>1. n \in A
    BY <1>0, <1>4, <1>7
  <2>2. now = was + (c - b)
    BY <1>1, <2>1
  <2>3. read.bytes = was /\ was < most /\ read.over = FALSE
    <3>1. ~(read.bytes >= most) /\ ~read.over
      BY <1>7
    <3> QED BY <1>1, <1>2, <3>1 DEF Least
  <2>4. CASE c - b > most - read.bytes
    <3>1. next = [bytes |-> most, over |-> TRUE]
      BY <1>3, <1>7, <2>4
    <3>2. next.bytes = most /\ next.over = TRUE /\ next \in ReadState
      BY <3>1 DEF ReadState
    <3>3. now > most
      BY <1>1, <2>2, <2>3, <2>4
    <3>4. Least(most, now) = most
      BY <1>1, <2>2, <3>3 DEF Least
    <3> QED BY <3>2, <3>4
  <2>5. CASE ~(c - b > most - read.bytes)
    <3>1. next = [read EXCEPT !.bytes = @ + (c - b)]
      BY <1>3, <1>7, <2>5
    <3>2. read.bytes + (c - b) \in Nat
      BY <1>2
    <3>3. next.bytes = read.bytes + (c - b) /\ next.over = read.over /\ next \in ReadState
      BY <1>2, <3>1, <3>2 DEF ReadState
    <3>4. now <= most /\ now \in Nat
      BY <1>1, <2>2, <2>3, <2>5
    <3>5. Least(most, now) = now
      BY <3>4 DEF Least
    <3> QED BY <2>2, <2>3, <3>3, <3>5
  <2> QED BY <2>4, <2>5
<1> QED BY <1>5, <1>6, <1>7

\* At an end of a line the one after it is where the loop is, too.
LEMMA ReadAtTheEnd ==
    ASSUME NEW lines \in Seq(RepoLine), NEW range \in [start : Nat, end : Nat, max : Nat],
           NEW most \in Nat, NEW read,
           NEW n \in 1..Len(lines), NEW m \in 1..Len(lines), NEW c \in Nat,
           LineEnd(lines, n - 1) < c, c <= LineEnd(lines, n), InLine(lines, m, c),
           ReadUpTo(read, range, most, lines, n, c)
    PROVE  ReadUpTo(read, range, most, lines, m, c)
<1> DEFINE E(k) == LineEnd(lines, k)
           A == Asked(range, lines)
           N == Len(lines)
<1>0. /\ N \in Nat /\ (\A k \in 0..N : E(k) \in Nat)
      /\ \A j, k \in 0..N : j < k => E(j) < E(k)
  BY EndsGrow, LineIsTyped
<1>1. /\ range.end \in Nat /\ A \subseteq DOMAIN lines
  BY AskedLines
<1>2. E(m - 1) <= c /\ c <= E(m) /\ E(n - 1) < c /\ c <= E(n)
  BY DEF InLine
<1>3. n \in Nat /\ m \in Nat /\ n - 1 \in 0..N /\ m - 1 \in 0..N /\ n \in 0..N /\ m \in 0..N
  <2>1. N \in Nat
    BY <1>0
  <2> HIDE DEF N, E
  <2>2. n \in 1..N /\ m \in 1..N
    BY DEF N
  <2> QED BY <2>1, <2>2
<1>4. m = n \/ (m = n + 1 /\ c = E(n))
  <2> DEFINE p == m - 1
             q == n - 1
  <2>0. E(p) \in Nat /\ E(m) \in Nat /\ E(n) \in Nat /\ E(q) \in Nat
    BY <1>0, <1>3
  <2>1. ~(m < n)
    <3> SUFFICES ASSUME m < n PROVE FALSE
      OBVIOUS
    <3>1. m = q \/ m < q
      BY <1>3
    <3>2. m = q \/ E(m) < E(q)
      <4> HIDE DEF q
      <4> QED BY <1>0, <1>3, <3>1 DEF q
    <3> HIDE DEF E, q
    <3> QED BY <1>2, <2>0, <3>2 DEF q
  <2>2. ~(n < p)
    <3> SUFFICES ASSUME n < p PROVE FALSE
      OBVIOUS
    <3>1. E(n) < E(p)
      BY <1>0, <1>3
    <3> HIDE DEF E, p
    <3> QED BY <1>2, <2>0, <3>1 DEF p
  <2>3. m = n \/ p = n
    BY <1>3, <2>1, <2>2
  <2>4. p = n => c = E(n)
    <3> HIDE DEF E, p
    <3> QED BY <1>2, <2>0 DEF p
  <2> QED BY <1>3, <2>3, <2>4
<1>5. CASE m = n + 1 /\ c = E(n)
  <2>1. Wanted(lines, A, m, c) = Wanted(lines, A, n, c)
    <3> HIDE DEF A
    <3>1. n + 1 \in 1..Len(lines) /\ c = LineEnd(lines, n)
      BY <1>5
    <3>2. /\ Wanted(lines, A, n, LineEnd(lines, n)) = UpTo(lines, A, n)
          /\ n + 1 \in 1..Len(lines) => Wanted(lines, A, n + 1, LineEnd(lines, n)) = UpTo(lines, A, n)
      <4>1. WantedGrows(lines, A, n)
        BY <1>1, WantedHolds
      <4> QED BY <4>1 DEF WantedGrows
    <3>3. Wanted(lines, A, n + 1, c) = Wanted(lines, A, n, c)
      BY <3>1, <3>2
    <3> QED BY <1>5, <3>3
  <2>2. n > range.end => m > range.end
    BY <1>1, <1>3, <1>5
  <2> QED BY <2>1, <2>2 DEF ReadUpTo
<1> QED BY <1>4, <1>5

\* What repo_read_file returns: the lines asked for, as far as the limit goes.
LEMMA LoopReadsAll ==
    ASSUME NEW lines \in Seq(RepoLine), NEW range \in [start : Nat, end : Nat, max : Nat],
           NEW most \in Nat
    PROVE  SegmentsRead(range, most, Segments(lines)).bytes =
              Least(most, LineBytes(lines, Asked(range, lines)))
<1> DEFINE cuts == Cuts(lines)
           K == Len(cuts)
           N == Len(lines)
           s == Segments(lines)
           A == Asked(range, lines)
           T == ToSet(s)
           all == SegmentsRead(range, most, s)
<1>0. Cuttings(lines, cuts) /\ cuts \in Seq(Nat)
  BY CutsHold DEF Cuttings
<1>00. K \in Nat /\ DOMAIN cuts = 1..K /\ N \in Nat /\ CutBefore(cuts, K) = LineEnd(lines, N)
  BY <1>0, LastCut, LineIsTyped, LenProperties
<1>1. s = [i \in 1..K |-> [line |-> LineAt(lines, cuts[i]),
                           bytes |-> cuts[i] - IF i = 1 THEN 0 ELSE cuts[i - 1]]]
  BY <1>00 DEF Segments
<1> HIDE DEF cuts, s
<1>2. /\ s \in Seq(T) /\ Len(s) = K
      /\ \A i \in 1..K : /\ s[i].line = LineAt(lines, cuts[i])
                         /\ s[i].bytes = cuts[i] - CutBefore(cuts, i - 1)
  <2> HIDE DEF K
  <2>1. \A i \in 1..K : (i - 1 = 0) <=> (i = 1)
    BY <1>00
  <2>2. DOMAIN s = 1..K /\ s = [i \in 1..K |-> s[i]]
    BY <1>1
  <2>3. \A i \in 1..K : s[i] \in T
    BY <2>2 DEF ToSet
  <2> HIDE DEF T
  <2>4. s \in [1..K -> T]
    BY <2>2, <2>3
  <2>5. s \in Seq(T) /\ Len(s) = K
    BY <1>00, <2>4, SeqDef, LenProperties
  <2> QED BY <1>1, <2>1, <2>5 DEF CutBefore
\* Every segment has its line and its bytes, so the loop keeps its type.
<1>3. \A x \in T : x.bytes \in Nat
  <2>1. \A x \in T : \E i \in 1..K : x = s[i]
    <3>1. DOMAIN s = 1..K
      BY <1>1
    <3> QED BY <3>1 DEF ToSet
  <2>2. ASSUME NEW i \in 1..K PROVE s[i].bytes \in Nat
    <3>1. CutBefore(cuts, i - 1) \in Nat /\ cuts[i] \in Nat /\ CutBefore(cuts, i - 1) < cuts[i]
      BY <1>0, SegmentInLine
    <3> QED BY <1>2, <3>1
  <2> QED BY <2>1, <2>2
<1> HIDE DEF T, K, N
<1>4. NothingRead \in ReadState
  BY DEF NothingRead, ReadState
<1>5. SegmentsAreReadKeep(range, most, ReadState, T)
  <2> SUFFICES ASSUME NEW k \in ReadState, NEW x \in T PROVE SegmentRead(range, most, k, x) \in ReadState
    BY DEF SegmentsAreReadKeep
  <2>1. k.bytes \in Nat /\ k.over \in BOOLEAN /\ x.bytes \in Nat
    BY <1>3 DEF ReadState
  <2>2. [k EXCEPT !.over = TRUE] \in ReadState
    BY DEF ReadState
  <2>3. [bytes |-> most, over |-> TRUE] \in ReadState
    BY DEF ReadState
  <2>4. [k EXCEPT !.bytes = k.bytes + x.bytes] \in ReadState
    <3>1. k.bytes + x.bytes \in Nat
      BY <2>1
    <3> HIDE DEF T
    <3> QED BY <3>1 DEF ReadState
  <2> QED BY <2>2, <2>3, <2>4 DEF SegmentRead
<1>6. PICK g \in [0..K -> ReadState] :
         /\ g[0] = NothingRead /\ g[K] = all
         /\ \A i \in 1..K : g[i] = SegmentRead(range, most, g[i - 1], s[i])
  <2> DEFINE S == ReadState
  <2>1. NothingRead \in S /\ SegmentsAreReadKeep(range, most, S, T)
    BY <1>4, <1>5
  <2> HIDE DEF S
  <2>2. SegmentsAreReadInTurn(range, most, S, s)
    <3> HIDE DEF all
    <3> QED BY <1>2, <2>1, SegmentsAreRead
  <2> QED BY <1>2, <2>2 DEF S, SegmentsAreReadInTurn
<1> HIDE DEF all
<1> DEFINE R(i) == \A n \in 1..N : InLine(lines, n, CutBefore(cuts, i)) =>
                      ReadUpTo(g[i], range, most, lines, n, CutBefore(cuts, i))
           Good == {i \in Nat : i <= K => R(i)}
<1>7. /\ LineEnd(lines, 0) = 0 /\ (\A n \in 0..N : LineEnd(lines, n) \in Nat)
      /\ \A m, n \in 0..N : m < n => LineEnd(lines, m) < LineEnd(lines, n)
  BY EndsGrow DEF N
<1>8. 0 \in Good
  <2> SUFFICES ASSUME NEW n \in 1..N, InLine(lines, n, 0) PROVE ReadUpTo(g[0], range, most, lines, n, 0)
    BY DEF CutBefore
  <2>1. n = 1
    <3> SUFFICES ASSUME n # 1 PROVE FALSE
      OBVIOUS
    <3>1. 0 \in 0..N /\ n - 1 \in 0..N /\ 0 < n - 1
      BY <1>00
    <3>2. LineEnd(lines, 0) < LineEnd(lines, n - 1)
      BY <1>7, <3>1
    <3>3. LineEnd(lines, n - 1) <= 0
      BY DEF InLine
    <3>4. LineEnd(lines, n - 1) \in Nat
      BY <1>7, <3>1
    <3> QED BY <1>7, <3>2, <3>3, <3>4
  <2>2. Wanted(lines, A, n, 0) = 0
    <3>1. UpTo(lines, A, 0) = 0
      <4>1. A \subseteq DOMAIN lines
        BY DEF Asked
      <4> HIDE DEF A
      <4>2. Accumulates(lines, A)
        BY <4>1, UpToGrows
      <4> QED BY <4>2 DEF Accumulates
    <3>2. n - 1 = 0
      BY <2>1
    <3> HIDE DEF A
    <3> QED BY <1>7, <3>1, <3>2 DEF Wanted
  <2>3. g[0].bytes = 0 /\ g[0].over = FALSE
    BY <1>6 DEF NothingRead
  <2>4. Least(most, 0) = 0
    BY DEF Least
  <2> QED BY <2>2, <2>3, <2>4 DEF ReadUpTo
<1>9. ASSUME NEW j \in Nat, j \in Good PROVE j + 1 \in Good
  <2> SUFFICES ASSUME j + 1 <= K PROVE R(j + 1)
    OBVIOUS
  <2> DEFINE i == j + 1
             n == LineAt(lines, cuts[i])
             b == CutBefore(cuts, i - 1)
             c == CutBefore(cuts, i)
  <2>1. i \in 1..K /\ i - 1 = j /\ i # 0 /\ j <= K /\ i \in 0..K /\ j \in 0..K
    BY <1>00
  <2>2. c = cuts[i]
    BY <2>1 DEF CutBefore
  <2>3. /\ n \in 1..N /\ b \in Nat /\ c \in Nat /\ b < c
        /\ LineEnd(lines, n - 1) <= b /\ c <= LineEnd(lines, n)
    <3> HIDE DEF i, n, b, c
    <3> QED BY <1>0, <2>1, <2>2, SegmentInLine DEF n, b, K, N
  <2>4. LineEnd(lines, n - 1) \in Nat /\ LineEnd(lines, n) \in Nat
    <3> HIDE DEF n
    <3>1. n \in 0..N /\ n - 1 \in 0..N
      BY <1>00, <2>3
    <3> QED BY <1>7, <3>1
  <2>5. b = CutBefore(cuts, j)
    BY <2>1
  <2> HIDE DEF n, b, c
  <2>6. InLine(lines, n, b) /\ InLine(lines, n, c) /\ LineEnd(lines, n - 1) < c
    BY <2>3, <2>4 DEF InLine
  <2>7. ReadUpTo(g[j], range, most, lines, n, b)
    BY <1>9, <2>1, <2>3, <2>5, <2>6
  <2>8. s[i].line = n /\ s[i].bytes = c - b
    BY <1>2, <2>1, <2>2 DEF n, b
  <2>9. g[j] \in ReadState /\ g[i] = SegmentRead(range, most, g[j], s[i])
    BY <1>6, <2>1
  <2> HIDE DEF i
  <2>10. ReadUpTo(g[i], range, most, lines, n, c)
    BY <2>3, <2>6, <2>7, <2>8, <2>9, SegmentIsRead DEF N
  <2>11. ASSUME NEW m \in 1..N, InLine(lines, m, c) PROVE ReadUpTo(g[i], range, most, lines, m, c)
    BY <2>3, <2>6, <2>10, <2>11, ReadAtTheEnd DEF N
  <2> QED BY <2>11 DEF c, i
<1>10. Nat \subseteq Good
  <2> HIDE DEF Good
  <2> QED BY <1>8, <1>9, Induction
<1>11. R(K)
  BY <1>00, <1>10
<1>12. A \subseteq DOMAIN lines /\ DOMAIN lines = 1..N
  BY LineIsTyped DEF Asked, N
<1>13. CASE N = 0
  <2>1. A = {}
    BY <1>12, <1>13
  <2>2. LineBytes(lines, A) = 0
    BY <2>1, NoLineBytes
  <2>3. K = 0
    <3> SUFFICES ASSUME K # 0 PROVE FALSE
      OBVIOUS
    <3>1. K \in 1..K
      BY <1>00
    <3>2. LineAt(lines, cuts[K]) \in 1..N
      BY <1>0, <3>1, SegmentInLine DEF K, N
    <3> QED BY <1>13, <3>2
  <2>4. all.bytes = 0
    BY <1>6, <2>3 DEF NothingRead
  <2>5. Least(most, 0) = 0
    BY DEF Least
  <2> HIDE DEF A
  <2> QED BY <2>2, <2>4, <2>5 DEF all, s, A
<1>14. CASE N # 0
  <2>1. N \in 1..N /\ N \in 0..N /\ N - 1 \in 0..N /\ N - 1 < N
    BY <1>00, <1>14
  <2>2. LineEnd(lines, N - 1) <= LineEnd(lines, N) /\ LineEnd(lines, N) <= LineEnd(lines, N)
    <3>1. /\ LineEnd(lines, N - 1) < LineEnd(lines, N)
          /\ LineEnd(lines, N - 1) \in Nat /\ LineEnd(lines, N) \in Nat
      BY <1>7, <2>1
    <3> QED BY <3>1
  <2>3. InLine(lines, N, CutBefore(cuts, K))
    BY <1>00, <2>2 DEF InLine
  <2>4. ReadUpTo(all, range, most, lines, N, LineEnd(lines, N))
    BY <1>00, <1>6, <1>11, <2>1, <2>3
  <2> HIDE DEF A
  <2>5. Wanted(lines, A, N, LineEnd(lines, N)) = UpTo(lines, A, N)
    <3>1. WantedGrows(lines, A, N)
      BY <1>12, <2>1, WantedHolds DEF N
    <3> QED BY <3>1 DEF WantedGrows
  <2>6. UpTo(lines, A, N) = LineBytes(lines, A)
    <3>1. Accumulates(lines, A)
      BY <1>12, UpToGrows
    <3> QED BY <3>1 DEF Accumulates, N
  <2>7. all.bytes = Least(most, Wanted(lines, A, N, LineEnd(lines, N)))
    BY <2>4 DEF ReadUpTo, A
  <2>8. all.bytes = Least(most, LineBytes(lines, A))
    BY <2>5, <2>6, <2>7
  <2> QED BY <2>8 DEF all, s, A
<1> QED BY <1>13, <1>14

LEMMA ReadsAll ==
    ASSUME NEW lines \in Seq(RepoLine), NEW range \in ReadRequests
    PROVE  BytesRead(range, lines) =
              Least(LineBytes(lines, Asked(range, lines)), IF range.max = 0 THEN ReadDefault ELSE range.max)
<1> DEFINE max == IF range.max = 0 THEN ReadDefault ELSE range.max
           want == LineBytes(lines, Asked(range, lines))
           got == SegmentsRead(range, max + ReadMargin, Segments(lines)).bytes
<1>1. range \in [start : Nat, end : Nat, max : Nat] /\ range.max \in Nat
  BY RepoAssumption
<1>2. max \in Nat /\ ReadMargin \in Nat /\ max + ReadMargin \in Nat
  BY <1>1, RepoAssumption
<1>3. want \in Nat
  <2>1. Asked(range, lines) \subseteq DOMAIN lines
    BY DEF Asked
  <2> QED BY <2>1, LineBytesAdd
<1>4. got = Least(max + ReadMargin, want)
  <2> HIDE DEF max
  <2> QED BY <1>1, <1>2, LoopReadsAll
<1>5. BytesRead(range, lines) = Least(got, max)
  BY DEF BytesRead
<1> HIDE DEF got, want, max
<1>6. Least(got, max) = Least(want, max)
  BY <1>2, <1>3, <1>4 DEF Least
<1> QED BY <1>5, <1>6 DEF want, max

LEMMA RepoInvSays == RepoInv => AnswersAreWhole
<1> SUFFICES ASSUME RepoInv PROVE AnswersAreWhole
  OBVIOUS
<1>0. Len(RepoFiles) \in Nat /\ \A f \in RepoPaths : \E i \in 1..Len(RepoFiles) : RepoFiles[i] = f
  BY RepoAssumption, LenProperties DEF RepoPaths, ToSet
<1>1. SearchFindsAndShows
  <2> SUFFICES ASSUME Answered("search"), NEW f \in RepoPaths, Kept(f),
                      TextBytes(rtFile[f].text) <= RepoMaxFileBytes,
                      NEW n \in DOMAIN rtFile[f].text.lines, Matching(rtFile[f].text.lines[n])
               PROVE  \E m \in ToSet(rtCall.found) :
                         /\ m.path = f /\ m.line = n
                         /\ LET line == rtFile[f].text.lines[n] IN
                            line.to - line.from <= SnippetBytes - 2 * Marker => m.shows
    BY DEF SearchFindsAndShows
  <2>1. PICK i \in 1..Len(RepoFiles) : RepoFiles[i] = f
    BY <1>0
  <2>2. Done(i) /\ rtCall.kind = "search"
    BY DEF Answered, RepoInv, WalkHolds
  <2>3. HasMatches(f, rtFile[f].text, ToSet(rtCall.found))
    BY <2>1, <2>2 DEF Done, HasIn
  <2> QED BY <2>3 DEF HasMatches
<1>2. ListNamesAll
  <2> SUFFICES ASSUME Answered("list"), NEW f \in RepoPaths, Kept(f)
               PROVE  [path |-> f] \in ToSet(rtCall.found)
    BY DEF ListNamesAll
  <2>1. PICK i \in 1..Len(RepoFiles) : RepoFiles[i] = f
    BY <1>0
  <2>2. Done(i) /\ rtCall.kind = "list"
    BY DEF Answered, RepoInv, WalkHolds
  <2> QED BY <2>1, <2>2 DEF Done, HasIn
<1>3. ReadIsWhole
  <2> SUFFICES ASSUME Answered("read"), NEW m \in ToSet(rtCall.found), Kept(m.path)
               PROVE  m.bytes = Least(LineBytes(rtFile[m.path].text.lines,
                                                Asked(rtCall.range, rtFile[m.path].text.lines)),
                                      IF rtCall.range.max = 0 THEN ReadDefault ELSE rtCall.range.max)
    BY DEF ReadIsWhole, Asked
  <2>1. PICK f \in RepoPaths, range \in ReadRequests :
           /\ rtCall.range = range
           /\ rtCall.found = <<[path |-> f, bytes |-> BytesRead(range, rtCall.at[f].text.lines)]>>
    BY DEF Answered, RepoInv, ReadHolds
  <2> DEFINE answer == [path |-> f, bytes |-> BytesRead(range, rtCall.at[f].text.lines)]
  <2>2. m = answer
    <3> HIDE DEF answer
    <3>1. rtCall.found = <<answer>>
      BY <2>1 DEF answer
    <3> QED BY <3>1 DEF ToSet
  <2>3. m.path = f /\ m.bytes = BytesRead(range, rtCall.at[f].text.lines)
    BY <2>2
  <2> HIDE DEF answer
  <2>4. rtCall.at[f] = rtFile[f]
    BY <2>3 DEF Kept
  <2>5. rtFile[f].text.lines \in Seq(RepoLine)
    <3>1. rtFile[f].text \in AnyText
      BY DEF RepoInv, TreeHolds, Version
    <3> QED BY <3>1, TextsAreTyped
  <2> QED BY <2>1, <2>3, <2>4, <2>5, ReadsAll
<1>4. PagesAreWhole
  BY DEF RepoInv, PagesHold, PagesAreWhole
<1> QED BY <1>1, <1>2, <1>3, <1>4 DEF AnswersAreWhole

\* What a search, a list, a read or a listing of resources answers is whole for
\* everything that stayed as it was while it ran (repo_tools.go, native_ux.go): whatever
\* the index last knew of a file, however the buffer of the reader falls on the lines,
\* and for every number of files, limit and page size.
THEOREM AnswersAreWholeHolds == RepoToolsSpec => []AnswersAreWhole
<1>1. RepoToolsInit => RepoInv
  BY RepoStarts
<1>2. RepoInv /\ [RepoToolsNext]_rtVars => RepoInv'
  BY RepoStepKeeps
<1>3. RepoInv => AnswersAreWhole
  BY RepoInvSays
<1> QED BY <1>1, <1>2, <1>3, PTL DEF RepoToolsSpec

-----------------------------------------------------------------------------
(* Chunks                                                                   *)

\* The loops over the lines of a range, over the units and over the declarations.
FirstTaken(from) == [start |-> from, bytes |-> 0, chunks |-> <<>>]
LinesAreTakenKeep(lines, S, T) == \A k \in S, x \in T : LineTaken(lines, k, x) \in S
LinesAreTakenInTurn(lines, from, S, s) ==
    \E g \in [0..Len(s) -> S] :
        /\ g[0] = FirstTaken(from) /\ g[Len(s)] = LinesTaken(lines, from, s)
        /\ \A i \in 1..Len(s) : g[i] = LineTaken(lines, g[i - 1], s[i])
LEMMA LinesAreTaken ==
    ASSUME NEW lines, NEW from, NEW S, NEW T, NEW s \in Seq(T), FirstTaken(from) \in S,
           LinesAreTakenKeep(lines, S, T)
    PROVE  LinesAreTakenInTurn(lines, from, S, s)
<1> DEFINE N == Len(s)
           Op(k, x) == LineTaken(lines, k, x)
           Turn(f) == f = [t \in SUBSET (DOMAIN s) |->
                             IF t = {} THEN FirstTaken(from)
                             ELSE LET x == Max(t) IN LineTaken(lines, f[t \ {x}], s[x])]
           F == CHOOSE f : Turn(f)
           G == [i \in 1..N |-> [k \in S |-> Op(k, s[i])]]
           g == [i \in 0..N |-> F[1..i]]
<1>0. N \in Nat /\ DOMAIN s = 1..N /\ (\A i \in 1..N : s[i] \in T)
  BY LenProperties
<1>1. LinesTaken(lines, from, s) = F[DOMAIN s]
  BY DEF FirstTaken, LinesTaken, FoldLeft, MapThenFoldSet
<1>2. \A k \in S, i \in 1..N : Op(k, s[i]) \in S
  BY <1>0 DEF LinesAreTakenKeep
<1>3. Turn(F) <=> F = [t \in SUBSET (1..N) |-> IF t = {} THEN FirstTaken(from)
                                               ELSE Op(F[t \ {Max(t)}], s[Max(t)])]
  BY <1>0
<1> HIDE DEF N, Op
<1>4. PICK f \in [SUBSET (1..N) -> S] : FoldsUp(f, G, FirstTaken(from), N)
  <2>1. G \in [1..N -> [S -> S]]
    BY <1>2
  <2> HIDE DEF G
  <2> QED BY <1>0, <2>1, FoldExists
<1>5. f = [t \in SUBSET (1..N) |-> IF t = {} THEN FirstTaken(from) ELSE Op(f[t \ {Max(t)}], s[Max(t)])]
  <2>1. ASSUME NEW t \in SUBSET (1..N), t # {}
        PROVE  G[Max(t)][f[t \ {Max(t)}]] = Op(f[t \ {Max(t)}], s[Max(t)])
    <3>1. Max(t) \in 1..N /\ f[t \ {Max(t)}] \in S
      BY <1>0, <2>1, MaxOfNumbers
    <3> QED BY <3>1
  <2> HIDE DEF G
  <2> QED BY <1>0, <1>4, <2>1 DEF FoldsUp
<1>6. Turn(f)
  BY <1>0, <1>5 DEF Op
<1> HIDE DEF Turn
<1>7. Turn(F)
  BY <1>6
<1> HIDE DEF F
<1>8. F = [t \in SUBSET (1..N) |-> IF t = {} THEN FirstTaken(from) ELSE Op(F[t \ {Max(t)}], s[Max(t)])]
  BY <1>3, <1>7
<1>9. F[1..0] = FirstTaken(from)
  BY <1>0, <1>8
<1>10. ASSUME NEW i \in 1..N PROVE F[1..i] = Op(F[1..(i - 1)], s[i])
  <2>1. 1..i \in SUBSET (1..N) /\ 1..i # {} /\ Max(1..i) = i /\ (1..i) \ {i} = 1..(i - 1)
    BY <1>0, UpToNumber
  <2> QED BY <1>0, <1>8, <2>1
<1>11. /\ DOMAIN g = 0..N /\ g[0] = FirstTaken(from) /\ g[N] = F[1..N]
       /\ \A i \in 1..N : g[i] = Op(g[i - 1], s[i])
  BY <1>0, <1>9, <1>10
<1>12. g = [i \in 0..N |-> g[i]]
  OBVIOUS
<1> HIDE DEF g
<1>13. \A i \in 0..N : g[i] \in S
  <2>1. \A i \in 1..N : g[i - 1] \in S => g[i] \in S
    BY <1>2, <1>11
  <2> QED BY <1>0, <1>11, <2>1, TurnsStay
<1> QED BY <1>0, <1>1, <1>11, <1>12, <1>13 DEF Op, N, LinesAreTakenInTurn

UnitsArePackedKeep(lines, S, T) == \A k \in S, x \in T : Pack(lines, k, x) \in S
UnitsArePackedInTurn(lines, S, s) ==
    \E g \in [0..Len(s) -> S] :
        /\ g[0] = EmptyPack /\ g[Len(s)] = UnitsPacked(lines, s)
        /\ \A i \in 1..Len(s) : g[i] = Pack(lines, g[i - 1], s[i])
LEMMA UnitsArePacked ==
    ASSUME NEW lines, NEW S, NEW T, NEW s \in Seq(T), EmptyPack \in S,
           UnitsArePackedKeep(lines, S, T)
    PROVE  UnitsArePackedInTurn(lines, S, s)
<1> DEFINE N == Len(s)
           Op(k, x) == Pack(lines, k, x)
           Turn(f) == f = [t \in SUBSET (DOMAIN s) |->
                             IF t = {} THEN EmptyPack
                             ELSE LET x == Max(t) IN Pack(lines, f[t \ {x}], s[x])]
           F == CHOOSE f : Turn(f)
           G == [i \in 1..N |-> [k \in S |-> Op(k, s[i])]]
           g == [i \in 0..N |-> F[1..i]]
<1>0. N \in Nat /\ DOMAIN s = 1..N /\ (\A i \in 1..N : s[i] \in T)
  BY LenProperties
<1>1. UnitsPacked(lines, s) = F[DOMAIN s]
  BY DEF UnitsPacked, FoldLeft, MapThenFoldSet
<1>2. \A k \in S, i \in 1..N : Op(k, s[i]) \in S
  BY <1>0 DEF UnitsArePackedKeep
<1>3. Turn(F) <=> F = [t \in SUBSET (1..N) |-> IF t = {} THEN EmptyPack
                                               ELSE Op(F[t \ {Max(t)}], s[Max(t)])]
  BY <1>0
<1> HIDE DEF N, Op
<1>4. PICK f \in [SUBSET (1..N) -> S] : FoldsUp(f, G, EmptyPack, N)
  <2>1. G \in [1..N -> [S -> S]]
    BY <1>2
  <2> HIDE DEF G
  <2> QED BY <1>0, <2>1, FoldExists
<1>5. f = [t \in SUBSET (1..N) |-> IF t = {} THEN EmptyPack ELSE Op(f[t \ {Max(t)}], s[Max(t)])]
  <2>1. ASSUME NEW t \in SUBSET (1..N), t # {}
        PROVE  G[Max(t)][f[t \ {Max(t)}]] = Op(f[t \ {Max(t)}], s[Max(t)])
    <3>1. Max(t) \in 1..N /\ f[t \ {Max(t)}] \in S
      BY <1>0, <2>1, MaxOfNumbers
    <3> QED BY <3>1
  <2> HIDE DEF G
  <2> QED BY <1>0, <1>4, <2>1 DEF FoldsUp
<1>6. Turn(f)
  BY <1>0, <1>5 DEF Op
<1> HIDE DEF Turn
<1>7. Turn(F)
  BY <1>6
<1> HIDE DEF F
<1>8. F = [t \in SUBSET (1..N) |-> IF t = {} THEN EmptyPack ELSE Op(F[t \ {Max(t)}], s[Max(t)])]
  BY <1>3, <1>7
<1>9. F[1..0] = EmptyPack
  BY <1>0, <1>8
<1>10. ASSUME NEW i \in 1..N PROVE F[1..i] = Op(F[1..(i - 1)], s[i])
  <2>1. 1..i \in SUBSET (1..N) /\ 1..i # {} /\ Max(1..i) = i /\ (1..i) \ {i} = 1..(i - 1)
    BY <1>0, UpToNumber
  <2> QED BY <1>0, <1>8, <2>1
<1>11. /\ DOMAIN g = 0..N /\ g[0] = EmptyPack /\ g[N] = F[1..N]
       /\ \A i \in 1..N : g[i] = Op(g[i - 1], s[i])
  BY <1>0, <1>9, <1>10
<1>12. g = [i \in 0..N |-> g[i]]
  OBVIOUS
<1> HIDE DEF g
<1>13. \A i \in 0..N : g[i] \in S
  <2>1. \A i \in 1..N : g[i - 1] \in S => g[i] \in S
    BY <1>2, <1>11
  <2> QED BY <1>0, <1>11, <2>1, TurnsStay
<1> QED BY <1>0, <1>1, <1>11, <1>12, <1>13 DEF Op, N, UnitsArePackedInTurn

DeclarationsAreAddedKeep(lines, S, T) == \A k \in S, x \in T : DeclarationAdded(lines, k, x) \in S
DeclarationsAreAddedInTurn(lines, S, s) ==
    \E g \in [0..Len(s) -> S] :
        /\ g[0] = <<>> /\ g[Len(s)] = DeclarationsAdded(lines, s)
        /\ \A i \in 1..Len(s) : g[i] = DeclarationAdded(lines, g[i - 1], s[i])
LEMMA DeclarationsAreAdded ==
    ASSUME NEW lines, NEW S, NEW T, NEW s \in Seq(T), <<>> \in S,
           DeclarationsAreAddedKeep(lines, S, T)
    PROVE  DeclarationsAreAddedInTurn(lines, S, s)
<1> DEFINE N == Len(s)
           Op(k, x) == DeclarationAdded(lines, k, x)
           Turn(f) == f = [t \in SUBSET (DOMAIN s) |->
                             IF t = {} THEN <<>>
                             ELSE LET x == Max(t) IN DeclarationAdded(lines, f[t \ {x}], s[x])]
           F == CHOOSE f : Turn(f)
           G == [i \in 1..N |-> [k \in S |-> Op(k, s[i])]]
           g == [i \in 0..N |-> F[1..i]]
<1>0. N \in Nat /\ DOMAIN s = 1..N /\ (\A i \in 1..N : s[i] \in T)
  BY LenProperties
<1>1. DeclarationsAdded(lines, s) = F[DOMAIN s]
  BY DEF DeclarationsAdded, FoldLeft, MapThenFoldSet
<1>2. \A k \in S, i \in 1..N : Op(k, s[i]) \in S
  BY <1>0 DEF DeclarationsAreAddedKeep
<1>3. Turn(F) <=> F = [t \in SUBSET (1..N) |-> IF t = {} THEN <<>>
                                               ELSE Op(F[t \ {Max(t)}], s[Max(t)])]
  BY <1>0
<1> HIDE DEF N, Op
<1>4. PICK f \in [SUBSET (1..N) -> S] : FoldsUp(f, G, <<>>, N)
  <2>1. G \in [1..N -> [S -> S]]
    BY <1>2
  <2> HIDE DEF G
  <2> QED BY <1>0, <2>1, FoldExists
<1>5. f = [t \in SUBSET (1..N) |-> IF t = {} THEN <<>> ELSE Op(f[t \ {Max(t)}], s[Max(t)])]
  <2>1. ASSUME NEW t \in SUBSET (1..N), t # {}
        PROVE  G[Max(t)][f[t \ {Max(t)}]] = Op(f[t \ {Max(t)}], s[Max(t)])
    <3>1. Max(t) \in 1..N /\ f[t \ {Max(t)}] \in S
      BY <1>0, <2>1, MaxOfNumbers
    <3> QED BY <3>1
  <2> HIDE DEF G
  <2> QED BY <1>0, <1>4, <2>1 DEF FoldsUp
<1>6. Turn(f)
  BY <1>0, <1>5 DEF Op
<1> HIDE DEF Turn
<1>7. Turn(F)
  BY <1>6
<1> HIDE DEF F
<1>8. F = [t \in SUBSET (1..N) |-> IF t = {} THEN <<>> ELSE Op(F[t \ {Max(t)}], s[Max(t)])]
  BY <1>3, <1>7
<1>9. F[1..0] = <<>>
  BY <1>0, <1>8
<1>10. ASSUME NEW i \in 1..N PROVE F[1..i] = Op(F[1..(i - 1)], s[i])
  <2>1. 1..i \in SUBSET (1..N) /\ 1..i # {} /\ Max(1..i) = i /\ (1..i) \ {i} = 1..(i - 1)
    BY <1>0, UpToNumber
  <2> QED BY <1>0, <1>8, <2>1
<1>11. /\ DOMAIN g = 0..N /\ g[0] = <<>> /\ g[N] = F[1..N]
       /\ \A i \in 1..N : g[i] = Op(g[i - 1], s[i])
  BY <1>0, <1>9, <1>10
<1>12. g = [i \in 0..N |-> g[i]]
  OBVIOUS
<1> HIDE DEF g
<1>13. \A i \in 0..N : g[i] \in S
  <2>1. \A i \in 1..N : g[i - 1] \in S => g[i] \in S
    BY <1>2, <1>11
  <2> QED BY <1>0, <1>11, <2>1, TurnsStay
<1> QED BY <1>0, <1>1, <1>11, <1>12, <1>13 DEF Op, N, DeclarationsAreAddedInTurn

\* Where a function that never grows leads, it stands still.
LeadsUpTo(e, up, m) == \A n \in 0..m : e[n] = IF up[n] = n THEN n ELSE e[up[n]]
RestsAt(end, up, n) == end[n] \in 0..n /\ up[end[n]] = end[n]
LEMMA SettlesSomewhere ==
    ASSUME NEW N \in Nat, NEW up \in [0..N -> 0..N], \A n \in 0..N : up[n] <= n, NEW b \in 0..N
    PROVE  Settled(up, b) \in 0..b /\ up[Settled(up, b)] = Settled(up, b)
<1> DEFINE End(e) == e = [n \in DOMAIN up |-> IF up[n] = n THEN n ELSE e[up[n]]]
           end == CHOOSE e : End(e)
           Leads(m) == \E e \in [0..m -> 0..N] : LeadsUpTo(e, up, m)
           Good == {m \in Nat : m <= N => Leads(m)}
<1>0. DOMAIN up = 0..N /\ \A n \in 0..N : up[n] \in 0..n
  <2>1. \A n \in 0..N : up[n] \in 0..N
    OBVIOUS
  <2> QED BY <2>1
<1>1. Settled(up, b) = end[b]
  BY DEF Settled
<1> HIDE DEF end
<1>2. Leads(0)
  <2> DEFINE e == [n \in 0..0 |-> 0]
  <2>1. 0 \in 0..N
    OBVIOUS
  <2>2. e \in [0..0 -> 0..N] /\ e[0] = 0 /\ up[0] = 0
    BY <1>0, <2>1
  <2> HIDE DEF e
  <2>3. LeadsUpTo(e, up, 0)
    BY <2>2 DEF LeadsUpTo
  <2> QED BY <2>2, <2>3
<1>3. ASSUME NEW m \in Nat, Leads(m), m + 1 <= N PROVE Leads(m + 1)
  <2>1. PICK d \in [0..m -> 0..N] : LeadsUpTo(d, up, m)
    BY <1>3
  <2> DEFINE k == m + 1
             top == IF up[k] = k THEN k ELSE d[up[k]]
             e == [n \in 0..k |-> IF n <= m THEN d[n] ELSE top]
  <2> HIDE DEF Leads
  <2>2. k \in 0..N /\ m <= N /\ k \in Nat
    BY <1>3
  <2>3. up[k] \in 0..k
    BY <1>0, <2>2
  <2>4. up[k] # k => up[k] \in 0..m
    BY <2>3
  <2>5. top \in 0..N
    BY <2>1, <2>2, <2>4
  <2>50. \A n \in 0..k : (n <= m => n \in 0..m) /\ (n \in 0..m \/ n = k)
    OBVIOUS
  <2>51. \A n \in 0..m : n \in 0..k /\ n <= m
    OBVIOUS
  <2>52. k \in 0..k /\ ~(k <= m)
    OBVIOUS
  <2> HIDE DEF top, k
  <2>6. e \in [0..k -> 0..N]
    BY <2>1, <2>5, <2>50
  <2>7. /\ e[k] = top /\ \A n \in 0..m : e[n] = d[n]
    BY <2>51, <2>52
  <2> HIDE DEF e
  <2>8. ASSUME NEW n \in 0..m PROVE e[n] = IF up[n] = n THEN n ELSE e[up[n]]
    <3>1. up[n] \in 0..m
      <4>1. n \in 0..N
        BY <2>2
      <4>2. up[n] \in 0..n
        BY <1>0, <4>1
      <4> QED BY <4>2
    <3>2. d[n] = IF up[n] = n THEN n ELSE d[up[n]]
      BY <2>1 DEF LeadsUpTo
    <3> QED BY <2>7, <3>1, <3>2
  <2>9. e[k] = IF up[k] = k THEN k ELSE e[up[k]]
    BY <2>4, <2>7 DEF top
  <2>10. LeadsUpTo(e, up, k)
    BY <2>8, <2>9, <2>50 DEF LeadsUpTo
  <2> QED BY <2>6, <2>10 DEF k, Leads
<1>4. Leads(N)
  <2> HIDE DEF Leads
  <2>1. 0 \in Good
    BY <1>2
  <2>2. ASSUME NEW m \in Nat, m \in Good PROVE m + 1 \in Good
    <3>1. m + 1 <= N => m <= N
      OBVIOUS
    <3> QED BY <1>3, <2>2, <3>1
  <2>3. Nat \subseteq Good
    <3> HIDE DEF Good
    <3> QED BY <2>1, <2>2, Induction
  <2>4. N \in Good /\ N <= N
    BY <2>3
  <2> QED BY <2>4
<1>5. PICK e \in [0..N -> 0..N] : LeadsUpTo(e, up, N)
  BY <1>4
<1> HIDE DEF Leads
<1>6. End(e)
  <2>1. e = [n \in 0..N |-> e[n]]
    OBVIOUS
  <2>2. e = [n \in 0..N |-> IF up[n] = n THEN n ELSE e[up[n]]]
    BY <1>5, <2>1 DEF LeadsUpTo
  <2> QED BY <1>0, <2>2
<1> HIDE DEF End
<1>7. End(end)
  BY <1>6 DEF end
<1>8. \A n \in 0..N : end[n] = IF up[n] = n THEN n ELSE end[up[n]]
  <2>1. end = [n \in 0..N |-> IF up[n] = n THEN n ELSE end[up[n]]]
    BY <1>0, <1>7 DEF End
  <2> QED BY <2>1
<1> DEFINE Rest(m) == \A n \in 0..m : RestsAt(end, up, n)
           Still == {m \in Nat : m <= N => Rest(m)}
<1>9. Rest(0)
  <2>1. 0 \in 0..N
    OBVIOUS
  <2>2. up[0] = 0
    BY <1>0, <2>1
  <2>3. end[0] = 0
    BY <1>8, <2>1, <2>2
  <2>4. \A n \in 0..0 : n = 0
    OBVIOUS
  <2>5. RestsAt(end, up, 0)
    BY <2>2, <2>3 DEF RestsAt
  <2> QED BY <2>4, <2>5
<1>10. ASSUME NEW m \in Nat, Rest(m), m + 1 <= N PROVE Rest(m + 1)
  <2> DEFINE k == m + 1
  <2>1. k \in 0..N /\ k \in Nat
    BY <1>10
  <2>2. up[k] \in 0..k
    BY <1>0, <2>1
  <2>3. (up[k] # k => up[k] \in 0..m) /\ (\A n \in 0..k : n \in 0..m \/ n = k)
    <3>1. \A n \in 0..k : n \in 0..m \/ n = k
      OBVIOUS
    <3> HIDE DEF k
    <3> QED BY <2>2, <3>1
  <2> HIDE DEF k
  <2>4. RestsAt(end, up, k)
    <3>1. CASE up[k] = k
      <4>1. end[k] = k
        BY <1>8, <2>1, <3>1
      <4> QED BY <2>1, <3>1, <4>1 DEF RestsAt
    <3>2. CASE up[k] # k
      <4>1. RestsAt(end, up, up[k])
        BY <1>10, <2>3, <3>2
      <4>2. end[k] = end[up[k]]
        BY <1>8, <2>1, <3>2
      <4>3. end[k] \in 0..k
        <5> DEFINE x == up[k]
                   y == end[x]
        <5>1. y \in 0..x /\ x \in 0..k
          BY <2>2, <4>1 DEF RestsAt
        <5> HIDE DEF x, y
        <5>2. y \in 0..k
          BY <2>1, <5>1
        <5> QED BY <4>2, <5>2 DEF x, y
      <4> QED BY <4>1, <4>2, <4>3 DEF RestsAt
    <3> QED BY <3>1, <3>2
  <2> QED BY <1>10, <2>3, <2>4 DEF k
<1>11. Rest(N)
  <2> HIDE DEF Rest
  <2>1. 0 \in Still
    BY <1>9
  <2>2. ASSUME NEW m \in Nat, m \in Still PROVE m + 1 \in Still
    <3>1. m + 1 <= N => m <= N
      OBVIOUS
    <3> QED BY <1>10, <2>2, <3>1
  <2>3. Nat \subseteq Still
    <3> HIDE DEF Still
    <3> QED BY <2>1, <2>2, Induction
  <2>4. N \in Still /\ N <= N
    BY <2>3
  <2> QED BY <2>4
<1> QED BY <1>1, <1>11 DEF RestsAt

\* The bytes of a range of lines.
ChunkLine == [bytes : Nat, kind : STRING]
RangeSums(lines, from, to) ==
    /\ RangeBytes(lines, from, to) \in Nat
    /\ from <= to + 1 /\ to + 1 \in DOMAIN lines =>
          RangeBytes(lines, from, to + 1) = RangeBytes(lines, from, to) + (lines[to + 1].bytes + 1)
    /\ \A m \in Nat : from <= m + 1 /\ m <= to =>
          RangeBytes(lines, from, to) = RangeBytes(lines, from, m) + RangeBytes(lines, m + 1, to)
LEMMA ChunkLinesTyped ==
    ASSUME NEW lines \in Seq(ChunkLine)
    PROVE  /\ Len(lines) \in Nat /\ DOMAIN lines = 1..Len(lines)
           /\ \A n \in DOMAIN lines : lines[n].bytes \in Nat
<1> DEFINE R == ChunkLine
<1>1. \A l \in R : l.bytes \in Nat
  BY DEF ChunkLine
<1> HIDE DEF R
<1>2. Len(lines) \in Nat /\ DOMAIN lines = 1..Len(lines) /\ \A n \in 1..Len(lines) : lines[n] \in R
  BY LenProperties DEF R
<1> QED BY <1>1, <1>2

LineSizes(lines, S) == [n \in S |-> lines[n].bytes + 1]
LEMMA LineSizesAdd ==
    ASSUME NEW lines \in Seq(ChunkLine), NEW from \in Nat \ {0}, NEW to \in Nat, to <= Len(lines)
    PROVE  /\ Summands(LineSizes(lines, from..to), from..to)
           /\ RangeBytes(lines, from, to) = SumOver(LineSizes(lines, from..to), from..to)
<1> DEFINE S == from..to
           g == LineSizes(lines, S)
<1>1. IsFiniteSet(S) /\ S \subseteq DOMAIN lines
  <2>1. IsFiniteSet(from..to)
    BY FS_Interval
  <2>2. DOMAIN lines = 1..Len(lines) /\ Len(lines) \in Nat
    BY ChunkLinesTyped
  <2> QED BY <2>1, <2>2
<1>2. DOMAIN g = S /\ RangeBytes(lines, from, to) = SumFunction(g)
  BY DEF LineSizes, RangeBytes
<1> HIDE DEF S
<1>3. \A n \in S : g[n] \in Nat
  <2>1. \A n \in S : lines[n].bytes \in Nat
    BY <1>1, ChunkLinesTyped
  <2> QED BY <2>1 DEF LineSizes
<1> HIDE DEF g
<1>4. Summands(g, S)
  BY <1>1, <1>3 DEF Summands
<1>5. SumFunction(g) = SumOver(g, S)
  BY <1>2, <1>4, SumFunctionIsSum
<1> QED BY <1>2, <1>4, <1>5 DEF g, S

LEMMA RangeAdds ==
    ASSUME NEW lines \in Seq(ChunkLine), NEW from \in Nat \ {0}, NEW to \in Nat, to <= Len(lines)
    PROVE  RangeSums(lines, from, to) /\ (from > to => RangeBytes(lines, from, to) = 0)
<1> DEFINE g == LineSizes(lines, from..to)
<1>1. Summands(g, from..to) /\ RangeBytes(lines, from, to) = SumOver(g, from..to)
  BY LineSizesAdd
<1>2. RangeBytes(lines, from, to) \in Nat
  BY <1>1, SumIsNatural
<1>3. from > to => RangeBytes(lines, from, to) = 0
  <2>1. from > to => from..to = {}
    OBVIOUS
  <2> QED BY <1>1, <2>1, SumIsNatural
<1>4. ASSUME NEW m \in Nat, from <= m + 1, m <= to
      PROVE  RangeBytes(lines, from, to) = RangeBytes(lines, from, m) + RangeBytes(lines, m + 1, to)
  <2> DEFINE S == from..m
             T == (m + 1)..to
             h == LineSizes(lines, S)
             k == LineSizes(lines, T)
  <2>1. S \subseteq from..to /\ (from..to) \ S = T /\ m + 1 \in Nat \ {0} /\ m <= Len(lines)
    <3>1. Len(lines) \in Nat
      BY ChunkLinesTyped
    <3>2. S \subseteq from..to /\ (from..to) \ S = T
      BY <1>4
    <3> QED BY <1>4, <3>1, <3>2
  <2>2. Summands(h, S) /\ RangeBytes(lines, from, m) = SumOver(h, S)
    BY <2>1, LineSizesAdd
  <2>3. Summands(k, T) /\ RangeBytes(lines, m + 1, to) = SumOver(k, T)
    <3> DEFINE p == m + 1
    <3>1. p \in Nat \ {0}
      BY <2>1
    <3> HIDE DEF p
    <3>2. Summands(LineSizes(lines, p..to), p..to) /\ RangeBytes(lines, p, to) = SumOver(LineSizes(lines, p..to), p..to)
      BY <3>1, LineSizesAdd
    <3> QED BY <3>2 DEF p
  <2>4. (\A n \in S : h[n] = g[n]) /\ (\A n \in T : k[n] = g[n])
    <3>1. \A n \in S : n \in from..to
      BY <2>1
    <3>2. \A n \in T : n \in from..to
      BY <2>1
    <3> HIDE DEF S, T
    <3> QED BY <3>1, <3>2 DEF LineSizes
  <2> HIDE DEF S, T, h, k, g
  <2>5. SumOver(g, from..to) = SumOver(g, S) + SumOver(g, T)
    BY <1>1, <2>1, SumInTwo
  <2>6. SumOver(h, S) = SumOver(g, S) /\ SumOver(k, T) = SumOver(g, T)
    BY <2>2, <2>3, <2>4, SumSame
  <2> QED BY <1>1, <2>2, <2>3, <2>5, <2>6
<1>5. ASSUME from <= to + 1, to + 1 \in DOMAIN lines
      PROVE  RangeBytes(lines, from, to + 1) = RangeBytes(lines, from, to) + (lines[to + 1].bytes + 1)
  <2> DEFINE n == to + 1
             S == from..n
             h == LineSizes(lines, S)
  <2>0. n \in Nat /\ n <= Len(lines) /\ n \in DOMAIN lines
    BY <1>5, ChunkLinesTyped
  <2>00. n - 1 = to /\ (from..n) \ {n} = from..to
    OBVIOUS
  <2> HIDE DEF n
  <2>1. Summands(h, S) /\ RangeBytes(lines, from, n) = SumOver(h, S)
    BY <2>0, LineSizesAdd
  <2>2. n \in S
    <3>1. from <= n /\ n \in Nat
      BY <1>5, <2>0 DEF n
    <3> QED BY <3>1
  <2>3. QED
    <3>1. h[n] = lines[n].bytes + 1
      BY <2>2 DEF LineSizes
    <3>2. S \ {n} = from..to /\ \A x \in from..to : h[x] = g[x]
      <4>1. S \ {n} = from..to
        BY <2>00
      <4>2. \A x \in from..to : x \in S
        BY <4>1
      <4> HIDE DEF S
      <4> QED BY <4>1, <4>2 DEF LineSizes
    <3> HIDE DEF S, h, g
    <3>3. SumOver(h, S) = h[n] + SumOver(h, S \ {n})
      BY <2>1, <2>2, SumWithout
    <3>4. SumOver(h, from..to) = SumOver(g, from..to)
      BY <1>1, <3>2, SumSame
    <3>5. lines[n].bytes \in Nat /\ RangeBytes(lines, from, to) \in Nat
      BY <1>2, <2>0, ChunkLinesTyped
    <3>6. RangeBytes(lines, from, n) = h[n] + RangeBytes(lines, from, to)
      BY <1>1, <2>1, <3>2, <3>3, <3>4
    <3>7. RangeBytes(lines, from, n) = RangeBytes(lines, from, to) + (lines[n].bytes + 1)
      BY <3>1, <3>5, <3>6
    <3> QED BY <3>7 DEF n
<1> QED BY <1>2, <1>3, <1>4, <1>5 DEF RangeSums

\* Chunks that hold the lines from a to b: in order, within the limits, and no line
\* that is not blank left out.
Span == [startLine : Nat, endLine : Nat]
Fits(lines, from, to) ==
    from < to => to - from < MaxChunkLines /\ RangeBytes(lines, from, to) <= MaxChunkBytes
Held(c, n) == c.startLine <= n /\ n <= c.endLine
ChunkOk(lines, a, b, c) ==
    /\ a <= c.startLine /\ c.startLine <= c.endLine /\ c.endLine <= b
    /\ Fits(lines, c.startLine, c.endLine)
Tiles(cs, lines, a, b) ==
    /\ cs \in Seq(Span)
    /\ \A i \in 1..Len(cs) : ChunkOk(lines, a, b, cs[i])
    /\ \A i, j \in 1..Len(cs) : i < j => cs[i].endLine < cs[j].startLine
    /\ \A n \in a..b : lines[n].kind # "blank" => \E i \in 1..Len(cs) : Held(cs[i], n)
\* The lines from a to b are in one chunk, or blank.
Together(cs, lines, a, b) ==
    \/ \A n \in a..b : lines[n].kind = "blank"
    \/ \E i \in 1..Len(cs) : cs[i].startLine <= a /\ b <= cs[i].endLine

LEMMA SpansTyped == \A c \in Span : c.startLine \in Nat /\ c.endLine \in Nat
  BY DEF Span
LEMMA NothingTiles ==
    ASSUME NEW lines, NEW a \in Nat, NEW b \in Nat, b < a PROVE Tiles(<<>>, lines, a, b)
<1>1. <<>> \in Seq(Span) /\ Len(<<>>) = 0
  OBVIOUS
<1>2. \A n \in a..b : FALSE
  OBVIOUS
<1> QED BY <1>1, <1>2 DEF Tiles

LEMMA TilesJoin ==
    ASSUME NEW lines, NEW c, NEW d, NEW a \in Nat, NEW m \in Nat, NEW b \in Nat,
           a <= m + 1, m <= b, Tiles(c, lines, a, m), Tiles(d, lines, m + 1, b)
    PROVE  /\ Tiles(c \o d, lines, a, b)
           /\ \A x, y : Together(c, lines, x, y) \/ Together(d, lines, x, y)
                          => Together(c \o d, lines, x, y)
<1> DEFINE u == c \o d
           p == Len(c)
           q == Len(d)
<1>1. c \in Seq(Span) /\ d \in Seq(Span)
  BY DEF Tiles
<1>2. /\ p \in Nat /\ q \in Nat /\ u \in Seq(Span) /\ Len(u) = p + q
      /\ \A i \in 1..(p + q) : u[i] = IF i <= p THEN c[i] ELSE d[i - p]
      /\ (\A i \in 1..p : c[i] \in Span) /\ (\A i \in 1..q : d[i] \in Span)
  BY <1>1, ConcatProperties, LenProperties
<1> HIDE DEF u, p, q
<1>3. \A i \in 1..p : i \in 1..(p + q) /\ u[i] = c[i]
  BY <1>2
<1>4. ASSUME NEW i \in 1..q PROVE p + i \in 1..(p + q) /\ u[p + i] = d[i]
  <2> DEFINE k == p + i
  <2>1. k \in 1..(p + q) /\ ~(k <= p) /\ k - p = i
    BY <1>2
  <2> HIDE DEF k
  <2>2. u[k] = d[i]
    BY <1>2, <2>1
  <2> QED BY <2>1, <2>2 DEF k
<1>5. ASSUME NEW i \in 1..(p + q)
      PROVE  \/ i \in 1..p /\ u[i] = c[i]
             \/ i - p \in 1..q /\ ~(i <= p) /\ u[i] = d[i - p]
  BY <1>2
<1>6. /\ \A i \in 1..p : ChunkOk(lines, a, m, c[i])
      /\ \A i, j \in 1..p : i < j => c[i].endLine < c[j].startLine
      /\ \A i \in 1..q : ChunkOk(lines, m + 1, b, d[i])
      /\ \A i, j \in 1..q : i < j => d[i].endLine < d[j].startLine
  BY DEF Tiles, p, q
<1>7. ASSUME NEW i \in 1..(p + q) PROVE ChunkOk(lines, a, b, u[i])
  <2>1. CASE i \in 1..p /\ u[i] = c[i]
    <3> DEFINE x == c[i]
    <3>1. ChunkOk(lines, a, m, x) /\ x.startLine \in Nat /\ x.endLine \in Nat
      BY <1>2, <1>6, <2>1, SpansTyped
    <3> HIDE DEF x
    <3>2. ChunkOk(lines, a, b, x)
      BY <3>1 DEF ChunkOk
    <3> QED BY <2>1, <3>2 DEF x
  <2>2. CASE i - p \in 1..q /\ u[i] = d[i - p]
    <3> DEFINE x == d[i - p]
    <3>1. ChunkOk(lines, m + 1, b, x) /\ x.startLine \in Nat /\ x.endLine \in Nat
      BY <1>2, <1>6, <2>2, SpansTyped
    <3> HIDE DEF x
    <3>2. ChunkOk(lines, a, b, x)
      BY <3>1 DEF ChunkOk
    <3> QED BY <2>2, <3>2 DEF x
  <2> QED BY <1>5, <2>1, <2>2
<1>8. ASSUME NEW i \in 1..(p + q), NEW j \in 1..(p + q), i < j PROVE u[i].endLine < u[j].startLine
  <2>1. CASE i \in 1..p /\ u[i] = c[i] /\ j \in 1..p /\ u[j] = c[j]
    BY <1>6, <1>8, <2>1
  <2>2. CASE i \in 1..p /\ u[i] = c[i] /\ j - p \in 1..q /\ u[j] = d[j - p]
    <3> DEFINE x == c[i]
               y == d[j - p]
    <3>1. /\ ChunkOk(lines, a, m, x) /\ x.startLine \in Nat /\ x.endLine \in Nat
          /\ ChunkOk(lines, m + 1, b, y) /\ y.startLine \in Nat /\ y.endLine \in Nat
      BY <1>2, <1>6, <2>2, SpansTyped
    <3> HIDE DEF x, y
    <3>2. x.endLine < y.startLine
      BY <3>1 DEF ChunkOk
    <3> QED BY <2>2, <3>2 DEF x, y
  <2>3. CASE i - p \in 1..q /\ u[i] = d[i - p] /\ j - p \in 1..q /\ u[j] = d[j - p]
    <3>1. i - p < j - p
      BY <1>2, <1>8
    <3> QED BY <1>6, <2>3, <3>1
  <2>4. ~(~(i <= p) /\ j \in 1..p)
    BY <1>2, <1>8
  <2> QED BY <1>5, <2>1, <2>2, <2>3, <2>4
<1>9. ASSUME NEW n \in a..b, lines[n].kind # "blank" PROVE \E i \in 1..(p + q) : Held(u[i], n)
  <2>1. CASE n <= m
    <3>1. n \in a..m
      BY <2>1
    <3>2. PICK i \in 1..p : Held(c[i], n)
      BY <1>9, <3>1 DEF Tiles, p
    <3> QED BY <1>3, <3>2
  <2>2. CASE ~(n <= m)
    <3>1. n \in (m + 1)..b
      BY <2>2
    <3>2. PICK i \in 1..q : Held(d[i], n)
      BY <1>9, <3>1 DEF Tiles, q
    <3> QED BY <1>4, <3>2
  <2> QED BY <2>1, <2>2
<1>10. Tiles(u, lines, a, b)
  BY <1>2, <1>7, <1>8, <1>9 DEF Tiles
<1>11. ASSUME NEW x, NEW y, Together(c, lines, x, y) \/ Together(d, lines, x, y)
       PROVE  Together(u, lines, x, y)
  BY <1>2, <1>3, <1>4, <1>11 DEF Together, p, q
<1> QED BY <1>10, <1>11 DEF u

LEMMA ChunkTiles ==
    ASSUME NEW lines, NEW a \in Nat, NEW b \in Nat, a <= b, Fits(lines, a, b)
    PROVE  /\ Tiles(MakeChunk(lines, a, b), lines, a, b)
           /\ \A x \in a..b : \A y \in x..b : Together(MakeChunk(lines, a, b), lines, x, y)
<1> DEFINE c == MakeChunk(lines, a, b)
           chunk == [startLine |-> a, endLine |-> b]
<1>1. CASE \A i \in a..b : lines[i].kind = "blank"
  <2>1. c = <<>> /\ c \in Seq(Span) /\ Len(c) = 0
    BY <1>1 DEF MakeChunk
  <2>2. Tiles(c, lines, a, b)
    <3> HIDE DEF c
    <3> QED BY <1>1, <2>1 DEF Tiles
  <2>3. \A x \in a..b : \A y \in x..b : \A n \in x..y : n \in a..b
    OBVIOUS
  <2> QED BY <1>1, <2>2, <2>3 DEF Together
<1>2. CASE ~\A i \in a..b : lines[i].kind = "blank"
  <2>1. c = <<chunk>>
    BY <1>2 DEF MakeChunk
  <2>2. chunk \in Span /\ chunk.startLine = a /\ chunk.endLine = b
    BY DEF Span
  <2> HIDE DEF chunk, c
  <2>3. c \in Seq(Span) /\ Len(c) = 1 /\ c[1] = chunk
    BY <2>1, <2>2
  <2>4. ChunkOk(lines, a, b, chunk) /\ \A n \in a..b : Held(chunk, n)
    BY <2>2 DEF ChunkOk, Held
  <2>5. \A i \in 1..Len(c) : i = 1
    BY <2>3
  <2>6. 1 \in 1..Len(c)
    BY <2>3
  <2>7. Tiles(c, lines, a, b)
    BY <2>3, <2>4, <2>5, <2>6 DEF Tiles
  <2>8. \A x \in a..b : \A y \in x..b : c[1].startLine <= x /\ y <= c[1].endLine
    BY <2>2, <2>3
  <2> QED BY <2>6, <2>7, <2>8 DEF Together, c
<1> QED BY <1>1, <1>2

\* What the loop of chunkLineRange has after the lines up to n.
TakenState == [start : Nat, bytes : Nat, chunks : Seq(Span)]
TakenUpTo(acc, lines, from, n) ==
    /\ from <= acc.start /\ acc.start <= n + 1 /\ (from <= n => acc.start <= n)
    /\ acc.bytes = RangeBytes(lines, acc.start, n) /\ Fits(lines, acc.start, n)
    /\ Tiles(acc.chunks, lines, from, acc.start - 1)

LEMMA LineTakenKeeps ==
    ASSUME NEW lines \in Seq(ChunkLine), NEW from \in Nat \ {0}, NEW acc \in TakenState,
           NEW n \in Nat, from <= n + 1, n + 1 \in DOMAIN lines, TakenUpTo(acc, lines, from, n)
    PROVE  TakenUpTo(LineTaken(lines, acc, n + 1), lines, from, n + 1)
<1> DEFINE m == n + 1
           next == LineTaken(lines, acc, m)
           cs == acc.chunks
           Cut == m > acc.start /\ \/ m - acc.start >= MaxChunkLines
                                   \/ acc.bytes + lines[m].bytes + 1 > MaxChunkBytes
<1>0. /\ acc.start \in Nat /\ acc.bytes \in Nat /\ cs \in Seq(Span)
      /\ DOMAIN acc = {"start", "bytes", "chunks"}
  BY DEF TakenState
<1>1. /\ from <= acc.start /\ acc.start <= m /\ (from <= n => acc.start <= n)
      /\ acc.bytes = RangeBytes(lines, acc.start, n) /\ Fits(lines, acc.start, n)
      /\ Tiles(cs, lines, from, acc.start - 1)
  BY DEF TakenUpTo
<1>2. lines[m].bytes \in Nat /\ n <= Len(lines) /\ m <= Len(lines) /\ m \in Nat
  BY ChunkLinesTyped
<1>3. MaxChunkLines \in Nat \ {0} /\ MaxChunkBytes \in Nat \ {0}
  BY ChunkAssumption
<1>4. next = IF Cut THEN [start |-> m, bytes |-> lines[m].bytes + 1,
                          chunks |-> cs \o MakeChunk(lines, acc.start, m - 1)]
             ELSE [acc EXCEPT !.bytes = acc.bytes + lines[m].bytes + 1]
  BY DEF LineTaken
<1>5. m - 1 = n
  OBVIOUS
<1>6. CASE Cut
  <2> DEFINE new == cs \o MakeChunk(lines, acc.start, n)
  <2>1. next = [start |-> m, bytes |-> lines[m].bytes + 1, chunks |-> new]
    BY <1>4, <1>5, <1>6
  <2> HIDE DEF next, new
  <2>2. next.start = m /\ next.bytes = lines[m].bytes + 1 /\ next.chunks = new
    BY <2>1
  <2>3. acc.start <= n
    BY <1>0, <1>6
  <2>4. Tiles(new, lines, from, n)
    <3>1. Tiles(MakeChunk(lines, acc.start, n), lines, acc.start, n)
      BY <1>0, <1>1, <2>3, ChunkTiles
    <3> DEFINE k == acc.start - 1
    <3>2. k \in Nat /\ k + 1 = acc.start /\ from <= k + 1 /\ k <= n /\ n \in Nat /\ from \in Nat
      BY <1>0, <1>1, <2>3
    <3>3. Tiles(cs, lines, from, k) /\ Tiles(MakeChunk(lines, acc.start, n), lines, k + 1, n)
      BY <1>1, <3>1, <3>2
    <3> HIDE DEF k, cs
    <3> QED BY <3>2, <3>3, TilesJoin DEF new
  <2>5. RangeBytes(lines, m, m) = lines[m].bytes + 1
    <3> DEFINE k == n
    <3>1. RangeSums(lines, m, n) /\ RangeBytes(lines, m, n) = 0
      <4> HIDE DEF m
      <4>1. m \in Nat \ {0} /\ m > n
        BY DEF m
      <4> QED BY <1>2, <4>1, RangeAdds
    <3>2. m <= n + 1 /\ n + 1 \in DOMAIN lines
      OBVIOUS
    <3>3. RangeBytes(lines, m, n + 1) = RangeBytes(lines, m, n) + (lines[n + 1].bytes + 1)
      BY <3>1, <3>2 DEF RangeSums
    <3> QED BY <1>2, <3>1, <3>3
  <2>6. Fits(lines, m, m)
    BY <1>2 DEF Fits
  <2> HIDE DEF m
  <2>7. from <= m /\ m <= m + 1 /\ m <= m
    BY <1>2 DEF m
  <2>8. m - 1 = n /\ next.start - 1 = n
    BY <1>5, <2>2
  <2>9. /\ from <= next.start /\ next.start <= m + 1 /\ (from <= m => next.start <= m)
        /\ next.bytes = RangeBytes(lines, next.start, m) /\ Fits(lines, next.start, m)
    BY <2>2, <2>5, <2>6, <2>7
  <2>10. Tiles(next.chunks, lines, from, next.start - 1)
    BY <2>2, <2>4, <2>8
  <2>11. TakenUpTo(next, lines, from, m)
    BY <2>9, <2>10 DEF TakenUpTo
  <2> QED BY <2>11 DEF next, m
<1>7. CASE ~Cut
  <2>1. next = [acc EXCEPT !.bytes = acc.bytes + lines[m].bytes + 1]
    BY <1>4, <1>7
  <2> HIDE DEF next
  <2>2. next.start = acc.start /\ next.chunks = cs /\ next.bytes = acc.bytes + lines[m].bytes + 1
    BY <1>0, <2>1
  <2>3. RangeBytes(lines, acc.start, m) = acc.bytes + (lines[m].bytes + 1)
    <3> DEFINE a == acc.start
    <3>1. a \in Nat \ {0} /\ a <= n + 1
      BY <1>0, <1>1
    <3> HIDE DEF a
    <3>2. RangeSums(lines, a, n)
      BY <1>2, <3>1, RangeAdds
    <3>3. RangeBytes(lines, a, n + 1) = RangeBytes(lines, a, n) + (lines[n + 1].bytes + 1)
      BY <3>1, <3>2 DEF RangeSums
    <3> QED BY <1>1, <3>3 DEF a
  <2>4. Fits(lines, acc.start, m)
    <3> SUFFICES ASSUME acc.start < m
                 PROVE  m - acc.start < MaxChunkLines /\ RangeBytes(lines, acc.start, m) <= MaxChunkBytes
      BY DEF Fits
    <3>1. ~(m - acc.start >= MaxChunkLines) /\ ~(acc.bytes + lines[m].bytes + 1 > MaxChunkBytes)
      BY <1>0, <1>2, <1>7
    <3> HIDE DEF m
    <3> DEFINE k == acc.start
               old == acc.bytes
               more == lines[m].bytes
               all == RangeBytes(lines, k, m)
    <3>2. /\ k \in Nat /\ old \in Nat /\ more \in Nat /\ m \in Nat /\ all = old + (more + 1)
          /\ ~(m - k >= MaxChunkLines) /\ ~(old + more + 1 > MaxChunkBytes)
      BY <1>0, <1>2, <2>3, <3>1
    <3> HIDE DEF k, old, more, all
    <3>3. m - k < MaxChunkLines /\ all <= MaxChunkBytes
      BY <1>3, <3>2
    <3> QED BY <3>3 DEF k, all
  <2>5. next.bytes = RangeBytes(lines, acc.start, m)
    BY <1>0, <1>2, <2>2, <2>3
  <2> HIDE DEF m
  <2>6. acc.start <= m /\ acc.start <= m + 1
    BY <1>0, <1>1, <1>2
  <2>7. from <= acc.start /\ Tiles(cs, lines, from, acc.start - 1)
    BY <1>1
  <2> HIDE DEF cs
  <2>8. TakenUpTo(next, lines, from, m)
    BY <2>2, <2>4, <2>5, <2>6, <2>7 DEF TakenUpTo
  <2> QED BY <2>8 DEF next, m
<1> QED BY <1>6, <1>7

LEMMA ChunkIsSpans ==
    ASSUME NEW lines, NEW a \in Nat, NEW b \in Nat PROVE MakeChunk(lines, a, b) \in Seq(Span)
<1> DEFINE chunk == [startLine |-> a, endLine |-> b]
<1>1. chunk \in Span
  BY DEF Span
<1>2. MakeChunk(lines, a, b) = <<>> \/ MakeChunk(lines, a, b) = <<chunk>>
  BY DEF MakeChunk
<1> HIDE DEF chunk
<1>3. <<>> \in Seq(Span) /\ <<chunk>> \in Seq(Span)
  BY <1>1
<1> QED BY <1>2, <1>3

LEMMA LineTakenIsTyped ==
    ASSUME NEW lines \in Seq(ChunkLine)
    PROVE  LinesAreTakenKeep(lines, TakenState, DOMAIN lines)
<1> SUFFICES ASSUME NEW acc \in TakenState, NEW n \in DOMAIN lines
             PROVE  LineTaken(lines, acc, n) \in TakenState
  BY DEF LinesAreTakenKeep
<1> DEFINE new == acc.chunks \o MakeChunk(lines, acc.start, n - 1)
           size == lines[n].bytes + 1
           sum == acc.bytes + lines[n].bytes + 1
<1>1. acc.start \in Nat /\ acc.bytes \in Nat /\ acc.chunks \in Seq(Span)
  BY DEF TakenState
<1>2. lines[n].bytes \in Nat /\ n \in Nat /\ n - 1 \in Nat
  BY ChunkLinesTyped
<1>3. new \in Seq(Span)
  <2>1. MakeChunk(lines, acc.start, n - 1) \in Seq(Span)
    BY <1>1, <1>2, ChunkIsSpans
  <2> QED BY <1>1, <2>1, ConcatProperties
<1>4. size \in Nat /\ sum \in Nat
  BY <1>1, <1>2
<1>5. \/ LineTaken(lines, acc, n) = [start |-> n, bytes |-> size, chunks |-> new]
      \/ LineTaken(lines, acc, n) = [acc EXCEPT !.bytes = sum]
  BY DEF LineTaken
<1> HIDE DEF new, size, sum
<1>6. [start |-> n, bytes |-> size, chunks |-> new] \in TakenState
  BY <1>2, <1>3, <1>4 DEF TakenState
<1>7. [acc EXCEPT !.bytes = sum] \in TakenState
  BY <1>4 DEF TakenState
<1> QED BY <1>5, <1>6, <1>7

LEMMA RangeTiles ==
    ASSUME NEW lines \in Seq(ChunkLine), NEW from \in Nat \ {0}, NEW to \in Nat,
           from <= to, to <= Len(lines)
    PROVE  Tiles(LineRange(lines, from, to), lines, from, to)
<1> DEFINE K == to - from + 1
           D == DOMAIN lines
           s == [i \in 1..K |-> from + i - 1]
           end == LinesTaken(lines, from, s)
<1>1. K \in Nat /\ from + K = to + 1 /\ from \in Nat
  OBVIOUS
<1>2. D = 1..Len(lines) /\ Len(lines) \in Nat
  BY ChunkLinesTyped
<1> HIDE DEF K, D
<1>3. s \in Seq(D) /\ Len(s) = K /\ \A i \in 1..K : s[i] = from + i - 1 /\ s[i] \in D
  <2>1. \A i \in 1..K : from + i - 1 \in D
    BY <1>1, <1>2
  <2>2. s \in [1..K -> D]
    BY <2>1
  <2> QED BY <1>1, <2>1, <2>2, SeqDef, LenProperties
<1>4. LineRange(lines, from, to) = end.chunks \o MakeChunk(lines, end.start, to)
  BY DEF LineRange, K
<1> HIDE DEF s
<1>5. FirstTaken(from) \in TakenState
  BY <1>1 DEF FirstTaken, TakenState
<1>6. PICK g \in [0..K -> TakenState] :
         /\ g[0] = FirstTaken(from) /\ g[K] = end
         /\ \A i \in 1..K : g[i] = LineTaken(lines, g[i - 1], s[i])
  <2> DEFINE S == TakenState
  <2>1. FirstTaken(from) \in S /\ LinesAreTakenKeep(lines, S, D)
    BY <1>5, LineTakenIsTyped DEF D
  <2> HIDE DEF S
  <2>2. LinesAreTakenInTurn(lines, from, S, s)
    <3> HIDE DEF end
    <3> QED BY <1>3, <2>1, LinesAreTaken
  <2> QED BY <1>3, <2>2 DEF S, LinesAreTakenInTurn
<1> HIDE DEF end
<1> DEFINE R(i) == TakenUpTo(g[i], lines, from, from + i - 1)
           Good == {i \in Nat : i <= K => R(i)}
<1>7. R(0)
  <2> DEFINE m == from - 1
             acc == g[0]
  <2>1. m \in Nat /\ m + 1 = from /\ m < from /\ m <= Len(lines) /\ from + 0 - 1 = m
    BY <1>1, <1>2
  <2>2. acc.start = from /\ acc.bytes = 0 /\ acc.chunks = <<>>
    BY <1>6 DEF FirstTaken
  <2> HIDE DEF m, acc
  <2>3. RangeBytes(lines, from, m) = 0
    BY <2>1, RangeAdds
  <2>4. Tiles(<<>>, lines, from, m)
    BY <1>1, <2>1, NothingTiles
  <2>5. Fits(lines, from, m)
    BY <2>1 DEF Fits
  <2>6. acc.start - 1 = m
    BY <2>1, <2>2 DEF m
  <2>7. TakenUpTo(acc, lines, from, m)
    BY <1>1, <2>1, <2>2, <2>3, <2>4, <2>5, <2>6 DEF TakenUpTo
  <2> QED BY <2>1, <2>7 DEF acc
<1>8. ASSUME NEW j \in Nat, R(j), j + 1 <= K PROVE R(j + 1)
  <2> DEFINE n == from + j - 1
             i == j + 1
  <2>1. /\ n \in Nat /\ n + 1 = from + i - 1 /\ from <= n + 1 /\ i \in 1..K /\ i - 1 = j
        /\ j \in 0..K
    BY <1>1, <1>8
  <2> HIDE DEF n, i
  <2>2. s[i] = n + 1 /\ n + 1 \in D
    BY <1>3, <2>1
  <2>3. g[j] \in TakenState /\ g[i] = LineTaken(lines, g[j], n + 1)
    BY <1>6, <2>1, <2>2
  <2>4. TakenUpTo(g[j], lines, from, n)
    BY <1>8 DEF n
  <2>5. TakenUpTo(g[i], lines, from, n + 1)
    BY <2>1, <2>2, <2>3, <2>4, LineTakenKeeps DEF D
  <2>6. TakenUpTo(g[i], lines, from, from + i - 1)
    BY <2>1, <2>5
  <2> QED BY <2>6 DEF i
<1>9. R(K)
  <2> HIDE DEF R
  <2>1. 0 \in Good
    BY <1>7
  <2>2. ASSUME NEW m \in Nat, m \in Good PROVE m + 1 \in Good
    <3>1. m + 1 <= K => m <= K
      BY <1>1
    <3> QED BY <1>8, <2>2, <3>1
  <2>3. Nat \subseteq Good
    <3> HIDE DEF Good
    <3> QED BY <2>1, <2>2, Induction
  <2>4. K \in Good /\ K <= K
    BY <1>1, <2>3
  <2> QED BY <2>4
<1>10. TakenUpTo(end, lines, from, to)
  <2>1. from + K - 1 = to
    BY <1>1
  <2> QED BY <1>6, <1>9, <2>1
<1>11. end \in TakenState
  <2>1. K \in 0..K
    BY <1>1
  <2> QED BY <1>6, <2>1
<1> DEFINE k == end.start - 1
<1>12. /\ end.start \in Nat /\ from <= end.start /\ end.start <= to /\ Fits(lines, end.start, to)
       /\ Tiles(end.chunks, lines, from, k) /\ k \in Nat /\ k + 1 = end.start /\ k <= to
       /\ from <= k + 1
  <2>1. end.start \in Nat
    BY <1>11 DEF TakenState
  <2>2. from <= end.start /\ end.start <= to /\ Fits(lines, end.start, to) /\ Tiles(end.chunks, lines, from, k)
    BY <1>10 DEF TakenUpTo
  <2> QED BY <1>1, <2>1, <2>2
<1>13. Tiles(MakeChunk(lines, end.start, to), lines, k + 1, to)
  <2>1. Tiles(MakeChunk(lines, end.start, to), lines, end.start, to)
    BY <1>12, ChunkTiles
  <2> QED BY <1>12, <2>1
<1> HIDE DEF k
<1> QED BY <1>1, <1>4, <1>12, <1>13, TilesJoin

-----------------------------------------------------------------------------
\* Units that follow one another from the first line to the last.
UnitType == [from : Nat, to : Nat]
UnitsHold(units, N) ==
    /\ units \in Seq(UnitType) /\ Len(units) \in Nat \ {0}
    /\ units[1].from = 1 /\ units[Len(units)].to = N
    /\ \A i \in 1..Len(units) : 1 <= units[i].from /\ units[i].from <= units[i].to /\ units[i].to <= N
    /\ \A i \in 1..Len(units) : i + 1 <= Len(units) => units[i + 1].from = units[i].to + 1
\* No line but a first one starts a unit.
UnitsStart(units, starts) == \A i \in 1..Len(units) : units[i].from \in starts \union {1}

LEMMA UnitsFollow ==
    ASSUME NEW lines \in Seq(ChunkLine), lines # <<>>, NEW starts
    PROVE  /\ UnitsHold(Units(lines, starts), Len(lines))
           /\ UnitsStart(Units(lines, starts), starts)
<1> DEFINE N == Len(lines)
           S == starts \union {1}
           s == [n \in DOMAIN lines |-> n]
           first == Within(s, S)
           K == Len(first)
           units == Units(lines, starts)
<1>0. N \in Nat /\ DOMAIN lines = 1..N
  BY ChunkLinesTyped
<1>00. N # 0
  BY EmptySeq
<1> HIDE DEF N
<1>1. s \in Seq(1..N) /\ Len(s) = N /\ \A n \in 1..N : s[n] = n
  <2>1. s = [n \in 1..N |-> n]
    BY <1>0
  <2>2. s \in [1..N -> 1..N]
    BY <2>1
  <2> QED BY <1>0, <2>1, <2>2, SeqDef, LenProperties
<1>2. 1 \in S
  OBVIOUS
<1> HIDE DEF s, S
<1>3. first \in Seq(1..N)
  BY <1>1, WithinPicks
<1>4. PICK f : Picks(f, first, s, S, N)
  BY <1>1, WithinPicks
<1>5. units = [i \in DOMAIN first |->
                 [from |-> first[i], to |-> IF i < K THEN first[i + 1] - 1 ELSE N]]
  BY DEF Units, N, s, S
<1>6. K \in Nat /\ DOMAIN first = 1..K
  BY <1>3, LenProperties
<1> HIDE DEF first
<1>7. /\ \A i \in 1..K : f[i] \in 1..N /\ first[i] = f[i] /\ first[i] \in S
      /\ \A i, j \in 1..K : i < j => first[i] < first[j]
      /\ \A n \in 1..N : n \in S => \E i \in 1..K : first[i] = n
  <2>1. \A i \in 1..K : f[i] \in 1..N /\ first[i] = s[f[i]] /\ first[i] \in S
    BY <1>4 DEF Picks
  <2>2. \A i \in 1..K : first[i] = f[i]
    BY <1>1, <2>1
  <2>3. \A i, j \in 1..K : i < j => first[i] < first[j]
    BY <1>4, <2>2 DEF Picks
  <2>4. \A n \in 1..N : n \in S => \E i \in 1..K : first[i] = n
    BY <1>1, <1>4, <2>2 DEF Picks
  <2> QED BY <2>1, <2>2, <2>3, <2>4
<1> HIDE DEF K
<1>8. K # 0 /\ first[1] = 1
  <2>1. 1 \in 1..N
    BY <1>0, <1>00
  <2>2. PICK i \in 1..K : first[i] = 1
    BY <1>2, <1>7, <2>1
  <2>3. 1 \in 1..K /\ (i = 1 \/ 1 < i)
    BY <1>6
  <2>4. first[1] \in 1..N
    BY <1>7, <2>3
  <2>5. ~(first[1] < 1)
    BY <1>0, <2>4
  <2>6. i = 1
    BY <1>7, <2>2, <2>3, <2>5
  <2> QED BY <1>6, <2>2, <2>3, <2>6
<1>9. ASSUME NEW i \in 1..K
      PROVE  /\ units[i] \in UnitType /\ units[i].from = first[i] /\ units[i].from \in S
             /\ 1 <= units[i].from /\ units[i].from <= units[i].to /\ units[i].to <= N
             /\ i + 1 <= K => first[i + 1] = units[i].to + 1
             /\ i = K => units[i].to = N
  <2> DEFINE next == first[i + 1]
             to == IF i < K THEN next - 1 ELSE N
             x == first[i]
  <2>1. units[i] = [from |-> x, to |-> to]
    BY <1>5, <1>6
  <2>2. x \in Nat /\ x \in S /\ 1 <= x /\ x <= N
    <3>1. x \in 1..N /\ x \in S
      BY <1>7
    <3> QED BY <1>0, <3>1
  <2>3. i + 1 <= K => next \in Nat /\ x < next /\ next <= N
    <3> SUFFICES ASSUME i + 1 <= K PROVE next \in Nat /\ x < next /\ next <= N
      OBVIOUS
    <3>1. i + 1 \in 1..K /\ i < i + 1
      BY <1>6
    <3>2. next \in 1..N /\ x < next
      BY <1>7, <3>1
    <3> QED BY <1>0, <3>2
  <2>4. i < K <=> i + 1 <= K
    BY <1>6
  <2> HIDE DEF x, next
  <2>5. to \in Nat /\ x <= to /\ to <= N /\ (i + 1 <= K => next = to + 1) /\ (i = K => to = N)
    BY <1>0, <1>6, <2>2, <2>3, <2>4
  <2> HIDE DEF to
  <2>6. units[i].from = x /\ units[i].to = to /\ units[i] \in UnitType
    BY <2>1, <2>2, <2>5 DEF UnitType
  <2> QED BY <2>2, <2>5, <2>6 DEF x, next
<1>10. units \in Seq(UnitType) /\ Len(units) = K
  <2>1. DOMAIN units = 1..K /\ units = [i \in 1..K |-> units[i]]
    BY <1>5, <1>6
  <2> HIDE DEF units
  <2>2. units \in [1..K -> UnitType]
    BY <1>9, <2>1
  <2> QED BY <1>6, <2>2, SeqDef, LenProperties
<1>11. \A i \in 1..K : i + 1 <= K => units[i + 1].from = units[i].to + 1
  <2> TAKE i \in 1..K
  <2> HAVE i + 1 <= K
  <2>1. i + 1 \in 1..K
    BY <1>6
  <2> HIDE DEF units
  <2> QED BY <1>9, <2>1
<1>12. 1 \in 1..K /\ K \in 1..K
  BY <1>6, <1>8
<1> HIDE DEF units
<1>13. units[1].from = 1 /\ units[K].to = N
  BY <1>8, <1>9, <1>12
<1>14. UnitsHold(units, N)
  BY <1>6, <1>8, <1>9, <1>10, <1>11, <1>13 DEF UnitsHold
<1>15. UnitsStart(units, starts)
  BY <1>9, <1>10 DEF UnitsStart, S
<1> QED BY <1>14, <1>15 DEF units, N

\* What chunkStructuralRanges has after the units up to line last: those gathered have
\* room in one chunk, and no unit that fits into a chunk is cut.
PackType == [start : Nat, end : Nat, bytes : Nat, chunks : Seq(Span)]
PackHolds(pack, lines, last) ==
    /\ pack.start = 0 => pack.bytes = 0 /\ Tiles(pack.chunks, lines, 1, last)
    /\ pack.start # 0 =>
          /\ pack.start <= last /\ pack.end = last
          /\ Tiles(pack.chunks, lines, 1, pack.start - 1)
          /\ pack.bytes = RangeBytes(lines, pack.start, last)
          /\ last - pack.start < MaxChunkLines /\ pack.bytes <= MaxChunkBytes
Small(lines, u) == u.to - u.from < MaxChunkLines /\ RangeBytes(lines, u.from, u.to) <= MaxChunkBytes
InPack(pack, lines, u) ==
    \/ Together(pack.chunks, lines, u.from, u.to)
    \/ pack.start # 0 /\ pack.start <= u.from /\ u.to <= pack.end
UnitsOf(lines) == {u \in UnitType : 1 <= u.from /\ u.from <= u.to /\ u.to <= Len(lines)}

LEMMA PackTyped ==
    ASSUME NEW pack \in PackType
    PROVE  /\ pack.start \in Nat /\ pack.end \in Nat /\ pack.bytes \in Nat
           /\ pack.chunks \in Seq(Span) /\ DOMAIN pack = {"start", "end", "bytes", "chunks"}
  BY DEF PackType
LEMMA UnitTyped ==
    ASSUME NEW lines \in Seq(ChunkLine), NEW u \in UnitsOf(lines)
    PROVE  /\ u.from \in Nat \ {0} /\ u.to \in Nat /\ u.from <= u.to /\ u.to <= Len(lines)
           /\ RangeBytes(lines, u.from, u.to) \in Nat
           /\ Tiles(LineRange(lines, u.from, u.to), lines, u.from, u.to)
<1> DEFINE a == u.from
           b == u.to
<1>1. a \in Nat \ {0} /\ b \in Nat /\ a <= b /\ b <= Len(lines)
  BY DEF UnitsOf, UnitType
<1> HIDE DEF a, b
<1>2. RangeBytes(lines, a, b) \in Nat
  BY <1>1, RangeAdds DEF RangeSums
<1>3. Tiles(LineRange(lines, a, b), lines, a, b)
  BY <1>1, RangeTiles
<1> QED BY <1>1, <1>2, <1>3 DEF a, b

LEMMA PackFlushed ==
    ASSUME NEW lines, NEW pack \in PackType, NEW last \in Nat, PackHolds(pack, lines, last)
    PROVE  LET next == Flushed(lines, pack) IN
           /\ next \in PackType /\ next.start = 0 /\ next.bytes = 0
           /\ Tiles(next.chunks, lines, 1, last)
           /\ \A u \in UnitType : u.from <= u.to /\ InPack(pack, lines, u)
                => Together(next.chunks, lines, u.from, u.to)
<1> DEFINE a == pack.start
           cs == pack.chunks
           chunk == MakeChunk(lines, a, pack.end)
           new == cs \o chunk
           next == Flushed(lines, pack)
<1>0. /\ a \in Nat /\ pack.end \in Nat /\ pack.bytes \in Nat /\ cs \in Seq(Span)
  BY PackTyped
<1>1. CASE a = 0
  <2>1. next = pack
    BY <1>1 DEF Flushed
  <2>2. pack.bytes = 0 /\ Tiles(cs, lines, 1, last)
    BY <1>1 DEF PackHolds
  <2>3. \A u \in UnitType : InPack(pack, lines, u) => Together(cs, lines, u.from, u.to)
    BY <1>1 DEF InPack
  <2> QED BY <1>1, <2>1, <2>2, <2>3
<1>2. CASE a # 0
  <2>1. next = [EmptyPack EXCEPT !.chunks = new]
    BY <1>2 DEF Flushed
  <2>2. /\ a <= last /\ pack.end = last /\ Tiles(cs, lines, 1, a - 1)
        /\ pack.bytes = RangeBytes(lines, a, last)
        /\ last - a < MaxChunkLines /\ pack.bytes <= MaxChunkBytes
    BY <1>2 DEF PackHolds
  <2>3. Fits(lines, a, last)
    BY <2>2 DEF Fits
  <2>4. /\ Tiles(MakeChunk(lines, a, last), lines, a, last)
        /\ \A x \in a..last : \A y \in x..last : Together(MakeChunk(lines, a, last), lines, x, y)
    <3> HIDE DEF a
    <3> QED BY <1>0, <2>2, <2>3, ChunkTiles
  <2>5. chunk = MakeChunk(lines, a, last)
    BY <2>2
  <2> DEFINE k == a - 1
  <2>6. k \in Nat /\ k + 1 = a /\ k <= last /\ 1 <= k + 1 /\ 1 \in Nat
    BY <1>0, <1>2, <2>2
  <2>7. Tiles(cs, lines, 1, k) /\ Tiles(chunk, lines, k + 1, last)
    BY <2>2, <2>4, <2>5, <2>6
  <2> HIDE DEF k, chunk, cs, next
  <2>8. /\ Tiles(new, lines, 1, last)
        /\ \A x, y : Together(cs, lines, x, y) \/ Together(chunk, lines, x, y) => Together(new, lines, x, y)
    BY <2>6, <2>7, TilesJoin
  <2> HIDE DEF new
  <2>9. new \in Seq(Span)
    BY <2>8 DEF Tiles
  <2>10. next \in PackType /\ next.start = 0 /\ next.bytes = 0 /\ next.chunks = new
    BY <2>1, <2>9 DEF EmptyPack, PackType
  <2>11. ASSUME NEW u \in UnitType, u.from <= u.to, InPack(pack, lines, u)
         PROVE  Together(new, lines, u.from, u.to)
    <3>1. CASE Together(pack.chunks, lines, u.from, u.to)
      BY <2>8, <3>1 DEF cs
    <3>2. CASE a <= u.from /\ u.to <= pack.end
      <4> DEFINE x == u.from
                 y == u.to
      <4>1. x \in Nat /\ y \in Nat /\ x <= y /\ a <= x /\ y <= last
        BY <2>2, <2>11, <3>2 DEF UnitType
      <4> HIDE DEF x, y, a
      <4>2. x \in a..last /\ y \in x..last
        BY <1>0, <4>1
      <4>3. Together(chunk, lines, x, y)
        BY <2>4, <2>5, <4>2
      <4>4. Together(new, lines, x, y)
        BY <2>8, <4>3
      <4> QED BY <4>4 DEF x, y
    <3> QED BY <2>11, <3>1, <3>2 DEF InPack
  <2> QED BY <2>8, <2>10, <2>11 DEF next
<1> QED BY <1>1, <1>2

LEMMA PackKeeps ==
    ASSUME NEW lines \in Seq(ChunkLine), NEW pack \in PackType, NEW last \in Nat,
           PackHolds(pack, lines, last), NEW u \in UnitsOf(lines), u.from = last + 1
    PROVE  LET next == Pack(lines, pack, u) IN
           /\ next \in PackType /\ PackHolds(next, lines, u.to)
           /\ Small(lines, u) => InPack(next, lines, u)
           /\ \A w \in UnitType : w.from <= w.to /\ w.to <= last /\ InPack(pack, lines, w) => InPack(next, lines, w)
<1> DEFINE a == u.from
           b == u.to
           bytes == RangeBytes(lines, a, b)
           full == \/ b - pack.start + 1 > MaxChunkLines
                   \/ pack.bytes + bytes > MaxChunkBytes
           flushed == Flushed(lines, pack)
           open == IF pack.start # 0 /\ full THEN flushed ELSE pack
           Big == b - a + 1 > MaxChunkLines \/ bytes > MaxChunkBytes
           range == LineRange(lines, a, b)
           next == Pack(lines, pack, u)
<1>0. /\ a \in Nat \ {0} /\ b \in Nat /\ a <= b /\ b <= Len(lines) /\ bytes \in Nat
      /\ Tiles(range, lines, a, b)
  BY UnitTyped
<1>1. MaxChunkLines \in Nat \ {0} /\ MaxChunkBytes \in Nat \ {0}
  BY ChunkAssumption
<1>2. next = IF Big THEN [flushed EXCEPT !.chunks = flushed.chunks \o range]
             ELSE [open EXCEPT !.start = IF open.start = 0 THEN a ELSE open.start, !.end = b,
                               !.bytes = open.bytes + bytes]
  BY DEF Pack
<1>3. /\ flushed \in PackType /\ flushed.start = 0 /\ flushed.bytes = 0
      /\ Tiles(flushed.chunks, lines, 1, last)
      /\ \A w \in UnitType : w.from <= w.to /\ InPack(pack, lines, w)
            => Together(flushed.chunks, lines, w.from, w.to)
  BY PackFlushed
<1>4. a = last + 1
  OBVIOUS
<1>5. Small(lines, u) => ~Big
  <2>1. Small(lines, u) <=> b - a < MaxChunkLines /\ bytes <= MaxChunkBytes
    BY DEF Small
  <2> HIDE DEF a, b, bytes
  <2> QED BY <1>0, <1>1, <2>1
<1>6. \A w \in UnitType : w.from \in Nat /\ w.to \in Nat
  BY DEF UnitType
<1> HIDE DEF a, b, bytes, full, flushed, open, range, next
<1>7. CASE Big
  <2> DEFINE cs == flushed.chunks
             new == cs \o range
  <2>1. next = [flushed EXCEPT !.chunks = new]
    BY <1>2, <1>7
  <2>2. /\ Tiles(new, lines, 1, b)
        /\ \A x, y : Together(cs, lines, x, y) => Together(new, lines, x, y)
    <3>1. 1 \in Nat /\ 1 <= last + 1 /\ last <= b
      BY <1>0, <1>4
    <3>2. Tiles(cs, lines, 1, last) /\ Tiles(range, lines, last + 1, b)
      BY <1>0, <1>3, <1>4
    <3> HIDE DEF cs
    <3> QED BY <1>0, <3>1, <3>2, TilesJoin
  <2> HIDE DEF new
  <2>3. new \in Seq(Span)
    BY <2>2 DEF Tiles
  <2>4. next \in PackType /\ next.start = 0 /\ next.bytes = 0 /\ next.chunks = new
    BY <1>3, <2>1, <2>3 DEF PackType
  <2>5. PackHolds(next, lines, b)
    BY <2>2, <2>4 DEF PackHolds
  <2>6. \A w \in UnitType : w.from <= w.to /\ InPack(pack, lines, w) => InPack(next, lines, w)
    BY <1>3, <2>2, <2>4 DEF InPack
  <2> QED BY <1>5, <1>7, <2>4, <2>5, <2>6 DEF next, b
<1>8. CASE ~Big
  <2> DEFINE start == IF open.start = 0 THEN a ELSE open.start
             sum == open.bytes + bytes
  <2>1. next = [open EXCEPT !.start = start, !.end = b, !.bytes = sum]
    BY <1>2, <1>8
  <2>2. /\ open \in PackType
        /\ open.start = 0 => open.bytes = 0 /\ Tiles(open.chunks, lines, 1, last)
        /\ open.start # 0 =>
              /\ open.start <= last /\ open.end = last
              /\ Tiles(open.chunks, lines, 1, open.start - 1)
              /\ open.bytes = RangeBytes(lines, open.start, last)
              /\ b - open.start + 1 <= MaxChunkLines /\ sum <= MaxChunkBytes
        /\ \A w \in UnitType : w.from <= w.to /\ InPack(pack, lines, w) => InPack(open, lines, w)
    <3>1. CASE pack.start # 0 /\ full
      <4>1. open = flushed
        BY <3>1 DEF open
      <4>2. \A w \in UnitType : w.from <= w.to /\ InPack(pack, lines, w) => InPack(flushed, lines, w)
        BY <1>3 DEF InPack
      <4> HIDE DEF sum
      <4> QED BY <1>3, <4>1, <4>2
    <3>2. CASE ~(pack.start # 0 /\ full)
      <4>1. open = pack
        BY <3>2 DEF open
      <4>2. pack.start # 0 =>
               b - pack.start + 1 <= MaxChunkLines /\ pack.bytes + bytes <= MaxChunkBytes
        <5>1. pack.start \in Nat /\ pack.bytes \in Nat
          BY PackTyped
        <5> QED BY <1>0, <1>1, <3>2, <5>1 DEF full
      <4> QED BY <4>1, <4>2 DEF PackHolds
    <3> QED BY <3>1, <3>2
  <2>3. open.start \in Nat /\ open.bytes \in Nat /\ open.chunks \in Seq(Span)
    BY <2>2, PackTyped
  <2>4. b - a + 1 <= MaxChunkLines /\ bytes <= MaxChunkBytes
    BY <1>0, <1>1, <1>8
  <2>5. /\ start \in Nat /\ start # 0 /\ start <= a /\ start <= b /\ sum \in Nat
        /\ b - start < MaxChunkLines /\ sum <= MaxChunkBytes
    <3>1. CASE open.start = 0
      <4>1. start = a /\ sum = bytes
        BY <1>0, <2>2, <3>1
      <4> HIDE DEF start, sum
      <4> QED BY <1>0, <1>1, <2>4, <4>1
    <3>2. CASE open.start # 0
      <4>1. start = open.start /\ start <= last /\ b - start + 1 <= MaxChunkLines /\ sum <= MaxChunkBytes
        BY <2>2, <3>2
      <4>2. start \in Nat /\ start # 0 /\ sum \in Nat
        BY <1>0, <2>3, <3>2, <4>1
      <4> HIDE DEF start, sum
      <4> QED BY <1>0, <1>1, <1>4, <4>1, <4>2
    <3> QED BY <3>1, <3>2
  <2>6. Tiles(open.chunks, lines, 1, start - 1)
    <3>1. CASE open.start = 0
      <4>1. start - 1 = last
        BY <1>4, <3>1
      <4> QED BY <2>2, <3>1, <4>1
    <3>2. CASE open.start # 0
      BY <2>2, <3>2
    <3> QED BY <3>1, <3>2
  <2>7. sum = RangeBytes(lines, start, b)
    <3>1. CASE open.start = 0
      BY <1>0, <2>2, <3>1 DEF bytes
    <3>2. CASE open.start # 0
      <4> DEFINE s == open.start
      <4>1. s \in Nat \ {0} /\ s <= last + 1 /\ last <= b /\ open.bytes = RangeBytes(lines, s, last)
        <5>1. s \in Nat /\ s # 0 /\ s <= last /\ open.bytes = RangeBytes(lines, s, last)
          BY <2>2, <2>3, <3>2
        <5> HIDE DEF s
        <5> QED BY <1>0, <1>4, <5>1
      <4> HIDE DEF s
      <4>2. RangeSums(lines, s, b)
        BY <1>0, <4>1, RangeAdds
      <4>3. RangeBytes(lines, s, b) = RangeBytes(lines, s, last) + RangeBytes(lines, last + 1, b)
        BY <4>1, <4>2 DEF RangeSums
      <4>4. bytes = RangeBytes(lines, last + 1, b)
        BY <1>4 DEF bytes
      <4>5. start = s
        BY <3>2 DEF s
      <4> QED BY <4>1, <4>3, <4>4, <4>5
    <3> QED BY <3>1, <3>2
  <2> HIDE DEF start, sum
  <2>8. /\ next \in PackType /\ next.start = start /\ next.end = b /\ next.bytes = sum
        /\ next.chunks = open.chunks
    BY <1>0, <2>1, <2>2, <2>5 DEF PackType
  <2>9. PackHolds(next, lines, b)
    BY <2>5, <2>6, <2>7, <2>8 DEF PackHolds
  <2>10. InPack(next, lines, u)
    <3>1. next.start # 0 /\ next.start <= u.from /\ u.to <= next.end
      BY <1>0, <2>5, <2>8 DEF a, b
    <3> QED BY <3>1 DEF InPack
  <2>11. ASSUME NEW w \in UnitType, w.from <= w.to, w.to <= last, InPack(pack, lines, w)
         PROVE  InPack(next, lines, w)
    <3>1. InPack(open, lines, w)
      BY <2>2, <2>11
    <3>2. CASE Together(open.chunks, lines, w.from, w.to)
      BY <2>8, <3>2 DEF InPack
    <3>3. CASE open.start # 0 /\ open.start <= w.from /\ w.to <= open.end
      <4>1. start = open.start /\ w.to <= b
        <5>1. w.to \in Nat
          BY <1>6
        <5> QED BY <1>0, <1>4, <2>11, <3>3, <5>1 DEF start
      <4> QED BY <2>5, <2>8, <3>3, <4>1 DEF InPack
    <3> QED BY <3>1, <3>2, <3>3 DEF InPack
  <2> QED BY <2>8, <2>9, <2>10, <2>11 DEF next, b
<1> QED BY <1>7, <1>8

LastLine(units, i) == IF i = 0 THEN 0 ELSE units[i].to
LEMMA UnitNext ==
    ASSUME NEW lines \in Seq(ChunkLine), NEW units, UnitsHold(units, Len(lines)),
           NEW j \in Nat, j + 1 <= Len(units)
    PROVE  /\ units[j + 1] \in UnitsOf(lines) /\ units[j + 1].from = LastLine(units, j) + 1
           /\ LastLine(units, j) \in Nat /\ LastLine(units, j + 1) = units[j + 1].to
           /\ LastLine(units, j) <= LastLine(units, j + 1)
<1> DEFINE K == Len(units)
           i == j + 1
           u == units[i]
<1>0. K \in Nat /\ i \in 1..K /\ i # 0 /\ (\A k \in 1..K : units[k] \in UnitType)
  <2>1. K \in Nat /\ units \in Seq(UnitType)
    BY LenProperties DEF UnitsHold
  <2>2. \A k \in 1..K : units[k] \in UnitType
    BY <2>1, LenProperties
  <2>3. i \in 1..K /\ i # 0
    <3> HIDE DEF K
    <3> QED BY <2>1 DEF K
  <2> QED BY <2>1, <2>2, <2>3
<1>1. /\ u \in UnitType /\ 1 <= u.from /\ u.from <= u.to /\ u.to <= Len(lines)
  BY <1>0 DEF UnitsHold
<1>2. u \in UnitsOf(lines)
  BY <1>1 DEF UnitsOf
<1>3. LastLine(units, i) = u.to
  BY <1>0 DEF LastLine
<1>4. u.from = LastLine(units, j) + 1 /\ LastLine(units, j) \in Nat
  <2>1. CASE j = 0
    BY <2>1 DEF LastLine, UnitsHold
  <2>2. CASE j # 0
    <3>1. j \in 1..K /\ j + 1 <= K
      BY <1>0, <2>2
    <3>2. units[j + 1].from = units[j].to + 1
      BY <3>1 DEF UnitsHold
    <3>3. units[j].to \in Nat
      BY <1>0, <3>1 DEF UnitType
    <3> QED BY <2>2, <3>2, <3>3 DEF LastLine
  <2> QED BY <2>1, <2>2
<1>5. u.from \in Nat /\ u.to \in Nat
  BY <1>1 DEF UnitType
<1> HIDE DEF u
<1>6. LastLine(units, j) <= u.to
  BY <1>1, <1>4, <1>5
<1> QED BY <1>2, <1>3, <1>4, <1>6 DEF u

LEMMA UnitsAreIn ==
    ASSUME NEW lines \in Seq(ChunkLine), NEW units, UnitsHold(units, Len(lines))
    PROVE  units \in Seq(UnitsOf(lines)) /\ Len(units) \in Nat /\ DOMAIN units = 1..Len(units)
<1> DEFINE K == Len(units)
           U == UnitsOf(lines)
<1>1. units \in Seq(UnitType) /\ K \in Nat
  BY DEF UnitsHold
<1>2. DOMAIN units = 1..K
  BY <1>1, LenProperties
<1>3. units = [i \in 1..K |-> units[i]]
  BY <1>1, <1>2, SeqDef
<1>4. ASSUME NEW i \in 1..K PROVE units[i] \in U
  <2> DEFINE j == i - 1
  <2>1. j \in Nat /\ j + 1 = i /\ j + 1 <= Len(units)
    BY <1>1
  <2> HIDE DEF j
  <2>2. units[j + 1] \in U
    BY <2>1, UnitNext
  <2> QED BY <2>1, <2>2
<1> HIDE DEF K, U
<1>5. units \in [1..K -> U]
  BY <1>3, <1>4
<1> QED BY <1>1, <1>2, <1>5, SeqDef DEF K, U

LEMMA RangeBytesOfUnit ==
    ASSUME NEW lines \in Seq(ChunkLine)
    PROVE  UnitsArePackedKeep(lines, PackType, UnitsOf(lines))
<1> SUFFICES ASSUME NEW pack \in PackType, NEW u \in UnitsOf(lines)
             PROVE  Pack(lines, pack, u) \in PackType
  BY DEF UnitsArePackedKeep
<1> DEFINE bytes == RangeBytes(lines, u.from, u.to)
           flushed == Flushed(lines, pack)
           range == LineRange(lines, u.from, u.to)
           new == flushed.chunks \o range
           next == Pack(lines, pack, u)
<1>1. /\ u.from \in Nat /\ u.to \in Nat /\ bytes \in Nat /\ range \in Seq(Span)
  BY UnitTyped DEF Tiles
<1>2. flushed \in PackType
  <2> DEFINE chunk == MakeChunk(lines, pack.start, pack.end)
             all == pack.chunks \o chunk
  <2>1. pack.start \in Nat /\ pack.end \in Nat /\ pack.chunks \in Seq(Span)
    BY PackTyped
  <2>2. chunk \in Seq(Span)
    BY <2>1, ChunkIsSpans
  <2>3. all \in Seq(Span)
    BY <2>1, <2>2, ConcatProperties
  <2>4. flushed = pack \/ flushed = [EmptyPack EXCEPT !.chunks = all]
    BY DEF Flushed
  <2> HIDE DEF all, flushed
  <2>5. [EmptyPack EXCEPT !.chunks = all] \in PackType
    BY <2>3 DEF EmptyPack, PackType
  <2> QED BY <2>4, <2>5
<1>3. new \in Seq(Span)
  <2>1. flushed.chunks \in Seq(Span)
    BY <1>2 DEF PackType
  <2> QED BY <1>1, <2>1, ConcatProperties
<1>4. \/ next = [flushed EXCEPT !.chunks = new]
      \/ \E open \in {flushed, pack} :
            next = [open EXCEPT !.start = IF open.start = 0 THEN u.from ELSE open.start,
                                !.end = u.to, !.bytes = open.bytes + bytes]
  BY DEF Pack
<1> HIDE DEF bytes, flushed, new, next
<1>5. [flushed EXCEPT !.chunks = new] \in PackType
  BY <1>2, <1>3 DEF PackType
<1>6. ASSUME NEW open \in PackType
      PROVE  [open EXCEPT !.start = IF open.start = 0 THEN u.from ELSE open.start,
                          !.end = u.to, !.bytes = open.bytes + bytes] \in PackType
  <2> DEFINE start == IF open.start = 0 THEN u.from ELSE open.start
             sum == open.bytes + bytes
  <2>1. start \in Nat /\ sum \in Nat
    BY <1>1, PackTyped
  <2> HIDE DEF start, sum
  <2>2. [open EXCEPT !.start = start, !.end = u.to, !.bytes = sum] \in PackType
    BY <1>1, <2>1 DEF PackType
  <2> QED BY <2>2 DEF start, sum
<1> QED BY <1>2, <1>4, <1>5, <1>6 DEF next

\* chunkStructuralRanges.
LEMMA StructureTiles ==
    ASSUME NEW lines \in Seq(ChunkLine), NEW units, UnitsHold(units, Len(lines))
    PROVE  LET cs == Flushed(lines, UnitsPacked(lines, units)).chunks IN
           /\ Tiles(cs, lines, 1, Len(lines))
           /\ \A i \in 1..Len(units) : Small(lines, units[i])
                => Together(cs, lines, units[i].from, units[i].to)
<1> DEFINE K == Len(units)
           N == Len(lines)
           end == UnitsPacked(lines, units)
           U == UnitsOf(lines)
           L(i) == LastLine(units, i)
<1>0. units \in Seq(U) /\ K \in Nat /\ K # 0 /\ N \in Nat /\ L(K) = N
  <2>1. K # 0 /\ units[K].to = N
    BY DEF UnitsHold
  <2> QED BY <2>1, UnitsAreIn, ChunkLinesTyped DEF LastLine
<1>1. EmptyPack \in PackType
  BY DEF EmptyPack, PackType
<1>2. PICK g \in [0..K -> PackType] :
         /\ g[0] = EmptyPack /\ g[K] = end
         /\ \A i \in 1..K : g[i] = Pack(lines, g[i - 1], units[i])
  <2> DEFINE S == PackType
  <2>1. EmptyPack \in S /\ UnitsArePackedKeep(lines, S, U)
    BY <1>1, RangeBytesOfUnit
  <2> HIDE DEF S, U
  <2>2. UnitsArePackedInTurn(lines, S, units)
    BY <1>0, <2>1, UnitsArePacked
  <2> QED BY <2>2 DEF S, UnitsArePackedInTurn
<1> HIDE DEF end
<1> DEFINE R(i) == /\ PackHolds(g[i], lines, L(i))
                   /\ \A j \in 1..i : units[j].to <= L(i)
                   /\ \A j \in 1..i : Small(lines, units[j]) => InPack(g[i], lines, units[j])
           Good == {i \in Nat : i <= K => R(i)}
<1>00. \A j \in 1..K : units[j] \in UnitType /\ units[j].to \in Nat /\ units[j].from <= units[j].to
  <2>1. \A j \in 1..K : units[j] \in U
    BY <1>0, LenProperties
  <2> QED BY <2>1 DEF UnitsOf, UnitType
<1>3. R(0)
  <2>1. L(0) = 0
    BY DEF LastLine
  <2>2. g[0].start = 0 /\ g[0].bytes = 0 /\ g[0].chunks = <<>>
    BY <1>2 DEF EmptyPack
  <2>3. Tiles(<<>>, lines, 1, 0)
    BY NothingTiles
  <2>4. PackHolds(g[0], lines, 0)
    BY <2>2, <2>3 DEF PackHolds
  <2>5. \A j \in 1..0 : FALSE
    OBVIOUS
  <2> QED BY <2>1, <2>4, <2>5
<1>4. ASSUME NEW m \in Nat, R(m), m + 1 <= K PROVE R(m + 1)
  <2> DEFINE i == m + 1
             u == units[i]
  <2>1. /\ u \in U /\ u.from = L(m) + 1 /\ L(m) \in Nat /\ L(i) = u.to /\ L(m) <= L(i)
    BY <1>4, UnitNext
  <2>2. i \in 1..K /\ i - 1 = m /\ m \in 0..K /\ (\A j \in 1..i : j \in 1..m \/ j = i)
        /\ (\A j \in 1..m : j \in 1..K)
    <3>1. i \in 1..K /\ i - 1 = m /\ m \in 0..K
      BY <1>0, <1>4
    <3>2. \A j \in 1..i : j \in 1..m \/ j = i
      OBVIOUS
    <3>3. \A j \in 1..m : j \in 1..K
      BY <1>0, <1>4
    <3> QED BY <3>1, <3>2, <3>3
  <2> HIDE DEF i, U
  <2>3. g[m] \in PackType /\ g[i] = Pack(lines, g[m], u)
    BY <1>2, <2>2
  <2>4. PackHolds(g[m], lines, L(m))
    BY <1>4
  <2> HIDE DEF u, L
  <2>5. /\ PackHolds(g[i], lines, u.to)
        /\ Small(lines, u) => InPack(g[i], lines, u)
        /\ \A w \in UnitType : w.from <= w.to /\ w.to <= L(m) /\ InPack(g[m], lines, w) => InPack(g[i], lines, w)
    BY <2>1, <2>3, <2>4, PackKeeps DEF U
  <2>6. ASSUME NEW j \in 1..m
        PROVE  units[j].to <= L(i) /\ (Small(lines, units[j]) => InPack(g[i], lines, units[j]))
    <3>1. units[j].to <= L(m) /\ (Small(lines, units[j]) => InPack(g[m], lines, units[j]))
      BY <1>4
    <3>2. units[j] \in UnitType /\ units[j].to \in Nat /\ units[j].from <= units[j].to
      BY <1>00, <2>2
    <3>3. L(i) \in Nat
      BY <1>00, <2>1, <2>2 DEF u
    <3>4. units[j].to <= L(i)
      BY <2>1, <3>1, <3>2, <3>3
    <3> QED BY <2>5, <3>1, <3>2, <3>4
  <2>7. u.to <= L(i)
    <3>1. u.to \in Nat
      BY <1>00, <2>2 DEF u
    <3> QED BY <2>1, <3>1
  <2>8. PackHolds(g[i], lines, L(i))
    BY <2>1, <2>5
  <2>9. \A j \in 1..i : units[j].to <= L(i)
    BY <2>2, <2>6, <2>7 DEF u
  <2>10. \A j \in 1..i : Small(lines, units[j]) => InPack(g[i], lines, units[j])
    BY <2>2, <2>5, <2>6 DEF u
  <2> QED BY <2>8, <2>9, <2>10 DEF i
<1>5. R(K)
  <2> HIDE DEF R
  <2>1. 0 \in Good
    BY <1>3
  <2>2. ASSUME NEW m \in Nat, m \in Good PROVE m + 1 \in Good
    <3>1. m + 1 <= K => m <= K
      BY <1>0
    <3> QED BY <1>4, <2>2, <3>1
  <2>3. Nat \subseteq Good
    <3> HIDE DEF Good
    <3> QED BY <2>1, <2>2, Induction
  <2>4. K \in Good /\ K <= K
    BY <1>0, <2>3
  <2> QED BY <2>4
<1>6. end \in PackType /\ PackHolds(end, lines, N)
  <2>1. K \in 0..K
    BY <1>0
  <2> QED BY <1>0, <1>2, <1>5, <2>1
<1>7. /\ Tiles(Flushed(lines, end).chunks, lines, 1, N)
      /\ \A u \in UnitType : u.from <= u.to /\ InPack(end, lines, u)
            => Together(Flushed(lines, end).chunks, lines, u.from, u.to)
  BY <1>0, <1>6, PackFlushed
<1>8. \A i \in 1..K : Small(lines, units[i]) => Together(Flushed(lines, end).chunks, lines, units[i].from, units[i].to)
  BY <1>00, <1>2, <1>5, <1>7
<1> QED BY <1>7, <1>8 DEF end

\* chunkDeclarationRanges.
LEMMA DeclarationsTile ==
    ASSUME NEW lines \in Seq(ChunkLine), NEW units, UnitsHold(units, Len(lines))
    PROVE  Tiles(DeclarationsAdded(lines, units), lines, 1, Len(lines))
<1> DEFINE K == Len(units)
           N == Len(lines)
           end == DeclarationsAdded(lines, units)
           U == UnitsOf(lines)
           L(i) == LastLine(units, i)
<1>0. units \in Seq(U) /\ K \in Nat /\ K # 0 /\ N \in Nat /\ L(K) = N
  <2>1. K # 0 /\ units[K].to = N
    BY DEF UnitsHold
  <2> QED BY <2>1, UnitsAreIn, ChunkLinesTyped DEF LastLine
<1>1. DeclarationsAreAddedKeep(lines, Seq(Span), U)
  <2> SUFFICES ASSUME NEW c \in Seq(Span), NEW u \in U PROVE DeclarationAdded(lines, c, u) \in Seq(Span)
    BY DEF DeclarationsAreAddedKeep
  <2>1. LineRange(lines, u.from, u.to) \in Seq(Span)
    BY UnitTyped DEF Tiles
  <2> QED BY <2>1, ConcatProperties DEF DeclarationAdded
<1>2. PICK g \in [0..K -> Seq(Span)] :
         /\ g[0] = <<>> /\ g[K] = end
         /\ \A i \in 1..K : g[i] = DeclarationAdded(lines, g[i - 1], units[i])
  <2> DEFINE S == Seq(Span)
  <2>1. <<>> \in S
    OBVIOUS
  <2> HIDE DEF S, U
  <2>2. DeclarationsAreAddedInTurn(lines, S, units)
    BY <1>0, <1>1, <2>1, DeclarationsAreAdded DEF S
  <2> QED BY <2>2 DEF S, DeclarationsAreAddedInTurn
<1> HIDE DEF end
<1> DEFINE R(i) == Tiles(g[i], lines, 1, L(i))
           Good == {i \in Nat : i <= K => R(i)}
<1>3. R(0)
  <2>1. L(0) = 0
    BY DEF LastLine
  <2> QED BY <1>2, <2>1, NothingTiles
<1>4. ASSUME NEW m \in Nat, R(m), m + 1 <= K PROVE R(m + 1)
  <2> DEFINE i == m + 1
             u == units[i]
             range == LineRange(lines, u.from, u.to)
  <2>1. /\ u \in U /\ u.from = L(m) + 1 /\ L(m) \in Nat /\ L(i) = u.to /\ L(m) <= L(i)
    BY <1>4, UnitNext
  <2>2. i \in 1..K /\ i - 1 = m
    BY <1>0, <1>4
  <2> HIDE DEF i
  <2>3. g[i] = g[m] \o range
    BY <1>2, <2>2 DEF DeclarationAdded
  <2>4. u.to \in Nat /\ Tiles(range, lines, u.from, u.to)
    BY <2>1, UnitTyped
  <2>5. Tiles(range, lines, L(m) + 1, L(i)) /\ L(i) \in Nat
    BY <2>1, <2>4
  <2> HIDE DEF range, L
  <2>6. 1 <= L(m) + 1
    BY <2>1
  <2>7. Tiles(g[m], lines, 1, L(m))
    BY <1>4
  <2>8. Tiles(g[m] \o range, lines, 1, L(i))
    BY <2>1, <2>5, <2>6, <2>7, TilesJoin
  <2> QED BY <2>3, <2>8 DEF i
<1>5. R(K)
  <2> HIDE DEF R
  <2>1. 0 \in Good
    BY <1>3
  <2>2. ASSUME NEW m \in Nat, m \in Good PROVE m + 1 \in Good
    <3>1. m + 1 <= K => m <= K
      BY <1>0
    <3> QED BY <1>4, <2>2, <3>1
  <2>3. Nat \subseteq Good
    <3> HIDE DEF Good
    <3> QED BY <2>1, <2>2, Induction
  <2>4. K \in Good /\ K <= K
    BY <1>0, <2>3
  <2> QED BY <2>4
<1> QED BY <1>0, <1>2, <1>5 DEF end

\* The steps up of leadingJSChunkBoundary never go down.
LEMMA ModifiersLead ==
    ASSUME NEW lines, NEW b \in Nat PROVE LeadingModifiers(lines, b) \in 0..b
<1> DEFINE T == {i \in 0..b : \A j \in (i + 1)..b : lines[j].kind = "modifier"}
<1>1. b \in T /\ T \subseteq Nat /\ T \subseteq 0..b
  <2>1. \A j \in (b + 1)..b : FALSE
    OBVIOUS
  <2> QED BY <2>1
<1>2. LeadingModifiers(lines, b) = Min(T)
  BY DEF LeadingModifiers
<1> HIDE DEF T
<1>3. Min(T) \in T
  BY <1>1, MinOfNumbers
<1> QED BY <1>1, <1>2, <1>3

LEMMA DecoratorsAbove ==
    ASSUME NEW lines, NEW b \in Nat PROVE DecoratorAbove(lines, b) \in 0..b
<1> DEFINE top == {i \in 1..b : JsTopLevel(lines[i])}
           x == Max(top)
<1>1. top \subseteq 1..b
  OBVIOUS
<1>2. DecoratorAbove(lines, b) = IF top # {} /\ lines[x].kind = "decorator" THEN x - 1 ELSE b
  BY DEF DecoratorAbove
<1> HIDE DEF top
<1>3. top # {} => x \in 1..b
  BY <1>1, MaxOfNumbers
<1> HIDE DEF x
<1>4. \A y \in 1..b : y - 1 \in 0..b
  OBVIOUS
<1> QED BY <1>2, <1>3, <1>4

LEMMA DecoratorsLead ==
    ASSUME NEW lines, NEW b \in Nat PROVE LeadingDecorators(lines, b) \in 0..b
<1> DEFINE up == [n \in 0..b |-> DecoratorAbove(lines, n)]
<1>1. ASSUME NEW n \in 0..b PROVE DecoratorAbove(lines, n) \in 0..b /\ DecoratorAbove(lines, n) <= n
  <2>1. DecoratorAbove(lines, n) \in 0..n
    BY DecoratorsAbove
  <2> QED BY <2>1
<1>2. up \in [0..b -> 0..b] /\ (\A n \in 0..b : up[n] <= n) /\ b \in 0..b
  BY <1>1
<1>3. LeadingDecorators(lines, b) = Settled(up, b)
  BY DEF LeadingDecorators
<1> HIDE DEF up
<1> QED BY <1>2, <1>3, SettlesSomewhere

LEMMA CommentLeads ==
    ASSUME NEW lines, NEW b \in Nat
    PROVE  /\ LeadingComment(lines, b) \in 0..b
           /\ b # 0 /\ lines[b].kind \in {"slashes", "whole"} => LeadingComment(lines, b) # b
<1> DEFINE slashes == {i \in 1..b : \A j \in i..b : lines[j].kind = "slashes"}
           opener == {i \in 1..b : /\ lines[i].kind \in {"opens", "whole"}
                                   /\ \A j \in (i + 1)..b : lines[j].kind \notin {"opens", "whole", "blank"}}
           x == Min(slashes)
           y == Max(opener)
           to == LeadingComment(lines, b)
<1>1. to = IF b = 0 THEN b
           ELSE IF lines[b].kind = "slashes" THEN x - 1
           ELSE IF lines[b].kind \in {"closes", "whole"} /\ opener # {} THEN y - 1
           ELSE b
  BY DEF LeadingComment
<1>2. b # 0 /\ lines[b].kind = "slashes" => slashes # {}
  <2>1. b # 0 => b \in 1..b /\ \A j \in b..b : j = b
    OBVIOUS
  <2> QED BY <2>1
<1>3. b # 0 /\ lines[b].kind = "whole" => opener # {}
  <2>1. b # 0 => b \in 1..b /\ \A j \in (b + 1)..b : FALSE
    OBVIOUS
  <2>2. b # 0 /\ lines[b].kind = "whole" => b \in opener
    BY <2>1
  <2> QED BY <2>2
<1>4. slashes \subseteq 1..b /\ opener \subseteq 1..b /\ slashes \subseteq Nat
  OBVIOUS
<1> HIDE DEF slashes, opener, to
<1>5. (slashes # {} => x \in 1..b) /\ (opener # {} => y \in 1..b)
  <2>1. slashes # {} => x \in slashes
    BY <1>4, MinOfNumbers
  <2>2. opener # {} => y \in opener
    BY <1>4, MaxOfNumbers
  <2> QED BY <1>4, <2>1, <2>2
<1>6. \A z \in 1..b : z - 1 \in 0..b /\ z - 1 # b
  OBVIOUS
<1> HIDE DEF x, y
<1>7. b \in 0..b
  OBVIOUS
<1>8. to \in 0..b
  BY <1>1, <1>2, <1>5, <1>6, <1>7
<1>9. b # 0 /\ lines[b].kind \in {"slashes", "whole"} => to # b
  <2>1. CASE b # 0 /\ lines[b].kind = "slashes"
    <3>1. to = x - 1 /\ x \in 1..b
      BY <1>1, <1>2, <1>5, <2>1
    <3> QED BY <1>6, <3>1
  <2>2. CASE b # 0 /\ lines[b].kind = "whole"
    <3>1. to = y - 1 /\ y \in 1..b
      BY <1>1, <1>3, <1>5, <2>2
    <3> QED BY <1>6, <3>1
  <2> QED BY <2>1, <2>2
<1> QED BY <1>8, <1>9 DEF to

\* No chunk starts under a comment.
LEMMA CommentsStay ==
    ASSUME NEW lines \in Seq(ChunkLine), NEW n \in 2..Len(lines),
           lines[n - 1].kind \in {"slashes", "whole"}
    PROVE  n \notin JsStarts(lines)
<1> DEFINE N == Len(lines)
           up == [b \in 0..N |-> LeadingLines(lines, b)]
<1>0. N \in Nat /\ DOMAIN lines = 1..N
  BY ChunkLinesTyped
<1> HIDE DEF N
<1>1. ASSUME NEW b \in 0..N
      PROVE  /\ LeadingLines(lines, b) \in 0..b
             /\ b # 0 /\ lines[b].kind \in {"slashes", "whole"} => LeadingLines(lines, b) # b
  <2> DEFINE x == LeadingModifiers(lines, b)
             y == LeadingDecorators(lines, x)
             z == LeadingComment(lines, y)
  <2>1. x \in 0..b
    BY ModifiersLead
  <2> HIDE DEF x
  <2>2. y \in 0..x
    BY <2>1, DecoratorsLead
  <2> HIDE DEF y
  <2>3. z \in 0..y /\ (y # 0 /\ lines[y].kind \in {"slashes", "whole"} => z # y)
    <3>1. y \in Nat
      BY <2>1, <2>2
    <3> QED BY <3>1, CommentLeads
  <2>4. LeadingLines(lines, b) = z
    BY DEF LeadingLines, x, y
  <2> HIDE DEF z
  <2>5. z \in 0..b /\ (z = b => y = b)
    BY <2>1, <2>2, <2>3
  <2> QED BY <2>3, <2>4, <2>5
<1>2. up \in [0..N -> 0..N] /\ \A b \in 0..N : up[b] <= b /\ up[b] = LeadingLines(lines, b)
  <2>1. \A b \in 0..N : LeadingLines(lines, b) \in 0..N /\ LeadingLines(lines, b) <= b
    <3> TAKE b \in 0..N
    <3>1. LeadingLines(lines, b) \in 0..b
      BY <1>1
    <3> QED BY <1>0, <3>1
  <2> QED BY <2>1
<1> HIDE DEF up
<1> SUFFICES ASSUME NEW d \in DOMAIN lines, n = JsBoundary(lines, d) PROVE FALSE
  BY DEF JsStarts
<1> DEFINE s == Settled(up, d - 1)
<1>3. n = s + 1
  BY DEF JsBoundary, up, N
<1>4. s \in 0..(d - 1) /\ up[s] = s
  <2>1. d - 1 \in 0..N
    BY <1>0
  <2> QED BY <1>0, <1>2, <2>1, SettlesSomewhere
<1> HIDE DEF s
<1>5. s \in 0..N /\ s # 0 /\ n - 1 = s
  <2>1. n \in 2..N
    BY DEF N
  <2>2. d \in 1..N /\ s \in Nat
    BY <1>0, <1>4
  <2> QED BY <1>0, <1>3, <1>4, <2>1, <2>2
<1>6. LeadingLines(lines, s) = s
  BY <1>2, <1>4, <1>5
<1> QED BY <1>1, <1>5, <1>6

\* A file has its chunks.
LEMMA FileTiles ==
    ASSUME NEW file, file.lines \in Seq(ChunkLine)
    PROVE  LET lines == file.lines
               cs == ChunkFile(file)
               units == Units(lines, JsStarts(lines)) IN
           /\ Tiles(cs, lines, 1, Len(lines))
           /\ file.language = "js" /\ file.sameLines /\ JsStarts(lines) # {} /\ lines # <<>> =>
                 \A i \in 1..Len(units) : Small(lines, units[i])
                    => Together(cs, lines, units[i].from, units[i].to)
<1> DEFINE lines == file.lines
           N == Len(lines)
           cs == ChunkFile(file)
           js == JsStarts(lines)
           starts == CASE file.language = "js" -> js
                       [] file.language \in {"go", "php"} -> file.starts
                       [] OTHER -> {}
<1>0. lines \in Seq(ChunkLine) /\ N \in Nat
  BY ChunkLinesTyped
<1>1. cs = IF lines = <<>> THEN <<>>
           ELSE IF ~file.sameLines \/ starts = {} THEN LineRange(lines, 1, N)
           ELSE IF file.language = "php" THEN DeclarationRanges(lines, starts)
           ELSE StructuralRanges(lines, starts)
  BY DEF ChunkFile
<1>2. file.language = "js" => starts = js /\ file.language # "php"
  OBVIOUS
<1> HIDE DEF lines, cs, js, starts, N
<1>3. CASE lines = <<>>
  <2>1. N = 0 /\ cs = <<>>
    BY <1>1, <1>3 DEF N
  <2>2. Tiles(<<>>, lines, 1, 0)
    BY NothingTiles
  <2> QED BY <1>3, <2>1, <2>2 DEF lines, cs, js, N
<1>4. CASE lines # <<>> /\ (~file.sameLines \/ starts = {})
  <2>1. cs = LineRange(lines, 1, N)
    BY <1>1, <1>4
  <2>2. N # 0
    BY <1>0, <1>4, EmptySeq DEF N
  <2>3. Tiles(cs, lines, 1, N)
    <3>1. 1 \in Nat \ {0} /\ N \in Nat /\ 1 <= N /\ N <= N
      BY <1>0, <2>2
    <3> QED BY <1>0, <2>1, <3>1, RangeTiles DEF N
  <2> QED BY <1>2, <1>4, <2>3 DEF lines, cs, js, N
<1>5. CASE lines # <<>> /\ ~(~file.sameLines \/ starts = {})
  <2> DEFINE units == Units(lines, starts)
  <2>1. UnitsHold(units, N)
    BY <1>0, <1>5, UnitsFollow DEF N
  <2> HIDE DEF units
  <2>2. CASE file.language = "php"
    <3>1. cs = DeclarationsAdded(lines, units)
      BY <1>1, <1>5, <2>2 DEF DeclarationRanges, units
    <3>2. Tiles(cs, lines, 1, N)
      BY <1>0, <2>1, <3>1, DeclarationsTile DEF N
    <3> QED BY <1>2, <2>2, <3>2 DEF lines, cs, js, N
  <2>3. CASE file.language # "php"
    <3>1. cs = Flushed(lines, UnitsPacked(lines, units)).chunks
      BY <1>1, <1>5, <2>3 DEF StructuralRanges, units
    <3>2. /\ Tiles(cs, lines, 1, N)
          /\ \A i \in 1..Len(units) : Small(lines, units[i]) => Together(cs, lines, units[i].from, units[i].to)
      BY <1>0, <2>1, <3>1, StructureTiles DEF N
    <3>3. file.language = "js" => units = Units(lines, js)
      BY <1>2 DEF units
    <3> QED BY <3>2, <3>3 DEF lines, cs, js, N
  <2> QED BY <2>2, <2>3
<1> QED BY <1>3, <1>4, <1>5

\* A line is in one chunk at most.
LEMMA InOneChunk ==
    ASSUME NEW cs, NEW lines, NEW a, NEW b, Tiles(cs, lines, a, b), NEW n \in Nat,
           NEW i \in 1..Len(cs), Held(cs[i], n)
    PROVE  {j \in DOMAIN cs : n \in cs[j].startLine..cs[j].endLine} = {i}
<1> DEFINE K == Len(cs)
<1>1. K \in Nat /\ DOMAIN cs = 1..K /\ \A j \in 1..K : cs[j].startLine \in Nat /\ cs[j].endLine \in Nat
  <2>1. cs \in Seq(Span)
    BY DEF Tiles
  <2>2. K \in Nat /\ DOMAIN cs = 1..K /\ \A j \in 1..K : cs[j] \in Span
    BY <2>1, LenProperties
  <2> QED BY <2>2, SpansTyped
<1>2. \A j, k \in 1..K : j < k => cs[j].endLine < cs[k].startLine
  BY DEF Tiles
<1> HIDE DEF K
<1>3. ASSUME NEW j \in 1..K PROVE n \in cs[j].startLine..cs[j].endLine <=> Held(cs[j], n)
  <2> DEFINE x == cs[j].startLine
             y == cs[j].endLine
  <2>1. x \in Nat /\ y \in Nat
    BY <1>1
  <2>2. Held(cs[j], n) <=> x <= n /\ n <= y
    BY DEF Held
  <2> HIDE DEF x, y
  <2>3. n \in x..y <=> x <= n /\ n <= y
    BY <2>1
  <2> QED BY <2>2, <2>3 DEF x, y
<1>4. i \in 1..K
  BY DEF K
<1>5. ASSUME NEW j \in 1..K, Held(cs[j], n), NEW k \in 1..K, Held(cs[k], n) PROVE ~(j < k)
  <2> SUFFICES ASSUME j < k PROVE FALSE
    OBVIOUS
  <2>1. cs[j].endLine < cs[k].startLine
    BY <1>2
  <2>2. n <= cs[j].endLine /\ cs[k].startLine <= n
    BY <1>5 DEF Held
  <2>3. cs[j].endLine \in Nat /\ cs[k].startLine \in Nat
    BY <1>1
  <2> QED BY <2>1, <2>2, <2>3
<1>6. ASSUME NEW j \in 1..K, Held(cs[j], n) PROVE j = i
  <2>1. ~(j < i) /\ ~(i < j)
    BY <1>4, <1>5, <1>6
  <2> QED BY <1>1, <1>4, <2>1
<1> QED BY <1>1, <1>3, <1>4, <1>6

ChunkInv == ckFile \in ChunkInputs /\ (ckChunks = NotChunked \/ ckChunks = ChunkFile(ckFile))

LEMMA ChunkInvSays == ChunkInv => ChunksCoverFile
<1> SUFFICES ASSUME ChunkInv, ckChunks # NotChunked PROVE ChunksCoverFile
  BY DEF ChunksCoverFile
<1> DEFINE lines == ckFile.lines
           cs == ckChunks
           N == Len(lines)
           js == JsStarts(lines)
           units == Units(lines, js)
           In(n) == {i \in DOMAIN cs : n \in cs[i].startLine..cs[i].endLine}
           Js == ckFile.language = "js" /\ ckFile.sameLines
<1>0. lines \in Seq(ChunkLine) /\ N \in Nat /\ DOMAIN lines = 1..N
  <2>1. lines \in Seq(ChunkLine)
    BY ChunkAssumption DEF ChunkInv, ChunkLine
  <2> QED BY <2>1, ChunkLinesTyped
<1>1. /\ Tiles(cs, lines, 1, N)
      /\ Js /\ js # {} /\ lines # <<>> =>
            \A i \in 1..Len(units) : Small(lines, units[i]) => Together(cs, lines, units[i].from, units[i].to)
  BY <1>0, FileTiles DEF ChunkInv
<1>2. cs \in Seq(Span) /\ Len(cs) \in Nat /\ DOMAIN cs = 1..Len(cs)
  <2>1. cs \in Seq(Span)
    BY <1>1 DEF Tiles
  <2> QED BY <2>1, LenProperties
<1>3. \A i \in 1..Len(cs) : cs[i].startLine \in Nat /\ cs[i].endLine \in Nat
  <2>1. \A i \in 1..Len(cs) : cs[i] \in Span
    BY <1>2, LenProperties
  <2> QED BY <2>1, SpansTyped
<1> HIDE DEF lines, cs, js, units, N
<1>4. ASSUME NEW n \in Nat, NEW i \in 1..Len(cs), Held(cs[i], n) PROVE In(n) = {i}
  BY <1>1, <1>4, InOneChunk
<1>5. ASSUME NEW n \in DOMAIN lines, lines[n].kind # "blank" PROVE \E i \in DOMAIN cs : In(n) = {i}
  <2>1. n \in 1..N /\ n \in Nat
    BY <1>0
  <2>2. PICK i \in 1..Len(cs) : Held(cs[i], n)
    BY <1>1, <1>5, <2>1 DEF Tiles
  <2>3. In(n) = {i}
    BY <1>4, <2>1, <2>2
  <2> HIDE DEF In
  <2> QED BY <1>2, <2>3
<1> HIDE DEF In
<1>6. ASSUME NEW i \in DOMAIN cs
      PROVE  /\ cs[i].startLine \in DOMAIN lines /\ cs[i].endLine \in cs[i].startLine..N
             /\ i > 1 => cs[i - 1].endLine < cs[i].startLine
             /\ cs[i].startLine < cs[i].endLine =>
                   /\ cs[i].endLine - cs[i].startLine < MaxChunkLines
                   /\ RangeBytes(lines, cs[i].startLine, cs[i].endLine) <= MaxChunkBytes
  <2> DEFINE x == cs[i].startLine
             y == cs[i].endLine
  <2>1. i \in 1..Len(cs)
    BY <1>2
  <2>2. ChunkOk(lines, 1, N, cs[i])
    BY <1>1, <2>1 DEF Tiles
  <2>3. 1 <= x /\ x <= y /\ y <= N /\ Fits(lines, x, y) /\ x \in Nat /\ y \in Nat
    BY <1>3, <2>1, <2>2 DEF ChunkOk
  <2>4. i > 1 => cs[i - 1].endLine < x
    <3>1. i > 1 => i - 1 \in 1..Len(cs) /\ i - 1 < i
      BY <1>2, <2>1
    <3> QED BY <1>1, <2>1, <3>1 DEF Tiles
  <2>5. x < y => y - x < MaxChunkLines /\ RangeBytes(lines, x, y) <= MaxChunkBytes
    BY <2>3 DEF Fits
  <2>6. x \in DOMAIN lines /\ y \in x..N
    <3> HIDE DEF x, y
    <3> QED BY <1>0, <2>3
  <2> QED BY <2>4, <2>5, <2>6
<1>7. ASSUME Js, NEW n \in 2..N, lines[n].kind = "decl", lines[n - 1].kind \in {"slashes", "whole"},
             NEW u \in ToSet(units), n \in u.from..u.to, u.to - u.from < MaxChunkLines,
             RangeBytes(lines, u.from, u.to) <= MaxChunkBytes
      PROVE  In(n) = In(n - 1)
  <2>1. n \in DOMAIN lines /\ n \in Nat /\ n - 1 \in Nat
    BY <1>0
  <2>2. lines # <<>>
    BY <1>0, <2>1, EmptySeq DEF N
  <2>3. js # {}
    <3>1. JsBoundary(lines, n) \in js
      BY <1>7, <2>1 DEF js, JsStarts
    <3> QED BY <3>1
  <2>4. UnitsHold(units, N) /\ UnitsStart(units, js)
    BY <1>0, <2>2, UnitsFollow DEF N, units
  <2>5. PICK i \in 1..Len(units) : units[i] = u
    <3>1. DOMAIN units = 1..Len(units)
      BY <1>0, <2>4, UnitsAreIn DEF N
    <3> QED BY <3>1 DEF ToSet
  <2>6. Small(lines, u)
    BY <1>7 DEF Small
  <2>7. Together(cs, lines, u.from, u.to)
    BY <1>1, <1>7, <2>2, <2>3, <2>5, <2>6
  <2>8. u.from \in js \union {1} /\ u.from \in Nat /\ u.to \in Nat
    <3>1. units[i] \in UnitType /\ units[i].from \in js \union {1}
      BY <2>4, <2>5, LenProperties DEF UnitsHold, UnitsStart
    <3> QED BY <2>5, <3>1 DEF UnitType
  <2>9. u.from # n
    <3>1. n \notin js
      BY <1>0, <1>7, CommentsStay DEF js, N
    <3>2. n # 1
      BY <1>0
    <3> QED BY <2>8, <3>1, <3>2
  <2> DEFINE x == u.from
             y == u.to
  <2>10. x \in Nat /\ y \in Nat /\ x <= n - 1 /\ n <= y
    <3>1. x \in Nat /\ y \in Nat /\ n \in x..y /\ x # n
      BY <1>7, <2>8, <2>9
    <3> HIDE DEF x, y
    <3> QED BY <2>1, <3>1
  <2> HIDE DEF x, y
  <2>11. ~\A k \in x..y : lines[k].kind = "blank"
    <3>1. n \in x..y
      BY <2>1, <2>10
    <3> QED BY <1>7, <3>1
  <2>12. PICK k \in 1..Len(cs) : cs[k].startLine <= x /\ y <= cs[k].endLine
    BY <2>7, <2>11 DEF Together, x, y
  <2>13. Held(cs[k], n) /\ Held(cs[k], n - 1)
    <3> DEFINE p == cs[k].startLine
               q == cs[k].endLine
    <3>1. p \in Nat /\ q \in Nat /\ p <= x /\ y <= q
      BY <1>3, <2>12
    <3> HIDE DEF p, q
    <3>2. p <= n /\ n <= q /\ p <= n - 1 /\ n - 1 <= q
      BY <2>1, <2>10, <3>1
    <3> QED BY <3>2 DEF Held, p, q
  <2> QED BY <1>4, <2>1, <2>13
<1> QED BY <1>5, <1>6, <1>7 DEF ChunksCoverFile, lines, cs, js, units, N, In

\* The chunks of a file (chunk.go) are in order, hold every line that is not blank once
\* and keep both limits, and a JavaScript comment stays with the declaration under it
\* while the two fit: for every file, every pair of limits and all the boundaries the
\* parsers may find.
THEOREM ChunksCoverFileHolds == ChunkingSpec => []ChunksCoverFile
<1>1. ChunkingInit => ChunkInv
  BY DEF ChunkingInit, ChunkInv
<1>2. ChunkInv /\ [ChunkingNext]_ckVars => ChunkInv'
  BY DEF ChunkInv, ChunkingNext, FileChunked, ckVars
<1>3. ChunkInv => ChunksCoverFile
  BY ChunkInvSays
<1> QED BY <1>1, <1>2, <1>3, PTL DEF ChunkingSpec
=============================================================================
