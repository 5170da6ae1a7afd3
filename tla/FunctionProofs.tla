--------------------------- MODULE FunctionProofs ---------------------------
(* Proofs about the pure functions, for inputs of any length: the order of  *)
(* the fused list, what loading and cleaning keep of a page, which          *)
(* documents have a preview, how the figures of an evaluation agree.        *)
(*   Induction and recursion                                                *)
(*   Fractions, shares and scores                                           *)
(*   Sorting, the loop over the hits, the order of the fused list           *)
(*   Headers, headers that are in the majority                              *)
(*   The text of a page, loading                                            *)
(*   The numbers on a page                                                  *)
(*   Previews and the chunk that is previewed                               *)
(*   The figures of the evaluation, percentiles                             *)
(*   The theorems about the calls of PureFunctions                          *)
EXTENDS PureFunctions, WellFoundedInduction, FiniteSetTheorems,
        SequenceTheorems, TLAPS

-----------------------------------------------------------------------------
(* Induction and recursion.  Induction over a data structure is induction   *)
(* on a number, for a set T of the numbers that are as claimed; a recursive *)
(* function that is defined by its equation meets it, since some function   *)
(* does, whose step is given here as a function g.                          *)

\* A set of numbers that is not empty has a least one.
LEMMA LeastExists ==
    ASSUME NEW S \in SUBSET Nat, S # {}
    PROVE  \E i \in S : \A j \in S : i <= j
<1>1. PICK i \in S : \A j \in S : ~(<<j, i>> \in OpToRel(<, Nat))
  BY NatLessThanWellFounded, WFMin
<1>2. \A j \in S : ~(j < i)
  BY <1>1 DEF OpToRel
<1> QED BY <1>2

LEMMA UpTo ==
    ASSUME NEW n \in Nat, NEW T, 0 \in T, \A i \in 0 .. n - 1 : i \in T => i + 1 \in T
    PROVE  \A i \in 0 .. n : i \in T
<1> DEFINE S == {i \in 0 .. n : i \notin T}
<1> SUFFICES ASSUME S # {} PROVE FALSE
  OBVIOUS
<1>1. S \in SUBSET Nat
  OBVIOUS
<1> HIDE DEF S
<1>2. PICK i \in S : \A j \in S : i <= j
  BY <1>1, LeastExists
<1>3. i \in 0 .. n /\ i # 0
  BY <1>2 DEF S
<1>4. i - 1 \in 0 .. n - 1 /\ i - 1 \notin S
  BY <1>2, <1>3
<1>5. i - 1 \in T
  BY <1>4 DEF S
<1>6. (i - 1) + 1 \in T /\ (i - 1) + 1 = i
  BY <1>3, <1>4, <1>5
<1> QED BY <1>2, <1>6 DEF S

\* A finite set of integers that is not empty has a greatest one.
LEMMA GreatestExists ==
    ASSUME NEW n \in Nat, NEW S \in SUBSET (0 .. n), S # {}
    PROVE  \E i \in S : \A j \in S : j <= i
<1> DEFINE T == {n - i : i \in S}
<1>1. T \in SUBSET Nat /\ T # {}
  <2>1. \A i \in S : n - i \in Nat
    OBVIOUS
  <2>2. PICK i \in S : TRUE
    OBVIOUS
  <2>3. n - i \in T
    OBVIOUS
  <2> QED BY <2>1, <2>3
<1>2. PICK t \in T : \A u \in T : t <= u
  BY <1>1, LeastExists
<1>3. PICK i \in S : t = n - i
  BY <1>2
<1>4. \A j \in S : n - i <= n - j
  BY <1>2, <1>3
<1> QED BY <1>4

LEMMA MaxOf ==
    ASSUME NEW n \in Nat, NEW S \in SUBSET (0 .. n), S # {}
    PROVE  Max(S) \in S /\ \A j \in S : j <= Max(S)
<1>1. PICK i \in S : \A j \in S : j <= i
  BY GreatestExists
<1>2. \A j \in S : i >= j
  BY <1>1
<1>3. Max(S) \in S /\ \A j \in S : Max(S) >= j
  BY <1>2 DEF Max
<1> QED BY <1>3

LEMMA MaxOfPrefix ==
    ASSUME NEW k \in Nat \ {0}
    PROVE  Max(1 .. k) = k /\ (1 .. k) \ {k} = 1 .. k - 1
<1>1. 1 .. k \in SUBSET (0 .. k) /\ k \in 1 .. k
  OBVIOUS
<1>2. Max(1 .. k) \in 1 .. k /\ k <= Max(1 .. k)
  BY <1>1, MaxOf
<1> QED BY <1>2

\* There is a function on 0 .. n with the first value b and the step g.
IsRecursion(f, n, b, g) == f[0] = b /\ \A i \in 1 .. n : f[i] = g[<<f[i - 1], i>>]

LEMMA RecursionExists ==
    ASSUME NEW V, NEW n \in Nat, NEW b \in V, NEW g \in [V \X (1 .. n) -> V]
    PROVE  \E f \in [0 .. n -> V] : IsRecursion(f, n, b, g)
<1> DEFINE Runs(m) == {f \in [0 .. m -> V] :
                          f[0] = b /\ \A i \in 1 .. m : f[i] = g[<<f[i - 1], i>>]}
           T == {m \in 0 .. n : Runs(m) # {}}
<1>1. 0 \in T
  <2>1. [i \in 0 .. 0 |-> b] \in Runs(0)
    OBVIOUS
  <2> QED BY <2>1
<1>2. ASSUME NEW m \in 0 .. n - 1, m \in T PROVE m + 1 \in T
  <2>1. PICK f \in Runs(m) : TRUE
    BY <1>2
  <2> DEFINE h == [i \in 0 .. m + 1 |-> IF i = m + 1 THEN g[<<f[m], m + 1>>] ELSE f[i]]
  <2>2. f \in [0 .. m -> V] /\ f[0] = b /\ \A i \in 1 .. m : f[i] = g[<<f[i - 1], i>>]
    BY <2>1
  <2>3. g[<<f[m], m + 1>>] \in V
    BY <2>2
  <2>4. h \in [0 .. m + 1 -> V] /\ h[0] = b
    BY <2>2, <2>3
  <2>5. ASSUME NEW i \in 1 .. m + 1 PROVE h[i] = g[<<h[i - 1], i>>]
    <3>1. CASE i = m + 1
      <4>1. i - 1 = m /\ m \in 0 .. m + 1 /\ m # m + 1 /\ m + 1 \in 0 .. m + 1
        BY <3>1
      <4>2. h[i - 1] = f[m] /\ h[i] = g[<<f[m], m + 1>>]
        BY <3>1, <4>1
      <4> QED BY <3>1, <4>2
    <3>2. CASE i # m + 1
      <4>1. i \in 1 .. m /\ i - 1 \in 0 .. m /\ i - 1 # m + 1
        BY <3>2
      <4>2. h[i] = f[i] /\ h[i - 1] = f[i - 1]
        BY <4>1
      <4> QED BY <2>2, <4>1, <4>2
    <3> QED BY <3>1, <3>2
  <2> HIDE DEF h
  <2>6. h \in Runs(m + 1)
    BY <2>4, <2>5
  <2>7. m + 1 \in 0 .. n
    OBVIOUS
  <2> QED BY <2>6, <2>7
<1> HIDE DEF T
<1>3. n \in T
  BY <1>1, <1>2, UpTo
<1>4. PICK f \in Runs(n) : TRUE
  BY <1>3 DEF T
<1> QED BY <1>4 DEF IsRecursion

\* There is a function on the subsets of 1 .. n that takes their members in
\* ascending order, as FoldLeft does.
IsFold(f, n, b, g) ==
    \A s \in SUBSET (1 .. n) :
        f[s] = IF s = {} THEN b ELSE g[<<f[s \ {Max(s)}], Max(s)>>]

LEMMA FoldExists ==
    ASSUME NEW V, NEW n \in Nat, NEW b \in V, NEW g \in [V \X (1 .. n) -> V]
    PROVE  \E f \in [SUBSET (1 .. n) -> V] : IsFold(f, n, b, g)
<1> DEFINE Meets(f, s) == f[s] = IF s = {} THEN b ELSE g[<<f[s \ {Max(s)}], Max(s)>>]
           Runs(m) == {f \in [SUBSET (1 .. m) -> V] : \A s \in SUBSET (1 .. m) : Meets(f, s)}
           T == {m \in 0 .. n : Runs(m) # {}}
<1>1. 0 \in T
  <2> DEFINE f == [s \in SUBSET (1 .. 0) |-> b]
  <2>1. \A s \in SUBSET (1 .. 0) : s = {}
    OBVIOUS
  <2>2. f \in [SUBSET (1 .. 0) -> V] /\ \A s \in SUBSET (1 .. 0) : Meets(f, s)
    BY <2>1
  <2> HIDE DEF f, Meets
  <2>3. f \in Runs(0) /\ 0 \in 0 .. n
    BY <2>2
  <2> HIDE DEF Runs
  <2> QED BY <2>3
<1>2. ASSUME NEW m \in 0 .. n - 1, m \in T PROVE m + 1 \in T
  <2>1. PICK f \in Runs(m) : TRUE
    BY <1>2
  <2> DEFINE h == [s \in SUBSET (1 .. m + 1) |->
                     IF m + 1 \in s THEN g[<<f[s \ {m + 1}], m + 1>>] ELSE f[s]]
  <2>2. f \in [SUBSET (1 .. m) -> V] /\ \A s \in SUBSET (1 .. m) : Meets(f, s)
    BY <2>1
  <2>3. ASSUME NEW s \in SUBSET (1 .. m + 1) PROVE h[s] \in V /\ Meets(h, s)
    <3>1. CASE m + 1 \in s
      <4>1. s \ {m + 1} \in SUBSET (1 .. m)
        OBVIOUS
      <4>2. f[s \ {m + 1}] \in V /\ m + 1 \in 1 .. n
        BY <2>2, <4>1
      <4>3. h[s] = g[<<f[s \ {m + 1}], m + 1>>]
        BY <3>1
      <4>4. h[s] \in V
        BY <4>2, <4>3
      <4>5. Max(s) = m + 1
        <5>1. s \in SUBSET (0 .. m + 1) /\ s # {} /\ m + 1 \in Nat
          BY <3>1
        <5>2. Max(s) \in s /\ m + 1 <= Max(s)
          BY <3>1, <5>1, MaxOf
        <5> HIDE DEF h, Meets
        <5>3. Max(s) \in 1 .. m + 1 /\ m \in Nat
          <6>1. s \subseteq 1 .. m + 1 /\ m \in Nat
            OBVIOUS
          <6> QED BY <5>2, <6>1
        <5> QED BY <5>2, <5>3
      <4>6. h[s \ {m + 1}] = f[s \ {m + 1}]
        BY <4>1
      <4> HIDE DEF h
      <4> QED BY <3>1, <4>3, <4>4, <4>5, <4>6
    <3>2. CASE m + 1 \notin s
      <4>1. s \in SUBSET (1 .. m) /\ s \ {Max(s)} \in SUBSET (1 .. m)
        <5>1. \A i \in 1 .. m + 1 : i # m + 1 => i \in 1 .. m
          OBVIOUS
        <5> HIDE DEF h
        <5> QED BY <3>2, <5>1
      <4>2. h[s] = f[s] /\ h[s \ {Max(s)}] = f[s \ {Max(s)}]
        BY <3>2, <4>1
      <4>3. f[s] \in V /\ Meets(f, s)
        BY <2>2, <4>1
      <4> HIDE DEF h
      <4> QED BY <4>2, <4>3
    <3> QED BY <3>1, <3>2
  <2>4. h \in [SUBSET (1 .. m + 1) -> V]
    BY <2>3
  <2> HIDE DEF h, Meets
  <2>5. h \in Runs(m + 1) /\ m + 1 \in 0 .. n
    BY <2>3, <2>4
  <2> QED BY <2>5
<1> HIDE DEF T
<1>3. n \in T
  BY <1>1, <1>2, UpTo
<1>4. PICK f \in Runs(n) : TRUE
  BY <1>3 DEF T
<1> QED BY <1>4 DEF IsFold

\* What a fold over a list computes, turn by turn.  Its definition in the
\* community modules is a function "it" on the sets of places, which takes the
\* last place of a set last.
TakesLast(it, V, n, b, g) ==
    /\ it[{}] = b
    /\ \A s \in SUBSET (1 .. n) : (s # {} /\ it[s \ {Max(s)}] \in V)
            => it[s] = g[<<it[s \ {Max(s)}], Max(s)>>]

EndsAs(f, n, it) == f[n] = it[1 .. n]

LEMMA FoldRuns ==
    ASSUME NEW V, NEW n \in Nat, NEW b \in V, NEW g \in [V \X (1 .. n) -> V],
           NEW it, TakesLast(it, V, n, b, g)
    PROVE  \E f \in [0 .. n -> V] : IsRecursion(f, n, b, g) /\ EndsAs(f, n, it)
<1> DEFINE f == [k \in 0 .. n |-> it[1 .. k]]
           T == {k \in 0 .. n : it[1 .. k] \in V}
<1>1. it[1 .. 0] = b
  <2>1. 1 .. 0 = {}
    OBVIOUS
  <2> QED BY <2>1 DEF TakesLast
<1>2. 0 \in T
  BY <1>1
<1>3. ASSUME NEW k \in 0 .. n - 1, it[1 .. k] \in V
      PROVE  it[1 .. k + 1] = g[<<it[1 .. k], k + 1>>] /\ it[1 .. k + 1] \in V
  <2>1. k + 1 \in Nat \ {0} /\ (k + 1) - 1 = k /\ k + 1 \in 1 .. n
    OBVIOUS
  <2>2. Max(1 .. k + 1) = k + 1 /\ (1 .. k + 1) \ {k + 1} = 1 .. k
    BY <2>1, MaxOfPrefix
  <2>3. 1 .. k + 1 \in SUBSET (1 .. n) /\ 1 .. k + 1 # {}
    BY <2>1
  <2>4. it[1 .. k + 1] = g[<<it[1 .. k], k + 1>>]
    BY <1>3, <2>2, <2>3 DEF TakesLast
  <2> QED BY <1>3, <2>1, <2>4
<1>4. \A k \in 0 .. n - 1 : k \in T => k + 1 \in T
  <2>1. \A k \in 0 .. n - 1 : k + 1 \in 0 .. n
    OBVIOUS
  <2> QED BY <1>3, <2>1
<1> HIDE DEF T
<1>5. \A k \in 0 .. n : k \in T
  BY <1>2, <1>4, UpTo
<1>6. \A k \in 0 .. n : it[1 .. k] \in V
  BY <1>5 DEF T
<1>7. f \in [0 .. n -> V] /\ f[0] = b /\ f[n] = it[1 .. n]
  BY <1>1, <1>6
<1>8. ASSUME NEW k \in 1 .. n PROVE f[k] = g[<<f[k - 1], k>>]
  <2>1. k - 1 \in 0 .. n - 1 /\ (k - 1) + 1 = k /\ k \in 0 .. n /\ k - 1 \in 0 .. n
    OBVIOUS
  <2>2. it[1 .. k] = g[<<it[1 .. k - 1], k>>]
    BY <1>3, <1>6, <2>1
  <2> QED BY <2>1, <2>2
<1> HIDE DEF f
<1> QED BY <1>7, <1>8 DEF IsRecursion, EndsAs

LEMMA MaxOfPlaces ==
    ASSUME NEW n \in Nat, NEW s \in SUBSET (1 .. n), s # {}
    PROVE  Max(s) \in 1 .. n /\ s \ {Max(s)} \in SUBSET (1 .. n)
<1>1. s \in SUBSET (0 .. n)
  OBVIOUS
<1>2. Max(s) \in s
  BY <1>1, MaxOf
<1> QED BY <1>2

\* The rank at which a list has id.
PlaceOf(ids, id) == CHOOSE r \in DOMAIN ids : ids[r] = id

-----------------------------------------------------------------------------
(* Fractions.                                                               *)

\* The scores are exact fractions of Unit.
LEMMA ContributionExact ==
    ASSUME NEW r \in 1 .. MaxRank
    PROVE  Contribution(r) \in 1 .. Unit /\ Contribution(r) * (K + r) = Unit
<1>1. \E m \in 1 .. Unit : m * (K + r) = Unit
  BY FusionAssumption
<1> QED BY <1>1 DEF Contribution

LEMMA TimesMonotone ==
    ASSUME NEW p \in Nat, NEW u \in Nat, NEW v \in Nat, p > 0, u < v
    PROVE  p * u < p * v
OBVIOUS

\* Of equal products the one with the smaller factor has the larger one.
LEMMA SmallerDenominator ==
    ASSUME NEW p \in Nat, NEW q \in Nat, NEW x \in Nat, NEW y \in Nat,
           p * x = q * y, x < y, p > 0, q > 0
    PROVE  q < p
<1> SUFFICES ASSUME p <= q PROVE FALSE
  OBVIOUS
<1>1. p * x < p * y
  BY TimesMonotone
<1>2. p * y <= q * y
  <2>1. CASE p = q
    BY <2>1
  <2>2. CASE p < q /\ y > 0
    <3>1. y * p < y * q
      BY <2>2, TimesMonotone
    <3> QED BY <3>1
  <2> QED BY <2>1, <2>2
<1> QED BY <1>1, <1>2

\* A rank that is better counts for more.
LEMMA ContributionFalls ==
    ASSUME NEW r \in 1 .. MaxRank, NEW s \in 1 .. MaxRank, r < s
    PROVE  Contribution(s) < Contribution(r)
<1> DEFINE p == Contribution(r)
           q == Contribution(s)
<1>1. /\ p \in Nat /\ q \in Nat /\ p > 0 /\ q > 0
      /\ p * (K + r) = q * (K + s)
  BY ContributionExact, FusionAssumption
<1>2. K + r \in Nat /\ K + s \in Nat /\ K + r < K + s
  BY FusionAssumption
<1> HIDE DEF p, q
<1>3. q < p
  BY <1>1, <1>2, SmallerDenominator
<1> QED BY <1>3 DEF p, q

\* In lists no longer than K + 1, twice the last place is more than the first.
LEMMA TwiceIsMore ==
    ASSUME MaxRank < K + 2, NEW r \in 1 .. MaxRank, NEW s \in 1 .. MaxRank
    PROVE  Contribution(s) < 2 * Contribution(r)
<1> DEFINE p == Contribution(r)
           q == Contribution(s)
<1>1. /\ p \in Nat /\ q \in Nat /\ p > 0 /\ q > 0
      /\ p * (K + r) = q * (K + s)
  BY ContributionExact, FusionAssumption
<1>2. /\ K + r \in Nat /\ 2 * (K + s) \in Nat /\ K + s \in Nat
      /\ K + r < 2 * (K + s)
  BY FusionAssumption
<1> HIDE DEF p, q
<1>3. ASSUME NEW x \in Nat, NEW y \in Nat, x < 2 * y, p * x = q * y
      PROVE  q < 2 * p
  <2>1. (2 * p) * x = q * (2 * y)
    BY <1>1, <1>3
  <2>2. 2 * p \in Nat /\ 2 * p > 0 /\ 2 * y \in Nat
    BY <1>1
  <2> QED BY <1>1, <1>3, <2>1, <2>2, SmallerDenominator
<1>4. q < 2 * p
  BY <1>1, <1>2, <1>3
<1> QED BY <1>4 DEF p, q

-----------------------------------------------------------------------------
(* Shares.                                                                  *)

\* A list that has id has it at one rank, which sets its share.
LEMMA ShareAtRank ==
    ASSUME NEW ids, IsRanking(ids), NEW r \in DOMAIN ids
    PROVE  /\ r \in 1 .. MaxRank /\ PlaceOf(ids, ids[r]) = r
           /\ Share(ids, ids[r]) = Contribution(r)
<1>1. DOMAIN ids = 1 .. Len(ids) /\ Len(ids) \in Nat /\ Len(ids) <= MaxRank
  BY DEF IsRanking
<1>2. r \in 1 .. MaxRank
  BY <1>1, FusionAssumption
<1>3. PlaceOf(ids, ids[r]) = r
  BY DEF PlaceOf, IsRanking
<1> QED BY <1>2, <1>3 DEF Share, PlaceOf

LEMMA ShareOfNone ==
    ASSUME NEW ids, NEW id, id \notin ToSet(ids)
    PROVE  Share(ids, id) = 0
BY DEF Share, ToSet

LEMMA ShareOfSome ==
    ASSUME NEW ids, IsRanking(ids), NEW id \in ToSet(ids)
    PROVE  \E r \in DOMAIN ids : /\ ids[r] = id /\ r \in 1 .. MaxRank
                                 /\ Share(ids, id) = Contribution(r)
<1>1. PICK r \in DOMAIN ids : ids[r] = id
  BY DEF ToSet
<1> QED BY <1>1, ShareAtRank

-----------------------------------------------------------------------------
(* Scores.                                                                  *)

\* A passage that both searches found scores more than one that only one found,
\* if no list is longer than the damping constant and one: 50 and 60 in the
\* settings (hybrid.py:43, config.py:66-68, test_hybrid_merge.py:33).
THEOREM BothScoreMore ==
    ASSUME MaxRank < K + 2,
           NEW bm25, NEW vector, IsRanking(bm25), IsRanking(vector),
           NEW id \in FoundByBoth(bm25, vector),
           NEW other, other \notin FoundByBoth(bm25, vector)
    PROVE  Score(bm25, vector, other) < Score(bm25, vector, id)
<1>1. id \in ToSet(bm25) /\ id \in ToSet(vector)
  BY DEF FoundByBoth
<1>2. PICK a \in 1 .. MaxRank : Share(bm25, id) = Contribution(a)
  BY <1>1, ShareOfSome
<1>3. PICK b \in 1 .. MaxRank : Share(vector, id) = Contribution(b)
  BY <1>1, ShareOfSome
<1> DEFINE p == Contribution(a)
           q == Contribution(b)
<1>4. p \in Nat /\ q \in Nat /\ p > 0 /\ q > 0
  BY ContributionExact, FusionAssumption
<1>5. \A s \in 1 .. MaxRank : Contribution(s) \in Nat /\ Contribution(s) < p + q
  <2> TAKE s \in 1 .. MaxRank
  <2> DEFINE t == Contribution(s)
  <2>1. t \in Nat /\ t < 2 * p /\ t < 2 * q
    BY ContributionExact, TwiceIsMore, FusionAssumption
  <2> HIDE DEF p, q, t
  <2>2. t < p + q
    BY <1>4, <2>1
  <2> QED BY <2>1, <2>2 DEF t
<1> HIDE DEF p, q
<1>6. CASE other \notin ToSet(bm25) /\ other \notin ToSet(vector)
  BY <1>2, <1>3, <1>4, <1>6, ShareOfNone DEF Score, p, q
<1>7. CASE other \in ToSet(bm25) /\ other \notin ToSet(vector)
  <2>1. PICK s \in 1 .. MaxRank : Share(bm25, other) = Contribution(s)
    BY <1>7, ShareOfSome
  <2>2. Share(vector, other) = 0
    BY <1>7, ShareOfNone
  <2> QED BY <1>2, <1>3, <1>4, <1>5, <2>1, <2>2 DEF Score, p, q
<1>8. CASE other \notin ToSet(bm25) /\ other \in ToSet(vector)
  <2>1. PICK s \in 1 .. MaxRank : Share(vector, other) = Contribution(s)
    BY <1>8, ShareOfSome
  <2>2. Share(bm25, other) = 0
    BY <1>8, ShareOfNone
  <2> QED BY <1>2, <1>3, <1>4, <1>5, <2>1, <2>2 DEF Score, p, q
<1> QED BY <1>6, <1>7, <1>8 DEF FoundByBoth

\* In a list that has b, a passage that is placed no worse has a larger share.
LEMMA BetterShare ==
    ASSUME NEW ids, IsRanking(ids), NEW a, NEW b, a # b, NoWorse(ids, a, b)
    PROVE  /\ Share(ids, a) \in Nat /\ Share(ids, b) \in Nat
           /\ Share(ids, b) <= Share(ids, a)
           /\ b \in ToSet(ids) => Share(ids, b) < Share(ids, a)
<1>1. \A id : Share(ids, id) \in Nat
  <2> TAKE id
  <2>1. CASE id \in ToSet(ids)
    BY <2>1, ShareOfSome, ContributionExact, FusionAssumption
  <2>2. CASE id \notin ToSet(ids)
    BY <2>2, ShareOfNone
  <2> QED BY <2>1, <2>2
<1>2. CASE b \in ToSet(ids)
  <2>1. PICK s \in DOMAIN ids : ids[s] = b
    BY <1>2 DEF ToSet
  <2>2. PICK r \in 1 .. s : ids[r] = a
    BY <2>1 DEF NoWorse
  <2>3. DOMAIN ids = 1 .. Len(ids) /\ Len(ids) \in Nat
    BY DEF IsRanking
  <2>4. r \in DOMAIN ids /\ r < s
    BY <2>1, <2>2, <2>3
  <2>5. /\ Share(ids, a) = Contribution(r) /\ r \in 1 .. MaxRank
        /\ Share(ids, b) = Contribution(s) /\ s \in 1 .. MaxRank
    BY <2>1, <2>2, <2>4, ShareAtRank
  <2>6. Contribution(s) < Contribution(r)
    BY <2>4, <2>5, ContributionFalls
  <2> QED BY <1>1, <2>5, <2>6
<1>3. CASE b \notin ToSet(ids)
  BY <1>1, <1>3, ShareOfNone
<1> QED BY <1>2, <1>3

\* A passage that is found, and in neither list placed ahead of another, scores
\* less than that one (hybrid.py:40-56).
THEOREM DominatedScoresLess ==
    ASSUME NEW bm25, NEW vector, IsRanking(bm25), IsRanking(vector),
           NEW a, NEW b, a # b, b \in ToSet(bm25) \cup ToSet(vector),
           NoWorse(bm25, a, b), NoWorse(vector, a, b)
    PROVE  Score(bm25, vector, b) < Score(bm25, vector, a)
<1>1. /\ Share(bm25, a) \in Nat /\ Share(bm25, b) \in Nat
      /\ Share(bm25, b) <= Share(bm25, a)
      /\ b \in ToSet(bm25) => Share(bm25, b) < Share(bm25, a)
  BY BetterShare
<1>2. /\ Share(vector, a) \in Nat /\ Share(vector, b) \in Nat
      /\ Share(vector, b) <= Share(vector, a)
      /\ b \in ToSet(vector) => Share(vector, b) < Share(vector, a)
  BY BetterShare
<1> QED BY <1>1, <1>2 DEF Score

-----------------------------------------------------------------------------
(* Sorting.  A position's place is the number of positions before it in a   *)
(* strict total order, so that the places are all different, and all taken. *)

Entries(S) == [id : S, score : Nat, sources : SUBSET {"bm25", "vector"},
               text : {"bm25", "vector"}]

\* Entry i of the list comes before entry j in its sorted form.
Before(fused, i, j) == \/ fused[i].score > fused[j].score
                       \/ fused[i].score = fused[j].score /\ i < j
Ahead(fused, i) == {j \in DOMAIN fused : Before(fused, j, i)}

LEMMA EntryScores ==
    ASSUME NEW S, NEW fused \in Seq(Entries(S)), NEW i \in DOMAIN fused
    PROVE  /\ fused[i] \in Entries(S) /\ i \in 1 .. Len(fused)
           /\ fused[i].score \in Nat /\ fused[i].id \in S
<1>1. fused[i] \in Entries(S) /\ i \in 1 .. Len(fused)
  OBVIOUS
<1> QED BY <1>1 DEF Entries

LEMMA BeforeIsOrder ==
    ASSUME NEW S, NEW fused \in Seq(Entries(S)),
           NEW i \in DOMAIN fused, NEW j \in DOMAIN fused, NEW k \in DOMAIN fused
    PROVE  /\ ~Before(fused, i, i)
           /\ i # j => Before(fused, i, j) \/ Before(fused, j, i)
           /\ Before(fused, i, j) /\ Before(fused, j, k) => Before(fused, i, k)
<1>1. \A l \in DOMAIN fused : fused[l].score \in Nat /\ l \in Nat
  BY EntryScores
<1> QED BY <1>1 DEF Before

LEMMA PlacesDiffer ==
    ASSUME NEW S, NEW fused \in Seq(Entries(S)), NEW i \in DOMAIN fused, NEW j \in DOMAIN fused
    PROVE  /\ Cardinality(Ahead(fused, i)) \in 0 .. Len(fused) - 1
           /\ Before(fused, i, j) => Cardinality(Ahead(fused, i)) < Cardinality(Ahead(fused, j))
<1> DEFINE n == Len(fused)
<1>1. DOMAIN fused = 1 .. n /\ n \in Nat
  OBVIOUS
<1>2. IsFiniteSet(1 .. n) /\ Cardinality(1 .. n) = n
  <2>1. /\ IsFiniteSet(1 .. n)
        /\ Cardinality(1 .. n) = IF 1 > n THEN 0 ELSE n - 1 + 1
    BY <1>1, FS_Interval
  <2> DEFINE c == Cardinality(1 .. n)
  <2>2. c = IF 1 > n THEN 0 ELSE n - 1 + 1
    BY <2>1
  <2> HIDE DEF c, n
  <2>3. c = n
    BY <1>1, <2>2
  <2> QED BY <2>1, <2>3 DEF c
<1>3. ASSUME NEW k \in DOMAIN fused
      PROVE  /\ IsFiniteSet(Ahead(fused, k)) /\ k \notin Ahead(fused, k)
             /\ Ahead(fused, k) \in SUBSET (1 .. n)
             /\ Cardinality(Ahead(fused, k)) \in Nat
  <2>1. Ahead(fused, k) \in SUBSET (1 .. n)
    BY <1>1 DEF Ahead
  <2>2. k \notin Ahead(fused, k)
    BY BeforeIsOrder DEF Ahead
  <2>3. IsFiniteSet(Ahead(fused, k))
    BY <1>2, <2>1, FS_Subset
  <2> QED BY <2>1, <2>2, <2>3, FS_CardinalityType
<1>4. Cardinality(Ahead(fused, i)) \in 0 .. n - 1
  <2> DEFINE A == Ahead(fused, i)
             c == Cardinality(A)
  <2>1. IsFiniteSet(A) /\ i \notin A /\ A \in SUBSET (1 .. n) /\ c \in Nat
    BY <1>3
  <2>2. c <= Cardinality(1 .. n) /\ (Cardinality(1 .. n) = c => 1 .. n = A)
    BY <1>2, <2>1, FS_Subset
  <2>3. A # 1 .. n
    BY <1>1, <2>1
  <2> HIDE DEF A, c, n
  <2>4. c <= n /\ c # n
    BY <1>2, <2>2, <2>3
  <2>5. c \in 0 .. n - 1
    BY <1>1, <2>1, <2>4
  <2> QED BY <2>5 DEF A, c
<1>5. ASSUME Before(fused, i, j)
      PROVE  Cardinality(Ahead(fused, i)) < Cardinality(Ahead(fused, j))
  <2> DEFINE A == Ahead(fused, i)
             B == Ahead(fused, j)
             a == Cardinality(A)
             b == Cardinality(B)
  <2>1. A \subseteq B
    BY <1>5, BeforeIsOrder DEF Ahead
  <2>2. i \in B /\ i \notin A
    BY <1>3, <1>5 DEF Ahead
  <2>3. IsFiniteSet(A) /\ IsFiniteSet(B) /\ a \in Nat /\ b \in Nat
    BY <1>3
  <2>4. a <= b /\ (b = a => B = A)
    <3> HIDE DEF A, B
    <3> QED BY <2>1, <2>3, FS_Subset
  <2> HIDE DEF A, B, a, b
  <2>5. a < b
    BY <2>2, <2>3, <2>4
  <2> QED BY <2>5 DEF a, b, A, B
<1> QED BY <1>4, <1>5

\* Every place is taken, by one position.
LEMMA PlacesTaken ==
    ASSUME NEW S, NEW fused \in Seq(Entries(S)), NEW m \in 1 .. Len(fused)
    PROVE  \E i \in DOMAIN fused : Cardinality(Ahead(fused, i)) = m - 1
<1> DEFINE n == Len(fused)
           P == 1 .. n
           Q == 0 .. n - 1
           f == [i \in P |-> Cardinality(Ahead(fused, i))]
<1>1. DOMAIN fused = P /\ n \in Nat
  OBVIOUS
<1>2. f \in [P -> Q]
  BY <1>1, PlacesDiffer
<1>3. \A i, j \in P : f[i] = f[j] => i = j
  <2> SUFFICES ASSUME NEW i \in P, NEW j \in P, i # j PROVE f[i] # f[j]
    BY Zenon
  <2>1. i \in DOMAIN fused /\ j \in DOMAIN fused
    BY <1>1
  <2>2. Before(fused, i, j) \/ Before(fused, j, i)
    BY <2>1, BeforeIsOrder
  <2>3. f[i] \in Nat /\ f[j] \in Nat
    BY <1>2
  <2>4. f[i] < f[j] \/ f[j] < f[i]
    BY <2>1, <2>2, PlacesDiffer
  <2> HIDE DEF f
  <2> QED BY <2>3, <2>4
<1>4. /\ IsFiniteSet(P) /\ Cardinality(P) = n
      /\ IsFiniteSet(Q) /\ Cardinality(Q) = n
  <2>1. /\ IsFiniteSet(P) /\ Cardinality(P) = IF 1 > n THEN 0 ELSE n - 1 + 1
        /\ IsFiniteSet(Q) /\ Cardinality(Q) = IF 0 > n - 1 THEN 0 ELSE (n - 1) - 0 + 1
    <3>1. n - 1 \in Int /\ 0 \in Int /\ 1 \in Int /\ n \in Int
      BY <1>1
    <3> HIDE DEF n
    <3> QED BY <3>1, FS_Interval
  <2> DEFINE c == Cardinality(P)
             d == Cardinality(Q)
  <2>2. c = (IF 1 > n THEN 0 ELSE n - 1 + 1) /\ d = (IF 0 > n - 1 THEN 0 ELSE (n - 1) - 0 + 1)
    BY <2>1
  <2> HIDE DEF c, d, P, Q, n
  <2>3. c = n /\ d = n
    BY <1>1, <2>2
  <2> QED BY <2>1, <2>3 DEF c, d
<1> HIDE DEF f
<1>5. f \in Injection(P, Q)
  BY <1>2, <1>3 DEF Injection, IsInjective
<1> HIDE DEF P, Q
<1>6. f \in Surjection(P, Q)
  BY <1>4, <1>5, FS_Injection
<1>7. m - 1 \in Q
  BY DEF Q
<1>8. PICK i \in P : f[i] = m - 1
  BY <1>6, <1>7 DEF Surjection
<1> QED BY <1>1, <1>8 DEF f, P

\* What the sort returns: every entry, once, and in order of the scores.
LEMMA SortFacts ==
    ASSUME NEW S, NEW fused \in Seq(Entries(S))
    PROVE  LET out == SortedByScore(fused) IN
           /\ out \in Seq(Entries(S)) /\ Len(out) = Len(fused)
           /\ \E f \in [1 .. Len(fused) -> 1 .. Len(fused)] :
                /\ \A m \in 1 .. Len(fused) : out[m] = fused[f[m]]
                /\ \A l, m \in 1 .. Len(fused) : f[l] = f[m] => l = m
                /\ \A i \in 1 .. Len(fused) : \E m \in 1 .. Len(fused) : f[m] = i
           /\ \A l, m \in 1 .. Len(fused) : l < m => out[m].score <= out[l].score
<1> DEFINE n == Len(fused)
           out == SortedByScore(fused)
           f == [m \in 1 .. n |->
                   CHOOSE i \in DOMAIN fused : Cardinality(Ahead(fused, i)) = m - 1]
<1>1. DOMAIN fused = 1 .. n /\ n \in Nat
  OBVIOUS
<1>2. \A m \in 1 .. n : f[m] \in 1 .. n /\ Cardinality(Ahead(fused, f[m])) = m - 1
  BY <1>1, PlacesTaken
<1>3. f \in [1 .. n -> 1 .. n]
  BY <1>2
<1>4. out = [m \in 1 .. n |-> fused[f[m]]]
  BY <1>1 DEF SortedByScore, Ahead, Before
<1> HIDE DEF out, f
<1>5. \A m \in 1 .. n : out[m] = fused[f[m]] /\ fused[f[m]] \in Entries(S)
  BY <1>1, <1>3, <1>4
<1>6. out \in Seq(Entries(S)) /\ Len(out) = n
  BY <1>1, <1>4, <1>5
<1>7. \A l, m \in 1 .. n : f[l] = f[m] => l = m
  BY <1>1, <1>2
<1>8. ASSUME NEW i \in 1 .. n PROVE \E m \in 1 .. n : f[m] = i
  <2> DEFINE c == Cardinality(Ahead(fused, i))
  <2>1. c \in 0 .. n - 1
    BY <1>1, PlacesDiffer
  <2>2. c + 1 \in 1 .. n /\ (c + 1) - 1 = c
    BY <1>1, <2>1
  <2>3. PICK m \in 1 .. n : m - 1 = c
    BY <2>2
  <2>4. f[m] \in 1 .. n /\ Cardinality(Ahead(fused, f[m])) = c
    BY <1>2, <2>3
  <2>5. f[m] = i
    <3> SUFFICES ASSUME f[m] # i PROVE FALSE
      OBVIOUS
    <3>1. PICK j \in 1 .. n : j = f[m]
      BY <2>4
    <3>2. Before(fused, i, j) \/ Before(fused, j, i)
      BY <1>1, <3>1, BeforeIsOrder
    <3>3. Cardinality(Ahead(fused, j)) = c
      BY <2>4, <3>1
    <3>4. c < Cardinality(Ahead(fused, j)) \/ Cardinality(Ahead(fused, j)) < c
      BY <1>1, <3>2, PlacesDiffer
    <3> HIDE DEF c
    <3> QED BY <2>1, <3>3, <3>4
  <2> QED BY <2>5
<1>9. ASSUME NEW l \in 1 .. n, NEW m \in 1 .. n, l < m PROVE out[m].score <= out[l].score
  <2>1. PICK i \in 1 .. n : i = f[l]
    BY <1>2
  <2>2. PICK j \in 1 .. n : j = f[m]
    BY <1>2
  <2>3. Cardinality(Ahead(fused, i)) = l - 1 /\ Cardinality(Ahead(fused, j)) = m - 1
    BY <1>2, <2>1, <2>2
  <2>4. i # j
    BY <1>9, <1>7, <2>1, <2>2
  <2>5. ~Before(fused, j, i)
    <3> SUFFICES ASSUME Before(fused, j, i) PROVE FALSE
      OBVIOUS
    <3>1. Cardinality(Ahead(fused, j)) < Cardinality(Ahead(fused, i))
      BY <1>1, PlacesDiffer
    <3>2. m - 1 < l - 1
      BY <2>3, <3>1
    <3> QED BY <1>9, <3>2
  <2>6. Before(fused, i, j)
    BY <1>1, <2>4, <2>5, BeforeIsOrder
  <2>7. fused[i].score \in Nat /\ fused[j].score \in Nat
    BY <1>1, EntryScores
  <2>8. fused[j].score <= fused[i].score
    BY <2>6, <2>7 DEF Before
  <2> QED BY <1>5, <2>1, <2>2, <2>8
<1> QED BY <1>3, <1>5, <1>6, <1>7, <1>8, <1>9 DEF out

-----------------------------------------------------------------------------
(* The loop over the hits.                                                  *)

HitsOf(S) == [id : S, rank : 1 .. MaxRank, source : {"bm25", "vector"}]

\* The entries list each passage that has points once, with its points.
Tallied(fused, S, points) ==
    /\ fused \in Seq(Entries(S))
    /\ \A i, j \in DOMAIN fused : fused[i].id = fused[j].id => i = j
    /\ \A i \in DOMAIN fused : fused[i].score = points[fused[i].id]
    /\ \A id \in S : points[id] > 0 <=> \E i \in DOMAIN fused : fused[i].id = id

LEMMA MergeListed ==
    ASSUME NEW S, NEW fused \in Seq(Entries(S)), NEW hit \in HitsOf(S),
           \E i \in DOMAIN fused : fused[i].id = hit.id
    PROVE  LET next == Merge(fused, hit) IN
           /\ next \in Seq(Entries(S)) /\ DOMAIN next = DOMAIN fused
           /\ \A i \in DOMAIN fused :
                /\ next[i].id = fused[i].id
                /\ next[i].score = IF fused[i].id = hit.id
                                   THEN fused[i].score + Contribution(hit.rank)
                                   ELSE fused[i].score
<1> DEFINE next == Merge(fused, hit)
           Added(i) == [fused[i] EXCEPT !.score = @ + Contribution(hit.rank),
                                        !.sources = @ \cup {hit.source}]
           n == Len(fused)
<1>1. DOMAIN fused = 1 .. n /\ n \in Nat
  OBVIOUS
<1>2. next = [i \in 1 .. n |-> IF fused[i].id = hit.id THEN Added(i) ELSE fused[i]]
  BY <1>1 DEF Merge
<1>3. hit.rank \in 1 .. MaxRank /\ hit.source \in {"bm25", "vector"}
  BY DEF HitsOf
<1>4. Contribution(hit.rank) \in Nat
  BY <1>3, ContributionExact, FusionAssumption
<1>5. ASSUME NEW i \in 1 .. n
      PROVE  /\ fused[i] \in Entries(S) /\ Added(i) \in Entries(S)
             /\ Added(i).id = fused[i].id
             /\ Added(i).score = fused[i].score + Contribution(hit.rank)
  <2>1. fused[i] \in Entries(S)
    BY <1>1, EntryScores
  <2>2. fused[i] = [id |-> fused[i].id, score |-> fused[i].score,
                    sources |-> fused[i].sources, text |-> fused[i].text]
    BY <2>1 DEF Entries
  <2>3. /\ fused[i].id \in S /\ fused[i].score \in Nat
        /\ fused[i].sources \in SUBSET {"bm25", "vector"}
        /\ fused[i].text \in {"bm25", "vector"}
    BY <2>1 DEF Entries
  <2>4. Added(i) = [id |-> fused[i].id, score |-> fused[i].score + Contribution(hit.rank),
                    sources |-> fused[i].sources \cup {hit.source}, text |-> fused[i].text]
    <3>1. PICK c, x, id, score, sources, text :
            /\ c = fused[i].score + Contribution(hit.rank)
            /\ x = fused[i].sources \cup {hit.source}
            /\ id = fused[i].id /\ score = fused[i].score
            /\ sources = fused[i].sources /\ text = fused[i].text
      OBVIOUS
    <3> DEFINE e == [fused[i] EXCEPT !.score = c]
    <3>2. e = [id |-> id, score |-> c, sources |-> sources, text |-> text]
      BY <2>2, <3>1
    <3>3. Added(i) = [e EXCEPT !.sources = x]
      BY <3>1, Zenon
    <3> HIDE DEF e, Added
    <3>4. [e EXCEPT !.sources = x] = [id |-> id, score |-> c, sources |-> x, text |-> text]
      BY <3>2
    <3> QED BY <3>1, <3>3, <3>4, Zenon
  <2> QED BY <1>3, <1>4, <2>1, <2>3, <2>4 DEF Entries
<1> HIDE DEF next, Added
<1>6. next \in Seq(Entries(S)) /\ DOMAIN next = 1 .. n
  BY <1>1, <1>2, <1>5
<1>7. \A i \in 1 .. n : /\ next[i].id = fused[i].id
                        /\ next[i].score = IF fused[i].id = hit.id
                                           THEN fused[i].score + Contribution(hit.rank)
                                           ELSE fused[i].score
  BY <1>2, <1>5
<1> QED BY <1>1, <1>6, <1>7 DEF next

LEMMA MergeNew ==
    ASSUME NEW S, NEW fused \in Seq(Entries(S)), NEW hit \in HitsOf(S),
           ~\E i \in DOMAIN fused : fused[i].id = hit.id
    PROVE  LET next == Merge(fused, hit)
               n    == Len(fused)
           IN  /\ next \in Seq(Entries(S)) /\ n \in Nat
               /\ DOMAIN fused = 1 .. n /\ DOMAIN next = 1 .. n + 1
               /\ \A i \in 1 .. n : next[i] = fused[i]
               /\ next[n + 1].id = hit.id /\ next[n + 1].score = Contribution(hit.rank)
<1>1. Merge(fused, hit) = Append(fused, NewEntry(hit))
  BY DEF Merge
<1>2. hit.rank \in 1 .. MaxRank /\ hit.source \in {"bm25", "vector"} /\ hit.id \in S
  BY DEF HitsOf
<1>3. Contribution(hit.rank) \in Nat
  BY <1>2, ContributionExact, FusionAssumption
<1>4. /\ NewEntry(hit) \in Entries(S) /\ NewEntry(hit).id = hit.id
      /\ NewEntry(hit).score = Contribution(hit.rank)
  BY <1>2, <1>3 DEF NewEntry, Entries
<1> QED BY <1>1, <1>4

LEMMA MergeType ==
    ASSUME NEW S, NEW fused \in Seq(Entries(S)), NEW hit \in HitsOf(S)
    PROVE  Merge(fused, hit) \in Seq(Entries(S))
<1>1. CASE \E i \in DOMAIN fused : fused[i].id = hit.id
  BY <1>1, MergeListed
<1>2. CASE ~\E i \in DOMAIN fused : fused[i].id = hit.id
  BY <1>2, MergeNew
<1> QED BY <1>1, <1>2

\* What a hit adds.
Scored(points, hit) == [points EXCEPT ![hit.id] = @ + Contribution(hit.rank)]

\* A turn of the loop gives the hit's passage the points of its rank.
LEMMA MergeTallies ==
    ASSUME NEW S, NEW fused, NEW points \in [S -> Nat], Tallied(fused, S, points),
           NEW hit \in HitsOf(S)
    PROVE  Tallied(Merge(fused, hit), S, Scored(points, hit))
<1> DEFINE c == Contribution(hit.rank)
           then == Scored(points, hit)
           next == Merge(fused, hit)
           n == Len(fused)
<1>1. hit.id \in S /\ c \in Nat /\ c > 0
  <2>1. hit.rank \in 1 .. MaxRank /\ hit.id \in S
    BY DEF HitsOf
  <2> QED BY <2>1, ContributionExact, FusionAssumption
<1>2. then \in [S -> Nat] /\ \A id \in S : then[id] = IF id = hit.id THEN points[id] + c ELSE points[id]
  <2>1. then = [points EXCEPT ![hit.id] = @ + c]
    BY DEF Scored
  <2> HIDE DEF c, then
  <2> QED BY <1>1, <2>1
<1>3. /\ fused \in Seq(Entries(S))
      /\ \A i, j \in DOMAIN fused : fused[i].id = fused[j].id => i = j
      /\ \A i \in DOMAIN fused : fused[i].score = points[fused[i].id]
      /\ \A id \in S : points[id] > 0 <=> \E i \in DOMAIN fused : fused[i].id = id
  BY DEF Tallied
<1>4. \A i \in DOMAIN fused : fused[i].id \in S
  BY <1>3, EntryScores
<1>5. CASE \E i \in DOMAIN fused : fused[i].id = hit.id
  <2>1. /\ next \in Seq(Entries(S)) /\ DOMAIN next = DOMAIN fused
        /\ \A i \in DOMAIN fused :
             /\ next[i].id = fused[i].id
             /\ next[i].score = IF fused[i].id = hit.id THEN fused[i].score + c
                                                        ELSE fused[i].score
    BY <1>3, <1>5, MergeListed
  <2> HIDE DEF next, then, c
  <2>2. \A i, j \in DOMAIN next : next[i].id = next[j].id => i = j
    BY <1>3, <2>1
  <2>3. \A i \in DOMAIN next : next[i].score = then[next[i].id]
    BY <1>2, <1>3, <1>4, <2>1
  <2>4. \A id \in S : then[id] > 0 <=> points[id] > 0
    <3> TAKE id \in S
    <3>1. points[id] \in Nat
      OBVIOUS
    <3>2. id = hit.id => points[id] > 0
      BY <1>3, <1>5
    <3> QED BY <1>1, <1>2, <3>1, <3>2
  <2>5. \A id \in S : then[id] > 0 <=> \E i \in DOMAIN next : next[i].id = id
    BY <1>3, <2>1, <2>4
  <2>6. Tallied(next, S, then)
    BY <2>1, <2>2, <2>3, <2>5 DEF Tallied
  <2> QED BY <2>6 DEF next, then, c
<1>6. CASE ~\E i \in DOMAIN fused : fused[i].id = hit.id
  <2>1. /\ next \in Seq(Entries(S)) /\ n \in Nat
        /\ DOMAIN fused = 1 .. n /\ DOMAIN next = 1 .. n + 1
        /\ \A i \in 1 .. n : next[i] = fused[i]
        /\ next[n + 1].id = hit.id /\ next[n + 1].score = c
    BY <1>3, <1>6, MergeNew
  <2> HIDE DEF next, then, c, n
  <2>2. points[hit.id] = 0
    <3>1. points[hit.id] \in Nat /\ ~(points[hit.id] > 0)
      BY <1>1, <1>3, <1>6
    <3> QED BY <3>1
  <2>3. \A i \in 1 .. n + 1 : i \in 1 .. n \/ i = n + 1
    BY <2>1
  <2>4. n + 1 \notin 1 .. n /\ n + 1 \in 1 .. n + 1 /\ 1 .. n \subseteq 1 .. n + 1
    BY <2>1
  <2>5. \A i \in 1 .. n : fused[i].id # hit.id
    BY <1>6, <2>1
  <2>6. \A i, j \in DOMAIN next : next[i].id = next[j].id => i = j
    BY <1>3, <2>1, <2>3, <2>5
  <2>7. \A i \in DOMAIN next : next[i].score = then[next[i].id]
    <3> TAKE i \in DOMAIN next
    <3>1. CASE i \in 1 .. n
      BY <1>2, <1>3, <1>4, <2>1, <2>5, <3>1
    <3>2. CASE i = n + 1
      BY <1>1, <1>2, <2>1, <2>2, <3>2
    <3> QED BY <2>1, <2>3, <3>1, <3>2
  <2>8. \A id \in S : then[id] > 0 <=> \E i \in DOMAIN next : next[i].id = id
    <3> TAKE id \in S
    <3>1. CASE id = hit.id
      BY <1>1, <1>2, <2>1, <2>2, <2>4, <3>1
    <3>2. CASE id # hit.id
      <4>1. then[id] > 0 <=> \E i \in DOMAIN fused : fused[i].id = id
        BY <1>2, <1>3, <3>2
      <4>2. (\E i \in DOMAIN fused : fused[i].id = id) => \E i \in DOMAIN next : next[i].id = id
        BY <2>1, <2>4
      <4>3. (\E i \in DOMAIN next : next[i].id = id) => \E i \in DOMAIN fused : fused[i].id = id
        <5> SUFFICES ASSUME NEW i \in DOMAIN next, next[i].id = id
                     PROVE  \E j \in DOMAIN fused : fused[j].id = id
          OBVIOUS
        <5>1. i \in 1 .. n
          BY <2>1, <2>3, <3>2
        <5> QED BY <2>1, <5>1
      <4> QED BY <4>1, <4>2, <4>3
    <3> QED BY <3>1, <3>2
  <2>9. Tallied(next, S, then)
    BY <2>1, <2>6, <2>7, <2>8 DEF Tallied
  <2> QED BY <2>9 DEF next, then, c
<1> QED BY <1>5, <1>6

\* The loop as a recursion on the hits merged.
LEMMA FusedStepwise ==
    ASSUME NEW S, NEW hits \in Seq(HitsOf(S))
    PROVE  \E f \in [0 .. Len(hits) -> Seq(Entries(S))] :
              /\ f[0] = <<>> /\ f[Len(hits)] = FoldLeft(Merge, <<>>, hits)
              /\ \A k \in 1 .. Len(hits) : f[k] = Merge(f[k - 1], hits[k])
<1> DEFINE V == Seq(Entries(S))
           n == Len(hits)
           g == [x \in V \X (1 .. n) |-> Merge(x[1], hits[x[2]])]
           Meets(it) == it = [s \in SUBSET DOMAIN hits |->
                                IF s = {} THEN <<>>
                                ELSE Merge(it[s \ {Max(s)}], hits[Max(s)])]
           it == CHOOSE it : Meets(it)
<1>1. n \in Nat /\ DOMAIN hits = 1 .. n /\ <<>> \in V
  OBVIOUS
<1>2. \A v \in V, i \in 1 .. n : g[<<v, i>>] = Merge(v, hits[i]) /\ g[<<v, i>>] \in V
  <2>1. \A i \in 1 .. n : hits[i] \in HitsOf(S)
    OBVIOUS
  <2> QED BY <2>1, MergeType
<1>3. g \in [V \X (1 .. n) -> V]
  BY <1>2
<1> HIDE DEF g, V, n
<1>4. \E f \in [SUBSET (1 .. n) -> V] : IsFold(f, n, <<>>, g)
  BY <1>1, <1>3, FoldExists
<1>5. PICK h \in [SUBSET (1 .. n) -> V] : \A s \in SUBSET (1 .. n) :
              h[s] = IF s = {} THEN <<>> ELSE g[<<h[s \ {Max(s)}], Max(s)>>]
  BY <1>4 DEF IsFold
<1>6. ASSUME NEW s \in SUBSET (1 .. n), s # {}
      PROVE  Max(s) \in 1 .. n /\ s \ {Max(s)} \in SUBSET (1 .. n)
  BY <1>1, <1>6, MaxOfPlaces
<1>7. Meets(h)
  <2>1. ASSUME NEW s \in SUBSET (1 .. n)
        PROVE  h[s] = IF s = {} THEN <<>> ELSE Merge(h[s \ {Max(s)}], hits[Max(s)])
    BY <1>2, <1>5, <1>6
  <2> QED BY <1>1, <1>5, <2>1
<1>8. Meets(it)
  <2> HIDE DEF Meets
  <2> QED BY <1>7
<1>9. FoldLeft(Merge, <<>>, hits) = it[DOMAIN hits]
  BY DEF FoldLeft, MapThenFoldSet
<1> HIDE DEF it
<1>10. it[{}] = <<>> /\ \A s \in SUBSET (1 .. n) : s # {} =>
            it[s] = Merge(it[s \ {Max(s)}], hits[Max(s)])
  BY <1>1, <1>8
<1> HIDE DEF Meets
<1>11. \A s \in SUBSET (1 .. n) : (s # {} /\ it[s \ {Max(s)}] \in V)
            => it[s] = g[<<it[s \ {Max(s)}], Max(s)>>]
  BY <1>2, <1>6, <1>10
<1>12. \E f \in [0 .. n -> V] : IsRecursion(f, n, <<>>, g) /\ EndsAs(f, n, it)
  <2>1. TakesLast(it, V, n, <<>>, g)
    BY <1>10, <1>11 DEF TakesLast
  <2> QED BY <1>1, <1>3, <2>1, FoldRuns
<1>13. PICK f \in [0 .. n -> V] : /\ f[0] = <<>> /\ f[n] = it[1 .. n]
                                  /\ \A k \in 1 .. n : f[k] = g[<<f[k - 1], k>>]
  BY <1>12 DEF IsRecursion, EndsAs
<1>14. ASSUME NEW k \in 1 .. n PROVE f[k] = Merge(f[k - 1], hits[k])
  <2>1. k - 1 \in 0 .. n
    BY <1>1
  <2> QED BY <1>2, <1>13, <2>1
<1> QED BY <1>1, <1>9, <1>13, <1>14 DEF V, n

\* The share of the first m places of a list.
Part(ids, m, id) == IF \E r \in 1 .. m : ids[r] = id THEN Contribution(PlaceOf(ids, id)) ELSE 0

LEMMA PartFacts ==
    ASSUME NEW ids, IsRanking(ids), NEW id
    PROVE  /\ Part(ids, 0, id) = 0 /\ Part(ids, Len(ids), id) = Share(ids, id)
           /\ \A m \in 0 .. Len(ids) : Part(ids, m, id) \in Nat
           /\ \A m \in 1 .. Len(ids) :
                Part(ids, m, id) = Part(ids, m - 1, id)
                                   + (IF ids[m] = id THEN Contribution(m) ELSE 0)
<1>1. DOMAIN ids = 1 .. Len(ids) /\ Len(ids) \in Nat
  BY DEF IsRanking
<1>2. Part(ids, 0, id) = 0
  BY DEF Part
<1>3. Part(ids, Len(ids), id) = Share(ids, id)
  BY <1>1 DEF Part, Share, PlaceOf
<1>4. \A r \in 1 .. Len(ids) : /\ r \in 1 .. MaxRank /\ PlaceOf(ids, ids[r]) = r
                               /\ Contribution(r) \in Nat
  BY <1>1, ShareAtRank, ContributionExact, FusionAssumption
<1>5. ASSUME NEW m \in 0 .. Len(ids) PROVE Part(ids, m, id) \in Nat
  <2>1. CASE \E r \in 1 .. m : ids[r] = id
    <3>1. PICK r \in 1 .. m : ids[r] = id
      BY <2>1
    <3>2. r \in 1 .. Len(ids)
      BY <1>1
    <3> QED BY <1>4, <3>1, <3>2 DEF Part
  <2>2. CASE ~\E r \in 1 .. m : ids[r] = id
    BY <2>2 DEF Part
  <2> QED BY <2>1, <2>2
<1>6. ASSUME NEW m \in 1 .. Len(ids)
      PROVE  Part(ids, m, id) = Part(ids, m - 1, id)
                                + (IF ids[m] = id THEN Contribution(m) ELSE 0)
  <2>1. /\ m - 1 \in 0 .. Len(ids) /\ m \in 1 .. m /\ m \notin 1 .. m - 1
        /\ \A r \in 1 .. m : r = m \/ r \in 1 .. m - 1
        /\ \A r \in 1 .. m - 1 : r \in 1 .. m /\ r \in 1 .. Len(ids) /\ r # m
    BY <1>1
  <2>2. CASE ids[m] = id
    <3>1. \A r \in 1 .. m - 1 : ids[r] # id
      <4> SUFFICES ASSUME NEW r \in 1 .. m - 1, ids[r] = id PROVE FALSE
        OBVIOUS
      <4>1. PlaceOf(ids, id) = m /\ PlaceOf(ids, id) = r
        BY <1>4, <2>1, <2>2
      <4> QED BY <2>1, <4>1
    <3>2. Part(ids, m - 1, id) = 0
      BY <3>1 DEF Part
    <3>3. Part(ids, m, id) = Contribution(m)
      BY <1>4, <2>1, <2>2 DEF Part
    <3>4. Contribution(m) \in Nat
      BY <1>4
    <3> QED BY <2>2, <3>2, <3>3, <3>4
  <2>3. CASE ids[m] # id
    <3>1. (\E r \in 1 .. m : ids[r] = id) <=> (\E r \in 1 .. m - 1 : ids[r] = id)
      BY <2>1, <2>3
    <3>2. Part(ids, m, id) = Part(ids, m - 1, id)
      BY <3>1 DEF Part
    <3>3. Part(ids, m - 1, id) \in Nat
      BY <1>5, <2>1
    <3> QED BY <2>3, <3>2, <3>3
  <2> QED BY <2>2, <2>3
<1> QED BY <1>2, <1>3, <1>5, <1>6

\* What any of the two searches found.
Found(bm25, vector) == ToSet(bm25) \cup ToSet(vector)

\* The points that the first k hits give to the passages of S.
Points(bm25, vector, k) ==
    [id \in Found(bm25, vector) |-> Part(bm25, IF k <= Len(bm25) THEN k ELSE Len(bm25), id)
                  + Part(vector, IF k <= Len(bm25) THEN 0 ELSE k - Len(bm25), id)]

HitList(bm25, vector) == Ranked("bm25", bm25) \o Ranked("vector", vector)

LEMMA IsSequence ==
    ASSUME NEW S, NEW n \in Nat, NEW s \in [1 .. n -> S]
    PROVE  s \in Seq(S) /\ Len(s) = n
OBVIOUS

LEMMA HitFacts ==
    ASSUME NEW bm25, NEW vector, IsRanking(bm25), IsRanking(vector)
    PROVE  /\ Len(bm25) \in Nat /\ Len(vector) \in Nat
           /\ HitList(bm25, vector) \in Seq(HitsOf(Found(bm25, vector)))
           /\ Len(HitList(bm25, vector)) = Len(bm25) + Len(vector)
           /\ \A k \in 1 .. Len(bm25) : /\ HitList(bm25, vector)[k].id = bm25[k]
                                        /\ HitList(bm25, vector)[k].rank = k
           /\ \A k \in Len(bm25) + 1 .. Len(bm25) + Len(vector) :
                /\ HitList(bm25, vector)[k].id = vector[k - Len(bm25)]
                /\ HitList(bm25, vector)[k].rank = k - Len(bm25)
<1> DEFINE S == Found(bm25, vector)
           r == Ranked("bm25", bm25)
           v == Ranked("vector", vector)
           m == Len(bm25)
           n == Len(vector)
<1>1. /\ DOMAIN bm25 = 1 .. m /\ m \in Nat /\ DOMAIN vector = 1 .. n /\ n \in Nat
      /\ m <= MaxRank /\ n <= MaxRank
  BY DEF IsRanking
<1>2. /\ \A i \in 1 .. m : bm25[i] \in S /\ i \in 1 .. MaxRank
      /\ \A i \in 1 .. n : vector[i] \in S /\ i \in 1 .. MaxRank
  BY <1>1, FusionAssumption DEF ToSet, Found
<1>3. /\ r = [i \in 1 .. m |-> [id |-> bm25[i], rank |-> i, source |-> "bm25"]]
      /\ v = [i \in 1 .. n |-> [id |-> vector[i], rank |-> i, source |-> "vector"]]
  BY <1>1 DEF Ranked
<1>4. \A i \in 1 .. m : [id |-> bm25[i], rank |-> i, source |-> "bm25"] \in HitsOf(S)
  BY <1>2 DEF HitsOf
<1>5. \A i \in 1 .. n : [id |-> vector[i], rank |-> i, source |-> "vector"] \in HitsOf(S)
  BY <1>2 DEF HitsOf
<1> HIDE DEF r, v, m, n
<1>6. /\ r \in Seq(HitsOf(S)) /\ Len(r) = m
      /\ v \in Seq(HitsOf(S)) /\ Len(v) = n
      /\ \A i \in 1 .. m : r[i].id = bm25[i] /\ r[i].rank = i
      /\ \A i \in 1 .. n : v[i].id = vector[i] /\ v[i].rank = i
  <2> DEFINE R(i) == [id |-> bm25[i], rank |-> i, source |-> "bm25"]
             W(i) == [id |-> vector[i], rank |-> i, source |-> "vector"]
  <2>1. \A i : R(i).id = bm25[i] /\ R(i).rank = i /\ W(i).id = vector[i] /\ W(i).rank = i
    OBVIOUS
  <2>2. \A i \in 1 .. m : R(i) \in HitsOf(S)
    BY <1>4
  <2>3. \A i \in 1 .. n : W(i) \in HitsOf(S)
    BY <1>5
  <2>4. r = [i \in 1 .. m |-> R(i)] /\ v = [i \in 1 .. n |-> W(i)]
    BY <1>3
  <2> HIDE DEF R, W
  <2>5. r \in Seq(HitsOf(S)) /\ Len(r) = m
    <3>1. r \in [1 .. m -> HitsOf(S)]
      BY <2>2, <2>4
    <3> QED BY <1>1, <3>1, IsSequence
  <2>6. v \in Seq(HitsOf(S)) /\ Len(v) = n
    <3>1. v \in [1 .. n -> HitsOf(S)]
      BY <2>3, <2>4
    <3> QED BY <1>1, <3>1, IsSequence
  <2> QED BY <2>1, <2>4, <2>5, <2>6
<1>7. /\ r \o v \in Seq(HitsOf(S)) /\ Len(r \o v) = m + n
      /\ \A i \in 1 .. m + n : (r \o v)[i] = IF i <= m THEN r[i] ELSE v[i - m]
  <2> HIDE DEF S
  <2>1. r \o v \in Seq(HitsOf(S)) /\ Len(r \o v) = Len(r) + Len(v)
    BY <1>6, ConcatProperties
  <2>2. \A i \in 1 .. Len(r) + Len(v) : (r \o v)[i] = IF i <= Len(r) THEN r[i] ELSE v[i - Len(r)]
    BY <1>6, ConcatProperties
  <2> QED BY <1>6, <2>1, <2>2
<1>8. \A k \in 1 .. m : k \in 1 .. m + n /\ k <= m
  BY <1>1
<1>9. \A k \in m + 1 .. m + n : k \in 1 .. m + n /\ ~(k <= m) /\ k - m \in 1 .. n
  BY <1>1
<1>10. \A k \in 1 .. m : (r \o v)[k].id = bm25[k] /\ (r \o v)[k].rank = k
  BY <1>6, <1>7, <1>8
<1>11. \A k \in m + 1 .. m + n : (r \o v)[k].id = vector[k - m] /\ (r \o v)[k].rank = k - m
  BY <1>6, <1>7, <1>9
<1> QED BY <1>1, <1>7, <1>10, <1>11, Zenon DEF HitList, r, v, m, n

LEMMA PointsFacts ==
    ASSUME NEW bm25, NEW vector, IsRanking(bm25), IsRanking(vector)
    PROVE  /\ \A k \in 0 .. Len(bm25) + Len(vector) : Points(bm25, vector, k) \in [Found(bm25, vector) -> Nat]
           /\ \A id \in Found(bm25, vector) : Points(bm25, vector, 0)[id] = 0
           /\ Points(bm25, vector, Len(bm25) + Len(vector))
              = [id \in Found(bm25, vector) |-> Score(bm25, vector, id)]
           /\ \A k \in 1 .. Len(bm25) + Len(vector) :
                Points(bm25, vector, k)
                = Scored(Points(bm25, vector, k - 1), HitList(bm25, vector)[k])
<1> DEFINE S == Found(bm25, vector)
           hits == HitList(bm25, vector)
           m == Len(bm25)
           v == Len(vector)
           n == m + v
           P(k) == Points(bm25, vector, k)
<1>1. /\ m \in Nat /\ v \in Nat /\ hits \in Seq(HitsOf(S)) /\ Len(hits) = n
      /\ \A k \in 1 .. m : hits[k].id = bm25[k] /\ hits[k].rank = k
      /\ \A k \in m + 1 .. n : hits[k].id = vector[k - m] /\ hits[k].rank = k - m
  <2>1. m \in Nat /\ v \in Nat
    BY HitFacts
  <2>2. hits \in Seq(HitsOf(S)) /\ Len(hits) = n
    BY HitFacts
  <2>3. \A k \in 1 .. m : hits[k].id = bm25[k] /\ hits[k].rank = k
    BY HitFacts
  <2>4. \A k \in m + 1 .. n : hits[k].id = vector[k - m] /\ hits[k].rank = k - m
    BY HitFacts
  <2> QED BY <2>1, <2>2, <2>3, <2>4
<1>2. \A id : /\ Part(bm25, 0, id) = 0 /\ Part(bm25, m, id) = Share(bm25, id)
              /\ \A i \in 0 .. m : Part(bm25, i, id) \in Nat
              /\ \A i \in 1 .. m : Part(bm25, i, id)
                    = Part(bm25, i - 1, id) + (IF bm25[i] = id THEN Contribution(i) ELSE 0)
  BY PartFacts
<1>3. \A id : /\ Part(vector, 0, id) = 0 /\ Part(vector, v, id) = Share(vector, id)
              /\ \A i \in 0 .. v : Part(vector, i, id) \in Nat
              /\ \A i \in 1 .. v : Part(vector, i, id)
                    = Part(vector, i - 1, id) + (IF vector[i] = id THEN Contribution(i) ELSE 0)
  BY PartFacts
<1> HIDE DEF hits, m, v
<1>4. ASSUME NEW k \in 0 .. n, NEW id \in S
      PROVE  /\ P(k)[id] = (IF k <= m THEN Part(bm25, k, id)
                            ELSE Part(bm25, m, id) + Part(vector, k - m, id))
             /\ P(k)[id] \in Nat
  <2>1. CASE k <= m
    <3>1. k \in 0 .. m
      BY <1>1, <2>1
    <3>2. P(k)[id] = Part(bm25, k, id) + Part(vector, 0, id)
      BY <2>1 DEF Points, m
    <3> QED BY <1>2, <1>3, <2>1, <3>1, <3>2
  <2>2. CASE ~(k <= m)
    <3>1. k - m \in 0 .. v /\ m \in 0 .. m
      BY <1>1, <2>2
    <3>2. P(k)[id] = Part(bm25, m, id) + Part(vector, k - m, id)
      BY <2>2 DEF Points, m
    <3>3. Part(bm25, m, id) \in Nat /\ Part(vector, k - m, id) \in Nat
      BY <1>2, <1>3, <3>1
    <3> QED BY <2>2, <3>2, <3>3
  <2> QED BY <2>1, <2>2
<1>5. \A k \in 0 .. n : P(k) \in [S -> Nat]
  <2> TAKE k \in 0 .. n
  <2>1. P(k) = [id \in S |-> P(k)[id]]
    BY DEF Points
  <2> HIDE DEF P
  <2> QED BY <1>4, <2>1
<1>6. \A id \in S : P(0)[id] = 0
  <2>1. 0 \in 0 .. n /\ 0 <= m
    BY <1>1
  <2> QED BY <1>2, <1>4, <2>1
<1>7. P(n) = [id \in S |-> Score(bm25, vector, id)]
  <2>1. \A id \in S : P(n)[id] = Share(bm25, id) + Share(vector, id)
    <3> TAKE id \in S
    <3>1. n \in 0 .. n /\ m \in 0 .. m /\ v \in 0 .. v
      BY <1>1
    <3>2. P(n)[id] = (IF n <= m THEN Part(bm25, n, id)
                      ELSE Part(bm25, m, id) + Part(vector, n - m, id))
      BY <1>4, <3>1
    <3> HIDE DEF P
    <3>3. Part(bm25, m, id) \in Nat
      BY <1>2, <3>1
    <3>4. CASE v = 0
      <4>1. n = m /\ n <= m
        BY <1>1, <3>4
      <4>2. P(n)[id] = Part(bm25, m, id)
        BY <3>2, <4>1
      <4>3. Share(vector, id) = 0 /\ Share(bm25, id) = Part(bm25, m, id)
        BY <1>2, <1>3, <3>4
      <4> QED BY <3>3, <4>2, <4>3
    <3>5. CASE v # 0
      <4>1. ~(n <= m) /\ n - m = v
        BY <1>1, <3>5
      <4> QED BY <1>2, <1>3, <3>2, <4>1
    <3> QED BY <3>4, <3>5
  <2>2. P(n) \in [S -> Nat]
    <3>1. n \in 0 .. n
      BY <1>1
    <3> QED BY <1>5, <3>1
  <2> HIDE DEF P
  <2> QED BY <2>1, <2>2 DEF Score
<1>8. ASSUME NEW k \in 1 .. n
      PROVE  P(k) = Scored(P(k - 1), hits[k])
  <2>1. k \in 0 .. n /\ k - 1 \in 0 .. n
    BY <1>1
  <2>2. hits[k].id \in S
    <3>1. k \in 1 .. Len(hits)
      BY <1>1
    <3>2. hits[k] \in HitsOf(S)
      BY <1>1, <3>1
    <3> QED BY <3>2 DEF HitsOf
  <2>3. ASSUME NEW id \in S
        PROVE  P(k)[id] = IF id = hits[k].id THEN P(k - 1)[id] + Contribution(hits[k].rank)
                                             ELSE P(k - 1)[id]
    <3>1. /\ P(k)[id] = (IF k <= m THEN Part(bm25, k, id)
                         ELSE Part(bm25, m, id) + Part(vector, k - m, id))
          /\ P(k - 1)[id] = (IF k - 1 <= m THEN Part(bm25, k - 1, id)
                             ELSE Part(bm25, m, id) + Part(vector, (k - 1) - m, id))
          /\ P(k - 1)[id] \in Nat
      BY <1>4, <2>1
    <3> HIDE DEF P
    <3>2. CASE k <= m
      <4>1. k \in 1 .. m /\ k - 1 <= m
        BY <1>1, <3>2
      <4>2. Part(bm25, k, id) = Part(bm25, k - 1, id) + (IF bm25[k] = id THEN Contribution(k) ELSE 0)
        BY <1>2, <4>1
      <4>3. hits[k].id = bm25[k] /\ hits[k].rank = k
        BY <1>1, <4>1
      <4> QED BY <3>1, <3>2, <4>1, <4>2, <4>3
    <3>3. CASE ~(k <= m)
      <4>1. /\ k \in m + 1 .. n /\ k - m \in 1 .. v /\ (k - m) - 1 = (k - 1) - m
            /\ (k - 1 <= m) => (k - 1 = m /\ (k - m) - 1 = 0)
            /\ m \in 0 .. m /\ (k - m) - 1 \in 0 .. v
        <5>1. m \in Nat /\ v \in Nat /\ k \in 1 .. m + v /\ k > m
          BY <1>1, <3>3
        <5>2. k \in m + 1 .. n /\ k - m \in 1 .. v /\ (k - m) - 1 = (k - 1) - m
          BY <5>1
        <5>3. m \in 0 .. m /\ (k - m) - 1 \in 0 .. v
          BY <5>1
        <5>4. (k - 1 <= m) => (k - 1 = m /\ (k - m) - 1 = 0)
          BY <5>1
        <5> QED BY <5>2, <5>3, <5>4
      <4>2. Part(vector, k - m, id) = Part(vector, (k - m) - 1, id)
                                      + (IF vector[k - m] = id THEN Contribution(k - m) ELSE 0)
        BY <1>3, <4>1
      <4>3. hits[k].id = vector[k - m] /\ hits[k].rank = k - m
        BY <1>1, <4>1
      <4>4. P(k - 1)[id] = Part(bm25, m, id) + Part(vector, (k - m) - 1, id)
        <5>1. Part(bm25, m, id) \in Nat
          BY <1>2, <4>1
        <5>2. CASE k - 1 <= m
          <6>1. Part(vector, (k - m) - 1, id) = 0
            BY <1>3, <4>1, <5>2
          <6>2. P(k - 1)[id] = Part(bm25, m, id)
            BY <3>1, <4>1, <5>2
          <6> QED BY <5>1, <6>1, <6>2
        <5>3. CASE ~(k - 1 <= m)
          BY <3>1, <4>1, <5>3
        <5> QED BY <5>2, <5>3
      <4>5. P(k)[id] = Part(bm25, m, id) + Part(vector, k - m, id)
        BY <3>1, <3>3
      <4>6. Part(bm25, m, id) \in Nat /\ Part(vector, (k - m) - 1, id) \in Nat
        BY <1>2, <1>3, <4>1
      <4>7. CASE id = hits[k].id
        <5>1. k - m \in 1 .. MaxRank
          <6>1. v <= MaxRank
            BY DEF IsRanking, v
          <6> QED BY <1>1, <4>1, <6>1, FusionAssumption
        <5>2. Contribution(k - m) \in Nat
          BY <5>1, ContributionExact, FusionAssumption
        <5>3. Part(vector, k - m, id) = Part(vector, (k - m) - 1, id) + Contribution(k - m)
          BY <4>2, <4>3, <4>7
        <5> QED BY <4>3, <4>4, <4>5, <4>6, <4>7, <5>2, <5>3
      <4>8. CASE id # hits[k].id
        <5>1. Part(vector, k - m, id) = Part(vector, (k - m) - 1, id)
          BY <4>2, <4>3, <4>6, <4>8
        <5> QED BY <4>4, <4>5, <4>8, <5>1
      <4> QED BY <4>7, <4>8
    <3> QED BY <3>2, <3>3
  <2>4. P(k) \in [S -> Nat] /\ P(k - 1) \in [S -> Nat]
    BY <1>5, <2>1
  <2> HIDE DEF P
  <2> QED BY <2>2, <2>3, <2>4 DEF Scored
<1> QED BY <1>5, <1>6, <1>7, <1>8, Zenon DEF hits, m, v

\* The loop lists each passage found once, with the sum of its shares.
LEMMA LoopTallies ==
    ASSUME NEW bm25, NEW vector, IsRanking(bm25), IsRanking(vector)
    PROVE  Tallied(FoldLeft(Merge, <<>>, HitList(bm25, vector)),
                   Found(bm25, vector), [id \in Found(bm25, vector) |-> Score(bm25, vector, id)])
<1> DEFINE S == Found(bm25, vector)
           hits == HitList(bm25, vector)
           n == Len(bm25) + Len(vector)
           P(k) == Points(bm25, vector, k)
<1>1. Len(bm25) \in Nat /\ Len(vector) \in Nat /\ hits \in Seq(HitsOf(S)) /\ Len(hits) = n
  BY HitFacts
<1>2. n \in Nat
  BY <1>1
<1>3. PICK f \in [0 .. n -> Seq(Entries(S))] :
         /\ f[0] = <<>> /\ f[n] = FoldLeft(Merge, <<>>, hits)
         /\ \A k \in 1 .. n : f[k] = Merge(f[k - 1], hits[k])
  <2> HIDE DEF hits, n
  <2> QED BY <1>1, FusedStepwise
<1>4. /\ \A k \in 0 .. n : P(k) \in [S -> Nat]
      /\ \A id \in S : P(0)[id] = 0
      /\ P(n) = [id \in S |-> Score(bm25, vector, id)]
      /\ \A k \in 1 .. n : P(k) = Scored(P(k - 1), hits[k])
  <2>1. \A k \in 0 .. n : P(k) \in [S -> Nat]
    BY PointsFacts
  <2>2. \A id \in S : P(0)[id] = 0
    BY PointsFacts
  <2>3. P(n) = [id \in S |-> Score(bm25, vector, id)]
    BY PointsFacts
  <2>4. \A k \in 1 .. n : P(k) = Scored(P(k - 1), hits[k])
    BY PointsFacts
  <2> QED BY <2>1, <2>2, <2>3, <2>4
<1> DEFINE T == {k \in 0 .. n : Tallied(f[k], S, P(k))}
<1> HIDE DEF hits, n, P
<1>5. 0 \in T
  <2>1. <<>> \in Seq(Entries(S)) /\ DOMAIN <<>> = {}
    OBVIOUS
  <2>2. \A i : i \notin DOMAIN <<>>
    BY <2>1
  <2>3. \A id \in S : ~(P(0)[id] > 0)
    BY <1>4
  <2>4. Tallied(<<>>, S, P(0))
    BY <2>1, <2>2, <2>3, Zenon DEF Tallied
  <2> QED BY <1>2, <1>3, <2>4
<1>6. ASSUME NEW k \in 0 .. n - 1, k \in T PROVE k + 1 \in T
  <2>1. k + 1 \in 1 .. n /\ (k + 1) - 1 = k /\ k \in 0 .. n /\ k + 1 \in 0 .. n
    BY <1>2
  <2>2. hits[k + 1] \in HitsOf(S)
    BY <1>1, <2>1
  <2>3. Tallied(f[k], S, P(k)) /\ P(k) \in [S -> Nat]
    BY <1>4, <1>6, <2>1
  <2>4. Tallied(Merge(f[k], hits[k + 1]), S,
                Scored(P(k), hits[k + 1]))
    BY <2>2, <2>3, MergeTallies
  <2>5. f[k + 1] = Merge(f[k], hits[k + 1])
    BY <1>3, <2>1
  <2>6. P(k + 1) = Scored(P(k), hits[k + 1])
    BY <1>4, <2>1
  <2>7. Tallied(f[k + 1], S, P(k + 1))
    BY <2>4, <2>5, <2>6, Zenon
  <2> QED BY <2>1, <2>7
<1> HIDE DEF T
<1>61. \A k \in 0 .. n - 1 : k \in T => k + 1 \in T
  BY <1>6
<1>62. n \in 0 .. n
  BY <1>2
<1>7. n \in 0 .. n /\ \A k \in 0 .. n : k \in T
  BY <1>2, <1>5, <1>61, <1>62, UpTo, Zenon
<1>8. Tallied(f[n], S, P(n))
  BY <1>7 DEF T
<1> QED BY <1>3, <1>4, <1>8, Zenon DEF hits

-----------------------------------------------------------------------------
(* The order of the fused list.                                             *)

LEMMA FoundScores ==
    ASSUME NEW bm25, NEW vector, IsRanking(bm25), IsRanking(vector),
           NEW id \in Found(bm25, vector)
    PROVE  Score(bm25, vector, id) \in Nat /\ Score(bm25, vector, id) > 0
<1>1. ASSUME NEW ids, IsRanking(ids)
      PROVE  Share(ids, id) \in Nat /\ (id \in ToSet(ids) => Share(ids, id) > 0)
  <2>1. CASE id \in ToSet(ids)
    <3>1. PICK r \in 1 .. MaxRank : Share(ids, id) = Contribution(r)
      BY <1>1, <2>1, ShareOfSome
    <3> QED BY <3>1, ContributionExact, FusionAssumption
  <2>2. CASE id \notin ToSet(ids)
    BY <2>2, ShareOfNone
  <2> QED BY <2>1, <2>2
<1>2. Share(bm25, id) \in Nat /\ (id \in ToSet(bm25) => Share(bm25, id) > 0)
  BY <1>1
<1>3. Share(vector, id) \in Nat /\ (id \in ToSet(vector) => Share(vector, id) > 0)
  BY <1>1
<1> QED BY <1>2, <1>3 DEF Score, Found

\* The fused list: what was found, each passage once, best first.
LEMMA FusedFacts ==
    ASSUME NEW bm25, NEW vector, IsRanking(bm25), IsRanking(vector)
    PROVE  LET fused == ReciprocalRankFusion(bm25, vector) IN
           /\ fused \in Seq(Entries(Found(bm25, vector)))
           /\ \A i, j \in 1 .. Len(fused) : fused[i].id = fused[j].id => i = j
           /\ \A i \in 1 .. Len(fused) : /\ fused[i].id \in Found(bm25, vector)
                                         /\ fused[i].score = Score(bm25, vector, fused[i].id)
           /\ \A id \in Found(bm25, vector) : \E i \in 1 .. Len(fused) : fused[i].id = id
           /\ \A i, j \in 1 .. Len(fused) : i < j => fused[j].score <= fused[i].score
<1> DEFINE S == Found(bm25, vector)
           e == FoldLeft(Merge, <<>>, HitList(bm25, vector))
           out == SortedByScore(e)
           n == Len(e)
           F == [id \in S |-> Score(bm25, vector, id)]
<1>1. Tallied(e, S, F)
  BY LoopTallies, Zenon
<1>2. /\ e \in Seq(Entries(S)) /\ n \in Nat /\ DOMAIN e = 1 .. n
      /\ \A i, j \in DOMAIN e : e[i].id = e[j].id => i = j
      /\ \A i \in DOMAIN e : e[i].score = F[e[i].id]
      /\ \A id \in S : F[id] > 0 <=> \E i \in DOMAIN e : e[i].id = id
  <2> HIDE DEF e, F, S
  <2> QED BY <1>1 DEF Tallied
<1>3. \A id \in S : F[id] = Score(bm25, vector, id) /\ F[id] > 0
  BY FoundScores
<1>4. ReciprocalRankFusion(bm25, vector) = out
  BY DEF ReciprocalRankFusion, HitList
<1> HIDE DEF e, F, S
<1>5. /\ out \in Seq(Entries(S)) /\ Len(out) = n
      /\ \A l, m \in 1 .. n : l < m => out[m].score <= out[l].score
  BY <1>2, SortFacts
<1>6. PICK f \in [1 .. n -> 1 .. n] :
         /\ \A m \in 1 .. n : out[m] = e[f[m]]
         /\ \A l, m \in 1 .. n : f[l] = f[m] => l = m
         /\ \A i \in 1 .. n : \E m \in 1 .. n : f[m] = i
  BY <1>2, SortFacts
<1> HIDE DEF out, n
<1>7. \A i \in 1 .. n : e[i].id \in S
  BY <1>2, EntryScores
<1>71. \A i \in 1 .. n : f[i] \in 1 .. n /\ f[i] \in DOMAIN e /\ out[i] = e[f[i]]
  BY <1>2, <1>6
<1>8. ASSUME NEW i \in 1 .. n, NEW j \in 1 .. n, out[i].id = out[j].id PROVE i = j
  <2>1. PICK k, m \in 1 .. n : k = f[i] /\ m = f[j]
    BY <1>71
  <2>2. k \in DOMAIN e /\ m \in DOMAIN e /\ e[k].id = e[m].id
    BY <1>8, <1>71, <2>1
  <2>3. k = m
    BY <1>2, <2>2
  <2> QED BY <1>6, <2>1, <2>3
<1>9. ASSUME NEW i \in 1 .. n
      PROVE  out[i].id \in S /\ out[i].score = Score(bm25, vector, out[i].id)
  <2>1. PICK k \in 1 .. n : k = f[i]
    BY <1>71
  <2>2. k \in DOMAIN e /\ out[i] = e[k] /\ e[k].id \in S
    BY <1>7, <1>71, <2>1
  <2>3. e[k].score = F[e[k].id]
    BY <1>2, <2>2
  <2> QED BY <1>3, <2>2, <2>3
<1>10. ASSUME NEW id \in S PROVE \E i \in 1 .. n : out[i].id = id
  <2>1. PICK k \in DOMAIN e : e[k].id = id
    BY <1>2, <1>3
  <2>2. PICK i \in 1 .. n : f[i] = k
    BY <1>2, <1>6, <2>1
  <2> QED BY <1>71, <2>1, <2>2
<1> QED BY <1>4, <1>5, <1>8, <1>9, <1>10 DEF S

LEMMA HybridFacts ==
    ASSUME NEW bm25, NEW vector, IsRanking(bm25), IsRanking(vector), NEW outK \in Nat
    PROVE  LET out   == Hybrid(bm25, vector, outK)
               fused == ReciprocalRankFusion(bm25, vector)
           IN  /\ Len(out) \in Nat /\ DOMAIN out = 1 .. Len(out)
               /\ Len(fused) \in Nat /\ Len(out) <= Len(fused)
               /\ Len(out) < outK => Len(out) = Len(fused)
               /\ \A i \in 1 .. Len(out) : out[i] = fused[i]
<1> DEFINE fused == ReciprocalRankFusion(bm25, vector)
           n == Len(fused)
           c == IF outK < n THEN outK ELSE n
           out == SubSeq(fused, 1, c)
           E == Entries(Found(bm25, vector))
<1>1. fused \in Seq(E)
  BY FusedFacts
<1>2. n \in Nat
  BY <1>1
<1>3. Hybrid(bm25, vector, outK) = out
  BY DEF Hybrid
<1> HIDE DEF fused, n
<1>4. c \in Nat /\ c <= n /\ (c < outK => c = n)
  BY <1>2
<1> HIDE DEF c, E
<1>5. DOMAIN out = 1 .. c /\ Len(out) = c /\ \A i \in 1 .. c : out[i] = fused[i]
  <2>1. fused = [i \in 1 .. n |-> fused[i]] /\ DOMAIN fused = 1 .. n
    BY <1>1 DEF n
  <2>2. /\ out \in Seq(E) /\ Len(out) = c
        /\ \A i \in 1 .. c : out[i] = fused[i]
    BY <1>1, <1>2, <1>4 DEF n
  <2> QED BY <2>2
<1> QED BY <1>2, <1>3, <1>4, <1>5 DEF n, fused

\* A passage that scores more than one that is kept is kept ahead of it.
LEMMA HigherIsAhead ==
    ASSUME NEW bm25, NEW vector, IsRanking(bm25), IsRanking(vector), NEW outK \in Nat,
           NEW i \in DOMAIN Hybrid(bm25, vector, outK), NEW id \in Found(bm25, vector),
           Score(bm25, vector, Hybrid(bm25, vector, outK)[i].id) < Score(bm25, vector, id)
    PROVE  \E j \in 1 .. i - 1 : Hybrid(bm25, vector, outK)[j].id = id
<1> DEFINE fused == ReciprocalRankFusion(bm25, vector)
           out == Hybrid(bm25, vector, outK)
           n == Len(fused)
           c == Len(out)
           score(x) == Score(bm25, vector, x)
<1>1. /\ c \in Nat /\ DOMAIN out = 1 .. c /\ n \in Nat /\ c <= n
      /\ \A j \in 1 .. c : out[j] = fused[j]
  BY HybridFacts
<1>2. /\ \A j \in 1 .. n : /\ fused[j].id \in Found(bm25, vector)
                           /\ fused[j].score = score(fused[j].id)
      /\ \A j, m \in 1 .. n : j < m => fused[m].score <= fused[j].score
      /\ \E j \in 1 .. n : fused[j].id = id
  BY FusedFacts
<1>3. score(out[i].id) < score(id)
  OBVIOUS
<1>4. \A x \in Found(bm25, vector) : score(x) \in Nat
  BY FoundScores
<1> HIDE DEF fused, out, n, c, score
<1>5. PICK j \in 1 .. n : fused[j].id = id
  BY <1>2
<1>6. i \in 1 .. c /\ i \in 1 .. n /\ out[i] = fused[i]
  BY <1>1 DEF out
<1>7. /\ fused[j].score = score(id) /\ fused[i].score = score(out[i].id)
      /\ score(id) \in Nat /\ score(out[i].id) \in Nat
  BY <1>2, <1>4, <1>5, <1>6
<1>8. ~(i < j)
  <2> SUFFICES ASSUME i < j PROVE FALSE
    OBVIOUS
  <2>1. fused[j].score <= fused[i].score
    BY <1>2, <1>5, <1>6
  <2> QED BY <1>3, <1>7, <2>1
<1>9. i # j
  BY <1>3, <1>5, <1>6, <1>7
<1>10. j \in 1 .. i - 1 /\ j \in 1 .. c
  BY <1>1, <1>5, <1>6, <1>8, <1>9
<1>11. out[j].id = id
  BY <1>1, <1>5, <1>10
<1> QED BY <1>10, <1>11 DEF out

\* A list in which nothing is twice has as many members as places.
LEMMA DistinctCount ==
    ASSUME NEW n \in Nat, NEW R, NEW f \in Bijection(1 .. n, R)
    PROVE  Cardinality(R) = n
<1>2. IsFiniteSet(1 .. n) /\ Cardinality(1 .. n) = n
  <2> DEFINE c == Cardinality(1 .. n)
  <2>1. IsFiniteSet(1 .. n) /\ c = IF 1 > n THEN 0 ELSE n - 1 + 1
    BY FS_Interval
  <2> HIDE DEF c
  <2>2. c = n
    BY <2>1
  <2> QED BY <2>1, <2>2 DEF c
<1>3. Cardinality(1 .. n) = Cardinality(R)
  <2>1. ExistsBijection(1 .. n, R)
    BY DEF ExistsBijection
  <2> QED BY <1>2, <2>1, FS_Bijection
<1> QED BY <1>2, <1>3

\* The hybrid list is the best of what was found, for any lists of the two
\* searches and any cut (hybrid.py:31-87).
THEOREM HybridIsAlwaysBest ==
    ASSUME NEW bm25, NEW vector, IsRanking(bm25), IsRanking(vector), NEW outK \in Nat
    PROVE  HybridIsBest(bm25, vector, outK)
<1> DEFINE fused == ReciprocalRankFusion(bm25, vector)
           out == Hybrid(bm25, vector, outK)
           n == Len(fused)
           c == Len(out)
           S == ToSet(bm25) \cup ToSet(vector)
           kept == {out[i].id : i \in DOMAIN out}
           score(x) == Score(bm25, vector, x)
<1>1. /\ c \in Nat /\ DOMAIN out = 1 .. c /\ n \in Nat /\ c <= n
      /\ c < outK => c = n
      /\ \A j \in 1 .. c : out[j] = fused[j]
  BY HybridFacts
<1>2. /\ \A i, j \in 1 .. n : fused[i].id = fused[j].id => i = j
      /\ \A j \in 1 .. n : fused[j].id \in S /\ fused[j].score = score(fused[j].id)
      /\ \A id \in S : \E i \in 1 .. n : fused[i].id = id
      /\ \A j, m \in 1 .. n : j < m => fused[m].score <= fused[j].score
  <2>1. /\ \A i, j \in 1 .. n : fused[i].id = fused[j].id => i = j
        /\ \A j \in 1 .. n : fused[j].id \in Found(bm25, vector) /\ fused[j].score = score(fused[j].id)
        /\ \A id \in Found(bm25, vector) : \E i \in 1 .. n : fused[i].id = id
        /\ \A j, m \in 1 .. n : j < m => fused[m].score <= fused[j].score
    BY FusedFacts
  <2>2. Found(bm25, vector) = S
    BY DEF Found
  <2> HIDE DEF fused, n, S, score
  <2> QED BY <2>1, <2>2
<1> HIDE DEF fused, out, n, c, S, score
<1>3. \A i \in 1 .. c : i \in 1 .. n /\ out[i] = fused[i]
  BY <1>1
<1>4. kept \subseteq S
  BY <1>1, <1>2, <1>3
<1>5. Cardinality(kept) = c
  <2> DEFINE f == [i \in 1 .. c |-> out[i].id]
  <2>1. \A i, j \in 1 .. c : f[i] = f[j] => i = j
    BY <1>2, <1>3
  <2>2. f \in [1 .. c -> kept] /\ \A id \in kept : \E i \in 1 .. c : f[i] = id
    BY <1>1
  <2> HIDE DEF f, kept
  <2>3. f \in Bijection(1 .. c, kept)
    BY <2>1, <2>2 DEF Bijection, Injection, Surjection, IsInjective
  <2> QED BY <1>1, <2>3, DistinctCount
<1>6. c < outK => kept = S
  <2> SUFFICES ASSUME c < outK PROVE S \subseteq kept
    BY <1>4
  <2>1. c = n
    BY <1>1
  <2> QED BY <1>1, <1>2, <1>3, <2>1
<1>7. \A i \in 1 .. c : out[i].score = score(out[i].id)
  BY <1>2, <1>3
<1>8. ASSUME NEW i \in 1 .. c, NEW id \in S \ {out[j].id : j \in 1 .. i}
      PROVE  score(id) <= out[i].score
  <2>1. PICK m \in 1 .. n : fused[m].id = id
    BY <1>2
  <2>2. m \notin 1 .. i
    <3> SUFFICES ASSUME m \in 1 .. i PROVE FALSE
      OBVIOUS
    <3>1. m \in 1 .. c
      BY <1>1
    <3>2. out[m].id = id
      BY <1>3, <2>1, <3>1
    <3> QED BY <3>2
  <2>3. i < m
    BY <1>1, <2>1, <2>2
  <2>4. fused[m].score <= fused[i].score
    BY <1>2, <1>3, <2>1, <2>3
  <2> QED BY <1>2, <1>3, <2>1, <2>4
<1> QED BY <1>1, <1>4, <1>5, <1>6, <1>7, <1>8 DEF HybridIsBest, out, c, S, score

\* What both searches found is kept ahead of what one found (hybrid.py:31-87,
\* test_hybrid_merge.py:33).
THEOREM BothAlwaysAhead ==
    ASSUME MaxRank < K + 2,
           NEW bm25, NEW vector, IsRanking(bm25), IsRanking(vector), NEW outK \in Nat
    PROVE  BothAheadOfOne(bm25, vector, outK)
<1> DEFINE out == Hybrid(bm25, vector, outK)
           both == FoundByBoth(bm25, vector)
<1> SUFFICES ASSUME NEW i \in DOMAIN out, out[i].id \notin both, NEW id \in both
             PROVE  \E j \in 1 .. i - 1 : out[j].id = id
  BY Zenon DEF BothAheadOfOne
<1>1. id \in Found(bm25, vector)
  BY DEF FoundByBoth, Found
<1>2. Score(bm25, vector, out[i].id) < Score(bm25, vector, id)
  BY BothScoreMore
<1> QED BY <1>1, <1>2, HigherIsAhead

\* What no search ranks ahead of another passage is behind it (hybrid.py:40-56).
THEOREM DominatedAlwaysBehind ==
    ASSUME NEW bm25, NEW vector, IsRanking(bm25), IsRanking(vector), NEW outK \in Nat
    PROVE  DominatedIsBehindOf(bm25, vector, outK)
<1> DEFINE out == Hybrid(bm25, vector, outK)
<1> SUFFICES ASSUME NEW i \in DOMAIN out, NEW a \in ToSet(bm25) \cup ToSet(vector),
                    a # out[i].id, NoWorse(bm25, a, out[i].id), NoWorse(vector, a, out[i].id)
             PROVE  \E j \in 1 .. i - 1 : out[j].id = a
  BY Zenon DEF DominatedIsBehindOf
<1>1. out[i].id \in ToSet(bm25) \cup ToSet(vector)
  <2>1. i \in 1 .. Len(out) /\ out[i] = ReciprocalRankFusion(bm25, vector)[i]
        /\ i \in 1 .. Len(ReciprocalRankFusion(bm25, vector))
    BY HybridFacts
  <2> QED BY <2>1, FusedFacts DEF Found
<1>2. Score(bm25, vector, out[i].id) < Score(bm25, vector, a)
  BY <1>1, DominatedScoresLess
<1>3. a \in Found(bm25, vector)
  BY DEF Found
<1> QED BY <1>2, <1>3, HigherIsAhead

-----------------------------------------------------------------------------
(* Headers.                                                                 *)

\* The threshold of _drop_repeated_headers is never below two fifths of the
\* pages, and never above a majority of them (cleaner.py:77).
THEOREM ThresholdBounds ==
    ASSUME NEW n \in Nat, n >= 4
    PROVE  /\ Threshold(n) \in Nat
           /\ 5 * Threshold(n) >= 2 * n
           /\ \A c \in Nat : 2 * c > n => c >= Threshold(n)
BY DEF Threshold

\* A page loses at most one line, which heads two fifths of the pages, and it
\* loses one if it has one that heads more than half (cleaner.py:52-93).
THEOREM DroppedLineIsCommon ==
    ASSUME NEW Lines, NEW pages \in Seq(Seq(Lines)), Len(pages) >= 4,
           NEW p \in DOMAIN pages
    PROVE  LET kept == DropRepeatedHeaders(pages)[p] IN
           \/ /\ kept = pages[p]
              /\ \A i \in Written(pages[p]) :
                    2 * Cardinality(HeadedBy(pages, Strip(pages[p][i]))) <= Len(pages)
           \/ \E i \in Written(pages[p]) :
                 /\ kept = RemoveAt(pages[p], i)
                 /\ 5 * Cardinality(HeadedBy(pages, Strip(pages[p][i])))
                        >= 2 * Len(pages)
<1> DEFINE page == pages[p]
           hits == {i \in DOMAIN page : IsRepeated(pages, page[i])}
           count(i) == Cardinality(HeadedBy(pages, Strip(page[i])))
           n == Len(pages)
<1>1. DropRepeatedHeaders(pages)[p] = DropFirst(pages, page)
  BY DEF DropRepeatedHeaders
<1>2. /\ Threshold(n) \in Nat /\ 5 * Threshold(n) >= 2 * n
      /\ \A c \in Nat : 2 * c > n => c >= Threshold(n)
  BY ThresholdBounds
<1>3. \A i : count(i) \in Nat
  <2>1. \A line : HeadedBy(pages, line) \subseteq 1 .. n
    BY DEF HeadedBy
  <2>2. IsFiniteSet(1 .. n)
    BY FS_Interval
  <2>3. \A line : IsFiniteSet(HeadedBy(pages, line))
    BY <2>1, <2>2, FS_Subset
  <2>4. \A line : Cardinality(HeadedBy(pages, line)) \in Nat
    BY <2>3, FS_CardinalityType
  <2> QED BY <2>4
<1>4. \A i \in DOMAIN page : i \in hits <=> i \in Written(page) /\ count(i) >= Threshold(n)
  BY DEF IsRepeated, Written
<1>5. CASE hits = {}
  <2>1. DropFirst(pages, page) = page
    BY <1>5 DEF DropFirst
  <2>2. \A i \in Written(page) : 2 * count(i) <= n
    <3> SUFFICES ASSUME NEW i \in Written(page) PROVE 2 * count(i) <= n
      OBVIOUS
    <3>1. i \in DOMAIN page /\ ~(count(i) >= Threshold(n))
      BY <1>4, <1>5 DEF Written
    <3>2. count(i) \in Nat
      BY <1>3
    <3> HIDE DEF count, hits, page, n
    <3> QED BY <1>2, <3>1, <3>2 DEF n
  <2> QED BY <1>1, <2>1, <2>2
<1>6. CASE hits # {}
  <2> DEFINE i == CHOOSE k \in hits : \A j \in hits : k <= j
  <2>1. hits \in SUBSET Nat
    OBVIOUS
  <2>2. \E k \in hits : \A j \in hits : k <= j
    <3> HIDE DEF hits
    <3> QED BY <1>6, <2>1, LeastExists
  <2>3. i \in hits
    BY <2>2
  <2>4. DropFirst(pages, page) = RemoveAt(page, i)
    BY <1>6 DEF DropFirst
  <2>5. i \in Written(page) /\ count(i) >= Threshold(n) /\ count(i) \in Nat
    BY <1>3, <1>4, <2>3
  <2>6. 5 * count(i) >= 2 * n
    <3> HIDE DEF count, i, n
    <3> QED BY <1>2, <2>5 DEF n
  <2> QED BY <1>1, <2>4, <2>5, <2>6
<1> QED BY <1>5, <1>6

-----------------------------------------------------------------------------
(* Headers that are in the majority.                                        *)

LEMMA RemoveAtFacts ==
    ASSUME NEW S, NEW s \in Seq(S), NEW i \in 1 .. Len(s)
    PROVE  /\ RemoveAt(s, i) \in Seq(S) /\ Len(RemoveAt(s, i)) = Len(s) - 1
           /\ \A j \in 1 .. Len(s) - 1 :
                RemoveAt(s, i)[j] = IF j < i THEN s[j] ELSE s[j + 1]
<1> DEFINE a == SubSeq(s, 1, i - 1)
           b == SubSeq(s, i + 1, Len(s))
           n == Len(s)
<1>1. n \in Nat /\ i \in 1 .. n
  OBVIOUS
<1>2. a \in Seq(S) /\ Len(a) = i - 1 /\ \A j \in 1 .. i - 1 : a[j] = s[j]
  BY <1>1
<1>3. b \in Seq(S) /\ Len(b) = n - i /\ \A j \in 1 .. n - i : b[j] = s[i + j]
  BY <1>1
<1>4. RemoveAt(s, i) = a \o b
  BY DEF RemoveAt
<1> HIDE DEF a, b, n
<1>5. /\ a \o b \in Seq(S) /\ Len(a \o b) = (i - 1) + (n - i)
      /\ \A j \in 1 .. (i - 1) + (n - i) :
            (a \o b)[j] = IF j <= i - 1 THEN a[j] ELSE b[j - (i - 1)]
  <2>1. a \o b \in Seq(S) /\ Len(a \o b) = Len(a) + Len(b)
    BY <1>2, <1>3, ConcatProperties
  <2>2. \A j \in 1 .. Len(a) + Len(b) : (a \o b)[j] = IF j <= Len(a) THEN a[j] ELSE b[j - Len(a)]
    BY <1>2, <1>3, ConcatProperties
  <2> QED BY <1>2, <1>3, <2>1, <2>2
<1>6. Len(a \o b) = n - 1
  BY <1>1, <1>5
<1>7. ASSUME NEW j \in 1 .. n - 1 PROVE (a \o b)[j] = IF j < i THEN s[j] ELSE s[j + 1]
  <2>1. j \in 1 .. (i - 1) + (n - i)
    BY <1>1
  <2>2. CASE j < i
    <3>1. j \in 1 .. i - 1 /\ j <= i - 1
      BY <1>1, <2>2
    <3> QED BY <1>2, <1>5, <2>1, <2>2, <3>1
  <2>3. CASE ~(j < i)
    <3>1. /\ ~(j <= i - 1) /\ j - (i - 1) \in 1 .. n - i
          /\ i + (j - (i - 1)) = j + 1
      BY <1>1, <2>3
    <3> QED BY <1>3, <1>5, <2>1, <2>3, <3>1
  <2> QED BY <2>2, <2>3
<1> QED BY <1>4, <1>5, <1>6, <1>7 DEF n

\* The places at which line is on the page.
At(page, line) == {j \in DOMAIN page : Strip(page[j]) = line}

\* Taking a line off a page takes one copy of it.
LEMMA OneTimeLess ==
    ASSUME NEW Lines, NEW page \in Seq(Lines), NEW i \in DOMAIN page
    PROVE  LET line == Strip(page[i]) IN
           Cardinality(At(RemoveAt(page, i), line)) = Cardinality(At(page, line)) - 1
<1> DEFINE line == Strip(page[i])
           rest == RemoveAt(page, i)
           n == Len(page)
           A == At(page, line) \ {i}
           B == At(rest, line)
           f == [j \in B |-> IF j < i THEN j ELSE j + 1]
<1>1. n \in Nat /\ DOMAIN page = 1 .. n /\ i \in 1 .. n
  OBVIOUS
<1>2. /\ DOMAIN rest = 1 .. n - 1
      /\ \A j \in 1 .. n - 1 : rest[j] = IF j < i THEN page[j] ELSE page[j + 1]
  <2>1. rest \in Seq(Lines) /\ Len(rest) = n - 1
    BY <1>1, RemoveAtFacts
  <2>2. DOMAIN rest = 1 .. n - 1
    <3> HIDE DEF rest, n
    <3> QED BY <1>1, <2>1
  <2> QED BY <1>1, <2>2, RemoveAtFacts
<1> HIDE DEF rest, line, n
<1>3. /\ \A j : j \in A <=> j \in 1 .. n /\ j # i /\ Strip(page[j]) = line
      /\ \A j : j \in B <=> j \in 1 .. n - 1 /\ Strip(rest[j]) = line
  BY <1>1, <1>2 DEF At
<1> HIDE DEF A, B
<1>4. f \in [B -> A]
  <2> SUFFICES ASSUME NEW j \in B PROVE (IF j < i THEN j ELSE j + 1) \in A
    OBVIOUS
  <2>1. j \in 1 .. n - 1 /\ Strip(rest[j]) = line
    BY <1>3
  <2>2. CASE j < i
    <3>1. j \in 1 .. n /\ j # i /\ rest[j] = page[j]
      BY <1>1, <1>2, <2>1, <2>2
    <3> QED BY <1>3, <2>1, <2>2, <3>1
  <2>3. CASE ~(j < i)
    <3>1. j + 1 \in 1 .. n /\ j + 1 # i /\ rest[j] = page[j + 1]
      BY <1>1, <1>2, <2>1, <2>3
    <3> QED BY <1>3, <2>1, <2>3, <3>1
  <2> QED BY <2>2, <2>3
<1>5. \A j \in B : j \in 1 .. n - 1
  BY <1>3
<1>6. \A j, k \in B : f[j] = f[k] => j = k
  BY <1>1, <1>5
<1>7. ASSUME NEW k \in A PROVE \E j \in B : f[j] = k
  <2>1. k \in 1 .. n /\ k # i /\ Strip(page[k]) = line
    BY <1>3
  <2>2. CASE k < i
    <3>1. k \in 1 .. n - 1 /\ rest[k] = page[k]
      BY <1>1, <1>2, <2>1, <2>2
    <3>2. k \in B
      BY <1>3, <2>1, <3>1
    <3> QED BY <2>2, <3>2
  <2>3. CASE ~(k < i)
    <3>1. k - 1 \in 1 .. n - 1 /\ ~(k - 1 < i) /\ (k - 1) + 1 = k
      BY <1>1, <2>1, <2>3
    <3>2. rest[k - 1] = page[k]
      BY <1>2, <3>1
    <3>3. k - 1 \in B
      BY <1>3, <2>1, <3>1, <3>2
    <3>4. f[k - 1] = k
      BY <3>1, <3>3
    <3> QED BY <3>3, <3>4
  <2> QED BY <2>2, <2>3
<1> HIDE DEF f
<1>8. f \in Bijection(B, A)
  BY <1>4, <1>6, <1>7 DEF Bijection, Injection, Surjection, IsInjective
<1>9. IsFiniteSet(B) /\ IsFiniteSet(At(page, line))
  <2>1. IsFiniteSet(1 .. n) /\ IsFiniteSet(1 .. n - 1)
    BY <1>1, FS_Interval
  <2>2. B \subseteq 1 .. n - 1 /\ At(page, line) \subseteq 1 .. n
    BY <1>1, <1>5 DEF At
  <2> QED BY <2>1, <2>2, FS_Subset
<1>10. Cardinality(A) = Cardinality(B)
  <2>1. ExistsBijection(B, A)
    BY <1>8 DEF ExistsBijection
  <2> QED BY <1>9, <2>1, FS_Bijection
<1>11. i \in At(page, line)
  BY <1>1 DEF At, line
<1>12. Cardinality(A) = Cardinality(At(page, line)) - 1
  BY <1>9, <1>11, FS_RemoveElement DEF A
<1> QED BY <1>10, <1>12 DEF B, rest, line

\* A line that heads the majority of the pages goes once from each page that
\* it heads (cleaner.py:52-93).
THEOREM MajorityHeaderAlwaysDropped ==
    ASSUME NEW Lines, NEW pages \in Seq(Seq(Lines))
    PROVE  MajorityHeaderDropped(pages)
<1> DEFINE n == Len(pages)
<1> SUFFICES ASSUME NEW line, 2 * Cardinality(HeadedBy(pages, line)) > n, n >= 4,
                    NEW p \in HeadedBy(pages, line)
             PROVE  Cardinality(At(DropRepeatedHeaders(pages)[p], line))
                    = Cardinality(At(pages[p], line)) - 1
  BY Zenon DEF MajorityHeaderDropped, At
<1> DEFINE page == pages[p]
           hits == {i \in DOMAIN page : IsRepeated(pages, page[i])}
           c == Cardinality(HeadedBy(pages, line))
<1>1. n \in Nat /\ p \in DOMAIN pages /\ page \in Seq(Lines)
  BY DEF HeadedBy
<1>2. PICK i \in Written(page) : (\A j \in Written(page) : i <= j) /\ Strip(page[i]) = line
  BY DEF HeadedBy
<1>3. c \in Nat
  <2>1. HeadedBy(pages, line) \subseteq 1 .. n
    BY DEF HeadedBy
  <2>2. IsFiniteSet(1 .. n)
    BY <1>1, FS_Interval
  <2> QED BY <2>1, <2>2, FS_Subset, FS_CardinalityType
<1>4. c >= Threshold(n)
  <2>1. n \in Nat /\ n >= 4 /\ 2 * c > n
    BY <1>1
  <2> HIDE DEF c, n
  <2> QED BY <1>3, <2>1, ThresholdBounds
<1>5. i \in hits
  BY <1>2, <1>4 DEF Written, IsRepeated
<1>6. \A j \in hits : j \in Written(page) /\ j \in Nat
  BY <1>1 DEF Written, IsRepeated
<1> HIDE DEF hits
<1>7. (CHOOSE k \in hits : \A j \in hits : k <= j) = i
  <2>1. \A j \in hits : i <= j
    BY <1>2, <1>6
  <2>2. ASSUME NEW k \in hits, \A j \in hits : k <= j PROVE k = i
    <3>1. k <= i /\ i <= k /\ i \in Nat /\ k \in Nat
      BY <1>5, <1>6, <2>1, <2>2
    <3> QED BY <3>1
  <2> QED BY <1>5, <2>1, <2>2
<1>8. DropRepeatedHeaders(pages)[p] = RemoveAt(page, i)
  <2>1. DropRepeatedHeaders(pages)[p] = DropFirst(pages, page)
    BY <1>1 DEF DropRepeatedHeaders
  <2>2. DropFirst(pages, page) = RemoveAt(page, i)
    BY <1>5, <1>7 DEF DropFirst, hits
  <2> QED BY <2>1, <2>2
<1>9. i \in DOMAIN page
  BY <1>2 DEF Written
<1>10. Cardinality(At(RemoveAt(page, i), Strip(page[i]))) = Cardinality(At(page, Strip(page[i]))) - 1
  BY <1>1, <1>9, OneTimeLess
<1> QED BY <1>2, <1>8, <1>10

-----------------------------------------------------------------------------
(* The text of a page.                                                      *)

\* f is what the loop of Keep has kept after each turn.
KeepRun(f, T, s, S) ==
    /\ f \in [0 .. Len(s) -> Seq(T)]
    /\ f[0] = <<>> /\ f[Len(s)] = Keep(s, S)
    /\ \A k \in 1 .. Len(s) :
          f[k] = IF s[k] \in S THEN Append(f[k - 1], s[k]) ELSE f[k - 1]

LEMMA KeepStepwise ==
    ASSUME NEW T, NEW S, NEW s \in Seq(T)
    PROVE  \E f : KeepRun(f, T, s, S)
<1> DEFINE V == Seq(T)
           n == Len(s)
           g == [x \in V \X (1 .. n) |-> IF s[x[2]] \in S THEN Append(x[1], s[x[2]]) ELSE x[1]]
           Meets(it) == it = [t \in SUBSET DOMAIN s |->
                                IF t = {} THEN <<>>
                                ELSE IF s[Max(t)] \in S
                                     THEN Append(it[t \ {Max(t)}], s[Max(t)])
                                     ELSE it[t \ {Max(t)}]]
           it == CHOOSE it : Meets(it)
<1>1. n \in Nat /\ DOMAIN s = 1 .. n /\ <<>> \in V
  OBVIOUS
<1>2. \A v \in V, i \in 1 .. n :
          /\ g[<<v, i>>] = IF s[i] \in S THEN Append(v, s[i]) ELSE v
          /\ g[<<v, i>>] \in V
  OBVIOUS
<1>3. g \in [V \X (1 .. n) -> V]
  BY <1>2
<1> HIDE DEF g, V, n
<1>4. \E f \in [SUBSET (1 .. n) -> V] : IsFold(f, n, <<>>, g)
  BY <1>1, <1>3, FoldExists
<1>5. PICK h \in [SUBSET (1 .. n) -> V] : \A t \in SUBSET (1 .. n) :
              h[t] = IF t = {} THEN <<>> ELSE g[<<h[t \ {Max(t)}], Max(t)>>]
  BY <1>4 DEF IsFold
<1>6. ASSUME NEW t \in SUBSET (1 .. n), t # {}
      PROVE  Max(t) \in 1 .. n /\ t \ {Max(t)} \in SUBSET (1 .. n)
  BY <1>1, <1>6, MaxOfPlaces
<1>7. Meets(h)
  <2>1. ASSUME NEW t \in SUBSET (1 .. n)
        PROVE  h[t] = IF t = {} THEN <<>>
                      ELSE IF s[Max(t)] \in S
                           THEN Append(h[t \ {Max(t)}], s[Max(t)])
                           ELSE h[t \ {Max(t)}]
    BY <1>2, <1>5, <1>6
  <2> QED BY <1>1, <1>5, <2>1
<1>8. Meets(it)
  <2> HIDE DEF Meets
  <2> QED BY <1>7
<1>9. Keep(s, S) = it[DOMAIN s]
  BY DEF Keep, FoldLeft, MapThenFoldSet
<1> HIDE DEF it
<1>10. it[{}] = <<>> /\ \A t \in SUBSET (1 .. n) : t # {} =>
            it[t] = IF s[Max(t)] \in S THEN Append(it[t \ {Max(t)}], s[Max(t)])
                    ELSE it[t \ {Max(t)}]
  BY <1>1, <1>8
<1> HIDE DEF Meets
<1>11. \A t \in SUBSET (1 .. n) : (t # {} /\ it[t \ {Max(t)}] \in V)
            => it[t] = g[<<it[t \ {Max(t)}], Max(t)>>]
  BY <1>2, <1>6, <1>10
<1>12. \E f \in [0 .. n -> V] : IsRecursion(f, n, <<>>, g) /\ EndsAs(f, n, it)
  <2>1. TakesLast(it, V, n, <<>>, g)
    BY <1>10, <1>11 DEF TakesLast
  <2> QED BY <1>1, <1>3, <2>1, FoldRuns
<1>13. PICK f \in [0 .. n -> V] : /\ f[0] = <<>> /\ f[n] = it[1 .. n]
                                  /\ \A k \in 1 .. n : f[k] = g[<<f[k - 1], k>>]
  BY <1>12 DEF IsRecursion, EndsAs
<1>14. ASSUME NEW k \in 1 .. n
       PROVE  f[k] = IF s[k] \in S THEN Append(f[k - 1], s[k]) ELSE f[k - 1]
  <2>1. k - 1 \in 0 .. n
    BY <1>1
  <2> QED BY <1>2, <1>13, <2>1
<1>15. KeepRun(f, T, s, S)
  BY <1>1, <1>9, <1>13, <1>14 DEF V, n, KeepRun
<1> QED BY <1>15

LEMMA ConcatAppend ==
    ASSUME NEW T, NEW s \in Seq(T), NEW t \in Seq(T), NEW x \in T
    PROVE  s \o Append(t, x) = Append(s \o t, x)
<1>1. <<x>> \in Seq(T) /\ s \o t \in Seq(T)
  OBVIOUS
<1>2. Append(t, x) = t \o <<x>> /\ Append(s \o t, x) = (s \o t) \o <<x>>
  BY <1>1, AppendIsConcat
<1>3. s \o (t \o <<x>>) = (s \o t) \o <<x>>
  BY <1>1, ConcatAssociative
<1> QED BY <1>2, <1>3

\* What is kept of two lists, one after the other.
LEMMA KeepConcat ==
    ASSUME NEW T, NEW S, NEW s \in Seq(T), NEW t \in Seq(T)
    PROVE  Keep(s \o t, S) = Keep(s, S) \o Keep(t, S)
<1> DEFINE m == Len(s)
           n == Len(t)
           r == s \o t
<1>1. m \in Nat /\ n \in Nat /\ r \in Seq(T) /\ Len(r) = m + n
  BY ConcatProperties
<1>2. /\ \A i \in 1 .. m : r[i] = s[i]
      /\ \A i \in 1 .. n : r[m + i] = t[i]
  BY <1>1
<1>a. PICK f : KeepRun(f, T, s, S)
  BY KeepStepwise
<1>b. PICK g : KeepRun(g, T, t, S)
  BY KeepStepwise
<1> HIDE DEF m, n, r
<1>c. PICK h : KeepRun(h, T, r, S)
  BY <1>1, KeepStepwise
<1>3. /\ f \in [0 .. m -> Seq(T)] /\ f[0] = <<>> /\ f[m] = Keep(s, S)
      /\ \A k \in 1 .. m : f[k] = IF s[k] \in S THEN Append(f[k - 1], s[k]) ELSE f[k - 1]
  BY <1>a DEF KeepRun, m
<1>4. /\ g \in [0 .. n -> Seq(T)] /\ g[0] = <<>> /\ g[n] = Keep(t, S)
      /\ \A k \in 1 .. n : g[k] = IF t[k] \in S THEN Append(g[k - 1], t[k]) ELSE g[k - 1]
  BY <1>b DEF KeepRun, n
<1>5. /\ h \in [0 .. m + n -> Seq(T)] /\ h[0] = <<>> /\ h[m + n] = Keep(r, S)
      /\ \A k \in 1 .. m + n : h[k] = IF r[k] \in S THEN Append(h[k - 1], r[k]) ELSE h[k - 1]
  BY <1>1, <1>c DEF KeepRun
<1> DEFINE A == {k \in 0 .. m : h[k] = f[k]}
           B == {k \in 0 .. n : h[m + k] = f[m] \o g[k]}
<1>6. \A k \in 0 .. m : k \in A
  <2>1. 0 \in A
    BY <1>1, <1>3, <1>5
  <2>2. ASSUME NEW k \in 0 .. m - 1, k \in A PROVE k + 1 \in A
    <3>1. k + 1 \in 1 .. m /\ k + 1 \in 1 .. m + n /\ (k + 1) - 1 = k /\ k + 1 \in 0 .. m
      BY <1>1
    <3> QED BY <1>2, <1>3, <1>5, <2>2, <3>1
  <2> HIDE DEF A
  <2> QED BY <1>1, <2>1, <2>2, UpTo
<1>7. \A k \in 0 .. n : k \in B
  <2>1. f[m] \in Seq(T) /\ \A k \in 0 .. n : g[k] \in Seq(T)
    <3>1. m \in 0 .. m
      BY <1>1
    <3>2. f[m] \in Seq(T)
      BY <1>3, <3>1
    <3>3. \A k \in 0 .. n : g[k] \in Seq(T)
      BY <1>4
    <3> QED BY <3>2, <3>3
  <2>2. 0 \in B
    <3>1. f[m] \o <<>> = f[m]
      BY <2>1, ConcatEmptySeq
    <3>2. m + 0 = m /\ m \in 0 .. m /\ 0 \in 0 .. n
      BY <1>1
    <3>3. h[m] = f[m]
      BY <1>6, <3>2
    <3> QED BY <1>4, <3>1, <3>2, <3>3
  <2>3. ASSUME NEW k \in 0 .. n - 1, k \in B PROVE k + 1 \in B
    <3>1. /\ k + 1 \in 1 .. n /\ m + (k + 1) \in 1 .. m + n /\ (k + 1) - 1 = k
          /\ (m + (k + 1)) - 1 = m + k /\ k + 1 \in 0 .. n /\ k \in 0 .. n
      BY <1>1
    <3>2. r[m + (k + 1)] = t[k + 1] /\ t[k + 1] \in T
      BY <1>1, <1>2, <3>1 DEF n
    <3>3. f[m] \o Append(g[k], t[k + 1]) = Append(f[m] \o g[k], t[k + 1])
      <4>1. f[m] \in Seq(T) /\ g[k] \in Seq(T) /\ t[k + 1] \in T
        BY <2>1, <3>1, <3>2
      <4>2. \A a, b \in Seq(T), x \in T : a \o Append(b, x) = Append(a \o b, x)
        BY ConcatAppend
      <4> QED BY <4>1, <4>2
    <3>4. h[m + (k + 1)] = IF t[k + 1] \in S THEN Append(h[m + k], t[k + 1]) ELSE h[m + k]
      BY <1>5, <3>1, <3>2
    <3>5. g[k + 1] = IF t[k + 1] \in S THEN Append(g[k], t[k + 1]) ELSE g[k]
      BY <1>4, <3>1
    <3>6. h[m + k] = f[m] \o g[k]
      BY <2>3
    <3>7. h[m + (k + 1)] = f[m] \o g[k + 1]
      BY <3>3, <3>4, <3>5, <3>6
    <3> QED BY <3>1, <3>7
  <2> HIDE DEF B
  <2> QED BY <1>1, <2>2, <2>3, UpTo
<1>8. h[m + n] = f[m] \o g[n]
  <2>1. n \in 0 .. n
    BY <1>1
  <2> HIDE DEF A
  <2> QED BY <1>7, <2>1
<1> QED BY <1>3, <1>4, <1>5, <1>8 DEF r

\* What is kept of a list of nothing, of one member, and of members not meant.
LEMMA KeepFew ==
    ASSUME NEW T, NEW S
    PROVE  /\ Keep(<<>>, S) = <<>>
           /\ \A s \in Seq(T) : Keep(s, S) \in Seq(T)
           /\ \A s \in Seq(T) : (\A i \in DOMAIN s : s[i] \notin S) => Keep(s, S) = <<>>
<1>1. Keep(<<>>, S) = <<>>
  <2>1. <<>> \in Seq(T) /\ Len(<<>>) = 0
    OBVIOUS
  <2>2. PICK f : KeepRun(f, T, <<>>, S)
    BY <2>1, KeepStepwise
  <2> QED BY <2>1, <2>2 DEF KeepRun
<1>2. ASSUME NEW s \in Seq(T)
      PROVE  /\ Keep(s, S) \in Seq(T)
             /\ (\A i \in DOMAIN s : s[i] \notin S) => Keep(s, S) = <<>>
  <2> DEFINE n == Len(s)
  <2>1. n \in Nat /\ DOMAIN s = 1 .. n
    OBVIOUS
  <2>a. PICK f : KeepRun(f, T, s, S)
    BY KeepStepwise
  <2>2. /\ f \in [0 .. n -> Seq(T)] /\ f[0] = <<>> /\ f[n] = Keep(s, S)
        /\ \A k \in 1 .. n : f[k] = IF s[k] \in S THEN Append(f[k - 1], s[k]) ELSE f[k - 1]
    BY <2>a DEF KeepRun
  <2> HIDE DEF n
  <2>3. Keep(s, S) \in Seq(T)
    BY <2>1, <2>2
  <2>4. ASSUME \A i \in DOMAIN s : s[i] \notin S PROVE Keep(s, S) = <<>>
    <3> DEFINE A == {k \in 0 .. n : f[k] = <<>>}
    <3>1. 0 \in A
      BY <2>1, <2>2
    <3>2. ASSUME NEW k \in 0 .. n - 1, k \in A PROVE k + 1 \in A
      <4>1. k + 1 \in 1 .. n /\ (k + 1) - 1 = k /\ k + 1 \in 0 .. n
        BY <2>1
      <4> QED BY <2>1, <2>2, <2>4, <3>2, <4>1
    <3> HIDE DEF A
    <3>3. n \in A
      BY <2>1, <3>1, <3>2, UpTo
    <3> QED BY <2>2, <3>3 DEF A
  <2> QED BY <2>3, <2>4
<1> QED BY <1>1, <1>2

\* f is what FlattenSeq has joined after each list.
FlatRun(f, T, ss) ==
    /\ f \in [0 .. Len(ss) -> Seq(T)]
    /\ f[0] = <<>> /\ f[Len(ss)] = FlattenSeq(ss)
    /\ \A k \in 1 .. Len(ss) : f[k] = f[k - 1] \o ss[k]

LEMMA FlattenStepwise ==
    ASSUME NEW T, NEW ss \in Seq(Seq(T))
    PROVE  \E f : FlatRun(f, T, ss)
<1> DEFINE V == Seq(T)
           n == Len(ss)
           g == [x \in V \X (1 .. n) |-> x[1] \o ss[x[2]]]
           Meets(it) == it = [i \in 1 .. Len(ss) |-> IF i = 1 THEN ss[i] ELSE it[i - 1] \o ss[i]]
           it == CHOOSE it : Meets(it)
<1>1. n \in Nat /\ <<>> \in V /\ \A i \in 1 .. n : ss[i] \in V
  OBVIOUS
<1>2. \A v \in V, i \in 1 .. n : g[<<v, i>>] = v \o ss[i] /\ g[<<v, i>>] \in V
  <2>1. \A v, w \in V : v \o w \in V
    BY ConcatProperties
  <2> HIDE DEF V, n
  <2> QED BY <1>1, <2>1
<1>3. g \in [V \X (1 .. n) -> V]
  BY <1>2
<1> HIDE DEF g, V, n
<1>4. PICK f \in [0 .. n -> V] : IsRecursion(f, n, <<>>, g)
  BY <1>1, <1>3, RecursionExists
<1>5. /\ f[0] = <<>>
      /\ \A k \in 1 .. n : f[k] = f[k - 1] \o ss[k]
  <2>1. ASSUME NEW k \in 1 .. n PROVE f[k] = f[k - 1] \o ss[k]
    <3>1. k - 1 \in 0 .. n
      BY <1>1
    <3> QED BY <1>2, <1>4, <3>1 DEF IsRecursion
  <2> QED BY <1>4, <2>1 DEF IsRecursion
<1>6. FlattenSeq(ss) = f[n]
  <2>1. CASE n = 0
    <3>1. ss = <<>>
      BY <2>1 DEF n
    <3> QED BY <1>5, <2>1, <3>1 DEF FlattenSeq
  <2>2. CASE n # 0
    <3> DEFINE e == [i \in 1 .. n |-> f[i]]
    <3>1. Meets(e)
      <4>1. ASSUME NEW i \in 1 .. n
            PROVE  e[i] = IF i = 1 THEN ss[i] ELSE e[i - 1] \o ss[i]
        <5>1. CASE i = 1
          <6>1. f[1] = f[0] \o ss[1] /\ <<>> \o ss[1] = ss[1]
            <7>1. ss[1] \in Seq(T) /\ 1 \in 1 .. n /\ 1 - 1 = 0
              BY <1>1, <5>1 DEF V
            <7>2. <<>> \o ss[1] = ss[1]
              BY <7>1, ConcatEmptySeq
            <7> QED BY <1>5, <7>1, <7>2
          <6> QED BY <1>5, <5>1, <6>1
        <5>2. CASE i # 1
          <6>1. i - 1 \in 1 .. n
            BY <1>1, <5>2
          <6> QED BY <1>5, <5>2, <6>1
        <5> QED BY <5>1, <5>2
      <4> QED BY <4>1 DEF n
    <3> HIDE DEF e
    <3>2. Meets(it)
      <4> HIDE DEF Meets
      <4> QED BY <3>1
    <3>3. FlattenSeq(ss) = it[n]
      BY <2>2 DEF FlattenSeq, n
    <3> HIDE DEF it
    <3>4. \A i \in 1 .. n : it[i] = IF i = 1 THEN ss[i] ELSE it[i - 1] \o ss[i]
      BY <3>2 DEF n
    <3>5. \A i \in 1 .. n : e[i] = IF i = 1 THEN ss[i] ELSE e[i - 1] \o ss[i]
      BY <3>1 DEF n
    <3> HIDE DEF Meets
    <3> DEFINE A == {k \in 0 .. n : k # 0 => it[k] = e[k]}
    <3>6. 0 \in A
      BY <1>1
    <3>7. ASSUME NEW k \in 0 .. n - 1, k \in A PROVE k + 1 \in A
      <4>1. k + 1 \in 1 .. n /\ (k + 1) - 1 = k /\ (k + 1 = 1 <=> k = 0) /\ k + 1 \in 0 .. n
        BY <1>1
      <4> QED BY <3>4, <3>5, <3>7, <4>1
    <3> HIDE DEF A
    <3>8. n \in A
      <4>1. \A k \in 0 .. n : k \in A
        BY <1>1, <3>6, <3>7, UpTo
      <4>2. n \in 0 .. n
        BY <1>1
      <4> QED BY <4>1, <4>2
    <3>9. e[n] = f[n]
      BY <1>1, <2>2 DEF e
    <3> QED BY <2>2, <3>3, <3>8, <3>9 DEF A
  <2> QED BY <2>1, <2>2
<1>7. FlatRun(f, T, ss)
  BY <1>5, <1>6 DEF FlatRun, n, V
<1> QED BY <1>7

LEMMA FlattenConcat ==
    ASSUME NEW T, NEW s \in Seq(Seq(T)), NEW t \in Seq(Seq(T))
    PROVE  FlattenSeq(s \o t) = FlattenSeq(s) \o FlattenSeq(t)
<1> DEFINE m == Len(s)
           n == Len(t)
           r == s \o t
<1>1. m \in Nat /\ n \in Nat /\ r \in Seq(Seq(T)) /\ Len(r) = m + n
  <2> DEFINE U == Seq(T)
  <2>1. s \in Seq(U) /\ t \in Seq(U)
    OBVIOUS
  <2> HIDE DEF U
  <2>2. r \in Seq(U) /\ Len(r) = m + n
    BY <2>1, ConcatProperties
  <2>3. m \in Nat /\ n \in Nat
    BY <2>1
  <2> QED BY <2>2, <2>3 DEF U
<1>2. /\ \A i \in 1 .. m : r[i] = s[i]
      /\ \A i \in 1 .. n : r[m + i] = t[i] /\ t[i] \in Seq(T)
  BY <1>1
<1>a. PICK f : FlatRun(f, T, s)
  BY FlattenStepwise
<1>b. PICK g : FlatRun(g, T, t)
  BY FlattenStepwise
<1> HIDE DEF m, n, r
<1>c. PICK h : FlatRun(h, T, r)
  BY <1>1, FlattenStepwise
<1>3. /\ f \in [0 .. m -> Seq(T)] /\ f[0] = <<>> /\ f[m] = FlattenSeq(s)
      /\ \A k \in 1 .. m : f[k] = f[k - 1] \o s[k]
  BY <1>a DEF FlatRun, m
<1>4. /\ g \in [0 .. n -> Seq(T)] /\ g[0] = <<>> /\ g[n] = FlattenSeq(t)
      /\ \A k \in 1 .. n : g[k] = g[k - 1] \o t[k]
  BY <1>b DEF FlatRun, n
<1>5. /\ h \in [0 .. m + n -> Seq(T)] /\ h[0] = <<>> /\ h[m + n] = FlattenSeq(r)
      /\ \A k \in 1 .. m + n : h[k] = h[k - 1] \o r[k]
  BY <1>1, <1>c DEF FlatRun
<1> DEFINE A == {k \in 0 .. m : h[k] = f[k]}
           B == {k \in 0 .. n : h[m + k] = f[m] \o g[k]}
<1>6. \A k \in 0 .. m : k \in A
  <2>1. 0 \in A
    BY <1>1, <1>3, <1>5
  <2>2. ASSUME NEW k \in 0 .. m - 1, k \in A PROVE k + 1 \in A
    <3>1. k + 1 \in 1 .. m /\ k + 1 \in 1 .. m + n /\ (k + 1) - 1 = k /\ k + 1 \in 0 .. m
      BY <1>1
    <3>2. f[k + 1] = f[k] \o s[k + 1] /\ h[k + 1] = h[k] \o s[k + 1]
      BY <1>2, <1>3, <1>5, <3>1
    <3>3. h[k] = f[k]
      BY <2>2
    <3> QED BY <3>1, <3>2, <3>3
  <2> HIDE DEF A
  <2> QED BY <1>1, <2>1, <2>2, UpTo
<1>7. \A k \in 0 .. n : k \in B
  <2>1. f[m] \in Seq(T) /\ \A k \in 0 .. n : g[k] \in Seq(T)
    <3>1. m \in 0 .. m
      BY <1>1
    <3>2. f[m] \in Seq(T)
      BY <1>3, <3>1
    <3>3. \A k \in 0 .. n : g[k] \in Seq(T)
      BY <1>4
    <3> QED BY <3>2, <3>3
  <2>2. 0 \in B
    <3>1. f[m] \o <<>> = f[m]
      BY <2>1, ConcatEmptySeq
    <3>2. m + 0 = m /\ m \in 0 .. m /\ 0 \in 0 .. n
      BY <1>1
    <3>3. h[m] = f[m]
      BY <1>6, <3>2
    <3> QED BY <1>4, <3>1, <3>2, <3>3
  <2>3. ASSUME NEW k \in 0 .. n - 1, k \in B PROVE k + 1 \in B
    <3>1. /\ k + 1 \in 1 .. n /\ m + (k + 1) \in 1 .. m + n /\ (k + 1) - 1 = k
          /\ (m + (k + 1)) - 1 = m + k /\ k + 1 \in 0 .. n /\ k \in 0 .. n
      BY <1>1
    <3>2. h[m + (k + 1)] = h[m + k] \o t[k + 1]
      BY <1>2, <1>5, <3>1
    <3>3. g[k + 1] = g[k] \o t[k + 1]
      BY <1>4, <3>1
    <3>4. h[m + k] = f[m] \o g[k]
      BY <2>3
    <3>5. (f[m] \o g[k]) \o t[k + 1] = f[m] \o (g[k] \o t[k + 1])
      <4>1. f[m] \in Seq(T) /\ g[k] \in Seq(T) /\ t[k + 1] \in Seq(T)
        BY <1>2, <2>1, <3>1
      <4>2. \A a, b, c \in Seq(T) : (a \o b) \o c = a \o (b \o c)
        BY ConcatAssociative
      <4> QED BY <4>1, <4>2
    <3>6. h[m + (k + 1)] = f[m] \o g[k + 1]
      BY <3>2, <3>3, <3>4, <3>5
    <3> QED BY <3>1, <3>6
  <2> HIDE DEF B
  <2> QED BY <1>1, <2>2, <2>3, UpTo
<1>8. h[m + n] = f[m] \o g[n]
  <2>1. n \in 0 .. n
    BY <1>1
  <2> HIDE DEF A
  <2> QED BY <1>7, <2>1
<1> QED BY <1>3, <1>4, <1>5, <1>8 DEF r

LEMMA FlattenFew ==
    ASSUME NEW T
    PROVE  /\ FlattenSeq(<<>>) = <<>>
           /\ \A s \in Seq(T) : FlattenSeq(<<s>>) = s
           /\ \A ss \in Seq(Seq(T)) : FlattenSeq(ss) \in Seq(T)
<1>1. FlattenSeq(<<>>) = <<>>
  BY DEF FlattenSeq
<1>2. ASSUME NEW s \in Seq(T) PROVE FlattenSeq(<<s>>) = s
  <2> DEFINE ss == <<s>>
  <2>1. ss \in Seq(Seq(T)) /\ Len(ss) = 1 /\ ss[1] = s
    OBVIOUS
  <2> HIDE DEF ss
  <2>2. PICK f : FlatRun(f, T, ss)
    BY <2>1, FlattenStepwise
  <2>3. f[1] = FlattenSeq(ss) /\ f[1] = <<>> \o s
    <3>1. 1 \in 1 .. 1 /\ 1 - 1 = 0
      OBVIOUS
    <3> QED BY <2>1, <2>2, <3>1 DEF FlatRun
  <2>4. <<>> \o s = s
    BY ConcatEmptySeq
  <2> QED BY <2>3, <2>4 DEF ss
<1>3. ASSUME NEW ss \in Seq(Seq(T)) PROVE FlattenSeq(ss) \in Seq(T)
  <2>1. PICK f : FlatRun(f, T, ss)
    BY FlattenStepwise
  <2>2. Len(ss) \in Nat
    OBVIOUS
  <2>3. Len(ss) \in 0 .. Len(ss)
    BY <2>2
  <2>4. f[Len(ss)] \in Seq(T) /\ f[Len(ss)] = FlattenSeq(ss)
    BY <2>1, <2>3 DEF FlatRun
  <2> QED BY <2>4
<1> QED BY <1>1, <1>2, <1>3

\* The text in a list of words, and the lines of a page as such lists.
Said(words) == Keep(FlattenSeq(words), Words)
WordsOn(page) == [i \in DOMAIN page |-> page[i].words]

LEMMA SaidFew ==
    ASSUME NEW Q
    PROVE  /\ Said(<<>>) = <<>>
           /\ \A w \in Seq(Q) : Said(<<w>>) = Keep(w, Words)
           /\ \A ws \in Seq(Seq(Q)) : Said(ws) \in Seq(Q)
<1>1. Said(<<>>) = <<>>
  BY KeepFew, FlattenFew DEF Said
<1>2. \A w \in Seq(Q) : Said(<<w>>) = Keep(w, Words)
  BY FlattenFew DEF Said
<1>3. ASSUME NEW ws \in Seq(Seq(Q)) PROVE Said(ws) \in Seq(Q)
  <2>1. FlattenSeq(ws) \in Seq(Q)
    BY FlattenFew
  <2> QED BY <2>1, KeepFew DEF Said
<1> QED BY <1>1, <1>2, <1>3

LEMMA SaidConcat ==
    ASSUME NEW Q, NEW v \in Seq(Seq(Q)), NEW w \in Seq(Seq(Q))
    PROVE  Said(v \o w) = Said(v) \o Said(w)
<1>1. FlattenSeq(v) \in Seq(Q) /\ FlattenSeq(w) \in Seq(Q)
  BY FlattenFew
<1>2. FlattenSeq(v \o w) = FlattenSeq(v) \o FlattenSeq(w)
  BY FlattenConcat
<1>3. Keep(FlattenSeq(v) \o FlattenSeq(w), Words)
        = Keep(FlattenSeq(v), Words) \o Keep(FlattenSeq(w), Words)
  BY <1>1, KeepConcat
<1> QED BY <1>2, <1>3 DEF Said

LEMMA TextIsSaid ==
    ASSUME NEW page
    PROVE  TextOf(page) = Said(FlattenSeq(WordsOn(page)))
BY DEF TextOf, Pieces, Said, WordsOn

LEMMA WordsOnType ==
    ASSUME NEW Q, NEW E, NEW page \in Seq(LineShapes(Q, E))
    PROVE  WordsOn(page) \in Seq(Seq(Seq(Q)))
<1> DEFINE W == Seq(Seq(Q))
<1>1. \A i \in 1 .. Len(page) : page[i].words \in W
  <2>1. \A i \in 1 .. Len(page) : page[i] \in LineShapes(Q, E)
    OBVIOUS
  <2> QED BY <2>1 DEF LineShapes
<1> HIDE DEF W
<1>2. WordsOn(page) \in Seq(W)
  BY <1>1 DEF WordsOn
<1> QED BY <1>2 DEF W

LEMMA TextFew ==
    ASSUME NEW Q, NEW E
    PROVE  /\ TextOf(<<>>) = <<>>
           /\ \A line \in LineShapes(Q, E) : TextOf(<<line>>) = Said(line.words)
           /\ \A page \in Seq(LineShapes(Q, E)) : TextOf(page) \in Seq(Q)
<1>1. TextOf(<<>>) = <<>>
  <2>1. WordsOn(<<>>) = <<>>
    BY DEF WordsOn
  <2> QED BY <2>1, TextIsSaid, FlattenFew, SaidFew
<1>2. ASSUME NEW line \in LineShapes(Q, E) PROVE TextOf(<<line>>) = Said(line.words)
  <2>1. WordsOn(<<line>>) = <<line.words>>
    BY DEF WordsOn
  <2>2. line.words \in Seq(Seq(Q))
    BY DEF LineShapes
  <2>3. FlattenSeq(<<line.words>>) = line.words
    <3> DEFINE W == Seq(Q)
    <3>1. line.words \in Seq(W)
      BY <2>2
    <3> HIDE DEF W
    <3> QED BY <3>1, FlattenFew
  <2> QED BY <2>1, <2>3, TextIsSaid
<1>3. ASSUME NEW page \in Seq(LineShapes(Q, E)) PROVE TextOf(page) \in Seq(Q)
  <2>1. WordsOn(page) \in Seq(Seq(Seq(Q)))
    BY WordsOnType
  <2>2. FlattenSeq(WordsOn(page)) \in Seq(Seq(Q))
    <3> DEFINE W == Seq(Q)
    <3>1. WordsOn(page) \in Seq(Seq(W))
      BY <2>1
    <3> HIDE DEF W
    <3>2. FlattenSeq(WordsOn(page)) \in Seq(W)
      BY <3>1, FlattenFew
    <3> QED BY <3>2 DEF W
  <2> QED BY <2>2, TextIsSaid, SaidFew
<1> QED BY <1>1, <1>2, <1>3

LEMMA TextConcat ==
    ASSUME NEW Q, NEW E, NEW p \in Seq(LineShapes(Q, E)), NEW q \in Seq(LineShapes(Q, E))
    PROVE  TextOf(p \o q) = TextOf(p) \o TextOf(q)
<1> DEFINE W == Seq(Q)
           L == LineShapes(Q, E)
           a == WordsOn(p)
           b == WordsOn(q)
<1>1. a \in Seq(Seq(W)) /\ b \in Seq(Seq(W))
  BY WordsOnType
<1>2. WordsOn(p \o q) = a \o b
  <2> HIDE DEF L
  <2>1. p \in Seq(L) /\ q \in Seq(L)
    BY DEF L
  <2>2. /\ p \o q \in Seq(L) /\ Len(p \o q) = Len(p) + Len(q)
        /\ \A i \in 1 .. Len(p) + Len(q) : (p \o q)[i] = IF i <= Len(p) THEN p[i] ELSE q[i - Len(p)]
    <3>1. p \o q \in Seq(L) /\ Len(p \o q) = Len(p) + Len(q)
      BY <2>1, ConcatProperties
    <3> QED BY <2>1, <3>1, ConcatProperties
  <2> DEFINE U == Seq(W)
  <2>3. a \in Seq(U) /\ b \in Seq(U)
    BY <1>1
  <2> HIDE DEF U, W
  <2>4. Len(a) = Len(p) /\ Len(b) = Len(q) /\ Len(p) \in Nat /\ Len(q) \in Nat
    BY <2>1 DEF WordsOn
  <2> HIDE DEF a, b
  <2>5. /\ a \o b \in Seq(U) /\ Len(a \o b) = Len(p) + Len(q)
        /\ \A i \in 1 .. Len(p) + Len(q) : (a \o b)[i] = IF i <= Len(p) THEN a[i] ELSE b[i - Len(p)]
    <3>1. a \o b \in Seq(U) /\ Len(a \o b) = Len(a) + Len(b)
      BY <2>3, ConcatProperties
    <3>2. \A i \in 1 .. Len(a) + Len(b) : (a \o b)[i] = IF i <= Len(a) THEN a[i] ELSE b[i - Len(a)]
      BY <2>3, ConcatProperties
    <3> QED BY <2>4, <3>1, <3>2
  <2>6. ASSUME NEW i \in 1 .. Len(p) + Len(q) PROVE (p \o q)[i].words = (a \o b)[i]
    <3>1. CASE i <= Len(p)
      <4>1. i \in 1 .. Len(p)
        BY <2>4, <3>1
      <4>2. a[i] = p[i].words
        BY <2>1, <4>1 DEF a, WordsOn
      <4> QED BY <2>2, <2>5, <3>1, <4>2
    <3>2. CASE ~(i <= Len(p))
      <4>1. i - Len(p) \in 1 .. Len(q)
        BY <2>4, <3>2
      <4>2. b[i - Len(p)] = q[i - Len(p)].words
        BY <2>1, <4>1 DEF b, WordsOn
      <4> QED BY <2>2, <2>5, <3>2, <4>2
    <3> QED BY <3>1, <3>2
  <2>7. DOMAIN (p \o q) = 1 .. Len(p) + Len(q) /\ DOMAIN (a \o b) = 1 .. Len(p) + Len(q)
    BY <2>2, <2>5
  <2>8. a \o b = [i \in 1 .. Len(p) + Len(q) |-> (a \o b)[i]]
    <3> DEFINE c == a \o b
    <3>1. c \in Seq(U) /\ DOMAIN c = 1 .. Len(p) + Len(q)
      BY <2>5, <2>7
    <3> HIDE DEF c
    <3>2. c = [i \in 1 .. Len(p) + Len(q) |-> c[i]]
      BY <3>1
    <3> QED BY <3>2 DEF c
  <2> QED BY <2>6, <2>7, <2>8 DEF WordsOn
<1> HIDE DEF a, b
<1>3. FlattenSeq(a \o b) = FlattenSeq(a) \o FlattenSeq(b)
  <2> HIDE DEF W
  <2> QED BY <1>1, FlattenConcat
<1>4. FlattenSeq(a) \in Seq(Seq(Q)) /\ FlattenSeq(b) \in Seq(Seq(Q))
  <2> HIDE DEF W
  <2>1. FlattenSeq(a) \in Seq(W) /\ FlattenSeq(b) \in Seq(W)
    BY <1>1, FlattenFew
  <2> QED BY <2>1 DEF W
<1>5. Said(FlattenSeq(a) \o FlattenSeq(b)) = Said(FlattenSeq(a)) \o Said(FlattenSeq(b))
  BY <1>4, SaidConcat
<1> QED BY <1>2, <1>3, <1>5, TextIsSaid DEF a, b

LEMMA EndsOfList ==
    ASSUME NEW T, NEW s \in Seq(T), s # <<>>
    PROVE  /\ Front(s) \in Seq(T) /\ Last(s) \in T /\ s = Front(s) \o <<Last(s)>>
           /\ Tail(s) \in Seq(T) /\ Head(s) \in T /\ s = <<Head(s)>> \o Tail(s)
           /\ Len(Front(s)) = Len(s) - 1 /\ Len(Tail(s)) = Len(s) - 1
<1> DEFINE n == Len(s)
<1>1. n \in Nat \ {0} /\ n \in 1 .. n /\ s \in [1 .. n -> T]
  OBVIOUS
<1>2. Front(s) \in Seq(T) /\ Last(s) \in T /\ Len(Front(s)) = n - 1
  BY <1>1 DEF Front, Last
<1>3. \A i \in 1 .. n - 1 : Front(s)[i] = s[i]
  BY <1>1 DEF Front
<1>4. s = Front(s) \o <<Last(s)>>
  <2> DEFINE f == Front(s)
             l == <<Last(s)>>
             c == f \o l
  <2>1. f \in Seq(T) /\ l \in Seq(T) /\ Len(f) = n - 1 /\ Len(l) = 1 /\ l[1] = s[n]
    BY <1>2 DEF Last
  <2> HIDE DEF f, l, n
  <2>2. c \in Seq(T) /\ Len(c) = n
    <3>1. c \in Seq(T) /\ Len(c) = Len(f) + Len(l)
      BY <2>1, ConcatProperties
    <3> QED BY <1>1, <2>1, <3>1
  <2>3. \A i \in 1 .. n : c[i] = IF i <= n - 1 THEN f[i] ELSE l[i - (n - 1)]
    <3>1. \A i \in 1 .. Len(f) + Len(l) : c[i] = IF i <= Len(f) THEN f[i] ELSE l[i - Len(f)]
      BY <2>1, ConcatProperties
    <3>2. Len(f) + Len(l) = n
      BY <1>1, <2>1
    <3> QED BY <2>1, <3>1, <3>2
  <2>4. ASSUME NEW i \in 1 .. n PROVE c[i] = s[i]
    <3>1. CASE i <= n - 1
      <4>1. i \in 1 .. n - 1
        BY <1>1, <3>1
      <4> QED BY <1>3, <2>3, <3>1, <4>1 DEF f
    <3>2. CASE ~(i <= n - 1)
      <4>1. i = n /\ i - (n - 1) = 1
        BY <1>1, <3>2
      <4> QED BY <2>1, <2>3, <3>2, <4>1
    <3> QED BY <3>1, <3>2
  <2>5. c \in [1 .. n -> T]
    <3> HIDE DEF c
    <3> QED BY <2>2
  <2> HIDE DEF c
  <2>6. c = s
    BY <1>1, <2>4, <2>5
  <2> QED BY <2>6 DEF c, f, l
<1>5. Tail(s) \in Seq(T) /\ Head(s) \in T /\ Len(Tail(s)) = n - 1
  BY HeadTailProperties
<1>6. s = <<Head(s)>> \o Tail(s)
  <2> DEFINE f == <<Head(s)>>
             l == Tail(s)
             c == f \o l
  <2>1. f \in Seq(T) /\ l \in Seq(T) /\ Len(f) = 1 /\ Len(l) = n - 1 /\ f[1] = s[1]
    BY <1>5
  <2>2. \A i \in 1 .. n - 1 : l[i] = s[i + 1]
    BY <1>5, HeadTailProperties
  <2> HIDE DEF f, l, n
  <2>3. c \in Seq(T) /\ Len(c) = n
    <3>1. c \in Seq(T) /\ Len(c) = Len(f) + Len(l)
      BY <2>1, ConcatProperties
    <3> QED BY <1>1, <2>1, <3>1
  <2>4. \A i \in 1 .. n : c[i] = IF i <= 1 THEN f[i] ELSE l[i - 1]
    <3>1. \A i \in 1 .. Len(f) + Len(l) : c[i] = IF i <= Len(f) THEN f[i] ELSE l[i - Len(f)]
      BY <2>1, ConcatProperties
    <3>2. Len(f) + Len(l) = n
      BY <1>1, <2>1
    <3> QED BY <2>1, <3>1, <3>2
  <2>5. ASSUME NEW i \in 1 .. n PROVE c[i] = s[i]
    <3>1. CASE i <= 1
      <4>1. i = 1
        BY <1>1, <3>1
      <4> QED BY <2>1, <2>4, <3>1, <4>1
    <3>2. CASE ~(i <= 1)
      <4>1. i - 1 \in 1 .. n - 1 /\ (i - 1) + 1 = i
        BY <1>1, <3>2
      <4> QED BY <2>2, <2>4, <3>2, <4>1
    <3> QED BY <3>1, <3>2
  <2>6. c \in [1 .. n -> T]
    <3> HIDE DEF c
    <3> QED BY <2>3
  <2> HIDE DEF c
  <2>7. c = s
    BY <1>1, <2>5, <2>6
  <2> QED BY <2>7 DEF c, f, l
<1> QED BY <1>2, <1>4, <1>5, <1>6

LEMMA TextAppend ==
    ASSUME NEW Q, NEW E, NEW p \in Seq(LineShapes(Q, E)), NEW line \in LineShapes(Q, E)
    PROVE  TextOf(Append(p, line)) = TextOf(p) \o Said(line.words)
<1>1. <<line>> \in Seq(LineShapes(Q, E))
  OBVIOUS
<1>2. Append(p, line) = p \o <<line>>
  BY AppendIsConcat
<1>3. TextOf(p \o <<line>>) = TextOf(p) \o TextOf(<<line>>)
  <2>1. \A q, r \in Seq(LineShapes(Q, E)) : TextOf(q \o r) = TextOf(q) \o TextOf(r)
    BY TextConcat
  <2> QED BY <1>1, <2>1
<1>4. TextOf(<<line>>) = Said(line.words)
  BY TextFew
<1> QED BY <1>2, <1>3, <1>4

\* g is the text of the first lines of a page.
TextRun(g, Q, page) ==
    /\ g \in [0 .. Len(page) -> Seq(Q)]
    /\ g[0] = <<>> /\ g[Len(page)] = TextOf(page)
    /\ \A k \in 1 .. Len(page) : g[k] = g[k - 1] \o Said(page[k].words)

LEMMA TextStepwise ==
    ASSUME NEW Q, NEW E, NEW page \in Seq(LineShapes(Q, E))
    PROVE  \E g : TextRun(g, Q, page)
<1> DEFINE L == LineShapes(Q, E)
           n == Len(page)
           top == [k \in 0 .. n |-> SubSeq(page, 1, k)]
           g == [k \in 0 .. n |-> TextOf(top[k])]
<1>1. n \in Nat /\ page \in Seq(L) /\ \A k \in 1 .. n : page[k] \in L
  OBVIOUS
<1> HIDE DEF L
<1>2. \A k \in 0 .. n : top[k] \in Seq(L)
  BY <1>1
<1>3. top[0] = <<>>
  BY <1>1
<1>4. top[n] = page
  BY <1>1
<1>5. ASSUME NEW k \in 1 .. n PROVE top[k] = Append(top[k - 1], page[k])
  <2>1. k - 1 \in 0 .. n /\ k \in 0 .. n
    BY <1>1
  <2>2. SubSeq(page, 1, k) = Append(SubSeq(page, 1, k - 1), page[k])
    BY <1>1
  <2> QED BY <2>1, <2>2
<1> HIDE DEF top
<1>6. ASSUME NEW k \in 0 .. n PROVE g[k] = TextOf(top[k]) /\ g[k] \in Seq(Q)
  <2>1. top[k] \in Seq(LineShapes(Q, E))
    BY <1>2 DEF L
  <2> QED BY <2>1, TextFew
<1>7. g \in [0 .. n -> Seq(Q)]
  BY <1>6
<1>8. g[0] = <<>> /\ g[n] = TextOf(page)
  <2>1. 0 \in 0 .. n /\ n \in 0 .. n
    BY <1>1
  <2> QED BY <1>3, <1>4, <1>6, <2>1, TextFew
<1>9. ASSUME NEW k \in 1 .. n PROVE g[k] = g[k - 1] \o Said(page[k].words)
  <2>1. k - 1 \in 0 .. n /\ k \in 0 .. n
    BY <1>1
  <2>2. top[k - 1] \in Seq(LineShapes(Q, E)) /\ page[k] \in LineShapes(Q, E)
    BY <1>1, <1>2, <2>1 DEF L
  <2>3. TextOf(Append(top[k - 1], page[k])) = TextOf(top[k - 1]) \o Said(page[k].words)
    <3>1. \A q \in Seq(LineShapes(Q, E)), line \in LineShapes(Q, E) :
                TextOf(Append(q, line)) = TextOf(q) \o Said(line.words)
      BY TextAppend
    <3> QED BY <2>2, <3>1
  <2> QED BY <1>5, <1>6, <2>1, <2>3
<1> HIDE DEF g
<1>10. TextRun(g, Q, page)
  BY <1>7, <1>8, <1>9 DEF TextRun, n
<1> QED BY <1>10

\* A footer says nothing.
LEMMA FooterSaysNothing ==
    ASSUME NEW Q, NEW E, NEW line \in LineShapes(Q, E), IsFooter(line)
    PROVE  Said(line.words) = <<>>
<1> DEFINE w == line.words[1]
<1>1. line.words \in Seq(Seq(Q)) /\ Len(line.words) = 1
  BY DEF LineShapes, IsFooter
<1>2. w \in Seq(Q) /\ line.words = <<w>>
  BY <1>1
<1>3. \A k \in DOMAIN w : w[k] \notin Words
  BY <1>2, PiecesAssumption DEF IsFooter
<1> HIDE DEF w
<1>4. Said(<<w>>) = Keep(w, Words)
  BY <1>2, SaidFew
<1>5. Keep(w, Words) = <<>>
  BY <1>2, <1>3, KeepFew
<1> QED BY <1>2, <1>4, <1>5

\* Taking the footers off a page takes none of its text (cleaner.py:97-103).
LEMMA StripKeepsText ==
    ASSUME NEW Q, NEW E, NEW page \in Seq(LineShapes(Q, E))
    PROVE  TextOf(StripFooters(page)) = TextOf(page)
<1> DEFINE L == LineShapes(Q, E)
           S == {line \in ToSet(page) : ~IsFooter(line)}
           n == Len(page)
<1>1. n \in Nat /\ page \in Seq(L) /\ \A k \in 1 .. n : page[k] \in L
  OBVIOUS
<1>2. \A k \in 1 .. n : page[k] \in S <=> ~IsFooter(page[k])
  BY <1>1 DEF ToSet
<1>3. StripFooters(page) = Keep(page, S)
  BY DEF StripFooters
<1> HIDE DEF S
<1>4. PICK f : KeepRun(f, L, page, S)
  <2> HIDE DEF L
  <2> QED BY <1>1, KeepStepwise
<1>5. PICK g : TextRun(g, Q, page)
  BY TextStepwise
<1>6. /\ f \in [0 .. n -> Seq(L)] /\ f[0] = <<>> /\ f[n] = Keep(page, S)
      /\ \A k \in 1 .. n : f[k] = IF page[k] \in S THEN Append(f[k - 1], page[k]) ELSE f[k - 1]
  BY <1>4 DEF KeepRun
<1>7. /\ g \in [0 .. n -> Seq(Q)] /\ g[0] = <<>> /\ g[n] = TextOf(page)
      /\ \A k \in 1 .. n : g[k] = g[k - 1] \o Said(page[k].words)
  BY <1>5 DEF TextRun
<1> HIDE DEF L, n
<1> DEFINE A == {k \in 0 .. n : TextOf(f[k]) = g[k]}
<1>8. 0 \in A
  BY <1>1, <1>6, <1>7, TextFew
<1>9. ASSUME NEW k \in 0 .. n - 1, k \in A PROVE k + 1 \in A
  <2>1. /\ k + 1 \in 1 .. n /\ (k + 1) - 1 = k /\ k + 1 \in 0 .. n /\ k \in 0 .. n
    BY <1>1
  <2>2. g[k + 1] = g[k] \o Said(page[k + 1].words) /\ g[k] = TextOf(f[k]) /\ g[k] \in Seq(Q)
    BY <1>7, <1>9, <2>1
  <2>3. page[k + 1] \in LineShapes(Q, E) /\ f[k] \in Seq(LineShapes(Q, E))
    BY <1>1, <1>6, <2>1 DEF L
  <2>4. TextOf(f[k + 1]) = g[k + 1]
    <3>1. CASE IsFooter(page[k + 1])
      <4>1. f[k + 1] = f[k]
        BY <1>2, <1>6, <2>1, <3>1
      <4>2. Said(page[k + 1].words) = <<>>
        <5>1. \A line \in LineShapes(Q, E) : IsFooter(line) => Said(line.words) = <<>>
          BY FooterSaysNothing
        <5> QED BY <2>3, <3>1, <5>1
      <4>3. g[k] \o <<>> = g[k]
        BY <2>2, ConcatEmptySeq
      <4> QED BY <2>2, <4>1, <4>2, <4>3
    <3>2. CASE ~IsFooter(page[k + 1])
      <4>1. f[k + 1] = Append(f[k], page[k + 1])
        BY <1>2, <1>6, <2>1, <3>2
      <4>2. \A q \in Seq(LineShapes(Q, E)), line \in LineShapes(Q, E) :
                TextOf(Append(q, line)) = TextOf(q) \o Said(line.words)
        BY TextAppend
      <4> QED BY <2>2, <2>3, <4>1, <4>2
    <3> QED BY <3>1, <3>2
  <2> QED BY <2>1, <2>4
<1> HIDE DEF A
<1>10. n \in A
  <2>1. \A k \in 0 .. n : k \in A
    BY <1>1, <1>8, <1>9, UpTo
  <2>2. n \in 0 .. n
    BY <1>1
  <2> QED BY <2>1, <2>2
<1> QED BY <1>3, <1>6, <1>7, <1>10 DEF A

\* Joining a broken word leaves what the two lines read (cleaner.py:108).
ReadsAsBoth(line, a, b) ==
    /\ Len(line.words) = Len(a.words) + Len(b.words) - 1
    /\ FlattenSeq(line.words) = FlattenSeq(a.words) \o FlattenSeq(b.words)

LEMMA GlueReadsBoth ==
    ASSUME NEW Q, NEW E, NEW a \in LineShapes(Q, E), NEW b \in LineShapes(Q, E),
           ~IsBlank(a), ~IsBlank(b)
    PROVE  /\ Glue(a, b) \in LineShapes(Q, E) /\ ~IsBlank(Glue(a, b))
           /\ ReadsAsBoth(Glue(a, b), a, b)
<1> DEFINE W == Seq(Q)
           v == a.words
           w == b.words
           x == Front(v)
           y == Last(v)
           z == Head(w)
           t == Tail(w)
           e == <<y \o z>>
           h == x \o e
<1>1. v \in Seq(W) /\ w \in Seq(W) /\ v # <<>> /\ w # <<>> /\ b.end \in E
  BY DEF LineShapes, IsBlank
<1>2. /\ x \in Seq(W) /\ y \in W /\ v = x \o <<y>> /\ Len(x) = Len(v) - 1
      /\ t \in Seq(W) /\ z \in W /\ w = <<z>> \o t /\ Len(t) = Len(w) - 1
  <2> HIDE DEF v, w, W
  <2>1. /\ Front(v) \in Seq(W) /\ Last(v) \in W /\ v = Front(v) \o <<Last(v)>>
        /\ Tail(w) \in Seq(W) /\ Head(w) \in W /\ w = <<Head(w)>> \o Tail(w)
        /\ Len(Front(v)) = Len(v) - 1 /\ Len(Tail(w)) = Len(w) - 1
    BY <1>1, EndsOfList
  <2> QED BY <2>1
<1>3. Glue(a, b) = [words |-> h \o t, end |-> b.end]
  BY DEF Glue
<1> HIDE DEF x, y, z, t
<1>4. y \o z \in W
  <2>1. y \in Seq(Q) /\ z \in Seq(Q)
    BY <1>2
  <2> QED BY <2>1, ConcatProperties
<1>5. e \in Seq(W) /\ Len(e) = 1 /\ <<y>> \in Seq(W) /\ <<z>> \in Seq(W)
  BY <1>2, <1>4
<1> HIDE DEF e, W
<1>6. h \in Seq(W) /\ Len(h) = Len(x) + 1
  <2>1. x \in Seq(W) /\ e \in Seq(W)
    BY <1>2, <1>5
  <2>2. x \o e \in Seq(W) /\ Len(x \o e) = Len(x) + Len(e)
    BY <2>1, ConcatProperties
  <2> QED BY <1>5, <2>2
<1> HIDE DEF h
<1>7. h \o t \in Seq(W) /\ Len(h \o t) = Len(h) + Len(t)
  BY <1>2, <1>6, ConcatProperties
<1>8. Len(h \o t) = Len(v) + Len(w) - 1 /\ h \o t # <<>>
  <2>1. Len(v) \in Nat \ {0} /\ Len(w) \in Nat \ {0}
    BY <1>1
  <2> HIDE DEF v, w
  <2>2. Len(h \o t) = Len(v) + Len(w) - 1
    BY <1>2, <1>6, <1>7, <2>1
  <2>3. Len(h \o t) # 0
    BY <2>1, <2>2
  <2>4. Len(<<>>) = 0
    OBVIOUS
  <2> QED BY <2>2, <2>3, <2>4
<1>9. Glue(a, b) \in LineShapes(Q, E) /\ ~IsBlank(Glue(a, b))
  BY <1>1, <1>3, <1>7, <1>8 DEF LineShapes, IsBlank, W
<1>10. FlattenSeq(h \o t) = FlattenSeq(v) \o FlattenSeq(w)
  <2> HIDE DEF v, w
  <2>1. \A p, q \in Seq(W) : FlattenSeq(p \o q) = FlattenSeq(p) \o FlattenSeq(q)
    BY FlattenConcat DEF W
  <2>2. \A p \in W : FlattenSeq(<<p>>) = p
    BY FlattenFew DEF W
  <2> DEFINE fx == FlattenSeq(x)
             ft == FlattenSeq(t)
  <2>3. fx \in W /\ ft \in W
    <3>1. \A p \in Seq(W) : FlattenSeq(p) \in W
      BY FlattenFew DEF W
    <3> QED BY <1>2, <3>1
  <2>4. FlattenSeq(v) = fx \o y /\ FlattenSeq(w) = z \o ft
    BY <1>2, <1>5, <2>1, <2>2
  <2>5. FlattenSeq(h) = fx \o (y \o z)
    BY <1>2, <1>4, <1>5, <2>1, <2>2 DEF h, e
  <2>6. FlattenSeq(h \o t) = (fx \o (y \o z)) \o ft
    BY <1>2, <1>6, <2>1, <2>5
  <2> HIDE DEF fx, ft
  <2>7. (fx \o (y \o z)) \o ft = (fx \o y) \o (z \o ft)
    <3>1. \A p, q, r \in W : (p \o q) \o r = p \o (q \o r)
      BY ConcatAssociative DEF W
    <3>2. \A p, q \in W : p \o q \in W
      BY ConcatProperties DEF W
    <3>3. fx \o (y \o z) = (fx \o y) \o z
      BY <1>2, <2>3, <3>1
    <3>5. fx \o y \in W
      BY <1>2, <2>3, <3>2
    <3>4. ((fx \o y) \o z) \o ft = (fx \o y) \o (z \o ft)
      BY <1>2, <2>3, <3>1, <3>5
    <3> QED BY <3>3, <3>4
  <2> QED BY <2>4, <2>6, <2>7
<1>11. Glue(a, b).words = h \o t
  BY <1>3
<1> HIDE DEF v, w
<1>12. Len(Glue(a, b).words) = Len(v) + Len(w) - 1
  BY <1>8, <1>11
<1>13. FlattenSeq(Glue(a, b).words) = FlattenSeq(v) \o FlattenSeq(w)
  BY <1>10, <1>11
<1> QED BY <1>9, <1>12, <1>13 DEF v, w, ReadsAsBoth

LEMMA GlueSaysBoth ==
    ASSUME NEW Q, NEW E, NEW a \in LineShapes(Q, E), NEW b \in LineShapes(Q, E),
           ~IsBlank(a), ~IsBlank(b)
    PROVE  Said(Glue(a, b).words) = Said(a.words) \o Said(b.words)
<1>1. FlattenSeq(Glue(a, b).words) = FlattenSeq(a.words) \o FlattenSeq(b.words)
  <2>1. ReadsAsBoth(Glue(a, b), a, b)
    BY GlueReadsBoth
  <2> QED BY <2>1 DEF ReadsAsBoth
<1>2. a.words \in Seq(Seq(Q)) /\ b.words \in Seq(Seq(Q))
  BY DEF LineShapes
<1>3. FlattenSeq(a.words) \in Seq(Q) /\ FlattenSeq(b.words) \in Seq(Q)
  BY <1>2, FlattenFew
<1>4. \A p, q \in Seq(Q) : Keep(p \o q, Words) = Keep(p, Words) \o Keep(q, Words)
  BY KeepConcat
<1> QED BY <1>1, <1>3, <1>4 DEF Said

\* What is joined: line i, which is broken, and line i + 1, neither blank.
LEMMA JoinedLines ==
    ASSUME NEW L, NEW page \in Seq(L)
    PROVE  \A i \in 0 .. Len(page) : Joined(page)[i] =>
              /\ i \in 1 .. Len(page) - 1 /\ page[i].end = "hyphen"
              /\ ~IsBlank(page[i]) /\ ~IsBlank(page[i + 1])
              /\ ~(Joined(page)[i - 1] /\ Len(page[i].words) = 1)
<1> DEFINE n == Len(page)
           May(i) == i \in 1 .. n - 1 /\ page[i].end = "hyphen"
                     /\ ~IsBlank(page[i]) /\ ~IsBlank(page[i + 1])
           g == [x \in BOOLEAN \X (1 .. n) |->
                    May(x[2]) /\ ~(x[1] /\ Len(page[x[2]].words) = 1)]
           Meets(joined) == joined = [i \in 0 .. Len(page) |->
                    /\ i \in 1 .. Len(page) - 1
                    /\ page[i].end = "hyphen" /\ ~IsBlank(page[i])
                    /\ ~IsBlank(page[i + 1])
                    /\ ~(joined[i - 1] /\ Len(page[i].words) = 1)]
           joined == CHOOSE joined : Meets(joined)
<1>1. n \in Nat
  OBVIOUS
<1>2. \A b \in BOOLEAN, i \in 1 .. n :
          g[<<b, i>>] = (May(i) /\ ~(b /\ Len(page[i].words) = 1))
  OBVIOUS
<1>3. g \in [BOOLEAN \X (1 .. n) -> BOOLEAN]
  OBVIOUS
<1> HIDE DEF g, n
<1>4. PICK f \in [0 .. n -> BOOLEAN] : IsRecursion(f, n, FALSE, g)
  <2>1. FALSE \in BOOLEAN
    OBVIOUS
  <2> QED BY <1>1, <1>3, <2>1, RecursionExists
<1>5. f[0] = FALSE /\ \A i \in 1 .. n : f[i] = g[<<f[i - 1], i>>]
  BY <1>4 DEF IsRecursion
<1>6. Meets(f)
  <2>1. ASSUME NEW i \in 0 .. n
        PROVE  f[i] = (May(i) /\ ~(f[i - 1] /\ Len(page[i].words) = 1))
    <3>1. CASE i = 0
      <4>1. ~May(i)
        BY <3>1
      <4> QED BY <1>5, <3>1, <4>1
    <3>2. CASE i # 0
      <4>1. i \in 1 .. n /\ i - 1 \in 0 .. n
        BY <1>1, <3>2
      <4>2. f[i - 1] \in BOOLEAN
        BY <1>4, <4>1
      <4> HIDE DEF May
      <4>3. g[<<f[i - 1], i>>] = (May(i) /\ ~(f[i - 1] /\ Len(page[i].words) = 1))
        BY <1>2, <4>1, <4>2
      <4> QED BY <1>5, <4>1, <4>3
    <3> QED BY <3>1, <3>2
  <2> QED BY <2>1, <1>4 DEF n
<1>7. Meets(joined)
  <2> HIDE DEF Meets
  <2> QED BY <1>6
<1>8. Joined(page) = joined
  BY DEF Joined
<1> HIDE DEF joined
<1>9. \A i \in 0 .. n : joined[i] = (May(i) /\ ~(joined[i - 1] /\ Len(page[i].words) = 1))
  BY <1>7 DEF n
<1> QED BY <1>8, <1>9 DEF n

LEMMA LastAppended ==
    ASSUME NEW T, NEW s \in Seq(T), NEW x \in T
    PROVE  Append(s, x) \in Seq(T) /\ Append(s, x) # <<>> /\ Last(Append(s, x)) = x
BY DEF Last

LEMMA GlueLast ==
    ASSUME NEW Q, NEW E, NEW t \in Seq(LineShapes(Q, E)), NEW line \in LineShapes(Q, E),
           t # <<>>, ~IsBlank(Last(t)), ~IsBlank(line)
    PROVE  LET u == Append(Front(t), Glue(Last(t), line)) IN
           /\ u \in Seq(LineShapes(Q, E)) /\ u # <<>> /\ ~IsBlank(Last(u))
           /\ TextOf(u) = TextOf(t) \o Said(line.words)
<1> DEFINE L == LineShapes(Q, E)
           a == Last(t)
           f == Front(t)
           c == Glue(a, line)
           u == Append(f, c)
<1>1. f \in Seq(L) /\ a \in L /\ t = f \o <<a>>
  <2> HIDE DEF L
  <2>1. t \in Seq(L)
    BY DEF L
  <2> QED BY <2>1, EndsOfList
<1> HIDE DEF a, f, L
<1>2. c \in L /\ ~IsBlank(c) /\ Said(c.words) = Said(a.words) \o Said(line.words)
  <2>1. a \in LineShapes(Q, E) /\ ~IsBlank(a)
    BY <1>1 DEF L, a
  <2>2. Glue(a, line) \in LineShapes(Q, E) /\ ~IsBlank(Glue(a, line))
    BY <2>1, GlueReadsBoth
  <2>3. Said(Glue(a, line).words) = Said(a.words) \o Said(line.words)
    BY <2>1, GlueSaysBoth
  <2> QED BY <2>2, <2>3 DEF L
<1> HIDE DEF c
<1>3. u \in Seq(L) /\ u # <<>> /\ Last(u) = c
  BY <1>1, <1>2, LastAppended
<1>4. TextOf(u) = TextOf(t) \o Said(line.words)
  <2>1. \A q \in Seq(LineShapes(Q, E)), m \in LineShapes(Q, E) :
            TextOf(Append(q, m)) = TextOf(q) \o Said(m.words)
    BY TextAppend
  <2>2. TextOf(u) = TextOf(f) \o Said(c.words)
    BY <1>1, <1>2, <2>1 DEF L
  <2>3. TextOf(t) = TextOf(f) \o Said(a.words)
    <3>1. t = Append(f, a)
      <4>1. Append(f, a) = f \o <<a>>
        BY <1>1, AppendIsConcat
      <4> QED BY <1>1, <4>1
    <3> QED BY <1>1, <2>1, <3>1 DEF L
  <2>4. TextOf(f) \in Seq(Q) /\ Said(a.words) \in Seq(Q) /\ Said(line.words) \in Seq(Q)
    <3>1. f \in Seq(LineShapes(Q, E)) /\ a.words \in Seq(Seq(Q)) /\ line.words \in Seq(Seq(Q))
      BY <1>1 DEF L, LineShapes
    <3> QED BY <3>1, TextFew, SaidFew
  <2>5. \A p, q, r \in Seq(Q) : (p \o q) \o r = p \o (q \o r)
    BY ConcatAssociative
  <2> QED BY <1>2, <2>2, <2>3, <2>4, <2>5
<1> QED BY <1>2, <1>3, <1>4 DEF a, f, c, L

\* f is the page after each line that JoinHyphens has taken.
JoinStep(page, t, i) ==
    IF Joined(page)[i - 1] THEN Append(Front(t), Glue(Last(t), page[i]))
    ELSE Append(t, page[i])

JoinRun(f, L, page) ==
    /\ f \in [0 .. Len(page) -> Seq(L)]
    /\ f[0] = <<>> /\ f[Len(page)] = JoinHyphens(page)
    /\ \A k \in 1 .. Len(page) :
          /\ f[k] = JoinStep(page, f[k - 1], k) /\ f[k] # <<>>
          /\ ~IsBlank(page[k]) => ~IsBlank(Last(f[k]))

LEMMA JoinStepwise ==
    ASSUME NEW Q, NEW E, NEW page \in Seq(LineShapes(Q, E))
    PROVE  \E f : JoinRun(f, LineShapes(Q, E), page)
<1> DEFINE L == LineShapes(Q, E)
           V == Seq(L)
           n == Len(page)
           joined == Joined(page)
           Step(t, i) == IF joined[i - 1]
                         THEN Append(Front(t), Glue(Last(t), page[i]))
                         ELSE Append(t, page[i])
           g == [x \in V \X (1 .. n) |->
                    IF Step(x[1], x[2]) \in V THEN Step(x[1], x[2]) ELSE <<>>]
           Meets(text) == text = [i \in 0 .. Len(page) |->
                                IF i = 0 THEN <<>>
                                ELSE IF joined[i - 1]
                                     THEN Append(Front(text[i - 1]), Glue(Last(text[i - 1]), page[i]))
                                     ELSE Append(text[i - 1], page[i])]
           text == CHOOSE text : Meets(text)
<1>1. n \in Nat /\ \A k \in 1 .. n : page[k] \in L
  OBVIOUS
<1>2. /\ \A v \in V, i \in 1 .. n : Step(v, i) \in V => g[<<v, i>>] = Step(v, i)
      /\ g \in [V \X (1 .. n) -> V] /\ <<>> \in V
  <2> DEFINE G(v, i) == IF Step(v, i) \in V THEN Step(v, i) ELSE <<>>
  <2>1. <<>> \in V
    OBVIOUS
  <2> HIDE DEF V, Step
  <2> QED BY <2>1
<1> HIDE DEF g, n
<1>3. PICK f \in [0 .. n -> V] : IsRecursion(f, n, <<>>, g)
  <2> HIDE DEF V
  <2> QED BY <1>1, <1>2, RecursionExists
<1>4. f[0] = <<>> /\ \A i \in 1 .. n : f[i] = g[<<f[i - 1], i>>]
  BY <1>3 DEF IsRecursion
<1>7. \A i \in 0 .. n : joined[i] =>
              i \in 1 .. n - 1 /\ ~IsBlank(page[i]) /\ ~IsBlank(page[i + 1])
  <2> HIDE DEF L, joined
  <2>1. page \in Seq(L)
    BY DEF L
  <2> QED BY <2>1, JoinedLines DEF joined, n
<1> HIDE DEF joined, V
<1> DEFINE Good(k) == /\ k # 0 => f[k] # <<>> /\ (~IsBlank(page[k]) => ~IsBlank(Last(f[k])))
                      /\ k # 0 => f[k] = Step(f[k - 1], k)
           A == {k \in 0 .. n : Good(k)}
<1>8. 0 \in A
  BY <1>1
<1>9. ASSUME NEW k \in 0 .. n - 1, k \in A PROVE k + 1 \in A
  <2>1. /\ k + 1 \in 1 .. n /\ (k + 1) - 1 = k /\ k + 1 \in 0 .. n /\ k \in 0 .. n
        /\ k + 1 # 0
    BY <1>1
  <2>2. Good(k)
    BY <1>9
  <2> DEFINE t == f[k]
             line == page[k + 1]
  <2>3. t \in Seq(LineShapes(Q, E)) /\ line \in LineShapes(Q, E)
    BY <1>1, <1>3, <2>1 DEF V
  <2>4. f[k + 1] = g[<<t, k + 1>>] /\ t \in V
    BY <1>3, <1>4, <2>1
  <2>6. CASE joined[k]
    <3>1. k # 0 /\ ~IsBlank(page[k]) /\ ~IsBlank(line)
      BY <1>7, <2>1, <2>6
    <3>2. t # <<>> /\ ~IsBlank(Last(t))
      BY <2>2, <3>1
    <3> DEFINE u == Append(Front(t), Glue(Last(t), line))
    <3>3. u \in Seq(LineShapes(Q, E)) /\ u # <<>> /\ ~IsBlank(Last(u))
      <4>1. \A s \in Seq(LineShapes(Q, E)), m \in LineShapes(Q, E) :
               (s # <<>> /\ ~IsBlank(Last(s)) /\ ~IsBlank(m)) =>
               LET w == Append(Front(s), Glue(Last(s), m)) IN
               /\ w \in Seq(LineShapes(Q, E)) /\ w # <<>> /\ ~IsBlank(Last(w))
               /\ TextOf(w) = TextOf(s) \o Said(m.words)
        BY GlueLast
      <4> HIDE DEF t, line
      <4> QED BY <2>3, <3>1, <3>2, <4>1
    <3>4. Step(t, k + 1) = u
      BY <2>1, <2>6
    <3>5. f[k + 1] = u
      <4>1. Step(t, k + 1) \in V
        BY <3>3, <3>4 DEF V
      <4> HIDE DEF Step, t, u
      <4> QED BY <1>2, <2>1, <2>4, <3>4, <4>1
    <3> HIDE DEF u
    <3>6. f[k + 1] = Step(f[(k + 1) - 1], k + 1)
      <4> HIDE DEF Step
      <4> QED BY <2>1, <3>4, <3>5
    <3>7. Good(k + 1)
      <4> HIDE DEF Step, t, line
      <4> QED BY <2>1, <3>3, <3>5, <3>6
    <3> HIDE DEF Good
    <3> QED BY <2>1, <3>7
  <2>7. CASE ~joined[k]
    <3> DEFINE u == Append(t, line)
    <3>1. u \in Seq(LineShapes(Q, E)) /\ u # <<>> /\ Last(u) = line
      <4> HIDE DEF L, t, line
      <4>1. t \in Seq(L) /\ line \in L
        BY <2>3 DEF L
      <4>2. u \in Seq(L) /\ u # <<>> /\ Last(u) = line
        BY <4>1, LastAppended
      <4> QED BY <4>2 DEF L
    <3>4. Step(t, k + 1) = u
      BY <2>1, <2>7
    <3>5. f[k + 1] = u
      <4>1. Step(t, k + 1) \in V
        BY <3>1, <3>4 DEF V
      <4> HIDE DEF Step, t, u
      <4> QED BY <1>2, <2>1, <2>4, <3>4, <4>1
    <3> HIDE DEF u
    <3>6. f[k + 1] = Step(f[(k + 1) - 1], k + 1)
      <4> HIDE DEF Step
      <4> QED BY <2>1, <3>4, <3>5
    <3>7. Good(k + 1)
      <4> HIDE DEF Step
      <4> QED BY <2>1, <3>1, <3>5, <3>6
    <3> HIDE DEF Good
    <3> QED BY <2>1, <3>7
  <2> QED BY <2>6, <2>7
<1> HIDE DEF A
<1>10. \A k \in 0 .. n : k \in A
  BY <1>1, <1>8, <1>9, UpTo
<1>11. \A k \in 0 .. n : Good(k)
  BY <1>10 DEF A
<1>12. Meets(f)
  <2>1. ASSUME NEW i \in 0 .. n
        PROVE  f[i] = IF i = 0 THEN <<>>
                      ELSE IF joined[i - 1]
                           THEN Append(Front(f[i - 1]), Glue(Last(f[i - 1]), page[i]))
                           ELSE Append(f[i - 1], page[i])
    BY <1>4, <1>11
  <2> QED BY <1>3, <2>1 DEF n
<1>13. Meets(text)
  <2> HIDE DEF Meets
  <2> QED BY <1>12
<1>14. JoinHyphens(page) = text[n]
  BY DEF JoinHyphens, joined, n
<1> HIDE DEF text
<1>15. \A i \in 0 .. n : text[i] = IF i = 0 THEN <<>> ELSE Step(text[i - 1], i)
  BY <1>13 DEF n
<1>16. \A i \in 0 .. n : f[i] = IF i = 0 THEN <<>> ELSE Step(f[i - 1], i)
  BY <1>12 DEF n
<1> HIDE DEF Meets, Good
<1> DEFINE B == {k \in 0 .. n : text[k] = f[k]}
<1>17. 0 \in B
  BY <1>1, <1>15, <1>16
<1>18. ASSUME NEW k \in 0 .. n - 1, k \in B PROVE k + 1 \in B
  <2>1. k + 1 \in 0 .. n /\ (k + 1) - 1 = k /\ k + 1 # 0
    BY <1>1
  <2> HIDE DEF Step
  <2> QED BY <1>15, <1>16, <1>18, <2>1
<1> HIDE DEF B
<1>19. \A k \in 0 .. n : k \in B
  BY <1>1, <1>17, <1>18, UpTo
<1>20. text[n] = f[n] /\ n \in 0 .. n
  BY <1>1, <1>19 DEF B
<1>21. \A k \in 1 .. n : /\ f[k] = Step(f[k - 1], k) /\ f[k] # <<>>
                         /\ ~IsBlank(page[k]) => ~IsBlank(Last(f[k]))
  <2>1. \A k \in 1 .. n : k \in 0 .. n /\ k # 0
    BY <1>1
  <2> HIDE DEF Step
  <2> QED BY <1>11, <2>1 DEF Good
<1>22. JoinRun(f, L, page)
  BY <1>3, <1>4, <1>14, <1>20, <1>21 DEF JoinRun, JoinStep, joined, n, V
<1> QED BY <1>22

LEMMA JoinType ==
    ASSUME NEW Q, NEW E, NEW page \in Seq(LineShapes(Q, E))
    PROVE  JoinHyphens(page) \in Seq(LineShapes(Q, E))
<1>1. PICK f : JoinRun(f, LineShapes(Q, E), page)
  BY JoinStepwise
<1>2. Len(page) \in 0 .. Len(page)
  OBVIOUS
<1> QED BY <1>1, <1>2 DEF JoinRun

\* Joining the broken words of a page takes none of its text.
LEMMA JoinKeepsText ==
    ASSUME NEW Q, NEW E, NEW page \in Seq(LineShapes(Q, E))
    PROVE  TextOf(JoinHyphens(page)) = TextOf(page)
<1> DEFINE n == Len(page)
<1>1. n \in Nat /\ \A k \in 1 .. n : page[k] \in LineShapes(Q, E)
  OBVIOUS
<1>2. PICK f : JoinRun(f, LineShapes(Q, E), page)
  BY JoinStepwise
<1>3. PICK r : TextRun(r, Q, page)
  BY TextStepwise
<1>4. /\ f \in [0 .. n -> Seq(LineShapes(Q, E))]
      /\ f[0] = <<>> /\ f[n] = JoinHyphens(page)
      /\ \A k \in 1 .. n : /\ f[k] = JoinStep(page, f[k - 1], k) /\ f[k] # <<>>
                           /\ ~IsBlank(page[k]) => ~IsBlank(Last(f[k]))
  BY <1>2 DEF JoinRun
<1>5. /\ r[0] = <<>> /\ r[n] = TextOf(page)
      /\ \A k \in 1 .. n : r[k] = r[k - 1] \o Said(page[k].words)
  BY <1>3 DEF TextRun
<1>6. \A i \in 0 .. n : Joined(page)[i] =>
              /\ i \in 1 .. n - 1
              /\ ~IsBlank(page[i]) /\ ~IsBlank(page[i + 1])
  BY JoinedLines
<1> HIDE DEF n
<1> DEFINE A == {k \in 0 .. n : TextOf(f[k]) = r[k]}
<1>7. 0 \in A
  BY <1>1, <1>4, <1>5, TextFew
<1>8. ASSUME NEW k \in 0 .. n - 1, k \in A PROVE k + 1 \in A
  <2> DEFINE t == f[k]
             line == page[k + 1]
  <2>1. k + 1 \in 1 .. n /\ (k + 1) - 1 = k /\ k + 1 \in 0 .. n /\ k \in 0 .. n
    BY <1>1
  <2>2. t \in Seq(LineShapes(Q, E)) /\ line \in LineShapes(Q, E)
    BY <1>1, <1>4, <2>1
  <2>3. r[k + 1] = TextOf(t) \o Said(line.words) /\ f[k + 1] = JoinStep(page, t, k + 1)
    BY <1>4, <1>5, <1>8, <2>1
  <2>4. TextOf(f[k + 1]) = TextOf(t) \o Said(line.words)
    <3>1. CASE Joined(page)[k]
      <4>1. k \in 1 .. n /\ ~IsBlank(page[k]) /\ ~IsBlank(line)
        BY <1>1, <1>6, <2>1, <3>1
      <4>2. t # <<>> /\ ~IsBlank(Last(t))
        BY <1>4, <4>1
      <4>3. f[k + 1] = Append(Front(t), Glue(Last(t), line))
        BY <2>1, <2>3, <3>1 DEF JoinStep
      <4>4. \A s \in Seq(LineShapes(Q, E)), m \in LineShapes(Q, E) :
               (s # <<>> /\ ~IsBlank(Last(s)) /\ ~IsBlank(m)) =>
               TextOf(Append(Front(s), Glue(Last(s), m))) = TextOf(s) \o Said(m.words)
        BY GlueLast
      <4> HIDE DEF t, line
      <4> QED BY <2>2, <4>1, <4>2, <4>3, <4>4
    <3>2. CASE ~Joined(page)[k]
      <4>1. f[k + 1] = Append(t, line)
        BY <2>1, <2>3, <3>2 DEF JoinStep
      <4>2. \A q \in Seq(LineShapes(Q, E)), m \in LineShapes(Q, E) :
                TextOf(Append(q, m)) = TextOf(q) \o Said(m.words)
        BY TextAppend
      <4> HIDE DEF t, line
      <4> QED BY <2>2, <4>1, <4>2
    <3> QED BY <3>1, <3>2
  <2> QED BY <2>1, <2>3, <2>4
<1> HIDE DEF A
<1>9. \A k \in 0 .. n : k \in A
  BY <1>1, <1>7, <1>8, UpTo
<1>10. n \in 0 .. n
  BY <1>1
<1>11. TextOf(f[n]) = r[n]
  BY <1>9, <1>10 DEF A
<1> QED BY <1>4, <1>5, <1>11

LEMMA CleanKeepsText ==
    ASSUME NEW Q, NEW E, NEW page \in Seq(LineShapes(Q, E))
    PROVE  TextOf(CleanPageText(page)) = TextOf(page)
<1>1. JoinHyphens(page) \in Seq(LineShapes(Q, E)) /\ TextOf(JoinHyphens(page)) = TextOf(page)
  BY JoinKeepsText, JoinType
<1>2. \A p \in Seq(LineShapes(Q, E)) : TextOf(StripFooters(p)) = TextOf(p)
  BY StripKeepsText
<1> QED BY <1>1, <1>2 DEF CleanPageText

\* However long the document and its pages: cleaning takes no text from a page
\* but one line that heads two fifths of the pages, and moves none
\* (cleaner.py:52-122).
THEOREM TextAlwaysSurvives ==
    ASSUME NEW Q, NEW E, NEW pages \in Seq(Seq(LineShapes(Q, E)))
    PROVE  TextSurvives(pages)
<1> DEFINE L == LineShapes(Q, E)
           kept == DropRepeatedHeaders(pages)
<1> SUFFICES ASSUME NEW p \in DOMAIN pages
             PROVE  \/ TextOf(CleanPages(pages)[p]) = TextOf(pages[p])
                    \/ /\ Len(pages) >= 4
                       /\ \E i \in DOMAIN pages[p] :
                            /\ TextOf(CleanPages(pages)[p]) = TextOf(RemoveAt(pages[p], i))
                            /\ 5 * Cardinality(HeadedBy(pages, Strip(pages[p][i])))
                                    >= 2 * Len(pages)
  BY Zenon DEF TextSurvives
<1>1. DOMAIN kept = DOMAIN pages
  BY DEF DropRepeatedHeaders
<1>2. CleanPages(pages)[p] = CleanPageText(kept[p])
  BY <1>1 DEF CleanPages
<1>3. pages[p] \in Seq(LineShapes(Q, E))
  OBVIOUS
<1>4. \A page \in Seq(LineShapes(Q, E)) : TextOf(CleanPageText(page)) = TextOf(page)
  BY CleanKeepsText
<1>5. CASE Len(pages) < 4
  <2>1. kept[p] = pages[p]
    BY <1>5 DEF DropRepeatedHeaders
  <2> QED BY <1>2, <1>3, <1>4, <2>1
<1>6. CASE ~(Len(pages) < 4)
  <2>1. Len(pages) >= 4 /\ pages \in Seq(Seq(L))
    BY <1>6
  <2> HIDE DEF L
  <2>2. LET k == DropRepeatedHeaders(pages)[p] IN
           \/ /\ k = pages[p]
              /\ \A i \in Written(pages[p]) :
                    2 * Cardinality(HeadedBy(pages, Strip(pages[p][i]))) <= Len(pages)
           \/ \E i \in Written(pages[p]) :
                 /\ k = RemoveAt(pages[p], i)
                 /\ 5 * Cardinality(HeadedBy(pages, Strip(pages[p][i])))
                        >= 2 * Len(pages)
    BY <2>1, DroppedLineIsCommon
  <2>3. CASE kept[p] = pages[p]
    BY <1>2, <1>3, <1>4, <2>3
  <2>4. ASSUME NEW i \in Written(pages[p]), kept[p] = RemoveAt(pages[p], i),
               5 * Cardinality(HeadedBy(pages, Strip(pages[p][i]))) >= 2 * Len(pages)
        PROVE  /\ i \in DOMAIN pages[p]
               /\ TextOf(CleanPages(pages)[p]) = TextOf(RemoveAt(pages[p], i))
    <3>1. i \in DOMAIN pages[p]
      BY DEF Written
    <3>2. pages[p] \in Seq(L) /\ i \in 1 .. Len(pages[p])
      BY <1>3, <3>1 DEF L
    <3>3. RemoveAt(pages[p], i) \in Seq(LineShapes(Q, E))
      <4>1. RemoveAt(pages[p], i) \in Seq(L)
        BY <3>2, RemoveAtFacts
      <4> QED BY <4>1 DEF L
    <3> QED BY <1>2, <1>4, <2>4, <3>1, <3>3
  <2>5. CASE \E i \in Written(pages[p]) :
                 /\ kept[p] = RemoveAt(pages[p], i)
                 /\ 5 * Cardinality(HeadedBy(pages, Strip(pages[p][i]))) >= 2 * Len(pages)
    <3>1. PICK i \in Written(pages[p]) :
                 /\ kept[p] = RemoveAt(pages[p], i)
                 /\ 5 * Cardinality(HeadedBy(pages, Strip(pages[p][i]))) >= 2 * Len(pages)
      BY <2>5
    <3>2. i \in DOMAIN pages[p] /\ TextOf(CleanPages(pages)[p]) = TextOf(RemoveAt(pages[p], i))
      BY <2>4, <3>1
    <3> QED BY <2>1, <3>1, <3>2
  <2> QED BY <2>2, <2>3, <2>5
<1> QED BY <1>5, <1>6

-----------------------------------------------------------------------------
(* Loading.                                                                 *)

\* A page with text has a line that is not blank.
LEMMA TextIsWritten ==
    ASSUME NEW Q, NEW E, NEW page \in Seq(LineShapes(Q, E)), Written(page) = {}
    PROVE  TextOf(page) = <<>>
<1> DEFINE n == Len(page)
<1>1. n \in Nat /\ \A k \in 1 .. n : page[k].words = <<>>
  BY DEF Written, IsBlank
<1>2. PICK f : TextRun(f, Q, page)
  BY TextStepwise
<1>3. f[0] = <<>> /\ f[n] = TextOf(page) /\ \A k \in 1 .. n : f[k] = f[k - 1] \o Said(<<>>)
  BY <1>1, <1>2 DEF TextRun
<1>4. Said(<<>>) = <<>>
  BY SaidFew
<1> DEFINE T == {k \in 0 .. n : f[k] = <<>>}
<1> HIDE DEF n
<1>5. 0 \in T
  BY <1>1, <1>3
<1>6. ASSUME NEW k \in 0 .. n - 1, k \in T PROVE k + 1 \in T
  <2>1. k + 1 \in 1 .. n /\ k + 1 - 1 = k /\ f[k] = <<>>
    BY <1>1, <1>6
  <2>2. f[k + 1] = <<>> \o <<>>
    BY <1>3, <1>4, <2>1
  <2>3. f[k + 1] = <<>>
    BY <2>2
  <2> QED BY <1>1, <2>1, <2>3
<1> HIDE DEF T
<1>7. \A k \in 0 .. n : k \in T
  BY <1>1, <1>5, <1>6, UpTo
<1> QED BY <1>1, <1>3, <1>7 DEF T

\* However long the file: what one extractor can read is not all lost by the
\* choice between the two and the cleaning, but for what is said of it
\* (loader.py:70-84, cleaner.py:52-122).
THEOREM ReadableAlwaysSurvives ==
    ASSUME NEW Q, NEW E, NEW plumber, NEW pypdf,
           plumber.pages \in Seq(Seq(LineShapes(Q, E))),
           pypdf.pages \in Seq(Seq(LineShapes(Q, E)))
    PROVE  ReadableSurvives(plumber, pypdf)
<1> DEFINE pages == LoadPdf(plumber, pypdf).pages
           Rd(read) == read.ok = "yes" /\ WithText(read.pages) # {}
<1> SUFFICES ASSUME Rd(plumber) \/ Rd(pypdf), WithText(CleanPages(pages)) = {},
                    ~(plumber.ok = "yes" /\ HasText(plumber) /\ ~Rd(plumber))
             PROVE  /\ Len(pages) >= 4 /\ WithText(pages) # {}
                    /\ \A p \in WithText(pages) :
                          \E i \in DOMAIN pages[p] : IsCommonText(pages, p, i)
  BY DEF ReadableSurvives
<1>1. Rd(plumber) => plumber.ok = "yes" /\ HasText(plumber)
  <2> SUFFICES ASSUME Rd(plumber) PROVE HasText(plumber)
    OBVIOUS
  <2>1. PICK p \in DOMAIN plumber.pages : TextOf(plumber.pages[p]) # <<>>
    BY DEF WithText
  <2>2. plumber.pages[p] \in Seq(LineShapes(Q, E))
    OBVIOUS
  <2>3. Written(plumber.pages[p]) # {}
    BY <2>1, <2>2, TextIsWritten
  <2> QED BY <2>3 DEF HasText
<1>2. pages \in Seq(Seq(LineShapes(Q, E))) /\ WithText(pages) # {}
  <2>1. CASE plumber.ok = "yes" /\ HasText(plumber)
    BY <2>1 DEF LoadPdf
  <2>2. CASE ~(plumber.ok = "yes" /\ HasText(plumber))
    BY <1>1, <2>2 DEF LoadPdf
  <2> QED BY <2>1, <2>2
<1> HIDE DEF pages
<1>3. TextSurvives(pages)
  BY <1>2, TextAlwaysSurvives
<1>4. DOMAIN CleanPages(pages) = DOMAIN pages
  BY DEF CleanPages, DropRepeatedHeaders
<1>5. ASSUME NEW p \in WithText(pages)
      PROVE  Len(pages) >= 4 /\ \E i \in DOMAIN pages[p] : IsCommonText(pages, p, i)
  <2>1. p \in DOMAIN pages /\ TextOf(pages[p]) # <<>>
    BY DEF WithText
  <2>2. TextOf(CleanPages(pages)[p]) = <<>>
    BY <1>4, <2>1 DEF WithText
  <2>3. \/ TextOf(CleanPages(pages)[p]) = TextOf(pages[p])
        \/ /\ Len(pages) >= 4
           /\ \E i \in DOMAIN pages[p] :
                /\ TextOf(CleanPages(pages)[p]) = TextOf(RemoveAt(pages[p], i))
                /\ 5 * Cardinality(HeadedBy(pages, Strip(pages[p][i]))) >= 2 * Len(pages)
    BY <1>3, <2>1, Zenon DEF TextSurvives
  <2> QED BY <2>1, <2>2, <2>3, Zenon DEF IsCommonText
<1> QED BY <1>2, <1>5

-----------------------------------------------------------------------------
(* The numbers on a page.                                                   *)

LEMMA MembersOf ==
    ASSUME NEW T, NEW s \in Seq(T)
    PROVE  /\ \A x : x \in ToSet(s) <=> \E i \in 1 .. Len(s) : s[i] = x
           /\ \A t \in Seq(T) : ToSet(s \o t) = ToSet(s) \cup ToSet(t)
           /\ \A x \in T : ToSet(Append(s, x)) = ToSet(s) \cup {x}
           /\ ToSet(<<>>) = {}
<1>1. \A t \in Seq(T) : \A x : x \in ToSet(t) <=> \E i \in 1 .. Len(t) : t[i] = x
  BY DEF ToSet
<1>2. ASSUME NEW t \in Seq(T) PROVE ToSet(s \o t) = ToSet(s) \cup ToSet(t)
  <2> DEFINE r == s \o t
             m == Len(s)
             n == Len(t)
  <2>1. r \in Seq(T) /\ Len(r) = m + n /\ m \in Nat /\ n \in Nat
    BY ConcatProperties
  <2>2. \A i \in 1 .. m + n : r[i] = IF i <= m THEN s[i] ELSE t[i - m]
    BY ConcatProperties
  <2>3. /\ \A x : x \in ToSet(s) <=> \E i \in 1 .. m : s[i] = x
        /\ \A x : x \in ToSet(t) <=> \E i \in 1 .. n : t[i] = x
        /\ \A x : x \in ToSet(r) <=> \E i \in 1 .. m + n : r[i] = x
    <3> HIDE DEF r
    <3> QED BY <1>1, <2>1
  <2> HIDE DEF r, m, n
  <2>4. ASSUME NEW x \in ToSet(s) PROVE x \in ToSet(r)
    <3>1. PICK i \in 1 .. m : s[i] = x
      BY <2>3
    <3>2. i \in 1 .. m + n /\ i <= m
      BY <2>1
    <3> QED BY <2>2, <2>3, <3>1, <3>2
  <2>5. ASSUME NEW x \in ToSet(t) PROVE x \in ToSet(r)
    <3>1. PICK i \in 1 .. n : t[i] = x
      BY <2>3
    <3>2. m + i \in 1 .. m + n /\ ~(m + i <= m) /\ (m + i) - m = i
      BY <2>1
    <3> QED BY <2>2, <2>3, <3>1, <3>2
  <2>6. ASSUME NEW x \in ToSet(r) PROVE x \in ToSet(s) \cup ToSet(t)
    <3>1. PICK i \in 1 .. m + n : r[i] = x
      BY <2>3
    <3>2. CASE i <= m
      <4>1. i \in 1 .. m
        BY <2>1, <3>2
      <4> QED BY <2>2, <2>3, <3>1, <3>2, <4>1
    <3>3. CASE ~(i <= m)
      <4>1. i - m \in 1 .. n
        BY <2>1, <3>3
      <4> QED BY <2>2, <2>3, <3>1, <3>3, <4>1
    <3> QED BY <3>2, <3>3
  <2>7. ToSet(r) = ToSet(s) \cup ToSet(t)
    BY <2>4, <2>5, <2>6
  <2> QED BY <2>7 DEF r
<1>3. ASSUME NEW x \in T PROVE ToSet(Append(s, x)) = ToSet(s) \cup {x}
  <2>1. Append(s, x) = s \o <<x>> /\ <<x>> \in Seq(T)
    BY AppendIsConcat
  <2>2. ToSet(s \o <<x>>) = ToSet(s) \cup ToSet(<<x>>)
    BY <1>2, <2>1
  <2>3. ToSet(<<x>>) = {x}
    BY DEF ToSet
  <2> QED BY <2>1, <2>2, <2>3
<1>4. ToSet(<<>>) = {}
  BY DEF ToSet
<1> QED BY <1>1, <1>2, <1>3, <1>4

LEMMA KeptMembers ==
    ASSUME NEW T, NEW S, NEW s \in Seq(T)
    PROVE  \A x : x \in ToSet(Keep(s, S)) <=> x \in ToSet(s) /\ x \in S
<1> DEFINE n == Len(s)
<1>1. n \in Nat /\ \A i \in 1 .. n : s[i] \in T
  OBVIOUS
<1>2. PICK f : KeepRun(f, T, s, S)
  BY KeepStepwise
<1>3. /\ f \in [0 .. n -> Seq(T)] /\ f[0] = <<>> /\ f[n] = Keep(s, S)
      /\ \A k \in 1 .. n : f[k] = IF s[k] \in S THEN Append(f[k - 1], s[k]) ELSE f[k - 1]
  BY <1>2 DEF KeepRun
<1> DEFINE Good(k) == \A x : x \in ToSet(f[k]) <=> \E i \in 1 .. k : s[i] = x /\ x \in S
           A == {k \in 0 .. n : Good(k)}
<1> HIDE DEF n
<1>4. 0 \in A
  <2>1. ToSet(f[0]) = {}
    BY <1>3, MembersOf
  <2>2. Good(0)
    BY <2>1
  <2> HIDE DEF Good
  <2> QED BY <1>1, <2>2
<1>5. ASSUME NEW k \in 0 .. n - 1, k \in A PROVE k + 1 \in A
  <2>1. /\ k + 1 \in 1 .. n /\ (k + 1) - 1 = k /\ k + 1 \in 0 .. n /\ k \in 0 .. n
        /\ 1 .. k + 1 = (1 .. k) \cup {k + 1}
    BY <1>1
  <2>2. Good(k) /\ f[k] \in Seq(T) /\ s[k + 1] \in T
    BY <1>1, <1>3, <1>5, <2>1
  <2>3. Good(k + 1)
    <3>1. CASE s[k + 1] \in S
      <4>1. f[k + 1] = Append(f[k], s[k + 1])
        BY <1>3, <2>1, <3>1
      <4>2. ToSet(f[k + 1]) = ToSet(f[k]) \cup {s[k + 1]}
        BY <2>2, <4>1, MembersOf
      <4> QED BY <2>1, <2>2, <3>1, <4>2
    <3>2. CASE s[k + 1] \notin S
      <4>1. f[k + 1] = f[k]
        BY <1>3, <2>1, <3>2
      <4> QED BY <2>1, <2>2, <3>2, <4>1
    <3> QED BY <3>1, <3>2
  <2> HIDE DEF Good
  <2> QED BY <2>1, <2>3
<1> HIDE DEF A
<1>6. \A k \in 0 .. n : k \in A
  BY <1>1, <1>4, <1>5, UpTo
<1>7. n \in 0 .. n
  BY <1>1
<1>8. Good(n)
  BY <1>6, <1>7 DEF A
<1>9. \A x : x \in ToSet(s) <=> \E i \in 1 .. n : s[i] = x
  BY MembersOf DEF n
<1> QED BY <1>3, <1>8, <1>9

LEMMA FlatMembers ==
    ASSUME NEW T, NEW ss \in Seq(Seq(T))
    PROVE  \A x : x \in ToSet(FlattenSeq(ss)) <=> \E i \in 1 .. Len(ss) : x \in ToSet(ss[i])
<1> DEFINE n == Len(ss)
<1>1. n \in Nat /\ \A i \in 1 .. n : ss[i] \in Seq(T)
  OBVIOUS
<1>2. PICK f : FlatRun(f, T, ss)
  BY FlattenStepwise
<1>3. /\ f \in [0 .. n -> Seq(T)] /\ f[0] = <<>> /\ f[n] = FlattenSeq(ss)
      /\ \A k \in 1 .. n : f[k] = f[k - 1] \o ss[k]
  BY <1>2 DEF FlatRun
<1> DEFINE Good(k) == \A x : x \in ToSet(f[k]) <=> \E i \in 1 .. k : x \in ToSet(ss[i])
           A == {k \in 0 .. n : Good(k)}
<1> HIDE DEF n
<1>4. 0 \in A
  <2>1. ToSet(f[0]) = {}
    BY <1>3, MembersOf
  <2>2. Good(0)
    BY <2>1
  <2> HIDE DEF Good
  <2> QED BY <1>1, <2>2
<1>5. ASSUME NEW k \in 0 .. n - 1, k \in A PROVE k + 1 \in A
  <2>1. /\ k + 1 \in 1 .. n /\ (k + 1) - 1 = k /\ k + 1 \in 0 .. n /\ k \in 0 .. n
        /\ 1 .. k + 1 = (1 .. k) \cup {k + 1}
    BY <1>1
  <2>2. Good(k) /\ f[k] \in Seq(T) /\ ss[k + 1] \in Seq(T)
    BY <1>1, <1>3, <1>5, <2>1
  <2>3. f[k + 1] = f[k] \o ss[k + 1]
    BY <1>3, <2>1
  <2>4. ToSet(f[k + 1]) = ToSet(f[k]) \cup ToSet(ss[k + 1])
    BY <2>2, <2>3, MembersOf
  <2>5. Good(k + 1)
    BY <2>1, <2>2, <2>4
  <2> HIDE DEF Good
  <2> QED BY <2>1, <2>5
<1> HIDE DEF A
<1>6. \A k \in 0 .. n : k \in A
  BY <1>1, <1>4, <1>5, UpTo
<1>7. n \in 0 .. n
  BY <1>1
<1>8. Good(n)
  BY <1>6, <1>7 DEF A
<1> QED BY <1>3, <1>8 DEF n

LEMMA PieceOnLine ==
    ASSUME NEW Q, NEW E, NEW page \in Seq(LineShapes(Q, E))
    PROVE  \A x : HasPiece(page, x) <=> \E i \in 1 .. Len(page) : x \in On(page[i])
<1> DEFINE W == Seq(Q)
           ws == WordsOn(page)
           fs == FlattenSeq(ws)
<1>1. ws \in Seq(Seq(W))
  BY WordsOnType
<1>2. Len(ws) = Len(page) /\ \A i \in 1 .. Len(page) : ws[i] = page[i].words
  BY DEF WordsOn
<1>3. Pieces(page) = FlattenSeq(fs)
  BY DEF Pieces, WordsOn
<1> HIDE DEF ws
<1>4. fs \in Seq(W)
  <2> HIDE DEF W
  <2> QED BY <1>1, FlattenFew
<1>5. \A w : w \in ToSet(fs) <=> \E i \in 1 .. Len(ws) : w \in ToSet(ws[i])
  <2> HIDE DEF W
  <2> QED BY <1>1, FlatMembers
<1> HIDE DEF fs
<1>6. \A x : x \in ToSet(FlattenSeq(fs)) <=> \E i \in 1 .. Len(fs) : x \in ToSet(fs[i])
  BY <1>4, FlatMembers
<1>7. \A w : w \in ToSet(fs) <=> \E i \in 1 .. Len(fs) : fs[i] = w
  <2> HIDE DEF W
  <2> QED BY <1>4, MembersOf
<1>8. \A x : x \in ToSet(FlattenSeq(fs)) <=> \E w \in ToSet(fs) : x \in ToSet(w)
  BY <1>6, <1>7
<1>9. ASSUME NEW i \in 1 .. Len(page)
      PROVE  \A x : x \in On(page[i]) <=> \E w \in ToSet(ws[i]) : x \in ToSet(w)
  <2>1. ws[i] \in Seq(W) /\ ws[i] = page[i].words
    BY <1>1, <1>2
  <2> DEFINE v == ws[i]
  <2> HIDE DEF v
  <2>2. \A x : x \in ToSet(FlattenSeq(v)) <=> \E j \in 1 .. Len(v) : x \in ToSet(v[j])
    BY <2>1, FlatMembers DEF v
  <2>3. \A w : w \in ToSet(v) <=> \E j \in 1 .. Len(v) : v[j] = w
    <3> HIDE DEF W
    <3> QED BY <2>1, MembersOf DEF v
  <2>4. \A x : x \in ToSet(FlattenSeq(v)) <=> \E w \in ToSet(v) : x \in ToSet(w)
    BY <2>2, <2>3
  <2> QED BY <2>1, <2>4 DEF On, v
<1>10. \A x : HasPiece(page, x) <=> x \in ToSet(FlattenSeq(fs))
  BY <1>3 DEF HasPiece
<1> HIDE DEF W
<1> QED BY <1>2, <1>5, <1>8, <1>9, <1>10

\* line is what lines lo to hi of the page have become, joined.
Spans(page, line, lo, hi) ==
    /\ \A x : x \in On(line) <=> \E j \in lo .. hi : x \in On(page[j])
    /\ line.end = page[hi].end
    /\ \A j \in lo .. hi - 1 : Joined(page)[j]
    /\ lo = hi => line = page[lo]
    /\ (lo < hi /\ Len(line.words) = 1) =>
            /\ hi = lo + 1 /\ line = Glue(page[lo], page[hi])
            /\ Len(page[lo].words) = 1 /\ Len(page[hi].words) = 1

LEMMA SpanAlone ==
    ASSUME NEW page, NEW k \in Nat
    PROVE  Spans(page, page[k], k, k)
<1>1. k .. k = {k} /\ k .. k - 1 = {} /\ ~(k < k)
  OBVIOUS
<1> QED BY <1>1 DEF Spans

LEMMA SpanGlued ==
    ASSUME NEW Q, NEW E, NEW page \in Seq(LineShapes(Q, E)),
           NEW k \in 0 .. Len(page), NEW lo \in 1 .. k, Joined(page)[k],
           NEW t \in LineShapes(Q, E), ~IsBlank(t), Spans(page, t, lo, k)
    PROVE  Spans(page, Glue(t, page[k + 1]), lo, k + 1)
<1> DEFINE n == Len(page)
           b == page[k + 1]
           u == Glue(t, b)
<1>1. /\ k \in 1 .. n - 1 /\ ~IsBlank(b)
      /\ ~(Joined(page)[k - 1] /\ Len(page[k].words) = 1)
  BY JoinedLines
<1>2. n \in Nat /\ b \in LineShapes(Q, E)
  BY <1>1
<1>3. ReadsAsBoth(u, t, b)
  <2>1. \A p, q \in LineShapes(Q, E) : (~IsBlank(p) /\ ~IsBlank(q)) => ReadsAsBoth(Glue(p, q), p, q)
    BY GlueReadsBoth
  <2> HIDE DEF b
  <2> QED BY <1>1, <1>2, <2>1
<1>4. u.end = b.end
  BY DEF Glue
<1>5. t.words \in Seq(Seq(Q)) /\ b.words \in Seq(Seq(Q)) /\ t.words # <<>> /\ b.words # <<>>
  BY <1>1, <1>2 DEF LineShapes, IsBlank
<1> HIDE DEF b, u, n
<1>6. \A x : x \in On(u) <=> x \in On(t) \/ x \in On(b)
  <2> DEFINE ft == FlattenSeq(t.words)
             fb == FlattenSeq(b.words)
  <2>1. ft \in Seq(Q) /\ fb \in Seq(Q)
    BY <1>5, FlattenFew
  <2> HIDE DEF ft, fb
  <2>2. ToSet(ft \o fb) = ToSet(ft) \cup ToSet(fb)
    BY <2>1, MembersOf
  <2>3. FlattenSeq(u.words) = ft \o fb
    BY <1>3 DEF ReadsAsBoth, ft, fb
  <2> QED BY <2>2, <2>3 DEF On, ft, fb
<1>7. \A x : x \in On(u) <=> \E j \in lo .. k + 1 : x \in On(page[j])
  <2>1. \A x : x \in On(t) <=> \E j \in lo .. k : x \in On(page[j])
    BY DEF Spans
  <2>2. lo .. k + 1 = (lo .. k) \cup {k + 1}
    BY <1>1, <1>2
  <2> QED BY <1>6, <2>1, <2>2 DEF b
<1>8. \A j \in lo .. (k + 1) - 1 : Joined(page)[j]
  <2>1. \A j \in lo .. k - 1 : Joined(page)[j]
    BY DEF Spans
  <2>2. \A j \in lo .. (k + 1) - 1 : j = k \/ j \in lo .. k - 1
    BY <1>1, <1>2
  <2> QED BY <2>1, <2>2
<1>9. ASSUME Len(u.words) = 1
      PROVE  /\ k + 1 = lo + 1 /\ u = Glue(page[lo], page[k + 1])
             /\ Len(page[lo].words) = 1 /\ Len(page[k + 1].words) = 1
  <2>1. Len(t.words) = 1 /\ Len(b.words) = 1
    <3> DEFINE p == Len(t.words)
               q == Len(b.words)
    <3>1. p \in Nat \ {0} /\ q \in Nat \ {0}
      BY <1>5
    <3>2. p + q - 1 = 1
      BY <1>3, <1>9 DEF ReadsAsBoth
    <3> HIDE DEF p, q
    <3>3. p = 1 /\ q = 1
      BY <3>1, <3>2
    <3> QED BY <3>3 DEF p, q
  <2>2. lo = k
    <3> SUFFICES ASSUME lo # k PROVE FALSE
      OBVIOUS
    <3>1. lo < k /\ k - 1 \in lo .. k - 1
      BY <1>1
    <3>2. Len(page[k].words) = 1 /\ Joined(page)[k - 1]
      BY <2>1, <3>1 DEF Spans
    <3> QED BY <1>1, <3>2
  <2>3. t = page[lo]
    BY <2>2 DEF Spans
  <2> QED BY <2>1, <2>2, <2>3 DEF b, u
<1>10. lo # k + 1
  BY <1>1
<1>11. Spans(page, u, lo, k + 1)
  BY <1>4, <1>7, <1>8, <1>9, <1>10 DEF Spans, b
<1> QED BY <1>11 DEF u, b

\* Every line that is left spans lines of the page, and every line of the page
\* is in one that is left.
AllSpan(page, t) ==
    \A line \in ToSet(t) : \E a, b \in 1 .. Len(page) : a <= b /\ Spans(page, line, a, b)
Covers(page, t, j) ==
    \E line \in ToSet(t) : \E a, b \in 1 .. Len(page) : a <= j /\ j <= b /\ Spans(page, line, a, b)

LEMMA FrontAppended ==
    ASSUME NEW T, NEW s \in Seq(T), NEW x \in T
    PROVE  Front(Append(s, x)) = s
<1> DEFINE u == Append(s, x)
           f == Front(u)
           n == Len(s)
<1>1. n \in Nat /\ u \in Seq(T) /\ Len(u) = n + 1 /\ \A i \in 1 .. n : u[i] = s[i]
  OBVIOUS
<1>2. u # <<>>
  BY <1>1
<1> HIDE DEF u
<1>3. f \in Seq(T) /\ Len(f) = Len(u) - 1
  BY <1>1, <1>2, EndsOfList
<1>4. \A i \in 1 .. n : f[i] = u[i]
  BY <1>1 DEF Front
<1>5. s \in Seq(T) /\ f \in Seq(T) /\ Len(f) = n
  BY <1>1, <1>3
<1> HIDE DEF f
<1>6. f = s
  <2>1. f \in [1 .. n -> T] /\ s \in [1 .. n -> T]
    BY <1>5
  <2> QED BY <1>1, <1>4, <2>1
<1> QED BY <1>6 DEF f, u

LEMMA JoinSpans ==
    ASSUME NEW Q, NEW E, NEW page \in Seq(LineShapes(Q, E))
    PROVE  /\ AllSpan(page, JoinHyphens(page))
           /\ \A j \in 1 .. Len(page) : Covers(page, JoinHyphens(page), j)
<1> DEFINE L == LineShapes(Q, E)
           n == Len(page)
<1>1. n \in Nat /\ \A k \in 1 .. n : page[k] \in L
  OBVIOUS
<1>2. PICK f : JoinRun(f, L, page)
  BY JoinStepwise
<1>3. /\ f \in [0 .. n -> Seq(L)] /\ f[0] = <<>> /\ f[n] = JoinHyphens(page)
      /\ \A k \in 1 .. n : /\ f[k] = JoinStep(page, f[k - 1], k) /\ f[k] # <<>>
                           /\ ~IsBlank(page[k]) => ~IsBlank(Last(f[k]))
  BY <1>2 DEF JoinRun
<1>4. \A i \in 0 .. n : Joined(page)[i] =>
              /\ i \in 1 .. n - 1
              /\ ~IsBlank(page[i]) /\ ~IsBlank(page[i + 1])
  BY JoinedLines
<1>n. \A t : /\ AllSpan(page, t) <=> \A line \in ToSet(t) :
                    \E a, b \in 1 .. n : a <= b /\ Spans(page, line, a, b)
             /\ \A j : Covers(page, t, j) <=> \E line \in ToSet(t) : \E a, b \in 1 .. n :
                    a <= j /\ j <= b /\ Spans(page, line, a, b)
  BY DEF AllSpan, Covers
<1> HIDE DEF n
<1>5. \A t \in Seq(L) : t # <<>> =>
            /\ Front(t) \in Seq(L) /\ Last(t) \in L
            /\ ToSet(t) = ToSet(Front(t)) \cup {Last(t)}
  <2> HIDE DEF L
  <2> SUFFICES ASSUME NEW t \in Seq(L), t # <<>>
               PROVE  /\ Front(t) \in Seq(L) /\ Last(t) \in L
                      /\ ToSet(t) = ToSet(Front(t)) \cup {Last(t)}
    OBVIOUS
  <2>1. Front(t) \in Seq(L) /\ Last(t) \in L /\ t = Front(t) \o <<Last(t)>>
    BY EndsOfList
  <2> DEFINE s == Front(t)
             x == Last(t)
  <2>2. s \in Seq(L) /\ x \in L /\ t = s \o <<x>>
    BY <2>1
  <2> HIDE DEF s, x
  <2>3. Append(s, x) = s \o <<x>>
    BY <2>2, AppendIsConcat
  <2>4. ToSet(Append(s, x)) = ToSet(s) \cup {x}
    BY <2>2, MembersOf
  <2>5. ToSet(t) = ToSet(s) \cup {x}
    BY <2>2, <2>3, <2>4
  <2> QED BY <2>1, <2>5 DEF s, x
<1> DEFINE Ends(t, k, lo) == /\ Spans(page, Last(t), lo, k)
                             /\ AllSpan(page, Front(t))
                             /\ \A j \in 1 .. lo - 1 : Covers(page, Front(t), j)
           Good(k) == k # 0 => \E lo \in 1 .. k : Ends(f[k], k, lo)
           A == {k \in 0 .. n : Good(k)}
<1>6. ASSUME NEW k \in 0 .. n, Good(k)
      PROVE  AllSpan(page, f[k]) /\ \A j \in 1 .. k : Covers(page, f[k], j)
  <2>1. CASE k = 0
    <3>1. ToSet(f[k]) = {} /\ 1 .. k = {}
      BY <1>3, <2>1, MembersOf
    <3> HIDE DEF Ends
    <3> QED BY <1>n, <3>1
  <2>2. CASE k # 0
    <3> DEFINE t == f[k]
    <3>1. PICK lo \in 1 .. k : Ends(t, k, lo)
      BY <1>6, <2>2
    <3>2. t \in Seq(L) /\ t # <<>> /\ k \in 1 .. n
      BY <1>1, <1>3, <2>2
    <3> HIDE DEF t
    <3>3. ToSet(t) = ToSet(Front(t)) \cup {Last(t)}
      BY <1>5, <3>2
    <3>4. /\ Spans(page, Last(t), lo, k) /\ AllSpan(page, Front(t))
          /\ \A j \in 1 .. lo - 1 : Covers(page, Front(t), j)
      BY <3>1
    <3>5. lo \in 1 .. n /\ lo <= k
      BY <1>1, <3>2
    <3>6. AllSpan(page, t)
      BY <1>n, <3>2, <3>3, <3>4, <3>5
    <3>7. ASSUME NEW j \in 1 .. k PROVE Covers(page, t, j)
      <4>1. CASE j < lo
        <5>1. j \in 1 .. lo - 1
          BY <3>5, <4>1
        <5>2. Covers(page, Front(t), j)
          BY <3>4, <5>1
        <5> QED BY <1>n, <3>3, <5>2
      <4>2. CASE ~(j < lo)
        <5>1. lo <= j /\ j <= k
          BY <3>5, <4>2
        <5> QED BY <1>n, <3>2, <3>3, <3>4, <3>5, <5>1
      <4> QED BY <4>1, <4>2
    <3> QED BY <3>6, <3>7 DEF t
  <2> QED BY <2>1, <2>2
<1>7. 0 \in A
  BY <1>1
<1>8. ASSUME NEW k \in 0 .. n - 1, k \in A PROVE k + 1 \in A
  <2> DEFINE t == f[k]
             line == page[k + 1]
             u == f[k + 1]
  <2>1. k + 1 \in 1 .. n /\ (k + 1) - 1 = k /\ k + 1 \in 0 .. n /\ k \in 0 .. n
        /\ k + 1 \in 1 .. k + 1 /\ k + 1 \in Nat
    BY <1>1
  <2>2. t \in Seq(L) /\ line \in L /\ Good(k)
    BY <1>1, <1>3, <1>8, <2>1
  <2>3. u = JoinStep(page, t, k + 1)
    BY <1>3, <2>1
  <2> HIDE DEF t, line, u
  <2>4. \E lo \in 1 .. k + 1 : Ends(u, k + 1, lo)
    <3>1. CASE Joined(page)[k]
      <4>1. k \in 1 .. n /\ k # 0 /\ ~IsBlank(page[k]) /\ ~IsBlank(line)
        BY <1>1, <1>4, <2>1, <3>1 DEF line
      <4>2. t # <<>> /\ ~IsBlank(Last(t))
        BY <1>3, <4>1 DEF t
      <4>3. u = Append(Front(t), Glue(Last(t), line))
        BY <2>1, <2>3, <3>1 DEF JoinStep, line
      <4>4. PICK lo \in 1 .. k : Ends(t, k, lo)
        BY <2>2, <4>1 DEF t
      <4>5. Front(t) \in Seq(L) /\ Last(t) \in L
        BY <1>5, <2>2, <4>2
      <4> DEFINE s == Front(t)
                 a == Last(t)
                 c == Glue(a, line)
      <4>6. s \in Seq(L) /\ a \in L /\ u = Append(s, c) /\ ~IsBlank(a)
        BY <4>2, <4>3, <4>5
      <4>7. Spans(page, a, lo, k)
        BY <4>4
      <4> HIDE DEF s, a
      <4>8. c \in L
        <5>1. \A p, q \in LineShapes(Q, E) : (~IsBlank(p) /\ ~IsBlank(q)) => Glue(p, q) \in LineShapes(Q, E)
          BY GlueReadsBoth
        <5> QED BY <2>2, <4>1, <4>6, <5>1
      <4>9. Spans(page, c, lo, k + 1)
        <5>1. Spans(page, Glue(a, page[k + 1]), lo, k + 1)
          <6>1. k \in 0 .. Len(page)
            BY <2>1 DEF n
          <6>2. a \in LineShapes(Q, E)
            BY <4>6
          <6> HIDE DEF L
          <6> QED BY <3>1, <4>6, <4>7, <6>1, <6>2, SpanGlued
        <5> QED BY <5>1 DEF line
      <4> HIDE DEF c
      <4>10. Front(u) = s /\ Last(u) = c
        <5> HIDE DEF L
        <5> QED BY <4>6, <4>8, FrontAppended, LastAppended
      <4>11. lo \in 1 .. k + 1
        BY <2>1
      <4>12. Ends(u, k + 1, lo)
        BY <4>4, <4>9, <4>10 DEF s
      <4> HIDE DEF Ends
      <4> QED BY <4>11, <4>12
    <3>2. CASE ~Joined(page)[k]
      <4>1. u = Append(t, line)
        BY <2>1, <2>3, <3>2 DEF JoinStep, line
      <4>2. Front(u) = t /\ Last(u) = line
        <5> HIDE DEF L
        <5> QED BY <2>2, <4>1, FrontAppended, LastAppended
      <4>3. Spans(page, line, k + 1, k + 1)
        BY <2>1, SpanAlone DEF line
      <4>4. AllSpan(page, t) /\ \A j \in 1 .. k : Covers(page, t, j)
        <5> HIDE DEF Good
        <5> QED BY <1>6, <2>1, <2>2 DEF t
      <4>5. Ends(u, k + 1, k + 1)
        BY <2>1, <4>2, <4>3, <4>4
      <4> HIDE DEF Ends
      <4> QED BY <2>1, <4>5
    <3> QED BY <3>1, <3>2
  <2>5. Good(k + 1)
    <3> HIDE DEF Ends
    <3> QED BY <2>4 DEF u
  <2> HIDE DEF Good
  <2> QED BY <2>1, <2>5
<1> HIDE DEF A
<1>9. \A k \in 0 .. n : k \in A
  BY <1>1, <1>7, <1>8, UpTo
<1>10. n \in 0 .. n
  BY <1>1
<1>11. Good(n)
  BY <1>9, <1>10 DEF A
<1> HIDE DEF Good
<1> QED BY <1>3, <1>6, <1>10, <1>11 DEF n

\* What is left of a page: the pieces on its joined lines that are no footers.
LEMMA LeftOnPage ==
    ASSUME NEW Q, NEW E, NEW page \in Seq(LineShapes(Q, E))
    PROVE  \A x : HasPiece(CleanPageText(page), x) <=>
              \E line \in ToSet(JoinHyphens(page)) : ~IsFooter(line) /\ x \in On(line)
<1> DEFINE L == LineShapes(Q, E)
           joined == JoinHyphens(page)
           S == {line \in ToSet(joined) : ~IsFooter(line)}
           clean == Keep(joined, S)
<1>1. joined \in Seq(L)
  BY JoinType
<1>2. CleanPageText(page) = clean
  BY DEF CleanPageText, StripFooters
<1> HIDE DEF joined, S
<1>3. clean \in Seq(L)
  <2> HIDE DEF L
  <2> QED BY <1>1, KeepFew
<1>4. \A line : line \in ToSet(clean) <=> line \in ToSet(joined) /\ line \in S
  <2> HIDE DEF L
  <2> QED BY <1>1, KeptMembers
<1> HIDE DEF clean
<1>5. \A x : HasPiece(clean, x) <=> \E i \in 1 .. Len(clean) : x \in On(clean[i])
  BY <1>3, PieceOnLine
<1>6. \A line : line \in ToSet(clean) <=> \E i \in 1 .. Len(clean) : clean[i] = line
  <2> HIDE DEF L
  <2> QED BY <1>3, MembersOf
<1>7. \A x : HasPiece(clean, x) <=> \E line \in ToSet(clean) : x \in On(line)
  BY <1>5, <1>6
<1> QED BY <1>2, <1>4, <1>7 DEF S, joined

LEMMA PieceAlone ==
    ASSUME NEW Q, NEW E, NEW line \in LineShapes(Q, E)
    PROVE  \A x : x \in ToSet(Pieces(<<line>>)) <=> x \in On(line)
<1> DEFINE page == <<line>>
<1>1. page \in Seq(LineShapes(Q, E)) /\ Len(page) = 1 /\ page[1] = line /\ 1 .. 1 = {1}
  OBVIOUS
<1> HIDE DEF page
<1>2. \A x : HasPiece(page, x) <=> \E i \in 1 .. Len(page) : x \in On(page[i])
  BY <1>1, PieceOnLine
<1> QED BY <1>1, <1>2 DEF HasPiece, page

\* A lone number broken before a lone number is the only line that is joined
\* to a footer.
LEMMA JoinedFooter ==
    ASSUME NEW Q, NEW E, NEW page \in Seq(LineShapes(Q, E)), SinglePieces(page),
           NEW lo \in 1 .. Len(page) - 1,
           Len(page[lo].words) = 1, Len(page[lo + 1].words) = 1,
           IsFooter(Glue(page[lo], page[lo + 1]))
    PROVE  /\ page[lo].words[1][1] \in Numbers /\ page[lo + 1].words[1][1] \in Numbers
           /\ IsFooter(page[lo + 1])
<1> DEFINE a == page[lo]
           b == page[lo + 1]
           y == a.words[1]
           z == b.words[1]
           u == Glue(a, b)
<1>1. lo \in DOMAIN page /\ lo + 1 \in DOMAIN page /\ a \in LineShapes(Q, E) /\ b \in LineShapes(Q, E)
  OBVIOUS
<1>2. /\ a.words \in Seq(Seq(Q)) /\ b.words \in Seq(Seq(Q))
      /\ Len(a.words) = 1 /\ Len(b.words) = 1
  BY <1>1 DEF LineShapes
<1>3. y \in Seq(Q) /\ z \in Seq(Q) /\ Len(y) = 1 /\ Len(z) = 1
  <2>1. 1 \in DOMAIN a.words /\ 1 \in DOMAIN b.words
    <3> HIDE DEF a, b
    <3> QED BY <1>2
  <2> QED BY <1>1, <1>2, <2>1 DEF SinglePieces
<1>4. u.end = b.end /\ u.words[1] = y \o z
  <2> DEFINE x == Front(a.words)
             t == Tail(b.words)
  <2>1. u.words = (x \o <<Last(a.words) \o Head(b.words)>>) \o t /\ u.end = b.end
    BY DEF Glue
  <2>2. Last(a.words) = y /\ Head(b.words) = z
    BY <1>2 DEF Last
  <2>3. x = <<>> /\ t = <<>>
    <3> DEFINE W == Seq(Q)
               v == a.words
               w == b.words
    <3> HIDE DEF a, b
    <3>1. v \in Seq(W) /\ w \in Seq(W) /\ Len(v) = 1 /\ Len(w) = 1
      BY <1>2
    <3> HIDE DEF v, w, W
    <3>2. v # <<>> /\ w # <<>>
      <4>1. Len(<<>>) = 0
        OBVIOUS
      <4>2. 1 # 0
        OBVIOUS
      <4> QED BY Zenon, <3>1, <4>1, <4>2
    <3>3. /\ Front(v) \in Seq(W) /\ Len(Front(v)) = Len(v) - 1
          /\ Tail(w) \in Seq(W) /\ Len(Tail(w)) = Len(w) - 1
      BY <3>1, <3>2, EndsOfList
    <3>4. /\ x \in Seq(W) /\ Len(x) = 0 /\ t \in Seq(W) /\ Len(t) = 0
      BY <3>1, <3>3 DEF v, w
    <3> HIDE DEF x, t
    <3> QED BY <3>4
  <2> HIDE DEF x, t, y, z, u
  <2>4. u.words = (<<>> \o <<y \o z>>) \o <<>>
    BY <2>1, <2>2, <2>3
  <2>5. <<y \o z>> \in Seq({y \o z})
    OBVIOUS
  <2>6. <<>> \o <<y \o z>> = <<y \o z>> /\ <<y \o z>> \o <<>> = <<y \o z>>
    BY <2>5, ConcatEmptySeq
  <2>7. u.words = <<y \o z>>
    BY <2>4, <2>6
  <2> DEFINE p == y \o z
  <2>8. u.words = <<p>>
    BY <2>7
  <2> HIDE DEF p
  <2>9. u.words[1] = p
    BY <2>8
  <2> QED BY <2>1, <2>9 DEF p
<1>5. y \o z \in Seq(Q) /\ Len(y \o z) = 2 /\ (y \o z)[1] = y[1] /\ (y \o z)[2] = z[1]
  <2> HIDE DEF y, z
  <2>1. y \o z \in Seq(Q) /\ Len(y \o z) = Len(y) + Len(z)
    BY <1>3, ConcatProperties
  <2>2. \A i \in 1 .. Len(y) + Len(z) : (y \o z)[i] = IF i <= Len(y) THEN y[i] ELSE z[i - Len(y)]
    BY <1>3, ConcatProperties
  <2>3. 1 \in 1 .. 2 /\ 2 \in 1 .. 2 /\ 1 <= 1 /\ ~(2 <= 1) /\ 2 - 1 = 1
    OBVIOUS
  <2> QED BY <1>3, <2>1, <2>2, <2>3
<1> DEFINE w == y \o z
<1>6. u.words[1] = w /\ w \in Seq(Q) /\ Len(w) = 2 /\ w[1] = y[1] /\ w[2] = z[1]
  BY <1>4, <1>5
<1>7. IsFooter(u)
  OBVIOUS
<1> HIDE DEF w, u
<1>8. w[1] \in Numbers /\ w[2] \in Numbers /\ u.end = "plain"
  <2>1. \/ \A k \in DOMAIN w : w[k] \in Numbers
        \/ Len(w) = 1 /\ w[1] \in PageMarks
    BY <1>6, <1>7 DEF IsFooter
  <2>2. Len(w) # 1 /\ 1 \in DOMAIN w /\ 2 \in DOMAIN w
    BY <1>6
  <2> QED BY <1>7, <2>1, <2>2 DEF IsFooter
<1>9. y[1] \in Numbers /\ z[1] \in Numbers /\ b.end = "plain"
  BY <1>4, <1>6, <1>8
<1>10. IsFooter(b)
  <2>1. DOMAIN z = {1}
    <3> HIDE DEF z
    <3> QED BY <1>3
  <2> QED BY <1>2, <1>9, <2>1 DEF IsFooter
<1> QED BY <1>9, <1>10

\* A page number is left only behind a broken word, and no other number goes
\* but a lone one broken before a lone one, for a page of any length
\* (cleaner.py:96-109).
THEOREM NumbersAlwaysExplained ==
    ASSUME NEW Q, NEW E, NEW page \in Seq(LineShapes(Q, E)),
           SinglePieces(page), NothingTwice(page)
    PROVE  NumbersExplained(page)
<1> DEFINE clean == CleanPageText(page)
           n == Len(page)
           Lone(i) == Len(page[i].words) = 1 /\ page[i].words[1][1] \in Numbers
           J == JoinHyphens(page)
<1> SUFFICES ASSUME NEW i \in Written(page), NEW x \in ToSet(Pieces(<<page[i]>>)) \ Words
             PROVE  IF IsFooter(page[i])
                    THEN HasPiece(clean, x) => i > 1 /\ page[i - 1].end = "hyphen"
                    ELSE HasPiece(clean, x)
                         \/ /\ Lone(i)
                            /\ page[i].end = "hyphen"
                            /\ i < Len(page) /\ IsFooter(page[i + 1]) /\ Lone(i + 1)
  BY Zenon DEF NumbersExplained
<1>1. n \in Nat /\ DOMAIN page = 1 .. n /\ \A k \in 1 .. n : page[k] \in LineShapes(Q, E)
  OBVIOUS
<1>2. i \in 1 .. n /\ x \in On(page[i])
  <2>1. i \in 1 .. n
    BY <1>1 DEF Written
  <2> DEFINE line == page[i]
  <2>2. line \in LineShapes(Q, E) /\ x \in ToSet(Pieces(<<line>>))
    BY <1>1, <2>1
  <2> HIDE DEF line
  <2>3. x \in On(line)
    BY <2>2, PieceAlone
  <2> QED BY <2>1, <2>3 DEF line
<1>3. HasPiece(clean, x) <=> \E line \in ToSet(J) : ~IsFooter(line) /\ x \in On(line)
  BY LeftOnPage
<1>4. /\ \A line \in ToSet(J) : \E a, b \in 1 .. n : a <= b /\ Spans(page, line, a, b)
      /\ \A j \in 1 .. n : \E line \in ToSet(J) : \E a, b \in 1 .. n :
                a <= j /\ j <= b /\ Spans(page, line, a, b)
  <2>1. AllSpan(page, J) /\ \A j \in 1 .. n : Covers(page, J, j)
    BY JoinSpans
  <2> QED BY <2>1 DEF AllSpan, Covers
<1>5. \A k \in 0 .. n : Joined(page)[k] => k \in 1 .. n - 1 /\ page[k].end = "hyphen"
  BY JoinedLines
<1> HIDE DEF clean, J, n
<1>6. ASSUME IsFooter(page[i]), HasPiece(clean, x)
      PROVE  i > 1 /\ page[i - 1].end = "hyphen"
  <2>1. PICK line \in ToSet(J) : ~IsFooter(line) /\ x \in On(line)
    BY <1>3, <1>6
  <2>2. PICK a, b \in 1 .. n : a <= b /\ Spans(page, line, a, b)
    BY <1>4
  <2>3. PICK j \in a .. b : x \in On(page[j])
    BY <2>1, <2>2 DEF Spans
  <2>4. j \in 1 .. n /\ a <= j /\ j <= b
    BY <1>1, <2>2
  <2>5. j = i
    BY <1>1, <1>2, <2>3, <2>4 DEF NothingTwice
  <2>6. a # b
    <3> SUFFICES ASSUME a = b PROVE FALSE
      OBVIOUS
    <3>1. line = page[a] /\ a = i
      BY <1>1, <2>2, <2>4, <2>5 DEF Spans
    <3> QED BY <1>6, <2>1, <3>1
  <2>7. i # a
    <3> SUFFICES ASSUME i = a PROVE FALSE
      OBVIOUS
    <3>1. i \in a .. b - 1 /\ i \in 0 .. n
      BY <1>1, <2>2, <2>6
    <3>2. page[i].end = "hyphen"
      BY <1>5, <2>2, <3>1 DEF Spans
    <3> QED BY <1>6, <3>2 DEF IsFooter
  <2>8. i - 1 \in a .. b - 1 /\ i - 1 \in 0 .. n /\ i > 1
    BY <1>1, <2>2, <2>4, <2>5, <2>7
  <2> QED BY <1>5, <2>2, <2>8 DEF Spans
<1>7. ASSUME ~IsFooter(page[i]), ~HasPiece(clean, x)
      PROVE  /\ Lone(i) /\ page[i].end = "hyphen"
             /\ i < n /\ IsFooter(page[i + 1]) /\ Lone(i + 1)
  <2>1. PICK line \in ToSet(J) : \E a, b \in 1 .. n :
                a <= i /\ i <= b /\ Spans(page, line, a, b)
    BY <1>2, <1>4
  <2>2. PICK a, b \in 1 .. n : a <= i /\ i <= b /\ Spans(page, line, a, b)
    BY <2>1
  <2>3. x \in On(line)
    <3>1. i \in a .. b
      BY <1>1, <1>2, <2>2
    <3> QED BY <1>2, <2>2, <3>1 DEF Spans
  <2>4. IsFooter(line) /\ Len(line.words) = 1 /\ line.end = "plain"
    BY <1>3, <1>7, <2>3 DEF IsFooter
  <2>5. a # b
    <3> SUFFICES ASSUME a = b PROVE FALSE
      OBVIOUS
    <3>1. line = page[a] /\ a = i
      BY <1>1, <1>2, <2>2 DEF Spans
    <3> QED BY <1>7, <2>4, <3>1
  <2>6. a < b
    BY <1>1, <1>2, <2>2, <2>5
  <2>7. /\ b = a + 1 /\ line = Glue(page[a], page[b])
        /\ Len(page[a].words) = 1 /\ Len(page[b].words) = 1
    BY <2>2, <2>4, <2>6 DEF Spans
  <2>8. a \in 1 .. n - 1 /\ a \in a .. b - 1 /\ a \in 0 .. n
    BY <1>1, <2>6, <2>7
  <2>9. /\ page[a].words[1][1] \in Numbers /\ page[a + 1].words[1][1] \in Numbers
        /\ IsFooter(page[a + 1])
    <3>1. a \in 1 .. Len(page) - 1
      BY <2>8 DEF n
    <3>2. IsFooter(Glue(page[a], page[a + 1])) /\ Len(page[a + 1].words) = 1
      BY <2>4, <2>7
    <3> QED BY <2>7, <3>1, <3>2, JoinedFooter
  <2>10. page[a].end = "hyphen"
    BY <1>5, <2>2, <2>8 DEF Spans
  <2>11. i = a
    <3> SUFFICES ASSUME i # a PROVE FALSE
      OBVIOUS
    <3>1. i = a + 1
      BY <1>1, <1>2, <2>2, <2>7
    <3> QED BY <1>7, <2>9, <3>1
  <2>12. Len(page[i].words) = 1 /\ Len(page[i + 1].words) = 1 /\ i < n
    BY <1>1, <2>7, <2>8, <2>11
  <2> QED BY <2>9, <2>10, <2>11, <2>12
<1> QED BY <1>6, <1>7 DEF n

-----------------------------------------------------------------------------
(* Previews.                                                                *)

LEMMA LastOfFacts ==
    ASSUME NEW n \in Nat, NEW S \in SUBSET (0 .. n)
    PROVE  /\ S = {} => LastOf(S) = -1
           /\ S # {} => LastOf(S) \in S /\ \A i \in S : i <= LastOf(S)
<1>1. CASE S = {}
  BY <1>1 DEF LastOf
<1>2. CASE S # {}
  <2>1. \E i \in S : \A j \in S : j <= i
    BY <1>2, GreatestExists
  <2> QED BY <1>2, <2>1 DEF LastOf
<1> QED BY <1>1, <1>2

\* Where the last sentence and the last word of the cut end.
LEMMA CutFacts ==
    ASSUME NEW flat
    PROVE  LET period == LastOf(Periods(flat, MaxPreview))
               space  == LastOf(Spaces(flat, MaxPreview))
           IN  /\ period \in -1 .. MaxPreview - 2 /\ space \in -1 .. MaxPreview - 1
               /\ period >= 0 => flat[period + 1] = "." /\ flat[period + 2] = "blank"
               /\ space >= 0 => flat[space + 1] = "blank"
               /\ \A i \in 0 .. MaxPreview - 1 : flat[i + 1] = "blank" => i <= space
<1> DEFINE P == Periods(flat, MaxPreview)
           S == Spaces(flat, MaxPreview)
           period == LastOf(P)
           space == LastOf(S)
<1>1. MaxPreview \in Nat /\ MaxPreview > 0
  BY PreviewAssumption
<1>2. /\ P \subseteq 0 .. MaxPreview /\ P \subseteq 0 .. MaxPreview - 2
      /\ \A i \in P : flat[i + 1] = "." /\ flat[i + 2] = "blank"
  BY <1>1 DEF Periods
<1>3. /\ S \subseteq 0 .. MaxPreview /\ S \subseteq 0 .. MaxPreview - 1
      /\ \A i \in 0 .. MaxPreview - 1 : i \in S <=> flat[i + 1] = "blank"
  BY <1>1 DEF Spaces
<1> HIDE DEF P, S
<1>4. (P = {} => period = -1) /\ (P # {} => period \in P)
  BY <1>1, <1>2, LastOfFacts
<1>5. (S = {} => space = -1) /\ (S # {} => space \in S /\ \A i \in S : i <= space)
  BY <1>1, <1>3, LastOfFacts
<1> HIDE DEF period, space
<1>6. /\ period \in -1 .. MaxPreview - 2
      /\ period >= 0 => flat[period + 1] = "." /\ flat[period + 2] = "blank"
  <2>1. CASE P = {}
    BY <1>1, <1>4, <2>1
  <2>2. CASE P # {}
    <3>1. period \in 0 .. MaxPreview - 2 /\ flat[period + 1] = "." /\ flat[period + 2] = "blank"
      BY <1>2, <1>4, <2>2
    <3> QED BY <1>1, <3>1
  <2> QED BY <2>1, <2>2
<1>7. /\ space \in -1 .. MaxPreview - 1
      /\ space >= 0 => flat[space + 1] = "blank"
      /\ \A i \in 0 .. MaxPreview - 1 : flat[i + 1] = "blank" => i <= space
  <2>1. CASE S = {}
    <3>1. \A i \in 0 .. MaxPreview - 1 : flat[i + 1] # "blank"
      BY <1>3, <2>1
    <3> QED BY <1>1, <1>5, <2>1, <3>1
  <2>2. CASE S # {}
    <3>1. space \in 0 .. MaxPreview - 1 /\ flat[space + 1] = "blank"
      BY <1>3, <1>5, <2>2
    <3>2. \A i \in 0 .. MaxPreview - 1 : flat[i + 1] = "blank" => i <= space
      BY <1>3, <1>5, <2>2
    <3> QED BY <1>1, <3>1, <3>2
  <2> QED BY <2>1, <2>2
<1> QED BY <1>6, <1>7 DEF period, space, P, S

\* Any preview fits, and is cut between words when it can be
\* (documents.py:38-51).
THEOREM PreviewAlwaysFits ==
    ASSUME NEW flat, Len(flat) \in Nat
    PROVE  PreviewFits(flat) /\ CutBetweenWords(flat)
<1> DEFINE period == LastOf(Periods(flat, MaxPreview))
           space == LastOf(Spaces(flat, MaxPreview))
           p == MakePreview(flat)
           n == Len(flat)
<1>1. /\ period \in -1 .. MaxPreview - 2 /\ space \in -1 .. MaxPreview - 1
      /\ period >= 0 => flat[period + 1] = "." /\ flat[period + 2] = "blank"
      /\ space >= 0 => flat[space + 1] = "blank"
      /\ \A i \in 0 .. MaxPreview - 1 : flat[i + 1] = "blank" => i <= space
  BY CutFacts
<1>2. /\ MinPreview \in Nat /\ MaxPreview \in Nat /\ MinPreview < MaxPreview /\ n \in Nat
  BY PreviewAssumption
<1>3. p = IF n <= MaxPreview THEN [kept |-> n, ellipsis |-> "no"]
          ELSE IF period >= MinPreview THEN [kept |-> period + 1, ellipsis |-> "no"]
          ELSE IF space >= MinPreview THEN [kept |-> space, ellipsis |-> "yes"]
          ELSE Stripped(flat, MaxPreview)
  BY DEF MakePreview
<1> HIDE DEF period, space, p, n
<1> DEFINE Good == /\ p.kept \in Nat
                   /\ p.kept + (IF p.ellipsis = "yes" THEN 1 ELSE 0) <= MaxPreview + 1
                   /\ p.kept < n =>
                        /\ p.kept >= MinPreview
                        /\ p.ellipsis = "no" => flat[p.kept] = "." /\ flat[p.kept + 1] = "blank"
                        /\ \/ flat[p.kept + 1] = "blank"
                           \/ \A i \in MinPreview + 1 .. MaxPreview : flat[i] # "blank"
<1>8. Good
  <2>4. CASE n <= MaxPreview
    <3>1. p.kept = n /\ p.ellipsis = "no"
      BY <1>3, <2>4
    <3> QED BY <1>2, <2>4, <3>1
  <2>5. CASE n > MaxPreview /\ period >= MinPreview
    <3>1. p.kept = period + 1 /\ p.ellipsis = "no"
      BY <1>2, <1>3, <2>5
    <3>2. period \in Nat /\ period + 1 <= MaxPreview - 1 /\ (period + 1) + 1 = period + 2
      BY <1>1, <1>2, <2>5
    <3> QED BY <1>1, <1>2, <2>5, <3>1, <3>2
  <2>6. CASE n > MaxPreview /\ ~(period >= MinPreview) /\ space >= MinPreview
    <3>1. p.kept = space /\ p.ellipsis = "yes"
      BY <1>2, <1>3, <2>6
    <3>2. space \in Nat /\ space <= MaxPreview - 1
      BY <1>1, <1>2, <2>6
    <3> QED BY <1>1, <1>2, <2>6, <3>1, <3>2
  <2>7. CASE n > MaxPreview /\ ~(period >= MinPreview) /\ ~(space >= MinPreview)
    <3>1. \A i \in MinPreview + 1 .. MaxPreview : flat[i] # "blank"
      <4> SUFFICES ASSUME NEW i \in MinPreview + 1 .. MaxPreview, flat[i] = "blank" PROVE FALSE
        OBVIOUS
      <4>1. i - 1 \in 0 .. MaxPreview - 1 /\ (i - 1) + 1 = i /\ i - 1 >= MinPreview
        BY <1>2
      <4>2. i - 1 <= space
        BY <1>1, <4>1
      <4> QED BY <1>1, <1>2, <2>7, <4>1, <4>2
    <3>2. MaxPreview \in MinPreview + 1 .. MaxPreview
      BY <1>2
    <3>3. p = Stripped(flat, MaxPreview)
      BY <1>2, <1>3, <2>7
    <3>4. p.kept = MaxPreview /\ p.ellipsis = "yes"
      BY <3>1, <3>2, <3>3 DEF Stripped
    <3> QED BY <1>2, <3>1, <3>4
  <2> QED BY <1>2, <2>4, <2>5, <2>6, <2>7
<1>9. PreviewFits(flat)
  BY <1>8 DEF PreviewFits, p, n
<1>10. CutBetweenWords(flat)
  BY <1>8 DEF CutBetweenWords, p, n
<1> QED BY <1>9, <1>10

\* A preview is not the one of a document without chunks.
LEMMA MakesPreview ==
    ASSUME NEW flat, Len(flat) \in Nat \ {0}
    PROVE  MakePreview(flat) # NoPreview
<1> DEFINE period == LastOf(Periods(flat, MaxPreview))
           space == LastOf(Spaces(flat, MaxPreview))
           p == MakePreview(flat)
<1>1. period \in -1 .. MaxPreview - 2
  BY CutFacts
<1>2. p = IF Len(flat) <= MaxPreview THEN [kept |-> Len(flat), ellipsis |-> "no"]
          ELSE IF period >= MinPreview THEN [kept |-> period + 1, ellipsis |-> "no"]
          ELSE IF space >= MinPreview THEN [kept |-> space, ellipsis |-> "yes"]
          ELSE Stripped(flat, MaxPreview)
  BY DEF MakePreview
<1> HIDE DEF period, space, p
<1>3. p.kept # 0 \/ p.ellipsis = "yes"
  BY <1>1, <1>2, PreviewAssumption DEF Stripped
<1>4. NoPreview.kept = 0 /\ NoPreview.ellipsis = "no"
  BY DEF NoPreview
<1> QED BY <1>3, <1>4 DEF p

-----------------------------------------------------------------------------
(* The chunk that is previewed.                                             *)

\* The long chunks before chunk i.
LongBefore(chunks, i) == {j \in Long(chunks) : j < i}

\* The rows are numbered from one, in the order of the chunks.
LEMMA RowNumbers ==
    ASSUME NEW C, NEW chunks \in Seq(C), NEW i \in Long(chunks)
    PROVE  /\ IsFiniteSet(Long(chunks)) /\ i \in Nat
           /\ RowNumber(chunks, i) \in 1 .. Cardinality(Long(chunks))
           /\ RowNumber(chunks, i) = Cardinality(LongBefore(chunks, i)) + 1
           /\ Cardinality(LongBefore(chunks, i)) \in Nat
           /\ \A j \in Long(chunks) : j < i => RowNumber(chunks, j) < RowNumber(chunks, i)
<1> DEFINE L == Long(chunks)
           A(j) == {k \in L : k <= j}
<1>1. L \subseteq 1 .. Len(chunks) /\ Len(chunks) \in Nat
  BY DEF Long
<1>2. IsFiniteSet(L)
  <2>1. IsFiniteSet(1 .. Len(chunks))
    BY <1>1, FS_Interval
  <2> QED BY <1>1, <2>1, FS_Subset
<1>3. i \in L /\ \A j \in L : j \in Nat
  BY <1>1
<1> HIDE DEF L
<1>4. \A j : IsFiniteSet(A(j)) /\ Cardinality(A(j)) \in Nat /\ Cardinality(A(j)) <= Cardinality(L)
  <2> TAKE j
  <2>1. A(j) \subseteq L
    OBVIOUS
  <2> QED BY <1>2, <2>1, FS_Subset, FS_CardinalityType
<1>5. Cardinality(L) \in Nat
  BY <1>2, FS_CardinalityType
<1>6. LongBefore(chunks, i) = A(i) \ {i} /\ i \in A(i)
  BY <1>3 DEF LongBefore, L
<1>7. Cardinality(LongBefore(chunks, i)) = Cardinality(A(i)) - 1
  <2> HIDE DEF A
  <2> QED BY <1>4, <1>6, FS_RemoveElement
<1>8. Cardinality(LongBefore(chunks, i)) \in Nat
  <2>1. LongBefore(chunks, i) \subseteq L
    BY DEF LongBefore, L
  <2> QED BY <1>2, <2>1, FS_Subset, FS_CardinalityType
<1>9. ASSUME NEW j \in L, j < i PROVE Cardinality(A(j)) < Cardinality(A(i))
  <2>1. A(j) \subseteq A(i) \ {i}
    BY <1>3, <1>9
  <2> HIDE DEF A
  <2>2. Cardinality(A(j)) <= Cardinality(A(i) \ {i})
    BY <1>4, <2>1, FS_Subset, FS_RemoveElement
  <2>3. Cardinality(A(i) \ {i}) = Cardinality(A(i)) - 1
    BY <1>4, <1>6, FS_RemoveElement
  <2>4. Cardinality(A(i)) \in Nat /\ Cardinality(A(j)) \in Nat
    BY <1>4
  <2> QED BY <2>2, <2>3, <2>4
<1>10. \A j : RowNumber(chunks, j) = Cardinality(A(j))
  BY DEF RowNumber, L
<1> DEFINE a(j) == Cardinality(A(j))
           b == Cardinality(LongBefore(chunks, i))
           c == Cardinality(L)
<1>11. a(i) = b + 1 /\ b \in Nat /\ a(i) \in 1 .. c
  <2>1. b = a(i) - 1 /\ b \in Nat /\ a(i) \in Nat /\ a(i) <= c /\ c \in Nat
    BY <1>4, <1>5, <1>7, <1>8
  <2> HIDE DEF a, b, c
  <2> QED BY <2>1
<1>12. /\ RowNumber(chunks, i) \in 1 .. c
       /\ RowNumber(chunks, i) = b + 1 /\ b \in Nat
  BY <1>10, <1>11
<1>13. \A j \in L : j < i => RowNumber(chunks, j) < RowNumber(chunks, i)
  <2> HIDE DEF A
  <2> QED BY <1>9, <1>10
<1> QED BY <1>2, <1>3, <1>12, <1>13 DEF L

\* Every number up to the number of long chunks is one chunk's.
LEMMA RowsAreTaken ==
    ASSUME NEW C, NEW chunks \in Seq(C), NEW r \in 1 .. Cardinality(Long(chunks))
    PROVE  \E i \in Long(chunks) : RowNumber(chunks, i) = r
<1> DEFINE L == Long(chunks)
           c == Cardinality(L)
           f == [i \in L |-> RowNumber(chunks, i)]
<1>1. IsFiniteSet(L)
  <2>1. L \subseteq 1 .. Len(chunks) /\ Len(chunks) \in Nat
    BY DEF Long
  <2>2. IsFiniteSet(1 .. Len(chunks))
    BY <2>1, FS_Interval
  <2> QED BY <2>1, <2>2, FS_Subset
<1>2. c \in Nat
  BY <1>1, FS_CardinalityType
<1>3. /\ \A i \in L : i \in Nat /\ RowNumber(chunks, i) \in 1 .. c
      /\ \A i, j \in L : j < i => RowNumber(chunks, j) < RowNumber(chunks, i)
  BY RowNumbers
<1> HIDE DEF L, c
<1>4. f \in [L -> 1 .. c]
  BY <1>3
<1>5. \A i, j \in L : f[i] = f[j] => i = j
  <2> SUFFICES ASSUME NEW i \in L, NEW j \in L, i # j PROVE f[i] # f[j]
    BY Zenon
  <2>1. (i < j \/ j < i) /\ f[i] \in Nat /\ f[j] \in Nat
    BY <1>2, <1>3
  <2>2. f[i] < f[j] \/ f[j] < f[i]
    BY <1>3, <2>1
  <2> HIDE DEF f
  <2> QED BY <2>1, <2>2
<1> HIDE DEF f
<1>6. f \in Injection(L, 1 .. c)
  BY <1>4, <1>5 DEF Injection, IsInjective
<1>7. IsFiniteSet(1 .. c) /\ Cardinality(1 .. c) = c
  <2> DEFINE d == Cardinality(1 .. c)
  <2>1. IsFiniteSet(1 .. c) /\ d = IF 1 > c THEN 0 ELSE c - 1 + 1
    BY <1>2, FS_Interval
  <2> HIDE DEF d
  <2>2. d = c
    BY <1>2, <2>1
  <2> QED BY <2>1, <2>2 DEF d
<1>8. Cardinality(L) = Cardinality(1 .. c)
  BY <1>7 DEF c
<1>9. f \in Surjection(L, 1 .. c)
  BY <1>1, <1>6, <1>7, <1>8, FS_Injection
<1>10. r \in 1 .. c
  BY DEF c, L
<1>11. PICK i \in L : f[i] = r
  BY <1>9, <1>10 DEF Surjection
<1> QED BY <1>11 DEF f, L

\* The document's preview is of its first prose among the first three long
\* chunks, and is missing only if no chunk is long (documents.py:61-115).
THEOREM PreviewAlwaysShown ==
    ASSUME NEW C, NEW chunks \in Seq(C),
           \A i \in DOMAIN chunks : Len(chunks[i].text) \in Nat \ {0}
    PROVE  PreviewShown(chunks)
<1> DEFINE L == Long(chunks)
           n == Cardinality(L)
           m == IF n < 3 THEN n ELSE 3
           first == FirstChunks(chunks)
           Row(r) == CHOOSE i \in L : RowNumber(chunks, i) = r
           prose == {i \in DOMAIN first : first[i].toc = "no"}
<1>1. IsFiniteSet(L) /\ L \subseteq DOMAIN chunks
  <2>1. L \subseteq 1 .. Len(chunks) /\ Len(chunks) \in Nat
    BY DEF Long
  <2>2. IsFiniteSet(1 .. Len(chunks))
    BY <2>1, FS_Interval
  <2> QED BY <2>1, <2>2, FS_Subset
<1>2. n \in Nat /\ (n = 0 <=> L = {})
  BY <1>1, FS_CardinalityType, FS_EmptySet
<1>3. first = [r \in 1 .. m |-> chunks[Row(r)]]
  BY DEF FirstChunks
<1>4. \A r \in 1 .. n : Row(r) \in L /\ RowNumber(chunks, Row(r)) = r
  BY RowsAreTaken
<1>5. \A i \in L : /\ i \in Nat /\ RowNumber(chunks, i) \in 1 .. n
                   /\ RowNumber(chunks, i) = Cardinality(LongBefore(chunks, i)) + 1
                   /\ Cardinality(LongBefore(chunks, i)) \in Nat
                   /\ \A j \in L : j < i => RowNumber(chunks, j) < RowNumber(chunks, i)
  BY RowNumbers
<1> HIDE DEF L, n, Row, first
<1>6. \A i \in L : Row(RowNumber(chunks, i)) = i
  <2> TAKE i \in L
  <2>1. PICK r \in 1 .. n : r = RowNumber(chunks, i)
    BY <1>5
  <2>2. PICK j \in L : j = Row(r)
    BY <1>4
  <2>3. RowNumber(chunks, j) = r
    BY <1>4, <2>2
  <2>4. ~(j < i) /\ ~(i < j)
    BY <1>2, <1>5, <2>1, <2>3
  <2>5. j = i
    BY <1>5, <2>4
  <2> QED BY <2>1, <2>2, <2>5
<1>7. m \in 0 .. 3 /\ m <= n /\ 1 .. m \subseteq 1 .. n /\ DOMAIN first = 1 .. m
  BY <1>2, <1>3
<1> DEFINE doc == ListDocument(chunks)
<1>8. doc.preview = IF first = <<>> THEN NoPreview ELSE MakePreview(first[Chosen(first)].text)
  BY DEF ListDocument, first
<1> HIDE DEF doc, m
<1>9. CASE L = {}
  <2>1. m = 0
    BY <1>2, <1>9 DEF m
  <2>2. first = <<>>
    BY <1>3, <2>1
  <2>3. doc.preview = NoPreview
    BY <1>8, <2>2
  <2> QED BY <1>9, <2>3 DEF PreviewShown, L, doc
<1>10. CASE L # {}
  <2>1. m \in 1 .. 3
    BY <1>2, <1>10 DEF m
  <2>2. first # <<>>
    BY <1>7, <2>1
  <2>3. /\ prose = {} => Chosen(first) = 1
        /\ prose # {} => Chosen(first) = CHOOSE i \in prose : \A j \in prose : i <= j
    BY DEF Chosen
  <2>4. prose \subseteq 1 .. m /\ prose \subseteq Nat
    BY <1>7
  <2>5. prose # {} => \E i \in prose : \A j \in prose : i <= j
    <3> HIDE DEF prose
    <3> QED BY <2>4, LeastExists
  <2>6. Chosen(first) \in 1 .. m
    <3> HIDE DEF prose
    <3>1. CASE prose = {}
      BY <2>1, <2>3, <3>1
    <3>2. CASE prose # {}
      <4>1. (CHOOSE i \in prose : \A j \in prose : i <= j) \in prose
        BY <2>5, <3>2
      <4> QED BY <2>3, <2>4, <3>2, <4>1
    <3> QED BY <3>1, <3>2
  <2>7. doc.preview # NoPreview
    <3>1. PICK r \in 1 .. m : r = Chosen(first)
      BY <2>6
    <3>2. first[r] = chunks[Row(r)] /\ Row(r) \in DOMAIN chunks
      BY <1>1, <1>3, <1>4, <1>7
    <3>3. MakePreview(first[r].text) # NoPreview
      BY <3>2, MakesPreview
    <3> QED BY <1>8, <2>2, <3>1, <3>3
  <2>8. ASSUME NEW i \in L, chunks[i].toc = "no", Cardinality({j \in L : j < i}) < 3,
               \A j \in L : j < i => chunks[j].toc = "yes"
        PROVE  doc.preview = MakePreview(chunks[i].text)
    <3> DEFINE r == RowNumber(chunks, i)
    <3>1. r \in 1 .. n /\ r <= 3
      <4> DEFINE b == Cardinality(LongBefore(chunks, i))
      <4>1. r \in 1 .. n /\ r = b + 1 /\ b \in Nat
        BY <1>5
      <4>2. b < 3
        BY <2>8, Zenon DEF LongBefore, L
      <4> HIDE DEF b, r
      <4> QED BY <4>1, <4>2
    <3>2. r \in 1 .. m
      <4> HIDE DEF r
      <4> QED BY <1>2, <3>1 DEF m
    <3>3. first[r] = chunks[i]
      BY <1>3, <1>6, <3>2
    <3>4. r \in prose
      BY <1>7, <2>8, <3>2, <3>3
    <3>5. ASSUME NEW s \in prose PROVE r <= s
      <4> SUFFICES ASSUME s < r PROVE FALSE
        BY <2>4, <3>4
      <4>1. s \in 1 .. m /\ s \in 1 .. n /\ first[s].toc = "no"
        BY <1>7, <2>4
      <4>2. PICK j \in L : j = Row(s)
        BY <1>4, <4>1
      <4>3. RowNumber(chunks, j) = s /\ first[s] = chunks[j]
        BY <1>3, <1>4, <4>1, <4>2
      <4>4. i \in Nat /\ j \in Nat /\ r \in Nat /\ s \in Nat
        BY <1>5, <2>4, <3>4
      <4>5. j < i
        <5>1. ~(i < j)
          BY <1>5, <4>3, <4>4
        <5>2. i # j
          BY <4>3, <4>4
        <5> QED BY <4>4, <5>1, <5>2
      <4> QED BY <2>8, <4>1, <4>3, <4>5
    <3>6. Chosen(first) = r
      <4>1. Chosen(first) = CHOOSE k \in prose : \A j \in prose : k <= j
        BY <2>3, <3>4
      <4>2. PICK k \in prose : k = Chosen(first) /\ \A j \in prose : k <= j
        BY <2>5, <3>4, <4>1
      <4>3. k <= r /\ r <= k
        BY <3>4, <3>5, <4>2
      <4> HIDE DEF r, prose
      <4>4. k \in Nat /\ r \in Nat
        BY <2>4, <3>4
      <4> QED BY <4>2, <4>3, <4>4
    <3> QED BY <1>8, <2>2, <3>3, <3>6
  <2> QED BY <1>10, <2>7, <2>8 DEF PreviewShown, L, doc
<1> QED BY <1>9, <1>10

-----------------------------------------------------------------------------
(* The figures of the evaluation.                                           *)

LEMMA QuotientFacts ==
    ASSUME NEW w \in Nat \ {0}, NEW r \in Nat \ {0}
    PROVE  /\ w \div r \in Nat /\ w \div r <= w /\ w \div 1 = w
           /\ r > 1 => w \div r < w
<1> DEFINE q == w \div r
<1>1. q \in Nat /\ r * q <= w
  OBVIOUS
<1>2. w \div 1 = w
  OBVIOUS
<1> HIDE DEF q
<1>3. r > 1 /\ q > 0 => q < r * q
  <2> SUFFICES ASSUME r > 1, q > 0 PROVE q < r * q
    OBVIOUS
  <2>1. q * 1 < q * r
    BY <1>1, TimesMonotone
  <2> QED BY <1>1, <2>1
<1>4. r = 1 \/ r > 1
  OBVIOUS
<1>5. q <= w /\ (r > 1 => q < w)
  <2>1. CASE q = 0
    BY <2>1
  <2>2. CASE q > 0 /\ r = 1
    BY <1>1, <2>2
  <2>3. CASE q > 0 /\ r > 1
    BY <1>1, <1>3, <2>3
  <2> QED BY <1>1, <1>4, <2>1, <2>2, <2>3
<1> QED BY <1>1, <1>2, <1>5 DEF q

\* The members of a set of places that are among the first k.
Upto(A, k) == A \cap (1 .. k)

LEMMA UptoCounts ==
    ASSUME NEW n \in Nat, NEW A \in SUBSET (1 .. n)
    PROVE  /\ Cardinality(Upto(A, 0)) = 0 /\ Upto(A, n) = A
           /\ \A k \in 0 .. n : Cardinality(Upto(A, k)) \in Nat
           /\ \A k \in 1 .. n : Cardinality(Upto(A, k))
                = Cardinality(Upto(A, k - 1)) + (IF k \in A THEN 1 ELSE 0)
<1>1. IsFiniteSet(A)
  <2>1. IsFiniteSet(1 .. n)
    BY FS_Interval
  <2> QED BY <2>1, FS_Subset
<1>2. \A k : IsFiniteSet(Upto(A, k)) /\ Cardinality(Upto(A, k)) \in Nat
  <2> TAKE k
  <2>1. Upto(A, k) \subseteq A
    BY DEF Upto
  <2> QED BY <1>1, <2>1, FS_Subset, FS_CardinalityType
<1>3. Cardinality(Upto(A, 0)) = 0
  <2>1. Upto(A, 0) = {}
    BY DEF Upto
  <2> QED BY <2>1, FS_EmptySet
<1>4. Upto(A, n) = A
  BY DEF Upto
<1>5. ASSUME NEW k \in 1 .. n
      PROVE  Cardinality(Upto(A, k)) = Cardinality(Upto(A, k - 1)) + (IF k \in A THEN 1 ELSE 0)
  <2> DEFINE B == Upto(A, k)
             C == Upto(A, k - 1)
             b == Cardinality(B)
             c == Cardinality(C)
  <2>1. C = B \ {k} /\ (k \in B <=> k \in A)
    BY DEF Upto
  <2>2. IsFiniteSet(B) /\ b \in Nat /\ c \in Nat
    BY <1>2
  <2>3. c = IF k \in B THEN b - 1 ELSE b
    <3> HIDE DEF B, C
    <3> QED BY <2>1, <2>2, FS_RemoveElement
  <2> HIDE DEF B, C, b, c
  <2>4. b = c + (IF k \in A THEN 1 ELSE 0)
    BY <2>1, <2>2, <2>3
  <2> QED BY <2>4 DEF B, C, b, c
<1> QED BY <1>2, <1>3, <1>4, <1>5

\* The rank of a document is its first place in the list, or 0.
LEMMA RankFacts ==
    ASSUME NEW D, NEW retrieved \in Seq(D), NEW d
    PROVE  /\ RankOf(d, retrieved) \in 0 .. Len(retrieved)
           /\ d \in ToSet(retrieved) =>
                RankOf(d, retrieved) > 0 /\ retrieved[RankOf(d, retrieved)] = d
           /\ d \notin ToSet(retrieved) => RankOf(d, retrieved) = 0
           /\ Len(retrieved) > 0 /\ retrieved[1] = d => RankOf(d, retrieved) = 1
<1> DEFINE I == {i \in 1 .. Len(retrieved) : retrieved[i] = d}
           r == RankOf(d, retrieved)
<1>1. r = IF I # {} THEN Min(I) ELSE 0
  BY DEF RankOf, SelectInSeq
<1>2. Len(retrieved) \in Nat /\ DOMAIN retrieved = 1 .. Len(retrieved)
  OBVIOUS
<1>3. I \in SUBSET Nat /\ \A i \in I : i \in 1 .. Len(retrieved) /\ retrieved[i] = d
  BY <1>2
<1>4. d \in ToSet(retrieved) <=> I # {}
  BY <1>2 DEF ToSet
<1>5. Len(retrieved) > 0 /\ retrieved[1] = d => 1 \in I
  BY <1>2
<1> HIDE DEF I, r
<1>6. ASSUME I # {} PROVE Min(I) \in I /\ \A j \in I : Min(I) <= j
  <2>1. \E i \in I : \A j \in I : i <= j
    BY <1>3, <1>6, LeastExists
  <2> QED BY <2>1 DEF Min
<1>7. r \in 0 .. Len(retrieved)
  <2>1. I # {} => r \in 1 .. Len(retrieved) /\ retrieved[r] = d
    BY <1>1, <1>3, <1>6
  <2>2. I = {} => r = 0
    BY <1>1
  <2> QED BY <1>2, <2>1, <2>2
<1>8. d \in ToSet(retrieved) => r > 0 /\ retrieved[r] = d
  <2>1. I # {} => r \in 1 .. Len(retrieved) /\ retrieved[r] = d
    BY <1>1, <1>3, <1>6
  <2> QED BY <1>2, <1>4, <2>1
<1>9. d \notin ToSet(retrieved) => r = 0
  BY <1>1, <1>4
<1>10. Len(retrieved) > 0 /\ retrieved[1] = d => r = 1
  <2> SUFFICES ASSUME 1 \in I PROVE r = 1
    BY <1>5
  <2>1. r = Min(I) /\ Min(I) \in I /\ Min(I) <= 1
    BY <1>1, <1>6
  <2>2. Min(I) \in 1 .. Len(retrieved)
    BY <1>3, <2>1
  <2> QED BY <1>2, <2>1, <2>2
<1> QED BY <1>7, <1>8, <1>9, <1>10 DEF r

LEMMA ReciprocalFacts ==
    ASSUME NEW D, NEW retrieved \in Seq(D), NEW d
    PROVE  /\ Reciprocal(d, retrieved) \in Nat /\ Reciprocal(d, retrieved) <= Whole
           /\ d \notin ToSet(retrieved) => Reciprocal(d, retrieved) = 0
           /\ Len(retrieved) > 0 /\ retrieved[1] = d => Reciprocal(d, retrieved) = Whole
           /\ ~(Len(retrieved) > 0 /\ retrieved[1] = d) => Reciprocal(d, retrieved) < Whole
<1> DEFINE r == RankOf(d, retrieved)
           x == Reciprocal(d, retrieved)
<1>1. x = IF r = 0 THEN 0 ELSE Whole \div r
  BY DEF Reciprocal
<1>2. /\ r \in 0 .. Len(retrieved) /\ Len(retrieved) \in Nat
      /\ d \in ToSet(retrieved) => r > 0 /\ retrieved[r] = d
      /\ d \notin ToSet(retrieved) => r = 0
      /\ Len(retrieved) > 0 /\ retrieved[1] = d => r = 1
  BY RankFacts
<1>3. Whole \in Nat \ {0}
  BY MetricsAssumption
<1> HIDE DEF r, x
<1>4. CASE r = 0
  <2>1. x = 0
    BY <1>1, <1>4
  <2> QED BY <1>2, <1>3, <1>4, <2>1 DEF x
<1>5. CASE r # 0
  <2>1. r \in Nat \ {0} /\ x = Whole \div r
    BY <1>1, <1>2, <1>5
  <2>2. /\ x \in Nat /\ x <= Whole
        /\ Whole \div 1 = Whole /\ (r > 1 => x < Whole)
    BY <1>3, <2>1, QuotientFacts
  <2>3. d \in ToSet(retrieved) /\ retrieved[r] = d
    BY <1>2, <1>5
  <2>4. CASE r = 1
    <3>1. Len(retrieved) > 0 /\ retrieved[1] = d
      BY <1>2, <2>3, <2>4
    <3>2. x = Whole
      BY <2>1, <2>2, <2>4
    <3> QED BY <2>2, <2>3, <3>1, <3>2 DEF x
  <2>5. CASE r > 1
    <3>1. ~(Len(retrieved) > 0 /\ retrieved[1] = d) /\ x < Whole
      BY <1>2, <2>2, <2>5
    <3> QED BY <2>2, <2>3, <3>1 DEF x
  <2> QED BY <2>1, <2>4, <2>5
<1> QED BY <1>4, <1>5

\* The sum of the reciprocal ranks, gold document by gold document.
LEMMA MrrStepwise ==
    ASSUME NEW D, NEW gold \in Seq(D), NEW retrieved \in Seq(D)
    PROVE  \E f \in [0 .. Len(gold) -> Nat] :
              /\ f[0] = 0 /\ f[Len(gold)] = MrrSum(gold, retrieved)
              /\ \A k \in 1 .. Len(gold) : f[k] = f[k - 1] + Reciprocal(gold[k], retrieved)
<1> DEFINE n == Len(gold)
           g == [x \in Nat \X (1 .. n) |-> x[1] + Reciprocal(gold[x[2]], retrieved)]
           Meets(it) == it = [s \in SUBSET DOMAIN gold |->
                                IF s = {} THEN 0
                                ELSE it[s \ {Max(s)}] + Reciprocal(gold[Max(s)], retrieved)]
           it == CHOOSE it : Meets(it)
<1>1. n \in Nat /\ DOMAIN gold = 1 .. n
  OBVIOUS
<1>2. \A v \in Nat, i \in 1 .. n : /\ g[<<v, i>>] = v + Reciprocal(gold[i], retrieved)
                                   /\ g[<<v, i>>] \in Nat
  BY ReciprocalFacts
<1>3. g \in [Nat \X (1 .. n) -> Nat]
  BY <1>2
<1> HIDE DEF g, n
<1>4. \E f \in [SUBSET (1 .. n) -> Nat] : IsFold(f, n, 0, g)
  BY <1>1, <1>3, FoldExists
<1>5. PICK h \in [SUBSET (1 .. n) -> Nat] : \A s \in SUBSET (1 .. n) :
              h[s] = IF s = {} THEN 0 ELSE g[<<h[s \ {Max(s)}], Max(s)>>]
  BY <1>4 DEF IsFold
<1>6. ASSUME NEW s \in SUBSET (1 .. n), s # {}
      PROVE  Max(s) \in 1 .. n /\ s \ {Max(s)} \in SUBSET (1 .. n)
  BY <1>1, <1>6, MaxOfPlaces
<1>7. Meets(h)
  <2>1. ASSUME NEW s \in SUBSET (1 .. n)
        PROVE  h[s] = IF s = {} THEN 0 ELSE h[s \ {Max(s)}] + Reciprocal(gold[Max(s)], retrieved)
    BY <1>2, <1>5, <1>6
  <2> QED BY <1>1, <1>5, <2>1
<1>8. Meets(it)
  <2> HIDE DEF Meets
  <2> QED BY <1>7
<1>9. MrrSum(gold, retrieved) = it[DOMAIN gold]
  BY DEF MrrSum, FoldLeft, MapThenFoldSet
<1> HIDE DEF it
<1>10. it[{}] = 0 /\ \A s \in SUBSET (1 .. n) : s # {} =>
            it[s] = it[s \ {Max(s)}] + Reciprocal(gold[Max(s)], retrieved)
  BY <1>1, <1>8
<1> HIDE DEF Meets
<1>11. \A s \in SUBSET (1 .. n) : (s # {} /\ it[s \ {Max(s)}] \in Nat)
            => it[s] = g[<<it[s \ {Max(s)}], Max(s)>>]
  BY <1>2, <1>6, <1>10
<1>12. \E f \in [0 .. n -> Nat] : IsRecursion(f, n, 0, g) /\ EndsAs(f, n, it)
  <2>1. TakesLast(it, Nat, n, 0, g)
    BY <1>10, <1>11 DEF TakesLast
  <2> QED BY <1>1, <1>3, <2>1, FoldRuns
<1>13. PICK f \in [0 .. n -> Nat] : /\ f[0] = 0 /\ f[n] = it[1 .. n]
                                    /\ \A k \in 1 .. n : f[k] = g[<<f[k - 1], k>>]
  BY <1>12 DEF IsRecursion, EndsAs
<1>14. ASSUME NEW k \in 1 .. n PROVE f[k] = f[k - 1] + Reciprocal(gold[k], retrieved)
  <2>1. k - 1 \in 0 .. n
    BY <1>1
  <2> QED BY <1>2, <1>13, <2>1
<1> QED BY <1>1, <1>9, <1>13, <1>14 DEF n

\* The places of the gold documents that are among the first k retrieved.
HitPlaces(gold, retrieved, k) ==
    {i \in DOMAIN gold : gold[i] \in ToSet(TopOf(retrieved, k))}

LEMMA TopFacts ==
    ASSUME NEW D, NEW retrieved \in Seq(D), NEW k \in Nat
    PROVE  \A d : d \in ToSet(TopOf(retrieved, k)) <=>
                    \E i \in 1 .. Len(retrieved) : i <= k /\ retrieved[i] = d
<1> DEFINE c == IF k < Len(retrieved) THEN k ELSE Len(retrieved)
           top == SubSeq(retrieved, 1, c)
<1>1. Len(retrieved) \in Nat /\ c \in Nat /\ c <= Len(retrieved)
  OBVIOUS
<1>2. TopOf(retrieved, k) = top
  BY DEF TopOf
<1>3. \A i : i \in 1 .. c <=> i \in 1 .. Len(retrieved) /\ i <= k
  OBVIOUS
<1> HIDE DEF c
<1>4. DOMAIN top = 1 .. c /\ \A i \in 1 .. c : top[i] = retrieved[i]
  BY <1>1
<1> HIDE DEF top
<1> QED BY <1>2, <1>3, <1>4 DEF ToSet

\* The figures agree, whatever is retrieved (run_eval.py:83-104).
THEOREM RecallAlwaysBoundsMrr ==
    ASSUME NEW D, NEW gold \in Seq(D), NEW retrieved \in Seq(D),
           \A i, j \in DOMAIN gold : gold[i] = gold[j] => i = j
    PROVE  RecallBoundsMrr(gold, retrieved)
<1> DEFINE n == Len(gold)
           all == Len(retrieved)
           A(k) == HitPlaces(gold, retrieved, k)
           x(k) == Reciprocal(gold[k], retrieved)
<1>1. /\ n \in Nat /\ DOMAIN gold = 1 .. n /\ all \in Nat /\ DOMAIN retrieved = 1 .. all
      /\ Whole \in Nat /\ Whole > 0
  BY MetricsAssumption
<1>15. \A i, j \in 1 .. n : gold[i] = gold[j] => i = j
  BY <1>1
<1>2. \A k \in Nat : \A i : i \in A(k) <=>
            i \in 1 .. n /\ \E j \in 1 .. all : j <= k /\ retrieved[j] = gold[i]
  BY <1>1, TopFacts DEF HitPlaces
<1>3. \A k : A(k) \in SUBSET (1 .. n) /\ Hits(gold, retrieved, k) = Cardinality(A(k))
  BY <1>1 DEF HitPlaces, Hits
<1>4. \A i \in 1 .. n : /\ x(i) \in Nat /\ x(i) <= Whole
                        /\ gold[i] \notin ToSet(retrieved) => x(i) = 0
                        /\ all > 0 /\ retrieved[1] = gold[i] => x(i) = Whole
                        /\ ~(all > 0 /\ retrieved[1] = gold[i]) => x(i) < Whole
  BY ReciprocalFacts
<1>5. PICK f \in [0 .. n -> Nat] : /\ f[0] = 0 /\ f[n] = MrrSum(gold, retrieved)
                                   /\ \A k \in 1 .. n : f[k] = f[k - 1] + x(k)
  BY MrrStepwise
<1> HIDE DEF n, all, A, x
<1>6. \A i \in 1 .. n : i \in A(1) <=> (all > 0 /\ retrieved[1] = gold[i])
  <2> TAKE i \in 1 .. n
  <2>1. \A j \in 1 .. all : j <= 1 => j = 1
    BY <1>1
  <2>2. all > 0 => 1 \in 1 .. all
    BY <1>1
  <2>3. \A j \in 1 .. all : all > 0
    BY <1>1
  <2> QED BY <1>2, <2>1, <2>2, <2>3
<1>7. \A i \in 1 .. n : i \in A(all) <=> gold[i] \in ToSet(retrieved)
  <2>1. \A j \in 1 .. all : j <= all
    BY <1>1
  <2> QED BY <1>1, <1>2, <2>1 DEF ToSet
<1> DEFINE c(k) == Cardinality(Upto(A(1), k))
           d(k) == Cardinality(Upto(A(all), k))
<1>8. /\ c(0) = 0 /\ c(n) = Cardinality(A(1))
      /\ \A k \in 0 .. n : c(k) \in Nat
      /\ \A k \in 1 .. n : c(k) = c(k - 1) + (IF k \in A(1) THEN 1 ELSE 0)
  <2>1. A(1) \in SUBSET (1 .. n)
    BY <1>3
  <2>2. Upto(A(1), n) = A(1)
    BY <1>1, <2>1, UptoCounts
  <2> QED BY <1>1, <2>1, <2>2, UptoCounts
<1>9. /\ d(0) = 0 /\ d(n) = Cardinality(A(all))
      /\ \A k \in 0 .. n : d(k) \in Nat
      /\ \A k \in 1 .. n : d(k) = d(k - 1) + (IF k \in A(all) THEN 1 ELSE 0)
  <2>1. A(all) \in SUBSET (1 .. n)
    BY <1>3
  <2>2. Upto(A(all), n) = A(all)
    BY <1>1, <2>1, UptoCounts
  <2> QED BY <1>1, <2>1, <2>2, UptoCounts
<1> HIDE DEF c, d
<1> DEFINE T == {k \in 0 .. n : /\ Whole * c(k) <= f[k] /\ f[k] <= Whole * d(k)
                                /\ f[k] <= Whole * k /\ d(k) <= k
                                /\ k > 1 => f[k] < Whole * k}
<1>10. 0 \in T
  BY <1>1, <1>5, <1>8, <1>9
<1>11. ASSUME NEW k \in 0 .. n - 1, k \in T PROVE k + 1 \in T
  <2>1. k + 1 \in 1 .. n /\ (k + 1) - 1 = k /\ k \in 0 .. n /\ k + 1 \in 0 .. n /\ k \in Nat
    BY <1>1
  <2>2. f[k + 1] = f[k] + x(k + 1) /\ f[k] \in Nat /\ x(k + 1) \in Nat /\ x(k + 1) <= Whole
    BY <1>4, <1>5, <2>1
  <2>3. /\ c(k + 1) = c(k) + (IF k + 1 \in A(1) THEN 1 ELSE 0) /\ c(k) \in Nat
        /\ d(k + 1) = d(k) + (IF k + 1 \in A(all) THEN 1 ELSE 0) /\ d(k) \in Nat
    BY <1>8, <1>9, <2>1
  <2>4. /\ Whole * c(k) <= f[k] /\ f[k] <= Whole * d(k)
        /\ f[k] <= Whole * k /\ d(k) <= k
        /\ k > 1 => f[k] < Whole * k
    BY <1>11
  <2>5. \A m \in Nat : Whole * (m + 1) = Whole * m + Whole /\ Whole * m \in Nat
    BY <1>1
  <2>6. Whole * c(k + 1) <= f[k + 1]
    <3>1. CASE k + 1 \in A(1)
      <4>1. x(k + 1) = Whole /\ c(k + 1) = c(k) + 1
        BY <1>4, <1>6, <2>1, <2>3, <3>1
      <4>2. Whole * c(k + 1) = Whole * c(k) + Whole /\ Whole * c(k) \in Nat
        BY <2>3, <2>5, <4>1
      <4> QED BY <1>1, <2>2, <2>4, <4>1, <4>2
    <3>2. CASE k + 1 \notin A(1)
      <4>1. c(k + 1) = c(k) /\ Whole * c(k) \in Nat
        BY <2>3, <2>5, <3>2
      <4> QED BY <2>2, <2>4, <4>1
    <3> QED BY <3>1, <3>2
  <2>7. f[k + 1] <= Whole * d(k + 1) /\ d(k + 1) <= k + 1
    <3>1. CASE k + 1 \in A(all)
      <4>1. d(k + 1) = d(k) + 1
        BY <2>3, <3>1
      <4>2. Whole * d(k + 1) = Whole * d(k) + Whole /\ Whole * d(k) \in Nat
        BY <2>3, <2>5, <4>1
      <4>3. f[k + 1] <= Whole * d(k + 1)
        BY <1>1, <2>2, <2>4, <4>2
      <4>4. d(k + 1) <= k + 1
        BY <2>1, <2>3, <2>4, <4>1
      <4> QED BY <4>3, <4>4
    <3>2. CASE k + 1 \notin A(all)
      <4>1. x(k + 1) = 0 /\ d(k + 1) = d(k)
        BY <1>4, <1>7, <2>1, <2>3, <3>2
      <4> QED BY <2>1, <2>2, <2>3, <2>4, <4>1
    <3> QED BY <3>1, <3>2
  <2>8. Whole * (k + 1) = Whole * k + Whole /\ Whole * k \in Nat
    BY <2>1, <2>5
  <2>9. f[k + 1] <= Whole * (k + 1)
    BY <1>1, <2>2, <2>4, <2>8
  <2>10. k + 1 > 1 => f[k + 1] < Whole * (k + 1)
    <3>1. CASE k > 1
      BY <1>1, <2>2, <2>4, <2>8, <3>1
    <3>2. CASE k = 1
      <4>1. f[1] = f[0] + x(1) /\ f[1] = x(1) /\ 1 \in 1 .. n /\ 2 \in 1 .. n
        BY <1>1, <1>4, <1>5, <2>1, <3>2
      <4>2. gold[1] # gold[2]
        BY <1>15, <4>1
      <4>3. ~(all > 0 /\ retrieved[1] = gold[1]) \/ ~(all > 0 /\ retrieved[1] = gold[2])
        BY <4>2
      <4>4. x(1) < Whole \/ x(2) < Whole
        BY <1>4, <4>1, <4>3
      <4>5. x(1) \in Nat /\ x(2) \in Nat /\ x(1) <= Whole /\ x(2) <= Whole
        BY <1>4, <4>1
      <4>6. f[2] = x(1) + x(2)
        BY <2>2, <3>2, <4>1
      <4>7. x(1) + x(2) < Whole + Whole
        BY <1>1, <4>4, <4>5
      <4> QED BY <1>1, <2>8, <3>2, <4>6, <4>7
    <3>3. CASE k = 0
      BY <3>3
    <3> QED BY <2>1, <3>1, <3>2, <3>3
  <2> QED BY <2>1, <2>6, <2>7, <2>9, <2>10
<1>12. n \in T
  <2>1. \A k \in 0 .. n - 1 : k \in T => k + 1 \in T
    BY <1>11
  <2>2. n \in 0 .. n
    BY <1>1
  <2> HIDE DEF T
  <2> QED BY <1>1, <1>10, <2>1, <2>2, UpTo
<1>13. /\ Whole * Hits(gold, retrieved, 1) <= MrrSum(gold, retrieved)
       /\ MrrSum(gold, retrieved) <= Whole * Hits(gold, retrieved, all)
       /\ Hits(gold, retrieved, all) <= n
       /\ n > 1 => MrrSum(gold, retrieved) < Whole * n
  BY <1>3, <1>5, <1>8, <1>9, <1>12
<1>14. ASSUME NEW k \in 1 .. all
       PROVE  Hits(gold, retrieved, k - 1) <= Hits(gold, retrieved, k)
  <2>1. k \in Nat /\ k - 1 \in Nat /\ \A j \in 1 .. all : j <= k - 1 => j <= k
    BY <1>1
  <2>2. A(k - 1) \subseteq A(k)
    BY <1>2, <2>1
  <2>3. IsFiniteSet(A(k))
    <3>1. IsFiniteSet(1 .. n)
      BY <1>1, FS_Interval
    <3> QED BY <1>3, <3>1, FS_Subset
  <2>4. Cardinality(A(k - 1)) <= Cardinality(A(k))
    BY <2>2, <2>3, FS_Subset
  <2> QED BY <1>3, <2>4
<1> QED BY <1>13, <1>14 DEF RecallBoundsMrr, n, all

-----------------------------------------------------------------------------
(* Percentiles.                                                             *)

\* p95 is never below p50 but for two items (run_eval.py:262-266).
THEOREM PercentilesAlwaysOrdered == \A n \in Nat \ {0} : PercentilesOrdered(n)
BY DEF PercentilesOrdered, P50, P95

-----------------------------------------------------------------------------
(* The calls of PureFunctions: for any sets of inputs, of any length.       *)

\* A call is of one of the functions, with inputs of its sets.
Right(t) ==
    /\ t.fn = "fusion" => t.bm25 \in Rankings /\ t.vector \in Rankings /\ t.outK \in Cuts
    /\ t.fn = "load" => t.plumber \in Reads /\ t.pypdf \in Reads
    /\ t.fn = "clean_pages" => t.pages \in PageLists
    /\ t.fn = "clean_page" => t.page \in NumberedPages
    /\ t.fn = "preview" => t.flat \in Flats
    /\ t.fn = "list" => t.chunks \in ChunkLists
    /\ t.fn = "score" => t.gold \in GoldLists /\ t.retrieved \in ResultLists
    /\ t.fn = "latency" => t.n \in ItemCounts

LEMMA CallsRight == Spec => []Right(task)
<1>1. Init => Right(task)
  BY DEF Init, NoTask, Right
<1>2. Right(task) /\ [Next]_task => Right(task)'
  <2> SUFFICES ASSUME Right(task), Next PROVE Right(task')
    BY Zenon
  <2>1. CASE task' \in [fn : {"fusion"}, bm25 : Rankings, vector : Rankings, outK : Cuts]
    BY <2>1 DEF Right
  <2>2. CASE task' \in [fn : {"load"}, plumber : Reads, pypdf : Reads]
    BY <2>2 DEF Right
  <2>3. CASE task' \in [fn : {"clean_pages"}, pages : PageLists]
    BY <2>3 DEF Right
  <2>4. CASE task' \in [fn : {"clean_page"}, page : NumberedPages]
    BY <2>4 DEF Right
  <2>5. CASE task' \in [fn : {"preview"}, flat : Flats]
    BY <2>5 DEF Right
  <2>6. CASE task' \in [fn : {"list"}, chunks : ChunkLists]
    BY <2>6 DEF Right
  <2>7. CASE task' \in [fn : {"score"}, gold : GoldLists, retrieved : ResultLists]
    BY <2>7 DEF Right
  <2>8. CASE task' \in [fn : {"latency"}, n : ItemCounts]
    BY <2>8 DEF Right
  <2> QED BY <2>1, <2>2, <2>3, <2>4, <2>5, <2>6, <2>7, <2>8, Zenon DEF Next
<1> QED BY <1>1, <1>2, PTL DEF Spec

\* For any rankings and cuts, and every damping constant that is not smaller
\* than the lists are long but one: the fused list is in order
\* (hybrid.py:31-87).
THEOREM FusionAlwaysInOrder ==
    ASSUME MaxRank < K + 2
    PROVE  Spec => []FusedInOrder
<1>1. Right(task) => FusedInOrder
  <2> SUFFICES ASSUME Right(task), task.fn = "fusion"
               PROVE  /\ HybridIsBest(task.bm25, task.vector, task.outK)
                      /\ BothAheadOfOne(task.bm25, task.vector, task.outK)
                      /\ DominatedIsBehindOf(task.bm25, task.vector, task.outK)
    BY DEF FusedInOrder
  <2>1. IsRanking(task.bm25) /\ IsRanking(task.vector) /\ task.outK \in Nat
    BY InputsAssumption DEF Right
  <2>2. HybridIsBest(task.bm25, task.vector, task.outK)
    BY <2>1, HybridIsAlwaysBest
  <2>3. BothAheadOfOne(task.bm25, task.vector, task.outK)
    BY <2>1, BothAlwaysAhead
  <2>4. DominatedIsBehindOf(task.bm25, task.vector, task.outK)
    BY <2>1, DominatedAlwaysBehind
  <2> QED BY <2>2, <2>3, <2>4
<1> QED BY <1>1, CallsRight, PTL

\* Whatever two extractors make of a file of any length, a readable document is
\* only emptied as said (loader.py:70-84, cleaner.py:52-122).
THEOREM ReadableNeverEmpty == Spec => []ReadableNotEmpty
<1>1. Right(task) => ReadableNotEmpty
  <2> SUFFICES ASSUME Right(task), task.fn = "load"
               PROVE  ReadableSurvives(task.plumber, task.pypdf)
    BY DEF ReadableNotEmpty
  <2>1. task.plumber.pages \in Seq(Seq(PageLines)) /\ task.pypdf.pages \in Seq(Seq(PageLines))
    BY InputsAssumption DEF Right
  <2> QED BY <2>1, ReadableAlwaysSurvives DEF PageLines
<1> QED BY <1>1, CallsRight, PTL

\* However many pages of however many lines: cleaning takes no text but a
\* header that is common (cleaner.py:52-122).
THEOREM TextAlwaysKept == Spec => []TextKept
<1>1. Right(task) => TextKept
  <2>1. ASSUME Right(task), task.fn = "clean_pages" PROVE TextSurvives(task.pages)
    <3>1. task.pages \in Seq(Seq(PageLines))
      BY <2>1, InputsAssumption DEF Right
    <3> QED BY <3>1, TextAlwaysSurvives DEF PageLines
  <2>2. ASSUME Right(task), task.fn = "clean_page" PROVE TextSurvives(<<task.page>>)
    <3> DEFINE P == Seq(PageLines)
    <3>1. task.page \in P
      BY <2>2, InputsAssumption DEF Right
    <3> HIDE DEF P
    <3>2. <<task.page>> \in Seq(P)
      BY <3>1
    <3> QED BY <3>2, TextAlwaysSurvives DEF PageLines, P
  <2> QED BY <2>1, <2>2 DEF TextKept
<1> QED BY <1>1, CallsRight, PTL

\* However many pages there are: a header of the majority goes from each page
\* it heads (cleaner.py:52-93).
THEOREM MajorityHeaderAlwaysGone == Spec => []MajorityHeaderGone
<1>1. Right(task) => MajorityHeaderGone
  <2> SUFFICES ASSUME Right(task), task.fn = "clean_pages"
               PROVE  MajorityHeaderDropped(task.pages)
    BY DEF MajorityHeaderGone
  <2>1. task.pages \in Seq(Seq(PageLines))
    BY InputsAssumption DEF Right
  <2> QED BY <2>1, MajorityHeaderAlwaysDropped
<1> QED BY <1>1, CallsRight, PTL

\* On a page of any length page numbers go and other numbers stay, but for
\* broken ones (cleaner.py:96-109).
THEOREM NumbersAlwaysKept == Spec => []NumbersKept
<1>1. Right(task) => NumbersKept
  <2> SUFFICES ASSUME Right(task), task.fn = "clean_page"
               PROVE  NumbersExplained(task.page)
    BY DEF NumbersKept
  <2>1. task.page \in Seq(PageLines) /\ SinglePieces(task.page) /\ NothingTwice(task.page)
    BY InputsAssumption DEF Right
  <2> QED BY <2>1, NumbersAlwaysExplained DEF PageLines
<1> QED BY <1>1, CallsRight, PTL

\* A preview is cut between words and within its bounds, and a document with a
\* long chunk has one, of prose if there is some, for any texts and any number
\* of chunks (documents.py:38-51, 61-115).
THEOREM PreviewAlwaysReadable == Spec => []PreviewReadable
<1>1. Right(task) => PreviewReadable
  <2>1. \A text : IsFlat(text) => Len(text) \in Nat \ {0}
    BY DEF IsFlat
  <2>2. ASSUME Right(task), task.fn = "preview"
        PROVE  PreviewFits(task.flat) /\ CutBetweenWords(task.flat)
    <3>1. Len(task.flat) \in Nat
      BY <2>1, <2>2, InputsAssumption DEF Right
    <3>2. PreviewFits(task.flat)
      BY <3>1, PreviewAlwaysFits
    <3>3. CutBetweenWords(task.flat)
      BY <3>1, PreviewAlwaysFits
    <3> QED BY <3>2, <3>3
  <2>3. ASSUME Right(task), task.fn = "list"
        PROVE  PreviewShown(task.chunks)
    <3>1. /\ task.chunks \in Seq(Chunks)
          /\ \A i \in DOMAIN task.chunks : Len(task.chunks[i].text) \in Nat \ {0}
      BY <2>1, <2>3, InputsAssumption DEF Right
    <3> QED BY <3>1, PreviewAlwaysShown
  <2> QED BY <2>2, <2>3 DEF PreviewReadable
<1> QED BY <1>1, CallsRight, PTL

\* The figures of an evaluation agree with each other, for any lists and any
\* number of items (run_eval.py:83-104, 262-266).
THEOREM FiguresAlwaysConsistent == Spec => []FiguresConsistent
<1>1. Right(task) => FiguresConsistent
  <2>1. ASSUME Right(task), task.fn = "score"
        PROVE  RecallBoundsMrr(task.gold, task.retrieved)
    <3>1. /\ task.gold \in Seq(Ids) /\ task.retrieved \in Seq(Ids)
          /\ \A i, j \in DOMAIN task.gold : task.gold[i] = task.gold[j] => i = j
      BY <2>1, InputsAssumption DEF Right
    <3> QED BY <3>1, RecallAlwaysBoundsMrr
  <2>2. ASSUME Right(task), task.fn = "latency"
        PROVE  PercentilesOrdered(task.n)
    BY <2>2, PercentilesAlwaysOrdered, InputsAssumption DEF Right
  <2> QED BY <2>1, <2>2 DEF FiguresConsistent
<1> QED BY <1>1, CallsRight, PTL
=============================================================================
