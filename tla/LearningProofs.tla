--------------------------- MODULE LearningProofs ---------------------------
(***************************************************************************)
(* Theorems about what is observed and what is learnt from it, each of the *)
(* modules on its own and for any value of its constants: the live         *)
(* observation, the registry of the stream, the day journal with the gate, *)
(* the vote of a lens, the replay of an archived session and the chart.    *)
(***************************************************************************)
EXTENDS LensBrain, DayJournal, AngelStream, LiveSnapshot, Replay, Charts,
        TLAPS, WellFoundedInduction, FiniteSetTheorems

---------------------------------------------------------------------------
(* Induction, minima and sums *)

\* A set of numbers that has 0, and i + 1 with every i below n, has all numbers up to n.
LEMMA UpTo ==
    ASSUME NEW n \in Nat, NEW P, 0 \in P, \A i \in 0 .. n - 1 : i \in P => i + 1 \in P
    PROVE  \A i \in 0 .. n : i \in P
<1> SUFFICES ASSUME {i \in 0 .. n : i \notin P} # {} PROVE FALSE
  OBVIOUS
<1> DEFINE out == {i \in 0 .. n : i \notin P}
<1>1. PICK i \in out : \A j \in out : ~(<<j, i>> \in OpToRel(<, Nat))
  <2>1. out \subseteq Nat /\ out # {}
    OBVIOUS
  <2> QED BY <2>1, NatLessThanWellFounded, WFMin
<1>2. i \in Nat /\ i # 0 /\ i - 1 \in 0 .. n - 1 /\ i - 1 \in Nat
  OBVIOUS
<1>3. \A j \in Nat : j < i => j \notin out
  BY <1>1, <1>2 DEF OpToRel
<1>4. i - 1 \notin out
  BY <1>2, <1>3
<1> QED BY <1>2, <1>4

\* A set of whole numbers within bounds that is not empty has a least and a greatest one.
LEMMA Extremes ==
    ASSUME NEW n \in Nat, NEW S, S \subseteq 0 .. n, S # {}
    PROVE  /\ Min(S) \in S /\ \A k \in S : Min(S) <= k
           /\ Max(S) \in S /\ \A k \in S : k <= Max(S)
<1>1. PICK a \in S : \A k \in S : ~(<<k, a>> \in OpToRel(<, Nat))
  <2>1. S \subseteq Nat
    OBVIOUS
  <2> QED BY <2>1, NatLessThanWellFounded, WFMin
<1>2. \A k \in S : a <= k
  <2>1. S \subseteq Nat
    OBVIOUS
  <2>2. \A k \in S : k \in Nat /\ a \in Nat /\ ~(k < a)
    BY <1>1, <2>1 DEF OpToRel
  <2> QED BY <2>2
<1> DEFINE T == {n - k : k \in S}
<1>3. PICK b \in T : \A k \in T : ~(<<k, b>> \in OpToRel(<, Nat))
  <2>1. \A k \in S : k \in Int /\ k <= n /\ n - k \in Nat
    OBVIOUS
  <2>2. T \subseteq Nat /\ T # {}
    BY <2>1
  <2> HIDE DEF T
  <2> QED BY <2>2, NatLessThanWellFounded, WFMin
<1>4. PICK c \in S : b = n - c
  OBVIOUS
<1>5. \A k \in S : k <= c
  <2> SUFFICES ASSUME NEW k \in S PROVE k <= c
    OBVIOUS
  <2>1. k \in Int /\ c \in Int /\ n - k \in Nat /\ n - c \in Nat /\ n - k \in T
    OBVIOUS
  <2>2. ~(n - k < n - c)
    BY <1>3, <1>4, <2>1 DEF OpToRel
  <2> QED BY <2>1, <2>2
<1> QED BY <1>2, <1>5 DEF Min, Max

LEMMA LeastOfTwo ==
    ASSUME NEW x \in Nat, NEW y \in Nat
    PROVE  Min({x, y}) \in Nat /\ \A j \in Int : j <= Min({x, y}) <=> j <= x /\ j <= y
<1>1. Min({x, y}) = IF x <= y THEN x ELSE y
  BY DEF Min
<1> QED BY <1>1

\* f goes from e by one step after the other, in V.
Stepping(f, n, V, e, rule) ==
    /\ f \in [0 .. n -> V]
    /\ f[0] = e
    /\ \A i \in 1 .. n : f[i] = rule[i][f[i - 1]]

\* What is computed from the value before, over numbers up to n, is well defined.
LEMMA StepByStep ==
    ASSUME NEW n \in Nat, NEW V, NEW e \in V, NEW rule \in [1 .. n -> [V -> V]]
    PROVE  \E f : Stepping(f, n, V, e, rule)
<1> DEFINE ok(k, f) == /\ f \in [0 .. k -> V]
                       /\ f[0] = e /\ \A i \in 1 .. k : f[i] = rule[i][f[i - 1]]
           P == {k \in 0 .. n : \E f : ok(k, f)}
<1>1. 0 \in P
  <2> DEFINE f == [i \in 0 .. 0 |-> e]
  <2>1. ok(0, f)
    OBVIOUS
  <2> HIDE DEF f, ok
  <2> QED BY <2>1
<1>2. \A k \in 0 .. n - 1 : k \in P => k + 1 \in P
  <2> SUFFICES ASSUME NEW k \in 0 .. n - 1, k \in P PROVE k + 1 \in P
    OBVIOUS
  <2> PICK f : ok(k, f)
    OBVIOUS
  <2> DEFINE g == [i \in 0 .. k + 1 |-> IF i <= k THEN f[i] ELSE rule[k + 1][f[k]]]
  <2>1. f[k] \in V /\ rule[k + 1] \in [V -> V] /\ rule[k + 1][f[k]] \in V
    OBVIOUS
  <2>2. g \in [0 .. k + 1 -> V]
    BY <2>1
  <2>3. \A i \in 1 .. k : i <= k /\ i - 1 <= k /\ i \in 0 .. k + 1 /\ i - 1 \in 0 .. k + 1
    OBVIOUS
  <2>4. \A i \in 1 .. k : g[i] = rule[i][g[i - 1]]
    BY <2>3
  <2>5. g[0] = e /\ g[k + 1] = rule[k + 1][g[k]]
    OBVIOUS
  <2>6. \A i \in 1 .. k + 1 : i \in 1 .. k \/ i = k + 1
    OBVIOUS
  <2> HIDE DEF g
  <2>7. \A i \in 1 .. k + 1 : g[i] = rule[i][g[i - 1]]
    <3> SUFFICES ASSUME NEW i \in 1 .. k + 1 PROVE g[i] = rule[i][g[i - 1]]
      OBVIOUS
    <3>1. CASE i \in 1 .. k
      BY <2>4, <3>1
    <3>2. CASE i = k + 1
      <4>1. i - 1 = k
        BY <3>2
      <4> QED BY <2>5, <3>2, <4>1
    <3> QED BY <2>6, <3>1, <3>2
  <2>8. ok(k + 1, g)
    BY <2>2, <2>5, <2>7
  <2>9. k + 1 \in 0 .. n
    OBVIOUS
  <2> QED BY <2>8, <2>9
<1> HIDE DEF P
<1>3. n \in P
  <2>1. \A k \in 0 .. n : k \in P
    BY <1>1, <1>2, UpTo
  <2> QED BY <2>1
<1>4. PICK f : ok(n, f)
  BY <1>3 DEF P
<1> QED BY <1>4 DEF Stepping

\* A set of subsets of a finite set that has the empty one, and one that has lost an
\* element only with itself, has all of them.
LEMMA BySubsets ==
    ASSUME NEW S, IsFiniteSet(S), NEW P, {} \in P,
           \A T \in SUBSET S : T # {} /\ (\A x \in T : T \ {x} \in P) => T \in P
    PROVE  \A T \in SUBSET S : T \in P
<1> DEFINE size == {i \in Nat : \A T \in SUBSET S : Cardinality(T) = i => T \in P}
<1>1. \A T \in SUBSET S : IsFiniteSet(T) /\ Cardinality(T) \in Nat
  BY FS_Subset, FS_CardinalityType
<1>2. 0 \in size
  <2>1. \A T \in SUBSET S : Cardinality(T) = 0 => T = {}
    BY <1>1, FS_EmptySet
  <2> QED BY <2>1
<1>3. \A i \in Nat : i \in size => i + 1 \in size
  <2> SUFFICES ASSUME NEW i \in size, NEW T \in SUBSET S, Cardinality(T) = i + 1 PROVE T \in P
    OBVIOUS
  <2>1. T # {}
    <3>1. Cardinality({}) = 0 /\ i + 1 # 0
      BY FS_EmptySet
    <3> QED BY <3>1
  <2>2. \A x \in T : Cardinality(T \ {x}) = i
    BY <1>1, FS_RemoveElement
  <2>3. \A x \in T : T \ {x} \in P
    BY <2>2
  <2> QED BY <2>1, <2>3
<1> HIDE DEF size
<1>4. \A n \in Nat : \A i \in 0 .. n : i \in size
  BY <1>2, <1>3, UpTo
<1>5. \A n \in Nat : n \in size
  BY <1>4
<1> QED BY <1>1, <1>5 DEF size

\* The sum of a function over a finite set is a number: of nothing 0, and of a set the value
\* of one of its elements and the sum over the rest.
Summing(fun, S) ==
    CHOOSE sum : sum = [T \in SUBSET S |->
        IF T = {} THEN 0 ELSE fun[CHOOSE x \in T : TRUE] + sum[T \ {CHOOSE x \in T : TRUE}]]

LEMMA SumIsSumming ==
    \A fun, S : SumFunctionOnSet(fun, S) = Summing(fun, S)[S]
  BY DEF SumFunctionOnSet, FoldFunctionOnSet, MapThenFoldSet, Summing

\* The element of T whose value a sum over T starts with.
FirstOf(T) == CHOOSE x \in T : TRUE

LEMMA SummingUnfolds ==
    ASSUME NEW fun, NEW S, IsFiniteSet(S), NEW T \in SUBSET S
    PROVE  Summing(fun, S)[T] =
               IF T = {} THEN 0
               ELSE fun[FirstOf(T)] + Summing(fun, S)[T \ {FirstOf(T)}]
<1> DEFINE pick(U) == FirstOf(U)
           unfold(g, U) == IF U = {} THEN 0 ELSE fun[pick(U)] + g[U \ {pick(U)}]
           ok(i, g) == g = [U \in SUBSET S |-> IF Cardinality(U) > i THEN 0 ELSE unfold(g, U)]
           P == {i \in Nat : \E g : ok(i, g)}
<1> HIDE DEF pick
<1>1. \A U \in SUBSET S : IsFiniteSet(U) /\ Cardinality(U) \in Nat
  BY FS_Subset, FS_CardinalityType
<1>2. \A U \in SUBSET S : U # {} => /\ pick(U) \in U /\ U \ {pick(U)} \in SUBSET S
                                   /\ Cardinality(U \ {pick(U)}) = Cardinality(U) - 1
  BY <1>1, FS_RemoveElement DEF pick, FirstOf
<1>3. \A U \in SUBSET S : Cardinality(U) = 0 => U = {}
  BY <1>1, FS_EmptySet
<1>4. 0 \in P
  <2> DEFINE g == [U \in SUBSET S |-> 0]
  <2>1. \A U \in SUBSET S : (IF Cardinality(U) > 0 THEN 0 ELSE unfold(g, U)) = 0
    BY <1>1, <1>3
  <2>2. ok(0, g)
    BY <2>1
  <2> QED BY <2>2
<1>5. \A i \in Nat : i \in P => i + 1 \in P
  <2> SUFFICES ASSUME NEW i \in Nat, i \in P PROVE i + 1 \in P
    OBVIOUS
  <2> PICK g : ok(i, g)
    OBVIOUS
  <2> DEFINE h == [U \in SUBSET S |-> IF Cardinality(U) > i + 1 THEN 0 ELSE unfold(g, U)]
  <2> HIDE DEF unfold
  <2>1. \A U \in SUBSET S : Cardinality(U) <= i => h[U] = g[U]
    <3> SUFFICES ASSUME NEW U \in SUBSET S, Cardinality(U) <= i PROVE h[U] = g[U]
      OBVIOUS
    <3>1. h[U] = unfold(g, U)
      BY <1>1
    <3>2. g[U] = unfold(g, U)
      BY <1>1
    <3> QED BY <3>1, <3>2
  <2>2. \A U \in SUBSET S : Cardinality(U) <= i + 1 => unfold(g, U) = unfold(h, U)
    <3> SUFFICES ASSUME NEW U \in SUBSET S, Cardinality(U) <= i + 1, U # {}
                 PROVE  unfold(g, U) = unfold(h, U)
      BY DEF unfold
    <3>1. U \ {pick(U)} \in SUBSET S /\ Cardinality(U \ {pick(U)}) <= i
      BY <1>1, <1>2
    <3>2. h[U \ {pick(U)}] = g[U \ {pick(U)}]
      BY <2>1, <3>1
    <3> QED BY <3>2 DEF unfold
  <2>3. \A U \in SUBSET S : ~(Cardinality(U) > i + 1) => Cardinality(U) <= i + 1
    BY <1>1
  <2>4. h = [U \in SUBSET S |-> IF Cardinality(U) > i + 1 THEN 0 ELSE unfold(h, U)]
    BY <2>2, <2>3
  <2>5. ok(i + 1, h)
    BY <2>4
  <2> HIDE DEF h, ok
  <2>6. \E k : ok(i + 1, k)
    BY <2>5
  <2> QED BY <2>6
<1> HIDE DEF P
<1>6. Cardinality(S) \in P
  <2>1. Cardinality(S) \in Nat
    BY <1>1
  <2> QED BY <1>4, <1>5, <2>1, UpTo
<1>7. PICK g : ok(Cardinality(S), g)
  BY <1>6 DEF P
<1>8. \A U \in SUBSET S : ~(Cardinality(U) > Cardinality(S))
  BY <1>1, FS_Subset
<1>9. g = [U \in SUBSET S |-> unfold(g, U)]
  BY <1>7, <1>8
<1>10. Summing(fun, S) = [U \in SUBSET S |-> unfold(Summing(fun, S), U)]
  BY <1>9 DEF Summing, pick, FirstOf
<1> QED BY <1>10 DEF pick

LEMMA FirstIsThere ==
    ASSUME NEW S, NEW T \in SUBSET S, T # {}
    PROVE  FirstOf(T) \in T /\ T \ {FirstOf(T)} \in SUBSET S
  BY DEF FirstOf

LEMMA SumStarts ==
    ASSUME NEW S, IsFiniteSet(S), NEW T \in SUBSET S, T # {}, NEW f
    PROVE  Summing(f, S)[T] = f[FirstOf(T)] + Summing(f, S)[T \ {FirstOf(T)}]
  BY SummingUnfolds

LEMMA SumOfNothing ==
    ASSUME NEW S, IsFiniteSet(S)
    PROVE  \A f : Summing(f, S)[{}] = 0
  BY SummingUnfolds

LEMMA SumIsNumber ==
    ASSUME NEW S, IsFiniteSet(S), NEW f, \A x \in S : f[x] \in Int
    PROVE  \A T \in SUBSET S : Summing(f, S)[T] \in Int
<1> DEFINE P == {T \in SUBSET S : Summing(f, S)[T] \in Int}
<1>1. {} \in P
  BY SumOfNothing
<1>2. \A T \in SUBSET S : T # {} /\ (\A x \in T : T \ {x} \in P) => T \in P
  <2> SUFFICES ASSUME NEW T \in SUBSET S, T # {}, \A x \in T : T \ {x} \in P PROVE T \in P
    OBVIOUS
  <2>1. Summing(f, S)[T] = f[FirstOf(T)] + Summing(f, S)[T \ {FirstOf(T)}]
    BY SumStarts
  <2>2. FirstOf(T) \in T /\ T \ {FirstOf(T)} \in SUBSET S
    BY FirstIsThere
  <2>3. f[FirstOf(T)] \in Int /\ Summing(f, S)[T \ {FirstOf(T)}] \in Int
    BY <2>2
  <2> QED BY <2>1, <2>3
<1> HIDE DEF P
<1>3. \A T \in SUBSET S : T \in P
  BY <1>1, <1>2, BySubsets
<1> QED BY <1>3 DEF P

\* A sum is linear in the function.
LEMMA SumIsLinear ==
    ASSUME NEW S, IsFiniteSet(S), NEW f, NEW g, NEW h, NEW d \in Int,
           \A x \in S : f[x] \in Int /\ g[x] \in Int /\ h[x] = f[x] + d * g[x]
    PROVE  \A T \in SUBSET S : Summing(h, S)[T] = Summing(f, S)[T] + d * Summing(g, S)[T]
<1> DEFINE P == {T \in SUBSET S : Summing(h, S)[T] = Summing(f, S)[T] + d * Summing(g, S)[T]}
<1>1. \A T \in SUBSET S : Summing(f, S)[T] \in Int /\ Summing(g, S)[T] \in Int
  BY SumIsNumber
<1>2. {} \in P
  <2>1. Summing(f, S)[{}] = 0 /\ Summing(g, S)[{}] = 0 /\ Summing(h, S)[{}] = 0
    BY SumOfNothing
  <2> QED BY <2>1
<1>3. \A T \in SUBSET S : T # {} /\ (\A x \in T : T \ {x} \in P) => T \in P
  <2> SUFFICES ASSUME NEW T \in SUBSET S, T # {}, \A x \in T : T \ {x} \in P PROVE T \in P
    OBVIOUS
  <2> DEFINE x == FirstOf(T)
             R == T \ {x}
  <2>1. x \in T /\ R \in SUBSET S
    BY FirstIsThere
  <2>2. /\ Summing(h, S)[T] = h[x] + Summing(h, S)[R]
        /\ Summing(f, S)[T] = f[x] + Summing(f, S)[R]
        /\ Summing(g, S)[T] = g[x] + Summing(g, S)[R]
    <3>1. Summing(h, S)[T] = h[x] + Summing(h, S)[R]
      BY SumStarts
    <3>2. Summing(f, S)[T] = f[x] + Summing(f, S)[R]
      BY SumStarts
    <3>3. Summing(g, S)[T] = g[x] + Summing(g, S)[R]
      BY SumStarts
    <3> QED BY <3>1, <3>2, <3>3
  <2>3. Summing(h, S)[R] = Summing(f, S)[R] + d * Summing(g, S)[R]
    BY <2>1
  <2>4. h[x] = f[x] + d * g[x] /\ f[x] \in Int /\ g[x] \in Int
    BY <2>1
  <2>5. Summing(f, S)[R] \in Int /\ Summing(g, S)[R] \in Int
    BY <1>1, <2>1
  <2> HIDE DEF x, R
  <2>6. d * (g[x] + Summing(g, S)[R]) = d * g[x] + d * Summing(g, S)[R]
    BY <2>4, <2>5
  <2>7. /\ d * g[x] \in Int /\ d * Summing(g, S)[R] \in Int
    BY <2>4, <2>5
  <2>8. Summing(h, S)[T] = Summing(f, S)[T] + d * Summing(g, S)[T]
    BY <2>2, <2>3, <2>4, <2>5, <2>6, <2>7
  <2> QED BY <2>8
<1> HIDE DEF P
<1>4. \A T \in SUBSET S : T \in P
  BY <1>2, <1>3, BySubsets
<1> QED BY <1>4 DEF P

\* A sum of signs is the number of the positive ones less the number of the others.
LEMMA SumOfSigns ==
    ASSUME NEW S, IsFiniteSet(S), NEW v, \A x \in S : v[x] \in {-1, 1}
    PROVE  \A T \in SUBSET S :
               Summing(v, S)[T] = 2 * Cardinality({x \in T : v[x] > 0}) - Cardinality(T)
<1> DEFINE long(T) == {x \in T : v[x] > 0}
           P == {T \in SUBSET S : Summing(v, S)[T] = 2 * Cardinality(long(T)) - Cardinality(T)}
<1>1. \A T \in SUBSET S : /\ IsFiniteSet(T) /\ Cardinality(T) \in Nat
                          /\ IsFiniteSet(long(T)) /\ Cardinality(long(T)) \in Nat
  <2> SUFFICES ASSUME NEW T \in SUBSET S
               PROVE  /\ IsFiniteSet(T) /\ Cardinality(T) \in Nat
                      /\ IsFiniteSet(long(T)) /\ Cardinality(long(T)) \in Nat
    OBVIOUS
  <2>1. long(T) \in SUBSET S
    OBVIOUS
  <2> HIDE DEF long
  <2> QED BY <2>1, FS_Subset, FS_CardinalityType
<1>2. {} \in P
  <2>1. long({}) = {}
    OBVIOUS
  <2>2. Summing(v, S)[{}] = 0 /\ Cardinality({}) = 0
    BY SumOfNothing, FS_EmptySet
  <2> QED BY <2>1, <2>2
<1>3. \A T \in SUBSET S : T # {} /\ (\A x \in T : T \ {x} \in P) => T \in P
  <2> SUFFICES ASSUME NEW T \in SUBSET S, T # {}, \A x \in T : T \ {x} \in P PROVE T \in P
    OBVIOUS
  <2> DEFINE x == FirstOf(T)
             R == T \ {x}
  <2>1. x \in T /\ R \in SUBSET S /\ v[x] \in {-1, 1}
    BY FirstIsThere
  <2>2. Summing(v, S)[T] = v[x] + Summing(v, S)[R]
    BY SumStarts
  <2>3. Summing(v, S)[R] = 2 * Cardinality(long(R)) - Cardinality(R)
    BY <2>1
  <2>4. Cardinality(T) = Cardinality(R) + 1 /\ Cardinality(R) \in Nat /\ Cardinality(long(R)) \in Nat
    <3> HIDE DEF x, R, long
    <3>1. R = T \ {x} /\ IsFiniteSet(T) /\ Cardinality(T) \in Nat /\ Cardinality(R) \in Nat
          /\ Cardinality(long(R)) \in Nat
      BY <1>1, <2>1 DEF R
    <3>2. Cardinality(R) = Cardinality(T) - 1
      BY <2>1, <3>1, FS_RemoveElement
    <3> QED BY <3>1, <3>2
  <2>5. Cardinality(long(T)) = IF v[x] = 1 THEN Cardinality(long(R)) + 1 ELSE Cardinality(long(R))
    <3>1. long(R) = long(T) \ {x} /\ (v[x] = 1 <=> x \in long(T))
      BY <2>1
    <3> HIDE DEF long, x, R
    <3>2. IsFiniteSet(long(T)) /\ Cardinality(long(T)) \in Nat
      BY <1>1
    <3>3. Cardinality(long(T) \ {x}) =
              IF x \in long(T) THEN Cardinality(long(T)) - 1 ELSE Cardinality(long(T))
      BY <3>2, FS_RemoveElement
    <3> QED BY <3>1, <3>2, <3>3
  <2> HIDE DEF x, R, long
  <2>6. Summing(v, S)[T] = 2 * Cardinality(long(T)) - Cardinality(T)
    BY <2>1, <2>2, <2>3, <2>4, <2>5
  <2> QED BY <2>6
<1> HIDE DEF P
<1>4. \A T \in SUBSET S : T \in P
  BY <1>2, <1>3, BySubsets
<1> QED BY <1>4 DEF P

\* A sum of k times what is at most hi is at most hi for each.
LEMMA SumAtMost ==
    ASSUME NEW S, IsFiniteSet(S), NEW f, NEW k \in Int, NEW hi \in Int,
           \A x \in S : f[x] \in Int /\ k * f[x] <= hi
    PROVE  \A T \in SUBSET S : k * Summing(f, S)[T] <= hi * Cardinality(T)
<1> DEFINE P == {T \in SUBSET S : k * Summing(f, S)[T] <= hi * Cardinality(T)}
<1>1. \A T \in SUBSET S : Summing(f, S)[T] \in Int
  BY SumIsNumber
<1>2. {} \in P
  <2>1. Summing(f, S)[{}] = 0 /\ Cardinality({}) = 0
    BY SumOfNothing, FS_EmptySet
  <2> QED BY <2>1
<1>3. \A T \in SUBSET S : T # {} /\ (\A x \in T : T \ {x} \in P) => T \in P
  <2> SUFFICES ASSUME NEW T \in SUBSET S, T # {}, \A x \in T : T \ {x} \in P PROVE T \in P
    OBVIOUS
  <2> DEFINE x == FirstOf(T)
             R == T \ {x}
  <2>1. x \in T /\ R \in SUBSET S /\ R \in P
    BY FirstIsThere
  <2>2. Summing(f, S)[T] = f[x] + Summing(f, S)[R]
    BY SumStarts
  <2>3. f[x] \in Int /\ k * f[x] <= hi /\ Summing(f, S)[R] \in Int
        /\ k * Summing(f, S)[R] <= hi * Cardinality(R)
    BY <1>1, <2>1
  <2>4. Cardinality(T) = Cardinality(R) + 1 /\ Cardinality(R) \in Nat
    <3> HIDE DEF x, P
    <3>1. IsFiniteSet(T) /\ Cardinality(T) \in Nat /\ IsFiniteSet(R) /\ Cardinality(R) \in Nat
      BY <2>1, FS_Subset, FS_CardinalityType
    <3>2. Cardinality(R) = Cardinality(T) - 1
      BY <2>1, <3>1, FS_RemoveElement
    <3> QED BY <3>1, <3>2
  <2> HIDE DEF x, R, P
  <2>5. k * (f[x] + Summing(f, S)[R]) = k * f[x] + k * Summing(f, S)[R]
        /\ hi * (Cardinality(R) + 1) = hi * Cardinality(R) + hi
    BY <2>3, <2>4
  <2>6. k * f[x] \in Int /\ k * Summing(f, S)[R] \in Int /\ hi * Cardinality(R) \in Int
    BY <2>3, <2>4
  <2>7. k * Summing(f, S)[T] <= hi * Cardinality(T)
    BY <2>2, <2>3, <2>4, <2>5, <2>6
  <2> QED BY <2>7 DEF P
<1> HIDE DEF P
<1>4. \A T \in SUBSET S : T \in P
  BY <1>2, <1>3, BySubsets
<1> QED BY <1>4 DEF P

\* Where nothing of A is below anything of B, the mean over A is not below that over B.
LEMMA MeansCompare ==
    ASSUME NEW A, IsFiniteSet(A), NEW B, IsFiniteSet(B), NEW f, NEW g,
           \A i \in A : f[i] \in Int, \A j \in B : g[j] \in Int,
           \A i \in A, j \in B : g[j] <= f[i]
    PROVE  /\ SumFunctionOnSet(f, A) \in Int /\ SumFunctionOnSet(g, B) \in Int
           /\ Cardinality(A) * SumFunctionOnSet(g, B) <= SumFunctionOnSet(f, A) * Cardinality(B)
<1> DEFINE sumA == SumFunctionOnSet(f, A)
           sumB == SumFunctionOnSet(g, B)
           n == Cardinality(A)
<1>1. sumA = Summing(f, A)[A] /\ sumB = Summing(g, B)[B]
  BY SumIsSumming
<1>2. sumA \in Int /\ sumB \in Int
  BY <1>1, SumIsNumber
<1>3. n \in Nat /\ Cardinality(B) \in Nat
  BY FS_CardinalityType
<1>4. ASSUME NEW j \in B PROVE n * g[j] <= sumA
  <2>1. \A i \in A : f[i] \in Int /\ (-1) * f[i] <= -g[j]
    OBVIOUS
  <2>2. -g[j] \in Int /\ -1 \in Int
    OBVIOUS
  <2>3. \A T \in SUBSET A : (-1) * Summing(f, A)[T] <= (-g[j]) * Cardinality(T)
    BY <2>1, <2>2, SumAtMost
  <2>4. (-1) * sumA <= (-g[j]) * n
    BY <1>1, <2>3
  <2>5. (-g[j]) * n = -(n * g[j]) /\ n * g[j] \in Int
    BY <1>3
  <2> HIDE DEF sumA, n
  <2> QED BY <1>2, <2>4, <2>5
<1> HIDE DEF sumA, n
<1>5. \A T \in SUBSET B : n * Summing(g, B)[T] <= sumA * Cardinality(T)
  <2>1. \A j \in B : g[j] \in Int /\ n * g[j] <= sumA
    BY <1>4
  <2>2. n \in Int /\ sumA \in Int
    BY <1>2, <1>3
  <2> QED BY <2>1, <2>2, SumAtMost
<1>6. n * sumB <= sumA * Cardinality(B)
  BY <1>1, <1>5
<1> QED BY <1>2, <1>6 DEF sumA, n

---------------------------------------------------------------------------
(* LiveSnapshot *)

LEMMA DaysAreLate ==
    /\ Lookback \in Nat /\ Lookback > 0
    /\ \A d \in Nat : d > Lookback => d \in Nat \ {0} /\ d - Lookback > 0
  BY LiveSnapshotAssumption

\* The prior bars that are kept are before the session's own, whenever either was fetched; and
\* the levels that are kept are of the day they are kept under.
KeptInv ==
    /\ day \in Nat /\ day > Lookback
    /\ sessionBars \in [Symbols -> 0 .. day]
    /\ priorBars \in [Symbols -> SUBSET Nat]
    /\ \A s \in Symbols : priorBars[s] # NotRead =>
           \A d \in priorBars[s] :
               0 < d /\ d < day /\ (sessionBars[s] # NoSession => d < sessionBars[s])
    /\ \A c \in DOMAIN oiBase : oiBase[c] = oiKey[1]
    /\ OneSession

LEMMA KeptInvariant == SnapshotSpec => []KeptInv
<1>1. SnapshotInit => KeptInv
  BY DaysAreLate DEF SnapshotInit, Cold, KeptInv, OneSession, NothingCountedTwice, ChangeIsTodays,
     NoSession, NotRead, Empty
<1>2. KeptInv /\ [SnapshotNext]_snapshotVars => KeptInv'
  <2> SUFFICES ASSUME KeptInv, [SnapshotNext]_snapshotVars PROVE KeptInv'
    OBVIOUS
  <2> USE DaysAreLate
  <2>1. ASSUME NEW s \in Symbols, NEW chain, NEW full \in BOOLEAN, NEW gotBars \in BOOLEAN,
               NEW gotPrior \in BOOLEAN, Build(s, chain, full, gotBars, gotPrior)
        PROVE KeptInv'
    <3> DEFINE bars == Bars(s, gotBars)
               prior == Prior(s, bars, gotPrior)
    <3>1. bars \in {sessionBars[s], day} /\ bars \in 0 .. day
      BY DEF Bars, KeptInv
    <3>2. prior \in SUBSET Nat
          /\ \A d \in prior : 0 < d /\ d < day /\ (bars # NoSession => d < bars)
      <4>1. CASE priorBars[s] # NotRead
        BY <3>1, <4>1 DEF Prior, KeptInv, NoSession
      <4>2. CASE priorBars[s] = NotRead
        BY <3>1, <4>2 DEF Prior, Before, KeptInv, NoSession
      <4>3. QED
        BY <4>1, <4>2
    <3> HIDE DEF bars, prior
    <3>3. /\ sessionBars' = [sessionBars EXCEPT ![s] = bars]
          /\ priorBars' = [priorBars EXCEPT ![s] = prior]
          /\ day' = day
      BY <2>1 DEF Build, clock, bars, prior
    <3>4. \A c \in DOMAIN Base(s) : Base(s)[c] = day
      BY DEF Base, KeptInv, Empty
    <3>5. \A c \in DOMAIN oiBase' : oiBase'[c] = oiKey'[1]
      <4>1. CASE full
        <5>1. oiKey' = <<day, s>> /\ oiBase' = Grown(s, chain)
          BY <2>1, <4>1 DEF Build
        <5>2. \A c \in DOMAIN Grown(s, chain) : Grown(s, chain)[c] = day
          BY <3>4 DEF Grown
        <5>3. QED
          BY <5>1, <5>2
      <4>2. CASE ~full
        BY <2>1, <4>2 DEF Build, KeptInv
      <4>3. QED
        BY <4>1, <4>2
    <3>6. snap'.bars = bars /\ snap'.prior = prior /\ snap'.day = day
      BY <2>1 DEF Build, bars, prior
    <3>7. \A c \in DOMAIN snap'.change : snap'.change[c] = snap'.day
      <4>1. snap'.change = IF full THEN Changes(s, chain) ELSE Empty
        BY <2>1 DEF Build
      <4>2. \A c \in DOMAIN Changes(s, chain) : Changes(s, chain)[c] = day
        BY <3>4 DEF Changes
      <4>3. QED
        BY <3>6, <4>1, <4>2 DEF Empty
    <3>8. OneSession'
      <4>1. bars \notin prior /\ day \notin prior
        BY <3>1, <3>2 DEF KeptInv, NoSession
      <4>2. QED
        BY <3>6, <3>7, <4>1 DEF OneSession, NothingCountedTwice, ChangeIsTodays
    <3>9. QED
      BY <3>1, <3>2, <3>3, <3>5, <3>8 DEF KeptInv, NoSession
  <2>2. CASE Unreadable
    BY <2>2 DEF Unreadable, clock, caches, KeptInv, OneSession, NothingCountedTwice, ChangeIsTodays
  <2>3. CASE Age \/ ThirdBar \/ UNCHANGED snapshotVars
    BY <2>3 DEF Age, ThirdBar, clock, caches, snapshotVars, KeptInv, OneSession,
                NothingCountedTwice, ChangeIsTodays
  <2>4. CASE NextDay
    <3>1. /\ day' = day + 1 /\ sessionBars' = sessionBars
          /\ priorBars' = [s \in Symbols |-> NotRead]
          /\ oiKey' = oiKey /\ oiBase' = oiBase /\ snap' = NoSnap
      BY <2>4 DEF NextDay
    <3>2. day' \in Nat /\ day' > Lookback /\ sessionBars' \in [Symbols -> 0 .. day']
      BY <3>1 DEF KeptInv
    <3>3. priorBars' \in [Symbols -> SUBSET Nat] /\ \A s \in Symbols : priorBars'[s] = NotRead
      BY <3>1 DEF NotRead, NoSession
    <3>4. OneSession' /\ \A c \in DOMAIN oiBase' : oiBase'[c] = oiKey'[1]
      BY <3>1 DEF KeptInv, OneSession, NothingCountedTwice, ChangeIsTodays
    <3>5. QED
      BY <3>2, <3>3, <3>4 DEF KeptInv
  <2>5. CASE Restart
    BY <2>5 DEF Restart, KeptInv, OneSession, NothingCountedTwice, ChangeIsTodays, NotRead,
                NoSession, Empty
  <2>6. QED
    BY <2>1, <2>2, <2>3, <2>4, <2>5 DEF SnapshotNext
<1>3. QED
  BY <1>1, <1>2, PTL DEF SnapshotSpec

\* What a snapshot puts together is of one session: no bar twice and no change of open interest
\* across days, for any symbols, contracts and lookback.
THEOREM OneSessionTheorem == SnapshotSpec => []OneSession
<1>1. KeptInv => OneSession
  BY DEF KeptInv
<1>2. QED
  BY <1>1, KeptInvariant, PTL

---------------------------------------------------------------------------
(* AngelStream *)

\* The flag is up whenever the socket is.  Between the registration of a contract and
\* the message for it somebody is about to send the registry: ensure_subscribed, which
\* is then at one of three steps, or the callback of a socket that has just opened.
Sending == {"look", "tokens", "send"}
StreamInv ==
    /\ loop \in Up => connected
    /\ step = "send" => list = registry
    /\ loop = "open" /\ ~unsent /\ step \notin Sending => registry \subseteq subscribed
    /\ loop = "listed" /\ ~unsent /\ step \notin Sending => registry \subseteq subscribed \cup listing

LEMMA StreamInvariant == StreamSpec => []StreamInv
<1>1. StreamInit => StreamInv
  BY DEF StreamInit, StreamInv, Up
<1>2. StreamInv /\ [StreamNext]_streamVars => StreamInv'
  <2> SUFFICES ASSUME StreamInv, [StreamNext]_streamVars PROVE StreamInv'
    OBVIOUS
  <2> USE DEF Up, Sending, looping, market
  <2>1. CASE Resolve
    BY <2>1 DEF Resolve, StreamInv
  <2>2. CASE Register
    <3>1. CASE Accepted(list) = {}
      BY <2>2, <3>1 DEF Register, StreamInv
    <3>2. CASE Accepted(list) # {}
      BY <2>2, <3>2 DEF Register, StreamInv
    <3>3. QED
      BY <3>1, <3>2
  <2>3. CASE Look
    BY <2>3 DEF Look, StreamInv
  <2>4. CASE TokenList
    BY <2>4 DEF TokenList, StreamInv
  <2>5. ASSUME NEW sent \in BOOLEAN, Send(sent) PROVE StreamInv'
    BY <2>5 DEF Send, Loss, StreamInv
  <2>6. CASE Mark
    BY <2>6 DEF Mark, StreamInv
  <2>7. CASE NewSocket \/ NotOpened
    BY <2>7 DEF NewSocket, NotOpened, ensuring, StreamInv
  <2>8. CASE OnOpen
    BY <2>8 DEF OnOpen, ensuring, StreamInv
  <2>9. CASE OnOpenList
    BY <2>9 DEF OnOpenList, ensuring, StreamInv
  <2>10. ASSUME NEW sent \in BOOLEAN, OnOpenSend(sent) PROVE StreamInv'
    BY <2>10 DEF OnOpenSend, Loss, ensuring, StreamInv
  <2>11. CASE LoseSocket \/ OnClose
    BY <2>11 DEF LoseSocket, OnClose, Loss, ensuring, StreamInv
  <2>12. CASE Rollover \/ (\E a \in Atms : MoneyMoves(a)) \/ UNCHANGED streamVars
    BY <2>12 DEF Rollover, MoneyMoves, streamVars, ensuring, StreamInv
  <2>13. QED
    BY <2>1, <2>2, <2>3, <2>4, <2>5, <2>6, <2>7, <2>8, <2>9, <2>10, <2>11, <2>12 DEF StreamNext
<1>3. QED
  BY <1>1, <1>2, PTL DEF StreamSpec

\* Whatever is in the registry is subscribed on the socket that is open, for any ladder and
\* any budget, although neither thread holds a lock over the flag and the registry.
THEOREM RegisteredIsSubscribedTheorem == StreamSpec => []RegisteredIsSubscribed
<1>1. StreamInv => RegisteredIsSubscribed
  BY DEF StreamInv, RegisteredIsSubscribed, Sending
<1>2. QED
  BY <1>1, StreamInvariant, PTL

---------------------------------------------------------------------------
(* DayJournal: the gate *)

LEMMA Priors ==
    /\ Bootstraps \subseteq Nat
    /\ Counts \subseteq Nat /\ Raws \subseteq Nat
    /\ MaxDay \in Nat
    /\ MinSample \in Nat /\ FullTrust \in Nat /\ FullTrust - MinSample > 0
  BY DayJournalAssumption

LEMMA ClampedInBand ==
    ASSUME NEW b \in Nat, NEW x \in Int
    PROVE  Clamped(b, x) \in Band(b) /\ b \in Band(b)
  BY DEF Clamped, Band

LEMMA BlendedIsInt ==
    ASSUME NEW b \in Nat, NEW raw \in Nat, NEW n \in Nat
    PROVE  Blended(b, raw, n) \in Int
<1>1. (raw - b) * (n - MinSample) \in Int
  BY Priors
<1>2. ((raw - b) * (n - MinSample)) \div (FullTrust - MinSample) \in Int
  BY <1>1, Priors
<1>3. QED
  BY <1>2 DEF Blended

\* The sample is a natural number: the window is a part of the finitely many days.
LEMMA WindowIsCounted ==
    ASSUME NEW d
    PROVE  Cardinality(FitWindow(d)) \in Nat
<1>1. IsFiniteSet(1 .. MaxDay)
  BY FS_Interval, Priors
<1>2. FitWindow(d) \subseteq 1 .. MaxDay
  BY DEF FitWindow, Past, Days
<1>3. IsFiniteSet(FitWindow(d))
  BY <1>1, <1>2, FS_Subset
<1>4. QED
  BY <1>3, FS_CardinalityType

GateInv ==
    /\ bootstrap \in Bootstraps
    /\ gate \in Band(bootstrap)
    /\ tuned \in Int

LEMMA GateInvariant == JournalSpec => []GateInv
<1>1. JournalInit => GateInv
  BY Priors DEF JournalInit, GateInv, Band, NoValue
<1>2. GateInv /\ [JournalNext]_journalVars => GateInv'
  <2> SUFFICES ASSUME GateInv, [JournalNext]_journalVars PROVE GateInv'
    OBVIOUS
  <2>1. bootstrap \in Nat /\ gate \in Int
    BY Priors DEF GateInv, Band
  <2>2. CASE UNCHANGED gateVars
    BY <2>2 DEF gateVars, GateInv
  <2>3. ASSUME NEW p \in Procs, NEW b \in Bootstraps, Starts(p, b)
        PROVE  GateInv'
    <3>1. Loaded(b) \in Band(b)
      BY ClampedInBand, Priors DEF Loaded, GateInv
    <3>2. CASE p = "live"
      BY <2>3, <3>1, <3>2 DEF Starts, GateInv
    <3>3. CASE p # "live"
      BY <2>3, <3>3 DEF Starts, GateInv
    <3>4. QED
      BY <3>2, <3>3
  <2>4. ASSUME NEW n \in Counts, NEW raw \in Raws, NEW persist \in BOOLEAN, Retune(n, raw, persist)
        PROVE  GateInv'
    <3>1. Recalibrated(today, n, raw) \in Band(bootstrap)
      <4> DEFINE m == n * Cardinality(FitWindow(today))
      <4>1. m \in Nat
        BY WindowIsCounted, Priors
      <4>2. Clamped(bootstrap, Blended(bootstrap, raw, m)) \in Band(bootstrap)
        BY <2>1, <4>1, BlendedIsInt, ClampedInBand, Priors
      <4>3. QED
        BY <4>2 DEF Recalibrated, GateInv
    <3>2. gate' \in Band(bootstrap) /\ bootstrap' = bootstrap /\ tuned' \in {gate', tuned}
      BY <2>4, <3>1 DEF Retune
    <3>3. QED
      BY <2>1, <3>2 DEF GateInv, Band
  <2>5. QED
    BY <2>2, <2>3, <2>4
    DEF JournalNext, LiveBegins, LiveDecides, LiveCloses, Stopped, Crash, ReplayBegins,
        ReplayDecides, ReplayEnds, OpenOrClose, NextSession, Outage, Recover, Begin, journalVars
<1>3. QED
  BY <1>1, <1>2, PTL DEF JournalSpec

\* Whatever was persisted, by whichever release, and whatever the window measures, the gate in
\* force stays within the band of the prior of the release that runs.
THEOREM GateInBandTheorem == JournalSpec => []GateInBand
<1>1. GateInv => GateInBand
  BY DEF GateInv, GateInBand
<1>2. QED
  BY <1>1, GateInvariant, PTL

---------------------------------------------------------------------------
(* DayJournal: yesterday *)

\* A set of days that is not empty has a last one.
LEMMA LatestDay ==
    ASSUME NEW S, S \subseteq Days, S # {}
    PROVE  Max(S) \in S /\ \A e \in S : e <= Max(S)
<1> DEFINE T == {MaxDay - e : e \in S}
<1>1. T \subseteq Nat /\ T # {}
  <2>1. \A e \in S : MaxDay - e \in Nat
    BY Priors DEF Days
  <2>2. PICK e \in S : TRUE
    OBVIOUS
  <2>3. MaxDay - e \in T
    BY <2>2
  <2>4. QED
    BY <2>1, <2>3
<1>2. PICK n \in T : \A k \in T : ~ (<<k, n>> \in OpToRel(<, Nat))
  BY <1>1, NatLessThanWellFounded, WFMin
<1>3. PICK d \in S : n = MaxDay - d
  BY <1>2
<1>4. \A e \in S : MaxDay - e \in Nat /\ MaxDay - d \in Nat /\ ~(MaxDay - e < MaxDay - d)
  BY <1>1, <1>2, <1>3 DEF OpToRel
<1>5. \A e \in S : d >= e
  BY <1>4, Priors DEF Days
<1>6. Max(S) \in S /\ \A e \in S : Max(S) >= e
  BY <1>5 DEF Max
<1>7. QED
  BY <1>6, Priors DEF Days

\* What is read for a session is the last live one before it.
LEMMA ForSessionIsLast ==
    ASSUME NEW p \in Procs, NEW d \in Days, ForSession(p, d) # NoDay
    PROVE  /\ ForSession(p, d) < d /\ journals[ForSession(p, d)] = "live"
           /\ \A e \in Days : ForSession(p, d) < e /\ e < d => journals[e] # "live"
<1>1. LiveBefore(d) # {} /\ ForSession(p, d) = Max(LiveBefore(d))
  BY DEF ForSession
<1>2. LiveBefore(d) \subseteq Days
  BY DEF LiveBefore
<1> DEFINE m == Max(LiveBefore(d))
<1>3. m \in LiveBefore(d) /\ \A e \in LiveBefore(d) : e <= m
  BY <1>1, <1>2, LatestDay
<1> HIDE DEF m
<1>4. m < d /\ journals[m] = "live" /\ m \in Days
  BY <1>3 DEF LiveBefore
<1>5. ASSUME NEW e \in Days, m < e, e < d PROVE journals[e] # "live"
  BY <1>3, <1>4, <1>5, Priors DEF LiveBefore, Days
<1>6. QED
  BY <1>1, <1>4, <1>5 DEF m

SessionsInv ==
    /\ today \in Days
    /\ session \in [Procs -> Days \cup {NoDay}]
    /\ read \in [Procs -> Days \cup {NoDay}]

LEMMA SessionsInvariant == JournalSpec => []SessionsInv
<1>1. JournalInit => SessionsInv
  BY DayJournalAssumption DEF JournalInit, SessionsInv, Days, Per
<1>2. SessionsInv /\ [JournalNext]_journalVars => SessionsInv'
  <2> SUFFICES ASSUME SessionsInv, [JournalNext]_journalVars PROVE SessionsInv'
    OBVIOUS
  <2>1. CASE UNCHANGED <<today, session, read>>
    BY <2>1 DEF SessionsInv
  <2>2. ASSUME NEW p \in Procs, NEW d \in Days, Begin(p, d) PROVE SessionsInv'
    <3>1. ForSession(p, d) \in Days \cup {NoDay}
      <4>1. CASE LiveBefore(d) # {}
        <5>1. LiveBefore(d) \subseteq Days
          BY DEF LiveBefore
        <5>2. Max(LiveBefore(d)) \in LiveBefore(d)
          BY <4>1, <5>1, LatestDay
        <5>3. QED
          BY <5>1, <5>2 DEF ForSession
      <4>2. CASE LiveBefore(d) = {}
        BY <4>2 DEF ForSession
      <4>3. QED
        BY <4>1, <4>2
    <3>2. QED
      BY <2>2, <3>1 DEF Begin, SessionsInv
  <2>3. ASSUME NEW p \in Procs, NEW b \in Bootstraps, Starts(p, b) PROVE SessionsInv'
    BY <2>3 DEF Starts, SessionsInv
  <2>4. CASE LiveCloses \/ ReplayEnds
    BY <2>4 DEF LiveCloses, ReplayEnds, Procs, SessionsInv
  <2>5. CASE NextSession
    BY <2>5, Priors DEF NextSession, runVars, Days, SessionsInv
  <2>6. QED
    <3>1. LiveBegins => \E d \in Days : Begin("live", d)
      BY DEF LiveBegins, SessionsInv
    <3>2. \A d \in Days : ReplayBegins(d) => Begin("replay", d)
      BY DEF ReplayBegins
    <3>3. "live" \in Procs /\ "replay" \in Procs
      BY DEF Procs
    <3>4. QED
      BY <2>1, <2>2, <2>3, <2>4, <2>5, <3>1, <3>2, <3>3
      DEF JournalNext, LiveDecides, Stopped, Crash, ReplayDecides, Retune, OpenOrClose, Outage,
          Recover, runVars, journalVars
<1>3. QED
  BY <1>1, <1>2, PTL DEF JournalSpec

\* What a session reads as yesterday is the last live session before it that was written up,
\* for any number of sessions, restarts and replays.
THEOREM YesterdayIsLiveTheorem == JournalSpec => YesterdayIsLive
<1> DEFINE Reads(p) ==
      session'[p] # session[p] /\ session'[p] # NoDay /\ read'[p] # NoDay =>
          /\ read'[p] < session'[p] /\ journals[read'[p]] = "live"
          /\ \A d \in Days : read'[p] < d /\ d < session'[p] => journals[d] # "live"
<1>1. SessionsInv /\ [JournalNext]_journalVars => \A p \in Procs : Reads(p)
  <2> SUFFICES ASSUME SessionsInv, [JournalNext]_journalVars, NEW p \in Procs PROVE Reads(p)
    OBVIOUS
  <2>1. CASE UNCHANGED session
    BY <2>1
  <2>2. ASSUME NEW q \in Procs, NEW d \in Days, Begin(q, d) PROVE Reads(p)
    <3>1. CASE p = q
      <4>1. session'[p] = d /\ read'[p] = ForSession(p, d)
        BY <2>2, <3>1 DEF Begin, SessionsInv
      <4>2. QED
        BY <4>1, ForSessionIsLast
    <3>2. CASE p # q
      BY <2>2, <3>2 DEF Begin, SessionsInv
    <3>3. QED
      BY <3>1, <3>2
  <2>3. ASSUME NEW q \in Procs, NEW b \in Bootstraps, Starts(q, b) PROVE Reads(p)
    BY <2>3 DEF Starts, SessionsInv
  <2>4. CASE LiveCloses \/ ReplayEnds
    BY <2>4 DEF LiveCloses, ReplayEnds, SessionsInv
  <2>5. QED
    <3>1. LiveBegins => \E d \in Days : Begin("live", d)
      BY DEF LiveBegins, SessionsInv
    <3>2. \A d \in Days : ReplayBegins(d) => Begin("replay", d)
      BY DEF ReplayBegins
    <3>3. "live" \in Procs /\ "replay" \in Procs
      BY DEF Procs
    <3>4. QED
      BY <2>1, <2>2, <2>3, <2>4, <3>1, <3>2, <3>3
      DEF JournalNext, LiveDecides, Stopped, Crash, ReplayDecides, Retune, OpenOrClose,
          NextSession, Outage, Recover, runVars, journalVars
<1>2. QED
  BY <1>1, SessionsInvariant, PTL DEF JournalSpec, YesterdayIsLive

---------------------------------------------------------------------------
(* LensBrain *)

LEMMA Thresholds ==
    /\ PromoteMin \in Nat
    /\ ProbationCap \in Nat
    /\ MeasuredStage # "ACTIVE" /\ MeasuredStage # "none"
    /\ MaxStrikes \in Nat
  BY LensBrainAssumption

LensTrade == [pnl : Pnls, said : Said]

\* The trades the lens has voted on are counted, and only grow.
LEMMA VotedTradesGrow ==
    ASSUME trades \in Seq(LensTrade)
    PROVE  /\ NClosed \in Nat
           /\ \A t \in LensTrade : trades' = Append(trades, t) => NClosed' \in Nat /\ NClosed <= NClosed'
<1> DEFINE Voted(ts) == {i \in 1 .. Len(ts) : ts[i].said # "abstained"}
<1>1. ASSUME NEW ts \in Seq(LensTrade)
      PROVE  IsFiniteSet(Voted(ts)) /\ Cardinality(Voted(ts)) \in Nat
  <2>1. Len(ts) \in Nat /\ IsFiniteSet(1 .. Len(ts))
    BY FS_Interval
  <2>2. IsFiniteSet(Voted(ts))
    BY <2>1, FS_Subset
  <2>3. QED
    BY <2>2, FS_CardinalityType
<1>2. ASSUME NEW t \in LensTrade
      PROVE  Cardinality(Voted(trades)) <= Cardinality(Voted(Append(trades, t)))
  <2>1. Append(trades, t) \in Seq(LensTrade)
    OBVIOUS
  <2>2. Voted(trades) \subseteq Voted(Append(trades, t))
    OBVIOUS
  <2>3. QED
    BY <1>1, <2>1, <2>2, FS_Subset
<1>3. NClosed = Cardinality(Voted(trades)) /\ NClosed' = Cardinality(Voted(trades'))
  BY DEF NClosed
<1>4. \A t \in LensTrade : Append(trades, t) \in Seq(LensTrade)
  OBVIOUS
<1> HIDE DEF Voted
<1>5. QED
  BY <1>1, <1>2, <1>3, <1>4

BrainFields == {"stage", "weight", "bootstrap", "nClosed", "strikes", "failed"}

\* A copy of the document is full grown only on twice the sample, and has counted no more
\* trades than there are, and some strikes.
Earned(b) ==
    b # Nothing =>
        /\ b = [f \in BrainFields |-> b[f]]
        /\ b.nClosed \in Nat /\ b.nClosed <= NClosed /\ b.strikes \in Nat
        /\ b.stage = "ACTIVE" => b.nClosed >= 2 * PromoteMin

EarnedInv ==
    /\ trades \in Seq(LensTrade)
    /\ DOMAIN draft = {"review", "seed"}
    /\ draft = [p \in {"review", "seed"} |-> draft[p]]
    /\ Earned(stored)
    /\ \A p \in {"review", "seed"} : Earned(draft[p])

LEMMA JudgedIsEarned ==
    ASSUME NEW b, b = [f \in BrainFields |-> b[f]]
    PROVE  /\ Judged(b) = [f \in BrainFields |-> Judged(b)[f]]
           /\ Judged(b).nClosed = b.nClosed /\ Judged(b).strikes = b.strikes
           /\ Judged(b).stage = "ACTIVE" => b.stage = "ACTIVE" \/ NClosed >= 2 * PromoteMin
<1>1. CASE b.stage = "SUSPENDED" /\ Earning
  BY <1>1 DEF Judged, BrainFields
<1>2. CASE b.stage = "SUSPENDED" /\ ~Earning
  BY <1>2 DEF Judged, BrainFields
<1>3. CASE b.stage # "SUSPENDED" /\ Losing
  BY <1>3 DEF Judged, BrainFields
<1>4. CASE b.stage = "SHADOW" /\ ~Losing /\ Earning
  BY <1>4 DEF Judged, BrainFields
<1>5. CASE b.stage = "PROBATION" /\ ~Losing /\ EarnsActive
  BY <1>5 DEF Judged, BrainFields, EarnsActive
<1>6. CASE /\ ~(b.stage = "SUSPENDED")
           /\ ~(b.stage # "SUSPENDED" /\ Losing)
           /\ ~(b.stage = "SHADOW" /\ ~Losing /\ Earning)
           /\ ~(b.stage = "PROBATION" /\ ~Losing /\ EarnsActive)
  <2>1. Judged(b) = b
    BY <1>6 DEF Judged
  <2>2. QED
    BY <2>1
<1>7. QED
  BY <1>1, <1>2, <1>3, <1>4, <1>5, <1>6

\* A review leaves what is earned, having counted the trades anew.
LEMMA ReviewedIsEarned ==
    ASSUME NClosed \in Nat, NEW b, b # Nothing, Earned(b)
    PROVE  Earned(Reviewed(b))
<1> DEFINE seen == [b EXCEPT !.nClosed = NClosed]
           judged == Judged(seen)
<1>1. /\ seen = [f \in BrainFields |-> seen[f]]
      /\ seen.nClosed = NClosed /\ seen.stage = b.stage /\ seen.strikes \in Nat
  BY DEF Earned, BrainFields
<1>2. seen.stage = "ACTIVE" => NClosed >= 2 * PromoteMin
  BY <1>1, Thresholds DEF Earned
<1> HIDE DEF seen
<1>3. CASE seen.stage = "RETIRED"
  <2>1. Reviewed(b) = [seen EXCEPT !.weight = 0]
    BY <1>3 DEF Reviewed, seen
  <2>2. QED
    BY <1>1, <1>3, <2>1 DEF Earned, BrainFields
<1>4. CASE seen.stage # "RETIRED" /\ seen.strikes >= MaxStrikes
  <2>1. Reviewed(b) = [seen EXCEPT !.stage = "SUSPENDED", !.weight = 0]
    BY <1>4 DEF Reviewed, seen
  <2>2. /\ Reviewed(b) = [f \in BrainFields |-> Reviewed(b)[f]]
        /\ Reviewed(b).stage = "SUSPENDED" /\ Reviewed(b).nClosed = NClosed
        /\ Reviewed(b).strikes \in Nat
    BY <1>1, <2>1 DEF BrainFields
  <2>3. QED
    BY <2>2 DEF Earned
<1>5. CASE seen.stage # "RETIRED" /\ ~(seen.strikes >= MaxStrikes)
  <2>1. Reviewed(b) = [judged EXCEPT !.weight = WeightFor(judged)]
    BY <1>5 DEF Reviewed, seen
  <2>2. /\ judged = [f \in BrainFields |-> judged[f]]
        /\ judged.nClosed = NClosed /\ judged.strikes \in Nat
        /\ judged.stage = "ACTIVE" => NClosed >= 2 * PromoteMin
    BY <1>1, <1>2, JudgedIsEarned
  <2> HIDE DEF judged
  <2>3. QED
    BY <2>1, <2>2 DEF Earned, BrainFields
<1>6. QED
  BY <1>3, <1>4, <1>5

LEMMA EarnedInvariant == BrainSpec => []EarnedInv
<1>1. BrainInit => EarnedInv
  BY DEF BrainInit, EarnedInv, Earned
<1>2. EarnedInv /\ [BrainNext]_brainVars => EarnedInv'
  <2> SUFFICES ASSUME EarnedInv, [BrainNext]_brainVars PROVE EarnedInv'
    OBVIOUS
  <2>1. NClosed \in Nat
    BY VotedTradesGrow DEF EarnedInv
  <2>2. Earned(Fresh) /\ Earned(Nothing)
    BY <2>1 DEF Earned, Fresh, BrainFields
  <2>3. UNCHANGED trades => NClosed' = NClosed /\ \A b : Earned(b)' <=> Earned(b)
    BY DEF NClosed, Earned
  <2>4. ASSUME NEW pnl \in Pnls, NEW said \in Said, CloseTrade(pnl, said) PROVE EarnedInv'
    <3>1. /\ trades' = Append(trades, [pnl |-> pnl, said |-> said])
          /\ stored' = stored /\ draft' = draft
      BY <2>4 DEF CloseTrade
    <3>2. [pnl |-> pnl, said |-> said] \in LensTrade /\ trades' \in Seq(LensTrade)
      BY <3>1 DEF EarnedInv, LensTrade
    <3>3. NClosed' \in Nat /\ NClosed <= NClosed'
      BY <3>1, <3>2, VotedTradesGrow DEF EarnedInv
    <3>4. QED
      BY <2>1, <3>1, <3>2, <3>3 DEF EarnedInv, Earned
  <2>5. ASSUME NEW p \in {"review", "seed"}, NEW ok \in BOOLEAN, NEW force \in BOOLEAN,
               Load(p, ok, force)
        PROVE  EarnedInv'
    <3>1. PICK b : Earned(b) /\ draft' = [draft EXCEPT ![p] = b]
      BY <2>2, <2>5 DEF Load, EarnedInv
    <3>2. trades' = trades /\ stored' = stored
      BY <2>5 DEF Load
    <3>3. QED
      BY <2>3, <3>1, <3>2 DEF EarnedInv
  <2>6. ASSUME NEW p \in {"review", "seed"}, NEW b, NEW ok \in BOOLEAN, Earned(b), Save(p, b, ok),
               UNCHANGED trades
        PROVE  EarnedInv'
    <3>1. Earned(stored') /\ draft' = [draft EXCEPT ![p] = Nothing]
      BY <2>6 DEF Save, EarnedInv
    <3>2. QED
      BY <2>2, <2>3, <2>6, <3>1 DEF EarnedInv
  <2>7. ASSUME NEW errored \in BOOLEAN, RecordVerdict(errored) PROVE EarnedInv'
    <3> DEFINE b == draft["review"]
               n == IF errored THEN Min({b.strikes + 1, MaxStrikes}) ELSE 0
               c == [b EXCEPT !.strikes = n]
    <3>1. b # Nothing /\ Earned(b)
      BY <2>7 DEF RecordVerdict, EarnedInv
    <3>2. Earned(c)
      <4>1. b.strikes + 1 \in Nat /\ MaxStrikes \in Nat
        BY <3>1, Thresholds DEF Earned
      <4>2. n \in Nat
        BY <4>1, LeastOfTwo
      <4> HIDE DEF n
      <4>3. QED
        BY <3>1, <4>2 DEF Earned, BrainFields
    <3>3. /\ draft' = [draft EXCEPT !["review"] = c]
          /\ trades' = trades /\ stored' = stored
      BY <2>7 DEF RecordVerdict
    <3> HIDE DEF c
    <3>4. QED
      BY <2>3, <3>2, <3>3 DEF EarnedInv
  <2>8. ASSUME NEW ok \in BOOLEAN, Review(ok) PROVE EarnedInv'
    BY <2>1, <2>6, <2>8, ReviewedIsEarned DEF Review, EarnedInv
  <2>9. ASSUME NEW ok \in BOOLEAN, Seed(ok) PROVE EarnedInv'
    <3> DEFINE b == draft["seed"]
               c == [b EXCEPT !.bootstrap = MeasuredWeight, !.stage = MeasuredStage,
                              !.weight = IF MeasuredStage \in Voting THEN MeasuredWeight ELSE 0]
    <3>1. Earned(c)
      BY <2>9, Thresholds DEF Seed, EarnedInv, Earned, BrainFields
    <3>2. Save("seed", c, ok) /\ UNCHANGED trades
      BY <2>9 DEF Seed
    <3> HIDE DEF c
    <3>3. QED
      BY <2>6, <3>1, <3>2
  <2>10. CASE SkipSeed
    BY <2>2, <2>3, <2>10 DEF SkipSeed, EarnedInv
  <2>11. CASE UNCHANGED brainVars
    BY <2>3, <2>11 DEF brainVars, EarnedInv
  <2>12. QED
    BY <2>4, <2>5, <2>7, <2>8, <2>9, <2>10, <2>11 DEF BrainNext
<1>3. QED
  BY <1>1, <1>2, PTL DEF BrainSpec

\* A lens votes with more than the cap of probation only after twice the sample of a promotion,
\* for any thresholds, and whatever seeds, failed reads and reviews wrote in between.
THEOREM VoteIsEarnedTheorem == BrainSpec => []VoteIsEarned
<1>1. EarnedInv => VoteIsEarned
  <2> SUFFICES ASSUME EarnedInv, stored # Nothing, EffectiveWeight(stored) > ProbationCap
               PROVE  stored.nClosed >= 2 * PromoteMin
    BY DEF VoteIsEarned
  <2>1. CASE stored.stage = "ACTIVE"
    BY <2>1 DEF EarnedInv, Earned
  <2>2. CASE stored.stage = "PROBATION"
    BY <2>2, Thresholds DEF EffectiveWeight
  <2>3. CASE stored.stage # "ACTIVE" /\ stored.stage # "PROBATION"
    <3>1. EffectiveWeight(stored) = 0
      BY <2>3 DEF EffectiveWeight
    <3>2. QED
      BY <3>1, Thresholds
  <2>4. QED
    BY <2>1, <2>2, <2>3
<1>2. QED
  BY <1>1, EarnedInvariant, PTL

LEMMA RowsAreTrades ==
    ASSUME trades \in Seq(LensTrade)
    PROVE  /\ IsFiniteSet(DOMAIN Rows)
           /\ \A i \in DOMAIN Rows : Rows[i].pnl \in Int
<1> DEFINE n == Len(trades)
           first == IF n > AttributionWindow THEN n - AttributionWindow + 1 ELSE 1
<1>1. n \in Nat /\ first \in Nat /\ 1 <= first
  BY LensBrainAssumption
<1>2. Rows = SubSeq(trades, first, n)
  BY DEF Rows
<1> HIDE DEF first
<1>3. Rows = [i \in 1 .. n - first + 1 |-> trades[first + i - 1]]
  BY <1>1, <1>2
<1>4. \A i \in 1 .. n - first + 1 : trades[first + i - 1] \in LensTrade
  BY <1>1
<1>5. \A i \in DOMAIN Rows : Rows[i].pnl \in Int
  BY <1>3, <1>4, LensBrainAssumption DEF LensTrade
<1>6. IsFiniteSet(1 .. n - first + 1)
  <2>1. n - first + 1 \in Int
    BY <1>1
  <2> QED BY <2>1, FS_Interval
<1> QED BY <1>3, <1>5, <1>6

\* A mean below another one has a row below one of the other's.
LEMMA LessHasEvidence ==
    ASSUME trades \in Seq(LensTrade), NEW A \in SUBSET DOMAIN Rows, NEW B \in SUBSET DOMAIN Rows,
           Below(Less(Mean(A), Mean(B)), SuspendBelow)
    PROVE  \E i \in A, j \in B : Rows[i].pnl < Rows[j].pnl
<1> DEFINE f == [i \in A |-> Rows[i].pnl]
           g == [i \in B |-> Rows[i].pnl]
           sumA == SumFunctionOnSet(f, A)
           sumB == SumFunctionOnSet(g, B)
<1>1. IsFiniteSet(A) /\ IsFiniteSet(B)
  BY RowsAreTrades, FS_Subset
<1>2. \A i \in DOMAIN Rows : Rows[i].pnl \in Int
  BY RowsAreTrades
<1>3. Cardinality(A) \in Nat /\ Cardinality(B) \in Nat
  BY <1>1, FS_CardinalityType
<1>4. (\A i \in A : f[i] \in Int) /\ (\A j \in B : g[j] \in Int)
  BY <1>2
<1>5. Below(Less(<<sumA, Cardinality(A)>>, <<sumB, Cardinality(B)>>), SuspendBelow)
  BY DEF Mean
<1> SUFFICES ASSUME \A i \in A, j \in B : ~(Rows[i].pnl < Rows[j].pnl) PROVE FALSE
  OBVIOUS
<1>6. \A i \in A, j \in B : g[j] <= f[i]
  BY <1>2
<1> HIDE DEF f, g
<1>7. sumA \in Int /\ sumB \in Int /\ Cardinality(A) * sumB <= sumA * Cardinality(B)
  BY <1>1, <1>4, <1>6, MeansCompare
<1> HIDE DEF sumA, sumB
<1>8. sumA * Cardinality(B) - sumB * Cardinality(A) < SuspendBelow * (Cardinality(A) * Cardinality(B))
  BY <1>5 DEF Below, Less
<1>9. SuspendBelow * (Cardinality(A) * Cardinality(B)) <= 0
  <2> DEFINE p == Cardinality(A) * Cardinality(B)
  <2>1. p \in Nat
    BY <1>3
  <2> HIDE DEF p
  <2>2. SuspendBelow * p <= 0
    BY <2>1, LensBrainAssumption
  <2> QED BY <2>2 DEF p
<1>10. /\ sumA * Cardinality(B) \in Int /\ sumB * Cardinality(A) \in Int
       /\ sumB * Cardinality(A) = Cardinality(A) * sumB
       /\ SuspendBelow * (Cardinality(A) * Cardinality(B)) \in Int
  <2>1. Cardinality(A) * Cardinality(B) \in Nat /\ SuspendBelow \in Int
    BY <1>3, LensBrainAssumption
  <2> QED BY <1>3, <1>7, <2>1
<1> QED BY <1>7, <1>8, <1>9, <1>10

LEMMA LosingIsEvident ==
    ASSUME trades \in Seq(LensTrade), Losing
    PROVE  Evidence
<1> DEFINE backed == SaidRows("for")
           opposed == SaidRows("against")
           all == DOMAIN Rows
<1>1. /\ backed \in SUBSET all /\ \A i \in backed : Rows[i].said = "for"
      /\ opposed \in SUBSET all /\ \A i \in opposed : Rows[i].said = "against"
      /\ all \in SUBSET all
  BY DEF SaidRows
<1>2. Below(Contribution, SuspendBelow)
  BY DEF Losing
<1>3. Contribution = CASE backed # {} /\ opposed # {} -> Less(Mean(backed), Mean(opposed))
                       [] backed # {} /\ opposed = {} -> Less(Mean(backed), Mean(all))
                       [] backed = {} /\ opposed # {} -> Less(Mean(all), Mean(opposed))
                       [] OTHER -> <<0, 1>>
  BY DEF Contribution
<1> HIDE DEF backed, opposed, all
<1>4. CASE backed # {} /\ opposed # {}
  <2>1. \E i \in backed, j \in opposed : Rows[i].pnl < Rows[j].pnl
    BY <1>1, <1>2, <1>3, <1>4, LessHasEvidence DEF all
  <2> QED BY <1>1, <2>1 DEF Evidence, all
<1>5. CASE backed # {} /\ opposed = {}
  <2>1. \E i \in backed, j \in all : Rows[i].pnl < Rows[j].pnl
    BY <1>1, <1>2, <1>3, <1>5, LessHasEvidence DEF all
  <2> QED BY <1>1, <2>1 DEF Evidence, all
<1>6. CASE backed = {} /\ opposed # {}
  <2>1. \E i \in all, j \in opposed : Rows[i].pnl < Rows[j].pnl
    BY <1>1, <1>2, <1>3, <1>6, LessHasEvidence DEF all
  <2> QED BY <1>1, <2>1 DEF Evidence, all
<1>7. CASE backed = {} /\ opposed = {}
  <2>1. Contribution = <<0, 1>>
    BY <1>3, <1>7
  <2> QED BY <1>2, <2>1, LensBrainAssumption DEF Below
<1> QED BY <1>4, <1>5, <1>6, <1>7

\* A review that benches a lens that was not, and has not the strikes for it, does so for
\* losing.
LEMMA SuspendedIsLosing ==
    ASSUME NEW b, b # Nothing, Earned(b), b.stage \notin {"SUSPENDED", "RETIRED"},
           b.strikes < MaxStrikes, Reviewed(b).stage = "SUSPENDED"
    PROVE  Losing
<1> DEFINE seen == [b EXCEPT !.nClosed = NClosed]
           judged == Judged(seen)
<1>1. /\ seen = [f \in BrainFields |-> seen[f]]
      /\ seen.stage = b.stage /\ seen.strikes = b.strikes /\ b.strikes \in Nat
  BY DEF Earned, BrainFields
<1> HIDE DEF seen
<1>2. ~(seen.strikes >= MaxStrikes) /\ seen.stage # "RETIRED"
  BY <1>1, Thresholds
<1>3. Reviewed(b) = [judged EXCEPT !.weight = WeightFor(judged)]
  BY <1>2 DEF Reviewed, seen
<1>4. judged = [f \in BrainFields |-> judged[f]]
  BY <1>1, JudgedIsEarned
<1> HIDE DEF judged
<1>5. judged.stage = "SUSPENDED"
  BY <1>3, <1>4 DEF BrainFields
<1> SUFFICES ASSUME ~Losing PROVE FALSE
  OBVIOUS
<1>6. seen.stage # "SUSPENDED"
  BY <1>1
<1>7. CASE seen.stage = "SHADOW" /\ Earning
  BY <1>1, <1>5, <1>6, <1>7 DEF Judged, BrainFields, judged
<1>8. CASE seen.stage = "PROBATION" /\ EarnsActive
  BY <1>1, <1>5, <1>6, <1>8 DEF Judged, BrainFields, judged
<1>9. CASE /\ ~(seen.stage = "SHADOW" /\ Earning)
           /\ ~(seen.stage = "PROBATION" /\ EarnsActive)
  BY <1>1, <1>5, <1>6, <1>9 DEF Judged, judged
<1> QED BY <1>7, <1>8, <1>9

\* SuspendedOnEvidence: a lens is benched for losing only where a trade it backed, or did not
\* oppose, did worse than one it opposed, or did not back (compute_attribution, review).
THEOREM SuspendedOnEvidenceTheorem == BrainSpec => SuspendedOnEvidence
<1> DEFINE Benched == LET b == draft["review"] IN
                      /\ b # Nothing /\ b.stage \notin {"SUSPENDED", "RETIRED"} /\ b.strikes < MaxStrikes
                      /\ draft'["review"] = Nothing /\ stored' # stored /\ stored'.stage = "SUSPENDED"
<1>1. EarnedInv /\ [BrainNext]_brainVars => [Benched => Evidence]_brainVars
  <2> SUFFICES ASSUME EarnedInv, BrainNext, Benched PROVE Evidence
    OBVIOUS
  <2>1. PICK ok \in BOOLEAN : Review(ok) \/ Seed(ok)
    BY DEF BrainNext, CloseTrade, Load, RecordVerdict, SkipSeed
  <2>2. CASE Seed(ok)
    BY <2>2 DEF Seed, Save, EarnedInv
  <2>3. CASE Review(ok)
    <3>1. stored' = Reviewed(draft["review"])
      BY <2>3 DEF Review, Save
    <3>2. Earned(draft["review"]) /\ trades \in Seq(LensTrade)
      BY DEF EarnedInv
    <3>3. Losing
      BY <3>1, <3>2, SuspendedIsLosing
    <3> QED BY <3>2, <3>3, LosingIsEvident
  <2> QED BY <2>1, <2>2, <2>3
<1> QED BY <1>1, EarnedInvariant, PTL DEF BrainSpec, SuspendedOnEvidence

---------------------------------------------------------------------------
(* Replay *)

LEMMA Steps ==
    /\ BarMinutes \in Nat /\ BarMinutes > 0 /\ Every \in Nat /\ Every > 0
    /\ Horizon \in Nat /\ Horizon > 0 /\ WindowBars \in Nat /\ WindowBars > 0
    /\ Spots \subseteq Nat /\ Drifts \subseteq Int
  BY ReplayAssumption

MinuteOf == [spot : Spots, traded : SUBSET Sides, verdict : Directions]
ReplayTyped == archive \in Seq(MinuteOf)

LEMMA ReplayTypedInvariant == ReplaySpec => []ReplayTyped
<1>1. ReplayInit => ReplayTyped
  BY DEF ReplayInit, ReplayTyped
<1>2. ReplayTyped /\ [ReplayNext]_replayVars => ReplayTyped'
  <2> SUFFICES ASSUME ReplayTyped, [ReplayNext]_replayVars PROVE ReplayTyped'
    OBVIOUS
  <2>1. CASE ReplayNext
    <3>1. PICK spot \in Spots, traded \in SUBSET Sides, verdict \in Directions :
              archive' = Append(archive, [spot |-> spot, traded |-> traded, verdict |-> verdict])
      BY <2>1 DEF ReplayNext, Minute
    <3>2. [spot |-> spot, traded |-> traded, verdict |-> verdict] \in MinuteOf
      BY DEF MinuteOf
    <3> QED BY <3>1, <3>2 DEF ReplayTyped
  <2>2. CASE UNCHANGED replayVars
    BY <2>2 DEF ReplayTyped, replayVars
  <2> QED BY <2>1, <2>2
<1> QED BY <1>1, <1>2, PTL DEF ReplaySpec

\* A session's minutes are numbered, and a level of the index is a number.
LEMMA MinutesOf ==
    ASSUME NEW minutes \in Seq(MinuteOf)
    PROVE  /\ Len(minutes) \in Nat
           /\ \A i \in 1 .. Len(minutes) : /\ minutes[i].spot \in Nat /\ minutes[i].verdict \in {-1, 0, 1}
                                       /\ minutes[i].traded \subseteq Sides
           /\ Grid(minutes) \subseteq 1 .. Len(minutes)
<1>1. \A i \in 1 .. Len(minutes) : minutes[i] \in MinuteOf
  OBVIOUS
<1>2. \A i \in 1 .. Len(minutes) : /\ minutes[i].spot \in Spots /\ minutes[i].verdict \in {-1, 0, 1}
                              /\ minutes[i].traded \subseteq Sides
  BY <1>1 DEF MinuteOf, Directions
<1>3. Grid(minutes) \subseteq 1 .. Len(minutes)
  BY DEF Grid
<1>4. Len(minutes) \in Nat
  OBVIOUS
<1> QED BY <1>2, <1>3, <1>4, Steps

\* The next decision a horizon later is a decision, if there is one.
LEMMA NextIsLater ==
    ASSUME NEW minutes \in Seq(MinuteOf), NEW i \in 1 .. Len(minutes)
    PROVE  \/ NextSpot(minutes, i) = {} /\ \A k \in Grid(minutes) : ~(k >= i + Horizon)
           \/ \E j \in Grid(minutes) : /\ NextSpot(minutes, i) = {j} /\ j >= i + Horizon
                                   /\ \A k \in Grid(minutes) : k >= i + Horizon => j <= k
<1> DEFINE later == {j \in Grid(minutes) : j >= i + Horizon}
<1>1. CASE later = {}
  BY <1>1 DEF NextSpot
<1>2. CASE later # {}
  <2>1. Len(minutes) \in Nat /\ later \subseteq 0 .. Len(minutes)
    BY MinutesOf
  <2>2. Min(later) \in later /\ \A k \in later : Min(later) <= k
    <3> HIDE DEF later
    <3> QED BY <1>2, <2>1, Extremes
  <2>3. NextSpot(minutes, i) = {Min(later)}
    BY <1>2 DEF NextSpot
  <2> QED BY <2>2, <2>3
<1> QED BY <1>1, <1>2

LEMMA TheOne == \A x : The({x}) = x
  BY DEF The

\* How far the index went is a number, to which a drift is added.
LEMMA DriftAdds ==
    ASSUME NEW minutes \in Seq(MinuteOf), NEW i \in Observed(minutes)
    PROVE  /\ minutes[i].verdict \in {-1, 1}
           /\ \E m \in Int : \A d \in Int : /\ The(Raw(minutes, i, d)) = m + d
                                            /\ The(Signed(minutes, i, d)) = minutes[i].verdict * (m + d)
<1>1. i \in Grid(minutes) /\ i \in 1 .. Len(minutes) /\ minutes[i].verdict # 0 /\ NextSpot(minutes, i) # {}
  BY MinutesOf DEF Observed
<1>2. PICK j \in Grid(minutes) : NextSpot(minutes, i) = {j}
  BY <1>1, NextIsLater
<1> DEFINE m == minutes[j].spot - minutes[i].spot
<1>3. m \in Int
  BY <1>1, MinutesOf
<1>4. \A d \in Int : Moved(minutes, i, d) = {m + d}
  BY <1>2 DEF Moved
<1> HIDE DEF m
<1>5. \A d \in Int : Raw(minutes, i, d) = {m + d} /\ Signed(minutes, i, d) = {minutes[i].verdict * (m + d)}
  BY <1>4 DEF Raw, Signed
<1>6. \A d \in Int : /\ The(Raw(minutes, i, d)) = m + d
                     /\ The(Signed(minutes, i, d)) = minutes[i].verdict * (m + d)
  BY <1>5, TheOne
<1> QED BY <1>1, <1>3, <1>6, MinutesOf

\* The edge of a session is the same whatever drift is added to its moves.
LEMMA EdgeWithoutDrift ==
    ASSUME NEW minutes \in Seq(MinuteOf), NEW d \in Int
    PROVE  Edge(minutes, d) = Edge(minutes, 0)
<1> DEFINE obs == Observed(minutes)
           n == Cardinality(obs)
           long == Cardinality({i \in obs : minutes[i].verdict > 0})
           sided(e) == [i \in obs |-> The(Signed(minutes, i, e))]
           raw(e) == [i \in obs |-> The(Raw(minutes, i, e))]
           sides == [i \in obs |-> minutes[i].verdict]
           ones == [i \in obs |-> 1]
<1>1. IsFiniteSet(obs)
  <2>1. obs \in SUBSET (1 .. Len(minutes)) /\ Len(minutes) \in Int
    BY MinutesOf DEF Observed
  <2>2. IsFiniteSet(1 .. Len(minutes))
    BY <2>1, FS_Interval
  <2> HIDE DEF obs
  <2> QED BY <2>1, <2>2, FS_Subset
<1> HIDE DEF obs
<1>2. \A i \in obs : /\ sides[i] \in {-1, 1} /\ ones[i] = 1
                     /\ raw(0)[i] \in Int /\ raw(d)[i] = raw(0)[i] + d * ones[i]
                     /\ sided(0)[i] \in Int /\ sided(d)[i] = sided(0)[i] + d * sides[i]
  <2> SUFFICES ASSUME NEW i \in obs
               PROVE  /\ sides[i] \in {-1, 1} /\ ones[i] = 1
                      /\ raw(0)[i] \in Int /\ raw(d)[i] = raw(0)[i] + d * ones[i]
                      /\ sided(0)[i] \in Int /\ sided(d)[i] = sided(0)[i] + d * sides[i]
    OBVIOUS
  <2>1. minutes[i].verdict \in {-1, 1}
    BY DriftAdds DEF obs
  <2>2. PICK m \in Int : \A e \in Int : /\ The(Raw(minutes, i, e)) = m + e
                                        /\ The(Signed(minutes, i, e)) = minutes[i].verdict * (m + e)
    BY DriftAdds DEF obs
  <2>3. raw(0)[i] = m /\ raw(d)[i] = m + d
    BY <2>2
  <2>4. sided(0)[i] = minutes[i].verdict * m /\ sided(d)[i] = minutes[i].verdict * (m + d)
    <3>1. /\ sided(0)[i] = The(Signed(minutes, i, 0))
          /\ sided(d)[i] = The(Signed(minutes, i, d))
      OBVIOUS
    <3>2. /\ The(Signed(minutes, i, 0)) = minutes[i].verdict * (m + 0)
          /\ The(Signed(minutes, i, d)) = minutes[i].verdict * (m + d)
      BY <2>2
    <3>3. m + 0 = m
      OBVIOUS
    <3> QED BY <3>1, <3>2, <3>3
  <2>5. sides[i] = minutes[i].verdict /\ ones[i] = 1
    OBVIOUS
  <2> HIDE DEF raw, sided, sides, ones
  <2>6. CASE minutes[i].verdict = 1
    BY <2>3, <2>4, <2>5, <2>6
  <2>7. CASE minutes[i].verdict = -1
    BY <2>3, <2>4, <2>5, <2>7
  <2> QED BY <2>1, <2>6, <2>7
<1> DEFINE sum(f) == Summing(f, obs)[obs]
<1>3. sum(raw(d)) = sum(raw(0)) + d * sum(ones) /\ sum(sided(d)) = sum(sided(0)) + d * sum(sides)
  <2> HIDE DEF raw, sided, sides, ones
  <2>1. sum(raw(d)) = sum(raw(0)) + d * sum(ones)
    BY <1>1, <1>2, SumIsLinear
  <2>2. sum(sided(d)) = sum(sided(0)) + d * sum(sides)
    BY <1>1, <1>2, SumIsLinear
  <2> QED BY <2>1, <2>2
<1>4. sum(raw(0)) \in Int /\ sum(sided(0)) \in Int
  <2> HIDE DEF raw, sided, sides, ones
  <2> QED BY <1>1, <1>2, SumIsNumber
<1>5. sum(sides) = 2 * long - n /\ sum(ones) = n /\ n \in Nat /\ long \in Nat
  <2>1. n \in Nat
    BY <1>1, FS_CardinalityType
  <2>2. {i \in obs : minutes[i].verdict > 0} \in SUBSET obs
    OBVIOUS
  <2>3. long \in Nat
    BY <1>1, <2>2, FS_Subset, FS_CardinalityType
  <2> DEFINE up(f) == {i \in obs : f[i] > 0}
  <2>4. up(sides) = {i \in obs : minutes[i].verdict > 0} /\ up(ones) = obs
    OBVIOUS
  <2>5. Cardinality(up(sides)) = long /\ Cardinality(up(ones)) = n
    BY <2>4
  <2> HIDE DEF raw, sided, sides, ones
  <2>6. sum(sides) = 2 * Cardinality(up(sides)) - n
    BY <1>1, <1>2, SumOfSigns
  <2>7. sum(ones) = 2 * Cardinality(up(ones)) - n
    BY <1>1, <1>2, SumOfSigns
  <2> HIDE DEF up, n, long, sum
  <2>8. sum(sides) = 2 * long - n /\ sum(ones) = 2 * n - n
    BY <2>5, <2>6, <2>7
  <2> QED BY <2>1, <2>3, <2>8
<1>6. \A e : Edge(minutes, e) = n * sum(sided(e)) - (2 * long - n) * sum(raw(e))
  BY SumIsSumming DEF Edge, obs
<1> HIDE DEF n, long, sided, raw, sides, ones, sum
<1> DEFINE a == sum(sided(0))
           b == sum(raw(0))
           c == 2 * long - n
<1>7. sum(sided(d)) = a + d * c /\ sum(raw(d)) = b + d * n
  BY <1>3, <1>5
<1>8. a \in Int /\ b \in Int /\ c \in Int /\ n \in Int
  BY <1>4, <1>5
<1>9. Edge(minutes, d) = n * (a + d * c) - c * (b + d * n) /\ Edge(minutes, 0) = n * a - c * b
  BY <1>6, <1>7
<1> HIDE DEF a, b, c
<1>10. n * (a + d * c) - c * (b + d * n) = n * a - c * b
  <2>1. n * (a + d * c) = n * a + n * (d * c) /\ c * (b + d * n) = c * b + c * (d * n)
    BY <1>8
  <2>2. n * (d * c) = c * (d * n)
    BY <1>8
  <2>3. n * a \in Int /\ c * b \in Int /\ n * (d * c) \in Int
    BY <1>8
  <2> QED BY <2>1, <2>2, <2>3
<1> QED BY <1>9, <1>10

\* DriftIsNotEdge: whatever the session and whatever the lens said in it, a drift common
\* to its horizons leaves the edge as it is (measure_entry, lens_harness.py).
THEOREM DriftIsNotEdgeTheorem == ReplaySpec => []DriftIsNotEdge
<1>1. ReplayTyped => DriftIsNotEdge
  BY Steps, EdgeWithoutDrift DEF ReplayTyped, DriftIsNotEdge
<1> QED BY <1>1, ReplayTypedInvariant, PTL

TradesOf(minutes) == [entry : 1 .. Len(minutes), exit : 1 .. Len(minutes), side : Sides,
                  reason : {"session_end", "horizon", "vanished_at_horizon"}]

\* What is found by looking ahead: a minute after the purchase, not past the horizon, at
\* which the contract traded.
LEMMA ExitIsPossible ==
    ASSUME NEW minutes \in Seq(MinuteOf), NEW i \in 1 .. Len(minutes), NEW side \in Sides,
           Exits(minutes, i, side) # {}
    PROVE  \E at \in Grid(minutes), reason \in {"session_end", "horizon", "vanished_at_horizon"} :
               /\ Exits(minutes, i, side) = {[at |-> at, reason |-> reason]}
               /\ i < at /\ Tradeable(minutes, at, side)
               /\ \A j \in Grid(minutes) : j >= i + Horizon => at <= j
<1> DEFINE due == {j \in Grid(minutes) : j >= i + Horizon}
           last == IF due = {} THEN Len(minutes) ELSE Min(due)
           sold == {j \in Grid(minutes) : i < j /\ j <= last /\ Tradeable(minutes, j, side)}
<1>1. Len(minutes) \in Nat /\ Grid(minutes) \subseteq 1 .. Len(minutes)
  BY MinutesOf
<1>2. due # {} => \A j \in due : Min(due) <= j
  <2>1. due \subseteq 0 .. Len(minutes)
    BY <1>1
  <2> HIDE DEF due
  <2> QED BY <1>1, <2>1, Extremes
<1>3. sold # {}
  BY DEF Exits
<1>4. Max(sold) \in sold
  <2>1. sold \subseteq 0 .. Len(minutes)
    BY <1>1
  <2> HIDE DEF sold
  <2> QED BY <1>1, <1>3, <2>1, Extremes
<1> DEFINE reason == IF due = {} THEN "session_end"
                     ELSE IF Max(sold) = last THEN "horizon" ELSE "vanished_at_horizon"
<1>5. Exits(minutes, i, side) = {[at |-> Max(sold), reason |-> reason]}
  BY <1>3 DEF Exits
<1>6. Max(sold) \in Grid(minutes) /\ i < Max(sold) /\ Max(sold) <= last /\ Tradeable(minutes, Max(sold), side)
  BY <1>4
<1>7. \A j \in Grid(minutes) : j >= i + Horizon => last <= j
  BY <1>2
<1> HIDE DEF sold, due, last
<1>8. \A j \in Grid(minutes) : j >= i + Horizon => Max(sold) <= j
  <2>1. last \in Int
    <3>1. due # {} => Min(due) \in due
      <4>1. due \subseteq 0 .. Len(minutes)
        BY <1>1 DEF due
      <4> QED BY <1>1, <4>1, Extremes
    <3> QED BY <1>1, <3>1 DEF last, due
  <2>2. Max(sold) \in Int
    BY <1>1, <1>6
  <2> QED BY <1>1, <1>6, <1>7, <2>1, <2>2
<1>9. reason \in {"session_end", "horizon", "vanished_at_horizon"}
  OBVIOUS
<1> HIDE DEF reason
<1> QED BY <1>5, <1>6, <1>8, <1>9

\* The book of a run after each of its minutes.
LEMMA BookStepByStep ==
    ASSUME NEW minutes \in Seq(MinuteOf)
    PROVE  \E book \in [0 .. Len(minutes) -> Seq(TradesOf(minutes))] :
               /\ book[0] = <<>> /\ Trades(minutes) = book[Len(minutes)]
               /\ \A i \in 1 .. Len(minutes) :
                      book[i] = IF i \in Grid(minutes) THEN Take(minutes, book[i - 1], i) ELSE book[i - 1]
<1> DEFINE n == Len(minutes)
           V == Seq(TradesOf(minutes))
           after(b, i) == IF i \in Grid(minutes) THEN Take(minutes, b, i) ELSE b
           rule == [i \in 1 .. n |-> [b \in V |-> after(b, i)]]
<1>1. n \in Nat /\ <<>> \in V
  BY MinutesOf
<1>2. \A i \in 1 .. n, b \in V : after(b, i) \in V
  <2> SUFFICES ASSUME NEW i \in 1 .. n, NEW b \in V PROVE after(b, i) \in V
    OBVIOUS
  <2> DEFINE side == Bought(minutes[i].verdict)
             exits == Exits(minutes, i, side)
  <2>1. CASE after(b, i) = b
    BY <2>1
  <2>2. CASE exits # {} /\ after(b, i) = Append(b, Trade(minutes, i, The(exits)))
    <3>1. side \in Sides
      BY DEF Bought, Sides
    <3>2. PICK at \in Grid(minutes), reason \in {"session_end", "horizon", "vanished_at_horizon"} :
              exits = {[at |-> at, reason |-> reason]}
      BY <2>2, <3>1, ExitIsPossible
    <3>3. The(exits) = [at |-> at, reason |-> reason]
      BY <3>2, TheOne
    <3>4. Trade(minutes, i, The(exits)) = [entry |-> i, exit |-> at, side |-> side, reason |-> reason]
      BY <3>3 DEF Trade
    <3>5. at \in 1 .. n
      BY MinutesOf
    <3>6. Trade(minutes, i, The(exits)) \in TradesOf(minutes)
      BY <3>1, <3>4, <3>5 DEF TradesOf
    <3> QED BY <2>2, <3>6
  <2>3. QED
    BY <2>1, <2>2 DEF Take
<1> HIDE DEF n, V, after
<1>3. rule \in [1 .. n -> [V -> V]]
  BY <1>2
<1>4. PICK f \in [0 .. n -> V] : f[0] = <<>> /\ \A i \in 1 .. n : f[i] = rule[i][f[i - 1]]
  <2> HIDE DEF rule
  <2>1. \E f : Stepping(f, n, V, <<>>, rule)
    BY <1>1, <1>3, StepByStep
  <2> QED BY <2>1 DEF Stepping
<1>5. \A i \in 1 .. n : f[i] = after(f[i - 1], i) /\ rule[i][f[i - 1]] = after(f[i - 1], i)
  <2> SUFFICES ASSUME NEW i \in 1 .. n
               PROVE  f[i] = after(f[i - 1], i) /\ rule[i][f[i - 1]] = after(f[i - 1], i)
    OBVIOUS
  <2>1. i \in 0 .. n /\ i # 0 /\ i - 1 \in 0 .. n
    BY <1>1
  <2>2. f[i - 1] \in V
    BY <2>1
  <2>3. rule[i][f[i - 1]] = after(f[i - 1], i)
    BY <2>2
  <2>4. f[i] = rule[i][f[i - 1]]
    BY <1>4, <2>1
  <2> QED BY <2>3, <2>4
<1>6. f = [i \in 0 .. n |-> IF i = 0 THEN <<>> ELSE after(f[i - 1], i)]
  <2>1. \A i \in 0 .. n : i = 0 \/ i \in 1 .. n
    BY <1>1
  <2>2. f[0] = <<>>
    BY <1>1, <1>4
  <2> QED BY <1>5, <2>1, <2>2
<1> DEFINE ok(g) == g = [i \in 0 .. n |-> IF i = 0 THEN <<>> ELSE after(g[i - 1], i)]
           book == CHOOSE g : ok(g)
<1>7. Trades(minutes) = book[n]
  BY DEF Trades, after, n
<1>8. ok(book)
  BY <1>6
<1> HIDE DEF book
<1>9. \A i \in 0 .. n : book[i] = IF i = 0 THEN <<>> ELSE after(book[i - 1], i)
  BY <1>8
<1>10. \A i \in 0 .. n : book[i] \in V
  <2> DEFINE P == {i \in 0 .. n : book[i] \in V}
  <2>1. 0 \in P
    BY <1>1, <1>9
  <2>2. \A i \in 0 .. n - 1 : i \in P => i + 1 \in P
    <3> SUFFICES ASSUME NEW i \in 0 .. n - 1, book[i] \in V PROVE book[i + 1] \in V /\ i + 1 \in 0 .. n
      OBVIOUS
    <3>1. i + 1 \in 1 .. n /\ i + 1 \in 0 .. n /\ i + 1 # 0 /\ i + 1 - 1 = i
      BY <1>1
    <3>2. book[i + 1] = after(book[i], i + 1)
      BY <1>9, <3>1
    <3> QED BY <1>2, <3>1, <3>2
  <2> HIDE DEF P
  <2>3. \A i \in 0 .. n : i \in P
    BY <1>1, <2>1, <2>2, UpTo
  <2> QED BY <2>3 DEF P
<1>11. book \in [0 .. n -> V]
  BY <1>8, <1>10
<1>12. book[0] = <<>> /\ \A i \in 1 .. n : book[i] = after(book[i - 1], i)
  <2>1. \A i \in 1 .. n : i \in 0 .. n /\ i # 0
    BY <1>1
  <2>2. 0 \in 0 .. n
    BY <1>1
  <2> QED BY <1>9, <2>1, <2>2
<1> QED BY <1>7, <1>11, <1>12 DEF n, V, after

\* What a trade of the book must be, seen at minute i.
Possible(minutes, book, i) ==
    \A k \in 1 .. Len(book) :
        LET t == book[k] IN
        /\ t.entry <= i /\ t.entry < t.exit
        /\ Tradeable(minutes, t.entry, t.side) /\ Tradeable(minutes, t.exit, t.side)
        /\ \A j \in Grid(minutes) : t.entry + Horizon <= j => t.exit <= j
        /\ k > 1 => book[k - 1].exit <= t.entry

\* A decision adds a possible trade to the book, or none.
LEMMA TakesPossible ==
    ASSUME NEW minutes \in Seq(MinuteOf), NEW book \in Seq(TradesOf(minutes)),
           NEW i \in 1 .. Len(minutes), Possible(minutes, book, i - 1)
    PROVE  Possible(minutes, book, i) /\ Possible(minutes, Take(minutes, book, i), i)
<1> DEFINE side == Bought(minutes[i].verdict)
           exits == Exits(minutes, i, side)
           new == Trade(minutes, i, The(exits))
<1>1. \A k \in 1 .. Len(book) : book[k].entry \in Int /\ book[k].exit \in Int
  <2>1. Len(minutes) \in Nat
    BY MinutesOf
  <2>2. \A k \in 1 .. Len(book) : book[k] \in TradesOf(minutes)
    OBVIOUS
  <2>3. \A t \in TradesOf(minutes) : t.entry \in Int /\ t.exit \in Int
    BY <2>1 DEF TradesOf
  <2> QED BY <2>2, <2>3
<1>2. Possible(minutes, book, i)
  BY <1>1 DEF Possible
<1>3. CASE ~(book # <<>> /\ i < Last(book).exit) /\ Entry(minutes, i) /\ exits # {}
  <2>1. side \in Sides
    BY DEF Bought, Sides
  <2>2. PICK at \in Grid(minutes), reason \in {"session_end", "horizon", "vanished_at_horizon"} :
            /\ exits = {[at |-> at, reason |-> reason]}
            /\ i < at /\ Tradeable(minutes, at, side)
            /\ \A j \in Grid(minutes) : j >= i + Horizon => at <= j
    BY <1>3, <2>1, ExitIsPossible
  <2>3. new.entry = i /\ new.exit = at /\ new.side = side
    <3>1. The(exits) = [at |-> at, reason |-> reason]
      BY <2>2, TheOne
    <3> QED BY <3>1 DEF Trade
  <2>4. Take(minutes, book, i) = Append(book, new)
    BY <1>3 DEF Take
  <2>5. Tradeable(minutes, i, side)
    BY <1>3 DEF Entry
  <2>6. \A j \in Grid(minutes) : i + Horizon <= j => at <= j
    BY <2>2, Steps, MinutesOf
  <2>7. book # <<>> => book[Len(book)].exit <= i
    <3> SUFFICES ASSUME book # <<>> PROVE book[Len(book)].exit <= i
      OBVIOUS
    <3>1. Last(book) = book[Len(book)] /\ Len(book) \in 1 .. Len(book)
      BY DEF Last
    <3> QED BY <1>1, <1>3, <3>1
  <2> HIDE DEF new
  <2> DEFINE b == Append(book, new)
  <2>8. /\ Len(b) = Len(book) + 1 /\ Len(book) \in Nat /\ b[Len(book) + 1] = new
        /\ \A k \in 1 .. Len(book) : b[k] = book[k]
    OBVIOUS
  <2> HIDE DEF b
  <2>9. \A k \in 1 .. Len(book) :
            /\ b[k].entry <= i /\ b[k].entry < b[k].exit
            /\ Tradeable(minutes, b[k].entry, b[k].side) /\ Tradeable(minutes, b[k].exit, b[k].side)
            /\ \A j \in Grid(minutes) : b[k].entry + Horizon <= j => b[k].exit <= j
            /\ k > 1 => b[k - 1].exit <= b[k].entry
    <3> SUFFICES ASSUME NEW k \in 1 .. Len(book)
                 PROVE  /\ b[k].entry <= i /\ b[k].entry < b[k].exit
                        /\ Tradeable(minutes, b[k].entry, b[k].side) /\ Tradeable(minutes, b[k].exit, b[k].side)
                        /\ \A j \in Grid(minutes) : b[k].entry + Horizon <= j => b[k].exit <= j
                        /\ k > 1 => b[k - 1].exit <= b[k].entry
      OBVIOUS
    <3>1. b[k] = book[k] /\ (k > 1 => b[k - 1] = book[k - 1])
      <4>1. k > 1 => k - 1 \in 1 .. Len(book)
        BY <2>8
      <4> QED BY <2>8, <4>1
    <3> QED BY <1>2, <3>1 DEF Possible
  <2>10. Len(book) + 1 > 1 => b[Len(book)].exit <= i
    <3> SUFFICES ASSUME Len(book) + 1 > 1 PROVE b[Len(book)].exit <= i
      OBVIOUS
    <3>1. Len(book) \in 1 .. Len(book) /\ book # <<>>
      BY <2>8
    <3> QED BY <2>7, <2>8, <3>1
  <2>11. \A k \in 1 .. Len(b) : k \in 1 .. Len(book) \/ k = Len(book) + 1
    BY <2>8
  <2>12. Possible(minutes, b, i)
    <3> SUFFICES ASSUME NEW k \in 1 .. Len(b)
                 PROVE  /\ b[k].entry <= i /\ b[k].entry < b[k].exit
                        /\ Tradeable(minutes, b[k].entry, b[k].side) /\ Tradeable(minutes, b[k].exit, b[k].side)
                        /\ \A j \in Grid(minutes) : b[k].entry + Horizon <= j => b[k].exit <= j
                        /\ k > 1 => b[k - 1].exit <= b[k].entry
      BY DEF Possible
    <3>1. CASE k \in 1 .. Len(book)
      BY <2>9, <3>1
    <3>2. CASE k = Len(book) + 1
      <4>1. b[k] = new /\ k - 1 = Len(book)
        BY <2>8, <3>2
      <4>2. i <= i
        OBVIOUS
      <4> QED BY <2>2, <2>3, <2>5, <2>6, <2>10, <3>2, <4>1, <4>2
    <3> QED BY <2>11, <3>1, <3>2
  <2> QED BY <1>2, <2>4, <2>12 DEF b
<1>4. CASE Take(minutes, book, i) = book
  BY <1>2, <1>4
<1> QED BY <1>3, <1>4 DEF Take

\* TradesArePossible: whatever the minutes, every trade of the run was one the minutes allowed, and
\* one at a time (options_harness.run).
THEOREM TradesArePossibleTheorem == ReplaySpec => []TradesArePossible
<1>1. ReplayTyped => TradesArePossible
  <2> SUFFICES ASSUME ReplayTyped PROVE TradesArePossible
    OBVIOUS
  <2> DEFINE n == Len(archive)
  <2>1. archive \in Seq(MinuteOf) /\ n \in Nat
    BY MinutesOf DEF ReplayTyped
  <2>2. PICK book \in [0 .. n -> Seq(TradesOf(archive))] :
            /\ book[0] = <<>> /\ Trades(archive) = book[n]
            /\ \A i \in 1 .. n :
                   book[i] = IF i \in Grid(archive) THEN Take(archive, book[i - 1], i) ELSE book[i - 1]
    BY <2>1, BookStepByStep
  <2> DEFINE P == {i \in 0 .. n : Possible(archive, book[i], i)}
  <2>3. 0 \in P
    BY <2>1, <2>2 DEF Possible
  <2>4. \A i \in 0 .. n - 1 : i \in P => i + 1 \in P
    <3> SUFFICES ASSUME NEW i \in 0 .. n - 1, Possible(archive, book[i], i)
                 PROVE  Possible(archive, book[i + 1], i + 1) /\ i + 1 \in 0 .. n
      OBVIOUS
    <3>1. i + 1 \in 1 .. n /\ i + 1 \in 0 .. n /\ i + 1 - 1 = i /\ i \in 0 .. n
      BY <2>1
    <3>2. book[i] \in Seq(TradesOf(archive))
      BY <3>1
    <3>3. Possible(archive, book[i], i + 1) /\ Possible(archive, Take(archive, book[i], i + 1), i + 1)
      BY <2>1, <3>1, <3>2, TakesPossible
    <3> QED BY <2>2, <3>1, <3>3
  <2> HIDE DEF P
  <2>5. n \in P
    <3>1. \A i \in 0 .. n : i \in P
      BY <2>1, <2>3, <2>4, UpTo
    <3> QED BY <2>1, <3>1
  <2>6. Possible(archive, Trades(archive), n)
    BY <2>2, <2>5 DEF P
  <2> QED BY <2>6 DEF Possible, TradesArePossible
<1> QED BY <1>1, ReplayTypedInvariant, PTL

\* A session a minute longer.
Longer(minutes, m) == Append(minutes, m)

LEMMA MinuteAdded ==
    ASSUME NEW minutes \in Seq(MinuteOf), NEW m \in MinuteOf
    PROVE  /\ Longer(minutes, m) \in Seq(MinuteOf)
           /\ Len(minutes) \in Nat /\ Len(Longer(minutes, m)) = Len(minutes) + 1
           /\ \A i \in 1 .. Len(minutes) : Longer(minutes, m)[i] = minutes[i]
           /\ \A i \in 1 .. Len(minutes) : i \in Grid(Longer(minutes, m)) <=> i \in Grid(minutes)
           /\ \A i \in 1 .. Len(minutes) : i \in Labels(Longer(minutes, m)) <=> i \in Labels(minutes)
<1>1. /\ Longer(minutes, m) \in Seq(MinuteOf) /\ Len(minutes) \in Nat /\ Len(Longer(minutes, m)) = Len(minutes) + 1
      /\ \A i \in 1 .. Len(minutes) : Longer(minutes, m)[i] = minutes[i]
  BY DEF Longer
<1>2. \A i \in 1 .. Len(minutes) : i \in 1 .. Len(Longer(minutes, m))
  BY <1>1
<1> QED BY <1>1, <1>2 DEF Grid, Labels

\* A bar whose last minute is over does not change.
LEMMA BarStands ==
    ASSUME NEW minutes \in Seq(MinuteOf), NEW m \in MinuteOf, NEW label \in 1 .. Len(minutes),
           label + BarMinutes <= Len(minutes)
    PROVE  Bar(Longer(minutes, m), label) = Bar(minutes, label)
<1> DEFINE W == label .. label + BarMinutes - 1
           longer == Longer(minutes, m)
<1> USE Steps, MinuteAdded
<1>1. Min({label + BarMinutes - 1, Len(minutes)}) = label + BarMinutes - 1
  BY DEF Min
<1>2. Min({label + BarMinutes - 1, Len(longer)}) = label + BarMinutes - 1
  BY DEF Min
<1>3. label \in W /\ W \subseteq 1 .. Len(minutes) /\ W \subseteq 0 .. Len(minutes) /\ W # {}
  <2>1. label \in Int /\ Len(minutes) \in Nat /\ 1 <= label
    OBVIOUS
  <2>2. \A k \in W : k \in Int /\ 1 <= k /\ k <= Len(minutes)
    BY <2>1
  <2>3. label \in W
    BY <2>1
  <2> HIDE DEF W
  <2>4. \A k \in W : k \in 1 .. Len(minutes) /\ k \in 0 .. Len(minutes)
    BY <2>1, <2>2
  <2> QED BY <2>3, <2>4
<1>4. Max(W) \in W
  <2> HIDE DEF W
  <2> QED BY <1>3, Extremes
<1> DEFINE spots(d) == {d[i].spot : i \in W}
           bar(d) == [label |-> label, open |-> d[label].spot, close |-> d[Max(W)].spot,
                      high |-> Max(spots(d)), low |-> Min(spots(d))]
<1>5. spots(longer) = spots(minutes) /\ longer[Max(W)] = minutes[Max(W)] /\ longer[label] = minutes[label]
  BY <1>3, <1>4
<1>6. Bar(longer, label) = bar(longer)
  BY <1>2 DEF Bar
<1>7. Bar(minutes, label) = bar(minutes)
  BY <1>1 DEF Bar
<1> HIDE DEF spots, W, longer
<1>8. bar(longer) = bar(minutes)
  BY <1>5
<1> QED BY <1>6, <1>7, <1>8 DEF longer

LEMMA ShownStands ==
    ASSUME NEW minutes \in Seq(MinuteOf), NEW m \in MinuteOf, NEW i \in 1 .. Len(minutes)
    PROVE  Shown(Longer(minutes, m), i) = Shown(minutes, i)
<1> USE Steps, MinuteAdded
<1> DEFINE longer == Longer(minutes, m)
<1>1. \A d \in {minutes, longer} : \A label \in Closed(d, i) : label \in 1 .. Len(minutes) /\ label + BarMinutes <= Len(minutes)
  <2> SUFFICES ASSUME NEW d \in {minutes, longer}, NEW label \in Closed(d, i)
               PROVE  label \in 1 .. Len(minutes) /\ label + BarMinutes <= Len(minutes)
    OBVIOUS
  <2>1. label \in Labels(d) /\ label + BarMinutes <= i
    BY DEF Closed
  <2>2. label \in Int /\ 1 <= label
    <3>1. Len(d) \in Nat
      OBVIOUS
    <3> QED BY <2>1, <3>1 DEF Labels
  <2>3. Len(minutes) \in Nat /\ i \in Int /\ i <= Len(minutes) /\ BarMinutes \in Nat /\ BarMinutes > 0
    OBVIOUS
  <2>4. \A n, b, k, l \in Int : l + b <= k /\ k <= n /\ b > 0 /\ 1 <= l => l \in 1 .. n /\ l + b <= n
    OBVIOUS
  <2>5. Len(minutes) \in Int /\ BarMinutes \in Int
    BY <2>3
  <2> QED BY <2>1, <2>2, <2>3, <2>4, <2>5, Zenon
<1>2. Closed(longer, i) = Closed(minutes, i)
  <2>1. \A label \in Closed(longer, i) : label \in Closed(minutes, i)
    BY <1>1 DEF Closed
  <2>2. \A label \in Closed(minutes, i) : label \in Closed(longer, i)
    BY <1>1 DEF Closed
  <2> QED BY <2>1, <2>2
<1>3. \A label \in Closed(minutes, i) : Bar(longer, label) = Bar(minutes, label)
  BY <1>1, BarStands
<1>4. {Bar(longer, label) : label \in Closed(longer, i)} = {Bar(minutes, label) : label \in Closed(minutes, i)}
  BY <1>2, <1>3
<1>5. longer[i].spot = minutes[i].spot
  OBVIOUS
<1> QED BY <1>4, <1>5 DEF Shown

LEMMA ReturnStands ==
    ASSUME NEW minutes \in Seq(MinuteOf), NEW m \in MinuteOf, NEW i \in Observed(minutes)
    PROVE  Signed(Longer(minutes, m), i, 0) = Signed(minutes, i, 0)
<1> USE Steps, MinuteAdded
<1> DEFINE longer == Longer(minutes, m)
<1>1. i \in 1 .. Len(minutes) /\ NextSpot(minutes, i) # {} /\ Grid(minutes) \subseteq 1 .. Len(minutes)
  BY MinutesOf DEF Observed
<1>2. PICK j \in Grid(minutes) : /\ NextSpot(minutes, i) = {j} /\ j >= i + Horizon
                             /\ \A k \in Grid(minutes) : k >= i + Horizon => j <= k
  BY <1>1, NextIsLater
<1>3. j \in Grid(longer) /\ i \in 1 .. Len(longer) /\ Grid(longer) \subseteq 1 .. Len(longer)
  <2>1. longer \in Seq(MinuteOf) /\ i \in 1 .. Len(longer)
    BY <1>1
  <2>2. Grid(longer) \subseteq 1 .. Len(longer)
    <3> HIDE DEF longer
    <3> QED BY <2>1, MinutesOf
  <2>3. j \in Grid(longer)
    BY <1>1
  <2> QED BY <2>1, <2>2, <2>3
<1>4. \/ NextSpot(longer, i) = {} /\ \A k \in Grid(longer) : ~(k >= i + Horizon)
      \/ \E k \in Grid(longer) : /\ NextSpot(longer, i) = {k} /\ k >= i + Horizon
                                 /\ \A l \in Grid(longer) : l >= i + Horizon => k <= l
  <2>1. longer \in Seq(MinuteOf)
    OBVIOUS
  <2> HIDE DEF longer
  <2> QED BY <1>3, <2>1, NextIsLater
<1>5. PICK k \in Grid(longer) : /\ NextSpot(longer, i) = {k} /\ k >= i + Horizon
                                /\ \A l \in Grid(longer) : l >= i + Horizon => k <= l
  BY <1>2, <1>3, <1>4
<1>6. k <= j /\ j \in Int /\ k \in Int /\ k \in 1 .. Len(longer) /\ j \in 1 .. Len(minutes)
  BY <1>1, <1>2, <1>3, <1>5
<1>7. k \in Grid(minutes)
  <2>1. k \in 1 .. Len(minutes)
    BY <1>6
  <2> QED BY <1>5, <2>1
<1>8. k = j
  BY <1>2, <1>5, <1>6, <1>7
<1>9. longer[j] = minutes[j] /\ longer[i] = minutes[i]
  BY <1>1, <1>6
<1>10. Moved(longer, i, 0) = Moved(minutes, i, 0)
  <2>1. Moved(minutes, i, 0) = {minutes[j].spot - minutes[i].spot + 0}
    BY <1>2 DEF Moved
  <2>2. Moved(longer, i, 0) = {longer[j].spot - longer[i].spot + 0}
    BY <1>5, <1>8 DEF Moved
  <2> QED BY <1>9, <2>1, <2>2
<1> QED BY <1>9, <1>10 DEF Signed

LEMMA CryptoShownStands ==
    ASSUME NEW minutes \in Seq(MinuteOf), NEW m \in MinuteOf, NEW i \in CryptoGrid(minutes)
    PROVE  CryptoShown(Longer(minutes, m), i) = CryptoShown(minutes, i)
<1> USE Steps, MinuteAdded
<1>1. \A j \in i - WindowBars + 1 .. i : j \in 1 .. Len(minutes)
  BY DEF CryptoGrid
<1>2. \A j \in i - WindowBars + 1 .. i : Longer(minutes, m)[j] = minutes[j]
  BY <1>1
<1> QED BY <1>2 DEF CryptoShown

\* NothingRepaints: the minutes to come change nothing a lens was shown, nor the return it
\* was given (snapshots_for_day, replay_lens).
THEOREM NothingRepaintsTheorem == ReplaySpec => NothingRepaints
<1> DEFINE Stands ==
        /\ \A i \in Grid(archive) : Shown(archive', i) = Shown(archive, i)
        /\ \A i \in Observed(archive) : Signed(archive', i, 0) = Signed(archive, i, 0)
        /\ \A i \in CryptoGrid(archive) : CryptoShown(archive', i) = CryptoShown(archive, i)
<1>1. ReplayTyped /\ [ReplayNext]_replayVars => [Stands]_archive
  <2> SUFFICES ASSUME ReplayTyped, ReplayNext PROVE Stands
    BY DEF replayVars
  <2>1. PICK spot \in Spots, traded \in SUBSET Sides, verdict \in Directions :
            archive' = Append(archive, [spot |-> spot, traded |-> traded, verdict |-> verdict])
    BY DEF ReplayNext, Minute
  <2> DEFINE m == [spot |-> spot, traded |-> traded, verdict |-> verdict]
  <2>2. m \in MinuteOf /\ archive \in Seq(MinuteOf) /\ archive' = Longer(archive, m)
    BY <2>1 DEF MinuteOf, ReplayTyped, Longer
  <2> HIDE DEF m
  <2>3. ASSUME NEW i \in Grid(archive) PROVE Shown(archive', i) = Shown(archive, i)
    <3>1. i \in 1 .. Len(archive)
      BY <2>2, MinutesOf
    <3>2. Shown(Longer(archive, m), i) = Shown(archive, i)
      BY <2>2, <3>1, ShownStands
    <3> QED BY <2>2, <3>2
  <2>4. ASSUME NEW i \in Observed(archive) PROVE Signed(archive', i, 0) = Signed(archive, i, 0)
    BY <2>2, ReturnStands
  <2>5. ASSUME NEW i \in CryptoGrid(archive) PROVE CryptoShown(archive', i) = CryptoShown(archive, i)
    BY <2>2, CryptoShownStands
  <2> QED BY <2>3, <2>4, <2>5
<1> QED BY <1>1, ReplayTypedInvariant, PTL DEF ReplaySpec, NothingRepaints

---------------------------------------------------------------------------
(* Charts *)

LEMMA Quotient ==
    ASSUME NEW a \in Int, NEW b \in Nat, b > 0
    PROVE  /\ a \div b \in Int /\ b * (a \div b) \in Int
           /\ b * (a \div b) <= a /\ a < b * (a \div b) + b
  OBVIOUS

LEMMA RoundedUp ==
    ASSUME NEW a \in Nat, NEW b \in Nat, b > 0
    PROVE  Ceil(a, b) \in Nat /\ b * Ceil(a, b) \in Nat /\ a <= b * Ceil(a, b) /\ (a > 0 => Ceil(a, b) > 0)
<1> DEFINE q == (-a) \div b
<1>1. -a \in Int
  OBVIOUS
<1>2. q \in Int /\ b * q \in Int /\ b * q <= -a /\ -a < b * q + b
  BY <1>1, Quotient
<1> HIDE DEF q
<1>3. b * (-q) = -(b * q)
  BY <1>2
<1>4. ~(q > 0)
  <2> SUFFICES ASSUME q > 0 PROVE FALSE
    OBVIOUS
  <2>1. b * q > 0
    BY <1>2
  <2> QED BY <1>2, <2>1
<1>5. a > 0 => q # 0
  BY <1>2
<1> QED BY <1>2, <1>3, <1>4, <1>5 DEF Ceil, q

LEMMA AtLeast ==
    ASSUME NEW a \in Int, NEW b \in Nat, b > 0, NEW c \in Int, b * c <= a
    PROVE  c <= a \div b
<1> DEFINE q == a \div b
<1>1. q \in Int /\ b * q \in Int /\ a < b * q + b
  BY Quotient
<1> HIDE DEF q
<1> SUFFICES ASSUME q < c PROVE FALSE
  BY <1>1 DEF q
<1>2. q + 1 <= c
  BY <1>1
<1>3. b * (q + 1) <= b * c
  BY <1>1, <1>2
<1>4. b * (q + 1) = b * q + b
  BY <1>1
<1> QED BY <1>1, <1>3, <1>4

LEMMA AtMost ==
    ASSUME NEW a \in Int, NEW b \in Nat, b > 0, NEW c \in Int, a <= b * c
    PROVE  a \div b <= c
<1> DEFINE q == a \div b
<1>1. q \in Int /\ b * q \in Int /\ b * q <= a
  BY Quotient
<1> HIDE DEF q
<1> SUFFICES ASSUME c < q PROVE FALSE
  BY <1>1 DEF q
<1>2. c + 1 <= q
  BY <1>1
<1>3. b * (c + 1) <= b * q
  BY <1>1, <1>2
<1>4. b * (c + 1) = b * c + b
  BY <1>1
<1> QED BY <1>1, <1>3, <1>4

LEMMA Candle ==
    ASSUME NEW b \in Seq(Candles)
    PROVE  /\ Len(b) \in Nat
           /\ \A k \in 1 .. Len(b) : /\ b[k].high \in Nat /\ b[k].low \in Nat /\ b[k].close \in Nat
                                     /\ 0 < b[k].low /\ b[k].low <= b[k].close /\ b[k].close <= b[k].high
<1>1. \A k \in 1 .. Len(b) : b[k] \in Candles
  OBVIOUS
<1>2. \A c \in Candles : /\ c.high \in Nat /\ c.low \in Nat /\ c.close \in Nat
                         /\ 0 < c.low /\ c.low <= c.close /\ c.close <= c.high
  BY ChartsAssumption
<1> QED BY <1>1, <1>2

LEMMA ChartSpans ==
    /\ SwingLookback \in Nat /\ SwingLookback > 0 /\ AtrSpan \in Nat /\ AtrSpan > 0
    /\ MaxToResolve \in Nat /\ MaxToResolve > 0 /\ StructureWindow \in Nat /\ StructureWindow > 0
    /\ StructureBars \in Nat /\ SweepBars \in Nat /\ LabelBars \in Nat /\ MaxLevelAge \in Nat
    /\ \A p \in HitRates : p \in Nat /\ p <= 100
  BY ChartsAssumption

LEMMA SizeIsNumber ==
    \A x \in Int : Size(x) \in Nat /\ x <= Size(x) /\ -x <= Size(x) /\ (x # 0 => Size(x) > 0)
  BY DEF Size

LEMMA TrueRangeIsNumber ==
    ASSUME NEW b \in Seq(Candles), NEW k \in 1 .. Len(b)
    PROVE  TrueRange(b, k) \in Nat
<1> DEFINE prev == b[Max({k - 1, 1})].close
           x == b[k].high - b[k].low
           y == Size(b[k].high - prev)
           z == Size(b[k].low - prev)
<1>1. Max({k - 1, 1}) \in 1 .. Len(b)
  <2>1. Max({k - 1, 1}) = IF k - 1 >= 1 THEN k - 1 ELSE 1
    BY DEF Max
  <2> QED BY <2>1
<1>2. prev \in Nat /\ b[k].high \in Nat /\ b[k].low \in Nat /\ b[k].low <= b[k].high
  <2> HIDE DEF prev
  <2>1. prev \in Nat
    BY <1>1, Candle DEF prev
  <2>2. b[k].low <= b[k].close /\ b[k].close <= b[k].high /\ b[k].high \in Nat /\ b[k].low \in Nat /\ b[k].close \in Nat
    BY Candle
  <2> QED BY <2>1, <2>2
<1> HIDE DEF prev
<1>3. x \in Nat /\ y \in Nat /\ z \in Nat
  <2>1. b[k].high - prev \in Int /\ b[k].low - prev \in Int /\ x \in Nat
    BY <1>2
  <2> QED BY <2>1, SizeIsNumber
<1>4. TrueRange(b, k) = Max({x, y, z})
  BY DEF TrueRange, prev
<1> HIDE DEF x, y, z
<1>5. Max({x, y, z}) \in {x, y, z}
  BY <1>3 DEF Max
<1> QED BY <1>3, <1>4, <1>5

\* The average from one bar to the next.
Averaged(b, j, x) == ((AtrSpan - 1) * x + 2 * TrueRange(b, j)) \div (AtrSpan + 1)

LEMMA AveragedIsNumber ==
    ASSUME NEW b \in Seq(Candles), NEW j \in 1 .. Len(b), NEW x \in Nat
    PROVE  Averaged(b, j, x) \in Nat
<1> DEFINE y == (AtrSpan - 1) * x + 2 * TrueRange(b, j)
<1>1. y \in Nat
  <2>1. AtrSpan - 1 \in Nat
    BY ChartSpans
  <2>2. (AtrSpan - 1) * x \in Nat
    BY <2>1
  <2> QED BY <2>2, TrueRangeIsNumber
<1> HIDE DEF y
<1>2. AtrSpan + 1 \in Nat /\ AtrSpan + 1 > 0
  BY ChartSpans
<1>3. y \div (AtrSpan + 1) \in Int
  BY <1>1, <1>2, Quotient
<1>4. 0 <= y \div (AtrSpan + 1)
  <2>1. (AtrSpan + 1) * 0 <= y
    BY <1>1, <1>2
  <2> QED BY <1>1, <1>2, <2>1, AtLeast
<1>5. y \div (AtrSpan + 1) \in Nat
  BY <1>3, <1>4
<1> QED BY <1>5 DEF Averaged, y

\* a is the ATR of a frame up to its bar k.
Averages(a, b, k) ==
    /\ a \in [1 .. k -> Nat]
    /\ a[1] = TrueRange(b, 1)
    /\ \A j \in 2 .. k : a[j] = Averaged(b, j, a[j - 1])

\* The ATR at a bar goes from the first bar to it, by one average after the other.
LEMMA AtrStepByStep ==
    ASSUME NEW b \in Seq(Candles), NEW k \in 1 .. Len(b), Len(b) >= 2
    PROVE  \E a : Averages(a, b, k) /\ Atr(b, k) = a[k]
<1> DEFINE rule == [j \in 1 .. k |-> [x \in Nat |-> IF j = 1 THEN TrueRange(b, 1) ELSE Averaged(b, j, x)]]
           first == TrueRange(b, 1)
<1>1. first \in Nat /\ k \in Nat /\ 1 <= k /\ \A j \in 1 .. k : j \in 1 .. Len(b)
  <2>1. Len(b) \in Nat /\ 1 \in 1 .. Len(b)
    BY Candle
  <2> QED BY <2>1, TrueRangeIsNumber
<1>2. \A j \in 1 .. k, x \in Nat : Averaged(b, j, x) \in Nat
  BY <1>1, AveragedIsNumber
<1> HIDE DEF first
<1>3. rule \in [1 .. k -> [Nat -> Nat]]
  BY <1>1, <1>2 DEF first
<1>4. PICK f \in [0 .. k -> Nat] : f[0] = first /\ \A j \in 1 .. k : f[j] = rule[j][f[j - 1]]
  <2> HIDE DEF rule
  <2>1. \E f : Stepping(f, k, Nat, first, rule)
    BY <1>1, <1>3, StepByStep
  <2> QED BY <2>1 DEF Stepping
<1> DEFINE g == [j \in 1 .. k |-> f[j]]
           next(a, j) == IF j = 1 THEN TrueRange(b, 1) ELSE Averaged(b, j, a[j - 1])
<1>5. \A j \in 1 .. k : /\ f[j] \in Nat /\ f[j - 1] \in Nat
                        /\ f[j] = IF j = 1 THEN TrueRange(b, 1) ELSE Averaged(b, j, f[j - 1])
  <2> SUFFICES ASSUME NEW j \in 1 .. k
               PROVE  /\ f[j] \in Nat /\ f[j - 1] \in Nat
                      /\ f[j] = IF j = 1 THEN TrueRange(b, 1) ELSE Averaged(b, j, f[j - 1])
    OBVIOUS
  <2>1. j \in 0 .. k /\ j - 1 \in 0 .. k
    BY <1>1
  <2>2. f[j] \in Nat /\ f[j - 1] \in Nat
    BY <2>1
  <2>3. rule[j][f[j - 1]] = IF j = 1 THEN TrueRange(b, 1) ELSE Averaged(b, j, f[j - 1])
    BY <2>2
  <2> QED BY <1>4, <2>2, <2>3
<1>6. \A j \in 1 .. k : g[j] = next(g, j)
  <2> SUFFICES ASSUME NEW j \in 1 .. k PROVE g[j] = next(g, j)
    OBVIOUS
  <2>1. j # 1 => j - 1 \in 1 .. k
    BY <1>1
  <2>2. j # 1 => g[j - 1] = f[j - 1]
    BY <2>1
  <2> QED BY <1>5, <2>2
<1> DEFINE ok(a) == a = [j \in 1 .. k |-> next(a, j)]
           a == CHOOSE a : ok(a)
<1>7. Atr(b, k) = a[k]
  BY Candle DEF Atr, Averaged
<1>8. ok(g)
  BY <1>6
<1> HIDE DEF g
<1>9. ok(a)
  BY <1>8
<1> HIDE DEF a
<1>10. \A j \in 1 .. k : a[j] = next(a, j)
  BY <1>9
<1>11. \A j \in 1 .. k : a[j] \in Nat
  <2> DEFINE P == {j \in 0 .. k : j = 0 \/ a[j] \in Nat}
  <2>1. 0 \in P
    BY <1>1
  <2>2. \A j \in 0 .. k - 1 : j \in P => j + 1 \in P
    <3> SUFFICES ASSUME NEW j \in 0 .. k - 1, j = 0 \/ a[j] \in Nat PROVE a[j + 1] \in Nat /\ j + 1 \in 0 .. k
      OBVIOUS
    <3>1. j + 1 \in 1 .. k /\ j + 1 \in 0 .. k /\ j + 1 - 1 = j /\ (j + 1 = 1 <=> j = 0)
      BY <1>1
    <3>2. a[j + 1] = IF j = 0 THEN TrueRange(b, 1) ELSE Averaged(b, j + 1, a[j])
      BY <1>10, <3>1
    <3> QED BY <1>1, <1>2, <3>1, <3>2 DEF first
  <2> HIDE DEF P
  <2>3. \A j \in 0 .. k : j \in P
    BY <1>1, <2>1, <2>2, UpTo
  <2>4. \A j \in 1 .. k : j \in 0 .. k /\ j # 0
    BY <1>1
  <2> QED BY <2>3, <2>4 DEF P
<1>12. a \in [1 .. k -> Nat]
  BY <1>9, <1>11
<1>13. a[1] = TrueRange(b, 1) /\ \A j \in 2 .. k : a[j] = Averaged(b, j, a[j - 1])
  <2>1. 1 \in 1 .. k /\ \A j \in 2 .. k : j \in 1 .. k /\ j # 1
    BY <1>1
  <2> QED BY <1>10, <2>1
<1> QED BY <1>7, <1>12, <1>13 DEF Averages

\* The ATR is a number, on a frame of any length.
LEMMA AtrIsNumber ==
    ASSUME NEW b \in Seq(Candles), NEW k \in 1 .. Len(b)
    PROVE  Atr(b, k) \in Nat
<1>1. CASE Len(b) < 2
  BY <1>1 DEF Atr
<1>2. CASE Len(b) >= 2
  <2>1. PICK a : Averages(a, b, k) /\ Atr(b, k) = a[k]
    BY <1>2, AtrStepByStep
  <2>2. k \in 1 .. k
    BY Candle
  <2> QED BY <2>1, <2>2 DEF Averages
<1> QED BY <1>1, <1>2, Candle

LEMMA SwingsAreBars ==
    ASSUME NEW b \in Seq(Candles)
    PROVE  SwingHighs(b) \subseteq 1 .. Len(b) /\ SwingLows(b) \subseteq 1 .. Len(b)
<1>1. Centres(b) \subseteq 1 .. Len(b)
  <2>1. Len(b) \in Nat
    BY Candle
  <2>2. \A k \in Centres(b) : k \in Int /\ SwingLookback + 1 <= k /\ k <= Len(b) - SwingLookback
    BY <2>1, ChartSpans DEF Centres
  <2> QED BY <2>1, <2>2, ChartSpans
<1> QED BY <1>1 DEF SwingHighs, SwingLows

\* A level is the mean of the prices of some swings.
LEMMA LevelsAreNumbers ==
    ASSUME NEW b \in Seq(Candles), NEW D, D \subseteq 1 .. Len(b), NEW price \in [D -> Int], NEW atr
    PROVE  Levels(price, atr) \subseteq Int
<1> DEFINE prices == {price[k] : k \in DOMAIN price}
           apart(p) == \A q \in prices : q < p => 2 * (p - q) > atr
           group(s) == {k \in DOMAIN price : /\ s <= price[k]
                                             /\ \A t \in prices : s < t /\ t <= price[k] => ~ apart(t)}
           mean(s) == SumFunctionOnSet(price, group(s)) \div Cardinality(group(s))
<1>1. \A s : group(s) \subseteq D
  OBVIOUS
<1>2. ASSUME NEW s, Cardinality(group(s)) >= 2 PROVE mean(s) \in Int
  <2> DEFINE G == group(s)
  <2>1. G \subseteq D
    BY <1>1
  <2> HIDE DEF group
  <2>2. IsFiniteSet(G)
    <3>1. Len(b) \in Int /\ G \in SUBSET (1 .. Len(b))
      BY <2>1, Candle
    <3>2. IsFiniteSet(1 .. Len(b))
      BY <3>1, FS_Interval
    <3> HIDE DEF G
    <3> QED BY <3>1, <3>2, FS_Subset
  <2>3. \A k \in G : price[k] \in Int
    BY <2>1
  <2> HIDE DEF G
  <2>4. SumFunctionOnSet(price, G) \in Int
    <3>1. SumFunctionOnSet(price, G) = Summing(price, G)[G]
      BY SumIsSumming
    <3>2. Summing(price, G)[G] \in Int
      BY <2>2, <2>3, SumIsNumber
    <3> QED BY <3>1, <3>2
  <2>5. Cardinality(G) \in Nat /\ Cardinality(G) > 0
    BY <1>2, <2>2, FS_CardinalityType DEF G
  <2>6. SumFunctionOnSet(price, G) \div Cardinality(G) \in Int
    BY <2>4, <2>5, Quotient
  <2> QED BY <2>6 DEF G
<1>3. Levels(price, atr) = {mean(s) : s \in {s \in prices : apart(s) /\ Cardinality(group(s)) >= 2}}
  BY DEF Levels
<1> HIDE DEF mean, group, apart, prices
<1> QED BY <1>2, <1>3

LEMMA LevelsOfAreNumbers ==
    ASSUME NEW b \in Seq(Candles)
    PROVE  LevelsOf(b) \subseteq Int
<1> DEFINE high == [k \in SwingHighs(b) |-> b[k].high]
           low == [k \in SwingLows(b) |-> b[k].low]
<1>1. high \in [SwingHighs(b) -> Int] /\ low \in [SwingLows(b) -> Int]
  BY SwingsAreBars, Candle
<1>2. LevelsOf(b) = Levels(high, Atr(b, Len(b))) \cup Levels(low, Atr(b, Len(b)))
  BY DEF LevelsOf
<1> HIDE DEF high, low
<1>3. Levels(high, Atr(b, Len(b))) \subseteq Int
  BY <1>1, SwingsAreBars, LevelsAreNumbers
<1>4. Levels(low, Atr(b, Len(b))) \subseteq Int
  BY <1>1, SwingsAreBars, LevelsAreNumbers
<1> QED BY <1>2, <1>3, <1>4

\* What is reported of a sweep.
SweepFacts(s, b) ==
    /\ s.bar \in 1 .. Len(b) /\ s.side \in {1, -1}
    /\ s.atr \in Nat /\ s.atr > 0
    /\ s.wick \in Nat /\ s.entry \in Nat /\ s.entry > 0

LEMMA SweepIsTyped ==
    ASSUME NEW b \in Seq(Candles), NEW s \in Sweeps(b)
    PROVE  SweepFacts(s, b)
<1>1. PICK i \in 2 * SwingLookback + 1 .. Len(b), d \in {1, -1} : Swept(b, i, d) # {} /\ s = SweepOf(b, i, d)
  BY DEF Sweeps
<1>2. i \in 1 .. Len(b)
  BY Candle, ChartSpans
<1>3. AtrAt(b, i) > 0
  BY <1>1 DEF Swept
<1>4. AtrAt(b, i) \in Nat
  BY <1>2, AtrIsNumber DEF AtrAt
<1>5. b[i].low \in Nat /\ b[i].high \in Nat /\ b[i].close \in Nat /\ b[i].close > 0
  BY <1>2, Candle
<1>6. s.bar = i /\ s.side = d /\ s.atr = AtrAt(b, i) /\ s.entry = b[i].close
      /\ s.wick \in {b[i].low, b[i].high}
  BY <1>1 DEF SweepOf
<1> QED BY <1>2, <1>3, <1>4, <1>5, <1>6 DEF SweepFacts

\* A trade that can be sized: whole prices, a stop behind the wick and off the entry, a target
\* off the entry.
CanBeSized(t) ==
    /\ t.entry \in Nat /\ t.entry > 0 /\ t.stop \in Int /\ t.target \in Int
    /\ t.stop # t.entry /\ t.target # t.entry
    /\ t.sweep.side * (t.sweep.wick - t.stop) > 0

LEMMA TradeCanBeSized ==
    ASSUME NEW b \in Seq(Candles), NEW s \in Sweeps(b), NEW t \in TradeOn(s, b)
    PROVE  CanBeSized(t)
<1> DEFINE offset == Ceil(15 * s.atr, 100)
<1>1. PICK v \in LevelsOf(b) : /\ s.side * (v - s.entry) > 0 /\ Size(s.entry - StopOf(s)) > 0
                               /\ t = [sweep |-> s, entry |-> s.entry, stop |-> StopOf(s), target |-> v]
  BY DEF TradeOn
<1>2. /\ s.side \in {1, -1} /\ s.atr \in Nat /\ s.atr > 0
      /\ s.wick \in Nat /\ s.entry \in Nat /\ s.entry > 0
  BY SweepIsTyped DEF SweepFacts
<1>3. offset \in Nat /\ offset > 0
  <2> DEFINE x == 15 * s.atr
  <2>1. x \in Nat /\ x > 0
    BY <1>2
  <2>2. \A y \in Nat : y > 0 => Ceil(x, y) \in Nat /\ (x > 0 => Ceil(x, y) > 0)
    <3> HIDE DEF x
    <3> QED BY <2>1, RoundedUp
  <2> HIDE DEF x
  <2>3. Ceil(x, 100) \in Nat /\ (x > 0 => Ceil(x, 100) > 0)
    BY <2>2
  <2> QED BY <2>1, <2>3 DEF x
<1> HIDE DEF offset
<1>4. StopOf(s) = s.wick - s.side * offset
  BY DEF StopOf, offset
<1>5. StopOf(s) \in Int /\ s.side * (s.wick - StopOf(s)) > 0
  <2>1. CASE s.side = 1
    BY <1>2, <1>3, <1>4, <2>1
  <2>2. CASE s.side = -1
    BY <1>2, <1>3, <1>4, <2>2
  <2> QED BY <1>2, <2>1, <2>2
<1>6. v \in Int /\ v # s.entry
  <2>1. v \in Int
    BY LevelsOfAreNumbers
  <2>2. v # s.entry
    BY <1>1, <1>2, <2>1
  <2> QED BY <2>1, <2>2
<1>7. StopOf(s) # s.entry
  BY <1>1, <1>2, <1>5 DEF Size
<1>8. t.sweep = s /\ t.entry = s.entry /\ t.stop = StopOf(s) /\ t.target = v
  BY <1>1
<1> HIDE DEF SweepFacts
<1> QED BY <1>2, <1>5, <1>6, <1>7, <1>8 DEF CanBeSized

\* The fraction that is risked is a number of basis points, and at most 500.
LEMMA FractionIsCapped ==
    ASSUME NEW t, CanBeSized(t), NEW p \in 0 .. 100, RiskFraction(p, t) > 0
    PROVE  RiskFraction(p, t) \in Nat /\ RiskFraction(p, t) > 0 /\ RiskFraction(p, t) <= 500
<1> DEFINE reward == Size(t.target - t.entry)
           risk == Size(t.entry - t.stop)
<1>1. reward \in Nat /\ reward > 0 /\ risk \in Nat
  <2>1. t.target - t.entry \in Int /\ t.target - t.entry # 0 /\ t.entry - t.stop \in Int
    BY DEF CanBeSized
  <2> QED BY <2>1, SizeIsNumber
<1>2. KellyOf(p, t) = p * reward - (100 - p) * risk
  BY DEF KellyOf
<1>3. Quarter(p, t) = (25 * KellyOf(p, t)) \div reward
  BY DEF Quarter
<1> HIDE DEF reward, risk
<1>4. KellyOf(p, t) \in Int
  <2>1. p * reward \in Int /\ (100 - p) * risk \in Int
    BY <1>1
  <2> QED BY <1>2, <2>1
<1>5. Quarter(p, t) \in Int
  BY <1>1, <1>3, <1>4, Quotient
<1>6. \/ RiskFraction(p, t) = 0
      \/ RiskFraction(p, t) = Min({Quarter(p, t), 500}) /\ ~(Quarter(p, t) < 50)
  BY DEF RiskFraction
<1>7. Min({Quarter(p, t), 500}) = IF Quarter(p, t) <= 500 THEN Quarter(p, t) ELSE 500
  BY <1>5 DEF Min
<1> QED BY <1>5, <1>6, <1>7

\* A stop is at most a twentieth of the capital away, and the liquidation 19 stops.
LEMMA SizedStopComesFirst ==
    ASSUME NEW t, CanBeSized(t), NEW f \in Nat, f > 0, f <= 500
    PROVE  LossOf(f, t) <= 500 /\ HeadroomOf(f, t) >= 1900
<1> DEFINE w == StopWidth(t)
           c == Ceil(10000 * w, f)
           m == MarginOf(f, t)
<1>1. w \in Nat /\ w > 0
  <2> DEFINE risk == Size(t.entry - t.stop)
  <2>1. t.entry \in Nat /\ t.entry > 0 /\ t.entry - t.stop \in Int /\ t.entry - t.stop # 0
    BY DEF CanBeSized
  <2>2. risk \in Nat /\ risk > 0
    BY <2>1, SizeIsNumber
  <2> DEFINE x == 1000000 * risk
  <2>3. StopWidth(t) = Ceil(x, t.entry)
    BY SMT DEF StopWidth
  <2> HIDE DEF risk
  <2>4. x \in Nat /\ x > 0
    BY <2>2, SMT
  <2> HIDE DEF x
  <2>5. Ceil(x, t.entry) \in Nat /\ (x > 0 => Ceil(x, t.entry) > 0)
    BY <2>1, <2>4, RoundedUp
  <2> QED BY <2>3, <2>4, <2>5 DEF w
<1>2. c \in Nat /\ 10000 * w <= f * c
  <2> DEFINE x == 10000 * w
  <2>1. x \in Nat
    BY <1>1
  <2> HIDE DEF x
  <2>2. Ceil(x, f) \in Nat /\ x <= f * Ceil(x, f)
    BY <2>1, RoundedUp
  <2> QED BY <2>2 DEF x
<1> HIDE DEF w
<1>3. m = IF c >= 50000 THEN c ELSE 50000
  <2>1. m = Max({c, 50000})
    BY DEF MarginOf, w
  <2> HIDE DEF c, m
  <2> QED BY <1>2, <2>1 DEF Max
<1> HIDE DEF c
<1>4. 20 * w <= c
  <2>1. f * c <= 500 * c
    BY <1>2
  <2>2. f * c \in Nat
    BY <1>2
  <2> QED BY <1>1, <1>2, <2>1, <2>2
<1> HIDE DEF m
<1>5. m \in Nat /\ 50000 <= m /\ 20 * w <= m
  BY <1>1, <1>2, <1>3, <1>4
<1>6. LossOf(f, t) <= 500
  <2>1. LossOf(f, t) = (10000 * w) \div m
    BY DEF LossOf, w, m
  <2>2. 10000 * w \in Int /\ 10000 * w <= m * 500 /\ m > 0
    BY <1>1, <1>5
  <2> QED BY <1>5, <2>1, <2>2, AtMost
<1>7. HeadroomOf(f, t) >= 1900
  <2>1. HeadroomOf(f, t) = (100 * (m - 2500)) \div w
    BY DEF HeadroomOf, w, m
  <2>2. 100 * (m - 2500) \in Int /\ w * 1900 <= 100 * (m - 2500)
    BY <1>1, <1>5
  <2>3. (100 * (m - 2500)) \div w \in Int
    BY <1>1, <2>2, Quotient
  <2>4. 1900 <= (100 * (m - 2500)) \div w
    BY <1>1, <2>2, AtLeast
  <2> QED BY <2>1, <2>3, <2>4
<1> QED BY <1>6, <1>7

\* The chart is one of candles, and what is offered on it can be sized.
ChartInv ==
    /\ chart \in Seq(Candles)
    /\ reported = Sweeps(chart) /\ labelled = Labelled(chart)
    /\ \A t \in offered : CanBeSized(t)

LEMMA EmptyChart == Sweeps(<<>>) = {} /\ Labelled(<<>>) = {}
<1>1. 2 * SwingLookback + 1 .. 0 = {}
  BY ChartSpans
<1>2. Sweeps(<<>>) = {}
  BY <1>1 DEF Sweeps
<1>3. Labelled(<<>>) = {}
  BY <1>2 DEF Labelled
<1> QED BY <1>2, <1>3

LEMMA ChartInvariant == ChartsSpec => []ChartInv
<1>1. ChartsInit => ChartInv
  BY EmptyChart DEF ChartsInit, ChartInv
<1>2. ChartInv /\ [ChartsNext]_chartVars => ChartInv'
  <2> SUFFICES ASSUME ChartInv, [ChartsNext]_chartVars PROVE ChartInv'
    OBVIOUS
  <2>1. ASSUME NEW bar \in Candles, BarCloses(bar) PROVE ChartInv'
    <3>1. chart' \in Seq(Candles) /\ reported' = Sweeps(chart') /\ labelled' = Labelled(chart')
      BY <2>1 DEF BarCloses, ChartInv
    <3>2. \A t \in offered' : \E s \in Sweeps(chart') : t \in TradeOn(s, chart')
      BY <2>1 DEF BarCloses, Setup, LatestSweep
    <3>3. \A t \in offered' : CanBeSized(t)
      BY <3>1, <3>2, TradeCanBeSized
    <3>4. (\A t \in offered : CanBeSized(t))'
      BY <3>3 DEF CanBeSized
    <3>5. (reported = Sweeps(chart))' /\ (labelled = Labelled(chart))'
      BY <3>1
    <3> QED BY <3>1, <3>4, <3>5 DEF ChartInv
  <2>2. CASE UNCHANGED chartVars
    BY <2>2 DEF ChartInv, chartVars, CanBeSized
  <2> QED BY <2>1, <2>2 DEF ChartsNext
<1> QED BY <1>1, <1>2, PTL DEF ChartsSpec

\* StopComesFirst: whatever the chart and the probability, a setup that is sized loses at most
\* a twentieth at its stop and has 19 stops to its liquidation (decide_risk, size_position).
THEOREM StopComesFirstTheorem == ChartsSpec => []StopComesFirst
<1>1. ChartInv => StopComesFirst
  <2> SUFFICES ASSUME ChartInv, NEW t \in offered, NEW p \in HitRates, RiskFraction(p, t) > 0
               PROVE  /\ LossOf(RiskFraction(p, t), t) <= 500 /\ HeadroomOf(RiskFraction(p, t), t) >= 1900
                      /\ t.sweep.side * (t.sweep.wick - t.stop) > 0
    BY DEF StopComesFirst
  <2>1. CanBeSized(t)
    BY DEF ChartInv
  <2>2. p \in 0 .. 100
    <3>1. p \in Nat /\ p <= 100
      BY ChartSpans
    <3> QED BY <3>1
  <2>3. LossOf(RiskFraction(p, t), t) <= 500 /\ HeadroomOf(RiskFraction(p, t), t) >= 1900
    BY <2>1, <2>2, FractionIsCapped, SizedStopComesFirst
  <2> QED BY <2>1, <2>3 DEF CanBeSized
<1> QED BY <1>1, ChartInvariant, PTL

LEMMA BarAdded ==
    ASSUME NEW b \in Seq(Candles), NEW bar \in Candles
    PROVE  /\ Append(b, bar) \in Seq(Candles)
           /\ Len(b) \in Nat /\ Len(Append(b, bar)) = Len(b) + 1
           /\ \A k \in 1 .. Len(b) : Append(b, bar)[k] = b[k]
  OBVIOUS

\* c is b and a bar more.
Grows(b, c) ==
    /\ b \in Seq(Candles) /\ c \in Seq(Candles)
    /\ Len(b) \in Nat /\ Len(c) = Len(b) + 1
    /\ \A k \in 1 .. Len(b) : c[k] = b[k]

LEMMA TrueRangeStands ==
    ASSUME NEW b, NEW c, Grows(b, c), NEW k \in 1 .. Len(b)
    PROVE  TrueRange(c, k) = TrueRange(b, k)
<1>1. Max({k - 1, 1}) \in 1 .. Len(b)
  <2>1. Max({k - 1, 1}) = IF k - 1 >= 1 THEN k - 1 ELSE 1
    BY DEF Max
  <2> QED BY <2>1 DEF Grows
<1>2. c[k] = b[k] /\ c[Max({k - 1, 1})] = b[Max({k - 1, 1})]
  BY <1>1 DEF Grows
<1> QED BY <1>2 DEF TrueRange

\* The ATR at a bar is that of the bars up to it.
LEMMA AtrStands ==
    ASSUME NEW b, NEW c, Grows(b, c), Len(b) >= 2, NEW k \in 1 .. Len(b)
    PROVE  Atr(c, k) = Atr(b, k)
<1>1. PICK f : Averages(f, b, k) /\ Atr(b, k) = f[k]
  BY AtrStepByStep DEF Grows
<1>2. PICK g : Averages(g, c, k) /\ Atr(c, k) = g[k]
  <2>1. c \in Seq(Candles) /\ k \in 1 .. Len(c) /\ Len(c) >= 2
    BY DEF Grows
  <2> QED BY <2>1, AtrStepByStep
<1> DEFINE P == {j \in 0 .. k : j = 0 \/ f[j] = g[j]}
<1>3. k \in Nat /\ 1 <= k /\ Len(b) \in Nat /\ k <= Len(b)
  BY DEF Grows
<1>4. 0 \in P
  BY <1>3
<1>5. \A j \in 0 .. k - 1 : j \in P => j + 1 \in P
  <2> SUFFICES ASSUME NEW j \in 0 .. k - 1, j = 0 \/ f[j] = g[j]
               PROVE  f[j + 1] = g[j + 1] /\ j + 1 \in 0 .. k
    OBVIOUS
  <2>1. j + 1 \in 0 .. k /\ j + 1 \in 1 .. Len(b) /\ (j # 0 => j + 1 \in 2 .. k) /\ j + 1 - 1 = j
    BY <1>3
  <2>2. TrueRange(c, j + 1) = TrueRange(b, j + 1)
    BY <2>1, TrueRangeStands
  <2>3. CASE j = 0
    BY <1>1, <1>2, <2>1, <2>2, <2>3 DEF Averages
  <2>4. CASE j # 0
    <3>1. f[j + 1] = Averaged(b, j + 1, f[j]) /\ g[j + 1] = Averaged(c, j + 1, g[j])
      BY <1>1, <1>2, <2>1, <2>4 DEF Averages
    <3> QED BY <2>1, <2>2, <2>4, <3>1 DEF Averaged
  <2> QED BY <2>3, <2>4
<1> HIDE DEF P
<1>6. \A j \in 0 .. k : j \in P
  BY <1>3, <1>4, <1>5, UpTo
<1>7. f[k] = g[k]
  BY <1>3, <1>6 DEF P
<1> QED BY <1>1, <1>2, <1>7

\* A swing that is confirmed stays one, and no other comes up beside it.
LEMMA SwingsStand ==
    ASSUME NEW b, NEW c, Grows(b, c), NEW j \in Int, j + SwingLookback <= Len(b), NEW d
    PROVE  (j \in Swings(c, d) <=> j \in Swings(b, d)) /\ (j \in Swings(b, d) => j \in 1 .. Len(b))
<1>1. Len(b) \in Nat /\ Len(c) = Len(b) + 1
  BY DEF Grows
<1>2. j \in Centres(c) <=> j \in Centres(b)
  BY <1>1, ChartSpans DEF Centres
<1>3. j \in Centres(b) => j \in 1 .. Len(b) /\ \A k \in Around(j) : k \in 1 .. Len(b)
  BY <1>1, ChartSpans DEF Centres, Around
<1>4. j \in Centres(b) => c[j] = b[j] /\ \A k \in Around(j) : c[k] = b[k]
  BY <1>3 DEF Grows
<1>5. j \in SwingHighs(c) <=> j \in SwingHighs(b)
  BY <1>2, <1>4 DEF SwingHighs
<1>6. j \in SwingLows(c) <=> j \in SwingLows(b)
  BY <1>2, <1>4 DEF SwingLows
<1>7. j \in SwingHighs(b) \/ j \in SwingLows(b) => j \in 1 .. Len(b)
  BY <1>3 DEF SwingHighs, SwingLows
<1> QED BY <1>5, <1>6, <1>7 DEF Swings

\* What a bar swept, it has swept.
LEMMA SweptStands ==
    ASSUME NEW b, NEW c, Grows(b, c), Len(b) >= 2, NEW i \in 1 .. Len(b), NEW d \in {1, -1}
    PROVE  /\ Swept(c, i, d) = Swept(b, i, d)
           /\ Swept(b, i, d) # {} => SweepOf(c, i, d) = SweepOf(b, i, d)
<1> DEFINE sweeps(e, j) ==
        LET pierce == Beyond(e, i, d, LevelAt(e, j, d))
            atr == AtrAt(e, i)
        IN  /\ atr > 0 /\ j <= ConfirmedBy(i) /\ i - j <= MaxLevelAge
            /\ pierce > 0 /\ 5 * atr <= 100 * pierce /\ 100 * pierce <= 120 * atr
            /\ Back(e, i, d, LevelAt(e, j, d)) > 0
            /\ 100 * Rejection(e, i, d) >= 66 * (e[i].high - e[i].low)
<1>1. Len(b) \in Nat /\ Len(c) = Len(b) + 1 /\ c[i] = b[i] /\ b \in Seq(Candles) /\ c \in Seq(Candles)
  BY DEF Grows
<1>2. AtrAt(c, i) = AtrAt(b, i)
  BY AtrStands DEF AtrAt
<1>3. \A e \in {b, c} : Swings(e, d) \subseteq 1 .. Len(e)
  BY <1>1, SwingsAreBars DEF Swings
<1>4. \A e \in {b, c} : \A j \in Swings(e, d) : j <= ConfirmedBy(i) => j \in Int /\ j + SwingLookback <= Len(b)
  <2> SUFFICES ASSUME NEW e \in {b, c}, NEW j \in Swings(e, d), j <= ConfirmedBy(i)
               PROVE  j \in Int /\ j + SwingLookback <= Len(b)
    OBVIOUS
  <2>1. j \in Int
    BY <1>3
  <2> QED BY <1>1, <2>1, ChartSpans DEF ConfirmedBy
<1>5. \A j \in 1 .. Len(b) : sweeps(c, j) <=> sweeps(b, j)
  <2> SUFFICES ASSUME NEW j \in 1 .. Len(b) PROVE sweeps(c, j) <=> sweeps(b, j)
    OBVIOUS
  <2>1. c[j] = b[j]
    BY DEF Grows
  <2>2. LevelAt(c, j, d) = LevelAt(b, j, d)
    BY <2>1 DEF LevelAt
  <2>3. /\ Beyond(c, i, d, LevelAt(c, j, d)) = Beyond(b, i, d, LevelAt(b, j, d))
        /\ Back(c, i, d, LevelAt(c, j, d)) = Back(b, i, d, LevelAt(b, j, d))
        /\ Rejection(c, i, d) = Rejection(b, i, d)
    BY <1>1, <2>2 DEF Beyond, Back, Rejection
  <2> QED BY <1>1, <1>2, <2>3
<1>6. \A e : \A j : sweeps(e, j) => j <= ConfirmedBy(i)
  OBVIOUS
<1>7. \A e : Swept(e, i, d) = {j \in Swings(e, d) : sweeps(e, j)}
  BY DEF Swept
<1> HIDE DEF sweeps
<1>8. \A j \in Swept(c, i, d) : j \in Swept(b, i, d)
  <2> SUFFICES ASSUME NEW j \in Swept(c, i, d) PROVE j \in Swept(b, i, d)
    OBVIOUS
  <2>1. j \in Swings(c, d) /\ sweeps(c, j)
    BY <1>7
  <2>2. j \in Int /\ j + SwingLookback <= Len(b)
    BY <1>4, <1>6, <2>1
  <2>3. j \in Swings(b, d) /\ j \in 1 .. Len(b)
    BY <2>1, <2>2, SwingsStand
  <2> QED BY <1>5, <1>7, <2>1, <2>3
<1>9. \A j \in Swept(b, i, d) : j \in Swept(c, i, d)
  <2> SUFFICES ASSUME NEW j \in Swept(b, i, d) PROVE j \in Swept(c, i, d)
    OBVIOUS
  <2>1. j \in Swings(b, d) /\ sweeps(b, j)
    BY <1>7
  <2>2. j \in Int /\ j + SwingLookback <= Len(b)
    BY <1>4, <1>6, <2>1
  <2>3. j \in Swings(c, d) /\ j \in 1 .. Len(b)
    BY <2>1, <2>2, SwingsStand
  <2> QED BY <1>5, <1>7, <2>1, <2>3
<1>10. Swept(c, i, d) = Swept(b, i, d)
  BY <1>8, <1>9
<1>11. Swept(b, i, d) # {} => LevelAt(c, Max(Swept(c, i, d)), d) = LevelAt(b, Max(Swept(b, i, d)), d)
  <2> SUFFICES ASSUME Swept(b, i, d) # {}
               PROVE  LevelAt(c, Max(Swept(b, i, d)), d) = LevelAt(b, Max(Swept(b, i, d)), d)
    BY <1>10
  <2>1. Swept(b, i, d) \subseteq 0 .. Len(b) /\ Swept(b, i, d) \subseteq 1 .. Len(b)
    BY <1>1, <1>3, <1>7
  <2>2. Max(Swept(b, i, d)) \in Swept(b, i, d)
    BY <1>1, <2>1, Extremes
  <2>3. c[Max(Swept(b, i, d))] = b[Max(Swept(b, i, d))]
    BY <2>1, <2>2 DEF Grows
  <2> QED BY <2>3 DEF LevelAt
<1> QED BY <1>1, <1>2, <1>10, <1>11 DEF SweepOf

LEMMA SweepsStand ==
    ASSUME NEW b, NEW c, Grows(b, c)
    PROVE  Sweeps(b) \subseteq Sweeps(c)
<1> SUFFICES ASSUME NEW s \in Sweeps(b) PROVE s \in Sweeps(c)
  OBVIOUS
<1>1. Len(b) \in Nat /\ Len(c) = Len(b) + 1
  BY DEF Grows
<1>2. SweepBars \in Nat /\ SwingLookback \in Nat /\ SwingLookback > 0
  BY ChartSpans
<1>3. ~(Len(b) < SweepBars) /\ ~(Len(c) < SweepBars)
  BY <1>1, <1>2 DEF Sweeps
<1>4. PICK i \in 2 * SwingLookback + 1 .. Len(b), d \in {1, -1} : Swept(b, i, d) # {} /\ s = SweepOf(b, i, d)
  BY DEF Sweeps
<1>5. i \in 1 .. Len(b) /\ Len(b) >= 2 /\ i \in 2 * SwingLookback + 1 .. Len(c)
  BY <1>1, <1>2
<1>6. Swept(c, i, d) # {} /\ s = SweepOf(c, i, d)
  BY <1>4, <1>5, SweptStands
<1>7. Sweeps(c) = UNION {{SweepOf(c, k, e) : e \in {e \in {1, -1} : Swept(c, k, e) # {}}} :
                            k \in 2 * SwingLookback + 1 .. Len(c)}
  BY <1>3 DEF Sweeps
<1> QED BY <1>5, <1>6, <1>7

\* The window that ends with a bar is over when the bar is.
LEMMA WindowStands ==
    ASSUME NEW b, NEW c, Grows(b, c), NEW i \in 1 .. Len(b)
    PROVE  WindowAt(c, i) = WindowAt(b, i)
<1> DEFINE first == Max({1, i + 1 - StructureWindow})
<1>1. first \in 1 .. i /\ i \in Int /\ Len(b) \in Nat /\ i <= Len(b)
  <2>1. first = IF i + 1 - StructureWindow >= 1 THEN i + 1 - StructureWindow ELSE 1
    BY ChartSpans DEF Max, Grows
  <2> QED BY <2>1, ChartSpans DEF Grows
<1> HIDE DEF first
<1>2. \A k \in 1 .. i - first + 1 : first + k - 1 \in 1 .. Len(b)
  BY <1>1
<1>3. \A k \in 1 .. i - first + 1 : c[first + k - 1] = b[first + k - 1]
  BY <1>2 DEF Grows
<1>4. \A e \in {b, c} : SubSeq(e, first, i) = [k \in 1 .. i - first + 1 |-> e[first + k - 1]]
  BY <1>1 DEF Grows
<1>5. SubSeq(c, first, i) = SubSeq(b, first, i)
  BY <1>3, <1>4
<1> QED BY <1>5 DEF WindowAt, first

\* What ended a trade has ended it.
LEMMA ResolvedStands ==
    ASSUME NEW b, NEW c, Grows(b, c), NEW t, t.sweep.bar \in 1 .. Len(b), Resolved(b, t) # "timeout"
    PROVE  Resolved(c, t) = Resolved(b, t)
<1> DEFINE Ends(e) == {j \in t.sweep.bar + 1 .. Min({t.sweep.bar + MaxToResolve, Len(e)}) :
                         HitsTarget(e, j, t) \/ HitsStop(e, j, t)}
           outcome(e) == CASE Ends(e) = {} -> "timeout"
                           [] Ends(e) # {} /\ HitsStop(e, Min(Ends(e)), t) -> "stop"
                           [] OTHER -> "target"
<1>1. /\ Len(b) \in Nat /\ Len(c) = Len(b) + 1 /\ MaxToResolve \in Nat
      /\ t.sweep.bar \in Nat /\ 1 <= t.sweep.bar
  BY ChartSpans DEF Grows
<1>2. \A e : Resolved(e, t) = outcome(e)
  BY DEF Resolved
<1>3. \A j \in 1 .. Len(b) : /\ HitsTarget(c, j, t) <=> HitsTarget(b, j, t)
                             /\ HitsStop(c, j, t) <=> HitsStop(b, j, t)
  BY DEF HitsTarget, HitsStop, Grows
<1>4. \A n \in Nat : /\ Min({t.sweep.bar + MaxToResolve, n}) \in Nat
                     /\ \A j \in Int : j <= Min({t.sweep.bar + MaxToResolve, n})
                                       <=> j <= t.sweep.bar + MaxToResolve /\ j <= n
  <2>1. t.sweep.bar + MaxToResolve \in Nat
    BY <1>1
  <2> QED BY <2>1, LeastOfTwo
<1>5. \A e \in {b, c} : \A j : j \in Ends(e) <=>
          /\ j \in Int /\ t.sweep.bar + 1 <= j /\ j <= t.sweep.bar + MaxToResolve /\ j <= Len(e)
          /\ (HitsTarget(e, j, t) \/ HitsStop(e, j, t))
  BY <1>1, <1>4
<1> HIDE DEF Ends
<1>6. \A j \in Ends(b) : j \in 1 .. Len(b) /\ j \in Ends(c)
  BY <1>1, <1>3, <1>5
<1>7. \A j \in Ends(c) : j \in 0 .. Len(b) + 1 /\ (j \in Ends(b) \/ j = Len(b) + 1)
  BY <1>1, <1>3, <1>5
<1>8. Ends(b) # {}
  BY <1>2
<1>9. Min(Ends(b)) \in Ends(b) /\ \A k \in Ends(b) : Min(Ends(b)) <= k
  <2>1. Ends(b) \subseteq 0 .. Len(b)
    BY <1>1, <1>6
  <2> QED BY <1>1, <1>8, <2>1, Extremes
<1>10. Min(Ends(c)) \in Ends(c) /\ \A k \in Ends(c) : Min(Ends(c)) <= k
  <2>1. Ends(c) \subseteq 0 .. Len(b) + 1 /\ Ends(c) # {} /\ Len(b) + 1 \in Nat
    BY <1>1, <1>6, <1>7, <1>8
  <2> QED BY <2>1, Extremes
<1>11. Min(Ends(c)) = Min(Ends(b))
  BY <1>1, <1>6, <1>7, <1>9, <1>10
<1>12. HitsStop(c, Min(Ends(c)), t) <=> HitsStop(b, Min(Ends(b)), t)
  BY <1>3, <1>6, <1>9, <1>11
<1>13. Ends(c) # {}
  BY <1>6, <1>8
<1> QED BY <1>2, <1>8, <1>12, <1>13

\* A trade that is labelled is one that a sweep reported on the chart makes.
LEMMA LabelsStand ==
    ASSUME NEW b, NEW c, Grows(b, c), NEW o \in Labelled(b)
    PROVE  \E n \in Labelled(c) : n.trade = o.trade /\ (o.resolved # "timeout" => n.resolved = o.resolved)
<1>1. Len(b) \in Nat /\ Len(c) = Len(b) + 1 /\ LabelBars \in Nat /\ b \in Seq(Candles)
  BY ChartSpans DEF Grows
<1>2. ~(Len(b) < LabelBars) /\ ~(Len(c) < LabelBars)
  BY <1>1 DEF Labelled
<1>3. PICK s \in Sweeps(b) : \E t \in TradeOn(s, WindowAt(b, s.bar)) :
          s.bar <= Len(b) - 2 /\ o = [trade |-> t, resolved |-> Resolved(b, t)]
  BY <1>2 DEF Labelled
<1>4. PICK t \in TradeOn(s, WindowAt(b, s.bar)) :
          s.bar <= Len(b) - 2 /\ o = [trade |-> t, resolved |-> Resolved(b, t)]
  BY <1>3
<1>5. s \in Sweeps(c)
  BY SweepsStand
<1>6. s.bar \in 1 .. Len(b)
  BY <1>1, SweepIsTyped DEF SweepFacts
<1>7. t \in TradeOn(s, WindowAt(c, s.bar)) /\ t.sweep = s
  <2>1. WindowAt(c, s.bar) = WindowAt(b, s.bar)
    BY <1>6, WindowStands
  <2>2. t.sweep = s
    BY DEF TradeOn
  <2> QED BY <2>1, <2>2
<1>8. s.bar <= Len(c) - 2
  BY <1>1, <1>4, <1>6
<1> DEFINE n == [trade |-> t, resolved |-> Resolved(c, t)]
<1>9. n \in Labelled(c)
  BY <1>2, <1>5, <1>7, <1>8 DEF Labelled
<1>10. o.resolved # "timeout" => n.resolved = o.resolved
  BY <1>4, <1>6, <1>7, ResolvedStands
<1> QED BY <1>4, <1>9, <1>10

\* NothingRedrawn: a sweep once reported and a trade once resolved are what they are on every
\* longer chart (find_sweeps, label_sweeps).
THEOREM NothingRedrawnTheorem == ChartsSpec => NothingRedrawn
<1> DEFINE Stands == /\ reported \subseteq reported'
                     /\ \A o \in labelled : \E n \in labelled' :
                           /\ n.trade = o.trade
                           /\ o.resolved # "timeout" => n.resolved = o.resolved
<1>1. ChartInv /\ [ChartsNext]_chartVars => [Stands]_chartVars
  <2> SUFFICES ASSUME ChartInv, NEW bar \in Candles, BarCloses(bar) PROVE Stands
    BY DEF ChartsNext
  <2>1. reported = Sweeps(chart) /\ labelled = Labelled(chart)
        /\ reported' = Sweeps(chart') /\ labelled' = Labelled(chart')
    BY DEF ChartInv, BarCloses
  <2>2. Grows(chart, chart')
    BY BarAdded DEF ChartInv, BarCloses, Grows
  <2>3. Sweeps(chart) \subseteq Sweeps(chart')
    BY <2>2, SweepsStand
  <2>4. \A o \in Labelled(chart) : \E n \in Labelled(chart') :
            n.trade = o.trade /\ (o.resolved # "timeout" => n.resolved = o.resolved)
    BY <2>2, LabelsStand
  <2> QED BY <2>1, <2>3, <2>4
<1> QED BY <1>1, ChartInvariant, PTL DEF ChartsSpec, NothingRedrawn
=============================================================================
