----------------------------- MODULE DataProofs -----------------------------
(***************************************************************************)
(* What the functions on data compute, for every input: the sums, orders   *)
(* and alarms of Usage for any table, the bytes and lines of Encoding for  *)
(* any logs.  Most of them are recursive, so a large part of this module   *)
(* is about recursive definitions in general.                              *)
(***************************************************************************)
EXTENDS Encoding, Usage, FiniteSetTheorems, SequenceTheorems, WellFoundedInduction, TLAPS

-----------------------------------------------------------------------------
(***************************************************************************)
(* Induction.  The library states it for operators, which cannot be        *)
(* instantiated here; for sets it follows from the fact that the natural   *)
(* numbers are well ordered.                                               *)
(***************************************************************************)

\* The natural numbers are well ordered.
LEMMA LeastNumber ==
  ASSUME NEW T \in SUBSET Nat, T # {}
  PROVE  \E m \in T : \A k \in T : m <= k
<1> DEFINE R == OpToRel(<, Nat)
<1>1. IsWellFoundedOn(R, Nat)
  BY NatLessThanWellFounded
<1>2. \A x, y \in Nat : <<x, y>> \in R <=> x < y
  BY DEF OpToRel
<1> HIDE DEF R
<1>3. PICK m \in T : \A y \in T : <<y, m>> \notin R
  BY <1>1, WFMin
<1>4. ASSUME NEW k \in T PROVE m <= k
  <2>1. m \in Nat /\ k \in Nat
    OBVIOUS
  <2>2. ~(k < m)
    BY <2>1, <1>2, <1>3
  <2> QED
    BY <2>1, <2>2
<1> QED
  BY <1>4

\* Induction over numbers, for a set instead of a predicate.
LEMMA Induction ==
  ASSUME NEW S, 0 \in S, \A n \in Nat : n \in S => n + 1 \in S
  PROVE  \A n \in Nat : n \in S
<1> SUFFICES ASSUME Nat \ S # {} PROVE FALSE
  OBVIOUS
<1>1. PICK m \in Nat \ S : \A k \in Nat \ S : m <= k
  BY LeastNumber
<1>2. m - 1 \in Nat /\ m - 1 \in S
  BY <1>1
<1> QED
  BY <1>1, <1>2

\* The same with all smaller numbers as the hypothesis.
LEMMA StrongInduction ==
  ASSUME NEW S, \A n \in Nat : (\A k \in Nat : k < n => k \in S) => n \in S
  PROVE  \A n \in Nat : n \in S
<1> SUFFICES ASSUME Nat \ S # {} PROVE FALSE
  OBVIOUS
<1>1. PICK m \in Nat \ S : \A k \in Nat \ S : m <= k
  BY LeastNumber
<1>2. \A k \in Nat : k < m => k \in S
  BY <1>1
<1> QED
  BY <1>1, <1>2

\* Induction over the subsets of a finite set, by their cardinality.
LEMMA SetInduction ==
  ASSUME NEW S, IsFiniteSet(S), NEW P,
         {} \in P, \A s \in SUBSET S : \A x \in S \ s : s \in P => s \cup {x} \in P
  PROVE  S \in P
<1> DEFINE T == {n \in Nat : \A s \in SUBSET S : Cardinality(s) = n => s \in P}
<1>1. \A s \in SUBSET S : IsFiniteSet(s) /\ Cardinality(s) \in Nat
  BY FS_Subset, FS_CardinalityType
<1>2. 0 \in T
  BY <1>1, FS_EmptySet
<1>3. ASSUME NEW n \in Nat, n \in T PROVE n + 1 \in T
  <2> SUFFICES ASSUME NEW s \in SUBSET S, Cardinality(s) = n + 1 PROVE s \in P
    OBVIOUS
  <2>0. n + 1 # 0 /\ n + 1 - 1 = n
    OBVIOUS
  <2>1. s # {}
    BY <2>0, FS_EmptySet, Zenon
  <2>2. PICK x \in s : TRUE
    BY <2>1
  <2>3. Cardinality(s \ {x}) = Cardinality(s) - 1
    BY <1>1, FS_RemoveElement, Zenon
  <2>4. s \ {x} \in P
    BY <1>3, <2>0, <2>3
  <2>5. (s \ {x}) \cup {x} \in P
    BY <2>4
  <2>6. (s \ {x}) \cup {x} = s
    OBVIOUS
  <2> QED
    BY <2>5, <2>6
<1> HIDE DEF T
<1>4. Cardinality(S) \in T
  BY <1>1, <1>2, <1>3, Induction
<1> QED
  BY <1>4 DEF T
-----------------------------------------------------------------------------
(***************************************************************************)
(* Recursive definitions have a value: of numbers, where the argument gets *)
(* smaller until it is in Base, and of the subsets of a finite set, where  *)
(* one element after another is picked.                                    *)
(***************************************************************************)

NumberEquation(f, N, Base, base, prev, step) ==
  f = [n \in N |-> IF n \in Base THEN base[n] ELSE step[<<n, f[prev[n]]>>]]

\* A function defined by recursion on smaller numbers exists: the functions
\* that satisfy the equation up to some number agree with one another.
LEMMA NumberRecursion ==
  ASSUME NEW Base, NEW base, NEW prev, NEW step,
         \A n \in Nat \ Base : prev[n] \in Nat /\ prev[n] < n
  PROVE  \E f : NumberEquation(f, Nat, Base, base, prev, step)
<1> DEFINE Eq(f, m) == NumberEquation(f, 0 .. m, Base, base, prev, step)
           Value(f, n) == IF n \in Base THEN base[n] ELSE step[<<n, f[prev[n]]>>]
<1>1. ASSUME NEW m \in Nat, NEW f, Eq(f, m), NEW n \in 0 .. m
      PROVE  f[n] = Value(f, n)
  <2>1. [k \in 0 .. m |-> Value(f, k)][n] = Value(f, n)
    OBVIOUS
  <2>2. f = [k \in 0 .. m |-> Value(f, k)]
    BY <1>1 DEF NumberEquation
  <2> QED
    BY <2>1, <2>2, Zenon
<1>2. ASSUME NEW m \in Nat, NEW f, NEW k \in Nat, NEW g, Eq(f, m), Eq(g, k)
      PROVE  \A n \in Nat : n <= m /\ n <= k => f[n] = g[n]
  <2> DEFINE S == {n \in Nat : n <= m /\ n <= k => f[n] = g[n]}
  <2>1. ASSUME NEW n \in Nat, \A j \in Nat : j < n => j \in S PROVE n \in S
    <3> SUFFICES ASSUME n <= m, n <= k PROVE f[n] = g[n]
      OBVIOUS
    <3>1. f[n] = Value(f, n) /\ g[n] = Value(g, n)
      <4>1. n \in 0 .. m /\ n \in 0 .. k
        OBVIOUS
      <4> HIDE DEF Value, Eq
      <4> QED
        BY <4>1, <1>1, <1>2
    <3>2. CASE n \in Base
      BY <3>1, <3>2
    <3>3. CASE n \notin Base
      <4>1. prev[n] \in Nat /\ prev[n] < n /\ prev[n] <= m /\ prev[n] <= k
        BY <3>3
      <4>2. f[prev[n]] = g[prev[n]]
        BY <4>1, <2>1
      <4> QED
        BY <3>1, <3>3, <4>2
    <3> QED
      BY <3>2, <3>3
  <2> HIDE DEF S
  <2>2. \A n \in Nat : n \in S
    BY <2>1, StrongInduction
  <2> QED
    BY <2>2 DEF S
<1>3. \A m \in Nat : \E f : Eq(f, m)
  <2> DEFINE S == {m \in Nat : \E f : Eq(f, m)}
  <2> DEFINE start == [n \in 0 .. 0 |-> Value(base, n)]
  <2>1. 0 \in S
    <3>1. ASSUME 0 \in Base PROVE Eq([n \in 0 .. 0 |-> base[0]], 0)
      <4> DEFINE f == [n \in 0 .. 0 |-> base[0]]
      <4>1. \A n \in 0 .. 0 : n = 0
        OBVIOUS
      <4>2. f = [n \in 0 .. 0 |-> Value(f, n)]
        BY <3>1, <4>1
      <4> QED
        BY <4>2 DEF NumberEquation
    <3>2. 0 \in Base
      BY 0 \in Nat
    <3> QED
      BY <3>1, <3>2
  <2>2. ASSUME NEW m \in Nat, m \in S PROVE m + 1 \in S
    <3>1. PICK g : Eq(g, m)
      BY <2>2
    <3> DEFINE h == [n \in 0 .. m + 1 |-> Value(g, n)]
    <3>2. \A n \in 0 .. m : h[n] = g[n]
      <4> SUFFICES ASSUME NEW n \in 0 .. m PROVE h[n] = g[n]
        OBVIOUS
      <4>1. n \in 0 .. m + 1
        OBVIOUS
      <4>2. h[n] = Value(g, n)
        BY <4>1
      <4> QED
        BY <4>2, <3>1, <1>1
    <3>3. \A n \in 0 .. m + 1 : Value(g, n) = Value(h, n)
      <4> SUFFICES ASSUME NEW n \in 0 .. m + 1 PROVE Value(g, n) = Value(h, n)
        OBVIOUS
      <4>1. CASE n \in Base
        BY <4>1
      <4>2. CASE n \notin Base
        <5>1. prev[n] \in 0 .. m
          BY <4>2
        <5>2. h[prev[n]] = g[prev[n]]
          BY <5>1, <3>2
        <5> HIDE DEF h
        <5> QED
          BY <4>2, <5>2
      <4> QED
        BY <4>1, <4>2
    <3>4. h = [n \in 0 .. m + 1 |-> Value(h, n)]
      <4> HIDE DEF Value
      <4> QED
        BY <3>3, Zenon
    <3>5. Eq(h, m + 1)
      BY <3>4 DEF NumberEquation
    <3> QED
      BY <3>5
  <2> HIDE DEF S
  <2>3. \A m \in Nat : m \in S
    BY <2>1, <2>2, Induction
  <2> QED
    BY <2>3 DEF S
<1> DEFINE G(m) == CHOOSE f : Eq(f, m)
           F == [n \in Nat |-> G(n)[n]]
<1>4. \A m \in Nat : Eq(G(m), m)
  <2> HIDE DEF Eq
  <2> QED
    BY <1>3
<1>5. ASSUME NEW n \in Nat PROVE F[n] = Value(F, n)
  <2>1. F[n] = Value(G(n), n)
    <3>1. n \in 0 .. n /\ F[n] = G(n)[n]
      OBVIOUS
    <3> HIDE DEF G, F, Value, Eq
    <3> QED
      BY <3>1, <1>4, <1>1
  <2>2. CASE n \in Base
    BY <2>1, <2>2
  <2>3. CASE n \notin Base
    <3>1. prev[n] \in Nat /\ prev[n] <= n
      BY <2>3
    <3>2. F[prev[n]] = G(prev[n])[prev[n]]
      BY <3>1
    <3>3. G(prev[n])[prev[n]] = G(n)[prev[n]]
      <4>1. prev[n] <= prev[n]
        BY <3>1
      <4> HIDE DEF G, F, Value, Eq
      <4> QED
        BY <3>1, <4>1, <1>2, <1>4
    <3> HIDE DEF G, F
    <3> QED
      BY <2>1, <2>3, <3>2, <3>3
  <2> QED
    BY <2>2, <2>3
<1>6. F = [n \in Nat |-> Value(F, n)]
  <2>1. F = [n \in Nat |-> F[n]]
    OBVIOUS
  <2> HIDE DEF Value, F
  <2> QED
    BY <2>1, <1>5, Zenon
<1> QED
  <2>1. NumberEquation(F, Nat, Base, base, prev, step)
    <3> HIDE DEF F
    <3> QED
      BY <1>6 DEF NumberEquation
  <2> HIDE DEF F
  <2> QED
    BY <2>1

SetEquation(f, D, base, pick, step) ==
  f = [s \in D |-> IF s = {} THEN base ELSE step[<<pick[s], f[s \ {pick[s]}]>>]]

Picks(pick, S) == \A s \in SUBSET S : s # {} => pick[s] \in s
StaysIn(step, S, V) == \A x \in S, v \in V : step[<<x, v>>] \in V
Recursive(f, S, base, pick, step) ==
  /\ f[{}] = base
  /\ \A s \in SUBSET S : s # {} => f[s] = step[<<pick[s], f[s \ {pick[s]}]>>]

\* A function defined by taking elements out of a finite set exists.
LEMMA SetRecursion ==
  ASSUME NEW S, IsFiniteSet(S), NEW base, NEW pick, NEW step,
         Picks(pick, S)
  PROVE  \E f : f = [s \in SUBSET S |-> f[s]] /\ Recursive(f, S, base, pick, step)
<1> DEFINE Small(m) == {s \in SUBSET S : Cardinality(s) <= m}
           Value(f, s) == IF s = {} THEN base ELSE step[<<pick[s], f[s \ {pick[s]}]>>]
           T == {m \in Nat : \E f : SetEquation(f, Small(m), base, pick, step)}
<1>1. \A s \in SUBSET S : IsFiniteSet(s) /\ Cardinality(s) \in Nat
  BY FS_Subset, FS_CardinalityType
<1>2. \A s \in SUBSET S : s # {} => /\ s \ {pick[s]} \in SUBSET S
                                    /\ Cardinality(s \ {pick[s]}) = Cardinality(s) - 1
  BY <1>1, FS_RemoveElement DEF Picks
<1>3. 0 \in T
  <2> DEFINE f == [s \in Small(0) |-> base]
  <2>1. \A s \in Small(0) : s = {}
    BY <1>1, FS_EmptySet
  <2>2. f = [s \in Small(0) |-> Value(f, s)]
    BY <2>1
  <2>3. SetEquation(f, Small(0), base, pick, step)
    BY <2>2 DEF SetEquation
  <2> QED
    BY <2>3
<1>4. ASSUME NEW m \in Nat, m \in T PROVE m + 1 \in T
  <2>1. PICK g : SetEquation(g, Small(m), base, pick, step)
    BY <1>4
  <2> DEFINE h == [s \in Small(m + 1) |-> Value(g, s)]
  <2>2. \A s \in Small(m) : g[s] = Value(g, s)
    <3> DEFINE v == [s \in Small(m) |-> Value(g, s)]
    <3>1. \A s \in Small(m) : v[s] = Value(g, s)
      OBVIOUS
    <3>2. g = v
      BY <2>1 DEF SetEquation
    <3> HIDE DEF v, Small, Value
    <3> QED
      BY <3>1, <3>2
  <2>3. \A s \in Small(m) : h[s] = g[s]
    <3>1. \A s \in Small(m) : s \in Small(m + 1)
      BY <1>1
    <3> HIDE DEF Small, Value
    <3> QED
      BY <2>2, <3>1
  <2>4. \A s \in Small(m + 1) : Value(g, s) = Value(h, s)
    <3> SUFFICES ASSUME NEW s \in Small(m + 1), s # {} PROVE Value(g, s) = Value(h, s)
      BY Zenon
    <3>1. s \ {pick[s]} \in Small(m)
      BY <1>1, <1>2
    <3>2. h[s \ {pick[s]}] = g[s \ {pick[s]}]
      BY <3>1, <2>3
    <3> HIDE DEF h
    <3> QED
      BY <3>2
  <2>5. h = [s \in Small(m + 1) |-> Value(h, s)]
    <3> HIDE DEF Value
    <3> QED
      BY <2>4, Zenon
  <2>6. SetEquation(h, Small(m + 1), base, pick, step)
    <3> HIDE DEF h
    <3> QED
      BY <2>5 DEF SetEquation
  <2> HIDE DEF h, Small
  <2> QED
    BY <2>6
<1>5. Cardinality(S) \in T
  <2> HIDE DEF T
  <2> QED
    BY <1>1, <1>3, <1>4, Induction
<1>6. Small(Cardinality(S)) = SUBSET S
  <2>1. \A s \in SUBSET S : Cardinality(s) <= Cardinality(S)
    BY FS_Subset
  <2> QED
    BY <2>1
<1>7. PICK f : SetEquation(f, Small(Cardinality(S)), base, pick, step)
  BY <1>5
<1>8. f = [s \in SUBSET S |-> Value(f, s)]
  BY <1>6, <1>7 DEF SetEquation
<1>9. \A s \in SUBSET S : f[s] = Value(f, s)
  <2> DEFINE v == [s \in SUBSET S |-> Value(f, s)]
  <2>1. \A s \in SUBSET S : v[s] = Value(f, s)
    OBVIOUS
  <2> HIDE DEF v, Value
  <2>2. f = v
    BY <1>8 DEF v
  <2> QED
    BY <2>1, <2>2
<1>10. Recursive(f, S, base, pick, step)
  BY <1>9 DEF Recursive
<1>11. f = [s \in SUBSET S |-> f[s]]
  <2> HIDE DEF Value
  <2> QED
    BY <1>8
<1> QED
  BY <1>10, <1>11

\* What the equation says of one number.
LEMMA NumberEquationAt ==
  ASSUME NEW N, NEW f, NEW Base, NEW base, NEW prev, NEW step,
         NumberEquation(f, N, Base, base, prev, step), NEW n \in N
  PROVE  f[n] = IF n \in Base THEN base[n] ELSE step[<<n, f[prev[n]]>>]
<1> DEFINE Value(k) == IF k \in Base THEN base[k] ELSE step[<<k, f[prev[k]]>>]
<1>1. [k \in N |-> Value(k)][n] = Value(n)
  OBVIOUS
<1>2. f = [k \in N |-> Value(k)]
  BY DEF NumberEquation
<1> HIDE DEF Value
<1>3. f[n] = Value(n)
  BY <1>1, <1>2
<1> QED
  BY <1>3 DEF Value

\* A recursive definition stays in the set its steps stay in.
LEMMA TypedSolution ==
  ASSUME NEW S, IsFiniteSet(S), NEW V, NEW pick, NEW f,
         Picks(pick, S), f[{}] \in V,
         \A s \in SUBSET S : s # {} /\ f[s \ {pick[s]}] \in V => f[s] \in V
  PROVE  \A s \in SUBSET S : f[s] \in V
<1> DEFINE T == {m \in Nat : \A s \in SUBSET S : Cardinality(s) = m => f[s] \in V}
<1>1. \A s \in SUBSET S : IsFiniteSet(s) /\ Cardinality(s) \in Nat
  BY FS_Subset, FS_CardinalityType
<1>2. ASSUME NEW m \in Nat, \A k \in Nat : k < m => k \in T PROVE m \in T
  <2> SUFFICES ASSUME NEW s \in SUBSET S, Cardinality(s) = m, s # {} PROVE f[s] \in V
    OBVIOUS
  <2>1. pick[s] \in s /\ s \ {pick[s]} \in SUBSET S
    BY DEF Picks
  <2>2. Cardinality(s \ {pick[s]}) = m - 1
    BY <1>1, <2>1, FS_RemoveElement
  <2>3. m - 1 \in Nat /\ m - 1 < m
    BY <1>1, <2>1, <2>2
  <2>4. f[s \ {pick[s]}] \in V
    BY <1>2, <2>1, <2>2, <2>3
  <2> QED
    BY <2>4
<1>3. \A m \in Nat : m \in T
  <2> HIDE DEF T
  <2> QED
    BY <1>2, StrongInduction
<1> QED
  BY <1>1, <1>3

\* If the step stays in a set of values, so does the function.
LEMMA TypedRecursion ==
  ASSUME NEW S, IsFiniteSet(S), NEW V, NEW base \in V, NEW pick, NEW step,
         Picks(pick, S), StaysIn(step, S, V)
  PROVE  \E f \in [SUBSET S -> V] : Recursive(f, S, base, pick, step)
<1>1. PICK f : f = [s \in SUBSET S |-> f[s]] /\ Recursive(f, S, base, pick, step)
  BY SetRecursion
<1>2. ASSUME NEW s \in SUBSET S, s # {}, f[s \ {pick[s]}] \in V PROVE f[s] \in V
  <2>1. pick[s] \in S
    BY <1>2 DEF Picks
  <2> QED
    BY <1>1, <1>2, <2>1 DEF Recursive, StaysIn
<1>3. f[{}] \in V
  BY <1>1 DEF Recursive
<1>4. \A s \in SUBSET S : f[s] \in V
  BY <1>2, <1>3, TypedSolution
<1>5. f \in [SUBSET S -> V]
  BY <1>1, <1>4
<1> QED
  BY <1>1, <1>5

\* A set of numbers that is bounded and not empty has a largest element.
LEMMA LargestNumber ==
  ASSUME NEW n \in Nat, NEW T \in SUBSET (0 .. n), T # {}
  PROVE  Max(T) \in T /\ \A k \in T : k <= Max(T)
<1> DEFINE U == {n - k : k \in T}
<1>1. U \in SUBSET Nat /\ U # {}
  OBVIOUS
<1>2. PICK m \in U : \A k \in U : m <= k
  <2> HIDE DEF U
  <2> QED
    BY <1>1, LeastNumber
<1>3. \E x \in T : \A k \in T : x >= k
  <2>1. PICK x \in T : m = n - x
    BY <1>2
  <2>2. \A k \in T : n - x <= n - k
    BY <1>2, <2>1
  <2>3. \A k \in T : k \in 0 .. n
    OBVIOUS
  <2>4. \A k \in T : x >= k
    BY <2>2, <2>3
  <2> QED
    BY <2>4
<1>4. Max(T) \in T /\ \A k \in T : Max(T) >= k
  BY <1>3 DEF Max
<1>5. \A k \in T : k \in Int
  OBVIOUS
<1> QED
  BY <1>4, <1>5

\* A set of numbers that is not empty has a smallest element.
LEMMA SmallestNumber ==
  ASSUME NEW T \in SUBSET Nat, T # {}
  PROVE  Min(T) \in T /\ \A k \in T : Min(T) <= k
<1>1. \E x \in T : \A k \in T : x <= k
  BY LeastNumber
<1> QED
  BY <1>1 DEF Min

-----------------------------------------------------------------------------
Sum(f, S) == MapThenSumSet(LAMBDA x : f[x], S)

SumsUp(g, f, S) ==
  /\ g \in [SUBSET S -> Nat] /\ g[{}] = 0 /\ Sum(f, S) = g[S]
  /\ \A s \in SUBSET S : s # {} =>
       g[s] = f[CHOOSE x \in s : TRUE] + g[s \ {CHOOSE x \in s : TRUE}]

\* MapThenSumSet is a function on the subsets that satisfies its equation.
LEMMA SumIter ==
  ASSUME NEW S, IsFiniteSet(S), NEW f, \A x \in S : f[x] \in Nat
  PROVE  \E g : SumsUp(g, f, S)
<1> DEFINE pick == [s \in SUBSET S |-> CHOOSE x \in s : TRUE]
           step == [p \in S \X Nat |-> f[p[1]] + p[2]]
           Value(h, s) == IF s = {} THEN 0
                            ELSE f[CHOOSE x \in s : TRUE] + h[s \ {CHOOSE x \in s : TRUE}]
           g == CHOOSE h : h = [s \in SUBSET S |-> Value(h, s)]
<1>0. Picks(pick, S)
  BY DEF Picks
<1>1. \A s \in SUBSET S : s # {} => pick[s] \in s /\ pick[s] = CHOOSE x \in s : TRUE
  OBVIOUS
<1>2. \A x \in S, v \in Nat : step[<<x, v>>] = f[x] + v /\ step[<<x, v>>] \in Nat
  OBVIOUS
<1>3. PICK h \in [SUBSET S -> Nat] : Recursive(h, S, 0, pick, step)
  <2>1. StaysIn(step, S, Nat)
    BY <1>2 DEF StaysIn
  <2> HIDE DEF pick, step
  <2> QED
    BY <1>0, <2>1, TypedRecursion
<1>4. \A s \in SUBSET S : h[s] = Value(h, s)
  <2> SUFFICES ASSUME NEW s \in SUBSET S, s # {} PROVE h[s] = Value(h, s)
    BY <1>3 DEF Recursive
  <2>1. pick[s] \in S /\ s \ {pick[s]} \in SUBSET S /\ h[s \ {pick[s]}] \in Nat
    BY <1>1
  <2> HIDE DEF pick, step
  <2> QED
    BY <1>1, <1>2, <1>3, <2>1 DEF Recursive
<1>5. h = [s \in SUBSET S |-> Value(h, s)]
  <2>1. h = [s \in SUBSET S |-> h[s]]
    OBVIOUS
  <2> HIDE DEF Value
  <2> QED
    BY <1>4, <2>1, Zenon
<1>6. g = [s \in SUBSET S |-> Value(g, s)]
  <2> HIDE DEF Value
  <2> QED
    BY <1>5
<1> HIDE DEF g
<1>7. \A s \in SUBSET S : g[s] = Value(g, s)
  <2> DEFINE v == [s \in SUBSET S |-> Value(g, s)]
  <2>1. \A s \in SUBSET S : v[s] = Value(g, s)
    OBVIOUS
  <2> HIDE DEF v, Value
  <2>2. g = v
    BY <1>6 DEF v
  <2> QED
    BY <2>1, <2>2
<1>8. \A s \in SUBSET S : g[s] \in Nat
  <2>1. ASSUME NEW s \in SUBSET S, s # {}, g[s \ {pick[s]}] \in Nat PROVE g[s] \in Nat
    <3>1. pick[s] \in S /\ g[s] = f[pick[s]] + g[s \ {pick[s]}]
      BY <1>1, <1>7, <2>1
    <3> HIDE DEF pick
    <3> QED
      BY <2>1, <3>1
  <2>2. g[{}] \in Nat
    BY <1>7
  <2> HIDE DEF pick
  <2> QED
    BY <1>0, <2>1, <2>2, TypedSolution
<1>9. g \in [SUBSET S -> Nat]
  <2> HIDE DEF Value
  <2> QED
    BY <1>6, <1>8
<1>10. Sum(f, S) = g[S]
  BY DEF Sum, MapThenSumSet, MapThenFoldSet, g
<1> QED
  BY <1>7, <1>9, <1>10 DEF SumsUp
\* A sum of natural numbers is one.
LEMMA SumType ==
  ASSUME NEW S, IsFiniteSet(S), NEW f, \A x \in S : f[x] \in Nat
  PROVE  Sum(f, S) \in Nat
<1>1. PICK g : SumsUp(g, f, S)
  BY SumIter
<1> QED
  BY <1>1 DEF SumsUp

\* Nothing adds up to 0.
LEMMA SumEmpty == ASSUME NEW f PROVE Sum(f, {}) = 0
<1>1. IsFiniteSet({})
  BY FS_EmptySet
<1>2. PICK g : SumsUp(g, f, {})
  BY <1>1, SumIter
<1> QED
  BY <1>2 DEF SumsUp

\* A sum is one of its numbers and the sum of the others.
LEMMA SumPick ==
  ASSUME NEW S, IsFiniteSet(S), S # {}, NEW f, \A x \in S : f[x] \in Nat
  PROVE  \E c \in S : Sum(f, S) = f[c] + Sum(f, S \ {c})
<1> DEFINE c == CHOOSE x \in S : TRUE
           R == S \ {c}
<1>1. PICK g : SumsUp(g, f, S)
  BY SumIter
<1>2. c \in S /\ IsFiniteSet(R) /\ R \in SUBSET S /\ \A x \in R : f[x] \in Nat
  BY FS_Subset
<1>3. PICK h : SumsUp(h, f, R)
  <2> HIDE DEF R
  <2> QED
    BY <1>2, SumIter
<1>4. Sum(f, S) = f[c] + g[R]
  BY <1>1 DEF SumsUp
<1> HIDE DEF R
<1> DEFINE d == [s \in SUBSET R |-> g[s] - h[s]]
           pick == [s \in SUBSET R |-> CHOOSE x \in s : TRUE]
<1>5. Picks(pick, R)
  BY DEF Picks
<1>6. d[{}] \in {0}
  BY <1>1, <1>3 DEF SumsUp
<1>7. ASSUME NEW s \in SUBSET R, s # {}, d[s \ {pick[s]}] \in {0} PROVE d[s] \in {0}
  <2> DEFINE x == CHOOSE y \in s : TRUE
             r == s \ {x}
  <2>1. x \in s /\ s \in SUBSET S /\ r \in SUBSET R /\ r \in SUBSET S
    BY <1>2, <1>7
  <2>2. pick[s] = x
    BY <2>1
  <2>3. d[r] = g[r] - h[r] /\ d[s] = g[s] - h[s]
    BY <2>1
  <2>4. g[s] = f[x] + g[r] /\ h[s] = f[x] + h[r]
    BY <1>1, <1>3, <1>7, <2>1 DEF SumsUp
  <2>5. g[r] \in Nat /\ h[r] \in Nat /\ f[x] \in Nat
    BY <2>1, <1>1, <1>2, <1>3 DEF SumsUp
  <2>6. d[r] = 0
    BY <1>7, <2>2
  <2> HIDE DEF d, x, r
  <2> QED
    BY <2>3, <2>4, <2>5, <2>6
<1>8. \A s \in SUBSET R : d[s] \in {0}
  <2> HIDE DEF d, pick
  <2> QED
    BY <1>2, <1>5, <1>6, <1>7, TypedSolution
<1>9. R \in SUBSET R /\ d[R] = g[R] - h[R] /\ g[R] \in Nat /\ h[R] \in Nat
  BY <1>1, <1>2, <1>3 DEF SumsUp
<1>10. g[R] = h[R]
  <2> HIDE DEF d
  <2> QED
    BY <1>8, <1>9
<1>11. Sum(f, S) = f[c] + Sum(f, R)
  BY <1>3, <1>4, <1>10 DEF SumsUp
<1> QED
  BY <1>2, <1>11 DEF R

\* So it is for each of them: the order in which they are picked is
\* irrelevant.
LEMMA SumRemove ==
  ASSUME NEW S, IsFiniteSet(S), NEW f, \A x \in S : f[x] \in Nat, NEW x \in S
  PROVE  Sum(f, S) = f[x] + Sum(f, S \ {x})
<1> DEFINE T == {n \in Nat : \A s \in SUBSET S : Cardinality(s) = n =>
                               \A y \in s : Sum(f, s) = f[y] + Sum(f, s \ {y})}
<1>1. \A s \in SUBSET S : IsFiniteSet(s) /\ Cardinality(s) \in Nat /\ Sum(f, s) \in Nat
  <2> SUFFICES ASSUME NEW s \in SUBSET S
               PROVE  IsFiniteSet(s) /\ Cardinality(s) \in Nat /\ Sum(f, s) \in Nat
    OBVIOUS
  <2>1. IsFiniteSet(s) /\ \A y \in s : f[y] \in Nat
    BY FS_Subset
  <2> QED
    BY <2>1, FS_CardinalityType, SumType
<1>2. ASSUME NEW n \in Nat, \A k \in Nat : k < n => k \in T PROVE n \in T
  <2> SUFFICES ASSUME NEW s \in SUBSET S, Cardinality(s) = n, NEW y \in s
               PROVE  Sum(f, s) = f[y] + Sum(f, s \ {y})
    OBVIOUS
  <2>1. IsFiniteSet(s) /\ s # {} /\ \A z \in s : f[z] \in Nat
    BY <1>1
  <2>2. PICK c \in s : Sum(f, s) = f[c] + Sum(f, s \ {c})
    BY <2>1, SumPick
  <2>3. CASE c = y
    BY <2>2, <2>3
  <2>4. CASE c # y
    <3>1. Cardinality(s \ {c}) = n - 1 /\ Cardinality(s \ {y}) = n - 1
      BY <2>1, FS_RemoveElement
    <3>2. s \ {c} \in SUBSET S /\ s \ {y} \in SUBSET S /\ (s \ {c}) \ {y} \in SUBSET S
      OBVIOUS
    <3>3. n - 1 \in Nat /\ n - 1 < n
      BY <1>1, <3>1, <3>2
    <3>4. n - 1 \in T
      BY <1>2, <3>3
    <3>5. /\ Sum(f, s \ {c}) = f[y] + Sum(f, (s \ {c}) \ {y})
          /\ Sum(f, s \ {y}) = f[c] + Sum(f, (s \ {y}) \ {c})
      <4>1. y \in s \ {c} /\ c \in s \ {y}
        BY <2>4
      <4> QED
        BY <3>1, <3>2, <3>4, <4>1
    <3>6. (s \ {c}) \ {y} = (s \ {y}) \ {c}
      OBVIOUS
    <3>7. f[c] \in Nat /\ f[y] \in Nat /\ Sum(f, (s \ {c}) \ {y}) \in Nat
      BY <1>1, <2>1, <3>2
    <3>8. Sum(f, s) = f[c] + (f[y] + Sum(f, (s \ {c}) \ {y}))
      BY <2>2, <3>5
    <3>9. Sum(f, s \ {y}) = f[c] + Sum(f, (s \ {c}) \ {y})
      BY <3>5, <3>6
    <3> HIDE DEF T
    <3> QED
      BY <3>7, <3>8, <3>9
  <2> QED
    BY <2>3, <2>4
<1>3. \A n \in Nat : n \in T
  <2> HIDE DEF T
  <2> QED
    BY <1>2, StrongInduction
<1>4. S \in SUBSET S /\ Cardinality(S) \in T
  BY <1>1, <1>3
<1> QED
  BY <1>4

\* One element more adds its number.
LEMMA SumAdd ==
  ASSUME NEW S, IsFiniteSet(S), NEW f, \A x \in S : f[x] \in Nat,
         NEW y, y \notin S, f[y] \in Nat
  PROVE  Sum(f, S \cup {y}) = f[y] + Sum(f, S)
<1>1. IsFiniteSet(S \cup {y}) /\ y \in S \cup {y} /\ \A x \in S \cup {y} : f[x] \in Nat
  BY FS_AddElement
<1>2. (S \cup {y}) \ {y} = S
  OBVIOUS
<1> QED
  BY <1>1, <1>2, SumRemove
-----------------------------------------------------------------------------
(***************************************************************************)
(* The order of the rows, of any table.                                    *)
(***************************************************************************)

\* ComesBefore compares two numbers, with the pid to break most ties.
LEMMA Keys ==
  ASSUME NEW rows, IsTable(rows), NEW r \in rows, NEW type \in SortTypes
  PROVE  /\ r.pid \in Nat
         /\ type \in Single => r[type] \in Nat \cup {nullopt}
         /\ type \notin Single => TotalOf(r, type) \in Nat
<1>1. Parts(type)[1] \in Single /\ Parts(type)[2] \in Single
  BY DEF Parts, Single
<1>2. \A v \in Nat \cup {nullopt} : value_or_0(v) \in Nat
  BY DEF value_or_0, nullopt
<1>3. TotalOf(r, type) \in Nat
  <2>1. value_or_0(r[Parts(type)[1]]) \in Nat /\ value_or_0(r[Parts(type)[2]]) \in Nat
    BY <1>1, <1>2 DEF IsTable
  <2> QED BY <2>1 DEF TotalOf
<1> QED BY <1>3 DEF IsTable

\* std::partial_sort is always given a strict weak order, whatever values the
\* rows of the table lack (get_comparator).
THEOREM ComparatorIsOrder == ASSUME NEW rows, IsTable(rows) PROVE StrictWeakOrder(rows)
<1> SUFFICES ASSUME NEW type \in SortTypes, NEW x \in rows, NEW y \in rows, NEW z \in rows
             PROVE  LET lt(a, b) == ComesBefore(type, a, b)
                        eq(a, b) == ~lt(a, b) /\ ~lt(b, a)
                    IN /\ ~lt(x, x)
                       /\ lt(x, y) /\ lt(y, z) => lt(x, z)
                       /\ eq(x, y) /\ eq(y, z) => eq(x, z)
  BY DEF StrictWeakOrder
<1>1. x.pid \in Nat /\ y.pid \in Nat /\ z.pid \in Nat
  BY Keys
<1>2. CASE type \in Single
  <2>1. x[type] \in Int /\ y[type] \in Int /\ z[type] \in Int
    BY <1>2, Keys DEF nullopt
  <2> QED BY <1>1, <1>2, <2>1 DEF ComesBefore
<1>3. CASE type \notin Single
  <2>1. TotalOf(x, type) \in Nat /\ TotalOf(y, type) \in Nat /\ TotalOf(z, type) \in Nat
    BY <1>3, Keys
  <2>2. /\ has_value(x, type) \in BOOLEAN /\ has_value(y, type) \in BOOLEAN
        /\ has_value(z, type) \in BOOLEAN
    BY DEF has_value
  <2> QED BY <1>1, <1>3, <2>1, <2>2 DEF ComesBefore
<1> QED BY <1>2, <1>3

\* A row that does not come before another is not larger.
LEMMA NotBeforeNotLarger ==
  ASSUME NEW rows, IsTable(rows), NEW type \in SortTypes, NEW l \in rows, NEW r \in rows,
         ~ComesBefore(type, l, r)
  PROVE  SortedBy(r, type) >= SortedBy(l, type)
<1>1. CASE type \in Single
  <2>1. l[type] \in Int /\ r[type] \in Int
    BY <1>1, Keys DEF nullopt
  <2> QED BY <1>1, <2>1 DEF ComesBefore, SortedBy
<1>2. CASE type \notin Single
  <2>1. TotalOf(l, type) \in Nat /\ TotalOf(r, type) \in Nat
    BY <1>2, Keys
  <2> QED BY <1>2, <2>1 DEF ComesBefore, SortedBy, nullopt
<1> QED BY <1>1, <1>2

\* The rows that are shown are the largest, of any table and for any number
\* of lines on the screen, although partial_sort leaves the order of the others
\* and of equal ones open (get_sorted, display_table).
THEOREM ShownAreTheLargest ==
  ASSUME NEW rows, IsTable(rows), NEW limit \in Nat
  PROVE  TopIsLargest(rows, limit)
<1> DEFINE size == Cardinality(rows)
           n    == IF limit = 0 \/ limit > size THEN size ELSE limit
<1> SUFFICES ASSUME NEW type \in SortTypes, NEW s \in get_sorted(rows, type, limit),
                    NEW i \in DOMAIN s, NEW r \in rows \ ToSet(s)
             PROVE  SortedBy(s[i], type) >= SortedBy(r, type)
  BY DEF TopIsLargest
<1>1. IsFiniteSet(rows) /\ size \in Nat /\ n \in Nat /\ n <= size
  BY FS_CardinalityType DEF IsTable
<1>2. PICK t \in SetToSeqs(rows) :
        /\ \A j, k \in DOMAIN t : j < k => ~ComesBefore(type, t[k], t[j])
        /\ s = SubSeq(t, 1, n)
  BY DEF get_sorted
<1>3. t \in [1 .. size -> rows] /\ \A j, k \in 1 .. size : j # k => t[j] # t[k]
  BY <1>2 DEF SetToSeqs
<1>4. \A q \in rows : \E j \in 1 .. size : t[j] = q
  <2>1. t \in Injection(1 .. size, rows)
    BY <1>3 DEF Injection, IsInjective
  <2>2. IsFiniteSet(1 .. size) /\ Cardinality(1 .. size) = size
    BY <1>1, FS_Interval
  <2>3. t \in Surjection(1 .. size, rows)
    BY <1>1, <2>1, <2>2, FS_Injection
  <2> QED BY <2>3 DEF Surjection
<1> HIDE DEF size, n
<1>5. /\ DOMAIN s = 1 .. n /\ \A j \in 1 .. n : s[j] = t[j]
  <2>1. \A j \in 1 .. n : j \in 1 .. size
    BY <1>1
  <2> QED BY <1>1, <1>2, <1>3, <2>1
<1>6. PICK j \in 1 .. size : t[j] = r
  BY <1>4
<1>7. j \notin 1 .. n
  BY <1>5, <1>6 DEF ToSet
<1>8. i \in 1 .. size /\ i < j /\ s[i] = t[i]
  BY <1>1, <1>5, <1>7
<1>9. ~ComesBefore(type, r, s[i])
  BY <1>2, <1>3, <1>6, <1>8
<1>10. s[i] \in rows
  BY <1>3, <1>8
<1> QED BY <1>9, <1>10, NotBeforeNotLarger

\* The run's invariant, of every table and not only those of its instance.
THEOREM ShownAreLargestHolds == ASSUME IsTable(table) PROVE ShownAreLargest
<1>1. StrictWeakOrder(table)
  BY ComparatorIsOrder
<1>2. Cardinality(table) \in Nat
  BY FS_CardinalityType DEF IsTable
<1>3. \A limit \in 0 .. Cardinality(table) : TopIsLargest(table, limit)
  BY <1>2, ShownAreTheLargest
<1> QED
  BY <1>1, <1>3 DEF ShownAreLargest
-----------------------------------------------------------------------------
(***************************************************************************)
(* The alarms, of any table.                                               *)
(***************************************************************************)

\* The sum over two sets without a common element is the sum of their sums.
LEMMA SumUnion ==
  ASSUME NEW S, IsFiniteSet(S), NEW T, IsFiniteSet(T), S \cap T = {}, NEW f,
         \A x \in S \cup T : f[x] \in Nat
  PROVE  Sum(f, S \cup T) = Sum(f, S) + Sum(f, T)
<1> DEFINE P == {s \in SUBSET S : Sum(f, s \cup T) = Sum(f, s) + Sum(f, T)}
<1>1. {} \in P
  <2>1. Sum(f, T) \in Nat /\ Sum(f, {}) = 0 /\ {} \cup T = T
    BY SumType, SumEmpty
  <2> QED
    BY <2>1
<1>2. ASSUME NEW s \in SUBSET S, NEW x \in S \ s, s \in P PROVE s \cup {x} \in P
  <2>1. IsFiniteSet(s) /\ IsFiniteSet(s \cup T) /\ x \notin s \cup T
    BY FS_Subset, FS_Union
  <2>2. (s \cup {x}) \cup T = (s \cup T) \cup {x}
    OBVIOUS
  <2>3. Sum(f, (s \cup T) \cup {x}) = f[x] + Sum(f, s \cup T)
    BY <2>1, SumAdd
  <2>4. Sum(f, s \cup {x}) = f[x] + Sum(f, s)
    BY <2>1, SumAdd
  <2>5. f[x] \in Nat /\ Sum(f, s) \in Nat /\ Sum(f, T) \in Nat
    BY <2>1, SumType
  <2>6. Sum(f, s \cup T) = Sum(f, s) + Sum(f, T)
    BY <1>2
  <2> HIDE DEF P
  <2>7. Sum(f, (s \cup {x}) \cup T) = Sum(f, s \cup {x}) + Sum(f, T)
    <3>1. Sum(f, (s \cup {x}) \cup T) = f[x] + (Sum(f, s) + Sum(f, T))
      BY <2>2, <2>3, <2>6, Zenon
    <3>2. f[x] + (Sum(f, s) + Sum(f, T)) = (f[x] + Sum(f, s)) + Sum(f, T)
      BY <2>5
    <3> QED
      BY <2>4, <3>1, <3>2, Zenon
  <2> QED
    BY <2>7 DEF P
<1> HIDE DEF P
<1>3. S \in P
  BY <1>1, <1>2, SetInduction
<1> QED
  BY <1>3 DEF P

\* The sum of one column over some rows, and over its known values only.
Column(rows, f) == [r \in rows |-> value_or_0(r[f])]
Cell(rows)      == [x \in rows \X Single |-> x[1][x[2]]]
Known(rows, fs) == {x \in rows \X fs : x[1][x[2]] # nullopt}

\* The numbers of a column, and those that are known.
LEMMA ColumnType ==
  ASSUME NEW rows, IsTable(rows), NEW f \in Single
  PROVE  /\ \A r \in rows : Column(rows, f)[r] \in Nat
         /\ \A x \in Known(rows, {f}) : Cell(rows)[x] \in Nat
<1>1. \A r \in rows : r[f] \in Nat \cup {nullopt}
  BY DEF IsTable
<1>2. \A r \in rows : Column(rows, f)[r] \in Nat
  BY <1>1 DEF Column, value_or_0
<1>3. ASSUME NEW x \in Known(rows, {f}) PROVE Cell(rows)[x] \in Nat
  <2>1. x \in rows \X Single /\ x[1] \in rows /\ x[2] = f /\ x[1][f] # nullopt
    BY DEF Known
  <2>2. Cell(rows)[x] = x[1][f]
    BY <2>1 DEF Cell
  <2> QED
    BY <1>1, <2>1, <2>2
<1> QED
  BY <1>2, <1>3

\* A missing value adds nothing: the known values of a column add up to what
\* the column does with 0 for the missing ones.
LEMMA ColumnSum ==
  ASSUME NEW rows, IsTable(rows), NEW f \in Single
  PROVE  Sum(Cell(rows), Known(rows, {f})) = Sum(Column(rows, f), rows)
<1> DEFINE P == {s \in SUBSET rows :
                   Sum(Cell(rows), Known(s, {f})) = Sum(Column(rows, f), s)}
<1>1. IsFiniteSet(rows)
  BY DEF IsTable
<1>2. {} \in P
  <2>1. Known({}, {f}) = {}
    BY DEF Known
  <2> QED
    BY <2>1, SumEmpty
<1>3. ASSUME NEW s \in SUBSET rows, NEW r \in rows \ s, s \in P PROVE s \cup {r} \in P
  <2>1. /\ IsFiniteSet(s) /\ IsFiniteSet(Known(s, {f})) /\ <<r, f>> \notin Known(s, {f})
        /\ Known(s, {f}) \subseteq Known(rows, {f})
    <3>1. IsFiniteSet(s) /\ IsFiniteSet({f})
      BY <1>1, FS_Subset, FS_Singleton
    <3>2. IsFiniteSet(s \X {f})
      BY <3>1, FS_Product
    <3>3. Known(s, {f}) \subseteq s \X {f}
      BY DEF Known
    <3> QED
      BY <3>1, <3>2, <3>3, FS_Subset DEF Known
  <2>2. Sum(Column(rows, f), s \cup {r}) = value_or_0(r[f]) + Sum(Column(rows, f), s)
    <3>1. \A q \in s : Column(rows, f)[q] \in Nat
      BY ColumnType
    <3>2. Column(rows, f)[r] \in Nat /\ Column(rows, f)[r] = value_or_0(r[f])
      BY ColumnType DEF Column
    <3> QED
      BY <2>1, <3>1, <3>2, SumAdd
  <2>3. Sum(Column(rows, f), s) \in Nat
    BY <2>1, ColumnType, SumType
  <2>4. CASE r[f] = nullopt
    <3>1. Known(s \cup {r}, {f}) = Known(s, {f})
      BY <2>4 DEF Known
    <3> QED
      BY <1>3, <2>2, <2>3, <2>4, <3>1 DEF value_or_0
  <2>5. CASE r[f] # nullopt
    <3>1. Known(s \cup {r}, {f}) = Known(s, {f}) \cup {<<r, f>>}
      BY <2>5 DEF Known
    <3>2. <<r, f>> \in Known(rows, {f}) /\ Cell(rows)[<<r, f>>] = r[f]
      BY <2>5 DEF Known, Cell
    <3>3. /\ \A x \in Known(s, {f}) : Cell(rows)[x] \in Nat
          /\ Cell(rows)[<<r, f>>] \in Nat
      BY <2>1, <3>2, ColumnType
    <3>4. Sum(Cell(rows), Known(s, {f}) \cup {<<r, f>>}) = r[f] + Sum(Cell(rows), Known(s, {f}))
      BY <2>1, <3>2, <3>3, SumAdd
    <3> QED
      BY <1>3, <2>2, <2>5, <3>1, <3>4 DEF value_or_0
  <2> QED
    BY <2>4, <2>5
<1> HIDE DEF P
<1>4. rows \in P
  BY <1>1, <1>2, <1>3, SetInduction
<1> QED
  BY <1>4 DEF P

\* The code's sums are sums of columns, and those of the property of cells.
LEMMA ProgramSum ==
  ASSUME NEW rows, NEW name, NEW f
  PROVE  get_map_program_name_resource(rows, name, f)
           = Sum(Column({r \in rows : r.name = name}, f), {r \in rows : r.name = name})
<1> DEFINE S == {r \in rows : r.name = name}
           CodeAt(g, s) == IF s = {} THEN 0
                           ELSE value_or_0((CHOOSE x \in s : TRUE)[f])
                                  + g[s \ {CHOOSE x \in s : TRUE}]
           HereAt(g, s) == IF s = {} THEN 0
                           ELSE Column(S, f)[CHOOSE x \in s : TRUE]
                                  + g[s \ {CHOOSE x \in s : TRUE}]
           Code(g) == [s \in SUBSET S |-> CodeAt(g, s)]
           Here(g) == [s \in SUBSET S |-> HereAt(g, s)]
<1>1. ASSUME NEW g PROVE Code(g) = Here(g)
  <2>1. ASSUME NEW s \in SUBSET S, s # {}
        PROVE  Column(S, f)[CHOOSE x \in s : TRUE] = value_or_0((CHOOSE x \in s : TRUE)[f])
    <3>1. (CHOOSE x \in s : TRUE) \in S
      BY <2>1
    <3> HIDE DEF S
    <3> QED
      BY <3>1 DEF Column
  <2>2. \A s \in SUBSET S : CodeAt(g, s) = HereAt(g, s)
    <3> SUFFICES ASSUME NEW s \in SUBSET S, s # {} PROVE CodeAt(g, s) = HereAt(g, s)
      BY Zenon
    <3> HIDE DEF S
    <3> QED
      BY <2>1
  <2> HIDE DEF S, CodeAt, HereAt
  <2> QED
    BY <2>2, Zenon
<1>2. get_map_program_name_resource(rows, name, f) = (CHOOSE g : g = Code(g))[S]
  BY DEF get_map_program_name_resource, MapThenSumSet, MapThenFoldSet
<1>3. Sum(Column(S, f), S) = (CHOOSE g : g = Here(g))[S]
  BY DEF Sum, MapThenSumSet, MapThenFoldSet
<1> HIDE DEF Code, Here
<1>4. (CHOOSE g : g = Code(g)) = (CHOOSE g : g = Here(g))
  BY <1>1
<1> QED
  BY <1>2, <1>3, <1>4

\* The sum the property speaks of is one of cells.
LEMMA CellSum ==
  ASSUME NEW rows, NEW fs \in SUBSET Single
  PROVE  MapThenSumSet(LAMBDA x : x[1][x[2]], Known(rows, fs)) = Sum(Cell(rows), Known(rows, fs))
<1> DEFINE S == Known(rows, fs)
           CodeAt(g, s) == IF s = {} THEN 0
                           ELSE (CHOOSE x \in s : TRUE)[1][(CHOOSE x \in s : TRUE)[2]]
                                  + g[s \ {CHOOSE x \in s : TRUE}]
           HereAt(g, s) == IF s = {} THEN 0
                           ELSE Cell(rows)[CHOOSE x \in s : TRUE]
                                  + g[s \ {CHOOSE x \in s : TRUE}]
           Code(g) == [s \in SUBSET S |-> CodeAt(g, s)]
           Here(g) == [s \in SUBSET S |-> HereAt(g, s)]
<1>1. ASSUME NEW g PROVE Code(g) = Here(g)
  <2>1. ASSUME NEW s \in SUBSET S, s # {}
        PROVE  Cell(rows)[CHOOSE x \in s : TRUE]
                 = (CHOOSE x \in s : TRUE)[1][(CHOOSE x \in s : TRUE)[2]]
    <3>1. (CHOOSE x \in s : TRUE) \in rows \X Single
      BY <2>1 DEF Known
    <3> QED
      BY <3>1 DEF Cell
  <2>2. \A s \in SUBSET S : CodeAt(g, s) = HereAt(g, s)
    <3> SUFFICES ASSUME NEW s \in SUBSET S, s # {} PROVE CodeAt(g, s) = HereAt(g, s)
      BY Zenon
    <3> HIDE DEF S
    <3> QED
      BY <2>1
  <2> HIDE DEF S, CodeAt, HereAt
  <2> QED
    BY <2>2, Zenon
<1>2. MapThenSumSet(LAMBDA x : x[1][x[2]], S) = (CHOOSE g : g = Code(g))[S]
  BY DEF MapThenSumSet, MapThenFoldSet
<1>3. Sum(Cell(rows), S) = (CHOOSE g : g = Here(g))[S]
  BY DEF Sum, MapThenSumSet, MapThenFoldSet
<1> HIDE DEF Code, Here
<1>4. (CHOOSE g : g = Code(g)) = (CHOOSE g : g = Here(g))
  BY <1>1
<1> QED
  BY <1>2, <1>3, <1>4

\* What is used of a resource with one column is what the program's sum is.
LEMMA UsedOfOne ==
  ASSUME NEW rows, IsTable(rows), NEW name, NEW f \in Single
  PROVE  /\ MapThenSumSet(LAMBDA x : x[1][x[2]], Known({r \in rows : r.name = name}, {f}))
              = get_map_program_name_resource(rows, name, f)
         /\ get_map_program_name_resource(rows, name, f) \in Nat
<1> DEFINE of == {r \in rows : r.name = name}
<1>1. IsTable(of)
  BY FS_Subset DEF IsTable
<1>2. get_map_program_name_resource(rows, name, f) = Sum(Column(of, f), of)
  BY ProgramSum
<1> HIDE DEF of
<1>3. Sum(Column(of, f), of) \in Nat
  BY <1>1, ColumnType, SumType DEF IsTable
<1>4. MapThenSumSet(LAMBDA x : x[1][x[2]], Known(of, {f})) = Sum(Cell(of), Known(of, {f}))
  <2>1. {f} \in SUBSET Single
    OBVIOUS
  <2> QED
    BY <2>1, CellSum
<1>5. Sum(Cell(of), Known(of, {f})) = Sum(Column(of, f), of)
  BY <1>1, ColumnSum
<1> QED
  BY <1>2, <1>3, <1>4, <1>5 DEF of

\* What is used of a resource with two columns is what the two sums add up to.
LEMMA UsedOfTwo ==
  ASSUME NEW rows, IsTable(rows), NEW name, NEW f \in Single, NEW g \in Single, f # g
  PROVE  MapThenSumSet(LAMBDA x : x[1][x[2]], Known({r \in rows : r.name = name}, {f, g}))
           = get_map_program_name_resource(rows, name, f)
               + get_map_program_name_resource(rows, name, g)
<1> DEFINE of == {r \in rows : r.name = name}
<1>1. IsTable(of)
  BY FS_Subset DEF IsTable
<1>2. /\ get_map_program_name_resource(rows, name, f) = Sum(Column(of, f), of)
      /\ get_map_program_name_resource(rows, name, g) = Sum(Column(of, g), of)
  BY ProgramSum
<1> HIDE DEF of
<1>3. MapThenSumSet(LAMBDA x : x[1][x[2]], Known(of, {f, g})) = Sum(Cell(of), Known(of, {f, g}))
  <2>1. {f, g} \in SUBSET Single
    OBVIOUS
  <2> QED
    BY <2>1, CellSum
<1>4. ASSUME NEW h \in Single PROVE IsFiniteSet(Known(of, {h}))
  <2>1. IsFiniteSet(of) /\ IsFiniteSet({h})
    BY <1>1, FS_Singleton DEF IsTable
  <2>2. IsFiniteSet(of \X {h})
    BY <2>1, FS_Product
  <2>3. Known(of, {h}) \subseteq of \X {h}
    BY DEF Known
  <2> QED
    BY <2>2, <2>3, FS_Subset
<1>5. /\ Known(of, {f}) \cap Known(of, {g}) = {}
      /\ Known(of, {f, g}) = Known(of, {f}) \cup Known(of, {g})
  BY DEF Known
<1>6. \A x \in Known(of, {f}) \cup Known(of, {g}) : Cell(of)[x] \in Nat
  BY <1>1, ColumnType
<1>7. Sum(Cell(of), Known(of, {f, g}))
        = Sum(Cell(of), Known(of, {f})) + Sum(Cell(of), Known(of, {g}))
  <2>1. IsFiniteSet(Known(of, {f})) /\ IsFiniteSet(Known(of, {g}))
    BY <1>4
  <2>2. Sum(Cell(of), Known(of, {f}) \cup Known(of, {g}))
          = Sum(Cell(of), Known(of, {f})) + Sum(Cell(of), Known(of, {g}))
    BY <2>1, <1>5, <1>6, SumUnion
  <2> QED
    BY <1>5, <2>2, Zenon
<1>8. /\ Sum(Cell(of), Known(of, {f})) = Sum(Column(of, f), of)
      /\ Sum(Cell(of), Known(of, {g})) = Sum(Column(of, g), of)
  BY <1>1, ColumnSum
<1> QED
  BY <1>2, <1>3, <1>7, <1>8 DEF of

\* The elements of two sequences, joined.
LEMMA ElementsOfBoth ==
  ASSUME NEW S, NEW a \in Seq(S), NEW b \in Seq(S)
  PROVE  ToSet(a \o b) = ToSet(a) \cup ToSet(b)
<1>1. ASSUME NEW i \in DOMAIN (a \o b) PROVE (a \o b)[i] \in ToSet(a) \cup ToSet(b)
  <2>1. CASE i <= Len(a)
    BY <2>1 DEF ToSet
  <2>2. CASE i > Len(a)
    <3>1. i - Len(a) \in DOMAIN b /\ (a \o b)[i] = b[i - Len(a)]
      BY <2>2
    <3> QED
      BY <3>1 DEF ToSet
  <2> QED
    BY <2>1, <2>2
<1>2. ASSUME NEW i \in DOMAIN a PROVE a[i] \in ToSet(a \o b)
  <2>1. i \in DOMAIN (a \o b) /\ (a \o b)[i] = a[i]
    OBVIOUS
  <2> QED
    BY <2>1 DEF ToSet
<1>3. ASSUME NEW i \in DOMAIN b PROVE b[i] \in ToSet(a \o b)
  <2>1. i + Len(a) \in DOMAIN (a \o b) /\ (a \o b)[i + Len(a)] = b[i]
    OBVIOUS
  <2> QED
    BY <2>1 DEF ToSet
<1> QED
  BY <1>1, <1>2, <1>3 DEF ToSet

\* Which logs are made, as a set.
LEMMA LogsMade ==
  ASSUME NEW rows, NEW entry
  PROVE  ToSet(generate_log(rows, entry))
           = {[type |-> t, value |-> UseOf(rows, entry.name, t)] :
                t \in {u \in {"cpu", "mem", "disk", "network"} :
                         UseOf(rows, entry.name, u) > entry[u]}}
<1> DEFINE Use(t)  == UseOf(rows, entry.name, t)
           Log(t)  == [type |-> t, value |-> Use(t)]
           made(t) == IF Use(t) > entry[t] THEN <<Log(t)>> ELSE <<>>
           S == {Log(t) : t \in {"cpu", "mem", "disk", "network"}}
<1>1. generate_log(rows, entry) = made("cpu") \o made("mem") \o made("disk") \o made("network")
  BY DEF generate_log
<1>2. ASSUME NEW t \in {"cpu", "mem", "disk", "network"}
      PROVE  /\ made(t) \in Seq(S)
             /\ ToSet(made(t)) = IF Use(t) > entry[t] THEN {Log(t)} ELSE {}
  <2>1. Log(t) \in S
    OBVIOUS
  <2> HIDE DEF Log, Use, S
  <2>2. <<Log(t)>> \in Seq(S) /\ <<>> \in Seq(S)
    BY <2>1
  <2>3. ToSet(<<Log(t)>>) = {Log(t)} /\ ToSet(<<>>) = {}
    BY DEF ToSet
  <2> QED
    BY <2>2, <2>3
<1> HIDE DEF made, S, Use, Log
<1>3. ToSet(generate_log(rows, entry))
        = ToSet(made("cpu")) \cup ToSet(made("mem")) \cup ToSet(made("disk")) \cup ToSet(made("network"))
  <2>1. /\ made("cpu") \in Seq(S) /\ made("mem") \in Seq(S)
        /\ made("disk") \in Seq(S) /\ made("network") \in Seq(S)
    BY <1>2
  <2>2. /\ made("cpu") \o made("mem") \in Seq(S)
        /\ (made("cpu") \o made("mem")) \o made("disk") \in Seq(S)
    BY <2>1
  <2>3. ToSet(made("cpu") \o made("mem")) = ToSet(made("cpu")) \cup ToSet(made("mem"))
    BY <2>1, ElementsOfBoth
  <2>4. ToSet((made("cpu") \o made("mem")) \o made("disk"))
          = ToSet(made("cpu") \o made("mem")) \cup ToSet(made("disk"))
    BY <2>1, <2>2, ElementsOfBoth
  <2>5. ToSet(((made("cpu") \o made("mem")) \o made("disk")) \o made("network"))
          = ToSet((made("cpu") \o made("mem")) \o made("disk")) \cup ToSet(made("network"))
    BY <2>1, <2>2, ElementsOfBoth
  <2> QED
    BY <1>1, <2>3, <2>4, <2>5, Zenon
<1>4. ToSet(generate_log(rows, entry))
        = {Log(t) : t \in {u \in {"cpu", "mem", "disk", "network"} : Use(u) > entry[u]}}
  BY <1>2, <1>3
<1> QED
  BY <1>4 DEF Log, Use

\* A log is made of a kind exactly if the processes with the entry's name
\* together exceed the threshold, in any table and for any thresholds
\* (generate_log, get_map_program_name_resource).
THEOREM AlarmExactly ==
  ASSUME NEW rows, IsTable(rows), NEW entry
  PROVE  AlarmIffExceeded(rows, entry)
<1> DEFINE of == {r \in rows : r.name = entry.name}
           used(fs) == MapThenSumSet(LAMBDA x : x[1][x[2]], {x \in of \X fs : x[1][x[2]] # nullopt})
           parts == [cpu |-> {"cpu"}, mem |-> {"mem"}, disk |-> {"disk_read", "disk_write"},
                     network |-> {"network_recv", "network_send"}]
           made == generate_log(rows, entry)
           Types == {"cpu", "mem", "disk", "network"}
           Use(t) == UseOf(rows, entry.name, t)
<1>1. \A fs : used(fs) = MapThenSumSet(LAMBDA x : x[1][x[2]], Known(of, fs))
  BY DEF Known
<1>2. DOMAIN parts = Types
  OBVIOUS
<1>3. ASSUME NEW t \in Types PROVE Use(t) = used(parts[t])
  <2>1. CASE t \in {"cpu", "mem"}
    <3>1. t \in Single /\ parts[t] = {t}
      BY <2>1 DEF Single
    <3>2. Use(t) = get_map_program_name_resource(rows, entry.name, t)
      BY <2>1 DEF UseOf
    <3> HIDE DEF used, parts
    <3> QED
      BY <1>1, <3>1, <3>2, UsedOfOne
  <2>2. CASE t = "disk"
    <3>1. /\ "disk_read" \in Single /\ "disk_write" \in Single /\ "disk_read" # "disk_write"
          /\ parts[t] = {"disk_read", "disk_write"}
      BY <2>2 DEF Single
    <3>2. Use(t) = get_map_program_name_resource(rows, entry.name, "disk_read")
                     + get_map_program_name_resource(rows, entry.name, "disk_write")
      BY <2>2 DEF UseOf
    <3>3. MapThenSumSet(LAMBDA x : x[1][x[2]], Known(of, {"disk_read", "disk_write"}))
            = get_map_program_name_resource(rows, entry.name, "disk_read")
                + get_map_program_name_resource(rows, entry.name, "disk_write")
      BY <3>1, UsedOfTwo
    <3> HIDE DEF used, parts, of, Use
    <3> QED
      BY <1>1, <3>1, <3>2, <3>3, Zenon
  <2>3. CASE t = "network"
    <3>1. /\ "network_recv" \in Single /\ "network_send" \in Single
          /\ "network_recv" # "network_send" /\ parts[t] = {"network_recv", "network_send"}
      BY <2>3 DEF Single
    <3>2. Use(t) = get_map_program_name_resource(rows, entry.name, "network_recv")
                     + get_map_program_name_resource(rows, entry.name, "network_send")
      BY <2>3 DEF UseOf
    <3>3. MapThenSumSet(LAMBDA x : x[1][x[2]], Known(of, {"network_recv", "network_send"}))
            = get_map_program_name_resource(rows, entry.name, "network_recv")
                + get_map_program_name_resource(rows, entry.name, "network_send")
      BY <3>1, UsedOfTwo
    <3> HIDE DEF used, parts, of, Use
    <3> QED
      BY <1>1, <3>1, <3>2, <3>3, Zenon
  <2> QED
    BY <2>1, <2>2, <2>3
<1>4. ToSet(made) = {[type |-> t, value |-> Use(t)] : t \in {u \in Types : Use(u) > entry[u]}}
  BY LogsMade
<1> HIDE DEF used, parts, made, Types, Use
<1>5. {made[i].type : i \in DOMAIN made} = {t \in Types : Use(t) > entry[t]}
  <2>1. {made[i].type : i \in DOMAIN made} = {l.type : l \in ToSet(made)}
    BY DEF ToSet
  <2>2. {l.type : l \in ToSet(made)} = {t \in Types : Use(t) > entry[t]}
    <3> DEFINE E == {u \in Types : Use(u) > entry[u]}
    <3>1. \A t \in E : [type |-> t, value |-> Use(t)].type = t
      OBVIOUS
    <3>2. \A l \in ToSet(made) : \E t \in E : l = [type |-> t, value |-> Use(t)]
      BY <1>4
    <3>3. \A t \in E : [type |-> t, value |-> Use(t)] \in ToSet(made)
      BY <1>4
    <3> HIDE DEF E
    <3>4. \A l \in ToSet(made) : l.type \in E
      BY <3>1, <3>2
    <3>5. \A t \in E : \E l \in ToSet(made) : l.type = t
      BY <3>1, <3>3
    <3>6. {l.type : l \in ToSet(made)} = E
      BY <3>4, <3>5
    <3> QED
      BY <3>6 DEF E
  <2> QED
    BY <2>1, <2>2
<1>6. \A i \in DOMAIN made : made[i].type \in Types /\ made[i].value = Use(made[i].type)
  <2> SUFFICES ASSUME NEW i \in DOMAIN made
               PROVE  made[i].type \in Types /\ made[i].value = Use(made[i].type)
    OBVIOUS
  <2>1. made[i] \in ToSet(made)
    BY DEF ToSet
  <2> QED
    BY <1>4, <2>1
<1>7. {t \in Types : Use(t) > entry[t]} = {t \in DOMAIN parts : used(parts[t]) > entry[t]}
  BY <1>2, <1>3
<1>8. \A i \in DOMAIN made : made[i].value = used(parts[made[i].type])
  BY <1>3, <1>6
<1> QED
  BY <1>5, <1>7, <1>8 DEF AlarmIffExceeded, used, parts, made

\* The run's invariant, of every table.
THEOREM AlarmsRightHolds == ASSUME IsTable(table) PROVE AlarmsRight
BY AlarmExactly DEF AlarmsRight

-----------------------------------------------------------------------------
(***************************************************************************)
(* Powers, and division by them.                                           *)
(***************************************************************************)

Descends(prev, Base)      == \A n \in Nat \ Base : prev[n] \in Nat /\ prev[n] < n
StartsIn(base, Base, V)   == \A n \in Nat \cap Base : base[n] \in V
StepsIn(step, Base, V)    == \A n \in Nat \ Base : \A v \in V : step[<<n, v>>] \in V
Recurs(f, Base, base, prev, step) ==
  \A n \in Nat : f[n] = IF n \in Base THEN base[n] ELSE step[<<n, f[prev[n]]>>]

\* A recursive function of numbers whose steps stay in a set of values has its
\* values there.
LEMMA TypedNumberRecursion ==
  ASSUME NEW V, NEW Base, NEW base, NEW prev, NEW step,
         Descends(prev, Base), StartsIn(base, Base, V), StepsIn(step, Base, V)
  PROVE  \E f \in [Nat -> V] : Recurs(f, Base, base, prev, step)
<1>0. PICK f : NumberEquation(f, Nat, Base, base, prev, step)
  BY NumberRecursion DEF Descends
<1>4. ASSUME NEW n \in Nat
      PROVE  f[n] = IF n \in Base THEN base[n] ELSE step[<<n, f[prev[n]]>>]
  BY <1>0, NumberEquationAt
<1> DEFINE S == {n \in Nat : f[n] \in V}
<1>1. ASSUME NEW n \in Nat, \A k \in Nat : k < n => k \in S PROVE n \in S
  <2>1. f[n] = IF n \in Base THEN base[n] ELSE step[<<n, f[prev[n]]>>]
    BY <1>4
  <2>2. CASE n \in Base
    BY <2>1, <2>2 DEF StartsIn
  <2>3. CASE n \notin Base
    <3>1. prev[n] \in Nat /\ prev[n] < n
      BY <2>3 DEF Descends
    <3>2. f[prev[n]] \in V
      BY <1>1, <3>1
    <3>3. step[<<n, f[prev[n]]>>] \in V
      BY <2>3, <3>2 DEF StepsIn
    <3> QED
      BY <2>1, <2>3, <3>3
  <2> QED
    BY <2>2, <2>3
<1> HIDE DEF S
<1>2. \A n \in Nat : n \in S
  BY <1>1, StrongInduction
<1>3. f = [n \in Nat |-> f[n]]
  BY <1>0 DEF NumberEquation
<1>5. f \in [Nat -> V]
  BY <1>2, <1>3 DEF S
<1> QED
  BY <1>4, <1>5 DEF Recurs

\* The powers of B, by their recursive definition.
LEMMA PowIs ==
  /\ Pow \in [Nat -> Nat \ {0}] /\ Pow[0] = 1
  /\ \A n \in Nat : Pow[n + 1] = B * Pow[n]
<1> DEFINE V    == Nat \ {0}
           Base == {0}
           base == [n \in {0} |-> 1]
           prev == [n \in Nat |-> n - 1]
           step == [p \in Nat \X V |-> B * p[2]]
           Code(f) == [n \in Nat |-> IF n = 0 THEN 1 ELSE B * f[n - 1]]
<1>1. Descends(prev, Base)
  BY DEF Descends
<1>2. StartsIn(base, Base, V)
  BY DEF StartsIn
<1>3. StepsIn(step, Base, V)
  BY EncodingAssumption DEF StepsIn
<1>4. PICK f \in [Nat -> V] : Recurs(f, Base, base, prev, step)
  <2> HIDE DEF V, Base, base, prev, step
  <2> QED
    BY <1>1, <1>2, <1>3, TypedNumberRecursion
<1>6. ASSUME NEW n \in Nat PROVE f[n] = IF n = 0 THEN 1 ELSE B * f[n - 1]
  <2>1. f[n] = IF n \in Base THEN base[n] ELSE step[<<n, f[prev[n]]>>]
    BY <1>4 DEF Recurs
  <2> QED
    BY <2>1
<1>7. f = Code(f)
  <2>1. f = [n \in Nat |-> f[n]]
    BY <1>4
  <2> QED
    BY <1>6, <2>1, Zenon
<1>8. Pow = CHOOSE g : g = Code(g)
  BY DEF Pow
<1> HIDE DEF Code
<1>9. Pow = Code(Pow)
  BY <1>7, <1>8
<1>10. \A n \in Nat : Pow[n] = IF n = 0 THEN 1 ELSE B * Pow[n - 1]
  <2> DEFINE v == Code(Pow)
  <2>1. \A n \in Nat : v[n] = IF n = 0 THEN 1 ELSE B * Pow[n - 1]
    BY DEF Code
  <2> HIDE DEF v
  <2>2. Pow = v
    BY <1>9 DEF v
  <2> QED
    BY <2>1, <2>2
<1>11. Pow[0] = 1 /\ \A n \in Nat : Pow[n + 1] = B * Pow[n]
  <2>1. \A n \in Nat : n + 1 \in Nat /\ n + 1 # 0 /\ (n + 1) - 1 = n
    OBVIOUS
  <2> QED
    BY <1>10, <2>1
<1>12. \A n \in Nat : Pow[n] \in Nat \ {0}
  <2> DEFINE S == {n \in Nat : Pow[n] \in Nat \ {0}}
  <2>1. 0 \in S
    BY <1>11
  <2>2. \A n \in Nat : n \in S => n + 1 \in S
    BY <1>11, EncodingAssumption
  <2> HIDE DEF S
  <2>3. \A n \in Nat : n \in S
    BY <2>1, <2>2, Induction
  <2> QED
    BY <2>3 DEF S
<1>13. Pow = [n \in Nat |-> Pow[n]]
  BY <1>9 DEF Code
<1> QED
  BY <1>11, <1>12, <1>13

\* Quotient and remainder are unique.
LEMMA Quotient ==
  ASSUME NEW D \in Nat \ {0}, NEW q \in Nat, NEW r \in 0 .. D - 1
  PROVE  (D * q + r) \div D = q /\ (D * q + r) % D = r
OBVIOUS

\* Dividing twice is dividing by the product.
LEMMA DivideTwice ==
  ASSUME NEW D \in Nat \ {0}, NEW P \in Nat \ {0}, NEW v \in Nat
  PROVE  (v \div P) \div D = v \div (D * P) /\ v \div P \in Nat
OBVIOUS

\* The next digit of a number, in base D, and the rest of it.
LEMMA Digit ==
  ASSUME NEW D \in Nat \ {0}, NEW v \in Nat
  PROVE  /\ v = (v % D) + D * (v \div D) /\ v % D \in 0 .. D - 1 /\ v \div D \in Nat
         /\ D # 1 /\ v # 0 => v \div D < v
OBVIOUS

\* The value of a sequence of bytes, byte by byte from the last.
NumberSteps(h, s) ==
  /\ h \in [1 .. Len(s) + 1 -> Nat] /\ h[Len(s) + 1] = 0
  /\ \A k \in 1 .. Len(s) : h[k] = s[k] + B * h[k + 1]
  /\ Number(s) = h[1]

\* FoldRight of Number takes the bytes from the last.
LEMMA NumberFold ==
  ASSUME NEW s \in Seq(Nat)
  PROVE  \E h : NumberSteps(h, s)
<1> DEFINE n == Len(s)
           D == 1 .. n
           pick == [S \in SUBSET D |-> Min(S)]
           step == [p \in D \X Nat |-> s[p[1]] + B * p[2]]
           At(g, S) == IF S = {} THEN 0 ELSE s[Min(S)] + B * g[S \ {Min(S)}]
           iter == CHOOSE g : g = [S \in SUBSET D |-> At(g, S)]
<1>1. n \in Nat /\ DOMAIN s = D /\ IsFiniteSet(D) /\ \A i \in D : s[i] \in Nat
  <2>1. n \in Nat /\ DOMAIN s = D /\ \A i \in D : s[i] \in Nat
    OBVIOUS
  <2>2. IsFiniteSet(1 .. n)
    BY <2>1, FS_Interval
  <2> QED
    BY <2>1, <2>2
<1>2. \A S \in SUBSET D : S # {} => Min(S) \in S
  BY <1>1, SmallestNumber
<1>3. Picks(pick, D)
  BY <1>2 DEF Picks
<1>4. StaysIn(step, D, Nat)
  <2> SUFFICES ASSUME NEW x \in D, NEW v \in Nat PROVE step[<<x, v>>] \in Nat
    BY DEF StaysIn
  <2>1. step[<<x, v>>] = s[x] + B * v
    OBVIOUS
  <2>2. s[x] \in Nat
    BY <1>1
  <2>3. B \in Nat
    BY EncodingAssumption
  <2>4. B * v \in Nat
    BY <2>3
  <2> HIDE DEF step, D
  <2> QED
    BY <2>1, <2>2, <2>4
<1>5. PICK g \in [SUBSET D -> Nat] : Recursive(g, D, 0, pick, step)
  <2> HIDE DEF pick, step, D
  <2> QED
    BY <1>1, <1>3, <1>4, TypedRecursion
<1>6. \A S \in SUBSET D : g[S] = At(g, S)
  <2> SUFFICES ASSUME NEW S \in SUBSET D, S # {} PROVE g[S] = At(g, S)
    BY <1>5 DEF Recursive
  <2>1. /\ pick[S] = Min(S) /\ Min(S) \in D /\ S \ {Min(S)} \in SUBSET D
        /\ g[S \ {Min(S)}] \in Nat
    BY <1>2
  <2>2. g[S] = step[<<pick[S], g[S \ {pick[S]}]>>]
    BY <1>5 DEF Recursive
  <2> HIDE DEF pick, D
  <2> QED
    BY <2>1, <2>2
<1>7. iter = [S \in SUBSET D |-> At(iter, S)]
  <2>1. g = [S \in SUBSET D |-> g[S]]
    OBVIOUS
  <2> HIDE DEF At, D
  <2>2. g = [S \in SUBSET D |-> At(g, S)]
    BY <1>6, <2>1, Zenon
  <2> QED
    BY <2>2
<1>8. Number(s) = iter[D]
  BY <1>1 DEF Number, FoldRight, MapThenFoldSet
<1> HIDE DEF iter
<1>9. /\ iter[{}] = 0
      /\ \A S \in SUBSET D : S # {} => iter[S] = s[Min(S)] + B * iter[S \ {Min(S)}]
  <2> DEFINE v == [S \in SUBSET D |-> At(iter, S)]
  <2>1. \A S \in SUBSET D : v[S] = At(iter, S)
    OBVIOUS
  <2> HIDE DEF v
  <2>2. iter = v
    BY <1>7 DEF v
  <2> HIDE DEF D
  <2>3. {} \in SUBSET D
    OBVIOUS
  <2> QED
    BY <2>1, <2>2, <2>3
<1>10. \A S \in SUBSET D : iter[S] \in Nat
  <2>1. ASSUME NEW S \in SUBSET D, S # {}, iter[S \ {pick[S]}] \in Nat PROVE iter[S] \in Nat
    <3>1. pick[S] = Min(S) /\ Min(S) \in D
      BY <1>2, <2>1
    <3>2. s[Min(S)] \in Nat
      BY <1>1, <3>1
    <3>3. iter[S] = s[Min(S)] + B * iter[S \ {Min(S)}]
      BY <1>9, <2>1
    <3>4. iter[S \ {Min(S)}] \in Nat
      BY <2>1, <3>1
    <3> HIDE DEF pick, D
    <3> QED
      BY <3>2, <3>3, <3>4, EncodingAssumption
  <2>2. iter[{}] \in Nat
    BY <1>9
  <2> HIDE DEF pick, D, At
  <2> QED
    BY <1>1, <1>3, <2>1, <2>2, TypedSolution
<1> DEFINE h == [k \in 1 .. n + 1 |-> iter[k .. n]]
<1>11. h \in [1 .. n + 1 -> Nat]
  BY <1>1, <1>10
<1>12. h[n + 1] = 0
  <2>1. (n + 1) .. n = {} /\ n + 1 \in 1 .. n + 1
    BY <1>1
  <2> QED
    BY <1>9, <2>1
<1>13. ASSUME NEW k \in 1 .. n PROVE h[k] = s[k] + B * h[k + 1]
  <2>1. k .. n \in SUBSET D /\ k .. n # {} /\ k + 1 \in 1 .. n + 1 /\ k \in 1 .. n + 1
    BY <1>1
  <2>2. Min(k .. n) = k
    <3>1. k .. n \in SUBSET Nat /\ k \in k .. n
      BY <1>1
    <3>2. Min(k .. n) \in k .. n /\ \A j \in k .. n : Min(k .. n) <= j
      BY <3>1, SmallestNumber
    <3> QED
      BY <3>1, <3>2
  <2>3. (k .. n) \ {k} = (k + 1) .. n
    BY <1>1
  <2>4. h[k] = iter[k .. n] /\ h[k + 1] = iter[(k + 1) .. n]
    BY <2>1
  <2>5. iter[k .. n] = s[Min(k .. n)] + B * iter[(k .. n) \ {Min(k .. n)}]
    BY <1>9, <2>1
  <2> HIDE DEF h
  <2> QED
    BY <2>2, <2>3, <2>4, <2>5
<1>14. Number(s) = h[1]
  BY <1>1, <1>8
<1> HIDE DEF h
<1> QED
  BY <1>11, <1>12, <1>13, <1>14 DEF NumberSteps

Byte == 0 .. B - 1

\* The bytes of a number are bytes.
LEMMA BytesAre ==
  ASSUME NEW v \in Nat, NEW n \in Nat
  PROVE  /\ Bytes(v, n) \in Seq(Byte) /\ Len(Bytes(v, n)) = n
         /\ \A i \in 1 .. n : Bytes(v, n)[i] = (v \div Pow[i - 1]) % B
<1>1. ASSUME NEW i \in 1 .. n PROVE (v \div Pow[i - 1]) % B \in Byte
  <2>1. i - 1 \in Nat /\ Pow[i - 1] \in Nat \ {0}
    BY PowIs
  <2>2. v \div Pow[i - 1] \in Nat
    BY <2>1, Digit
  <2> QED
    BY <2>2, Digit, EncodingAssumption DEF Byte
<1> DEFINE s == [i \in 1 .. n |-> (v \div Pow[i - 1]) % B]
<1>2. s \in [1 .. n -> Byte]
  BY <1>1
<1>3. \A i \in 1 .. n : s[i] = (v \div Pow[i - 1]) % B
  OBVIOUS
<1> HIDE DEF s
<1>4. s \in Seq(Byte) /\ Len(s) = n
  BY <1>2
<1> QED
  BY <1>3, <1>4 DEF s, Bytes

\* What a number made of bytes is, divided by the powers of B.
LEMMA NumberIs ==
  ASSUME NEW s \in Seq(Byte)
  PROVE  /\ Number(s) \in 0 .. Pow[Len(s)] - 1
         /\ \A i \in 1 .. Len(s) : (Number(s) \div Pow[i - 1]) % B = s[i]
<1> DEFINE n == Len(s)
<1>1. n \in Nat /\ \A i \in 1 .. n : s[i] \in Byte
  OBVIOUS
<1>2. PICK h : NumberSteps(h, s)
  <2>1. Byte \subseteq Nat
    BY EncodingAssumption DEF Byte
  <2>2. s \in Seq(Nat)
    BY <2>1, SeqMonotonic
  <2> QED
    BY <2>2, NumberFold
<1>3. \A k \in 1 .. n + 1 : h[k] \in Nat
  BY <1>2 DEF NumberSteps
<1>4. \A k \in 1 .. n : h[k] \div B = h[k + 1] /\ h[k] % B = s[k]
  <2> SUFFICES ASSUME NEW k \in 1 .. n PROVE h[k] \div B = h[k + 1] /\ h[k] % B = s[k]
    OBVIOUS
  <2>1. h[k + 1] \in Nat /\ s[k] \in 0 .. B - 1
    BY <1>1, <1>3 DEF Byte
  <2>2. h[k] = B * h[k + 1] + s[k]
    BY <1>2, <2>1, EncodingAssumption DEF NumberSteps
  <2>3. (B * h[k + 1] + s[k]) \div B = h[k + 1] /\ (B * h[k + 1] + s[k]) % B = s[k]
    BY <2>1, Quotient, EncodingAssumption
  <2> QED
    BY <2>2, <2>3
<1> DEFINE S == {j \in Nat : j <= n => h[1] \div Pow[j] = h[j + 1]}
<1>5. 0 \in S
  <2>1. 1 \in 1 .. n + 1
    BY <1>1
  <2>2. h[1] \in Nat /\ Pow[0] = 1
    BY <1>3, <2>1, PowIs
  <2>3. h[1] \div Pow[0] = h[0 + 1]
    BY <2>2
  <2> QED
    BY <2>3
<1>6. \A j \in Nat : j \in S => j + 1 \in S
  <2> SUFFICES ASSUME NEW j \in Nat, j \in S, j + 1 <= n
               PROVE  h[1] \div Pow[j + 1] = h[(j + 1) + 1]
    OBVIOUS
  <2>1. h[1] \div Pow[j] = h[j + 1] /\ j + 1 \in 1 .. n /\ h[1] \in Nat
    BY <1>1, <1>3
  <2>2. (h[1] \div Pow[j]) \div B = h[1] \div (B * Pow[j])
    BY <2>1, DivideTwice, PowIs, EncodingAssumption
  <2>3. Pow[j + 1] = B * Pow[j]
    BY PowIs
  <2> QED
    BY <1>4, <2>1, <2>2, <2>3
<1> HIDE DEF S
<1>7. \A j \in Nat : j \in S
  BY <1>5, <1>6, Induction
<1>8. \A i \in 1 .. n : (h[1] \div Pow[i - 1]) % B = s[i]
  <2> SUFFICES ASSUME NEW i \in 1 .. n PROVE (h[1] \div Pow[i - 1]) % B = s[i]
    OBVIOUS
  <2>1. i - 1 \in Nat /\ i - 1 <= n /\ (i - 1) + 1 = i
    BY <1>1
  <2>2. h[1] \div Pow[i - 1] = h[i]
    BY <1>7, <2>1 DEF S
  <2> QED
    BY <1>4, <2>2
<1>9. h[1] \in 0 .. Pow[n] - 1
  <2>1. h[1] \div Pow[n] = 0
    <3>1. h[1] \div Pow[n] = h[n + 1]
      BY <1>1, <1>7 DEF S
    <3> QED
      BY <1>2, <3>1 DEF NumberSteps
  <2>2. h[1] \in Nat /\ Pow[n] \in Nat \ {0}
    BY <1>1, <1>3, PowIs
  <2> QED
    BY <2>1, <2>2
<1>10. Number(s) = h[1]
  BY <1>2 DEF NumberSteps
<1> QED
  BY <1>8, <1>9, <1>10

\* Bytes that are read as a number and taken apart are the same bytes,
LEMMA BytesOfNumber ==
  ASSUME NEW s \in Seq(Byte)
  PROVE  Bytes(Number(s), Len(s)) = s
<1>1. Len(s) \in Nat /\ Number(s) \in Nat
  BY NumberIs, PowIs
<1>2. /\ Bytes(Number(s), Len(s)) \in Seq(Byte) /\ Len(Bytes(Number(s), Len(s))) = Len(s)
      /\ \A i \in 1 .. Len(s) : Bytes(Number(s), Len(s))[i] = s[i]
  BY <1>1, BytesAre, NumberIs
<1> QED
  BY <1>2, SeqEqual

\* and a number that is taken apart and put together is the same number, if it
\* has no more bytes than are taken.
LEMMA NumberOfBytes ==
  ASSUME NEW n \in Nat, NEW v \in Unsigned(n)
  PROVE  Number(Bytes(v, n)) = v
<1> DEFINE s == Bytes(v, n)
<1>1. Pow[n] \in Nat \ {0} /\ v \in Nat /\ v < Pow[n]
  BY PowIs DEF Unsigned
<1>2. s \in Seq(Byte) /\ Len(s) = n /\ \A i \in 1 .. n : s[i] = (v \div Pow[i - 1]) % B
  BY <1>1, BytesAre
<1> HIDE DEF s
<1>3. PICK h : NumberSteps(h, s)
  <2>1. Byte \subseteq Nat
    BY EncodingAssumption DEF Byte
  <2>2. s \in Seq(Nat)
    BY <1>2, <2>1, SeqMonotonic
  <2> QED
    BY <2>2, NumberFold
<1> DEFINE S == {j \in Nat : j <= n => h[(n - j) + 1] = v \div Pow[n - j]}
<1>4. 0 \in S
  <2>1. v \div Pow[n] = 0
    BY <1>1
  <2>2. h[n + 1] = 0
    BY <1>2, <1>3 DEF NumberSteps
  <2>3. n - 0 = n
    OBVIOUS
  <2> QED
    BY <2>1, <2>2, <2>3
<1>5. \A j \in Nat : j \in S => j + 1 \in S
  <2> SUFFICES ASSUME NEW j \in Nat, j \in S, j + 1 <= n
               PROVE  h[(n - (j + 1)) + 1] = v \div Pow[n - (j + 1)]
    OBVIOUS
  <2> DEFINE m == n - (j + 1)
             k == n - j
  <2>1. m \in Nat /\ k \in 1 .. n /\ m + 1 = k /\ k - 1 = m
    OBVIOUS
  <2>2. h[k + 1] = v \div Pow[k]
    OBVIOUS
  <2> HIDE DEF m, k
  <2>3. h[k] = s[k] + B * h[k + 1]
    BY <1>2, <1>3, <2>1 DEF NumberSteps
  <2>4. s[k] = (v \div Pow[m]) % B
    BY <1>2, <2>1
  <2>5. Pow[m] \in Nat \ {0} /\ Pow[k] = B * Pow[m]
    BY <2>1, PowIs
  <2>6. v \div Pow[k] = (v \div Pow[m]) \div B /\ v \div Pow[m] \in Nat
    <3>1. (v \div Pow[m]) \div B = v \div (B * Pow[m]) /\ v \div Pow[m] \in Nat
      BY <1>1, <2>5, DivideTwice, EncodingAssumption
    <3> QED
      BY <2>5, <3>1
  <2>7. v \div Pow[m] = ((v \div Pow[m]) % B) + B * ((v \div Pow[m]) \div B)
    BY <2>6, Digit, EncodingAssumption
  <2>8. h[m + 1] = v \div Pow[m]
    BY <2>1, <2>2, <2>3, <2>4, <2>6, <2>7
  <2> QED
    BY <2>8 DEF m
<1> HIDE DEF S
<1>6. n \in S
  BY <1>4, <1>5, Induction
<1>7. h[1] = v \div Pow[0]
  <2>1. n - n = 0 /\ n <= n /\ 0 + 1 = 1
    OBVIOUS
  <2>2. h[(n - n) + 1] = v \div Pow[n - n]
    BY <1>6, <2>1 DEF S
  <2> QED
    BY <2>1, <2>2
<1>8. Number(s) = v
  BY <1>1, <1>3, <1>7, PowIs DEF NumberSteps
<1> QED
  BY <1>8 DEF s

\* Reversing twice changes nothing.
LEMMA ReverseIs ==
  ASSUME NEW S, NEW s \in Seq(S)
  PROVE  /\ Reverse(s) \in Seq(S) /\ Len(Reverse(s)) = Len(s)
         /\ Reverse(Reverse(s)) = s
<1>1. ASSUME NEW t \in Seq(S)
      PROVE  /\ Reverse(t) \in Seq(S) /\ Len(Reverse(t)) = Len(t)
             /\ \A i \in 1 .. Len(t) : Reverse(t)[i] = t[(Len(t) - i) + 1]
  <2> DEFINE r == [i \in 1 .. Len(t) |-> t[(Len(t) - i) + 1]]
  <2>1. r \in [1 .. Len(t) -> S] /\ Len(t) \in Nat
    OBVIOUS
  <2>2. \A i \in 1 .. Len(t) : r[i] = t[(Len(t) - i) + 1]
    OBVIOUS
  <2> HIDE DEF r
  <2>3. r \in Seq(S) /\ Len(r) = Len(t)
    BY <2>1
  <2> QED
    BY <2>2, <2>3 DEF r, Reverse
<1>2. \A i \in 1 .. Len(s) : Reverse(Reverse(s))[i] = s[i]
  <2> SUFFICES ASSUME NEW i \in 1 .. Len(s) PROVE Reverse(Reverse(s))[i] = s[i]
    OBVIOUS
  <2> DEFINE j == (Len(s) - i) + 1
  <2>1. j \in 1 .. Len(s) /\ (Len(s) - j) + 1 = i
    OBVIOUS
  <2> HIDE DEF j
  <2>2. Reverse(s)[j] = s[i]
    BY <1>1, <2>1
  <2>3. Reverse(Reverse(s))[i] = Reverse(s)[j]
    BY <1>1 DEF j
  <2> QED
    BY <2>2, <2>3
<1>3. Reverse(Reverse(s)) \in Seq(S) /\ Len(Reverse(Reverse(s))) = Len(s)
  BY <1>1
<1>4. Reverse(Reverse(s)) = s
  BY <1>2, <1>3, SeqEqual
<1> QED
  BY <1>1, <1>4

\* Swapping the bytes twice changes nothing.
LEMMA SwapTwice ==
  ASSUME NEW n \in Nat, NEW v \in Unsigned(n)
  PROVE  swap_endian(v, n) \in Unsigned(n) /\ swap_endian(swap_endian(v, n), n) = v
<1> DEFINE s == Bytes(v, n)
           r == Reverse(s)
<1>1. v \in Nat
  BY PowIs DEF Unsigned
<1>2. s \in Seq(Byte) /\ Len(s) = n
  BY <1>1, BytesAre
<1>3. Number(s) = v
  BY NumberOfBytes
<1> HIDE DEF s
<1>4. r \in Seq(Byte) /\ Len(r) = n /\ Reverse(r) = s
  BY <1>2, ReverseIs
<1> HIDE DEF r
<1>5. Number(r) \in Unsigned(n) /\ Bytes(Number(r), n) = r
  BY <1>4, NumberIs, BytesOfNumber DEF Unsigned
<1>6. swap_endian(v, n) = Number(r)
  BY DEF swap_endian, r, s
<1>7. swap_endian(Number(r), n) = v
  BY <1>3, <1>4, <1>5 DEF swap_endian
<1> QED
  BY <1>5, <1>6, <1>7

\* A number takes as many bytes as its width.
LEMMA WrittenUint ==
  ASSUME NEW n \in Nat, NEW v \in Unsigned(n)
  PROVE  WriteUint(v, n) \in Seq(Byte) /\ Len(WriteUint(v, n)) = n
<1>1. swap_endian(v, n) \in Nat
  BY SwapTwice, PowIs DEF Unsigned
<1> QED
  BY <1>1, BytesAre DEF WriteUint

\* What was written is read, and what follows is left.
LEMMA ReadWrittenUint ==
  ASSUME NEW n \in Nat, NEW v \in Unsigned(n), NEW p \in Seq(Byte)
  PROVE  ReadUint(WriteUint(v, n) \o p, n) = Ok(v, p)
<1> DEFINE w == WriteUint(v, n)
           s == w \o p
<1>1. w \in Seq(Byte) /\ Len(w) = n
  BY WrittenUint
<1>2. Number(w) = swap_endian(v, n)
  BY SwapTwice, NumberOfBytes DEF WriteUint
<1> HIDE DEF w
<1>3. s \in Seq(Byte) /\ Len(s) >= n /\ Len(s) \in Nat
  BY <1>1
<1>4. SubSeq(s, 1, n) = w /\ SubSeq(s, n + 1, Len(s)) = p
  BY <1>1
<1> HIDE DEF s
<1>5. ReadUint(s, n) = Ok(swap_endian(Number(SubSeq(s, 1, n)), n), SubSeq(s, n + 1, Len(s)))
  BY <1>3 DEF ReadUint
<1>6. swap_endian(Number(w), n) = v
  BY <1>2, SwapTwice
<1> QED
  BY <1>4, <1>5, <1>6 DEF s, w

\* Two sequences joined: type and length.
LEMMA Joined ==
  ASSUME NEW S, NEW a \in Seq(S), NEW b \in Seq(S)
  PROVE  /\ a \o b \in Seq(S) /\ Len(a \o b) = Len(a) + Len(b)
         /\ Len(a) \in Nat /\ Len(b) \in Nat
OBVIOUS

\* Runs of bytes, of a known length.
Run(s, n) == s \in Seq(Byte) /\ Len(s) = n /\ n \in Nat

\* Runs joined are runs.
LEMMA RunsJoined ==
  ASSUME NEW a, NEW b, NEW m, NEW n, Run(a, m), Run(b, n)
  PROVE  Run(a \o b, m + n)
BY DEF Run

IsRun(s) == s \in Seq(Byte)

\* The same where their lengths do not matter.
LEMMA RunOfRuns ==
  ASSUME NEW a, NEW b, IsRun(a), IsRun(b)
  PROVE  IsRun(a \o b)
BY DEF IsRun

Associate(a, b, c) == (a \o b) \o c = a \o (b \o c)

\* Runs may be joined in any order.
LEMMA RunsAssociate ==
  ASSUME NEW a, NEW b, NEW c, IsRun(a), IsRun(b), IsRun(c)
  PROVE  Associate(a, b, c)
<1>1. a \in Seq(Byte) /\ b \in Seq(Byte) /\ c \in Seq(Byte)
  BY DEF IsRun
<1> QED
  BY <1>1, ConcatAssociative DEF Associate

\* Two sequences joined and cut off: in the second, or in the first.
LEMMA CutOfBoth ==
  ASSUME NEW S, NEW a \in Seq(S), NEW b \in Seq(S), NEW cut \in 0 .. Len(a) + Len(b)
  PROVE  SubSeq(a \o b, 1, cut)
           = IF cut >= Len(a) THEN a \o SubSeq(b, 1, cut - Len(a)) ELSE SubSeq(a, 1, cut)
<1>1. SubSeq(a \o b, 1, cut) \in Seq(S) /\ Len(SubSeq(a \o b, 1, cut)) = cut
  OBVIOUS
<1>2. CASE cut >= Len(a)
  <2>1. SubSeq(b, 1, cut - Len(a)) \in Seq(S) /\ Len(SubSeq(b, 1, cut - Len(a))) = cut - Len(a)
    BY <1>2
  <2> DEFINE c == SubSeq(b, 1, cut - Len(a))
  <2>2. a \o c \in Seq(S) /\ Len(a \o c) = cut
    BY <1>2, <2>1
  <2>3. \A i \in 1 .. cut : SubSeq(a \o b, 1, cut)[i] = (a \o c)[i]
    BY <1>2
  <2> HIDE DEF c
  <2>4. SubSeq(a \o b, 1, cut) = a \o c
    BY <1>1, <2>2, <2>3, SeqEqual
  <2> QED
    BY <1>2, <2>4 DEF c
<1>3. CASE cut < Len(a)
  <2>1. SubSeq(a, 1, cut) \in Seq(S) /\ Len(SubSeq(a, 1, cut)) = cut
    BY <1>3
  <2>2. \A i \in 1 .. cut : SubSeq(a \o b, 1, cut)[i] = SubSeq(a, 1, cut)[i]
    BY <1>3
  <2>3. SubSeq(a \o b, 1, cut) = SubSeq(a, 1, cut)
    BY <1>1, <2>1, <2>2, SeqEqual
  <2> QED
    BY <1>3, <2>3
<1> QED
  BY <1>2, <1>3

\* The two parts of what was joined.
LEMMA RestOfBoth ==
  ASSUME NEW S, NEW a \in Seq(S), NEW b \in Seq(S)
  PROVE  /\ SubSeq(a \o b, 1, Len(a)) = a
         /\ SubSeq(a \o b, Len(a) + 1, Len(a \o b)) = b
OBVIOUS

\* A number that is cut off is not read, another is and leaves what follows.
LEMMA ReadCutUint ==
  ASSUME NEW n \in Nat, NEW v \in Unsigned(n), NEW r \in Seq(Byte), NEW cut \in 0 .. n + Len(r)
  PROVE  ReadUint(SubSeq(WriteUint(v, n) \o r, 1, cut), n)
           = IF cut < n THEN Fail ELSE Ok(v, SubSeq(r, 1, cut - n))
<1> DEFINE w == WriteUint(v, n)
<1>1. w \in Seq(Byte) /\ Len(w) = n
  BY WrittenUint
<1>2. CASE cut < n
  <2> HIDE DEF w
  <2>1. Len(SubSeq(w \o r, 1, cut)) = cut
    BY <1>1
  <2> QED
    BY <1>2, <2>1 DEF ReadUint, w
<1>3. CASE cut >= n
  <2>1. SubSeq(r, 1, cut - n) \in Seq(Byte)
    BY <1>3
  <2>2. SubSeq(w \o r, 1, cut) = w \o SubSeq(r, 1, cut - n)
    <3> HIDE DEF w
    <3> QED
      BY <1>1, <1>3, CutOfBoth
  <2>3. ReadUint(w \o SubSeq(r, 1, cut - n), n) = Ok(v, SubSeq(r, 1, cut - n))
    BY <2>1, ReadWrittenUint
  <2> HIDE DEF w
  <2>4. ReadUint(SubSeq(w \o r, 1, cut), n) = Ok(v, SubSeq(r, 1, cut - n))
    BY <2>2, <2>3
  <2> QED
    BY <1>3, <2>4 DEF w
<1> QED
  BY <1>2, <1>3

\* A string takes four bytes and its own.
LEMMA WrittenString ==
  ASSUME NEW str \in Seq(Byte), Len(str) \in Unsigned(4)
  PROVE  write_string(str) \in Seq(Byte) /\ Len(write_string(str)) = 4 + Len(str)
<1> DEFINE w == WriteUint(Len(str), 4)
<1>1. w \in Seq(Byte) /\ Len(w) = 4
  BY WrittenUint
<1>2. write_string(str) = w \o str
  BY DEF write_string
<1> HIDE DEF w
<1>3. w \o str \in Seq(Byte) /\ Len(w \o str) = 4 + Len(str)
  BY <1>1, Joined
<1> QED
  BY <1>2, <1>3

\* What is written are runs.
LEMMA RunsWritten ==
  /\ \A n \in Nat : \A v \in Unsigned(n) : Run(WriteUint(v, n), n)
  /\ \A str \in Seq(Byte) :
       Len(str) \in Unsigned(4) => Run(write_string(str), 4 + Len(str))
<1>1. \A n \in Nat : \A v \in Unsigned(n) : Run(WriteUint(v, n), n)
  BY WrittenUint DEF Run
<1>2. \A str \in Seq(Byte) :
        Len(str) \in Unsigned(4) => Run(write_string(str), 4 + Len(str))
  BY WrittenString DEF Run
<1> QED
  BY <1>1, <1>2

\* A string that is cut off, in its size or in its characters, is not read;
\* another is and leaves what follows.
LEMMA ReadCutString ==
  ASSUME NEW str \in Seq(Byte), Len(str) \in Unsigned(4), NEW r \in Seq(Byte),
         NEW cut \in 0 .. 4 + Len(str) + Len(r)
  PROVE  read_string(SubSeq(write_string(str) \o r, 1, cut))
           = IF cut < 4 + Len(str) THEN Fail ELSE Ok(str, SubSeq(r, 1, cut - (4 + Len(str))))
<1> DEFINE w == WriteUint(Len(str), 4)
           q == str \o r
           s == SubSeq(write_string(str) \o r, 1, cut)
           size == ReadUint(s, 4)
<1>1. w \in Seq(Byte) /\ Len(w) = 4 /\ q \in Seq(Byte) /\ Len(q) = Len(str) + Len(r)
  <2>1. w \in Seq(Byte) /\ Len(w) = 4
    BY WrittenUint
  <2>2. q \in Seq(Byte) /\ Len(q) = Len(str) + Len(r)
    OBVIOUS
  <2> QED
    BY <2>1, <2>2
<1>2. write_string(str) \o r = w \o q
  <2>1. write_string(str) = w \o str
    BY DEF write_string
  <2> HIDE DEF w
  <2>2. (w \o str) \o r = w \o (str \o r)
    BY <1>1, ConcatAssociative
  <2> QED
    BY <2>1, <2>2
<1>3. size = IF cut < 4 THEN Fail ELSE Ok(Len(str), SubSeq(q, 1, cut - 4))
  <2>1. q \in Seq(Byte) /\ cut \in 0 .. 4 + Len(q) /\ Len(str) \in Unsigned(4) /\ 4 \in Nat
    BY <1>1
  <2> HIDE DEF q
  <2>2. ReadUint(SubSeq(w \o q, 1, cut), 4)
          = IF cut < 4 THEN Fail ELSE Ok(Len(str), SubSeq(q, 1, cut - 4))
    BY <2>1, ReadCutUint
  <2> QED
    BY <1>2, <2>2, Zenon
<1>4. read_string(s) = IF ~size.ok \/ Len(size.rest) < size.value THEN Fail
                       ELSE Ok(SubSeq(size.rest, 1, size.value),
                               SubSeq(size.rest, size.value + 1, Len(size.rest)))
  BY DEF read_string
<1> HIDE DEF s, size, w
<1>5. CASE cut < 4
  <2>1. ~size.ok
    BY <1>3, <1>5 DEF Fail
  <2> QED
    BY <1>4, <1>5, <2>1 DEF s
<1>6. CASE cut >= 4
  <2> DEFINE p == SubSeq(q, 1, cut - 4)
  <2>1. size.ok /\ size.value = Len(str) /\ size.rest = p
    BY <1>3, <1>6 DEF Ok
  <2>2. p \in Seq(Byte) /\ Len(p) = cut - 4
    BY <1>1, <1>6
  <2>3. CASE cut < 4 + Len(str)
    <3> HIDE DEF p, q
    <3>1. Len(size.rest) < size.value
      BY <2>1, <2>2, <2>3
    <3> QED
      BY <1>4, <2>3, <3>1 DEF s
  <2>4. CASE cut >= 4 + Len(str)
    <3> DEFINE t == SubSeq(r, 1, cut - (4 + Len(str)))
    <3>1. t \in Seq(Byte)
      BY <2>4
    <3>2. p = str \o t
      <4>1. cut - 4 \in 0 .. Len(str) + Len(r) /\ cut - 4 >= Len(str)
        BY <2>4
      <4>2. (cut - 4) - Len(str) = cut - (4 + Len(str))
        OBVIOUS
      <4> QED
        BY <4>1, <4>2, CutOfBoth
    <3> HIDE DEF t, p, q
    <3>3. SubSeq(p, 1, Len(str)) = str /\ SubSeq(p, Len(str) + 1, Len(p)) = t
      BY <3>1, <3>2, RestOfBoth
    <3>4. ~(Len(size.rest) < size.value)
      BY <2>1, <2>2, <2>4
    <3>5. read_string(s) = Ok(str, t)
      BY <1>4, <2>1, <3>3, <3>4
    <3> QED
      BY <2>4, <3>5 DEF s, t
  <2> QED
    BY <2>3, <2>4
<1> QED
  BY <1>5, <1>6

\* A log as it is sent.
IsSent(e) ==
  /\ e = [id |-> e.id, process_name |-> e.process_name, timestamp_ms |-> e.timestamp_ms,
          log_type |-> e.log_type, value |-> e.value]
  /\ e.id \in Unsigned(8) /\ e.timestamp_ms \in Unsigned(8)
  /\ e.log_type \in Unsigned(4) /\ e.value \in Unsigned(8)
  /\ e.process_name \in Seq(Byte) /\ Len(e.process_name) \in Unsigned(4)

\* A log takes 32 bytes and those of its name, one member after another.
LEMMA Serialized ==
  ASSUME NEW e, IsSent(e)
  PROVE  /\ serialize(e) \in Seq(Byte)
         /\ Len(serialize(e)) = 32 + Len(e.process_name)
         /\ \A r \in Seq(Byte) :
              serialize(e) \o r
                = WriteUint(e.id, 8) \o (write_string(e.process_name) \o (WriteUint(e.timestamp_ms, 8)
                    \o (WriteUint(e.log_type, 4) \o (WriteUint(e.value, 8) \o r))))
<1> DEFINE a == WriteUint(e.id, 8)
           b == write_string(e.process_name)
           c == WriteUint(e.timestamp_ms, 8)
           d == WriteUint(e.log_type, 4)
           v == WriteUint(e.value, 8)
<1>1. Run(a, 8) /\ Run(c, 8) /\ Run(d, 4) /\ Run(v, 8)
  BY WrittenUint DEF IsSent, Run
<1>2. Run(b, 4 + Len(e.process_name)) /\ Len(e.process_name) \in Nat
  BY WrittenString DEF IsSent, Run
<1>3. serialize(e) = (((a \o b) \o c) \o d) \o v
  BY DEF serialize
<1> DEFINE n == Len(e.process_name)
<1> HIDE DEF a, b, c, d, v, n
<1>4. n \in Nat /\ Run(b, 4 + n)
  BY <1>2 DEF n
<1>5. Run(a \o b, 8 + (4 + n))
  BY <1>1, <1>4, RunsJoined
<1>6. Run((a \o b) \o c, (8 + (4 + n)) + 8)
  BY <1>1, <1>5, RunsJoined
<1>7. Run(((a \o b) \o c) \o d, ((8 + (4 + n)) + 8) + 4)
  BY <1>1, <1>6, RunsJoined
<1>8. Run((((a \o b) \o c) \o d) \o v, (((8 + (4 + n)) + 8) + 4) + 8)
  BY <1>1, <1>7, RunsJoined
<1>9. serialize(e) \in Seq(Byte) /\ Len(serialize(e)) = 32 + Len(e.process_name)
  <2>1. (((8 + (4 + n)) + 8) + 4) + 8 = 32 + n
    BY <1>4
  <2>2. Run((((a \o b) \o c) \o d) \o v, 32 + n)
    BY <1>8, <2>1, Zenon
  <2> QED
    BY <1>3, <2>2 DEF Run, n
<1> DEFINE ab   == a \o b
           abc  == ab \o c
           abcd == abc \o d
<1>10. IsRun(a) /\ IsRun(ab) /\ IsRun(abc) /\ IsRun(abcd)
  BY <1>1, <1>5, <1>6, <1>7 DEF Run, IsRun
<1>11. IsRun(b) /\ IsRun(c) /\ IsRun(d) /\ IsRun(v)
  BY <1>1, <1>4 DEF Run, IsRun
<1>12. ASSUME NEW r \in Seq(Byte)
       PROVE  serialize(e) \o r = a \o (b \o (c \o (d \o (v \o r))))
  <2> DEFINE t1 == v \o r
             t2 == d \o t1
             t3 == c \o t2
  <2>1. IsRun(r)
    BY DEF IsRun
  <2>2. IsRun(t1)
    BY <1>11, <2>1, RunOfRuns
  <2> HIDE DEF ab, abc, abcd
  <2>3. Associate(abcd, v, r)
    BY <1>10, <1>11, <2>1, RunsAssociate
  <2> HIDE DEF t1
  <2>4. IsRun(t2)
    BY <1>11, <2>2, RunOfRuns
  <2>5. Associate(abc, d, t1)
    BY <1>10, <1>11, <2>2, RunsAssociate
  <2> HIDE DEF t2
  <2>6. IsRun(t3)
    BY <1>11, <2>4, RunOfRuns
  <2>7. Associate(ab, c, t2)
    BY <1>10, <1>11, <2>4, RunsAssociate
  <2> HIDE DEF t3
  <2>8. Associate(a, b, t3)
    BY <1>10, <1>11, <2>6, RunsAssociate
  <2> QED
    BY <1>3, <2>3, <2>5, <2>7, <2>8, Zenon DEF Associate, ab, abc, abcd, t1, t2, t3
<1> QED
  BY <1>9, <1>12 DEF a, b, c, d, v

\* Of a log followed by r and cut off anywhere either the log is read or
\* nothing.
LEMMA DeserializeCut ==
  ASSUME NEW e, IsSent(e), NEW r \in Seq(Byte),
         NEW cut \in 0 .. Len(serialize(e)) + Len(r)
  PROVE  IF cut < Len(serialize(e))
           THEN deserialize(SubSeq(serialize(e) \o r, 1, cut)) = Fail
           ELSE deserialize(SubSeq(serialize(e) \o r, 1, cut))
                  = Ok(e, SubSeq(r, 1, cut - Len(serialize(e))))
<1> DEFINE n  == Len(e.process_name)
           r4 == WriteUint(e.value, 8) \o r
           r3 == WriteUint(e.log_type, 4) \o r4
           r2 == WriteUint(e.timestamp_ms, 8) \o r3
           r1 == write_string(e.process_name) \o r2
           s  == SubSeq(serialize(e) \o r, 1, cut)
           id   == ReadUint(s, 8)
           name == read_string(id.rest)
           ts   == ReadUint(name.rest, 8)
           type == ReadUint(ts.rest, 4)
           v    == ReadUint(type.rest, 8)
<1>1. n \in Nat /\ Len(serialize(e)) = 32 + n /\ cut \in 0 .. 32 + n + Len(r)
  BY Serialized DEF IsSent
<1>2. r4 \in Seq(Byte) /\ Len(r4) = 8 + Len(r)
  <2>1. Run(WriteUint(e.value, 8), 8)
    BY RunsWritten DEF IsSent
  <2>2. Run(r, Len(r))
    BY DEF Run
  <2>3. Run(r4, 8 + Len(r))
    BY <2>1, <2>2, RunsJoined, Zenon DEF r4
  <2>4. Len(r) \in Nat /\ n \in Nat
    BY <1>1
  <2> HIDE DEF r4, n
  <2> QED
    BY <2>3, <2>4 DEF Run
<1> HIDE DEF r4
<1>3. r3 \in Seq(Byte) /\ Len(r3) = 12 + Len(r)
  <2>1. Run(WriteUint(e.log_type, 4), 4)
    BY RunsWritten DEF IsSent
  <2>2. Run(r4, 8 + Len(r))
    BY <1>2 DEF Run
  <2>3. Run(r3, 4 + (8 + Len(r)))
    BY <2>1, <2>2, RunsJoined, Zenon DEF r3
  <2>4. Len(r) \in Nat /\ n \in Nat
    BY <1>1
  <2> HIDE DEF r3, n
  <2> QED
    BY <2>3, <2>4 DEF Run
<1> HIDE DEF r3
<1>4. r2 \in Seq(Byte) /\ Len(r2) = 20 + Len(r)
  <2>1. Run(WriteUint(e.timestamp_ms, 8), 8)
    BY RunsWritten DEF IsSent
  <2>2. Run(r3, 12 + Len(r))
    BY <1>3 DEF Run
  <2>3. Run(r2, 8 + (12 + Len(r)))
    BY <2>1, <2>2, RunsJoined, Zenon DEF r2
  <2>4. Len(r) \in Nat /\ n \in Nat
    BY <1>1
  <2> HIDE DEF r2, n
  <2> QED
    BY <2>3, <2>4 DEF Run
<1> HIDE DEF r2
<1>5. r1 \in Seq(Byte) /\ Len(r1) = 24 + n + Len(r)
  <2>1. Run(write_string(e.process_name), 4 + n)
    BY RunsWritten DEF n, IsSent
  <2>2. Run(r2, 20 + Len(r))
    BY <1>4 DEF Run
  <2>3. Run(r1, (4 + n) + (20 + Len(r)))
    BY <2>1, <2>2, RunsJoined, Zenon DEF r1
  <2>4. Len(r) \in Nat /\ n \in Nat
    BY <1>1
  <2> HIDE DEF r1, n
  <2> QED
    BY <2>3, <2>4 DEF Run
<1> HIDE DEF r1
<1>6. s = SubSeq(WriteUint(e.id, 8) \o r1, 1, cut)
  <2>1. serialize(e) \o r = WriteUint(e.id, 8) \o r1
    BY Serialized DEF r1, r2, r3, r4
  <2> QED
    BY <2>1, Zenon
<1>7. deserialize(s) = IF ~(id.ok /\ name.ok /\ ts.ok /\ type.ok /\ v.ok) THEN Fail
                       ELSE Ok([id |-> id.value, process_name |-> name.value,
                                timestamp_ms |-> ts.value, log_type |-> type.value,
                                value |-> v.value], v.rest)
  BY DEF deserialize
<1> HIDE DEF s, n
<1>8. id = IF cut < 8 THEN Fail ELSE Ok(e.id, SubSeq(r1, 1, cut - 8))
  <2>1. cut \in 0 .. 8 + Len(r1) /\ e.id \in Unsigned(8) /\ 8 \in Nat
    BY <1>1, <1>5 DEF IsSent
  <2>2. ReadUint(SubSeq(WriteUint(e.id, 8) \o r1, 1, cut), 8)
          = IF cut < 8 THEN Fail ELSE Ok(e.id, SubSeq(r1, 1, cut - 8))
    BY <1>5, <2>1, ReadCutUint
  <2> QED
    BY <1>6, <2>2, Zenon
<1> HIDE DEF id
<1>9. CASE cut < 8
  <2>1. ~id.ok
    BY <1>8, <1>9 DEF Fail
  <2>2. deserialize(s) = Fail
    BY <1>7, <2>1
  <2> QED
    BY <1>1, <1>9, <2>2 DEF s
<1>10. CASE cut >= 8
  <2> DEFINE cut1 == cut - 8
  <2>1. id.ok /\ id.value = e.id /\ id.rest = SubSeq(r1, 1, cut1)
    BY <1>8, <1>10 DEF Ok
  <2>2. cut1 \in 0 .. 24 + n + Len(r)
    BY <1>1, <1>10
  <2> HIDE DEF cut1
  <2>3. name = IF cut1 < 4 + n THEN Fail
               ELSE Ok(e.process_name, SubSeq(r2, 1, cut1 - (4 + n)))
    <3>1. cut1 \in 0 .. 4 + n + Len(r2)
      BY <1>1, <1>4, <2>2
    <3>2. read_string(SubSeq(write_string(e.process_name) \o r2, 1, cut1))
            = IF cut1 < 4 + n THEN Fail ELSE Ok(e.process_name, SubSeq(r2, 1, cut1 - (4 + n)))
      BY <1>4, <3>1, ReadCutString DEF n, IsSent
    <3> QED
      BY <2>1, <3>2, Zenon DEF r1
  <2> HIDE DEF name
  <2>4. CASE cut1 < 4 + n
    <3>1. ~name.ok
      BY <2>3, <2>4 DEF Fail
    <3>2. deserialize(s) = Fail
      BY <1>7, <3>1
    <3> QED
      BY <1>1, <2>4, <3>2 DEF s, cut1
  <2>5. CASE cut1 >= 4 + n
    <3> DEFINE cut2 == cut1 - (4 + n)
    <3>1. name.ok /\ name.value = e.process_name /\ name.rest = SubSeq(r2, 1, cut2)
      BY <1>1, <2>2, <2>3, <2>5 DEF Ok
    <3>2. cut2 \in 0 .. 20 + Len(r)
      BY <1>1, <2>2, <2>5
    <3> HIDE DEF cut2
    <3>3. ts = IF cut2 < 8 THEN Fail ELSE Ok(e.timestamp_ms, SubSeq(r3, 1, cut2 - 8))
      <4>1. cut2 \in 0 .. 8 + Len(r3) /\ e.timestamp_ms \in Unsigned(8) /\ 8 \in Nat
        BY <1>3, <3>2 DEF IsSent
      <4>2. ReadUint(SubSeq(WriteUint(e.timestamp_ms, 8) \o r3, 1, cut2), 8)
              = IF cut2 < 8 THEN Fail ELSE Ok(e.timestamp_ms, SubSeq(r3, 1, cut2 - 8))
        BY <1>3, <4>1, ReadCutUint
      <4> QED
        BY <3>1, <4>2, Zenon DEF r2
    <3> HIDE DEF ts
    <3>4. CASE cut2 < 8
      <4>1. ~ts.ok
        BY <3>3, <3>4 DEF Fail
      <4>2. deserialize(s) = Fail
        BY <1>7, <4>1
      <4> QED
        BY <1>1, <3>4, <4>2 DEF s, cut1, cut2
    <3>5. CASE cut2 >= 8
      <4> DEFINE cut3 == cut2 - 8
      <4>1. ts.ok /\ ts.value = e.timestamp_ms /\ ts.rest = SubSeq(r3, 1, cut3)
        BY <3>2, <3>3, <3>5 DEF Ok
      <4>2. cut3 \in 0 .. 12 + Len(r)
        BY <3>2, <3>5
      <4> HIDE DEF cut3
      <4>3. type = IF cut3 < 4 THEN Fail ELSE Ok(e.log_type, SubSeq(r4, 1, cut3 - 4))
        <5>1. cut3 \in 0 .. 4 + Len(r4) /\ e.log_type \in Unsigned(4) /\ 4 \in Nat
          BY <1>2, <4>2 DEF IsSent
        <5>2. ReadUint(SubSeq(WriteUint(e.log_type, 4) \o r4, 1, cut3), 4)
                = IF cut3 < 4 THEN Fail ELSE Ok(e.log_type, SubSeq(r4, 1, cut3 - 4))
          BY <1>2, <5>1, ReadCutUint
        <5> QED
          BY <4>1, <5>2, Zenon DEF r3
      <4> HIDE DEF type
      <4>4. CASE cut3 < 4
        <5>1. ~type.ok
          BY <4>3, <4>4 DEF Fail
        <5>2. deserialize(s) = Fail
          BY <1>7, <5>1
        <5> QED
          BY <1>1, <4>4, <5>2 DEF s, cut1, cut2, cut3
      <4>5. CASE cut3 >= 4
        <5> DEFINE cut4 == cut3 - 4
        <5>1. type.ok /\ type.value = e.log_type /\ type.rest = SubSeq(r4, 1, cut4)
          BY <4>2, <4>3, <4>5 DEF Ok
        <5>2. cut4 \in 0 .. 8 + Len(r)
          BY <4>2, <4>5
        <5> HIDE DEF cut4
        <5>3. v = IF cut4 < 8 THEN Fail ELSE Ok(e.value, SubSeq(r, 1, cut4 - 8))
          <6>1. e.value \in Unsigned(8) /\ 8 \in Nat
            BY DEF IsSent
          <6>2. ReadUint(SubSeq(WriteUint(e.value, 8) \o r, 1, cut4), 8)
                  = IF cut4 < 8 THEN Fail ELSE Ok(e.value, SubSeq(r, 1, cut4 - 8))
            BY <5>2, <6>1, ReadCutUint
          <6> QED
            BY <5>1, <6>2, Zenon DEF r4
        <5> HIDE DEF v
        <5>4. CASE cut4 < 8
          <6>1. ~v.ok
            BY <5>3, <5>4 DEF Fail
          <6>2. deserialize(s) = Fail
            BY <1>7, <6>1
          <6> QED
            BY <1>1, <5>4, <6>2 DEF s, cut1, cut2, cut3, cut4
        <5>5. CASE cut4 >= 8
          <6>1. v.ok /\ v.value = e.value /\ v.rest = SubSeq(r, 1, cut4 - 8)
            BY <5>2, <5>3, <5>5 DEF Ok
          <6>2. deserialize(s) = Ok(e, SubSeq(r, 1, cut4 - 8))
            BY <1>7, <2>1, <3>1, <4>1, <5>1, <6>1 DEF IsSent
          <6>3. cut4 - 8 = cut - Len(serialize(e)) /\ ~(cut < Len(serialize(e)))
            BY <1>1, <5>5 DEF cut1, cut2, cut3, cut4
          <6> QED
            BY <6>2, <6>3, Zenon DEF s
        <5> QED
          BY <5>2, <5>4, <5>5
      <4> QED
        BY <4>2, <4>4, <4>5
    <3> QED
      BY <3>2, <3>4, <3>5
  <2> QED
    BY <1>1, <2>2, <2>4, <2>5
<1> QED
  BY <1>9, <1>10

-----------------------------------------------------------------------------
(***************************************************************************)
(* Sequences one after another: what comes before each, and after.         *)
(***************************************************************************)

Joins(f, ss, S) ==
  /\ f \in [0 .. Len(ss) -> Seq(S)] /\ f[0] = <<>> /\ f[Len(ss)] = FlattenSeq(ss)
  /\ \A i \in 1 .. Len(ss) : f[i] = f[i - 1] \o ss[i]

\* FlattenSeq joins one after another.
LEMMA FlattenIs ==
  ASSUME NEW S, NEW ss \in Seq(Seq(S))
  PROVE  \E f : Joins(f, ss, S)
<1> DEFINE n == Len(ss)
           V == Seq(S)
           Base == {0}
           base == [i \in {0} |-> <<>>]
           prev == [i \in Nat |-> i - 1]
           step == [p \in Nat \X V |-> IF p[1] \in 1 .. n THEN p[2] \o ss[p[1]] ELSE p[2]]
           At(g, i) == IF i = 1 THEN ss[i] ELSE g[i - 1] \o ss[i]
           flatten == CHOOSE g : g = [i \in 1 .. n |-> At(g, i)]
<1>1. n \in Nat /\ \A i \in 1 .. n : ss[i] \in Seq(S)
  OBVIOUS
<1>2. PICK f \in [Nat -> V] : Recurs(f, Base, base, prev, step)
  <2>1. Descends(prev, Base)
    BY DEF Descends
  <2>2. StartsIn(base, Base, V)
    BY DEF StartsIn
  <2>3. \A i \in Nat : \A v \in V : step[<<i, v>>] = IF i \in 1 .. n THEN v \o ss[i] ELSE v
    OBVIOUS
  <2>4. StepsIn(step, Base, V)
    BY <1>1, <2>3, Joined DEF StepsIn
  <2> HIDE DEF V, Base, base, prev, step
  <2> QED
    BY <2>1, <2>2, <2>4, TypedNumberRecursion
<1>3. f[0] = <<>>
  BY <1>2 DEF Recurs
<1>4. \A i \in 1 .. n : f[i] = f[i - 1] \o ss[i]
  <2> SUFFICES ASSUME NEW i \in 1 .. n PROVE f[i] = f[i - 1] \o ss[i]
    OBVIOUS
  <2>1. i \in Nat /\ i \notin Base /\ prev[i] = i - 1 /\ f[i - 1] \in V
    BY <1>2
  <2>2. f[i] = step[<<i, f[i - 1]>>]
    <3> HIDE DEF V, Base, base, prev, step
    <3>1. f[i] = IF i \in Base THEN base[i] ELSE step[<<i, f[prev[i]]>>]
      BY <1>2, <2>1 DEF Recurs
    <3> QED
      BY <2>1, <3>1
  <2> QED
    BY <2>1, <2>2
<1>5. \A x : x \in Seq(S) => <<>> \o x = x
  OBVIOUS
<1>6. <<>> \in Seq(S)
  OBVIOUS
<1>7. ASSUME n # 0 PROVE f[1] = ss[1]
  <2>1. 1 \in 1 .. n /\ 1 - 1 = 0
    BY <1>1, <1>7
  <2>2. f[1] = f[0] \o ss[1] /\ ss[1] \in Seq(S)
    BY <1>1, <1>4, <2>1
  <2> QED
    BY <1>3, <1>5, <2>2, Zenon
<1> HIDE DEF V, Base, base, prev, step
<1>8. CASE n = 0
  <2>1. FlattenSeq(ss) = <<>> /\ f[n] = FlattenSeq(ss)
    BY <1>3, <1>8 DEF FlattenSeq
  <2> DEFINE g == [i \in 0 .. n |-> f[i]]
  <2>2. g \in [0 .. n -> Seq(S)] /\ g[0] = <<>> /\ g[n] = FlattenSeq(ss)
    BY <1>1, <1>2, <1>3, <2>1 DEF V
  <2> HIDE DEF g
  <2>3. Joins(g, ss, S)
    BY <1>8, <2>2 DEF Joins
  <2> QED
    BY <2>3
<1>9. CASE n # 0
  <2> DEFINE h == [i \in 1 .. n |-> f[i]]
  <2>1. \A i \in 1 .. n : h[i] = At(h, i)
    <3> SUFFICES ASSUME NEW i \in 1 .. n PROVE f[i] = At(h, i)
      OBVIOUS
    <3>1. CASE i = 1
      BY <1>7, <1>9, <3>1
    <3>2. CASE i # 1
      <4>1. i - 1 \in 1 .. n
        BY <3>2
      <4>2. h[i - 1] = f[i - 1]
        BY <4>1
      <4> QED
        BY <1>4, <3>2, <4>2
    <3> QED
      BY <3>1, <3>2
  <2>2. h = [i \in 1 .. n |-> h[i]]
    OBVIOUS
  <2> HIDE DEF h, At
  <2>3. h = [i \in 1 .. n |-> At(h, i)]
    BY <2>1, <2>2, Zenon
  <2>4. flatten = [i \in 1 .. n |-> At(flatten, i)]
    BY <2>3, Zenon
  <2>5. FlattenSeq(ss) = flatten[n]
    BY <1>9, Zenon DEF FlattenSeq, At
  <2> HIDE DEF flatten
  <2>6. \A i \in 1 .. n : flatten[i] = At(flatten, i)
    <3> DEFINE v == [i \in 1 .. n |-> At(flatten, i)]
    <3>1. \A i \in 1 .. n : v[i] = At(flatten, i)
      OBVIOUS
    <3> HIDE DEF v
    <3>2. flatten = v
      BY <2>4 DEF v
    <3> QED
      BY <3>1, <3>2
  <2> DEFINE g == [i \in 0 .. n |-> IF i = 0 THEN <<>> ELSE flatten[i]]
  <2>7. g[0] = <<>> /\ \A i \in 1 .. n : g[i] = flatten[i]
    BY <1>1
  <2>8. \A i \in 1 .. n : i # 1 => g[i] = g[i - 1] \o ss[i]
    <3> SUFFICES ASSUME NEW i \in 1 .. n, i # 1 PROVE g[i] = g[i - 1] \o ss[i]
      OBVIOUS
    <3>1. i - 1 \in 1 .. n
      OBVIOUS
    <3> HIDE DEF g
    <3> QED
      BY <2>6, <2>7, <3>1 DEF At
  <2>9. 1 \in 1 .. n /\ g[1] = ss[1] /\ g[0] = <<>> /\ ss[1] \in Seq(S)
    BY <1>1, <1>9, <2>6, <2>7 DEF At
  <2>10. \A i \in 1 .. n : g[i] = g[i - 1] \o ss[i]
    <3> SUFFICES ASSUME NEW i \in 1 .. n PROVE g[i] = g[i - 1] \o ss[i]
      OBVIOUS
    <3> HIDE DEF g
    <3>1. CASE i = 1
      <4>1. <<>> \o ss[1] = ss[1]
        BY <1>5, <2>9, Zenon
      <4>2. g[1] = g[0] \o ss[1]
        BY <2>9, <4>1, Zenon
      <4> QED
        BY <3>1, <4>2
    <3> QED
      BY <2>8, <3>1
  <2>11. g = [i \in 0 .. n |-> g[i]]
    OBVIOUS
  <2> DEFINE T == {i \in Nat : i <= n => g[i] \in Seq(S)}
  <2> HIDE DEF g
  <2>12. 0 \in T
    BY <1>6, <2>7
  <2>13. ASSUME NEW i \in Nat, i \in T PROVE i + 1 \in T
    <3> SUFFICES ASSUME i + 1 <= n PROVE g[i + 1] \in Seq(S)
      OBVIOUS
    <3>1. i + 1 \in 1 .. n /\ (i + 1) - 1 = i /\ g[i] \in Seq(S)
      BY <1>1, <2>13
    <3>2. g[i + 1] = g[i] \o ss[i + 1] /\ ss[i + 1] \in Seq(S)
      BY <1>1, <2>10, <3>1
    <3> QED
      BY <3>1, <3>2, Joined
  <2> HIDE DEF T
  <2>14. \A i \in Nat : i \in T
    BY <2>12, <2>13, Induction
  <2>15. \A i \in 0 .. n : g[i] \in Seq(S)
    BY <1>1, <2>14 DEF T
  <2>16. g \in [0 .. n -> Seq(S)]
    BY <2>11, <2>15
  <2>17. g[n] = FlattenSeq(ss)
    BY <1>1, <1>9, <2>5, <2>7
  <2>18. Joins(g, ss, S)
    BY <2>7, <2>10, <2>16, <2>17 DEF Joins
  <2> QED
    BY <2>18
<1> QED
  BY <1>8, <1>9

\* What is left of a joined sequence after each of its parts.
Leaves(t, f, ss, S) ==
  /\ t \in [0 .. Len(ss) -> Seq(S)] /\ t[Len(ss)] = <<>> /\ t[0] = f[Len(ss)]
  /\ \A i \in 1 .. Len(ss) : t[i - 1] = ss[i] \o t[i]
  /\ \A i \in 0 .. Len(ss) : Len(f[i]) + Len(t[i]) = Len(f[Len(ss)])

\* The empty sequence, joined or cut out.
LEMMA EmptyIs ==
  ASSUME NEW S, NEW a \in Seq(S)
  PROVE  <<>> \in Seq(S) /\ Len(<<>>) = 0 /\ <<>> \o a = a /\ a \o <<>> = a
         /\ SubSeq(a, 1, 0) = <<>> /\ SubSeq(a, 1, Len(a)) = a
OBVIOUS

\* Sequences may be joined in any order.
LEMMA Associates ==
  ASSUME NEW S, NEW a \in Seq(S), NEW b \in Seq(S), NEW c \in Seq(S)
  PROVE  Associate(a, b, c)
BY ConcatAssociative DEF Associate

\* What comes after each part exists, from the last part on.
LEMMA LeavesOf ==
  ASSUME NEW S, NEW ss \in Seq(Seq(S)), NEW f, Joins(f, ss, S)
  PROVE  \E t : Leaves(t, f, ss, S)
<1> DEFINE n == Len(ss)
           all == f[n]
           t == [i \in 0 .. n |-> SubSeq(all, Len(f[i]) + 1, Len(all))]
           Prefix(i) == \E u \in Seq(S) : all = f[i] \o u
           T == {j \in Nat : j <= n => Prefix(n - j)}
<1>1. n \in Nat /\ \A i \in 1 .. n : ss[i] \in Seq(S)
  OBVIOUS
<1>2. \A i \in 0 .. n : f[i] \in Seq(S)
  BY DEF Joins
<1>3. 0 \in T
  <2>1. all \in Seq(S)
    BY <1>1, <1>2
  <2>2. <<>> \in Seq(S) /\ all = all \o <<>>
    BY <2>1, EmptyIs
  <2>3. n - 0 = n
    BY <1>1
  <2> QED
    BY <2>2, <2>3
<1>4. ASSUME NEW j \in Nat, j \in T PROVE j + 1 \in T
  <2> HIDE DEF Prefix
  <2> SUFFICES ASSUME j + 1 <= n PROVE Prefix(n - (j + 1))
    OBVIOUS
  <2> DEFINE i == n - j
  <2>1. i \in 1 .. n /\ i - 1 = n - (j + 1) /\ i - 1 \in 0 .. n
    BY <1>1, <1>4
  <2>2. PICK u \in Seq(S) : all = f[i] \o u
    <3>1. Prefix(i)
      BY <1>4, <2>1
    <3> QED
      BY <3>1 DEF Prefix
  <2> HIDE DEF all, i
  <2>3. f[i] = f[i - 1] \o ss[i] /\ f[i - 1] \in Seq(S) /\ ss[i] \in Seq(S)
    BY <1>1, <1>2, <2>1 DEF Joins
  <2>4. (f[i - 1] \o ss[i]) \o u = f[i - 1] \o (ss[i] \o u)
    <3>1. Associate(f[i - 1], ss[i], u)
      BY <2>3, Associates
    <3> QED
      BY <3>1 DEF Associate
  <2>5. ss[i] \o u \in Seq(S) /\ all = f[i - 1] \o (ss[i] \o u)
    BY <2>2, <2>3, <2>4, Joined
  <2> QED
    BY <2>1, <2>5 DEF Prefix
<1> HIDE DEF T
<1>5. \A j \in Nat : j \in T
  BY <1>3, <1>4, Induction
<1>6. ASSUME NEW i \in 0 .. n
      PROVE  t[i] \in Seq(S) /\ all = f[i] \o t[i] /\ Len(f[i]) + Len(t[i]) = Len(all)
  <2>1. n - i \in Nat /\ n - i <= n /\ n - (n - i) = i
    BY <1>1
  <2>2. PICK u \in Seq(S) : all = f[i] \o u
    BY <1>5, <2>1 DEF T
  <2>3. f[i] \in Seq(S)
    BY <1>2
  <2>4. t[i] = SubSeq(all, Len(f[i]) + 1, Len(all))
    OBVIOUS
  <2> HIDE DEF t, all
  <2>5. t[i] = u
    BY <2>2, <2>3, <2>4, RestOfBoth
  <2>6. Len(f[i] \o u) = Len(f[i]) + Len(u)
    BY <2>3, Joined
  <2> QED
    BY <2>2, <2>5, <2>6
<1>7. t = [i \in 0 .. n |-> t[i]]
  OBVIOUS
<1> HIDE DEF t, all
<1>8. t \in [0 .. n -> Seq(S)]
  BY <1>6, <1>7
<1>9. t[n] = <<>> /\ t[0] = all
  <2>1. 0 \in 0 .. n /\ n \in 0 .. n
    BY <1>1
  <2>2. Len(t[n]) = 0 /\ t[n] \in Seq(S)
    <3>1. Len(f[n]) + Len(t[n]) = Len(f[n]) /\ t[n] \in Seq(S) /\ f[n] \in Seq(S)
      BY <1>2, <1>6, <2>1 DEF all
    <3> DEFINE x == Len(f[n])
               y == Len(t[n])
    <3>2. x \in Nat /\ y \in Nat
      BY <3>1
    <3>3. x + y = x
      BY <3>1, Zenon
    <3> HIDE DEF x, y
    <3>4. y = 0
      BY <3>2, <3>3
    <3> QED
      BY <3>1, <3>4, Zenon DEF y
  <2>3. all = f[0] \o t[0] /\ f[0] = <<>> /\ t[0] \in Seq(S)
    BY <1>6, <2>1 DEF Joins
  <2>4. t[n] = <<>>
    BY <2>2
  <2> QED
    BY <2>3, <2>4, EmptyIs
<1>10. ASSUME NEW i \in 1 .. n PROVE t[i - 1] = ss[i] \o t[i]
  <2>1. i \in 0 .. n /\ i - 1 \in 0 .. n
    BY <1>1
  <2>2. /\ f[i] = f[i - 1] \o ss[i] /\ f[i - 1] \in Seq(S) /\ ss[i] \in Seq(S)
        /\ t[i] \in Seq(S) /\ t[i - 1] \in Seq(S)
    BY <1>1, <1>2, <1>6, <2>1 DEF Joins
  <2>3. all = (f[i - 1] \o ss[i]) \o t[i] /\ all = f[i - 1] \o t[i - 1]
    BY <1>6, <2>1, <2>2
  <2>4. (f[i - 1] \o ss[i]) \o t[i] = f[i - 1] \o (ss[i] \o t[i])
    <3>1. Associate(f[i - 1], ss[i], t[i])
      BY <2>2, Associates
    <3> QED
      BY <3>1 DEF Associate
  <2>5. ss[i] \o t[i] \in Seq(S)
    BY <2>2, Joined
  <2>6. \A b \in Seq(S) : SubSeq(f[i - 1] \o b, Len(f[i - 1]) + 1, Len(f[i - 1] \o b)) = b
    BY <2>2, RestOfBoth
  <2>7. /\ SubSeq(all, Len(f[i - 1]) + 1, Len(all)) = ss[i] \o t[i]
        /\ SubSeq(all, Len(f[i - 1]) + 1, Len(all)) = t[i - 1]
    <3>1. all = f[i - 1] \o (ss[i] \o t[i])
      BY <2>3, <2>4, Zenon
    <3>2. SubSeq(all, Len(f[i - 1]) + 1, Len(all)) = ss[i] \o t[i]
      BY <2>5, <2>6, <3>1, Zenon
    <3>3. SubSeq(all, Len(f[i - 1]) + 1, Len(all)) = t[i - 1]
      BY <2>2, <2>3, <2>6, Zenon
    <3> QED
      BY <3>2, <3>3
  <2> QED
    BY <2>7, Zenon
<1>11. Leaves(t, f, ss, S)
  BY <1>6, <1>8, <1>9, <1>10 DEF Leaves, all
<1> QED
  BY <1>11

-----------------------------------------------------------------------------
(***************************************************************************)
(* A batch, sent and read.                                                 *)
(***************************************************************************)

SentEntry == [id : Unsigned(8), process_name : Seq(Byte), timestamp_ms : Unsigned(8),
              log_type : Unsigned(4), value : Unsigned(8)]

IsSentBatch(es) ==
  /\ es \in Seq(SentEntry) /\ Len(es) \in Unsigned(4)
  /\ \A i \in 1 .. Len(es) : Len(es[i].process_name) \in Unsigned(4)

Items(es) == [i \in DOMAIN es |-> serialize(es[i])]

\* The items of a batch are what its logs are written as.
LEMMA SentBatch ==
  ASSUME NEW es, IsSentBatch(es)
  PROVE  /\ Len(es) \in Nat /\ \A i \in 1 .. Len(es) : IsSent(es[i])
         /\ Items(es) \in Seq(Seq(Byte)) /\ Len(Items(es)) = Len(es)
         /\ \A i \in 1 .. Len(es) : Items(es)[i] = serialize(es[i])
<1>1. Len(es) \in Nat /\ DOMAIN es = 1 .. Len(es) /\ \A i \in 1 .. Len(es) : es[i] \in SentEntry
  BY DEF IsSentBatch
<1>2. ASSUME NEW i \in 1 .. Len(es) PROVE IsSent(es[i])
  <2> DEFINE e == es[i]
  <2>1. e \in SentEntry /\ Len(e.process_name) \in Unsigned(4)
    BY <1>1 DEF IsSentBatch
  <2> HIDE DEF e
  <2>2. IsSent(e)
    BY <2>1 DEF IsSent, SentEntry
  <2> QED
    BY <2>2 DEF e
<1>3. \A i \in 1 .. Len(es) : serialize(es[i]) \in Seq(Byte)
  BY <1>2, Serialized
<1> DEFINE s == [i \in 1 .. Len(es) |-> serialize(es[i])]
<1>4. s \in [1 .. Len(es) -> Seq(Byte)]
  BY <1>3
<1>5. \A i \in 1 .. Len(es) : s[i] = serialize(es[i])
  OBVIOUS
<1>6. Items(es) = s
  BY <1>1 DEF Items
<1> HIDE DEF s
<1>7. s \in Seq(Seq(Byte)) /\ Len(s) = Len(es)
  BY <1>1, <1>4
<1> QED
  BY <1>1, <1>2, <1>5, <1>6, <1>7

\* The first i logs of a batch that is cut off, and what is left of it then.
FirstOf(es, f, t, c, i) ==
  IF i <= Len(es) /\ Len(f[i]) <= c
    THEN Ok(SubSeq(es, 1, i), SubSeq(t[i], 1, c - Len(f[i])))
    ELSE Fail

NextItem(v) ==
  LET e == deserialize(v.rest) IN
    IF v.ok /\ e.ok THEN Ok(Append(v.value, e.value), e.rest) ELSE Fail

\* No log is read from nothing.
LEMMA NothingRead == deserialize(<<>>) = Fail
<1>1. ReadUint(<<>>, 8) = Fail
  BY DEF ReadUint
<1> QED
  BY <1>1 DEF deserialize, Fail

\* The first elements, and one more.
LEMMA OneMore ==
  ASSUME NEW S, NEW s \in Seq(S), NEW i \in 1 .. Len(s)
  PROVE  SubSeq(s, 1, i) = Append(SubSeq(s, 1, i - 1), s[i])
<1> DEFINE a == SubSeq(s, 1, i)
           b == SubSeq(s, 1, i - 1)
           c == Append(b, s[i])
<1>1. a \in Seq(S) /\ Len(a) = i /\ \A j \in 1 .. i : a[j] = s[j]
  OBVIOUS
<1>2. b \in Seq(S) /\ Len(b) = i - 1 /\ \A j \in 1 .. i - 1 : b[j] = s[j]
  OBVIOUS
<1>3. s[i] \in S
  OBVIOUS
<1> HIDE DEF a, b
<1>4. c \in Seq(S) /\ Len(c) = i /\ \A j \in 1 .. i : c[j] = s[j]
  BY <1>2, <1>3
<1> HIDE DEF c
<1>5. a = c
  BY <1>1, <1>4, SeqEqual
<1> QED
  BY <1>5 DEF a, b, c

\* What was read, and a failure.
LEMMA OkIs ==
  ASSUME NEW v, NEW r
  PROVE  Ok(v, r).ok /\ Ok(v, r).value = v /\ Ok(v, r).rest = r /\ ~Fail.ok
BY DEF Ok, Fail

Lengths(f, t, ss, S, i) ==
  /\ Len(f[i - 1]) \in Nat /\ Len(ss[i]) \in Nat /\ Len(t[i]) \in Nat
  /\ Len(f[i]) = Len(f[i - 1]) + Len(ss[i])
  /\ Len(f[i - 1]) + (Len(ss[i]) + Len(t[i])) = Len(f[Len(ss)])
  /\ t[i] \in Seq(S) /\ t[i - 1] = ss[i] \o t[i]

\* The lengths of what comes before and after a part.
LEMMA LengthsAre ==
  ASSUME NEW S, NEW ss \in Seq(Seq(S)), NEW f, Joins(f, ss, S), NEW t, Leaves(t, f, ss, S),
         NEW i \in 1 .. Len(ss)
  PROVE  Lengths(f, t, ss, S, i)
<1> DEFINE n == Len(ss)
<1>1. n \in Nat /\ i - 1 \in 0 .. n /\ i \in 0 .. n /\ ss[i] \in Seq(S)
  OBVIOUS
<1> HIDE DEF n
<1>2. f[i - 1] \in Seq(S) /\ f[i] = f[i - 1] \o ss[i]
  BY <1>1 DEF Joins, n
<1>3. t[i] \in Seq(S) /\ t[i - 1] = ss[i] \o t[i]
  BY <1>1 DEF Leaves, n
<1>4. Len(f[i - 1]) + Len(t[i - 1]) = Len(f[n])
  BY <1>1 DEF Leaves, n
<1>5. Len(f[i]) = Len(f[i - 1]) + Len(ss[i]) /\ Len(f[i - 1]) \in Nat /\ Len(ss[i]) \in Nat
  BY <1>1, <1>2, Joined
<1>6. Len(t[i - 1]) = Len(ss[i]) + Len(t[i]) /\ Len(t[i]) \in Nat
  BY <1>1, <1>3, Joined
<1> QED
  BY <1>3, <1>4, <1>5, <1>6 DEF n, Lengths

\* Reading one item more of a message that is cut off: it is there as a whole,
\* or reading fails and goes on failing.
LEMMA NextOf ==
  ASSUME NEW es, IsSentBatch(es), NEW f, Joins(f, Items(es), Byte),
         NEW t, Leaves(t, f, Items(es), Byte), NEW c \in 0 .. Len(f[Len(es)]),
         NEW i \in Nat \ {0}
  PROVE  FirstOf(es, f, t, c, i) = NextItem(FirstOf(es, f, t, c, i - 1))
<1> DEFINE n     == Len(es)
           v     == FirstOf(es, f, t, c, i - 1)
           start == Len(f[i - 1])
           end   == Len(f[i])
           total == Len(f[n])
           len   == Len(serialize(es[i]))
           left  == Len(t[i])
<1>1. n \in Nat /\ Len(Items(es)) = n /\ Items(es) \in Seq(Seq(Byte))
  BY SentBatch
<1>2. ASSUME i <= n
      PROVE  /\ IsSent(es[i]) /\ t[i] \in Seq(Byte) /\ t[i - 1] = serialize(es[i]) \o t[i]
             /\ start \in Nat /\ len \in Nat /\ left \in Nat
             /\ end = start + len /\ start + (len + left) = total
  <2>1. i \in 1 .. n
    BY <1>1, <1>2
  <2>2. IsSent(es[i]) /\ Items(es)[i] = serialize(es[i])
    BY <2>1, SentBatch
  <2>3. i \in 1 .. Len(Items(es))
    BY <1>1, <2>1
  <2> DEFINE ss == Items(es)
  <2>4. /\ ss \in Seq(Seq(Byte)) /\ i \in 1 .. Len(ss)
        /\ Joins(f, ss, Byte) /\ Leaves(t, f, ss, Byte)
    BY <1>1, <2>3
  <2>5. ss[i] = serialize(es[i]) /\ Len(ss) = n
    BY <1>1, <2>2
  <2> HIDE DEF ss
  <2>6. Lengths(f, t, ss, Byte, i)
    BY <2>4, LengthsAre
  <2> HIDE DEF n
  <2> QED
    BY <2>2, <2>5, <2>6, Zenon DEF Lengths
<1>3. c \in 0 .. total
  OBVIOUS
<1>4. v = IF i - 1 <= n /\ start <= c
            THEN Ok(SubSeq(es, 1, i - 1), SubSeq(t[i - 1], 1, c - start)) ELSE Fail
  BY DEF FirstOf
<1>5. FirstOf(es, f, t, c, i) = IF i <= n /\ end <= c
                                  THEN Ok(SubSeq(es, 1, i), SubSeq(t[i], 1, c - end)) ELSE Fail
  BY DEF FirstOf
<1> HIDE DEF n, v, start, end, total, len, left
<1>6. CASE ~(i - 1 <= n /\ start <= c)
  <2>1. v = Fail
    BY <1>4, <1>6
  <2>2. NextItem(v) = Fail
    BY <2>1, OkIs DEF NextItem
  <2>3. ~(i <= n /\ end <= c)
    <3> SUFFICES ASSUME i <= n, end <= c PROVE FALSE
      OBVIOUS
    <3>1. start \in Nat /\ len \in Nat /\ end = start + len
      BY <1>2
    <3>2. i - 1 <= n
      BY <1>1
    <3> QED
      BY <1>3, <1>6, <3>1, <3>2
  <2> QED
    BY <1>5, <2>2, <2>3 DEF v
<1>7. CASE i - 1 <= n /\ start <= c
  <2> DEFINE at == c - start
             p  == SubSeq(es, 1, i - 1)
             q  == SubSeq(t[i - 1], 1, at)
  <2>1. v = Ok(p, q)
    BY <1>4, <1>7
  <2>2. v.ok /\ v.value = p /\ v.rest = q
    <3> HIDE DEF p, q
    <3> QED
      BY <2>1, OkIs
  <2>3. CASE i <= n
    <3> DEFINE e == es[i]
    <3>1. at \in 0 .. len + left
      BY <1>2, <1>3, <1>7, <2>3
    <3>2. IF at < len THEN deserialize(q) = Fail
          ELSE deserialize(q) = Ok(e, SubSeq(t[i], 1, at - len))
      <4>1. IsSent(e) /\ t[i] \in Seq(Byte) /\ at \in 0 .. Len(serialize(e)) + Len(t[i])
        BY <1>2, <2>3, <3>1 DEF len, left
      <4>2. IF at < Len(serialize(e)) THEN deserialize(SubSeq(serialize(e) \o t[i], 1, at)) = Fail
            ELSE deserialize(SubSeq(serialize(e) \o t[i], 1, at))
                   = Ok(e, SubSeq(t[i], 1, at - Len(serialize(e))))
        <5> HIDE DEF e, at
        <5> QED
          BY <4>1, DeserializeCut
      <4>3. q = SubSeq(serialize(e) \o t[i], 1, at)
        BY <1>2, <2>3
      <4> QED
        BY <4>2, <4>3, Zenon DEF len
    <3>3. CASE at < len
      <4>1. deserialize(v.rest) = Fail
        BY <2>2, <3>2, <3>3
      <4>2. NextItem(v) = Fail
        BY <4>1, OkIs DEF NextItem
      <4>3. ~(end <= c)
        BY <1>2, <1>3, <2>3, <3>3
      <4> QED
        BY <1>5, <4>2, <4>3 DEF v
    <3>4. CASE ~(at < len)
      <4> DEFINE d == deserialize(v.rest)
                 u == SubSeq(t[i], 1, at - len)
      <4>1. d = Ok(e, u)
        BY <2>2, <3>2, <3>4
      <4>2. d.ok /\ d.value = e /\ d.rest = u
        <5> HIDE DEF d, u, e
        <5> QED
          BY <4>1, OkIs
      <4>3. NextItem(v) = Ok(Append(p, e), u)
        <5>1. NextItem(v) = IF v.ok /\ d.ok THEN Ok(Append(v.value, d.value), d.rest) ELSE Fail
          BY DEF NextItem
        <5> HIDE DEF d, u, e, p, q
        <5> QED
          BY <2>2, <4>2, <5>1
      <4>4. SubSeq(es, 1, i) = Append(p, e)
        <5>1. es \in Seq(SentEntry) /\ i \in 1 .. Len(es)
          BY <1>1, <2>3 DEF IsSentBatch, n
        <5> QED
          BY <5>1, OneMore
      <4>5. at - len = c - end /\ end <= c
        BY <1>2, <1>3, <2>3, <3>4
      <4>6. FirstOf(es, f, t, c, i) = Ok(SubSeq(es, 1, i), SubSeq(t[i], 1, c - end))
        BY <1>5, <2>3, <4>5
      <4> QED
        BY <4>3, <4>4, <4>5, <4>6, Zenon DEF v
    <3> QED
      BY <3>3, <3>4
  <2>4. CASE ~(i <= n)
    <3>1. i - 1 = n
      BY <1>1, <1>7, <2>4
    <3>2. t[i - 1] = <<>>
      <4>1. t[Len(Items(es))] = <<>>
        BY DEF Leaves
      <4> QED
        BY <1>1, <3>1, <4>1
    <3>3. c = start
      BY <1>3, <1>7, <3>1 DEF total, start
    <3>4. q = <<>>
      <4>1. c \in Int
        BY <1>3
      <4>2. at = 0
        BY <3>3, <4>1
      <4> QED
        BY <3>2, <4>2
    <3>5. NextItem(v) = Fail
      <4>1. deserialize(v.rest) = Fail
        BY <2>2, <3>4, NothingRead
      <4> QED
        BY <4>1, OkIs DEF NextItem
    <3> QED
      BY <1>5, <2>4, <3>5 DEF v
  <2> QED
    BY <2>3, <2>4
<1> QED
  BY <1>6, <1>7

\* The function read_vector reads by.
ItemAt(g, rest, i) == IF i = 0 THEN Ok(<<>>, rest) ELSE NextItem(g[i - 1])
Reading(rest)      == CHOOSE g : g = [i \in Nat |-> ItemAt(g, rest, i)]

\* read_vector reads as many items as the count says, by Reading.
LEMMA ReadVectorIs ==
  ASSUME NEW s
  PROVE  LET count == ReadUint(s, 4) IN
           read_vector(s) = IF count.ok THEN {Reading(count.rest)[count.value]}
                                        ELSE {Fail, Ok(<<>>, <<>>)}
BY Zenon DEF read_vector, Reading, ItemAt, NextItem

\* What is read of the items of a message that is cut off.
LEMMA ReadingIs ==
  ASSUME NEW es, IsSentBatch(es), NEW f, Joins(f, Items(es), Byte),
         NEW t, Leaves(t, f, Items(es), Byte), NEW c \in 0 .. Len(f[Len(es)])
  PROVE  Reading(SubSeq(f[Len(es)], 1, c))[Len(es)] = FirstOf(es, f, t, c, Len(es))
<1> DEFINE n    == Len(es)
           rest == SubSeq(f[n], 1, c)
           item == Reading(rest)
           At(g, i) == ItemAt(g, rest, i)
           h == [i \in Nat |-> FirstOf(es, f, t, c, i)]
<1>1. n \in Nat /\ Len(Items(es)) = n
  BY SentBatch
<1>2. FirstOf(es, f, t, c, 0) = Ok(<<>>, rest)
  <2>1. f[0] = <<>> /\ t[0] = f[n]
    BY <1>1 DEF Joins, Leaves
  <2>2. Len(f[0]) = 0
    BY <2>1
  <2>3. es \in Seq(SentEntry)
    BY DEF IsSentBatch
  <2>4. SubSeq(es, 1, 0) = <<>>
    BY <2>3, EmptyIs
  <2>5. Len(f[0]) <= c /\ c - Len(f[0]) = c /\ 0 <= n
    BY <1>1, <2>2
  <2> HIDE DEF n
  <2>6. FirstOf(es, f, t, c, 0) = Ok(SubSeq(es, 1, 0), SubSeq(t[0], 1, c - Len(f[0])))
    BY <2>5 DEF FirstOf, n
  <2> QED
    BY <2>1, <2>4, <2>5, <2>6, Zenon
<1>3. \A i \in Nat : h[i] = At(h, i)
  <2> SUFFICES ASSUME NEW i \in Nat PROVE h[i] = At(h, i)
    OBVIOUS
  <2>1. CASE i = 0
    BY <1>2, <2>1 DEF ItemAt
  <2>2. CASE i # 0
    <3>1. i - 1 \in Nat /\ i \in Nat \ {0}
      BY <2>2
    <3>2. FirstOf(es, f, t, c, i) = NextItem(FirstOf(es, f, t, c, i - 1))
      BY <3>1, NextOf
    <3>3. h[i - 1] = FirstOf(es, f, t, c, i - 1) /\ h[i] = FirstOf(es, f, t, c, i)
      BY <3>1
    <3> HIDE DEF h
    <3> QED
      BY <2>2, <3>2, <3>3 DEF ItemAt
  <2> QED
    BY <2>1, <2>2
<1>4. h = [i \in Nat |-> h[i]]
  OBVIOUS
<1> HIDE DEF h, At
<1>5. h = [i \in Nat |-> At(h, i)]
  BY <1>3, <1>4, Zenon
<1>6. item = [i \in Nat |-> At(item, i)]
  BY <1>5, Zenon DEF Reading, At
<1> HIDE DEF item
<1>7. \A i \in Nat : item[i] = At(item, i)
  <2> DEFINE v == [i \in Nat |-> At(item, i)]
  <2>1. \A i \in Nat : v[i] = At(item, i)
    OBVIOUS
  <2> HIDE DEF v
  <2>2. item = v
    BY <1>6 DEF v
  <2> QED
    BY <2>1, <2>2
<1> DEFINE T == {i \in Nat : item[i] = FirstOf(es, f, t, c, i)}
<1>8. 0 \in T
  BY <1>2, <1>7 DEF At, ItemAt
<1>9. ASSUME NEW i \in Nat, i \in T PROVE i + 1 \in T
  <2>1. i + 1 \in Nat \ {0} /\ (i + 1) - 1 = i /\ i + 1 # 0
    OBVIOUS
  <2>2. FirstOf(es, f, t, c, i + 1) = NextItem(FirstOf(es, f, t, c, (i + 1) - 1))
    BY <2>1, NextOf
  <2>3. item[i + 1] = NextItem(item[(i + 1) - 1])
    BY <1>7, <2>1 DEF At, ItemAt
  <2>4. item[i] = FirstOf(es, f, t, c, i)
    BY <1>9
  <2> QED
    BY <2>1, <2>2, <2>3, <2>4
<1> HIDE DEF T
<1>10. n \in T
  BY <1>1, <1>8, <1>9, Induction
<1> QED
  BY <1>10 DEF T, item

\* A message is read as it was sent, and one that is cut off is not.
LEMMA ReadBatch ==
  ASSUME NEW es, IsSentBatch(es)
  PROVE  /\ write_vector(es) \in Seq(Byte) /\ Len(write_vector(es)) >= 4
         /\ \A cut \in 0 .. Len(write_vector(es)) :
              read_vector(SubSeq(write_vector(es), 1, cut))
                = IF cut < 4 THEN {Fail, Ok(<<>>, <<>>)}
                  ELSE IF cut < Len(write_vector(es)) THEN {Fail} ELSE {Ok(es, <<>>)}
<1> DEFINE n     == Len(es)
           w     == WriteUint(n, 4)
           bytes == write_vector(es)
<1>1. n \in Nat /\ Items(es) \in Seq(Seq(Byte)) /\ Len(Items(es)) = n
  BY SentBatch
<1>2. PICK f : Joins(f, Items(es), Byte)
  BY <1>1, FlattenIs
<1>3. PICK t : Leaves(t, f, Items(es), Byte)
  BY <1>1, <1>2, LeavesOf
<1> DEFINE all == f[n]
<1>4. all \in Seq(Byte) /\ all = FlattenSeq(Items(es)) /\ t[n] = <<>>
  BY <1>1, <1>2, <1>3 DEF Joins, Leaves
<1>5. w \in Seq(Byte) /\ Len(w) = 4 /\ n \in Unsigned(4)
  BY WrittenUint DEF IsSentBatch
<1>6. bytes = w \o all
  BY <1>4 DEF write_vector, Items
<1> HIDE DEF w, all, bytes
<1>7. bytes \in Seq(Byte) /\ Len(bytes) = 4 + Len(all) /\ Len(all) \in Nat
  BY <1>4, <1>5, <1>6, Joined
<1>8. ASSUME NEW cut \in 0 .. Len(bytes)
      PROVE  read_vector(SubSeq(bytes, 1, cut))
               = IF cut < 4 THEN {Fail, Ok(<<>>, <<>>)}
                 ELSE IF cut < Len(bytes) THEN {Fail} ELSE {Ok(es, <<>>)}
  <2> DEFINE s     == SubSeq(bytes, 1, cut)
             count == ReadUint(s, 4)
             c     == cut - 4
             rest  == SubSeq(all, 1, c)
  <2>1. count = IF cut < 4 THEN Fail ELSE Ok(n, rest)
    <3>1. cut \in 0 .. 4 + Len(all) /\ 4 \in Nat
      BY <1>7
    <3>2. ReadUint(SubSeq(w \o all, 1, cut), 4) = IF cut < 4 THEN Fail ELSE Ok(n, rest)
      <4> HIDE DEF n
      <4> QED
        BY <1>4, <1>5, <3>1, ReadCutUint DEF w
    <3> QED
      BY <1>6, <3>2, Zenon
  <2>2. read_vector(s) = IF count.ok THEN {Reading(count.rest)[count.value]}
                                     ELSE {Fail, Ok(<<>>, <<>>)}
    BY ReadVectorIs
  <2> HIDE DEF s, count
  <2>3. CASE cut < 4
    <3>1. ~count.ok
      BY <2>1, <2>3, OkIs
    <3> QED
      BY <2>2, <2>3, <3>1 DEF s
  <2>4. CASE ~(cut < 4)
    <3>1. count.ok /\ count.value = n /\ count.rest = rest
      <4> HIDE DEF rest, n
      <4> QED
        BY <2>1, <2>4, OkIs
    <3>2. c \in 0 .. Len(all)
      BY <1>7, <2>4
    <3>3. Reading(rest)[n] = FirstOf(es, f, t, c, n)
      BY <1>2, <1>3, <3>2, ReadingIs DEF all
    <3>4. read_vector(s) = {FirstOf(es, f, t, c, n)}
      BY <2>2, <3>1, <3>3
    <3>5. FirstOf(es, f, t, c, n) = IF Len(all) <= c THEN Ok(SubSeq(es, 1, n), SubSeq(t[n], 1, c - Len(all)))
                                    ELSE Fail
      BY <1>1 DEF FirstOf, all
    <3>6. CASE cut < Len(bytes)
      <4>1. ~(Len(all) <= c)
        BY <1>7, <3>2, <3>6
      <4> QED
        BY <2>4, <3>4, <3>5, <3>6, <4>1 DEF s
    <3>7. CASE ~(cut < Len(bytes))
      <4>1. Len(all) <= c /\ c - Len(all) = 0
        BY <1>7, <3>2, <3>7
      <4>2. SubSeq(es, 1, n) = es
        <5>1. es \in Seq(SentEntry)
          BY DEF IsSentBatch
        <5> QED
          BY <5>1, EmptyIs
      <4>3. SubSeq(t[n], 1, 0) = <<>>
        BY <1>4
      <4>4. FirstOf(es, f, t, c, n) = Ok(es, <<>>)
        <5>1. FirstOf(es, f, t, c, n) = Ok(SubSeq(es, 1, n), SubSeq(t[n], 1, c - Len(all)))
          BY <3>5, <4>1
        <5> QED
          BY <4>1, <4>2, <4>3, <5>1, Zenon
      <4> QED
        BY <2>4, <3>4, <3>7, <4>4 DEF s
    <3> QED
      BY <3>6, <3>7
  <2> QED
    BY <2>3, <2>4
<1>9. Len(bytes) >= 4
  BY <1>7
<1> QED
  BY <1>7, <1>8, <1>9, Zenon DEF bytes

\* What is in a message are bytes.
LEMMA SentAsBytes ==
  ASSUME NEW es, IsBatch(es)
  PROVE  IsSentBatch(AsBytes(es))
<1> DEFINE n    == Len(es)
           sent == AsBytes(es)
           Name(i) == [j \in DOMAIN es[i].process_name |-> es[i].process_name[j] % B]
           e(i) == [es[i] EXCEPT !.process_name = Name(i)]
<1>1. n \in Nat /\ DOMAIN es = 1 .. n /\ n \in Unsigned(4)
  BY DEF IsBatch
<1>2. ASSUME NEW i \in 1 .. n
      PROVE  e(i) \in SentEntry /\ Len(e(i).process_name) \in Unsigned(4)
  <2> DEFINE name == es[i].process_name
  <2>1. es[i] \in LogEntry /\ name \in Seq(Nat) /\ Len(name) \in Unsigned(4)
    <3>1. es[i] \in LogEntry /\ Len(name) \in Unsigned(4)
      BY <1>1 DEF IsBatch
    <3> DEFINE x == es[i]
    <3>2. x \in LogEntry
      BY <3>1
    <3> HIDE DEF x
    <3>3. x.process_name \in Seq(Nat)
      BY <3>2 DEF LogEntry
    <3> QED
      BY <3>1, <3>3 DEF x
  <2>2. Name(i) \in Seq(Byte) /\ Len(Name(i)) = Len(name)
    <3> HIDE DEF name
    <3> DEFINE s == [j \in DOMAIN name |-> name[j] % B]
    <3>1. s \in [1 .. Len(name) -> Byte] /\ Len(name) \in Nat
      BY <2>1, EncodingAssumption DEF Byte
    <3> HIDE DEF s
    <3>2. s \in Seq(Byte) /\ Len(s) = Len(name)
      BY <3>1
    <3>3. Name(i) = s
      BY DEF s, name
    <3> QED
      BY <3>2, <3>3
  <2> HIDE DEF Name
  <2> QED
    BY <2>1, <2>2 DEF LogEntry, SentEntry
<1>3. sent = [i \in 1 .. n |-> e(i)]
  BY <1>1 DEF AsBytes
<1> HIDE DEF e, sent
<1>4. sent \in [1 .. n -> SentEntry] /\ \A i \in 1 .. n : sent[i] = e(i)
  BY <1>2, <1>3
<1>5. sent \in Seq(SentEntry) /\ Len(sent) = n
  BY <1>1, <1>4
<1>6. IsSentBatch(sent)
  BY <1>1, <1>2, <1>4, <1>5 DEF IsSentBatch
<1> QED
  BY <1>6 DEF sent

\* A batch of any size, of any logs, arrives whole or not at all, wherever it
\* is cut off (BatchesWhole).
THEOREM BatchesWholeHolds == ASSUME IsBatch(logs) PROVE BatchesWhole
<1> DEFINE es    == AsBytes(logs)
           bytes == write_vector(es)
<1>1. IsSentBatch(es)
  BY SentAsBytes
<1> HIDE DEF es
<1>2. /\ bytes \in Seq(Byte) /\ Len(bytes) >= 4
      /\ \A cut \in 0 .. Len(bytes) :
           read_vector(SubSeq(bytes, 1, cut))
             = IF cut < 4 THEN {Fail, Ok(<<>>, <<>>)}
               ELSE IF cut < Len(bytes) THEN {Fail} ELSE {Ok(es, <<>>)}
  BY <1>1, ReadBatch
<1> HIDE DEF bytes
<1>3. Len(bytes) \in Nat /\ SubSeq(bytes, 1, Len(bytes)) = bytes
  BY <1>2
<1>4. read_vector(bytes) = {Ok(es, <<>>)}
  <2>1. Len(bytes) \in 0 .. Len(bytes) /\ ~(Len(bytes) < 4) /\ ~(Len(bytes) < Len(bytes))
    BY <1>2, <1>3
  <2>2. read_vector(SubSeq(bytes, 1, Len(bytes))) = {Ok(es, <<>>)}
    BY <1>2, <2>1
  <2> QED
    BY <1>3, <2>2
<1>5. ASSUME NEW cut \in 0 .. Len(bytes) - 1, NEW r \in read_vector(SubSeq(bytes, 1, cut))
      PROVE  ~r.ok \/ r.value = <<>>
  <2>1. cut \in 0 .. Len(bytes) /\ cut < Len(bytes)
    BY <1>3
  <2>2. r \in {Fail, Ok(<<>>, <<>>)}
    BY <1>2, <1>5, <2>1
  <2> QED
    BY <2>2, OkIs
<1>6. BatchWholeOrNothing(es)
  BY <1>4, <1>5 DEF BatchWholeOrNothing, bytes
<1> QED
  BY <1>6 DEF BatchesWhole, es

-----------------------------------------------------------------------------
(***************************************************************************)
(* A sequence taken element by element, from the first.                    *)
(***************************************************************************)

FoldsTo(g, n, base, step) ==
  /\ g[{}] = base
  /\ \A S \in SUBSET (1 .. n) : S # {} => g[S] = step[<<Max(S), g[S \ {Max(S)}]>>]

StepsOver(h, n, V, base, step) ==
  /\ h \in [0 .. n -> V] /\ h[0] = base
  /\ \A k \in 1 .. n : h[k] = step[<<k, h[k - 1]>>]

\* The largest of some positions.
LEMMA LargestOf ==
  ASSUME NEW n \in Nat
  PROVE  /\ IsFiniteSet(1 .. n)
         /\ \A S \in SUBSET (1 .. n) : S # {} => Max(S) \in S /\ \A k \in S : k <= Max(S)
<1>1. ASSUME NEW S \in SUBSET (1 .. n), S # {} PROVE Max(S) \in S /\ \A k \in S : k <= Max(S)
  <2>1. S \in SUBSET (0 .. n)
    OBVIOUS
  <2> QED
    BY <1>1, <2>1, LargestNumber
<1>2. IsFiniteSet(1 .. n)
  BY FS_Interval
<1> QED
  BY <1>1, <1>2

\* The fold over a set of positions, from the last, exists.
LEMMA FoldExists ==
  ASSUME NEW n \in Nat, NEW V, NEW base \in V, NEW step, StaysIn(step, 1 .. n, V)
  PROVE  \E g \in [SUBSET (1 .. n) -> V] : FoldsTo(g, n, base, step)
<1> DEFINE D == 1 .. n
           pick == [S \in SUBSET D |-> Max(S)]
<1>1. \A S \in SUBSET D : pick[S] = Max(S)
  OBVIOUS
<1>2. IsFiniteSet(D) /\ \A S \in SUBSET D : S # {} => Max(S) \in S
  BY LargestOf
<1> HIDE DEF pick, D
<1>3. Picks(pick, D)
  BY <1>1, <1>2 DEF Picks
<1>4. StaysIn(step, D, V)
  BY DEF D
<1>5. PICK g \in [SUBSET D -> V] : Recursive(g, D, base, pick, step)
  BY <1>2, <1>3, <1>4, TypedRecursion
<1>6. g[{}] = base /\ \A S \in SUBSET D : S # {} => g[S] = step[<<Max(S), g[S \ {Max(S)}]>>]
  BY <1>1, <1>5 DEF Recursive
<1> QED
  BY <1>5, <1>6 DEF FoldsTo, D

FoldsIn(g, n, V, base, step) ==
  /\ g[{}] = base
  /\ \A S \in SUBSET (1 .. n) : S # {} /\ g[S \ {Max(S)}] \in V
                                   => g[S] = step[<<Max(S), g[S \ {Max(S)}]>>]

\* Over the first k positions for each k, it takes one after another.
LEMMA FoldSteps ==
  ASSUME NEW n \in Nat, NEW V, NEW base \in V, NEW step, StaysIn(step, 1 .. n, V),
         NEW g, FoldsIn(g, n, V, base, step)
  PROVE  \E h : StepsOver(h, n, V, base, step) /\ h[n] = g[1 .. n]
<1> DEFINE h == [k \in 0 .. n |-> g[1 .. k]]
           T == {k \in Nat : k <= n => g[1 .. k] \in V}
<1>0. g[{}] = base
  BY DEF FoldsIn
<1>1. ASSUME NEW k \in Nat, k + 1 <= n, g[1 .. k] \in V
      PROVE  g[1 .. (k + 1)] = step[<<k + 1, g[1 .. k]>>] /\ g[1 .. (k + 1)] \in V
  <2> DEFINE S == 1 .. (k + 1)
  <2>1. S \in SUBSET (1 .. n) /\ S # {} /\ k + 1 \in S /\ k + 1 \in 1 .. n
    <3>1. k + 1 \in S /\ k + 1 \in 1 .. n
      BY <1>1
    <3>2. S \in SUBSET (1 .. n)
      BY <1>1
    <3> QED
      BY <3>1, <3>2, Zenon
  <2>2. Max(S) = k + 1
    <3>1. Max(S) \in S /\ \A j \in S : j <= Max(S)
      <4> HIDE DEF S
      <4> QED
        BY <2>1, LargestOf
    <3> QED
      BY <2>1, <3>1
  <2>3. S \ {k + 1} = 1 .. k
    OBVIOUS
  <2> HIDE DEF S
  <2>4. g[S] = step[<<k + 1, g[1 .. k]>>]
    BY <1>1, <2>1, <2>2, <2>3 DEF FoldsIn
  <2>5. step[<<k + 1, g[1 .. k]>>] \in V
    BY <1>1, <2>1 DEF StaysIn
  <2> QED
    BY <2>4, <2>5 DEF S
<1>2. 0 \in T
  <2>1. 1 .. 0 = {}
    OBVIOUS
  <2> QED
    BY <1>0, <2>1
<1>3. ASSUME NEW k \in Nat, k \in T PROVE k + 1 \in T
  <2> SUFFICES ASSUME k + 1 <= n PROVE g[1 .. (k + 1)] \in V
    OBVIOUS
  <2>1. g[1 .. k] \in V
    BY <1>3
  <2> QED
    BY <1>1, <2>1
<1> HIDE DEF T
<1>4. \A k \in Nat : k \in T
  BY <1>2, <1>3, Induction
<1>5. \A k \in 0 .. n : g[1 .. k] \in V
  BY <1>4 DEF T
<1>6. h \in [0 .. n -> V] /\ h[n] = g[1 .. n]
  BY <1>5
<1>7. h[0] = base
  <2>1. 1 .. 0 = {}
    OBVIOUS
  <2> QED
    BY <1>0, <2>1
<1>8. ASSUME NEW k \in 1 .. n PROVE h[k] = step[<<k, h[k - 1]>>]
  <2>1. k - 1 \in Nat /\ (k - 1) + 1 = k /\ k - 1 \in 0 .. n /\ k \in 0 .. n
    OBVIOUS
  <2>2. g[1 .. (k - 1)] \in V
    BY <1>5, <2>1
  <2>3. g[1 .. ((k - 1) + 1)] = step[<<(k - 1) + 1, g[1 .. (k - 1)]>>]
    BY <1>1, <2>1, <2>2
  <2>4. h[k] = g[1 .. k] /\ h[k - 1] = g[1 .. (k - 1)]
    BY <2>1
  <2> HIDE DEF h
  <2> QED
    BY <2>1, <2>3, <2>4
<1> HIDE DEF h
<1>9. StepsOver(h, n, V, base, step)
  BY <1>6, <1>7, <1>8 DEF StepsOver
<1> QED
  BY <1>6, <1>9

\* The number digits are read as, and how it grows from digit to digit.
Value(s) == FoldLeft(LAMBDA v, c : 10 * v + c, 0, s)

Grows(h, s) ==
  /\ h \in [0 .. Len(s) -> Nat] /\ h[0] = 0 /\ Value(s) = h[Len(s)]
  /\ \A k \in 1 .. Len(s) : h[k] = 10 * h[k - 1] + s[k]

\* The number digits are read as, digit by digit.
LEMMA ValueGrows ==
  ASSUME NEW s \in Seq(Nat)
  PROVE  \E h : Grows(h, s)
<1> DEFINE n == Len(s)
           D == 1 .. n
           step == [p \in D \X Nat |-> 10 * p[2] + s[p[1]]]
           At(g, S) == IF S = {} THEN 0 ELSE 10 * g[S \ {Max(S)}] + s[Max(S)]
           iter == CHOOSE g : g = [S \in SUBSET D |-> At(g, S)]
<1>1. n \in Nat /\ DOMAIN s = D /\ \A i \in D : s[i] \in Nat
  OBVIOUS
<1>2. \A i \in D, v \in Nat : step[<<i, v>>] = 10 * v + s[i] /\ step[<<i, v>>] \in Nat
  BY <1>1
<1>3. StaysIn(step, 1 .. n, Nat)
  BY <1>2 DEF StaysIn
<1>4. \A S \in SUBSET D : S # {} => Max(S) \in D
  BY <1>1, LargestOf
<1> HIDE DEF step
<1>5. PICK g \in [SUBSET (1 .. n) -> Nat] : FoldsTo(g, n, 0, step)
  <2> HIDE DEF n
  <2> QED
    BY <1>1, <1>3, FoldExists
<1>6. \A S \in SUBSET D : g[S] = At(g, S)
  <2> SUFFICES ASSUME NEW S \in SUBSET D, S # {} PROVE g[S] = At(g, S)
    BY <1>5 DEF FoldsTo
  <2>1. g[S \ {Max(S)}] \in Nat /\ Max(S) \in D
    BY <1>4, <1>5
  <2>2. g[S] = step[<<Max(S), g[S \ {Max(S)}]>>]
    BY <1>5 DEF FoldsTo
  <2> QED
    BY <1>2, <2>1, <2>2
<1>7. iter = [S \in SUBSET D |-> At(iter, S)]
  <2>1. g = [S \in SUBSET D |-> g[S]]
    BY <1>5
  <2> HIDE DEF At, D
  <2>2. g = [S \in SUBSET D |-> At(g, S)]
    BY <1>6, <2>1, Zenon
  <2> QED
    BY <2>2
<1>8. Value(s) = iter[D]
  BY <1>1 DEF Value, FoldLeft, MapThenFoldSet
<1> HIDE DEF iter
<1>9. /\ iter[{}] = 0
      /\ \A S \in SUBSET D : S # {} => iter[S] = 10 * iter[S \ {Max(S)}] + s[Max(S)]
  <2> DEFINE v == [S \in SUBSET D |-> At(iter, S)]
  <2>1. \A S \in SUBSET D : v[S] = At(iter, S)
    OBVIOUS
  <2> HIDE DEF v
  <2>2. iter = v
    BY <1>7 DEF v
  <2> HIDE DEF D
  <2>3. {} \in SUBSET D
    OBVIOUS
  <2> QED
    BY <2>1, <2>2, <2>3
<1>10. \A S \in SUBSET (1 .. n) : S # {} /\ iter[S \ {Max(S)}] \in Nat
                                   => iter[S] = step[<<Max(S), iter[S \ {Max(S)}]>>]
  <2> SUFFICES ASSUME NEW S \in SUBSET D, S # {}, iter[S \ {Max(S)}] \in Nat
               PROVE  iter[S] = step[<<Max(S), iter[S \ {Max(S)}]>>]
    OBVIOUS
  <2> HIDE DEF D
  <2> QED
    BY <1>2, <1>4, <1>9
<1> HIDE DEF n
<1>11. PICK h : StepsOver(h, n, Nat, 0, step) /\ h[n] = iter[1 .. n]
  <2> DEFINE V == Nat
  <2>1. FoldsIn(iter, n, V, 0, step)
    BY <1>9, <1>10 DEF FoldsIn
  <2>2. n \in Nat /\ 0 \in V /\ StaysIn(step, 1 .. n, V)
    BY <1>1, <1>3
  <2> HIDE DEF V
  <2>3. \E h : StepsOver(h, n, V, 0, step) /\ h[n] = iter[1 .. n]
    BY <2>1, <2>2, FoldSteps
  <2> QED
    BY <2>3 DEF V
<1>12. ASSUME NEW k \in 1 .. n PROVE h[k] = 10 * h[k - 1] + s[k]
  <2>1. k - 1 \in 0 .. n
    BY <1>1
  <2>2. h[k - 1] \in Nat
    BY <1>11, <2>1 DEF StepsOver
  <2> QED
    BY <1>2, <1>11, <2>2 DEF StepsOver
<1> QED
  BY <1>8, <1>11, <1>12 DEF StepsOver, Grows, n

\* What without_cr keeps.
Keeps(h, s) ==
  /\ h \in [0 .. Len(s) -> Seq(Nat)] /\ h[0] = <<>> /\ without_cr(s) = h[Len(s)]
  /\ \A k \in 1 .. Len(s) : h[k] = IF s[k] = CR THEN h[k - 1] ELSE Append(h[k - 1], s[k])

\* What without_cr keeps, character by character.
LEMMA WithoutCrKeeps ==
  ASSUME NEW s \in Seq(Nat)
  PROVE  \E h : Keeps(h, s)
<1> DEFINE n == Len(s)
           D == 1 .. n
           V == Seq(Nat)
           step == [p \in D \X V |-> IF s[p[1]] = CR THEN p[2] ELSE Append(p[2], s[p[1]])]
           At(g, S) == IF S = {} THEN <<>>
                       ELSE IF s[Max(S)] = CR THEN g[S \ {Max(S)}]
                       ELSE Append(g[S \ {Max(S)}], s[Max(S)])
           iter == CHOOSE g : g = [S \in SUBSET D |-> At(g, S)]
<1>1. n \in Nat /\ DOMAIN s = D /\ \A i \in D : s[i] \in Nat
  OBVIOUS
<1>2. \A i \in D, v \in V :
        /\ step[<<i, v>>] = IF s[i] = CR THEN v ELSE Append(v, s[i])
        /\ step[<<i, v>>] \in V
  <2>1. \A i \in D, v \in V : step[<<i, v>>] = IF s[i] = CR THEN v ELSE Append(v, s[i])
    OBVIOUS
  <2>2. \A i \in D, v \in V : Append(v, s[i]) \in V
    BY <1>1
  <2> HIDE DEF step, V, D
  <2> QED
    BY <2>1, <2>2
<1> HIDE DEF V
<1>3. StaysIn(step, 1 .. n, V)
  BY <1>2 DEF StaysIn
<1>4. \A S \in SUBSET D : S # {} => Max(S) \in D
  BY <1>1, LargestOf
<1>0. <<>> \in V
  BY DEF V
<1> HIDE DEF step
<1>5. PICK g \in [SUBSET (1 .. n) -> V] : FoldsTo(g, n, <<>>, step)
  <2> HIDE DEF n
  <2> QED
    BY <1>0, <1>1, <1>3, FoldExists
<1>6. \A S \in SUBSET D : g[S] = At(g, S)
  <2> SUFFICES ASSUME NEW S \in SUBSET D, S # {} PROVE g[S] = At(g, S)
    BY <1>5 DEF FoldsTo
  <2>1. g[S \ {Max(S)}] \in V /\ Max(S) \in D
    BY <1>4, <1>5
  <2>2. g[S] = step[<<Max(S), g[S \ {Max(S)}]>>]
    BY <1>5 DEF FoldsTo
  <2> QED
    BY <1>2, <2>1, <2>2
<1>7. iter = [S \in SUBSET D |-> At(iter, S)]
  <2>1. g = [S \in SUBSET D |-> g[S]]
    BY <1>5
  <2> HIDE DEF At, D
  <2>2. g = [S \in SUBSET D |-> At(g, S)]
    BY <1>6, <2>1, Zenon
  <2> QED
    BY <2>2
<1>8. without_cr(s) = iter[D]
  BY <1>1 DEF without_cr, FoldLeft, MapThenFoldSet
<1> HIDE DEF iter
<1>9. /\ iter[{}] = <<>>
      /\ \A S \in SUBSET D : S # {} => iter[S] = IF s[Max(S)] = CR THEN iter[S \ {Max(S)}]
                                                 ELSE Append(iter[S \ {Max(S)}], s[Max(S)])
  <2> DEFINE v == [S \in SUBSET D |-> At(iter, S)]
  <2>1. \A S \in SUBSET D : v[S] = At(iter, S)
    OBVIOUS
  <2> HIDE DEF v
  <2>2. iter = v
    BY <1>7 DEF v
  <2> HIDE DEF D
  <2>3. {} \in SUBSET D
    OBVIOUS
  <2> QED
    BY <2>1, <2>2, <2>3
<1>10. \A S \in SUBSET (1 .. n) : S # {} /\ iter[S \ {Max(S)}] \in V
                                   => iter[S] = step[<<Max(S), iter[S \ {Max(S)}]>>]
  <2> SUFFICES ASSUME NEW S \in SUBSET D, S # {}, iter[S \ {Max(S)}] \in V
               PROVE  iter[S] = step[<<Max(S), iter[S \ {Max(S)}]>>]
    OBVIOUS
  <2> HIDE DEF D
  <2> QED
    BY <1>2, <1>4, <1>9
<1> HIDE DEF n
<1>11. PICK h : StepsOver(h, n, V, <<>>, step) /\ h[n] = iter[1 .. n]
  <2>1. FoldsIn(iter, n, V, <<>>, step)
    BY <1>9, <1>10 DEF FoldsIn
  <2> QED
    BY <1>0, <1>1, <1>3, <2>1, FoldSteps
<1>12. ASSUME NEW k \in 1 .. n
       PROVE  h[k] = IF s[k] = CR THEN h[k - 1] ELSE Append(h[k - 1], s[k])
  <2>1. k - 1 \in 0 .. n
    BY <1>1
  <2>2. h[k - 1] \in V
    BY <1>11, <2>1 DEF StepsOver
  <2> QED
    BY <1>2, <1>11, <2>2 DEF StepsOver
<1> QED
  BY <1>8, <1>11, <1>12 DEF StepsOver, Keeps, n, V

\* The first k elements.
LEMMA CutIs ==
  ASSUME NEW S, NEW s \in Seq(S), NEW k \in 0 .. Len(s)
  PROVE  /\ SubSeq(s, 1, k) \in Seq(S) /\ Len(SubSeq(s, 1, k)) = k
         /\ \A j \in 1 .. k : SubSeq(s, 1, k)[j] = s[j]
OBVIOUS

AppendsLast(a, b, x) == Append(a \o b, x) = a \o Append(b, x)

\* What is appended to both is appended to the second.
LEMMA AppendToBoth ==
  ASSUME NEW S, NEW a \in Seq(S), NEW b \in Seq(S), NEW x \in S
  PROVE  AppendsLast(a, b, x) /\ Append(b, x) \in Seq(S)
<1> DEFINE l == Append(a \o b, x)
           r == a \o Append(b, x)
           n == Len(a) + Len(b) + 1
<1>1. l \in Seq(S) /\ Len(l) = n
  OBVIOUS
<1>2. r \in Seq(S) /\ Len(r) = n
  OBVIOUS
<1>3. \A i \in 1 .. n : l[i] = r[i]
  OBVIOUS
<1> HIDE DEF l, r
<1>4. l = r
  BY <1>1, <1>2, <1>3, SeqEqual
<1>5. Append(b, x) \in Seq(S)
  OBVIOUS
<1> QED
  BY <1>4, <1>5 DEF AppendsLast, l, r

\* The first k digits are read as what reading has got to after k digits.
LEMMA ValueOfCut ==
  ASSUME NEW s \in Seq(Nat), NEW h, Grows(h, s), NEW k \in 0 .. Len(s)
  PROVE  Value(SubSeq(s, 1, k)) = h[k]
<1> DEFINE p == SubSeq(s, 1, k)
           n == Len(s)
<1>1. p \in Seq(Nat) /\ Len(p) = k /\ k \in Nat /\ n \in Nat /\ \A j \in 1 .. k : p[j] = s[j]
  BY CutIs
<1>2. /\ h[0] = 0 /\ \A j \in 1 .. n : h[j] = 10 * h[j - 1] + s[j]
  BY DEF Grows
<1> HIDE DEF p
<1>3. PICK g : Grows(g, p)
  BY <1>1, ValueGrows
<1>4. g[0] = 0 /\ Value(p) = g[k] /\ \A j \in 1 .. k : g[j] = 10 * g[j - 1] + p[j]
  BY <1>1, <1>3 DEF Grows
<1> DEFINE T == {j \in Nat : j <= k => g[j] = h[j]}
<1>5. 0 \in T
  BY <1>2, <1>4
<1>6. ASSUME NEW j \in Nat, j \in T PROVE j + 1 \in T
  <2> SUFFICES ASSUME j + 1 <= k PROVE g[j + 1] = h[j + 1]
    OBVIOUS
  <2>1. j + 1 \in 1 .. k /\ j + 1 \in 1 .. n /\ (j + 1) - 1 = j
    BY <1>1
  <2>2. g[j] = h[j]
    BY <1>6, <2>1
  <2> QED
    BY <1>1, <1>2, <1>4, <2>1, <2>2
<1> HIDE DEF T
<1>7. k \in T
  BY <1>1, <1>5, <1>6, Induction
<1>8. g[k] = h[k]
  BY <1>1, <1>7 DEF T
<1> QED
  BY <1>4, <1>8 DEF p

\* The first digits of a number make a smaller one, and one more digit makes
\* it ten times larger and more.
LEMMA ValueOfMore ==
  ASSUME NEW s \in Seq(Nat)
  PROVE  /\ Value(s) \in Nat /\ Value(<<>>) = 0
         /\ \A k \in 0 .. Len(s) : Value(SubSeq(s, 1, k)) \in 0 .. Value(s)
         /\ \A c \in Nat : Value(Append(s, c)) = 10 * Value(s) + c
<1> DEFINE n == Len(s)
<1>1. PICK h : Grows(h, s)
  BY ValueGrows
<1>2. /\ n \in Nat /\ h[0] = 0 /\ Value(s) = h[n] /\ \A j \in 0 .. n : h[j] \in Nat
      /\ \A j \in 1 .. n : h[j] = 10 * h[j - 1] + s[j] /\ s[j] \in Nat
  <2>1. n \in Nat /\ \A j \in 1 .. n : s[j] \in Nat
    OBVIOUS
  <2>2. h \in [0 .. n -> Nat] /\ h[0] = 0 /\ Value(s) = h[n]
    BY <1>1 DEF Grows
  <2>3. \A j \in 1 .. n : h[j] = 10 * h[j - 1] + s[j]
    BY <1>1 DEF Grows
  <2> QED
    BY <2>1, <2>2, <2>3
<1> DEFINE T == {j \in Nat : j <= n => h[n - j] <= h[n]}
<1>3. 0 \in T
  <2>1. n - 0 = n /\ h[n] \in Nat
    BY <1>2
  <2> QED
    BY <2>1
<1>4. ASSUME NEW j \in Nat, j \in T PROVE j + 1 \in T
  <2> SUFFICES ASSUME j + 1 <= n PROVE h[n - (j + 1)] <= h[n]
    OBVIOUS
  <2> DEFINE i == n - j
  <2>1. i \in 1 .. n /\ i \in 0 .. n /\ i - 1 \in 0 .. n /\ i - 1 = n - (j + 1) /\ n \in 0 .. n
    BY <1>2
  <2>2. h[i] <= h[n]
    BY <1>4, <2>1
  <2> HIDE DEF i
  <2>3. h[i] = 10 * h[i - 1] + s[i] /\ s[i] \in Nat /\ h[i - 1] \in Nat /\ h[i] \in Nat /\ h[n] \in Nat
    BY <1>2, <2>1
  <2>4. h[i - 1] <= h[n]
    BY <2>2, <2>3
  <2> QED
    BY <2>1, <2>4
<1> HIDE DEF T
<1>5. \A j \in Nat : j \in T
  BY <1>3, <1>4, Induction
<1>6. ASSUME NEW k \in 0 .. n PROVE Value(SubSeq(s, 1, k)) \in 0 .. Value(s)
  <2>1. n - k \in Nat /\ n - k <= n /\ n - (n - k) = k
    BY <1>2
  <2>2. h[k] <= h[n]
    BY <1>5, <2>1 DEF T
  <2>3. Value(SubSeq(s, 1, k)) = h[k]
    BY <1>1, ValueOfCut
  <2> QED
    BY <1>2, <2>2, <2>3
<1>7. ASSUME NEW c \in Nat PROVE Value(Append(s, c)) = 10 * Value(s) + c
  <2> DEFINE a == Append(s, c)
  <2>1. a \in Seq(Nat) /\ Len(a) = n + 1 /\ a[n + 1] = c /\ SubSeq(a, 1, n) = s
    OBVIOUS
  <2> HIDE DEF a
  <2>2. PICK g : Grows(g, a)
    BY <2>1, ValueGrows
  <2>3. Value(s) = g[n]
    <3>1. n \in 0 .. Len(a)
      BY <1>2, <2>1
    <3>2. Value(SubSeq(a, 1, n)) = g[n]
      BY <2>1, <2>2, <3>1, ValueOfCut
    <3> QED
      BY <2>1, <3>2
  <2>4. Value(a) = 10 * g[n] + c
    <3>1. n + 1 \in 1 .. Len(a) /\ (n + 1) - 1 = n
      BY <1>2, <2>1
    <3>2. Value(a) = g[n + 1] /\ g[n + 1] = 10 * g[(n + 1) - 1] + a[n + 1]
      BY <2>1, <2>2, <3>1 DEF Grows
    <3> QED
      BY <2>1, <3>1, <3>2
  <2> QED
    BY <2>3, <2>4 DEF a
<1>8. Value(<<>>) = 0
  <2>1. 0 \in 0 .. n /\ SubSeq(s, 1, 0) = <<>>
    BY <1>2
  <2> QED
    BY <1>1, <1>2, <2>1, ValueOfCut
<1>9. Value(s) \in Nat
  BY <1>2
<1> QED
  BY <1>6, <1>7, <1>8, <1>9

\* What starts with no '\r' still starts so.
LEMMA WithoutCrStarts ==
  ASSUME NEW s \in Seq(Nat), NEW m \in 0 .. Len(s), \A i \in 1 .. m : s[i] # CR
  PROVE  /\ \E u \in Seq(Nat) : without_cr(s) = SubSeq(s, 1, m) \o u
         /\ m = Len(s) => without_cr(s) = s
<1> DEFINE n == Len(s)
           Starts(x) == \E u \in Seq(Nat) : x = SubSeq(s, 1, m) \o u
<1>1. PICK h : Keeps(h, s)
  BY WithoutCrKeeps
<1>2. /\ n \in Nat /\ m \in Nat /\ m <= n /\ h[0] = <<>> /\ without_cr(s) = h[n]
      /\ \A j \in 1 .. n : s[j] \in Nat
      /\ \A j \in 1 .. n : h[j] = IF s[j] = CR THEN h[j - 1] ELSE Append(h[j - 1], s[j])
  BY <1>1 DEF Keeps
<1> DEFINE T == {j \in Nat : j <= m => h[j] = SubSeq(s, 1, j)}
           U == {j \in Nat : m + j <= n => Starts(h[m + j])}
<1> HIDE DEF Starts
<1>3. 0 \in T
  <2>1. SubSeq(s, 1, 0) = <<>>
    OBVIOUS
  <2> QED
    BY <1>2, <2>1
<1>4. ASSUME NEW j \in Nat, j \in T PROVE j + 1 \in T
  <2> SUFFICES ASSUME j + 1 <= m PROVE h[j + 1] = SubSeq(s, 1, j + 1)
    OBVIOUS
  <2>1. j + 1 \in 1 .. n /\ j + 1 \in 1 .. m /\ (j + 1) - 1 = j /\ j <= m
    BY <1>2
  <2>2. h[j] = SubSeq(s, 1, j) /\ s[j + 1] # CR
    BY <1>4, <2>1
  <2>3. SubSeq(s, 1, j + 1) = Append(SubSeq(s, 1, (j + 1) - 1), s[j + 1])
    BY <2>1, OneMore
  <2>4. h[j + 1] = Append(h[(j + 1) - 1], s[j + 1])
    BY <1>2, <2>1, <2>2
  <2> QED
    BY <2>1, <2>2, <2>3, <2>4
<1> HIDE DEF T
<1>5. \A j \in Nat : j \in T
  BY <1>3, <1>4, Induction
<1>6. h[m] = SubSeq(s, 1, m)
  BY <1>2, <1>5 DEF T
<1>7. 0 \in U
  <2>1. SubSeq(s, 1, m) \in Seq(Nat)
    BY CutIs
  <2>2. <<>> \in Seq(Nat) /\ SubSeq(s, 1, m) = SubSeq(s, 1, m) \o <<>>
    BY <2>1, EmptyIs
  <2>3. Starts(h[m])
    BY <1>6, <2>2, Zenon DEF Starts
  <2>4. m + 0 = m
    BY <1>2
  <2> QED
    BY <2>3, <2>4
<1>8. ASSUME NEW j \in Nat, j \in U PROVE j + 1 \in U
  <2> SUFFICES ASSUME m + (j + 1) <= n PROVE Starts(h[m + (j + 1)])
    OBVIOUS
  <2> DEFINE i == m + (j + 1)
             p == SubSeq(s, 1, m)
  <2>1. i \in 1 .. n /\ i - 1 = m + j /\ m + j <= n
    BY <1>2
  <2>2. Starts(h[m + j])
    BY <1>8, <2>1
  <2> HIDE DEF i
  <2>3. PICK u \in Seq(Nat) : h[i - 1] = p \o u
    BY <2>1, <2>2 DEF Starts
  <2>4. CASE s[i] = CR
    <3>1. h[i] = h[i - 1]
      BY <1>2, <2>1, <2>4
    <3> QED
      BY <2>1, <2>2, <3>1 DEF i
  <2>5. CASE s[i] # CR
    <3>1. p \in Seq(Nat) /\ s[i] \in Nat
      BY <1>2, <2>1, CutIs
    <3> HIDE DEF p
    <3>2. Append(p \o u, s[i]) = p \o Append(u, s[i]) /\ Append(u, s[i]) \in Seq(Nat)
      <4> DEFINE x == s[i]
      <4>1. x \in Nat
        BY <3>1
      <4> HIDE DEF x
      <4>2. AppendsLast(p, u, x) /\ Append(u, x) \in Seq(Nat)
        BY <3>1, <4>1, AppendToBoth
      <4> QED
        BY <4>2 DEF AppendsLast, x
    <3>3. h[i] = p \o Append(u, s[i])
      BY <1>2, <2>1, <2>3, <2>5, <3>2
    <3> QED
      BY <3>2, <3>3 DEF Starts, p, i
  <2> QED
    BY <2>4, <2>5
<1> HIDE DEF U
<1>9. \A j \in Nat : j \in U
  BY <1>7, <1>8, Induction
<1>10. Starts(h[n])
  <2>1. n - m \in Nat /\ m + (n - m) = n /\ n <= n
    BY <1>2
  <2> QED
    BY <1>9, <2>1 DEF U
<1>11. m = n => without_cr(s) = s
  <2>1. SubSeq(s, 1, n) = s
    BY EmptyIs
  <2> QED
    BY <1>2, <1>6, <2>1
<1> QED
  BY <1>2, <1>10, <1>11 DEF Starts

-----------------------------------------------------------------------------
(***************************************************************************)
(* Numbers in decimal.                                                     *)
(***************************************************************************)

Decimals == 0 .. 9

\* A number in decimal, by its recursive definition: digits, at least one.
LEMMA DecimalIs ==
  /\ \A v \in Nat : Decimal[v] \in Seq(Decimals) /\ Len(Decimal[v]) >= 1
  /\ \A v \in 0 .. 9 : Decimal[v] = <<v>>
  /\ \A v \in Nat : v >= 10 => Decimal[v] = Append(Decimal[v \div 10], v % 10)
<1> DEFINE V    == {s \in Seq(Decimals) : Len(s) >= 1}
           Base == 0 .. 9
           base == [n \in Base |-> <<n>>]
           prev == [n \in Nat |-> n \div 10]
           step == [p \in Nat \X V |-> Append(p[2], p[1] % 10)]
           At(f, n) == IF n < 10 THEN <<n>> ELSE Append(f[n \div 10], n % 10)
           Code(f) == [n \in Nat |-> At(f, n)]
<1>1. \A n \in Nat : n \div 10 \in Nat /\ n % 10 \in Decimals /\ (n \notin Base => n \div 10 < n)
  BY DEF Decimals
<1>2. Descends(prev, Base)
  <2>1. \A n \in Nat : prev[n] = n \div 10
    OBVIOUS
  <2> HIDE DEF prev, Base
  <2> QED
    BY <1>1, <2>1 DEF Descends
<1>3. StartsIn(base, Base, V)
  <2> SUFFICES ASSUME NEW n \in Base PROVE base[n] \in V
    BY DEF StartsIn
  <2>1. n \in Decimals
    BY DEF Decimals
  <2>2. <<n>> \in Seq(Decimals) /\ Len(<<n>>) = 1
    BY <2>1
  <2> QED
    BY <2>2
<1>4. \A n \in Nat, s \in V : step[<<n, s>>] = Append(s, n % 10) /\ step[<<n, s>>] \in V
  <2> SUFFICES ASSUME NEW n \in Nat, NEW s \in V
               PROVE  step[<<n, s>>] = Append(s, n % 10) /\ step[<<n, s>>] \in V
    OBVIOUS
  <2>1. step[<<n, s>>] = Append(s, n % 10)
    OBVIOUS
  <2> DEFINE d == n % 10
  <2>2. d \in Decimals /\ s \in Seq(Decimals) /\ Len(s) >= 1
    BY <1>1
  <2> HIDE DEF d
  <2>3. Append(s, d) \in Seq(Decimals) /\ Len(Append(s, d)) = Len(s) + 1 /\ Len(s) \in Nat
    BY <2>2
  <2>4. Append(s, d) \in V
    BY <2>2, <2>3
  <2> HIDE DEF V, step
  <2> QED
    BY <2>1, <2>4 DEF d
<1> HIDE DEF V
<1>5. StepsIn(step, Base, V)
  BY <1>4 DEF StepsIn
<1>6. PICK f \in [Nat -> V] : Recurs(f, Base, base, prev, step)
  <2> HIDE DEF Base, base, prev, step
  <2> QED
    BY <1>2, <1>3, <1>5, TypedNumberRecursion
<1>7. ASSUME NEW n \in Nat PROVE f[n] = At(f, n)
  <2>1. f[n] = IF n \in Base THEN base[n] ELSE step[<<n, f[prev[n]]>>]
    BY <1>6 DEF Recurs
  <2>2. CASE n \in Base
    BY <2>1, <2>2
  <2>3. CASE n \notin Base
    <3>1. prev[n] = n \div 10 /\ f[n \div 10] \in V
      BY <1>1, <1>6
    <3>2. step[<<n, f[n \div 10]>>] = Append(f[n \div 10], n % 10)
      BY <1>4, <3>1
    <3>3. ~(n < 10)
      BY <2>3
    <3> HIDE DEF step, prev, base
    <3> QED
      BY <2>1, <2>3, <3>1, <3>2, <3>3
  <2> QED
    BY <2>2, <2>3
<1>8. f = Code(f)
  <2>1. f = [n \in Nat |-> f[n]]
    BY <1>6
  <2> HIDE DEF At
  <2> QED
    BY <1>7, <2>1, Zenon
<1>9. Decimal = CHOOSE g : g = Code(g)
  BY DEF Decimal
<1> HIDE DEF Code
<1>10. Decimal = Code(Decimal)
  BY <1>8, <1>9
<1>11. \A n \in Nat : Decimal[n] = At(Decimal, n)
  <2> DEFINE v == Code(Decimal)
  <2>1. \A n \in Nat : v[n] = At(Decimal, n)
    BY DEF Code
  <2> HIDE DEF v
  <2>2. Decimal = v
    BY <1>10 DEF v
  <2> HIDE DEF At
  <2> QED
    BY <2>1, <2>2
<1> DEFINE T == {n \in Nat : Decimal[n] \in V}
<1>12. ASSUME NEW n \in Nat, \A k \in Nat : k < n => k \in T PROVE n \in T
  <2>1. CASE n \in Base
    <3>1. Decimal[n] = <<n>> /\ base[n] = <<n>>
      BY <1>11, <2>1
    <3>2. base[n] \in V
      BY <1>3, <2>1 DEF StartsIn
    <3> QED
      BY <3>1, <3>2
  <2>2. CASE n \notin Base
    <3>1. Decimal[n] = Append(Decimal[n \div 10], n % 10)
      <4>1. ~(n < 10)
        BY <2>2
      <4>2. At(Decimal, n) = Append(Decimal[n \div 10], n % 10)
        BY <4>1, Zenon
      <4> HIDE DEF At
      <4> QED
        BY <1>11, <4>2, Zenon
    <3>2. Decimal[n \div 10] \in V
      BY <1>1, <1>12, <2>2
    <3>3. step[<<n, Decimal[n \div 10]>>] \in V
          /\ step[<<n, Decimal[n \div 10]>>] = Append(Decimal[n \div 10], n % 10)
      BY <1>4, <3>2
    <3> QED
      BY <3>1, <3>3
  <2> QED
    BY <2>1, <2>2
<1> HIDE DEF T
<1>13. \A n \in Nat : n \in T
  BY <1>12, StrongInduction
<1>14. \A n \in Nat : Decimal[n] \in Seq(Decimals) /\ Len(Decimal[n]) >= 1
  BY <1>13 DEF T, V
<1>15. \A n \in 0 .. 9 : Decimal[n] = <<n>>
  <2> SUFFICES ASSUME NEW n \in 0 .. 9 PROVE Decimal[n] = <<n>>
    OBVIOUS
  <2>1. n \in Nat /\ n < 10
    OBVIOUS
  <2>2. At(Decimal, n) = <<n>>
    BY <2>1
  <2> HIDE DEF At
  <2> QED
    BY <1>11, <2>1, <2>2, Zenon
<1>16. \A n \in Nat : n >= 10 => Decimal[n] = Append(Decimal[n \div 10], n % 10)
  <2> SUFFICES ASSUME NEW n \in Nat, n >= 10
               PROVE  Decimal[n] = Append(Decimal[n \div 10], n % 10)
    OBVIOUS
  <2>1. ~(n < 10)
    OBVIOUS
  <2>2. At(Decimal, n) = Append(Decimal[n \div 10], n % 10)
    BY <2>1, Zenon
  <2> HIDE DEF At
  <2> QED
    BY <1>11, <2>2, Zenon
<1> QED
  BY <1>14, <1>15, <1>16

\* A number written in decimal is read as that number.
LEMMA ValueOfDecimal ==
  ASSUME NEW v \in Nat
  PROVE  Value(Decimal[v]) = v /\ Decimal[v] \in Seq(Nat)
<1>1. ASSUME NEW n \in Nat PROVE Decimal[n] \in Seq(Nat)
  <2>1. Decimals \subseteq Nat
    BY DEF Decimals
  <2> QED
    BY <2>1, DecimalIs, SeqMonotonic
<1> DEFINE T == {n \in Nat : Value(Decimal[n]) = n}
<1>2. ASSUME NEW n \in Nat, \A k \in Nat : k < n => k \in T PROVE n \in T
  <2>1. CASE n < 10
    <3>1. Decimal[n] = <<n>> /\ <<n>> = Append(<<>>, n) /\ <<>> \in Seq(Nat)
      <4>1. n \in 0 .. 9
        BY <2>1
      <4>2. Decimal[n] = <<n>>
        BY <4>1, DecimalIs, Zenon
      <4>3. <<n>> = Append(<<>>, n) /\ <<>> \in Seq(Nat)
        OBVIOUS
      <4> QED
        BY <4>2, <4>3
    <3>2. Value(<<>>) = 0 /\ Value(Append(<<>>, n)) = 10 * Value(<<>>) + n
      BY <3>1, ValueOfMore
    <3> QED
      BY <3>1, <3>2
  <2>2. CASE n >= 10
    <3> DEFINE q == n \div 10
               d == n % 10
    <3>1. q \in Nat /\ q < n /\ d \in Nat /\ n = 10 * q + d
      BY <2>2
    <3>2. Decimal[n] = Append(Decimal[q], d)
      BY <2>2, DecimalIs
    <3> HIDE DEF q, d
    <3>3. Value(Decimal[q]) = q
      BY <1>2, <3>1
    <3>4. Value(Append(Decimal[q], d)) = 10 * Value(Decimal[q]) + d
      BY <1>1, <3>1, ValueOfMore
    <3> QED
      BY <3>1, <3>2, <3>3, <3>4
  <2> QED
    BY <2>1, <2>2
<1> HIDE DEF T
<1>3. v \in T
  BY <1>2, StrongInduction
<1> QED
  BY <1>1, <1>3 DEF T

\* Characters are looked for from the front.
IsFirst(k, I, n) == I \in SUBSET (1 .. n) /\ k \in I /\ \A i \in I : k <= i

\* The first position is the smallest.
LEMMA FirstAt ==
  ASSUME NEW n \in Nat, NEW I, NEW k, IsFirst(k, I, n)
  PROVE  I # {} /\ Min(I) = k
<1>1. I \in SUBSET Nat /\ I # {} /\ k \in I /\ \A i \in I : k <= i
  BY DEF IsFirst
<1>2. Min(I) \in I /\ \A i \in I : Min(I) <= i
  BY <1>1, SmallestNumber
<1>3. Min(I) <= k /\ k <= Min(I) /\ Min(I) \in Nat /\ k \in Nat
  BY <1>1, <1>2
<1> QED
  BY <1>1, <1>3

\* Digits are all read, and only digits.
LEMMA FromCharsIs ==
  ASSUME NEW t \in Seq(Decimals), Len(t) >= 1
  PROVE  FromChars(t) = Value(t)
<1> DEFINE n == Len(t)
           a == Append(t, NL)
           I == {i \in 1 .. Len(a) : a[i] > 9}
<1>1. n \in Nat /\ Len(a) = n + 1 /\ a[n + 1] = NL /\ \A i \in 1 .. n : a[i] = t[i] /\ t[i] \in 0 .. 9
  BY DEF Decimals
<1>2. IsFirst(n + 1, I, n + 1) /\ n + 1 \in Nat
  <2> HIDE DEF a
  <2>1. I \in SUBSET (1 .. n + 1)
    BY <1>1
  <2>2. n + 1 \in I
    BY <1>1 DEF NL
  <2>3. \A i \in I : n + 1 <= i
    BY <1>1
  <2> QED
    BY <1>1, <2>1, <2>2, <2>3 DEF IsFirst
<1>3. SelectInSeq(a, LAMBDA c : c > 9) = IF I # {} THEN Min(I) ELSE 0
  BY DEF SelectInSeq
<1> HIDE DEF I, a
<1>4. I # {} /\ Min(I) = n + 1
  BY <1>2, FirstAt
<1>5. SelectInSeq(a, LAMBDA c : c > 9) = n + 1
  BY <1>3, <1>4
<1> DEFINE end == SelectInSeq(a, LAMBDA c : c > 9) - 1
<1>6. end = n /\ n # 0
  BY <1>1, <1>5
<1>7. FromChars(t) = IF end = 0 THEN Unset ELSE Value(SubSeq(t, 1, end))
  BY DEF FromChars, Value, a
<1> HIDE DEF end
<1>8. SubSeq(t, 1, n) = t
  BY EmptyIs
<1> QED
  BY <1>6, <1>7, <1>8

-----------------------------------------------------------------------------
(***************************************************************************)
(* A line, and what its parts are read as.                                 *)
(***************************************************************************)

Free(s, c) == s \in Seq(Nat) /\ \A i \in 1 .. Len(s) : s[i] # c

\* What is in neither is not in both joined.
LEMMA FreeOfBoth ==
  ASSUME NEW c, NEW a, NEW b, Free(a, c), Free(b, c)
  PROVE  Free(a \o b, c)
<1>1. a \in Seq(Nat) /\ b \in Seq(Nat) /\ a \o b \in Seq(Nat)
  BY Joined DEF Free
<1>2. ASSUME NEW i \in 1 .. Len(a \o b) PROVE (a \o b)[i] # c
  <2>1. Len(a \o b) = Len(a) + Len(b) /\ Len(a) \in Nat /\ Len(b) \in Nat
    BY <1>1, Joined
  <2>2. CASE i <= Len(a)
    <3>1. i \in 1 .. Len(a) /\ (a \o b)[i] = a[i]
      BY <1>1, <2>1, <2>2
    <3> QED
      BY <3>1 DEF Free
  <2>3. CASE i > Len(a)
    <3>1. i - Len(a) \in 1 .. Len(b) /\ (a \o b)[i] = b[i - Len(a)]
      BY <1>1, <2>1, <2>3
    <3> QED
      BY <3>1 DEF Free
  <2> QED
    BY <2>1, <2>2, <2>3
<1> QED
  BY <1>1, <1>2 DEF Free

\* A number in decimal has digits only.
LEMMA FreeDecimal ==
  ASSUME NEW v \in Nat, NEW c \in Nat, c > 9
  PROVE  Free(Decimal[v], c)
<1> DEFINE s == Decimal[v]
<1>1. s \in Seq(Decimals) /\ s \in Seq(Nat)
  BY DecimalIs, ValueOfDecimal
<1> HIDE DEF s
<1>2. \A i \in 1 .. Len(s) : s[i] \in 0 .. 9
  BY <1>1 DEF Decimals
<1>3. \A i \in 1 .. Len(s) : s[i] # c
  BY <1>2
<1> QED
  BY <1>1, <1>3 DEF Free, s

\* What is appended is last.
LEMMA EndOfAppended ==
  ASSUME NEW s \in Seq(Nat), NEW x \in Nat
  PROVE  /\ Len(Append(s, x)) = Len(s) + 1 /\ Append(s, x)[Len(s) + 1] = x
         /\ \A i \in 1 .. Len(s) : Append(s, x)[i] = s[i]
OBVIOUS

Continues(a, b, i) == (a \o b)[Len(a) + i] = b[i]

\* The elements of the second sequence come after those of the first.
LEMMA AfterOne ==
  ASSUME NEW S, NEW a \in Seq(S), NEW b \in Seq(S), NEW i \in 1 .. Len(b)
  PROVE  Continues(a, b, i)
BY DEF Continues

\* The first of some characters that are c.
LEMMA FirstIs ==
  ASSUME NEW s \in Seq(Nat), NEW c \in Nat, NEW k \in 1 .. Len(s) + 1,
         k <= Len(s) => s[k] = c, \A i \in 1 .. k - 1 : s[i] # c
  PROVE  SelectInSeq(Append(s, c), LAMBDA x : x = c) = k
<1> DEFINE a == Append(s, c)
           n == Len(s)
           I == {i \in 1 .. Len(a) : a[i] = c}
<1>1. n \in Nat
  OBVIOUS
<1>2. Len(a) = n + 1 /\ a[n + 1] = c /\ \A i \in 1 .. n : a[i] = s[i]
  BY EndOfAppended
<1> HIDE DEF a
<1>3. a[k] = c
  <2>1. CASE k <= n
    BY <1>1, <1>2, <2>1
  <2>2. CASE k > n
    BY <1>1, <1>2, <2>2
  <2> QED
    BY <1>1, <2>1, <2>2
<1>4. \A i \in I : k <= i
  <2> SUFFICES ASSUME NEW i \in I, i < k PROVE FALSE
    BY <1>1, <1>2
  <2>1. i \in 1 .. k - 1 /\ i \in 1 .. n /\ a[i] = c
    BY <1>1, <1>2
  <2> QED
    BY <1>2, <2>1
<1>5. IsFirst(k, I, n + 1) /\ n + 1 \in Nat
  <2>1. k \in I /\ I \subseteq 1 .. n + 1
    BY <1>2, <1>3
  <2> HIDE DEF I
  <2> QED
    BY <1>1, <1>4, <2>1 DEF IsFirst
<1>6. SelectInSeq(a, LAMBDA x : x = c) = IF I # {} THEN Min(I) ELSE 0
  BY DEF SelectInSeq
<1> HIDE DEF I
<1>7. I # {} /\ Min(I) = k
  BY <1>5, FirstAt
<1> QED
  BY <1>6, <1>7 DEF a

\* What is joined by a separator is split there, if it is the first.
LEMMA SplitIs ==
  ASSUME NEW p, Free(p, Bar), NEW r \in Seq(Nat)
  PROVE  Before(p \o (<<Bar>> \o r)) = p /\ After(p \o (<<Bar>> \o r)) = r
<1> DEFINE n == Len(p)
           b == <<Bar>>
           q == b \o r
           h == p \o b
           t == p \o q
<1>1. p \in Seq(Nat) /\ n \in Nat /\ \A i \in 1 .. n : p[i] # Bar
  BY DEF Free
<1>2. b \in Seq(Nat) /\ Len(b) = 1 /\ Bar \in Nat /\ b[1] = Bar
  BY DEF Bar
<1> HIDE DEF b
<1>3. q \in Seq(Nat) /\ h \in Seq(Nat) /\ Len(h) = n + 1
  BY <1>1, <1>2, Joined
<1>4. h[n + 1] = Bar
  <2>1. 1 \in 1 .. Len(b)
    BY <1>2
  <2>2. Continues(p, b, 1)
    BY <1>1, <1>2, <2>1, AfterOne
  <2> QED
    BY <1>2, <2>2, Zenon DEF Continues
<1>5. t = h \o r
  <2>1. Associate(p, b, r)
    BY <1>1, <1>2, Associates
  <2> QED
    BY <2>1, Zenon DEF Associate
<1> HIDE DEF h
<1>6. t \in Seq(Nat) /\ Len(t) = (n + 1) + Len(r) /\ Len(r) \in Nat
  BY <1>3, <1>5, Joined
<1>7. t[n + 1] = Bar
  BY <1>1, <1>3, <1>4, <1>5
<1> HIDE DEF q
<1>8. \A i \in 1 .. n : t[i] = p[i]
  BY <1>1, <1>3
<1>9. SubSeq(t, 1, n) = p
  BY <1>1, <1>3, RestOfBoth
<1>10. SubSeq(t, (n + 1) + 1, Len(t)) = r
  BY <1>3, <1>5, RestOfBoth
<1> HIDE DEF t
<1>11. SelectInSeq(Append(t, Bar), LAMBDA c : c = Bar) = n + 1
  <2> DEFINE k == n + 1
  <2>1. k \in 1 .. Len(t) + 1 /\ t[k] = Bar
    BY <1>1, <1>6, <1>7
  <2>2. \A i \in 1 .. k - 1 : t[i] # Bar
    BY <1>1, <1>8
  <2> HIDE DEF k
  <2>3. SelectInSeq(Append(t, Bar), LAMBDA c : c = Bar) = k
    BY <1>2, <1>6, <2>1, <2>2, FirstIs
  <2> QED
    BY <2>3 DEF k
<1>12. Before(t) = p
  <2>1. Before(t) = SubSeq(t, 1, SelectInSeq(Append(t, Bar), LAMBDA c : c = Bar) - 1)
    BY DEF Before
  <2>2. (n + 1) - 1 = n
    BY <1>1
  <2> QED
    BY <1>9, <1>11, <2>1, <2>2
<1>13. After(t) = r
  <2>1. After(t) = SubSeq(t, n + 2, Len(t))
    BY <1>12 DEF After
  <2>2. (n + 1) + 1 = n + 2
    BY <1>1
  <2> QED
    BY <1>10, <2>1, <2>2
<1> QED
  BY <1>12, <1>13 DEF t, q, b

\* What has no separator is not split.
LEMMA UnsplitIs ==
  ASSUME NEW p, Free(p, Bar)
  PROVE  Before(p) = p
<1> DEFINE n == Len(p)
           a == Append(p, Bar)
           I == {i \in 1 .. Len(a) : a[i] = Bar}
<1>1. p \in Seq(Nat) /\ n \in Nat /\ \A i \in 1 .. n : p[i] # Bar
  BY DEF Free
<1>2. Len(a) = n + 1 /\ a[n + 1] = Bar /\ \A i \in 1 .. n : a[i] = p[i]
  BY <1>1 DEF Bar
<1> HIDE DEF a
<1>3. IsFirst(n + 1, I, n + 1) /\ n + 1 \in Nat
  <2>1. \A i \in I : n + 1 <= i
    BY <1>1, <1>2
  <2> QED
    BY <1>1, <1>2, <2>1 DEF IsFirst
<1>4. SelectInSeq(a, LAMBDA c : c = Bar) = IF I # {} THEN Min(I) ELSE 0
  BY DEF SelectInSeq
<1> HIDE DEF I
<1>5. I # {} /\ Min(I) = n + 1
  BY <1>3, FirstAt
<1>6. SelectInSeq(a, LAMBDA c : c = Bar) - 1 = n
  BY <1>1, <1>4, <1>5
<1>7. Before(p) = SubSeq(p, 1, SelectInSeq(a, LAMBDA c : c = Bar) - 1)
  BY DEF Before, a
<1>8. SubSeq(p, 1, n) = p
  BY <1>1, EmptyIs
<1> QED
  BY <1>6, <1>7, <1>8

\* A line, from its front.
Rest3(e) == Decimal[e.log_type] \o (<<Bar>> \o Decimal[e.value])
Rest2(e) == Decimal[e.timestamp_ms] \o (<<Bar>> \o Rest3(e))
Rest1(e) == e.process_name \o (<<Bar>> \o Rest2(e))
Line(e)  == Decimal[e.id] \o (<<Bar>> \o Rest1(e))

\* A line and the rests of it are characters, and the file gets the line and a
\* newline.
LEMMA LineIs ==
  ASSUME NEW e \in LogEntry
  PROVE  /\ e.id \in Nat /\ e.timestamp_ms \in Nat /\ e.log_type \in Nat /\ e.value \in Nat
         /\ e.process_name \in Seq(Nat)
         /\ Rest3(e) \in Seq(Nat) /\ Rest2(e) \in Seq(Nat) /\ Rest1(e) \in Seq(Nat)
         /\ Line(e) \in Seq(Nat) /\ serialize_str(e) = Line(e) \o <<NL>>
<1>1. /\ e.id \in Nat /\ e.timestamp_ms \in Nat /\ e.log_type \in Nat /\ e.value \in Nat
      /\ e.process_name \in Seq(Nat)
  <2>1. Pow[8] \in Nat /\ Pow[4] \in Nat
    BY PowIs
  <2>2. Unsigned(8) \subseteq Nat /\ Unsigned(4) \subseteq Nat
    BY <2>1 DEF Unsigned
  <2> QED
    BY <2>2 DEF LogEntry
<1> DEFINE a == Decimal[e.id]
           b == <<Bar>>
           m == e.process_name
           c == Decimal[e.timestamp_ms]
           d == Decimal[e.log_type]
           v == Decimal[e.value]
           r3 == d \o (b \o v)
           r2 == c \o (b \o r3)
           r1 == m \o (b \o r2)
           x1 == a \o b
           x2 == x1 \o m
           x3 == x2 \o b
           x4 == x3 \o c
           x5 == x4 \o b
           x6 == x5 \o d
           x7 == x6 \o b
<1>2. a \in Seq(Nat) /\ c \in Seq(Nat) /\ d \in Seq(Nat) /\ v \in Seq(Nat) /\ m \in Seq(Nat)
  BY <1>1, ValueOfDecimal
<1>3. b \in Seq(Nat)
  BY DEF Bar
<1>4. serialize_str(e) = (x7 \o v) \o <<NL>>
  BY DEF serialize_str
<1>5. Rest3(e) = r3 /\ Rest2(e) = r2 /\ Rest1(e) = r1 /\ Line(e) = a \o (b \o r1)
  BY DEF Rest3, Rest2, Rest1, Line
<1> HIDE DEF a, b, c, d, v, m
<1> DEFINE y3 == b \o v
           y2 == b \o r3
           y1 == b \o r2
           y0 == b \o r1
<1>6. y3 \in Seq(Nat) /\ r3 \in Seq(Nat)
  <2>1. y3 \in Seq(Nat)
    BY <1>2, <1>3, Joined
  <2> QED
    BY <1>2, <2>1, Joined
<1> HIDE DEF r3
<1>7. y2 \in Seq(Nat) /\ r2 \in Seq(Nat)
  <2>1. y2 \in Seq(Nat)
    BY <1>3, <1>6, Joined
  <2> QED
    BY <1>2, <2>1, Joined
<1> HIDE DEF r2
<1>8. y1 \in Seq(Nat) /\ r1 \in Seq(Nat)
  <2>1. y1 \in Seq(Nat)
    BY <1>3, <1>7, Joined
  <2> QED
    BY <1>2, <2>1, Joined
<1> HIDE DEF r1
<1>9. y0 \in Seq(Nat) /\ a \o y0 \in Seq(Nat)
  <2>1. y0 \in Seq(Nat)
    BY <1>3, <1>8, Joined
  <2> QED
    BY <1>2, <2>1, Joined
<1>10. x1 \in Seq(Nat)
  BY <1>2, <1>3, Joined
<1> HIDE DEF x1
<1>11. x2 \in Seq(Nat)
  BY <1>2, <1>10, Joined
<1> HIDE DEF x2
<1>12. x3 \in Seq(Nat)
  BY <1>3, <1>11, Joined
<1> HIDE DEF x3
<1>13. x4 \in Seq(Nat)
  BY <1>2, <1>12, Joined
<1> HIDE DEF x4
<1>14. x5 \in Seq(Nat)
  BY <1>3, <1>13, Joined
<1> HIDE DEF x5
<1>15. x6 \in Seq(Nat)
  BY <1>2, <1>14, Joined
<1> HIDE DEF x6, x7, y0, y1, y2, y3
<1>16. Associate(x6, b, v)
  BY <1>2, <1>3, <1>15, Associates
<1>17. Associate(x5, d, y3)
  BY <1>2, <1>6, <1>14, Associates
<1>18. Associate(x4, b, r3)
  BY <1>3, <1>6, <1>13, Associates
<1>19. Associate(x3, c, y2)
  BY <1>2, <1>7, <1>12, Associates
<1>20. Associate(x2, b, r2)
  BY <1>3, <1>7, <1>11, Associates
<1>21. Associate(x1, m, y1)
  BY <1>2, <1>8, <1>10, Associates
<1>22. Associate(a, b, r1)
  BY <1>2, <1>3, <1>8, Associates
<1>23. x7 \o v = a \o y0
  <2>1. x7 \o v = x6 \o y3
    BY <1>16, Zenon DEF Associate, x7, y3
  <2>2. x6 \o y3 = x5 \o r3
    BY <1>17, Zenon DEF Associate, x6, r3, y3
  <2>3. x5 \o r3 = x4 \o y2
    BY <1>18, Zenon DEF Associate, x5, y2
  <2>4. x4 \o y2 = x3 \o r2
    BY <1>19, Zenon DEF Associate, x4, y2, r2
  <2>5. x3 \o r2 = x2 \o y1
    BY <1>20, Zenon DEF Associate, x3, y1
  <2>6. x2 \o y1 = x1 \o r1
    BY <1>21, Zenon DEF Associate, x2, y1, r1
  <2>7. x1 \o r1 = a \o y0
    BY <1>22, Zenon DEF Associate, x1, y0
  <2> QED
    BY <2>1, <2>2, <2>3, <2>4, <2>5, <2>6, <2>7, Zenon
<1>24. Line(e) = a \o y0
  BY <1>5 DEF y0
<1> QED
  BY <1>1, <1>4, <1>5, <1>6, <1>7, <1>8, <1>9, <1>23, <1>24, Zenon

\* A number in decimal is read as it was, with nothing after it or with a
\* separator.
LEMMA ReadDecimal ==
  ASSUME NEW v \in Nat
  PROVE  /\ Free(Decimal[v], Bar) /\ Len(Decimal[v]) >= 1
         /\ FromChars(Decimal[v]) = v
         /\ FromChars(Before(Decimal[v])) = v
         /\ \A r \in Seq(Nat) : FromChars(Before(Decimal[v] \o (<<Bar>> \o r))) = v
<1> DEFINE d == Decimal[v]
<1>1. Free(d, Bar)
  <2>1. Bar \in Nat /\ Bar > 9
    BY DEF Bar
  <2> QED
    BY <2>1, FreeDecimal
<1>2. d \in Seq(Decimals) /\ Len(d) >= 1
  BY DecimalIs
<1>3. Value(d) = v
  BY ValueOfDecimal
<1> HIDE DEF d
<1>4. FromChars(d) = v
  BY <1>2, <1>3, FromCharsIs
<1>5. Before(d) = d
  BY <1>1, UnsplitIs
<1>6. ASSUME NEW r \in Seq(Nat) PROVE FromChars(Before(d \o (<<Bar>> \o r))) = v
  <2>1. Before(d \o (<<Bar>> \o r)) = d
    BY <1>1, SplitIs
  <2> QED
    BY <1>4, <2>1
<1> QED
  BY <1>1, <1>2, <1>4, <1>5, <1>6 DEF d

\* What is read of a line.
LEMMA ReadLine ==
  ASSUME NEW e \in LogEntry
  PROVE  /\ deserialize_str(Line(e)).id = e.id
         /\ Bar \notin ToSet(e.process_name) => deserialize_str(Line(e)) = e
<1> DEFINE d == deserialize_str(Line(e))
<1>1. /\ e.id \in Nat /\ e.timestamp_ms \in Nat /\ e.log_type \in Nat /\ e.value \in Nat
      /\ e.process_name \in Seq(Nat)
      /\ Rest3(e) \in Seq(Nat) /\ Rest2(e) \in Seq(Nat) /\ Rest1(e) \in Seq(Nat)
  BY LineIs
<1>2. d = [id |-> FromChars(Before(Line(e))),
           process_name |-> Before(After(Line(e))),
           timestamp_ms |-> FromChars(Before(After(After(Line(e))))),
           log_type |-> FromChars(Before(After(After(After(Line(e)))))),
           value |-> FromChars(Before(After(After(After(After(Line(e)))))))]
  BY DEF deserialize_str
<1> HIDE DEF d
<1>3. FromChars(Before(Line(e))) = e.id /\ After(Line(e)) = Rest1(e)
  <2>1. Line(e) = Decimal[e.id] \o (<<Bar>> \o Rest1(e))
    BY DEF Line
  <2>2. Free(Decimal[e.id], Bar)
    BY <1>1, ReadDecimal
  <2>3. After(Decimal[e.id] \o (<<Bar>> \o Rest1(e))) = Rest1(e)
    BY <1>1, <2>2, SplitIs
  <2>4. FromChars(Before(Decimal[e.id] \o (<<Bar>> \o Rest1(e)))) = e.id
    BY <1>1, ReadDecimal
  <2> QED
    BY <2>1, <2>3, <2>4
<1>4. d.id = e.id
  BY <1>2, <1>3
<1>5. ASSUME Bar \notin ToSet(e.process_name) PROVE d = e
  <2>1. Before(Rest1(e)) = e.process_name /\ After(Rest1(e)) = Rest2(e)
    <3>1. Free(e.process_name, Bar)
      <4>1. \A i \in 1 .. Len(e.process_name) : e.process_name[i] \in ToSet(e.process_name)
        BY <1>1 DEF ToSet
      <4> QED
        BY <1>1, <1>5, <4>1 DEF Free
    <3>2. /\ Before(e.process_name \o (<<Bar>> \o Rest2(e))) = e.process_name
          /\ After(e.process_name \o (<<Bar>> \o Rest2(e))) = Rest2(e)
      BY <1>1, <3>1, SplitIs
    <3> QED
      BY <3>2 DEF Rest1
  <2>2. FromChars(Before(Rest2(e))) = e.timestamp_ms /\ After(Rest2(e)) = Rest3(e)
    <3>1. Free(Decimal[e.timestamp_ms], Bar)
      BY <1>1, ReadDecimal
    <3>2. After(Decimal[e.timestamp_ms] \o (<<Bar>> \o Rest3(e))) = Rest3(e)
      BY <1>1, <3>1, SplitIs
    <3>3. FromChars(Before(Decimal[e.timestamp_ms] \o (<<Bar>> \o Rest3(e)))) = e.timestamp_ms
      BY <1>1, ReadDecimal
    <3> QED
      BY <3>2, <3>3 DEF Rest2
  <2>3. FromChars(Before(Rest3(e))) = e.log_type /\ After(Rest3(e)) = Decimal[e.value]
    <3>1. Free(Decimal[e.log_type], Bar) /\ Decimal[e.value] \in Seq(Nat)
      BY <1>1, ReadDecimal, ValueOfDecimal
    <3>2. After(Decimal[e.log_type] \o (<<Bar>> \o Decimal[e.value])) = Decimal[e.value]
      BY <3>1, SplitIs
    <3>3. FromChars(Before(Decimal[e.log_type] \o (<<Bar>> \o Decimal[e.value]))) = e.log_type
      BY <1>1, <3>1, ReadDecimal
    <3> QED
      BY <3>2, <3>3 DEF Rest3
  <2>4. FromChars(Before(Decimal[e.value])) = e.value
    BY <1>1, ReadDecimal
  <2>5. d = [id |-> e.id, process_name |-> e.process_name, timestamp_ms |-> e.timestamp_ms,
             log_type |-> e.log_type, value |-> e.value]
    BY <1>2, <1>3, <2>1, <2>2, <2>3, <2>4
  <2>6. e = [id |-> e.id, process_name |-> e.process_name, timestamp_ms |-> e.timestamp_ms,
             log_type |-> e.log_type, value |-> e.value]
    BY DEF LogEntry
  <2> QED
    BY <2>5, <2>6
<1> QED
  BY <1>4, <1>5 DEF d

\* A line without its newline is the line.
LEMMA FrontIs ==
  ASSUME NEW e \in LogEntry
  PROVE  Front(serialize_str(e)) = Line(e) /\ Len(serialize_str(e)) = Len(Line(e)) + 1
<1> DEFINE l == Line(e)
           s == serialize_str(e)
           b == <<NL>>
<1>1. l \in Seq(Nat) /\ s = l \o b
  BY LineIs
<1>2. b \in Seq(Nat) /\ Len(b) = 1
  BY DEF NL
<1>3. Front(s) = SubSeq(s, 1, Len(s) - 1)
  BY DEF Front
<1> HIDE DEF l, s, b
<1>4. Len(s) = Len(l) + 1 /\ Len(l) \in Nat
  BY <1>1, <1>2, Joined
<1>5. SubSeq(s, 1, Len(l)) = l
  BY <1>1, <1>2, RestOfBoth
<1>6. Len(s) - 1 = Len(l)
  BY <1>4
<1> QED
  BY <1>3, <1>4, <1>5, <1>6 DEF l, s

\* What the client reads back after a restart is what it wrote, or at least
\* its id.
LEMMA LogSurvives ==
  ASSUME NEW es \in Seq(LogEntry)
  PROVE  LogSurvivesRestart(es)
<1> SUFFICES ASSUME NEW n \in DOMAIN es
             PROVE  LET back == deserialize_str(Front(serialize_str(es[n]))) IN
                      /\ back.id = es[n].id
                      /\ Bar \notin ToSet(es[n].process_name) => back = es[n]
  BY DEF LogSurvivesRestart
<1> DEFINE e == es[n]
<1>1. e \in LogEntry
  OBVIOUS
<1> HIDE DEF e
<1>2. Front(serialize_str(e)) = Line(e)
  BY <1>1, FrontIs
<1>3. /\ deserialize_str(Line(e)).id = e.id
      /\ Bar \notin ToSet(e.process_name) => deserialize_str(Line(e)) = e
  BY <1>1, ReadLine
<1> QED
  BY <1>2, <1>3 DEF e

-----------------------------------------------------------------------------
(***************************************************************************)
(* The last line of a file.                                                *)
(***************************************************************************)

\* The last position is the largest.
LEMMA LastAt ==
  ASSUME NEW n \in Nat, NEW I \in SUBSET (1 .. n), I # {}
  PROVE  Max(I) \in I /\ Max(I) \in 1 .. n /\ \A i \in I : i <= Max(I)
BY LargestOf

\* The elements from n + 1 on.
LEMMA MiddleIs ==
  ASSUME NEW s \in Seq(Nat), NEW n \in Nat, NEW k \in Nat, n + k <= Len(s)
  PROVE  /\ SubSeq(s, n + 1, n + k) \in Seq(Nat) /\ Len(SubSeq(s, n + 1, n + k)) = k
         /\ \A j \in 1 .. k : SubSeq(s, n + 1, n + k)[j] = s[n + j]
OBVIOUS

\* The first n characters of t are lines, and then come those of l up to cut,
\* its newline included.
EndsWith(t, n, l, cut) ==
  /\ t \in Seq(Nat) /\ n \in Nat /\ l \in Seq(Nat)
  /\ cut \in 1 .. Len(l) + 1 /\ Len(t) = n + cut
  /\ n > 0 => t[n] = NL
  /\ \A j \in 1 .. cut : j <= Len(l) => t[n + j] = l[j]
  /\ cut = Len(l) + 1 => t[n + cut] = NL

\* A line begins with a character that is kept, and has no newline.
IsLine(l) == l \in Seq(Nat) /\ Len(l) >= 1 /\ l[1] \notin {NL, CR} /\ \A j \in 1 .. Len(l) : l[j] # NL

\* What get_last_line_of_file finds in a file that ends with a part of a line:
\* going back over newlines it comes to a character of that line, all of whose
\* predecessors in the line it then reads.
LEMMA LastLineIs ==
  ASSUME NEW t, NEW n, NEW l, NEW cut, EndsWith(t, n, l, cut), IsLine(l)
  PROVE  \E k \in 1 .. Len(l) :
           /\ k <= cut /\ get_last_line_of_file(t) = without_cr(SubSeq(l, 1, k))
           /\ \A j \in 1 .. Len(l) : j <= cut /\ l[j] \notin {NL, CR} => j <= k
<1> DEFINE m == Len(l)
           E == {i \in 1 .. Len(t) : t[i] \notin {NL, CR}}
           end == SelectLastInSeq(t, LAMBDA c : c \notin {NL, CR})
           line == SubSeq(t, 1, end)
           N == {i \in 1 .. Len(line) : line[i] = NL}
           last == SelectLastInSeq(line, LAMBDA c : c = NL)
<1>1. /\ t \in Seq(Nat) /\ n \in Nat /\ l \in Seq(Nat) /\ m \in Nat /\ m >= 1
      /\ cut \in 1 .. m + 1 /\ Len(t) = n + cut /\ (n > 0 => t[n] = NL)
      /\ \A j \in 1 .. cut : j <= m => t[n + j] = l[j]
      /\ (cut = m + 1 => t[n + cut] = NL)
      /\ l[1] \notin {NL, CR} /\ \A j \in 1 .. m : l[j] # NL
  BY DEF EndsWith, IsLine
<1>2. end = IF E # {} THEN Max(E) ELSE 0
  BY DEF SelectLastInSeq
<1>3. get_last_line_of_file(t) = without_cr(SubSeq(line, last + 1, end))
  BY DEF get_last_line_of_file
<1>4. last = IF N # {} THEN Max(N) ELSE 0
  BY DEF SelectLastInSeq
<1> HIDE DEF last, m
<1>5. E \in SUBSET (1 .. n + cut) /\ n + cut \in Nat /\ n + 1 \in E
  <2>1. n + 1 \in 1 .. Len(t) /\ 1 \in 1 .. cut /\ 1 <= m
    BY <1>1
  <2>2. t[n + 1] = l[1]
    BY <1>1, <2>1
  <2> QED
    BY <1>1, <2>1, <2>2
<1> HIDE DEF end
<1>6. end \in E /\ end \in 1 .. n + cut /\ \A i \in E : i <= end
  <2> HIDE DEF E
  <2> QED
    BY <1>2, <1>5, LastAt
<1> DEFINE k == end - n
<1>7. k \in 1 .. m /\ k <= cut /\ end = n + k /\ k \in Nat
  <2>1. n + 1 <= end
    BY <1>5, <1>6
  <2>2. end # n + cut \/ cut # m + 1
    BY <1>1, <1>6
  <2> QED
    BY <1>1, <1>6, <2>1, <2>2
<1>8. \A j \in 1 .. m : j <= cut /\ l[j] \notin {NL, CR} => j <= k
  <2> SUFFICES ASSUME NEW j \in 1 .. m, j <= cut, l[j] \notin {NL, CR} PROVE j <= k
    OBVIOUS
  <2>1. j \in 1 .. cut /\ n + j \in 1 .. Len(t)
    BY <1>1
  <2>2. t[n + j] = l[j]
    BY <1>1, <2>1
  <2>3. n + j \in E
    BY <2>1, <2>2
  <2>4. n + j <= end
    BY <1>6, <2>3
  <2> QED
    BY <1>1, <1>7, <2>4
<1> HIDE DEF E, k
<1>10. \A j \in 1 .. k : j \in 1 .. m /\ t[n + j] = l[j]
  BY <1>1, <1>7
<1>11. line \in Seq(Nat) /\ Len(line) = n + k /\ \A i \in 1 .. n + k : line[i] = t[i]
  <2> DEFINE K == n + k
  <2>1. K \in 0 .. Len(t) /\ end = K
    BY <1>1, <1>7
  <2> HIDE DEF K
  <2>2. SubSeq(t, 1, K) \in Seq(Nat) /\ Len(SubSeq(t, 1, K)) = K
        /\ \A i \in 1 .. K : SubSeq(t, 1, K)[i] = t[i]
    BY <1>1, <2>1, CutIs
  <2> QED
    BY <2>1, <2>2 DEF K
<1> HIDE DEF line
<1>12. last = n
  <2>1. N \in SUBSET (1 .. n)
    <3> SUFFICES ASSUME NEW i \in N, ~(i <= n) PROVE FALSE
      BY <1>1, <1>7, <1>11
    <3> DEFINE j == i - n
    <3>0. i \in 1 .. n + k /\ line[i] = NL
      BY <1>11
    <3>1. j \in 1 .. k /\ i = n + j /\ t[i] = NL
      <4>1. j \in 1 .. k /\ i = n + j
        BY <1>1, <1>7, <3>0
      <4>2. t[i] = NL
        BY <1>11, <3>0
      <4> QED
        BY <4>1, <4>2
    <3> HIDE DEF j
    <3>2. t[i] = l[j] /\ l[j] # NL
      BY <1>1, <1>10, <3>1
    <3> QED
      BY <3>1, <3>2
  <2>2. CASE n = 0
    <3>1. N = {}
      BY <2>1, <2>2
    <3> QED
      BY <1>4, <2>2, <3>1
  <2>3. CASE n > 0
    <3>1. n \in N
      <4>1. n \in 1 .. n + k
        BY <1>1, <1>7, <2>3
      <4>2. line[n] = NL /\ n \in 1 .. Len(line)
        BY <1>1, <1>11, <2>3, <4>1
      <4> QED
        BY <4>2
    <3> HIDE DEF N
    <3>2. Max(N) \in 1 .. n /\ n <= Max(N)
      BY <1>1, <2>1, <3>1, LastAt
    <3> QED
      BY <1>1, <1>4, <3>1, <3>2
  <2> QED
    BY <1>1, <2>2, <2>3
<1>13. SubSeq(line, last + 1, end) = SubSeq(l, 1, k)
  <2> DEFINE a == SubSeq(line, n + 1, n + k)
             b == SubSeq(l, 1, k)
  <2>1. b \in Seq(Nat) /\ Len(b) = k /\ \A j \in 1 .. k : b[j] = l[j]
    <3>1. k \in 0 .. Len(l) /\ l \in Seq(Nat)
      BY <1>1, <1>7 DEF m
    <3> QED
      BY <3>1, CutIs
  <2>2. a \in Seq(Nat) /\ Len(a) = k /\ \A j \in 1 .. k : a[j] = line[n + j]
    <3>1. n \in Nat /\ k \in Nat /\ line \in Seq(Nat) /\ n + k <= Len(line)
      BY <1>1, <1>7, <1>11
    <3> QED
      BY <3>1, MiddleIs
  <2> HIDE DEF a, b
  <2>3. \A j \in 1 .. k : a[j] = b[j]
    <3> SUFFICES ASSUME NEW j \in 1 .. k PROVE a[j] = b[j]
      OBVIOUS
    <3>1. n + j \in 1 .. n + k
      BY <1>1, <1>7
    <3> QED
      BY <1>10, <1>11, <2>1, <2>2, <3>1
  <2>4. a = b
    BY <2>1, <2>2, <2>3, SeqEqual
  <2> QED
    BY <1>7, <1>12, <2>4 DEF a, b
<1>14. get_last_line_of_file(t) = without_cr(SubSeq(l, 1, k))
  BY <1>3, <1>13
<1> QED
  BY <1>7, <1>8, <1>14 DEF m

\* A cut in the first of two parts.
LEMMA CutInFirst ==
  ASSUME NEW S, NEW a \in Seq(S), NEW b \in Seq(S), NEW k \in 0 .. Len(a)
  PROVE  SubSeq(a \o b, 1, k) = SubSeq(a, 1, k)
<1>1. Len(a) \in Nat /\ Len(b) \in Nat
  OBVIOUS
<1>2. CASE k = Len(a)
  BY <1>2, EmptyIs, RestOfBoth
<1>3. CASE k < Len(a)
  <2>1. k \in 0 .. Len(a) + Len(b) /\ ~(k >= Len(a))
    BY <1>1, <1>3
  <2> QED
    BY <2>1, CutOfBoth
<1> QED
  BY <1>1, <1>2, <1>3

\* Digits are read as they are.
LEMMA ReadDigits ==
  ASSUME NEW p \in Seq(Decimals), Len(p) >= 1
  PROVE  without_cr(p) = p /\ Before(p) = p /\ FromChars(p) = Value(p)
<1>1. p \in Seq(Nat)
  <2>1. Decimals \subseteq Nat
    BY DEF Decimals
  <2> QED
    BY <2>1, SeqMonotonic
<1>2. \A j \in 1 .. Len(p) : p[j] \in 0 .. 9
  BY DEF Decimals
<1>3. without_cr(p) = p
  <2>1. Len(p) \in 0 .. Len(p)
    BY <1>1
  <2>2. \A j \in 1 .. Len(p) : p[j] # CR
    BY <1>2 DEF CR
  <2> QED
    BY <1>1, <2>1, <2>2, WithoutCrStarts
<1>4. Before(p) = p
  <2>1. \A j \in 1 .. Len(p) : p[j] # Bar
    BY <1>2 DEF Bar
  <2>2. Free(p, Bar)
    BY <1>1, <2>1 DEF Free
  <2> QED
    BY <2>2, UnsplitIs
<1> QED
  BY <1>3, <1>4, FromCharsIs

\* What has no '\r' is kept, whatever follows.
LEMMA KeepsFront ==
  ASSUME NEW a \in Seq(Nat), NEW r \in Seq(Nat), NEW k \in Len(a) .. Len(a) + Len(r),
         \A i \in 1 .. Len(a) : a[i] # CR
  PROVE  \E u \in Seq(Nat) : without_cr(SubSeq(a \o r, 1, k)) = a \o u
<1> DEFINE m == Len(a)
           w == SubSeq(r, 1, k - m)
           s == SubSeq(a \o r, 1, k)
<1>1. m \in Nat /\ Len(r) \in Nat
  OBVIOUS
<1>2. k \in 0 .. Len(a) + Len(r) /\ k >= Len(a) /\ k - m \in 0 .. Len(r)
  BY <1>1
<1>3. s = a \o w
  BY <1>2, CutOfBoth
<1>4. w \in Seq(Nat)
  BY <1>2, CutIs
<1> HIDE DEF w
<1>5. a \o w \in Seq(Nat) /\ Len(a \o w) = m + Len(w) /\ Len(w) \in Nat
  BY <1>4, Joined
<1>6. SubSeq(a \o w, 1, m) = a
  BY <1>4, RestOfBoth
<1>7. s \in Seq(Nat) /\ SubSeq(s, 1, m) = a
  BY <1>3, <1>5, <1>6
<1>8. m \in 0 .. Len(s)
  BY <1>1, <1>3, <1>5
<1> HIDE DEF s
<1>9. \A i \in 1 .. m : s[i] # CR
  <2>1. \A j \in 1 .. m : SubSeq(s, 1, m)[j] = s[j]
    BY <1>7, <1>8, CutIs
  <2> QED
    BY <1>7, <2>1
<1>10. PICK u \in Seq(Nat) : without_cr(s) = SubSeq(s, 1, m) \o u
  BY <1>7, <1>8, <1>9, WithoutCrStarts
<1>11. without_cr(s) = a \o u
  BY <1>7, <1>10
<1> QED
  BY <1>11 DEF s

\* A number and the separator after it.
Numbered(v) == Decimal[v] \o <<Bar>>

\* A number and the separator have no carriage return.
LEMMA NumberedIs ==
  ASSUME NEW v \in Nat
  PROVE  /\ Numbered(v) \in Seq(Nat) /\ Len(Numbered(v)) = Len(Decimal[v]) + 1
         /\ \A i \in 1 .. Len(Numbered(v)) : Numbered(v)[i] # CR
         /\ \A r \in Seq(Nat) : Numbered(v) \o r = Decimal[v] \o (<<Bar>> \o r)
<1> DEFINE D == Decimal[v]
           b == <<Bar>>
<1>1. Free(D, CR) /\ D \in Seq(Nat)
  <2>1. CR \in Nat /\ CR > 9
    BY DEF CR
  <2> QED
    BY <2>1, FreeDecimal DEF Free
<1>2. b \in Seq(Nat) /\ Len(b) = 1 /\ Free(b, CR)
  BY DEF Bar, CR, Free
<1> HIDE DEF D, b
<1>3. Free(D \o b, CR) /\ D \o b \in Seq(Nat) /\ Len(D \o b) = Len(D) + 1
  BY <1>1, <1>2, FreeOfBoth, Joined
<1>4. ASSUME NEW r \in Seq(Nat) PROVE (D \o b) \o r = D \o (b \o r)
  <2>1. Associate(D, b, r)
    BY <1>1, <1>2, Associates
  <2> QED
    BY <2>1, Zenon DEF Associate
<1>5. Numbered(v) = D \o b
  BY DEF Numbered, D, b
<1>6. \A i \in 1 .. Len(D \o b) : (D \o b)[i] # CR
  BY <1>3 DEF Free
<1>7. \A r \in Seq(Nat) : (D \o b) \o r = D \o (b \o r)
  BY <1>4, Zenon
<1>8. \A r \in Seq(Nat) : Numbered(v) \o r = D \o (b \o r)
  BY <1>5, <1>7, Zenon
<1>9. /\ Numbered(v) \in Seq(Nat) /\ Len(Numbered(v)) = Len(D) + 1
      /\ \A i \in 1 .. Len(Numbered(v)) : Numbered(v)[i] # CR
  BY <1>3, <1>5, <1>6, Zenon
<1> QED
  BY <1>8, <1>9 DEF D, b

\* The id read in the front of a line, or of one that is cut off.
IdIn(x, v) == x # <<>> /\ FromChars(Before(x)) \in 0 .. v
IdOf(x, v) == x # <<>> /\ FromChars(Before(x)) = v

\* As far as its digits go that is a smaller number, and from the separator on
\* it is the number.
LEMMA IdOfDigits ==
  ASSUME NEW v \in Nat, NEW k \in 1 .. Len(Decimal[v])
  PROVE  /\ IdIn(without_cr(SubSeq(Decimal[v], 1, k)), v)
         /\ k = Len(Decimal[v]) => IdOf(without_cr(SubSeq(Decimal[v], 1, k)), v)
<1> DEFINE D == Decimal[v]
           p == SubSeq(D, 1, k)
<1>1. D \in Seq(Decimals) /\ D \in Seq(Nat) /\ Value(D) = v
  BY DecimalIs, ValueOfDecimal
<1> HIDE DEF D
<1>2. k \in 0 .. Len(D) /\ k >= 1
  BY DEF D
<1>3. p \in Seq(Decimals) /\ Len(p) = k
  BY <1>1, <1>2, CutIs
<1>4. Value(p) \in 0 .. v /\ (k = Len(D) => Value(p) = v)
  <2>1. Value(p) \in 0 .. v
    BY <1>1, <1>2, ValueOfMore
  <2>2. k = Len(D) => p = D
    BY <1>1, <1>2, <1>3, CutIs, SeqEqual
  <2> QED
    BY <1>1, <2>1, <2>2
<1> HIDE DEF p
<1>5. without_cr(p) = p /\ Before(p) = p /\ FromChars(p) = Value(p)
  BY <1>2, <1>3, ReadDigits
<1>6. p # <<>>
  BY <1>2, <1>3
<1> QED
  BY <1>4, <1>5, <1>6 DEF IdIn, IdOf, p, D

\* From the separator on.
LEMMA IdOfMore ==
  ASSUME NEW v \in Nat, NEW r \in Seq(Nat),
         NEW k \in Len(Decimal[v]) + 1 .. (Len(Decimal[v]) + 1) + Len(r)
  PROVE  IdOf(without_cr(SubSeq(Numbered(v) \o r, 1, k)), v)
<1> DEFINE D == Decimal[v]
           a == Numbered(v)
           x == without_cr(SubSeq(a \o r, 1, k))
<1>1. /\ a \in Seq(Nat) /\ Len(a) = Len(D) + 1 /\ \A i \in 1 .. Len(a) : a[i] # CR
      /\ \A u \in Seq(Nat) : a \o u = D \o (<<Bar>> \o u)
  BY NumberedIs
<1>2. Len(D) \in Nat /\ \A u \in Seq(Nat) : FromChars(Before(D \o (<<Bar>> \o u))) = v
  <2>1. D \in Seq(Nat)
    BY ValueOfDecimal
  <2>2. Len(D) \in Nat
    BY <2>1
  <2> QED
    BY <2>2, ReadDecimal
<1>3. k \in Len(D) + 1 .. (Len(D) + 1) + Len(r)
  OBVIOUS
<1> HIDE DEF D, a
<1>4. k \in Len(a) .. Len(a) + Len(r)
  BY <1>1, <1>3
<1>5. PICK u \in Seq(Nat) : x = a \o u
  BY <1>1, <1>4, KeepsFront
<1> HIDE DEF x
<1>6. FromChars(Before(x)) = v
  BY <1>1, <1>2, <1>5
<1>7. x # <<>>
  <2>1. Len(a \o u) = Len(a) + Len(u) /\ Len(u) \in Nat
    BY <1>1, Joined
  <2>2. Len(x) # 0
    BY <1>1, <1>2, <1>5, <2>1
  <2>3. Len(<<>>) = 0
    OBVIOUS
  <2> QED
    BY <2>2, <2>3
<1> QED
  BY <1>6, <1>7 DEF IdOf, x, a

\* In a line that is cut off anywhere.
LEMMA IdOfCut ==
  ASSUME NEW e \in LogEntry, NEW k \in 1 .. Len(Line(e))
  PROVE  /\ IdIn(without_cr(SubSeq(Line(e), 1, k)), e.id)
         /\ k >= Len(Decimal[e.id]) => IdOf(without_cr(SubSeq(Line(e), 1, k)), e.id)
<1> DEFINE v == e.id
           r == Rest1(e)
           d == Len(Decimal[v])
           l == Line(e)
           x == without_cr(SubSeq(l, 1, k))
<1>1. v \in Nat /\ r \in Seq(Nat)
  BY LineIs
<1>2. l = Decimal[v] \o (<<Bar>> \o r)
  BY DEF Line
<1>3. k \in 1 .. Len(l)
  OBVIOUS
<1> HIDE DEF v, r, l
<1>4. Decimal[v] \in Seq(Nat) /\ <<Bar>> \o r \in Seq(Nat) /\ d \in Nat
  <2>1. <<Bar>> \in Seq(Nat)
    BY DEF Bar
  <2>2. <<Bar>> \o r \in Seq(Nat)
    BY <1>1, <2>1, Joined
  <2>3. Decimal[v] \in Seq(Nat)
    BY <1>1, ValueOfDecimal
  <2> QED
    BY <2>2, <2>3
<1>5. l = Numbered(v) \o r /\ Len(l) = (d + 1) + Len(r) /\ Len(r) \in Nat
  <2>1. l = Numbered(v) \o r
    BY <1>1, <1>2, NumberedIs
  <2>2. Numbered(v) \in Seq(Nat) /\ Len(Numbered(v)) = d + 1
    BY <1>1, NumberedIs
  <2> QED
    BY <1>1, <2>1, <2>2, Joined
<1>6. CASE k <= d
  <2>1. k \in 0 .. d /\ k \in 1 .. d
    BY <1>3, <1>4, <1>5, <1>6
  <2>2. SubSeq(l, 1, k) = SubSeq(Decimal[v], 1, k)
    BY <1>2, <1>4, <2>1, CutInFirst
  <2>3. /\ IdIn(without_cr(SubSeq(Decimal[v], 1, k)), v)
        /\ k = d => IdOf(without_cr(SubSeq(Decimal[v], 1, k)), v)
    BY <1>1, <2>1, IdOfDigits
  <2>4. k >= d => k = d
    BY <1>4, <2>1
  <2> QED
    BY <2>2, <2>3, <2>4 DEF l, v
<1>7. CASE k > d
  <2>1. k \in d + 1 .. (d + 1) + Len(r)
    BY <1>3, <1>4, <1>5, <1>7
  <2>2. IdOf(x, v)
    BY <1>1, <1>5, <2>1, IdOfMore
  <2>3. IdIn(x, v)
    BY <1>1, <2>2 DEF IdIn, IdOf
  <2> QED
    BY <2>2, <2>3 DEF l, v
<1> QED
  BY <1>3, <1>4, <1>6, <1>7

\* A sequence that ends in one of some characters.
EndsIn(s, S) == s \in Seq(Nat) /\ Len(s) >= 1 /\ s[Len(s)] \in S

\* What the second of two sequences ends in, both joined do.
LEMMA EndsBoth ==
  ASSUME NEW S, NEW a \in Seq(Nat), NEW b, EndsIn(b, S)
  PROVE  EndsIn(a \o b, S)
<1> DEFINE m == Len(b)
           t == a \o b
<1>1. b \in Seq(Nat) /\ m >= 1 /\ m \in Nat /\ b[m] \in S
  BY DEF EndsIn
<1>2. t \in Seq(Nat) /\ Len(t) = Len(a) + m /\ Len(a) \in Nat
  BY <1>1, Joined
<1>3. Continues(a, b, m)
  <2>1. m \in 1 .. Len(b)
    BY <1>1
  <2> HIDE DEF m
  <2> QED
    BY <1>1, <2>1, AfterOne
<1>4. t[Len(a) + m] = b[m]
  BY <1>3, Zenon DEF Continues
<1> HIDE DEF t, m
<1>5. Len(t) >= 1 /\ t[Len(t)] \in S
  BY <1>1, <1>2, <1>4
<1> QED
  BY <1>2, <1>5 DEF EndsIn, t

\* A line without a newline in the process's name.
LEMMA LineIsLine ==
  ASSUME NEW e \in LogEntry, NL \notin ToSet(e.process_name)
  PROVE  /\ IsLine(Line(e)) /\ Line(e)[Len(Line(e))] \notin {NL, CR}
<1> DEFINE D == Decimal[e.id]
           l == Line(e)
           Digits == 0 .. 9
<1>1. /\ e.id \in Nat /\ e.timestamp_ms \in Nat /\ e.log_type \in Nat /\ e.value \in Nat
      /\ e.process_name \in Seq(Nat)
      /\ Rest3(e) \in Seq(Nat) /\ Rest2(e) \in Seq(Nat) /\ Rest1(e) \in Seq(Nat)
      /\ Line(e) \in Seq(Nat)
  BY LineIs
<1>2. <<Bar>> \in Seq(Nat) /\ Free(<<Bar>>, NL)
  BY DEF Bar, NL, Free
<1>3. ASSUME NEW v \in Nat PROVE Free(Decimal[v], NL) /\ Decimal[v] \in Seq(Nat)
  <2>1. NL \in Nat /\ NL > 9
    BY DEF NL
  <2> QED
    BY <2>1, FreeDecimal, ValueOfDecimal
<1>4. Free(e.process_name, NL)
  <2>1. \A i \in 1 .. Len(e.process_name) : e.process_name[i] \in ToSet(e.process_name)
    BY <1>1 DEF ToSet
  <2> QED
    BY <1>1, <2>1 DEF Free
<1>5. Free(l, NL)
  <2>1. Free(Rest3(e), NL)
    <3>1. Free(<<Bar>> \o Decimal[e.value], NL)
      BY <1>1, <1>2, <1>3, FreeOfBoth
    <3> QED
      BY <1>1, <1>3, <3>1, FreeOfBoth DEF Rest3
  <2>2. Free(Rest2(e), NL)
    <3>1. Free(<<Bar>> \o Rest3(e), NL)
      BY <1>2, <2>1, FreeOfBoth
    <3> QED
      BY <1>1, <1>3, <3>1, FreeOfBoth DEF Rest2
  <2>3. Free(Rest1(e), NL)
    <3>1. Free(<<Bar>> \o Rest2(e), NL)
      BY <1>2, <2>2, FreeOfBoth
    <3> QED
      BY <1>4, <3>1, FreeOfBoth DEF Rest1
  <2>4. Free(<<Bar>> \o Rest1(e), NL)
    BY <1>2, <2>3, FreeOfBoth
  <2> QED
    BY <1>1, <1>3, <2>4, FreeOfBoth DEF Line
<1>6. EndsIn(l, Digits)
  <2>1. EndsIn(Decimal[e.value], Digits)
    <3> DEFINE s == Decimal[e.value]
    <3>1. s \in Seq(0 .. 9) /\ Len(s) >= 1 /\ s \in Seq(Nat)
      BY <1>1, DecimalIs, ValueOfDecimal DEF Decimals
    <3> HIDE DEF s
    <3>2. s[Len(s)] \in 0 .. 9
      BY <3>1
    <3> QED
      BY <3>1, <3>2 DEF EndsIn, s
  <2> HIDE DEF Digits
  <2>2. EndsIn(Rest3(e), Digits)
    <3>1. EndsIn(<<Bar>> \o Decimal[e.value], Digits)
      BY <1>2, <2>1, EndsBoth
    <3> QED
      BY <1>1, <1>3, <3>1, EndsBoth DEF Rest3
  <2>3. EndsIn(Rest2(e), Digits)
    <3>1. EndsIn(<<Bar>> \o Rest3(e), Digits)
      BY <1>2, <2>2, EndsBoth
    <3> QED
      BY <1>1, <1>3, <3>1, EndsBoth DEF Rest2
  <2>4. EndsIn(Rest1(e), Digits)
    <3>1. EndsIn(<<Bar>> \o Rest2(e), Digits)
      BY <1>2, <2>3, EndsBoth
    <3> QED
      BY <1>1, <3>1, EndsBoth DEF Rest1
  <2>5. EndsIn(<<Bar>> \o Rest1(e), Digits)
    BY <1>2, <2>4, EndsBoth
  <2> QED
    BY <1>1, <1>3, <2>5, EndsBoth DEF Line
<1>7. l[1] \in 0 .. 9
  <2> DEFINE q == <<Bar>> \o Rest1(e)
             d == Len(D)
  <2>1. D \in Seq(0 .. 9) /\ d >= 1 /\ D \in Seq(Nat)
    BY <1>1, DecimalIs, ValueOfDecimal DEF Decimals
  <2>2. q \in Seq(Nat)
    BY <1>1, <1>2, Joined
  <2>3. l = D \o q
    BY DEF Line
  <2> HIDE DEF l, D, q
  <2>4. l[1] = D[1]
    BY <2>1, <2>2, <2>3
  <2>5. D[1] \in 0 .. 9
    BY <2>1
  <2> QED
    BY <2>4, <2>5
<1> HIDE DEF l
<1>8. \A c \in 0 .. 9 : c \notin {NL, CR}
  BY DEF NL, CR
<1>9. l \in Seq(Nat) /\ \A j \in 1 .. Len(l) : l[j] # NL
  BY <1>5 DEF Free
<1>10. Len(l) >= 1 /\ l[Len(l)] \in 0 .. 9
  BY <1>6 DEF EndsIn
<1> QED
  BY <1>7, <1>8, <1>9, <1>10 DEF IsLine, l

\* A file of whole lines ends in a newline.
LEMMA TextEnds ==
  ASSUME NEW es \in Seq(LogEntry)
  PROVE  Text(es) \in Seq(Nat) /\ (Len(Text(es)) > 0 => Text(es)[Len(Text(es))] = NL)
<1> DEFINE n == Len(es)
           ss == [i \in DOMAIN es |-> serialize_str(es[i])]
           b == <<NL>>
<1>1. n \in Nat /\ DOMAIN es = 1 .. n /\ \A i \in 1 .. n : es[i] \in LogEntry
  OBVIOUS
<1>2. b \in Seq(Nat) /\ EndsIn(b, {NL})
  BY DEF NL, EndsIn
<1> HIDE DEF b
<1>3. ASSUME NEW i \in 1 .. n
      PROVE  ss[i] = Line(es[i]) \o b /\ Line(es[i]) \in Seq(Nat) /\ ss[i] \in Seq(Nat)
  <2>1. ss[i] = serialize_str(es[i])
    BY <1>1
  <2>2. serialize_str(es[i]) = Line(es[i]) \o b /\ Line(es[i]) \in Seq(Nat)
    BY <1>1, LineIs DEF b
  <2>3. Line(es[i]) \o b \in Seq(Nat)
    BY <1>2, <2>2, Joined
  <2> QED
    BY <2>1, <2>2, <2>3
<1>4. ss \in Seq(Seq(Nat)) /\ Len(ss) = n
  <2> DEFINE V == Seq(Nat)
  <2>1. \A i \in 1 .. n : ss[i] \in V
    BY <1>3
  <2>2. ss = [i \in 1 .. n |-> ss[i]]
    BY <1>1
  <2> HIDE DEF ss, V
  <2>3. ss \in [1 .. n -> V]
    BY <2>1, <2>2
  <2>4. ss \in Seq(V) /\ Len(ss) = n
    BY <1>1, <2>3
  <2> QED
    BY <2>4 DEF V
<1>5. Text(es) = FlattenSeq(ss)
  BY DEF Text
<1> HIDE DEF ss
<1>6. PICK f : Joins(f, ss, Nat)
  BY <1>4, FlattenIs
<1>7. /\ \A i \in 0 .. n : f[i] \in Seq(Nat)
      /\ f[0] = <<>> /\ f[n] = Text(es) /\ \A i \in 1 .. n : f[i] = f[i - 1] \o ss[i]
  BY <1>4, <1>5, <1>6, Zenon DEF Joins
<1>8. Text(es) \in Seq(Nat)
  BY <1>1, <1>7
<1>9. CASE n = 0
  <2>1. Len(Text(es)) = 0
    BY <1>7, <1>9
  <2> QED
    BY <1>8, <2>1
<1>10. CASE n # 0
  <2>1. n \in 1 .. n /\ n - 1 \in 0 .. n
    BY <1>1, <1>10
  <2> DEFINE l == Line(es[n])
             a == f[n - 1]
  <2>2. l \in Seq(Nat) /\ ss[n] = l \o b
    BY <1>3, <2>1
  <2>3. a \in Seq(Nat)
    BY <1>7, <2>1
  <2>4. Text(es) = a \o ss[n]
    BY <1>7, <2>1
  <2> HIDE DEF l, a
  <2>5. EndsIn(l \o b, {NL})
    BY <1>2, <2>2, EndsBoth
  <2>6. EndsIn(a \o ss[n], {NL})
    BY <2>2, <2>3, <2>5, EndsBoth
  <2> QED
    BY <1>8, <2>4, <2>6 DEF EndsIn
<1> QED
  BY <1>9, <1>10

\* A line begins with the digits of its id, which all are kept.
LEMMA DigitsFirst ==
  ASSUME NEW e \in LogEntry
  PROVE  LET d == Len(Decimal[e.id]) IN d \in 1 .. Len(Line(e)) /\ Line(e)[d] \notin {NL, CR}
<1> DEFINE D == Decimal[e.id]
           d == Len(D)
           b == <<Bar>> \o Rest1(e)
           l == Line(e)
<1>1. e.id \in Nat /\ Rest1(e) \in Seq(Nat)
  BY LineIs
<1>2. D \in Seq(Decimals) /\ D \in Seq(Nat) /\ Len(D) >= 1
  BY <1>1, DecimalIs, ValueOfDecimal
<1>3. b \in Seq(Nat)
  BY <1>1, Joined DEF Bar
<1>4. l = D \o b
  BY DEF Line
<1> HIDE DEF D, b, l
<1>5. d \in 1 .. Len(D) /\ d \in Nat
  BY <1>2
<1>6. D[d] \in Decimals
  BY <1>2, <1>5
<1>7. l[d] = D[d] /\ d \in 1 .. Len(l)
  BY <1>2, <1>3, <1>4, <1>5
<1> QED
  BY <1>6, <1>7 DEF D, l, Decimals, NL, CR

\* The id found in a server's file that is cut off is that of the line the cut
\* is in once its digits are there, and smaller before that.
LEMMA TornLine ==
  ASSUME NEW es \in Seq(LogEntry), \A i \in DOMAIN es : NL \notin ToSet(es[i].process_name)
  PROVE  IdOfTornLine(es)
<1> DEFINE IdAt(n, cut) ==
             last_acked_id(Text(SubSeq(es, 1, n - 1)) \o SubSeq(serialize_str(es[n]), 1, cut))
<1>1. ASSUME NEW n \in DOMAIN es, NEW cut \in 1 .. Len(serialize_str(es[n]))
      PROVE  /\ IdAt(n, cut) \in 0 .. es[n].id
             /\ cut >= Len(Decimal[es[n].id]) => IdAt(n, cut) = es[n].id
  <2> DEFINE e == es[n]
             l == Line(e)
             b == <<NL>>
             s == serialize_str(e)
             c == SubSeq(s, 1, cut)
             before == SubSeq(es, 1, n - 1)
             T == Text(before)
             t == T \o c
             v == e.id
  <2>1. n \in 1 .. Len(es) /\ e \in LogEntry /\ NL \notin ToSet(e.process_name)
    OBVIOUS
  <2>2. before \in Seq(LogEntry)
    BY <2>1
  <2>3. v \in Nat /\ l \in Seq(Nat) /\ s = l \o b
    BY <2>1, LineIs
  <2>4. IsLine(l) /\ l[Len(l)] \notin {NL, CR}
    BY <2>1, LineIsLine
  <2>5. ASSUME NEW k \in 1 .. Len(l)
        PROVE  /\ IdIn(without_cr(SubSeq(l, 1, k)), v)
               /\ k >= Len(Decimal[v]) => IdOf(without_cr(SubSeq(l, 1, k)), v)
    BY <2>1, IdOfCut
  <2>6. cut \in 1 .. Len(s)
    OBVIOUS
  <2>7. b \in Seq(Nat) /\ Len(b) = 1 /\ b[1] = NL
    BY DEF NL
  <2> HIDE DEF before
  <2>8. T \in Seq(Nat) /\ (Len(T) > 0 => T[Len(T)] = NL)
    BY <2>2, TextEnds
  <2> DEFINE d == Len(Decimal[v])
  <2>18. d \in 1 .. Len(l) /\ l[d] \notin {NL, CR}
    BY <2>1, DigitsFirst
  <2> HIDE DEF T, b, l, e, s, v
  <2>9. s \in Seq(Nat) /\ Len(s) = Len(l) + 1 /\ Len(l) \in Nat
    BY <2>3, <2>7, Joined
  <2>10. c \in Seq(Nat) /\ Len(c) = cut /\ \A j \in 1 .. cut : c[j] = s[j]
    <3>1. cut \in 0 .. Len(s)
      BY <2>6
    <3> QED
      BY <2>9, <3>1, CutIs
  <2> HIDE DEF c
  <2>11. EndsWith(t, Len(T), l, cut)
    <3> DEFINE m == Len(T)
    <3>1. t \in Seq(Nat) /\ Len(t) = m + cut /\ m \in Nat
      BY <2>8, <2>10, Joined
    <3>2. m > 0 => t[m] = NL
      <4> SUFFICES ASSUME m > 0 PROVE t[m] = NL
        OBVIOUS
      <4>1. t[m] = T[m]
        BY <2>8, <2>10
      <4> QED
        BY <2>8, <4>1
    <3>3. ASSUME NEW j \in 1 .. cut PROVE t[m + j] = c[j]
      <4>1. Continues(T, c, j)
        BY <2>8, <2>10, AfterOne
      <4> QED
        BY <4>1, Zenon DEF Continues
    <3>4. ASSUME NEW j \in 1 .. Len(l) PROVE s[j] = l[j]
      BY <2>3, <2>7, <3>4
    <3>5. s[Len(l) + 1] = NL
      <4>1. 1 \in 1 .. Len(b)
        BY <2>7
      <4>2. Continues(l, b, 1)
        BY <2>3, <2>7, <4>1, AfterOne
      <4> QED
        BY <2>3, <2>7, <4>2, Zenon DEF Continues
    <3> HIDE DEF t, m
    <3>6. \A j \in 1 .. cut : j <= Len(l) => t[m + j] = l[j]
      <4> SUFFICES ASSUME NEW j \in 1 .. cut, j <= Len(l) PROVE t[m + j] = l[j]
        OBVIOUS
      <4>1. j \in 1 .. Len(l) /\ j \in 1 .. Len(s)
        BY <2>9
      <4> QED
        BY <2>10, <3>3, <3>4, <4>1
    <3>7. cut = Len(l) + 1 => t[m + cut] = NL
      <4> SUFFICES ASSUME cut = Len(l) + 1 PROVE t[m + cut] = NL
        OBVIOUS
      <4>1. cut \in 1 .. cut
        BY <2>6, <2>9
      <4> QED
        BY <2>10, <3>3, <3>5, <4>1
    <3>8. cut \in 1 .. Len(l) + 1
      BY <2>6, <2>9
    <3> QED
      BY <2>3, <3>1, <3>2, <3>6, <3>7, <3>8 DEF EndsWith, m
  <2> HIDE DEF t
  <2>12. PICK k \in 1 .. Len(l) :
           /\ get_last_line_of_file(t) = without_cr(SubSeq(l, 1, k))
           /\ \A j \in 1 .. Len(l) : j <= cut /\ l[j] \notin {NL, CR} => j <= k
    BY <2>4, <2>11, LastLineIs
  <2> DEFINE x == without_cr(SubSeq(l, 1, k))
  <2>13. IdIn(x, v) /\ (k >= d => IdOf(x, v))
    BY <2>5
  <2>14. last_acked_id(t) = IF x = <<>> THEN 0 ELSE deserialize_str(x).id
    BY <2>12 DEF last_acked_id
  <2>15. deserialize_str(x).id = FromChars(Before(x))
    BY DEF deserialize_str
  <2> HIDE DEF x
  <2>16. last_acked_id(t) = FromChars(Before(x)) /\ FromChars(Before(x)) \in 0 .. v
    BY <2>13, <2>14, <2>15 DEF IdIn
  <2>17. cut >= d => FromChars(Before(x)) = v
    <3>1. cut >= d => k >= d
      BY <2>6, <2>9, <2>12, <2>18
    <3> QED
      BY <2>13, <3>1 DEF IdOf
  <2> QED
    BY <2>16, <2>17 DEF t, T, before, c, s, e, v, d
<1> QED
  BY <1>1 DEF IdOfTornLine

\* The files lose and confuse no log (LogEntry::serialize_str and
\* deserialize_str, get_last_line_of_file, and handle_recv_log, which takes the
\* acked id from the last line).  A process's name holds no newline; it may hold
\* any other character, the separator included.
THEOREM LinesKeepLogsHolds == ASSUME IsBatch(logs), OneLineNames(logs) PROVE LinesKeepLogs
<1>1. logs \in Seq(LogEntry)
  BY DEF IsBatch
<1>2. LogSurvivesRestart(logs)
  BY <1>1, LogSurvives
<1>3. IdOfTornLine(logs)
  BY <1>1, TornLine DEF OneLineNames
<1> QED
  BY <1>2, <1>3 DEF LinesKeepLogs
=============================================================================
