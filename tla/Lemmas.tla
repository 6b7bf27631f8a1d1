---------------------------------- MODULE Lemmas ---------------------------------
(* Facts about numbers, recursive functions and sequences that the proofs     *)
(* about several components need.                                             *)
EXTENDS Integers, Positions, FiniteSetTheorems, SequenceTheorems, WellFoundedInduction, TLAPS

(* Of records that say whose they are, one each at most.                      *)
OneEach(s) == \A i, j \in DOMAIN s : s[i].by = s[j].by => i = j

--------------------------------------------------------------------------------
(* Numbers                                                                    *)

(* Whatever holds of some number first holds of a least one.                  *)
LEMMA LeastNumber ==
  ASSUME NEW T \in SUBSET Nat, T # {}
  PROVE  \E m \in T : \A k \in T : m <= k
<1> DEFINE R == OpToRel(<, Nat)
<1>1. \A i, j \in Nat : i < j => <<i, j>> \in R
  BY DEF OpToRel
<1>2. IsWellFoundedOn(R, Nat)
  BY NatLessThanWellFounded
<1> HIDE DEF R
<1>3. PICK m \in T : \A k \in T : <<k, m>> \notin R
  BY <1>2, WFMin
<1>4. \A k \in T : ~(k < m)
  BY <1>1, <1>3
<1> QED BY <1>4

--------------------------------------------------------------------------------
(* Recursive functions                                                        *)

Steps(step, N, S) == step \in [1 .. N -> [S -> S]]
Iterates(f, step, a, N, S) ==
    f \in [0 .. N -> S] /\ f[0] = a /\ \A n \in 1 .. N : f[n] = step[n][f[n - 1]]

(* There is a function that begins with a value and steps from each number to *)
(* the next: had one some first number to which it cannot be continued, the   *)
(* one up to the number before could be.                                      *)
LEMMA Recursion ==
  ASSUME NEW S, NEW a \in S, NEW N \in Nat, NEW step, Steps(step, N, S)
  PROVE  \E f : Iterates(f, step, a, N, S)
<1> USE DEF Steps
<1> DEFINE Is(f, m) == f \in [0 .. m -> S] /\ f[0] = a /\ \A n \in 1 .. m : f[n] = step[n][f[n - 1]]
           T == {m \in 0 .. N : ~\E f : Is(f, m)}
<1>1. \E f : Is(f, 0)
  <2>1. Is([n \in 0 .. 0 |-> a], 0)
    OBVIOUS
  <2> QED BY <2>1
<1>2. ASSUME NEW m \in 0 .. N, m > 0, NEW f, Is(f, m - 1) PROVE \E g : Is(g, m)
  <2> DEFINE g == [n \in 0 .. m |-> IF n = m THEN step[m][f[m - 1]] ELSE f[n]]
  <2>1. \A n \in 0 .. m - 1 : g[n] = f[n] /\ f[n] \in S
    BY <1>2
  <2>2. g[m] = step[m][f[m - 1]] /\ g[m] \in S
    <3>1. m - 1 \in 0 .. m - 1 /\ m \in 1 .. N /\ m \in 0 .. m
      BY <1>2
    <3>2. step[m] \in [S -> S] /\ f[m - 1] \in S
      BY <2>1, <3>1
    <3> QED BY <3>1, <3>2
  <2>3. g \in [0 .. m -> S]
    <3>1. \A n \in 0 .. m : n = m \/ n \in 0 .. m - 1
      OBVIOUS
    <3>2. \A n \in 0 .. m : g[n] \in S
      BY <2>1, <2>2, <3>1
    <3>3. g = [n \in 0 .. m |-> g[n]]
      OBVIOUS
    <3> HIDE DEF g
    <3> QED BY <3>2, <3>3
  <2>4. ASSUME NEW n \in 1 .. m PROVE g[n] = step[n][g[n - 1]]
    <3>1. n - 1 \in 0 .. m - 1
      BY <1>2
    <3>2. CASE n = m
      BY <2>1, <2>2, <3>1, <3>2
    <3>3. CASE n # m
      <4>1. n \in 1 .. m - 1 /\ n \in 0 .. m - 1
        BY <1>2, <3>3
      <4>2. f[n] = step[n][f[n - 1]]
        BY <1>2, <4>1
      <4> QED BY <2>1, <3>1, <4>1, <4>2
    <3> QED BY <3>2, <3>3
  <2>5. g[0] = a
    <3>1. 0 \in 0 .. m - 1 /\ f[0] = a
      BY <1>2
    <3> QED BY <2>1, <3>1
  <2> HIDE DEF g
  <2>6. Is(g, m)
    BY <2>3, <2>4, <2>5
  <2> QED BY <2>6
<1> HIDE DEF Is
<1>3. T = {}
  <2> SUFFICES ASSUME T # {} PROVE FALSE
    OBVIOUS
  <2>1. PICK m \in T : \A k \in T : m <= k
    <3>1. T \in SUBSET Nat
      OBVIOUS
    <3> HIDE DEF T
    <3> QED BY <3>1, LeastNumber
  <2>2. m \in 0 .. N /\ m # 0 /\ ~\E f : Is(f, m)
    BY <1>1, <2>1
  <2>3. m - 1 \in 0 .. N /\ m - 1 \notin T
    BY <2>1, <2>2
  <2> QED BY <1>2, <2>2, <2>3
<1>4. \E f : Is(f, N)
  <2>1. N \in 0 .. N
    OBVIOUS
  <2> QED BY <1>3, <2>1
<1> QED BY <1>4 DEF Is, Iterates

(* What holds at the start and of every next number holds up to the end.       *)
LEMMA Upward ==
  ASSUME NEW N \in Nat, NEW P, 0 \in P, \A n \in 1 .. N : n - 1 \in P => n \in P
  PROVE  \A n \in 0 .. N : n \in P
<1> DEFINE T == {n \in 0 .. N : n \notin P}
<1> SUFFICES ASSUME T # {} PROVE FALSE
  OBVIOUS
<1>1. PICK m \in T : \A k \in T : m <= k
  <2>1. T \in SUBSET Nat
    OBVIOUS
  <2> HIDE DEF T
  <2> QED BY <2>1, LeastNumber
<1>2. m \in 1 .. N /\ m - 1 \in 0 .. N /\ m - 1 \notin T
  BY <1>1
<1> QED BY <1>1, <1>2

--------------------------------------------------------------------------------
(* What Picked gives                                                          *)

(* The k-th of some numbers has k - 1 of them before it, and only it has.     *)
LEMMA RankedSet ==
    ASSUME NEW I \in SUBSET Int, IsFiniteSet(I), NEW Rank,
           Rank = [i \in I |-> Cardinality({j \in I : j < i})]
    PROVE  /\ Cardinality(I) \in Nat
           /\ Rank \in Bijection(I, 0 .. Cardinality(I) - 1)
<1> DEFINE Below(i) == {j \in I : j < i}
           m == Cardinality(I)
           N == 0 .. m - 1
<1>1. IsFiniteSet(I) /\ m \in Nat
  BY FS_CardinalityType
<1>2. ASSUME NEW T \in SUBSET I
      PROVE  IsFiniteSet(T) /\ Cardinality(T) \in Nat /\ Cardinality(T) <= m
             /\ (Cardinality(T) = m => T = I)
  BY <1>1, FS_Subset, FS_CardinalityType
<1>3. ASSUME NEW i \in I, NEW j \in I, i < j
      PROVE  Cardinality(Below(i)) < Cardinality(Below(j))
  <2>1. Below(i) \subseteq Below(j) /\ i \in Below(j) /\ i \notin Below(i)
    <3>1. \A k \in I : k < i => k < j
      BY <1>3
    <3>2. ~(i < i)
      OBVIOUS
    <3> QED BY <1>3, <3>1, <3>2
  <2>2. IsFiniteSet(Below(j)) /\ Cardinality(Below(i)) \in Nat /\ Cardinality(Below(j)) \in Nat
    <3>1. Below(i) \in SUBSET I /\ Below(j) \in SUBSET I
      OBVIOUS
    <3> HIDE DEF Below
    <3> QED BY <3>1, <1>2
  <2>3. Below(i) # Below(j) /\ Below(i) \in SUBSET Below(j)
    BY <2>1
  <2> HIDE DEF Below
  <2>4. Cardinality(Below(i)) <= Cardinality(Below(j))
    BY <2>2, <2>3, FS_Subset
  <2>5. Cardinality(Below(i)) # Cardinality(Below(j))
    BY <2>2, <2>3, FS_Subset
  <2> QED BY <2>2, <2>4, <2>5
<1>4. ASSUME NEW i \in I
      PROVE  Cardinality(Below(i)) \in N
  <2>1. Below(i) \in SUBSET I /\ Below(i) # I
    OBVIOUS
  <2> HIDE DEF Below
  <2>2. Cardinality(Below(i)) \in Nat /\ Cardinality(Below(i)) <= m /\ Cardinality(Below(i)) # m
    BY <1>2, <2>1
  <2> QED BY <1>1, <2>2
<1>5. Rank \in [I -> N]
  BY <1>4
<1>6. \A i, j \in I : Rank[i] = Rank[j] => i = j
  <2> SUFFICES ASSUME NEW i \in I, NEW j \in I, Rank[i] = Rank[j], i # j
               PROVE  FALSE
    OBVIOUS
  <2>1. Rank[i] = Cardinality(Below(i)) /\ Rank[j] = Cardinality(Below(j))
    OBVIOUS
  <2>2. Rank[i] \in N /\ Rank[j] \in N
    BY <1>5
  <2>3. i < j \/ j < i
    OBVIOUS
  <2>4. Rank[i] < Rank[j] \/ Rank[j] < Rank[i]
    BY <2>1, <2>3, <1>3
  <2> QED BY <1>1, <2>2, <2>4
<1>7. IsFiniteSet(N) /\ Cardinality(N) = m
  BY <1>1, FS_Interval
<1>8. Rank \in Injection(I, N)
  BY <1>5, <1>6 DEF Injection, IsInjective
<1>9. Rank \in Surjection(I, N)
  BY <1>7, <1>8, FS_Injection
<1> QED BY <1>1, <1>8, <1>9 DEF Bijection

LEMMA Ranked ==
    ASSUME NEW n \in Nat, NEW I \in SUBSET (1 .. n), NEW Rank,
           Rank = [i \in I |-> Cardinality({j \in I : j < i})]
    PROVE  /\ IsFiniteSet(I) /\ Cardinality(I) \in Nat
           /\ Rank \in Bijection(I, 0 .. Cardinality(I) - 1)
<1>1. IsFiniteSet(I)
  <2>1. IsFiniteSet(1 .. n)
    BY FS_Interval
  <2> QED BY <2>1, FS_Subset
<1>2. I \in SUBSET Int
  OBVIOUS
<1> QED BY <1>1, <1>2, RankedSet

(* A set written down in ascending order is Ascending of it.                  *)
Increases(g) == \A j, k \in DOMAIN g : j < k => g[j] < g[k]

LEMMA AscendingOf ==
  ASSUME NEW m \in Nat, NEW g \in [1 .. m -> Int], Increases(g), NEW I,
         \A k \in 1 .. m : g[k] \in I, \A i \in I : \E k \in 1 .. m : g[k] = i
  PROVE  IsFiniteSet(I) /\ Cardinality(I) = m /\ Ascending(I) = g
<1> DEFINE Before(i) == {j \in I : j < i}
<1>0. I = {g[k] : k \in 1 .. m}
  OBVIOUS
<1>1. \A j, k \in 1 .. m : (j < k <=> g[j] < g[k]) /\ (g[j] = g[k] => j = k)
  BY DEF Increases
<1>2. ASSUME NEW k \in 0 .. m PROVE LET J == {g[j] : j \in 1 .. k} IN IsFiniteSet(J) /\ Cardinality(J) = k
  <2> DEFINE J == {g[j] : j \in 1 .. k}
             h == [j \in 1 .. k |-> g[j]]
  <2>1. h \in [1 .. k -> J]
    OBVIOUS
  <2>2. \A i, j \in 1 .. k : h[i] = h[j] => i = j
    <3>1. \A j \in 1 .. k : j \in 1 .. m /\ h[j] = g[j]
      OBVIOUS
    <3> QED BY <1>1, <3>1
  <2>3. \A y \in J : \E j \in 1 .. k : h[j] = y
    OBVIOUS
  <2> HIDE DEF h, J
  <2>4. h \in Bijection(1 .. k, J)
    BY <2>1, <2>2, <2>3 DEF Bijection, Injection, Surjection, IsInjective
  <2>5. IsFiniteSet(1 .. k) /\ Cardinality(1 .. k) = k
    BY FS_Interval
  <2>6. IsFiniteSet(J) /\ Cardinality(J) = k
    BY <2>4, <2>5, FS_Bijection DEF ExistsBijection
  <2> QED BY <2>6 DEF J
<1>3. IsFiniteSet(I) /\ Cardinality(I) = m
  <2>1. m \in 0 .. m
    OBVIOUS
  <2>2. IsFiniteSet({g[j] : j \in 1 .. m}) /\ Cardinality({g[j] : j \in 1 .. m}) = m
    BY <1>2, <2>1
  <2> QED BY <1>0, <2>2
<1>4. ASSUME NEW k \in 1 .. m PROVE g[k] \in I /\ Cardinality(Before(g[k])) = k - 1
  <2>1. Before(g[k]) = {g[j] : j \in 1 .. k - 1}
    <3>1. ASSUME NEW i \in Before(g[k]) PROVE i \in {g[j] : j \in 1 .. k - 1}
      <4>1. PICK j \in 1 .. m : i = g[j]
        OBVIOUS
      <4>2. j \in 1 .. k - 1
        BY <1>1, <3>1, <4>1
      <4> QED BY <4>1, <4>2
    <3>2. ASSUME NEW j \in 1 .. k - 1 PROVE g[j] \in Before(g[k])
      <4>1. j \in 1 .. m /\ j < k
        OBVIOUS
      <4>2. g[j] < g[k]
        BY <1>1, <4>1
      <4> QED BY <4>1, <4>2
    <3> HIDE DEF Before
    <3> QED BY <3>1, <3>2
  <2>2. k - 1 \in 0 .. m
    OBVIOUS
  <2> HIDE DEF Before
  <2> QED BY <1>2, <2>1, <2>2
<1>5. ASSUME NEW k \in 1 .. m PROVE (CHOOSE i \in I : Cardinality(Before(i)) = k - 1) = g[k]
  <2>1. ASSUME NEW i \in I, Cardinality(Before(i)) = k - 1 PROVE i = g[k]
    <3>1. PICK j \in 1 .. m : i = g[j]
      OBVIOUS
    <3> HIDE DEF Before
    <3>2. j - 1 = k - 1
      BY <1>4, <2>1, <3>1
    <3> QED BY <3>1, <3>2
  <2> HIDE DEF Before
  <2> QED BY <1>4, <2>1
<1>6. Ascending(I) = [k \in 1 .. m |-> CHOOSE i \in I : Cardinality(Before(i)) = k - 1]
  BY <1>3 DEF Ascending
<1> HIDE DEF Before
<1>7. \A k \in 1 .. m : Ascending(I)[k] = g[k]
  BY <1>5, <1>6
<1>8. Ascending(I) = g
  BY <1>6, <1>7
<1> QED BY <1>3, <1>8

(* Each of a finite set of numbers is in it once, at its rank.                *)
LEMMA AscendingFacts ==
  ASSUME NEW I \in SUBSET Int, IsFiniteSet(I)
  PROVE  /\ Cardinality(I) \in Nat /\ Ascending(I) \in [1 .. Cardinality(I) -> I]
         /\ \A k \in 1 .. Cardinality(I) : Cardinality({j \in I : j < Ascending(I)[k]}) = k - 1
         /\ I = {Ascending(I)[k] : k \in 1 .. Cardinality(I)}
         /\ Increases(Ascending(I))
<1> DEFINE m == Cardinality(I)
           Before(i) == {j \in I : j < i}
           Rank == [i \in I |-> Cardinality(Before(i))]
           At1(k) == CHOOSE i \in I : Cardinality(Before(i)) = k - 1
           g == Ascending(I)
<1>1. m \in Nat /\ Rank \in Bijection(I, 0 .. m - 1)
  BY RankedSet
<1>2. g = [k \in 1 .. m |-> At1(k)]
  BY DEF Ascending
<1>3. \A i \in I : Rank[i] = Cardinality(Before(i))
  OBVIOUS
<1> HIDE DEF Rank
<1>4. ASSUME NEW k \in 1 .. m PROVE g[k] \in I /\ Cardinality(Before(g[k])) = k - 1 /\ Rank[g[k]] = k - 1
  <2>1. k - 1 \in 0 .. m - 1
    BY <1>1
  <2>2. PICK i \in I : Rank[i] = k - 1
    BY <1>1, <2>1 DEF Bijection, Surjection
  <2> HIDE DEF Before
  <2>3. Cardinality(Before(i)) = k - 1
    BY <1>3, <2>2
  <2>4. At1(k) \in I /\ Cardinality(Before(At1(k))) = k - 1
    BY <2>3
  <2> HIDE DEF At1, g
  <2>5. g[k] = At1(k)
    BY <1>2
  <2> QED BY <1>3, <2>4, <2>5
<1>5. ASSUME NEW i \in I PROVE \E k \in 1 .. m : g[k] = i
  <2>1. Rank[i] \in 0 .. m - 1
    BY <1>1 DEF Bijection, Injection
  <2>2. Rank[i] + 1 \in 1 .. m /\ (Rank[i] + 1) - 1 = Rank[i]
    BY <1>1, <2>1
  <2>3. g[Rank[i] + 1] \in I /\ Rank[g[Rank[i] + 1]] = Rank[i]
    BY <1>4, <2>2
  <2>4. \A j \in I : Rank[j] = Rank[i] => j = i
    BY <1>1 DEF Bijection, Injection, IsInjective
  <2> QED BY <2>2, <2>3, <2>4
<1> HIDE DEF At1, g
<1>6. g \in [1 .. m -> I]
  BY <1>2, <1>4
<1>7. I = {g[k] : k \in 1 .. m}
  BY <1>4, <1>5
<1>8. ASSUME NEW j \in 1 .. m, NEW k \in 1 .. m, j < k PROVE g[j] < g[k]
  <2>0. g[j] \in Int /\ g[k] \in Int
    BY <1>6
  <2> SUFFICES ASSUME g[k] <= g[j] PROVE FALSE
    BY <2>0
  <2>1. Before(g[k]) \in SUBSET Before(g[j]) /\ IsFiniteSet(Before(g[j]))
    <3>1. \A i \in I : i < g[k] => i < g[j]
      BY <2>0
    <3>2. Before(g[j]) \in SUBSET I /\ Before(g[k]) \in SUBSET Before(g[j])
      BY <3>1
    <3> HIDE DEF Before
    <3> QED BY <3>2, FS_Subset
  <2> HIDE DEF Before
  <2>2. Cardinality(Before(g[k])) <= Cardinality(Before(g[j]))
    BY <2>1, FS_Subset
  <2> QED BY <1>1, <1>4, <1>8, <2>2
<1>9. Increases(g)
  BY <1>1, <1>6, <1>8 DEF Increases
<1> QED BY <1>1, <1>4, <1>6, <1>7, <1>9 DEF g

(* Numbers behind all the others come after them.                             *)
LEMMA AscendingJoined ==
  ASSUME NEW A \in SUBSET Int, IsFiniteSet(A), NEW B \in SUBSET Int, IsFiniteSet(B),
         \A a \in A, b \in B : a < b
  PROVE  Ascending(A \cup B) = Ascending(A) \o Ascending(B)
<1> DEFINE p == Ascending(A)
           q == Ascending(B)
           m == Cardinality(A)
           n == Cardinality(B)
           g == p \o q
<1>1. /\ m \in Nat /\ p \in [1 .. m -> A] /\ A = {p[k] : k \in 1 .. m} /\ Increases(p)
      /\ n \in Nat /\ q \in [1 .. n -> B] /\ B = {q[k] : k \in 1 .. n} /\ Increases(q)
  BY AscendingFacts
<1> HIDE DEF p, q, m, n
<1>2. p \in Seq(Int) /\ q \in Seq(Int) /\ Len(p) = m /\ Len(q) = n
  BY <1>1
<1>3. /\ g \in Seq(Int) /\ Len(g) = m + n
      /\ \A k \in 1 .. m : g[k] = p[k]
      /\ \A k \in m + 1 .. m + n : g[k] = q[k - m]
  <2>1. g \in Seq(Int) /\ Len(g) = m + n
    BY <1>2, ConcatProperties
  <2>2. \A k \in 1 .. m + n : g[k] = IF k <= m THEN p[k] ELSE q[k - m]
    BY <1>2, ConcatProperties
  <2> HIDE DEF g
  <2>3. \A k \in 1 .. m : k \in 1 .. m + n /\ k <= m
    BY <1>1
  <2>4. \A k \in m + 1 .. m + n : k \in 1 .. m + n /\ ~(k <= m)
    BY <1>1
  <2> QED BY <2>1, <2>2, <2>3, <2>4
<1> HIDE DEF g
<1>4. g \in [1 .. m + n -> Int] /\ m + n \in Nat
  BY <1>1, <1>3
<1>5. (\A k \in 1 .. m + n : g[k] \in A \cup B) /\ (\A i \in A \cup B : \E k \in 1 .. m + n : g[k] = i)
  <2>1. ASSUME NEW a \in A PROVE \E k \in 1 .. m + n : g[k] = a
    <3>1. PICK k \in 1 .. m : p[k] = a
      BY <1>1
    <3>2. k \in 1 .. m + n
      BY <1>1
    <3> QED BY <1>3, <3>1, <3>2
  <2>2. ASSUME NEW b \in B PROVE \E k \in 1 .. m + n : g[k] = b
    <3>1. PICK k \in 1 .. n : q[k] = b
      BY <1>1
    <3>2. k + m \in m + 1 .. m + n /\ (k + m) - m = k /\ k + m \in 1 .. m + n
      BY <1>1
    <3>3. g[k + m] = q[k]
      BY <1>3, <3>2
    <3> QED BY <3>1, <3>2, <3>3
  <2>3. ASSUME NEW k \in 1 .. m + n PROVE g[k] \in A \cup B
    <3>1. k \in 1 .. m \/ (k \in m + 1 .. m + n /\ k - m \in 1 .. n)
      BY <1>1
    <3> QED BY <1>1, <1>3, <3>1
  <2> QED BY <2>1, <2>2, <2>3
<1>6. ASSUME NEW j \in 1 .. m + n, NEW k \in 1 .. m + n, j < k PROVE g[j] < g[k]
  <2>1. CASE k <= m
    <3>1. j \in 1 .. m /\ k \in 1 .. m
      BY <1>1, <1>6, <2>1
    <3> QED BY <1>1, <1>3, <1>6, <3>1 DEF Increases
  <2>2. CASE j > m
    <3>1. /\ j - m \in 1 .. n /\ k - m \in 1 .. n /\ j - m < k - m
          /\ j \in m + 1 .. m + n /\ k \in m + 1 .. m + n
      BY <1>1, <1>6, <2>2
    <3>2. q[j - m] < q[k - m]
      BY <1>1, <3>1 DEF Increases
    <3> QED BY <1>3, <3>1, <3>2
  <2>3. CASE j <= m /\ k > m
    <3>1. j \in 1 .. m /\ k \in m + 1 .. m + n /\ k - m \in 1 .. n
      BY <1>1, <2>3
    <3>2. p[j] \in A /\ q[k - m] \in B
      BY <1>1, <3>1
    <3> QED BY <1>3, <3>1, <3>2
  <2> QED BY <1>1, <2>1, <2>2, <2>3
<1>7. Increases(g)
  BY <1>4, <1>6 DEF Increases
<1>8. Ascending(A \cup B) = g
  BY <1>4, <1>5, <1>7, AscendingOf
<1> QED BY <1>8 DEF g, p, q

LEMMA PickedAt ==
  ASSUME NEW s, NEW I
  PROVE  Picked(s, I) = [k \in 1 .. Cardinality(I) |->
                            s[CHOOSE i \in I : Cardinality({j \in I : j < i}) = k - 1]]
<1> DEFINE At1(k) == CHOOSE i \in I : Cardinality({j \in I : j < i}) = k - 1
<1>1. Ascending(I) = [k \in 1 .. Cardinality(I) |-> At1(k)]
  BY DEF Ascending
<1> HIDE DEF At1
<1>2. \A k \in 1 .. Cardinality(I) : Ascending(I)[k] = At1(k)
  BY <1>1
<1>3. Picked(s, I) = [k \in 1 .. Cardinality(I) |-> s[At1(k)]]
  BY <1>2 DEF Picked
<1> QED BY <1>3 DEF At1

(* What is picked is what is at the positions: once each, and all of it.      *)
LEMMA PickedFacts ==
    ASSUME NEW S, NEW s \in Seq(S), NEW I \in SUBSET (DOMAIN s), NEW p, p = Picked(s, I)
    PROVE  /\ p \in Seq(S)
           /\ \A k \in DOMAIN p : \E i \in I : p[k] = s[i]
           /\ \A i \in I : \E k \in DOMAIN p : p[k] = s[i]
           /\ OneEach(s) => OneEach(p)
<1> DEFINE n == Len(s)
           m == Cardinality(I)
           Rank == [i \in I |-> Cardinality({j \in I : j < i})]
           Before(i) == {j \in I : j < i}
           At1(k) == CHOOSE i \in I : Cardinality(Before(i)) = k - 1
<1>1. n \in Nat /\ DOMAIN s = 1 .. n /\ \A i \in DOMAIN s : s[i] \in S
  OBVIOUS
<1>2. IsFiniteSet(I) /\ m \in Nat /\ Rank \in Bijection(I, 0 .. m - 1)
  BY <1>1, Ranked
<1>3. p = [k \in 1 .. m |-> s[At1(k)]]
  BY PickedAt
<1>r. \A i \in I : Rank[i] = Cardinality(Before(i))
  OBVIOUS
<1> HIDE DEF Rank, Before
<1>4. ASSUME NEW k \in 1 .. m
      PROVE  At1(k) \in I /\ Rank[At1(k)] = k - 1
  <2>1. k - 1 \in 0 .. m - 1
    BY <1>2
  <2>2. \E i \in I : Rank[i] = k - 1
    BY <1>2, <2>1 DEF Bijection, Surjection
  <2> QED BY <2>2, <1>r
<1>5. ASSUME NEW i \in I
      PROVE  Rank[i] + 1 \in 1 .. m /\ At1(Rank[i] + 1) = i
  <2>1. Rank[i] \in 0 .. m - 1
    BY <1>2 DEF Bijection, Injection
  <2>2. Rank[i] + 1 \in 1 .. m /\ (Rank[i] + 1) - 1 = Rank[i]
    BY <1>2, <2>1
  <2>3. At1(Rank[i] + 1) \in I /\ Rank[At1(Rank[i] + 1)] = Rank[i]
    BY <2>2, <1>4
  <2>4. \A j \in I : Rank[j] = Rank[i] => j = i
    BY <1>2 DEF Bijection, Injection, IsInjective
  <2> QED BY <2>2, <2>3, <2>4
<1> HIDE DEF At1
<1>6. DOMAIN p = 1 .. m /\ \A k \in 1 .. m : p[k] = s[At1(k)]
  BY <1>3
<1>7. p \in Seq(S)
  <2>1. \A k \in 1 .. m : s[At1(k)] \in S
    BY <1>1, <1>4
  <2>2. p \in [1 .. m -> S]
    BY <1>3, <2>1
  <2> QED BY <1>2, <2>2
<1>8. \A k \in DOMAIN p : \E i \in I : p[k] = s[i]
  BY <1>4, <1>6
<1>9. \A i \in I : \E k \in DOMAIN p : p[k] = s[i]
  BY <1>5, <1>6
<1>10. OneEach(s) => OneEach(p)
  <2> SUFFICES ASSUME OneEach(s), NEW k \in 1 .. m, NEW l \in 1 .. m, p[k].by = p[l].by
               PROVE  k = l
    BY <1>6 DEF OneEach
  <2>1. s[At1(k)].by = s[At1(l)].by /\ At1(k) \in DOMAIN s /\ At1(l) \in DOMAIN s
    BY <1>4, <1>6
  <2>2. At1(k) = At1(l)
    BY <2>1 DEF OneEach
  <2>3. k - 1 = l - 1
    BY <2>2, <1>4
  <2> QED BY <1>2, <2>3
<1> QED BY <1>7, <1>8, <1>9, <1>10

LEMMA PickedNone == ASSUME NEW s PROVE Picked(s, {}) = <<>>
<1>1. Cardinality({}) = 0
  BY FS_EmptySet
<1> QED BY <1>1 DEF Picked

(* One more position behind all the others is one more element at the end.    *)
LEMMA PickedNext ==
  ASSUME NEW S, NEW s \in Seq(S), NEW n \in DOMAIN s, NEW I \in SUBSET (1 .. n - 1)
  PROVE  Picked(s, I \cup {n}) = Append(Picked(s, I), s[n])
<1> DEFINE J == I \cup {n}
           m == Cardinality(I)
           Before(i) == {j \in I : j < i}
           Until(i) == {j \in J : j < i}
           At1(k) == CHOOSE i \in I : Cardinality(Before(i)) = k - 1
           At2(k) == CHOOSE i \in J : Cardinality(Until(i)) = k - 1
           Rank == [i \in I |-> Cardinality(Before(i))]
<1>1. n \in 1 .. Len(s) /\ n - 1 \in Nat
  OBVIOUS
<1>2. IsFiniteSet(I) /\ m \in Nat /\ Rank \in Bijection(I, 0 .. m - 1)
  BY <1>1, Ranked
<1>3. IsFiniteSet(J) /\ Cardinality(J) = m + 1
  <2>1. n \notin I
    BY <1>1
  <2> QED BY <1>2, <2>1, FS_AddElement
<1>4. Until(n) = I /\ \A i \in I : Until(i) = Before(i)
  <2>1. ~(n < n) /\ \A i \in I : i < n /\ ~(n < i)
    BY <1>1
  <2>2. \A j : j \in Until(n) <=> j \in I
    BY <2>1
  <2>3. ASSUME NEW i \in I PROVE \A j : j \in Until(i) <=> j \in Before(i)
    BY <2>1
  <2> HIDE DEF Until, Before
  <2> QED BY <2>2, <2>3
<1>5. \A i \in I : Cardinality(Before(i)) = Rank[i] /\ Rank[i] \in 0 .. m - 1
  BY <1>2 DEF Bijection, Injection
<1>6. \A i, j \in I : Rank[i] = Rank[j] => i = j
  BY <1>2 DEF Bijection, Injection, IsInjective
<1>7. \A r \in 0 .. m - 1 : \E i \in I : Rank[i] = r
  BY <1>2 DEF Bijection, Surjection
<1>8. Picked(s, I) = [k \in 1 .. m |-> s[At1(k)]] /\ Picked(s, J) = [k \in 1 .. m + 1 |-> s[At2(k)]]
  BY <1>3, PickedAt
<1> HIDE DEF Rank, Before, Until, m
<1>9. ASSUME NEW k \in 1 .. m PROVE At2(k) = At1(k)
  <2>1. PICK i \in I : Rank[i] = k - 1
    <3>1. k - 1 \in 0 .. m - 1
      BY <1>2
    <3> QED BY <1>7, <3>1
  <2>2. Cardinality(Before(i)) = k - 1 /\ \A j \in I : Cardinality(Before(j)) = k - 1 => j = i
    BY <1>5, <1>6, <2>1
  <2>3. At1(k) = i
    BY <2>2
  <2>4. Cardinality(Until(i)) = k - 1 /\ \A j \in J : Cardinality(Until(j)) = k - 1 => j = i
    <3>1. Cardinality(Until(n)) # k - 1
      BY <1>2, <1>4 DEF m
    <3> QED BY <1>4, <2>2, <3>1
  <2>5. At2(k) = i
    BY <2>4
  <2> QED BY <2>3, <2>5
<1>10. At2(m + 1) = n
  <2>1. Cardinality(Until(n)) = (m + 1) - 1
    BY <1>2, <1>4 DEF m
  <2>2. \A j \in J : Cardinality(Until(j)) = (m + 1) - 1 => j = n
    BY <1>2, <1>4, <1>5
  <2> QED BY <2>1, <2>2
<1>11. ASSUME NEW k \in 1 .. m PROVE At1(k) \in I
  <2>1. \E i \in I : Cardinality(Before(i)) = k - 1
    <3>1. k - 1 \in 0 .. m - 1
      BY <1>2
    <3> QED BY <1>5, <1>7, <3>1
  <2> QED BY <2>1
<1> HIDE DEF At1, At2, J
<1>12. Picked(s, I) \in Seq(S) /\ Len(Picked(s, I)) = m
  <2>1. \A k \in 1 .. m : s[At1(k)] \in S
    <3>1. \A i \in I : s[i] \in S
      BY <1>1
    <3> QED BY <1>11, <3>1
  <2> QED BY <1>2, <1>8, <2>1
<1>13. s[n] \in S
  BY <1>1
<1>14. /\ Append(Picked(s, I), s[n]) \in Seq(S)
       /\ Len(Append(Picked(s, I), s[n])) = m + 1
       /\ \A k \in 1 .. m : Append(Picked(s, I), s[n])[k] = Picked(s, I)[k]
       /\ Append(Picked(s, I), s[n])[m + 1] = s[n]
  BY <1>12, <1>13, AppendProperties
<1>15. ASSUME NEW k \in 1 .. m + 1
       PROVE  Append(Picked(s, I), s[n])[k] = s[At2(k)] /\ s[At2(k)] \in S
  <2>1. k = m + 1 \/ k \in 1 .. m
    BY <1>2
  <2>2. \A i \in 1 .. m : Picked(s, I)[i] = s[At1(i)] /\ s[At1(i)] \in S
    <3>1. \A i \in I : s[i] \in S
      BY <1>1
    <3>2. \A i \in 1 .. m : s[At1(i)] \in S
      BY <1>11, <3>1
    <3>3. \A i \in 1 .. m : Picked(s, I)[i] = s[At1(i)]
      BY <1>8
    <3> QED BY <3>2, <3>3
  <2> QED BY <1>9, <1>10, <1>13, <1>14, <2>1, <2>2
<1>16. Picked(s, J) \in Seq(S) /\ Len(Picked(s, J)) = m + 1
  BY <1>2, <1>8, <1>15
<1>17. Picked(s, J) = Append(Picked(s, I), s[n])
  <2>1. \A k \in 1 .. m + 1 : Picked(s, J)[k] = Append(Picked(s, I), s[n])[k]
    BY <1>8, <1>15
  <2> QED BY <1>14, <1>16, <2>1, SeqEqual
<1> QED BY <1>17 DEF J
================================================================================
