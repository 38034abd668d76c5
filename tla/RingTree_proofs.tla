--------------------------- MODULE RingTree_proofs ---------------------------
(***************************************************************************)
(* Facts about the geometry of a level's tree, for every number of sets    *)
(* and of leaves per set.                                                  *)
(***************************************************************************)
EXTENDS RingTree, TLAPS, FunctionTheorems, FiniteSetTheorems, WellFoundedInduction

USE TreeAssumption

-----------------------------------------------------------------------------
(***************************************************************************)
(* Natural numbers and recursion.                                          *)
(***************************************************************************)

\* Every non-empty set of natural numbers has a least element.
LEMMA NatLeast ==
  ASSUME NEW D \in SUBSET Nat, D # {}
  PROVE  \E d \in D : \A e \in D : d <= e
<1>1. PICK d \in D : \A e \in D : ~(<<e, d>> \in OpToRel(<, Nat))
  BY NatLessThanWellFounded, WFMin
<1>2. ASSUME NEW e \in D, e < d PROVE FALSE
  <2>1. <<e, d>> \in OpToRel(<, Nat)
    BY <1>2 DEF OpToRel
  <2> QED BY <1>1, <2>1
<1>3. \A e \in D : d <= e
  BY <1>2
<1> QED BY <1>3

\* A set with a bound has a greatest element.
LEMMA NatGreatest ==
  ASSUME NEW D \in SUBSET Nat, D # {}, NEW b \in Nat, \A d \in D : d <= b
  PROVE  \E d \in D : \A e \in D : d >= e
<1> DEFINE E == {b - d : d \in D}
<1>1. E \in SUBSET Nat /\ E # {}
  <2>1. ASSUME NEW d \in D PROVE b - d \in Nat
    <3>1. d \in Nat /\ d <= b
      OBVIOUS
    <3> QED BY <3>1
  <2> QED BY <2>1
<1>2. PICK x \in E : \A y \in E : x <= y
  <2> HIDE DEF E
  <2> QED BY <1>1, NatLeast
<1>3. PICK d \in D : x = b - d
  OBVIOUS
<1>4. \A e \in D : d >= e
  <2> SUFFICES ASSUME NEW e \in D PROVE d >= e
    OBVIOUS
  <2>1. b - e \in E
    OBVIOUS
  <2>2. b - d <= b - e
    BY <1>2, <1>3, <2>1
  <2> QED BY <2>2
<1> QED BY <1>4

\* What Min and Max choose.
LEMMA MinIsLeast ==
  ASSUME NEW D \in SUBSET Nat, D # {}
  PROVE  Min(D) \in D
BY NatLeast DEF Min

LEMMA MaxIsGreatest ==
  ASSUME NEW D \in SUBSET Nat, D # {}, NEW b \in Nat, \A d \in D : d <= b
  PROVE  Max(D) \in D
BY NatGreatest DEF Max

\* A function can be defined by recursion on the natural numbers.
LEMMA Recursion ==
  ASSUME NEW V, NEW e \in V, NEW step \in [Nat -> [V -> V]]
  PROVE  \E f \in [Nat -> V] :
           \A n \in Nat : f[n] = IF n = 0 THEN e ELSE step[n - 1][f[n - 1]]
<1> DEFINE Starts(n, g) == /\ g \in [0 .. n -> V]
                           /\ \A m \in 0 .. n : g[m] = IF m = 0 THEN e ELSE step[m - 1][g[m - 1]]
           D == {n \in Nat : ~ \E g : Starts(n, g)}
<1>1. D = {}
  <2> SUFFICES ASSUME D # {} PROVE FALSE
    OBVIOUS
  <2>1. PICK n \in D : \A m \in D : n <= m
    BY NatLeast
  <2>2. CASE n = 0
    <3>1. Starts(n, [m \in 0 .. n |-> e])
      BY <2>2
    <3> QED BY <2>1, <3>1
  <2>3. CASE n # 0
    <3>1. n \in Nat /\ n - 1 \in Nat /\ n - 1 \notin D
      <4>1. n \in Nat
        BY <2>1
      <4>2. n - 1 \in Nat /\ n - 1 < n
        BY <4>1, <2>3
      <4> HIDE DEF D
      <4> QED BY <2>1, <4>1, <4>2
    <3>2. PICK g : Starts(n - 1, g)
      BY <3>1
    <3> DEFINE h == [m \in 0 .. n |-> IF m = n THEN step[n - 1][g[n - 1]] ELSE g[m]]
    <3>3. g[n - 1] \in V /\ step[n - 1] \in [V -> V]
      BY <3>1, <3>2
    <3>4. h \in [0 .. n -> V]
      BY <3>1, <3>2, <3>3
    <3>5. ASSUME NEW m \in 0 .. n
          PROVE  h[m] = IF m = 0 THEN e ELSE step[m - 1][h[m - 1]]
      <4>1. CASE m = n
        BY <4>1, <2>3, <3>1
      <4>2. CASE m # n
        <5>1. m \in 0 .. n - 1 /\ (m # 0 => m - 1 \in 0 .. n - 1 /\ m - 1 # n)
          BY <4>2, <3>1
        <5> QED BY <5>1, <4>2, <3>2
      <4> QED BY <4>1, <4>2
    <3>6. Starts(n, h)
      <4> HIDE DEF h
      <4> QED BY <3>4, <3>5
    <3> QED BY <3>6
  <2> QED BY <2>2, <2>3
<1>2. ASSUME NEW n \in Nat, NEW k \in Nat, NEW g, NEW h, Starts(n, g), Starts(k, h), n <= k
      PROVE  \A m \in 0 .. n : g[m] = h[m]
  <2> DEFINE B == {m \in 0 .. n : g[m] # h[m]}
  <2> SUFFICES ASSUME B # {} PROVE FALSE
    OBVIOUS
  <2>1. PICK m \in B : \A i \in B : m <= i
    <3>1. B \in SUBSET Nat
      OBVIOUS
    <3> HIDE DEF B
    <3> QED BY <3>1, NatLeast
  <2>2. m \in 0 .. n /\ m \in 0 .. k
    BY <1>2
  <2>3. m # 0
    BY <1>2, <2>2
  <2>4. m - 1 \in 0 .. n /\ m - 1 \notin B
    BY <2>1, <2>2, <2>3
  <2>5. g[m - 1] = h[m - 1]
    BY <2>4
  <2> QED BY <1>2, <2>2, <2>3, <2>5
<1> DEFINE F(n) == CHOOSE g : Starts(n, g)
           f == [n \in Nat |-> F(n)[n]]
<1> HIDE DEF Starts
<1>3. ASSUME NEW n \in Nat PROVE Starts(n, F(n))
  BY <1>1
<1> USE DEF Starts
<1>4. ASSUME NEW n \in Nat
      PROVE  f[n] \in V /\ f[n] = IF n = 0 THEN e ELSE step[n - 1][f[n - 1]]
  <2>1. n \in 0 .. n /\ f[n] = F(n)[n]
    OBVIOUS
  <2>2. F(n)[n] \in V /\ F(n)[n] = IF n = 0 THEN e ELSE step[n - 1][F(n)[n - 1]]
    <3> HIDE DEF F
    <3> QED BY <1>3, <2>1
  <2>3. CASE n # 0
    <3>1. n - 1 \in Nat /\ n - 1 <= n /\ n - 1 \in 0 .. n - 1
      BY <2>3
    <3>2. F(n)[n - 1] = F(n - 1)[n - 1]
      <4> HIDE DEF F, Starts
      <4>1. Starts(n, F(n)) /\ Starts(n - 1, F(n - 1))
        BY <1>3, <3>1
      <4> QED BY <1>2, <3>1, <4>1
    <3>3. f[n - 1] = F(n - 1)[n - 1]
      BY <3>1
    <3> HIDE DEF F, f
    <3> QED BY <2>1, <2>2, <2>3, <3>2, <3>3
  <2> QED BY <2>1, <2>2, <2>3
<1> HIDE DEF f
<1>5. f \in [Nat -> V]
  BY <1>4 DEF f
<1> QED BY <1>4, <1>5

-----------------------------------------------------------------------------
(***************************************************************************)
(* Powers of two and the order of the write-backs.                         *)
(***************************************************************************)
LEMMA Pow2Def ==
  /\ Pow2 \in [Nat -> Nat]
  /\ \A n \in Nat : Pow2[n] = IF n = 0 THEN 1 ELSE 2 * Pow2[n - 1]
<1> DEFINE double == [n \in Nat |-> [v \in Nat |-> 2 * v]]
<1>1. double \in [Nat -> [Nat -> Nat]]
  OBVIOUS
<1>2. PICK f \in [Nat -> Nat] :
        \A n \in Nat : f[n] = IF n = 0 THEN 1 ELSE double[n - 1][f[n - 1]]
  <2> DEFINE V == Nat
             one == 1
  <2>1. one \in V /\ double \in [Nat -> [V -> V]]
    BY <1>1
  <2> HIDE DEF double, V, one
  <2>2. \E f \in [Nat -> V] :
           \A n \in Nat : f[n] = IF n = 0 THEN one ELSE double[n - 1][f[n - 1]]
    BY <2>1, Recursion
  <2> QED BY <2>2 DEF V, one
<1>3. ASSUME NEW n \in Nat PROVE f[n] = IF n = 0 THEN 1 ELSE 2 * f[n - 1]
  <2>1. CASE n = 0
    BY <1>2, <2>1
  <2>2. CASE n # 0
    <3>1. n - 1 \in Nat /\ f[n - 1] \in Nat
      BY <2>2
    <3> QED BY <1>2, <2>2, <3>1
  <2> QED BY <2>1, <2>2
<1>4. f = [n \in Nat |-> IF n = 0 THEN 1 ELSE 2 * f[n - 1]]
  BY <1>3
<1>5. Pow2 = [n \in Nat |-> IF n = 0 THEN 1 ELSE 2 * Pow2[n - 1]]
  BY <1>4 DEF Pow2
<1>6. \A n \in Nat : Pow2[n] = IF n = 0 THEN 1 ELSE 2 * Pow2[n - 1]
  BY <1>5
<1>7. \A n \in Nat : Pow2[n] \in Nat
  <2> DEFINE D == {n \in Nat : Pow2[n] \notin Nat}
  <2> SUFFICES ASSUME D # {} PROVE FALSE
    OBVIOUS
  <2>1. PICK n \in D : \A m \in D : n <= m
    BY NatLeast
  <2>2. CASE n = 0
    BY <1>6, <2>1, <2>2
  <2>3. CASE n # 0
    <3>1. n \in Nat /\ n - 1 \in Nat /\ n - 1 < n
      BY <2>3
    <3>2. Pow2[n - 1] \in Nat
      BY <2>1, <3>1
    <3> QED BY <1>6, <2>1, <2>3, <3>1, <3>2
  <2> QED BY <2>2, <2>3
<1> QED BY <1>5, <1>6, <1>7

LEMMA Pow2Facts ==
  /\ Pow2[0] = 1
  /\ \A n \in Nat : Pow2[n] \in Nat \ {0} /\ Pow2[n + 1] = 2 * Pow2[n]
<1>1. Pow2[0] = 1
  BY Pow2Def
<1>2. ASSUME NEW n \in Nat PROVE Pow2[n + 1] = 2 * Pow2[n]
  <2>1. n + 1 \in Nat /\ n + 1 # 0 /\ (n + 1) - 1 = n
    OBVIOUS
  <2> QED BY <2>1, Pow2Def
<1>3. \A n \in Nat : Pow2[n] # 0
  <2> DEFINE D == {n \in Nat : Pow2[n] = 0}
  <2> SUFFICES ASSUME D # {} PROVE FALSE
    OBVIOUS
  <2>1. PICK n \in D : \A m \in D : n <= m
    BY NatLeast
  <2>2. n # 0
    BY <1>1, <2>1
  <2>3. n - 1 \in Nat /\ n - 1 < n /\ n \in Nat
    BY <2>2
  <2>4. Pow2[n] = 2 * Pow2[n - 1] /\ Pow2[n - 1] \in Nat
    BY <2>2, <2>3, Pow2Def
  <2> QED BY <2>1, <2>3, <2>4
<1> QED BY <1>1, <1>2, <1>3, Pow2Def

LEMMA Pow2Sum ==
  ASSUME NEW m \in Nat, NEW n \in Nat
  PROVE  Pow2[m + n] = Pow2[m] * Pow2[n]
<1> DEFINE D == {k \in Nat : Pow2[m + k] # Pow2[m] * Pow2[k]}
<1> SUFFICES ASSUME D # {} PROVE FALSE
  OBVIOUS
<1>1. PICK k \in D : \A j \in D : k <= j
  BY NatLeast
<1>2. k # 0
  <2>1. m + 0 = m /\ Pow2[m] * 1 = Pow2[m]
    BY Pow2Facts
  <2> QED BY <1>1, <2>1, Pow2Facts
<1>3. k - 1 \in Nat /\ k - 1 < k /\ k \in Nat /\ m + (k - 1) \in Nat
  BY <1>2
<1>4. Pow2[m + (k - 1)] = Pow2[m] * Pow2[k - 1]
  BY <1>1, <1>3
<1>5. (k - 1) + 1 = k /\ (m + (k - 1)) + 1 = m + k
  BY <1>3
<1>6. Pow2[k] = 2 * Pow2[k - 1] /\ Pow2[m + k] = 2 * Pow2[m + (k - 1)]
  <2>1. Pow2[(k - 1) + 1] = 2 * Pow2[k - 1]
    BY <1>3, Pow2Facts
  <2>2. Pow2[(m + (k - 1)) + 1] = 2 * Pow2[m + (k - 1)]
    BY <1>3, Pow2Facts
  <2> QED BY <1>5, <2>1, <2>2
<1>7. Pow2[m] \in Nat /\ Pow2[k - 1] \in Nat
  BY <1>3, Pow2Facts
<1>8. 2 * (Pow2[m] * Pow2[k - 1]) = Pow2[m] * (2 * Pow2[k - 1])
  BY <1>7
<1> QED BY <1>1, <1>4, <1>6, <1>8

LEMMA Pow2Grows ==
  ASSUME NEW m \in Nat, NEW n \in Nat, m <= n
  PROVE  Pow2[m] <= Pow2[n]
<1>1. n - m \in Nat /\ m + (n - m) = n
  OBVIOUS
<1>2. Pow2[n] = Pow2[m] * Pow2[n - m]
  BY <1>1, Pow2Sum
<1>3. Pow2[m] \in Nat \ {0} /\ Pow2[n - m] \in Nat \ {0}
  BY <1>1, Pow2Facts
<1> QED BY <1>2, <1>3

LEMMA ReversedDef ==
  \A n \in Nat :
    /\ Reversed[n] \in [Nat -> Nat]
    /\ \A c \in Nat : Reversed[n][c] = IF n = 0 THEN 0
                        ELSE (c % 2) * Pow2[n - 1] + Reversed[n - 1][c \div 2]
<1> DEFINE V == [Nat -> Nat]
           e == [c \in Nat |-> 0]
           shift == [n \in Nat |-> [g \in V |->
                       [c \in Nat |-> (c % 2) * Pow2[n] + g[c \div 2]]]]
<1>1. e \in V
  OBVIOUS
<1>2. \A c \in Nat : c % 2 \in Nat /\ c \div 2 \in Nat
  OBVIOUS
<1>3. ASSUME NEW n \in Nat, NEW g \in V
      PROVE  [c \in Nat |-> (c % 2) * Pow2[n] + g[c \div 2]] \in V
  <2>1. ASSUME NEW c \in Nat PROVE (c % 2) * Pow2[n] + g[c \div 2] \in Nat
    <3>1. c % 2 \in Nat /\ Pow2[n] \in Nat /\ g[c \div 2] \in Nat
      BY <1>2, Pow2Facts
    <3> QED BY <3>1
  <2> QED BY <2>1
<1>4. shift \in [Nat -> [V -> V]]
  BY <1>3
<1>5. PICK f \in [Nat -> V] :
        \A n \in Nat : f[n] = IF n = 0 THEN e ELSE shift[n - 1][f[n - 1]]
  <2> HIDE DEF e, V, shift
  <2> QED BY <1>1, <1>4, Recursion
<1> DEFINE Body(r, n) == [c \in Nat |-> IF n = 0 THEN 0
                            ELSE (c % 2) * Pow2[n - 1] + r[n - 1][c \div 2]]
<1>6. ASSUME NEW n \in Nat PROVE f[n] = Body(f, n)
  <2>1. CASE n = 0
    BY <1>5, <2>1
  <2>2. CASE n # 0
    <3>1. n - 1 \in Nat /\ f[n - 1] \in V
      BY <2>2
    <3>2. shift[n - 1][f[n - 1]] = [c \in Nat |-> (c % 2) * Pow2[n - 1] + f[n - 1][c \div 2]]
      <4> HIDE DEF V
      <4> QED BY <3>1
    <3>3. f[n] = [c \in Nat |-> (c % 2) * Pow2[n - 1] + f[n - 1][c \div 2]]
      BY <1>5, <2>2, <3>2
    <3> QED BY <2>2, <3>3
  <2> QED BY <2>1, <2>2
<1>7. f = [n \in Nat |-> Body(f, n)]
  <2> HIDE DEF Body
  <2> QED BY <1>6
<1>8. Reversed = [n \in Nat |-> Body(Reversed, n)]
  BY <1>7 DEF Reversed
<1>9. \A n \in Nat : Reversed[n] = Body(Reversed, n)
  <2> HIDE DEF Body
  <2> QED BY <1>8
<1>10. \A n \in Nat : Reversed[n] \in V
  <2> DEFINE D == {n \in Nat : Reversed[n] \notin V}
  <2> SUFFICES ASSUME D # {} PROVE FALSE
    OBVIOUS
  <2>1. PICK n \in D : \A m \in D : n <= m
    <3> HIDE DEF V
    <3> QED BY NatLeast
  <2>2. CASE n = 0
    BY <1>9, <2>1, <2>2
  <2>3. CASE n # 0
    <3>1. n \in Nat /\ n - 1 \in Nat /\ n - 1 < n
      BY <2>3
    <3>2. Reversed[n - 1] \in V
      <4> HIDE DEF V
      <4> QED BY <2>1, <3>1
    <3>3. Body(Reversed, n) = [c \in Nat |-> (c % 2) * Pow2[n - 1] + Reversed[n - 1][c \div 2]]
      BY <2>3
    <3>4. Body(Reversed, n) \in V
      <4> HIDE DEF V, Body
      <4> QED BY <1>3, <3>1, <3>2, <3>3
    <3> HIDE DEF V, Body
    <3> QED BY <1>9, <2>1, <3>1, <3>4
  <2> QED BY <2>2, <2>3
<1> SUFFICES ASSUME NEW n \in Nat, NEW c \in Nat
             PROVE  Reversed[n][c] = IF n = 0 THEN 0
                      ELSE (c % 2) * Pow2[n - 1] + Reversed[n - 1][c \div 2]
  BY <1>10
<1> HIDE DEF Body
<1>11. Reversed[n][c] = Body(Reversed, n)[c]
  BY <1>9
<1> QED BY <1>11 DEF Body

\* A reversed counter has no more bits than the counter.
LEMMA ReversedBound ==
  ASSUME NEW n \in Nat, NEW c \in Nat
  PROVE  Reversed[n][c] \in 0 .. Pow2[n] - 1
<1> DEFINE D == {k \in Nat : ~ \A b \in Nat : Reversed[k][b] < Pow2[k]}
<1>1. D = {}
  <2> SUFFICES ASSUME D # {} PROVE FALSE
    OBVIOUS
  <2>1. PICK k \in D : \A j \in D : k <= j
    BY NatLeast
  <2>2. PICK b \in Nat : ~(Reversed[k][b] < Pow2[k])
    BY <2>1
  <2>3. CASE k = 0
    <3>1. Reversed[k][b] = 0
      BY <2>3, ReversedDef
    <3>2. Pow2[k] = 1
      BY <2>3, Pow2Facts
    <3> QED BY <2>2, <3>1, <3>2
  <2>4. CASE k # 0
    <3>1. k \in Nat /\ k - 1 \in Nat /\ k - 1 < k /\ (k - 1) + 1 = k
      BY <2>4
    <3>2. b \div 2 \in Nat /\ b % 2 \in 0 .. 1
      OBVIOUS
    <3>3. Reversed[k - 1][b \div 2] < Pow2[k - 1] /\ Reversed[k - 1][b \div 2] \in Nat
      BY <2>1, <3>1, <3>2, ReversedDef
    <3>4. Pow2[k] = 2 * Pow2[k - 1] /\ Pow2[k - 1] \in Nat
      BY <3>1, Pow2Facts
    <3>5. Reversed[k][b] = (b % 2) * Pow2[k - 1] + Reversed[k - 1][b \div 2]
      BY <2>4, <3>1, ReversedDef
    <3>6. CASE b % 2 = 0
      BY <2>2, <3>3, <3>4, <3>5, <3>6
    <3>7. CASE b % 2 = 1
      BY <2>2, <3>3, <3>4, <3>5, <3>7
    <3> QED BY <3>2, <3>6, <3>7
  <2> QED BY <2>3, <2>4
<1>2. Reversed[n][c] < Pow2[n]
  BY <1>1
<1>3. Reversed[n][c] \in Nat /\ Pow2[n] \in Nat
  BY ReversedDef, Pow2Facts
<1> QED BY <1>2, <1>3

-----------------------------------------------------------------------------
(***************************************************************************)
(* Sets, leaves and paths.                                                 *)
(***************************************************************************)
LEMMA TreeSizes ==
  /\ num_of_lvls \in Nat \ {0} /\ num_of_lvls - 1 \in Nat
  /\ num_of_ways \in Nat \ {0} /\ NumSets \in Nat \ {0} /\ NumLeaves \in Nat \ {0}
  /\ NumLeaves = NumSets * num_of_ways /\ NumLeaves = Pow2[num_of_lvls - 1]
<1>1. num_of_lvls \in Nat \ {0} /\ num_of_lvls - 1 = StartLvl + WayLvls
  BY DEF num_of_lvls
<1>2. num_of_ways \in Nat \ {0} /\ NumSets \in Nat \ {0}
  BY Pow2Facts DEF num_of_ways, NumSets
<1>3. NumLeaves = NumSets * num_of_ways /\ NumLeaves = Pow2[StartLvl + WayLvls]
  BY Pow2Sum DEF NumLeaves, num_of_ways, NumSets
<1>4. \A x, y \in Nat \ {0} : x * y \in Nat \ {0}
  OBVIOUS
<1> QED BY <1>1, <1>2, <1>3, <1>4

\* The sets share out the leaves.
LEMMA LeavesOfSet ==
  ASSUME NEW set \in Sets
  PROVE  LeavesOf(set) \subseteq Leaves /\ LeavesOf(set) # {}
<1> DEFINE w == num_of_ways
<1>1. w \in Nat \ {0} /\ NumSets \in Nat \ {0} /\ NumLeaves = NumSets * w
  BY TreeSizes
<1>2. set \in Nat /\ set + 1 <= NumSets
  BY <1>1 DEF Sets
<1> HIDE DEF w
<1>3. (set + 1) * w <= NumSets * w /\ set * w \in Nat /\ (set + 1) * w = set * w + w
  BY <1>1, <1>2
<1>4. LeavesOf(set) = set * w .. (set + 1) * w - 1
  BY DEF LeavesOf, w
<1>5. (set + 1) * w \in Nat /\ NumSets * w \in Nat
  BY <1>1, <1>2
<1> QED BY <1>1, <1>3, <1>4, <1>5 DEF Leaves

LEMMA SetOfLeaf ==
  ASSUME NEW leaf \in Leaves
  PROVE  leaf \div num_of_ways \in Sets /\ leaf \in LeavesOf(leaf \div num_of_ways)
<1> DEFINE w == num_of_ways
           s == leaf \div w
<1>1. w \in Nat \ {0} /\ NumSets \in Nat \ {0} /\ leaf \in Nat /\ leaf < NumSets * w
  BY TreeSizes DEF Leaves
<1> HIDE DEF w
<1>2. s \in Nat /\ s < NumSets
  BY <1>1
<1>3. s * w <= leaf /\ leaf < (s + 1) * w
  BY <1>1
<1>4. s * w \in Nat /\ (s + 1) * w \in Nat
  BY <1>1, <1>2
<1>5. s \in Sets
  BY <1>1, <1>2 DEF Sets
<1>6. leaf \in s * w .. (s + 1) * w - 1
  <2> HIDE DEF s
  <2> QED BY <1>1, <1>3, <1>4
<1> QED BY <1>5, <1>6 DEF LeavesOf, w

LEMMA SetOfAddr ==
  ASSUME NEW a \in Addrs
  PROVE  SetOf(a) \in Sets
<1>1. NumLeaves \in Nat \ {0} /\ a \in Nat
  BY TreeSizes DEF Addrs
<1>2. a \div Z \in Nat
  BY <1>1
<1>3. (a \div Z) % NumLeaves \in 0 .. NumLeaves - 1
  BY <1>1, <1>2
<1> QED BY <1>3, SetOfLeaf DEF SetOf, Leaves

\* A bucket of level lvl is one of the Pow2[lvl] of that level, for all its bits.
LEMMA PathLevel ==
  ASSUME NEW leaf \in Leaves, NEW lvl \in Lvls
  PROVE  /\ P(leaf, lvl) \in Nodes
         /\ Pow2[lvl] - 1 <= P(leaf, lvl) /\ P(leaf, lvl) <= 2 * Pow2[lvl] - 2
<1> DEFINE f == Pow2[num_of_lvls - lvl - 1]
           q == Pow2[lvl]
<1>1. num_of_lvls \in Nat /\ lvl \in Nat /\ lvl <= num_of_lvls - 1
  BY TreeSizes DEF Lvls
<1>2. num_of_lvls - lvl - 1 \in Nat /\ lvl + (num_of_lvls - lvl - 1) = num_of_lvls - 1
  BY <1>1
<1>3. f \in Nat \ {0} /\ q \in Nat \ {0} /\ NumLeaves = q * f
  <2>1. Pow2[lvl + (num_of_lvls - lvl - 1)] = q * f
    BY <1>1, <1>2, Pow2Sum
  <2>2. f \in Nat \ {0} /\ q \in Nat \ {0}
    BY <1>1, <1>2, Pow2Facts
  <2> HIDE DEF f, q
  <2> QED BY <1>2, <2>1, <2>2, TreeSizes
<1>4. leaf \in Nat /\ leaf < q * f
  BY <1>3, TreeSizes DEF Leaves
<1>5. P(leaf, lvl) = q - 1 + leaf \div f
  BY DEF P
<1> HIDE DEF f, q
<1>6. leaf \div f \in Nat /\ leaf \div f <= q - 1
  BY <1>3, <1>4
<1>7. q <= NumLeaves /\ NumLeaves \in Nat
  BY <1>3, TreeSizes
<1>8. P(leaf, lvl) \in Int /\ 0 <= P(leaf, lvl) /\ P(leaf, lvl) <= 2 * NumLeaves - 2
  BY <1>3, <1>5, <1>6, <1>7
<1>9. q - 1 <= P(leaf, lvl) /\ P(leaf, lvl) <= 2 * q - 2
  BY <1>3, <1>5, <1>6
<1> QED BY <1>7, <1>8, <1>9 DEF Nodes, q

LEMMA PathNodes ==
  ASSUME NEW leaf \in Leaves
  PROVE  Path(leaf) \subseteq Nodes /\ SetPath(leaf) \subseteq Path(leaf)
<1>1. SetLvls \subseteq Lvls
  BY TreeSizes DEF SetLvls, Lvls
<1> QED BY <1>1, PathLevel DEF Path, SetPath

\* The path to a leaf of one set passes no bucket of another set.
LEMMA SetsDisjoint ==
  ASSUME NEW s \in Sets, NEW t \in Sets, s # t,
         NEW leaf \in LeavesOf(s), NEW other \in LeavesOf(t)
  PROVE  Path(leaf) \cap SetPath(other) = {}
<1>1. leaf \in Leaves /\ other \in Leaves
  BY LeavesOfSet
<1>2. SUFFICES ASSUME NEW i \in Lvls, NEW j \in SetLvls, P(leaf, i) = P(other, j)
               PROVE  FALSE
  BY DEF Path, SetPath
<1>3. /\ i \in Nat /\ j \in Nat /\ j \in Lvls /\ StartLvl <= j
      /\ i <= num_of_lvls - 1 /\ j <= num_of_lvls - 1 /\ num_of_lvls \in Nat
  BY TreeSizes DEF Lvls, SetLvls
<1>4. i = j
  <2>1. /\ Pow2[i] - 1 <= P(leaf, i) /\ P(leaf, i) <= 2 * Pow2[i] - 2
        /\ Pow2[j] - 1 <= P(other, j) /\ P(other, j) <= 2 * Pow2[j] - 2
        /\ P(leaf, i) \in Int
    BY <1>1, <1>3, PathLevel DEF Nodes
  <2>2. Pow2[i] \in Nat /\ Pow2[j] \in Nat /\ Pow2[i + 1] = 2 * Pow2[i] /\ Pow2[j + 1] = 2 * Pow2[j]
    BY <1>3, Pow2Facts
  <2>3. CASE i < j
    <3>1. Pow2[i + 1] <= Pow2[j]
      <4>1. i + 1 \in Nat /\ i + 1 <= j
        BY <1>3, <2>3
      <4> QED BY <1>3, <4>1, Pow2Grows
    <3> QED BY <1>2, <2>1, <2>2, <3>1
  <2>4. CASE j < i
    <3>1. Pow2[j + 1] <= Pow2[i]
      <4>1. j + 1 \in Nat /\ j + 1 <= i
        BY <1>3, <2>4
      <4> QED BY <1>3, <4>1, Pow2Grows
    <3> QED BY <1>2, <2>1, <2>2, <3>1
  <2> QED BY <1>3, <2>3, <2>4
<1> DEFINE f == Pow2[num_of_lvls - j - 1]
           q == Pow2[j - StartLvl]
<1>5. f \in Nat \ {0} /\ q \in Nat \ {0} /\ num_of_ways = q * f
  <2>1. /\ num_of_lvls - j - 1 \in Nat /\ j - StartLvl \in Nat
        /\ (j - StartLvl) + (num_of_lvls - j - 1) = WayLvls
    BY <1>3 DEF num_of_lvls
  <2> QED BY <2>1, Pow2Sum, Pow2Facts DEF num_of_ways
<1>6. leaf \div f = other \div f
  <2>1. /\ P(leaf, j) = Pow2[j] - 1 + leaf \div f
        /\ P(other, j) = Pow2[j] - 1 + other \div f
    BY DEF P
  <2>2. Pow2[j] \in Nat
    BY <1>3, Pow2Facts
  <2>3. leaf \div f \in Int /\ other \div f \in Int
    <3> HIDE DEF f
    <3> QED BY <1>1, <1>5 DEF Leaves
  <2> HIDE DEF f
  <2> QED BY <1>2, <1>4, <2>1, <2>2, <2>3
<1> HIDE DEF f, q
<1>7. /\ s \in Nat /\ t \in Nat
      /\ leaf \in Nat /\ s * (q * f) <= leaf /\ leaf < (s + 1) * (q * f)
      /\ other \in Nat /\ t * (q * f) <= other /\ other < (t + 1) * (q * f)
  <2>1. q * f \in Nat
    BY <1>5
  <2>2. s \in Nat /\ t \in Nat /\ s * (q * f) \in Nat /\ t * (q * f) \in Nat
        /\ (s + 1) * (q * f) \in Nat /\ (t + 1) * (q * f) \in Nat
    BY <2>1, TreeSizes DEF Sets
  <2>3. leaf \in s * (q * f) .. (s + 1) * (q * f) - 1 /\ other \in t * (q * f) .. (t + 1) * (q * f) - 1
    BY <1>5 DEF LeavesOf
  <2> QED BY <2>2, <2>3
<1>8. ASSUME NEW x \in Nat, NEW y \in Nat, NEW l \in Nat, NEW m \in Nat,
             x < y, l < (x + 1) * (q * f), y * (q * f) <= m
      PROVE  l \div f # m \div f
  <2> DEFINE b == (x + 1) * q
  <2>1. b \in Nat
    BY <1>5
  <2>2. b * f = (x + 1) * (q * f)
    BY <1>5
  <2>3. (x + 1) * (q * f) <= y * (q * f)
    <3>1. q * f \in Nat /\ x + 1 <= y
      BY <1>5, <1>8
    <3> QED BY <3>1
  <2>4. l < b * f /\ b * f <= m
    <3>1. b * f \in Nat /\ y * (q * f) \in Nat
      BY <1>5, <2>1
    <3> HIDE DEF b
    <3> QED BY <1>8, <2>2, <2>3, <3>1
  <2> HIDE DEF b
  <2>5. l \div f < b
    BY <1>5, <2>1, <2>4
  <2>6. b <= m \div f
    BY <1>5, <2>1, <2>4
  <2>7. l \div f \in Int /\ m \div f \in Int
    BY <1>5
  <2> QED BY <2>1, <2>5, <2>6, <2>7
<1>9. CASE s < t
  BY <1>6, <1>7, <1>8, <1>9
<1>10. CASE t < s
  BY <1>6, <1>7, <1>8, <1>10
<1> QED BY <1>7, <1>9, <1>10

\* The buckets of the last level are in the order of their leaves.
LEMMA BottomBucket ==
  ASSUME NEW leaf \in Leaves
  PROVE  /\ P(leaf, num_of_lvls - 1) = NumLeaves - 1 + leaf
         /\ P(leaf, num_of_lvls - 1) \in SetPath(leaf)
<1>1. num_of_lvls - 1 \in SetLvls
  BY DEF SetLvls, num_of_lvls
<1>2. num_of_lvls - (num_of_lvls - 1) - 1 = 0
  BY TreeSizes
<1>3. leaf \div 1 = leaf
  BY TreeSizes DEF Leaves
<1> QED BY <1>1, <1>2, <1>3, Pow2Facts, TreeSizes DEF P, SetPath

LEMMA RingLeafOfSet ==
  ASSUME NEW set \in Sets, NEW c \in 0 .. num_of_ways - 1
  PROVE  RingLeaf(c, set) \in LeavesOf(set)
<1> DEFINE r == Reversed[WayLvls][c]
<1>1. num_of_ways \in Nat \ {0} /\ set \in Nat /\ c \in Nat
  BY TreeSizes DEF Sets
<1>2. r \in 0 .. num_of_ways - 1
  BY <1>1, ReversedBound DEF num_of_ways
<1>3. RingLeaf(c, set) = r + set * num_of_ways
  BY DEF RingLeaf
<1> HIDE DEF r
<1>4. set * num_of_ways \in Nat /\ (set + 1) * num_of_ways = set * num_of_ways + num_of_ways
  BY <1>1
<1>5. r \in Nat /\ r <= num_of_ways - 1
  BY <1>1, <1>2
<1>6. r + set * num_of_ways \in set * num_of_ways .. (set + 1) * num_of_ways - 1
  BY <1>1, <1>4, <1>5
<1> QED BY <1>3, <1>6 DEF LeavesOf

=============================================================================
