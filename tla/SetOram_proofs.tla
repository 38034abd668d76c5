---------------------------- MODULE SetOram_proofs ----------------------------
(***************************************************************************)
(* The stash simulation loses no block: theorems for every height of the   *)
(* tree and every gap in it, every number of interchangeable subtrees, and *)
(* every Z, S and A.                                                       *)
(***************************************************************************)
EXTENDS SetOram, TLAPS, FiniteSetTheorems

\* The numbers of a tree, from the proofs about a level of the ORAM controller.
Nums == INSTANCE RingTree_proofs WITH StartLvl <- 0, WayLvls <- Levels - 1

-----------------------------------------------------------------------------
(***************************************************************************)
(* The tree and its numbers.                                               *)
(***************************************************************************)
LEMMA Sizes ==
  /\ Levels \in Nat \ {0} /\ Levels - 1 \in Nat /\ CUT_LVL \in Nat /\ CUTDOWN_LVL \in Nat
  /\ CUT_LVL + CUTDOWN_LVL <= Levels - 1
  /\ EVCT_TIMES \in Nat \ {0} /\ EVCT_TIMES <= CUT_LVL /\ SET_NUM \in Nat \ {0}
  /\ Z \in Nat \ {0} /\ S \in Nat \ {0} /\ A \in Nat \ {0}
BY SetOramAssumption

\* The assumption of RingTree about this tree.
LEMMA TreeHolds == 0 \in Nat /\ Levels - 1 \in Nat /\ Z \in Nat \ {0}
BY Sizes

LEMMA Powers ==
  /\ Pow2[0] = 1
  /\ \A n \in Nat : Pow2[n] \in Nat \ {0} /\ Pow2[n + 1] = 2 * Pow2[n]
BY TreeHolds, Nums!Pow2Facts DEF Pow2, Tree!Pow2, Nums!Pow2

LEMMA PowersAdd ==
  ASSUME NEW m \in Nat, NEW n \in Nat
  PROVE  Pow2[m + n] = Pow2[m] * Pow2[n]
BY TreeHolds, Nums!Pow2Sum DEF Pow2, Tree!Pow2, Nums!Pow2

LEMMA PowersGrow ==
  ASSUME NEW m \in Nat, NEW n \in Nat, m <= n
  PROVE  Pow2[m] <= Pow2[n]
BY TreeHolds, Nums!Pow2Grows DEF Pow2, Tree!Pow2, Nums!Pow2

\* Natural numbers: least elements, and functions defined by recursion.
LEMMA NatLeast ==
  ASSUME NEW D \in SUBSET Nat, D # {}
  PROVE  \E d \in D : \A e \in D : d <= e
BY TreeHolds, Nums!NatLeast

LEMMA Recursion ==
  \A V : \A e \in V, step \in [Nat -> [V -> V]] :
    \E f \in [Nat -> V] : \A n \in Nat : f[n] = IF n = 0 THEN e ELSE step[n - 1][f[n - 1]]
<1>1. 0 \in Nat /\ Levels - 1 \in Nat /\ Z \in Nat \ {0}
  BY TreeHolds
<1> QED BY <1>1, Nums!Recursion

LEMMA Leafs == NumLeaves \in Nat \ {0} /\ Leaves = 0 .. NumLeaves - 1
BY Sizes, Powers DEF NumLeaves, Leaves

LEMMA LevelsOf ==
  /\ \A lvl \in Lvls : lvl \in Nat /\ lvl <= Levels - 1 /\ Levels - lvl - 1 \in Nat
  /\ Levels - 1 \in Lvls
BY Sizes DEF Lvls

\* A bucket of level lvl is one of the Pow2[lvl] of that level.
LEMMA PathLevel ==
  ASSUME NEW leaf \in Leaves, NEW lvl \in Lvls
  PROVE  /\ P(leaf, lvl) \in Nodes
         /\ Pow2[lvl] - 1 <= P(leaf, lvl) /\ P(leaf, lvl) <= 2 * Pow2[lvl] - 2
<1> DEFINE f == Pow2[Levels - lvl - 1]
           q == Pow2[lvl]
<1>1. Levels \in Nat /\ lvl \in Nat /\ Levels - lvl - 1 \in Nat /\ lvl + (Levels - lvl - 1) = Levels - 1
  BY Sizes, LevelsOf
<1>2. f \in Nat \ {0} /\ q \in Nat \ {0} /\ NumLeaves = q * f
  <2>1. Pow2[lvl + (Levels - lvl - 1)] = q * f
    BY <1>1, PowersAdd
  <2>2. f \in Nat \ {0} /\ q \in Nat \ {0}
    BY <1>1, Powers
  <2> HIDE DEF f, q
  <2> QED BY <1>1, <2>1, <2>2 DEF NumLeaves
<1>3. leaf \in Nat /\ leaf < q * f
  BY <1>2, Leafs
<1>4. P(leaf, lvl) = q - 1 + leaf \div f
  BY DEF P
<1> HIDE DEF f, q
<1>5. leaf \div f \in Nat /\ leaf \div f <= q - 1
  BY <1>2, <1>3
<1>6. q <= NumLeaves /\ NumLeaves \in Nat
  BY <1>2, Leafs
<1>7. P(leaf, lvl) \in Int /\ 0 <= P(leaf, lvl) /\ P(leaf, lvl) <= 2 * NumLeaves - 2
  BY <1>2, <1>4, <1>5, <1>6
<1>8. q - 1 <= P(leaf, lvl) /\ P(leaf, lvl) <= 2 * q - 2
  BY <1>2, <1>4, <1>5
<1> QED BY <1>6, <1>7, <1>8 DEF Nodes, q

LEMMA PathNodes ==
  ASSUME NEW leaf \in Leaves
  PROVE  /\ Path[leaf] \subseteq Nodes /\ Path[leaf] = {P(leaf, lvl) : lvl \in Lvls}
         /\ P(leaf, Levels - 1) \in Path[leaf]
<1>1. Path[leaf] = {P(leaf, lvl) : lvl \in Lvls}
  BY DEF Path
<1> QED BY <1>1, LevelsOf, PathLevel

LEMMA BottomBucket ==
  ASSUME NEW leaf \in Leaves
  PROVE  P(leaf, Levels - 1) = NumLeaves - 1 + leaf
<1>1. Levels - (Levels - 1) - 1 = 0
  BY Sizes
<1>2. leaf \div 1 = leaf
  BY Leafs
<1> QED BY <1>1, <1>2, Powers DEF P, NumLeaves

\* The counter names a leaf.
LEMMA RingLeafs ==
  ASSUME NEW c \in Leaves
  PROVE  RingLeaf(c) \in Leaves
<1>1. c \in Nat /\ Levels - 1 \in Nat
  BY Sizes, Leafs
<1>2. Nums!Reversed[Levels - 1][c] \in 0 .. Nums!Pow2[Levels - 1] - 1
  BY <1>1, TreeHolds, Nums!ReversedBound
<1>3. Nums!Reversed = Tree!Reversed /\ Nums!Pow2 = Pow2
  BY DEF Nums!Reversed, Tree!Reversed, Nums!Pow2, Tree!Pow2, Pow2
<1> QED BY <1>2, <1>3 DEF RingLeaf, Leaves, NumLeaves

-----------------------------------------------------------------------------
(***************************************************************************)
(* Guests: a block that a write-back moves to the subtree it writes.       *)
(***************************************************************************)
LEMMA Quotient ==
  ASSUME NEW x \in Nat, NEW w \in Nat \ {0}, NEW d \in Nat, d * w <= x, x < (d + 1) * w
  PROVE  x \div w = d
<1> DEFINE e == x \div w
<1>1. e \in Nat /\ e * w <= x /\ x < (e + 1) * w
  OBVIOUS
<1> HIDE DEF e
<1>2. ASSUME e < d PROVE FALSE
  <2>1. (e + 1) * w <= d * w
    BY <1>1, <1>2
  <2>2. (e + 1) * w \in Nat /\ d * w \in Nat
    BY <1>1
  <2> QED BY <1>1, <2>1, <2>2
<1>3. ASSUME d < e PROVE FALSE
  <2>1. (d + 1) * w <= e * w
    BY <1>1, <1>3
  <2>2. (d + 1) * w \in Nat /\ e * w \in Nat
    BY <1>1
  <2> QED BY <1>1, <2>1, <2>2
<1> QED BY <1>1, <1>2, <1>3 DEF e

LEMMA QuotientOfSum ==
  ASSUME NEW a \in Nat, NEW w \in Nat \ {0}, NEW b \in Nat
  PROVE  (a * w + b) \div w = a + b \div w
<1> DEFINE e == b \div w
<1>1. e \in Nat /\ e * w <= b /\ b < (e + 1) * w
  OBVIOUS
<1> HIDE DEF e
<1>2. (a + e) * w = a * w + e * w /\ (a + e + 1) * w = a * w + (e + 1) * w
  BY <1>1
<1>3. a * w \in Nat /\ e * w \in Nat /\ (e + 1) * w \in Nat
  BY <1>1
<1>4. (a + e) * w <= a * w + b /\ a * w + b < (a + e + 1) * w
  BY <1>1, <1>2, <1>3
<1>5. a * w + b \in Nat /\ a + e \in Nat
  BY <1>1, <1>3
<1>6. (a * w + b) \div w = a + e
  BY <1>4, <1>5, Quotient
<1> QED BY <1>6 DEF e

LEMMA QuotientOfProduct ==
  ASSUME NEW x \in Nat, NEW s \in Nat \ {0}, NEW w \in Nat \ {0}
  PROVE  x \div (s * w) = (x \div w) \div s
<1> DEFINE d == x \div w
           e == d \div s
<1>1. d \in Nat /\ d * w <= x /\ x < (d + 1) * w
  OBVIOUS
<1> HIDE DEF d
<1>2. e \in Nat /\ e * s <= d /\ d < (e + 1) * s
  BY <1>1
<1> HIDE DEF e
<1>3. d + 1 <= (e + 1) * s /\ (e + 1) * s \in Nat /\ e * s \in Nat
  BY <1>1, <1>2
<1>4. (e * s) * w <= d * w /\ (d + 1) * w <= ((e + 1) * s) * w
  BY <1>1, <1>2, <1>3
<1>5. (e * s) * w = e * (s * w) /\ ((e + 1) * s) * w = (e + 1) * (s * w)
  BY <1>2
<1>6. s * w \in Nat \ {0} /\ (e * s) * w \in Nat /\ d * w \in Nat /\ (d + 1) * w \in Nat
      /\ ((e + 1) * s) * w \in Nat
  BY <1>1, <1>2, <1>3
<1>7. e * (s * w) <= x /\ x < (e + 1) * (s * w)
  BY <1>1, <1>4, <1>5, <1>6
<1>8. x \div (s * w) = e
  BY <1>2, <1>6, <1>7, Quotient
<1> QED BY <1>8 DEF e, d

\* A leaf is given by its subtree and its position there.
LEMMA Subtrees ==
  /\ Ways \in Nat \ {0}
  /\ \A leaf \in Leaves :
       /\ leaf \in Nat /\ leaf \div Ways \in Nat /\ Position(leaf) \in 0 .. Ways - 1
       /\ leaf = (leaf \div Ways) * Ways + Position(leaf)
       /\ \A p \in 0 .. Ways - 1 : (leaf \div Ways) * Ways + p \in Leaves
<1>1. Levels - CUT_LVL - CUTDOWN_LVL - 1 \in Nat /\ CUT_LVL + CUTDOWN_LVL \in Nat
      /\ (CUT_LVL + CUTDOWN_LVL) + (Levels - CUT_LVL - CUTDOWN_LVL - 1) = Levels - 1
  BY Sizes
<1>2. Ways \in Nat \ {0} /\ Pow2[CUT_LVL + CUTDOWN_LVL] \in Nat \ {0}
  BY <1>1, Powers DEF Ways
<1>3. NumLeaves = Pow2[CUT_LVL + CUTDOWN_LVL] * Ways
  <2>1. Pow2[(CUT_LVL + CUTDOWN_LVL) + (Levels - CUT_LVL - CUTDOWN_LVL - 1)]
          = Pow2[CUT_LVL + CUTDOWN_LVL] * Pow2[Levels - CUT_LVL - CUTDOWN_LVL - 1]
    BY <1>1, PowersAdd
  <2> QED BY <1>1, <2>1 DEF NumLeaves, Ways
<1>4. ASSUME NEW g \in Nat, NEW w \in Nat \ {0}, NEW leaf \in 0 .. g * w - 1
      PROVE  /\ leaf \div w \in Nat /\ leaf % w \in 0 .. w - 1
             /\ leaf = (leaf \div w) * w + (leaf % w)
             /\ \A p \in 0 .. w - 1 : (leaf \div w) * w + p \in 0 .. g * w - 1
  <2>1. g * w \in Nat /\ leaf \in Nat /\ leaf < g * w
    BY <1>4
  <2> DEFINE q == leaf \div w
             r == leaf % w
  <2>2. q \in Nat /\ r \in 0 .. w - 1 /\ leaf = q * w + r
    <3>1. leaf \div w \in Nat
      BY <2>1
    <3>2. leaf % w \in 0 .. w - 1
      BY <2>1
    <3>3. leaf = w * (leaf \div w) + (leaf % w)
      BY <2>1
    <3>4. w * (leaf \div w) = (leaf \div w) * w
      BY <3>1
    <3> QED BY <3>1, <3>2, <3>3, <3>4
  <2> HIDE DEF q, r
  <2>3. q < g
    <3>1. ASSUME g <= q PROVE FALSE
      <4>1. g * w <= q * w /\ q * w \in Nat
        BY <2>2, <3>1
      <4> QED BY <2>1, <2>2, <4>1
    <3> QED BY <2>2, <3>1
  <2>4. (q + 1) * w <= g * w /\ (q + 1) * w = q * w + w /\ q * w \in Nat
    BY <2>2, <2>3
  <2>5. \A p \in 0 .. w - 1 : q * w + p \in 0 .. g * w - 1
    BY <2>1, <2>4
  <2> QED BY <2>2, <2>5 DEF q, r
<1>5. Leaves = 0 .. Pow2[CUT_LVL + CUTDOWN_LVL] * Ways - 1
  BY <1>3, Leafs
<1>6. \A leaf \in Leaves : leaf \in Nat
  BY Leafs
<1>7. ASSUME NEW leaf \in Leaves
      PROVE  /\ leaf \div Ways \in Nat /\ leaf % Ways \in 0 .. Ways - 1
             /\ leaf = (leaf \div Ways) * Ways + (leaf % Ways)
             /\ \A p \in 0 .. Ways - 1 : (leaf \div Ways) * Ways + p \in Leaves
  <2> DEFINE g == Pow2[CUT_LVL + CUTDOWN_LVL]
             w == Ways
  <2>1. g \in Nat /\ w \in Nat \ {0} /\ Leaves = 0 .. g * w - 1
    BY <1>2, <1>5
  <2> HIDE DEF g, w
  <2>2. /\ leaf \div w \in Nat /\ leaf % w \in 0 .. w - 1
        /\ leaf = (leaf \div w) * w + (leaf % w)
        /\ \A p \in 0 .. w - 1 : (leaf \div w) * w + p \in Leaves
    BY <1>4, <2>1
  <2> QED BY <2>2 DEF w
<1> QED BY <1>2, <1>6, <1>7 DEF Position

\* The leaf at a position of the subtree of leaf.
LEMMA Neighbours ==
  ASSUME NEW leaf \in Leaves, NEW p \in 0 .. Ways - 1, NEW m, m = (leaf \div Ways) * Ways + p
  PROVE  /\ m \in Leaves /\ Position(m) = p /\ Group(m) = Group(leaf)
         /\ \A lvl \in Lvls : lvl >= CUT_LVL /\ P(Position(leaf), lvl) = P(p, lvl) =>
              P(m, lvl) = P(leaf, lvl)
<1> DEFINE q == leaf \div Ways
           t == Position(leaf)
<1>1. /\ Ways \in Nat \ {0} /\ leaf \in Nat /\ q \in Nat /\ t \in 0 .. Ways - 1
      /\ leaf = q * Ways + t /\ m = q * Ways + p /\ m \in Leaves /\ m \in Nat
  BY Subtrees
<1> HIDE DEF q, t
<1>2. m \div Ways = q /\ leaf \div Ways = q
  <2>1. \A b \in 0 .. Ways - 1 : b \in Nat /\ b \div Ways = 0
    BY <1>1
  <2>2. (q * Ways + p) \div Ways = q + p \div Ways /\ (q * Ways + t) \div Ways = q + t \div Ways
    BY <1>1, <2>1, QuotientOfSum
  <2> QED BY <1>1, <2>1, <2>2
<1>3. Position(m) = p
  <2>1. Position(m) \in 0 .. Ways - 1 /\ m = (m \div Ways) * Ways + Position(m)
    BY <1>1, Subtrees
  <2> DEFINE r == Position(m)
             y == q * Ways
  <2>2. y \in Nat /\ r \in Int /\ p \in Int
    BY <1>1, <2>1
  <2>3. m = y + r
    BY <1>2, <2>1
  <2>4. m = y + p
    BY <1>1
  <2> HIDE DEF r, y
  <2>5. r = p
    BY <2>2, <2>3, <2>4
  <2> QED BY <2>5 DEF r
<1>4. Group(m) = Group(leaf)
  <2>1. m \div (SET_NUM * Ways) = (m \div Ways) \div SET_NUM
        /\ leaf \div (SET_NUM * Ways) = (leaf \div Ways) \div SET_NUM
    BY <1>1, Sizes, QuotientOfProduct
  <2> QED BY <1>2, <2>1 DEF Group
<1>5. ASSUME NEW lvl \in Lvls, lvl >= CUT_LVL, P(t, lvl) = P(p, lvl)
      PROVE  P(m, lvl) = P(leaf, lvl)
  <2> DEFINE u == Pow2[Levels - lvl - 1]
             v == Pow2[lvl - (CUT_LVL + CUTDOWN_LVL)]
             x == Pow2[lvl]
  <2>1. /\ Levels - lvl - 1 \in Nat /\ lvl - (CUT_LVL + CUTDOWN_LVL) \in Nat /\ lvl \in Nat
        /\ (lvl - (CUT_LVL + CUTDOWN_LVL)) + (Levels - lvl - 1) = Levels - CUT_LVL - CUTDOWN_LVL - 1
    BY <1>5, Sizes DEF Lvls
  <2>2. u \in Nat \ {0} /\ v \in Nat \ {0} /\ x \in Nat \ {0}
    BY <2>1, Powers
  <2>3. Ways = v * u
    <3>1. Pow2[(lvl - (CUT_LVL + CUTDOWN_LVL)) + (Levels - lvl - 1)] = v * u
      BY <2>1, PowersAdd
    <3> QED BY <2>1, <3>1 DEF Ways
  <2>4. P(t, lvl) = x - 1 + t \div u /\ P(p, lvl) = x - 1 + p \div u
        /\ P(m, lvl) = x - 1 + m \div u /\ P(leaf, lvl) = x - 1 + leaf \div u
    BY DEF P
  <2> HIDE DEF u, v, x
  <2>5. m = (q * v) * u + p /\ leaf = (q * v) * u + t /\ q * v \in Nat
    <3>1. q * (v * u) = (q * v) * u /\ q * v \in Nat
      BY <1>1, <2>2
    <3> QED BY <1>1, <2>3, <3>1
  <2>6. m \div u = q * v + p \div u /\ leaf \div u = q * v + t \div u
    <3>1. p \in Nat /\ t \in Nat
      BY <1>1
    <3> QED BY <2>2, <2>5, <3>1, QuotientOfSum
  <2>7. p \div u \in Nat /\ t \div u \in Nat
    BY <1>1, <2>2
  <2>8. t \div u = p \div u
    <3> DEFINE a == t \div u
               b == p \div u
    <3>1. a \in Nat /\ b \in Nat /\ x - 1 + a = x - 1 + b
      BY <1>5, <2>4, <2>7
    <3> HIDE DEF a, b
    <3>2. a = b
      BY <2>2, <3>1
    <3> QED BY <3>2 DEF a, b
  <2> QED BY <2>4, <2>6, <2>8
<1> QED BY <1>1, <1>3, <1>4, <1>5 DEF t

\* Where a block of leaf other may be put: on the written path, and on the path of
\* the leaf it then has, at the same group and position.
LEMMA GuestWell ==
  ASSUME NEW leaf \in Leaves, NEW other \in Leaves, NEW n \in Fits(leaf, other)
  PROVE  /\ n \in Path[leaf]
         /\ Moved(leaf, other, n) \in Leaves /\ n \in Path[Moved(leaf, other, n)]
         /\ Group(Moved(leaf, other, n)) = Group(other)
         /\ Position(Moved(leaf, other, n)) = Position(other)
<1> DEFINE m == leaf + (Position(other) - Position(leaf))
<1>1. PICK lvl \in Lvls : n = P(leaf, lvl) /\ Meets(leaf, other, lvl)
  <2>1. PICK lvl \in Lvls : n = P(leaf, lvl) /\ \A k \in Lvls : k <= lvl => Meets(leaf, other, k)
    BY DEF Fits
  <2>2. lvl <= lvl
    BY LevelsOf
  <2> QED BY <2>1, <2>2
<1>2. n \in Path[leaf]
  BY <1>1, PathNodes
<1>3. /\ Pow2[CUT_LVL] \in Nat \ {0} /\ Pow2[lvl] \in Nat \ {0} /\ n \in Int /\ lvl \in Nat
      /\ Pow2[lvl] - 1 <= n /\ n <= 2 * Pow2[lvl] - 2
  <2>1. lvl \in Nat /\ n \in Nodes /\ Pow2[lvl] - 1 <= n /\ n <= 2 * Pow2[lvl] - 2
    BY <1>1, LevelsOf, PathLevel
  <2>2. n \in Int
    BY <2>1, Leafs DEF Nodes
  <2> QED BY <2>1, <2>2, Sizes, Powers
<1>4. CASE lvl < CUT_LVL
  <2>1. Pow2[lvl + 1] <= Pow2[CUT_LVL] /\ Pow2[lvl + 1] = 2 * Pow2[lvl]
    BY <1>3, <1>4, Sizes, Powers, PowersGrow
  <2>2. Moved(leaf, other, n) = other
    <3>1. n < Pow2[CUT_LVL] - 1
      BY <1>3, <2>1
    <3> QED BY <3>1 DEF Moved
  <2>3. n \in Path[other]
    BY <1>1, <1>4, PathNodes DEF Meets
  <2> QED BY <1>2, <2>2, <2>3
<1>5. CASE ~(lvl < CUT_LVL)
  <2>1. Group(leaf) = Group(other) /\ P(Position(leaf), lvl) = P(Position(other), lvl)
    BY <1>1, <1>5 DEF Meets
  <2>2. lvl >= CUT_LVL
    BY <1>3, <1>5, Sizes
  <2>3. Moved(leaf, other, n) = m
    <3>1. Pow2[CUT_LVL] <= Pow2[lvl]
      BY <1>3, <2>2, Sizes, PowersGrow
    <3>2. ~(n < Pow2[CUT_LVL] - 1)
      BY <1>3, <3>1
    <3> QED BY <3>2 DEF Moved
  <2>4. Position(other) \in 0 .. Ways - 1 /\ m = (leaf \div Ways) * Ways + Position(other)
    <3>1. /\ Position(other) \in 0 .. Ways - 1 /\ Position(leaf) \in 0 .. Ways - 1
          /\ leaf = (leaf \div Ways) * Ways + Position(leaf) /\ leaf \in Nat
          /\ leaf \div Ways \in Nat /\ Ways \in Nat \ {0}
      BY Subtrees
    <3>2. (leaf \div Ways) * Ways \in Nat
      BY <3>1
    <3> QED BY <3>1, <3>2
  <2> HIDE DEF m
  <2>5. m \in Leaves /\ Position(m) = Position(other) /\ Group(m) = Group(leaf)
        /\ P(m, lvl) = P(leaf, lvl)
    BY <2>1, <2>2, <2>4, Neighbours
  <2>6. n \in Path[m]
    BY <1>1, <2>5, PathNodes
  <2> QED BY <1>2, <2>1, <2>3, <2>5, <2>6
<1> QED BY <1>4, <1>5

-----------------------------------------------------------------------------
(***************************************************************************)
(* What Refill chooses.                                                    *)
(***************************************************************************)
LEMMA Values ==
  /\ Addrs \subseteq Nat /\ IsFiniteSet(Addrs) /\ Nodes \subseteq Nat /\ Slots \subseteq Nat
  /\ NumLeaves * Z \in Nat /\ Addrs = 0 .. NumLeaves * Z - 1
  /\ NoAddr \notin Addrs /\ NoNode \notin Nodes /\ IsFiniteSet(Slots) /\ Cardinality(Slots) = Z
<1>1. NumLeaves \in Nat \ {0} /\ Z \in Nat \ {0}
  BY Sizes, Leafs
<1>2. NumLeaves * Z \in Nat
  BY <1>1
<1>3. IsFiniteSet(Addrs)
  <2>1. NumLeaves * Z - 1 \in Int
    BY <1>2
  <2> QED BY <2>1, FS_Interval DEF Addrs
<1>4. IsFiniteSet(Slots) /\ Cardinality(Slots) = Z
  <2>1. Z - 1 \in Int /\ 0 <= Z - 1 /\ (Z - 1) - 0 + 1 = Z
    BY <1>1
  <2> QED BY <2>1, FS_Interval DEF Slots
<1>5. Addrs \subseteq Nat /\ Nodes \subseteq Nat /\ Slots \subseteq Nat
  BY <1>1, <1>2 DEF Addrs, Nodes, Slots
<1> QED BY <1>2, <1>3, <1>4, <1>5 DEF Addrs, NoAddr, NoNode

\* The blocks that are put in bucket n.
In(where, n) == {b \in DOMAIN where : where[b] = n}

\* Some of the addresses have a bucket.
Placements == UNION {[D -> Nodes] : D \in SUBSET Addrs}

\* The buckets with room for a block, and the step of Refill that places it.
RoomFor(fits, where, a) ==
  IF a \in DOMAIN fits THEN {n \in fits[a] : Cardinality({b \in DOMAIN where : where[b] = n}) < Z} ELSE {}

Place(fits, where, a) ==
  IF RoomFor(fits, where, a) = {} THEN where
  ELSE Over([b \in {a} |-> Max(RoomFor(fits, where, a))], where)

\* What blocks may use which buckets.
Usable(fits) == DOMAIN fits \subseteq Addrs /\ \A a \in DOMAIN fits : fits[a] \subseteq Nodes

LEMMA PlacementFields ==
  ASSUME NEW where
  PROVE  where \in Placements => /\ DOMAIN where \subseteq Addrs /\ IsFiniteSet(DOMAIN where)
                                 /\ \A a \in DOMAIN where : where[a] \in Nodes
<1>1. where \in Placements => DOMAIN where \subseteq Addrs /\ \A a \in DOMAIN where : where[a] \in Nodes
  BY DEF Placements
<1>2. DOMAIN where \subseteq Addrs => IsFiniteSet(DOMAIN where)
  BY Values, FS_Subset
<1> QED BY <1>1, <1>2

\* The greatest of some buckets.
LEMMA Deepest ==
  ASSUME NEW D \in SUBSET Nodes, D # {}
  PROVE  Max(D) \in D /\ \A n \in D : Max(D) >= n
<1>1. D \in SUBSET Nat /\ 2 * NumLeaves - 2 \in Nat /\ \A d \in D : d <= 2 * NumLeaves - 2
  BY Values, Leafs DEF Nodes
<1>2. \E d \in D : \A e \in D : d >= e
  <2> DEFINE top == 2 * NumLeaves - 2
  <2>1. top \in Nat /\ \A d \in D : d <= top
    BY <1>1
  <2> HIDE DEF top
  <2> QED BY <1>1, <2>1, TreeHolds, Nums!NatGreatest
<1> QED BY <1>2 DEF Max

LEMMA PlaceWell ==
  ASSUME NEW fits, Usable(fits), NEW where \in Placements, NEW a \in Nat
  PROVE  Place(fits, where, a) \in Placements
<1> DEFINE room == RoomFor(fits, where, a)
<1>1. CASE room = {}
  BY <1>1 DEF Place
<1>2. CASE room # {}
  <2>1. a \in Addrs /\ room \subseteq Nodes
    BY <1>2 DEF RoomFor, Usable
  <2>2. Max(room) \in Nodes
    BY <1>2, <2>1, Deepest
  <2> DEFINE m == Max(room)
             D == {a} \cup DOMAIN where
  <2>3. Place(fits, where, a) = [x \in D |-> IF x \in {a} THEN m ELSE where[x]]
    BY <1>2 DEF Place, Over
  <2> HIDE DEF m, room
  <2>4. D \in SUBSET Addrs /\ \A x \in D : (IF x \in {a} THEN m ELSE where[x]) \in Nodes
    BY <2>1, <2>2, PlacementFields DEF m
  <2>5. [x \in D |-> IF x \in {a} THEN m ELSE where[x]] \in [D -> Nodes]
    BY <2>4
  <2> QED BY <2>3, <2>4, <2>5 DEF Placements
<1> QED BY <1>1, <1>2

\* Refill places the blocks one by one.
LEMMA RefillSteps ==
  ASSUME NEW fits, Usable(fits)
  PROVE  \E f \in [Nat -> Placements] :
           /\ DOMAIN f[0] = {} /\ \A n \in Nat : f[n + 1] = Place(fits, f[n], n)
           /\ Refill(fits) = f[NumLeaves * Z]
<1> DEFINE step == [n \in Nat |-> [w \in Placements |-> Place(fits, w, n)]]
           Body(g, n) == IF n = 0 THEN <<>>
                         ELSE LET before == g[n - 1]
                                  room == IF n - 1 \in DOMAIN fits
                                            THEN {x \in fits[n - 1] :
                                                    Cardinality({b \in DOMAIN before : before[b] = x}) < Z}
                                            ELSE {}
                              IN  IF room = {} THEN before ELSE Over([b \in {n - 1} |-> Max(room)], before)
<1>1. step \in [Nat -> [Placements -> Placements]]
  BY PlaceWell
<1>2. <<>> \in Placements
  <2>1. <<>> = [x \in {} |-> 0]
    OBVIOUS
  <2>2. [x \in {} |-> 0] \in [{} -> Nodes]
    OBVIOUS
  <2> QED BY <2>1, <2>2 DEF Placements
<1>3. PICK f \in [Nat -> Placements] :
        \A n \in Nat : f[n] = IF n = 0 THEN <<>> ELSE step[n - 1][f[n - 1]]
  <2> DEFINE V == Placements
             e == <<>>
             st == step
  <2>1. e \in V /\ st \in [Nat -> [V -> V]]
    BY <1>1, <1>2
  <2> HIDE DEF V, e, st
  <2>2. \E f \in [Nat -> V] : \A n \in Nat : f[n] = IF n = 0 THEN e ELSE st[n - 1][f[n - 1]]
    BY <2>1, Recursion
  <2> QED BY <2>2 DEF V, e, st
<1>4. ASSUME NEW n \in Nat, NEW g, n # 0 PROVE Body(g, n) = Place(fits, g[n - 1], n - 1)
  BY <1>4 DEF Place, RoomFor
<1>5. ASSUME NEW n \in Nat PROVE f[n] = Body(f, n)
  <2>1. CASE n # 0
    <3>1. n - 1 \in Nat /\ f[n - 1] \in Placements
      BY <2>1
    <3>2. step[n - 1][f[n - 1]] = Place(fits, f[n - 1], n - 1)
      BY <3>1
    <3> HIDE DEF step, Body
    <3> QED BY <1>3, <1>4, <2>1, <3>2
  <2>2. CASE n = 0
    BY <1>3, <2>2
  <2> QED BY <2>1, <2>2
<1> DEFINE where == CHOOSE g : g = [n \in Nat |-> Body(g, n)]
<1>6. where = [n \in Nat |-> Body(where, n)]
  <2>1. f = [n \in Nat |-> Body(f, n)]
    <3> HIDE DEF Body
    <3> QED BY <1>5
  <2> HIDE DEF Body
  <2> QED BY <2>1
<1>7. Refill(fits) = where[NumLeaves * Z]
  BY DEF Refill, Best
<1> HIDE DEF where
<1>8. where[0] = <<>>
  <2>1. where[0] = Body(where, 0)
    <3> HIDE DEF Body
    <3> QED BY <1>6
  <2> QED BY <2>1
<1>9. ASSUME NEW n \in Nat PROVE where[n + 1] = Place(fits, where[n], n)
  <2>1. n + 1 \in Nat /\ n + 1 # 0 /\ (n + 1) - 1 = n
    OBVIOUS
  <2>2. where[n + 1] = Body(where, n + 1)
    <3> HIDE DEF Body
    <3> QED BY <1>6, <2>1
  <2>3. Body(where, n + 1) = Place(fits, where[(n + 1) - 1], (n + 1) - 1)
    <3> HIDE DEF Body
    <3> QED BY <1>4, <2>1
  <2> QED BY <2>1, <2>2, <2>3
<1>10. \A n \in Nat : where[n] \in Placements
  <2> DEFINE D == {n \in Nat : where[n] \notin Placements}
  <2>1. ASSUME D # {} PROVE FALSE
    <3>1. PICK n \in D : \A m \in D : n <= m
      BY <2>1, NatLeast
    <3>2. n \in Nat /\ n # 0
      BY <1>2, <1>8, <3>1
    <3>3. n - 1 \in Nat /\ n - 1 < n /\ (n - 1) + 1 = n
      BY <3>2
    <3>4. where[n - 1] \in Placements
      BY <3>1, <3>3
    <3>5. where[n] = Place(fits, where[n - 1], n - 1)
      BY <1>9, <3>3
    <3> QED BY <3>1, <3>3, <3>4, <3>5, PlaceWell
  <2> QED BY <2>1
<1>11. where \in [Nat -> Placements]
  <2> HIDE DEF Body
  <2>1. where = [n \in Nat |-> where[n]]
    BY <1>6
  <2> QED BY <1>10, <2>1
<1>12. DOMAIN where[0] = {}
  BY <1>8
<1> QED BY <1>7, <1>9, <1>11, <1>12

\* A block that can be placed is, and nothing else changes.
LEMMA PlaceFields ==
  ASSUME NEW fits, Usable(fits), NEW w \in Placements, NEW a \in Nat
  PROVE  LET r == RoomFor(fits, w, a)
             v == Place(fits, w, a)
         IN  /\ r = {} => v = w
             /\ r # {} => /\ a \in DOMAIN fits /\ Max(r) \in r /\ \A n \in r : Max(r) >= n
                          /\ DOMAIN v = DOMAIN w \cup {a} /\ v[a] = Max(r)
                          /\ \A b \in DOMAIN w \ {a} : v[b] = w[b]
             /\ \A n \in r : n \in fits[a] /\ n \in Nat /\ Cardinality(In(w, n)) < Z
             /\ a \in DOMAIN fits => \A n \in fits[a] : n \in r \/ ~(Cardinality(In(w, n)) < Z)
<1> DEFINE r == RoomFor(fits, w, a)
           v == Place(fits, w, a)
<1>1. r = {} => v = w
  BY DEF Place
<1>2. /\ \A n \in r : n \in fits[a] /\ n \in Nat /\ Cardinality(In(w, n)) < Z
      /\ a \in DOMAIN fits => \A n \in fits[a] : n \in r \/ ~(Cardinality(In(w, n)) < Z)
      /\ r # {} => a \in DOMAIN fits
      /\ r \subseteq Nodes
  BY Values DEF RoomFor, In, Usable
<1>3. CASE r # {}
  <2>1. Max(r) \in r /\ \A n \in r : Max(r) >= n
    BY <1>2, <1>3, Deepest
  <2> DEFINE m == Max(r)
  <2>2. v = [x \in {a} \cup DOMAIN w |-> IF x \in {a} THEN m ELSE w[x]]
    BY <1>3 DEF Place, Over
  <2> HIDE DEF m, v, r
  <2>3. DOMAIN v = DOMAIN w \cup {a} /\ v[a] = m /\ \A b \in DOMAIN w \ {a} : v[b] = w[b]
    BY <2>2
  <2> QED BY <1>2, <1>3, <2>1, <2>3 DEF m, v, r
<1>4. CASE r = {}
  BY <1>1, <1>2, <1>4
<1> QED BY <1>3, <1>4

\* After the blocks below n: what they may use is respected, no bucket holds more
\* than Z, and what was passed over is full.
Packed(fits, w, n) ==
  /\ \A b \in DOMAIN w : b \in DOMAIN fits /\ b < n /\ w[b] \in fits[b]
  /\ \A x \in Nodes : Cardinality(In(w, x)) <= Z
  /\ \A b \in DOMAIN fits : b < n =>
       \A x \in fits[b] : b \notin DOMAIN w \/ x > w[b] => Cardinality(In(w, x)) = Z

LEMMA PackedStep ==
  ASSUME NEW fits, Usable(fits), NEW w \in Placements, NEW n \in Nat, Packed(fits, w, n)
  PROVE  Packed(fits, Place(fits, w, n), n + 1)
<1> DEFINE r == RoomFor(fits, w, n)
           v == Place(fits, w, n)
           m == Max(r)
<1>1. \A b \in DOMAIN fits : b \in Nat /\ \A x \in fits[b] : x \in Nodes
  BY Values DEF Usable
<1>2. /\ IsFiniteSet(DOMAIN w) /\ Z \in Nat
      /\ \A x : In(w, x) \subseteq DOMAIN w
  BY PlacementFields, Sizes DEF In
<1>3. \A x : IsFiniteSet(In(w, x)) /\ Cardinality(In(w, x)) \in Nat
  BY <1>2, FS_Subset, FS_CardinalityType
<1>4. n \notin DOMAIN w
  BY <1>1 DEF Packed
<1>5. CASE r = {}
  <2>1. v = w
    BY <1>5, PlaceFields
  <2>2. n \in DOMAIN fits => \A x \in fits[n] : Cardinality(In(w, x)) = Z
    <3>1. n \in DOMAIN fits => \A x \in fits[n] : ~(Cardinality(In(w, x)) < Z)
      BY <1>5, PlaceFields
    <3> QED BY <1>1, <1>2, <1>3, <3>1 DEF Packed
  <2>3. \A b \in DOMAIN fits : b < n + 1 => b < n \/ b = n
    BY <1>1
  <2>4. \A b \in DOMAIN fits : b < n + 1 =>
          \A x \in fits[b] : b \notin DOMAIN w \/ x > w[b] => Cardinality(In(w, x)) = Z
    BY <2>2, <2>3 DEF Packed
  <2>5. \A b \in DOMAIN w : b < n => b < n + 1
    BY <1>1 DEF Packed
  <2> QED BY <2>1, <2>4, <2>5 DEF Packed
<1>6. CASE r # {}
  <2>1. /\ n \in DOMAIN fits /\ m \in r /\ \A x \in r : m >= x
        /\ DOMAIN v = DOMAIN w \cup {n} /\ v[n] = m
        /\ \A b \in DOMAIN w : v[b] = w[b]
        /\ m \in fits[n] /\ m \in Nat /\ Cardinality(In(w, m)) < Z
        /\ \A x \in fits[n] : x \in r \/ ~(Cardinality(In(w, x)) < Z)
    <3>1. \A b \in DOMAIN w : b \in DOMAIN w \ {n}
      BY <1>4
    <3>2. /\ n \in DOMAIN fits /\ m \in r /\ \A x \in r : m >= x
          /\ DOMAIN v = DOMAIN w \cup {n} /\ v[n] = m
          /\ \A b \in DOMAIN w \ {n} : v[b] = w[b]
      BY <1>6, PlaceFields
    <3>3. /\ \A x \in r : x \in fits[n] /\ x \in Nat /\ Cardinality(In(w, x)) < Z
          /\ n \in DOMAIN fits => \A x \in fits[n] : x \in r \/ ~(Cardinality(In(w, x)) < Z)
      BY PlaceFields
    <3> HIDE DEF r, v, m
    <3> QED BY <3>1, <3>2, <3>3
  <2> HIDE DEF r, v, m
  <2>2. In(v, m) = In(w, m) \cup {n} /\ \A x : x # m => In(v, x) = In(w, x)
    BY <1>4, <2>1 DEF In
  <2>3. Cardinality(In(v, m)) = Cardinality(In(w, m)) + 1
    <3>1. n \notin In(w, m)
      BY <1>4 DEF In
    <3> QED BY <1>3, <2>2, <3>1, FS_AddElement
  <2>4. \A x \in Nodes : Cardinality(In(v, x)) <= Z
    <3> SUFFICES ASSUME NEW x \in Nodes PROVE Cardinality(In(v, x)) <= Z
      OBVIOUS
    <3>1. CASE x = m
      BY <1>2, <1>3, <2>1, <2>3, <3>1
    <3>2. CASE x # m
      BY <2>2, <3>2 DEF Packed
    <3> QED BY <3>1, <3>2
  <2>5. \A x : Cardinality(In(w, x)) = Z => Cardinality(In(v, x)) = Z
    <3> SUFFICES ASSUME NEW x, Cardinality(In(w, x)) = Z PROVE Cardinality(In(v, x)) = Z
      OBVIOUS
    <3>1. x # m
      BY <1>2, <2>1
    <3> QED BY <2>2, <3>1
  <2>6. \A b \in DOMAIN v : b \in DOMAIN fits /\ b < n + 1 /\ v[b] \in fits[b]
    <3> SUFFICES ASSUME NEW b \in DOMAIN v PROVE b \in DOMAIN fits /\ b < n + 1 /\ v[b] \in fits[b]
      OBVIOUS
    <3>1. CASE b = n
      BY <2>1, <3>1
    <3>2. CASE b # n
      <4>1. b \in DOMAIN w
        BY <2>1, <3>2
      <4>2. b \in DOMAIN fits /\ b < n /\ w[b] \in fits[b] /\ b \in Nat
        BY <1>1, <4>1 DEF Packed
      <4> QED BY <2>1, <4>1, <4>2
    <3> QED BY <3>1, <3>2
  <2>7. ASSUME NEW b \in DOMAIN fits, b < n + 1, NEW x \in fits[b], b \notin DOMAIN v \/ x > v[b]
        PROVE  Cardinality(In(v, x)) = Z
    <3>1. b \in Nat /\ x \in Nodes
      BY <1>1
    <3>2. CASE b = n
      <4>1. x > m
        BY <2>1, <2>7, <3>2
      <4>2. x \in Nat
        BY <3>1, Values
      <4>3. x \notin r
        BY <2>1, <4>1, <4>2
      <4>4. ~(Cardinality(In(w, x)) < Z) /\ Cardinality(In(w, x)) <= Z
        BY <2>1, <3>1, <3>2, <4>3 DEF Packed
      <4>5. Cardinality(In(w, x)) = Z
        BY <1>2, <1>3, <4>4
      <4> QED BY <2>5, <4>5
    <3>3. CASE b # n
      <4>1. b < n
        BY <2>7, <3>1, <3>3
      <4>2. b \notin DOMAIN w \/ x > w[b]
        BY <2>1, <2>7, <3>3
      <4>3. Cardinality(In(w, x)) = Z
        BY <4>1, <4>2 DEF Packed
      <4> QED BY <2>5, <4>3
    <3> QED BY <3>2, <3>3
  <2>8. Packed(fits, v, n + 1)
    BY <2>4, <2>6, <2>7 DEF Packed
  <2> QED BY <2>8 DEF v
<1> QED BY <1>5, <1>6

\* Blocks are placed where they may be, at most Z in a bucket; one that found no
\* place, or a deeper one, found the buckets full.
LEMMA RefillWell ==
  ASSUME NEW fits, Usable(fits)
  PROVE  /\ Refill(fits) \in Placements /\ DOMAIN Refill(fits) \subseteq DOMAIN fits
         /\ \A b \in DOMAIN Refill(fits) : Refill(fits)[b] \in fits[b]
         /\ \A x \in Nodes : Cardinality(In(Refill(fits), x)) <= Z
         /\ \A b \in DOMAIN fits : \A x \in fits[b] :
              b \notin DOMAIN Refill(fits) \/ x > Refill(fits)[b] => Cardinality(In(Refill(fits), x)) = Z
<1>1. PICK f \in [Nat -> Placements] :
           /\ DOMAIN f[0] = {} /\ \A n \in Nat : f[n + 1] = Place(fits, f[n], n)
           /\ Refill(fits) = f[NumLeaves * Z]
  BY RefillSteps
<1> DEFINE D == {n \in Nat : ~Packed(fits, f[n], n)}
<1>2. ASSUME D # {} PROVE FALSE
  <2>1. PICK n \in D : \A m \in D : n <= m
    BY <1>2, NatLeast
  <2>2. Packed(fits, f[0], 0)
    <3>1. \A b \in DOMAIN fits : ~(b < 0)
      BY Values DEF Usable
    <3>2. \A x : In(f[0], x) = {}
      BY <1>1 DEF In
    <3>3. \A x : Cardinality(In(f[0], x)) <= Z
      BY <3>2, FS_EmptySet, Sizes
    <3> QED BY <1>1, <3>1, <3>3 DEF Packed
  <2>3. n \in Nat /\ n # 0
    BY <2>1, <2>2
  <2>4. n - 1 \in Nat /\ n - 1 < n /\ (n - 1) + 1 = n
    BY <2>3
  <2>5. Packed(fits, f[n - 1], n - 1)
    BY <2>1, <2>4
  <2>6. Packed(fits, f[n], n)
    BY <1>1, <2>4, <2>5, PackedStep
  <2> QED BY <2>1, <2>6
<1> DEFINE w == Refill(fits)
<1>3. w \in Placements /\ Packed(fits, w, NumLeaves * Z)
  BY <1>1, <1>2, Values
<1>4. \A b \in DOMAIN fits : b < NumLeaves * Z
  BY Values DEF Usable
<1> QED BY <1>3, <1>4 DEF Packed

-----------------------------------------------------------------------------
(***************************************************************************)
(* The two maps.                                                           *)
(***************************************************************************)
Key(line) == <<line.node_id, line.offset>>

\* posMap as pm and addr_to_origaddr as ao say the same of the tree.
Agree(pm, ao) ==
  /\ DOMAIN pm \subseteq Addrs
  /\ \A a \in DOMAIN pm :
       /\ pm[a] \in Line /\ Key(pm[a]) \in DOMAIN ao
       /\ ao[Key(pm[a])] = [original_address |-> a, block_id |-> pm[a].block_id]
  /\ \A k \in DOMAIN ao : \E a \in DOMAIN pm : Key(pm[a]) = k

LEMMA LineFields ==
  ASSUME NEW line \in Line
  PROVE  /\ line.block_id \in Leaves /\ line.node_id \in Nodes /\ line.offset \in Slots
         /\ Key(line) \in Nodes \X Slots /\ Key(line)[1] = line.node_id /\ Key(line)[2] = line.offset
BY DEF Line, Key

LEMMA KeysDiffer ==
  ASSUME NEW pm, NEW ao, Agree(pm, ao), NEW a \in DOMAIN pm, NEW b \in DOMAIN pm,
         Key(pm[a]) = Key(pm[b])
  PROVE  a = b
<1>1. /\ ao[Key(pm[a])] = [original_address |-> a, block_id |-> pm[a].block_id]
      /\ ao[Key(pm[b])] = [original_address |-> b, block_id |-> pm[b].block_id]
  BY DEF Agree
<1>2. ao[Key(pm[a])].original_address = a /\ ao[Key(pm[b])].original_address = b
  BY <1>1
<1> QED BY <1>2

\* What is stored in a slot.
LEMMA SlotFacts ==
  ASSUME NEW pm, NEW ao, Agree(pm, ao), NEW k \in DOMAIN ao
  PROVE  /\ k \in Nodes \X Slots
         /\ ao[k].original_address \in DOMAIN pm /\ Key(pm[ao[k].original_address]) = k
         /\ ao[k] = [original_address |-> ao[k].original_address,
                     block_id |-> pm[ao[k].original_address].block_id]
<1>1. PICK a \in DOMAIN pm : Key(pm[a]) = k
  BY DEF Agree
<1>2. pm[a] \in Line /\ ao[k] = [original_address |-> a, block_id |-> pm[a].block_id]
  BY <1>1 DEF Agree
<1>3. ao[k].original_address = a
  BY <1>2
<1> QED BY <1>1, <1>2, <1>3, LineFields

LEMMA AsManySlots ==
  ASSUME NEW pm, NEW ao, Agree(pm, ao)
  PROVE  Cardinality(DOMAIN ao) = Cardinality(DOMAIN pm)
<1> DEFINE f == [a \in DOMAIN pm |-> Key(pm[a])]
<1>1. f \in [DOMAIN pm -> DOMAIN ao]
  BY DEF Agree
<1>2. \A a, b \in DOMAIN pm : f[a] = f[b] => a = b
  BY KeysDiffer
<1>3. \A k \in DOMAIN ao : \E a \in DOMAIN pm : f[a] = k
  BY DEF Agree
<1> HIDE DEF f
<1>4. f \in Bijection(DOMAIN pm, DOMAIN ao)
  BY <1>1, <1>2, <1>3 DEF Bijection, Injection, Surjection, IsInjective
<1>5. ExistsBijection(DOMAIN pm, DOMAIN ao)
  BY <1>4 DEF ExistsBijection
<1>6. IsFiniteSet(DOMAIN pm)
  BY Values, FS_Subset DEF Agree
<1> QED BY <1>5, <1>6, FS_Bijection

\* The blocks of buckets N join the stash with their leaves.
LEMMA PulledFields ==
  ASSUME Agree(posMap, addr_to_origaddr), NEW N
  PROVE  /\ Pulled(N) = {a \in DOMAIN posMap : posMap[a].node_id \in N}
         /\ DOMAIN StashWith(N) = Pulled(N) \cup DOMAIN stash
         /\ \A a \in Pulled(N) : StashWith(N)[a] = posMap[a].block_id
         /\ \A a \in DOMAIN stash \ Pulled(N) : StashWith(N)[a] = stash[a]
<1> DEFINE pick(a) == CHOOSE k \in Held(N) : addr_to_origaddr[k].original_address = a
           f == [a \in Pulled(N) |-> addr_to_origaddr[pick(a)].block_id]
<1>1. ASSUME NEW a \in DOMAIN posMap, posMap[a].node_id \in N
      PROVE  Key(posMap[a]) \in Held(N) /\ addr_to_origaddr[Key(posMap[a])].original_address = a
  <2>1. posMap[a] \in Line /\ Key(posMap[a]) \in DOMAIN addr_to_origaddr
        /\ addr_to_origaddr[Key(posMap[a])] = [original_address |-> a, block_id |-> posMap[a].block_id]
    BY DEF Agree
  <2>2. Key(posMap[a])[1] = posMap[a].node_id
    BY <2>1, LineFields
  <2> QED BY <1>1, <2>1, <2>2 DEF Held
<1>2. ASSUME NEW k \in Held(N)
      PROVE  LET a == addr_to_origaddr[k].original_address IN
             /\ a \in DOMAIN posMap /\ posMap[a].node_id \in N
             /\ addr_to_origaddr[k].block_id = posMap[a].block_id
  <2> DEFINE a == addr_to_origaddr[k].original_address
  <2>1. k \in DOMAIN addr_to_origaddr /\ k[1] \in N
    BY DEF Held
  <2>2. a \in DOMAIN posMap /\ Key(posMap[a]) = k
        /\ addr_to_origaddr[k] = [original_address |-> a, block_id |-> posMap[a].block_id]
    BY <2>1, SlotFacts
  <2>3. addr_to_origaddr[k].block_id = posMap[a].block_id
    BY <2>2
  <2>4. posMap[a] \in Line
    BY <2>2 DEF Agree
  <2> QED BY <2>1, <2>2, <2>3, <2>4, LineFields
<1>3. Pulled(N) = {a \in DOMAIN posMap : posMap[a].node_id \in N}
  BY <1>1, <1>2 DEF Pulled
<1>4. \A a \in Pulled(N) : f[a] = posMap[a].block_id
  <2> SUFFICES ASSUME NEW a \in Pulled(N) PROVE f[a] = posMap[a].block_id
    OBVIOUS
  <2>1. pick(a) \in Held(N) /\ addr_to_origaddr[pick(a)].original_address = a
    BY <1>1, <1>3
  <2> HIDE DEF pick
  <2> QED BY <1>2, <2>1
<1>5. StashWith(N) = [x \in Pulled(N) \cup DOMAIN stash |-> IF x \in Pulled(N) THEN f[x] ELSE stash[x]]
  BY DEF StashWith, Over
<1> HIDE DEF f
<1> QED BY <1>3, <1>4, <1>5

\* The blocks of a bucket get slots of their own.
LEMMA LinesWell ==
  ASSUME NEW where \in Placements, \A x \in Nodes : Cardinality(In(where, x)) <= Z,
         NEW leaf, \A a \in DOMAIN where : leaf[a] \in Leaves
  PROVE  LET ls == Lines(where, leaf) IN
         /\ DOMAIN ls = DOMAIN where
         /\ \A a \in DOMAIN where : ls[a] \in Line /\ ls[a].block_id = leaf[a] /\ ls[a].node_id = where[a]
         /\ \A a, b \in DOMAIN where : Key(ls[a]) = Key(ls[b]) => a = b
<1> DEFINE ls == Lines(where, leaf)
           Before(a) == {b \in DOMAIN where : b < a /\ where[b] = where[a]}
<1>1. /\ DOMAIN where \subseteq Nat /\ IsFiniteSet(DOMAIN where) /\ Z \in Nat
      /\ \A a \in DOMAIN where : where[a] \in Nodes
  BY PlacementFields, Values, Sizes
<1>2. \A a \in DOMAIN where : IsFiniteSet(Before(a)) /\ Cardinality(Before(a)) \in Nat
  <2>1. \A a \in DOMAIN where : Before(a) \in SUBSET (DOMAIN where)
    OBVIOUS
  <2> HIDE DEF Before
  <2> QED BY <1>1, <2>1, FS_Subset, FS_CardinalityType
<1>3. \A a \in DOMAIN where : ls[a] = [block_id |-> leaf[a], node_id |-> where[a], offset |-> Cardinality(Before(a))]
  BY DEF Lines
<1>4. ASSUME NEW a \in DOMAIN where PROVE Cardinality(Before(a)) \in Slots
  <2> DEFINE I == In(where, where[a])
  <2>1. a \in I /\ I \subseteq DOMAIN where /\ Cardinality(I) <= Z
    BY <1>1 DEF In
  <2>2. Before(a) \subseteq I \ {a}
    <3>1. ~(a < a)
      BY <1>1
    <3> QED BY <3>1 DEF In
  <2> HIDE DEF I, Before
  <2>3. IsFiniteSet(I) /\ Cardinality(I) \in Nat
    BY <1>1, <2>1, FS_Subset, FS_CardinalityType
  <2>4. IsFiniteSet(I \ {a}) /\ Cardinality(I \ {a}) = Cardinality(I) - 1
    BY <2>1, <2>3, FS_RemoveElement
  <2>5. Cardinality(Before(a)) <= Cardinality(I \ {a})
    BY <2>2, <2>4, FS_Subset
  <2>6. Cardinality(Before(a)) \in Nat
    BY <1>2
  <2> QED BY <1>1, <2>1, <2>3, <2>4, <2>5, <2>6 DEF Slots
<1>5. ASSUME NEW a \in DOMAIN where, NEW b \in DOMAIN where, a < b, where[a] = where[b]
      PROVE  Cardinality(Before(a)) < Cardinality(Before(b))
  <2>1. Before(a) \cup {a} \subseteq Before(b) /\ a \notin Before(a)
    <3>1. a \in Nat /\ b \in Nat /\ \A c \in Before(a) : c \in Nat /\ c < a
      BY <1>1
    <3>2. \A c \in Before(a) : c < b
      BY <1>5, <3>1
    <3> QED BY <1>5, <3>1, <3>2
  <2> HIDE DEF Before
  <2>2. Cardinality(Before(a) \cup {a}) = Cardinality(Before(a)) + 1
    BY <1>2, <2>1, FS_AddElement
  <2>3. Cardinality(Before(a) \cup {a}) <= Cardinality(Before(b))
    BY <1>2, <2>1, FS_Subset
  <2> QED BY <1>2, <2>2, <2>3
<1>6. DOMAIN ls = DOMAIN where
  BY DEF Lines
<1> DEFINE off == [a \in DOMAIN where |-> Cardinality(Before(a))]
<1>9. \A a \in DOMAIN where : off[a] = Cardinality(Before(a)) /\ off[a] \in Slots
  BY <1>4
<1>10. \A a \in DOMAIN where :
         ls[a] = [block_id |-> leaf[a], node_id |-> where[a], offset |-> off[a]]
  BY <1>3
<1> HIDE DEF ls, Before, off
<1>7. ASSUME NEW a \in DOMAIN where
      PROVE  /\ ls[a] \in Line /\ ls[a].block_id = leaf[a] /\ ls[a].node_id = where[a]
             /\ ls[a].offset = off[a]
  <2>1. leaf[a] \in Leaves /\ where[a] \in Nodes /\ off[a] \in Slots
    BY <1>1, <1>9
  <2> DEFINE x == leaf[a]
             y == where[a]
             z == off[a]
  <2>2. ls[a] = [block_id |-> x, node_id |-> y, offset |-> z]
    BY <1>10
  <2>3. x \in Leaves /\ y \in Nodes /\ z \in Slots
    BY <2>1
  <2> HIDE DEF x, y, z
  <2>4. /\ ls[a] \in Line /\ ls[a].block_id = x /\ ls[a].node_id = y /\ ls[a].offset = z
    BY <2>2, <2>3 DEF Line
  <2> QED BY <2>4 DEF x, y, z
<1>8. ASSUME NEW a \in DOMAIN where, NEW b \in DOMAIN where, Key(ls[a]) = Key(ls[b])
      PROVE  a = b
  <2>1. ls[a].node_id = ls[b].node_id /\ ls[a].offset = ls[b].offset
    BY <1>8 DEF Key
  <2>2. where[a] = where[b] /\ Cardinality(Before(a)) = Cardinality(Before(b))
    <3>1. where[a] = where[b] /\ off[a] = off[b]
      BY <1>7, <2>1
    <3> QED BY <1>9, <3>1
  <2>3. Cardinality(Before(a)) \in Nat /\ Cardinality(Before(b)) \in Nat /\ a \in Nat /\ b \in Nat
    BY <1>1, <1>2
  <2>4. ~(a < b) /\ ~(b < a)
    BY <1>5, <2>2, <2>3
  <2> QED BY <2>3, <2>4
<1> QED BY <1>6, <1>7, <1>8 DEF ls

\* New lines for blocks of buckets N or of the stash, in slots of these buckets.
LinesFor(N, lines) ==
  /\ DOMAIN lines \subseteq Addrs /\ DOMAIN lines \cap DOMAIN posMap \subseteq Pulled(N)
  /\ \A a \in DOMAIN lines : lines[a] \in Line /\ lines[a].node_id \in N
  /\ \A a, b \in DOMAIN lines : Key(lines[a]) = Key(lines[b]) => a = b

\* The maps after a rewrite: the new lines, and the lines in other buckets.
Rewritten(N, lines) ==
  /\ Agree(posMap', addr_to_origaddr')
  /\ DOMAIN posMap' = DOMAIN lines \cup (DOMAIN posMap \ Pulled(N))
  /\ \A a \in DOMAIN lines : posMap'[a] = lines[a]
  /\ \A a \in DOMAIN posMap \ Pulled(N) :
       a \notin DOMAIN lines /\ posMap[a].node_id \notin N /\ posMap'[a] = posMap[a]

LEMMA RewriteAgrees ==
  ASSUME Agree(posMap, addr_to_origaddr), NEW N, NEW st, NEW lines, Rewrite(N, st, lines),
         LinesFor(N, lines)
  PROVE  Rewritten(N, lines)
<1>0. /\ DOMAIN lines \subseteq Addrs /\ DOMAIN lines \cap DOMAIN posMap \subseteq Pulled(N)
      /\ \A a \in DOMAIN lines : lines[a] \in Line /\ lines[a].node_id \in N
      /\ \A a, b \in DOMAIN lines : Key(lines[a]) = Key(lines[b]) => a = b
  BY DEF LinesFor
<1> DEFINE K == {<<lines[a].node_id, lines[a].offset>> : a \in DOMAIN lines}
           pick(k) == CHOOSE a \in DOMAIN lines : <<lines[a].node_id, lines[a].offset>> = k
           new == [k \in K |-> [original_address |-> pick(k), block_id |-> lines[pick(k)].block_id]]
           kept == DOMAIN posMap \ Pulled(N)
           keys == DOMAIN addr_to_origaddr \ Held(N)
<1>1. posMap' = [x \in DOMAIN lines \cup kept |-> IF x \in DOMAIN lines THEN lines[x] ELSE posMap[x]]
  <2>1. posMap' = Over(lines, Restrict(posMap, kept))
    BY DEF Rewrite
  <2>2. DOMAIN Restrict(posMap, kept) = kept /\ \A x \in kept : Restrict(posMap, kept)[x] = posMap[x]
    BY DEF Restrict
  <2>3. \A x \in kept : x \notin DOMAIN lines
    BY <1>0
  <2> HIDE DEF kept
  <2>4. posMap' = [x \in DOMAIN lines \cup kept |->
                     IF x \in DOMAIN lines THEN lines[x] ELSE Restrict(posMap, kept)[x]]
    BY <2>1, <2>2 DEF Over
  <2>5. \A x \in DOMAIN lines \cup kept :
          (IF x \in DOMAIN lines THEN lines[x] ELSE Restrict(posMap, kept)[x])
            = (IF x \in DOMAIN lines THEN lines[x] ELSE posMap[x])
    BY <2>2
  <2> QED BY <2>4, <2>5
<1>2. addr_to_origaddr' = [k \in K \cup keys |-> IF k \in K THEN new[k] ELSE addr_to_origaddr[k]]
  <2>1. addr_to_origaddr' = Over(new, Restrict(addr_to_origaddr, keys))
    BY DEF Rewrite
  <2>2. DOMAIN Restrict(addr_to_origaddr, keys) = keys
        /\ \A x \in keys : Restrict(addr_to_origaddr, keys)[x] = addr_to_origaddr[x]
    BY DEF Restrict
  <2>3. DOMAIN new = K
    OBVIOUS
  <2> HIDE DEF keys, new, K
  <2>4. addr_to_origaddr' = [x \in K \cup keys |->
                               IF x \in K THEN new[x] ELSE Restrict(addr_to_origaddr, keys)[x]]
    BY <2>1, <2>2, <2>3 DEF Over
  <2>5. \A x \in K \cup keys :
          (IF x \in K THEN new[x] ELSE Restrict(addr_to_origaddr, keys)[x])
            = (IF x \in K THEN new[x] ELSE addr_to_origaddr[x])
    BY <2>2
  <2> QED BY <2>4, <2>5
<1>3. \A a \in DOMAIN lines :
        LET k == Key(lines[a])
        IN  k \in K /\ new[k] = [original_address |-> a, block_id |-> lines[a].block_id]
  <2> SUFFICES ASSUME NEW a \in DOMAIN lines
               PROVE  /\ Key(lines[a]) \in K
                      /\ new[Key(lines[a])] = [original_address |-> a, block_id |-> lines[a].block_id]
    OBVIOUS
  <2>1. Key(lines[a]) \in K
    BY DEF Key
  <2>2. pick(Key(lines[a])) \in DOMAIN lines /\ Key(lines[pick(Key(lines[a]))]) = Key(lines[a])
    BY DEF Key
  <2> HIDE DEF pick, K
  <2>3. pick(Key(lines[a])) = a
    BY <1>0, <2>2
  <2> QED BY <2>1, <2>3
<1>4. \A k \in K : k[1] \in N /\ \E a \in DOMAIN lines : Key(lines[a]) = k
  BY <1>0 DEF Key
<1>5. \A a \in kept : /\ posMap[a] \in Line /\ posMap[a].node_id \notin N
                      /\ Key(posMap[a]) \in keys /\ Key(posMap[a]) \notin K
                      /\ addr_to_origaddr[Key(posMap[a])]
                           = [original_address |-> a, block_id |-> posMap[a].block_id]
  <2> SUFFICES ASSUME NEW a \in kept
               PROVE  /\ posMap[a] \in Line /\ posMap[a].node_id \notin N
                      /\ Key(posMap[a]) \in keys /\ Key(posMap[a]) \notin K
                      /\ addr_to_origaddr[Key(posMap[a])]
                           = [original_address |-> a, block_id |-> posMap[a].block_id]
    OBVIOUS
  <2>1. a \in DOMAIN posMap /\ posMap[a].node_id \notin N
    BY PulledFields
  <2>2. /\ posMap[a] \in Line /\ Key(posMap[a]) \in DOMAIN addr_to_origaddr
        /\ addr_to_origaddr[Key(posMap[a])] = [original_address |-> a, block_id |-> posMap[a].block_id]
    BY <2>1 DEF Agree
  <2>3. Key(posMap[a])[1] \notin N
    BY <2>1, <2>2, LineFields
  <2> HIDE DEF K
  <2> QED BY <1>4, <2>1, <2>2, <2>3 DEF Held
<1>6. \A k \in keys : \E a \in kept : Key(posMap[a]) = k
  <2> SUFFICES ASSUME NEW k \in keys PROVE \E a \in kept : Key(posMap[a]) = k
    OBVIOUS
  <2>1. k \in DOMAIN addr_to_origaddr /\ k[1] \notin N
    BY DEF Held
  <2>2. PICK a \in DOMAIN posMap : Key(posMap[a]) = k
    BY <2>1 DEF Agree
  <2>3. posMap[a] \in Line
    BY DEF Agree
  <2>4. posMap[a].node_id \notin N
    BY <2>1, <2>2, <2>3, LineFields
  <2> QED BY <2>2, <2>4, PulledFields
<1>7. kept \subseteq Addrs /\ \A a \in kept : a \notin DOMAIN lines
  BY <1>0 DEF Agree
<1> HIDE DEF K, new, kept, keys
<1>8. DOMAIN posMap' = DOMAIN lines \cup kept
      /\ (\A a \in DOMAIN lines : posMap'[a] = lines[a])
      /\ \A a \in kept : posMap'[a] = posMap[a]
  BY <1>1, <1>7
<1>9. DOMAIN addr_to_origaddr' = K \cup keys
      /\ (\A k \in K : addr_to_origaddr'[k] = new[k])
      /\ \A k \in keys : k \notin K => addr_to_origaddr'[k] = addr_to_origaddr[k]
  BY <1>2
<1>10. \A a \in DOMAIN posMap' :
         /\ posMap'[a] \in Line /\ Key(posMap'[a]) \in DOMAIN addr_to_origaddr'
         /\ addr_to_origaddr'[Key(posMap'[a])] = [original_address |-> a, block_id |-> posMap'[a].block_id]
  <2> SUFFICES ASSUME NEW a \in DOMAIN posMap'
               PROVE  /\ posMap'[a] \in Line /\ Key(posMap'[a]) \in DOMAIN addr_to_origaddr'
                      /\ addr_to_origaddr'[Key(posMap'[a])]
                           = [original_address |-> a, block_id |-> posMap'[a].block_id]
    OBVIOUS
  <2>1. CASE a \in DOMAIN lines
    BY <1>0, <1>3, <1>8, <1>9, <2>1
  <2>2. CASE a \in kept
    BY <1>5, <1>8, <1>9, <2>2
  <2> QED BY <1>8, <2>1, <2>2
<1>11. \A k \in DOMAIN addr_to_origaddr' : \E a \in DOMAIN posMap' : Key(posMap'[a]) = k
  <2> SUFFICES ASSUME NEW k \in DOMAIN addr_to_origaddr'
               PROVE  \E a \in DOMAIN posMap' : Key(posMap'[a]) = k
    OBVIOUS
  <2>1. CASE k \in K
    BY <1>4, <1>8, <2>1
  <2>2. CASE k \in keys
    BY <1>6, <1>8, <2>2
  <2> QED BY <1>9, <2>1, <2>2
<1>12. Agree(posMap', addr_to_origaddr')
  BY <1>0, <1>7, <1>8, <1>10, <1>11 DEF Agree
<1> QED BY <1>5, <1>7, <1>8, <1>12 DEF kept, Rewritten

-----------------------------------------------------------------------------
(***************************************************************************)
(* The invariant.                                                          *)
(***************************************************************************)
\* Each block is in a slot of its path that was not read, or in the stash.
MapsWell ==
  /\ Agree(posMap, addr_to_origaddr)
  /\ DOMAIN stash = Addrs \ DOMAIN posMap /\ \A a \in DOMAIN stash : stash[a] \in Leaves
  /\ \A a \in DOMAIN posMap : /\ posMap[a].node_id \in Path[posMap[a].block_id]
                              /\ posMap[a].offset \in z_arr[posMap[a].node_id]

\* The reads of a bucket took a slot or a dummy each.
BucketsWell ==
  /\ z_arr \in [Nodes -> SUBSET Slots] /\ s_arr \in [Nodes -> 0 .. S]
  /\ accessed_times \in [Nodes -> 0 .. S]
  /\ \A n \in Nodes : accessed_times[n] = (S - s_arr[n]) + (Z - Cardinality(z_arr[n]))

\* An access looks for its block where it is, and begins with all buckets good for
\* one more read.
TaskWell ==
  task # NoTask =>
    /\ task.original_address \in Addrs \cup {NoAddr} /\ task.block_id \in Leaves
    /\ early_reshuffle_nodes = <<>> /\ \A n \in Nodes : accessed_times[n] < S
    /\ IF task.original_address \in DOMAIN posMap
         THEN LET line == posMap[task.original_address]
              IN  task.block_id = line.block_id /\ task.node_id = line.node_id /\ task.offset = line.offset
         ELSE task.node_id = NoNode

\* A bucket that was read for the last time is to be reshuffled or written back.
RenewalDue ==
  /\ ring_counter \in Leaves /\ rw_counter \in 0 .. A - 1
  /\ wb_block_id \in Seq(Leaves) /\ Len(wb_block_id) <= EVCT_TIMES
  /\ early_reshuffle_nodes \in Seq(Nodes)
  /\ \A n \in Nodes : \/ accessed_times[n] < S
                      \/ \E i \in 1 .. Len(early_reshuffle_nodes) : early_reshuffle_nodes[i] = n
                      \/ \E i \in 1 .. Len(wb_block_id) : n \in Path[wb_block_id[i]]

IInv == MapsWell /\ BucketsWell /\ TaskWell /\ RenewalDue

-----------------------------------------------------------------------------
(***************************************************************************)
(* Blocks of some buckets and of the stash are put into these buckets.     *)
(***************************************************************************)
LEMMA RenewWell ==
  ASSUME BucketsWell, NEW N, Renew(N)
  PROVE  /\ BucketsWell'
         /\ \A n \in Nodes : IF n \in N THEN z_arr'[n] = Slots /\ accessed_times'[n] = 0
                                        ELSE z_arr'[n] = z_arr[n] /\ accessed_times'[n] = accessed_times[n]
<1>1. \A n \in Nodes : IF n \in N THEN z_arr'[n] = Slots /\ s_arr'[n] = S /\ accessed_times'[n] = 0
                                  ELSE z_arr'[n] = z_arr[n] /\ s_arr'[n] = s_arr[n]
                                       /\ accessed_times'[n] = accessed_times[n]
  BY DEF Renew
<1>2. z_arr' \in [Nodes -> SUBSET Slots]
  BY DEF Renew, BucketsWell
<1>3. s_arr' \in [Nodes -> 0 .. S] /\ accessed_times' \in [Nodes -> 0 .. S]
  BY Sizes DEF Renew, BucketsWell
<1>4. \A n \in Nodes : accessed_times'[n] = (S - s_arr'[n]) + (Z - Cardinality(z_arr'[n]))
  <2> SUFFICES ASSUME NEW n \in Nodes
               PROVE  accessed_times'[n] = (S - s_arr'[n]) + (Z - Cardinality(z_arr'[n]))
    OBVIOUS
  <2>1. CASE n \in N
    <3>1. (S - S) + (Z - Z) = 0
      BY Sizes
    <3> QED BY <1>1, <2>1, <3>1, Values
  <2>2. CASE n \notin N
    BY <1>1, <2>2 DEF BucketsWell
  <2> QED BY <2>1, <2>2
<1> QED BY <1>1, <1>2, <1>3, <1>4 DEF BucketsWell

\* The blocks may be put into buckets N only, on the path of the leaf they then have.
Guests(N, fits, leaf) ==
  /\ DOMAIN fits = DOMAIN StashWith(N) /\ \A a \in DOMAIN fits : fits[a] \subseteq N
  /\ \A a \in DOMAIN Refill(fits) : leaf[a] \in Leaves /\ Refill(fits)[a] \in Path[leaf[a]]

\* Where the blocks are then.
Refilled(N, fits, leaf) ==
  /\ DOMAIN posMap' = DOMAIN Refill(fits) \cup (DOMAIN posMap \ Pulled(N))
  /\ \A a \in DOMAIN Refill(fits) :
       posMap'[a].block_id = leaf[a] /\ posMap'[a].node_id = Refill(fits)[a]
  /\ \A a \in DOMAIN posMap \ Pulled(N) :
       a \notin DOMAIN Refill(fits) /\ posMap[a].node_id \notin N /\ posMap'[a] = posMap[a]
  /\ DOMAIN stash' = DOMAIN StashWith(N) \ DOMAIN Refill(fits)
  /\ \A a \in DOMAIN stash' : stash'[a] = StashWith(N)[a]
  /\ \A n \in Nodes : IF n \in N THEN accessed_times'[n] = 0
                                 ELSE accessed_times'[n] = accessed_times[n]

LEMMA RefillStep ==
  ASSUME MapsWell, BucketsWell, NEW N \in SUBSET Nodes, NEW fits, NEW leaf, Guests(N, fits, leaf),
         Rewrite(N, StashWith(N), Lines(Refill(fits), leaf)), Renew(N)
  PROVE  MapsWell' /\ BucketsWell' /\ Refilled(N, fits, leaf)
<1>0. /\ DOMAIN fits = DOMAIN StashWith(N) /\ \A a \in DOMAIN fits : fits[a] \subseteq N
      /\ \A a \in DOMAIN Refill(fits) : leaf[a] \in Leaves /\ Refill(fits)[a] \in Path[leaf[a]]
  BY DEF Guests
<1> DEFINE st == StashWith(N)
           where == Refill(fits)
           lines == Lines(where, leaf)
<1>1. /\ Pulled(N) = {a \in DOMAIN posMap : posMap[a].node_id \in N}
      /\ DOMAIN st = Pulled(N) \cup DOMAIN stash
      /\ \A a \in Pulled(N) : st[a] = posMap[a].block_id
      /\ \A a \in DOMAIN stash \ Pulled(N) : st[a] = stash[a]
  BY PulledFields DEF MapsWell
<1>2. DOMAIN posMap \subseteq Addrs /\ \A a \in DOMAIN posMap : posMap[a] \in Line
  BY DEF MapsWell, Agree
<1>3. DOMAIN st \subseteq Addrs
  BY <1>1, <1>2 DEF MapsWell
<1>4. Usable(fits)
  BY <1>0, <1>3 DEF Usable
<1>5. /\ where \in Placements /\ DOMAIN where \subseteq DOMAIN st
      /\ \A b \in DOMAIN where : where[b] \in N
      /\ \A x \in Nodes : Cardinality(In(where, x)) <= Z
  BY <1>0, <1>4, RefillWell
<1> HIDE DEF where
<1>6. /\ DOMAIN lines = DOMAIN where
      /\ \A a \in DOMAIN where : lines[a] \in Line /\ lines[a].block_id = leaf[a] /\ lines[a].node_id = where[a]
      /\ \A a, b \in DOMAIN where : Key(lines[a]) = Key(lines[b]) => a = b
  BY <1>0, <1>5, LinesWell DEF where
<1> HIDE DEF lines
<1>7. Rewrite(N, st, lines)
  BY DEF lines, where
<1> HIDE DEF st
<1>8. /\ DOMAIN lines \subseteq Addrs /\ DOMAIN lines \cap DOMAIN posMap \subseteq Pulled(N)
      /\ \A a \in DOMAIN lines : lines[a] \in Line
      /\ \A a \in DOMAIN lines : lines[a].node_id \in N
  BY <1>1, <1>3, <1>5, <1>6 DEF MapsWell
<1>9. /\ Agree(posMap', addr_to_origaddr')
      /\ DOMAIN posMap' = DOMAIN lines \cup (DOMAIN posMap \ Pulled(N))
      /\ \A a \in DOMAIN lines : posMap'[a] = lines[a]
      /\ \A a \in DOMAIN posMap \ Pulled(N) :
           a \notin DOMAIN lines /\ posMap[a].node_id \notin N /\ posMap'[a] = posMap[a]
  <2>1. Agree(posMap, addr_to_origaddr)
    BY DEF MapsWell
  <2>2. \A a, b \in DOMAIN lines : Key(lines[a]) = Key(lines[b]) => a = b
    BY <1>6
  <2>3. LinesFor(N, lines)
    BY <1>8, <2>2 DEF LinesFor
  <2>4. PICK s, ls : s = st /\ ls = lines
    OBVIOUS
  <2>5. Rewrite(N, s, ls) /\ LinesFor(N, ls)
    BY <1>7, <2>3, <2>4
  <2>6. Rewritten(N, ls)
    BY <2>1, <2>5, RewriteAgrees
  <2> QED BY <2>4, <2>6 DEF Rewritten
<1>10. DOMAIN stash' = DOMAIN st \ DOMAIN lines /\ \A a \in DOMAIN stash' : stash'[a] = st[a]
  BY <1>7 DEF Rewrite, Restrict
<1>11. /\ BucketsWell'
       /\ \A n \in Nodes : IF n \in N THEN z_arr'[n] = Slots /\ accessed_times'[n] = 0
                                      ELSE z_arr'[n] = z_arr[n] /\ accessed_times'[n] = accessed_times[n]
  BY RenewWell
<1>12. MapsWell'
  <2>1. DOMAIN stash' = Addrs \ DOMAIN posMap'
    BY <1>1, <1>2, <1>3, <1>8, <1>9, <1>10 DEF MapsWell
  <2>2. \A a \in DOMAIN stash' : stash'[a] \in Leaves
    <3>1. \A a \in DOMAIN st : st[a] \in Leaves
      BY <1>1, <1>2, LineFields DEF MapsWell
    <3> QED BY <1>10, <3>1
  <2>3. \A a \in DOMAIN posMap' : /\ posMap'[a].node_id \in Path[posMap'[a].block_id]
                                  /\ posMap'[a].offset \in z_arr'[posMap'[a].node_id]
    <3> SUFFICES ASSUME NEW a \in DOMAIN posMap'
                 PROVE  /\ posMap'[a].node_id \in Path[posMap'[a].block_id]
                        /\ posMap'[a].offset \in z_arr'[posMap'[a].node_id]
      OBVIOUS
    <3>1. CASE a \in DOMAIN lines
      <4>1. posMap'[a] = lines[a] /\ lines[a].node_id \in Nodes /\ lines[a].offset \in Slots
        BY <1>8, <1>9, <3>1, LineFields
      <4>2. lines[a].node_id \in N /\ lines[a].node_id \in Path[lines[a].block_id]
        BY <1>0, <1>6, <1>8, <3>1 DEF where
      <4> QED BY <1>11, <4>1, <4>2
    <3>2. CASE a \notin DOMAIN lines
      <4>1. a \in DOMAIN posMap /\ posMap[a].node_id \notin N /\ posMap'[a] = posMap[a]
        BY <1>9, <3>2
      <4>2. posMap[a].node_id \in Nodes
        BY <1>2, <4>1, LineFields
      <4> QED BY <1>11, <4>1, <4>2 DEF MapsWell
    <3> QED BY <3>1, <3>2
  <2> QED BY <1>9, <2>1, <2>2, <2>3 DEF MapsWell
<1> QED BY <1>6, <1>9, <1>10, <1>11, <1>12 DEF st, where, Refilled


-----------------------------------------------------------------------------
(***************************************************************************)
(* The buckets that an access has to reshuffle.                            *)
(***************************************************************************)
Due(n) == Exhausted(n) /\ ~Masked(n)

\* The list after the level lvl was looked at.
Listed(leaf, list, lvl) ==
  IF lvl \in Lvls /\ Due(P(leaf, lvl)) THEN Append(list, P(leaf, lvl)) ELSE list

LEMMA ListedWell ==
  ASSUME NEW leaf \in Leaves, NEW list \in Seq(Nodes), NEW lvl \in Nat
  PROVE  /\ Listed(leaf, list, lvl) \in Seq(Nodes)
         /\ \A i \in 1 .. Len(list) : \E j \in 1 .. Len(Listed(leaf, list, lvl)) :
              Listed(leaf, list, lvl)[j] = list[i]
         /\ lvl \in Lvls /\ Due(P(leaf, lvl)) =>
              \E j \in 1 .. Len(Listed(leaf, list, lvl)) : Listed(leaf, list, lvl)[j] = P(leaf, lvl)
<1> DEFINE n == P(leaf, lvl)
<1>1. CASE ~(lvl \in Lvls /\ Due(n))
  BY <1>1 DEF Listed
<1>2. CASE lvl \in Lvls /\ Due(n)
  <2>1. n \in Nodes /\ Listed(leaf, list, lvl) = Append(list, n)
    BY <1>2, PathLevel DEF Listed
  <2> HIDE DEF n
  <2>2. /\ Append(list, n) \in Seq(Nodes) /\ Len(Append(list, n)) = Len(list) + 1 /\ Len(list) \in Nat
        /\ \A i \in 1 .. Len(list) : Append(list, n)[i] = list[i]
        /\ Append(list, n)[Len(list) + 1] = n
    BY <2>1
  <2>3. Len(list) + 1 \in 1 .. Len(list) + 1 /\ \A i \in 1 .. Len(list) : i \in 1 .. Len(list) + 1
    BY <2>2
  <2> QED BY <2>1, <2>2, <2>3 DEF n
<1> QED BY <1>1, <1>2

LEMMA ReshuffleSteps ==
  ASSUME NEW leaf \in Leaves
  PROVE  \E f \in [Nat -> Seq(Nodes)] :
           /\ \A n \in Nat : f[n + 1] = Listed(leaf, f[n], n)
           /\ ToReshuffle(leaf) = f[Levels]
<1> DEFINE V == Seq(Nodes)
           Body(g, lvl) == IF lvl = 0 THEN <<>>
                           ELSE LET n == P(leaf, lvl - 1)
                                IN  IF lvl - 1 \in Lvls /\ Exhausted(n) /\ ~Masked(n)
                                      THEN Append(g[lvl - 1], n) ELSE g[lvl - 1]
<1>0. PICK step : step = [n \in Nat |-> [w \in V |-> Listed(leaf, w, n)]]
  OBVIOUS
<1>1. step \in [Nat -> [V -> V]]
  BY <1>0, ListedWell
<1>2. <<>> \in V
  OBVIOUS
<1>3. PICK f \in [Nat -> V] :
        \A n \in Nat : f[n] = IF n = 0 THEN <<>> ELSE step[n - 1][f[n - 1]]
  <2> DEFINE e == <<>>
  <2>1. e \in V /\ step \in [Nat -> [V -> V]]
    BY <1>1, <1>2
  <2> HIDE DEF V, e
  <2>2. \E f \in [Nat -> V] : \A n \in Nat : f[n] = IF n = 0 THEN e ELSE step[n - 1][f[n - 1]]
    BY <2>1, Recursion
  <2> QED BY <2>2 DEF e
<1>4. ASSUME NEW n \in Nat, NEW g, n # 0 PROVE Body(g, n) = Listed(leaf, g[n - 1], n - 1)
  BY <1>4 DEF Listed, Due
<1>5. ASSUME NEW n \in Nat PROVE f[n] = Body(f, n)
  <2>1. CASE n # 0
    <3>1. n - 1 \in Nat /\ f[n - 1] \in V
      BY <2>1
    <3>2. step[n - 1][f[n - 1]] = Listed(leaf, f[n - 1], n - 1)
      BY <1>0, <3>1
    <3> HIDE DEF Body
    <3> QED BY <1>3, <1>4, <2>1, <3>2
  <2>2. CASE n = 0
    BY <1>3, <2>2
  <2> QED BY <2>1, <2>2
<1> DEFINE list == CHOOSE g : g = [n \in Nat |-> Body(g, n)]
<1>6. list = [n \in Nat |-> Body(list, n)]
  <2>1. f = [n \in Nat |-> Body(f, n)]
    <3> HIDE DEF Body
    <3> QED BY <1>5
  <2> HIDE DEF Body
  <2> QED BY <2>1
<1>7. ToReshuffle(leaf) = list[Levels]
  BY DEF ToReshuffle
<1> HIDE DEF list
<1>8. list[0] = <<>>
  <2>1. list[0] = Body(list, 0)
    <3> HIDE DEF Body
    <3> QED BY <1>6
  <2> QED BY <2>1
<1>9. ASSUME NEW n \in Nat PROVE list[n + 1] = Listed(leaf, list[n], n)
  <2>1. n + 1 \in Nat /\ n + 1 # 0 /\ (n + 1) - 1 = n
    OBVIOUS
  <2>2. list[n + 1] = Body(list, n + 1)
    <3> HIDE DEF Body
    <3> QED BY <1>6, <2>1
  <2>3. Body(list, n + 1) = Listed(leaf, list[(n + 1) - 1], (n + 1) - 1)
    <3> HIDE DEF Body
    <3> QED BY <1>4, <2>1
  <2> QED BY <2>1, <2>2, <2>3
<1>10. \A n \in Nat : list[n] \in V
  <2> DEFINE D == {n \in Nat : list[n] \notin V}
  <2>1. ASSUME D # {} PROVE FALSE
    <3>1. PICK n \in D : \A m \in D : n <= m
      BY <2>1, NatLeast
    <3>2. n \in Nat /\ n # 0
      BY <1>2, <1>8, <3>1
    <3>3. n - 1 \in Nat /\ n - 1 < n /\ (n - 1) + 1 = n
      BY <3>2
    <3>4. list[n - 1] \in V
      BY <3>1, <3>3
    <3>5. list[n] = Listed(leaf, list[n - 1], n - 1)
      BY <1>9, <3>3
    <3>6. Listed(leaf, list[n - 1], n - 1) \in Seq(Nodes)
      <4>1. PICK l : l = list[n - 1]
        OBVIOUS
      <4> QED BY <3>3, <3>4, <4>1, ListedWell
    <3> QED BY <3>1, <3>5, <3>6
  <2> QED BY <2>1
<1>11. list \in [Nat -> V]
  <2> HIDE DEF Body
  <2>1. list = [n \in Nat |-> list[n]]
    BY <1>6
  <2> QED BY <1>10, <2>1
<1>12. PICK l : l = list
  OBVIOUS
<1> QED BY <1>7, <1>9, <1>11, <1>12 DEF V

\* All of them are on the list.
LEMMA ReshuffleWell ==
  ASSUME NEW leaf \in Leaves
  PROVE  /\ ToReshuffle(leaf) \in Seq(Nodes)
         /\ \A n \in Path[leaf] : Due(n) =>
              \E i \in 1 .. Len(ToReshuffle(leaf)) : ToReshuffle(leaf)[i] = n
<1>1. PICK f \in [Nat -> Seq(Nodes)] :
        /\ \A n \in Nat : f[n + 1] = Listed(leaf, f[n], n)
        /\ ToReshuffle(leaf) = f[Levels]
  BY ReshuffleSteps
<1> DEFINE Has(n, lvl) == \E i \in 1 .. Len(f[n]) : f[n][i] = P(leaf, lvl)
<1>2. ASSUME NEW lvl \in Lvls, Due(P(leaf, lvl)), lvl < Levels PROVE Has(Levels, lvl)
  <2> DEFINE D == {n \in Nat : lvl < n /\ ~Has(n, lvl)}
  <2>1. lvl \in Nat
    BY LevelsOf
  <2>2. ASSUME D # {} PROVE FALSE
    <3>1. PICK n \in D : \A m \in D : n <= m
      BY <2>2, NatLeast
    <3>2. n \in Nat /\ lvl < n /\ ~Has(n, lvl)
      BY <3>1
    <3>3. n - 1 \in Nat /\ n - 1 < n /\ (n - 1) + 1 = n /\ f[n - 1] \in Seq(Nodes)
      BY <2>1, <3>2
    <3>4. f[n] = Listed(leaf, f[n - 1], n - 1)
      BY <1>1, <3>3
    <3> DEFINE l == f[n - 1]
               new == Listed(leaf, l, n - 1)
    <3>7. /\ \A i \in 1 .. Len(l) : \E j \in 1 .. Len(new) : new[j] = l[i]
          /\ n - 1 \in Lvls /\ Due(P(leaf, n - 1)) =>
               \E j \in 1 .. Len(new) : new[j] = P(leaf, n - 1)
      <4>1. PICK k, m : k = l /\ m = n - 1
        OBVIOUS
      <4>2. k \in Seq(Nodes) /\ m \in Nat
        BY <3>3, <4>1
      <4>3. /\ \A i \in 1 .. Len(k) : \E j \in 1 .. Len(Listed(leaf, k, m)) : Listed(leaf, k, m)[j] = k[i]
            /\ m \in Lvls /\ Due(P(leaf, m)) =>
                 \E j \in 1 .. Len(Listed(leaf, k, m)) : Listed(leaf, k, m)[j] = P(leaf, m)
        BY <4>2, ListedWell
      <4> QED BY <4>1, <4>3
    <3>8. f[n] = new
      BY <3>4
    <3> HIDE DEF new
    <3>5. CASE lvl = n - 1
      BY <1>2, <3>2, <3>5, <3>7, <3>8
    <3>6. CASE lvl # n - 1
      <4>1. lvl < n - 1
        BY <2>1, <3>2, <3>6
      <4>2. Has(n - 1, lvl)
        BY <3>1, <3>3, <4>1
      <4>3. PICK i \in 1 .. Len(f[n - 1]) : f[n - 1][i] = P(leaf, lvl)
        BY <4>2
      <4> QED BY <3>2, <3>7, <3>8, <4>3
    <3> QED BY <3>5, <3>6
  <2> QED BY <1>2, <2>2, Sizes
<1>3. \A lvl \in Lvls : lvl < Levels
  BY LevelsOf, Sizes
<1>4. \A n \in Path[leaf] : \E lvl \in Lvls : n = P(leaf, lvl)
  BY PathNodes
<1>5. ToReshuffle(leaf) \in Seq(Nodes)
  BY <1>1, Sizes
<1>6. ASSUME NEW n \in Path[leaf], Due(n)
      PROVE  \E i \in 1 .. Len(ToReshuffle(leaf)) : ToReshuffle(leaf)[i] = n
  <2>1. PICK lvl \in Lvls : n = P(leaf, lvl)
    BY <1>4
  <2>2. Due(P(leaf, lvl)) /\ lvl < Levels
    BY <1>3, <1>6, <2>1
  <2>3. Has(Levels, lvl)
    BY <1>2, <2>2
  <2> QED BY <1>1, <2>1, <2>3
<1> QED BY <1>5, <1>6

-----------------------------------------------------------------------------
(***************************************************************************)
(* The beginning.                                                          *)
(***************************************************************************)
\* There are as many slots in the leaves' buckets as there are blocks.
LEMMA SlotsOfLeaves == Cardinality(Leaves \X Slots) = Cardinality(Addrs) /\ IsFiniteSet(Leaves \X Slots)
<1> DEFINE g == [a \in Addrs |-> <<a \div Z, a % Z>>]
           T == Leaves \X Slots
<1>1. /\ NumLeaves \in Nat \ {0} /\ Z \in Nat \ {0} /\ Leaves = 0 .. NumLeaves - 1 /\ Slots = 0 .. Z - 1
      /\ Addrs = 0 .. NumLeaves * Z - 1 /\ NumLeaves * Z \in Nat
  BY Sizes, Leafs, Values DEF Slots
<1>2. ASSUME NEW a \in Addrs
      PROVE  a \div Z \in Leaves /\ a % Z \in Slots /\ a = (a \div Z) * Z + (a % Z)
  <2> DEFINE q == a \div Z
             r == a % Z
  <2>1. a \in Nat /\ a < NumLeaves * Z
    BY <1>1
  <2>2. q \in Nat /\ q * Z <= a /\ a < (q + 1) * Z
    BY <1>1, <2>1
  <2>3. r \in 0 .. Z - 1 /\ a = Z * q + r
    BY <1>1, <2>1
  <2> HIDE DEF q, r
  <2>4. Z * q = q * Z
    BY <1>1, <2>2
  <2>5. q < NumLeaves
    <3>1. ASSUME NumLeaves <= q PROVE FALSE
      <4>1. NumLeaves * Z <= q * Z /\ q * Z \in Nat
        BY <1>1, <2>2, <3>1
      <4> QED BY <1>1, <2>1, <2>2, <4>1
    <3> QED BY <1>1, <2>2, <3>1
  <2> QED BY <1>1, <2>2, <2>3, <2>4, <2>5 DEF q, r
<1>3. g \in [Addrs -> T]
  BY <1>2
<1>4. \A a, b \in Addrs : g[a] = g[b] => a = b
  BY <1>2
<1>5. ASSUME NEW leaf \in Leaves, NEW slot \in Slots
      PROVE  \E a \in Addrs : g[a] = <<leaf, slot>>
  <2> DEFINE a == leaf * Z + slot
  <2>1. leaf \in Nat /\ slot \in Nat /\ slot < Z /\ leaf + 1 <= NumLeaves
    BY <1>1
  <2>2. leaf * Z \in Nat /\ (leaf + 1) * Z = leaf * Z + Z /\ (leaf + 1) * Z <= NumLeaves * Z
    BY <1>1, <2>1
  <2>3. a \in Addrs /\ leaf * Z <= a /\ a < (leaf + 1) * Z /\ a \in Nat
    BY <1>1, <2>1, <2>2
  <2>4. a \div Z = leaf
    <3>1. PICK x : x = a
      OBVIOUS
    <3> QED BY <1>1, <2>1, <2>3, <3>1, Quotient
  <2>5. a % Z = slot
    <3> DEFINE r == a % Z
               y == leaf * Z
    <3>1. a = (a \div Z) * Z + r /\ r \in Slots
      BY <1>2, <2>3
    <3>2. r \in Int /\ y \in Int
      BY <1>1, <2>2, <3>1
    <3>3. y + slot = y + r
      BY <2>4, <3>1
    <3> HIDE DEF r, y
    <3>4. slot = r
      BY <2>1, <3>2, <3>3
    <3> QED BY <3>4 DEF r
  <2> QED BY <2>3, <2>4, <2>5
<1> HIDE DEF g
<1>6. \A x \in T : \E a \in Addrs : g[a] = x
  BY <1>5
<1>7. g \in Bijection(Addrs, T)
  BY <1>3, <1>4, <1>6 DEF Bijection, Injection, Surjection, IsInjective
<1> HIDE DEF T
<1>8. ExistsBijection(Addrs, T)
  BY <1>7 DEF ExistsBijection
<1>9. Cardinality(T) = Cardinality(Addrs) /\ IsFiniteSet(T)
  BY <1>8, Values, FS_Bijection
<1> QED BY <1>9 DEF T

LEMMA HomesOnto ==
  ASSUME NEW home \in Homes
  PROVE  /\ home \in [Leaves \X Slots -> Addrs]
         /\ \A x, y \in Leaves \X Slots : home[x] = home[y] => x = y
         /\ \A a \in Addrs : \E x \in Leaves \X Slots : home[x] = a
<1> DEFINE T == Leaves \X Slots
<1>1. home \in [T -> Addrs] /\ IsInjective(home)
  BY SetOramAssumption
<1>2. \A x, y \in T : home[x] = home[y] => x = y
  BY <1>1 DEF IsInjective
<1>3. Cardinality(T) = Cardinality(Addrs)
  BY SlotsOfLeaves
<1> HIDE DEF T
<1>4. home \in Injection(T, Addrs)
  BY <1>1 DEF Injection
<1>5. home \in Surjection(T, Addrs)
  BY <1>3, <1>4, Values, FS_Injection
<1>6. \A a \in Addrs : \E x \in T : home[x] = a
  BY <1>5 DEF Surjection
<1> QED BY <1>1, <1>2, <1>6 DEF T

LEMMA InitWell ==
  ASSUME Init
  PROVE  IInv
<1>1. PICK home \in Homes :
        /\ posMap = [a \in Addrs |->
             LET x == CHOOSE x \in Leaves \X Slots : home[x] = a
             IN  [block_id |-> x[1], node_id |-> P(x[1], Levels - 1), offset |-> x[2]]]
        /\ addr_to_origaddr =
             [k \in {P(leaf, Levels - 1) : leaf \in Leaves} \X Slots |->
                LET leaf == k[1] - (NumLeaves - 1)
                IN  [original_address |-> home[<<leaf, k[2]>>], block_id |-> leaf]]
  BY DEF Init
<1> DEFINE X(a) == CHOOSE x \in Leaves \X Slots : home[x] = a
           Bottom(leaf) == NumLeaves - 1 + leaf
<1>2. \A a \in Addrs : X(a) \in Leaves \X Slots /\ home[X(a)] = a
  BY HomesOnto
<1>3. \A x \in Leaves \X Slots : home[x] \in Addrs /\ X(home[x]) = x
  BY HomesOnto
<1>4. \A a \in Addrs : posMap[a] = [block_id |-> X(a)[1], node_id |-> P(X(a)[1], Levels - 1), offset |-> X(a)[2]]
  BY <1>1
<1>5. DOMAIN posMap = Addrs
  BY <1>1
<1> HIDE DEF X
<1>6. \A leaf \in Leaves : /\ leaf \in Nat /\ P(leaf, Levels - 1) = Bottom(leaf)
                           /\ Bottom(leaf) \in Nodes /\ Bottom(leaf) \in Path[leaf]
                           /\ Bottom(leaf) - (NumLeaves - 1) = leaf
  <2> SUFFICES ASSUME NEW leaf \in Leaves
               PROVE  /\ leaf \in Nat /\ P(leaf, Levels - 1) = Bottom(leaf)
                      /\ Bottom(leaf) \in Nodes /\ Bottom(leaf) \in Path[leaf]
                      /\ Bottom(leaf) - (NumLeaves - 1) = leaf
    OBVIOUS
  <2>1. P(leaf, Levels - 1) = Bottom(leaf) /\ P(leaf, Levels - 1) \in Path[leaf] /\ Path[leaf] \subseteq Nodes
    BY BottomBucket, PathNodes
  <2>2. leaf \in Nat /\ NumLeaves \in Nat
    BY Leafs
  <2> QED BY <2>1, <2>2
<1>7. ASSUME NEW a \in Addrs
      PROVE  /\ X(a)[1] \in Leaves /\ X(a)[2] \in Slots /\ home[<<X(a)[1], X(a)[2]>>] = a
             /\ posMap[a] \in Line /\ Key(posMap[a]) = <<Bottom(X(a)[1]), X(a)[2]>>
             /\ posMap[a].block_id = X(a)[1] /\ posMap[a].node_id = Bottom(X(a)[1])
             /\ posMap[a].offset = X(a)[2]
  <2> DEFINE l == X(a)[1]
             s == X(a)[2]
             n == P(l, Levels - 1)
  <2>1. l \in Leaves /\ s \in Slots /\ X(a) = <<l, s>>
    BY <1>2
  <2>2. n = Bottom(l) /\ n \in Nodes
    BY <1>6, <2>1
  <2>3. posMap[a] = [block_id |-> l, node_id |-> n, offset |-> s]
    BY <1>4
  <2>6. home[<<l, s>>] = a
    BY <1>2, <2>1
  <2> HIDE DEF l, s, n
  <2>4. /\ posMap[a] \in Line /\ posMap[a].block_id = l /\ posMap[a].node_id = n /\ posMap[a].offset = s
    BY <2>1, <2>2, <2>3 DEF Line
  <2>5. Key(posMap[a]) = <<n, s>>
    BY <2>4 DEF Key
  <2> QED BY <2>1, <2>2, <2>4, <2>5, <2>6 DEF l, s
<1>8. DOMAIN addr_to_origaddr = {Bottom(leaf) : leaf \in Leaves} \X Slots
  <2>1. {P(leaf, Levels - 1) : leaf \in Leaves} = {Bottom(leaf) : leaf \in Leaves}
    BY <1>6
  <2> HIDE DEF Bottom
  <2> QED BY <1>1, <2>1
<1>9. ASSUME NEW leaf \in Leaves, NEW s \in Slots
      PROVE  /\ <<Bottom(leaf), s>> \in DOMAIN addr_to_origaddr
             /\ addr_to_origaddr[<<Bottom(leaf), s>>] = [original_address |-> home[<<leaf, s>>], block_id |-> leaf]
  <2> DEFINE k == <<Bottom(leaf), s>>
  <2>1. k \in DOMAIN addr_to_origaddr
    BY <1>8
  <2>2. k[1] - (NumLeaves - 1) = leaf /\ k[2] = s
    BY <1>6
  <2> HIDE DEF k
  <2>3. addr_to_origaddr[k] = [original_address |-> home[<<k[1] - (NumLeaves - 1), k[2]>>],
                               block_id |-> k[1] - (NumLeaves - 1)]
    BY <1>1, <2>1
  <2>4. addr_to_origaddr[k] = [original_address |-> home[<<leaf, s>>], block_id |-> leaf]
    BY <2>2, <2>3
  <2> QED BY <2>1, <2>4 DEF k
<1> HIDE DEF Bottom
<1>10. Agree(posMap, addr_to_origaddr)
  <2>1. ASSUME NEW a \in DOMAIN posMap
        PROVE  /\ posMap[a] \in Line /\ Key(posMap[a]) \in DOMAIN addr_to_origaddr
               /\ addr_to_origaddr[Key(posMap[a])] = [original_address |-> a, block_id |-> posMap[a].block_id]
    <3> DEFINE l == X(a)[1]
               s == X(a)[2]
    <3>1. /\ l \in Leaves /\ s \in Slots /\ home[<<l, s>>] = a
          /\ posMap[a] \in Line /\ Key(posMap[a]) = <<Bottom(l), s>> /\ posMap[a].block_id = l
      BY <1>5, <1>7
    <3> HIDE DEF l, s
    <3>2. /\ <<Bottom(l), s>> \in DOMAIN addr_to_origaddr
          /\ addr_to_origaddr[<<Bottom(l), s>>] = [original_address |-> home[<<l, s>>], block_id |-> l]
      BY <1>9, <3>1
    <3> QED BY <3>1, <3>2
  <2>2. ASSUME NEW k \in DOMAIN addr_to_origaddr PROVE \E a \in DOMAIN posMap : Key(posMap[a]) = k
    <3>1. PICK leaf \in Leaves, s \in Slots : k = <<Bottom(leaf), s>>
      BY <1>8
    <3>2. PICK x : x = <<leaf, s>>
      OBVIOUS
    <3>3. home[x] \in Addrs /\ X(home[x]) = x
      BY <1>3, <3>2
    <3>4. x[1] = leaf /\ x[2] = s
      BY <3>2
    <3>5. Key(posMap[home[x]]) = <<Bottom(x[1]), x[2]>>
      BY <1>7, <3>3
    <3> QED BY <1>5, <3>1, <3>3, <3>4, <3>5
  <2> QED BY <1>5, <2>1, <2>2 DEF Agree
<1>11. MapsWell
  <2>1. DOMAIN stash = {}
    BY DEF Init
  <2>2. \A a \in DOMAIN posMap : /\ posMap[a].node_id \in Path[posMap[a].block_id]
                                 /\ posMap[a].offset \in z_arr[posMap[a].node_id]
    <3> SUFFICES ASSUME NEW a \in Addrs
                 PROVE  /\ posMap[a].node_id \in Path[posMap[a].block_id]
                        /\ posMap[a].offset \in z_arr[posMap[a].node_id]
      BY <1>5
    <3>1. posMap[a].node_id \in Path[posMap[a].block_id] /\ posMap[a].node_id \in Nodes
          /\ posMap[a].offset \in Slots
      BY <1>6, <1>7
    <3> QED BY <3>1 DEF Init
  <2> QED BY <1>5, <1>10, <2>1, <2>2 DEF MapsWell
<1>12. BucketsWell
  <2>1. /\ z_arr = [n \in Nodes |-> Slots] /\ s_arr = [n \in Nodes |-> S]
        /\ accessed_times = [n \in Nodes |-> 0]
    BY DEF Init
  <2>2. Cardinality(Slots) = Z /\ S \in Nat \ {0} /\ Z \in Nat
    BY Values, Sizes
  <2>3. 0 = (S - S) + (Z - Z) /\ 0 \in 0 .. S /\ S \in 0 .. S
    BY <2>2
  <2>4. \A n \in Nodes : accessed_times[n] = 0 /\ s_arr[n] = S /\ z_arr[n] = Slots
    BY <2>1
  <2>5. \A n \in Nodes : accessed_times[n] = (S - s_arr[n]) + (Z - Cardinality(z_arr[n]))
    BY <2>2, <2>3, <2>4
  <2>6. z_arr \in [Nodes -> SUBSET Slots] /\ s_arr \in [Nodes -> 0 .. S] /\ accessed_times \in [Nodes -> 0 .. S]
    BY <2>1, <2>3
  <2> QED BY <2>5, <2>6 DEF BucketsWell
<1>13. RenewalDue
  <2>1. /\ wb_block_id = <<>> /\ early_reshuffle_nodes = <<>> /\ ring_counter = 0 /\ rw_counter = 0
        /\ accessed_times = [n \in Nodes |-> 0]
    BY DEF Init
  <2>2. 0 \in Leaves /\ 0 \in 0 .. A - 1 /\ 0 <= EVCT_TIMES
    BY Leafs, Sizes
  <2>3. \A n \in Nodes : accessed_times[n] < S
    BY <2>1, Sizes
  <2> QED BY <2>1, <2>2, <2>3 DEF RenewalDue
<1>14. TaskWell
  BY DEF Init, TaskWell
<1> QED BY <1>11, <1>12, <1>13, <1>14 DEF IInv

-----------------------------------------------------------------------------
(***************************************************************************)
(* The steps of an access.                                                 *)
(***************************************************************************)
LEMMA ReadRoutineWell ==
  ASSUME IInv, NEW a \in Requests \cup {NoAddr}, NEW leaf \in Leaves, ReadRoutine(a, leaf)
  PROVE  IInv'
<1>1. /\ posMap' = posMap /\ addr_to_origaddr' = addr_to_origaddr /\ stash' = stash
      /\ z_arr' = z_arr /\ s_arr' = s_arr /\ accessed_times' = accessed_times
      /\ early_reshuffle_nodes' = early_reshuffle_nodes
      /\ task = NoTask /\ wb_block_id = <<>> /\ early_reshuffle_nodes = <<>>
  BY DEF ReadRoutine, mapVars, bucketVars, Idle
<1>2. MapsWell'
  BY <1>1 DEF IInv, MapsWell, Agree
<1>3. BucketsWell'
  BY <1>1 DEF IInv, BucketsWell
<1>4. \A n \in Nodes : accessed_times[n] < S
  BY <1>1 DEF IInv, RenewalDue
<1>5. a \in Addrs \cup {NoAddr}
  BY SetOramAssumption
<1>6. TaskWell'
  <2>1. task' = [original_address |-> a, block_id |-> leaf,
                 node_id |-> IF a \in DOMAIN posMap THEN posMap[a].node_id ELSE NoNode,
                 offset |-> IF a \in DOMAIN posMap THEN posMap[a].offset ELSE -1]
    BY DEF ReadRoutine
  <2>2. a \in DOMAIN posMap => leaf = posMap[a].block_id
    BY DEF ReadRoutine
  <2>3. task'.original_address = a /\ task'.block_id = leaf
    BY <2>1
  <2>4. IF a \in DOMAIN posMap THEN task'.node_id = posMap[a].node_id /\ task'.offset = posMap[a].offset
                               ELSE task'.node_id = NoNode
    BY <2>1
  <2> QED BY <1>1, <1>4, <1>5, <2>2, <2>3, <2>4 DEF TaskWell
<1>7. rw_counter' \in 0 .. A - 1
  <2>1. rw_counter + 1 \in Nat
    BY Sizes DEF IInv, RenewalDue
  <2>2. \A x \in Nat : x % A \in 0 .. A - 1
    BY Sizes
  <2> QED BY <2>1, <2>2 DEF ReadRoutine
<1>8. /\ ring_counter' \in Leaves
      /\ wb_block_id' \in Seq(Leaves) /\ Len(wb_block_id') <= EVCT_TIMES
  <2>1. ring_counter \in Leaves /\ NumLeaves \in Nat \ {0} /\ EVCT_TIMES \in Nat
    BY Leafs, Sizes DEF IInv, RenewalDue
  <2>2. \A x \in Nat : x % NumLeaves \in Leaves
    BY Leafs
  <2>3. CASE rw_counter' = 0
    <3>1. /\ wb_block_id' = [i \in 1 .. EVCT_TIMES |-> RingLeaf((ring_counter + i - 1) % NumLeaves)]
          /\ ring_counter' = (ring_counter + EVCT_TIMES) % NumLeaves
      BY <2>3 DEF ReadRoutine
    <3>2. ring_counter \in Nat
      BY <2>1, Leafs
    <3>3. \A i \in 1 .. EVCT_TIMES : RingLeaf((ring_counter + i - 1) % NumLeaves) \in Leaves
      <4> SUFFICES ASSUME NEW i \in 1 .. EVCT_TIMES
                   PROVE  RingLeaf((ring_counter + i - 1) % NumLeaves) \in Leaves
        OBVIOUS
      <4>1. ring_counter + i - 1 \in Nat
        BY <2>1, <3>2
      <4>2. PICK c : c = (ring_counter + i - 1) % NumLeaves
        OBVIOUS
      <4>3. c \in Leaves
        BY <2>2, <4>1, <4>2
      <4> QED BY <4>2, <4>3, RingLeafs
    <3>4. wb_block_id' \in [1 .. EVCT_TIMES -> Leaves]
      BY <3>1, <3>3
    <3>5. wb_block_id' \in Seq(Leaves) /\ Len(wb_block_id') = EVCT_TIMES
      BY <2>1, <3>4
    <3>6. ring_counter' \in Leaves
      <4>1. ring_counter + EVCT_TIMES \in Nat
        BY <2>1, <3>2
      <4>2. PICK x : x = ring_counter + EVCT_TIMES
        OBVIOUS
      <4> QED BY <2>2, <3>1, <4>1, <4>2
    <3> QED BY <2>1, <3>5, <3>6
  <2>4. CASE rw_counter' # 0
    <3>1. wb_block_id' = wb_block_id /\ ring_counter' = ring_counter
      BY <2>4 DEF ReadRoutine
    <3> QED BY <3>1 DEF IInv, RenewalDue
  <2> QED BY <2>3, <2>4
<1>9. RenewalDue'
  <2>1. early_reshuffle_nodes' \in Seq(Nodes) /\ \A n \in Nodes : accessed_times'[n] < S
    BY <1>1, <1>4 DEF IInv, RenewalDue
  <2> QED BY <1>7, <1>8, <2>1 DEF RenewalDue
<1> QED BY <1>2, <1>3, <1>6, <1>9 DEF IInv

\* The slots taken from the buckets of a path.
LEMMA PullBuckets ==
  ASSUME IInv, NEW leaf \in RandLeaves, ReadPull(leaf)
  PROVE  /\ BucketsWell' /\ task.block_id \in Leaves
         /\ \A n \in Nodes : IF n \in Path[task.block_id]
                               THEN accessed_times'[n] = accessed_times[n] + 1
                               ELSE accessed_times'[n] = accessed_times[n]
         /\ \A n \in Nodes : IF n = task.node_id THEN z_arr'[n] = z_arr[n] \ {task.offset}
                                                 ELSE z_arr'[n] = z_arr[n]
<1> DEFINE N == Path[task.block_id]
<1>1. /\ task # NoTask /\ task.block_id \in Leaves /\ \A n \in Nodes : accessed_times[n] < S
      /\ task.node_id \in Nodes => /\ task.original_address \in DOMAIN posMap
                                   /\ task.block_id = posMap[task.original_address].block_id
                                   /\ task.node_id = posMap[task.original_address].node_id
                                   /\ task.offset = posMap[task.original_address].offset
  <2>1. task # NoTask /\ TaskWell
    BY DEF ReadPull, IInv
  <2>2. NoNode \notin Nodes
    BY Values
  <2> QED BY <2>1, <2>2 DEF TaskWell
<1>2. N \subseteq Nodes
  BY <1>1, PathNodes
<1>3. task.node_id \in Nodes => task.node_id \in N /\ task.offset \in z_arr[task.node_id]
  BY <1>1 DEF IInv, MapsWell
<1>4. \A n \in Nodes :
        /\ z_arr'[n] = IF n \in N /\ n = task.node_id THEN z_arr[n] \ {task.offset} ELSE z_arr[n]
        /\ s_arr'[n] = IF n \in N /\ n # task.node_id THEN s_arr[n] - 1 ELSE s_arr[n]
        /\ accessed_times'[n] = IF n \in N THEN accessed_times[n] + 1 ELSE accessed_times[n]
  BY DEF ReadPull
<1>5. /\ z_arr \in [Nodes -> SUBSET Slots] /\ s_arr \in [Nodes -> 0 .. S]
      /\ accessed_times \in [Nodes -> 0 .. S]
      /\ \A n \in Nodes : accessed_times[n] = (S - s_arr[n]) + (Z - Cardinality(z_arr[n]))
  BY DEF IInv, BucketsWell
<1>6. \A n \in Nodes : IsFiniteSet(z_arr[n]) /\ Cardinality(z_arr[n]) \in Nat /\ Cardinality(z_arr[n]) <= Z
  <2>1. \A n \in Nodes : z_arr[n] \in SUBSET Slots
    BY <1>5
  <2> QED BY <2>1, Values, FS_Subset, FS_CardinalityType
<1>7. DOMAIN z_arr' = Nodes /\ DOMAIN s_arr' = Nodes /\ DOMAIN accessed_times' = Nodes
      /\ z_arr' = [n \in Nodes |-> z_arr'[n]] /\ s_arr' = [n \in Nodes |-> s_arr'[n]]
      /\ accessed_times' = [n \in Nodes |-> accessed_times'[n]]
  BY DEF ReadPull
<1> HIDE DEF N
<1>8. ASSUME NEW n \in Nodes
      PROVE  /\ z_arr'[n] \in SUBSET Slots /\ s_arr'[n] \in 0 .. S /\ accessed_times'[n] \in 0 .. S
             /\ accessed_times'[n] = (S - s_arr'[n]) + (Z - Cardinality(z_arr'[n]))
  <2>1. /\ z_arr[n] \in SUBSET Slots /\ s_arr[n] \in 0 .. S /\ accessed_times[n] \in 0 .. S
        /\ accessed_times[n] < S /\ S \in Nat /\ Z \in Nat
        /\ accessed_times[n] = (S - s_arr[n]) + (Z - Cardinality(z_arr[n]))
        /\ Cardinality(z_arr[n]) \in Nat /\ Cardinality(z_arr[n]) <= Z
    BY <1>1, <1>5, <1>6, Sizes
  <2>2. CASE n \notin N
    BY <1>4, <2>1, <2>2
  <2>3. CASE n \in N /\ n # task.node_id
    <3>1. z_arr'[n] = z_arr[n] /\ s_arr'[n] = s_arr[n] - 1 /\ accessed_times'[n] = accessed_times[n] + 1
      BY <1>4, <2>3
    <3> QED BY <2>1, <3>1
  <2>4. CASE n \in N /\ n = task.node_id
    <3>1. z_arr'[n] = z_arr[n] \ {task.offset} /\ s_arr'[n] = s_arr[n] /\ accessed_times'[n] = accessed_times[n] + 1
      BY <1>4, <2>4
    <3>2. task.offset \in z_arr[n]
      BY <1>3, <2>4
    <3>3. Cardinality(z_arr'[n]) = Cardinality(z_arr[n]) - 1
      BY <1>6, <3>1, <3>2, FS_RemoveElement
    <3>4. z_arr'[n] \in SUBSET Slots
      BY <2>1, <3>1
    <3> QED BY <2>1, <3>1, <3>3, <3>4
  <2> QED BY <2>2, <2>3, <2>4
<1>9. BucketsWell'
  <2>1. z_arr' \in [Nodes -> SUBSET Slots]
    BY <1>7, <1>8
  <2>2. s_arr' \in [Nodes -> 0 .. S]
    BY <1>7, <1>8
  <2>3. accessed_times' \in [Nodes -> 0 .. S]
    BY <1>7, <1>8
  <2> QED BY <1>8, <2>1, <2>2, <2>3 DEF BucketsWell
<1> QED BY <1>1, <1>3, <1>4, <1>9 DEF N

\* The block leaves its slot for the stash.
LEMMA PullMaps ==
  ASSUME IInv, NEW leaf \in RandLeaves, ReadPull(leaf)
  PROVE  /\ MapsWell'
         /\ DOMAIN posMap' = DOMAIN posMap \ {task.original_address}
         /\ \A a \in DOMAIN posMap' : posMap'[a] = posMap[a]
         /\ \A a \in DOMAIN stash' : stash'[a] = IF a = task.original_address THEN leaf ELSE stash[a]
<1> DEFINE a == task.original_address
           k == <<task.node_id, task.offset>>
<1>1. /\ MapsWell /\ Agree(posMap, addr_to_origaddr) /\ task # NoTask /\ TaskWell
      /\ DOMAIN stash = Addrs \ DOMAIN posMap /\ DOMAIN posMap \subseteq Addrs
      /\ \A b \in DOMAIN stash : stash[b] \in Leaves
  BY DEF ReadPull, IInv, MapsWell, Agree
<1>2. a \in Addrs \cup {NoAddr} /\ leaf \in Leaves /\ NoAddr \notin Addrs
  BY <1>1, SetOramAssumption, Values DEF TaskWell
<1>3. /\ DOMAIN addr_to_origaddr' = DOMAIN addr_to_origaddr \ {k}
      /\ \A x \in DOMAIN addr_to_origaddr' : addr_to_origaddr'[x] = addr_to_origaddr[x]
  BY DEF ReadPull, Restrict
<1>4. IF a = NoAddr THEN stash' = stash
      ELSE stash' = [x \in {a} \cup DOMAIN stash |-> IF x \in {a} THEN leaf ELSE stash[x]]
  BY DEF ReadPull, Over
<1>5. ASSUME a \in DOMAIN posMap
      PROVE  /\ k = Key(posMap[a]) /\ k \in DOMAIN addr_to_origaddr
             /\ DOMAIN posMap' = DOMAIN posMap \ {a} /\ \A b \in DOMAIN posMap' : posMap'[b] = posMap[b]
  <2>1. k = Key(posMap[a]) /\ k \in DOMAIN addr_to_origaddr
    BY <1>1, <1>5 DEF TaskWell, Key, Agree
  <2>2. posMap' = Restrict(posMap, DOMAIN posMap \ {a})
    BY <2>1 DEF ReadPull
  <2> QED BY <2>1, <2>2 DEF Restrict
<1>6. ASSUME a \notin DOMAIN posMap
      PROVE  k \notin DOMAIN addr_to_origaddr /\ posMap' = posMap
  <2>1. task.node_id = NoNode
    BY <1>1, <1>6 DEF TaskWell
  <2>2. \A x \in DOMAIN addr_to_origaddr : x \in Nodes \X Slots
    BY <1>1, SlotFacts
  <2>3. k \notin Nodes \X Slots
    BY <2>1, Values
  <2>4. k \notin DOMAIN addr_to_origaddr
    BY <2>2, <2>3
  <2> QED BY <2>4 DEF ReadPull
<1> HIDE DEF a, k
<1>7. DOMAIN posMap' = DOMAIN posMap \ {a} /\ \A b \in DOMAIN posMap' : posMap'[b] = posMap[b]
  BY <1>5, <1>6
<1>8. \A b \in DOMAIN posMap \ {a} : Key(posMap[b]) # k
  <2> SUFFICES ASSUME NEW b \in DOMAIN posMap \ {a}, Key(posMap[b]) = k PROVE FALSE
    OBVIOUS
  <2>1. Key(posMap[b]) \in DOMAIN addr_to_origaddr
    BY <1>1 DEF Agree
  <2>2. a \in DOMAIN posMap /\ Key(posMap[a]) = k
    BY <1>5, <1>6, <2>1
  <2>3. \A x, y \in DOMAIN posMap : Key(posMap[x]) = Key(posMap[y]) => x = y
    BY <1>1, KeysDiffer
  <2> QED BY <2>2, <2>3
<1>9. Agree(posMap', addr_to_origaddr')
  <2>1. ASSUME NEW b \in DOMAIN posMap'
        PROVE  /\ posMap'[b] \in Line /\ Key(posMap'[b]) \in DOMAIN addr_to_origaddr'
               /\ addr_to_origaddr'[Key(posMap'[b])] = [original_address |-> b, block_id |-> posMap'[b].block_id]
    <3>1. b \in DOMAIN posMap \ {a} /\ posMap'[b] = posMap[b]
      BY <1>7
    <3>2. /\ posMap[b] \in Line /\ Key(posMap[b]) \in DOMAIN addr_to_origaddr
          /\ addr_to_origaddr[Key(posMap[b])] = [original_address |-> b, block_id |-> posMap[b].block_id]
      BY <1>1, <3>1 DEF Agree
    <3> QED BY <1>3, <1>8, <3>1, <3>2
  <2>2. ASSUME NEW x \in DOMAIN addr_to_origaddr' PROVE \E b \in DOMAIN posMap' : Key(posMap'[b]) = x
    <3>1. x \in DOMAIN addr_to_origaddr /\ x # k
      BY <1>3
    <3>2. PICK b \in DOMAIN posMap : Key(posMap[b]) = x
      BY <1>1, <3>1 DEF Agree
    <3>3. b # a
      BY <1>5, <3>1, <3>2
    <3> QED BY <1>7, <3>2, <3>3
  <2> QED BY <1>1, <1>7, <2>1, <2>2 DEF Agree
<1>10. /\ DOMAIN stash' = Addrs \ DOMAIN posMap' /\ \A b \in DOMAIN stash' : stash'[b] \in Leaves
       /\ \A b \in DOMAIN stash' : stash'[b] = IF b = a THEN leaf ELSE stash[b]
  <2>1. CASE a = NoAddr
    <3>1. stash' = stash /\ DOMAIN posMap' = DOMAIN posMap /\ a \notin DOMAIN stash
      BY <1>1, <1>2, <1>4, <1>7, <2>1
    <3> QED BY <1>1, <3>1
  <2>2. CASE a # NoAddr
    <3>1. DOMAIN stash' = {a} \cup DOMAIN stash /\ \A b \in DOMAIN stash' : stash'[b] = IF b = a THEN leaf ELSE stash[b]
      BY <1>4, <2>2
    <3>2. a \in Addrs
      BY <1>2, <2>2
    <3> QED BY <1>1, <1>2, <1>7, <3>1, <3>2
  <2> QED BY <2>1, <2>2
<1>11. ASSUME NEW b \in DOMAIN posMap'
       PROVE  /\ posMap'[b].node_id \in Path[posMap'[b].block_id]
              /\ posMap'[b].offset \in z_arr'[posMap'[b].node_id]
  <2>1. b \in DOMAIN posMap \ {a} /\ posMap'[b] = posMap[b] /\ posMap[b] \in Line
    BY <1>1, <1>7 DEF Agree
  <2>2. /\ posMap[b].node_id \in Path[posMap[b].block_id] /\ posMap[b].offset \in z_arr[posMap[b].node_id]
        /\ posMap[b].node_id \in Nodes
    BY <1>1, <2>1, LineFields DEF MapsWell
  <2>3. posMap[b].node_id = task.node_id => posMap[b].offset # task.offset
    BY <1>8, <2>1 DEF Key, k
  <2>4. posMap[b].offset \in z_arr'[posMap[b].node_id]
    BY <2>2, <2>3, PullBuckets
  <2> QED BY <2>1, <2>2, <2>4
<1>12. MapsWell'
  BY <1>9, <1>10, <1>11 DEF MapsWell
<1> QED BY <1>7, <1>10, <1>12 DEF a

LEMMA ReadPullWell ==
  ASSUME IInv, NEW leaf \in RandLeaves, ReadPull(leaf)
  PROVE  IInv'
<1>1. MapsWell'
  BY PullMaps
<1>2. BucketsWell' /\ task.block_id \in Leaves
      /\ \A n \in Nodes : IF n \in Path[task.block_id]
                            THEN accessed_times'[n] = accessed_times[n] + 1
                            ELSE accessed_times'[n] = accessed_times[n]
  BY PullBuckets
<1>3. TaskWell'
  BY DEF ReadPull, TaskWell
<1>4. task # NoTask /\ \A n \in Nodes : accessed_times[n] < S /\ accessed_times[n] \in Int
  BY Sizes DEF ReadPull, IInv, TaskWell, BucketsWell
<1>5. wb_block_id \in Seq(Leaves) /\ Len(wb_block_id) <= EVCT_TIMES
      /\ wb_block_id' = wb_block_id /\ ring_counter' = ring_counter /\ rw_counter' = rw_counter
      /\ early_reshuffle_nodes' = ToReshuffle(task.block_id)
  BY DEF ReadPull, IInv, RenewalDue
<1>6. PICK b : b = task.block_id
  OBVIOUS
<1>7. b \in Leaves
  BY <1>2, <1>6
<1>8. /\ early_reshuffle_nodes' \in Seq(Nodes)
      /\ \A n \in Path[b] : Due(n) =>
           \E i \in 1 .. Len(early_reshuffle_nodes') : early_reshuffle_nodes'[i] = n
  <2>1. early_reshuffle_nodes' = ToReshuffle(b)
    BY <1>5, <1>6
  <2> QED BY <1>7, <2>1, ReshuffleWell
<1>9. ASSUME NEW n \in Nodes
      PROVE  \/ accessed_times'[n] < S
             \/ \E i \in 1 .. Len(early_reshuffle_nodes') : early_reshuffle_nodes'[i] = n
             \/ \E i \in 1 .. Len(wb_block_id') : n \in Path[wb_block_id'[i]]
  <2>1. CASE n \notin Path[b]
    BY <1>2, <1>4, <1>6, <2>1
  <2>2. CASE n \in Path[b] /\ ~Exhausted(n)
    <3>1. accessed_times'[n] = accessed_times[n] + 1 /\ accessed_times[n] + 1 # S
      BY <1>2, <1>6, <2>2 DEF Exhausted
    <3>2. accessed_times'[n] < S
      BY <1>4, <3>1, Sizes
    <3> QED BY <3>2
  <2>3. CASE n \in Path[b] /\ Due(n)
    BY <1>8, <2>3
  <2>4. CASE Masked(n)
    <3>1. PICK i \in 1 .. Len(wb_block_id) : P(wb_block_id[i], i - 1) = n
      BY <2>4 DEF Masked
    <3>2. wb_block_id[i] \in Leaves /\ i - 1 \in Lvls
      <4>1. i \in Nat /\ 1 <= i /\ i <= EVCT_TIMES /\ Len(wb_block_id) \in Nat
        BY <1>5, Sizes
      <4>2. i - 1 \in 0 .. Levels - 1 /\ i - 1 < CUT_LVL
        BY <4>1, Sizes
      <4> QED BY <1>5, <4>2 DEF Lvls
    <3>3. n \in Path[wb_block_id[i]]
      BY <3>1, <3>2, PathNodes
    <3> QED BY <1>5, <3>3
  <2> QED BY <2>1, <2>2, <2>3, <2>4 DEF Due
<1>10. ring_counter' \in Leaves /\ rw_counter' \in 0 .. A - 1
  BY <1>5 DEF IInv, RenewalDue
<1>11. RenewalDue'
  BY <1>5, <1>8, <1>9, <1>10 DEF RenewalDue
<1> QED BY <1>1, <1>2, <1>3, <1>11 DEF IInv

\* What a write-back puts into the buckets of a path.
LEMMA WritebackGuests ==
  ASSUME MapsWell, NEW leaf \in Leaves, NEW st, st = StashWith(Path[leaf]),
         NEW fits, fits = [a \in DOMAIN st |-> Fits(leaf, st[a])],
         NEW new, new = [a \in DOMAIN Refill(fits) |-> Moved(leaf, st[a], Refill(fits)[a])]
  PROVE  /\ Guests(Path[leaf], fits, new)
         /\ DOMAIN Refill(fits) \subseteq DOMAIN st /\ DOMAIN st \subseteq Addrs
         /\ \A a \in DOMAIN st : st[a] \in Leaves
         /\ \A a \in DOMAIN Refill(fits) :
              Group(new[a]) = Group(st[a]) /\ Position(new[a]) = Position(st[a])
<1> DEFINE N == Path[leaf]
<1>1. /\ DOMAIN st = Pulled(N) \cup DOMAIN stash /\ Pulled(N) \subseteq DOMAIN posMap
      /\ \A a \in Pulled(N) : st[a] = posMap[a].block_id
      /\ \A a \in DOMAIN stash \ Pulled(N) : st[a] = stash[a]
  BY PulledFields DEF MapsWell
<1>2. DOMAIN posMap \subseteq Addrs /\ \A a \in DOMAIN posMap : posMap[a].block_id \in Leaves
  BY LineFields DEF MapsWell, Agree
<1> HIDE DEF N
<1>3. DOMAIN st \subseteq Addrs /\ \A a \in DOMAIN st : st[a] \in Leaves
  BY <1>1, <1>2 DEF MapsWell
<1>4. \A a \in DOMAIN st : \A n \in fits[a] :
        /\ n \in N
        /\ Moved(leaf, st[a], n) \in Leaves /\ n \in Path[Moved(leaf, st[a], n)]
        /\ Group(Moved(leaf, st[a], n)) = Group(st[a])
        /\ Position(Moved(leaf, st[a], n)) = Position(st[a])
  <2> SUFFICES ASSUME NEW a \in DOMAIN st, NEW n \in Fits(leaf, st[a])
               PROVE  /\ n \in N
                      /\ Moved(leaf, st[a], n) \in Leaves /\ n \in Path[Moved(leaf, st[a], n)]
                      /\ Group(Moved(leaf, st[a], n)) = Group(st[a])
                      /\ Position(Moved(leaf, st[a], n)) = Position(st[a])
    OBVIOUS
  <2>1. PICK other : other = st[a]
    OBVIOUS
  <2>2. other \in Leaves /\ n \in Fits(leaf, other)
    BY <1>3, <2>1
  <2> QED BY <2>1, <2>2, GuestWell DEF N
<1>5. DOMAIN fits = DOMAIN st
  OBVIOUS
<1>6. Usable(fits)
  BY <1>3, <1>4, <1>5, PathNodes DEF Usable, N
<1>7. DOMAIN Refill(fits) \subseteq DOMAIN st /\ \A a \in DOMAIN Refill(fits) : Refill(fits)[a] \in fits[a]
  BY <1>5, <1>6, RefillWell
<1>8. \A a \in DOMAIN Refill(fits) :
        /\ new[a] \in Leaves /\ Refill(fits)[a] \in Path[new[a]]
        /\ Group(new[a]) = Group(st[a]) /\ Position(new[a]) = Position(st[a])
  <2> SUFFICES ASSUME NEW a \in DOMAIN Refill(fits)
               PROVE  /\ new[a] \in Leaves /\ Refill(fits)[a] \in Path[new[a]]
                      /\ Group(new[a]) = Group(st[a]) /\ Position(new[a]) = Position(st[a])
    OBVIOUS
  <2>1. PICK n : n = Refill(fits)[a]
    OBVIOUS
  <2>2. a \in DOMAIN st /\ n \in fits[a] /\ new[a] = Moved(leaf, st[a], n)
    BY <1>7, <2>1
  <2> QED BY <1>4, <2>1, <2>2
<1>9. Guests(N, fits, new)
  BY <1>4, <1>5, <1>8 DEF Guests, N
<1> QED BY <1>3, <1>7, <1>8, <1>9 DEF N

\* A write-back, in terms of what it refills.
LEMMA WritebackRefills ==
  ASSUME IInv, Writeback
  PROVE  \E leaf, st, fits, new :
           /\ leaf \in Leaves
           /\ leaf = Head(wb_block_id) /\ wb_block_id # <<>> /\ st = StashWith(Path[leaf])
           /\ fits = [a \in DOMAIN st |-> Fits(leaf, st[a])]
           /\ new = [a \in DOMAIN Refill(fits) |-> Moved(leaf, st[a], Refill(fits)[a])]
           /\ Guests(Path[leaf], fits, new) /\ Refilled(Path[leaf], fits, new)
           /\ DOMAIN Refill(fits) \subseteq DOMAIN st /\ DOMAIN st \subseteq Addrs
           /\ \A a \in DOMAIN st : st[a] \in Leaves
           /\ \A a \in DOMAIN Refill(fits) :
                Group(new[a]) = Group(st[a]) /\ Position(new[a]) = Position(st[a])
           /\ MapsWell' /\ BucketsWell'
<1>1. PICK leaf : leaf = Head(wb_block_id)
  OBVIOUS
<1>2. wb_block_id # <<>> /\ wb_block_id \in Seq(Leaves)
  BY DEF Writeback, IInv, RenewalDue
<1>3. leaf \in Leaves
  BY <1>1, <1>2
<1>4. PICK st : st = StashWith(Path[leaf])
  OBVIOUS
<1>5. PICK fits : fits = [a \in DOMAIN st |-> Fits(leaf, st[a])]
  OBVIOUS
<1>6. PICK new : new = [a \in DOMAIN Refill(fits) |-> Moved(leaf, st[a], Refill(fits)[a])]
  OBVIOUS
<1>7. Rewrite(Path[leaf], st, Lines(Refill(fits), new)) /\ Renew(Path[leaf])
  BY <1>1, <1>4, <1>5, <1>6 DEF Writeback
<1>8. MapsWell /\ BucketsWell
  BY DEF IInv
<1>9. /\ Guests(Path[leaf], fits, new)
      /\ DOMAIN Refill(fits) \subseteq DOMAIN st /\ DOMAIN st \subseteq Addrs
      /\ \A a \in DOMAIN st : st[a] \in Leaves
      /\ \A a \in DOMAIN Refill(fits) :
           Group(new[a]) = Group(st[a]) /\ Position(new[a]) = Position(st[a])
  BY <1>3, <1>4, <1>5, <1>6, <1>8, WritebackGuests
<1>10. PICK N : N = Path[leaf]
  OBVIOUS
<1>11. N \in SUBSET Nodes /\ Guests(N, fits, new) /\ Renew(N) /\ Rewrite(N, StashWith(N), Lines(Refill(fits), new))
  BY <1>3, <1>4, <1>7, <1>9, <1>10, PathNodes
<1>12. MapsWell' /\ BucketsWell' /\ Refilled(N, fits, new)
  BY <1>8, <1>11, RefillStep
<1> QED BY <1>1, <1>2, <1>3, <1>4, <1>5, <1>6, <1>9, <1>10, <1>12

LEMMA WritebackWell ==
  ASSUME IInv, Writeback
  PROVE  IInv'
<1>1. PICK leaf, st, fits, new :
        /\ leaf \in Leaves
        /\ leaf = Head(wb_block_id) /\ wb_block_id # <<>>
        /\ Refilled(Path[leaf], fits, new) /\ MapsWell' /\ BucketsWell'
  BY WritebackRefills
<1>2. /\ task' = task /\ task = NoTask /\ ring_counter' = ring_counter /\ rw_counter' = rw_counter
      /\ early_reshuffle_nodes' = early_reshuffle_nodes /\ wb_block_id' = Tail(wb_block_id)
  BY DEF Writeback
<1>3. TaskWell'
  BY <1>2 DEF TaskWell
<1>4. \A n \in Nodes : IF n \in Path[leaf] THEN accessed_times'[n] = 0
                                           ELSE accessed_times'[n] = accessed_times[n]
  BY <1>1 DEF Refilled
<1>5. RenewalDue
  BY DEF IInv
<1>6. /\ wb_block_id \in Seq(Leaves) /\ Len(wb_block_id) \in Nat \ {0} /\ leaf = wb_block_id[1]
      /\ wb_block_id' \in Seq(Leaves) /\ Len(wb_block_id') = Len(wb_block_id) - 1
      /\ \A i \in 1 .. Len(wb_block_id') : wb_block_id'[i] = wb_block_id[i + 1]
  BY <1>1, <1>2, <1>5 DEF RenewalDue
<1>7. ASSUME NEW n \in Nodes
      PROVE  \/ accessed_times'[n] < S
             \/ \E i \in 1 .. Len(early_reshuffle_nodes') : early_reshuffle_nodes'[i] = n
             \/ \E i \in 1 .. Len(wb_block_id') : n \in Path[wb_block_id'[i]]
  <2>1. CASE n \in Path[leaf]
    BY <1>4, <2>1, Sizes
  <2>2. CASE n \notin Path[leaf]
    <3>1. accessed_times'[n] = accessed_times[n]
      BY <1>4, <2>2
    <3>2. CASE \E i \in 1 .. Len(wb_block_id) : n \in Path[wb_block_id[i]]
      <4>1. PICK i \in 1 .. Len(wb_block_id) : n \in Path[wb_block_id[i]]
        BY <3>2
      <4>2. i # 1
        BY <1>6, <2>2, <4>1
      <4>3. i - 1 \in 1 .. Len(wb_block_id') /\ (i - 1) + 1 = i
        BY <1>6, <4>2
      <4>4. wb_block_id'[i - 1] = wb_block_id[i]
        BY <1>6, <4>3
      <4> QED BY <4>1, <4>3, <4>4
    <3> QED BY <1>2, <1>5, <3>1, <3>2 DEF RenewalDue
  <2> QED BY <2>1, <2>2
<1>8. Len(wb_block_id') <= EVCT_TIMES
  <2>1. Len(wb_block_id) <= EVCT_TIMES
    BY <1>5 DEF RenewalDue
  <2> QED BY <1>6, <2>1, Sizes
<1>9. RenewalDue'
  BY <1>2, <1>5, <1>6, <1>7, <1>8 DEF RenewalDue
<1> QED BY <1>1, <1>3, <1>9 DEF IInv

\* A reshuffle, in terms of what it refills.
LEMMA ReshuffleRefills ==
  ASSUME IInv, EarlyReshuffle
  PROVE  \E n, st, fits :
           /\ n \in Nodes
           /\ n = Head(early_reshuffle_nodes) /\ early_reshuffle_nodes # <<>> /\ st = StashWith({n})
           /\ Refilled({n}, fits, st)
           /\ DOMAIN Refill(fits) \subseteq DOMAIN st /\ DOMAIN st \subseteq Addrs
           /\ MapsWell' /\ BucketsWell'
<1>1. PICK n : n = Head(early_reshuffle_nodes)
  OBVIOUS
<1>2. early_reshuffle_nodes # <<>> /\ early_reshuffle_nodes \in Seq(Nodes)
  BY DEF EarlyReshuffle, IInv, RenewalDue
<1>3. n \in Nodes
  BY <1>1, <1>2
<1>4. PICK st : st = StashWith({n})
  OBVIOUS
<1>5. PICK fits : fits = [a \in DOMAIN st |-> Path[st[a]] \cap {n}]
  OBVIOUS
<1>6. Rewrite({n}, st, Lines(Refill(fits), st)) /\ Renew({n})
  BY <1>1, <1>4, <1>5 DEF EarlyReshuffle
<1>7. MapsWell /\ BucketsWell
  BY DEF IInv
<1>8. DOMAIN st \subseteq Addrs /\ \A a \in DOMAIN st : st[a] \in Leaves
  <2>1. /\ DOMAIN st = Pulled({n}) \cup DOMAIN stash /\ Pulled({n}) \subseteq DOMAIN posMap
        /\ \A a \in Pulled({n}) : st[a] = posMap[a].block_id
        /\ \A a \in DOMAIN stash \ Pulled({n}) : st[a] = stash[a]
    BY <1>4, <1>7, PulledFields DEF MapsWell
  <2>2. DOMAIN posMap \subseteq Addrs /\ \A a \in DOMAIN posMap : posMap[a].block_id \in Leaves
    BY <1>7, LineFields DEF MapsWell, Agree
  <2> QED BY <1>7, <2>1, <2>2 DEF MapsWell
<1>9. Usable(fits)
  BY <1>3, <1>5, <1>8 DEF Usable
<1>10. /\ DOMAIN fits = DOMAIN st /\ \A a \in DOMAIN fits : fits[a] \subseteq {n} /\ fits[a] \subseteq Path[st[a]]
  BY <1>5
<1>11. DOMAIN Refill(fits) \subseteq DOMAIN st /\ \A a \in DOMAIN Refill(fits) : Refill(fits)[a] \in fits[a]
  BY <1>9, <1>10, RefillWell
<1>12. PICK N : N = {n}
  OBVIOUS
<1>13. Guests(N, fits, st)
  BY <1>4, <1>8, <1>10, <1>11, <1>12 DEF Guests
<1>14. N \in SUBSET Nodes /\ Renew(N) /\ Rewrite(N, StashWith(N), Lines(Refill(fits), st))
  BY <1>3, <1>4, <1>6, <1>12
<1>15. MapsWell' /\ BucketsWell' /\ Refilled(N, fits, st)
  BY <1>7, <1>13, <1>14, RefillStep
<1> QED BY <1>1, <1>2, <1>3, <1>4, <1>8, <1>11, <1>12, <1>15

LEMMA EarlyReshuffleWell ==
  ASSUME IInv, EarlyReshuffle
  PROVE  IInv'
<1>1. PICK m, st, fits :
        /\ m \in Nodes
        /\ m = Head(early_reshuffle_nodes) /\ early_reshuffle_nodes # <<>>
        /\ Refilled({m}, fits, st) /\ MapsWell' /\ BucketsWell'
  BY ReshuffleRefills
<1>2. /\ task' = task /\ task = NoTask /\ ring_counter' = ring_counter /\ rw_counter' = rw_counter
      /\ wb_block_id' = wb_block_id /\ early_reshuffle_nodes' = Tail(early_reshuffle_nodes)
  BY DEF EarlyReshuffle
<1>3. TaskWell'
  BY <1>2 DEF TaskWell
<1>4. \A n \in Nodes : IF n \in {m} THEN accessed_times'[n] = 0
                                    ELSE accessed_times'[n] = accessed_times[n]
  BY <1>1 DEF Refilled
<1>5. RenewalDue
  BY DEF IInv
<1> DEFINE early == early_reshuffle_nodes
<1>6. /\ early \in Seq(Nodes) /\ Len(early) \in Nat \ {0} /\ m = early[1]
      /\ early' \in Seq(Nodes) /\ Len(early') = Len(early) - 1
      /\ \A i \in 1 .. Len(early') : early'[i] = early[i + 1]
  BY <1>1, <1>2, <1>5 DEF RenewalDue
<1>7. ASSUME NEW n \in Nodes
      PROVE  \/ accessed_times'[n] < S
             \/ \E i \in 1 .. Len(early') : early'[i] = n
             \/ \E i \in 1 .. Len(wb_block_id') : n \in Path[wb_block_id'[i]]
  <2>1. CASE n = m
    BY <1>4, <2>1, Sizes
  <2>2. CASE n # m
    <3>1. accessed_times'[n] = accessed_times[n]
      BY <1>4, <2>2
    <3>2. CASE \E i \in 1 .. Len(early) : early[i] = n
      <4>1. PICK i \in 1 .. Len(early) : early[i] = n
        BY <3>2
      <4>2. i # 1
        BY <1>6, <2>2, <4>1
      <4>3. i - 1 \in 1 .. Len(early') /\ (i - 1) + 1 = i
        BY <1>6, <4>2
      <4>4. early'[i - 1] = early[i]
        BY <1>6, <4>3
      <4> QED BY <4>1, <4>3, <4>4
    <3> QED BY <1>2, <1>5, <3>1, <3>2 DEF RenewalDue
  <2> QED BY <2>1, <2>2
<1>9. RenewalDue'
  BY <1>2, <1>5, <1>6, <1>7 DEF RenewalDue
<1> QED BY <1>1, <1>3, <1>9 DEF IInv

-----------------------------------------------------------------------------
(***************************************************************************)
(* The theorems.                                                           *)
(***************************************************************************)
LEMMA StepWell ==
  ASSUME IInv, [Next]_vars
  PROVE  IInv'
<1>1. CASE UNCHANGED vars
  BY <1>1 DEF vars, mapVars, bucketVars, IInv, MapsWell, Agree, BucketsWell, TaskWell, RenewalDue
<1>2. ASSUME NEW a \in Requests \cup {NoAddr}, NEW leaf \in Leaves, ReadRoutine(a, leaf)
      PROVE  IInv'
  BY <1>2, ReadRoutineWell
<1>3. ASSUME NEW leaf \in RandLeaves, ReadPull(leaf) PROVE IInv'
  BY <1>3, ReadPullWell
<1>4. CASE Writeback
  BY <1>4, WritebackWell
<1>5. CASE EarlyReshuffle
  BY <1>5, EarlyReshuffleWell
<1> QED BY <1>1, <1>2, <1>3, <1>4, <1>5 DEF Next

\* The invariant holds in every reachable state.
THEOREM StashInvariance == Spec => []IInv
<1> QED BY InitWell, StepWell, PTL DEF Spec

LEMMA InItsPlace == IInv => EachInItsPlace
<1> SUFFICES ASSUME IInv PROVE EachInItsPlace
  OBVIOUS
<1>1. MapsWell /\ BucketsWell /\ TaskWell /\ RenewalDue /\ Agree(posMap, addr_to_origaddr)
  BY DEF IInv, MapsWell
<1>2. \A a \in DOMAIN posMap :
        /\ posMap[a] \in Line /\ Key(posMap[a]) \in DOMAIN addr_to_origaddr
        /\ addr_to_origaddr[Key(posMap[a])] = [original_address |-> a, block_id |-> posMap[a].block_id]
  BY <1>1 DEF Agree
<1>3. DOMAIN posMap \subseteq Addrs /\ DOMAIN stash = Addrs \ DOMAIN posMap
      /\ \A a \in DOMAIN stash : stash[a] \in Leaves
  BY <1>1 DEF Agree, MapsWell
<1>4. \A k \in DOMAIN addr_to_origaddr :
        k \in Nodes \X Slots /\ addr_to_origaddr[k] \in [original_address : Addrs, block_id : Leaves]
  <2> SUFFICES ASSUME NEW k \in DOMAIN addr_to_origaddr
               PROVE  k \in Nodes \X Slots
                      /\ addr_to_origaddr[k] \in [original_address : Addrs, block_id : Leaves]
    OBVIOUS
  <2>1. /\ k \in Nodes \X Slots /\ addr_to_origaddr[k].original_address \in DOMAIN posMap
        /\ addr_to_origaddr[k] = [original_address |-> addr_to_origaddr[k].original_address,
                                  block_id |-> posMap[addr_to_origaddr[k].original_address].block_id]
    BY <1>1, SlotFacts
  <2>2. PICK a, l : a = addr_to_origaddr[k].original_address /\ l = posMap[a].block_id
    OBVIOUS
  <2>3. a \in Addrs /\ l \in Leaves /\ addr_to_origaddr[k] = [original_address |-> a, block_id |-> l]
    BY <1>2, <1>3, <2>1, <2>2, LineFields
  <2> QED BY <2>1, <2>3
<1>5. TypeOK
  BY <1>1, <1>2, <1>3, <1>4 DEF TypeOK, BucketsWell, TaskWell, RenewalDue
<1>6. NothingLost
  <2>1. Cardinality(DOMAIN addr_to_origaddr) = Cardinality(DOMAIN posMap)
    BY <1>1, AsManySlots
  <2> QED BY <1>2, <1>3, <2>1 DEF NothingLost, Key
<1>7. OnOwnPath
  BY <1>1 DEF OnOwnPath, MapsWell
<1>8. BucketsServeReads
  <2>1. Idle => \A n \in Nodes : accessed_times[n] < S
    BY <1>1 DEF Idle, RenewalDue
  <2> QED BY <1>1, <2>1 DEF BucketsServeReads, MapsWell, BucketsWell
<1> QED BY <1>5, <1>6, <1>7, <1>8 DEF EachInItsPlace

\* No block is lost or doubled, each is on the path of its leaf in a slot that was
\* not read, and every bucket can serve the next access.
THEOREM BlocksInTheirPlace == Spec => []EachInItsPlace
<1> QED BY StashInvariance, InItsPlace, PTL

-----------------------------------------------------------------------------
(***************************************************************************)
(* The simulated store implements BlockStore.                              *)
(***************************************************************************)
LEMMA HomesAreHomes ==
  ASSUME MapsWell, NEW a \in Addrs
  PROVE  Home(a) \in HomeSet
<1>1. \A l \in Leaves : <<Group(l), Position(l)>> \in HomeSet
  BY DEF HomeSet
<1>2. CASE a \in DOMAIN posMap
  <2>1. posMap[a].block_id \in Leaves
    BY <1>2, LineFields DEF MapsWell, Agree
  <2> QED BY <1>1, <1>2, <2>1 DEF Home
<1>3. CASE a \notin DOMAIN posMap
  BY <1>1, <1>3 DEF MapsWell, Home
<1> QED BY <1>2, <1>3

\* Refilled buckets move no block to another group or position.
LEMMA HomesKept ==
  ASSUME MapsWell, MapsWell', NEW N, NEW fits, NEW new, NEW st, st = StashWith(N),
         Refilled(N, fits, new), DOMAIN Refill(fits) \subseteq DOMAIN st,
         \A a \in DOMAIN Refill(fits) : Group(new[a]) = Group(st[a]),
         \A a \in DOMAIN Refill(fits) : Position(new[a]) = Position(st[a])
  PROVE  \A a \in Addrs : Home(a)' = Home(a)
<1> SUFFICES ASSUME NEW a \in Addrs PROVE Home(a)' = Home(a)
  OBVIOUS
<1> DEFINE where == Refill(fits)
<1>1. /\ DOMAIN st = Pulled(N) \cup DOMAIN stash /\ Pulled(N) \subseteq DOMAIN posMap
      /\ \A b \in Pulled(N) : st[b] = posMap[b].block_id
      /\ \A b \in DOMAIN stash \ Pulled(N) : st[b] = stash[b]
  BY PulledFields DEF MapsWell
<1>2. DOMAIN stash = Addrs \ DOMAIN posMap /\ DOMAIN stash' = Addrs \ DOMAIN posMap'
  BY DEF MapsWell
<1>3. a \in DOMAIN st => Home(a) = <<Group(st[a]), Position(st[a])>>
  <2>1. CASE a \in Pulled(N)
    BY <1>1, <2>1 DEF Home
  <2>2. CASE a \in DOMAIN stash
    BY <1>1, <1>2, <2>2 DEF Home
  <2> QED BY <1>1, <2>1, <2>2
<1>4. /\ DOMAIN posMap' = DOMAIN where \cup (DOMAIN posMap \ Pulled(N))
      /\ \A b \in DOMAIN where : posMap'[b].block_id = new[b]
      /\ \A b \in DOMAIN posMap \ Pulled(N) : b \notin DOMAIN where /\ posMap'[b] = posMap[b]
      /\ DOMAIN stash' = DOMAIN st \ DOMAIN where
      /\ \A b \in DOMAIN stash' : stash'[b] = st[b]
  BY DEF Refilled
<1>5. CASE a \in DOMAIN where
  <2>1. Home(a)' = <<Group(new[a]), Position(new[a])>>
    BY <1>4, <1>5 DEF Home, Group, Position
  <2> QED BY <1>3, <1>5, <2>1
<1>6. CASE a \in DOMAIN posMap \ Pulled(N)
  BY <1>4, <1>6 DEF Home, Group, Position
<1>7. CASE a \in DOMAIN stash'
  <2>1. Home(a)' = <<Group(st[a]), Position(st[a])>>
    BY <1>2, <1>4, <1>7 DEF Home, Group, Position
  <2> QED BY <1>3, <1>4, <1>7, <2>1
<1> QED BY <1>2, <1>4, <1>5, <1>6, <1>7

\* The mapping: the homes of the blocks, and the block of the access under way.
homes == [a \in Addrs |-> Home(a)]
accessed == [s \in {0} |-> task.original_address]

LEMMA HomesInit ==
  ASSUME Init
  PROVE  Store!Init
<1>1. MapsWell
  BY InitWell DEF IInv
<1>2. task.original_address = NoAddr
  BY DEF Init, NoTask
<1>3. \A a \in Addrs : Home(a) \in HomeSet
  BY <1>1, HomesAreHomes
<1> QED BY <1>2, <1>3 DEF Store!Init, AnyHome, TheSet

LEMMA HomesStep ==
  ASSUME IInv, [Next]_vars
  PROVE  [Store!Next]_<<homes, accessed>>
<1>1. IInv' /\ MapsWell /\ MapsWell'
  BY StepWell DEF IInv
<1>2. ASSUME \A a \in Addrs : Home(a)' = Home(a), task'.original_address = task.original_address
      PROVE  homes' = homes /\ accessed' = accessed
  BY <1>2 DEF homes, accessed
<1>3. CASE UNCHANGED vars
  <2>1. \A a \in Addrs : Home(a)' = Home(a)
    BY <1>3 DEF vars, mapVars, Home, Group, Position
  <2> QED BY <1>2, <1>3, <2>1 DEF vars
<1>4. ASSUME NEW a \in Requests \cup {NoAddr}, NEW leaf \in Leaves, ReadRoutine(a, leaf)
      PROVE  [Store!Next]_<<homes, accessed>>
  <2>1. \A b \in Addrs : Home(b)' = Home(b)
    BY <1>4 DEF ReadRoutine, mapVars, Home, Group, Position
  <2>2. task.original_address = NoAddr /\ task'.original_address = a
    BY <1>4 DEF ReadRoutine, Idle, NoTask
  <2>3. CASE a = NoAddr
    BY <1>2, <2>1, <2>2, <2>3
  <2>4. CASE a # NoAddr
    <3>1. a \in Addrs
      BY <2>4, SetOramAssumption
    <3>2. homes' = homes /\ accessed[0] = NoAddr /\ accessed' = [accessed EXCEPT ![0] = a]
      BY <2>1, <2>2 DEF homes, accessed
    <3>3. Store!Begin(0, a)
      BY <3>1, <3>2 DEF Store!Begin, TheSet, homes, accessed
    <3>4. Store!Next
      BY <3>1, <3>3 DEF Store!Next
    <3> QED BY <3>4
  <2> QED BY <2>3, <2>4
<1>5. ASSUME NEW leaf \in RandLeaves, ReadPull(leaf)
      PROVE  [Store!Next]_<<homes, accessed>>
  <2>0. PICK a : a = task.original_address
    OBVIOUS
  <2>1. /\ DOMAIN posMap' = DOMAIN posMap \ {a} /\ \A b \in DOMAIN posMap' : posMap'[b] = posMap[b]
        /\ \A b \in DOMAIN stash' : stash'[b] = IF b = a THEN leaf ELSE stash[b]
        /\ DOMAIN stash' = Addrs \ DOMAIN posMap'
    BY <1>1, <1>5, <2>0, PullMaps DEF MapsWell
  <2>2. task'.original_address = NoAddr /\ a \in Addrs \cup {NoAddr} /\ leaf \in Leaves
    BY <1>5, <2>0, SetOramAssumption DEF ReadPull, NoTask, IInv, TaskWell
  <2>3. \A b \in Addrs : b # a => Home(b)' = Home(b)
    BY <2>1 DEF Home, Group, Position
  <2>4. a \in Addrs => Home(a)' = <<Group(leaf), Position(leaf)>>
    BY <2>1 DEF Home, Group, Position
  <2>5. CASE a = NoAddr
    <3>1. \A b \in Addrs : Home(b)' = Home(b)
      BY <2>3, <2>5, Values
    <3> QED BY <1>2, <2>0, <2>2, <2>5, <3>1
  <2>6. CASE a # NoAddr
    <3>1. a \in Addrs /\ a # NoAddr
      BY <2>2, <2>6
    <3> DEFINE l == <<Group(leaf), Position(leaf)>>
    <3>2. l \in HomeSet
      BY <2>2 DEF HomeSet
    <3>3. homes' = [homes EXCEPT ![a] = l]
      <4>1. \A b \in Addrs : Home(b)' = IF b = a THEN l ELSE Home(b)
        BY <2>3, <2>4
      <4> QED BY <4>1 DEF homes
    <3>4. accessed[0] = a /\ accessed' = [accessed EXCEPT ![0] = NoAddr]
      BY <2>0, <2>2 DEF accessed
    <3>5. Store!Read(0, l)
      BY <3>1, <3>2, <3>3, <3>4 DEF Store!Read, AnyHome, homes, accessed
    <3>6. Store!Next
      BY <3>2, <3>5 DEF Store!Next, AnyHome
    <3> QED BY <3>6
  <2> QED BY <2>5, <2>6
<1>6. CASE Writeback
  <2>1. PICK leaf, st, fits, new :
          /\ leaf \in Leaves
          /\ leaf = Head(wb_block_id) /\ wb_block_id # <<>> /\ st = StashWith(Path[leaf])
          /\ fits = [a \in DOMAIN st |-> Fits(leaf, st[a])]
          /\ new = [a \in DOMAIN Refill(fits) |-> Moved(leaf, st[a], Refill(fits)[a])]
          /\ Guests(Path[leaf], fits, new) /\ Refilled(Path[leaf], fits, new)
          /\ DOMAIN Refill(fits) \subseteq DOMAIN st /\ DOMAIN st \subseteq Addrs
          /\ \A a \in DOMAIN st : st[a] \in Leaves
          /\ \A a \in DOMAIN Refill(fits) :
               Group(new[a]) = Group(st[a]) /\ Position(new[a]) = Position(st[a])
    BY <1>6, WritebackRefills
  <2>2. PICK N : N = Path[leaf]
    OBVIOUS
  <2>3. /\ st = StashWith(N) /\ Refilled(N, fits, new) /\ DOMAIN Refill(fits) \subseteq DOMAIN st
        /\ \A a \in DOMAIN Refill(fits) : Group(new[a]) = Group(st[a])
        /\ \A a \in DOMAIN Refill(fits) : Position(new[a]) = Position(st[a])
    BY <2>1, <2>2
  <2>4. \A a \in Addrs : Home(a)' = Home(a)
    BY <1>1, <2>3, HomesKept
  <2> QED BY <1>2, <1>6, <2>4 DEF Writeback
<1>7. CASE EarlyReshuffle
  <2>1. PICK n, st, fits :
          /\ n \in Nodes
          /\ st = StashWith({n}) /\ Refilled({n}, fits, st) /\ DOMAIN Refill(fits) \subseteq DOMAIN st
    BY <1>7, ReshuffleRefills
  <2>2. PICK N : N = {n}
    OBVIOUS
  <2>3. /\ st = StashWith(N) /\ Refilled(N, fits, st) /\ DOMAIN Refill(fits) \subseteq DOMAIN st
        /\ \A a \in DOMAIN Refill(fits) : Group(st[a]) = Group(st[a])
        /\ \A a \in DOMAIN Refill(fits) : Position(st[a]) = Position(st[a])
    BY <2>1, <2>2
  <2>4. \A a \in Addrs : Home(a)' = Home(a)
    BY <1>1, <2>3, HomesKept
  <2> QED BY <1>2, <1>7, <2>4 DEF EarlyReshuffle
<1> QED BY <1>3, <1>4, <1>5, <1>6, <1>7 DEF Next

-----------------------------------------------------------------------------
(***************************************************************************)
(* A write-back leaves no room below a block that could be deeper.         *)
(***************************************************************************)
SlotsOf(ao, n)  == {k \in DOMAIN ao : k[1] = n}
BlocksOf(pm, n) == {a \in DOMAIN pm : pm[a].node_id = n}

\* The slots used in a bucket are those of its blocks.
LEMMA HeldSlots ==
  ASSUME NEW pm, NEW ao, Agree(pm, ao), NEW n
  PROVE  Cardinality(SlotsOf(ao, n)) = Cardinality(BlocksOf(pm, n))
<1> DEFINE B == BlocksOf(pm, n)
           K == SlotsOf(ao, n)
           f == [a \in B |-> Key(pm[a])]
<1>1. \A a \in DOMAIN pm : pm[a] \in Line /\ Key(pm[a]) \in DOMAIN ao /\ Key(pm[a])[1] = pm[a].node_id
  BY LineFields DEF Agree
<1>2. f \in [B -> K]
  BY <1>1 DEF BlocksOf, SlotsOf
<1>3. \A a, b \in B : f[a] = f[b] => a = b
  BY KeysDiffer DEF BlocksOf
<1>4. ASSUME NEW k \in K PROVE \E a \in B : f[a] = k
  <2>1. PICK a \in DOMAIN pm : Key(pm[a]) = k
    BY DEF Agree, SlotsOf
  <2>2. a \in B
    BY <1>1, <2>1 DEF BlocksOf, SlotsOf
  <2> QED BY <2>1, <2>2
<1>5. B \in SUBSET Addrs
  BY DEF Agree, BlocksOf
<1> HIDE DEF f, B, K
<1>6. f \in Bijection(B, K)
  BY <1>2, <1>3, <1>4 DEF Bijection, Injection, Surjection, IsInjective
<1>7. ExistsBijection(B, K)
  BY <1>6 DEF ExistsBijection
<1>8. IsFiniteSet(B)
  BY <1>5, Values, FS_Subset
<1>9. Cardinality(K) = Cardinality(B)
  BY <1>7, <1>8, FS_Bijection
<1> QED BY <1>9 DEF B, K

\* A block that was moved may go no deeper than with its old leaf.
LEMMA NoDeeper ==
  ASSUME NEW leaf \in Leaves, NEW other \in Leaves, NEW n \in Fits(leaf, other),
         NEW x \in Fits(leaf, Moved(leaf, other, n))
  PROVE  x \in Fits(leaf, other)
<1> DEFINE m == Moved(leaf, other, n)
<1>1. PICK lvl \in Lvls : n = P(leaf, lvl) /\ \A k \in Lvls : k <= lvl => Meets(leaf, other, k)
  BY DEF Fits
<1>2. PICK l \in Lvls : x = P(leaf, l) /\ \A k \in Lvls : k <= l => Meets(leaf, m, k)
  BY DEF Fits
<1>3. CASE n < Pow2[CUT_LVL] - 1
  BY <1>3 DEF Moved
<1>4. CASE ~(n < Pow2[CUT_LVL] - 1)
  <2>1. lvl \in Nat /\ CUT_LVL \in Nat /\ \A k \in Lvls : k \in Nat
    BY LevelsOf, Sizes
  <2>2. ~(lvl < CUT_LVL)
    <3>1. ASSUME lvl < CUT_LVL PROVE FALSE
      <4>1. Pow2[lvl + 1] <= Pow2[CUT_LVL] /\ Pow2[lvl + 1] = 2 * Pow2[lvl]
        BY <2>1, <3>1, Powers, PowersGrow
      <4>2. n <= 2 * Pow2[lvl] - 2 /\ n \in Nodes
        BY <1>1, PathLevel
      <4>3. Pow2[lvl] \in Nat /\ Pow2[CUT_LVL] \in Nat /\ n \in Nat
        BY <2>1, <4>2, Powers, Values
      <4> QED BY <1>4, <4>1, <4>2, <4>3
    <3> QED BY <3>1
  <2>3. Group(m) = Group(other) /\ Position(m) = Position(other)
    BY GuestWell
  <2> HIDE DEF m
  <2>4. ASSUME NEW k \in Lvls, k <= l PROVE Meets(leaf, other, k)
    <3>1. CASE k < CUT_LVL
      BY <1>1, <2>1, <2>2, <3>1
    <3>2. CASE ~(k < CUT_LVL)
      <4>1. Meets(leaf, m, k)
        BY <1>2, <2>4
      <4> QED BY <2>3, <3>2, <4>1 DEF Meets
    <3> QED BY <3>1, <3>2
  <2> QED BY <1>2, <2>4 DEF Fits
<1> QED BY <1>3, <1>4

LEMMA WritebackDeep ==
  ASSUME IInv, Writeback
  PROVE  WritesDeep
<1>1. PICK leaf, st, fits, new :
        /\ leaf \in Leaves
        /\ leaf = Head(wb_block_id) /\ st = StashWith(Path[leaf])
        /\ fits = [a \in DOMAIN st |-> Fits(leaf, st[a])]
        /\ new = [a \in DOMAIN Refill(fits) |-> Moved(leaf, st[a], Refill(fits)[a])]
        /\ Guests(Path[leaf], fits, new) /\ Refilled(Path[leaf], fits, new)
        /\ DOMAIN Refill(fits) \subseteq DOMAIN st /\ DOMAIN st \subseteq Addrs
        /\ \A a \in DOMAIN st : st[a] \in Leaves
        /\ MapsWell'
  BY WritebackRefills
<1>2. PICK N : N = Path[leaf]
  OBVIOUS
<1>3. PICK where : where = Refill(fits)
  OBVIOUS
<1>4. /\ DOMAIN fits = DOMAIN st /\ \A a \in DOMAIN fits : fits[a] = Fits(leaf, st[a])
      /\ N \subseteq Nodes /\ \A a \in DOMAIN fits : fits[a] \subseteq N
  BY <1>1, <1>2, PathNodes DEF Guests
<1>5. Usable(fits)
  BY <1>1, <1>4 DEF Usable
<1>6. /\ DOMAIN where \subseteq DOMAIN st
      /\ \A b \in DOMAIN where : where[b] \in fits[b]
      /\ \A b \in DOMAIN fits : \A x \in fits[b] :
           b \notin DOMAIN where \/ x > where[b] => Cardinality(In(where, x)) = Z
  BY <1>1, <1>3, <1>5, RefillWell
<1>7. /\ DOMAIN posMap' = DOMAIN where \cup (DOMAIN posMap \ Pulled(N))
      /\ \A a \in DOMAIN where : posMap'[a].block_id = new[a] /\ posMap'[a].node_id = where[a]
      /\ \A a \in DOMAIN posMap \ Pulled(N) :
           a \notin DOMAIN where /\ posMap[a].node_id \notin N /\ posMap'[a] = posMap[a]
      /\ DOMAIN stash' = DOMAIN st \ DOMAIN where
      /\ \A a \in DOMAIN stash' : stash'[a] = st[a]
  BY <1>1, <1>2, <1>3 DEF Refilled
<1> DEFINE held(n) == Cardinality({k \in DOMAIN addr_to_origaddr' : k[1] = n})
<1>8. ASSUME NEW n \in N PROVE held(n) = Cardinality(In(where, n))
  <2>1. Agree(posMap', addr_to_origaddr')
    BY <1>1 DEF MapsWell
  <2>2. PICK pm, ao : pm = posMap' /\ ao = addr_to_origaddr'
    OBVIOUS
  <2>3. Cardinality(SlotsOf(ao, n)) = Cardinality(BlocksOf(pm, n))
    BY <2>1, <2>2, HeldSlots
  <2>4. BlocksOf(pm, n) = In(where, n)
    BY <1>7, <1>8, <2>2 DEF In, BlocksOf
  <2> QED BY <2>2, <2>3, <2>4 DEF SlotsOf
<1> HIDE DEF held
<1>9. ASSUME NEW a \in DOMAIN stash', NEW n \in Fits(leaf, stash'[a]) PROVE held(n) = Z
  <2>1. a \in DOMAIN st /\ a \notin DOMAIN where /\ stash'[a] = st[a]
    BY <1>7
  <2>2. a \in DOMAIN fits /\ n \in fits[a] /\ n \in N
    BY <1>4, <1>9, <2>1
  <2> QED BY <1>6, <1>8, <2>1, <2>2
<1>10. ASSUME NEW a \in DOMAIN posMap', posMap'[a].node_id \in N,
              NEW n \in Fits(leaf, posMap'[a].block_id), n > posMap'[a].node_id
       PROVE  held(n) = Z
  <2>1. a \in DOMAIN where /\ posMap'[a].block_id = new[a] /\ posMap'[a].node_id = where[a]
    BY <1>7, <1>10
  <2>2. PICK other, x : other = st[a] /\ x = where[a]
    OBVIOUS
  <2>3. a \in DOMAIN fits /\ other \in Leaves /\ x \in Fits(leaf, other) /\ fits[a] = Fits(leaf, other)
        /\ new[a] = Moved(leaf, other, x)
    BY <1>1, <1>3, <1>4, <1>6, <2>1, <2>2
  <2>4. n \in Fits(leaf, Moved(leaf, other, x)) /\ n > x
    BY <1>10, <2>1, <2>2, <2>3
  <2>5. n \in Fits(leaf, other)
    BY <1>1, <2>3, <2>4, NoDeeper
  <2> QED BY <1>4, <1>6, <1>8, <2>2, <2>3, <2>4, <2>5
<1> QED BY <1>1, <1>2, <1>9, <1>10 DEF WritesDeep, held

LEMMA DeepStep ==
  ASSUME IInv, [Next]_vars
  PROVE  [wb_block_id # <<>> /\ wb_block_id' = Tail(wb_block_id) => WritesDeep]_vars
<1>1. wb_block_id # <<>> => Tail(wb_block_id) # wb_block_id
  <2>1. wb_block_id \in Seq(Leaves)
    BY DEF IInv, RenewalDue
  <2>2. wb_block_id # <<>> => Len(Tail(wb_block_id)) = Len(wb_block_id) - 1 /\ Len(wb_block_id) \in Nat
    BY <2>1
  <2> QED BY <2>2
<1>2. ASSUME NEW a \in Requests \cup {NoAddr}, NEW leaf \in Leaves, ReadRoutine(a, leaf)
      PROVE  wb_block_id = <<>>
  BY <1>2 DEF ReadRoutine, Idle
<1>3. ASSUME NEW leaf \in RandLeaves, ReadPull(leaf) PROVE wb_block_id' = wb_block_id
  BY <1>3 DEF ReadPull
<1>4. CASE Writeback
  BY <1>4, WritebackDeep
<1>5. CASE EarlyReshuffle
  BY <1>5 DEF EarlyReshuffle
<1> QED BY <1>1, <1>2, <1>3, <1>4, <1>5 DEF Next

\* A block moves to another group or position only by an access to it, and
\* write-backs leave no room below a block that could be deeper.
THEOREM SimulationIsAStore == Spec => ImplementsStore
<1>1. Init => Store!Init
  BY HomesInit
<1>2. IInv /\ [Next]_vars => [Store!Next]_<<homes, accessed>>
  BY HomesStep
<1>3. Spec => Store!Spec
  BY <1>1, <1>2, StashInvariance, PTL DEF Spec, Store!Spec, homes, accessed
<1>4. IInv /\ [Next]_vars => [wb_block_id # <<>> /\ wb_block_id' = Tail(wb_block_id) => WritesDeep]_vars
  BY DeepStep
<1>5. Spec => WrittenDeep
  BY <1>4, StashInvariance, PTL DEF Spec, WrittenDeep
<1> QED BY <1>3, <1>5 DEF ImplementsStore
=============================================================================
