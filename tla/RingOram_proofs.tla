--------------------------- MODULE RingOram_proofs ---------------------------
(***************************************************************************)
(* Proofs about the tree data of one level, for every number of sets and   *)
(* of leaves per set, every Z, S and A, and every part of the tree on chip. *)
(***************************************************************************)
EXTENDS RingOram, RingTree_proofs

-----------------------------------------------------------------------------
(***************************************************************************)
(* Values.                                                                 *)
(***************************************************************************)
LEMMA Sizes ==
  /\ Z \in Nat \ {0} /\ S \in Nat /\ S >= 2 /\ A \in Nat \ {0} /\ CacheEnd \in Nat
  /\ Requests \subseteq Addrs \cup {NoAddr}
BY TreeAssumption, RingAssumption

\* What stands for nothing is no value of its kind.
LEMMA NoValues ==
  /\ NoAddr \notin Addrs /\ NoLeaf \notin Leaves /\ NoNode \notin Nodes /\ -1 \notin Slots
  /\ NoLine \notin Line /\ NoOrigin \notin Origin
<1>1. NoAddr \notin Addrs /\ NoLeaf \notin Leaves /\ NoNode \notin Nodes /\ -1 \notin Slots
  BY Sizes, TreeSizes DEF NoAddr, NoLeaf, NoNode, Addrs, Leaves, Nodes, Slots
<1>2. NoLine \notin Line
  <2>1. NoLine.block_id = NoLeaf
    BY DEF NoLine
  <2> QED BY <1>1, <2>1 DEF Line
<1>3. NoOrigin \notin Origin
  <2>1. NoOrigin.original_address = NoAddr
    BY DEF NoOrigin
  <2> QED BY <1>1, <2>1 DEF Origin
<1> QED BY <1>1, <1>2, <1>3

LEMMA FiniteAddrs == IsFiniteSet(Addrs) /\ Addrs \subseteq Nat
<1>1. NumLeaves * Z - 1 \in Int
  BY Sizes, TreeSizes
<1> QED BY <1>1, FS_Interval DEF Addrs

\* A line in the tree says where it is.
LEMMA LineFacts ==
  ASSUME TypeOK, NEW a \in Addrs
  PROVE  /\ posMap[a] # NoLine =>
              /\ posMap[a] \in Line
              /\ posMap[a].block_id \in Leaves /\ posMap[a].node_id \in Nodes
              /\ posMap[a].offset \in Slots /\ posMap[a].pending \in BOOLEAN
              /\ <<posMap[a].node_id, posMap[a].offset>> \in Nodes \X Slots
         /\ posMap[a] = NoLine => posMap[a].pending = FALSE
         /\ stash[a] \in Leaves \cup {NoLeaf}
<1>1. posMap[a] \in Line \cup {NoLine} /\ stash[a] \in Leaves \cup {NoLeaf}
  BY DEF TypeOK
<1>2. ASSUME posMap[a] # NoLine
      PROVE  /\ posMap[a] \in Line
             /\ posMap[a].block_id \in Leaves /\ posMap[a].node_id \in Nodes
             /\ posMap[a].offset \in Slots /\ posMap[a].pending \in BOOLEAN
  <2>1. posMap[a] \in Line
    BY <1>1, <1>2
  <2> QED BY <2>1 DEF Line
<1>3. NoLine.pending = FALSE
  BY DEF NoLine
<1> QED BY <1>1, <1>2, <1>3

LEMMA OriginFacts ==
  ASSUME TypeOK, NEW k \in Nodes \X Slots
  PROVE  addr_to_origaddr[k] # NoOrigin =>
           /\ addr_to_origaddr[k] \in Origin
           /\ addr_to_origaddr[k].original_address \in Addrs
           /\ addr_to_origaddr[k].block_id \in Leaves
<1>1. addr_to_origaddr[k] \in Origin \cup {NoOrigin}
  BY DEF TypeOK
<1> QED BY <1>1 DEF Origin

-----------------------------------------------------------------------------
(***************************************************************************)
(* Emptying buckets and refilling them.                                    *)
(***************************************************************************)
NewMap(N, where)   == MapRefilled(MapWithout(N), StashWith(N), where)
NewSlots(N, where) == SlotsRefilled(N, StashWith(N), where)
NewStash(N, where) == StashLeft(StashWith(N), where)

\* A block of buckets N goes to the stash and keeps its leaf; another stays.
LEMMA EmptiedBlock ==
  ASSUME TypeOK, NothingLost, NEW N \in SUBSET Nodes, NEW a \in Addrs
  PROVE  IF posMap[a] # NoLine /\ posMap[a].node_id \in N
           THEN MapWithout(N)[a] = NoLine /\ StashWith(N)[a] = posMap[a].block_id
           ELSE MapWithout(N)[a] = posMap[a] /\ StashWith(N)[a] = stash[a]
<1> DEFINE slot == <<posMap[a].node_id, posMap[a].offset>>
           from == {k \in Held(N) : addr_to_origaddr[k].original_address = a}
<1>1. /\ MapWithout(N)[a] = IF from # {} THEN NoLine ELSE posMap[a]
      /\ StashWith(N)[a] = IF from = {} THEN stash[a]
                           ELSE addr_to_origaddr[CHOOSE k \in from : TRUE].block_id
  BY DEF MapWithout, StashWith
<1>2. ASSUME NEW k \in from PROVE posMap[a] # NoLine /\ posMap[a].node_id \in N /\ k = slot
  <2>1. k \in N \X Slots /\ k \in Nodes \X Slots /\ addr_to_origaddr[k] # NoOrigin
        /\ addr_to_origaddr[k].original_address = a
    BY <1>2 DEF Held
  <2>2. k = slot
    BY <2>1 DEF NothingLost
  <2>3. k[1] \in Nodes /\ k[1] = posMap[a].node_id /\ k[1] \in N
    BY <2>1, <2>2
  <2>4. NoLine.node_id = NoNode
    BY DEF NoLine
  <2> QED BY <2>2, <2>3, <2>4, NoValues
<1>3. CASE posMap[a] # NoLine /\ posMap[a].node_id \in N
  <2>1. /\ slot \in N \X Slots
        /\ addr_to_origaddr[slot] = [original_address |-> a, block_id |-> posMap[a].block_id]
    BY <1>3, LineFacts DEF NothingLost
  <2>2. addr_to_origaddr[slot] # NoOrigin
    <3>1. addr_to_origaddr[slot].original_address = a /\ NoOrigin.original_address = NoAddr
      BY <2>1 DEF NoOrigin
    <3> QED BY <3>1, NoValues
  <2>3. slot \in from
    BY <2>1, <2>2 DEF Held
  <2> HIDE DEF from, slot
  <2>4. (CHOOSE k \in from : TRUE) = slot
    BY <1>2, <2>3
  <2>5. addr_to_origaddr[slot].block_id = posMap[a].block_id
    BY <2>1
  <2> QED BY <1>1, <1>3, <2>3, <2>4, <2>5
<1>4. CASE ~(posMap[a] # NoLine /\ posMap[a].node_id \in N)
  <2>1. from = {}
    <3> HIDE DEF from
    <3> QED BY <1>2, <1>4
  <2> HIDE DEF from
  <2> QED BY <1>1, <1>4, <2>1
<1> QED BY <1>3, <1>4

LEMMA EmptiedType ==
  ASSUME TypeOK, NothingLost, NEW N \in SUBSET Nodes
  PROVE  /\ StashWith(N) \in [Addrs -> Leaves \cup {NoLeaf}]
         /\ InStash(StashWith(N)) =
              {a \in Addrs : stash[a] # NoLeaf \/ (posMap[a] # NoLine /\ posMap[a].node_id \in N)}
<1>1. ASSUME NEW a \in Addrs
      PROVE  /\ StashWith(N)[a] \in Leaves \cup {NoLeaf}
             /\ StashWith(N)[a] # NoLeaf <=>
                  stash[a] # NoLeaf \/ (posMap[a] # NoLine /\ posMap[a].node_id \in N)
  <2>1. (stash[a] = NoLeaf) # (posMap[a] = NoLine)
    BY DEF NothingLost
  <2>2. CASE posMap[a] # NoLine /\ posMap[a].node_id \in N
    <3>1. StashWith(N)[a] = posMap[a].block_id
      BY <2>2, EmptiedBlock
    <3>2. posMap[a].block_id \in Leaves
      BY <2>2, LineFacts
    <3> QED BY <2>2, <3>1, <3>2, NoValues
  <2>3. CASE ~(posMap[a] # NoLine /\ posMap[a].node_id \in N)
    <3>1. StashWith(N)[a] = stash[a] /\ stash[a] \in Leaves \cup {NoLeaf}
      <4>1. StashWith(N)[a] = stash[a]
        BY <2>3, EmptiedBlock
      <4>2. stash[a] \in Leaves \cup {NoLeaf}
        BY LineFacts
      <4> QED BY <4>1, <4>2
    <3> QED BY <2>3, <3>1
  <2> QED BY <2>2, <2>3
<1>2. StashWith(N) = [a \in Addrs |-> StashWith(N)[a]]
  BY DEF StashWith
<1> QED BY <1>1, <1>2 DEF InStash

\* Two blocks that go to one bucket have different ranks.
LEMMA RanksDiffer ==
  ASSUME NEW D \in SUBSET Addrs, NEW where, DOMAIN where = D,
         NEW a \in D, NEW b \in D, where[a] = where[b],
         Rank(where, a) = Rank(where, b)
  PROVE  a = b
<1>1. ASSUME NEW x \in D, NEW y \in D, x < y, where[x] = where[y],
             Rank(where, x) = Rank(where, y)
      PROVE  FALSE
  <2> DEFINE X == {c \in D : c < x /\ where[c] = where[x]}
             Y == {c \in D : c < y /\ where[c] = where[y]}
  <2>1. \A c \in D : c \in Nat
    BY FiniteAddrs
  <2>2. X \subseteq Y
    BY <1>1, <2>1
  <2>3. x \in Y /\ x \notin X
    BY <1>1, <2>1
  <2>4. IsFiniteSet(Y)
    <3>1. Y \subseteq Addrs
      OBVIOUS
    <3> HIDE DEF Y
    <3> QED BY <3>1, FiniteAddrs, FS_Subset
  <2>5. Cardinality(X) = Cardinality(Y)
    BY <1>1 DEF Rank
  <2> HIDE DEF X, Y
  <2>6. X = Y
    BY <2>2, <2>4, <2>5, FS_Subset
  <2> QED BY <2>3, <2>6
<1>2. a \in Nat /\ b \in Nat
  BY FiniteAddrs
<1> QED BY <1>1, <1>2

\* Where a refill puts a block: on its path, in a bucket with room, or nowhere.
LEMMA Placed ==
  ASSUME NEW st \in [Addrs -> Leaves \cup {NoLeaf}], NEW N \in SUBSET Nodes,
         NEW deep \in BOOLEAN, NEW where \in Refills(st, N, deep)
  PROVE  /\ DOMAIN where = InStash(st)
         /\ \A a \in InStash(st) :
              \/ where[a] = NoNode
              \/ where[a] \in N /\ where[a] \in SetPath(st[a]) /\ Rank(where, a) \in Slots
<1>1. where \in [InStash(st) -> N \cup {NoNode}]
  BY DEF Refills
<1> SUFFICES ASSUME NEW a \in InStash(st), where[a] # NoNode
             PROVE  where[a] \in N /\ where[a] \in SetPath(st[a]) /\ Rank(where, a) \in Slots
  BY <1>1
<1> DEFINE fits == {n \in N : MayHold(n, st[a]) /\ Before(where, a, n) < Z}
<1>2. where[a] = CASE fits = {}           -> NoNode
                   [] fits # {} /\ deep  -> Max(fits)
                   [] fits # {} /\ ~deep -> Min(fits)
  BY DEF Refills
<1>3. fits # {}
  <2> HIDE DEF fits
  <2> QED BY <1>2
<1>4. fits \in SUBSET Nat /\ \A n \in fits : n <= 2 * NumLeaves - 2
  <2>1. \A n \in Nodes : n \in Nat /\ n <= 2 * NumLeaves - 2
    BY TreeSizes DEF Nodes
  <2>2. fits \subseteq Nodes
    OBVIOUS
  <2> HIDE DEF fits
  <2> QED BY <2>1, <2>2
<1>5. 2 * NumLeaves - 2 \in Nat
  BY TreeSizes
<1>6. Min(fits) \in fits /\ Max(fits) \in fits
  <2> HIDE DEF fits
  <2> QED BY <1>3, <1>4, <1>5, MinIsLeast, MaxIsGreatest
<1>7. where[a] \in fits
  <2> HIDE DEF fits
  <2> QED BY <1>2, <1>3, <1>6
<1>8. where[a] \in N /\ where[a] \in SetPath(st[a]) /\ Before(where, a, where[a]) < Z
  BY <1>7 DEF MayHold
<1>9. Before(where, a, where[a]) = Rank(where, a)
  BY DEF Before, Rank
<1>10. Rank(where, a) \in Nat
  <2> DEFINE X == {b \in DOMAIN where : b < a /\ where[b] = where[a]}
  <2>1. X \subseteq Addrs
    BY <1>1 DEF InStash
  <2> HIDE DEF X
  <2>2. Cardinality(X) \in Nat
    BY <2>1, FiniteAddrs, FS_Subset, FS_CardinalityType
  <2> QED BY <2>2 DEF Rank, X
<1> QED BY <1>8, <1>9, <1>10, Sizes DEF Slots

\* What becomes of a block when buckets N are emptied and refilled: it is put
\* into one of them, or stays in the stash, or was not touched.
LEMMA RefilledBlock ==
  ASSUME TypeOK, NothingLost, NEW N \in SUBSET Nodes, NEW deep \in BOOLEAN,
         NEW where \in Refills(StashWith(N), N, deep), NEW a \in Addrs
  PROVE  \/ /\ a \in InStash(StashWith(N)) /\ where[a] \in N
            /\ where[a] \in SetPath(StashWith(N)[a]) /\ Rank(where, a) \in Slots
            /\ NewMap(N, where)[a] = [block_id |-> StashWith(N)[a], node_id |-> where[a],
                                      offset |-> Rank(where, a), pending |-> FALSE]
            /\ NewStash(N, where)[a] = NoLeaf
         \/ /\ a \in InStash(StashWith(N)) /\ where[a] = NoNode
            /\ NewMap(N, where)[a] = NoLine
            /\ NewStash(N, where)[a] = StashWith(N)[a]
         \/ /\ a \notin InStash(StashWith(N))
            /\ NewMap(N, where)[a] = posMap[a] /\ posMap[a] # NoLine
            /\ posMap[a].node_id \notin N
            /\ NewStash(N, where)[a] = NoLeaf /\ stash[a] = NoLeaf
<1> DEFINE st == StashWith(N)
<1>1. /\ st \in [Addrs -> Leaves \cup {NoLeaf}] /\ InStash(st) \subseteq Addrs
      /\ a \in InStash(st) <=>
           stash[a] # NoLeaf \/ (posMap[a] # NoLine /\ posMap[a].node_id \in N)
  BY EmptiedType
<1>2. /\ DOMAIN where = InStash(st)
      /\ a \in InStash(st) =>
           \/ where[a] = NoNode
           \/ where[a] \in N /\ where[a] \in SetPath(st[a]) /\ Rank(where, a) \in Slots
  <2> HIDE DEF st
  <2>1. where \in Refills(st, N, deep)
    BY DEF st
  <2> QED BY <1>1, <2>1, Placed
<1>3. IF posMap[a] # NoLine /\ posMap[a].node_id \in N
        THEN MapWithout(N)[a] = NoLine /\ st[a] = posMap[a].block_id
        ELSE MapWithout(N)[a] = posMap[a] /\ st[a] = stash[a]
  BY EmptiedBlock
<1>4. /\ NewMap(N, where)[a] = IF a \in DOMAIN where /\ where[a] # NoNode
              THEN [block_id |-> st[a], node_id |-> where[a],
                    offset |-> Rank(where, a), pending |-> FALSE]
              ELSE MapWithout(N)[a]
      /\ NewStash(N, where)[a] = IF a \in DOMAIN where /\ where[a] # NoNode
              THEN NoLeaf ELSE st[a]
  BY DEF NewMap, NewStash, MapRefilled, StashLeft
<1>5. (stash[a] = NoLeaf) # (posMap[a] = NoLine)
  BY DEF NothingLost
<1>6. \A n \in N : n # NoNode
  BY NoValues
<1> HIDE DEF st
<1>7. CASE a \in InStash(st) /\ where[a] # NoNode
  BY <1>2, <1>4, <1>6, <1>7 DEF st
<1>8. CASE a \in InStash(st) /\ where[a] = NoNode
  BY <1>1, <1>2, <1>3, <1>4, <1>5, <1>8 DEF st
<1>9. CASE a \notin InStash(st)
  BY <1>1, <1>2, <1>3, <1>4, <1>5, <1>9 DEF st
<1> QED BY <1>7, <1>8, <1>9

\* What a slot holds after a refill: the block that was put there, nothing if its
\* bucket was emptied, else what it held before.
LEMMA RefilledSlot ==
  ASSUME TypeOK, NothingLost, NEW N \in SUBSET Nodes, NEW deep \in BOOLEAN,
         NEW where \in Refills(StashWith(N), N, deep), NEW k \in Nodes \X Slots
  PROVE  /\ \A a \in InStash(StashWith(N)) : where[a] = k[1] /\ Rank(where, a) = k[2] =>
              /\ k[1] \in N
              /\ NewSlots(N, where)[k] = [original_address |-> a, block_id |-> StashWith(N)[a]]
         /\ \/ \E a \in InStash(StashWith(N)) : where[a] = k[1] /\ Rank(where, a) = k[2]
            \/ k[1] \in N /\ NewSlots(N, where)[k] = NoOrigin
            \/ k[1] \notin N /\ NewSlots(N, where)[k] = addr_to_origaddr[k]
<1> DEFINE st == StashWith(N)
           put == {a \in DOMAIN where : where[a] = k[1] /\ Rank(where, a) = k[2]}
<1>1. st \in [Addrs -> Leaves \cup {NoLeaf}] /\ InStash(st) \subseteq Addrs
  BY EmptiedType
<1>2. DOMAIN where = InStash(st) /\ \A a \in InStash(st) : where[a] = NoNode \/ where[a] \in N
  <2> HIDE DEF st
  <2>1. where \in Refills(st, N, deep)
    BY DEF st
  <2> QED BY <1>1, <2>1, Placed
<1>3. NewSlots(N, where)[k] =
        IF put # {}
          THEN LET a == CHOOSE a \in put : TRUE
               IN  [original_address |-> a, block_id |-> st[a]]
          ELSE IF k[1] \in N THEN NoOrigin ELSE addr_to_origaddr[k]
  BY DEF NewSlots, SlotsRefilled
<1>4. k[1] \in Nodes /\ k[1] # NoNode
  BY NoValues
<1>5. ASSUME NEW a \in InStash(st), where[a] = k[1], Rank(where, a) = k[2]
      PROVE  k[1] \in N /\ NewSlots(N, where)[k] = [original_address |-> a, block_id |-> st[a]]
  <2>1. a \in put
    BY <1>2, <1>5
  <2>2. ASSUME NEW b \in put PROVE b = a
    <3>1. b \in InStash(st) /\ where[b] = where[a] /\ Rank(where, b) = Rank(where, a)
      BY <1>2, <1>5, <2>2
    <3> HIDE DEF st
    <3> QED BY <1>1, <1>2, <3>1, RanksDiffer
  <2>3. put = {a}
    <3> HIDE DEF put
    <3> QED BY <2>1, <2>2
  <2>4. (CHOOSE b \in put : TRUE) = a
    BY <2>3
  <2> HIDE DEF put, st
  <2> QED BY <1>2, <1>3, <1>4, <1>5, <2>1, <2>4
<1>6. CASE put # {}
  BY <1>2, <1>5, <1>6
<1>7. CASE put = {}
  <2> HIDE DEF put
  <2> QED BY <1>3, <1>5, <1>7
<1> QED BY <1>5, <1>6, <1>7

\* The two maps and the stash, as NothingLost relates them.
MapsAgree(pm, og, st) ==
  /\ \A a \in Addrs : (st[a] = NoLeaf) # (pm[a] = NoLine)
  /\ \A a \in Addrs : pm[a] # NoLine =>
       og[<<pm[a].node_id, pm[a].offset>>] = [original_address |-> a, block_id |-> pm[a].block_id]
  /\ \A k \in Nodes \X Slots : og[k] # NoOrigin =>
       <<pm[og[k].original_address].node_id, pm[og[k].original_address].offset>> = k

MapTypes(pm, og, st) ==
  /\ pm \in [Addrs -> Line \cup {NoLine}]
  /\ og \in [Nodes \X Slots -> Origin \cup {NoOrigin}]
  /\ st \in [Addrs -> Leaves \cup {NoLeaf}]

\* A refill of buckets N loses no block.
LEMMA RefillTypes ==
  ASSUME TypeOK, NothingLost, NEW N \in SUBSET Nodes, NEW deep \in BOOLEAN,
         NEW where \in Refills(StashWith(N), N, deep)
  PROVE  MapTypes(NewMap(N, where), NewSlots(N, where), NewStash(N, where))
<1> DEFINE pm == NewMap(N, where)
           og == NewSlots(N, where)
           sh == NewStash(N, where)
           st == StashWith(N)
<1>1. st \in [Addrs -> Leaves \cup {NoLeaf}] /\ InStash(st) \subseteq Addrs
      /\ \A a \in InStash(st) : st[a] \in Leaves
  BY EmptiedType DEF InStash
<1>2. /\ pm = [a \in Addrs |-> pm[a]] /\ sh = [a \in Addrs |-> sh[a]]
      /\ og = [k \in Nodes \X Slots |-> og[k]]
  BY DEF NewMap, NewSlots, NewStash, MapRefilled, SlotsRefilled, StashLeft
<1>3. ASSUME NEW a \in Addrs PROVE pm[a] \in Line \cup {NoLine} /\ sh[a] \in Leaves \cup {NoLeaf}
  <2>1. CASE /\ a \in InStash(st) /\ where[a] \in N /\ Rank(where, a) \in Slots
             /\ pm[a] = [block_id |-> st[a], node_id |-> where[a],
                         offset |-> Rank(where, a), pending |-> FALSE]
             /\ sh[a] = NoLeaf
    <3>1. st[a] \in Leaves /\ where[a] \in Nodes
      BY <1>1, <2>1
    <3> HIDE DEF pm, sh, st
    <3> QED BY <2>1, <3>1 DEF Line
  <2>2. CASE a \in InStash(st) /\ pm[a] = NoLine /\ sh[a] = st[a]
    <3> HIDE DEF pm, sh, st
    <3> QED BY <1>1, <2>2
  <2>3. CASE a \notin InStash(st) /\ pm[a] = posMap[a] /\ posMap[a] # NoLine /\ sh[a] = NoLeaf
    <3> HIDE DEF pm, sh, st
    <3> QED BY <2>3, LineFacts
  <2> QED BY <2>1, <2>2, <2>3, RefilledBlock
<1>4. ASSUME NEW k \in Nodes \X Slots PROVE og[k] \in Origin \cup {NoOrigin}
  <2>1. CASE \E a \in InStash(st) : where[a] = k[1] /\ Rank(where, a) = k[2]
    <3>1. PICK a \in InStash(st) : where[a] = k[1] /\ Rank(where, a) = k[2]
      BY <2>1
    <3>2. og[k] = [original_address |-> a, block_id |-> st[a]]
      BY <3>1, RefilledSlot
    <3>3. a \in Addrs /\ st[a] \in Leaves
      BY <1>1
    <3> HIDE DEF og, st
    <3> QED BY <3>2, <3>3 DEF Origin
  <2>2. CASE og[k] = NoOrigin
    BY <2>2
  <2>3. CASE og[k] = addr_to_origaddr[k]
    <3> HIDE DEF og
    <3> QED BY <2>3 DEF TypeOK
  <2> QED BY <2>1, <2>2, <2>3, RefilledSlot
<1> HIDE DEF pm, og, sh
<1>5. pm \in [Addrs -> Line \cup {NoLine}] /\ sh \in [Addrs -> Leaves \cup {NoLeaf}]
  BY <1>2, <1>3
<1>6. og \in [Nodes \X Slots -> Origin \cup {NoOrigin}]
  BY <1>2, <1>4
<1> QED BY <1>5, <1>6 DEF MapTypes, pm, og, sh

LEMMA RefillAgrees ==
  ASSUME TypeOK, NothingLost, NEW N \in SUBSET Nodes, NEW deep \in BOOLEAN,
         NEW where \in Refills(StashWith(N), N, deep)
  PROVE  MapsAgree(NewMap(N, where), NewSlots(N, where), NewStash(N, where))
<1> DEFINE pm == NewMap(N, where)
           og == NewSlots(N, where)
           sh == NewStash(N, where)
           st == StashWith(N)
<1>1. /\ InStash(st) \subseteq Addrs /\ \A a \in InStash(st) : st[a] \in Leaves
      /\ \A a \in Addrs : a \in InStash(st) <=>
           stash[a] # NoLeaf \/ (posMap[a] # NoLine /\ posMap[a].node_id \in N)
  BY EmptiedType DEF InStash
<1>2. ASSUME NEW a \in Addrs
      PROVE  \/ /\ a \in InStash(st) /\ where[a] \in N /\ Rank(where, a) \in Slots
                /\ pm[a] = [block_id |-> st[a], node_id |-> where[a],
                            offset |-> Rank(where, a), pending |-> FALSE]
                /\ sh[a] = NoLeaf
             \/ a \in InStash(st) /\ where[a] = NoNode /\ pm[a] = NoLine /\ sh[a] = st[a]
             \/ /\ a \notin InStash(st) /\ pm[a] = posMap[a] /\ posMap[a] # NoLine
                /\ posMap[a].node_id \notin N /\ sh[a] = NoLeaf
  BY RefilledBlock
<1>3. ASSUME NEW k \in Nodes \X Slots
      PROVE  /\ \A a \in InStash(st) : where[a] = k[1] /\ Rank(where, a) = k[2] =>
                  k[1] \in N /\ og[k] = [original_address |-> a, block_id |-> st[a]]
             /\ \/ \E a \in InStash(st) : where[a] = k[1] /\ Rank(where, a) = k[2]
                \/ k[1] \in N /\ og[k] = NoOrigin
                \/ k[1] \notin N /\ og[k] = addr_to_origaddr[k]
  BY RefilledSlot
<1> HIDE DEF pm, og, sh, st
<1>4. ASSUME NEW a \in Addrs PROVE (sh[a] = NoLeaf) # (pm[a] = NoLine)
  <2>1. ASSUME a \in InStash(st), pm[a] = [block_id |-> st[a], node_id |-> where[a],
                            offset |-> Rank(where, a), pending |-> FALSE]
        PROVE  pm[a] # NoLine
    <3>1. pm[a].block_id = st[a] /\ NoLine.block_id = NoLeaf
      BY <2>1 DEF NoLine
    <3> QED BY <1>1, <2>1, <3>1, NoValues
  <2> QED BY <1>1, <1>2, <2>1, NoValues
<1>5. ASSUME NEW a \in Addrs, pm[a] # NoLine
      PROVE  og[<<pm[a].node_id, pm[a].offset>>] =
               [original_address |-> a, block_id |-> pm[a].block_id]
  <2>1. CASE /\ a \in InStash(st) /\ where[a] \in N /\ Rank(where, a) \in Slots
             /\ pm[a] = [block_id |-> st[a], node_id |-> where[a],
                         offset |-> Rank(where, a), pending |-> FALSE]
    <3> DEFINE k == <<where[a], Rank(where, a)>>
    <3>1. k \in Nodes \X Slots /\ k[1] = where[a] /\ k[2] = Rank(where, a)
      BY <2>1
    <3>2. og[k] = [original_address |-> a, block_id |-> st[a]]
      BY <1>3, <2>1, <3>1
    <3>3. pm[a].node_id = where[a] /\ pm[a].offset = Rank(where, a) /\ pm[a].block_id = st[a]
      BY <2>1
    <3> QED BY <3>2, <3>3
  <2>2. CASE a \notin InStash(st) /\ pm[a] = posMap[a] /\ posMap[a].node_id \notin N
    <3> DEFINE k == <<posMap[a].node_id, posMap[a].offset>>
    <3>1. k \in Nodes \X Slots /\ k[1] = posMap[a].node_id /\ posMap[a] # NoLine
      BY <1>5, <2>2, LineFacts
    <3>2. og[k] = addr_to_origaddr[k]
      BY <1>3, <2>2, <3>1
    <3> QED BY <2>2, <3>1, <3>2 DEF NothingLost
  <2> QED BY <1>2, <1>5, <2>1, <2>2
<1>6. ASSUME NEW k \in Nodes \X Slots, og[k] # NoOrigin
      PROVE  <<pm[og[k].original_address].node_id, pm[og[k].original_address].offset>> = k
  <2>1. CASE \E a \in InStash(st) : where[a] = k[1] /\ Rank(where, a) = k[2]
    <3>1. PICK a \in InStash(st) : where[a] = k[1] /\ Rank(where, a) = k[2]
      BY <2>1
    <3>2. og[k].original_address = a /\ k[1] \in N /\ a \in Addrs
      <4>1. k[1] \in N /\ og[k] = [original_address |-> a, block_id |-> st[a]]
        BY <1>3, <3>1
      <4>2. a \in Addrs
        BY <1>1
      <4> QED BY <4>1, <4>2
    <3>3. k[1] # NoNode
      BY NoValues
    <3>4. pm[a].node_id = where[a] /\ pm[a].offset = Rank(where, a)
      <4>1. a \in InStash(st) /\ where[a] # NoNode /\ a \in Addrs
        BY <3>1, <3>2, <3>3
      <4>2. pm[a] = [block_id |-> st[a], node_id |-> where[a],
                     offset |-> Rank(where, a), pending |-> FALSE]
        BY <1>2, <4>1
      <4> QED BY <4>2
    <3>5. k = <<k[1], k[2]>>
      OBVIOUS
    <3> QED BY <3>1, <3>2, <3>4, <3>5
  <2>2. CASE k[1] \notin N /\ og[k] = addr_to_origaddr[k]
    <3> DEFINE a == addr_to_origaddr[k].original_address
    <3>1. a \in Addrs /\ <<posMap[a].node_id, posMap[a].offset>> = k
      BY <1>6, <2>2, OriginFacts DEF NothingLost
    <3>2. posMap[a].node_id = k[1] /\ k[1] \in Nodes
      BY <3>1
    <3>3. posMap[a] # NoLine
      <4>1. NoLine.node_id = NoNode
        BY DEF NoLine
      <4> QED BY <3>2, <4>1, NoValues
    <3>4. a \notin InStash(st)
      <4>1. stash[a] = NoLeaf
        BY <3>1, <3>3 DEF NothingLost
      <4> HIDE DEF a
      <4> QED BY <1>1, <2>2, <3>1, <3>2, <4>1
    <3>5. pm[a] = posMap[a]
      <4> HIDE DEF a
      <4> QED BY <1>2, <3>1, <3>4
    <3> QED BY <2>2, <3>1, <3>5
  <2> QED BY <1>3, <1>6, <2>1, <2>2
<1> QED BY <1>4, <1>5, <1>6 DEF MapsAgree, pm, og, sh

-----------------------------------------------------------------------------
(***************************************************************************)
(* Blocks, paths and sets.                                                 *)
(***************************************************************************)

\* A block whose path passes a bucket of a path of a set belongs to that set.
LEMMA SameSet ==
  ASSUME NEW set \in Sets, NEW leaf \in LeavesOf(set), NEW a \in Addrs,
         NEW own \in LeavesOf(SetOf(a)), NEW n \in SetPath(leaf), n \in SetPath(own)
  PROVE  SetOf(a) = set
<1>1. SetOf(a) \in Sets /\ leaf \in Leaves
  BY SetOfAddr, LeavesOfSet
<1>2. n \in Path(leaf)
  BY <1>1, PathNodes
<1> QED BY <1>1, <1>2, SetsDisjoint

\* A refill keeps every block on its path, keeps its leaf, and touches no block of
\* another set.
LEMMA RefillPaths ==
  ASSUME TypeOK, NothingLost, OnOwnPath, NEW set \in Sets, NEW leaf \in LeavesOf(set),
         NEW N \in SUBSET SetPath(leaf), NEW deep \in BOOLEAN,
         NEW where \in Refills(StashWith(N), N, deep), NEW a \in Addrs
  PROVE  /\ NewMap(N, where)[a] # NoLine =>
              /\ NewMap(N, where)[a].block_id \in LeavesOf(SetOf(a))
              /\ NewMap(N, where)[a].node_id \in SetPath(NewMap(N, where)[a].block_id)
              /\ Leaf(a) = NewMap(N, where)[a].block_id
         /\ NewStash(N, where)[a] # NoLeaf =>
              /\ NewStash(N, where)[a] \in LeavesOf(SetOf(a))
              /\ Leaf(a) = NewStash(N, where)[a]
         /\ SetOf(a) # set => NewMap(N, where)[a] = posMap[a] /\ NewStash(N, where)[a] = stash[a]
         /\ NewMap(N, where)[a].pending => posMap[a].pending
<1> DEFINE pm == NewMap(N, where)
           sh == NewStash(N, where)
           st == StashWith(N)
<1>1. N \in SUBSET Nodes
  BY LeavesOfSet, PathNodes
<1>2. \/ /\ a \in InStash(st) /\ where[a] \in N /\ where[a] \in SetPath(st[a])
         /\ pm[a] = [block_id |-> st[a], node_id |-> where[a],
                     offset |-> Rank(where, a), pending |-> FALSE]
         /\ sh[a] = NoLeaf
      \/ a \in InStash(st) /\ where[a] = NoNode /\ pm[a] = NoLine /\ sh[a] = st[a]
      \/ /\ a \notin InStash(st) /\ pm[a] = posMap[a] /\ posMap[a] # NoLine
         /\ posMap[a].node_id \notin N /\ sh[a] = NoLeaf /\ stash[a] = NoLeaf
  BY <1>1, RefilledBlock
<1>3. IF posMap[a] # NoLine /\ posMap[a].node_id \in N
        THEN st[a] = posMap[a].block_id
        ELSE st[a] = stash[a]
  BY <1>1, EmptiedBlock
<1>4. /\ (stash[a] = NoLeaf) # (posMap[a] = NoLine)
      /\ posMap[a] # NoLine => /\ posMap[a].block_id \in LeavesOf(SetOf(a))
                               /\ posMap[a].node_id \in SetPath(posMap[a].block_id)
      /\ stash[a] # NoLeaf => stash[a] \in LeavesOf(SetOf(a))
      /\ Leaf(a) = IF posMap[a] # NoLine THEN posMap[a].block_id ELSE stash[a]
  BY DEF NothingLost, OnOwnPath, Leaf
<1>5. NoLine.pending = FALSE
  BY DEF NoLine
<1> HIDE DEF pm, sh, st
<1>6. a \in InStash(st) => st[a] \in LeavesOf(SetOf(a)) /\ Leaf(a) = st[a]
  <2>1. a \in InStash(st) => st[a] # NoLeaf
    BY DEF InStash
  <2> QED BY <1>3, <1>4, <2>1
<1>7. posMap[a] # NoLine /\ posMap[a].node_id \in N => SetOf(a) = set
  BY <1>4, SameSet
<1>8. CASE /\ a \in InStash(st) /\ where[a] \in N /\ where[a] \in SetPath(st[a])
           /\ pm[a] = [block_id |-> st[a], node_id |-> where[a],
                       offset |-> Rank(where, a), pending |-> FALSE]
           /\ sh[a] = NoLeaf
  <2>1. SetOf(a) = set
    BY <1>6, <1>8, SameSet
  <2>2. /\ pm[a].block_id = st[a] /\ pm[a].node_id = where[a] /\ pm[a].pending = FALSE
    BY <1>8
  <2> QED BY <1>6, <1>8, <2>1, <2>2 DEF pm, sh
<1>9. CASE a \in InStash(st) /\ where[a] = NoNode /\ pm[a] = NoLine /\ sh[a] = st[a]
  <2>1. SetOf(a) # set => posMap[a] = NoLine /\ st[a] = stash[a]
    <3>1. a \in InStash(st) => st[a] # NoLeaf
      BY DEF InStash
    <3> QED BY <1>3, <1>4, <1>7, <1>9, <3>1
  <2> QED BY <1>5, <1>6, <1>9, <2>1 DEF pm, sh
<1>10. CASE /\ a \notin InStash(st) /\ pm[a] = posMap[a] /\ posMap[a] # NoLine
            /\ posMap[a].node_id \notin N /\ sh[a] = NoLeaf /\ stash[a] = NoLeaf
  BY <1>4, <1>10 DEF pm, sh
<1> QED BY <1>2, <1>8, <1>9, <1>10

\* After a refill every block waits in an unread slot, if the buckets of M, which
\* include those refilled, are new.
LEMMA RefillSlots ==
  ASSUME TypeOK, NothingLost, SlotsUnread, NEW N \in SUBSET Nodes, NEW deep \in BOOLEAN,
         NEW where \in Refills(StashWith(N), N, deep), NEW M, N \subseteq M, NEW a \in Addrs,
         NewMap(N, where)[a] # NoLine, ~NewMap(N, where)[a].pending
  PROVE  NewMap(N, where)[a].offset \in FreshSlots(M)[NewMap(N, where)[a].node_id]
<1> DEFINE pm == NewMap(N, where)
           st == StashWith(N)
<1>1. \/ /\ where[a] \in N /\ Rank(where, a) \in Slots
         /\ pm[a] = [block_id |-> st[a], node_id |-> where[a],
                     offset |-> Rank(where, a), pending |-> FALSE]
      \/ pm[a] = posMap[a] /\ posMap[a] # NoLine
  BY RefilledBlock
<1>2. \A n \in Nodes : FreshSlots(M)[n] = IF n \in M THEN Slots ELSE z_arr[n]
  BY DEF FreshSlots
<1>3. pm[a] # NoLine /\ ~pm[a].pending
  OBVIOUS
<1> HIDE DEF pm, st
<1>4. CASE /\ where[a] \in N /\ Rank(where, a) \in Slots
           /\ pm[a] = [block_id |-> st[a], node_id |-> where[a],
                       offset |-> Rank(where, a), pending |-> FALSE]
  <2>1. pm[a].node_id = where[a] /\ pm[a].offset = Rank(where, a)
    BY <1>4
  <2>2. where[a] \in Nodes /\ where[a] \in M
    BY <1>4
  <2> QED BY <1>2, <1>4, <2>1, <2>2 DEF pm
<1>5. CASE pm[a] = posMap[a] /\ posMap[a] # NoLine
  <2>1. posMap[a].offset \in z_arr[posMap[a].node_id] /\ posMap[a].offset \in Slots
        /\ posMap[a].node_id \in Nodes
    BY <1>3, <1>5, LineFacts DEF SlotsUnread
  <2> QED BY <1>2, <1>5, <2>1 DEF pm
<1> QED BY <1>1, <1>4, <1>5

-----------------------------------------------------------------------------
(***************************************************************************)
(* The inductive invariant.                                                *)
(***************************************************************************)

\* What the current task of a set has settled at each of its steps.
HeadFollows(set) ==
  LET task == head[set] IN
  /\ task.original_address # NoAddr => SetOf(task.original_address) = set
  /\ task.next_step \in {2, 3} => task.block_id \in LeavesOf(set)
  /\ task.next_step = 3 /\ task.node_id # NoNode => task.original_address # NoAddr
  /\ task.next_step = 3 /\ task.node_id = NoNode /\ task.original_address # NoAddr =>
       stash[task.original_address] # NoLeaf
  /\ task.next_step = 5 => wb_block_id_last[set] \in LeavesOf(set)
  /\ task.next_step \in {4, 5} => set_cnt[set] = 0

HeadsFollow == \A set \in Sets : HeadFollows(set)

IInv == /\ TypeOK /\ NothingLost /\ OnOwnPath /\ BucketsServeReads
        /\ PendingIsAwaited /\ AccessDelivers /\ HeadsFollow

\* A step of a set changes the task, the blocks and the buckets of that set only.
StaysInSet(set) ==
  /\ \A s \in Sets : s # set => head'[s] = head[s]
  /\ \A a \in Addrs : SetOf(a) # set => posMap'[a] = posMap[a] /\ stash'[a] = stash[a]
  /\ \A s \in Sets : s # set => \A n \in SetNodes(s) :
       z_arr'[n] = z_arr[n] /\ s_arr'[n] = s_arr[n] /\ accessed_times'[n] = accessed_times[n]

\* A step maps no block to another leaf.
KeepsLeaves == \A a \in Addrs : Leaf(a)' = Leaf(a)

\* A task and its step are of their types.
LEMMA HeadType ==
  ASSUME TypeOK, NEW set \in Sets
  PROVE  /\ head[set] \in Task
         /\ head[set].next_step \in 2 .. 6 /\ head[set].original_address \in Addrs \cup {NoAddr}
         /\ head[set].block_id \in Leaves \cup {NoLeaf} /\ head[set].node_id \in Nodes \cup {NoNode}
         /\ head[set].offset \in Slots \cup {-1}
BY DEF TypeOK, Task

\* Steps that touch neither the maps nor the buckets.
LEMMA TreeKept ==
  ASSUME IInv, UNCHANGED treeVars
  PROVE  /\ NothingLost' /\ OnOwnPath' /\ BucketsServeReads'
         /\ posMap' \in [Addrs -> Line \cup {NoLine}]
         /\ addr_to_origaddr' \in [Nodes \X Slots -> Origin \cup {NoOrigin}]
         /\ stash' \in [Addrs -> Leaves \cup {NoLeaf}]
         /\ z_arr' \in [Nodes -> SUBSET Slots]
         /\ s_arr' \in [Nodes -> 0 .. S] /\ accessed_times' \in [Nodes -> 0 .. S]
<1>1. /\ posMap' = posMap /\ addr_to_origaddr' = addr_to_origaddr /\ stash' = stash
      /\ z_arr' = z_arr /\ s_arr' = s_arr /\ accessed_times' = accessed_times
  BY DEF treeVars
<1>2. NothingLost'
  BY <1>1 DEF IInv, NothingLost
<1>3. OnOwnPath'
  BY <1>1 DEF IInv, OnOwnPath
<1>4. BucketsServeReads'
  BY <1>1 DEF IInv, BucketsServeReads, SlotsUnread, BucketsNotExhausted
<1> QED BY <1>1, <1>2, <1>3, <1>4 DEF IInv, TypeOK

\* Steps that change only the task of their set.
LEMMA TreeKeptStays ==
  ASSUME TypeOK, UNCHANGED treeVars, NEW set \in Sets, NEW task,
         head' = [head EXCEPT ![set] = task]
  PROVE  StaysInSet(set) /\ KeepsLeaves
<1>1. /\ posMap' = posMap /\ stash' = stash
      /\ z_arr' = z_arr /\ s_arr' = s_arr /\ accessed_times' = accessed_times
  BY DEF treeVars
<1>2. \A s \in Sets : s # set => head'[s] = head[s]
  BY DEF TypeOK
<1> QED BY <1>1, <1>2 DEF StaysInSet, KeepsLeaves, Leaf

\* The buckets of a set are not on the paths of another.
LEMMA OtherBuckets ==
  ASSUME NEW set \in Sets, NEW leaf \in LeavesOf(set), NEW s \in Sets, s # set,
         NEW n \in SetNodes(s)
  PROVE  n \in Nodes /\ n \notin Path(leaf)
<1>1. PICK other \in LeavesOf(s) : n \in SetPath(other)
  BY DEF SetNodes
<1>2. other \in Leaves
  BY LeavesOfSet
<1> QED BY <1>1, <1>2, PathNodes, SetsDisjoint

LEMMA ChoosePathInv ==
  ASSUME IInv, NEW set \in Sets, NEW a \in Requests, NEW leaf \in LeavesOf(set),
         ChoosePath(set, a, leaf)
  PROVE  IInv'
<1> DEFINE new == [next_step |-> 2, original_address |-> a, block_id |-> leaf,
                   node_id |-> NoNode, offset |-> -1]
<1>1. /\ head[set].next_step = 6
      /\ a # NoAddr => SetOf(a) = set
      /\ set_cnt' = [set_cnt EXCEPT ![set] = (@ + 1) % A]
      /\ head' = [head EXCEPT ![set] = new]
      /\ UNCHANGED treeVars /\ ring_counter' = ring_counter /\ wb_block_id_last' = wb_block_id_last
  BY DEF ChoosePath
<1>2. posMap' = posMap /\ stash' = stash
  BY <1>1 DEF treeVars
<1>3. a \in Addrs \cup {NoAddr} /\ leaf \in Leaves
  BY Sizes, LeavesOfSet
<1>4. /\ head \in [Sets -> Task] /\ set_cnt \in [Sets -> 0 .. A - 1]
      /\ ring_counter \in [Sets -> 0 .. num_of_ways - 1]
      /\ wb_block_id_last \in [Sets -> Leaves \cup {NoLeaf}]
  BY DEF IInv, TypeOK
<1>5. \A s \in Sets : head'[s] = IF s = set THEN new ELSE head[s]
  BY <1>1, <1>4
<1>6. \A s \in Sets : s # set => set_cnt'[s] = set_cnt[s]
  BY <1>1, <1>4
<1>7. TypeOK'
  <2>1. new \in Task
    BY <1>3 DEF Task
  <2>2. set_cnt' \in [Sets -> 0 .. A - 1]
    <3>1. (set_cnt[set] + 1) % A \in 0 .. A - 1
      BY <1>4, Sizes
    <3> QED BY <1>1, <1>4, <3>1
  <2>3. head' \in [Sets -> Task]
    <3> HIDE DEF new
    <3> QED BY <1>1, <1>4, <2>1
  <2> QED BY <1>1, <1>4, <2>2, <2>3, TreeKept DEF TypeOK
<1>8. PendingIsAwaited'
  <2>1. ASSUME NEW b \in Addrs, posMap'[b].pending
        PROVE  head'[SetOf(b)].next_step = 3 /\ head'[SetOf(b)].original_address = b
    <3>1. head[SetOf(b)].next_step = 3 /\ head[SetOf(b)].original_address = b
      BY <1>2, <2>1 DEF IInv, PendingIsAwaited
    <3>2. SetOf(b) \in Sets /\ SetOf(b) # set
      BY <1>1, <3>1, SetOfAddr
    <3> QED BY <1>5, <3>1, <3>2
  <2>2. ASSUME NEW s \in Sets, head'[s].next_step = 3, head'[s].node_id # NoNode
        PROVE  LET line == posMap'[head'[s].original_address]
               IN  /\ line.pending
                   /\ <<line.node_id, line.offset>> = <<head'[s].node_id, head'[s].offset>>
    <3>1. s # set
      BY <1>5, <2>2
    <3> QED BY <1>2, <1>5, <2>2, <3>1 DEF IInv, PendingIsAwaited
  <2> QED BY <2>1, <2>2 DEF PendingIsAwaited
<1>9. AccessDelivers'
  <2> SUFFICES ASSUME NEW s \in Sets, head'[s].original_address # NoAddr,
                      \/ head'[s].next_step = 4 \/ head'[s].next_step = 5
                      \/ head'[s].next_step = 6 /\ set_cnt'[s] # 0
               PROVE  stash'[head'[s].original_address] # NoLeaf
    BY DEF AccessDelivers
  <2>1. s # set
    BY <1>5
  <2> QED BY <1>2, <1>5, <1>6, <2>1 DEF IInv, AccessDelivers
<1>10. HeadsFollow'
  <2> SUFFICES ASSUME NEW s \in Sets PROVE HeadFollows(s)'
    BY DEF HeadsFollow
  <2>1. CASE s = set
    <3>1. /\ head'[set].next_step = 2 /\ head'[set].original_address = a
          /\ head'[set].block_id = leaf
      BY <1>5
    <3> HIDE DEF new
    <3> QED BY <1>1, <2>1, <3>1 DEF HeadFollows
  <2>2. CASE s # set
    BY <1>1, <1>2, <1>5, <1>6, <2>2 DEF IInv, HeadsFollow, HeadFollows
  <2> QED BY <2>1, <2>2
<1> QED BY <1>1, <1>7, <1>8, <1>9, <1>10, TreeKept DEF IInv

\* The path to a task's block has a dummy for it only if there is no block to read:
\* otherwise the slot it took still holds the block.
LEMMA TakenSlotHolds ==
  ASSUME IInv, NEW set \in Sets, head[set].next_step = 3, head[set].node_id # NoNode
  PROVE  LET a == head[set].original_address   k == <<head[set].node_id, head[set].offset>> IN
         /\ a \in Addrs /\ SetOf(a) = set /\ k \in Nodes \X Slots
         /\ posMap[a] # NoLine /\ posMap[a].pending /\ stash[a] = NoLeaf
         /\ <<posMap[a].node_id, posMap[a].offset>> = k
         /\ addr_to_origaddr[k] = [original_address |-> a, block_id |-> posMap[a].block_id]
         /\ addr_to_origaddr[k] # NoOrigin
<1> DEFINE a == head[set].original_address
           k == <<head[set].node_id, head[set].offset>>
<1>1. TypeOK
  BY DEF IInv
<1>2. a \in Addrs /\ SetOf(a) = set
  BY <1>1, HeadType DEF IInv, HeadsFollow, HeadFollows
<1>3. posMap[a].pending /\ <<posMap[a].node_id, posMap[a].offset>> = k
  BY DEF IInv, PendingIsAwaited
<1>4. posMap[a] # NoLine
  BY <1>3 DEF NoLine
<1>5. k \in Nodes \X Slots
  BY <1>1, <1>2, <1>3, <1>4, LineFacts
<1>6. stash[a] = NoLeaf
      /\ addr_to_origaddr[k] = [original_address |-> a, block_id |-> posMap[a].block_id]
  BY <1>2, <1>3, <1>4 DEF IInv, NothingLost
<1>7. addr_to_origaddr[k] # NoOrigin
  <2>1. addr_to_origaddr[k].original_address = a /\ NoOrigin.original_address = NoAddr
    BY <1>6 DEF NoOrigin
  <2> QED BY <1>2, <2>1, NoValues
<1> QED BY <1>2, <1>3, <1>4, <1>5, <1>6, <1>7

LEMMA PullDummiesInv ==
  ASSUME IInv, NEW set \in Sets, PullDummies(set)
  PROVE  IInv'
<1>1. /\ head[set].next_step = 3
      /\ head[set].node_id # NoNode =>
           addr_to_origaddr[<<head[set].node_id, head[set].offset>>] = NoOrigin
      /\ head' = [head EXCEPT ![set].next_step = AfterPull(set)]
      /\ UNCHANGED treeVars /\ UNCHANGED <<ring_counter, wb_block_id_last, set_cnt>>
  BY DEF PullDummies
<1>2. posMap' = posMap /\ stash' = stash
  BY <1>1 DEF treeVars
<1>3. head[set].node_id = NoNode
  BY <1>1, TakenSlotHolds
<1>4. /\ head \in [Sets -> Task] /\ set_cnt \in [Sets -> 0 .. A - 1]
      /\ ring_counter \in [Sets -> 0 .. num_of_ways - 1]
      /\ wb_block_id_last \in [Sets -> Leaves \cup {NoLeaf}]
  BY DEF IInv, TypeOK
<1>5. AfterPull(set) \in {4, 6} /\ (AfterPull(set) = 4 <=> set_cnt[set] = 0)
  BY DEF AfterPull
<1>6. /\ \A s \in Sets : s # set => head'[s] = head[s]
      /\ head'[set].next_step = AfterPull(set)
      /\ head'[set].original_address = head[set].original_address
      /\ head'[set] \in Task
  <2>1. /\ \A s \in Sets : s # set => head'[s] = head[s]
        /\ head'[set] = [head[set] EXCEPT !.next_step = AfterPull(set)]
    BY <1>1, <1>4
  <2>2. head[set] \in Task /\ AfterPull(set) \in 2 .. 6
    BY <1>4, <1>5
  <2>3. head'[set] \in Task
    BY <2>1, <2>2 DEF Task
  <2>4. head'[set].next_step = AfterPull(set)
        /\ head'[set].original_address = head[set].original_address
    BY <2>1, <2>2 DEF Task
  <2> QED BY <2>1, <2>3, <2>4
<1>7. TypeOK'
  <2>1. head' \in [Sets -> Task]
    BY <1>1, <1>4, <1>6
  <2> QED BY <1>1, <1>4, <2>1, TreeKept DEF TypeOK
<1>8. PendingIsAwaited'
  <2>1. \A a \in Addrs : posMap[a].pending => SetOf(a) # set
    <3> SUFFICES ASSUME NEW a \in Addrs, posMap[a].pending, SetOf(a) = set PROVE FALSE
      OBVIOUS
    <3>1. head[set].original_address = a
      BY DEF IInv, PendingIsAwaited
    <3>2. stash[a] # NoLeaf
      BY <1>1, <1>3, <3>1, NoValues DEF IInv, HeadsFollow, HeadFollows
    <3>3. posMap[a] # NoLine
      BY DEF NoLine
    <3> QED BY <3>2, <3>3 DEF IInv, NothingLost
  <2> QED BY <1>2, <1>5, <1>6, <2>1, SetOfAddr DEF IInv, PendingIsAwaited
<1>9. AccessDelivers'
  BY <1>1, <1>2, <1>3, <1>6 DEF IInv, AccessDelivers, HeadsFollow, HeadFollows
<1>10. HeadsFollow'
  <2> SUFFICES ASSUME NEW s \in Sets PROVE HeadFollows(s)'
    BY DEF HeadsFollow
  <2>1. CASE s = set
    BY <1>1, <1>5, <1>6, <2>1 DEF IInv, HeadsFollow, HeadFollows
  <2>2. CASE s # set
    BY <1>1, <1>2, <1>6, <2>2 DEF IInv, HeadsFollow, HeadFollows
  <2> QED BY <2>1, <2>2
<1> QED BY <1>1, <1>7, <1>8, <1>9, <1>10, TreeKept DEF IInv

LEMMA ChooseWritePathInv ==
  ASSUME IInv, NEW set \in Sets, ChooseWritePath(set)
  PROVE  IInv'
<1>1. /\ head[set].next_step = 4
      /\ wb_block_id_last' = [wb_block_id_last EXCEPT ![set] = RingLeaf(ring_counter[set], set)]
      /\ ring_counter' = [ring_counter EXCEPT ![set] = (@ + 1) % num_of_ways]
      /\ head' = [head EXCEPT ![set].next_step = 5]
      /\ UNCHANGED treeVars /\ set_cnt' = set_cnt
  BY DEF ChooseWritePath
<1>2. posMap' = posMap /\ stash' = stash
  BY <1>1 DEF treeVars
<1>4. /\ head \in [Sets -> Task] /\ set_cnt \in [Sets -> 0 .. A - 1]
      /\ ring_counter \in [Sets -> 0 .. num_of_ways - 1]
      /\ wb_block_id_last \in [Sets -> Leaves \cup {NoLeaf}]
  BY DEF IInv, TypeOK
<1>5. RingLeaf(ring_counter[set], set) \in LeavesOf(set)
  BY <1>4, RingLeafOfSet
<1>6. /\ \A s \in Sets : s # set => head'[s] = head[s] /\ wb_block_id_last'[s] = wb_block_id_last[s]
      /\ head'[set].next_step = 5
      /\ head'[set].original_address = head[set].original_address
      /\ head'[set] \in Task
      /\ wb_block_id_last'[set] \in LeavesOf(set)
  BY <1>1, <1>4, <1>5 DEF Task
<1>7. TypeOK'
  <2>1. head' \in [Sets -> Task]
    BY <1>1, <1>4, <1>6
  <2>2. wb_block_id_last' \in [Sets -> Leaves \cup {NoLeaf}]
    BY <1>1, <1>4, <1>5, LeavesOfSet
  <2>3. ring_counter' \in [Sets -> 0 .. num_of_ways - 1]
    <3>1. (ring_counter[set] + 1) % num_of_ways \in 0 .. num_of_ways - 1
      BY <1>4, TreeSizes
    <3> QED BY <1>1, <1>4, <3>1
  <2> QED BY <1>1, <1>4, <2>1, <2>2, <2>3, TreeKept DEF TypeOK
<1>8. PendingIsAwaited'
  BY <1>1, <1>2, <1>6, SetOfAddr DEF IInv, PendingIsAwaited
<1>9. AccessDelivers'
  BY <1>1, <1>2, <1>6 DEF IInv, AccessDelivers
<1>10. HeadsFollow'
  <2> SUFFICES ASSUME NEW s \in Sets PROVE HeadFollows(s)'
    BY DEF HeadsFollow
  <2>1. CASE s = set
    BY <1>1, <1>6, <2>1 DEF IInv, HeadsFollow, HeadFollows
  <2>2. CASE s # set
    BY <1>1, <1>2, <1>6, <2>2 DEF IInv, HeadsFollow, HeadFollows
  <2> QED BY <2>1, <2>2
<1> QED BY <1>1, <1>7, <1>8, <1>9, <1>10, TreeKept DEF IInv

-----------------------------------------------------------------------------
(***************************************************************************)
(* Steps that move blocks.                                                 *)
(***************************************************************************)

\* The other sets see nothing of a step that changes only blocks of its own set.
LEMMA OtherHeads ==
  ASSUME IInv, NEW set \in Sets, NEW s \in Sets, s # set,
         head'[s] = head[s], set_cnt'[s] = set_cnt[s], wb_block_id_last'[s] = wb_block_id_last[s],
         \A a \in Addrs : SetOf(a) # set => posMap'[a] = posMap[a] /\ stash'[a] = stash[a]
  PROVE  /\ HeadFollows(s)'
         /\ head'[s].next_step = 3 /\ head'[s].node_id # NoNode =>
              LET line == posMap'[head'[s].original_address]
              IN  /\ line.pending
                  /\ <<line.node_id, line.offset>> = <<head'[s].node_id, head'[s].offset>>
         /\ head'[s].original_address # NoAddr
              /\ (\/ head'[s].next_step = 4 \/ head'[s].next_step = 5
                  \/ head'[s].next_step = 6 /\ set_cnt'[s] # 0)
              => stash'[head'[s].original_address] # NoLeaf
<1> DEFINE a == head[s].original_address
<1>1. a # NoAddr => a \in Addrs /\ posMap'[a] = posMap[a] /\ stash'[a] = stash[a]
  <2>1. TypeOK
    BY DEF IInv
  <2> QED BY <2>1, HeadType DEF IInv, HeadsFollow, HeadFollows
<1>2. HeadFollows(s)'
  BY <1>1 DEF IInv, HeadsFollow, HeadFollows
<1>3. head[s].next_step = 3 /\ head[s].node_id # NoNode => a # NoAddr
  BY DEF IInv, HeadsFollow, HeadFollows
<1>4. head'[s].next_step = 3 /\ head'[s].node_id # NoNode =>
              LET line == posMap'[head'[s].original_address]
              IN  /\ line.pending
                  /\ <<line.node_id, line.offset>> = <<head'[s].node_id, head'[s].offset>>
  BY <1>1, <1>3 DEF IInv, PendingIsAwaited
<1>5. head'[s].original_address # NoAddr
              /\ (\/ head'[s].next_step = 4 \/ head'[s].next_step = 5
                  \/ head'[s].next_step = 6 /\ set_cnt'[s] # 0)
              => stash'[head'[s].original_address] # NoLeaf
  BY <1>1 DEF IInv, AccessDelivers
<1> QED BY <1>2, <1>4, <1>5

\* No block of a set is pending while its task is not about to pull.
LEMMA NonePending ==
  ASSUME IInv, NEW set \in Sets, head[set].next_step # 3, NEW a \in Addrs, SetOf(a) = set
  PROVE  ~posMap[a].pending
BY DEF IInv, PendingIsAwaited

LEMMA PullBlockInv ==
  ASSUME IInv, NEW set \in Sets, NEW leaf \in Leaves, PullBlock(set, leaf)
  PROVE  IInv'
<1> DEFINE a == head[set].original_address
           k == <<head[set].node_id, head[set].offset>>
<1>1. /\ head[set].next_step = 3 /\ head[set].node_id # NoNode
      /\ leaf \in LeavesOf(SetOf(a))
      /\ addr_to_origaddr' = [addr_to_origaddr EXCEPT ![k] = NoOrigin]
      /\ posMap' = [posMap EXCEPT ![a] = NoLine]
      /\ stash' = [stash EXCEPT ![a] = leaf]
      /\ head' = [head EXCEPT ![set].next_step = AfterPull(set)]
      /\ z_arr' = z_arr /\ s_arr' = s_arr /\ accessed_times' = accessed_times
      /\ ring_counter' = ring_counter /\ wb_block_id_last' = wb_block_id_last
      /\ set_cnt' = set_cnt
  BY DEF PullBlock, RandLeaf
<1>2. /\ a \in Addrs /\ SetOf(a) = set /\ k \in Nodes \X Slots
      /\ posMap[a] # NoLine /\ posMap[a].pending /\ stash[a] = NoLeaf
      /\ <<posMap[a].node_id, posMap[a].offset>> = k
      /\ addr_to_origaddr[k] = [original_address |-> a, block_id |-> posMap[a].block_id]
  BY <1>1, TakenSlotHolds
<1>3. TypeOK
  BY DEF IInv
<1>4. /\ posMap \in [Addrs -> Line \cup {NoLine}] /\ stash \in [Addrs -> Leaves \cup {NoLeaf}]
      /\ addr_to_origaddr \in [Nodes \X Slots -> Origin \cup {NoOrigin}]
      /\ head \in [Sets -> Task]
  BY <1>3 DEF TypeOK
<1> HIDE DEF a, k
<1>5. /\ \A b \in Addrs : posMap'[b] = IF b = a THEN NoLine ELSE posMap[b]
      /\ \A b \in Addrs : stash'[b] = IF b = a THEN leaf ELSE stash[b]
      /\ \A j \in Nodes \X Slots :
           addr_to_origaddr'[j] = IF j = k THEN NoOrigin ELSE addr_to_origaddr[j]
  BY <1>1, <1>4
<1>6. AfterPull(set) \in {4, 6} /\ (AfterPull(set) = 4 <=> set_cnt[set] = 0)
  BY DEF AfterPull
<1>7. /\ \A s \in Sets : s # set => head'[s] = head[s]
      /\ head'[set].next_step = AfterPull(set)
      /\ head'[set].original_address = a
      /\ head'[set] \in Task
  <2>1. /\ \A s \in Sets : s # set => head'[s] = head[s]
        /\ head'[set] = [head[set] EXCEPT !.next_step = AfterPull(set)]
    BY <1>1, <1>4
  <2>2. head[set] \in Task /\ AfterPull(set) \in 2 .. 6
    BY <1>4, <1>6
  <2>3. head'[set] \in Task
    BY <2>1, <2>2 DEF Task
  <2>4. head'[set].next_step = AfterPull(set)
        /\ head'[set].original_address = head[set].original_address
    BY <2>1, <2>2 DEF Task
  <2> QED BY <2>1, <2>3, <2>4 DEF a
<1>8. TypeOK'
  <2>1. head' \in [Sets -> Task]
    BY <1>1, <1>4, <1>7
  <2>2. posMap' \in [Addrs -> Line \cup {NoLine}] /\ stash' \in [Addrs -> Leaves \cup {NoLeaf}]
    BY <1>1, <1>4
  <2>3. addr_to_origaddr' \in [Nodes \X Slots -> Origin \cup {NoOrigin}]
    BY <1>1, <1>4
  <2> QED BY <1>1, <1>3, <2>1, <2>2, <2>3 DEF TypeOK
<1>9. NothingLost'
  <2>1. ASSUME NEW b \in Addrs PROVE (stash'[b] = NoLeaf) # (posMap'[b] = NoLine)
    BY <1>2, <1>5, NoValues DEF IInv, NothingLost
  <2>2. ASSUME NEW b \in Addrs, posMap'[b] # NoLine
        PROVE  addr_to_origaddr'[<<posMap'[b].node_id, posMap'[b].offset>>] =
                 [original_address |-> b, block_id |-> posMap'[b].block_id]
    <3> DEFINE j == <<posMap[b].node_id, posMap[b].offset>>
    <3>1. b # a /\ posMap'[b] = posMap[b] /\ posMap[b] # NoLine
      BY <1>5, <2>2
    <3>2. /\ addr_to_origaddr[j] = [original_address |-> b, block_id |-> posMap[b].block_id]
          /\ j \in Nodes \X Slots
      BY <1>3, <3>1, LineFacts DEF IInv, NothingLost
    <3>3. j # k
      <4>1. addr_to_origaddr[j].original_address = b
        BY <3>2
      <4>2. addr_to_origaddr[k].original_address = a
        BY <1>2
      <4> QED BY <3>1, <4>1, <4>2
    <3> QED BY <1>5, <3>1, <3>2, <3>3
  <2>3. ASSUME NEW j \in Nodes \X Slots, addr_to_origaddr'[j] # NoOrigin
        PROVE  LET line == posMap'[addr_to_origaddr'[j].original_address]
               IN  <<line.node_id, line.offset>> = j
    <3> DEFINE b == addr_to_origaddr[j].original_address
    <3>1. j # k /\ addr_to_origaddr'[j] = addr_to_origaddr[j] /\ addr_to_origaddr[j] # NoOrigin
      BY <1>5, <2>3
    <3>2. b \in Addrs /\ <<posMap[b].node_id, posMap[b].offset>> = j
      BY <1>3, <3>1, OriginFacts DEF IInv, NothingLost
    <3>3. b # a
      BY <1>2, <3>1, <3>2
    <3> QED BY <1>5, <3>1, <3>2, <3>3
  <2> QED BY <2>1, <2>2, <2>3 DEF NothingLost
<1>10. OnOwnPath'
  BY <1>1, <1>5 DEF IInv, OnOwnPath
<1>11. BucketsServeReads'
  BY <1>1, <1>5 DEF IInv, BucketsServeReads, SlotsUnread, BucketsNotExhausted
<1>12. \A b \in Addrs : SetOf(b) # set => posMap'[b] = posMap[b] /\ stash'[b] = stash[b]
  BY <1>2, <1>5
<1>13. PendingIsAwaited'
  <2>1. ASSUME NEW b \in Addrs, posMap'[b].pending
        PROVE  head'[SetOf(b)].next_step = 3 /\ head'[SetOf(b)].original_address = b
    <3>1. b # a /\ posMap[b].pending
      BY <1>5, <2>1 DEF NoLine
    <3>2. head[SetOf(b)].next_step = 3 /\ head[SetOf(b)].original_address = b
      BY <3>1 DEF IInv, PendingIsAwaited
    <3>3. SetOf(b) # set /\ SetOf(b) \in Sets
      BY <3>1, <3>2, SetOfAddr DEF a
    <3> QED BY <1>7, <3>2, <3>3
  <2>2. ASSUME NEW s \in Sets, head'[s].next_step = 3, head'[s].node_id # NoNode
        PROVE  LET line == posMap'[head'[s].original_address]
               IN  /\ line.pending
                   /\ <<line.node_id, line.offset>> = <<head'[s].node_id, head'[s].offset>>
    <3>1. s # set
      BY <1>6, <1>7, <2>2
    <3> QED BY <1>1, <1>7, <1>12, <2>2, <3>1, OtherHeads
  <2> QED BY <2>1, <2>2 DEF PendingIsAwaited
<1>14. AccessDelivers'
  <2> SUFFICES ASSUME NEW s \in Sets, head'[s].original_address # NoAddr,
                      \/ head'[s].next_step = 4 \/ head'[s].next_step = 5
                      \/ head'[s].next_step = 6 /\ set_cnt'[s] # 0
               PROVE  stash'[head'[s].original_address] # NoLeaf
    BY DEF AccessDelivers
  <2>1. CASE s = set
    BY <1>2, <1>5, <1>7, <2>1, NoValues
  <2>2. CASE s # set
    BY <1>1, <1>7, <1>12, <2>2, OtherHeads
  <2> QED BY <2>1, <2>2
<1>15. HeadsFollow'
  <2> SUFFICES ASSUME NEW s \in Sets PROVE HeadFollows(s)'
    BY DEF HeadsFollow
  <2>1. CASE s = set
    BY <1>1, <1>2, <1>6, <1>7, <2>1 DEF HeadFollows
  <2>2. CASE s # set
    BY <1>1, <1>7, <1>12, <2>2, OtherHeads
  <2> QED BY <2>1, <2>2
<1> QED BY <1>8, <1>9, <1>10, <1>11, <1>13, <1>14, <1>15 DEF IInv

-----------------------------------------------------------------------------
(***************************************************************************)
(* The counters of a bucket.                                               *)
(***************************************************************************)
BucketOK(acc, s, z) ==
  /\ z \subseteq Slots /\ acc \in 0 .. S /\ s \in 0 .. S /\ acc <= S - 1
  /\ acc = (S - s) + (Z - Cardinality(z)) /\ Z - Cardinality(z) <= s

LEMMA SlotsCounted ==
  /\ Cardinality(Slots) = Z
  /\ \A z \in SUBSET Slots : IsFiniteSet(z) /\ Cardinality(z) \in 0 .. Z
<1>1. IsFiniteSet(Slots) /\ Cardinality(Slots) = Z
  BY Sizes, FS_Interval DEF Slots
<1>2. ASSUME NEW z \in SUBSET Slots PROVE IsFiniteSet(z) /\ Cardinality(z) \in 0 .. Z
  <2>1. IsFiniteSet(z) /\ Cardinality(z) <= Z /\ Cardinality(z) \in Nat
    BY <1>1, FS_Subset, FS_CardinalityType
  <2> QED BY <2>1, Sizes
<1> QED BY <1>1, <1>2

\* A new bucket.
LEMMA NewBucket == BucketOK(0, S, Slots)
BY Sizes, SlotsCounted DEF BucketOK

\* A read that takes a block's slot, and one that takes a dummy, from a bucket that
\* is not nearly exhausted.
LEMMA ReadBucket ==
  ASSUME NEW acc, NEW s, NEW z, BucketOK(acc, s, z), acc # S - 1
  PROVE  /\ BucketOK(acc + 1, s - 1, z)
         /\ \A o \in z : BucketOK(acc + 1, s, z \ {o})
<1>1. z \in SUBSET Slots /\ acc \in Nat /\ s \in Nat /\ acc <= S - 2 /\ s <= S
  BY Sizes DEF BucketOK
<1> DEFINE c == Cardinality(z)
<1>2. c \in Nat /\ c <= Z /\ acc = (S - s) + (Z - c)
  BY <1>1, SlotsCounted, Sizes DEF BucketOK
<1> HIDE DEF c
<1>3. BucketOK(acc + 1, s - 1, z)
  BY <1>1, <1>2, Sizes DEF BucketOK, c
<1>4. ASSUME NEW o \in z PROVE BucketOK(acc + 1, s, z \ {o})
  <2>1. Cardinality(z \ {o}) = c - 1
    BY <1>1, SlotsCounted, FS_RemoveElement DEF c
  <2>2. z \ {o} \subseteq Slots
    BY <1>1
  <2> QED BY <1>1, <1>2, <2>1, <2>2, Sizes DEF BucketOK
<1> QED BY <1>3, <1>4

\* BucketsNotExhausted says so of every bucket.
LEMMA BucketsAreOK ==
  ASSUME TypeOK
  PROVE  BucketsNotExhausted <=> \A n \in Nodes : BucketOK(accessed_times[n], s_arr[n], z_arr[n])
BY DEF TypeOK, BucketsNotExhausted, BucketOK

-----------------------------------------------------------------------------
LEMMA WritebackInv ==
  ASSUME IInv, NEW set \in Sets, Writeback(set)
  PROVE  IInv' /\ StaysInSet(set) /\ KeepsLeaves
<1> DEFINE leaf == wb_block_id_last[set]
           N    == SetPath(leaf)
<1>1. /\ head[set].next_step = 5
      /\ z_arr' = FreshSlots(Path(leaf))
      /\ s_arr' = Fresh(s_arr, Path(leaf), S)
      /\ accessed_times' = Fresh(accessed_times, Path(leaf), 0)
      /\ head' = [head EXCEPT ![set].next_step = 6]
      /\ ring_counter' = ring_counter /\ wb_block_id_last' = wb_block_id_last
      /\ set_cnt' = set_cnt
  BY DEF Writeback
<1>2. PICK where \in Refills(StashWith(N), N, TRUE) :
        /\ posMap' = NewMap(N, where) /\ addr_to_origaddr' = NewSlots(N, where)
        /\ stash' = NewStash(N, where)
  BY DEF Writeback, NewMap, NewSlots, NewStash
<1>3. leaf \in LeavesOf(set)
  BY <1>1 DEF IInv, HeadsFollow, HeadFollows
<1>4. TypeOK /\ NothingLost /\ OnOwnPath /\ SlotsUnread /\ BucketsNotExhausted
  BY DEF IInv, BucketsServeReads
<1>5. N \in SUBSET Nodes /\ N \subseteq Path(leaf)
  BY <1>3, LeavesOfSet, PathNodes
<1> HIDE DEF leaf, N
<1>6. MapsAgree(posMap', addr_to_origaddr', stash') /\ MapTypes(posMap', addr_to_origaddr', stash')
  <2>1. /\ MapsAgree(NewMap(N, where), NewSlots(N, where), NewStash(N, where))
        /\ MapTypes(NewMap(N, where), NewSlots(N, where), NewStash(N, where))
    BY <1>4, <1>5, RefillAgrees, RefillTypes
  <2> QED BY <1>2, <2>1
<1>7. ASSUME NEW a \in Addrs
      PROVE  /\ posMap'[a] # NoLine =>
                  /\ posMap'[a].block_id \in LeavesOf(SetOf(a))
                  /\ posMap'[a].node_id \in SetPath(posMap'[a].block_id)
                  /\ Leaf(a) = posMap'[a].block_id
             /\ stash'[a] # NoLeaf => stash'[a] \in LeavesOf(SetOf(a)) /\ Leaf(a) = stash'[a]
             /\ SetOf(a) # set => posMap'[a] = posMap[a] /\ stash'[a] = stash[a]
             /\ posMap'[a].pending => posMap[a].pending
  <2>1. N \in SUBSET SetPath(leaf)
    BY DEF N
  <2>2. /\ NewMap(N, where)[a] # NoLine =>
             /\ NewMap(N, where)[a].block_id \in LeavesOf(SetOf(a))
             /\ NewMap(N, where)[a].node_id \in SetPath(NewMap(N, where)[a].block_id)
             /\ Leaf(a) = NewMap(N, where)[a].block_id
        /\ NewStash(N, where)[a] # NoLeaf =>
             /\ NewStash(N, where)[a] \in LeavesOf(SetOf(a))
             /\ Leaf(a) = NewStash(N, where)[a]
        /\ SetOf(a) # set => NewMap(N, where)[a] = posMap[a] /\ NewStash(N, where)[a] = stash[a]
        /\ NewMap(N, where)[a].pending => posMap[a].pending
    BY <1>3, <1>4, <2>1, RefillPaths
  <2> QED BY <1>2, <2>2
<1>8. ASSUME NEW a \in Addrs, posMap'[a] # NoLine, ~posMap'[a].pending
      PROVE  posMap'[a].offset \in z_arr'[posMap'[a].node_id]
  BY <1>1, <1>2, <1>4, <1>5, <1>8, RefillSlots
<1>9. /\ \A n \in Nodes : z_arr'[n] = IF n \in Path(leaf) THEN Slots ELSE z_arr[n]
      /\ \A n \in Nodes : s_arr'[n] = IF n \in Path(leaf) THEN S ELSE s_arr[n]
      /\ \A n \in Nodes : accessed_times'[n] = IF n \in Path(leaf) THEN 0 ELSE accessed_times[n]
      /\ z_arr' = [n \in Nodes |-> z_arr'[n]] /\ s_arr' = [n \in Nodes |-> s_arr'[n]]
      /\ accessed_times' = [n \in Nodes |-> accessed_times'[n]]
  BY <1>1 DEF Fresh, FreshSlots
<1>10. \A n \in Nodes : BucketOK(accessed_times'[n], s_arr'[n], z_arr'[n])
  <2> SUFFICES ASSUME NEW n \in Nodes PROVE BucketOK(accessed_times'[n], s_arr'[n], z_arr'[n])
    OBVIOUS
  <2>1. CASE n \in Path(leaf)
    BY <1>9, <2>1, NewBucket
  <2>2. CASE n \notin Path(leaf)
    BY <1>4, <1>9, <2>2, BucketsAreOK
  <2> QED BY <2>1, <2>2
<1>11. /\ \A s \in Sets : s # set => head'[s] = head[s]
       /\ head'[set].next_step = 6
       /\ head'[set].original_address = head[set].original_address
       /\ head' \in [Sets -> Task]
  <2>1. head \in [Sets -> Task]
    BY <1>4 DEF TypeOK
  <2>2. /\ \A s \in Sets : s # set => head'[s] = head[s]
        /\ head'[set] = [head[set] EXCEPT !.next_step = 6]
    BY <1>1, <2>1
  <2>3. head'[set] \in Task /\ head'[set].next_step = 6
        /\ head'[set].original_address = head[set].original_address
    BY <2>1, <2>2 DEF Task
  <2> QED BY <1>1, <2>1, <2>2, <2>3
<1>12. TypeOK'
  <2>1. /\ z_arr' \in [Nodes -> SUBSET Slots] /\ s_arr' \in [Nodes -> 0 .. S]
        /\ accessed_times' \in [Nodes -> 0 .. S]
    BY <1>9, <1>10 DEF BucketOK
  <2> QED BY <1>1, <1>4, <1>6, <1>11, <2>1 DEF TypeOK, MapTypes
<1>13. NothingLost'
  BY <1>6 DEF MapsAgree, NothingLost
<1>14. OnOwnPath'
  BY <1>7 DEF OnOwnPath
<1>15. BucketsServeReads'
  <2>1. SlotsUnread'
    BY <1>8 DEF SlotsUnread
  <2>2. BucketsNotExhausted'
    BY <1>10 DEF BucketsNotExhausted, BucketOK
  <2> QED BY <2>1, <2>2 DEF BucketsServeReads
<1>16. PendingIsAwaited'
  <2>1. ASSUME NEW b \in Addrs, posMap'[b].pending
        PROVE  head'[SetOf(b)].next_step = 3 /\ head'[SetOf(b)].original_address = b
    <3>1. head[SetOf(b)].next_step = 3 /\ head[SetOf(b)].original_address = b
      BY <1>7, <2>1 DEF IInv, PendingIsAwaited
    <3>2. SetOf(b) # set /\ SetOf(b) \in Sets
      BY <1>1, <3>1, SetOfAddr
    <3> QED BY <1>11, <3>1, <3>2
  <2>2. ASSUME NEW s \in Sets, head'[s].next_step = 3, head'[s].node_id # NoNode
        PROVE  LET line == posMap'[head'[s].original_address]
               IN  /\ line.pending
                   /\ <<line.node_id, line.offset>> = <<head'[s].node_id, head'[s].offset>>
    <3>1. s # set
      BY <1>11, <2>2
    <3> QED BY <1>1, <1>7, <1>11, <2>2, <3>1, OtherHeads
  <2> QED BY <2>1, <2>2 DEF PendingIsAwaited
<1>17. AccessDelivers'
  <2> SUFFICES ASSUME NEW s \in Sets, head'[s].original_address # NoAddr,
                      \/ head'[s].next_step = 4 \/ head'[s].next_step = 5
                      \/ head'[s].next_step = 6 /\ set_cnt'[s] # 0
               PROVE  stash'[head'[s].original_address] # NoLeaf
    BY DEF AccessDelivers
  <2>1. set_cnt[set] = 0
    BY <1>1 DEF IInv, HeadsFollow, HeadFollows
  <2>2. s # set
    BY <1>1, <1>11, <2>1
  <2> QED BY <1>1, <1>7, <1>11, <2>2, OtherHeads
<1>18. HeadsFollow'
  <2> SUFFICES ASSUME NEW s \in Sets PROVE HeadFollows(s)'
    BY DEF HeadsFollow
  <2>1. CASE s = set
    BY <1>11, <2>1 DEF IInv, HeadsFollow, HeadFollows
  <2>2. CASE s # set
    BY <1>1, <1>7, <1>11, <2>2, OtherHeads
  <2> QED BY <2>1, <2>2
<1>19. StaysInSet(set)
  <2>1. ASSUME NEW s \in Sets, s # set, NEW n \in SetNodes(s)
        PROVE  z_arr'[n] = z_arr[n] /\ s_arr'[n] = s_arr[n] /\ accessed_times'[n] = accessed_times[n]
    BY <1>3, <1>9, <2>1, OtherBuckets
  <2> QED BY <1>7, <1>11, <2>1 DEF StaysInSet
<1>20. KeepsLeaves
  BY <1>7, <1>13 DEF KeepsLeaves, Leaf, NothingLost
<1> QED BY <1>12, <1>13, <1>14, <1>15, <1>16, <1>17, <1>18, <1>19, <1>20 DEF IInv

-----------------------------------------------------------------------------
LEMMA TakeSlotsInv ==
  ASSUME IInv, NEW set \in Sets, TakeSlots(set)
  PROVE  IInv' /\ StaysInSet(set) /\ KeepsLeaves
<1> DEFINE task    == head[set]
           a       == task.original_address
           path    == SetPath(task.block_id)
           early   == {n \in path : Exhausted(n)}
           touched == {n \in path : n >= CacheEnd}
           z1      == FreshSlots(early)
           s1      == Fresh(s_arr, early, S)
           acc1    == Fresh(accessed_times, early, 0)
<1>1. PICK where \in Refills(StashWith(early), early, FALSE) :
        LET pm   == NewMap(early, where)
            line == Intended(pm, a)
        IN  /\ posMap' = IF line = NoLine THEN pm ELSE [pm EXCEPT ![a].pending = TRUE]
            /\ addr_to_origaddr' = NewSlots(early, where)
            /\ stash' = NewStash(early, where)
            /\ z_arr' = [n \in Nodes |-> IF n \in touched /\ n = line.node_id
                                           THEN z1[n] \ {line.offset} ELSE z1[n]]
            /\ s_arr' = [n \in Nodes |-> IF n \in touched /\ n # line.node_id
                                           THEN s1[n] - 1 ELSE s1[n]]
            /\ head' = [head EXCEPT ![set].next_step = 3,
                                    ![set].node_id = line.node_id,
                                    ![set].offset = line.offset]
  BY DEF TakeSlots, NewMap, NewSlots, NewStash
<1> DEFINE pm   == NewMap(early, where)
           line == Intended(pm, a)
<1>2. /\ task.next_step = 2
      /\ accessed_times' = [n \in Nodes |-> IF n \in touched THEN acc1[n] + 1 ELSE acc1[n]]
      /\ ring_counter' = ring_counter /\ wb_block_id_last' = wb_block_id_last
      /\ set_cnt' = set_cnt
  BY DEF TakeSlots
<1>3. TypeOK /\ NothingLost /\ OnOwnPath /\ SlotsUnread /\ BucketsNotExhausted
  BY DEF IInv, BucketsServeReads
<1>4. /\ task.block_id \in LeavesOf(set) /\ a \in Addrs \cup {NoAddr}
      /\ a # NoAddr => SetOf(a) = set
  BY <1>2, <1>3, HeadType DEF IInv, HeadsFollow, HeadFollows
<1>5. path \subseteq Nodes /\ early \in SUBSET Nodes /\ early \in SUBSET path
  BY <1>4, LeavesOfSet, PathNodes
<1>6. \A n \in Nodes : /\ z1[n] = IF n \in early THEN Slots ELSE z_arr[n]
                       /\ s1[n] = IF n \in early THEN S ELSE s_arr[n]
                       /\ acc1[n] = IF n \in early THEN 0 ELSE accessed_times[n]
  BY DEF FreshSlots, Fresh
<1>7. \A n \in touched : n \notin early => accessed_times[n] # S - 1
  BY DEF Exhausted
<1>8. touched \subseteq path
  OBVIOUS
<1>9. IF a # NoAddr /\ pm[a] # NoLine /\ ~pm[a].pending THEN line = pm[a] ELSE line = NoLine
  BY DEF Intended, Readable
<1>10. where \in Refills(StashWith(early), early, FALSE)
  OBVIOUS
<1>11. /\ MapsAgree(pm, addr_to_origaddr', stash') /\ MapTypes(pm, addr_to_origaddr', stash')
  <2> HIDE DEF early
  <2>1. /\ MapsAgree(NewMap(early, where), NewSlots(early, where), NewStash(early, where))
        /\ MapTypes(NewMap(early, where), NewSlots(early, where), NewStash(early, where))
    BY <1>3, <1>5, RefillAgrees, RefillTypes
  <2> QED BY <1>1, <2>1
<1>12. ASSUME NEW b \in Addrs
       PROVE  /\ pm[b] # NoLine =>
                   /\ pm[b].block_id \in LeavesOf(SetOf(b)) /\ pm[b].node_id \in SetPath(pm[b].block_id)
                   /\ Leaf(b) = pm[b].block_id
              /\ stash'[b] # NoLeaf => stash'[b] \in LeavesOf(SetOf(b)) /\ Leaf(b) = stash'[b]
              /\ SetOf(b) # set => pm[b] = posMap[b] /\ stash'[b] = stash[b]
              /\ pm[b].pending => posMap[b].pending
  <2> HIDE DEF early
  <2>1. stash' = NewStash(early, where)
    BY <1>1
  <2>2. early \in SUBSET SetPath(task.block_id)
    BY <1>5
  <2> DEFINE leaf == task.block_id
  <2>3. leaf \in LeavesOf(set) /\ early \in SUBSET SetPath(leaf)
    BY <1>4, <2>2
  <2> HIDE DEF path, task, leaf, pm
  <2>4. /\ NewMap(early, where)[b] # NoLine =>
             /\ NewMap(early, where)[b].block_id \in LeavesOf(SetOf(b))
             /\ NewMap(early, where)[b].node_id \in SetPath(NewMap(early, where)[b].block_id)
             /\ Leaf(b) = NewMap(early, where)[b].block_id
        /\ NewStash(early, where)[b] # NoLeaf =>
             /\ NewStash(early, where)[b] \in LeavesOf(SetOf(b))
             /\ Leaf(b) = NewStash(early, where)[b]
        /\ SetOf(b) # set => NewMap(early, where)[b] = posMap[b] /\ NewStash(early, where)[b] = stash[b]
        /\ NewMap(early, where)[b].pending => posMap[b].pending
    BY <1>3, <1>10, <2>3, RefillPaths
  <2> QED BY <2>1, <2>4 DEF pm
<1>13. ASSUME NEW b \in Addrs, pm[b] # NoLine, ~pm[b].pending
       PROVE  pm[b].offset \in z1[pm[b].node_id]
  <2> HIDE DEF early
  <2> QED BY <1>3, <1>5, <1>13, RefillSlots
<1>14. /\ posMap' = IF line = NoLine THEN pm ELSE [pm EXCEPT ![a].pending = TRUE]
       /\ z_arr' = [n \in Nodes |-> IF n \in touched /\ n = line.node_id
                                      THEN z1[n] \ {line.offset} ELSE z1[n]]
       /\ s_arr' = [n \in Nodes |-> IF n \in touched /\ n # line.node_id
                                      THEN s1[n] - 1 ELSE s1[n]]
       /\ head' = [head EXCEPT ![set].next_step = 3, ![set].node_id = line.node_id,
                               ![set].offset = line.offset]
  BY <1>1
<1> HIDE DEF early, touched, path, pm, line, z1, s1, acc1
<1>15. ASSUME NEW b \in Addrs, SetOf(b) = set PROVE ~pm[b].pending
  BY <1>2, <1>12, <1>15, NonePending
<1>16. ASSUME a # NoAddr PROVE (line = pm[a] \/ line = NoLine) /\ (line = NoLine <=> pm[a] = NoLine)
  <2>1. a \in Addrs /\ SetOf(a) = set
    BY <1>4, <1>16
  <2>2. ~pm[a].pending
    BY <1>15, <2>1
  <2> QED BY <1>9, <1>16, <2>2
<1>17. line # NoLine => a # NoAddr /\ a \in Addrs /\ line = pm[a] /\ line \in Line
  <2>1. line # NoLine => a # NoAddr /\ a \in Addrs /\ line = pm[a]
    BY <1>4, <1>9
  <2>2. \A b \in Addrs : pm[b] \in Line \cup {NoLine}
    BY <1>11 DEF MapTypes
  <2> QED BY <2>1, <2>2
<1>18. \A b \in Addrs :
         /\ (posMap'[b] = NoLine) <=> (pm[b] = NoLine)
         /\ posMap'[b].node_id = pm[b].node_id /\ posMap'[b].offset = pm[b].offset
         /\ posMap'[b].block_id = pm[b].block_id
         /\ posMap'[b].pending = IF line # NoLine /\ b = a THEN TRUE ELSE pm[b].pending
         /\ posMap'[b] \in Line \cup {NoLine}
         /\ b # a => posMap'[b] = pm[b]
  <2>1. pm \in [Addrs -> Line \cup {NoLine}]
    BY <1>11 DEF MapTypes
  <2>2. CASE line = NoLine
    BY <1>14, <2>1, <2>2
  <2>3. CASE line # NoLine
    <3>1. posMap' = [pm EXCEPT ![a].pending = TRUE] /\ a \in Addrs /\ pm[a] \in Line
      BY <1>14, <1>17, <2>3
    <3>2. /\ posMap'[a] = [pm[a] EXCEPT !.pending = TRUE]
          /\ \A b \in Addrs : b # a => posMap'[b] = pm[b]
      BY <2>1, <3>1
    <3>3. /\ posMap'[a] \in Line /\ posMap'[a].node_id = pm[a].node_id
          /\ posMap'[a].offset = pm[a].offset /\ posMap'[a].block_id = pm[a].block_id
          /\ posMap'[a].pending = TRUE
      <4>1. pm[a] \in Line /\ posMap'[a] = [pm[a] EXCEPT !.pending = TRUE]
        BY <3>1, <3>2
      <4> HIDE DEF a
      <4>2. DOMAIN pm[a] = {"block_id", "node_id", "offset", "pending"}
        BY <4>1 DEF Line
      <4>3. /\ posMap'[a].node_id = pm[a].node_id /\ posMap'[a].offset = pm[a].offset
            /\ posMap'[a].block_id = pm[a].block_id /\ posMap'[a].pending = TRUE
        BY <4>1, <4>2
      <4>4. posMap'[a] \in Line
        BY <4>1 DEF Line
      <4> QED BY <4>3, <4>4
    <3> QED BY <2>1, <2>3, <3>1, <3>2, <3>3, NoValues
  <2> QED BY <2>2, <2>3
<1>19. DOMAIN posMap' = Addrs /\ posMap' = [b \in Addrs |-> posMap'[b]]
  BY <1>11, <1>14 DEF MapTypes
<1>20. posMap' \in [Addrs -> Line \cup {NoLine}]
  BY <1>18, <1>19
<1>21. \A n \in Nodes :
         /\ z_arr'[n] = IF n \in touched /\ n = line.node_id THEN z1[n] \ {line.offset} ELSE z1[n]
         /\ s_arr'[n] = IF n \in touched /\ n # line.node_id THEN s1[n] - 1 ELSE s1[n]
         /\ accessed_times'[n] = IF n \in touched THEN acc1[n] + 1 ELSE acc1[n]
  BY <1>2, <1>14
<1>22. \A n \in Nodes : BucketOK(accessed_times'[n], s_arr'[n], z_arr'[n])
  <2> SUFFICES ASSUME NEW n \in Nodes PROVE BucketOK(accessed_times'[n], s_arr'[n], z_arr'[n])
    OBVIOUS
  <2>1. BucketOK(acc1[n], s1[n], z1[n])
    <3>1. CASE n \in early
      BY <1>6, <3>1, NewBucket
    <3>2. CASE n \notin early
      BY <1>3, <1>6, <3>2, BucketsAreOK
    <3> QED BY <3>1, <3>2
  <2>2. n \in touched => acc1[n] # S - 1
    BY <1>6, <1>7, Sizes
  <2>3. CASE n \notin touched
    BY <1>21, <2>1, <2>3
  <2>4. CASE n \in touched /\ n # line.node_id
    <3>1. BucketOK(acc1[n] + 1, s1[n] - 1, z1[n])
      BY <2>1, <2>2, <2>4, ReadBucket
    <3> QED BY <1>21, <2>4, <3>1
  <2>5. CASE n \in touched /\ n = line.node_id
    <3>1. line # NoLine
      <4>1. NoLine.node_id = NoNode
        BY DEF NoLine
      <4> QED BY <2>5, <4>1, NoValues
    <3>2. line.offset \in z1[n]
      BY <1>9, <1>13, <1>17, <2>5, <3>1
    <3>3. BucketOK(acc1[n] + 1, s1[n], z1[n] \ {line.offset})
      BY <2>1, <2>2, <2>5, <3>2, ReadBucket
    <3> QED BY <1>21, <2>5, <3>3
  <2> QED BY <2>3, <2>4, <2>5
<1>23. /\ \A s \in Sets : s # set => head'[s] = head[s]
       /\ head'[set].next_step = 3 /\ head'[set].original_address = a
       /\ head'[set].block_id = task.block_id
       /\ head'[set].node_id = line.node_id /\ head'[set].offset = line.offset
       /\ head' \in [Sets -> Task]
  <2>1. head \in [Sets -> Task] /\ head[set] \in Task
    BY <1>3 DEF TypeOK
  <2>2. line.node_id \in Nodes \cup {NoNode} /\ line.offset \in Slots \cup {-1}
    <3>1. NoLine.node_id = NoNode /\ NoLine.offset = -1
      BY DEF NoLine
    <3>2. line \in Line => line.node_id \in Nodes /\ line.offset \in Slots
      BY DEF Line
    <3> QED BY <1>17, <3>1, <3>2
  <2>3. /\ \A s \in Sets : s # set => head'[s] = head[s]
        /\ head'[set] = [head[set] EXCEPT !.next_step = 3, !.node_id = line.node_id,
                                          !.offset = line.offset]
    BY <1>14, <2>1
  <2>4. head'[set] \in Task
    <3>1. 3 \in 2 .. 6
      OBVIOUS
    <3> QED BY <2>1, <2>2, <2>3, <3>1 DEF Task
  <2>5. /\ head'[set].next_step = 3 /\ head'[set].original_address = head[set].original_address
        /\ head'[set].block_id = head[set].block_id
        /\ head'[set].node_id = line.node_id /\ head'[set].offset = line.offset
    BY <2>1, <2>3 DEF Task
  <2> QED BY <1>14, <2>1, <2>3, <2>4, <2>5
<1>24. TypeOK'
  <2>1. /\ z_arr' \in [Nodes -> SUBSET Slots] /\ s_arr' \in [Nodes -> 0 .. S]
        /\ accessed_times' \in [Nodes -> 0 .. S]
    <3>1. /\ z_arr' = [n \in Nodes |-> z_arr'[n]] /\ s_arr' = [n \in Nodes |-> s_arr'[n]]
          /\ accessed_times' = [n \in Nodes |-> accessed_times'[n]]
      BY <1>2, <1>14
    <3> QED BY <1>22, <3>1 DEF BucketOK
  <2> QED BY <1>2, <1>3, <1>11, <1>20, <1>23, <2>1 DEF TypeOK, MapTypes
<1>25. NothingLost'
  <2>1. \A k \in Nodes \X Slots : addr_to_origaddr'[k] # NoOrigin =>
           addr_to_origaddr'[k].original_address \in Addrs
    BY <1>11 DEF MapTypes, Origin
  <2>2. \A b \in Addrs : (stash'[b] = NoLeaf) # (posMap'[b] = NoLine)
    BY <1>11, <1>18 DEF MapsAgree
  <2>3. ASSUME NEW b \in Addrs, posMap'[b] # NoLine
        PROVE  addr_to_origaddr'[<<posMap'[b].node_id, posMap'[b].offset>>] =
                 [original_address |-> b, block_id |-> posMap'[b].block_id]
    <3>1. /\ pm[b] # NoLine /\ posMap'[b].node_id = pm[b].node_id
          /\ posMap'[b].offset = pm[b].offset /\ posMap'[b].block_id = pm[b].block_id
      BY <1>18, <2>3
    <3>2. addr_to_origaddr'[<<pm[b].node_id, pm[b].offset>>] =
            [original_address |-> b, block_id |-> pm[b].block_id]
      BY <1>11, <3>1 DEF MapsAgree
    <3> QED BY <3>1, <3>2
  <2>4. ASSUME NEW k \in Nodes \X Slots, addr_to_origaddr'[k] # NoOrigin
        PROVE  LET l == posMap'[addr_to_origaddr'[k].original_address]
               IN  <<l.node_id, l.offset>> = k
    BY <1>11, <1>18, <2>1, <2>4 DEF MapsAgree
  <2> QED BY <2>2, <2>3, <2>4 DEF NothingLost
<1>26. OnOwnPath'
  BY <1>12, <1>18 DEF OnOwnPath
<1>27. SlotsUnread'
  <2> SUFFICES ASSUME NEW b \in Addrs, posMap'[b] # NoLine, ~posMap'[b].pending
               PROVE  posMap'[b].offset \in z_arr'[posMap'[b].node_id]
    BY DEF SlotsUnread
  <2> DEFINE n == pm[b].node_id
  <2>1. pm[b] # NoLine /\ ~pm[b].pending /\ ~(line # NoLine /\ b = a)
    BY <1>18
  <2>2. pm[b].offset \in z1[n] /\ n \in Nodes /\ pm[b].offset \in Slots
    <3>1. pm[b] \in Line
      BY <1>11, <2>1 DEF MapTypes
    <3> QED BY <1>13, <2>1, <3>1 DEF Line
  <2>3. ASSUME n \in touched, n = line.node_id PROVE pm[b].offset # line.offset
    <3>1. line # NoLine
      <4>1. NoLine.node_id = NoNode
        BY DEF NoLine
      <4> QED BY <2>2, <2>3, <4>1, NoValues
    <3>2. a \in Addrs /\ line = pm[a] /\ b # a /\ pm[a] # NoLine
      BY <1>17, <2>1, <3>1
    <3>3. /\ addr_to_origaddr'[<<pm[a].node_id, pm[a].offset>>].original_address = a
          /\ addr_to_origaddr'[<<pm[b].node_id, pm[b].offset>>].original_address = b
      <4>1. /\ addr_to_origaddr'[<<pm[a].node_id, pm[a].offset>>] =
                  [original_address |-> a, block_id |-> pm[a].block_id]
            /\ addr_to_origaddr'[<<pm[b].node_id, pm[b].offset>>] =
                  [original_address |-> b, block_id |-> pm[b].block_id]
        BY <1>11, <2>1, <3>2 DEF MapsAgree
      <4> QED BY <4>1
    <3> QED BY <2>3, <3>2, <3>3
  <2>4. pm[b].offset \in z_arr'[n]
    BY <1>21, <2>2, <2>3
  <2> QED BY <1>18, <2>4
<1>28. BucketsServeReads'
  <2>1. BucketsNotExhausted'
    BY <1>22 DEF BucketsNotExhausted, BucketOK
  <2> QED BY <1>27, <2>1 DEF BucketsServeReads
<1>29. \A b \in Addrs : SetOf(b) # set => posMap'[b] = posMap[b] /\ stash'[b] = stash[b]
  <2> SUFFICES ASSUME NEW b \in Addrs, SetOf(b) # set
               PROVE  posMap'[b] = posMap[b] /\ stash'[b] = stash[b]
    OBVIOUS
  <2>1. pm[b] = posMap[b] /\ stash'[b] = stash[b]
    BY <1>12
  <2>2. b # a
    BY <1>4, NoValues
  <2> QED BY <1>18, <2>1, <2>2
<1>30. PendingIsAwaited'
  <2>1. ASSUME NEW b \in Addrs, posMap'[b].pending
        PROVE  head'[SetOf(b)].next_step = 3 /\ head'[SetOf(b)].original_address = b
    <3>1. CASE line # NoLine /\ b = a
      <4>1. SetOf(b) = set
        BY <1>4, <1>17, <3>1
      <4> QED BY <1>23, <3>1, <4>1
    <3>2. CASE ~(line # NoLine /\ b = a)
      <4>1. posMap[b].pending
        BY <1>12, <1>18, <2>1, <3>2
      <4>2. head[SetOf(b)].next_step = 3 /\ head[SetOf(b)].original_address = b
        BY <4>1 DEF IInv, PendingIsAwaited
      <4>3. SetOf(b) # set /\ SetOf(b) \in Sets
        BY <1>2, <4>2, SetOfAddr
      <4> QED BY <1>23, <4>2, <4>3
    <3> QED BY <3>1, <3>2
  <2>2. ASSUME NEW s \in Sets, head'[s].next_step = 3, head'[s].node_id # NoNode
        PROVE  LET l == posMap'[head'[s].original_address]
               IN  /\ l.pending
                   /\ <<l.node_id, l.offset>> = <<head'[s].node_id, head'[s].offset>>
    <3>1. CASE s = set
      <4>1. line # NoLine
        <5>1. NoLine.node_id = NoNode
          BY DEF NoLine
        <5> QED BY <1>23, <2>2, <3>1, <5>1
      <4>2. a \in Addrs /\ line = pm[a] /\ head'[s].original_address = a
        BY <1>17, <1>23, <3>1, <4>1
      <4>3. posMap'[a].pending /\ posMap'[a].node_id = line.node_id /\ posMap'[a].offset = line.offset
        BY <1>18, <4>1, <4>2
      <4> QED BY <1>23, <3>1, <4>2, <4>3
    <3>2. CASE s # set
      BY <1>2, <1>23, <1>29, <2>2, <3>2, OtherHeads
    <3> QED BY <3>1, <3>2
  <2> QED BY <2>1, <2>2 DEF PendingIsAwaited
<1>31. AccessDelivers'
  <2> SUFFICES ASSUME NEW s \in Sets, head'[s].original_address # NoAddr,
                      \/ head'[s].next_step = 4 \/ head'[s].next_step = 5
                      \/ head'[s].next_step = 6 /\ set_cnt'[s] # 0
               PROVE  stash'[head'[s].original_address] # NoLeaf
    BY DEF AccessDelivers
  <2>1. s # set
    BY <1>23
  <2> QED BY <1>2, <1>23, <1>29, <2>1, OtherHeads
<1>32. HeadsFollow'
  <2> SUFFICES ASSUME NEW s \in Sets PROVE HeadFollows(s)'
    BY DEF HeadsFollow
  <2>1. CASE s = set
    <3>1. line.node_id = NoNode /\ a # NoAddr => stash'[a] # NoLeaf
      <4>1. line \in Line => line.node_id # NoNode
        BY NoValues DEF Line
      <4>2. line.node_id = NoNode /\ a # NoAddr => pm[a] = NoLine /\ a \in Addrs
        BY <1>4, <1>16, <1>17, <4>1
      <4> QED BY <1>11, <4>2 DEF MapsAgree
    <3>2. line.node_id # NoNode => a # NoAddr
      <4>1. NoLine.node_id = NoNode
        BY DEF NoLine
      <4> QED BY <1>17, <4>1
    <3> QED BY <1>4, <1>23, <2>1, <3>1, <3>2 DEF HeadFollows
  <2>2. CASE s # set
    BY <1>2, <1>23, <1>29, <2>2, OtherHeads
  <2> QED BY <2>1, <2>2
<1>33. StaysInSet(set)
  <2>1. ASSUME NEW s \in Sets, s # set, NEW n \in SetNodes(s)
        PROVE  z_arr'[n] = z_arr[n] /\ s_arr'[n] = s_arr[n] /\ accessed_times'[n] = accessed_times[n]
    <3>1. n \in Nodes /\ n \notin Path(task.block_id)
      BY <1>4, <2>1, OtherBuckets
    <3>2. n \notin path
      BY <1>4, <3>1, LeavesOfSet, PathNodes DEF path
    <3>3. n \notin touched /\ n \notin early
      BY <1>5, <1>8, <3>2
    <3> QED BY <1>6, <1>21, <3>1, <3>3
  <2> QED BY <1>23, <1>29, <2>1 DEF StaysInSet
<1>34. KeepsLeaves
  <2> SUFFICES ASSUME NEW b \in Addrs PROVE Leaf(b)' = Leaf(b)
    BY DEF KeepsLeaves
  <2>1. (stash'[b] = NoLeaf) # (posMap'[b] = NoLine)
    BY <1>25 DEF NothingLost
  <2>2. Leaf(b)' = IF posMap'[b] # NoLine THEN posMap'[b].block_id ELSE stash'[b]
    BY DEF Leaf
  <2>3. CASE posMap'[b] # NoLine
    <3>1. pm[b] # NoLine /\ posMap'[b].block_id = pm[b].block_id
      BY <1>18, <2>3
    <3>2. Leaf(b) = pm[b].block_id
      BY <1>12, <3>1
    <3> QED BY <2>2, <2>3, <3>1, <3>2
  <2>4. CASE posMap'[b] = NoLine
    <3>1. Leaf(b) = stash'[b]
      BY <1>12, <2>1, <2>4
    <3> QED BY <2>2, <2>4, <3>1
  <2> QED BY <2>3, <2>4
<1> QED BY <1>24, <1>25, <1>26, <1>28, <1>30, <1>31, <1>32, <1>33, <1>34 DEF IInv

-----------------------------------------------------------------------------
(***************************************************************************)
(* Initial states.                                                         *)
(***************************************************************************)

\* An assignment of blocks to all the slots of the leaves that repeats none uses all.
LEMMA EveryBlockHasAHome ==
  ASSUME NEW home \in [Leaves \X Slots -> Addrs],
         \A x, y \in Leaves \X Slots : home[x] = home[y] => x = y,
         NEW a \in Addrs
  PROVE  \E x \in Leaves \X Slots : home[x] = a
<1>1. IsFiniteSet(Leaves) /\ Cardinality(Leaves) = NumLeaves
  <2>1. NumLeaves - 1 \in Int /\ 0 <= NumLeaves - 1 /\ NumLeaves - 1 - 0 + 1 = NumLeaves
    BY TreeSizes
  <2>2. ~(0 > NumLeaves - 1)
    BY <2>1
  <2> QED BY <2>1, <2>2, FS_Interval DEF Leaves
<1>2. IsFiniteSet(Slots) /\ Cardinality(Slots) = Z
  BY Sizes, FS_Interval DEF Slots
<1>3. IsFiniteSet(Addrs) /\ Cardinality(Addrs) = NumLeaves * Z
  <2>1. NumLeaves * Z \in Nat \ {0}
    BY Sizes, TreeSizes
  <2> QED BY <2>1, FS_Interval DEF Addrs
<1>4. Cardinality(Leaves \X Slots) = NumLeaves * Z
  BY <1>1, <1>2, FS_Product
<1>5. home \in Injection(Leaves \X Slots, Addrs)
  BY DEF Injection, IsInjective
<1>6. home \in Surjection(Leaves \X Slots, Addrs)
  BY <1>3, <1>4, <1>5, FS_Injection
<1> QED BY <1>6 DEF Surjection

LEMMA InitInv == Init => IInv
<1> SUFFICES ASSUME Init PROVE IInv
  OBVIOUS
<1> DEFINE X == Leaves \X Slots
           bottom == num_of_lvls - 1
<1>1. PICK home \in [X -> Addrs] :
        /\ \A x, y \in X : home[x] = home[y] => x = y
        /\ \A x \in X : SetOf(home[x]) = x[1] \div num_of_ways
        /\ posMap = [a \in Addrs |->
                       LET x == CHOOSE x \in X : home[x] = a
                       IN  [block_id |-> x[1], node_id |-> P(x[1], bottom),
                            offset |-> x[2], pending |-> FALSE]]
        /\ addr_to_origaddr =
             [k \in Nodes \X Slots |->
                LET leaf == k[1] - (NumLeaves - 1)
                IN  IF leaf < 0 THEN NoOrigin
                    ELSE [original_address |-> home[<<leaf, k[2]>>], block_id |-> leaf]]
  BY DEF Init
<1>2. /\ stash = [a \in Addrs |-> NoLeaf]
      /\ z_arr = [n \in Nodes |-> Slots]
      /\ s_arr = [n \in Nodes |-> S]
      /\ accessed_times = [n \in Nodes |-> 0]
      /\ ring_counter = [set \in Sets |-> 0]
      /\ wb_block_id_last = [set \in Sets |-> NoLeaf]
      /\ set_cnt = [set \in Sets |-> 0]
      /\ head = [set \in Sets |-> NoTask]
  BY DEF Init
<1>3. PICK at \in [Addrs -> X] : \A a \in Addrs :
        /\ home[at[a]] = a
        /\ posMap[a] = [block_id |-> at[a][1], node_id |-> P(at[a][1], bottom),
                        offset |-> at[a][2], pending |-> FALSE]
  <2> DEFINE at == [a \in Addrs |-> CHOOSE x \in X : home[x] = a]
  <2>1. ASSUME NEW a \in Addrs
        PROVE  /\ at[a] \in X /\ home[at[a]] = a
               /\ posMap[a] = [block_id |-> at[a][1], node_id |-> P(at[a][1], bottom),
                               offset |-> at[a][2], pending |-> FALSE]
    <3>1. \E y \in X : home[y] = a
      BY <1>1, EveryBlockHasAHome
    <3> QED BY <1>1, <3>1
  <2>2. at \in [Addrs -> X]
    BY <2>1
  <2> QED BY <2>1, <2>2
<1>4. ASSUME NEW a \in Addrs
      PROVE  /\ posMap[a] \in Line /\ posMap[a] # NoLine /\ posMap[a].pending = FALSE
             /\ posMap[a].block_id = at[a][1] /\ at[a][1] \in Leaves /\ at[a][2] \in Slots
             /\ posMap[a].node_id = NumLeaves - 1 + at[a][1] /\ posMap[a].offset = at[a][2]
             /\ posMap[a].node_id \in SetPath(posMap[a].block_id)
             /\ posMap[a].block_id \in LeavesOf(SetOf(a))
             /\ at[a] = <<at[a][1], at[a][2]>>
  <2>1. PICK l \in Leaves, i \in Slots : at[a] = <<l, i>>
    BY <1>3
  <2>2. at[a][1] = l /\ at[a][2] = i
    BY <2>1
  <2>3. P(l, bottom) = NumLeaves - 1 + l /\ P(l, bottom) \in SetPath(l) /\ P(l, bottom) \in Nodes
    BY BottomBucket, PathNodes
  <2>4. l \in LeavesOf(SetOf(a))
    <3>1. SetOf(a) = l \div num_of_ways
      BY <1>1, <1>3, <2>2
    <3> QED BY <3>1, SetOfLeaf
  <2> HIDE DEF bottom
  <2>5. posMap[a] = [block_id |-> l, node_id |-> P(l, bottom), offset |-> i, pending |-> FALSE]
    BY <1>3, <2>2
  <2>6. /\ posMap[a].pending = FALSE /\ posMap[a].block_id = l
        /\ posMap[a].node_id = P(l, bottom) /\ posMap[a].offset = i
    BY <2>5
  <2>7. posMap[a] \in Line
    BY <2>3, <2>5 DEF Line
  <2> QED BY <2>1, <2>2, <2>3, <2>4, <2>6, <2>7, NoValues
<1>5. ASSUME NEW k \in Nodes \X Slots
      PROVE  LET leaf == k[1] - (NumLeaves - 1) IN
             \/ addr_to_origaddr[k] = NoOrigin /\ leaf \notin Leaves
             \/ /\ leaf \in Leaves /\ <<leaf, k[2]>> \in X
                /\ addr_to_origaddr[k] =
                     [original_address |-> home[<<leaf, k[2]>>], block_id |-> leaf]
  <2> DEFINE leaf == k[1] - (NumLeaves - 1)
  <2>1. k[1] \in Nodes /\ k[2] \in Slots
    OBVIOUS
  <2>2. leaf \in Int /\ leaf <= NumLeaves - 1 /\ NumLeaves \in Nat \ {0}
    BY <2>1, TreeSizes DEF Nodes
  <2>3. addr_to_origaddr[k] =
          IF leaf < 0 THEN NoOrigin
          ELSE [original_address |-> home[<<leaf, k[2]>>], block_id |-> leaf]
    BY <1>1
  <2> HIDE DEF leaf
  <2>4. leaf < 0 => leaf \notin Leaves
    BY <2>2 DEF Leaves
  <2>5. ~(leaf < 0) => leaf \in Leaves
    BY <2>2 DEF Leaves
  <2> QED BY <2>1, <2>3, <2>4, <2>5 DEF leaf
<1>6. TypeOK
  <2>1. posMap \in [Addrs -> Line \cup {NoLine}]
    <3>1. posMap = [a \in Addrs |-> posMap[a]]
      BY <1>1
    <3> QED BY <1>4, <3>1
  <2>2. addr_to_origaddr \in [Nodes \X Slots -> Origin \cup {NoOrigin}]
    <3>1. addr_to_origaddr = [k \in Nodes \X Slots |-> addr_to_origaddr[k]]
      BY <1>1
    <3>2. ASSUME NEW k \in Nodes \X Slots PROVE addr_to_origaddr[k] \in Origin \cup {NoOrigin}
      <4>1. CASE addr_to_origaddr[k] = NoOrigin
        BY <4>1
      <4>2. CASE addr_to_origaddr[k] # NoOrigin
        <5> DEFINE leaf == k[1] - (NumLeaves - 1)
        <5>1. leaf \in Leaves /\ <<leaf, k[2]>> \in X
              /\ addr_to_origaddr[k] =
                   [original_address |-> home[<<leaf, k[2]>>], block_id |-> leaf]
          BY <1>5, <4>2
        <5>2. home[<<leaf, k[2]>>] \in Addrs
          <6> HIDE DEF leaf, X
          <6> QED BY <1>1, <5>1
        <5> HIDE DEF leaf
        <5> QED BY <5>1, <5>2 DEF Origin
      <4> QED BY <4>1, <4>2
    <3> QED BY <3>1, <3>2
  <2>3. /\ stash \in [Addrs -> Leaves \cup {NoLeaf}] /\ z_arr \in [Nodes -> SUBSET Slots]
        /\ s_arr \in [Nodes -> 0 .. S] /\ accessed_times \in [Nodes -> 0 .. S]
        /\ set_cnt \in [Sets -> 0 .. A - 1] /\ ring_counter \in [Sets -> 0 .. num_of_ways - 1]
        /\ wb_block_id_last \in [Sets -> Leaves \cup {NoLeaf}]
    BY <1>2, Sizes, TreeSizes
  <2>4. head \in [Sets -> Task]
    BY <1>2 DEF NoTask, Task
  <2> QED BY <2>1, <2>2, <2>3, <2>4 DEF TypeOK
<1>7. NothingLost
  <2>1. \A a \in Addrs : (stash[a] = NoLeaf) # (posMap[a] = NoLine)
    BY <1>2, <1>4
  <2>2. ASSUME NEW a \in Addrs
        PROVE  addr_to_origaddr[<<posMap[a].node_id, posMap[a].offset>>] =
                 [original_address |-> a, block_id |-> posMap[a].block_id]
    <3> DEFINE k == <<posMap[a].node_id, posMap[a].offset>>
               leaf == k[1] - (NumLeaves - 1)
    <3>1. k \in Nodes \X Slots
      BY <1>4, <1>6, LineFacts
    <3>2. at[a][1] \in Int /\ NumLeaves \in Int
      BY <1>4, TreeSizes DEF Leaves
    <3>3. leaf = at[a][1] /\ k[2] = at[a][2]
      <4>1. k[1] = NumLeaves - 1 + at[a][1] /\ k[2] = at[a][2]
        BY <1>4
      <4> HIDE DEF k
      <4> QED BY <3>2, <4>1
    <3>4. leaf \in Leaves
      BY <1>4, <3>3
    <3>5. addr_to_origaddr[k] = [original_address |-> home[<<leaf, k[2]>>], block_id |-> leaf]
      BY <1>5, <3>1, <3>4
    <3>6. home[<<leaf, k[2]>>] = a
      <4>1. at[a] = <<at[a][1], at[a][2]>> /\ home[at[a]] = a
        BY <1>3, <1>4
      <4> HIDE DEF leaf, k
      <4> QED BY <3>3, <4>1
    <3> HIDE DEF leaf
    <3> QED BY <1>4, <3>3, <3>5, <3>6
  <2>3. ASSUME NEW k \in Nodes \X Slots, addr_to_origaddr[k] # NoOrigin
        PROVE  LET line == posMap[addr_to_origaddr[k].original_address]
               IN  <<line.node_id, line.offset>> = k
    <3> DEFINE leaf == k[1] - (NumLeaves - 1)
               y    == <<leaf, k[2]>>
    <3>1. /\ leaf \in Leaves /\ y \in X
          /\ addr_to_origaddr[k] = [original_address |-> home[y], block_id |-> leaf]
      BY <1>5, <2>3
    <3>2. home[y] \in Addrs /\ at[home[y]] = y
      BY <1>1, <1>3, <3>1
    <3>3. posMap[home[y]].node_id = NumLeaves - 1 + leaf /\ posMap[home[y]].offset = k[2]
      <4>1. y[1] = leaf /\ y[2] = k[2]
        OBVIOUS
      <4> HIDE DEF y, leaf
      <4> QED BY <1>4, <3>2, <4>1
    <3>4. NumLeaves - 1 + leaf = k[1]
      <4>1. k[1] \in Int /\ NumLeaves \in Int
        BY TreeSizes DEF Nodes
      <4> QED BY <4>1
    <3>5. k = <<k[1], k[2]>>
      OBVIOUS
    <3> HIDE DEF y, leaf
    <3> QED BY <3>1, <3>3, <3>4, <3>5
  <2> QED BY <2>1, <2>2, <2>3 DEF NothingLost
<1>8. OnOwnPath
  BY <1>2, <1>4 DEF OnOwnPath
<1>9. BucketsServeReads
  <2>1. SlotsUnread
    BY <1>2, <1>4, <1>6, LineFacts DEF SlotsUnread
  <2>2. BucketsNotExhausted
    BY <1>2, NewBucket DEF BucketsNotExhausted, BucketOK
  <2> QED BY <2>1, <2>2 DEF BucketsServeReads
<1>10. \A set \in Sets : head[set].next_step = 6 /\ head[set].original_address = NoAddr
  BY <1>2 DEF NoTask
<1>11. PendingIsAwaited
  <2>1. \A a \in Addrs : ~posMap[a].pending
    BY <1>4
  <2>2. \A set \in Sets : head[set].next_step # 3
    BY <1>10
  <2> QED BY <2>1, <2>2 DEF PendingIsAwaited
<1>12. AccessDelivers
  BY <1>10 DEF AccessDelivers
<1>13. HeadsFollow
  BY <1>10 DEF HeadsFollow, HeadFollows
<1> QED BY <1>6, <1>7, <1>8, <1>9, <1>11, <1>12, <1>13 DEF IInv

-----------------------------------------------------------------------------
(***************************************************************************)
(* What a step leaves alone.                                               *)
(***************************************************************************)

\* A pull changes the task and one block of its set, which it maps to the leaf
\* drawn, and no bucket.
LEMMA PullBlockStays ==
  ASSUME IInv, NEW set \in Sets, NEW leaf \in Leaves, PullBlock(set, leaf)
  PROVE  /\ StaysInSet(set)
         /\ head[set].original_address \in Addrs /\ SetOf(head[set].original_address) = set
         /\ leaf \in LeavesOf(set)
         /\ \A b \in Addrs :
              Leaf(b)' = IF b = head[set].original_address THEN leaf ELSE Leaf(b)
<1> DEFINE a == head[set].original_address
<1>1. /\ head[set].next_step = 3 /\ head[set].node_id # NoNode
      /\ leaf \in LeavesOf(SetOf(a))
      /\ posMap' = [posMap EXCEPT ![a] = NoLine]
      /\ stash' = [stash EXCEPT ![a] = leaf]
      /\ head' = [head EXCEPT ![set].next_step = AfterPull(set)]
      /\ z_arr' = z_arr /\ s_arr' = s_arr /\ accessed_times' = accessed_times
  BY DEF PullBlock, RandLeaf
<1>2. a \in Addrs /\ SetOf(a) = set
  BY <1>1, TakenSlotHolds
<1>3. /\ posMap \in [Addrs -> Line \cup {NoLine}] /\ stash \in [Addrs -> Leaves \cup {NoLeaf}]
      /\ head \in [Sets -> Task]
  BY DEF IInv, TypeOK
<1> HIDE DEF a
<1>4. /\ \A b \in Addrs : posMap'[b] = IF b = a THEN NoLine ELSE posMap[b]
      /\ \A b \in Addrs : stash'[b] = IF b = a THEN leaf ELSE stash[b]
      /\ \A s \in Sets : s # set => head'[s] = head[s]
  BY <1>1, <1>3
<1>5. StaysInSet(set)
  BY <1>1, <1>2, <1>4 DEF StaysInSet
<1>6. ASSUME NEW b \in Addrs PROVE Leaf(b)' = IF b = a THEN leaf ELSE Leaf(b)
  BY <1>4 DEF Leaf
<1> QED BY <1>1, <1>2, <1>5, <1>6 DEF a

\* A step is of one set: that set's task takes it, and it stays in the set.
LEMMA StepStays ==
  ASSUME IInv, Next
  PROVE  \E set \in Sets : StaysInSet(set)
<1>1. TypeOK
  BY DEF IInv
<1>2. ASSUME NEW set \in Sets, NEW a \in Requests, NEW leaf \in LeavesOf(set),
             ChoosePath(set, a, leaf)
      PROVE  StaysInSet(set)
  BY <1>1, <1>2, TreeKeptStays DEF ChoosePath
<1>3. ASSUME NEW set \in Sets, PullDummies(set) PROVE StaysInSet(set)
  <2>1. head' = [head EXCEPT ![set] = [head[set] EXCEPT !.next_step = AfterPull(set)]]
        /\ UNCHANGED treeVars
    BY <1>3 DEF PullDummies
  <2> QED BY <1>1, <2>1, TreeKeptStays
<1>4. ASSUME NEW set \in Sets, ChooseWritePath(set) PROVE StaysInSet(set)
  <2>1. head' = [head EXCEPT ![set] = [head[set] EXCEPT !.next_step = 5]]
        /\ UNCHANGED treeVars
    BY <1>4 DEF ChooseWritePath
  <2> QED BY <1>1, <2>1, TreeKeptStays
<1> QED BY <1>2, <1>3, <1>4, TakeSlotsInv, PullBlockStays, WritebackInv DEF Next

-----------------------------------------------------------------------------
(***************************************************************************)
(* Theorems.                                                               *)
(***************************************************************************)

\* IInv holds in every reachable state.
THEOREM TreeInvariance == Spec => []IInv
<1>1. IInv /\ [Next]_vars => IInv'
  <2> SUFFICES ASSUME IInv, [Next]_vars PROVE IInv'
    OBVIOUS
  <2>1. ASSUME NEW set \in Sets, NEW a \in Requests, NEW leaf \in LeavesOf(set),
               ChoosePath(set, a, leaf)
        PROVE  IInv'
    BY <2>1, ChoosePathInv
  <2>2. ASSUME NEW set \in Sets, TakeSlots(set) PROVE IInv'
    BY <2>2, TakeSlotsInv
  <2>3. ASSUME NEW set \in Sets, NEW leaf \in Leaves, PullBlock(set, leaf) PROVE IInv'
    BY <2>3, PullBlockInv
  <2>4. ASSUME NEW set \in Sets, PullDummies(set) PROVE IInv'
    BY <2>4, PullDummiesInv
  <2>5. ASSUME NEW set \in Sets, ChooseWritePath(set) PROVE IInv'
    BY <2>5, ChooseWritePathInv
  <2>6. ASSUME NEW set \in Sets, Writeback(set) PROVE IInv'
    BY <2>6, WritebackInv
  <2>7. CASE UNCHANGED vars
    <3>1. /\ UNCHANGED treeVars /\ ring_counter' = ring_counter
          /\ wb_block_id_last' = wb_block_id_last /\ set_cnt' = set_cnt /\ head' = head
      BY <2>7 DEF vars
    <3>2. posMap' = posMap /\ stash' = stash
      BY <3>1 DEF treeVars
    <3>3. TypeOK'
      BY <3>1, TreeKept DEF IInv, TypeOK
    <3>4. PendingIsAwaited' /\ AccessDelivers'
      BY <3>1, <3>2 DEF IInv, PendingIsAwaited, AccessDelivers
    <3>5. HeadsFollow'
      BY <3>1, <3>2 DEF IInv, HeadsFollow, HeadFollows
    <3> QED BY <3>1, <3>3, <3>4, <3>5, TreeKept DEF IInv
  <2> QED BY <2>1, <2>2, <2>3, <2>4, <2>5, <2>6, <2>7 DEF Next
<1> QED BY <1>1, InitInv, PTL DEF Spec

\* Every variable keeps its type.
THEOREM TreeTypeCorrect == Spec => []TypeOK
<1>1. IInv => TypeOK
  BY DEF IInv
<1> QED BY <1>1, TreeInvariance, PTL

\* Reads, early reshuffles and write-backs of any sets in any order lose and
\* duplicate no block (init_step over posMap, addr_to_origaddr and stash).
THEOREM NoBlockLost == Spec => []NothingLost
<1>1. IInv => NothingLost
  BY DEF IInv
<1> QED BY <1>1, TreeInvariance, PTL

\* A block of the tree is on the path to its leaf, a leaf of its own set.
THEOREM BlocksOnPath == Spec => []OnOwnPath
<1>1. IInv => OnOwnPath
  BY DEF IInv
<1> QED BY <1>1, TreeInvariance, PTL

\* Every read of a bucket finds an unread slot, the block's own or a dummy: the
\* asserts of take_z, next_s and check_early_need.
THEOREM ReadsServed == Spec => []BucketsServeReads
<1>1. IInv => BucketsServeReads
  BY DEF IInv
<1> QED BY <1>1, TreeInvariance, PTL

\* After its pull a task's block is in the stash, wherever it was moved meanwhile.
THEOREM AccessesDeliver == Spec => []AccessDelivers
<1>1. IInv => AccessDelivers
  BY DEF IInv
<1> QED BY <1>1, TreeInvariance, PTL

\* The tasks of different sets interleave at every step, and none of them changes
\* a block or a bucket of another set.
THEOREM SetsIsolated == Spec => SetsAreIsolated
<1> DEFINE Isolated == \A set, other \in Sets :
             set # other /\ head'[set] # head[set] => UNCHANGED SetData(other)
<1>1. ASSUME NEW set \in Sets, NEW other \in Sets, other # set, StaysInSet(set)
      PROVE  UNCHANGED SetData(other)
  <2>1. /\ [a \in AddrsOf(other) |-> <<posMap'[a], stash'[a]>>] =
             [a \in AddrsOf(other) |-> <<posMap[a], stash[a]>>]
        /\ [n \in SetNodes(other) |-> <<z_arr'[n], s_arr'[n], accessed_times'[n]>>] =
             [n \in SetNodes(other) |-> <<z_arr[n], s_arr[n], accessed_times[n]>>]
    BY <1>1 DEF StaysInSet, AddrsOf
  <2> QED BY <2>1 DEF SetData
<1>2. IInv /\ [Next]_vars => [Isolated]_vars
  <2> SUFFICES ASSUME IInv, Next, NEW set \in Sets, NEW other \in Sets, set # other,
                      head'[set] # head[set]
               PROVE  UNCHANGED SetData(other)
    OBVIOUS
  <2>1. PICK s \in Sets : StaysInSet(s)
    BY StepStays
  <2>2. s = set
    BY <2>1 DEF StaysInSet
  <2> QED BY <1>1, <2>1, <2>2
<1> QED BY <1>2, TreeInvariance, PTL DEF Spec, SetsAreIsolated

\* The abstract step of each step: an access begins, remaps its own block or
\* finds it outside the tree; everything else moves no block to another leaf.
LEMMA StepImplements ==
  ASSUME IInv, Next
  PROVE  [Store!Next]_<<[a \in Addrs |-> Leaf(a)], [set \in Sets |-> Accessing(set)]>>
<1> DEFINE lm == [a \in Addrs |-> Leaf(a)]
           am == [set \in Sets |-> Accessing(set)]
<1>1. TypeOK
  BY DEF IInv
<1>2. head \in [Sets -> Task]
  BY <1>1 DEF TypeOK
<1>3. ASSUME NEW set \in Sets, StaysInSet(set)
      PROVE  \A s \in Sets : s # set => Accessing(s)' = Accessing(s)
  BY <1>3 DEF StaysInSet, Accessing
<1>4. KeepsLeaves => lm' = lm
  BY DEF KeepsLeaves
<1>5. ASSUME NEW set \in Sets, StaysInSet(set), KeepsLeaves, Accessing(set)' = Accessing(set)
      PROVE  lm' = lm /\ am' = am
  BY <1>3, <1>4, <1>5
<1>6. ASSUME NEW set \in Sets, StaysInSet(set)
      PROVE  am' = [am EXCEPT ![set] = Accessing(set)']
  BY <1>3, <1>6
<1>7. ASSUME NEW set \in Sets, NEW a \in Requests, NEW leaf \in LeavesOf(set),
             ChoosePath(set, a, leaf)
      PROVE  [Store!Next]_<<lm, am>>
  <2>1. StaysInSet(set) /\ KeepsLeaves
    BY <1>1, <1>7, TreeKeptStays DEF ChoosePath
  <2>2. /\ head[set].next_step = 6 /\ (a # NoAddr => SetOf(a) = set)
        /\ head'[set].next_step = 2 /\ head'[set].original_address = a
    BY <1>2, <1>7 DEF ChoosePath
  <2>3. Accessing(set) = NoAddr /\ Accessing(set)' = a
    BY <2>2 DEF Accessing
  <2>4. CASE a = NoAddr
    BY <1>5, <2>1, <2>3, <2>4
  <2>5. CASE a # NoAddr
    <3>1. a \in Addrs
      BY <2>5, Sizes
    <3>2. am[set] = NoAddr /\ am' = [am EXCEPT ![set] = a] /\ lm' = lm
      BY <1>4, <1>6, <2>1, <2>3
    <3> QED BY <2>2, <2>5, <3>1, <3>2 DEF Store!Next, Store!Begin
  <2> QED BY <2>4, <2>5
<1>8. ASSUME NEW set \in Sets, TakeSlots(set) PROVE [Store!Next]_<<lm, am>>
  <2>1. StaysInSet(set) /\ KeepsLeaves
    BY <1>8, TakeSlotsInv
  <2>2. /\ head[set].next_step = 2 /\ head'[set].next_step = 3
        /\ head'[set].original_address = head[set].original_address
    <3>1. head[set] \in Task
      BY <1>2
    <3>2. PICK n, i : head' = [head EXCEPT ![set].next_step = 3, ![set].node_id = n,
                                           ![set].offset = i]
      BY <1>8 DEF TakeSlots
    <3>3. head'[set] = [head[set] EXCEPT !.next_step = 3, !.node_id = n, !.offset = i]
      BY <1>2, <3>2
    <3> QED BY <1>8, <3>1, <3>3 DEF TakeSlots, Task
  <2>3. Accessing(set)' = Accessing(set)
    BY <2>2 DEF Accessing
  <2> QED BY <1>5, <2>1, <2>3
<1>9. ASSUME NEW set \in Sets, NEW leaf \in Leaves, PullBlock(set, leaf)
      PROVE  [Store!Next]_<<lm, am>>
  <2> DEFINE a == head[set].original_address
  <2>1. /\ StaysInSet(set) /\ a \in Addrs /\ SetOf(a) = set /\ leaf \in LeavesOf(set)
        /\ \A b \in Addrs : Leaf(b)' = IF b = a THEN leaf ELSE Leaf(b)
    BY <1>9, PullBlockStays
  <2>2. head[set].next_step = 3 /\ head'[set].next_step \in {4, 6}
    BY <1>2, <1>9 DEF PullBlock, AfterPull, Task
  <2>3. Accessing(set) = a /\ Accessing(set)' = NoAddr
    BY <2>2 DEF Accessing
  <2> HIDE DEF a
  <2>4. am[set] = a /\ a # NoAddr /\ am' = [am EXCEPT ![set] = NoAddr]
    <3>1. a # NoAddr
      BY <2>1, FiniteAddrs DEF NoAddr
    <3> QED BY <1>6, <2>1, <2>3, <3>1
  <2>5. lm' = [lm EXCEPT ![a] = leaf]
    BY <2>1
  <2> QED BY <2>1, <2>4, <2>5 DEF Store!Next, Store!Read
<1>10. ASSUME NEW set \in Sets, PullDummies(set) PROVE [Store!Next]_<<lm, am>>
  <2>1. head' = [head EXCEPT ![set] = [head[set] EXCEPT !.next_step = AfterPull(set)]]
        /\ UNCHANGED treeVars /\ head[set].next_step = 3
    BY <1>10 DEF PullDummies
  <2>2. StaysInSet(set) /\ KeepsLeaves
    BY <1>1, <2>1, TreeKeptStays
  <2>3. head'[set].next_step \in {4, 6}
    BY <1>2, <2>1 DEF AfterPull, Task
  <2>4. Accessing(set)' = NoAddr
    BY <2>3 DEF Accessing
  <2>5. CASE Accessing(set) = NoAddr
    BY <1>5, <2>2, <2>4, <2>5
  <2>6. CASE Accessing(set) # NoAddr
    <3>1. am[set] # NoAddr /\ am' = [am EXCEPT ![set] = NoAddr] /\ lm' = lm
      BY <1>4, <1>6, <2>2, <2>4, <2>6
    <3> QED BY <3>1 DEF Store!Next, Store!Skip
  <2> QED BY <2>5, <2>6
<1>11. ASSUME NEW set \in Sets, ChooseWritePath(set) PROVE [Store!Next]_<<lm, am>>
  <2>1. head' = [head EXCEPT ![set] = [head[set] EXCEPT !.next_step = 5]]
        /\ UNCHANGED treeVars /\ head[set].next_step = 4
    BY <1>11 DEF ChooseWritePath
  <2>2. StaysInSet(set) /\ KeepsLeaves
    BY <1>1, <2>1, TreeKeptStays
  <2>3. head'[set].next_step = 5
    BY <1>2, <2>1 DEF Task
  <2>4. Accessing(set)' = Accessing(set)
    BY <2>1, <2>3 DEF Accessing
  <2> QED BY <1>5, <2>2, <2>4
<1>12. ASSUME NEW set \in Sets, Writeback(set) PROVE [Store!Next]_<<lm, am>>
  <2>1. StaysInSet(set) /\ KeepsLeaves
    BY <1>12, WritebackInv
  <2>2. head[set].next_step = 5 /\ head'[set].next_step = 6
    BY <1>2, <1>12 DEF Writeback, Task
  <2>3. Accessing(set)' = Accessing(set)
    BY <2>2 DEF Accessing
  <2> QED BY <1>5, <2>1, <2>3
<1> QED BY <1>7, <1>8, <1>9, <1>10, <1>11, <1>12 DEF Next

\* A level implements BlockStore: only the access to a block remaps it, at most
\* once, and to a leaf of the block's set.
THEOREM LevelImplementsStore == Spec => ImplementsStore
<1> DEFINE lm == [a \in Addrs |-> Leaf(a)]
           am == [set \in Sets |-> Accessing(set)]
<1>1. Init => Store!Init
  <2> SUFFICES ASSUME Init PROVE Store!Init
    OBVIOUS
  <2>1. IInv
    BY InitInv
  <2>2. ASSUME NEW a \in Addrs PROVE Leaf(a) \in LeavesOf(SetOf(a)) /\ SetOf(a) \in Sets
    <3>1. (stash[a] = NoLeaf) # (posMap[a] = NoLine)
      BY <2>1 DEF IInv, NothingLost
    <3> QED BY <2>1, <3>1, SetOfAddr DEF IInv, OnOwnPath, Leaf
  <2>3. \A set \in Sets : Accessing(set) = NoAddr
    BY DEF Init, NoTask, Accessing
  <2>4. lm \in [Addrs -> UNION {LeavesOf(s) : s \in Sets}]
    BY <2>2
  <2> QED BY <2>2, <2>3, <2>4 DEF Store!Init
<1>2. IInv /\ [Next]_vars => [Store!Next]_<<lm, am>>
  <2>1. ASSUME UNCHANGED vars PROVE lm' = lm /\ am' = am
    BY <2>1 DEF vars, treeVars, Leaf, Accessing
  <2> QED BY <2>1, StepImplements
<1> QED BY <1>1, <1>2, TreeInvariance, PTL DEF Spec, ImplementsStore, Store!Spec

=============================================================================
