------------------------- MODULE MetadataFetch_proofs -------------------------
(***************************************************************************)
(* Proofs about the metadata fetch of one level, for every tree, every     *)
(* size of the on-chip cache and every number of buckets to a line.        *)
(***************************************************************************)
EXTENDS MetadataFetch, RingTree_proofs

-----------------------------------------------------------------------------
(***************************************************************************)
(* Metadata lines.                                                         *)
(***************************************************************************)
LEMMA DivisionGrows ==
  ASSUME NEW m \in Nat, NEW n \in Nat, m <= n, NEW d \in Nat \ {0}
  PROVE  m \div d \in Nat /\ n \div d \in Nat /\ m \div d <= n \div d
<1>1. m \div d \in Nat /\ n \div d \in Nat
  OBVIOUS
<1>2. d * (m \div d) <= m /\ n < d * ((n \div d) + 1)
  OBVIOUS
<1>3. ASSUME NEW q \in Nat, NEW p \in Nat, d * p < d * (q + 1)
      PROVE  p <= q
  BY <1>3
<1>4. d * (m \div d) < d * ((n \div d) + 1)
  <2>1. d * (m \div d) \in Nat /\ d * ((n \div d) + 1) \in Nat
    BY <1>1
  <2> QED BY <1>2, <2>1
<1> QED BY <1>1, <1>3, <1>4

LEMMA LineFacts ==
  /\ Lines \subseteq Nat /\ IsFiniteSet(Lines) /\ NoLine \notin Lines
  /\ \A n \in Nodes : LineOf(n) \in Lines
  /\ \A line \in Lines : SetOfLine(line) \in 0 .. CacheSets - 1
<1>1. NumLeaves \in Nat \ {0} /\ NodesPerLine \in Nat \ {0} /\ CacheSets \in Nat \ {0}
  BY TreeSizes, MetadataAssumption
<1>2. Nodes \subseteq Nat /\ \A n \in Nodes : n <= 2 * NumLeaves
  BY <1>1 DEF Nodes
<1>3. ASSUME NEW n \in Nodes
      PROVE  LineOf(n) \in Nat /\ LineOf(n) <= (2 * NumLeaves) \div NodesPerLine
  <2>1. n \in Nat /\ 2 * NumLeaves \in Nat /\ n <= 2 * NumLeaves
    BY <1>1, <1>2
  <2> QED BY <1>1, <2>1, DivisionGrows DEF LineOf
<1>4. Lines \subseteq Nat /\ \A line \in Lines : line <= (2 * NumLeaves) \div NodesPerLine
  BY <1>3 DEF Lines
<1>5. IsFiniteSet(Lines)
  <2>1. (2 * NumLeaves) \div NodesPerLine \in Nat
    BY <1>1
  <2> QED BY <1>4, <2>1, FS_BoundedSetOfNaturals
<1>6. \A line \in Lines : SetOfLine(line) \in 0 .. CacheSets - 1
  BY <1>1, <1>4 DEF SetOfLine
<1>7. \A n \in Nodes : LineOf(n) \in Lines
  BY DEF Lines
<1>8. NoLine \notin Lines
  BY <1>4 DEF NoLine
<1> QED BY <1>4, <1>5, <1>6, <1>7, <1>8

\* Down a path the lines come in order: those of equal buckets' lines are
\* side by side.
LEMMA LinesDownThePath ==
  ASSUME NEW leaf \in Leaves, NEW l \in Lvls, NEW m \in Lvls, l <= m
  PROVE  /\ LineOf(P(leaf, l)) \in Lines /\ LineOf(P(leaf, m)) \in Lines
         /\ LineOf(P(leaf, l)) <= LineOf(P(leaf, m))
<1>1. P(leaf, l) \in Nodes /\ P(leaf, m) \in Nodes
  BY PathLevel
<1>2. P(leaf, l) \in Nat /\ P(leaf, m) \in Nat /\ NodesPerLine \in Nat \ {0}
  BY <1>1, TreeSizes, MetadataAssumption DEF Nodes
<1>3. P(leaf, l) <= P(leaf, m)
  <2>1. CASE l = m
    BY <1>2, <2>1
  <2>2. CASE l < m
    <3>1. l \in Nat /\ m \in Nat /\ l + 1 \in Nat /\ l + 1 <= m
      BY <2>2, TreeSizes DEF Lvls
    <3>2. Pow2[l + 1] = 2 * Pow2[l] /\ Pow2[l + 1] <= Pow2[m]
      BY <3>1, Pow2Facts, Pow2Grows
    <3>3. Pow2[l] \in Nat /\ Pow2[m] \in Nat
      BY <3>1, Pow2Facts
    <3>4. P(leaf, l) <= 2 * Pow2[l] - 2 /\ Pow2[m] - 1 <= P(leaf, m)
      BY PathLevel
    <3> QED BY <1>2, <3>2, <3>3, <3>4
  <2>3. l \in Nat /\ m \in Nat
    BY TreeSizes DEF Lvls
  <2> QED BY <2>1, <2>2, <2>3
<1>4. LineOf(P(leaf, l)) <= LineOf(P(leaf, m))
  BY <1>2, <1>3, DivisionGrows DEF LineOf
<1> QED BY <1>1, <1>4, LineFacts

-----------------------------------------------------------------------------
(***************************************************************************)
(* The cache.                                                              *)
(***************************************************************************)
CacheTypes == [0 .. CacheSets - 1 -> [Ways -> Lines \cup {NoLine}]]

NoneTwice(ways) == \A v, w \in Ways : v # w /\ ways[v] # NoLine => ways[v] # ways[w]

LEMMA LineToFront ==
  ASSUME NEW line \in Lines, NEW ways \in [Ways -> Lines \cup {NoLine}], NoneTwice(ways)
  PROVE  /\ ToFront(ways, line) \in [Ways -> Lines \cup {NoLine}]
         /\ NoneTwice(ToFront(ways, line))
         /\ 1 \in Ways /\ ToFront(ways, line)[1] = line
<1>1. Assoc \in Nat \ {0} /\ Ways = 1 .. Assoc
  BY MetadataAssumption DEF Ways
<1> DEFINE new == ToFront(ways, line)
           before(w) == \E v \in 1 .. w - 1 : ways[v] = line
           from(w) == IF before(w) THEN w ELSE w - 1
<1>2. /\ 1 \in Ways /\ new[1] = line
      /\ \A w \in Ways : w # 1 => from(w) \in Ways /\ new[w] = ways[from(w)]
  BY <1>1 DEF ToFront
<1>3. new \in [Ways -> Lines \cup {NoLine}]
  <2>1. \A w \in Ways : new[w] \in Lines \cup {NoLine}
    <3> HIDE DEF new, from
    <3> QED BY <1>2
  <2>2. new = [w \in Ways |-> new[w]]
    BY DEF ToFront
  <2> HIDE DEF new
  <2> QED BY <2>1, <2>2
<1>4. ASSUME NEW w \in Ways, w # 1
      PROVE  ways[from(w)] # line
  <2>1. CASE before(w)
    <3>1. PICK v \in 1 .. w - 1 : ways[v] = line
      BY <2>1
    <3>2. v \in Ways /\ v # w
      BY <1>1, <3>1
    <3>3. ways[v] # NoLine
      BY <3>1, LineFacts
    <3>4. ways[w] # ways[v]
      BY <3>2, <3>3 DEF NoneTwice
    <3> QED BY <2>1, <3>1, <3>4
  <2>2. CASE ~before(w)
    <3>1. w - 1 \in 1 .. w - 1
      BY <1>1, <1>4
    <3> QED BY <2>2, <3>1
  <2> QED BY <2>1, <2>2
<1>5. ASSUME NEW v \in Ways, NEW w \in Ways, v # 1, w # 1, v < w
      PROVE  from(v) # from(w)
  <2>1. v \in Int /\ w \in Int
    BY <1>1
  <2>2. CASE before(v)
    <3>1. PICK u \in 1 .. v - 1 : ways[u] = line
      BY <2>2
    <3>2. u \in 1 .. w - 1
      BY <1>5, <2>1, <3>1
    <3>3. from(v) = v /\ from(w) = w
      BY <2>2, <3>1, <3>2
    <3> QED BY <1>5, <2>1, <3>3
  <2>3. CASE ~before(v) /\ before(w)
    BY <1>5, <2>1, <2>3
  <2>4. CASE ~before(v) /\ ~before(w)
    BY <1>5, <2>1, <2>4
  <2> QED BY <2>2, <2>3, <2>4
<1>6. NoneTwice(new)
  <2> SUFFICES ASSUME NEW v \in Ways, NEW w \in Ways, v # w, new[v] # NoLine
               PROVE  new[v] # new[w]
    BY DEF NoneTwice
  <2>1. CASE v = 1
    BY <1>2, <1>4, <2>1
  <2>2. CASE w = 1
    BY <1>2, <1>4, <2>2
  <2>3. CASE v # 1 /\ w # 1
    <3>1. from(v) # from(w)
      <4>1. v < w \/ w < v
        BY <1>1
      <4> HIDE DEF from
      <4> QED BY <1>5, <2>3, <4>1
    <3> HIDE DEF new, from
    <3> QED BY <1>2, <2>3, <3>1 DEF NoneTwice
  <2> QED BY <2>1, <2>2, <2>3
<1> QED BY <1>2, <1>3, <1>6

\* What a lookup leaves: the line is there, and no line twice.
LEMMA LineCached ==
  ASSUME NEW c \in CacheTypes, \A s \in 0 .. CacheSets - 1 : NoneTwice(c[s]), NEW line \in Lines
  PROVE  /\ CacheAccess(c, line) \in CacheTypes
         /\ \A s \in 0 .. CacheSets - 1 : NoneTwice(CacheAccess(c, line)[s])
         /\ Cached(CacheAccess(c, line), line)
<1> DEFINE s == SetOfLine(line)
           new == ToFront(c[s], line)
<1>1. s \in 0 .. CacheSets - 1
  BY LineFacts
<1> HIDE DEF s
<1>2. c[s] \in [Ways -> Lines \cup {NoLine}] /\ NoneTwice(c[s])
  BY <1>1 DEF CacheTypes
<1>3. /\ new \in [Ways -> Lines \cup {NoLine}] /\ NoneTwice(new)
      /\ 1 \in Ways /\ new[1] = line
  BY <1>2, LineToFront
<1>4. CacheAccess(c, line) = [c EXCEPT ![s] = new]
  BY DEF CacheAccess, s
<1> HIDE DEF new
<1>5. CacheAccess(c, line) \in CacheTypes
  BY <1>1, <1>3, <1>4 DEF CacheTypes
<1>6. \A t \in 0 .. CacheSets - 1 : CacheAccess(c, line)[t] = IF t = s THEN new ELSE c[t]
  BY <1>4 DEF CacheTypes
<1>7. \A t \in 0 .. CacheSets - 1 : NoneTwice(CacheAccess(c, line)[t])
  BY <1>3, <1>6
<1>8. Cached(CacheAccess(c, line), line)
  BY <1>1, <1>3, <1>6 DEF Cached, s
<1> QED BY <1>5, <1>7, <1>8

-----------------------------------------------------------------------------
(***************************************************************************)
(* The lookups of a path.                                                  *)
(***************************************************************************)
Looks == [caches : CacheTypes, missed : SUBSET Lines, misses : Nat]
NoLook == [caches |-> caches, missed |-> {}, misses |-> 0]

LEMMA AccessType ==
  ASSUME NEW look \in Looks, NEW line \in Lines
  PROVE  Access(look, line) \in Looks
<1>1. CacheAccess(look.caches, line) \in CacheTypes
  <2>1. SetOfLine(line) \in 0 .. CacheSets - 1
    BY LineFacts
  <2>2. look.caches[SetOfLine(line)] \in [Ways -> Lines \cup {NoLine}]
    BY <2>1 DEF Looks, CacheTypes
  <2>3. ASSUME NEW ways \in [Ways -> Lines \cup {NoLine}]
        PROVE  ToFront(ways, line) \in [Ways -> Lines \cup {NoLine}]
    <3>1. Ways = 1 .. Assoc /\ Assoc \in Nat
      BY MetadataAssumption DEF Ways
    <3> QED BY <3>1 DEF ToFront
  <2> QED BY <2>1, <2>2, <2>3 DEF CacheAccess, Looks, CacheTypes
<1>2. /\ look.missed \in SUBSET Lines /\ look.misses \in Nat
  BY DEF Looks
<1> QED BY <1>1, <1>2 DEF Access, Looks

\* LookUp is what its definition by recursion says.
LEMMA LookUpSteps ==
  ASSUME caches \in CacheTypes, NEW leaf \in Leaves, NEW lvls \in SUBSET Lvls
  PROVE  \E f \in [Nat -> Looks] :
           /\ LookUp(leaf, lvls) = f[num_of_lvls]
           /\ \A n \in Nat :
                f[n] = IF n = 0 THEN NoLook
                         ELSE IF n - 1 \in lvls THEN Access(f[n - 1], LineOf(P(leaf, n - 1)))
                         ELSE f[n - 1]
<1> DEFINE After(look, n) == IF n \in lvls THEN Access(look, LineOf(P(leaf, n))) ELSE look
           step == [n \in Nat |-> [look \in Looks |-> After(look, n)]]
<1>1. NoLook \in Looks
  BY DEF NoLook, Looks
<1>2. ASSUME NEW n \in Nat, NEW look \in Looks PROVE After(look, n) \in Looks
  <2>1. n \in lvls => LineOf(P(leaf, n)) \in Lines
    BY PathLevel, LineFacts
  <2> QED BY <2>1, AccessType
<1>3. step \in [Nat -> [Looks -> Looks]]
  <2> HIDE DEF After
  <2> QED BY <1>2
<1>4. PICK f \in [Nat -> Looks] :
        \A n \in Nat : f[n] = IF n = 0 THEN NoLook ELSE step[n - 1][f[n - 1]]
  <2> DEFINE V == Looks
             e == NoLook
             st == step
  <2>1. e \in V /\ st \in [Nat -> [V -> V]]
    BY <1>1, <1>3
  <2> HIDE DEF V, e, st
  <2>2. \E f \in [Nat -> V] : \A n \in Nat : f[n] = IF n = 0 THEN e ELSE st[n - 1][f[n - 1]]
    BY <2>1, Recursion
  <2> QED BY <2>2 DEF V, e, st
<1> DEFINE Body(g, n) == IF n = 0 THEN NoLook
                           ELSE IF n - 1 \in lvls THEN Access(g[n - 1], LineOf(P(leaf, n - 1)))
                           ELSE g[n - 1]
<1>5. ASSUME NEW n \in Nat PROVE f[n] = Body(f, n)
  <2>1. CASE n = 0
    BY <1>4, <2>1
  <2>2. CASE n # 0
    <3>1. n - 1 \in Nat /\ f[n - 1] \in Looks
      BY <2>2
    <3>2. step[n - 1][f[n - 1]] = After(f[n - 1], n - 1)
      <4> HIDE DEF After
      <4> QED BY <3>1
    <3>3. f[n] = After(f[n - 1], n - 1)
      <4> HIDE DEF After, step
      <4> QED BY <1>4, <2>2, <3>2
    <3> QED BY <2>2, <3>3
  <2> QED BY <2>1, <2>2
<1> DEFINE Above == CHOOSE g : g = [n \in Nat |-> Body(g, n)]
<1>6. Above = [n \in Nat |-> Body(Above, n)]
  <2>1. f = [n \in Nat |-> Body(f, n)]
    <3> HIDE DEF Body
    <3> QED BY <1>5
  <2> HIDE DEF Body
  <2> QED BY <2>1
<1>7. LookUp(leaf, lvls) = Above[num_of_lvls]
  BY DEF LookUp, NoLook
<1> HIDE DEF Above
<1>8. \A n \in Nat : Above[n] = f[n]
  <2> DEFINE D == {n \in Nat : Above[n] # f[n]}
  <2> SUFFICES ASSUME D # {} PROVE FALSE
    OBVIOUS
  <2>1. PICK n \in D : \A m \in D : n <= m
    BY NatLeast
  <2>2. n \in Nat /\ Above[n] = Body(Above, n) /\ f[n] = Body(f, n)
    <3> HIDE DEF Body
    <3> QED BY <1>5, <1>6
  <2>3. n # 0
    BY <2>1, <2>2
  <2>4. n - 1 \in Nat /\ n - 1 < n
    BY <2>2, <2>3
  <2>5. Above[n - 1] = f[n - 1]
    BY <2>1, <2>4
  <2> QED BY <2>1, <2>2, <2>3, <2>5
<1>9. LookUp(leaf, lvls) = f[num_of_lvls]
  BY <1>7, <1>8, TreeSizes
<1> QED BY <1>5, <1>9

\* LookUpAll is what its definition by recursion says, and leaves a cache that holds
\* no line twice.
LEMMA AllLookedUp ==
  ASSUME caches \in CacheTypes, \A s \in 0 .. CacheSets - 1 : NoneTwice(caches[s]),
         NEW leaf \in Leaves
  PROVE  /\ LookUpAll(leaf) \in CacheTypes
         /\ \A s \in 0 .. CacheSets - 1 : NoneTwice(LookUpAll(leaf)[s])
<1>0. PICK c0 : c0 = caches
  OBVIOUS
<1> DEFINE Sound(c) == c \in CacheTypes /\ \A s \in 0 .. CacheSets - 1 : NoneTwice(c[s])
           V == {c \in CacheTypes : Sound(c)}
           line(n) == LineOf(P(leaf, num_of_lvls - (n + 1)))
           After(c, n) == IF n + 1 \in 1 .. num_of_lvls THEN CacheAccess(c, line(n)) ELSE c0
           step == [n \in Nat |-> [c \in V |-> After(c, n)]]
<1>1. c0 \in V
  BY <1>0
<1>2. ASSUME NEW n \in Nat, NEW c \in V PROVE After(c, n) \in V
  <2>1. CASE n + 1 \in 1 .. num_of_lvls
    <3>1. num_of_lvls - (n + 1) \in Lvls
      BY <2>1, TreeSizes DEF Lvls
    <3>2. line(n) \in Lines
      BY <3>1, PathLevel, LineFacts
    <3> HIDE DEF line
    <3>3. CacheAccess(c, line(n)) \in CacheTypes
      /\ \A s \in 0 .. CacheSets - 1 : NoneTwice(CacheAccess(c, line(n))[s])
      BY <3>2, LineCached
    <3> QED BY <2>1, <3>3
  <2>2. CASE n + 1 \notin 1 .. num_of_lvls
    BY <1>1, <2>2
  <2> QED BY <2>1, <2>2
<1>3. step \in [Nat -> [V -> V]]
  <2> HIDE DEF After, V
  <2> QED BY <1>2
<1>4. PICK f \in [Nat -> V] :
        \A n \in Nat : f[n] = IF n = 0 THEN c0 ELSE step[n - 1][f[n - 1]]
  <2>1. PICK W, st : W = V /\ st = step
    OBVIOUS
  <2>2. c0 \in W /\ st \in [Nat -> [W -> W]]
    <3> HIDE DEF V, step
    <3> QED BY <1>1, <1>3, <2>1
  <2>3. \E f \in [Nat -> W] : \A n \in Nat : f[n] = IF n = 0 THEN c0 ELSE st[n - 1][f[n - 1]]
    BY ONLY <2>2, Recursion
  <2> HIDE DEF V, step
  <2> QED BY <2>1, <2>3
<1> DEFINE Body(g, n) == IF n \in 1 .. num_of_lvls
                           THEN CacheAccess(g[n - 1], LineOf(P(leaf, num_of_lvls - n)))
                           ELSE caches
<1>5. ASSUME NEW n \in Nat PROVE f[n] = Body(f, n)
  <2>1. CASE n = 0
    <3>1. f[n] = caches
      <4> HIDE DEF step, V
      <4> QED BY <1>0, <1>4, <2>1
    <3>2. n \notin 1 .. num_of_lvls
      BY <2>1, TreeSizes
    <3> QED BY <3>1, <3>2
  <2>2. CASE n # 0
    <3>1. n - 1 \in Nat /\ f[n - 1] \in V /\ (n - 1) + 1 = n
      <4> HIDE DEF V
      <4> QED BY <2>2
    <3>2. step[n - 1][f[n - 1]] = After(f[n - 1], n - 1)
      <4> HIDE DEF After, V
      <4> QED BY <3>1
    <3>3. f[n] = After(f[n - 1], n - 1)
      <4> HIDE DEF After, step
      <4> QED BY <1>4, <2>2, <3>2
    <3>4. After(f[n - 1], n - 1) = Body(f, n)
      BY <1>0, <3>1
    <3> QED BY <3>3, <3>4
  <2> QED BY <2>1, <2>2
<1> DEFINE Below == CHOOSE g : g = [n \in Nat |-> Body(g, n)]
<1>6. Below = [n \in Nat |-> Body(Below, n)]
  <2>1. f = [n \in Nat |-> Body(f, n)]
    <3> HIDE DEF Body
    <3> QED BY <1>5
  <2> HIDE DEF Body
  <2> QED BY <2>1
<1>7. LookUpAll(leaf) = Below[num_of_lvls]
  BY DEF LookUpAll
<1> HIDE DEF Below
<1>8. \A n \in Nat : Below[n] = f[n]
  <2> DEFINE D == {n \in Nat : Below[n] # f[n]}
  <2> SUFFICES ASSUME D # {} PROVE FALSE
    OBVIOUS
  <2>1. PICK n \in D : \A m \in D : n <= m
    BY NatLeast
  <2>2. n \in Nat /\ Below[n] = Body(Below, n) /\ f[n] = Body(f, n)
    <3> HIDE DEF Body
    <3> QED BY <1>5, <1>6
  <2>3. n \in 1 .. num_of_lvls
    BY <2>1, <2>2
  <2>4. n - 1 \in Nat /\ n - 1 < n
    BY <2>2, <2>3, TreeSizes
  <2>5. Below[n - 1] = f[n - 1]
    BY <2>1, <2>4
  <2> QED BY <2>1, <2>2, <2>3, <2>5
<1>9. LookUpAll(leaf) \in V
  <2> HIDE DEF V
  <2> QED BY <1>4, <1>7, <1>8, TreeSizes
<1> QED BY <1>9

\* What the lookups of a path come to: a line that misses misses once, for when its
\* other buckets' turn comes it was the last one to be looked up.
LEMMA LooksOnce ==
  ASSUME caches \in CacheTypes, \A s \in 0 .. CacheSets - 1 : NoneTwice(caches[s]),
         NEW leaf \in Leaves, NEW lvls \in SUBSET Lvls
  PROVE  LET look == LookUp(leaf, lvls)
         IN  /\ look \in Looks
             /\ \A s \in 0 .. CacheSets - 1 : NoneTwice(look.caches[s])
             /\ Cardinality(look.missed) = look.misses
<1> DEFINE line(l) == LineOf(P(leaf, l))
<1>1. PICK f \in [Nat -> Looks] :
        /\ LookUp(leaf, lvls) = f[num_of_lvls]
        /\ \A n \in Nat : f[n] = IF n = 0 THEN NoLook
                                   ELSE IF n - 1 \in lvls THEN Access(f[n - 1], line(n - 1))
                                   ELSE f[n - 1]
  BY LookUpSteps
<1> DEFINE Latest(l, n) == l \in lvls /\ l < n /\ \A k \in lvls : k < n => k <= l
           Good(n) == /\ \A s \in 0 .. CacheSets - 1 : NoneTwice(f[n].caches[s])
                      /\ Cardinality(f[n].missed) = f[n].misses
                      /\ \A x \in f[n].missed : \E l \in lvls : l < n /\ x = line(l)
                      /\ \A l \in lvls : Latest(l, n) => Cached(f[n].caches, line(l))
<1>2. lvls \subseteq Nat /\ \A l \in lvls : line(l) \in Lines
  BY PathLevel, LineFacts, TreeSizes DEF Lvls
<1>3. ASSUME NEW l \in lvls, NEW m \in lvls, l <= m PROVE line(l) <= line(m)
  BY <1>3, LinesDownThePath
<1>4. ASSUME NEW n \in Nat PROVE f[n] \in Looks /\ IsFiniteSet(f[n].missed)
  <2>1. f[n] \in Looks
    BY <1>1
  <2>2. f[n].missed \in SUBSET Lines
    BY <2>1 DEF Looks
  <2> QED BY <2>1, <2>2, LineFacts, FS_Subset
<1> HIDE DEF line
<1>5. Good(0)
  <2>1. f[0] = NoLook
    BY <1>1
  <2>2. f[0].missed = {} /\ f[0].misses = 0 /\ f[0].caches = caches
    BY <2>1 DEF NoLook
  <2>3. \A l \in lvls : ~Latest(l, 0)
    BY <1>2
  <2> QED BY <2>2, <2>3, FS_EmptySet
<1>6. ASSUME NEW n \in Nat, Good(n) PROVE Good(n + 1)
  <2>1. n + 1 \in Nat /\ n + 1 # 0 /\ (n + 1) - 1 = n
    OBVIOUS
  <2>2. f[n + 1] = IF n \in lvls THEN Access(f[n], line(n)) ELSE f[n]
    BY <1>1, <2>1
  <2>3. CASE n \notin lvls
    <3>1. f[n + 1] = f[n]
      BY <2>2, <2>3
    <3>2. \A l \in lvls : l < n + 1 <=> l < n
      BY <1>2, <2>3
    <3> QED BY <1>6, <3>1, <3>2
  <2>4. CASE n \in lvls
    <3> DEFINE x == line(n)
               old == f[n]
               new == f[n + 1]
    <3>1. x \in Lines /\ old \in Looks /\ old.caches \in CacheTypes
      BY <1>2, <1>4, <2>4 DEF Looks
    <3>2. new = Access(old, x)
      BY <2>2, <2>4
    <3>3. /\ new.caches = CacheAccess(old.caches, x)
          /\ Cached(old.caches, x) => new.missed = old.missed /\ new.misses = old.misses
          /\ ~Cached(old.caches, x) => new.missed = old.missed \cup {x} /\ new.misses = old.misses + 1
      BY <3>2 DEF Access
    <3> HIDE DEF x, old, new
    <3>4. /\ \A s \in 0 .. CacheSets - 1 : NoneTwice(new.caches[s])
          /\ Cached(new.caches, x)
      <4>1. \A s \in 0 .. CacheSets - 1 : NoneTwice(old.caches[s])
        BY <1>6 DEF old
      <4> QED BY <3>1, <3>3, <4>1, LineCached
    <3>5. ASSUME x \in old.missed PROVE Cached(old.caches, x)
      <4> DEFINE D == {l \in lvls : l < n}
      <4>1. PICK k \in D : x = line(k)
        BY <1>6, <3>5 DEF old
      <4>2. PICK l \in D : \A e \in D : l >= e
        <5>1. D \in SUBSET Nat /\ D # {} /\ \A e \in D : e <= n
          <6>1. D \in SUBSET Nat
            BY <1>2
          <6>2. \A e \in D : e <= n
            BY <1>2
          <6> QED BY <4>1, <6>1, <6>2
        <5> HIDE DEF D
        <5> QED BY <5>1, NatGreatest
      <4>3. k \in lvls /\ l \in lvls /\ k \in Nat /\ l \in Nat /\ k <= l /\ l < n
        BY <1>2, <4>1, <4>2
      <4>4. Latest(l, n)
        BY <1>2, <4>2, <4>3
      <4>5. Cached(old.caches, line(l))
        BY <1>6, <4>3, <4>4 DEF old
      <4>6. line(k) <= line(l) /\ line(l) <= line(n)
        BY <1>3, <2>4, <4>3
      <4>7. line(k) \in Nat /\ line(l) \in Nat
        BY <1>2, <4>3, LineFacts
      <4>8. line(l) = x
        BY <4>1, <4>6, <4>7 DEF x
      <4> QED BY <4>5, <4>8
    <3>6. Cardinality(new.missed) = new.misses
      <4>1. Cardinality(old.missed) = old.misses /\ IsFiniteSet(old.missed)
        BY <1>4, <1>6 DEF old
      <4>2. CASE Cached(old.caches, x)
        BY <3>3, <4>1, <4>2
      <4>3. CASE ~Cached(old.caches, x)
        <5>1. x \notin old.missed
          BY <3>5, <4>3
        <5> QED BY <3>3, <4>1, <4>3, <5>1, FS_AddElement
      <4> QED BY <4>2, <4>3
    <3>7. \A y \in new.missed : \E l \in lvls : l < n + 1 /\ y = line(l)
      <4> SUFFICES ASSUME NEW y \in new.missed
                   PROVE  \E l \in lvls : l < n + 1 /\ y = line(l)
        OBVIOUS
      <4>1. CASE y = x
        BY <2>4, <4>1 DEF x
      <4>2. CASE y # x
        <5>1. y \in old.missed
          BY <3>3, <4>2
        <5>2. PICK l \in lvls : l < n /\ y = line(l)
          BY <1>6, <5>1 DEF old
        <5>3. l < n + 1
          BY <1>2, <5>2
        <5> QED BY <5>2, <5>3
      <4> QED BY <4>1, <4>2
    <3>8. \A l \in lvls : Latest(l, n + 1) => Cached(new.caches, line(l))
      <4>1. ASSUME NEW l \in lvls, Latest(l, n + 1) PROVE l = n
        BY <1>2, <2>4, <4>1
      <4> QED BY <3>4, <4>1 DEF x
    <3> QED BY <3>4, <3>6, <3>7, <3>8 DEF new
  <2> QED BY <2>3, <2>4
<1>7. \A n \in Nat : Good(n)
  <2> DEFINE D == {n \in Nat : ~Good(n)}
  <2> SUFFICES ASSUME D # {} PROVE FALSE
    OBVIOUS
  <2> HIDE DEF Good
  <2>1. PICK n \in D : \A m \in D : n <= m
    BY NatLeast
  <2>2. n \in Nat /\ n # 0
    BY <1>5, <2>1
  <2>3. n - 1 \in Nat /\ n - 1 < n /\ (n - 1) + 1 = n
    BY <2>2
  <2>4. Good(n - 1)
    BY <2>1, <2>3
  <2>5. Good((n - 1) + 1)
    BY <1>6, <2>3, <2>4
  <2> QED BY <2>1, <2>3, <2>5
<1>8. Good(num_of_lvls) /\ f[num_of_lvls] \in Looks
  <2> HIDE DEF Good
  <2> QED BY <1>1, <1>7, TreeSizes
<1> QED BY <1>1, <1>8

-----------------------------------------------------------------------------
(***************************************************************************)
(* The steps an answer reaches.                                            *)
(***************************************************************************)
LEMMA AppendLast ==
  ASSUME NEW s \in Seq(Job), NEW t \in Seq(Job), NEW job \in Job
  PROVE  Append(s \o t, job) = s \o Append(t, job)
<1> DEFINE l == Append(s \o t, job)
           r == s \o Append(t, job)
<1>1. /\ s \o t \in Seq(Job) /\ Append(t, job) \in Seq(Job)
      /\ Len(s \o t) = Len(s) + Len(t) /\ Len(Append(t, job)) = Len(t) + 1
      /\ Len(s) \in Nat /\ Len(t) \in Nat
  OBVIOUS
<1>2. l \in Seq(Job) /\ r \in Seq(Job) /\ Len(l) = Len(s) + Len(t) + 1 /\ Len(r) = Len(l)
  BY <1>1
<1>3. ASSUME NEW i \in 1 .. Len(l) PROVE l[i] = r[i]
  <2>1. CASE i <= Len(s)
    BY <1>1, <1>2, <2>1
  <2>2. CASE i > Len(s) /\ i <= Len(s) + Len(t)
    <3>1. l[i] = t[i - Len(s)]
      BY <1>1, <1>2, <2>2
    <3>2. r[i] = Append(t, job)[i - Len(s)]
      BY <1>1, <1>2, <2>2
    <3> QED BY <1>1, <2>2, <3>1, <3>2
  <2>3. CASE i = Len(s) + Len(t) + 1
    <3>1. l[i] = job
      BY <1>1, <1>2, <2>3
    <3>2. r[i] = Append(t, job)[Len(t) + 1]
      BY <1>1, <1>2, <2>3
    <3> QED BY <1>1, <3>1, <3>2
  <2> QED BY <1>1, <1>2, <2>1, <2>2, <2>3
<1> HIDE DEF l, r
<1>4. l = r
  BY <1>2, <1>3
<1> QED BY <1>4 DEF l, r

LEMMA AppendedJob ==
  ASSUME NEW q \in Seq(Job), IsInjective(q), NEW job \in Job, job \notin Range(q)
  PROVE  /\ Append(q, job) \in Seq(Job) /\ IsInjective(Append(q, job))
         /\ Range(Append(q, job)) = Range(q) \cup {job}
         /\ Append(q, job) # <<>>
<1> DEFINE new == Append(q, job)
<1>1. /\ new \in Seq(Job) /\ Len(q) \in Nat /\ Len(new) = Len(q) + 1
      /\ DOMAIN q = 1 .. Len(q) /\ DOMAIN new = 1 .. Len(q) + 1
      /\ \A i \in 1 .. Len(q) : new[i] = q[i]
      /\ new[Len(q) + 1] = job
  OBVIOUS
<1> HIDE DEF new
<1>2. \A i \in 1 .. Len(q) + 1 : i \in 1 .. Len(q) \/ i = Len(q) + 1
  BY <1>1
<1>3. \A i \in 1 .. Len(q) : q[i] \in Range(q)
  BY <1>1 DEF Range
<1>4. IsInjective(new)
  <2> SUFFICES ASSUME NEW i \in DOMAIN new, NEW j \in DOMAIN new, new[i] = new[j]
               PROVE  i = j
    BY DEF IsInjective
  <2>1. CASE i \in 1 .. Len(q) /\ j \in 1 .. Len(q)
    BY <1>1, <2>1 DEF IsInjective
  <2>2. CASE i = Len(q) + 1 \/ j = Len(q) + 1
    BY <1>1, <1>2, <1>3, <2>2
  <2> QED BY <1>1, <1>2, <2>1, <2>2
<1>5. Range(new) = Range(q) \cup {job}
  BY <1>1, <1>2 DEF Range
<1>6. new # <<>>
  BY <1>1
<1> QED BY <1>1, <1>4, <1>5, <1>6 DEF new

LEMMA Joined ==
  ASSUME NEW s \in Seq(Job), NEW t \in Seq(Job), IsInjective(s), IsInjective(t),
         Range(s) \cap Range(t) = {}
  PROVE  /\ s \o t \in Seq(Job) /\ IsInjective(s \o t)
         /\ Range(s \o t) = Range(s) \cup Range(t)
<1> DEFINE new == s \o t
<1>1. /\ new \in Seq(Job) /\ Len(s) \in Nat /\ Len(t) \in Nat
      /\ DOMAIN s = 1 .. Len(s) /\ DOMAIN t = 1 .. Len(t) /\ DOMAIN new = 1 .. Len(s) + Len(t)
      /\ \A i \in 1 .. Len(s) : new[i] = s[i]
      /\ \A i \in 1 .. Len(s) + Len(t) : i > Len(s) => new[i] = t[i - Len(s)]
  OBVIOUS
<1> HIDE DEF new
<1>2. ASSUME NEW i \in 1 .. Len(s) + Len(t)
      PROVE  \/ i \in 1 .. Len(s) /\ new[i] = s[i] /\ new[i] \in Range(s)
             \/ i > Len(s) /\ i - Len(s) \in 1 .. Len(t) /\ new[i] = t[i - Len(s)]
                  /\ new[i] \in Range(t)
  <2>1. CASE i <= Len(s)
    <3>1. i \in 1 .. Len(s)
      BY <1>1, <2>1
    <3> QED BY <1>1, <3>1 DEF Range
  <2>2. CASE i > Len(s)
    <3>1. i - Len(s) \in 1 .. Len(t)
      BY <1>1, <2>2
    <3> QED BY <1>1, <2>2, <3>1 DEF Range
  <2> QED BY <1>1, <2>1, <2>2
<1>3. IsInjective(new)
  <2> SUFFICES ASSUME NEW i \in 1 .. Len(s) + Len(t), NEW j \in 1 .. Len(s) + Len(t), new[i] = new[j]
               PROVE  i = j
    BY <1>1 DEF IsInjective
  <2>1. CASE i \in 1 .. Len(s) /\ new[i] = s[i] /\ new[i] \in Range(s)
    <3>1. j \in 1 .. Len(s) /\ new[j] = s[j]
      BY <1>2, <2>1
    <3> QED BY <1>1, <2>1, <3>1 DEF IsInjective
  <2>2. CASE i > Len(s) /\ i - Len(s) \in 1 .. Len(t) /\ new[i] = t[i - Len(s)] /\ new[i] \in Range(t)
    <3>1. j - Len(s) \in 1 .. Len(t) /\ new[j] = t[j - Len(s)]
      BY <1>2, <2>2
    <3>2. i - Len(s) = j - Len(s)
      BY <1>1, <2>2, <3>1 DEF IsInjective
    <3> QED BY <1>1, <3>2
  <2> QED BY <1>2, <2>1, <2>2
<1>4. Range(s) \subseteq Range(new)
  BY <1>1 DEF Range
<1>5. Range(t) \subseteq Range(new)
  <2> SUFFICES ASSUME NEW i \in 1 .. Len(t) PROVE t[i] \in Range(new)
    BY <1>1 DEF Range
  <2>1. i + Len(s) \in 1 .. Len(s) + Len(t) /\ i + Len(s) > Len(s) /\ (i + Len(s)) - Len(s) = i
    BY <1>1
  <2>2. new[i + Len(s)] = t[i]
    BY <1>1, <2>1
  <2> QED BY <1>1, <2>1, <2>2 DEF Range
<1>6. Range(new) \subseteq Range(s) \cup Range(t)
  BY <1>1, <1>2 DEF Range
<1> QED BY <1>1, <1>3, <1>4, <1>5, <1>6 DEF new

LEMMA WithoutHead ==
  ASSUME NEW s \in Seq(Job), s # <<>>, IsInjective(s)
  PROVE  /\ Head(s) \in Job /\ Head(s) \in Range(s)
         /\ Tail(s) \in Seq(Job) /\ IsInjective(Tail(s))
         /\ Range(Tail(s)) = Range(s) \ {Head(s)}
<1> DEFINE new == Tail(s)
<1>1. /\ new \in Seq(Job) /\ Len(s) \in Nat /\ Len(s) # 0 /\ Head(s) = s[1] /\ s[1] \in Job
      /\ DOMAIN s = 1 .. Len(s) /\ DOMAIN new = 1 .. Len(s) - 1
      /\ \A i \in 1 .. Len(s) - 1 : new[i] = s[i + 1]
  OBVIOUS
<1> HIDE DEF new
<1>2. \A i \in 1 .. Len(s) - 1 : i + 1 \in 1 .. Len(s) /\ i + 1 # 1
  BY <1>1
<1>3. 1 \in 1 .. Len(s) /\ Head(s) \in Range(s)
  BY <1>1 DEF Range
<1>4. IsInjective(new)
  <2> SUFFICES ASSUME NEW i \in 1 .. Len(s) - 1, NEW j \in 1 .. Len(s) - 1, new[i] = new[j]
               PROVE  i = j
    BY <1>1 DEF IsInjective
  <2>1. i + 1 = j + 1
    BY <1>1, <1>2 DEF IsInjective
  <2> QED BY <2>1
<1>5. ASSUME NEW x \in Range(new) PROVE x \in Range(s) /\ x # Head(s)
  <2>1. PICK i \in 1 .. Len(s) - 1 : x = s[i + 1]
    BY <1>1 DEF Range
  <2> QED BY <1>1, <1>2, <1>3, <2>1 DEF Range, IsInjective
<1>6. ASSUME NEW x \in Range(s), x # Head(s) PROVE x \in Range(new)
  <2>1. PICK i \in 1 .. Len(s) : x = s[i]
    BY <1>1 DEF Range
  <2>2. i - 1 \in 1 .. Len(s) - 1 /\ (i - 1) + 1 = i
    BY <1>1, <1>6, <2>1
  <2> QED BY <1>1, <2>1, <2>2 DEF Range
<1> QED BY <1>1, <1>3, <1>4, <1>5, <1>6 DEF new

\* The steps that wait for a line, each once.
Expecting(jobs) ==
  /\ cnt \in [Job -> Nat] /\ ready_to_pop \in Seq(Job)
  /\ jobs \in Seq(Job) /\ IsInjective(jobs) /\ \A job \in Range(jobs) : cnt[job] > 0

\* Each of the steps waits for one line less, and those that wait for none now are
\* answered, once and in order.
LEMMA ReachedSteps ==
  ASSUME NEW jobs, Expecting(jobs)
  PROVE  /\ Reached(jobs).cnt =
              [job \in Job |-> IF job \in Range(jobs) THEN cnt[job] - 1 ELSE cnt[job]]
         /\ \E q \in Seq(Job) :
              /\ Reached(jobs).ready_to_pop = ready_to_pop \o q
              /\ IsInjective(q)
              /\ Range(q) = {job \in Range(jobs) : cnt[job] = 1}
<1> DEFINE State == [cnt : [Job -> Int], ready_to_pop : Seq(Job)]
           start == [cnt |-> cnt, ready_to_pop |-> ready_to_pop]
           After(r, job) == [cnt |-> [r.cnt EXCEPT ![job] = r.cnt[job] - 1],
                             ready_to_pop |-> IF r.cnt[job] - 1 = 0 THEN Append(r.ready_to_pop, job)
                                                ELSE r.ready_to_pop]
           Answers(r, n) == IF n + 1 > Len(jobs) THEN start ELSE After(r, jobs[n + 1])
           step == [n \in Nat |-> [r \in State |-> Answers(r, n)]]
<1>0. /\ cnt \in [Job -> Nat] /\ ready_to_pop \in Seq(Job) /\ jobs \in Seq(Job)
      /\ IsInjective(jobs) /\ \A job \in Range(jobs) : cnt[job] > 0
  BY DEF Expecting
<1>1. start \in State /\ Len(jobs) \in Nat /\ \A n \in Nat : n + 1 <= Len(jobs) => jobs[n + 1] \in Job
  BY <1>0
<1>2. ASSUME NEW r \in State, NEW job \in Job PROVE After(r, job) \in State
  OBVIOUS
<1>3. ASSUME NEW n \in Nat, NEW r \in State PROVE Answers(r, n) \in State
  <2> HIDE DEF State, start, After
  <2> QED BY <1>1, <1>2
<1>4. PICK f \in [Nat -> State] :
        \A n \in Nat : f[n] = IF n = 0 THEN start ELSE step[n - 1][f[n - 1]]
  <2> HIDE DEF State, start, Answers
  <2>1. step \in [Nat -> [State -> State]]
    BY <1>3
  <2> DEFINE V == State
             e == start
             st == step
  <2>2. e \in V /\ st \in [Nat -> [V -> V]]
    BY <1>1, <2>1
  <2> HIDE DEF V, e, st
  <2>3. \E f \in [Nat -> V] : \A n \in Nat : f[n] = IF n = 0 THEN e ELSE st[n - 1][f[n - 1]]
    BY <2>2, Recursion
  <2> QED BY <2>3 DEF V, e, st
<1> DEFINE Body(g, n) == IF n = 0 \/ n > Len(jobs) THEN start ELSE After(g[n - 1], jobs[n])
<1> HIDE DEF State, start, After
<1>5. ASSUME NEW n \in Nat PROVE f[n] = Body(f, n)
  <2>1. CASE n = 0
    BY <1>4, <2>1
  <2>2. CASE n # 0
    <3>1. n - 1 \in Nat /\ f[n - 1] \in State /\ (n - 1) + 1 = n
      BY <2>2
    <3>2. step[n - 1][f[n - 1]] = Answers(f[n - 1], n - 1)
      <4> HIDE DEF Answers
      <4> QED BY <3>1
    <3>3. f[n] = Answers(f[n - 1], n - 1)
      <4> HIDE DEF Answers, step
      <4> QED BY <1>4, <2>2, <3>2
    <3> QED BY <2>2, <3>1, <3>3
  <2> QED BY <2>1, <2>2
<1> DEFINE Each == CHOOSE g : g = [n \in Nat |-> Body(g, n)]
<1>6. Each = [n \in Nat |-> Body(Each, n)]
  <2>1. f = [n \in Nat |-> Body(f, n)]
    <3> HIDE DEF Body
    <3> QED BY <1>5
  <2> HIDE DEF Body
  <2> QED BY <2>1
<1>7. Reached(jobs) = Each[Len(jobs)]
  BY DEF Reached, start, After
<1> HIDE DEF Each
<1>8. Each[0] = start
  BY <1>6
<1>9. \A n \in 1 .. Len(jobs) : Each[n] = After(Each[n - 1], jobs[n])
  <2> SUFFICES ASSUME NEW n \in 1 .. Len(jobs) PROVE Each[n] = After(Each[n - 1], jobs[n])
    OBVIOUS
  <2>1. n \in Nat /\ n # 0 /\ ~(n > Len(jobs))
    BY <1>1
  <2> QED BY <1>6, <2>1
<1> DEFINE First(n) == {jobs[i] : i \in 1 .. n}
           Good(n) == n <= Len(jobs) =>
             /\ Each[n].cnt = [job \in Job |-> IF job \in First(n) THEN cnt[job] - 1 ELSE cnt[job]]
             /\ \E q \in Seq(Job) : /\ Each[n].ready_to_pop = ready_to_pop \o q
                                    /\ IsInjective(q)
                                    /\ Range(q) = {job \in First(n) : cnt[job] = 1}
<1>10. Good(0)
  <2>1. First(0) = {}
    OBVIOUS
  <2>2. Each[0].cnt = cnt /\ Each[0].ready_to_pop = ready_to_pop
    BY <1>8 DEF start
  <2>3. Each[0].cnt = [job \in Job |-> IF job \in First(0) THEN cnt[job] - 1 ELSE cnt[job]]
    <3> HIDE DEF First
    <3> QED BY <1>0, <2>1, <2>2
  <2>4. /\ <<>> \in Seq(Job) /\ Each[0].ready_to_pop = ready_to_pop \o <<>>
        /\ IsInjective(<<>>) /\ Range(<<>>) = {}
    BY <1>0, <2>2 DEF IsInjective, Range
  <2> HIDE DEF First
  <2> QED BY <2>1, <2>3, <2>4
<1>11. ASSUME NEW n \in Nat, Good(n) PROVE Good(n + 1)
  <2> SUFFICES ASSUME n + 1 <= Len(jobs)
               PROVE  /\ Each[n + 1].cnt = [job \in Job |-> IF job \in First(n + 1) THEN cnt[job] - 1 ELSE cnt[job]]
                      /\ \E q \in Seq(Job) : /\ Each[n + 1].ready_to_pop = ready_to_pop \o q
                                             /\ IsInjective(q)
                                             /\ Range(q) = {job \in First(n + 1) : cnt[job] = 1}
    OBVIOUS
  <2> DEFINE j == jobs[n + 1]
  <2>1. /\ n + 1 \in 1 .. Len(jobs) /\ (n + 1) - 1 = n /\ n <= Len(jobs)
        /\ j \in Job /\ j \in Range(jobs) /\ DOMAIN jobs = 1 .. Len(jobs)
    BY <1>0, <1>1 DEF Range
  <2>2. j \notin First(n)
    <3> SUFFICES ASSUME NEW i \in 1 .. n, jobs[n + 1] = jobs[i] PROVE FALSE
      OBVIOUS
    <3>1. i \in 1 .. Len(jobs) /\ i # n + 1
      BY <2>1
    <3> QED BY <1>0, <2>1, <3>1 DEF IsInjective
  <2>3. First(n + 1) = First(n) \cup {j}
    <3>1. 1 .. n + 1 = (1 .. n) \cup {n + 1}
      OBVIOUS
    <3> QED BY <3>1
  <2>4. First(n) \subseteq Job
    BY <1>0, <2>1
  <2>5. Each[n + 1] = After(Each[n], j)
    BY <1>9, <2>1
  <2>6. Each[n].cnt = [job \in Job |-> IF job \in First(n) THEN cnt[job] - 1 ELSE cnt[job]]
    BY <1>11, <2>1
  <2>7. PICK q \in Seq(Job) : /\ Each[n].ready_to_pop = ready_to_pop \o q
                              /\ IsInjective(q)
                              /\ Range(q) = {job \in First(n) : cnt[job] = 1}
    BY <1>11, <2>1
  <2> HIDE DEF First, j
  <2>8. Each[n].cnt[j] = cnt[j] /\ cnt[j] \in Nat
    BY <1>0, <2>1, <2>2, <2>6
  <2>9. /\ Each[n + 1].cnt = [Each[n].cnt EXCEPT ![j] = cnt[j] - 1]
        /\ Each[n + 1].ready_to_pop = IF cnt[j] - 1 = 0 THEN Append(ready_to_pop \o q, j)
                                        ELSE ready_to_pop \o q
    BY <2>5, <2>7, <2>8 DEF After
  <2>10. Each[n + 1].cnt = [job \in Job |-> IF job \in First(n + 1) THEN cnt[job] - 1 ELSE cnt[job]]
    BY <2>1, <2>2, <2>3, <2>6, <2>9
  <2>11. CASE cnt[j] = 1
    <3>1. Append(ready_to_pop \o q, j) = ready_to_pop \o Append(q, j)
      BY <1>0, <2>1, <2>7, AppendLast
    <3>2. j \notin Range(q)
      BY <2>2, <2>7
    <3>3. /\ Append(q, j) \in Seq(Job) /\ IsInjective(Append(q, j))
          /\ Range(Append(q, j)) = Range(q) \cup {j}
      BY <2>1, <2>7, <3>2, AppendedJob
    <3>4. {job \in First(n + 1) : cnt[job] = 1} = Range(q) \cup {j}
      BY <2>3, <2>7, <2>11
    <3>5. Each[n + 1].ready_to_pop = ready_to_pop \o Append(q, j)
      BY <2>9, <2>11, <3>1
    <3> QED BY <2>10, <3>3, <3>4, <3>5
  <2>12. CASE cnt[j] # 1
    <3>1. cnt[j] - 1 # 0
      BY <2>8, <2>12
    <3>2. {job \in First(n + 1) : cnt[job] = 1} = Range(q)
      BY <2>3, <2>7, <2>12
    <3> QED BY <2>7, <2>9, <2>10, <3>1, <3>2
  <2> QED BY <2>11, <2>12
<1>12. \A n \in Nat : Good(n)
  <2> DEFINE D == {n \in Nat : ~Good(n)}
  <2> SUFFICES ASSUME D # {} PROVE FALSE
    OBVIOUS
  <2> HIDE DEF Good
  <2>1. PICK n \in D : \A m \in D : n <= m
    BY NatLeast
  <2>2. n \in Nat /\ n # 0
    BY <1>10, <2>1
  <2>3. n - 1 \in Nat /\ n - 1 < n /\ (n - 1) + 1 = n
    BY <2>2
  <2>4. Good(n - 1)
    BY <2>1, <2>3
  <2>5. Good((n - 1) + 1)
    BY <1>11, <2>3, <2>4
  <2> QED BY <2>1, <2>3, <2>5
<1>13. First(Len(jobs)) = Range(jobs)
  BY <1>0, <1>1 DEF Range
<1>14. Good(Len(jobs)) /\ Len(jobs) <= Len(jobs)
  <2> HIDE DEF Good
  <2> QED BY <1>1, <1>12
<1> HIDE DEF First
<1> QED BY <1>7, <1>13, <1>14

-----------------------------------------------------------------------------
(***************************************************************************)
(* The inductive invariant.  A step that waits or was answered is the one  *)
(* its set is at, and it is not both: without that, a set could ask for a  *)
(* step that it is still waiting for, and be listed twice.                 *)
(***************************************************************************)
Active(job) == cnt[job] > 0 \/ job \in Range(ready_to_pop)

OnePerSet ==
  /\ IsInjective(ready_to_pop)
  /\ \A job \in Range(ready_to_pop) : cnt[job] = 0
  /\ \A j, k \in Job : Active(j) /\ Active(k) /\ j.set = k.set => j = k
  /\ \A job \in Job : Active(job) => at[job.set] = "checking"

IInv == TypeOK /\ CacheHoldsLinesOnce /\ OneReadPerLine /\ WaitersAreCounted /\ OnePerSet

LEMMA Types ==
  ASSUME TypeOK
  PROVE  /\ caches \in CacheTypes
         /\ mshr_metadata \in [Lines -> Seq(Job)]
         /\ cnt \in [Job -> Nat] /\ dram \in [Lines -> Nat] /\ ready_to_pop \in Seq(Job)
         /\ at \in [Sets -> {"idle", "checking", "take", "taken", "write"}]
         /\ path \in [Sets -> Leaves]
BY DEF TypeOK, CacheTypes

LEMMA CachedOnce ==
  ASSUME caches \in CacheTypes
  PROVE  CacheHoldsLinesOnce <=> \A s \in 0 .. CacheSets - 1 : NoneTwice(caches[s])
BY DEF CacheHoldsLinesOnce, NoneTwice, CacheTypes

LEMMA SetLevels == SetLvls \subseteq Lvls
BY TreeAssumption, TreeSizes DEF SetLvls, Lvls

LEMMA InitInv == Init => IInv
<1> SUFFICES ASSUME Init PROVE IInv
  OBVIOUS
<1>1. TypeOK
  <2>1. 0 \in Leaves
    BY TreeSizes DEF Leaves
  <2> QED BY <2>1 DEF Init, TypeOK
<1>2. CacheHoldsLinesOnce
  BY DEF Init, CacheHoldsLinesOnce
<1>3. OneReadPerLine
  BY DEF Init, OneReadPerLine
<1>4. Range(<<>>) = {} /\ IsInjective(<<>>)
  BY DEF Range, IsInjective
<1>5. WaitersAreCounted
  <2>1. \A line \in Lines : mshr_metadata[line] = <<>>
    BY DEF Init
  <2>2. \A job \in Job : cnt[job] = 0
    BY DEF Init
  <2>3. \A job \in Job : {line \in Lines : job \in Range(mshr_metadata[line])} = {}
    BY <1>4, <2>1
  <2> QED BY <1>4, <2>1, <2>2, <2>3, FS_EmptySet DEF WaitersAreCounted
<1>6. OnePerSet
  <2>1. ready_to_pop = <<>> /\ \A job \in Job : ~(cnt[job] > 0)
    BY DEF Init
  <2> QED BY <1>4, <2>1 DEF OnePerSet, Active
<1> QED BY <1>1, <1>2, <1>3, <1>5, <1>6 DEF IInv

\* A step that is not active is in no list.
LEMMA NotListed ==
  ASSUME TypeOK, WaitersAreCounted, NEW job \in Job
  PROVE  cnt[job] = 0 <=> \A line \in Lines : job \notin Range(mshr_metadata[line])
<1> DEFINE L == {line \in Lines : job \in Range(mshr_metadata[line])}
<1>1. IsFiniteSet(L) /\ cnt[job] = Cardinality(L)
  <2>1. L \in SUBSET Lines
    OBVIOUS
  <2> QED BY <2>1, LineFacts, FS_Subset DEF WaitersAreCounted
<1>2. cnt[job] = 0 <=> L = {}
  <2> HIDE DEF L
  <2> QED BY <1>1, FS_EmptySet
<1> QED BY <1>2

\* What a check of a step that is not active does.
Checks(job, missed) ==
  /\ caches' \in CacheTypes /\ \A s \in 0 .. CacheSets - 1 : NoneTwice(caches'[s])
  /\ mshr_metadata' = [line \in Lines |->
       IF line \in missed THEN Append(mshr_metadata[line], job) ELSE mshr_metadata[line]]
  /\ cnt' = [cnt EXCEPT ![job] = Cardinality(missed)]
  /\ dram' = [line \in Lines |-> IF line \in missed /\ mshr_metadata[line] = <<>>
                                   THEN dram[line] + 1 ELSE dram[line]]
  /\ ready_to_pop' = IF missed = {} THEN Append(ready_to_pop, job) ELSE ready_to_pop

LEMMA CheckFacts ==
  ASSUME IInv, NEW job \in Job, NEW leaf \in Leaves, Check(job, leaf)
  PROVE  \E missed \in SUBSET Lines : Checks(job, missed)
<1> DEFINE look == LookUp(leaf, SetLvls)
           missed == look.missed
<1>1. /\ look \in Looks
      /\ \A s \in 0 .. CacheSets - 1 : NoneTwice(look.caches[s])
      /\ Cardinality(look.missed) = look.misses
  BY Types, CachedOnce, SetLevels, LooksOnce DEF IInv
<1>2. /\ caches' = look.caches
      /\ mshr_metadata' = [line \in Lines |->
           IF line \in look.missed THEN Append(mshr_metadata[line], job) ELSE mshr_metadata[line]]
      /\ cnt' = [cnt EXCEPT ![job] = look.misses]
      /\ dram' = [line \in Lines |-> IF line \in look.missed /\ mshr_metadata[line] = <<>>
                                       THEN dram[line] + 1 ELSE dram[line]]
      /\ ready_to_pop' = IF look.misses = 0 THEN Append(ready_to_pop, job) ELSE ready_to_pop
  BY DEF Check, Count, MustSend
<1> HIDE DEF look
<1>3. missed \in SUBSET Lines /\ look.caches \in CacheTypes
  BY <1>1 DEF Looks
<1>4. look.misses = 0 <=> missed = {}
  <2>1. IsFiniteSet(missed)
    BY <1>3, LineFacts, FS_Subset
  <2> QED BY <1>1, <2>1, FS_EmptySet
<1>5. ready_to_pop' = IF missed = {} THEN Append(ready_to_pop, job) ELSE ready_to_pop
  BY <1>2, <1>4
<1>6. Checks(job, missed)
  BY <1>1, <1>2, <1>3, <1>5 DEF Checks
<1> QED BY <1>3, <1>6

\* What an answered read does: the steps in the list wait for one line less.
Answers(line, q) ==
  /\ q \in Seq(Job) /\ IsInjective(q)
  /\ Range(q) = {job \in Range(mshr_metadata[line]) : cnt[job] = 1}
  /\ ready_to_pop' = ready_to_pop \o q
  /\ cnt' = [job \in Job |-> IF job \in Range(mshr_metadata[line]) THEN cnt[job] - 1 ELSE cnt[job]]
  /\ dram[line] = 1 /\ dram' = [dram EXCEPT ![line] = 0]
  /\ mshr_metadata' = [mshr_metadata EXCEPT ![line] = <<>>]
  /\ UNCHANGED <<caches, at, path>>

LEMMA RemoveFacts ==
  ASSUME IInv, NEW line \in Lines, MetadataRemove(line)
  PROVE  \E q \in Seq(Job) : Answers(line, q)
<1> DEFINE jobs == mshr_metadata[line]
<1>1. jobs \in Seq(Job) /\ dram[line] = 1 /\ TypeOK /\ WaitersAreCounted
  BY Types DEF IInv, MetadataRemove, OneReadPerLine
<1>2. Expecting(jobs)
  <2>1. ASSUME NEW job \in Range(jobs) PROVE cnt[job] > 0
    <3>1. job \in Job
      BY <1>1 DEF Range
    <3>2. cnt[job] # 0
      BY <1>1, <3>1, NotListed
    <3> QED BY <1>1, <3>1, <3>2, Types
  <2>2. IsInjective(jobs)
    BY <1>1 DEF WaitersAreCounted
  <2> QED BY <1>1, <2>1, <2>2, Types DEF Expecting
<1>3. /\ cnt' = Reached(jobs).cnt /\ ready_to_pop' = Reached(jobs).ready_to_pop
      /\ dram' = [dram EXCEPT ![line] = dram[line] - 1]
      /\ mshr_metadata' = [mshr_metadata EXCEPT ![line] = <<>>]
      /\ UNCHANGED <<caches, at, path>>
  BY DEF MetadataRemove
<1> HIDE DEF jobs
<1>4. Reached(jobs).cnt = [job \in Job |-> IF job \in Range(jobs) THEN cnt[job] - 1 ELSE cnt[job]]
  BY <1>2, ReachedSteps
<1>5. PICK q \in Seq(Job) : /\ Reached(jobs).ready_to_pop = ready_to_pop \o q
                            /\ IsInjective(q)
                            /\ Range(q) = {job \in Range(jobs) : cnt[job] = 1}
  BY <1>2, ReachedSteps
<1>6. dram' = [dram EXCEPT ![line] = 0]
  BY <1>1, <1>3
<1>7. Answers(line, q)
  BY <1>1, <1>3, <1>4, <1>5, <1>6 DEF Answers, jobs
<1> QED BY <1>7

-----------------------------------------------------------------------------
(***************************************************************************)
(* The steps keep the invariant.                                           *)
(***************************************************************************)
LEMMA CheckInv ==
  ASSUME IInv, NEW set \in Sets, NEW step \in {1, 4}, NEW leaf \in Leaves,
         at[set] # "checking", Check([set |-> set, step |-> step], leaf),
         at' = [at EXCEPT ![set] = "checking"], path' = [path EXCEPT ![set] = leaf]
  PROVE  IInv'
<1> DEFINE job == [set |-> set, step |-> step]
<1>1. job \in Job /\ job.set = set
  BY DEF Job
<1> HIDE DEF job
<1>2. PICK missed \in SUBSET Lines : Checks(job, missed)
  BY <1>1, CheckFacts DEF job
<1>3. /\ \A k \in Job : k.set = set => ~Active(k)
      /\ cnt[job] = 0 /\ job \notin Range(ready_to_pop)
      /\ \A line \in Lines : job \notin Range(mshr_metadata[line])
  <2>1. \A k \in Job : k.set = set => ~Active(k)
    BY DEF IInv, OnePerSet
  <2>2. cnt[job] = 0 /\ job \notin Range(ready_to_pop)
    BY <1>1, <2>1, Types DEF Active, IInv
  <2> QED BY <1>1, <2>1, <2>2, NotListed DEF IInv
<1>4. IsFiniteSet(missed) /\ Cardinality(missed) \in Nat /\ (Cardinality(missed) = 0 <=> missed = {})
  BY LineFacts, FS_Subset, FS_CardinalityType, FS_EmptySet
<1>5. ASSUME NEW line \in Lines
      PROVE  /\ mshr_metadata'[line] \in Seq(Job) /\ IsInjective(mshr_metadata'[line])
             /\ Range(mshr_metadata'[line]) =
                  Range(mshr_metadata[line]) \cup (IF line \in missed THEN {job} ELSE {})
             /\ line \in missed => mshr_metadata'[line] # <<>>
             /\ line \notin missed => mshr_metadata'[line] = mshr_metadata[line]
  <2>1. mshr_metadata[line] \in Seq(Job) /\ IsInjective(mshr_metadata[line])
    BY Types DEF IInv, WaitersAreCounted
  <2>2. mshr_metadata'[line] = IF line \in missed THEN Append(mshr_metadata[line], job)
                                                  ELSE mshr_metadata[line]
    BY <1>2 DEF Checks
  <2>3. CASE line \notin missed
    BY <2>1, <2>2, <2>3
  <2>4. CASE line \in missed
    <3> QED BY <1>1, <1>3, <2>1, <2>2, <2>4, AppendedJob
  <2> QED BY <2>3, <2>4
<1>6. /\ ready_to_pop' \in Seq(Job) /\ IsInjective(ready_to_pop')
      /\ Range(ready_to_pop') = Range(ready_to_pop) \cup (IF missed = {} THEN {job} ELSE {})
  <2>1. ready_to_pop \in Seq(Job) /\ IsInjective(ready_to_pop)
    BY Types DEF IInv, OnePerSet
  <2>2. ready_to_pop' = IF missed = {} THEN Append(ready_to_pop, job) ELSE ready_to_pop
    BY <1>2 DEF Checks
  <2> QED BY <1>1, <1>3, <2>1, <2>2, AppendedJob
<1>7. \A k \in Job : cnt'[k] = IF k = job THEN Cardinality(missed) ELSE cnt[k]
  BY <1>2, Types DEF Checks, IInv
<1>8. TypeOK'
  <2>1. caches' \in CacheTypes
    BY <1>2 DEF Checks
  <2>2. mshr_metadata' \in [Lines -> Seq(Job)]
    <3>1. mshr_metadata' = [line \in Lines |-> mshr_metadata'[line]]
      BY <1>2 DEF Checks
    <3> QED BY <1>5, <3>1
  <2>3. cnt' \in [Job -> Nat]
    BY <1>2, <1>4, Types DEF Checks, IInv
  <2>4. dram' \in [Lines -> Nat]
    BY <1>2, Types DEF Checks, IInv
  <2>5. /\ at' \in [Sets -> {"idle", "checking", "take", "taken", "write"}]
        /\ path' \in [Sets -> Leaves]
    BY Types DEF IInv
  <2> QED BY <1>6, <2>1, <2>2, <2>3, <2>4, <2>5 DEF TypeOK, CacheTypes
<1>9. CacheHoldsLinesOnce'
  <2>1. caches' \in CacheTypes /\ \A s \in 0 .. CacheSets - 1 : NoneTwice(caches'[s])
    BY <1>2 DEF Checks
  <2> QED BY <2>1 DEF CacheHoldsLinesOnce, NoneTwice, CacheTypes
<1>10. OneReadPerLine'
  <2> SUFFICES ASSUME NEW line \in Lines
               PROVE  dram'[line] = IF mshr_metadata'[line] = <<>> THEN 0 ELSE 1
    BY DEF OneReadPerLine
  <2>1. dram[line] = IF mshr_metadata[line] = <<>> THEN 0 ELSE 1
    BY DEF IInv, OneReadPerLine
  <2>2. dram'[line] = IF line \in missed /\ mshr_metadata[line] = <<>>
                        THEN dram[line] + 1 ELSE dram[line]
    BY <1>2 DEF Checks
  <2> QED BY <1>5, <2>1, <2>2
<1>11. WaitersAreCounted'
  <2>1. ASSUME NEW k \in Job
        PROVE  cnt'[k] = Cardinality({line \in Lines : k \in Range(mshr_metadata'[line])})
    <3>1. CASE k = job
      <4>1. {line \in Lines : k \in Range(mshr_metadata'[line])} = missed
        BY <1>3, <1>5, <3>1
      <4> QED BY <1>7, <3>1, <4>1
    <3>2. CASE k # job
      <4>1. {line \in Lines : k \in Range(mshr_metadata'[line])}
              = {line \in Lines : k \in Range(mshr_metadata[line])}
        BY <1>5, <3>2
      <4> QED BY <1>7, <3>2, <4>1 DEF IInv, WaitersAreCounted
    <3> QED BY <3>1, <3>2
  <2> QED BY <1>5, <2>1 DEF WaitersAreCounted
<1>12. OnePerSet'
  <2>1. ASSUME NEW k \in Job, k # job
        PROVE  Active(k)' <=> Active(k)
    BY <1>6, <1>7, <2>1 DEF Active
  <2>2. \A k \in Job : Active(k)' => k = job \/ (Active(k) /\ k.set # set)
    BY <1>3, <2>1
  <2>3. \A k \in Range(ready_to_pop') : cnt'[k] = 0
    <3> SUFFICES ASSUME NEW k \in Range(ready_to_pop') PROVE cnt'[k] = 0
      OBVIOUS
    <3>1. k \in Job
      BY <1>6 DEF Range
    <3>2. CASE k = job
      BY <1>1, <1>3, <1>4, <1>6, <1>7, <3>2
    <3>3. CASE k # job
      <4>1. k \in Range(ready_to_pop)
        BY <1>6, <3>3
      <4> QED BY <1>7, <3>1, <3>3, <4>1 DEF IInv, OnePerSet
    <3> QED BY <3>2, <3>3
  <2>4. \A j, k \in Job : Active(j)' /\ Active(k)' /\ j.set = k.set => j = k
    BY <1>1, <2>2 DEF IInv, OnePerSet
  <2>5. \A k \in Job : Active(k)' => at'[k.set] = "checking"
    <3> SUFFICES ASSUME NEW k \in Job, Active(k)' PROVE at'[k.set] = "checking"
      OBVIOUS
    <3>1. k.set \in Sets
      BY DEF Job
    <3>2. CASE k = job
      BY <1>1, <3>2, Types DEF IInv
    <3>3. CASE Active(k) /\ k.set # set
      BY <3>1, <3>3, Types DEF IInv, OnePerSet
    <3> QED BY <2>2, <3>2, <3>3
  <2> QED BY <1>6, <2>3, <2>4, <2>5 DEF OnePerSet
<1> QED BY <1>8, <1>9, <1>10, <1>11, <1>12 DEF IInv

\* A step of a task that looks lines up, or does nothing with the metadata.
LEMMA EngineInv ==
  ASSUME IInv, NEW set \in Sets, at[set] # "checking",
         NEW phase \in {"idle", "take", "taken", "write"}, at' = [at EXCEPT ![set] = phase],
         caches' \in CacheTypes, \A s \in 0 .. CacheSets - 1 : NoneTwice(caches'[s]),
         UNCHANGED <<mshr_metadata, cnt, dram, ready_to_pop, path>>
  PROVE  IInv'
<1>1. TypeOK'
  <2>1. at' \in [Sets -> {"idle", "checking", "take", "taken", "write"}]
    BY Types DEF IInv
  <2> QED BY <2>1, Types DEF IInv, TypeOK, CacheTypes
<1>2. CacheHoldsLinesOnce'
  BY DEF CacheHoldsLinesOnce, NoneTwice, CacheTypes
<1>3. OneReadPerLine' /\ WaitersAreCounted'
  BY DEF IInv, OneReadPerLine, WaitersAreCounted
<1>4. \A k \in Job : Active(k)' <=> Active(k)
  BY DEF Active
<1>5. \A k \in Job : Active(k) => at'[k.set] = "checking"
  <2> SUFFICES ASSUME NEW k \in Job, Active(k) PROVE at'[k.set] = "checking"
    OBVIOUS
  <2>1. k.set \in Sets /\ at[k.set] = "checking"
    BY DEF IInv, OnePerSet, Job
  <2> QED BY <2>1, Types DEF IInv
<1>6. OnePerSet'
  BY <1>4, <1>5 DEF IInv, OnePerSet
<1> QED BY <1>1, <1>2, <1>3, <1>6 DEF IInv

LEMMA RemoveInv ==
  ASSUME IInv, NEW line \in Lines, MetadataRemove(line)
  PROVE  IInv'
<1>1. PICK q \in Seq(Job) : Answers(line, q)
  BY RemoveFacts
<1> DEFINE jobs == mshr_metadata[line]
<1>2. /\ mshr_metadata \in [Lines -> Seq(Job)] /\ cnt \in [Job -> Nat] /\ dram \in [Lines -> Nat]
      /\ ready_to_pop \in Seq(Job) /\ TypeOK /\ WaitersAreCounted
  BY Types DEF IInv
<1>3. \A k \in Range(jobs) : k \in Job /\ cnt[k] > 0
  <2> SUFFICES ASSUME NEW k \in Range(jobs) PROVE k \in Job /\ cnt[k] > 0
    OBVIOUS
  <2>1. k \in Job
    BY <1>2 DEF Range
  <2>2. cnt[k] # 0
    BY <1>2, <2>1, NotListed
  <2> QED BY <1>2, <2>1, <2>2
<1>4. \A k \in Job : cnt'[k] = IF k \in Range(jobs) THEN cnt[k] - 1 ELSE cnt[k]
  BY <1>1 DEF Answers
<1>5. Range(q) = {job \in Range(jobs) : cnt[job] = 1} /\ IsInjective(q)
  BY <1>1 DEF Answers
<1>6. \A k \in Range(q) : k \in Job /\ cnt[k] = 1 /\ cnt'[k] = 0 /\ k \notin Range(ready_to_pop)
  <2>1. \A k \in Range(ready_to_pop) : cnt[k] = 0
    BY DEF IInv, OnePerSet
  <2> QED BY <1>3, <1>4, <1>5, <2>1
<1>7. /\ ready_to_pop' \in Seq(Job) /\ IsInjective(ready_to_pop')
      /\ Range(ready_to_pop') = Range(ready_to_pop) \cup Range(q)
  <2>1. ready_to_pop' = ready_to_pop \o q
    BY <1>1 DEF Answers
  <2>2. IsInjective(ready_to_pop) /\ Range(ready_to_pop) \cap Range(q) = {}
    BY <1>6 DEF IInv, OnePerSet
  <2> HIDE DEF jobs
  <2> QED BY <1>2, <1>5, <2>1, <2>2, Joined
<1>8. \A l \in Lines : mshr_metadata'[l] = IF l = line THEN <<>> ELSE mshr_metadata[l]
  BY <1>1, <1>2 DEF Answers
<1>9. Range(<<>>) = {} /\ IsInjective(<<>>)
  BY DEF Range, IsInjective
<1> HIDE DEF jobs
<1>10. TypeOK'
  <2>1. cnt' \in [Job -> Nat]
    <3>1. ASSUME NEW k \in Job PROVE cnt'[k] \in Nat
      <4>1. CASE k \in Range(jobs)
        BY <1>2, <1>3, <1>4, <4>1
      <4>2. CASE k \notin Range(jobs)
        BY <1>2, <1>4, <4>2
      <4> QED BY <4>1, <4>2
    <3>2. cnt' = [k \in Job |-> cnt'[k]]
      BY <1>1 DEF Answers
    <3> QED BY <3>1, <3>2
  <2>2. dram' \in [Lines -> Nat] /\ mshr_metadata' \in [Lines -> Seq(Job)]
    BY <1>1, <1>2 DEF Answers
  <2>3. UNCHANGED <<caches, at, path>>
    BY <1>1 DEF Answers
  <2> QED BY <1>2, <1>7, <2>1, <2>2, <2>3 DEF TypeOK
<1>11. CacheHoldsLinesOnce'
  BY <1>1 DEF Answers, IInv, CacheHoldsLinesOnce
<1>12. OneReadPerLine'
  <2> SUFFICES ASSUME NEW l \in Lines
               PROVE  dram'[l] = IF mshr_metadata'[l] = <<>> THEN 0 ELSE 1
    BY DEF OneReadPerLine
  <2>1. dram'[l] = IF l = line THEN 0 ELSE dram[l]
    BY <1>1, <1>2 DEF Answers
  <2> QED BY <1>8, <2>1 DEF IInv, OneReadPerLine
<1>13. WaitersAreCounted'
  <2>1. \A l \in Lines : IsInjective(mshr_metadata'[l])
    BY <1>2, <1>8, <1>9 DEF WaitersAreCounted
  <2>2. ASSUME NEW k \in Job
        PROVE  cnt'[k] = Cardinality({l \in Lines : k \in Range(mshr_metadata'[l])})
    <3> DEFINE Old == {l \in Lines : k \in Range(mshr_metadata[l])}
               New == {l \in Lines : k \in Range(mshr_metadata'[l])}
    <3>1. New = Old \ {line}
      BY <1>8, <1>9
    <3>2. line \in Old <=> k \in Range(jobs)
      BY DEF jobs
    <3>3. cnt[k] = Cardinality(Old)
      BY <1>2 DEF WaitersAreCounted
    <3>4. IsFiniteSet(Old)
      <4>1. Old \in SUBSET Lines
        OBVIOUS
      <4> QED BY <4>1, LineFacts, FS_Subset
    <3> HIDE DEF Old, New
    <3>5. Cardinality(New) = IF line \in Old THEN Cardinality(Old) - 1 ELSE Cardinality(Old)
      BY <3>1, <3>4, FS_RemoveElement
    <3>6. cnt'[k] = Cardinality(New)
      BY <1>4, <3>2, <3>3, <3>5
    <3> QED BY <3>6 DEF New
  <2> QED BY <2>1, <2>2 DEF WaitersAreCounted
<1>14. OnePerSet'
  <2>1. ASSUME NEW k \in Job, Active(k)' PROVE Active(k)
    <3>1. CASE k \in Range(q)
      BY <1>6, <3>1 DEF Active
    <3>2. CASE k \notin Range(q)
      BY <1>2, <1>3, <1>4, <1>7, <2>1, <3>2 DEF Active
    <3> QED BY <3>1, <3>2
  <2>2. \A k \in Range(ready_to_pop') : cnt'[k] = 0
    <3> SUFFICES ASSUME NEW k \in Range(ready_to_pop), k \notin Range(q) PROVE cnt'[k] = 0
      BY <1>6, <1>7
    <3>1. k \in Job /\ cnt[k] = 0
      BY <1>2 DEF IInv, OnePerSet, Range
    <3>2. k \notin Range(jobs)
      BY <1>3, <3>1
    <3> QED BY <1>4, <3>1, <3>2
  <2>3. at' = at
    BY <1>1 DEF Answers
  <2> QED BY <1>7, <2>1, <2>2, <2>3 DEF IInv, OnePerSet
<1> QED BY <1>10, <1>11, <1>12, <1>13, <1>14 DEF IInv

LEMMA PopInv ==
  ASSUME IInv, PopReady
  PROVE  IInv'
<1> DEFINE job == Head(ready_to_pop)
<1>1. /\ ready_to_pop \in Seq(Job) /\ ready_to_pop # <<>> /\ IsInjective(ready_to_pop)
      /\ ready_to_pop' = Tail(ready_to_pop)
      /\ UNCHANGED <<caches, mshr_metadata, cnt, dram, path>>
      /\ at' = [at EXCEPT ![job.set] = IF job.step = 1 THEN "take" ELSE "write"]
  BY Types DEF IInv, OnePerSet, PopReady
<1> HIDE DEF job
<1>2. /\ job \in Job /\ job \in Range(ready_to_pop) /\ ready_to_pop' \in Seq(Job)
      /\ IsInjective(ready_to_pop') /\ Range(ready_to_pop') = Range(ready_to_pop) \ {job}
  BY <1>1, WithoutHead DEF job
<1>3. job.set \in Sets
  BY <1>2 DEF Job
<1>4. TypeOK'
  <2>1. at' \in [Sets -> {"idle", "checking", "take", "taken", "write"}]
    BY <1>1, <1>3, Types DEF IInv
  <2> QED BY <1>1, <1>2, <2>1 DEF IInv, TypeOK
<1>5. CacheHoldsLinesOnce' /\ OneReadPerLine' /\ WaitersAreCounted'
  BY <1>1 DEF IInv, CacheHoldsLinesOnce, OneReadPerLine, WaitersAreCounted
<1>6. OnePerSet'
  <2>1. cnt[job] = 0 /\ Active(job)
    BY <1>2 DEF IInv, OnePerSet, Active
  <2>2. ASSUME NEW k \in Job, Active(k)' PROVE Active(k) /\ k # job
    BY <1>1, <1>2, <2>1, <2>2 DEF Active
  <2>3. \A k \in Range(ready_to_pop') : cnt'[k] = 0
    BY <1>1, <1>2 DEF IInv, OnePerSet
  <2>4. \A j, k \in Job : Active(j)' /\ Active(k)' /\ j.set = k.set => j = k
    BY <2>2 DEF IInv, OnePerSet
  <2>5. ASSUME NEW k \in Job, Active(k)' PROVE at'[k.set] = "checking"
    <3>1. Active(k) /\ k # job
      BY <2>2, <2>5
    <3>2. k.set # job.set
      BY <1>2, <2>1, <3>1 DEF IInv, OnePerSet
    <3>3. at[k.set] = "checking" /\ k.set \in Sets
      BY <3>1 DEF IInv, OnePerSet, Job
    <3> QED BY <1>1, <1>3, <3>2, <3>3, Types DEF IInv
  <2> QED BY <1>2, <2>3, <2>4, <2>5 DEF OnePerSet
<1> QED BY <1>4, <1>5, <1>6 DEF IInv

LEMMA NextInv == IInv /\ [Next]_vars => IInv'
<1> SUFFICES ASSUME IInv, [Next]_vars PROVE IInv'
  OBVIOUS
<1> USE DEF IInv
<1>1. ASSUME NEW set \in Sets, NEW leaf \in LeavesOf(set),
             CheckAfterPosmap(set, leaf) \/ CheckWriteback(set, leaf)
      PROVE  IInv'
  <2>1. leaf \in Leaves
    BY LeavesOfSet
  <2>2. PICK step \in {1, 4} : /\ Check([set |-> set, step |-> step], leaf)
                               /\ at[set] # "checking"
                               /\ at' = [at EXCEPT ![set] = "checking"]
                               /\ path' = [path EXCEPT ![set] = leaf]
    BY <1>1 DEF CheckAfterPosmap, CheckWriteback
  <2> HIDE DEF IInv
  <2> QED BY <2>1, <2>2, CheckInv
<1>2. ASSUME NEW set \in Sets, NEW phase \in {"idle", "taken"},
             at[set] # "checking", at' = [at EXCEPT ![set] = phase],
             caches' \in CacheTypes, \A s \in 0 .. CacheSets - 1 : NoneTwice(caches'[s]),
             UNCHANGED <<mshr_metadata, cnt, dram, ready_to_pop, path>>
      PROVE  IInv'
  <2> HIDE DEF IInv
  <2> QED BY <1>2, EngineInv
<1>3. ASSUME NEW set \in Sets, NEW lvls \in SUBSET SetLvls, TakeSlots(set, lvls)
      PROVE  IInv'
  <2>1. path[set] \in Leaves /\ lvls \in SUBSET Lvls
    BY Types, SetLevels
  <2>2. LookUp(path[set], lvls) \in Looks
    /\ \A s \in 0 .. CacheSets - 1 : NoneTwice(LookUp(path[set], lvls).caches[s])
    BY <2>1, Types, CachedOnce, LooksOnce
  <2>3. caches' \in CacheTypes /\ \A s \in 0 .. CacheSets - 1 : NoneTwice(caches'[s])
    BY <1>3, <2>2 DEF Looks, TakeSlots
  <2> HIDE DEF IInv
  <2> QED BY <1>2, <1>3, <2>3 DEF TakeSlots
<1>4. ASSUME NEW set \in Sets, Writeback(set)
      PROVE  IInv'
  <2>1. path[set] \in Leaves
    BY Types
  <2>2. caches' \in CacheTypes /\ \A s \in 0 .. CacheSets - 1 : NoneTwice(caches'[s])
    BY <1>4, <2>1, Types, CachedOnce, AllLookedUp DEF Writeback
  <2> HIDE DEF IInv
  <2> QED BY <1>2, <1>4, <2>2 DEF Writeback
<1>5. ASSUME NEW set \in Sets, NoWriteback(set)
      PROVE  IInv'
  <2>1. caches' \in CacheTypes /\ \A s \in 0 .. CacheSets - 1 : NoneTwice(caches'[s])
    BY <1>5, Types, CachedOnce DEF NoWriteback
  <2>2. at[set] # "checking" /\ at' = [at EXCEPT ![set] = "idle"]
    /\ UNCHANGED <<mshr_metadata, cnt, dram, ready_to_pop, path>>
    BY <1>5 DEF NoWriteback
  <2> HIDE DEF IInv
  <2> QED BY <2>1, <2>2, EngineInv
<1>6. ASSUME NEW line \in Lines, MetadataRemove(line)
      PROVE  IInv'
  <2> HIDE DEF IInv
  <2> QED BY <1>6, RemoveInv
<1>7. CASE PopReady
  <2> HIDE DEF IInv
  <2> QED BY <1>7, PopInv
<1>8. CASE UNCHANGED vars
  BY <1>8 DEF vars, TypeOK, CacheHoldsLinesOnce, OneReadPerLine, WaitersAreCounted, OnePerSet, Active
<1> HIDE DEF IInv
<1> QED BY <1>1, <1>3, <1>4, <1>5, <1>6, <1>7, <1>8 DEF Next

\* In every state that the metadata fetch reaches the cache holds no line twice, a line
\* is being read, once, exactly when steps wait for it, and a step waits for the lines
\* it is listed for (check_metadata_after_posmap, check_wb_metadata, metadata_remove).
THEOREM FetchInvariance == Spec => []IInv
BY InitInv, NextInv, PTL DEF Spec

-----------------------------------------------------------------------------
(***************************************************************************)
(* The fetch implements AnswerOnce.                                        *)
(***************************************************************************)
Waiting == {job \in Job : cnt[job] > 0}

LEMMA SameRange == \A f : Fetch!Range(f) = Range(f)
BY DEF Fetch!Range, Range

\* The answers of one read are an order of the steps it answers.
LEMMA AnOrder ==
  ASSUME NEW q \in Seq(Job), IsInjective(q)
  PROVE  q \in Fetch!Bijection(1 .. Fetch!Cardinality(Range(q)), Range(q))
<1>1. DOMAIN q = 1 .. Len(q) /\ Len(q) \in Nat
  OBVIOUS
<1>2. q \in [1 .. Len(q) -> Range(q)] /\ \A t \in Range(q) : \E i \in 1 .. Len(q) : q[i] = t
  BY <1>1 DEF Range
<1>3. q \in Bijection(1 .. Len(q), Range(q))
  BY <1>2 DEF Bijection, Injection, Surjection
<1>4. Cardinality(Range(q)) = Len(q)
  <2>1. ExistsBijection(1 .. Len(q), Range(q))
    BY <1>3 DEF ExistsBijection
  <2> QED BY <1>1, <2>1, FS_CountingElements
<1>5. Fetch!Cardinality(Range(q)) = Len(q)
  BY <1>4 DEF Fetch!Cardinality, Cardinality
<1>6. q \in Fetch!Bijection(1 .. Len(q), Range(q))
  BY <1>2 DEF Fetch!Bijection, Fetch!Injection, Fetch!Surjection, Fetch!IsInjective, IsInjective
<1> QED BY <1>5, <1>6

LEMMA FetchInit == Init => Fetch!Init
BY DEF Init, Fetch!Init

LEMMA CheckAnswers ==
  ASSUME IInv, NEW set \in Sets, NEW step \in {1, 4}, NEW leaf \in Leaves,
         at[set] # "checking", Check([set |-> set, step |-> step], leaf)
  PROVE  Fetch!Next
<1> DEFINE job == [set |-> set, step |-> step]
<1>1. job \in Job /\ job.set = set
  BY DEF Job
<1> HIDE DEF job
<1>2. PICK missed \in SUBSET Lines : Checks(job, missed)
  BY <1>1, CheckFacts DEF job
<1>3. ~Active(job) /\ cnt \in [Job -> Nat]
  BY <1>1, Types DEF IInv, OnePerSet
<1>4. job \notin Waiting /\ job \notin Fetch!Range(ready_to_pop)
  BY <1>3, SameRange DEF Active, Waiting
<1>5. IsFiniteSet(missed) /\ Cardinality(missed) \in Nat /\ (Cardinality(missed) = 0 <=> missed = {})
  BY LineFacts, FS_Subset, FS_CardinalityType, FS_EmptySet
<1>6. \A k \in Job : cnt'[k] = IF k = job THEN Cardinality(missed) ELSE cnt[k]
  BY <1>2, <1>3 DEF Checks
<1>7. CASE missed = {}
  <2>1. Waiting' = Waiting
    BY <1>3, <1>4, <1>5, <1>6, <1>7 DEF Waiting
  <2>2. ready_to_pop' = Append(ready_to_pop, job)
    BY <1>2, <1>7 DEF Checks
  <2>3. Fetch!AnswerAtOnce(job)
    BY <1>4, <2>1, <2>2 DEF Fetch!AnswerAtOnce, Waiting
  <2> QED BY <1>1, <2>3 DEF Fetch!Next
<1>8. CASE missed # {}
  <2>1. Waiting' = Waiting \cup {job}
    BY <1>1, <1>5, <1>6, <1>8 DEF Waiting
  <2>2. ready_to_pop' = ready_to_pop
    BY <1>2, <1>8 DEF Checks
  <2>3. Fetch!Ask(job)
    BY <1>4, <2>1, <2>2 DEF Fetch!Ask, Waiting
  <2> QED BY <1>1, <2>3 DEF Fetch!Next
<1> QED BY <1>7, <1>8

LEMMA RemoveAnswers ==
  ASSUME IInv, NEW line \in Lines, MetadataRemove(line)
  PROVE  [Fetch!Next]_Fetch!vars
<1>1. PICK q \in Seq(Job) : Answers(line, q)
  BY RemoveFacts
<1>2. /\ IsInjective(q) /\ Range(q) = {job \in Range(mshr_metadata[line]) : cnt[job] = 1}
      /\ ready_to_pop' = ready_to_pop \o q
      /\ \A k \in Job : cnt'[k] = IF k \in Range(mshr_metadata[line]) THEN cnt[k] - 1 ELSE cnt[k]
  BY <1>1 DEF Answers
<1>3. cnt \in [Job -> Nat] /\ ready_to_pop \in Seq(Job)
  BY Types DEF IInv
<1>4. \A k \in Range(mshr_metadata[line]) : k \in Job /\ cnt[k] > 0
  <2>1. mshr_metadata[line] \in Seq(Job) /\ TypeOK /\ WaitersAreCounted
    BY Types DEF IInv
  <2>2. \A k \in Range(mshr_metadata[line]) : k \in Job
    BY <2>1 DEF Range
  <2>3. \A k \in Range(mshr_metadata[line]) : cnt[k] # 0
    BY <2>1, <2>2, NotListed
  <2> QED BY <1>3, <2>2, <2>3
<1>5. Range(q) \in SUBSET Waiting
  BY <1>2, <1>4 DEF Waiting
<1>6. Waiting' = Waiting \ Range(q)
  <2>1. ASSUME NEW k \in Job PROVE cnt'[k] > 0 <=> cnt[k] > 0 /\ k \notin Range(q)
    <3>1. CASE k \in Range(mshr_metadata[line])
      BY <1>2, <1>3, <1>4, <3>1
    <3>2. CASE k \notin Range(mshr_metadata[line])
      BY <1>2, <3>2
    <3> QED BY <3>1, <3>2
  <2> QED BY <2>1 DEF Waiting
<1>7. CASE Range(q) = {}
  <2>1. q = <<>>
    <3>1. \A i \in 1 .. Len(q) : q[i] \in Range(q)
      BY DEF Range
    <3>2. Len(q) \in Nat
      OBVIOUS
    <3>3. Len(q) = 0
      BY <1>7, <3>1, <3>2
    <3> QED BY <3>3
  <2>2. ready_to_pop' = ready_to_pop
    BY <1>2, <1>3, <2>1
  <2>3. Waiting' = Waiting
    BY <1>6, <1>7
  <2> QED BY <2>2, <2>3 DEF Fetch!vars, Waiting
<1>8. CASE Range(q) # {}
  <2>1. q \in Fetch!Bijection(1 .. Fetch!Cardinality(Range(q)), Range(q))
    BY <1>2, AnOrder
  <2>2. Fetch!Answer(Range(q))
    BY <1>2, <1>6, <1>8, <2>1 DEF Fetch!Answer, Waiting
  <2> QED BY <1>5, <2>2 DEF Fetch!Next, Waiting
<1> QED BY <1>7, <1>8

LEMMA FetchSteps == IInv /\ [Next]_vars => [Fetch!Next]_Fetch!vars
<1> SUFFICES ASSUME IInv, [Next]_vars PROVE [Fetch!Next]_Fetch!vars
  OBVIOUS
<1>1. ASSUME NEW set \in Sets, NEW leaf \in LeavesOf(set),
             CheckAfterPosmap(set, leaf) \/ CheckWriteback(set, leaf)
      PROVE  Fetch!Next
  <2>1. leaf \in Leaves
    BY LeavesOfSet
  <2>2. PICK step \in {1, 4} : Check([set |-> set, step |-> step], leaf) /\ at[set] # "checking"
    BY <1>1 DEF CheckAfterPosmap, CheckWriteback
  <2> QED BY <2>1, <2>2, CheckAnswers
<1>2. ASSUME UNCHANGED <<cnt, ready_to_pop>>
      PROVE  UNCHANGED Fetch!vars
  BY <1>2 DEF Fetch!vars
<1>3. ASSUME NEW set \in Sets, NEW lvls \in SUBSET SetLvls, TakeSlots(set, lvls)
      PROVE  UNCHANGED Fetch!vars
  BY <1>2, <1>3 DEF TakeSlots
<1>4. ASSUME NEW set \in Sets, NoWriteback(set) \/ Writeback(set)
      PROVE  UNCHANGED Fetch!vars
  BY <1>2, <1>4 DEF NoWriteback, Writeback
<1>5. ASSUME PopReady
      PROVE  Fetch!Next
  BY <1>5 DEF PopReady, Fetch!Next, Fetch!Pop
<1>6. CASE UNCHANGED vars
  BY <1>2, <1>6 DEF vars
<1> QED BY <1>1, <1>3, <1>4, <1>5, <1>6, RemoveAnswers DEF Next

\* The metadata fetch keeps its invariants and answers each check exactly once, whatever
\* lines the on-chip cache evicts while they are on their way, and whatever other checks
\* wait for the same line.
THEOREM ChecksAnsweredOnce == Spec => ImplementsAnswerOnce
<1>1. Spec => []IInv
  BY FetchInvariance
<1>2. IInv => TypeOK /\ CacheHoldsLinesOnce /\ OneReadPerLine /\ WaitersAreCounted
  BY DEF IInv
<1> QED BY <1>1, <1>2, FetchInit, FetchSteps, PTL DEF Spec, Fetch!Spec, ImplementsAnswerOnce

=============================================================================
