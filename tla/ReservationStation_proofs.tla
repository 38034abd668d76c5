---------------------- MODULE ReservationStation_proofs ----------------------
(***************************************************************************)
(* Proofs about the reservation station of one level, for every number of  *)
(* sets and of leaves per set, every Z, S and A, every ring that holds the *)
(* lines of a step, and every part of the tree on chip.                    *)
(***************************************************************************)
EXTENDS ReservationStation, RingTree_proofs

N == NumEntries

-----------------------------------------------------------------------------
(***************************************************************************)
(* The ring's arithmetic.                                                  *)
(***************************************************************************)
LEMMA Sizes ==
  /\ N \in Nat /\ N >= 5 /\ WayLvls \in Nat /\ StartLvl \in Nat
  /\ Z \in Nat \ {0} /\ S \in Nat \ {0} /\ A \in Nat \ {0}
  /\ N >= 3 + 2 * (WayLvls + 1) /\ LineIds = 0 .. N - 1
BY TreeAssumption, StationAssumption DEF StationAssumption, N, LineIds

AgeFrom(h, l) == (l - h) % N
Slot(h, i) == (h + i) % N

\* At most one turn around the ring.
LEMMA SlotIs ==
  ASSUME NEW h \in LineIds, NEW i \in 0 .. N
  PROVE  Slot(h, i) = IF h + i < N THEN h + i ELSE h + i - N
<1>1. N \in Nat /\ N >= 5 /\ h \in Nat /\ h < N /\ i \in Nat /\ i <= N
  BY Sizes
<1>2. CASE h + i < N
  BY <1>1, <1>2 DEF Slot
<1>3. CASE h + i >= N
  <2>1. (h + i) % N = h + i - N
    BY <1>1, <1>3
  <2> QED BY <2>1, <1>1, <1>3 DEF Slot
<1> QED BY <1>1, <1>2, <1>3

LEMMA AgeIs ==
  ASSUME NEW h \in LineIds, NEW l \in LineIds
  PROVE  AgeFrom(h, l) = IF l >= h THEN l - h ELSE l - h + N
<1>1. N \in Nat /\ N >= 5 /\ h \in Nat /\ h < N /\ l \in Nat /\ l < N
  BY Sizes
<1>2. CASE l >= h
  BY <1>1, <1>2 DEF AgeFrom
<1>3. CASE l < h
  <2>1. (l - h) % N = l - h + N
    BY <1>1, <1>3
  <2> QED BY <2>1, <1>1, <1>3 DEF AgeFrom
<1> QED BY <1>1, <1>2, <1>3

LEMMA AgeOfSlot ==
  ASSUME NEW h \in LineIds
  PROVE  /\ \A l \in LineIds : AgeFrom(h, l) \in 0 .. N - 1 /\ Slot(h, AgeFrom(h, l)) = l
         /\ \A i \in 0 .. N - 1 : Slot(h, i) \in LineIds /\ AgeFrom(h, Slot(h, i)) = i
         /\ Slot(h, 0) = h /\ AgeFrom(h, h) = 0
<1>1. N \in Nat /\ N >= 5 /\ h \in Nat /\ h < N /\ LineIds = 0 .. N - 1
  BY Sizes
<1>2. ASSUME NEW l \in LineIds
      PROVE  AgeFrom(h, l) \in 0 .. N - 1 /\ Slot(h, AgeFrom(h, l)) = l
  <2> DEFINE a == AgeFrom(h, l)
  <2>1. l \in Nat /\ l < N /\ a = IF l >= h THEN l - h ELSE l - h + N
    BY <1>1, AgeIs
  <2> HIDE DEF a
  <2>2. a \in 0 .. N - 1 /\ a \in 0 .. N
    BY <1>1, <2>1
  <2>3. Slot(h, a) = l
    BY <1>1, <2>1, <2>2, SlotIs
  <2> QED BY <2>2, <2>3 DEF a
<1>3. ASSUME NEW i \in 0 .. N - 1
      PROVE  Slot(h, i) \in LineIds /\ AgeFrom(h, Slot(h, i)) = i
  <2> DEFINE l == Slot(h, i)
  <2>1. i \in 0 .. N /\ l = IF h + i < N THEN h + i ELSE h + i - N
    BY <1>1, SlotIs
  <2> HIDE DEF l
  <2>2. l \in LineIds
    BY <1>1, <2>1
  <2>3. AgeFrom(h, l) = i
    BY <1>1, <2>1, <2>2, AgeIs
  <2> QED BY <2>2, <2>3 DEF l
<1>4. Slot(h, 0) = h /\ AgeFrom(h, h) = 0
  <2>1. 0 \in 0 .. N
    BY <1>1
  <2> QED BY <1>1, <2>1, SlotIs, AgeIs
<1> QED BY <1>2, <1>3, <1>4

LEMMA SameAge ==
  ASSUME NEW h \in LineIds, NEW k \in LineIds, NEW l \in LineIds,
         AgeFrom(h, k) = AgeFrom(h, l)
  PROVE  k = l
BY AgeOfSlot

\* The slot after another one.
LEMMA NextSlot ==
  ASSUME NEW h \in LineIds
  PROVE  /\ After(h) = Slot(h, 1) /\ After(h) \in LineIds
         /\ \A i \in 0 .. N - 1 : After(Slot(h, i)) = Slot(h, i + 1)
         /\ \A i \in 0 .. N - 1 : Slot(After(h), i) = Slot(h, i + 1)
         /\ \A l \in LineIds : l # h => AgeFrom(h, l) >= 1 /\ AgeFrom(After(h), l) = AgeFrom(h, l) - 1
         /\ AgeFrom(After(h), h) = N - 1
<1>1. N \in Nat /\ N >= 5 /\ h \in Nat /\ h < N /\ LineIds = 0 .. N - 1
  BY Sizes
<1>2. ASSUME NEW k \in LineIds
      PROVE  After(k) = Slot(k, 1) /\ After(k) \in LineIds
             /\ After(k) = IF k + 1 < N THEN k + 1 ELSE 0
  <2>1. After(k) = Slot(k, 1)
    BY DEF After, Slot, N
  <2>2. 1 \in 0 .. N - 1 /\ 1 \in 0 .. N /\ k \in 0 .. N - 1
    BY <1>1
  <2>3. Slot(k, 1) = IF k + 1 < N THEN k + 1 ELSE k + 1 - N
    BY <2>2, SlotIs
  <2>4. Slot(k, 1) \in LineIds
    BY <2>2, AgeOfSlot
  <2> QED BY <1>1, <2>1, <2>2, <2>3, <2>4
<1>3. ASSUME NEW i \in 0 .. N - 1
      PROVE  After(Slot(h, i)) = Slot(h, i + 1) /\ Slot(After(h), i) = Slot(h, i + 1)
  <2> DEFINE l == Slot(h, i)
             k == After(h)
  <2>1. l \in LineIds /\ i \in 0 .. N /\ i + 1 \in 0 .. N
    BY <1>1, AgeOfSlot
  <2>2. l = IF h + i < N THEN h + i ELSE h + i - N
    BY <2>1, SlotIs
  <2>3. Slot(h, i + 1) = IF h + (i + 1) < N THEN h + (i + 1) ELSE h + (i + 1) - N
    BY <2>1, SlotIs
  <2>4. k \in LineIds /\ k = IF h + 1 < N THEN h + 1 ELSE 0
    BY <1>2
  <2> HIDE DEF l, k
  <2>5. After(l) = IF l + 1 < N THEN l + 1 ELSE 0
    BY <1>2, <2>1
  <2>6. Slot(k, i) = IF k + i < N THEN k + i ELSE k + i - N
    BY <2>1, <2>4, SlotIs
  <2>7. l \in Nat /\ k \in Nat /\ i \in Nat /\ i < N
    BY <1>1, <2>1, <2>4
  <2>8. After(l) = Slot(h, i + 1)
    BY <1>1, <2>2, <2>3, <2>5, <2>7
  <2>9. Slot(k, i) = Slot(h, i + 1)
    BY <1>1, <2>3, <2>4, <2>6, <2>7
  <2> QED BY <2>8, <2>9 DEF l, k
<1>4. ASSUME NEW l \in LineIds
      PROVE  /\ l # h => AgeFrom(h, l) >= 1 /\ AgeFrom(After(h), l) = AgeFrom(h, l) - 1
             /\ l = h => AgeFrom(After(h), l) = N - 1
  <2> DEFINE k == After(h)
  <2>1. k \in LineIds /\ k = IF h + 1 < N THEN h + 1 ELSE 0
    BY <1>2
  <2> HIDE DEF k
  <2>2. AgeFrom(h, l) = IF l >= h THEN l - h ELSE l - h + N
    BY AgeIs
  <2>3. AgeFrom(k, l) = IF l >= k THEN l - k ELSE l - k + N
    BY <2>1, AgeIs
  <2>4. l \in Nat /\ l < N /\ k \in Nat
    BY <1>1, <2>1
  <2>5. l # h => AgeFrom(h, l) >= 1 /\ AgeFrom(k, l) = AgeFrom(h, l) - 1
    BY <1>1, <2>1, <2>2, <2>3, <2>4
  <2>6. l = h => AgeFrom(k, l) = N - 1
    BY <1>1, <2>1, <2>2, <2>3, <2>4
  <2> QED BY <2>5, <2>6 DEF k
<1> QED BY <1>2, <1>3, <1>4

-----------------------------------------------------------------------------
(***************************************************************************)
(* The parts of the invariant, of a station r whose ring holds b lines and *)
(* whose steps have claimed c slots: those of the b lines, and those of    *)
(* the lines that the step being registered is still to put in the ring.   *)
(***************************************************************************)
InUse(line)   == line.valid /\ line.type # "init"
Old(r, l)     == AgeFrom(r.head, l)
Awaited(r, l) == {a \in Address : l \in Range(r.mshr_array[a])}
Held(r, c, s) == {k \in LineIds : Old(r, k) < c /\ r.task_map[k] = s}

Ring(r, b, c) ==
  /\ b \in Nat /\ c \in Nat /\ b <= c /\ c < N
  /\ r.tail = Slot(r.head, b)
  /\ \A l \in LineIds : InUse(r.vec[l]) <=> Old(r, l) < b
  /\ \A l \in LineIds : r.vec[l].valid /\ r.vec[l].ready => InUse(r.vec[l])

\* Every line waits for the reads it is listed for, which no other line waits for.
Counted(r, b) ==
  /\ \A a \in Address : Len(r.mshr_array[a]) <= 1
  /\ \A a \in Address : \A l \in Range(r.mshr_array[a]) : Old(r, l) < b
  /\ \A l \in LineIds : Old(r, l) < b =>
       /\ r.vec[l].unfinished = Cardinality(Awaited(r, l))
       /\ r.vec[l].ready <=> r.vec[l].unfinished = 0

\* The slots of a step lie side by side, and its counter is their number.
Steps(r, c) ==
  \A k \in LineIds : Old(r, k) < c =>
    LET s == r.task_map[k] IN
    /\ Old(r, k) <= Old(r, s) /\ Old(r, s) < c
    /\ r.cnt[s] = Cardinality(Held(r, c, s))
    /\ \A j \in LineIds : Old(r, k) <= Old(r, j) /\ Old(r, j) <= Old(r, s) => r.task_map[j] = s

\* The steps a set's task does not go on without, and what it is at until then.
Awaits(job) == job.step # 3 \/ job.wb
Due(job) == IF job.step = 2 THEN "taking" ELSE IF job.step = 3 THEN "pulling" ELSE "writing"

\* A task waits for one step at a time, in the ring or among the answered.
Jobs(r, c, q) ==
  /\ \A k \in LineIds : Old(r, k) < c /\ Awaits(r.job[r.task_map[k]]) =>
       q[r.job[r.task_map[k]].set] = Due(r.job[r.task_map[k]])
  /\ \A i \in DOMAIN r.ready_to_pop : Awaits(r.ready_to_pop[i]) =>
       q[r.ready_to_pop[i].set] = Due(r.ready_to_pop[i])
  /\ \A k, l \in LineIds :
       /\ Old(r, k) < c /\ Old(r, l) < c /\ r.task_map[k] # r.task_map[l]
       /\ Awaits(r.job[r.task_map[k]]) /\ Awaits(r.job[r.task_map[l]])
       => r.job[r.task_map[k]].set # r.job[r.task_map[l]].set
  /\ \A i, j \in DOMAIN r.ready_to_pop :
       i # j /\ Awaits(r.ready_to_pop[i]) /\ Awaits(r.ready_to_pop[j])
       => r.ready_to_pop[i].set # r.ready_to_pop[j].set
  /\ \A k \in LineIds : \A i \in DOMAIN r.ready_to_pop :
       Old(r, k) < c /\ Awaits(r.job[r.task_map[k]]) /\ Awaits(r.ready_to_pop[i])
       => r.job[r.task_map[k]].set # r.ready_to_pop[i].set

\* A line that writes belongs to a step of the set it writes to.
WritesOwn(line, job) ==
  IsWrite(line) =>
    /\ job.step \in {2, 5}
    /\ line.node # NoNode => line.node \in SetNodes(job.set)
    /\ line.leaf # NoLeaf => line.leaf \in LeavesOf(job.set)

Owned(r, b) == \A w \in LineIds : Old(r, w) < b => WritesOwn(r.vec[w], r.job[r.task_map[w]])

\* A line in use that writes bucket n.
WritesTo(r, b, w, n) == Old(r, w) < b /\ Writes(r.vec[w], n)

Unwritten(r, b, n) == \A w \in LineIds : ~WritesTo(r, b, w, n)

\* Reads are for lines no younger than the writes of their bucket.
Follow(r, b) ==
  \A a \in Address : \A l \in Range(r.mshr_array[a]) : \A w \in LineIds :
    WritesTo(r, b, w, a[1]) => Old(r, w) >= Old(r, l)

\* The slots F are not being read, unless for a line before a write of their bucket.
Safe(r, b, F) ==
  \A a \in Address \cap F : \A l \in Range(r.mshr_array[a]) :
    \E w \in LineIds : WritesTo(r, b, w, a[1]) /\ Old(r, w) >= Old(r, l)

\* The slots b .. c - 1 from the head are those of the step s still to be filled.
Claimed(r, b, c, s, job) ==
  /\ \A k \in LineIds : b <= Old(r, k) /\ Old(r, k) < c => r.task_map[k] = s
  /\ b < c => r.job[s] = job

Whole(r, b, c, q) ==
  Ring(r, b, c) /\ Counted(r, b) /\ Steps(r, c) /\ Jobs(r, c, q) /\ Owned(r, b) /\ Follow(r, b)

HeadWaits(r, b) == b > 0 => ~r.vec[r.head].ready

\* Where the task of a set can be.
Places == {"take", "taking", "pull", "pulling", "write", "writing"}
-----------------------------------------------------------------------------
(***************************************************************************)
(* A line leaves.                                                          *)
(***************************************************************************)
LEMMA FiniteParts ==
  /\ IsFiniteSet(LineIds) /\ IsFiniteSet(Address)
  /\ \A r, c, s : IsFiniteSet(Held(r, c, s))
  /\ \A r, l : IsFiniteSet(Awaited(r, l))
<1>1. IsFiniteSet(LineIds)
  BY Sizes, FS_Interval
<1>2. IsFiniteSet(Address)
  <2>1. 0 \in Int /\ 2 * NumLeaves - 2 \in Int /\ Z + S - 1 \in Int
    BY Sizes, TreeSizes
  <2>2. IsFiniteSet(0 .. 2 * NumLeaves - 2) /\ IsFiniteSet(0 .. Z + S - 1)
    BY <2>1, FS_Interval
  <2> QED BY <2>2, FS_Product DEF Address, Nodes, Offsets
<1>3. \A r, c, s : IsFiniteSet(Held(r, c, s))
  BY <1>1, FS_Subset DEF Held
<1>4. \A r, l : IsFiniteSet(Awaited(r, l))
  BY <1>2, FS_Subset DEF Awaited
<1> QED BY <1>1, <1>2, <1>3, <1>4

LEMMA NoValues ==
  /\ NoJob \in Job /\ NoLeaf \notin Leaves /\ NoNode \notin Nodes /\ NoOff \notin Offsets
  /\ Line("", NoLeaf, NoNode) \in RsLine
<1>1. 0 \in Sets
  BY TreeSizes DEF Sets
<1>2. NoJob \in Job
  BY <1>1 DEF NoJob, Job
<1>3. NoLeaf \notin Leaves /\ NoNode \notin Nodes /\ NoOff \notin Offsets
  BY Sizes, TreeSizes DEF NoLeaf, NoNode, NoOff, Leaves, Nodes, Offsets
<1>4. Line("", NoLeaf, NoNode) \in RsLine
  BY DEF Line, RsLine, Types
<1> QED BY <1>2, <1>3, <1>4

LEMMA StationFields ==
  ASSUME NEW r \in Station
  PROVE  /\ r.vec \in [LineIds -> RsLine] /\ r.head \in LineIds /\ r.tail \in LineIds
         /\ r.last_write_line \in LineIds /\ r.node_id_vec \in Leaves \cup {NoLeaf}
         /\ r.mshr_array \in [Address -> Seq(LineIds)] /\ r.task_map \in [LineIds -> LineIds]
         /\ r.cnt \in [LineIds -> Int] /\ r.job \in [LineIds -> Job] /\ r.ready_to_pop \in Seq(Job)
BY DEF Station

LEMMA LineFields ==
  ASSUME NEW line \in RsLine
  PROVE  /\ line.type \in Types /\ line.leaf \in Leaves \cup {NoLeaf}
         /\ line.node \in Nodes \cup {NoNode} /\ line.valid \in BOOLEAN
         /\ line.ready \in BOOLEAN /\ line.unfinished \in Nat
BY DEF RsLine

\* What rs_line_commit_attempt changes when the line at the head is ready.
LEMMA AttemptFields ==
  ASSUME NEW r \in Station, r.vec[r.head].valid, r.vec[r.head].ready
  PROVE  LET s == r.task_map[r.head]
             t == Attempt(r)
         IN  /\ t \in Station
             /\ t.vec = [r.vec EXCEPT ![r.head] = Line("", NoLeaf, NoNode)]
             /\ t.head = After(r.head) /\ t.tail = r.tail
             /\ t.last_write_line = r.last_write_line /\ t.node_id_vec = r.node_id_vec
             /\ t.mshr_array = r.mshr_array
             /\ t.task_map = [r.task_map EXCEPT ![r.head] = 0]
             /\ t.cnt = [r.cnt EXCEPT ![s] = r.cnt[s] - 1]
             /\ t.job = [r.job EXCEPT ![s] = IF r.cnt[s] = 1 THEN NoJob ELSE r.job[s]]
             /\ t.ready_to_pop = r.ready_to_pop \o (IF r.cnt[s] = 1 THEN <<r.job[s]>> ELSE <<>>)
<1> DEFINE s == r.task_map[r.head]
           t == Attempt(r)
<1>1. /\ r.vec \in [LineIds -> RsLine] /\ r.head \in LineIds /\ r.tail \in LineIds
      /\ r.last_write_line \in LineIds /\ r.node_id_vec \in Leaves \cup {NoLeaf}
      /\ r.mshr_array \in [Address -> Seq(LineIds)] /\ r.task_map \in [LineIds -> LineIds]
      /\ r.cnt \in [LineIds -> Int] /\ r.job \in [LineIds -> Job] /\ r.ready_to_pop \in Seq(Job)
      /\ s \in LineIds
  BY StationFields
<1>2. t = [r EXCEPT !.vec[r.head] = Line("", NoLeaf, NoNode),
                    !.task_map[r.head] = 0, !.cnt[s] = @ - 1,
                    !.job[s] = IF r.cnt[s] = 1 THEN NoJob ELSE @,
                    !.ready_to_pop = @ \o Answers(r, s), !.head = After(r.head)]
  BY DEF Attempt
<1>3. /\ t.vec = [r.vec EXCEPT ![r.head] = Line("", NoLeaf, NoNode)]
      /\ t.head = After(r.head) /\ t.tail = r.tail
      /\ t.last_write_line = r.last_write_line /\ t.node_id_vec = r.node_id_vec
      /\ t.mshr_array = r.mshr_array
      /\ t.task_map = [r.task_map EXCEPT ![r.head] = 0]
      /\ t.cnt = [r.cnt EXCEPT ![s] = r.cnt[s] - 1]
      /\ t.job = [r.job EXCEPT ![s] = IF r.cnt[s] = 1 THEN NoJob ELSE r.job[s]]
      /\ t.ready_to_pop = r.ready_to_pop \o (IF r.cnt[s] = 1 THEN <<r.job[s]>> ELSE <<>>)
  BY <1>1, <1>2 DEF Station, Answers
<1>4. 0 \in LineIds /\ After(r.head) \in LineIds
  <2>1. 0 \in LineIds
    BY Sizes
  <2> QED BY <1>1, <2>1, NextSlot
<1> HIDE DEF s
<1>5. t \in Station
  <2> HIDE DEF t
  <2> DEFINE blank == Line("", NoLeaf, NoNode)
  <2>0. blank \in RsLine /\ NoJob \in Job
    BY NoValues
  <2> HIDE DEF blank
  <2>6. t.vec = [r.vec EXCEPT ![r.head] = blank] /\ t.task_map = [r.task_map EXCEPT ![r.head] = 0]
    BY <1>3 DEF blank
  <2>1. t.vec \in [LineIds -> RsLine] /\ t.task_map \in [LineIds -> LineIds]
    BY <1>1, <2>6, <1>4, <2>0
  <2>2. r.cnt[s] - 1 \in Int
    BY <1>1
  <2>7. /\ t.cnt = [r.cnt EXCEPT ![s] = r.cnt[s] - 1]
        /\ t.job = [r.job EXCEPT ![s] = IF r.cnt[s] = 1 THEN NoJob ELSE r.job[s]]
        /\ t.ready_to_pop = r.ready_to_pop \o (IF r.cnt[s] = 1 THEN <<r.job[s]>> ELSE <<>>)
    BY <1>3
  <2>3. t.cnt \in [LineIds -> Int] /\ t.job \in [LineIds -> Job]
    BY <1>1, <2>2, <2>7, <2>0
  <2>4. t.ready_to_pop \in Seq(Job)
    <3>1. r.job[s] \in Job
      BY <1>1
    <3> QED BY <1>1, <2>7, <3>1
  <2>5. t = [vec |-> t.vec, head |-> t.head, tail |-> t.tail,
             last_write_line |-> t.last_write_line, node_id_vec |-> t.node_id_vec,
             mshr_array |-> t.mshr_array, task_map |-> t.task_map, cnt |-> t.cnt,
             job |-> t.job, ready_to_pop |-> t.ready_to_pop]
    BY <1>2 DEF Station
  <2> QED BY <1>1, <1>3, <1>4, <2>1, <2>3, <2>4, <2>5 DEF Station
<1> QED BY <1>3, <1>5 DEF s

\* The line at the head of r has left, the oldest of b lines and of c claimed slots.
Left(r, t, b, c) ==
  LET h == r.head   s == r.task_map[r.head] IN
  /\ r \in Station /\ t \in Station
  /\ b \in Nat /\ c \in Nat /\ 1 <= b /\ b <= c /\ c < N
  /\ h \in LineIds /\ s \in LineIds
  /\ Old(r, h) = 0 /\ Old(t, h) = N - 1
  /\ \A l \in LineIds : l # h => Old(r, l) >= 1 /\ Old(t, l) = Old(r, l) - 1
  /\ \A l \in LineIds : Old(r, l) \in 0 .. N - 1
  /\ \A l \in LineIds : l # h => t.vec[l] = r.vec[l] /\ t.task_map[l] = r.task_map[l]
  /\ ~t.vec[h].valid
  /\ t.mshr_array = r.mshr_array /\ t.tail = r.tail /\ t.head = After(h)
  /\ t.node_id_vec = r.node_id_vec /\ t.last_write_line = r.last_write_line
  /\ t.cnt = [r.cnt EXCEPT ![s] = r.cnt[s] - 1]
  /\ t.job = [r.job EXCEPT ![s] = IF r.cnt[s] = 1 THEN NoJob ELSE r.job[s]]
  /\ t.ready_to_pop = r.ready_to_pop \o (IF r.cnt[s] = 1 THEN <<r.job[s]>> ELSE <<>>)
  /\ h \in Held(r, c, s) /\ r.cnt[s] = Cardinality(Held(r, c, s))
  /\ r.cnt[s] = 1 <=> Held(r, c, s) = {h}
  /\ \A a \in Address : h \notin Range(r.mshr_array[a])

LEMMA AttemptLeaves ==
  ASSUME NEW r \in Station, NEW b, NEW c, Ring(r, b, c), Counted(r, b), Steps(r, c),
         r.vec[r.head].valid, r.vec[r.head].ready
  PROVE  Left(r, Attempt(r), b, c)
<1> DEFINE h == r.head
           s == r.task_map[h]
           t == Attempt(r)
<1>1. /\ h \in LineIds /\ s \in LineIds /\ r.vec \in [LineIds -> RsLine]
      /\ r.task_map \in [LineIds -> LineIds] /\ r.cnt \in [LineIds -> Int]
      /\ N \in Nat /\ N >= 5
  BY StationFields, Sizes
<1>2. /\ b \in Nat /\ c \in Nat /\ b <= c /\ c < N /\ InUse(r.vec[h])
      /\ InUse(r.vec[h]) <=> Old(r, h) < b
  BY <1>1 DEF Ring
<1>3. Old(r, h) = 0 /\ \A l \in LineIds : Old(r, l) \in 0 .. N - 1
  BY <1>1, AgeOfSlot DEF Old
<1>4. 1 <= b /\ Old(r, h) < b /\ Old(r, h) < c
  BY <1>2, <1>3
<1>5. h \in Held(r, c, s) /\ r.cnt[s] = Cardinality(Held(r, c, s))
  BY <1>1, <1>4 DEF Steps, Held
<1>6. r.cnt[s] >= 1 /\ (r.cnt[s] = 1 <=> Held(r, c, s) = {h})
  <2> DEFINE D == Held(r, c, s)
  <2>1. IsFiniteSet(D) /\ h \in D
    BY <1>5, FiniteParts
  <2>2. r.cnt[s] = Cardinality(D) /\ r.cnt[s] \in Nat
    BY <1>5, <2>1, FS_CardinalityType
  <2> HIDE DEF D
  <2>3. Cardinality(D) # 0
    BY <2>1, FS_EmptySet
  <2>4. Cardinality(D) = 1 <=> D = {h}
    BY <2>1, FS_Singleton
  <2> QED BY <2>2, <2>3, <2>4 DEF D
<1>7. /\ t \in Station
      /\ t.vec = [r.vec EXCEPT ![h] = Line("", NoLeaf, NoNode)]
      /\ t.head = After(h) /\ t.tail = r.tail
      /\ t.last_write_line = r.last_write_line /\ t.node_id_vec = r.node_id_vec
      /\ t.mshr_array = r.mshr_array
      /\ t.task_map = [r.task_map EXCEPT ![h] = 0]
      /\ t.cnt = [r.cnt EXCEPT ![s] = r.cnt[s] - 1]
      /\ t.job = [r.job EXCEPT ![s] = IF r.cnt[s] = 1 THEN NoJob ELSE r.job[s]]
      /\ t.ready_to_pop = r.ready_to_pop \o (IF r.cnt[s] = 1 THEN <<r.job[s]>> ELSE <<>>)
  BY <1>6, AttemptFields
<1> HIDE DEF t
<1>8. ~Line("", NoLeaf, NoNode).valid
  BY DEF Line
<1>9. ~t.vec[h].valid
  BY <1>1, <1>7, <1>8
<1>10. ASSUME NEW l \in LineIds, l # h
       PROVE  t.vec[l] = r.vec[l] /\ t.task_map[l] = r.task_map[l]
  BY <1>1, <1>7, <1>10
<1>11. /\ Old(t, h) = N - 1
       /\ \A l \in LineIds : l # h => Old(r, l) >= 1 /\ Old(t, l) = Old(r, l) - 1
  <2>1. t.head = After(h)
    BY <1>7
  <2>2. /\ AgeFrom(After(h), h) = N - 1
        /\ \A l \in LineIds : l # h => AgeFrom(h, l) >= 1 /\ AgeFrom(After(h), l) = AgeFrom(h, l) - 1
    BY <1>1, NextSlot
  <2> QED BY <2>1, <2>2 DEF Old
<1>12. \A a \in Address : h \notin Range(r.mshr_array[a])
  <2>1. r.vec[h].unfinished = 0 /\ r.vec[h].unfinished = Cardinality(Awaited(r, h))
    BY <1>1, <1>4 DEF Counted
  <2>2. Awaited(r, h) = {}
    BY <2>1, FiniteParts, FS_EmptySet
  <2> QED BY <2>2 DEF Awaited
<1> QED BY <1>1, <1>2, <1>3, <1>4, <1>5, <1>6, <1>7, <1>9, <1>10, <1>11, <1>12 DEF Left, t

\* Which slots are claimed then, and for which jobs.
LEMMA LeftFacts ==
  ASSUME NEW r, NEW t, NEW b, NEW c, Left(r, t, b, c), Steps(r, c)
  PROVE  /\ \A l \in LineIds : Old(t, l) < c - 1 <=> l # r.head /\ Old(r, l) < c
         /\ \A l \in LineIds : Old(t, l) < b - 1 <=> l # r.head /\ Old(r, l) < b
         /\ \A l \in LineIds : l # r.head /\ Old(r, l) < c =>
              /\ t.task_map[l] = r.task_map[l] /\ r.task_map[l] # r.head /\ r.task_map[l] \in LineIds
              /\ t.job[t.task_map[l]] = r.job[r.task_map[l]]
              /\ r.task_map[l] = r.task_map[r.head] => r.cnt[r.task_map[r.head]] # 1
<1> DEFINE h == r.head
           s == r.task_map[h]
<1>1. /\ b \in Nat /\ c \in Nat /\ 1 <= b /\ b <= c /\ c < N
      /\ h \in LineIds /\ s \in LineIds /\ N \in Nat
      /\ Old(r, h) = 0 /\ Old(t, h) = N - 1
      /\ \A l \in LineIds : l # h => Old(r, l) >= 1 /\ Old(t, l) = Old(r, l) - 1
      /\ \A l \in LineIds : Old(r, l) \in 0 .. N - 1
  BY Sizes DEF Left
<1>2. ASSUME NEW l \in LineIds
      PROVE  /\ Old(t, l) < c - 1 <=> l # h /\ Old(r, l) < c
             /\ Old(t, l) < b - 1 <=> l # h /\ Old(r, l) < b
  <2>1. CASE l = h
    BY <1>1, <2>1
  <2>2. CASE l # h
    <3>1. Old(t, l) = Old(r, l) - 1 /\ Old(r, l) \in Int
      BY <1>1, <2>2
    <3> QED BY <1>1, <2>2, <3>1
  <2> QED BY <2>1, <2>2
<1>3. ASSUME NEW l \in LineIds, l # h, Old(r, l) < c
      PROVE  /\ t.task_map[l] = r.task_map[l] /\ r.task_map[l] # h /\ r.task_map[l] \in LineIds
             /\ t.job[t.task_map[l]] = r.job[r.task_map[l]]
             /\ r.task_map[l] = s => r.cnt[s] # 1
  <2>1. r \in Station /\ t.task_map[l] = r.task_map[l]
    BY <1>3 DEF Left
  <2>2. r.task_map[l] \in LineIds /\ r.job \in [LineIds -> Job]
    BY <2>1, StationFields
  <2>3. Old(r, l) <= Old(r, r.task_map[l]) /\ Old(r, l) >= 1
    BY <1>1, <1>3 DEF Steps
  <2>4. r.task_map[l] # h
    BY <1>1, <1>3, <2>3
  <2>5. ASSUME r.task_map[l] = s PROVE r.cnt[s] # 1
    <3>1. l \in Held(r, c, s)
      BY <1>3, <2>5 DEF Held
    <3>2. r.cnt[s] = 1 <=> Held(r, c, s) = {h}
      BY DEF Left
    <3> QED BY <1>3, <3>1, <3>2
  <2>6. t.job = [r.job EXCEPT ![s] = IF r.cnt[s] = 1 THEN NoJob ELSE r.job[s]]
    BY DEF Left
  <2>7. t.job[r.task_map[l]] = r.job[r.task_map[l]]
    BY <2>2, <2>5, <2>6
  <2> QED BY <2>1, <2>2, <2>4, <2>5, <2>7
<1> QED BY <1>2, <1>3

LEMMA LeftRing ==
  ASSUME NEW r, NEW t, NEW b, NEW c, Left(r, t, b, c), Ring(r, b, c), Counted(r, b), Steps(r, c)
  PROVE  Ring(t, b - 1, c - 1) /\ Counted(t, b - 1)
<1>1. /\ b \in Nat /\ c \in Nat /\ 1 <= b /\ b <= c /\ c < N /\ N \in Nat
      /\ r.head \in LineIds /\ t.head = After(r.head) /\ t.tail = r.tail
      /\ \A l \in LineIds : l # r.head => t.vec[l] = r.vec[l]
      /\ ~t.vec[r.head].valid /\ t.mshr_array = r.mshr_array
      /\ r \in Station
  BY Sizes DEF Left
<1>2. \A l \in LineIds : Old(t, l) < b - 1 <=> l # r.head /\ Old(r, l) < b
  BY LeftFacts
<1>3. t.tail = Slot(t.head, b - 1)
  <2>1. b - 1 \in 0 .. N - 1 /\ (b - 1) + 1 = b
    BY <1>1
  <2>2. Slot(After(r.head), b - 1) = Slot(r.head, b)
    BY <1>1, <2>1, NextSlot
  <2> QED BY <1>1, <2>2 DEF Ring
<1>4. \A l \in LineIds : InUse(t.vec[l]) <=> Old(t, l) < b - 1
  <2>1. ASSUME NEW l \in LineIds PROVE InUse(t.vec[l]) <=> Old(t, l) < b - 1
    <3>1. CASE l = r.head
      <4>1. ~InUse(t.vec[l])
        BY <1>1, <3>1 DEF InUse
      <4> QED BY <1>2, <3>1, <4>1
    <3>2. CASE l # r.head
      BY <1>1, <1>2, <3>2 DEF Ring
    <3> QED BY <3>1, <3>2
  <2> QED BY <2>1
<1>5. \A l \in LineIds : t.vec[l].valid /\ t.vec[l].ready => InUse(t.vec[l])
  BY <1>1 DEF Ring
<1>6. b - 1 \in Nat /\ c - 1 \in Nat /\ b - 1 <= c - 1 /\ c - 1 < N
  BY <1>1
<1>7. Ring(t, b - 1, c - 1)
  BY <1>3, <1>4, <1>5, <1>6 DEF Ring
<1>8. \A l : Awaited(t, l) = Awaited(r, l)
  BY <1>1 DEF Awaited
<1>9. ASSUME NEW a \in Address, NEW l \in Range(t.mshr_array[a]) PROVE Old(t, l) < b - 1
  <2>1. l \in LineIds
    <3>1. r.mshr_array[a] \in Seq(LineIds)
      BY <1>1, StationFields
    <3> QED BY <1>1, <1>9, <3>1 DEF Range
  <2>2. Old(r, l) < b /\ l # r.head
    BY <1>1, <1>9 DEF Counted, Left
  <2> QED BY <1>2, <2>1, <2>2
<1>10. ASSUME NEW l \in LineIds, Old(t, l) < b - 1
       PROVE  /\ t.vec[l].unfinished = Cardinality(Awaited(t, l))
              /\ t.vec[l].ready <=> t.vec[l].unfinished = 0
  BY <1>1, <1>2, <1>8, <1>10 DEF Counted
<1>11. Counted(t, b - 1)
  BY <1>1, <1>9, <1>10 DEF Counted
<1> QED BY <1>7, <1>11

LEMMA LeftSteps ==
  ASSUME NEW r, NEW t, NEW b, NEW c, Left(r, t, b, c), Steps(r, c)
  PROVE  Steps(t, c - 1)
<1> DEFINE h == r.head
           s == r.task_map[h]
<1>1. /\ b \in Nat /\ c \in Nat /\ 1 <= b /\ b <= c /\ c < N /\ N \in Nat
      /\ h \in LineIds /\ s \in LineIds /\ r \in Station
      /\ \A l \in LineIds : l # h => Old(r, l) >= 1 /\ Old(t, l) = Old(r, l) - 1
      /\ \A l \in LineIds : Old(r, l) \in 0 .. N - 1
      /\ h \in Held(r, c, s) /\ Old(t, h) = N - 1
      /\ \A l \in LineIds : l # h => t.task_map[l] = r.task_map[l]
  BY Sizes DEF Left
<1>2. \A l \in LineIds : Old(t, l) < c - 1 <=> l # h /\ Old(r, l) < c
  BY LeftFacts
<1>3. ASSUME NEW k \in LineIds, Old(t, k) < c - 1
      PROVE  LET u == t.task_map[k] IN
             /\ Old(t, k) <= Old(t, u) /\ Old(t, u) < c - 1
             /\ t.cnt[u] = Cardinality(Held(t, c - 1, u))
             /\ \A j \in LineIds : Old(t, k) <= Old(t, j) /\ Old(t, j) <= Old(t, u) => t.task_map[j] = u
  <2> DEFINE u == r.task_map[k]
  <2>1. k # h /\ Old(r, k) < c
    BY <1>2, <1>3
  <2>2. t.task_map[k] = u /\ u # h /\ u \in LineIds
    BY <2>1, LeftFacts
  <2>3. /\ Old(r, k) <= Old(r, u) /\ Old(r, u) < c /\ r.cnt[u] = Cardinality(Held(r, c, u))
        /\ \A j \in LineIds : Old(r, k) <= Old(r, j) /\ Old(r, j) <= Old(r, u) => r.task_map[j] = u
    BY <2>1 DEF Steps
  <2> HIDE DEF u
  <2>4. /\ Old(t, k) = Old(r, k) - 1 /\ Old(t, u) = Old(r, u) - 1
        /\ Old(r, k) \in 0 .. N - 1 /\ Old(r, u) \in 0 .. N - 1
    BY <1>1, <2>1, <2>2
  <2>5. Old(t, k) <= Old(t, u) /\ Old(t, u) < c - 1
    BY <1>1, <2>3, <2>4
  <2>6. Held(t, c - 1, u) = Held(r, c, u) \ {h}
    BY <1>1, <1>2 DEF Held
  <2>7. h \in Held(r, c, u) <=> u = s
    BY <1>1 DEF Held
  <2>8. t.cnt[u] = Cardinality(Held(t, c - 1, u))
    <3>1. t.cnt = [r.cnt EXCEPT ![s] = r.cnt[s] - 1] /\ r.cnt \in [LineIds -> Int]
      BY <1>1, StationFields DEF Left
    <3>2. t.cnt[u] = IF u = s THEN r.cnt[u] - 1 ELSE r.cnt[u]
      BY <2>2, <3>1
    <3> DEFINE D == Held(r, c, u)
    <3>3. IsFiniteSet(D)
      BY FiniteParts
    <3> HIDE DEF D
    <3>4. Cardinality(D \ {h}) = IF h \in D THEN Cardinality(D) - 1 ELSE Cardinality(D)
      BY <3>3, FS_RemoveElement
    <3> QED BY <2>3, <2>6, <2>7, <3>2, <3>4 DEF D
  <2>9. ASSUME NEW j \in LineIds, Old(t, k) <= Old(t, j), Old(t, j) <= Old(t, u)
        PROVE  t.task_map[j] = u
    <3>1. j # h
      BY <1>1, <2>4, <2>5, <2>9
    <3>2. Old(t, j) = Old(r, j) - 1 /\ Old(r, j) \in 0 .. N - 1
      BY <1>1, <3>1
    <3>3. Old(r, k) <= Old(r, j) /\ Old(r, j) <= Old(r, u)
      BY <2>4, <2>9, <3>2
    <3> QED BY <1>1, <2>3, <3>1, <3>3
  <2> QED BY <2>2, <2>5, <2>8, <2>9
<1> QED BY <1>3 DEF Steps

\* What the answers become when a line leaves.
LEMMA LeftAnswers ==
  ASSUME NEW r, NEW t, NEW b, NEW c, Left(r, t, b, c)
  PROVE  LET s == r.task_map[r.head]   n == Len(r.ready_to_pop) IN
         /\ n \in Nat /\ DOMAIN r.ready_to_pop = 1 .. n
         /\ DOMAIN t.ready_to_pop = 1 .. (IF r.cnt[s] = 1 THEN n + 1 ELSE n)
         /\ \A i \in 1 .. n : t.ready_to_pop[i] = r.ready_to_pop[i]
         /\ r.cnt[s] = 1 => t.ready_to_pop[n + 1] = r.job[s]
<1> DEFINE s == r.task_map[r.head]
           q == r.ready_to_pop
<1>1. q \in Seq(Job) /\ r.job[s] \in Job
  <2>1. r \in Station /\ s \in LineIds
    BY DEF Left
  <2> QED BY <2>1, StationFields
<1>2. t.ready_to_pop = q \o (IF r.cnt[s] = 1 THEN <<r.job[s]>> ELSE <<>>)
  BY DEF Left
<1> DEFINE j == r.job[s]
<1> HIDE DEF q, j
<1>3. CASE r.cnt[s] = 1
  <2>1. t.ready_to_pop = q \o <<j>>
    BY <1>2, <1>3 DEF j
  <2>2. q \in Seq(Job) /\ j \in Job
    BY <1>1 DEF j
  <2>3. /\ Len(q) \in Nat /\ DOMAIN q = 1 .. Len(q) /\ DOMAIN (q \o <<j>>) = 1 .. Len(q) + 1
        /\ \A i \in 1 .. Len(q) : (q \o <<j>>)[i] = q[i]
        /\ (q \o <<j>>)[Len(q) + 1] = j
    BY <2>2
  <2> QED BY <1>3, <2>1, <2>3 DEF q, j
<1>4. CASE r.cnt[s] # 1
  <2>1. t.ready_to_pop = q
    BY <1>1, <1>2, <1>4
  <2>2. Len(q) \in Nat /\ DOMAIN q = 1 .. Len(q)
    BY <1>1
  <2> QED BY <1>4, <2>1, <2>2 DEF q
<1> QED BY <1>3, <1>4

LEMMA LeftJobs ==
  ASSUME NEW r, NEW t, NEW b, NEW c, NEW q, Left(r, t, b, c), Steps(r, c), Jobs(r, c, q)
  PROVE  Jobs(t, c - 1, q)
<1> DEFINE h == r.head
           s == r.task_map[h]
           n == Len(r.ready_to_pop)
           a == t.ready_to_pop
           jr(k) == r.job[r.task_map[k]]
<1>1. /\ n \in Nat /\ DOMAIN r.ready_to_pop = 1 .. n
      /\ DOMAIN a = 1 .. (IF r.cnt[s] = 1 THEN n + 1 ELSE n)
      /\ \A i \in 1 .. n : a[i] = r.ready_to_pop[i]
      /\ r.cnt[s] = 1 => a[n + 1] = jr(h)
  BY LeftAnswers
<1>2. h \in LineIds /\ Old(r, h) < c
  BY DEF Left, Held
<1>3. \A l \in LineIds : Old(t, l) < c - 1 <=> l # h /\ Old(r, l) < c
  BY LeftFacts
<1>4. ASSUME NEW l \in LineIds, Old(t, l) < c - 1
      PROVE  /\ l # h /\ Old(r, l) < c
             /\ t.task_map[l] = r.task_map[l] /\ t.job[t.task_map[l]] = jr(l)
             /\ r.task_map[l] = s => r.cnt[s] # 1
  BY <1>3, <1>4, LeftFacts
\* An answer is an old one or that of the step whose last line has left.
<1>5. ASSUME NEW i \in DOMAIN a
      PROVE  \/ i \in DOMAIN r.ready_to_pop /\ a[i] = r.ready_to_pop[i]
             \/ i = n + 1 /\ r.cnt[s] = 1 /\ a[i] = jr(h)
  BY <1>1
<1> HIDE DEF a, jr, n, s
<1>6. ASSUME NEW k \in LineIds, Old(t, k) < c - 1, Awaits(t.job[t.task_map[k]])
      PROVE  q[t.job[t.task_map[k]].set] = Due(t.job[t.task_map[k]])
  BY <1>4, <1>6 DEF Jobs, jr
<1>7. ASSUME NEW i \in DOMAIN a, Awaits(a[i])
      PROVE  q[a[i].set] = Due(a[i])
  BY <1>2, <1>5, <1>7 DEF Jobs, jr
<1>8. ASSUME NEW k \in LineIds, NEW l \in LineIds, Old(t, k) < c - 1, Old(t, l) < c - 1,
             t.task_map[k] # t.task_map[l],
             Awaits(t.job[t.task_map[k]]), Awaits(t.job[t.task_map[l]])
      PROVE  t.job[t.task_map[k]].set # t.job[t.task_map[l]].set
  BY <1>4, <1>8 DEF Jobs, jr
<1>9. ASSUME NEW k \in LineIds, NEW i \in DOMAIN a, Old(t, k) < c - 1,
             Awaits(t.job[t.task_map[k]]), Awaits(a[i])
      PROVE  t.job[t.task_map[k]].set # a[i].set
  <2>1. CASE i \in DOMAIN r.ready_to_pop /\ a[i] = r.ready_to_pop[i]
    BY <1>4, <1>9, <2>1 DEF Jobs, jr
  <2>2. CASE r.cnt[s] = 1 /\ a[i] = jr(h)
    <3>1. Old(r, k) < c /\ r.task_map[k] # r.task_map[h] /\ t.job[t.task_map[k]] = jr(k)
      BY <1>4, <1>9, <2>2 DEF s
    <3> QED BY <1>2, <1>9, <2>2, <3>1 DEF Jobs, jr
  <2> QED BY <1>5, <2>1, <2>2
<1>10. ASSUME NEW i \in DOMAIN a, NEW j \in DOMAIN a, i # j, Awaits(a[i]), Awaits(a[j])
       PROVE  a[i].set # a[j].set
  <2>1. \A k \in DOMAIN r.ready_to_pop : Awaits(r.ready_to_pop[k]) /\ Awaits(jr(h))
          => jr(h).set # r.ready_to_pop[k].set
    BY <1>2 DEF Jobs, jr
  <2> QED BY <1>5, <1>10, <2>1 DEF Jobs
<1> QED BY <1>6, <1>7, <1>8, <1>9, <1>10 DEF Jobs, a

\* Writes, reads and what is safe to read.
LEMMA LeftReads ==
  ASSUME NEW r, NEW t, NEW b, NEW c, Left(r, t, b, c), Ring(r, b, c), Counted(r, b),
         Steps(r, c), Owned(r, b), Follow(r, b)
  PROVE  /\ Owned(t, b - 1) /\ Follow(t, b - 1)
         /\ \A F : Safe(r, b, F) => Safe(t, b - 1, F)
         /\ \A n : Unwritten(r, b, n) => Unwritten(t, b - 1, n)
<1> DEFINE h == r.head
<1>1. /\ b \in Nat /\ c \in Nat /\ 1 <= b /\ b <= c /\ h \in LineIds /\ r \in Station
      /\ Old(r, h) = 0
      /\ \A l \in LineIds : l # h => Old(r, l) >= 1 /\ Old(t, l) = Old(r, l) - 1
      /\ \A l \in LineIds : Old(r, l) \in 0 .. N - 1
      /\ \A l \in LineIds : l # h => t.vec[l] = r.vec[l]
      /\ t.mshr_array = r.mshr_array
      /\ \A a \in Address : h \notin Range(r.mshr_array[a])
  BY DEF Left
<1>2. \A l \in LineIds : Old(t, l) < b - 1 <=> l # h /\ Old(r, l) < b
  BY LeftFacts
<1>3. ASSUME NEW w \in LineIds, Old(t, w) < b - 1
      PROVE  WritesOwn(t.vec[w], t.job[t.task_map[w]])
  <2>1. w # h /\ Old(r, w) < b /\ Old(r, w) < c
    <3>1. w # h /\ Old(r, w) < b
      BY <1>2, <1>3
    <3>2. Old(r, w) \in Int
      BY <1>1
    <3> QED BY <1>1, <3>1, <3>2
  <2>2. t.vec[w] = r.vec[w] /\ t.job[t.task_map[w]] = r.job[r.task_map[w]]
    BY <1>1, <2>1, LeftFacts
  <2> QED BY <2>1, <2>2 DEF Owned
<1>4. \A w \in LineIds : \A n : WritesTo(t, b - 1, w, n) <=> w # h /\ WritesTo(r, b, w, n)
  BY <1>1, <1>2 DEF WritesTo
<1>5. \A a \in Address : \A l \in Range(r.mshr_array[a]) : l \in LineIds /\ l # h
  <2>1. ASSUME NEW a \in Address, NEW l \in Range(r.mshr_array[a]) PROVE l \in LineIds
    <3>1. r.mshr_array[a] \in Seq(LineIds)
      BY <1>1, StationFields
    <3> QED BY <2>1, <3>1 DEF Range
  <2> QED BY <1>1, <2>1
<1>6. ASSUME NEW a \in Address, NEW l \in Range(t.mshr_array[a]), NEW w \in LineIds,
             WritesTo(t, b - 1, w, a[1])
      PROVE  Old(t, w) >= Old(t, l)
  <2>1. l \in Range(r.mshr_array[a]) /\ l \in LineIds /\ l # h
    BY <1>1, <1>5, <1>6
  <2>2. w # h /\ WritesTo(r, b, w, a[1])
    BY <1>4, <1>6
  <2>3. Old(r, w) >= Old(r, l)
    BY <2>1, <2>2 DEF Follow
  <2>4. Old(t, w) = Old(r, w) - 1 /\ Old(t, l) = Old(r, l) - 1 /\ Old(r, w) \in Int /\ Old(r, l) \in Int
    BY <1>1, <2>1, <2>2
  <2> QED BY <2>3, <2>4
<1>7. ASSUME NEW F, Safe(r, b, F) PROVE Safe(t, b - 1, F)
  <2> SUFFICES ASSUME NEW a \in Address \cap F, NEW l \in Range(t.mshr_array[a])
               PROVE  \E w \in LineIds : WritesTo(t, b - 1, w, a[1]) /\ Old(t, w) >= Old(t, l)
    BY DEF Safe
  <2>1. l \in Range(r.mshr_array[a]) /\ l \in LineIds /\ l # h
    BY <1>1, <1>5
  <2>2. PICK w \in LineIds : WritesTo(r, b, w, a[1]) /\ Old(r, w) >= Old(r, l)
    BY <1>7, <2>1 DEF Safe
  <2>3. Old(r, l) >= 1 /\ Old(t, l) = Old(r, l) - 1 /\ Old(r, l) \in Int /\ Old(r, w) \in Int
    BY <1>1, <2>1
  <2>4. w # h
    BY <1>1, <2>2, <2>3
  <2>5. Old(t, w) = Old(r, w) - 1
    BY <1>1, <2>4
  <2>6. WritesTo(t, b - 1, w, a[1]) /\ Old(t, w) >= Old(t, l)
    BY <1>4, <2>2, <2>3, <2>4, <2>5
  <2> QED BY <2>6
<1>8. \A n : Unwritten(r, b, n) => Unwritten(t, b - 1, n)
  BY <1>4 DEF Unwritten
<1> QED BY <1>3, <1>6, <1>7, <1>8 DEF Owned, Follow

LEMMA LeftClaimed ==
  ASSUME NEW r, NEW t, NEW b, NEW c, NEW s, NEW job, Left(r, t, b, c), Steps(r, c),
         s \in LineIds, Claimed(r, b, c, s, job)
  PROVE  Claimed(t, b - 1, c - 1, s, job)
<1>1. /\ b \in Nat /\ c \in Nat /\ 1 <= b /\ b <= c /\ c < N /\ r.head \in LineIds /\ r \in Station
      /\ \A l \in LineIds : Old(r, l) \in 0 .. N - 1 /\ (l # r.head => Old(t, l) = Old(r, l) - 1)
      /\ Old(t, r.head) = N - 1
      /\ \A l \in LineIds : l # r.head => t.task_map[l] = r.task_map[l]
  BY DEF Left
<1>2. \A l \in LineIds : Old(t, l) < c - 1 <=> l # r.head /\ Old(r, l) < c
  BY LeftFacts
<1>3. ASSUME NEW k \in LineIds, b - 1 <= Old(t, k), Old(t, k) < c - 1
      PROVE  t.task_map[k] = s
  <2>1. k # r.head /\ Old(r, k) < c
    BY <1>2, <1>3
  <2>2. b <= Old(r, k)
    BY <1>1, <1>3, <2>1
  <2> QED BY <1>1, <2>1, <2>2 DEF Claimed
<1>4. ASSUME b - 1 < c - 1 PROVE t.job[s] = job
  <2>1. b < c /\ r.job[s] = job
    BY <1>1, <1>4 DEF Claimed
  <2> DEFINE k == Slot(r.head, b)
  <2>2. b \in 0 .. N - 1
    BY <1>1, <2>1, Sizes
  <2>3. k \in LineIds /\ Old(r, k) = b
    BY <1>1, <2>2, AgeOfSlot DEF Old
  <2>4. r.task_map[k] = s /\ Old(r, k) < c
    BY <1>1, <2>1, <2>3 DEF Claimed
  <2>5. k # r.head
    <3>1. Old(r, r.head) = 0
      BY DEF Left
    <3> QED BY <1>1, <2>3, <3>1
  <2> HIDE DEF k
  <2>6. t.task_map[k] = r.task_map[k] /\ t.job[t.task_map[k]] = r.job[r.task_map[k]]
    BY <2>3, <2>4, <2>5, LeftFacts
  <2> QED BY <2>1, <2>4, <2>6
<1> QED BY <1>3, <1>4 DEF Claimed

-----------------------------------------------------------------------------
(***************************************************************************)
(* A line is registered.                                                   *)
(***************************************************************************)
PutChanges(r, t, line, reads) ==
  /\ t \in Station
  /\ t.vec = [r.vec EXCEPT ![r.tail] =
                [line EXCEPT !.valid = TRUE, !.ready = (reads = {}),
                             !.unfinished = Cardinality(reads)]]
  /\ t.tail = After(r.tail) /\ t.head = r.head /\ t.node_id_vec = r.node_id_vec
  /\ t.mshr_array = [a \in Address |-> IF a \in reads THEN Append(r.mshr_array[a], r.tail)
                                       ELSE r.mshr_array[a]]
  /\ t.task_map = r.task_map /\ t.cnt = r.cnt /\ t.job = r.job
  /\ t.ready_to_pop = r.ready_to_pop

LEMMA PutFields ==
  ASSUME NEW r \in Station, NEW line \in RsLine, NEW reads \in SUBSET Address
  PROVE  PutChanges(r, PutLine(r, line, reads), line, reads)
<1> DEFINE t == PutLine(r, line, reads)
           new == [line EXCEPT !.valid = TRUE, !.ready = (reads = {}),
                               !.unfinished = Cardinality(reads)]
           lists == [a \in Address |-> IF a \in reads THEN Append(r.mshr_array[a], r.tail)
                                       ELSE r.mshr_array[a]]
           last == IF IsWrite(line) THEN r.tail ELSE r.last_write_line
<1>1. /\ r.vec \in [LineIds -> RsLine] /\ r.head \in LineIds /\ r.tail \in LineIds
      /\ r.last_write_line \in LineIds /\ r.node_id_vec \in Leaves \cup {NoLeaf}
      /\ r.mshr_array \in [Address -> Seq(LineIds)] /\ r.task_map \in [LineIds -> LineIds]
      /\ r.cnt \in [LineIds -> Int] /\ r.job \in [LineIds -> Job] /\ r.ready_to_pop \in Seq(Job)
  BY StationFields
<1>2. Cardinality(reads) \in Nat
  BY FiniteParts, FS_Subset, FS_CardinalityType
<1>3. new \in RsLine
  BY <1>2 DEF RsLine
<1>4. lists \in [Address -> Seq(LineIds)]
  <2> SUFFICES ASSUME NEW a \in Address
               PROVE  (IF a \in reads THEN Append(r.mshr_array[a], r.tail) ELSE r.mshr_array[a])
                        \in Seq(LineIds)
    OBVIOUS
  <2>1. r.mshr_array[a] \in Seq(LineIds)
    BY <1>1
  <2> QED BY <1>1, <2>1
<1>5. After(r.tail) \in LineIds /\ last \in LineIds
  BY <1>1, NextSlot
<1> HIDE DEF new, lists, last
<1>6. t = [r EXCEPT !.vec[r.tail] = new, !.mshr_array = lists, !.last_write_line = last,
                    !.tail = After(r.tail)]
  BY DEF PutLine, new, lists, last
<1>7. /\ t.vec = [r.vec EXCEPT ![r.tail] = new]
      /\ t.tail = After(r.tail) /\ t.head = r.head /\ t.node_id_vec = r.node_id_vec
      /\ t.mshr_array = lists /\ t.last_write_line = last
      /\ t.task_map = r.task_map /\ t.cnt = r.cnt /\ t.job = r.job
      /\ t.ready_to_pop = r.ready_to_pop
  BY <1>6 DEF Station
<1>8. t = [vec |-> t.vec, head |-> t.head, tail |-> t.tail,
           last_write_line |-> t.last_write_line, node_id_vec |-> t.node_id_vec,
           mshr_array |-> t.mshr_array, task_map |-> t.task_map, cnt |-> t.cnt,
           job |-> t.job, ready_to_pop |-> t.ready_to_pop]
  BY <1>6 DEF Station
<1> HIDE DEF t
<1>9. t.vec \in [LineIds -> RsLine]
  BY <1>1, <1>3, <1>7
<1>10. t \in Station
  BY <1>1, <1>4, <1>5, <1>7, <1>8, <1>9 DEF Station
<1> QED BY <1>7, <1>10 DEF t, new, lists, PutChanges

\* The line has taken the slot at tail of a ring of b lines.
Put(r, t, b, c, line, reads) ==
  LET l == r.tail IN
  /\ r \in Station /\ t \in Station /\ b \in Nat /\ c \in Nat /\ b < c /\ c < N
  /\ l \in LineIds /\ Old(r, l) = b /\ t.tail = Slot(r.head, b + 1)
  /\ \A k \in LineIds : Old(t, k) = Old(r, k) /\ Old(r, k) \in 0 .. N - 1 /\ (Old(r, k) = b => k = l)
  /\ \A k \in LineIds : k # l => t.vec[k] = r.vec[k]
  /\ t.vec[l].type = line.type /\ t.vec[l].leaf = line.leaf /\ t.vec[l].node = line.node
  /\ t.vec[l].valid = TRUE /\ t.vec[l].ready = (reads = {})
  /\ t.vec[l].unfinished = Cardinality(reads)
  /\ \A a \in Address : Range(r.mshr_array[a]) \subseteq LineIds
  /\ \A a \in Address : a \notin reads => t.mshr_array[a] = r.mshr_array[a]
  /\ \A a \in reads : /\ Len(t.mshr_array[a]) = 1 /\ Range(t.mshr_array[a]) = {l}
                     /\ Range(r.mshr_array[a]) = {}
  /\ t.task_map = r.task_map /\ t.cnt = r.cnt /\ t.job = r.job /\ t.head = r.head
  /\ t.ready_to_pop = r.ready_to_pop /\ t.node_id_vec = r.node_id_vec

LEMMA PutLinePuts ==
  ASSUME NEW r \in Station, NEW b, NEW c, Ring(r, b, c), b < c,
         NEW line \in RsLine, NEW reads \in SUBSET Address,
         \A a \in reads : r.mshr_array[a] = <<>>
  PROVE  Put(r, PutLine(r, line, reads), b, c, line, reads)
<1> DEFINE t == PutLine(r, line, reads)
           l == r.tail
           new == [line EXCEPT !.valid = TRUE, !.ready = (reads = {}),
                               !.unfinished = Cardinality(reads)]
<1>1. /\ r.vec \in [LineIds -> RsLine] /\ r.head \in LineIds /\ l \in LineIds
      /\ r.mshr_array \in [Address -> Seq(LineIds)]
  BY StationFields
<1>2. b \in Nat /\ c \in Nat /\ c < N /\ l = Slot(r.head, b) /\ N \in Nat
  BY Sizes DEF Ring
<1> HIDE DEF t
<1>14. PutChanges(r, t, line, reads)
  BY PutFields DEF t
<1>3. /\ t \in Station /\ t.vec = [r.vec EXCEPT ![l] = new]
      /\ t.tail = After(l) /\ t.head = r.head /\ t.node_id_vec = r.node_id_vec
      /\ t.mshr_array = [a \in Address |-> IF a \in reads THEN Append(r.mshr_array[a], l)
                                           ELSE r.mshr_array[a]]
      /\ t.task_map = r.task_map /\ t.cnt = r.cnt /\ t.job = r.job
      /\ t.ready_to_pop = r.ready_to_pop
  BY <1>14 DEF PutChanges
<1>4. b \in 0 .. N - 1
  BY <1>2
<1>5. Old(r, l) = b /\ t.tail = Slot(r.head, b + 1)
  <2>1. t.tail = After(Slot(r.head, b))
    BY <1>2, <1>3
  <2>2. After(Slot(r.head, b)) = Slot(r.head, b + 1)
    BY <1>1, <1>4, NextSlot
  <2>3. AgeFrom(r.head, Slot(r.head, b)) = b
    BY <1>1, <1>4, AgeOfSlot
  <2> QED BY <1>2, <2>1, <2>2, <2>3 DEF Old
<1>6. ASSUME NEW k \in LineIds
      PROVE  Old(t, k) = Old(r, k) /\ Old(r, k) \in 0 .. N - 1 /\ (Old(r, k) = b => k = l)
  <2>1. Old(t, k) = Old(r, k) /\ Old(r, k) \in 0 .. N - 1
    BY <1>1, <1>3, AgeOfSlot DEF Old
  <2>2. Old(r, k) = b => k = l
    BY <1>1, <1>5, SameAge DEF Old
  <2> QED BY <2>1, <2>2
<1>7. ASSUME NEW k \in LineIds, k # l PROVE t.vec[k] = r.vec[k]
  BY <1>1, <1>3, <1>7
<1>8. t.vec[l] = new
  BY <1>1, <1>3
<1>9. /\ new.type = line.type /\ new.leaf = line.leaf /\ new.node = line.node
      /\ new.valid = TRUE /\ new.ready = (reads = {}) /\ new.unfinished = Cardinality(reads)
  BY DEF RsLine
<1>10. \A a \in Address : Range(r.mshr_array[a]) \subseteq LineIds
  <2> SUFFICES ASSUME NEW a \in Address PROVE Range(r.mshr_array[a]) \subseteq LineIds
    OBVIOUS
  <2>1. r.mshr_array[a] \in Seq(LineIds)
    BY <1>1
  <2> QED BY <2>1 DEF Range
<1>11. \A a \in Address : a \notin reads => t.mshr_array[a] = r.mshr_array[a]
  BY <1>3
<1>12. \A a \in reads : Len(t.mshr_array[a]) = 1 /\ Range(t.mshr_array[a]) = {l}
  <2> SUFFICES ASSUME NEW a \in reads
               PROVE  Len(t.mshr_array[a]) = 1 /\ Range(t.mshr_array[a]) = {l}
    OBVIOUS
  <2>1. t.mshr_array[a] = Append(<<>>, l)
    BY <1>3
  <2>2. Append(<<>>, l) = <<l>>
    OBVIOUS
  <2>3. Len(<<l>>) = 1 /\ DOMAIN <<l>> = {1} /\ <<l>>[1] = l
    OBVIOUS
  <2> QED BY <2>1, <2>2, <2>3 DEF Range
<1>13. \A a \in reads : Range(r.mshr_array[a]) = {}
  <2>1. Range(<<>>) = {}
    BY DEF Range
  <2> QED BY <2>1
<1> HIDE DEF new
<1> QED BY <1>1, <1>2, <1>3, <1>13, <1>5, <1>6, <1>7, <1>8, <1>9, <1>10, <1>11, <1>12 DEF Put, t

LEMMA PutRing ==
  ASSUME NEW r, NEW t, NEW b, NEW c, NEW line, NEW reads \in SUBSET Address,
         Put(r, t, b, c, line, reads), Ring(r, b, c), Counted(r, b), line.type # "init"
  PROVE  Ring(t, b + 1, c) /\ Counted(t, b + 1)
<1> DEFINE l == r.tail
<1>1. /\ b \in Nat /\ c \in Nat /\ b < c /\ c < N /\ l \in LineIds /\ Old(r, l) = b
      /\ t.tail = Slot(r.head, b + 1) /\ t.head = r.head
      /\ \A k \in LineIds : k # l => t.vec[k] = r.vec[k]
      /\ t.vec[l].type = line.type /\ t.vec[l].valid = TRUE /\ t.vec[l].ready = (reads = {})
      /\ t.vec[l].unfinished = Cardinality(reads)
  BY DEF Put
<1>2. \A k \in LineIds : Old(t, k) = Old(r, k) /\ Old(r, k) \in 0 .. N - 1 /\ (Old(r, k) = b => k = l)
  BY DEF Put
<1>3. \A k \in LineIds : Old(t, k) < b + 1 <=> k = l \/ Old(r, k) < b
  <2> SUFFICES ASSUME NEW k \in LineIds PROVE Old(t, k) < b + 1 <=> k = l \/ Old(r, k) < b
    OBVIOUS
  <2>1. Old(t, k) = Old(r, k) /\ Old(r, k) \in 0 .. N - 1 /\ (Old(r, k) = b => k = l)
    BY <1>2
  <2>2. N \in Nat
    BY Sizes
  <2> QED BY <1>1, <2>1, <2>2
<1>4. InUse(t.vec[l])
  BY <1>1 DEF InUse
<1>5. \A k \in LineIds : InUse(t.vec[k]) <=> Old(t, k) < b + 1
  <2> SUFFICES ASSUME NEW k \in LineIds PROVE InUse(t.vec[k]) <=> Old(t, k) < b + 1
    OBVIOUS
  <2>1. CASE k = l
    BY <1>3, <1>4, <2>1
  <2>2. CASE k # l
    BY <1>1, <1>3, <2>2 DEF Ring
  <2> QED BY <2>1, <2>2
<1>6. \A k \in LineIds : t.vec[k].valid /\ t.vec[k].ready => InUse(t.vec[k])
  BY <1>1, <1>4 DEF Ring
<1>7. b + 1 \in Nat /\ b + 1 <= c
  BY <1>1
<1>8. Ring(t, b + 1, c)
  BY <1>1, <1>5, <1>6, <1>7 DEF Ring
<1>9. /\ \A a \in Address : Range(r.mshr_array[a]) \subseteq LineIds
      /\ \A a \in Address : a \notin reads => t.mshr_array[a] = r.mshr_array[a]
      /\ \A a \in reads : Len(t.mshr_array[a]) = 1 /\ Range(t.mshr_array[a]) = {l}
      /\ \A a \in reads : Range(r.mshr_array[a]) = {}
  BY DEF Put
<1>10. ASSUME NEW a \in Address PROVE Len(t.mshr_array[a]) <= 1
  <2>1. CASE a \in reads
    <3>1. Len(t.mshr_array[a]) = 1
      BY <1>9, <2>1
    <3> QED BY <3>1
  <2>2. CASE a \notin reads
    BY <1>9, <2>2 DEF Counted
  <2> QED BY <2>1, <2>2
<1>11. ASSUME NEW a \in Address, NEW k \in Range(t.mshr_array[a]) PROVE Old(t, k) < b + 1
  <2>1. CASE a \in reads
    BY <1>1, <1>3, <1>9, <1>11, <2>1
  <2>2. CASE a \notin reads
    <3>1. k \in Range(r.mshr_array[a]) /\ k \in LineIds
      BY <1>9, <1>11, <2>2
    <3>2. Old(r, k) < b
      BY <3>1 DEF Counted
    <3> QED BY <1>3, <3>1, <3>2
  <2> QED BY <2>1, <2>2
<1>12. ASSUME NEW k \in LineIds, Old(t, k) < b + 1
       PROVE  /\ t.vec[k].unfinished = Cardinality(Awaited(t, k))
              /\ t.vec[k].ready <=> t.vec[k].unfinished = 0
  <2>1. CASE k = l
    <3>1. \A a \in Address : k \in Range(t.mshr_array[a]) <=> a \in reads
      <4> SUFFICES ASSUME NEW a \in Address, a \notin reads PROVE k \notin Range(r.mshr_array[a])
        BY <1>9, <2>1
      <4>1. ~(Old(r, k) < b)
        BY <1>1, <2>1
      <4> QED BY <4>1 DEF Counted
    <3>2. Awaited(t, k) = reads
      BY <3>1 DEF Awaited
    <3>3. IsFiniteSet(reads)
      BY FiniteParts, FS_Subset
    <3>4. Cardinality(reads) = 0 <=> reads = {}
      BY <3>3, FS_EmptySet
    <3> QED BY <1>1, <2>1, <3>2, <3>4
  <2>2. CASE k # l
    <3>1. \A a \in Address : k \in Range(t.mshr_array[a]) <=> k \in Range(r.mshr_array[a])
      <4> SUFFICES ASSUME NEW a \in Address, a \in reads
                   PROVE  k \in Range(t.mshr_array[a]) <=> k \in Range(r.mshr_array[a])
        BY <1>9
      <4>1. k \notin Range(t.mshr_array[a])
        BY <1>9, <2>2
      <4>2. k \notin Range(r.mshr_array[a])
        BY <1>9
      <4> QED BY <4>1, <4>2
    <3>2. Awaited(t, k) = Awaited(r, k)
      BY <3>1 DEF Awaited
    <3> QED BY <1>1, <1>3, <1>12, <2>2, <3>2 DEF Counted
  <2> QED BY <2>1, <2>2
<1>13. Counted(t, b + 1)
  BY <1>10, <1>11, <1>12 DEF Counted
<1> QED BY <1>8, <1>13

LEMMA PutSteps ==
  ASSUME NEW r, NEW t, NEW b, NEW c, NEW q, NEW line, NEW reads,
         Put(r, t, b, c, line, reads), Steps(r, c), Jobs(r, c, q)
  PROVE  Steps(t, c) /\ Jobs(t, c, q)
<1>1. /\ \A k \in LineIds : Old(t, k) = Old(r, k)
      /\ t.task_map = r.task_map /\ t.cnt = r.cnt /\ t.job = r.job
      /\ t.ready_to_pop = r.ready_to_pop /\ r \in Station
  BY DEF Put
<1>2. \A s : Held(t, c, s) = Held(r, c, s)
  BY <1>1 DEF Held
<1>3. \A k \in LineIds : r.task_map[k] \in LineIds
  BY <1>1, StationFields
<1>4. Steps(t, c)
  BY <1>1, <1>2, <1>3 DEF Steps
<1>5. Jobs(t, c, q)
  BY <1>1 DEF Jobs
<1> QED BY <1>4, <1>5

LEMMA PutReads ==
  ASSUME NEW r, NEW t, NEW b, NEW c, NEW line, NEW reads \in SUBSET Address,
         Put(r, t, b, c, line, reads), Ring(r, b, c), Counted(r, b), Owned(r, b), Follow(r, b),
         WritesOwn(line, r.job[r.task_map[r.tail]]),
         \A a \in reads : Unwritten(r, b, a[1])
  PROVE  /\ Owned(t, b + 1) /\ Follow(t, b + 1)
         /\ \A n : Unwritten(r, b, n) /\ ~Writes(t.vec[r.tail], n) => Unwritten(t, b + 1, n)
         /\ \A F, E : /\ Safe(r, b, F)
                      /\ \A a \in Address \cap E : a \in F \ reads \/ Writes(t.vec[r.tail], a[1])
                      => Safe(t, b + 1, E)
<1> DEFINE l == r.tail
<1>1. /\ b \in Nat /\ c \in Nat /\ b < c /\ l \in LineIds /\ Old(r, l) = b /\ t.head = r.head
      /\ \A k \in LineIds : k # l => t.vec[k] = r.vec[k]
      /\ t.vec[l].type = line.type /\ t.vec[l].leaf = line.leaf /\ t.vec[l].node = line.node
      /\ t.task_map = r.task_map /\ t.job = r.job
      /\ \A a \in Address : Range(r.mshr_array[a]) \subseteq LineIds
      /\ \A a \in Address : a \notin reads => t.mshr_array[a] = r.mshr_array[a]
      /\ \A a \in reads : Range(t.mshr_array[a]) = {l}
  BY DEF Put
<1>2. \A k \in LineIds : Old(t, k) = Old(r, k) /\ Old(r, k) \in 0 .. N - 1 /\ (Old(r, k) = b => k = l)
  BY DEF Put
<1>3. \A k \in LineIds : Old(t, k) < b + 1 <=> k = l \/ Old(r, k) < b
  <2> SUFFICES ASSUME NEW k \in LineIds PROVE Old(t, k) < b + 1 <=> k = l \/ Old(r, k) < b
    OBVIOUS
  <2>1. Old(t, k) = Old(r, k) /\ Old(r, k) \in 0 .. N - 1 /\ (Old(r, k) = b => k = l)
    BY <1>2
  <2>2. N \in Nat
    BY Sizes
  <2> QED BY <1>1, <2>1, <2>2
<1>4. ~(Old(r, l) < b)
  BY <1>1
<1>5. Owned(t, b + 1)
  <2> SUFFICES ASSUME NEW w \in LineIds, Old(t, w) < b + 1
               PROVE  WritesOwn(t.vec[w], t.job[t.task_map[w]])
    BY DEF Owned
  <2>1. CASE w = l
    BY <1>1, <2>1 DEF WritesOwn, IsWrite
  <2>2. CASE w # l
    BY <1>1, <1>3, <2>2 DEF Owned
  <2> QED BY <2>1, <2>2
<1>6. \A w \in LineIds : \A n : WritesTo(t, b + 1, w, n) <=>
        IF w = l THEN Writes(t.vec[l], n) ELSE WritesTo(r, b, w, n)
  BY <1>1, <1>3 DEF WritesTo
<1>7. \A n : Unwritten(r, b, n) /\ ~Writes(t.vec[l], n) => Unwritten(t, b + 1, n)
  BY <1>6 DEF Unwritten
<1>8. ASSUME NEW a \in Address, NEW k \in Range(t.mshr_array[a]), NEW w \in LineIds,
             WritesTo(t, b + 1, w, a[1])
      PROVE  Old(t, w) >= Old(t, k)
  <2>1. CASE a \in reads
    <3>1. k = l
      BY <1>1, <1>8, <2>1
    <3>2. w = l
      BY <1>6, <1>8, <2>1 DEF Unwritten
    <3>3. Old(t, l) \in Int
      BY <1>1, <1>2
    <3> QED BY <3>1, <3>2, <3>3
  <2>2. CASE a \notin reads
    <3>1. k \in Range(r.mshr_array[a]) /\ k \in LineIds /\ Old(t, k) = Old(r, k)
      BY <1>1, <1>2, <1>8, <2>2
    <3>2. Old(r, k) < b /\ Old(r, k) \in Int
      BY <1>2, <3>1 DEF Counted
    <3>3. CASE w = l
      BY <1>1, <1>2, <3>1, <3>2, <3>3
    <3>4. CASE w # l
      <4>1. WritesTo(r, b, w, a[1])
        BY <1>6, <1>8, <3>4
      <4> QED BY <1>2, <3>1, <4>1 DEF Follow
    <3> QED BY <3>3, <3>4
  <2> QED BY <2>1, <2>2
<1>9. ASSUME NEW F, NEW E, Safe(r, b, F),
             \A a \in Address \cap E : a \in F \ reads \/ Writes(t.vec[l], a[1])
      PROVE  Safe(t, b + 1, E)
  <2> SUFFICES ASSUME NEW a \in Address \cap E, NEW k \in Range(t.mshr_array[a])
               PROVE  \E w \in LineIds : WritesTo(t, b + 1, w, a[1]) /\ Old(t, w) >= Old(t, k)
    BY DEF Safe
  <2>1. CASE Writes(t.vec[l], a[1])
    <3>1. WritesTo(t, b + 1, l, a[1])
      BY <1>1, <1>6, <2>1
    <3>2. Old(t, l) >= Old(t, k)
      <4>1. CASE k = l
        <5>1. Old(t, l) \in Int
          BY <1>1, <1>2
        <5> QED BY <4>1, <5>1
      <4>2. CASE k # l
        <5>1. a \notin reads /\ k \in Range(r.mshr_array[a]) /\ k \in LineIds
          BY <1>1, <4>2
        <5>2. Old(r, k) < b /\ Old(t, k) = Old(r, k) /\ Old(r, k) \in Int
          BY <1>2, <5>1 DEF Counted
        <5> QED BY <1>1, <1>2, <5>2
      <4> QED BY <4>1, <4>2
    <3> QED BY <1>1, <3>1, <3>2
  <2>2. CASE a \in F \ reads
    <3>1. k \in Range(r.mshr_array[a]) /\ k \in LineIds /\ a \in Address \cap F
      BY <1>1, <2>2
    <3>2. PICK w \in LineIds : WritesTo(r, b, w, a[1]) /\ Old(r, w) >= Old(r, k)
      BY <1>9, <3>1 DEF Safe
    <3>3. w # l
      BY <1>4, <3>2 DEF WritesTo
    <3>4. WritesTo(t, b + 1, w, a[1]) /\ Old(t, w) >= Old(t, k)
      BY <1>2, <1>6, <3>1, <3>2, <3>3
    <3> QED BY <3>4
  <2> QED BY <1>9, <2>1, <2>2
<1> QED BY <1>5, <1>7, <1>8, <1>9 DEF Follow

LEMMA PutClaimed ==
  ASSUME NEW r, NEW t, NEW b, NEW c, NEW line, NEW reads, NEW s, NEW job,
         Put(r, t, b, c, line, reads), Claimed(r, b, c, s, job)
  PROVE  Claimed(t, b + 1, c, s, job)
<1>1. /\ b \in Nat /\ c \in Nat /\ b < c /\ t.task_map = r.task_map /\ t.job = r.job
      /\ \A k \in LineIds : Old(t, k) = Old(r, k) /\ Old(r, k) \in 0 .. N - 1
  BY DEF Put
<1>2. ASSUME NEW k \in LineIds, b + 1 <= Old(t, k), Old(t, k) < c PROVE t.task_map[k] = s
  <2>1. Old(r, k) \in Int /\ Old(t, k) = Old(r, k)
    BY <1>1
  <2>2. b <= Old(r, k) /\ Old(r, k) < c
    BY <1>1, <1>2, <2>1
  <2> QED BY <1>1, <2>2 DEF Claimed
<1> QED BY <1>1, <1>2 DEF Claimed

-----------------------------------------------------------------------------
(***************************************************************************)
(* What a registration keeps and what it brings about.                     *)
(***************************************************************************)
Fills(line, n) ==
  IsWrite(line) /\ (line.node = n \/ (line.leaf # NoLeaf /\ n \in SetPath(line.leaf)))

\* The lines of r are still in t as they were.
Keeps(r, b, t) == \A l \in LineIds : Old(r, l) < b => t.vec[l] = r.vec[l]

\* A station while it registers a step s for a job, between two steps if b = c.
Well(r, b, c, q, s, job) ==
  /\ r \in Station /\ s \in LineIds /\ Whole(r, b, c, q) /\ Claimed(r, b, c, s, job)
  /\ HeadWaits(r, b)

\* Lines were registered: what was safe to read still is, but for the slots being
\* read now, and so are the buckets being written now.
Grows(r, b, t, d, reads, nodes) ==
  /\ Keeps(r, b, t)
  /\ \A n : Unwritten(r, b, n) /\ n \notin nodes => Unwritten(t, d, n)
  /\ \A F, E : /\ Safe(r, b, F)
               /\ \A a \in Address \cap E : a \in F \ reads \/ a[1] \in nodes
               => Safe(t, d, E)

\* A step s is being registered since station r, of b lines: it is the only one after
\* the steps of r, and it is answered when all its lines have left, which can only be
\* if none was before them.
Issued(r, b, t, d, e, s, job) ==
  /\ b \in Nat /\ d \in Nat /\ e \in Nat /\ b <= e
  /\ b > 0 => t.head = r.head /\ b <= d
  /\ \A l \in LineIds : Old(t, l) < b =>
       t.task_map[l] = r.task_map[l] /\ t.job[t.task_map[l]] = r.job[r.task_map[l]]
  /\ \A l \in LineIds : b <= Old(t, l) /\ Old(t, l) < e => t.task_map[l] = s
  /\ e > b => t.job[s] = job
  /\ t.ready_to_pop = IF e > b THEN r.ready_to_pop ELSE Append(r.ready_to_pop, job)

\* What was true of a step at station r, of b lines and c claimed slots, is at t.
Carries(r, b, c, t, d, e, s, job) ==
  \A x, k : Issued(x, k, r, b, c, s, job) => Issued(x, k, t, d, e, s, job)

LEMMA AttemptInStation ==
  ASSUME NEW r \in Station
  PROVE  Attempt(r) \in Station
<1>1. CASE ~r.vec[r.head].valid \/ ~r.vec[r.head].ready
  BY <1>1 DEF Attempt
<1>2. CASE r.vec[r.head].valid /\ r.vec[r.head].ready
  BY <1>2, AttemptFields
<1> QED BY <1>1, <1>2

LEMMA AttemptWell ==
  ASSUME NEW r \in Station, NEW b, NEW c, NEW q, Whole(r, b, c, q),
         r.vec[r.head].valid, r.vec[r.head].ready
  PROVE  LET t == Attempt(r) IN
         /\ Left(r, t, b, c) /\ Whole(t, b - 1, c - 1, q)
         /\ \A s \in LineIds : \A job : Claimed(r, b, c, s, job) => Claimed(t, b - 1, c - 1, s, job)
<1> DEFINE t == Attempt(r)
<1>1. Ring(r, b, c) /\ Counted(r, b) /\ Steps(r, c) /\ Jobs(r, c, q) /\ Owned(r, b) /\ Follow(r, b)
  BY DEF Whole
<1>2. Left(r, t, b, c)
  BY <1>1, AttemptLeaves
<1> HIDE DEF t
<1>3. Ring(t, b - 1, c - 1) /\ Counted(t, b - 1)
  BY <1>1, <1>2, LeftRing
<1>4. Steps(t, c - 1)
  BY <1>1, <1>2, LeftSteps
<1>5. Jobs(t, c - 1, q)
  BY <1>1, <1>2, LeftJobs
<1>6. Owned(t, b - 1) /\ Follow(t, b - 1)
  BY <1>1, <1>2, LeftReads
<1>7. \A s \in LineIds : \A job : Claimed(r, b, c, s, job) => Claimed(t, b - 1, c - 1, s, job)
  BY <1>1, <1>2, LeftClaimed
<1> QED BY <1>2, <1>3, <1>4, <1>5, <1>6, <1>7 DEF Whole, t

\* A line enters, and leaves at once.
LEMMA PutCarries ==
  ASSUME NEW r, NEW t, NEW b, NEW c, NEW line, NEW reads, NEW s, NEW job,
         Put(r, t, b, c, line, reads)
  PROVE  Carries(r, b, c, t, b + 1, c, s, job)
<1> SUFFICES ASSUME NEW x, NEW k, Issued(x, k, r, b, c, s, job)
             PROVE  Issued(x, k, t, b + 1, c, s, job)
  BY DEF Carries
<1>1. /\ b \in Nat /\ t.head = r.head /\ t.task_map = r.task_map /\ t.job = r.job
      /\ t.ready_to_pop = r.ready_to_pop
  BY DEF Put
<1>2. \A l : Old(t, l) = Old(r, l)
  BY <1>1 DEF Old
<1>3. b + 1 \in Nat /\ \A n \in Nat : n <= b => n <= b + 1
  BY <1>1
<1> QED BY <1>1, <1>2, <1>3 DEF Issued

LEMMA LeftCarries ==
  ASSUME NEW r, NEW t, NEW c, NEW s \in LineIds, NEW job, Left(r, t, 1, c), Steps(r, c),
         \A l \in LineIds : Old(r, l) < c => r.task_map[l] = s,
         r.job[s] = job, Claimed(t, 0, c - 1, s, job),
         NEW x, Issued(x, 0, r, 1, c, s, job)
  PROVE  Issued(x, 0, t, 0, c - 1, s, job)
<1> DEFINE h == r.head
           D == Held(r, c, s)
<1>1. /\ r \in Station /\ t \in Station /\ c \in Nat /\ 1 <= c /\ c < N /\ N \in Nat
      /\ h \in LineIds /\ Old(r, h) = 0 /\ r.task_map[h] = s
      /\ \A l \in LineIds : l # h => Old(r, l) >= 1
      /\ r.cnt[s] = 1 <=> D = {h}
      /\ t.ready_to_pop = r.ready_to_pop \o (IF r.cnt[s] = 1 THEN <<r.job[s]>> ELSE <<>>)
  <2>1. /\ r \in Station /\ t \in Station /\ c \in Nat /\ 1 <= c /\ c < N /\ N \in Nat
        /\ h \in LineIds /\ Old(r, h) = 0 /\ \A l \in LineIds : l # h => Old(r, l) >= 1
    BY Sizes DEF Left
  <2>2. Old(r, h) < c
    BY <2>1
  <2>3. r.task_map[h] = s
    BY <2>1, <2>2
  <2> QED BY <2>1, <2>3 DEF Left
<1>2. r.cnt[s] = 1 <=> c = 1
  <2>1. ASSUME c = 1 PROVE D = {h}
    <3>1. \A l \in LineIds : Old(r, l) < 1 => l = h
      <4>1. \A l \in LineIds : Old(r, l) \in 0 .. N - 1
        BY <1>1, AgeOfSlot DEF Old
      <4> QED BY <1>1, <4>1
    <3> QED BY <1>1, <2>1, <3>1 DEF Held
  <2>2. ASSUME c # 1 PROVE D # {h}
    <3>1. 1 \in 0 .. N - 1 /\ 1 < c
      BY <1>1, <2>2
    <3>2. Slot(h, 1) \in LineIds /\ Old(r, Slot(h, 1)) = 1
      BY <1>1, <3>1, AgeOfSlot DEF Old
    <3>3. Slot(h, 1) \in D
      BY <3>1, <3>2 DEF Held
    <3>4. Slot(h, 1) # h
      BY <1>1, <3>2
    <3> QED BY <3>3, <3>4
  <2> HIDE DEF D
  <2> QED BY <1>1, <2>1, <2>2
<1>3. r.ready_to_pop \in Seq(Job) /\ r.ready_to_pop = x.ready_to_pop /\ job \in Job
  <2>1. r.ready_to_pop \in Seq(Job) /\ job \in Job
    BY <1>1, StationFields
  <2>2. c > 0
    BY <1>1
  <2> QED BY <2>1, <2>2 DEF Issued
<1>4. t.ready_to_pop = IF c - 1 > 0 THEN x.ready_to_pop ELSE Append(x.ready_to_pop, job)
  <2> DEFINE a == x.ready_to_pop
  <2>1. a \in Seq(Job) /\ job \in Job
    BY <1>3
  <2>2. t.ready_to_pop = a \o (IF r.cnt[s] = 1 THEN <<job>> ELSE <<>>)
    BY <1>1, <1>3
  <2> HIDE DEF a
  <2>3. a \o <<job>> = Append(a, job) /\ a \o <<>> = a
    BY <2>1
  <2>4. c - 1 > 0 <=> r.cnt[s] # 1
    BY <1>1, <1>2
  <2> QED BY <2>2, <2>3, <2>4 DEF a
<1>5. \A l \in LineIds : ~(Old(t, l) < 0)
  <2>1. t.head \in LineIds
    BY <1>1, StationFields
  <2>2. \A l \in LineIds : Old(t, l) \in 0 .. N - 1
    BY <2>1, AgeOfSlot DEF Old
  <2> QED BY <1>1, <2>2
<1>6. c - 1 \in Nat /\ 0 <= c - 1
  BY <1>1
<1> QED BY <1>4, <1>5, <1>6 DEF Issued, Claimed

LEMMA EnterWell ==
  ASSUME NEW r, NEW b, NEW c, NEW q, NEW s, NEW job, Well(r, b, c, q, s, job), b < c,
         NEW line \in RsLine, line.type # "init", NEW reads \in SUBSET Address,
         WritesOwn(line, job),
         \A a \in reads : r.mshr_array[a] = <<>> /\ Unwritten(r, b, a[1]),
         NEW nodes, \A n : Fills(line, n) <=> n \in nodes
  PROVE  LET t == Enter(r, line, reads) IN
         \E d, e \in Nat : /\ Well(t, d, e, q, s, job) /\ e - d = c - b - 1 /\ e <= c
                           /\ Grows(r, b, t, d, reads, nodes)
                           /\ Carries(r, b, c, t, d, e, s, job)
<1> DEFINE u == PutLine(r, line, reads)
           l == r.tail
<1>1. /\ r \in Station /\ s \in LineIds /\ Claimed(r, b, c, s, job) /\ HeadWaits(r, b)
      /\ Ring(r, b, c) /\ Counted(r, b) /\ Steps(r, c) /\ Jobs(r, c, q) /\ Owned(r, b) /\ Follow(r, b)
  BY DEF Well, Whole
<1>2. Put(r, u, b, c, line, reads)
  BY <1>1, PutLinePuts
<1>3. /\ u \in Station /\ b \in Nat /\ c \in Nat /\ b < c /\ l \in LineIds /\ Old(r, l) = b
      /\ u.head = r.head /\ r.head \in LineIds
      /\ u.vec[l].type = line.type /\ u.vec[l].leaf = line.leaf /\ u.vec[l].node = line.node
      /\ u.vec[l].valid = TRUE /\ u.vec[l].ready = (reads = {})
      /\ \A k \in LineIds : k # l => u.vec[k] = r.vec[k]
  <2>1. r.head \in LineIds
    BY <1>1, StationFields
  <2> QED BY <1>2, <2>1 DEF Put
<1> HIDE DEF u
<1>4. r.job[r.task_map[l]] = job
  BY <1>1, <1>3 DEF Claimed
<1>5. Ring(u, b + 1, c) /\ Counted(u, b + 1)
  BY <1>1, <1>2, PutRing
<1>6. Steps(u, c) /\ Jobs(u, c, q)
  BY <1>1, <1>2, PutSteps
<1>7. WritesOwn(line, r.job[r.task_map[r.tail]]) /\ \A a \in reads : Unwritten(r, b, a[1])
  BY <1>4
<1>8. /\ Owned(u, b + 1) /\ Follow(u, b + 1)
      /\ \A n : Unwritten(r, b, n) /\ ~Writes(u.vec[l], n) => Unwritten(u, b + 1, n)
      /\ \A F, E : /\ Safe(r, b, F)
                   /\ \A a \in Address \cap E : a \in F \ reads \/ Writes(u.vec[l], a[1])
                   => Safe(u, b + 1, E)
  BY <1>1, <1>2, <1>7, PutReads
<1>9. Claimed(u, b + 1, c, s, job)
  BY <1>1, <1>2, PutClaimed
<1>10. \A n : Writes(u.vec[l], n) <=> n \in nodes
  BY <1>3 DEF Writes, Fills, IsWrite
<1>11. Whole(u, b + 1, c, q)
  BY <1>5, <1>6, <1>8 DEF Whole
<1>12. Keeps(r, b, u)
  <2> SUFFICES ASSUME NEW k \in LineIds, Old(r, k) < b PROVE u.vec[k] = r.vec[k]
    BY DEF Keeps
  <2>1. k # l
    BY <1>3
  <2> QED BY <1>3, <2>1
<1>13. Grows(r, b, u, b + 1, reads, nodes)
  BY <1>8, <1>10, <1>12 DEF Grows
<1>14. l = r.head <=> b = 0
  <2>1. Old(r, r.head) = 0
    BY <1>3, AgeOfSlot DEF Old
  <2> QED BY <1>3, <2>1, SameAge DEF Old
<1>17. Carries(r, b, c, u, b + 1, c, s, job)
  BY <1>2, PutCarries
<1>15. CASE reads = {} /\ l = r.head
  <2> DEFINE t == Attempt(u)
  <2>1. Enter(r, line, reads) = t
    BY <1>15 DEF Enter, u
  <2>2. u.vec[u.head].valid /\ u.vec[u.head].ready
    BY <1>3, <1>15
  <2>3. /\ Left(u, t, b + 1, c) /\ Whole(t, (b + 1) - 1, c - 1, q)
        /\ Claimed(t, (b + 1) - 1, c - 1, s, job)
    BY <1>1, <1>3, <1>9, <1>11, <2>2, AttemptWell
  <2> HIDE DEF t
  <2>4. b = 0 /\ (b + 1) - 1 = 0 /\ c - 1 \in Nat
    BY <1>3, <1>14, <1>15
  <2>5. Whole(t, 0, c - 1, q) /\ Claimed(t, 0, c - 1, s, job) /\ t \in Station
    BY <2>3, <2>4 DEF Left
  <2>6. Well(t, 0, c - 1, q, s, job)
    BY <1>1, <2>5 DEF Well, HeadWaits
  <2>7. /\ \A F : Safe(u, b + 1, F) => Safe(t, 0, F)
        /\ \A n : Unwritten(u, b + 1, n) => Unwritten(t, 0, n)
    BY <1>5, <1>6, <1>8, <2>3, <2>4, LeftReads
  <2>8. Keeps(r, b, t)
    <3> SUFFICES ASSUME NEW k \in LineIds, Old(r, k) < b PROVE FALSE
      BY DEF Keeps
    <3>1. Old(r, k) \in 0 .. N - 1
      BY <1>3, AgeOfSlot DEF Old
    <3> QED BY <2>4, <3>1
  <2>9. Grows(r, b, t, 0, reads, nodes)
    BY <1>13, <2>7, <2>8 DEF Grows
  <2>10. 0 \in Nat /\ (c - 1) - 0 = c - b - 1 /\ c - 1 <= c
    BY <1>3, <2>4
  <2>11. ASSUME NEW x, NEW k, Issued(x, k, r, b, c, s, job)
         PROVE  Issued(x, k, t, 0, c - 1, s, job)
    <3>1. k = 0 /\ Issued(x, 0, u, 1, c, s, job)
      <4>1. k \in Nat /\ (k > 0 => k <= b)
        BY <2>11 DEF Issued
      <4> QED BY <1>17, <2>4, <2>11, <4>1 DEF Carries
    <3>2. /\ \A i \in LineIds : Old(u, i) < c => u.task_map[i] = s
          /\ u.job[s] = job
      <4>1. \A i \in LineIds : 0 <= Old(u, i)
        <5>1. \A i \in LineIds : Old(u, i) \in 0 .. N - 1
          BY <1>3, AgeOfSlot DEF Old
        <5> QED BY <5>1
      <4>2. c > 0
        BY <1>3
      <4> QED BY <3>1, <4>1, <4>2 DEF Issued
    <3>3. Left(u, t, 1, c) /\ Claimed(t, 0, c - 1, s, job)
      BY <2>3, <2>4
    <3> QED BY <1>1, <1>6, <3>1, <3>2, <3>3, LeftCarries
  <2>12. Carries(r, b, c, t, 0, c - 1, s, job)
    BY <2>11 DEF Carries
  <2> QED BY <2>1, <2>4, <2>6, <2>9, <2>10, <2>12
<1>16. CASE ~(reads = {} /\ l = r.head)
  <2>1. Enter(r, line, reads) = u
    BY <1>16 DEF Enter, u
  <2>2. HeadWaits(u, b + 1)
    <3>1. CASE l = r.head
      BY <1>3, <1>16, <3>1 DEF HeadWaits
    <3>2. CASE l # r.head
      <4>1. b > 0
        BY <1>3, <1>14, <3>2
      <4> QED BY <1>1, <1>3, <3>2, <4>1 DEF HeadWaits
    <3> QED BY <3>1, <3>2
  <2>3. Well(u, b + 1, c, q, s, job)
    BY <1>1, <1>3, <1>9, <1>11, <2>2 DEF Well
  <2>4. b + 1 \in Nat /\ c - (b + 1) = c - b - 1 /\ c <= c
    BY <1>3
  <2> QED BY <1>3, <1>13, <1>17, <2>1, <2>3, <2>4
<1> QED BY <1>15, <1>16

\* A slot that is safe to read and whose bucket is not being written is not read yet.
LEMMA SafeUnread ==
  ASSUME NEW r \in Station, NEW b, NEW F, Safe(r, b, F), NEW a \in Address \cap F,
         Unwritten(r, b, a[1])
  PROVE  r.mshr_array[a] = <<>>
<1>1. Range(r.mshr_array[a]) = {}
  BY DEF Safe, Unwritten
<1>2. r.mshr_array[a] \in Seq(LineIds)
  BY StationFields
<1>3. r.mshr_array[a] # <<>> => r.mshr_array[a][1] \in Range(r.mshr_array[a])
  BY <1>2 DEF Range
<1> QED BY <1>1, <1>3

LEMMA GrowsTransitive ==
  ASSUME NEW r, NEW b, NEW c, Ring(r, b, c), NEW t, NEW d, NEW e, Ring(t, d, e), NEW u, NEW f,
         NEW reads, NEW nodes, NEW more, NEW others,
         Grows(r, b, t, d, reads, nodes), Grows(t, d, u, f, more, others),
         nodes = {} \/ more = {}
  PROVE  Grows(r, b, u, f, reads \cup more, nodes \cup others)
<1>1. Keeps(r, b, u)
  <2> SUFFICES ASSUME NEW l \in LineIds, Old(r, l) < b PROVE u.vec[l] = r.vec[l]
    BY DEF Keeps
  <2>1. t.vec[l] = r.vec[l] /\ InUse(r.vec[l])
    BY DEF Grows, Keeps, Ring
  <2>2. Old(t, l) < d
    BY <2>1 DEF Ring
  <2> QED BY <2>1, <2>2 DEF Grows, Keeps
<1>2. \A n : Unwritten(r, b, n) /\ n \notin nodes \cup others => Unwritten(u, f, n)
  BY DEF Grows
<1>3. ASSUME NEW F, NEW E, Safe(r, b, F),
             \A a \in Address \cap E : a \in F \ (reads \cup more) \/ a[1] \in nodes \cup others
      PROVE  Safe(u, f, E)
  <2> DEFINE G == {a \in Address : a \in F \ reads \/ a[1] \in nodes}
  <2>1. Safe(t, d, G)
    <3>1. \A a \in Address \cap G : a \in F \ reads \/ a[1] \in nodes
      OBVIOUS
    <3> HIDE DEF G
    <3> QED BY <1>3, <3>1 DEF Grows
  <2>2. \A a \in Address \cap E : a \in G \ more \/ a[1] \in others
    BY <1>3
  <2> HIDE DEF G
  <2> QED BY <2>1, <2>2 DEF Grows
<1> QED BY <1>1, <1>2, <1>3 DEF Grows

LEMMA GrowsNot ==
  ASSUME NEW r, NEW b
  PROVE  Grows(r, b, r, b, {}, {})
<1>1. ASSUME NEW F, NEW E, Safe(r, b, F), \A a \in Address \cap E : a \in F \ {} \/ a[1] \in {}
      PROVE  Safe(r, b, E)
  BY <1>1 DEF Safe
<1> QED BY <1>1 DEF Grows, Keeps

-----------------------------------------------------------------------------
(***************************************************************************)
(* A step claims its slots.                                                *)
(***************************************************************************)
\* The slots with ages i .. j - 1 are j - i.
LEMMA AgesCounted ==
  ASSUME NEW h \in LineIds, NEW i \in 0 .. N, NEW j \in 0 .. N, i <= j
  PROVE  Cardinality({l \in LineIds : i <= AgeFrom(h, l) /\ AgeFrom(h, l) < j}) = j - i
<1> DEFINE D == {l \in LineIds : i <= AgeFrom(h, l) /\ AgeFrom(h, l) < j}
           I == i .. j - 1
           f == [x \in I |-> Slot(h, x)]
<1>1. \A x \in I : x \in 0 .. N - 1 /\ Slot(h, x) \in LineIds /\ AgeFrom(h, Slot(h, x)) = x
  <2> SUFFICES ASSUME NEW x \in I
               PROVE  x \in 0 .. N - 1 /\ Slot(h, x) \in LineIds /\ AgeFrom(h, Slot(h, x)) = x
    OBVIOUS
  <2>1. x \in 0 .. N - 1
    BY Sizes
  <2> QED BY <2>1, AgeOfSlot
<1>2. f \in [I -> D]
  BY <1>1
<1>3. \A x, y \in I : f[x] = f[y] => x = y
  BY <1>1
<1>4. \A l \in D : \E x \in I : f[x] = l
  <2> SUFFICES ASSUME NEW l \in D PROVE \E x \in I : f[x] = l
    OBVIOUS
  <2>1. AgeFrom(h, l) \in 0 .. N - 1 /\ Slot(h, AgeFrom(h, l)) = l
    BY AgeOfSlot
  <2>2. AgeFrom(h, l) \in I
    BY <2>1, Sizes
  <2> QED BY <2>1, <2>2
<1>5. IsFiniteSet(I) /\ Cardinality(I) = j - i
  <2>1. i \in Int /\ j - 1 \in Int /\ N \in Nat
    BY Sizes
  <2>2. IsFiniteSet(I) /\ Cardinality(I) = IF i > j - 1 THEN 0 ELSE (j - 1) - i + 1
    BY <2>1, FS_Interval
  <2> QED BY <2>1, <2>2
<1> HIDE DEF f, D, I
<1>6. f \in Bijection(I, D)
  BY <1>2, <1>3, <1>4 DEF Bijection, Injection, Surjection, IsInjective
<1>7. ExistsBijection(I, D)
  BY <1>6 DEF ExistsBijection
<1> QED BY <1>5, <1>7, FS_Bijection DEF D

\* The ages that count from the slot at age b.
LEMMA AgeFromTail ==
  ASSUME NEW h \in LineIds, NEW b \in 0 .. N - 1, NEW n \in Nat, n >= 1, b + n < N
  PROVE  /\ (Slot(h, b) + n - 1) % N = Slot(h, b + n - 1)
         /\ \A l \in LineIds : (l - Slot(h, b)) % N < n <=> b <= AgeFrom(h, l) /\ AgeFrom(h, l) < b + n
<1> DEFINE p == Slot(h, b)
<1>1. N \in Nat /\ N >= 5 /\ h \in Nat /\ h < N /\ LineIds = 0 .. N - 1
  BY Sizes
<1>2. p \in LineIds /\ p = IF h + b < N THEN h + b ELSE h + b - N
  <2>1. b \in 0 .. N
    BY <1>1
  <2> QED BY <2>1, AgeOfSlot, SlotIs
<1> HIDE DEF p
<1>3. Slot(p, n - 1) = Slot(h, b + n - 1)
  <2> DEFINE m == n - 1
  <2>1. m \in 0 .. N /\ b + m \in 0 .. N /\ b + n - 1 = b + m
    BY <1>1
  <2> HIDE DEF m
  <2>2. Slot(p, m) = IF p + m < N THEN p + m ELSE p + m - N
    BY <1>2, <2>1, SlotIs
  <2>3. Slot(h, b + m) = IF h + (b + m) < N THEN h + (b + m) ELSE h + (b + m) - N
    BY <2>1, SlotIs
  <2>4. b \in Nat /\ m \in Nat /\ p \in Nat /\ p < N
    BY <1>1, <1>2, <2>1
  <2>5. b + m <= N
    BY <1>1, <2>1
  <2>6. Slot(p, m) = Slot(h, b + m)
    BY <1>1, <1>2, <2>2, <2>3, <2>4, <2>5
  <2> QED BY <2>1, <2>6 DEF m
<1>4. (p + n - 1) % N = Slot(p, n - 1)
  <2>1. p + n - 1 = p + (n - 1)
    BY <1>1, <1>2
  <2> QED BY <2>1 DEF Slot
<1>5. ASSUME NEW l \in LineIds
      PROVE  (l - p) % N < n <=> b <= AgeFrom(h, l) /\ AgeFrom(h, l) < b + n
  <2>1. AgeFrom(p, l) = IF l >= p THEN l - p ELSE l - p + N
    BY <1>2, AgeIs
  <2>2. AgeFrom(h, l) = IF l >= h THEN l - h ELSE l - h + N
    BY AgeIs
  <2>3. (l - p) % N = AgeFrom(p, l)
    BY DEF AgeFrom
  <2>4. l \in Nat /\ l < N /\ p \in Nat /\ p < N /\ b \in Nat /\ b < N
    BY <1>1, <1>2
  <2> DEFINE x == AgeFrom(p, l)
             y == AgeFrom(h, l)
  <2> HIDE DEF x, y
  <2>5. x = IF y >= b THEN y - b ELSE y - b + N
    BY <1>1, <1>2, <2>1, <2>2, <2>4 DEF x, y
  <2>6. y \in 0 .. N - 1
    BY AgeOfSlot DEF y
  <2>7. x < n <=> b <= y /\ y < b + n
    BY <1>1, <2>4, <2>5, <2>6
  <2> QED BY <2>3, <2>7 DEF x, y
<1> QED BY <1>3, <1>4, <1>5 DEF p

\* Tasks that await no step may go on to anything.
Idle == {"take", "pull", "write"}

LEMMA JobsMove ==
  ASSUME NEW r \in Station, NEW c, NEW q \in [Sets -> Places], Jobs(r, c, q),
         NEW set \in Sets, q[set] \in Idle, NEW v
  PROVE  /\ Jobs(r, c, [q EXCEPT ![set] = v])
         /\ \A k \in LineIds : Old(r, k) < c /\ Awaits(r.job[r.task_map[k]])
              => r.job[r.task_map[k]].set # set
         /\ \A i \in DOMAIN r.ready_to_pop : Awaits(r.ready_to_pop[i]) => r.ready_to_pop[i].set # set
<1> DEFINE p == [q EXCEPT ![set] = v]
<1>1. \A job : Due(job) \notin Idle
  BY DEF Due, Idle
<1>2. ASSUME NEW k \in LineIds, Old(r, k) < c, Awaits(r.job[r.task_map[k]])
      PROVE  r.job[r.task_map[k]].set # set
  BY <1>1, <1>2 DEF Jobs
<1>3. ASSUME NEW i \in DOMAIN r.ready_to_pop, Awaits(r.ready_to_pop[i])
      PROVE  r.ready_to_pop[i].set # set
  BY <1>1, <1>3 DEF Jobs
<1>4. \A s : s # set /\ s \in Sets => p[s] = q[s]
  OBVIOUS
<1>5. \A k \in LineIds : r.job[r.task_map[k]].set \in Sets
  <2>1. \A k \in LineIds : r.job[r.task_map[k]] \in Job
    BY StationFields
  <2> QED BY <2>1 DEF Job
<1>6. \A i \in DOMAIN r.ready_to_pop : r.ready_to_pop[i].set \in Sets
  <2>1. r.ready_to_pop \in Seq(Job)
    BY StationFields
  <2>2. \A i \in DOMAIN r.ready_to_pop : r.ready_to_pop[i] \in Job
    BY <2>1
  <2> QED BY <2>2 DEF Job
<1> HIDE DEF p
<1>7. Jobs(r, c, p)
  BY <1>2, <1>3, <1>4, <1>5, <1>6 DEF Jobs
<1> QED BY <1>2, <1>3, <1>7 DEF p

ShareChanges(r, t, job, n, s) ==
  /\ t \in Station
  /\ t.vec = r.vec /\ t.head = r.head /\ t.tail = r.tail /\ t.mshr_array = r.mshr_array
  /\ t.ready_to_pop = r.ready_to_pop /\ t.node_id_vec = r.node_id_vec
  /\ t.job = [r.job EXCEPT ![s] = job] /\ t.cnt = [r.cnt EXCEPT ![s] = n]
  /\ t.task_map = [l \in LineIds |-> IF (l - r.tail) % N < n THEN s ELSE r.task_map[l]]

LEMMA ShareFields ==
  ASSUME NEW r \in Station, NEW job \in Job, NEW n \in Nat, (r.tail + n - 1) % N \in LineIds
  PROVE  ShareChanges(r, Share(r, job, n), job, n, (r.tail + n - 1) % N)
<1> DEFINE s == (r.tail + n - 1) % N
           t == Share(r, job, n)
           map == [l \in LineIds |-> IF (l - r.tail) % N < n THEN s ELSE r.task_map[l]]
<1>1. /\ r.vec \in [LineIds -> RsLine] /\ r.head \in LineIds /\ r.tail \in LineIds
      /\ r.last_write_line \in LineIds /\ r.node_id_vec \in Leaves \cup {NoLeaf}
      /\ r.mshr_array \in [Address -> Seq(LineIds)] /\ r.task_map \in [LineIds -> LineIds]
      /\ r.cnt \in [LineIds -> Int] /\ r.job \in [LineIds -> Job] /\ r.ready_to_pop \in Seq(Job)
      /\ s \in LineIds
  BY StationFields
<1>2. map \in [LineIds -> LineIds]
  BY <1>1
<1>3. t = [r EXCEPT !.job[s] = job, !.cnt[s] = n, !.task_map = map]
  BY DEF Share, N
<1> HIDE DEF s, map
<1>4. /\ t.vec = r.vec /\ t.head = r.head /\ t.tail = r.tail /\ t.mshr_array = r.mshr_array
      /\ t.ready_to_pop = r.ready_to_pop /\ t.node_id_vec = r.node_id_vec
      /\ t.last_write_line = r.last_write_line
      /\ t.job = [r.job EXCEPT ![s] = job] /\ t.cnt = [r.cnt EXCEPT ![s] = n]
      /\ t.task_map = map
  BY <1>3 DEF Station
<1>5. t = [vec |-> t.vec, head |-> t.head, tail |-> t.tail,
           last_write_line |-> t.last_write_line, node_id_vec |-> t.node_id_vec,
           mshr_array |-> t.mshr_array, task_map |-> t.task_map, cnt |-> t.cnt,
           job |-> t.job, ready_to_pop |-> t.ready_to_pop]
  BY <1>3 DEF Station
<1> HIDE DEF t
<1>6. t.cnt \in [LineIds -> Int] /\ t.job \in [LineIds -> Job]
  BY <1>1, <1>4
<1>7. t \in Station
  BY <1>1, <1>2, <1>4, <1>5, <1>6 DEF Station
<1> QED BY <1>4, <1>7 DEF ShareChanges, s, t, map

LEMMA ShareWell ==
  ASSUME NEW r \in Station, NEW b, NEW q \in [Sets -> Places], Whole(r, b, b, q), HeadWaits(r, b),
         NEW job \in Job, NEW n \in Nat, n >= 1, b + n < N, q[job.set] \in Idle, NEW v,
         Awaits(job) => v = Due(job)
  PROVE  LET t == Share(r, job, n) IN
         /\ \E s \in LineIds : /\ Well(t, b, b + n, [q EXCEPT ![job.set] = v], s, job)
                                /\ Issued(r, b, t, b, b + n, s, job)
         /\ Grows(r, b, t, b, {}, {})
<1> DEFINE s == (r.tail + n - 1) % N
           t == Share(r, job, n)
           p == [q EXCEPT ![job.set] = v]
<1>1. /\ Ring(r, b, b) /\ Counted(r, b) /\ Steps(r, b) /\ Jobs(r, b, q) /\ Owned(r, b) /\ Follow(r, b)
  BY DEF Whole
<1>2. /\ b \in Nat /\ b < N /\ N \in Nat /\ r.tail = Slot(r.head, b) /\ r.head \in LineIds
      /\ job.set \in Sets
  BY <1>1, StationFields, Sizes DEF Ring, Job
<1>3. b \in 0 .. N - 1
  BY <1>2
<1>4. /\ s = Slot(r.head, b + n - 1)
      /\ \A l \in LineIds : (l - r.tail) % N < n <=> b <= Old(r, l) /\ Old(r, l) < b + n
  BY <1>2, <1>3, AgeFromTail DEF Old
<1>5. b + n - 1 \in 0 .. N - 1
  BY <1>2
<1>6. s \in LineIds /\ Old(r, s) = b + n - 1
  BY <1>2, <1>4, <1>5, AgeOfSlot DEF Old
<1>7. ShareChanges(r, t, job, n, s)
  BY <1>6, ShareFields
<1> HIDE DEF s, t
<1>8. /\ t \in Station
      /\ t.vec = r.vec /\ t.head = r.head /\ t.tail = r.tail /\ t.mshr_array = r.mshr_array
      /\ t.ready_to_pop = r.ready_to_pop /\ t.node_id_vec = r.node_id_vec
      /\ t.job = [r.job EXCEPT ![s] = job] /\ t.cnt = [r.cnt EXCEPT ![s] = n]
      /\ t.task_map = [l \in LineIds |-> IF (l - r.tail) % N < n THEN s ELSE r.task_map[l]]
  BY <1>7 DEF ShareChanges
<1>9. \A l : Old(t, l) = Old(r, l) /\ Awaited(t, l) = Awaited(r, l)
  BY <1>8 DEF Old, Awaited
<1>10. \A l \in LineIds : Old(r, l) \in 0 .. N - 1 /\ r.task_map[l] \in LineIds
  BY <1>2, AgeOfSlot, StationFields DEF Old
<1>11. \A l \in LineIds : t.task_map[l] = IF b <= Old(r, l) /\ Old(r, l) < b + n THEN s ELSE r.task_map[l]
  BY <1>4, <1>8
\* The steps that were there before keep their slots and their jobs.
<1>12. ASSUME NEW k \in LineIds, Old(r, k) < b
       PROVE  /\ t.task_map[k] = r.task_map[k] /\ r.task_map[k] # s /\ Old(r, r.task_map[k]) < b
              /\ t.job[t.task_map[k]] = r.job[r.task_map[k]]
              /\ t.cnt[t.task_map[k]] = r.cnt[r.task_map[k]]
  <2>1. t.task_map[k] = r.task_map[k]
    BY <1>2, <1>10, <1>11, <1>12
  <2>2. Old(r, r.task_map[k]) < b
    BY <1>1, <1>12 DEF Steps
  <2>3. r.task_map[k] # s
    BY <1>2, <1>6, <2>2
  <2>4. r.job \in [LineIds -> Job] /\ r.cnt \in [LineIds -> Int]
    BY StationFields
  <2> QED BY <1>8, <1>10, <2>1, <2>2, <2>3, <2>4
<1>13. ASSUME NEW k \in LineIds, b <= Old(r, k), Old(r, k) < b + n
       PROVE  /\ t.task_map[k] = s /\ t.job[t.task_map[k]] = job
  <2>1. r.job \in [LineIds -> Job]
    BY StationFields
  <2> QED BY <1>6, <1>8, <1>11, <1>13, <2>1
<1>14. ASSUME NEW k \in LineIds, Old(r, k) < b + n
       PROVE  Old(r, k) < b \/ (b <= Old(r, k) /\ Old(r, k) < b + n)
  BY <1>2, <1>10, <1>14
<1>15. Ring(t, b, b + n)
  <2>1. b + n \in Nat /\ b <= b + n
    BY <1>2
  <2> QED BY <1>1, <1>8, <1>9, <2>1 DEF Ring
<1>16. Counted(t, b)
  BY <1>1, <1>8, <1>9 DEF Counted
<1>17. Steps(t, b + n)
  <2> SUFFICES ASSUME NEW k \in LineIds, Old(t, k) < b + n
               PROVE  LET u == t.task_map[k] IN
                      /\ Old(t, k) <= Old(t, u) /\ Old(t, u) < b + n
                      /\ t.cnt[u] = Cardinality(Held(t, b + n, u))
                      /\ \A j \in LineIds : Old(t, k) <= Old(t, j) /\ Old(t, j) <= Old(t, u)
                           => t.task_map[j] = u
    BY DEF Steps
  <2> DEFINE u == t.task_map[k]
  <2>1. CASE Old(r, k) < b
    <3>1. /\ u = r.task_map[k] /\ u # s /\ Old(r, u) < b /\ u \in LineIds
          /\ t.cnt[u] = r.cnt[u]
      BY <1>10, <1>12, <2>1
    <3>2. /\ Old(r, k) <= Old(r, u) /\ r.cnt[u] = Cardinality(Held(r, b, u))
          /\ \A j \in LineIds : Old(r, k) <= Old(r, j) /\ Old(r, j) <= Old(r, u) => r.task_map[j] = u
      BY <1>1, <2>1, <3>1 DEF Steps
    <3> HIDE DEF u
    <3>3. Held(t, b + n, u) = Held(r, b, u)
      <4>1. ASSUME NEW j \in LineIds
            PROVE  Old(t, j) < b + n /\ t.task_map[j] = u <=> Old(r, j) < b /\ r.task_map[j] = u
        <5>1. Old(t, j) = Old(r, j)
          BY <1>9
        <5>2. Old(r, j) < b => Old(r, j) < b + n
          BY <1>2, <1>10
        <5> QED BY <1>12, <1>13, <1>14, <3>1, <5>1, <5>2
      <4> QED BY <4>1 DEF Held
    <3>4. Old(r, u) < b + n
      BY <1>2, <1>10, <3>1
    <3>5. ASSUME NEW j \in LineIds, Old(t, k) <= Old(t, j), Old(t, j) <= Old(t, u)
          PROVE  t.task_map[j] = u
      <4>1. Old(r, k) <= Old(r, j) /\ Old(r, j) <= Old(r, u)
        BY <1>9, <3>5
      <4>2. Old(r, j) < b
        BY <1>2, <1>10, <3>1, <4>1
      <4> QED BY <1>12, <3>2, <4>1, <4>2
    <3> QED BY <1>9, <3>1, <3>2, <3>3, <3>4, <3>5 DEF u
  <2>2. CASE b <= Old(r, k) /\ Old(r, k) < b + n
    <3>1. u = s
      BY <1>13, <2>2
    <3>2. Old(t, k) <= Old(t, s) /\ Old(t, s) < b + n
      BY <1>2, <1>6, <1>9, <1>10, <2>2
    <3>3. Held(t, b + n, s) = {l \in LineIds : b <= AgeFrom(r.head, l) /\ AgeFrom(r.head, l) < b + n}
      <4>1. ASSUME NEW j \in LineIds
            PROVE  Old(t, j) < b + n /\ t.task_map[j] = s <=> b <= Old(r, j) /\ Old(r, j) < b + n
        BY <1>9, <1>12, <1>13, <1>14
      <4> QED BY <4>1 DEF Held, Old
    <3>4. Cardinality(Held(t, b + n, s)) = n
      <4>1. b \in 0 .. N /\ b + n \in 0 .. N /\ b <= b + n /\ (b + n) - b = n
        BY <1>2
      <4> QED BY <1>2, <3>3, <4>1, AgesCounted
    <3>5. t.cnt[s] = n
      BY <1>6, <1>8, StationFields
    <3>6. ASSUME NEW j \in LineIds, Old(t, k) <= Old(t, j), Old(t, j) <= Old(t, s)
          PROVE  t.task_map[j] = s
      <4>1. b <= Old(r, j) /\ Old(r, j) < b + n
        BY <1>2, <1>6, <1>9, <1>10, <2>2, <3>6
      <4> QED BY <1>13, <4>1
    <3> QED BY <3>1, <3>2, <3>4, <3>5, <3>6
  <2>3. Old(r, k) < b + n
    BY <1>9
  <2> QED BY <1>14, <2>1, <2>2, <2>3
<1>18. Jobs(t, b + n, p)
  <2>1. /\ Jobs(r, b, p)
        /\ \A k \in LineIds : Old(r, k) < b /\ Awaits(r.job[r.task_map[k]])
             => r.job[r.task_map[k]].set # job.set
        /\ \A i \in DOMAIN r.ready_to_pop : Awaits(r.ready_to_pop[i])
             => r.ready_to_pop[i].set # job.set
    BY <1>1, <1>2, JobsMove
  <2>2. Awaits(job) => p[job.set] = Due(job)
    BY <1>2
  <2> HIDE DEF p
  <2> DEFINE J(k) == t.job[t.task_map[k]]
  <2>3. ASSUME NEW k \in LineIds, Old(t, k) < b + n
        PROVE  \/ Old(r, k) < b /\ J(k) = r.job[r.task_map[k]] /\ t.task_map[k] = r.task_map[k]
                    /\ t.task_map[k] # s
               \/ J(k) = job /\ t.task_map[k] = s
    BY <1>9, <1>12, <1>13, <1>14, <2>3
  <2> HIDE DEF J
  <2>4. ASSUME NEW k \in LineIds, Old(t, k) < b + n, Awaits(J(k)) PROVE p[J(k).set] = Due(J(k))
    BY <2>1, <2>2, <2>3, <2>4 DEF Jobs
  <2>5. ASSUME NEW k \in LineIds, NEW l \in LineIds, Old(t, k) < b + n, Old(t, l) < b + n,
               t.task_map[k] # t.task_map[l], Awaits(J(k)), Awaits(J(l))
        PROVE  J(k).set # J(l).set
    BY <2>1, <2>3, <2>5 DEF Jobs
  <2>6. ASSUME NEW k \in LineIds, NEW i \in DOMAIN r.ready_to_pop, Old(t, k) < b + n,
               Awaits(J(k)), Awaits(r.ready_to_pop[i])
        PROVE  J(k).set # r.ready_to_pop[i].set
    BY <2>1, <2>3, <2>6 DEF Jobs
  <2>7. /\ \A i \in DOMAIN r.ready_to_pop : Awaits(r.ready_to_pop[i]) =>
             p[r.ready_to_pop[i].set] = Due(r.ready_to_pop[i])
        /\ \A i, j \in DOMAIN r.ready_to_pop :
             i # j /\ Awaits(r.ready_to_pop[i]) /\ Awaits(r.ready_to_pop[j])
             => r.ready_to_pop[i].set # r.ready_to_pop[j].set
    BY <2>1 DEF Jobs
  <2> QED BY <1>8, <2>4, <2>5, <2>6, <2>7 DEF Jobs, J
<1>19. Owned(t, b)
  BY <1>1, <1>8, <1>9, <1>12 DEF Owned
<1>20. \A w, m : WritesTo(t, b, w, m) <=> WritesTo(r, b, w, m)
  BY <1>8, <1>9 DEF WritesTo
<1>21. Follow(t, b)
  BY <1>1, <1>8, <1>9, <1>20 DEF Follow
<1>22. Whole(t, b, b + n, p)
  BY <1>15, <1>16, <1>17, <1>18, <1>19, <1>21 DEF Whole
<1>23. Claimed(t, b, b + n, s, job)
  <2>1. t.job[s] = job
    BY <1>6, <1>8, StationFields
  <2> QED BY <1>9, <1>13, <2>1 DEF Claimed
<1>24. HeadWaits(t, b)
  BY <1>8 DEF HeadWaits
<1>25. Well(t, b, b + n, p, s, job)
  BY <1>6, <1>8, <1>22, <1>23, <1>24 DEF Well
<1>26. Grows(r, b, t, b, {}, {})
  <2>1. Keeps(r, b, t) /\ \A m : Unwritten(r, b, m) => Unwritten(t, b, m)
    BY <1>8, <1>20 DEF Keeps, Unwritten
  <2>2. ASSUME NEW F, NEW E, Safe(r, b, F), \A a \in Address \cap E : a \in F \ {} \/ a[1] \in {}
        PROVE  Safe(t, b, E)
    BY <1>8, <1>9, <1>20, <2>2 DEF Safe
  <2> QED BY <2>1, <2>2 DEF Grows
<1>27. Issued(r, b, t, b, b + n, s, job)
  <2>1. b + n \in Nat /\ b <= b + n /\ b + n > b
    BY <1>2
  <2>2. t.job[s] = job
    BY <1>6, <1>8, StationFields
  <2> QED BY <1>2, <1>8, <1>9, <1>12, <1>13, <2>1, <2>2 DEF Issued
<1> QED BY <1>6, <1>25, <1>26, <1>27 DEF t


-----------------------------------------------------------------------------
(***************************************************************************)
(* The steps that hold lines, oldest first.                                *)
(***************************************************************************)
\* The steps whose last line is among the first lines from the head of r, as
\* QueuedSteps builds them up.
Queue(r) ==
  LET queue[i \in Nat] ==
        IF i = 0 THEN <<>>
        ELSE LET l == FromHead(r, i - 1)
             IN  IF r.task_map[l] = l THEN Append(queue[i - 1], r.job[l]) ELSE queue[i - 1]
  IN  queue

LEMMA QueueSteps ==
  ASSUME NEW r \in Station
  PROVE  /\ Queue(r)[0] = <<>>
         /\ \A n \in Nat :
              /\ Queue(r)[n] \in Seq(Job)
              /\ Queue(r)[n + 1] = LET l == Slot(r.head, n) IN
                   IF r.task_map[l] = l THEN Append(Queue(r)[n], r.job[l]) ELSE Queue(r)[n]
<1> DEFINE Do(a, n) == LET l == Slot(r.head, n) IN
                         IF r.task_map[l] = l THEN Append(a, r.job[l]) ELSE a
           step == [n \in Nat |-> [a \in Seq(Job) |-> Do(a, n)]]
<1>1. ASSUME NEW a \in Seq(Job), NEW n \in Nat PROVE Do(a, n) \in Seq(Job)
  <2> DEFINE l == Slot(r.head, n)
  <2>1. l \in LineIds
    <3>1. N \in Nat /\ N >= 5 /\ r.head \in Nat /\ LineIds = 0 .. N - 1
      BY Sizes, StationFields
    <3>2. (r.head + n) % N \in 0 .. N - 1
      BY <3>1
    <3> QED BY <3>1, <3>2 DEF Slot
  <2>2. r.job[l] \in Job
    BY <2>1, StationFields
  <2> HIDE DEF l
  <2> QED BY <2>2 DEF l
<1> HIDE DEF Do
<1>2. step \in [Nat -> [Seq(Job) -> Seq(Job)]]
  BY <1>1
<1>3. PICK f \in [Nat -> Seq(Job)] :
        \A n \in Nat : f[n] = IF n = 0 THEN <<>> ELSE step[n - 1][f[n - 1]]
  <2> DEFINE V == Seq(Job)
             e == <<>>
             st == step
  <2>1. e \in V /\ st \in [Nat -> [V -> V]]
    BY <1>2
  <2> HIDE DEF V, e, st
  <2>2. \E f \in [Nat -> V] : \A n \in Nat : f[n] = IF n = 0 THEN e ELSE st[n - 1][f[n - 1]]
    BY <2>1, Recursion
  <2> QED BY <2>2 DEF V, e, st
<1> DEFINE Body(g, n) == IF n = 0 THEN <<>>
                         ELSE LET l == FromHead(r, n - 1)
                              IN  IF r.task_map[l] = l THEN Append(g[n - 1], r.job[l]) ELSE g[n - 1]
<1>4. ASSUME NEW n \in Nat, NEW g, n # 0 PROVE Body(g, n) = Do(g[n - 1], n - 1)
  BY <1>4 DEF Do, FromHead, Slot, N
<1>5. ASSUME NEW n \in Nat PROVE f[n] = Body(f, n)
  <2>1. CASE n # 0
    <3>1. n - 1 \in Nat /\ f[n - 1] \in Seq(Job)
      BY <2>1
    <3>2. step[n - 1][f[n - 1]] = Do(f[n - 1], n - 1)
      BY <3>1
    <3> HIDE DEF step, Body
    <3> QED BY <1>3, <1>4, <2>1, <3>2
  <2>2. CASE n = 0
    BY <1>3, <2>2
  <2> QED BY <2>1, <2>2
<1> DEFINE queue == CHOOSE g : g = [n \in Nat |-> Body(g, n)]
<1>6. queue = [n \in Nat |-> Body(queue, n)]
  <2>1. f = [n \in Nat |-> Body(f, n)]
    <3> HIDE DEF Body
    <3> QED BY <1>5
  <2> HIDE DEF Body
  <2> QED BY <2>1
<1>7. Queue(r) = queue
  BY DEF Queue
<1> HIDE DEF queue
<1>8. queue[0] = <<>>
  <2>1. queue[0] = Body(queue, 0)
    <3> HIDE DEF Body
    <3> QED BY <1>6
  <2> QED BY <2>1
<1>9. ASSUME NEW n \in Nat PROVE queue[n + 1] = Do(queue[n], n)
  <2>1. n + 1 \in Nat /\ n + 1 # 0 /\ (n + 1) - 1 = n
    OBVIOUS
  <2>2. queue[n + 1] = Body(queue, n + 1)
    <3> HIDE DEF Body
    <3> QED BY <1>6, <2>1
  <2>3. Body(queue, n + 1) = Do(queue[(n + 1) - 1], (n + 1) - 1)
    <3> HIDE DEF Body
    <3> QED BY <1>4, <2>1
  <2> QED BY <2>1, <2>2, <2>3
<1>10. \A n \in Nat : queue[n] \in Seq(Job)
  <2> DEFINE D == {n \in Nat : queue[n] \notin Seq(Job)}
  <2>1. ASSUME D # {} PROVE FALSE
    <3>1. PICK n \in D : \A m \in D : n <= m
      BY <2>1, NatLeast
    <3>2. n \in Nat /\ n # 0
      <4>1. <<>> \in Seq(Job) /\ n \in Nat /\ queue[n] \notin Seq(Job)
        BY <3>1
      <4> QED BY <1>8, <4>1
    <3>3. n - 1 \in Nat /\ n - 1 < n /\ (n - 1) + 1 = n
      BY <3>2
    <3>4. queue[n - 1] \in Seq(Job)
      BY <3>1, <3>3
    <3>5. queue[n] = Do(queue[n - 1], n - 1)
      BY <1>9, <3>3
    <3> QED BY <1>1, <3>1, <3>3, <3>4, <3>5
  <2> QED BY <2>1
<1> QED BY <1>7, <1>8, <1>9, <1>10 DEF Do

\* Stations with the same steps at their first lines.
LEMMA QueueFrame ==
  ASSUME NEW r \in Station, NEW t \in Station, NEW b \in Nat, b <= N, t.head = r.head,
         \A l \in LineIds : Old(r, l) < b =>
           t.task_map[l] = r.task_map[l] /\ t.job[t.task_map[l]] = r.job[r.task_map[l]]
  PROVE  Queue(t)[b] = Queue(r)[b]
<1> DEFINE D == {n \in Nat : n <= b /\ Queue(t)[n] # Queue(r)[n]}
<1>1. ASSUME D # {} PROVE FALSE
  <2>1. PICK n \in D : \A m \in D : n <= m
    BY <1>1, NatLeast
  <2>2. n \in Nat /\ n <= b /\ n # 0 /\ Queue(t)[n] # Queue(r)[n]
    BY <2>1, QueueSteps
  <2> DEFINE m == n - 1
             l == Slot(r.head, m)
  <2>3. m \in Nat /\ m < n /\ m + 1 = n /\ m \in 0 .. N - 1 /\ m < b
    BY <2>2, Sizes
  <2>4. Queue(t)[m] = Queue(r)[m]
    BY <2>1, <2>2, <2>3
  <2> HIDE DEF m
  <2>5. l \in LineIds /\ Old(r, l) = m
    BY <2>3, StationFields, AgeOfSlot DEF Old
  <2>6. t.task_map[l] = r.task_map[l] /\ t.job[t.task_map[l]] = r.job[r.task_map[l]]
    BY <2>3, <2>5
  <2>7. Queue(r)[m + 1] = IF r.task_map[l] = l THEN Append(Queue(r)[m], r.job[l]) ELSE Queue(r)[m]
    BY <2>3, QueueSteps
  <2>8. Queue(t)[m + 1] = IF t.task_map[l] = l THEN Append(Queue(t)[m], t.job[l]) ELSE Queue(t)[m]
    BY <2>3, QueueSteps
  <2> HIDE DEF l
  <2> QED BY <2>2, <2>3, <2>4, <2>6, <2>7, <2>8
<1> QED BY <1>1

\* The steps that are no longer in the queue were answered in its order.
Answered(r, b, t, d) ==
  \E X \in Seq(Job) : /\ t.ready_to_pop = r.ready_to_pop \o X
                      /\ Queue(r)[b] = X \o Queue(t)[d]

\* The oldest line leaves: it was the last of its step, which is now answered, or the
\* queue is as it was.
LEMMA QueueLeft ==
  ASSUME NEW r, NEW t, NEW b, Left(r, t, b, b), Steps(r, b)
  PROVE  Answered(r, b, t, b - 1)
<1> DEFINE h == r.head
           s == r.task_map[h]
           X == IF r.cnt[s] = 1 THEN <<r.job[s]>> ELSE <<>>
<1>1. /\ r \in Station /\ t \in Station /\ b \in Nat /\ 1 <= b /\ b < N /\ N \in Nat
      /\ h \in LineIds /\ s \in LineIds /\ t.head = After(h) /\ Old(r, h) = 0
      /\ \A l \in LineIds : l # h => Old(r, l) >= 1
      /\ h \in Held(r, b, s) /\ (r.cnt[s] = 1 <=> Held(r, b, s) = {h})
      /\ t.ready_to_pop = r.ready_to_pop \o X
  BY Sizes DEF Left
<1>2. X \in Seq(Job)
  <2>1. r.job[s] \in Job
    BY <1>1, StationFields
  <2> QED BY <2>1
<1>3. r.cnt[s] = 1 <=> s = h
  <2>1. /\ Old(r, s) < b /\ \A j \in LineIds : Old(r, h) <= Old(r, j) /\ Old(r, j) <= Old(r, s)
                                => r.task_map[j] = s
    BY <1>1 DEF Steps
  <2>2. Old(r, h) <= Old(r, s) /\ Old(r, s) <= Old(r, s)
    <3>1. Old(r, s) \in 0 .. N - 1
      BY <1>1, AgeOfSlot DEF Old
    <3> QED BY <1>1, <3>1
  <2>3. s \in Held(r, b, s)
    BY <1>1, <2>1, <2>2 DEF Held
  <2>4. ASSUME s = h, NEW k \in Held(r, b, s) PROVE k = h
    <3>1. k \in LineIds /\ Old(r, k) < b /\ r.task_map[k] = s
      BY <2>4 DEF Held
    <3>2. Old(r, k) <= Old(r, h)
      BY <2>4, <3>1 DEF Steps
    <3>3. Old(r, k) \in 0 .. N - 1
      BY <1>1, <3>1, AgeOfSlot DEF Old
    <3> QED BY <1>1, <3>1, <3>2, <3>3
  <2> QED BY <1>1, <2>3, <2>4
<1>6. X = IF s = h THEN <<r.job[s]>> ELSE <<>>
  BY <1>3
<1> HIDE DEF X
<1> DEFINE D == {n \in Nat : n <= b - 1 /\ Queue(r)[n + 1] # X \o Queue(t)[n]}
<1>4. ASSUME D # {} PROVE FALSE
  <2>1. PICK n \in D : \A m \in D : n <= m
    BY <1>4, NatLeast
  <2>2. /\ n \in Nat /\ n <= b - 1 /\ Queue(r)[n + 1] # X \o Queue(t)[n]
        /\ \A m \in Nat : m < n => ~(m <= b - 1) \/ Queue(r)[m + 1] = X \o Queue(t)[m]
    BY <2>1
  <2> HIDE DEF D, s, h
  <2>3. CASE n = 0
    <3> DEFINE z == 0
               j == r.job[s]
    <3>1. Queue(r)[z] = <<>> /\ Queue(t)[0] = <<>> /\ Slot(h, z) = h /\ z \in Nat /\ z + 1 = 1
      BY <1>1, QueueSteps, AgeOfSlot
    <3> HIDE DEF z
    <3>2. Queue(r)[z + 1] = LET l == Slot(r.head, z) IN
            IF r.task_map[l] = l THEN Append(Queue(r)[z], r.job[l]) ELSE Queue(r)[z]
      BY <1>1, <3>1, QueueSteps
    <3>3. Queue(r)[1] = IF s = h THEN Append(<<>>, j) ELSE <<>>
      BY <3>1, <3>2 DEF s, h
    <3>4. j \in Job
      BY <1>1, StationFields
    <3> HIDE DEF j
    <3>5. Append(<<>>, j) = <<j>>
      BY <3>4
    <3>6. Queue(r)[1] = X
      BY <1>6, <3>3, <3>5 DEF j
    <3>7. X \o <<>> = X
      BY <1>2
    <3> QED BY <2>2, <2>3, <3>1, <3>6, <3>7
  <2>4. CASE n # 0
    <3> DEFINE m == n - 1
               l == Slot(t.head, m)
    <3>1. m \in Nat /\ m < n /\ m + 1 = n /\ m <= b - 1 /\ m \in 0 .. N - 1 /\ n \in 0 .. N - 1 /\ n < b
      BY <1>1, <2>2, <2>4
    <3>3. Queue(r)[n] = X \o Queue(t)[m]
      BY <2>2, <3>1
    <3> HIDE DEF m
    <3>4. l = Slot(h, n) /\ l \in LineIds /\ Old(r, l) = n
      <4>1. l = Slot(After(h), m) /\ Slot(After(h), m) = Slot(h, m + 1)
        BY <1>1, <3>1, NextSlot
      <4>2. l = Slot(h, n)
        BY <3>1, <4>1
      <4>3. Slot(h, n) \in LineIds /\ AgeFrom(h, Slot(h, n)) = n
        BY <1>1, <3>1, AgeOfSlot
      <4> HIDE DEF l
      <4> QED BY <4>2, <4>3 DEF Old, h
    <3>5. l # h /\ Old(r, l) < b
      BY <1>1, <2>4, <3>1, <3>4
    <3>6. /\ t.task_map[l] = r.task_map[l] /\ t.job[t.task_map[l]] = r.job[r.task_map[l]]
      BY <3>4, <3>5, LeftFacts DEF h
    <3>7. Queue(r)[n + 1] = IF r.task_map[l] = l THEN Append(Queue(r)[n], r.job[l]) ELSE Queue(r)[n]
      BY <1>1, <2>2, <3>4, QueueSteps DEF h
    <3>8. Queue(t)[m + 1] = IF t.task_map[l] = l THEN Append(Queue(t)[m], t.job[l]) ELSE Queue(t)[m]
      BY <1>1, <3>1, QueueSteps
    <3>9. Queue(t)[m] \in Seq(Job) /\ r.job[l] \in Job
      BY <1>1, <3>1, <3>4, QueueSteps, StationFields
    <3> HIDE DEF l
    <3> DEFINE a == Queue(t)[m]
               j == r.job[l]
    <3>10. X \o Append(a, j) = Append(X \o a, j)
      <4>1. X \in Seq(Job) /\ a \in Seq(Job) /\ j \in Job
        BY <1>2, <3>9
      <4> HIDE DEF a, j
      <4> QED BY <4>1
    <3> QED BY <2>2, <3>1, <3>3, <3>6, <3>7, <3>8, <3>10
  <2> QED BY <2>3, <2>4
<1>5. Queue(r)[b] = X \o Queue(t)[b - 1]
  <2>1. b - 1 \in Nat /\ b - 1 <= b - 1 /\ (b - 1) + 1 = b
    BY <1>1
  <2> QED BY <1>4, <2>1
<1>7. t.ready_to_pop = r.ready_to_pop \o X /\ X \in Seq(Job)
  BY <1>1, <1>2 DEF X, s
<1> QED BY <1>5, <1>7 DEF Answered

LEMMA AnsweredNone ==
  ASSUME NEW r \in Station, NEW b \in Nat
  PROVE  Answered(r, b, r, b)
<1> DEFINE a == r.ready_to_pop
           queue == Queue(r)[b]
<1>1. a \in Seq(Job) /\ queue \in Seq(Job) /\ <<>> \in Seq(Job)
  BY StationFields, QueueSteps
<1> HIDE DEF a, queue
<1>2. a = a \o <<>> /\ queue = <<>> \o queue
  BY <1>1
<1>3. \E X \in Seq(Job) : a = a \o X /\ queue = X \o queue
  BY <1>1, <1>2
<1> QED BY <1>3 DEF Answered, a, queue

LEMMA AnsweredTransitive ==
  ASSUME NEW r \in Station, NEW b, NEW t, NEW d, NEW u \in Station, NEW e \in Nat,
         Answered(r, b, t, d), Answered(t, d, u, e)
  PROVE  Answered(r, b, u, e)
<1> DEFINE a == r.ready_to_pop
           queue == Queue(u)[e]
<1>1. PICK X \in Seq(Job) : t.ready_to_pop = a \o X /\ Queue(r)[b] = X \o Queue(t)[d]
  BY DEF Answered
<1>2. PICK Y \in Seq(Job) : u.ready_to_pop = t.ready_to_pop \o Y /\ Queue(t)[d] = Y \o queue
  BY DEF Answered
<1>3. a \in Seq(Job) /\ queue \in Seq(Job)
  BY StationFields, QueueSteps
<1> HIDE DEF a, queue
<1>4. X \o Y \in Seq(Job) /\ (a \o X) \o Y = a \o (X \o Y)
  BY <1>3
<1>5. X \o (Y \o queue) = (X \o Y) \o queue
  BY <1>3
<1> QED BY <1>1, <1>2, <1>4, <1>5 DEF Answered, a, queue

\* A step is last in the queue, or it has been answered at once.
Registered(r, b, t, d, job) ==
  \/ t.ready_to_pop = Append(r.ready_to_pop, job) /\ Queue(t)[d] = Queue(r)[b]
  \/ t.ready_to_pop = r.ready_to_pop /\ Queue(t)[d] = Append(Queue(r)[b], job)

LEMMA QueueIssued ==
  ASSUME NEW r \in Station, NEW t \in Station, NEW b, NEW d, NEW s, NEW job,
         d < N, Steps(t, d), Issued(r, b, t, d, d, s, job)
  PROVE  Registered(r, b, t, d, job)
<1>1. /\ b \in Nat /\ d \in Nat /\ b <= d /\ (b > 0 => t.head = r.head) /\ N \in Nat
      /\ \A l \in LineIds : Old(t, l) < b =>
           t.task_map[l] = r.task_map[l] /\ t.job[t.task_map[l]] = r.job[r.task_map[l]]
      /\ \A l \in LineIds : b <= Old(t, l) /\ Old(t, l) < d => t.task_map[l] = s
      /\ d > b => t.job[s] = job
      /\ t.ready_to_pop = IF d > b THEN r.ready_to_pop ELSE Append(r.ready_to_pop, job)
      /\ t.head \in LineIds
  BY Sizes, StationFields DEF Issued
<1>2. Queue(t)[b] = Queue(r)[b]
  <2>1. CASE b = 0
    BY <2>1, QueueSteps
  <2>2. CASE b > 0
    <3>1. t.head = r.head /\ b <= N /\ \A l : Old(t, l) = Old(r, l)
      BY <1>1, <2>2 DEF Old
    <3> QED BY <1>1, <3>1, QueueFrame
  <2> QED BY <1>1, <2>1, <2>2
<1>3. CASE d = b
  BY <1>1, <1>2, <1>3 DEF Registered
<1>4. CASE d > b
  <2> DEFINE last == Slot(t.head, d - 1)
  <2>1. d - 1 \in Nat /\ d - 1 \in 0 .. N - 1 /\ d - 1 < d /\ b <= d - 1 /\ (d - 1) + 1 = d
    BY <1>1, <1>4
  <2>2. last \in LineIds /\ Old(t, last) = d - 1
    BY <1>1, <2>1, AgeOfSlot DEF Old
  <2>3. t.task_map[last] = s
    BY <1>1, <2>1, <2>2
  <2>4. s = last
    <3>1. s \in LineIds
      BY <2>2, <2>3, StationFields
    <3>2. Old(t, last) <= Old(t, s) /\ Old(t, s) < d
      BY <2>1, <2>2, <2>3 DEF Steps
    <3>3. Old(t, s) \in 0 .. N - 1
      BY <1>1, <3>1, AgeOfSlot DEF Old
    <3>4. Old(t, s) = Old(t, last)
      BY <1>1, <2>2, <3>2, <3>3
    <3> QED BY <1>1, <2>2, <3>1, <3>4, SameAge DEF Old
  <2> DEFINE D == {n \in Nat : b <= n /\ n < d /\ Queue(t)[n] # Queue(t)[b]}
  <2>5. ASSUME D # {} PROVE FALSE
    <3>1. PICK n \in D : \A m \in D : n <= m
      BY <2>5, NatLeast
    <3>2. n \in Nat /\ b <= n /\ n < d /\ n # b
      BY <3>1
    <3> DEFINE m == n - 1
               l == Slot(t.head, m)
    <3>3. m \in Nat /\ m < n /\ m + 1 = n /\ b <= m /\ m < d - 1 /\ m \in 0 .. N - 1
      BY <1>1, <3>2
    <3>4. Queue(t)[m] = Queue(t)[b]
      <4>1. m \notin D
        BY <3>1, <3>3
      <4> QED BY <1>1, <3>3, <4>1
    <3> HIDE DEF m
    <3>5. l \in LineIds /\ Old(t, l) = m
      BY <1>1, <3>3, AgeOfSlot DEF Old
    <3>6. t.task_map[l] = s /\ l # s
      BY <1>1, <2>2, <2>4, <3>3, <3>5
    <3>7. Queue(t)[m + 1] = IF t.task_map[l] = l THEN Append(Queue(t)[m], t.job[l]) ELSE Queue(t)[m]
      BY <3>3, QueueSteps
    <3> QED BY <3>1, <3>3, <3>4, <3>6, <3>7
  <2>6. Queue(t)[d - 1] = Queue(r)[b]
    BY <1>2, <2>1, <2>5
  <2>7. Queue(t)[(d - 1) + 1] = IF t.task_map[last] = last THEN Append(Queue(t)[d - 1], t.job[last])
                                ELSE Queue(t)[d - 1]
    BY <2>1, QueueSteps
  <2> HIDE DEF last
  <2> QED BY <1>1, <1>4, <2>1, <2>3, <2>4, <2>6, <2>7 DEF Registered
<1> QED BY <1>1, <1>3, <1>4
-----------------------------------------------------------------------------
(***************************************************************************)
(* The memory answers a read, and the lines that are ready leave.          *)
(***************************************************************************)
LEMMA CommitAllSteps ==
  ASSUME NEW r \in Station
  PROVE  \E f : /\ CommitAll(r) = f[N] /\ f[0] = r
                /\ \A n \in Nat : f[n + 1] = Attempt(f[n])
<1> DEFINE step == [n \in Nat |-> [t \in Station |-> Attempt(t)]]
<1>1. step \in [Nat -> [Station -> Station]]
  BY AttemptInStation
<1>2. PICK f \in [Nat -> Station] :
        \A n \in Nat : f[n] = IF n = 0 THEN r ELSE step[n - 1][f[n - 1]]
  <2> DEFINE V == Station
             e == r
             st == step
  <2>1. e \in V /\ st \in [Nat -> [V -> V]]
    BY <1>1
  <2> HIDE DEF V, e, st
  <2>2. \E f \in [Nat -> V] : \A n \in Nat : f[n] = IF n = 0 THEN e ELSE st[n - 1][f[n - 1]]
    BY <2>1, Recursion
  <2> QED BY <2>2 DEF V, e, st
<1> DEFINE Body(g, n) == IF n = 0 THEN r ELSE Attempt(g[n - 1])
<1>3. ASSUME NEW n \in Nat PROVE f[n] = Body(f, n)
  <2>1. CASE n # 0
    <3>1. n - 1 \in Nat /\ f[n - 1] \in Station
      BY <2>1
    <3>2. step[n - 1][f[n - 1]] = Attempt(f[n - 1])
      BY <3>1
    <3> HIDE DEF step
    <3> QED BY <1>2, <2>1, <3>2
  <2> QED BY <1>2, <2>1
<1> DEFINE all == CHOOSE g : g = [n \in Nat |-> Body(g, n)]
<1>4. all = [n \in Nat |-> Body(all, n)]
  <2>1. f = [n \in Nat |-> Body(f, n)]
    <3> HIDE DEF Body
    <3> QED BY <1>3
  <2> HIDE DEF Body
  <2> QED BY <2>1
<1>5. CommitAll(r) = all[N]
  BY DEF CommitAll, N
<1> HIDE DEF all
<1>6. all[0] = r
  <2>1. all[0] = Body(all, 0)
    <3> HIDE DEF Body
    <3> QED BY <1>4
  <2> QED BY <2>1
<1>7. ASSUME NEW n \in Nat PROVE all[n + 1] = Attempt(all[n])
  <2>1. n + 1 \in Nat /\ n + 1 # 0 /\ (n + 1) - 1 = n
    OBVIOUS
  <2>2. all[n + 1] = Body(all, n + 1)
    <3> HIDE DEF Body
    <3> QED BY <1>4, <2>1
  <2> QED BY <2>1, <2>2
<1> QED BY <1>5, <1>6, <1>7

\* Lines of r have left; d of b are still in t.  The steps answered are the oldest.
Shrinks(r, b, t, d) ==
  /\ t \in Station /\ d \in Nat /\ d <= b
  /\ \A F : Safe(r, b, F) => Safe(t, d, F)
  /\ \A n : Unwritten(r, b, n) => Unwritten(t, d, n)
  /\ \A l \in LineIds : Old(r, l) < b =>
       t.vec[l] = r.vec[l] \/ (r.vec[l].ready /\ ~t.vec[l].valid)
  /\ \A l \in LineIds : ~InUse(r.vec[l]) => ~InUse(t.vec[l])
  /\ t.mshr_array = r.mshr_array
  /\ Answered(r, b, t, d)

LEMMA AttemptShrinks ==
  ASSUME NEW r \in Station, NEW b, NEW q, NEW t, NEW d, NEW k \in Nat,
         b \in Nat, Shrinks(r, b, t, d), Whole(t, d, d, q), d <= b - k \/ HeadWaits(t, d)
  PROVE  \E e : /\ Shrinks(r, b, Attempt(t), e) /\ Whole(Attempt(t), e, e, q)
                /\ e <= b - (k + 1) \/ HeadWaits(Attempt(t), e)
<1> DEFINE h == t.head
           u == Attempt(t)
<1>1. /\ t \in Station /\ d \in Nat /\ Ring(t, d, d) /\ Counted(t, d) /\ Steps(t, d)
      /\ Owned(t, d) /\ Follow(t, d) /\ h \in LineIds /\ Old(t, h) = 0
  BY StationFields, AgeOfSlot DEF Shrinks, Whole, Old
<1>2. CASE ~t.vec[h].valid \/ ~t.vec[h].ready
  <2>1. u = t
    BY <1>2 DEF Attempt
  <2>2. HeadWaits(t, d)
    <3>1. d > 0 => InUse(t.vec[h])
      BY <1>1 DEF Ring
    <3> QED BY <1>2, <3>1 DEF HeadWaits, InUse
  <2> HIDE DEF u
  <2> QED BY <2>1, <2>2 DEF u
<1>3. CASE t.vec[h].valid /\ t.vec[h].ready
  <2>1. InUse(t.vec[h])
    BY <1>1, <1>3 DEF Ring
  <2>2. d > 0
    BY <1>1, <2>1 DEF Ring
  <2>3. d <= b - k
    BY <1>3, <2>2 DEF HeadWaits
  <2>4. Left(t, u, d, d) /\ Whole(u, d - 1, d - 1, q)
    BY <1>1, <1>3, AttemptWell
  <2> HIDE DEF u
  <2>5. /\ \A F : Safe(t, d, F) => Safe(u, d - 1, F)
        /\ \A n : Unwritten(t, d, n) => Unwritten(u, d - 1, n)
    BY <1>1, <2>4, LeftReads
  <2>6. /\ u \in Station /\ u.mshr_array = t.mshr_array /\ ~u.vec[h].valid
        /\ \A l \in LineIds : l # h => u.vec[l] = t.vec[l]
    BY <2>4 DEF Left
  <2>7. d - 1 \in Nat /\ d - 1 <= b /\ d - 1 <= b - (k + 1)
    BY <1>1, <2>2, <2>3
  <2>8. \A l \in LineIds : Old(r, l) < b => u.vec[l] = r.vec[l] \/ (r.vec[l].ready /\ ~u.vec[l].valid)
    BY <1>1, <1>3, <2>6 DEF Shrinks
  <2>9. \A l \in LineIds : ~InUse(r.vec[l]) => ~InUse(u.vec[l])
    BY <2>6 DEF Shrinks, InUse
  <2>11. Answered(r, b, u, d - 1)
    <3>1. Answered(t, d, u, d - 1)
      BY <1>1, <2>4, QueueLeft
    <3>2. Answered(r, b, t, d)
      BY DEF Shrinks
    <3> QED BY <2>6, <2>7, <3>1, <3>2, AnsweredTransitive
  <2>10. Shrinks(r, b, u, d - 1)
    BY <2>5, <2>6, <2>7, <2>8, <2>9, <2>11 DEF Shrinks
  <2> QED BY <2>4, <2>7, <2>10 DEF u
<1> QED BY <1>2, <1>3

LEMMA CommitAllWell ==
  ASSUME NEW r \in Station, NEW b, NEW q, Whole(r, b, b, q)
  PROVE  LET t == CommitAll(r) IN
         \E d : Shrinks(r, b, t, d) /\ Whole(t, d, d, q) /\ HeadWaits(t, d)
<1>1. b \in Nat /\ b < N /\ N \in Nat
  BY Sizes DEF Whole, Ring
<1>2. PICK f : CommitAll(r) = f[N] /\ f[0] = r /\ \A n \in Nat : f[n + 1] = Attempt(f[n])
  BY CommitAllSteps
<1> DEFINE Fine(n) == \E d : /\ Shrinks(r, b, f[n], d) /\ Whole(f[n], d, d, q)
                             /\ d <= b - n \/ HeadWaits(f[n], d)
<1>3. Fine(0)
  <2>1. Shrinks(r, b, r, b)
    BY <1>1, AnsweredNone DEF Shrinks
  <2> QED BY <1>1, <1>2, <2>1
<1>4. ASSUME NEW n \in Nat, Fine(n) PROVE Fine(n + 1)
  <2>1. PICK d : Shrinks(r, b, f[n], d) /\ Whole(f[n], d, d, q) /\ (d <= b - n \/ HeadWaits(f[n], d))
    BY <1>4
  <2>2. f[n + 1] = Attempt(f[n])
    BY <1>2
  <2>3. \E e : /\ Shrinks(r, b, Attempt(f[n]), e) /\ Whole(Attempt(f[n]), e, e, q)
               /\ e <= b - (n + 1) \/ HeadWaits(Attempt(f[n]), e)
    <3> DEFINE t == f[n]
    <3>1. Shrinks(r, b, t, d) /\ Whole(t, d, d, q) /\ (d <= b - n \/ HeadWaits(t, d))
      BY <2>1
    <3> HIDE DEF t
    <3>2. \E e : /\ Shrinks(r, b, Attempt(t), e) /\ Whole(Attempt(t), e, e, q)
                 /\ e <= b - (n + 1) \/ HeadWaits(Attempt(t), e)
      BY <1>1, <3>1, AttemptShrinks
    <3> QED BY <3>2 DEF t
  <2> QED BY <2>2, <2>3
<1>5. Fine(N)
  <2> DEFINE D == {n \in Nat : ~Fine(n)}
  <2> HIDE DEF Fine
  <2>1. D = {}
    <3> SUFFICES ASSUME D # {} PROVE FALSE
      OBVIOUS
    <3>1. PICK n \in D : \A m \in D : n <= m
      BY NatLeast
    <3>2. n \in Nat /\ n # 0 /\ ~Fine(n)
      BY <1>3, <3>1
    <3>3. n - 1 \in Nat /\ n - 1 < n /\ (n - 1) + 1 = n
      BY <3>2
    <3>4. Fine(n - 1)
      BY <3>1, <3>3
    <3>5. Fine((n - 1) + 1)
      BY <1>4, <3>3, <3>4
    <3> QED BY <3>2, <3>3, <3>5
  <2> QED BY <1>1, <2>1
<1>6. PICK d : Shrinks(r, b, f[N], d) /\ Whole(f[N], d, d, q) /\ (d <= b - N \/ HeadWaits(f[N], d))
  BY <1>5
<1>7. d \in Nat
  BY <1>6 DEF Shrinks
<1>8. HeadWaits(f[N], d)
  BY <1>1, <1>6, <1>7
<1> QED BY <1>2, <1>6, <1>8

SatisfyChanges(r, t, a) ==
  /\ t \in Station
  /\ t.head = r.head /\ t.tail = r.tail /\ t.node_id_vec = r.node_id_vec
  /\ t.task_map = r.task_map /\ t.cnt = r.cnt /\ t.job = r.job /\ t.ready_to_pop = r.ready_to_pop
  /\ t.mshr_array = [r.mshr_array EXCEPT ![a] = <<>>]
  /\ \A l \in LineIds : IF l \in Range(r.mshr_array[a])
       THEN /\ t.vec[l].type = r.vec[l].type /\ t.vec[l].leaf = r.vec[l].leaf
            /\ t.vec[l].node = r.vec[l].node /\ t.vec[l].valid = r.vec[l].valid
            /\ t.vec[l].unfinished = r.vec[l].unfinished - 1
            /\ t.vec[l].ready = (r.vec[l].unfinished = 1)
       ELSE t.vec[l] = r.vec[l]

LEMMA SatisfyFields ==
  ASSUME NEW r \in Station, NEW a \in Address,
         \A l \in Range(r.mshr_array[a]) : r.vec[l].unfinished >= 1
  PROVE  SatisfyChanges(r, Satisfy(r, a), a)
<1> DEFINE R == Range(r.mshr_array[a])
           New(l) == IF l \in R THEN [r.vec[l] EXCEPT !.unfinished = @ - 1,
                                                     !.ready = (r.vec[l].unfinished = 1)]
                     ELSE r.vec[l]
           vec == [l \in LineIds |-> New(l)]
           t == Satisfy(r, a)
<1>1. /\ r.vec \in [LineIds -> RsLine] /\ r.head \in LineIds /\ r.tail \in LineIds
      /\ r.last_write_line \in LineIds /\ r.node_id_vec \in Leaves \cup {NoLeaf}
      /\ r.mshr_array \in [Address -> Seq(LineIds)] /\ r.task_map \in [LineIds -> LineIds]
      /\ r.cnt \in [LineIds -> Int] /\ r.job \in [LineIds -> Job] /\ r.ready_to_pop \in Seq(Job)
  BY StationFields
<1>2. t = [r EXCEPT !.vec = vec, !.mshr_array[a] = <<>>]
  BY DEF Satisfy
<1>3. ASSUME NEW l \in LineIds PROVE New(l) \in RsLine
  <2>1. r.vec[l] \in RsLine
    BY <1>1
  <2>2. l \in R => r.vec[l].unfinished - 1 \in Nat
    BY <2>1, LineFields
  <2> HIDE DEF R
  <2>3. l \in R => [r.vec[l] EXCEPT !.unfinished = @ - 1, !.ready = (r.vec[l].unfinished = 1)] \in RsLine
    BY <2>1, <2>2 DEF RsLine
  <2> QED BY <2>1, <2>3
<1>4. \A l \in LineIds : vec[l] = New(l)
  OBVIOUS
<1> HIDE DEF New
<1>5. vec \in [LineIds -> RsLine]
  BY <1>3
<1> HIDE DEF vec
<1>6. /\ t.head = r.head /\ t.tail = r.tail /\ t.node_id_vec = r.node_id_vec
      /\ t.task_map = r.task_map /\ t.cnt = r.cnt /\ t.job = r.job
      /\ t.ready_to_pop = r.ready_to_pop /\ t.last_write_line = r.last_write_line
      /\ t.mshr_array = [r.mshr_array EXCEPT ![a] = <<>>] /\ t.vec = vec
  BY <1>2 DEF Station
<1>7. t = [vec |-> t.vec, head |-> t.head, tail |-> t.tail,
           last_write_line |-> t.last_write_line, node_id_vec |-> t.node_id_vec,
           mshr_array |-> t.mshr_array, task_map |-> t.task_map, cnt |-> t.cnt,
           job |-> t.job, ready_to_pop |-> t.ready_to_pop]
  BY <1>2 DEF Station
<1> HIDE DEF t
<1>8. t.mshr_array \in [Address -> Seq(LineIds)]
  <2>1. <<>> \in Seq(LineIds)
    OBVIOUS
  <2> QED BY <1>1, <1>6, <2>1
<1>9. t \in Station
  BY <1>1, <1>5, <1>6, <1>7, <1>8 DEF Station
<1>10. ASSUME NEW l \in LineIds, l \in R
       PROVE  /\ t.vec[l].type = r.vec[l].type /\ t.vec[l].leaf = r.vec[l].leaf
              /\ t.vec[l].node = r.vec[l].node /\ t.vec[l].valid = r.vec[l].valid
              /\ t.vec[l].unfinished = r.vec[l].unfinished - 1
              /\ t.vec[l].ready = (r.vec[l].unfinished = 1)
  <2>1. r.vec[l] \in RsLine
    BY <1>1
  <2>2. t.vec[l] = [r.vec[l] EXCEPT !.unfinished = @ - 1, !.ready = (r.vec[l].unfinished = 1)]
    BY <1>4, <1>6, <1>10 DEF New
  <2> QED BY <2>1, <2>2 DEF RsLine
<1>11. ASSUME NEW l \in LineIds, l \notin R PROVE t.vec[l] = r.vec[l]
  BY <1>4, <1>6, <1>11 DEF New
<1>12. \A l \in LineIds : IF l \in R
         THEN /\ t.vec[l].type = r.vec[l].type /\ t.vec[l].leaf = r.vec[l].leaf
              /\ t.vec[l].node = r.vec[l].node /\ t.vec[l].valid = r.vec[l].valid
              /\ t.vec[l].unfinished = r.vec[l].unfinished - 1
              /\ t.vec[l].ready = (r.vec[l].unfinished = 1)
         ELSE t.vec[l] = r.vec[l]
  <2> HIDE DEF R
  <2> QED BY <1>10, <1>11
<1> QED BY <1>6, <1>9, <1>12 DEF SatisfyChanges, R, t

\* A read is answered: what its lines wait for is counted as before.
LEMMA SatisfyWell ==
  ASSUME NEW r \in Station, NEW b, NEW q, Whole(r, b, b, q), NEW a \in Address
  PROVE  LET t == Satisfy(r, a) IN
         /\ SatisfyChanges(r, t, a) /\ Whole(t, b, b, q)
         /\ \A F : Safe(r, b, F) => Safe(t, b, F)
         /\ \A n : Unwritten(r, b, n) => Unwritten(t, b, n)
<1> DEFINE t == Satisfy(r, a)
           R == Range(r.mshr_array[a])
<1>1. Ring(r, b, b) /\ Counted(r, b) /\ Steps(r, b) /\ Jobs(r, b, q) /\ Owned(r, b) /\ Follow(r, b)
  BY DEF Whole
<1>2. /\ r.vec \in [LineIds -> RsLine] /\ r.mshr_array \in [Address -> Seq(LineIds)]
      /\ r.head \in LineIds /\ \A l \in LineIds : r.vec[l] \in RsLine
  BY StationFields
<1>3. R \subseteq LineIds
  BY <1>2 DEF Range
<1>4. ASSUME NEW l \in R
      PROVE  Old(r, l) < b /\ r.vec[l].unfinished \in Nat /\ r.vec[l].unfinished >= 1
             /\ r.vec[l].unfinished = Cardinality(Awaited(r, l)) /\ a \in Awaited(r, l)
  <2>1. l \in LineIds /\ a \in Awaited(r, l)
    BY <1>3 DEF Awaited
  <2>2. Old(r, l) < b /\ r.vec[l].unfinished = Cardinality(Awaited(r, l))
    BY <1>1, <2>1 DEF Counted
  <2>3. Cardinality(Awaited(r, l)) # 0
    BY <2>1, FiniteParts, FS_EmptySet
  <2>4. r.vec[l].unfinished \in Nat
    BY <1>2, <2>1, LineFields
  <2> QED BY <2>1, <2>2, <2>3, <2>4
<1>5. SatisfyChanges(r, t, a)
  BY <1>4, SatisfyFields
<1> HIDE DEF t
<1>6. /\ t \in Station /\ t.head = r.head /\ t.tail = r.tail
      /\ t.task_map = r.task_map /\ t.cnt = r.cnt /\ t.job = r.job /\ t.ready_to_pop = r.ready_to_pop
      /\ t.mshr_array = [r.mshr_array EXCEPT ![a] = <<>>]
  BY <1>5 DEF SatisfyChanges
<1>7. \A l \in LineIds : /\ t.vec[l].type = r.vec[l].type /\ t.vec[l].leaf = r.vec[l].leaf
                         /\ t.vec[l].node = r.vec[l].node /\ t.vec[l].valid = r.vec[l].valid
  BY <1>5 DEF SatisfyChanges
<1>8. \A l : Old(t, l) = Old(r, l)
  BY <1>6 DEF Old
<1>9. /\ Range(t.mshr_array[a]) = {}
      /\ \A x \in Address : x # a => t.mshr_array[x] = r.mshr_array[x]
  <2>1. t.mshr_array[a] = <<>>
    BY <1>2, <1>6
  <2> QED BY <1>2, <1>6, <2>1 DEF Range
<1>10. \A l : Awaited(t, l) = Awaited(r, l) \ {a}
  BY <1>9 DEF Awaited
<1>11. ASSUME NEW l \in LineIds, l \in R
       PROVE  /\ t.vec[l].unfinished = Cardinality(Awaited(t, l))
              /\ t.vec[l].ready <=> t.vec[l].unfinished = 0
  <2>1. t.vec[l].unfinished = r.vec[l].unfinished - 1 /\ t.vec[l].ready = (r.vec[l].unfinished = 1)
    BY <1>5, <1>11 DEF SatisfyChanges
  <2>2. r.vec[l].unfinished \in Nat /\ r.vec[l].unfinished = Cardinality(Awaited(r, l)) /\ a \in Awaited(r, l)
    BY <1>4, <1>11
  <2>3. Cardinality(Awaited(r, l) \ {a}) = Cardinality(Awaited(r, l)) - 1
    BY <2>2, FiniteParts, FS_RemoveElement
  <2>4. Awaited(t, l) = Awaited(r, l) \ {a}
    BY <1>10
  <2>5. t.vec[l].unfinished = Cardinality(Awaited(t, l))
    BY <2>1, <2>2, <2>3, <2>4
  <2>6. t.vec[l].ready <=> r.vec[l].unfinished = 1
    BY <2>1
  <2> QED BY <2>1, <2>2, <2>5, <2>6
<1>12. ASSUME NEW l \in LineIds, l \notin R
       PROVE  t.vec[l] = r.vec[l] /\ Awaited(t, l) = Awaited(r, l)
  <2>1. a \notin Awaited(r, l)
    BY <1>12 DEF Awaited
  <2> QED BY <1>5, <1>10, <1>12, <2>1 DEF SatisfyChanges
<1>13. Ring(t, b, b)
  <2>1. \A l \in LineIds : InUse(t.vec[l]) <=> InUse(r.vec[l])
    BY <1>7 DEF InUse
  <2>2. \A l \in LineIds : t.vec[l].valid /\ t.vec[l].ready => InUse(t.vec[l])
    <3> SUFFICES ASSUME NEW l \in LineIds, t.vec[l].valid, t.vec[l].ready PROVE InUse(t.vec[l])
      OBVIOUS
    <3>1. CASE l \in R
      BY <1>1, <1>4, <2>1, <3>1 DEF Ring
    <3>2. CASE l \notin R
      BY <1>1, <1>12, <3>2 DEF Ring
    <3> QED BY <3>1, <3>2
  <2> QED BY <1>1, <1>6, <1>8, <2>1, <2>2 DEF Ring
<1>14. Counted(t, b)
  <2>1. \A x \in Address : Len(t.mshr_array[x]) <= 1
    <3>1. Len(t.mshr_array[a]) = 0
      BY <1>2, <1>6
    <3> QED BY <1>1, <1>9, <3>1 DEF Counted
  <2>2. \A x \in Address : \A l \in Range(t.mshr_array[x]) : Old(t, l) < b
    BY <1>1, <1>8, <1>9 DEF Counted
  <2>3. ASSUME NEW l \in LineIds, Old(t, l) < b
        PROVE  /\ t.vec[l].unfinished = Cardinality(Awaited(t, l))
               /\ t.vec[l].ready <=> t.vec[l].unfinished = 0
    <3>1. Old(r, l) < b
      BY <1>8, <2>3
    <3>2. CASE l \notin R
      BY <1>1, <1>12, <3>1, <3>2 DEF Counted
    <3> QED BY <1>11, <3>2
  <2> QED BY <2>1, <2>2, <2>3 DEF Counted
<1>15. Steps(t, b)
  <2>1. \A s : Held(t, b, s) = Held(r, b, s)
    BY <1>6, <1>8 DEF Held
  <2> QED BY <1>1, <1>6, <1>8, <2>1 DEF Steps
<1>16. Jobs(t, b, q)
  BY <1>1, <1>6, <1>8 DEF Jobs
<1>17. \A w \in LineIds : \A n : WritesTo(t, b, w, n) <=> WritesTo(r, b, w, n)
  BY <1>7, <1>8 DEF WritesTo, Writes, IsWrite
<1>18. Owned(t, b)
  <2>1. \A w \in LineIds : \A job : WritesOwn(r.vec[w], job) => WritesOwn(t.vec[w], job)
    BY <1>7 DEF WritesOwn, IsWrite
  <2> QED BY <1>1, <1>6, <1>8, <2>1 DEF Owned
<1>19. \A x \in Address : Range(t.mshr_array[x]) \subseteq Range(r.mshr_array[x])
  BY <1>9
<1>20. Follow(t, b)
  <2> SUFFICES ASSUME NEW x \in Address, NEW l \in Range(t.mshr_array[x]), NEW w \in LineIds,
                      WritesTo(t, b, w, x[1])
               PROVE  Old(t, w) >= Old(t, l)
    BY DEF Follow
  <2> QED BY <1>1, <1>8, <1>17, <1>19 DEF Follow
<1>21. ASSUME NEW F, Safe(r, b, F) PROVE Safe(t, b, F)
  <2> SUFFICES ASSUME NEW x \in Address \cap F, NEW l \in Range(t.mshr_array[x])
               PROVE  \E w \in LineIds : WritesTo(t, b, w, x[1]) /\ Old(t, w) >= Old(t, l)
    BY DEF Safe
  <2>1. PICK w \in LineIds : WritesTo(r, b, w, x[1]) /\ Old(r, w) >= Old(r, l)
    BY <1>19, <1>21 DEF Safe
  <2> QED BY <1>8, <1>17, <2>1
<1>22. \A n : Unwritten(r, b, n) => Unwritten(t, b, n)
  BY <1>17 DEF Unwritten
<1> QED BY <1>5, <1>13, <1>14, <1>15, <1>16, <1>18, <1>20, <1>21, <1>22 DEF Whole, t
-----------------------------------------------------------------------------
(***************************************************************************)
(* The reshuffles of a path register a line per exhausted bucket.          *)
(***************************************************************************)
LEMMA EnterInStation ==
  ASSUME NEW r \in Station, NEW line \in RsLine, NEW reads \in SUBSET Address
  PROVE  Enter(r, line, reads) \in Station
<1>1. PutLine(r, line, reads) \in Station
  BY PutFields DEF PutChanges
<1> QED BY <1>1, AttemptInStation DEF Enter

LEMMA LineTypes ==
  /\ \A n \in Nodes : Line("early-pull", NoLeaf, n) \in RsLine /\ Line("early-push", NoLeaf, n) \in RsLine
  /\ \A leaf \in Leaves : /\ Line("read-pull", leaf, NoNode) \in RsLine
                          /\ Line("write-pull", leaf, NoNode) \in RsLine
                          /\ Line("write-push", leaf, NoNode) \in RsLine
BY DEF Line, RsLine, Types

\* The buckets of a path lie on different levels.
LEMMA LevelsDiffer ==
  ASSUME NEW leaf \in Leaves, NEW j \in SetLvls, NEW k \in SetLvls, P(leaf, j) = P(leaf, k)
  PROVE  j = k
<1>1. ASSUME NEW x \in SetLvls, NEW y \in SetLvls, x < y PROVE P(leaf, x) < P(leaf, y)
  <2>1. x \in Lvls /\ y \in Lvls /\ x \in Nat /\ y \in Nat
    BY TreeSizes, Sizes DEF SetLvls, Lvls
  <2>2. /\ P(leaf, x) <= 2 * Pow2[x] - 2 /\ Pow2[y] - 1 <= P(leaf, y)
        /\ P(leaf, x) \in Int /\ P(leaf, y) \in Int
    BY <2>1, PathLevel DEF Nodes
  <2>3. y - x - 1 \in Nat /\ x + 1 \in Nat /\ (x + 1) + (y - x - 1) = y
    BY <1>1, <2>1
  <2>4. Pow2[y] = Pow2[x + 1] * Pow2[y - x - 1] /\ Pow2[x + 1] = 2 * Pow2[x]
    <3>1. Pow2[(x + 1) + (y - x - 1)] = Pow2[x + 1] * Pow2[y - x - 1]
      BY <2>3, Pow2Sum
    <3> QED BY <2>1, <2>3, <3>1, Pow2Facts
  <2> DEFINE p == Pow2[x + 1]
             q == Pow2[y - x - 1]
  <2>5. p \in Nat \ {0} /\ q \in Nat \ {0} /\ Pow2[x] \in Nat
    BY <2>1, <2>3, Pow2Facts
  <2>6. Pow2[y] = p * q
    BY <2>4
  <2>7. p = 2 * Pow2[x]
    BY <2>4
  <2> HIDE DEF p, q
  <2>8. p * q >= p
    BY <2>5
  <2> QED BY <2>2, <2>5, <2>6, <2>7, <2>8
<1>2. j \in Int /\ k \in Int /\ P(leaf, j) \in Int /\ P(leaf, k) \in Int
  <2>1. j \in Lvls /\ k \in Lvls
    BY TreeSizes, Sizes DEF SetLvls, Lvls
  <2> QED BY <2>1, PathLevel DEF SetLvls, Nodes, Lvls
<1>3. ~(j < k) /\ ~(k < j)
  BY <1>1, <1>2
<1> QED BY <1>2, <1>3

\* A line that may be registered: it waits for reads and writes nodes.
Fits(r, b, job, line, reads, nodes, F) ==
  /\ line \in RsLine /\ line.type # "init" /\ WritesOwn(line, job)
  /\ reads \in SUBSET Address /\ reads \subseteq F
  /\ \A a \in reads : Unwritten(r, b, a[1])
  /\ \A n : Fills(line, n) <=> n \in nodes

\* One line after another is registered, for the levels E of a path: line[l], which
\* waits for reads[l] and writes nodes[l]; R and M are all that is read and written.
Enters(r, b, job, E, f, line, reads, nodes, F, R, M) ==
  /\ Safe(r, b, F) /\ f[0] = r
  /\ \A i \in 0 .. WayLvls :
       f[i + 1] = IF StartLvl + i \in E
                    THEN Enter(f[i], line[StartLvl + i], reads[StartLvl + i]) ELSE f[i]
  /\ \A l \in E : Fits(r, b, job, line[l], reads[l], nodes[l], F)
  /\ \A k, l \in E : k # l => reads[k] \cap reads[l] = {}
  /\ (\A l \in E : reads[l] = {}) \/ (\A l \in E : nodes[l] = {})
  /\ \A a : a \in R <=> \E l \in E : a \in reads[l]
  /\ \A n : n \in M <=> \E l \in E : n \in nodes[l]

LEMMA EntersWell ==
  ASSUME NEW r, NEW b, NEW c, NEW q, NEW s, NEW job, Well(r, b, c, q, s, job),
         NEW E \in SUBSET SetLvls, Cardinality(E) <= c - b,
         NEW f, NEW line, NEW reads, NEW nodes, NEW F, NEW R, NEW M,
         Enters(r, b, job, E, f, line, reads, nodes, F, R, M)
  PROVE  \E d, e \in Nat : /\ Well(f[WayLvls + 1], d, e, q, s, job)
                           /\ e - d = c - b - Cardinality(E) /\ e <= c
                           /\ Grows(r, b, f[WayLvls + 1], d, R, M)
                           /\ Carries(r, b, c, f[WayLvls + 1], d, e, s, job)
<1> DEFINE U(i) == {l \in E : l < StartLvl + i}
           Reads(i) == UNION {reads[l] : l \in U(i)}
           Written(i) == UNION {nodes[l] : l \in U(i)}
           Good(i, d, e) == /\ d \in Nat /\ e \in Nat /\ Well(f[i], d, e, q, s, job)
                            /\ e - d = c - b - Cardinality(U(i)) /\ e <= c
                            /\ Grows(r, b, f[i], d, Reads(i), Written(i))
                            /\ Carries(r, b, c, f[i], d, e, s, job)
           Fine(i) == \E d, e : Good(i, d, e)
<1>0. /\ Safe(r, b, F) /\ f[0] = r
      /\ \A i \in 0 .. WayLvls :
           f[i + 1] = IF StartLvl + i \in E
                        THEN Enter(f[i], line[StartLvl + i], reads[StartLvl + i]) ELSE f[i]
      /\ \A k, l \in E : k # l => reads[k] \cap reads[l] = {}
      /\ (\A l \in E : reads[l] = {}) \/ (\A l \in E : nodes[l] = {})
  BY DEF Enters
<1>10. \A l \in E : Fits(r, b, job, line[l], reads[l], nodes[l], F)
  BY DEF Enters
<1>1. /\ b \in Nat /\ c \in Nat /\ Ring(r, b, c) /\ StartLvl \in Nat /\ WayLvls \in Nat
      /\ SetLvls = StartLvl .. StartLvl + WayLvls
  BY Sizes DEF Well, Whole, Ring, SetLvls, num_of_lvls
<1>2. IsFiniteSet(E) /\ Cardinality(E) \in Nat /\ E \subseteq Nat
  <2>1. IsFiniteSet(StartLvl .. StartLvl + WayLvls)
    BY <1>1, FS_Interval
  <2>2. E \subseteq StartLvl .. StartLvl + WayLvls
    BY <1>1
  <2>3. IsFiniteSet(E)
    BY <2>1, <2>2, FS_Subset
  <2> QED BY <1>1, <2>2, <2>3, FS_CardinalityType
<1>3. \A i : U(i) \subseteq E /\ IsFiniteSet(U(i)) /\ Cardinality(U(i)) \in Nat
  <2>1. \A i : U(i) \subseteq E
    OBVIOUS
  <2> HIDE DEF U
  <2> QED BY <1>2, <2>1, FS_Subset, FS_CardinalityType
<1>4. U(0) = {} /\ U(WayLvls + 1) = E
  <2>1. ASSUME NEW l \in E PROVE l \in Nat /\ l >= StartLvl /\ l < StartLvl + (WayLvls + 1)
    BY <1>1
  <2>2. ~ \E l \in E : l < StartLvl + 0
    BY <1>1, <2>1
  <2> QED BY <2>1, <2>2
<1>5. \A i \in Nat : U(i + 1) = IF StartLvl + i \in E THEN U(i) \cup {StartLvl + i} ELSE U(i)
  <2> SUFFICES ASSUME NEW i \in Nat
               PROVE  U(i + 1) = IF StartLvl + i \in E THEN U(i) \cup {StartLvl + i} ELSE U(i)
    OBVIOUS
  <2>1. ASSUME NEW l \in E PROVE l < StartLvl + (i + 1) <=> l < StartLvl + i \/ l = StartLvl + i
    <3>1. l \in Nat /\ StartLvl \in Nat
      BY <1>1, <1>2
    <3> QED BY <3>1
  <2> QED BY <2>1
<1>6. \A i \in Nat : StartLvl + i \notin U(i)
  BY <1>1
<1> HIDE DEF U
<1>7. Fine(0)
  <2>1. Reads(0) = {} /\ Written(0) = {}
    BY <1>4
  <2>2. Cardinality(U(0)) = 0
    BY <1>4, FS_EmptySet
  <2>3. Grows(r, b, f[0], b, Reads(0), Written(0))
    <3>1. Grows(r, b, f[0], b, {}, {})
      BY <1>0, GrowsNot
    <3> HIDE DEF Reads, Written
    <3> QED BY <1>0, <2>1, <3>1
  <2> HIDE DEF Reads, Written
  <2>4. Good(0, b, c)
    <3>1. Carries(r, b, c, f[0], b, c, s, job)
      BY <1>0 DEF Carries
    <3> QED BY <1>0, <1>1, <2>2, <2>3, <3>1
  <2> QED BY <2>4
<1>8. ASSUME NEW i \in 0 .. WayLvls, Fine(i) PROVE Fine(i + 1)
  <2> DEFINE l == StartLvl + i
             t == f[i]
  <2>1. PICK d, e : Good(i, d, e)
    BY <1>8
  <2>2. i \in Nat /\ WayLvls \in Nat /\ l \in Nat
    BY <1>1
  <2>3. CASE l \notin E
    <3>1. U(i + 1) = U(i) /\ f[i + 1] = f[i]
      BY <1>0, <1>5, <2>2, <2>3
    <3>2. Good(i + 1, d, e)
      BY <2>1, <3>1
    <3> QED BY <3>2
  <2>4. CASE l \in E
    <3> DEFINE u == Enter(t, line[l], reads[l])
    <3>1. f[i + 1] = u
      BY <1>0, <2>4
    <3>2. U(i + 1) = U(i) \cup {l} /\ l \notin U(i) /\ \A k \in U(i) : k \in E /\ k # l
      <4>1. U(i + 1) = U(i) \cup {l} /\ l \notin U(i)
        BY <1>5, <1>6, <2>2, <2>4
      <4>2. U(i) \subseteq E
        BY <1>3
      <4> HIDE DEF l
      <4> QED BY <4>1, <4>2
    <3>3. Cardinality(U(i + 1)) = Cardinality(U(i)) + 1
      BY <1>3, <3>2, FS_AddElement
    <3>4. Cardinality(U(i + 1)) <= Cardinality(E)
      BY <1>2, <1>3, FS_Subset
    <3>5. /\ Reads(i + 1) = Reads(i) \cup reads[l] /\ Written(i + 1) = Written(i) \cup nodes[l]
          /\ Reads(i) \cap reads[l] = {}
      BY <1>0, <2>4, <3>2
    <3>6. Written(i) = {} \/ reads[l] = {}
      BY <1>0, <1>3, <2>4
    <3> HIDE DEF Reads, Written, u, t, l
    <3>7. /\ d \in Nat /\ e \in Nat /\ Well(t, d, e, q, s, job) /\ e <= c
          /\ e - d = c - b - Cardinality(U(i)) /\ Grows(r, b, t, d, Reads(i), Written(i))
      BY <2>1 DEF t
    <3>8. d < e
      BY <1>1, <1>2, <1>3, <3>3, <3>4, <3>7
    <3>9. t \in Station /\ Ring(t, d, e)
      BY <3>7 DEF Well, Whole
    <3>10. /\ line[l] \in RsLine /\ line[l].type # "init" /\ WritesOwn(line[l], job)
           /\ reads[l] \in SUBSET Address /\ reads[l] \subseteq F
           /\ \A a \in reads[l] : Unwritten(r, b, a[1])
           /\ \A n : Fills(line[l], n) <=> n \in nodes[l]
      <4>1. Fits(r, b, job, line[l], reads[l], nodes[l], F)
        BY <1>10, <2>4
      <4> QED BY <4>1 DEF Fits
    <3>11. ASSUME NEW a \in reads[l] PROVE t.mshr_array[a] = <<>> /\ Unwritten(t, d, a[1])
      <4>1. Written(i) = {}
        BY <3>6
      <4>2. Unwritten(t, d, a[1])
        BY <3>7, <3>10, <4>1 DEF Grows
      <4>3. \A x \in Address \cap reads[l] : x \in F \ Reads(i) \/ x[1] \in Written(i)
        BY <3>5, <3>10
      <4>4. Safe(t, d, reads[l])
        BY <1>0, <3>7, <4>3 DEF Grows
      <4>5. a \in Address \cap reads[l]
        BY <3>10
      <4> QED BY <3>9, <4>2, <4>4, <4>5, SafeUnread
    <3>12. PICK x, y \in Nat : /\ Well(u, x, y, q, s, job) /\ y - x = e - d - 1 /\ y <= e
                               /\ Grows(t, d, u, x, reads[l], nodes[l])
                               /\ Carries(t, d, e, u, x, y, s, job)
      <4> DEFINE ln == line[l]
                 rd == reads[l]
                 nd == nodes[l]
      <4>1. /\ ln \in RsLine /\ ln.type # "init" /\ WritesOwn(ln, job) /\ rd \in SUBSET Address
            /\ \A n : Fills(ln, n) <=> n \in nd
            /\ \A a \in rd : t.mshr_array[a] = <<>> /\ Unwritten(t, d, a[1])
        BY <3>10, <3>11
      <4> HIDE DEF ln, rd, nd
      <4>2. \E x, y \in Nat : /\ Well(Enter(t, ln, rd), x, y, q, s, job) /\ y - x = e - d - 1 /\ y <= e
                              /\ Grows(t, d, Enter(t, ln, rd), x, rd, nd)
                              /\ Carries(t, d, e, Enter(t, ln, rd), x, y, s, job)
        BY <3>7, <3>8, <4>1, EnterWell
      <4> QED BY <4>2 DEF ln, rd, nd, u
    <3>13. Ring(u, x, y)
      BY <3>12 DEF Well, Whole
    <3>14. Grows(r, b, u, x, Reads(i) \cup reads[l], Written(i) \cup nodes[l])
      BY <1>1, <3>6, <3>7, <3>9, <3>12, GrowsTransitive
    <3>15. y - x = c - b - Cardinality(U(i + 1)) /\ y <= c
      <4> DEFINE m == Cardinality(U(i))
                 n == Cardinality(U(i + 1))
      <4>1. m \in Nat /\ n = m + 1
        BY <1>3, <3>3
      <4>2. e - d = c - b - m
        BY <3>7
      <4>3. y - x = e - d - 1 /\ y <= e /\ e <= c /\ d \in Nat /\ e \in Nat /\ x \in Nat /\ y \in Nat
        BY <3>7, <3>12
      <4> HIDE DEF m
      <4>4. y - x = c - b - n
        <5> HIDE DEF n
        <5> QED BY <1>1, <4>1, <4>2, <4>3
      <4> QED BY <1>1, <4>3, <4>4
    <3>17. Carries(r, b, c, u, x, y, s, job)
      <4>1. Carries(r, b, c, t, d, e, s, job)
        BY <2>1 DEF t
      <4> QED BY <3>12, <4>1 DEF Carries
    <3>16. Good(i + 1, x, y)
      BY <3>1, <3>5, <3>12, <3>14, <3>15, <3>17
    <3> QED BY <3>16
  <2> QED BY <2>3, <2>4
<1>9. Fine(WayLvls + 1)
  <2> DEFINE D == {i \in 0 .. WayLvls + 1 : ~Fine(i)}
  <2> HIDE DEF Fine
  <2>1. D = {}
    <3> SUFFICES ASSUME D # {} PROVE FALSE
      OBVIOUS
    <3>1. D \in SUBSET Nat
      OBVIOUS
    <3>2. PICK i \in D : \A m \in D : i <= m
      <4> HIDE DEF D
      <4> QED BY <3>1, NatLeast
    <3>3. i \in 0 .. WayLvls + 1 /\ i # 0 /\ ~Fine(i)
      BY <1>7, <3>2
    <3>4. i - 1 \in 0 .. WayLvls /\ i - 1 < i /\ (i - 1) + 1 = i
      BY <1>1, <3>3
    <3>5. i - 1 \in 0 .. WayLvls + 1
      BY <1>1, <3>4
    <3>6. Fine(i - 1)
      BY <3>2, <3>4, <3>5
    <3>7. Fine((i - 1) + 1)
      BY <1>8, <3>4, <3>6
    <3> QED BY <3>3, <3>4, <3>7
  <2> QED BY <1>1, <2>1
<1>11. Reads(WayLvls + 1) = R /\ Written(WayLvls + 1) = M
  <2>1. \A a : a \in R <=> \E l \in E : a \in reads[l]
    BY DEF Enters
  <2>2. \A n : n \in M <=> \E l \in E : n \in nodes[l]
    BY DEF Enters
  <2> QED BY <1>4, <2>1, <2>2
<1>12. Cardinality(U(WayLvls + 1)) = Cardinality(E)
  BY <1>4
<1> HIDE DEF Reads, Written
<1> QED BY <1>9, <1>11, <1>12

\* What the two loops of the reshuffles come to.
LEMMA EarlyPullsSteps ==
  ASSUME unread \in [Nodes -> SUBSET Offsets], NEW r \in Station, NEW leaf \in Leaves
  PROVE  \E f : /\ EarlyPulls(r, leaf) = f[WayLvls + 1] /\ f[0] = r
                /\ \A i \in 0 .. WayLvls :
                     f[i + 1] = IF StartLvl + i \in EarlyLvls(leaf)
                                  THEN EarlyPull(f[i], StartLvl + i, P(leaf, StartLvl + i)) ELSE f[i]
<1> DEFINE E == EarlyLvls(leaf)
           Do(t, i) == IF StartLvl + i \in E THEN EarlyPull(t, StartLvl + i, P(leaf, StartLvl + i))
                      ELSE t
           step == [i \in Nat |-> [t \in Station |-> Do(t, i)]]
<1>1. ASSUME NEW t \in Station, NEW i \in Nat PROVE Do(t, i) \in Station
  <2>1. CASE StartLvl + i \in E
    <3>1. StartLvl + i \in Lvls
      BY <2>1, TreeSizes, Sizes DEF EarlyLvls, SetLvls, Lvls
    <3> DEFINE n == P(leaf, StartLvl + i)
               lvl == StartLvl + i
    <3>2. n \in Nodes
      BY <3>1, PathLevel
    <3> HIDE DEF n, lvl
    <3>3. Line("early-pull", NoLeaf, n) \in RsLine
      BY <3>2, LineTypes
    <3>4. EarlyReads(lvl, n) \in SUBSET Address
      BY <3>2 DEF EarlyReads, Address
    <3>5. EarlyPull(t, lvl, n) \in Station
      BY <3>3, <3>4, EnterInStation DEF EarlyPull
    <3> QED BY <2>1, <3>5 DEF n, lvl
  <2> QED BY <2>1
<1> HIDE DEF Do
<1>2. step \in [Nat -> [Station -> Station]]
  BY <1>1
<1>3. PICK f \in [Nat -> Station] :
        \A n \in Nat : f[n] = IF n = 0 THEN r ELSE step[n - 1][f[n - 1]]
  <2> DEFINE V == Station
             e == r
             st == step
  <2>1. e \in V /\ st \in [Nat -> [V -> V]]
    BY <1>2
  <2> HIDE DEF V, e, st
  <2>2. \E f \in [Nat -> V] : \A n \in Nat : f[n] = IF n = 0 THEN e ELSE st[n - 1][f[n - 1]]
    BY <2>1, Recursion
  <2> QED BY <2>2 DEF V, e, st
<1> DEFINE Body(g, i) == IF i = 0 THEN r
                         ELSE IF StartLvl + i - 1 \in E
                           THEN EarlyPull(g[i - 1], StartLvl + i - 1, P(leaf, StartLvl + i - 1))
                           ELSE g[i - 1]
<1>4. ASSUME NEW i \in Nat, NEW g, i # 0 PROVE Body(g, i) = Do(g[i - 1], i - 1)
  <2>1. StartLvl + i - 1 = StartLvl + (i - 1)
    BY Sizes
  <2> HIDE DEF E
  <2> QED BY <1>4, <2>1 DEF Do
<1>5. ASSUME NEW i \in Nat PROVE f[i] = Body(f, i)
  <2>1. CASE i # 0
    <3>1. i - 1 \in Nat /\ f[i - 1] \in Station
      BY <2>1
    <3>2. step[i - 1][f[i - 1]] = Do(f[i - 1], i - 1)
      BY <3>1
    <3> HIDE DEF step, Body
    <3> QED BY <1>3, <1>4, <2>1, <3>2
  <2>2. CASE i = 0
    BY <1>3, <2>2
  <2> QED BY <2>1, <2>2
<1> DEFINE all == CHOOSE g : g = [i \in Nat |-> Body(g, i)]
<1>6. all = [i \in Nat |-> Body(all, i)]
  <2>1. f = [i \in Nat |-> Body(f, i)]
    <3> HIDE DEF Body
    <3> QED BY <1>5
  <2> HIDE DEF Body
  <2> QED BY <2>1
<1>7. EarlyPulls(r, leaf) = all[WayLvls + 1]
  BY DEF EarlyPulls
<1> HIDE DEF all
<1>8. all[0] = r
  <2>1. all[0] = Body(all, 0)
    <3> HIDE DEF Body
    <3> QED BY <1>6
  <2> QED BY <2>1
<1>9. ASSUME NEW i \in 0 .. WayLvls PROVE all[i + 1] = Do(all[i], i)
  <2>1. i + 1 \in Nat /\ i + 1 # 0 /\ (i + 1) - 1 = i
    OBVIOUS
  <2>2. all[i + 1] = Body(all, i + 1)
    <3> HIDE DEF Body
    <3> QED BY <1>6, <2>1
  <2>3. Body(all, i + 1) = Do(all[(i + 1) - 1], (i + 1) - 1)
    <3> HIDE DEF Body
    <3> QED BY <1>4, <2>1
  <2> QED BY <2>1, <2>2, <2>3
<1> QED BY <1>7, <1>8, <1>9 DEF Do

LEMMA EarlyPushesSteps ==
  ASSUME NEW r \in Station, NEW leaf \in Leaves
  PROVE  \E f : /\ EarlyPushes(r, leaf) = f[WayLvls + 1] /\ f[0] = r
                /\ \A i \in 0 .. WayLvls :
                     f[i + 1] = IF StartLvl + i \in EarlyLvls(leaf)
                                  THEN EarlyPush(f[i], P(leaf, StartLvl + i)) ELSE f[i]
<1> DEFINE E == EarlyLvls(leaf)
           Do(t, i) == IF StartLvl + i \in E THEN EarlyPush(t, P(leaf, StartLvl + i)) ELSE t
           step == [i \in Nat |-> [t \in Station |-> Do(t, i)]]
<1>1. ASSUME NEW t \in Station, NEW i \in Nat PROVE Do(t, i) \in Station
  <2>1. CASE StartLvl + i \in E
    <3>1. StartLvl + i \in Lvls
      BY <2>1, TreeSizes, Sizes DEF EarlyLvls, SetLvls, Lvls
    <3> DEFINE n == P(leaf, StartLvl + i)
    <3>2. n \in Nodes
      BY <3>1, PathLevel
    <3> HIDE DEF n
    <3>3. Line("early-push", NoLeaf, n) \in RsLine
      BY <3>2, LineTypes
    <3>4. EarlyPush(t, n) \in Station
      BY <3>3, EnterInStation DEF EarlyPush
    <3> QED BY <2>1, <3>4 DEF n
  <2> QED BY <2>1
<1> HIDE DEF Do
<1>2. step \in [Nat -> [Station -> Station]]
  BY <1>1
<1>3. PICK f \in [Nat -> Station] :
        \A n \in Nat : f[n] = IF n = 0 THEN r ELSE step[n - 1][f[n - 1]]
  <2> DEFINE V == Station
             e == r
             st == step
  <2>1. e \in V /\ st \in [Nat -> [V -> V]]
    BY <1>2
  <2> HIDE DEF V, e, st
  <2>2. \E f \in [Nat -> V] : \A n \in Nat : f[n] = IF n = 0 THEN e ELSE st[n - 1][f[n - 1]]
    BY <2>1, Recursion
  <2> QED BY <2>2 DEF V, e, st
<1> DEFINE Body(g, i) == IF i = 0 THEN r
                         ELSE IF StartLvl + i - 1 \in E
                           THEN EarlyPush(g[i - 1], P(leaf, StartLvl + i - 1)) ELSE g[i - 1]
<1>4. ASSUME NEW i \in Nat, NEW g, i # 0 PROVE Body(g, i) = Do(g[i - 1], i - 1)
  <2>1. StartLvl + i - 1 = StartLvl + (i - 1)
    BY Sizes
  <2> HIDE DEF E
  <2> QED BY <1>4, <2>1 DEF Do
<1>5. ASSUME NEW i \in Nat PROVE f[i] = Body(f, i)
  <2>1. CASE i # 0
    <3>1. i - 1 \in Nat /\ f[i - 1] \in Station
      BY <2>1
    <3>2. step[i - 1][f[i - 1]] = Do(f[i - 1], i - 1)
      BY <3>1
    <3> HIDE DEF step, Body
    <3> QED BY <1>3, <1>4, <2>1, <3>2
  <2>2. CASE i = 0
    BY <1>3, <2>2
  <2> QED BY <2>1, <2>2
<1> DEFINE all == CHOOSE g : g = [i \in Nat |-> Body(g, i)]
<1>6. all = [i \in Nat |-> Body(all, i)]
  <2>1. f = [i \in Nat |-> Body(f, i)]
    <3> HIDE DEF Body
    <3> QED BY <1>5
  <2> HIDE DEF Body
  <2> QED BY <2>1
<1>7. EarlyPushes(r, leaf) = all[WayLvls + 1]
  BY DEF EarlyPushes
<1> HIDE DEF all
<1>8. all[0] = r
  <2>1. all[0] = Body(all, 0)
    <3> HIDE DEF Body
    <3> QED BY <1>6
  <2> QED BY <2>1
<1>9. ASSUME NEW i \in 0 .. WayLvls PROVE all[i + 1] = Do(all[i], i)
  <2>1. i + 1 \in Nat /\ i + 1 # 0 /\ (i + 1) - 1 = i
    OBVIOUS
  <2>2. all[i + 1] = Body(all, i + 1)
    <3> HIDE DEF Body
    <3> QED BY <1>6, <2>1
  <2>3. Body(all, i + 1) = Do(all[(i + 1) - 1], (i + 1) - 1)
    <3> HIDE DEF Body
    <3> QED BY <1>4, <2>1
  <2> QED BY <2>1, <2>2, <2>3
<1> QED BY <1>7, <1>8, <1>9 DEF Do

\* The buckets of a path that are reshuffled, and the slots read for it.
Early(leaf) == {P(leaf, lvl) : lvl \in EarlyLvls(leaf)}
ReshuffleReads(leaf) ==
  {a \in Address : \E lvl \in EarlyLvls(leaf) : a \in EarlyReads(lvl, P(leaf, lvl))}

\* A step that reshuffles buckets: their lines enter the ring, all that read before
\* all that write.
LEMMA ReshuffleWell ==
  ASSUME unread \in [Nodes -> SUBSET Offsets], NEW r, NEW b, NEW c, NEW q, NEW s, NEW job,
         Well(r, b, c, q, s, job), NEW set \in Sets, job.set = set, job.step = 2,
         NEW leaf \in LeavesOf(set), c - b = 2 * Cardinality(EarlyLvls(leaf)),
         \A m \in SetPath(leaf) : Unwritten(r, b, m),
         NEW F, Safe(r, b, F), \A a \in Address : a[2] \in unread[a[1]] => a \in F
  PROVE  LET t == EarlyPushes(EarlyPulls(r, leaf), leaf)
         IN  \E d \in Nat :
               /\ Well(t, d, d, q, s, job) /\ d <= c
               /\ Grows(r, b, t, d, ReshuffleReads(leaf), Early(leaf))
               /\ Carries(r, b, c, t, d, d, s, job)
<1> DEFINE E == EarlyLvls(leaf)
           n == Cardinality(E)
           early == {P(leaf, lvl) : lvl \in E}
           reads == {a \in Address : \E l \in E : a \in EarlyReads(l, P(leaf, l))}
           u == EarlyPulls(r, leaf)
           t == EarlyPushes(u, leaf)
<1>1. /\ r \in Station /\ b \in Nat /\ c \in Nat /\ Ring(r, b, c)
      /\ leaf \in Leaves
  BY LeavesOfSet DEF Well, Whole, Ring
<1>2. E \in SUBSET SetLvls /\ n \in Nat /\ c - b = 2 * n
  <2>1. E \in SUBSET SetLvls
    BY DEF EarlyLvls
  <2>2. IsFiniteSet(SetLvls)
    <3>1. StartLvl \in Int /\ num_of_lvls - 1 \in Int
      BY TreeSizes, Sizes
    <3> QED BY <3>1, FS_Interval DEF SetLvls
  <2>3. IsFiniteSet(E)
    BY <2>1, <2>2, FS_Subset
  <2> HIDE DEF E
  <2> QED BY <2>1, <2>3, FS_CardinalityType DEF E
<1>3. \A l \in E : P(leaf, l) \in Nodes /\ P(leaf, l) \in SetPath(leaf) /\ P(leaf, l) \in SetNodes(set)
  <2>1. \A l \in E : l \in Lvls /\ l \in SetLvls
    BY <1>2, TreeSizes, Sizes DEF SetLvls, Lvls
  <2> HIDE DEF E
  <2> QED BY <1>1, <2>1, PathLevel DEF SetPath, SetNodes
<1>4. \A j, k \in E : P(leaf, j) = P(leaf, k) => j = k
  <2> HIDE DEF E
  <2> QED BY <1>1, <1>2, LevelsDiffer
<1> HIDE DEF E
\* First the lines that read.
<1>5. \E d, e \in Nat : /\ Well(u, d, e, q, s, job) /\ e - d = c - b - n /\ e <= c
                        /\ Grows(r, b, u, d, reads, {})
                        /\ Carries(r, b, c, u, d, e, s, job)
  <2> DEFINE line == [l \in E |-> Line("early-pull", NoLeaf, P(leaf, l))]
             rd == [l \in E |-> EarlyReads(l, P(leaf, l))]
             nd == [l \in E |-> {}]
  <2>1. PICK f : /\ u = f[WayLvls + 1] /\ f[0] = r
                 /\ \A i \in 0 .. WayLvls :
                      f[i + 1] = IF StartLvl + i \in E
                                   THEN EarlyPull(f[i], StartLvl + i, P(leaf, StartLvl + i)) ELSE f[i]
    BY <1>1, EarlyPullsSteps DEF E
  <2>2. \A i \in 0 .. WayLvls :
          f[i + 1] = IF StartLvl + i \in E
                       THEN Enter(f[i], line[StartLvl + i], rd[StartLvl + i]) ELSE f[i]
    BY <2>1 DEF EarlyPull
  <2>3. ASSUME NEW l \in E
        PROVE  Fits(r, b, job, line[l], rd[l], nd[l], F)
    <3>1. line[l] \in RsLine
      BY <1>3, LineTypes
    <3>2. line[l].type = "early-pull"
      BY DEF Line
    <3>3. rd[l] \in SUBSET Address
      BY <1>3 DEF EarlyReads, Address
    <3>4. \A a \in rd[l] : a \in Address /\ a[1] = P(leaf, l) /\ a[2] \in unread[a[1]]
      BY <3>3 DEF EarlyReads
    <3>5. nd[l] = {}
      OBVIOUS
    <3> HIDE DEF line, rd, nd
    <3> QED BY <1>3, <3>1, <3>2, <3>3, <3>4, <3>5 DEF Fits, WritesOwn, Fills, IsWrite
  <2>4. \A j, k \in E : j # k => rd[j] \cap rd[k] = {}
    <3>1. \A l \in E : \A a \in rd[l] : a[1] = P(leaf, l)
      BY DEF EarlyReads
    <3> HIDE DEF rd
    <3> QED BY <1>4, <3>1
  <2>5. \A a : a \in reads <=> \E l \in E : a \in rd[l]
    <3>1. \A l \in E : rd[l] \subseteq Address /\ rd[l] = EarlyReads(l, P(leaf, l))
      BY <1>3 DEF EarlyReads, Address
    <3> HIDE DEF rd
    <3> QED BY <3>1
  <2>6. \A l \in E : nd[l] = {}
    OBVIOUS
  <2>7. E \in SUBSET SetLvls /\ Cardinality(E) <= c - b
    BY <1>2
  <2> HIDE DEF line, rd, nd, reads, u
  <2>8. Enters(r, b, job, E, f, line, rd, nd, F, reads, {})
    BY <2>1, <2>2, <2>3, <2>4, <2>5, <2>6 DEF Enters
  <2>9. \E d, e \in Nat : /\ Well(f[WayLvls + 1], d, e, q, s, job)
                          /\ e - d = c - b - Cardinality(E) /\ e <= c
                          /\ Grows(r, b, f[WayLvls + 1], d, reads, {})
                          /\ Carries(r, b, c, f[WayLvls + 1], d, e, s, job)
    BY <2>7, <2>8, EntersWell
  <2> QED BY <2>1, <2>9
<1>6. PICK d, e \in Nat : /\ Well(u, d, e, q, s, job) /\ e - d = c - b - n /\ e <= c
                          /\ Grows(r, b, u, d, reads, {})
                          /\ Carries(r, b, c, u, d, e, s, job)
  BY <1>5
<1>7. u \in Station /\ Ring(u, d, e) /\ e - d = n
  BY <1>1, <1>2, <1>6 DEF Well, Whole
\* Then the lines that write.
<1>8. \E x, y \in Nat : /\ Well(t, x, y, q, s, job) /\ y - x = e - d - n /\ y <= e
                        /\ Grows(u, d, t, x, {}, early)
                        /\ Carries(u, d, e, t, x, y, s, job)
  <2> DEFINE line == [l \in E |-> Line("early-push", NoLeaf, P(leaf, l))]
             rd == [l \in E |-> {}]
             nd == [l \in E |-> {P(leaf, l)}]
  <2> HIDE DEF u
  <2>1. PICK f : /\ t = f[WayLvls + 1] /\ f[0] = u
                 /\ \A i \in 0 .. WayLvls :
                      f[i + 1] = IF StartLvl + i \in E
                                   THEN EarlyPush(f[i], P(leaf, StartLvl + i)) ELSE f[i]
    BY <1>1, <1>7, EarlyPushesSteps DEF E
  <2>2. \A i \in 0 .. WayLvls :
          f[i + 1] = IF StartLvl + i \in E
                       THEN Enter(f[i], line[StartLvl + i], rd[StartLvl + i]) ELSE f[i]
    BY <2>1 DEF EarlyPush
  <2>3. ASSUME NEW l \in E
        PROVE  Fits(u, d, job, line[l], rd[l], nd[l], {})
    <3>1. line[l] \in RsLine
      BY <1>3, LineTypes
    <3>2. line[l].type = "early-push" /\ line[l].node = P(leaf, l) /\ line[l].leaf = NoLeaf
      BY DEF Line
    <3>3. rd[l] = {} /\ nd[l] = {P(leaf, l)}
      OBVIOUS
    <3> HIDE DEF line, rd, nd
    <3>4. WritesOwn(line[l], job)
      BY <1>3, <3>2 DEF WritesOwn
    <3>5. \A m : Fills(line[l], m) <=> m \in nd[l]
      BY <3>2, <3>3 DEF Fills, IsWrite
    <3> QED BY <3>1, <3>2, <3>3, <3>4, <3>5 DEF Fits
  <2>4. \A j, k \in E : j # k => rd[j] \cap rd[k] = {}
    OBVIOUS
  <2>5. \A m : m \in early <=> \E l \in E : m \in nd[l]
    OBVIOUS
  <2>6. \A l \in E : rd[l] = {}
    OBVIOUS
  <2>7. E \in SUBSET SetLvls /\ Cardinality(E) <= e - d
    BY <1>2, <1>7
  <2>8. Safe(u, d, {})
    BY DEF Safe
  <2> HIDE DEF line, rd, nd, early, t
  <2>9. Enters(u, d, job, E, f, line, rd, nd, {}, {}, early)
    BY <2>1, <2>2, <2>3, <2>4, <2>5, <2>6, <2>8 DEF Enters
  <2>10. Well(u, d, e, q, s, job)
    BY <1>6
  <2>11. \E x, y \in Nat : /\ Well(f[WayLvls + 1], x, y, q, s, job)
                           /\ y - x = e - d - Cardinality(E) /\ y <= e
                           /\ Grows(u, d, f[WayLvls + 1], x, {}, early)
                           /\ Carries(u, d, e, f[WayLvls + 1], x, y, s, job)
    BY <2>7, <2>9, <2>10, EntersWell
  <2> QED BY <2>1, <2>11
<1>9. PICK x, y \in Nat : /\ Well(t, x, y, q, s, job) /\ y - x = e - d - n /\ y <= e
                          /\ Grows(u, d, t, x, {}, early)
                          /\ Carries(u, d, e, t, x, y, s, job)
  BY <1>8
<1>10. y = x /\ x <= c
  <2>1. y - x = e - d - n /\ y <= e /\ e <= c /\ e - d = n /\ n \in Nat
    BY <1>2, <1>6, <1>7, <1>9
  <2> HIDE DEF n
  <2> QED BY <1>1, <2>1
<1>11. Grows(r, b, t, x, reads, early)
  <2> HIDE DEF reads, early, t, u
  <2>1. Grows(r, b, t, x, reads \cup {}, {} \cup early)
    BY <1>1, <1>6, <1>7, <1>9, GrowsTransitive
  <2>2. reads \cup {} = reads /\ {} \cup early = early
    OBVIOUS
  <2> QED BY <2>1, <2>2
<1>12. early = Early(leaf) /\ reads = ReshuffleReads(leaf)
  BY DEF E, Early, ReshuffleReads
<1>13. Carries(r, b, c, t, x, x, s, job)
  BY <1>6, <1>9, <1>10 DEF Carries
<1> HIDE DEF reads, early
<1> QED BY <1>9, <1>10, <1>11, <1>12, <1>13
-----------------------------------------------------------------------------
(***************************************************************************)
(* Steps that register no line.                                            *)
(***************************************************************************)
SameLines(r, t) ==
  /\ t \in Station
  /\ t.vec = r.vec /\ t.head = r.head /\ t.tail = r.tail /\ t.mshr_array = r.mshr_array
  /\ t.task_map = r.task_map /\ t.cnt = r.cnt /\ t.job = r.job

LEMMA SameLinesHold ==
  ASSUME NEW r, NEW t, SameLines(r, t), NEW b, NEW q, NEW p, Whole(r, b, b, q), HeadWaits(r, b),
         Jobs(t, b, p)
  PROVE  /\ Whole(t, b, b, p) /\ HeadWaits(t, b)
         /\ \A F : Safe(r, b, F) => Safe(t, b, F)
         /\ \A n : Unwritten(r, b, n) => Unwritten(t, b, n)
<1>1. /\ t.vec = r.vec /\ t.head = r.head /\ t.tail = r.tail /\ t.mshr_array = r.mshr_array
      /\ t.task_map = r.task_map /\ t.cnt = r.cnt /\ t.job = r.job
  BY DEF SameLines
<1>2. Ring(r, b, b) /\ Counted(r, b) /\ Steps(r, b) /\ Owned(r, b) /\ Follow(r, b)
  BY DEF Whole
<1>3. \A l : Old(t, l) = Old(r, l) /\ Awaited(t, l) = Awaited(r, l)
  BY <1>1 DEF Old, Awaited
<1>4. \A s : Held(t, b, s) = Held(r, b, s)
  BY <1>1, <1>3 DEF Held
<1>5. \A w, n : WritesTo(t, b, w, n) <=> WritesTo(r, b, w, n)
  BY <1>1, <1>3 DEF WritesTo
<1>6. Ring(t, b, b) /\ Counted(t, b)
  BY <1>1, <1>2, <1>3 DEF Ring, Counted
<1>7. Steps(t, b)
  BY <1>1, <1>2, <1>3, <1>4 DEF Steps
<1>8. Owned(t, b)
  BY <1>1, <1>2, <1>3 DEF Owned
<1>9. Follow(t, b)
  BY <1>1, <1>2, <1>3, <1>5 DEF Follow
<1>10. HeadWaits(t, b)
  BY <1>1 DEF HeadWaits
<1>11. \A F : Safe(r, b, F) => Safe(t, b, F)
  BY <1>1, <1>3, <1>5 DEF Safe
<1>12. \A n : Unwritten(r, b, n) => Unwritten(t, b, n)
  BY <1>5 DEF Unwritten
<1> QED BY <1>6, <1>7, <1>8, <1>9, <1>10, <1>11, <1>12 DEF Whole

LEMMA SameLinesQueue ==
  ASSUME NEW r \in Station, NEW t, SameLines(r, t), NEW b \in Nat, b <= N
  PROVE  Queue(t)[b] = Queue(r)[b]
<1>1. t \in Station /\ t.head = r.head /\ t.task_map = r.task_map /\ t.job = r.job
  BY DEF SameLines
<1> QED BY <1>1, QueueFrame

LEMMA SameLinesRegistered ==
  ASSUME NEW r, NEW b, NEW t \in Station, NEW d \in Nat, d <= N, NEW job, Registered(r, b, t, d, job),
         NEW u, SameLines(t, u), u.ready_to_pop = t.ready_to_pop
  PROVE  Registered(r, b, u, d, job)
<1>1. Queue(u)[d] = Queue(t)[d]
  BY SameLinesQueue
<1> QED BY <1>1 DEF Registered

\* Only the answers change, or the path the forwarding check is given.
LEMMA AnswersFields ==
  ASSUME NEW r \in Station, NEW a \in Seq(Job)
  PROVE  LET t == [r EXCEPT !.ready_to_pop = a] IN SameLines(r, t) /\ t.ready_to_pop = a
<1> DEFINE t == [r EXCEPT !.ready_to_pop = a]
<1>1. /\ t.vec = r.vec /\ t.head = r.head /\ t.tail = r.tail /\ t.mshr_array = r.mshr_array
      /\ t.task_map = r.task_map /\ t.cnt = r.cnt /\ t.job = r.job /\ t.ready_to_pop = a
  BY DEF Station
<1>2. t \in Station
  BY DEF Station
<1> QED BY <1>1, <1>2 DEF SameLines

LEMMA NodeFields ==
  ASSUME NEW r \in Station, NEW leaf \in Leaves
  PROVE  LET t == [r EXCEPT !.node_id_vec = leaf] IN
         SameLines(r, t) /\ t.ready_to_pop = r.ready_to_pop
<1> DEFINE t == [r EXCEPT !.node_id_vec = leaf]
<1>1. /\ t.vec = r.vec /\ t.head = r.head /\ t.tail = r.tail /\ t.mshr_array = r.mshr_array
      /\ t.task_map = r.task_map /\ t.cnt = r.cnt /\ t.job = r.job
      /\ t.ready_to_pop = r.ready_to_pop
  BY DEF Station
<1>2. t \in Station
  BY DEF Station
<1> QED BY <1>1, <1>2 DEF SameLines

LEMMA NodeJobs ==
  ASSUME NEW r, NEW t, SameLines(r, t), t.ready_to_pop = r.ready_to_pop, NEW b, NEW q, Jobs(r, b, q)
  PROVE  Jobs(t, b, q)
<1>1. /\ t.head = r.head /\ t.task_map = r.task_map /\ t.job = r.job
      /\ t.ready_to_pop = r.ready_to_pop
  BY DEF SameLines
<1>2. \A l : Old(t, l) = Old(r, l)
  BY <1>1 DEF Old
<1> QED BY <1>1, <1>2 DEF Jobs

\* A step without lines is answered at once.
LEMMA AppendJobs ==
  ASSUME NEW r \in Station, NEW b, NEW q \in [Sets -> Places], Jobs(r, b, q), NEW job \in Job,
         q[job.set] \in Idle, NEW t, SameLines(r, t), t.ready_to_pop = Append(r.ready_to_pop, job)
  PROVE  Jobs(t, b, [q EXCEPT ![job.set] = Due(job)])
<1> DEFINE p == [q EXCEPT ![job.set] = Due(job)]
           n == Len(r.ready_to_pop)
           J(k) == r.job[r.task_map[k]]
<1>1. job.set \in Sets
  BY DEF Job
<1>2. /\ Jobs(r, b, p)
      /\ \A k \in LineIds : Old(r, k) < b /\ Awaits(J(k)) => J(k).set # job.set
      /\ \A i \in DOMAIN r.ready_to_pop : Awaits(r.ready_to_pop[i])
           => r.ready_to_pop[i].set # job.set
  BY <1>1, JobsMove
<1>3. p[job.set] = Due(job)
  BY <1>1
<1>4. r.ready_to_pop \in Seq(Job) /\ n \in Nat /\ DOMAIN r.ready_to_pop = 1 .. n
  BY StationFields
<1>5. DOMAIN t.ready_to_pop = 1 .. n + 1
  BY <1>4
<1>6. ASSUME NEW i \in 1 .. n + 1
      PROVE  \/ i \in 1 .. n /\ t.ready_to_pop[i] = r.ready_to_pop[i]
             \/ i = n + 1 /\ t.ready_to_pop[i] = job
  <2>1. CASE i \in 1 .. n
    BY <1>4, <2>1
  <2>2. CASE i = n + 1
    BY <1>4, <2>2
  <2> QED BY <1>4, <2>1, <2>2
<1>7. \A k \in LineIds : Old(t, k) = Old(r, k) /\ t.job[t.task_map[k]] = J(k)
  BY DEF SameLines, Old
<1> HIDE DEF p, n, J
<1>8. ASSUME NEW i \in 1 .. n + 1, Awaits(t.ready_to_pop[i])
      PROVE  p[t.ready_to_pop[i].set] = Due(t.ready_to_pop[i])
  BY <1>2, <1>3, <1>4, <1>6, <1>8 DEF Jobs
<1>9. ASSUME NEW i \in 1 .. n + 1, NEW j \in 1 .. n + 1, i # j,
             Awaits(t.ready_to_pop[i]), Awaits(t.ready_to_pop[j])
      PROVE  t.ready_to_pop[i].set # t.ready_to_pop[j].set
  BY <1>2, <1>4, <1>6, <1>9 DEF Jobs
<1>10. ASSUME NEW k \in LineIds, NEW i \in 1 .. n + 1, Old(r, k) < b, Awaits(J(k)),
              Awaits(t.ready_to_pop[i])
       PROVE  J(k).set # t.ready_to_pop[i].set
  BY <1>2, <1>4, <1>6, <1>10 DEF Jobs, J
<1>11. /\ \A k \in LineIds : Old(r, k) < b /\ Awaits(J(k)) => p[J(k).set] = Due(J(k))
       /\ \A k, l \in LineIds : Old(r, k) < b /\ Old(r, l) < b /\ r.task_map[k] # r.task_map[l]
            /\ Awaits(J(k)) /\ Awaits(J(l)) => J(k).set # J(l).set
  BY <1>2 DEF Jobs, J
<1>12. t.task_map = r.task_map
  BY DEF SameLines
<1>20. \A k \in LineIds : Old(t, k) < b /\ Awaits(t.job[t.task_map[k]]) =>
         p[t.job[t.task_map[k]].set] = Due(t.job[t.task_map[k]])
  BY <1>7, <1>11
<1>21. \A k, l \in LineIds :
         /\ Old(t, k) < b /\ Old(t, l) < b /\ t.task_map[k] # t.task_map[l]
         /\ Awaits(t.job[t.task_map[k]]) /\ Awaits(t.job[t.task_map[l]])
         => t.job[t.task_map[k]].set # t.job[t.task_map[l]].set
  BY <1>7, <1>11, <1>12
<1>22. \A k \in LineIds : \A i \in 1 .. n + 1 :
         Old(t, k) < b /\ Awaits(t.job[t.task_map[k]]) /\ Awaits(t.ready_to_pop[i])
         => t.job[t.task_map[k]].set # t.ready_to_pop[i].set
  BY <1>7, <1>10
<1>13. Jobs(t, b, p)
  BY <1>5, <1>8, <1>9, <1>20, <1>21, <1>22 DEF Jobs
<1> QED BY <1>13 DEF p

\* The oldest answer is taken, and its task moves on if it awaited it.
LEMMA TailJobs ==
  ASSUME NEW r \in Station, NEW b, NEW q, Jobs(r, b, q), r.ready_to_pop # <<>>,
         NEW t, SameLines(r, t), t.ready_to_pop = Tail(r.ready_to_pop), NEW p,
         \A set \in Sets : ~Awaits(Head(r.ready_to_pop)) \/ set # Head(r.ready_to_pop).set
           => p[set] = q[set]
  PROVE  Jobs(t, b, p)
<1> DEFINE n == Len(r.ready_to_pop)
           job == Head(r.ready_to_pop)
           J(k) == r.job[r.task_map[k]]
<1>1. /\ r.ready_to_pop \in Seq(Job) /\ n \in Nat /\ n >= 1 /\ DOMAIN r.ready_to_pop = 1 .. n
      /\ job = r.ready_to_pop[1]
  BY StationFields
<1>2. DOMAIN t.ready_to_pop = 1 .. n - 1
  BY <1>1
<1>3. \A i \in 1 .. n - 1 : i + 1 \in 1 .. n /\ i + 1 # 1 /\ t.ready_to_pop[i] = r.ready_to_pop[i + 1]
  BY <1>1
<1>4. \A i \in 1 .. n : r.ready_to_pop[i].set \in Sets
  <2>1. \A i \in 1 .. n : r.ready_to_pop[i] \in Job
    BY <1>1
  <2> QED BY <2>1 DEF Job
<1>5. \A k \in LineIds : J(k).set \in Sets
  <2>1. \A k \in LineIds : J(k) \in Job
    BY StationFields
  <2> HIDE DEF J
  <2> QED BY <2>1 DEF Job
<1>6. \A k \in LineIds : Old(t, k) = Old(r, k) /\ t.job[t.task_map[k]] = J(k)
  BY DEF SameLines, Old
<1>7. \A set \in Sets : ~Awaits(job) \/ set # job.set => p[set] = q[set]
  OBVIOUS
<1> HIDE DEF n, job, J
<1>8. ASSUME NEW k \in LineIds, Old(r, k) < b, Awaits(J(k)) PROVE p[J(k).set] = Due(J(k))
  <2>1. q[J(k).set] = Due(J(k))
    BY <1>8 DEF Jobs, J
  <2>2. Awaits(job) => J(k).set # job.set
    <3>1. 1 \in DOMAIN r.ready_to_pop
      BY <1>1
    <3> QED BY <1>1, <1>8, <3>1 DEF Jobs, J
  <2> QED BY <1>5, <1>7, <2>1, <2>2
<1>9. ASSUME NEW i \in 1 .. n - 1, Awaits(t.ready_to_pop[i])
      PROVE  p[t.ready_to_pop[i].set] = Due(t.ready_to_pop[i])
  <2> DEFINE j == i + 1
             o == r.ready_to_pop[j]
  <2>1. j \in 1 .. n /\ j # 1 /\ t.ready_to_pop[i] = o /\ 1 \in 1 .. n
    BY <1>1, <1>3
  <2> HIDE DEF j
  <2>2. q[o.set] = Due(o)
    BY <1>1, <1>9, <2>1 DEF Jobs
  <2>3. Awaits(job) => o.set # job.set
    BY <1>1, <1>9, <2>1 DEF Jobs
  <2>4. o.set \in Sets
    BY <1>4, <2>1
  <2> QED BY <1>7, <2>1, <2>2, <2>3, <2>4
<1>10. ASSUME NEW i \in 1 .. n - 1, NEW j \in 1 .. n - 1, i # j,
              Awaits(t.ready_to_pop[i]), Awaits(t.ready_to_pop[j])
       PROVE  t.ready_to_pop[i].set # t.ready_to_pop[j].set
  <2>1. i + 1 # j + 1
    BY <1>10
  <2> QED BY <1>1, <1>3, <1>10, <2>1 DEF Jobs
<1>11. ASSUME NEW k \in LineIds, NEW i \in 1 .. n - 1, Old(r, k) < b, Awaits(J(k)),
              Awaits(t.ready_to_pop[i])
       PROVE  J(k).set # t.ready_to_pop[i].set
  BY <1>1, <1>3, <1>11 DEF Jobs, J
<1>12. \A k, l \in LineIds : Old(r, k) < b /\ Old(r, l) < b /\ r.task_map[k] # r.task_map[l]
         /\ Awaits(J(k)) /\ Awaits(J(l)) => J(k).set # J(l).set
  BY DEF Jobs, J
<1>13. t.task_map = r.task_map
  BY DEF SameLines
<1>20. \A k \in LineIds : Old(t, k) < b /\ Awaits(t.job[t.task_map[k]]) =>
         p[t.job[t.task_map[k]].set] = Due(t.job[t.task_map[k]])
  BY <1>6, <1>8
<1>21. \A k, l \in LineIds :
         /\ Old(t, k) < b /\ Old(t, l) < b /\ t.task_map[k] # t.task_map[l]
         /\ Awaits(t.job[t.task_map[k]]) /\ Awaits(t.job[t.task_map[l]])
         => t.job[t.task_map[k]].set # t.job[t.task_map[l]].set
  BY <1>6, <1>12, <1>13
<1>22. \A k \in LineIds : \A i \in 1 .. n - 1 :
         Old(t, k) < b /\ Awaits(t.job[t.task_map[k]]) /\ Awaits(t.ready_to_pop[i])
         => t.job[t.task_map[k]].set # t.ready_to_pop[i].set
  BY <1>6, <1>11
<1> QED BY <1>2, <1>9, <1>10, <1>20, <1>21, <1>22 DEF Jobs

\* Where struct_hazard finds room, there are that many slots, and conversely.
LEMMA RoomFor ==
  ASSUME NEW r \in Station, NEW b, Ring(r, b, b), NEW k \in 0 .. N, ~StructHazard(r, k)
  PROVE  b + k <= N
<1>1. b \in Nat /\ b < N /\ N \in Nat /\ r.head \in LineIds /\ r.tail = Slot(r.head, b)
  BY StationFields, Sizes DEF Ring
<1>2. SUFFICES ASSUME b + k > N PROVE FALSE
  BY <1>1
<1>3. /\ N - b \in 0 .. k - 1 /\ b \in 0 .. N - 1 /\ N - b \in Nat /\ b > 0
  BY <1>1, <1>2
<1>4. (r.tail + (N - b)) % N = r.head
  <2>1. r.tail = IF r.head + b < N THEN r.head + b ELSE r.head + b - N
    BY <1>1, <1>3, SlotIs
  <2>2. r.head \in Nat /\ r.head < N
    BY <1>1, Sizes
  <2>3. CASE r.head + b < N
    <3>1. r.tail + (N - b) = r.head + N
      BY <1>1, <2>1, <2>2, <2>3
    <3>2. Slot(r.head, N) = r.head
      <4>1. N \in 0 .. N
        BY <1>1
      <4> QED BY <1>1, <2>2, <4>1, SlotIs
    <3> QED BY <3>1, <3>2 DEF Slot
  <2>4. CASE r.head + b >= N
    <3>1. r.tail + (N - b) = r.head
      BY <1>1, <2>1, <2>2, <2>4
    <3> QED BY <1>1, <2>2, <3>1
  <2> QED BY <1>1, <2>2, <2>3, <2>4
<1>5. Old(r, r.head) < b
  BY <1>1, <1>3, AgeOfSlot DEF Old
<1>6. InUse(r.vec[r.head])
  BY <1>1, <1>5 DEF Ring
<1> QED BY <1>3, <1>4, <1>6 DEF StructHazard, InUse, N

LEMMA RoomLeft ==
  ASSUME NEW r \in Station, NEW b, Ring(r, b, b), NEW k \in Nat, b + k <= N
  PROVE  ~StructHazard(r, k)
<1>1. b \in Nat /\ b < N /\ N \in Nat /\ r.head \in LineIds /\ r.tail = Slot(r.head, b)
  BY StationFields, Sizes DEF Ring
<1> SUFFICES ASSUME NEW i \in 0 .. k - 1 PROVE ~InUse(r.vec[(r.tail + i) % N])
  BY DEF StructHazard, InUse, N
<1>2. b + i \in 0 .. N - 1 /\ i \in Nat /\ b \in 0 .. N - 1
  BY <1>1
<1>3. (r.tail + i) % N = Slot(r.head, b + i)
  <2>1. /\ (Slot(r.head, b) + (i + 1) - 1) % N = Slot(r.head, b + (i + 1) - 1)
    <3>1. CASE b + i + 1 < N
      <4>1. i + 1 \in Nat /\ i + 1 >= 1 /\ b + (i + 1) < N
        BY <1>1, <1>2, <3>1
      <4> QED BY <1>1, <1>2, <4>1, AgeFromTail
    <3>2. CASE b + i + 1 >= N
      <4> DEFINE t == Slot(r.head, b)
      <4>1. b + i = N - 1
        BY <1>1, <1>2, <3>2
      <4>2. t = IF r.head + b < N THEN r.head + b ELSE r.head + b - N
        BY <1>1, <1>2, SlotIs
      <4>3. Slot(r.head, b + i) = IF r.head + (b + i) < N THEN r.head + (b + i) ELSE r.head + (b + i) - N
        <5>1. b + i \in 0 .. N
          BY <1>1, <1>2
        <5> QED BY <1>1, <5>1, SlotIs
      <4>4. t \in LineIds
        BY <1>1, <1>2, AgeOfSlot
      <4>5. i \in 0 .. N
        BY <1>1, <1>2
      <4>6. Slot(t, i) = IF t + i < N THEN t + i ELSE t + i - N
        BY <4>4, <4>5, SlotIs
      <4>7. r.head \in Nat /\ r.head < N /\ t \in Nat
        BY <1>1, <4>4, Sizes
      <4> HIDE DEF t
      <4>8. Slot(t, i) = Slot(r.head, b + i)
        BY <1>1, <1>2, <4>1, <4>2, <4>3, <4>6, <4>7
      <4>9. t + (i + 1) - 1 = t + i /\ b + (i + 1) - 1 = b + i
        BY <1>1, <1>2, <4>7
      <4>10. Slot(t, i) = (t + i) % N
        BY DEF Slot
      <4> QED BY <4>8, <4>9, <4>10 DEF t
    <3> QED BY <1>1, <1>2, <3>1, <3>2
  <2>2. r.tail + i = Slot(r.head, b) + (i + 1) - 1 /\ b + (i + 1) - 1 = b + i
    <3>1. r.tail \in Int
      BY StationFields, Sizes
    <3> QED BY <1>1, <1>2, <3>1
  <2> QED BY <2>1, <2>2
<1>4. Slot(r.head, b + i) \in LineIds /\ Old(r, Slot(r.head, b + i)) = b + i
  BY <1>1, <1>2, AgeOfSlot DEF Old
<1>5. ~(b + i < b)
  BY <1>1, <1>2
<1> QED BY <1>3, <1>4, <1>5 DEF Ring
-----------------------------------------------------------------------------
(***************************************************************************)
(* The inductive invariant.                                                *)
(***************************************************************************)
\* The slots that a read may still ask for: those not read since their bucket was
\* written, and those a task has taken and is about to read.
Taken ==
  {a \in Address : \E set \in Sets : \E lvl \in SetLvls :
     /\ at[set] \in {"taking", "pull"} /\ offset[set][lvl] # NoOff
     /\ a = <<P(path[set], lvl), offset[set][lvl]>>}

Unread == {a \in Address : a[2] \in unread[a[1]]}

\* A task that has taken slots took them from a path of its set, and nothing else
\* will read them.
TakenOnce ==
  \A set \in Sets : at[set] \in {"taking", "pull"} =>
    /\ path[set] \in LeavesOf(set)
    /\ \A lvl \in SetLvls : offset[set][lvl] # NoOff =>
         offset[set][lvl] \notin unread[P(path[set], lvl)]

Holds(b) == Whole(rs, b, b, at) /\ HeadWaits(rs, b) /\ Safe(rs, b, Unread \cup Taken)

IInv == TypeOK /\ TakenOnce /\ \E b \in Nat : Holds(b)

LEMMA NodesApart ==
  /\ \A s, t \in Sets : s # t => SetNodes(s) \cap SetNodes(t) = {}
  /\ \A s \in Sets : SetNodes(s) \subseteq Nodes
<1>1. ASSUME NEW s \in Sets, NEW t \in Sets, s # t PROVE SetNodes(s) \cap SetNodes(t) = {}
  <2> SUFFICES ASSUME NEW x \in LeavesOf(s), NEW y \in LeavesOf(t)
               PROVE  SetPath(x) \cap SetPath(y) = {}
    BY DEF SetNodes
  <2>1. SetPath(x) \subseteq Path(x)
    BY LeavesOfSet, PathNodes
  <2> QED BY <1>1, <2>1, SetsDisjoint
<1>2. ASSUME NEW s \in Sets PROVE SetNodes(s) \subseteq Nodes
  <2> SUFFICES ASSUME NEW x \in LeavesOf(s) PROVE SetPath(x) \subseteq Nodes
    BY DEF SetNodes
  <2> QED BY LeavesOfSet, PathNodes
<1> QED BY <1>1, <1>2

\* The buckets of a path.
LEMMA PathOfSet ==
  ASSUME NEW set \in Sets, NEW leaf \in LeavesOf(set), NEW lvl \in SetLvls
  PROVE  /\ leaf \in Leaves /\ P(leaf, lvl) \in Nodes
         /\ P(leaf, lvl) \in SetPath(leaf) /\ P(leaf, lvl) \in SetNodes(set)
<1>1. leaf \in Leaves
  BY LeavesOfSet
<1>2. P(leaf, lvl) \in SetPath(leaf) /\ P(leaf, lvl) \in SetNodes(set)
  BY DEF SetPath, SetNodes
<1> QED BY <1>1, <1>2, NodesApart

\* A bucket of a set whose task awaits no write is not being written.
LEMMA IdleUnwritten ==
  ASSUME NEW r, NEW b, NEW q, Whole(r, b, b, q), NEW set \in Sets, q[set] \in Idle,
         r \in Station, NEW m \in SetNodes(set)
  PROVE  Unwritten(r, b, m)
<1> SUFFICES ASSUME NEW w \in LineIds, WritesTo(r, b, w, m) PROVE FALSE
  BY DEF Unwritten
<1> DEFINE job == r.job[r.task_map[w]]
           line == r.vec[w]
<1>1. Old(r, w) < b /\ IsWrite(line) /\ (line.node = m \/ (line.leaf # NoLeaf /\ m \in SetPath(line.leaf)))
  BY DEF WritesTo, Writes
<1>2. job \in Job
  BY StationFields
<1>3. WritesOwn(line, job)
  BY <1>1 DEF Whole, Owned
<1>4. Awaits(job) => q[job.set] = Due(job)
  BY <1>1 DEF Whole, Jobs
<1>5. m \in Nodes /\ m # NoNode
  BY NodesApart, NoValues
<1> HIDE DEF job, line
<1>6. job.set \in Sets /\ job.step \in {2, 5}
  BY <1>1, <1>2, <1>3 DEF Job, WritesOwn
<1>7. job.set # set
  BY <1>4, <1>6 DEF Awaits, Due, Idle
<1>8. m \in SetNodes(job.set)
  BY <1>1, <1>3, <1>5 DEF WritesOwn, SetNodes
<1> QED BY <1>6, <1>7, <1>8, NodesApart

\* Lines that are kept as they were are not overwritten.
LEMMA KeptLines ==
  ASSUME TypeOK, NEW b, Ring(rs, b, b), Keeps(rs, b, rs')
  PROVE  NoLineIsOverwritten
<1> SUFFICES ASSUME NEW l \in Busy PROVE rs'.vec[l] = rs.vec[l] /\ rs.vec[l].unfinished \in Nat
  BY DEF NoLineIsOverwritten
<1>1. l \in LineIds /\ InUse(rs.vec[l])
  BY DEF Busy, InUse
<1>2. rs'.vec[l] = rs.vec[l]
  BY <1>1 DEF Ring, Keeps
<1>3. rs.vec[l] \in RsLine
  <2>1. rs \in Station
    BY DEF TypeOK
  <2> QED BY <1>1, <2>1, StationFields
<1> QED BY <1>2, <1>3, LineFields

\* At most WayLvls + 1 buckets of a path are reshuffled, and struct_hazard looks
\* for that many.
LEMMA EarlyCount ==
  ASSUME NEW leaf
  PROVE  /\ EarlyLvls(leaf) \in SUBSET SetLvls /\ IsFiniteSet(EarlyLvls(leaf))
         /\ Cardinality(EarlyLvls(leaf)) \in Nat
         /\ EvaluateNextTask(leaf) = 3 + 2 * Cardinality(EarlyLvls(leaf))
         /\ EvaluateNextTask(leaf) \in 0 .. N
<1> DEFINE E == EarlyLvls(leaf)
           n == Cardinality(E)
<1>1. E \in SUBSET SetLvls
  BY DEF EarlyLvls
<1>2. StartLvl \in Nat /\ WayLvls \in Nat /\ N \in Nat /\ N >= 3 + 2 * (WayLvls + 1)
  BY Sizes
<1>3. SetLvls = StartLvl .. StartLvl + WayLvls
  BY <1>2 DEF SetLvls, num_of_lvls
<1>4. IsFiniteSet(SetLvls) /\ Cardinality(SetLvls) = WayLvls + 1
  <2>1. StartLvl \in Int /\ StartLvl + WayLvls \in Int /\ StartLvl <= StartLvl + WayLvls
    BY <1>2
  <2>2. /\ IsFiniteSet(StartLvl .. StartLvl + WayLvls)
        /\ Cardinality(StartLvl .. StartLvl + WayLvls) = (StartLvl + WayLvls) - StartLvl + 1
    BY <2>1, FS_Interval
  <2> QED BY <1>2, <1>3, <2>2
<1> HIDE DEF E
<1>5. IsFiniteSet(E) /\ n \in Nat /\ n <= WayLvls + 1
  BY <1>1, <1>4, FS_Subset, FS_CardinalityType
<1>6. EvaluateNextTask(leaf) = 3 + 2 * n
  BY DEF EvaluateNextTask, E
<1>7. 3 + 2 * n \in 0 .. N
  <2> HIDE DEF n
  <2> QED BY <1>2, <1>5
<1> QED BY <1>1, <1>5, <1>6, <1>7 DEF E

LEMMA InitHolds ==
  ASSUME Init
  PROVE  IInv
<1>1. /\ N \in Nat /\ N >= 5 /\ LineIds = 0 .. N - 1 /\ N = NumEntries
      /\ 0 \in LineIds /\ N - 1 \in LineIds
  BY Sizes DEF N
<1> DEFINE first == [Line("init", NoLeaf, NoNode) EXCEPT !.valid = TRUE]
           none == Line("", NoLeaf, NoNode)
<1>2. first \in RsLine /\ none \in RsLine /\ first.type = "init" /\ ~first.ready /\ ~none.valid
  BY DEF Line, RsLine, Types
<1>3. /\ rs.head = 0 /\ rs.tail = 0 /\ rs.last_write_line = N - 1 /\ rs.node_id_vec = NoLeaf
      /\ rs.vec = [l \in LineIds |-> IF l = N - 1 THEN first ELSE none]
      /\ rs.mshr_array = [a \in Address |-> <<>>] /\ rs.task_map = [l \in LineIds |-> 0]
      /\ rs.cnt = [l \in LineIds |-> 0] /\ rs.job = [l \in LineIds |-> NoJob]
      /\ rs.ready_to_pop = <<>>
  BY <1>1 DEF Init
<1>4. rs = [vec |-> rs.vec, head |-> rs.head, tail |-> rs.tail,
            last_write_line |-> rs.last_write_line, node_id_vec |-> rs.node_id_vec,
            mshr_array |-> rs.mshr_array, task_map |-> rs.task_map, cnt |-> rs.cnt,
            job |-> rs.job, ready_to_pop |-> rs.ready_to_pop]
  BY DEF Init
<1> HIDE DEF first, none
<1>5. rs \in Station
  <2>1. rs.vec \in [LineIds -> RsLine]
    BY <1>2, <1>3
  <2>2. rs.mshr_array \in [Address -> Seq(LineIds)]
    <3>1. <<>> \in Seq(LineIds)
      OBVIOUS
    <3> QED BY <1>3, <3>1
  <2>3. rs.task_map \in [LineIds -> LineIds] /\ rs.cnt \in [LineIds -> Int]
    BY <1>1, <1>3
  <2>4. rs.job \in [LineIds -> Job] /\ rs.ready_to_pop \in Seq(Job)
    <3>1. \A X : <<>> \in Seq(X)
      OBVIOUS
    <3>2. NoJob \in Job
      BY NoValues
    <3> QED BY <1>3, <3>1, <3>2
  <2> QED BY <1>1, <1>3, <1>4, <2>1, <2>2, <2>3, <2>4 DEF Station
<1>6. TypeOK
  <2>1. unread \in [Nodes -> SUBSET Offsets]
    BY DEF Init
  <2>2. at \in [Sets -> {"take", "taking", "pull", "pulling", "write", "writing"}]
    BY DEF Init
  <2>3. path \in [Sets -> Leaves \cup {NoLeaf}]
    BY DEF Init
  <2>4. offset \in [Sets -> [SetLvls -> Offsets \cup {NoOff}]]
    BY DEF Init, NoOffsets
  <2>5. set_cnt \in [Sets -> 0 .. A - 1]
    <3>1. 0 \in 0 .. A - 1
      BY Sizes
    <3> QED BY <3>1 DEF Init
  <2> QED BY <1>5, <2>1, <2>2, <2>3, <2>4, <2>5 DEF TypeOK
<1>7. \A set \in Sets : at[set] = "take"
  BY DEF Init
<1>8. TakenOnce
  BY <1>7 DEF TakenOnce
<1>9. \A l \in LineIds : Old(rs, l) \in 0 .. N - 1
  BY <1>1, <1>3, AgeOfSlot DEF Old
<1>10. \A l \in LineIds : ~(Old(rs, l) < 0)
  <2> SUFFICES ASSUME NEW l \in LineIds PROVE ~(Old(rs, l) < 0)
    OBVIOUS
  <2>1. Old(rs, l) \in 0 .. N - 1
    BY <1>9
  <2> QED BY <2>1
<1>11. \A l \in LineIds : ~InUse(rs.vec[l]) /\ ~(rs.vec[l].valid /\ rs.vec[l].ready)
  BY <1>2, <1>3 DEF InUse
<1>12. Ring(rs, 0, 0)
  <2>1. rs.tail = Slot(rs.head, 0)
    BY <1>1, <1>3, AgeOfSlot
  <2>2. 0 \in Nat /\ 0 <= 0 /\ 0 < N
    BY <1>1
  <2> QED BY <1>10, <1>11, <2>1, <2>2 DEF Ring
<1>13. \A a \in Address : rs.mshr_array[a] = <<>> /\ Len(rs.mshr_array[a]) = 0 /\ Range(rs.mshr_array[a]) = {}
  BY <1>3 DEF Range
<1>14. Counted(rs, 0) /\ Follow(rs, 0)
  <2>1. \A a \in Address : Len(rs.mshr_array[a]) <= 1
    BY <1>13
  <2>2. Counted(rs, 0)
    BY <1>10, <1>13, <2>1 DEF Counted
  <2> QED BY <1>13, <2>2 DEF Follow
<1>15. Steps(rs, 0) /\ Owned(rs, 0)
  BY <1>10 DEF Steps, Owned
<1>16. Jobs(rs, 0, at)
  <2>1. DOMAIN rs.ready_to_pop = {}
    BY <1>3
  <2> QED BY <1>10, <2>1 DEF Jobs
<1>17. HeadWaits(rs, 0) /\ Safe(rs, 0, Unread \cup Taken)
  BY <1>13 DEF HeadWaits, Safe
<1>18. Holds(0)
  BY <1>12, <1>14, <1>15, <1>16, <1>17 DEF Holds, Whole
<1> QED BY <1>6, <1>8, <1>18 DEF IInv

\* Step 2, with or without buckets to reshuffle: its lines enter the ring.
LEMMA TakeSlotsEnter ==
  ASSUME TypeOK, NEW b, Holds(b), NEW set \in Sets, NEW leaf \in LeavesOf(set), at[set] = "take",
         ~StructHazard(rs, EvaluateNextTask(leaf)), NEW wb \in BOOLEAN
  PROVE  LET n     == Cardinality(EarlyLvls(leaf))
             job   == [set |-> set, step |-> 2, wb |-> wb]
             r     == IF n = 0 THEN [rs EXCEPT !.ready_to_pop = Append(@, job)]
                      ELSE EarlyPushes(EarlyPulls(Share(rs, job, 2 * n), leaf), leaf)
         IN  \E d \in Nat :
               /\ r \in Station /\ Whole(r, d, d, [at EXCEPT ![set] = "taking"]) /\ HeadWaits(r, d)
               /\ d + 3 <= N
               /\ Grows(rs, b, r, d, ReshuffleReads(leaf), Early(leaf))
               /\ Registered(rs, b, r, d, job)
<1> DEFINE n     == Cardinality(EarlyLvls(leaf))
           early == Early(leaf)
           reads == ReshuffleReads(leaf)
           job   == [set |-> set, step |-> 2, wb |-> wb]
           q     == [at EXCEPT ![set] = "taking"]
<1>1. /\ rs \in Station /\ unread \in [Nodes -> SUBSET Offsets]
      /\ at \in [Sets -> Places] /\ leaf \in Leaves
      /\ Whole(rs, b, b, at) /\ HeadWaits(rs, b) /\ Safe(rs, b, Unread \cup Taken)
  <2>1. at \in [Sets -> Places]
    BY DEF TypeOK, Places
  <2>2. rs \in Station /\ unread \in [Nodes -> SUBSET Offsets]
    BY DEF TypeOK
  <2> QED BY <2>1, <2>2, LeavesOfSet DEF Holds
<1>2. Ring(rs, b, b) /\ b \in Nat /\ b < N /\ N \in Nat /\ Jobs(rs, b, at)
  BY <1>1, Sizes DEF Whole, Ring
<1>3. n \in Nat /\ EvaluateNextTask(leaf) = 3 + 2 * n /\ EvaluateNextTask(leaf) \in 0 .. N
  BY EarlyCount
<1>4. b + (3 + 2 * n) <= N
  BY <1>1, <1>2, <1>3, RoomFor
<1>5. job \in Job /\ job.set = set /\ job.step = 2 /\ Due(job) = "taking" /\ at[set] \in Idle
  BY DEF Job, Due, Idle
<1>6. \A m \in SetPath(leaf) : Unwritten(rs, b, m)
  <2>1. SetPath(leaf) \subseteq SetNodes(set)
    BY DEF SetNodes
  <2> QED BY <1>1, <1>5, <2>1, IdleUnwritten
<1>7. CASE n = 0
  <2> DEFINE t == [rs EXCEPT !.ready_to_pop = Append(@, job)]
  <2>1. rs.ready_to_pop \in Seq(Job) /\ Append(rs.ready_to_pop, job) \in Seq(Job)
    <3>1. rs.ready_to_pop \in Seq(Job)
      BY <1>1, StationFields
    <3> HIDE DEF job
    <3> QED BY <1>5, <3>1
  <2>2. SameLines(rs, t) /\ t.ready_to_pop = Append(rs.ready_to_pop, job)
    <3> HIDE DEF job
    <3> QED BY <1>1, <2>1, AnswersFields
  <2> HIDE DEF t, job
  <2>3. Jobs(t, b, q)
    BY <1>1, <1>2, <1>5, <2>2, AppendJobs
  <2>4. /\ Whole(t, b, b, q) /\ HeadWaits(t, b)
        /\ \A F : Safe(rs, b, F) => Safe(t, b, F)
        /\ \A m : Unwritten(rs, b, m) => Unwritten(t, b, m)
    BY <1>1, <2>2, <2>3, SameLinesHold
  <2>5. t \in Station /\ t.vec = rs.vec
    BY <2>2 DEF SameLines
  <2>6. EarlyLvls(leaf) = {}
    BY <1>7, EarlyCount, FS_EmptySet
  <2>7. early = {} /\ reads = {}
    BY <2>6 DEF Early, ReshuffleReads
  <2> HIDE DEF reads, early
  <2>8. Grows(rs, b, t, b, reads, early)
    <3>1. Keeps(rs, b, t)
      BY <2>5 DEF Keeps
    <3>2. ASSUME NEW F, NEW E, Safe(rs, b, F), \A a \in Address \cap E : a \in F \ {} \/ a[1] \in {}
          PROVE  Safe(t, b, E)
      <4>1. Safe(rs, b, E)
        BY <3>2 DEF Safe
      <4> QED BY <2>4, <4>1
    <3> QED BY <2>4, <2>7, <3>1, <3>2 DEF Grows
  <2>9. b + 3 <= N
    BY <1>2, <1>4, <1>7
  <2>10. Registered(rs, b, t, b, job)
    <3>1. Queue(t)[b] = Queue(rs)[b]
      BY <1>1, <1>2, <2>2, SameLinesQueue
    <3> QED BY <2>2, <3>1 DEF Registered
  <2> QED BY <1>2, <1>7, <2>4, <2>5, <2>8, <2>9, <2>10 DEF t, job, reads, early
<1>8. CASE n # 0
  <2> DEFINE m == 2 * n
             u == Share(rs, job, m)
             t == EarlyPushes(EarlyPulls(u, leaf), leaf)
  <2>1. m \in Nat /\ m >= 1 /\ b + m < N /\ b + m + 3 <= N /\ b + m \in Nat /\ (b + m) - b = m
    <3> HIDE DEF n
    <3> QED BY <1>2, <1>3, <1>4, <1>8
  <2> HIDE DEF m, t
  <2>2. /\ \E s \in LineIds : Well(u, b, b + m, q, s, job) /\ Issued(rs, b, u, b, b + m, s, job)
        /\ Grows(rs, b, u, b, {}, {})
    <3> HIDE DEF job
    <3>1. /\ \E s \in LineIds : /\ Well(u, b, b + m, [at EXCEPT ![job.set] = "taking"], s, job)
                                /\ Issued(rs, b, u, b, b + m, s, job)
          /\ Grows(rs, b, u, b, {}, {})
      BY <1>1, <1>5, <2>1, ShareWell
    <3> QED BY <1>5, <3>1
  <2>3. PICK s \in LineIds : Well(u, b, b + m, q, s, job) /\ Issued(rs, b, u, b, b + m, s, job)
    BY <2>2
  <2> HIDE DEF u, q
  <2>4. \A x \in SetPath(leaf) : Unwritten(u, b, x)
    BY <1>6, <2>2 DEF Grows
  <2>5. Safe(u, b, Unread \cup Taken)
    <3>1. \A a \in Address \cap (Unread \cup Taken) : a \in (Unread \cup Taken) \ {} \/ a[1] \in {}
      OBVIOUS
    <3> QED BY <1>1, <2>2, <3>1 DEF Grows
  <2>6. \A a \in Address : a[2] \in unread[a[1]] => a \in Unread \cup Taken
    BY DEF Unread
  <2>7. (b + m) - b = 2 * Cardinality(EarlyLvls(leaf))
    BY <2>1 DEF m
  <2>8. \E d \in Nat : /\ Well(t, d, d, q, s, job) /\ d <= b + m /\ Grows(u, b, t, d, reads, early)
                       /\ Carries(u, b, b + m, t, d, d, s, job)
    <3> HIDE DEF job
    <3> QED BY <1>1, <1>5, <2>3, <2>4, <2>5, <2>6, <2>7, ReshuffleWell DEF t
  <2>9. PICK d \in Nat : /\ Well(t, d, d, q, s, job) /\ d <= b + m /\ Grows(u, b, t, d, reads, early)
                         /\ Carries(u, b, b + m, t, d, d, s, job)
    BY <2>8
  <2>10. t \in Station /\ Whole(t, d, d, q) /\ HeadWaits(t, d)
    BY <2>9 DEF Well
  <2>11. Ring(u, b, b + m)
    BY <2>3 DEF Well, Whole
  <2>12. Grows(rs, b, t, d, reads, early)
    <3> HIDE DEF reads, early
    <3>1. Grows(rs, b, t, d, {} \cup reads, {} \cup early)
      BY <1>2, <2>2, <2>9, <2>11, GrowsTransitive
    <3>2. {} \cup reads = reads /\ {} \cup early = early
      OBVIOUS
    <3> QED BY <3>1, <3>2
  <2>13. d + 3 <= N
    BY <1>2, <2>1, <2>9
  <2>14. Registered(rs, b, t, d, job)
    <3> HIDE DEF job
    <3>1. Issued(rs, b, t, d, d, s, job)
      BY <2>3, <2>9 DEF Carries
    <3>2. Steps(t, d) /\ d < N
      BY <2>10 DEF Whole, Ring
    <3> QED BY <1>1, <2>10, <3>1, <3>2, QueueIssued
  <2> QED BY <1>8, <2>10, <2>12, <2>13, <2>14 DEF t, u, q, m
<1> QED BY <1>7, <1>8

\* What the steps of a set's task do to the slots of the others.
LEMMA TakenAt ==
  ASSUME TypeOK, TakenOnce, NEW s \in Sets, at[s] \in {"taking", "pull"}, NEW lvl \in SetLvls,
         offset[s][lvl] # NoOff
  PROVE  LET a == <<P(path[s], lvl), offset[s][lvl]>> IN
         /\ a \in Address /\ a \in Taken /\ a \notin Unread /\ a[1] = P(path[s], lvl)
         /\ P(path[s], lvl) \in SetNodes(s) /\ P(path[s], lvl) \in Nodes
<1> DEFINE n == P(path[s], lvl)
           off == offset[s][lvl]
           a == <<n, off>>
<1>1. path[s] \in LeavesOf(s) /\ off \notin unread[n]
  BY DEF TakenOnce
<1>2. n \in Nodes /\ n \in SetNodes(s)
  BY <1>1, PathOfSet
<1>3. off \in Offsets
  BY DEF TypeOK
<1>4. a \in Address
  BY <1>2, <1>3 DEF Address
<1>5. a \in Taken
  BY <1>4 DEF Taken
<1> HIDE DEF n, off
<1>6. a \notin Unread
  BY <1>1 DEF Unread
<1> QED BY <1>2, <1>4, <1>5, <1>6 DEF n, off

-----------------------------------------------------------------------------
(***************************************************************************)
(* Every step keeps the invariant, overwrites no line and leaves room.     *)
(***************************************************************************)
\* What it does to the queue: a step is issued, or answered, or its answer is taken.
Ordered(b, d) ==
  \/ \E job \in Job : Registered(rs, b, rs', d, job)
  \/ Answered(rs, b, rs', d)
  \/ /\ rs.ready_to_pop # <<>> /\ rs'.ready_to_pop = Tail(rs.ready_to_pop)
     /\ Queue(rs')[d] = Queue(rs)[b]

GoodStep ==
  /\ IInv' /\ NoLineIsOverwritten /\ RoomIsLeft
  /\ \E b, d \in Nat : Holds(b) /\ Holds(d)' /\ Ordered(b, d)

LEMMA TakeSlotsGood ==
  ASSUME IInv, NEW set \in Sets, NEW leaf \in LeavesOf(set), TakeSlots(set, leaf)
  PROVE  GoodStep
<1> DEFINE n     == Cardinality(EarlyLvls(leaf))
           early == {P(leaf, lvl) : lvl \in EarlyLvls(leaf)}
           fresh == [x \in Nodes |-> IF x \in early THEN Offsets ELSE unread[x]]
           cnt   == (set_cnt[set] + 1) % A
           job   == [set |-> set, step |-> 2, wb |-> cnt = 0]
           r     == IF n = 0 THEN [rs EXCEPT !.ready_to_pop = Append(@, job)]
                    ELSE EarlyPushes(EarlyPulls(Share(rs, job, 2 * n), leaf), leaf)
           gone(off, x) == {off[lvl] : lvl \in {k \in SetLvls : P(leaf, k) = x}}
<1>1. PICK b \in Nat : TypeOK /\ TakenOnce /\ Holds(b)
  BY DEF IInv
<1>2. /\ at[set] = "take" /\ ~StructHazard(rs, EvaluateNextTask(leaf))
      /\ rs' = [r EXCEPT !.node_id_vec = leaf]
      /\ path' = [path EXCEPT ![set] = leaf] /\ set_cnt' = [set_cnt EXCEPT ![set] = cnt]
      /\ at' = [at EXCEPT ![set] = "taking"]
  BY DEF TakeSlots
<1>3. PICK off \in [SetLvls -> Offsets \cup {NoOff}] :
        /\ \A lvl \in SetLvls : IF lvl \in Readable(leaf)
                                  THEN off[lvl] \in fresh[P(leaf, lvl)] ELSE off[lvl] = NoOff
        /\ offset' = [offset EXCEPT ![set] = off]
        /\ unread' = [x \in Nodes |-> fresh[x] \ gone(off, x)]
  BY DEF TakeSlots
<1>4. early = Early(leaf)
  BY DEF Early
<1>5. (cnt = 0) \in BOOLEAN
  OBVIOUS
<1>6. \E d \in Nat :
        /\ r \in Station /\ Whole(r, d, d, at') /\ HeadWaits(r, d) /\ d + 3 <= N
        /\ Grows(rs, b, r, d, ReshuffleReads(leaf), Early(leaf))
        /\ Registered(rs, b, r, d, job)
  BY <1>1, <1>2, <1>5, TakeSlotsEnter
<1>7. PICK d \in Nat :
        /\ r \in Station /\ Whole(r, d, d, at') /\ HeadWaits(r, d) /\ d + 3 <= N
        /\ Grows(rs, b, r, d, ReshuffleReads(leaf), Early(leaf))
        /\ Registered(rs, b, r, d, job)
  BY <1>6
<1> HIDE DEF r, early
<1>8. leaf \in Leaves /\ leaf \in LeavesOf(set)
  BY LeavesOfSet
<1>9. SameLines(r, rs') /\ rs'.ready_to_pop = r.ready_to_pop
  BY <1>2, <1>7, <1>8, NodeFields
<1>10. Jobs(rs', d, at')
  BY <1>7, <1>9, NodeJobs DEF Whole
<1>11. /\ Whole(rs', d, d, at') /\ HeadWaits(rs', d)
       /\ \A F : Safe(r, d, F) => Safe(rs', d, F)
  BY <1>7, <1>9, <1>10, SameLinesHold
<1>12. rs' \in Station /\ rs'.vec = r.vec
  BY <1>9 DEF SameLines
<1>13. /\ unread \in [Nodes -> SUBSET Offsets]
       /\ at \in [Sets -> {"take", "taking", "pull", "pulling", "write", "writing"}]
       /\ path \in [Sets -> Leaves \cup {NoLeaf}]
       /\ offset \in [Sets -> [SetLvls -> Offsets \cup {NoOff}]]
       /\ set_cnt \in [Sets -> 0 .. A - 1] /\ rs \in Station
  BY <1>1 DEF TypeOK
<1>14. /\ at'[set] = "taking" /\ path'[set] = leaf /\ offset'[set] = off
       /\ \A s \in Sets : s # set => at'[s] = at[s] /\ path'[s] = path[s] /\ offset'[s] = offset[s]
  BY <1>2, <1>3, <1>13
<1>15. \A x \in Nodes : /\ unread'[x] = fresh[x] \ gone(off, x)
                        /\ fresh[x] = IF x \in early THEN Offsets ELSE unread[x]
  BY <1>3
<1> HIDE DEF fresh
<1>16. \A x \in early : x \in Nodes /\ x \in SetNodes(set)
  <2>1. \A lvl \in EarlyLvls(leaf) : lvl \in SetLvls
    BY DEF EarlyLvls
  <2> QED BY <1>8, <2>1, PathOfSet DEF early
<1>17. \A x \in Nodes : unread'[x] \subseteq Offsets /\ unread'[x] \subseteq fresh[x]
  BY <1>13, <1>15
<1>18. TypeOK'
  <2>1. unread' \in [Nodes -> SUBSET Offsets]
    <3>1. unread' = [x \in Nodes |-> unread'[x]]
      BY <1>3
    <3> QED BY <1>17, <3>1
  <2>2. set_cnt' \in [Sets -> 0 .. A - 1]
    <3>1. cnt \in 0 .. A - 1
      <4>1. set_cnt[set] \in 0 .. A - 1 /\ A \in Nat \ {0}
        BY <1>13, Sizes
      <4> QED BY <4>1
    <3> HIDE DEF cnt
    <3> QED BY <1>2, <1>13, <3>1
  <2>3. path' \in [Sets -> Leaves \cup {NoLeaf}] /\ offset' \in [Sets -> [SetLvls -> Offsets \cup {NoOff}]]
    BY <1>2, <1>3, <1>8, <1>13
  <2>4. at' \in [Sets -> {"take", "taking", "pull", "pulling", "write", "writing"}]
    BY <1>2, <1>13
  <2> QED BY <1>12, <2>1, <2>2, <2>3, <2>4 DEF TypeOK
\* The other sets' buckets are left alone.
<1>19. ASSUME NEW s \in Sets, s # set, NEW x \in SetNodes(s)
       PROVE  x \in Nodes /\ x \notin early /\ unread'[x] \subseteq unread[x]
  <2>1. x \in Nodes /\ x \notin early
    BY <1>16, <1>19, NodesApart
  <2> QED BY <1>15, <1>17, <2>1
<1>20. ASSUME NEW lvl \in SetLvls, off[lvl] # NoOff
       PROVE  /\ P(leaf, lvl) \in Nodes /\ off[lvl] \in fresh[P(leaf, lvl)]
              /\ off[lvl] \notin unread'[P(leaf, lvl)]
  <2>1. P(leaf, lvl) \in Nodes
    BY PathOfSet
  <2>2. off[lvl] \in fresh[P(leaf, lvl)]
    BY <1>3, <1>20
  <2>3. off[lvl] \in gone(off, P(leaf, lvl))
    OBVIOUS
  <2> QED BY <1>15, <2>1, <2>2, <2>3
<1> HIDE DEF gone
<1>21. TakenOnce'
  <2> SUFFICES ASSUME NEW s \in Sets, at'[s] \in {"taking", "pull"}
               PROVE  /\ path'[s] \in LeavesOf(s)
                      /\ \A lvl \in SetLvls : offset'[s][lvl] # NoOff =>
                           offset'[s][lvl] \notin unread'[P(path'[s], lvl)]
    BY DEF TakenOnce
  <2>1. CASE s = set
    BY <1>8, <1>14, <1>20, <2>1
  <2>2. CASE s # set
    <3>1. at[s] \in {"taking", "pull"} /\ path'[s] = path[s] /\ offset'[s] = offset[s]
      BY <1>14, <2>2
    <3>2. /\ path[s] \in LeavesOf(s)
          /\ \A lvl \in SetLvls : offset[s][lvl] # NoOff => offset[s][lvl] \notin unread[P(path[s], lvl)]
      BY <1>1, <3>1 DEF TakenOnce
    <3>3. \A lvl \in SetLvls : P(path[s], lvl) \in SetNodes(s)
      BY <3>2, PathOfSet
    <3>4. \A lvl \in SetLvls : unread'[P(path[s], lvl)] \subseteq unread[P(path[s], lvl)]
      BY <1>19, <2>2, <3>3
    <3> QED BY <3>1, <3>2, <3>4
  <2> QED BY <2>1, <2>2
\* What may be read is what could be before, but for the slots that the reshuffles
\* read, or is in a bucket that they write.
<1>22. \A a \in Address \cap (Unread' \cup Taken') :
         a \in (Unread \cup Taken) \ ReshuffleReads(leaf) \/ a[1] \in Early(leaf)
  <2> SUFFICES ASSUME NEW a \in Address, a \in Unread' \cup Taken', a[1] \notin early
               PROVE  a \in (Unread \cup Taken) \ ReshuffleReads(leaf)
    BY <1>4
  <2>1. a \notin ReshuffleReads(leaf)
    <3>1. \A lvl \in EarlyLvls(leaf) : \A x \in EarlyReads(lvl, P(leaf, lvl)) : x[1] = P(leaf, lvl)
      BY DEF EarlyReads
    <3>2. \A lvl \in EarlyLvls(leaf) : P(leaf, lvl) \in early
      BY DEF early
    <3> QED BY <3>1, <3>2 DEF ReshuffleReads
  <2>2. a[1] \in Nodes
    BY DEF Address
  <2>3. fresh[a[1]] = unread[a[1]]
    BY <1>15, <2>2
  <2>4. CASE a \in Unread'
    <3>1. a[2] \in unread[a[1]]
      BY <1>17, <2>2, <2>3, <2>4 DEF Unread
    <3> QED BY <2>1, <3>1 DEF Unread
  <2>5. CASE a \in Taken'
    <3>1. PICK s \in Sets, lvl \in SetLvls : /\ at'[s] \in {"taking", "pull"} /\ offset'[s][lvl] # NoOff
                                             /\ a = <<P(path'[s], lvl), offset'[s][lvl]>>
      BY <2>5 DEF Taken
    <3>2. CASE s = set
      <4>1. a[1] = P(leaf, lvl) /\ a[2] = off[lvl] /\ off[lvl] # NoOff
        BY <1>14, <3>1, <3>2
      <4>2. a[2] \in unread[a[1]]
        BY <1>20, <2>3, <4>1
      <4> QED BY <2>1, <4>2 DEF Unread
    <3>3. CASE s # set
      <4>1. at[s] \in {"taking", "pull"} /\ offset[s][lvl] # NoOff /\ a = <<P(path[s], lvl), offset[s][lvl]>>
        BY <1>14, <3>1, <3>3
      <4>2. a \in Taken
        BY <4>1 DEF Taken
      <4> QED BY <2>1, <4>2
    <3> QED BY <3>2, <3>3
  <2> QED BY <2>4, <2>5
<1>23. Safe(rs', d, Unread' \cup Taken')
  <2>1. Safe(rs, b, Unread \cup Taken)
    BY <1>1 DEF Holds
  <2>2. Safe(r, d, Unread' \cup Taken')
    BY <1>7, <1>22, <2>1 DEF Grows
  <2> QED BY <1>11, <2>2
<1>27. Holds(d)'
  <2>1. Whole(rs', d, d, at') /\ HeadWaits(rs', d) /\ Safe(rs', d, Unread' \cup Taken')
    BY <1>11, <1>23
  <2> QED BY <2>1 DEF Holds
<1>24. IInv'
  BY <1>18, <1>21, <1>27 DEF IInv
<1>25. NoLineIsOverwritten
  <2>1. Keeps(rs, b, rs')
    BY <1>7, <1>12 DEF Grows, Keeps
  <2>2. Ring(rs, b, b)
    BY <1>1 DEF Holds, Whole
  <2> QED BY <1>1, <2>1, <2>2, KeptLines
<1>26. RoomIsLeft
  <2>1. Ring(rs', d, d)
    BY <1>11 DEF Whole
  <2>2. ~StructHazard(rs', 3)
    BY <1>7, <1>12, <2>1, RoomLeft
  <2> QED BY <2>2 DEF RoomIsLeft
<1>28. Ordered(b, d)
  <2>1. job \in Job
    <3> DEFINE wb == cnt = 0
    <3>1. wb \in BOOLEAN /\ job = [set |-> set, step |-> 2, wb |-> wb]
      OBVIOUS
    <3> HIDE DEF wb, job
    <3> QED BY <3>1 DEF Job
  <2> HIDE DEF job
  <2>2. d <= N
    BY <1>7, Sizes DEF Whole, Ring
  <2>3. Registered(rs, b, rs', d, job)
    BY <1>7, <1>9, <2>2, SameLinesRegistered
  <2> QED BY <2>1, <2>3 DEF Ordered
<1> QED BY <1>1, <1>24, <1>25, <1>26, <1>27, <1>28 DEF GoodStep

\* A task is where it was, or the invariant's room is not asked for.
LEMMA NotTaking ==
  ASSUME \A s \in Sets : at'[s] = "taking" => at[s] = "taking"
  PROVE  RoomIsLeft
BY DEF RoomIsLeft

LEMMA PlacesType ==
  ASSUME TypeOK
  PROVE  /\ rs \in Station /\ unread \in [Nodes -> SUBSET Offsets] /\ at \in [Sets -> Places]
         /\ path \in [Sets -> Leaves \cup {NoLeaf}]
         /\ offset \in [Sets -> [SetLvls -> Offsets \cup {NoOff}]]
         /\ set_cnt \in [Sets -> 0 .. A - 1]
BY DEF TypeOK, Places

LEMMA PullGood ==
  ASSUME IInv, NEW set \in Sets, Pull(set)
  PROVE  GoodStep
<1> DEFINE job   == JobOf(set, 3)
           leaf  == path[set]
           off   == offset[set]
           u     == Share(rs, job, 1)
           line  == Line("read-pull", leaf, NoNode)
           fwd   == Forwarded(u, line, u.node_id_vec)
           reads == {<<P(leaf, lvl), off[lvl]>> : lvl \in {k \in SetLvls \ fwd : off[k] # NoOff}}
<1>1. PICK b \in Nat : TypeOK /\ TakenOnce /\ Holds(b)
  BY DEF IInv
<1>2. /\ at[set] = "pull" /\ ~StructHazard(rs, EvaluateNextTask(leaf))
      /\ rs' = Enter(u, line, reads) /\ at' = [at EXCEPT ![set] = AfterPull(set)]
      /\ offset' = [offset EXCEPT ![set] = NoOffsets]
      /\ unread' = unread /\ path' = path /\ set_cnt' = set_cnt
  BY DEF Pull, RegisterRead
<1>3. /\ rs \in Station /\ unread \in [Nodes -> SUBSET Offsets] /\ at \in [Sets -> Places]
      /\ offset \in [Sets -> [SetLvls -> Offsets \cup {NoOff}]]
  BY <1>1, PlacesType
<1>4. /\ Whole(rs, b, b, at) /\ HeadWaits(rs, b) /\ Safe(rs, b, Unread \cup Taken)
      /\ Ring(rs, b, b) /\ b < N /\ N \in Nat
  BY <1>1, Sizes DEF Holds, Whole, Ring
<1>5. leaf \in LeavesOf(set) /\ leaf \in Leaves
  <2>1. leaf \in LeavesOf(set)
    BY <1>1, <1>2 DEF TakenOnce
  <2> QED BY <2>1, LeavesOfSet
<1>6. b + 1 < N
  <2> DEFINE n == Cardinality(EarlyLvls(leaf))
  <2>1. n \in Nat /\ EvaluateNextTask(leaf) = 3 + 2 * n /\ EvaluateNextTask(leaf) \in 0 .. N
    BY EarlyCount
  <2> HIDE DEF n
  <2>2. b + EvaluateNextTask(leaf) <= N
    BY <1>2, <1>3, <1>4, <2>1, RoomFor
  <2> QED BY <1>4, <2>1, <2>2
<1>7. /\ job \in Job /\ job.set = set /\ at[set] \in Idle
      /\ Awaits(job) => AfterPull(set) = Due(job)
  <2>1. job = [set |-> set, step |-> 3, wb |-> set_cnt[set] = 0]
    BY DEF JobOf
  <2> DEFINE wb == set_cnt[set] = 0
  <2>3. wb \in BOOLEAN /\ job = [set |-> set, step |-> 3, wb |-> wb]
    BY <2>1
  <2> HIDE DEF wb, job
  <2>2. job \in Job /\ job.set = set /\ job.step = 3 /\ (job.wb <=> set_cnt[set] = 0)
    <3>1. job \in Job /\ job.set = set /\ job.step = 3 /\ job.wb = wb
      BY <2>3 DEF Job
    <3> QED BY <3>1 DEF wb
  <2> QED BY <1>2, <2>2 DEF Awaits, Due, AfterPull, Idle
<1> HIDE DEF job
<1>8. /\ \E s \in LineIds : Well(u, b, b + 1, at', s, job) /\ Issued(rs, b, u, b, b + 1, s, job)
      /\ Grows(rs, b, u, b, {}, {})
  <2> DEFINE m == 1
             v == AfterPull(set)
  <2>0. /\ m \in Nat /\ m >= 1 /\ b + m < N /\ b + 1 = b + m /\ u = Share(rs, job, m)
        /\ Awaits(job) => v = Due(job)
    BY <1>6, <1>7
  <2> HIDE DEF m, v, u
  <2>1. /\ \E s \in LineIds : /\ Well(u, b, b + m, [at EXCEPT ![job.set] = v], s, job)
                              /\ Issued(rs, b, u, b, b + m, s, job)
        /\ Grows(rs, b, u, b, {}, {})
    BY <1>3, <1>4, <1>7, <2>0, ShareWell
  <2> QED BY <1>2, <1>7, <2>0, <2>1 DEF v
<1>9. PICK s \in LineIds : Well(u, b, b + 1, at', s, job) /\ Issued(rs, b, u, b, b + 1, s, job)
  BY <1>8
<1> HIDE DEF u, fwd
<1>10. ASSUME NEW a \in reads
       PROVE  /\ a \in Address /\ a \in Taken /\ a \notin Unread /\ a[1] \in SetNodes(set)
  <2>1. PICK lvl \in SetLvls : off[lvl] # NoOff /\ a = <<P(leaf, lvl), off[lvl]>>
    BY <1>10
  <2> QED BY <1>1, <1>2, <2>1, TakenAt
<1>11. reads \in SUBSET Address
  BY <1>10
<1> HIDE DEF reads
<1>12. /\ line \in RsLine /\ line.type = "read-pull"
  BY <1>5, LineTypes DEF Line
<1> HIDE DEF line
<1>13. ASSUME NEW a \in reads PROVE u.mshr_array[a] = <<>> /\ Unwritten(u, b, a[1])
  <2>1. Unwritten(rs, b, a[1])
    BY <1>3, <1>4, <1>7, <1>10, <1>13, IdleUnwritten
  <2>2. Unwritten(u, b, a[1])
    BY <1>8, <2>1 DEF Grows
  <2>3. Safe(u, b, Unread \cup Taken)
    <3>1. \A x \in Address \cap (Unread \cup Taken) : x \in (Unread \cup Taken) \ {} \/ x[1] \in {}
      OBVIOUS
    <3> QED BY <1>4, <1>8, <3>1 DEF Grows
  <2>4. a \in Address \cap (Unread \cup Taken)
    BY <1>10, <1>13
  <2>5. u \in Station
    BY <1>9 DEF Well
  <2> QED BY <2>2, <2>3, <2>4, <2>5, SafeUnread
<1>14. \E d, e \in Nat : /\ Well(Enter(u, line, reads), d, e, at', s, job) /\ e - d = (b + 1) - b - 1
                         /\ e <= b + 1 /\ Grows(u, b, Enter(u, line, reads), d, reads, {})
                         /\ Carries(u, b, b + 1, Enter(u, line, reads), d, e, s, job)
  <2>1. b < b + 1
    BY <1>1
  <2>2. \A m : Fills(line, m) <=> m \in {}
    BY <1>12 DEF Fills, IsWrite
  <2>3. WritesOwn(line, job) /\ line.type # "init"
    BY <1>12 DEF WritesOwn, IsWrite
  <2> QED BY <1>9, <1>11, <1>12, <1>13, <2>1, <2>2, <2>3, EnterWell
<1>15. PICK d, e \in Nat : /\ Well(rs', d, e, at', s, job) /\ e - d = (b + 1) - b - 1
                           /\ Grows(u, b, rs', d, reads, {})
                           /\ Carries(u, b, b + 1, rs', d, e, s, job)
  BY <1>2, <1>14
<1>16. Well(rs', d, d, at', s, job) /\ Issued(rs, b, rs', d, d, s, job)
  <2>1. e = d
    BY <1>1, <1>15
  <2> QED BY <1>9, <1>15, <2>1 DEF Carries
<1>17. Grows(rs, b, rs', d, reads, {})
  <2>1. Ring(u, b, b + 1)
    BY <1>9 DEF Well, Whole
  <2>2. Grows(rs, b, rs', d, {} \cup reads, {} \cup {})
    BY <1>4, <1>8, <1>15, <2>1, GrowsTransitive
  <2>3. {} \cup reads = reads /\ {} \cup {} = {}
    OBVIOUS
  <2> QED BY <2>2, <2>3
<1>18. /\ at'[set] \in {"pulling", "take"} /\ offset'[set] = NoOffsets
       /\ \A t \in Sets : t # set => at'[t] = at[t] /\ offset'[t] = offset[t]
  BY <1>2, <1>3 DEF AfterPull
<1>19. TypeOK'
  <2>1. rs' \in Station
    BY <1>16 DEF Well
  <2>2. at' \in [Sets -> {"take", "taking", "pull", "pulling", "write", "writing"}]
    BY <1>2, <1>3 DEF Places, AfterPull
  <2>3. NoOffsets \in [SetLvls -> Offsets \cup {NoOff}]
    BY DEF NoOffsets
  <2>4. offset' \in [Sets -> [SetLvls -> Offsets \cup {NoOff}]]
    BY <1>2, <1>3, <2>3
  <2> QED BY <1>1, <1>2, <2>1, <2>2, <2>4 DEF TypeOK
<1>20. TakenOnce'
  <2> SUFFICES ASSUME NEW t \in Sets, at'[t] \in {"taking", "pull"}
               PROVE  /\ path'[t] \in LeavesOf(t)
                      /\ \A lvl \in SetLvls : offset'[t][lvl] # NoOff =>
                           offset'[t][lvl] \notin unread'[P(path'[t], lvl)]
    BY DEF TakenOnce
  <2>1. t # set
    BY <1>18
  <2> QED BY <1>1, <1>2, <1>18, <2>1 DEF TakenOnce
<1>21. \A a \in Address \cap (Unread' \cup Taken') : a \in (Unread \cup Taken) \ reads \/ a[1] \in {}
  <2> SUFFICES ASSUME NEW a \in Address, a \in Unread' \cup Taken'
               PROVE  a \in (Unread \cup Taken) \ reads
    OBVIOUS
  <2>1. CASE a \in Unread'
    <3>1. a \in Unread
      BY <1>2, <2>1 DEF Unread
    <3> QED BY <1>10, <3>1
  <2>2. CASE a \in Taken'
    <3>1. PICK t \in Sets, lvl \in SetLvls : /\ at'[t] \in {"taking", "pull"} /\ offset'[t][lvl] # NoOff
                                             /\ a = <<P(path'[t], lvl), offset'[t][lvl]>>
      BY <2>2 DEF Taken
    <3>2. t # set
      BY <1>18, <3>1
    <3>3. at[t] \in {"taking", "pull"} /\ offset[t][lvl] # NoOff /\ a = <<P(path[t], lvl), offset[t][lvl]>>
      BY <1>2, <1>18, <3>1, <3>2
    <3>4. a \in Taken /\ a[1] \in SetNodes(t)
      BY <1>1, <3>3, TakenAt
    <3>5. a \notin reads
      BY <1>10, <3>2, <3>4, NodesApart
    <3> QED BY <3>4, <3>5
  <2> QED BY <2>1, <2>2
<1>22. Safe(rs', d, Unread' \cup Taken')
  BY <1>4, <1>17, <1>21 DEF Grows
<1>26. Holds(d)'
  <2>1. Whole(rs', d, d, at') /\ HeadWaits(rs', d)
    BY <1>16 DEF Well
  <2> QED BY <1>22, <2>1 DEF Holds
<1>23. IInv'
  BY <1>19, <1>20, <1>26 DEF IInv
<1>24. NoLineIsOverwritten
  <2>1. Keeps(rs, b, rs')
    BY <1>17 DEF Grows
  <2> QED BY <1>1, <1>4, <2>1, KeptLines
<1>25. RoomIsLeft
  BY <1>18, NotTaking
<1>27. Ordered(b, d)
  <2>1. rs' \in Station /\ Steps(rs', d) /\ d < N
    BY <1>16 DEF Well, Whole, Ring
  <2>2. Registered(rs, b, rs', d, job)
    BY <1>3, <1>16, <2>1, QueueIssued
  <2> QED BY <1>7, <2>2 DEF Ordered
<1> QED BY <1>1, <1>23, <1>24, <1>25, <1>26, <1>27 DEF GoodStep

LEMMA WritebackGood ==
  ASSUME IInv, NEW set \in Sets, NEW leaf \in LeavesOf(set), Writeback(set, leaf)
  PROVE  GoodStep
<1> DEFINE job == JobOf(set, 5)
           u   == Share(rs, job, 2)
           pull == Line("write-pull", leaf, NoNode)
           push == Line("write-push", leaf, NoNode)
           lvls == Readable(leaf) \ Forwarded(u, pull, leaf)
           reads(pulled) == UNION {{P(leaf, lvl)} \X pulled[lvl] : lvl \in lvls}
           nodes == SetPath(leaf)
           M == nodes \cup {NoNode}
<1>1. PICK b \in Nat : TypeOK /\ TakenOnce /\ Holds(b)
  BY DEF IInv
<1>2. /\ at[set] = "write" /\ ~StructHazard(rs, EvaluateNextTask(path[set]))
      /\ unread' = [x \in Nodes |-> IF x \in nodes THEN Offsets ELSE unread[x]]
      /\ at' = [at EXCEPT ![set] = "writing"]
      /\ path' = path /\ offset' = offset /\ set_cnt' = set_cnt
  BY DEF Writeback
<1>3. PICK pulled \in [SetLvls -> SUBSET Offsets] :
        /\ \A lvl \in SetLvls : pulled[lvl] \in kSubset(Z, unread[P(leaf, lvl)])
        /\ rs' = [Enter(Enter(u, pull, reads(pulled)), push, {}) EXCEPT !.node_id_vec = leaf]
  BY DEF Writeback, RegisterWrite
<1> DEFINE R == reads(pulled)
           v == Enter(u, pull, R)
           r == Enter(v, push, {})
<1>4. /\ rs \in Station /\ unread \in [Nodes -> SUBSET Offsets] /\ at \in [Sets -> Places]
      /\ leaf \in Leaves /\ leaf \in LeavesOf(set)
  BY <1>1, PlacesType, LeavesOfSet
<1>5. /\ Whole(rs, b, b, at) /\ HeadWaits(rs, b) /\ Safe(rs, b, Unread \cup Taken)
      /\ Ring(rs, b, b) /\ b < N /\ N \in Nat
  BY <1>1, Sizes DEF Holds, Whole, Ring
<1>6. b + 2 < N
  <2> DEFINE n == Cardinality(EarlyLvls(path[set]))
  <2>1. n \in Nat /\ EvaluateNextTask(path[set]) = 3 + 2 * n /\ EvaluateNextTask(path[set]) \in 0 .. N
    BY EarlyCount
  <2> HIDE DEF n
  <2>2. b + EvaluateNextTask(path[set]) <= N
    BY <1>2, <1>4, <1>5, <2>1, RoomFor
  <2> QED BY <1>5, <2>1, <2>2
<1>7. /\ job \in Job /\ job.set = set /\ job.step = 5 /\ at[set] \in Idle /\ Due(job) = "writing"
  <2> DEFINE wb == set_cnt[set] = 0
  <2>1. wb \in BOOLEAN /\ job = [set |-> set, step |-> 5, wb |-> wb]
    BY DEF JobOf
  <2> HIDE DEF wb, job
  <2>2. job \in Job /\ job.set = set /\ job.step = 5
    BY <2>1 DEF Job
  <2> QED BY <1>2, <2>2 DEF Due, Idle
<1> HIDE DEF job
<1>8. /\ \E s \in LineIds : Well(u, b, b + 2, at', s, job) /\ Issued(rs, b, u, b, b + 2, s, job)
      /\ Grows(rs, b, u, b, {}, {})
  <2> DEFINE m == 2
  <2>1. /\ m \in Nat /\ m >= 1 /\ b + m < N /\ b + 2 = b + m /\ u = Share(rs, job, m)
    BY <1>6
  <2> HIDE DEF m, u
  <2>2. /\ \E s \in LineIds : /\ Well(u, b, b + m, [at EXCEPT ![job.set] = "writing"], s, job)
                              /\ Issued(rs, b, u, b, b + m, s, job)
        /\ Grows(rs, b, u, b, {}, {})
    BY <1>4, <1>5, <1>7, <2>1, ShareWell
  <2> QED BY <1>2, <1>7, <2>1, <2>2
<1>9. PICK s \in LineIds : Well(u, b, b + 2, at', s, job) /\ Issued(rs, b, u, b, b + 2, s, job)
  BY <1>8
<1> HIDE DEF u
<1>10. nodes \subseteq SetNodes(set) /\ nodes \subseteq Nodes
  <2>1. nodes \subseteq SetNodes(set)
    BY DEF SetNodes
  <2> QED BY <2>1, NodesApart
<1>11. \A m \in nodes : Unwritten(rs, b, m) /\ Unwritten(u, b, m)
  <2>1. \A m \in nodes : Unwritten(rs, b, m)
    BY <1>4, <1>5, <1>7, <1>10, IdleUnwritten
  <2> QED BY <1>8, <2>1 DEF Grows
<1>12. ASSUME NEW a \in R PROVE a \in Address /\ a \in Unread /\ a[1] \in nodes
  <2>1. PICK lvl \in lvls : a \in {P(leaf, lvl)} \X pulled[lvl]
    BY <1>12
  <2>2. lvl \in SetLvls
    BY DEF Readable
  <2>3. pulled[lvl] \subseteq unread[P(leaf, lvl)]
    BY <1>3, <2>2 DEF kSubset
  <2>4. P(leaf, lvl) \in Nodes /\ P(leaf, lvl) \in nodes
    BY <1>4, <2>2, PathOfSet
  <2>5. a[1] = P(leaf, lvl) /\ a[2] \in unread[a[1]] /\ a = <<a[1], a[2]>>
    BY <2>1, <2>3
  <2>6. a \in Address
    BY <1>4, <2>4, <2>5 DEF Address
  <2> QED BY <2>4, <2>5, <2>6 DEF Unread
<1> HIDE DEF reads, R
<1>13. R \in SUBSET Address
  BY <1>12
\* The line that reads.
<1>14. pull \in RsLine /\ pull.type = "write-pull"
  BY <1>4, LineTypes DEF Line
<1>15. /\ push \in RsLine /\ push.type = "write-push" /\ push.leaf = leaf /\ push.node = NoNode
  BY <1>4, LineTypes DEF Line
<1> HIDE DEF pull, push
<1>17. ASSUME NEW a \in R PROVE u.mshr_array[a] = <<>> /\ Unwritten(u, b, a[1])
  <2>1. Unwritten(u, b, a[1])
    BY <1>11, <1>12, <1>17
  <2>2. Safe(u, b, Unread \cup Taken)
    <3>1. \A x \in Address \cap (Unread \cup Taken) : x \in (Unread \cup Taken) \ {} \/ x[1] \in {}
      OBVIOUS
    <3> QED BY <1>5, <1>8, <3>1 DEF Grows
  <2>3. a \in Address \cap (Unread \cup Taken)
    BY <1>12, <1>17
  <2>4. u \in Station
    BY <1>9 DEF Well
  <2> QED BY <2>1, <2>2, <2>3, <2>4, SafeUnread
<1>18. \E d, e \in Nat : /\ Well(v, d, e, at', s, job) /\ e - d = (b + 2) - b - 1 /\ e <= b + 2
                         /\ Grows(u, b, v, d, R, {})
                         /\ Carries(u, b, b + 2, v, d, e, s, job)
  <2>1. b < b + 2
    BY <1>1
  <2>2. \A m : Fills(pull, m) <=> m \in {}
    BY <1>14 DEF Fills, IsWrite
  <2>3. WritesOwn(pull, job) /\ pull.type # "init"
    BY <1>14 DEF WritesOwn, IsWrite
  <2> QED BY <1>9, <1>13, <1>14, <1>17, <2>1, <2>2, <2>3, EnterWell
<1>19. PICK d, e \in Nat : /\ Well(v, d, e, at', s, job) /\ e - d = (b + 2) - b - 1
                           /\ Grows(u, b, v, d, R, {})
                           /\ Carries(u, b, b + 2, v, d, e, s, job)
  BY <1>18
<1>20. e = d + 1 /\ d < e /\ e - d - 1 = 0
  BY <1>1, <1>19
<1> HIDE DEF v
\* The line that writes.
<1>21. \E x, y \in Nat : /\ Well(r, x, y, at', s, job) /\ y - x = e - d - 1 /\ y <= e
                         /\ Grows(v, d, r, x, {}, M)
                         /\ Carries(v, d, e, r, x, y, s, job)
  <2>1. \A m : Fills(push, m) <=> m \in M
    <3>1. leaf # NoLeaf
      BY <1>4, NoValues
    <3>2. \A m \in nodes : m # NoNode
      BY <1>10, NoValues
    <3> QED BY <1>15, <3>1, <3>2 DEF Fills, IsWrite
  <2>2. WritesOwn(push, job) /\ push.type # "init"
    BY <1>4, <1>7, <1>15 DEF WritesOwn, IsWrite
  <2>3. {} \in SUBSET Address /\ \A a \in {} : v.mshr_array[a] = <<>> /\ Unwritten(v, d, a[1])
    OBVIOUS
  <2> HIDE DEF M
  <2> QED BY <1>15, <1>19, <1>20, <2>1, <2>2, <2>3, EnterWell
<1>22. PICK x, y \in Nat : /\ Well(r, x, y, at', s, job) /\ y - x = e - d - 1
                           /\ Grows(v, d, r, x, {}, M)
                           /\ Carries(v, d, e, r, x, y, s, job)
  BY <1>21
<1>23. Well(r, x, x, at', s, job) /\ Issued(rs, b, r, x, x, s, job)
  <2>1. y = x
    BY <1>20, <1>22
  <2>2. Issued(rs, b, v, d, e, s, job)
    BY <1>9, <1>19 DEF Carries
  <2> QED BY <1>22, <2>1, <2>2 DEF Carries
<1> HIDE DEF r, nodes, M
<1>24. Grows(rs, b, r, x, R, M)
  <2>1. Ring(u, b, b + 2) /\ Ring(v, d, e)
    BY <1>9, <1>19 DEF Well, Whole
  <2>2. Grows(rs, b, v, d, {} \cup R, {} \cup {})
    BY <1>5, <1>8, <1>19, <2>1, GrowsTransitive
  <2>3. {} \cup R = R /\ {} \cup {} = {} /\ R \cup {} = R /\ {} \cup M = M
    OBVIOUS
  <2>4. Grows(rs, b, v, d, R, {})
    BY <2>2, <2>3
  <2>5. Grows(rs, b, r, x, R \cup {}, {} \cup M)
    BY <1>5, <1>22, <2>1, <2>4, GrowsTransitive
  <2> QED BY <2>3, <2>5
<1>25. r \in Station /\ Whole(r, x, x, at') /\ HeadWaits(r, x)
  BY <1>23 DEF Well
<1>26. rs' = [r EXCEPT !.node_id_vec = leaf]
  BY <1>3 DEF r, v, R
<1>27. SameLines(r, rs') /\ rs'.ready_to_pop = r.ready_to_pop
  BY <1>4, <1>25, <1>26, NodeFields
<1>28. Jobs(rs', x, at')
  BY <1>25, <1>27, NodeJobs DEF Whole
<1>29. /\ Whole(rs', x, x, at') /\ HeadWaits(rs', x)
       /\ \A F : Safe(r, x, F) => Safe(rs', x, F)
  BY <1>25, <1>27, <1>28, SameLinesHold
<1>30. rs' \in Station /\ rs'.vec = r.vec
  BY <1>27 DEF SameLines
<1>31. at'[set] = "writing" /\ \A t \in Sets : t # set => at'[t] = at[t]
  BY <1>2, <1>4
<1>32. \A m \in Nodes : unread'[m] = IF m \in nodes THEN Offsets ELSE unread[m]
  BY <1>2
<1>33. TypeOK'
  <2>1. at' \in [Sets -> {"take", "taking", "pull", "pulling", "write", "writing"}]
    BY <1>2, <1>4 DEF Places
  <2>2. unread' \in [Nodes -> SUBSET Offsets]
    BY <1>2, <1>4
  <2> QED BY <1>1, <1>2, <1>30, <2>1, <2>2 DEF TypeOK
<1>34. ASSUME NEW t \in Sets, at'[t] \in {"taking", "pull"}
       PROVE  t # set /\ at[t] \in {"taking", "pull"} /\ path[t] \in LeavesOf(t)
  <2>1. t # set
    BY <1>31, <1>34
  <2> QED BY <1>1, <1>31, <1>34, <2>1 DEF TakenOnce
<1>35. TakenOnce'
  <2> SUFFICES ASSUME NEW t \in Sets, at'[t] \in {"taking", "pull"}, NEW lvl \in SetLvls,
                      offset[t][lvl] # NoOff
               PROVE  offset[t][lvl] \notin unread'[P(path[t], lvl)]
    BY <1>2, <1>34 DEF TakenOnce
  <2>1. P(path[t], lvl) \in SetNodes(t) /\ P(path[t], lvl) \in Nodes
    BY <1>34, PathOfSet
  <2>2. P(path[t], lvl) \notin nodes
    BY <1>10, <1>34, <2>1, NodesApart
  <2> QED BY <1>1, <1>32, <1>34, <2>1, <2>2 DEF TakenOnce
<1>36. \A a \in Address \cap (Unread' \cup Taken') : a \in (Unread \cup Taken) \ R \/ a[1] \in nodes
  <2> SUFFICES ASSUME NEW a \in Address, a \in Unread' \cup Taken', a[1] \notin nodes
               PROVE  a \in (Unread \cup Taken) \ R
    OBVIOUS
  <2>1. a[1] \in Nodes /\ a \notin R
    BY <1>12 DEF Address
  <2>2. CASE a \in Unread'
    <3>1. a \in Unread
      BY <1>32, <2>1, <2>2 DEF Unread
    <3> QED BY <2>1, <3>1
  <2>3. CASE a \in Taken'
    <3>1. PICK t \in Sets, lvl \in SetLvls : /\ at'[t] \in {"taking", "pull"} /\ offset'[t][lvl] # NoOff
                                             /\ a = <<P(path'[t], lvl), offset'[t][lvl]>>
      BY <2>3 DEF Taken
    <3>2. at[t] \in {"taking", "pull"} /\ offset[t][lvl] # NoOff /\ a = <<P(path[t], lvl), offset[t][lvl]>>
      BY <1>2, <1>34, <3>1
    <3>3. a \in Taken
      BY <3>2 DEF Taken
    <3> QED BY <2>1, <3>3
  <2> QED BY <2>2, <2>3
<1>37. Safe(rs', x, Unread' \cup Taken')
  <2>1. \A a \in Address \cap (Unread' \cup Taken') : a \in (Unread \cup Taken) \ R \/ a[1] \in M
    BY <1>36 DEF M
  <2>2. Safe(r, x, Unread' \cup Taken')
    BY <1>5, <1>24, <2>1 DEF Grows
  <2> QED BY <1>29, <2>2
<1>41. Holds(x)'
  BY <1>29, <1>37 DEF Holds
<1>38. IInv'
  BY <1>33, <1>35, <1>41 DEF IInv
<1>39. NoLineIsOverwritten
  <2>1. Keeps(rs, b, rs')
    BY <1>24, <1>30 DEF Grows, Keeps
  <2> QED BY <1>1, <1>5, <2>1, KeptLines
<1>40. RoomIsLeft
  BY <1>31, NotTaking
<1>42. Ordered(b, x)
  <2>1. r \in Station /\ Steps(r, x) /\ x < N /\ x <= N
    BY <1>23, Sizes DEF Well, Whole, Ring
  <2>2. Registered(rs, b, r, x, job)
    BY <1>4, <1>23, <2>1, QueueIssued
  <2>3. Registered(rs, b, rs', x, job)
    BY <1>27, <2>1, <2>2, SameLinesRegistered
  <2> QED BY <1>7, <2>3 DEF Ordered
<1> QED BY <1>1, <1>38, <1>39, <1>40, <1>41, <1>42 DEF GoodStep

LEMMA MshrRemoveGood ==
  ASSUME IInv, NEW a \in Address, MshrRemove(a)
  PROVE  GoodStep
<1> DEFINE t == Satisfy(rs, a)
           goes == rs.head \in Range(rs.mshr_array[a]) /\ t.vec[rs.head].ready
<1>1. PICK b \in Nat : TypeOK /\ TakenOnce /\ Holds(b)
  BY DEF IInv
<1>2. /\ rs' = (IF goes THEN CommitAll(t) ELSE t)
      /\ unread' = unread /\ at' = at /\ path' = path /\ offset' = offset /\ set_cnt' = set_cnt
  BY DEF MshrRemove
<1>3. rs \in Station /\ Whole(rs, b, b, at) /\ HeadWaits(rs, b) /\ Safe(rs, b, Unread \cup Taken)
  BY <1>1, PlacesType DEF Holds
<1>4. Ring(rs, b, b) /\ Counted(rs, b)
  BY <1>3 DEF Whole
<1>5. /\ SatisfyChanges(rs, t, a) /\ Whole(t, b, b, at)
      /\ \A F : Safe(rs, b, F) => Safe(t, b, F)
  BY <1>3, SatisfyWell
<1> HIDE DEF t
<1>6. /\ t \in Station /\ t.head = rs.head /\ t.mshr_array = [rs.mshr_array EXCEPT ![a] = <<>>]
      /\ Ring(t, b, b) /\ Counted(t, b)
  BY <1>5 DEF SatisfyChanges, Whole
<1>7. Safe(t, b, Unread \cup Taken)
  BY <1>3, <1>5
\* The lines that are ready leave.
<1>8. \E d \in Nat : /\ Shrinks(t, b, rs', d) /\ Whole(rs', d, d, at) /\ HeadWaits(rs', d)
  <2>1. CASE goes
    <3>1. \E d : Shrinks(t, b, CommitAll(t), d) /\ Whole(CommitAll(t), d, d, at)
                   /\ HeadWaits(CommitAll(t), d)
      BY <1>5, <1>6, CommitAllWell
    <3>2. \A d : Shrinks(t, b, CommitAll(t), d) => d \in Nat
      BY DEF Shrinks
    <3> QED BY <1>2, <2>1, <3>1, <3>2
  <2>2. CASE ~goes
    <3>1. rs' = t
      BY <1>2, <2>2
    <3>2. Shrinks(t, b, t, b)
      BY <1>1, <1>6, AnsweredNone DEF Shrinks
    <3>3. HeadWaits(t, b)
      <4>1. rs.head \in LineIds
        BY <1>3, StationFields
      <4>2. CASE rs.head \in Range(rs.mshr_array[a])
        BY <1>6, <2>2, <4>2 DEF HeadWaits
      <4>3. CASE rs.head \notin Range(rs.mshr_array[a])
        <5>1. t.vec[rs.head] = rs.vec[rs.head]
          BY <1>5, <4>1, <4>3 DEF SatisfyChanges
        <5> QED BY <1>3, <1>6, <5>1 DEF HeadWaits
      <4> QED BY <4>2, <4>3
    <3> QED BY <1>1, <1>5, <3>1, <3>2, <3>3
  <2> QED BY <2>1, <2>2
<1>9. PICK d \in Nat : /\ Shrinks(t, b, rs', d) /\ Whole(rs', d, d, at) /\ HeadWaits(rs', d)
  BY <1>8
<1>10. rs' \in Station /\ Safe(rs', d, Unread \cup Taken) /\ rs'.mshr_array = t.mshr_array
  BY <1>7, <1>9 DEF Shrinks
<1>11. TypeOK'
  BY <1>1, <1>2, <1>10 DEF TypeOK
<1>12. TakenOnce'
  BY <1>1, <1>2 DEF TakenOnce
<1>16. Holds(d)'
  <2>1. Unread' = Unread /\ Taken' = Taken
    BY <1>2 DEF Unread, Taken
  <2> QED BY <1>2, <1>9, <1>10, <2>1 DEF Holds
<1>13. IInv'
  BY <1>11, <1>12, <1>16 DEF IInv
<1>14. NoLineIsOverwritten
  <2> SUFFICES ASSUME NEW l \in Busy
               PROVE  LET line == rs.vec[l]   line2 == rs'.vec[l] IN
                      \/ /\ ~line2.valid
                         /\ \A x \in Address : l \in Range(rs.mshr_array[x]) => rs'.mshr_array[x] = <<>>
                      \/ /\ line2.type = line.type /\ line2.leaf = line.leaf /\ line2.node = line.node
                         /\ line2.unfinished <= line.unfinished
    BY DEF NoLineIsOverwritten
  <2>1. l \in LineIds /\ InUse(rs.vec[l])
    BY DEF Busy, InUse
  <2>2. Old(rs, l) < b /\ Old(t, l) < b
    BY <1>4, <1>6, <2>1 DEF Ring, Old
  <2>3. rs.vec[l].unfinished \in Nat
    <3>1. rs.vec[l] \in RsLine
      BY <1>3, <2>1, StationFields
    <3> QED BY <3>1, LineFields
  <2>4. /\ t.vec[l].type = rs.vec[l].type /\ t.vec[l].leaf = rs.vec[l].leaf
        /\ t.vec[l].node = rs.vec[l].node
        /\ t.vec[l].unfinished <= rs.vec[l].unfinished
    <3>1. CASE l \in Range(rs.mshr_array[a])
      BY <1>5, <2>1, <2>3, <3>1 DEF SatisfyChanges
    <3>2. CASE l \notin Range(rs.mshr_array[a])
      BY <1>5, <2>1, <2>3, <3>2 DEF SatisfyChanges
    <3> QED BY <3>1, <3>2
  <2>5. CASE rs'.vec[l] = t.vec[l]
    BY <2>4, <2>5
  <2>6. CASE t.vec[l].ready /\ ~rs'.vec[l].valid
    <3>1. Cardinality(Awaited(t, l)) = 0
      BY <1>6, <2>1, <2>2, <2>6 DEF Counted
    <3>2. Awaited(t, l) = {}
      BY <3>1, FiniteParts, FS_EmptySet
    <3>3. ASSUME NEW x \in Address, l \in Range(rs.mshr_array[x]) PROVE rs'.mshr_array[x] = <<>>
      <4>1. rs.mshr_array \in [Address -> Seq(LineIds)]
        BY <1>3, StationFields
      <4>2. CASE x = a
        BY <1>6, <1>10, <4>1, <4>2
      <4>3. CASE x # a
        <5>1. t.mshr_array[x] = rs.mshr_array[x]
          BY <1>6, <4>1, <4>3
        <5> QED BY <3>2, <3>3, <5>1 DEF Awaited
      <4> QED BY <4>2, <4>3
    <3> QED BY <2>6, <3>3
  <2> QED BY <1>9, <2>1, <2>2, <2>5, <2>6 DEF Shrinks
<1>15. RoomIsLeft
  BY <1>2, NotTaking
<1>17. Ordered(b, d)
  <2>1. t.ready_to_pop = rs.ready_to_pop /\ Queue(t)[b] = Queue(rs)[b]
    <3>1. /\ t.ready_to_pop = rs.ready_to_pop /\ t.head = rs.head
          /\ t.task_map = rs.task_map /\ t.job = rs.job
      BY <1>5 DEF SatisfyChanges
    <3>2. b <= N
      BY <1>4, Sizes DEF Ring
    <3> QED BY <1>1, <1>3, <1>6, <3>1, <3>2, QueueFrame
  <2>2. Answered(t, b, rs', d)
    BY <1>9 DEF Shrinks
  <2>3. Answered(rs, b, rs', d)
    BY <2>1, <2>2 DEF Answered
  <2> QED BY <2>3 DEF Ordered
<1> QED BY <1>1, <1>13, <1>14, <1>15, <1>16, <1>17 DEF GoodStep

LEMMA PopReadyGood ==
  ASSUME IInv, PopReady
  PROVE  GoodStep
<1> DEFINE job == Head(rs.ready_to_pop)
<1>1. PICK b \in Nat : TypeOK /\ TakenOnce /\ Holds(b)
  BY DEF IInv
<1>2. /\ rs.ready_to_pop # <<>> /\ rs' = [rs EXCEPT !.ready_to_pop = Tail(@)]
      /\ at' = (CASE job.step = 2 -> [at EXCEPT ![job.set] = "pull"]
                  [] job.step = 3 /\ job.wb -> [at EXCEPT ![job.set] = "write"]
                  [] job.step = 3 /\ ~job.wb -> at
                  [] job.step = 5 -> [at EXCEPT ![job.set] = "take"])
      /\ unread' = unread /\ path' = path /\ offset' = offset /\ set_cnt' = set_cnt
  BY DEF PopReady
<1>3. rs \in Station /\ Whole(rs, b, b, at) /\ HeadWaits(rs, b) /\ Safe(rs, b, Unread \cup Taken)
  BY <1>1, PlacesType DEF Holds
<1>4. at \in [Sets -> Places] /\ rs.ready_to_pop \in Seq(Job)
  BY <1>1, <1>3, PlacesType, StationFields
<1>5. /\ job \in Job /\ Tail(rs.ready_to_pop) \in Seq(Job)
      /\ 1 \in DOMAIN rs.ready_to_pop /\ job = rs.ready_to_pop[1]
  BY <1>2, <1>4
<1> HIDE DEF job
<1>6. job.set \in Sets /\ job.step \in {2, 3, 5} /\ job.wb \in BOOLEAN
  BY <1>5 DEF Job
\* Where the task goes, if it awaited the step; it awaited no other.
<1>7. /\ at' \in [Sets -> Places]
      /\ \A t \in Sets : ~Awaits(job) \/ t # job.set => at'[t] = at[t]
      /\ at'[job.set] = "taking" => at[job.set] = "taking"
      /\ at'[job.set] = "pull" => job.step = 2 \/ at[job.set] = "pull"
  <2>1. CASE job.step = 2
    <3>1. at' = [at EXCEPT ![job.set] = "pull"]
      BY <1>2, <2>1
    <3> QED BY <1>4, <1>6, <2>1, <3>1 DEF Places, Awaits
  <2>2. CASE job.step = 3 /\ job.wb
    <3>1. at' = [at EXCEPT ![job.set] = "write"]
      BY <1>2, <2>2
    <3> QED BY <1>4, <1>6, <2>2, <3>1 DEF Places, Awaits
  <2>3. CASE job.step = 3 /\ ~job.wb
    <3>1. at' = at
      BY <1>2, <2>3
    <3> QED BY <1>4, <1>6, <3>1
  <2>4. CASE job.step = 5
    <3>1. at' = [at EXCEPT ![job.set] = "take"]
      BY <1>2, <2>4
    <3> QED BY <1>4, <1>6, <2>4, <3>1 DEF Places, Awaits
  <2> QED BY <1>6, <2>1, <2>2, <2>3, <2>4
<1>8. SameLines(rs, rs') /\ rs'.ready_to_pop = Tail(rs.ready_to_pop)
  BY <1>2, <1>3, <1>5, AnswersFields
<1>9. Jobs(rs', b, at')
  <2>1. Jobs(rs, b, at)
    BY <1>3 DEF Whole
  <2>2. \A t \in Sets : ~Awaits(Head(rs.ready_to_pop)) \/ t # Head(rs.ready_to_pop).set => at'[t] = at[t]
    BY <1>7 DEF job
  <2> DEFINE t == rs'
             p == at'
             r == rs
             q == at
  <2>3. /\ r \in Station /\ Jobs(r, b, q) /\ r.ready_to_pop # <<>> /\ SameLines(r, t)
        /\ t.ready_to_pop = Tail(r.ready_to_pop)
        /\ \A x \in Sets : ~Awaits(Head(r.ready_to_pop)) \/ x # Head(r.ready_to_pop).set
             => p[x] = q[x]
    BY <1>2, <1>3, <1>8, <2>1, <2>2
  <2> HIDE DEF t, p, r, q
  <2>4. Jobs(t, b, p)
    BY <2>3, TailJobs
  <2> QED BY <2>4 DEF t, p
<1>10. /\ Whole(rs', b, b, at') /\ HeadWaits(rs', b)
       /\ \A F : Safe(rs, b, F) => Safe(rs', b, F)
  BY <1>3, <1>8, <1>9, SameLinesHold
<1>11. rs' \in Station /\ rs'.vec = rs.vec
  BY <1>8 DEF SameLines
<1>12. TypeOK'
  BY <1>1, <1>2, <1>7, <1>11 DEF TypeOK, Places
<1>13. \A t \in Sets : at'[t] \in {"taking", "pull"} => at[t] \in {"taking", "pull"}
  <2> SUFFICES ASSUME NEW t \in Sets, at'[t] \in {"taking", "pull"} PROVE at[t] \in {"taking", "pull"}
    OBVIOUS
  <2>1. CASE t # job.set
    BY <1>7, <2>1
  <2>2. CASE t = job.set /\ job.step = 2
    <3>1. Awaits(job) /\ Due(job) = "taking"
      BY <2>2 DEF Awaits, Due
    <3>2. Jobs(rs, b, at)
      BY <1>3 DEF Whole
    <3>3. at[job.set] = "taking"
      BY <1>5, <3>1, <3>2 DEF Jobs
    <3> QED BY <2>2, <3>3
  <2>3. CASE t = job.set /\ job.step # 2
    BY <1>7, <2>3
  <2> QED BY <2>1, <2>2, <2>3
<1>14. TakenOnce'
  BY <1>1, <1>2, <1>13 DEF TakenOnce
<1>15. Unread' = Unread /\ Taken' \subseteq Taken
  BY <1>2, <1>13 DEF Unread, Taken
<1>16. Safe(rs', b, Unread' \cup Taken')
  <2>1. Safe(rs, b, Unread' \cup Taken')
    BY <1>3, <1>15 DEF Safe
  <2> QED BY <1>10, <2>1
<1>20. Holds(b)'
  BY <1>10, <1>16 DEF Holds
<1>17. IInv'
  BY <1>12, <1>14, <1>20 DEF IInv
<1>18. NoLineIsOverwritten
  <2>1. Keeps(rs, b, rs') /\ Ring(rs, b, b)
    BY <1>3, <1>11 DEF Keeps, Whole
  <2> QED BY <1>1, <2>1, KeptLines
<1>19. RoomIsLeft
  <2>1. \A t \in Sets : at'[t] = "taking" => at[t] = "taking"
    BY <1>7
  <2> QED BY <2>1, NotTaking
<1>21. Ordered(b, b)
  <2>1. b <= N
    BY <1>3, Sizes DEF Whole, Ring
  <2>2. Queue(rs')[b] = Queue(rs)[b]
    BY <1>1, <1>3, <1>8, <2>1, SameLinesQueue
  <2> QED BY <1>2, <1>8, <2>2 DEF Ordered
<1> QED BY <1>1, <1>17, <1>18, <1>19, <1>20, <1>21 DEF GoodStep

-----------------------------------------------------------------------------
(***************************************************************************)
(* The theorems.                                                           *)
(***************************************************************************)
LEMMA NextGood ==
  ASSUME IInv, Next
  PROVE  GoodStep
<1>1. CASE \E set \in Sets : \E leaf \in LeavesOf(set) \cap Paths :
             TakeSlots(set, leaf) \/ Writeback(set, leaf)
  <2>0. PICK set \in Sets : \E leaf \in LeavesOf(set) \cap Paths :
                              TakeSlots(set, leaf) \/ Writeback(set, leaf)
    BY <1>1
  <2>1. PICK leaf \in LeavesOf(set) : TakeSlots(set, leaf) \/ Writeback(set, leaf)
    BY <2>0
  <2>2. CASE TakeSlots(set, leaf)
    BY <2>2, TakeSlotsGood
  <2>3. CASE Writeback(set, leaf)
    BY <2>3, WritebackGood
  <2> QED BY <2>1, <2>2, <2>3
<1>2. CASE \E set \in Sets : Pull(set)
  BY <1>2, PullGood
<1>3. CASE MemoryAnswers
  BY <1>3, MshrRemoveGood DEF MemoryAnswers
<1>4. CASE PopReady
  BY <1>4, PopReadyGood
<1> QED BY <1>1, <1>2, <1>3, <1>4 DEF Next

LEMMA StutterHolds ==
  ASSUME IInv, UNCHANGED vars
  PROVE  IInv'
<1>1. /\ rs' = rs /\ unread' = unread /\ at' = at /\ path' = path
      /\ offset' = offset /\ set_cnt' = set_cnt
  BY DEF vars
<1>2. PICK b \in Nat : TypeOK /\ TakenOnce /\ Holds(b)
  BY DEF IInv
<1>3. TypeOK' /\ TakenOnce'
  BY <1>1, <1>2 DEF TypeOK, TakenOnce
<1>4. Holds(b)'
  BY <1>1, <1>2 DEF Holds, Unread, Taken
<1> QED BY <1>3, <1>4 DEF IInv

\* In every reachable state the ring holds the lines between head and tail, each of
\* which waits for the reads it is listed for, no slot is asked for twice, no task
\* waits for two steps, and what a step may read next is not being read for a line
\* that no write follows.
THEOREM StationInvariance == Spec => []IInv
<1>1. Init => IInv
  BY InitHolds
<1>2. IInv /\ [Next]_vars => IInv'
  BY NextGood, StutterHolds DEF GoodStep
<1> QED BY <1>1, <1>2, PTL DEF Spec

\* The lines in use are the b oldest slots, seen from the head.
LEMMA LinesInUse ==
  ASSUME NEW r \in Station, NEW b, Ring(r, b, b)
  PROVE  LET D == {l \in LineIds : r.vec[l].valid /\ r.vec[l].type # "init"} IN
         D = {l \in LineIds : Old(r, l) < b} /\ Cardinality(D) = b
<1> DEFINE D == {l \in LineIds : r.vec[l].valid /\ r.vec[l].type # "init"}
<1>1. r.head \in LineIds /\ b \in Nat /\ b < N /\ N \in Nat
  BY StationFields, Sizes DEF Ring
<1>2. D = {l \in LineIds : Old(r, l) < b}
  BY DEF Ring, InUse
<1>3. D = {l \in LineIds : 0 <= AgeFrom(r.head, l) /\ AgeFrom(r.head, l) < b}
  <2>1. \A l \in LineIds : AgeFrom(r.head, l) \in 0 .. N - 1
    BY <1>1, AgeOfSlot
  <2>2. \A l \in LineIds : 0 <= AgeFrom(r.head, l)
    BY <2>1
  <2> QED BY <1>2, <2>2 DEF Old
<1>4. Cardinality({l \in LineIds : 0 <= AgeFrom(r.head, l) /\ AgeFrom(r.head, l) < b}) = b - 0
  <2>1. 0 \in 0 .. N /\ b \in 0 .. N /\ 0 <= b
    BY <1>1
  <2> QED BY <1>1, <2>1, AgesCounted
<1>5. b - 0 = b
  BY <1>1
<1> HIDE DEF D
<1>6. Cardinality(D) = b
  BY <1>3, <1>4, <1>5, Zenon
<1>7. D = {l \in LineIds : Old(r, l) < b} /\ Cardinality(D) = b
  BY <1>2, <1>6, Zenon
<1> QED BY <1>7, Zenon DEF D

LEMMA BusyLines ==
  ASSUME TypeOK, NEW b, Ring(rs, b, b)
  PROVE  /\ \A l \in LineIds : Age(l) = Old(rs, l)
         /\ Busy = {l \in LineIds : Old(rs, l) < b}
         /\ Cardinality(Busy) = b
<1>1. \A l \in LineIds : Age(l) = Old(rs, l)
  BY DEF Age, Old, AgeFrom, N
<1>2. rs \in Station
  BY DEF TypeOK
<1> QED BY <1>1, <1>2, LinesInUse DEF Busy

LEMMA InvCounts ==
  ASSUME IInv
  PROVE  LinesAreCounted
<1>1. PICK b \in Nat : TypeOK /\ Holds(b)
  BY DEF IInv
<1>2. Ring(rs, b, b) /\ Counted(rs, b) /\ Steps(rs, b) /\ HeadWaits(rs, b) /\ rs \in Station
  BY <1>1 DEF Holds, Whole, TypeOK
<1>3. /\ \A l \in LineIds : Age(l) = Old(rs, l)
      /\ Busy = {l \in LineIds : Old(rs, l) < b}
      /\ Cardinality(Busy) = b
  BY <1>1, <1>2, BusyLines
<1>4. \A l \in LineIds : l \in Busy => Age(l) < Cardinality(Busy)
  BY <1>3
<1>5. (rs.head + Cardinality(Busy)) % NumEntries = rs.tail
  BY <1>2, <1>3 DEF Ring, Slot, N
<1>6. ASSUME NEW l \in Busy
      PROVE  /\ rs.vec[l].unfinished = Cardinality({a \in Address : l \in Range(rs.mshr_array[a])})
             /\ rs.vec[l].ready = (rs.vec[l].unfinished = 0)
             /\ rs.cnt[rs.task_map[l]] =
                  Cardinality({k \in Busy : rs.task_map[k] = rs.task_map[l]})
  <2>1. l \in LineIds /\ Old(rs, l) < b
    BY <1>3
  <2>2. rs.vec[l].unfinished = Cardinality(Awaited(rs, l)) /\ (rs.vec[l].ready <=> rs.vec[l].unfinished = 0)
    BY <1>2, <2>1 DEF Counted
  <2>3. rs.vec[l].ready \in BOOLEAN
    BY <1>2, <2>1, StationFields, LineFields
  <2>4. rs.cnt[rs.task_map[l]] = Cardinality(Held(rs, b, rs.task_map[l]))
    BY <1>2, <2>1 DEF Steps
  <2>5. Held(rs, b, rs.task_map[l]) = {k \in Busy : rs.task_map[k] = rs.task_map[l]}
    BY <1>3 DEF Held
  <2> QED BY <2>2, <2>3, <2>4, <2>5 DEF Awaited
<1>7. BusyAreCounted
  BY <1>4, <1>5, <1>6 DEF BusyAreCounted
<1>8. HeadNotReady
  <2> SUFFICES ASSUME rs.head \in Busy PROVE ~rs.vec[rs.head].ready
    BY DEF HeadNotReady
  <2>1. rs.head \in LineIds /\ Old(rs, rs.head) < b
    BY <1>3
  <2>2. Old(rs, rs.head) = 0
    BY <2>1, AgeOfSlot DEF Old
  <2> QED BY <1>2, <2>1, <2>2 DEF HeadWaits
<1> QED BY <1>1, <1>7, <1>8 DEF LinesAreCounted

LEMMA InvFollows ==
  ASSUME IInv
  PROVE  ReadsFollowWrites
<1>1. PICK b \in Nat : TypeOK /\ Holds(b)
  BY DEF IInv
<1>2. Ring(rs, b, b) /\ Counted(rs, b) /\ Follow(rs, b) /\ rs \in Station
  BY <1>1 DEF Holds, Whole, TypeOK
<1>3. /\ \A l \in LineIds : Age(l) = Old(rs, l)
      /\ Busy = {l \in LineIds : Old(rs, l) < b}
  BY <1>1, <1>2, BusyLines
<1>4. OneReaderPerSlot
  BY <1>2 DEF OneReaderPerSlot, Counted
<1>5. ASSUME NEW a \in Address, NEW l \in Range(rs.mshr_array[a]), NEW w \in Busy,
             Writes(rs.vec[w], a[1])
      PROVE  Age(w) >= Age(l)
  <2>1. rs.mshr_array[a] \in Seq(LineIds)
    BY <1>2, StationFields
  <2>2. l \in LineIds
    BY <2>1 DEF Range
  <2>3. w \in LineIds /\ WritesTo(rs, b, w, a[1])
    BY <1>3, <1>5 DEF WritesTo
  <2>4. Old(rs, w) >= Old(rs, l)
    BY <1>2, <2>3 DEF Follow
  <2> QED BY <1>3, <2>2, <2>3, <2>4
<1> QED BY <1>4, <1>5 DEF ReadsFollowWrites

\* No answer of the memory is lost or counted twice, in whatever order they come:
\* every line in the ring is one between head and tail, waits for exactly the reads
\* it is listed for and is ready when none is left, the counter of a step is the
\* number of its lines, and no ready line is left at the head.
THEOREM LinesCounted == Spec => []LinesAreCounted
BY StationInvariance, InvCounts, PTL

\* Every slot is read for one line at most, and no bucket is read for a line that
\* was registered after a line that still has to write it.
THEOREM ReadsAfterWrites == Spec => []ReadsFollowWrites
BY StationInvariance, InvFollows, PTL

\* No step registers a line over one that has not left: the one look at the ring at
\* the start of a step finds room for all its lines, and for those of the next step.
THEOREM NothingOverwritten == Spec => NoLineOverwritten
<1>1. IInv /\ [Next]_vars => [NoLineIsOverwritten /\ RoomIsLeft]_vars
  BY NextGood DEF GoodStep
<1> QED BY <1>1, StationInvariance, PTL DEF Spec, NoLineOverwritten

-----------------------------------------------------------------------------
(***************************************************************************)
(* The station implements InOrderStation: the queue is that of the steps   *)
(* that hold lines, and the answers are those of the ring.                 *)
(***************************************************************************)
LEMMA QueuedStepsAre ==
  ASSUME TypeOK, NEW b, Holds(b)
  PROVE  QueuedSteps = Queue(rs)[b]
<1>1. rs \in Station /\ Ring(rs, b, b)
  BY DEF TypeOK, Holds, Whole
<1>2. Cardinality(Busy) = b
  BY <1>1, LinesInUse DEF Busy
<1>3. QueuedSteps = Queue(rs)[Cardinality(Busy)]
  BY DEF QueuedSteps, Queue
<1> QED BY <1>2, <1>3

LEMMA QueuedStepsWillBe ==
  ASSUME TypeOK', NEW b, Holds(b)'
  PROVE  QueuedSteps' = Queue(rs')[b]
<1>1. rs' \in Station /\ Ring(rs', b, b)
  BY DEF TypeOK, Holds, Whole
<1>2. Cardinality(Busy') = b
  BY <1>1, LinesInUse DEF Busy
<1>3. QueuedSteps' = Queue(rs')[Cardinality(Busy')]
  BY DEF QueuedSteps, Queue
<1> QED BY <1>2, <1>3

\* The steps X at the head of the queue q are answered.
LEMMA AnswerOfSteps ==
  ASSUME NEW X \in Seq(Job), NEW q \in Seq(Job), NEW p \in Seq(Job), q = X \o p
  PROVE  \/ X = <<>> /\ q = p
         \/ /\ Len(X) \in 1 .. Len(q) /\ X = SubSeq(q, 1, Len(X))
            /\ p = SubSeq(q, Len(X) + 1, Len(q))
<1>1. /\ Len(X) \in Nat /\ Len(p) \in Nat /\ Len(q) = Len(X) + Len(p)
      /\ \A i \in 1 .. Len(X) : q[i] = X[i]
      /\ \A i \in 1 .. Len(p) : q[Len(X) + i] = p[i]
  OBVIOUS
<1>2. CASE Len(X) = 0
  <2>1. X = <<>>
    BY <1>2
  <2> QED BY <2>1
<1>3. CASE Len(X) # 0
  <2>1. Len(X) \in 1 .. Len(q)
    BY <1>1, <1>3
  <2>2. X = SubSeq(q, 1, Len(X))
    BY <1>1, <2>1
  <2>3. p = SubSeq(q, Len(X) + 1, Len(q))
    BY <1>1, <2>1
  <2> QED BY <2>1, <2>2, <2>3
<1> QED BY <1>2, <1>3

LEMMA InOrderInit ==
  ASSUME Init
  PROVE  InOrder!Init
<1>1. IInv
  BY InitHolds
<1>2. rs.ready_to_pop = <<>>
  BY DEF Init
<1>3. Busy = {}
  <2>1. \A l \in LineIds : ~(rs.vec[l].valid /\ rs.vec[l].type # "init")
    BY DEF Init, Line
  <2> QED BY <2>1 DEF Busy
<1>4. Cardinality(Busy) = 0
  BY <1>3, FS_EmptySet
<1>5. QueuedSteps = Queue(rs)[0]
  <2>1. QueuedSteps = Queue(rs)[Cardinality(Busy)]
    BY DEF QueuedSteps, Queue
  <2> QED BY <1>4, <2>1
<1>6. rs \in Station
  BY <1>1 DEF IInv, TypeOK
<1> QED BY <1>2, <1>5, <1>6, QueueSteps DEF InOrder!Init

LEMMA InOrderSteps ==
  ASSUME IInv, [Next]_vars
  PROVE  [InOrder!Next]_(InOrder!vars)
<1>1. CASE UNCHANGED vars
  <2>1. rs' = rs
    BY <1>1 DEF vars
  <2>2. PICK b \in Nat : Holds(b)
    BY DEF IInv
  <2>3. IInv'
    BY <1>1, StutterHolds
  <2>4. QueuedSteps' = QueuedSteps
    BY <2>1 DEF QueuedSteps, Busy, FromHead
  <2> QED BY <2>1, <2>4 DEF InOrder!vars
<1>2. CASE Next
  <2>1. IInv' /\ \E b, d \in Nat : Holds(b) /\ Holds(d)' /\ Ordered(b, d)
    BY <1>2, NextGood DEF GoodStep
  <2>2. PICK b \in Nat, d \in Nat : Holds(b) /\ Holds(d)' /\ Ordered(b, d)
    BY <2>1
  <2> DEFINE a == rs.ready_to_pop
             q == Queue(rs)[b]
             p == Queue(rs')[d]
  <2>3. QueuedSteps = q /\ QueuedSteps' = p
    <3>1. TypeOK /\ TypeOK'
      BY <2>1 DEF IInv
    <3> QED BY <2>2, <3>1, QueuedStepsAre, QueuedStepsWillBe
  <2>4. /\ a \in Seq(Job) /\ q \in Seq(Job) /\ p \in Seq(Job)
    <3>1. rs \in Station /\ rs' \in Station
      BY <2>1 DEF IInv, TypeOK
    <3> QED BY <3>1, StationFields, QueueSteps
  <2> HIDE DEF q, p
  <2>5. CASE \E job \in Job : Registered(rs, b, rs', d, job)
    <3>1. PICK job \in Job : \/ rs'.ready_to_pop = Append(a, job) /\ p = q
                             \/ rs'.ready_to_pop = a /\ p = Append(q, job)
      BY <2>5 DEF Registered, q, p
    <3>2. InOrder!Issue(job) \/ InOrder!IssueDone(job)
      BY <2>3, <3>1 DEF InOrder!Issue, InOrder!IssueDone
    <3> QED BY <3>2 DEF InOrder!Next
  <2>6. CASE Answered(rs, b, rs', d)
    <3>1. PICK X \in Seq(Job) : rs'.ready_to_pop = a \o X /\ q = X \o p
      BY <2>6 DEF Answered, q, p
    <3>2. CASE X = <<>> /\ q = p
      <4>1. rs'.ready_to_pop = a
        BY <2>4, <3>1, <3>2
      <4> QED BY <2>3, <3>2, <4>1 DEF InOrder!vars
    <3>3. CASE /\ Len(X) \in 1 .. Len(q) /\ X = SubSeq(q, 1, Len(X))
               /\ p = SubSeq(q, Len(X) + 1, Len(q))
      <4>1. InOrder!Answer(Len(X))
        BY <2>3, <3>1, <3>3 DEF InOrder!Answer
      <4> QED BY <2>3, <3>3, <4>1 DEF InOrder!Next
    <3> QED BY <2>4, <3>1, <3>2, <3>3, AnswerOfSteps
  <2>7. CASE a # <<>> /\ rs'.ready_to_pop = Tail(a) /\ p = q
    <3>1. InOrder!Pop
      BY <2>3, <2>7 DEF InOrder!Pop
    <3> QED BY <3>1 DEF InOrder!Next
  <2> QED BY <2>2, <2>5, <2>6, <2>7 DEF Ordered, q, p
<1> QED BY <1>1, <1>2

\* Every step is answered once, in the order the steps were issued, however many
\* lines it has, and in whatever order the memory answers: what rs_line_commit_attempt
\* and the counters of rs_line_task_map do with the lines at the head of the ring is
\* what the task engine counts on.
THEOREM AnsweredInOrder == Spec => ImplementsInOrder
<1>1. Spec => []IInv
  BY StationInvariance
<1> QED BY <1>1, InOrderInit, InOrderSteps, PTL DEF Spec, InOrder!Spec, ImplementsInOrder

=============================================================================
