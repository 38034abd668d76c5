--------------------------- MODULE TaskPool_proofs ---------------------------
(***************************************************************************)
(* Proofs about the task engine, for every number of sets, every A, every  *)
(* Depth and every length of the trace: it keeps turns and order, loses no *)
(* wakeup, makes room for one request per serve call and implements the    *)
(* window of RequestWindow.                                                *)
(***************************************************************************)
EXTENDS TaskPool, TLAPS, WellFoundedInduction

USE SetsAssumption, AAssumption, DepthAssumption, MaxReqsAssumption, ChoiceAssumption

\* A key is a pair of an id and a level.
LEMMA KeyFacts ==
  /\ \A i \in Ids, l \in Levels : <<i, l>> \in Key
  /\ \A k \in Key : k[1] \in Ids /\ k[2] \in Levels /\ k = <<k[1], k[2]>>
  /\ Levels = {"pos2", "pos1", "data"}
BY DEF Key, Levels

-----------------------------------------------------------------------------
(***************************************************************************)
(* Queues of jobs.                                                         *)
(***************************************************************************)

\* The jobs of a queue are jobs.
LEMMA QueuedJobs ==
  ASSUME NEW q \in Seq(JobType)
  PROVE  Elements(q) \subseteq JobType /\ \A x \in Elements(q) : x.id \in Ids
<1>1. Elements(q) \subseteq JobType
  BY DEF Elements
<1> QED BY <1>1 DEF JobType

\* Appending a job with a fresh id keeps the ids of a queue distinct.
LEMMA AppendJob ==
  ASSUME NEW q \in Seq(JobType), NEW x \in JobType, DistinctIds(q),
         \A y \in Elements(q) : y.id # x.id
  PROVE  /\ Append(q, x) \in Seq(JobType)
         /\ Elements(Append(q, x)) = Elements(q) \cup {x}
         /\ DistinctIds(Append(q, x))
<1>1. Append(q, x) \in Seq(JobType)
  OBVIOUS
<1>a. /\ DOMAIN q = 1 .. Len(q) /\ DOMAIN Append(q, x) = 1 .. Len(q) + 1
      /\ Len(q) \in Nat /\ Append(q, x)[Len(q) + 1] = x
      /\ \A n \in 1 .. Len(q) : Append(q, x)[n] = q[n]
  OBVIOUS
<1>2. Elements(Append(q, x)) = Elements(q) \cup {x}
  <2>1. ASSUME NEW y \in Elements(q) PROVE y \in Elements(Append(q, x))
    BY <1>a DEF Elements
  <2>2. x \in Elements(Append(q, x))
    BY <1>a DEF Elements
  <2>3. ASSUME NEW n \in DOMAIN Append(q, x) PROVE Append(q, x)[n] \in Elements(q) \cup {x}
    BY <1>a DEF Elements
  <2> QED BY <2>1, <2>2, <2>3 DEF Elements
<1>3. DistinctIds(Append(q, x))
  BY <1>a DEF DistinctIds, Elements
<1> QED BY <1>1, <1>2, <1>3

\* Dropping the front of a queue with distinct ids removes exactly its id.
LEMMA DropJob ==
  ASSUME NEW q \in Seq(JobType), q # <<>>, DistinctIds(q)
  PROVE  /\ Head(q) \in Elements(q) /\ Head(q) \in JobType
         /\ Tail(q) \in Seq(JobType)
         /\ Elements(Tail(q)) = {y \in Elements(q) : y.id # Head(q).id}
         /\ DistinctIds(Tail(q))
<1>1. Head(q) \in Elements(q) /\ Head(q) \in JobType /\ Tail(q) \in Seq(JobType)
  BY DEF Elements
<1>2. /\ DOMAIN q = 1 .. Len(q) /\ DOMAIN Tail(q) = 1 .. Len(q) - 1
      /\ Len(q) \in Nat \ {0} /\ Head(q) = q[1]
      /\ \A n \in 1 .. Len(q) - 1 : Tail(q)[n] = q[n + 1]
  OBVIOUS
<1>3. Elements(Tail(q)) = {y \in Elements(q) : y.id # Head(q).id}
  <2>1. ASSUME NEW n \in DOMAIN Tail(q)
        PROVE  Tail(q)[n] \in Elements(q) /\ Tail(q)[n].id # Head(q).id
    BY <1>2 DEF Elements, DistinctIds
  <2>2. ASSUME NEW n \in DOMAIN q, q[n].id # Head(q).id
        PROVE  q[n] \in Elements(Tail(q))
    <3>1. n - 1 \in DOMAIN Tail(q) /\ Tail(q)[n - 1] = q[n]
      BY <1>2, <2>2
    <3> QED BY <3>1 DEF Elements
  <2> QED BY <2>1, <2>2 DEF Elements
<1>4. DistinctIds(Tail(q))
  BY <1>2 DEF DistinctIds
<1> QED BY <1>1, <1>3, <1>4

-----------------------------------------------------------------------------
(***************************************************************************)
(* One level's reservation station.                                        *)
(***************************************************************************)

\* Only the level's own keys matter, and the steps of those in the pool.
LEMMA StationFrame ==
  ASSUME NEW l \in Levels, NEW q \in Seq(JobType), NEW M \in SUBSET JobType,
         NEW r \in Seq(JobType), NEW pool, NEW ns, NEW pool2, NEW ns2,
         StationMatches(l, q, M, r, pool, ns),
         \A i \in Ids : <<i, l>> \in pool2 <=> <<i, l>> \in pool,
         \A i \in Ids : <<i, l>> \in pool => ns2[<<i, l>>] = ns[<<i, l>>]
  PROVE  StationMatches(l, q, M, r, pool2, ns2)
<1>1. \A x \in Elements(q) \cup M \cup Elements(r) : x.id \in Ids
  BY QueuedJobs DEF JobType
<1> QED BY <1>1 DEF StationMatches

\* Popping the front answer removes its key.
LEMMA StationPop ==
  ASSUME NEW l \in Levels, NEW q \in Seq(JobType), NEW M \in SUBSET JobType,
         NEW r \in Seq(JobType), NEW pool, NEW ns, NEW ns2,
         StationMatches(l, q, M, r, pool, ns), r # <<>>,
         \A i \in Ids : i # Head(r).id => ns2[<<i, l>>] = ns[<<i, l>>]
  PROVE  StationMatches(l, q, M, Tail(r), pool \ {<<Head(r).id, l>>}, ns2)
<1>1. /\ Head(r) \in Elements(r) /\ Head(r) \in JobType
      /\ Elements(Tail(r)) = {y \in Elements(r) : y.id # Head(r).id}
      /\ DistinctIds(Tail(r))
  BY DropJob DEF StationMatches
<1>2. \A x \in Elements(q) \cup M \cup Elements(r) : x.id \in Ids
  BY QueuedJobs DEF JobType
<1>3. \A x \in Elements(q) \cup M \cup Elements(Tail(r)) : x.id # Head(r).id
  BY <1>1 DEF StationMatches, DisjointIds
<1>4. \A x \in Elements(q) \cup M \cup Elements(Tail(r)) :
        /\ x.level = l /\ <<x.id, l>> \in pool \ {<<Head(r).id, l>>}
        /\ x.step = ns2[<<x.id, l>>]
  BY <1>1, <1>2, <1>3 DEF StationMatches
<1>5. ASSUME NEW i \in Ids, <<i, l>> \in pool \ {<<Head(r).id, l>>}
      PROVE  \E x \in Elements(q) \cup M \cup Elements(Tail(r)) : x.id = i
  BY <1>1, <1>5 DEF StationMatches
<1> QED BY <1>1, <1>4, <1>5 DEF StationMatches, DisjointIds

\* Keys that were not in the pool start to wait for metadata.
LEMMA StationFetch ==
  ASSUME NEW l \in Levels, NEW q \in Seq(JobType), NEW M \in SUBSET JobType,
         NEW r \in Seq(JobType), NEW pool, NEW ns, NEW K \in SUBSET Key, NEW s \in 0 .. 5,
         StationMatches(l, q, {x \in M : x.level = l}, r, pool, ns),
         \A k \in K : k \notin pool /\ ns[k] = s
  PROVE  StationMatches(l, q, {x \in M \cup Jobs(K, s) : x.level = l}, r, pool \cup K, ns)
<1> DEFINE P == {x \in M : x.level = l}
           N == {x \in M \cup Jobs(K, s) : x.level = l}
           new == {x \in Jobs(K, s) : x.level = l}
<1>1. \A x \in new : x.level = l /\ <<x.id, l>> \in K /\ x.step = s
  BY KeyFacts DEF Jobs, Job
<1>2. \A x \in Elements(q) \cup P \cup Elements(r) :
        x.id \in Ids /\ <<x.id, l>> \in pool /\ <<x.id, l>> \notin K
  <2>1. \A x \in Elements(q) \cup P \cup Elements(r) : x.id \in Ids
    BY QueuedJobs DEF JobType
  <2> QED BY <2>1 DEF StationMatches
<1>n. N = P \cup new
  OBVIOUS
<1> HIDE DEF N, new, P
<1>3. \A x \in Elements(q) \cup N \cup Elements(r) :
        x.level = l /\ <<x.id, l>> \in pool \cup K /\ x.step = ns[<<x.id, l>>]
  BY <1>1, <1>n DEF StationMatches, P
<1>4. ASSUME NEW i \in Ids, <<i, l>> \in pool \cup K
      PROVE  \E x \in Elements(q) \cup N \cup Elements(r) : x.id = i
  <2>1. CASE <<i, l>> \in pool
    BY <2>1, <1>n DEF StationMatches, P
  <2>2. CASE <<i, l>> \in K
    <3>1. Job(i, l, s) \in new /\ Job(i, l, s).id = i
      BY <2>2 DEF Job, Jobs, new
    <3> QED BY <3>1, <1>n
  <2> QED BY <1>4, <2>1, <2>2
<1>5. DisjointIds(Elements(q), N) /\ DisjointIds(N, Elements(r))
  BY <1>1, <1>2, <1>n DEF StationMatches, DisjointIds, P
<1> QED BY <1>3, <1>4, <1>5 DEF StationMatches, N

\* A key that was not in the pool takes reservation lines.
LEMMA StationLine ==
  ASSUME NEW l \in Levels, NEW q \in Seq(JobType), NEW M \in SUBSET JobType,
         NEW r \in Seq(JobType), NEW pool, NEW ns, NEW i \in Ids, NEW s \in 0 .. 5,
         StationMatches(l, q, M, r, pool, ns),
         <<i, l>> \notin pool, ns[<<i, l>>] = s
  PROVE  StationMatches(l, Append(q, Job(i, l, s)), M, r, pool \cup {<<i, l>>}, ns)
<1> DEFINE x == Job(i, l, s)
<1>1. x \in JobType /\ x.id = i /\ x.level = l /\ x.step = s
  BY DEF Job, JobType
<1>2. \A y \in Elements(q) \cup M \cup Elements(r) : y.id \in Ids /\ y.id # i
  <2>1. \A y \in Elements(q) \cup M \cup Elements(r) : y.id \in Ids
    BY QueuedJobs DEF JobType
  <2> QED BY <2>1 DEF StationMatches
<1>3. /\ Elements(Append(q, x)) = Elements(q) \cup {x}
      /\ DistinctIds(Append(q, x))
  BY <1>1, <1>2, AppendJob DEF StationMatches
<1> HIDE DEF x
<1>4. \A y \in Elements(Append(q, x)) \cup M \cup Elements(r) :
        y.level = l /\ <<y.id, l>> \in pool \cup {<<i, l>>} /\ y.step = ns[<<y.id, l>>]
  BY <1>1, <1>3 DEF StationMatches
<1>5. \A j \in Ids : <<j, l>> \in pool \cup {<<i, l>>} =>
        \E y \in Elements(Append(q, x)) \cup M \cup Elements(r) : y.id = j
  BY <1>1, <1>3 DEF StationMatches
<1>6. /\ DisjointIds(Elements(Append(q, x)), M)
      /\ DisjointIds(Elements(Append(q, x)), Elements(r))
  BY <1>1, <1>2, <1>3 DEF StationMatches, DisjointIds
<1> QED BY <1>3, <1>4, <1>5, <1>6 DEF StationMatches, x

\* A key that was not in the pool is answered at once.
LEMMA StationAnswer ==
  ASSUME NEW l \in Levels, NEW q \in Seq(JobType), NEW M \in SUBSET JobType,
         NEW r \in Seq(JobType), NEW pool, NEW ns, NEW i \in Ids, NEW s \in 0 .. 5,
         StationMatches(l, q, M, r, pool, ns),
         <<i, l>> \notin pool, ns[<<i, l>>] = s
  PROVE  StationMatches(l, q, M, Append(r, Job(i, l, s)), pool \cup {<<i, l>>}, ns)
<1> DEFINE x == Job(i, l, s)
<1>1. x \in JobType /\ x.id = i /\ x.level = l /\ x.step = s
  BY DEF Job, JobType
<1>2. \A y \in Elements(q) \cup M \cup Elements(r) : y.id \in Ids /\ y.id # i
  <2>1. \A y \in Elements(q) \cup M \cup Elements(r) : y.id \in Ids
    BY QueuedJobs DEF JobType
  <2> QED BY <2>1 DEF StationMatches
<1>3. /\ Elements(Append(r, x)) = Elements(r) \cup {x}
      /\ DistinctIds(Append(r, x))
  BY <1>1, <1>2, AppendJob DEF StationMatches
<1> HIDE DEF x
<1>4. \A y \in Elements(q) \cup M \cup Elements(Append(r, x)) :
        y.level = l /\ <<y.id, l>> \in pool \cup {<<i, l>>} /\ y.step = ns[<<y.id, l>>]
  BY <1>1, <1>3 DEF StationMatches
<1>5. \A j \in Ids : <<j, l>> \in pool \cup {<<i, l>>} =>
        \E y \in Elements(q) \cup M \cup Elements(Append(r, x)) : y.id = j
  BY <1>1, <1>3 DEF StationMatches
<1>6. /\ DisjointIds(Elements(q), Elements(Append(r, x)))
      /\ DisjointIds(M, Elements(Append(r, x)))
  BY <1>1, <1>2, <1>3 DEF StationMatches, DisjointIds
<1> QED BY <1>3, <1>4, <1>5, <1>6 DEF StationMatches, x

-----------------------------------------------------------------------------
(***************************************************************************)
(* All levels together.                                                    *)
(***************************************************************************)
Stations(L, M, R, pool, ns) ==
  /\ L \in [Levels -> Seq(JobType)] /\ M \subseteq JobType
  /\ R \in [Levels -> Seq(JobType)] /\ pool \subseteq Key
  /\ StationsMatch(L, M, R, pool, ns)

LEMMA InvStations ==
  ASSUME IInv
  PROVE  Stations(lines, meta, ready_to_pop_task, execution_pool, next_step)
BY DEF IInv, TypeOK, PoolMatchesStations, Stations

\* The keys of the pool are in the step their job says, so never finished.
LEMMA StationSteps ==
  ASSUME NEW L, NEW M, NEW R, NEW pool, NEW ns, Stations(L, M, R, pool, ns), NEW k \in pool
  PROVE  ns[k] \in 0 .. 5
<1> DEFINE l == k[2]
           all == Elements(L[l]) \cup {x \in M : x.level = l} \cup Elements(R[l])
<1>1. l \in Levels /\ k[1] \in Ids /\ k = <<k[1], l>>
  BY KeyFacts DEF Stations
<1>2. StationMatches(l, L[l], {x \in M : x.level = l}, R[l], pool, ns)
  BY <1>1 DEF Stations, StationsMatch
<1>3. PICK x \in all : x.id = k[1]
  BY <1>1, <1>2 DEF StationMatches
<1>4. x \in JobType
  <2>1. L[l] \in Seq(JobType) /\ R[l] \in Seq(JobType) /\ M \subseteq JobType
    BY <1>1 DEF Stations
  <2> QED BY <2>1, <1>3, QueuedJobs
<1>5. x.step = ns[<<x.id, l>>]
  BY <1>2, <1>3 DEF StationMatches
<1> QED BY <1>1, <1>3, <1>4, <1>5 DEF JobType

LEMMA StationsFrame ==
  ASSUME NEW L, NEW M, NEW R, NEW pool, NEW ns, NEW ns2, Stations(L, M, R, pool, ns),
         \A k \in pool : ns2[k] = ns[k]
  PROVE  Stations(L, M, R, pool, ns2)
<1> SUFFICES ASSUME NEW l \in Levels
             PROVE  StationMatches(l, L[l], {x \in M : x.level = l}, R[l], pool, ns2)
  BY DEF Stations, StationsMatch
<1>1. /\ L[l] \in Seq(JobType) /\ R[l] \in Seq(JobType)
      /\ {x \in M : x.level = l} \in SUBSET JobType
      /\ StationMatches(l, L[l], {x \in M : x.level = l}, R[l], pool, ns)
  BY DEF Stations, StationsMatch
<1> QED BY <1>1, StationFrame

LEMMA StationsPop ==
  ASSUME NEW L, NEW M, NEW R, NEW pool, NEW ns, NEW ns2, Stations(L, M, R, pool, ns),
         NEW l \in Levels, R[l] # <<>>,
         \A k \in Key : k # <<Head(R[l]).id, l>> => ns2[k] = ns[k]
  PROVE  Stations(L, M, [R EXCEPT ![l] = Tail(@)], pool \ {<<Head(R[l]).id, l>>}, ns2)
<1> DEFINE i == Head(R[l]).id
           R2 == [R EXCEPT ![l] = Tail(@)]
           pool2 == pool \ {<<i, l>>}
<1>1. R[l] \in Seq(JobType) /\ Tail(R[l]) \in Seq(JobType) /\ R2 \in [Levels -> Seq(JobType)]
  BY DEF Stations
<1> SUFFICES ASSUME NEW m \in Levels
             PROVE  StationMatches(m, L[m], {x \in M : x.level = m}, R2[m], pool2, ns2)
  BY <1>1 DEF Stations, StationsMatch
<1>2. /\ L[m] \in Seq(JobType) /\ R[m] \in Seq(JobType)
      /\ {x \in M : x.level = m} \in SUBSET JobType
      /\ StationMatches(m, L[m], {x \in M : x.level = m}, R[m], pool, ns)
  BY DEF Stations, StationsMatch
<1>3. CASE m = l
  <2>1. R2[m] = Tail(R[m])
    BY <1>3 DEF Stations
  <2>2. \A j \in Ids : j # Head(R[m]).id => ns2[<<j, m>>] = ns[<<j, m>>]
    BY <1>3, KeyFacts
  <2> QED BY <1>2, <1>3, <2>1, <2>2, StationPop
<1>4. CASE m # l
  <2>1. R2[m] = R[m]
    BY <1>4 DEF Stations
  <2>2. \A j \in Ids : /\ <<j, m>> \in pool2 <=> <<j, m>> \in pool
                       /\ ns2[<<j, m>>] = ns[<<j, m>>]
    BY <1>4, KeyFacts
  <2> QED BY <1>2, <2>1, <2>2, StationFrame
<1> QED BY <1>3, <1>4

LEMMA StationsFetch ==
  ASSUME NEW L, NEW M, NEW R, NEW pool, NEW ns, Stations(L, M, R, pool, ns),
         NEW K \in SUBSET Key, NEW s \in 0 .. 5,
         \A k \in K : k \notin pool /\ ns[k] = s
  PROVE  Stations(L, M \cup Jobs(K, s), R, pool \cup K, ns)
<1>1. Jobs(K, s) \subseteq JobType
  BY KeyFacts DEF Jobs, Job, JobType
<1> SUFFICES ASSUME NEW l \in Levels
             PROVE  StationMatches(l, L[l], {x \in M \cup Jobs(K, s) : x.level = l}, R[l],
                                   pool \cup K, ns)
  BY <1>1 DEF Stations, StationsMatch
<1>2. /\ L[l] \in Seq(JobType) /\ R[l] \in Seq(JobType) /\ M \in SUBSET JobType
      /\ StationMatches(l, L[l], {x \in M : x.level = l}, R[l], pool, ns)
  BY DEF Stations, StationsMatch
<1> QED BY <1>2, StationFetch

LEMMA StationsLine ==
  ASSUME NEW L, NEW M, NEW R, NEW pool, NEW ns, Stations(L, M, R, pool, ns),
         NEW i \in Ids, NEW l \in Levels, NEW s \in 0 .. 5,
         <<i, l>> \notin pool, ns[<<i, l>>] = s
  PROVE  Stations([L EXCEPT ![l] = Append(@, Job(i, l, s))], M, R, pool \cup {<<i, l>>}, ns)
<1> DEFINE L2 == [L EXCEPT ![l] = Append(@, Job(i, l, s))]
           pool2 == pool \cup {<<i, l>>}
<1>1. L2 \in [Levels -> Seq(JobType)] /\ pool2 \subseteq Key
  <2>1. Job(i, l, s) \in JobType
    BY DEF Job, JobType
  <2>2. Append(L[l], Job(i, l, s)) \in Seq(JobType)
    BY <2>1 DEF Stations
  <2> QED BY <2>2, KeyFacts DEF Stations
<1> SUFFICES ASSUME NEW m \in Levels
             PROVE  StationMatches(m, L2[m], {x \in M : x.level = m}, R[m], pool2, ns)
  BY <1>1 DEF Stations, StationsMatch
<1>2. /\ L[m] \in Seq(JobType) /\ R[m] \in Seq(JobType)
      /\ {x \in M : x.level = m} \in SUBSET JobType
      /\ StationMatches(m, L[m], {x \in M : x.level = m}, R[m], pool, ns)
  BY DEF Stations, StationsMatch
<1>3. CASE m = l
  <2>1. L2[m] = Append(L[m], Job(i, m, s))
    BY <1>3 DEF Stations
  <2>2. /\ <<i, m>> \notin pool /\ ns[<<i, m>>] = s /\ pool2 = pool \cup {<<i, m>>}
    BY <1>3
  <2> DEFINE P == {x \in M : x.level = m}
  <2>3. P \in SUBSET JobType /\ StationMatches(m, L[m], P, R[m], pool, ns)
    BY <1>2
  <2> HIDE DEF pool2, L2, P
  <2>4. StationMatches(m, Append(L[m], Job(i, m, s)), P, R[m], pool \cup {<<i, m>>}, ns)
    BY <1>2, <2>2, <2>3, StationLine
  <2> QED BY <2>1, <2>2, <2>4 DEF P
<1>4. CASE m # l
  <2>1. L2[m] = L[m]
    BY <1>4 DEF Stations
  <2>2. \A j \in Ids : <<j, m>> \in pool2 <=> <<j, m>> \in pool
    BY <1>4
  <2> QED BY <1>2, <2>1, <2>2, StationFrame
<1> QED BY <1>3, <1>4

LEMMA StationsAnswer ==
  ASSUME NEW L, NEW M, NEW R, NEW pool, NEW ns, Stations(L, M, R, pool, ns),
         NEW i \in Ids, NEW l \in Levels, NEW s \in 0 .. 5,
         <<i, l>> \notin pool, ns[<<i, l>>] = s
  PROVE  Stations(L, M, [R EXCEPT ![l] = Append(@, Job(i, l, s))], pool \cup {<<i, l>>}, ns)
<1> DEFINE R2 == [R EXCEPT ![l] = Append(@, Job(i, l, s))]
           pool2 == pool \cup {<<i, l>>}
<1>1. R2 \in [Levels -> Seq(JobType)] /\ pool2 \subseteq Key
  <2>1. Job(i, l, s) \in JobType
    BY DEF Job, JobType
  <2>2. Append(R[l], Job(i, l, s)) \in Seq(JobType)
    BY <2>1 DEF Stations
  <2> QED BY <2>2, KeyFacts DEF Stations
<1> SUFFICES ASSUME NEW m \in Levels
             PROVE  StationMatches(m, L[m], {x \in M : x.level = m}, R2[m], pool2, ns)
  BY <1>1 DEF Stations, StationsMatch
<1>2. /\ L[m] \in Seq(JobType) /\ R[m] \in Seq(JobType)
      /\ {x \in M : x.level = m} \in SUBSET JobType
      /\ StationMatches(m, L[m], {x \in M : x.level = m}, R[m], pool, ns)
  BY DEF Stations, StationsMatch
<1>3. CASE m = l
  <2>1. R2[m] = Append(R[m], Job(i, m, s))
    BY <1>3 DEF Stations
  <2>2. /\ <<i, m>> \notin pool /\ ns[<<i, m>>] = s /\ pool2 = pool \cup {<<i, m>>}
    BY <1>3
  <2> DEFINE P == {x \in M : x.level = m}
  <2>3. P \in SUBSET JobType /\ StationMatches(m, L[m], P, R[m], pool, ns)
    BY <1>2
  <2> HIDE DEF pool2, R2, P
  <2>4. StationMatches(m, L[m], P, Append(R[m], Job(i, m, s)), pool \cup {<<i, m>>}, ns)
    BY <1>2, <2>2, <2>3, StationAnswer
  <2> QED BY <2>1, <2>2, <2>4 DEF P
<1>4. CASE m # l
  <2>1. R2[m] = R[m]
    BY <1>4 DEF Stations
  <2>2. \A j \in Ids : <<j, m>> \in pool2 <=> <<j, m>> \in pool
    BY <1>4
  <2> QED BY <1>2, <2>1, <2>2, StationFrame
<1> QED BY <1>3, <1>4

\* The oldest lines of level l commit.
LEMMA StationsCommit ==
  ASSUME NEW L, NEW M, NEW R, NEW pool, NEW ns, Stations(L, M, R, pool, ns),
         NEW l \in Levels, L[l] # <<>>
  PROVE  Stations([L EXCEPT ![l] = Tail(@)], M, [R EXCEPT ![l] = Append(@, Head(L[l]))],
                  pool, ns)
<1> DEFINE L2 == [L EXCEPT ![l] = Tail(@)]
           R2 == [R EXCEPT ![l] = Append(@, Head(L[l]))]
           h == Head(L[l])
<1>1. /\ StationMatches(l, L[l], {x \in M : x.level = l}, R[l], pool, ns)
      /\ L[l] \in Seq(JobType) /\ R[l] \in Seq(JobType)
  BY DEF Stations, StationsMatch
<1>2. /\ h \in Elements(L[l]) /\ h \in JobType /\ Tail(L[l]) \in Seq(JobType)
      /\ Elements(Tail(L[l])) = {y \in Elements(L[l]) : y.id # h.id}
      /\ DistinctIds(Tail(L[l]))
  BY <1>1, DropJob DEF StationMatches
<1> HIDE DEF h
<1>3. \A y \in Elements(R[l]) : y.id # h.id
  BY <1>1, <1>2 DEF StationMatches, DisjointIds
<1>4. /\ Append(R[l], h) \in Seq(JobType)
      /\ Elements(Append(R[l], h)) = Elements(R[l]) \cup {h}
      /\ DistinctIds(Append(R[l], h))
  BY <1>1, <1>2, <1>3, AppendJob DEF StationMatches
<1>5. L2 \in [Levels -> Seq(JobType)] /\ R2 \in [Levels -> Seq(JobType)]
  BY <1>2, <1>4 DEF Stations, h
<1> SUFFICES ASSUME NEW m \in Levels
             PROVE  StationMatches(m, L2[m], {x \in M : x.level = m}, R2[m], pool, ns)
  BY <1>5 DEF Stations, StationsMatch
<1>6. CASE m # l
  <2>1. L2[m] = L[m] /\ R2[m] = R[m]
    BY <1>6 DEF Stations
  <2> QED BY <2>1 DEF Stations, StationsMatch
<1>7. CASE m = l
  <2> DEFINE P == {x \in M : x.level = l}
  <2>1. L2[l] = Tail(L[l]) /\ R2[l] = Append(R[l], h)
    BY DEF Stations, h
  <2> HIDE DEF P
  <2>2. DistinctIds(L[l])
    BY <1>1 DEF StationMatches
  <2>3. \A x \in Elements(L[l]) : x = h \/ x.id # h.id
    BY <1>2, <2>2 DEF DistinctIds, Elements
  <2>4. Elements(Tail(L[l])) \cup P \cup Elements(Append(R[l], h))
          = Elements(L[l]) \cup P \cup Elements(R[l])
    BY <1>2, <1>4, <2>3
  <2>5. /\ DisjointIds(Elements(Tail(L[l])), P)
        /\ DisjointIds(Elements(Tail(L[l])), Elements(Append(R[l], h)))
        /\ DisjointIds(P, Elements(Append(R[l], h)))
    BY <1>1, <1>2, <1>4 DEF StationMatches, DisjointIds, P
  <2> QED BY <1>1, <1>2, <1>4, <1>7, <2>1, <2>4, <2>5 DEF StationMatches, P
<1> QED BY <1>6, <1>7

\* The metadata of x is complete.
LEMMA StationsArrive ==
  ASSUME NEW L, NEW M, NEW R, NEW pool, NEW ns, Stations(L, M, R, pool, ns), NEW x \in M
  PROVE  Stations(L, M \ {x}, [R EXCEPT ![x.level] = Append(@, x)], pool, ns)
<1> DEFINE l == x.level
           R2 == [R EXCEPT ![l] = Append(@, x)]
           P(m) == {y \in M : y.level = m}
           P2(m) == {y \in M \ {x} : y.level = m}
<1>1. x \in JobType /\ l \in Levels
  BY DEF Stations, JobType
<1>2. /\ StationMatches(l, L[l], P(l), R[l], pool, ns)
      /\ L[l] \in Seq(JobType) /\ R[l] \in Seq(JobType)
  BY <1>1 DEF Stations, StationsMatch
<1>3. P(l) = P2(l) \cup {x} /\ x \notin P2(l)
  OBVIOUS
<1>4. /\ Append(R[l], x) \in Seq(JobType)
      /\ Elements(Append(R[l], x)) = Elements(R[l]) \cup {x}
      /\ DistinctIds(Append(R[l], x))
  <2>1. \A y \in Elements(R[l]) : y.id # x.id
    BY <1>2, <1>3 DEF StationMatches, DisjointIds
  <2> QED BY <1>1, <1>2, <2>1, AppendJob DEF StationMatches
<1>5. R2 \in [Levels -> Seq(JobType)]
  BY <1>4 DEF Stations
<1> SUFFICES ASSUME NEW m \in Levels PROVE StationMatches(m, L[m], P2(m), R2[m], pool, ns)
  BY <1>5 DEF Stations, StationsMatch
<1>6. CASE m # l
  <2>1. R2[m] = R[m] /\ P2(m) = P(m)
    BY <1>6 DEF Stations
  <2> QED BY <2>1 DEF Stations, StationsMatch
<1>7. CASE m = l
  <2>1. R2[l] = Append(R[l], x)
    BY <1>1 DEF Stations
  <2>2. \A y \in P2(l) : y.id # x.id
    <3> SUFFICES ASSUME NEW y \in P2(l), y.id = x.id PROVE FALSE
      OBVIOUS
    <3>1. y \in JobType /\ x \in JobType /\ y # x /\ y.level = x.level
      BY <1>1 DEF Stations
    <3>2. y.step = ns[<<y.id, l>>] /\ x.step = ns[<<x.id, l>>]
      BY <1>2, <1>3 DEF StationMatches
    <3> QED BY <3>1, <3>2 DEF JobType
  <2> HIDE DEF P, P2
  <2>3. Elements(L[l]) \cup P2(l) \cup Elements(Append(R[l], x))
          = Elements(L[l]) \cup P(l) \cup Elements(R[l])
    BY <1>3, <1>4
  <2>4. /\ DisjointIds(Elements(L[l]), P2(l))
        /\ DisjointIds(Elements(L[l]), Elements(Append(R[l], x)))
        /\ DisjointIds(P2(l), Elements(Append(R[l], x)))
    BY <1>2, <1>3, <1>4, <2>2 DEF StationMatches, DisjointIds
  <2> QED BY <1>2, <1>4, <1>7, <2>1, <2>3, <2>4 DEF StationMatches
<1> QED BY <1>6, <1>7

-----------------------------------------------------------------------------
(***************************************************************************)
(* Turns.                                                                  *)
(***************************************************************************)

\* What a popped answer says about its task.
LEMMA Popped ==
  ASSUME IInv, NEW l \in Levels, PopReady(l)
  PROVE  LET i == Front(l).id IN
         /\ Front(l) \in JobType /\ i \in Ids
         /\ <<i, l>> \in execution_pool
         /\ Front(l).step = next_step[<<i, l>>]
         /\ next_step[<<i, l>>] \in 0 .. 5
         /\ i \in current_rdy_to_commit .. tail_n_id - 1
<1>1. ready_to_pop_task[l] \in Seq(JobType) /\ ready_to_pop_task[l] # <<>>
  BY DEF IInv, TypeOK, PopReady
<1>2. StationMatches(l, lines[l], {x \in meta : x.level = l}, ready_to_pop_task[l],
                     execution_pool, next_step)
  BY InvStations DEF Stations, StationsMatch
<1>3. Front(l) \in Elements(ready_to_pop_task[l]) /\ Front(l) \in JobType
  BY <1>1, <1>2, DropJob DEF Front, StationMatches
<1>4. Front(l).id \in Ids /\ Front(l).step \in 0 .. 5
  BY <1>3 DEF JobType
<1>5. <<Front(l).id, l>> \in execution_pool /\ Front(l).step = next_step[<<Front(l).id, l>>]
  BY <1>2, <1>3 DEF StationMatches
<1>6. Front(l).id \in current_rdy_to_commit .. tail_n_id - 1
  BY <1>4, <1>5 DEF IInv, DequeIsWindow, Absent
<1> QED BY <1>3, <1>4, <1>5, <1>6

\* Turns are kept by a step that moves tasks forward and starts only tasks that
\* no older task of their set blocks; requests may leave the deque.
LEMMA TurnsKept ==
  ASSUME TypeOK, DequeIsWindow, SetsTakeTurns, UNCHANGED <<set_id, set_cnt>>,
         NEW ns \in [Key -> Step \cup {Absent}],
         \A k \in Key : next_step'[k] # Absent => next_step'[k] = ns[k] /\ next_step[k] # Absent,
         \A k \in Key : ns[k] >= next_step[k],
         \A j \in Ids, l \in Levels : Started(j, l)' => Started(j, l) \/ ~Blocked(j, l, ns)
  PROVE  SetsTakeTurns'
<1>0. set_id' = set_id /\ set_cnt' = set_cnt
  OBVIOUS
<1> SUFFICES ASSUME NEW l \in Levels, NEW i \in Ids, NEW j \in Ids, i < j,
                    InDeque(i, l)', InDeque(j, l)',
                    set_id[<<i, l>>] = set_id[<<j, l>>], Started(j, l)'
             PROVE  Past(i, l, next_step'[<<i, l>>])
  BY <1>0 DEF SetsTakeTurns, Past
<1>1. /\ <<i, l>> \in Key /\ <<j, l>> \in Key
      /\ next_step[<<i, l>>] # Absent /\ next_step[<<j, l>>] # Absent
      /\ next_step'[<<i, l>>] = ns[<<i, l>>]
  BY DEF InDeque
<1>2. next_step[<<i, l>>] \in Step /\ ns[<<i, l>>] \in Step
  BY <1>1 DEF TypeOK, InDeque
<1>3. Past(i, l, ns[<<i, l>>])
  <2>1. CASE Started(j, l)
    <3>1. Past(i, l, next_step[<<i, l>>])
      BY <1>1, <2>1 DEF SetsTakeTurns, InDeque
    <3>2. ns[<<i, l>>] >= next_step[<<i, l>>]
      BY <1>1
    <3> QED BY <1>2, <3>1, <3>2 DEF Past, Step
  <2>2. CASE ~Blocked(j, l, ns)
    <3>1. i \in Older(j, l)
      BY <1>1 DEF Older, InDeque, DequeIsWindow, TypeOK, Ids, Key
    <3> QED BY <2>2, <3>1 DEF Blocked
  <2> QED BY <2>1, <2>2
<1> QED BY <1>1, <1>3 DEF Past

-----------------------------------------------------------------------------
(***************************************************************************)
(* The initial state and the serve calls.                                  *)
(***************************************************************************)

LEMMA InitInv == Init => IInv
<1> SUFFICES ASSUME Init PROVE IInv
  OBVIOUS
<1>1. TypeOK
  <2>1. set_id \in [Key -> Sets]
    BY DEF Init
  <2>2. lines \in [Levels -> Seq(JobType)] /\ ready_to_pop_task \in [Levels -> Seq(JobType)]
    BY DEF Init
  <2>3. next_step \in [Key -> Step \cup {Absent}] /\ set_cnt \in [Key -> Nat]
    BY DEF Init
  <2>4. set_cnt_map \in [Levels -> [Sets -> Nat]]
    BY DEF Init
  <2>5. /\ pc = "idle" /\ trace_end = FALSE /\ tail_n_id = 0 /\ current_rdy_to_commit = 0
        /\ execution_pool = {} /\ meta = {}
    BY DEF Init
  <2>6. /\ pc \in {"idle", "check", "serving", "done"} /\ trace_end \in BOOLEAN
        /\ execution_pool \subseteq Key /\ meta \subseteq JobType
    BY <2>5
  <2>7. tail_n_id \in 0 .. MaxReqs /\ current_rdy_to_commit \in 0 .. MaxReqs
    BY <2>5
  <2> QED BY <2>1, <2>2, <2>3, <2>4, <2>6, <2>7 DEF TypeOK
<1>2. DequeIsWindow /\ PositionsFirst /\ LowerLevelsWait /\ SetsTakeTurns
  BY KeyFacts DEF Init, DequeIsWindow, PositionsFirst, LowerLevelsWait, SetsTakeTurns, InDeque
<1>3. PoolMatchesStations
  BY DEF Init, PoolMatchesStations, StationsMatch, StationMatches, Elements, DistinctIds,
         DisjointIds
<1> QED BY <1>1, <1>2, <1>3 DEF IInv

\* Steps that leave tasks, pool and stations alone.
LEMMA IdleInv ==
  ASSUME IInv,
         UNCHANGED <<next_step, set_id, set_cnt, set_cnt_map, tail_n_id,
                     current_rdy_to_commit, execution_pool, lines, meta,
                     ready_to_pop_task>>,
         pc' \in {"idle", "check", "serving", "done"}, trace_end' \in BOOLEAN
  PROVE  IInv'
<1>1. TypeOK'
  BY DEF IInv, TypeOK
<1>2. DequeIsWindow' /\ PositionsFirst' /\ LowerLevelsWait'
  BY DEF IInv, DequeIsWindow, PositionsFirst, LowerLevelsWait, InDeque
<1>3. SetsTakeTurns'
  BY DEF IInv, SetsTakeTurns, InDeque, Started, Past
<1>4. PoolMatchesStations'
  BY DEF IInv, PoolMatchesStations
<1> QED BY <1>1, <1>2, <1>3, <1>4 DEF IInv

LEMMA ServeInv ==
  ASSUME IInv, NEW sets \in SetChoices, Serve(sets)
  PROVE  IInv'
<1> DEFINE n == tail_n_id
<1>1. n \in Ids /\ sets \in [Levels -> Sets] /\ "pos2" \in Levels /\ n + 1 \in 0 .. MaxReqs
  BY DEF IInv, TypeOK, Ids, Serve, Levels
<1>2. \A k \in Key : /\ next_step'[k] = (IF k[1] = n THEN 0 ELSE next_step[k])
                     /\ set_id'[k] = (IF k[1] = n THEN sets[k[2]] ELSE set_id[k])
                     /\ k[1] # n => set_cnt'[k] = set_cnt[k]
  BY DEF Serve
<1>3. \A l \in Levels : next_step[<<n, l>>] = Absent /\ <<n, l>> \notin execution_pool
  <2> SUFFICES ASSUME NEW l \in Levels
               PROVE  next_step[<<n, l>>] = Absent /\ <<n, l>> \notin execution_pool
    OBVIOUS
  <2>1. next_step[<<n, l>>] = Absent
    BY <1>1 DEF IInv, DequeIsWindow, TypeOK
  <2> QED BY <2>1, InvStations, StationSteps DEF Absent
<1>4. TypeOK'
  <2>t. TypeOK
    BY DEF IInv
  <2>1. next_step' \in [Key -> Step \cup {Absent}]
    <3>1. 0 \in Step
      BY DEF Step
    <3> QED BY <2>t, <3>1 DEF TypeOK, Serve
  <2>7. set_id' \in [Key -> Sets]
    <3>1. \A k \in Key : sets[k[2]] \in Sets
      BY <1>1, KeyFacts
    <3> QED BY <2>t, <3>1 DEF TypeOK, Serve
  <2>4. set_cnt' \in [Key -> Nat]
    <3>1. \A k \in Key : set_cnt_map[k[2]][sets[k[2]]] + 1 \in Nat
      <4>1. \A l \in Levels, s \in Sets : set_cnt_map[l][s] \in Nat
        BY <2>t DEF TypeOK
      <4>2. \A k \in Key : k[2] \in Levels /\ sets[k[2]] \in Sets
        BY <1>1, KeyFacts
      <4> QED BY <4>1, <4>2
    <3> QED BY <2>t, <3>1 DEF TypeOK, Serve
  <2>5. set_cnt_map' \in [Levels -> [Sets -> Nat]]
    <3>1. \A l \in Levels : [set_cnt_map[l] EXCEPT ![sets[l]] = @ + 1] \in [Sets -> Nat]
      BY <1>1, <2>t DEF TypeOK
    <3> QED BY <3>1 DEF Serve
  <2>2. Job(n, "pos2", 0) \in JobType
    BY <1>1 DEF Job, JobType, Step
  <2>3. ready_to_pop_task' \in [Levels -> Seq(JobType)]
    <3>1. Append(ready_to_pop_task["pos2"], Job(n, "pos2", 0)) \in Seq(JobType)
      BY <1>1, <2>t, <2>2 DEF TypeOK
    <3> QED BY <2>t, <3>1 DEF TypeOK, Serve
  <2>6. execution_pool' \subseteq Key /\ pc' \in {"idle", "check", "serving", "done"}
    BY <1>1, <2>t, KeyFacts DEF TypeOK, Serve
  <2> QED BY <1>1, <2>t, <2>1, <2>3, <2>4, <2>5, <2>6, <2>7 DEF TypeOK, Serve
<1>a. tail_n_id' = n + 1 /\ current_rdy_to_commit' = current_rdy_to_commit /\ Ids \subseteq Int
  BY DEF Serve, Ids
<1>5. DequeIsWindow'
  <2>1. current_rdy_to_commit <= n /\ current_rdy_to_commit \in Nat /\ n \in Nat
    BY DEF IInv, DequeIsWindow, TypeOK
  <2>2. ASSUME NEW i \in Ids, NEW l \in Levels
        PROVE  next_step'[<<i, l>>] # Absent <=> i \in current_rdy_to_commit .. n
    <3>1. next_step[<<i, l>>] # Absent <=> i \in current_rdy_to_commit .. n - 1
      BY DEF IInv, DequeIsWindow
    <3>2. next_step'[<<i, l>>] = IF i = n THEN 0 ELSE next_step[<<i, l>>]
      BY <1>2, KeyFacts
    <3> QED BY <1>a, <2>1, <3>1, <3>2 DEF Absent
  <2> QED BY <1>a, <2>1, <2>2 DEF DequeIsWindow
<1>6. PositionsFirst'
  <2>1. \A i \in Ids, l \in Levels :
           next_step'[<<i, l>>] = IF i = n THEN 0 ELSE next_step[<<i, l>>]
    BY <1>2, KeyFacts
  <2>2. PositionsFirst /\ "pos2" \in Levels /\ "pos1" \in Levels /\ "data" \in Levels
    BY KeyFacts DEF IInv
  <2> SUFFICES ASSUME NEW i \in Ids
               PROVE  /\ InDeque(i, "data")' /\ next_step'[<<i, "data">>] > 0
                           => next_step'[<<i, "pos1">>] > 3
                      /\ InDeque(i, "pos1")' /\ next_step'[<<i, "pos1">>] > 0
                           => next_step'[<<i, "pos2">>] > 3
    BY DEF PositionsFirst
  <2>3. CASE i = n
    BY <2>1, <2>2, <2>3
  <2>4. CASE i # n
    <3>1. \A l \in Levels : next_step'[<<i, l>>] = next_step[<<i, l>>]
      BY <2>1, <2>4
    <3> QED BY <2>2, <3>1 DEF PositionsFirst, InDeque
  <2> QED BY <2>3, <2>4
<1>7. LowerLevelsWait'
  <2> SUFFICES ASSUME NEW k \in execution_pool', k[2] # "pos2" PROVE next_step'[k] > 0
    BY DEF LowerLevelsWait
  <2>1. k \in execution_pool /\ k \in Key
    BY DEF Serve, IInv, TypeOK
  <2>2. k[1] # n
    BY <1>3, <2>1, KeyFacts
  <2> QED BY <1>2, <2>1, <2>2 DEF IInv, LowerLevelsWait
<1>8. SetsTakeTurns'
  <2> SUFFICES ASSUME NEW l \in Levels, NEW i \in Ids, NEW j \in Ids, i < j,
                      InDeque(i, l)', InDeque(j, l)', set_id'[<<i, l>>] = set_id'[<<j, l>>],
                      Started(j, l)'
               PROVE  IF set_cnt'[<<i, l>>] % A = 0 THEN next_step'[<<i, l>>] > 5
                                                    ELSE next_step'[<<i, l>>] > 2
    BY DEF SetsTakeTurns, Past
  <2>1. j # n
    <3>1. next_step'[<<j, l>>] # 0
      BY DEF Started
    <3> QED BY <1>2, <3>1, KeyFacts
  <2>2. i # n
    <3>1. j \in current_rdy_to_commit .. n
      BY <1>1, <1>5, <1>a DEF DequeIsWindow, InDeque, Ids
    <3> QED BY <1>a, <2>1, <3>1 DEF IInv, TypeOK
  <2>3. /\ next_step'[<<i, l>>] = next_step[<<i, l>>] /\ next_step'[<<j, l>>] = next_step[<<j, l>>]
        /\ set_id'[<<i, l>>] = set_id[<<i, l>>] /\ set_id'[<<j, l>>] = set_id[<<j, l>>]
        /\ set_cnt'[<<i, l>>] = set_cnt[<<i, l>>]
    BY <1>2, <2>1, <2>2, KeyFacts
  <2>4. Started(j, l)
    BY <2>1, <2>3 DEF Started, Serve
  <2> QED BY <2>3, <2>4 DEF IInv, SetsTakeTurns, InDeque, Past
<1>9. PoolMatchesStations'
  <2>1. ASSUME NEW k \in execution_pool PROVE next_step'[k] = next_step[k]
    <3>1. k \in Key /\ k = <<k[1], k[2]>> /\ k[2] \in Levels
      BY InvStations, KeyFacts DEF Stations
    <3>2. k[1] # n
      BY <1>3, <3>1
    <3> QED BY <1>2, <3>1, <3>2
  <2>2. Stations(lines, meta, ready_to_pop_task, execution_pool, next_step')
    BY <2>1, InvStations, StationsFrame
  <2>3. next_step'[<<n, "pos2">>] = 0
    <3>1. <<n, "pos2">> \in Key /\ <<n, "pos2">>[1] = n
      BY <1>1, KeyFacts
    <3> QED BY <1>2, <3>1
  <2>4. Stations(lines, meta, ready_to_pop_task', execution_pool', next_step')
    <3>1. Stations(lines, meta,
                   [ready_to_pop_task EXCEPT !["pos2"] = Append(@, Job(n, "pos2", 0))],
                   execution_pool \cup {<<n, "pos2">>}, next_step')
      <4>1. <<n, "pos2">> \notin execution_pool /\ 0 \in 0 .. 5
        BY <1>1, <1>3
      <4> HIDE DEF n
      <4> QED BY <1>1, <2>2, <2>3, <4>1, StationsAnswer
    <3> QED BY <3>1 DEF Serve
  <2> QED BY <2>4 DEF Serve, PoolMatchesStations, Stations
<1> QED BY <1>4, <1>5, <1>6, <1>7, <1>8, <1>9 DEF IInv

-----------------------------------------------------------------------------
(***************************************************************************)
(* Steps that move tasks on.                                               *)
(***************************************************************************)

\* ns moves tasks forward, and a level only once its position is known.
Advances(ns) ==
  /\ ns \in [Key -> Step \cup {Absent}]
  /\ \A k \in Key : ns[k] >= next_step[k] /\ (ns[k] = Absent <=> next_step[k] = Absent)
  /\ \A i \in Ids :
       /\ ns[<<i, "data">>] > 0 => next_step[<<i, "data">>] > 0 \/ ns[<<i, "pos1">>] > 3
       /\ ns[<<i, "pos1">>] > 0 => next_step[<<i, "pos1">>] > 0 \/ ns[<<i, "pos2">>] > 3

\* Of the tasks in pool, those of G are started by this step, and none of them
\* is blocked; the others were in execution.
StartsFreely(ns, pool, G) ==
  /\ pool \subseteq execution_pool \cup G
  /\ \A k \in G : ~Blocked(k[1], k[2], ns) /\ ns[k] > 0
  /\ \A k \in Key :
       (ns[k] >= 2 \/ k \in pool) /\ ns[k] # next_step[k]
         => k \in G \/ (next_step[k] >= 1 /\ k \in execution_pool)

LEMMA Moved ==
  ASSUME IInv, UNCHANGED <<set_id, set_cnt>>, NEW ns, NEW G, Advances(ns),
         execution_pool' \subseteq Key, StartsFreely(ns, execution_pool', G),
         \A i \in Ids : \/ \A l \in Levels : next_step'[<<i, l>>] = ns[<<i, l>>]
                        \/ \A l \in Levels : /\ next_step'[<<i, l>>] = Absent
                                              /\ <<i, l>> \notin execution_pool'
  PROVE  PositionsFirst' /\ LowerLevelsWait' /\ SetsTakeTurns'
<1>t. /\ TypeOK /\ DequeIsWindow /\ PositionsFirst /\ LowerLevelsWait /\ SetsTakeTurns
      /\ "pos2" \in Levels /\ "pos1" \in Levels /\ "data" \in Levels
  BY KeyFacts DEF IInv
<1>v. \A k \in Key : ns[k] \in Int /\ next_step[k] \in Int
  <2>1. Step \cup {Absent} \subseteq Int
    BY DEF Step, Absent
  <2> QED BY <1>t, <2>1 DEF TypeOK, Advances
<1>1. PositionsFirst'
  <2> SUFFICES ASSUME NEW i \in Ids, NEW u \in Levels, NEW d \in Levels,
                      (u = "pos1" /\ d = "data") \/ (u = "pos2" /\ d = "pos1"),
                      InDeque(i, d)', next_step'[<<i, d>>] > 0
               PROVE  next_step'[<<i, u>>] > 3
    BY <1>t DEF PositionsFirst
  <2>1. \A l \in Levels : next_step'[<<i, l>>] = ns[<<i, l>>]
    BY DEF InDeque
  <2>2. /\ ns[<<i, u>>] >= next_step[<<i, u>>] /\ ns[<<i, d>>] # Absent
        /\ next_step[<<i, d>>] # Absent
    BY <2>1, KeyFacts DEF Advances, InDeque
  <2>3. CASE ns[<<i, u>>] > 3
    BY <2>1, <2>3
  <2>4. CASE next_step[<<i, d>>] > 0
    <3>1. next_step[<<i, u>>] > 3
      BY <1>t, <2>2, <2>4, KeyFacts DEF PositionsFirst, InDeque
    <3>2. ns[<<i, u>>] \in Int /\ next_step[<<i, u>>] \in Int
      BY <1>v, KeyFacts
    <3> QED BY <2>1, <2>2, <3>1, <3>2
  <2> QED BY <2>1, <2>3, <2>4 DEF Advances
<1>2. LowerLevelsWait'
  <2> SUFFICES ASSUME NEW k \in execution_pool', k[2] # "pos2" PROVE next_step'[k] > 0
    BY DEF LowerLevelsWait
  <2>1. k \in Key /\ k[1] \in Ids /\ k[2] \in Levels /\ k = <<k[1], k[2]>>
    BY KeyFacts
  <2>2. next_step'[k] = ns[k]
    BY <2>1
  <2>3. CASE k \in execution_pool
    <3>1. next_step[k] > 0 /\ ns[k] >= next_step[k]
      BY <1>t, <2>1, <2>3 DEF LowerLevelsWait, Advances
    <3>2. ns[k] \in Int /\ next_step[k] \in Int
      BY <1>v, <2>1
    <3> QED BY <2>2, <3>1, <3>2
  <2>4. CASE k \in G
    BY <2>2, <2>4 DEF StartsFreely
  <2> QED BY <2>3, <2>4 DEF StartsFreely
<1>3. SetsTakeTurns'
  <2>1. ASSUME NEW k \in Key, next_step'[k] # Absent
        PROVE  next_step'[k] = ns[k] /\ next_step[k] # Absent
    <3>1. k[1] \in Ids /\ k[2] \in Levels /\ k = <<k[1], k[2]>>
      BY KeyFacts
    <3>2. next_step'[k] = ns[k]
      BY <2>1, <3>1
    <3> QED BY <2>1, <3>2 DEF Advances
  <2>2. ASSUME NEW j \in Ids, NEW l \in Levels, Started(j, l)'
        PROVE  Started(j, l) \/ ~Blocked(j, l, ns)
    <3> DEFINE k == <<j, l>>
    <3>1. k \in Key /\ k[1] = j /\ k[2] = l
      BY KeyFacts
    <3>2. next_step'[k] = ns[k] /\ (ns[k] >= 2 \/ (ns[k] = 1 /\ k \in execution_pool'))
      BY <2>1, <2>2, <3>1 DEF Started, Absent
    <3>3. CASE k \in G
      BY <3>1, <3>3 DEF StartsFreely
    <3>4. CASE k \notin G
      <4>1. CASE ns[k] = next_step[k]
        BY <3>2, <3>4, <4>1 DEF StartsFreely, Started
      <4>2. CASE ns[k] # next_step[k]
        <5>1. next_step[k] >= 1 /\ k \in execution_pool
          BY <3>1, <3>2, <3>4, <4>2 DEF StartsFreely
        <5>2. next_step[k] \in Step \cup {Absent}
          BY <1>t, <3>1 DEF TypeOK
        <5> QED BY <5>1, <5>2 DEF Started, Step, Absent
      <4> QED BY <4>1, <4>2
    <3> QED BY <3>3, <3>4
  <2> QED BY <1>t, <2>1, <2>2, TurnsKept DEF Advances
<1> QED BY <1>1, <1>2, <1>3

\* A step that moves tasks on and retires nothing.
LEMMA StepInv ==
  ASSUME IInv, UNCHANGED <<taskVars, trace_end, current_rdy_to_commit>>,
         pc' \in {"idle", "check", "serving", "done"},
         NEW ns, NEW G, next_step' = ns, Advances(ns), StartsFreely(ns, execution_pool', G),
         Stations(lines', meta', ready_to_pop_task', execution_pool', ns)
  PROVE  IInv'
<1>1. PositionsFirst' /\ LowerLevelsWait' /\ SetsTakeTurns'
  BY Moved DEF Stations, taskVars
<1>2. DequeIsWindow'
  BY KeyFacts DEF IInv, DequeIsWindow, Advances, taskVars
<1>3. TypeOK'
  BY DEF IInv, TypeOK, Advances, Stations, taskVars
<1> QED BY <1>1, <1>2, <1>3 DEF IInv, PoolMatchesStations, Stations

\* A step that moves tasks on and retires the oldest request n.
LEMMA RetireInv ==
  ASSUME IInv, UNCHANGED <<taskVars, trace_end>>,
         pc' \in {"idle", "check", "serving", "done"},
         NEW ns, NEW G, NEW n \in Ids, n = current_rdy_to_commit, AllFinished(n, ns),
         Retire(n, ns), Advances(ns), StartsFreely(ns, execution_pool', G),
         Stations(lines', meta', ready_to_pop_task', execution_pool', ns)
  PROVE  IInv'
<1>t. TypeOK /\ DequeIsWindow /\ "pos2" \in Levels
  BY KeyFacts DEF IInv
<1>1. \A i \in Ids, l \in Levels :
         next_step'[<<i, l>>] = IF i = n THEN Absent ELSE ns[<<i, l>>]
  BY KeyFacts DEF Retire
<1>2. \A l \in Levels : <<n, l>> \notin execution_pool'
  BY StationSteps DEF AllFinished
<1>3. n < tail_n_id
  <2>1. next_step[<<n, "pos2">>] # Absent
    BY <1>t, KeyFacts DEF AllFinished, Advances, Absent
  <2> QED BY <1>t, <2>1 DEF DequeIsWindow, TypeOK
<1>4. current_rdy_to_commit' = n + 1 /\ tail_n_id' = tail_n_id
  BY DEF Retire, taskVars
<1>5. DequeIsWindow'
  <2>1. ASSUME NEW i \in Ids, NEW l \in Levels
        PROVE  next_step'[<<i, l>>] # Absent <=> i \in n + 1 .. tail_n_id - 1
    <3>1. ns[<<i, l>>] # Absent <=> i \in n .. tail_n_id - 1
      BY <1>t, KeyFacts DEF DequeIsWindow, Advances
    <3>2. i \in Int /\ n \in Int /\ tail_n_id \in Int
      BY <1>t DEF TypeOK, Ids
    <3> QED BY <1>1, <3>1, <3>2
  <2> QED BY <1>t, <1>3, <1>4, <2>1 DEF DequeIsWindow, TypeOK
<1>6. PositionsFirst' /\ LowerLevelsWait' /\ SetsTakeTurns'
  <2>1. \A i \in Ids : \/ \A l \in Levels : next_step'[<<i, l>>] = ns[<<i, l>>]
                       \/ \A l \in Levels : /\ next_step'[<<i, l>>] = Absent
                                             /\ <<i, l>> \notin execution_pool'
    BY <1>1, <1>2
  <2> QED BY <2>1, Moved DEF Stations, taskVars
<1>7. TypeOK'
  <2>1. next_step' \in [Key -> Step \cup {Absent}]
    BY DEF Retire, Advances
  <2>2. current_rdy_to_commit' \in 0 .. MaxReqs
    BY <1>t, <1>3, <1>4 DEF TypeOK
  <2> QED BY <1>t, <2>1, <2>2 DEF TypeOK, Stations, taskVars
<1>8. Stations(lines', meta', ready_to_pop_task', execution_pool', next_step')
  <2>1. ASSUME NEW k \in execution_pool' PROVE next_step'[k] = ns[k]
    <3>1. k[1] \in Ids /\ k[2] \in Levels /\ k = <<k[1], k[2]>>
      BY KeyFacts DEF Stations
    <3> QED BY <1>1, <1>2, <3>1
  <2> QED BY <2>1, StationsFrame
<1> QED BY <1>5, <1>6, <1>7, <1>8 DEF IInv, PoolMatchesStations, Stations

\* The task of the popped answer moves to a later step s.
LEMMA OwnStep ==
  ASSUME IInv, NEW l \in Levels, PopReady(l), NEW s \in Step, s > Front(l).step
  PROVE  LET k  == <<Front(l).id, l>>
             ns == SetStep(Front(l).id, l, s) IN
         /\ Advances(ns) /\ ns[k] = s
         /\ \A x \in Key : x # k => ns[x] = next_step[x]
         /\ Stations(lines, meta, DropFront(l), execution_pool \ {k}, ns)
<1> DEFINE i  == Front(l).id
           k  == <<i, l>>
           ns == SetStep(i, l, s)
<1>1. /\ i \in Ids /\ k \in Key /\ k \in execution_pool /\ next_step[k] \in 0 .. 5
      /\ s > next_step[k]
  BY Popped, KeyFacts
<1>t. TypeOK /\ LowerLevelsWait
  BY DEF IInv
<1> HIDE DEF i
<1>2. ns[k] = s /\ (\A x \in Key : x # k => ns[x] = next_step[x])
  BY <1>1, <1>t DEF SetStep, TypeOK
<1>3. ns \in [Key -> Step \cup {Absent}]
  BY <1>t DEF SetStep, TypeOK
<1>4. \A x \in Key : ns[x] >= next_step[x] /\ (ns[x] = Absent <=> next_step[x] = Absent)
  <2>1. \A x \in Key : next_step[x] \in Int
    <3>1. Step \cup {Absent} \subseteq Int
      BY DEF Step, Absent
    <3> QED BY <1>t, <3>1 DEF TypeOK
  <2> QED BY <1>1, <1>2, <2>1 DEF Absent, Step
<1>5. \A j \in Ids, m \in Levels : m # "pos2" /\ ns[<<j, m>>] > 0 => next_step[<<j, m>>] > 0
  <2> SUFFICES ASSUME NEW j \in Ids, NEW m \in Levels, m # "pos2", ns[<<j, m>>] > 0
               PROVE  next_step[<<j, m>>] > 0
    OBVIOUS
  <2>1. CASE <<j, m>> = k
    <3>1. k[2] # "pos2"
      BY <2>1
    <3> QED BY <1>1, <1>t, <2>1, <3>1 DEF LowerLevelsWait
  <2>2. CASE <<j, m>> # k
    BY <1>2, <2>2, KeyFacts
  <2> QED BY <2>1, <2>2
<1>6. Advances(ns)
  BY <1>3, <1>4, <1>5, KeyFacts DEF Advances
<1>7. Stations(lines, meta, DropFront(l), execution_pool \ {k}, ns)
  <2>1. i = Head(ready_to_pop_task[l]).id /\ ready_to_pop_task[l] # <<>>
    BY DEF i, Front, PopReady
  <2> HIDE DEF ns
  <2> QED BY <1>2, <2>1, InvStations, StationsPop DEF DropFront
<1> QED BY <1>2, <1>6, <1>7 DEF i

\* When only key k moves, what it starts is free to start.
LEMMA OwnStarts ==
  ASSUME IInv, NEW k \in execution_pool, NEW ns, NEW pool, NEW G \in SUBSET Key,
         pool \subseteq (execution_pool \ {k}) \cup Issued(G, ns),
         \A x \in Issued(G, ns) : ns[x] > 0,
         \A x \in Key : x # k => ns[x] = next_step[x],
         next_step[k] >= 1 \/ ~(ns[k] >= 2)
  PROVE  StartsFreely(ns, pool, Issued(G, ns))
<1>1. \A x \in Issued(G, ns) : ~Blocked(x[1], x[2], ns)
  BY DEF Issued
<1>2. ASSUME NEW x \in Key, ns[x] >= 2 \/ x \in pool, ns[x] # next_step[x]
      PROVE  x \in Issued(G, ns) \/ (next_step[x] >= 1 /\ x \in execution_pool)
  BY <1>2
<1> QED BY <1>1, <1>2 DEF StartsFreely

\* The task of the popped answer moves to step s and is issued unless blocked:
\* it waits for metadata, for lines, or is answered at once.
LEMMA OwnIssue ==
  ASSUME IInv, NEW l \in Levels, PopReady(l), NEW s \in 1 .. 5, s > Front(l).step,
         Front(l).step >= 1 \/ s = 1
  PROVE  LET i    == Front(l).id
             k    == <<i, l>>
             ns   == SetStep(i, l, s)
             go   == Issued({k}, ns)
             pool == (execution_pool \ {k}) \cup go
             R    == DropFront(l) IN
         /\ Advances(ns) /\ StartsFreely(ns, pool, go) /\ go \in {{}, {k}}
         /\ Stations(lines, meta \cup Jobs(go, s), R, pool, ns)
         /\ go = {} => Stations(lines, meta, R, pool, ns)
         /\ go = {k} =>
              /\ Stations([lines EXCEPT ![l] = Append(@, Job(i, l, s))], meta, R, pool, ns)
              /\ Stations(lines, meta, [R EXCEPT ![l] = Append(@, Job(i, l, s))], pool, ns)
<1> DEFINE i    == Front(l).id
           k    == <<i, l>>
           ns   == SetStep(i, l, s)
           go   == Issued({k}, ns)
           pool == (execution_pool \ {k}) \cup go
           R    == DropFront(l)
<1>1. k \in execution_pool /\ k \in Key /\ i \in Ids /\ next_step[k] = Front(l).step
  BY Popped, KeyFacts
<1>2. /\ Advances(ns) /\ ns[k] = s /\ (\A x \in Key : x # k => ns[x] = next_step[x])
      /\ Stations(lines, meta, R, execution_pool \ {k}, ns)
  <2>1. s \in Step
    BY DEF Step
  <2> QED BY <2>1, OwnStep
<1>3. go \in {{}, {k}} /\ go \subseteq {k} /\ {k} \subseteq Key
  BY <1>1 DEF Issued
<1> HIDE DEF ns, i, R
<1>4. StartsFreely(ns, pool, go)
  <2>1. \A x \in go : ns[x] > 0
    BY <1>2, <1>3
  <2>2. next_step[k] >= 1 \/ ~(ns[k] >= 2)
    BY <1>1, <1>2
  <2> HIDE DEF k
  <2> QED BY <1>1, <1>2, <1>3, <2>1, <2>2, OwnStarts
<1>5. Stations(lines, meta \cup Jobs(go, s), R, pool, ns)
  <2>1. \A x \in go : x \notin execution_pool \ {k} /\ ns[x] = s
    BY <1>2, <1>3
  <2>2. go \in SUBSET Key
    BY <1>3
  <2>3. s \in 0 .. 5
    OBVIOUS
  <2> HIDE DEF k, go
  <2> QED BY <1>2, <2>1, <2>2, <2>3, StationsFetch
<1>6. ASSUME go = {} PROVE Stations(lines, meta, R, pool, ns)
  BY <1>2, <1>6
<1>7. ASSUME go = {k}
      PROVE  /\ Stations([lines EXCEPT ![l] = Append(@, Job(i, l, s))], meta, R, pool, ns)
             /\ Stations(lines, meta, [R EXCEPT ![l] = Append(@, Job(i, l, s))], pool, ns)
  <2>1. /\ pool = (execution_pool \ {k}) \cup {<<i, l>>} /\ <<i, l>> \notin execution_pool \ {k}
        /\ ns[<<i, l>>] = s /\ s \in 0 .. 5
    BY <1>2, <1>7
  <2> HIDE DEF pool, k, go
  <2>2. Stations([lines EXCEPT ![l] = Append(@, Job(i, l, s))], meta, R,
                 (execution_pool \ {k}) \cup {<<i, l>>}, ns)
    BY <1>1, <1>2, <2>1, StationsLine
  <2>3. Stations(lines, meta, [R EXCEPT ![l] = Append(@, Job(i, l, s))],
                 (execution_pool \ {k}) \cup {<<i, l>>}, ns)
    BY <1>1, <1>2, <2>1, StationsAnswer
  <2> QED BY <2>1, <2>2, <2>3
<1> QED BY <1>2, <1>3, <1>4, <1>5, <1>6, <1>7 DEF ns, i, R

LEMMA LookupInv ==
  ASSUME IInv, NEW l \in Levels, FinishLookup(l)
  PROVE  IInv'
<1> DEFINE i    == Front(l).id
           k    == <<i, l>>
           ns   == SetStep(i, l, 1)
           go   == Issued({k}, ns)
           pool == (execution_pool \ {k}) \cup go
<1>1. PopReady(l) /\ Front(l).step = 0
  BY DEF FinishLookup
<1>2. /\ Advances(ns) /\ StartsFreely(ns, pool, go)
      /\ Stations(lines, meta \cup Jobs(go, 1), DropFront(l), pool, ns)
  <2>1. 1 \in 1 .. 5 /\ 1 > 0
    OBVIOUS
  <2> QED BY <1>1, <2>1, OwnIssue
<1>3. /\ next_step' = ns /\ execution_pool' = pool
      /\ meta' = meta \cup Jobs(go, 1) /\ ready_to_pop_task' = DropFront(l) /\ lines' = lines
      /\ UNCHANGED <<taskVars, trace_end, current_rdy_to_commit, pc>>
  BY DEF FinishLookup, Swap
<1>4. pc' \in {"idle", "check", "serving", "done"}
  BY <1>3 DEF IInv, TypeOK
<1> HIDE DEF ns, k, go, pool
<1> QED BY <1>2, <1>3, <1>4, StepInv

LEMMA PathInv ==
  ASSUME IInv, NEW l \in Levels, NEW reshuffle \in BOOLEAN, FinishPath(l, reshuffle)
  PROVE  IInv'
<1> DEFINE i    == Front(l).id
           k    == <<i, l>>
           ns   == SetStep(i, l, 2)
           go   == Issued({k}, ns)
           pool == (execution_pool \ {k}) \cup go
           R    == DropFront(l)
<1>1. PopReady(l) /\ Front(l).step = 1
  BY DEF FinishPath
<1>2. /\ Advances(ns) /\ StartsFreely(ns, pool, go) /\ go \in {{}, {k}}
      /\ go = {} => Stations(lines, meta, R, pool, ns)
      /\ go = {k} =>
           /\ Stations([lines EXCEPT ![l] = Append(@, Job(i, l, 2))], meta, R, pool, ns)
           /\ Stations(lines, meta, [R EXCEPT ![l] = Append(@, Job(i, l, 2))], pool, ns)
  <2>1. 2 \in 1 .. 5 /\ 2 > 1 /\ 1 >= 1
    OBVIOUS
  <2> QED BY <1>1, <2>1, OwnIssue
<1>3. /\ next_step' = ns /\ execution_pool' = pool /\ meta' = meta
      /\ UNCHANGED <<taskVars, trace_end, current_rdy_to_commit, pc>>
  BY DEF FinishPath, Swap
<1>4. Stations(lines', meta', ready_to_pop_task', execution_pool', ns)
  <2>1. CASE go = {}
    <3>1. lines' = lines /\ ready_to_pop_task' = R
      BY <2>1 DEF FinishPath, Push
    <3> HIDE DEF ns, k, go, pool, R
    <3> QED BY <1>2, <1>3, <2>1, <3>1
  <2>2. CASE go = {k} /\ reshuffle
    <3>1. lines' = [lines EXCEPT ![l] = Append(@, Job(i, l, 2))] /\ ready_to_pop_task' = R
      BY <2>2 DEF FinishPath, Push
    <3> HIDE DEF ns, k, go, pool, R
    <3> QED BY <1>2, <1>3, <2>2, <3>1
  <2>3. CASE go = {k} /\ ~reshuffle
    <3>1. lines' = lines /\ ready_to_pop_task' = [R EXCEPT ![l] = Append(@, Job(i, l, 2))]
      BY <2>3 DEF FinishPath
    <3> HIDE DEF ns, k, go, pool, R
    <3> QED BY <1>2, <1>3, <2>3, <3>1
  <2> QED BY <1>2, <2>1, <2>2, <2>3
<1>5. pc' \in {"idle", "check", "serving", "done"}
  BY <1>3 DEF IInv, TypeOK
<1> HIDE DEF ns, k, go, pool
<1> QED BY <1>2, <1>3, <1>4, <1>5, StepInv

LEMMA WriteMetadataInv ==
  ASSUME IInv, NEW l \in Levels, FinishWriteMetadata(l)
  PROVE  IInv'
<1> DEFINE i    == Front(l).id
           k    == <<i, l>>
           ns   == SetStep(i, l, 5)
           go   == Issued({k}, ns)
           pool == (execution_pool \ {k}) \cup go
           R    == DropFront(l)
<1>1. PopReady(l) /\ Front(l).step = 4
  BY DEF FinishWriteMetadata
<1>2. /\ Advances(ns) /\ StartsFreely(ns, pool, go) /\ go \in {{}, {k}}
      /\ go = {} => Stations(lines, meta, R, pool, ns)
      /\ go = {k} =>
           Stations([lines EXCEPT ![l] = Append(@, Job(i, l, 5))], meta, R, pool, ns)
  <2>1. 5 \in 1 .. 5 /\ 5 > 4 /\ 4 >= 1
    OBVIOUS
  <2> QED BY <1>1, <2>1, OwnIssue
<1>3. /\ next_step' = ns /\ execution_pool' = pool /\ meta' = meta
      /\ ready_to_pop_task' = R
      /\ UNCHANGED <<taskVars, trace_end, current_rdy_to_commit, pc>>
  BY DEF FinishWriteMetadata, Swap
<1>4. Stations(lines', meta', ready_to_pop_task', execution_pool', ns)
  <2>1. CASE go = {}
    <3>1. lines' = lines
      BY <2>1 DEF FinishWriteMetadata, Push
    <3> HIDE DEF ns, k, go, pool, R
    <3> QED BY <1>2, <1>3, <2>1, <3>1
  <2>2. CASE go = {k}
    <3>1. lines' = [lines EXCEPT ![l] = Append(@, Job(i, l, 5))]
      BY <2>2 DEF FinishWriteMetadata, Push
    <3> HIDE DEF ns, k, go, pool, R
    <3> QED BY <1>2, <1>3, <2>2, <3>1
  <2> QED BY <1>2, <2>1, <2>2
<1>5. pc' \in {"idle", "check", "serving", "done"}
  BY <1>3 DEF IInv, TypeOK
<1> HIDE DEF ns, k, go, pool
<1> QED BY <1>2, <1>3, <1>4, <1>5, StepInv

\* The next task of the set, woken by a task that held it back until now, was
\* waiting outside the pool.
LEMMA Woken ==
  ASSUME IInv, NEW l \in Levels, PopReady(l), NEW s \in Step, s > Front(l).step,
         ~Past(Front(l).id, l, Front(l).step)
  PROVE  LET i == Front(l).id
             ns == SetStep(i, l, s) IN
         \A w \in Waiting(i, l, ns) :
            /\ w \in Key /\ w \notin execution_pool /\ w # <<i, l>>
            /\ ns[w] = 1 /\ next_step[w] = 1
<1> DEFINE i  == Front(l).id
           k  == <<i, l>>
           ns == SetStep(i, l, s)
<1>1. /\ k \in execution_pool /\ k \in Key /\ i \in Ids /\ next_step[k] = Front(l).step
      /\ next_step[k] \in 0 .. 5
  BY Popped, KeyFacts
<1>2. \A x \in Key : x # k => ns[x] = next_step[x]
  BY OwnStep
<1> HIDE DEF ns, i
<1> SUFFICES ASSUME NEW v \in Ids, IsNextOfSet(i, l, v), ns[<<v, l>>] = 1
             PROVE  /\ <<v, l>> \in Key /\ <<v, l>> \notin execution_pool /\ <<v, l>> # k
                    /\ next_step[<<v, l>>] = 1
  BY DEF Waiting, ns, i
<1>3. /\ i < v /\ set_id[<<v, l>>] = set_id[k] /\ i \in Int /\ v \in Int
  BY <1>1 DEF IsNextOfSet, Ids
<1>4. <<v, l>> \in Key /\ <<v, l>> # k /\ next_step[<<v, l>>] = 1
  <2>1. <<v, l>> # k
    BY <1>3
  <2>2. <<v, l>> \in Key
    BY KeyFacts
  <2> QED BY <1>2, <2>1, <2>2
<1>5. ASSUME <<v, l>> \in execution_pool PROVE FALSE
  <2>1. InDeque(i, l) /\ InDeque(v, l) /\ Started(v, l)
    BY <1>1, <1>4, <1>5 DEF InDeque, Started, Absent
  <2>2. Past(i, l, next_step[k])
    BY <1>1, <1>3, <2>1 DEF IInv, SetsTakeTurns
  <2> QED BY <1>1, <2>2 DEF i
<1> QED BY <1>4, <1>5

LEMMA SlotsInv ==
  ASSUME IInv, NEW l \in Levels, FinishSlots(l)
  PROVE  IInv'
<1> DEFINE i     == Front(l).id
           k     == <<i, l>>
           ns    == SetStep(i, l, 3)
           go    == Issued({k}, ns)
           woken == IF set_cnt[k] % A # 0 THEN Issued(Waiting(i, l, ns), ns) ELSE {}
           pool  == (execution_pool \ {k}) \cup go
           R     == DropFront(l)
<1>1. PopReady(l) /\ Front(l).step = 2
  BY DEF FinishSlots
<1>2. /\ Advances(ns) /\ StartsFreely(ns, pool, go) /\ go \in {{}, {k}}
      /\ go = {} => Stations(lines, meta, R, pool, ns)
      /\ go = {k} => Stations([lines EXCEPT ![l] = Append(@, Job(i, l, 3))], meta, R, pool, ns)
  <2>1. 3 \in 1 .. 5 /\ 3 > 2 /\ 2 >= 1
    OBVIOUS
  <2> QED BY <1>1, <2>1, OwnIssue
<1>3. /\ next_step' = ns /\ execution_pool' = (execution_pool \ {k}) \cup (go \cup woken)
      /\ meta' = meta \cup Jobs(woken, 1) /\ ready_to_pop_task' = R
      /\ UNCHANGED <<taskVars, trace_end, current_rdy_to_commit, pc>>
  BY DEF FinishSlots, Swap
<1>4. Stations(lines', meta, R, pool, ns)
  <2>1. CASE go = {}
    <3>1. lines' = lines
      BY <2>1 DEF FinishSlots, Push
    <3> HIDE DEF ns, k, go, pool, R
    <3> QED BY <1>2, <1>3, <2>1, <3>1
  <2>2. CASE go = {k}
    <3>1. lines' = [lines EXCEPT ![l] = Append(@, Job(i, l, 3))]
      BY <2>2 DEF FinishSlots, Push
    <3> HIDE DEF ns, k, go, pool, R
    <3> QED BY <1>2, <1>3, <2>2, <3>1
  <2> QED BY <1>2, <2>1, <2>2
<1>5. \A w \in woken : /\ w \in Key /\ w \notin execution_pool /\ w # k /\ ns[w] = 1
                       /\ ~Blocked(w[1], w[2], ns)
  <2>1. CASE set_cnt[k] % A = 0
    BY <2>1
  <2>2. CASE set_cnt[k] % A # 0
    <3>1. ~Past(i, l, 2) /\ 3 \in Step /\ 3 > 2
      BY <2>2 DEF Past, Step
    <3>2. \A w \in Waiting(i, l, ns) :
             w \in Key /\ w \notin execution_pool /\ w # k /\ ns[w] = 1
      BY <1>1, <3>1, Woken
    <3>3. woken = Issued(Waiting(i, l, ns), ns)
      BY <2>2
    <3> QED BY <3>2, <3>3 DEF Issued
  <2> QED BY <2>1, <2>2
<1>6. go \subseteq {k}
  BY <1>2
<1> HIDE DEF ns, k, go, woken, R
<1>7. Stations(lines', meta \cup Jobs(woken, 1), R, pool \cup woken, ns)
  <2>1. \A w \in woken : w \notin pool
    BY <1>5, <1>6
  <2>2. woken \in SUBSET Key /\ 1 \in 0 .. 5
    BY <1>5
  <2> HIDE DEF pool
  <2> QED BY <1>4, <1>5, <2>1, <2>2, StationsFetch
<1>8. StartsFreely(ns, pool \cup woken, go \cup woken)
  <2>1. ASSUME NEW x \in Key, ns[x] >= 2 \/ x \in pool \cup woken, ns[x] # next_step[x]
        PROVE  x \in go \cup woken \/ (next_step[x] >= 1 /\ x \in execution_pool)
    BY <1>2, <2>1 DEF StartsFreely
  <2>2. \A w \in woken : ns[w] > 0
    BY <1>5
  <2> QED BY <1>2, <1>5, <2>1, <2>2 DEF StartsFreely
<1>9. execution_pool' = pool \cup woken
  BY <1>3
<1>10. pc' \in {"idle", "check", "serving", "done"}
  BY <1>3 DEF IInv, TypeOK
<1> HIDE DEF pool
<1> QED BY <1>2, <1>3, <1>7, <1>8, <1>9, <1>10, StepInv

LEMMA PullRetireInv ==
  ASSUME IInv, NEW l \in Levels, FinishPullAndRetire(l)
  PROVE  IInv'
<1> DEFINE i  == Front(l).id
           k  == <<i, l>>
           ns == SetStep(i, l, 6)
<1>1. PopReady(l) /\ Front(l).step = 3
  BY DEF FinishPullAndRetire
<1>2. /\ k \in execution_pool /\ i \in Ids /\ next_step[k] = 3
  BY <1>1, Popped
<1>3. /\ Advances(ns) /\ (\A x \in Key : x # k => ns[x] = next_step[x])
      /\ Stations(lines, meta, DropFront(l), execution_pool \ {k}, ns)
  <2>1. 6 \in Step /\ 6 > 3
    BY DEF Step
  <2> QED BY <1>1, <2>1, OwnStep
<1>4. /\ AllFinished(i, ns) /\ i = current_rdy_to_commit /\ Retire(i, ns)
      /\ execution_pool' = execution_pool \ {k} /\ ready_to_pop_task' = DropFront(l)
      /\ lines' = lines /\ meta' = meta /\ UNCHANGED <<taskVars, trace_end>>
  BY DEF FinishPullAndRetire, Retires, Swap
<1>5. pc' \in {"idle", "check", "serving", "done"}
  BY DEF FinishPullAndRetire, AfterRetire
<1> HIDE DEF ns, k, i
<1>6. StartsFreely(ns, execution_pool', {})
  BY <1>2, <1>3, <1>4 DEF StartsFreely
<1> QED BY <1>2, <1>3, <1>4, <1>5, <1>6, RetireInv

\* The level below a level that is being pulled has not begun.
LEMMA ChainedWaits ==
  ASSUME IInv, NEW l \in Levels, PopReady(l), Front(l).step = 3
  PROVE  /\ Chained(Front(l).id, l) \subseteq Key
         /\ \A x \in Chained(Front(l).id, l) :
              x[2] # l /\ next_step[x] = 0 /\ x \notin execution_pool
         /\ \A j \in Ids : <<j, "data">> \in Chained(Front(l).id, l)
                            => l = "pos1" /\ j = Front(l).id
         /\ \A j \in Ids : <<j, "pos1">> \in Chained(Front(l).id, l)
                            => l = "pos2" /\ j = Front(l).id
<1> DEFINE i == Front(l).id
<1>1. /\ i \in Ids /\ next_step[<<i, l>>] = 3 /\ i \in current_rdy_to_commit .. tail_n_id - 1
  BY Popped
<1>t. TypeOK /\ DequeIsWindow /\ PositionsFirst /\ LowerLevelsWait
  BY DEF IInv
<1> HIDE DEF i
<1>2. ASSUME NEW d \in Levels, (l = "pos2" /\ d = "pos1") \/ (l = "pos1" /\ d = "data")
      PROVE  <<i, d>> \in Key /\ next_step[<<i, d>>] = 0 /\ <<i, d>> \notin execution_pool
  <2>1. <<i, d>> \in Key /\ next_step[<<i, d>>] # Absent
    BY <1>1, <1>t, KeyFacts DEF DequeIsWindow
  <2>2. next_step[<<i, d>>] \in 0 .. 6
    BY <1>t, <2>1 DEF TypeOK, Step
  <2>3. ~(next_step[<<i, d>>] > 0)
    <3>1. InDeque(i, d)
      BY <2>1 DEF InDeque
    <3>2. CASE l = "pos2" /\ d = "pos1"
      <4>1. i \in Ids /\ InDeque(i, "pos1") /\ next_step[<<i, "pos2">>] = 3
        BY <1>1, <3>1, <3>2
      <4>2. next_step[<<i, "pos1">>] > 0 => next_step[<<i, "pos2">>] > 3
        BY <1>t, <4>1 DEF PositionsFirst
      <4> QED BY <3>2, <4>1, <4>2
    <3>3. CASE l = "pos1" /\ d = "data"
      <4>1. i \in Ids /\ InDeque(i, "data") /\ next_step[<<i, "pos1">>] = 3
        BY <1>1, <3>1, <3>3
      <4>2. next_step[<<i, "data">>] > 0 => next_step[<<i, "pos1">>] > 3
        BY <1>t, <4>1 DEF PositionsFirst
      <4> QED BY <3>3, <4>1, <4>2
    <3> QED BY <1>2, <3>2, <3>3
  <2>4. <<i, d>>[2] # "pos2"
    BY <1>2
  <2> QED BY <1>t, <2>1, <2>2, <2>3, <2>4 DEF LowerLevelsWait
<1>3. CASE l = "pos2"
  <2>1. Chained(i, l) = {<<i, "pos1">>} /\ "pos1" \in Levels
    BY <1>3, KeyFacts DEF Chained
  <2> QED BY <1>2, <1>3, <2>1 DEF i
<1>4. CASE l = "pos1"
  <2>1. Chained(i, l) = {<<i, "data">>} /\ "data" \in Levels
    BY <1>4, KeyFacts DEF Chained
  <2> QED BY <1>2, <1>4, <2>1 DEF i
<1>5. CASE l = "data"
  <2>1. Chained(i, l) = {}
    BY <1>5 DEF Chained
  <2> QED BY <2>1 DEF i
<1> QED BY <1>3, <1>4, <1>5, KeyFacts

LEMMA PullInv ==
  ASSUME IInv, NEW l \in Levels, FinishPull(l)
  PROVE  IInv'
<1> DEFINE i      == Front(l).id
           k      == <<i, l>>
           writes == set_cnt[k] % A = 0
           s      == IF writes THEN 4 ELSE 6
           own    == SetStep(i, l, s)
           C      == Chained(i, l)
           ns     == [x \in Key |-> IF x \in C THEN 1 ELSE own[x]]
           back   == IF writes THEN Issued({k}, own) ELSE {}
           below  == Issued(C, ns)
           pool   == execution_pool \ {k}
           R      == DropFront(l)
<1>1. PopReady(l) /\ Front(l).step = 3
  BY DEF FinishPull
<1>2. k \in execution_pool /\ i \in Ids /\ k \in Key /\ next_step[k] = 3
  BY <1>1, Popped, KeyFacts
<1>3. /\ C \subseteq Key
      /\ \A x \in C : x[2] # l /\ next_step[x] = 0 /\ x \notin execution_pool
      /\ \A j \in Ids : <<j, "data">> \in C => l = "pos1" /\ j = i
      /\ \A j \in Ids : <<j, "pos1">> \in C => l = "pos2" /\ j = i
  BY <1>1, ChainedWaits
<1>4. /\ Advances(own) /\ own[k] = s /\ (\A x \in Key : x # k => own[x] = next_step[x])
      /\ Stations(lines, meta, R, pool, own)
  <2>1. s \in Step /\ s > 3
    BY DEF Step
  <2> QED BY <1>1, <2>1, OwnStep
<1>5. /\ next_step' = ns /\ execution_pool' = pool \cup (back \cup below)
      /\ meta' = (meta \cup Jobs(back, 4)) \cup Jobs(below, 1)
      /\ ready_to_pop_task' = R /\ lines' = lines
      /\ UNCHANGED <<taskVars, trace_end, current_rdy_to_commit, pc>>
  BY DEF FinishPull, Swap
<1>6. /\ s \in {4, 6} /\ (back # {} => s = 4) /\ back \subseteq {k}
      /\ \A x \in back : ~Blocked(x[1], x[2], own)
  BY DEF Issued
<1>7. below \subseteq C /\ \A x \in below : ~Blocked(x[1], x[2], ns)
  BY DEF Issued
<1>8. \A x \in Key : ns[x] = IF x \in C THEN 1 ELSE own[x]
  OBVIOUS
<1>9. \A j \in Ids : <<j, l>> \in Key /\ <<j, l>> \notin C /\ ns[<<j, l>>] = own[<<j, l>>]
  BY <1>3, KeyFacts
<1>10. Blocked(i, l, ns) <=> Blocked(i, l, own)
  <2>1. \A j \in Older(i, l) : ns[<<j, l>>] = own[<<j, l>>]
    BY <1>9 DEF Older
  <2> HIDE DEF ns, own, i
  <2> QED BY <2>1 DEF Blocked
<1>11. Advances(ns)
  <2>1. ns \in [Key -> Step \cup {Absent}]
    BY <1>4 DEF Advances, Step
  <2>2. \A x \in Key : ns[x] >= next_step[x] /\ (ns[x] = Absent <=> next_step[x] = Absent)
    <3> HIDE DEF ns, own, C
    <3> QED BY <1>3, <1>4, <1>8 DEF Advances, Absent
  <2>3. \A j \in Ids :
          /\ ns[<<j, "data">>] > 0 => next_step[<<j, "data">>] > 0 \/ ns[<<j, "pos1">>] > 3
          /\ ns[<<j, "pos1">>] > 0 => next_step[<<j, "pos1">>] > 0 \/ ns[<<j, "pos2">>] > 3
    <3> SUFFICES ASSUME NEW j \in Ids, NEW u \in Levels, NEW d \in Levels,
                        (d = "data" /\ u = "pos1") \/ (d = "pos1" /\ u = "pos2"),
                        ns[<<j, d>>] > 0, ~(next_step[<<j, d>>] > 0)
                 PROVE  ns[<<j, u>>] > 3
      BY KeyFacts
    <3>1. <<j, d>> \in Key /\ <<j, u>> \in Key
      BY KeyFacts
    <3> HIDE DEF ns, own, C, s, k
    <3>2. <<j, d>> \in C
      BY <1>2, <1>4, <1>8, <3>1
    <3>3. u = l /\ j = i
      BY <1>3, <3>2
    <3>4. ns[<<i, l>>] = s
      BY <1>2, <1>4, <1>9 DEF k
    <3> QED BY <1>6, <3>3, <3>4
  <2> HIDE DEF ns
  <2> QED BY <2>1, <2>2, <2>3 DEF Advances
<1> HIDE DEF ns, own, C, s, below, back, R, pool, k
<1>12. /\ \A x \in back : x = k /\ ns[x] = 4 /\ x \in Key
       /\ \A x \in below : /\ x \in Key /\ x # k /\ ns[x] = 1
                            /\ x \notin execution_pool
  <2>1. ns[k] = own[k]
    BY <1>2, <1>9 DEF k
  <2> QED BY <1>2, <1>3, <1>4, <1>6, <1>7, <1>8, <2>1
<1>13. Stations(lines, (meta \cup Jobs(back, 4)) \cup Jobs(below, 1), R,
                (pool \cup back) \cup below, ns)
  <2>1. Stations(lines, meta, R, pool, ns)
    <3>1. \A x \in pool : ns[x] = own[x]
      BY <1>3, <1>4, <1>8 DEF pool, Stations
    <3> QED BY <1>4, <3>1, StationsFrame
  <2>2. Stations(lines, meta \cup Jobs(back, 4), R, pool \cup back, ns)
    <3>1. back \in SUBSET Key /\ 4 \in 0 .. 5
      BY <1>12
    <3>2. \A x \in back : x \notin pool /\ ns[x] = 4
      BY <1>12 DEF pool
    <3> QED BY <2>1, <3>1, <3>2, StationsFetch
  <2>3. below \in SUBSET Key /\ 1 \in 0 .. 5
    BY <1>12
  <2>4. \A x \in below : x \notin pool \cup back /\ ns[x] = 1
    BY <1>12 DEF pool
  <2> QED BY <2>2, <2>3, <2>4, StationsFetch
<1>14. StartsFreely(ns, execution_pool', back \cup below)
  <2>1. execution_pool' \subseteq execution_pool \cup (back \cup below)
    BY <1>5 DEF pool
  <2>2. \A x \in back \cup below : ~Blocked(x[1], x[2], ns) /\ ns[x] > 0
    <3>1. \A x \in back \cup below : ns[x] > 0
      BY <1>12
    <3>2. \A x \in back : x[1] = i /\ x[2] = l
      BY <1>12 DEF k
    <3> HIDE DEF i
    <3> QED BY <1>6, <1>7, <1>10, <3>1, <3>2
  <2>3. ASSUME NEW x \in Key, ns[x] >= 2 \/ x \in execution_pool', ns[x] # next_step[x]
        PROVE  x \in back \cup below \/ (next_step[x] >= 1 /\ x \in execution_pool)
    <3>1. CASE x = k
      BY <1>2, <3>1
    <3>2. CASE x \in C
      <4>1. ns[x] = 1 /\ x \notin execution_pool
        BY <1>3, <1>8, <3>2
      <4> QED BY <1>5, <2>3, <4>1 DEF pool
    <3>3. CASE x # k /\ x \notin C
      BY <1>4, <1>8, <2>3, <3>3
    <3> QED BY <3>1, <3>2, <3>3
  <2> QED BY <2>1, <2>2, <2>3 DEF StartsFreely
<1>15. execution_pool' = (pool \cup back) \cup below
  BY <1>5
<1>16. pc' \in {"idle", "check", "serving", "done"}
  BY <1>5 DEF IInv, TypeOK
<1> QED BY <1>5, <1>11, <1>13, <1>14, <1>15, <1>16, StepInv

LEMMA WritebackInv ==
  ASSUME IInv, NEW l \in Levels, FinishWriteback(l)
  PROVE  IInv'
<1> DEFINE i     == Front(l).id
           k     == <<i, l>>
           ns    == SetStep(i, l, 6)
           woken == IF set_cnt[k] % A = 0 THEN Issued(Waiting(i, l, ns), ns) ELSE {}
           pool  == execution_pool \ {k}
           R     == DropFront(l)
<1>1. PopReady(l) /\ Front(l).step = 5
  BY DEF FinishWriteback
<1>2. k \in execution_pool /\ i \in Ids /\ next_step[k] = 5
  BY <1>1, Popped
<1>3. /\ Advances(ns) /\ (\A x \in Key : x # k => ns[x] = next_step[x])
      /\ Stations(lines, meta, R, pool, ns)
  <2>1. 6 \in Step /\ 6 > 5
    BY DEF Step
  <2> QED BY <1>1, <2>1, OwnStep
<1>4. /\ execution_pool' = pool \cup woken /\ meta' = meta \cup Jobs(woken, 1)
      /\ ready_to_pop_task' = R /\ lines' = lines /\ UNCHANGED <<taskVars, trace_end>>
      /\ IF i = current_rdy_to_commit /\ AllFinished(i, ns)
           THEN Retire(i, ns) /\ pc' = AfterRetire
           ELSE next_step' = ns /\ UNCHANGED <<current_rdy_to_commit, pc>>
  BY DEF FinishWriteback, Retires, Swap
<1>5. \A w \in woken : /\ w \in Key /\ w \notin execution_pool /\ w # k /\ ns[w] = 1
                       /\ ~Blocked(w[1], w[2], ns)
  <2>1. CASE set_cnt[k] % A # 0
    BY <2>1
  <2>2. CASE set_cnt[k] % A = 0
    <3>1. ~Past(i, l, 5) /\ 6 \in Step /\ 6 > 5
      BY <2>2 DEF Past, Step
    <3>2. \A w \in Waiting(i, l, ns) :
             w \in Key /\ w \notin execution_pool /\ w # k /\ ns[w] = 1
      BY <1>1, <3>1, Woken
    <3>3. woken = Issued(Waiting(i, l, ns), ns)
      BY <2>2
    <3> QED BY <3>2, <3>3 DEF Issued
  <2> QED BY <2>1, <2>2
<1> HIDE DEF ns, k, woken, R, pool, i
<1>6. Stations(lines, meta \cup Jobs(woken, 1), R, pool \cup woken, ns)
  <2>1. \A w \in woken : w \notin pool
    BY <1>5 DEF pool
  <2>2. woken \in SUBSET Key /\ 1 \in 0 .. 5
    BY <1>5
  <2> QED BY <1>3, <1>5, <2>1, <2>2, StationsFetch
<1>7. StartsFreely(ns, pool \cup woken, woken)
  <2>1. ASSUME NEW x \in Key, ns[x] # next_step[x]
        PROVE  next_step[x] >= 1 /\ x \in execution_pool
    BY <1>2, <1>3, <2>1
  <2>2. \A w \in woken : ns[w] > 0
    BY <1>5
  <2> QED BY <1>5, <2>1, <2>2 DEF StartsFreely, pool
<1>8. CASE i = current_rdy_to_commit /\ AllFinished(i, ns)
  <2>1. pc' \in {"idle", "check", "serving", "done"}
    BY <1>4, <1>8 DEF AfterRetire
  <2> QED BY <1>2, <1>3, <1>4, <1>6, <1>7, <1>8, <2>1, RetireInv
<1>9. CASE ~(i = current_rdy_to_commit /\ AllFinished(i, ns))
  <2>1. pc' \in {"idle", "check", "serving", "done"}
    BY <1>4, <1>9 DEF IInv, TypeOK
  <2> QED BY <1>3, <1>4, <1>6, <1>7, <1>9, <2>1, StepInv
<1> QED BY <1>8, <1>9

-----------------------------------------------------------------------------
(***************************************************************************)
(* Steps that move no task.                                                *)
(***************************************************************************)
LEMMA StandStill ==
  ASSUME IInv, NEW pool, pool \subseteq execution_pool
  PROVE  Advances(next_step) /\ StartsFreely(next_step, pool, {})
<1>1. next_step \in [Key -> Step \cup {Absent}]
  BY DEF IInv, TypeOK
<1>2. \A k \in Key : next_step[k] \in Int
  <2>1. Step \cup {Absent} \subseteq Int
    BY DEF Step, Absent
  <2> QED BY <1>1, <2>1
<1> QED BY <1>1, <1>2 DEF Advances, StartsFreely

LEMMA CheckHeadInv ==
  ASSUME IInv, CheckHead
  PROVE  IInv'
<1> DEFINE h == tail_n_id - Depth
<1>1. /\ UNCHANGED <<taskVars, trace_end, execution_pool, lines, meta, ready_to_pop_task>>
      /\ pc' \in {"idle", "check", "serving", "done"}
  BY DEF CheckHead
<1>2. /\ Advances(next_step) /\ StartsFreely(next_step, execution_pool', {})
      /\ Stations(lines', meta', ready_to_pop_task', execution_pool', next_step)
  BY <1>1, StandStill, InvStations
<1>3. CASE h = current_rdy_to_commit /\ AllFinished(h, next_step)
  <2>1. h \in Ids
    BY <1>3 DEF IInv, TypeOK, Ids
  <2>2. Retire(h, next_step)
    BY <1>3 DEF CheckHead
  <2> HIDE DEF h
  <2> QED BY <1>1, <1>2, <1>3, <2>1, <2>2, RetireInv
<1>4. CASE ~(h = current_rdy_to_commit /\ AllFinished(h, next_step))
  <2>1. next_step' = next_step /\ UNCHANGED current_rdy_to_commit
    BY <1>4 DEF CheckHead
  <2> QED BY <1>1, <1>2, <2>1, StepInv
<1> QED BY <1>3, <1>4

LEMMA CommitInv ==
  ASSUME IInv, NEW l \in Levels, LinesCommit(l)
  PROVE  IInv'
<1>1. /\ UNCHANGED <<taskVars, trace_end, current_rdy_to_commit, execution_pool, meta, pc>>
      /\ next_step' = next_step /\ lines[l] # <<>>
      /\ lines' = [lines EXCEPT ![l] = Tail(@)]
      /\ ready_to_pop_task' = [ready_to_pop_task EXCEPT ![l] = Append(@, Head(lines[l]))]
  BY DEF LinesCommit
<1>2. Stations(lines', meta', ready_to_pop_task', execution_pool', next_step)
  BY <1>1, InvStations, StationsCommit
<1>3. pc' \in {"idle", "check", "serving", "done"}
  BY <1>1 DEF IInv, TypeOK
<1> QED BY <1>1, <1>2, <1>3, StandStill, StepInv

LEMMA ArriveInv ==
  ASSUME IInv, NEW x \in meta, MetadataArrives(x)
  PROVE  IInv'
<1>1. /\ UNCHANGED <<taskVars, trace_end, current_rdy_to_commit, execution_pool, lines, pc>>
      /\ next_step' = next_step /\ meta' = meta \ {x}
      /\ ready_to_pop_task' = [ready_to_pop_task EXCEPT ![x.level] = Append(@, x)]
  BY DEF MetadataArrives
<1>2. Stations(lines', meta', ready_to_pop_task', execution_pool', next_step)
  BY <1>1, InvStations, StationsArrive
<1>3. pc' \in {"idle", "check", "serving", "done"}
  BY <1>1 DEF IInv, TypeOK
<1> QED BY <1>1, <1>2, <1>3, StandStill, StepInv

\* IInv is inductive.
LEMMA NextInv == IInv /\ [Next]_vars => IInv'
<1> SUFFICES ASSUME IInv, [Next]_vars PROVE IInv'
  OBVIOUS
<1>t. pc \in {"idle", "check", "serving", "done"} /\ trace_end \in BOOLEAN
  BY DEF IInv, TypeOK
<1>1. ASSUME NEW sets \in SetChoices, Serve(sets) PROVE IInv'
  BY <1>1, ServeInv
<1>2. CASE ServeEnd
  BY <1>2, IdleInv DEF ServeEnd, taskVars
<1>3. CASE CheckHead
  BY <1>3, CheckHeadInv
<1>4. CASE PoolEmpty
  BY <1>t, <1>4, IdleInv DEF PoolEmpty, taskVars
<1>5. ASSUME NEW l \in Levels, LinesCommit(l) PROVE IInv'
  BY <1>5, CommitInv
<1>6. ASSUME NEW x \in meta, MetadataArrives(x) PROVE IInv'
  BY <1>6, ArriveInv
<1>7. ASSUME NEW l \in Levels, Finish(l) PROVE IInv'
  BY <1>7, LookupInv, PathInv, SlotsInv, PullRetireInv, PullInv, WriteMetadataInv, WritebackInv
     DEF Finish
<1>8. CASE Exit
  BY <1>t, <1>8, IdleInv DEF Exit, taskVars
<1>9. CASE UNCHANGED vars
  BY <1>t, <1>9, IdleInv DEF vars
<1> QED BY <1>1, <1>2, <1>3, <1>4, <1>5, <1>6, <1>7, <1>8, <1>9 DEF Next, Exited

-----------------------------------------------------------------------------
(***************************************************************************)
(* Theorems.                                                               *)
(***************************************************************************)

\* IInv holds in every reachable state.
THEOREM Invariance == Spec => []IInv
BY InitInv, NextInv, PTL DEF Spec

\* Every variable of the engine keeps its type.
THEOREM TypeCorrect == Spec => []TypeOK
<1>1. IInv => TypeOK
  BY DEF IInv
<1> QED BY <1>1, Invariance, PTL

\* The deque holds exactly the requests between current_rdy_to_commit and
\* tail_n_id, so a task is never looked up after it was dropped.
THEOREM DequeCorrect == Spec => []DequeIsWindow
<1>1. IInv => DequeIsWindow
  BY DEF IInv
<1> QED BY <1>1, Invariance, PTL

\* The tasks of one set touch the tree one at a time and in request order,
\* whatever the order the memory answers in.
THEOREM MutualExclusion == Spec => []SetsTakeTurns
<1>1. IInv => SetsTakeTurns
  BY DEF IInv
<1> QED BY <1>1, Invariance, PTL

\* execution_pool and the reservation stations agree, so the asserts of
\* push_execution_pool and pop_execution_pool never fail.
THEOREM PoolCorrect == Spec => []PoolMatchesStations
<1>1. IInv => PoolMatchesStations
  BY DEF IInv
<1> QED BY <1>1, Invariance, PTL

\* No level is looked up before the level that holds its position was read.
THEOREM DependenciesKept == Spec => []PositionsFirst
<1>1. IInv => PositionsFirst
  BY DEF IInv
<1> QED BY <1>1, Invariance, PTL

-----------------------------------------------------------------------------
(***************************************************************************)
(* Wakeups.                                                                *)
(***************************************************************************)

\* In the state ns, pool a task may wait: for the level above it, or for an
\* older task of its set.
MayWait(i, l, ns) ==
  \/ l = "pos1" /\ ns[<<i, l>>] = 0 /\ ns[<<i, "pos2">>] <= 3
  \/ l = "data" /\ ns[<<i, l>>] = 0 /\ ns[<<i, "pos1">>] <= 3
  \/ ns[<<i, l>>] = 1 /\ Blocked(i, l, ns)

\* A step that moves tasks to ns strands none: what it moves is finished, goes
\* into the pool or is blocked; what it does not move stays in the pool; a level
\* that is read starts the next one; and who is blocked no longer is woken.
WakesAll(ns, pool) ==
  /\ \A k \in Key : ns[k] # next_step[k] =>
        ns[k] = 6 \/ k \in pool \/ (ns[k] = 1 /\ Blocked(k[1], k[2], ns))
  /\ \A k \in execution_pool : ns[k] = next_step[k] => k \in pool
  /\ \A i \in Ids :
        /\ next_step[<<i, "pos2">>] <= 3 /\ ns[<<i, "pos2">>] > 3 => ns[<<i, "pos1">>] # 0
        /\ next_step[<<i, "pos1">>] <= 3 /\ ns[<<i, "pos1">>] > 3 => ns[<<i, "data">>] # 0
  /\ \A k \in Key :
        (/\ next_step[k] = 1 /\ ns[k] = 1 /\ k \notin execution_pool
         /\ Blocked(k[1], k[2], next_step) /\ ~Blocked(k[1], k[2], ns)) => k \in pool

\* A blocked task stays blocked when only finished requests leave the deque.
LEMMA StillBlocked ==
  ASSUME IInv, IInv', UNCHANGED <<set_id, set_cnt>>, NEW ns,
         NEW i \in Ids, NEW l \in Levels, Blocked(i, l, ns), InDeque(i, l)',
         \A j \in Ids : InDeque(j, l) /\ ns[<<j, l>>] # 6 =>
                          InDeque(j, l)' /\ next_step'[<<j, l>>] = ns[<<j, l>>]
  PROVE  Blocked(i, l, next_step)'
<1>1. PICK j \in Older(i, l) : set_id[<<j, l>>] = set_id[<<i, l>>] /\ ~Past(j, l, ns[<<j, l>>])
  BY DEF Blocked
<1>2. j \in Ids /\ j < i /\ InDeque(j, l)
  BY DEF Older, Ids
<1>3. ns[<<j, l>>] # 6
  BY <1>1 DEF Past
<1>4. InDeque(j, l)' /\ next_step'[<<j, l>>] = ns[<<j, l>>]
  BY <1>2, <1>3
<1>5. \A m \in j .. i - 1 : InDeque(m, l)'
  <2>1. j \in Int /\ i \in Int /\ tail_n_id' \in Int /\ current_rdy_to_commit' \in Int
    BY <1>2 DEF IInv, TypeOK, Ids
  <2>2. j >= current_rdy_to_commit' /\ i <= tail_n_id' - 1
    <3>1. next_step'[<<j, l>>] # Absent /\ next_step'[<<i, l>>] # Absent
      BY <1>4 DEF InDeque
    <3>2. /\ j \in current_rdy_to_commit' .. tail_n_id' - 1
          /\ i \in current_rdy_to_commit' .. tail_n_id' - 1
      BY <1>2, <3>1 DEF IInv, DequeIsWindow
    <3>3. current_rdy_to_commit' <= j /\ j <= tail_n_id' - 1
      BY <3>2
    <3>4. current_rdy_to_commit' <= i /\ i <= tail_n_id' - 1
      BY <3>2
    <3> QED BY <2>1, <3>3, <3>4
  <2>3. ASSUME NEW m \in j .. i - 1 PROVE InDeque(m, l)'
    <3>1. m \in Ids
      BY <1>2 DEF Ids
    <3>2. m \in current_rdy_to_commit' .. tail_n_id' - 1
      BY <2>1, <2>2
    <3>3. next_step'[<<m, l>>] # Absent
      BY <3>1, <3>2 DEF IInv, DequeIsWindow
    <3> QED BY <3>1, <3>3, KeyFacts DEF InDeque
  <2> QED BY <2>3
<1>6. j \in Older(i, l)'
  BY <1>2, <1>5 DEF Older
<1> QED BY <1>1, <1>4, <1>6 DEF Blocked, Past

LEMMA NoneStranded ==
  ASSUME IInv, IInv', NoTaskStranded, UNCHANGED <<set_id, set_cnt>>, NEW ns, Advances(ns),
         WakesAll(ns, execution_pool'),
         \A i \in Ids : \/ \A l \in Levels : next_step'[<<i, l>>] = ns[<<i, l>>]
                        \/ AllFinished(i, ns) /\ \A l \in Levels : next_step'[<<i, l>>] = Absent
  PROVE  NoTaskStranded'
<1> SUFFICES ASSUME NEW i \in Ids, NEW l \in Levels, InDeque(i, l)', next_step'[<<i, l>>] # 6,
                    <<i, l>> \notin execution_pool'
             PROVE  MayWait(i, l, next_step)'
  BY DEF NoTaskStranded, MayWait
<1> DEFINE k == <<i, l>>
<1>1. k \in Key /\ k[1] = i /\ k[2] = l /\ "pos2" \in Levels /\ "pos1" \in Levels
  BY KeyFacts
<1>2. \A m \in Levels : next_step'[<<i, m>>] = ns[<<i, m>>]
  BY DEF InDeque
<1>3. InDeque(i, l) /\ ns[k] # 6
  BY <1>1, <1>2 DEF InDeque, Advances
<1>4. Blocked(i, l, ns) => Blocked(i, l, next_step)'
  <2>1. ASSUME NEW j \in Ids, InDeque(j, l), ns[<<j, l>>] # 6
        PROVE  InDeque(j, l)' /\ next_step'[<<j, l>>] = ns[<<j, l>>]
    <3>1. next_step'[<<j, l>>] = ns[<<j, l>>]
      BY <2>1 DEF AllFinished
    <3> QED BY <2>1, <3>1 DEF InDeque, Advances
  <2> QED BY <2>1, StillBlocked
<1>5. CASE ns[k] # next_step[k]
  BY <1>1, <1>2, <1>3, <1>4, <1>5 DEF WakesAll, MayWait
<1>6. CASE ns[k] = next_step[k]
  <2>1. k \notin execution_pool
    BY <1>6 DEF WakesAll
  <2>2. MayWait(i, l, next_step)
    BY <1>3, <1>6, <2>1 DEF NoTaskStranded, MayWait
  <2>3. CASE next_step[k] = 1 /\ Blocked(i, l, next_step)
    BY <1>1, <1>2, <1>4, <1>6, <2>1, <2>3 DEF WakesAll, MayWait
  <2>4. CASE l = "pos1" /\ next_step[k] = 0 /\ next_step[<<i, "pos2">>] <= 3
    <3>1. ns[<<i, "pos2">>] <= 3
      <4>1. ns[<<i, "pos2">>] \in Step \cup {Absent}
        BY <1>1, KeyFacts DEF Advances
      <4>2. ~(ns[<<i, "pos2">>] > 3)
        BY <1>6, <2>4 DEF WakesAll
      <4> QED BY <4>1, <4>2 DEF Step, Absent
    <3> QED BY <1>1, <1>2, <1>6, <2>4, <3>1 DEF MayWait
  <2>5. CASE l = "data" /\ next_step[k] = 0 /\ next_step[<<i, "pos1">>] <= 3
    <3>1. ns[<<i, "pos1">>] <= 3
      <4>1. ns[<<i, "pos1">>] \in Step \cup {Absent}
        BY <1>1, KeyFacts DEF Advances
      <4>2. ~(ns[<<i, "pos1">>] > 3)
        BY <1>6, <2>5 DEF WakesAll
      <4> QED BY <4>1, <4>2 DEF Step, Absent
    <3> QED BY <1>1, <1>2, <1>6, <2>5, <3>1 DEF MayWait
  <2> QED BY <2>2, <2>3, <2>4, <2>5 DEF MayWait
<1> QED BY <1>5, <1>6

\* A task that has chosen its path is not blocked when it is issued again.
LEMMA NotHeldBack ==
  ASSUME IInv, NEW l \in Levels, PopReady(l), Front(l).step >= 1, NEW s \in Step,
         s > Front(l).step
  PROVE  ~Blocked(Front(l).id, l, SetStep(Front(l).id, l, s))
<1> DEFINE i  == Front(l).id
           ns == SetStep(i, l, s)
<1>1. /\ i \in Ids /\ <<i, l>> \in execution_pool /\ next_step[<<i, l>>] = Front(l).step
      /\ next_step[<<i, l>>] \in 0 .. 5 /\ <<i, l>> \in Key
  BY Popped, KeyFacts
<1>2. \A x \in Key : x # <<i, l>> => ns[x] = next_step[x]
  BY OwnStep
<1> HIDE DEF i, ns
<1>3. InDeque(i, l) /\ Started(i, l)
  BY <1>1 DEF InDeque, Started, Absent, i
<1> SUFFICES ASSUME NEW j \in Older(i, l), set_id[<<j, l>>] = set_id[<<i, l>>]
             PROVE  Past(j, l, ns[<<j, l>>])
  BY DEF Blocked, i, ns
<1>4. j \in Ids /\ j < i /\ InDeque(j, l)
  BY <1>1 DEF Older, Ids
<1>5. Past(j, l, next_step[<<j, l>>])
  BY <1>1, <1>3, <1>4 DEF IInv, SetsTakeTurns
<1>6. ns[<<j, l>>] = next_step[<<j, l>>]
  <2>1. <<j, l>> \in Key /\ <<j, l>> # <<i, l>>
    BY <1>1, <1>4 DEF InDeque, Ids
  <2> QED BY <1>2, <2>1
<1> QED BY <1>5, <1>6

\* When a task moves on and another is no longer blocked, the task has just let
\* the set go on, and the other is the one its scan finds.
LEMMA FoundByScan ==
  ASSUME IInv, NEW l \in Levels, PopReady(l), NEW s \in Step, s > Front(l).step,
         NEW x \in Key, next_step[x] = 1, x[1] # Front(l).id \/ x[2] # l,
         Blocked(x[1], x[2], next_step), NEW ns,
         \A y \in Key : y[2] = x[2] => ns[y] = SetStep(Front(l).id, l, s)[y],
         ~Blocked(x[1], x[2], ns)
  PROVE  /\ ~Past(Front(l).id, l, Front(l).step) /\ Past(Front(l).id, l, s)
         /\ x \in Waiting(Front(l).id, l, SetStep(Front(l).id, l, s))
         /\ x[2] = l
<1> DEFINE i   == Front(l).id
           k   == <<i, l>>
           own == SetStep(i, l, s)
           v   == x[1]
           m   == x[2]
<1>1. /\ i \in Ids /\ k \in execution_pool /\ next_step[k] = Front(l).step
      /\ next_step[k] \in 0 .. 5 /\ k \in Key
  BY Popped, KeyFacts
<1>2. own[k] = s /\ \A y \in Key : y # k => own[y] = next_step[y]
  BY OwnStep
<1>3. v \in Ids /\ m \in Levels /\ x = <<v, m>>
  BY KeyFacts
<1> HIDE DEF i, own
<1>4. PICK j \in Older(v, m) :
         set_id[<<j, m>>] = set_id[x] /\ ~Past(j, m, next_step[<<j, m>>])
  BY <1>3 DEF Blocked
<1>5. j \in Ids /\ j < v /\ InDeque(j, m) /\ <<j, m>> \in Key
  BY <1>3 DEF Older, Ids, InDeque
<1>6. Past(j, m, ns[<<j, m>>])
  BY <1>3, <1>4 DEF Blocked
<1>7. j = i /\ m = l
  <2>1. ns[<<j, m>>] = own[<<j, m>>]
    BY <1>5 DEF own, i
  <2>2. <<j, m>> = k
    BY <1>2, <1>4, <1>5, <1>6, <2>1
  <2> QED BY <2>2
<1>8. ns[k] = s
  BY <1>1, <1>2, <1>7 DEF own, i
<1>9. i < v /\ i \in Int /\ v \in Int /\ set_id[<<v, l>>] = set_id[k]
  BY <1>1, <1>3, <1>4, <1>5, <1>7 DEF Ids
<1>10. \A y \in i + 1 .. v : InDeque(y, l)
  <2>1. InDeque(v, l)
    BY <1>3, <1>7 DEF InDeque, Absent
  <2>2. \A y \in i .. v - 1 : InDeque(y, l)
    BY <1>4, <1>7 DEF Older
  <2> QED BY <1>9, <2>1, <2>2
<1>11. ASSUME NEW y \in i + 1 .. v - 1, set_id[<<y, l>>] = set_id[k] PROVE FALSE
  <2>1. y \in Ids /\ y < v /\ i < y /\ InDeque(y, l) /\ <<y, l>> \in Key /\ y # i
    BY <1>9, <1>10 DEF InDeque, Key
  <2>2. y \in Older(v, l)
    <3>1. \A z \in y .. v - 1 : InDeque(z, l)
      BY <1>9, <1>10, <2>1
    <3> QED BY <2>1, <3>1 DEF Older
  <2>3. Past(y, l, ns[<<y, l>>])
    BY <1>3, <1>7, <1>9, <1>11, <2>2 DEF Blocked
  <2>4. ns[<<y, l>>] = next_step[<<y, l>>]
    BY <1>2, <1>7, <2>1 DEF own, i
  <2>5. next_step[<<y, l>>] \in Step \cup {Absent}
    BY <2>1 DEF IInv, TypeOK
  <2>6. Started(y, l)
    BY <2>3, <2>4, <2>5 DEF Past, Started, Step, Absent
  <2>7. InDeque(i, l)
    BY <1>1 DEF InDeque, Absent
  <2>8. Past(i, l, next_step[k])
    BY <1>1, <1>11, <2>1, <2>6, <2>7 DEF IInv, SetsTakeTurns
  <2> QED BY <1>4, <1>7, <2>8
<1>12. IsNextOfSet(i, l, v)
  BY <1>3, <1>9, <1>10, <1>11 DEF IsNextOfSet
<1>13. own[x] = 1
  <2>1. x # k
    BY <1>3, <1>9
  <2> QED BY <1>2, <2>1
<1>14. x \in Waiting(i, l, own)
  BY <1>3, <1>7, <1>12, <1>13 DEF Waiting
<1> QED BY <1>1, <1>4, <1>6, <1>7, <1>8, <1>14 DEF i, own

\* A step that moves only the task of the popped answer strands nobody if it
\* wakes the scan's find when that task lets its set go on.
LEMMA OwnWakes ==
  ASSUME IInv, NEW l \in Levels, PopReady(l), NEW s \in Step, s > Front(l).step, NEW pool,
         execution_pool \ {<<Front(l).id, l>>} \subseteq pool,
         \/ s = 6
         \/ <<Front(l).id, l>> \in pool
         \/ s = 1 /\ Blocked(Front(l).id, l, SetStep(Front(l).id, l, s)),
         \/ Front(l).step > 3
         \/ s <= 3
         \/ AllFinished(Front(l).id, SetStep(Front(l).id, l, s)),
         ~Past(Front(l).id, l, Front(l).step) /\ Past(Front(l).id, l, s)
           => Issued(Waiting(Front(l).id, l, SetStep(Front(l).id, l, s)),
                     SetStep(Front(l).id, l, s)) \subseteq pool
  PROVE  WakesAll(SetStep(Front(l).id, l, s), pool)
<1> DEFINE i  == Front(l).id
           k  == <<i, l>>
           ns == SetStep(i, l, s)
<1>1. /\ i \in Ids /\ k \in execution_pool /\ next_step[k] = Front(l).step
      /\ k \in Key /\ k[1] = i /\ k[2] = l
  BY Popped, KeyFacts
<1>2. ns[k] = s /\ \A y \in Key : y # k => ns[y] = next_step[y]
  BY OwnStep
<1>3. ASSUME NEW x \in Key, next_step[x] = 1, ns[x] = 1, x \notin execution_pool,
             Blocked(x[1], x[2], next_step), ~Blocked(x[1], x[2], ns)
      PROVE  x \in pool
  <2>1. x[1] # i \/ x[2] # l
    BY <1>1, <1>3, KeyFacts
  <2>2. /\ ~Past(i, l, Front(l).step) /\ Past(i, l, s) /\ x \in Waiting(i, l, ns)
    BY <1>3, <2>1, FoundByScan
  <2> QED BY <1>3, <2>2 DEF Issued
<1> HIDE DEF ns, i
<1>4. \A x \in Key : ns[x] # next_step[x] =>
         ns[x] = 6 \/ x \in pool \/ (ns[x] = 1 /\ Blocked(x[1], x[2], ns))
  BY <1>1, <1>2 DEF ns, i
<1>5. \A x \in execution_pool : ns[x] = next_step[x] => x \in pool
  <2>1. ns[k] # next_step[k]
    BY <1>1, <1>2 DEF Step, i
  <2> QED BY <2>1 DEF i
<1>6. ASSUME NEW j \in Ids, NEW u \in Levels, NEW d \in Levels,
             next_step[<<j, u>>] <= 3, ns[<<j, u>>] > 3
      PROVE  ns[<<j, d>>] # 0
  <2>1. <<j, u>> = k
    <3>1. <<j, u>> \in Key
      BY KeyFacts
    <3>2. next_step[<<j, u>>] \in Step \cup {Absent}
      BY <3>1 DEF IInv, TypeOK
    <3> QED BY <1>2, <1>6, <3>1, <3>2 DEF Step, Absent
  <2>2. AllFinished(i, ns)
    <3>1. next_step[k] \in 0 .. 5 /\ next_step[k] <= 3 /\ s > 3
      BY <1>2, <1>6, <2>1, Popped DEF i
    <3>2. ~(Front(l).step > 3) /\ ~(s <= 3)
      BY <1>1, <3>1 DEF Step
    <3> QED BY <3>2 DEF ns, i
  <2> QED BY <2>1, <2>2 DEF AllFinished
<1>7. "pos2" \in Levels /\ "pos1" \in Levels /\ "data" \in Levels
  BY KeyFacts
<1>8. WakesAll(ns, pool)
  BY <1>3, <1>4, <1>5, <1>6, <1>7 DEF WakesAll
<1> QED BY <1>8 DEF ns, i

\* A step that moves tasks to ns, wakes whom it must and drops no request
\* strands nobody.
LEMMA MovedOn ==
  ASSUME IInv, IInv', NoTaskStranded, UNCHANGED <<set_id, set_cnt>>, Advances(next_step'),
         WakesAll(next_step', execution_pool')
  PROVE  NoTaskStranded'
<1> DEFINE ns == next_step'
<1>1. \A i \in Ids, m \in Levels : next_step'[<<i, m>>] = ns[<<i, m>>]
  OBVIOUS
<1>2. Advances(ns) /\ WakesAll(ns, execution_pool')
  OBVIOUS
<1> HIDE DEF ns
<1> QED BY <1>1, <1>2, NoneStranded

LEMMA LookupWakes ==
  ASSUME IInv, IInv', NoTaskStranded, NEW l \in Levels, FinishLookup(l)
  PROVE  NoTaskStranded'
<1> DEFINE i    == Front(l).id
           k    == <<i, l>>
           ns   == SetStep(i, l, 1)
           pool == (execution_pool \ {k}) \cup Issued({k}, ns)
<1>1. PopReady(l) /\ Front(l).step = 0
  BY DEF FinishLookup
<1>2. Advances(ns)
  <2>1. 1 \in Step /\ 1 > 0
    BY DEF Step
  <2> QED BY <1>1, <2>1, OwnStep
<1>3. WakesAll(ns, pool)
  <2>1. 1 \in Step /\ 1 > 0 /\ 1 <= 3 /\ ~Past(i, l, 1)
    BY DEF Step, Past
  <2>2. k \in pool \/ Blocked(i, l, ns)
    BY DEF Issued
  <2>3. execution_pool \ {k} \subseteq pool
    OBVIOUS
  <2> HIDE DEF pool
  <2> QED BY <1>1, <2>1, <2>2, <2>3, OwnWakes
<1>4. next_step' = ns /\ execution_pool' = pool /\ UNCHANGED <<set_id, set_cnt>>
  BY DEF FinishLookup, Swap, taskVars
<1> HIDE DEF ns, pool
<1> QED BY <1>2, <1>3, <1>4, MovedOn

LEMMA PathWakes ==
  ASSUME IInv, IInv', NoTaskStranded, NEW l \in Levels, NEW reshuffle \in BOOLEAN,
         FinishPath(l, reshuffle)
  PROVE  NoTaskStranded'
<1> DEFINE i    == Front(l).id
           k    == <<i, l>>
           ns   == SetStep(i, l, 2)
           pool == (execution_pool \ {k}) \cup Issued({k}, ns)
<1>1. PopReady(l) /\ Front(l).step = 1
  BY DEF FinishPath
<1>2. 2 \in Step /\ 2 > 1 /\ 1 >= 1 /\ 2 <= 3 /\ ~Past(i, l, 2)
  BY DEF Step, Past
<1>3. Advances(ns)
  BY <1>1, <1>2, OwnStep
<1>4. WakesAll(ns, pool)
  <2>1. ~Blocked(i, l, ns)
    BY <1>1, <1>2, NotHeldBack
  <2>2. k \in pool
    BY <2>1 DEF Issued
  <2>3. execution_pool \ {k} \subseteq pool
    OBVIOUS
  <2> HIDE DEF pool
  <2> QED BY <1>1, <1>2, <2>2, <2>3, OwnWakes
<1>5. next_step' = ns /\ execution_pool' = pool /\ UNCHANGED <<set_id, set_cnt>>
  BY DEF FinishPath, Swap, taskVars
<1> HIDE DEF ns, pool
<1> QED BY <1>3, <1>4, <1>5, MovedOn

LEMMA SlotsWake ==
  ASSUME IInv, IInv', NoTaskStranded, NEW l \in Levels, FinishSlots(l)
  PROVE  NoTaskStranded'
<1> DEFINE i     == Front(l).id
           k     == <<i, l>>
           ns    == SetStep(i, l, 3)
           found == Issued(Waiting(i, l, ns), ns)
           woken == IF set_cnt[k] % A # 0 THEN found ELSE {}
           pool  == (execution_pool \ {k}) \cup (Issued({k}, ns) \cup woken)
<1>1. PopReady(l) /\ Front(l).step = 2
  BY DEF FinishSlots
<1>2. 3 \in Step /\ 3 > 2 /\ 2 >= 1 /\ 3 <= 3
  BY DEF Step
<1>3. Advances(ns)
  BY <1>1, <1>2, OwnStep
<1>4. WakesAll(ns, pool)
  <2>1. ~Blocked(i, l, ns)
    BY <1>1, <1>2, NotHeldBack
  <2>2. k \in pool
    BY <2>1 DEF Issued
  <2>3. execution_pool \ {k} \subseteq pool
    OBVIOUS
  <2>4. Past(i, l, 3) => found \subseteq pool
    BY DEF Past
  <2> HIDE DEF pool
  <2> QED BY <1>1, <1>2, <2>2, <2>3, <2>4, OwnWakes
<1>5. next_step' = ns /\ execution_pool' = pool /\ UNCHANGED <<set_id, set_cnt>>
  BY DEF FinishSlots, Swap, taskVars
<1> HIDE DEF ns, pool
<1> QED BY <1>3, <1>4, <1>5, MovedOn

LEMMA WriteMetadataWakes ==
  ASSUME IInv, IInv', NoTaskStranded, NEW l \in Levels, FinishWriteMetadata(l)
  PROVE  NoTaskStranded'
<1> DEFINE i    == Front(l).id
           k    == <<i, l>>
           ns   == SetStep(i, l, 5)
           pool == (execution_pool \ {k}) \cup Issued({k}, ns)
<1>1. PopReady(l) /\ Front(l).step = 4
  BY DEF FinishWriteMetadata
<1>2. 5 \in Step /\ 5 > 4 /\ 4 >= 1 /\ 4 > 3
  BY DEF Step
<1>3. Advances(ns)
  BY <1>1, <1>2, OwnStep
<1>4. WakesAll(ns, pool)
  <2>1. ~Blocked(i, l, ns)
    BY <1>1, <1>2, NotHeldBack
  <2>2. k \in pool
    BY <2>1 DEF Issued
  <2>3. execution_pool \ {k} \subseteq pool
    OBVIOUS
  <2>4. ~(~Past(i, l, 4) /\ Past(i, l, 5))
    BY DEF Past
  <2> HIDE DEF pool
  <2> QED BY <1>1, <1>2, <2>2, <2>3, <2>4, OwnWakes
<1>5. next_step' = ns /\ execution_pool' = pool /\ UNCHANGED <<set_id, set_cnt>>
  BY DEF FinishWriteMetadata, Swap, taskVars
<1> HIDE DEF ns, pool
<1> QED BY <1>3, <1>4, <1>5, MovedOn

\* The oldest request is dropped with its last step.
LEMMA RetireWakes ==
  ASSUME IInv, IInv', NoTaskStranded, UNCHANGED <<set_id, set_cnt>>, NEW ns, NEW n \in Ids,
         Advances(ns), WakesAll(ns, execution_pool'), AllFinished(n, ns), Retire(n, ns)
  PROVE  NoTaskStranded'
<1>1. \A i \in Ids, l \in Levels : next_step'[<<i, l>>] = IF i = n THEN Absent ELSE ns[<<i, l>>]
  BY KeyFacts DEF Retire
<1>2. \A i \in Ids : \/ \A l \in Levels : next_step'[<<i, l>>] = ns[<<i, l>>]
                     \/ AllFinished(i, ns) /\ \A l \in Levels : next_step'[<<i, l>>] = Absent
  BY <1>1
<1> QED BY <1>2, NoneStranded

LEMMA PullRetireWakes ==
  ASSUME IInv, IInv', NoTaskStranded, NEW l \in Levels, FinishPullAndRetire(l)
  PROVE  NoTaskStranded'
<1> DEFINE i    == Front(l).id
           k    == <<i, l>>
           ns   == SetStep(i, l, 6)
           pool == execution_pool \ {k}
<1>1. PopReady(l) /\ Front(l).step = 3
  BY DEF FinishPullAndRetire
<1>2. 6 \in Step /\ 6 > 3
  BY DEF Step
<1>3. Advances(ns)
  BY <1>1, <1>2, OwnStep
<1>4. /\ set_cnt[k] % A # 0 /\ AllFinished(i, ns) /\ Retire(i, ns)
      /\ execution_pool' = pool /\ UNCHANGED <<set_id, set_cnt>>
  BY DEF FinishPullAndRetire, Retires, Swap, taskVars
<1>5. WakesAll(ns, pool)
  <2>1. Past(i, l, 3)
    BY <1>4 DEF Past
  <2> QED BY <1>1, <1>2, <1>4, <2>1, OwnWakes
<1>6. i \in Ids
  BY <1>1, Popped
<1> HIDE DEF ns, pool, i
<1> QED BY <1>3, <1>4, <1>5, <1>6, RetireWakes

LEMMA WritebackWakes ==
  ASSUME IInv, IInv', NoTaskStranded, NEW l \in Levels, FinishWriteback(l)
  PROVE  NoTaskStranded'
<1> DEFINE i     == Front(l).id
           k     == <<i, l>>
           ns    == SetStep(i, l, 6)
           found == Issued(Waiting(i, l, ns), ns)
           woken == IF set_cnt[k] % A = 0 THEN found ELSE {}
           pool  == (execution_pool \ {k}) \cup woken
<1>1. PopReady(l) /\ Front(l).step = 5
  BY DEF FinishWriteback
<1>2. 6 \in Step /\ 6 > 5 /\ 5 > 3
  BY DEF Step
<1>3. Advances(ns)
  BY <1>1, <1>2, OwnStep
<1>4. WakesAll(ns, pool)
  <2>1. ~Past(i, l, 5) => found \subseteq pool
    BY DEF Past
  <2>2. execution_pool \ {k} \subseteq pool
    OBVIOUS
  <2> HIDE DEF pool
  <2> QED BY <1>1, <1>2, <2>1, <2>2, OwnWakes
<1>5. /\ execution_pool' = pool /\ UNCHANGED <<set_id, set_cnt>>
      /\ \/ AllFinished(i, ns) /\ Retire(i, ns)
         \/ next_step' = ns
  BY DEF FinishWriteback, Retires, Swap, taskVars
<1>6. i \in Ids
  BY <1>1, Popped
<1> HIDE DEF ns, pool, i
<1>7. CASE next_step' = ns
  BY <1>3, <1>4, <1>5, <1>7, MovedOn
<1>8. CASE AllFinished(i, ns) /\ Retire(i, ns)
  BY <1>3, <1>4, <1>5, <1>6, <1>8, RetireWakes
<1> QED BY <1>5, <1>7, <1>8

LEMMA PullWakes ==
  ASSUME IInv, IInv', NoTaskStranded, NEW l \in Levels, FinishPull(l)
  PROVE  NoTaskStranded'
<1> DEFINE i      == Front(l).id
           k      == <<i, l>>
           writes == set_cnt[k] % A = 0
           s      == IF writes THEN 4 ELSE 6
           own    == SetStep(i, l, s)
           C      == Chained(i, l)
           ns     == [x \in Key |-> IF x \in C THEN 1 ELSE own[x]]
           back   == IF writes THEN Issued({k}, own) ELSE {}
           below  == Issued(C, ns)
           pool   == (execution_pool \ {k}) \cup (back \cup below)
<1>1. PopReady(l) /\ Front(l).step = 3
  BY DEF FinishPull
<1>2. k \in execution_pool /\ i \in Ids /\ k \in Key /\ next_step[k] = 3
  BY <1>1, Popped, KeyFacts
<1>3. /\ C \subseteq Key
      /\ \A x \in C : x[2] # l /\ next_step[x] = 0 /\ x \notin execution_pool
      /\ \A j \in Ids : <<j, "data">> \in C => l = "pos1" /\ j = i
      /\ \A j \in Ids : <<j, "pos1">> \in C => l = "pos2" /\ j = i
  BY <1>1, ChainedWaits
<1>4. s \in Step /\ s > 3 /\ 3 >= 1
  BY DEF Step
<1>5. Advances(own) /\ own[k] = s /\ \A x \in Key : x # k => own[x] = next_step[x]
  BY <1>1, <1>4, OwnStep
<1>6. \A x \in Key : ns[x] = IF x \in C THEN 1 ELSE own[x]
  OBVIOUS
<1>7. \A j \in Ids : <<j, l>> \in Key /\ <<j, l>> \notin C /\ ns[<<j, l>>] = own[<<j, l>>]
  BY <1>3, KeyFacts
<1>8. k \in pool \/ s = 6
  <2>1. ~Blocked(i, l, own)
    BY <1>1, <1>4, NotHeldBack
  <2> QED BY <2>1 DEF Issued
<1>9. \A x \in C : x \in pool \/ Blocked(x[1], x[2], ns)
  BY DEF Issued
<1>10. execution_pool \ {k} \subseteq pool
  OBVIOUS
<1>11. ~(~Past(i, l, 3) /\ Past(i, l, s))
  BY DEF Past
<1>12. next_step' = ns /\ execution_pool' = pool /\ UNCHANGED <<set_id, set_cnt>>
  BY DEF FinishPull, Swap, taskVars
<1>13. /\ l = "pos2" => <<i, "pos1">> \in C
       /\ l = "pos1" => <<i, "data">> \in C
  BY DEF Chained
<1> HIDE DEF ns, own, C, s, pool, i
<1>14. ASSUME NEW x \in Key, next_step[x] = 1, ns[x] = 1, x \notin execution_pool,
              Blocked(x[1], x[2], next_step), ~Blocked(x[1], x[2], ns)
       PROVE  FALSE
  <2>1. x[1] # i \/ x[2] # l
    BY <1>2, <1>14, KeyFacts
  <2>2. ~(\A y \in Key : y[2] = x[2] => ns[y] = own[y])
    BY <1>1, <1>4, <1>11, <1>14, <2>1, FoundByScan DEF own, i
  <2>3. PICK y \in Key : y[2] = x[2] /\ ns[y] # own[y]
    BY <2>2
  <2>4. y \in C /\ y[2] = x[2]
    BY <1>6, <2>3
  <2>5. x[2] # l
    BY <1>3, <2>4
  <2>6. \A j \in Ids, m \in Levels : <<j, m>> = x => FALSE
    <3> SUFFICES ASSUME NEW j \in Ids, NEW m \in Levels, <<j, m>> = x PROVE FALSE
      OBVIOUS
    <3>2. PICK z \in Older(j, m) :
             set_id[<<z, m>>] = set_id[x] /\ ~Past(z, m, next_step[<<z, m>>])
      BY <1>14 DEF Blocked
    <3>3. Past(z, m, ns[<<z, m>>]) /\ z \in Ids /\ <<z, m>> \in Key
      BY <1>14, <3>2, KeyFacts DEF Blocked, Older
    <3>4. <<z, m>> \in C \/ <<z, m>> = k
      BY <1>5, <1>6, <3>2, <3>3
    <3>5. <<z, m>> \in C
      BY <2>5, <3>4
    <3>6. ns[<<z, m>>] = 1
      BY <1>6, <3>3, <3>5
    <3> QED BY <3>3, <3>6 DEF Past
  <2> QED BY <2>6, KeyFacts
<1>15. \A x \in Key : ns[x] # next_step[x] =>
          ns[x] = 6 \/ x \in pool \/ (ns[x] = 1 /\ Blocked(x[1], x[2], ns))
  <2> SUFFICES ASSUME NEW x \in Key, ns[x] # next_step[x]
               PROVE  ns[x] = 6 \/ x \in pool \/ (ns[x] = 1 /\ Blocked(x[1], x[2], ns))
    OBVIOUS
  <2>1. CASE x \in C
    BY <1>6, <1>9, <2>1
  <2>2. CASE x \notin C
    <3>1. x = k
      BY <1>5, <1>6, <2>2
    <3> QED BY <1>5, <1>6, <1>8, <2>2, <3>1
  <2> QED BY <2>1, <2>2
<1>16. \A x \in execution_pool : ns[x] = next_step[x] => x \in pool
  <2>1. ns[k] # next_step[k]
    BY <1>2, <1>4, <1>5, <1>7
  <2> QED BY <1>10, <2>1
<1>17. ASSUME NEW j \in Ids, NEW u \in Levels, NEW d \in Levels,
              (u = "pos2" /\ d = "pos1") \/ (u = "pos1" /\ d = "data"),
              next_step[<<j, u>>] <= 3, ns[<<j, u>>] > 3
       PROVE  ns[<<j, d>>] # 0
  <2>1. <<j, u>> \in Key /\ <<j, d>> \in Key
    BY KeyFacts
  <2>2. next_step[<<j, u>>] \in Step \cup {Absent}
    BY <2>1 DEF IInv, TypeOK
  <2>3. <<j, u>> = k
    BY <1>5, <1>6, <1>17, <2>1, <2>2 DEF Step, Absent
  <2>4. <<j, d>> \in C
    BY <1>13, <1>17, <2>3
  <2> QED BY <1>6, <2>1, <2>4
<1>18. Advances(ns)
  <2>1. ns \in [Key -> Step \cup {Absent}]
    BY <1>12 DEF IInv, TypeOK
  <2>2. \A x \in Key : ns[x] >= next_step[x] /\ (ns[x] = Absent <=> next_step[x] = Absent)
    BY <1>3, <1>5, <1>6 DEF Advances, Absent
  <2>3. \A j \in Ids, u \in Levels, d \in Levels :
           /\ (u = "pos2" /\ d = "pos1") \/ (u = "pos1" /\ d = "data")
           /\ ns[<<j, d>>] > 0
           => next_step[<<j, d>>] > 0 \/ ns[<<j, u>>] > 3
    <3> SUFFICES ASSUME NEW j \in Ids, NEW u \in Levels, NEW d \in Levels,
                        (u = "pos2" /\ d = "pos1") \/ (u = "pos1" /\ d = "data"),
                        ns[<<j, d>>] > 0, ~(next_step[<<j, d>>] > 0)
                 PROVE  ns[<<j, u>>] > 3
      OBVIOUS
    <3>1. <<j, d>> \in Key /\ <<j, u>> \in Key
      BY KeyFacts
    <3>2. <<j, d>> \in C
      BY <1>2, <1>5, <1>6, <3>1
    <3>3. u = l /\ j = i
      BY <1>3, <3>2
    <3> QED BY <1>4, <1>5, <1>7, <3>3
  <2> QED BY <2>1, <2>2, <2>3, KeyFacts DEF Advances
<1>19. WakesAll(ns, pool)
  BY <1>14, <1>15, <1>16, <1>17, KeyFacts DEF WakesAll
<1> QED BY <1>12, <1>18, <1>19, MovedOn

\* A new request waits for its position; older ones do not notice it.
LEMMA ServeWakes ==
  ASSUME IInv, IInv', NoTaskStranded, NEW sets \in SetChoices, Serve(sets)
  PROVE  NoTaskStranded'
<1> DEFINE n == tail_n_id
<1>1. n \in Ids /\ n \in Int
  BY DEF IInv, TypeOK, Ids, Serve
<1>2. \A k \in Key : /\ next_step'[k] = (IF k[1] = n THEN 0 ELSE next_step[k])
                     /\ k[1] # n => set_id'[k] = set_id[k] /\ set_cnt'[k] = set_cnt[k]
  BY DEF Serve
<1>3. execution_pool' = execution_pool \cup {<<n, "pos2">>}
  BY DEF Serve
<1>4. \A l \in Levels : next_step[<<n, l>>] = Absent
  BY <1>1 DEF IInv, DequeIsWindow, TypeOK
<1> HIDE DEF n
<1> SUFFICES ASSUME NEW i \in Ids, NEW l \in Levels, InDeque(i, l)', next_step'[<<i, l>>] # 6,
                    <<i, l>> \notin execution_pool'
             PROVE  MayWait(i, l, next_step)'
  BY DEF NoTaskStranded, MayWait
<1>5. CASE i = n
  <2>1. \A m \in Levels : next_step'[<<i, m>>] = 0
    BY <1>2, <1>5, KeyFacts
  <2>2. l = "pos1" \/ l = "data"
    BY <1>3, <1>5, KeyFacts
  <2> QED BY <2>1, <2>2, KeyFacts DEF MayWait
<1>6. CASE i # n
  <2>1. \A m \in Levels : next_step'[<<i, m>>] = next_step[<<i, m>>]
    BY <1>2, <1>6, KeyFacts
  <2>2. MayWait(i, l, next_step)
    BY <1>3, <2>1 DEF NoTaskStranded, MayWait, InDeque
  <2>3. Blocked(i, l, next_step) => Blocked(i, l, next_step)'
    <3>1. SUFFICES ASSUME NEW j \in Older(i, l), set_id[<<j, l>>] = set_id[<<i, l>>],
                          ~Past(j, l, next_step[<<j, l>>])
                   PROVE  Blocked(i, l, next_step)'
      BY DEF Blocked
    <3>2. j \in Ids /\ j < i /\ i \in Int /\ j \in Int
      BY DEF Older, Ids
    <3>3. \A m \in j .. i - 1 : InDeque(m, l) /\ m # n /\ <<m, l>> \in Key
      BY <1>4 DEF Older, InDeque
    <3>4. \A m \in j .. i - 1 : InDeque(m, l)'
      BY <1>2, <3>3 DEF InDeque
    <3>5. j \in Older(i, l)'
      BY <3>2, <3>4 DEF Older
    <3>6. j # n /\ <<j, l>> \in Key /\ <<i, l>> \in Key
      <4>1. j \in j .. i - 1
        BY <3>2
      <4> QED BY <3>2, <3>3, <4>1, KeyFacts
    <3>7. /\ set_id'[<<j, l>>] = set_id'[<<i, l>>] /\ set_cnt'[<<j, l>>] = set_cnt[<<j, l>>]
          /\ next_step'[<<j, l>>] = next_step[<<j, l>>]
      BY <1>2, <1>6, <3>1, <3>6
    <3> QED BY <3>1, <3>5, <3>7 DEF Blocked, Past
  <2> QED BY <2>1, <2>2, <2>3, KeyFacts DEF MayWait
<1> QED BY <1>5, <1>6

\* Steps that move no task.
LEMMA StillWakes ==
  ASSUME IInv, NEW pool, pool = execution_pool
  PROVE  WakesAll(next_step, pool)
<1>1. \A k \in Key : next_step[k] \in Step \cup {Absent}
  BY DEF IInv, TypeOK
<1>2. \A i \in Ids, l \in Levels : ~(next_step[<<i, l>>] <= 3 /\ next_step[<<i, l>>] > 3)
  <2>1. \A n \in Step \cup {Absent} : ~(n <= 3 /\ n > 3)
    BY DEF Step, Absent
  <2> QED BY <1>1, <2>1, KeyFacts
<1> QED BY <1>2, KeyFacts DEF WakesAll

LEMMA IdleWakes ==
  ASSUME IInv, IInv', NoTaskStranded,
         UNCHANGED <<set_id, set_cnt, next_step, execution_pool>>
  PROVE  NoTaskStranded'
<1>1. Advances(next_step)
  BY StandStill
<1>2. WakesAll(next_step, execution_pool')
  BY StillWakes
<1> QED BY <1>1, <1>2, NoneStranded

LEMMA CheckHeadWakes ==
  ASSUME IInv, IInv', NoTaskStranded, CheckHead
  PROVE  NoTaskStranded'
<1> DEFINE h == tail_n_id - Depth
<1>1. UNCHANGED <<set_id, set_cnt, execution_pool>>
  BY DEF CheckHead, taskVars
<1>2. CASE h = current_rdy_to_commit /\ AllFinished(h, next_step)
  <2>1. h \in Ids
    BY <1>2 DEF IInv, TypeOK, Ids
  <2>2. Retire(h, next_step)
    BY <1>2 DEF CheckHead
  <2>3. Advances(next_step)
    BY StandStill
  <2>4. WakesAll(next_step, execution_pool')
    BY <1>1, StillWakes
  <2> HIDE DEF h
  <2> QED BY <1>1, <1>2, <2>1, <2>2, <2>3, <2>4, RetireWakes
<1>3. CASE ~(h = current_rdy_to_commit /\ AllFinished(h, next_step))
  <2>1. next_step' = next_step
    BY <1>3 DEF CheckHead
  <2> QED BY <1>1, <2>1, IdleWakes
<1> QED BY <1>2, <1>3

LEMMA NextWakes ==
  ASSUME IInv, IInv', NoTaskStranded, [Next]_vars
  PROVE  NoTaskStranded'
<1>1. CASE \E sets \in SetChoices : Serve(sets)
  BY <1>1, ServeWakes
<1>2. CASE ServeEnd \/ PoolEmpty \/ Exit \/ UNCHANGED vars
  <2>1. UNCHANGED <<set_id, set_cnt, next_step, execution_pool>>
    BY <1>2 DEF ServeEnd, PoolEmpty, Exit, vars, taskVars
  <2> QED BY <2>1, IdleWakes
<1>3. CASE CheckHead
  BY <1>3, CheckHeadWakes
<1>4. CASE (\E l \in Levels : LinesCommit(l)) \/ (\E x \in meta : MetadataArrives(x))
  <2>1. UNCHANGED <<set_id, set_cnt, next_step, execution_pool>>
    BY <1>4 DEF LinesCommit, MetadataArrives, taskVars
  <2> QED BY <2>1, IdleWakes
<1>5. ASSUME NEW l \in Levels, Finish(l) PROVE NoTaskStranded'
  BY <1>5, LookupWakes, PathWakes, SlotsWake, PullRetireWakes, PullWakes, WriteMetadataWakes,
     WritebackWakes DEF Finish
<1> QED BY <1>1, <1>2, <1>3, <1>4, <1>5 DEF Next, Exited

-----------------------------------------------------------------------------
(***************************************************************************)
(* Room in the deque.                                                      *)
(***************************************************************************)

\* While the trace lasts, the request whose slot is needed is the oldest one,
\* and it is in the deque.
LEMMA HeadInDeque ==
  ASSUME IInv, RoomKept, ~trace_end, pc \in {"check", "serving"}
  PROVE  /\ tail_n_id - Depth = current_rdy_to_commit
         /\ current_rdy_to_commit \in Ids /\ current_rdy_to_commit < tail_n_id
<1>1. tail_n_id \in Int /\ current_rdy_to_commit \in Int /\ tail_n_id <= MaxReqs
      /\ current_rdy_to_commit >= 0
  BY DEF IInv, TypeOK
<1>2. tail_n_id >= Depth /\ tail_n_id - current_rdy_to_commit = Depth
  BY <1>1 DEF RoomKept
<1>3. current_rdy_to_commit < tail_n_id /\ tail_n_id - Depth = current_rdy_to_commit
  BY <1>1, <1>2
<1>4. current_rdy_to_commit <= MaxReqs - 1
  BY <1>1, <1>3
<1> QED BY <1>1, <1>3, <1>4 DEF Ids

\* A step that neither creates nor retires a request, and does not return from
\* the serve call, leaves the oldest request unfinished.
LEMMA StepRoom ==
  ASSUME RoomKept, pc = "serving",
         UNCHANGED <<tail_n_id, current_rdy_to_commit, trace_end, pc>>,
         ~trace_end => ~AllFinished(current_rdy_to_commit, next_step')
  PROVE  RoomKept'
BY DEF RoomKept, AllFinished

\* A retirement makes room for one request, and the serve call returns.
LEMMA RetireRoom ==
  ASSUME IInv, RoomKept, pc \in {"check", "serving"}, UNCHANGED <<tail_n_id, trace_end>>,
         current_rdy_to_commit' = current_rdy_to_commit + 1, pc' = AfterRetire
  PROVE  RoomKept'
<1>1. tail_n_id \in Int /\ current_rdy_to_commit \in Int
  BY DEF IInv, TypeOK
<1>2. tail_n_id' - current_rdy_to_commit' <= Depth
  BY <1>1 DEF RoomKept
<1>3. CASE trace_end
  BY <1>2, <1>3 DEF RoomKept, AfterRetire
<1>4. CASE ~trace_end
  <2>1. tail_n_id >= Depth /\ tail_n_id - current_rdy_to_commit = Depth
    BY <1>1, <1>4 DEF RoomKept
  <2>2. tail_n_id' >= Depth /\ tail_n_id' - current_rdy_to_commit' = Depth - 1
    BY <1>1, <2>1
  <2> QED BY <1>1, <1>2, <1>4, <2>2 DEF RoomKept, AfterRetire
<1> QED BY <1>3, <1>4

\* If the task of request i is all that moves on, and does not retire it, then
\* the oldest request stays unfinished; starting tasks below changes nothing.
LEMMA NotYetFinished ==
  ASSUME IInv, RoomKept, pc = "serving", ~trace_end, NEW i \in Ids, NEW own, NEW ns,
         \A x \in Key : x[1] # i => own[x] = next_step[x],
         ~Retires(i, own),
         \A x \in Key : ns[x] = 6 => own[x] = 6
  PROVE  ~AllFinished(current_rdy_to_commit, ns)
<1> DEFINE n == current_rdy_to_commit
<1>1. n \in Ids /\ ~AllFinished(n, next_step)
  BY HeadInDeque DEF RoomKept
<1> HIDE DEF n
<1> SUFFICES ASSUME AllFinished(n, ns) PROVE FALSE
  BY DEF n
<1>2. AllFinished(n, own)
  BY <1>1, KeyFacts DEF AllFinished
<1>3. n # i
  BY <1>2 DEF Retires, n
<1>4. \A l \in Levels : own[<<n, l>>] = next_step[<<n, l>>]
  BY <1>1, <1>3, KeyFacts
<1> QED BY <1>1, <1>2, <1>4 DEF AllFinished

\* The same for a task that takes a step s other than its last.
LEMMA EarlyStepRoom ==
  ASSUME IInv, RoomKept, NEW l \in Levels, PopReady(l), NEW s \in Step, s # 6,
         s > Front(l).step, next_step' = SetStep(Front(l).id, l, s),
         UNCHANGED <<tail_n_id, current_rdy_to_commit, trace_end, pc>>
  PROVE  RoomKept'
<1> DEFINE i  == Front(l).id
           ns == SetStep(i, l, s)
<1>1. i \in Ids
  BY Popped
<1>2. ns[<<i, l>>] = s /\ \A x \in Key : x # <<i, l>> => ns[x] = next_step[x]
  BY OwnStep
<1>3. ~Retires(i, ns)
  BY <1>2 DEF Retires, AllFinished
<1>4. pc = "serving" /\ next_step' = ns
  BY DEF PopReady
<1> HIDE DEF ns, i
<1>5. \A x \in Key : x[1] # i => ns[x] = next_step[x]
  BY <1>2
<1>6. ~trace_end => ~AllFinished(current_rdy_to_commit, ns)
  BY <1>1, <1>3, <1>4, <1>5, NotYetFinished
<1> QED BY <1>4, <1>6, StepRoom

LEMMA PullRoom ==
  ASSUME IInv, RoomKept, NEW l \in Levels, FinishPull(l)
  PROVE  RoomKept'
<1> DEFINE i      == Front(l).id
           k      == <<i, l>>
           writes == set_cnt[k] % A = 0
           s      == IF writes THEN 4 ELSE 6
           own    == SetStep(i, l, s)
           C      == Chained(i, l)
           ns     == [x \in Key |-> IF x \in C THEN 1 ELSE own[x]]
<1>1. PopReady(l) /\ Front(l).step = 3 /\ s \in Step /\ s > 3
  BY DEF FinishPull, Step
<1>2. i \in Ids /\ k \in Key
  BY <1>1, Popped, KeyFacts
<1>3. own[k] = s /\ \A x \in Key : x # k => own[x] = next_step[x]
  BY <1>1, OwnStep
<1>4. ~Retires(i, own)
  <2>1. CASE writes
    BY <1>3, <2>1 DEF Retires, AllFinished
  <2>2. CASE ~writes
    BY <2>2 DEF FinishPull
  <2> QED BY <2>1, <2>2
<1>5. /\ next_step' = ns /\ pc = "serving"
      /\ UNCHANGED <<tail_n_id, current_rdy_to_commit, trace_end, pc>>
  BY DEF FinishPull, PopReady, taskVars
<1>6. \A x \in Key : ns[x] = 6 => own[x] = 6
  OBVIOUS
<1> HIDE DEF ns, own, i
<1>7. \A x \in Key : x[1] # i => own[x] = next_step[x]
  BY <1>3
<1>8. ~trace_end => ~AllFinished(current_rdy_to_commit, ns)
  BY <1>2, <1>4, <1>5, <1>6, <1>7, NotYetFinished
<1> QED BY <1>5, <1>8, StepRoom

LEMMA WritebackRoom ==
  ASSUME IInv, RoomKept, NEW l \in Levels, FinishWriteback(l)
  PROVE  RoomKept'
<1> DEFINE i  == Front(l).id
           ns == SetStep(i, l, 6)
<1>1. PopReady(l) /\ Front(l).step = 5 /\ 6 \in Step /\ 6 > 5
  BY DEF FinishWriteback, Step
<1>2. i \in Ids
  BY <1>1, Popped
<1>3. \A x \in Key : x # <<i, l>> => ns[x] = next_step[x]
  BY <1>1, OwnStep
<1>4. pc = "serving" /\ UNCHANGED <<tail_n_id, trace_end>>
  BY DEF FinishWriteback, PopReady, taskVars
<1>5. CASE Retires(i, ns)
  <2>1. pc' = AfterRetire /\ current_rdy_to_commit' = current_rdy_to_commit + 1
    BY <1>5 DEF FinishWriteback, Retire, Retires
  <2> QED BY <1>4, <2>1, RetireRoom
<1>6. CASE ~Retires(i, ns)
  <2>1. next_step' = ns /\ UNCHANGED <<current_rdy_to_commit, pc>>
    BY <1>6 DEF FinishWriteback
  <2> HIDE DEF ns, i
  <2>2. \A x \in Key : x[1] # i => ns[x] = next_step[x]
    BY <1>3
  <2>3. ~trace_end => ~AllFinished(current_rdy_to_commit, ns)
    BY <1>2, <1>4, <1>6, <2>2, NotYetFinished
  <2> QED BY <1>4, <2>1, <2>3, StepRoom
<1> QED BY <1>5, <1>6

LEMMA FinishRoom ==
  ASSUME IInv, RoomKept, NEW l \in Levels, Finish(l)
  PROVE  RoomKept'
<1>1. CASE FinishLookup(l)
  <2>1. PopReady(l) /\ Front(l).step = 0 /\ 1 \in Step /\ 1 # 6 /\ 1 > 0
    BY <1>1 DEF FinishLookup, Step
  <2>2. next_step' = SetStep(Front(l).id, l, 1)
        /\ UNCHANGED <<tail_n_id, current_rdy_to_commit, trace_end, pc>>
    BY <1>1 DEF FinishLookup, taskVars
  <2> QED BY <2>1, <2>2, EarlyStepRoom
<1>2. ASSUME NEW reshuffle \in BOOLEAN, FinishPath(l, reshuffle) PROVE RoomKept'
  <2>1. PopReady(l) /\ Front(l).step = 1 /\ 2 \in Step /\ 2 # 6 /\ 2 > 1
    BY <1>2 DEF FinishPath, Step
  <2>2. next_step' = SetStep(Front(l).id, l, 2)
        /\ UNCHANGED <<tail_n_id, current_rdy_to_commit, trace_end, pc>>
    BY <1>2 DEF FinishPath, taskVars
  <2> QED BY <2>1, <2>2, EarlyStepRoom
<1>3. CASE FinishSlots(l)
  <2>1. PopReady(l) /\ Front(l).step = 2 /\ 3 \in Step /\ 3 # 6 /\ 3 > 2
    BY <1>3 DEF FinishSlots, Step
  <2>2. next_step' = SetStep(Front(l).id, l, 3)
        /\ UNCHANGED <<tail_n_id, current_rdy_to_commit, trace_end, pc>>
    BY <1>3 DEF FinishSlots, taskVars
  <2> QED BY <2>1, <2>2, EarlyStepRoom
<1>4. CASE FinishPullAndRetire(l)
  <2>1. pc = "serving" /\ UNCHANGED <<tail_n_id, trace_end>>
        /\ current_rdy_to_commit' = current_rdy_to_commit + 1 /\ pc' = AfterRetire
    BY <1>4 DEF FinishPullAndRetire, PopReady, Retire, Retires, taskVars
  <2> QED BY <2>1, RetireRoom
<1>5. CASE FinishPull(l)
  BY <1>5, PullRoom
<1>6. CASE FinishWriteMetadata(l)
  <2>1. PopReady(l) /\ Front(l).step = 4 /\ 5 \in Step /\ 5 # 6 /\ 5 > 4
    BY <1>6 DEF FinishWriteMetadata, Step
  <2>2. next_step' = SetStep(Front(l).id, l, 5)
        /\ UNCHANGED <<tail_n_id, current_rdy_to_commit, trace_end, pc>>
    BY <1>6 DEF FinishWriteMetadata, taskVars
  <2> QED BY <2>1, <2>2, EarlyStepRoom
<1>7. CASE FinishWriteback(l)
  BY <1>7, WritebackRoom
<1> QED BY <1>1, <1>2, <1>3, <1>4, <1>5, <1>6, <1>7 DEF Finish

LEMMA ServeRoom ==
  ASSUME IInv, RoomKept, NEW sets \in SetChoices, Serve(sets)
  PROVE  RoomKept'
<1>1. /\ pc = "idle" /\ ~trace_end /\ tail_n_id' = tail_n_id + 1
      /\ pc' = IF tail_n_id + 1 < Depth THEN "idle" ELSE "check"
      /\ UNCHANGED <<trace_end, current_rdy_to_commit>>
  BY DEF Serve
<1>2. tail_n_id \in Int /\ current_rdy_to_commit \in Int /\ Depth \in Int
  BY DEF IInv, TypeOK
<1>3. CASE tail_n_id + 1 < Depth
  <2>1. current_rdy_to_commit = 0 /\ tail_n_id' < Depth /\ pc' = "idle"
    BY <1>1, <1>2, <1>3 DEF RoomKept
  <2>2. tail_n_id' - current_rdy_to_commit' <= Depth
    BY <1>1, <1>2, <2>1
  <2> QED BY <1>1, <1>2, <2>1, <2>2 DEF RoomKept
<1>4. CASE ~(tail_n_id + 1 < Depth)
  <2>1. tail_n_id - current_rdy_to_commit = Depth - 1
    <3>1. CASE tail_n_id < Depth
      BY <1>1, <1>2, <1>4, <3>1 DEF RoomKept
    <3>2. CASE tail_n_id >= Depth
      BY <1>1, <1>2, <3>2 DEF RoomKept
    <3> QED BY <1>2, <3>1, <3>2
  <2>2. tail_n_id' - current_rdy_to_commit' = Depth /\ tail_n_id' >= Depth /\ pc' = "check"
    BY <1>1, <1>2, <1>4, <2>1
  <2> QED BY <1>1, <1>2, <2>2 DEF RoomKept
<1> QED BY <1>3, <1>4

LEMMA CheckHeadRoom ==
  ASSUME IInv, RoomKept, CheckHead
  PROVE  RoomKept'
<1> DEFINE h == tail_n_id - Depth
<1>1. pc = "check" /\ UNCHANGED <<tail_n_id, trace_end>>
  BY DEF CheckHead, taskVars
<1>2. CASE h = current_rdy_to_commit /\ AllFinished(h, next_step)
  <2>1. current_rdy_to_commit' = current_rdy_to_commit + 1 /\ pc' = AfterRetire
    BY <1>2 DEF CheckHead, Retire, AfterRetire
  <2> QED BY <1>1, <2>1, RetireRoom
<1>3. CASE ~(h = current_rdy_to_commit /\ AllFinished(h, next_step))
  <2>1. pc' = "serving" /\ UNCHANGED <<current_rdy_to_commit, next_step>>
    BY <1>3 DEF CheckHead
  <2>2. ~trace_end => h = current_rdy_to_commit
    BY <1>1, HeadInDeque
  <2> QED BY <1>1, <1>3, <2>1, <2>2 DEF RoomKept, AllFinished
<1> QED BY <1>2, <1>3

\* Nothing waits behind the oldest request, so when nothing is in execution it
\* has finished all its levels.
LEMMA HeadFinishes ==
  ASSUME IInv, NoTaskStranded, execution_pool = {}, current_rdy_to_commit < tail_n_id
  PROVE  AllFinished(current_rdy_to_commit, next_step)
<1> DEFINE n == current_rdy_to_commit
<1>1. n \in Ids /\ n \in Int /\ tail_n_id \in Int
  <2>1. n \in Int /\ tail_n_id \in Int /\ n >= 0 /\ tail_n_id <= MaxReqs
    BY DEF IInv, TypeOK
  <2>2. n <= MaxReqs - 1
    BY <2>1
  <2> QED BY <2>1, <2>2 DEF Ids
<1>2. \A l \in Levels : InDeque(n, l)
  <2>1. n \in n .. tail_n_id - 1
    BY <1>1
  <2> QED BY <1>1, <2>1, KeyFacts DEF IInv, DequeIsWindow, InDeque
<1>3. \A l \in Levels : ~Blocked(n, l, next_step)
  <2> SUFFICES ASSUME NEW l \in Levels, NEW j \in Older(n, l) PROVE FALSE
    BY DEF Blocked
  <2>1. j \in Ids /\ j < n /\ j \in Int
    BY DEF Older, Ids
  <2>2. j \in j .. n - 1
    BY <1>1, <2>1
  <2>3. next_step[<<j, l>>] # Absent
    BY <2>2 DEF Older, InDeque
  <2>4. j \in n .. tail_n_id - 1
    BY <2>1, <2>3 DEF IInv, DequeIsWindow
  <2> QED BY <1>1, <2>1, <2>4
<1> HIDE DEF n
<1>4. next_step[<<n, "pos2">>] = 6
  BY <1>1, <1>2, <1>3, KeyFacts DEF NoTaskStranded
<1>5. next_step[<<n, "pos1">>] = 6
  <2>1. ~(next_step[<<n, "pos2">>] <= 3)
    BY <1>4
  <2> QED BY <1>1, <1>2, <1>3, <2>1, KeyFacts DEF NoTaskStranded
<1>6. next_step[<<n, "data">>] = 6
  <2>1. ~(next_step[<<n, "pos1">>] <= 3)
    BY <1>5
  <2> QED BY <1>1, <1>2, <1>3, <2>1, KeyFacts DEF NoTaskStranded
<1> QED BY <1>4, <1>5, <1>6, KeyFacts DEF AllFinished, n

LEMMA PoolEmptyRoom ==
  ASSUME IInv, NoTaskStranded, RoomKept, PoolEmpty
  PROVE  RoomKept'
<1>1. pc = "serving" /\ execution_pool = {} /\ pc' = "idle"
      /\ UNCHANGED <<tail_n_id, current_rdy_to_commit, trace_end>>
  BY DEF PoolEmpty, taskVars
<1>2. trace_end
  <2> SUFFICES ASSUME ~trace_end PROVE FALSE
    BY DEF IInv, TypeOK
  <2>1. current_rdy_to_commit < tail_n_id
    BY <1>1, HeadInDeque
  <2>2. AllFinished(current_rdy_to_commit, next_step)
    BY <1>1, <2>1, HeadFinishes
  <2> QED BY <1>1, <2>2 DEF RoomKept
<1> QED BY <1>1, <1>2 DEF RoomKept

\* WindowInv is inductive.
LEMMA WindowNext == WindowInv /\ [Next]_vars => WindowInv'
<1> SUFFICES ASSUME IInv, NoTaskStranded, RoomKept, [Next]_vars PROVE WindowInv'
  BY DEF WindowInv
<1>1. IInv' /\ NoTaskStranded'
  BY NextInv, NextWakes
<1>2. RoomKept'
  <2>1. ASSUME NEW sets \in SetChoices, Serve(sets) PROVE RoomKept'
    BY <2>1, ServeRoom
  <2>2. CASE ServeEnd
    BY <2>2 DEF ServeEnd, taskVars, RoomKept
  <2>3. CASE CheckHead
    BY <2>3, CheckHeadRoom
  <2>4. CASE PoolEmpty
    BY <2>4, PoolEmptyRoom
  <2>5. ASSUME NEW l \in Levels, LinesCommit(l) PROVE RoomKept'
    BY <2>5 DEF LinesCommit, taskVars, RoomKept, AllFinished
  <2>6. ASSUME NEW x \in meta, MetadataArrives(x) PROVE RoomKept'
    BY <2>6 DEF MetadataArrives, taskVars, RoomKept, AllFinished
  <2>7. ASSUME NEW l \in Levels, Finish(l) PROVE RoomKept'
    BY <2>7, FinishRoom
  <2>8. CASE Exit
    BY <2>8 DEF Exit, taskVars, RoomKept
  <2>9. CASE UNCHANGED vars
    BY <2>9 DEF vars, RoomKept, AllFinished
  <2> QED BY <2>1, <2>2, <2>3, <2>4, <2>5, <2>6, <2>7, <2>8, <2>9 DEF Next, Exited
<1> QED BY <1>1, <1>2 DEF WindowInv

LEMMA WindowInit == Init => WindowInv
<1> SUFFICES ASSUME Init PROVE WindowInv
  OBVIOUS
<1>1. IInv
  BY InitInv
<1>2. NoTaskStranded
  BY KeyFacts DEF Init, NoTaskStranded, InDeque
<1>3. RoomKept
  BY DEF Init, RoomKept
<1> QED BY <1>1, <1>2, <1>3 DEF WindowInv

-----------------------------------------------------------------------------
(***************************************************************************)
(* Theorems about wakeups and the window.                                  *)
(***************************************************************************)

\* WindowInv holds in every reachable state.
THEOREM WindowInvariance == Spec => []WindowInv
BY WindowInit, WindowNext, PTL DEF Spec

\* No wakeup is lost: a task that is neither finished nor in execution waits for
\* the level above it or for an older task of its set.
THEOREM WakeupsKept == Spec => []NoTaskStranded
<1>1. WindowInv => NoTaskStranded
  BY DEF WindowInv
<1> QED BY <1>1, WindowInvariance, PTL

\* Once the deque has filled up, every serve call returns with room for exactly
\* one request.
THEOREM OneRoomPerServe == Spec => []OneRetirementPerServe
<1>1. WindowInv => OneRetirementPerServe
  BY DEF WindowInv, RoomKept, OneRetirementPerServe
<1> QED BY <1>1, WindowInvariance, PTL

\* A request behind which nothing older is unfinished has finished as well, when
\* nothing is in execution.
LEMMA NextFinishes ==
  ASSUME IInv, NoTaskStranded, execution_pool = {},
         NEW i \in Ids, i \in current_rdy_to_commit .. tail_n_id - 1,
         \A j \in Ids : j \in current_rdy_to_commit .. tail_n_id - 1 /\ j < i
                          => AllFinished(j, next_step)
  PROVE  AllFinished(i, next_step)
<1>1. \A l \in Levels : InDeque(i, l)
  BY KeyFacts DEF IInv, DequeIsWindow, InDeque
<1>2. \A l \in Levels : ~Blocked(i, l, next_step)
  <2> SUFFICES ASSUME NEW l \in Levels, NEW j \in Older(i, l), ~Past(j, l, next_step[<<j, l>>])
               PROVE  FALSE
    BY DEF Blocked
  <2>1. j \in Ids /\ j < i /\ j \in Int /\ i \in Int
    BY DEF Older, Ids
  <2>2. j \in j .. i - 1
    BY <2>1
  <2>3. next_step[<<j, l>>] # Absent
    BY <2>2 DEF Older, InDeque
  <2>4. j \in current_rdy_to_commit .. tail_n_id - 1
    BY <2>1, <2>3 DEF IInv, DequeIsWindow
  <2>5. next_step[<<j, l>>] = 6
    BY <2>1, <2>4 DEF AllFinished
  <2> QED BY <2>5 DEF Past
<1>3. next_step[<<i, "pos2">>] = 6
  BY <1>1, <1>2, KeyFacts DEF NoTaskStranded
<1>4. next_step[<<i, "pos1">>] = 6
  <2>1. ~(next_step[<<i, "pos2">>] <= 3)
    BY <1>3
  <2> QED BY <1>1, <1>2, <2>1, KeyFacts DEF NoTaskStranded
<1>5. next_step[<<i, "data">>] = 6
  <2>1. ~(next_step[<<i, "pos1">>] <= 3)
    BY <1>4
  <2> QED BY <1>1, <1>2, <2>1, KeyFacts DEF NoTaskStranded
<1> QED BY <1>3, <1>4, <1>5, KeyFacts DEF AllFinished

\* The program leaves its loop only when every task has finished: were there an
\* unfinished request, the oldest one would not wait for anything.
THEOREM ExitsWhenFinished == Spec => []ExitsFinished
<1>1. WindowInv => ExitsFinished
  <2> SUFFICES ASSUME IInv, NoTaskStranded, execution_pool = {}
               PROVE  \A i \in current_rdy_to_commit .. tail_n_id - 1 :
                         AllFinished(i, next_step)
    BY DEF WindowInv, RoomKept, ExitsFinished
  <2> DEFINE U == {i \in Ids : /\ i \in current_rdy_to_commit .. tail_n_id - 1
                               /\ ~AllFinished(i, next_step)}
  <2>1. current_rdy_to_commit .. tail_n_id - 1 \subseteq Ids
    BY DEF IInv, TypeOK, Ids
  <2>2. U = {}
    <3> SUFFICES ASSUME U # {} PROVE FALSE
      OBVIOUS
    <3>1. U \subseteq Nat
      BY DEF Ids
    <3>2. \E x \in U : \A y \in U : ~(<<y, x>> \in OpToRel(<, Nat))
      <4> HIDE DEF U
      <4> QED BY <3>1, NatLessThanWellFounded, WFMin
    <3>3. PICK x \in U : \A y \in U : ~(<<y, x>> \in OpToRel(<, Nat))
      BY <3>2
    <3>4. \A y \in U : ~(y < x)
      <4> SUFFICES ASSUME NEW y \in U, y < x PROVE FALSE
        OBVIOUS
      <4>1. <<y, x>> \in OpToRel(<, Nat)
        BY <3>1 DEF OpToRel
      <4> QED BY <3>3, <4>1
    <3>5. AllFinished(x, next_step)
      BY <3>4, NextFinishes
    <3> QED BY <3>5
  <2> QED BY <2>1, <2>2
<1> QED BY <1>1, WindowInvariance, PTL

-----------------------------------------------------------------------------
(***************************************************************************)
(* The engine implements RequestWindow.                                    *)
(***************************************************************************)

\* A step that creates, retires and finishes nothing.
LEMMA SameWindow ==
  ASSUME UNCHANGED <<tail_n_id, current_rdy_to_commit>>,
         \A x \in Key : next_step'[x] = 6 <=> next_step[x] = 6
  PROVE  UNCHANGED <<tail_n_id, current_rdy_to_commit, FinishedTasks>>
BY DEF FinishedTasks

\* A step that finishes one task.
LEMMA OneMoreFinished ==
  ASSUME IInv, UNCHANGED <<tail_n_id, current_rdy_to_commit>>, NEW i \in Ids, NEW l \in Levels,
         i \in current_rdy_to_commit .. tail_n_id - 1,
         next_step[<<i, l>>] # 6, next_step'[<<i, l>>] = 6,
         \A x \in Key : x # <<i, l>> => (next_step'[x] = 6 <=> next_step[x] = 6)
  PROVE  Window!Next
<1>1. current_rdy_to_commit \in Int /\ <<i, l>> \in Key /\ i \in Int
  <2>1. <<i, l>> \in Key
    BY KeyFacts
  <2> QED BY <2>1 DEF IInv, TypeOK, Ids
<1>6. current_rdy_to_commit <= i
  OBVIOUS
<1>2. <<i, l>> \in Window!InFlight
  BY DEF Window!InFlight
<1>3. <<i, l>> \notin FinishedTasks
  BY <1>1, <1>6 DEF FinishedTasks
<1>4. FinishedTasks' = FinishedTasks \cup {<<i, l>>}
  BY <1>1 DEF FinishedTasks
<1>5. Window!Complete(<<i, l>>)
  BY <1>2, <1>3, <1>4 DEF Window!Complete
<1> QED BY <1>2, <1>5 DEF Window!Next

\* A step that retires the oldest request, after finishing at most one task of it.
LEMMA WindowRetires ==
  ASSUME IInv, UNCHANGED tail_n_id, NEW n \in Ids, n = current_rdy_to_commit,
         n \in current_rdy_to_commit .. tail_n_id - 1, NEW l \in Levels,
         NEW own, Retire(n, own), AllFinished(n, own),
         \A x \in Key : x # <<n, l>> => own[x] = next_step[x]
  PROVE  Window!Next
<1> DEFINE open == {m \in Levels : <<n, m>> \notin FinishedTasks}
<1>1. n \in Int /\ tail_n_id \in Int /\ n < tail_n_id
  BY DEF IInv, TypeOK, Ids
<1>2. \A k \in Key : next_step'[k] = IF k[1] = n THEN Absent ELSE own[k]
  BY DEF Retire
<1>3. current_rdy_to_commit' = n + 1
  BY DEF Retire
<1>4. \A m \in Levels : m # l => next_step[<<n, m>>] = 6
  BY KeyFacts DEF AllFinished
<1>5. open \subseteq {l}
  BY <1>4, KeyFacts DEF FinishedTasks
<1>6. FinishedTasks' = FinishedTasks \cup {<<n, m>> : m \in open}
  <2>1. ASSUME NEW k \in Key
        PROVE  k \in FinishedTasks' <=> (k \in FinishedTasks \/ k \in {<<n, m>> : m \in open})
    <3>1. k = <<k[1], k[2]>> /\ k[1] \in Int /\ k[2] \in Levels
      BY KeyFacts DEF Ids
    <3>2. CASE k[1] = n
      <4>1. k \in FinishedTasks'
        BY <1>1, <1>3, <3>2 DEF FinishedTasks
      <4>2. k \in FinishedTasks \/ k[2] \in open
        BY <3>1, <3>2
      <4> QED BY <3>1, <3>2, <4>1, <4>2
    <3>3. CASE k[1] # n
      <4>1. k # <<n, l>> /\ \A m \in open : k # <<n, m>>
        BY <3>3
      <4>2. next_step'[k] = next_step[k]
        BY <1>2, <3>3, <4>1
      <4>3. k \notin {<<n, m>> : m \in open}
        BY <4>1
      <4>4. k[1] < n + 1 <=> k[1] < n
        BY <1>1, <3>1, <3>3
      <4> HIDE DEF open
      <4> QED BY <1>3, <4>2, <4>3, <4>4 DEF FinishedTasks
    <3> QED BY <3>2, <3>3
  <2>2. FinishedTasks \subseteq Key /\ FinishedTasks' \subseteq Key
    BY DEF FinishedTasks
  <2>3. \A m \in open : <<n, m>> \in Key
    BY KeyFacts
  <2>4. {<<n, m>> : m \in open} \subseteq Key
    BY <2>3
  <2> HIDE DEF open
  <2> QED BY <2>1, <2>2, <2>4
<1>7. Window!Retire
  BY <1>1, <1>3, <1>5, <1>6 DEF Window!Retire
<1> QED BY <1>7 DEF Window!Next

\* A task takes a step other than its last: the window does not change.
LEMMA EarlyStepWindow ==
  ASSUME IInv, NEW l \in Levels, PopReady(l), NEW s \in Step, s # 6, s > Front(l).step,
         next_step' = SetStep(Front(l).id, l, s),
         UNCHANGED <<tail_n_id, current_rdy_to_commit>>
  PROVE  UNCHANGED <<tail_n_id, current_rdy_to_commit, FinishedTasks>>
<1> DEFINE k  == <<Front(l).id, l>>
           ns == SetStep(Front(l).id, l, s)
<1>1. next_step[k] \in 0 .. 5
  BY Popped
<1>2. ns[k] = s /\ \A x \in Key : x # k => ns[x] = next_step[x]
  BY OwnStep
<1>3. next_step' = ns
  OBVIOUS
<1> HIDE DEF ns, k
<1>4. \A x \in Key : next_step'[x] = 6 <=> next_step[x] = 6
  BY <1>1, <1>2, <1>3
<1> QED BY <1>4, SameWindow

LEMMA PullWindow ==
  ASSUME IInv, NEW l \in Levels, FinishPull(l)
  PROVE  Window!Next \/ UNCHANGED <<tail_n_id, current_rdy_to_commit, FinishedTasks>>
<1> DEFINE i      == Front(l).id
           k      == <<i, l>>
           writes == set_cnt[k] % A = 0
           s      == IF writes THEN 4 ELSE 6
           own    == SetStep(i, l, s)
           C      == Chained(i, l)
           ns     == [x \in Key |-> IF x \in C THEN 1 ELSE own[x]]
<1>1. PopReady(l) /\ Front(l).step = 3 /\ s \in Step /\ s > 3
  BY DEF FinishPull, Step
<1>2. i \in Ids /\ k \in Key /\ next_step[k] = 3 /\ i \in current_rdy_to_commit .. tail_n_id - 1
  BY <1>1, Popped, KeyFacts
<1>3. own[k] = s /\ \A x \in Key : x # k => own[x] = next_step[x]
  BY <1>1, OwnStep
<1>4. k \notin C /\ \A x \in C : next_step[x] = 0
  BY <1>1, ChainedWaits
<1>5. next_step' = ns /\ UNCHANGED <<tail_n_id, current_rdy_to_commit>>
  BY DEF FinishPull, taskVars
<1>6. \A x \in Key : ns[x] = IF x \in C THEN 1 ELSE own[x]
  OBVIOUS
<1>7. s \in {4, 6}
  OBVIOUS
<1> HIDE DEF ns, own, C, s, i
<1>8. \A x \in Key : x # k => (next_step'[x] = 6 <=> next_step[x] = 6)
  BY <1>3, <1>4, <1>5, <1>6
<1>9. next_step'[k] = s
  BY <1>2, <1>3, <1>4, <1>5, <1>6
<1>10. CASE s = 6
  BY <1>2, <1>5, <1>8, <1>9, <1>10, OneMoreFinished
<1>11. CASE s = 4
  <2>1. \A x \in Key : next_step'[x] = 6 <=> next_step[x] = 6
    BY <1>2, <1>8, <1>9, <1>11
  <2> QED BY <1>5, <2>1, SameWindow
<1> QED BY <1>7, <1>10, <1>11

\* The task of the popped answer takes its last step, and its request retires
\* or goes on.
LEMMA LastStepWindow ==
  ASSUME IInv, NEW l \in Levels, PopReady(l), Front(l).step < 6, UNCHANGED tail_n_id,
         LET i  == Front(l).id
             ns == SetStep(i, l, 6)
         IN  IF Retires(i, ns)
               THEN Retire(i, ns)
               ELSE next_step' = ns /\ UNCHANGED current_rdy_to_commit
  PROVE  Window!Next
<1> DEFINE i  == Front(l).id
           ns == SetStep(i, l, 6)
<1>1. /\ i \in Ids /\ <<i, l>> \in Key /\ next_step[<<i, l>>] \in 0 .. 5
      /\ i \in current_rdy_to_commit .. tail_n_id - 1
  BY Popped, KeyFacts
<1>2. ns[<<i, l>>] = 6 /\ \A x \in Key : x # <<i, l>> => ns[x] = next_step[x]
  <2>1. 6 \in Step /\ 6 > Front(l).step
    BY <1>1, Popped DEF Step
  <2> QED BY <2>1, OwnStep
<1>3. IF Retires(i, ns)
        THEN Retire(i, ns)
        ELSE next_step' = ns /\ UNCHANGED current_rdy_to_commit
  OBVIOUS
<1> HIDE DEF ns, i
<1>4. CASE Retires(i, ns)
  <2>1. i = current_rdy_to_commit /\ AllFinished(i, ns) /\ Retire(i, ns)
    BY <1>3, <1>4 DEF Retires
  <2> QED BY <1>1, <1>2, <2>1, WindowRetires
<1>5. CASE ~Retires(i, ns)
  <2>1. next_step' = ns /\ UNCHANGED current_rdy_to_commit
    BY <1>3, <1>5
  <2>2. \A x \in Key : x # <<i, l>> => (next_step'[x] = 6 <=> next_step[x] = 6)
    BY <1>2, <2>1
  <2> QED BY <1>1, <1>2, <2>1, <2>2, OneMoreFinished
<1> QED BY <1>4, <1>5

LEMMA FinishWindow ==
  ASSUME IInv, NEW l \in Levels, Finish(l)
  PROVE  Window!Next \/ UNCHANGED <<tail_n_id, current_rdy_to_commit, FinishedTasks>>
<1>1. CASE FinishLookup(l)
  <2>1. PopReady(l) /\ Front(l).step = 0 /\ 1 \in Step /\ 1 # 6 /\ 1 > 0
    BY <1>1 DEF FinishLookup, Step
  <2>2. next_step' = SetStep(Front(l).id, l, 1) /\ UNCHANGED <<tail_n_id, current_rdy_to_commit>>
    BY <1>1 DEF FinishLookup, taskVars
  <2> QED BY <2>1, <2>2, EarlyStepWindow
<1>2. ASSUME NEW reshuffle \in BOOLEAN, FinishPath(l, reshuffle)
      PROVE  UNCHANGED <<tail_n_id, current_rdy_to_commit, FinishedTasks>>
  <2>1. PopReady(l) /\ Front(l).step = 1 /\ 2 \in Step /\ 2 # 6 /\ 2 > 1
    BY <1>2 DEF FinishPath, Step
  <2>2. next_step' = SetStep(Front(l).id, l, 2) /\ UNCHANGED <<tail_n_id, current_rdy_to_commit>>
    BY <1>2 DEF FinishPath, taskVars
  <2> QED BY <2>1, <2>2, EarlyStepWindow
<1>3. CASE FinishSlots(l)
  <2>1. PopReady(l) /\ Front(l).step = 2 /\ 3 \in Step /\ 3 # 6 /\ 3 > 2
    BY <1>3 DEF FinishSlots, Step
  <2>2. next_step' = SetStep(Front(l).id, l, 3) /\ UNCHANGED <<tail_n_id, current_rdy_to_commit>>
    BY <1>3 DEF FinishSlots, taskVars
  <2> QED BY <2>1, <2>2, EarlyStepWindow
<1>4. CASE FinishPullAndRetire(l)
  <2>1. PopReady(l) /\ Front(l).step = 3 /\ 3 < 6 /\ UNCHANGED tail_n_id
    BY <1>4 DEF FinishPullAndRetire, taskVars
  <2>2. /\ Retires(Front(l).id, SetStep(Front(l).id, l, 6))
        /\ Retire(Front(l).id, SetStep(Front(l).id, l, 6))
    BY <1>4 DEF FinishPullAndRetire
  <2> QED BY <2>1, <2>2, LastStepWindow
<1>5. CASE FinishPull(l)
  BY <1>5, PullWindow
<1>6. CASE FinishWriteMetadata(l)
  <2>1. PopReady(l) /\ Front(l).step = 4 /\ 5 \in Step /\ 5 # 6 /\ 5 > 4
    BY <1>6 DEF FinishWriteMetadata, Step
  <2>2. next_step' = SetStep(Front(l).id, l, 5) /\ UNCHANGED <<tail_n_id, current_rdy_to_commit>>
    BY <1>6 DEF FinishWriteMetadata, taskVars
  <2> QED BY <2>1, <2>2, EarlyStepWindow
<1>7. CASE FinishWriteback(l)
  <2>1. PopReady(l) /\ Front(l).step = 5 /\ 5 < 6 /\ UNCHANGED tail_n_id
    BY <1>7 DEF FinishWriteback, taskVars
  <2>2. IF Retires(Front(l).id, SetStep(Front(l).id, l, 6))
          THEN Retire(Front(l).id, SetStep(Front(l).id, l, 6))
          ELSE next_step' = SetStep(Front(l).id, l, 6) /\ UNCHANGED current_rdy_to_commit
    BY <1>7 DEF FinishWriteback
  <2> QED BY <2>1, <2>2, LastStepWindow
<1> QED BY <1>1, <1>2, <1>3, <1>4, <1>5, <1>6, <1>7 DEF Finish

\* A request is accepted only while fewer than Depth are in flight.
LEMMA ServeWindow ==
  ASSUME IInv, RoomKept, NEW sets \in SetChoices, Serve(sets)
  PROVE  Window!Next
<1> DEFINE n == tail_n_id
<1>1. /\ pc = "idle" /\ ~trace_end /\ n < MaxReqs
      /\ tail_n_id' = n + 1 /\ UNCHANGED current_rdy_to_commit
  BY DEF Serve
<1>2. \A k \in Key : next_step'[k] = IF k[1] = n THEN 0 ELSE next_step[k]
  BY DEF Serve
<1>3. n \in Int /\ current_rdy_to_commit \in Int /\ Depth \in Int
  BY DEF IInv, TypeOK
<1>4. n - current_rdy_to_commit < Depth
  <2>1. CASE n < Depth
    BY <1>1, <1>3, <2>1 DEF RoomKept
  <2>2. CASE n >= Depth
    BY <1>1, <1>3, <2>2 DEF RoomKept
  <2> QED BY <1>3, <2>1, <2>2
<1>5. \A k \in Key : k[1] = n => next_step[k] = Absent
  <2> SUFFICES ASSUME NEW k \in Key, k[1] = n PROVE next_step[k] = Absent
    OBVIOUS
  <2>1. n \notin current_rdy_to_commit .. tail_n_id - 1
    BY <1>3
  <2> QED BY <2>1, KeyFacts DEF IInv, DequeIsWindow
<1> HIDE DEF n
<1>6. FinishedTasks' = FinishedTasks
  <2>1. \A k \in Key : next_step'[k] = 6 <=> next_step[k] = 6
    BY <1>2, <1>5 DEF Absent
  <2> QED BY <1>1, <2>1 DEF FinishedTasks
<1>7. Window!Accept
  BY <1>1, <1>4, <1>6 DEF Window!Accept, n
<1> QED BY <1>7 DEF Window!Next

LEMMA CheckHeadWindow ==
  ASSUME IInv, CheckHead
  PROVE  Window!Next \/ UNCHANGED <<tail_n_id, current_rdy_to_commit, FinishedTasks>>
<1> DEFINE h == tail_n_id - Depth
<1>1. UNCHANGED tail_n_id
  BY DEF CheckHead, taskVars
<1>2. CASE h = current_rdy_to_commit /\ AllFinished(h, next_step)
  <2>1. Retire(h, next_step) /\ "data" \in Levels
    BY <1>2, KeyFacts DEF CheckHead
  <2>2. h \in Ids /\ h \in current_rdy_to_commit .. tail_n_id - 1
    BY <1>2 DEF IInv, TypeOK, Ids
  <2> HIDE DEF h
  <2> QED BY <1>1, <1>2, <2>1, <2>2, WindowRetires
<1>3. CASE ~(h = current_rdy_to_commit /\ AllFinished(h, next_step))
  <2>1. UNCHANGED <<current_rdy_to_commit, next_step>>
    BY <1>3 DEF CheckHead
  <2> QED BY <1>1, <2>1, SameWindow
<1> QED BY <1>2, <1>3

\* The engine never holds more than Depth requests, and retires them in order
\* and only when all their levels finished: each of its steps is a step of
\* RequestWindow or leaves the window alone.
THEOREM WindowImplemented == Spec => ImplementsWindow
<1>1. Init => Window!Init
  <2> SUFFICES ASSUME Init PROVE Window!Init
    OBVIOUS
  <2>1. FinishedTasks = {}
    <3>1. \A k \in Key : next_step[k] # 6
      BY DEF Init, Absent
    <3>2. \A k \in Key : ~(k[1] < current_rdy_to_commit)
      BY KeyFacts DEF Init, Ids
    <3> QED BY <3>1, <3>2 DEF FinishedTasks
  <2> QED BY <2>1 DEF Init, Window!Init
<1>2. WindowInv /\ [Next]_vars
        => [Window!Next]_<<tail_n_id, current_rdy_to_commit, FinishedTasks>>
  <2> SUFFICES ASSUME IInv, RoomKept, [Next]_vars
               PROVE  \/ Window!Next
                      \/ UNCHANGED <<tail_n_id, current_rdy_to_commit, FinishedTasks>>
    BY DEF WindowInv
  <2>1. ASSUME NEW sets \in SetChoices, Serve(sets) PROVE Window!Next
    BY <2>1, ServeWindow
  <2>2. CASE CheckHead
    BY <2>2, CheckHeadWindow
  <2>3. CASE \/ ServeEnd \/ PoolEmpty \/ Exit \/ UNCHANGED vars
             \/ \E l \in Levels : LinesCommit(l)
             \/ \E x \in meta : MetadataArrives(x)
    <3>1. UNCHANGED <<tail_n_id, current_rdy_to_commit, next_step>>
      BY <2>3 DEF ServeEnd, PoolEmpty, Exit, LinesCommit, MetadataArrives, taskVars, vars
    <3> QED BY <3>1, SameWindow
  <2>4. ASSUME NEW l \in Levels, Finish(l)
        PROVE  Window!Next \/ UNCHANGED <<tail_n_id, current_rdy_to_commit, FinishedTasks>>
    BY <2>4, FinishWindow
  <2> QED BY <2>1, <2>2, <2>3, <2>4 DEF Next, Exited
<1> QED BY <1>1, <1>2, WindowInvariance, PTL DEF Spec, ImplementsWindow, Window!Spec
=============================================================================
