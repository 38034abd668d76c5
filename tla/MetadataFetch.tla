--------------------------- MODULE MetadataFetch ---------------------------
(***************************************************************************)
(* The bucket metadata of one level: before a task chooses slots (step 1)  *)
(* and before it writes a path back (step 4) the metadata lines of the     *)
(* path's buckets are looked up in an on-chip cache (set_cache) and read   *)
(* from memory where they miss; rewriting a bucket (steps 2 and 5) looks   *)
(* its line up again and writes it to memory where it misses.              *)
(*                                                                         *)
(* One step per set is under way, as in TaskPool!SetsTakeTurns.  Steps 2,  *)
(* 3 and 5 are modelled by what they do to the cache.                      *)
(***************************************************************************)
EXTENDS RingTree, Sequences

CONSTANTS
  NodesPerLine,   \* 32 in the source: 2 bytes per bucket, lines of 64
  CacheSets,      \* cache_size / 64 / set_assoc
  Assoc,          \* set_cache::set_assoc
  MaxRewrites     \* bound: buckets step 2 reshuffles

ASSUME MetadataAssumption ==
  /\ NodesPerLine \in Nat \ {0} /\ CacheSets \in Nat \ {0} /\ Assoc \in Nat \ {0}
  /\ MaxRewrites \in Nat

\* posmap_nodeid_access: the metadata line of a bucket.
LineOf(n) == n \div NodesPerLine
Lines     == {LineOf(n) : n \in Nodes}
NoLine    == -1
Ways      == 1 .. Assoc
Job       == [set : Sets, step : {1, 4}]

VARIABLES
  caches,           \* cache set -> its lines, most recent first
  mshr_metadata,    \* line -> steps that wait for it
  cnt,              \* step -> lines it still waits for (task_rs::cnt)
  dram,             \* line -> reads of it under way in the memory
  ready_to_pop,     \* answered steps
  at,               \* set -> what its task does next
  path              \* set -> the path of its task's next step

vars == <<caches, mshr_metadata, cnt, dram, ready_to_pop, at, path>>

-----------------------------------------------------------------------------
(***************************************************************************)
(* set_cache.                                                              *)
(***************************************************************************)
\* cache_access on one set: the line moves to the front, or comes in there and
\* pushes the last one out.
ToFront(ways, line) ==
  [w \in Ways |-> IF w = 1 THEN line
                    ELSE IF \E v \in 1 .. w - 1 : ways[v] = line THEN ways[w] ELSE ways[w - 1]]

SetOfLine(line) == line % CacheSets

Cached(c, line) == \E w \in Ways : c[SetOfLine(line)][w] = line

CacheAccess(c, line) == [c EXCEPT ![SetOfLine(line)] = ToFront(@, line)]

\* One lookup: the cache it leaves, the lines that have missed, and how often.
Access(look, line) ==
  LET hit == Cached(look.caches, line)
  IN  [caches |-> CacheAccess(look.caches, line),
       missed |-> IF hit THEN look.missed ELSE look.missed \cup {line},
       misses |-> IF hit THEN look.misses ELSE look.misses + 1]

\* The lookups of the buckets of a path at some levels, from the root's side:
\* Above[n] is what those above level n come to.
LookUp(leaf, lvls) ==
  LET Above[n \in Nat] ==
        IF n = 0 THEN [caches |-> caches, missed |-> {}, misses |-> 0]
          ELSE IF n - 1 \in lvls THEN Access(Above[n - 1], LineOf(P(leaf, n - 1)))
          ELSE Above[n - 1]
  IN  Above[num_of_lvls]

\* The cache after the lookups of every bucket of a path, the ones above the sets
\* too, from the leaf up: Below[n] is what the n lowest come to.
LookUpAll(leaf) ==
  LET Below[n \in Nat] ==
        IF n \in 1 .. num_of_lvls
          THEN CacheAccess(Below[n - 1], LineOf(P(leaf, num_of_lvls - n)))
          ELSE caches
  IN  Below[num_of_lvls]

-----------------------------------------------------------------------------
Init ==
  /\ caches = [s \in 0 .. CacheSets - 1 |-> [w \in Ways |-> NoLine]]
  /\ mshr_metadata = [line \in Lines |-> <<>>]
  /\ cnt = [job \in Job |-> 0]
  /\ dram = [line \in Lines |-> 0]
  /\ ready_to_pop = <<>>
  /\ at = [set \in Sets |-> "idle"]
  /\ path = [set \in Sets |-> 0]

\* A miss is sent to the memory unless the line is already on its way.
MustSend(line) == mshr_metadata[line] = <<>>

\* Mutant of Count: a step counts the lines it sends, not those it waits for.
CountSent(look) == Cardinality({line \in look.missed : MustSend(line)})

Count(look) == look.misses

\* check_metadata_after_posmap and the loop of check_wb_metadata: wait for every
\* line that misses; a step that misses none is answered at once.
Check(job, leaf) ==
  \E look \in {LookUp(leaf, SetLvls)} :
    /\ caches' = look.caches
    /\ mshr_metadata' = [line \in Lines |->
         IF line \in look.missed THEN Append(mshr_metadata[line], job) ELSE mshr_metadata[line]]
    /\ cnt' = [cnt EXCEPT ![job] = Count(look)]
    /\ dram' = [line \in Lines |-> IF line \in look.missed /\ MustSend(line)
                                     THEN dram[line] + 1 ELSE dram[line]]
    /\ ready_to_pop' = IF look.misses = 0 THEN Append(ready_to_pop, job) ELSE ready_to_pop

\* Step 1 on the path the position map gives.
CheckAfterPosmap(set, leaf) ==
  /\ at[set] = "idle"
  /\ Check([set |-> set, step |-> 1], leaf)
  /\ at' = [at EXCEPT ![set] = "checking"]
  /\ path' = [path EXCEPT ![set] = leaf]

\* Step 2: piggy_one looks up the line of each bucket it rewrites; a miss is a
\* write, which nobody waits for.
TakeSlots(set, lvls) ==
  /\ at[set] = "take" /\ Cardinality(lvls) <= MaxRewrites
  /\ caches' = LookUp(path[set], lvls).caches
  /\ at' = [at EXCEPT ![set] = "taken"]
  /\ UNCHANGED <<mshr_metadata, cnt, dram, ready_to_pop, path>>

\* Step 4 on the next path of the write-back order, when one is due; the other
\* tasks of the set are done here.
CheckWriteback(set, leaf) ==
  /\ at[set] = "taken"
  /\ Check([set |-> set, step |-> 4], leaf)
  /\ at' = [at EXCEPT ![set] = "checking"]
  /\ path' = [path EXCEPT ![set] = leaf]

NoWriteback(set) ==
  /\ at[set] = "taken"
  /\ at' = [at EXCEPT ![set] = "idle"]
  /\ UNCHANGED <<caches, mshr_metadata, cnt, dram, ready_to_pop, path>>

\* Step 5: piggy_writeback rewrites every bucket of the path and looks up its line; a
\* miss is a write, which nobody waits for.
Writeback(set) ==
  /\ at[set] = "write"
  /\ caches' = LookUpAll(path[set])
  /\ at' = [at EXCEPT ![set] = "idle"]
  /\ UNCHANGED <<mshr_metadata, cnt, dram, ready_to_pop, path>>

\* One answer reaches the steps that wait for the line, one after the other:
\* After[n] is what the first n come to.
Reached(jobs) ==
  LET After[n \in Nat] ==
        IF n = 0 \/ n > Len(jobs) THEN [cnt |-> cnt, ready_to_pop |-> ready_to_pop]
          ELSE LET job  == jobs[n]
                   left == After[n - 1].cnt[job] - 1
                   ready == After[n - 1].ready_to_pop
               IN  [cnt |-> [After[n - 1].cnt EXCEPT ![job] = left],
                    ready_to_pop |-> IF left = 0 THEN Append(ready, job) ELSE ready]
  IN  After[Len(jobs)]

\* metadata_remove, once per answered read.
MetadataRemove(line) ==
  /\ dram[line] > 0
  /\ dram' = [dram EXCEPT ![line] = @ - 1]
  /\ \E reached \in {Reached(mshr_metadata[line])} :
       cnt' = reached.cnt /\ ready_to_pop' = reached.ready_to_pop
  /\ mshr_metadata' = [mshr_metadata EXCEPT ![line] = <<>>]
  /\ UNCHANGED <<caches, at, path>>

\* Mutant of PopReady: the last answer.
PopReadyLast ==
  /\ ready_to_pop # <<>>
  /\ LET job == ready_to_pop[Len(ready_to_pop)]
     IN  at' = [at EXCEPT ![job.set] = IF job.step = 1 THEN "take" ELSE "write"]
  /\ ready_to_pop' = SubSeq(ready_to_pop, 1, Len(ready_to_pop) - 1)
  /\ UNCHANGED <<caches, mshr_metadata, cnt, dram, path>>

\* The engine takes the first answer.
PopReady ==
  /\ ready_to_pop # <<>>
  /\ LET job == Head(ready_to_pop)
     IN  at' = [at EXCEPT ![job.set] = IF job.step = 1 THEN "take" ELSE "write"]
  /\ ready_to_pop' = Tail(ready_to_pop)
  /\ UNCHANGED <<caches, mshr_metadata, cnt, dram, path>>

Next ==
  \/ \E set \in Sets :
       \/ \E leaf \in LeavesOf(set) : CheckAfterPosmap(set, leaf) \/ CheckWriteback(set, leaf)
       \/ \E lvls \in SUBSET SetLvls : TakeSlots(set, lvls)
       \/ NoWriteback(set) \/ Writeback(set)
  \/ \E line \in Lines : MetadataRemove(line)
  \/ PopReady

Spec == Init /\ [][Next]_vars

\* The memory answers every read, and the engine takes every answer.
Fairness == WF_vars(PopReady) /\ \A line \in Lines : WF_vars(MetadataRemove(line))

FairSpec == Spec /\ Fairness

-----------------------------------------------------------------------------
(***************************************************************************)
(* Properties.                                                             *)
(***************************************************************************)
TypeOK ==
  /\ caches \in [0 .. CacheSets - 1 -> [Ways -> Lines \cup {NoLine}]]
  /\ mshr_metadata \in [Lines -> Seq(Job)]
  /\ cnt \in [Job -> Nat] /\ dram \in [Lines -> Nat]
  /\ ready_to_pop \in Seq(Job)
  /\ at \in [Sets -> {"idle", "checking", "take", "taken", "write"}]
  /\ path \in [Sets -> Leaves]

\* A cache set holds no line twice, whatever mix of lookups for reading and for
\* rewriting led to it.
CacheHoldsLinesOnce ==
  \A s \in DOMAIN caches : \A v, w \in Ways :
    v # w /\ caches[s][v] # NoLine => caches[s][v] # caches[s][w]

\* A line is being read exactly when steps wait for it, and once: although the
\* cache may evict a line on its way and miss it again, its one answer reaches
\* every step that waits, and no answer comes for nobody.
OneReadPerLine ==
  \A line \in Lines : dram[line] = IF mshr_metadata[line] = <<>> THEN 0 ELSE 1

\* A step waits for as many lines as it is listed for, and is listed once for each.
WaitersAreCounted ==
  /\ \A line \in Lines : IsInjective(mshr_metadata[line])
  /\ \A job \in Job : cnt[job] = Cardinality({line \in Lines : job \in Range(mshr_metadata[line])})

Fetch == INSTANCE AnswerOnce
           WITH Jobs <- Job, waiting <- {job \in Job : cnt[job] > 0}, answered <- ready_to_pop

\* A line that misses is read once and waited for by the steps that need it, and
\* cached once, and each metadata check is answered once.
ImplementsAnswerOnce ==
  /\ [](TypeOK /\ CacheHoldsLinesOnce /\ OneReadPerLine /\ WaitersAreCounted)
  /\ Fetch!Spec

\* Every check is answered, however often the lines it waits for are evicted.
ChecksAnswered == \A set \in Sets : []<>(at[set] # "checking")

=============================================================================
