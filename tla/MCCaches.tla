------------------------------ MODULE MCCaches ------------------------------
(***************************************************************************)
(* Small hierarchies of caches with the latencies of the source.  A        *)
(* behaviour is that of one of them: the caches of one core with an L2 of  *)
(* one way ("narrow") or with wide sets, whose L1 can have several         *)
(* requests to retry ("wide"), or two cores below a shared L3 ("shared").  *)
(***************************************************************************)
EXTENDS Integers

CONSTANTS Parts,                                             \* those that run
          NarrowAccesses, WideAccesses, SharedAccesses       \* MaxAccesses of each

VARIABLES part, h, clk, inflight, accesses, written
cacheVars == <<h, clk, inflight, accesses, written>>
allVars == <<part, cacheVars>>

PerLevel(l1, l2, l3) ==
  [l \in {"L1", "L2", "L3"} |-> CASE l = "L1" -> l1 [] l = "L2" -> l2 [] l = "L3" -> l3]

CodeLatency == PerLevel(4, 16, 47)   \* latency, Cache.h
ShortLatency == PerLevel(3, 4, 5)

Narrow == INSTANCE CpuCache
  WITH Core <- {1}, HasL3 <- FALSE, Block <- {0, 1, 2}, MaxAccesses <- NarrowAccesses,
       Assoc <- PerLevel(2, 1, 1), SetCount <- PerLevel(1, 1, 1),
       mshr_entry_num <- PerLevel(2, 1, 1), Latency <- CodeLatency

Wide == INSTANCE CpuCache
  WITH Core <- {1}, HasL3 <- FALSE, Block <- {0, 1, 2, 3}, MaxAccesses <- WideAccesses,
       Assoc <- PerLevel(4, 2, 2), SetCount <- PerLevel(1, 1, 1),
       mshr_entry_num <- PerLevel(4, 2, 2), Latency <- ShortLatency

SharedL3 == INSTANCE CpuCache
  WITH Core <- {1, 2}, HasL3 <- TRUE, Block <- {0, 1}, MaxAccesses <- SharedAccesses,
       Assoc <- PerLevel(1, 1, 1), SetCount <- PerLevel(2, 1, 1),
       mshr_entry_num <- PerLevel(2, 2, 2), Latency <- ShortLatency

In(narrow, wide, shared) ==
  CASE part = "narrow" -> narrow [] part = "wide" -> wide [] part = "shared" -> shared

PartInit ==
  /\ part \in Parts
  /\ \/ part = "narrow" /\ Narrow!Init
     \/ part = "wide" /\ Wide!Init
     \/ part = "shared" /\ SharedL3!Init

PartNext ==
  \/ part = "narrow" /\ Narrow!Next /\ UNCHANGED part
  \/ part = "wide" /\ Wide!Next /\ UNCHANGED part
  \/ part = "shared" /\ SharedL3!Next /\ UNCHANGED part

PartSpec == PartInit /\ [][PartNext]_allVars

\* The fairness of the part that runs.
ReadsWait == In(Narrow!ReadsWait, Wide!ReadsWait, SharedL3!ReadsWait)
MemoryAnswers == In(Narrow!MemoryAnswers, Wide!MemoryAnswers, SharedL3!MemoryAnswers)

FairSpec ==
  /\ PartSpec
  /\ WF_clk(Narrow!Running)
  /\ []<>ReadsWait => []<><<Narrow!ReadTaken>>_inflight
  /\ WF_inflight(MemoryAnswers)

-----------------------------------------------------------------------------
\* What a cache holds the next level holds, or will be asked for; its MSHRs are the
\* fetches of its locked lines; and no assertion of the caches fails but the one that
\* EvictedIsBelow is about, and that only for a block whose fetch waits for a retry.
Inclusive ==
  /\ In(Narrow!TypeOK, Wide!TypeOK, SharedL3!TypeOK)
  /\ In(Narrow!SetsHold, Wide!SetsHold, SharedL3!SetsHold)
  /\ In(Narrow!MshrsAreLockedLines, Wide!MshrsAreLockedLines, SharedL3!MshrsAreLockedLines)
  /\ In(Narrow!Inclusive, Wide!Inclusive, SharedL3!Inclusive)
  /\ In(Narrow!AssertsHold, Wide!AssertsHold, SharedL3!AssertsHold)

\* No write is lost.
NoWriteLost == In(Narrow!NoWriteLost, Wide!NoWriteLost, SharedL3!NoWriteLost)

\* Every fetch ends, and every refused request is sent in the end, although the retry
\* loop passes requests over (Cache.cpp:392).
FetchesEnd == []<>In(Narrow!Fetched, Wide!Fetched, SharedL3!Fetched)

\* "check inclusive cache" (Cache.cpp:202): a line that is evicted is in the next
\* level.
EvictedIsBelow == In(Narrow!EvictedIsBelow, Wide!EvictedIsBelow, SharedL3!EvictedIsBelow)

=============================================================================
