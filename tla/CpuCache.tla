------------------------------ MODULE CpuCache ------------------------------
(***************************************************************************)
(* The cache hierarchy of the processor model (Cache.h, Cache.cpp): an L1  *)
(* and an L2 per core and perhaps a shared L3, inclusive, with LRU sets,   *)
(* dirty lines, MSHRs and lists of requests that the next level refused.   *)
(* A line is locked while it is fetched.  A request is answered by a       *)
(* callback, which every cache of the system sees; hits are answered after *)
(* the latency of their level, misses when the memory answers.             *)
(***************************************************************************)
EXTENDS Integers, Sequences, FiniteSets, SequencesExt

CONSTANTS Core,              \* 1..n
          HasL3,             \* the shared level exists
          Block,             \* addresses, as numbers of cache lines
          Assoc, SetCount,   \* of each level
          mshr_entry_num,    \* of each level
          Latency,           \* of a hit, from L1 down to each level
          MaxAccesses        \* sent by the cores

VARIABLES h,         \* the caches and the lists of the cache system
          clk,       \* the cycles of the processor, modulo 2
          inflight,  \* the reads the memory has accepted
          accesses,  \* how many were accepted from the cores
          written    \* ghost: blocks written and not yet written back
vars == <<h, clk, inflight, accesses, written>>

-----------------------------------------------------------------------------
(* The tree of caches.                                                     *)

Shared == <<"L3", 0>>
Cache == {"L1", "L2"} \X Core \cup (IF HasL3 THEN {Shared} ELSE {})
Level(c) == c[1]
lower_cache(c) == IF Level(c) = "L1" THEN <<"L2", c[2]>> ELSE Shared
higher_cache(c) ==
  SelectSeq([i \in 1..Cardinality(Core) |-> IF c = Shared THEN <<"L2", i>> ELSE <<"L1", i>>],
            LAMBDA x : Level(c) # "L1" /\ (c = Shared \/ x[2] = c[2]))
is_last_level(c) == Level(c) = (IF HasL3 THEN "L3" ELSE "L2")

get_index(c, addr) == addr % SetCount[Level(c)]

Init ==
  /\ h = [lines |-> [c \in Cache |-> [i \in 0..SetCount[Level(c)] - 1 |-> <<>>]],
          mshr_entries |-> [c \in Cache |-> {}], retry_list |-> [c \in Cache |-> <<>>],
          wait_list |-> <<>>, hit_list |-> <<>>, failed |-> {}]
  /\ clk = 0 /\ inflight = {} /\ accesses = 0 /\ written = {}

\* The lines of the set of an address, least recently used first, and where in
\* it the address is (0: it is not).
get_lines(x, c, addr) == x.lines[c][get_index(c, addr)]
SetLines(x, c, addr, ls) == [x EXCEPT !.lines[c][get_index(c, addr)] = ls]
Position(x, c, addr) ==
  LET ls == get_lines(x, c, addr)
      at == {i \in DOMAIN ls : ls[i].addr = addr}
  IN  IF at = {} THEN 0 ELSE CHOOSE i \in at : TRUE
LineOf(x, c, addr) == get_lines(x, c, addr)[Position(x, c, addr)]

\* A request to the memory, sent when the latency of the last level is over; what
\* an invalidation adds to that is part of the memory's delay.
ToMemory(c, type, addr) == [left |-> Latency[Level(c)], type |-> type, addr |-> addr]

\* An assertion about a block in a cache.
Asserted(x, name, c, addr, holds) ==
  IF holds THEN x ELSE [x EXCEPT !.failed = @ \cup {[name |-> name, at |-> c, addr |-> addr]}]

\* A line becomes the most recently used of its set, unlocked.
Refresh(x, c, addr, dirty) ==
  SetLines(x, c, addr, Append(RemoveAt(get_lines(x, c, addr), Position(x, c, addr)),
                              [addr |-> addr, lock |-> FALSE, dirty |-> dirty]))

Erase(x, c, addr) == SetLines(x, c, addr, RemoveAt(get_lines(x, c, addr), Position(x, c, addr)))

-----------------------------------------------------------------------------
(* Eviction.                                                               *)

\* The line, if there is one, is unlocked here and in every cache above.
RECURSIVE check_unlock(_, _, _)
check_unlock(x, c, addr) ==
  \/ Position(x, c, addr) = 0
  \/ /\ ~LineOf(x, c, addr).lock
     /\ \A i \in DOMAIN higher_cache(c) : check_unlock(x, higher_cache(c)[i], addr)

\* The line is erased here and above; dirty tells whether any of them was.  The
\* code reads the dirty bit of a node it has just freed; nothing is allocated in
\* between, so the bit is still there.
RECURSIVE invalidate(_, _, _)
invalidate(x, c, addr) ==
  IF Position(x, c, addr) = 0 THEN [x |-> x, dirty |-> FALSE]
    ELSE LET line == LineOf(x, c, addr)
             Above(r, hc) == LET up == invalidate(r.x, hc, addr)
                             IN  [x |-> up.x, dirty |-> r.dirty \/ up.dirty]
         IN  FoldLeft(Above, [x |-> Erase(Asserted(x, "unlocked", c, addr, ~line.lock), c, addr), dirty |-> line.dirty],
                      higher_cache(c))

\* A mutant of evictline: the dirty bit from above replaces the line's own.
evictlineReplacing(x, c, addr, dirty) ==
  IF Position(x, c, addr) = 0 THEN Asserted(x, "inclusive", c, addr, FALSE) ELSE Refresh(x, c, addr, dirty)

evictline(x, c, addr, dirty) ==
  IF Position(x, c, addr) = 0 THEN Asserted(x, "inclusive", c, addr, FALSE)
    ELSE Refresh(x, c, addr, dirty \/ LineOf(x, c, addr).dirty)

\* A mutant of evict: the caches above keep the line.
evictKeeping(x, c, victim) ==
  Erase(IF ~is_last_level(c) THEN evictline(x, lower_cache(c), victim.addr, victim.dirty)
          ELSE IF victim.dirty
                 THEN [x EXCEPT !.wait_list = Append(@, ToMemory(c, "WRITE", victim.addr))]
                 ELSE x, c, victim.addr)

\* The line goes from every cache above; its dirty bit goes to the next level,
\* or, from the last, a write goes to the memory.
evict(x, c, victim) ==
  LET addr == victim.addr
      Either(r, up) == [x |-> up.x, dirty |-> r.dirty \/ up.dirty]
      Above(r, hc) == Either(r, invalidate(r.x, hc, addr))
      After(gone) == IF ~is_last_level(c) THEN evictline(gone.x, lower_cache(c), addr, gone.dirty)
                       ELSE IF gone.dirty
                         THEN [gone.x EXCEPT !.wait_list = Append(@, ToMemory(c, "WRITE", addr))]
                         ELSE gone.x
  IN  Erase(After(FoldLeft(Above, [x |-> x, dirty |-> victim.dirty], higher_cache(c))), c, addr)

\* The lines of a set that may be evicted: unlocked here and above.
Victims(x, c, addr) ==
  SelectSeq(get_lines(x, c, addr),
            LAMBDA l : ~l.lock /\ \A j \in DOMAIN higher_cache(c) :
                                    check_unlock(x, higher_cache(c)[j], l.addr))

all_sets_locked(x, c, addr) ==
  LET ls == get_lines(x, c, addr)
  IN  Len(ls) >= Assoc[Level(c)] /\ \A i \in DOMAIN ls : ls[i].lock

need_eviction(x, c, addr) == Len(get_lines(x, c, addr)) >= Assoc[Level(c)]

\* The least recently used victim makes room; the new line is locked.
allocate_line(x, c, addr, dirty) ==
  LET first == IF need_eviction(x, c, addr) THEN SubSeq(Victims(x, c, addr), 1, 1) ELSE <<>>
      new == [addr |-> addr, lock |-> TRUE, dirty |-> dirty]
      Added(y) == SetLines(Asserted(y, "new", c, addr, Position(y, c, addr) = 0), c, addr,
                           Append(get_lines(y, c, addr), new))
  IN  Added(FoldLeft(LAMBDA z, victim : evict(z, c, victim), x, first))

-----------------------------------------------------------------------------
(* Requests.                                                               *)

is_hit(x, c, addr) == Position(x, c, addr) # 0 /\ ~LineOf(x, c, addr).lock

Refused(x, c, addr) ==
  \/ Cardinality(x.mshr_entries[c]) = mshr_entry_num[Level(c)]
  \/ all_sets_locked(x, c, addr)
  \/ need_eviction(x, c, addr) /\ Victims(x, c, addr) = <<>>

\* A write of a block that is being fetched makes the coming line dirty.
MarkDirty(x, c, addr, write) ==
  IF Position(x, c, addr) = 0 THEN x
    ELSE LET line == LineOf(x, c, addr)
         IN  SetLines(x, c, addr, ReplaceAt(get_lines(x, c, addr), Position(x, c, addr),
                                            [line EXCEPT !.dirty = @ \/ write]))

\* The caches from c down to the memory.
Path(c) ==
  LET all == <<<<"L1", c[2]>>, <<"L2", c[2]>>>> \o (IF HasL3 THEN <<Shared>> ELSE <<>>)
      from == CASE Level(c) = "L1" -> 1 [] Level(c) = "L2" -> 2 [] OTHER -> 3
  IN  SubSeq(all, from, Len(all))

\* One level is asked, by the core or, for the cache above, in its miss.  A hit is
\* answered later; a miss joins the fetch under way or starts one, and asks the
\* next level, which may refuse and is then asked again, or the memory.
Asked(s, c, addr) ==
  LET x == s.x
      hit == [Refresh(x, c, addr, LineOf(x, c, addr).dirty \/ s.write) EXCEPT
                !.hit_list = Append(@, [left |-> Latency[Level(c)], addr |-> addr])]
      End(y) == [s EXCEPT !.x = y, !.asks = FALSE]
      Missed(y) == IF is_last_level(c)
                     THEN End([y EXCEPT !.wait_list = Append(@, ToMemory(c, "READ", addr))])
                     ELSE [s EXCEPT !.x = y, !.above = c, !.write = FALSE]
  IN  CASE ~s.asks -> s
        [] s.asks /\ is_hit(x, c, addr) -> End(hit)
        [] s.asks /\ ~is_hit(x, c, addr) /\ addr \in x.mshr_entries[c] ->
             End(MarkDirty(x, c, addr, s.write))
        [] s.asks /\ ~is_hit(x, c, addr) /\ addr \notin x.mshr_entries[c] /\ Refused(x, c, addr) ->
             IF s.above = <<>> THEN [End(x) EXCEPT !.ok = FALSE]
               ELSE End([x EXCEPT !.retry_list[s.above] = Append(@, addr)])
        [] OTHER ->
             Missed([allocate_line(x, c, addr, s.write) EXCEPT !.mshr_entries[c] = @ \cup {addr}])

send(x, c, addr, write) ==
  FoldLeft(LAMBDA s, d : Asked(s, d, addr),
           [x |-> x, ok |-> TRUE, asks |-> TRUE, above |-> <<>>, write |-> write], Path(c))

\* The answer for a block: every cache that is fetching it unlocks its line.
callback(x, addr) ==
  LET Unlocked(c, ls) ==
        [i \in DOMAIN ls |-> IF ls[i].addr = addr /\ addr \in x.mshr_entries[c]
                               THEN [ls[i] EXCEPT !.lock = FALSE] ELSE ls[i]]
  IN  [x EXCEPT !.lines = [c \in Cache |-> [i \in DOMAIN @[c] |-> Unlocked(c, @[c][i])]],
                !.mshr_entries = [c \in Cache |-> @[c] \ {addr}]]

\* A mutant of Retried: a request is erased although it is refused again.
RetriedOnce(s, c) ==
  LET list == s.x.retry_list[c]
  IN  IF s.i > Len(list) THEN s
        ELSE [x |-> [send(s.x, lower_cache(c), list[s.i], FALSE).x EXCEPT
                       !.retry_list[c] = RemoveAt(@, s.i)],
              i |-> s.i]

\* The retry loop of a cache, from its i-th request.  After erasing a request it
\* also steps over the next one; after erasing the last it steps over the end of
\* the list, which, its nodes being linked in a ring, is its beginning.
Retried(s, c) ==
  LET list == s.x.retry_list[c]
      Stepped(r) ==
        IF ~r.ok THEN [s EXCEPT !.i = @ + 1]
          ELSE [x |-> [r.x EXCEPT !.retry_list[c] = RemoveAt(@, s.i)],
                i |-> IF s.i = Len(list) THEN 1 ELSE s.i + 1]
  IN  IF s.i > Len(list) THEN s ELSE Stepped(send(s.x, lower_cache(c), list[s.i], FALSE))

Retry(x, c) ==
  LET n == Len(x.retry_list[c])
  IN  FoldLeft(LAMBDA s, k : Retried(s, c), [x |-> x, i |-> 1], [k \in 1..n * (n + 1) |-> k]).x

\* An L1 has its L2 retry first, unless that is the last level.
tick(x, core) ==
  FoldLeft(Retry, x, (IF HasL3 THEN <<<<"L2", core>>>> ELSE <<>>) \o <<<<"L1", core>>>>)

-----------------------------------------------------------------------------
(* The steps of the system.                                                *)

Aged(list) == [i \in DOMAIN list |-> [list[i] EXCEPT !.left = IF @ = 0 THEN 0 ELSE @ - 1]]

\* The hits whose time has come are answered, in order.
AnswerHits(x) ==
  LET due == SelectSeq(x.hit_list, LAMBDA e : e.left <= 1)
  IN  FoldLeft(LAMBDA y, e : callback(y, e.addr),
               [x EXCEPT !.hit_list = Aged(SelectSeq(@, LAMBDA e : e.left > 1))], due)

\* The requests to the memory whose time has come, up to the first that has to
\* wait.  The memory takes some of them, in their order, and refuses the others.
Due == {i \in DOMAIN h.wait_list : \A j \in 1..i : h.wait_list[j].left <= 1}
TakeWaiting(x, accepted) ==
  [x EXCEPT !.wait_list =
     LET left == SelectSeq([i \in DOMAIN @ |-> i], LAMBDA i : i \notin accepted)
     IN  Aged([j \in DOMAIN left |-> @[left[j]]])]

None == [addr |-> -1, write |-> FALSE]
Access == [addr : Block, write : BOOLEAN]

\* A core retries what was refused and makes at most one access.
CoreCycle(s, core, access) ==
  LET Made(r) == [x |-> r.x, n |-> s.n + (IF r.ok THEN 1 ELSE 0),
                  w |-> s.w \cup (IF r.ok /\ access.write THEN {access.addr} ELSE {})]
      Then(y) == IF access = None THEN [s EXCEPT !.x = y]
                   ELSE Made(send(y, <<"L1", core>>, access.addr, access.write))
  IN  Then(tick(s.x, core))

\* One cycle of the processor: the cache system, then the cores in their order.
Cycle(accepted, access) ==
  LET taken(type) == {h.wait_list[i].addr : i \in {j \in accepted : h.wait_list[j].type = type}}
      start == [x |-> AnswerHits(TakeWaiting(h, accepted)), n |-> accesses,
                w |-> written \ taken("WRITE")]
  IN  \E end \in {FoldLeft(LAMBDA s, i : CoreCycle(s, i, access[i]), start,
                           [i \in 1..Cardinality(Core) |-> i])} :
        /\ h' = end.x /\ accesses' = end.n /\ written' = end.w
        /\ inflight' = inflight \cup taken("READ") /\ clk' = 1 - clk

Run ==
  \E accepted \in SUBSET Due :
    \E access \in [Core -> (IF accesses + Cardinality(Core) <= MaxAccesses THEN Access ELSE {})
                            \cup {None}] :
      Cycle(accepted, access)

MemoryAnswers ==
  \E addr \in inflight :
    /\ inflight' = inflight \ {addr}
    /\ h' = callback(h, addr)
    /\ UNCHANGED <<clk, accesses, written>>

\* An assertion that fails ends the program.
Stopped == h.failed # {} /\ UNCHANGED vars

Next == \/ h.failed = {} /\ (Run \/ MemoryAnswers)
        \/ Stopped

Waits(type, addr) == \E e \in Range(h.wait_list) : e.type = type /\ e.addr = addr

Spec == Init /\ [][Next]_vars

\* A cycle comes after a cycle; the memory, while reads wait for it, takes one now
\* and then, and it answers the reads it took.
Running == clk' = 1 - clk
ReadTaken == inflight' \ inflight # {}
ReadsWait == \E addr \in Block : Waits("READ", addr)

Fairness ==
  /\ WF_clk(Running)
  /\ []<>ReadsWait => []<><<ReadTaken>>_inflight
  /\ WF_inflight(MemoryAnswers)

-----------------------------------------------------------------------------
(* Properties.                                                             *)

Lines(c) == UNION {Range(h.lines[c][i]) : i \in DOMAIN h.lines[c]}
Held(c) == {l.addr : l \in Lines(c)}

TypeOK ==
  /\ \A c \in Cache : /\ Lines(c) \subseteq [addr : Block, lock : BOOLEAN, dirty : BOOLEAN]
                      /\ h.mshr_entries[c] \subseteq Block
                      /\ Cardinality(h.mshr_entries[c]) <= mshr_entry_num[Level(c)]
  /\ clk \in 0..1 /\ inflight \subseteq Block /\ written \subseteq Block /\ accesses \in 0..MaxAccesses

\* A set holds a block once, and no more blocks than it has ways.
SetsHold ==
  \A c \in Cache : \A i \in DOMAIN h.lines[c] :
    LET ls == h.lines[c][i]
    IN  Len(ls) <= Assoc[Level(c)] /\ \A j, k \in DOMAIN ls : ls[j].addr = ls[k].addr => j = k

\* The MSHRs of a cache are the fetches of its locked lines, so that the list
\* iterator each one keeps still points to its line when the answer comes
\* (mshr_entries, Cache.h).
MshrsAreLockedLines ==
  \A c \in Cache : h.mshr_entries[c] = {l.addr : l \in {m \in Lines(c) : m.lock}}

\* The hierarchy is inclusive: what a cache holds, the next level holds too, or it
\* will be asked for it again ("check inclusive cache", Cache.cpp).
Inclusive ==
  \A c \in Cache : ~is_last_level(c) =>
    Held(c) \subseteq Held(lower_cache(c)) \cup Range(h.retry_list[c])

\* A line that is evicted is found in the next level ("check inclusive cache",
\* Cache.cpp:202).
EvictedIsBelow == \A f \in h.failed : f.name # "inclusive"

\* Lines that are invalidated are not locked and no block is allocated twice; and an
\* evicted line that is not in the next level was unlocked early: its fetch still
\* waits to be sent there again.
AssertsHold ==
  \A f \in h.failed :
    f.name = "inclusive" /\ \E c \in Cache : ~is_last_level(c) /\ lower_cache(c) = f.at
                                              /\ f.addr \in Range(h.retry_list[c])

\* A block that was written is dirty in some cache, or its write waits for the
\* memory: evictions, invalidations and merged misses lose no write.
NoWriteLost ==
  h.failed = {} =>
  \A b \in written : \/ \E c \in Cache : \E l \in Lines(c) : l.addr = b /\ l.dirty
                     \/ Waits("WRITE", b)

\* No fetch is under way and no refused request waits: every fetch comes to that.
Fetched == \/ \A c \in Cache : h.mshr_entries[c] = {} /\ h.retry_list[c] = <<>>
           \/ h.failed # {}

=============================================================================
