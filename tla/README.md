# Palermo: a verification development

Palermo is a Ring ORAM controller on top of the Ramulator DRAM simulator
(`src/src/`). Every memory request becomes three dependent tree accesses, two to
the levels of a recursive position map (`pos2`, then `pos1`) and one to the data
level. The trees are divided in *sets* (subtrees); tasks that fall in different
sets run out of order and overlap, tasks of one set take turns.

This directory holds TLA+ models of the controller, of the simulator under it
and of the tools around it, the TLC configurations that check them on small
instances, and TLAPS proofs of what matters most for every size. All definitions
are translated from the source; `PROJECT.json` maps each of them to its lines.

## 1. The system

| part | code | state it keeps | operations | hard behaviour |
|---|---|---|---|---|
| task engine | `Memory.h` 328-770, `task.h` | `m_task_deque` (8 requests of three tasks), `execution_pool`, per-set access counts | create, push, pop, finish, serve | answers in any order, blocked tasks woken by their predecessor, in-order retirement, end of trace |
| tree data of a level | `reservation.h` class `posmap_and_stash` and the maps of `rs`, `ring_bucket.h` | `posMap`, `addr_to_origaddr`, `stash`, buckets, write-back counters | steps 1-5 of `init_step` | positions chosen in one step and used in a later one, reshuffles in between, bucket budgets |
| reservation lines | `reservation.h` class `rs` | ring of lines, MSHRs, last write line | register, forward, answer, commit | answers out of order, commit in order, wrap-around |
| metadata | `reservation.h` 473-762, `cache.h` | waiting tasks per line, a set-associative cache | request, answer | hit under miss, lines evicted while they are read |
| memory front end | `Memory.h` | address mapping, page table | map, translate | bit order, the last free frame |
| memory controller | `Controller.*`, `Scheduler.h`, `Refresh.*` | read, write, activation and refresh queues, row table, write mode | enqueue, tick | reads passing writes, watermarks, row policies |
| DRAM | `DRAM.h` and one file per standard | bank states, earliest issue times | decode, check, update | prerequisites that undo each other, missing timing gaps |
| CPU caches and cores | `Cache.*`, `Processor.*` | lines, MSHRs, retry lists, windows | send, callback, tick | inclusion under late callbacks, retries, in-order retirement |
| drivers | `Main.cpp` | end flag, pending path | serve, send, drain | end of trace, refused requests |
| stash simulation | `stash_simulation/set_oram.cc` | tree with a gap, stash, position map | one routine per access | several write-backs per access |
| trace generator | `trace_generator/src` | caches, slices, last writers | per instruction | slice edges, sequence numbers that wrap |

In ORAM mode the driver calls `serve_until_need_address` with every address of
the trace. It creates the request's tasks and, once the deque is full, pops
answers until the oldest request retires. Popping an answer runs
`oram_task_finish`, which moves the task to its next step; the new step goes
through `push_execution_pool` and `call_ramulator_package` into the level's
`init_step`, which changes the tree data at once, registers reservation lines or
waits for metadata, and sends DRAM requests. While nothing has been answered,
`pop_execution_pool` ticks the memory; the controller's completions call
`mshr_remove` and `metadata_remove`, which push the finished step on the level's
`ready_to_pop_task`. In the other modes the cores, or `Main.cpp` itself, send
requests to the memory, and completions run the callbacks of the caches.

What makes each part correct:

* **engine**: tasks of a set take turns; a level is looked up after the level
  above; no task is stranded; requests retire in order, when all three levels
  are done; every request gets there;
* **tree data**: no block is lost or duplicated; a block is always on the path
  to its leaf; only its own access remaps it; every access finds its block;
  buckets are reshuffled before they run out of slots; sets do not interfere;
* **lines and metadata**: each step is answered once, lines commit in order and
  only when every read they wait for was answered, reads do not pass writes;
* **front end**: different addresses get different places; a frame is shared
  only when none is free;
* **controller**: a request is in one place, is counted while it is served, and
  is served in the end; the row table says what is open;
* **DRAM**: bursts do not overlap, rows are restored, activation windows kept;
* **CPU mode**: the caches stay inclusive, no write is lost, every fetch ends,
  windows retire in order;
* **tools**: the simulated stash loses nothing; a trace records what its slices
  say, each write once, and depends on the last writers.

`PROJECT.json` lists the hazards with their lines and the properties that cover
them, and every component with what is left out.

## 2. Modules

| module | models | state and actions |
|---|---|---|
| `TaskPool` | the task engine | the fields of `Memory`, `m_task_deque` and `task_2d`. `Serve`/`ServeEnd` are the two kinds of serve call, `CheckHead` its test of the head, `PoolEmpty` and `Finish...` one turn of the pop loop per step number, `LinesCommit` and `MetadataArrives` the answers of the stations, `Exit` the end of the driver's loop |
| `RequestWindow` | what the engine promises the driver | accept, complete and retire over a window of requests |
| `RingTree` | geometry of a level | paths (`P`), sets, write-back order (`RingLeaf`, the closed form of `get_ring_counter`) |
| `RingOram` | the tree data of a level | `ChoosePath`, `TakeSlots`, `PullBlock`/`PullDummies`, `ChooseWritePath`, `Writeback` are steps 1 to 5 of `init_step`, each with every map and bucket it changes |
| `BlockStore` | what a level promises the engine | each block has a leaf; an access may remap its own block, once |
| `ReservationStation` | the ring of lines of a level | `TakeSlots`, `Pull`, `Writeback` register the lines of steps 2, 3 and 5; `MshrRemove` is an answer of the memory with the commits it sets off; `PopReady` hands an answer to the engine |
| `InOrderStation` | what the ring promises `TaskPool!LinesCommit` | a queue of steps answered from the front |
| `MetadataFetch` | metadata checks and the on-chip cache | checks of steps 1 and 4, `MetadataRemove`, cache updates of steps 2 and 5 |
| `AnswerOnce` | what it promises `TaskPool!MetadataArrives` | a set of steps, answered once each |
| `AddressMap`, `PageAllocator` | `Memory.h`: address digits, mapping files; page table | one step per address or page |
| `MemController` | one channel of `Controller`, with `Scheduler`, row table, row policies, refresh | `enqueue` and `tick`, over the nodes of `Dram` |
| `Dram`, `DramRules` | `DRAM<T>`: decode, state and clock updates; rules shared by the standards | operators; the tables (`Table`), speeds and timing entries (`Speed`, `Timing`) are constants that the configurations give with the definitions of `Dram`, so that TLC evaluates them once |
| `DDR`, `MobileDram` (LPDDR, WideIO), `NonVolatile`, `GraphicsDram`, `LatencyDram` (ALDRAM, TLDRAM), `SubarrayDram` (SALP, DSARP) | the tables of the standards | prerequisites, row hits, states and timing entries as data |
| `DramState`, `DramTiming` | a rank under every order of requests; a channel with clocks | one command per step |
| `CpuCache` | `Cache.*`: a hierarchy of L1, L2 and perhaps a shared L3 | `send`, `tick` with retries and callbacks, answers of the memory; an assertion that fails is noted in `failed` and ends the run (`Stopped`) |
| `CpuCore`, `RetireWindow` | `Processor.*` and the loop of `run_cputrace`, the statics that the traces share included; what the window promises | ticks of cores and memory in their ratio |
| `TraceDriver` | `dramtrace`, `pathoramtrace`, `pagetrace` of `Main.cpp` | one tick of the loop per step |
| `SetOram` | `set_oram.cc` | the steps of `read_routine`: `ReadRoutine` looks the address up, `ReadPull` reads its path, then each due `Writeback` and `EarlyReshuffle` |
| `TraceCache`, `TraceSlices`, `TraceDependencies` | `trace_generator/src` | an access; an instruction; a routine that Pin calls for it. Where `removeOld` goes on with an erased iterator, any entries of that number may be left |
| `MC...` | instances for TLC | |
| `..._proofs` | theorems | |

### Choices worth knowing

* *What a step of `TaskPool` does to the tree is left out*; a step is something
  the station answers later. Steps 2 (with a reshuffle), 3 and 5 occupy
  reservation lines and are answered in issue order per level; steps 1 and 4
  wait for metadata and are answered in any order. `InOrderStation` and
  `AnswerOnce` state exactly these two assumptions; the `stations` and `metadata`
  runs check that the stations keep them. Whether step 2 reshuffles is a free choice.
  `init_step` may refuse a step for want of lines, and the memory may refuse a
  packet; the code then ticks and retries in place. Nothing but answers can
  happen meanwhile and they commute with the step being issued, so the retry is
  not visible.
* *`RingOram` has one task per set.* `TaskPool!SetsTakeTurns` is the reason:
  a task takes its path only after the one before it has issued its pull (its
  data effects happen at issue), or has finished its write-back. Tasks of
  different sets interleave between any two steps. Requests without address
  (stash maintenance) read dummies only.
* *Offsets* in a bucket are a random permutation; only which of the Z real slots
  a block has, and how many dummies are left, matters.
* *Refills* are greedy in address order. `Refills` states the greedy result
  instead of the loop: every stash block goes to the best bucket that may hold
  it and still has room after the blocks before it. For a write-back the best is
  the deepest, for an early reshuffle the one nearest the root, as in the code.
* `num_of_ways` and the number of leaves are powers of two, as in every shipped
  configuration (the constants are their logarithms). S is at least 2: a bucket
  is due for a reshuffle after S - 1 reads (line 767), so that with S = 1 one
  that was just refreshed would be due at once.
* *The clocks of `MemController`* are abstracted to a free choice, per tick, of
  the commands the timing lets through; `DramTiming` keeps the clocks and asks
  what the tables say about any few commands, so that neither needs the other.
* *`CpuCore` sees the caches and the memory as a box* that accepts so many
  requests and answers reads in any order; `CpuCache` sees the cores as accesses
  in any order. Address translation between them is the identity (`None`).
* *The standards are data.* One set of operators walks the tables of all 21
  variants; the timing entries hold expressions over the speed rows of the code.

## 3. Runs

A run with several *parts* is the disjoint sum of small state machines: the
initial state picks a part, whose actions alone are enabled, and every property
speaks of the parts it belongs to. Fairness is stated for the part that runs.

| run | instances | what it asks |
|---|---|---|
| `task_pool` | 4 requests, deque of 3, 2 sets in `data` and one in the position maps, A = 2 | does the engine keep turns, order and its pool, strand no task, implement `RequestWindow` and finish every request |
| `RingOramSet` | 1 set of 2 leaves, Z = 2, S = 2, A = 2, every address and maintenance accesses | is a block ever lost, an access unserved, a bucket overdrawn; does the level implement `BlockStore` |
| `RingOramSets` | 2 sets of 2 leaves, Z = 1, A = 1, the first set's top bucket on chip | are blocks on the path to their leaf, in their set; do sets interfere |
| `stations` | two sets of two leaves, one path of two buckets in each, Z = 1, S = 2, A = 2, a ring of 7; one of the upper buckets is on chip by its number, the upper level by its level | are lines and waiters counted, reads kept behind writes, no line overwritten, every step answered once, in order and in the end |
| `metadata` | 2 sets of 4 leaves with paths of 3 buckets in the set and one above it, which write-backs look up too; two buckets to a line, a cache of 4 lines for 8 | is a line read once for all who wait, is each check answered once, and in the end |
| `station_forward` | the same instance | expected violation: reads skipped as forwarded although the last write does not write them |
| `mem_controller` | one bank of DDR3, three requests and a refresh, two schedulers, three row policies | is a request in one place, are assertions and serving counts right, which older writes may a read pass, is everything served |
| `dram` | 16 standards with clocks, 3 commands over banks of two groups and ranks or 5 activations of 5 banks; 21 standards without clocks, any number of commands | do the tables keep the bus, the rows and the windows; do states, row table and row-hit test agree; can requests send each other round in circles |
| `caches` | an L1 and L2 with the latencies of the code and 3 blocks, one with an L1 of four ways, two cores below a shared L3 | are caches inclusive but for fetches that wait for a retry, is no write lost, does every fetch and retry end |
| `caches_inclusive` | the first of these | expected violation: a line that is evicted is not in the next level |
| `set_oram` | 5 levels of which one is cut out, 2 subtrees to a group, Z = 2, 2 write-backs per access | the same questions as `RingOram`, for the stand-alone simulation |
| `front_end` | 2 cores x 2 pages in 3 frames; 2 orders on 2 organisations; the 4 mapping files; drivers with 2 or 4 lines | are places different, frames shared only when full, paths read before they are written, every run over |
| | a filtered core; pairs of cores with answers they share, with and without write-backs; pairs of unfiltered cores through warm-up and limit, one of them with a first core that only reads; an unfiltered core without a limit; the memory takes fewer reads than the windows hold | do windows retire in order, is each trace sent whole and in order, is the end marked and reached, unless a core is refused for ever or there is no limit |
| | 3 levels of caches; 6 instructions and up to 3 slices of 2; windows of 4 sequence numbers, 9 lines | is every write-back recorded once and at the last level, every slice recorded in place with exactly the instructions counted for it, do the register map and the lines hold the last writers and nothing else, as far as the code goes |

**Bounds.** `TaskPool`: `MaxReqs` is the only bound on time. Four requests
through a deque of three (code: 8) fill it, retire from it and finish the trace
with it part full; with A = 2 both kinds of task occur in each set and three
tasks of one set wait on each other; a deque of three is enough for the wakeup
scans to skip a request of another set. `RingOram` and `ReservationStation` have
no bound on time; `MetadataFetch` has none but `MaxRewrites` = 1, the buckets that one
step 2 reshuffles. S = 2 makes reshuffles happen at every level, the set's root
included; the shipped constants (Z = 16, S = 27, A = 20) make them rare at the
root, not below it, where the same code runs. Z = 1 or 2 makes buckets overflow
into the stash. A ring of 7 is the least that holds a step which reshuffles a
path of two buckets; the two sets together could hold 8 lines, so that it wraps,
fills and refuses a step. `MemController`: queues of
2 and watermarks of 1 (code: 32, 25 and 6), a scheduler cap of 1 (16), at most
`MaxEvents` = 3 requests and one refresh; every queue is full, drained and
refused. `DramTiming`: a gap relates two commands, or the first and the last of
a window, so a few commands issued as early as possible meet every entry. The
banked workload starts with all rows closed; of each standard the first
organisation and speed row are run. `CpuCore`: windows
of 3 (code: 128), 2 per cycle (4), a memory that takes 2 reads (32): as in the
code one window holds more reads than the memory takes. `CpuCache`: 5 accesses
with the latencies of the code (4, 16, 47), which is enough for a hit's callback
to meet a later fetch; 4 accesses with latencies of 3 to 5 where an L1 of four
ways lets its list of refused requests grow to two, so that one is passed over,
and where two cores share a level. `SetOram`: 5 levels; one address is asked for
and moves between two leaves, the proofs are for all. Trace generator: intervals
of 2 (10^8), windows of 4 (128), at most 9 lines: numbers wrap twice.
`TraceDriver`: trees of at most 6 blocks, buckets of one, one level on
chip. `AddressMap`: lines spread over the bits that a mapping mixes, of the row
only 9 bits (32); no organisation with 3 * 2^n rows (section 4).

**Fairness.** `TaskPool`: `run_oramtrace` calls serve again as soon as it
returns (`Driver`), the pop loop runs as soon as there is an answer (`Engine`),
and the loop that waits ticks the memory, which answers every read it accepted
(`Memory`). `ReservationStation`: while answers are outstanding some read is
answered or some answer taken; no read is promised to be answered before later
ones. `MetadataFetch`: each line read is answered, the engine takes answers.
`MemController`: the timing lets every command through from time to time (gaps
are finite and nothing else is issued while a request waits for them). `CpuCore`,
`CpuCache`: the loop ticks; the memory takes a waiting read or write again and
again, and answers the oldest read; which core's read gets a free place is left
to the code's order. `TraceSlices`, `TraceDriver`: the only
process runs.

**Deadlock** is checked except where a trace or a bound ends the behaviour (the
configurations say `CHECK_DEADLOCK FALSE`).

Every property of a passing run has a mutant in `PROJECT.json`: a plausible bug
in one mapped definition that makes TLC find the property violated.

## 4. Where code and comments disagree

The models follow the code in all of these. For two of them a run shows that the
code breaks what the comment says (`station_forward`, `caches_inclusive`). Where
a property of a passing run is named, that property says what holds instead: it
states the exception, so that the disagreement is in the model and is reached, and
nothing else goes wrong. For the rest no property states what they break.

* `reservation.h:1398`: `rs_line_register_read` gives the forwarding check the
  last entry of `node_id_vec`, the leaf of whichever task last took slots or
  wrote back, not the leaf of the line it registers ("check the immediate above
  write and forward, that is it", line 882). Reads of buckets that the last
  write does not write are skipped (`station_forward`).
* `reservation.h:894`: the check takes the slot `last_write_line` for a write
  while it is in use, also when a read has taken it since.
* `Controller.h:327`: "shortcut for read requests, if a write to same addr
  exists / necessary for coherence" looks in `writeq` only; a write whose row was
  opened is in `actq`, and a later read may be sent before it: `ReadsSeeWrites`
  allows for such writes only.
* `Controller.h:590`: "check if it is the last request to the opened row" counts
  the hits of the current mode's queue, those of `actq` only if there are none.
* `Scheduler.h:233`: the Closed policies ("as soon as there are no pending
  references to the active row", line 32) never look at the queues.
* `Controller.cpp:85`: TL-DRAM's write mode begins only at the high watermark,
  its comment says "or read queue is empty"; fewer writes wait for ever.
* `SALP.cpp:569`: no gap from PRE_OTHER to an ACT of the same subarray in SALP_1
  (SALP.h:193: "nRP for pre2act same sa").
* `DDR4.h:199`: DDR4_3200, the shipped configuration, has nBL 0 where the
  comment says `prefetch_size/2`: its gaps let bursts of that
  length overlap, against the first of the timing rules (`BurstsDisjoint` with
  `prefetch_size/2`); `dram` runs another row of DDR4.
* `Memory.h:962`: organisations with 3 * 2^n rows (LPDDR 6Gb) lose the rows of
  the upper third; lines 132-133 warn of it for the other order only.
* `Memory.h:1170-1176`: "replace a previous assigned physical page" leaves the
  replaced page its translation: two pages share the frame.
* `Cache.cpp:421`: the callback of a hit unlocks whatever fetch of that address
  is under way ("When the lock is on, the value is not valid yet", Cache.h:45);
  an unlocked line can be evicted before the next level has it, and the assertion
  at line 208, the second of "check inclusive cache" (line 202), fails
  (`caches_inclusive`). In `caches` this is the one assertion that may fail, and
  only for a block whose fetch waits in a retry list (`AssertsHold`).
* `Processor.cpp:418`: `has_write` is static and shared by the traces of all
  cores: one core sends the write-back of another's line. What a trace sends is
  asked of cores that do not share a write (`FollowsTrace` in `SimulationEnds`).
* `Processor.cpp:314`: the end of the warm-up resets the count of instructions,
  not `reached_limit` (Processor.h:97).
* `Processor.cpp:395`: an unfiltered trace starts over and never ends ("the
  simulation exits when the earliest trace finishes", Processor.h:132):
  `SimulationEnds` says that such a run never does.
* `Processor.cpp:62`: cores are ticked in a fixed order, so that the first may
  take every free place of the memory's queue for ever ("until the last one
  reaches the limit", configs/DDR3-config.cfg:22). `SimulationEnds` allows for
  this, and for no other way of not ending.
* `trace_generator/src/Cache.cpp:76`: `is_last_level` is not initialised but for
  the last level.
* `gettrace.cpp:362`, `:446`: the instruction that ends a slice is counted for the
  next one, so that the second and later files hold one instruction less than the
  interval size (README.md:151 there), unless the next slice starts with it:
  `SliceInPlace` gives the number that is in the file. Its lines are written after `trace.close()` (line 346) and lost,
  and the count of bubbles goes with them, or, where slices follow each other at
  once, into the next file (`BubblesCounted`).
* `gettrace.cpp:386`: only slices that start in a shared library reset the
  dependency window; `WindowIsReset` is asked of those.
* `gettrace.cpp:576`, `:550`: dependencies on the lines before 0 and 1 are printed
  as 2^64 - 1 or 2^64 - 2 (`NumbersInWindow` says when), and the last line of the
  window is never found as a writer, for `insertDependency` stores seq_number - 1
  (line 237; the exception in `DependencyIsLastWriter`).
* `gettrace.cpp:214`: the loop of `removeOld` erases the iterator it goes on with;
  an entry it leaves names a line that has left the window, in the end the line
  that has its number now (`removeOld` may leave any; `DependencyIsLastWriter`
  asks what the entries say, not that they are gone).
* `gettrace.cpp:550`: a WRITE line names the line before it instead of the writers
  of its address, which the COMP line leaves out
  (`StoredThrough` in `InstructionDependsOnWriters`).

The timing rules are not asked of ALDRAM (raw rows with nRFC 0), TLDRAM (no PREA
to ACT gap; fast rows have times of their own), SALP_1 and SALP_2, nor of other
organisations and speed rows than the first; the unset flag is taken
FALSE (`UnsetFlag`). `MemController` checks the readiness of a command before it is
upgraded to one with auto-precharge, the code of the command it issues
(Controller.h:633). Densities that the code itself does not reconcile (GDDR5 4Gb_x32,
WideIO2, SALP 512Mb_x16) are taken as they stand.

## 5. Proofs

Eight modules hold theorems; `PROJECT.json` lists the results. None of them
assumes more than the ASSUMEs of the module it is about, which TLC evaluates.

**Task engine** (`TaskPool_proofs`), for all non-empty sets
of set ids, all A and Depth > 0, all trace lengths and all choices of sets.

*Safety.* The invariant `IInv` is the conjunction of `TypeOK`, `DequeIsWindow`,
`SetsTakeTurns`, `PoolMatchesStations`, `PositionsFirst` and `LowerLevelsWait`.
None of the first five is inductive alone. That tasks take turns needs to know
that a task in step 1 of the pool got there through the scan of
`oram_task_create`, that answers belong to tasks of the pool at their current
step (`PoolMatchesStations`), and that the scan sees every older task, that is
that the deque is an interval of ids (`DequeIsWindow`). That jobs are unique
needs that a level below is not in the pool before it is started
(`LowerLevelsWait`), which needs the dependency between levels
(`PositionsFirst`). The proofs have one lemma per action, under it one step per
conjunct, and lemmas on queues (what appending to a station's queue or dropping
its head does to the set of its jobs) shared by all actions.

*Wakeups and the window.* `WindowInv` adds `NoTaskStranded` and `RoomKept` (the
deque has room whenever a serve call returns) to `IInv`. That no task is
stranded is proved once for all steps (`WakesAll`: what a step moves is
finished, goes into the pool or is blocked; what it wakes goes into the pool);
each action is then shown to be such a step. `ExitsFinished` takes the oldest
unfinished request of the deque: nothing it could wait for is left, so it is in
the pool, and the loop has not ended. `WindowImplemented` maps accepting,
completing and retiring to the abstract window; all other steps stutter.

**Tree data of a level** (`RingTree_proofs`, `RingOram_proofs`), for every
number of sets and of leaves per set, every Z, A > 0 and S >= 2, every part of
the tree on chip and every set of requests.

*Geometry.* The two recursive functions, `Pow2` and `Reversed`, are shown to
exist (from a least number for which no partial function would) before their
equations are used; nothing about powers is assumed. The lemmas that the rest
rests on: a path meets a level in one bucket; the paths of leaves of different
sets share no bucket at or below `start_lvl`; `get_ring_counter` returns a leaf
of the set it is asked for.

*Safety.* `IInv` is the conjunction of `TypeOK`, `NothingLost`, `OnOwnPath`,
`BucketsServeReads`, `PendingIsAwaited`, `AccessDelivers` and `HeadsFollow`. The
properties depend on each other: a write-back loses no block only if the slots
it empties are the slots their blocks are recorded in; the pull of step 3 finds
its block only if a reshuffle that came between step 2 and it left the block's
slot, or moved task and block together (`PendingIsAwaited`), which needs that
the blocks on a path are of the set that reads it (`OnOwnPath`); and a bucket
has a dummy for the read only if step 2 refreshed it when it was due.
`HeadsFollow` says what a task knows in each of its steps (its leaf is of its
set; a block it does not read from the tree is in the stash; only A-th accesses
write back). Emptying and refilling buckets is proved once, for any set of
buckets and any refill with room; pulls and write-backs cite it.

*Isolation and refinement.* `SetsIsolated` follows because each step stays in
the addresses, buckets and task of its set (`StaysInSet`) and the paths of
different sets are disjoint. `LevelImplementsStore` maps the leaf a block is
recorded with, in the tree or in the stash, to `BlockStore`: choosing the path
remaps the task's own block; every other step keeps all leaves (`KeepsLeaves`).

**Metadata fetch** (`MetadataFetch_proofs`), for every tree, every number of sets
and ways of the on-chip cache and every number of buckets to a metadata line.

*A line misses once.* A check counts its misses, one per bucket, but is listed
once per line: the two agree only because the lines of a path come in order from
the root, so that buckets of one line are looked up one after the other and the
second finds it at the front of its cache set (`LinesDownThePath`, `LooksOnce`).
Move-to-front keeps the lines of a cache set distinct (`LineToFront`). The
recursive functions of the model, the lookups of a path from the root and from
the leaf, and the steps an answer reaches, are shown to exist before their equations are used.

*Safety and refinement.* `IInv` is `TypeOK`, `CacheHoldsLinesOnce`,
`OneReadPerLine`, `WaitersAreCounted` and `OnePerSet`. The last is what makes the
others inductive: a step that waits for lines or was answered is the only one of
its set, the set is at it, and it is not both; without it a set could ask for a
step it is still waiting for, be listed twice, and be answered after one line.
`ReachedSteps` says what one answer does to everybody in the line's list: each
waits for one line less, and those that waited for this one only are answered,
once. Then a check is `Ask` or, when it misses nothing, `AnswerAtOnce`; an
answered read is `Answer` of the steps it completes, or a stutter; and
`ChecksAnsweredOnce` follows: what `TaskPool` assumes of `MetadataArrives`, that a
step which waits for metadata is answered once, holds for every size.

**Reservation lines** (`ReservationStation_proofs`), for every number of sets
and of leaves per set, every Z, S and A, every part of the tree on chip and every
ring that holds the lines of one step and of the next (`StationAssumption`).

*The invariant* `IInv` speaks of the number b of lines in the ring. `Ring`: the
lines in use are the b slots from head on, and tail is the next one. `Counted`:
each waits for the reads it is listed for, no read is listed twice, and it is
ready when none is left. `Steps`: the slots of a step lie side by side and its
counter is their number. `Jobs`: a task waits for one step at a time, in the ring
or among the answers. `Owned`, `Follow`: a line that writes is of a step of the
set it writes to; reads are for lines no younger than the writes of their bucket.
`HeadWaits`: the line at the head is not ready. `Safe`: a slot that some step may
still read (unread since its bucket was written, or taken and not yet pulled) is
not being read, unless for a line that a write of its bucket follows. The last
one is what makes "a slot is asked for once" inductive, and it is there that the
turns of a set's tasks matter: a task whose step is awaited reads nothing, a task
whose step is not has no write in the ring (`IdleUnwritten`), so that the pull of
a path never passes a write to it.

*The argument.* A step that registers several lines first claims their slots
(`ShareWell`), then its lines enter one by one (`EnterWell`, `EntersWell`); each
part of the invariant is therefore stated for b lines and c claimed slots, and
the steps and jobs of all c are known before the first line is there. A line may
commit while the next ones are still being registered, and an answer sets off
any number of commits: `CommitAllWell` follows the attempts of `mshr_remove` up to
one that fails. `Grows` says what a step adds: the reads it issues, the
buckets it writes, and that every line that was there is kept or was ready and
left. `StructHazard` counts slots in use from tail; with `Ring` that is room for as many
lines (`RoomFor`), of which step 2 uses all but three, the room its second look
asks for.

*Ages.* Positions in the ring are compared by their distance from head
modulo its size; `AgeOfSlot`, `NextSlot` and `AgesCounted` are all that the rest
knows of that arithmetic. The loops of `EarlyPulls`, `EarlyPushes` and `CommitAll` are
recursive functions, shown to exist before their equations are used.

*In order.* `Queue(r)[n]` are the steps whose last line is among the first n from
head; with the invariant, `Queue(r)[b]` is what `InOrderStation` calls queued.
Registering lines leaves the answers alone and adds the steps at its end
(`Issued`, `Carries`). A line that leaves either answers the oldest step or
leaves the queue as it was (`QueueLeft`), so commits only move steps from the
front of the queue to the end of the answers (`Answered`): `AnsweredInOrder`
maps each step of the ring to `Issue`, `Answer`, `Pop` or a stutter, and what
`TaskPool` assumes of `LinesCommit` holds for every size.

A step is known here by the last of its lines; the code shares one `task_rs`
object among them, so that any name that no other step in the ring has will do.

**Page allocator** (`PageAllocator_proofs`), for all numbers of frames, cores
and pages. The counter of free frames is the number of free entries
(`RemainingIsFree`); a page's frame is taken (`FramesAreTaken`); so two pages
share a frame only after the last one was given away, and while the counter is
positive the search for a free frame succeeds from wherever it starts, at the
nearest one.

**Memory channel** (`MemController_proofs`), for every standard
and table of its timing, scheduler, row policy, address space, watermarks and
number of requests.

*Places.* `IInv` says that the four queues, the pending reads and the answered
ids are six places of ids, none above the last one given, pairwise apart, with
no two requests of a queue alike. The places alone are inductive: a step moves
one id from its place to another or to none (`Moves`), or adds a fresh one, and
`OrderlyAfterMove` says once that such a step keeps the places apart. That the
schedulers choose a request of the queue they look at (`HeadIn`, `ChosenIn`) is
where the four orders enter. What each step does is stated first of any queues,
away from the controller's variables, and then applied to them.

*Counting.* A request begins when its `is_first_command` is cleared and is
finished when it is answered or, a write, when its last command is issued. `Served`
says that serving a request adds it to the begun ones, or takes a finished write
out; that it was not among them before exactly if it was never begun needs the
places apart (the id may not be begun elsewhere) and that an extension was begun
(`Waiting`). A forwarded read is pending and never begun, which is what `Leaves`
corrects for. `QueuesKeepTheirMax` needs that serving never lengthens a queue,
for only enqueue looks at the max.

What the assertions of `CountsHold` say of the row table depends on the tables
of each standard and is left to TLC.

**Stash simulation** (`SetOram_proofs`), for every height of the tree, every gap
in it, every number of interchangeable subtrees, every Z, S, A and number of
write-backs per access, and every set of requests.

*Safety.* `IInv` has four parts, none inductive alone. `MapsWell`: the two maps
agree, the stash holds the other blocks, and a block in the tree is on the path to
its leaf in a slot that was not read. `BucketsWell`: a bucket's reads took a real
slot or a dummy each. `TaskWell`: an access looks for its block where it is, and
begins with every bucket good for one more read. `RenewalDue`: a bucket that
was read for the last time is listed for a reshuffle, or on a path still to be
written back. A refill is proved once, for any blocks and buckets
(`RefillWell`: it takes each block to one place with room and drops none;
`RewriteAgrees`: the maps still agree), and write-backs and reshuffles apply it. A
block that a write-back places as a guest of another subtree gets a leaf of that
subtree: `GuestWell` says that its bucket is on the path to it.
The numbers of the tree are those of `RingTree_proofs`.

*Refinement.* A leaf is known up to the subtrees of its group (`Home`). Refills keep
all homes (`HomesKept`), so only the access to a block moves it. `WritebackDeep`
shows of the greedy loop that it leaves no room below a block that might be deeper:
when the loop passed a bucket over it was full, and buckets are not emptied again.

**Model-checked only.** Liveness (`RequestsRetire`, `StepsAnswered`, `AllServed`
and the others), which needs fairness and ENABLED. What recursive operators and
folds compute for every input: the table walks of `Dram`, the write-back order
being even, the digits of `AddressMap`. The safety of the components not named
above, and their refinements; section 7 lists those worth a proof.

## 6. Not modelled

Statistics, configuration parsing, the gem5 wrapper, printing and debug modes:
nothing in the program depends on them. SpeedyController: nothing instantiates
it. Power-down and self-refresh are in the state machines, but nothing in the
program sends them. DSARP's directed refreshes. The stash threshold that makes
the driver insert maintenance accesses; these are requests without address that
may come at any time. Third-party PinPoints and SimPoint, configuration files,
results and plots.

## 7. Plan

Theorems still to prove, the most important first: the
refinement of `RetireWindow` by `CpuCore`; `WritesRecorded` of `TraceCache`.
