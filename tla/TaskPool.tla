------------------------------ MODULE TaskPool ------------------------------
(***************************************************************************)
(* The out-of-order task engine of the ORAM front end: class Memory        *)
(* (src/src/Memory.h, serve_until_need_address and the oram_task_*         *)
(* functions) over the m_task_deque of src/src/task.h.                     *)
(*                                                                         *)
(* A request is an id.  It owns one task per level of the recursive        *)
(* position map: "pos2" is looked up first, then "pos1", then "data".  A   *)
(* task goes through numbered steps:                                       *)
(*    0  position lookup (only ever executed by "pos2")                    *)
(*    1  choose the path and fetch its metadata                            *)
(*    2  early reshuffles of the path, then take one slot per bucket       *)
(*    3  pull the path                                                     *)
(*    4  fetch the metadata of the path to write back                      *)
(*    5  write that path back                                              *)
(*    6  finished                                                          *)
(* Steps 4 and 5 belong to every A-th task of a set; all others go from 3  *)
(* to 6.  next_step is the step a task executes or waits to execute.       *)
(*                                                                         *)
(* What a step does to the tree is not modelled here; here a step is       *)
(* something the level's reservation station answers later, by pushing it  *)
(* on ready_to_pop_task.  Steps that occupy reservation lines are answered *)
(* in the order they were issued, since lines commit at the ring's head;   *)
(* metadata fetches are answered in any order.                             *)
(***************************************************************************)
EXTENDS Integers, Sequences

CONSTANTS
  Sets,        \* set ids, the subtrees a level's tree is divided in
  A,           \* every A-th access of a set writes a path back
  Depth,       \* m_task_deque::depth, how many requests may be in flight
  MaxReqs,     \* bound: requests served before the trace ends
  SetChoices   \* the sets a request may fall in, one per level

Levels == {"pos2", "pos1", "data"}

ASSUME SetsAssumption    == Sets # {}
ASSUME AAssumption       == A \in Nat \ {0}
ASSUME DepthAssumption   == Depth \in Nat \ {0}
ASSUME MaxReqsAssumption == MaxReqs \in Nat
ASSUME ChoiceAssumption  == SetChoices \subseteq [Levels -> Sets]

Ids    == 0 .. MaxReqs - 1
Key    == Ids \X Levels        \* keys of m_task_deque::task_deque
Absent == -1                   \* next_step of a key that is not in task_deque

VARIABLES
  pc,                     \* where serve_until_need_address is
  trace_end,
  tail_n_id,              \* id of the next request
  current_rdy_to_commit,  \* id of the oldest request not yet retired
  next_step,              \* per key, Absent outside task_deque
  set_id, set_cnt,        \* per key: the set, and how many accesses of the set came before
  set_cnt_map,            \* per level and set: accesses so far
  execution_pool,         \* keys with a step in execution
  lines,                  \* per level: issued steps that hold reservation lines, oldest first
  meta,                   \* issued steps that wait for metadata
  ready_to_pop_task       \* per level: answered steps, oldest first

vars == <<pc, trace_end, tail_n_id, current_rdy_to_commit, next_step, set_id,
          set_cnt, set_cnt_map, execution_pool, lines, meta, ready_to_pop_task>>

taskVars == <<set_id, set_cnt, set_cnt_map, tail_n_id>>

-----------------------------------------------------------------------------
InDeque(i, l) == <<i, l>> \in Key /\ next_step[<<i, l>>] # Absent

\* Mutant of Past: a task that writes back is passed as soon as its slots are read.
PastOnceRead(i, l, s) == s > 2

\* The step after which a task no longer holds back younger tasks of its set.
Past(i, l, s) == IF set_cnt[<<i, l>>] % A = 0 THEN s > 5 ELSE s > 2

\* The scan of oram_task_create: older tasks of the same level, back to the
\* first id that is not in the deque.
Older(i, l) == {j \in Ids : j < i /\ \A m \in j .. i - 1 : InDeque(m, l)}

Blocked(i, l, ns) ==
  \E j \in Older(i, l) : set_id[<<j, l>>] = set_id[<<i, l>>] /\ ~Past(j, l, ns[<<j, l>>])

\* Mutant of IsNextOfSet: only the very next request is looked at.
IsNextId(i, l, w) ==
  w \in Ids /\ w = i + 1 /\ InDeque(w, l) /\ set_id[<<w, l>>] = set_id[<<i, l>>]

\* The scan of oram_task_finish: the first younger task of the same level and set.
IsNextOfSet(i, l, w) ==
  /\ w \in Ids /\ i < w /\ set_id[<<w, l>>] = set_id[<<i, l>>]
  /\ \A m \in i + 1 .. w : InDeque(m, l)
  /\ \A m \in i + 1 .. w - 1 : set_id[<<m, l>>] # set_id[<<i, l>>]

\* Mutant of AllFinished: the data came back, so the request is done.
DataFinished(i, ns) == ns[<<i, "data">>] = 6

AllFinished(i, ns) == \A l \in Levels : ns[<<i, l>>] = 6

Job(i, l, s) == [id |-> i, level |-> l, step |-> s]

-----------------------------------------------------------------------------
Init ==
  /\ pc = "idle" /\ trace_end = FALSE
  /\ tail_n_id = 0 /\ current_rdy_to_commit = 0
  /\ next_step = [k \in Key |-> Absent]
  /\ set_id = [k \in Key |-> CHOOSE s \in Sets : TRUE]
  /\ set_cnt = [k \in Key |-> 0]
  /\ set_cnt_map = [l \in Levels |-> [s \in Sets |-> 0]]
  /\ execution_pool = {}
  /\ lines = [l \in Levels |-> <<>>] /\ meta = {}
  /\ ready_to_pop_task = [l \in Levels |-> <<>>]

\* serve_until_need_address(addr, false): a new request enters the deque with a
\* task per level; the pos2 task is issued at once, and its step 0 is answered
\* inside init_step.  Nothing more happens until the deque is full.
Serve(sets) ==
  LET n == tail_n_id IN
  /\ pc = "idle" /\ ~trace_end /\ n < MaxReqs
  /\ next_step' = [k \in Key |-> IF k[1] = n THEN 0 ELSE next_step[k]]
  /\ set_id' = [k \in Key |-> IF k[1] = n THEN sets[k[2]] ELSE set_id[k]]
  /\ set_cnt_map' = [l \in Levels |->
                       [set_cnt_map[l] EXCEPT ![sets[l]] = @ + 1]]
  /\ set_cnt' = [k \in Key |-> IF k[1] = n THEN set_cnt_map[k[2]][sets[k[2]]] + 1
                                           ELSE set_cnt[k]]
  /\ execution_pool' = execution_pool \cup {<<n, "pos2">>}
  /\ ready_to_pop_task' =
       [ready_to_pop_task EXCEPT !["pos2"] = Append(@, Job(n, "pos2", 0))]
  /\ tail_n_id' = n + 1
  /\ pc' = IF n + 1 < Depth THEN "idle" ELSE "check"
  /\ UNCHANGED <<trace_end, current_rdy_to_commit, lines, meta>>

\* serve_until_need_address(addr, true): the trace is over.
ServeEnd ==
  /\ pc = "idle"
  /\ trace_end' = TRUE
  /\ pc' = "check"
  /\ UNCHANGED <<taskVars, current_rdy_to_commit, next_step, execution_pool,
                 lines, meta, ready_to_pop_task>>

\* Drop the three tasks of request n from the deque (ns is next_step so far).
Retire(n, ns) ==
  /\ next_step' = [k \in Key |-> IF k[1] = n THEN Absent ELSE ns[k]]
  /\ current_rdy_to_commit' = n + 1

\* Mutant of CheckHead: wait for the head to finish without serving answers.
CheckHeadSpins ==
  LET h == tail_n_id - Depth IN
  /\ pc = "check"
  /\ IF h = current_rdy_to_commit /\ AllFinished(h, next_step)
       THEN Retire(h, next_step) /\ pc' = "serving"
       ELSE UNCHANGED <<pc, next_step, current_rdy_to_commit>>
  /\ UNCHANGED <<trace_end, taskVars, execution_pool, lines, meta,
                 ready_to_pop_task>>

\* The request whose slot is needed may have finished before it was the oldest.
CheckHead ==
  LET h == tail_n_id - Depth IN
  /\ pc = "check"
  /\ IF h = current_rdy_to_commit /\ AllFinished(h, next_step)
       THEN /\ Retire(h, next_step)
            /\ pc' = IF trace_end THEN "serving" ELSE "idle"
       ELSE /\ pc' = "serving"
            /\ UNCHANGED <<next_step, current_rdy_to_commit>>
  /\ UNCHANGED <<trace_end, taskVars, execution_pool, lines, meta,
                 ready_to_pop_task>>

\* pop_execution_pool with nothing left in execution.
PoolEmpty ==
  /\ pc = "serving" /\ execution_pool = {}
  /\ pc' = "idle"
  /\ UNCHANGED <<trace_end, taskVars, current_rdy_to_commit, next_step,
                 execution_pool, lines, meta, ready_to_pop_task>>

-----------------------------------------------------------------------------
(***************************************************************************)
(* Answers of the reservation stations, at any memory clock tick.          *)
(***************************************************************************)

\* The oldest reservation lines of a level commit (rs_line_commit_attempt).
LinesCommit(l) ==
  /\ pc # "done" /\ lines[l] # <<>>
  /\ lines' = [lines EXCEPT ![l] = Tail(@)]
  /\ ready_to_pop_task' = [ready_to_pop_task EXCEPT ![l] = Append(@, Head(lines[l]))]
  /\ UNCHANGED <<pc, trace_end, taskVars, current_rdy_to_commit, next_step,
                 execution_pool, meta>>

\* The last metadata line a step waits for arrives (metadata_remove), or was
\* cached from the start.
MetadataArrives(x) ==
  /\ pc # "done" /\ x \in meta
  /\ meta' = meta \ {x}
  /\ ready_to_pop_task' = [ready_to_pop_task EXCEPT ![x.level] = Append(@, x)]
  /\ UNCHANGED <<pc, trace_end, taskVars, current_rdy_to_commit, next_step,
                 execution_pool, lines>>

-----------------------------------------------------------------------------
(***************************************************************************)
(* pop_execution_pool takes the oldest answer of the first level that has  *)
(* one, pos2 before pos1 before data, and oram_task_finish moves its task  *)
(* on.  Every task it moves is issued unless an older task blocks it.      *)
(***************************************************************************)
PopReady(l) ==
  /\ pc = "serving" /\ execution_pool # {}
  /\ ready_to_pop_task[l] # <<>>
  /\ l = "pos1" => ready_to_pop_task["pos2"] = <<>>
  /\ l = "data" => ready_to_pop_task["pos2"] = <<>> /\ ready_to_pop_task["pos1"] = <<>>

Front(l)    == Head(ready_to_pop_task[l])
DropFront(l) == [ready_to_pop_task EXCEPT ![l] = Tail(@)]

SetStep(i, l, s) == [next_step EXCEPT ![<<i, l>>] = s]

\* Of the keys K, those that oram_task_create issues.
Issued(K, ns) == {k \in K : ~Blocked(k[1], k[2], ns)}

\* The next task of the set, when it has been waiting to choose its path.
Waiting(i, l, ns) == {<<w, l>> : w \in {v \in Ids : IsNextOfSet(i, l, v) /\ ns[<<v, l>>] = 1}}

\* Mutant of Swap: the popped key is not erased.
SwapKeeping(k, K) == execution_pool' = execution_pool \cup K

\* pop_execution_pool removed key k; the keys K are inserted.
Swap(k, K) == execution_pool' = (execution_pool \ {k}) \cup K

Jobs(K, s) == {Job(k[1], k[2], s) : k \in K}

Push(l, K, i, s) ==
  lines' = IF K = {} THEN lines ELSE [lines EXCEPT ![l] = Append(@, Job(i, l, s))]

\* The position lookup is answered: choose a path, unless an older task of the
\* set has not read its own yet.
FinishLookup(l) ==
  LET i == Front(l).id   k == <<i, l>>   ns == SetStep(i, l, 1)
      go == Issued({k}, ns) IN
  /\ PopReady(l) /\ Front(l).step = 0
  /\ next_step' = ns
  /\ Swap(k, go)
  /\ meta' = meta \cup Jobs(go, 1)
  /\ ready_to_pop_task' = DropFront(l)
  /\ UNCHANGED <<pc, trace_end, taskVars, current_rdy_to_commit, lines>>

\* The path's metadata is here.  Without a bucket to reshuffle early, step 2 is
\* answered at once (reshuffle is FALSE).
FinishPath(l, reshuffle) ==
  LET i == Front(l).id   k == <<i, l>>   ns == SetStep(i, l, 2)
      go == Issued({k}, ns) IN
  /\ PopReady(l) /\ Front(l).step = 1
  /\ next_step' = ns
  /\ Swap(k, go)
  /\ IF reshuffle
       THEN /\ Push(l, go, i, 2)
            /\ ready_to_pop_task' = DropFront(l)
       ELSE /\ UNCHANGED lines
            /\ ready_to_pop_task' =
                 IF go = {} THEN DropFront(l)
                            ELSE [DropFront(l) EXCEPT ![l] = Append(@, Job(i, l, 2))]
  /\ UNCHANGED <<pc, trace_end, taskVars, current_rdy_to_commit, meta>>

\* The slots to read are taken: pull them, and let the next task of the set
\* choose its path unless this one also writes back.
FinishSlots(l) ==
  LET i == Front(l).id   k == <<i, l>>   ns == SetStep(i, l, 3)
      go == Issued({k}, ns)
      woken == IF set_cnt[k] % A # 0 THEN Issued(Waiting(i, l, ns), ns) ELSE {} IN
  /\ PopReady(l) /\ Front(l).step = 2
  /\ next_step' = ns
  /\ Swap(k, go \cup woken)
  /\ Push(l, go, i, 3)
  /\ meta' = meta \cup Jobs(woken, 1)
  /\ ready_to_pop_task' = DropFront(l)
  /\ UNCHANGED <<pc, trace_end, taskVars, current_rdy_to_commit>>

\* Mutant of Chained: pos2 starts both levels below it.
ChainedAll(i, l) == IF l = "pos2" THEN {<<i, "pos1">>, <<i, "data">>} ELSE {}

\* The pull of a level below is only worth starting once this one is read.
Chained(i, l) == CASE l = "pos2" -> {<<i, "pos1">>}
                   [] l = "pos1" -> {<<i, "data">>}
                   [] OTHER      -> {}

Retires(i, ns) == i = current_rdy_to_commit /\ AllFinished(i, ns)

\* Mutant of AfterRetire: the serve call goes on after it has made room.
AfterRetireServing == "serving"

AfterRetire == IF trace_end THEN "serving" ELSE "idle"

\* The pull completed the oldest request: retire it; the serve call returns.
FinishPullAndRetire(l) ==
  LET i == Front(l).id   k == <<i, l>>   ns == SetStep(i, l, 6) IN
  /\ PopReady(l) /\ Front(l).step = 3
  /\ set_cnt[k] % A # 0 /\ Retires(i, ns)
  /\ Retire(i, ns)
  /\ Swap(k, {})
  /\ pc' = AfterRetire
  /\ ready_to_pop_task' = DropFront(l)
  /\ UNCHANGED <<trace_end, taskVars, lines, meta>>

\* The pull completed: write back if it is this task's turn, and start the
\* level that depends on it.
FinishPull(l) ==
  LET i == Front(l).id   k == <<i, l>>
      writes == set_cnt[k] % A = 0
      own == SetStep(i, l, IF writes THEN 4 ELSE 6)
      ns == [x \in Key |-> IF x \in Chained(i, l) THEN 1 ELSE own[x]]
      back == IF writes THEN Issued({k}, own) ELSE {}
      below == Issued(Chained(i, l), ns) IN
  /\ PopReady(l) /\ Front(l).step = 3
  /\ writes \/ ~Retires(i, own)
  /\ next_step' = ns
  /\ Swap(k, back \cup below)
  /\ meta' = meta \cup Jobs(back, 4) \cup Jobs(below, 1)
  /\ ready_to_pop_task' = DropFront(l)
  /\ UNCHANGED <<pc, trace_end, taskVars, current_rdy_to_commit, lines>>

\* The write path's metadata is here: write it back.
FinishWriteMetadata(l) ==
  LET i == Front(l).id   k == <<i, l>>   ns == SetStep(i, l, 5)
      go == Issued({k}, ns) IN
  /\ PopReady(l) /\ Front(l).step = 4
  /\ next_step' = ns
  /\ Swap(k, go)
  /\ Push(l, go, i, 5)
  /\ ready_to_pop_task' = DropFront(l)
  /\ UNCHANGED <<pc, trace_end, taskVars, current_rdy_to_commit, meta>>

\* The path is written back: the next task of the set may go, and the request
\* retires if this was its last task and it is the oldest.
FinishWriteback(l) ==
  LET i == Front(l).id   k == <<i, l>>   ns == SetStep(i, l, 6)
      woken == IF set_cnt[k] % A = 0 THEN Issued(Waiting(i, l, ns), ns) ELSE {} IN
  /\ PopReady(l) /\ Front(l).step = 5
  /\ Swap(k, woken)
  /\ meta' = meta \cup Jobs(woken, 1)
  /\ ready_to_pop_task' = DropFront(l)
  /\ IF Retires(i, ns)
       THEN Retire(i, ns) /\ pc' = AfterRetire
       ELSE next_step' = ns /\ UNCHANGED <<current_rdy_to_commit, pc>>
  /\ UNCHANGED <<trace_end, taskVars, lines>>

\* run_oramtrace leaves its loop once nothing is pending in the memory.
Exit ==
  /\ pc = "idle" /\ trace_end /\ execution_pool = {}
  /\ pc' = "done"
  /\ UNCHANGED <<trace_end, taskVars, current_rdy_to_commit, next_step,
                 execution_pool, lines, meta, ready_to_pop_task>>

Exited == pc = "done" /\ UNCHANGED vars

-----------------------------------------------------------------------------
Finish(l) ==
  \/ FinishLookup(l)
  \/ \E reshuffle \in BOOLEAN : FinishPath(l, reshuffle)
  \/ FinishSlots(l)
  \/ FinishPullAndRetire(l)
  \/ FinishPull(l)
  \/ FinishWriteMetadata(l)
  \/ FinishWriteback(l)

Next ==
  \/ \E sets \in SetChoices : Serve(sets)
  \/ ServeEnd
  \/ CheckHead
  \/ PoolEmpty
  \/ \E l \in Levels : LinesCommit(l)
  \/ \E x \in meta : MetadataArrives(x)
  \/ \E l \in Levels : Finish(l)
  \/ Exit
  \/ Exited

Spec == Init /\ [][Next]_vars

-----------------------------------------------------------------------------
(***************************************************************************)
(* Properties.                                                             *)
(***************************************************************************)
Step == 0 .. 6

JobType == [id : Ids, level : Levels, step : 0 .. 5]

TypeOK ==
  /\ pc \in {"idle", "check", "serving", "done"} /\ trace_end \in BOOLEAN
  /\ tail_n_id \in 0 .. MaxReqs /\ current_rdy_to_commit \in 0 .. MaxReqs
  /\ next_step \in [Key -> Step \cup {Absent}]
  /\ set_id \in [Key -> Sets] /\ set_cnt \in [Key -> Nat]
  /\ set_cnt_map \in [Levels -> [Sets -> Nat]]
  /\ execution_pool \subseteq Key
  /\ lines \in [Levels -> Seq(JobType)] /\ meta \subseteq JobType
  /\ ready_to_pop_task \in [Levels -> Seq(JobType)]

\* The deque is the window of ids that were created and not yet retired.
DequeIsWindow ==
  /\ current_rdy_to_commit <= tail_n_id
  /\ \A i \in Ids, l \in Levels :
       next_step[<<i, l>>] # Absent <=> i \in current_rdy_to_commit .. tail_n_id - 1

\* A task that has chosen, or is choosing, its path.
Started(i, l) ==
  \/ next_step[<<i, l>>] >= 2
  \/ next_step[<<i, l>>] = 1 /\ <<i, l>> \in execution_pool

\* Tasks of one level and set touch the tree one at a time and in the order of
\* their requests: a task has chosen its path only if every older task of its
\* set has read its slots, and has written its path back when that was its turn
\* (the scan in oram_task_create).
SetsTakeTurns ==
  \A l \in Levels, i, j \in Ids :
    (i < j /\ InDeque(i, l) /\ InDeque(j, l) /\ set_id[<<i, l>>] = set_id[<<j, l>>] /\ Started(j, l))
      => Past(i, l, next_step[<<i, l>>])

Elements(q) == {q[n] : n \in DOMAIN q}

DistinctIds(q) == \A m, n \in DOMAIN q : q[m].id = q[n].id => m = n

DisjointIds(X, Y) == \A x \in X, y \in Y : x.id # y.id

\* A level's lines q, metadata waiters M and answers r together hold one job for
\* each key that pool holds of the level, at the step ns gives, and no other.
StationMatches(l, q, M, r, pool, ns) ==
  LET all == Elements(q) \cup M \cup Elements(r) IN
  /\ \A x \in all : x.level = l /\ <<x.id, l>> \in pool /\ x.step = ns[<<x.id, l>>]
  /\ \A i \in Ids : <<i, l>> \in pool => \E x \in all : x.id = i
  /\ DistinctIds(q) /\ DistinctIds(r)
  /\ DisjointIds(Elements(q), M) /\ DisjointIds(Elements(q), Elements(r))
  /\ DisjointIds(M, Elements(r))

StationsMatch(L, M, R, pool, ns) ==
  \A l \in Levels : StationMatches(l, L[l], {x \in M : x.level = l}, R[l], pool, ns)

\* Every key of the pool is awaited exactly once and at the step the task is
\* in, and nothing else is: the asserts of push_execution_pool and
\* pop_execution_pool hold, and no answer moves a task twice.
PoolMatchesStations ==
  StationsMatch(lines, meta, ready_to_pop_task, execution_pool, next_step)

\* No wakeup is lost: a task that is neither in execution nor finished waits
\* for the level above to be read, or for an older task of its set.
NoTaskStranded ==
  \A i \in Ids, l \in Levels :
    (InDeque(i, l) /\ next_step[<<i, l>>] # 6 /\ <<i, l>> \notin execution_pool) =>
      \/ l = "pos1" /\ next_step[<<i, l>>] = 0 /\ next_step[<<i, "pos2">>] <= 3
      \/ l = "data" /\ next_step[<<i, l>>] = 0 /\ next_step[<<i, "pos1">>] <= 3
      \/ next_step[<<i, l>>] = 1 /\ Blocked(i, l, next_step)

\* A level is looked up only after the level that holds its position was read.
PositionsFirst ==
  \A i \in Ids :
    /\ InDeque(i, "data") /\ next_step[<<i, "data">>] > 0 => next_step[<<i, "pos1">>] > 3
    /\ InDeque(i, "pos1") /\ next_step[<<i, "pos1">>] > 0 => next_step[<<i, "pos2">>] > 3

\* A task below pos2 enters the pool only once its position is known.
LowerLevelsWait ==
  \A k \in execution_pool : k[2] # "pos2" => next_step[k] > 0

\* The inductive invariant of the proofs.
IInv ==
  /\ TypeOK /\ DequeIsWindow /\ PositionsFirst /\ LowerLevelsWait
  /\ SetsTakeTurns /\ PoolMatchesStations

\* Once the deque has filled up, every serve call returns with room for exactly
\* one request, so a create never finds the deque full.
OneRetirementPerServe ==
  (pc = "idle" /\ ~trace_end /\ tail_n_id >= Depth)
    => tail_n_id - current_rdy_to_commit = Depth - 1

\* What the serve calls keep between them: a deque that is not yet full has lost
\* nothing; a full one is in a serve call until one request retired, and while
\* that call serves answers the oldest request has a level to finish.
RoomKept ==
  /\ tail_n_id - current_rdy_to_commit <= Depth
  /\ ~trace_end =>
       /\ pc # "done"
       /\ tail_n_id < Depth => pc = "idle" /\ current_rdy_to_commit = 0
       /\ tail_n_id >= Depth =>
            tail_n_id - current_rdy_to_commit = IF pc = "idle" THEN Depth - 1 ELSE Depth
       /\ pc = "serving" => ~AllFinished(current_rdy_to_commit, next_step)
  /\ pc = "done" => execution_pool = {}

\* The inductive invariant behind the wakeups and the window.
WindowInv == IInv /\ NoTaskStranded /\ RoomKept

\* The program leaves its loop only when every task has finished.
ExitsFinished ==
  pc = "done" => \A i \in current_rdy_to_commit .. tail_n_id - 1 : AllFinished(i, next_step)

FinishedTasks == {k \in Key : k[1] < current_rdy_to_commit \/ next_step[k] = 6}

Window == INSTANCE RequestWindow
            WITH accepted <- tail_n_id, retired <- current_rdy_to_commit,
                 finished <- FinishedTasks

\* The engine implements the window of RequestWindow: it never holds more than
\* Depth requests, and retires them in order and only when all levels finished.
ImplementsWindow == Window!Spec

-----------------------------------------------------------------------------
(***************************************************************************)
(* Fairness: run_oramtrace calls serve again whenever it returned, the     *)
(* serve loop runs whenever there is an answer, and the loop that waits    *)
(* for one ticks the memory, which answers every read.                     *)
(***************************************************************************)
Driver == ServeEnd \/ \E sets \in SetChoices : Serve(sets)
Engine == CheckHead \/ PoolEmpty \/ \E l \in Levels : Finish(l)
Memory == (\E l \in Levels : LinesCommit(l)) \/ (\E x \in meta : MetadataArrives(x))

FairSpec == Spec /\ WF_vars(Driver) /\ WF_vars(Engine) /\ WF_vars(Memory)

\* Serve calls return, again and again, and in the end with every request that
\* entered the deque finished on all three levels (run_oramtrace and
\* Memory::serve_until_need_address): no wakeup is lost for ever.
RequestsFinish ==
  []<>(/\ pc \in {"idle", "done"}
       /\ \A i \in Ids, l \in Levels : tail_n_id > i => <<i, l>> \in FinishedTasks)

=============================================================================
