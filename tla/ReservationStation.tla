------------------------- MODULE ReservationStation -------------------------
(***************************************************************************)
(* The reservation station of one level (class rs of                       *)
(* src/src/reservation.h): a ring of lines that steps 2, 3 and 5 of the    *)
(* level's tasks register, the reads each line waits for (mshr_array), the *)
(* forwarding from the last write line, and the commit of lines at head.   *)
(*                                                                         *)
(* What a bucket holds is not modelled here (RingOram does); a bucket is   *)
(* the set of its slots that were not read since it was last written.      *)
(* Steps 1 and 4 register no line.  Tasks of a set take turns as in        *)
(* TaskPool!SetsTakeTurns: a task takes its slots only after the pull of   *)
(* the one before it was issued, or its write-back was answered.           *)
(* EMBED_REPEAT is 1, as in the source: one memory read per address.       *)
(***************************************************************************)
EXTENDS RingTree, Sequences, Functions

CONSTANTS
  S,               \* dummy slots of a bucket
  A,               \* every A-th access of a set writes a path back
  NumEntries,      \* rs::num_of_entries, lines of the ring
  LowestUncached,  \* rs::lowest_uncached_lvl
  CacheEnd,        \* rs::cache_end_nodeid
  Paths            \* bound: the leaves whose paths are read and written back

StationAssumption ==
  /\ S \in Nat \ {0} /\ A \in Nat \ {0} /\ LowestUncached \in Nat /\ CacheEnd \in Nat
  /\ NumEntries \in Nat /\ NumEntries >= 3 + 2 * (WayLvls + 1)
  /\ Paths \subseteq Leaves

ASSUME StationAssumption

LineIds == 0 .. NumEntries - 1
Offsets == 0 .. Z + S - 1
Address == Nodes \X Offsets     \* id_convert_to_address
NoLeaf  == -1
NoNode  == -1
NoOff   == -1
NoOffsets == [lvl \in SetLvls |-> NoOff]

VARIABLES
  rs,       \* the station, a record with the fields of class rs
  unread,   \* bucket -> slots not read since it was written (z_arr and s_arr)
  at,       \* set -> what its current task does next
  path,     \* set -> leaf of the current task's path (head->block_id)
  offset,   \* set -> level -> slot taken there (head->local_offset_vec)
  set_cnt   \* set -> accesses so far, modulo A

vars == <<rs, unread, at, path, offset, set_cnt>>

\* A step of a task; wb: the task will write a path back.
Job == [set : Sets, step : {2, 3, 5}, wb : BOOLEAN]

Types == {"", "init", "read-pull", "early-pull", "early-push", "write-pull", "write-push"}

\* rs_line; leaf and node stand for oram_node_id: the path of a read or write
\* line, the single bucket of an early line.
Line(type, leaf, node) ==
  [type |-> type, leaf |-> leaf, node |-> node, valid |-> FALSE, ready |-> FALSE,
   unfinished |-> 0]

RsLine == [type : Types, leaf : Leaves \cup {NoLeaf}, node : Nodes \cup {NoNode},
           valid : BOOLEAN, ready : BOOLEAN, unfinished : Nat]

\* class rs
Station ==
  [vec : [LineIds -> RsLine], head : LineIds, tail : LineIds, last_write_line : LineIds,
   node_id_vec : Leaves \cup {NoLeaf}, mshr_array : [Address -> Seq(LineIds)],
   task_map : [LineIds -> LineIds], cnt : [LineIds -> Int], job : [LineIds -> Job],
   ready_to_pop : Seq(Job)]

IsWrite(line) == line.type \in {"early-push", "write-push"}

-----------------------------------------------------------------------------
(***************************************************************************)
(* The ring.                                                               *)
(***************************************************************************)
\* Mutant of StructHazard: called without its argument.
StructHazardNone(r, lookahead) == FALSE

\* struct_hazard: one of the next lookahead lines is in use.
StructHazard(r, lookahead) ==
  \E i \in 0 .. lookahead - 1 :
    LET line == r.vec[(r.tail + i) % NumEntries] IN line.valid /\ line.type # "init"

\* The ring's next slot.
After(l) == (l + 1) % NumEntries

NoJob == [set |-> 0, step |-> 2, wb |-> FALSE]

\* The i-th line from the head, from 0.
FromHead(r, i) == (r.head + i) % NumEntries

\* Mutant of Answers: every line answers its step.
AnswersEach(r, step) == <<r.job[step]>>

\* The last line of a step that leaves answers the step.
Answers(r, step) == IF r.cnt[step] = 1 THEN <<r.job[step]>> ELSE <<>>

\* rs_line_commit_attempt: the line at the head leaves if it is ready.  The fields
\* it leaves behind are never read again; they are cleared to keep the state space
\* small.
Attempt(r) ==
  LET step == r.task_map[r.head]
  IN  IF ~r.vec[r.head].valid \/ ~r.vec[r.head].ready THEN r
      ELSE [r EXCEPT !.vec[r.head]      = Line("", NoLeaf, NoNode),
                     !.task_map[r.head] = 0,
                     !.cnt[step]        = @ - 1,
                     !.job[step]        = IF r.cnt[step] = 1 THEN NoJob ELSE @,
                     !.ready_to_pop     = @ \o Answers(r, step),
                     !.head             = After(r.head)]

\* Mutant of CommitAll: of several steps answered at once, only the youngest.
CommitAllLast(r) ==
  LET commit[k \in Nat] == IF k = 0 THEN r ELSE Attempt(commit[k - 1])
      all == commit[NumEntries].ready_to_pop
      old == Len(r.ready_to_pop)
  IN  [commit[NumEntries] EXCEPT !.ready_to_pop =
         r.ready_to_pop \o SubSeq(all, IF Len(all) = old THEN old + 1 ELSE Len(all), Len(all))]

\* The loop of mshr_remove: attempts until one fails, of which there are no more
\* than lines.
CommitAll(r) ==
  LET commit[k \in Nat] == IF k = 0 THEN r ELSE Attempt(commit[k - 1])
  IN  commit[NumEntries]

\* Mutant of Satisfy: the first answer makes the line ready.
SatisfyFirst(r, a) ==
  [r EXCEPT !.vec = [l \in LineIds |-> IF l \in Range(r.mshr_array[a])
                       THEN [r.vec[l] EXCEPT !.unfinished = @ - 1, !.ready = TRUE]
                       ELSE r.vec[l]],
            !.mshr_array[a] = <<>>]

\* The lines that wait for the read of a have one read less to wait for
\* (update_ready_bit).
Satisfy(r, a) ==
  [r EXCEPT !.vec = [l \in LineIds |-> IF l \in Range(r.mshr_array[a])
                       THEN [r.vec[l] EXCEPT !.unfinished = @ - 1,
                                             !.ready = (r.vec[l].unfinished = 1)]
                       ELSE r.vec[l]],
            !.mshr_array[a] = <<>>]

\* A new line takes the slot at tail and waits for reads (mshr_add).
PutLine(r, line, reads) ==
  [r EXCEPT
     !.vec[r.tail] = [line EXCEPT !.valid = TRUE, !.ready = (reads = {}),
                                  !.unfinished = Cardinality(reads)],
     !.mshr_array = [a \in Address |-> IF a \in reads THEN Append(r.mshr_array[a], r.tail)
                                       ELSE r.mshr_array[a]],
     !.last_write_line = IF IsWrite(line) THEN r.tail ELSE @,
     !.tail = After(r.tail)]

\* The end of every rs_line_register_*: a line that waits for nothing commits at
\* once if it is at the head.
Enter(r, line, reads) ==
  IF reads = {} /\ r.tail = r.head THEN Attempt(PutLine(r, line, reads))
  ELSE PutLine(r, line, reads)

\* A step of n lines, the first of which is the next to be registered, shares
\* one counter (rs_line_task_map), which is known by the last of the lines.
Share(r, job, n) ==
  LET step == (r.tail + n - 1) % NumEntries
  IN  [r EXCEPT !.job[step] = job, !.cnt[step] = n,
                !.task_map = [l \in LineIds |->
                   IF (l - r.tail) % NumEntries < n THEN step ELSE r.task_map[l]]]

-----------------------------------------------------------------------------
(***************************************************************************)
(* Forwarding.                                                             *)
(***************************************************************************)
\* ld_fwd_st_check for a line of the given type and path that is being put in
\* the slot at tail: the levels it need not read, because they are on chip or
\* because the line last_write_line, if still in the ring, writes their bucket
\* on the path to leaf.  The slot's type and path are set before the check, its
\* valid bit after it.
Forwarded(r, line, leaf) ==
  LET w == IF r.last_write_line = r.tail
             THEN [line EXCEPT !.valid = r.vec[r.tail].valid]
             ELSE r.vec[r.last_write_line]
  IN  {lvl \in Lvls : lvl < LowestUncached} \cup
      {lvl \in Lvls :
         /\ lvl >= LowestUncached /\ w.valid /\ w.type # "init"
         /\ IF w.leaf = NoLeaf THEN P(leaf, lvl) = w.node ELSE P(leaf, lvl) = P(w.leaf, lvl)}

\* The buckets a path line may read: in the set and not on chip.
Readable(leaf) == {lvl \in SetLvls : P(leaf, lvl) >= CacheEnd}

-----------------------------------------------------------------------------
(***************************************************************************)
(* Registration of the steps' lines.                                       *)
(***************************************************************************)
\* What a reshuffle reads of bucket n of level lvl: every unread slot, unless the
\* bucket is on chip.
EarlyReads(lvl, n) ==
  {a \in {n} \X unread[n] : lvl >= LowestUncached /\ n >= CacheEnd}

\* rs_line_register_early_reshuffle_r
EarlyPull(r, lvl, n) == Enter(r, Line("early-pull", NoLeaf, n), EarlyReads(lvl, n))

\* rs_line_register_early_reshuffle_w
EarlyPush(r, n) == Enter(r, Line("early-push", NoLeaf, n), {})

\* rs_line_register_read: the forwarding check is given the end of node_id_vec.
RegisterRead(r, leaf, off) ==
  LET line == Line("read-pull", leaf, NoNode)
      fwd  == Forwarded(r, line, r.node_id_vec)
  IN  Enter(r, line, {<<P(leaf, lvl), off[lvl]>> : lvl \in {k \in SetLvls \ fwd : off[k] # NoOff}})

\* rs_line_register_write: pull reads Z of the unread slots of each bucket
\* (pulled), push only writes.
RegisterWrite(r, leaf, pulled) ==
  LET line == Line("write-pull", leaf, NoNode)
      lvls == Readable(leaf) \ Forwarded(r, line, leaf)
      r1   == Enter(r, line, UNION {{P(leaf, lvl)} \X pulled[lvl] : lvl \in lvls})
  IN  Enter(r1, Line("write-push", leaf, NoNode), {})

-----------------------------------------------------------------------------
Init ==
  /\ rs = [vec  |-> [l \in LineIds |->
                       IF l = NumEntries - 1
                         THEN [Line("init", NoLeaf, NoNode) EXCEPT !.valid = TRUE]
                         ELSE Line("", NoLeaf, NoNode)],
           head |-> 0, tail |-> 0, last_write_line |-> NumEntries - 1,
           node_id_vec |-> NoLeaf,
           mshr_array |-> [a \in Address |-> <<>>],
           task_map |-> [l \in LineIds |-> 0],
           cnt  |-> [l \in LineIds |-> 0],
           job  |-> [l \in LineIds |-> NoJob],
           ready_to_pop |-> <<>>]
  /\ unread = [n \in Nodes |-> Offsets]
  /\ at = [set \in Sets |-> "take"]
  /\ path = [set \in Sets |-> NoLeaf]
  /\ offset = [set \in Sets |-> NoOffsets]
  /\ set_cnt = [set \in Sets |-> 0]

\* check_early_need: the bucket was read S - 1 times.
Exhausted(n) == Cardinality(unread[n]) = Z + 1

\* The levels of a path that must be reshuffled.
EarlyLvls(leaf) == {lvl \in SetLvls : Exhausted(P(leaf, lvl))}

\* The lines of their reshuffles, the root's side first: all that read, then all
\* that write.
EarlyPulls(r, leaf) ==
  LET pulls[i \in Nat] ==
        IF i = 0 THEN r
        ELSE IF StartLvl + i - 1 \in EarlyLvls(leaf)
          THEN EarlyPull(pulls[i - 1], StartLvl + i - 1, P(leaf, StartLvl + i - 1))
          ELSE pulls[i - 1]
  IN  pulls[WayLvls + 1]

EarlyPushes(r, leaf) ==
  LET pushes[i \in Nat] ==
        IF i = 0 THEN r
        ELSE IF StartLvl + i - 1 \in EarlyLvls(leaf)
          THEN EarlyPush(pushes[i - 1], P(leaf, StartLvl + i - 1))
          ELSE pushes[i - 1]
  IN  pushes[WayLvls + 1]

\* evaluate_next_task: lines the next step on this path may need.
EvaluateNextTask(leaf) == 3 + 2 * Cardinality(EarlyLvls(leaf))

JobOf(set, step) == [set |-> set, step |-> step, wb |-> set_cnt[set] = 0]

\* Step 2: reshuffle the exhausted buckets, all pulls before all pushes, and
\* take a slot of every bucket of the path that is not on chip.
TakeSlots(set, leaf) ==
  LET n     == Cardinality(EarlyLvls(leaf))
      early == {P(leaf, lvl) : lvl \in EarlyLvls(leaf)}
      fresh == [b \in Nodes |-> IF b \in early THEN Offsets ELSE unread[b]]
      cnt   == (set_cnt[set] + 1) % A
      job   == [set |-> set, step |-> 2, wb |-> cnt = 0]
      r     == IF n = 0 THEN [rs EXCEPT !.ready_to_pop = Append(@, job)]
               ELSE EarlyPushes(EarlyPulls(Share(rs, job, 2 * n), leaf), leaf)
  IN
  /\ at[set] = "take"
  /\ ~StructHazard(rs, EvaluateNextTask(leaf))
  /\ \E off \in [SetLvls -> Offsets \cup {NoOff}] :
       /\ \A lvl \in SetLvls : IF lvl \in Readable(leaf)
                                 THEN off[lvl] \in fresh[P(leaf, lvl)] ELSE off[lvl] = NoOff
       /\ offset' = [offset EXCEPT ![set] = off]
       /\ unread' = [b \in Nodes |-> fresh[b] \ {off[lvl] : lvl \in {k \in SetLvls : P(leaf, k) = b}}]
  /\ rs' = [r EXCEPT !.node_id_vec = leaf]
  /\ path' = [path EXCEPT ![set] = leaf]
  /\ set_cnt' = [set_cnt EXCEPT ![set] = cnt]
  /\ at' = [at EXCEPT ![set] = "taking"]

\* Mutant of AfterPull: the next task does not wait for the write-back.
NeverWait(set) == "take"

\* Whom a pull lets go first: the next task of the set, unless a write-back is due.
AfterPull(set) == IF set_cnt[set] = 0 THEN "pulling" ELSE "take"

\* Step 3: read the slots taken.
Pull(set) ==
  /\ at[set] = "pull"
  /\ ~StructHazard(rs, EvaluateNextTask(path[set]))
  /\ rs' = RegisterRead(Share(rs, JobOf(set, 3), 1), path[set], offset[set])
  /\ at' = [at EXCEPT ![set] = AfterPull(set)]
  /\ offset' = [offset EXCEPT ![set] = NoOffsets]
  /\ UNCHANGED <<unread, path, set_cnt>>

\* Step 5: read what is left of the path to write back, and write it.
Writeback(set, leaf) ==
  /\ at[set] = "write"
  /\ ~StructHazard(rs, EvaluateNextTask(path[set]))
  /\ \E pulled \in [SetLvls -> SUBSET Offsets] :
       /\ \A lvl \in SetLvls : pulled[lvl] \in kSubset(Z, unread[P(leaf, lvl)])
       /\ rs' = [RegisterWrite(Share(rs, JobOf(set, 5), 2), leaf, pulled)
                   EXCEPT !.node_id_vec = leaf]
  /\ unread' = [b \in Nodes |-> IF b \in SetPath(leaf) THEN Offsets ELSE unread[b]]
  /\ at' = [at EXCEPT ![set] = "writing"]
  /\ UNCHANGED <<path, offset, set_cnt>>

\* mshr_remove: the memory answers a read, in any order.
MshrRemove(a) ==
  /\ rs.mshr_array[a] # <<>>
  /\ LET r == Satisfy(rs, a)
     IN  rs' = IF rs.head \in Range(rs.mshr_array[a]) /\ r.vec[rs.head].ready
               THEN CommitAll(r) ELSE r
  /\ UNCHANGED <<unread, at, path, offset, set_cnt>>

\* The engine takes the oldest answer and moves its task on.
PopReady ==
  /\ rs.ready_to_pop # <<>>
  /\ LET job == Head(rs.ready_to_pop)
     IN  at' = CASE job.step = 2 -> [at EXCEPT ![job.set] = "pull"]
                 [] job.step = 3 /\ job.wb -> [at EXCEPT ![job.set] = "write"]
                 [] job.step = 3 /\ ~job.wb -> at
                 [] job.step = 5 -> [at EXCEPT ![job.set] = "take"]
  /\ rs' = [rs EXCEPT !.ready_to_pop = Tail(@)]
  /\ UNCHANGED <<unread, path, offset, set_cnt>>

MemoryAnswers == \E a \in Address : MshrRemove(a)

Next ==
  \/ \E set \in Sets :
       \/ \E leaf \in LeavesOf(set) \cap Paths : TakeSlots(set, leaf) \/ Writeback(set, leaf)
       \/ Pull(set)
  \/ MemoryAnswers
  \/ PopReady

Spec == Init /\ [][Next]_vars

\* While reads are in flight or answers wait, the memory answers some read or the
\* engine takes an answer.  Nothing says that a given read is answered before
\* others that come later: the ring fills up behind it.  Only MemoryAnswers does
\* ReadAnswered, and only PopReady does StepTaken.
Unfinished == rs.ready_to_pop # <<>> \/ \E a \in Address : rs.mshr_array[a] # <<>>
ReadAnswered == \E a \in Address : rs.mshr_array[a] # <<>> /\ rs'.mshr_array[a] = <<>>
StepTaken == Len(rs'.ready_to_pop) < Len(rs.ready_to_pop)
Progress == ReadAnswered \/ StepTaken

Fairness == []<>Unfinished => []<><<Progress>>_vars

FairSpec == Spec /\ Fairness

-----------------------------------------------------------------------------
(***************************************************************************)
(* Properties.                                                             *)
(***************************************************************************)
TypeOK ==
  /\ rs \in Station
  /\ unread \in [Nodes -> SUBSET Offsets]
  /\ at \in [Sets -> {"take", "taking", "pull", "pulling", "write", "writing"}]
  /\ path \in [Sets -> Leaves \cup {NoLeaf}]
  /\ offset \in [Sets -> [SetLvls -> Offsets \cup {NoOff}]]
  /\ set_cnt \in [Sets -> 0 .. A - 1]

\* The lines in use, and their age.
Busy   == {l \in LineIds : rs.vec[l].valid /\ rs.vec[l].type # "init"}
Age(l) == (l - rs.head) % NumEntries

\* The busy lines are the ones between head and tail; every line waits for
\* exactly the reads it is listed for, is ready when there are none left, and
\* the counter of its step is the number of the step's lines still there.
BusyAreCounted ==
  /\ \A l \in LineIds : l \in Busy => Age(l) < Cardinality(Busy)
  /\ (rs.head + Cardinality(Busy)) % NumEntries = rs.tail
  /\ \A l \in Busy :
       LET line == rs.vec[l] IN
       /\ line.unfinished = Cardinality({a \in Address : l \in Range(rs.mshr_array[a])})
       /\ line.ready = (line.unfinished = 0)
       /\ rs.cnt[rs.task_map[l]] =
            Cardinality({k \in Busy : rs.task_map[k] = rs.task_map[l]})

\* A ready line never waits at the head: whoever made it ready, or brought the
\* head to it, also committed it.  Nothing else would.
HeadNotReady == rs.head \in Busy => ~rs.vec[rs.head].ready

\* No answer of the memory is lost or counted twice, however the answers are
\* ordered, and what is ready at the head of the ring leaves it at once.
LinesAreCounted == TypeOK /\ BusyAreCounted /\ HeadNotReady

\* No slot is being read for two lines: the merging of mshr_add never has to
\* happen as long as the tasks of a set take turns, so every slot is read once
\* between two writes of its bucket.
OneReaderPerSlot == \A a \in Address : Len(rs.mshr_array[a]) <= 1

Writes(line, n) ==
  /\ line.valid /\ IsWrite(line)
  /\ line.node = n \/ (line.leaf # NoLeaf /\ n \in SetPath(line.leaf))

\* No slot is being read for two lines, and no read of a bucket is in flight for a
\* line that is younger than a write of that bucket still in the ring: the read
\* would return the old slot.
ReadsFollowWrites ==
  /\ OneReaderPerSlot
  /\ \A a \in Address : \A l \in Range(rs.mshr_array[a]) :
       \A w \in Busy : Writes(rs.vec[w], a[1]) => Age(w) >= Age(l)

\* A line leaves only when every read it waits for has been answered, and until
\* then no registration overwrites it (the asserts on rs_vec[tail]->valid),
\* although a step registers several lines after one look at the ring.
NoLineIsOverwritten ==
  \A l \in Busy :
    LET line == rs.vec[l]   line2 == rs'.vec[l] IN
    \/ /\ ~line2.valid
       /\ \A a \in Address : l \in Range(rs.mshr_array[a]) => rs'.mshr_array[a] = <<>>
    \/ /\ <<line2.type, line2.leaf, line2.node>> = <<line.type, line.leaf, line.node>>
       /\ line2.unfinished <= line.unfinished
\* Step 2 looks for room again after it has moved blocks and registered its
\* reshuffles (push_to_pending_read); that second look must succeed (assert(0)).
RoomIsLeft ==
  \A set \in Sets : at[set] = "take" /\ at'[set] = "taking" => ~StructHazard(rs', 3)

\* No line is overwritten before it has left: a step that looked for room once, or
\* step 2 that looks again after it moved blocks, has room for all its lines.
NoLineOverwritten == [][NoLineIsOverwritten /\ RoomIsLeft]_vars

\* The steps that hold lines, oldest first: of each, its last line.
QueuedSteps ==
  LET queue[i \in Nat] ==
        IF i = 0 THEN <<>>
        ELSE LET l == FromHead(rs, i - 1)
             IN  IF rs.task_map[l] = l THEN Append(queue[i - 1], rs.job[l]) ELSE queue[i - 1]
  IN  queue[Cardinality(Busy)]

InOrder == INSTANCE InOrderStation
             WITH Jobs <- Job, queue <- QueuedSteps, answered <- rs.ready_to_pop

\* The ring answers every step once, in the order the steps were issued.
ImplementsInOrder == InOrder!Spec

\* Every issued step is answered, and the task moves on: no order of answers, and
\* no wait for the head of the ring, leaves a step in it for ever.
StepsAnswered == \A set \in Sets : []<>(at[set] \in {"pull", "write", "take"})

\* "check the immediate above write and forward, that is it" (reservation.h:882):
\* a bucket whose read is skipped is on chip, or is written by the last write.
SkippedIsForwarded ==
  \A set \in Sets : at[set] = "pull" /\ at'[set] # "pull" =>
    \A lvl \in Readable(path[set]) :
      LET n == P(path[set], lvl) IN
      \/ lvl < LowestUncached
      \/ rs'.mshr_array[<<n, offset[set][lvl]>>] # rs.mshr_array[<<n, offset[set][lvl]>>]
      \/ Writes(rs.vec[rs.last_write_line], n)
SkippedReadsAreForwarded == [][SkippedIsForwarded]_vars

=============================================================================
