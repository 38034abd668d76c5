------------------------------ MODULE CpuCore -------------------------------
(***************************************************************************)
(* The trace-driven cores (Processor.h, Processor.cpp) and the loop that   *)
(* ticks them and the memory in a ratio (run_cputrace, Main.cpp).  A core  *)
(* reads its trace, inserts bubbles and reads into a window that is a ring *)
(* of instructions, and retires them in order; writes go to the memory     *)
(* without a place in the window.  The memory, or the caches before it, is *)
(* a box that takes a number of requests and answers reads in any order.   *)
(***************************************************************************)
EXTENDS Integers, Sequences, FiniteSetsExt, SequencesExt

CONSTANTS Configs,   \* the configurations, with the traces of the cores
          depth, ipc

VARIABLES config,    \* the configuration, fixed
          core,      \* the cores
          has_write, write_addr,   \* the statics of get_filtered_request
          reads, writes,           \* in the memory: addresses, and a number
          i, pc, phase,            \* the loop: its counter, who is next, and its part
          due,       \* ghost: of each core, the request of its trace that is next
          round      \* ghost: the ticks since i was 0
vars == <<config, core, has_write, write_addr, reads, writes, i, pc, phase, due, round>>

-----------------------------------------------------------------------------
(* The configuration.                                                      *)

TraceOf == config.traces   \* of each core 1..n: lines [bubbles, addr, type, write]
no_core_caches == config.no_core_caches   \* the trace was filtered by caches
expected_limit_insts == config.expected_limit_insts
warmup_insts == config.warmup_insts
early_exit == config.early_exit
cpu_tick == config.cpu_tick
mem_tick == config.mem_tick
Capacity == config.capacity   \* of the memory, reads and writes apart

None == -1
Core == DOMAIN TraceOf
Address == UNION {UNION {{l.addr, l.write} : l \in Range(TraceOf[c])} : c \in Core} \ {None}
calc_weighted_speedup == expected_limit_insts # 0
tick_mult == cpu_tick * mem_tick
InstMax == FoldSet(LAMBDA a, b : IF a > b THEN a ELSE b, 0, {expected_limit_insts, warmup_insts}) + 1

-----------------------------------------------------------------------------
(* The window: a ring of depth places.                                     *)

EmptyWindow == [load |-> 0, head |-> 0, tail |-> 0,
                ready_list |-> [k \in 0..depth - 1 |-> FALSE],
                addr_list |-> [k \in 0..depth - 1 |-> None]]

is_full(w) == w.load = depth
is_empty(w) == w.load = 0

insert(w, ready, addr) ==
  [w EXCEPT !.ready_list[w.head] = ready, !.addr_list[w.head] = addr,
            !.head = (@ + 1) % depth, !.load = @ + 1]

\* A mutant of retire: what is not ready leaves too.
retireUnready(w) ==
  LET n == Min({ipc, w.load})
  IN  [w EXCEPT !.tail = (@ + n) % depth, !.load = @ - n]

\* The ready instructions at the tail leave, up to ipc of them.
retire(w) ==
  LET n == Max({k \in 0..ipc : k <= w.load /\ \A j \in 0..k - 1 : w.ready_list[(w.tail + j) % depth]})
  IN  [w EXCEPT !.tail = (@ + n) % depth, !.load = @ - n]

\* A mutant of set_ready: the scan does not go round the end of the ring.
set_readyFlat(w, addr) ==
  [w EXCEPT !.ready_list = [k \in DOMAIN @ |->
     @[k] \/ (w.addr_list[k] = addr /\ k \in w.tail..w.tail + w.load - 1)]]

set_ready(w, addr) ==
  [w EXCEPT !.ready_list = [k \in DOMAIN @ |->
     @[k] \/ (w.addr_list[k] = addr /\ (k - w.tail) % depth < w.load)]]

-----------------------------------------------------------------------------
(* The trace.  s is the state during a tick: the cores, the statics and    *)
(* the memory.                                                             *)

\* The write of the line that was read last comes first; then the next line.  At
\* the end the trace starts over, if a number of instructions is expected.
get_filtered_request(s, c) ==
  LET r == s.core[c]
      AtEnd == r.line = Len(TraceOf[c])
      line == (r.line % Len(TraceOf[c])) + 1
      l == TraceOf[c][line]
  IN  IF s.has_write
        THEN [s EXCEPT !.has_write = FALSE,
                       !.core[c] = [r EXCEPT !.bubble_cnt = 0, !.req_addr = s.write_addr,
                                             !.req_type = "WRITE", !.more_reqs = TRUE]]
      ELSE IF AtEnd /\ expected_limit_insts = 0
        THEN [s EXCEPT !.core[c] = [r EXCEPT !.line = 0, !.more_reqs = FALSE]]
      ELSE [s EXCEPT !.has_write = l.write # None,
                     !.write_addr = IF l.write # None THEN l.write ELSE @,
                     !.core[c] = [r EXCEPT !.line = line, !.bubble_cnt = l.bubbles, !.req_addr = l.addr,
                                           !.req_type = "READ", !.more_reqs = TRUE]]

\* The next line, and after the last the first: this trace has no end.
get_unfiltered_request(s, c) ==
  LET line == (s.core[c].line % Len(TraceOf[c])) + 1
      l == TraceOf[c][line]
  IN  [s EXCEPT !.core[c] = [@ EXCEPT !.line = line, !.bubble_cnt = l.bubbles, !.req_addr = l.addr,
                                      !.req_type = l.type, !.more_reqs = TRUE]]

get_request(s, c) ==
  IF no_core_caches THEN get_filtered_request(s, c) ELSE get_unfiltered_request(s, c)

\* The requests of a trace in its order.
Requests(c) ==
  FlattenSeq([k \in DOMAIN TraceOf[c] |->
    LET l == TraceOf[c][k]
    IN  IF no_core_caches
          THEN <<<<l.addr, "READ">>>> \o (IF l.write = None THEN <<>> ELSE <<<<l.write, "WRITE">>>>)
          ELSE <<<<l.addr, l.type>>>>])

-----------------------------------------------------------------------------
(* A core.                                                                 *)

\* n more instructions were issued; the limit is noted when it is met.
Issued(r, n) ==
  [r EXCEPT !.cpu_inst = IF @ + n > InstMax THEN InstMax ELSE @ + n,
            !.reached_limit = @ \/ (r.cpu_inst < expected_limit_insts /\ r.cpu_inst + n >= expected_limit_insts)]

\* The memory takes a request unless it is full.
Accepts(s, type) == IF type = "READ" THEN Len(s.reads) < Capacity ELSE s.writes < Capacity
Sent(s, r) ==
  IF r.req_type = "READ" THEN [s EXCEPT !.reads = Append(@, r.req_addr)]
                         ELSE [s EXCEPT !.writes = @ + 1]

\* A core's tick: it retires, inserts bubbles, and, if none is left, sends its
\* request, which for a read needs a place in the window, and gets the next.
CoreTick(s, c) ==
  LET idle == expected_limit_insts = 0 /\ ~s.core[c].more_reqs
      Bubbles(w0) == Min({s.core[c].bubble_cnt, ipc, depth - w0.load})
      Inserted(w0, n) ==
        [Issued(s.core[c], n) EXCEPT
           !.window = FoldLeft(LAMBDA w, k : insert(w, TRUE, None), w0, [k \in 1..n |-> k]),
           !.bubble_cnt = @ - n]
      Stays(r, n) == \/ r.bubble_cnt > 0
                     \/ r.req_type = "READ" /\ (n = ipc \/ is_full(r.window))
                     \/ ~Accepts(s, r.req_type)
      After(r) ==
        [Issued(r, 1) EXCEPT !.window = IF r.req_type = "READ" THEN insert(@, FALSE, r.req_addr) ELSE @]
      Noted(next) == [next EXCEPT !.core[c].reached_limit = @ \/ ~next.core[c].more_reqs,
                                  !.due[c] = (@ % Len(Requests(c))) + 1]
      Sends(r, n) == IF Stays(r, n) THEN [s EXCEPT !.core[c] = r]
                       ELSE Noted(get_request([Sent(s, r) EXCEPT !.core[c] = After(r)], c))
      Ticked(w0, n) == IF idle THEN [s EXCEPT !.core[c].window = w0] ELSE Sends(Inserted(w0, n), n)
      Retired(w0) == Ticked(w0, Bubbles(w0))
  IN  Retired(retire(s.core[c].window))

CoreFinished(r) == ~r.more_reqs /\ is_empty(r.window)

-----------------------------------------------------------------------------
(* The processor and the loop.                                             *)

InOrder == [c \in 1..Cardinality(Core) |-> c]
State == [core |-> core, has_write |-> has_write, write_addr |-> write_addr,
          reads |-> reads, writes |-> writes, due |-> due]

\* The constructors fetch the first request of each core.
Init ==
  /\ config \in Configs
  /\ LET new == [window |-> EmptyWindow, line |-> 0, bubble_cnt |-> 0, req_addr |-> None,
                 req_type |-> "READ", more_reqs |-> FALSE, cpu_inst |-> 0, reached_limit |-> FALSE]
         s == FoldLeft(get_request, [core |-> [c \in Core |-> new], has_write |-> FALSE, write_addr |-> 0], InOrder)
     IN  /\ core = s.core /\ has_write = s.has_write /\ write_addr = s.write_addr
         /\ reads = <<>> /\ writes = 0
         /\ i = 0 /\ pc = "proc" /\ phase = IF warmup_insts # 0 THEN "warmup" ELSE "run"
         /\ due = [c \in Core |-> 1] /\ round = [proc |-> 0, mem |-> 0]

finished(cores) ==
  IF early_exit THEN \E c \in Core : CoreFinished(cores[c]) ELSE \A c \in Core : CoreFinished(cores[c])
has_reached_limit(cores) == \A c \in Core : cores[c].reached_limit

\* Which ticks an iteration of the loop makes.
ProcDue(k) == phase = "warmup" \/ k % mem_tick = 0
MemTicks(k) ==
  IF phase = "warmup" THEN IF k % cpu_tick = cpu_tick - 1 THEN mem_tick ELSE 0
                      ELSE IF k % cpu_tick = 0 THEN 1 ELSE 0

\* The simulation ends when its condition is met after a tick of the processor.
Break(s) ==
  IF calc_weighted_speedup THEN has_reached_limit(s.core)
    ELSE finished(s.core) /\ (early_exit \/ (s.reads = <<>> /\ s.writes = 0))

ProcTick ==
  /\ pc = "proc" /\ phase # "done"
  /\ \E s \in {IF ProcDue(i) THEN FoldLeft(CoreTick, State, InOrder) ELSE State} :
       /\ core' = s.core /\ has_write' = s.has_write /\ write_addr' = s.write_addr
       /\ reads' = s.reads /\ writes' = s.writes /\ due' = s.due
       /\ pc' = "mem"
       /\ phase' = IF phase = "run" /\ ProcDue(i) /\ Break(s) THEN "done" ELSE phase
       /\ round' = [round EXCEPT !.proc = IF ProcDue(i) THEN @ + 1 ELSE @]
  /\ UNCHANGED <<config, i>>

\* The warm-up ends when every core has issued its instructions, or all have
\* reached their limit; the counters start again, the limit noted or not.
WarmedUp ==
  \/ \A c \in Core : core[c].cpu_inst >= warmup_insts
  \/ has_reached_limit(core)

MemoryStep(k) ==   \* the k-th read is answered; 0: a write is done; -1: nothing
  \/ k = -1 /\ UNCHANGED <<reads, writes>>
  \/ k = 0 /\ writes > 0 /\ writes' = writes - 1 /\ UNCHANGED reads
  \/ k \in DOMAIN reads /\ reads' = RemoveAt(reads, k) /\ UNCHANGED writes

\* The answer of a read goes to every core.
Received(k) ==
  [c \in Core |-> IF k \in DOMAIN reads THEN [core[c] EXCEPT !.window = set_ready(@, reads[k])] ELSE core[c]]

\* The memory's ticks of an iteration, of which at most one answers.
MemTick(k) ==
  /\ pc = "mem" /\ phase # "done"
  /\ MemTicks(i) = 0 => k = -1
  /\ MemoryStep(k)
  /\ IF phase = "warmup" /\ WarmedUp
       THEN /\ phase' = "run" /\ i' = 0 /\ round' = [proc |-> 0, mem |-> 0]
            /\ core' = [c \in Core |-> [Received(k)[c] EXCEPT !.cpu_inst = 0]]
       ELSE /\ core' = Received(k) /\ i' = (i + 1) % tick_mult
            /\ round' = IF i' = 0 THEN [proc |-> 0, mem |-> 0] ELSE [round EXCEPT !.mem = @ + MemTicks(i)]
            /\ UNCHANGED phase
  /\ pc' = "proc"
  /\ UNCHANGED <<config, has_write, write_addr, due>>

Done == phase = "done" /\ UNCHANGED vars

Next == ProcTick \/ (\E k \in -1..Len(reads) : MemTick(k)) \/ Done

Spec == Init /\ [][Next]_vars

\* The loop goes on, and the memory, while it has any, answers its oldest read and
\* does a write now and then.
Looping == phase \in {"warmup", "run"} /\ pc' \in {"proc", "mem"} \ {pc}
OldestAnswered == reads # <<>> /\ reads' = Tail(reads)
WriteDone == writes > 0 /\ writes' = writes - 1

Fairness ==
  /\ WF_pc(Looping)
  /\ []<>(reads # <<>>) => []<><<OldestAnswered>>_reads
  /\ []<>(writes > 0) => []<><<WriteDone>>_writes

-----------------------------------------------------------------------------
(* Properties.                                                             *)

TypeOK ==
  /\ \A c \in Core :
       LET w == core[c].window
       IN  /\ w.load \in 0..depth /\ w.head \in 0..depth - 1 /\ w.tail \in 0..depth - 1
           /\ w.head = (w.tail + w.load) % depth
           /\ core[c].req_addr \in Address /\ core[c].cpu_inst \in 0..InstMax
  /\ Range(reads) \subseteq Address /\ writes \in 0..Capacity
  /\ i \in 0..tick_mult - 1 /\ phase \in {"warmup", "run", "done"}

\* A core sends the requests of its own trace, all of them and in its order: the
\* one it holds is the one that comes after those it has sent ("[# of bubbles]
\* [read address] <optional: write address(evicted cacheline)>", Processor.h:23).
SendsOwnTrace ==
  \A c \in Core :
    IF core[c].more_reqs THEN <<core[c].req_addr, core[c].req_type>> = Requests(c)[due[c]]
                         ELSE due[c] = 1

\* Cores do, as long as they do not share the write of a line they read.
WritesShared ==
  no_core_caches /\ \E c, e \in Core : c # e /\ \E l \in Range(TraceOf[c]) : l.write # None

FollowsTrace == WritesShared \/ SendsOwnTrace

\* A window that holds an unanswered read has that read in the memory: no core
\* waits for an answer that will not come (receive, set_ready).
WaitedForIsRead ==
  \A c \in Core :
    LET w == core[c].window
    IN  \A j \in 0..w.load - 1 :
          LET k == (w.tail + j) % depth
          IN  ~w.ready_list[k] => w.addr_list[k] \in Range(reads)

\* Of a filtered trace reached_limit is set when the whole trace was sent and no
\* number of instructions is expected.
LimitAtTraceEnd ==
  no_core_caches /\ expected_limit_insts = 0 /\ ~WritesShared =>
    \A c \in Core : due'[c] # due[c] /\ due'[c] = 1 => core'[c].reached_limit

\* A core has a request to send and room for it in its window, and its limit ahead:
\* only the memory, which others fill before it is asked, keeps it from going on.
Refused(c) ==
  c \in Core /\ calc_weighted_speedup /\ ~core[c].reached_limit
            /\ core[c].bubble_cnt = 0 /\ ~is_full(core[c].window)

\* An unfiltered trace starts over, and no number of instructions ends the simulation
\* ("the simulation exits when the earliest trace finishes", Processor.h:132, when
\* early_exit is set: none does).
Endless == ~no_core_caches /\ ~calc_weighted_speedup

\* When i comes back to 0 the processor was ticked cpu_tick times and the memory
\* mem_tick times ("When the CPU is ticked cpu_tick times, the memory controller
\* should be ticked mem_tick times", Main.cpp), in the warm-up for every round of
\* cpu_tick.
ClockRatio ==
  pc = "mem" /\ i' = 0 /\ phase' = phase =>
    round.proc * mem_tick = (round.mem + MemTicks(i)) * cpu_tick

\* The window of a core as the queue of RetireWindow.
Queue(c) ==
  LET w == core[c].window
  IN  [j \in 1..w.load |-> [addr |-> w.addr_list[(w.tail + j - 1) % depth],
                            ready |-> w.ready_list[(w.tail + j - 1) % depth]]]

=============================================================================
