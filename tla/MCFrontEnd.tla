----------------------------- MODULE MCFrontEnd -----------------------------
(***************************************************************************)
(* Small instances of what comes before the memory controller.  A          *)
(* behaviour is that of one part.  Those who send the requests: the traces *)
(* ("plain") and the Path ORAM and Page ORAM baselines ("baselines") of    *)
(* TraceDriver, and the cores with their traces ("cores").  The addresses  *)
(* they send to: the translation of pages ("pages", the actions of         *)
(* PageAllocator, with more pages than frames), the built-in orders of     *)
(* address bits ("orders") and the files of src/mappings ("files").  And   *)
(* the tool that records the traces of programs: its caches ("llc"), its   *)
(* slices of a program ("slices"), or the same with instruction fetches    *)
(* and several operands ("bubbles"), and the dependencies of a whole       *)
(* program ("full") or of slices that start in shared libraries ("shared").*)
(***************************************************************************)
EXTENDS PageAllocator, Integers, SequencesExt

VARIABLES
  part,
  org, type, use_mapping_file, mapping_scheme, placed,
  mode, phase, trace, line_num, path, index, readq, writeq, pending, write_mode,
  wr_high_watermark, sent, answered, stored, forwarded,
  config, core, has_write, write_addr, reads, writes, count, pc, stage, due, round,
  cache_lines, is_last_level, reqList, asserts, access, unwritten,
  run, starts, total, slices, execount, full_sim, control, record, recorded_instr_int,
  bbl_cnt, open, exited, at, requested, inFile, printed, ended,
  seq_number, dependency, compRRegs, mem_filtered, mem2_filtered, recorded, instr, todo,
  lines, writer, own, fresh

addressVars == <<org, type, use_mapping_file, mapping_scheme, placed>>
driverVars ==
  <<mode, phase, trace, line_num, path, index, readq, writeq, pending, write_mode,
    wr_high_watermark, sent, answered, stored, forwarded>>
coreVars ==
  <<config, core, has_write, write_addr, reads, writes, count, pc, stage, due, round>>
cacheVars == <<cache_lines, is_last_level, reqList, asserts, access, unwritten>>
sliceVars ==
  <<run, starts, total, slices, execount, full_sim, control, record, recorded_instr_int,
    bbl_cnt, open, exited, at, requested, inFile, printed, ended>>
depVars ==
  <<seq_number, dependency, compRRegs, mem_filtered, mem2_filtered, recorded, instr, todo,
    lines, writer, own, fresh>>
memoryVars == <<addressVars, driverVars, coreVars>>
traceVars == <<cacheVars, sliceVars, depVars>>
allVars == <<part, vars, addressVars, driverVars, coreVars, traceVars>>

MCCores == {"core0", "core1"}

-----------------------------------------------------------------------------
(* The address mappings: the built-in orders on small organisations of     *)
(* five and of six levels, and the files of src/mappings on a DDR3 chip,   *)
(* whose levels are channel, rank, bank, row and column.                   *)

MCOrders ==
  {[org |-> o, type |-> t, file |-> <<>>] : o \in {<<2, 2, 2, 4, 8>>, <<1, 2, 4, 2, 4, 4>>},
                                            t \in {"ChRaBaRoCo", "RoBaRaCoCh"}}

MCAllLines == [n \in 1 .. 128 |-> n - 1]

Orders == INSTANCE AddressMap
  WITH Setups <- MCOrders, Prefetch <- 2, RowBits <- 9, Lines <- MCAllLines

RangeLine(level, hi, lo, from, to) == [level |-> level, to |-> <<hi, lo>>, from |-> <<from, to>>]
BitLine(level, b, bits)            == [level |-> level, to |-> <<b>>, from |-> bits]

\* The rows of the files are 31:0 = 40:9.
Rows == RangeLine(3, 8, 0, 17, 9)

CachelineInterleaving == <<RangeLine(2, 2, 0, 2, 0), RangeLine(4, 5, 0, 8, 3), Rows>>
RowInterleaving       == <<RangeLine(4, 5, 0, 5, 0), RangeLine(2, 2, 0, 8, 6), Rows>>

CachelineRandomized ==
  <<RangeLine(4, 5, 0, 8, 3), Rows,
    BitLine(2, 0, <<0, 13>>), BitLine(2, 1, <<1, 14>>), BitLine(2, 2, <<2, 15>>)>>

RowRandomized ==
  <<RangeLine(4, 5, 0, 5, 0), Rows,
    BitLine(2, 0, <<6, 13>>), BitLine(2, 1, <<7, 14>>), BitLine(2, 2, <<8, 15>>)>>

MCFiles ==
  {[org |-> <<1, 1, 8, 2 ^ 15, 2 ^ 10>>, type |-> "RoBaRaCoCh", file |-> f] :
     f \in {CachelineInterleaving, RowInterleaving, CachelineRandomized, RowRandomized}}

\* Every value of bits that the files mix with each other or that bound a field.
MCBits == <<0, 2, 3, 6, 8, 9, 13, 15>>
MCSpreadLines ==
  [n \in 1 .. 2 ^ Len(MCBits) |->
     FoldLeft(+, 0, [i \in DOMAIN MCBits |-> 2 ^ MCBits[i] * (((n - 1) \div 2 ^ (i - 1)) % 2)])]

Files == INSTANCE AddressMap
  WITH Setups <- MCFiles, Prefetch <- 8, RowBits <- 9, Lines <- MCSpreadLines

-----------------------------------------------------------------------------
(* The drivers.                                                            *)

Baselines == INSTANCE TraceDriver
  WITH Modes <- {"path", "page"}, TraceLength <- 2, Addrs <- {0, 1}, Blocks <- 6,
       CachedLevels <- 1, Bucket <- 1, QueueMax <- 2, WrHigh <- 1, WrLow <- 1

Plain == INSTANCE TraceDriver
  WITH Modes <- {"dram"}, TraceLength <- 4, Addrs <- {0, 1}, Blocks <- 2,
       CachedLevels <- 0, Bucket <- 1, QueueMax <- 2, WrHigh <- 1, WrLow <- 1

-----------------------------------------------------------------------------
(* The configurations of the cores.                                        *)

Line(bubbles, addr, write) == [bubbles |-> bubbles, addr |-> addr, type |-> "READ", write |-> write]
Op(bubbles, addr, op) == [bubbles |-> bubbles, addr |-> addr, type |-> op, write |-> -1]

\* One core and a filtered trace with write-backs, to its end.
Filtered ==
  [traces |-> <<<<Line(1, 1, 2), Line(0, 3, -1), Line(3, 1, 3), Line(0, 1, -1), Line(2, 2, 1)>>>>,
   no_core_caches |-> TRUE, expected_limit_insts |-> 0, warmup_insts |-> 0, early_exit |-> FALSE,
   cpu_tick |-> 2, mem_tick |-> 1, capacity |-> 2]

\* Two cores that read the same addresses, to the end of both traces.
Reads ==
  [traces |-> <<<<Line(1, 1, -1), Line(0, 2, -1), Line(0, 1, -1)>>,
                <<Line(0, 1, -1), Line(4, 3, -1)>>>>,
   no_core_caches |-> TRUE, expected_limit_insts |-> 0, warmup_insts |-> 0, early_exit |-> FALSE,
   cpu_tick |-> 3, mem_tick |-> 2, capacity |-> 2]

\* The same with write-backs in both traces.
FilteredPair ==
  [Reads EXCEPT !.traces = <<<<Line(1, 1, -1), Line(0, 2, 5)>>, <<Line(0, 3, -1), Line(1, 4, 6)>>>>]

\* Two cores that start their traces over, through the warm-up and to the limit;
\* together their windows hold more reads than the memory takes.
Limit ==
  [traces |-> <<<<Op(1, 1, "READ"), Op(0, 2, "WRITE"), Op(3, 5, "READ")>>,
                <<Op(0, 3, "READ"), Op(2, 4, "READ")>>>>,
   no_core_caches |-> FALSE, expected_limit_insts |-> 9, warmup_insts |-> 4, early_exit |-> TRUE,
   cpu_tick |-> 3, mem_tick |-> 2, capacity |-> 2]

\* A first core that does nothing but read.
Contended == [Limit EXCEPT !.traces[1] = <<Op(0, 1, "READ"), Op(0, 2, "READ")>>]

\* One core and an unfiltered trace.
Unfiltered ==
  [Limit EXCEPT !.traces = <<<<Op(1, 1, "READ"), Op(0, 2, "WRITE")>>>>,
                !.expected_limit_insts = 0, !.warmup_insts = 0]

MCConfigs == {Filtered, Reads, FilteredPair, Limit, Contended, Unfiltered}

Processor == INSTANCE CpuCore
  WITH Configs <- MCConfigs, depth <- 3, ipc <- 2, i <- count, phase <- stage

-----------------------------------------------------------------------------
(* The trace tool.  The last level's victim may be recent in the first     *)
(* level, whose hits it does not see.                                      *)

Caches == INSTANCE TraceCache
  WITH Levels <- 3, Assoc <- <<2, 2, 2>>, SetCount <- <<1, 1, 2>>, Block <- {0, 1, 2, 4},
       UnsetFlag <- {FALSE}

Slices == INSTANCE TraceSlices
  WITH Addr <- {"a", "b"}, MaxInstr <- 6, MaxOps <- 1, ISize <- 2, SliceStarts <- {1, 2, 3},
       Filtered <- TRUE, IFEnable <- FALSE, pc <- at

Bubbles == INSTANCE TraceSlices
  WITH Addr <- {"a", "b"}, MaxInstr <- 6, MaxOps <- 2, ISize <- 2, SliceStarts <- {0, 1, 2},
       Filtered <- TRUE, IFEnable <- TRUE, pc <- at

\* Two address registers, a value and the flags, and one instruction of each shape
\* the tool tells apart: y := op(x); x := [y]; [x] := y; [y] := [x] with a step of
\* x; [y] := [y] + 1, one operand read and written.
Operand(regs, isRead, isWritten) == [regs |-> regs, isRead |-> isRead, isWritten |-> isWritten]
MCInstrs ==
  {[ops |-> <<>>, rregs |-> {"x"}, wregs |-> {"y", "f"}],
   [ops |-> <<Operand({"y"}, TRUE, FALSE)>>, rregs |-> {"y"}, wregs |-> {"x"}],
   [ops |-> <<Operand({"x"}, FALSE, TRUE)>>, rregs |-> {"x", "y"}, wregs |-> {}],
   [ops |-> <<Operand({"x"}, TRUE, FALSE), Operand({"y"}, FALSE, TRUE)>>,
    rregs |-> {"x", "y"}, wregs |-> {"x"}],
   [ops |-> <<Operand({"y"}, TRUE, TRUE)>>, rregs |-> {"y"}, wregs |-> {"f"}]}

Full == INSTANCE TraceDependencies
  WITH Window <- 4, Regs <- {"x", "y", "f"}, Instrs <- MCInstrs, MaxLines <- 9,
       Filtered <- TRUE, FullSim <- TRUE, Symbolic <- FALSE, record <- recorded

Shared == INSTANCE TraceDependencies
  WITH Window <- 4, Regs <- {"x", "y", "f"}, Instrs <- MCInstrs, MaxLines <- 7,
       Filtered <- FALSE, FullSim <- FALSE, Symbolic <- TRUE, record <- recorded

ASSUME FrontEndAssumption ==
  /\ Orders!AddressMapAssumption /\ Files!AddressMapAssumption
  /\ Baselines!TraceDriverAssumption /\ Plain!TraceDriverAssumption
  /\ Caches!TraceCacheAssumption /\ Slices!TraceSlicesAssumption /\ Bubbles!TraceSlicesAssumption
  /\ Full!TraceDependenciesAssumption /\ Shared!TraceDependenciesAssumption

-----------------------------------------------------------------------------
Idle == "idle"
AddressIdle ==
  /\ org = Idle /\ type = Idle /\ use_mapping_file = Idle /\ mapping_scheme = Idle /\ placed = Idle
DriverIdle ==
  /\ mode = Idle /\ phase = Idle /\ trace = Idle /\ line_num = Idle /\ path = Idle
  /\ index = Idle /\ readq = Idle /\ writeq = Idle /\ pending = Idle /\ write_mode = Idle
  /\ wr_high_watermark = Idle /\ sent = Idle /\ answered = Idle /\ stored = Idle
  /\ forwarded = Idle
CoreIdle ==
  /\ config = Idle /\ core = Idle /\ has_write = Idle /\ write_addr = Idle /\ reads = <<>>
  /\ writes = 0 /\ count = Idle /\ pc = Idle /\ stage = Idle /\ due = Idle /\ round = Idle
CachesIdle ==
  /\ cache_lines = Idle /\ is_last_level = Idle /\ reqList = Idle /\ asserts = Idle
  /\ access = Idle /\ unwritten = Idle
SlicesIdle ==
  /\ run = Idle /\ starts = Idle /\ total = Idle /\ slices = Idle /\ execount = Idle
  /\ full_sim = Idle /\ control = Idle /\ record = Idle /\ recorded_instr_int = Idle
  /\ bbl_cnt = Idle /\ open = Idle /\ exited = Idle /\ at = Idle /\ requested = Idle
  /\ inFile = Idle /\ printed = Idle /\ ended = Idle
DependenciesIdle ==
  /\ seq_number = Idle /\ dependency = Idle /\ compRRegs = Idle /\ mem_filtered = Idle
  /\ mem2_filtered = Idle /\ recorded = Idle /\ instr = Idle /\ todo = Idle /\ lines = Idle
  /\ writer = Idle /\ own = Idle /\ fresh = Idle

TraceIdle == CachesIdle /\ SlicesIdle /\ DependenciesIdle
MemoryIdle == AddressIdle /\ DriverIdle /\ CoreIdle

\* The pages stay as they are while another part runs.
PartInit ==
  /\ Init
  /\ \/ part = "pages" /\ MemoryIdle /\ TraceIdle
     \/ part = "orders" /\ Orders!Init /\ DriverIdle /\ CoreIdle /\ TraceIdle
     \/ part = "files" /\ Files!Init /\ DriverIdle /\ CoreIdle /\ TraceIdle
     \/ part = "baselines" /\ Baselines!Init /\ AddressIdle /\ CoreIdle /\ TraceIdle
     \/ part = "plain" /\ Plain!Init /\ AddressIdle /\ CoreIdle /\ TraceIdle
     \/ part = "cores" /\ Processor!Init /\ AddressIdle /\ DriverIdle /\ TraceIdle
     \/ part = "llc" /\ Caches!Init /\ MemoryIdle /\ SlicesIdle /\ DependenciesIdle
     \/ part = "slices" /\ Slices!Init /\ MemoryIdle /\ CachesIdle /\ DependenciesIdle
     \/ part = "bubbles" /\ Bubbles!Init /\ MemoryIdle /\ CachesIdle /\ DependenciesIdle
     \/ part = "full" /\ Full!Init /\ MemoryIdle /\ CachesIdle /\ SlicesIdle
     \/ part = "shared" /\ Shared!Init /\ MemoryIdle /\ CachesIdle /\ SlicesIdle

\* One part takes a step; the variables of the others stay.
Apart(others) == UNCHANGED <<part, others>>
PartNext ==
  \/ part = "pages" /\ Next /\ Apart(<<addressVars, driverVars, coreVars, traceVars>>)
  \/ /\ \/ part = "orders" /\ Orders!Next
        \/ part = "files" /\ Files!Next
     /\ Apart(<<vars, driverVars, coreVars, traceVars>>)
  \/ /\ \/ part = "baselines" /\ Baselines!Next
        \/ part = "plain" /\ Plain!Next
     /\ Apart(<<vars, addressVars, coreVars, traceVars>>)
  \/ part = "cores" /\ Processor!Next /\ Apart(<<vars, addressVars, driverVars, traceVars>>)
  \/ part = "llc" /\ Caches!Next /\ Apart(<<vars, memoryVars, sliceVars, depVars>>)
  \/ /\ \/ part = "slices" /\ Slices!Next
        \/ part = "bubbles" /\ Bubbles!Next
     /\ Apart(<<vars, memoryVars, cacheVars, depVars>>)
  \/ /\ \/ part = "full" /\ Full!Next
        \/ part = "shared" /\ Shared!Next
     /\ Apart(<<vars, memoryVars, cacheVars, sliceVars>>)

\* The drivers and the loops go on, as does the program that is recorded, and the
\* memory serves what it is given in the end.
PartSpec ==
  /\ PartInit /\ [][PartNext]_allVars
  /\ WF_driverVars(part = "baselines" /\ Baselines!Step(TRUE))
  /\ WF_driverVars(part = "plain" /\ Plain!Step(TRUE))
  /\ Processor!Fairness
  /\ WF_sliceVars(part = "slices" /\ Slices!Next)

-----------------------------------------------------------------------------
(* The properties of AddressMap.                                           *)

\* No two lines share a place in the DRAM: the levels are the digits of the address
\* in the order that the mapping says, each within what the organisation has.
PlacesDiffer ==
  /\ part = "orders" => Orders!TypeOK /\ Orders!PlacesDiffer /\ Orders!DigitsInOrder
  /\ part = "files" => Files!TypeOK /\ Files!PlacesDiffer

-----------------------------------------------------------------------------
(* The properties of TraceDriver.                                          *)

\* A baseline reads the slots of a path, with its siblings, from the DRAM, writes
\* them back only when all of them were read, and before the next access begins; a
\* plain trace reaches the memory in its order, each request once; and the run ends
\* with nothing left in the memory.
RunEnds ==
  /\ [](part = "baselines" => /\ Baselines!TypeOK /\ Baselines!ReadsBeforeWrites
                              /\ Baselines!AlwaysFromDram /\ Baselines!PathIsSound)
  /\ [](part = "plain" => Plain!TypeOK /\ Plain!TraceInOrder)
  /\ [][part = "baselines" => Baselines!WrittenBack]_allVars
  /\ <>(part \notin {"baselines", "plain"} \/ Plain!Ended)

-----------------------------------------------------------------------------
(* The properties of CpuCore.                                              *)

\* The windows of the cores implement the queues of RetireWindow; where there is
\* one core the other's queue stays empty.
CoreId == UNION {DOMAIN c.traces : c \in MCConfigs}
Window == INSTANCE RetireWindow
  WITH Core <- CoreId, ipc <- 2, depth <- 3, None <- -1,
       q <- [c \in CoreId |->
               IF part = "cores" /\ c \in DOMAIN core THEN Processor!Queue(c) ELSE <<>>]
ImplementsRetirement == Window!Spec

\* Every core sends the requests of its trace, all of them and in order, waits for
\* no answer that will not come, is marked at the end of the trace, and is ticked in
\* its ratio to the memory; and the simulation ends, unless a core but the first is
\* refused for ever; but one of an unfiltered trace without a limit never does.
SimulationEnds ==
  /\ [](part = "cores" =>
          /\ Processor!TypeOK /\ Processor!FollowsTrace /\ Processor!WaitedForIsRead
          /\ Processor!Endless => stage # "done")
  /\ [][part = "cores" => Processor!ClockRatio /\ Processor!LimitAtTraceEnd]_allVars
  /\ \/ <>(part = "cores" => stage = "done")
     \/ \E c \in CoreId \ {1} : <>[](part = "cores" /\ Processor!Refused(c))
     \/ <>(part = "cores" /\ Processor!Endless)

-----------------------------------------------------------------------------
(* The properties of TraceCache.                                           *)

\* A written block is dirty in some level until its write reaches the memory: every
\* level holds what the level above does, and an access sends nothing, its read, or
\* a victim's write and then its read, at the last level only.
WritesRecorded ==
  /\ [](part = "llc" => /\ Caches!TypeOK /\ Caches!Inclusive
                           /\ Caches!NoWriteLost /\ Caches!OneReadOneWrite)
  /\ [][part = "llc" => Caches!RecordedAtLLC]_allVars

-----------------------------------------------------------------------------
(* The properties of TraceSlices.                                          *)

\* The starting point of the next slice is still to come; a file holds the
\* instructions of the run from its slice's start on, as many as were counted for it;
\* and the numbers in a file account for every instruction of it.  By the end of the
\* run all slices were recorded.
SlicesRecorded ==
  /\ [](part = "slices" => Slices!TypeOK /\ Slices!NoSliceMissed /\ Slices!SliceInPlace)
  /\ [](part = "bubbles" => Bubbles!TypeOK /\ Bubbles!BubblesCounted)
  /\ <>(part # "slices" \/ Slices!AllRecorded)

-----------------------------------------------------------------------------
(* The properties of TraceDependencies.                                    *)

InPart(full, shared) == CASE part = "full" -> full [] part = "shared" -> shared [] OTHER -> TRUE

\* What the map says of a register is the line that wrote it last; the lines of an
\* instruction name what the map says of its registers, but for a store's address
\* without caches; they name it by a number of the window, but for a line just before
\* number 0; and a slice that starts in a shared library finds an empty window.
DependsOnLastWriters ==
  /\ [](InPart(Full!TypeOK, Shared!TypeOK))
  /\ [](InPart(Full!DependencyIsLastWriter, Shared!DependencyIsLastWriter))
  /\ [](InPart(Full!InstructionDependsOnWriters, Shared!InstructionDependsOnWriters))
  /\ [](InPart(Full!NumbersInWindow, Shared!NumbersInWindow))
  /\ [](part = "shared" => Shared!WindowIsReset)

=============================================================================
