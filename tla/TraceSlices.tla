----------------------------- MODULE TraceSlices -----------------------------
(***************************************************************************)
(* Which instructions of a program the trace generator records             *)
(* (src/trace_generator/src/gettrace.cpp): all of them, or the slices that *)
(* SimPoint found, each from its starting point on for intervalsize        *)
(* instructions, into a file of its own; and the CPU trace it writes, in   *)
(* which every request carries the number of instructions before it.       *)
(*                                                                         *)
(* The starting points are executions of instructions: a slice starts when *)
(* its instruction is executed for the given time.  The requests of an     *)
(* instruction are those TraceCache lets through.                          *)
(***************************************************************************)
EXTENDS SequencesExt

CONSTANTS
  Addr,         \* addresses of instructions
  MaxInstr,     \* executed by the program
  MaxOps,       \* memory operands of an instruction
  ISize,        \* KnobISize: instructions of a slice
  SliceStarts,  \* the numbers of slices a run may have (0: full_sim)
  Filtered,     \* some cache is on
  IFEnable      \* KnobIFEnable: instruction fetches are recorded

TraceSlicesAssumption ==
  /\ MaxInstr \in Nat /\ MaxOps \in Nat /\ ISize \in Nat \ {0}
  /\ SliceStarts \subseteq Nat /\ Filtered \in BOOLEAN /\ IFEnable \in BOOLEAN

VARIABLES
  run,                 \* the addresses the program executes
  starts,              \* ghost: where in it the slices start
  total,               \* instructions executed
  slices,              \* starting points of the slices not finished
  execount,            \* executions of each starting point's instruction
  full_sim, control, record,
  recorded_instr_int,  \* instructions recorded of the current slice
  bbl_cnt,             \* instructions since the last request
  open,                \* a trace file is open
  exited,
  pc,                  \* what is still to be called for the current instruction
  requested,           \* memory operands of it recorded so far
  inFile,              \* ghost: instructions recorded in the open file
  printed,             \* ghost: the sum of the numbers in its lines
  ended                \* ghost: the instruction at which the last file was closed

config == <<run, starts, full_sim>>
slicing == <<total, slices, execount, control, record, recorded_instr_int, open, exited, inFile, ended>>
vars == <<config, slicing, bbl_cnt, pc, requested, printed>>

-----------------------------------------------------------------------------
\* How often the instruction at position n was executed before and at n.
Executions(n) == Cardinality({m \in 1 .. n : run[m] = run[n]})

Points == {run[n] : n \in ToSet(starts)}

\* setSliceLimits and main.  The slices are intervals of the run.
Init ==
  /\ run \in [1 .. MaxInstr -> Addr]
  /\ \E k \in SliceStarts :
       /\ starts \in [1 .. k -> 1 .. MaxInstr]
       /\ \A i \in 1 .. k - 1 : starts[i + 1] >= starts[i] + ISize
  /\ slices = [i \in DOMAIN starts |-> [address |-> run[starts[i]], execount |-> Executions(starts[i])]]
  /\ full_sim = (starts = <<>>)
  /\ execount = [a \in Points |-> 0]
  /\ open = full_sim
  /\ control = FALSE /\ record = FALSE /\ exited = FALSE
  /\ total = 0 /\ recorded_instr_int = 0 /\ bbl_cnt = 0
  /\ pc = "CountTotalInst" /\ requested = 0
  /\ inFile = 0 /\ printed = 0 /\ ended = 0

\* The current slice has its instructions.
Ends == control /\ recorded_instr_int = ISize

\* The slices once the current one is removed, if it has ended.
Remaining == IF Ends THEN Tail(slices) ELSE slices

\* The instruction is the starting point of the next slice, perhaps while it ends
\* the one before it.
Starts(addr, count) ==
  /\ ~control \/ Ends
  /\ Remaining # <<>>
  /\ addr = Head(Remaining).address /\ count = Head(Remaining).execount

\* Mutant of updateCounters: executions are counted only outside slices.
updateCountersOutside(addr) ==
  [a \in DOMAIN execount |-> IF a = addr /\ ~control THEN execount[a] + 1 ELSE execount[a]]

updateCounters(addr) == [a \in DOMAIN execount |-> IF a = addr THEN execount[a] + 1 ELSE execount[a]]

\* checkLimits ends the program at the end of the last slice ...
Finish ==
  /\ Ends /\ Remaining = <<>>
  /\ exited' = TRUE /\ open' = FALSE /\ control' = FALSE /\ slices' = <<>>
  /\ UNCHANGED <<record, recorded_instr_int, inFile, ended, bbl_cnt, printed, pc>>

\* ... and otherwise decides what is recorded: an instruction that ends a slice
\* is, although the file was closed, and counts for the slice after it.  Only an
\* instruction outside the limits clears the count of instructions.
Record(addr, count) ==
  LET starting == Starts(addr, count)
      again    == full_sim \/ control \/ starting
      counted  == IF Ends THEN 0 ELSE recorded_instr_int
  IN
  /\ ~(Ends /\ Remaining = <<>>)
  /\ slices' = Remaining
  /\ control' = (starting \/ (control /\ ~Ends))
  /\ open' = (starting \/ (open /\ ~Ends))
  /\ record' = again
  /\ recorded_instr_int' = IF again THEN counted + 1 ELSE counted
  /\ inFile' = IF starting THEN 1 ELSE IF open /\ ~Ends THEN inFile + 1 ELSE 0
  /\ ended' = IF Ends THEN total + 1 ELSE ended
  /\ bbl_cnt' = IF again THEN bbl_cnt + 1 ELSE 0
  /\ printed' = IF starting THEN 0 ELSE printed
  /\ pc' = IF IFEnable THEN "RecordInstructionFetch" ELSE "RecordGeneral"
  /\ UNCHANGED exited

\* The first call for an instruction.
CountTotalInst ==
  /\ pc = "CountTotalInst" /\ total < MaxInstr /\ ~exited
  /\ total' = total + 1
  /\ LET addr  == run[total + 1]
         count == IF addr \in Points THEN execount[addr] + 1 ELSE 0
     IN  /\ execount' = updateCounters(addr)
         /\ Finish \/ Record(addr, count)
  /\ requested' = 0
  /\ UNCHANGED config

\* n lines of the trace, the first with the instructions so far.  What is written
\* while no file is open is lost, and clears the count all the same.
Emit(n) ==
  /\ bbl_cnt' = IF record /\ n > 0 THEN 0 ELSE bbl_cnt
  /\ printed' = IF record /\ n > 0 /\ open THEN printed + bbl_cnt ELSE printed

\* The fetch of the instruction misses the instruction cache, or hits.
RecordInstructionFetch ==
  /\ pc = "RecordInstructionFetch"
  /\ \E n \in (IF Filtered THEN {0, 1} ELSE {1}) : Emit(n)
  /\ pc' = "RecordGeneral"
  /\ UNCHANGED <<config, slicing, requested>>

\* A memory operand: filtered, a line holds the read and the write-back it causes,
\* if any; unfiltered, there is a line for a read or a write.
RecordGeneral ==
  /\ pc = "RecordGeneral" /\ requested < MaxOps
  /\ \E n \in (IF Filtered THEN {0, 1} ELSE {1}) : Emit(n)
  /\ requested' = requested + 1
  /\ UNCHANGED <<config, slicing, pc>>

\* The instruction has no more operands.
NextInstruction ==
  /\ pc = "RecordGeneral"
  /\ pc' = "CountTotalInst"
  /\ UNCHANGED <<config, slicing, bbl_cnt, requested, printed>>

Next == CountTotalInst \/ RecordInstructionFetch \/ RecordGeneral \/ NextInstruction

Spec == Init /\ [][Next]_vars

\* The program goes on.
Fairness == WF_vars(Next)

-----------------------------------------------------------------------------
(***************************************************************************)
(* Properties.                                                             *)
(***************************************************************************)
TypeOK ==
  /\ total \in 0 .. MaxInstr /\ bbl_cnt \in 0 .. MaxInstr
  /\ execount \in [Points -> 0 .. MaxInstr]
  /\ slices \in Seq([address : Addr, execount : 1 .. MaxInstr])
  /\ control \in BOOLEAN /\ record \in BOOLEAN /\ open \in BOOLEAN /\ exited \in BOOLEAN
  /\ ~full_sim => recorded_instr_int \in 0 .. ISize
  /\ full_sim => recorded_instr_int \in 0 .. MaxInstr
  /\ requested \in 0 .. MaxOps

\* No slice is missed: as long as the slice in front has not started, its starting
\* point is still to come.  A start that coincides with the end of the slice before
\* it, or follows it at once, must be recognised: otherwise this slice and all
\* after it would never be recorded.
NoSliceMissed ==
  ~exited /\ ~control /\ slices # <<>> => execount[Head(slices).address] < Head(slices).execount

\* Where the slice in the open file starts.
Start == starts[Len(starts) - Len(slices) + 1]

\* The slice in the open file is the first, or it started later than the instruction
\* that ended the one before it, or than the instruction after that.
First == Len(slices) = Len(starts)
Apart(n) == First \/ Start > ended + n

\* A slice is recorded where SimPoint put it: the file of a slice is open only from
\* its start on, and the instructions in it are that many of the run from there.  When
\* checkLimits finds the count reached, the file holds as many as the count says, less
\* the instruction that ended the slice before, if that was not its own first one.
SliceInPlace ==
  ~full_sim /\ open =>
    /\ control
    /\ inFile = total - Start + 1
    /\ recorded_instr_int = IF Apart(0) /\ ~First THEN inFile + 1 ELSE inFile

\* The numbers in a file account for every instruction in it: those of its lines, and
\* the count so far, are its instructions.  They count instructions of the file before
\* it as well only if the slices follow each other at once, so that no instruction
\* outside the limits has cleared the count.
BubblesCounted ==
  open => /\ printed + bbl_cnt >= inFile
          /\ full_sim \/ Apart(1) => printed + bbl_cnt = inFile

\* The run of a program with slices ends at the last slice's end or with the
\* program; by then every slice was recorded that ended in the run.
AllRecorded ==
  exited \/ (total = MaxInstr /\ Cardinality({i \in DOMAIN starts : starts[i] + ISize <= MaxInstr})
                                   <= Len(starts) - Len(slices))

=============================================================================
