-------------------------- MODULE TraceDependencies --------------------------
(***************************************************************************)
(* The trace with data dependencies (mode datadep of gettrace.cpp in       *)
(* src/trace_generator/src).  Every line gets a number of a window that    *)
(* wraps around; a map remembers which line wrote each register last.  An  *)
(* instruction prints a READ or WRITE line for every request it sends to   *)
(* the memory, with the lines its address depends on, and then a COMP line *)
(* with what else it depends on.                                           *)
(*                                                                         *)
(* Pin calls the routines of an instruction in the order in which they     *)
(* were inserted, those of memory operands and of written registers only   *)
(* if its predicate holds.  Which instructions are recorded is up to       *)
(* TraceSlices, which requests reach the memory up to TraceCache.          *)
(***************************************************************************)
EXTENDS SequencesExt

CONSTANTS
  Window,      \* the sequence numbers: 128 in the code
  Regs,
  Instrs,      \* static instructions: [ops, rregs, wregs]
  MaxLines,    \* printed
  Filtered,    \* the data caches are on
  FullSim,     \* the whole program is recorded
  Symbolic     \* slices start in shared libraries

TraceDependenciesAssumption ==
  /\ Window \in Nat \ {0} /\ MaxLines \in Nat
  /\ \A i \in Instrs : /\ i.rregs \subseteq Regs /\ i.wregs \subseteq Regs
                       /\ \A n \in DOMAIN i.ops : i.ops[n].regs \subseteq i.rregs

VARIABLES
  seq_number,                    \* of the next line
  dependency,                    \* register -> line (a partial function)
  compRRegs,                     \* registers of the instructions since the last COMP line
  mem_filtered, mem2_filtered,   \* no request of the first, of a later operand was sent
  record,
  instr,                         \* the current instruction
  todo,                          \* the calls still to be made for it
  lines,                         \* ghost: lines printed since the window was reset
  writer,                        \* ghost: the line that wrote a register last, not wrapped
  own,                           \* ghost: the lines of the current instruction
  fresh                          \* ghost: the slice has no line yet

vars == <<seq_number, dependency, compRRegs, mem_filtered, mem2_filtered, record, instr, todo,
          lines, writer, own, fresh>>

Nobody == -1

-----------------------------------------------------------------------------
Init ==
  /\ seq_number = 0 /\ dependency = <<>> /\ compRRegs = {}
  /\ mem_filtered = TRUE /\ mem2_filtered = TRUE
  /\ record = FALSE
  /\ instr \in Instrs /\ todo = <<>>
  /\ lines = 0 /\ writer = [r \in Regs |-> Nobody] /\ own = <<>>
  /\ fresh = TRUE

\* A call: its routine, and for RecordGeneral the operand and whether it is a write.
Call(routine) == [routine |-> routine, op |-> 0, isWrite |-> FALSE]

\* Instruction: the calls inserted for an instruction.
Calls(i, predicate) ==
  LET operand(n) == (IF i.ops[n].isRead
                       THEN <<[routine |-> "RecordGeneral", op |-> n, isWrite |-> FALSE]>> ELSE <<>>)
                    \o (IF i.ops[n].isWritten
                          THEN <<[routine |-> "RecordGeneral", op |-> n, isWrite |-> TRUE]>> ELSE <<>>)
      operands == FoldLeft(LAMBDA calls, n : calls \o operand(n), <<>>, [n \in DOMAIN i.ops |-> n])
  IN  <<Call("RecordInstructionFetch")>>
      \o (IF predicate THEN operands ELSE <<>>)
      \o <<Call("UpdateCompRegs"), Call("RecordComp")>>
      \o (IF predicate THEN <<Call("UpdateRegisterMap")>> ELSE <<>>)

\* resetDependencyWindow, which only a slice that starts in a shared library calls.
Reset ==
  IF Symbolic
    THEN dependency' = <<>> /\ seq_number' = 0 /\ lines' = 0 /\ writer' = [r \in Regs |-> Nobody]
    ELSE UNCHANGED <<dependency, seq_number, lines, writer>>

\* CountTotalInst: the next instruction; starting says that a slice starts with it.
CountTotalInst(i, predicate, recording, starting) ==
  /\ todo = <<>>
  /\ FullSim => recording /\ ~starting
  /\ starting => recording
  /\ ~FullSim /\ recording => record \/ starting
  /\ record' = recording
  /\ instr' = i /\ todo' = Calls(i, predicate) /\ own' = <<>>
  /\ mem_filtered' = TRUE /\ mem2_filtered' = TRUE
  /\ IF starting THEN Reset ELSE UNCHANGED <<dependency, seq_number, lines, writer>>
  /\ fresh' = (fresh \/ starting)
  /\ UNCHANGED compRRegs

-----------------------------------------------------------------------------
Before(n) == seq_number - n   \* an unsigned difference: below 0, no line's number

\* getDep: as an int, the number below 0 is the -1 that stands for none.
getDep(r) == IF r \in DOMAIN dependency /\ dependency[r] # Nobody THEN {dependency[r]} ELSE {}

\* removeOld, before number s is used again: the maps it may leave.  The loop advances
\* an iterator it has just erased, which is undefined: it may find the others with that
\* number, or leave some behind; or the tool crashes, and nothing more is printed.
removeOld(dep, s) ==
  LET old == {r \in DOMAIN dep : dep[r] = s}
  IN  IF old = {} THEN {dep}
      ELSE {Restrict(dep, DOMAIN dep \ gone) : gone \in SUBSET old \ {{}}}

updateSeqNumber(s) == (s + 1) % Window

\* The lines of a call: each makes its number free before it is printed.
OneLine(kind, deps, maps) ==
  /\ dependency' \in maps
  /\ own' = Append(own, [seq |-> seq_number, kind |-> kind, deps |-> deps])
  /\ seq_number' = updateSeqNumber(seq_number)
  /\ lines' = lines + 1 /\ fresh' = FALSE

ReadAndWrite(deps) ==
  LET s == updateSeqNumber(seq_number)
  IN  /\ \E dep \in removeOld(dependency, seq_number) : dependency' \in removeOld(dep, s)
      /\ own' = own \o <<[seq |-> seq_number, kind |-> "READ", deps |-> deps],
                         [seq |-> s, kind |-> "WRITE", deps |-> {s - 1}]>>
      /\ seq_number' = updateSeqNumber(s)
      /\ lines' = lines + 2 /\ fresh' = FALSE

NoLine == UNCHANGED <<dependency, own, seq_number, lines, fresh>>

Calling(routine) ==
  /\ todo # <<>> /\ Head(todo).routine = routine
  /\ todo' = Tail(todo) /\ lines < MaxLines
  /\ UNCHANGED <<record, instr>>

\* The fetch of the instruction misses its cache, or hits.
RecordInstructionFetch ==
  /\ Calling("RecordInstructionFetch")
  /\ (record /\ OneLine("READ", {}, removeOld(dependency, seq_number))) \/ NoLine
  /\ UNCHANGED <<compRRegs, mem_filtered, mem2_filtered, writer>>

\* A request of an operand was sent: of the first, or of another one.
Sent(op) ==
  /\ mem_filtered' = (mem_filtered /\ op # 1)
  /\ mem2_filtered' = (mem2_filtered /\ op = 1)

\* A memory operand whose access hits in the caches ...
RecordGeneralHit ==
  /\ Calling("RecordGeneral") /\ Filtered
  /\ NoLine
  /\ UNCHANGED <<compRRegs, mem_filtered, mem2_filtered, writer>>

\* ... or sends a read, perhaps with the write of a block it evicts.  Without
\* caches a write is sent itself; its line names the one before it.
RecordGeneral ==
  /\ Calling("RecordGeneral")
  /\ LET call == Head(todo)
         deps == UNION {getDep(r) : r \in instr.ops[call.op].regs}
         maps == removeOld(dependency, seq_number)
     IN  \/ record /\ Sent(call.op) /\ (Filtered \/ ~call.isWrite) /\ OneLine("READ", deps, maps)
         \/ record /\ Sent(call.op) /\ Filtered /\ ReadAndWrite(deps)
         \/ record /\ Sent(call.op) /\ ~Filtered /\ call.isWrite
              /\ OneLine("WRITE", {Before(1)}, maps)
         \/ ~record /\ NoLine /\ UNCHANGED <<mem_filtered, mem2_filtered>>
  /\ UNCHANGED <<compRRegs, writer>>

UpdateCompRegs ==
  /\ Calling("UpdateCompRegs")
  /\ compRRegs' = compRRegs \cup instr.rregs \cup instr.wregs
  /\ UNCHANGED <<mem_filtered, mem2_filtered, writer>> /\ NoLine

\* The registers that lines of the memory operands already name.
Covered ==
  {r \in Regs : \/ ~mem_filtered /\ Len(instr.ops) >= 1 /\ r \in instr.ops[1].regs
                \/ ~mem2_filtered /\ Len(instr.ops) >= 2 /\ r \in instr.ops[2].regs}

\* The lines of the memory operands are taken to be the last one, or two.
OfOperands ==
  (IF mem_filtered /\ mem2_filtered THEN {} ELSE {Before(1)})
  \cup (IF mem_filtered \/ mem2_filtered THEN {} ELSE {Before(2)})

\* The COMP line names them and the lines of all other registers still in the map.
RecordComp ==
  /\ Calling("RecordComp")
  /\ \/ /\ record
        /\ \E dep \in removeOld(dependency, seq_number) :
             OneLine("COMP", OfOperands \cup UNION {getDep(r) : r \in
                                (compRRegs \ Covered) \cap DOMAIN dep}, {dep})
        /\ compRRegs' = {}
     \/ ~record /\ NoLine /\ UNCHANGED compRRegs
  /\ UNCHANGED <<mem_filtered, mem2_filtered, writer>>

\* Mutant of insertDependency: the register's entry is not erased first, and
\* map::insert leaves an entry as it is.
insertDependencyKeeping(regs) == dependency @@ [r \in regs |-> Before(1)]

insertDependency(regs) == [r \in regs |-> Before(1)] @@ dependency

\* UpdateRegisterMap for every register the instruction writes; its line is the last
\* one printed.
UpdateRegisterMap ==
  /\ Calling("UpdateRegisterMap")
  /\ dependency' = insertDependency(instr.wregs)
  /\ writer' = [r \in instr.wregs |-> IF record THEN lines - 1 ELSE Nobody] @@ writer
  /\ UNCHANGED <<seq_number, compRRegs, mem_filtered, mem2_filtered, lines, own, fresh>>

Next ==
  \/ \E i \in Instrs, predicate, recording, starting \in BOOLEAN :
       CountTotalInst(i, predicate, recording, starting)
  \/ RecordInstructionFetch
  \/ RecordGeneralHit
  \/ RecordGeneral
  \/ UpdateCompRegs
  \/ RecordComp
  \/ UpdateRegisterMap

Spec == Init /\ [][Next]_vars

-----------------------------------------------------------------------------
TypeOK ==
  /\ seq_number \in 0 .. Window - 1
  /\ DOMAIN dependency \subseteq Regs
  /\ \A r \in DOMAIN dependency : dependency[r] \in -1 .. Window - 1
  /\ compRRegs \subseteq Regs
  /\ lines \in 0 .. MaxLines + 1 /\ \A r \in Regs : writer[r] \in -1 .. lines - 1

\* A register's last writer is so recent that its number is no other line's yet.
InWindow(r) == writer[r] # Nobody /\ lines - writer[r] <= Window

\* An entry of the map is the number of the line that wrote the register last, or for
\* the line before number 0 is used again the number that getDep reads as none; and no
\* entry is lost while the number is that line's.  Registers that the slice has not
\* written have none.
DependencyIsLastWriter ==
  record => \A r \in Regs :
    /\ r \in DOMAIN dependency => /\ writer[r] # Nobody
                                  /\ dependency[r] = IF (writer[r] + 1) % Window = 0
                                                       THEN Nobody ELSE writer[r] % Window
    /\ InWindow(r) => r \in DOMAIN dependency

\* The instruction's COMP line is printed.
Printed == own # <<>> /\ Last(own).kind = "COMP" /\ todo # <<>>

\* One of its lines names what the map says of the register.
Named(r) == getDep(r) # {} => \E n \in DOMAIN own : getDep(r) \subseteq own[n].deps

\* Without caches a store prints a line that names the line before it, and not what
\* its address depends on.
StoredThrough(r) ==
  ~Filtered /\ \E n \in DOMAIN instr.ops :
                 r \in instr.ops[n].regs /\ instr.ops[n].isWritten /\ ~instr.ops[n].isRead

\* When the COMP line is printed, every register the instruction reads or writes that
\* has a line in the map has it named by one of the instruction's lines: what
\* getCompDependency skips ("except the ones used in memory accesses",
\* gettrace.cpp:684) a line of a memory operand has named, but for a store's address
\* without caches.
InstructionDependsOnWriters ==
  Printed => \A r \in instr.rregs \cup instr.wregs : Named(r) \/ StoredThrough(r)

\* A line names numbers of the window ("a sequence number is a number from 0 to 127",
\* README.md:119); but the line or the two just before it, which
\* it finds by subtracting, it names by a number below 0 if the window began again
\* after them.
NumbersInWindow ==
  \A n \in DOMAIN own : \A d \in own[n].deps :
    d \in 0 .. Window - 1 \/ (own[n].seq < 2 /\ d + 2 \in own[n].seq .. 1)

\* "between traces we should reset the window" (gettrace.cpp:242): what a slice finds
\* when it starts is an empty window.
WindowIsReset == record /\ fresh => dependency = <<>> /\ seq_number = 0

=============================================================================
