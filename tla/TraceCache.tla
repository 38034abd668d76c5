----------------------------- MODULE TraceCache -----------------------------
(***************************************************************************)
(* The caches that filter a generated trace (Cache.h and Cache.cpp of      *)
(* src/trace_generator/src, as gettrace.cpp links them): one chain of      *)
(* inclusive levels with LRU sets.  They differ from the caches of the     *)
(* processor model: nothing is fetched, so no line is ever locked, and an  *)
(* access runs through all levels at once and returns the requests that    *)
(* reach the memory.                                                       *)
(*                                                                         *)
(* The dirty bit that invalidate reads in a list node it has just freed is *)
(* still there: nothing allocated in between is of its size.               *)
(***************************************************************************)
EXTENDS SequencesExt

CONSTANTS
  Levels,            \* 1 is the first level, Levels the last
  Assoc, SetCount,   \* of each level
  Block,             \* addresses, as numbers of cache lines
  UnsetFlag          \* what is_last_level may hold where nothing set it

TraceCacheAssumption ==
  /\ Levels \in Nat \ {0} /\ UnsetFlag \subseteq BOOLEAN /\ UnsetFlag # {}
  /\ Assoc \in [1 .. Levels -> Nat \ {0}] /\ SetCount \in [1 .. Levels -> Nat \ {0}]

VARIABLES
  cache_lines,       \* level -> set -> lines, least recently used first
  is_last_level,     \* set for the last level, never initialised in the others
  reqList,           \* what the last access sent to the memory
  asserts,           \* whether the asserts held so far
  access,            \* ghost: the last access
  unwritten          \* ghost: blocks written and not sent to the memory since

vars == <<cache_lines, is_last_level, reqList, asserts, access, unwritten>>

-----------------------------------------------------------------------------
get_index(l, addr) == addr % SetCount[l]

\* c stands for cache_lines in the middle of an access.
get_lines(c, l, addr) == c[l][get_index(l, addr)]
At(c, l, addr)    == {i \in DOMAIN get_lines(c, l, addr) : get_lines(c, l, addr)[i].addr = addr}
Holds(c, l, addr) == At(c, l, addr) # {}
Line(c, l, addr)  == get_lines(c, l, addr)[CHOOSE i \in At(c, l, addr) : TRUE]

Erase(c, l, addr) ==
  [c EXCEPT ![l][get_index(l, addr)] = SelectSeq(@, LAMBDA line : line.addr # addr)]

Push(c, l, addr, dirty) ==
  [c EXCEPT ![l][get_index(l, addr)] = Append(@, [addr |-> addr, dirty |-> dirty])]

\* A line becomes the most recently used of its set.
Refresh(c, l, addr, dirty) == Push(Erase(c, l, addr), l, addr, dirty)

\* The levels above l that invalidate reaches: upwards until one lacks the line.
Above(c, l, addr) == {m \in 1 .. l - 1 : \A k \in m .. l - 1 : Holds(c, k, addr)}

\* invalidate, for all levels above l.
EraseAbove(c, l, addr) ==
  FoldSet(LAMBDA m, rest : Erase(rest, m, addr), c, Above(c, l, addr))

\* Mutant of Dirty: copies above are not looked at.
DirtyHere(c, l, addr) == Line(c, l, addr).dirty

\* A copy at this level or above is newer than those below.
Dirty(c, l, addr) == \E m \in Above(c, l, addr) \cup {l} : Line(c, m, addr).dirty

\* evict: the least recently used line of the set of addr leaves this level and
\* those above; a newer value goes to the next level, or to the memory.
Evict(x, l, addr) ==
  LET victim == get_lines(x.c, l, addr)[1].addr
      dirty  == Dirty(x.c, l, victim)
      c      == Erase(EraseAbove(x.c, l, victim), l, victim)
  IN  IF x.last[l]
        THEN [x EXCEPT !.c = c, !.reqs = IF dirty THEN Append(@, <<"WRITE", victim>>) ELSE @]
        ELSE IF Holds(c, l + 1, victim)
          THEN [x EXCEPT !.c = Refresh(c, l + 1, victim, dirty \/ Line(c, l + 1, victim).dirty)]
          ELSE [x EXCEPT !.asserts = FALSE]

\* allocate_line.  The lower levels are asked for a read.
Allocate(x, l, addr) ==
  LET y == IF Len(get_lines(x.c, l, addr)) < Assoc[l] THEN x ELSE Evict(x, l, addr)
  IN  [y EXCEPT !.c = Push(@, l, addr, x.type = "WRITE")]

\* send at one level; x.asking says that all levels above missed.
Send(x, l, addr) ==
  IF ~x.asking THEN x
  ELSE IF Holds(x.c, l, addr)
    THEN [x EXCEPT !.c = Refresh(@, l, addr, Line(@, l, addr).dirty \/ x.type = "WRITE"),
                   !.asking = FALSE]
    ELSE LET y == Allocate(x, l, addr)
         IN  IF x.last[l]
               THEN [y EXCEPT !.type = "READ", !.asking = FALSE, !.reqs = Append(@, <<"READ", addr>>)]
               ELSE [y EXCEPT !.type = "READ"]

-----------------------------------------------------------------------------
Init ==
  /\ cache_lines = [l \in 1 .. Levels |-> [i \in 0 .. SetCount[l] - 1 |-> <<>>]]
  /\ is_last_level \in [1 .. Levels -> BOOLEAN]
  /\ \A l \in 1 .. Levels - 1 : is_last_level[l] \in UnsetFlag
  /\ is_last_level[Levels]
  /\ reqList = <<>> /\ asserts = TRUE /\ access = <<>> /\ unwritten = {}

\* RecordGeneral's call of send on the first level.
Access(type, addr) ==
  LET x == FoldLeft(LAMBDA y, l : Send(y, l, addr),
                    [c |-> cache_lines, last |-> is_last_level, type |-> type,
                     asking |-> TRUE, reqs |-> <<>>, asserts |-> asserts],
                    [l \in 1 .. Levels |-> l])
      sent == {a \in Block : <<"WRITE", a>> \in ToSet(x.reqs)}
  IN
  /\ asserts
  /\ cache_lines' = x.c /\ reqList' = x.reqs /\ asserts' = x.asserts
  /\ access' = <<type, addr>>
  /\ unwritten' = (unwritten \ sent) \cup (IF type = "WRITE" THEN {addr} ELSE {})
  /\ UNCHANGED is_last_level

Next == \E type \in {"READ", "WRITE"}, addr \in Block : Access(type, addr)

Spec == Init /\ [][Next]_vars

-----------------------------------------------------------------------------
(***************************************************************************)
(* Properties.                                                             *)
(***************************************************************************)
LinesAt(l) == UNION {ToSet(cache_lines[l][i]) : i \in DOMAIN cache_lines[l]}

TypeOK ==
  /\ \A l \in 1 .. Levels : \A i \in DOMAIN cache_lines[l] :
       LET lines == cache_lines[l][i]
       IN  /\ Len(lines) <= Assoc[l] /\ lines \in Seq([addr : Block, dirty : BOOLEAN])
           /\ \A j, k \in DOMAIN lines : lines[j].addr = lines[k].addr => j = k
           /\ \A j \in DOMAIN lines : get_index(l, lines[j].addr) = i
  /\ reqList \in Seq({"READ", "WRITE"} \X Block) /\ asserts \in BOOLEAN

\* The levels stay inclusive, although a line is put in the upper level before the
\* lower one makes room for it: evictline's assert that the lower level has the
\* line holds, and every level holds what the level above does.
Inclusive ==
  /\ asserts
  /\ \A l \in 1 .. Levels - 1 :
       {line.addr : line \in LinesAt(l)} \subseteq {line.addr : line \in LinesAt(l + 1)}

\* A written block is dirty in some level until its write reaches the memory, and
\* only then is it clean everywhere: evictions hand the newest value down.
NoWriteLost == unwritten = UNION {{line.addr : line \in {x \in LinesAt(l) : x.dirty}} : l \in 1 .. Levels}

\* What RecordGeneral relies on when it keeps one read and one write of an access
\* and asserts "A write should be always with a read request": an access sends
\* nothing, its own read, or the write of another block followed by its read.
OneReadOneWrite ==
  \/ reqList = <<>>
  \/ reqList[Len(reqList)] = <<"READ", access[2]>>
     /\ \/ Len(reqList) = 1
        \/ Len(reqList) = 2 /\ reqList[1][1] = "WRITE" /\ reqList[1][2] # access[2]

\* "don't need to record it because it will be recorded at the LLC" (Cache.cpp:77):
\* an access is recorded only when the last level did not have the block, and then
\* the last level gets it.
RecordedAtLLC ==
  reqList' # <<>> => /\ ~Holds(cache_lines, Levels, access'[2])
                     /\ Holds(cache_lines', Levels, access'[2])

=============================================================================
