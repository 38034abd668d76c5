---------------------------- MODULE TraceDriver ----------------------------
(***************************************************************************)
(* The run modes of src/src/Main.cpp that drive the memory themselves: a   *)
(* trace of plain requests (dramtrace), and the two baselines that read a  *)
(* whole path of an ORAM tree and write it back for every request of the   *)
(* trace, Path ORAM (pathoramtrace) and Page ORAM (pagetrace), which takes *)
(* the sibling of a bucket along where both share a DRAM page.             *)
(*                                                                         *)
(* Every loop of these functions sends a request at most and ticks the     *)
(* memory once.  Of the memory, modelled in MemController, only the queues *)
(* are kept, of one channel: a tick serves requests of the queue whose     *)
(* turn it is, in any order, or none.                                      *)
(***************************************************************************)
EXTENDS SequencesExt, Integers

CONSTANTS
  Modes,             \* of "dram", "path", "page"
  TraceLength,       \* requests of the trace
  Addrs,             \* addresses of a plain trace
  Blocks,            \* total_num_blocks
  CachedLevels,      \* num_cached_lvls: levels kept on chip
  Bucket,            \* PBUCKET: slots of a bucket
  QueueMax,          \* of the controller: 32
  WrHigh, WrLow      \* int(0.8 * QueueMax) and int(0.2 * QueueMax)

TraceDriverAssumption ==
  /\ Modes \subseteq {"dram", "path", "page"} /\ TraceLength \in Nat
  /\ Blocks \in Nat \ {0, 1} /\ CachedLevels \in Nat /\ Bucket \in Nat \ {0}
  /\ QueueMax \in Nat \ {0} /\ WrHigh \in Nat /\ WrLow \in Nat

VARIABLES
  mode, phase,
  trace, line_num,              \* the trace file, and how many of its lines were read
  path,                         \* pathoram_addr_vec
  index,                        \* of the next slot to send
  readq, writeq,                \* queues of the controller, as sets of requests
  pending,                      \* reads that will be answered, in order
  write_mode,
  wr_high_watermark,            \* of writes in the queue
  sent,                         \* ghost: the requests the memory has taken, in order
  answered,                     \* ghost: the slots of the access whose reads were answered
  stored,                       \* ghost: the slots of the access that were written
  forwarded                     \* ghost: a read was answered from the write queue

queues == <<readq, writeq, pending, write_mode, sent, answered, stored, forwarded>>
vars == <<mode, phase, trace, line_num, path, index, wr_high_watermark, queues>>

-----------------------------------------------------------------------------
(* The tree.                                                               *)

max_num_levels == (CHOOSE k \in 0 .. Blocks : 2 ^ k >= Blocks /\ (k = 0 \/ 2 ^ (k - 1) < Blocks)) + 1

P(leaf, lvl) == 2 ^ lvl - 1 + leaf \div 2 ^ (max_num_levels - 1 - lvl)

SlotsOf(node) == [j \in 1 .. Bucket |-> node * Bucket + j - 1]

Sibling(node) == IF node % 2 = 0 THEN node - 1 ELSE node + 1

\* The slots of an access.  Page ORAM takes siblings along at odd levels.
PathOf(leaf) ==
  FoldLeft(LAMBDA slots, lvl :
             slots \o SlotsOf(P(leaf, lvl))
                   \o (IF mode = "page" /\ lvl % 2 = 1 THEN SlotsOf(Sibling(P(leaf, lvl))) ELSE <<>>),
           <<>>, [i \in 1 .. max_num_levels - CachedLevels |-> CachedLevels + i - 1])

-----------------------------------------------------------------------------
(* The memory.                                                             *)

Request(type, addr) == [id |-> Len(sent) + 1, type |-> type, addr |-> addr]

\* Mutant of pending_requests: reads served but not answered are left out.
pending_in_queues == Cardinality(readq) + Cardinality(writeq)

pending_requests == Cardinality(readq) + Cardinality(writeq) + Len(pending)

Full(type) == Cardinality(IF type = "READ" THEN readq ELSE writeq) = QueueMax

\* The queues once send has been called, unchanged if it refuses.  A read of an
\* address that waits to be written is answered at once.
Queued(type, addr) ==
  LET req == Request(type, addr)
  IN  IF Full(type) THEN [r |-> readq, w |-> writeq, p |-> pending]
      ELSE IF type = "WRITE" THEN [r |-> readq, w |-> writeq \cup {req}, p |-> pending]
      ELSE IF \E q \in writeq : q.addr = addr
        THEN [r |-> readq, w |-> writeq, p |-> Append(pending, req)]
        ELSE [r |-> readq \cup {req}, w |-> writeq, p |-> pending]

Unqueued == [r |-> readq, w |-> writeq, p |-> pending]

NextMode(q) ==
  IF write_mode THEN ~(Cardinality(q.w) < WrLow /\ q.r # {})
                ELSE Cardinality(q.w) > wr_high_watermark \/ q.r = {}

\* tick: the first answer may be due, and a request of the queue whose turn it is
\* may be served.  An eager tick does something if there is something to do.
Tick(q, eager) ==
  LET turn == IF NextMode(q) THEN q.w ELSE q.r
  IN
  \E due \in {n \in 0 .. 1 : n <= Len(q.p)}, served \in {{}} \cup {{req} : req \in turn} :
    /\ eager => due = 1 \/ served # {} \/ (q.p = <<>> /\ turn = {})
    /\ readq' = q.r \ served /\ writeq' = q.w \ served
    /\ pending' = SubSeq(q.p, due + 1, Len(q.p)) \o SetToSeq(served \cap q.r)
    /\ write_mode' = NextMode(q)
    /\ answered' = IF due = 1 THEN answered \cup {Head(q.p).addr} ELSE answered
    /\ stored' = stored \cup {req.addr : req \in served \cap q.w}

-----------------------------------------------------------------------------
Init ==
  /\ mode \in Modes /\ phase = "next"
  /\ trace \in IF mode = "dram" THEN [1 .. TraceLength -> {"READ", "WRITE"} \X Addrs]
                                ELSE {[n \in 1 .. TraceLength |-> <<"READ", 0>>]}
  /\ line_num = 0 /\ path = <<>> /\ index = 1
  /\ readq = {} /\ writeq = {} /\ pending = <<>> /\ write_mode = FALSE
  /\ wr_high_watermark = WrHigh
  /\ sent = <<>> /\ answered = {} /\ stored = {} /\ forwarded = FALSE

\* get_dramtrace_request.  The baselines ignore what the request is and take a
\* random path.  At the end of the trace, the memory is ticked as long as it has
\* requests.
NextRequest ==
  /\ phase = "next"
  /\ \/ /\ line_num = TraceLength
        /\ phase' = "drain" /\ wr_high_watermark' = 0
        /\ UNCHANGED <<line_num, path, answered, stored>>
     \/ /\ line_num < TraceLength
        /\ line_num' = line_num + 1
        /\ LET request == trace[line_num + 1]
           IN  IF mode = "dram" THEN phase' = request[1] /\ path' = <<request[2]>>
                 ELSE phase' = "READ" /\ \E leaf \in 0 .. Blocks - 1 : path' = PathOf(leaf)
        /\ answered' = {} /\ stored' = {}
        /\ UNCHANGED wr_high_watermark
  /\ index' = 1
  /\ UNCHANGED <<mode, trace, readq, writeq, pending, write_mode, sent, forwarded>>

Taken(type) == ~Full(type)

\* The phase after a loop that has sent all its requests.
AfterSending == IF mode = "dram" THEN "next" ELSE IF phase = "READ" THEN "drain reads" ELSE "drain writes"

\* A pass through a loop that sends, again and again until it is taken.
Send(eager) ==
  /\ phase \in {"READ", "WRITE"}
  /\ LET addr == path[index]
         last == index = Len(path)
     IN  /\ Tick(Queued(phase, addr), eager)
         /\ sent' = IF Full(phase) THEN sent ELSE Append(sent, <<phase, addr>>)
         /\ forwarded' = (forwarded \/ (phase = "READ" /\ ~Full(phase) /\ \E q \in writeq : q.addr = addr))
         /\ index' = IF Taken(phase) THEN index + 1 ELSE index
         /\ phase' = IF last /\ Taken(phase) THEN AfterSending ELSE phase
         /\ wr_high_watermark' = IF last /\ Taken(phase) /\ mode # "dram" THEN 0 ELSE wr_high_watermark
  /\ UNCHANGED <<mode, trace, line_num, path>>

\* A pass through a loop that waits for the memory, or its end.
Drain(eager) ==
  /\ phase \in {"drain reads", "drain writes", "drain"}
  /\ \/ /\ pending_requests > 0
        /\ Tick(Unqueued, eager)
        /\ UNCHANGED <<phase, index, wr_high_watermark>>
     \/ /\ pending_requests = 0
        /\ phase' = CASE phase = "drain reads"  -> "WRITE"
                      [] phase = "drain writes" -> "next"
                      [] phase = "drain"        -> "done"
        /\ index' = 1
        /\ wr_high_watermark' = IF phase = "drain" THEN 0 ELSE WrHigh
        /\ UNCHANGED <<readq, writeq, pending, write_mode, answered, stored>>
  /\ UNCHANGED <<mode, trace, line_num, path, sent, forwarded>>

Step(eager) == NextRequest \/ Send(eager) \/ Drain(eager)

Next == \E eager \in BOOLEAN : Step(eager)

Spec == Init /\ [][Next]_vars

\* The memory serves what it is given in the end.
Fairness == WF_vars(Step(TRUE))

-----------------------------------------------------------------------------
(***************************************************************************)
(* Properties.                                                             *)
(***************************************************************************)
Requests == [id : 1 .. Len(sent), type : {"READ", "WRITE"}, addr : Nat]

TypeOK ==
  /\ readq \subseteq Requests /\ writeq \subseteq Requests /\ ToSet(pending) \subseteq Requests
  /\ Cardinality(readq) <= QueueMax /\ Cardinality(writeq) <= QueueMax
  /\ index \in 1 .. Len(path) + 1
  /\ wr_high_watermark \in {0, WrHigh} /\ write_mode \in BOOLEAN

\* A path is written back only when all of it was read: while a baseline sends or
\* drains writes, every read of the access has been answered.
ReadsBeforeWrites ==
  mode # "dram" /\ phase \in {"WRITE", "drain writes"} => ToSet(path) \subseteq answered

\* An access writes what it read, no slot twice, before the next one begins; so no
\* read is ever answered from the write queue.
WrittenBack ==
  mode # "dram" /\ phase = "drain writes" /\ phase' = "next" =>
    /\ stored = ToSet(path)
    /\ LET last == SubSeq(sent, Len(sent) - Len(path) + 1, Len(sent))
       IN  last = [n \in DOMAIN path |-> <<"WRITE", path[n]>>]

\* No read of a baseline is answered from the write queue.
AlwaysFromDram == mode # "dram" => ~forwarded

AtOddLevel(node) == \E lvl \in 0 .. max_num_levels : lvl % 2 = 1 /\ node + 1 \in 2 ^ lvl .. 2 ^ (lvl + 1) - 1

\* The slots of an access are distinct and their buckets go from the first level off
\* the chip down to a leaf; those of Page ORAM at odd levels are the two children of
\* one node, which is what shares a page, and no other buckets are read.
PathIsSound ==
  mode # "dram" /\ path # <<>> =>
    LET nodes == {slot \div Bucket : slot \in ToSet(path)}
        pairs == {lvl \in CachedLevels .. max_num_levels - 1 : lvl % 2 = 1}
    IN  /\ IsInjective(path)
        /\ \A n \in nodes : n + 1 >= 2 ^ (CachedLevels + 1) => (n - 1) \div 2 \in nodes
        /\ mode = "page" => \A n \in nodes : AtOddLevel(n) =>
             LET parent == (n - 1) \div 2 IN {2 * parent + 1, 2 * parent + 2} \subseteq nodes
        /\ Cardinality(nodes) = max_num_levels - CachedLevels + (IF mode = "page" THEN Cardinality(pairs) ELSE 0)

\* A plain trace reaches the memory in its order, each request once, whatever the
\* queues refuse.
TraceInOrder ==
  mode = "dram" => /\ Len(sent) \in {line_num - 1, line_num} /\ sent = SubSeq(trace, 1, Len(sent))
                   /\ phase \in {"next", "drain", "done"} => Len(sent) = line_num

\* The run has ended, with nothing left in the memory.
Ended == phase = "done" /\ readq = {} /\ writeq = {} /\ pending = <<>>

=============================================================================
