--------------------------- MODULE MemController ----------------------------
(***************************************************************************)
(* The controller of one memory channel (Controller.h, Controller.cpp,     *)
(* Scheduler.h, and tick_ref of Refresh.h): its queues, the scheduling of  *)
(* one command per tick, the row table, write mode, and the queue of reads *)
(* whose data is on its way.  The nodes of the channel are those of Dram;  *)
(* their clocks are abstracted to the set of commands the timing lets      *)
(* through in a tick, so what holds here holds for the timing of any       *)
(* standard.                                                               *)
(***************************************************************************)
EXTENDS Dram

CONSTANTS Std,                  \* the memory standard
          Address,              \* the rows requests go to
          Columns,              \* the columns of a row
          MaxEvents,            \* requests sent and refresh intervals that elapse
          MaxRefreshes,         \* of them refreshes
          QueueMax,             \* Queue::max of the read and write queues
          WrHigh, WrLow,        \* the watermarks of write mode, in requests
          Cap,                  \* row hits in a row before others go first
          Schedulers, Policies  \* the scheduling and the row policies to try

ASSUME WatermarkAssumption ==
  {QueueMax, WrHigh, WrLow} \subseteq Nat /\ 0 < WrLow /\ WrLow <= WrHigh /\ WrHigh < QueueMax
ASSUME SchedulerAssumption ==
  Schedulers \subseteq {"FCFS", "FRFCFS", "FRFCFS_Cap", "FRFCFS_PriorHit"}

VARIABLES scheduler, rowpolicy,          \* the policies, fixed at compile time
          rank,                          \* the nodes of the channel's rank
          table, hits,                   \* the row table and its hit counts
          readq, writeq, actq, otherq,   \* sets of requests
          pending,                       \* reads that will be answered, in order
          write_mode,
          serving,                       \* DRAM::cur_serving_requests
          sent, refreshed,               \* how many requests, and refreshes
          answered,                      \* the reads that were answered
          asserts                        \* no assertion has failed
nodes == <<rank, table, hits>>
vars == <<scheduler, rowpolicy, nodes, readq, writeq, actq, otherq, pending, write_mode,
          serving, sent, refreshed, answered, asserts>>

WholeRank == [rank |-> 0, bank |-> NoBank, sub |-> -1, row |-> -1]
NoRequest == [id |-> 0, type |-> "NONE", a |-> WholeRank, col |-> 0, first |-> FALSE,
              forwarded |-> FALSE]

Init ==
  /\ scheduler \in Schedulers /\ rowpolicy \in Policies
  /\ rank = NewRank(Std, {a.bank : a \in Address}, {a.sub : a \in Address})
  /\ table = {} /\ hits = [a \in Address |-> 0]
  /\ readq = {} /\ writeq = {} /\ actq = {} /\ otherq = {} /\ pending = <<>>
  /\ write_mode = FALSE
  /\ serving = 0 /\ sent = 0 /\ refreshed = 0 /\ answered = {} /\ asserts = TRUE

-----------------------------------------------------------------------------
(* Requests, numbered in the order in which they arrive.                   *)

NewRequest(type, a, col) ==
  [NoRequest EXCEPT !.id = sent + refreshed + 1, !.type = type, !.a = a, !.col = col,
                    !.first = TRUE]

Queued == readq \cup writeq \cup actq \cup otherq
Ids(q) == {r.id : r \in q}

SameAddress(x, y) == x.a = y.a /\ x.col = y.col

\* Mutant of enqueue: a read does not look for its address among the writes.
enqueueUnforwarded(req) ==
  \/ /\ req.type = "WRITE" /\ Cardinality(writeq) # QueueMax
     /\ writeq' = writeq \cup {req}
     /\ UNCHANGED <<readq, pending>>
  \/ /\ req.type = "READ" /\ Cardinality(readq) # QueueMax
     /\ readq' = readq \cup {req}
     /\ UNCHANGED <<writeq, pending>>

\* A request is refused when its queue is full.  A read of an address in the
\* write queue is answered from there.
enqueue(req) ==
  \/ /\ req.type = "WRITE" /\ Cardinality(writeq) # QueueMax
     /\ writeq' = writeq \cup {req}
     /\ UNCHANGED <<readq, pending>>
  \/ /\ req.type = "READ" /\ Cardinality(readq) # QueueMax
     /\ IF \E w \in writeq : SameAddress(w, req)
          THEN pending' = Append(pending, [req EXCEPT !.forwarded = TRUE]) /\ UNCHANGED readq
          ELSE readq' = readq \cup {req} /\ UNCHANGED pending
     /\ UNCHANGED writeq

Send ==
  /\ sent + refreshed < MaxEvents
  /\ \E type \in {"READ", "WRITE"}, a \in Address, col \in Columns :
       enqueue(NewRequest(type, a, col))
  /\ sent' = sent + 1
  /\ UNCHANGED <<scheduler, rowpolicy, nodes, actq, otherq, write_mode, serving, refreshed,
                 answered, asserts>>

-----------------------------------------------------------------------------
(* What a request needs of the channel.                                    *)

translate(type) == Table[Std].translate[type]

get_first_cmd(req) == decode(Std, translate(req.type), rank, req.a)

get_addr_vec(cmd, a) ==
  IF cmd # "PRE_OTHER" THEN a
    ELSE IF Std = "SALP_1" THEN S1!get_offending_subarray(rank, a)
                           ELSE S2!get_offending_subarray(rank, a)

is_row_hit(req) == check_row_hit(Std, translate(req.type), rank, req.a)
is_row_open(req) == check_row_open(Std, translate(req.type), rank, req.a)

get_hits(a) ==
  IF \E e \in table : SameGroup(e, a) /\ e.row = a.row
    THEN hits[CHOOSE e \in table : SameGroup(e, a)] ELSE 0

-----------------------------------------------------------------------------
(* The schedulers.  ready is the set of commands, each with where it goes, *)
(* that the timing lets through in this tick.  get_head yields a request   *)
(* of the queue, or none.                                                  *)

\* The command that each request needs first, and where it goes.  The tick looks
\* PRE_OTHER up at the request's own address; its gaps are those of the bank, so
\* the answer is that for the subarray it goes to.
Needs(requests) ==
  LET To(cmd, req) == <<cmd, get_addr_vec(cmd, req.a)>>
  IN  [req \in requests |-> To(get_first_cmd(req), req)]

is_ready(req, needs, ready) == needs[req] \in ready

Oldest(requests) == CHOOSE r \in requests : \A x \in requests : r.id <= x.id
Preferring(some, q) == IF some # {} THEN Oldest(some) ELSE Oldest(q)

\* What a PRE to the row of one would close, the other loses too.
SameScope(x, y) == IF Table[Std].scope["PRE"] = "SubArray"
                     THEN SameGroup(x.a, y.a) ELSE SameBank(x.a, y.a)

PriorHit(q, Ready, Hits) ==
  LET Harmless == {r \in q : r \in Hits \/ ~is_row_open(r) \/ \A h \in Hits : ~SameScope(h, r)}
  IN  CASE Ready \cap Hits # {} -> {Oldest(Ready \cap Hits)}
        [] Ready \cap Hits = {} /\ Harmless = {} -> {}
        [] OTHER -> {Preferring(Ready \cap Harmless, Harmless)}

get_head(q, needs, ready) ==
  LET Ready == {r \in q : is_ready(r, needs, ready)}
      Capped == {r \in Ready : get_hits(r.a) <= Cap}
  IN  CASE q = {} -> {}
        [] q # {} /\ scheduler = "FCFS" -> {Oldest(q)}
        [] q # {} /\ scheduler = "FRFCFS" -> {Preferring(Ready, q)}
        [] q # {} /\ scheduler = "FRFCFS_Cap" -> {Preferring(Capped, q)}
        [] q # {} /\ scheduler = "FRFCFS_PriorHit" -> PriorHit(q, Ready, {r \in q : is_row_hit(r)})

HasActq == Std # "TLDRAM"

\* The request to serve in this tick: one being activated, or else one of the
\* other queue, or else one of the queue of the mode.
Chosen(mode, others, needs, ready) ==
  LET servable(q) == {r \in get_head(q, needs, ready) : is_ready(r, needs, ready)}
      queue == CASE others # {} -> others [] others = {} /\ mode -> writeq [] OTHER -> readq
      Or(active) == IF active # {} THEN active ELSE servable(queue)
  IN  Or(IF HasActq THEN servable(actq) ELSE {})

\* Mutant of NextMode: it never ends.
NextModeStays == write_mode \/ Cardinality(writeq) > WrHigh \/ readq = {}

\* Write mode starts when many writes wait or no read does, and ends when few
\* writes wait and some read does.  TL-DRAM's own tick never starts it for
\* want of reads.
NextMode ==
  LET writes == Cardinality(writeq)
      few == IF HasActq THEN writes < WrLow ELSE writes <= WrLow
  IN  IF write_mode THEN ~(few /\ readq # {})
        ELSE IF HasActq THEN writes > WrHigh \/ readq = {} ELSE writes >= WrHigh

-----------------------------------------------------------------------------
(* Issuing a command.                                                      *)

\* With auto-precharge, an access closes its row when it is the only request
\* of its queue that hits it, or, when none of the queue does, of actq.
hitting(q, a) == {r \in q : is_row_hit(r) /\ SameGroup(r.a, a) /\ r.a.row = a.row}

num_row_hits(mode, a) ==
  LET Or(queued) == Cardinality(IF queued # {} THEN queued ELSE hitting(actq, a))
  IN  Or(hitting(IF mode THEN writeq ELSE readq, a))

Counted(mode, cmd, a) ==
  rowpolicy = "ClosedAP" /\ cmd \in Table[Std].accessing => num_row_hits(mode, a) > 0

cmd_issue_autoprecharge(mode, cmd, a) ==
  IF /\ HasActq /\ rowpolicy = "ClosedAP" /\ cmd \in Table[Std].accessing
     /\ num_row_hits(mode, a) = 1
    THEN CASE cmd = "RD" -> "RDA" [] cmd = "WR" -> "WRA" [] OTHER -> Fails
    ELSE cmd

\* The command is issued; the assertions are that the timing allows it where it
\* goes, that an access was counted among the hits of its row, and RowTable's.
issue_cmd(mode, first, a, ready) ==
  LET entry == CHOOSE e \in table : SameGroup(e, a)
  IN  \E cmd \in {cmd_issue_autoprecharge(mode, first, a)} :
      /\ rank' = update_state(Std, cmd, rank, a)
      /\ table' = RowTable(Std, cmd, table, a)
      /\ hits' = CASE cmd \in Table[Std].opening /\ a \notin table -> [hits EXCEPT ![a] = 0]
                   [] cmd \in Table[Std].accessing ->
                        [hits EXCEPT ![entry] = IF @ > Cap THEN @ ELSE @ + 1]
                   [] OTHER -> hits
      /\ asserts' = /\ asserts
                    /\ <<first, a>> \in ready
                    /\ Counted(mode, first, a)
                    /\ RowTableAsserts(Std, cmd, table, a)

\* The row the policy closes when nothing else can be issued: the first of the
\* row table that is ready, or that is also old enough.
get_victim(ready) ==
  IF rowpolicy = "Opened" THEN {} ELSE {e \in table : <<"PRE", e>> \in ready}
SpeculativePrecharge(mode, ready) ==
  \/ \E e \in get_victim(ready) : issue_cmd(mode, "PRE", e, ready)
  \/ /\ get_victim(ready) = {} \/ rowpolicy = "Timeout"
     /\ UNCHANGED <<nodes, asserts>>

\* A mutant of Without: the request stays in its queue.
WithoutNone(q, req) == q

Without(q, req) == {r \in q : r.id # req.id}

\* The chosen request gets its next command.  It moves to actq when that opens
\* its row, and leaves its queue when that is the command it asked for.  A read
\* of TL-DRAM becomes an extension, which leaves the row open in the near part.
Serve(mode, chosen, others, reads, left, ready) ==
  LET req == [chosen EXCEPT !.first = FALSE,
                            !.type = IF ~HasActq /\ @ = "READ" THEN "EXTENSION" ELSE @]
      started == IF chosen.first /\ chosen.type \in {"READ", "WRITE"} THEN 1 ELSE 0
  IN  \E cmd \in {get_first_cmd(req)} :
      LET done == cmd = translate(req.type)
          opens == HasActq /\ ~done /\ cmd \in Table[Std].opening
          moved(q) == IF chosen \notin q THEN q
                        ELSE Without(q, chosen) \cup (IF opens \/ done THEN {} ELSE {req})
      IN  /\ issue_cmd(mode, cmd, get_addr_vec(cmd, req.a), ready)
          /\ readq' = moved(readq) /\ writeq' = moved(writeq) /\ otherq' = moved(others)
          /\ actq' = moved(actq) \cup (IF opens THEN {req} ELSE {})
          /\ pending' = IF done /\ req.type \in {"READ", "EXTENSION"}
                          THEN Append(reads, req) ELSE reads
          /\ serving' = serving - left + started
                          - (IF done /\ chosen.type = "WRITE" THEN 1 ELSE 0)

-----------------------------------------------------------------------------
(* One tick: answer the first pending read, if its time has come; inject a *)
(* refresh, if one is due; choose the mode; and issue at most one command. *)

\* A mutant of Leaves: every answer is taken off the count.
LeavesAlways(req) == 1

\* What an answer takes off the count of requests being served: a forwarded read,
\* answered a cycle after it came, never entered it.
Leaves(req) == IF req.forwarded THEN 0 ELSE 1

tick(due, refresh, needs, ready) ==
  LET answer == due /\ pending # <<>>
      reads == IF answer THEN Tail(pending) ELSE pending
      left == IF answer THEN Leaves(Head(pending)) ELSE 0
      others == otherq \cup (IF refresh THEN {NewRequest("REFRESH", WholeRank, 0)} ELSE {})
  IN  /\ answered' = IF answer THEN answered \cup {Head(pending).id} ELSE answered
      /\ refreshed' = IF refresh THEN refreshed + 1 ELSE refreshed
      /\ write_mode' = NextMode
      /\ \E chosen \in {Chosen(NextMode, others, needs, ready)} :
         \/ \E req \in chosen : Serve(NextMode, req, others, reads, left, ready)
         \/ /\ chosen = {}
            /\ SpeculativePrecharge(NextMode, ready)
            /\ serving' = serving - left
            /\ pending' = reads /\ otherq' = others
            /\ UNCHANGED <<readq, writeq, actq>>
      /\ UNCHANGED <<scheduler, rowpolicy, sent>>

\* The commands that some request, or the row policy, could want issued.
Requests == Queued \cup {NewRequest("REFRESH", WholeRank, 0)}
Wanted(needs) ==
  Range(needs) \cup (IF rowpolicy = "Opened" THEN {} ELSE {<<"PRE", e>> : e \in table})

Tick ==
  \E needs \in {Needs(Requests)} :
    \E due, refresh \in BOOLEAN, ready \in SUBSET Wanted(needs) :
      /\ refresh => refreshed < MaxRefreshes /\ sent + refreshed < MaxEvents
      /\ due => pending # <<>>
      /\ tick(due, refresh, needs, ready)

Next == Send \/ Tick

Spec == Init /\ [][Next]_vars

-----------------------------------------------------------------------------
(* Fairness.  The gaps between commands are finite: left alone, every      *)
(* command becomes ready, and a pending read is due.  And an access comes  *)
(* ready before the row that was opened for it can be closed, for nRCD is  *)
(* below nRAS: a request whose row is open again and again gets through.   *)

AllReady == \E needs \in {Needs(Requests)} : tick(pending # <<>>, FALSE, needs, Wanted(needs))

\* Whether such a tick serves a request, answers a read or changes the mode.
Serves ==
  \/ pending # <<>> \/ NextMode # write_mode
  \/ \E needs \in {Needs(Requests)} : Chosen(NextMode, otherq, needs, Wanted(needs)) # {}

\* The requests that a tick in which only the command they asked for is ready
\* completes.
Completing ==
  LET IsLast(r, needs) ==
        Chosen(NextMode, otherq, needs, {needs[r]}) = {r} /\ needs[r][1] = translate(r.type)
      LastOf(needs) == {r \in Queued : IsLast(r, needs)}
  IN  LastOf(Needs(Requests))
GetsThrough == \E r \in Completing : r.id \notin Ids(Queued')

Fairness ==
  /\ []<>Serves => []<><<AllReady>>_vars
  /\ []<>(Completing # {}) => []<><<GetsThrough>>_vars

FairSpec == Spec /\ Fairness
-----------------------------------------------------------------------------
(* Properties.                                                             *)

\* A queue holds requests of its kind, and the read and the write queue no more
\* than their max: a request that is served returns to its queue without enqueue.
QueuesBounded ==
  /\ \A r \in readq : r.type \in {"READ", "EXTENSION"}
  /\ \A r \in writeq : r.type = "WRITE"
  /\ \A r \in otherq : r.type = "REFRESH"
  /\ Cardinality(readq) <= QueueMax /\ Cardinality(writeq) <= QueueMax

TypeOK ==
  /\ table \subseteq Address /\ DOMAIN hits = Address /\ \A a \in Address : hits[a] \in 0..Cap + 1
  /\ QueuesBounded
  /\ write_mode \in BOOLEAN /\ sent \in 0..MaxEvents /\ refreshed \in 0..MaxRefreshes

\* A request waits in one place only, and a read is answered once: moving it to
\* actq, or to the pending reads, takes it out of its queue (tick, Controller.h).
InOnePlace ==
  LET places == <<Ids(readq), Ids(writeq), Ids(actq), Ids(otherq),
                  {pending[i].id : i \in DOMAIN pending}, answered>>
  IN  /\ \A i, j \in DOMAIN places : i # j => places[i] \cap places[j] = {}
      /\ \A i, j \in DOMAIN pending : i # j => pending[i].id # pending[j].id

\* The reads and writes that were begun and are not finished, without the reads
\* answered from the write queue.
Begun ==
  Ids({r \in readq \cup writeq \cup actq : ~r.first /\ r.type # "REFRESH"})
    \cup {pending[i].id : i \in {i \in DOMAIN pending : ~pending[i].forwarded}}

\* The channel's number of requests being served is right whatever was moved,
\* forwarded or closed (update_serving_requests).
ServingCounted == serving = Cardinality(Begun)

\* What is counted while a request is in the controller is right: the requests being
\* served, and the requests that hit the row of an access with auto-precharge; the
\* row table has the rows that are accessed and closed, and commands are issued only
\* where the timing allows (the asserts of issue_cmd, cmd_issue_autoprecharge and
\* RowTable::update).
CountsHold == TypeOK /\ asserts /\ ServingCounted

\* A read is served by the memory before a write of its address that came first only
\* if that write has its row activated: "shortcut for read requests, if a write to same
\* addr exists / necessary for coherence" (Controller.h:326-327) looks into the write
\* queue, and such a write has left it for actq.
ReadsSeeWrites ==
  \A i \in DOMAIN pending : \A w \in writeq \cup actq :
    /\ ~pending[i].forwarded
    /\ w.type = "WRITE" /\ SameAddress(w, pending[i]) /\ w.id < pending[i].id
    => w \in actq

\* Every read is answered in the end, and every write and refresh carried out
\* (the requests are finitely many): neither mode, nor the precedence of actq and
\* otherq, nor a policy that keeps closing rows starves a request.
AllServed == []<>(Queued = {} /\ pending = <<>>)

=============================================================================
