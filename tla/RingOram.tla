------------------------------ MODULE RingOram ------------------------------
(***************************************************************************)
(* The data structures of one ORAM level and the steps that change them:   *)
(* posmap_and_stash::init_step over posMap, addr_to_origaddr, stash and    *)
(* ring_bucket_vec (src/src/reservation.h, src/src/ring_bucket.h).         *)
(*                                                                         *)
(* The task engine (TaskPool) lets the tasks of a set act on the tree one  *)
(* at a time, in the order of their requests, and issues a task's step 3   *)
(* before the next one's step 1; here each set therefore has one task at a *)
(* time, while the tasks of different sets interleave freely.  A step that *)
(* init_step refuses for want of reservation lines changes nothing and is  *)
(* retried, so it is not an action.                                        *)
(*                                                                         *)
(* The offsets of a bucket are a random permutation of Z + S slots.  Only  *)
(* the identity of the Z slots that may hold blocks matters: slot n stands *)
(* for the n-th entry of the fresh z_arr, and dummy slots are counted.     *)
(***************************************************************************)
EXTENDS RingTree

CONSTANTS
  S,         \* dummy slots of a bucket: S reads exhaust it
  A,         \* every A-th access of a set writes a path back
  CacheEnd,  \* rs::cache_end_nodeid: buckets below it are kept on chip
  Requests   \* the addresses the trace asks for (NoAddr: a maintenance access)

NoAddr == -1

\* (With S = 1 a bucket that was just refreshed would count as exhausted.)
ASSUME RingAssumption ==
  /\ S \in Nat \ {0, 1} /\ A \in Nat \ {0} /\ CacheEnd \in Nat
  /\ Requests \subseteq Addrs \cup {NoAddr}

Slots    == 0 .. Z - 1
NoLeaf   == -1
NoNode   == -1
NoLine   == [block_id |-> NoLeaf, node_id |-> NoNode, offset |-> -1, pending |-> FALSE]
NoOrigin == [original_address |-> NoAddr, block_id |-> NoLeaf]

VARIABLES
  posMap,            \* address -> where its block is in the tree, or NoLine
  addr_to_origaddr,  \* <<node, slot>> -> the block stored there, or NoOrigin
  stash,             \* address -> the leaf of a block held in the stash, or NoLeaf
  z_arr,             \* node -> real slots not read since the last refresh
  s_arr,             \* node -> number of dummy slots not read
  accessed_times,    \* node -> reads since the last refresh
  ring_counter,      \* set -> write-backs so far, modulo num_of_ways
  wb_block_id_last,  \* set -> leaf of the write-back in progress
  set_cnt,           \* set -> accesses so far, modulo A
  head               \* set -> its current task

treeVars == <<posMap, addr_to_origaddr, stash, z_arr, s_arr, accessed_times>>
vars == <<treeVars, ring_counter, wb_block_id_last, set_cnt, head>>

-----------------------------------------------------------------------------
(***************************************************************************)
(* Moving blocks between the tree and the stash.                           *)
(***************************************************************************)
\* The tree slots of buckets N that hold a block.
Held(N) == {k \in N \X Slots : addr_to_origaddr[k] # NoOrigin}

\* posMap once the blocks of buckets N are in the stash ...
MapWithout(N) ==
  LET gone == {addr_to_origaddr[k].original_address : k \in Held(N)}
  IN  [a \in Addrs |-> IF a \in gone THEN NoLine ELSE posMap[a]]

\* Mutant of StashWith: an evicted block is mapped to the first leaf of its set.
StashWithFirst(N) ==
  [a \in Addrs |-> IF \E k \in Held(N) : addr_to_origaddr[k].original_address = a
                     THEN Min(LeavesOf(SetOf(a))) ELSE stash[a]]

\* ... and the stash.
StashWith(N) ==
  LET from(a) == {k \in Held(N) : addr_to_origaddr[k].original_address = a}
  IN  [a \in Addrs |-> IF from(a) = {} THEN stash[a]
                       ELSE addr_to_origaddr[CHOOSE k \in from(a) : TRUE].block_id]

\* Mutant of MayHold: any bucket of the path will do.
MayHoldAny(n, leaf) == TRUE

\* A bucket may hold a block only on the path to the block's leaf.
MayHold(n, leaf) == n \in SetPath(leaf)

InStash(st) == {a \in Addrs : st[a] # NoLeaf}

\* where maps the blocks of a stash to the buckets they go to (or NoNode): how
\* many blocks precede a in its own bucket, and in bucket n.
Rank(where, a) == Cardinality({b \in DOMAIN where : b < a /\ where[b] = where[a]})

Before(where, a, n) == Cardinality({b \in DOMAIN where : b < a /\ where[b] = n})

\* Where the blocks of stash st go when buckets N are refilled: in the order of
\* their addresses, each to the deepest bucket that may hold it and has room, or
\* to the one nearest to the root if not deep.
Refills(st, N, deep) ==
  {where \in [InStash(st) -> N \cup {NoNode}] :
     \A a \in InStash(st) :
       LET fits == {n \in N : MayHold(n, st[a]) /\ Before(where, a, n) < Z}
       IN  where[a] = CASE fits = {}           -> NoNode
                               [] fits # {} /\ deep  -> Max(fits)
                               [] fits # {} /\ ~deep -> Min(fits)}

\* Put the blocks of stash st where they go; pm is the posMap without them.
MapRefilled(pm, st, where) ==
  [a \in Addrs |->
     IF a \in DOMAIN where /\ where[a] # NoNode
       THEN [block_id |-> st[a], node_id |-> where[a],
             offset |-> Rank(where, a), pending |-> FALSE]
       ELSE pm[a]]

\* Mutant of StashLeft: written blocks are not erased from the stash.
StashLeftAll(st, where) == st

StashLeft(st, where) ==
  [a \in Addrs |-> IF a \in DOMAIN where /\ where[a] # NoNode THEN NoLeaf ELSE st[a]]

\* The slots after buckets N were emptied and refilled.
SlotsRefilled(N, st, where) ==
  [k \in Nodes \X Slots |->
     LET put == {a \in DOMAIN where : where[a] = k[1] /\ Rank(where, a) = k[2]}
     IN  IF put # {}
           THEN LET a == CHOOSE a \in put : TRUE
                IN  [original_address |-> a, block_id |-> st[a]]
           ELSE IF k[1] \in N THEN NoOrigin ELSE addr_to_origaddr[k]]

\* Counter f of the buckets after buckets N are replaced by new ones ...
Fresh(f, N, new) == [n \in Nodes |-> IF n \in N THEN new ELSE f[n]]

\* ... and the real slots not read.
FreshSlots(N) == [n \in Nodes |-> IF n \in N THEN Slots ELSE z_arr[n]]

-----------------------------------------------------------------------------
NoTask == [next_step |-> 6, original_address |-> NoAddr, block_id |-> NoLeaf,
           node_id |-> NoNode, offset |-> -1]

\* posmap_init_writeback: the blocks of a set fill its leaf buckets in a random
\* order.  home lists, per leaf and slot, the block it gets.
Init ==
  /\ \E home \in {f \in [Leaves \X Slots -> Addrs] :
                    /\ \A x, y \in Leaves \X Slots : f[x] = f[y] => x = y
                    /\ \A x \in Leaves \X Slots : SetOf(f[x]) = x[1] \div num_of_ways} :
       /\ posMap = [a \in Addrs |->
                      LET x == CHOOSE x \in Leaves \X Slots : home[x] = a
                      IN  [block_id |-> x[1], node_id |-> P(x[1], num_of_lvls - 1),
                           offset |-> x[2], pending |-> FALSE]]
       /\ addr_to_origaddr =
            [k \in Nodes \X Slots |->
               LET leaf == k[1] - (NumLeaves - 1)
               IN  IF leaf < 0 THEN NoOrigin
                   ELSE [original_address |-> home[<<leaf, k[2]>>], block_id |-> leaf]]
  /\ stash = [a \in Addrs |-> NoLeaf]
  /\ z_arr = [n \in Nodes |-> Slots]
  /\ s_arr = [n \in Nodes |-> S]
  /\ accessed_times = [n \in Nodes |-> 0]
  /\ ring_counter = [set \in Sets |-> 0]
  /\ wb_block_id_last = [set \in Sets |-> NoLeaf]
  /\ set_cnt = [set \in Sets |-> 0]
  /\ head = [set \in Sets |-> NoTask]

\* A block can be read from the tree (line is its entry of posMap).
Readable(line) == line # NoLine /\ ~line.pending

\* Step 1: choose the path of the next request of the set: the block's own, or
\* any path of the set if the block is not in the tree or there is none.
ChoosePath(set, a, leaf) ==
  /\ head[set].next_step = 6
  /\ a # NoAddr => SetOf(a) = set
  /\ IF a # NoAddr /\ Readable(posMap[a])
       THEN leaf = posMap[a].block_id
       ELSE leaf \in LeavesOf(set)
  /\ set_cnt' = [set_cnt EXCEPT ![set] = (@ + 1) % A]
  /\ head' = [head EXCEPT ![set] =
       [next_step |-> 2, original_address |-> a, block_id |-> leaf,
        node_id |-> NoNode, offset |-> -1]]
  /\ UNCHANGED <<treeVars, ring_counter, wb_block_id_last>>

\* Mutant of Exhausted: one read too late.
ExhaustedLate(n) == accessed_times[n] = S

\* check_early_need: one more read would exhaust the bucket.
Exhausted(n) == accessed_times[n] = S - 1

\* Mutant of Intended: only a block mapped to the chosen path is read.
IntendedOfPath(pm, a) ==
  IF a # NoAddr /\ Readable(pm[a]) /\ pm[a].block_id = head[SetOf(a)].block_id
    THEN pm[a] ELSE NoLine

\* push_to_pending_read: the position of the block to read, in posMap pm.
Intended(pm, a) == IF a # NoAddr /\ Readable(pm[a]) THEN pm[a] ELSE NoLine

\* Step 2: reshuffle the buckets of the path that are nearly exhausted, filling
\* the one nearest to the root first; then take a slot of every bucket that is
\* not on chip, the block's own where the block is and a dummy elsewhere.
TakeSlots(set) ==
  LET task  == head[set]
      a     == task.original_address
      early == {n \in SetPath(task.block_id) : Exhausted(n)}
      st    == StashWith(early)
      touched == {n \in SetPath(task.block_id) : n >= CacheEnd}
      z1    == FreshSlots(early)
      s1    == Fresh(s_arr, early, S)
      acc1  == Fresh(accessed_times, early, 0)
  IN
  /\ task.next_step = 2
  /\ \E where \in Refills(st, early, FALSE) :
       LET pm   == MapRefilled(MapWithout(early), st, where)
           line == Intended(pm, a)
       IN
       /\ posMap' = IF line = NoLine THEN pm ELSE [pm EXCEPT ![a].pending = TRUE]
       /\ addr_to_origaddr' = SlotsRefilled(early, st, where)
       /\ stash' = StashLeft(st, where)
       /\ z_arr' = [n \in Nodes |-> IF n \in touched /\ n = line.node_id
                                      THEN z1[n] \ {line.offset} ELSE z1[n]]
       /\ s_arr' = [n \in Nodes |-> IF n \in touched /\ n # line.node_id
                                      THEN s1[n] - 1 ELSE s1[n]]
       /\ head' = [head EXCEPT ![set].next_step = 3,
                               ![set].node_id = line.node_id,
                               ![set].offset = line.offset]
  /\ accessed_times' = [n \in Nodes |-> IF n \in touched THEN acc1[n] + 1 ELSE acc1[n]]
  /\ UNCHANGED <<ring_counter, wb_block_id_last, set_cnt>>

\* What follows step 3: a write-back, or the next request.
AfterPull(set) == IF set_cnt[set] = 0 THEN 4 ELSE 6

\* get_rand_leaf
RandLeaf(a) == LeavesOf(SetOf(a))

\* Step 3 with a block to read: it moves to the stash, mapped to a new leaf.
PullBlock(set, leaf) ==
  LET task == head[set]   a == task.original_address   k == <<task.node_id, task.offset>> IN
  /\ task.next_step = 3 /\ task.node_id # NoNode
  /\ addr_to_origaddr[k] # NoOrigin
  /\ leaf \in RandLeaf(a)
  /\ addr_to_origaddr' = [addr_to_origaddr EXCEPT ![k] = NoOrigin]
  /\ posMap' = [posMap EXCEPT ![a] = NoLine]
  /\ stash' = [stash EXCEPT ![a] = leaf]
  /\ head' = [head EXCEPT ![set].next_step = AfterPull(set)]
  /\ UNCHANGED <<z_arr, s_arr, accessed_times, ring_counter, wb_block_id_last, set_cnt>>

\* Step 3 when every slot of the path is a dummy.
PullDummies(set) ==
  LET task == head[set] IN
  /\ task.next_step = 3
  /\ task.node_id # NoNode => addr_to_origaddr[<<task.node_id, task.offset>>] = NoOrigin
  /\ head' = [head EXCEPT ![set].next_step = AfterPull(set)]
  /\ UNCHANGED <<treeVars, ring_counter, wb_block_id_last, set_cnt>>

\* Step 4: choose the path to write back.
ChooseWritePath(set) ==
  /\ head[set].next_step = 4
  /\ wb_block_id_last' = [wb_block_id_last EXCEPT ![set] = RingLeaf(ring_counter[set], set)]
  /\ ring_counter' = [ring_counter EXCEPT ![set] = (@ + 1) % num_of_ways]
  /\ head' = [head EXCEPT ![set].next_step = 5]
  /\ UNCHANGED <<treeVars, set_cnt>>

\* Step 5: the blocks of the path move to the stash, all its buckets are new,
\* and each block of the stash goes back as deep as it may.
Writeback(set) ==
  LET leaf == wb_block_id_last[set]
      N    == SetPath(leaf)
      st   == StashWith(N)
  IN
  /\ head[set].next_step = 5
  /\ \E where \in Refills(st, N, TRUE) :
       /\ posMap' = MapRefilled(MapWithout(N), st, where)
       /\ addr_to_origaddr' = SlotsRefilled(N, st, where)
       /\ stash' = StashLeft(st, where)
  /\ z_arr' = FreshSlots(Path(leaf))
  /\ s_arr' = Fresh(s_arr, Path(leaf), S)
  /\ accessed_times' = Fresh(accessed_times, Path(leaf), 0)
  /\ head' = [head EXCEPT ![set].next_step = 6]
  /\ UNCHANGED <<ring_counter, wb_block_id_last, set_cnt>>

Next == \E set \in Sets :
  \/ \E a \in Requests, leaf \in LeavesOf(set) : ChoosePath(set, a, leaf)
  \/ TakeSlots(set)
  \/ \E leaf \in Leaves : PullBlock(set, leaf)
  \/ PullDummies(set)
  \/ ChooseWritePath(set)
  \/ Writeback(set)

Spec == Init /\ [][Next]_vars

-----------------------------------------------------------------------------
(***************************************************************************)
(* Properties.                                                             *)
(***************************************************************************)
Line   == [block_id : Leaves, node_id : Nodes, offset : Slots, pending : BOOLEAN]
Origin == [original_address : Addrs, block_id : Leaves]
Task   == [next_step : 2 .. 6, original_address : Addrs \cup {NoAddr},
           block_id : Leaves \cup {NoLeaf}, node_id : Nodes \cup {NoNode},
           offset : Slots \cup {-1}]

TypeOK ==
  /\ posMap \in [Addrs -> Line \cup {NoLine}]
  /\ addr_to_origaddr \in [Nodes \X Slots -> Origin \cup {NoOrigin}]
  /\ stash \in [Addrs -> Leaves \cup {NoLeaf}]
  /\ z_arr \in [Nodes -> SUBSET Slots]
  /\ s_arr \in [Nodes -> 0 .. S] /\ accessed_times \in [Nodes -> 0 .. S]
  /\ ring_counter \in [Sets -> 0 .. num_of_ways - 1]
  /\ wb_block_id_last \in [Sets -> Leaves \cup {NoLeaf}]
  /\ set_cnt \in [Sets -> 0 .. A - 1]
  /\ head \in [Sets -> Task]

\* No block is lost or duplicated by reads, reshuffles and write-backs: each is
\* in the stash or in one tree slot, never both, and the two maps between
\* addresses and slots (posMap, addr_to_origaddr) say the same.
NothingLost ==
  /\ \A a \in Addrs : (stash[a] = NoLeaf) # (posMap[a] = NoLine)
  /\ \A a \in Addrs : posMap[a] # NoLine =>
       addr_to_origaddr[<<posMap[a].node_id, posMap[a].offset>>] =
         [original_address |-> a, block_id |-> posMap[a].block_id]
  /\ \A k \in Nodes \X Slots : addr_to_origaddr[k] # NoOrigin =>
       LET line == posMap[addr_to_origaddr[k].original_address]
       IN  <<line.node_id, line.offset>> = k

\* A block in the tree is on the path to the leaf it is mapped to, and that leaf
\* is one of its own set: reading the path to its leaf always passes it.
OnOwnPath ==
  \A a \in Addrs :
    /\ posMap[a] # NoLine =>
         posMap[a].block_id \in LeavesOf(SetOf(a)) /\ posMap[a].node_id \in SetPath(posMap[a].block_id)
    /\ stash[a] # NoLeaf => stash[a] \in LeavesOf(SetOf(a))

\* take_z finds its slot: a block waits in a slot that was not read since the
\* bucket was refreshed, unless a read of that very block is under way.
SlotsUnread ==
  \A a \in Addrs : posMap[a] # NoLine /\ ~posMap[a].pending =>
    posMap[a].offset \in z_arr[posMap[a].node_id]

\* A bucket always has a dummy left for the next read, and enough of them to
\* fill a write-back's pull up to Z slots (the asserts on accessed_times and
\* remaining_S): reshuffling at S - 1 reads is early enough, and nothing but
\* reads uses slots up.
BucketsNotExhausted ==
  \A n \in Nodes :
    /\ accessed_times[n] <= S - 1
    /\ accessed_times[n] = (S - s_arr[n]) + (Z - Cardinality(z_arr[n]))
    /\ Z - Cardinality(z_arr[n]) <= s_arr[n]

\* Every read of a bucket finds what it is for: the block's own slot, or a dummy.
BucketsServeReads == SlotsUnread /\ BucketsNotExhausted

\* A block is pending exactly while its own task is between taking the slots and
\* the pull, and that task holds the block's current slot, whatever reshuffles
\* other sets did in between (the assert of step 3 on original_address).
PendingIsAwaited ==
  /\ \A a \in Addrs : posMap[a].pending =>
       LET task == head[SetOf(a)] IN task.next_step = 3 /\ task.original_address = a
  /\ \A set \in Sets : head[set].next_step = 3 /\ head[set].node_id # NoNode =>
       LET line == posMap[head[set].original_address]
       IN  line.pending /\ <<line.node_id, line.offset>> = <<head[set].node_id, head[set].offset>>

\* Every access delivers: after its pull the block it asked for is in the stash,
\* wherever an early reshuffle moved it since its path was chosen.
AccessDelivers ==
  \A set \in Sets :
    LET task   == head[set]
        pulled == task.next_step = 4 \/ task.next_step = 5 \/ (task.next_step = 6 /\ set_cnt[set] # 0)
    IN  task.original_address # NoAddr /\ pulled => stash[task.original_address] # NoLeaf

\* What a step of one set leaves alone: the blocks and buckets of the others.
SetData(set) ==
  <<[a \in AddrsOf(set) |-> <<posMap[a], stash[a]>>],
    [n \in SetNodes(set) |-> <<z_arr[n], s_arr[n], accessed_times[n]>>]>>

\* Tasks of different sets interleave at every step; no step of one changes the
\* blocks or the buckets of another.
SetsAreIsolated ==
  [][\A set, other \in Sets :
       set # other /\ head'[set] # head[set] => UNCHANGED SetData(other)]_vars

Leaf(a) == IF posMap[a] # NoLine THEN posMap[a].block_id ELSE stash[a]

\* A block may be remapped between the start of its access and its pull.
Accessing(set) == IF head[set].next_step \in {2, 3} THEN head[set].original_address ELSE NoAddr

Store == INSTANCE BlockStore
           WITH Blocks <- Addrs, SetIds <- Sets, NoBlock <- NoAddr,
                leaf <- [a \in Addrs |-> Leaf(a)],
                access <- [set \in Sets |-> Accessing(set)]

\* The level implements BlockStore: reshuffles, write-backs and dummy reads
\* change no block's leaf; only the access to a block remaps it.
ImplementsStore == Store!Spec

=============================================================================
