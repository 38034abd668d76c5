------------------------------ MODULE SetOram ------------------------------
(***************************************************************************)
(* The stand-alone simulation of the stash of a set-associative ORAM tree  *)
(* (src/stash_simulation/set_oram.cc).  The tree lacks CUTDOWN_LVL levels, *)
(* so that below the upper tree there are many small subtrees; those of a  *)
(* group of SET_NUM neighbours are interchangeable: a write-back may put a *)
(* block of any of them at the same position of the subtree it writes, and *)
(* then moves the block's leaf there.                                      *)
(*                                                                         *)
(* The buckets are those of ring_bucket.h.  As in RingOram, slot n stands  *)
(* for the n-th entry of a fresh z_arr and dummy slots are only counted.   *)
(* The flag pending of a position is left out: it is set by read_routine   *)
(* and erased with its entry by the read_pull of the same call.            *)
(***************************************************************************)
EXTENDS Integers, Sequences, FiniteSetsExt, Functions

CONSTANTS
  Levels,            \* max_num_levels
  CUT_LVL,           \* the upper tree has levels 0 .. CUT_LVL - 1
  CUTDOWN_LVL,       \* the levels left out
  SET_NUM,           \* subtrees of a group
  EVCT_TIMES,        \* paths written back every A accesses
  Z, S, A,
  STASH_MAITANENCE,  \* blocks in the stash that trigger dummy accesses
  Requests,          \* the addresses main asks for (any, in the code)
  RandLeaves,        \* the leaves rand() chooses (any, in the code)
  Homes              \* the initial shuffles of the blocks over the leaves' slots

NoAddr == -1
NoLeaf == -1
NoNode == -1

\* The tree of a level of the memory controller, as one set.
Tree == INSTANCE RingTree WITH StartLvl <- 0, WayLvls <- Levels - 1

Pow2 == Tree!Pow2

NumLeaves == Pow2[Levels - 1]
Leaves    == 0 .. NumLeaves - 1
Addrs     == 0 .. NumLeaves * Z - 1
Nodes     == 0 .. 2 * NumLeaves - 2
Slots     == 0 .. Z - 1

ASSUME SetOramAssumption ==
  /\ Levels \in Nat /\ CUT_LVL \in Nat /\ CUTDOWN_LVL \in Nat
  /\ CUT_LVL + CUTDOWN_LVL <= Levels - 1 /\ EVCT_TIMES \in 1 .. CUT_LVL
  /\ SET_NUM \in Nat \ {0} /\ Z \in Nat \ {0} /\ S \in Nat \ {0} /\ A \in Nat \ {0}
  /\ Requests \subseteq Addrs /\ RandLeaves \subseteq Leaves
  /\ \A home \in Homes : home \in [Leaves \X Slots -> Addrs] /\ IsInjective(home)

VARIABLES
  posMap,                 \* address -> where its block is (a partial function)
  addr_to_origaddr,       \* <<node, slot>> -> the block stored there (partial)
  stash,                  \* address -> the leaf of a block in the stash (partial)
  z_arr, s_arr, accessed_times,   \* the buckets, as in RingOram
  ring_counter,           \* write-backs so far, modulo NumLeaves
  rw_counter,             \* accesses so far, modulo A
  task,                   \* the access under way, or NoTask
  wb_block_id,            \* leaves whose paths are still to be written back
  early_reshuffle_nodes   \* buckets still to be reshuffled

mapVars == <<posMap, addr_to_origaddr, stash>>
bucketVars == <<z_arr, s_arr, accessed_times>>
vars == <<mapVars, bucketVars, ring_counter, rw_counter, task, wb_block_id, early_reshuffle_nodes>>

-----------------------------------------------------------------------------
(***************************************************************************)
(* The tree with a gap.                                                    *)
(***************************************************************************)
Lvls == {lvl \in 0 .. Levels - 1 : lvl < CUT_LVL \/ lvl >= CUT_LVL + CUTDOWN_LVL}

P(leaf, lvl) == Pow2[lvl] - 1 + leaf \div Pow2[Levels - lvl - 1]

Path == [leaf \in Leaves |-> {P(leaf, lvl) : lvl \in Lvls}]

\* A subtree has Ways leaves; its place in the tree and a leaf's place in it.
Ways == Pow2[Levels - CUT_LVL - CUTDOWN_LVL - 1]
Group(leaf)    == leaf \div (SET_NUM * Ways)
Position(leaf) == leaf % Ways

\* A block of leaf other may use the bucket at level lvl of a written path.
Meets(leaf, other, lvl) ==
  IF lvl < CUT_LVL THEN P(leaf, lvl) = P(other, lvl)
  ELSE Group(leaf) = Group(other) /\ P(Position(leaf), lvl) = P(Position(other), lvl)

\* The buckets it may use: down to the first level where the paths part.
Fits(leaf, other) ==
  {P(leaf, lvl) : lvl \in {l \in Lvls : \A m \in Lvls : m <= l => Meets(leaf, other, m)}}

\* get_ring_counter: the counter with its Levels - 1 bits reversed.
RingLeaf(c) == Tree!Reversed[Levels - 1][c]

-----------------------------------------------------------------------------
(***************************************************************************)
(* Moving blocks between the tree and the stash.                           *)
(***************************************************************************)
\* The partial function f, and g where f has no value.
Over(f, g) == [x \in DOMAIN f \cup DOMAIN g |-> IF x \in DOMAIN f THEN f[x] ELSE g[x]]

Held(N) == {k \in DOMAIN addr_to_origaddr : k[1] \in N}

Pulled(N) == {addr_to_origaddr[k].original_address : k \in Held(N)}

\* writeback_pull and early_reshuffle_pull: the blocks of buckets N join the stash.
StashWith(N) ==
  Over([a \in Pulled(N) |->
          addr_to_origaddr[CHOOSE k \in Held(N) : addr_to_origaddr[k].original_address = a].block_id],
       stash)

\* Mutant of Best: the bucket nearest to the root.
BestShallow(room) == Min(room)

\* Of the buckets of a path that have room, the deepest takes the block.
Best(room) == Max(room)

\* Blocks go, in the order of their addresses, each to the best of the buckets it
\* may use that have room.  Blocks that find none are left out.
Refill(fits) ==
  LET where[a \in Nat] ==
        IF a = 0 THEN <<>>
        ELSE LET before == where[a - 1]
                 room == IF a - 1 \in DOMAIN fits
                           THEN {n \in fits[a - 1] :
                                   Cardinality({b \in DOMAIN before : before[b] = n}) < Z}
                           ELSE {}
             IN  IF room = {} THEN before ELSE Over([b \in {a - 1} |-> Best(room)], before)
  IN  where[NumLeaves * Z]

\* assign_z_off: the blocks of a bucket take its slots in turn.
Lines(where, leaf) ==
  [a \in DOMAIN where |->
     [block_id |-> leaf[a], node_id |-> where[a],
      offset |-> Cardinality({b \in DOMAIN where : b < a /\ where[b] = where[a]})]]

\* Mutant of Moved: a block keeps its leaf in the lower tree, too.
MovedNever(leaf, other, n) == other

\* The leaf of a block put in bucket n of the written path: in the lower tree,
\* its position in the written subtree.
Moved(leaf, other, n) ==
  IF n < Pow2[CUT_LVL] - 1 THEN other ELSE leaf + (Position(other) - Position(leaf))

\* Blocks of buckets N and of the stash st end up in lines; the rest of st stays.
Rewrite(N, st, lines) ==
  /\ posMap' = Over(lines, Restrict(posMap, DOMAIN posMap \ Pulled(N)))
  /\ addr_to_origaddr' =
       Over([k \in {<<lines[a].node_id, lines[a].offset>> : a \in DOMAIN lines} |->
               LET a == CHOOSE a \in DOMAIN lines : <<lines[a].node_id, lines[a].offset>> = k
               IN  [original_address |-> a, block_id |-> lines[a].block_id]],
            Restrict(addr_to_origaddr, DOMAIN addr_to_origaddr \ Held(N)))
  /\ stash' = Restrict(st, DOMAIN st \ DOMAIN lines)

\* Buckets N are replaced by new ones.
Renew(N) ==
  /\ z_arr' = [n \in Nodes |-> IF n \in N THEN Slots ELSE z_arr[n]]
  /\ s_arr' = [n \in Nodes |-> IF n \in N THEN S ELSE s_arr[n]]
  /\ accessed_times' = [n \in Nodes |-> IF n \in N THEN 0 ELSE accessed_times[n]]

-----------------------------------------------------------------------------
NoTask == [original_address |-> NoAddr, block_id |-> NoLeaf, node_id |-> NoNode, offset |-> -1]

\* posmap_init_writeback: the blocks fill the slots of the leaves in a random order.
Init ==
  /\ \E home \in Homes :
       /\ posMap = [a \in Addrs |->
            LET x == CHOOSE x \in Leaves \X Slots : home[x] = a
            IN  [block_id |-> x[1], node_id |-> P(x[1], Levels - 1), offset |-> x[2]]]
       /\ addr_to_origaddr =
            [k \in {P(leaf, Levels - 1) : leaf \in Leaves} \X Slots |->
               LET leaf == k[1] - (NumLeaves - 1)
               IN  [original_address |-> home[<<leaf, k[2]>>], block_id |-> leaf]]
  /\ stash = <<>>
  /\ z_arr = [n \in Nodes |-> Slots] /\ s_arr = [n \in Nodes |-> S]
  /\ accessed_times = [n \in Nodes |-> 0]
  /\ ring_counter = 0 /\ rw_counter = 0
  /\ task = NoTask /\ wb_block_id = <<>> /\ early_reshuffle_nodes = <<>>

Idle == task = NoTask /\ wb_block_id = <<>> /\ early_reshuffle_nodes = <<>>

\* The next address: a dummy access as long as the stash is too full.
Chosen(a) == IF Cardinality(DOMAIN stash) >= STASH_MAITANENCE THEN a = NoAddr ELSE a \in Requests

\* read_routine up to read_pull: the position of the block, or any path if it is
\* not in the tree; every A-th time, the paths to write back.
ReadRoutine(a, leaf) ==
  /\ Idle /\ Chosen(a)
  /\ IF a \in DOMAIN posMap THEN leaf = posMap[a].block_id ELSE leaf \in RandLeaves
  /\ LET found == a \in DOMAIN posMap
     IN  task' = [original_address |-> a, block_id |-> leaf,
                  node_id |-> IF found THEN posMap[a].node_id ELSE NoNode,
                  offset |-> IF found THEN posMap[a].offset ELSE -1]
  /\ rw_counter' = (rw_counter + 1) % A
  /\ IF rw_counter' = 0
       THEN /\ wb_block_id' = [i \in 1 .. EVCT_TIMES |-> RingLeaf((ring_counter + i - 1) % NumLeaves)]
            /\ ring_counter' = (ring_counter + EVCT_TIMES) % NumLeaves
       ELSE UNCHANGED <<wb_block_id, ring_counter>>
  /\ UNCHANGED <<mapVars, bucketVars, early_reshuffle_nodes>>

\* This read is the last one of the bucket.
Exhausted(n) == accessed_times[n] + 1 = S

\* The loop over the write-backs reuses the name of the level, so it compares the
\* bucket with level i - 1 of the i-th path: only buckets near the root are spared.
Masked(n) == \E i \in 1 .. Len(wb_block_id) : P(wb_block_id[i], i - 1) = n

\* The buckets of a path that have to be reshuffled, in the order of read_pull.
ToReshuffle(leaf) ==
  LET list[lvl \in Nat] ==
        IF lvl = 0 THEN <<>>
        ELSE LET n == P(leaf, lvl - 1)
             IN  IF lvl - 1 \in Lvls /\ Exhausted(n) /\ ~Masked(n)
                   THEN Append(list[lvl - 1], n) ELSE list[lvl - 1]
  IN  list[Levels]

\* read_pull: take a slot of every bucket, the block's own where it is; the block
\* moves to the stash, mapped to any leaf.
ReadPull(leaf) ==
  LET a == task.original_address
      N == Path[task.block_id]
      k == <<task.node_id, task.offset>>
  IN
  /\ task # NoTask
  /\ z_arr' = [n \in Nodes |-> IF n \in N /\ n = task.node_id THEN z_arr[n] \ {task.offset} ELSE z_arr[n]]
  /\ s_arr' = [n \in Nodes |-> IF n \in N /\ n # task.node_id THEN s_arr[n] - 1 ELSE s_arr[n]]
  /\ accessed_times' = [n \in Nodes |-> IF n \in N THEN accessed_times[n] + 1 ELSE accessed_times[n]]
  /\ early_reshuffle_nodes' = ToReshuffle(task.block_id)
  /\ addr_to_origaddr' = Restrict(addr_to_origaddr, DOMAIN addr_to_origaddr \ {k})
  /\ posMap' = IF k \in DOMAIN addr_to_origaddr THEN Restrict(posMap, DOMAIN posMap \ {a}) ELSE posMap
  /\ stash' = IF a = NoAddr THEN stash ELSE Over([b \in {a} |-> leaf], stash)
  /\ task' = NoTask
  /\ UNCHANGED <<ring_counter, rw_counter, wb_block_id>>

\* writeback_pull and piggy_writeback of the next path.
Writeback ==
  LET leaf  == Head(wb_block_id)
      N     == Path[leaf]
      st    == StashWith(N)
      where == Refill([a \in DOMAIN st |-> Fits(leaf, st[a])])
  IN
  /\ task = NoTask /\ wb_block_id # <<>>
  /\ Rewrite(N, st, Lines(where, [a \in DOMAIN where |-> Moved(leaf, st[a], where[a])]))
  /\ Renew(N)
  /\ wb_block_id' = Tail(wb_block_id)
  /\ UNCHANGED <<ring_counter, rw_counter, task, early_reshuffle_nodes>>

\* early_reshuffle_pull and piggy_one of the next bucket: only the blocks whose
\* path passes it may return.
EarlyReshuffle ==
  LET n  == Head(early_reshuffle_nodes)
      st == StashWith({n})
  IN
  /\ task = NoTask /\ wb_block_id = <<>> /\ early_reshuffle_nodes # <<>>
  /\ Rewrite({n}, st, Lines(Refill([a \in DOMAIN st |-> Path[st[a]] \cap {n}]), st))
  /\ Renew({n})
  /\ early_reshuffle_nodes' = Tail(early_reshuffle_nodes)
  /\ UNCHANGED <<ring_counter, rw_counter, task, wb_block_id>>

Next ==
  \/ \E a \in Requests \cup {NoAddr}, leaf \in Leaves : ReadRoutine(a, leaf)
  \/ \E leaf \in RandLeaves : ReadPull(leaf)
  \/ Writeback
  \/ EarlyReshuffle

Spec == Init /\ [][Next]_vars

-----------------------------------------------------------------------------
(***************************************************************************)
(* Properties.                                                             *)
(***************************************************************************)
Line == [block_id : Leaves, node_id : Nodes, offset : Slots]

TypeOK ==
  /\ DOMAIN posMap \subseteq Addrs /\ \A a \in DOMAIN posMap : posMap[a] \in Line
  /\ \A k \in DOMAIN addr_to_origaddr :
       k \in Nodes \X Slots /\ addr_to_origaddr[k] \in [original_address : Addrs, block_id : Leaves]
  /\ DOMAIN stash \subseteq Addrs /\ \A a \in DOMAIN stash : stash[a] \in Leaves
  /\ z_arr \in [Nodes -> SUBSET Slots] /\ s_arr \in [Nodes -> 0 .. S]
  /\ accessed_times \in [Nodes -> 0 .. S]
  /\ ring_counter \in Leaves /\ rw_counter \in 0 .. A - 1
  /\ task = NoTask \/ task.original_address \in Addrs \cup {NoAddr}
  /\ wb_block_id \in Seq(Leaves) /\ early_reshuffle_nodes \in Seq(Nodes)

\* No block is lost or doubled: it is in the stash or in one slot of the tree,
\* and posMap and addr_to_origaddr agree on the slot and the leaf, although the
\* write-back gives blocks of other subtrees new leaves (the asserts on the two
\* maps in read_pull, commented out in writeback_pull).
NothingLost ==
  /\ DOMAIN posMap \cup DOMAIN stash = Addrs /\ DOMAIN posMap \cap DOMAIN stash = {}
  /\ Cardinality(DOMAIN addr_to_origaddr) = Cardinality(DOMAIN posMap)
  /\ \A a \in DOMAIN posMap :
       LET k == <<posMap[a].node_id, posMap[a].offset>>
       IN  /\ k \in DOMAIN addr_to_origaddr
           /\ addr_to_origaddr[k] = [original_address |-> a, block_id |-> posMap[a].block_id]

\* A block in the tree is on the path of its own leaf, in a level that exists,
\* although it was put there as a guest of another subtree: the next access reads
\* it on that path.
OnOwnPath == \A a \in DOMAIN posMap : posMap[a].node_id \in Path[posMap[a].block_id]

\* take_z finds the block's slot unread, and next_s a dummy: a bucket whose last
\* read is due is renewed before the next access, be it by the write-back of the
\* path or by a reshuffle, and a bucket spared by the reshuffles was written back.
BucketsServeReads ==
  /\ \A a \in DOMAIN posMap : posMap[a].offset \in z_arr[posMap[a].node_id]
  /\ \A n \in Nodes :
       accessed_times[n] = (S - s_arr[n]) + (Z - Cardinality(z_arr[n]))
  /\ Idle => \A n \in Nodes : accessed_times[n] < S

\* Each block is in one place, that is where the next access looks for it, and the
\* bucket serves it.
EachInItsPlace == TypeOK /\ NothingLost /\ OnOwnPath /\ BucketsServeReads

\* No block is left in the stash, or in a bucket of the path just written, while a
\* deeper bucket of the path that its leaf allows has room.
WritesDeep ==
  LET leaf == Head(wb_block_id)
      held(n) == Cardinality({k \in DOMAIN addr_to_origaddr' : k[1] = n})
  IN  /\ \A a \in DOMAIN stash' : \A n \in Fits(leaf, stash'[a]) : held(n) = Z
      /\ \A a \in DOMAIN posMap' : posMap'[a].node_id \in Path[leaf] =>
           \A n \in Fits(leaf, posMap'[a].block_id) : n > posMap'[a].node_id => held(n) = Z

\* Every write-back puts the blocks as deep as there is room (piggy_writeback).
WrittenDeep == [][wb_block_id # <<>> /\ wb_block_id' = Tail(wb_block_id) => WritesDeep]_vars

\* The leaf a block has, up to the subtrees of its group.
Home(a) == LET leaf == IF a \in DOMAIN posMap THEN posMap[a].block_id ELSE stash[a]
           IN  <<Group(leaf), Position(leaf)>>

HomeSet == {<<Group(leaf), Position(leaf)>> : leaf \in Leaves}

TheSet(a) == 0
AnyHome(s) == HomeSet

Store == INSTANCE BlockStore
           WITH Blocks <- Addrs, SetIds <- {0}, LeavesOf <- AnyHome, SetOf <- TheSet,
                NoBlock <- NoAddr, leaf <- [a \in Addrs |-> Home(a)],
                access <- [s \in {0} |-> task.original_address]

\* The simulated store implements BlockStore up to the interchangeable subtrees:
\* write-backs move a block between subtrees of its group, each as deep as there is
\* room, but only an access to the block itself moves it to another group or position.
ImplementsStore == Store!Spec /\ WrittenDeep

=============================================================================
