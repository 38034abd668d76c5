------------------------------ MODULE RingTree ------------------------------
(***************************************************************************)
(* The geometry of one level's tree (class rs of src/src/reservation.h,    *)
(* with KTREE = 2): a complete binary tree of buckets, numbered level by   *)
(* level from the root, whose leaves are the block ids.  The subtrees      *)
(* rooted at level start_lvl are the sets: a block never leaves its set,   *)
(* and nothing is kept above start_lvl.                                    *)
(***************************************************************************)
EXTENDS Integers, FiniteSetsExt

CONSTANTS
  StartLvl,  \* rs::start_lvl; there are 2^StartLvl sets
  WayLvls,   \* log2 of rs::num_of_ways, the leaves of a set
  Z          \* slots for real blocks in a bucket

ASSUME TreeAssumption == StartLvl \in Nat /\ WayLvls \in Nat /\ Z \in Nat \ {0}

\* 2 to the power n.
Pow2[n \in Nat] == IF n = 0 THEN 1 ELSE 2 * Pow2[n - 1]

num_of_ways == Pow2[WayLvls]
num_of_lvls == StartLvl + WayLvls + 1
NumSets     == Pow2[StartLvl]
NumLeaves   == NumSets * num_of_ways           \* total_num_blocks

Sets   == 0 .. NumSets - 1
Leaves == 0 .. NumLeaves - 1                   \* block ids
Nodes  == 0 .. 2 * NumLeaves - 2
Addrs  == 0 .. NumLeaves * Z - 1               \* total_num_of_original_addr_space
Lvls    == 0 .. num_of_lvls - 1
SetLvls == StartLvl .. num_of_lvls - 1         \* the levels that hold blocks

\* The bucket at level lvl of the path to leaf.
P(leaf, lvl) == Pow2[lvl] - 1 + leaf \div Pow2[num_of_lvls - lvl - 1]

\* The buckets of a path; this is also the mutant of SetPath that starts at the
\* root, which all sets share.
Path(leaf) == {P(leaf, lvl) : lvl \in Lvls}

\* The buckets of a path that hold blocks.
SetPath(leaf) == {P(leaf, lvl) : lvl \in SetLvls}

LeavesOf(set) == set * num_of_ways .. (set + 1) * num_of_ways - 1
SetNodes(set) == UNION {SetPath(leaf) : leaf \in LeavesOf(set)}

\* The set an address belongs to (oram_task_create and get_rand_leaf).
SetOf(a) == ((a \div Z) % NumLeaves) \div num_of_ways

AddrsOf(set) == {a \in Addrs : SetOf(a) = set}

\* The n low bits of c in reverse: the loop of get_ring_counter.
Reversed[n \in Nat] ==
  [c \in Nat |-> IF n = 0 THEN 0 ELSE (c % 2) * Pow2[n - 1] + Reversed[n - 1][c \div 2]]

\* get_ring_counter: the write-backs of a set visit its leaves in the order of
\* the bit-reversed counter.
RingLeaf(c, set) == Reversed[WayLvls][c] + set * num_of_ways

=============================================================================
