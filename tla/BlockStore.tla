----------------------------- MODULE BlockStore -----------------------------
(***************************************************************************)
(* What one level of the ORAM promises the task engine: every block has a  *)
(* leaf of its own set, and the only thing that moves a block to another   *)
(* leaf is an access to that very block, at most once per access.          *)
(***************************************************************************)
CONSTANTS Blocks, SetIds, LeavesOf(_), SetOf(_), NoBlock

VARIABLES
  leaf,    \* the leaf every block is mapped to
  access   \* per set: the block whose access may still remap it, or NoBlock

Init == /\ leaf \in [Blocks -> UNION {LeavesOf(s) : s \in SetIds}]
        /\ \A b \in Blocks : leaf[b] \in LeavesOf(SetOf(b))
        /\ access = [s \in SetIds |-> NoBlock]

\* An access to a block of the set, or to no block, begins.
Begin(s, b) == /\ access[s] = NoBlock
               /\ b \in Blocks => SetOf(b) = s
               /\ access' = [access EXCEPT ![s] = b]
               /\ UNCHANGED leaf

\* The block is read; it gets a new leaf if it was found in the tree.
Read(s, l) == /\ access[s] # NoBlock
              /\ leaf' = [leaf EXCEPT ![access[s]] = l] /\ l \in LeavesOf(s)
              /\ access' = [access EXCEPT ![s] = NoBlock]

\* The block was held outside the tree and stays where it is.
Skip(s) == /\ access[s] # NoBlock
           /\ access' = [access EXCEPT ![s] = NoBlock]
           /\ UNCHANGED leaf

Next == \E s \in SetIds :
          \/ \E b \in Blocks : Begin(s, b)
          \/ \E l \in LeavesOf(s) : Read(s, l)
          \/ Skip(s)

Spec == Init /\ [][Next]_<<leaf, access>>

=============================================================================
