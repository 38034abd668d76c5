----------------------------- MODULE MCSetOram -----------------------------
(***************************************************************************)
(* A small instance of SetOram: eight subtrees of two leaves, in four      *)
(* groups, below an upper tree of two levels; two paths are written back   *)
(* every second access, into buckets of two slots.  One address is asked   *)
(* for, and it moves between two leaves far from each other.               *)
(***************************************************************************)
EXTENDS SetOram

\* Blocks in order.
MCHomes == {[x \in Leaves \X Slots |-> x[1] * Z + x[2]]}

MCRequests == {0}
MCRandLeaves == {0, 12}
=============================================================================
