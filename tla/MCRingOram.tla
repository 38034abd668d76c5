----------------------------- MODULE MCRingOram -----------------------------
(* Small instances of RingOram; the configurations give the sizes. *)
EXTENDS RingOram

\* Every address, and maintenance accesses.
MCAll == Addrs \cup {NoAddr}

\* Two addresses only; the others are moved by reshuffles and write-backs.
MCTwo == {0, NumLeaves * Z - 1}

MCTwoAndNone == MCTwo \cup {NoAddr}
=============================================================================
