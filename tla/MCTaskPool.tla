----------------------------- MODULE MCTaskPool -----------------------------
(* Small instances of TaskPool. *)
EXTENDS TaskPool

\* All requests meet in the sets of the position maps; data sets differ.
MCDataSets == {[l \in Levels |-> IF l = "data" THEN s ELSE 0] : s \in Sets}
=============================================================================
