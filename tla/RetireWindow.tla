--------------------------- MODULE RetireWindow -----------------------------
(***************************************************************************)
(* What the instruction window of a core promises: a queue that retires    *)
(* from the front, no instruction before it is ready, at most ipc of them  *)
(* in a cycle, and as many as it may.  An answer of the memory makes every *)
(* instruction of the queue that waits for its address ready.              *)
(***************************************************************************)
EXTENDS Naturals, Sequences

CONSTANTS Core, ipc, depth, None

VARIABLE q   \* of each core: its instructions [addr, ready], oldest first

Init == q = [c \in Core |-> <<>>]

Bubble == [addr |-> None, ready |-> TRUE]

\* What a queue may retire in a cycle: all that is ready at its front, up to ipc.
Retires(s, k) ==
  /\ k <= ipc /\ \A j \in 1..k : s[j].ready
  /\ k = ipc \/ k = Len(s) \/ ~s[k + 1].ready

\* A queue after a cycle: it retired, and took bubbles and at most one read.
Follows(s, t) ==
  \E k \in 0..Len(s), n \in 0..ipc :
    LET left == SubSeq(s, k + 1, Len(s))
    IN  /\ Retires(s, k)
        /\ Len(t) = Len(left) + n /\ Len(t) <= depth
        /\ SubSeq(t, 1, Len(left)) = left
        /\ \A j \in Len(left) + 1 .. Len(t) :
             t[j] = Bubble \/ (j = Len(t) /\ t[j].addr # None /\ ~t[j].ready)

Cycle == DOMAIN q' = Core /\ \A c \in Core : Follows(q[c], q'[c])

Answer ==
  \E addr \in UNION {{q[c][j].addr : j \in DOMAIN q[c]} : c \in Core} \ {None} :
    q' = [c \in Core |-> [j \in DOMAIN q[c] |->
           IF q[c][j].addr = addr THEN [q[c][j] EXCEPT !.ready = TRUE] ELSE q[c][j]]]

Spec == Init /\ [][Cycle \/ Answer]_q

=============================================================================
