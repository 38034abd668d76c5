--------------------------- MODULE InOrderStation ---------------------------
(***************************************************************************)
(* What the reservation station of a level promises the task engine: steps *)
(* that hold lines are answered once each, in the order they were issued;  *)
(* a step without lines is answered at once.  TaskPool relies on this      *)
(* (its LinesCommit takes the oldest step of a level).                     *)
(***************************************************************************)
EXTENDS Naturals, Sequences

CONSTANT Jobs   \* the steps that may be issued

VARIABLES
  queue,     \* issued steps that hold lines, oldest first
  answered   \* ready_to_pop_task: answered steps, oldest first

vars == <<queue, answered>>

Init == queue = <<>> /\ answered = <<>>

Issue(job) == UNCHANGED answered /\ queue' = Append(queue, job)

\* No line is needed, or all of them are satisfied and nothing is before them.
IssueDone(job) == answered' = Append(answered, job) /\ UNCHANGED queue

\* One answer of the memory may complete several steps.
Answer(k) ==
  /\ answered' = answered \o SubSeq(queue, 1, k)
  /\ queue' = SubSeq(queue, k + 1, Len(queue))

Pop == answered # <<>> /\ answered' = Tail(answered) /\ UNCHANGED queue

Next ==
  \/ \E job \in Jobs : Issue(job) \/ IssueDone(job)
  \/ \E k \in 1 .. Len(queue) : Answer(k)
  \/ Pop

Spec == Init /\ [][Next]_vars

=============================================================================
