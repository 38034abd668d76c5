----------------------------- MODULE AnswerOnce -----------------------------
(***************************************************************************)
(* What the metadata fetch of a level promises the task engine: each step  *)
(* handed to it is answered once, at once or later, in any order.          *)
(* TaskPool relies on this (its MetadataArrives takes any waiting step).   *)
(***************************************************************************)
EXTENDS Naturals, Sequences, FiniteSets, Functions

CONSTANT Jobs

VARIABLES waiting, answered   \* a set, a queue

vars == <<waiting, answered>>

Init == waiting = {} /\ answered = <<>>

Ask(job) ==
  /\ job \notin waiting /\ job \notin Range(answered)
  /\ waiting' = waiting \cup {job} /\ UNCHANGED answered

AnswerAtOnce(job) ==
  /\ job \notin waiting /\ job \notin Range(answered)
  /\ answered' = Append(answered, job) /\ UNCHANGED waiting

\* One memory answer may complete several steps.
Answer(jobs) ==
  /\ jobs # {} /\ waiting' = waiting \ jobs
  /\ \E q \in Bijection(1 .. Cardinality(jobs), jobs) : answered' = answered \o q

Pop == answered # <<>> /\ answered' = Tail(answered) /\ UNCHANGED waiting

Next ==
  \/ \E job \in Jobs : Ask(job) \/ AnswerAtOnce(job)
  \/ \E jobs \in SUBSET waiting : Answer(jobs)
  \/ Pop

Spec == Init /\ [][Next]_vars

=============================================================================
