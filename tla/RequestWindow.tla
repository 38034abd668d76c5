---------------------------- MODULE RequestWindow ----------------------------
(***************************************************************************)
(* What the task engine promises the trace reader: at most Depth requests  *)
(* are in flight, their levels finish in any order, and they retire in the *)
(* order they were accepted, each one with its last level at the earliest. *)
(***************************************************************************)
EXTENDS Integers

CONSTANTS Depth, MaxReqs, Levels

VARIABLES
  accepted,  \* requests accepted so far
  retired,   \* requests retired so far
  finished   \* pairs of a request and a level that is finished

Init == accepted = 0 /\ retired = 0 /\ finished = {}

Accept ==
  /\ accepted < MaxReqs /\ accepted - retired < Depth
  /\ accepted' = accepted + 1
  /\ UNCHANGED <<retired, finished>>

InFlight == (retired .. accepted - 1) \X Levels

Complete(k) ==
  /\ k \in InFlight \ finished
  /\ finished' = finished \cup {k}
  /\ UNCHANGED <<accepted, retired>>

\* The oldest request retires, perhaps in the step that finishes its last level.
Retire ==
  LET open == {l \in Levels : <<retired, l>> \notin finished} IN
  /\ retired < accepted /\ \E last \in Levels : open \subseteq {last}
  /\ finished' = finished \cup {<<retired, l>> : l \in open}
  /\ retired' = retired + 1
  /\ UNCHANGED accepted

Next == Accept \/ (\E k \in InFlight : Complete(k)) \/ Retire

Spec == Init /\ [][Next]_<<accepted, retired, finished>>
=============================================================================
