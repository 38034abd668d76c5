---------------------------- MODULE PageAllocator ----------------------------
(***************************************************************************)
(* The translation of virtual pages (page_allocator of src/src/Memory.h,   *)
(* with translation = Random): a page is given a free frame when it is     *)
(* first accessed, the next one from a random place on, and a random frame *)
(* that is in use once none is free.                                       *)
(***************************************************************************)
EXTENDS Naturals, FiniteSets

CONSTANTS
  Cores, Pages,    \* virtual pages of a core
  Frames           \* number of physical pages

ASSUME PageAllocatorAssumption == Frames \in Nat \ {0}

VARIABLES
  free_physical_pages,             \* frame -> core, or Free
  free_physical_pages_remaining,
  page_translation                 \* the pages accessed so far -> frame

vars == <<free_physical_pages, free_physical_pages_remaining, page_translation>>

Free == "free"
Frame == 0 .. Frames - 1

ASSUME FreeAssumption == Free \notin Cores

-----------------------------------------------------------------------------
Init ==
  /\ free_physical_pages = [f \in Frame |-> Free]
  /\ free_physical_pages_remaining = Frames
  /\ page_translation = <<>>

\* How far from start the first free frame is; the search ends after a whole turn.
Found(start) ==
  CHOOSE d \in 0 .. Frames :
    /\ free_physical_pages[(start + d) % Frames] = Free \/ d = Frames
    /\ \A e \in 0 .. d - 1 : free_physical_pages[(start + e) % Frames] # Free

\* Mutant of Searched: the random frame is taken as it is.
SearchedNot(start) == start

Searched(start) == (start + Found(start)) % Frames

Translate(target, frame) ==
  page_translation' = [t \in DOMAIN page_translation \cup {target} |->
                         IF t = target THEN frame ELSE page_translation[t]]

\* A first access while frames are free ...
Assign(core, page) ==
  /\ <<core, page>> \notin DOMAIN page_translation
  /\ free_physical_pages_remaining > 0
  /\ \E start \in Frame :
       /\ Translate(<<core, page>>, Searched(start))
       /\ free_physical_pages' = [free_physical_pages EXCEPT ![Searched(start)] = core]
  /\ free_physical_pages_remaining' = free_physical_pages_remaining - 1

\* ... and one after that: the page that has the frame keeps it as well.
Replace(core, page) ==
  /\ <<core, page>> \notin DOMAIN page_translation
  /\ free_physical_pages_remaining = 0
  /\ \E frame \in Frame : Translate(<<core, page>>, frame)
  /\ UNCHANGED <<free_physical_pages, free_physical_pages_remaining>>

Next == \E core \in Cores, page \in Pages : Assign(core, page) \/ Replace(core, page)

Spec == Init /\ [][Next]_vars

-----------------------------------------------------------------------------
TypeOK ==
  /\ free_physical_pages \in [Frame -> Cores \cup {Free}]
  /\ free_physical_pages_remaining \in 0 .. Frames
  /\ DOMAIN page_translation \subseteq Cores \X Pages
  /\ \A t \in DOMAIN page_translation : page_translation[t] \in Frame

\* The count of free frames, on which page_allocator decides whether to search for
\* one, is right: a search that starts anywhere finds a free frame, as the assert
\* after it says.
RemainingIsFree ==
  free_physical_pages_remaining = Cardinality({f \in Frame : free_physical_pages[f] = Free})

\* Two pages, of one core or of two, share a frame only when there is none left.
SharedOnlyWhenFull ==
  \A t, u \in DOMAIN page_translation :
    t # u /\ page_translation[t] = page_translation[u] => free_physical_pages_remaining = 0

\* The frames of the pages accessed so far are not free.
FramesAreTaken ==
  \A t \in DOMAIN page_translation : free_physical_pages[page_translation[t]] # Free

=============================================================================
