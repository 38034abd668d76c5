------------------------ MODULE PageAllocator_proofs ------------------------
(***************************************************************************)
(* Proofs about the translation of virtual pages, for every number of      *)
(* frames and all sets of cores and pages.                                 *)
(***************************************************************************)
EXTENDS PageAllocator, Integers, TLAPS, FiniteSetTheorems, WellFoundedInduction

USE PageAllocatorAssumption, FreeAssumption

FreeFrames == {f \in Frame : free_physical_pages[f] = Free}

-----------------------------------------------------------------------------
(***************************************************************************)
(* The search for a free frame.                                            *)
(***************************************************************************)

\* A search that starts at start visits frame f after less than a whole turn.
LEMMA FramesInReach ==
  ASSUME NEW start \in Frame, NEW f \in Frame
  PROVE  \E d \in 0 .. Frames - 1 : (start + d) % Frames = f
<1>1. start \in Nat /\ f \in Nat /\ start < Frames /\ f < Frames
  BY DEF Frame
<1>2. CASE start <= f
  <2>1. f - start \in 0 .. Frames - 1 /\ (start + (f - start)) % Frames = f
    BY <1>1, <1>2
  <2> QED BY <2>1
<1>3. CASE f < start
  <2>1. f - start + Frames \in 0 .. Frames - 1 /\ start + (f - start + Frames) = f + Frames
    BY <1>1, <1>3
  <2>2. (f + Frames) % Frames = f
    BY <1>1
  <2> QED BY <2>1, <2>2
<1> QED BY <1>1, <1>2, <1>3

\* Every frame a search visits is one.
LEMMA SearchStaysInside ==
  ASSUME NEW start \in Frame, NEW d \in 0 .. Frames
  PROVE  (start + d) % Frames \in Frame
BY DEF Frame

\* While a frame is free, a search from anywhere ends at a free one.
LEMMA SearchFinds ==
  ASSUME FreeFrames # {}, NEW start \in Frame
  PROVE  Searched(start) \in FreeFrames
<1> DEFINE FreeAt(d) == free_physical_pages[(start + d) % Frames] = Free
           D         == {d \in 0 .. Frames - 1 : FreeAt(d)}
<1>1. D # {}
  <2>1. PICK f \in Frame : free_physical_pages[f] = Free
    BY DEF FreeFrames
  <2>2. PICK d \in 0 .. Frames - 1 : (start + d) % Frames = f
    BY FramesInReach
  <2> QED BY <2>1, <2>2
<1>2. PICK d \in D : \A e \in D : ~(<<e, d>> \in OpToRel(<, Nat))
  <2>1. D \subseteq Nat
    OBVIOUS
  <2> HIDE DEF D
  <2> QED BY <1>1, <2>1, NatLessThanWellFounded, WFMin
<1>3. \A e \in 0 .. d - 1 : ~FreeAt(e)
  <2> SUFFICES ASSUME NEW e \in 0 .. d - 1, FreeAt(e) PROVE FALSE
    OBVIOUS
  <2>0. d \in 0 .. Frames - 1
    BY <1>2
  <2>1. e \in 0 .. Frames - 1 /\ e < d /\ e \in Nat /\ d \in Nat
    BY <2>0
  <2>2. <<e, d>> \in OpToRel(<, Nat)
    BY <2>1 DEF OpToRel
  <2>3. e \in D
    BY <2>1
  <2> QED BY <1>2, <2>2, <2>3
<1> DEFINE Ends(e) == /\ FreeAt(e) \/ e = Frames
                      /\ \A c \in 0 .. e - 1 : ~FreeAt(c)
<1>4. d \in 0 .. Frames /\ Ends(d)
  <2>1. d \in 0 .. Frames - 1
    BY <1>2
  <2>2. d \in 0 .. Frames
    BY <2>1
  <2>3. FreeAt(d)
    BY <1>2
  <2> QED BY <1>3, <2>2, <2>3
<1>5. Found(start) = CHOOSE e \in 0 .. Frames : Ends(e)
  BY DEF Found
<1> HIDE DEF Ends
<1>6. Found(start) \in 0 .. Frames /\ Ends(Found(start))
  BY <1>4, <1>5
<1>7. FreeAt(Found(start))
  <2>1. ~(\A c \in 0 .. Frames - 1 : ~FreeAt(c))
    BY <1>2
  <2> QED BY <1>6, <2>1 DEF Ends
<1>8. (start + Found(start)) % Frames \in Frame
  BY <1>6, SearchStaysInside
<1> QED BY <1>7, <1>8 DEF Searched, FreeFrames

-----------------------------------------------------------------------------
(***************************************************************************)
(* The inductive invariant.                                                *)
(***************************************************************************)
IInv == TypeOK /\ RemainingIsFree /\ FramesAreTaken /\ SharedOnlyWhenFull

LEMMA InitInv == Init => IInv
<1> SUFFICES ASSUME Init PROVE IInv
  OBVIOUS
<1>1. DOMAIN page_translation = {}
  BY DEF Init
<1>2. TypeOK
  BY <1>1 DEF Init, TypeOK
<1>3. RemainingIsFree
  <2>1. {f \in Frame : free_physical_pages[f] = Free} = 0 .. Frames - 1
    BY DEF Init, Frame
  <2>2. Cardinality(0 .. Frames - 1) = Frames
    BY FS_Interval
  <2> QED BY <2>1, <2>2 DEF RemainingIsFree, Init
<1> QED BY <1>1, <1>2, <1>3 DEF IInv, FramesAreTaken, SharedOnlyWhenFull

\* The frames that are free can be counted.
LEMMA CountedFrames ==
  /\ IsFiniteSet(FreeFrames) /\ Cardinality(FreeFrames) \in Nat
  /\ Cardinality(FreeFrames) = 0 <=> FreeFrames = {}
<1>1. IsFiniteSet(FreeFrames)
  <2>1. IsFiniteSet(0 .. Frames - 1)
    BY FS_Interval
  <2> QED BY <2>1, FS_Subset DEF FreeFrames, Frame
<1> QED BY <1>1, FS_CardinalityType, FS_EmptySet

\* A free frame is taken by the new page, and by no other.
LEMMA AssignInv ==
  ASSUME IInv, NEW core \in Cores, NEW page \in Pages, Assign(core, page)
  PROVE  IInv'
<1> DEFINE t == <<core, page>>
<1>1. PICK start \in Frame :
         /\ Translate(t, Searched(start))
         /\ free_physical_pages' = [free_physical_pages EXCEPT ![Searched(start)] = core]
  BY DEF Assign
<1> DEFINE s == Searched(start)
<1>2. /\ t \notin DOMAIN page_translation /\ free_physical_pages_remaining > 0
      /\ free_physical_pages_remaining' = free_physical_pages_remaining - 1
  BY DEF Assign
<1>3. /\ free_physical_pages \in [Frame -> Cores \cup {Free}]
      /\ free_physical_pages_remaining \in 0 .. Frames
      /\ DOMAIN page_translation \subseteq Cores \X Pages
      /\ \A u \in DOMAIN page_translation : page_translation[u] \in Frame
  BY DEF IInv, TypeOK
<1>4. free_physical_pages_remaining = Cardinality(FreeFrames)
  BY DEF IInv, RemainingIsFree, FreeFrames
<1>5. s \in FreeFrames /\ s \in Frame /\ free_physical_pages[s] = Free
  <2>1. FreeFrames # {}
    BY <1>2, <1>4, CountedFrames
  <2> QED BY <2>1, SearchFinds DEF FreeFrames
<1> HIDE DEF s
<1>6. \A f \in Frame : free_physical_pages'[f] = IF f = s THEN core ELSE free_physical_pages[f]
  BY <1>1, <1>3 DEF s
<1>7. page_translation' = [u \in DOMAIN page_translation \cup {t} |->
                             IF u = t THEN s ELSE page_translation[u]]
  BY <1>1 DEF Translate, s
<1>8. TypeOK'
  <2>1. free_physical_pages' \in [Frame -> Cores \cup {Free}]
    BY <1>1, <1>3
  <2>2. free_physical_pages_remaining' \in 0 .. Frames
    BY <1>2, <1>3
  <2>3. DOMAIN page_translation' \subseteq Cores \X Pages
    BY <1>3, <1>7
  <2>4. \A u \in DOMAIN page_translation' : page_translation'[u] \in Frame
    BY <1>3, <1>5, <1>7
  <2> QED BY <2>1, <2>2, <2>3, <2>4 DEF TypeOK
<1>9. RemainingIsFree'
  <2>1. FreeFrames' = FreeFrames \ {s}
    BY <1>6 DEF FreeFrames
  <2>2. Cardinality(FreeFrames \ {s}) = Cardinality(FreeFrames) - 1
    BY <1>5, CountedFrames, FS_RemoveElement
  <2> QED BY <1>2, <1>4, <2>1, <2>2 DEF RemainingIsFree, FreeFrames
<1>10. FramesAreTaken'
  <2> SUFFICES ASSUME NEW u \in DOMAIN page_translation'
               PROVE  free_physical_pages'[page_translation'[u]] # Free
    BY DEF FramesAreTaken
  <2>1. CASE u = t
    BY <1>5, <1>6, <1>7, <2>1
  <2>2. CASE u # t
    <3>1. u \in DOMAIN page_translation /\ page_translation'[u] = page_translation[u]
      BY <1>7, <2>2
    <3> QED BY <1>3, <1>6, <3>1 DEF IInv, FramesAreTaken
  <2> QED BY <2>1, <2>2
<1>11. SharedOnlyWhenFull'
  <2> SUFFICES ASSUME NEW u \in DOMAIN page_translation', NEW v \in DOMAIN page_translation',
                      u # v, page_translation'[u] = page_translation'[v]
               PROVE  FALSE
    BY DEF SharedOnlyWhenFull
  <2>1. \A w \in DOMAIN page_translation' :
           \/ w = t /\ page_translation'[w] = s
           \/ /\ w \in DOMAIN page_translation /\ page_translation'[w] = page_translation[w]
              /\ page_translation[w] # s
    <3>1. \A w \in DOMAIN page_translation : page_translation[w] # s
      BY <1>5 DEF IInv, FramesAreTaken
    <3> QED BY <1>7, <3>1
  <2>2. page_translation[u] # page_translation[v] \/ u \notin DOMAIN page_translation
          \/ v \notin DOMAIN page_translation
    BY <1>2, <1>3 DEF IInv, SharedOnlyWhenFull
  <2> QED BY <2>1, <2>2
<1> QED BY <1>8, <1>9, <1>10, <1>11 DEF IInv

\* Once no frame is free the new page takes a frame that some page may have.
LEMMA ReplaceInv ==
  ASSUME IInv, NEW core \in Cores, NEW page \in Pages, Replace(core, page)
  PROVE  IInv'
<1> DEFINE t == <<core, page>>
<1>1. PICK frame \in Frame : Translate(t, frame)
  BY DEF Replace
<1>2. /\ free_physical_pages_remaining = 0
      /\ UNCHANGED <<free_physical_pages, free_physical_pages_remaining>>
  BY DEF Replace
<1>3. page_translation' = [u \in DOMAIN page_translation \cup {t} |->
                             IF u = t THEN frame ELSE page_translation[u]]
  BY <1>1 DEF Translate
<1>4. TypeOK'
  BY <1>2, <1>3 DEF IInv, TypeOK
<1>5. RemainingIsFree'
  BY <1>2 DEF IInv, RemainingIsFree
<1>6. FramesAreTaken'
  <2>1. FreeFrames = {}
    BY <1>2, CountedFrames DEF IInv, RemainingIsFree, FreeFrames
  <2>2. \A u \in DOMAIN page_translation' : page_translation'[u] \in Frame
    BY <1>4 DEF TypeOK
  <2> QED BY <1>2, <2>1, <2>2 DEF FramesAreTaken, FreeFrames
<1>7. SharedOnlyWhenFull'
  BY <1>2 DEF SharedOnlyWhenFull
<1> QED BY <1>4, <1>5, <1>6, <1>7 DEF IInv

-----------------------------------------------------------------------------
(***************************************************************************)
(* Theorems.                                                               *)
(***************************************************************************)

\* IInv holds in every reachable state.
THEOREM PagesInvariance == Spec => []IInv
<1>1. IInv /\ [Next]_vars => IInv'
  <2> SUFFICES ASSUME IInv, [Next]_vars PROVE IInv'
    OBVIOUS
  <2>1. ASSUME NEW core \in Cores, NEW page \in Pages, Assign(core, page) PROVE IInv'
    BY <2>1, AssignInv
  <2>2. ASSUME NEW core \in Cores, NEW page \in Pages, Replace(core, page) PROVE IInv'
    BY <2>2, ReplaceInv
  <2>3. CASE UNCHANGED vars
    BY <2>3 DEF vars, IInv, TypeOK, RemainingIsFree, FramesAreTaken, SharedOnlyWhenFull
  <2> QED BY <2>1, <2>2, <2>3 DEF Next
<1> QED BY <1>1, InitInv, PTL DEF Spec

\* No two pages share a frame while one is free, for every number of frames and
\* wherever the random search starts (page_allocator).
THEOREM FramesNotShared == Spec => []SharedOnlyWhenFull
<1>1. IInv => SharedOnlyWhenFull
  BY DEF IInv
<1> QED BY <1>1, PagesInvariance, PTL

\* The count of free frames is right, so that the assert after the search holds.
THEOREM SearchSucceeds ==
  Spec => [](free_physical_pages_remaining > 0 =>
               \A start \in Frame : free_physical_pages[Searched(start)] = Free)
<1>1. IInv => (free_physical_pages_remaining > 0 =>
                 \A start \in Frame : free_physical_pages[Searched(start)] = Free)
  <2> SUFFICES ASSUME IInv, free_physical_pages_remaining > 0, NEW start \in Frame
               PROVE  free_physical_pages[Searched(start)] = Free
    OBVIOUS
  <2>1. FreeFrames # {}
    BY CountedFrames DEF IInv, RemainingIsFree, FreeFrames
  <2> QED BY <2>1, SearchFinds DEF FreeFrames
<1> QED BY <1>1, PagesInvariance, PTL

=============================================================================
