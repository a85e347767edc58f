---------------------------- MODULE PageAllocator ----------------------------
(***************************************************************************)
(* The physical page allocator of sys/page.c.                              *)
(*                                                                         *)
(* pageMap is an array with one word per page frame.  The word of a free   *)
(* frame is the number of the next free frame, the word of an owned frame  *)
(* is 0, and the word one past the last frame is (uint64_t)-1, which ends  *)
(* the list.  firstFreepage is the head of the list.                       *)
(*                                                                         *)
(* init_pageTable builds the array (init_page), takes every frame below    *)
(* the end of the array out of the list (the "reserve" loop) and puts the  *)
(* frames between the start of the memory region and the kernel image back *)
(* (the "release" loop); afterwards the kernel calls allocatePage and      *)
(* deallocatePage.  Frames are named by number: PAGE_SIZE only scales.     *)
(***************************************************************************)
EXTENDS Naturals

CONSTANTS LastPage,      \* lastPage: number of frames, index of the end word
          EndMark,       \* (uint64_t)-1, larger than any index
          BasePage,      \* base / PAGE_SIZE, start of the memory region
          PhysbasePage,  \* physbase / PAGE_SIZE, start of the kernel image
          PhysfreePage   \* end of the kernel image and of pageMap, rounded up

\* The image and the array lie inside the memory the array describes.
ASSUME LayoutAssumption ==
  /\ LastPage \in Nat \ {0} /\ EndMark \in Nat /\ EndMark > LastPage
  /\ BasePage \in Nat /\ PhysbasePage \in Nat /\ PhysfreePage \in Nat
  /\ PhysbasePage <= PhysfreePage /\ PhysfreePage <= LastPage

VARIABLES pageMap, firstFreepage,
          phase,         \* which part of init_pageTable runs, then "serve"
          i,             \* the loop counter of init_pageTable
          ret,           \* the latest value unsetPage returned
          owned          \* history: frames allocatePage has handed out

vars == <<pageMap, firstFreepage, phase, i, ret, owned>>

Frame == 0 .. LastPage - 1
Word  == 0 .. LastPage

TypeOK ==
  /\ pageMap \in [Word -> Word \cup {EndMark}]
  /\ firstFreepage \in Word
  /\ phase \in {"reserve", "release", "serve"}
  /\ i \in Nat
  /\ ret \in Frame \cup {EndMark}
  /\ owned \subseteq Frame
------------------------------------------------------------------------------
\* init_page: every word names the next frame, the end word is (uint64_t)-1.
InitPage == [w \in Word |-> IF w = LastPage THEN EndMark ELSE w + 1]

Init ==
  /\ pageMap = InitPage
  /\ firstFreepage = 0
  /\ phase = "reserve"
  /\ i = 0
  /\ ret = EndMark
  /\ owned = {}

\* The word of the frame taken is not cleared.
UnsetPage_NoClear ==
  IF pageMap[firstFreepage] = EndMark
  THEN ret' = EndMark /\ UNCHANGED <<pageMap, firstFreepage>>
  ELSE /\ firstFreepage' = pageMap[firstFreepage]
       /\ ret' = firstFreepage
       /\ UNCHANGED pageMap

\* The scan stops one word late.
Scan_Late(index) ==
  CHOOSE a \in firstFreepage .. LastPage :
    /\ ~(pageMap[a] <= index + 1)
    /\ \A b \in firstFreepage .. a - 1 : pageMap[b] <= index + 1

\* The second loop runs up to and including the first frame of the image.
Release_OffByOne ==
  /\ phase = "release"
  /\ IF i <= PhysbasePage
     THEN /\ pageMap' = [pageMap EXCEPT ![i] = firstFreepage]
          /\ firstFreepage' = i /\ i' = i + 1
          /\ UNCHANGED <<ret, phase>>
     ELSE phase' = "serve" /\ UNCHANGED <<i, pageMap, firstFreepage, ret>>
  /\ UNCHANGED owned

\* unsetPage: unlink the head of the list, or return -1 at the end word.
UnsetPage ==
  LET l == firstFreepage IN
  IF pageMap[l] = EndMark
  THEN ret' = EndMark /\ UNCHANGED <<pageMap, firstFreepage>>
  ELSE /\ firstFreepage' = pageMap[l]
       /\ pageMap' = [pageMap EXCEPT ![l] = 0]
       /\ ret' = l

\* The scan of setPage: the first word, from the head of the list on, that is
\* not below index.  Words of frames in use are 0 and are stepped over.
Scan(index) ==
  CHOOSE a \in firstFreepage .. LastPage :
    /\ ~(pageMap[a] < index)
    /\ \A b \in firstFreepage .. a - 1 : pageMap[b] < index

\* setPage: link frame index in, as the new head or behind the scanned word.
\* The head itself is left alone.
SetPage(index) ==
  /\ pageMap' =
       CASE index < firstFreepage -> [pageMap EXCEPT ![index] = firstFreepage]
         [] index > firstFreepage ->
              LET a == Scan(index)
              IN  [pageMap EXCEPT ![a] = index, ![index] = pageMap[a]]
         [] OTHER -> pageMap
  /\ firstFreepage' = IF index < firstFreepage THEN index ELSE firstFreepage
  /\ UNCHANGED ret
------------------------------------------------------------------------------
\* for(i=0;i<physfree/PAGE_SIZE;i++) unsetPage();
Reserve ==
  /\ phase = "reserve"
  /\ IF i < PhysfreePage
     THEN UnsetPage /\ i' = i + 1 /\ UNCHANGED phase
     ELSE /\ phase' = "release" /\ i' = BasePage
          /\ UNCHANGED <<pageMap, firstFreepage, ret>>
  /\ UNCHANGED owned

\* for(i=base/PAGE_SIZE;i<physbase/PAGE_SIZE;i++) setPage(i);
Release ==
  /\ phase = "release"
  /\ IF i < PhysbasePage
     THEN SetPage(i) /\ i' = i + 1 /\ UNCHANGED phase
     ELSE phase' = "serve" /\ UNCHANGED <<i, pageMap, firstFreepage, ret>>
  /\ UNCHANGED owned

\* allocatePage: NULL is returned for EndMark, the frame's address otherwise.
AllocatePage ==
  /\ phase = "serve"
  /\ UnsetPage
  /\ owned' = owned \cup ({ret'} \ {EndMark})
  /\ UNCHANGED <<phase, i>>

\* deallocatePage, called (by kfree) for a frame allocatePage handed out.
DeallocatePage ==
  /\ phase = "serve"
  /\ \E index \in owned : SetPage(index) /\ owned' = owned \ {index}
  /\ UNCHANGED <<phase, i>>

Next == Reserve \/ Release \/ AllocatePage \/ DeallocatePage

Spec == Init /\ [][Next]_vars
------------------------------------------------------------------------------
FreeFrame == {p \in Frame : pageMap[p] # 0}

\* What init_pageTable keeps for good: everything below the end of pageMap but
\* the frames between the start of the region and the kernel image.
ReservedFrame == (0 .. PhysfreePage - 1) \ (BasePage .. PhysbasePage - 1)

\* The words of the free frames form one list in increasing order: the head is
\* the lowest free frame, each free frame's word names the next higher free
\* frame or the end word.  setPage's scan relies on it, and on the words of the
\* frames in use being 0; a word left behind by unsetPage or setPage breaks it.
SortedFreeList ==
  /\ pageMap[LastPage] = EndMark
  /\ firstFreepage \in FreeFrame \cup {LastPage}
  /\ \A q \in FreeFrame : firstFreepage <= q
  /\ \A p \in FreeFrame :
       /\ pageMap[p] \in FreeFrame \cup {LastPage}
       /\ p < pageMap[p]
       /\ \A q \in FreeFrame : p < q => pageMap[p] <= q

\* Once init_pageTable has returned every frame is exactly one of free, handed
\* out, or reserved: allocatePage never hands out a frame twice, nor one of the
\* kernel image or of pageMap itself, and deallocatePage loses none.
FrameAccounting ==
  phase = "serve" => /\ Frame \ FreeFrame = ReservedFrame \cup owned
                     /\ owned \cap ReservedFrame = {}

\* The allocator is the pool its callers believe in: a request is answered with
\* the lowest free frame, is refused only when no frame is free, and a frame
\* given back is free again.
Pool == INSTANCE FramePool
          WITH Frame <- Frame, NoFrame <- EndMark, free <- FreeFrame, ret <- ret

PoolRefinement == Pool!PoolSpec
==============================================================================
