--------------------------- MODULE AllocatorProofs ---------------------------
(***************************************************************************)
(* Proofs about the two allocators: the page frames of the kernel and the  *)
(* heap of a program.  They share no state, and both are shown to implement*)
(* what their callers believe in, FramePool and BlockHeap.                 *)
(*                                                                         *)
(* The heap of libc/malloc.c, for any sizes and any break: the blocks lie  *)
(* in the order of the list, and what is handed out meets nothing the      *)
(* program holds.                                                          *)
(*                                                                         *)
(* The free list of sys/page.c, for every memory size and layout: it is    *)
(* sorted and exact, and no frame is lost or handed out twice.  The        *)
(* inductive invariant adds to SortedFreeList what each loop of            *)
(* init_pageTable has done so far: after i calls of unsetPage the frames   *)
(* below i are in use, and the second loop has given back exactly the      *)
(* frames from BasePage up to i.                                           *)
(***************************************************************************)
EXTENDS PageAllocator, UserHeap, TLAPS, WellFoundedInduction

------------------------------------------------------------------------------
\* The heap.

\* The first cell behind a block and its list node.
EndOf(b) == b.address + b.size + NodeSize

\* Blocks lie below the break in the order of the list, each with its node
\* behind it, and what sb_malloc gave the program lies between them.
BlocksInOrder ==
  /\ \A h \in 1 .. Len(blocks) : blocks[h].asked <= blocks[h].size
                                 /\ EndOf(blocks[h]) <= brk
  /\ \A h, k \in 1 .. Len(blocks) : h < k => EndOf(blocks[h]) <= blocks[k].address

RawBetween ==
  /\ \A r \in raw : /\ r.lo + r.len <= brk
                    /\ \A h \in 1 .. Len(blocks) :
                         r.lo + r.len <= blocks[h].address \/ EndOf(blocks[h]) <= r.lo
  /\ \A r, s \in raw : r # s => Promise!Disjoint(r, s)

\* The marks in the list are right.
MarkedIsHeld == \A h \in 1 .. Len(blocks) : blocks[h].asked > 0 <=> blocks[h].alloc1dealloc0 = 1

HeapInv == HeapTypeOK /\ brk <= MaxBrk /\ BlocksInOrder /\ RawBetween /\ MarkedIsHeld

\* The fields of the blocks are numbers.
LEMMA BlockFields ==
  ASSUME blocks \in Seq(Block), NEW k \in 1 .. Len(blocks)
  PROVE  /\ blocks[k] \in Block
         /\ blocks[k].address \in Nat
         /\ blocks[k].size \in Nat /\ blocks[k].size > 0
         /\ blocks[k].asked \in Nat
<1>1. blocks[k] \in Block
  OBVIOUS
<1> QED
  BY <1>1 DEF Block

\* Replacing an element of a sequence.
LEMMA ReplaceAt ==
  ASSUME NEW S, NEW s \in Seq(S), NEW h \in 1 .. Len(s), NEW x \in S
  PROVE  LET t == [s EXCEPT ![h] = x] IN
         /\ t \in Seq(S) /\ Len(t) = Len(s)
         /\ \A k \in 1 .. Len(s) : k # h => t[k] = s[k]
         /\ t[h] = x
  OBVIOUS

\* What a step that only marks block k leaves: all but the mark and the size
\* asked for.
LEMMA MarkKeepsOrder ==
  ASSUME HeapInv, UNCHANGED <<brk, raw>>, parity' \in {0, 1},
         blocks' \in Seq(Block), Len(blocks') = Len(blocks),
         \A h \in 1 .. Len(blocks) : /\ blocks'[h].address = blocks[h].address
                                     /\ blocks'[h].size = blocks[h].size
                                     /\ blocks'[h].asked <= blocks[h].size
                                     /\ blocks'[h].asked > 0 <=> blocks'[h].alloc1dealloc0 = 1
  PROVE  HeapInv'
<1>1. blocks \in Seq(Block) /\ brk \in Nat /\ raw \subseteq Range
  BY DEF HeapInv, HeapTypeOK
<1>2. \A h \in 1 .. Len(blocks) : EndOf(blocks'[h]) = EndOf(blocks[h])
  BY DEF EndOf
<1>3. BlocksInOrder'
  BY <1>1, <1>2 DEF HeapInv, BlocksInOrder, EndOf
<1>4. RawBetween'
  BY <1>1, <1>2 DEF HeapInv, RawBetween, EndOf, Promise!Disjoint
<1>5. MarkedIsHeld'
  BY DEF MarkedIsHeld
<1> QED
  BY <1>1, <1>3, <1>4, <1>5 DEF HeapInv, HeapTypeOK

LEMMA ReuseKeeps ==
  ASSUME HeapInv, NEW size \in Size, NEW h \in 1 .. Len(blocks), Reuse(h, size)
  PROVE  /\ HeapInv'
         /\ Len(blocks') = Len(blocks)
         /\ \A k \in 1 .. Len(blocks) : k # h => blocks'[k] = blocks[k]
         /\ blocks[h].alloc1dealloc0 = 0 /\ blocks'[h].alloc1dealloc0 = 1
         /\ blocks'[h].address = blocks[h].address
         /\ blocks'[h].asked = size
<1>1. blocks \in Seq(Block) /\ size \in Nat \ {0}
  BY HeapAssumption DEF HeapInv, HeapTypeOK, HeapAssumption
<1>2. blocks[h].alloc1dealloc0 = 0 /\ blocks[h].size > size
  BY DEF Reuse, IsMintemp, Candidates, Fits
<1>3. blocks' = [blocks EXCEPT ![h] = [blocks[h] EXCEPT !.alloc1dealloc0 = 1, !.asked = size]]
  BY <1>1 DEF Reuse, Block
<1>4. blocks[h] \in Block
  BY <1>1
<1>5. [blocks[h] EXCEPT !.alloc1dealloc0 = 1, !.asked = size] \in Block
  BY <1>1, <1>4 DEF Block
<1>6. /\ blocks' \in Seq(Block) /\ Len(blocks') = Len(blocks)
      /\ \A k \in 1 .. Len(blocks) : k # h => blocks'[k] = blocks[k]
      /\ blocks'[h] = [blocks[h] EXCEPT !.alloc1dealloc0 = 1, !.asked = size]
  <2> DEFINE x == [blocks[h] EXCEPT !.alloc1dealloc0 = 1, !.asked = size]
  <2>1. x \in Block /\ blocks' = [blocks EXCEPT ![h] = x]
    BY <1>3, <1>5
  <2> HIDE DEF x
  <2>2. /\ blocks' \in Seq(Block) /\ Len(blocks') = Len(blocks)
        /\ \A k \in 1 .. Len(blocks) : k # h => blocks'[k] = blocks[k]
        /\ blocks'[h] = x
    BY <2>1, <1>1, ReplaceAt
  <2> QED
    BY <2>2 DEF x
<1>7. /\ blocks'[h].address = blocks[h].address /\ blocks'[h].size = blocks[h].size
      /\ blocks'[h].asked = size /\ blocks'[h].alloc1dealloc0 = 1
  BY <1>4, <1>6 DEF Block
<1>8. \A k \in 1 .. Len(blocks) : /\ blocks'[k].address = blocks[k].address
                                  /\ blocks'[k].size = blocks[k].size
                                  /\ blocks'[k].asked <= blocks[k].size
                                  /\ blocks'[k].asked > 0 <=> blocks'[k].alloc1dealloc0 = 1
  <2> SUFFICES ASSUME NEW k \in 1 .. Len(blocks)
               PROVE  /\ blocks'[k].address = blocks[k].address
                      /\ blocks'[k].size = blocks[k].size
                      /\ blocks'[k].asked <= blocks[k].size
                      /\ blocks'[k].asked > 0 <=> blocks'[k].alloc1dealloc0 = 1
    OBVIOUS
  <2>1. CASE k = h
    BY <2>1, <1>1, <1>2, <1>4, <1>7 DEF Block
  <2>2. CASE k # h
    BY <2>2, <1>6 DEF HeapInv, BlocksInOrder, MarkedIsHeld
  <2> QED BY <2>1, <2>2
<1>9. HeapInv'
  BY <1>6, <1>8, MarkKeepsOrder DEF Reuse, HeapInv, HeapTypeOK
<1> QED
  BY <1>2, <1>6, <1>7, <1>9

\* free finds the block it is given: addresses are different.
LEMMA FreeKeeps ==
  ASSUME HeapInv, NEW h \in 1 .. Len(blocks), Free(h)
  PROVE  /\ HeapInv'
         /\ Len(blocks') = Len(blocks)
         /\ \A k \in 1 .. Len(blocks) : k # h => blocks'[k] = blocks[k]
         /\ blocks[h].alloc1dealloc0 = 1 /\ blocks'[h].alloc1dealloc0 = 0
<1>1. blocks \in Seq(Block) /\ NodeSize \in Nat
  BY HeapAssumption DEF HeapInv, HeapTypeOK, HeapAssumption
<1>2. PICK j \in 1 .. Len(blocks) :
             /\ blocks[j].address = blocks[h].address
             /\ blocks' = [blocks EXCEPT ![j].alloc1dealloc0 = 0, ![h].asked = 0]
  BY DEF Free
<1>3. j = h
  <2>1. \A k \in 1 .. Len(blocks) : blocks[k] \in Block
    BY <1>1
  <2>2. ASSUME NEW k \in 1 .. Len(blocks), NEW m \in 1 .. Len(blocks), k < m
        PROVE  blocks[k].address < blocks[m].address
    <3>1. /\ blocks[k].address \in Nat /\ blocks[k].size \in Nat /\ blocks[k].size > 0
          /\ blocks[m].address \in Nat
      BY <1>1, BlockFields
    <3>2. EndOf(blocks[k]) <= blocks[m].address
      BY <2>2 DEF HeapInv, BlocksInOrder
    <3> QED
      BY <3>1, <3>2, <1>1, SMTT(30) DEF EndOf
  <2>3. blocks[h].address \in Nat /\ blocks[j].address \in Nat
    BY <2>1 DEF Block
  <2>4. ~ (h < j) /\ ~ (j < h)
    BY <1>2, <2>2, <2>3
  <2> QED
    BY <2>4
<1>4. blocks[h] \in Block
  BY <1>1
<1> DEFINE x == [blocks[h] EXCEPT !.alloc1dealloc0 = 0, !.asked = 0]
<1>5. blocks' = [blocks EXCEPT ![h] = x]
  BY <1>1, <1>2, <1>3, <1>4 DEF Block
<1>6. x \in Block
  BY <1>4 DEF Block
<1>7. /\ blocks' \in Seq(Block) /\ Len(blocks') = Len(blocks)
      /\ \A k \in 1 .. Len(blocks) : k # h => blocks'[k] = blocks[k]
      /\ blocks'[h] = x
  <2> HIDE DEF x
  <2> QED BY <1>1, <1>5, <1>6, ReplaceAt
<1>8. /\ blocks'[h].address = blocks[h].address /\ blocks'[h].size = blocks[h].size
      /\ blocks'[h].asked = 0 /\ blocks'[h].alloc1dealloc0 = 0
  BY <1>4, <1>7 DEF Block
<1>9. \A k \in 1 .. Len(blocks) : /\ blocks'[k].address = blocks[k].address
                                  /\ blocks'[k].size = blocks[k].size
                                  /\ blocks'[k].asked <= blocks[k].size
                                  /\ blocks'[k].asked > 0 <=> blocks'[k].alloc1dealloc0 = 1
  <2> SUFFICES ASSUME NEW k \in 1 .. Len(blocks)
               PROVE  /\ blocks'[k].address = blocks[k].address
                      /\ blocks'[k].size = blocks[k].size
                      /\ blocks'[k].asked <= blocks[k].size
                      /\ blocks'[k].asked > 0 <=> blocks'[k].alloc1dealloc0 = 1
    OBVIOUS
  <2>0. /\ blocks[k].asked <= blocks[k].size
        /\ blocks[k].asked > 0 <=> blocks[k].alloc1dealloc0 = 1
        /\ blocks[k].asked \in Nat /\ blocks[k].size \in Nat
    BY <1>1, BlockFields DEF HeapInv, BlocksInOrder, MarkedIsHeld
  <2>1. CASE k = h
    BY <2>0, <2>1, <1>8
  <2>2. CASE k # h
    BY <2>0, <2>2, <1>7
  <2> QED BY <2>1, <2>2
<1>10. HeapInv'
  BY <1>7, <1>9, MarkKeepsOrder DEF Free, HeapInv, HeapTypeOK
<1>11. blocks[h].alloc1dealloc0 = 1
  BY DEF Free, HeapInv, MarkedIsHeld
<1> QED
  BY <1>7, <1>8, <1>10, <1>11

LEMMA ExtendKeeps ==
  ASSUME HeapInv, NEW size \in Size, Extend(size)
  PROVE  /\ HeapInv'
         /\ Len(blocks') = Len(blocks) + 1
         /\ \A k \in 1 .. Len(blocks) : blocks'[k] = blocks[k]
         /\ blocks'[Len(blocks) + 1] = [address |-> brk, size |-> size,
                                        alloc1dealloc0 |-> 1, asked |-> size]
<1>1. /\ blocks \in Seq(Block) /\ brk \in Nat /\ raw \subseteq Range
      /\ size \in Nat \ {0} /\ NodeSize \in Nat /\ MaxBrk \in Nat
  BY HeapAssumption DEF HeapInv, HeapTypeOK, HeapAssumption
<1> DEFINE new == [address |-> brk, size |-> size, alloc1dealloc0 |-> 1, asked |-> size]
<1>2. new \in Block
  BY <1>1 DEF Block
<1>3. /\ blocks' \in Seq(Block) /\ Len(blocks') = Len(blocks) + 1
      /\ \A k \in 1 .. Len(blocks) : blocks'[k] = blocks[k]
      /\ blocks'[Len(blocks) + 1] = new
  BY <1>1, <1>2 DEF Extend
<1>4. brk' = brk + size + NodeSize /\ raw' = raw /\ brk' <= MaxBrk
  BY DEF Extend
<1>5. EndOf(new) = brk' /\ new.address = brk /\ new.asked = new.size
  BY <1>1, <1>4 DEF EndOf
<1>6. \A k \in 1 .. Len(blocks') : k \in 1 .. Len(blocks) \/ k = Len(blocks) + 1
  BY <1>1, <1>3
<1>7. \A k \in 1 .. Len(blocks) : /\ EndOf(blocks[k]) \in Nat /\ EndOf(blocks[k]) <= brk
                                  /\ blocks[k].asked <= blocks[k].size
  BY <1>1, BlockFields DEF HeapInv, BlocksInOrder, EndOf
<1>8. BlocksInOrder'
  <2>1. ASSUME NEW k \in 1 .. Len(blocks')
        PROVE  blocks'[k].asked <= blocks'[k].size /\ EndOf(blocks'[k]) <= brk'
    <3>1. CASE k \in 1 .. Len(blocks)
      BY <3>1, <1>1, <1>3, <1>4, <1>7, SMTT(30)
    <3>2. CASE k = Len(blocks) + 1
      BY <3>2, <1>1, <1>3, <1>4, <1>5
    <3> QED BY <1>6, <3>1, <3>2
  <2>2. ASSUME NEW h \in 1 .. Len(blocks'), NEW k \in 1 .. Len(blocks'), h < k
        PROVE  EndOf(blocks'[h]) <= blocks'[k].address
    <3>0. h \in 1 .. Len(blocks)
      BY <2>2, <1>1, <1>6
    <3>1. CASE k \in 1 .. Len(blocks)
      BY <2>2, <3>0, <3>1, <1>3 DEF HeapInv, BlocksInOrder
    <3>2. CASE k = Len(blocks) + 1
      BY <3>0, <3>2, <1>3, <1>5, <1>7
    <3> QED BY <1>6, <3>1, <3>2
  <2> QED
    BY <2>1, <2>2 DEF BlocksInOrder, EndOf
<1>9. RawBetween'
  <2>1. ASSUME NEW r \in raw
        PROVE  /\ r.lo + r.len <= brk'
               /\ \A k \in 1 .. Len(blocks') :
                    r.lo + r.len <= blocks'[k].address \/ EndOf(blocks'[k]) <= r.lo
    <3>1. r.lo \in Nat /\ r.len \in Nat /\ r.lo + r.len <= brk
      BY <1>1 DEF HeapInv, RawBetween, Range
    <3>2. r.lo + r.len <= brk'
      BY <3>1, <1>1, <1>4
    <3>3. ASSUME NEW k \in 1 .. Len(blocks')
          PROVE  r.lo + r.len <= blocks'[k].address \/ EndOf(blocks'[k]) <= r.lo
      <4>1. CASE k \in 1 .. Len(blocks)
        BY <4>1, <1>3 DEF HeapInv, RawBetween
      <4>2. CASE k = Len(blocks) + 1
        BY <4>2, <1>3, <1>5, <3>1
      <4> QED BY <1>6, <4>1, <4>2
    <3> QED BY <3>2, <3>3
  <2> QED
    BY <2>1, <1>4 DEF HeapInv, RawBetween, EndOf, Promise!Disjoint
<1>10. MarkedIsHeld'
  <2>1. ASSUME NEW k \in 1 .. Len(blocks')
        PROVE  blocks'[k].asked > 0 <=> blocks'[k].alloc1dealloc0 = 1
    <3>1. CASE k \in 1 .. Len(blocks)
      BY <3>1, <1>3 DEF HeapInv, MarkedIsHeld
    <3>2. CASE k = Len(blocks) + 1
      BY <3>2, <1>1, <1>3
    <3> QED BY <1>6, <3>1, <3>2
  <2> QED
    BY <2>1 DEF MarkedIsHeld
<1> QED
  BY <1>1, <1>3, <1>4, <1>8, <1>9, <1>10 DEF HeapInv, HeapTypeOK, Extend

LEMMA SbMallocKeeps ==
  ASSUME HeapInv, NEW size \in Size, SbMalloc(size)
  PROVE  HeapInv'
<1>1. /\ blocks \in Seq(Block) /\ brk \in Nat /\ raw \subseteq Range
      /\ size \in Nat \ {0} /\ NodeSize \in Nat /\ MaxBrk \in Nat
  BY HeapAssumption DEF HeapInv, HeapTypeOK, HeapAssumption
<1> DEFINE new == [lo |-> brk, len |-> size]
<1>2. /\ new \in Range /\ new.lo = brk /\ new.len = size
      /\ brk' = brk + size /\ raw' = raw \cup {new} /\ blocks' = blocks /\ brk' <= MaxBrk
  BY <1>1 DEF SbMalloc, Range
<1>3. \A k \in 1 .. Len(blocks) : /\ EndOf(blocks[k]) \in Nat /\ EndOf(blocks[k]) <= brk
  BY <1>1, BlockFields DEF HeapInv, BlocksInOrder, EndOf
<1>4. BlocksInOrder'
  BY <1>1, <1>2, <1>3 DEF HeapInv, BlocksInOrder, EndOf
<1>5. \A r \in raw : r.lo \in Nat /\ r.len \in Nat /\ r.lo + r.len <= brk
  BY <1>1 DEF HeapInv, RawBetween, Range
<1>6. ASSUME NEW r \in raw'
      PROVE  /\ r.lo + r.len <= brk'
             /\ \A k \in 1 .. Len(blocks) :
                  r.lo + r.len <= blocks[k].address \/ EndOf(blocks[k]) <= r.lo
  <2>1. CASE r \in raw
    BY <2>1, <1>1, <1>2, <1>5 DEF HeapInv, RawBetween
  <2>2. CASE r = new
    BY <2>2, <1>1, <1>2, <1>3
  <2> QED BY <1>2, <2>1, <2>2
<1>7. ASSUME NEW r \in raw', NEW s \in raw', r # s
      PROVE  Promise!Disjoint(r, s)
  <2>1. CASE r \in raw /\ s \in raw
    BY <2>1, <1>7 DEF HeapInv, RawBetween
  <2>2. CASE r = new
    BY <1>7, <2>2, <1>2, <1>5 DEF Promise!Disjoint
  <2>3. CASE s = new
    BY <1>7, <2>3, <1>2, <1>5 DEF Promise!Disjoint
  <2> QED BY <1>2, <2>1, <2>2, <2>3
<1>8. RawBetween'
  BY <1>2, <1>6, <1>7 DEF RawBetween, EndOf, Promise!Disjoint
<1>9. MarkedIsHeld'
  BY <1>2 DEF HeapInv, MarkedIsHeld
<1> QED
  BY <1>1, <1>2, <1>4, <1>8, <1>9 DEF HeapInv, HeapTypeOK, SbMalloc

LEMMA Step == HeapInv /\ [HeapNext]_heapVars => HeapInv'
<1> SUFFICES ASSUME HeapInv, [HeapNext]_heapVars PROVE HeapInv'
  OBVIOUS
<1>1. ASSUME NEW size \in Size, Malloc(size) PROVE HeapInv'
  BY <1>1, ExtendKeeps, ReuseKeeps DEF Malloc
<1>2. ASSUME NEW size \in Size, SbMalloc(size) PROVE HeapInv'
  BY <1>2, SbMallocKeeps
<1>3. ASSUME NEW h \in 1 .. Len(blocks), Free(h) PROVE HeapInv'
  BY <1>3, FreeKeeps
<1>4. CASE UNCHANGED heapVars
  BY <1>4 DEF heapVars, HeapInv, HeapTypeOK, BlocksInOrder, RawBetween, MarkedIsHeld, EndOf,
              Promise!Disjoint
<1> QED
  BY <1>1, <1>2, <1>3, <1>4 DEF HeapNext, FreeUnknown

LEMMA HeapInvariant == HeapSpec => []HeapInv
<1>1. HeapInit => HeapInv
  BY HeapAssumption DEF HeapAssumption, HeapInit, HeapInv, HeapTypeOK, BlocksInOrder, RawBetween, MarkedIsHeld
<1> QED
  BY <1>1, Step, PTL DEF HeapSpec

\* For any sizes, in any order of malloc, free and sb_malloc: what free clears
\* belongs to the block alone.
THEOREM ClearsOnlyItsOwn == HeapSpec => []ClearIsPrivate
<1>1. HeapInv => ClearIsPrivate
  <2> SUFFICES ASSUME HeapInv, NEW h \in 1 .. Len(blocks)
               PROVE  LET b == blocks[h] IN
                      /\ b.asked <= b.size
                      /\ \A k \in 1 .. Len(blocks) :
                           /\ k # h => Promise!Disjoint([lo |-> b.address, len |-> b.size],
                                [lo |-> blocks[k].address, len |-> blocks[k].size])
                           /\ Promise!Disjoint([lo |-> b.address, len |-> b.size],
                                [lo |-> blocks[k].address + blocks[k].size, len |-> NodeSize])
                      /\ \A r \in raw : Promise!Disjoint([lo |-> b.address, len |-> b.size], r)
    BY DEF ClearIsPrivate
  <2>1. blocks \in Seq(Block) /\ NodeSize \in Nat /\ raw \subseteq Range
    BY HeapAssumption DEF HeapInv, HeapTypeOK, HeapAssumption
  <2>2. \A k \in 1 .. Len(blocks) : /\ blocks[k].address \in Nat /\ blocks[k].size \in Nat
                                    /\ blocks[k].asked \in Nat
    BY <2>1, BlockFields
  <2>3. \A r \in raw : r.lo \in Nat /\ r.len \in Nat
    BY <2>1 DEF Range
  <2>4. ASSUME NEW k \in 1 .. Len(blocks)
        PROVE  /\ k # h => Promise!Disjoint([lo |-> blocks[h].address, len |-> blocks[h].size],
                                [lo |-> blocks[k].address, len |-> blocks[k].size])
               /\ Promise!Disjoint([lo |-> blocks[h].address, len |-> blocks[h].size],
                    [lo |-> blocks[k].address + blocks[k].size, len |-> NodeSize])
    <3>0. /\ blocks[h].address \in Nat /\ blocks[h].size \in Nat
          /\ blocks[k].address \in Nat /\ blocks[k].size \in Nat /\ NodeSize \in Nat
      BY <2>1, <2>2
    <3>1. h # k => \/ blocks[h].address + blocks[h].size + NodeSize <= blocks[k].address
                   \/ blocks[k].address + blocks[k].size + NodeSize <= blocks[h].address
      <4>1. CASE h < k
        BY <4>1 DEF HeapInv, BlocksInOrder, EndOf
      <4>2. CASE k < h
        BY <4>2 DEF HeapInv, BlocksInOrder, EndOf
      <4> QED BY <4>1, <4>2
    <3>2. h # k => \/ blocks[h].address + blocks[h].size <= blocks[k].address
                   \/ blocks[k].address + blocks[k].size <= blocks[h].address
      BY <3>0, <3>1, SMTT(30)
    <3>3. \/ blocks[h].address + blocks[h].size <= blocks[k].address + blocks[k].size
          \/ blocks[k].address + blocks[k].size + NodeSize <= blocks[h].address
      <4>1. CASE h = k
        BY <4>1, <3>0
      <4>2. CASE h # k
        BY <4>2, <3>0, <3>1, SMTT(30)
      <4> QED BY <4>1, <4>2
    <3> QED
      BY <3>2, <3>3 DEF Promise!Disjoint
  <2>5. \A r \in raw :
          Promise!Disjoint([lo |-> blocks[h].address, len |-> blocks[h].size], r)
    BY <2>1, <2>2, <2>3 DEF HeapInv, RawBetween, EndOf, Promise!Disjoint
  <2> QED
    BY <2>4, <2>5 DEF HeapInv, BlocksInOrder
<1> QED
  BY <1>1, HeapInvariant, PTL
-----------------------------------------------------------------------------
\* The range the program got with block k.
Held(k) == [lo |-> blocks[k].address, len |-> blocks[k].asked]

\* With the marks right, what the program owns can be read off the list.
LEMMA OwnedMembers ==
  ASSUME HeapInv
  PROVE  \A r : r \in Owned <=>
           r \in raw \/ \E k \in 1 .. Len(blocks) : blocks[k].alloc1dealloc0 = 1 /\ r = Held(k)
  BY DEF Owned, Held, HeapInv, MarkedIsHeld

\* A range inside block h meets nothing else the program owns.
LEMMA InsideBlock ==
  ASSUME HeapInv, NEW h \in 1 .. Len(blocks), NEW n \in Nat, n <= blocks[h].size,
         NEW s \in Owned, s # Held(h) \/ blocks[h].alloc1dealloc0 = 0
  PROVE  Promise!Disjoint([lo |-> blocks[h].address, len |-> n], s)
<1>1. /\ blocks \in Seq(Block) /\ NodeSize \in Nat /\ raw \subseteq Range
      /\ blocks[h].address \in Nat /\ blocks[h].size \in Nat
  BY HeapAssumption, BlockFields DEF HeapInv, HeapTypeOK, HeapAssumption
<1>2. CASE s \in raw
  <2>1. s.lo \in Nat /\ s.len \in Nat
    BY <1>1, <1>2 DEF Range
  <2>2. s.lo + s.len <= blocks[h].address \/ EndOf(blocks[h]) <= s.lo
    BY <1>2 DEF HeapInv, RawBetween
  <2> QED
    BY <2>1, <2>2, <1>1, SMTT(30) DEF EndOf, Promise!Disjoint
<1>3. CASE s \notin raw
  <2>1. PICK k \in 1 .. Len(blocks) : blocks[k].alloc1dealloc0 = 1 /\ s = Held(k)
    BY <1>3, OwnedMembers
  <2>2. k # h
    BY <2>1
  <2>3. /\ blocks[k].address \in Nat /\ blocks[k].size \in Nat /\ blocks[k].asked \in Nat
        /\ blocks[k].asked <= blocks[k].size
    BY <1>1, BlockFields DEF HeapInv, BlocksInOrder
  <2>4. s.lo = blocks[k].address /\ s.len = blocks[k].asked
    BY <2>1 DEF Held
  <2>5. EndOf(blocks[h]) <= blocks[k].address \/ EndOf(blocks[k]) <= blocks[h].address
    <3>1. CASE h < k BY <3>1 DEF HeapInv, BlocksInOrder
    <3>2. CASE k < h BY <3>2 DEF HeapInv, BlocksInOrder
    <3> QED BY <2>2, <3>1, <3>2
  <2>6. \/ blocks[h].address + n <= blocks[k].address
        \/ blocks[k].address + blocks[k].asked <= blocks[h].address
    <3>1. CASE EndOf(blocks[h]) <= blocks[k].address
      <4>1. blocks[h].address + blocks[h].size + NodeSize <= blocks[k].address
        BY <3>1 DEF EndOf
      <4> QED
        BY <4>1, <2>3, <1>1, SMTT(30)
    <3>2. CASE EndOf(blocks[k]) <= blocks[h].address
      <4>1. blocks[k].address + blocks[k].size + NodeSize <= blocks[h].address
        BY <3>2 DEF EndOf
      <4> QED
        BY <4>1, <2>3, <1>1, SMTT(30)
    <3> QED BY <2>5, <3>1, <3>2
  <2> QED
    BY <2>4, <2>6 DEF Promise!Disjoint
<1> QED
  BY <1>2, <1>3

\* A range from the break on meets nothing the program owns.
LEMMA AboveBreak ==
  ASSUME HeapInv, NEW n \in Nat, NEW s \in Owned
  PROVE  Promise!Disjoint([lo |-> brk, len |-> n], s)
<1>1. blocks \in Seq(Block) /\ NodeSize \in Nat /\ raw \subseteq Range /\ brk \in Nat
  BY HeapAssumption DEF HeapInv, HeapTypeOK, HeapAssumption
<1>2. s.lo + s.len <= brk
  <2>1. CASE s \in raw
    BY <2>1 DEF HeapInv, RawBetween
  <2>2. CASE s \notin raw
    <3>1. PICK k \in 1 .. Len(blocks) : s = Held(k)
      BY <2>2, OwnedMembers
    <3>2. /\ blocks[k].address \in Nat /\ blocks[k].size \in Nat /\ blocks[k].asked \in Nat
          /\ blocks[k].asked <= blocks[k].size /\ EndOf(blocks[k]) <= brk
      BY <1>1, BlockFields DEF HeapInv, BlocksInOrder
    <3> QED
      BY <3>1, <3>2, <1>1, SMTT(30) DEF Held, EndOf
  <2> QED BY <2>1, <2>2
<1> QED
  BY <1>2 DEF Promise!Disjoint

\* Every step of malloc, free and sb_malloc is a step of BlockHeap or none.
LEMMA StepIsPromised == HeapInv /\ [HeapNext]_heapVars => [Promise!HeapNext]_<<Owned, parity>>
<1> SUFFICES ASSUME HeapInv, [HeapNext]_heapVars PROVE [Promise!HeapNext]_<<Owned, parity>>
  OBVIOUS
<1>0. /\ blocks \in Seq(Block) /\ brk \in Nat /\ MaxBrk \in Nat /\ brk <= MaxBrk
      /\ NodeSize \in Nat /\ Size \subseteq Nat \ {0} /\ raw \subseteq Range
  BY HeapAssumption DEF HeapInv, HeapTypeOK, HeapAssumption
<1>p. \A r : r \in Owned' <=>
        r \in raw' \/ \E k \in 1 .. Len(blocks') :
                       blocks'[k].alloc1dealloc0 = 1
                       /\ r = [lo |-> blocks'[k].address, len |-> blocks'[k].asked]
  BY Step DEF Owned, HeapInv, MarkedIsHeld
<1>g. ASSUME NEW lo \in 0 .. MaxBrk, NEW len \in 1 .. MaxBrk, parity' = 1 - parity,
             \A s \in Owned : Promise!Disjoint([lo |-> lo, len |-> len], s),
             \A r : r \in Owned' <=> r \in Owned \/ r = [lo |-> lo, len |-> len]
      PROVE  Promise!HeapNext
  <2> DEFINE new == [lo |-> lo, len |-> len]
  <2>1. Owned' = Owned \cup {new}
    <3>1. \A r : r \in Owned' <=> r \in Owned \/ r = new
      BY <1>g
    <3> HIDE DEF new
    <3> QED
      BY <3>1, Zenon
  <2>2. Promise!Obtain([lo |-> lo, len |-> len])
    BY <1>g, <2>1 DEF Promise!Obtain
  <2> QED
    BY <2>2 DEF Promise!HeapNext
<1>1. ASSUME NEW size \in Size, Extend(size) PROVE Promise!HeapNext
  <2>1. /\ Len(blocks') = Len(blocks) + 1
        /\ \A k \in 1 .. Len(blocks) : blocks'[k] = blocks[k]
        /\ blocks'[Len(blocks) + 1] = [address |-> brk, size |-> size,
                                       alloc1dealloc0 |-> 1, asked |-> size]
        /\ raw' = raw /\ brk + size + NodeSize <= MaxBrk /\ parity' = 1 - parity
    BY <1>1, ExtendKeeps DEF Extend
  <2>2. \A k \in 1 .. Len(blocks') : k \in 1 .. Len(blocks) \/ k = Len(blocks) + 1
    BY <2>1, <1>0
  <2>3. Len(blocks) + 1 \in 1 .. Len(blocks') /\ 1 .. Len(blocks) \subseteq 1 .. Len(blocks')
    BY <2>1, <1>0
  <2>4. ASSUME NEW r PROVE r \in Owned' <=> r \in Owned \/ r = [lo |-> brk, len |-> size]
    <3>1. ASSUME r \in Owned' PROVE r \in Owned \/ r = [lo |-> brk, len |-> size]
      <4>1. CASE r \in raw
        BY <4>1, OwnedMembers
      <4>2. CASE r \notin raw
        <5>1. PICK k \in 1 .. Len(blocks') :
                     blocks'[k].alloc1dealloc0 = 1
                     /\ r = [lo |-> blocks'[k].address, len |-> blocks'[k].asked]
          BY <3>1, <4>2, <1>p, <2>1
        <5>2. CASE k \in 1 .. Len(blocks)
          BY <5>1, <5>2, <2>1, OwnedMembers DEF Held
        <5>3. CASE k = Len(blocks) + 1
          BY <5>1, <5>3, <2>1
        <5> QED BY <5>2, <5>3, <2>2
      <4> QED BY <4>1, <4>2
    <3>2. ASSUME r \in Owned PROVE r \in Owned'
      <4>1. CASE r \in raw
        BY <4>1, <2>1, <1>p
      <4>2. CASE r \notin raw
        <5>1. PICK k \in 1 .. Len(blocks) : blocks[k].alloc1dealloc0 = 1 /\ r = Held(k)
          BY <3>2, <4>2, OwnedMembers
        <5> QED
          BY <5>1, <2>1, <2>3, <1>p DEF Held
      <4> QED BY <4>1, <4>2
    <3>3. ASSUME r = [lo |-> brk, len |-> size] PROVE r \in Owned'
      BY <3>3, <2>1, <2>3, <1>p
    <3> QED BY <3>1, <3>2, <3>3
  <2>5. brk \in 0 .. MaxBrk /\ size \in 1 .. MaxBrk /\ size \in Nat
    BY <1>0, <2>1
  <2>6. \A s \in Owned : Promise!Disjoint([lo |-> brk, len |-> size], s)
    BY <2>5, AboveBreak
  <2> QED
    BY <2>1, <2>4, <2>5, <2>6, <1>g
<1>2. ASSUME NEW size \in Size, SbMalloc(size) PROVE Promise!HeapNext
  <2>1. /\ blocks' = blocks /\ raw' = raw \cup {[lo |-> brk, len |-> size]}
        /\ brk + size <= MaxBrk /\ parity' = 1 - parity
    BY <1>2 DEF SbMalloc
  <2>2. \A r : r \in Owned' <=> r \in Owned \/ r = [lo |-> brk, len |-> size]
    BY <2>1, <1>p, OwnedMembers DEF Held
  <2>3. brk \in 0 .. MaxBrk /\ size \in 1 .. MaxBrk /\ size \in Nat
    BY <1>0, <2>1
  <2>4. \A s \in Owned : Promise!Disjoint([lo |-> brk, len |-> size], s)
    BY <2>3, AboveBreak
  <2> QED
    BY <2>1, <2>2, <2>3, <2>4, <1>g
<1>3. ASSUME NEW size \in Size, NEW h \in 1 .. Len(blocks), Reuse(h, size)
      PROVE  Promise!HeapNext
  <2>1. /\ Len(blocks') = Len(blocks) /\ raw' = raw
        /\ \A k \in 1 .. Len(blocks) : k # h => blocks'[k] = blocks[k]
        /\ blocks[h].alloc1dealloc0 = 0 /\ blocks'[h].alloc1dealloc0 = 1
        /\ blocks'[h].address = blocks[h].address /\ blocks'[h].asked = size
        /\ parity' = 1 - parity
    BY <1>3, ReuseKeeps DEF Reuse
  <2>2. blocks[h].size > size
    BY <1>3 DEF Reuse, IsMintemp, Candidates, Fits
  <2> DEFINE new == [lo |-> blocks[h].address, len |-> size]
  <2>3. ASSUME NEW r PROVE r \in Owned' <=> r \in Owned \/ r = new
    <3>1. ASSUME r \in Owned' PROVE r \in Owned \/ r = new
      <4>1. CASE r \in raw
        BY <4>1, OwnedMembers
      <4>2. CASE r \notin raw
        <5>1. PICK k \in 1 .. Len(blocks) :
                     blocks'[k].alloc1dealloc0 = 1
                     /\ r = [lo |-> blocks'[k].address, len |-> blocks'[k].asked]
          BY <3>1, <4>2, <1>p, <2>1
        <5>2. CASE k # h
          BY <5>1, <5>2, <2>1, OwnedMembers DEF Held
        <5>3. CASE k = h
          BY <5>1, <5>3, <2>1
        <5> QED BY <5>2, <5>3
      <4> QED BY <4>1, <4>2
    <3>2. ASSUME r \in Owned PROVE r \in Owned'
      <4>1. CASE r \in raw
        BY <4>1, <2>1, <1>p
      <4>2. CASE r \notin raw
        <5>1. PICK k \in 1 .. Len(blocks) : blocks[k].alloc1dealloc0 = 1 /\ r = Held(k)
          BY <3>2, <4>2, OwnedMembers
        <5>2. k # h
          BY <5>1, <2>1
        <5> QED
          BY <5>1, <5>2, <2>1, <1>p DEF Held
      <4> QED BY <4>1, <4>2
    <3>3. ASSUME r = new PROVE r \in Owned'
      BY <3>3, <2>1, <1>p
    <3> QED BY <3>1, <3>2, <3>3
  <2>4. /\ blocks[h].address \in Nat /\ blocks[h].size \in Nat /\ size \in Nat \ {0}
        /\ EndOf(blocks[h]) <= brk
    BY <1>0, BlockFields DEF HeapInv, BlocksInOrder
  <2>5. blocks[h].address \in 0 .. MaxBrk /\ size \in 1 .. MaxBrk
    BY <2>2, <2>4, <1>0 DEF EndOf
  <2>6. size <= blocks[h].size
    BY <2>2, <2>4
  <2>7. \A s \in Owned : Promise!Disjoint(new, s)
    BY <2>1, <2>4, <2>6, InsideBlock
  <2> QED
    BY <2>1, <2>3, <2>5, <2>7, <1>g
<1>4. ASSUME NEW h \in 1 .. Len(blocks), Free(h) PROVE Promise!HeapNext
  <2>1. /\ Len(blocks') = Len(blocks) /\ raw' = raw
        /\ \A k \in 1 .. Len(blocks) : k # h => blocks'[k] = blocks[k]
        /\ blocks[h].alloc1dealloc0 = 1 /\ blocks'[h].alloc1dealloc0 = 0 /\ parity' = parity
    BY <1>4, FreeKeeps DEF Free
  <2>2. Held(h) \in Owned
    BY <2>1, OwnedMembers
  <2>3. /\ blocks[h].address \in Nat /\ blocks[h].size \in Nat
        /\ blocks[h].asked \in Nat /\ blocks[h].asked > 0
        /\ blocks[h].asked <= blocks[h].size
    BY <1>0, <1>4, BlockFields DEF HeapInv, BlocksInOrder, Free
  <2>4. Held(h).lo = blocks[h].address /\ Held(h).len = blocks[h].asked
    BY DEF Held
  <2>5. Held(h) \notin raw
    <3> SUFFICES ASSUME Held(h) \in raw PROVE FALSE
      OBVIOUS
    <3>1. \/ Held(h).lo + Held(h).len <= blocks[h].address
          \/ EndOf(blocks[h]) <= Held(h).lo
      BY DEF HeapInv, RawBetween
    <3> QED
      BY <3>1, <2>3, <2>4, <1>0 DEF EndOf
  <2>6. ASSUME NEW k \in 1 .. Len(blocks), k # h PROVE Held(k) # Held(h)
    <3>1. /\ blocks[k].address \in Nat /\ blocks[k].size \in Nat /\ blocks[k].size > 0
          /\ Held(k).lo = blocks[k].address
      BY <1>0, BlockFields DEF Held
    <3>2. EndOf(blocks[h]) <= blocks[k].address \/ EndOf(blocks[k]) <= blocks[h].address
      <4>1. CASE h < k BY <4>1 DEF HeapInv, BlocksInOrder
      <4>2. CASE k < h BY <4>2 DEF HeapInv, BlocksInOrder
      <4> QED BY <2>6, <4>1, <4>2
    <3>3. blocks[k].address # blocks[h].address
      BY <3>1, <3>2, <2>3, <1>0, SMTT(30) DEF EndOf
    <3> QED
      BY <3>1, <3>3, <2>4
  <2>7. ASSUME NEW r PROVE r \in Owned' <=> r \in Owned /\ r # Held(h)
    <3>1. ASSUME r \in Owned' PROVE r \in Owned /\ r # Held(h)
      <4>1. CASE r \in raw
        BY <4>1, <2>5, OwnedMembers
      <4>2. CASE r \notin raw
        <5>1. PICK k \in 1 .. Len(blocks) :
                     blocks'[k].alloc1dealloc0 = 1
                     /\ r = [lo |-> blocks'[k].address, len |-> blocks'[k].asked]
          BY <3>1, <4>2, <1>p, <2>1
        <5>2. k # h
          BY <5>1, <2>1
        <5>3. r = Held(k) /\ blocks[k].alloc1dealloc0 = 1
          BY <5>1, <5>2, <2>1 DEF Held
        <5> QED
          BY <5>2, <5>3, <2>6, OwnedMembers
      <4> QED BY <4>1, <4>2
    <3>2. ASSUME r \in Owned, r # Held(h) PROVE r \in Owned'
      <4>1. CASE r \in raw
        BY <4>1, <2>1, <1>p
      <4>2. CASE r \notin raw
        <5>1. PICK k \in 1 .. Len(blocks) : blocks[k].alloc1dealloc0 = 1 /\ r = Held(k)
          BY <3>2, <4>2, OwnedMembers
        <5>2. k # h
          BY <5>1, <3>2
        <5> QED
          BY <5>1, <5>2, <2>1, <1>p DEF Held
      <4> QED BY <4>1, <4>2
    <3> QED BY <3>1, <3>2
  <2>8. Owned' = Owned \ {Held(h)}
    BY <2>7
  <2>9. Promise!GiveBack(Held(h))
    BY <2>1, <2>2, <2>8 DEF Promise!GiveBack
  <2> QED
    BY <2>2, <2>9 DEF Promise!HeapNext
<1>5. CASE UNCHANGED heapVars
  BY <1>5 DEF heapVars, Owned
<1>6. CASE HeapNext
  BY <1>1, <1>2, <1>3, <1>4, <1>5, <1>6 DEF HeapNext, Malloc, FreeUnknown
<1> QED
  BY <1>5, <1>6

\* libc/malloc.c and mallocSyscall implement a heap of disjoint ranges, for any
\* sizes asked for.
THEOREM HeapImplementsBlocks == HeapSpec => HeapRefinement
<1>1. HeapInit => Promise!HeapInit
  BY DEF HeapInit, Owned, Promise!HeapInit
<1> QED
  BY <1>1, StepIsPromised, HeapInvariant, PTL
  DEF HeapSpec, HeapRefinement, Promise!HeapSpec

------------------------------------------------------------------------------
\* The page frames.

UsedFrame == Frame \ FreeFrame

\* Where init_pageTable stands, as a relation between its counter and the list.
BootProgress ==
  /\ phase = "reserve" => /\ i <= PhysfreePage
                          /\ UsedFrame = 0 .. i - 1
                          /\ owned = {}
  /\ phase = "release" =>
       /\ BasePage <= i /\ (i <= PhysbasePage \/ i = BasePage)
       /\ UsedFrame = (0 .. PhysfreePage - 1) \ (BasePage .. i - 1)
       /\ owned = {}

IInv == TypeOK /\ SortedFreeList /\ BootProgress /\ FrameAccounting

USE LayoutAssumption

\* Every non-empty set of naturals has a least member.
LEMMA LeastNat ==
  ASSUME NEW S \in SUBSET Nat, S # {}
  PROVE  \E x \in S : \A y \in S : x <= y
<1>1. PICK x \in S : \A y \in S : ~ (<<y, x>> \in OpToRel(<, Nat))
  BY NatLessThanWellFounded, WFMin
<1>2. ASSUME NEW y \in S PROVE x <= y
  <2>1. ~ (y < x) BY <1>1 DEF OpToRel
  <2> QED BY <2>1
<1> QED BY <1>2

\* setPage's scan ends on the free frame just below index: its word is the
\* lowest free frame above index, or the end word.
LEMMA ScanFindsPredecessor ==
  ASSUME TypeOK, SortedFreeList, NEW index \in UsedFrame, index > firstFreepage
  PROVE  LET a == Scan(index) IN
         /\ a \in FreeFrame /\ a < index
         /\ \A q \in FreeFrame : q <= a \/ index < q
         /\ index < pageMap[a]
<1> DEFINE S == {w \in firstFreepage .. LastPage : ~(pageMap[w] < index)}
<1>1. S \in SUBSET Nat /\ LastPage \in S
  BY DEF TypeOK, SortedFreeList, UsedFrame, FreeFrame, Frame, Word
<1>2. PICK x \in S : \A y \in S : x <= y
  BY <1>1, LeastNat
<1>3. \E a \in firstFreepage .. LastPage :
        /\ ~(pageMap[a] < index)
        /\ \A b \in firstFreepage .. a - 1 : pageMap[b] < index
  <2>1. x \in firstFreepage .. LastPage /\ ~(pageMap[x] < index) OBVIOUS
  <2>2. ASSUME NEW b \in firstFreepage .. x - 1 PROVE pageMap[b] < index
    BY <2>1, <1>2 DEF TypeOK, Word, UsedFrame, Frame
  <2> QED BY <2>1, <2>2
<1> DEFINE a == Scan(index)
<1>4. /\ a \in firstFreepage .. LastPage
      /\ ~(pageMap[a] < index)
      /\ \A b \in firstFreepage .. a - 1 : pageMap[b] < index
  BY <1>3 DEF Scan
<1> HIDE DEF a
<1>5. index \in Frame /\ pageMap[index] = 0 /\ index \in Nat /\ index > 0
  BY DEF UsedFrame, FreeFrame, Frame, TypeOK, Word
<1>6. firstFreepage \in FreeFrame
  BY <1>5 DEF SortedFreeList, Frame, TypeOK, Word
<1>7. a < index
  <2>1. SUFFICES ASSUME a >= index PROVE FALSE
    BY <1>4, <1>5 DEF TypeOK, Word
  <2> DEFINE B == {n \in 0 .. LastPage :
                     \E b \in FreeFrame : b < index /\ n = LastPage - b}
  <2>2. B \in SUBSET Nat /\ B # {}
    <3>1. LastPage - firstFreepage \in B
      BY <1>6, <1>5 DEF TypeOK, Word
    <3> QED BY <3>1
  <2>3. PICK n \in B : \A m \in B : n <= m
    BY <2>2, LeastNat
  <2>4. PICK b \in FreeFrame : b < index /\ n = LastPage - b
    OBVIOUS
  <2>5. \A q \in FreeFrame : q < index => q <= b
    <3>1. SUFFICES ASSUME NEW q \in FreeFrame, q < index PROVE q <= b
      OBVIOUS
    <3>2. LastPage - q \in B
      BY <3>1, <1>5 DEF FreeFrame, Frame
    <3> QED BY <3>2, <2>3, <2>4 DEF FreeFrame, Frame
  <2>6. b \in firstFreepage .. a - 1
    BY <2>1, <2>4, <1>4, <1>5 DEF SortedFreeList, FreeFrame, Frame, TypeOK, Word
  <2>7. pageMap[b] < index BY <2>6, <1>4
  <2>8. pageMap[b] \in FreeFrame /\ b < pageMap[b]
    BY <2>7, <1>5 DEF SortedFreeList, Frame
  <2> QED BY <2>5, <2>7, <2>8 DEF FreeFrame, Frame
<1>8. a \in FreeFrame
  BY <1>4, <1>5, <1>7 DEF FreeFrame, Frame, TypeOK, Word
<1>9. pageMap[a] \in FreeFrame \cup {LastPage} BY <1>8 DEF SortedFreeList
<1>10. index < pageMap[a]
  BY <1>9, <1>4, <1>5 DEF FreeFrame, Frame
<1>11. ASSUME NEW q \in FreeFrame PROVE q <= a \/ index < q
  BY <1>8, <1>10, <1>5 DEF SortedFreeList, FreeFrame, Frame
<1> QED BY <1>7, <1>8, <1>10, <1>11 DEF a

\* The part of TypeOK that unsetPage and setPage can touch.
ListTypeOK == /\ pageMap \in [Word -> Word \cup {EndMark}]
              /\ firstFreepage \in Word
              /\ ret \in Frame \cup {EndMark}

\* unsetPage takes exactly the lowest free frame, keeps the list sorted, and
\* fails only when no frame is free.
LEMMA UnsetPageTakesLowest ==
  ASSUME TypeOK, SortedFreeList, UnsetPage
  PROVE  /\ ListTypeOK'
         /\ SortedFreeList'
         /\ \/ /\ FreeFrame = {} /\ ret' = EndMark /\ FreeFrame' = FreeFrame
            \/ /\ firstFreepage \in FreeFrame /\ ret' = firstFreepage
               /\ FreeFrame' = FreeFrame \ {firstFreepage}
<1> DEFINE l == firstFreepage
<1>1. CASE pageMap[l] = EndMark
  <2>1. UNCHANGED <<pageMap, firstFreepage>> /\ ret' = EndMark
    BY <1>1 DEF UnsetPage
  <2>2. l = LastPage
    BY <1>1 DEF SortedFreeList, FreeFrame, Frame
  <2>3. FreeFrame = {}
    BY <2>2 DEF SortedFreeList, FreeFrame, Frame
  <2> QED BY <2>1, <2>3 DEF ListTypeOK, TypeOK, SortedFreeList, FreeFrame
<1>2. CASE pageMap[l] # EndMark
  <2>1. /\ firstFreepage' = pageMap[l]
        /\ pageMap' = [pageMap EXCEPT ![l] = 0]
        /\ ret' = l
    BY <1>2 DEF UnsetPage
  <2>2. l \in FreeFrame BY <1>2 DEF SortedFreeList
  <2>3. l \in Frame BY <2>2 DEF FreeFrame
  <2>4. ListTypeOK'
    BY <2>1, <2>3, <1>2 DEF ListTypeOK, TypeOK, Word, Frame
  <2>5. FreeFrame' = FreeFrame \ {l}
    BY <2>1, <2>3 DEF FreeFrame, TypeOK, Word, Frame
  <2>6. SortedFreeList'
    <3>1. \A w \in Word \ {l} : pageMap'[w] = pageMap[w]
      BY <2>1, <2>3 DEF TypeOK, Word, Frame
    <3>2. pageMap[l] \in FreeFrame' \cup {LastPage}
      BY <2>2, <2>5 DEF SortedFreeList, FreeFrame, Frame
    <3>3. pageMap'[LastPage] = EndMark
      BY <3>1, <2>3 DEF SortedFreeList, Word, Frame
    <3>4. \A q \in FreeFrame' : firstFreepage' <= q
      BY <2>1, <2>2, <2>5 DEF SortedFreeList, FreeFrame, Frame
    <3>5. ASSUME NEW p \in FreeFrame'
          PROVE  /\ pageMap'[p] \in FreeFrame' \cup {LastPage}
                 /\ p < pageMap'[p]
                 /\ \A q \in FreeFrame' : p < q => pageMap'[p] <= q
      <4>1. p \in FreeFrame /\ p # l /\ p \in Word /\ p \in Nat /\ l < p
        BY <2>5, <2>3 DEF FreeFrame, Frame, Word, SortedFreeList
      <4>2. pageMap'[p] = pageMap[p] BY <4>1, <3>1
      <4>3. pageMap[p] # l
        BY <4>1, <2>3 DEF SortedFreeList, FreeFrame, Frame
      <4> QED BY <4>1, <4>2, <4>3, <2>5 DEF SortedFreeList
    <3> QED BY <3>2, <3>3, <3>4, <3>5, <2>1 DEF SortedFreeList
  <2> QED BY <2>1, <2>2, <2>4, <2>5, <2>6
<1> QED BY <1>1, <1>2

\* setPage makes a frame in use free again, touches no other, and keeps the
\* list sorted.
LEMMA SetPageFreesFrame ==
  ASSUME TypeOK, SortedFreeList, NEW index \in UsedFrame, SetPage(index)
  PROVE  /\ ListTypeOK'
         /\ SortedFreeList'
         /\ FreeFrame' = FreeFrame \cup {index}
         /\ ret' = ret
<1>1. /\ index \in Frame /\ index \in Nat /\ index \in Word
      /\ index < LastPage /\ pageMap[index] = 0
  BY DEF UsedFrame, FreeFrame, Frame, Word
<1>2. index # firstFreepage
  BY <1>1 DEF SortedFreeList, FreeFrame
<1>3. ret' = ret BY DEF SetPage
<1>4. CASE index < firstFreepage
  <2>1. /\ pageMap' = [pageMap EXCEPT ![index] = firstFreepage]
        /\ firstFreepage' = index
    BY <1>4, <1>1 DEF SetPage, TypeOK, Word
  <2>2. ListTypeOK'
    BY <2>1, <1>1, <1>3 DEF ListTypeOK, TypeOK, Word, Frame
  <2>3. \A w \in Word : pageMap'[w] = IF w = index THEN firstFreepage ELSE pageMap[w]
    BY <2>1, <1>1 DEF TypeOK
  <2>4. FreeFrame' = FreeFrame \cup {index}
    BY <2>3, <1>1, <1>4 DEF FreeFrame, Frame, Word, TypeOK
  <2>5. SortedFreeList'
    <3>1. pageMap'[LastPage] = EndMark
      BY <2>3, <1>1 DEF SortedFreeList, Word
    <3>2. \A q \in FreeFrame' : firstFreepage' <= q
      BY <2>1, <2>4, <1>1, <1>4 DEF SortedFreeList, FreeFrame, Frame, TypeOK, Word
    <3>3. ASSUME NEW p \in FreeFrame'
          PROVE  /\ pageMap'[p] \in FreeFrame' \cup {LastPage}
                 /\ p < pageMap'[p]
                 /\ \A q \in FreeFrame' : p < q => pageMap'[p] <= q
      <4>1. CASE p = index
        <5>1. pageMap'[p] = firstFreepage BY <4>1, <2>3, <1>1
        <5>2. ASSUME NEW q \in FreeFrame', p < q PROVE firstFreepage <= q
          BY <5>2, <4>1, <2>4, <1>1 DEF SortedFreeList
        <5>3. firstFreepage \in FreeFrame' \cup {LastPage}
          BY <2>4 DEF SortedFreeList
        <5> QED BY <5>1, <5>2, <5>3, <4>1, <1>4
      <4>2. CASE p # index
        <5>1. p \in FreeFrame /\ p \in Word /\ p \in Nat /\ index < p
          BY <4>2, <2>4, <1>1, <1>4 DEF FreeFrame, Frame, Word, SortedFreeList, TypeOK
        <5>2. pageMap'[p] = pageMap[p] BY <5>1, <4>2, <2>3
        <5> QED BY <5>1, <5>2, <2>4, <1>1 DEF SortedFreeList
      <4> QED BY <4>1, <4>2
    <3> QED BY <3>1, <3>2, <3>3, <2>1, <2>4 DEF SortedFreeList
  <2> QED BY <2>2, <2>4, <2>5, <1>3
<1>5. CASE index > firstFreepage
  <2> DEFINE a == Scan(index)
  <2>1. /\ a \in FreeFrame /\ a < index
        /\ \A q \in FreeFrame : q <= a \/ index < q
        /\ index < pageMap[a]
    BY <1>5, ScanFindsPredecessor
  <2>2. /\ pageMap' = [pageMap EXCEPT ![a] = index, ![index] = pageMap[a]]
        /\ firstFreepage' = firstFreepage
    BY <1>5, <1>1 DEF SetPage, TypeOK, Word
  <2> HIDE DEF a
  <2>3. a \in Frame /\ a \in Word /\ a \in Nat /\ a # index
    BY <2>1, <1>1 DEF FreeFrame, Frame, Word
  <2>4. pageMap[a] \in FreeFrame \cup {LastPage} /\ pageMap[a] \in Word
    BY <2>1 DEF SortedFreeList, FreeFrame, Frame, Word
  <2>5. \A w \in Word : pageMap'[w] = IF w = index THEN pageMap[a]
                                     ELSE IF w = a THEN index ELSE pageMap[w]
    BY <2>2, <2>3, <1>1 DEF TypeOK
  <2>6. ListTypeOK'
    BY <2>2, <2>3, <2>4, <1>1, <1>3 DEF ListTypeOK, TypeOK
  <2>7. FreeFrame' = FreeFrame \cup {index}
    BY <2>5, <2>1, <2>4, <1>1 DEF FreeFrame, Frame, Word
  <2>8. SortedFreeList'
    <3>1. pageMap'[LastPage] = EndMark
      BY <2>5, <2>3, <1>1 DEF SortedFreeList, Word, Frame
    <3>2. \A q \in FreeFrame' : firstFreepage' <= q
      BY <2>2, <2>7, <1>1, <1>5 DEF SortedFreeList, TypeOK, Word
    <3>3. ASSUME NEW p \in FreeFrame'
          PROVE  /\ pageMap'[p] \in FreeFrame' \cup {LastPage}
                 /\ p < pageMap'[p]
                 /\ \A q \in FreeFrame' : p < q => pageMap'[p] <= q
      <4>1. CASE p = index
        <5>1. pageMap'[p] = pageMap[a] BY <4>1, <2>5, <1>1
        <5>2. ASSUME NEW q \in FreeFrame', p < q PROVE pageMap[a] <= q
          BY <5>2, <4>1, <2>7, <2>1, <2>3, <1>1 DEF SortedFreeList, FreeFrame, Frame
        <5> QED BY <5>1, <5>2, <4>1, <2>1, <2>4, <2>7
      <4>2. CASE p = a
        <5>1. pageMap'[p] = index BY <4>2, <2>5, <2>3
        <5>2. ASSUME NEW q \in FreeFrame', p < q PROVE index <= q
          BY <5>2, <4>2, <2>7, <2>1, <2>3, <1>1 DEF FreeFrame, Frame
        <5> QED BY <5>1, <5>2, <4>2, <2>1, <2>7
      <4>3. CASE p # index /\ p # a
        <5>1. p \in FreeFrame /\ p \in Word /\ p \in Nat
          BY <4>3, <2>7 DEF FreeFrame, Frame, Word
        <5>2. pageMap'[p] = pageMap[p] BY <5>1, <4>3, <2>5
        <5>3. ASSUME p < index PROVE pageMap[p] <= index
          BY <5>1, <5>3, <4>3, <2>1, <2>3, <1>1 DEF SortedFreeList, FreeFrame, Frame
        <5> QED BY <5>1, <5>2, <5>3, <2>7 DEF SortedFreeList
      <4> QED BY <4>1, <4>2, <4>3
    <3>4. firstFreepage' \in FreeFrame' \cup {LastPage}
      BY <2>2, <2>7 DEF SortedFreeList
    <3> QED BY <3>1, <3>2, <3>3, <3>4 DEF SortedFreeList
  <2> QED BY <2>6, <2>7, <2>8, <1>3
<1> QED BY <1>1, <1>2, <1>4, <1>5 DEF TypeOK, Word
------------------------------------------------------------------------------
\* init_page leaves a sorted list of all frames.
LEMMA InitEstablishes == Init => IInv
<1> SUFFICES ASSUME Init PROVE IInv
  OBVIOUS
<1> USE DEF Init
<1>1. TypeOK BY DEF TypeOK, InitPage, Word, Frame
<1>2. \A w \in Frame : pageMap[w] = w + 1 BY DEF InitPage, Word, Frame
<1>3. FreeFrame = Frame BY <1>2 DEF FreeFrame, Frame
<1>4. SortedFreeList
  <2>1. pageMap[LastPage] = EndMark BY DEF InitPage, Word
  <2> QED BY <2>1, <1>2, <1>3 DEF SortedFreeList, Frame
<1>5. BootProgress BY <1>3 DEF BootProgress, UsedFrame
<1>6. FrameAccounting BY DEF FrameAccounting
<1> QED BY <1>1, <1>4, <1>5, <1>6 DEF IInv

\* Each loop of init_pageTable, allocatePage and deallocatePage keeps IInv.
LEMMA StepPreserves == IInv /\ [Next]_vars => IInv'
<1> SUFFICES ASSUME IInv, [Next]_vars PROVE IInv'
  OBVIOUS
<1>0. TypeOK /\ SortedFreeList /\ BootProgress /\ FrameAccounting
  BY DEF IInv
<1>1. CASE Reserve /\ i < PhysfreePage
  <2>1. UnsetPage /\ i' = i + 1 /\ phase = "reserve" /\ phase' = phase
        /\ owned' = owned
    BY <1>1 DEF Reserve
  <2>2. /\ ListTypeOK' /\ SortedFreeList'
        /\ \/ FreeFrame = {} /\ ret' = EndMark /\ FreeFrame' = FreeFrame
           \/ /\ firstFreepage \in FreeFrame /\ ret' = firstFreepage
              /\ FreeFrame' = FreeFrame \ {firstFreepage}
    BY <2>1, <1>0, UnsetPageTakesLowest
  <2>3. TypeOK' BY <2>1, <2>2, <1>0 DEF ListTypeOK, TypeOK
  <2>4. UsedFrame = 0 .. i - 1 /\ i \in Nat /\ owned = {}
    BY <2>1, <1>0 DEF BootProgress, TypeOK
  <2>5. i \in FreeFrame
    BY <2>4, <1>1 DEF UsedFrame, Frame
  <2>6. firstFreepage = i
    <3>1. firstFreepage <= i BY <2>5, <1>0 DEF SortedFreeList
    <3>2. firstFreepage \in Nat /\ i < LastPage /\ firstFreepage \in Frame
      BY <3>1, <2>5, <1>0 DEF TypeOK, Word, FreeFrame, Frame
    <3>3. firstFreepage \in FreeFrame
      BY <3>2, <1>0 DEF SortedFreeList, Frame
    <3> QED BY <3>1, <3>2, <3>3, <2>4 DEF UsedFrame
  <2>7. UsedFrame' = 0 .. i
    BY <2>2, <2>4, <2>5, <2>6 DEF UsedFrame, FreeFrame, Frame
  <2>8. BootProgress'
    BY <2>1, <2>4, <2>7, <1>1 DEF BootProgress
  <2> QED BY <2>1, <2>2, <2>3, <2>8 DEF IInv, FrameAccounting
<1>2. CASE Reserve /\ ~(i < PhysfreePage)
  <2>1. /\ phase = "reserve" /\ phase' = "release" /\ i' = BasePage
        /\ UNCHANGED <<pageMap, firstFreepage, ret, owned>>
    BY <1>2 DEF Reserve
  <2>2. i = PhysfreePage /\ UsedFrame = 0 .. i - 1 /\ owned = {}
    BY <2>1, <1>0, <1>2 DEF BootProgress, TypeOK
  <2>3. UsedFrame' = UsedFrame BY <2>1 DEF UsedFrame, FreeFrame
  <2>4. BootProgress' BY <2>1, <2>2, <2>3 DEF BootProgress
  <2>5. TypeOK' /\ SortedFreeList'
    BY <2>1, <1>0 DEF TypeOK, SortedFreeList, FreeFrame
  <2> QED BY <2>1, <2>4, <2>5 DEF IInv, FrameAccounting
<1>3. CASE Release /\ i < PhysbasePage
  <2>1. SetPage(i) /\ i' = i + 1 /\ phase = "release" /\ phase' = phase
        /\ owned' = owned
    BY <1>3 DEF Release
  <2>2. /\ UsedFrame = (0 .. PhysfreePage - 1) \ (BasePage .. i - 1)
        /\ BasePage <= i /\ i \in Nat /\ owned = {}
    BY <2>1, <1>0 DEF BootProgress, TypeOK
  <2>3. i \in UsedFrame BY <2>2, <1>3
  <2>4. /\ ListTypeOK' /\ SortedFreeList' /\ ret' = ret
        /\ FreeFrame' = FreeFrame \cup {i}
    BY <2>1, <2>3, <1>0, SetPageFreesFrame
  <2>5. TypeOK' BY <2>1, <2>4, <1>0 DEF ListTypeOK, TypeOK
  <2>6. UsedFrame' = (0 .. PhysfreePage - 1) \ (BasePage .. i)
    BY <2>2, <2>4 DEF UsedFrame
  <2>7. BootProgress' BY <2>1, <2>2, <2>6, <1>3 DEF BootProgress
  <2> QED BY <2>1, <2>4, <2>5, <2>7 DEF IInv, FrameAccounting
<1>4. CASE Release /\ ~(i < PhysbasePage)
  <2>1. /\ phase = "release" /\ phase' = "serve"
        /\ UNCHANGED <<pageMap, firstFreepage, ret, owned, i>>
    BY <1>4 DEF Release
  <2>2. UsedFrame = ReservedFrame /\ owned = {}
    BY <2>1, <1>0, <1>4 DEF BootProgress, TypeOK, ReservedFrame
  <2>3. UsedFrame' = UsedFrame BY <2>1 DEF UsedFrame, FreeFrame
  <2>4. FrameAccounting'
    BY <2>1, <2>2, <2>3 DEF FrameAccounting, UsedFrame, ReservedFrame
  <2>5. TypeOK' /\ SortedFreeList'
    BY <2>1, <1>0 DEF TypeOK, SortedFreeList, FreeFrame
  <2> QED BY <2>1, <2>4, <2>5 DEF IInv, BootProgress
<1>5. CASE AllocatePage
  <2>1. /\ UnsetPage /\ phase = "serve" /\ phase' = phase /\ i' = i
        /\ owned' = owned \cup ({ret'} \ {EndMark})
    BY <1>5 DEF AllocatePage
  <2>2. /\ ListTypeOK' /\ SortedFreeList'
        /\ \/ FreeFrame = {} /\ ret' = EndMark /\ FreeFrame' = FreeFrame
           \/ /\ firstFreepage \in FreeFrame /\ ret' = firstFreepage
              /\ FreeFrame' = FreeFrame \ {firstFreepage}
    BY <2>1, <1>0, UnsetPageTakesLowest
  <2>3. TypeOK' BY <2>1, <2>2, <1>0 DEF ListTypeOK, TypeOK
  <2>4. FrameAccounting'
    <3>1. Frame \ FreeFrame = ReservedFrame \cup owned /\ owned \cap ReservedFrame = {}
      BY <2>1, <1>0 DEF FrameAccounting
    <3>2. EndMark \notin Frame BY DEF Frame
    <3>3. ReservedFrame' = ReservedFrame /\ Frame' = Frame BY DEF ReservedFrame, Frame
    <3>4. CASE FreeFrame = {} /\ ret' = EndMark /\ FreeFrame' = FreeFrame
      BY <3>1, <3>3, <3>4, <2>1 DEF FrameAccounting
    <3>5. CASE /\ firstFreepage \in FreeFrame /\ ret' = firstFreepage
               /\ FreeFrame' = FreeFrame \ {firstFreepage}
      <4>1. firstFreepage \in Frame BY <3>5 DEF FreeFrame
      <4>2. owned' = owned \cup {firstFreepage} BY <2>1, <3>2, <3>5, <4>1
      <4> QED BY <3>1, <3>3, <3>5, <4>1, <4>2 DEF FrameAccounting
    <3> QED BY <2>2, <3>4, <3>5
  <2> QED BY <2>1, <2>2, <2>3, <2>4 DEF IInv, BootProgress
<1>6. CASE DeallocatePage
  <2>1. phase = "serve" /\ phase' = phase /\ i' = i
    BY <1>6 DEF DeallocatePage
  <2>2. PICK index \in owned : SetPage(index) /\ owned' = owned \ {index}
    BY <1>6 DEF DeallocatePage
  <2>3. Frame \ FreeFrame = ReservedFrame \cup owned /\ owned \cap ReservedFrame = {}
    BY <2>1, <1>0 DEF FrameAccounting
  <2>4. index \in UsedFrame BY <2>3 DEF UsedFrame
  <2>5. /\ ListTypeOK' /\ SortedFreeList' /\ ret' = ret
        /\ FreeFrame' = FreeFrame \cup {index}
    BY <2>2, <2>4, <1>0, SetPageFreesFrame
  <2>6. TypeOK' BY <2>1, <2>2, <2>5, <1>0 DEF ListTypeOK, TypeOK
  <2>7. FrameAccounting' BY <2>2, <2>3, <2>5 DEF FrameAccounting, ReservedFrame, Frame
  <2> QED BY <2>1, <2>5, <2>6, <2>7 DEF IInv, BootProgress
<1>7. CASE UNCHANGED vars
  BY <1>7 DEF vars, IInv, TypeOK, SortedFreeList, BootProgress, FrameAccounting,
              FreeFrame, UsedFrame
<1> QED BY <1>1, <1>2, <1>3, <1>4, <1>5, <1>6, <1>7 DEF Next

\* The allocator of sys/page.c keeps its types, its list sorted and exact, and
\* every frame accounted for, whatever the memory layout and whatever sequence
\* of allocatePage and deallocatePage calls the kernel makes.
THEOREM AllocatorInvariant ==
  Spec => [](TypeOK /\ SortedFreeList /\ FrameAccounting)
<1>1. Spec => []IInv
  BY InitEstablishes, StepPreserves, PTL DEF Spec
<1>2. IInv => TypeOK /\ SortedFreeList /\ FrameAccounting
  BY DEF IInv
<1> QED BY <1>1, <1>2, PTL

\* For every memory layout and every order of calls the words of pageMap that are
\* not zero form the list unsetPage and setPage take them for: it starts at
\* firstFreepage, ascends, passes no free frame over and ends behind the last.
THEOREM FreeListSorted == Spec => []SortedFreeList
<1>1. TypeOK /\ SortedFreeList /\ FrameAccounting => SortedFreeList OBVIOUS
<1> QED BY <1>1, AllocatorInvariant, PTL

\* unsetPage and setPage implement the pool: every step of the free list is a
\* step of FramePool, or none.
THEOREM AllocatorImplementsPool == Spec => PoolRefinement
<1>1. Init => Pool!PoolInit
  <2> SUFFICES ASSUME Init PROVE Pool!PoolInit
    OBVIOUS
  <2>1. \A w \in Frame : pageMap[w] = w + 1 BY DEF Init, InitPage, Word, Frame
  <2>2. FreeFrame = Frame BY <2>1 DEF FreeFrame, Frame
  <2> QED BY <2>2 DEF Pool!PoolInit, Init
<1>2. IInv /\ [Next]_vars => [Pool!PoolNext]_(Pool!poolVars)
  <2> SUFFICES ASSUME IInv, [Next]_vars
               PROVE  [Pool!PoolNext]_(Pool!poolVars)
    OBVIOUS
  <2>0. TypeOK /\ SortedFreeList /\ BootProgress /\ FrameAccounting
    BY DEF IInv
  <2>1. ASSUME UnsetPage PROVE Pool!PoolNext
    <3>1. \/ FreeFrame = {} /\ ret' = EndMark /\ FreeFrame' = FreeFrame
          \/ /\ firstFreepage \in FreeFrame /\ ret' = firstFreepage
             /\ FreeFrame' = FreeFrame \ {firstFreepage}
      BY <2>0, <2>1, UnsetPageTakesLowest
    <3>2. \A g \in FreeFrame : firstFreepage <= g BY <2>0 DEF SortedFreeList
    <3> QED BY <3>1, <3>2 DEF Pool!PoolNext, Pool!Take, Pool!Refuse
  <2>2. ASSUME NEW index \in UsedFrame, SetPage(index) PROVE Pool!PoolNext
    <3>1. ret' = ret /\ FreeFrame' = FreeFrame \cup {index}
      BY <2>0, <2>2, SetPageFreesFrame
    <3> QED BY <3>1 DEF Pool!PoolNext, Pool!Give, UsedFrame
  <2>3. ASSUME UNCHANGED <<pageMap, ret>> PROVE UNCHANGED Pool!poolVars
    BY <2>3 DEF Pool!poolVars, FreeFrame
  <2>4. CASE Reserve BY <2>1, <2>3, <2>4 DEF Reserve
  <2>5. CASE Release
    <3>1. i < PhysbasePage => i \in UsedFrame
      BY <2>0, <2>5 DEF Release, BootProgress, TypeOK
    <3> QED BY <3>1, <2>2, <2>3, <2>5 DEF Release
  <2>6. CASE AllocatePage BY <2>1, <2>6 DEF AllocatePage
  <2>7. CASE DeallocatePage
    <3>1. owned \subseteq UsedFrame
      BY <2>0, <2>7 DEF DeallocatePage, FrameAccounting, UsedFrame
    <3> QED BY <3>1, <2>2, <2>7 DEF DeallocatePage
  <2>8. CASE UNCHANGED vars BY <2>3, <2>8 DEF vars
  <2> QED BY <2>4, <2>5, <2>6, <2>7, <2>8 DEF Next
<1>3. Spec => []IInv
  BY InitEstablishes, StepPreserves, PTL DEF Spec
<1> QED BY <1>1, <1>2, <1>3, PTL DEF Spec, PoolRefinement, Pool!PoolSpec
==============================================================================
