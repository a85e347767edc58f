------------------------------ MODULE UserHeap ------------------------------
(***************************************************************************)
(* The heap of a program: malloc and free of libc/malloc.c on top of       *)
(* sb_malloc, which moves the break (mallocSyscall of sys/syscall.c) and   *)
(* takes nothing back.  The shell uses all three.                          *)
(*                                                                         *)
(* malloc keeps a list of the blocks it got from sb_malloc, each followed  *)
(* by its list node, and hands a freed block out again whole.  Addresses   *)
(* count from HEAP_START.                                                  *)
(***************************************************************************)
EXTENDS Naturals, Sequences

CONSTANTS Size,          \* sizes the program asks for
          NodeSize,      \* sizeof(struct mallocinfo)
          ReuseLimit,    \* 10000, the initial value of min
          MaxBrk         \* bound: the break a program gets to

ASSUME HeapAssumption ==
  /\ Size \subseteq Nat \ {0} /\ NodeSize \in Nat
  /\ ReuseLimit \in Nat /\ MaxBrk \in Nat

VARIABLES brk,           \* mm->brk of the process
          blocks,        \* the list from start on; asked is history: the size
                         \* of the request the program holds the block for,
                         \* 0 when it holds none
          raw,           \* history: the ranges sb_malloc gave the program itself
          parity         \* history: of the calls that returned memory

heapVars == <<brk, blocks, raw, parity>>

Range == [lo : Nat, len : Nat \ {0}]
Block == [address : Nat, size : Nat \ {0}, alloc1dealloc0 : {0, 1}, asked : Nat]

HeapTypeOK ==
  /\ brk \in Nat
  /\ blocks \in Seq(Block)
  /\ raw \subseteq Range /\ parity \in {0, 1}

HeapInit == brk = 0 /\ blocks = <<>> /\ raw = {} /\ parity = 0
-----------------------------------------------------------------------------
\* A block the loop of malloc takes when it has taken none before.
Fits(b, size) == b.alloc1dealloc0 = 0 /\ b.size > size /\ ReuseLimit > b.size

\* The blocks the loop accepts.  It ends before the last node.
Candidates(size) == {i \in 1 .. Len(blocks) - 1 : Fits(blocks[i], size)}

\* mintemp: after the first candidate min is the size asked for, so that no
\* larger block is taken any more, whether or not it fits more tightly.
IsMintemp(i, size) == i \in Candidates(size) /\ \A j \in Candidates(size) : i <= j

\* Mutant: the block is not marked.
Reuse_Unmarked(i, size) ==
  /\ IsMintemp(i, size)
  /\ blocks' = [blocks EXCEPT ![i].asked = size]
  /\ parity' = 1 - parity /\ UNCHANGED <<brk, raw>>

\* malloc with a freed block that is large enough.
Reuse(i, size) ==
  /\ IsMintemp(i, size)
  /\ blocks' = [blocks EXCEPT ![i].alloc1dealloc0 = 1, ![i].asked = size]
  /\ parity' = 1 - parity /\ UNCHANGED <<brk, raw>>

\* Mutant: the node is put at the end of the block.
Extend_Inside(size) ==
  /\ Candidates(size) = {} /\ brk + size <= MaxBrk
  /\ brk' = brk + size
  /\ blocks' = Append(blocks, [address |-> brk, size |-> size + NodeSize,
                               alloc1dealloc0 |-> 1, asked |-> size])
  /\ parity' = 1 - parity /\ UNCHANGED raw

\* malloc without one: two calls of sb_malloc, for the block and its node.
Extend(size) ==
  /\ Candidates(size) = {} /\ brk + size + NodeSize <= MaxBrk
  /\ brk' = brk + size + NodeSize
  /\ blocks' = Append(blocks, [address |-> brk, size |-> size,
                               alloc1dealloc0 |-> 1, asked |-> size])
  /\ parity' = 1 - parity /\ UNCHANGED raw

Malloc(size) == Extend(size) \/ \E i \in 1 .. Len(blocks) : Reuse(i, size)

\* free of an address malloc returned: the first node with the address is
\* marked and its block cleared.
Free(i) ==
  /\ blocks[i].asked > 0
  /\ \E k \in 1 .. Len(blocks) :
       /\ blocks[k].address = blocks[i].address
       /\ \A j \in 1 .. k - 1 : blocks[j].address # blocks[i].address
       /\ blocks' = [blocks EXCEPT ![k].alloc1dealloc0 = 0, ![i].asked = 0]
  /\ UNCHANGED <<brk, raw, parity>>

\* free of an address it does not know: the shell passes some that came from
\* sb_malloc.
FreeUnknown == UNCHANGED heapVars

\* mallocSyscall.
SbMalloc(size) ==
  /\ brk + size <= MaxBrk /\ brk' = brk + size
  /\ raw' = raw \cup {[lo |-> brk, len |-> size]}
  /\ parity' = 1 - parity /\ UNCHANGED blocks

HeapNext ==
  \/ \E size \in Size : Malloc(size) \/ SbMalloc(size)
  \/ \E i \in 1 .. Len(blocks) : Free(i)
  \/ FreeUnknown

HeapSpec == HeapInit /\ [][HeapNext]_heapVars
-----------------------------------------------------------------------------
\* What the program owns: the sizes it asked for, not the blocks it got.
Owned == raw \cup {[lo |-> blocks[i].address, len |-> blocks[i].asked] :
                     i \in {k \in 1 .. Len(blocks) : blocks[k].asked > 0}}

Promise == INSTANCE BlockHeap WITH Limit <- MaxBrk, owned <- Owned

\* malloc, free and sb_malloc together keep the promise of BlockHeap: whatever
\* was freed, reused and split between the two allocators before, what malloc
\* returns is free and large enough.
HeapRefinement == Promise!HeapSpec

\* What free clears is nobody else's: the whole of a block, which may be larger
\* than what its owner asked for, meets no other block, no list node, and
\* nothing sb_malloc gave away.
ClearIsPrivate ==
  \A i \in 1 .. Len(blocks) :
    LET b == blocks[i] IN
    /\ b.asked <= b.size
    /\ \A k \in 1 .. Len(blocks) :
         /\ k # i => Promise!Disjoint([lo |-> b.address, len |-> b.size],
                       [lo |-> blocks[k].address, len |-> blocks[k].size])
         /\ Promise!Disjoint([lo |-> b.address, len |-> b.size],
              [lo |-> blocks[k].address + blocks[k].size, len |-> NodeSize])
    /\ \A r \in raw : Promise!Disjoint([lo |-> b.address, len |-> b.size], r)
=============================================================================
