------------------------------ MODULE FramePool ------------------------------
(***************************************************************************)
(* What the rest of the kernel expects of the physical page allocator      *)
(* (allocatePage / deallocatePage of sys/page.c), with no free list in     *)
(* sight: a set of free page frames, of which the lowest is handed out.    *)
(***************************************************************************)
EXTENDS Naturals

CONSTANTS Frame,     \* the page frames that exist
          NoFrame    \* what a caller gets when there is none left

VARIABLES free,      \* the frames nobody owns
          ret        \* what the latest request returned

poolVars == <<free, ret>>

PoolInit == /\ free = Frame
            /\ ret = NoFrame

\* A request is served with the lowest free frame.
Take == \E f \in free : /\ \A g \in free : f <= g
                        /\ free' = free \ {f}
                        /\ ret' = f

\* A request fails, and only when every frame is owned.
Refuse == /\ free = {}
          /\ ret' = NoFrame
          /\ UNCHANGED free

\* An owned frame comes back.
Give == \E f \in Frame \ free : /\ free' = free \cup {f}
                                /\ UNCHANGED ret

PoolNext == Take \/ Refuse \/ Give

PoolSpec == PoolInit /\ [][PoolNext]_poolVars
==============================================================================
