------------------------------ MODULE BlockHeap ------------------------------
(***************************************************************************)
(* What a program expects of malloc, free and sb_malloc: ranges of memory  *)
(* as long as it asked for, none of which overlaps another it still owns.  *)
(***************************************************************************)
EXTENDS Naturals

CONSTANT Limit           \* bound: cells of the heap

VARIABLES owned,         \* the ranges the program owns
          parity         \* changes with every range handed out, so that a range
                         \* handed out twice is not taken for no step at all

\* Two ranges of len cells from lo on have no cell in common.
Disjoint(r, s) == r.lo + r.len <= s.lo \/ s.lo + s.len <= r.lo

HeapInit == owned = {} /\ parity = 0

Obtain(r) == /\ \A s \in owned : Disjoint(r, s)
             /\ owned' = owned \cup {r} /\ parity' = 1 - parity

GiveBack(r) == r \in owned /\ owned' = owned \ {r} /\ UNCHANGED parity

HeapNext == \/ \E lo \in 0 .. Limit, len \in 1 .. Limit : Obtain([lo |-> lo, len |-> len])
            \/ \E r \in owned : GiveBack(r)

HeapSpec == HeapInit /\ [][HeapNext]_<<owned, parity>>
==============================================================================
