---------------------------- MODULE AddressSpaces ----------------------------
(***************************************************************************)
(* What page tables are for: every address space has its own user pages,   *)
(* a new one has none, a child's are its parent's, and the kernel's pages  *)
(* are the same in all of them, each frame at its own place.               *)
(***************************************************************************)
CONSTANTS Page, Frame

VARIABLES user,          \* of each space there is, the frame of each page or 0
          kernel         \* the spaces in which every frame has its kernel page

avars == <<user, kernel>>

Unmapped == [v \in Page |-> 0]

AInit == user = [s \in {} |-> Unmapped] /\ kernel = {}

NewSpace(pages) ==
  \E s \in DOMAIN user' \ DOMAIN user :
    /\ user' = [t \in DOMAIN user \cup {s} |-> IF t = s THEN pages ELSE user[t]]
    /\ kernel' = kernel \cup {s}

\* A page gets a frame that no page of any space has.
MapPage(s, v) ==
  /\ DOMAIN user' = DOMAIN user
  /\ user'[s][v] \in Frame \ UNION {{user[t][w] : w \in Page} : t \in DOMAIN user}
  /\ user' = [user EXCEPT ![s][v] = user'[s][v]]
  /\ UNCHANGED kernel

ANext == \/ NewSpace(Unmapped)
         \/ \E t \in DOMAIN user : NewSpace(user[t])
         \/ \E s \in DOMAIN user, v \in Page : MapPage(s, v)

ASpec == AInit /\ [][ANext]_avars
==============================================================================
