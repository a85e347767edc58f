---------------------------- MODULE PrivateMemory ----------------------------
(***************************************************************************)
(* What the programs expect of their memory, with no page table, frame or  *)
(* copy-on-write bit in sight: every process has a memory of its own, a    *)
(* child starts with a copy of its parent's, and a page changes only when  *)
(* a store is executed on behalf of the process it belongs to.  The promise*)
(* ends with the first failed allocation.                                  *)
(***************************************************************************)
EXTENDS Naturals

CONSTANTS Proc, Page, Value,
          NoMemory       \* the memory of what is not a live process

VARIABLES mem,
          running,       \* the process that executes
          stores,        \* the parity of the stores executed so far
          oom

memVars == <<mem, running, stores, oom>>

PrivInit == mem = [p \in Proc |-> NoMemory] /\ stores = 0 /\ oom = FALSE

Store(v, x) == /\ running \in Proc /\ mem[running] # NoMemory
               /\ mem' = [mem EXCEPT ![running] = [@ EXCEPT ![v] = x]]
               /\ stores' = 1 - stores
               /\ UNCHANGED running

Load(p) == /\ mem[p] = NoMemory
           /\ \E image \in [Page -> Value] : mem' = [mem EXCEPT ![p] = image]

\* fork: the child's memory is a copy, for both to change on their own.
Copy(p, c) == /\ mem[p] # NoMemory /\ mem[c] = NoMemory
              /\ mem' = [mem EXCEPT ![c] = mem[p]]

Drop(p) == mem' = [mem EXCEPT ![p] = NoMemory]

\* execve: the caller's memory gives way to a program's.
Replace(p, n) ==
  /\ mem[n] = NoMemory
  /\ \E image \in [Page -> Value] :
       mem' = [mem EXCEPT ![p] = NoMemory, ![n] = image]

\* Another process, or the same, goes on; no memory changes.
Run == UNCHANGED mem

PrivNext ==
  \/ oom'
  \/ /\ UNCHANGED oom
     /\ \/ \E v \in Page, x \in Value : Store(v, x)
        \/ /\ UNCHANGED stores
           /\ \/ Run
              \/ \E p \in Proc : \/ Load(p) \/ Drop(p)
                                \/ \E q \in Proc \ {p} : Copy(p, q) \/ Replace(p, q)

PrivSpec == PrivInit /\ [][PrivNext]_memVars
==============================================================================
