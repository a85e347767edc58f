------------------------------ MODULE PageTables ------------------------------
(***************************************************************************)
(* The page tables of sys/mmu.c: how they are built at boot, for a new     *)
(* program and in fork, and how a page is entered into them.               *)
(*                                                                         *)
(* Only the root of a space is its own from the start.  The tables below   *)
(* it are allocated when a page under them is mapped first, and the entry  *)
(* for the kernel points, in every root, to the one set of tables that     *)
(* kernmemMap and phy2vir have made.  Nothing takes frames back.           *)
(*                                                                         *)
(* allocatePage does not clear a frame (the memset is commented out).  The *)
(* tables below a root are cleared by those who allocate them; the roots   *)
(* of setUserSpace and fork are not.  So memory starts with whatever the   *)
(* firmware and the loader left in it, and wild tells that a root has kept *)
(* such an entry: what its space maps, and where tables entered in it end  *)
(* up, is then undefined, and is not followed further.                     *)
(*                                                                         *)
(* A virtual address is the sequence of its indices, one for each level    *)
(* (getIndex); an entry is the number of a frame, or 0 if it is not        *)
(* present.  The other bits of an entry are the subject of CowMemory.      *)
(***************************************************************************)
EXTENDS Integers, Sequences, SequencesExt

CONSTANTS Fan,           \* entries of a table, 512
          Frames,        \* bound: frames; they are handed out in order
          UserPages,     \* bound: user pages that are mapped, in order
          Found          \* bound: what the frames may hold at the start

ASSUME TableAssumption ==
  /\ Fan \in Nat \ {0, 1, 2} /\ Frames \in Nat /\ Frames < Fan * Fan
  /\ UserPages \in Seq((0 .. Fan - 3) \X (0 .. Fan - 1) \X (0 .. Fan - 1))
  /\ Found \subseteq [1 .. Frames -> [0 .. Fan - 1 -> 0 .. Frames]]

VARIABLES mem,           \* the tables: what each frame holds, as entries
          freed,         \* the first frame that is not in use
          cr3,           \* the root that is loaded, or 0
          spaces,        \* the roots there are
          wild           \* history: a root came with entries nobody made

vars == <<mem, freed, cr3, spaces, wild>>

Frame == 1 .. Frames
Index == 0 .. Fan - 1
KernelIndex == Fan - 1   \* 511
Cleared == [i \in Index |-> 0]

\* The address p | 0xFFFFFFFF80000000 at which the kernel reaches the frame p.
KernelPage(p) == <<KernelIndex, p \div Fan, p % Fan>>

Init == /\ mem \in Found
        /\ freed = 1 /\ cr3 = 0 /\ spaces = {} /\ wild = FALSE
-------------------------------------------------------------------------------
\* physicalAddress: the frame of v under root, or 0.
Translate(m, root, v) ==
  LET pde == m[root][v[1]]
      pte == IF pde = 0 THEN 0 ELSE m[pde][v[2]] IN
  IF pte = 0 THEN 0 ELSE m[pte][v[3]]

\* Mutant: the memset of a new table is missing.
Descend_NotCleared(st, i) ==
  IF st.m[st.t][i] # 0 THEN [st EXCEPT !.t = st.m[st.t][i]]
  ELSE [m |-> [st.m EXCEPT ![st.t][i] = st.n], n |-> st.n + 1, t |-> st.n]

\* pdpeAlloc, pdeAlloc, pteAlloc: from a table st.t of st.m one level down, to
\* the table of its entry i, which is the cleared frame st.n if there is none.
Descend(st, i) ==
  IF st.m[st.t][i] # 0 THEN [st EXCEPT !.t = st.m[st.t][i]]
  ELSE [m |-> [st.m EXCEPT ![st.t][i] = st.n, ![st.n] = Cleared],
        n |-> st.n + 1, t |-> st.n]

\* Frames that entering v takes.
Cost(m, root, v) ==
  IF m[root][v[1]] = 0 THEN 2 ELSE IF m[m[root][v[1]]][v[2]] = 0 THEN 1 ELSE 0

\* map_v_p and map_v_p2: v is entered under root with the frame p.
MapIn(m, n, root, v, p) ==
  LET st == Descend(Descend([m |-> m, n |-> n, t |-> root], v[1]), v[2]) IN
  [m |-> [st.m EXCEPT ![st.t][v[3]] = p], n |-> st.n]

\* kernmemMap: the root.  The pages of the kernel's image, which it enters, are
\* among those that phy2vir enters again.
KernmemMap == [m |-> [mem EXCEPT ![1] = Cleared], n |-> 2]

\* phy2vir enters every frame at its kernel page and loads the root.
Boot ==
  LET enter(st, p) == MapIn(st.m, st.n, 1, KernelPage(p), p)
      done == FoldLeft(enter, KernmemMap, [p \in Frame |-> p]) IN
  /\ cr3 = 0 /\ UNCHANGED wild
  /\ mem' = done.m /\ freed' = done.n
  /\ cr3' = 1 /\ spaces' = {1}

\* The entries i of S that the frame of a new root holds before it is one.
Leftover(S) == \E i \in S : mem[freed][i] # 0

\* setUserSpace: a root with the kernel's entry of the space that is loaded; its
\* other entries are the frame's.
SetUserSpace ==
  /\ cr3 # 0 /\ freed \in Frame
  /\ mem' = [mem EXCEPT ![freed][KernelIndex] = mem[cr3][KernelIndex]]
  /\ wild' = Leftover(Index \ {KernelIndex})
  /\ spaces' = spaces \cup {freed} /\ freed' = freed + 1
  /\ UNCHANGED cr3

LoadCR3(root) == /\ cr3 # 0 /\ root \in spaces \ {cr3} /\ cr3' = root
                 /\ UNCHANGED <<mem, freed, spaces, wild>>

\* map_v_p2(v, allocatePage()), in loadElf and in the heap branch of pageFault.
MapUserPage(v) ==
  LET done == MapIn(mem, freed + 1, cr3, v, freed) IN
  /\ cr3 # 0 /\ freed + Cost(mem, cr3, v) \in Frame
  /\ mem' = done.m /\ freed' = done.n
  /\ UNCHANGED <<cr3, spaces, wild>>

\* kmalloc: the frame's kernel page is entered once more, and cleared.
Kmalloc ==
  LET done == MapIn(mem, freed + 1, cr3, KernelPage(freed), freed) IN
  /\ cr3 # 0 /\ freed \in Frame
  /\ mem' = [done.m EXCEPT ![freed] = Cleared] /\ freed' = done.n
  /\ UNCHANGED <<cr3, spaces, wild>>

Present(root) == SelectSeq(UserPages, LAMBDA v : Translate(mem, root, v) # 0)

\* What fork allocates besides the root: as many tables as the parent has.
ForkCost(root) ==
  Cardinality({<<v[1]>> : v \in ToSet(Present(root))})
    + Cardinality({<<v[1], v[2]>> : v \in ToSet(Present(root))})

\* The loops of forkSyscall: the entries of the parent, in order, each with its
\* frame, under tables of the child's own, which pdpeAlloc makes whether the
\* child's root has an entry or not; then the last two entries.  What the root
\* holds where the parent has nothing stays.
ForkTables ==
  LET child == freed
      below == {i \in 0 .. KernelIndex - 2 : mem[cr3][i] # 0}
      root == [i \in Index |-> IF i \in below THEN 0 ELSE mem[child][i]]
      enter(st, v) == MapIn(st.m, st.n, child, v, Translate(mem, cr3, v))
      done == FoldLeft(enter, [m |-> [mem EXCEPT ![child] = root], n |-> freed + 1],
                       Present(cr3)) IN
  /\ cr3 # 0 /\ freed + ForkCost(cr3) \in Frame
  /\ mem' = [done.m EXCEPT ![child][KernelIndex] = mem[cr3][KernelIndex],
                           ![child][KernelIndex - 1] = mem[cr3][KernelIndex - 1]]
  /\ wild' = Leftover((0 .. KernelIndex - 2) \ below)
  /\ freed' = done.n /\ spaces' = spaces \cup {child}
  /\ UNCHANGED cr3

Next ==
  /\ ~ wild
  /\ \/ Boot \/ SetUserSpace \/ ForkTables \/ Kmalloc
     \/ \E root \in spaces : LoadCR3(root)
     \/ \E v \in ToSet(UserPages) : MapUserPage(v)

Spec == Init /\ [][Next]_vars
-------------------------------------------------------------------------------
Spaces == INSTANCE AddressSpaces
  WITH Page <- ToSet(UserPages),
       user <- [s \in spaces |-> [v \in ToSet(UserPages) |-> Translate(mem, s, v)]],
       kernel <- {s \in spaces :
                    \A f \in Frame : Translate(mem, s, KernelPage(f)) = f}

\* The tables give every process its own user pages and all of them the same
\* kernel: what is mapped in one space appears in no other, although all share
\* the kernel's tables, a child's entries were its parent's, and the frames of
\* the tables are not clear when they are allocated.  It holds until a root that
\* setUserSpace or fork did not clear keeps an entry of the frame it lies in.
SpaceRefinement ==
  Spaces!AInit /\ [][~ wild' => Spaces!ANext]_(Spaces!avars)
===============================================================================
