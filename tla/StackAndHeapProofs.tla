------------------------- MODULE StackAndHeapProofs -------------------------
(***************************************************************************)
(* Proofs about what a process has beside its PCB: its heap, for any number*)
(* of processes, of pages, of cells in a page and of arguments, and its    *)
(* kernel stack, for any number of frames and of traps.  Both rest on the  *)
(* invariant of the ring.                                                  *)
(*                                                                         *)
(* The heap.  Only a child between fork and execve shares a heap VMA, and  *)
(* the parent it shares it with does not run until the child has ended or  *)
(* was replaced.  So whoever faults moves an end that is its own or that of*)
(* a process asleep, and below the page it faults on its pages follow one  *)
(* another; in execve the same holds of the new program's pages and the end*)
(* of the old program's VMA, from the first argument up.                   *)
(*                                                                         *)
(* The stacks.  contextSwitch never switches from a process to itself, and *)
(* the process it comes back to is one that was put aside.                 *)
(***************************************************************************)
EXTENDS HeapGrowth, KernelStack, ProcessRingProofs

USE SizeAssumption

\* A child between fork and execve: its list leads to the heap VMA of its parent.
Child(p) == at[p] = "unborn" \/ (at[p] = "forked" /\ a[p] = 0)

\* The process whose memory execve is setting up.
Loading == IF written = NotInExec THEN {} ELSE {used + 1}

\* Only a child shares a heap VMA, and while it does its parent does not run.
ShareInv ==
  /\ \A p \in Pcb : at[p] = "forked" => p = current
  /\ \A p \in Pcb : at[p] = "unborn" =>
       p = next[current] /\ at[current] = "forked" /\ a[current] # 0 /\ heapVma[p] = current
  /\ \A p \in Pcb : at[p] = "forked" /\ a[p] = 0 => at[heapVma[p]] = "waitpid"
  /\ \A p \in Pcb : IF Child(p) THEN brk[heapVma[p]] <= brk[p] ELSE heapVma[p] = p

\* A PCB that was not handed out yet has no memory.
FreshInv == \A p \in Pcb \ Loading :
              at[p] = "free" => /\ brk[p] = 0 /\ argv[p] = NoAddr
                                /\ mapped[p] = {} /\ data[p] = Blank

\* The table of the running process is loaded, and a store that is not carried
\* out yet is one of its own, to the first page that it has not got, or below.
AccessInv ==
  /\ boot # "up" => access = NoAddr /\ written = NotInExec
  /\ boot = "up" /\ written = NotInExec =>
       /\ cr3 = current
       /\ access # NoAddr => /\ at[current] = "user" /\ access < brk[current]
                             /\ 0 .. PageOf(access) - 1 \subseteq mapped[current]

EndInv == \A p \in Alive : end[heapVma[p]] > 0

BeforeArgs == {p \in Pcb \ Loading : brk[p] <= argv[p]}

\* What was stored is there, in a page of its own.
DataInv ==
  \A p \in BeforeArgs, x \in Addr :
    data[p][x] # "lost" /\ (data[p][x] # "none" => PageOf(x) \in mapped[p])

ArgInv ==
  \A p \in Pcb \ Loading : argv[p] < NoAddr =>
    /\ argv[p] + ArgCells <= NoAddr
    /\ brk[p] <= argv[p] =>
         \A k \in 0 .. ArgCells - 1 :
           PageOf(argv[p] + k) \in mapped[p] /\ data[p][argv[p] + k] = "arg"

\* The page r lies below the break b, or holds it.
UpTo(r, b) == r = 0 \/ \E y \in 0 .. b - 1 : r <= PageOf(y)

\* Below a page that a program can still fault on, its pages were mapped one
\* after the other, and none of them behind the end of its VMA.
OrderInv ==
  \A p \in BeforeArgs : at[p] # "free" /\ heapVma[p] = p =>
    \A x \in 0 .. argv[p] - 1, r \in mapped[p] :
      PageOf(x) \notin mapped[p] /\ r < PageOf(x) =>
        r < end[p] /\ 0 .. r \subseteq mapped[p] /\ UpTo(r, brk[p])

\* In execve: the arguments so far, in pages that follow one another up to the
\* end of the old program's VMA.
ExecFor(p, vma) ==
  /\ boot = "up" /\ at[current] = "forked" /\ a[current] = 0
  /\ at[p] = "free" /\ cr3 = p /\ brk[p] = 0 /\ end[p] = 1 /\ 0 \in mapped[p]
  /\ argv[p] + ArgCells <= NoAddr /\ brk[current] = argv[p] + written
  /\ brk[vma] <= argv[p]
  /\ access # NoAddr => written > 0 /\ access = brk[current] - 1
  /\ \A r \in mapped[p] : /\ r < end[vma] /\ UpTo(r, brk[current])
                          /\ r # 0 => r .. end[vma] - 1 \subseteq mapped[p]
  /\ \A x \in Addr :
       IF argv[p] <= x /\ x < brk[current] /\ x # access
       THEN data[p][x] = "arg" /\ PageOf(x) \in mapped[p]
       ELSE data[p][x] = "none"

ExecInv == written # NotInExec => used + 1 \in Pcb /\ ExecFor(used + 1, heapVma[current])

HeapInv == /\ HeapTypeOK /\ ShareInv /\ FreshInv /\ AccessInv /\ EndInv
           /\ DataInv /\ ArgInv /\ OrderInv /\ ExecInv
------------------------------------------------------------------------------
\* Pages: a quotient is determined by the multiples that enclose the dividend.
LEMMA PageBounds ==
  ASSUME NEW x \in Nat, NEW e \in Nat
  PROVE  PageOf(x) \in Nat /\ (x < e * PageCells <=> PageOf(x) < e)
<1>0. PageCells \in Nat /\ PageCells > 0 BY AddressAssumption
<1>1. PICK d \in Nat : d = x \div PageCells BY <1>0
<1>2. d * PageCells <= x /\ x < (d + 1) * PageCells BY <1>0, <1>1
<1>3. ASSUME d < e PROVE x < e * PageCells
  <2>1. (d + 1) * PageCells <= e * PageCells BY <1>0, <1>3
  <2> QED BY <1>0, <1>2, <2>1
<1>4. ASSUME d >= e PROVE ~ (x < e * PageCells)
  <2>1. e * PageCells <= d * PageCells BY <1>0, <1>4
  <2> QED BY <1>0, <1>2, <2>1
<1> QED BY <1>1, <1>3, <1>4 DEF PageOf

LEMMA PagesGrow ==
  ASSUME NEW x \in Nat, NEW y \in Nat, x <= y
  PROVE  PageOf(x) <= PageOf(y)
<1>0. PageCells \in Nat /\ PageCells > 0 BY AddressAssumption
<1>1. PICK d \in Nat : d = PageOf(y) BY PageBounds
<1>2. PageOf(x) \in Nat BY PageBounds
<1>3. y < (d + 1) * PageCells BY <1>1, PageBounds
<1>4. (d + 1) * PageCells \in Nat BY <1>0
<1>5. x < (d + 1) * PageCells BY <1>3, <1>4
<1>6. PageOf(x) < d + 1 BY <1>5, PageBounds
<1> QED BY <1>1, <1>2, <1>6

LEMMA HeapFacts ==
  /\ NoAddr \in Nat /\ Addr = 0 .. NoAddr - 1 /\ HeapPages \in Nat /\ HeapPages > 0
  /\ ArgCells \in Nat /\ ArgCells > 0 /\ MaxAlloc \in Nat
  /\ \A x \in Addr : PageOf(x) \in 0 .. HeapPages - 1
  /\ \A x, y \in Addr : x <= y => PageOf(x) <= PageOf(y)
  /\ \A x \in Addr, e \in Nat : PageToMap(x, e) = IF PageOf(x) < e THEN PageOf(x) ELSE e
<1>0. /\ HeapPages \in Nat /\ HeapPages > 0 /\ PageCells \in Nat /\ ArgCells \in Nat /\ ArgCells > 0
      /\ MaxAlloc \in Nat
  BY AddressAssumption
<1>1. NoAddr \in Nat /\ Addr = 0 .. NoAddr - 1 BY <1>0 DEF NoAddr, Addr
<1>2. ASSUME NEW x \in Addr PROVE PageOf(x) \in 0 .. HeapPages - 1
  <2>1. x \in Nat /\ x < HeapPages * PageCells BY <1>1, <1>2 DEF NoAddr
  <2>2. PageOf(x) \in Nat /\ PageOf(x) < HeapPages BY <1>0, <2>1, PageBounds
  <2> QED BY <1>0, <2>2
<1>3. \A x, y \in Addr : x <= y => PageOf(x) <= PageOf(y) BY <1>1, PagesGrow
<1>4. \A x \in Addr, e \in Nat : PageToMap(x, e) = IF PageOf(x) < e THEN PageOf(x) ELSE e
  BY <1>1, PageBounds DEF PageToMap
<1> QED BY <1>0, <1>1, <1>2, <1>3, <1>4

LEMMA UpToGrows ==
  ASSUME NEW r, NEW b \in Nat, NEW c \in Nat, b <= c, UpTo(r, b)
  PROVE  UpTo(r, c)
<1>1. 0 .. b - 1 \subseteq 0 .. c - 1 OBVIOUS
<1> QED BY <1>1, Zenon DEF UpTo

\* The heap is added to the process ring: every step is one of its own or leaves
\* it alone.
LEMMA HeapRefinesRing == HeapSpec => Spec
<1>1. HeapInit => Init BY DEF HeapInit
<1>2. [HeapNext]_memoryVars => [Next]_vars
  BY DEF HeapNext, memoryVars, BootKernel, BootShell, StartShell, MallocSyscall, Touch, PageFault,
         Store, SegmentationFault, ForkHeap, BeginExec, WriteArg, EndExec, Exit, Switch, Next
<1> QED BY <1>1, <1>2, PTL DEF HeapSpec, Spec

LEMMA RingUnderHeap == HeapSpec => []IInv
BY HeapRefinesRing, InvariantHolds, PTL

LEMMA HeapInitEstablishes == HeapInit => HeapInv
<1> SUFFICES ASSUME HeapInit PROVE HeapInv
  OBVIOUS
<1> USE HeapFacts
<1>1. /\ \A p \in Pcb : /\ at[p] = "free" /\ brk[p] = 0 /\ argv[p] = NoAddr /\ heapVma[p] = p
                        /\ mapped[p] = {} /\ data[p] = Blank
      /\ access = NoAddr /\ written = NotInExec /\ boot = "kernProcess"
  BY DEF HeapInit, Init
<1>2. HeapTypeOK BY DEF HeapTypeOK, HeapInit, Init, Blank, Cell, NotInExec, Pcb, NULL, Kernel
<1>3. ShareInv BY <1>1 DEF ShareInv, Child
<1>4. FreshInv BY <1>1 DEF FreshInv
<1>5. AccessInv BY <1>1 DEF AccessInv
<1>6. EndInv BY <1>1 DEF EndInv, Alive
<1>7. DataInv /\ ArgInv BY <1>1 DEF DataInv, ArgInv, BeforeArgs, Blank
<1>8. OrderInv /\ ExecInv BY <1>1 DEF OrderInv, ExecInv, BeforeArgs
<1> QED BY <1>2, <1>3, <1>4, <1>5, <1>6, <1>7, <1>8 DEF HeapInv
------------------------------------------------------------------------------
LEMMA MallocStep ==
  ASSUME IInv, HeapInv, NEW size \in 1 .. MaxAlloc, MallocSyscall(size)
  PROVE  HeapInv'
<1> USE HeapFacts
<1>1. /\ UNCHANGED <<vars, heapVma, end, mapped, data, argv, cr3, access, written, halted>>
      /\ at[current] = "user" /\ boot = "up" /\ current \in Pcb /\ written = NotInExec
      /\ access = NoAddr /\ brk[current] + size <= NoAddr
      /\ brk' = [brk EXCEPT ![current] = @ + size]
  BY DEF MallocSyscall, InUserMode, Running, IInv, RingInv, KernelInv
<1>2. UNCHANGED <<at, a, next, used, boot, current>> BY <1>1 DEF vars, pcbVars
<1>3. /\ brk \in [Pcb -> 0 .. NoAddr] /\ argv \in [Pcb -> 0 .. NoAddr] /\ HeapTypeOK
      /\ heapVma \in [Pcb -> Pcb]
  BY DEF HeapInv, HeapTypeOK
<1>4. \A p \in Pcb : brk[p] <= brk'[p] /\ (p # current => brk'[p] = brk[p]) /\ brk'[p] \in 0 .. NoAddr
  BY <1>1, <1>3
<1>5. HeapTypeOK'
  <2>1. brk' \in [Pcb -> 0 .. NoAddr] BY <1>1, <1>3
  <2> QED BY <2>1, <1>1, <1>3 DEF HeapTypeOK
<1>6. BeforeArgs' \subseteq BeforeArgs /\ Loading' = Loading
  BY <1>1, <1>2, <1>3, <1>4 DEF BeforeArgs, Loading
<1>7. ShareInv'
  <2>1. \A p \in Pcb : Child(p) => p # current /\ heapVma[p] = current
    BY <1>1 DEF Child, HeapInv, ShareInv
  <2>2. \A p \in Pcb : ~ Child(p) BY <1>1 DEF Child, HeapInv, ShareInv
  <2> QED BY <2>2, <1>1, <1>2 DEF HeapInv, ShareInv, Child
<1>8. FreshInv' BY <1>1, <1>2, <1>4, <1>6 DEF HeapInv, FreshInv
<1>9. AccessInv' BY <1>1, <1>2 DEF HeapInv, AccessInv
<1>10. EndInv' BY <1>1, <1>2 DEF HeapInv, EndInv, Alive
<1>11. DataInv' BY <1>1, <1>6 DEF HeapInv, DataInv
<1>12. ArgInv'
  <2>1. ASSUME NEW p \in Pcb \ Loading, brk'[p] <= argv[p] PROVE brk[p] <= argv[p]
    BY <1>3, <1>4, <2>1
  <2> QED BY <2>1, <1>1, <1>6 DEF HeapInv, ArgInv
<1>13. OrderInv'
  <2>1. ASSUME NEW p \in Pcb, NEW r, UpTo(r, brk[p]) PROVE UpTo(r, brk'[p])
    <3>1. brk[p] \in Nat /\ brk'[p] \in Nat /\ brk[p] <= brk'[p] BY <1>3, <1>4
    <3> QED BY <3>1, <2>1, UpToGrows
  <2>3. ASSUME NEW p \in BeforeArgs, at[p] # "free", heapVma[p] = p,
               NEW x \in 0 .. argv[p] - 1, NEW r \in mapped[p],
               PageOf(x) \notin mapped[p], r < PageOf(x)
        PROVE  r < end[p] /\ 0 .. r \subseteq mapped[p] /\ UpTo(r, brk'[p])
    <3>1. p \in Pcb BY DEF BeforeArgs
    <3>2. r < end[p] /\ 0 .. r \subseteq mapped[p] /\ UpTo(r, brk[p])
      BY <2>3 DEF HeapInv, OrderInv
    <3> QED BY <3>1, <3>2, <2>1
  <2> QED BY <2>3, <1>1, <1>2, <1>6 DEF OrderInv, UpTo
<1>14. ExecInv' BY <1>1 DEF ExecInv
<1> QED BY <1>5, <1>7, <1>8, <1>9, <1>10, <1>11, <1>12, <1>13, <1>14 DEF HeapInv

LEMMA TouchStep ==
  ASSUME IInv, HeapInv, NEW x \in Addr, Touch(x)
  PROVE  HeapInv'
<1> USE HeapFacts
<1>1. /\ UNCHANGED <<vars, brk, heapVma, end, mapped, data, argv, cr3, written, halted>>
      /\ at[current] = "user" /\ boot = "up" /\ current \in Pcb /\ written = NotInExec
      /\ access' = x /\ x < brk[current] /\ 0 .. PageOf(x) - 1 \subseteq mapped[cr3]
  BY DEF Touch, InUserMode, Running, IInv, RingInv, KernelInv
<1>2. UNCHANGED <<at, a, next, used, boot, current>> BY <1>1 DEF vars, pcbVars
<1>3. HeapTypeOK' BY <1>1, SMTT(30) DEF HeapInv, HeapTypeOK
<1>4. ShareInv' /\ FreshInv' BY <1>1, <1>2 DEF HeapInv, ShareInv, FreshInv, Child, Loading
<1>5. AccessInv' BY <1>1, <1>2 DEF HeapInv, AccessInv
<1>6. EndInv' BY <1>1, <1>2 DEF HeapInv, EndInv, Alive
<1>7. DataInv' /\ ArgInv'
  BY <1>1, <1>2 DEF HeapInv, DataInv, ArgInv, BeforeArgs, Loading
<1>8. OrderInv' BY <1>1, <1>2 DEF HeapInv, OrderInv, BeforeArgs, Loading, UpTo
<1>9. ExecInv' BY <1>1 DEF ExecInv
<1> QED BY <1>3, <1>4, <1>5, <1>6, <1>7, <1>8, <1>9 DEF HeapInv

\* SegmentationFault stops the machine, and a stuttering step does nothing.
LEMMA HeapStutter ==
  ASSUME IInv, HeapInv,
         UNCHANGED <<vars, brk, heapVma, end, mapped, data, argv, cr3, access, written>>,
         halted' \in Pcb \cup {NULL}
  PROVE  HeapInv'
<1>2. UNCHANGED <<at, a, next, used, boot, current>> BY DEF vars, pcbVars
<1>3. HeapTypeOK' BY DEF HeapInv, HeapTypeOK
<1>4. ShareInv' /\ FreshInv' BY <1>2 DEF HeapInv, ShareInv, FreshInv, Child, Loading
<1>5. AccessInv' BY <1>2 DEF HeapInv, AccessInv
<1>6. EndInv' BY <1>2 DEF HeapInv, EndInv, Alive
<1>7. DataInv' /\ ArgInv'
  BY <1>2 DEF HeapInv, DataInv, ArgInv, BeforeArgs, Loading
<1>8. OrderInv' BY <1>2 DEF HeapInv, OrderInv, BeforeArgs, Loading, UpTo
<1>9. ExecInv' BY <1>2 DEF HeapInv, ExecInv, ExecFor, UpTo
<1> QED BY <1>3, <1>4, <1>5, <1>6, <1>7, <1>8, <1>9 DEF HeapInv
------------------------------------------------------------------------------
\* What a fault maps: the page that was touched, or the one at the end of the VMA.
LEMMA FaultFacts ==
  ASSUME IInv, HeapInv, PageFault
  PROVE  \E x \in Addr, vma \in Pcb, page \in 0 .. HeapPages - 1 :
           /\ x = access /\ vma = heapVma[current] /\ cr3 \in Pcb /\ current \in Pcb
           /\ end[vma] \in Nat /\ boot = "up"
           /\ PageOf(x) \notin mapped[cr3]
           /\ page = IF PageOf(x) < end[vma] THEN PageOf(x) ELSE end[vma]
           /\ mapped' = [mapped EXCEPT ![cr3] = @ \cup {page}]
           /\ data' = [data EXCEPT ![cr3] = Remapped(@, page)]
           /\ end' = [end EXCEPT ![vma] = page + 1]
           /\ UNCHANGED <<vars, brk, heapVma, argv, cr3, access, written, halted>>
           /\ UNCHANGED <<at, a, next, used, boot, current>>
<1> USE HeapFacts
<1>1. /\ access # NoAddr /\ access \in 0 .. NoAddr /\ cr3 \in Pcb
      /\ heapVma \in [Pcb -> Pcb] /\ end \in [Pcb -> 0 .. HeapPages]
  BY DEF PageFault, HeapInv, HeapTypeOK
<1>2. boot = "up" /\ current \in Pcb
  BY <1>1 DEF HeapInv, AccessInv, IInv, RingInv, KernelInv
<1>3. PICK x \in Addr, vma \in Pcb : x = access /\ vma = heapVma[current] BY <1>1, <1>2
<1>4. end[vma] \in 0 .. HeapPages /\ PageOf(x) \in 0 .. HeapPages - 1 BY <1>1
<1>5. PICK page \in 0 .. HeapPages - 1 :
        /\ page = PageToMap(x, end[vma])
        /\ page = IF PageOf(x) < end[vma] THEN PageOf(x) ELSE end[vma]
  <2>1. PageToMap(x, end[vma]) = IF PageOf(x) < end[vma] THEN PageOf(x) ELSE end[vma] BY <1>4
  <2> QED BY <1>4, <2>1
<1>6. UNCHANGED <<at, a, next, used, boot, current>> BY DEF PageFault, vars, pcbVars
<1>7. /\ PageOf(x) \notin mapped[cr3]
      /\ mapped' = [mapped EXCEPT ![cr3] = @ \cup {page}]
      /\ data' = [data EXCEPT ![cr3] = Remapped(@, page)]
      /\ end' = [end EXCEPT ![vma] = page + 1]
      /\ UNCHANGED <<vars, brk, heapVma, argv, cr3, access, written, halted>>
  <2>1. PageToMap(access, end[heapVma[current]]) = page BY <1>3, <1>5
  <2> QED BY <2>1, <1>3, Zenon DEF PageFault
<1>8. end[vma] \in Nat BY <1>4
<1> QED BY <1>1, <1>2, <1>3, <1>5, <1>6, <1>7, <1>8

\* A fault of a program: the end of its VMA moves behind the page it touched.
LEMMA OwnFaultStep ==
  ASSUME IInv, HeapInv, PageFault, written = NotInExec
  PROVE  HeapInv'
<1> USE HeapFacts
<1>1. PICK x \in Addr, vma \in Pcb, page \in 0 .. HeapPages - 1 :
        /\ x = access /\ vma = heapVma[current] /\ cr3 \in Pcb /\ current \in Pcb
        /\ end[vma] \in Nat /\ boot = "up"
        /\ PageOf(x) \notin mapped[cr3]
        /\ page = IF PageOf(x) < end[vma] THEN PageOf(x) ELSE end[vma]
        /\ mapped' = [mapped EXCEPT ![cr3] = @ \cup {page}]
        /\ data' = [data EXCEPT ![cr3] = Remapped(@, page)]
        /\ end' = [end EXCEPT ![vma] = page + 1]
        /\ UNCHANGED <<vars, brk, heapVma, argv, cr3, access, written, halted>>
        /\ UNCHANGED <<at, a, next, used, boot, current>>
  BY FaultFacts
<1>2. x # NoAddr BY <1>1
<1>3. /\ cr3 = current /\ at[current] = "user" /\ x < brk[current]
      /\ 0 .. PageOf(x) - 1 \subseteq mapped[current]
  BY <1>1, <1>2 DEF HeapInv, AccessInv
<1>4. vma = current BY <1>1, <1>3 DEF HeapInv, ShareInv, Child
<1>5. /\ mapped \in [Pcb -> SUBSET (0 .. HeapPages)] /\ data \in [Pcb -> [Addr -> Cell]]
      /\ end \in [Pcb -> 0 .. HeapPages] /\ brk \in [Pcb -> 0 .. NoAddr]
      /\ argv \in [Pcb -> 0 .. NoAddr]
  BY DEF HeapInv, HeapTypeOK
<1>6. /\ \A p \in Pcb \ {current} : mapped'[p] = mapped[p] /\ data'[p] = data[p] /\ end'[p] = end[p]
      /\ mapped'[current] = mapped[current] \cup {page} /\ end'[current] = page + 1
      /\ data'[current] = Remapped(data[current], page)
  BY <1>1, <1>3, <1>4, <1>5
<1>7. current \in BeforeArgs => page = PageOf(x)
  <2> SUFFICES ASSUME current \in BeforeArgs, end[current] < PageOf(x) PROVE FALSE
    BY <1>1, <1>4
  <2>1. end[current] \in mapped[current] BY <1>1, <1>3, <1>4
  <2>2. x \in 0 .. argv[current] - 1 BY <1>1, <1>3, <1>5 DEF BeforeArgs
  <2>3. at[current] # "free" /\ heapVma[current] = current BY <1>1, <1>3, <1>4
  <2>4. end[current] < end[current] BY <1>1, <1>3, <2>1, <2>2, <2>3 DEF HeapInv, OrderInv
  <2> QED BY <2>4, <1>1, <1>4
<1>8. BeforeArgs' = BeforeArgs /\ Loading' = Loading /\ Loading = {}
  BY <1>1 DEF BeforeArgs, Loading
<1>9. HeapTypeOK'
  <2>1. Remapped(data[current], page) \in [Addr -> Cell] BY <1>1, <1>5, SMTT(30) DEF Remapped, Cell
  <2>2. data' \in [Pcb -> [Addr -> Cell]] BY <2>1, <1>1, <1>3, <1>5
  <2>3. mapped' \in [Pcb -> SUBSET (0 .. HeapPages)] BY <1>1, <1>5, SMTT(30)
  <2>4. end' \in [Pcb -> 0 .. HeapPages]
    <3>1. page + 1 \in 0 .. HeapPages OBVIOUS
    <3> QED BY <3>1, <1>1, <1>5
  <2> QED BY <2>2, <2>3, <2>4, <1>1 DEF HeapInv, HeapTypeOK
<1>10. ShareInv' BY <1>1 DEF HeapInv, ShareInv, Child
<1>11. FreshInv' BY <1>1, <1>3, <1>6, <1>8 DEF HeapInv, FreshInv
<1>12. AccessInv' BY <1>1, <1>3, <1>6 DEF HeapInv, AccessInv
<1>13. EndInv'
  <2>1. heapVma \in [Pcb -> Pcb] BY DEF HeapInv, HeapTypeOK
  <2> QED BY <2>1, <1>1, <1>6 DEF HeapInv, EndInv, Alive
<1>14. DataInv'
  <2>1. ASSUME NEW p \in BeforeArgs, NEW y \in Addr
        PROVE  data'[p][y] # "lost" /\ (data'[p][y] # "none" => PageOf(y) \in mapped'[p])
    <3>1. p \in Pcb BY DEF BeforeArgs
    <3>2. data[p][y] # "lost" /\ (data[p][y] # "none" => PageOf(y) \in mapped[p])
      BY DEF HeapInv, DataInv
    <3>3. CASE p # current BY <3>1, <3>2, <3>3, <1>6
    <3>4. CASE p = current
      <4>1. data'[p][y] = IF PageOf(y) # page THEN data[p][y]
                          ELSE IF data[p][y] = "none" THEN "none" ELSE "lost"
        BY <1>6, <3>4 DEF Remapped
      <4>2. PageOf(y) = page => data[p][y] = "none" BY <1>1, <1>3, <1>7, <3>2, <3>4
      <4> QED BY <4>1, <4>2, <3>2, <3>4, <1>6
    <3> QED BY <3>3, <3>4
  <2> QED BY <2>1, <1>8 DEF DataInv
<1>15. ArgInv'
  <2>1. ASSUME NEW p \in Pcb, argv[p] < NoAddr, brk[p] <= argv[p], NEW k \in 0 .. ArgCells - 1
        PROVE  PageOf(argv[p] + k) \in mapped'[p] /\ data'[p][argv[p] + k] = "arg"
    <3>1. PageOf(argv[p] + k) \in mapped[p] /\ data[p][argv[p] + k] = "arg"
          /\ argv[p] + ArgCells <= NoAddr
      BY <2>1, <1>8 DEF HeapInv, ArgInv
    <3>2. CASE p # current BY <3>1, <3>2, <1>6
    <3>3. CASE p = current
      <4>1. argv[p] + k \in Addr BY <3>1, <1>5, SMTT(30)
      <4>2. p \in BeforeArgs BY <2>1, <1>8 DEF BeforeArgs
      <4>3. PageOf(argv[p] + k) # page BY <3>1, <3>3, <4>2, <1>1, <1>3, <1>7
      <4>4. data'[p][argv[p] + k] = data[p][argv[p] + k] BY <4>1, <4>3, <3>3, <1>6 DEF Remapped
      <4> QED BY <4>4, <3>1, <3>3, <1>6
    <3> QED BY <3>2, <3>3
  <2> QED BY <2>1, <1>1, <1>8 DEF HeapInv, ArgInv
<1>16. OrderInv'
  <2>1. ASSUME NEW p \in BeforeArgs, at[p] # "free", heapVma[p] = p,
               NEW y \in 0 .. argv[p] - 1, NEW r \in mapped'[p],
               PageOf(y) \notin mapped'[p], r < PageOf(y)
        PROVE  r < end'[p] /\ 0 .. r \subseteq mapped'[p] /\ UpTo(r, brk[p])
    <3>1. p \in Pcb /\ y \in Addr BY <1>5 DEF BeforeArgs
    <3>2. CASE p # current BY <2>1, <3>1, <3>2, <1>6 DEF HeapInv, OrderInv
    <3>3. CASE p = current
      <4>1. page = PageOf(x) /\ PageOf(y) # page /\ PageOf(y) \notin mapped[p]
        BY <2>1, <3>3, <1>6, <1>7
      <4>2. ASSUME r \in mapped[p]
            PROVE  r < end[p] /\ 0 .. r \subseteq mapped[p] /\ UpTo(r, brk[p])
        BY <2>1, <4>1, <4>2 DEF HeapInv, OrderInv
      <4>3. r \in Nat /\ r < page + 1
        <5>0. mapped[current] \subseteq Nat BY <1>1, <1>5
        <5>1. r \in Nat BY <5>0, <2>1, <3>3, <1>6
        <5>2. r # page => ~ (page < r) BY <4>1, <4>2, <5>1, <2>1, <3>3, <1>1, <1>3, <1>6
        <5> QED BY <5>1, <5>2
      <4>4. 0 .. r \subseteq mapped'[p]
        <5> SUFFICES ASSUME NEW z \in 0 .. r PROVE z \in mapped[p] \/ z = page
          BY <3>3, <1>6
        <5>1. z = page \/ z \in 0 .. page - 1 BY <4>3
        <5> QED BY <5>1, <4>1, <3>3, <1>3
      <4>5. UpTo(r, brk[p])
        <5>1. CASE r \in mapped[p] BY <5>1, <4>2
        <5>2. CASE r = page
          <6>1. x \in 0 .. brk[p] - 1 BY <1>1, <1>3, <1>5, <3>3
          <6> QED BY <6>1, <5>2, <4>1 DEF UpTo
        <5> QED BY <5>1, <5>2, <2>1, <3>3, <1>6
      <4> QED BY <4>3, <4>4, <4>5, <3>3, <1>6
    <3> QED BY <3>2, <3>3
  <2> QED BY <2>1, <1>1, <1>8 DEF OrderInv, UpTo
<1>17. ExecInv' BY <1>1 DEF ExecInv
<1> QED BY <1>9, <1>10, <1>11, <1>12, <1>13, <1>14, <1>15, <1>16, <1>17 DEF HeapInv

\* In execve: the new process and the VMA of the old one.
LEMMA ExecFacts ==
  ASSUME IInv, HeapInv, written # NotInExec
  PROVE  \E p \in Pcb, vma \in Pcb :
           /\ p = used + 1 /\ vma = heapVma[current] /\ Loading = {p} /\ current \in Pcb
           /\ p # current /\ vma # p /\ vma # current /\ heapVma[vma] = vma
           /\ ExecFor(p, vma)
<1>1. PICK p \in Pcb : p = used + 1 /\ ExecFor(p, heapVma[current]) BY DEF HeapInv, ExecInv
<1>2. boot = "up" /\ at[current] = "forked" /\ a[current] = 0 /\ at[p] = "free"
  BY <1>1 DEF ExecFor
<1>3. current \in Pcb BY <1>2 DEF IInv, RingInv, KernelInv
<1>4. PICK vma \in Pcb : vma = heapVma[current] BY <1>3 DEF HeapInv, HeapTypeOK
<1>5. at[vma] = "waitpid" BY <1>2, <1>3, <1>4 DEF HeapInv, ShareInv
<1>6. heapVma[vma] = vma BY <1>5 DEF HeapInv, ShareInv, Child
<1>7. Loading = {p} BY <1>1 DEF Loading
<1>8. p # current /\ vma # p /\ vma # current BY <1>2, <1>5
<1> QED BY <1>1, <1>3, <1>4, <1>6, <1>7, <1>8

\* A fault of execve, in the new table with the VMA of the old program.
LEMMA ExecFaultStep ==
  ASSUME IInv, HeapInv, PageFault, written # NotInExec
  PROVE  HeapInv'
<1> USE HeapFacts DEF ExecFor
<1>1. PICK x \in Addr, v \in Pcb, page \in 0 .. HeapPages - 1 :
        /\ x = access /\ v = heapVma[current] /\ cr3 \in Pcb /\ current \in Pcb
        /\ end[v] \in Nat /\ boot = "up"
        /\ PageOf(x) \notin mapped[cr3]
        /\ page = IF PageOf(x) < end[v] THEN PageOf(x) ELSE end[v]
        /\ mapped' = [mapped EXCEPT ![cr3] = @ \cup {page}]
        /\ data' = [data EXCEPT ![cr3] = Remapped(@, page)]
        /\ end' = [end EXCEPT ![v] = page + 1]
        /\ UNCHANGED <<vars, brk, heapVma, argv, cr3, access, written, halted>>
        /\ UNCHANGED <<at, a, next, used, boot, current>>
  BY FaultFacts
<1>2. PICK n \in Pcb, vma \in Pcb :
        /\ n = used + 1 /\ vma = heapVma[current] /\ Loading = {n} /\ current \in Pcb
        /\ n # current /\ vma # n /\ vma # current /\ heapVma[vma] = vma
        /\ ExecFor(n, vma)
  BY ExecFacts
<1>3. /\ mapped \in [Pcb -> SUBSET (0 .. HeapPages)] /\ data \in [Pcb -> [Addr -> Cell]]
      /\ end \in [Pcb -> 0 .. HeapPages] /\ brk \in [Pcb -> 0 .. NoAddr]
      /\ argv \in [Pcb -> 0 .. NoAddr] /\ heapVma \in [Pcb -> Pcb]
      /\ written \in Nat
  <2>1. written \in Nat
    <3>1. written \in -1 .. ArgCells /\ written # -1 BY DEF HeapInv, HeapTypeOK, NotInExec
    <3> QED BY <3>1
  <2> QED BY <2>1 DEF HeapInv, HeapTypeOK
<1>4. v = vma /\ x # NoAddr /\ written > 0 /\ x = brk[current] - 1 /\ argv[n] <= x
      /\ x \in 0 .. brk[current] - 1
  <2>1. v = vma /\ x # NoAddr BY <1>1, <1>2
  <2>2. written > 0 /\ x = brk[current] - 1 BY <2>1, <1>1, <1>2
  <2>3. brk[current] \in Nat /\ argv[n] \in Nat /\ brk[current] = argv[n] + written
    BY <1>2, <1>3
  <2>4. written \in Nat BY <1>3
  <2>5. PICK b \in Nat, g \in Nat : b = brk[current] /\ g = argv[n] BY <2>3
  <2>6. g <= x /\ x \in 0 .. b - 1 BY <2>2, <2>3, <2>4, <2>5, SMTT(30)
  <2> QED BY <2>1, <2>2, <2>5, <2>6
<1>5. /\ \A p \in Pcb \ {n} : mapped'[p] = mapped[p] /\ data'[p] = data[p]
      /\ \A p \in Pcb \ {vma} : end'[p] = end[p]
      /\ mapped'[n] = mapped[n] \cup {page} /\ end'[vma] = page + 1
      /\ data'[n] = Remapped(data[n], page)
  BY <1>1, <1>2, <1>3, <1>4
<1>6. mapped[n] \subseteq Nat BY <1>3
<1>7. \A r \in mapped[n] : r <= PageOf(x)
  <2> SUFFICES ASSUME NEW r \in mapped[n] PROVE r <= PageOf(x)
    OBVIOUS
  <2>1. r = 0 \/ \E y \in 0 .. brk[current] - 1 : r <= PageOf(y) BY <1>2 DEF UpTo
  <2>2. CASE r = 0 BY <2>2
  <2>3. CASE \E y \in 0 .. brk[current] - 1 : r <= PageOf(y)
    <3>1. PICK y \in 0 .. brk[current] - 1 : r <= PageOf(y) BY <2>3
    <3>2. brk[current] \in 0 .. NoAddr BY <1>1, <1>3
    <3>3. y \in Addr /\ y <= x BY <3>1, <3>2, <1>4
    <3>4. PageOf(y) <= PageOf(x) /\ PageOf(y) \in Nat /\ PageOf(x) \in Nat BY <3>3
    <3> QED BY <3>1, <3>4, <1>6
  <2> QED BY <2>1, <2>2, <2>3
<1>8. page \notin mapped[n] /\ page <= PageOf(x)
  <2>1. PageOf(x) \notin mapped[n] BY <1>1, <1>2
  <2>2. end[vma] \notin mapped[n] BY <1>1, <1>2, <1>4
  <2> QED BY <2>1, <2>2, <1>1, <1>4
<1>9. data'[n] = data[n]
  <2>1. \A y \in Addr : PageOf(y) = page => data[n][y] = "none" BY <1>2, <1>8
  <2>2. \A y \in Addr : Remapped(data[n], page)[y] = data[n][y] BY <2>1 DEF Remapped
  <2>3. data[n] \in [Addr -> Cell] BY <1>3
  <2>4. Remapped(data[n], page) = [y \in Addr |-> Remapped(data[n], page)[y]] BY DEF Remapped
  <2> QED BY <2>2, <2>3, <2>4, <1>5
<1>10. BeforeArgs' = BeforeArgs /\ Loading' = Loading
  BY <1>1 DEF BeforeArgs, Loading
<1>11. HeapTypeOK'
  <2>1. data' \in [Pcb -> [Addr -> Cell]]
    <3>1. Remapped(data[n], page) \in [Addr -> Cell] BY <1>3, <1>5, <1>9
    <3> QED BY <3>1, <1>1, <1>2, <1>3
  <2>2. mapped' \in [Pcb -> SUBSET (0 .. HeapPages)]
    <3>1. mapped[n] \cup {page} \in SUBSET (0 .. HeapPages) BY <1>3
    <3> QED BY <3>1, <1>1, <1>2, <1>3
  <2>3. end' \in [Pcb -> 0 .. HeapPages]
    <3>1. page + 1 \in 0 .. HeapPages OBVIOUS
    <3> QED BY <3>1, <1>1, <1>3
  <2> QED BY <2>1, <2>2, <2>3, <1>1 DEF HeapInv, HeapTypeOK
<1>12. ShareInv' BY <1>1 DEF HeapInv, ShareInv, Child
<1>13. FreshInv' BY <1>1, <1>2, <1>5, <1>10 DEF HeapInv, FreshInv
<1>14. AccessInv' BY <1>1, <1>2 DEF HeapInv, AccessInv
<1>15. EndInv'
  <2>1. ASSUME NEW p \in Alive PROVE end'[heapVma[p]] > 0
    <3>1. heapVma[p] \in Pcb /\ end[heapVma[p]] > 0 BY <1>3 DEF HeapInv, EndInv, Alive
    <3>2. page + 1 > 0 OBVIOUS
    <3> QED BY <3>1, <3>2, <1>5
  <2> QED BY <2>1, <1>1 DEF EndInv, Alive
<1>16. DataInv'
  <2>1. \A p \in BeforeArgs : p \in Pcb \ {n} BY <1>2 DEF BeforeArgs
  <2> QED BY <2>1, <1>5, <1>10 DEF HeapInv, DataInv
<1>17. ArgInv' BY <1>1, <1>2, <1>5, <1>10, SMTT(30) DEF HeapInv, ArgInv
<1>18. OrderInv'
  <2>1. ASSUME NEW p \in BeforeArgs, at[p] # "free", heapVma[p] = p,
               NEW y \in 0 .. argv[p] - 1, NEW r \in mapped'[p],
               PageOf(y) \notin mapped'[p], r < PageOf(y)
        PROVE  r < end'[p] /\ 0 .. r \subseteq mapped'[p] /\ UpTo(r, brk[p])
    <3>1. p \in Pcb \ {n} /\ mapped'[p] = mapped[p] BY <1>2, <1>5 DEF BeforeArgs
    <3>2. r < end[p] /\ 0 .. r \subseteq mapped[p] /\ UpTo(r, brk[p])
      BY <2>1, <3>1 DEF HeapInv, OrderInv
    <3>3. CASE p # vma BY <3>1, <3>2, <3>3, <1>5
    <3>4. CASE p = vma
      <4>1. r <= PageOf(x)
        <5>1. CASE r = 0 BY <5>1
        <5>2. CASE r # 0
          <6>1. PICK z \in 0 .. brk[p] - 1 : r <= PageOf(z) BY <3>2, <5>2 DEF UpTo
          <6>2. brk[p] \in 0 .. NoAddr /\ brk[p] <= x
            <7>1. brk[p] \in 0 .. NoAddr /\ argv[n] \in 0 .. NoAddr BY <3>1, <1>3
            <7>2. brk[p] <= argv[n] BY <1>2, <3>4
            <7> QED BY <7>1, <7>2, <1>4
          <6>3. z \in Addr /\ z <= x BY <6>1, <6>2
          <6>4. PageOf(z) <= PageOf(x) /\ PageOf(z) \in Nat /\ PageOf(x) \in Nat BY <6>3
          <6>5. mapped[p] \subseteq Nat BY <3>1, <1>3
          <6>6. r \in Nat BY <2>1, <3>1, <6>5
          <6> QED BY <6>1, <6>4, <6>6
        <5> QED BY <5>1, <5>2
      <4>2. mapped[p] \subseteq Nat BY <3>1, <1>3
      <4>3. r \in Nat BY <2>1, <3>1, <4>2
      <4>4. r < page + 1 BY <4>1, <4>3, <3>2, <3>4, <1>1, <1>4
      <4> QED BY <4>4, <3>1, <3>2, <3>4, <1>5
    <3> QED BY <3>3, <3>4
  <2> QED BY <2>1, <1>1, <1>10, SMTT(30) DEF OrderInv, UpTo
<1>19. ExecInv'
  <2>1. ASSUME NEW r \in mapped'[n]
        PROVE  /\ r < page + 1 /\ UpTo(r, brk[current])
               /\ r # 0 => r .. page \subseteq mapped'[n]
    <3>1. CASE r = page
      <4>1. UpTo(r, brk[current]) BY <3>1, <1>4, <1>8 DEF UpTo
      <4>2. r .. page \subseteq mapped'[n] BY <3>1, <1>5
      <4> QED BY <3>1, <4>1, <4>2
    <3>2. CASE r # page
      <4>1. r \in mapped[n] /\ r \in Nat BY <2>1, <3>2, <1>5, <1>6
      <4>2. r <= PageOf(x) /\ r < end[vma] /\ UpTo(r, brk[current])
            /\ (r # 0 => r .. end[vma] - 1 \subseteq mapped[n])
        BY <4>1, <1>2, <1>7
      <4>3. CASE page = end[vma]
        <5>1. r .. page = (r .. end[vma] - 1) \cup {page} BY <4>1, <4>2, <4>3, <1>1
        <5>2. r # 0 => r .. page \subseteq mapped'[n] BY <4>2, <5>1, <1>5
        <5>3. r < page + 1 BY <4>1, <4>2, <4>3
        <5> QED BY <4>2, <5>2, <5>3
      <4>4. CASE page # end[vma]
        <5>1. page = PageOf(x) /\ PageOf(x) < end[vma] BY <4>4, <1>1, <1>4
        <5>2. page \in r .. end[vma] - 1 BY <4>1, <4>2, <5>1, <1>1, <1>4
        <5>3. r = 0 BY <4>2, <5>2, <1>8
        <5> QED BY <4>2, <5>3
      <4> QED BY <4>3, <4>4
    <3> QED BY <3>1, <3>2
  <2>2. \A r \in mapped'[n] : /\ r < end'[vma] /\ UpTo(r, brk[current])
                              /\ r # 0 => r .. end'[vma] - 1 \subseteq mapped'[n]
    <3>1. end'[vma] = page + 1 /\ (page + 1) - 1 = page BY <1>5
    <3> QED BY <2>1, <3>1
  <2>3. \A y \in Addr :
          IF argv[n] <= y /\ y < brk[current] /\ y # access
          THEN data'[n][y] = "arg" /\ PageOf(y) \in mapped'[n]
          ELSE data'[n][y] = "none"
    BY <1>2, <1>5, <1>9, SMTT(30)
  <2>4. end'[n] = 1 /\ 0 \in mapped'[n] BY <1>2, <1>5
  <2>5. ExecFor(n, vma)' BY <2>2, <2>3, <2>4, <1>1, <1>2 DEF UpTo
  <2> QED BY <2>5, <1>1, <1>2 DEF ExecInv
<1> QED BY <1>11, <1>12, <1>13, <1>14, <1>15, <1>16, <1>17, <1>18, <1>19 DEF HeapInv

LEMMA PageFaultStep == IInv /\ HeapInv /\ PageFault => HeapInv'
BY OwnFaultStep, ExecFaultStep

LEMMA StoreStep == IInv /\ HeapInv /\ Store => HeapInv'
<1> SUFFICES ASSUME IInv, HeapInv, Store PROVE HeapInv'
  OBVIOUS
<1> USE HeapFacts
<1>1. /\ access # NoAddr /\ PageOf(access) \in mapped[cr3] /\ access' = NoAddr
      /\ data' = [data EXCEPT ![cr3][access] = IF written = NotInExec THEN "own" ELSE "arg"]
      /\ UNCHANGED <<vars, brk, heapVma, end, mapped, argv, cr3, written, halted>>
  BY DEF Store
<1>2. UNCHANGED <<at, a, next, used, boot, current>> BY <1>1 DEF vars, pcbVars
<1>3. /\ mapped \in [Pcb -> SUBSET (0 .. HeapPages)] /\ data \in [Pcb -> [Addr -> Cell]]
      /\ brk \in [Pcb -> 0 .. NoAddr] /\ argv \in [Pcb -> 0 .. NoAddr]
      /\ cr3 \in Pcb /\ access \in 0 .. NoAddr
  BY DEF HeapInv, HeapTypeOK
<1>4. PICK x \in Addr : x = access BY <1>1, <1>3
<1>5. boot = "up" /\ current \in Pcb
  BY <1>1 DEF HeapInv, AccessInv, IInv, RingInv, KernelInv
<1>6. /\ \A p \in Pcb \ {cr3} : data'[p] = data[p]
      /\ \A y \in Addr \ {x} : data'[cr3][y] = data[cr3][y]
      /\ data'[cr3][x] = IF written = NotInExec THEN "own" ELSE "arg"
  BY <1>1, <1>3, <1>4
<1>7. BeforeArgs' = BeforeArgs /\ Loading' = Loading BY <1>1, <1>2 DEF BeforeArgs, Loading
<1>8. HeapTypeOK'
  <2>1. data' \in [Pcb -> [Addr -> Cell]] BY <1>1, <1>3, <1>4 DEF Cell
  <2> QED BY <2>1, <1>1 DEF HeapInv, HeapTypeOK
<1>9. ShareInv' BY <1>1, <1>2 DEF HeapInv, ShareInv, Child
<1>10. EndInv' BY <1>1, <1>2 DEF HeapInv, EndInv, Alive
<1>11. AccessInv' BY <1>1, <1>2 DEF HeapInv, AccessInv
<1>12. OrderInv' BY <1>1, <1>2, <1>7 DEF HeapInv, OrderInv, UpTo
<1>13. CASE written = NotInExec
  <2>1. cr3 = current /\ at[current] = "user" /\ x < brk[current]
    BY <1>1, <1>4, <1>5, <1>13 DEF HeapInv, AccessInv
  <2>2. FreshInv' BY <2>1, <1>1, <1>2, <1>6, <1>7 DEF HeapInv, FreshInv
  <2>3. DataInv'
    <3>1. ASSUME NEW p \in BeforeArgs, NEW y \in Addr
          PROVE  data'[p][y] # "lost" /\ (data'[p][y] # "none" => PageOf(y) \in mapped[p])
      <4>1. p \in Pcb BY DEF BeforeArgs
      <4>2. data[p][y] # "lost" /\ (data[p][y] # "none" => PageOf(y) \in mapped[p])
        BY DEF HeapInv, DataInv
      <4>3. CASE p = cr3 /\ y = x BY <4>3, <1>1, <1>4, <1>6, <1>13
      <4>4. CASE ~ (p = cr3 /\ y = x) BY <4>1, <4>2, <4>4, <1>6
      <4> QED BY <4>3, <4>4
    <3> QED BY <3>1, <1>1, <1>7 DEF DataInv
  <2>4. ArgInv'
    <3>1. ASSUME NEW p \in Pcb \ Loading, argv[p] < NoAddr, brk[p] <= argv[p],
                 NEW k \in 0 .. ArgCells - 1
          PROVE  PageOf(argv[p] + k) \in mapped[p] /\ data'[p][argv[p] + k] = "arg"
      <4>1. /\ PageOf(argv[p] + k) \in mapped[p] /\ data[p][argv[p] + k] = "arg"
            /\ argv[p] + ArgCells <= NoAddr
        BY <3>1 DEF HeapInv, ArgInv
      <4>2. argv[p] \in 0 .. NoAddr /\ brk[p] \in 0 .. NoAddr BY <1>3
      <4>3. argv[p] + k \in Addr BY <4>1, <4>2
      <4>4. p = cr3 => argv[p] + k # x BY <2>1, <3>1, <4>2
      <4> QED BY <4>1, <4>3, <4>4, <1>6
    <3> QED BY <3>1, <1>1, <1>7 DEF HeapInv, ArgInv
  <2>5. ExecInv' BY <1>1, <1>13 DEF ExecInv
  <2> QED BY <2>2, <2>3, <2>4, <2>5, <1>8, <1>9, <1>10, <1>11, <1>12 DEF HeapInv
<1>14. CASE written # NotInExec
  <2> USE DEF ExecFor
  <2>1. PICK n \in Pcb, vma \in Pcb :
          /\ n = used + 1 /\ vma = heapVma[current] /\ Loading = {n} /\ current \in Pcb
          /\ n # current /\ vma # n /\ vma # current /\ heapVma[vma] = vma
          /\ ExecFor(n, vma)
    BY <1>14, ExecFacts
  <2>2. FreshInv' BY <2>1, <1>1, <1>2, <1>6, <1>7 DEF HeapInv, FreshInv
  <2>3. DataInv'
    <3>1. \A p \in BeforeArgs : p \in Pcb \ {n} BY <2>1 DEF BeforeArgs
    <3> QED BY <2>1, <3>1, <1>1, <1>6, <1>7 DEF HeapInv, DataInv
  <2>4. ArgInv' BY <2>1, <1>1, <1>6, <1>7, SMTT(30) DEF HeapInv, ArgInv
  <2>5. \A y \in Addr :
          IF argv[n] <= y /\ y < brk[current] /\ y # NoAddr
          THEN data'[n][y] = "arg" /\ PageOf(y) \in mapped[n]
          ELSE data'[n][y] = "none"
    <3>0. /\ written > 0 /\ x = brk[current] - 1 /\ written \in Int
          /\ argv[n] \in 0 .. NoAddr /\ brk[current] \in 0 .. NoAddr
      BY <2>1, <1>1, <1>3, <1>4 DEF HeapInv, HeapTypeOK, NotInExec
    <3>1. argv[n] <= x /\ x < brk[current] BY <3>0, <2>1
    <3>2. ASSUME NEW y \in Addr
          PROVE  IF argv[n] <= y /\ y < brk[current] /\ y # NoAddr
                 THEN data'[n][y] = "arg" /\ PageOf(y) \in mapped[n]
                 ELSE data'[n][y] = "none"
      <4>1. y # NoAddr OBVIOUS
      <4>2. CASE y = x BY <4>1, <4>2, <3>1, <2>1, <1>1, <1>4, <1>6, <1>14
      <4>3. CASE y # x BY <4>1, <4>3, <2>1, <1>4, <1>6
      <4> QED BY <4>2, <4>3
    <3> QED BY <3>2
  <2>6. ExecFor(n, vma)' BY <2>1, <2>5, <1>1, <1>2, SMTT(30) DEF UpTo
  <2>7. ExecInv' BY <2>1, <2>6, <1>1, <1>2 DEF ExecInv
  <2> QED BY <2>2, <2>3, <2>4, <2>7, <1>8, <1>9, <1>10, <1>11, <1>12 DEF HeapInv
<1> QED BY <1>13, <1>14
------------------------------------------------------------------------------
\* execve begins: the new program has one page of heap and nothing in it.
LEMMA BeginExecStep == IInv /\ HeapInv /\ BeginExec => HeapInv'
<1> SUFFICES ASSUME IInv, HeapInv, BeginExec PROVE HeapInv'
  OBVIOUS
<1> USE HeapFacts
<1>1. /\ boot = "up" /\ at[current] = "forked" /\ a[current] = 0 /\ written = NotInExec
      /\ access = NoAddr /\ brk[current] + ArgCells <= NoAddr
      /\ end' = [end EXCEPT ![used + 1] = 1] /\ mapped' = [mapped EXCEPT ![used + 1] = {0}]
      /\ UNCHANGED <<heapVma, data>>
      /\ cr3' = used + 1 /\ argv' = [argv EXCEPT ![used + 1] = brk[current]]
      /\ written' = 0 /\ UNCHANGED <<vars, brk, access, halted>>
  BY DEF BeginExec, Running, LoadElf
<1>2. UNCHANGED <<at, a, next, used, boot, current>> BY <1>1 DEF vars, pcbVars
<1>3. InChild /\ current \in Pcb /\ used \in Nat
  BY <1>1 DEF IInv, TypeOK, RingInv, KernelInv, CurrentInv, Idle, InProgram, AfterFork, Kernel
<1>4. PICK n \in Pcb : n = used + 1 BY <1>3 DEF InChild, Pcb
<1>5. at[n] = "free"
  <2>1. n > used BY <1>3, <1>4
  <2> QED BY <2>1 DEF IInv, RingInv, StateInv
<1>6. /\ mapped \in [Pcb -> SUBSET (0 .. HeapPages)] /\ data \in [Pcb -> [Addr -> Cell]]
      /\ end \in [Pcb -> 0 .. HeapPages] /\ brk \in [Pcb -> 0 .. NoAddr]
      /\ argv \in [Pcb -> 0 .. NoAddr] /\ heapVma \in [Pcb -> Pcb]
  BY DEF HeapInv, HeapTypeOK
<1>7. /\ \A p \in Pcb \ {n} : mapped'[p] = mapped[p] /\ end'[p] = end[p] /\ argv'[p] = argv[p]
      /\ mapped'[n] = {0} /\ end'[n] = 1 /\ argv'[n] = brk[current]
  BY <1>1, <1>4, <1>6
<1>8. brk[n] = 0 /\ data[n] = Blank
  <2>1. n \notin Loading BY <1>1 DEF Loading
  <2> QED BY <2>1, <1>5 DEF HeapInv, FreshInv
<1>9. Loading = {} /\ Loading' = {n} /\ BeforeArgs' \subseteq BeforeArgs \ {n}
  <2>1. Loading = {} BY <1>1 DEF Loading
  <2>2. Loading' = {n} BY <1>1, <1>2, <1>4 DEF Loading, NotInExec
  <2> QED BY <2>1, <2>2, <1>1, <1>7 DEF BeforeArgs
<1>10. PICK vma \in Pcb : vma = heapVma[current] BY <1>3, <1>6
<1>11. at[vma] = "waitpid" /\ brk[vma] <= brk[current] /\ vma # n
  <2>1. at[vma] = "waitpid" BY <1>1, <1>3, <1>10 DEF HeapInv, ShareInv
  <2>2. brk[vma] <= brk[current] BY <1>1, <1>3, <1>10 DEF HeapInv, ShareInv, Child
  <2> QED BY <2>1, <2>2, <1>5
<1>12. HeapTypeOK'
  <2>1. mapped' \in [Pcb -> SUBSET (0 .. HeapPages)]
    <3>1. {0} \in SUBSET (0 .. HeapPages) OBVIOUS
    <3> QED BY <3>1, <1>1, <1>6
  <2>2. end' \in [Pcb -> 0 .. HeapPages] /\ argv' \in [Pcb -> 0 .. NoAddr]
    <3>1. 1 \in 0 .. HeapPages /\ brk[current] \in 0 .. NoAddr BY <1>3, <1>6
    <3> QED BY <3>1, <1>1, <1>6
  <2>3. written' \in NotInExec .. ArgCells BY <1>1 DEF NotInExec
  <2> QED BY <2>1, <2>2, <2>3, <1>1, <1>4 DEF HeapInv, HeapTypeOK
<1>13. ShareInv' BY <1>1, <1>2 DEF HeapInv, ShareInv, Child
<1>14. FreshInv' BY <1>1, <1>2, <1>7, <1>9, SMTT(30) DEF HeapInv, FreshInv
<1>15. AccessInv'
  <2>1. written' # NotInExec BY <1>1 DEF NotInExec
  <2> QED BY <2>1, <1>1, <1>2 DEF AccessInv
<1>16. EndInv'
  <2>1. ASSUME NEW p \in Alive PROVE end'[heapVma[p]] > 0
    <3>1. heapVma[p] \in Pcb /\ end[heapVma[p]] > 0 BY <1>6 DEF HeapInv, EndInv, Alive
    <3> QED BY <3>1, <1>7
  <2> QED BY <2>1, <1>1, <1>2 DEF EndInv, Alive
<1>17. DataInv'
  <2>1. \A p \in BeforeArgs : p \in Pcb BY DEF BeforeArgs
  <2> QED BY <2>1, <1>1, <1>7, <1>9 DEF HeapInv, DataInv
<1>18. ArgInv' BY <1>1, <1>7, <1>9 DEF HeapInv, ArgInv
<1>19. OrderInv'
  <2>1. \A p \in BeforeArgs : p \in Pcb BY DEF BeforeArgs
  <2>2. ASSUME NEW p \in BeforeArgs \ {n}, at[p] # "free", heapVma[p] = p,
               NEW y \in 0 .. argv'[p] - 1, NEW r \in mapped'[p],
               PageOf(y) \notin mapped'[p], r < PageOf(y)
        PROVE  r < end'[p] /\ 0 .. r \subseteq mapped'[p] /\ UpTo(r, brk[p])
    <3>1. mapped'[p] = mapped[p] /\ end'[p] = end[p] /\ argv'[p] = argv[p] BY <2>1, <1>7
    <3> QED BY <2>2, <3>1 DEF HeapInv, OrderInv
  <2> QED BY <2>2, <1>1, <1>2, <1>9 DEF OrderInv, UpTo
<1>20. ExecInv'
  <2>1. \A r \in mapped'[n] : /\ r < end'[vma] /\ UpTo(r, brk[current])
                              /\ r # 0 => r .. end'[vma] - 1 \subseteq mapped'[n]
    <3>1. current \in Alive BY <1>1, <1>3 DEF Alive
    <3>2. end'[vma] > 0 BY <3>1, <1>7, <1>10, <1>11 DEF HeapInv, EndInv
    <3> QED BY <3>2, <1>7 DEF UpTo
  <2>2. \A x \in Addr : data[n][x] = "none" BY <1>8 DEF Blank
  <2>3. brk[current] \in 0 .. NoAddr /\ brk[current] = argv'[n] + written' BY <1>1, <1>3, <1>6, <1>7, SMTT(30)
  <2>4. \A x \in Addr : ~ (argv'[n] <= x /\ x < brk[current]) BY <2>3, <1>7
  <2>5. ExecFor(n, vma)'
    BY <2>1, <2>2, <2>3, <2>4, <1>1, <1>2, <1>4, <1>5, <1>7, <1>8, <1>11 DEF ExecFor, UpTo
  <2> QED BY <2>5, <1>1, <1>2, <1>4, <1>10 DEF ExecInv
<1> QED BY <1>12, <1>13, <1>14, <1>15, <1>16, <1>17, <1>18, <1>19, <1>20 DEF HeapInv

\* An argument is allocated: the break of the old program moves.
LEMMA WriteArgStep == IInv /\ HeapInv /\ WriteArg => HeapInv'
<1> SUFFICES ASSUME IInv, HeapInv, WriteArg PROVE HeapInv'
  OBVIOUS
<1> USE HeapFacts
<1>1. /\ written \in 0 .. ArgCells - 1 /\ access = NoAddr /\ access' = brk[current]
      /\ brk' = [brk EXCEPT ![current] = @ + 1] /\ written' = written + 1
      /\ UNCHANGED <<vars, heapVma, end, mapped, data, argv, cr3, halted>>
  BY DEF WriteArg
<1>2. UNCHANGED <<at, a, next, used, boot, current>> BY <1>1 DEF vars, pcbVars
<1>3. written # NotInExec /\ written' # NotInExec BY <1>1 DEF NotInExec
<1>4. PICK n \in Pcb, vma \in Pcb :
        /\ n = used + 1 /\ vma = heapVma[current] /\ Loading = {n} /\ current \in Pcb
        /\ n # current /\ vma # n /\ vma # current /\ heapVma[vma] = vma
        /\ ExecFor(n, vma)
  BY <1>3, ExecFacts
<1>5. /\ brk \in [Pcb -> 0 .. NoAddr] /\ argv \in [Pcb -> 0 .. NoAddr]
      /\ heapVma \in [Pcb -> Pcb]
  BY DEF HeapInv, HeapTypeOK
<1>6. PICK b \in Nat : b = brk[current] /\ b + 1 <= NoAddr
  <2>1. brk[current] = argv[n] + written /\ argv[n] + ArgCells <= NoAddr BY <1>4 DEF ExecFor
  <2>2. brk[current] \in Nat /\ argv[n] \in Nat BY <1>4, <1>5
  <2> QED BY <2>1, <2>2, <1>1
<1>7. brk'[current] = b + 1 /\ \A p \in Pcb \ {current} : brk'[p] = brk[p]
  BY <1>1, <1>4, <1>5, <1>6
<1>8. Loading' = Loading /\ BeforeArgs' \subseteq BeforeArgs
  <2>1. Loading' = Loading BY <1>1, <1>2, <1>3 DEF Loading
  <2>2. ASSUME NEW p \in Pcb, brk'[p] <= argv[p] PROVE brk[p] <= argv[p]
    <3>1. argv[p] \in Nat BY <1>5
    <3> QED BY <2>2, <3>1, <1>6, <1>7
  <2> QED BY <2>1, <2>2, <1>1 DEF BeforeArgs
<1>9. HeapTypeOK'
  <2>1. b \in 0 .. NoAddr /\ b + 1 \in 0 .. NoAddr BY <1>6
  <2>2. brk' \in [Pcb -> 0 .. NoAddr] BY <2>1, <1>1, <1>5, <1>6
  <2>3. written' \in NotInExec .. ArgCells BY <1>1 DEF NotInExec
  <2> QED BY <2>1, <2>2, <2>3, <1>1, <1>6 DEF HeapInv, HeapTypeOK
<1>10. at[current] = "forked" /\ a[current] = 0 /\ at[n] = "free" /\ boot = "up"
  BY <1>4 DEF ExecFor
<1>11. ShareInv'
  <2>1. ASSUME NEW p \in Pcb, Child(p) PROVE brk'[heapVma[p]] <= brk'[p]
    <3>1. p = current BY <2>1, <1>10 DEF HeapInv, ShareInv, Child
    <3>2. brk[vma] <= b BY <3>1, <2>1, <1>4, <1>6 DEF HeapInv, ShareInv
    <3>3. PICK c \in Nat : c = brk[vma] BY <1>5
    <3>4. c <= b + 1 BY <3>2, <3>3, <1>6
    <3>5. brk'[vma] = c BY <3>3, <1>4, <1>7
    <3> QED BY <3>1, <3>4, <3>5, <1>4, <1>7
  <2> QED BY <2>1, <1>1, <1>2 DEF HeapInv, ShareInv, Child
<1>12. FreshInv' BY <1>1, <1>2, <1>7, <1>8, <1>10 DEF HeapInv, FreshInv
<1>13. AccessInv' BY <1>1, <1>2, <1>3, <1>10 DEF AccessInv
<1>14. EndInv' BY <1>1, <1>2 DEF HeapInv, EndInv, Alive
<1>15. DataInv' BY <1>1, <1>8 DEF HeapInv, DataInv
<1>16. ArgInv'
  <2>1. ASSUME NEW p \in Pcb, brk'[p] <= argv[p] PROVE brk[p] <= argv[p]
    <3>1. argv[p] \in Nat BY <1>5
    <3> QED BY <2>1, <3>1, <1>6, <1>7
  <2> QED BY <2>1, <1>1, <1>8 DEF HeapInv, ArgInv
<1>17. OrderInv'
  <2>1. ASSUME NEW p \in BeforeArgs, at[p] # "free", heapVma[p] = p,
               NEW y \in 0 .. argv[p] - 1, NEW r \in mapped[p],
               PageOf(y) \notin mapped[p], r < PageOf(y)
        PROVE  r < end[p] /\ 0 .. r \subseteq mapped[p] /\ UpTo(r, brk'[p])
    <3>1. r < end[p] /\ 0 .. r \subseteq mapped[p] /\ UpTo(r, brk[p])
      BY <2>1 DEF HeapInv, OrderInv
    <3>2. p \in Pcb BY DEF BeforeArgs
    <3>3. p # current BY <2>1, <1>4
    <3> QED BY <3>1, <3>2, <3>3, <1>7
  <2> QED BY <2>1, <1>1, <1>2, <1>8 DEF OrderInv, UpTo
<1>18. ExecInv'
  <2>1. \A r \in mapped[n] : /\ r < end[vma] /\ UpTo(r, b + 1)
                             /\ r # 0 => r .. end[vma] - 1 \subseteq mapped[n]
    <3>1. ASSUME NEW r \in mapped[n] PROVE UpTo(r, b + 1)
      <4>1. UpTo(r, b) BY <1>4, <1>6 DEF ExecFor
      <4> QED BY <4>1, <1>6, UpToGrows
    <3> QED BY <3>1, <1>4 DEF ExecFor
  <2>2. argv[n] + ArgCells <= NoAddr /\ b = argv[n] + written /\ argv[n] \in Nat
    BY <1>4, <1>5, <1>6 DEF ExecFor
  <2>3. brk'[n] = 0 /\ end[n] = 1 /\ 0 \in mapped[n] /\ cr3 = n /\ brk'[vma] <= argv[n]
    BY <1>4, <1>7 DEF ExecFor
  <2>4. brk'[current] = argv[n] + written' /\ written' > 0 /\ access' = brk'[current] - 1
    <3>1. PICK g \in Nat : g = argv[n] BY <2>2
    <3>0. PICK w \in Nat : w = written BY <1>1
    <3>2. b = g + w /\ written' = w + 1 BY <3>0, <3>1, <2>2, <1>1
    <3>4. w + 1 > 0 /\ b + 1 = g + (w + 1) BY <3>2
    <3>3. access' = b /\ b = (b + 1) - 1 BY <1>1, <1>6
    <3> QED BY <3>1, <3>2, <3>3, <3>4, <1>7
  <2>5. \A x \in Addr :
          IF argv[n] <= x /\ x < b + 1 /\ x # b
          THEN data[n][x] = "arg" /\ PageOf(x) \in mapped[n]
          ELSE data[n][x] = "none"
    <3>1. \A x \in Addr :
            IF argv[n] <= x /\ x < b
            THEN data[n][x] = "arg" /\ PageOf(x) \in mapped[n]
            ELSE data[n][x] = "none"
      <4>1. \A x \in Addr : x # access BY <1>1
      <4> QED BY <4>1, <1>4, <1>6 DEF ExecFor
    <3>2. \A x \in Addr : (x < b + 1 /\ x # b) <=> x < b BY <1>6
    <3> QED BY <3>1, <3>2
  <2>6. ExecFor(n, vma)'
    <3>1. access' = b /\ brk'[current] = b + 1 BY <1>1, <1>6, <1>7
    <3>2. \A r \in mapped'[n] : /\ r < end'[vma] /\ UpTo(r, brk'[current'])
                                /\ r # 0 => r .. end'[vma] - 1 \subseteq mapped'[n]
      BY <2>1, <3>1, <1>1, <1>2
    <3>3. \A x \in Addr :
            IF argv'[n] <= x /\ x < brk'[current'] /\ x # access'
            THEN data'[n][x] = "arg" /\ PageOf(x) \in mapped'[n]
            ELSE data'[n][x] = "none"
      BY <2>5, <3>1, <1>1, <1>2
    <3> QED BY <3>2, <3>3, <2>2, <2>3, <2>4, <1>1, <1>2, <1>10 DEF ExecFor, UpTo
  <2> QED BY <2>6, <1>1, <1>2, <1>4 DEF ExecInv
<1> QED BY <1>9, <1>11, <1>12, <1>13, <1>14, <1>15, <1>16, <1>17, <1>18 DEF HeapInv
------------------------------------------------------------------------------
\* A switch moves no memory: the invariant asks who is where, and what is loaded.
LEMMA SwitchKeeps ==
  ASSUME HeapInv, current' \in Pcb, cr3' = current', access = NoAddr, written = NotInExec,
         used' = used,
         UNCHANGED <<brk, heapVma, end, mapped, data, argv, access, written, halted>>,
         \A p \in Pcb : at'[p] = "free" <=> at[p] = "free",
         \A p \in Pcb : p \in Alive' => p \in Alive,
         ShareInv'
  PROVE  HeapInv'
<1>1. Loading' = Loading /\ BeforeArgs' = BeforeArgs BY DEF Loading, BeforeArgs
<1>2. HeapTypeOK' BY DEF HeapInv, HeapTypeOK
<1>3. FreshInv' BY <1>1 DEF HeapInv, FreshInv
<1>4. AccessInv' BY DEF HeapInv, AccessInv
<1>5. EndInv'
  <2>1. Alive' \subseteq Pcb BY DEF Alive
  <2> QED BY <2>1 DEF HeapInv, EndInv
<1>6. DataInv' /\ ArgInv' BY <1>1 DEF HeapInv, DataInv, ArgInv
<1>7. OrderInv'
  <2>1. \A p \in BeforeArgs : p \in Pcb BY DEF BeforeArgs
  <2> QED BY <2>1, <1>1 DEF HeapInv, OrderInv, UpTo
<1>8. ExecInv' BY DEF ExecInv
<1> QED BY <1>2, <1>3, <1>4, <1>5, <1>6, <1>7, <1>8 DEF HeapInv

LEMMA WaitpidHeapStep ==
  ASSUME IInv, HeapInv, Switch, WaitpidSyscall
  PROVE  HeapInv'
<1>1. /\ written = NotInExec /\ access = NoAddr /\ cr3' = current'
      /\ UNCHANGED <<brk, heapVma, end, mapped, data, argv, access, written, halted>>
      /\ UNCHANGED <<used, a>> /\ current' = next[current] /\ at[current] = "forked" /\ a[current] # 0
      /\ at' = [at EXCEPT ![current] = "waitpid", ![next[current]] = Resumed(at[next[current]])]
      /\ boot = "up"
  BY DEF Switch, Running, WaitpidSyscall, ContextSwitch
<1>2. AfterFork /\ current \in Pcb /\ TypeOK
  BY <1>1 DEF IInv, RingInv, KernelInv, CurrentInv, Idle, InProgram, InChild, Kernel
<1>3. PICK c \in Pcb : c = next[current] /\ at[c] = "unborn" /\ a[c] = 0 BY <1>2 DEF AfterFork
<1>4. /\ at'[current] = "waitpid" /\ at'[c] = "forked" /\ c # current
      /\ \A p \in Pcb \ {current, c} : at'[p] = at[p]
  <2>1. c # current BY <1>1, <1>3
  <2>2. Resumed(at[c]) = "forked" BY <1>3 DEF Resumed
  <2> QED BY <2>1, <2>2, <1>1, <1>2, <1>3 DEF TypeOK
<1>5. heapVma[c] = current /\ heapVma[current] = current
  BY <1>1, <1>2, <1>3 DEF HeapInv, ShareInv, Child
<1>6. ASSUME NEW p \in Pcb \ {current, c}
      PROVE  at'[p] \notin {"forked", "unborn"} /\ at[p] \notin {"forked", "unborn"}
  BY <1>3, <1>4 DEF HeapInv, ShareInv
<1>7. ShareInv'
  <2>1. \A p \in Pcb : at'[p] = "forked" => p = c BY <1>4, <1>6
  <2>2. \A p \in Pcb : at'[p] # "unborn" BY <1>4, <1>6
  <2>3. at'[heapVma[c]] = "waitpid" BY <1>4, <1>5
  <2>4. brk[heapVma[c]] <= brk[c] BY <1>3 DEF HeapInv, ShareInv, Child
  <2>5. \A p \in Pcb \ {c} : heapVma[p] = p BY <1>5, <1>6 DEF HeapInv, ShareInv, Child
  <2> QED BY <2>1, <2>2, <2>3, <2>4, <2>5, <1>1, <1>3, <1>4 DEF ShareInv, Child
<1>8. \A p \in Pcb : at'[p] = "free" <=> at[p] = "free" BY <1>1, <1>3, <1>4
<1>9. \A p \in Pcb : p \in Alive' => p \in Alive BY <1>1, <1>3, <1>4 DEF Alive
<1> QED BY <1>1, <1>3, <1>7, <1>8, <1>9, SwitchKeeps

\* Without a child between fork and execve no process forks or is unborn.
LEMMA NoChildren ==
  ASSUME HeapInv, at[current] \notin {"forked", "unborn"}
  PROVE  \A p \in Pcb : at[p] \notin {"forked", "unborn"} /\ heapVma[p] = p
<1>1. \A p \in Pcb : at[p] \notin {"forked", "unborn"} BY DEF HeapInv, ShareInv
<1> QED BY <1>1 DEF HeapInv, ShareInv, Child

LEMMA YieldHeapStep ==
  ASSUME IInv, HeapInv, Switch, YieldSyscall \/ Schedule
  PROVE  HeapInv'
<1>1. /\ written = NotInExec /\ access = NoAddr /\ cr3' = current'
      /\ UNCHANGED <<brk, heapVma, end, mapped, data, argv, access, written, halted>>
      /\ UNCHANGED <<used, a>> /\ current' = next[current] /\ boot = "up"
      /\ \/ at[current] = "user" /\ callers = <<>> /\ next[current] # current
            /\ at' = [at EXCEPT ![current] = "yield", ![next[current]] = Resumed(at[next[current]])]
         \/ current = Kernel
            /\ at' = [at EXCEPT ![current] = "init_func",
                                ![next[current]] = Resumed(at[next[current]])]
  BY DEF Switch, Running, YieldSyscall, Schedule, ContextSwitch
<1>2. TypeOK /\ CurrentInv /\ KernelInv /\ current \in Pcb /\ Kernel \in Pcb /\ Shell \in Pcb /\ Kernel # Shell
  BY <1>1 DEF IInv, RingInv, KernelInv, Kernel, Shell, Pcb
<1>3. CASE current = Kernel
  <2>1. Idle BY <1>1, <1>2, <1>3 DEF CurrentInv, KernelInv, Idle, InProgram, AfterFork, InChild
  <2>2. next[current] = Shell /\ at[Shell] = "yield" /\ at[Kernel] = "init_func"
    BY <2>1, <1>1, <1>2, <1>3 DEF Idle, KernelInv
  <2>3. Resumed(at[Shell]) = "user" BY <2>2 DEF Resumed
  <2>4. /\ at'[Shell] = "user" /\ at'[Kernel] = "init_func"
        /\ \A p \in Pcb \ {Kernel, Shell} : at'[p] = at[p]
    BY <2>2, <2>3, <1>1, <1>2, <1>3 DEF TypeOK
  <2>5. \A p \in Pcb : at[p] \notin {"forked", "unborn"} /\ heapVma[p] = p
    BY <2>2, <1>3, NoChildren
  <2>6. \A p \in Pcb : at'[p] \notin {"forked", "unborn"} BY <2>4, <2>5
  <2>7. ShareInv' BY <2>5, <2>6, <1>1 DEF ShareInv, Child
  <2>8. \A p \in Pcb : (at'[p] = "free" <=> at[p] = "free") /\ (p \in Alive' => p \in Alive)
    BY <2>2, <2>4, <1>2 DEF Alive
  <2> QED BY <2>2, <2>7, <2>8, <1>1, <1>2, SwitchKeeps
<1>4. CASE current # Kernel
  <2>1. at[current] = "user" /\ callers = <<>> /\ next[current] # current BY <1>1, <1>4
  <2>2. current = Shell /\ next[current] = Kernel /\ at[Kernel] = "init_func"
    BY <2>1, <1>1, <1>2 DEF CurrentInv, KernelInv, Idle, InProgram, AfterFork, InChild, Outside
  <2>3. Resumed(at[Kernel]) = "init_func" BY <2>2 DEF Resumed
  <2>4. /\ at'[Shell] = "yield" /\ at'[Kernel] = "init_func"
        /\ \A p \in Pcb \ {Kernel, Shell} : at'[p] = at[p]
    BY <2>1, <2>2, <2>3, <1>1, <1>2, <1>4 DEF TypeOK
  <2>5. \A p \in Pcb : at[p] \notin {"forked", "unborn"} /\ heapVma[p] = p
    BY <2>1, NoChildren
  <2>6. \A p \in Pcb : at'[p] \notin {"forked", "unborn"} BY <2>4, <2>5
  <2>7. ShareInv' BY <2>5, <2>6, <1>1 DEF ShareInv, Child
  <2>8. \A p \in Pcb : (at'[p] = "free" <=> at[p] = "free") /\ (p \in Alive' => p \in Alive)
    BY <2>1, <2>2, <2>4, <1>2 DEF Alive
  <2> QED BY <2>2, <2>7, <2>8, <1>1, <1>2, SwitchKeeps
<1> QED BY <1>3, <1>4

LEMMA SwitchHeapStep == IInv /\ HeapInv /\ Switch => HeapInv'
BY WaitpidHeapStep, YieldHeapStep DEF Switch

LEMMA StartShellStep == IInv /\ HeapInv /\ StartShell => HeapInv'
<1> SUFFICES ASSUME IInv, HeapInv, StartShell PROVE HeapInv'
  OBVIOUS
<1>1. /\ boot = "switchToRing3" /\ current' = Shell /\ cr3' = current'
      /\ UNCHANGED <<brk, heapVma, end, mapped, data, argv, access, written, halted>>
      /\ UNCHANGED <<next, used, at, a>>
  BY DEF StartShell, SwitchToRing3, pcbVars
<1>2. /\ access = NoAddr /\ written = NotInExec BY <1>1 DEF HeapInv, AccessInv
<1>3. at[current] = "init_func" BY <1>1 DEF IInv, RingInv, BootInv
<1>4. \A p \in Pcb : at[p] \notin {"forked", "unborn"} /\ heapVma[p] = p BY <1>3, NoChildren
<1>5. ShareInv' BY <1>1, <1>4 DEF ShareInv, Child
<1>6. Shell \in Pcb BY DEF Shell, Pcb
<1>7. \A p \in Pcb : (at'[p] = "free" <=> at[p] = "free") /\ (p \in Alive' => p \in Alive)
  BY <1>1 DEF Alive
<1> QED BY <1>1, <1>2, <1>5, <1>6, <1>7, SwitchKeeps
------------------------------------------------------------------------------
LEMMA BootKernelStep == IInv /\ HeapInv /\ BootKernel => HeapInv'
<1> SUFFICES ASSUME IInv, HeapInv, BootKernel PROVE HeapInv'
  OBVIOUS
<1>1. /\ boot = "kernProcess" /\ boot' = "userInitProcess"
      /\ at' = [at EXCEPT ![Kernel] = "init_func"]
      /\ UNCHANGED <<brk, heapVma, end, mapped, data, argv, cr3, access, written, halted>>
  BY DEF BootKernel, KernProcess, heapVars
<1>2. /\ TypeOK /\ Kernel \in Pcb /\ \A p \in Pcb : at[p] = "free"
      /\ access = NoAddr /\ written = NotInExec
  BY <1>1 DEF IInv, RingInv, BootInv, Kernel, Pcb, HeapInv, AccessInv
<1>3. /\ at'[Kernel] = "init_func" /\ \A p \in Pcb \ {Kernel} : at'[p] = "free"
  BY <1>1, <1>2 DEF TypeOK
<1>4. Loading = {} /\ Loading' = {} /\ BeforeArgs' = BeforeArgs
  BY <1>1, <1>2 DEF Loading, BeforeArgs
<1>5. \A p \in Pcb : mapped[p] = {} /\ heapVma[p] = p
  BY <1>2, <1>4 DEF HeapInv, FreshInv, ShareInv, Child
<1>6. HeapTypeOK' BY <1>1 DEF HeapInv, HeapTypeOK
<1>7. ShareInv' BY <1>1, <1>3, <1>5 DEF ShareInv, Child
<1>8. FreshInv' BY <1>1, <1>2, <1>4 DEF HeapInv, FreshInv
<1>9. AccessInv' BY <1>1, <1>2 DEF AccessInv
<1>10. EndInv'
  <2>1. Alive' = {} BY <1>3 DEF Alive
  <2> QED BY <2>1 DEF EndInv
<1>11. DataInv' /\ ArgInv' BY <1>1, <1>4 DEF HeapInv, DataInv, ArgInv
<1>12. OrderInv' BY <1>1, <1>5 DEF OrderInv, BeforeArgs
<1>13. ExecInv' BY <1>1, <1>2 DEF ExecInv
<1> QED BY <1>6, <1>7, <1>8, <1>9, <1>10, <1>11, <1>12, <1>13 DEF HeapInv

LEMMA BootShellStep == IInv /\ HeapInv /\ BootShell => HeapInv'
<1> SUFFICES ASSUME IInv, HeapInv, BootShell PROVE HeapInv'
  OBVIOUS
<1> USE HeapFacts
<1>1. /\ boot = "userInitProcess" /\ boot' = "switchToRing3"
      /\ at' = [at EXCEPT ![Shell] = "user"]
      /\ end' = [end EXCEPT ![Shell] = 1] /\ mapped' = [mapped EXCEPT ![Shell] = {0}]
      /\ UNCHANGED <<brk, heapVma, data, argv, cr3, access, written, halted>>
  BY DEF BootShell, UserInitProcess, LoadElf
<1>2. /\ TypeOK /\ Shell \in Pcb /\ Kernel \in Pcb /\ Kernel # Shell /\ at[Kernel] = "init_func"
      /\ \A p \in Pcb \ {Kernel} : at[p] = "free"
      /\ access = NoAddr /\ written = NotInExec
  BY <1>1 DEF IInv, RingInv, BootInv, Kernel, Shell, Pcb, HeapInv, AccessInv
<1>3. /\ at'[Shell] = "user" /\ at'[Kernel] = "init_func"
      /\ \A p \in Pcb \ {Kernel, Shell} : at'[p] = "free"
  BY <1>1, <1>2 DEF TypeOK
<1>4. Loading = {} /\ Loading' = {} /\ BeforeArgs' = BeforeArgs
  BY <1>1, <1>2 DEF Loading, BeforeArgs
<1>5. /\ \A p \in Pcb : heapVma[p] = p
      /\ brk[Shell] = 0 /\ argv[Shell] = NoAddr /\ data[Shell] = Blank
  BY <1>2, <1>4 DEF HeapInv, FreshInv, ShareInv, Child
<1>6. /\ mapped \in [Pcb -> SUBSET (0 .. HeapPages)] /\ end \in [Pcb -> 0 .. HeapPages]
  BY DEF HeapInv, HeapTypeOK
<1>7. /\ mapped'[Shell] = {0} /\ end'[Shell] = 1
      /\ \A p \in Pcb \ {Shell} : mapped'[p] = mapped[p] /\ end'[p] = end[p]
  BY <1>1, <1>2, <1>6
<1>8. HeapTypeOK'
  <2>1. {0} \in SUBSET (0 .. HeapPages) /\ 1 \in 0 .. HeapPages OBVIOUS
  <2>2. mapped' \in [Pcb -> SUBSET (0 .. HeapPages)] /\ end' \in [Pcb -> 0 .. HeapPages]
    BY <2>1, <1>1, <1>6
  <2> QED BY <2>2, <1>1 DEF HeapInv, HeapTypeOK
<1>9. ShareInv' BY <1>1, <1>3, <1>5 DEF ShareInv, Child
<1>10. FreshInv' BY <1>1, <1>2, <1>3, <1>4, <1>7 DEF HeapInv, FreshInv
<1>11. AccessInv' BY <1>1, <1>2 DEF AccessInv
<1>12. EndInv'
  <2>1. Alive' = {Shell} BY <1>2, <1>3 DEF Alive
  <2> QED BY <2>1, <1>1, <1>2, <1>5, <1>7 DEF EndInv
<1>13. DataInv'
  <2>1. \A p \in BeforeArgs : p \in Pcb BY DEF BeforeArgs
  <2>2. \A y \in Addr : data[Shell][y] = "none" BY <1>5 DEF Blank
  <2> QED BY <2>1, <2>2, <1>1, <1>4, <1>7 DEF HeapInv, DataInv
<1>14. ArgInv' BY <1>1, <1>4, <1>5, <1>7 DEF HeapInv, ArgInv
<1>15. OrderInv'
  <2>1. ASSUME NEW p \in BeforeArgs, at'[p] # "free", heapVma[p] = p,
               NEW y \in 0 .. argv[p] - 1, NEW r \in mapped'[p],
               PageOf(y) \notin mapped'[p], r < PageOf(y)
        PROVE  r < end'[p] /\ 0 .. r \subseteq mapped'[p] /\ UpTo(r, brk[p])
    <3>1. p \in Pcb BY DEF BeforeArgs
    <3>2. CASE p = Shell
      <4>1. r = 0 BY <2>1, <3>2, <1>7
      <4>2. 0 .. r = {0} BY <4>1
      <4> QED BY <4>1, <4>2, <3>2, <1>7 DEF UpTo
    <3>3. CASE p # Shell
      <4>1. at[p] # "free" BY <2>1, <3>1, <3>3, <1>2, <1>3
      <4> QED BY <2>1, <3>1, <3>3, <4>1, <1>7 DEF HeapInv, OrderInv
    <3> QED BY <3>2, <3>3
  <2> QED BY <2>1, <1>1, <1>4 DEF OrderInv, UpTo
<1>16. ExecInv' BY <1>1, <1>2 DEF ExecInv
<1> QED BY <1>8, <1>9, <1>10, <1>11, <1>12, <1>13, <1>14, <1>15, <1>16 DEF HeapInv

\* fork: the child gets its parent's memory and its parent's VMA.
LEMMA ForkHeapStep == IInv /\ HeapInv /\ ForkHeap => HeapInv'
<1> SUFFICES ASSUME IInv, HeapInv, ForkHeap PROVE HeapInv'
  OBVIOUS
<1> USE HeapFacts
<1>1. /\ boot = "up" /\ boot' = "up" /\ at[current] = "user" /\ used + 2 <= MaxPcb
      /\ current' = current /\ used' = used + 1
      /\ next' = [next EXCEPT ![current] = used + 1, ![used + 1] = next[current]]
      /\ at' = [at EXCEPT ![current] = "forked", ![used + 1] = "unborn"]
      /\ a' = [a EXCEPT ![current] = GetPID, ![used + 1] = 0]
      /\ written = NotInExec /\ access = NoAddr
      /\ brk' = [brk EXCEPT ![used + 1] = brk[current]]
      /\ heapVma' = [heapVma EXCEPT ![used + 1] = heapVma[current]]
      /\ mapped' = [mapped EXCEPT ![used + 1] = mapped[current]]
      /\ data' = [data EXCEPT ![used + 1] = data[current]]
      /\ argv' = [argv EXCEPT ![used + 1] = argv[current]]
      /\ UNCHANGED <<end, cr3, access, written, halted>>
  BY DEF ForkHeap, ForkSyscall, Running
<1>2. TypeOK /\ current \in Pcb /\ pID[0] = 1 BY <1>1 DEF IInv, RingInv, KernelInv
<1>3. PICK c \in Pcb : c = used + 1 /\ at[c] = "free" /\ c # current
  <2>1. used \in Nat BY <1>2 DEF TypeOK
  <2>2. used + 1 \in Pcb /\ used + 1 > used BY <2>1, <1>1 DEF Pcb
  <2>3. at[used + 1] = "free" BY <2>2 DEF IInv, RingInv, StateInv
  <2> QED BY <2>2, <2>3, <1>1
<1>4. GetPID # 0 BY <1>2, GetPIDFresh DEF NoPid
<1>5. /\ at'[current] = "forked" /\ at'[c] = "unborn" /\ a'[current] # 0 /\ next'[current] = c
      /\ \A p \in Pcb \ {current, c} : at'[p] = at[p]
  BY <1>1, <1>2, <1>3, <1>4 DEF TypeOK
<1>6. \A p \in Pcb : at[p] \notin {"forked", "unborn"} /\ heapVma[p] = p
  BY <1>1, NoChildren
<1>7. /\ mapped \in [Pcb -> SUBSET (0 .. HeapPages)] /\ data \in [Pcb -> [Addr -> Cell]]
      /\ brk \in [Pcb -> 0 .. NoAddr] /\ argv \in [Pcb -> 0 .. NoAddr]
      /\ heapVma \in [Pcb -> Pcb] /\ end \in [Pcb -> 0 .. HeapPages]
  BY DEF HeapInv, HeapTypeOK
<1>8. /\ brk'[c] = brk[current] /\ heapVma'[c] = current /\ mapped'[c] = mapped[current]
      /\ data'[c] = data[current] /\ argv'[c] = argv[current]
      /\ \A p \in Pcb \ {c} :
           /\ brk'[p] = brk[p] /\ heapVma'[p] = heapVma[p] /\ mapped'[p] = mapped[p]
           /\ data'[p] = data[p] /\ argv'[p] = argv[p]
  BY <1>1, <1>2, <1>3, <1>6, <1>7
<1>9. Loading = {} /\ Loading' = {} BY <1>1 DEF Loading
<1>10. HeapTypeOK'
  <2>1. brk' \in [Pcb -> 0 .. NoAddr] /\ argv' \in [Pcb -> 0 .. NoAddr]
    BY <1>1, <1>2, <1>7
  <2>2. heapVma' \in [Pcb -> Pcb] /\ mapped' \in [Pcb -> SUBSET (0 .. HeapPages)]
    BY <1>1, <1>2, <1>7
  <2>3. data' \in [Pcb -> [Addr -> Cell]]
    <3>1. data[current] \in [Addr -> Cell] BY <1>2, <1>7
    <3> QED BY <3>1, <1>1, <1>7
  <2> QED BY <2>1, <2>2, <2>3, <1>1 DEF HeapInv, HeapTypeOK
<1>11. ShareInv'
  <2>1. \A p \in Pcb : at'[p] = "forked" => p = current BY <1>5, <1>6
  <2>2. \A p \in Pcb : at'[p] = "unborn" => p = c BY <1>5, <1>6
  <2>3. \A p \in Pcb \ {c} : heapVma'[p] = p BY <1>6, <1>8
  <2>4. brk'[heapVma'[c]] <= brk'[c]
    <3>1. brk[current] \in Nat BY <1>2, <1>7
    <3> QED BY <3>1, <1>2, <1>3, <1>8
  <2>5. \A p \in Pcb : at'[p] = "unborn" =>
          p = next'[current'] /\ at'[current'] = "forked" /\ a'[current'] # 0 /\ heapVma'[p] = current'
    <3>1. current' = current BY <1>1
    <3> QED BY ONLY <3>1, <2>2, <1>5, <1>8
  <2>6. \A p \in Pcb : ~ (at'[p] = "forked" /\ a'[p] = 0) BY ONLY <2>1, <1>5
  <2>7. \A p \in Pcb : IF Child(p)' THEN brk'[heapVma'[p]] <= brk'[p] ELSE heapVma'[p] = p
    <3> SUFFICES ASSUME NEW p \in Pcb
                 PROVE  IF Child(p)' THEN brk'[heapVma'[p]] <= brk'[p] ELSE heapVma'[p] = p
      OBVIOUS
    <3>1. CASE p = c
      <4>1. Child(p)' BY ONLY <3>1, <1>5 DEF Child
      <4> QED BY ONLY <3>1, <4>1, <2>4
    <3>2. CASE p # c
      <4>1. ~ Child(p)' BY ONLY <3>2, <2>2, <2>6 DEF Child
      <4> QED BY ONLY <3>2, <4>1, <2>3
    <3> QED BY <3>1, <3>2
  <2> QED BY ONLY <2>1, <2>5, <2>6, <2>7, <1>1 DEF ShareInv
<1>12. FreshInv' BY <1>5, <1>8, <1>9 DEF HeapInv, FreshInv
<1>13. AccessInv' BY <1>1 DEF HeapInv, AccessInv
<1>14. EndInv'
  <2>1. current \in Alive BY <1>1, <1>2 DEF Alive
  <2>2. ASSUME NEW p \in Alive' PROVE end'[heapVma'[p]] > 0
    <3>1. p \in Pcb /\ at'[p] \notin {"free", "init_func", "replaced", "exited"}
      BY ONLY <2>2 DEF Alive
    <3>2. end[current] > 0 BY <2>1, <1>2, <1>6 DEF HeapInv, EndInv
    <3>3. CASE p = c BY <3>2, <3>3, <1>1, <1>8
    <3>4. CASE p # c
      <4>1. p \in Alive
        <5>1. CASE p = current BY <5>1, <2>1
        <5>2. CASE p # current BY <5>2, <3>1, <3>4, <1>5 DEF Alive
        <5> QED BY <5>1, <5>2
      <4> QED BY <4>1, <3>1, <3>4, <1>1, <1>8 DEF HeapInv, EndInv
    <3> QED BY <3>3, <3>4
  <2> QED BY <2>2 DEF EndInv
<1>15. ASSUME NEW p \in BeforeArgs'
       PROVE  \E s \in BeforeArgs : /\ data'[p] = data[s] /\ mapped'[p] = mapped[s]
                                    /\ argv'[p] = argv[s] /\ brk'[p] = brk[s]
                                    /\ p # c => s = p
  BY <1>2, <1>8, <1>9 DEF BeforeArgs
<1>16. DataInv'
  <2>1. ASSUME NEW p \in BeforeArgs', NEW y \in Addr
        PROVE  data'[p][y] # "lost" /\ (data'[p][y] # "none" => PageOf(y) \in mapped'[p])
    BY <1>15 DEF HeapInv, DataInv
  <2> QED BY <2>1 DEF DataInv
<1>17. ArgInv'
  <2>1. ASSUME NEW p \in Pcb
        PROVE  \E s \in Pcb : /\ data'[p] = data[s] /\ mapped'[p] = mapped[s]
                              /\ argv'[p] = argv[s] /\ brk'[p] = brk[s]
    BY <1>2, <1>8
  <2> QED BY <2>1, <1>9 DEF HeapInv, ArgInv
<1>18. OrderInv'
  <2>1. ASSUME NEW p \in BeforeArgs', at'[p] # "free", heapVma'[p] = p,
               NEW y \in 0 .. argv'[p] - 1, NEW r \in mapped'[p],
               PageOf(y) \notin mapped'[p], r < PageOf(y)
        PROVE  r < end'[p] /\ 0 .. r \subseteq mapped'[p] /\ UpTo(r, brk'[p])
    <3>1. p \in Pcb /\ p # c BY <2>1, <1>3, <1>8 DEF BeforeArgs
    <3>2. /\ p \in BeforeArgs /\ mapped'[p] = mapped[p] /\ argv'[p] = argv[p] /\ brk'[p] = brk[p]
          /\ heapVma[p] = p /\ at[p] # "free" /\ end' = end
      <4>1. /\ mapped'[p] = mapped[p] /\ argv'[p] = argv[p] /\ brk'[p] = brk[p] /\ heapVma[p] = p
        BY ONLY <3>1, <1>6, <1>8
      <4>2. brk'[p] <= argv'[p] BY ONLY <2>1 DEF BeforeArgs
      <4>3. p \in BeforeArgs BY ONLY <3>1, <4>1, <4>2, <1>9 DEF BeforeArgs
      <4>4. at[p] # "free" BY ONLY <2>1, <3>1, <1>1, <1>5
      <4> QED BY ONLY <4>1, <4>3, <4>4, <1>1
    <3> QED BY <2>1, <3>2 DEF HeapInv, OrderInv
  <2> QED BY <2>1 DEF OrderInv, UpTo
<1>19. ExecInv' BY <1>1 DEF ExecInv
<1> QED BY <1>10, <1>11, <1>12, <1>13, <1>14, <1>16, <1>17, <1>18, <1>19 DEF HeapInv

LEMMA ForgetFacts ==
  ASSUME HeapInv, NEW c \in Pcb, Forget(c)
  PROVE  /\ brk'[c] = 0 /\ argv'[c] = NoAddr /\ heapVma'[c] = c /\ mapped'[c] = {}
         /\ data'[c] = Blank
         /\ \A p \in Pcb \ {c} :
              /\ brk'[p] = brk[p] /\ heapVma'[p] = heapVma[p] /\ mapped'[p] = mapped[p]
              /\ data'[p] = data[p] /\ argv'[p] = argv[p] /\ end'[p] = end[p]
         /\ brk' \in [Pcb -> 0 .. NoAddr] /\ argv' \in [Pcb -> 0 .. NoAddr]
         /\ heapVma' \in [Pcb -> Pcb] /\ mapped' \in [Pcb -> SUBSET (0 .. HeapPages)]
         /\ data' \in [Pcb -> [Addr -> Cell]] /\ end' \in [Pcb -> 0 .. HeapPages]
<1> USE HeapFacts
<1>1. /\ mapped \in [Pcb -> SUBSET (0 .. HeapPages)] /\ data \in [Pcb -> [Addr -> Cell]]
      /\ brk \in [Pcb -> 0 .. NoAddr] /\ argv \in [Pcb -> 0 .. NoAddr]
      /\ heapVma \in [Pcb -> Pcb] /\ end \in [Pcb -> 0 .. HeapPages]
  BY DEF HeapInv, HeapTypeOK
<1>2. 0 \in 0 .. NoAddr /\ NoAddr \in 0 .. NoAddr /\ 0 \in 0 .. HeapPages
      /\ {} \in SUBSET (0 .. HeapPages)
  OBVIOUS
<1>3. Blank \in [Addr -> Cell] BY DEF Blank, Cell
<1>4. /\ mapped' = [mapped EXCEPT ![c] = {}] /\ data' = [data EXCEPT ![c] = Blank]
      /\ brk' = [brk EXCEPT ![c] = 0] /\ argv' = [argv EXCEPT ![c] = NoAddr]
      /\ heapVma' = [heapVma EXCEPT ![c] = c] /\ end' = [end EXCEPT ![c] = 0]
  BY DEF Forget
<1>5. /\ brk' \in [Pcb -> 0 .. NoAddr] /\ argv' \in [Pcb -> 0 .. NoAddr]
      /\ heapVma' \in [Pcb -> Pcb] /\ end' \in [Pcb -> 0 .. HeapPages]
  BY <1>1, <1>2, <1>4
<1>6. mapped' \in [Pcb -> SUBSET (0 .. HeapPages)] BY <1>1, <1>2, <1>4
<1>7. data' \in [Pcb -> [Addr -> Cell]] BY <1>1, <1>3, <1>4
<1> QED BY <1>1, <1>4, <1>5, <1>6, <1>7

\* What is left when a process ends that nobody shares a VMA with: the invariant
\* of the others, among them the process n that runs now.
LEMMA ForgetStep ==
  ASSUME HeapInv, NEW c \in Pcb, NEW n \in Pcb, Forget(c), n # c,
         current' = n, cr3' = n, access' = NoAddr, written' = NotInExec, UNCHANGED halted,
         \A p \in Pcb : at'[p] \notin {"forked", "unborn"},
         \A p \in Pcb \ {c} : heapVma[p] = p,
         at'[c] \in {"replaced", "exited"},
         \A p \in Pcb \ {c, n} : at'[p] = at[p] /\ p \notin Loading,
         at'[n] # "free", n \in Alive' => end[n] > 0, brk[n] <= argv[n] =>
           /\ \A x \in Addr : data[n][x] # "lost" /\ (data[n][x] # "none" => PageOf(x) \in mapped[n])
           /\ \A x \in 0 .. argv[n] - 1, r \in mapped[n] :
                PageOf(x) \notin mapped[n] /\ r < PageOf(x) =>
                  r < end[n] /\ 0 .. r \subseteq mapped[n] /\ UpTo(r, brk[n]),
         argv[n] < NoAddr =>
           /\ argv[n] + ArgCells <= NoAddr
           /\ brk[n] <= argv[n] =>
                \A k \in 0 .. ArgCells - 1 :
                  PageOf(argv[n] + k) \in mapped[n] /\ data[n][argv[n] + k] = "arg"
  PROVE  HeapInv'
<1> USE HeapFacts
<1>1. /\ brk'[c] = 0 /\ argv'[c] = NoAddr /\ heapVma'[c] = c /\ mapped'[c] = {}
      /\ data'[c] = Blank
      /\ \A p \in Pcb \ {c} :
           /\ brk'[p] = brk[p] /\ heapVma'[p] = heapVma[p] /\ mapped'[p] = mapped[p]
           /\ data'[p] = data[p] /\ argv'[p] = argv[p] /\ end'[p] = end[p]
      /\ brk' \in [Pcb -> 0 .. NoAddr] /\ argv' \in [Pcb -> 0 .. NoAddr]
      /\ heapVma' \in [Pcb -> Pcb] /\ mapped' \in [Pcb -> SUBSET (0 .. HeapPages)]
      /\ data' \in [Pcb -> [Addr -> Cell]] /\ end' \in [Pcb -> 0 .. HeapPages]
  BY ForgetFacts
<1>2. Loading' = {} BY DEF Loading
<1>a. ASSUME NEW p \in Pcb, p # c, p # n
      PROVE  /\ at'[p] = at[p] /\ p \notin Loading /\ heapVma[p] = p
             /\ brk'[p] = brk[p] /\ heapVma'[p] = p /\ mapped'[p] = mapped[p]
             /\ data'[p] = data[p] /\ argv'[p] = argv[p] /\ end'[p] = end[p]
  BY <1>1, <1>a
<1>b. /\ heapVma'[n] = n /\ brk'[n] = brk[n] /\ mapped'[n] = mapped[n]
      /\ data'[n] = data[n] /\ argv'[n] = argv[n] /\ end'[n] = end[n]
  BY <1>1, ZenonT(30)
<1>3. HeapTypeOK'
  <2>1. written' \in NotInExec .. ArgCells /\ access' \in 0 .. NoAddr BY DEF NotInExec
  <2> QED BY <2>1, <1>1 DEF HeapInv, HeapTypeOK
<1>4. ShareInv'
  <2>1. \A p \in Pcb : at'[p] # "forked" /\ at'[p] # "unborn" OBVIOUS
  <2>2. \A p \in Pcb : heapVma'[p] = p BY <1>1, ZenonT(30)
  <2> QED BY ONLY <2>1, <2>2 DEF ShareInv, Child
<1>5. FreshInv'
  <2>1. ASSUME NEW p \in Pcb, at'[p] = "free"
        PROVE  brk'[p] = 0 /\ argv'[p] = NoAddr /\ mapped'[p] = {} /\ data'[p] = Blank
    <3>1. p # c /\ p # n BY <2>1
    <3> QED BY ONLY <3>1, <2>1, <1>a, HeapInv DEF HeapInv, FreshInv
  <2> QED BY ONLY <2>1, <1>2 DEF FreshInv, Blank, NoAddr, Addr
<1>6. AccessInv' BY DEF AccessInv
<1>7. EndInv'
  <2>1. ASSUME NEW p \in Alive' PROVE end'[heapVma'[p]] > 0
    <3>1. p \in Pcb /\ at'[p] \notin {"free", "init_func", "replaced", "exited"}
      BY ONLY <2>1 DEF Alive
    <3>2. p # c BY <3>1
    <3>3. CASE p = n BY <3>3, <1>b
    <3>4. CASE p # n
      <4>1. p \in Alive BY ONLY <3>1, <3>2, <3>4, <1>a DEF Alive
      <4> QED BY ONLY <3>1, <3>2, <3>4, <4>1, <1>a, HeapInv DEF HeapInv, EndInv
    <3> QED BY <3>3, <3>4
  <2> QED BY ONLY <2>1 DEF EndInv
<1>8. ASSUME NEW p \in BeforeArgs' PROVE p \in Pcb /\ brk'[p] <= argv'[p]
  BY ONLY <1>8 DEF BeforeArgs
<1>c. ASSUME NEW p \in BeforeArgs', p # c, p # n PROVE p \in BeforeArgs /\ p \in Pcb
  <2>1. p \in Pcb /\ brk'[p] <= argv'[p] BY <1>8, <1>c
  <2> QED BY ONLY <2>1, <1>c, <1>a DEF BeforeArgs
<1>d. brk[n] <= argv[n] =>
        /\ \A x \in Addr : data[n][x] # "lost" /\ (data[n][x] # "none" => PageOf(x) \in mapped[n])
        /\ \A x \in 0 .. argv[n] - 1, r \in mapped[n] :
             PageOf(x) \notin mapped[n] /\ r < PageOf(x) =>
               r < end[n] /\ 0 .. r \subseteq mapped[n] /\ UpTo(r, brk[n])
  OBVIOUS
<1>e. argv[n] < NoAddr =>
        /\ argv[n] + ArgCells <= NoAddr
        /\ brk[n] <= argv[n] =>
             \A k \in 0 .. ArgCells - 1 :
               PageOf(argv[n] + k) \in mapped[n] /\ data[n][argv[n] + k] = "arg"
  OBVIOUS
<1>9. DataInv'
  <2>1. ASSUME NEW p \in BeforeArgs', NEW y \in Addr
        PROVE  data'[p][y] # "lost" /\ (data'[p][y] # "none" => PageOf(y) \in mapped'[p])
    <3>1. CASE p = c BY <3>1, <1>1 DEF Blank
    <3>2. CASE p = n
      <4>1. brk[n] <= argv[n] BY ONLY <3>2, <2>1, <1>8, <1>b
      <4> QED BY ONLY <4>1, <3>2, <2>1, <1>b, <1>d
    <3>3. CASE p # c /\ p # n
      <4>1. p \in BeforeArgs /\ p \in Pcb BY ONLY <2>1, <3>3, <1>c
      <4> QED BY ONLY <4>1, <2>1, <3>3, <1>a, HeapInv DEF HeapInv, DataInv
    <3> QED BY <3>1, <3>2, <3>3
  <2> QED BY <2>1 DEF DataInv
<1>10. ArgInv'
  <2>1. ASSUME NEW p \in Pcb, argv'[p] < NoAddr
        PROVE  /\ argv'[p] + ArgCells <= NoAddr
               /\ brk'[p] <= argv'[p] =>
                    \A k \in 0 .. ArgCells - 1 :
                      PageOf(argv'[p] + k) \in mapped'[p] /\ data'[p][argv'[p] + k] = "arg"
    <3>1. CASE p = c BY <2>1, <3>1, <1>1
    <3>2. CASE p = n BY ONLY <2>1, <3>2, <1>b, <1>e
    <3>3. CASE p # c /\ p # n BY ONLY <2>1, <3>3, <1>a, HeapInv DEF HeapInv, ArgInv
    <3> QED BY <3>1, <3>2, <3>3
  <2> QED BY <2>1, <1>2 DEF ArgInv
<1>11. OrderInv'
  <2>1. ASSUME NEW p \in BeforeArgs', at'[p] # "free", heapVma'[p] = p,
               NEW y \in 0 .. argv'[p] - 1, NEW r \in mapped'[p],
               PageOf(y) \notin mapped'[p], r < PageOf(y)
        PROVE  r < end'[p] /\ 0 .. r \subseteq mapped'[p] /\ UpTo(r, brk'[p])
    <3>1. CASE p = c BY <2>1, <3>1, <1>1
    <3>2. CASE p = n
      <4>1. brk[n] <= argv[n] BY ONLY <3>2, <2>1, <1>8, <1>b
      <4> QED BY ONLY <2>1, <3>2, <4>1, <1>b, <1>d
    <3>3. CASE p # c /\ p # n
      <4>1. p \in BeforeArgs /\ p \in Pcb /\ at[p] # "free" /\ heapVma[p] = p
        BY ONLY <2>1, <3>3, <1>a, <1>c
      <4> QED BY ONLY <2>1, <3>3, <4>1, <1>a, HeapInv DEF HeapInv, OrderInv
    <3> QED BY <3>1, <3>2, <3>3
  <2> QED BY <2>1 DEF OrderInv, UpTo
<1>12. ExecInv' BY DEF ExecInv
<1> QED BY <1>3, <1>4, <1>5, <1>6, <1>7, <1>9, <1>10, <1>11, <1>12 DEF HeapInv

\* The memory of the new program at the end of execve: its arguments lie in pages
\* behind which no other page is missing, so that its first fault is on page 1.
LEMMA LoadedFacts ==
  ASSUME IInv, HeapInv, NEW n \in Pcb, NEW vma \in Pcb, ExecFor(n, vma), current \in Pcb,
         written = ArgCells, access = NoAddr
  PROVE  /\ \A x \in Addr : data[n][x] # "lost" /\ (data[n][x] # "none" => PageOf(x) \in mapped[n])
         /\ \A x \in 0 .. argv[n] - 1, r \in mapped[n] :
              PageOf(x) \notin mapped[n] /\ r < PageOf(x) =>
                r < end[n] /\ 0 .. r \subseteq mapped[n] /\ UpTo(r, brk[n])
         /\ argv[n] + ArgCells <= NoAddr
         /\ \A k \in 0 .. ArgCells - 1 :
              PageOf(argv[n] + k) \in mapped[n] /\ data[n][argv[n] + k] = "arg"
<1> USE HeapFacts
<1>1. /\ mapped \in [Pcb -> SUBSET (0 .. HeapPages)] /\ end \in [Pcb -> 0 .. HeapPages]
      /\ argv \in [Pcb -> 0 .. NoAddr]
  BY DEF HeapInv, HeapTypeOK
<1>2. PICK v \in Nat : v = argv[n] BY <1>1
<1>3. PICK e \in Nat : e = end[vma] BY <1>1
<1>4. /\ v + ArgCells <= NoAddr /\ brk[current] = v + ArgCells
      /\ end[n] = 1 /\ 0 \in mapped[n]
      /\ \A r \in mapped[n] : r < e /\ (r # 0 => r .. e - 1 \subseteq mapped[n])
  BY <1>2, <1>3 DEF ExecFor
<1>5. \A x \in Addr : IF v <= x /\ x < v + ArgCells
                      THEN data[n][x] = "arg" /\ PageOf(x) \in mapped[n]
                      ELSE data[n][x] = "none"
  <2>1. \A x \in Addr : x # NoAddr OBVIOUS
  <2> QED BY <2>1, <1>2, <1>4 DEF ExecFor
<1>6. ASSUME NEW k \in 0 .. ArgCells - 1
      PROVE  PageOf(v + k) \in mapped[n] /\ data[n][v + k] = "arg"
  <2>1. v + k \in Addr /\ v <= v + k /\ v + k < v + ArgCells BY <1>4, SMTT(30)
  <2> QED BY <2>1, <1>5
<1>7. ASSUME NEW x \in 0 .. v - 1, NEW r \in mapped[n], PageOf(x) \notin mapped[n], r < PageOf(x)
      PROVE  r < end[n] /\ 0 .. r \subseteq mapped[n] /\ UpTo(r, brk[n])
  <2>1. x \in Addr /\ v \in Addr /\ x <= v BY <1>4
  <2>2. PICK q \in Nat : q = PageOf(x) BY <2>1
  <2>3. PICK w \in Nat : w = PageOf(v) BY <2>1
  <2>4. q <= w BY ONLY <2>1, <2>2, <2>3, HeapFacts
  <2>5. w \in mapped[n]
    <3>1. v <= v /\ v < v + ArgCells OBVIOUS
    <3> QED BY ONLY <3>1, <2>1, <2>3, <1>5
  <2>6. w < e BY <2>5, <1>4
  <2>7. r \in Nat BY <1>1
  <2>8. r = 0
    <3>1. ASSUME r # 0 PROVE FALSE
      <4>1. r .. e - 1 \subseteq mapped[n] BY <3>1, <1>4
      <4>2. q \in r .. e - 1 BY <2>2, <2>4, <2>6, <2>7, <1>7
      <4> QED BY <4>1, <4>2, <2>2, <1>7
    <3> QED BY <3>1
  <2>9. 0 .. r = {0} BY <2>8
  <2> QED BY <2>8, <2>9, <1>4 DEF UpTo
<1> QED BY <1>2, <1>4, <1>5, <1>6, <1>7

LEMMA EndExecStep == IInv /\ HeapInv /\ EndExec => HeapInv'
<1> SUFFICES ASSUME IInv, HeapInv, EndExec PROVE HeapInv'
  OBVIOUS
<1> USE HeapFacts
<1>1. /\ written = ArgCells /\ access = NoAddr /\ written' = NotInExec /\ Forget(current)
      /\ UNCHANGED <<cr3, access, halted>>
      /\ at[current] = "forked" /\ a[current] = 0 /\ current' = used + 1
      /\ at' = [at EXCEPT ![current] = "replaced", ![used + 1] = "user"]
  BY DEF EndExec, ExecveSyscall
<1>2. written # NotInExec BY <1>1 DEF NotInExec
<1>3. PICK n \in Pcb, vma \in Pcb :
        /\ n = used + 1 /\ Loading = {n} /\ current \in Pcb /\ n # current
        /\ ExecFor(n, vma)
  BY <1>2, ExecFacts
<1>4. TypeOK BY DEF IInv
<1>5. /\ at'[current] = "replaced" /\ at'[n] = "user"
      /\ \A p \in Pcb \ {current, n} : at'[p] = at[p]
  BY <1>1, <1>3, <1>4 DEF TypeOK
<1>6. \A p \in Pcb \ {current} : at[p] # "forked" /\ at[p] # "unborn" /\ heapVma[p] = p
  <2>1. \A p \in Pcb \ {current} : at[p] # "forked" /\ at[p] # "unborn"
    BY <1>1 DEF HeapInv, ShareInv
  <2> QED BY <2>1 DEF HeapInv, ShareInv, Child
<1>7. \A p \in Pcb : at'[p] \notin {"forked", "unborn"} BY <1>5, <1>6
<1>8. \A p \in Pcb \ {current, n} : at'[p] = at[p] /\ p \notin Loading BY <1>3, <1>5
<1>9. cr3 = n /\ end[n] = 1 BY <1>3 DEF ExecFor
<1>10. /\ \A x \in Addr : data[n][x] # "lost" /\ (data[n][x] # "none" => PageOf(x) \in mapped[n])
       /\ \A x \in 0 .. argv[n] - 1, r \in mapped[n] :
            PageOf(x) \notin mapped[n] /\ r < PageOf(x) =>
              r < end[n] /\ 0 .. r \subseteq mapped[n] /\ UpTo(r, brk[n])
       /\ argv[n] + ArgCells <= NoAddr
       /\ \A k \in 0 .. ArgCells - 1 :
            PageOf(argv[n] + k) \in mapped[n] /\ data[n][argv[n] + k] = "arg"
  BY ONLY IInv, HeapInv, <1>1, <1>3, LoadedFacts
<1>11. current' = n /\ cr3' = n /\ access' = NoAddr /\ end[n] > 0
  BY <1>1, <1>3, <1>9
<1>12. /\ \A p \in Pcb \ {current} : heapVma[p] = p
       /\ at'[n] # "free" /\ at'[current] \in {"replaced", "exited"}
  BY <1>1, <1>5, <1>6
<1>13. brk[n] <= argv[n] =>
         /\ \A x \in Addr : data[n][x] # "lost" /\ (data[n][x] # "none" => PageOf(x) \in mapped[n])
         /\ \A x \in 0 .. argv[n] - 1, r \in mapped[n] :
              PageOf(x) \notin mapped[n] /\ r < PageOf(x) =>
                r < end[n] /\ 0 .. r \subseteq mapped[n] /\ UpTo(r, brk[n])
  BY ONLY <1>10
<1>14. argv[n] < NoAddr =>
         /\ argv[n] + ArgCells <= NoAddr
         /\ brk[n] <= argv[n] =>
              \A k \in 0 .. ArgCells - 1 :
                PageOf(argv[n] + k) \in mapped[n] /\ data[n][argv[n] + k] = "arg"
  BY ONLY <1>10
<1>15. /\ current \in Pcb /\ n # current /\ Forget(current) /\ written' = NotInExec
       /\ UNCHANGED halted
  BY <1>1, <1>3
<1> QED BY ONLY HeapInv, <1>7, <1>8, <1>11, <1>12, <1>13, <1>14, <1>15, ForgetStep

LEMMA ExitHeapStep == IInv /\ HeapInv /\ Exit => HeapInv'
<1> SUFFICES ASSUME IInv, HeapInv, Exit PROVE HeapInv'
  OBVIOUS
<1>1. /\ written = NotInExec /\ access = NoAddr /\ ExitSyscall /\ cr3' = current' /\ Forget(current)
      /\ UNCHANGED <<access, written, halted>> /\ at[current] = "user"
      /\ at' = [at EXCEPT ![current] = "exited", ![current'] = Resumed(at[current'])]
  BY DEF Exit, Running, ExitSyscall, MayExit, Leave, ContextSwitch
<1>2. PICK n \in Pcb : n = current' /\ n # current /\ current \in Pcb
                       /\ at[n] \in {"unborn", "waitpid", "init_func"}
  BY <1>1, SuspendFacts
<1>3. \A p \in Pcb : at[p] \notin {"forked", "unborn"} /\ heapVma[p] = p BY <1>1, NoChildren
<1>4. TypeOK BY DEF IInv
<1>5. /\ at'[current] = "exited" /\ at'[n] = Resumed(at[n])
      /\ \A p \in Pcb \ {current, n} : at'[p] = at[p]
  BY <1>1, <1>2, <1>4 DEF TypeOK
<1>6. at[n] \in {"waitpid", "init_func"} BY <1>2, <1>3
<1>7. at'[n] = (IF at[n] = "waitpid" THEN "user" ELSE "init_func") BY <1>5, <1>6 DEF Resumed
<1>8. \A p \in Pcb : at'[p] \notin {"forked", "unborn"} BY <1>3, <1>5, <1>6, <1>7
<1>9. Loading = {} BY <1>1 DEF Loading
<1>10. n \in Alive' => end[n] > 0
  <2>1. ASSUME n \in Alive' PROVE n \in Alive BY <2>1, <1>6, <1>7 DEF Alive
  <2> QED BY <2>1, <1>3 DEF HeapInv, EndInv
<1>11. brk[n] <= argv[n] =>
         /\ \A x \in Addr : data[n][x] # "lost" /\ (data[n][x] # "none" => PageOf(x) \in mapped[n])
         /\ \A x \in 0 .. argv[n] - 1, r \in mapped[n] :
              PageOf(x) \notin mapped[n] /\ r < PageOf(x) =>
                r < end[n] /\ 0 .. r \subseteq mapped[n] /\ UpTo(r, brk[n])
  <2>1. ASSUME brk[n] <= argv[n] PROVE n \in BeforeArgs BY <2>1, <1>9 DEF BeforeArgs
  <2>2. at[n] # "free" /\ heapVma[n] = n BY <1>3, <1>6
  <2> QED BY <2>1, <2>2 DEF HeapInv, DataInv, OrderInv
<1>12. argv[n] < NoAddr =>
         /\ argv[n] + ArgCells <= NoAddr
         /\ brk[n] <= argv[n] =>
              \A k \in 0 .. ArgCells - 1 :
                PageOf(argv[n] + k) \in mapped[n] /\ data[n][argv[n] + k] = "arg"
  BY <1>9 DEF HeapInv, ArgInv
<1>13. /\ current' = n /\ cr3' = n /\ access' = NoAddr /\ written' = NotInExec
       /\ at'[n] # "free" /\ at'[current] \in {"replaced", "exited"}
       /\ \A p \in Pcb \ {current} : heapVma[p] = p
       /\ \A p \in Pcb \ {current, n} : at'[p] = at[p] /\ p \notin Loading
  BY <1>1, <1>2, <1>3, <1>5, <1>7, <1>9
<1> QED BY ONLY HeapInv, <1>1, <1>2, <1>8, <1>10, <1>11, <1>12, <1>13, ForgetStep
------------------------------------------------------------------------------
\* Every step of the processor, of a program and of the kernel keeps the
\* invariant of the heaps.
LEMMA HeapStepKeeps == IInv /\ HeapInv /\ [HeapNext]_memoryVars => HeapInv'
<1> SUFFICES ASSUME IInv, HeapInv, [HeapNext]_memoryVars PROVE HeapInv'
  OBVIOUS
<1>1. CASE \E size \in 1 .. MaxAlloc : MallocSyscall(size) BY <1>1, MallocStep
<1>2. CASE \E x \in Addr : Touch(x) BY <1>2, TouchStep
<1>3. CASE \E x \in UserStackTop - PageCells .. UserStackTop - 1 : SegmentationFault(x)
  <2>1. PICK x \in UserStackTop - PageCells .. UserStackTop - 1 : SegmentationFault(x) BY <1>3
  <2>2. /\ UNCHANGED <<vars, brk, heapVma, end, mapped, data, argv, cr3, access, written>>
        /\ halted' = current /\ boot = "up"
    BY <2>1 DEF SegmentationFault, InUserMode
  <2>3. current \in Pcb BY <2>2 DEF IInv, RingInv, KernelInv
  <2> QED BY <2>2, <2>3, HeapStutter
<1>4. CASE UNCHANGED memoryVars
  <2>1. /\ UNCHANGED <<vars, brk, heapVma, end, mapped, data, argv, cr3, access, written>>
        /\ halted' = halted
    BY <1>4 DEF memoryVars, heapVars
  <2>2. halted \in Pcb \cup {NULL} BY DEF HeapInv, HeapTypeOK
  <2> QED BY <2>1, <2>2, HeapStutter
<1>5. CASE BootKernel \/ BootShell \/ StartShell
  BY <1>5, BootKernelStep, BootShellStep, StartShellStep
<1>6. CASE PageFault \/ Store BY <1>6, PageFaultStep, StoreStep
<1>7. CASE ForkHeap \/ Exit \/ Switch BY <1>7, ForkHeapStep, ExitHeapStep, SwitchHeapStep
<1>8. CASE BeginExec \/ WriteArg \/ EndExec BY <1>8, BeginExecStep, WriteArgStep, EndExecStep
<1> QED BY <1>1, <1>2, <1>3, <1>4, <1>5, <1>6, <1>7, <1>8 DEF HeapNext

LEMMA HeapInvariantHolds == HeapSpec => []HeapInv
<1>1. IInv /\ HeapInv /\ [HeapNext]_memoryVars => HeapInv' BY HeapStepKeeps
<1>2. HeapInit => HeapInv BY HeapInitEstablishes
<1>3. HeapSpec => []IInv BY RingUnderHeap
<1> QED BY <1>1, <1>2, <1>3, PTL DEF HeapSpec

\* The arguments of execve arrive: whatever pages the heap of the program that
\* was replaced had, however many pages the arguments cross and whichever fault
\* mapped them, the program that execve starts finds each of them where argv
\* points, until it has itself allocated as far.
THEOREM ArgumentsArrive == HeapSpec => []ArgvIntact
<1>1. HeapInv => ArgvIntact
  <2> SUFFICES ASSUME HeapInv, NEW p \in Alive \ {Shell}, argv[p] < NoAddr, brk[p] <= argv[p],
                      NEW k \in 0 .. ArgCells - 1
               PROVE  PageOf(argv[p] + k) \in mapped[p] /\ data[p][argv[p] + k] = "arg"
    BY DEF ArgvIntact
  <2>1. p \in Pcb /\ at[p] # "free" BY DEF Alive
  <2>2. p \notin Loading BY <2>1 DEF Loading, HeapInv, ExecInv, ExecFor
  <2> QED BY <2>1, <2>2 DEF HeapInv, ArgInv
<1> QED BY <1>1, HeapInvariantHolds, PTL

\* pageFault never replaces a page of the heap under a program that has not come
\* as far as its arguments, although parent and child move the end of one VMA and
\* the page at that end is mapped whichever page was touched.
THEOREM HeapPagesStay == HeapSpec => []HeapKept
<1>1. HeapInv => HeapKept
  <2> SUFFICES ASSUME HeapInv, NEW p \in Alive, brk[p] <= argv[p], NEW x \in Addr
               PROVE  data[p][x] # "lost" /\ (data[p][x] = "own" => PageOf(x) \in mapped[p])
    BY DEF HeapKept
  <2>1. p \in Pcb /\ at[p] # "free" BY DEF Alive
  <2>2. p \notin Loading BY <2>1 DEF Loading, HeapInv, ExecInv, ExecFor
  <2>3. p \in BeforeArgs BY <2>1, <2>2 DEF BeforeArgs
  <2> QED BY <2>3 DEF HeapInv, DataInv
<1> QED BY <1>1, HeapInvariantHolds, PTL
------------------------------------------------------------------------------
USE StackAssumption

\* Until the shell is entered every stack is empty, and so is that of a PCB
\* that is still free.
UntouchedInv ==
  /\ boot # "up" => /\ rsp0 = <<Kernel, 0>> /\ aside = [p \in Pcb |-> 0]
                    /\ kstack = [p \in Pcb |-> <<p, 0>>]
  /\ \A p \in Pcb : at[p] = "free" => aside[p] = 0 /\ kstack[p] = <<p, 0>>

\* The kernel process is suspended in schedule, at the depth of init_func.
KernelStackInv == kstack[Kernel] \in {<<Kernel, 0>>, <<Kernel, 1>>}

StackInv == /\ StackTypeOK /\ UntouchedInv /\ KernelStackInv
            /\ OneFramePerSwitch /\ ResumesOwnFrame
------------------------------------------------------------------------------
\* The kernel stacks are added to the process ring: every step is one of its
\* own or leaves it alone.
LEMMA StackRefinesRing == StackSpec => Spec
<1>1. StackInit => Init BY DEF StackInit
<1>2. [StackNext]_allVars => [Next]_vars
  BY DEF StackNext, allVars, BootProcess, EnterShell, Interrupt, Suspend, KernelSwitch,
         Fork, Execve, Next
<1> QED BY <1>1, <1>2, PTL DEF StackSpec, Spec

LEMMA RingHolds == StackSpec => []IInv
BY StackRefinesRing, InvariantHolds, PTL

\* What a trap of the running program pushes, and where.
LEMMA TrapFacts ==
  ASSUME StackInv, boot = "up", current \in Pcb \ {Kernel}, Trap
  PROVE  /\ rsp0 = <<current, aside[current]>> /\ rsp0[1] = current /\ rsp0[2] = aside[current]
         /\ aside[current] \in 0 .. StackFrames - 1
         /\ Below(rsp0) = <<current, aside[current] + 1>> /\ Below(rsp0) \in Address
         /\ Trapped \in Registers
         /\ Pushed \in [Pcb -> [0 .. StackFrames - 1 -> Registers \cup {None}]]
         /\ Pushed[current][aside[current]] = Trapped
         /\ \A p \in Pcb \ {current} : Pushed[p] = frame[p]
         /\ traps' \in [Pcb -> Nat]
<1>0. StackTypeOK BY DEF StackInv
<1>1. rsp0 = <<current, aside[current]>> BY DEF StackInv, OneFramePerSwitch
<1>2. rsp0[1] = current /\ rsp0[2] = aside[current] BY <1>1
<1>3. aside[current] \in 0 .. StackFrames - 1
  BY <1>0, <1>2 DEF Trap, Room, StackTypeOK
<1>4. Below(rsp0) = <<current, aside[current] + 1>> /\ Below(rsp0) \in Address
  BY <1>2, <1>3 DEF Below, Address
<1>5. Trapped \in Registers BY <1>0 DEF Trapped, Registers, StackTypeOK
<1>6. Pushed = [frame EXCEPT ![current] = [@ EXCEPT ![aside[current]] = Trapped]]
  BY <1>2 DEF Pushed
<1>7. traps' \in [Pcb -> Nat] BY <1>0 DEF Trap, StackTypeOK
<1>8. frame[current] \in [0 .. StackFrames - 1 -> Registers \cup {None}]
  BY <1>0 DEF StackTypeOK
<1>9. [frame[current] EXCEPT ![aside[current]] = Trapped]
        \in [0 .. StackFrames - 1 -> Registers \cup {None}]
  BY <1>5, <1>8
<1>10. /\ Pushed \in [Pcb -> [0 .. StackFrames - 1 -> Registers \cup {None}]]
       /\ Pushed[current] = [frame[current] EXCEPT ![aside[current]] = Trapped]
       /\ \A p \in Pcb \ {current} : Pushed[p] = frame[p]
  BY <1>0, <1>6, <1>9 DEF StackTypeOK
<1>11. Pushed[current][aside[current]] = Trapped BY <1>3, <1>8, <1>10
<1> QED BY <1>1, <1>2, <1>3, <1>4, <1>5, <1>7, <1>10, <1>11
------------------------------------------------------------------------------
LEMMA StackInitEstablishes == StackInit => StackInv
<1> SUFFICES ASSUME StackInit PROVE StackInv
  OBVIOUS
<1>1. /\ boot = "kernProcess" /\ at = [p \in Pcb |-> "free"]
  BY DEF StackInit, Init
<1>2. Kernel \in Pcb /\ \A p \in Pcb : <<p, 0>> \in Address
  BY DEF Kernel, Pcb, Address
<1>3. Unused \in [0 .. StackFrames - 1 -> Registers \cup {None}] BY DEF Unused
<1>4. StackTypeOK BY <1>2, <1>3 DEF StackInit, StackTypeOK
<1>5. UntouchedInv /\ KernelStackInv
  BY <1>1, <1>2 DEF StackInit, UntouchedInv, KernelStackInv
<1>6. OneFramePerSwitch BY <1>1 DEF OneFramePerSwitch
<1>7. ResumesOwnFrame BY <1>1 DEF ResumesOwnFrame, Suspended
<1> QED BY <1>4, <1>5, <1>6, <1>7 DEF StackInv

LEMMA BootProcessStep == IInv /\ StackInv /\ BootProcess => StackInv'
<1> SUFFICES ASSUME IInv, StackInv, BootProcess PROVE StackInv'
  OBVIOUS
<1>0. TypeOK /\ BootInv /\ Kernel \in Pcb /\ Shell \in Pcb
  BY DEF IInv, RingInv, Kernel, Shell, Pcb
<1>1. /\ boot # "up" /\ boot' # "up" /\ UNCHANGED stackVars
      /\ \/ at' = [at EXCEPT ![Kernel] = "init_func"]
         \/ at' = [at EXCEPT ![Shell] = "user"]
  BY DEF BootProcess, KernProcess, UserInitProcess
<1>2. /\ \A p \in Pcb : at'[p] = "free" => at[p] = "free"
      /\ Suspended' \subseteq Suspended
  BY <1>0, <1>1 DEF Suspended, TypeOK
<1>3. StackTypeOK' /\ KernelStackInv' /\ OneFramePerSwitch'
  BY <1>1 DEF StackInv, StackTypeOK, KernelStackInv, OneFramePerSwitch, stackVars
<1>4. UntouchedInv' BY <1>1, <1>2 DEF StackInv, UntouchedInv, stackVars
<1>5. ResumesOwnFrame' BY <1>1, <1>2 DEF StackInv, ResumesOwnFrame, stackVars
<1> QED BY <1>3, <1>4, <1>5 DEF StackInv

LEMMA EnterShellStep == IInv /\ StackInv /\ EnterShell => StackInv'
<1> SUFFICES ASSUME IInv, StackInv, EnterShell PROVE StackInv'
  OBVIOUS
<1>1. /\ boot = "switchToRing3" /\ boot' = "up" /\ current' = Shell /\ UNCHANGED at
      /\ rsp0' = kstack[Shell] /\ UNCHANGED <<kstack, frame, traps, saved, aside>>
  BY DEF EnterShell, SwitchToRing3
<1>2. kstack = [p \in Pcb |-> <<p, 0>>] /\ aside = [p \in Pcb |-> 0] /\ Shell \in Pcb
  BY <1>1 DEF StackInv, UntouchedInv, Shell, Pcb
<1>3. StackTypeOK' BY <1>1, <1>2 DEF StackInv, StackTypeOK
<1>4. KernelStackInv' /\ UntouchedInv'
  BY <1>1 DEF StackInv, KernelStackInv, UntouchedInv
<1>5. OneFramePerSwitch' BY <1>1, <1>2 DEF OneFramePerSwitch
<1>6. ResumesOwnFrame' BY <1>1 DEF StackInv, ResumesOwnFrame, Suspended
<1> QED BY <1>3, <1>4, <1>5, <1>6 DEF StackInv

LEMMA InterruptStep == IInv /\ StackInv /\ Interrupt => StackInv'
<1> SUFFICES ASSUME IInv, StackInv, Interrupt PROVE StackInv'
  OBVIOUS
<1>1. /\ boot = "up" /\ at[current] = "user" /\ Trap /\ frame' = Pushed
      /\ UNCHANGED <<vars, kstack, rsp0, saved, aside>>
  BY DEF Interrupt
<1>2. current \in Pcb \ {Kernel} BY <1>1, ProgramFacts
<1>3. UNCHANGED <<boot, at, current>> BY <1>1 DEF vars
<1>4. /\ frame' \in [Pcb -> [0 .. StackFrames - 1 -> Registers \cup {None}]]
      /\ \A p \in Pcb \ {current} : frame'[p] = frame[p]
      /\ traps' \in [Pcb -> Nat]
  BY <1>1, <1>2, TrapFacts
<1>5. StackTypeOK' BY <1>1, <1>4 DEF StackInv, StackTypeOK
<1>6. UntouchedInv' /\ KernelStackInv' /\ OneFramePerSwitch'
  BY <1>1, <1>3 DEF StackInv, UntouchedInv, KernelStackInv, OneFramePerSwitch
<1>7. ResumesOwnFrame'
  <2>1. Suspended' = Suspended /\ \A p \in Suspended : p \in Pcb \ {current}
    BY <1>1, <1>3 DEF Suspended
  <2> QED BY <2>1, <1>1, <1>4 DEF StackInv, ResumesOwnFrame
<1> QED BY <1>5, <1>6, <1>7 DEF StackInv

\* The process put aside keeps the frame of its call below everything it will
\* push from now on; the one that goes on starts its traps where it stopped.
LEMMA SuspendStep == IInv /\ StackInv /\ Suspend => StackInv'
<1> SUFFICES ASSUME IInv, StackInv, Suspend PROVE StackInv'
  OBVIOUS
<1>1. /\ WaitpidSyscall \/ YieldSyscall \/ ExitSyscall
      /\ Trap /\ frame' = Pushed /\ saved' = [saved EXCEPT ![current] = Trapped]
      /\ rsp0' = kstack[current']
      /\ kstack' = [kstack EXCEPT ![current] = Below(rsp0)]
      /\ aside' = [aside EXCEPT ![current] = @ + 1]
  BY DEF Suspend, SwitchStacks
<1>2. /\ boot = "up" /\ boot' = "up"
      /\ current \in Pcb \ {Kernel} /\ current' \in Pcb \ {current}
      /\ at'[current] \in {"waitpid", "yield", "exited"}
      /\ at'[current'] \in {"forked", "init_func", "user"}
      /\ \A p \in Pcb \ {current, current'} : at'[p] = at[p]
  BY <1>1, SuspendFacts
<1>3. /\ aside[current] \in 0 .. StackFrames - 1
      /\ Below(rsp0) = <<current, aside[current] + 1>> /\ Below(rsp0) \in Address
      /\ Trapped \in Registers
      /\ frame' \in [Pcb -> [0 .. StackFrames - 1 -> Registers \cup {None}]]
      /\ frame'[current][aside[current]] = Trapped
      /\ \A p \in Pcb \ {current} : frame'[p] = frame[p]
      /\ traps' \in [Pcb -> Nat]
  BY <1>1, <1>2, TrapFacts
<1>t. StackTypeOK BY DEF StackInv
<1>4. /\ kstack'[current] = <<current, aside[current] + 1>> /\ aside'[current] = aside[current] + 1
      /\ saved'[current] = Trapped
      /\ \A p \in Pcb \ {current} : /\ kstack'[p] = kstack[p] /\ aside'[p] = aside[p]
                                    /\ saved'[p] = saved[p]
  BY <1>1, <1>2, <1>3, <1>t DEF StackTypeOK
<1>5. StackTypeOK'
  <2>1. kstack' \in [Pcb -> Address] /\ rsp0' \in Address
    BY <1>1, <1>2, <1>3, <1>t DEF StackTypeOK
  <2>2. aside' \in [Pcb -> Nat] BY <1>1, <1>2, <1>t DEF StackTypeOK
  <2>3. saved' \in [Pcb -> Registers \cup {None}] BY <1>1, <1>3, <1>t DEF StackTypeOK
  <2> QED BY <2>1, <2>2, <2>3, <1>3 DEF StackTypeOK
<1>6. UntouchedInv'
  BY <1>2, <1>4 DEF StackInv, UntouchedInv
<1>7. KernelStackInv'
  BY <1>2, <1>4 DEF StackInv, KernelStackInv, Kernel, Pcb
<1>8. OneFramePerSwitch'
  <2>1. rsp0' = kstack'[current'] BY <1>1, <1>2, <1>4
  <2> QED BY <2>1, <1>2, <1>4 DEF StackInv, OneFramePerSwitch
<1>9. ResumesOwnFrame'
  <2> SUFFICES ASSUME NEW p \in Suspended'
               PROVE  /\ kstack'[p][1] = p /\ kstack'[p][2] > 0
                      /\ frame'[p][kstack'[p][2] - 1] = saved'[p]
    BY DEF ResumesOwnFrame
  <2>1. CASE p = current
    <3>1. kstack'[p][1] = p /\ kstack'[p][2] = aside[current] + 1 BY <2>1, <1>4
    <3>a. aside[current] \in Nat BY <1>3
    <3>2. kstack'[p][2] > 0 /\ kstack'[p][2] - 1 = aside[current] BY <3>1, <3>a
    <3>3. frame'[p][aside[current]] = saved'[p] BY <2>1, <1>3, <1>4
    <3> QED BY <3>1, <3>2, <3>3
  <2>2. CASE p # current
    <3>1. p \in Pcb \ {current} /\ p \in Suspended BY <1>2, <2>2 DEF Suspended
    <3> QED BY <3>1, <1>3, <1>4 DEF StackInv, ResumesOwnFrame
  <2> QED BY <2>1, <2>2
<1> QED BY <1>5, <1>6, <1>7, <1>8, <1>9 DEF StackInv

\* schedule goes from the kernel process to the shell.
LEMMA KernelSwitchStep == IInv /\ StackInv /\ KernelSwitch => StackInv'
<1> SUFFICES ASSUME IInv, StackInv, KernelSwitch PROVE StackInv'
  OBVIOUS
<1>0. TypeOK /\ KernelInv BY DEF IInv, RingInv
<1>c. Kernel \in Pcb /\ Shell \in Pcb \ {Kernel} BY DEF Kernel, Shell, Pcb
<1>1. /\ boot = "up" /\ boot' = "up" /\ current = Kernel /\ next[Kernel] = Shell
      /\ ContextSwitch(Shell, "init_func")
      /\ rsp0' = kstack[current'] /\ kstack' = [kstack EXCEPT ![Kernel] = <<Kernel, 1>>]
      /\ UNCHANGED <<frame, traps, saved, aside>>
  BY <1>0 DEF KernelSwitch, Schedule, KernelInv
<1>2. /\ current' = Shell /\ at'[Kernel] = "init_func"
      /\ at'[Shell] \in {"forked", "init_func", "user"}
      /\ \A p \in Pcb \ {Kernel, Shell} : at'[p] = at[p]
  BY <1>0, <1>1, <1>c, SwitchFacts
<1>t. StackTypeOK BY DEF StackInv
<1>3. /\ kstack'[Kernel] = <<Kernel, 1>>
      /\ \A p \in Pcb \ {Kernel} : kstack'[p] = kstack[p]
  BY <1>1, <1>c, <1>t DEF StackTypeOK
<1>4. StackTypeOK'
  <2>1. <<Kernel, 1>> \in Address BY <1>c DEF Address
  <2> QED BY <2>1, <1>1, <1>2, <1>c, <1>t DEF StackTypeOK
<1>5. UntouchedInv' BY <1>1, <1>2, <1>3 DEF StackInv, UntouchedInv
<1>6. KernelStackInv' BY <1>3 DEF KernelStackInv
<1>7. OneFramePerSwitch'
  BY <1>1, <1>2, <1>3, <1>c DEF StackInv, OneFramePerSwitch
<1>8. ResumesOwnFrame'
  <2>1. \A p \in Suspended' : p \in Pcb \ {Kernel} /\ p \in Suspended
    BY <1>2 DEF Suspended
  <2> QED BY <2>1, <1>1, <1>3 DEF StackInv, ResumesOwnFrame
<1> QED BY <1>4, <1>5, <1>6, <1>7, <1>8 DEF StackInv

\* The child is put aside with the frame of its parent's call at the top.
LEMMA ForkStackStep == IInv /\ StackInv /\ Fork => StackInv'
<1> SUFFICES ASSUME IInv, StackInv, Fork PROVE StackInv'
  OBVIOUS
<1>c. PICK child : child = used + 1 OBVIOUS
<1>0. TypeOK /\ StateInv BY DEF IInv, RingInv
<1>t. StackTypeOK BY DEF StackInv
<1>1. /\ boot = "up" /\ boot' = "up" /\ at[current] = "user" /\ current' = current
      /\ child \in Pcb
      /\ at' = [at EXCEPT ![current] = "forked", ![child] = "unborn"]
  BY <1>0, <1>c DEF Fork, ForkSyscall, TypeOK, Pcb
<1>2. /\ Trap
      /\ frame' = [Pushed EXCEPT ![child] =
                     Copied(Pushed[kstack[current][1]], kstack[current][2])]
      /\ kstack' = [kstack EXCEPT ![child] = Below(<<child, 0>>)]
      /\ saved' = [saved EXCEPT ![child] = Trapped]
      /\ aside' = [aside EXCEPT ![child] = @ + 1]
      /\ rsp0' = rsp0
  BY <1>c DEF Fork
<1>3. current \in Pcb \ {Kernel} BY <1>1, ProgramFacts
<1>4. at[child] = "free"
  <2>1. child > used BY <1>0, <1>c DEF TypeOK
  <2> QED BY <2>1, <1>0, <1>1 DEF StateInv
<1>5. child # current BY <1>1, <1>4
<1>6. child # Kernel BY <1>1, <1>4 DEF IInv, RingInv, KernelInv
<1>7. aside[child] = 0 /\ kstack[child] = <<child, 0>>
  BY <1>1, <1>4 DEF StackInv, UntouchedInv
<1>8. /\ rsp0 = <<current, aside[current]>> /\ rsp0[1] = current /\ rsp0[2] = aside[current]
      /\ rsp0 = kstack[current]
      /\ aside[current] \in 0 .. StackFrames - 1
      /\ Trapped \in Registers
      /\ Pushed \in [Pcb -> [0 .. StackFrames - 1 -> Registers \cup {None}]]
      /\ Pushed[current][aside[current]] = Trapped
      /\ \A p \in Pcb \ {current} : Pushed[p] = frame[p]
      /\ traps' \in [Pcb -> Nat]
  BY <1>1, <1>2, <1>3, TrapFacts DEF StackInv, OneFramePerSwitch
<1> DEFINE copy == Copied(Pushed[current], aside[current])
<1>9. copy \in [0 .. StackFrames - 1 -> Registers \cup {None}] /\ copy[0] = Trapped
  <2>1. Pushed[current] \in [0 .. StackFrames - 1 -> Registers \cup {None}]
    BY <1>3, <1>8
  <2>2. copy = [d \in 0 .. StackFrames - 1 |->
                  IF aside[current] + d < StackFrames
                  THEN Pushed[current][aside[current] + d] ELSE None]
    BY DEF Copied
  <2>3. ASSUME NEW d \in 0 .. StackFrames - 1 PROVE copy[d] \in Registers \cup {None}
    BY <2>1, <2>2, <1>8
  <2>4. copy[0] = Pushed[current][aside[current]] BY <2>2, <1>8
  <2> QED BY <2>2, <2>3, <2>4, <1>8
<1>10. frame' = [Pushed EXCEPT ![child] = copy] BY <1>2, <1>8
<1>11. /\ Below(<<child, 0>>) = <<child, 1>> /\ <<child, 1>> \in Address
  BY <1>1 DEF Below, Address
<1>12. /\ kstack'[child] = <<child, 1>> /\ aside'[child] = 1 /\ saved'[child] = Trapped
       /\ frame'[child] = copy
       /\ \A p \in Pcb \ {child} : /\ kstack'[p] = kstack[p] /\ aside'[p] = aside[p]
                                    /\ saved'[p] = saved[p] /\ frame'[p] = Pushed[p]
  <2> HIDE DEF copy
  <2>1. /\ frame'[child] = copy
        /\ \A p \in Pcb \ {child} : frame'[p] = Pushed[p]
    BY <1>1, <1>8, <1>10
  <2>2. /\ kstack'[child] = <<child, 1>>
        /\ \A p \in Pcb \ {child} : kstack'[p] = kstack[p]
    BY <1>1, <1>2, <1>11, <1>t DEF StackTypeOK
  <2>3. /\ aside'[child] = 1 /\ saved'[child] = Trapped
        /\ \A p \in Pcb \ {child} : aside'[p] = aside[p] /\ saved'[p] = saved[p]
    BY <1>1, <1>2, <1>7, <1>t DEF StackTypeOK
  <2> QED BY <2>1, <2>2, <2>3
<1>13. StackTypeOK'
  <2>1. kstack' \in [Pcb -> Address] BY <1>2, <1>11, <1>t DEF StackTypeOK
  <2>2. aside' \in [Pcb -> Nat] BY <1>1, <1>2, <1>t DEF StackTypeOK
  <2>3. saved' \in [Pcb -> Registers \cup {None}] BY <1>2, <1>8, <1>t DEF StackTypeOK
  <2>4. frame' \in [Pcb -> [0 .. StackFrames - 1 -> Registers \cup {None}]]
    BY <1>8, <1>9, <1>10
  <2> QED BY <2>1, <2>2, <2>3, <2>4, <1>2, <1>8, <1>t DEF StackTypeOK
<1>14. UntouchedInv'
  <2>1. ASSUME NEW p \in Pcb, at'[p] = "free" PROVE aside'[p] = 0 /\ kstack'[p] = <<p, 0>>
    <3>1. p # child /\ at[p] = "free" BY <2>1, <1>0, <1>1, <1>3 DEF TypeOK
    <3> QED BY <3>1, <1>12 DEF StackInv, UntouchedInv
  <2> QED BY <2>1, <1>1 DEF UntouchedInv
<1>15. KernelStackInv' BY <1>6, <1>12 DEF StackInv, KernelStackInv, Kernel, Pcb
<1>16. OneFramePerSwitch'
  <2>1. rsp0' = kstack'[current'] BY <1>1, <1>2, <1>3, <1>5, <1>8, <1>12
  <2>2. ASSUME NEW p \in Pcb \ {Kernel} PROVE kstack'[p] = <<p, aside'[p]>>
    <3>1. kstack[p] = <<p, aside[p]>> BY <1>1 DEF StackInv, OneFramePerSwitch
    <3> QED BY <3>1, <1>12
  <2> QED BY <2>1, <2>2 DEF OneFramePerSwitch
<1>17. ResumesOwnFrame'
  <2> SUFFICES ASSUME NEW p \in Suspended'
               PROVE  /\ kstack'[p][1] = p /\ kstack'[p][2] > 0
                      /\ frame'[p][kstack'[p][2] - 1] = saved'[p]
    BY DEF ResumesOwnFrame
  <2>1. CASE p = child
    <3>1. kstack'[p][1] = p /\ kstack'[p][2] = 1 BY <2>1, <1>12
    <3> QED BY <2>1, <3>1, <1>9, <1>12
  <2>2. CASE p # child
    <3>1. p \in Pcb \ {child} /\ p # current /\ p \in Suspended
      BY <2>2, <1>0, <1>1, <1>3 DEF Suspended, TypeOK
    <3>2. frame'[p] = frame[p] BY <3>1, <1>8, <1>12
    <3> QED BY <3>1, <3>2, <1>12 DEF StackInv, ResumesOwnFrame
  <2> QED BY <2>1, <2>2
<1> QED BY <1>13, <1>14, <1>15, <1>16, <1>17 DEF StackInv

\* The new process starts its traps at the top of its page.
LEMMA ExecveStackStep == IInv /\ StackInv /\ Execve => StackInv'
<1> SUFFICES ASSUME IInv, StackInv, Execve PROVE StackInv'
  OBVIOUS
<1>c. PICK new : new = used + 1 OBVIOUS
<1>0. TypeOK /\ StateInv BY DEF IInv, RingInv
<1>t. StackTypeOK BY DEF StackInv
<1>1. /\ boot = "up" /\ boot' = "up" /\ at[current] = "forked" /\ a[current] = 0
      /\ current' = new /\ at' = [at EXCEPT ![current] = "replaced", ![new] = "user"]
      /\ Trap /\ frame' = Pushed /\ rsp0' = kstack[new]
      /\ UNCHANGED <<kstack, saved, aside>>
  BY <1>c DEF Execve, ExecveSyscall
<1>2. current \in Pcb \ {Kernel} BY <1>1, ProgramFacts
<1>3. new \in Pcb
  <2>1. used < MaxPcb
    BY <1>1 DEF IInv, RingInv, CurrentInv, Idle, InProgram, AfterFork, InChild, KernelInv
  <2> QED BY <2>1, <1>0, <1>c DEF TypeOK, Pcb
<1>4. at[new] = "free"
  <2>1. new > used BY <1>0, <1>c DEF TypeOK
  <2> QED BY <2>1, <1>0, <1>3 DEF StateInv
<1>5. /\ frame' \in [Pcb -> [0 .. StackFrames - 1 -> Registers \cup {None}]]
      /\ \A p \in Pcb \ {current} : frame'[p] = frame[p]
      /\ traps' \in [Pcb -> Nat]
  BY <1>1, <1>2, TrapFacts
<1>6. StackTypeOK' BY <1>1, <1>3, <1>5, <1>t DEF StackTypeOK
<1>7. \A p \in Pcb : /\ at'[p] = "free" => at[p] = "free"
                     /\ p \in Suspended' => p \in Suspended /\ p # current
  BY <1>0, <1>1, <1>2, <1>3 DEF Suspended, TypeOK
<1>8. UntouchedInv' /\ KernelStackInv'
  BY <1>1, <1>7 DEF StackInv, UntouchedInv, KernelStackInv
<1>9. OneFramePerSwitch'
  BY <1>1 DEF StackInv, OneFramePerSwitch
<1>10. ResumesOwnFrame'
  <2>1. \A p \in Suspended' : p \in Suspended /\ p \in Pcb \ {current}
    BY <1>7 DEF Suspended
  <2> QED BY <2>1, <1>1, <1>5 DEF StackInv, ResumesOwnFrame
<1> QED BY <1>6, <1>8, <1>9, <1>10 DEF StackInv

LEMMA StackStutter == StackInv /\ UNCHANGED allVars => StackInv'
BY DEF StackInv, StackTypeOK, UntouchedInv, KernelStackInv, OneFramePerSwitch,
       ResumesOwnFrame, Suspended, allVars, stackVars, vars

LEMMA StackInvariantHolds == StackSpec => []StackInv
<1>1. IInv /\ StackInv /\ [StackNext]_allVars => StackInv'
  BY BootProcessStep, EnterShellStep, InterruptStep, SuspendStep, KernelSwitchStep,
     ForkStackStep, ExecveStackStep, StackStutter DEF StackNext
<1> QED BY <1>1, StackInitEstablishes, RingHolds, PTL DEF StackSpec
------------------------------------------------------------------------------
\* Whatever traps, forks, waits, yields and exits happen in between, and however
\* deep programs wait for one another, a process that contextSwitch comes back to
\* finds the frame it was suspended in where kstack says.
THEOREM FramesSurvive == StackSpec => []ResumesOwnFrame
<1>1. StackInv => ResumesOwnFrame BY DEF StackInv
<1> QED BY <1>1, StackInvariantHolds, PTL

\* A process starts its traps lower by exactly one frame for each time it was
\* put aside: contextSwitch gives none back, in a kernel with stacks of any size.
THEOREM SwitchCostsAFrame == StackSpec => []OneFramePerSwitch
<1>1. StackInv => OneFramePerSwitch BY DEF StackInv
<1> QED BY <1>1, StackInvariantHolds, PTL
==============================================================================
