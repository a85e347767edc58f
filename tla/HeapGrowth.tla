----------------------------- MODULE HeapGrowth -----------------------------
(***************************************************************************)
(* The heap of the processes of module ProcessRing: mallocSyscall, the     *)
(* VMAs that loadElf makes and fork half copies, the fault that maps a     *)
(* heap page, and the arguments that execve puts into the new program's    *)
(* heap.                                                                   *)
(*                                                                         *)
(* Three things meet here.  pageFault finds the VMA in current->mm and     *)
(* maps into the table that CR3 holds; in execve these belong to two       *)
(* different programs.  fork copies the VMAs but not the pointers between  *)
(* them, so that parent and child have one heap VMA.  And the page that is *)
(* mapped is the one at the VMA's end, not the one that was touched: the   *)
(* program faults again until the end has come to it.                      *)
(*                                                                         *)
(* Each process has its pages for itself (module CowMemory).  An address is*)
(* a cell above HEAP_START.  The programs of the repository allocate less  *)
(* than a page at a time and write each block from its start, so that      *)
(* pages are touched for the first time in order; Touch says so.           *)
(***************************************************************************)
EXTENDS ProcessRing

CONSTANTS HeapPages,     \* bound: pages between HEAP_START and HEAP_END
          PageCells,     \* PAGE_SIZE
          ArgCells,      \* what execve allocates: the array ans and its strings
          MaxAlloc,      \* bound: cells of one sb_malloc
          UserStackTop,  \* USER_STACK_TOP, above HEAP_END
          StackLimit,    \* STACK_LIMIT
          Word           \* one more than the largest uint64_t

ASSUME AddressAssumption ==
  /\ HeapPages \in Nat \ {0} /\ PageCells \in Nat \ {0}
  /\ ArgCells \in Nat \ {0} /\ MaxAlloc \in 1 .. PageCells
  /\ UserStackTop \in Nat /\ UserStackTop > HeapPages * PageCells
  /\ StackLimit \in Nat /\ Word \in Nat
  /\ Word > UserStackTop + PageCells + StackLimit

VARIABLES brk,           \* mm->brk of each process
          heapVma,       \* the heap VMA its list leads to, named by its first owner
          end,           \* end of each heap VMA, in pages
          mapped,        \* heap pages in each process's table
          data,          \* what each cell holds
          argv,          \* where execve put the arguments
          cr3,           \* the process whose table is loaded
          access,        \* the address the processor tries to reach
          written,       \* arguments execve has written, or NotInExec
          halted         \* the process reported as terminated, when the machine halts

heapVars == <<brk, heapVma, end, mapped, data, argv, cr3, access, written, halted>>
memoryVars == <<vars, heapVars>>

Addr == 0 .. HeapPages * PageCells - 1
PageOf(x) == x \div PageCells
NoAddr == HeapPages * PageCells
NotInExec == -1

\* own: what the program stored; arg: what execve stored; lost: one of them
\* was there when a fresh frame took the place of the page.
Cell == {"none", "own", "arg", "lost"}
Blank == [x \in Addr |-> "none"]

HeapTypeOK ==
  /\ brk \in [Pcb -> 0 .. NoAddr] /\ argv \in [Pcb -> 0 .. NoAddr]
  /\ heapVma \in [Pcb -> Pcb] /\ end \in [Pcb -> 0 .. HeapPages]
  /\ mapped \in [Pcb -> SUBSET (0 .. HeapPages)]
  /\ data \in [Pcb -> [Addr -> Cell]]
  /\ cr3 \in Pcb /\ access \in 0 .. NoAddr
  /\ written \in NotInExec .. ArgCells
  /\ halted \in Pcb \cup {NULL}

HeapInit ==
  /\ Init
  /\ brk = [p \in Pcb |-> 0] /\ argv = [p \in Pcb |-> NoAddr]
  /\ heapVma = [p \in Pcb |-> p] /\ end = [p \in Pcb |-> 0]
  /\ mapped = [p \in Pcb |-> {}] /\ data = [p \in Pcb |-> Blank]
  /\ cr3 = Kernel /\ access = NoAddr /\ written = NotInExec /\ halted = NULL
------------------------------------------------------------------------------
\* The end of loadElf: a heap of one page, mapped, and the break at its start.
LoadElf(p) == /\ end' = [end EXCEPT ![p] = 1]
              /\ mapped' = [mapped EXCEPT ![p] = {0}]
              /\ UNCHANGED <<heapVma, data>>

Running == halted = NULL /\ written = NotInExec /\ access = NoAddr
InUserMode == Running /\ boot = "up" /\ at[current] = "user"

BootKernel == KernProcess /\ UNCHANGED heapVars
BootShell == /\ UserInitProcess /\ LoadElf(Shell)
             /\ UNCHANGED <<brk, argv, cr3, access, written, halted>>
StartShell == /\ SwitchToRing3 /\ cr3' = current'
              /\ UNCHANGED <<brk, heapVma, end, mapped, data, argv, access, written, halted>>

\* mallocSyscall: nothing but the break moves.
MallocSyscall(size) ==
  /\ InUserMode /\ brk[current] + size <= NoAddr
  /\ brk' = [brk EXCEPT ![current] = @ + size]
  /\ UNCHANGED <<vars, heapVma, end, mapped, data, argv, cr3, access, written, halted>>

\* A program starts to write to memory it has allocated.  A second store to a
\* cell whose page is mapped changes nothing; the cells of one page, which the
\* fault handler does not tell apart, are taken from the lowest up.
Touch(x) ==
  /\ InUserMode /\ x < brk[current] /\ 0 .. PageOf(x) - 1 \subseteq mapped[cr3]
  /\ ~ (data[cr3][x] = "own" /\ PageOf(x) \in mapped[cr3])
  /\ \A y \in 0 .. x - 1 : PageOf(y) = PageOf(x) => data[cr3][y] # "none"
  /\ access' = x
  /\ UNCHANGED <<vars, brk, heapVma, end, mapped, data, argv, cr3, written, halted>>

\* Mutant: the end is lowered once, not until it is the page touched.
PageToMap_Once(x, e) == IF x < e * PageCells THEN e - 1 ELSE e

\* The page the heap branch of pageFault maps: the one at the end of the VMA,
\* after the loop has lowered the end to a page below it that was touched.
PageToMap(x, e) == IF x < e * PageCells THEN PageOf(x) ELSE e

\* map_v_p2 with a frame from allocatePage: what was in the page is gone.
Remapped(cells, page) ==
  [x \in Addr |-> IF PageOf(x) # page THEN cells[x]
                  ELSE IF cells[x] = "none" THEN "none" ELSE "lost"]

\* Mutant: the end of the VMA stays where it was.
PageFault_EndKept ==
  LET page == PageToMap(access, end[heapVma[current]]) IN
  /\ access # NoAddr /\ PageOf(access) \notin mapped[cr3]
  /\ mapped' = [mapped EXCEPT ![cr3] = @ \cup {page}]
  /\ data' = [data EXCEPT ![cr3] = Remapped(@, page)]
  /\ UNCHANGED <<vars, brk, heapVma, end, argv, cr3, access, written, halted>>

\* pageFault on an address of the heap: the VMA of current, the table in CR3.
PageFault ==
  LET vma == heapVma[current]
      page == PageToMap(access, end[vma]) IN
  /\ access # NoAddr /\ PageOf(access) \notin mapped[cr3]
  /\ mapped' = [mapped EXCEPT ![cr3] = @ \cup {page}]
  /\ data' = [data EXCEPT ![cr3] = Remapped(@, page)]
  /\ end' = [end EXCEPT ![vma] = page + 1]
  /\ UNCHANGED <<vars, brk, heapVma, argv, cr3, access, written, halted>>

\* The store, once its page is mapped.
Store ==
  /\ access # NoAddr /\ PageOf(access) \in mapped[cr3]
  /\ data' = [data EXCEPT ![cr3][access] = IF written = NotInExec THEN "own" ELSE "arg"]
  /\ access' = NoAddr
  /\ UNCHANGED <<vars, brk, heapVma, end, mapped, argv, cr3, written, halted>>

HeapBranch(x) == 0 <= x /\ x <= HeapPages * PageCells

\* The condition of the stack branch, with its unsigned differences.
StackBranch(x) ==
  LET top == UserStackTop + PageCells IN
  /\ x <= UserStackTop
  /\ (top - UserStackTop - PageCells) % Word <= StackLimit
  /\ (x - UserStackTop - PageCells) % Word <= StackLimit

\* pageFault when no VMA takes the address: the message, then hlt with
\* interrupts off.  A program comes here when its stack outgrows its page.
SegmentationFault(x) ==
  /\ InUserMode /\ ~ HeapBranch(x) /\ ~ StackBranch(x)
  /\ halted' = current
  /\ UNCHANGED <<vars, brk, heapVma, end, mapped, data, argv, cr3, access, written>>
------------------------------------------------------------------------------
\* The mm of the child: the copies of the VMAs keep the next pointers of the
\* originals, so that the list leads from the first copy to the parent's VMAs.
ForkHeap ==
  LET child == used + 1 IN
  /\ Running /\ ForkSyscall
  /\ brk' = [brk EXCEPT ![child] = brk[current]]
  /\ heapVma' = [heapVma EXCEPT ![child] = heapVma[current]]
  /\ mapped' = [mapped EXCEPT ![child] = mapped[current]]
  /\ data' = [data EXCEPT ![child] = data[current]]
  /\ argv' = [argv EXCEPT ![child] = argv[current]]
  /\ UNCHANGED <<end, cr3, access, written, halted>>

\* Mutant: the old program's table is loaded while the arguments are written.
BeginExec_OldTable ==
  /\ Running /\ boot = "up" /\ at[current] = "forked" /\ a[current] = 0
  /\ brk[current] + ArgCells <= NoAddr
  /\ LoadElf(used + 1)
  /\ argv' = [argv EXCEPT ![used + 1] = brk[current]]
  /\ written' = 0
  /\ UNCHANGED <<vars, brk, cr3, access, halted>>

\* execveSyscall up to loadElf, in the new program's table.
BeginExec ==
  /\ Running /\ boot = "up" /\ at[current] = "forked" /\ a[current] = 0
  /\ brk[current] + ArgCells <= NoAddr
  /\ LoadElf(used + 1) /\ cr3' = used + 1
  /\ argv' = [argv EXCEPT ![used + 1] = brk[current]]
  /\ written' = 0
  /\ UNCHANGED <<vars, brk, access, halted>>

\* ans, or one of its strings, is allocated with the mm of current, the
\* program that is being replaced, and written through the new table.
WriteArg ==
  /\ written \in 0 .. ArgCells - 1 /\ access = NoAddr
  /\ access' = brk[current]
  /\ brk' = [brk EXCEPT ![current] = @ + 1]
  /\ written' = written + 1
  /\ UNCHANGED <<vars, heapVma, end, mapped, data, argv, cr3, halted>>

\* Nothing looks again at the memory of a process that has ended.
Forget(p) == /\ mapped' = [mapped EXCEPT ![p] = {}]
             /\ data' = [data EXCEPT ![p] = Blank]
             /\ brk' = [brk EXCEPT ![p] = 0]
             /\ argv' = [argv EXCEPT ![p] = NoAddr]
             /\ heapVma' = [heapVma EXCEPT ![p] = p]
             /\ end' = [end EXCEPT ![p] = 0]

\* The rest of execveSyscall.
EndExec ==
  /\ written = ArgCells /\ access = NoAddr
  /\ ExecveSyscall /\ written' = NotInExec
  /\ Forget(current)
  /\ UNCHANGED <<cr3, access, halted>>

Exit ==
  /\ Running /\ ExitSyscall /\ cr3' = current' /\ Forget(current)
  /\ UNCHANGED <<access, written, halted>>

Switch ==
  /\ Running /\ (WaitpidSyscall \/ YieldSyscall \/ Schedule) /\ cr3' = current'
  /\ UNCHANGED <<brk, heapVma, end, mapped, data, argv, access, written, halted>>

HeapNext ==
  \/ BootKernel \/ BootShell \/ StartShell
  \/ \E size \in 1 .. MaxAlloc : MallocSyscall(size)
  \/ \E x \in Addr : Touch(x)
  \/ PageFault \/ Store
  \/ \E x \in UserStackTop - PageCells .. UserStackTop - 1 : SegmentationFault(x)
  \/ ForkHeap \/ BeginExec \/ WriteArg \/ EndExec \/ Exit \/ Switch

HeapSpec == HeapInit /\ [][HeapNext]_memoryVars

\* The processor executes an instruction that faulted again; execve goes on.
HeapFairness == WF_memoryVars(PageFault \/ Store) /\ WF_memoryVars(WriteArg \/ EndExec)

FairHeapSpec == HeapSpec /\ HeapFairness
------------------------------------------------------------------------------
Alive == {p \in Pcb : at[p] \notin {"free", "init_func", "replaced", "exited"}}

\* The arguments reach the program that execve starts, and stay there until the
\* program has allocated as far as the address they were put at.
ArgvIntact ==
  \A p \in Alive \ {Shell} :
    at[p] \in {"user", "forked", "waitpid"} /\ argv[p] < NoAddr /\ brk[p] <= argv[p] =>
      \A k \in 0 .. ArgCells - 1 :
        PageOf(argv[p] + k) \in mapped[p] /\ data[p][argv[p] + k] = "arg"

\* A heap page is not replaced under a program that has not come as far as its
\* arguments: what it stored stays, whatever other processes did to the VMA.
HeapKept ==
  \A p \in Alive : brk[p] <= argv[p] =>
    \A x \in Addr : data[p][x] # "lost" /\ (data[p][x] = "own" => PageOf(x) \in mapped[p])

\* The faults on an address come to an end and the store is carried out.
AccessCompletes == access # NoAddr ~> access = NoAddr
==============================================================================
