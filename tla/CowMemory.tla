------------------------------ MODULE CowMemory ------------------------------
(***************************************************************************)
(* The memory of the processes of module ProcessRing: the page tables of   *)
(* sys/mmu.c, copied by fork and shared copy-on-write, the write fault of  *)
(* sys/page.c that ends the sharing, and the processor's translation       *)
(* cache, which only loadCR3 empties.                                      *)
(*                                                                         *)
(* A page table is a function from the user pages to entries: the four     *)
(* levels that map_v_p2 and fork walk are abstracted.  Frames are numbered *)
(* in the order allocatePage hands them out; none comes back once the      *)
(* kernel is up.  After the last one allocatePage answers NULL, no caller  *)
(* looks, and frame 0 is mapped in its place.                              *)
(*                                                                         *)
(* The kernel itself writes into user pages (read and the keyboard input). *)
(* Nothing in the repository sets CR0.WP.  If it is clear such a write     *)
(* ignores the read-only bit; if the loader has set it, the write traps    *)
(* first like one of the program's.  The model lets both happen.           *)
(***************************************************************************)
EXTENDS ProcessRing

CONSTANTS NumPages,      \* bound: user pages of a program
          NumFrames,     \* bound: frames left for user pages
          Value          \* contents of a page, 0 after memset

ASSUME MemoryAssumption ==
  /\ NumPages \in Nat \ {0} /\ NumFrames \in Nat
  /\ 0 \in Value

VARIABLES pte,           \* the entries of each PCB's page table
          content,       \* of each frame
          tlb,           \* entries of the loaded table the processor has cached
          cr3,           \* the PCB whose table is loaded
          taken,         \* frames handed out so far
          oom,           \* an allocation has failed
          stores         \* history: the parity of the stores so far

memoryVars == <<pte, content, tlb, cr3, taken, oom, stores>>
allVars == <<vars, memoryVars>>

Page == 1 .. NumPages
Frame == 0 .. NumFrames
Entry == [frame : Frame, present : BOOLEAN, writable : BOOLEAN, cow : BOOLEAN]

Absent == [frame |-> 0, present |-> FALSE, writable |-> FALSE, cow |-> FALSE]
NoTable == [v \in Page |-> Absent]

MemoryTypeOK ==
  /\ pte \in [Pcb -> [Page -> Entry]]
  /\ content \in [Frame -> Value]
  /\ tlb \in [Page -> Entry]
  /\ cr3 \in Pcb
  /\ taken \in 0 .. NumFrames
  /\ oom \in BOOLEAN /\ stores \in {0, 1}

MemoryInit ==
  /\ Init
  /\ pte = [p \in Pcb |-> NoTable]
  /\ content = [f \in Frame |-> 0]
  /\ tlb = NoTable /\ cr3 = Kernel
  /\ taken = 0 /\ oom = FALSE /\ stores = 0
------------------------------------------------------------------------------
\* The n-th frame allocatePage returns from now on, or NULL.
Fresh(n) == IF taken + n <= NumFrames THEN taken + n ELSE 0

Allocate(n) == /\ taken' = IF taken + n <= NumFrames THEN taken + n ELSE NumFrames
               /\ oom' = (oom \/ taken + n > NumFrames)

\* The entry map_v_p2 writes.
Mapped(f) == [frame |-> f, present |-> TRUE, writable |-> TRUE, cow |-> FALSE]

\* Mutant: an entry of the parent that was writable stays so.
Shared_Writable(e) == IF e.present THEN [e EXCEPT !.cow = TRUE] ELSE e

\* The entry fork leaves in both tables: present, user, COW.
Shared(e) == IF e.present
             THEN [frame |-> e.frame, present |-> TRUE, writable |-> FALSE, cow |-> TRUE]
             ELSE e

\* Mutant: a table is loaded and the cached entries stay.
LoadCR3_NoFlush(p) == cr3' = p /\ UNCHANGED tlb

\* loadCR3: every cached entry goes.  COW_BIT is the processor's bit for a global
\* page, which would stay: that it goes takes a clear CR4.PGE, which is how the
\* processor starts and which nothing in the repository sets.
LoadCR3(p) == cr3' = p /\ tlb' = NoTable

\* loadElf: every page of the program on a frame of its own, with contents
\* from the file or, in the bss, the heap and the stack, whatever is there.
LoadElf(p) ==
  \E image \in [Page -> Value] :
    /\ pte' = [pte EXCEPT ![p] = [v \in Page |-> Mapped(Fresh(v))]]
    /\ content' = [f \in Frame |->
         IF f \in taken + 1 .. taken + NumPages THEN image[f - taken]
         ELSE IF f = 0 /\ Fresh(NumPages) = 0 THEN image[NumPages]
         ELSE content[f]]
    /\ Allocate(NumPages) /\ UNCHANGED stores

\* The page-table copy of forkSyscall.
CopyTables(parent, child) ==
  LET shared == [v \in Page |-> Shared(pte[parent][v])] IN
  /\ pte' = [pte EXCEPT ![parent] = shared, ![child] = shared]
  /\ UNCHANGED <<content, taken, oom, stores>>

\* contextSwitch loads the table of the process it switches to.
SwitchTable == /\ LoadCR3(current')
               /\ UNCHANGED <<pte, content, taken, oom, stores>>
------------------------------------------------------------------------------
BootKernel == KernProcess /\ UNCHANGED memoryVars
BootShell == UserInitProcess /\ LoadElf(Shell) /\ LoadCR3(current)
EnterShell == SwitchToRing3 /\ SwitchTable

\* forkSyscall loads the child's table to fill in its PCB and goes back.
Fork == ForkSyscall /\ CopyTables(current, used + 1) /\ LoadCR3(current)

\* Mutant: the new program starts in the table of the process it replaces.
Execve_KeepTable ==
  /\ ExecveSyscall /\ LoadCR3(used + 1)
  /\ pte' = [pte EXCEPT ![used + 1] = pte[current]]
  /\ UNCHANGED <<content, taken, oom, stores>>

\* execveSyscall fills the new table and leaves the old one as it is.
Execve == ExecveSyscall /\ LoadElf(used + 1) /\ LoadCR3(used + 1)
Switch == (WaitpidSyscall \/ ExitSyscall \/ YieldSyscall \/ Schedule) /\ SwitchTable

InUserMode == boot = "up" /\ at[current] \in {"user", "forked"}

\* What the processor uses for page v, cached or from the table.
Translation(v) == IF tlb[v].present THEN tlb[v] ELSE pte[cr3][v]

\* The processor may cache an entry at any time.
TlbFill(v) ==
  /\ InUserMode /\ pte[cr3][v].present
  /\ tlb' = [tlb EXCEPT ![v] = pte[cr3][v]]
  /\ UNCHANGED <<vars, pte, content, cr3, taken, oom, stores>>

WriteTo(f, x) == /\ content' = [content EXCEPT ![f] = x]
                 /\ stores' = 1 - stores
                 /\ UNCHANGED <<vars, pte, tlb, cr3, taken, oom>>

\* A store of a program.
UserWrite(v, x) == /\ InUserMode
                   /\ Translation(v).present /\ Translation(v).writable
                   /\ WriteTo(Translation(v).frame, x)

\* A store of readSyscall or scanfstdin into the caller's buffer.
KernelWrite(v, x) == /\ boot = "up" /\ at[current] = "user"
                     /\ Translation(v).present
                     /\ WriteTo(Translation(v).frame, x)

\* Mutant: the new frame is mapped and the page is not copied to it.
PageFault_NoCopy(v) ==
  LET entry == pte[cr3][v]  new == Fresh(1) IN
  /\ InUserMode /\ Translation(v).present /\ ~ Translation(v).writable /\ entry.cow
  /\ content' = [content EXCEPT ![new] = 0]
  /\ pte' = [pte EXCEPT ![cr3][v] = Mapped(new)]
  /\ Allocate(1) /\ LoadCR3(current)
  /\ UNCHANGED <<vars, stores>>

\* pageFault on a write to a present page with the COW bit: a cleared frame
\* takes a copy of the page and replaces it, writable, in the loaded table.
PageFault(v) ==
  LET entry == pte[cr3][v]  new == Fresh(1) IN
  /\ InUserMode /\ Translation(v).present /\ ~ Translation(v).writable /\ entry.cow
  /\ content' = [content EXCEPT
       ![new] = IF Translation(v).frame = new THEN 0 ELSE content[Translation(v).frame]]
  /\ pte' = [pte EXCEPT ![cr3][v] = Mapped(new)]
  /\ Allocate(1) /\ LoadCR3(current)
  /\ UNCHANGED <<vars, stores>>

MemoryNext ==
  \/ BootKernel \/ BootShell \/ EnterShell \/ Fork \/ Execve \/ Switch
  \/ \E v \in Page : \/ TlbFill(v) \/ PageFault(v)
                     \/ \E x \in Value : UserWrite(v, x) \/ KernelWrite(v, x)

MemorySpec == MemoryInit /\ [][MemoryNext]_allVars
------------------------------------------------------------------------------
Alive == {p \in Pcb : at[p] \notin {"free", "init_func", "replaced", "exited"}}

Uses(p, f) == \E v \in Page : pte[p][v].present /\ pte[p][v].frame = f

\* A cached entry is never older than the table: nothing the kernel changes in
\* the loaded table stays behind in the processor, and no entry of another
\* process does.
TlbCoherent == \A v \in Page : tlb[v].present => tlb[v] = pte[cr3][v]

\* A frame that two live processes map is writable in neither, so that the
\* first store of each traps: until then they cannot tell they share it.
SharedFramesReadOnly ==
  ~ oom => \A p, q \in Alive : \A v \in Page :
             p # q /\ pte[p][v].present /\ Uses(q, pte[p][v].frame)
               => ~ pte[p][v].writable /\ pte[p][v].cow

\* When the kernel may write into a program's buffer the program shares no frame
\* with a live process: the write, which does not trap, stays with the program.
CopyOutIsPrivate ==
  ~ oom /\ boot = "up" /\ at[current] = "user" =>
    \A q \in Alive \ {current} : \A v \in Page :
      pte[current][v].present => ~ Uses(q, pte[current][v].frame)

\* fork, the write fault, execve and the kernel's own writes give each process
\* the memory of PrivateMemory, as long as no allocation fails.
Memory(p) == IF p \in Alive THEN [v \in Page |-> content[pte[p][v].frame]] ELSE <<>>

Private == INSTANCE PrivateMemory
             WITH Proc <- Pcb, Page <- Page, Value <- Value, NoMemory <- <<>>,
                  mem <- [p \in Pcb |-> Memory(p)], running <- current,
                  stores <- stores, oom <- oom

PrivateMemoryRefinement == Private!PrivSpec
==============================================================================
