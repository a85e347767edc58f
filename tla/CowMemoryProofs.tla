--------------------------- MODULE CowMemoryProofs ---------------------------
(***************************************************************************)
(* Proofs about copy-on-write, for any number of processes, pages, frames  *)
(* and contents.  The ring tells who can share a frame with whom: only a   *)
(* parent between fork and the execve of its child, with that child.  That *)
(* is why the kernel's own writes, which ignore the read-only bit, meet no *)
(* shared frame, and why a store that does not trap changes one page of    *)
(* one process.                                                            *)
(***************************************************************************)
EXTENDS CowMemory, ProcessRingProofs

USE SizeAssumption, MemoryAssumption

\* The table of the running process is the one that is loaded.
LoadedInv == boot = "up" => cr3 = current

\* Every page of a live process is mapped, to a frame that was handed out and
\* that backs no other page of the process.
FramesInv ==
  \A p \in Alive : \A v \in Page :
    /\ pte[p][v].present
    /\ ~ oom => /\ pte[p][v].frame \in 1 .. taken
                /\ \A w \in Page : pte[p][v].frame = pte[p][w].frame => v = w

Share(p, q) == \E v, w \in Page : pte[p][v].frame = pte[q][w].frame

\* Whom a process that has forked, or was forked, shares its frames with.
Partner == IF a[current] # 0 THEN next[current] ELSE Top

\* Only parent and child share, from fork to execve.
SharingInv ==
  boot = "up" /\ ~ oom =>
    \A p, q \in Alive : p # q /\ Share(p, q) =>
      /\ at[current] = "forked"
      /\ (p = current /\ q = Partner) \/ (p = Partner /\ q = current)

MemInv == /\ MemoryTypeOK /\ TlbCoherent /\ LoadedInv /\ FramesInv
          /\ SharedFramesReadOnly /\ SharingInv
------------------------------------------------------------------------------
\* The memory is added to the process ring: every step is one of its own or
\* leaves it alone.
LEMMA MemoryRing == MemorySpec => []IInv
<1>1. MemoryInit => Init BY DEF MemoryInit
<1>2. [MemoryNext]_allVars => [Next]_vars
  BY DEF MemoryNext, allVars, BootKernel, BootShell, EnterShell, Fork, Execve, Switch,
         TlbFill, PageFault, UserWrite, KernelWrite, WriteTo, Next
<1>3. MemorySpec => Spec BY <1>1, <1>2, PTL DEF MemorySpec, Spec
<1> QED BY <1>3, InvariantHolds, PTL

\* What the processor uses is what the loaded table says.
LEMMA TranslationIsTable ==
  ASSUME TlbCoherent, NEW v \in Page, Translation(v).present
  PROVE  Translation(v) = pte[cr3][v]
BY DEF TlbCoherent, Translation

\* The program or the call that uses memory is a live process's.
LEMMA RunningIsAlive ==
  ASSUME IInv, MemInv, boot = "up", at[current] \in {"user", "forked"}
  PROVE  current \in Alive /\ current \in Pcb /\ cr3 = current
<1>1. current \in Pcb BY ProgramFacts
<1> QED BY <1>1 DEF MemInv, LoadedInv, Alive

\* The processes that contextSwitch leaves alive: all, or all but the one that
\* exits.
LEMMA AliveAfterSwitch ==
  ASSUME IInv, WaitpidSyscall \/ ExitSyscall \/ YieldSyscall \/ Schedule
  PROVE  /\ boot = "up" /\ boot' = "up" /\ current' \in Pcb /\ current \in Pcb
         /\ Alive' = Alive \/ Alive' = Alive \ {current}
<1>1. CASE WaitpidSyscall \/ YieldSyscall \/ ExitSyscall
  <2>1. /\ boot = "up" /\ boot' = "up"
        /\ current \in Pcb \ {Kernel} /\ current' \in Pcb \ {current}
        /\ at[current] \in {"user", "forked"}
        /\ at[current'] \in {"unborn", "waitpid", "init_func"}
        /\ at'[current] \in {"waitpid", "yield", "exited"}
        /\ at'[current'] \in {"forked", "init_func", "user"}
        /\ at'[current'] = "init_func" <=> at[current'] = "init_func"
        /\ \A p \in Pcb \ {current, current'} : at'[p] = at[p]
    BY <1>1, SuspendFacts
  <2>2. \A p \in Pcb \ {current} : p \in Alive' <=> p \in Alive
    BY <2>1 DEF Alive
  <2>3. current \in Alive BY <2>1 DEF Alive
  <2>4. Alive \subseteq Pcb /\ Alive' \subseteq Pcb BY DEF Alive
  <2> QED BY <2>1, <2>2, <2>3, <2>4
<1>2. CASE Schedule
  <2>0. TypeOK /\ KernelInv /\ CurrentInv BY DEF IInv, RingInv
  <2>1. /\ boot = "up" /\ boot' = "up" /\ current = Kernel /\ next[Kernel] = Shell
        /\ ContextSwitch(Shell, "init_func") /\ at[Kernel] = "init_func"
    BY <1>2, <2>0 DEF Schedule, KernelInv
  <2>2. at[Shell] = "yield"
    BY <2>0, <2>1 DEF CurrentInv, Idle, InProgram, AfterFork, InChild
  <2>3. Kernel \in Pcb /\ Shell \in Pcb /\ Shell # Kernel BY DEF Kernel, Shell, Pcb
  <2>4. /\ current' = Shell /\ at'[Kernel] = "init_func"
        /\ at'[Shell] \in {"forked", "init_func", "user"} /\ at'[Shell] # "init_func"
        /\ \A p \in Pcb \ {Kernel, Shell} : at'[p] = at[p]
    BY <2>0, <2>1, <2>2, <2>3, SwitchFacts
  <2>5. \A p \in Pcb : p \in Alive' <=> p \in Alive
    BY <2>1, <2>2, <2>4 DEF Alive
  <2> QED BY <2>1, <2>3, <2>4, <2>5 DEF Alive
<1> QED BY <1>1, <1>2

\* loadElf puts every page of p on a frame of its own, behind all frames that
\* were handed out before, and leaves everybody else's memory alone.
LEMMA LoadElfFacts ==
  ASSUME MemoryTypeOK, NEW p \in Pcb, LoadElf(p)
  PROVE  /\ pte' \in [Pcb -> [Page -> Entry]] /\ content' \in [Frame -> Value]
         /\ taken' \in 0 .. NumFrames /\ taken <= taken'
         /\ oom' \in BOOLEAN /\ stores' = stores
         /\ \A q \in Pcb \ {p} : pte'[q] = pte[q]
         /\ \A v \in Page : pte'[p][v] = Mapped(Fresh(v)) /\ Mapped(Fresh(v)).present
         /\ ~ oom' => /\ ~ oom /\ taken' = taken + NumPages
                      /\ \A v \in Page : pte'[p][v].frame = taken + v
                      /\ \A f \in 0 .. taken : content'[f] = content[f]
<1>1. PICK image \in [Page -> Value] :
        /\ pte' = [pte EXCEPT ![p] = [v \in Page |-> Mapped(Fresh(v))]]
        /\ content' = [f \in Frame |->
             IF f \in taken + 1 .. taken + NumPages THEN image[f - taken]
             ELSE IF f = 0 /\ Fresh(NumPages) = 0 THEN image[NumPages]
             ELSE content[f]]
        /\ Allocate(NumPages) /\ stores' = stores
  BY DEF LoadElf
<1>t. /\ taken \in 0 .. NumFrames /\ NumPages \in Nat \ {0} /\ NumFrames \in Nat
      /\ oom \in BOOLEAN /\ content \in [Frame -> Value]
      /\ pte \in [Pcb -> [Page -> Entry]]
  BY DEF MemoryTypeOK
<1>2. \A v \in Page : Fresh(v) \in Frame BY <1>t DEF Fresh, Frame, Page
<1>3. \A v \in Page : Mapped(Fresh(v)) \in Entry /\ Mapped(Fresh(v)).present
                      /\ Mapped(Fresh(v)).frame = Fresh(v)
  BY <1>2 DEF Mapped, Entry
<1>4. /\ pte' \in [Pcb -> [Page -> Entry]]
      /\ \A q \in Pcb \ {p} : pte'[q] = pte[q]
      /\ \A v \in Page : pte'[p][v] = Mapped(Fresh(v))
  BY <1>1, <1>3, <1>t
<1>5. content' \in [Frame -> Value]
  <2>1. ASSUME NEW f \in Frame
        PROVE  (IF f \in taken + 1 .. taken + NumPages THEN image[f - taken]
                ELSE IF f = 0 /\ Fresh(NumPages) = 0 THEN image[NumPages]
                ELSE content[f]) \in Value
    <3>1. NumPages \in Page /\ (f \in taken + 1 .. taken + NumPages => f - taken \in Page)
      BY <1>t DEF Page, Frame
    <3> QED BY <3>1, <1>t
  <2> QED BY <2>1, <1>1
<1>6. /\ taken' \in 0 .. NumFrames /\ taken <= taken' /\ oom' \in BOOLEAN
      /\ ~ oom' => /\ ~ oom /\ taken' = taken + NumPages /\ taken + NumPages <= NumFrames
  <2>1. oom' \in BOOLEAN /\ (~ oom' => ~ oom /\ ~ (taken + NumPages > NumFrames))
    BY <1>1, Zenon DEF Allocate
  <2>2. taken' = IF taken + NumPages <= NumFrames THEN taken + NumPages ELSE NumFrames
    BY <1>1 DEF Allocate
  <2> QED BY <2>1, <2>2, <1>t
<1>7. ASSUME ~ oom'
      PROVE  /\ \A v \in Page : pte'[p][v].frame = taken + v
             /\ \A f \in 0 .. taken : content'[f] = content[f]
  <2>1. \A v \in Page : Fresh(v) = taken + v BY <1>6, <1>7, <1>t DEF Fresh, Page
  <2>2. Fresh(NumPages) # 0 BY <1>6, <1>7, <1>t DEF Fresh
  <2>3. ASSUME NEW f \in 0 .. taken PROVE content'[f] = content[f]
    <3>1. f \in Frame /\ f \notin taken + 1 .. taken + NumPages BY <1>t DEF Frame
    <3> QED BY <3>1, <2>2, <1>1
  <2> QED BY <2>1, <2>3, <1>3, <1>4
<1> QED BY <1>1, <1>3, <1>4, <1>5, <1>6, <1>7
------------------------------------------------------------------------------
LEMMA EmptyTlbCoherent == tlb' = NoTable => TlbCoherent'
BY DEF TlbCoherent, NoTable, Absent

LEMMA NoTableType == NoTable \in [Page -> Entry]
BY DEF NoTable, Absent, Entry, Frame

\* A step that changes no entry and brings nobody to life.
LEMMA TablesKept ==
  ASSUME MemInv, Alive' \subseteq Alive, UNCHANGED <<pte, taken, oom>>
  PROVE  FramesInv' /\ SharedFramesReadOnly'
BY DEF MemInv, FramesInv, SharedFramesReadOnly, Uses

LEMMA MemoryInitEstablishes == MemoryInit => MemInv
<1> SUFFICES ASSUME MemoryInit PROVE MemInv
  OBVIOUS
<1>1. Alive = {} /\ boot # "up" BY DEF MemoryInit, Init, Alive
<1>2. MemoryTypeOK
  <2>1. pte \in [Pcb -> [Page -> Entry]] /\ tlb \in [Page -> Entry]
    BY NoTableType DEF MemoryInit
  <2>2. content \in [Frame -> Value] BY DEF MemoryInit
  <2>3. cr3 \in Pcb /\ taken \in 0 .. NumFrames /\ stores \in {0, 1}
    BY DEF MemoryInit, Kernel, Pcb
  <2>4. oom \in BOOLEAN BY DEF MemoryInit
  <2> QED BY <2>1, <2>2, <2>3, <2>4 DEF MemoryTypeOK
<1>3. TlbCoherent BY DEF MemoryInit, TlbCoherent, NoTable, Absent
<1>4. LoadedInv /\ FramesInv /\ SharedFramesReadOnly /\ SharingInv
  BY <1>1 DEF LoadedInv, FramesInv, SharedFramesReadOnly, SharingInv
<1> QED BY <1>2, <1>3, <1>4 DEF MemInv

LEMMA BootKernelStep == IInv /\ MemInv /\ BootKernel => MemInv' /\ Alive' = Alive
<1> SUFFICES ASSUME IInv, MemInv, BootKernel PROVE MemInv' /\ Alive' = Alive
  OBVIOUS
<1>0. TypeOK /\ BootInv BY DEF IInv, RingInv
<1>1. /\ boot = "kernProcess" /\ boot' # "up" /\ UNCHANGED memoryVars
      /\ at' = [at EXCEPT ![Kernel] = "init_func"] /\ \A p \in Pcb : at[p] = "free"
  BY <1>0 DEF BootKernel, KernProcess, BootInv
<1>2. Alive' = {} /\ Alive = {} BY <1>0, <1>1 DEF Alive, TypeOK
<1>3. FramesInv' /\ SharedFramesReadOnly'
  BY <1>1, <1>2, TablesKept DEF memoryVars
<1>4. MemoryTypeOK' /\ TlbCoherent'
  BY <1>1 DEF MemInv, MemoryTypeOK, TlbCoherent, memoryVars
<1> QED BY <1>1, <1>2, <1>3, <1>4 DEF MemInv, LoadedInv, SharingInv

LEMMA BootShellStep ==
  IInv /\ MemInv /\ BootShell => MemInv' /\ Alive = {} /\ Alive' = {Shell} /\ LoadElf(Shell)
<1> SUFFICES ASSUME IInv, MemInv, BootShell
             PROVE  MemInv' /\ Alive = {} /\ Alive' = {Shell} /\ LoadElf(Shell)
  OBVIOUS
<1>0. TypeOK /\ BootInv /\ MemoryTypeOK BY DEF IInv, RingInv, MemInv
<1>c. Kernel \in Pcb /\ Shell \in Pcb /\ Shell # Kernel BY DEF Kernel, Shell, Pcb
<1>1. /\ boot = "userInitProcess" /\ boot' # "up" /\ current = Kernel
      /\ at' = [at EXCEPT ![Shell] = "user"] /\ at[Kernel] = "init_func"
      /\ \A p \in Pcb \ {Kernel} : at[p] = "free"
      /\ LoadElf(Shell) /\ cr3' = Kernel /\ tlb' = NoTable
  BY <1>0 DEF BootShell, UserInitProcess, BootInv, LoadCR3
<1>2. Alive = {} /\ Alive' = {Shell} BY <1>0, <1>1, <1>c DEF Alive, TypeOK
<1>3. /\ pte' \in [Pcb -> [Page -> Entry]] /\ content' \in [Frame -> Value]
      /\ taken' \in 0 .. NumFrames /\ oom' \in BOOLEAN /\ stores' = stores
      /\ \A v \in Page : pte'[Shell][v].present
      /\ ~ oom' => /\ taken' = taken + NumPages
                   /\ \A v \in Page : pte'[Shell][v].frame = taken + v
  BY <1>0, <1>1, <1>c, LoadElfFacts
<1>4. MemoryTypeOK' /\ TlbCoherent'
  BY <1>0, <1>1, <1>3, <1>c, NoTableType, EmptyTlbCoherent DEF MemoryTypeOK
<1>5. FramesInv'
  BY <1>0, <1>2, <1>3 DEF FramesInv, MemoryTypeOK, Page
<1>6. SharedFramesReadOnly' BY <1>2 DEF SharedFramesReadOnly
<1> QED BY <1>1, <1>2, <1>4, <1>5, <1>6 DEF MemInv, LoadedInv, SharingInv

LEMMA EnterShellStep == IInv /\ MemInv /\ EnterShell => MemInv' /\ Alive' = Alive
<1> SUFFICES ASSUME IInv, MemInv, EnterShell PROVE MemInv' /\ Alive' = Alive
  OBVIOUS
<1>0. BootInv BY DEF IInv, RingInv
<1>c. Shell \in Pcb BY DEF Shell, Pcb
<1>1. /\ boot = "switchToRing3" /\ current' = Shell /\ at' = at
      /\ cr3' = Shell /\ tlb' = NoTable /\ UNCHANGED <<pte, content, taken, oom, stores>>
  BY DEF EnterShell, SwitchToRing3, SwitchTable, LoadCR3
<1>2. Alive' = Alive /\ Alive \subseteq {Shell}
  BY <1>0, <1>1 DEF Alive, BootInv
<1>3. FramesInv' /\ SharedFramesReadOnly' BY <1>1, <1>2, TablesKept
<1>4. MemoryTypeOK' /\ TlbCoherent'
  BY <1>1, <1>c, NoTableType, EmptyTlbCoherent DEF MemInv, MemoryTypeOK
<1>5. LoadedInv' /\ SharingInv' BY <1>1, <1>2 DEF LoadedInv, SharingInv
<1> QED BY <1>2, <1>3, <1>4, <1>5 DEF MemInv

\* The parent that waits and the child that runs are the two that share.
LEMMA SwitchStep == IInv /\ MemInv /\ Switch => MemInv'
<1> SUFFICES ASSUME IInv, MemInv, Switch PROVE MemInv'
  OBVIOUS
<1>0. TypeOK /\ KernelInv /\ CurrentInv BY DEF IInv, RingInv
<1>1. /\ WaitpidSyscall \/ ExitSyscall \/ YieldSyscall \/ Schedule
      /\ cr3' = current' /\ tlb' = NoTable /\ UNCHANGED <<pte, content, taken, oom, stores>>
  BY DEF Switch, SwitchTable, LoadCR3
<1>2. /\ boot = "up" /\ boot' = "up" /\ current' \in Pcb /\ Alive' \subseteq Alive
  BY <1>1, AliveAfterSwitch
<1>3. FramesInv' /\ SharedFramesReadOnly' BY <1>1, <1>2, TablesKept
<1>4. MemoryTypeOK' /\ TlbCoherent'
  BY <1>1, <1>2, NoTableType, EmptyTlbCoherent DEF MemInv, MemoryTypeOK
<1>5. LoadedInv' BY <1>1 DEF LoadedInv
<1>6. SharingInv'
  <2> SUFFICES ASSUME ~ oom, NEW p \in Alive, NEW q \in Alive, p # q, Share(p, q)
               PROVE  /\ at'[current'] = "forked"
                      /\ (p = current' /\ q = Partner') \/ (p = Partner' /\ q = current')
    BY <1>1, <1>2 DEF SharingInv, Share
  <2>1. /\ at[current] = "forked"
        /\ (p = current /\ q = Partner) \/ (p = Partner /\ q = current)
    BY <1>2 DEF MemInv, SharingInv
  <2>2. WaitpidSyscall
    BY <1>0, <1>1, <2>1 DEF ExitSyscall, MayExit, YieldSyscall, Schedule, KernelInv
  <2>3. /\ a[current] # 0 /\ a' = a /\ callers' = Append(callers, current)
        /\ ContextSwitch(next[current], "waitpid")
    BY <2>2 DEF WaitpidSyscall
  <2>4. /\ next[current] \in Pcb /\ at[next[current]] = "unborn" /\ a[next[current]] = 0
    BY <1>0, <1>2, <2>1, <2>3 DEF CurrentInv, Idle, InProgram, AfterFork, InChild, KernelInv
  <2>5. current' = next[current] /\ at'[next[current]] = "forked"
    BY <1>0, <2>3, <2>4 DEF ContextSwitch, Resumed, TypeOK
  <2>6. Top' = current
    <3>1. callers \in Seq(Pcb) /\ current \in Pcb BY <1>0, <1>2 DEF TypeOK, KernelInv
    <3> QED BY <3>1, <2>3 DEF Top
  <2>7. Partner = current' /\ Partner' = current
    BY <2>3, <2>4, <2>5, <2>6 DEF Partner
  <2> QED BY <2>1, <2>5, <2>7
<1> QED BY <1>3, <1>4, <1>5, <1>6 DEF MemInv

\* The two tables after fork: the frames of the parent's, all read-only.
LEMMA CopyTablesFacts ==
  ASSUME MemInv, current \in Alive, NEW child \in Pcb \ {current},
         CopyTables(current, child)
  PROVE  /\ pte' \in [Pcb -> [Page -> Entry]]
         /\ pte'[child] = pte'[current]
         /\ \A q \in Pcb \ {current, child} : pte'[q] = pte[q]
         /\ \A v \in Page : /\ pte'[current][v].frame = pte[current][v].frame
                            /\ pte'[current][v].present /\ ~ pte'[current][v].writable
                            /\ pte'[current][v].cow
<1> DEFINE shared == [v \in Page |-> Shared(pte[current][v])]
<1>1. pte' = [pte EXCEPT ![current] = shared, ![child] = shared]
  BY DEF CopyTables
<1>2. current \in Pcb /\ pte \in [Pcb -> [Page -> Entry]]
  BY DEF Alive, MemInv, MemoryTypeOK
<1>3. ASSUME NEW v \in Page
      PROVE  /\ Shared(pte[current][v]) \in Entry
             /\ Shared(pte[current][v]).frame = pte[current][v].frame
             /\ Shared(pte[current][v]).present /\ ~ Shared(pte[current][v]).writable
             /\ Shared(pte[current][v]).cow
  <2>1. pte[current][v] \in Entry /\ pte[current][v].present
    BY <1>2 DEF MemInv, FramesInv
  <2>2. pte[current][v].frame \in Frame BY <2>1 DEF Entry
  <2>3. Shared(pte[current][v]) = [frame |-> pte[current][v].frame, present |-> TRUE,
                                   writable |-> FALSE, cow |-> TRUE]
    BY <2>1 DEF Shared
  <2> QED BY <2>2, <2>3 DEF Entry
<1>4. shared \in [Page -> Entry] BY <1>3
<1>5. \A v \in Page : shared[v] = Shared(pte[current][v]) OBVIOUS
<1> HIDE DEF shared
<1>6. /\ pte' \in [Pcb -> [Page -> Entry]] /\ pte'[current] = shared /\ pte'[child] = shared
      /\ \A q \in Pcb \ {current, child} : pte'[q] = pte[q]
  BY <1>1, <1>2, <1>4
<1> QED BY <1>3, <1>5, <1>6

\* What fork does, in terms of the process each table comes from.
LEMMA ForkFacts ==
  ASSUME IInv, MemInv, Fork
  PROVE  LET child == used + 1
             From(p) == IF p = child THEN current ELSE p IN
         /\ boot = "up" /\ boot' = "up" /\ at[current] = "user" /\ current' = current
         /\ current \in Alive /\ child \in Pcb /\ child \notin Alive
         /\ Alive' = Alive \cup {child}
         /\ at'[current] = "forked" /\ Partner' = child
         /\ cr3' = current /\ tlb' = NoTable /\ UNCHANGED <<content, taken, oom, stores>>
         /\ pte' \in [Pcb -> [Page -> Entry]]
         /\ \A p \in Alive' : From(p) \in Alive
         /\ \A p \in Alive' : \A v \in Page :
              /\ pte'[p][v].present /\ pte'[p][v].frame = pte[From(p)][v].frame
              /\ p \in {current, child} => ~ pte'[p][v].writable /\ pte'[p][v].cow
<1> DEFINE child == used + 1
<1> DEFINE From(p) == IF p = child THEN current ELSE p
<1>0. TypeOK /\ StateInv /\ KernelInv BY DEF IInv, RingInv
<1>1. /\ boot = "up" /\ boot' = "up" /\ at[current] = "user" /\ current' = current
      /\ child \in Pcb
      /\ at' = [at EXCEPT ![current] = "forked", ![child] = "unborn"]
      /\ a' = [a EXCEPT ![current] = GetPID, ![child] = 0]
      /\ next' = [next EXCEPT ![current] = child, ![child] = next[current]]
  BY <1>0 DEF Fork, ForkSyscall, TypeOK, Pcb
<1>2. /\ CopyTables(current, child) /\ cr3' = current /\ tlb' = NoTable
      /\ UNCHANGED <<content, taken, oom, stores>>
  BY DEF Fork, LoadCR3, CopyTables
<1>3. current \in Alive /\ current \in Pcb BY <1>1, RunningIsAlive
<1>4. at[child] = "free"
  <2>1. child > used BY <1>0 DEF TypeOK
  <2> QED BY <2>1, <1>0, <1>1 DEF StateInv
<1> HIDE DEF child
<1>5. child # current /\ child \notin Alive BY <1>1, <1>4 DEF Alive
<1>6. at'[current] = "forked" /\ at'[child] = "unborn"
      /\ \A p \in Pcb \ {current, child} : at'[p] = at[p]
  BY <1>0, <1>1, <1>3, <1>5 DEF TypeOK
<1>7. Alive' = Alive \cup {child}
  <2>1. \A p \in Pcb : p \in Alive' <=> p \in Alive \cup {child}
    BY <1>1, <1>6 DEF Alive
  <2> QED BY <2>1, <1>1 DEF Alive
<1>8. Partner' = child
  <2>1. GetPID # 0 BY <1>0, <1>1, GetPIDFresh DEF KernelInv, NoPid
  <2>2. a'[current] = GetPID /\ next'[current] = child
    BY <1>0, <1>1, <1>3, <1>5 DEF TypeOK
  <2> QED BY <2>1, <2>2, <1>1 DEF Partner
<1>9. /\ pte' \in [Pcb -> [Page -> Entry]]
      /\ pte'[child] = pte'[current]
      /\ \A q \in Pcb \ {current, child} : pte'[q] = pte[q]
      /\ \A v \in Page : /\ pte'[current][v].frame = pte[current][v].frame
                         /\ pte'[current][v].present /\ ~ pte'[current][v].writable
                         /\ pte'[current][v].cow
  BY <1>1, <1>2, <1>3, <1>5, CopyTablesFacts
<1>10. \A p \in Alive' : From(p) \in Alive BY <1>3, <1>7
<1>11. ASSUME NEW p \in Alive', NEW v \in Page
       PROVE  /\ pte'[p][v].present /\ pte'[p][v].frame = pte[From(p)][v].frame
              /\ p \in {current, child} => ~ pte'[p][v].writable /\ pte'[p][v].cow
  <2>1. CASE p \in {current, child} BY <2>1, <1>9
  <2>2. CASE p \notin {current, child}
    <3>1. p \in Alive /\ p \in Pcb \ {current, child} BY <2>2, <1>7 DEF Alive
    <3>2. pte[p][v].present BY <3>1 DEF MemInv, FramesInv
    <3> QED BY <2>2, <3>1, <3>2, <1>9
  <2> QED BY <2>1, <2>2
<1> QED BY <1>1, <1>2, <1>3, <1>5, <1>6, <1>7, <1>8, <1>9, <1>10, <1>11 DEF child

\* While a program runs in its own code no two live processes share a frame.
LEMMA NoSharing ==
  ASSUME MemInv, boot = "up", ~ oom, at[current] # "forked",
         NEW p \in Alive, NEW q \in Alive, Share(p, q)
  PROVE  p = q
BY DEF MemInv, SharingInv

LEMMA ForkMemoryStep == IInv /\ MemInv /\ Fork => MemInv'
<1> SUFFICES ASSUME IInv, MemInv, Fork PROVE MemInv'
  OBVIOUS
<1> DEFINE child == used + 1
<1> DEFINE From(p) == IF p = child THEN current ELSE p
<1>1. /\ boot = "up" /\ boot' = "up" /\ at[current] = "user" /\ current' = current
      /\ current \in Alive /\ child \in Pcb /\ Alive' = Alive \cup {child}
      /\ at'[current] = "forked" /\ Partner' = child
      /\ cr3' = current /\ tlb' = NoTable /\ UNCHANGED <<content, taken, oom, stores>>
      /\ pte' \in [Pcb -> [Page -> Entry]]
      /\ \A p \in Alive' : From(p) \in Alive
      /\ \A p \in Alive' : \A v \in Page :
           /\ pte'[p][v].present /\ pte'[p][v].frame = pte[From(p)][v].frame
           /\ p \in {current, child} => ~ pte'[p][v].writable /\ pte'[p][v].cow
  BY ForkFacts
<1> HIDE DEF child
<1>2. MemoryTypeOK' /\ TlbCoherent'
  BY <1>1, NoTableType, EmptyTlbCoherent DEF MemInv, MemoryTypeOK, Alive
<1>3. LoadedInv' BY <1>1 DEF LoadedInv
<1>4. FramesInv'
  <2> SUFFICES ASSUME NEW p \in Alive', NEW v \in Page
               PROVE  /\ pte'[p][v].present
                      /\ ~ oom => /\ pte'[p][v].frame \in 1 .. taken
                                  /\ \A w \in Page : pte'[p][v].frame = pte'[p][w].frame => v = w
    BY <1>1 DEF FramesInv
  <2>1. From(p) \in Alive BY <1>1
  <2>2. \A w \in Page : pte'[p][w].present /\ pte'[p][w].frame = pte[From(p)][w].frame
    BY <1>1
  <2> HIDE DEF From
  <2>3. ~ oom => /\ pte[From(p)][v].frame \in 1 .. taken
                 /\ \A w \in Page : pte[From(p)][v].frame = pte[From(p)][w].frame => v = w
    BY <2>1 DEF MemInv, FramesInv
  <2> QED BY <2>2, <2>3
<1>5. ASSUME ~ oom, NEW p \in Alive', NEW q \in Alive', p # q, Share(p, q)'
      PROVE  (p = current /\ q = child) \/ (p = child /\ q = current)
  <2>1. From(p) \in Alive /\ From(q) \in Alive BY <1>1
  <2>2. PICK v \in Page, w \in Page : pte'[p][v].frame = pte'[q][w].frame
    BY <1>5 DEF Share
  <2>3. pte[From(p)][v].frame = pte[From(q)][w].frame BY <2>2, <1>1
  <2>4. Share(From(p), From(q)) BY <2>3 DEF Share
  <2>5. From(p) = From(q)
    <3> HIDE DEF From
    <3> QED BY <2>1, <2>4, <1>1, <1>5, NoSharing
  <2> QED BY <2>5, <1>5
<1>6. SharingInv'
  <2> SUFFICES ASSUME ~ oom, NEW p \in Alive', NEW q \in Alive', p # q, Share(p, q)'
               PROVE  (p = current /\ q = Partner') \/ (p = Partner' /\ q = current)
    BY <1>1 DEF SharingInv
  <2> QED BY <1>1, <1>5
<1>7. SharedFramesReadOnly'
  <2> SUFFICES ASSUME ~ oom, NEW p \in Alive', NEW q \in Alive', NEW v \in Page, p # q,
                      Uses(q, pte[p][v].frame)'
               PROVE  ~ pte'[p][v].writable /\ pte'[p][v].cow
    BY <1>1 DEF SharedFramesReadOnly
  <2>1. Share(p, q)' BY DEF Share, Uses
  <2>2. p \in {current, child} BY <2>1, <1>5
  <2> QED BY <2>2, <1>1
<1> QED BY <1>2, <1>3, <1>4, <1>6, <1>7 DEF MemInv

\* The child gives up the frames it shared; the new program has fresh ones.
LEMMA ExecveFacts ==
  ASSUME IInv, MemInv, Execve
  PROVE  LET new == used + 1 IN
         /\ boot = "up" /\ boot' = "up" /\ at[current] = "forked"
         /\ current \in Alive /\ new \in Pcb /\ new \notin Alive
         /\ current' = new /\ at'[new] = "user" /\ Alive' = (Alive \ {current}) \cup {new}
         /\ LoadElf(new) /\ cr3' = new /\ tlb' = NoTable
<1> DEFINE new == used + 1
<1>0. TypeOK /\ StateInv BY DEF IInv, RingInv
<1>1. /\ boot = "up" /\ boot' = "up" /\ at[current] = "forked" /\ a[current] = 0
      /\ current' = new /\ at' = [at EXCEPT ![current] = "replaced", ![new] = "user"]
      /\ LoadElf(new) /\ cr3' = new /\ tlb' = NoTable
  BY DEF Execve, ExecveSyscall, LoadCR3
<1>2. current \in Alive /\ current \in Pcb BY <1>1, RunningIsAlive
<1>3. new \in Pcb
  <2>1. used < MaxPcb
    BY <1>1 DEF IInv, RingInv, CurrentInv, Idle, InProgram, AfterFork, InChild, KernelInv
  <2> QED BY <2>1, <1>0 DEF TypeOK, Pcb
<1>4. at[new] = "free"
  <2>1. new > used BY <1>0 DEF TypeOK
  <2> QED BY <2>1, <1>0, <1>3 DEF StateInv
<1> HIDE DEF new
<1>5. new # current /\ new \notin Alive BY <1>1, <1>4 DEF Alive
<1>6. at'[new] = "user" /\ at'[current] = "replaced"
      /\ \A p \in Pcb \ {current, new} : at'[p] = at[p]
  BY <1>0, <1>1, <1>2, <1>3, <1>5 DEF TypeOK
<1>7. Alive' = (Alive \ {current}) \cup {new}
  <2>1. \A p \in Pcb : p \in Alive' <=> p \in (Alive \ {current}) \cup {new}
    BY <1>3, <1>5, <1>6 DEF Alive
  <2> QED BY <2>1, <1>3 DEF Alive
<1> QED BY <1>1, <1>2, <1>3, <1>5, <1>6, <1>7 DEF new

LEMMA ExecveMemoryStep == IInv /\ MemInv /\ Execve => MemInv'
<1> SUFFICES ASSUME IInv, MemInv, Execve PROVE MemInv'
  OBVIOUS
<1> DEFINE new == used + 1
<1>1. /\ boot = "up" /\ boot' = "up" /\ at[current] = "forked"
      /\ current \in Alive /\ new \in Pcb /\ new \notin Alive
      /\ current' = new /\ at'[new] = "user" /\ Alive' = (Alive \ {current}) \cup {new}
      /\ LoadElf(new) /\ cr3' = new /\ tlb' = NoTable
  BY ExecveFacts
<1> HIDE DEF new
<1>t. MemoryTypeOK BY DEF MemInv
<1>2. /\ pte' \in [Pcb -> [Page -> Entry]] /\ content' \in [Frame -> Value]
      /\ taken' \in 0 .. NumFrames /\ taken <= taken'
      /\ oom' \in BOOLEAN /\ stores' = stores
      /\ \A q \in Pcb \ {new} : pte'[q] = pte[q]
      /\ \A v \in Page : pte'[new][v].present
      /\ ~ oom' => /\ ~ oom /\ taken' = taken + NumPages
                   /\ \A v \in Page : pte'[new][v].frame = taken + v
  BY <1>1, <1>t, LoadElfFacts
<1>3. \A q \in Alive \ {current} : q \in Pcb \ {new} /\ pte'[q] = pte[q]
  BY <1>1, <1>2 DEF Alive
<1>4. MemoryTypeOK' /\ TlbCoherent'
  BY <1>1, <1>2, <1>t, NoTableType, EmptyTlbCoherent DEF MemoryTypeOK
<1>5. LoadedInv' BY <1>1 DEF LoadedInv
<1>6. FramesInv'
  <2> SUFFICES ASSUME NEW p \in Alive', NEW v \in Page
               PROVE  /\ pte'[p][v].present
                      /\ ~ oom' => /\ pte'[p][v].frame \in 1 .. taken'
                                   /\ \A w \in Page : pte'[p][v].frame = pte'[p][w].frame => v = w
    BY DEF FramesInv
  <2>1. CASE p = new BY <2>1, <1>2, <1>t DEF MemoryTypeOK, Page
  <2>2. CASE p # new
    <3>1. p \in Alive \ {current} BY <2>2, <1>1
    <3>2. /\ pte[p][v].present
          /\ ~ oom => /\ pte[p][v].frame \in 1 .. taken
                      /\ \A w \in Page : pte[p][v].frame = pte[p][w].frame => v = w
      BY <3>1 DEF MemInv, FramesInv
    <3>3. pte'[p] = pte[p] BY <3>1, <1>3
    <3> QED BY <3>2, <3>3, <1>2, <1>t DEF MemoryTypeOK
  <2> QED BY <2>1, <2>2
<1>7. ASSUME ~ oom', NEW p \in Alive', NEW q \in Alive', p # q PROVE ~ Share(p, q)'
  <2>1. \A x \in Alive \ {current} : \A v \in Page : pte'[x][v].frame \in 1 .. taken
    BY <1>2, <1>3, <1>7 DEF MemInv, FramesInv
  <2>2. \A v \in Page : pte'[new][v].frame \in Nat /\ pte'[new][v].frame > taken
    BY <1>2, <1>7, <1>t DEF MemoryTypeOK, Page
  <2>3. CASE p # new /\ q # new
    <3>1. p \in Alive \ {current} /\ q \in Alive \ {current} BY <2>3, <1>1
    <3>2. ~ Share(p, q) BY <3>1, <1>1, <1>2, <1>7 DEF MemInv, SharingInv
    <3> QED BY <3>1, <3>2, <1>3 DEF Share
  <2>4. CASE p = new
    <3>1. q \in Alive \ {current} BY <2>4, <1>1, <1>7
    <3> QED BY <3>1, <2>1, <2>2, <2>4, <1>t DEF Share, MemoryTypeOK
  <2>5. CASE q = new
    <3>1. p \in Alive \ {current} BY <2>5, <1>1, <1>7
    <3> QED BY <3>1, <2>1, <2>2, <2>5, <1>t DEF Share, MemoryTypeOK
  <2> QED BY <2>3, <2>4, <2>5
<1>8. SharingInv' BY <1>7 DEF SharingInv
<1>9. SharedFramesReadOnly'
  <2>1. \A p, q \in Alive' : \A v \in Page : Uses(q, pte[p][v].frame)' => Share(p, q)'
    BY DEF Uses, Share
  <2> QED BY <2>1, <1>7 DEF SharedFramesReadOnly
<1> QED BY <1>4, <1>5, <1>6, <1>8, <1>9 DEF MemInv

\* Steps of the processor that change neither tables nor processes.
LEMMA TlbFillStep ==
  ASSUME IInv, MemInv, NEW v \in Page, TlbFill(v)
  PROVE  MemInv'
<1>1. /\ pte[cr3][v].present /\ tlb' = [tlb EXCEPT ![v] = pte[cr3][v]]
      /\ UNCHANGED <<vars, pte, content, cr3, taken, oom, stores>>
  BY DEF TlbFill
<1>2. Alive' = Alive BY <1>1 DEF vars, Alive
<1>3. FramesInv' /\ SharedFramesReadOnly' BY <1>1, <1>2, TablesKept
<1>4. MemoryTypeOK' BY <1>1 DEF MemInv, MemoryTypeOK
<1>5. TlbCoherent' BY <1>1 DEF MemInv, TlbCoherent, MemoryTypeOK
<1>6. LoadedInv' BY <1>1 DEF MemInv, LoadedInv, vars
<1>7. SharingInv'
  <2>1. Partner' = Partner BY <1>1 DEF Partner, Top, vars, pcbVars
  <2> QED BY <2>1, <1>1, <1>2 DEF MemInv, SharingInv, Share, vars
<1> QED BY <1>3, <1>4, <1>5, <1>6, <1>7 DEF MemInv

LEMMA WriteStep ==
  ASSUME IInv, MemInv, NEW f \in Frame, NEW x \in Value, WriteTo(f, x)
  PROVE  MemInv'
<1>1. /\ content' = [content EXCEPT ![f] = x] /\ stores' = 1 - stores
      /\ UNCHANGED <<vars, pte, tlb, cr3, taken, oom>>
  BY DEF WriteTo
<1>2. Alive' = Alive BY <1>1 DEF vars, Alive
<1>3. FramesInv' /\ SharedFramesReadOnly' BY <1>1, <1>2, TablesKept
<1>4. MemoryTypeOK' BY <1>1 DEF MemInv, MemoryTypeOK
<1>5. TlbCoherent' /\ LoadedInv' BY <1>1 DEF MemInv, TlbCoherent, LoadedInv, vars
<1>6. SharingInv'
  <2>1. Partner' = Partner BY <1>1 DEF Partner, Top, vars, pcbVars
  <2> QED BY <2>1, <1>1, <1>2 DEF MemInv, SharingInv, Share, vars
<1> QED BY <1>3, <1>4, <1>5, <1>6 DEF MemInv

\* What the write fault does to the running process's table.
LEMMA PageFaultFacts ==
  ASSUME IInv, MemInv, NEW v \in Page, PageFault(v)
  PROVE  /\ boot = "up" /\ current \in Alive /\ current \in Pcb
         /\ pte' \in [Pcb -> [Page -> Entry]] /\ content' \in [Frame -> Value]
         /\ taken' \in 0 .. NumFrames /\ taken <= taken' /\ oom' \in BOOLEAN
         /\ cr3' = current /\ tlb' = NoTable /\ UNCHANGED <<vars, stores>>
         /\ pte'[current][v] = Mapped(Fresh(1)) /\ pte'[current][v].present
         /\ pte'[current][v].frame = Fresh(1)
         /\ \A w \in Page \ {v} : pte'[current][w] = pte[current][w]
         /\ \A q \in Pcb \ {current} : pte'[q] = pte[q]
         /\ ~ oom' => /\ ~ oom /\ taken' = taken + 1 /\ Fresh(1) = taken + 1
                      /\ content'[taken + 1] = content[pte[current][v].frame]
                      /\ \A f \in 0 .. taken : content'[f] = content[f]
<1>t. /\ MemoryTypeOK /\ taken \in 0 .. NumFrames /\ pte \in [Pcb -> [Page -> Entry]]
      /\ content \in [Frame -> Value]
  BY DEF MemInv, MemoryTypeOK
<1>1. /\ boot = "up" /\ at[current] \in {"user", "forked"} /\ Translation(v).present
      /\ content' = [content EXCEPT
           ![Fresh(1)] = IF Translation(v).frame = Fresh(1) THEN 0
                         ELSE content[Translation(v).frame]]
      /\ pte' = [pte EXCEPT ![cr3][v] = Mapped(Fresh(1))]
      /\ Allocate(1) /\ cr3' = current /\ tlb' = NoTable /\ UNCHANGED <<vars, stores>>
  BY DEF PageFault, InUserMode, LoadCR3
<1>2. current \in Alive /\ current \in Pcb /\ cr3 = current BY <1>1, RunningIsAlive
<1>3. Translation(v) = pte[current][v] BY <1>1, <1>2, TranslationIsTable DEF MemInv
<1>4. Fresh(1) \in Frame BY <1>t DEF Fresh, Frame
<1>5. Mapped(Fresh(1)) \in Entry /\ Mapped(Fresh(1)).present /\ Mapped(Fresh(1)).frame = Fresh(1)
  BY <1>4 DEF Mapped, Entry
<1>6. pte' = [pte EXCEPT ![current] = [@ EXCEPT ![v] = Mapped(Fresh(1))]] BY <1>1, <1>2
<1>7. /\ pte' \in [Pcb -> [Page -> Entry]]
      /\ pte'[current] = [pte[current] EXCEPT ![v] = Mapped(Fresh(1))]
      /\ \A q \in Pcb \ {current} : pte'[q] = pte[q]
  <2>1. pte[current] \in [Page -> Entry] BY <1>2, <1>t
  <2>2. [pte[current] EXCEPT ![v] = Mapped(Fresh(1))] \in [Page -> Entry] BY <2>1, <1>5
  <2> QED BY <2>2, <1>2, <1>6, <1>t
<1>8. /\ pte'[current][v] = Mapped(Fresh(1))
      /\ \A w \in Page \ {v} : pte'[current][w] = pte[current][w]
  <2>1. pte[current] \in [Page -> Entry] BY <1>2, <1>t
  <2> QED BY <2>1, <1>7
<1>9. pte[current][v].frame \in Frame
  <2>1. pte[current][v] \in Entry BY <1>2, <1>t
  <2> QED BY <2>1 DEF Entry
<1>10. content' \in [Frame -> Value] BY <1>1, <1>3, <1>4, <1>9, <1>t
<1>11. /\ taken' \in 0 .. NumFrames /\ taken <= taken' /\ oom' \in BOOLEAN
       /\ ~ oom' => ~ oom /\ taken' = taken + 1 /\ taken + 1 <= NumFrames
  <2>1. oom' \in BOOLEAN /\ (~ oom' => ~ oom /\ ~ (taken + 1 > NumFrames))
    BY <1>1, Zenon DEF Allocate
  <2>2. taken' = IF taken + 1 <= NumFrames THEN taken + 1 ELSE NumFrames
    BY <1>1 DEF Allocate
  <2> QED BY <2>1, <2>2, <1>t
<1>12. ASSUME ~ oom'
       PROVE  /\ Fresh(1) = taken + 1
              /\ content'[taken + 1] = content[pte[current][v].frame]
              /\ \A f \in 0 .. taken : content'[f] = content[f]
  <2>1. Fresh(1) = taken + 1 BY <1>11, <1>12 DEF Fresh
  <2>2. pte[current][v].frame \in 1 .. taken BY <1>2, <1>11, <1>12 DEF MemInv, FramesInv
  <2>3. pte[current][v].frame # taken + 1 BY <2>2, <1>t
  <2> QED BY <2>1, <2>3, <1>1, <1>3, <1>4, <1>t DEF Frame
<1> QED BY <1>1, <1>2, <1>5, <1>7, <1>8, <1>10, <1>11, <1>12

LEMMA PageFaultStep ==
  ASSUME IInv, MemInv, NEW v \in Page, PageFault(v)
  PROVE  MemInv'
<1>t. MemoryTypeOK /\ taken \in Nat BY DEF MemInv, MemoryTypeOK
<1>1. /\ boot = "up" /\ current \in Alive /\ current \in Pcb
      /\ pte' \in [Pcb -> [Page -> Entry]] /\ content' \in [Frame -> Value]
      /\ taken' \in 0 .. NumFrames /\ taken <= taken' /\ oom' \in BOOLEAN
      /\ cr3' = current /\ tlb' = NoTable /\ UNCHANGED <<vars, stores>>
      /\ pte'[current][v].present /\ pte'[current][v].frame = Fresh(1)
      /\ \A w \in Page \ {v} : pte'[current][w] = pte[current][w]
      /\ \A q \in Pcb \ {current} : pte'[q] = pte[q]
      /\ ~ oom' => ~ oom /\ taken' = taken + 1 /\ Fresh(1) = taken + 1
  BY PageFaultFacts
<1>2. Alive' = Alive /\ Alive \subseteq Pcb BY <1>1 DEF vars, Alive
<1>3. MemoryTypeOK' /\ TlbCoherent'
  BY <1>1, <1>t, NoTableType, EmptyTlbCoherent DEF MemoryTypeOK
<1>4. LoadedInv' BY <1>1 DEF LoadedInv, vars
<1>5. \A p \in Alive : \A w \in Page :
        p # current \/ w # v => pte'[p][w] = pte[p][w]
  BY <1>1, <1>2
<1>6. FramesInv'
  <2> SUFFICES ASSUME NEW p \in Alive, NEW w \in Page
               PROVE  /\ pte'[p][w].present
                      /\ ~ oom' => /\ pte'[p][w].frame \in 1 .. taken'
                                   /\ \A u \in Page : pte'[p][w].frame = pte'[p][u].frame => w = u
    BY <1>2 DEF FramesInv
  <2>1. \A u \in Page :
          /\ pte[p][u].present
          /\ ~ oom => /\ pte[p][u].frame \in 1 .. taken
                      /\ \A y \in Page : pte[p][u].frame = pte[p][y].frame => u = y
    BY DEF MemInv, FramesInv
  <2>2. CASE p # current BY <2>1, <2>2, <1>1, <1>5, <1>t
  <2>3. CASE p = current
    <3>1. pte'[p][w].present BY <2>1, <2>3, <1>1
    <3>2. ASSUME ~ oom'
          PROVE  /\ pte'[p][w].frame \in 1 .. taken'
                 /\ \A u \in Page : pte'[p][w].frame = pte'[p][u].frame => w = u
      <4>1. pte'[p][v].frame = taken + 1 /\ taken' = taken + 1 /\ ~ oom
        BY <2>3, <3>2, <1>1
      <4>2. \A u \in Page \ {v} : pte'[p][u].frame = pte[p][u].frame BY <2>3, <1>1
      <4> QED BY <2>1, <4>1, <4>2, <1>t
    <3> QED BY <3>1, <3>2
  <2> QED BY <2>2, <2>3
<1>7. ASSUME ~ oom', NEW p \in Alive, NEW q \in Alive, p # q,
             NEW w \in Page, NEW u \in Page, pte'[p][w].frame = pte'[q][u].frame
      PROVE  pte'[p][w] = pte[p][w] /\ pte'[q][u] = pte[q][u]
  <2>1. \A x \in Alive : \A y \in Page : pte[x][y].frame \in 1 .. taken
    BY <1>1, <1>7 DEF MemInv, FramesInv
  <2>2. pte'[current][v].frame = taken + 1 BY <1>1, <1>7
  <2>3. CASE p = current /\ w = v
    <3>1. pte'[q] = pte[q] BY <2>3, <1>1, <1>2, <1>7
    <3> QED BY <2>1, <2>2, <2>3, <3>1, <1>7, <1>t
  <2>4. CASE q = current /\ u = v
    <3>1. pte'[p] = pte[p] BY <2>4, <1>1, <1>2, <1>7
    <3> QED BY <2>1, <2>2, <2>4, <3>1, <1>7, <1>t
  <2> QED BY <2>3, <2>4, <1>5
<1>8. SharingInv'
  <2>1. Partner' = Partner BY <1>1 DEF Partner, Top, vars, pcbVars
  <2>2. \A p, q \in Alive : ~ oom' /\ p # q /\ Share(p, q)' => Share(p, q)
    BY <1>7 DEF Share
  <2> QED BY <2>1, <2>2, <1>1, <1>2 DEF MemInv, SharingInv, vars
<1>9. SharedFramesReadOnly'
  <2> SUFFICES ASSUME ~ oom', NEW p \in Alive, NEW q \in Alive, NEW w \in Page, p # q,
                      pte'[p][w].present, Uses(q, pte[p][w].frame)'
               PROVE  ~ pte'[p][w].writable /\ pte'[p][w].cow
    BY <1>2 DEF SharedFramesReadOnly
  <2>1. PICK u \in Page : pte'[q][u].present /\ pte'[q][u].frame = pte'[p][w].frame
    BY DEF Uses
  <2>2. pte'[p][w] = pte[p][w] /\ pte'[q][u] = pte[q][u] BY <2>1, <1>7
  <2>3. Uses(q, pte[p][w].frame) BY <2>1, <2>2 DEF Uses
  <2> QED BY <2>2, <2>3, <1>1 DEF MemInv, SharedFramesReadOnly
<1> QED BY <1>3, <1>4, <1>6, <1>8, <1>9 DEF MemInv

LEMMA MemoryStutter == MemInv /\ UNCHANGED allVars => MemInv'
<1> SUFFICES ASSUME MemInv, UNCHANGED allVars PROVE MemInv'
  OBVIOUS
<1>1. UNCHANGED memoryVars /\ UNCHANGED vars BY DEF allVars
<1>2. Alive' = Alive /\ Partner' = Partner
  BY <1>1 DEF Alive, Partner, Top, vars, pcbVars
<1>3. FramesInv' /\ SharedFramesReadOnly' BY <1>1, <1>2, TablesKept DEF memoryVars
<1>4. MemoryTypeOK' /\ TlbCoherent' /\ LoadedInv'
  BY <1>1 DEF MemInv, MemoryTypeOK, TlbCoherent, LoadedInv, memoryVars, vars
<1>5. SharingInv' BY <1>1, <1>2 DEF MemInv, SharingInv, Share, memoryVars, vars
<1> QED BY <1>3, <1>4, <1>5 DEF MemInv

\* A store goes to the frame the loaded table has for its page.
LEMMA WriteFacts ==
  ASSUME IInv, MemInv, NEW v \in Page, NEW x \in Value, UserWrite(v, x) \/ KernelWrite(v, x)
  PROVE  /\ boot = "up" /\ current \in Alive /\ current \in Pcb
         /\ pte[current][v].frame \in Frame /\ WriteTo(pte[current][v].frame, x)
         /\ pte[current][v].present
         /\ at[current] = "user" \/ pte[current][v].writable
<1>1. /\ boot = "up" /\ at[current] \in {"user", "forked"} /\ Translation(v).present
      /\ WriteTo(Translation(v).frame, x)
      /\ at[current] = "user" \/ Translation(v).writable
  BY DEF UserWrite, KernelWrite, InUserMode
<1>2. current \in Alive /\ current \in Pcb /\ cr3 = current BY <1>1, RunningIsAlive
<1>3. Translation(v) = pte[current][v] BY <1>1, <1>2, TranslationIsTable DEF MemInv
<1>4. pte[current][v] \in Entry BY <1>2 DEF MemInv, MemoryTypeOK
<1> QED BY <1>1, <1>2, <1>3, <1>4 DEF Entry

LEMMA MemoryInvariantHolds == MemorySpec => []MemInv
<1>1. IInv /\ MemInv /\ [MemoryNext]_allVars => MemInv'
  <2> SUFFICES ASSUME IInv, MemInv, [MemoryNext]_allVars PROVE MemInv'
    OBVIOUS
  <2>1. CASE BootKernel \/ BootShell \/ EnterShell \/ Fork \/ Execve \/ Switch
    BY <2>1, BootKernelStep, BootShellStep, EnterShellStep, ForkMemoryStep, ExecveMemoryStep,
       SwitchStep
  <2>2. CASE \E v \in Page : TlbFill(v) \/ PageFault(v)
    BY <2>2, TlbFillStep, PageFaultStep
  <2>3. CASE \E v \in Page : \E x \in Value : UserWrite(v, x) \/ KernelWrite(v, x)
    BY <2>3, WriteFacts, WriteStep
  <2>4. CASE UNCHANGED allVars BY <2>4, MemoryStutter
  <2> QED BY <2>1, <2>2, <2>3, <2>4 DEF MemoryNext
<1> QED BY <1>1, MemoryInitEstablishes, MemoryRing, PTL DEF MemorySpec
------------------------------------------------------------------------------
\* loadCR3 after each change of the loaded table, and at each switch, is enough:
\* the processor never uses an entry the kernel has replaced.
THEOREM NoStaleTranslation == MemorySpec => []TlbCoherent
<1>1. MemInv => TlbCoherent BY DEF MemInv
<1> QED BY <1>1, MemoryInvariantHolds, PTL

\* fork leaves no writable way to a frame that another process can see, and the
\* write fault makes none.
THEOREM SharedIsReadOnly == MemorySpec => []SharedFramesReadOnly
<1>1. MemInv => SharedFramesReadOnly BY DEF MemInv
<1> QED BY <1>1, MemoryInvariantHolds, PTL

\* read and the keyboard input may ignore the read-only bit: no process that can
\* call them shares a frame, because its children have called execve or ended.
THEOREM KernelWritesArePrivate == MemorySpec => []CopyOutIsPrivate
<1>1. IInv /\ MemInv => CopyOutIsPrivate
  <2> SUFFICES ASSUME IInv, MemInv, ~ oom, boot = "up", at[current] = "user",
                      NEW q \in Alive \ {current}, NEW v \in Page
               PROVE  ~ Uses(q, pte[current][v].frame)
    BY DEF CopyOutIsPrivate
  <2>1. current \in Alive BY RunningIsAlive
  <2>2. ~ Share(current, q) BY <2>1, NoSharing
  <2> QED BY <2>2 DEF Share, Uses
<1> QED BY <1>1, MemoryInvariantHolds, MemoryRing, PTL
------------------------------------------------------------------------------
\* The memories the programs see, as PrivateMemory has them.
Memories == [p \in Pcb |-> Memory(p)]

\* A live process has a memory, if only of one page.
LEMMA MemoryIsThere ==
  ASSUME NEW p \in Pcb
  PROVE  /\ p \in Alive => Memory(p) = [v \in Page |-> content[pte[p][v].frame]]
         /\ p \in Alive <=> Memory(p) # <<>>
<1>1. CASE p \in Alive
  <2>1. Memory(p) = [v \in Page |-> content[pte[p][v].frame]] BY <1>1 DEF Memory
  <2>2. 1 \in DOMAIN Memory(p) BY <2>1 DEF Page
  <2>3. DOMAIN <<>> = {} OBVIOUS
  <2> QED BY <1>1, <2>1, <2>2, <2>3
<1>2. CASE p \notin Alive BY <1>2 DEF Memory
<1> QED BY <1>1, <1>2

LEMMA MemoryType == MemoryTypeOK => \A p \in Alive : Memory(p) \in [Page -> Value]
<1> SUFFICES ASSUME MemoryTypeOK, NEW p \in Alive PROVE Memory(p) \in [Page -> Value]
  OBVIOUS
<1>1. pte[p] \in [Page -> Entry] /\ content \in [Frame -> Value]
  BY DEF Alive, MemoryTypeOK
<1>2. \A v \in Page : pte[p][v].frame \in Frame
  <2>1. \A v \in Page : pte[p][v] \in Entry BY <1>1
  <2> QED BY <2>1 DEF Entry
<1> QED BY <1>1, <1>2 DEF Memory

\* A process that lives on and whose pages read as before.
LEMMA MemoryKept ==
  ASSUME NEW p, p \in Alive <=> p \in Alive',
         p \in Alive => \A v \in Page : content'[pte'[p][v].frame] = content[pte[p][v].frame]
  PROVE  Memory(p)' = Memory(p)
<1>1. CASE p \in Alive
  <2>1. [v \in Page |-> content'[pte'[p][v].frame]] = [v \in Page |-> content[pte[p][v].frame]]
    BY <1>1
  <2> QED BY <1>1, <2>1 DEF Memory
<1>2. CASE p \notin Alive BY <1>2 DEF Memory
<1> QED BY <1>1, <1>2

\* The steps that PrivateMemory does not see.
LEMMA QuietStep ==
  ASSUME Alive' = Alive, UNCHANGED <<oom, stores>>,
         \A p \in Alive : \A v \in Page : content'[pte'[p][v].frame] = content[pte[p][v].frame]
  PROVE  Private!PrivNext
<1>1. \A p \in Pcb : Memory(p)' = Memory(p) BY MemoryKept
<1>2. UNCHANGED Memories BY <1>1 DEF Memories
<1> QED BY <1>2 DEF Private!PrivNext, Private!Run, Memories

\* The shell's first memory is whatever loadElf put there.
LEMMA BootShellLoads == IInv /\ MemInv /\ BootShell /\ ~ oom' => Private!PrivNext
<1> SUFFICES ASSUME IInv, MemInv, BootShell, ~ oom' PROVE Private!PrivNext
  OBVIOUS
<1>c. Shell \in Pcb BY DEF Shell, Pcb
<1>1. MemInv' /\ Alive = {} /\ Alive' = {Shell} /\ LoadElf(Shell) BY BootShellStep
<1>2. ~ oom /\ oom \in BOOLEAN /\ oom' \in BOOLEAN /\ stores' = stores
  BY <1>1, <1>c, LoadElfFacts DEF MemInv, MemoryTypeOK
<1>3. Memory(Shell)' \in [Page -> Value] 
  <2>1. MemoryTypeOK' /\ Shell \in Alive' BY <1>1 DEF MemInv
  <2>2. (MemoryTypeOK => \A p \in Alive : Memory(p) \in [Page -> Value])' BY MemoryType, PTL
  <2> QED BY <2>1, <2>2
<1>4. Memories' = [Memories EXCEPT ![Shell] = Memory(Shell)'] /\ Memories[Shell] = <<>>
  BY <1>1, <1>c DEF Memories, Memory
<1>5. Private!Load(Shell) BY <1>3, <1>4 DEF Private!Load, Memories
<1>6. oom' = oom BY <1>2
<1> QED BY <1>2, <1>5, <1>6, <1>c DEF Private!PrivNext

\* The child's memory is the parent's, though no page was copied.
LEMMA ForkCopies == IInv /\ MemInv /\ Fork => Private!PrivNext
<1> SUFFICES ASSUME IInv, MemInv, Fork PROVE Private!PrivNext
  OBVIOUS
<1>0. used + 1 \in Pcb BY ForkFacts
<1>c. PICK child \in Pcb : child = used + 1 BY <1>0
<1> DEFINE From(p) == IF p = child THEN current ELSE p
<1>1. /\ current \in Alive /\ child \in Pcb /\ child \notin Alive /\ Alive' = Alive \cup {child}
      /\ UNCHANGED <<content, oom, stores>>
      /\ \A p \in Alive' : \A v \in Page : pte'[p][v].frame = pte[From(p)][v].frame
  BY <1>c, ForkFacts
<1>2. current \in Pcb BY <1>1 DEF Alive
<1>3. \A p \in Pcb \ {child} : Memory(p)' = Memory(p) BY <1>1, MemoryKept
<1>4. Memory(child)' = Memory(current)
  <2>1. [v \in Page |-> content'[pte'[child][v].frame]]
          = [v \in Page |-> content[pte[current][v].frame]]
    BY <1>1
  <2> QED BY <1>1, <2>1 DEF Memory
<1>5. Memory(current) # <<>> /\ Memory(child) = <<>> BY <1>1, <1>2, MemoryIsThere
<1>6. /\ Memories' = [Memories EXCEPT ![child] = Memories[current]]
      /\ Memories[current] # <<>> /\ Memories[child] = <<>>
  BY <1>2, <1>3, <1>4, <1>5 DEF Memories
<1>7. Private!Copy(current, child) BY <1>6 DEF Private!Copy, Memories
<1> QED BY <1>1, <1>2, <1>7 DEF Private!PrivNext

\* execve: the old memory is gone, and the new frames were nobody's.
LEMMA ExecveReplaces == IInv /\ MemInv /\ Execve /\ ~ oom' => Private!PrivNext
<1> SUFFICES ASSUME IInv, MemInv, Execve, ~ oom' PROVE Private!PrivNext
  OBVIOUS
<1>0. used + 1 \in Pcb /\ current \in Alive BY ExecveFacts
<1>n. PICK new \in Pcb : new = used + 1 BY <1>0
<1>m. PICK old \in Pcb : old = current BY <1>0 DEF Alive
<1>1. /\ old \in Alive /\ new \in Pcb /\ new \notin Alive
      /\ Alive' = (Alive \ {old}) \cup {new} /\ LoadElf(new)
  BY <1>n, <1>m, ExecveFacts
<1>t. MemoryTypeOK /\ MemoryTypeOK' BY ExecveMemoryStep DEF MemInv
<1>c. old \in Pcb /\ old # new /\ old \notin Alive' BY <1>1 DEF Alive
<1>2. /\ \A q \in Pcb \ {new} : pte'[q] = pte[q]
      /\ ~ oom /\ stores' = stores /\ \A f \in 0 .. taken : content'[f] = content[f]
  BY <1>1, <1>t, LoadElfFacts
<1>3. ASSUME NEW p \in Pcb \ {old, new} PROVE Memory(p)' = Memory(p)
  <2>1. p \in Alive <=> p \in Alive' BY <1>1
  <2>2. ASSUME p \in Alive, NEW v \in Page
        PROVE  content'[pte'[p][v].frame] = content[pte[p][v].frame]
    <3>1. pte[p][v].frame \in 1 .. taken BY <2>2, <1>2 DEF MemInv, FramesInv
    <3>2. pte[p][v].frame \in 0 .. taken BY <3>1
    <3> QED BY <3>2, <1>2
  <2> QED BY <2>1, <2>2, MemoryKept
<1>4. Memory(new)' \in [Page -> Value]
  <2>1. (MemoryTypeOK => \A p \in Alive : Memory(p) \in [Page -> Value])' BY MemoryType, PTL
  <2> QED BY <2>1, <1>1, <1>t
<1>5. Memory(new) = <<>> /\ Memory(old)' = <<>> BY <1>1, <1>c DEF Memory
<1>6. /\ Memories' = [Memories EXCEPT ![old] = <<>>, ![new] = Memory(new)']
      /\ Memories[new] = <<>>
  BY <1>1, <1>c, <1>3, <1>5 DEF Memories
<1>7. Private!Replace(old, new) BY <1>4, <1>6 DEF Private!Replace, Memories
<1>8. oom' = oom BY <1>2, <1>t DEF MemoryTypeOK
<1> QED BY <1>1, <1>2, <1>7, <1>8, <1>c DEF Private!PrivNext

\* A switch changes no memory; exit drops the caller's.
LEMMA SwitchDropsOrRuns == IInv /\ MemInv /\ Switch => Private!PrivNext
<1> SUFFICES ASSUME IInv, MemInv, Switch PROVE Private!PrivNext
  OBVIOUS
<1>1. /\ WaitpidSyscall \/ ExitSyscall \/ YieldSyscall \/ Schedule
      /\ UNCHANGED <<pte, content, oom, stores>>
  BY DEF Switch, SwitchTable
<1>2. current \in Pcb /\ (Alive' = Alive \/ Alive' = Alive \ {current})
  BY <1>1, AliveAfterSwitch
<1>m. PICK old \in Pcb : old = current BY <1>2
<1>3. CASE Alive' = Alive BY <1>1, <1>3, QuietStep
<1>4. CASE Alive' = Alive \ {current}
  <2>1. \A p \in Pcb \ {old} : Memory(p)' = Memory(p) BY <1>1, <1>4, <1>m, MemoryKept
  <2>2. Memory(old)' = <<>> BY <1>4, <1>m DEF Memory
  <2>3. Memories' = [Memories EXCEPT ![old] = <<>>] BY <2>1, <2>2 DEF Memories
  <2>4. Private!Drop(old) BY <2>3 DEF Private!Drop, Memories
  <2> QED BY <2>4, <1>1 DEF Private!PrivNext
<1> QED BY <1>2, <1>3, <1>4

\* The copy reads like the page it replaces, and no other page is touched.
LEMMA PageFaultIsQuiet ==
  ASSUME IInv, MemInv, NEW v \in Page, PageFault(v), ~ oom'
  PROVE  Private!PrivNext
<1>1. /\ current \in Alive /\ UNCHANGED <<vars, stores>> /\ oom' \in BOOLEAN
      /\ pte'[current][v].frame = taken + 1
      /\ \A w \in Page \ {v} : pte'[current][w] = pte[current][w]
      /\ \A q \in Pcb \ {current} : pte'[q] = pte[q]
      /\ ~ oom /\ content'[taken + 1] = content[pte[current][v].frame]
      /\ \A f \in 0 .. taken : content'[f] = content[f]
  BY PageFaultFacts
<1>2. Alive' = Alive /\ Alive \subseteq Pcb BY <1>1 DEF vars, Alive
<1>3. ASSUME NEW p \in Alive, NEW w \in Page
      PROVE  content'[pte'[p][w].frame] = content[pte[p][w].frame]
  <2>1. pte[p][w].frame \in 1 .. taken BY <1>1 DEF MemInv, FramesInv
  <2>2. pte[p][w].frame \in 0 .. taken BY <2>1
  <2>3. CASE p = current /\ w = v BY <2>3, <1>1
  <2>4. CASE ~ (p = current /\ w = v)
    <3>1. pte'[p][w] = pte[p][w] BY <2>4, <1>1, <1>2
    <3> QED BY <2>2, <3>1, <1>1
  <2> QED BY <2>3, <2>4
<1>4. oom' = oom BY <1>1 DEF MemInv, MemoryTypeOK
<1> QED BY <1>1, <1>2, <1>3, <1>4, QuietStep

\* A store reaches the page it names and no other, of no process.
LEMMA WriteStores ==
  ASSUME IInv, MemInv, ~ oom, NEW v \in Page, NEW x \in Value,
         UserWrite(v, x) \/ KernelWrite(v, x)
  PROVE  Private!PrivNext
<1>1. /\ boot = "up" /\ current \in Alive /\ current \in Pcb
      /\ pte[current][v].frame \in Frame /\ WriteTo(pte[current][v].frame, x)
      /\ pte[current][v].present
      /\ at[current] = "user" \/ pte[current][v].writable
  BY WriteFacts
<1>m. PICK me \in Pcb : me = current BY <1>1
<1>2. PICK f \in Frame : f = pte[current][v].frame BY <1>1
<1>3. /\ content' = [content EXCEPT ![f] = x] /\ stores' = 1 - stores
      /\ UNCHANGED <<vars, pte, oom>>
  BY <1>1, <1>2 DEF WriteTo
<1>t. content \in [Frame -> Value] /\ pte \in [Pcb -> [Page -> Entry]]
  BY DEF MemInv, MemoryTypeOK
<1>4. Alive' = Alive /\ Alive \subseteq Pcb /\ current' = current BY <1>3 DEF vars, Alive
<1>5. ASSUME NEW p \in Alive, NEW w \in Page, pte[p][w].frame = f
      PROVE  p = current /\ w = v
  <2>1. p = current
    <3> SUFFICES ASSUME p # current PROVE FALSE
      OBVIOUS
    <3>1. Share(current, p) /\ Uses(p, pte[current][v].frame)
      BY <1>2, <1>5 DEF Share, Uses, MemInv, FramesInv
    <3>2. CASE at[current] = "user" BY <3>1, <3>2, <1>1, NoSharing
    <3>3. CASE pte[current][v].writable
      BY <3>1, <3>3, <1>1 DEF MemInv, SharedFramesReadOnly
    <3> QED BY <3>2, <3>3, <1>1
  <2> QED BY <2>1, <1>1, <1>2, <1>5 DEF MemInv, FramesInv
<1>6. ASSUME NEW p \in Alive, NEW w \in Page
      PROVE  content'[pte'[p][w].frame]
               = IF p = current /\ w = v THEN x ELSE content[pte[p][w].frame]
  <2>1. pte[p][w].frame \in Frame
    <3>1. pte[p][w] \in Entry BY <1>4, <1>t
    <3> QED BY <3>1 DEF Entry
  <2>2. CASE p = current /\ w = v BY <2>2, <1>2, <1>3, <1>t
  <2>3. CASE ~ (p = current /\ w = v)
    <3>1. pte[p][w].frame # f BY <2>3, <1>5
    <3> QED BY <2>1, <2>3, <3>1, <1>3, <1>t
  <2> QED BY <2>2, <2>3
<1>7. \A p \in Pcb \ {me} : Memory(p)' = Memory(p) BY <1>4, <1>6, <1>m, MemoryKept
<1>8. Memory(me)' = [Memory(me) EXCEPT ![v] = x]
  <2>1. Memory(me) = [w \in Page |-> content[pte[me][w].frame]]
    BY <1>1, <1>m, MemoryIsThere
  <2>2. Memory(me)' = [w \in Page |-> content'[pte'[me][w].frame]]
    BY <1>1, <1>4, <1>m DEF Memory
  <2>3. [w \in Page |-> content'[pte'[me][w].frame]]
          = [[w \in Page |-> content[pte[me][w].frame]] EXCEPT ![v] = x]
    BY <1>1, <1>6, <1>m
  <2> QED BY <2>1, <2>2, <2>3
<1>9. /\ Memories' = [Memories EXCEPT ![me] = [Memories[me] EXCEPT ![v] = x]]
      /\ Memories[me] # <<>>
  BY <1>1, <1>m, <1>7, <1>8, MemoryIsThere DEF Memories
<1>10. Private!Store(v, x) BY <1>1, <1>m, <1>3, <1>4, <1>9 DEF Private!Store, Memories
<1> QED BY <1>3, <1>10 DEF Private!PrivNext

\* Page tables, shared frames, the write fault and the processor's cache give
\* each process a memory of its own: a copy of its parent's or a program's to
\* begin with, changed by its own stores only, until an allocation fails.
THEOREM MemoryIsPrivate == MemorySpec => PrivateMemoryRefinement
<1>1. MemoryInit => Private!PrivInit
  <2> SUFFICES ASSUME MemoryInit PROVE Private!PrivInit
    OBVIOUS
  <2>1. Alive = {} BY DEF MemoryInit, Init, Alive
  <2>2. Memories = [p \in Pcb |-> <<>>] BY <2>1 DEF Memories, Memory
  <2> QED BY <2>2 DEF Private!PrivInit, MemoryInit, Memories
<1>2. IInv /\ MemInv /\ [MemoryNext]_allVars => [Private!PrivNext]_(Private!memVars)
  <2> SUFFICES ASSUME IInv, MemInv, [MemoryNext]_allVars
               PROVE  Private!PrivNext \/ UNCHANGED Private!memVars
    OBVIOUS
  <2>0. CASE oom' BY <2>0 DEF Private!PrivNext
  <2>1. CASE ~ oom' /\ (BootKernel \/ EnterShell)
    <3>1. Alive' = Alive BY <2>1, BootKernelStep, EnterShellStep
    <3>2. UNCHANGED <<pte, content, oom, stores>>
      BY <2>1 DEF BootKernel, EnterShell, SwitchTable, memoryVars
    <3> QED BY <3>1, <3>2, QuietStep
  <2>2. CASE ~ oom' /\ (BootShell \/ Fork \/ Execve \/ Switch)
    BY <2>2, BootShellLoads, ForkCopies, ExecveReplaces, SwitchDropsOrRuns
  <2>3. CASE \E v \in Page : TlbFill(v)
    <3>1. UNCHANGED <<vars, pte, content, oom, stores>> BY <2>3 DEF TlbFill
    <3>2. Alive' = Alive BY <3>1 DEF vars, Alive
    <3> QED BY <3>1, <3>2, QuietStep
  <2>4. CASE ~ oom' /\ \E v \in Page : PageFault(v) BY <2>4, PageFaultIsQuiet
  <2>5. CASE ~ oom' /\ \E v \in Page : \E x \in Value : UserWrite(v, x) \/ KernelWrite(v, x)
    <3>1. PICK v \in Page, x \in Value : UserWrite(v, x) \/ KernelWrite(v, x) BY <2>5
    <3>2. oom' = oom BY <3>1 DEF UserWrite, KernelWrite, WriteTo
    <3> QED BY <2>5, <3>1, <3>2, WriteStores
  <2>6. CASE UNCHANGED allVars
    <3>1. UNCHANGED <<vars, pte, content, oom, stores>> BY <2>6 DEF allVars, memoryVars
    <3>2. Alive' = Alive BY <3>1 DEF vars, Alive
    <3> QED BY <3>1, <3>2, QuietStep
  <2> QED BY <2>0, <2>1, <2>2, <2>3, <2>4, <2>5, <2>6 DEF MemoryNext
<1> QED
  BY <1>1, <1>2, MemoryInvariantHolds, MemoryRing, PTL
  DEF MemorySpec, PrivateMemoryRefinement, Private!PrivSpec
==============================================================================
