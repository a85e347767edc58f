-------------------------- MODULE ProcessRingProofs --------------------------
(***************************************************************************)
(* Proofs about the process ring, for every number of PCBs, of process ids *)
(* and of nested programs.                                                 *)
(*                                                                         *)
(* The inductive invariant describes the ring in each of the four          *)
(* situations the kernel can be in: the kernel process idles, a program is *)
(* in its own code, a parent has forked and not yet called waitpid, and a  *)
(* child runs the parent's code and has not yet called execve.             *)
(***************************************************************************)
EXTENDS ProcessRing, TLAPS, WellFoundedInduction

USE SizeAssumption

Top == callers[Len(callers)]
Waiting == {callers[k] : k \in 1 .. Len(callers)}
Active == {p \in Pcb : at[p] \notin {"free", "replaced", "exited"}}

\* Before user mode, state by state.
BootInv ==
  /\ boot = "kernProcess" =>
       /\ \A p \in Pcb : next[p] = NULL /\ at[p] = "free"
       /\ \A n \in 0 .. MaxProcesses - 1 : pID[n] = 0
       /\ used = 0 /\ current = NULL
  /\ boot = "userInitProcess" =>
       /\ next[Kernel] = Kernel /\ at[Kernel] = "init_func"
       /\ \A p \in Pcb \ {Kernel} : next[p] = NULL /\ at[p] = "free"
       /\ pID[0] = 1 /\ \A n \in 1 .. MaxProcesses - 1 : pID[n] = 0
       /\ used = Kernel /\ current = Kernel /\ first = Kernel /\ pid[Kernel] = 0
  /\ boot = "switchToRing3" =>
       /\ next[Kernel] = Shell /\ at[Kernel] = "init_func"
       /\ next[Shell] = Kernel /\ at[Shell] = "user"
       /\ \A p \in Pcb \ {Kernel, Shell} : next[p] = NULL /\ at[p] = "free"
       /\ pID[0] = 1 /\ used = Shell /\ current = Kernel /\ first = Kernel
  /\ boot # "up" => zombie = NULL /\ callers = <<>>

\* Ids of the processes that can still run are taken and differ.
PidInv ==
  /\ \A p \in Active : pid[p] # NoPid => pID[pid[p]] = 1
  /\ \A p, q \in Active : p # q /\ pid[p] = pid[q] => pid[p] = NoPid

StateInv ==
  /\ \A p \in Pcb : process_state[p] = "Zombie" <=> at[p] = "exited"
  /\ \A p \in Pcb : p > used => at[p] = "free"
  /\ zombie # NULL => at[zombie] = "exited"

\* The kernel process points at the shell, for execveSyscall to find it.
KernelInv ==
  boot = "up" => /\ used >= Shell /\ first = Kernel /\ next[Kernel] = Shell
                 /\ at[Kernel] = "init_func" /\ pID[0] = 1
                 /\ current \in Pcb

\* callers lists the programs in waitpid, each the parent of the one above it.
CallersInv ==
  boot = "up" =>
    /\ \A p \in Pcb : at[p] = "waitpid" <=> p \in Waiting
    /\ \A j, k \in 1 .. Len(callers) : callers[j] = callers[k] => j = k
    /\ callers # <<>> => callers[1] = Shell
    /\ \A k \in 2 .. Len(callers) : next[callers[k]] = callers[k - 1]
    /\ \A k \in 1 .. Len(callers) - 1 :
         /\ pid[callers[k + 1]] = wait_on_childpid[callers[k]]
         /\ ppid[callers[k + 1]] = pid[callers[k]]

\* The running process is the child the innermost caller waits for.
CalleeInv ==
  boot = "up" /\ callers # <<>> =>
    pid[current] = wait_on_childpid[Top] /\ ppid[current] = pid[Top]

Idle == /\ current = Kernel /\ callers = <<>>
        /\ at[Shell] = "yield" /\ next[Shell] = Kernel

\* The running program's successor, p standing where the program's link is.
Outside(p) ==
  IF callers = <<>> THEN current = Shell /\ next[p] \in {Kernel, Shell}
                    ELSE next[p] = Top /\ next[Shell] = current
                         /\ current \notin {Kernel, Shell}

InProgram == at[current] = "user" /\ Outside(current)

AfterFork ==
  LET c == next[current] IN
  /\ at[current] = "forked" /\ a[current] # 0
  /\ c \in Pcb /\ at[c] = "unborn" /\ a[c] = 0 /\ c \notin {Kernel, Shell}
  /\ pid[c] = a[current] /\ ppid[c] = pid[current]
  /\ Outside(c) /\ used < MaxPcb

InChild == /\ at[current] = "forked" /\ a[current] = 0
           /\ callers # <<>> /\ next[current] = Top
           /\ next[Shell] \in Waiting \cup {Kernel}
           /\ current \notin {Kernel, Shell}
           /\ used < MaxPcb

CurrentInv == boot = "up" => Idle \/ InProgram \/ AfterFork \/ InChild

RingInv == /\ BootInv /\ PidInv /\ StateInv /\ KernelInv
           /\ CallersInv /\ CalleeInv /\ CurrentInv
IInv == TypeOK /\ RingInv
------------------------------------------------------------------------------
\* Every non-empty set of naturals has a least member.
LEMMA LeastNat ==
  ASSUME NEW S \in SUBSET Nat, S # {}
  PROVE  \E x \in S : \A y \in S : x <= y
<1>1. PICK x \in S : \A y \in S : ~ (<<y, x>> \in OpToRel(<, Nat))
  BY NatLessThanWellFounded, WFMin
<1>2. ASSUME NEW y \in S PROVE x <= y
  <2>1. ~ (y < x) BY <1>1 DEF OpToRel
  <2> QED BY <2>1
<1> QED BY <1>2

\* getPID answers with an id that was free, or with -1.
LEMMA GetPIDFresh ==
  ASSUME TypeOK
  PROVE  /\ GetPID \in PidOrNone
         /\ GetPID # NoPid => pID[GetPID] = 0
         /\ (\E n \in DOMAIN pID : pID[n] = 0) =>
              GetPID # NoPid /\ \A m \in 0 .. GetPID - 1 : pID[m] = 1
<1>1. DOMAIN pID = 0 .. MaxProcesses - 1 BY DEF TypeOK
<1>2. CASE ~ \E n \in DOMAIN pID : pID[n] = 0
  BY <1>2 DEF GetPID, PidOrNone, NoPid
<1>3. CASE \E n \in DOMAIN pID : pID[n] = 0
  <2> DEFINE S == {n \in DOMAIN pID : pID[n] = 0}
  <2>1. S \in SUBSET Nat /\ S # {} BY <1>1, <1>3
  <2>2. PICK x \in S : \A y \in S : x <= y BY <2>1, LeastNat
  <2>3. x \in DOMAIN pID /\ pID[x] = 0 /\ \A m \in 0 .. x - 1 : pID[m] = 1
    <3>1. ASSUME NEW m \in 0 .. x - 1 PROVE pID[m] = 1
      <4>1. m \in DOMAIN pID /\ m \notin S BY <1>1, <2>2
      <4> QED BY <4>1, <1>1 DEF TypeOK
    <3> QED BY <3>1
  <2>4. /\ GetPID \in DOMAIN pID /\ pID[GetPID] = 0
        /\ \A m \in 0 .. GetPID - 1 : pID[m] = 1
    BY <2>3, <1>3 DEF GetPID
  <2> QED BY <2>4, <1>1 DEF PidOrNone, NoPid
<1> QED BY <1>2, <1>3

LEMMA InitEstablishes == Init => IInv
<1> SUFFICES ASSUME Init PROVE IInv
  OBVIOUS
<1>1. TypeOK
  BY DEF Init, TypeOK, Place, PidOrNone, NoPid, NULL
<1>2. Active = {} BY DEF Init, Active
<1>3. BootInv /\ PidInv /\ StateInv
  BY <1>2 DEF Init, BootInv, PidInv, StateInv
<1>4. KernelInv /\ CallersInv /\ CalleeInv /\ CurrentInv
  BY DEF Init, KernelInv, CallersInv, CalleeInv, CurrentInv
<1> QED BY <1>1, <1>3, <1>4 DEF IInv, RingInv

LEMMA KernProcessStep == IInv /\ KernProcess => IInv'
<1> SUFFICES ASSUME IInv, KernProcess PROVE IInv'
  OBVIOUS
<1>0. TypeOK /\ BootInv /\ PidInv /\ StateInv BY DEF IInv, RingInv
<1>1. /\ \A p \in Pcb : next[p] = NULL /\ at[p] = "free"
      /\ \A n \in 0 .. MaxProcesses - 1 : pID[n] = 0
      /\ used = 0
      /\ zombie = NULL /\ callers = <<>>
  BY <1>0 DEF KernProcess, BootInv
<1>2. GetPID = 0
  <2>1. \E n \in DOMAIN pID : pID[n] = 0 BY <1>0, <1>1 DEF TypeOK
  <2>2. GetPID # NoPid /\ GetPID \in PidOrNone /\ \A m \in 0 .. GetPID - 1 : pID[m] = 1
    BY <2>1, <1>0, GetPIDFresh
  <2> QED BY <2>2, <1>1 DEF PidOrNone, NoPid
<1>3. TypeOK'
  BY <1>0, <1>2 DEF KernProcess, TakePID, TypeOK, Kernel, Pcb, Place, PidOrNone, NoPid
<1>4. BootInv'
  <2>1. next'[Kernel] = Kernel /\ at'[Kernel] = "init_func" /\ pid'[Kernel] = 0
    BY <1>0, <1>2 DEF KernProcess, Kernel, Pcb, TypeOK
  <2>2. \A p \in Pcb \ {Kernel} : next'[p] = NULL /\ at'[p] = "free"
    BY <1>0, <1>1 DEF KernProcess, TypeOK
  <2>3. pID'[0] = 1 /\ \A n \in 1 .. MaxProcesses - 1 : pID'[n] = 0
    BY <1>0, <1>1, <1>2 DEF KernProcess, TakePID, TypeOK
  <2>4. /\ boot' = "userInitProcess" /\ used' = Kernel /\ current' = Kernel
        /\ first' = Kernel /\ zombie' = NULL /\ callers' = <<>>
    BY <1>1 DEF KernProcess
  <2> QED BY <2>1, <2>2, <2>3, <2>4 DEF BootInv
<1>5. Active' = {Kernel}
  BY <1>0, <1>1 DEF KernProcess, Active, Kernel, Pcb, TypeOK
<1>6. PidInv'
  BY <1>5, <1>1, <1>2, <1>0 DEF KernProcess, TakePID, PidInv, TypeOK, Kernel, Pcb
<1>7. StateInv'
  BY <1>0, <1>1 DEF KernProcess, StateInv, TypeOK, Kernel, Pcb, NULL
<1>8. KernelInv' /\ CallersInv' /\ CalleeInv' /\ CurrentInv'
  BY DEF KernProcess, KernelInv, CallersInv, CalleeInv, CurrentInv
<1> QED BY <1>3, <1>4, <1>6, <1>7, <1>8 DEF IInv, RingInv

LEMMA UserInitProcessStep == IInv /\ UserInitProcess => IInv'
<1> SUFFICES ASSUME IInv, UserInitProcess PROVE IInv'
  OBVIOUS
<1>0. TypeOK /\ BootInv /\ PidInv /\ StateInv BY DEF IInv, RingInv
<1>1. /\ next[Kernel] = Kernel /\ at[Kernel] = "init_func"
      /\ \A p \in Pcb \ {Kernel} : next[p] = NULL /\ at[p] = "free"
      /\ pID[0] = 1 /\ \A n \in 1 .. MaxProcesses - 1 : pID[n] = 0
      /\ used = Kernel /\ current = Kernel /\ first = Kernel
      /\ pid[Kernel] = 0 /\ zombie = NULL /\ callers = <<>>
  BY <1>0 DEF UserInitProcess, BootInv
<1>2. GetPID = 1
  <2>1. \E n \in DOMAIN pID : pID[n] = 0
    <3>1. 1 \in DOMAIN pID /\ pID[1] = 0 BY <1>0, <1>1 DEF TypeOK
    <3> QED BY <3>1
  <2>2. /\ GetPID # NoPid /\ GetPID \in PidOrNone /\ pID[GetPID] = 0
        /\ \A m \in 0 .. GetPID - 1 : pID[m] = 1
    BY <2>1, <1>0, GetPIDFresh
  <2>3. GetPID \in 0 .. MaxProcesses - 1 BY <2>2 DEF PidOrNone, NoPid
  <2>4. GetPID # 0 BY <2>2, <1>1
  <2>5. ~ (GetPID > 1)
    <3>1. SUFFICES ASSUME GetPID > 1 PROVE FALSE OBVIOUS
    <3>2. pID[1] = 1 BY <3>1, <2>2, <2>3
    <3> QED BY <3>2, <1>1
  <2> QED BY <2>3, <2>4, <2>5
<1>3. next' = [next EXCEPT ![Kernel] = Shell, ![Shell] = Kernel]
  <2>1. PICK temp \in Pcb : /\ next[temp] = current
                           /\ next' = [next EXCEPT ![temp] = Shell, ![Shell] = current]
    BY DEF UserInitProcess
  <2>2. temp = Kernel BY <2>1, <1>1 DEF Kernel, NULL
  <2> QED BY <2>1, <2>2, <1>1
<1>4. TypeOK'
  BY <1>0, <1>2, <1>3 DEF UserInitProcess, TakePID, TypeOK, Kernel, Shell, Pcb, Place,
                          PidOrNone, NoPid
<1>5. BootInv'
  <2>0. Kernel \in Pcb /\ Shell \in Pcb /\ Kernel # Shell BY DEF Kernel, Shell, Pcb
  <2>1. next'[Kernel] = Shell /\ next'[Shell] = Kernel
    BY <1>0, <1>3, <2>0 DEF TypeOK
  <2>2. at'[Kernel] = "init_func" /\ at'[Shell] = "user"
    BY <1>0, <1>1, <2>0 DEF UserInitProcess, TypeOK
  <2>3. \A p \in Pcb \ {Kernel, Shell} : next'[p] = NULL /\ at'[p] = "free"
    BY <1>0, <1>1, <1>3 DEF UserInitProcess, TypeOK
  <2>4. pID'[0] = 1
    BY <1>0, <1>1, <1>2 DEF UserInitProcess, TakePID, TypeOK
  <2>5. /\ boot' = "switchToRing3" /\ used' = Shell /\ current' = Kernel
        /\ first' = Kernel /\ zombie' = NULL /\ callers' = <<>>
    BY <1>1 DEF UserInitProcess
  <2> QED BY <2>1, <2>2, <2>3, <2>4, <2>5 DEF BootInv
<1>6. Active' = {Kernel, Shell}
  BY <1>0, <1>1 DEF UserInitProcess, Active, Kernel, Shell, Pcb, TypeOK
<1>7. PidInv'
  BY <1>6, <1>1, <1>2, <1>0 DEF UserInitProcess, TakePID, PidInv, TypeOK, Kernel, Shell, Pcb
<1>8. StateInv'
  BY <1>0, <1>1 DEF UserInitProcess, StateInv, TypeOK, Kernel, Shell, Pcb, NULL
<1>9. KernelInv' /\ CallersInv' /\ CalleeInv' /\ CurrentInv'
  BY DEF UserInitProcess, KernelInv, CallersInv, CalleeInv, CurrentInv
<1> QED BY <1>4, <1>5, <1>7, <1>8, <1>9 DEF IInv, RingInv

LEMMA SwitchToRing3Step == IInv /\ SwitchToRing3 => IInv'
<1> SUFFICES ASSUME IInv, SwitchToRing3 PROVE IInv'
  OBVIOUS
<1>0. TypeOK /\ BootInv /\ PidInv /\ StateInv BY DEF IInv, RingInv
<1>1. /\ next[Kernel] = Shell /\ at[Kernel] = "init_func"
      /\ next[Shell] = Kernel /\ at[Shell] = "user"
      /\ \A p \in Pcb \ {Kernel, Shell} : next[p] = NULL /\ at[p] = "free"
      /\ pID[0] = 1 /\ used = Shell /\ current = Kernel /\ first = Kernel
      /\ zombie = NULL /\ callers = <<>>
  BY <1>0 DEF SwitchToRing3, BootInv
<1>2. UNCHANGED <<pcbVars, pID, first, zombie, used, at, a, callers>>
      /\ boot' = "up" /\ current' = Shell
  BY DEF SwitchToRing3
<1>3. TypeOK' BY <1>0, <1>2 DEF TypeOK, pcbVars, Shell, Pcb
<1>4. BootInv' BY <1>2 DEF BootInv
<1>5. PidInv' /\ StateInv'
  BY <1>0, <1>2 DEF PidInv, StateInv, Active, pcbVars
<1>6. KernelInv' BY <1>1, <1>2 DEF KernelInv, pcbVars, Kernel, Shell, Pcb
<1>7. CallersInv' /\ CalleeInv'
  BY <1>1, <1>2 DEF CallersInv, CalleeInv, Waiting, pcbVars, Kernel, Shell, Pcb
<1>8. CurrentInv'
  BY <1>1, <1>2 DEF CurrentInv, InProgram, Outside, pcbVars, Kernel, Shell, Pcb
<1> QED BY <1>3, <1>4, <1>5, <1>6, <1>7, <1>8 DEF IInv, RingInv

\* The waiting programs are PCBs, and the innermost one is among them.
LEMMA WaitingFacts ==
  ASSUME TypeOK
  PROVE  /\ Len(callers) \in Nat
         /\ Waiting \subseteq Pcb
         /\ \A k \in 1 .. Len(callers) : callers[k] \in Waiting
         /\ callers # <<>> => Len(callers) >= 1 /\ Top \in Waiting
<1>1. callers \in Seq(Pcb) BY DEF TypeOK
<1>2. Len(callers) \in Nat /\ \A k \in 1 .. Len(callers) : callers[k] \in Pcb
  BY <1>1
<1>3. callers # <<>> => Len(callers) >= 1 BY <1>1
<1> QED BY <1>2, <1>3 DEF Waiting, Top

\* A step that leaves the waiting programs' PCBs alone keeps CallersInv.
LEMMA CallersUnchanged ==
  ASSUME CallersInv, boot = "up", callers' = callers, Len(callers) \in Nat,
         \A p \in Pcb : at'[p] = "waitpid" <=> p \in Waiting',
         \A k \in 1 .. Len(callers) :
           /\ next'[callers[k]] = next[callers[k]]
           /\ pid'[callers[k]] = pid[callers[k]] /\ ppid'[callers[k]] = ppid[callers[k]]
           /\ wait_on_childpid'[callers[k]] = wait_on_childpid[callers[k]]
  PROVE  CallersInv'
<1>1. /\ \A j, k \in 1 .. Len(callers) : callers[j] = callers[k] => j = k
      /\ callers # <<>> => callers[1] = Shell
  BY DEF CallersInv
<1>2. \A k \in 2 .. Len(callers) : next[callers[k]] = callers[k - 1]
  BY DEF CallersInv
<1>3. \A k \in 1 .. Len(callers) - 1 :
        /\ pid[callers[k + 1]] = wait_on_childpid[callers[k]]
        /\ ppid[callers[k + 1]] = pid[callers[k]]
  BY DEF CallersInv
<1>4. \A k \in 2 .. Len(callers) : next'[callers[k]] = callers[k - 1]
  BY <1>2
<1>5. ASSUME NEW k \in 1 .. Len(callers) - 1
      PROVE  /\ pid'[callers[k + 1]] = wait_on_childpid'[callers[k]]
             /\ ppid'[callers[k + 1]] = pid'[callers[k]]
  <2>1. k \in 1 .. Len(callers) /\ k + 1 \in 1 .. Len(callers) OBVIOUS
  <2> QED BY <1>3, <2>1
<1> QED BY <1>1, <1>4, <1>5 DEF CallersInv

LEMMA ForkStep == IInv /\ ForkSyscall => IInv'
<1> SUFFICES ASSUME IInv, ForkSyscall PROVE IInv'
  OBVIOUS
<1>c. PICK child : child = used + 1
  OBVIOUS
<1>0. TypeOK /\ PidInv /\ StateInv /\ KernelInv /\ CallersInv /\ CalleeInv /\ CurrentInv
  BY DEF IInv, RingInv
<1>1. /\ boot = "up" /\ boot' = "up" /\ at[current] = "user"
      /\ used + 2 <= MaxPcb /\ used' = child
      /\ pid' = [pid EXCEPT ![child] = GetPID]
      /\ pID' = [n \in DOMAIN pID |-> IF n = GetPID THEN 1 ELSE pID[n]]
      /\ ppid' = [ppid EXCEPT ![child] = pid[current]]
      /\ process_state' = [process_state EXCEPT ![child] = "New"]
      /\ wait_on_childpid' = [wait_on_childpid EXCEPT ![child] = NoPid]
      /\ next' = [next EXCEPT ![current] = child, ![child] = next[current]]
      /\ at' = [at EXCEPT ![current] = "forked", ![child] = "unborn"]
      /\ a' = [a EXCEPT ![current] = GetPID, ![child] = 0]
      /\ UNCHANGED <<first, current, zombie, callers>>
  BY <1>c DEF ForkSyscall, TakePID
<1>2. /\ used >= Shell /\ first = Kernel /\ next[Kernel] = Shell
      /\ at[Kernel] = "init_func" /\ pID[0] = 1 /\ current \in Pcb
  BY <1>0, <1>1 DEF KernelInv
<1>3. child \in Pcb /\ at[child] = "free" /\ child \notin {current, Kernel, Shell}
  BY <1>c, <1>0, <1>1, <1>2 DEF StateInv, TypeOK, Pcb, Kernel, Shell
<1>4. Kernel \in Pcb /\ Shell \in Pcb /\ current # Kernel
  BY <1>1, <1>2 DEF Pcb, Kernel, Shell
<1>5. InProgram BY <1>0, <1>1, <1>4 DEF CurrentInv, Idle, AfterFork, InChild
<1>6. \A p \in Pcb \ {child} :
        /\ pid'[p] = pid[p] /\ ppid'[p] = ppid[p]
        /\ wait_on_childpid'[p] = wait_on_childpid[p]
        /\ process_state'[p] = process_state[p]
        /\ p # current => next'[p] = next[p] /\ at'[p] = at[p] /\ a'[p] = a[p]
  BY <1>0, <1>1 DEF TypeOK
<1>7. /\ pid'[child] = GetPID /\ ppid'[child] = pid[current]
      /\ process_state'[child] = "New" /\ next'[child] = next[current]
      /\ next'[current] = child /\ at'[current] = "forked" /\ at'[child] = "unborn"
      /\ a'[current] = GetPID /\ a'[child] = 0
  BY <1>0, <1>1, <1>2, <1>3 DEF TypeOK
<1>8. /\ GetPID \in PidOrNone /\ GetPID # 0
      /\ GetPID # NoPid => pID[GetPID] = 0
  BY <1>0, <1>2, GetPIDFresh DEF NoPid
<1>9. TypeOK'
  <2>1. next' \in [Pcb -> Pcb \cup {NULL}] /\ at' \in [Pcb -> Place]
    BY <1>0, <1>1, <1>2, <1>3 DEF TypeOK, Place
  <2>2. /\ process_state' \in [Pcb -> {"New", "Running", "Zombie"}]
        /\ pid' \in [Pcb -> PidOrNone] /\ ppid' \in [Pcb -> PidOrNone]
    BY <1>0, <1>1, <1>2, <1>3, <1>8 DEF TypeOK
  <2>3. 0 \in PidOrNone /\ NoPid \in PidOrNone BY DEF PidOrNone
  <2>4. a' \in [Pcb -> PidOrNone] /\ wait_on_childpid' \in [Pcb -> PidOrNone]
    BY <1>0, <1>1, <1>2, <1>3, <1>8, <2>3 DEF TypeOK
  <2>5. pID' \in [0 .. MaxProcesses - 1 -> {0, 1}]
    BY <1>0, <1>1 DEF TypeOK
  <2>6. used' \in 0 .. MaxPcb BY <1>c, <1>0, <1>1, <1>2 DEF TypeOK
  <2> QED BY <1>0, <1>1, <2>1, <2>2, <2>4, <2>5, <2>6 DEF TypeOK
<1>10. \A p \in Waiting : p \in Pcb /\ p # child /\ p # current /\ p # Kernel
  BY <1>0, <1>1, <1>2, <1>3, WaitingFacts DEF CallersInv
<1>11. Waiting' = Waiting BY <1>1 DEF Waiting
<1>12. BootInv' BY <1>1 DEF BootInv
<1>13. Active' = Active \cup {child}
  <2>1. at'[child] \notin {"free", "replaced", "exited"}
        /\ at'[current] \notin {"free", "replaced", "exited"}
        /\ at[current] \notin {"free", "replaced", "exited"}
    BY <1>1, <1>7
  <2>2. \A p \in Pcb \ {child, current} : at'[p] = at[p] BY <1>6
  <2> QED BY <1>2, <1>3, <2>1, <2>2 DEF Active
<1>14. PidInv'
  <2>1. \A n \in 0 .. MaxProcesses - 1 : pID[n] = 1 => pID'[n] = 1
    BY <1>0, <1>1 DEF TypeOK
  <2>2. GetPID # NoPid => pID'[GetPID] = 1
    BY <1>0, <1>1, <1>8 DEF TypeOK, PidOrNone
  <2>3. \A p \in Active : p # child /\ p \in Pcb /\ pid'[p] = pid[p] /\ pid[p] \in PidOrNone
    BY <1>0, <1>3, <1>6 DEF Active, TypeOK
  <2>4. \A p \in Active : pid[p] # NoPid => pid[p] # GetPID
    BY <1>0, <1>8 DEF PidInv
  <2>5. \A p \in Active' : pid'[p] # NoPid => pID'[pid'[p]] = 1
    BY <1>0, <1>7, <1>13, <2>1, <2>2, <2>3 DEF PidInv, PidOrNone
  <2>6. \A p, q \in Active' : p # q /\ pid'[p] = pid'[q] => pid'[p] = NoPid
    BY <1>0, <1>7, <1>13, <2>3, <2>4 DEF PidInv
  <2> QED BY <2>5, <2>6 DEF PidInv
<1>15. StateInv'
  <2>1. \A p \in Pcb : process_state'[p] = "Zombie" <=> at'[p] = "exited"
    <3>1. SUFFICES ASSUME NEW p \in Pcb
                   PROVE  process_state'[p] = "Zombie" <=> at'[p] = "exited"
      OBVIOUS
    <3>2. CASE p = child BY <1>7, <3>2
    <3>3. CASE p = current
      <4>1. process_state[p] # "Zombie" BY <1>0, <1>1, <3>3 DEF StateInv
      <4>2. process_state'[p] = process_state[p] BY <1>3, <1>6, <3>3
      <4> QED BY <4>1, <4>2, <1>7, <3>3
    <3>4. CASE p \notin {child, current} BY <1>0, <1>6, <3>4 DEF StateInv
    <3> QED BY <3>2, <3>3, <3>4
  <2>2. \A p \in Pcb : p > used' => at'[p] = "free"
    BY <1>c, <1>0, <1>1, <1>2, <1>6 DEF StateInv, TypeOK, Pcb
  <2>3. zombie' # NULL => at'[zombie'] = "exited"
    BY <1>0, <1>1, <1>3, <1>6 DEF StateInv, TypeOK
  <2> QED BY <2>1, <2>2, <2>3 DEF StateInv
<1>16. KernelInv'
  <2>1. pID'[0] = 1 BY <1>0, <1>1, <1>2 DEF TypeOK
  <2>2. next'[Kernel] = Shell /\ at'[Kernel] = "init_func"
    BY <1>2, <1>3, <1>4, <1>6
  <2>3. used' >= Shell BY <1>c, <1>0, <1>1, <1>2 DEF TypeOK, Shell
  <2> QED BY <1>1, <1>2, <2>1, <2>2, <2>3 DEF KernelInv
<1>17. CallersInv'
  <2>1. \A p \in Pcb : at'[p] = "waitpid" <=> p \in Waiting'
    <3>1. SUFFICES ASSUME NEW p \in Pcb
                   PROVE  at'[p] = "waitpid" <=> p \in Waiting
      BY <1>11
    <3>2. CASE p \in {child, current} BY <1>7, <1>10, <3>2
    <3>3. CASE p \notin {child, current} BY <1>0, <1>1, <1>6, <3>3 DEF CallersInv
    <3> QED BY <3>2, <3>3
  <2>2. callers' = callers /\ Len(callers) \in Nat
        /\ \A k \in 1 .. Len(callers) : callers[k] \in Waiting
    BY <1>0, <1>1, WaitingFacts
  <2>3. \A k \in 1 .. Len(callers) :
          /\ next'[callers[k]] = next[callers[k]]
          /\ pid'[callers[k]] = pid[callers[k]] /\ ppid'[callers[k]] = ppid[callers[k]]
          /\ wait_on_childpid'[callers[k]] = wait_on_childpid[callers[k]]
    BY <1>6, <1>10, <2>2
  <2> QED BY <1>0, <1>1, <2>1, <2>2, <2>3, CallersUnchanged
<1>18. ASSUME callers # <<>> PROVE Top \in Waiting /\ Top' = Top
  BY <1>0, <1>1, <1>18, WaitingFacts DEF Top
<1>19. CalleeInv'
  BY <1>0, <1>1, <1>2, <1>3, <1>6, <1>10, <1>18 DEF CalleeInv
<1>20. AfterFork'
  <2>1. Outside(child)'
    <3>1. CASE callers = <<>>
      BY <1>1, <1>5, <1>7, <3>1 DEF InProgram, Outside
    <3>2. CASE callers # <<>>
      <4>1. next[current] = Top /\ next[Shell] = current /\ current \notin {Kernel, Shell}
        BY <1>5, <3>2 DEF InProgram, Outside
      <4>2. next'[Shell] = current BY <1>3, <1>4, <1>6, <4>1
      <4> QED BY <1>1, <1>7, <1>18, <3>2, <4>1, <4>2 DEF Outside
    <3> QED BY <3>1, <3>2
  <2>2. used' < MaxPcb BY <1>c, <1>0, <1>1, <1>2 DEF TypeOK
  <2>3. next'[current'] = child /\ pid'[current] = pid[current]
    BY <1>1, <1>2, <1>3, <1>6, <1>7
  <2> QED BY <1>1, <1>3, <1>7, <1>8, <2>1, <2>2, <2>3 DEF AfterFork
<1> QED BY <1>9, <1>12, <1>14, <1>15, <1>16, <1>17, <1>19, <1>20
        DEF IInv, RingInv, CurrentInv

LEMMA WaitpidStep == IInv /\ WaitpidSyscall => IInv'
<1> SUFFICES ASSUME IInv, WaitpidSyscall PROVE IInv'
  OBVIOUS
<1>p. PICK p : p = current OBVIOUS
<1>c. PICK c : c = next[current] OBVIOUS
<1>0. TypeOK /\ PidInv /\ StateInv /\ KernelInv /\ CallersInv /\ CalleeInv /\ CurrentInv
  BY DEF IInv, RingInv
<1>1. /\ boot = "up" /\ boot' = "up" /\ at[p] = "forked" /\ a[p] # 0
      /\ wait_on_childpid' = [wait_on_childpid EXCEPT ![p] = a[p]]
      /\ next' = [next EXCEPT ![c] = p, ![p] = next[c]]
      /\ current' = c
      /\ at' = [at EXCEPT ![p] = "waitpid", ![c] = Resumed(at[c])]
      /\ process_state' = [process_state EXCEPT ![c] = "Running"]
      /\ callers' = Append(callers, p)
      /\ UNCHANGED <<pid, ppid, pID, first, zombie, used, a>>
  BY <1>p, <1>c DEF WaitpidSyscall, ContextSwitch
<1>2. /\ used >= Shell /\ first = Kernel /\ next[Kernel] = Shell
      /\ at[Kernel] = "init_func" /\ pID[0] = 1 /\ p \in Pcb
  BY <1>0, <1>1, <1>p DEF KernelInv
<1>3. AfterFork BY <1>0, <1>1, <1>2, <1>p DEF CurrentInv, Idle, InProgram, InChild
<1>4. /\ c \in Pcb /\ at[c] = "unborn" /\ a[c] = 0 /\ c \notin {Kernel, Shell}
      /\ pid[c] = a[p] /\ ppid[c] = pid[p] /\ used < MaxPcb
      /\ callers = <<>> => p = Shell /\ next[c] \in {Kernel, Shell}
      /\ callers # <<>> => next[c] = Top /\ p \notin {Kernel, Shell} /\ next[Shell] = p
      /\ next[c] \in Pcb
  <2>1. /\ c \in Pcb /\ at[c] = "unborn" /\ a[c] = 0 /\ c \notin {Kernel, Shell}
        /\ pid[c] = a[p] /\ ppid[c] = pid[p] /\ used < MaxPcb /\ Outside(c)
    BY <1>3, <1>p, <1>c DEF AfterFork
  <2>2. /\ callers = <<>> => p = Shell /\ next[c] \in {Kernel, Shell}
        /\ callers # <<>> => next[c] = Top /\ p \notin {Kernel, Shell} /\ next[Shell] = p
    BY <2>1, <1>p DEF Outside
  <2>3. next[c] \in Pcb
    BY <2>2, <1>0, WaitingFacts DEF Kernel, Shell, Pcb
  <2> QED BY <2>1, <2>2, <2>3
<1>5. /\ p # c /\ p # Kernel /\ Kernel \in Pcb /\ Shell \in Pcb
      /\ Resumed(at[c]) = "forked"
  BY <1>1, <1>2, <1>4 DEF Resumed, Kernel, Shell, Pcb
<1>6. \A q \in Pcb \ {p, c} : /\ next'[q] = next[q] /\ at'[q] = at[q]
                              /\ process_state'[q] = process_state[q]
                              /\ wait_on_childpid'[q] = wait_on_childpid[q]
  BY <1>0, <1>1 DEF TypeOK
<1>7. /\ next'[c] = p /\ next'[p] = next[c]
      /\ at'[p] = "waitpid" /\ at'[c] = "forked"
      /\ process_state'[c] = "Running" /\ process_state'[p] = process_state[p]
      /\ wait_on_childpid'[p] = a[p] /\ wait_on_childpid'[c] = wait_on_childpid[c]
  BY <1>0, <1>1, <1>2, <1>4, <1>5 DEF TypeOK
<1>8. TypeOK'
  <2>1. next' \in [Pcb -> Pcb \cup {NULL}]
    BY <1>0, <1>1, <1>2, <1>4 DEF TypeOK
  <2>2. at' \in [Pcb -> Place]
    BY <1>0, <1>1, <1>5 DEF TypeOK, Place
  <2>3. /\ process_state' \in [Pcb -> {"New", "Running", "Zombie"}]
        /\ wait_on_childpid' \in [Pcb -> PidOrNone]
    BY <1>0, <1>1, <1>2 DEF TypeOK
  <2>4. callers' \in Seq(Pcb) BY <1>0, <1>1, <1>2 DEF TypeOK
  <2>5. current' \in Pcb BY <1>1, <1>4
  <2> QED BY <1>0, <1>1, <2>1, <2>2, <2>3, <2>4, <2>5 DEF TypeOK
<1>9. BootInv' BY <1>1 DEF BootInv
<1>10. Active' = Active
  <2>1. \A q \in {p, c} : /\ at[q] \notin {"free", "replaced", "exited"}
                          /\ at'[q] \notin {"free", "replaced", "exited"}
    BY <1>1, <1>4, <1>7
  <2>2. \A q \in Pcb \ {p, c} : at'[q] = at[q] BY <1>6
  <2> QED BY <2>1, <2>2 DEF Active
<1>11. PidInv' BY <1>0, <1>1, <1>10 DEF PidInv
<1>12. StateInv'
  <2>1. ASSUME NEW q \in Pcb PROVE process_state'[q] = "Zombie" <=> at'[q] = "exited"
    <3>1. CASE q = c BY <3>1, <1>7
    <3>2. CASE q = p
      <4>1. process_state[p] # "Zombie" BY <1>0, <1>1, <1>2 DEF StateInv
      <4> QED BY <3>2, <4>1, <1>7
    <3>3. CASE q \notin {p, c} BY <1>0, <1>6, <3>3 DEF StateInv
    <3> QED BY <3>1, <3>2, <3>3
  <2>2. ASSUME NEW q \in Pcb, q > used PROVE at'[q] = "free"
    BY <2>2, <1>0, <1>1, <1>4, <1>6 DEF StateInv
  <2>3. zombie # NULL => at'[zombie] = "exited"
    BY <1>0, <1>1, <1>4, <1>6 DEF StateInv, TypeOK
  <2> QED BY <1>1, <2>1, <2>2, <2>3 DEF StateInv
<1>13. KernelInv'
  <2>1. next'[Kernel] = Shell /\ at'[Kernel] = "init_func"
    BY <1>2, <1>4, <1>5, <1>6
  <2> QED BY <1>1, <1>2, <1>4, <2>1 DEF KernelInv
<1>14. PICK n \in Nat : n = Len(callers)
  BY <1>0, WaitingFacts
<1>15. /\ Len(callers') = n + 1 /\ callers'[n + 1] = p
       /\ \A k \in 1 .. n : callers'[k] = callers[k]
  BY <1>0, <1>1, <1>2, <1>14 DEF TypeOK
<1>16. \A q \in Waiting : q \in Pcb /\ q # p /\ q # c
  BY <1>0, <1>1, <1>4, WaitingFacts DEF CallersInv
<1>17. \A k \in 1 .. n : callers[k] \in Waiting
  BY <1>0, <1>14, WaitingFacts
<1>18. Waiting' = Waiting \cup {p}
  BY <1>14, <1>15 DEF Waiting
<1>19. callers' # <<>> /\ Top' = p
  BY <1>1, <1>15, <1>0, <1>2 DEF Top, TypeOK
<1>20. CallersInv'
  <2>1. ASSUME NEW q \in Pcb PROVE at'[q] = "waitpid" <=> q \in Waiting'
    <3>1. CASE q \in {p, c} BY <3>1, <1>5, <1>7, <1>16, <1>18
    <3>2. CASE q \notin {p, c} BY <3>2, <1>0, <1>1, <1>6, <1>18 DEF CallersInv
    <3> QED BY <3>1, <3>2
  <2>2. ASSUME NEW j \in 1 .. n + 1, NEW k \in 1 .. n + 1, callers'[j] = callers'[k]
        PROVE  j = k
    <3>1. \A l, m \in 1 .. n : callers[l] = callers[m] => l = m
      BY <1>0, <1>1, <1>14 DEF CallersInv
    <3>2. CASE j \in 1 .. n /\ k \in 1 .. n BY <2>2, <3>1, <3>2, <1>15
    <3>3. CASE j = n + 1 BY <2>2, <3>3, <1>14, <1>15, <1>16, <1>17
    <3>4. CASE k = n + 1 BY <2>2, <3>4, <1>14, <1>15, <1>16, <1>17
    <3> QED BY <3>2, <3>3, <3>4
  <2>3. callers'[1] = Shell
    <3>1. CASE callers = <<>> BY <3>1, <1>4, <1>14, <1>15
    <3>2. CASE callers # <<>>
      <4>1. n >= 1 /\ callers[1] = Shell
        BY <3>2, <1>0, <1>1, <1>14, WaitingFacts DEF CallersInv
      <4> QED BY <4>1, <1>15
    <3> QED BY <3>1, <3>2
  <2>4. ASSUME NEW k \in 2 .. n + 1 PROVE next'[callers'[k]] = callers'[k - 1]
    <3>1. CASE k \in 2 .. n
      <4>1. next[callers[k]] = callers[k - 1]
        BY <3>1, <1>0, <1>1, <1>14 DEF CallersInv
      <4>2. next'[callers[k]] = next[callers[k]] BY <3>1, <1>6, <1>16, <1>17
      <4> QED BY <3>1, <4>1, <4>2, <1>15
    <3>2. CASE k = n + 1
      <4>1. n >= 1 BY <3>2
      <4>2. callers # <<>> BY <4>1, <1>14
      <4>3. callers'[k - 1] = Top BY <3>2, <4>1, <1>14, <1>15 DEF Top
      <4> QED BY <3>2, <4>2, <4>3, <1>4, <1>7, <1>15
    <3> QED BY <3>1, <3>2
  <2>5. ASSUME NEW k \in 1 .. n
        PROVE  /\ pid'[callers'[k + 1]] = wait_on_childpid'[callers'[k]]
               /\ ppid'[callers'[k + 1]] = pid'[callers'[k]]
    <3>1. callers'[k] = callers[k] /\ wait_on_childpid'[callers[k]] = wait_on_childpid[callers[k]]
      BY <1>6, <1>15, <1>16, <1>17
    <3>2. CASE k < n
      <4>1. callers'[k + 1] = callers[k + 1] BY <3>2, <1>15
      <4>2. /\ pid[callers[k + 1]] = wait_on_childpid[callers[k]]
            /\ ppid[callers[k + 1]] = pid[callers[k]]
        BY <3>2, <1>0, <1>1, <1>14 DEF CallersInv
      <4> QED BY <3>1, <4>1, <4>2, <1>1
    <3>3. CASE k = n
      <4>1. callers # <<>> /\ callers[k] = Top BY <3>3, <1>14 DEF Top
      <4>2. pid[p] = wait_on_childpid[Top] /\ ppid[p] = pid[Top]
        BY <4>1, <1>0, <1>1, <1>p DEF CalleeInv
      <4> QED BY <3>1, <3>3, <4>1, <4>2, <1>1, <1>15
    <3> QED BY <3>2, <3>3
  <2> QED BY <2>1, <2>2, <2>3, <2>4, <2>5, <1>15 DEF CallersInv
<1>21. CalleeInv' BY <1>1, <1>4, <1>7, <1>19 DEF CalleeInv
<1>22. InChild'
  <2>1. next'[Shell] \in Waiting' \cup {Kernel}
    <3>1. CASE callers = <<>> BY <3>1, <1>4, <1>7, <1>18
    <3>2. CASE callers # <<>> BY <3>2, <1>4, <1>5, <1>6, <1>18
    <3> QED BY <3>1, <3>2
  <2> QED BY <2>1, <1>1, <1>4, <1>7, <1>19 DEF InChild
<1> QED BY <1>8, <1>9, <1>11, <1>12, <1>13, <1>20, <1>21, <1>22
        DEF IInv, RingInv, CurrentInv

LEMMA ExecveStep == IInv /\ ExecveSyscall => IInv'
<1> SUFFICES ASSUME IInv, ExecveSyscall PROVE IInv'
  OBVIOUS
<1>p. PICK p : p = current OBVIOUS
<1>n. PICK new : new = used + 1 OBVIOUS
<1>0. TypeOK /\ PidInv /\ StateInv /\ KernelInv /\ CallersInv /\ CalleeInv /\ CurrentInv
  BY DEF IInv, RingInv
<1>1. /\ boot = "up" /\ boot' = "up" /\ at[p] = "forked" /\ a[p] = 0
      /\ used' = new
      /\ pid' = [pid EXCEPT ![new] = pid[p]]
      /\ ppid' = [ppid EXCEPT ![new] = ppid[p]]
      /\ current' = new
      /\ wait_on_childpid' = [wait_on_childpid EXCEPT ![new] = NoPid]
      /\ process_state' = [process_state EXCEPT ![new] = "Running"]
      /\ at' = [at EXCEPT ![p] = "replaced", ![new] = "user"]
      /\ UNCHANGED <<pID, first, zombie, a, callers>>
  BY <1>p, <1>n DEF ExecveSyscall
<1>2. /\ used >= Shell /\ first = Kernel /\ next[Kernel] = Shell
      /\ at[Kernel] = "init_func" /\ pID[0] = 1 /\ p \in Pcb
  BY <1>0, <1>1, <1>p DEF KernelInv
<1>3. InChild BY <1>0, <1>1, <1>2, <1>p DEF CurrentInv, Idle, InProgram, AfterFork
<1>4. /\ callers # <<>> /\ next[p] = Top /\ p \notin {Kernel, Shell} /\ used < MaxPcb
  BY <1>3, <1>p DEF InChild
<1>5. /\ new \in Pcb /\ at[new] = "free" /\ new \notin {p, Kernel, Shell}
      /\ Kernel \in Pcb /\ Shell \in Pcb /\ Kernel # Shell
  BY <1>n, <1>0, <1>1, <1>2, <1>4 DEF StateInv, TypeOK, Pcb, Kernel, Shell
<1>6. /\ next'[new] = Top /\ next'[Shell] = new
      /\ \A q \in Pcb \ {Shell, new} : next'[q] = next[q]
      /\ next' \in [Pcb -> Pcb \cup {NULL}]
  <2>1. next' = [[next EXCEPT ![Shell] = new] EXCEPT
                   ![new] = [next EXCEPT ![Shell] = new][p]]
    BY <1>p, <1>n, <1>2 DEF ExecveSyscall
  <2>2. [next EXCEPT ![Shell] = new][p] = Top BY <1>0, <1>2, <1>4 DEF TypeOK
  <2>3. Top \in Pcb BY <1>0, <1>4, WaitingFacts
  <2> QED BY <2>1, <2>2, <2>3, <1>0, <1>5 DEF TypeOK
<1>7. \A q \in Pcb \ {new} :
        /\ pid'[q] = pid[q] /\ ppid'[q] = ppid[q]
        /\ wait_on_childpid'[q] = wait_on_childpid[q]
        /\ process_state'[q] = process_state[q]
        /\ q # p => at'[q] = at[q]
  BY <1>0, <1>1 DEF TypeOK
<1>8. /\ pid'[new] = pid[p] /\ ppid'[new] = ppid[p] /\ at'[new] = "user"
      /\ at'[p] = "replaced" /\ process_state'[new] = "Running"
  BY <1>0, <1>1, <1>2, <1>5 DEF TypeOK
<1>9. TypeOK'
  <2>1. at' \in [Pcb -> Place] BY <1>0, <1>1 DEF TypeOK, Place
  <2>2. process_state' \in [Pcb -> {"New", "Running", "Zombie"}]
    BY <1>0, <1>1 DEF TypeOK
  <2>3. NoPid \in PidOrNone BY DEF PidOrNone
  <2>4. /\ wait_on_childpid' \in [Pcb -> PidOrNone]
        /\ pid' \in [Pcb -> PidOrNone] /\ ppid' \in [Pcb -> PidOrNone]
    BY <1>0, <1>1, <1>2, <2>3 DEF TypeOK
  <2>5. used' \in 0 .. MaxPcb BY <1>n, <1>0, <1>1, <1>4 DEF TypeOK
  <2> QED BY <1>0, <1>1, <1>5, <1>6, <2>1, <2>2, <2>4, <2>5 DEF TypeOK
<1>10. BootInv' BY <1>1 DEF BootInv
<1>11. Active' = (Active \ {p}) \cup {new} /\ p \in Active /\ new \notin Active
  <2>1. at'[new] \notin {"free", "replaced", "exited"} /\ at'[p] = "replaced"
        /\ at[p] \notin {"free", "replaced", "exited"} /\ at[new] = "free"
    BY <1>1, <1>5, <1>8
  <2>2. \A q \in Pcb \ {p, new} : at'[q] = at[q] BY <1>7
  <2> QED BY <2>1, <2>2, <1>2, <1>5 DEF Active
<1>12. PidInv'
  <2>1. \A q \in Active : q # new /\ pid'[q] = pid[q]
    BY <1>7, <1>11 DEF Active
  <2> QED BY <1>0, <1>1, <1>8, <1>11, <2>1 DEF PidInv
<1>13. StateInv'
  <2>1. ASSUME NEW q \in Pcb PROVE process_state'[q] = "Zombie" <=> at'[q] = "exited"
    <3>1. CASE q = new BY <3>1, <1>8
    <3>2. CASE q = p
      <4>1. process_state[p] # "Zombie" BY <1>0, <1>1, <1>2 DEF StateInv
      <4> QED BY <3>2, <4>1, <1>5, <1>7, <1>8
    <3>3. CASE q \notin {p, new} BY <1>0, <1>7, <3>3 DEF StateInv
    <3> QED BY <3>1, <3>2, <3>3
  <2>2. ASSUME NEW q \in Pcb, q > new PROVE at'[q] = "free"
    <3>1. q > used BY <2>2, <1>n, <1>0 DEF TypeOK, Pcb
    <3>2. at[q] = "free" BY <3>1, <1>0 DEF StateInv
    <3>3. q # new /\ q # p BY <2>2, <3>2, <1>1, <1>n, <1>0 DEF TypeOK, Pcb
    <3> QED BY <3>2, <3>3, <1>7
  <2>3. zombie # NULL => at'[zombie] = "exited"
    <3>1. SUFFICES ASSUME zombie # NULL PROVE at'[zombie] = "exited" OBVIOUS
    <3>2. zombie \in Pcb /\ at[zombie] = "exited" BY <3>1, <1>0 DEF StateInv, TypeOK
    <3> QED BY <3>2, <1>1, <1>5, <1>7
  <2> QED BY <1>1, <2>1, <2>2, <2>3 DEF StateInv
<1>14. KernelInv'
  <2>1. next'[Kernel] = Shell /\ at'[Kernel] = "init_func"
    BY <1>2, <1>4, <1>5, <1>6, <1>7
  <2>2. new >= Shell BY <1>n, <1>0, <1>2 DEF TypeOK, Shell
  <2> QED BY <1>1, <1>2, <1>5, <2>1, <2>2 DEF KernelInv
<1>15. \A q \in Waiting : q \in Pcb /\ q # p /\ q # new
  BY <1>0, <1>1, <1>5, WaitingFacts DEF CallersInv
<1>16. Waiting' = Waiting /\ Top' = Top /\ Top \in Waiting
  BY <1>0, <1>1, <1>4, WaitingFacts DEF Waiting, Top
<1>17. CallersInv'
  <2>1. ASSUME NEW q \in Pcb PROVE at'[q] = "waitpid" <=> q \in Waiting'
    <3>1. CASE q \in {p, new} BY <3>1, <1>8, <1>15, <1>16
    <3>2. CASE q \notin {p, new}
      <4>1. at[q] = "waitpid" <=> q \in Waiting BY <1>0, <1>1 DEF CallersInv
      <4>2. at'[q] = at[q] BY <3>2, <1>7
      <4> QED BY <4>1, <4>2, <1>16
    <3> QED BY <3>1, <3>2
  <2>2. /\ callers' = callers /\ Len(callers) \in Nat /\ Len(callers) >= 1
        /\ \A k \in 1 .. Len(callers) : callers[k] \in Waiting
    BY <1>0, <1>1, <1>4, WaitingFacts
  <2>3. /\ \A j, k \in 1 .. Len(callers) : callers[j] = callers[k] => j = k
        /\ callers[1] = Shell
    BY <1>0, <1>1, <1>4 DEF CallersInv
  <2>4. ASSUME NEW k \in 2 .. Len(callers) PROVE next'[callers[k]] = callers[k - 1]
    <3>1. next[callers[k]] = callers[k - 1] BY <1>0, <1>1 DEF CallersInv
    <3>2. callers[k] # Shell
      <4>1. k \in 1 .. Len(callers) /\ 1 \in 1 .. Len(callers) /\ k # 1 BY <2>2
      <4> QED BY <4>1, <2>3
    <3>3. callers[k] \in Pcb \ {Shell, new} BY <3>2, <2>2, <1>15
    <3> QED BY <3>1, <3>3, <1>6
  <2>5. ASSUME NEW k \in 1 .. Len(callers) - 1
        PROVE  /\ pid'[callers[k + 1]] = wait_on_childpid'[callers[k]]
               /\ ppid'[callers[k + 1]] = pid'[callers[k]]
    <3>1. k \in 1 .. Len(callers) /\ k + 1 \in 1 .. Len(callers) BY <2>2
    <3>2. callers[k] \in Pcb \ {new} /\ callers[k + 1] \in Pcb \ {new}
      BY <3>1, <2>2, <1>15
    <3>3. /\ pid[callers[k + 1]] = wait_on_childpid[callers[k]]
          /\ ppid[callers[k + 1]] = pid[callers[k]]
      BY <1>0, <1>1 DEF CallersInv
    <3> QED BY <3>2, <3>3, <1>7
  <2> QED BY <2>1, <2>2, <2>3, <2>4, <2>5 DEF CallersInv
<1>18. CalleeInv'
  <2>1. pid[p] = wait_on_childpid[Top] /\ ppid[p] = pid[Top]
    BY <1>0, <1>1, <1>4, <1>p DEF CalleeInv
  <2> QED BY <2>1, <1>1, <1>7, <1>8, <1>15, <1>16 DEF CalleeInv
<1>19. InProgram'
  BY <1>1, <1>4, <1>5, <1>6, <1>8, <1>16 DEF InProgram, Outside
<1> QED BY <1>9, <1>10, <1>12, <1>13, <1>14, <1>17, <1>18, <1>19
        DEF IInv, RingInv, CurrentInv

\* The ring of a program that somebody waits for, in one place.
LEMMA ChainFacts ==
  ASSUME IInv, boot = "up", at[current] = "user", callers # <<>>
  PROVE  /\ current \in Pcb /\ current \notin Waiting /\ current \notin {Kernel, Shell}
         /\ next[current] = Top /\ Top \in Waiting /\ next[Shell] = current
         /\ Waiting \cup {current} \subseteq 1 .. used
         /\ \A x \in Waiting \cup {current} : next[x] \in Waiting \cup {current}
         /\ \A x \in Waiting : x # Shell => next[x] \in Waiting
<1>0. TypeOK /\ StateInv /\ KernelInv /\ CallersInv /\ CurrentInv
  BY DEF IInv, RingInv
<1>1. current \in Pcb /\ at[Kernel] = "init_func" BY <1>0 DEF KernelInv
<1>2. InProgram BY <1>0, <1>1 DEF CurrentInv, Idle, AfterFork, InChild
<1>3. next[current] = Top /\ next[Shell] = current /\ current \notin {Kernel, Shell}
  BY <1>2 DEF InProgram, Outside
<1>4. /\ Len(callers) \in Nat /\ Waiting \subseteq Pcb /\ Top \in Waiting
      /\ \A k \in 1 .. Len(callers) : callers[k] \in Waiting
  BY <1>0, WaitingFacts
<1>5. current \notin Waiting BY <1>0, <1>1 DEF CallersInv
<1>6. \A x \in Waiting : at[x] = "waitpid" BY <1>0, <1>4 DEF CallersInv
<1>7. ASSUME NEW x \in Waiting \cup {current} PROVE x \in 1 .. used
  <2>1. x \in Pcb /\ at[x] # "free" BY <1>1, <1>4, <1>6
  <2> QED BY <2>1, <1>0 DEF StateInv, TypeOK, Pcb
<1>8. ASSUME NEW x \in Waiting, x # Shell PROVE next[x] \in Waiting
  <2>1. PICK k \in 1 .. Len(callers) : x = callers[k] BY DEF Waiting
  <2>2. callers[1] = Shell BY <1>0 DEF CallersInv
  <2>3. k \in 2 .. Len(callers) /\ k - 1 \in 1 .. Len(callers) BY <1>4, <1>8, <2>1, <2>2
  <2>4. next[x] = callers[k - 1] BY <1>0, <2>1, <2>3 DEF CallersInv
  <2> QED BY <1>4, <2>3, <2>4
<1> QED BY <1>1, <1>3, <1>4, <1>5, <1>7, <1>8

\* What a closed set contains, every walk inside it keeps to.
LEMMA ReachableInClosed ==
  ASSUME NEW S, S \subseteq 1 .. used, NEW p \in S, \A x \in S : next[x] \in S
  PROVE  Reachable(p) \subseteq S
BY DEF Reachable

LEMMA ExitStep == IInv /\ ExitSyscall => IInv'
<1> SUFFICES ASSUME IInv, ExitSyscall PROVE IInv'
  OBVIOUS
<1>p. PICK p : p = current OBVIOUS
<1>t. PICK t : t = Top OBVIOUS
<1>0. TypeOK /\ PidInv /\ StateInv /\ KernelInv /\ CallersInv /\ CalleeInv /\ CurrentInv
  BY DEF IInv, RingInv
<1>1. /\ boot = "up" /\ boot' = "up" /\ at[p] = "user" /\ p \notin {Kernel, Shell}
      /\ callers' = SubSeq(callers, 1, Len(callers) - 1)
      /\ UNCHANGED <<pid, ppid, wait_on_childpid, pID, first, used, a>>
  BY <1>p DEF ExitSyscall, MayExit, Leave
<1>2. /\ used >= Shell /\ first = Kernel /\ next[Kernel] = Shell
      /\ at[Kernel] = "init_func" /\ pID[0] = 1 /\ p \in Pcb
  BY <1>0, <1>1, <1>p DEF KernelInv
<1>3. callers # <<>>
  <2>1. InProgram BY <1>0, <1>1, <1>p DEF CurrentInv, Idle, AfterFork, InChild
  <2> QED BY <2>1, <1>1, <1>p DEF InProgram, Outside
<1>4. /\ p \in Pcb /\ p \notin Waiting /\ next[p] = t /\ t \in Waiting /\ next[Shell] = p
      /\ Waiting \cup {p} \subseteq 1 .. used
      /\ \A x \in Waiting \cup {p} : next[x] \in Waiting \cup {p}
      /\ \A x \in Waiting : x # Shell => next[x] \in Waiting
  BY <1>1, <1>3, <1>p, <1>t, ChainFacts
<1>5. Waiting \subseteq Pcb /\ t \in Pcb /\ t # p /\ at[t] = "waitpid"
  BY <1>0, <1>1, <1>4, WaitingFacts DEF CallersInv
<1>6. PICK temp \in Reachable(next[current]) :
        LET unlinked == [next EXCEPT ![temp] = next[current]]
            listed == IF zombie = NULL THEN unlinked
                      ELSE [unlinked EXCEPT ![zombie] = current] IN
        /\ next[temp] = current
        /\ next' = listed
        /\ zombie' = IF zombie = NULL THEN current ELSE zombie
        /\ ContextSwitch(listed[current], "exited")
        /\ process_state' = [process_state EXCEPT ![current] = "Zombie",
                                                  ![listed[current]] = "Running"]
  BY DEF ExitSyscall, Leave, ZombieList
<1>7. temp = Shell
  <2>1. Reachable(t) \subseteq Waiting \cup {p}
    BY <1>4, ReachableInClosed
  <2>2. temp \in Waiting \cup {p} BY <2>1, <1>4, <1>6, <1>p
  <2> QED BY <2>2, <1>4, <1>5, <1>6, <1>p
<1>8. Kernel \in Pcb /\ Shell \in Pcb /\ Kernel # Shell /\ p \notin {Kernel, Shell}
  BY <1>1 DEF Kernel, Shell, Pcb
<1>9. zombie # NULL => zombie \in Pcb /\ at[zombie] = "exited" /\ zombie # p
                       /\ zombie \notin Waiting /\ zombie # Kernel /\ zombie # Shell
  <2>1. at[Shell] # "exited"
    <3>1. Shell \in Waiting
      BY <1>0, <1>1, <1>3, WaitingFacts DEF CallersInv
    <3> QED BY <3>1, <1>0, <1>1, <1>8 DEF CallersInv
  <2>2. \A x \in Waiting : at[x] = "waitpid" BY <1>0, <1>1, <1>5 DEF CallersInv
  <2> QED BY <2>1, <2>2, <1>0, <1>1, <1>2 DEF StateInv, TypeOK
<1>10. /\ next' \in [Pcb -> Pcb \cup {NULL}]
       /\ next'[Shell] = t /\ next'[p] = t
       /\ \A x \in Pcb \ {Shell} : x # zombie => next'[x] = next[x]
  <2>1. CASE zombie = NULL
    <3>1. next' = [next EXCEPT ![Shell] = t] BY <2>1, <1>4, <1>6, <1>7, <1>p
    <3> QED BY <3>1, <1>0, <1>4, <1>5, <1>8 DEF TypeOK
  <2>2. CASE zombie # NULL
    <3>1. next' = [[next EXCEPT ![Shell] = t] EXCEPT ![zombie] = p]
      BY <2>2, <1>4, <1>6, <1>7, <1>p
    <3> QED BY <2>2, <3>1, <1>0, <1>4, <1>5, <1>8, <1>9 DEF TypeOK
  <2> QED BY <2>1, <2>2
<1>11. /\ current' = t /\ zombie' = IF zombie = NULL THEN p ELSE zombie
       /\ at' = [at EXCEPT ![p] = "exited", ![t] = Resumed(at[t])]
       /\ process_state' = [process_state EXCEPT ![p] = "Zombie", ![t] = "Running"]
  <2> DEFINE unlinked == [next EXCEPT ![temp] = next[current]]
             listed == IF zombie = NULL THEN unlinked
                       ELSE [unlinked EXCEPT ![zombie] = current]
  <2>1. listed[current] = t
    <3>1. next' = listed BY <1>6
    <3> QED BY <3>1, <1>10, <1>p
  <2>2. /\ zombie' = IF zombie = NULL THEN current ELSE zombie
        /\ ContextSwitch(listed[current], "exited")
        /\ process_state' = [process_state EXCEPT ![current] = "Zombie",
                                                  ![listed[current]] = "Running"]
    BY <1>6
  <2> HIDE DEF listed
  <2> QED BY <2>1, <2>2, <1>p DEF ContextSwitch
<1>12. /\ at'[p] = "exited" /\ at'[t] = "user"
       /\ process_state'[p] = "Zombie" /\ process_state'[t] = "Running"
       /\ \A x \in Pcb \ {p, t} : at'[x] = at[x] /\ process_state'[x] = process_state[x]
  <2>1. Resumed(at[t]) = "user" BY <1>5 DEF Resumed
  <2> QED BY <2>1, <1>0, <1>4, <1>5, <1>11 DEF TypeOK
<1>13. TypeOK'
  <2>1. at' \in [Pcb -> Place]
    <3>1. Resumed(at[t]) = "user" BY <1>5 DEF Resumed
    <3> QED BY <3>1, <1>0, <1>11 DEF TypeOK, Place
  <2>2. process_state' \in [Pcb -> {"New", "Running", "Zombie"}]
    BY <1>0, <1>11 DEF TypeOK
  <2>3. callers' \in Seq(Pcb)
    <3>1. callers \in Seq(Pcb) /\ Len(callers) \in Nat /\ Len(callers) >= 1
      BY <1>0, <1>3, WaitingFacts DEF TypeOK
    <3> QED BY <3>1, <1>1
  <2>4. current' \in Pcb /\ zombie' \in Pcb \cup {NULL}
    BY <1>4, <1>5, <1>9, <1>11
  <2> QED BY <1>0, <1>1, <1>10, <2>1, <2>2, <2>3, <2>4 DEF TypeOK
<1>14. BootInv' BY <1>1 DEF BootInv
<1>15. Active' = Active \ {p}
  <2>1. at'[t] \notin {"free", "replaced", "exited"}
        /\ at[t] \notin {"free", "replaced", "exited"} /\ at'[p] = "exited"
    BY <1>5, <1>12
  <2> QED BY <2>1, <1>5, <1>12 DEF Active
<1>16. PidInv' BY <1>0, <1>1, <1>15 DEF PidInv
<1>17. StateInv'
  <2>1. ASSUME NEW q \in Pcb PROVE process_state'[q] = "Zombie" <=> at'[q] = "exited"
    <3>1. CASE q \in {p, t} BY <3>1, <1>12
    <3>2. CASE q \notin {p, t} BY <3>2, <1>0, <1>12 DEF StateInv
    <3> QED BY <3>1, <3>2
  <2>2. ASSUME NEW q \in Pcb, q > used PROVE at'[q] = "free"
    BY <2>2, <1>0, <1>1, <1>5, <1>12 DEF StateInv
  <2>3. zombie' # NULL => at'[zombie'] = "exited"
    <3>1. CASE zombie = NULL BY <3>1, <1>11, <1>12
    <3>2. CASE zombie # NULL
      <4>1. zombie \in Pcb \ {p, t} /\ at[zombie] = "exited"
        BY <3>2, <1>4, <1>9
      <4> QED BY <3>2, <4>1, <1>11, <1>12
    <3> QED BY <3>1, <3>2
  <2> QED BY <1>1, <2>1, <2>2, <2>3 DEF StateInv
<1>18. Kernel # t /\ KernelInv'
  <2>1. Kernel # t BY <1>2, <1>5
  <2>2. zombie # Kernel BY <1>9 DEF Kernel, NULL
  <2>3. next'[Kernel] = Shell /\ at'[Kernel] = "init_func"
    BY <2>1, <2>2, <1>2, <1>8, <1>10, <1>12
  <2> QED BY <2>1, <2>3, <1>1, <1>2, <1>5, <1>11 DEF KernelInv
<1>19. PICK n \in Nat : n = Len(callers) - 1 /\ Len(callers) = n + 1
  <2>1. Len(callers) \in Nat /\ Len(callers) >= 1 BY <1>0, <1>3, WaitingFacts
  <2>2. Len(callers) - 1 \in Nat BY <2>1
  <2>3. Len(callers) = (Len(callers) - 1) + 1 BY <2>1
  <2> QED BY <2>2, <2>3
<1>20. Len(callers') = n /\ \A k \in 1 .. n : callers'[k] = callers[k]
  BY <1>0, <1>1, <1>19 DEF TypeOK
<1>21. callers[n + 1] = t /\ \A k \in 1 .. n : callers[k] \in Waiting \ {t}
  <2>1. callers[n + 1] = t BY <1>t, <1>19 DEF Top
  <2>2. \A j, k \in 1 .. n + 1 : callers[j] = callers[k] => j = k
    BY <1>0, <1>1, <1>19 DEF CallersInv
  <2>3. \A k \in 1 .. n + 1 : callers[k] \in Waiting BY <1>0, <1>19, WaitingFacts
  <2> QED BY <2>1, <2>2, <2>3
<1>22. Waiting' = Waiting \ {t}
  <2>1. Waiting' = {callers[k] : k \in 1 .. n} BY <1>20 DEF Waiting
  <2>2. Waiting = {callers[k] : k \in 1 .. n + 1} BY <1>19 DEF Waiting
  <2> QED BY <2>1, <2>2, <1>21
<1>23. CallersInv'
  <2>1. ASSUME NEW q \in Pcb PROVE at'[q] = "waitpid" <=> q \in Waiting'
    <3>1. CASE q \in {p, t} BY <3>1, <1>4, <1>12, <1>22
    <3>2. CASE q \notin {p, t} BY <3>2, <1>0, <1>1, <1>12, <1>22 DEF CallersInv
    <3> QED BY <3>1, <3>2
  <2>2. \A j, k \in 1 .. n : callers'[j] = callers'[k] => j = k
    BY <1>0, <1>1, <1>19, <1>20 DEF CallersInv
  <2>3. callers' # <<>> => n >= 1 /\ callers'[1] = Shell
    <3>1. SUFFICES ASSUME callers' # <<>> PROVE n >= 1 /\ callers'[1] = Shell OBVIOUS
    <3>2. n >= 1 BY <3>1, <1>13, <1>20 DEF TypeOK
    <3> QED BY <3>2, <1>0, <1>1, <1>3, <1>20 DEF CallersInv
  <2>4. ASSUME NEW k \in 2 .. n PROVE next'[callers'[k]] = callers'[k - 1]
    <3>1. next[callers[k]] = callers[k - 1] BY <1>0, <1>1, <1>19 DEF CallersInv
    <3>2. callers[k] \in Pcb \ {Shell} /\ callers[k] # zombie
      <4>1. callers[1] = Shell BY <1>0, <1>1, <1>3 DEF CallersInv
      <4>2. callers[k] # callers[1] BY <1>0, <1>1, <1>19 DEF CallersInv
      <4>3. callers[k] \in Waiting BY <1>21
      <4>4. callers[k] \in Pcb BY <4>3, <1>5
      <4>5. callers[k] # NULL BY <4>4 DEF NULL, Pcb
      <4>6. callers[k] # zombie BY <4>3, <4>5, <1>9
      <4> QED BY <4>1, <4>2, <4>4, <4>6
    <3> QED BY <3>1, <3>2, <1>10, <1>20
  <2>5. ASSUME NEW k \in 1 .. n - 1
        PROVE  /\ pid'[callers'[k + 1]] = wait_on_childpid'[callers'[k]]
               /\ ppid'[callers'[k + 1]] = pid'[callers'[k]]
    <3>1. /\ pid[callers[k + 1]] = wait_on_childpid[callers[k]]
          /\ ppid[callers[k + 1]] = pid[callers[k]]
      BY <1>0, <1>1, <1>19 DEF CallersInv
    <3> QED BY <3>1, <1>1, <1>20
  <2> QED BY <2>1, <2>2, <2>3, <2>4, <2>5, <1>20 DEF CallersInv
<1>24. callers' # <<>> => Top' = callers[n] /\ n >= 1
  <2>1. SUFFICES ASSUME callers' # <<>> PROVE Top' = callers[n] /\ n >= 1 OBVIOUS
  <2>2. n >= 1 BY <2>1, <1>13, <1>20 DEF TypeOK
  <2> QED BY <2>2, <1>20 DEF Top
<1>25. CalleeInv'
  <2>1. SUFFICES ASSUME callers' # <<>>
                 PROVE  pid'[t] = wait_on_childpid'[Top'] /\ ppid'[t] = pid'[Top']
    BY <1>11 DEF CalleeInv
  <2>2. pid[callers[n + 1]] = wait_on_childpid[callers[n]] /\ ppid[callers[n + 1]] = pid[callers[n]]
    BY <2>1, <1>0, <1>1, <1>19, <1>24 DEF CallersInv
  <2> QED BY <2>1, <2>2, <1>1, <1>21, <1>24
<1>26. InProgram'
  <2>1. CASE callers' = <<>>
    <3>1. n = 0 BY <2>1, <1>20
    <3>2. t = Shell BY <3>1, <1>0, <1>1, <1>3, <1>21 DEF CallersInv
    <3> QED BY <2>1, <3>2, <1>10, <1>11, <1>12 DEF InProgram, Outside
  <2>2. CASE callers' # <<>>
    <3>1. n >= 1 /\ Top' = callers[n] BY <2>2, <1>24
    <3>2. next[t] = callers[n]
      <4>1. n + 1 \in 2 .. Len(callers) BY <3>1, <1>19
      <4>2. next[callers[n + 1]] = callers[(n + 1) - 1]
        BY <4>1, <1>0, <1>1 DEF CallersInv
      <4> QED BY <4>2, <1>21
    <3>3. t # Shell
      <4>1. callers[1] = Shell BY <1>0, <1>1, <1>3 DEF CallersInv
      <4> QED BY <4>1, <3>1, <1>21
    <3>4. next'[t] = callers[n]
      <4>1. t # zombie BY <1>4, <1>5, <1>9 DEF NULL, Pcb
      <4> QED BY <4>1, <3>2, <3>3, <1>5, <1>10
    <3> QED BY <2>2, <3>1, <3>3, <3>4, <1>10, <1>11, <1>12, <1>18 DEF InProgram, Outside
  <2> QED BY <2>1, <2>2
<1> QED BY <1>13, <1>14, <1>16, <1>17, <1>18, <1>23, <1>25, <1>26
        DEF IInv, RingInv, CurrentInv

LEMMA YieldStep == IInv /\ YieldSyscall => IInv'
<1> SUFFICES ASSUME IInv, YieldSyscall PROVE IInv'
  OBVIOUS
<1>0. TypeOK /\ PidInv /\ StateInv /\ KernelInv /\ CallersInv /\ CurrentInv
  BY DEF IInv, RingInv
<1>1. /\ boot = "up" /\ boot' = "up" /\ at[current] = "user" /\ callers = <<>>
      /\ next[current] # current
      /\ UNCHANGED <<next, pid, ppid, wait_on_childpid, pID, first, zombie, used, a, callers>>
  BY DEF YieldSyscall
<1>2. /\ used >= Shell /\ first = Kernel /\ next[Kernel] = Shell
      /\ at[Kernel] = "init_func" /\ pID[0] = 1 /\ Kernel \in Pcb /\ Shell \in Pcb
      /\ Kernel # Shell
  BY <1>0, <1>1 DEF KernelInv, Kernel, Shell, Pcb
<1>3. InProgram BY <1>0, <1>1, <1>2 DEF CurrentInv, Idle, AfterFork, InChild
<1>4. current = Shell /\ next[Shell] = Kernel
  BY <1>1, <1>3 DEF InProgram, Outside
<1>5. /\ current' = Kernel /\ at' = [at EXCEPT ![Shell] = "yield", ![Kernel] = "init_func"]
      /\ process_state' = [process_state EXCEPT ![Kernel] = "Running"]
  <2>1. Resumed(at[Kernel]) = "init_func" BY <1>2 DEF Resumed
  <2> QED BY <2>1, <1>4 DEF YieldSyscall, ContextSwitch
<1>6. /\ at'[Shell] = "yield" /\ at'[Kernel] = "init_func"
      /\ process_state'[Kernel] = "Running" /\ process_state'[Shell] = process_state[Shell]
      /\ \A q \in Pcb \ {Kernel, Shell} : at'[q] = at[q] /\ process_state'[q] = process_state[q]
  BY <1>0, <1>2, <1>5 DEF TypeOK
<1>7. TypeOK' BY <1>0, <1>1, <1>2, <1>5 DEF TypeOK, Place
<1>8. BootInv' BY <1>1 DEF BootInv
<1>9. PidInv'
  <2>1. Active' = Active
    <3>1. \A q \in {Kernel, Shell} : /\ at[q] \notin {"free", "replaced", "exited"}
                                     /\ at'[q] \notin {"free", "replaced", "exited"}
      BY <1>1, <1>2, <1>4, <1>6
    <3> QED BY <3>1, <1>6 DEF Active
  <2> QED BY <2>1, <1>0, <1>1 DEF PidInv
<1>10. StateInv'
  <2>1. ASSUME NEW q \in Pcb PROVE process_state'[q] = "Zombie" <=> at'[q] = "exited"
    <3>1. CASE q = Kernel BY <3>1, <1>6
    <3>2. CASE q = Shell
      <4>1. process_state[Shell] # "Zombie" BY <1>0, <1>1, <1>2, <1>4 DEF StateInv
      <4> QED BY <3>2, <4>1, <1>6
    <3>3. CASE q \notin {Kernel, Shell} BY <3>3, <1>0, <1>6 DEF StateInv
    <3> QED BY <3>1, <3>2, <3>3
  <2>2. ASSUME NEW q \in Pcb, q > used PROVE at'[q] = "free"
    BY <2>2, <1>0, <1>1, <1>2, <1>4, <1>6 DEF StateInv
  <2>3. zombie # NULL => at'[zombie] = "exited"
    BY <1>0, <1>1, <1>2, <1>4, <1>6 DEF StateInv, TypeOK
  <2> QED BY <1>1, <2>1, <2>2, <2>3 DEF StateInv
<1>11. KernelInv' BY <1>1, <1>2, <1>5, <1>6 DEF KernelInv
<1>12. Waiting = {} /\ Waiting' = {} BY <1>1 DEF Waiting
<1>13. CallersInv'
  <2>1. ASSUME NEW q \in Pcb PROVE at'[q] # "waitpid"
    <3>1. at[q] # "waitpid" BY <1>0, <1>1, <1>12 DEF CallersInv
    <3> QED BY <3>1, <1>6
  <2> QED BY <2>1, <1>1, <1>12 DEF CallersInv
<1>14. CalleeInv' BY <1>1 DEF CalleeInv
<1>15. Idle' BY <1>1, <1>4, <1>5, <1>6 DEF Idle
<1> QED BY <1>7, <1>8, <1>9, <1>10, <1>11, <1>13, <1>14, <1>15
        DEF IInv, RingInv, CurrentInv

LEMMA ScheduleStep == IInv /\ Schedule => IInv'
<1> SUFFICES ASSUME IInv, Schedule PROVE IInv'
  OBVIOUS
<1>0. TypeOK /\ PidInv /\ StateInv /\ KernelInv /\ CallersInv /\ CurrentInv
  BY DEF IInv, RingInv
<1>1. /\ boot = "up" /\ boot' = "up" /\ current = Kernel
      /\ UNCHANGED <<next, pid, ppid, wait_on_childpid, pID, first, zombie, used, a, callers>>
  BY DEF Schedule
<1>2. /\ used >= Shell /\ first = Kernel /\ next[Kernel] = Shell
      /\ at[Kernel] = "init_func" /\ pID[0] = 1 /\ Kernel \in Pcb /\ Shell \in Pcb
      /\ Kernel # Shell
  BY <1>0, <1>1 DEF KernelInv, Kernel, Shell, Pcb
<1>3. Idle BY <1>0, <1>1, <1>2 DEF CurrentInv, InProgram, AfterFork, InChild
<1>4. callers = <<>> /\ at[Shell] = "yield" /\ next[Shell] = Kernel BY <1>3 DEF Idle
<1>5. /\ current' = Shell /\ at' = [at EXCEPT ![Kernel] = "init_func", ![Shell] = "user"]
      /\ process_state' = [process_state EXCEPT ![Shell] = "Running"]
  <2>1. Resumed(at[Shell]) = "user" BY <1>4 DEF Resumed
  <2> QED BY <2>1, <1>1, <1>2 DEF Schedule, ContextSwitch
<1>6. /\ at'[Shell] = "user" /\ at'[Kernel] = "init_func"
      /\ process_state'[Shell] = "Running" /\ process_state'[Kernel] = process_state[Kernel]
      /\ \A q \in Pcb \ {Kernel, Shell} : at'[q] = at[q] /\ process_state'[q] = process_state[q]
  BY <1>0, <1>2, <1>5 DEF TypeOK
<1>7. TypeOK' BY <1>0, <1>1, <1>2, <1>5 DEF TypeOK, Place
<1>8. BootInv' BY <1>1 DEF BootInv
<1>9. PidInv'
  <2>1. Active' = Active
    <3>1. \A q \in {Kernel, Shell} : /\ at[q] \notin {"free", "replaced", "exited"}
                                     /\ at'[q] \notin {"free", "replaced", "exited"}
      BY <1>2, <1>4, <1>6
    <3> QED BY <3>1, <1>6 DEF Active
  <2> QED BY <2>1, <1>0, <1>1 DEF PidInv
<1>10. StateInv'
  <2>1. ASSUME NEW q \in Pcb PROVE process_state'[q] = "Zombie" <=> at'[q] = "exited"
    <3>1. CASE q = Shell BY <3>1, <1>6
    <3>2. CASE q = Kernel
      <4>1. process_state[Kernel] # "Zombie" BY <1>0, <1>2 DEF StateInv
      <4> QED BY <3>2, <4>1, <1>6
    <3>3. CASE q \notin {Kernel, Shell} BY <3>3, <1>0, <1>6 DEF StateInv
    <3> QED BY <3>1, <3>2, <3>3
  <2>2. ASSUME NEW q \in Pcb, q > used PROVE at'[q] = "free"
    BY <2>2, <1>0, <1>2, <1>4, <1>6 DEF StateInv
  <2>3. zombie # NULL => at'[zombie] = "exited"
    BY <1>0, <1>2, <1>4, <1>6 DEF StateInv, TypeOK
  <2> QED BY <1>1, <2>1, <2>2, <2>3 DEF StateInv
<1>11. KernelInv' BY <1>1, <1>2, <1>5, <1>6 DEF KernelInv
<1>12. Waiting = {} /\ Waiting' = {} BY <1>1, <1>4 DEF Waiting
<1>13. CallersInv'
  <2>1. ASSUME NEW q \in Pcb PROVE at'[q] # "waitpid"
    <3>1. at[q] # "waitpid" BY <1>0, <1>1, <1>12 DEF CallersInv
    <3> QED BY <3>1, <1>6
  <2> QED BY <2>1, <1>1, <1>4, <1>12 DEF CallersInv
<1>14. CalleeInv' BY <1>1, <1>4 DEF CalleeInv
<1>15. InProgram' BY <1>1, <1>4, <1>5, <1>6 DEF InProgram, Outside
<1> QED BY <1>7, <1>8, <1>9, <1>10, <1>11, <1>13, <1>14, <1>15
        DEF IInv, RingInv, CurrentInv

LEMMA StutterStep == IInv /\ UNCHANGED vars => IInv'
BY DEF IInv, RingInv, vars, pcbVars, TypeOK, BootInv, PidInv, StateInv, KernelInv,
       CallersInv, CalleeInv, CurrentInv, Waiting, Active, Top, Idle, InProgram,
       AfterFork, InChild, Outside

LEMMA InvariantHolds == Spec => []IInv
<1>1. IInv /\ [Next]_vars => IInv'
  BY KernProcessStep, UserInitProcessStep, SwitchToRing3Step, ForkStep, WaitpidStep,
     ExecveStep, ExitStep, YieldStep, ScheduleStep, StutterStep DEF Next, Compute
<1> QED BY <1>1, InitEstablishes, PTL DEF Spec
------------------------------------------------------------------------------
\* Where a walk from current stays, in each of the four situations: among the
\* processes that have neither exited nor been replaced.
LEMMA LiveIsActive ==
  ASSUME IInv, boot = "up"
  PROVE  Live \subseteq Active
<1>p. PICK p : p = current OBVIOUS
<1>0. TypeOK /\ StateInv /\ KernelInv /\ CallersInv /\ CurrentInv BY DEF IInv, RingInv
<1>1. /\ used >= Shell /\ next[Kernel] = Shell /\ at[Kernel] = "init_func" /\ p \in Pcb
      /\ Kernel \in Pcb /\ Shell \in Pcb /\ used \in Nat
  BY <1>0, <1>p DEF KernelInv, Kernel, Shell, Pcb, TypeOK
<1>2. \A x \in Active : x \in Pcb /\ x \in 1 .. used
  BY <1>0, <1>1 DEF Active, StateInv, Pcb
<1>3. /\ Waiting \subseteq Active
      /\ callers # <<>> => Top \in Waiting /\ Shell \in Waiting
      /\ \A x \in Waiting : x # Shell => next[x] \in Waiting
  <2>1. /\ Len(callers) \in Nat /\ Waiting \subseteq Pcb
        /\ callers # <<>> => Len(callers) >= 1 /\ Top \in Waiting
        /\ \A k \in 1 .. Len(callers) : callers[k] \in Waiting
    BY <1>0, WaitingFacts
  <2>2. Waiting \subseteq Active BY <2>1, <1>0 DEF CallersInv, Active
  <2>3. callers # <<>> => Shell \in Waiting BY <2>1, <1>0 DEF CallersInv
  <2>4. ASSUME NEW x \in Waiting, x # Shell PROVE next[x] \in Waiting
    <3>1. PICK k \in 1 .. Len(callers) : x = callers[k] BY DEF Waiting
    <3>2. callers[1] = Shell BY <1>0, <2>1, <3>1 DEF CallersInv
    <3>3. k \in 2 .. Len(callers) /\ k - 1 \in 1 .. Len(callers) BY <2>1, <2>4, <3>1, <3>2
    <3>4. next[x] = callers[k - 1] BY <1>0, <3>1, <3>3 DEF CallersInv
    <3> QED BY <2>1, <3>3, <3>4
  <2> QED BY <2>1, <2>2, <2>3, <2>4
<1>4. ASSUME NEW S, S \subseteq Active, p \in S, \A x \in S : next[x] \in S
      PROVE  Live \subseteq Active
  <2>1. S \subseteq 1 .. used BY <1>2, <1>4
  <2>2. Reachable(p) \subseteq S BY <1>4, <2>1, ReachableInClosed
  <2> QED BY <2>2, <1>4, <1>p DEF Live
<1>5. CASE Idle
  <2>1. /\ p = Kernel /\ at[Shell] = "yield" /\ next[Shell] = Kernel
    BY <1>5, <1>p DEF Idle
  <2>2. {Kernel, Shell} \subseteq Active BY <1>1, <2>1 DEF Active
  <2>3. \A x \in {Kernel, Shell} : next[x] \in {Kernel, Shell} BY <2>1, <1>1
  <2>4. p \in {Kernel, Shell} BY <2>1
  <2> QED BY <2>2, <2>3, <2>4, <1>4
<1>6. CASE InProgram
  <2>1. at[p] = "user" /\ p \in Active BY <1>1, <1>6, <1>p DEF InProgram, Active
  <2>2. CASE callers = <<>>
    <3>1. p = Shell /\ next[p] \in {Kernel, Shell}
      BY <1>6, <1>p, <2>2 DEF InProgram, Outside
    <3>2. {Kernel, Shell} \subseteq Active BY <1>1, <2>1, <3>1 DEF Active
    <3>3. \A x \in {Kernel, Shell} : next[x] \in {Kernel, Shell} BY <3>1, <1>1
    <3>4. p \in {Kernel, Shell} BY <3>1
    <3> QED BY <3>2, <3>3, <3>4, <1>4
  <2>3. CASE callers # <<>>
    <3>1. next[p] = Top /\ next[Shell] = p BY <1>6, <1>p, <2>3 DEF InProgram, Outside
    <3>2. Waiting \cup {p} \subseteq Active BY <1>3, <2>1
    <3>3. \A x \in Waiting \cup {p} : next[x] \in Waiting \cup {p}
      BY <3>1, <2>3, <1>3
    <3> QED BY <3>2, <3>3, <1>4
  <2> QED BY <2>2, <2>3
<1>7. CASE AfterFork
  <2>c. PICK c : c = next[p] OBVIOUS
  <2>1. c \in Active /\ p \in Active /\ Outside(c)
    BY <1>1, <1>7, <1>p, <2>c DEF AfterFork, Active
  <2>2. CASE callers = <<>>
    <3>1. p = Shell /\ next[c] \in {Kernel, Shell} BY <1>p, <2>1, <2>2 DEF Outside
    <3>2. {Kernel, Shell, c} \subseteq Active BY <1>1, <2>1, <3>1 DEF Active
    <3>3. \A x \in {Kernel, Shell, c} : next[x] \in {Kernel, Shell, c}
      BY <3>1, <2>c, <1>1
    <3>4. p \in {Kernel, Shell, c} BY <3>1
    <3> QED BY <3>2, <3>3, <3>4, <1>4
  <2>3. CASE callers # <<>>
    <3>1. next[c] = Top /\ next[Shell] = p BY <1>p, <2>1, <2>3 DEF Outside
    <3>2. Waiting \cup {p, c} \subseteq Active BY <1>3, <2>1
    <3>3. \A x \in Waiting \cup {p, c} : next[x] \in Waiting \cup {p, c}
      BY <3>1, <2>3, <2>c, <1>3
    <3> QED BY <3>2, <3>3, <1>4
  <2> QED BY <2>2, <2>3
<1>8. CASE InChild
  <2>1. /\ p \in Active /\ callers # <<>> /\ next[p] = Top
        /\ next[Shell] \in Waiting \cup {Kernel}
    BY <1>1, <1>8, <1>p DEF InChild, Active
  <2>2. Waiting \cup {p, Kernel} \subseteq Active BY <1>1, <1>3, <2>1 DEF Active
  <2>3. \A x \in Waiting \cup {p, Kernel} : next[x] \in Waiting \cup {p, Kernel}
    BY <2>1, <1>1, <1>3
  <2> QED BY <2>2, <2>3, <1>4
<1> QED BY <1>0, <1>5, <1>6, <1>7, <1>8 DEF CurrentInv

\* contextSwitch puts the running process aside and goes on with another one.
LEMMA SwitchFacts ==
  ASSUME TypeOK, NEW to \in Pcb, NEW place, current \in Pcb, to # current,
         ContextSwitch(to, place)
  PROVE  /\ current' = to /\ at'[current] = place
         /\ at'[to] \in {"forked", "init_func", "user"}
         /\ at'[to] = "init_func" <=> at[to] = "init_func"
         /\ \A p \in Pcb \ {current, to} : at'[p] = at[p]
<1>1. at' = [at EXCEPT ![current] = place, ![to] = Resumed(at[to])] /\ current' = to
  BY DEF ContextSwitch
<1>2. /\ Resumed(at[to]) \in {"forked", "init_func", "user"}
      /\ Resumed(at[to]) = "init_func" <=> at[to] = "init_func"
  BY DEF Resumed
<1>3. at'[to] = Resumed(at[to]) /\ at'[current] = place BY <1>1 DEF TypeOK
<1> QED BY <1>1, <1>2, <1>3 DEF TypeOK

\* What waitpid, yield and exit have in common: the process that runs next is
\* another one, and one that was put aside before or is the kernel's.
LEMMA SuspendFacts ==
  ASSUME IInv, WaitpidSyscall \/ YieldSyscall \/ ExitSyscall
  PROVE  /\ boot = "up" /\ boot' = "up"
         /\ current \in Pcb \ {Kernel} /\ current' \in Pcb \ {current}
         /\ at[current] \in {"user", "forked"}
         /\ at[current'] \in {"unborn", "waitpid", "init_func"}
         /\ at'[current] \in {"waitpid", "yield", "exited"}
         /\ at'[current'] \in {"forked", "init_func", "user"}
         /\ at'[current'] = "init_func" <=> at[current'] = "init_func"
         /\ \A p \in Pcb \ {current, current'} : at'[p] = at[p]
<1>0. TypeOK /\ StateInv /\ KernelInv /\ CallersInv /\ CurrentInv BY DEF IInv, RingInv
<1>1. CASE WaitpidSyscall
  <2>1. /\ boot = "up" /\ boot' = "up" /\ at[current] = "forked" /\ a[current] # 0
        /\ ContextSwitch(next[current], "waitpid")
    BY <1>1 DEF WaitpidSyscall
  <2>2. /\ current \in Pcb \ {Kernel} /\ next[current] \in Pcb /\ at[next[current]] = "unborn"
    BY <1>0, <2>1 DEF CurrentInv, Idle, InProgram, AfterFork, InChild, KernelInv
  <2>3. next[current] # current BY <2>1, <2>2
  <2> QED BY <2>1, <2>2, <2>3, <1>0, SwitchFacts
<1>2. CASE YieldSyscall
  <2>1. /\ boot = "up" /\ boot' = "up" /\ at[current] = "user" /\ callers = <<>>
        /\ next[current] # current /\ ContextSwitch(next[current], "yield")
    BY <1>2 DEF YieldSyscall
  <2>2. /\ current = Shell /\ next[current] = Kernel /\ at[Kernel] = "init_func"
    BY <1>0, <2>1 DEF CurrentInv, Idle, InProgram, AfterFork, InChild, KernelInv, Outside
  <2>3. current \in Pcb \ {Kernel} /\ next[current] \in Pcb
    BY <2>2 DEF Pcb, Kernel, Shell
  <2> QED BY <2>1, <2>2, <2>3, <1>0, SwitchFacts
<1>3. CASE ExitSyscall
  <2>1. boot = "up" /\ at[current] = "user" /\ current \notin {Kernel, Shell}
    BY <1>3 DEF ExitSyscall, MayExit
  <2>2. callers # <<>>
    BY <1>0, <2>1 DEF CurrentInv, Idle, InProgram, AfterFork, InChild, Outside
  <2>3. /\ current \in Pcb /\ current \notin Waiting
        /\ next[current] = Top /\ Top \in Waiting
    BY <2>1, <2>2, ChainFacts
  <2>4. next[current] # current /\ next[current] \in Pcb /\ at[next[current]] = "waitpid"
    BY <2>1, <2>3, <1>0, WaitingFacts DEF CallersInv
  <2>5. PICK temp \in Reachable(next[current]) :
          LET unlinked == [next EXCEPT ![temp] = next[current]]
              listed == IF zombie = NULL THEN unlinked
                        ELSE [unlinked EXCEPT ![zombie] = current] IN
          /\ next[temp] = current
          /\ Leave(listed, ZombieList, listed[current])
    BY <1>3 DEF ExitSyscall
  <2> DEFINE unlinked == [next EXCEPT ![temp] = next[current]]
  <2> DEFINE listed == IF zombie = NULL THEN unlinked
                       ELSE [unlinked EXCEPT ![zombie] = current]
  <2>6. zombie # current BY <1>0, <2>1, <2>3 DEF StateInv, NULL, Pcb
  <2>7. listed[current] = next[current]
    <3>1. unlinked[current] = next[current] BY <2>3, <1>0 DEF TypeOK
    <3> QED BY <3>1, <2>6, <2>3, <1>0 DEF TypeOK
  <2>8. ContextSwitch(next[current], "exited") /\ boot' = boot
    BY <2>5, <2>7 DEF Leave
  <2> QED BY <2>1, <2>3, <2>4, <2>8, <1>0, SwitchFacts
<1> QED BY <1>1, <1>2, <1>3

\* A process in its program, or in the code it got from its parent.
LEMMA ProgramFacts ==
  ASSUME IInv, boot = "up", at[current] \in {"user", "forked"}
  PROVE  current \in Pcb \ {Kernel} /\ TypeOK
BY DEF IInv, RingInv, KernelInv

\* The walk of exitSyscall visits every waiting program, down to the shell.
LEMMA ShellIsReached ==
  ASSUME IInv, boot = "up", at[current] = "user", callers # <<>>
  PROVE  Shell \in Reachable(next[current])
<1>0. TypeOK /\ CallersInv BY DEF IInv, RingInv
<1>1. next[current] = Top /\ Waiting \subseteq 1 .. used /\ Waiting \subseteq Pcb
  BY <1>0, ChainFacts, WaitingFacts
<1>2. /\ Len(callers) \in Nat /\ Len(callers) >= 1 /\ callers[1] = Shell
      /\ \A k \in 1 .. Len(callers) : callers[k] \in Waiting
      /\ \A k \in 2 .. Len(callers) : next[callers[k]] = callers[k - 1]
  BY <1>0, WaitingFacts DEF CallersInv
<1>3. NULL \notin Pcb BY DEF NULL, Pcb
<1>4. ASSUME NEW S \in SUBSET (1 .. used), Top \in S, \A x \in S : next[x] \in S \cup {NULL}
      PROVE  Shell \in S
  <2> DEFINE D == {k \in 1 .. Len(callers) : callers[k] \in S}
  <2>1. D \in SUBSET Nat OBVIOUS
  <2>2. Len(callers) \in D BY <1>2, <1>4 DEF Top
  <2>3. PICK d \in D : \A k \in D : d <= k BY <2>1, <2>2, LeastNat
  <2>4. d = 1
    <3>1. SUFFICES ASSUME d # 1 PROVE FALSE OBVIOUS
    <3>2. d \in 2 .. Len(callers) /\ d - 1 \in 1 .. Len(callers) BY <3>1, <2>3, <1>2
    <3>3. callers[d - 1] \in S \cup {NULL} BY <3>2, <2>3, <1>2, <1>4
    <3>4. callers[d - 1] \in Pcb BY <3>2, <1>1, <1>2
    <3>5. d - 1 \in D BY <3>2, <3>3, <3>4, <1>3
    <3> QED BY <3>2, <3>5, <2>3
  <2> QED BY <2>3, <2>4, <1>2
<1>5. Shell \in 1 .. used
  <2>1. 1 \in 1 .. Len(callers) BY <1>2
  <2>2. Shell \in Waiting BY <2>1, <1>2
  <2> QED BY <2>2, <1>1
<1> QED BY <1>1, <1>4, <1>5 DEF Reachable

LEMMA PredecessorExists == IInv => ExitFindsPredecessor
<1> SUFFICES ASSUME IInv, boot = "up", at[current] = "user"
             PROVE  \E temp \in Reachable(next[current]) : next[temp] = current
  BY DEF ExitFindsPredecessor
<1>0. TypeOK /\ KernelInv /\ CurrentInv BY DEF IInv, RingInv
<1>1. CASE callers # <<>> BY <1>1, ShellIsReached, ChainFacts
<1>2. CASE callers = <<>>
  <2>1. InProgram BY <1>0 DEF CurrentInv, KernelInv, Idle, AfterFork, InChild
  <2>2. current = Shell /\ next[Shell] \in {Kernel, Shell}
    BY <2>1, <1>2 DEF InProgram, Outside
  <2>3. /\ next[Kernel] = Shell /\ Kernel \in 1 .. used /\ Shell \in 1 .. used
    BY <1>0 DEF KernelInv, TypeOK, Kernel, Shell
  <2>4. next[Shell] \in Reachable(next[Shell])
    BY <2>2, <2>3 DEF Reachable
  <2> QED BY <2>2, <2>3, <2>4
<1> QED BY <1>1, <1>2

\* Only the exit of the callee moves a program out of waitpid.
LEMMA WaitStep ==
  ASSUME IInv, [Next]_vars, NEW p \in Pcb, at[p] = "waitpid", at'[p] # "waitpid"
  PROVE  /\ current' = p
         /\ pid[current] = wait_on_childpid[p] /\ ppid[current] = pid[p]
         /\ process_state'[current] = "Zombie"
<1>0. TypeOK /\ BootInv /\ StateInv /\ KernelInv /\ CallersInv /\ CalleeInv /\ CurrentInv
  BY DEF IInv, RingInv
<1>1. boot = "up"
  BY <1>0 DEF BootInv, TypeOK, Kernel, Shell
<1>2. current \in Pcb BY <1>0, <1>1 DEF KernelInv
<1>3. p \in Waiting /\ callers # <<>>
  <2>1. p \in Waiting BY <1>0, <1>1 DEF CallersInv
  <2> QED BY <2>1 DEF Waiting
<1>4. \A x, v : x # p => [at EXCEPT ![x] = v][p] = at[p]
  BY <1>0 DEF TypeOK
<1>5. ~ ForkSyscall
  <2> SUFFICES ASSUME ForkSyscall PROVE FALSE OBVIOUS
  <2>1. at[current] = "user" /\ p # used + 1
    BY <1>0 DEF ForkSyscall, StateInv, TypeOK, Pcb
  <2> QED BY <2>1, <1>0, <1>2 DEF ForkSyscall, TypeOK
<1>6. ~ WaitpidSyscall
  <2> SUFFICES ASSUME WaitpidSyscall PROVE FALSE OBVIOUS
  <2>1. AfterFork BY <1>0, <1>1, <1>2 DEF WaitpidSyscall, KernelInv, CurrentInv, Idle, InProgram, InChild
  <2>2. at[current] # "waitpid" /\ at[next[current]] # "waitpid" /\ next[current] \in Pcb
    BY <2>1 DEF AfterFork
  <2>3. at' = [at EXCEPT ![current] = "waitpid", ![next[current]] = Resumed(at[next[current]])]
    BY DEF WaitpidSyscall, ContextSwitch
  <2> QED BY <2>2, <2>3, <1>0, <1>2 DEF TypeOK
<1>7. ~ ExecveSyscall
  <2> SUFFICES ASSUME ExecveSyscall PROVE FALSE OBVIOUS
  <2>1. at[current] = "forked" /\ p # used + 1
    BY <1>0 DEF ExecveSyscall, StateInv, TypeOK, Pcb
  <2> QED BY <2>1, <1>0, <1>2 DEF ExecveSyscall, TypeOK
<1>8. ~ (YieldSyscall \/ Schedule)
  <2>1. ~ YieldSyscall BY <1>3 DEF YieldSyscall
  <2>2. current = Kernel => Idle
    BY <1>0, <1>1, <1>3 DEF CurrentInv, KernelInv, InProgram, AfterFork, InChild
  <2>3. ~ Schedule BY <2>2, <1>3 DEF Schedule, Idle
  <2> QED BY <2>1, <2>3
<1>9. ~ (KernProcess \/ UserInitProcess \/ SwitchToRing3)
  BY <1>1 DEF KernProcess, UserInitProcess, SwitchToRing3
<1>10. ~ UNCHANGED vars BY DEF vars
<1>11. ExitSyscall
  BY <1>5, <1>6, <1>7, <1>8, <1>9, <1>10 DEF Next, Compute
<1>12. PICK t, q : t = Top /\ q = current OBVIOUS
<1>13. /\ q \in Pcb /\ next[q] = t /\ t \in Waiting /\ t \in Pcb /\ next[Shell] = q
       /\ q \notin Waiting /\ Waiting \subseteq Pcb /\ q # Shell
       /\ Waiting \cup {q} \subseteq 1 .. used
       /\ \A x \in Waiting \cup {q} : next[x] \in Waiting \cup {q}
       /\ \A x \in Waiting : x # Shell => next[x] \in Waiting
  BY <1>0, <1>1, <1>3, <1>11, <1>12, ChainFacts, WaitingFacts DEF ExitSyscall, MayExit
<1>14. PICK temp \in Reachable(next[current]) :
        LET unlinked == [next EXCEPT ![temp] = next[current]]
            listed == IF zombie = NULL THEN unlinked
                      ELSE [unlinked EXCEPT ![zombie] = current] IN
        /\ next[temp] = current
        /\ ContextSwitch(listed[current], "exited")
        /\ process_state' = [process_state EXCEPT ![current] = "Zombie",
                                                  ![listed[current]] = "Running"]
  BY <1>11 DEF ExitSyscall, Leave
<1>15. temp = Shell
  <2>1. Reachable(t) \subseteq Waiting \cup {q} BY <1>13, ReachableInClosed
  <2>2. t # q /\ temp \in Waiting \cup {q} BY <2>1, <1>12, <1>13, <1>14
  <2> QED BY <2>2, <1>12, <1>13, <1>14
<1> DEFINE unlinked == [next EXCEPT ![temp] = next[current]]
           listed == IF zombie = NULL THEN unlinked
                     ELSE [unlinked EXCEPT ![zombie] = current]
<1>16. listed[current] = t
  <2>1. zombie # current
    BY <1>0, <1>1, <1>2, <1>11 DEF StateInv, ExitSyscall, MayExit, NULL, Pcb
  <2>2. unlinked[current] = t BY <1>0, <1>12, <1>13, <1>15 DEF TypeOK
  <2> QED BY <2>1, <2>2, <1>0, <1>2 DEF TypeOK
<1>17. /\ ContextSwitch(listed[current], "exited")
       /\ process_state' = [process_state EXCEPT ![current] = "Zombie",
                                                 ![listed[current]] = "Running"]
  BY <1>14
<1> HIDE DEF listed
<1>18. /\ current' = t /\ at' = [at EXCEPT ![q] = "exited", ![t] = Resumed(at[t])]
       /\ process_state' = [process_state EXCEPT ![q] = "Zombie", ![t] = "Running"]
  BY <1>12, <1>16, <1>17 DEF ContextSwitch
<1>19. p = t
  <2>1. p # q BY <1>3, <1>13
  <2> QED BY <2>1, <1>0, <1>13, <1>18 DEF TypeOK
<1>20. t # q BY <1>13
<1>21. process_state'[q] = "Zombie" BY <1>0, <1>13, <1>18, <1>20 DEF TypeOK
<1>22. pid[q] = wait_on_childpid[t] /\ ppid[q] = pid[t]
  BY <1>0, <1>1, <1>3, <1>12 DEF CalleeInv
<1> QED BY <1>12, <1>18, <1>19, <1>21, <1>22
------------------------------------------------------------------------------
\* The fields of every PCB, pID and the globals of process.c keep their types.
THEOREM RingTypes == Spec => []TypeOK
<1>1. IInv => TypeOK BY DEF IInv
<1> QED BY <1>1, InvariantHolds, PTL

\* fork, waitpid, execve and exit keep the ring a chain of callers, for any
\* number of nested programs.
THEOREM CallChain == Spec => []RingIsCallChain
<1>1. IInv => RingIsCallChain
  <2> SUFFICES ASSUME IInv, boot = "up", at[current] = "user", callers # <<>>
               PROVE  /\ next[current] = Top
                      /\ \A k \in 2 .. Len(callers) : next[callers[k]] = callers[k - 1]
                      /\ callers[1] = Shell /\ next[Shell] = current
    BY DEF RingIsCallChain, Top
  <2>1. next[current] = Top /\ next[Shell] = current BY ChainFacts
  <2> QED BY <2>1 DEF IInv, RingInv, CallersInv
<1> QED BY <1>1, InvariantHolds, PTL

\* exitSyscall's search for its predecessor always ends.
THEOREM ExitTerminates == Spec => []ExitFindsPredecessor
BY PredecessorExists, InvariantHolds, PTL

\* contextSwitch is never given a zombie, however long the zombie list is.
THEOREM NoZombieRuns == Spec => []ZombiesLeaveRing
<1>1. IInv => ZombiesLeaveRing
  BY LiveIsActive DEF ZombiesLeaveRing, IInv, RingInv, StateInv, Active
<1> QED BY <1>1, InvariantHolds, PTL

\* getPID's ids identify the processes that can still run.
THEOREM PidsDiffer == Spec => []DistinctLivePids
<1>1. IInv => DistinctLivePids
  BY LiveIsActive DEF DistinctLivePids, IInv, RingInv, PidInv
<1> QED BY <1>1, InvariantHolds, PTL

\* waitpid returns to a program only at the exit of the child it forked.
THEOREM WaitIsForOwnChild == Spec => WaitReturnsAfterChildExit
<1>1. IInv /\ [Next]_vars =>
        [\A p \in Pcb : at[p] = "waitpid" /\ at'[p] # "waitpid" =>
           /\ current' = p
           /\ pid[current] = wait_on_childpid[p] /\ ppid[current] = pid[p]
           /\ process_state'[current] = "Zombie"]_vars
  BY WaitStep
<1> QED BY <1>1, InvariantHolds, PTL DEF Spec, WaitReturnsAfterChildExit
==============================================================================
