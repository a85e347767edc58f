----------------------------- MODULE KernelStack -----------------------------
(***************************************************************************)
(* The kernel stacks of the processes of module ProcessRing: the stubs of  *)
(* interrupt.s, the stack pointer of the TSS, contextSwitch, and the copy  *)
(* of the kernel stack that fork makes.                                    *)
(*                                                                         *)
(* A trap from user mode starts at tss.rsp0 and leaves a frame: the        *)
(* registers that the stub pushes and what the handlers keep until the call*)
(* returns.  contextSwitch has one field, kstack, for two things: where    *)
(* the process will go on in the kernel, and where its next trap will      *)
(* start.  So a process that was switched away from goes on, in user mode, *)
(* with a kernel stack that is shorter by the frame it was suspended in.   *)
(*                                                                         *)
(* An address is a kernel stack and a depth, counted in frames from the    *)
(* top.  A frame holds the user registers of the trap it was pushed for,   *)
(* named by the process and the number of its trap.                        *)
(***************************************************************************)
EXTENDS ProcessRing

CONSTANTS StackFrames,   \* bound: frames that a kernel stack page holds
          MaxTraps       \* bound: traps of a process that return to it

ASSUME StackAssumption == StackFrames \in Nat \ {0} /\ MaxTraps \in Nat

VARIABLES kstack,        \* of struct pcb
          rsp0,          \* of the TSS
          frame,         \* what each kernel stack holds
          traps,         \* history: traps of each process
          saved,         \* history: registers each process is to go on with
          aside          \* history: how often each process was put aside

stackVars == <<kstack, rsp0, frame, traps, saved, aside>>
allVars == <<vars, stackVars>>

Address == Pcb \X (0 .. StackFrames)
Registers == Pcb \X Nat
None == <<NULL, 0>>
Unused == [d \in 0 .. StackFrames - 1 |-> None]

StackTypeOK ==
  /\ kstack \in [Pcb -> Address] /\ rsp0 \in Address
  /\ frame \in [Pcb -> [0 .. StackFrames - 1 -> Registers \cup {None}]]
  /\ traps \in [Pcb -> Nat] /\ aside \in [Pcb -> Nat]
  /\ saved \in [Pcb -> Registers \cup {None}]

\* kernProcess, userInitProcess, forkSyscall and execveSyscall set kstack to
\* the top of a page of its own.
StackInit ==
  /\ Init
  /\ kstack = [p \in Pcb |-> <<p, 0>>] /\ rsp0 = <<Kernel, 0>>
  /\ frame = [p \in Pcb |-> Unused]
  /\ traps = [p \in Pcb |-> 0] /\ saved = [p \in Pcb |-> None]
  /\ aside = [p \in Pcb |-> 0]

Below(x) == <<x[1], x[2] + 1>>
Room == rsp0[2] < StackFrames

\* What the processor and irq_common_stub2 push, at rsp0.
Trapped == <<current, traps[current] + 1>>
Pushed == [frame EXCEPT ![rsp0[1]][rsp0[2]] = Trapped]
Trap == Room /\ traps' = [traps EXCEPT ![current] = @ + 1]
------------------------------------------------------------------------------
BootProcess == (KernProcess \/ UserInitProcess) /\ UNCHANGED stackVars

EnterShell == /\ SwitchToRing3 /\ rsp0' = kstack[Shell]
              /\ UNCHANGED <<kstack, frame, traps, saved, aside>>

\* A system call that returns to its caller, a page fault or the timer.
Interrupt ==
  /\ boot = "up" /\ at[current] = "user" /\ Trap /\ traps[current] < MaxTraps
  /\ frame' = Pushed
  /\ UNCHANGED <<vars, kstack, rsp0, saved, aside>>

\* Mutant: the TSS keeps the stack of the process that is left.
SwitchStacks_TssKept(to) ==
  /\ UNCHANGED rsp0
  /\ kstack' = [kstack EXCEPT ![current] = Below(rsp0)]
  /\ aside' = [aside EXCEPT ![current] = @ + 1]

\* Mutant: kstack is put back to the top of the page (init_kern).
SwitchStacks_Reset(to) ==
  /\ rsp0' = <<to, 0>>
  /\ kstack' = [kstack EXCEPT ![current] = Below(rsp0)]
  /\ aside' = [aside EXCEPT ![current] = @ + 1]

\* contextSwitch(to, current) in a trap of current.
SwitchStacks(to) ==
  /\ rsp0' = kstack[to]
  /\ kstack' = [kstack EXCEPT ![current] = Below(rsp0)]
  /\ aside' = [aside EXCEPT ![current] = @ + 1]

Suspend ==
  /\ WaitpidSyscall \/ YieldSyscall \/ ExitSyscall
  /\ Trap /\ frame' = Pushed /\ SwitchStacks(current')
  /\ saved' = [saved EXCEPT ![current] = Trapped]

\* schedule of the kernel process, which no trap started: it is called from
\* init_func at the same depth every time.
KernelSwitch ==
  /\ Schedule
  /\ rsp0' = kstack[current']
  /\ kstack' = [kstack EXCEPT ![Kernel] = <<Kernel, 1>>]
  /\ UNCHANGED <<frame, traps, saved, aside>>

\* The frames of current from kstack down, as the child's page gets them.
Copied(stack, from) ==
  [d \in 0 .. StackFrames - 1 |->
     IF from + d < StackFrames THEN stack[from + d] ELSE None]

\* Mutant: the copy starts at the top of the parent's page.
Fork_FromTop ==
  LET child == used + 1 IN
  /\ ForkSyscall /\ Trap
  /\ frame' = [Pushed EXCEPT ![child] = Copied(Pushed[kstack[current][1]], 0)]
  /\ kstack' = [kstack EXCEPT ![child] = Below(<<child, 0>>)]
  /\ saved' = [saved EXCEPT ![child] = Trapped]
  /\ aside' = [aside EXCEPT ![child] = @ + 1]
  /\ UNCHANGED rsp0

\* forkSyscall: the child gets the frame of this call, at the top of its page.
Fork ==
  LET child == used + 1 IN
  /\ ForkSyscall /\ Trap
  /\ frame' = [Pushed EXCEPT ![child] = Copied(Pushed[kstack[current][1]], kstack[current][2])]
  /\ kstack' = [kstack EXCEPT ![child] = Below(<<child, 0>>)]
  /\ saved' = [saved EXCEPT ![child] = Trapped]
  /\ aside' = [aside EXCEPT ![child] = @ + 1]
  /\ UNCHANGED rsp0

\* execveSyscall: the new process starts on a stack of its own.
Execve ==
  /\ ExecveSyscall /\ Trap
  /\ frame' = Pushed /\ rsp0' = kstack[current']
  /\ UNCHANGED <<kstack, saved, aside>>

StackNext ==
  \/ BootProcess \/ EnterShell \/ Interrupt \/ Suspend
  \/ KernelSwitch \/ Fork \/ Execve

StackSpec == StackInit /\ [][StackNext]_allVars
------------------------------------------------------------------------------
Suspended == {p \in Pcb : at[p] \in {"unborn", "waitpid", "yield"}}

\* A process that was put aside finds, where contextSwitch will set its stack
\* pointer, the frame of the call it was put aside in: no trap of its own or
\* of another process has been pushed over it, and a child finds its parent's.
ResumesOwnFrame ==
  \A p \in Suspended :
    /\ kstack[p][1] = p /\ kstack[p][2] > 0
    /\ frame[p][kstack[p][2] - 1] = saved[p]

\* What a process loses of its kernel stack: a frame each time it is put aside,
\* and nothing for any other trap.  Nothing gives a frame back, so the room of
\* the shell is a matter of how many commands it has waited for.
OneFramePerSwitch ==
  boot = "up" => /\ rsp0 = kstack[current]
                 /\ \A p \in Pcb \ {Kernel} : kstack[p] = <<p, aside[p]>>
==============================================================================
