----------------------------- MODULE ProcessRing -----------------------------
(***************************************************************************)
(* The processes of the kernel: sys/process.c and the fork, execve,        *)
(* waitpid, exit and yield system calls of sys/syscall.c.                  *)
(*                                                                         *)
(* There is no run queue and no preemption.  The PCBs hang in a ring of    *)
(* next pointers, and the system calls decide who runs by rewriting the    *)
(* ring and switching to a neighbour: waitpid switches to current->next    *)
(* whatever pid it is asked for, exit to its own current->next.  Nothing   *)
(* in the kernel records who waits for whom; that a waiting shell wakes    *)
(* when its own command ends, and not before, is a property of the ring.   *)
(*                                                                         *)
(* User programs follow the shell: fork, then execve in the child and      *)
(* waitpid in the parent; a program that was executed ends with exit       *)
(* (crt/crt1.c).  Interrupts are off in system calls and no interrupt      *)
(* handler touches a PCB, so each call up to its switch is one step.       *)
(***************************************************************************)
EXTENDS Integers, Sequences

CONSTANTS MaxPcb,        \* bound: PCB pages kmalloc hands out (never freed)
          MaxProcesses,  \* MAX_PROCESSES, the length of pID
          MaxDepth       \* bound: programs waiting for one another

ASSUME SizeAssumption ==
  /\ MaxPcb \in Nat /\ MaxPcb >= 2
  /\ MaxProcesses \in Nat /\ MaxProcesses >= 2
  /\ MaxDepth \in Nat

VARIABLES next, process_state, pid, ppid, wait_on_childpid,  \* of struct pcb
          pID,             \* which process ids are taken
          first, current, zombie,
          used,            \* number of PCBs allocated so far
          boot,            \* how far start() has come
          at,              \* where each process is, or will be resumed
          a,               \* what sb_fork returned, in each program
          callers          \* history: the programs inside waitpid, in order

pcbVars == <<next, process_state, pid, ppid, wait_on_childpid>>
vars == <<pcbVars, pID, first, current, zombie, used, boot, at, a, callers>>

NULL == 0
Pcb == 1 .. MaxPcb
NoPid == -1
PidOrNone == {NoPid} \cup (0 .. MaxProcesses - 1)

Kernel == 1      \* the PCB kernProcess makes
Shell == 2       \* the PCB userInitProcess makes, bin/sbush

\* unborn: forked, its rip is in forkSyscall; forked: sb_fork has returned;
\* waitpid, yield, exited: suspended in contextSwitch; user: anywhere else.
Place == {"free", "init_func", "user", "unborn", "forked", "waitpid",
          "yield", "exited", "replaced"}

TypeOK ==
  /\ next \in [Pcb -> Pcb \cup {NULL}]
  /\ process_state \in [Pcb -> {"New", "Running", "Zombie"}]
  /\ pid \in [Pcb -> PidOrNone] /\ ppid \in [Pcb -> PidOrNone]
  /\ wait_on_childpid \in [Pcb -> PidOrNone]
  /\ pID \in [0 .. MaxProcesses - 1 -> {0, 1}]
  /\ first \in Pcb \cup {NULL} /\ current \in Pcb \cup {NULL}
  /\ zombie \in Pcb \cup {NULL}
  /\ used \in 0 .. MaxPcb
  /\ boot \in {"kernProcess", "userInitProcess", "switchToRing3", "up"}
  /\ at \in [Pcb -> Place]
  /\ a \in [Pcb -> PidOrNone]
  /\ callers \in Seq(Pcb)

\* kmalloc clears a page; mapProcessID clears pID.
Init ==
  /\ next = [p \in Pcb |-> NULL]
  /\ process_state = [p \in Pcb |-> "New"]
  /\ pid = [p \in Pcb |-> 0] /\ ppid = [p \in Pcb |-> 0]
  /\ wait_on_childpid = [p \in Pcb |-> 0]
  /\ pID = [n \in 0 .. MaxProcesses - 1 |-> 0]
  /\ first = NULL /\ current = NULL /\ zombie = NULL
  /\ used = 0 /\ boot = "kernProcess"
  /\ at = [p \in Pcb |-> "free"] /\ a = [p \in Pcb |-> 0]
  /\ callers = <<>>

\* Mutant: the loop of getPID runs on to the word behind the array.
GetPID_PastEnd == IF \E n \in DOMAIN pID : pID[n] = 0
                  THEN CHOOSE n \in DOMAIN pID :
                         pID[n] = 0 /\ \A m \in 0 .. n - 1 : pID[m] = 1
                  ELSE MaxProcesses

\* getPID: the lowest free id, or -1; ids are never given back.
GetPID == IF \E n \in DOMAIN pID : pID[n] = 0
          THEN CHOOSE n \in DOMAIN pID :
                 pID[n] = 0 /\ \A m \in 0 .. n - 1 : pID[m] = 1
          ELSE NoPid

\* Mutant: getPID does not mark the id it returns.
TakePID_Unmarked == UNCHANGED pID

TakePID == pID' = [n \in DOMAIN pID |-> IF n = GetPID THEN 1 ELSE pID[n]]
------------------------------------------------------------------------------
\* kernProcess: the ring is the kernel process alone.
KernProcess ==
  /\ boot = "kernProcess" /\ boot' = "userInitProcess"
  /\ used' = Kernel
  /\ pid' = [pid EXCEPT ![Kernel] = GetPID] /\ TakePID
  /\ process_state' = [process_state EXCEPT ![Kernel] = "Running"]
  /\ wait_on_childpid' = [wait_on_childpid EXCEPT ![Kernel] = NoPid]
  /\ first' = Kernel /\ current' = Kernel
  /\ next' = [next EXCEPT ![Kernel] = Kernel]
  /\ at' = [at EXCEPT ![Kernel] = "init_func"]
  /\ UNCHANGED <<ppid, zombie, a, callers>>

\* userInitProcess: the shell goes behind the last PCB before current.
UserInitProcess ==
  /\ boot = "userInitProcess" /\ boot' = "switchToRing3"
  /\ used' = Shell
  /\ pid' = [pid EXCEPT ![Shell] = GetPID] /\ TakePID
  /\ wait_on_childpid' = [wait_on_childpid EXCEPT ![Shell] = NoPid]
  /\ \E temp \in Pcb : /\ next[temp] = current
                       /\ next' = [next EXCEPT ![temp] = Shell, ![Shell] = current]
  /\ at' = [at EXCEPT ![Shell] = "user"]
  /\ UNCHANGED <<process_state, ppid, first, current, zombie, a, callers>>

SwitchToRing3 ==
  /\ boot = "switchToRing3" /\ boot' = "up"
  /\ current' = Shell
  /\ UNCHANGED <<pcbVars, pID, first, zombie, used, at, a, callers>>
------------------------------------------------------------------------------
\* Where a process goes on when contextSwitch returns to it.
Resumed(place) == CASE place = "unborn" -> "forked"
                    [] place = "init_func" -> "init_func"
                    [] OTHER -> "user"

\* contextSwitch(to, current): the caller stays at place, to runs.
ContextSwitch(to, place) ==
  /\ current' = to
  /\ at' = [at EXCEPT ![current] = place, ![to] = Resumed(at[to])]

\* forkSyscall: the child's PCB goes right behind current and the parent
\* returns its pid; the child will find 0 in a when it is switched to.
ForkSyscall ==
  LET child == used + 1 IN
  /\ boot = "up" /\ at[current] = "user"
  /\ used + 2 <= MaxPcb /\ Len(callers) < MaxDepth
  /\ used' = child
  /\ pid' = [pid EXCEPT ![child] = GetPID] /\ TakePID
  /\ ppid' = [ppid EXCEPT ![child] = pid[current]]
  /\ process_state' = [process_state EXCEPT ![child] = "New"]
  /\ wait_on_childpid' = [wait_on_childpid EXCEPT ![child] = NoPid]
  /\ next' = [next EXCEPT ![current] = child, ![child] = next[current]]
  /\ at' = [at EXCEPT ![current] = "forked", ![child] = "unborn"]
  /\ a' = [a EXCEPT ![current] = GetPID, ![child] = 0]
  /\ UNCHANGED <<first, current, zombie, boot, callers>>

\* Mutant: the parent keeps pointing at its child.
WaitpidSyscall_HalfSwap ==
  LET child == next[current] IN
  /\ boot = "up" /\ at[current] = "forked" /\ a[current] # 0
  /\ wait_on_childpid' = [wait_on_childpid EXCEPT ![current] = a[current]]
  /\ next' = [next EXCEPT ![child] = current]
  /\ ContextSwitch(child, "waitpid")
  /\ process_state' = [process_state EXCEPT ![child] = "Running"]
  /\ callers' = Append(callers, current)
  /\ UNCHANGED <<pid, ppid, pID, first, zombie, used, boot, a>>

\* waitpidSyscall(a): swap current with its successor and switch to it.  The
\* argument is only compared with 0 (as an unsigned number).
WaitpidSyscall ==
  LET child == next[current] IN
  /\ boot = "up" /\ at[current] = "forked" /\ a[current] # 0
  /\ wait_on_childpid' = [wait_on_childpid EXCEPT ![current] = a[current]]
  /\ next' = [next EXCEPT ![child] = current, ![current] = next[child]]
  /\ ContextSwitch(child, "waitpid")
  /\ process_state' = [process_state EXCEPT ![child] = "Running"]
  /\ callers' = Append(callers, current)
  /\ UNCHANGED <<pid, ppid, pID, first, zombie, used, boot, a>>

\* Mutant: nothing points at the new PCB.
ExecveSyscall_Unlinked ==
  LET newprocess == used + 1 IN
  /\ boot = "up" /\ at[current] = "forked" /\ a[current] = 0
  /\ used' = newprocess
  /\ pid' = [pid EXCEPT ![newprocess] = pid[current]]
  /\ ppid' = [ppid EXCEPT ![newprocess] = ppid[current]]
  /\ next' = [next EXCEPT ![newprocess] = next[current]]
  /\ current' = newprocess
  /\ wait_on_childpid' = [wait_on_childpid EXCEPT ![newprocess] = NoPid]
  /\ process_state' = [process_state EXCEPT ![newprocess] = "Running"]
  /\ at' = [at EXCEPT ![current] = "replaced", ![newprocess] = "user"]
  /\ UNCHANGED <<pID, first, zombie, boot, a, callers>>

\* execveSyscall: a new PCB with the pid of the old one is linked behind
\* first->next, wherever current was; the old PCB is left as it is.
ExecveSyscall ==
  LET newprocess == used + 1
      findprevious == next[first]
      linked == [next EXCEPT ![findprevious] = newprocess] IN
  /\ boot = "up" /\ at[current] = "forked" /\ a[current] = 0
  /\ used' = newprocess
  /\ pid' = [pid EXCEPT ![newprocess] = pid[current]]
  /\ ppid' = [ppid EXCEPT ![newprocess] = ppid[current]]
  /\ next' = [linked EXCEPT ![newprocess] = linked[current]]
  /\ current' = newprocess
  /\ wait_on_childpid' = [wait_on_childpid EXCEPT ![newprocess] = NoPid]
  /\ process_state' = [process_state EXCEPT ![newprocess] = "Running"]
  /\ at' = [at EXCEPT ![current] = "replaced", ![newprocess] = "user"]
  /\ UNCHANGED <<pID, first, zombie, boot, a, callers>>

\* The PCBs the loop of exitSyscall can come to: what every set that is closed
\* under next and contains p contains.
Reachable(p) ==
  {q \in 1 .. used : \A S \in SUBSET (1 .. used) :
     p \in S /\ (\A x \in S : next[x] \in S \cup {NULL}) => q \in S}

\* The end of exitSyscall: next becomes links, the zombie list starts at list,
\* and yieldSyscall switches to the process to.
Leave(links, list, to) ==
  /\ next' = links /\ zombie' = list
  /\ ContextSwitch(to, "exited")
  /\ process_state' = [process_state EXCEPT ![current] = "Zombie", ![to] = "Running"]
  /\ callers' = SubSeq(callers, 1, Len(callers) - 1)
  /\ UNCHANGED <<pid, ppid, wait_on_childpid, pID, first, used, boot, a>>

MayExit == boot = "up" /\ at[current] = "user" /\ current \notin {Kernel, Shell}

\* The zombie list, whose second entry is overwritten.
ZombieList == IF zombie = NULL THEN current ELSE zombie

\* Mutant: the predecessor keeps pointing at the process that exits.
ExitSyscall_Linked ==
  /\ MayExit
  /\ \E temp \in Reachable(next[current]) :
       /\ next[temp] = current
       /\ Leave(IF zombie = NULL THEN next ELSE [next EXCEPT ![zombie] = current],
                ZombieList, next[current])

\* Mutant: the shell is resumed instead of the successor.
ExitSyscall_ToShell ==
  /\ MayExit
  /\ \E temp \in Reachable(next[current]) :
       LET unlinked == [next EXCEPT ![temp] = next[current]] IN
       /\ next[temp] = current
       /\ Leave(IF zombie = NULL THEN unlinked ELSE [unlinked EXCEPT ![zombie] = current],
                ZombieList, next[first])

\* Mutant: the process goes in front of the zombie list, over its own next,
\* before yieldSyscall reads it.
ExitSyscall_Push ==
  /\ MayExit
  /\ \E temp \in Reachable(next[current]) :
       LET unlinked == [next EXCEPT ![temp] = next[current]]
           listed == IF zombie = NULL THEN unlinked
                     ELSE [unlinked EXCEPT ![current] = zombie] IN
       /\ next[temp] = current
       /\ Leave(listed, current, listed[current])

\* exitSyscall: leave the ring, go on the zombie list and yield to
\* current->next.  The search for the predecessor has no other way out than to
\* find it: without one the kernel hangs.
ExitSyscall ==
  /\ MayExit
  /\ \E temp \in Reachable(next[current]) :
       LET unlinked == [next EXCEPT ![temp] = next[current]]
           listed == IF zombie = NULL THEN unlinked
                     ELSE [unlinked EXCEPT ![zombie] = current] IN
       /\ next[temp] = current
       /\ Leave(listed, ZombieList, listed[current])

\* yieldSyscall, called by the shell between two commands.  (The programs have
\* their calls of sb_yield commented out; one that yields while another waits
\* for it would resume the waiting program.)
YieldSyscall ==
  /\ boot = "up" /\ at[current] = "user" /\ callers = <<>>
  /\ next[current] # current
  /\ ContextSwitch(next[current], "yield")
  /\ process_state' = [process_state EXCEPT ![next[current]] = "Running"]
  /\ UNCHANGED <<next, pid, ppid, wait_on_childpid, pID, first, zombie, used, boot, a, callers>>

\* init_func: the kernel process calls schedule() for ever; last is NULL, so
\* schedule goes to current->next.
Schedule ==
  /\ boot = "up" /\ current = Kernel
  /\ ContextSwitch(next[current], "init_func")
  /\ process_state' = [process_state EXCEPT ![next[current]] = "Running"]
  /\ UNCHANGED <<next, pid, ppid, wait_on_childpid, pID, first, zombie, used, boot, a, callers>>

\* A command the shell or a program carries out itself (cd, pwd, a loop).
Compute == /\ boot = "up" /\ at[current] = "user"
           /\ UNCHANGED vars

Next == \/ KernProcess \/ UserInitProcess \/ SwitchToRing3
        \/ ForkSyscall \/ WaitpidSyscall \/ ExecveSyscall \/ ExitSyscall
        \/ YieldSyscall \/ Schedule \/ Compute

Spec == Init /\ [][Next]_vars

\* The boot code and a process that has just forked go on; the kernel process
\* schedules; a program that was executed ends, once it is back in its own code
\* again and again.
Fairness ==
  /\ WF_vars(KernProcess \/ UserInitProcess \/ SwitchToRing3)
  /\ WF_vars(WaitpidSyscall \/ ExecveSyscall) /\ WF_vars(Schedule)
  /\ SF_vars(ExitSyscall)

FairSpec == Spec /\ Fairness
------------------------------------------------------------------------------
\* The processes that run or can still be switched to.
Live == Reachable(current)

\* The ring holds the call chain: behind the running program come the programs
\* waiting for it, innermost first, and the outermost one, the shell, points
\* back to it.  It is what lets exit find its predecessor and its parent.
RingIsCallChain ==
  boot = "up" /\ at[current] = "user" /\ callers # <<>> =>
    /\ next[current] = callers[Len(callers)]
    /\ \A k \in 2 .. Len(callers) : next[callers[k]] = callers[k - 1]
    /\ callers[1] = Shell /\ next[Shell] = current

\* A program in waitpid is switched to only by the exit of its own child, the
\* process it forked and named in the call, although waitpid and exit never
\* look at a pid.
WaitReturnsAfterChildExit ==
  [][\A p \in Pcb : at[p] = "waitpid" /\ at'[p] # "waitpid" =>
       /\ current' = p
       /\ pid[current] = wait_on_childpid[p] /\ ppid[current] = pid[p]
       /\ process_state'[current] = "Zombie"]_vars

\* The predecessor search of exitSyscall ends: the ring leads back to current.
ExitFindsPredecessor ==
  boot = "up" /\ at[current] = "user" =>
    \E temp \in Reachable(next[current]) : next[temp] = current

\* No zombie can be switched to, although the zombie list is linked through
\* the same next pointers as the ring.
ZombiesLeaveRing ==
  boot = "up" => \A p \in Live : process_state[p] # "Zombie" /\ at[p] # "exited"

\* Two processes that can still run never share a pid, unless getPID has run
\* out of ids and answers -1 to every fork.
DistinctLivePids ==
  boot = "up" => \A p, q \in Live : p # q /\ pid[p] = pid[q] => pid[p] = NoPid

\* Every call of waitpid returns.
WaitReturns == \A p \in Pcb : at[p] = "waitpid" ~> at[p] = "user"
==============================================================================
