------------------------------ MODULE AhciDisk ------------------------------
(***************************************************************************)
(* The disk driver of sys/enumpci.c and the controller it talks to:        *)
(* port_rebase, write_to_disk, read_from_disk and the test in probeport    *)
(* that fills a buffer and writes it to eight sectors, a hundred times.    *)
(*                                                                         *)
(* Driver and controller run concurrently.  They share the registers of    *)
(* the port (a volatile struct), the command list in memory, and the       *)
(* buffer the controller reads by DMA while a command is in progress.  One *)
(* step of the driver is one access to a register; the buffer is filled in *)
(* one step and a command is built in one.                                 *)
(* The controller is external: it is modelled by what the driver relies    *)
(* on.  After an error it halts with the command still in ci, until its    *)
(* command engine is restarted, which the driver never does: the next      *)
(* command is issued and waited for without end.                           *)
(*                                                                         *)
(* A command says its direction twice: in the command of its FIS, and in   *)
(* the bit w of its header, which is 0, from the device, in write_to_disk  *)
(* as well.  The controller may go by either: byHeader says by which.      *)
(*                                                                         *)
(* The addresses of command list and tables, the signature of the drive    *)
(* and the PCI scan are left out: they are constants.                      *)
(***************************************************************************)
EXTENDS Naturals

CONSTANTS NumSlots,      \* 32
          NumBlocks,     \* 100, how often the buffer is filled
          PerBlock,      \* 8, the sectors written with one filling
          MaxSpin,       \* 1000000
          ReadSector     \* 20, the sector probeport reads at the end

ASSUME DiskAssumption ==
  /\ NumSlots \in Nat \ {0} /\ NumBlocks \in Nat \ {0} /\ PerBlock \in Nat \ {0}
  /\ MaxSpin \in Nat \ {0} /\ ReadSector \in 0 .. NumBlocks * PerBlock - 1

VARIABLES pc, bl, sect, slot, spin,     \* of the driver; NoSlot stands for -1
          buf,           \* what probeport filled the buffer with
          table,         \* the command in each slot: sector and directions
          ci, tfd, tfes, \* PxCI, busy in PxTFD, the error bit of PxIS
          st, fre, cr, fr,              \* bits of PxCMD
          running,       \* controller: the slot it works on
          halted,        \* controller: stopped by an error
          disk,          \* controller: the contents of the sectors
          byHeader,      \* controller: the direction is the header's
          written        \* history: the sectors write_to_disk returned 1 for

driver == <<pc, bl, sect, slot, spin, table, written>>
engine == <<st, fre, cr, fr>>
port == <<ci, tfd, tfes>>
controller == <<running, halted, disk, byHeader>>
vars == <<driver, buf, engine, port, controller>>

Slot == 0 .. NumSlots - 1
NoSlot == NumSlots
Sector == 0 .. NumBlocks * PerBlock - 1
Command == [lba : Sector, write : BOOLEAN, w : BOOLEAN]
Empty == [lba |-> 0, write |-> FALSE, w |-> FALSE]

Setup == {"stop", "stopFRE", "pollFR", "pollCR", "stopped", "setup", "starting", "startFRE",
          "startST"}
Steps == Setup \cup
         {"fill", "begin", "find", "build", "busy", "issue",
          "wait", "error", "check", "done"}

TypeOK ==
  /\ pc \in Steps /\ bl \in 0 .. NumBlocks /\ sect \in 0 .. PerBlock
  /\ slot \in Slot \cup {NoSlot} /\ spin \in 0 .. MaxSpin
  /\ buf \in 0 .. NumBlocks /\ table \in [Slot -> Command]
  /\ ci \subseteq Slot /\ tfd \in BOOLEAN /\ tfes \in BOOLEAN
  /\ st \in BOOLEAN /\ fre \in BOOLEAN /\ cr \in BOOLEAN /\ fr \in BOOLEAN
  /\ running \in Slot \cup {NoSlot} /\ halted \in BOOLEAN
  /\ disk \in [Sector -> 0 .. NumBlocks] /\ byHeader \in BOOLEAN
  /\ written \subseteq Sector

\* The firmware may have left the port's engine running.
Init ==
  /\ pc = "stop" /\ bl = 0 /\ sect = 0 /\ slot = NoSlot /\ spin = 0 /\ buf = 0
  /\ table = [s \in Slot |-> Empty]
  /\ ci = {} /\ tfd \in BOOLEAN /\ tfes = FALSE
  /\ st \in BOOLEAN /\ fre = st /\ cr = st /\ fr = fre
  /\ running = NoSlot /\ halted = FALSE
  /\ disk = [s \in Sector |-> 0] /\ byHeader \in BOOLEAN /\ written = {}
-----------------------------------------------------------------------------
Goto(step) == pc' = step

\* stop_cmd: ST off, FRE off, FR and CR read in turn until both are off, and
\* FRE off once more.
StopCmd ==
  /\ \/ pc = "stop" /\ Goto("stopFRE") /\ st' = FALSE /\ UNCHANGED fre
     \/ pc = "stopFRE" /\ Goto("pollFR") /\ fre' = FALSE /\ UNCHANGED st
     \/ pc = "pollFR" /\ ~ fr /\ Goto("pollCR") /\ UNCHANGED <<st, fre>>
     \/ pc = "pollCR" /\ Goto(IF cr THEN "pollFR" ELSE "stopped") /\ UNCHANGED <<st, fre>>
     \/ pc = "stopped" /\ Goto("setup") /\ fre' = FALSE /\ UNCHANGED st
  /\ UNCHANGED <<bl, sect, slot, spin, buf, table, written, cr, fr, port, controller>>

\* port_rebase: the command list and the tables are cleared.
PortRebase == /\ pc = "setup" /\ Goto("starting")
              /\ table' = [s \in Slot |-> Empty]
              /\ UNCHANGED <<bl, sect, slot, spin, buf, written, engine, ci, tfd, tfes,
                             controller>>

\* Mutant: ST is not set.
StartCmd_NoST ==
  /\ \/ pc = "starting" /\ ~ cr /\ Goto("startFRE") /\ UNCHANGED fre
     \/ pc = "startFRE" /\ Goto("fill") /\ fre' = TRUE
  /\ UNCHANGED <<bl, sect, slot, spin, buf, table, written, st, cr, fr, port, controller>>

\* start_cmd: CR is waited for, then FRE on and ST on.
StartCmd ==
  /\ \/ pc = "starting" /\ ~ cr /\ Goto("startFRE") /\ UNCHANGED <<st, fre>>
     \/ pc = "startFRE" /\ Goto("startST") /\ fre' = TRUE /\ UNCHANGED st
     \/ pc = "startST" /\ Goto("fill") /\ st' = TRUE /\ UNCHANGED fre
  /\ UNCHANGED <<bl, sect, slot, spin, buf, table, written, cr, fr, port, controller>>

\* The loop of probeport: a new filling, or the read at the end.
Fill == /\ pc = "fill" /\ Goto("begin")
        /\ buf' = (IF bl < NumBlocks THEN bl + 1 ELSE buf)
        /\ sect' = 0
        /\ UNCHANGED <<bl, slot, spin, table, written, engine, ci, tfd, tfes, controller>>

\* write_to_disk or read_from_disk begins: the interrupt bits are cleared.
Begin == /\ pc = "begin" /\ Goto("find")
         /\ tfes' = FALSE /\ spin' = 0
         /\ UNCHANGED <<bl, sect, slot, buf, table, written, engine, ci, tfd, controller>>

Writing == bl < NumBlocks
Lba == IF Writing THEN bl * PerBlock + sect ELSE ReadSector

\* The return of write_to_disk with 1 (ok) or 0, and the next round of
\* probeport, which does not look at the result.
Return(ok) ==
  /\ written' = IF ok /\ Writing THEN written \cup {Lba} ELSE written
  /\ IF ~ Writing THEN Goto("done") /\ UNCHANGED <<bl, sect>>
     ELSE IF sect + 1 < PerBlock THEN Goto("begin") /\ sect' = sect + 1 /\ UNCHANGED bl
     ELSE Goto("fill") /\ bl' = bl + 1 /\ sect' = 0

\* Mutant: the slots in progress are not looked at.
FindCmdslot_First == 0

\* find_cmdslot: the lowest slot without a command (sact stays 0).
FindCmdslot == IF Slot \subseteq ci THEN NoSlot
               ELSE CHOOSE s \in Slot \ ci : \A t \in Slot \ ci : s <= t

Find == /\ pc = "find" /\ slot' = FindCmdslot
        /\ IF slot' = NoSlot THEN Return(FALSE)
           ELSE Goto("build") /\ UNCHANGED <<bl, sect, written>>
        /\ UNCHANGED <<spin, buf, table, engine, ci, tfd, tfes, controller>>

\* The command header, table and FIS of the slot.  In both functions the header
\* has w = 0; the FIS is for a write in write_to_disk.
Build == /\ pc = "build" /\ Goto("busy")
         /\ table' = [table EXCEPT ![slot] =
                      [lba |-> Lba, write |-> Writing, w |-> FALSE]]
         /\ UNCHANGED <<bl, sect, slot, spin, buf, written, engine, ci, tfd, tfes,
                        controller>>

\* while (busy && spin < MaxSpin) spin++, and the test for a hung port.
Busy == /\ pc = "busy"
        /\ IF tfd /\ spin < MaxSpin
           THEN spin' = spin + 1 /\ UNCHANGED <<pc, bl, sect, written>>
           ELSE /\ UNCHANGED spin
                /\ IF spin = MaxSpin THEN Return(FALSE)
                   ELSE Goto("issue") /\ UNCHANGED <<bl, sect, written>>
        /\ UNCHANGED <<slot, buf, table, engine, ci, tfd, tfes, controller>>

\* Writing a 1 to a bit of PxCI sets it, a 0 leaves it.
Issue == /\ pc = "issue" /\ Goto("wait")
         /\ ci' = ci \cup {slot}
         /\ UNCHANGED <<bl, sect, slot, spin, buf, table, written, engine, tfd, tfes,
                        controller>>

\* Mutant: the loop does not wait for the slot.
Wait_Not == /\ pc = "wait" /\ Goto("check")
            /\ UNCHANGED <<bl, sect, slot, spin, buf, table, written, engine, ci, tfd, tfes,
                           controller>>

\* The loop reads ci, and when the command is still there, the error bit.
Wait == /\ pc = "wait" /\ Goto(IF slot \in ci THEN "error" ELSE "check")
        /\ UNCHANGED <<bl, sect, slot, spin, buf, table, written, engine, port, controller>>

WaitError == /\ pc = "error"
             /\ IF tfes THEN Return(FALSE) ELSE Goto("wait") /\ UNCHANGED <<bl, sect, written>>
             /\ UNCHANGED <<slot, spin, buf, table, engine, port, controller>>

Check == /\ pc = "check" /\ Return(~ tfes)
         /\ UNCHANGED <<slot, spin, buf, table, engine, ci, tfd, tfes, controller>>

Driver == \/ StopCmd \/ PortRebase \/ StartCmd \/ Fill \/ Begin \/ Find \/ Build
          \/ Busy \/ Issue \/ Wait \/ WaitError \/ Check
-----------------------------------------------------------------------------
\* The controller (external).  CR follows ST, FR follows FRE.
Engine == /\ \/ cr # st /\ cr' = st /\ UNCHANGED fr
             \/ fr # fre /\ fr' = fre /\ UNCHANGED cr
          /\ UNCHANGED <<driver, buf, st, fre, port, controller>>

\* The drive becomes ready, when it was busy without a command.
Ready == /\ tfd /\ running = NoSlot /\ tfd' = FALSE
         /\ UNCHANGED <<driver, buf, engine, ci, tfes, controller>>

\* A command is fetched.
Fetch == /\ cr /\ ~ halted /\ running = NoSlot /\ ~ tfd
         /\ running' \in ci /\ tfd' = TRUE
         /\ UNCHANGED <<driver, buf, engine, ci, tfes, halted, disk, byHeader>>

\* The data moves between the sector and the buffer of the command.  What a
\* read_from_disk gets goes to another buffer, which is left out.
ToDevice == IF byHeader THEN table[running].w ELSE table[running].write
Transfer ==
  LET lba == table[running].lba IN
  /\ disk' = IF ToDevice THEN [disk EXCEPT ![lba] = buf] ELSE disk
  /\ buf' = IF ~ ToDevice /\ table[running].write THEN disk[lba] ELSE buf

Complete == /\ running # NoSlot /\ Transfer
            /\ ci' = ci \ {running} /\ tfd' = FALSE /\ running' = NoSlot
            /\ UNCHANGED <<driver, engine, tfes, halted, byHeader>>

\* An error, before or after the transfer: the command stays in ci.
Fail == /\ running # NoSlot /\ (Transfer \/ UNCHANGED <<disk, buf>>)
        /\ tfes' = TRUE /\ tfd' = FALSE /\ running' = NoSlot /\ halted' = TRUE
        /\ UNCHANGED <<driver, engine, ci, byHeader>>

Controller == Engine \/ Ready \/ Fetch \/ Complete \/ Fail

\* The test is over.
Done == pc = "done" /\ UNCHANGED vars

Next == Driver \/ Controller \/ Done

\* The driver runs with nothing else on the processor, and the controller
\* goes on by itself.  Nothing is assumed of errors, and the drive may
\* stay busy longer than MaxSpin.
Spec == /\ Init /\ [][Next]_vars
        /\ WF_vars(Driver) /\ WF_vars(Engine) /\ WF_vars(Fetch) /\ WF_vars(Complete)
-----------------------------------------------------------------------------
\* A slot is not rebuilt while the controller may still execute it: the
\* command of a slot in ci never changes (find_cmdslot, write_to_disk).
SlotExclusive == [][\A s \in ci : table'[s] = table[s]]_vars

\* The buffer is not filled again while a transfer from it is under way
\* (probeport's loop against the DMA of the controller).
BufferStable == [][Fill => running = NoSlot]_vars

\* When write_to_disk has returned 1, the sector holds what the buffer was
\* filled with for it, and goes on holding it, if the controller goes by the
\* FIS.  If it goes by the header, the sector is read and 1 is returned too.
DoneMeansStored ==
  ~ byHeader => \A s \in written : disk[s] = (s \div PerBlock) + 1

\* Each write and the last read end, with the port hung or not, until the
\* first error: then the next command is waited for without end.
TestEndsOrFails == <>(pc = "done" \/ halted)
=============================================================================
