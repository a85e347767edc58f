---------------------------- MODULE KeyboardInput ----------------------------
(***************************************************************************)
(* Reading a line from the keyboard: scanfstdin, which readSyscall calls   *)
(* for descriptor 0, and the keyboard interrupt handler irq_handler1, both *)
(* of sys/isr.c.                                                           *)
(*                                                                         *)
(* The gates of the system call and of the keyboard are interrupt gates,   *)
(* so a call starts with interrupts off; scanfstdin turns them on to wait  *)
(* for the handler to clear scanFlag, and they stay on while it terminates,*)
(* copies and empties the buffer the handler writes to.  One step of       *)
(* scanfstdin is one access to the shared variables, in the order of the   *)
(* compiled code (index is stored before the terminating 0, and read again *)
(* for the result); the handler runs in one piece, at any of these points. *)
(*                                                                         *)
(* The cells of the buffers hold the stored keys, numbered from 1 on, and  *)
(* 0 for the 0 that scanfstdin stores.  The byte of a key is whatever its  *)
(* number stands for, and is 0 for the keys in nul: kbdus has no character *)
(* for Alt, Home and the function keys, and shift makes a space 32 - 32.   *)
(***************************************************************************)
EXTENDS Naturals

CONSTANTS BufSize,       \* sizeof buffer
          MaxKeys        \* bound: keys stored in a run

ASSUME BufferAssumption == BufSize \in Nat \ {0} /\ MaxKeys \in Nat

VARIABLES pc,            \* what scanfstdin does next, "user" outside it
          scanFlag, localEcho, index, buffer,
          eax,           \* index as loaded for the terminating 0
          pos,           \* bytes memcpy has copied
          line,          \* the caller's buffer
          scanLength,    \* the value returned
          controlkey, shiftkey, capskey,
          typed,         \* history: keys stored so far
          nul,           \* those of them whose byte is 0
          echoed,        \* history: keys stored, echoed and not erased
          last,          \* history: latest key of the lines read before
          entered        \* history: Enter was handled during this read

scan == <<pc, eax, pos, line, scanLength, last>>
keys == <<controlkey, shiftkey, capskey>>
vars == <<scan, scanFlag, localEcho, index, buffer, keys, typed, nul, echoed, entered>>

Byte == 0 .. MaxKeys
Cell == 0 .. BufSize - 1

TypeOK ==
  /\ pc \in {"user", "scanFlag", "localEcho", "wait", "echoOff", "load", "store",
             "terminate", "copy", "length", "reset"}
  /\ scanFlag \in {0, 1} /\ localEcho \in {0, 1}
  /\ index \in 0 .. BufSize /\ buffer \in [Cell -> Byte]
  /\ eax \in Cell /\ pos \in 0 .. BufSize /\ line \in [Cell -> Byte]
  /\ scanLength \in 0 .. BufSize
  /\ controlkey \in {0, 1} /\ shiftkey \in {0, 1} /\ capskey \in {0, 1}
  /\ typed \in Byte /\ nul \subseteq 1 .. typed /\ echoed \subseteq Byte /\ last \in Byte
  /\ entered \in BOOLEAN

Init ==
  /\ pc = "user" /\ scanFlag = 0 /\ localEcho = 0 /\ index = 0
  /\ buffer = [c \in Cell |-> 0] /\ line = [c \in Cell |-> 0]
  /\ eax = 0 /\ pos = 0 /\ scanLength = 0
  /\ controlkey = 0 /\ shiftkey = 0 /\ capskey = 0
  /\ typed = 0 /\ nul = {} /\ echoed = {} /\ last = 0 /\ entered = FALSE
------------------------------------------------------------------------------
\* readSyscall(0, ...): the gate turns interrupts off.
ReadSyscall ==
  /\ pc = "user" /\ pc' = "scanFlag"
  /\ UNCHANGED <<eax, pos, line, scanLength, last, scanFlag, localEcho, index, buffer,
                 keys, typed, nul, echoed, entered>>

SetScanFlag ==
  /\ pc = "scanFlag" /\ pc' = "localEcho" /\ scanFlag' = 1
  /\ UNCHANGED <<eax, pos, line, scanLength, last, localEcho, index, buffer,
                 keys, typed, nul, echoed, entered>>

\* localEcho=1; sti
SetLocalEcho ==
  /\ pc = "localEcho" /\ pc' = "wait" /\ localEcho' = 1
  /\ UNCHANGED <<eax, pos, line, scanLength, last, scanFlag, index, buffer,
                 keys, typed, nul, echoed, entered>>

\* while (scanFlag!=0)
LeaveWait ==
  /\ pc = "wait" /\ scanFlag = 0 /\ pc' = "echoOff"
  /\ UNCHANGED <<eax, pos, line, scanLength, last, scanFlag, localEcho, index, buffer,
                 keys, typed, nul, echoed, entered>>

\* Mutant: the echo is left on until the next read.
ClearLocalEcho_Not ==
  /\ pc = "echoOff" /\ pc' = "load"
  /\ UNCHANGED <<eax, pos, line, scanLength, last, scanFlag, localEcho, index, buffer,
                 keys, typed, nul, echoed, entered>>

ClearLocalEcho ==
  /\ pc = "echoOff" /\ pc' = "load" /\ localEcho' = 0
  /\ UNCHANGED <<eax, pos, line, scanLength, last, scanFlag, index, buffer,
                 keys, typed, nul, echoed, entered>>

LoadIndex ==
  /\ pc = "load" /\ pc' = "store" /\ eax' = index
  /\ UNCHANGED <<pos, line, scanLength, last, scanFlag, localEcho, index, buffer,
                 keys, typed, nul, echoed, entered>>

\* Mutant: index stays at the cell of the terminating 0.
StoreIndex_Not ==
  /\ pc = "store" /\ pc' = "terminate"
  /\ UNCHANGED <<eax, pos, line, scanLength, last, scanFlag, localEcho, index, buffer,
                 keys, typed, nul, echoed, entered>>

StoreIndex ==
  /\ pc = "store" /\ pc' = "terminate" /\ index' = eax + 1
  /\ UNCHANGED <<eax, pos, line, scanLength, last, scanFlag, localEcho, buffer,
                 keys, typed, nul, echoed, entered>>

Terminate ==
  /\ pc = "terminate" /\ pc' = "copy"
  /\ buffer' = [buffer EXCEPT ![eax] = 0] /\ pos' = 0
  /\ UNCHANGED <<eax, line, scanLength, last, scanFlag, localEcho, index,
                 keys, typed, nul, echoed, entered>>

\* memcpy(address, buffer, eax+1), a byte at a time.
CopyByte ==
  /\ pc = "copy"
  /\ line' = [line EXCEPT ![pos] = buffer[pos]] /\ pos' = pos + 1
  /\ pc' = IF pos = eax THEN "length" ELSE "copy"
  /\ UNCHANGED <<eax, scanLength, last, scanFlag, localEcho, index, buffer,
                 keys, typed, nul, echoed, entered>>

ScanLength ==
  /\ pc = "length" /\ pc' = "reset" /\ scanLength' = index
  /\ UNCHANGED <<eax, pos, line, last, scanFlag, localEcho, index, buffer,
                 keys, typed, nul, echoed, entered>>

\* Mutant: the buffer is not emptied.
ResetIndex_Not ==
  /\ pc = "reset" /\ pc' = "user"
  /\ last' = (IF eax > 0 THEN line[eax - 1] ELSE last)
  /\ echoed' = {} /\ entered' = FALSE
  /\ UNCHANGED <<eax, pos, line, scanLength, scanFlag, localEcho, index, buffer, keys, typed, nul>>

\* index=0; return.
ResetIndex ==
  /\ pc = "reset" /\ pc' = "user" /\ index' = 0
  /\ last' = (IF eax > 0 THEN line[eax - 1] ELSE last)
  /\ echoed' = {} /\ entered' = FALSE
  /\ UNCHANGED <<eax, pos, line, scanLength, scanFlag, localEcho, buffer, keys, typed, nul>>

Scanfstdin ==
  \/ SetScanFlag \/ SetLocalEcho \/ LeaveWait \/ ClearLocalEcho \/ LoadIndex
  \/ StoreIndex \/ Terminate \/ CopyByte \/ ScanLength \/ ResetIndex
------------------------------------------------------------------------------
\* Mutant: the system call comes through a trap gate.
InterruptsOn_Always == TRUE

\* User code runs with interrupts on, and scanfstdin after sti.
InterruptsOn == pc \notin {"scanFlag", "localEcho"}

Ignored == UNCHANGED <<scanFlag, localEcho, index, buffer, typed, nul, echoed, entered>>

\* buffer[index]=character, where character may be 0, the echo, index++.  The
\* code does not look at the length of the buffer: lines longer than it are
\* left out.
StoreKey ==
  /\ typed < MaxKeys /\ index + 1 < BufSize
  /\ typed' = typed + 1 /\ nul' \in {nul, nul \cup {typed + 1}}
  /\ buffer' = [buffer EXCEPT ![index] = typed + 1] /\ index' = index + 1
  /\ echoed' = IF localEcho = 1 THEN echoed \cup {typed + 1} ELSE echoed
  /\ UNCHANGED <<scanFlag, localEcho, entered>>

\* Control, shift and caps lock; while control is down only its release counts.
ModifierKey ==
  /\ InterruptsOn
  /\ \/ controlkey' \in {0, 1} /\ UNCHANGED <<shiftkey, capskey>>
     \/ controlkey = 0 /\ shiftkey' \in {0, 1} /\ UNCHANGED <<controlkey, capskey>>
     \/ controlkey = 0 /\ capskey' = 1 - capskey /\ UNCHANGED <<controlkey, shiftkey>>
  /\ Ignored /\ UNCHANGED scan

\* Any key that has no branch of its own, with a character or without, and with
\* shift any key at all.  Under caps lock a key is printed and not stored.
CharacterKey ==
  /\ InterruptsOn /\ controlkey = 0 /\ capskey = 0
  /\ StoreKey
  /\ UNCHANGED <<scan, keys>>

BackspaceKey ==
  /\ InterruptsOn /\ controlkey = 0 /\ capskey = 0 /\ shiftkey = 0
  /\ localEcho = 1 /\ index > 0
  /\ index' = index - 1 /\ echoed' = echoed \ {buffer[index - 1]}
  /\ UNCHANGED <<scan, keys, scanFlag, localEcho, buffer, typed, nul, entered>>

EnterKey ==
  /\ InterruptsOn /\ controlkey = 0 /\ capskey = 0 /\ shiftkey = 0
  /\ scanFlag' = 0 /\ entered' = (pc # "user")
  /\ UNCHANGED <<scan, keys, localEcho, index, buffer, typed, nul, echoed>>

Next == ReadSyscall \/ Scanfstdin
        \/ ModifierKey \/ CharacterKey \/ BackspaceKey \/ EnterKey

Spec == Init /\ [][Next]_vars

\* The processor runs scanfstdin between two interrupts.
FairSpec == Spec /\ WF_vars(Scanfstdin)
------------------------------------------------------------------------------
Copied == pc \in {"length", "reset"}

\* The byte in a cell.
ByteOf(key) == IF key \in nul THEN 0 ELSE key

\* The line the caller gets ends with the 0 of scanfstdin, and every 0 byte
\* before it was typed, as a key without a character: none comes from the keys
\* stored in the buffer while it is terminated and copied.
LineTerminated ==
  Copied => /\ line[eax] = 0
            /\ \A c \in 0 .. eax - 1 : ByteOf(line[c]) = 0 => line[c] \in nul

\* What the user sees is what the program gets: a key that was stored, echoed
\* and not erased is in the line.  (Keys stored without an echo may be lost; a
\* program that takes the line for a string sees it up to the first 0 byte.)
EchoedIsDelivered ==
  Copied => \A key \in echoed : \E c \in 0 .. eax - 1 : line[c] = key

\* No key is read twice or before an earlier one, within a line and from one
\* line to the next.
KeysOnceInOrder ==
  Copied => /\ \A c \in 0 .. eax - 1 : line[c] > last
            /\ \A b, c \in 0 .. eax - 1 : b < c => line[b] < line[c]

\* An Enter that comes during a read ends it: the wake-up is never lost.
EnterEndsRead == entered ~> pc = "user"
==============================================================================
