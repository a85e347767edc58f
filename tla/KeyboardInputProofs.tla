------------------------- MODULE KeyboardInputProofs -------------------------
(***************************************************************************)
(* Proofs about reading a line, for a buffer of any size and any number of *)
(* keys.  Keys go on being stored while scanfstdin terminates and copies   *)
(* the buffer.  They miss the line because the handler's index is never    *)
(* below the length that scanfstdin has loaded: with the echo off nothing  *)
(* is erased, and index is moved past the terminating 0 before the 0 is    *)
(* stored.                                                                 *)
(***************************************************************************)
EXTENDS KeyboardInput, TLAPS

USE BufferAssumption

\* scanfstdin has not yet loaded the length of the line.
Before == pc \in {"user", "scanFlag", "localEcho", "wait", "echoOff", "load"}
LineLength == IF Before THEN index ELSE eax

\* The keys of the line are in the buffer in the order they were typed, behind
\* those of the lines before, and the echoed ones are among them.
KeysInv ==
  /\ last <= typed
  /\ \A c \in 0 .. LineLength - 1 : buffer[c] > last /\ buffer[c] <= typed
  /\ \A b, c \in 0 .. LineLength - 1 : b < c => buffer[b] < buffer[c]
  /\ \A key \in echoed : \E c \in 0 .. LineLength - 1 : buffer[c] = key

\* Where the handler stores.
IndexInv ==
  /\ Before \/ pc = "store" => index \in Cell
  /\ ~ Before => index >= eax
  /\ pc \in {"terminate", "copy", "length", "reset"} => index > eax
  /\ pc \in {"copy", "length", "reset"} => buffer[eax] = 0
  /\ localEcho = 1 => pc \in {"wait", "echoOff"}

\* What has been copied.
CopyInv ==
  /\ pc = "copy" => pos <= eax /\ \A c \in 0 .. pos - 1 : line[c] = buffer[c]
  /\ Copied => \A c \in 0 .. eax : line[c] = buffer[c]

ReadInv == TypeOK /\ KeysInv /\ IndexInv /\ CopyInv
------------------------------------------------------------------------------
LEMMA ReadInit == Init => ReadInv
<1> SUFFICES ASSUME Init PROVE ReadInv
  OBVIOUS
<1>1. TypeOK
  <2>1. entered \in BOOLEAN BY Zenon DEF Init
  <2> QED BY <2>1 DEF Init, TypeOK, Byte, Cell
<1>2. KeysInv /\ IndexInv /\ CopyInv
  BY DEF Init, KeysInv, IndexInv, CopyInv, LineLength, Before, Cell, Copied
<1> QED BY <1>1, <1>2 DEF ReadInv

\* The steps that move neither the line nor the buffer.
LEMMA QuietStep ==
  ASSUME ReadInv, UNCHANGED <<eax, pos, line, last, index, buffer, typed, nul, echoed>>,
         (Before /\ Before') \/ (Copied /\ Copied') \/ pc' = pc,
         localEcho' = 1 => pc' \in {"wait", "echoOff"}
  PROVE  KeysInv' /\ IndexInv' /\ CopyInv'
<1>1. LineLength' = LineLength BY DEF LineLength, Before, Copied
<1>2. KeysInv' BY <1>1 DEF ReadInv, KeysInv
<1>3. IndexInv' /\ CopyInv' BY DEF ReadInv, IndexInv, CopyInv, Before, Copied
<1> QED BY <1>2, <1>3

LEMMA QuietScanStep ==
  ASSUME ReadInv,
         ReadSyscall \/ SetScanFlag \/ SetLocalEcho \/ LeaveWait \/ ClearLocalEcho \/ ScanLength
  PROVE  ReadInv'
<1>1. UNCHANGED <<eax, pos, line, last, index, buffer, keys, typed, nul, echoed, entered>>
  BY DEF ReadSyscall, SetScanFlag, SetLocalEcho, LeaveWait, ClearLocalEcho, ScanLength
<1>2. /\ pc' \in {"user", "scanFlag", "localEcho", "wait", "echoOff", "load", "length", "reset"}
      /\ scanFlag' \in {0, 1} /\ localEcho' \in {0, 1} /\ scanLength' \in 0 .. BufSize
  BY DEF ReadSyscall, SetScanFlag, SetLocalEcho, LeaveWait, ClearLocalEcho, ScanLength,
         ReadInv, TypeOK
<1>3. TypeOK' BY <1>1, <1>2 DEF ReadInv, TypeOK, keys
<1>4. (Before /\ Before') \/ (Copied /\ Copied')
  BY DEF ReadSyscall, SetScanFlag, SetLocalEcho, LeaveWait, ClearLocalEcho, ScanLength,
         Before, Copied
<1>5. localEcho' = 1 => pc' \in {"wait", "echoOff"}
  BY DEF ReadSyscall, SetScanFlag, SetLocalEcho, LeaveWait, ClearLocalEcho, ScanLength,
         ReadInv, IndexInv
<1> QED BY <1>1, <1>3, <1>4, <1>5, QuietStep DEF ReadInv

\* From here on the line is what lies below eax.
LEMMA LoadIndexStep == ReadInv /\ LoadIndex => ReadInv'
<1> SUFFICES ASSUME ReadInv, LoadIndex PROVE ReadInv'
  OBVIOUS
<1>1. /\ pc = "load" /\ pc' = "store" /\ eax' = index
      /\ UNCHANGED <<pos, line, scanLength, last, scanFlag, localEcho, index, buffer,
                     keys, typed, nul, echoed, entered>>
  BY DEF LoadIndex
<1>2. index \in Cell /\ index \in Nat BY <1>1 DEF ReadInv, IndexInv, Before, Cell
<1>3. TypeOK' BY <1>1, <1>2 DEF ReadInv, TypeOK, keys
<1>4. LineLength' = LineLength BY <1>1 DEF LineLength, Before
<1>5. KeysInv' BY <1>1, <1>4 DEF ReadInv, KeysInv
<1>6. IndexInv' /\ CopyInv' BY <1>1, <1>2 DEF ReadInv, IndexInv, CopyInv, Before, Copied
<1> QED BY <1>3, <1>5, <1>6 DEF ReadInv

LEMMA StoreIndexStep == ReadInv /\ StoreIndex => ReadInv'
<1> SUFFICES ASSUME ReadInv, StoreIndex PROVE ReadInv'
  OBVIOUS
<1>1. /\ pc = "store" /\ pc' = "terminate" /\ index' = eax + 1
      /\ UNCHANGED <<eax, pos, line, scanLength, last, scanFlag, localEcho, buffer,
                     keys, typed, nul, echoed, entered>>
  BY DEF StoreIndex
<1>2. eax \in Cell /\ eax \in Nat /\ eax + 1 \in 0 .. BufSize BY DEF ReadInv, TypeOK, Cell
<1>3. TypeOK' BY <1>1, <1>2 DEF ReadInv, TypeOK, keys
<1>4. LineLength' = LineLength BY <1>1 DEF LineLength, Before
<1>5. KeysInv' BY <1>1, <1>4 DEF ReadInv, KeysInv
<1>6. IndexInv' /\ CopyInv' BY <1>1, <1>2 DEF ReadInv, IndexInv, CopyInv, Before, Copied
<1> QED BY <1>3, <1>5, <1>6 DEF ReadInv

\* The 0 falls behind the line.
LEMMA TerminateStep == ReadInv /\ Terminate => ReadInv'
<1> SUFFICES ASSUME ReadInv, Terminate PROVE ReadInv'
  OBVIOUS
<1>1. /\ pc = "terminate" /\ pc' = "copy" /\ buffer' = [buffer EXCEPT ![eax] = 0] /\ pos' = 0
      /\ UNCHANGED <<eax, line, scanLength, last, scanFlag, localEcho, index,
                     keys, typed, nul, echoed, entered>>
  BY DEF Terminate
<1>t. /\ eax \in Cell /\ eax \in Nat /\ buffer \in [Cell -> Byte] /\ 0 \in Byte
      /\ index \in Nat
  BY DEF ReadInv, TypeOK, Cell, Byte
<1>2. TypeOK' BY <1>1, <1>t DEF ReadInv, TypeOK, keys
<1>3. buffer'[eax] = 0 /\ \A c \in 0 .. eax - 1 : buffer'[c] = buffer[c]
  BY <1>1, <1>t DEF Cell
<1>4. LineLength = eax /\ LineLength' = eax BY <1>1 DEF LineLength, Before
<1>5. KeysInv' BY <1>1, <1>3, <1>4 DEF ReadInv, KeysInv
<1>6. IndexInv' /\ CopyInv'
  BY <1>1, <1>3, <1>t DEF ReadInv, IndexInv, CopyInv, Before, Copied
<1> QED BY <1>2, <1>5, <1>6 DEF ReadInv

LEMMA CopyByteStep == ReadInv /\ CopyByte => ReadInv'
<1> SUFFICES ASSUME ReadInv, CopyByte PROVE ReadInv'
  OBVIOUS
<1>1. /\ pc = "copy" /\ line' = [line EXCEPT ![pos] = buffer[pos]] /\ pos' = pos + 1
      /\ pc' = IF pos = eax THEN "length" ELSE "copy"
      /\ UNCHANGED <<eax, scanLength, last, scanFlag, localEcho, index, buffer,
                     keys, typed, nul, echoed, entered>>
  BY DEF CopyByte
<1>t. /\ eax \in Cell /\ eax \in Nat /\ buffer \in [Cell -> Byte] /\ line \in [Cell -> Byte]
      /\ pos \in Nat /\ pos <= eax /\ pos \in Cell /\ pos + 1 \in 0 .. BufSize
  BY <1>1 DEF ReadInv, TypeOK, Cell, CopyInv
<1>2. TypeOK' BY <1>1, <1>t DEF ReadInv, TypeOK, keys
<1>3. \A c \in 0 .. pos : line'[c] = buffer'[c]
  <2>1. \A c \in 0 .. pos - 1 : line[c] = buffer[c] /\ c \in Cell /\ c # pos
    BY <1>1, <1>t DEF ReadInv, CopyInv, Cell
  <2>2. \A c \in 0 .. pos : c = pos \/ c \in 0 .. pos - 1 BY <1>t
  <2> QED BY <2>1, <2>2, <1>1, <1>t
<1>4. LineLength' = LineLength BY <1>1 DEF LineLength, Before
<1>5. KeysInv' BY <1>1, <1>4 DEF ReadInv, KeysInv
<1>6. IndexInv' BY <1>1 DEF ReadInv, IndexInv, Before
<1>7. CopyInv'
  <2>1. pos # eax => pos + 1 <= eax BY <1>t
  <2>2. (pos + 1) - 1 = pos BY <1>t
  <2> QED BY <2>1, <2>2, <1>1, <1>3 DEF CopyInv, Copied
<1> QED BY <1>2, <1>5, <1>6, <1>7 DEF ReadInv

\* The next line begins, with keys later than those of this one.
LEMMA ResetIndexStep == ReadInv /\ ResetIndex => ReadInv'
<1> SUFFICES ASSUME ReadInv, ResetIndex PROVE ReadInv'
  OBVIOUS
<1>1. /\ pc = "reset" /\ pc' = "user" /\ index' = 0
      /\ last' = (IF eax > 0 THEN line[eax - 1] ELSE last)
      /\ echoed' = {} /\ entered' = FALSE
      /\ UNCHANGED <<eax, pos, line, scanLength, scanFlag, localEcho, buffer, keys, typed, nul>>
  BY DEF ResetIndex
<1>t. /\ eax \in Cell /\ eax \in Nat /\ line \in [Cell -> Byte] /\ last \in Byte
      /\ BufSize \in Nat /\ BufSize > 0
  BY DEF ReadInv, TypeOK, Cell
<1>2. last' \in Byte /\ last' <= typed'
  <2>1. CASE eax > 0
    <3>1. eax - 1 \in Cell /\ eax - 1 \in 0 .. eax /\ eax - 1 \in 0 .. eax - 1
      BY <1>t, <2>1 DEF Cell
    <3>2. LineLength = eax BY <1>1 DEF LineLength, Before
    <3>3. line[eax - 1] = buffer[eax - 1] /\ buffer[eax - 1] <= typed
      BY <1>1, <3>1, <3>2 DEF ReadInv, CopyInv, Copied, KeysInv
    <3> QED BY <1>1, <1>t, <2>1, <3>1, <3>3
  <2>2. CASE ~ (eax > 0) BY <1>1, <1>t, <2>2 DEF ReadInv, KeysInv
  <2> QED BY <2>1, <2>2
<1>3. entered' \in BOOLEAN BY <1>1, Zenon
<1>4. TypeOK' BY <1>1, <1>2, <1>3 DEF ReadInv, TypeOK, keys
<1>5. KeysInv' BY <1>1, <1>2 DEF KeysInv, LineLength, Before
<1>6. IndexInv' /\ CopyInv' BY <1>1, <1>t DEF ReadInv, IndexInv, CopyInv, Before, Copied, Cell
<1> QED BY <1>4, <1>5, <1>6 DEF ReadInv
------------------------------------------------------------------------------
LEMMA ModifierStep == ReadInv /\ (ModifierKey \/ EnterKey) => ReadInv'
<1> SUFFICES ASSUME ReadInv, ModifierKey \/ EnterKey PROVE ReadInv'
  OBVIOUS
<1>1. UNCHANGED <<scan, localEcho, index, buffer, typed, nul, echoed>>
  BY DEF ModifierKey, EnterKey, Ignored
<1>2. scanFlag' \in {0, 1} /\ controlkey' \in {0, 1} /\ shiftkey' \in {0, 1} /\ capskey' \in {0, 1}
  BY DEF ModifierKey, EnterKey, Ignored, keys, ReadInv, TypeOK
<1>3. entered' \in BOOLEAN
  <2>1. entered \in BOOLEAN BY DEF ReadInv, TypeOK
  <2> QED BY <2>1, Zenon DEF ModifierKey, EnterKey, Ignored
<1>4. TypeOK' BY <1>1, <1>2, <1>3 DEF ReadInv, TypeOK, scan
<1>5. localEcho' = 1 => pc' \in {"wait", "echoOff"} BY <1>1 DEF ReadInv, IndexInv, scan
<1> QED BY <1>1, <1>4, <1>5, QuietStep DEF ReadInv, scan

\* A key that comes after the length was loaded lies behind the line.
LEMMA CharacterStep == ReadInv /\ CharacterKey => ReadInv'
<1> SUFFICES ASSUME ReadInv, CharacterKey PROVE ReadInv'
  OBVIOUS
<1>1. /\ typed < MaxKeys /\ index + 1 < BufSize /\ typed' = typed + 1
      /\ nul' \in {nul, nul \cup {typed + 1}}
      /\ buffer' = [buffer EXCEPT ![index] = typed + 1] /\ index' = index + 1
      /\ echoed' = IF localEcho = 1 THEN echoed \cup {typed + 1} ELSE echoed
      /\ UNCHANGED <<pc, eax, pos, line, scanLength, last, keys, scanFlag, localEcho, entered>>
  BY DEF CharacterKey, StoreKey, scan
<1>t. /\ typed \in Nat /\ typed + 1 \in Byte /\ index \in Nat /\ index \in Cell
      /\ index + 1 \in Cell /\ index + 1 \in 0 .. BufSize /\ eax \in Nat /\ pos \in Nat
      /\ buffer \in [Cell -> Byte] /\ last \in Nat
  BY <1>1 DEF ReadInv, TypeOK, Cell, Byte
<1>2. TypeOK'
  <2>1. echoed' \subseteq Byte BY <1>1, <1>t DEF ReadInv, TypeOK
  <2>2. nul' \subseteq 1 .. typed + 1
    <3>1. 1 .. typed \subseteq 1 .. typed + 1 /\ typed + 1 \in 1 .. typed + 1 BY <1>t
    <3> QED BY <1>1, <3>1 DEF ReadInv, TypeOK
  <2> QED BY <1>1, <1>t, <2>1, <2>2 DEF ReadInv, TypeOK, keys
<1>3. buffer'[index] = typed + 1 /\ \A c \in Cell \ {index} : buffer'[c] = buffer[c]
  BY <1>1, <1>t
<1>4. CASE Before
  <2>1. LineLength = index /\ LineLength' = index + 1 /\ ~ Copied /\ pc # "copy"
    BY <1>1, <1>4 DEF LineLength, Before, Copied
  <2>2. \A c \in 0 .. index - 1 :
          c \in Cell \ {index} /\ buffer[c] \in Nat /\ buffer[c] > last /\ buffer[c] <= typed
    BY <1>t, <2>1 DEF ReadInv, KeysInv, Cell, Byte
  <2>3. \A c \in 0 .. index : c = index \/ c \in 0 .. index - 1 BY <1>t
  <2>4. (index + 1) - 1 = index BY <1>t
  <2>5. last' <= typed' BY <1>1, <1>t DEF ReadInv, KeysInv
  <2>6. \A c \in 0 .. index : buffer'[c] > last /\ buffer'[c] <= typed + 1
    <3>1. typed + 1 > last BY <1>t DEF ReadInv, KeysInv
    <3> QED BY <1>3, <1>t, <2>2, <2>3, <3>1
  <2>7. \A b, c \in 0 .. index : b < c => buffer'[b] < buffer'[c]
    <3> SUFFICES ASSUME NEW b \in 0 .. index, NEW c \in 0 .. index, b < c
                 PROVE  buffer'[b] < buffer'[c]
      OBVIOUS
    <3>1. b \in 0 .. index - 1 BY <1>t
    <3>2. CASE c = index BY <1>3, <1>t, <2>2, <3>1, <3>2
    <3>3. CASE c \in 0 .. index - 1
      BY <1>3, <2>1, <2>2, <3>1, <3>3 DEF ReadInv, KeysInv
    <3> QED BY <2>3, <3>2, <3>3
  <2>8. \A key \in echoed' : \E c \in 0 .. index : buffer'[c] = key
    <3> SUFFICES ASSUME NEW key \in echoed' PROVE \E c \in 0 .. index : buffer'[c] = key
      OBVIOUS
    <3>1. CASE key = typed + 1 BY <1>3, <1>t, <3>1
    <3>2. CASE key \in echoed
      <4>1. PICK c \in 0 .. index - 1 : buffer[c] = key BY <2>1, <3>2 DEF ReadInv, KeysInv
      <4> QED BY <4>1, <1>3, <1>t, <2>2
    <3> QED BY <3>1, <3>2, <1>1
  <2>9. KeysInv' BY <1>1, <2>1, <2>4, <2>5, <2>6, <2>7, <2>8 DEF KeysInv
  <2>10. IndexInv' /\ CopyInv'
    BY <1>1, <1>t, <1>4, <2>1 DEF ReadInv, IndexInv, CopyInv, Before, Copied
  <2> QED BY <1>2, <2>9, <2>10 DEF ReadInv
<1>5. CASE ~ Before
  <2>1. LineLength = eax /\ LineLength' = eax /\ echoed' = echoed /\ index >= eax
    BY <1>1, <1>5 DEF LineLength, Before, ReadInv, IndexInv
  <2>2. \A c \in 0 .. eax - 1 : c \in Cell \ {index} /\ buffer'[c] = buffer[c]
    BY <1>3, <1>t, <2>1 DEF Cell
  <2>3. \A c \in 0 .. eax - 1 : buffer[c] \in Nat BY <1>t, <2>2 DEF Byte
  <2>4. KeysInv'
    <3>1. last <= typed + 1 /\ \A c \in 0 .. eax - 1 : buffer[c] <= typed + 1
      BY <1>t, <2>1, <2>3 DEF ReadInv, KeysInv
    <3> QED BY <3>1, <1>1, <2>1, <2>2 DEF ReadInv, KeysInv
  <2>5. index > eax => buffer'[eax] = buffer[eax]
    BY <1>3, <1>t DEF ReadInv, TypeOK
  <2>6. IndexInv' BY <1>1, <1>t, <1>5, <2>1, <2>5 DEF ReadInv, IndexInv, Before
  <2>7. CopyInv'
    <3>1. pc = "copy" => \A c \in 0 .. pos - 1 : c \in 0 .. eax - 1
      BY <1>t DEF ReadInv, CopyInv
    <3>2. \A c \in 0 .. eax : c = eax \/ c \in 0 .. eax - 1 BY <1>t
    <3>3. Copied => index > eax BY DEF ReadInv, IndexInv, Copied
    <3>4. Copied => \A c \in 0 .. eax : buffer'[c] = buffer[c] BY <2>2, <2>5, <3>2, <3>3
    <3> QED BY <1>1, <2>2, <3>1, <3>4 DEF ReadInv, CopyInv, Copied
  <2> QED BY <1>2, <2>4, <2>6, <2>7 DEF ReadInv
<1> QED BY <1>4, <1>5

\* Only while the echo is on is a key erased, before the length is loaded.
LEMMA BackspaceStep == ReadInv /\ BackspaceKey => ReadInv'
<1> SUFFICES ASSUME ReadInv, BackspaceKey PROVE ReadInv'
  OBVIOUS
<1>1. /\ localEcho = 1 /\ index > 0 /\ index' = index - 1
      /\ echoed' = echoed \ {buffer[index - 1]}
      /\ UNCHANGED <<pc, eax, pos, line, scanLength, last, keys, scanFlag, localEcho, buffer,
                     typed, nul, entered>>
  BY DEF BackspaceKey, scan
<1>2. pc \in {"wait", "echoOff"} BY <1>1 DEF ReadInv, IndexInv
<1>t. index \in Nat /\ index \in Cell /\ index - 1 \in Cell /\ index - 1 \in 0 .. BufSize
  BY <1>1, <1>2 DEF ReadInv, IndexInv, Before, Cell
<1>3. TypeOK' BY <1>1, <1>t DEF ReadInv, TypeOK, keys
<1>4. LineLength = index /\ LineLength' = index - 1 BY <1>1, <1>2 DEF LineLength, Before
<1>5. \A c \in 0 .. (index - 1) - 1 : c \in 0 .. index - 1 BY <1>t
<1>6. ASSUME NEW key \in echoed' PROVE \E c \in 0 .. (index - 1) - 1 : buffer[c] = key
  <2>1. PICK c \in 0 .. index - 1 : buffer[c] = key BY <1>1, <1>4, <1>6 DEF ReadInv, KeysInv
  <2>2. c # index - 1 BY <1>1, <1>6, <2>1
  <2> QED BY <1>t, <2>1, <2>2
<1>7. KeysInv' BY <1>1, <1>4, <1>5, <1>6 DEF ReadInv, KeysInv
<1>8. IndexInv' /\ CopyInv'
  BY <1>1, <1>2, <1>t DEF ReadInv, IndexInv, CopyInv, Before, Copied
<1> QED BY <1>3, <1>7, <1>8 DEF ReadInv

LEMMA ReadInvariantHolds == Spec => []ReadInv
<1>1. ReadInv /\ [Next]_vars => ReadInv'
  <2> SUFFICES ASSUME ReadInv, [Next]_vars PROVE ReadInv'
    OBVIOUS
  <2>1. CASE ReadSyscall \/ Scanfstdin
    BY <2>1, QuietScanStep, LoadIndexStep, StoreIndexStep, TerminateStep, CopyByteStep,
       ResetIndexStep DEF Scanfstdin
  <2>2. CASE ModifierKey \/ CharacterKey \/ BackspaceKey \/ EnterKey
    BY <2>2, ModifierStep, CharacterStep, BackspaceStep
  <2>3. CASE UNCHANGED vars
    <3>1. UNCHANGED <<scan, localEcho, index, buffer, typed, nul, echoed>> BY <2>3 DEF vars
    <3>2. TypeOK' BY <2>3 DEF vars, scan, keys, ReadInv, TypeOK
    <3>3. localEcho' = 1 => pc' \in {"wait", "echoOff"} BY <3>1 DEF ReadInv, IndexInv, scan
    <3> QED BY <3>1, <3>2, <3>3, QuietStep DEF ReadInv, scan
  <2> QED BY <2>1, <2>2, <2>3 DEF Next
<1> QED BY <1>1, ReadInit, PTL DEF Spec
------------------------------------------------------------------------------
\* The caller of read gets a terminated line, and a 0 byte inside it only where a
\* key without a character was typed, though the handler stores keys while
\* scanfstdin terminates and copies the line.
THEOREM LineIsTerminated == Spec => []LineTerminated
<1>1. ReadInv => LineTerminated
  <2> SUFFICES ASSUME ReadInv, Copied
               PROVE  /\ line[eax] = 0
                      /\ \A c \in 0 .. eax - 1 : ByteOf(line[c]) = 0 => line[c] \in nul
    BY DEF LineTerminated
  <2>1. eax \in Nat /\ last \in Nat /\ LineLength = eax
    BY DEF ReadInv, TypeOK, Cell, Byte, LineLength, Before, Copied
  <2>2. \A c \in 0 .. eax : line[c] = buffer[c] BY DEF ReadInv, CopyInv
  <2>3. eax \in 0 .. eax /\ \A c \in 0 .. eax - 1 : c \in 0 .. eax BY <2>1
  <2>4. buffer[eax] = 0 BY DEF ReadInv, IndexInv, Copied
  <2>5. \A c \in 0 .. eax - 1 : buffer[c] # 0 BY <2>1 DEF ReadInv, KeysInv
  <2> QED BY <2>2, <2>3, <2>4, <2>5 DEF ByteOf
<1> QED BY <1>1, ReadInvariantHolds, PTL

\* Every key on the screen that was not erased again is in the line: the echo is
\* off before the length is taken.
THEOREM EchoReachesProgram == Spec => []EchoedIsDelivered
<1>1. ReadInv => EchoedIsDelivered
  <2> SUFFICES ASSUME ReadInv, Copied, NEW key \in echoed
               PROVE  \E c \in 0 .. eax - 1 : line[c] = key
    BY DEF EchoedIsDelivered
  <2>1. eax \in Nat /\ LineLength = eax BY DEF ReadInv, TypeOK, Cell, LineLength, Before, Copied
  <2>2. PICK c \in 0 .. eax - 1 : buffer[c] = key BY <2>1 DEF ReadInv, KeysInv
  <2>3. c \in 0 .. eax BY <2>1
  <2> QED BY <2>2, <2>3 DEF ReadInv, CopyInv
<1> QED BY <1>1, ReadInvariantHolds, PTL

\* Keys reach the program in the order they were typed, none twice, within a line
\* and from one line to the next.
THEOREM KeysInOrder == Spec => []KeysOnceInOrder
<1>1. ReadInv => KeysOnceInOrder
  <2> SUFFICES ASSUME ReadInv, Copied
               PROVE  /\ \A c \in 0 .. eax - 1 : line[c] > last
                      /\ \A b, c \in 0 .. eax - 1 : b < c => line[b] < line[c]
    BY DEF KeysOnceInOrder
  <2>1. eax \in Nat /\ LineLength = eax BY DEF ReadInv, TypeOK, Cell, LineLength, Before, Copied
  <2>2. \A c \in 0 .. eax - 1 : line[c] = buffer[c] BY <2>1 DEF ReadInv, CopyInv
  <2> QED BY <2>1, <2>2 DEF ReadInv, KeysInv
<1> QED BY <1>1, ReadInvariantHolds, PTL
==============================================================================
