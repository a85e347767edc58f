---------------------------- MODULE StorageProofs ----------------------------
(***************************************************************************)
(* Proofs about the disk driver and its controller, and about the files of *)
(* the archive.  The two share no state; they share the lemma on the least *)
(* of a set of naturals, which both need for their searches.               *)
(*                                                                         *)
(* The disk, for any number of slots, sectors and spins: until the first   *)
(* error at most one command is under way, the one the driver waits for,   *)
(* and after it the controller touches nothing any more.  What is on the   *)
(* disk is known only of a controller that goes by the FIS.                *)
(*                                                                         *)
(* The files, for any archive that tar could have made, any size of block  *)
(* and any number of descriptors: the table that init_tarfs builds is the  *)
(* archive, member for member, because the three ways to round a size up   *)
(* agree and the cut of a name is the name of its directory.               *)
(***************************************************************************)
EXTENDS AhciDisk, TarFs, TLAPS, WellFoundedInduction

\* Every non-empty set of naturals has a least member.
LEMMA LeastNat ==
  ASSUME NEW S \in SUBSET Nat, S # {}
  PROVE  \E x \in S : \A y \in S : x <= y
<1>1. PICK x \in S : \A y \in S : ~ (<<y, x>> \in OpToRel(<, Nat))
  BY NatLessThanWellFounded, WFMin
<1>2. ASSUME NEW y \in S PROVE x <= y
  <2>1. ~ (y < x) BY <1>1 DEF OpToRel
  <2> QED BY <2>1
<1> QED BY <1>2

------------------------------------------------------------------------------
\* The disk.
USE DiskAssumption

Waiting == pc \in {"wait", "error"}
InCall == pc \in {"begin", "find", "build", "busy", "issue", "wait", "error", "check"}

\* What the controller may be working on.
CommandInv ==
  /\ running # NoSlot => running \in ci /\ ~ halted
  /\ tfes => halted
  /\ ~ halted => ci \subseteq (IF Waiting THEN {slot} ELSE {})
  /\ halted => pc # "check" /\ (Waiting => slot \in ci)
  /\ pc \in Setup => ~ halted
  /\ pc \in {"build", "busy", "issue"} => slot \in Slot \ ci
  /\ Waiting \/ pc = "check" => slot \in Slot

\* The command the driver has built is the one for the sector it is at, and the
\* buffer holds what that sector is to hold.
BuiltInv ==
  /\ ~ byHeader /\ InCall /\ Writing => buf = bl + 1
  /\ IF InCall THEN sect < PerBlock ELSE Writing => sect = 0
  /\ Waiting \/ pc \in {"busy", "issue"} =>
       slot \in Slot /\ table[slot] = [lba |-> Lba, write |-> Writing, w |-> FALSE]

\* The sectors reported as written are behind the one the driver is at, and
\* what the controller has taken out of ci is on the disk.
WrittenInv ==
  /\ Writing => \A s \in written : s < bl * PerBlock + sect
  /\ ~ byHeader /\ Writing /\ (pc = "check" \/ (Waiting /\ slot \notin ci)) =>
       disk[Lba] = bl + 1

DiskInv == TypeOK /\ CommandInv /\ BuiltInv /\ WrittenInv /\ DoneMeansStored
-----------------------------------------------------------------------------
\* find_cmdslot returns a slot that holds no command.
LEMMA FindFacts ==
  ASSUME ci \subseteq Slot, FindCmdslot # NoSlot
  PROVE  FindCmdslot \in Slot \ ci
<1>1. Slot \ ci \subseteq Nat /\ Slot \ ci # {} BY DEF FindCmdslot, Slot
<1>2. \E s \in Slot \ ci : \A t \in Slot \ ci : s <= t BY <1>1, LeastNat
<1> QED BY <1>1, <1>2 DEF FindCmdslot

\* The sectors of a block, and the block of a sector.
LEMMA SectorOfBlock ==
  ASSUME NEW b \in 0 .. NumBlocks - 1, NEW i \in 0 .. PerBlock - 1
  PROVE  /\ b * PerBlock + i \in Sector
         /\ (b * PerBlock + i) \div PerBlock = b
         /\ (b + 1) * PerBlock = b * PerBlock + PerBlock
         /\ b * PerBlock \in Nat
<1>0. b \in Nat /\ PerBlock \in Nat /\ PerBlock > 0 /\ NumBlocks \in Nat OBVIOUS
<1>1. b * PerBlock \in Nat /\ (b + 1) * PerBlock = b * PerBlock + PerBlock BY <1>0
<1>2. (b + 1) * PerBlock <= NumBlocks * PerBlock
  <2>1. NumBlocks - (b + 1) \in Nat BY <1>0
  <2>2. (NumBlocks - (b + 1)) * PerBlock \in Nat BY <2>1, <1>0
  <2>3. NumBlocks * PerBlock = (NumBlocks - (b + 1)) * PerBlock + (b + 1) * PerBlock
    BY <1>0
  <2>4. NumBlocks * PerBlock \in Nat BY <1>0
  <2> QED BY <2>2, <2>3, <2>4, <1>0, <1>1
<1>3. b * PerBlock + i \in Sector BY <1>0, <1>1, <1>2 DEF Sector
<1>4. (b * PerBlock + i) \div PerBlock = b
  <2>1. PICK x \in Nat : x = b * PerBlock + i BY <1>1
  <2>2. PICK q \in Int : q = x \div PerBlock BY <2>1, <1>0
  <2>3. q * PerBlock <= x /\ x < (q + 1) * PerBlock BY <2>1, <2>2, <1>0
  <2>4. (q - b) * PerBlock <= i /\ i < (q - b + 1) * PerBlock BY <2>1, <2>3, <1>0
  <2>5. ~ (q - b >= 1) BY <2>4, <1>0
  <2>6. ~ (q - b <= -1) BY <2>4, <1>0
  <2> QED BY <2>1, <2>2, <2>5, <2>6, <1>0
<1> QED BY <1>1, <1>3, <1>4
-----------------------------------------------------------------------------
\* A call returns: reported sectors stay below the next one, and a sector is
\* reported when the disk holds what it should.
LEMMA ReturnFacts ==
  ASSUME DiskInv, InCall, NEW ok \in BOOLEAN, Return(ok), UNCHANGED <<buf, disk, byHeader>>,
         ~ byHeader /\ ok /\ Writing => disk[Lba] = bl + 1
  PROVE  /\ pc' \in {"begin", "fill", "done"} /\ bl' \in 0 .. NumBlocks
         /\ sect' \in 0 .. PerBlock /\ written' \subseteq Sector
         /\ BuiltInv' /\ WrittenInv' /\ DoneMeansStored'
<1>t. bl \in 0 .. NumBlocks /\ sect \in 0 .. PerBlock - 1 /\ PerBlock \in Nat \ {0}
      /\ written \subseteq Sector /\ NumBlocks \in Nat
  BY DEF DiskInv, TypeOK, BuiltInv
<1>1. CASE ~ Writing
  <2>1. written' = written /\ pc' = "done" /\ bl' = bl /\ sect' = sect /\ ~ Writing'
    BY <1>1 DEF Return, Goto, Writing
  <2>2. BuiltInv' BY <2>1 DEF BuiltInv, InCall, Waiting
  <2>3. WrittenInv' BY <2>1 DEF WrittenInv
  <2>4. DoneMeansStored' BY <2>1 DEF DiskInv, DoneMeansStored
  <2> QED BY <2>1, <2>2, <2>3, <2>4, <1>t
<1>2. CASE Writing
  <2>1. bl \in 0 .. NumBlocks - 1 BY <1>2, <1>t DEF Writing
  <2>2. PICK n \in Nat : n = bl * PerBlock BY <2>1, <1>t, SectorOfBlock
  <2>3. Lba = n + sect /\ Lba \in Sector /\ Lba \div PerBlock = bl
        /\ (bl + 1) * PerBlock = n + PerBlock
    BY <1>2, <1>t, <2>1, <2>2, SectorOfBlock DEF Lba
  <2>4. written' = IF ok THEN written \cup {n + sect} ELSE written
    BY <1>2, <2>3 DEF Return
  <2>5. \A s \in written : s \in Nat /\ s < n + sect
    BY <1>2, <1>t, <2>2 DEF DiskInv, WrittenInv, Sector
  <2>6. \A s \in written' : s < n + sect + 1 BY <2>4, <2>5, <1>t
  <2>7. DoneMeansStored'
    BY <1>2, <2>3, <2>4 DEF DiskInv, DoneMeansStored
  <2>8. written' \subseteq Sector BY <1>t, <2>3, <2>4
  <2>9. CASE sect + 1 < PerBlock
    <3>1. pc' = "begin" /\ sect' = sect + 1 /\ bl' = bl
      BY <1>2, <2>9 DEF Return, Goto
    <3>2. BuiltInv'
      BY <1>2, <2>9, <3>1, <1>t DEF BuiltInv, InCall, Waiting, DiskInv, Writing
    <3>3. WrittenInv' BY <2>2, <2>6, <3>1, <1>t DEF WrittenInv, Waiting
    <3> QED BY <2>7, <2>8, <2>9, <3>1, <3>2, <3>3, <1>t
  <2>10. CASE ~ (sect + 1 < PerBlock)
    <3>1. pc' = "fill" /\ sect' = 0 /\ bl' = bl + 1
      BY <1>2, <2>10 DEF Return, Goto
    <3>2. BuiltInv' BY <3>1 DEF BuiltInv, InCall, Waiting
    <3>3. sect + 1 = PerBlock BY <2>10, <1>t
    <3>4. WrittenInv'
      <4>1. bl' * PerBlock + sect' = n + PerBlock BY <2>3, <3>1, <1>t
      <4> QED BY <2>6, <3>1, <3>3, <4>1, <1>t DEF WrittenInv, Waiting
    <3> QED BY <2>1, <2>7, <2>8, <3>1, <3>2, <3>4, <1>t
  <2> QED BY <2>9, <2>10
<1> QED BY <1>1, <1>2

\* The type of everything that a return leaves alone.
LEMMA ReturnType ==
  ASSUME TypeOK, pc' \in Steps, bl' \in 0 .. NumBlocks, sect' \in 0 .. PerBlock,
         written' \subseteq Sector, slot' \in Slot \cup {NoSlot}, spin' \in 0 .. MaxSpin,
         UNCHANGED <<buf, table, engine, port, controller>>
  PROVE  TypeOK'
BY DEF TypeOK, engine, port, controller

LEMMA DiskInit == Init => DiskInv
<1> SUFFICES ASSUME Init PROVE DiskInv
  OBVIOUS
<1>1. TypeOK
  <2>1. 0 \in Sector BY DEF Sector
  <2>2. NoSlot \in Slot \cup {NoSlot} /\ table \in [Slot -> Command]
    BY <2>1 DEF Init, Command, Empty
  <2>3. disk \in [Sector -> 0 .. NumBlocks] BY DEF Init
  <2>4. /\ tfd \in BOOLEAN /\ tfes \in BOOLEAN /\ halted \in BOOLEAN /\ byHeader \in BOOLEAN
        /\ st \in BOOLEAN /\ fre \in BOOLEAN /\ cr \in BOOLEAN /\ fr \in BOOLEAN
    BY Zenon DEF Init
  <2>5. /\ pc \in Steps /\ bl \in 0 .. NumBlocks /\ sect \in 0 .. PerBlock
        /\ slot \in Slot \cup {NoSlot} /\ spin \in 0 .. MaxSpin /\ buf \in 0 .. NumBlocks
        /\ ci \subseteq Slot /\ running \in Slot \cup {NoSlot} /\ written \subseteq Sector
    BY DEF Init, Steps, Setup
  <2> QED BY <2>2, <2>3, <2>4, <2>5 DEF TypeOK
<1>2. CommandInv /\ BuiltInv
  BY DEF Init, CommandInv, BuiltInv, Waiting, InCall
<1>3. WrittenInv /\ DoneMeansStored
  BY DEF Init, WrittenInv, DoneMeansStored, Waiting
<1> QED BY <1>1, <1>2, <1>3 DEF DiskInv

\* Before the first command.
LEMMA SetupStep == DiskInv /\ (StopCmd \/ PortRebase \/ StartCmd) => DiskInv'
<1> SUFFICES ASSUME DiskInv, StopCmd \/ PortRebase \/ StartCmd PROVE DiskInv'
  OBVIOUS
<1>1. /\ pc \in Setup /\ pc' \in Setup \cup {"fill"}
      /\ UNCHANGED <<bl, sect, slot, spin, buf, written, ci, tfd, tfes, controller>>
  BY DEF StopCmd, PortRebase, StartCmd, Goto, port, Setup
<1>2. table' \in [Slot -> Command]
  <2>1. CASE PortRebase
    <3>1. 0 \in Sector BY DEF Sector
    <3> QED BY <2>1, <3>1 DEF PortRebase, Command, Empty
  <2>2. CASE table' = table BY <2>2 DEF DiskInv, TypeOK
  <2> QED BY <2>1, <2>2 DEF StopCmd, StartCmd
<1>3. st' \in BOOLEAN /\ fre' \in BOOLEAN /\ cr' \in BOOLEAN /\ fr' \in BOOLEAN
  BY DEF StopCmd, PortRebase, StartCmd, engine, DiskInv, TypeOK
<1>4. TypeOK' BY <1>1, <1>2, <1>3 DEF DiskInv, TypeOK, controller, Steps, Setup
<1>5. ~ Waiting /\ ~ Waiting' /\ ~ InCall /\ ~ InCall' /\ pc # "check" /\ pc' # "check"
      /\ pc' \notin {"build", "busy", "issue"} /\ Writing' = Writing
  BY <1>1 DEF Setup, Waiting, InCall, Writing
<1>6. CommandInv' BY <1>1, <1>5 DEF DiskInv, CommandInv, controller
<1>7. BuiltInv' /\ WrittenInv' /\ DoneMeansStored'
  BY <1>1, <1>5 DEF DiskInv, BuiltInv, WrittenInv, DoneMeansStored, controller
<1> QED BY <1>4, <1>6, <1>7 DEF DiskInv

LEMMA FillStep == DiskInv /\ (Fill \/ Begin) => DiskInv'
<1> SUFFICES ASSUME DiskInv, Fill \/ Begin PROVE DiskInv'
  OBVIOUS
<1>t. TypeOK /\ bl \in 0 .. NumBlocks /\ PerBlock \in Nat \ {0} BY DEF DiskInv, TypeOK
<1>1. CASE Fill
  <2>1. /\ pc = "fill" /\ pc' = "begin" /\ sect' = 0
        /\ buf' = (IF bl < NumBlocks THEN bl + 1 ELSE buf)
        /\ UNCHANGED <<bl, slot, spin, table, written, engine, ci, tfd, tfes, controller>>
    BY <1>1 DEF Fill, Goto
  <2>2. TypeOK' BY <2>1, <1>t DEF TypeOK, engine, controller, Steps, Setup
  <2>3. CommandInv' BY <2>1 DEF DiskInv, CommandInv, controller, Waiting, Setup
  <2>4. BuiltInv'
    <3>1. (Writing => buf = bl + 1)' BY <2>1 DEF Writing
    <3>2. sect' < PerBlock BY <2>1, <1>t
    <3> QED BY <2>1, <3>1, <3>2 DEF BuiltInv, Waiting, InCall
  <2>5. Writing => sect = 0 BY <2>1 DEF DiskInv, BuiltInv, InCall
  <2>6. WrittenInv' /\ DoneMeansStored'
    BY <2>1, <2>5 DEF DiskInv, WrittenInv, DoneMeansStored, controller, Waiting, Writing
  <2> QED BY <2>2, <2>3, <2>4, <2>6 DEF DiskInv
<1>2. CASE Begin
  <2>1. /\ pc = "begin" /\ pc' = "find" /\ tfes' = FALSE /\ spin' = 0
        /\ UNCHANGED <<bl, sect, slot, buf, table, written, engine, ci, tfd, controller>>
    BY <1>2 DEF Begin, Goto
  <2>2. TypeOK'
    <3>1. tfes' \in BOOLEAN BY <2>1, Zenon
    <3>2. spin' \in 0 .. MaxSpin /\ pc' \in Steps BY <2>1 DEF Steps, Setup
    <3> QED BY <2>1, <3>1, <3>2, <1>t DEF TypeOK, engine, controller
  <2>3. CommandInv' BY <2>1 DEF DiskInv, CommandInv, controller, Waiting, Setup
  <2>4. BuiltInv' /\ WrittenInv' /\ DoneMeansStored'
    BY <2>1 DEF DiskInv, BuiltInv, WrittenInv, DoneMeansStored, controller, Waiting, InCall,
                Writing
  <2> QED BY <2>2, <2>3, <2>4 DEF DiskInv
<1> QED BY <1>1, <1>2

\* A step after which the driver is not waiting and the command list is empty, or
\* the controller has halted.
LEMMA ReturnStep ==
  ASSUME DiskInv, InCall, NEW ok \in BOOLEAN, Return(ok),
         ~ byHeader /\ ok /\ Writing => disk[Lba] = bl + 1,
         slot' \in Slot \cup {NoSlot}, UNCHANGED <<spin, buf, table, engine, port, controller>>,
         ~ halted => ci = {}
  PROVE  DiskInv'
<1>1. UNCHANGED <<buf, disk, byHeader>> BY DEF controller
<1>2. /\ pc' \in {"begin", "fill", "done"} /\ bl' \in 0 .. NumBlocks
      /\ sect' \in 0 .. PerBlock /\ written' \subseteq Sector
      /\ BuiltInv' /\ WrittenInv' /\ DoneMeansStored'
  BY <1>1, ReturnFacts
<1>3. TypeOK'
  <2>1. TypeOK /\ pc' \in Steps /\ spin' \in 0 .. MaxSpin BY <1>2 DEF DiskInv, TypeOK, Steps, Setup
  <2> QED BY <2>1, <1>2, ReturnType
<1>4. CommandInv' BY <1>2 DEF DiskInv, CommandInv, controller, port, Waiting, Setup
<1> QED BY <1>2, <1>3, <1>4 DEF DiskInv

LEMMA FindStep == DiskInv /\ Find => DiskInv'
<1> SUFFICES ASSUME DiskInv, Find PROVE DiskInv'
  OBVIOUS
<1>t. TypeOK /\ ci \subseteq Slot BY DEF DiskInv, TypeOK
<1>1. /\ pc = "find" /\ slot' = FindCmdslot
      /\ UNCHANGED <<spin, buf, table, engine, port, controller>>
  BY DEF Find, port
<1>2. CASE slot' = NoSlot
  <2>1. Return(FALSE) BY <1>2 DEF Find
  <2>2. InCall /\ (~ halted => ci = {}) /\ slot' \in Slot \cup {NoSlot}
    BY <1>1, <1>2 DEF DiskInv, CommandInv, InCall, Waiting
  <2> QED BY <2>1, <2>2, <1>1, ReturnStep
<1>3. CASE slot' # NoSlot
  <2>1. pc' = "build" /\ UNCHANGED <<bl, sect, written>> BY <1>3 DEF Find, Goto
  <2>2. slot' \in Slot \ ci BY <1>t, <1>1, <1>3, FindFacts
  <2>3. TypeOK' BY <1>t, <1>1, <2>1, <2>2 DEF TypeOK, engine, port, controller, Steps, Setup
  <2>4. CommandInv' BY <1>1, <2>1, <2>2 DEF DiskInv, CommandInv, controller, port, Waiting, Setup
  <2>5. BuiltInv' /\ WrittenInv' /\ DoneMeansStored'
    BY <1>1, <2>1 DEF DiskInv, BuiltInv, WrittenInv, DoneMeansStored, controller, Waiting,
                      InCall, Writing
  <2> QED BY <2>3, <2>4, <2>5 DEF DiskInv
<1> QED BY <1>2, <1>3

LEMMA BuildStep == DiskInv /\ Build => DiskInv'
<1> SUFFICES ASSUME DiskInv, Build PROVE DiskInv'
  OBVIOUS
<1>1. /\ pc = "build" /\ pc' = "busy"
      /\ table' = [table EXCEPT ![slot] = [lba |-> Lba, write |-> Writing, w |-> FALSE]]
      /\ UNCHANGED <<bl, sect, slot, spin, buf, written, engine, ci, tfd, tfes, controller>>
  BY DEF Build, Goto
<1>t. /\ TypeOK /\ slot \in Slot \ ci /\ table \in [Slot -> Command]
      /\ bl \in 0 .. NumBlocks /\ sect \in 0 .. PerBlock - 1
  BY <1>1 DEF DiskInv, TypeOK, CommandInv, BuiltInv, InCall
<1>2. Lba \in Sector
  <2>1. CASE Writing
    <3>1. bl \in 0 .. NumBlocks - 1 BY <2>1, <1>t DEF Writing
    <3> QED BY <2>1, <3>1, <1>t, SectorOfBlock DEF Lba
  <2>2. CASE ~ Writing BY <2>2 DEF Lba, Sector
  <2> QED BY <2>1, <2>2
<1>3. Writing \in BOOLEAN BY DEF Writing
<1>4. [lba |-> Lba, write |-> Writing, w |-> FALSE] \in Command BY <1>2, <1>3 DEF Command
<1>5. Lba' = Lba /\ Writing' = Writing BY <1>1 DEF Lba, Writing
<1>6. TypeOK' BY <1>1, <1>4, <1>t DEF TypeOK, engine, controller, Steps, Setup
<1>7. CommandInv' BY <1>1 DEF DiskInv, CommandInv, controller, Waiting, Setup
<1>8. BuiltInv'
  <2>1. table'[slot'] = [lba |-> Lba, write |-> Writing, w |-> FALSE] BY <1>1, <1>t
  <2> HIDE DEF Lba, Writing
  <2> QED BY <2>1, <1>1, <1>5, <1>t DEF DiskInv, BuiltInv, InCall, controller
<1>9. WrittenInv' /\ DoneMeansStored'
  BY <1>1, <1>5 DEF DiskInv, WrittenInv, DoneMeansStored, controller, Waiting
<1> QED BY <1>6, <1>7, <1>8, <1>9 DEF DiskInv

LEMMA BusyStep == DiskInv /\ Busy => DiskInv'
<1> SUFFICES ASSUME DiskInv, Busy PROVE DiskInv'
  OBVIOUS
<1>t. TypeOK /\ spin \in 0 .. MaxSpin BY DEF DiskInv, TypeOK
<1>1. pc = "busy" /\ UNCHANGED <<slot, buf, table, engine, port, controller>>
  BY DEF Busy, port
<1>2. CASE Return(FALSE) /\ spin' = spin
  <2>1. InCall /\ (~ halted => ci = {}) /\ slot' \in Slot \cup {NoSlot}
    BY <1>1 DEF DiskInv, TypeOK, CommandInv, InCall, Waiting
  <2> QED BY <2>1, <1>1, <1>2, ReturnStep
<1>3. CASE pc' \in {"busy", "issue"} /\ spin' \in 0 .. MaxSpin /\ UNCHANGED <<bl, sect, written>>
  <2>1. TypeOK' BY <1>t, <1>1, <1>3 DEF TypeOK, engine, port, controller, Steps, Setup
  <2>2. CommandInv' BY <1>1, <1>3 DEF DiskInv, CommandInv, controller, port, Waiting, Setup
  <2>3. Lba' = Lba /\ Writing' = Writing BY <1>3 DEF Lba, Writing
  <2>4. BuiltInv' /\ WrittenInv' /\ DoneMeansStored'
    BY <1>1, <1>3, <2>3 DEF DiskInv, BuiltInv, WrittenInv, DoneMeansStored, controller,
                            Waiting, InCall
  <2> QED BY <2>1, <2>2, <2>4 DEF DiskInv
<1>4. CASE tfd /\ spin < MaxSpin
  <2>1. spin' = spin + 1 /\ UNCHANGED <<pc, bl, sect, written>> BY <1>4 DEF Busy
  <2> QED BY <2>1, <1>1, <1>3, <1>4, <1>t
<1>5. CASE ~ (tfd /\ spin < MaxSpin) /\ spin = MaxSpin BY <1>2, <1>5 DEF Busy
<1>6. CASE ~ (tfd /\ spin < MaxSpin) /\ spin # MaxSpin
  <2>1. spin' = spin /\ pc' = "issue" /\ UNCHANGED <<bl, sect, written>>
    BY <1>6 DEF Busy, Goto
  <2> QED BY <2>1, <1>3, <1>t
<1> QED BY <1>4, <1>5, <1>6

LEMMA IssueStep == DiskInv /\ Issue => DiskInv'
<1> SUFFICES ASSUME DiskInv, Issue PROVE DiskInv'
  OBVIOUS
<1>1. /\ pc = "issue" /\ pc' = "wait" /\ ci' = ci \cup {slot}
      /\ UNCHANGED <<bl, sect, slot, spin, buf, table, written, engine, tfd, tfes, controller>>
  BY DEF Issue, Goto
<1>t. TypeOK /\ slot \in Slot \ ci BY <1>1 DEF DiskInv, CommandInv
<1>2. TypeOK' BY <1>1, <1>t DEF TypeOK, engine, controller, Steps, Setup
<1>3. CommandInv' BY <1>1, <1>t DEF DiskInv, CommandInv, controller, Waiting, Setup
<1>4. Lba' = Lba /\ Writing' = Writing BY <1>1 DEF Lba, Writing
<1>5. BuiltInv' /\ WrittenInv' /\ DoneMeansStored'
  BY <1>1, <1>4 DEF DiskInv, BuiltInv, WrittenInv, DoneMeansStored, controller, Waiting, InCall
<1> QED BY <1>2, <1>3, <1>5 DEF DiskInv

LEMMA WaitStep == DiskInv /\ (Wait \/ WaitError \/ Check) => DiskInv'
<1> SUFFICES ASSUME DiskInv, Wait \/ WaitError \/ Check PROVE DiskInv'
  OBVIOUS
<1>t. TypeOK BY DEF DiskInv
<1>1. ASSUME pc \in {"wait", "error"}, pc' \in {"wait", "error", "check"},
             pc' = "check" => slot \notin ci,
             UNCHANGED <<bl, sect, slot, spin, buf, table, written, engine, port, controller>>
      PROVE  DiskInv'
  <2>1. TypeOK' BY <1>t, <1>1 DEF TypeOK, engine, port, controller, Steps, Setup
  <2>2. CommandInv' BY <1>1 DEF DiskInv, CommandInv, controller, port, Waiting, Setup
  <2>3. Lba' = Lba /\ Writing' = Writing BY <1>1 DEF Lba, Writing
  <2>4. BuiltInv' /\ WrittenInv' /\ DoneMeansStored'
    BY <1>1, <2>3 DEF DiskInv, BuiltInv, WrittenInv, DoneMeansStored, controller, port,
                      Waiting, InCall
  <2> QED BY <2>1, <2>2, <2>4 DEF DiskInv
<1>2. CASE Wait BY <1>1, <1>2 DEF Wait, Goto
<1>3. CASE WaitError
  <2>1. pc = "error" /\ UNCHANGED <<slot, spin, buf, table, engine, port, controller>>
    BY <1>3 DEF WaitError
  <2>2. CASE tfes
    <3>1. Return(FALSE) BY <1>3, <2>2 DEF WaitError
    <3>2. InCall /\ halted /\ slot' \in Slot \cup {NoSlot}
      BY <2>1, <2>2 DEF DiskInv, TypeOK, CommandInv, InCall
    <3> QED BY <2>1, <3>1, <3>2, ReturnStep
  <2>3. CASE ~ tfes
    <3>1. pc' = "wait" /\ UNCHANGED <<bl, sect, written>> BY <1>3, <2>3 DEF WaitError, Goto
    <3> QED BY <2>1, <3>1, <1>1
  <2> QED BY <2>2, <2>3
<1>4. CASE Check
  <2>1. /\ pc = "check" /\ Return(~ tfes)
        /\ UNCHANGED <<slot, spin, buf, table, engine, port, controller>>
    BY <1>4 DEF Check, port
  <2>2. InCall /\ ci = {} /\ slot' \in Slot \cup {NoSlot}
    BY <2>1 DEF DiskInv, TypeOK, CommandInv, InCall, Waiting
  <2>3. ~ byHeader /\ Writing => disk[Lba] = bl + 1 BY <2>1 DEF DiskInv, WrittenInv
  <2> QED BY <2>1, <2>2, <2>3, ReturnStep
<1> QED BY <1>2, <1>3, <1>4

\* What a command leaves on the disk, if the controller goes by the FIS: the data
\* in the sector the driver waits for, which is not among those reported before.
LEMMA TransferFacts ==
  ASSUME DiskInv, running # NoSlot, Transfer
  PROVE  /\ disk' \in [Sector -> 0 .. NumBlocks] /\ buf' \in 0 .. NumBlocks
         /\ ~ byHeader => buf' = buf
         /\ ~ byHeader /\ Writing => disk'[Lba] = bl + 1
         /\ ~ byHeader => \A s \in written : disk'[s] = disk[s]
<1>1. Waiting /\ running = slot BY DEF DiskInv, CommandInv
<1>t. /\ disk \in [Sector -> 0 .. NumBlocks] /\ buf \in 0 .. NumBlocks
      /\ bl \in 0 .. NumBlocks /\ sect \in 0 .. PerBlock - 1 /\ written \subseteq Sector
  BY <1>1 DEF DiskInv, TypeOK, BuiltInv, InCall, Waiting
<1>2. table[running] = [lba |-> Lba, write |-> Writing, w |-> FALSE]
  BY <1>1 DEF DiskInv, BuiltInv
<1>3. ToDevice <=> ~ byHeader /\ Writing BY <1>2 DEF ToDevice
<1>4. /\ disk' = IF ToDevice THEN [disk EXCEPT ![Lba] = buf] ELSE disk
      /\ buf' = IF ~ ToDevice /\ Writing THEN disk[Lba] ELSE buf
  BY <1>2 DEF Transfer
<1>5. CASE Writing
  <2>1. bl \in 0 .. NumBlocks - 1 BY <1>5, <1>t DEF Writing
  <2>2. PICK n \in Sector : n = Lba /\ n = bl * PerBlock + sect
    BY <1>5, <1>t, <2>1, SectorOfBlock DEF Lba
  <2>3. CASE byHeader
    <3>1. disk' = disk /\ buf' = disk[n] BY <1>3, <1>4, <1>5, <2>2, <2>3
    <3> QED BY <1>t, <2>2, <2>3, <3>1
  <2>4. CASE ~ byHeader
    <3>1. disk' = [disk EXCEPT ![n] = buf] /\ buf' = buf BY <1>3, <1>4, <1>5, <2>2, <2>4
    <3>2. buf = bl + 1 BY <1>1, <1>5, <2>4 DEF DiskInv, BuiltInv, InCall, Waiting
    <3>3. \A s \in written : s # n
      BY <1>5, <1>t, <2>2 DEF DiskInv, WrittenInv, Sector
    <3> QED BY <1>t, <2>2, <3>1, <3>2, <3>3
  <2> QED BY <2>3, <2>4
<1>6. CASE ~ Writing
  <2>1. disk' = disk /\ buf' = buf BY <1>3, <1>4, <1>6
  <2> QED BY <1>6, <1>t, <2>1
<1> QED BY <1>5, <1>6

LEMMA ControllerStep == DiskInv /\ Controller => DiskInv'
<1> SUFFICES ASSUME DiskInv, Controller PROVE DiskInv'
  OBVIOUS
<1>0. UNCHANGED driver
  BY DEF Controller, Engine, Ready, Fetch, Complete, Fail
<1>1. /\ UNCHANGED <<pc, bl, sect, slot, spin, table, written, byHeader>>
      /\ Lba' = Lba /\ Writing' = Writing /\ Waiting' = Waiting /\ InCall' = InCall
  <2>1. UNCHANGED byHeader
    BY DEF Controller, Engine, Ready, Fetch, Complete, Fail, controller
  <2> QED BY <1>0, <2>1 DEF driver, Lba, Writing, Waiting, InCall
<1>t. TypeOK BY DEF DiskInv
<1>2. CASE Engine \/ Ready
  <2>1. UNCHANGED <<buf, ci, tfes, running, halted, disk>>
    BY <1>2 DEF Engine, Ready, port, controller
  <2>2. tfd' \in BOOLEAN /\ st' \in BOOLEAN /\ fre' \in BOOLEAN /\ cr' \in BOOLEAN /\ fr' \in BOOLEAN
    BY <1>2, <1>t DEF Engine, Ready, port, controller, TypeOK, engine
  <2>3. TypeOK' BY <1>1, <1>t, <2>1, <2>2 DEF TypeOK
  <2>4. CommandInv' BY <1>1, <2>1 DEF DiskInv, CommandInv
  <2>5. BuiltInv' /\ WrittenInv' /\ DoneMeansStored'
    BY <1>1, <2>1 DEF DiskInv, BuiltInv, WrittenInv, DoneMeansStored
  <2> QED BY <2>3, <2>4, <2>5 DEF DiskInv
<1>3. CASE Fetch
  <2>1. ~ halted /\ running' \in ci /\ tfd' = TRUE
        /\ UNCHANGED <<buf, engine, ci, tfes, halted, disk>>
    BY <1>3 DEF Fetch
  <2>2. tfd' \in BOOLEAN BY <2>1
  <2>3. TypeOK' BY <1>1, <1>t, <2>1, <2>2 DEF TypeOK, engine
  <2>4. CommandInv' BY <1>1, <2>1 DEF DiskInv, CommandInv
  <2>5. BuiltInv' /\ WrittenInv' /\ DoneMeansStored'
    BY <1>1, <2>1 DEF DiskInv, BuiltInv, WrittenInv, DoneMeansStored
  <2> QED BY <2>3, <2>4, <2>5 DEF DiskInv
<1>4. CASE Complete \/ Fail
  <2>0. running # NoSlot BY <1>4 DEF Complete, Fail
  <2>1. ~ halted /\ Waiting /\ running = slot /\ slot \in ci /\ ci \subseteq {slot}
    BY <2>0 DEF DiskInv, CommandInv
  <2>2. CASE Complete
    <3>1. /\ Transfer /\ ci' = {} /\ tfd' = FALSE /\ running' = NoSlot
          /\ UNCHANGED <<engine, tfes, halted>>
      BY <2>1, <2>2 DEF Complete
    <3>2. /\ disk' \in [Sector -> 0 .. NumBlocks] /\ buf' \in 0 .. NumBlocks
          /\ ~ byHeader => buf' = buf
          /\ ~ byHeader /\ Writing => disk'[Lba] = bl + 1
          /\ ~ byHeader => \A s \in written : disk'[s] = disk[s]
      BY <2>0, <3>1, TransferFacts
    <3>3. tfd' \in BOOLEAN /\ ci' \subseteq Slot BY <3>1
    <3>4. TypeOK' BY <1>1, <1>t, <3>1, <3>2, <3>3 DEF TypeOK, engine
    <3>5. CommandInv' BY <1>1, <2>1, <3>1 DEF DiskInv, CommandInv, Waiting, Setup
    <3>6. BuiltInv' BY <1>1, <3>2 DEF DiskInv, BuiltInv
    <3>7. WrittenInv' /\ DoneMeansStored'
      BY <1>1, <3>2 DEF DiskInv, WrittenInv, DoneMeansStored
    <3> QED BY <3>4, <3>5, <3>6, <3>7 DEF DiskInv
  <2>3. CASE Fail
    <3>1. /\ Transfer \/ UNCHANGED <<disk, buf>>
          /\ tfes' = TRUE /\ tfd' = FALSE /\ running' = NoSlot /\ halted' = TRUE
          /\ UNCHANGED <<engine, ci>>
      BY <2>3 DEF Fail
    <3>2. /\ disk' \in [Sector -> 0 .. NumBlocks] /\ buf' \in 0 .. NumBlocks
          /\ ~ byHeader => buf' = buf
          /\ ~ byHeader => \A s \in written : disk'[s] = disk[s]
      <4>1. CASE Transfer BY <2>0, <4>1, TransferFacts
      <4>2. CASE UNCHANGED <<disk, buf>> BY <4>2, <1>t DEF TypeOK
      <4> QED BY <3>1, <4>1, <4>2
    <3>3. tfd' \in BOOLEAN /\ tfes' \in BOOLEAN /\ halted' \in BOOLEAN BY <3>1, Zenon
    <3>4. TypeOK' BY <1>1, <1>t, <3>1, <3>2, <3>3 DEF TypeOK, engine
    <3>5. CommandInv' BY <1>1, <2>1, <3>1 DEF DiskInv, CommandInv, Waiting, Setup
    <3>6. BuiltInv' BY <1>1, <3>2 DEF DiskInv, BuiltInv
    <3>7. DoneMeansStored' BY <1>1, <3>2 DEF DiskInv, DoneMeansStored
    <3>8. WrittenInv' BY <1>1, <2>1, <3>1 DEF DiskInv, WrittenInv, Waiting
    <3> QED BY <3>4, <3>5, <3>6, <3>7, <3>8 DEF DiskInv
  <2> QED BY <1>4, <2>2, <2>3
<1> QED BY <1>2, <1>3, <1>4 DEF Controller

LEMMA DiskInvariantHolds == Spec => []DiskInv
<1>1. DiskInv /\ [Next]_vars => DiskInv'
  <2> SUFFICES ASSUME DiskInv, [Next]_vars PROVE DiskInv'
    OBVIOUS
  <2>1. CASE Driver
    BY <2>1, SetupStep, FillStep, FindStep, BuildStep, BusyStep, IssueStep, WaitStep DEF Driver
  <2>2. CASE Controller BY <2>2, ControllerStep
  <2>3. CASE UNCHANGED vars
    <3>1. UNCHANGED driver /\ UNCHANGED buf /\ UNCHANGED engine /\ UNCHANGED port /\ UNCHANGED controller
      BY <2>3 DEF vars
    <3>2. TypeOK' BY <3>1 DEF DiskInv, TypeOK, driver, engine, port, controller
    <3>3. CommandInv' /\ BuiltInv' /\ WrittenInv' /\ DoneMeansStored'
      BY <3>1 DEF DiskInv, CommandInv, BuiltInv, WrittenInv, DoneMeansStored, driver, port,
                  controller, Waiting, InCall, Writing, Lba
    <3> QED BY <3>2, <3>3 DEF DiskInv
  <2> QED BY <2>1, <2>2, <2>3 DEF Next, Done
<1> QED BY <1>1, DiskInit, PTL DEF Spec
-----------------------------------------------------------------------------
\* With a controller that takes the direction of a command from its FIS (the bit w
\* of write_to_disk's header says the opposite), a sector that write_to_disk has
\* returned 1 for holds the data it was given and keeps it, whatever the order in
\* which controller and driver move and wherever the first error comes.
THEOREM WrittenIsStored == Spec => []DoneMeansStored
<1>1. DiskInv => DoneMeansStored BY DEF DiskInv
<1> QED BY <1>1, DiskInvariantHolds, PTL

\* find_cmdslot's look at ci is enough: no command in progress is built over, not
\* even the one that an error leaves in ci.
THEOREM SlotNotReused == Spec => SlotExclusive
<1>1. DiskInv /\ [Next]_vars => [\A s \in ci : table'[s] = table[s]]_vars
  <2> SUFFICES ASSUME DiskInv, Next, NEW s \in ci PROVE table'[s] = table[s]
    OBVIOUS
  <2>1. CASE Build
    <3>1. slot \in Slot \ ci /\ table \in [Slot -> Command] /\ s \in Slot
      BY <2>1 DEF Build, DiskInv, CommandInv, TypeOK
    <3> QED BY <2>1, <3>1 DEF Build
  <2>2. CASE PortRebase BY <2>2 DEF Setup, PortRebase, DiskInv, CommandInv, Waiting
  <2>3. CASE table' = table BY <2>3
  <2> QED
    BY <2>1, <2>2, <2>3
    DEF Next, Driver, Controller, Done, StopCmd, StartCmd, Fill, Begin, Find, Busy,
        Issue, Wait, WaitError, Check, Engine, Ready, Fetch, Complete, Fail, driver, vars
<1> QED BY <1>1, DiskInvariantHolds, PTL DEF Spec, SlotExclusive

\* probeport fills the buffer again only when no transfer from it is under way.
THEOREM BufferNotOverwritten == Spec => BufferStable
<1>1. DiskInv /\ [Next]_vars => [Fill => running = NoSlot]_vars
  BY DEF Fill, DiskInv, CommandInv, Waiting
<1> QED BY <1>1, DiskInvariantHolds, PTL DEF Spec, BufferStable
------------------------------------------------------------------------------
\* The archive.
HIDE DiskAssumption
USE ArchiveAssumption

\* Member i lies in the directory j, or at the top.
Inside(i, j) == \/ j = 0 /\ DirectlyIn(member[i].name, <<>>)
                \/ /\ j \in 1 .. i - 1 /\ member[j].dir
                   /\ DirectlyIn(member[i].name, member[j].name)

\* init_tarfs has come to a header, and every member before it has its node.
NodesInv ==
  /\ Len(root) <= Len(member) /\ start = archive.header[Len(root) + 1]
  /\ \A i \in 1 .. Len(root) :
       /\ root[i].name = member[i].name /\ root[i].dir = member[i].dir
       /\ root[i].size = member[i].size /\ root[i].start = archive.header[i]
       /\ Inside(i, root[i].parent)

\* A descriptor is the number of the file it was opened for.
FdInv ==
  \A p \in Process, n \in 3 .. MaxFd - 1 :
    fd[p][n] # 0 => fd[p][n] \in 1 .. Len(root) /\ root[fd[p][n]].name = opened[p][n]
                    /\ ~ root[fd[p][n]].dir

TarInv == TarTypeOK /\ NodesInv /\ FdInv
------------------------------------------------------------------------------
\* A quotient is determined by the multiples that enclose the dividend.
LEMMA Quotient ==
  ASSUME NEW x \in Nat, NEW q \in Nat, q * BlockSize <= x, x < q * BlockSize + BlockSize
  PROVE  x \div BlockSize = q
<1>0. BlockSize \in Nat /\ BlockSize > 0 OBVIOUS
<1>1. PICK d \in Int : d = x \div BlockSize BY <1>0
<1>2. d * BlockSize <= x /\ x < (d + 1) * BlockSize BY <1>0, <1>1
<1>3. (d - q) * BlockSize < BlockSize /\ (q - d) * BlockSize < BlockSize BY <1>0, <1>2
<1>4. ~ (d - q >= 1) BY <1>3, <1>0
<1>5. ~ (q - d >= 1) BY <1>3, <1>0
<1> QED BY <1>1, <1>4, <1>5

\* tar, init_tarfs and getFile round a size up in three ways, to the same.
LEMMA Roundings ==
  ASSUME NEW s \in Nat
  PROVE  /\ RoundedUp(s) \in Nat /\ (s > 0 => RoundedUp(s) > 0)
         /\ (s + BlockSize - 1) \div BlockSize = RoundedUp(s)
         /\ (IF s % BlockSize # 0 THEN (s \div BlockSize) * BlockSize + BlockSize ELSE s)
              \div BlockSize = RoundedUp(s)
<1>0. BlockSize \in Nat /\ BlockSize > 0 OBVIOUS
<1>1. PICK q \in Nat, t \in Nat : /\ q = s \div BlockSize /\ t = s % BlockSize
                                  /\ s = q * BlockSize + t /\ t < BlockSize
  <2>1. s \div BlockSize \in Nat /\ s % BlockSize \in Nat BY <1>0
  <2>2. s = (s \div BlockSize) * BlockSize + (s % BlockSize) /\ s % BlockSize < BlockSize BY <1>0
  <2> QED BY <2>1, <2>2
<1>2. q * BlockSize \in Nat /\ (q + 1) * BlockSize = q * BlockSize + BlockSize BY <1>0
<1>3. CASE t = 0
  <2>1. RoundedUp(s) = q BY <1>1, <1>3 DEF RoundedUp
  <2>2. (s + BlockSize - 1) \div BlockSize = q
    <3>1. s + BlockSize - 1 \in Nat /\ q * BlockSize <= s + BlockSize - 1
          /\ s + BlockSize - 1 < q * BlockSize + BlockSize BY <1>0, <1>1, <1>2, <1>3
    <3> QED BY <3>1, Quotient
  <2>3. s > 0 => q > 0 BY <1>0, <1>1, <1>3
  <2> QED BY <2>1, <2>2, <2>3, <1>1, <1>3
<1>4. CASE t # 0
  <2>1. RoundedUp(s) = q + 1 BY <1>1, <1>4 DEF RoundedUp
  <2>2. (s + BlockSize - 1) \div BlockSize = q + 1
    <3>1. s + BlockSize - 1 \in Nat /\ (q + 1) * BlockSize <= s + BlockSize - 1
          /\ s + BlockSize - 1 < (q + 1) * BlockSize + BlockSize BY <1>0, <1>1, <1>2, <1>4
    <3> QED BY <3>1, Quotient
  <2>3. (q * BlockSize + BlockSize) \div BlockSize = q + 1
    <3>1. q * BlockSize + BlockSize \in Nat
          /\ (q + 1) * BlockSize <= q * BlockSize + BlockSize
          /\ q * BlockSize + BlockSize < (q + 1) * BlockSize + BlockSize BY <1>0, <1>2
    <3> QED BY <3>1, Quotient
  <2> QED BY <2>1, <2>2, <2>3, <1>1, <1>4
<1> QED BY <1>3, <1>4
------------------------------------------------------------------------------
\* The members, their names and where they lie.
LEMMA MemberFacts ==
  ASSUME archive \in Archives
  PROVE  /\ member \in Seq(Member) /\ Len(member) \in Nat
         /\ \A i \in 1 .. Len(member) :
              /\ member[i].name \in Name /\ member[i].size \in Nat
              /\ member[i].dir \in BOOLEAN
              /\ member[i].name # <<>> /\ (member[i].dir <=> Last(member[i].name) = "/")
         /\ \A i, j \in 1 .. Len(member) : member[i].name = member[j].name => i = j
         /\ \A i \in 1 .. Len(member) :
              \/ Inside(i, 0) /\ Len(member[i].name) >= 3
              \/ \E j \in 1 .. i - 1 : Inside(i, j)
<1>1. WellFormed(member) BY DEF member
<1>2. member \in Seq(Member) /\ Len(member) \in Nat BY <1>1 DEF WellFormed
<1>3. ASSUME NEW i \in 1 .. Len(member)
      PROVE  /\ member[i].name \in Name /\ member[i].size \in Nat
             /\ member[i].dir \in BOOLEAN
  <2>1. member[i] \in Member BY <1>2
  <2>2. member[i].dir \in BOOLEAN BY <2>1, Zenon DEF Member
  <2>3. member[i].name \in Name /\ member[i].size \in Nat BY <2>1 DEF Member
  <2> QED BY <2>2, <2>3
<1>4. ASSUME NEW i \in 1 .. Len(member)
      PROVE  member[i].name # <<>> /\ (member[i].dir <=> Last(member[i].name) = "/")
  BY <1>1 DEF WellFormed
<1>5. ASSUME NEW i \in 1 .. Len(member), NEW j \in 1 .. Len(member),
             member[i].name = member[j].name
      PROVE  i = j
  <2>1. ~ (j < i) BY <1>1, <1>2, <1>5 DEF WellFormed
  <2>2. ~ (i < j) BY <1>1, <1>2, <1>5 DEF WellFormed
  <2> QED BY <2>1, <2>2, <1>2
<1>6. ASSUME NEW i \in 1 .. Len(member)
      PROVE  \/ Inside(i, 0) /\ Len(member[i].name) >= 3
             \/ \E j \in 1 .. i - 1 : Inside(i, j)
  BY <1>1 DEF WellFormed, Inside
<1> QED BY <1>2, <1>3, <1>4, <1>5, <1>6

\* What DirectlyIn says of the characters.
LEMMA InDirectory ==
  ASSUME NEW name \in Name, NEW dir \in Name, DirectlyIn(name, dir)
  PROVE  /\ Len(name) \in Nat /\ Len(dir) \in Nat /\ Len(name) > Len(dir)
         /\ \A k \in 1 .. Len(dir) : name[k] = dir[k]
         /\ name[Len(dir) + 1] # "/"
         /\ \A k \in Len(dir) + 1 .. Len(name) - 1 : name[k] # "/"
<1> DEFINE rest == SubSeq(name, Len(dir) + 1, Len(name))
<1>1. Len(name) \in Nat /\ Len(dir) \in Nat /\ Len(name) > Len(dir) BY DEF Name, DirectlyIn
<1>2. /\ Len(rest) = Len(name) - Len(dir)
      /\ \A k \in 1 .. Len(rest) : rest[k] = name[Len(dir) + k]
  BY <1>1 DEF Name
<1>3. \A k \in 1 .. Len(dir) : name[k] = dir[k]
  <2>1. SubSeq(name, 1, Len(dir)) = dir BY DEF DirectlyIn
  <2>2. \A k \in 1 .. Len(dir) : SubSeq(name, 1, Len(dir))[k] = name[k] BY <1>1 DEF Name
  <2> QED BY <2>1, <2>2
<1>4. rest[1] # "/" /\ \A k \in 1 .. Len(rest) - 1 : rest[k] # "/" BY DEF DirectlyIn
<1>5. name[Len(dir) + 1] # "/" BY <1>1, <1>2, <1>4
<1>6. ASSUME NEW k \in Len(dir) + 1 .. Len(name) - 1 PROVE name[k] # "/"
  <2>1. k - Len(dir) \in 1 .. Len(rest) - 1 BY <1>1, <1>2
  <2>2. rest[k - Len(dir)] = name[k] BY <1>1, <1>2, <2>1
  <2> QED BY <1>4, <2>1, <2>2
<1> QED BY <1>1, <1>3, <1>5, <1>6

\* No directory has fewer than three characters in its name.
LEMMA NameLength ==
  ASSUME archive \in Archives
  PROVE  \A i \in 1 .. Len(member) : Len(member[i].name) \in Nat /\ Len(member[i].name) >= 3
<1> DEFINE S == {i \in 1 .. Len(member) : ~ (Len(member[i].name) >= 3)}
<1>0. \A i \in 1 .. Len(member) : Len(member[i].name) \in Nat BY MemberFacts DEF Name
<1>1. SUFFICES ASSUME S # {} PROVE FALSE BY <1>0
<1>2. S \in SUBSET Nat BY MemberFacts
<1>3. PICK i \in S : \A y \in S : i <= y BY <1>1, <1>2, LeastNat
<1>4. PICK j \in 1 .. i - 1 : Inside(i, j) BY <1>3, MemberFacts
<1>5. j \in 1 .. Len(member) /\ j < i BY <1>3, <1>4, MemberFacts
<1>6. DirectlyIn(member[i].name, member[j].name) BY <1>4, <1>5 DEF Inside
<1>7. Len(member[i].name) > Len(member[j].name) BY <1>3, <1>5, <1>6, MemberFacts, InDirectory
<1>8. j \in S BY <1>0, <1>3, <1>5, <1>7
<1> QED BY <1>3, <1>5, <1>8

\* parse cuts the name of a member, file or directory, to that of its directory.
LEMMA CutIsDirectory ==
  ASSUME NEW name \in Name, NEW dir \in Name, DirectlyIn(name, dir),
         Last(dir) = "/", Len(dir) >= 2
  PROVE  Slashes(name) # {} /\ Cut(name) = dir
<1>1. /\ Len(name) \in Nat /\ Len(dir) \in Nat /\ Len(name) > Len(dir)
      /\ \A k \in 1 .. Len(dir) : name[k] = dir[k]
      /\ name[Len(dir) + 1] # "/"
      /\ \A k \in Len(dir) + 1 .. Len(name) - 1 : name[k] # "/"
  BY InDirectory
<1>2. Len(dir) \in Slashes(name) BY <1>1 DEF Slashes, Last
<1>3. \A j \in Slashes(name) : j <= Len(dir) BY <1>1 DEF Slashes
<1> DEFINE k == CHOOSE k \in Slashes(name) : \A j \in Slashes(name) : j <= k
<1>4. k \in Slashes(name) /\ \A j \in Slashes(name) : j <= k BY <1>2, <1>3
<1>5. k = Len(dir)
  <2>1. k \in Int BY <1>1, <1>4 DEF Slashes
  <2> QED BY <1>1, <1>2, <1>3, <1>4, <2>1
<1>6. Cut(name) = SubSeq(name, 1, Len(dir)) BY <1>5 DEF Cut
<1> QED BY <1>2, <1>6 DEF DirectlyIn

\* It leaves the names of members at the top alone.
LEMMA NoCutAtTop ==
  ASSUME NEW name \in Name, DirectlyIn(name, <<>>)
  PROVE  Slashes(name) = {}
<1>1. <<>> \in Name /\ Len(<<>>) = 0 BY DEF Name
<1>2. Len(name) \in Nat /\ \A k \in 1 .. Len(name) - 1 : name[k] # "/"
  BY <1>1, InDirectory
<1> QED BY <1>2 DEF Slashes

\* So a member lies in one directory.
LEMMA OneDirectory ==
  ASSUME archive \in Archives, NEW i \in 1 .. Len(member)
  PROVE  /\ Inside(i, 0) => Slashes(member[i].name) = {}
         /\ \A j \in 1 .. Len(member) :
              member[j].dir /\ DirectlyIn(member[i].name, member[j].name) =>
                Slashes(member[i].name) # {} /\ Cut(member[i].name) = member[j].name
<1>1. Inside(i, 0) => Slashes(member[i].name) = {}
  BY MemberFacts, NoCutAtTop DEF Inside
<1>2. ASSUME NEW j \in 1 .. Len(member), member[j].dir,
             DirectlyIn(member[i].name, member[j].name)
      PROVE  Slashes(member[i].name) # {} /\ Cut(member[i].name) = member[j].name
  <2>1. Len(member[j].name) >= 2 BY NameLength
  <2>2. Last(member[j].name) = "/" /\ member[i].name \in Name /\ member[j].name \in Name
    BY <1>2, MemberFacts
  <2> QED BY <1>2, <2>1, <2>2, CutIsDirectory
<1> QED BY <1>1, <1>2

LEMMA InsideIsParent ==
  ASSUME archive \in Archives, NEW i \in 1 .. Len(member), NEW p \in 0 .. i - 1, Inside(i, p)
  PROVE  /\ p = 0 <=> DirectlyIn(member[i].name, <<>>)
         /\ \A j \in 1 .. Len(member) :
              member[j].dir => (p = j <=> DirectlyIn(member[i].name, member[j].name))
<1>0. p \in Nat /\ p < i /\ i <= Len(member) /\ Len(member) \in Nat BY MemberFacts
<1>1. p # 0 => /\ p \in 1 .. Len(member) /\ member[p].dir
               /\ DirectlyIn(member[i].name, member[p].name)
               /\ Slashes(member[i].name) # {} /\ Cut(member[i].name) = member[p].name
  BY <1>0, OneDirectory DEF Inside
<1>2. p = 0 => DirectlyIn(member[i].name, <<>>) /\ Slashes(member[i].name) = {}
  <2> SUFFICES ASSUME p = 0
               PROVE  DirectlyIn(member[i].name, <<>>) /\ Slashes(member[i].name) = {}
    OBVIOUS
  <2>1. Inside(i, 0) OBVIOUS
  <2>2. DirectlyIn(member[i].name, <<>>) BY <2>1, <1>0 DEF Inside
  <2> QED BY <2>1, <2>2, OneDirectory
<1>3. DirectlyIn(member[i].name, <<>>) => p = 0
  BY <1>1, OneDirectory DEF Inside
<1>4. ASSUME NEW j \in 1 .. Len(member), member[j].dir,
             DirectlyIn(member[i].name, member[j].name)
      PROVE  p = j
  <2>1. Slashes(member[i].name) # {} /\ Cut(member[i].name) = member[j].name
    BY <1>4, OneDirectory
  <2>2. p # 0 BY <1>2, <2>1
  <2> QED BY <1>1, <2>1, <2>2, MemberFacts
<1> QED BY <1>1, <1>2, <1>3, <1>4
------------------------------------------------------------------------------
\* Where tar puts the members, with the rounding of init_tarfs.
LEMMA LayoutFacts ==
  ASSUME archive \in Archives
  PROVE  LET header == archive.header IN
         /\ \A i \in 1 .. Len(member) + 1 : header[i] \in Nat
         /\ header[1] = 1
         /\ \A i \in 1 .. Len(member) :
              /\ header[i + 1] = header[i] + 1 + RoundedUp(member[i].size)
              /\ image[header[i]] = [kind |-> "header", member |-> i]
              /\ member[i].size > 0 => image[header[i] + 1] = [kind |-> "data", member |-> i]
         /\ image[header[Len(member) + 1]] = [kind |-> "end", member |-> 0]
<1> DEFINE header == archive.header
<1>1. LaidOut(archive) OBVIOUS
<1>2. Len(member) \in Nat /\ \A i \in 1 .. Len(member) : member[i].size \in Nat BY MemberFacts
<1>3. \A i \in 1 .. Len(member) + 1 : header[i] \in Nat
  BY <1>1, <1>2 DEF LaidOut, member
<1>4. header[1] = 1 /\ image[header[Len(member) + 1]] = [kind |-> "end", member |-> 0]
  BY <1>1 DEF LaidOut, member, image
<1>5. ASSUME NEW i \in 1 .. Len(member)
      PROVE  /\ header[i + 1] = header[i] + 1 + RoundedUp(member[i].size)
             /\ image[header[i]] = [kind |-> "header", member |-> i]
             /\ member[i].size > 0 => image[header[i] + 1] = [kind |-> "data", member |-> i]
  <2>1. /\ header[i + 1] = header[i] + 1 + (member[i].size + BlockSize - 1) \div BlockSize
        /\ image[header[i]] = [kind |-> "header", member |-> i]
        /\ \A b \in header[i] + 1 .. header[i + 1] - 1 :
             image[b] = [kind |-> "data", member |-> i]
    BY <1>1, <1>5 DEF LaidOut, member, image
  <2>2. /\ RoundedUp(member[i].size) \in Nat
        /\ member[i].size > 0 => RoundedUp(member[i].size) > 0
        /\ (member[i].size + BlockSize - 1) \div BlockSize = RoundedUp(member[i].size)
    BY <1>2, Roundings
  <2>3. header[i + 1] = header[i] + 1 + RoundedUp(member[i].size) BY <2>1, <2>2
  <2>4. header[i] \in Nat BY <1>2, <1>3
  <2>5. member[i].size > 0 => header[i] + 1 \in header[i] + 1 .. header[i + 1] - 1
    BY <2>2, <2>3, <2>4, SMTT(30)
  <2> QED BY <2>1, <2>3, <2>5
<1> QED BY <1>3, <1>4, <1>5

\* getFile, isFile and isDir come by the same headers as init_tarfs.
LEMMA WalkIsHeaders ==
  ASSUME archive \in Archives
  PROVE  \A k \in 0 .. Len(member) : RawAt[k] = archive.header[k + 1]
<1> DEFINE n == Len(member)
           header == archive.header
           After(b) == IF image[b].kind = "header" THEN RawNext(b) ELSE b
           h == [k \in 0 .. n |-> header[k + 1]]
<1>0. n \in Nat BY MemberFacts
<1>1. ASSUME NEW k \in 1 .. n PROVE header[k + 1] = After(header[k])
  <2>1. /\ image[header[k]] = [kind |-> "header", member |-> k]
        /\ header[k + 1] = header[k] + 1 + RoundedUp(member[k].size)
    BY LayoutFacts
  <2>2. member[k].size \in Nat BY MemberFacts
  <2>3. RawNext(header[k]) = header[k] + 1 + RoundedUp(member[k].size)
    <3>1. image[header[k]].member = k BY <2>1
    <3> DEFINE s == member[k].size
               up == IF s % BlockSize # 0 THEN (s \div BlockSize) * BlockSize + BlockSize ELSE s
    <3>2. RawNext(header[k]) = header[k] + 1 + up \div BlockSize BY <3>1 DEF RawNext
    <3>3. up \div BlockSize = RoundedUp(s) BY <2>2, Roundings
    <3> HIDE DEF up, s
    <3>4. RawNext(header[k]) = header[k] + 1 + RoundedUp(s) BY <3>2, <3>3
    <3> QED BY <3>4 DEF s
  <2> QED BY <2>1, <2>3
<1>2. header[1] = 1 BY LayoutFacts
<1>3. h = [k \in 0 .. n |-> IF k = 0 THEN 1 ELSE After(h[k - 1])]
  <2>1. ASSUME NEW k \in 0 .. n
        PROVE  header[k + 1] = IF k = 0 THEN 1 ELSE After(h[k - 1])
    <3>1. CASE k = 0 BY <3>1, <1>2
    <3>2. CASE k # 0
      <4>1. k \in 1 .. n /\ k - 1 \in 0 .. n /\ h[k - 1] = header[k] BY <3>2, <1>0
      <4> QED BY <3>2, <4>1, <1>1
    <3> QED BY <3>1, <3>2
  <2> QED BY <2>1
<1>4. RawAt = [k \in 0 .. n |-> IF k = 0 THEN 1 ELSE After(RawAt[k - 1])]
  <2> HIDE DEF h
  <2>1. \E f : f = [k \in 0 .. n |-> IF k = 0 THEN 1 ELSE After(f[k - 1])] BY <1>3
  <2>2. RawAt = CHOOSE f : f = [k \in 0 .. n |-> IF k = 0 THEN 1 ELSE After(f[k - 1])]
    BY DEF RawAt
  <2> QED BY <2>1, <2>2
<1> DEFINE S == {k \in 0 .. n : RawAt[k] # header[k + 1]}
<1>5. SUFFICES ASSUME S # {} PROVE FALSE OBVIOUS
<1>s. S \in SUBSET Nat BY <1>0
<1>6. PICK k \in S : \A y \in S : k <= y BY <1>s, <1>5, LeastNat
<1>7. k # 0 BY <1>0, <1>2, <1>4, <1>6
<1>8. k - 1 \in 0 .. n /\ k - 1 \notin S /\ k \in 1 .. n BY <1>0, <1>6, <1>7
<1>9. RawAt[k - 1] = header[k] BY <1>8
<1>10. RawAt[k] = After(RawAt[k - 1]) BY <1>4, <1>7, <1>8
<1> QED BY <1>1, <1>6, <1>8, <1>9, <1>10

\* They find a member at its own header.
LEMMA FoundAtHeader ==
  ASSUME archive \in Archives, NEW i \in 1 .. Len(member)
  PROVE  RawFind(member[i].name) = archive.header[i] /\ archive.header[i] > 0
<1> DEFINE header == archive.header
           n == Len(member)
           hits == {b \in RawWalk : image[b].kind = "header"
                                    /\ member[image[b].member].name = member[i].name}
<1>0. n \in Nat BY MemberFacts
<1>1. hits = {header[i]}
  <2>1. header[i] \in hits
    <3>1. i - 1 \in 0 .. n /\ RawAt[i - 1] = header[i] BY <1>0, WalkIsHeaders
    <3>2. image[header[i]] = [kind |-> "header", member |-> i] BY LayoutFacts
    <3> QED BY <3>1, <3>2 DEF RawWalk
  <2>2. ASSUME NEW b \in hits PROVE b = header[i]
    <3>1. PICK k \in 0 .. n : b = RawAt[k] BY <2>2 DEF RawWalk
    <3>2. b = header[k + 1] BY <3>1, WalkIsHeaders
    <3>3. k # n
      <4>1. image[header[n + 1]].kind = "end" BY LayoutFacts
      <4> QED BY <4>1, <3>2, <2>2
    <3>4. k + 1 \in 1 .. n BY <1>0, <3>3
    <3>5. image[b] = [kind |-> "header", member |-> k + 1] BY <3>2, <3>4, LayoutFacts
    <3>6. member[k + 1].name = member[i].name BY <2>2, <3>5
    <3> QED BY <3>2, <3>4, <3>6, MemberFacts
  <2> QED BY <2>1, <2>2
<1>2. header[i] \in Nat /\ header[i] > 0
  <2>1. header[i] \in Nat BY <1>0, LayoutFacts
  <2>2. CASE i = 1 BY <2>1, <2>2, LayoutFacts
  <2>3. CASE i # 1
    <3>1. PICK j \in 1 .. n : i = j + 1
      <4>1. i - 1 \in 1 .. n /\ i = (i - 1) + 1 BY <1>0, <2>3
      <4> QED BY <4>1
    <3>2. header[i] = header[j] + 1 + RoundedUp(member[j].size) BY <3>1, LayoutFacts
    <3>3. j \in 1 .. n + 1 BY <1>0
    <3>4. header[j] \in Nat BY <3>3, LayoutFacts
    <3>5. RoundedUp(member[j].size) \in Nat BY MemberFacts, Roundings
    <3> QED BY <2>1, <3>2, <3>4, <3>5
  <2> QED BY <2>2, <2>3
<1>3. RawFind(member[i].name) = CHOOSE b \in hits : \A c \in hits : b <= c
  BY <1>1 DEF RawFind
<1>4. \A b \in hits : \A c \in hits : b <= c BY <1>1, <1>2
<1> QED BY <1>1, <1>2, <1>3, <1>4
------------------------------------------------------------------------------
LEMMA TarInitEstablishes == TarInit => TarInv
<1> SUFFICES ASSUME TarInit PROVE TarInv
  OBVIOUS
<1>1. archive \in Archives /\ start = 1 /\ root = <<>> /\ Len(root) = 0 BY DEF TarInit
<1>2. <<>> \in Name BY DEF Name
<1>3. TarTypeOK BY <1>1, <1>2 DEF TarTypeOK, TarInit
<1>4. NodesInv BY <1>1, LayoutFacts, MemberFacts DEF NodesInv
<1>5. FdInv BY DEF FdInv, TarInit
<1> QED BY <1>3, <1>4, <1>5 DEF TarInv

\* parse puts every member behind the others, into the directory it lies in.
LEMMA ParseFacts ==
  ASSUME TarInv, NEW i, i = Len(root) + 1, i \in 1 .. Len(member),
         Parse(member[i], archive.header[i])
  PROVE  \E p \in 0 .. i - 1 :
           /\ Inside(i, p)
           /\ root' = Append(root, [name |-> member[i].name, dir |-> member[i].dir,
                                    size |-> member[i].size, start |-> archive.header[i],
                                    parent |-> p])
<1> DEFINE node(j) == [name |-> member[i].name, dir |-> member[i].dir,
                       size |-> member[i].size, start |-> archive.header[i], parent |-> j]
           parents == {j \in 1 .. Len(root) : root[j].name = Cut(member[i].name)}
<1>0. archive \in Archives /\ Len(root) \in Nat BY DEF TarInv, TarTypeOK
<1>1. CASE Inside(i, 0)
  <2>1. Slashes(member[i].name) = {} BY <1>0, <1>1, OneDirectory
  <2>2. root' = Append(root, node(0)) BY <2>1 DEF Parse
  <2> QED BY <1>0, <1>1, <2>2
<1>2. CASE ~ Inside(i, 0)
  <2>1. PICK p \in 1 .. i - 1 : Inside(i, p) BY <1>0, <1>2, MemberFacts
  <2>2. p \in 1 .. Len(root) /\ p \in 1 .. Len(member) BY <1>0, <2>1
  <2>3. Slashes(member[i].name) # {} /\ Cut(member[i].name) = member[p].name
    BY <1>0, <2>1, <2>2, OneDirectory DEF Inside
  <2>4. parents = {p}
    <3>1. p \in parents BY <2>2, <2>3 DEF TarInv, NodesInv
    <3>2. ASSUME NEW j \in parents PROVE j = p
      <4>1. j \in 1 .. Len(member) /\ member[j].name = member[p].name
        BY <1>0, <2>3 DEF TarInv, NodesInv
      <4> QED BY <4>1, <2>2, <1>0, MemberFacts
    <3> QED BY <3>1, <3>2
  <2>5. \E j \in parents : root' = Append(root, node(j)) BY <2>3, <2>4 DEF Parse
  <2>6. root' = Append(root, node(p)) BY <2>4, <2>5
  <2> QED BY <1>0, <2>1, <2>6
<1> QED BY <1>1, <1>2

\* At the end of the walk all members have their nodes.
LEMMA UpMeansAll == TarInv /\ Up => Len(root) = Len(member)
<1> SUFFICES ASSUME TarInv, Up, Len(root) # Len(member) PROVE FALSE
  OBVIOUS
<1>1. archive \in Archives /\ Len(root) \in Nat /\ Len(root) <= Len(member)
  BY DEF TarInv, TarTypeOK, NodesInv
<1>2. PICK i \in 1 .. Len(member) : i = Len(root) + 1 BY <1>1, MemberFacts
<1>3. image[archive.header[i]] = [kind |-> "header", member |-> i] BY <1>1, LayoutFacts
<1>4. start = archive.header[i] BY <1>2 DEF TarInv, NodesInv
<1> QED BY <1>3, <1>4 DEF Up

LEMMA InitTarfsStep == TarInv /\ InitTarfs => TarInv'
<1> SUFFICES ASSUME TarInv, InitTarfs PROVE TarInv'
  OBVIOUS
<1> DEFINE i == Len(root) + 1
<1>0. /\ archive \in Archives /\ root \in Seq(Node) /\ Len(root) \in Nat
      /\ start = archive.header[i] /\ Len(root) <= Len(member) /\ Len(member) \in Nat
  BY MemberFacts DEF TarInv, TarTypeOK, NodesInv
<1>1. image[start].kind = "header" /\ UNCHANGED <<archive, fd, opened>>
      /\ member' = member
  BY DEF InitTarfs, member
<1>2. i \in 1 .. Len(member)
  <2>1. Len(root) # Len(member)
    <3>1. image[archive.header[Len(member) + 1]].kind = "end" BY <1>0, LayoutFacts
    <3> QED BY <3>1, <1>0, <1>1
  <2> QED BY <2>1, <1>0
<1>3. image[start].member = i
  <2>1. PICK k \in 1 .. Len(member) : k = i BY <1>2
  <2>2. image[archive.header[k]] = [kind |-> "header", member |-> k] BY <1>0, LayoutFacts
  <2> QED BY <1>0, <2>1, <2>2
<1>4. /\ Parse(member[i], archive.header[i])
      /\ start' = archive.header[i] + 1 + RoundedUp(member[i].size)
  BY <1>0, <1>3 DEF InitTarfs
<1>5. start' = archive.header[i + 1] BY <1>0, <1>2, <1>4, LayoutFacts
<1>6. PICK p \in 0 .. i - 1 :
        /\ Inside(i, p)
        /\ root' = Append(root, [name |-> member[i].name, dir |-> member[i].dir,
                                 size |-> member[i].size, start |-> archive.header[i],
                                 parent |-> p])
  BY <1>2, <1>4, ParseFacts
<1> DEFINE node == [name |-> member[i].name, dir |-> member[i].dir, size |-> member[i].size,
                    start |-> archive.header[i], parent |-> p]
<1>7. node \in Node
  <2>1. /\ member[i].name \in Name /\ member[i].size \in Nat /\ archive.header[i] \in Nat
        /\ p \in Nat
    BY <1>0, <1>2, MemberFacts, LayoutFacts
  <2>2. member[i].dir \in BOOLEAN BY <1>0, <1>2, MemberFacts
  <2> QED BY <2>1, <2>2, Zenon DEF Node
<1>8. /\ root' \in Seq(Node) /\ Len(root') = i /\ root'[i] = node
      /\ \A k \in 1 .. Len(root) : root'[k] = root[k]
  <2> HIDE DEF node
  <2>1. root' = Append(root, node) BY <1>6 DEF node
  <2> QED BY <1>0, <1>7, <2>1
<1>9. TarTypeOK'
  <2>1. start' \in Nat BY <1>0, <1>2, <1>5, LayoutFacts
  <2>2. fd' \in [Process -> [0 .. MaxFd -> -1 .. Len(root')]]
    <3>1. \A f \in [0 .. MaxFd -> -1 .. Len(root)] : f \in [0 .. MaxFd -> -1 .. Len(root')]
      <4>1. -1 .. Len(root) \subseteq -1 .. Len(root') BY <1>0, <1>8
      <4> QED BY <4>1
    <3> QED BY <1>1, <3>1 DEF TarInv, TarTypeOK
  <2> QED BY <1>1, <1>8, <2>1, <2>2 DEF TarInv, TarTypeOK
<1>10. NodesInv'
  <2>1. ASSUME NEW k \in 1 .. Len(root')
        PROVE  /\ root'[k].name = member[k].name /\ root'[k].dir = member[k].dir
               /\ root'[k].size = member[k].size /\ root'[k].start = archive.header[k]
               /\ Inside(k, root'[k].parent)
    <3>1. CASE k = i BY <3>1, <1>6, <1>8
    <3>2. CASE k # i
      <4>1. k \in 1 .. Len(root) BY <3>2, <1>0, <1>8
      <4> QED BY <4>1, <1>8 DEF TarInv, NodesInv
    <3> QED BY <3>1, <3>2
  <2> QED BY <2>1, <1>0, <1>1, <1>2, <1>5, <1>8 DEF NodesInv, Inside
<1>11. FdInv'
  <2>1. Len(root) <= Len(root') BY <1>0, <1>8
  <2>2. ASSUME NEW q \in Process, NEW n \in 3 .. MaxFd - 1, fd[q][n] # 0
        PROVE  /\ fd[q][n] \in 1 .. Len(root') /\ root'[fd[q][n]].name = opened[q][n]
               /\ ~ root'[fd[q][n]].dir
    <3>1. fd[q][n] \in 1 .. Len(root) /\ root[fd[q][n]].name = opened[q][n] /\ ~ root[fd[q][n]].dir
      BY <2>2 DEF TarInv, FdInv
    <3> QED BY <3>1, <2>1, <1>0, <1>8
  <2> QED BY <2>2, <1>1 DEF FdInv
<1> QED BY <1>9, <1>10, <1>11 DEF TarInv

\* open takes the first free descriptor, or the word behind the table.
LEMMA FreeFdFacts ==
  ASSUME TarTypeOK, NEW p \in Process
  PROVE  /\ FreeFd(p) \in 3 .. MaxFd
         /\ FreeFd(p) < MaxFd => fd[p][FreeFd(p)] = 0
<1>1. CASE \A n \in 3 .. MaxFd - 1 : fd[p][n] # 0 BY <1>1 DEF FreeFd
<1>2. CASE ~ \A n \in 3 .. MaxFd - 1 : fd[p][n] # 0
  <2> DEFINE S == {n \in 3 .. MaxFd - 1 : fd[p][n] = 0}
  <2>1. S \in SUBSET Nat /\ S # {} BY <1>2
  <2>2. PICK n \in S : \A k \in S : n <= k BY <2>1, LeastNat
  <2>3. fd[p][n] = 0 /\ \A k \in 3 .. n - 1 : fd[p][k] # 0 BY <2>2
  <2>4. FreeFd(p) = CHOOSE m \in 3 .. MaxFd - 1 : fd[p][m] = 0 /\ \A k \in 3 .. m - 1 : fd[p][k] # 0
    BY <1>2 DEF FreeFd
  <2>5. FreeFd(p) \in 3 .. MaxFd - 1 /\ fd[p][FreeFd(p)] = 0 BY <2>2, <2>3, <2>4
  <2> QED BY <2>5
<1> QED BY <1>1, <1>2

\* What the calls on descriptors leave alone.
LEMMA FilesStay ==
  ASSUME TarInv, UNCHANGED files
  PROVE  /\ NodesInv'
         /\ archive' \in Archives /\ start' \in Nat /\ root' \in Seq(Node) /\ root' = root
BY DEF TarInv, TarTypeOK, NodesInv, Inside, files, member

LEMMA OpenStep ==
  ASSUME TarInv, NEW p \in Process, NEW i \in 1 .. Len(root), Open(p, i)
  PROVE  TarInv'
<1> DEFINE f == FreeFd(p)
<1>1. f \in 3 .. MaxFd BY FreeFdFacts DEF TarInv
<1>2. /\ fd \in [Process -> [0 .. MaxFd -> -1 .. Len(root)]]
      /\ opened \in [Process -> [0 .. MaxFd -> Name]] /\ Len(root) \in Nat
  BY DEF TarInv, TarTypeOK
<1>3. /\ fd' = [fd EXCEPT ![p][f] = i] /\ UNCHANGED files /\ ~ root[i].dir
      /\ opened' = IF f < MaxFd THEN [opened EXCEPT ![p][f] = root[i].name] ELSE opened
  BY DEF Open
<1>4. NodesInv' /\ root' = root /\ archive' \in Archives /\ start' \in Nat /\ root' \in Seq(Node)
  BY <1>3, FilesStay
<1> HIDE DEF f
<1>5. fd' \in [Process -> [0 .. MaxFd -> -1 .. Len(root)]]
  BY <1>1, <1>2, <1>3
<1>6. opened' \in [Process -> [0 .. MaxFd -> Name]]
  <2>0. root[i] \in Node BY <1>2 DEF TarInv, TarTypeOK
  <2>1. root[i].name \in Name BY <2>0 DEF Node
  <2> QED BY <1>1, <1>2, <1>3, <2>1
<1>7. FdInv'
  <2>1. ASSUME NEW q \in Process, NEW n \in 3 .. MaxFd - 1, fd'[q][n] # 0
        PROVE  /\ fd'[q][n] \in 1 .. Len(root) /\ root[fd'[q][n]].name = opened'[q][n]
               /\ ~ root[fd'[q][n]].dir
    <3>1. CASE q = p /\ n = f
      <4>1. fd'[q][n] = i /\ opened'[q][n] = root[i].name BY <1>1, <1>2, <1>3, <3>1
      <4> QED BY <4>1, <1>3
    <3>2. CASE ~ (q = p /\ n = f)
      <4>1. fd'[q][n] = fd[q][n] /\ opened'[q][n] = opened[q][n] BY <1>1, <1>2, <1>3, <3>2
      <4> QED BY <4>1, <2>1 DEF TarInv, FdInv
    <3> QED BY <3>1, <3>2
  <2> QED BY <2>1, <1>4 DEF FdInv
<1> QED BY <1>4, <1>5, <1>6, <1>7 DEF TarInv, TarTypeOK

LEMMA ForkStep == TarInv /\ Fork => TarInv'
<1> SUFFICES ASSUME TarInv, Fork PROVE TarInv'
  OBVIOUS
<1>1. NodesInv' /\ root' = root /\ archive' \in Archives /\ start' \in Nat /\ root' \in Seq(Node)
  BY FilesStay DEF Fork
<1>2. /\ fd \in [Process -> [0 .. MaxFd -> -1 .. Len(root)]]
      /\ opened \in [Process -> [0 .. MaxFd -> Name]] /\ Len(root) \in Nat
  BY DEF TarInv, TarTypeOK
<1>3. /\ fd' \in [Process -> [0 .. MaxFd -> -1 .. Len(root)]]
      /\ opened' \in [Process -> [0 .. MaxFd -> Name]]
  <2>1. "shell" \in Process /\ "command" \in Process BY DEF Process
  <2>2. [fd["shell"] EXCEPT ![MaxFd] = -1] \in [0 .. MaxFd -> -1 .. Len(root)] BY <1>2, <2>1
  <2>3. opened["shell"] \in [0 .. MaxFd -> Name] BY <1>2, <2>1
  <2> QED BY <1>2, <2>1, <2>2, <2>3 DEF Fork
<1>4. \A q \in Process, n \in 3 .. MaxFd - 1 :
        \E s \in Process : fd'[q][n] = fd[s][n] /\ opened'[q][n] = opened[s][n]
  BY <1>2 DEF Fork, Process
<1>5. FdInv' BY <1>1, <1>4 DEF TarInv, FdInv
<1> QED BY <1>1, <1>3, <1>5 DEF TarInv, TarTypeOK

LEMMA ExecveStep == TarInv /\ Execve => TarInv'
<1> SUFFICES ASSUME TarInv, Execve PROVE TarInv'
  OBVIOUS
<1>1. NodesInv' /\ root' = root /\ archive' \in Archives /\ start' \in Nat /\ root' \in Seq(Node)
  BY FilesStay DEF Execve
<1>2. /\ fd \in [Process -> [0 .. MaxFd -> -1 .. Len(root)]]
      /\ opened \in [Process -> [0 .. MaxFd -> Name]] /\ Len(root) \in Nat
  BY DEF TarInv, TarTypeOK
<1>3. <<>> \in Name BY DEF Name
<1>4. /\ fd' \in [Process -> [0 .. MaxFd -> -1 .. Len(root)]]
      /\ opened' \in [Process -> [0 .. MaxFd -> Name]]
  <2>1. "command" \in Process BY DEF Process
  <2>2. [n \in 0 .. MaxFd |-> IF n = MaxFd THEN -1 ELSE 0] \in [0 .. MaxFd -> -1 .. Len(root)]
    BY <1>2
  <2>3. [n \in 0 .. MaxFd |-> <<>>] \in [0 .. MaxFd -> Name] BY <1>3
  <2> QED BY <1>2, <2>1, <2>2, <2>3 DEF Execve
<1>5. \A q \in Process, n \in 3 .. MaxFd - 1 :
        fd'[q][n] # 0 => fd'[q][n] = fd[q][n] /\ opened'[q][n] = opened[q][n]
  BY <1>2 DEF Execve, Process
<1>6. FdInv' BY <1>1, <1>5, SMTT(30) DEF TarInv, FdInv
<1> QED BY <1>1, <1>4, <1>6 DEF TarInv, TarTypeOK

\* The table has a node for every header that init_tarfs has passed, in its
\* directory, and a descriptor holds the number of the file it was opened for.
THEOREM TarInvariant == TarSpec => []TarInv
<1>1. TarInit => TarInv BY TarInitEstablishes
<1>2. TarInv /\ [TarNext]_tarVars => TarInv'
  <2> SUFFICES ASSUME TarInv, [TarNext]_tarVars PROVE TarInv'
    OBVIOUS
  <2>1. CASE InitTarfs BY <2>1, InitTarfsStep
  <2>2. CASE Fork BY <2>2, ForkStep
  <2>3. CASE Execve BY <2>3, ExecveStep
  <2>4. CASE \E p \in Process, i \in 1 .. Len(root) : Open(p, i) BY <2>4, OpenStep
  <2>5. CASE UNCHANGED tarVars
    BY <2>5 DEF tarVars, TarInv, TarTypeOK, NodesInv, FdInv, Inside, member
  <2> QED BY <2>1, <2>2, <2>3, <2>4, <2>5 DEF TarNext
<1> QED BY <1>1, <1>2, PTL DEF TarSpec

\* No call of open changes a descriptor that is in use: openSyscall takes one that
\* is free, and with a full table it stores into the word behind the table.
THEOREM OpenDisturbsNone == TarSpec => DescriptorsStay
<1>1. TarInv /\ [TarNext]_tarVars =>
        [\A p \in Process, i \in 1 .. Len(root) :
           Open(p, i) => \A q \in Process, n \in 0 .. MaxFd - 1 :
                           fd[q][n] # 0 => fd'[q][n] = fd[q][n]]_tarVars
  <2> SUFFICES ASSUME TarInv, NEW p \in Process, NEW i \in 1 .. Len(root), Open(p, i),
                      NEW q \in Process, NEW n \in 0 .. MaxFd - 1, fd[q][n] # 0
               PROVE  fd'[q][n] = fd[q][n]
    OBVIOUS
  <2>1. FreeFd(p) \in 3 .. MaxFd /\ (FreeFd(p) < MaxFd => fd[p][FreeFd(p)] = 0)
    BY FreeFdFacts DEF TarInv
  <2>2. ~ (q = p /\ n = FreeFd(p)) BY <2>1
  <2>3. fd' = [fd EXCEPT ![p][FreeFd(p)] = i] BY DEF Open
  <2>4. fd \in [Process -> [0 .. MaxFd -> -1 .. Len(root)]] BY DEF TarInv, TarTypeOK
  <2> HIDE DEF FreeFd
  <2> QED BY <2>1, <2>2, <2>3, <2>4
<1> QED BY <1>1, TarInvariant, PTL DEF TarSpec, DescriptorsStay

\* Through fork, execve and further opens, a descriptor leads readSyscall to the
\* data of the file that open was given the name of, for files of any size.
THEOREM ReadsOwn == TarSpec => []ReadsOwnData
<1>1. TarInv => ReadsOwnData
  <2> SUFFICES ASSUME TarInv, NEW p \in Process, NEW n \in 3 .. MaxFd - 1, fd[p][n] # 0
               PROVE  /\ root[fd[p][n]].name = opened[p][n]
                      /\ root[fd[p][n]].size > 0 =>
                           /\ image[FileStart(root[fd[p][n]])].kind = "data"
                           /\ member[image[FileStart(root[fd[p][n]])].member].name = opened[p][n]
    BY DEF ReadsOwnData
  <2>1. PICK i \in 1 .. Len(root) : i = fd[p][n] /\ root[i].name = opened[p][n]
    BY DEF TarInv, FdInv
  <2>2. archive \in Archives /\ Len(root) \in Nat /\ Len(root) <= Len(member) /\ Len(member) \in Nat
    BY MemberFacts DEF TarInv, TarTypeOK, NodesInv
  <2>3. /\ root[i].name = member[i].name /\ root[i].size = member[i].size
        /\ root[i].start = archive.header[i]
    BY DEF TarInv, NodesInv
  <2>4. i \in 1 .. Len(member) BY <2>2
  <2>5. member[i].size > 0 => image[archive.header[i] + 1] = [kind |-> "data", member |-> i]
    BY <2>2, <2>4, LayoutFacts
  <2>6. FileStart(root[i]) = archive.header[i] + 1 BY <2>3 DEF FileStart
  <2>7. root[i].size > 0 => /\ image[FileStart(root[i])].kind = "data"
                            /\ member[image[FileStart(root[i])].member].name = root[i].name
    <3> HAVE root[i].size > 0
    <3>1. image[FileStart(root[i])] = [kind |-> "data", member |-> i]
      BY ONLY <2>3, <2>5, <2>6, root[i].size > 0
    <3>2. image[FileStart(root[i])].kind = "data" /\ image[FileStart(root[i])].member = i
      BY ONLY <3>1
    <3> QED BY ONLY <2>3, <3>2
  <2> QED BY ONLY <2>1, <2>7, ZenonT(30)
<1> QED BY <1>1, TarInvariant, PTL

\* open finds a directory under its name, with or without the slash.
LEMMA OpenDirFinds ==
  ASSUME TarInv, Up, NEW i \in 1 .. Len(member), member[i].dir
  PROVE  /\ OpenDir(member[i].name) = i
         /\ OpenDir(SubSeq(member[i].name, 1, Len(member[i].name) - 1)) = i
<1> DEFINE dir == member[i].name
           bare == SubSeq(dir, 1, Len(dir) - 1)
           found == {k \in 1 .. Len(root) : root[k].name = dir /\ root[k].dir}
<1>0. archive \in Archives /\ Len(root) = Len(member) /\ Len(member) \in Nat
  BY UpMeansAll, MemberFacts DEF TarInv, TarTypeOK
<1>1. dir \in Seq(Char) /\ Len(dir) \in Nat /\ Len(dir) >= 3 /\ dir[Len(dir)] = "/"
  BY <1>0, MemberFacts, NameLength DEF Name, Last
<1>2. found = {i}
  <2>1. i \in found BY <1>0 DEF TarInv, NodesInv
  <2>2. ASSUME NEW k \in found PROVE k = i
    <3>1. k \in 1 .. Len(member) /\ member[k].name = member[i].name
      BY <1>0 DEF TarInv, NodesInv
    <3> QED BY <3>1, <1>0, MemberFacts
  <2> QED BY <2>1, <2>2
<1>3. (CHOOSE k \in found : \A j \in found : k <= j) = i
  <2>1. \A k, j \in found : k <= j BY <1>0, <1>2
  <2> QED BY <1>2, <2>1
<1>4. dir # <<"/">> BY <1>1
<1>5. OpenDir(dir) = i
  BY <1>1, <1>2, <1>3, <1>4 DEF OpenDir, Last
<1>6. /\ bare \in Seq(Char) /\ Len(bare) = Len(dir) - 1
      /\ \A k \in 1 .. Len(dir) - 1 : bare[k] = dir[k]
  BY <1>1
<1>7. dir[Len(dir) - 1] # "/"
  <2>1. CASE Inside(i, 0)
    <3>1. DirectlyIn(dir, <<>>) BY <2>1 DEF Inside
    <3>2. <<>> \in Name /\ Len(<<>>) = 0 /\ dir \in Name BY <1>1 DEF Name
    <3>3. \A k \in 1 .. Len(dir) - 1 : dir[k] # "/" BY <3>1, <3>2, InDirectory
    <3> QED BY <3>3, <1>1
  <2>2. CASE ~ Inside(i, 0)
    <3>1. PICK j \in 1 .. i - 1 : Inside(i, j) BY <2>2, <1>0, MemberFacts
    <3>2. j \in 1 .. Len(member) /\ DirectlyIn(dir, member[j].name) /\ member[j].dir
      BY <3>1, <1>0 DEF Inside
    <3>3. member[j].name \in Name /\ dir \in Name /\ Last(member[j].name) = "/"
          /\ Len(member[j].name) \in Nat
      BY <3>2, <1>0, MemberFacts, NameLength
    <3>4. /\ Len(dir) > Len(member[j].name) /\ dir[Len(member[j].name) + 1] # "/"
          /\ \A k \in Len(member[j].name) + 1 .. Len(dir) - 1 : dir[k] # "/"
      BY <3>2, <3>3, InDirectory
    <3>5. Len(dir) # Len(member[j].name) + 1 BY <3>4, <1>1
    <3>6. Len(dir) - 1 \in Len(member[j].name) + 1 .. Len(dir) - 1 BY <3>3, <3>4, <3>5, <1>1, SMTT(30)
    <3> QED BY <3>4, <3>6
  <2> QED BY <2>1, <2>2
<1>8. Last(bare) # "/" /\ bare # <<"/">>
  <2>0. Len(dir) - 1 \in 1 .. Len(dir) - 1 /\ Len(dir) - 1 >= 2
    <3> HIDE DEF dir, bare, found
    <3> QED BY <1>1
  <2>1. PICK k \in 1 .. Len(dir) - 1 : k = Len(dir) - 1 /\ k >= 2
    <3> HIDE DEF dir, bare, found
    <3> QED BY <2>0
  <2>2. bare[k] = dir[k] /\ Len(bare) = k BY <1>6, <2>1
  <2>3. bare[k] # "/" BY <1>7, <2>1, <2>2
  <2>4. Len(<<"/">>) = 1 OBVIOUS
  <2> HIDE DEF bare, dir
  <2> QED BY <2>1, <2>2, <2>3, <2>4 DEF Last
<1>9. Append(bare, "/") = dir
  BY <1>1, <1>6
<1> HIDE DEF bare, dir
<1>10. OpenDir(bare) = i
  BY <1>2, <1>3, <1>8, <1>9 DEF OpenDir
<1> QED BY <1>5, <1>10 DEF bare, dir

\* getFile and isDir, which walk the archive again and round sizes their own way,
\* come to the same header and the same kind as the table that init_tarfs made.
THEOREM Lookups == TarSpec => []LookupsAgree
<1>1. TarInv => LookupsAgree
  <2> SUFFICES ASSUME TarInv, Up, NEW i \in 1 .. Len(member)
               PROVE  IF member[i].dir
                      THEN IsDir(member[i].name) /\ OpenDir(member[i].name) # -1
                      ELSE \E k \in 1 .. Len(root) :
                             root[k].name = member[i].name
                             /\ GetFile(member[i].name) = FileStart(root[k])
    BY DEF LookupsAgree
  <2>0. archive \in Archives /\ Len(root) = Len(member) /\ Len(member) \in Nat
    BY UpMeansAll, MemberFacts DEF TarInv, TarTypeOK
  <2>1. RawFind(member[i].name) = archive.header[i] /\ archive.header[i] > 0
    BY <2>0, FoundAtHeader
  <2>2. image[archive.header[i]] = [kind |-> "header", member |-> i] /\ archive.header[i] \in Nat
    <3>1. image[archive.header[i]] = [kind |-> "header", member |-> i] BY <2>0, LayoutFacts
    <3>2. i \in 1 .. Len(member) + 1 BY <2>0
    <3>3. archive.header[i] \in Nat BY <2>0, <3>2, LayoutFacts
    <3> QED BY <3>1, <3>3
  <2>3. CASE member[i].dir
    <3>1. IsDir(member[i].name) BY <2>1, <2>2, <2>3 DEF IsDir
    <3>2. OpenDir(member[i].name) # -1 BY <2>0, <2>3, OpenDirFinds
    <3> QED BY <3>1, <3>2, <2>3
  <2>4. CASE ~ member[i].dir
    <3>1. GetFile(member[i].name) = archive.header[i] + 1 BY <2>1, <2>2 DEF GetFile
    <3>2. i \in 1 .. Len(root) /\ root[i].name = member[i].name /\ root[i].start = archive.header[i]
      BY <2>0 DEF TarInv, NodesInv
    <3> QED BY <3>1, <3>2, <2>4 DEF FileStart
  <2> QED BY <2>3, <2>4
<1> QED BY <1>1, TarInvariant, PTL

\* readdir shows of every directory exactly the members that are directly in it,
\* although parse looks for the directory with a search for slashes that begins at
\* a place meant for the names of directories.
THEOREM LsShows == TarSpec => []LsShowsChildren
<1>1. TarInv => LsShowsChildren
  <2> DEFINE all == {member[i] : i \in 1 .. Len(member)}
             children(dir) == {m \in all : DirectlyIn(m.name, dir)}
             rest(m, dir) == SubSeq(m.name, Len(dir) + 1, Len(m.name))
  <2> SUFFICES ASSUME TarInv, Up
               PROVE  /\ Readdir(OpenDir(<<"/">>)) = {m.name : m \in children(<<>>)}
                      /\ \A i \in {k \in 1 .. Len(member) : member[k].dir} :
                           /\ Readdir(OpenDir(member[i].name)) =
                                {rest(m, member[i].name) : m \in children(member[i].name)}
                           /\ OpenDir(SubSeq(member[i].name, 1, Len(member[i].name) - 1)) =
                                OpenDir(member[i].name)
    BY DEF LsShowsChildren
  <2>0. /\ archive \in Archives /\ Len(root) = Len(member) /\ Len(member) \in Nat
        /\ root \in Seq(Node)
    BY UpMeansAll, MemberFacts DEF TarInv, TarTypeOK
  <2>1. ASSUME NEW i \in 1 .. Len(member)
        PROVE  /\ root[i].name = member[i].name
               /\ root[i].parent = 0 <=> DirectlyIn(member[i].name, <<>>)
               /\ \A j \in 1 .. Len(member) :
                    member[j].dir =>
                      (root[i].parent = j <=> DirectlyIn(member[i].name, member[j].name))
    <3>1. root[i].name = member[i].name /\ Inside(i, root[i].parent)
      BY <2>0 DEF TarInv, NodesInv
    <3>2. root[i].parent \in 0 .. i - 1 BY <2>0, <3>1 DEF Inside
    <3> QED BY <2>0, <3>1, <3>2, InsideIsParent
  <2>2. Readdir(OpenDir(<<"/">>)) = {m.name : m \in children(<<>>)}
    <3>1. OpenDir(<<"/">>) = 0 BY DEF OpenDir
    <3>2. \A i \in 1 .. Len(member) :
            SubSeq(member[i].name, 1, Len(member[i].name)) = member[i].name
      BY <2>0, MemberFacts DEF Name
    <3>3. Readdir(0) = {member[i].name : i \in {k \in 1 .. Len(member) : root[k].parent = 0}}
      <4> DEFINE K == {k \in 1 .. Len(root) : root[k].parent = 0}
      <4>1. Readdir(0) = {SubSeq(root[k].name, 1, Len(root[k].name)) : k \in K} BY DEF Readdir
      <4>2. \A k \in K : SubSeq(root[k].name, 1, Len(root[k].name)) = member[k].name
        BY <2>0, <2>1, <3>2
      <4>3. K = {k \in 1 .. Len(member) : root[k].parent = 0} BY <2>0
      <4> HIDE DEF K
      <4> QED BY <4>1, <4>2, <4>3
    <3>4. {k \in 1 .. Len(member) : root[k].parent = 0}
            = {k \in 1 .. Len(member) : DirectlyIn(member[k].name, <<>>)}
      BY <2>1
    <3> QED BY <3>1, <3>3, <3>4
  <2>3. ASSUME NEW i \in 1 .. Len(member), member[i].dir
        PROVE  /\ Readdir(OpenDir(member[i].name)) =
                    {rest(m, member[i].name) : m \in children(member[i].name)}
               /\ OpenDir(SubSeq(member[i].name, 1, Len(member[i].name) - 1)) =
                    OpenDir(member[i].name)
    <3>1. /\ OpenDir(member[i].name) = i
          /\ OpenDir(SubSeq(member[i].name, 1, Len(member[i].name) - 1)) = i
      BY <2>3, OpenDirFinds
    <3>2. i # 0 BY <2>0
    <3>3. Readdir(i) = {rest(member[k], member[i].name) :
                          k \in {k \in 1 .. Len(member) : root[k].parent = i}}
      <4> DEFINE K == {k \in 1 .. Len(root) : root[k].parent = i}
      <4>1. Readdir(i) = {SubSeq(root[k].name, Len(root[i].name) + 1, Len(root[k].name)) : k \in K}
        BY <3>2 DEF Readdir
      <4>2. \A k \in K : SubSeq(root[k].name, Len(root[i].name) + 1, Len(root[k].name))
                           = rest(member[k], member[i].name)
        BY <2>0, <2>1
      <4>3. K = {k \in 1 .. Len(member) : root[k].parent = i} BY <2>0
      <4> HIDE DEF K, rest
      <4> QED BY <4>1, <4>2, <4>3
    <3>4. {k \in 1 .. Len(member) : root[k].parent = i}
            = {k \in 1 .. Len(member) : DirectlyIn(member[k].name, member[i].name)}
      BY <2>1, <2>3
    <3> QED BY <3>1, <3>3, <3>4
  <2> QED BY <2>2, <2>3
<1> QED BY <1>1, TarInvariant, PTL
==============================================================================
