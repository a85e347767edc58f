--------------------------- MODULE ConsoleProofs ---------------------------
(***************************************************************************)
(* The console for a screen of any size: the address never runs past the   *)
(* rows that scroll moves and clears, and never back into the clock's row. *)
(* The first follows from a bound for each row.  The second has to look    *)
(* ahead: after a scroll that a key caused, erasing the line goes up rows  *)
(* in which the address lags behind, and what keeps it below the clock is  *)
(* that the keys of a line do not reach far enough.                        *)
(***************************************************************************)
EXTENDS Console, TLAPS

\* How far the address may be ahead of column x and row y: one cell for each
\* row above, for the character too many that write puts in a row.
Ahead(x, y, v) == v <= Cols * y + x + (y - 1)

\* The clock starts in cell 0, or goes on in the last row if it has scrolled.
ClockAhead == video <= Cols * LastRow + (ClockLen + 1 - clock)

\* What the prover needs besides TypeOK: the bound of the address in and outside
\* of the timer handler, and what bounds the keys erased without an echo.
IInv == /\ TypeOK
        /\ clock = 0 => Ahead(xp, yp, video)
        /\ clock > 0 => ClockAhead /\ Ahead(saved[1], saved[2], saved[3])
        /\ index - echoed + blind <= MaxBlind

\* Multiplication by the width of the screen, which the provers do not do alone.
LEMMA Row == ASSUME NEW y \in 1 .. LastRow
             PROVE  /\ Cols * y \in Nat
                    /\ Cols * y <= Cols * LastRow
                    /\ Cols * (y + 1) = Cols * y + Cols
                    /\ Cols * (y - 1) = Cols * y - Cols
<1>1. Cols \in Nat /\ y \in Nat /\ LastRow \in Nat /\ LastRow - y \in Nat
  BY ScreenAssumption DEF ScreenAssumption
<1>2. Cols * y \in Nat /\ Cols * (LastRow - y) \in Nat
  BY <1>1
<1>3. Cols * LastRow = Cols * y + Cols * (LastRow - y)
  BY <1>1
<1>4. Cols * (y + 1) = Cols * y + Cols /\ Cols * (y - 1) = Cols * y - Cols
  BY <1>1
<1> QED
  BY <1>1, <1>2, <1>3, <1>4

\* write keeps the column and row in range and moves the address no further than
\* one cell ahead for a new row: scroll brings both back together.
LEMMA WriteAhead ==
  ASSUME TypeOK, Write
  PROVE  /\ xp' \in 0 .. Cols /\ yp' \in 1 .. LastRow /\ video' \in Int
         /\ Ahead(xp, yp, video) => Ahead(xp', yp', video')
         /\ video' = video + 1 \/ video' = Cols * LastRow
<1>1. Cols \in Nat /\ LastRow \in Nat /\ LastRow > 1 /\ LastRow \in 1 .. LastRow
  BY ScreenAssumption DEF ScreenAssumption
<1>2. xp \in 0 .. Cols /\ yp \in 1 .. LastRow /\ video \in Int
  BY DEF TypeOK
<1> USE DEF Ahead
<1>3. /\ Cols * yp \in Nat /\ Cols * (yp + 1) = Cols * yp + Cols
      /\ Cols * LastRow \in Nat
  BY <1>1, <1>2, Row
<1>4. CASE xp < Cols
  <2>1. xp' = xp + 1 /\ video' = video + 1 /\ yp' = yp
    BY <1>4 DEF Write
  <2> QED
    BY <2>1, <1>1, <1>2, <1>3, <1>4
<1>5. CASE ~ (xp < Cols) /\ yp < LastRow - 1
  <2>1. xp' = 0 /\ video' = video + 1 /\ yp' = yp + 1 /\ xp = Cols
    BY <1>1, <1>2, <1>5 DEF Write
  <2> QED
    BY <2>1, <1>1, <1>2, <1>3, <1>5
<1>6. CASE ~ (xp < Cols) /\ ~ (yp < LastRow - 1)
  <2>1. xp' = 0 /\ video' = Cols * LastRow /\ yp' = LastRow
    BY <1>6 DEF Write, Scroll
  <2> QED
    BY <2>1, <1>1, <1>3
<1> QED
  BY <1>4, <1>5, <1>6

LEMMA NewlineAhead ==
  ASSUME TypeOK, Newline, Ahead(xp, yp, video)
  PROVE  /\ xp' \in 0 .. Cols /\ yp' \in 1 .. LastRow /\ video' \in Int
         /\ Ahead(xp', yp', video')
<1>1. Cols \in Nat /\ LastRow \in Nat /\ LastRow > 1 /\ LastRow \in 1 .. LastRow
  BY ScreenAssumption DEF ScreenAssumption
<1>2. xp \in 0 .. Cols /\ yp \in 1 .. LastRow /\ video \in Int
  BY DEF TypeOK
<1> USE DEF Ahead
<1>3. /\ Cols * yp \in Nat /\ Cols * (yp + 1) = Cols * yp + Cols
      /\ Cols * LastRow \in Nat
  BY <1>1, <1>2, Row
<1>4. CASE yp < LastRow
  <2>1. xp' = 0 /\ video' = video + (Cols - xp) /\ yp' = yp + 1
    BY <1>4 DEF Newline
  <2> QED
    BY <2>1, <1>1, <1>2, <1>3, <1>4
<1>5. CASE ~ (yp < LastRow)
  <2>1. xp' = 0 /\ video' = Cols * LastRow /\ yp' = LastRow
    BY <1>5 DEF Newline, Scroll
  <2> QED
    BY <2>1, <1>1, <1>3
<1> QED
  BY <1>4, <1>5

LEMMA BackspaceAhead ==
  ASSUME TypeOK, Backspace, Ahead(xp, yp, video)
  PROVE  /\ xp' \in 0 .. Cols /\ yp' \in 1 .. LastRow /\ video' \in Int
         /\ Ahead(xp', yp', video')
<1>1. Cols \in Nat /\ LastRow \in Nat
  BY ScreenAssumption DEF ScreenAssumption
<1>2. xp \in 0 .. Cols /\ yp \in 1 .. LastRow /\ video \in Int
  BY DEF TypeOK
<1> USE DEF Ahead
<1>3. Cols * yp \in Nat /\ Cols * (yp - 1) = Cols * yp - Cols
  BY <1>2, Row
<1>4. CASE xp = 0 /\ yp > 1
  <2>1. xp' = Cols /\ video' = video - 1 /\ yp' = yp - 1
    BY <1>4 DEF Backspace
  <2> QED
    BY <2>1, <1>1, <1>2, <1>3, <1>4
<1>5. CASE ~ (xp = 0 /\ yp > 1)
  <2>1. xp' = (IF xp > 0 THEN xp - 1 ELSE 0) /\ video' = video - 1 /\ yp' = yp
    BY <1>5 DEF Backspace
  <2> QED
    BY <2>1, <1>1, <1>2, <1>3
<1> QED
  BY <1>4, <1>5

\* Every step keeps the address within its bound.
LEMMA Step == IInv /\ [Next]_vars => IInv'
<1> SUFFICES ASSUME IInv, [Next]_vars PROVE IInv'
  OBVIOUS
<1>0. /\ Cols \in Nat /\ Cols > 0 /\ LastRow \in Nat /\ LastRow > 1
      /\ ClockLen \in Nat /\ ClockLen >= 1
      /\ BufSize \in Nat /\ BufSize > 0 /\ MaxBlind \in Nat
      /\ Cols * LastRow \in Nat
  <2>1. LastRow \in 1 .. LastRow
    BY ScreenAssumption DEF ScreenAssumption
  <2> QED
    BY <2>1, Row, ScreenAssumption DEF ScreenAssumption
<1>t. /\ xp \in 0 .. Cols /\ yp \in 1 .. LastRow /\ video \in Int
      /\ localEcho \in {0, 1} /\ index \in 0 .. BufSize - 1
      /\ clock \in 0 .. ClockLen + 1
      /\ saved \in (0 .. Cols) \X (1 .. LastRow) \X Int
      /\ echoed \in 0 .. index /\ blind \in 0 .. MaxBlind
      /\ index - echoed + blind <= MaxBlind
  BY DEF IInv, TypeOK
<1>a. TypeOK /\ (clock = 0 => Ahead(xp, yp, video))
  BY DEF IInv
<1>1. CASE Kprintf
  <2>1. clock = 0 /\ UNCHANGED <<line, clock, saved, blind>>
    BY <1>1 DEF Kprintf
  <2>2. Write \/ Newline \/ CarReturn \/ ClearScreen
    BY <1>1 DEF Kprintf
  <2>3. /\ xp' \in 0 .. Cols /\ yp' \in 1 .. LastRow /\ video' \in Int
        /\ Ahead(xp', yp', video')
    <3>1. CASE Write BY <3>1, <2>1, <1>a, WriteAhead
    <3>2. CASE Newline BY <3>2, <2>1, <1>a, NewlineAhead
    <3>3. CASE CarReturn
      BY <3>3, <2>1, <1>a, <1>t, <1>0 DEF CarReturn, Ahead
    <3>4. CASE ClearScreen
      BY <3>4, <1>0 DEF ClearScreen, Ahead
    <3> QED BY <2>2, <3>1, <3>2, <3>3, <3>4
  <2> QED
    BY <2>1, <2>3, <1>0, <1>t DEF IInv, TypeOK, line
<1>2. CASE BeginRead
  BY <1>2, <1>0, <1>t, <1>a DEF BeginRead, IInv, TypeOK, cursor, Ahead
<1>3. CASE EndRead
  BY <1>3, <1>0, <1>t, <1>a DEF EndRead, IInv, TypeOK, cursor, Ahead
<1>4. CASE StoreKey
  <2>1. /\ clock = 0 /\ index + 1 < BufSize /\ index' = index + 1
        /\ UNCHANGED <<localEcho, clock, saved, blind>>
    BY <1>4 DEF StoreKey
  <2>2. CASE localEcho = 1
    <3>1. Write /\ echoed' = echoed + 1
      BY <1>4, <2>2 DEF StoreKey
    <3>2. /\ xp' \in 0 .. Cols /\ yp' \in 1 .. LastRow /\ video' \in Int
          /\ Ahead(xp', yp', video')
      BY <3>1, <2>1, <1>a, WriteAhead
    <3> QED
      BY <2>1, <3>1, <3>2, <1>0, <1>t DEF IInv, TypeOK
  <2>3. CASE localEcho # 1
    <3>1. UNCHANGED <<xp, yp, video, echoed>> /\ index - echoed + blind < MaxBlind
      BY <1>4, <2>3 DEF StoreKey, cursor
    <3> QED
      BY <2>1, <3>1, <1>0, <1>t, <1>a DEF IInv, TypeOK
  <2> QED BY <2>2, <2>3
<1>5. CASE CapsKey
  <2>1. clock = 0 /\ Write /\ UNCHANGED <<line, clock, saved, blind>>
    BY <1>5 DEF CapsKey
  <2>2. /\ xp' \in 0 .. Cols /\ yp' \in 1 .. LastRow /\ video' \in Int
        /\ Ahead(xp', yp', video')
    BY <2>1, <1>a, WriteAhead
  <2> QED
    BY <2>1, <2>2, <1>0, <1>t DEF IInv, TypeOK, line
<1>6. CASE BackspaceKey
  <2>1. /\ clock = 0 /\ index > 0 /\ Backspace /\ index' = index - 1
        /\ UNCHANGED <<localEcho, clock, saved>>
        /\ IF echoed > 0 THEN echoed' = echoed - 1 /\ UNCHANGED blind
                         ELSE blind' = blind + 1 /\ UNCHANGED echoed
    BY <1>6 DEF BackspaceKey
  <2>2. /\ xp' \in 0 .. Cols /\ yp' \in 1 .. LastRow /\ video' \in Int
        /\ Ahead(xp', yp', video')
    BY <2>1, <1>a, BackspaceAhead
  <2> QED
    BY <2>1, <2>2, <1>0, <1>t DEF IInv, TypeOK
<1>7. CASE BeginClock
  <2>1. /\ clock = 0 /\ clock' = ClockLen + 1 /\ video' = 0
        /\ saved' = <<xp, yp, video>>
        /\ UNCHANGED <<xp, yp, localEcho, index, echoed, blind>>
    BY <1>7 DEF BeginClock, cursor, line
  <2>2. /\ saved'[1] = xp /\ saved'[2] = yp /\ saved'[3] = video
        /\ saved' \in (0 .. Cols) \X (1 .. LastRow) \X Int
    BY <2>1, <1>t
  <2>3. ClockAhead'
    BY <2>1, <1>0 DEF ClockAhead
  <2>4. Ahead(saved'[1], saved'[2], saved'[3])
    BY <2>1, <2>2, <1>a
  <2>5. TypeOK'
    BY <2>1, <2>2, <1>0, <1>t DEF TypeOK
  <2> QED
    BY <2>1, <2>3, <2>4, <2>5, <1>0, <1>t DEF IInv
<1>8. CASE DrawClock
  <2>1. /\ clock > 1 /\ clock' = clock - 1 /\ Write
        /\ UNCHANGED <<localEcho, index, echoed, saved, blind>>
    BY <1>8 DEF DrawClock, line
  <2>2. /\ xp' \in 0 .. Cols /\ yp' \in 1 .. LastRow /\ video' \in Int
        /\ video' = video + 1 \/ video' = Cols * LastRow
    BY <2>1, <1>a, WriteAhead
  <2>3. ClockAhead'
    BY <2>1, <2>2, <1>0, <1>t DEF IInv, ClockAhead
  <2>4. Ahead(saved[1], saved[2], saved[3])
    BY <2>1, <1>t DEF IInv
  <2>5. Ahead(saved'[1], saved'[2], saved'[3])
    BY <2>1, <2>4
  <2>6. TypeOK'
    BY <2>1, <2>2, <1>0, <1>t DEF TypeOK
  <2> QED
    BY <2>1, <2>3, <2>5, <2>6, <1>0, <1>t DEF IInv
<1>9. CASE EndClock
  <2>1. /\ clock = 1 /\ clock' = 0
        /\ xp' = saved[1] /\ yp' = saved[2] /\ video' = saved[3]
        /\ UNCHANGED <<localEcho, index, echoed, saved, blind>>
    BY <1>9 DEF EndClock, line
  <2>2. Ahead(saved[1], saved[2], saved[3])
    BY <2>1, <1>t DEF IInv
  <2>3. Ahead(xp', yp', video')
    BY <2>1, <2>2
  <2>4. TypeOK'
    BY <2>1, <1>0, <1>t DEF TypeOK
  <2> QED
    BY <2>1, <2>3, <2>4, <1>0, <1>t DEF IInv
<1>10. CASE UNCHANGED vars
  BY <1>10, <1>t DEF vars, cursor, line, IInv, TypeOK, Ahead, ClockAhead
<1> QED
  BY <1>1, <1>2, <1>3, <1>4, <1>5, <1>6, <1>7, <1>8, <1>9, <1>10 DEF Next

\* For a screen of any width and height with more columns than rows of text, no
\* sequence of prints, keys, backspaces and clock ticks moves kprintf.c's video
\* past the row that scroll clears.
THEOREM ScreenBound == Spec => []VideoOnScreen
<1>1. Init => IInv
  BY ScreenAssumption DEF ScreenAssumption, Init, IInv, TypeOK, Ahead
<1>2. IInv => VideoOnScreen
  <2> SUFFICES ASSUME IInv PROVE VideoOnScreen
    OBVIOUS
  <2>1. /\ Cols \in Nat /\ LastRow \in Nat /\ LastRow > 1 /\ LastRow <= Cols
        /\ ClockLen \in 1 .. Cols
    BY ScreenAssumption DEF ScreenAssumption
  <2>2. /\ xp \in 0 .. Cols /\ yp \in 1 .. LastRow /\ video \in Int
        /\ clock \in 0 .. ClockLen + 1
    BY DEF IInv, TypeOK
  <2>3. Cols * yp \in Nat /\ Cols * yp <= Cols * LastRow /\ Cols * LastRow \in Nat
    BY <2>1, <2>2, Row
  <2>4. Cols * (LastRow + 2) = Cols * LastRow + 2 * Cols
    BY <2>1
  <2> QED
    BY <2>1, <2>2, <2>3, <2>4 DEF IInv, Ahead, ClockAhead, VideoOnScreen
<1> QED
  BY <1>1, <1>2, Step, PTL DEF Spec
----------------------------------------------------------------------------
\* Rows as write and backspace count them, of Cols + 1 characters.
Position(x, y) == (Cols + 1) * y + x

\* There is a row that the e keys that can be erased do not reach beyond, and
\* whose first column is below the clock.
Floor(x, y, v, e) ==
  \E r \in 1 .. LastRow : /\ (Cols + 1) * r <= Position(x, y) - e
                          /\ Cols <= v - Position(x, y) + (Cols + 1) * r

FloorInv ==
  /\ localEcho = 0 => echoed = 0
  /\ blind = 0 => IF clock = 0 THEN Floor(xp, yp, video, echoed)
                               ELSE Floor(saved[1], saved[2], saved[3], echoed)

LEMMA WideRow == ASSUME NEW y \in 1 .. LastRow
                 PROVE  /\ (Cols + 1) * y \in Nat /\ (Cols + 1) * y >= Cols + 1
                        /\ (Cols + 1) * y = Cols * y + y
                        /\ (Cols + 1) * (y + 1) = (Cols + 1) * y + Cols + 1
                        /\ (Cols + 1) * (y - 1) = (Cols + 1) * y - Cols - 1
<1>1. Cols \in Nat /\ y \in Nat /\ y - 1 \in Nat
  BY ScreenAssumption DEF ScreenAssumption
<1>2. (Cols + 1) * y \in Nat /\ (Cols + 1) * (y - 1) \in Nat BY <1>1
<1>3. (Cols + 1) * (y - 1) = (Cols + 1) * y - Cols - 1 BY <1>1
<1>4. (Cols + 1) * (y + 1) = (Cols + 1) * y + Cols + 1 BY <1>1
<1>5. (Cols + 1) * y = Cols * y + y BY <1>1
<1> QED BY <1>1, <1>2, <1>3, <1>4, <1>5

\* At the start of the last row there is room for a full buffer above.
LEMMA FloorAfterScroll ==
  ASSUME NEW e \in 0 .. BufSize - 1
  PROVE  Floor(0, LastRow, Cols * LastRow, e)
<1>0. /\ Cols \in Nat /\ LastRow \in Nat /\ LastRow > 1 /\ LastRow <= Cols /\ BufSize \in Nat
      /\ BufSize - 1 <= (Cols + 1) * (LastRow - 2)
      /\ 2 \in 1 .. LastRow /\ LastRow \in 1 .. LastRow
  BY ScreenAssumption DEF ScreenAssumption
<1>1. (Cols + 1) * LastRow = Cols * LastRow + LastRow /\ Cols * LastRow \in Nat
  BY <1>0, WideRow, Row
<1>2. (Cols + 1) * (LastRow - 2) = (Cols + 1) * LastRow - (Cols + 1) * 2
  BY <1>0
<1>3. (Cols + 1) * 2 = Cols + Cols + 2 BY <1>0
<1>4. (Cols + 1) * 2 <= Position(0, LastRow) - e
  BY <1>0, <1>1, <1>2, <1>3 DEF Position
<1>5. Cols <= Cols * LastRow - Position(0, LastRow) + (Cols + 1) * 2
  BY <1>0, <1>1, <1>3 DEF Position
<1> QED BY <1>0, <1>4, <1>5 DEF Floor

\* A step of one position, forward or back, with the address, and no more keys
\* to erase than before.
LEMMA FloorMoves ==
  ASSUME xp \in Nat, yp \in 1 .. LastRow, video \in Int, NEW e \in Nat,
         xp' \in Nat, yp' \in 1 .. LastRow, video' \in Int, NEW e2 \in Nat,
         Floor(xp, yp, video, e),
         video' - Position(xp', yp') = video - Position(xp, yp),
         Position(xp', yp') - e2 >= Position(xp, yp) - e
  PROVE  Floor(xp', yp', video', e2)
<1>1. PICK r \in 1 .. LastRow : /\ (Cols + 1) * r <= Position(xp, yp) - e
                                /\ Cols <= video - Position(xp, yp) + (Cols + 1) * r
  BY DEF Floor
<1>2. (Cols + 1) * r \in Nat BY WideRow
<1>3. Position(xp, yp) \in Nat /\ Position(xp', yp') \in Nat
  <2>1. (Cols + 1) * yp \in Nat /\ (Cols + 1) * yp' \in Nat BY WideRow
  <2> QED BY <2>1 DEF Position
<1>4. (Cols + 1) * r <= Position(xp', yp') - e2 BY <1>1, <1>2, <1>3
<1>5. Cols <= video' - Position(xp', yp') + (Cols + 1) * r BY <1>1
<1> QED BY <1>4, <1>5 DEF Floor

LEMMA WriteFloor ==
  ASSUME IInv, Write, NEW e \in 0 .. BufSize - 1, NEW e2 \in 0 .. BufSize - 1, e2 <= e + 1,
         Floor(xp, yp, video, e)
  PROVE  Floor(xp', yp', video', e2)
<1>0. Cols \in Nat /\ LastRow \in Nat /\ LastRow > 1 /\ BufSize \in Nat
  BY ScreenAssumption DEF ScreenAssumption
<1>t. xp \in 0 .. Cols /\ yp \in 1 .. LastRow /\ video \in Int BY DEF IInv, TypeOK
<1>1. (Cols + 1) * yp \in Nat /\ (Cols + 1) * (yp + 1) = (Cols + 1) * yp + Cols + 1
  BY <1>t, WideRow
<1>2. CASE xp < Cols
  <2>1. xp' = xp + 1 /\ video' = video + 1 /\ yp' = yp BY <1>2 DEF Write
  <2>2. Position(xp', yp') = Position(xp, yp) + 1 BY <2>1, <1>0, <1>1, <1>t DEF Position
  <2>3. Position(xp, yp) \in Nat BY <1>1, <1>t DEF Position
  <2>4. /\ video' - Position(xp', yp') = video - Position(xp, yp)
        /\ Position(xp', yp') - e2 >= Position(xp, yp) - e
    BY <2>1, <2>2, <2>3, <1>0, <1>t
  <2>5. xp' \in Nat /\ yp' \in 1 .. LastRow /\ video' \in Int /\ xp \in Nat /\ e \in Nat /\ e2 \in Nat
    BY <2>1, <1>0, <1>t
  <2> QED BY <2>4, <2>5, <1>t, FloorMoves
<1>3. CASE ~ (xp < Cols) /\ yp < LastRow - 1
  <2>1. xp' = 0 /\ video' = video + 1 /\ yp' = yp + 1 /\ xp = Cols
    BY <1>0, <1>t, <1>3 DEF Write
  <2>2. Position(xp', yp') = Position(xp, yp) + 1 BY <2>1, <1>0, <1>1, <1>t DEF Position
  <2>3. Position(xp, yp) \in Nat BY <1>1, <1>t DEF Position
  <2>4. /\ video' - Position(xp', yp') = video - Position(xp, yp)
        /\ Position(xp', yp') - e2 >= Position(xp, yp) - e
    BY <2>1, <2>2, <2>3, <1>0, <1>t
  <2>5. xp' \in Nat /\ yp' \in 1 .. LastRow /\ video' \in Int /\ xp \in Nat /\ e \in Nat /\ e2 \in Nat
    BY <2>1, <1>0, <1>t, <1>3
  <2> QED BY <2>4, <2>5, <1>t, FloorMoves
<1>4. CASE ~ (xp < Cols) /\ ~ (yp < LastRow - 1)
  <2>1. xp' = 0 /\ video' = Cols * LastRow /\ yp' = LastRow BY <1>4 DEF Write, Scroll
  <2> QED BY <2>1, FloorAfterScroll
<1> QED BY <1>2, <1>3, <1>4

\* newline moves the row that cannot be left down with the cursor.
LEMMA NewlineFloor ==
  ASSUME IInv, Newline, Floor(xp, yp, video, 0)
  PROVE  Floor(xp', yp', video', 0)
<1>0. Cols \in Nat /\ LastRow \in Nat /\ LastRow > 1 /\ BufSize \in Nat /\ 0 \in 0 .. BufSize - 1
  BY ScreenAssumption DEF ScreenAssumption
<1>t. xp \in 0 .. Cols /\ yp \in 1 .. LastRow /\ video \in Int BY DEF IInv, TypeOK
<1>1. CASE yp < LastRow
  <2>1. xp' = 0 /\ video' = video + (Cols - xp) /\ yp' = yp + 1 BY <1>1 DEF Newline
  <2>2. PICK r \in 1 .. LastRow : /\ (Cols + 1) * r <= Position(xp, yp) - 0
                                  /\ Cols <= video - Position(xp, yp) + (Cols + 1) * r
    BY DEF Floor
  <2>3. /\ (Cols + 1) * r \in Nat /\ (Cols + 1) * (r + 1) = (Cols + 1) * r + Cols + 1
        /\ (Cols + 1) * yp \in Nat /\ (Cols + 1) * (yp + 1) = (Cols + 1) * yp + Cols + 1
    BY <1>t, WideRow
  <2>4. r <= yp
    <3> SUFFICES ASSUME r - (yp + 1) \in Nat PROVE FALSE
      BY <1>t
    <3>1. (Cols + 1) * (r - (yp + 1)) \in Nat BY <1>0
    <3>2. (Cols + 1) * r = (Cols + 1) * (r - (yp + 1)) + (Cols + 1) * (yp + 1) BY <1>0, <1>t
    <3> QED BY <3>1, <3>2, <2>2, <2>3, <1>0, <1>t DEF Position
  <2>5. r + 1 \in 1 .. LastRow BY <2>4, <1>0, <1>1, <1>t
  <2>6. (Cols + 1) * (r + 1) <= Position(xp', yp') - 0
    <3>1. (Cols + 1) * r <= (Cols + 1) * yp
      <4>1. yp - r \in Nat BY <2>4, <1>t
      <4>2. (Cols + 1) * (yp - r) \in Nat BY <4>1, <1>0
      <4>3. (Cols + 1) * yp = (Cols + 1) * (yp - r) + (Cols + 1) * r BY <1>0, <1>t
      <4> QED BY <4>2, <4>3, <2>3
    <3> QED BY <3>1, <2>1, <2>3, <1>0 DEF Position
  <2>7. Cols <= video' - Position(xp', yp') + (Cols + 1) * (r + 1)
    BY <2>1, <2>2, <2>3, <1>0, <1>t DEF Position
  <2> QED BY <2>5, <2>6, <2>7 DEF Floor
<1>2. CASE ~ (yp < LastRow)
  <2>1. xp' = 0 /\ video' = Cols * LastRow /\ yp' = LastRow BY <1>2 DEF Newline, Scroll
  <2> QED BY <2>1, <1>0, FloorAfterScroll
<1> QED BY <1>1, <1>2

LEMMA CarReturnFloor ==
  ASSUME IInv, CarReturn, Floor(xp, yp, video, 0)
  PROVE  Floor(xp', yp', video', 0)
<1>0. Cols \in Nat BY ScreenAssumption DEF ScreenAssumption
<1>t. xp \in 0 .. Cols /\ yp \in 1 .. LastRow /\ video \in Int BY DEF IInv, TypeOK
<1>1. video' = video - xp /\ xp' = 0 /\ yp' = yp BY DEF CarReturn
<1>2. PICK r \in 1 .. LastRow : /\ (Cols + 1) * r <= Position(xp, yp) - 0
                                /\ Cols <= video - Position(xp, yp) + (Cols + 1) * r
  BY DEF Floor
<1>3. /\ (Cols + 1) * r \in Nat /\ (Cols + 1) * yp \in Nat
      /\ (Cols + 1) * (yp + 1) = (Cols + 1) * yp + Cols + 1
  BY <1>t, WideRow
<1>4. (Cols + 1) * r <= (Cols + 1) * yp
  <2>1. r <= yp
    <3> SUFFICES ASSUME r - (yp + 1) \in Nat PROVE FALSE
      BY <1>t
    <3>1. (Cols + 1) * (r - (yp + 1)) \in Nat BY <1>0
    <3>2. (Cols + 1) * r = (Cols + 1) * (r - (yp + 1)) + (Cols + 1) * (yp + 1) BY <1>0, <1>t
    <3> QED BY <3>1, <3>2, <1>2, <1>3, <1>0, <1>t DEF Position
  <2>2. yp - r \in Nat BY <2>1, <1>t
  <2>3. (Cols + 1) * (yp - r) \in Nat BY <2>2, <1>0
  <2>4. (Cols + 1) * yp = (Cols + 1) * (yp - r) + (Cols + 1) * r BY <1>0, <1>t
  <2> QED BY <2>3, <2>4, <1>3
<1>5. (Cols + 1) * r <= Position(xp', yp') - 0 BY <1>1, <1>3, <1>4 DEF Position
<1>6. Cols <= video' - Position(xp', yp') + (Cols + 1) * r
  BY <1>1, <1>2, <1>3, <1>t DEF Position
<1> QED BY <1>5, <1>6 DEF Floor

\* A key that was echoed is taken back to where it was.
LEMMA BackspaceFloor ==
  ASSUME IInv, Backspace, NEW e \in Nat \ {0}, Floor(xp, yp, video, e)
  PROVE  Floor(xp', yp', video', e - 1)
<1>0. Cols \in Nat /\ LastRow \in Nat BY ScreenAssumption DEF ScreenAssumption
<1>t. xp \in 0 .. Cols /\ yp \in 1 .. LastRow /\ video \in Int BY DEF IInv, TypeOK
<1>1. /\ (Cols + 1) * yp \in Nat /\ (Cols + 1) * (yp - 1) = (Cols + 1) * yp - Cols - 1
  BY <1>t, WideRow
<1>2. ~ (xp = 0 /\ yp = 1)
  <2>1. PICK r \in 1 .. LastRow : (Cols + 1) * r <= Position(xp, yp) - e BY DEF Floor
  <2>2. (Cols + 1) * r \in Nat /\ (Cols + 1) * r >= Cols + 1 BY WideRow
  <2>3. yp = 1 => (Cols + 1) * yp = Cols + 1 BY <1>0
  <2> QED BY <2>1, <2>2, <2>3, <1>0 DEF Position
<1>3. video' = video - 1 BY DEF Backspace
<1>4. /\ Position(xp', yp') = Position(xp, yp) - 1
      /\ xp' \in Nat /\ yp' \in 1 .. LastRow
  <2>1. CASE xp = 0 /\ yp > 1
    <3>1. xp' = Cols /\ yp' = yp - 1 BY <2>1 DEF Backspace
    <3>2. (Cols + 1) * yp' = (Cols + 1) * yp - Cols - 1 BY <1>1, <3>1
    <3>3. xp' \in Nat /\ yp' \in 1 .. LastRow BY <2>1, <3>1, <1>0, <1>t
    <3> QED BY <2>1, <3>1, <3>2, <3>3, <1>0, <1>1 DEF Position
  <2>2. CASE xp > 0
    <3>1. xp' = xp - 1 /\ yp' = yp BY <2>2 DEF Backspace
    <3> QED BY <2>2, <3>1, <1>0, <1>1, <1>t DEF Position
  <2>3. (xp = 0 /\ yp > 1) \/ xp > 0 BY <1>0, <1>2, <1>t
  <2> QED BY <2>1, <2>2, <2>3
<1>5. Position(xp, yp) \in Nat BY <1>1, <1>t DEF Position
<1>6. /\ video' - Position(xp', yp') = video - Position(xp, yp)
      /\ Position(xp', yp') - (e - 1) >= Position(xp, yp) - e
  BY <1>3, <1>4, <1>5, <1>t
<1>7. xp \in Nat /\ e - 1 \in Nat /\ video' \in Int BY <1>0, <1>3, <1>t
<1> QED BY <1>4, <1>6, <1>7, <1>t, FloorMoves

LEMMA FloorInit == Init => FloorInv
<1> SUFFICES ASSUME Init PROVE FloorInv
  OBVIOUS
<1>0. Cols \in Nat /\ 1 \in 1 .. LastRow BY ScreenAssumption DEF ScreenAssumption
<1>1. Floor(0, 1, Cols, 0) BY <1>0 DEF Floor, Position
<1> QED BY <1>1 DEF Init, FloorInv

LEMMA FloorStep == IInv /\ FloorInv /\ [Next]_vars => FloorInv'
<1> SUFFICES ASSUME IInv, FloorInv, [Next]_vars PROVE FloorInv'
  OBVIOUS
<1>0. Cols \in Nat /\ BufSize \in Nat /\ BufSize > 0 /\ 1 \in 1 .. LastRow
  BY ScreenAssumption DEF ScreenAssumption
<1>t. /\ index \in 0 .. BufSize - 1 /\ echoed \in 0 .. index /\ echoed \in 0 .. BufSize - 1
      /\ blind \in Nat /\ localEcho \in {0, 1}
  BY <1>0 DEF IInv, TypeOK
<1>1. CASE Kprintf
  <2>1. /\ clock = 0 /\ localEcho = 0
        /\ Write \/ Newline \/ CarReturn \/ ClearScreen
        /\ UNCHANGED <<localEcho, echoed, clock, blind>> /\ echoed = 0
    BY <1>1 DEF Kprintf, line, FloorInv
  <2>2. ASSUME blind = 0 PROVE Floor(xp', yp', video', 0)
    <3>1. Floor(xp, yp, video, 0) /\ 0 \in 0 .. BufSize - 1 BY <2>1, <2>2, <1>t DEF FloorInv
    <3>2. CASE Write BY <3>1, <3>2, WriteFloor
    <3>3. CASE Newline BY <3>1, <3>3, NewlineFloor
    <3>4. CASE CarReturn BY <3>1, <3>4, CarReturnFloor
    <3>5. CASE ClearScreen
      <4>1. Floor(0, 1, Cols, 0) BY <1>0 DEF Floor, Position
      <4> QED BY <4>1, <3>5 DEF ClearScreen
    <3> QED BY <2>1, <3>2, <3>3, <3>4, <3>5
  <2> QED BY <2>1, <2>2 DEF FloorInv
<1>2. CASE BeginRead BY <1>2 DEF BeginRead, cursor, FloorInv
<1>3. CASE EndRead
  <2>1. clock = 0 /\ clock' = 0 /\ echoed' = 0 /\ UNCHANGED <<xp, yp, video, blind>>
    BY <1>3 DEF EndRead, cursor
  <2>2. Floor(xp, yp, video, echoed) => Floor(xp, yp, video, 0)
    <3>1. ASSUME NEW r \in 1 .. LastRow, (Cols + 1) * r <= Position(xp, yp) - echoed
          PROVE  (Cols + 1) * r <= Position(xp, yp) - 0
      <4>1. (Cols + 1) * r \in Nat /\ (Cols + 1) * yp \in Nat BY WideRow DEF IInv, TypeOK
      <4>2. Position(xp, yp) \in Int BY <4>1 DEF Position, IInv, TypeOK
      <4> QED BY <3>1, <4>1, <4>2, <1>t
    <3> QED BY <3>1 DEF Floor
  <2> QED BY <2>1, <2>2 DEF FloorInv
<1>4. CASE StoreKey
  <2>1. clock = 0 /\ index + 1 < BufSize /\ UNCHANGED <<localEcho, clock, blind>>
    BY <1>4 DEF StoreKey
  <2>2. CASE localEcho = 1
    <3>1. Write /\ echoed' = echoed + 1 BY <1>4, <2>2 DEF StoreKey
    <3>2. echoed + 1 \in 0 .. BufSize - 1 BY <2>1, <1>t, <1>0
    <3>3. blind = 0 => Floor(xp', yp', video', echoed + 1)
      BY <2>1, <3>1, <3>2, <1>t, WriteFloor DEF FloorInv
    <3> QED BY <2>1, <2>2, <3>1, <3>3 DEF FloorInv
  <2>3. CASE localEcho # 1
    <3>1. UNCHANGED <<xp, yp, video, echoed>> BY <1>4, <2>3 DEF StoreKey, cursor
    <3> QED BY <2>1, <3>1 DEF FloorInv
  <2> QED BY <2>2, <2>3
<1>5. CASE CapsKey
  <2>1. clock = 0 /\ Write /\ UNCHANGED <<localEcho, echoed, clock, blind>>
    BY <1>5 DEF CapsKey, line
  <2>2. blind = 0 => Floor(xp', yp', video', echoed)
    BY <2>1, <1>t, WriteFloor DEF FloorInv
  <2> QED BY <2>1, <2>2 DEF FloorInv
<1>6. CASE BackspaceKey
  <2>1. clock = 0 /\ localEcho = 1 /\ Backspace /\ UNCHANGED <<localEcho, clock>>
    BY <1>6 DEF BackspaceKey
  <2>2. CASE echoed > 0
    <3>1. echoed' = echoed - 1 /\ blind' = blind /\ echoed \in Nat \ {0}
      BY <1>6, <2>2, <1>t DEF BackspaceKey
    <3>2. blind = 0 => Floor(xp', yp', video', echoed - 1)
      BY <2>1, <3>1, BackspaceFloor DEF FloorInv
    <3> QED BY <2>1, <3>1, <3>2 DEF FloorInv
  <2>3. CASE ~ (echoed > 0)
    <3>1. blind' = blind + 1 BY <1>6, <2>3 DEF BackspaceKey
    <3> QED BY <2>1, <3>1, <1>t DEF FloorInv
  <2> QED BY <2>2, <2>3
<1>7. CASE BeginClock
  <2>1. /\ clock = 0 /\ clock' # 0 /\ saved' = <<xp, yp, video>>
        /\ UNCHANGED <<localEcho, echoed, blind>>
    BY <1>7, ScreenAssumption DEF ScreenAssumption, BeginClock, cursor, line
  <2>2. saved'[1] = xp /\ saved'[2] = yp /\ saved'[3] = video BY <2>1
  <2> QED BY <2>1, <2>2 DEF FloorInv
<1>8. CASE DrawClock
  <2>1. clock # 0 /\ clock' # 0 /\ UNCHANGED <<saved, localEcho, echoed, blind>>
    BY <1>8 DEF DrawClock, line, IInv, TypeOK
  <2> QED BY <2>1 DEF FloorInv
<1>9. CASE EndClock
  <2>1. /\ clock # 0 /\ clock' = 0 /\ UNCHANGED <<localEcho, echoed, blind>>
        /\ xp' = saved[1] /\ yp' = saved[2] /\ video' = saved[3]
    BY <1>9 DEF EndClock, line
  <2> QED BY <2>1 DEF FloorInv
<1>10. CASE UNCHANGED vars BY <1>10 DEF vars, cursor, line, FloorInv
<1> QED
  BY <1>1, <1>2, <1>3, <1>4, <1>5, <1>6, <1>7, <1>8, <1>9, <1>10 DEF Next

\* For a screen of any size that has room for a full line buffer above its last
\* row, no sequence of prints, keys and erased keys brings the text into the
\* clock's row, as long as only keys that were echoed are erased.
THEOREM ClockRowIsKept == Spec => []TextBelowClock
<1>1. IInv /\ FloorInv => TextBelowClock
  <2> SUFFICES ASSUME IInv, FloorInv, clock = 0, blind = 0 PROVE video >= Cols
    BY DEF TextBelowClock
  <2>1. PICK r \in 1 .. LastRow : /\ (Cols + 1) * r <= Position(xp, yp) - echoed
                                  /\ Cols <= video - Position(xp, yp) + (Cols + 1) * r
    BY DEF FloorInv, Floor
  <2>2. (Cols + 1) * r \in Nat /\ (Cols + 1) * yp \in Nat BY WideRow DEF IInv, TypeOK
  <2>3. Position(xp, yp) \in Int BY <2>2 DEF Position, IInv, TypeOK
  <2>4. echoed \in Nat /\ video \in Int /\ Cols \in Nat
    BY ScreenAssumption DEF ScreenAssumption, IInv, TypeOK
  <2> QED BY <2>1, <2>2, <2>3, <2>4
<1>2. Init => IInv
  BY ScreenAssumption DEF ScreenAssumption, Init, IInv, TypeOK, Ahead
<1> QED BY <1>1, <1>2, Step, FloorInit, FloorStep, PTL DEF Spec
============================================================================
