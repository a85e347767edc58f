------------------------------- MODULE Console -------------------------------
(***************************************************************************)
(* The text console: write, newline, car_return, backspace, scroll and     *)
(* clearScreen of sys/kprintf.c, called by programs (writeSyscall), by the *)
(* keyboard handler of sys/isr.c that echoes and erases keys, and by the   *)
(* timer handler of sys/timer.c that draws the clock.                      *)
(*                                                                         *)
(* The cursor is kept twice, as a column and a row (xp, yp) and as an      *)
(* address in video memory, and every function updates both in its own     *)
(* way: write puts 81 characters in a row of 80 before it counts a new     *)
(* row, backspace takes no notice of how the row was entered, and the      *)
(* clock is drawn at the top of the screen with the row and column of the  *)
(* text.  No function compares the address with the screen.  Row 0 is the  *)
(* clock's, the text has the rows 1 to LastRow, and scroll also moves and  *)
(* clears the row below.                                                   *)
(*                                                                         *)
(* video counts character cells from 0xB8000.  A handler runs with         *)
(* interrupts off, so nothing happens between the characters of the clock. *)
(***************************************************************************)
EXTENDS Integers

CONSTANTS Cols,          \* 80 characters in a row
          LastRow,       \* 22, the row scroll goes back to
          ClockLen,      \* 8, the characters of hh:mm:ss
          BufSize,       \* 512, keys the line buffer holds
          MaxBlind       \* bound: keys typed ahead and erased

ASSUME ScreenAssumption ==
  /\ Cols \in Nat \ {0} /\ LastRow \in Nat \ {0, 1} /\ LastRow <= Cols
  /\ ClockLen \in 1 .. Cols /\ BufSize \in Nat \ {0} /\ MaxBlind \in Nat
  /\ BufSize - 1 <= (Cols + 1) * (LastRow - 2)

VARIABLES xp, yp, video,
          localEcho, index,      \* of sys/isr.c
          clock,                 \* characters of the clock still to be drawn
          saved,                 \* x, y and tempV of time_func
          echoed,                \* history: keys of the buffer that were echoed
          blind                  \* history: keys erased that had not been echoed

cursor == <<xp, yp, video>>
line == <<localEcho, index, echoed>>
vars == <<cursor, line, clock, saved, blind>>

TypeOK ==
  /\ xp \in 0 .. Cols /\ yp \in 1 .. LastRow /\ video \in Int
  /\ localEcho \in {0, 1} /\ index \in 0 .. BufSize - 1
  /\ clock \in 0 .. ClockLen + 1 /\ saved \in (0 .. Cols) \X (1 .. LastRow) \X Int
  /\ echoed \in 0 .. index /\ blind \in 0 .. MaxBlind

\* As start() leaves the screen: clearScreen, and the welcome line in row 0.
Init ==
  /\ xp = 0 /\ yp = 1 /\ video = Cols
  /\ localEcho = 0 /\ index = 0 /\ echoed = 0 /\ blind = 0
  /\ clock = 0 /\ saved = <<0, 1, Cols>>
------------------------------------------------------------------------------
\* Mutant: the address is left where it was.
Scroll_KeepVideo == yp' = LastRow /\ video' = video + 1

\* scroll: the rows move up, row LastRow + 1 is cleared.
Scroll == yp' = LastRow /\ video' = Cols * LastRow

\* write: one character.  The row is left behind the 81st.
Write ==
  IF xp < Cols
  THEN xp' = xp + 1 /\ video' = video + 1 /\ UNCHANGED yp
  ELSE /\ xp' = 0
       /\ IF yp < LastRow - 1
          THEN yp' = yp + 1 /\ video' = video + 1
          ELSE Scroll

\* newline: video is moved before scroll sets it.
Newline ==
  /\ xp' = 0
  /\ IF yp < LastRow
     THEN yp' = yp + 1 /\ video' = video + (Cols - xp)
     ELSE Scroll

CarReturn == video' = video - xp /\ xp' = 0 /\ UNCHANGED yp

ClearScreen == xp' = 0 /\ yp' = 1 /\ video' = Cols

Backspace ==
  /\ video' = video - 1
  /\ IF xp = 0 /\ yp > 1
     THEN xp' = Cols /\ yp' = yp - 1
     ELSE xp' = (IF xp > 0 THEN xp - 1 ELSE 0) /\ UNCHANGED yp
------------------------------------------------------------------------------
\* writeSyscall and the clear-screen call: a program prints, and does not read.
Kprintf == /\ clock = 0 /\ localEcho = 0
           /\ Write \/ Newline \/ CarReturn \/ ClearScreen
           /\ UNCHANGED <<line, clock, saved, blind>>

\* scanfstdin turns the echo on, and off with the buffer emptied at the end.
BeginRead == /\ clock = 0 /\ localEcho = 0 /\ localEcho' = 1
             /\ UNCHANGED <<cursor, index, echoed, clock, saved, blind>>

EndRead == /\ clock = 0 /\ localEcho = 1 /\ localEcho' = 0
           /\ index' = 0 /\ echoed' = 0
           /\ UNCHANGED <<cursor, clock, saved, blind>>

\* irq_handler1: a key is stored, and echoed when a program reads.
StoreKey ==
  /\ clock = 0 /\ index + 1 < BufSize /\ index' = index + 1
  /\ IF localEcho = 1
     THEN Write /\ echoed' = echoed + 1
     ELSE /\ index - echoed + blind < MaxBlind
          /\ UNCHANGED <<cursor, echoed>>
  /\ UNCHANGED <<localEcho, clock, saved, blind>>

\* Under caps lock a key is printed, whether a program reads or not.
CapsKey == /\ clock = 0 /\ Write
           /\ UNCHANGED <<line, clock, saved, blind>>

\* Mutant: backspace does not look whether the line is empty.
BackspaceKey_Empty ==
  /\ clock = 0 /\ localEcho = 1 /\ Backspace
  /\ index' = (IF index > 0 THEN index - 1 ELSE 0)
  /\ echoed' = (IF echoed > 0 THEN echoed - 1 ELSE 0)
  /\ blind' = (IF echoed = 0 /\ index > 0 THEN blind + 1 ELSE blind)
  /\ UNCHANGED <<localEcho, clock, saved>>

\* Keys typed ahead come first in the buffer, so they are erased last.
BackspaceKey ==
  /\ clock = 0 /\ localEcho = 1 /\ index > 0 /\ Backspace
  /\ index' = index - 1
  /\ IF echoed > 0 THEN echoed' = echoed - 1 /\ UNCHANGED blind
                   ELSE blind' = blind + 1 /\ UNCHANGED echoed
  /\ UNCHANGED <<localEcho, clock, saved>>

\* time_func on every 90th tick: save the cursor and start at the top.
BeginClock == /\ clock = 0 /\ clock' = ClockLen + 1
              /\ saved' = cursor /\ video' = 0
              /\ UNCHANGED <<xp, yp, line, blind>>

\* A character of the clock, at the column and row of the text.
DrawClock == /\ clock > 1 /\ clock' = clock - 1
             /\ Write
             /\ UNCHANGED <<line, saved, blind>>

EndClock == /\ clock = 1 /\ clock' = 0
            /\ xp' = saved[1] /\ yp' = saved[2] /\ video' = saved[3]
            /\ UNCHANGED <<line, saved, blind>>

Next == \/ Kprintf \/ BeginRead \/ EndRead \/ StoreKey \/ CapsKey \/ BackspaceKey
        \/ BeginClock \/ DrawClock \/ EndClock

Spec == Init /\ [][Next]_vars
------------------------------------------------------------------------------
\* Whatever is printed, echoed, erased and drawn, the next character falls on
\* a row that scroll clears, never behind them: how far the address runs ahead
\* of the row and column is bounded by the row.
VideoOnScreen == video < Cols * (LastRow + 2)

\* The text stays out of the clock's row and of the memory before it, unless
\* keys are erased that were typed ahead: backspace takes back from the screen
\* what was never echoed to it.
TextBelowClock == clock = 0 /\ blind = 0 => video >= Cols
==============================================================================
