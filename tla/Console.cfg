SPECIFICATION Spec
CONSTANTS
  Cols = 5
  LastRow = 4
  ClockLen = 3
  BufSize = 13
  MaxBlind = 1
INVARIANTS VideoOnScreen TextBelowClock
