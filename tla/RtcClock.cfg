SPECIFICATION Spec
CONSTANTS
  Seconds = 3
  Hundredths = 2
  Digit = 2
  Quantum = 5
  Ticks = 3
  Word = 17
  Horizon = 28
INVARIANTS TypeOK ReadingWasShown NoTimeLost
CHECK_DEADLOCK FALSE
