SPECIFICATION Spec
CONSTANTS
  MaxTurns = 3
  MaxIter = 2
  Keep = 2
  MaxFaults = 2
  MaxNew = 1
  MaxIdle = 1
  Objects = {1, 2, 3, 4}
  NoObject = 0
CHECK_DEADLOCK FALSE
INVARIANTS LegalHistory NeverTwice Remembered NewIsFresh
