SPECIFICATION FairSpec
CONSTANTS
  Trigger = {"t1", "t2"}
  Delivery = {1, 2}
  Target <- MCTarget
  BatchSize = 2
  MaxAttempts = 3
  MaxFaults = 3
  MaxEdits = 2
INVARIANTS AttemptsCoverTurns SettledIsRecorded
PROPERTIES ImplementsQueue NoNeedlessRepeat EventuallySettled
