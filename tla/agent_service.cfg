SPECIFICATION FairSpec
CONSTANTS
  Message = {"goal", "chat1", "other", "stop", "sdk"}
  Session = {"s1", "s2"}
  None = "none"
  SessionOf <- MCSessionOf
  Command <- MCCommand
  Automation <- MCAutomation
  Direct <- MCDirect
  Gate = 1
  PendingCap = 1
  MaxInject = 1
  MaxCycles = 1
  MaxRounds = 1
CHECK_DEADLOCK FALSE
INVARIANTS SerialTurns GateAccounting
PROPERTIES ImplementsService EventuallyFinished
