SPECIFICATION FairSpec
CONSTANTS
  Message = {"goal", "chat1", "chat2", "chat3"}
  Session = {"s1", "s2"}
  None = "none"
  SessionOf <- MCSessionOf
  Command <- MCCommand
  Automation <- MCAutomation
  Direct <- MCDirect
  Gate = 1
  PendingCap = 2
  MaxInject = 1
  MaxCycles = 1
  MaxRounds = 1
CHECK_DEADLOCK FALSE
PROPERTIES ContinuationIsQueued
