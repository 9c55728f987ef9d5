SPECIFICATION FairSpec
CONSTANTS
  Message = {"goal", "chat1", "auto1", "auto2", "new"}
  Session = {"s1", "s2"}
  None = "none"
  SessionOf <- MCSessionOf
  Command <- MCCommand
  Automation <- MCAutomation
  Direct <- MCDirect
  Gate = 1
  PendingCap = 1
  MaxInject = 1
  MaxCycles = 0
  MaxRounds = 1
CHECK_DEADLOCK FALSE
INVARIANTS QueueOwnership Conservation AutomationStandsAlone DeferredHasPublisher AnsweredUnlessCut
PROPERTIES LoopReturns
