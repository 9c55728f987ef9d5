SPECIFICATION FairSpec
CONSTANTS
  w1 = w1
  w2 = w2
  Workers <- TwoWorkers
  Tasks <- ThreeTasks
  Casts <- HandoverCasts
  Worker <- Alternating
  Mortal = {}
  NoTask = 0
  MaxFaults = 0
  MaxResets = 0
CHECK_DEADLOCK FALSE
PROPERTIES AcceptedProcessed
