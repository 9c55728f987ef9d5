SPECIFICATION FairSpec
CONSTANTS
  w1 = w1
  w2 = w2
  Workers <- TwoWorkers
  Tasks <- ThreeTasks
  Casts <- MixedCasts
  Worker <- Alternating
  Mortal = {w2}
  NoTask = 0
  MaxFaults = 1
  MaxResets = 1
CHECK_DEADLOCK FALSE
INVARIANTS HolderOwns FlagsHaveOwner TeardownAlone ClassifiesAlone TornIsFenced
PROPERTIES DeadNeverBlocks AcceptedProcessed SlotsFreed
