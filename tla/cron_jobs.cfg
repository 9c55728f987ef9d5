SPECIFICATION FairSpec
CONSTANTS
  Job = {"once", "keep", "daily"}
  None = "none"
  Kind <- MCKind
  Casts <- MCCasts
  MaxOps = 4
  MaxFaults = 1
  MaxLog = 2
INVARIANTS OnceUnlessCut SavedWhenQuiet
PROPERTIES JobsComeAndGo DueJobsRun
