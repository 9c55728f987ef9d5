SPECIFICATION Spec
CONSTANTS
  Job = {"once", "keep", "daily"}
  None = "none"
  Kind <- MCKind
  Casts <- MCCasts
  MaxOps = 4
  MaxFaults = 1
  MaxLog = 2
INVARIANTS OneTimeTask
