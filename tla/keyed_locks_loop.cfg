SPECIFICATION FairSpec
CONSTANTS
  Process = {"p", "q"}
  Task = {"p11", "p12", "q2"}
  Key = {1, 2}
  None = None
  ProcessOf <- MCProcessOf
  Wanted <- MCWanted
  MaxUses = 1
  MaxDeaths = 0
CHECK_DEADLOCK FALSE
PROPERTIES EveryoneEnters
