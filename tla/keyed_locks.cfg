SPECIFICATION FairSpec
CONSTANTS
  Process = {"p", "q"}
  Task = {"p12", "p2", "q21", "q1"}
  Key = {1, 2}
  None = None
  ProcessOf <- MCProcessOf
  Wanted <- MCWanted
  MaxUses = 1
  MaxDeaths = 1
CHECK_DEADLOCK FALSE
INVARIANTS MutualExclusion NoOrphan OnePoller BooksBalance
PROPERTIES EveryoneEnters
