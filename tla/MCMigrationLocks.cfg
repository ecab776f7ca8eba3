SPECIFICATION FairSpec
CONSTANTS
  FirstFiles = 2
  MaxFiles = 3
  Length <- ThreeFiles
  Needs <- NeedsTable
  Bad = {}
  Options = {"plain", "create", "remove"}
  Locks = TRUE
  Faults = TRUE
  Crashes = TRUE
  MaxRuns = 3
INVARIANTS
  PerFileAtomic
  OkMeansComplete
PROPERTIES
  RunEnds
CHECK_DEADLOCK FALSE
