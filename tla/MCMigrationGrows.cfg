SPECIFICATION FairSpec
CONSTANTS
  FirstFiles = 1
  MaxFiles = 2
  Length <- TwoFiles
  Needs <- NeedsTable
  Bad = {}
  Options = {"plain", "create"}
  Locks = FALSE
  Faults = FALSE
  Crashes = FALSE
  MaxRuns = 2
INVARIANTS
  VersionNamesFile
CHECK_DEADLOCK FALSE
