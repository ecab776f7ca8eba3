SPECIFICATION Spec
CONSTANTS
  FirstFiles = 0
  MaxFiles = 3
  Length <- ThreeFiles
  Needs <- NeedsTable
  Bad <- BadIndex
  Options = {"plain", "create", "remove", "both"}
  Locks = FALSE
  Faults = TRUE
  Crashes = TRUE
  MaxRuns = 4
INVARIANTS
  TypeOK
  VersionNeverBehind
  AppliedInOrder
PROPERTIES
  VersionMonotone
CHECK_DEADLOCK FALSE
