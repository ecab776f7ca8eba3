SPECIFICATION Spec
CONSTANTS
  Processes = {p, q}
  ConfigTexts <- Saves
  Dotenvs <- DotenvFiles
  Environments <- Inherited
  Arguments <- Operands
  KeySize = 4
  ValueSize = 6
  LineSize = 8
  MaxPort = 7
  KeyBytes = 1
  DefaultPort = 5
  AccessKey <- Access
  RefreshKey <- Refresh
  Absent = Absent
  Partial = Partial
  Broken = Broken
  Missing = Missing
  Directory = Directory
  Unset = Unset
  MaxStarts = 2
  MaxSaves = 1
  MaxKeys = 1
INVARIANTS
  TypeOK
  ConfigurationKept
  EnvironmentAsWritten
  TokensOutlive
  LoneStartServes
CHECK_DEADLOCK FALSE
