SPECIFICATION Spec
CONSTANTS
  Bits = 12
  Reserve = 312
  Commit = 128
  PathSize = 16
  PathLens = {5, 12}
  FileSizes = {0, 3, 8, 13}
  Statements = {0, 1, 2}
  MaxFiles = 3
  MaxOthers = 1
INVARIANTS
  TypeOK
  Apart
  OwnText
  PathsKept
  NothingFoundFails
CHECK_DEADLOCK FALSE
