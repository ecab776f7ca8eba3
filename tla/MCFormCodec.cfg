SPECIFICATION Spec
CONSTANTS
  Chars <- Characters
  UsernameKey <- Username
  PasswordKey <- Password
  Bodies <- Sendables
  MaxFields = 3
  Nothing = Nothing
  Garbage = Garbage
INVARIANTS
  TypeOK
  ValueOfKey
  OwnValue
  Survives
CHECK_DEADLOCK FALSE
