SPECIFICATION Spec
CONSTANTS
  alice = alice
  bob = bob
  t1 = t1
  t2 = t2
  b1 = b1
  b2 = b2
  Names = {alice}
  Workers = {w1, w2}
  Tabs = {t1, t2}
  Browsers = {b1}
  BrowserOf <- SharedJar
  Ids = {r1, r2, r3, r4, r5}
  None = None
  Quarter = 1
  Week = 2
  TzOffset = 0
  MaxTime = 3
  MaxRequests = 5
  MaxEra = 0
  MaxOpen = 2
  Eager = TRUE
  Faults = TRUE
  Busy = TRUE
INVARIANTS
  TypeOK
  SingleUse
  ConfirmedOnce
  HandlesAccounted
SYMMETRY WorkerSymmetry
CHECK_DEADLOCK FALSE
