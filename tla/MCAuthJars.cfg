SPECIFICATION Spec
CONSTANTS
  alice = alice
  bob = bob
  t1 = t1
  t2 = t2
  b1 = b1
  b2 = b2
  Names = {alice, bob}
  Workers = {w1, w2}
  Tabs = {t1, t2}
  Browsers = {b1, b2}
  BrowserOf <- TwoJars
  Ids = {r1, r2, r3, r4, r5}
  None = None
  Quarter = 1
  Week = 2
  TzOffset = 0
  MaxTime = 1
  MaxRequests = 5
  MaxEra = 1
  MaxOpen = 2
  Eager = TRUE
  Faults = FALSE
  Busy = FALSE
INVARIANTS
  HandlesAccounted
PROPERTIES
  ChainSpec
SYMMETRY WorkerSymmetry
CHECK_DEADLOCK FALSE
