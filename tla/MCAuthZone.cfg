SPECIFICATION FairSpec
CONSTANTS
  alice = alice
  bob = bob
  t1 = t1
  t2 = t2
  b1 = b1
  b2 = b2
  Names = {alice}
  Workers = {w1}
  Tabs = {t1}
  Browsers = {b1}
  BrowserOf <- OneTab
  Ids = {r1, r2, r3}
  None = None
  Quarter = 1
  Week = 2
  TzOffset <- West
  MaxTime = 2
  MaxRequests = 3
  MaxEra = 0
  MaxOpen = 2
  Eager = FALSE
  Faults = FALSE
  Busy = FALSE
PROPERTIES
  WindowIsUnixTime
CHECK_DEADLOCK FALSE
