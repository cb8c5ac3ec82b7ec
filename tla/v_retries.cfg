CONSTANTS
  j1 = j1
  j2 = j2
  Jobs = {j2}
  Broken = {j2}
  ServiceManaged = TRUE
  MaxSends <- Once
  MaxAttempts = 3
  Events = {}
SPECIFICATION FairSpec
\* A supervisor that waits for wakes does nothing more.
CHECK_DEADLOCK FALSE
PROPERTIES
  BrokenIsDropped
