CONSTANTS
  j1 = j1
  j2 = j2
  Jobs = {j1, j2}
  Broken = {j2}
  ServiceManaged = FALSE
  MaxSends <- AgainForJ1
  MaxAttempts = 1
  Events = {"stop", "accept_error", "stray", "busy", "unreachable"}
  Monitors = {m1, m2, m3}
  Others = {o1}
  None = None
SPECIFICATION ThreadsSpec
\* A supervisor that ended, with every client answered, does nothing more.
CHECK_DEADLOCK FALSE
INVARIANTS
  AckedIsOwned
  NoExitMissed
PROPERTIES
  LeavingEnds
  AckedIsStarted
  MonitorsReaped
  StopEnds
