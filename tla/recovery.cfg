CONSTANTS
  j1 = j1
  j2 = j2
  NoJob = NoJob
  Jobs = {j1, j2}
  Recurring = {j2}
  Policy <- RecoveryPolicy
  Delay <- RecoveryDelay
  Interval = 1
  MaxRuns = 2
  MaxReruns = 1
  Backoff = 1
  Aged = {j2}
  Cancellers = {}
  MaxTime = 3
  MaxFaults = 2
SPECIFICATION Spec
ACTION_CONSTRAINT Within
\* Every job may be over and every budget spent: then nothing is left to do.
CHECK_DEADLOCK FALSE
INVARIANTS
  AtMostOnce
  RowsAgree
  WaitingIsOwned
PROPERTIES
  TerminalJobStays
