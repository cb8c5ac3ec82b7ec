CONSTANTS
  j1 = j1
  j2 = j2
  NoJob = NoJob
  Jobs = {j1}
  Recurring = {}
  Policy <- HoldPolicy
  Delay <- DueAtOnce
  Interval = 1
  MaxRuns = 1
  MaxReruns = 0
  Backoff = 1
  Aged = {}
  Cancellers = {c1}
  MaxTime = 1
  MaxFaults = 0
SPECIFICATION Spec
\* Every job may be over and every budget spent: then nothing is left to do.
CHECK_DEADLOCK FALSE
INVARIANTS
  RowsAgree
