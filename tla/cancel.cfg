CONSTANTS
  j1 = j1
  j2 = j2
  NoJob = NoJob
  Jobs = {j1}
  Recurring = {}
  Policy <- HoldPolicy
  Delay <- DueAtOnce
  Interval = 1
  MaxRuns = 1
  MaxReruns = 0
  Backoff = 1
  Aged = {}
  Cancellers = {c1, c2}
  MaxTime = 0
  MaxFaults = 1
SPECIFICATION FairSpec
\* Every job may be over and every budget spent: then nothing is left to do.
CHECK_DEADLOCK FALSE
INVARIANTS
  TypeOK
  SignalAfterCommit
  ResultMeansCommandOver
PROPERTIES
  RunHistory
  JobsEnd
