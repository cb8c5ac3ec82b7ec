CONSTANTS
  JobIds = {11, 14, 21}
  RunIds = {12, 13, 22}
  Recurring = {21}
  TicksPerSecond = 2
  HistoryRetention = 2
  JobRetention = 3
  MaxTime = 5
  Loads <- MCLoads
SPECIFICATION Spec
\* The commands may all be given and the clock at its bound.
CHECK_DEADLOCK FALSE
INVARIANTS
  RowsReadable
  OutputIsWhole
  NewestFirst
PROPERTIES
  RetentionSparesTheYoung
