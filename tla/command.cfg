SPECIFICATION FairSpec
CONSTANTS
  Pids = {p1, p2}
  None = None
  Cap = 2
  EchoLimit = 1
  Attempts = 2
  PipeSize = 1
  Loads <- MCLoads
INVARIANTS
  SparesStrangers
  LogsAreHonest
  EchoAdmitsLoss
PROPERTIES
  OutputNeverBlocks
  KilledIsRecorded
CHECK_DEADLOCK FALSE
