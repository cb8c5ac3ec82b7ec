CONSTANTS
  Clis = {c1, c2}
  None = None
  MaxFaults = 2
  Target = 3
  Attempts = 2
  Loads <- MCLoads
SPECIFICATION Spec
INVARIANTS
  MigratedOnce
  NoOrphanService
  
PROPERTIES
  InspectionCreatesNothing
  InstallConverges
