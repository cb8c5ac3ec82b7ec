CONSTANTS
  Clis = {c1}
  None = None
  MaxFaults = 1
  Target = 3
  Attempts = 2
  Loads <- InstallLoad
SPECIFICATION Spec
PROPERTIES
  InstallAfterMove
