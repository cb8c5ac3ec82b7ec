CONSTANTS
  Procs = {p1, p2, p3}
  Inodes = {i1, i2, i3, i4}
  None = None
  MaxKills = 2
SPECIFICATION Spec
SYMMETRY Symmetry
\* Every process may be over: then nothing is left to do.
CHECK_DEADLOCK FALSE
INVARIANTS
  FirstIsOnly
  SomebodyServes
