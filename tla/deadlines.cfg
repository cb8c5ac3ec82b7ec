CONSTANTS
  Ids = {1, 2, 3, 4, 5, 6}
  Instants = {1, 2}
SPECIFICATION Spec
INVARIANTS
  PositionsAgree
  NextIsEarliest
PROPERTIES
  ImplementsDeadlines
