SPECIFICATION Spec
CONSTANTS
  p1 = p1
  i1 = i1
  i2 = i2
  None = None
  Pages <- MCPages
  Ids <- MCIds
  Slots = {1, 2}
INVARIANTS TypeOK TimersMatchScreen
PROPERTIES StaleDashboardLeaves
CHECK_DEADLOCK FALSE
