SPECIFICATION Spec
CONSTANTS
  q1 = q1
  q2 = q2
  q3 = q3
  s1 = s1
  s2 = s2
  app = app
  None = None
  Requests <- MCRequests
  Sessions <- MCSessions
  Names <- MCNames
  Limit = 2
  Second = 2
  LastInstant = 2
SYMMETRY Symmetry
INVARIANTS TypeOK RefusedOnlyWhenBusy GaugesBalanced
CHECK_DEADLOCK FALSE
