SPECIFICATION Spec
CONSTANTS
  n1 = n1
  n2 = n2
  n3 = n3
  app = app
  dashboard = dashboard
  None = None
  Names <- MCNames
  ReservedNames <- MCReserved
  Conns <- MCThreeConns
  MaxMissed = 2
  MaxRestarts = 1
SYMMETRY Symmetry
INVARIANTS TypeOK SoleServer AttendedSlot
PROPERTY KeepsLeases
CHECK_DEADLOCK FALSE
