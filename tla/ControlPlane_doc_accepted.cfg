SPECIFICATION Spec
CONSTANTS
  n1 = n1
  n2 = n2
  n3 = n3
  app = app
  dashboard = dashboard
  None = None
  Names <- MCNames
  ReservedNames <- MCReserved
  Conns <- MCTwoConns
  MaxMissed = 5
  MaxRestarts = 0
PROPERTY AcceptedIsRegistered
CHECK_DEADLOCK FALSE
