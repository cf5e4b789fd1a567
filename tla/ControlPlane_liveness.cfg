SPECIFICATION FairSpec
CONSTANTS
  n1 = n1
  n2 = n2
  n3 = n3
  app = app
  dashboard = dashboard
  None = None
  Names <- MCNames
  ReservedNames <- MCReserved
  Conns <- MCTwoConns
  MaxMissed = 2
  MaxRestarts = 1
PROPERTIES DisplacedSessionStops DeadSlotFreed HandlerSettles
CHECK_DEADLOCK FALSE
