SPECIFICATION Spec
CONSTANTS
  p1 = p1
  p2 = p2
  s1 = s1
  s2 = s2
  app = app
  None = None
  Clients <- MCClients
  Names <- MCNames
  client_id <- MCClientId
  Sessions <- MCSessions
INVARIANT TypeOK
PROPERTIES ServedForGood LeavesItsName NoLastingSplit
CHECK_DEADLOCK FALSE
