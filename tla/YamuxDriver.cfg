SPECIFICATION FairSpec
CONSTANTS
  r1 = r1
  r2 = r2
  None = None
  Requests <- MCTwoRequests
  QueueCap = 1
  AckBacklog = 1
  MaxStreams = 2
  Interval = 3
  ProbeTimeout = 2
  MaxMissed = 3
  StaleAfter = 11
INVARIANTS TypeOK OneProbe NoCommandLost
PROPERTIES FitsControlPlane   OpenStreamReturns
