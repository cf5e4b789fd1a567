SPECIFICATION Spec
CONSTANTS
  r1 = r1
  r2 = r2
  None = None
  Requests <- MCTwoRequests
  QueueCap = 1
  AckBacklog = 2
  MaxStreams = 4
  Interval = 3
  ProbeTimeout = 2
  MaxMissed = 5
  StaleAfter = 18
INVARIANT EvictedInTime
