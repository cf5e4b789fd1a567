SPECIFICATION Spec
CONSTANTS
  c1 = c1
  c2 = c2
  x = x
  p1 = p1
  p2 = p2
  None = None
  Shells <- MCShells
  Names <- MCNames
  Pids <- MCPids
  Polls = 1
INVARIANTS TypeOK OneTunnelPerName ListedWhileRunning LogIsOwn
PROPERTY CommandsEnd
CHECK_DEADLOCK FALSE
