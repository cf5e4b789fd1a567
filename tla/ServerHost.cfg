SPECIFICATION Spec
CONSTANTS
  h1 = h1
  h2 = h2
  d1 = d1
  d2 = d2
  t1 = t1
  None = None
  Torn = Torn
  Empty = Empty
  Handlers <- MCHandlers
  Names <- MCNames
  SafeChars <- MCSafe
  Domains <- MCDomains
  Tokens <- MCTokens
  MaxStarts = 3
SYMMETRY Symmetry
INVARIANTS TypeOK ServedIsRouted
PROPERTY SettingsSurviveRestart
CHECK_DEADLOCK FALSE
