SPECIFICATION Spec
CONSTANTS
  c1 = c1
  c2 = c2
  Junk = Junk
  None = None
  Torn = Torn
  Commands <- MCCommands
  Releases <- MCReleases
SYMMETRY Symmetry
INVARIANTS TypeOK LostOnlyInReplacement NotBelowBaseline
CHECK_DEADLOCK FALSE
