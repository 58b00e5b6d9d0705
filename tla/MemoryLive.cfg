SPECIFICATION FairSpec
CONSTANTS
  s1 = s1
  s2 = s2
  commands = commands
  none = none
  Sessions <- TwoSessions
  STDIO = 1
  MaxBlocks = 1
  MaxDownloads = 1
  MaxTyped = 1
  Mortal <- TwoSessions
INVARIANT ShownTogether
PROPERTY SemaphoreReturns
CHECK_DEADLOCK FALSE
