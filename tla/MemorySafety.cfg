SPECIFICATION Spec
CONSTANTS
  s1 = s1
  s2 = s2
  commands = commands
  none = none
  Sessions <- TwoSessions
  STDIO = 2
  MaxBlocks = 2
  MaxDownloads = 1
  MaxTyped = 2
  Mortal <- TwoSessions
INVARIANTS
  TypeOK
  OneInside
  ShownPairs
  EverySaveCounts
  TempFaithful
SYMMETRY AnySession
CHECK_DEADLOCK FALSE
