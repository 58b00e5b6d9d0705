SPECIFICATION FairSpec
CONSTANTS
  Copies <- BothCopies
  Commands <- AllCommands
  MaxCommands = 3
  Letters = 1
  MaxFiles = 2
  Mortal = {"client", "server"}
INVARIANTS
  TypeOK
  InStepUntilSilent
  BehindByUnread
PROPERTIES
  Answered
  OrphanEnds
CHECK_DEADLOCK FALSE
