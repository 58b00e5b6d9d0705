SPECIFICATION FairSpec
CONSTANTS
  Commands <- NoTransfers
  Connections = {"byTCP"}
  MaxCommands = 2
  Letters = 0
  MaxFiles = 2
  MaxTroubles = 0
  Mortal = {}
PROPERTY ReadyForCommands
CHECK_DEADLOCK FALSE
