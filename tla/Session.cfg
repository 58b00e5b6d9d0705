SPECIFICATION FairSpec
CONSTANTS
  Commands <- AllCommands
  Connections = {"byTCP", "byUDP"}
  MaxCommands = 2
  Letters = 1
  MaxFiles = 2
  MaxTroubles = 2
  Mortal = {"client", "proxy", "server"}
INVARIANTS
  TypeOK
  InStep
  AtMostOnce
  WaitsForAReason
PROPERTIES
  Dialogues
  Answered
  EverybodyEnds
CHECK_DEADLOCK FALSE
