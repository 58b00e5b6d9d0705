SPECIFICATION FairSpec
CONSTANTS
  Clients <- Three
  c1 = c1
  c2 = c2
  c3 = c3
  NoClient = NoClient
  Backlog = 2
  Forms <- BothForms
  MaxFailures = 2
  MaxForks = 3
INVARIANTS
  TypeOK
  HangsUp
  OlderServesNobody
PROPERTIES
  ZombiesCollected
  EveryoneServed
CHECK_DEADLOCK FALSE
