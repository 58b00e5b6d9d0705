SPECIFICATION FairSpec
CONSTANTS
  c1 = c1
  c2 = c2
  c3 = c3
  c4 = c4
  Clients <- FourClients
  max_clients = 2
  Backlog = 3
  ForkFails = TRUE
INVARIANTS
  TypeOK
  AtMostMax
  CountsForever
PROPERTIES
  ZombiesReaped
  Admits
CHECK_DEADLOCK FALSE
