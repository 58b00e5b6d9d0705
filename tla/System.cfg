SPECIFICATION SystemFair
CONSTANTS
  c1 = c1
  c2 = c2
  c3 = c3
  NoClient = NoClient
  Clients <- Three
  max_clients = 1
  Backlog = 1
  ForkFails = TRUE
  Forms <- BothForms
  MaxFailures = 0
  MaxForks = 3
  MaxAsks <- Twice
  MaxEvents = 3
  Watched <- First
INVARIANTS
  SystemTypeOK
PROPERTIES
  Serves
  NobodyElseWaits
  OrphansEnd
CHECK_DEADLOCK FALSE
