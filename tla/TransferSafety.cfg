SPECIFICATION Spec
CONSTANTS
  BUF_SIZE = 2
  Sizes <- LooseSizes
  ShortReads = TRUE
  STDIO = 3
  Mortal = {"server", "proxy", "client"}
  MaxToggles = 2
INVARIANTS
  TypeOK
  DownloadFaithful
  SniffedFaithful
  ForwardsEnough
CHECK_DEADLOCK FALSE
