SPECIFICATION FairSpec
CONSTANTS
  BUF_SIZE = 2
  Sizes <- AllSizes
  ShortReads = FALSE
  STDIO = 2
  Mortal = {"proxy"}
  MaxToggles = 2
INVARIANT LossIsTheLastBlock
PROPERTIES
  ClientFinishes
  OddFilesArrive
