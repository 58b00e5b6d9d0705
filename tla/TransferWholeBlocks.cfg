SPECIFICATION FairSpec
CONSTANTS
  BUF_SIZE = 2
  Sizes <- BlockSizes
  ShortReads = FALSE
  STDIO = 2
  Mortal = {}
  MaxToggles = 0
PROPERTY ReadsTheWholeFile
