\* One session that grants the options of the request.
SPECIFICATION FairSpec
CONSTANTS
  NBlocks = 1
  Sessions = {s1}
  UseOptions = TRUE
  OptText = 9
  RbufMax = 1
PROPERTIES OackStartsTransfer
