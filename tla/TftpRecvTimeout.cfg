\* A perfect network, one session: does the transfer end?
SPECIFICATION PerfectSpec
CONSTANTS
  NBlocks = 2
  Sessions = {s1}
  LastIsEmpty = FALSE
  UseOptions = TRUE
  OptText = 9
  RetryMax = 1
  Reliable = TRUE
  MaxFaults = 0
  RbufMax = 2
PROPERTIES TransferEnds
