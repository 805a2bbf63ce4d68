\* Two sessions, options, every datagram duplicated, delayed, reordered or lost.
SPECIFICATION FairSpec
CONSTANTS
  NBlocks = 3
  Sessions = {s1, s2}
  UseOptions = TRUE
  OptText = 9
  RbufMax = 2
INVARIANTS TypeOK LockStep OneSession SuccessMeansStored
PROPERTIES ErrorEndsTransfer
