\* Adversarial network and server: loss, reordering, duplicates, retransmission,
\* strays, two sessions.
SPECIFICATION FairSpec
CONSTANTS
  NBlocks = 2
  Sessions = {s1, s2}
  LastIsEmpty = TRUE
  UseOptions = TRUE
  OptText = 9
  RetryMax = 1
  Reliable = FALSE
  MaxFaults = 2
  RbufMax = 1
INVARIANTS TypeOK NoGap AckedIsStored CleanNetworkExactBlocks
PROPERTIES ImplementsFetch BegunTransferEnds
