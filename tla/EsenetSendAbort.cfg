\* The user presses ESC while the send buffer is full.
SPECIFICATION FairSpec
CONSTANTS
  SbufSize = 2
  RbufSize = 2
  RetrySend = 2
  BufLen = 3
  FileLen = 5
  RecvBufLen = 2
  Echoes = FALSE
  UserAborts = TRUE
  MaxTyped = 2
  MaxToggles = 2
INVARIANTS AbortedFileIsPrefix
