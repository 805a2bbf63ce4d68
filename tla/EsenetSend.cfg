\* A send buffer smaller than a block of the file, a file that is not a multiple of
\* a block, a host that echoes and a receive buffer with room for the echo.
SPECIFICATION FairSpec
CONSTANTS
  SbufSize = 2
  RbufSize = 7
  RetrySend = 2
  BufLen = 3
  FileLen = 5
  RecvBufLen = 3
  Echoes = TRUE
  UserAborts = TRUE
  MaxTyped = 3
  MaxToggles = 2
INVARIANTS TypeOK SentInOrder NoKeyLost FileSentWhole
PROPERTIES FileSendEnds
