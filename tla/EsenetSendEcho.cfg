\* A host that echoes the file.
SPECIFICATION FairSpec
CONSTANTS
  SbufSize = 2
  RbufSize = 2
  RetrySend = 2
  BufLen = 3
  FileLen = 9
  RecvBufLen = 2
  Echoes = TRUE
  UserAborts = FALSE
  MaxTyped = 0
  MaxToggles = 0
PROPERTIES ShownWhileSending
