\* Reads of two bytes, so that a command of three bytes is cut everywhere.
SPECIFICATION FairSpec
CONSTANTS
  SbufSize = 2
  RbufSize = 3
  RetrySend = 1
  RecvBufLen = 2
  TextBytes = {65}
  Odd = {0, 241}
  Options = {1, 24}
  MaxItems = 3
INVARIANTS TypeOK ScreenIsMeaning AnswersAreDue AllShownAtClose
PROPERTIES CloseIsNoticed
