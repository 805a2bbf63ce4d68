\* Hundredths are halves, a day has eight seconds, an int four bits; the clock is
\* up to five ticks off and midnight falls inside the exchange.  A block of the
\* digest has four bytes, two of them for the length of a message of two blocks.
SPECIFICATION FairSpec
CONSTANTS
  RbufMax = 1
  H = 2
  Day = 16
  IntMod = 16
  Tries = 2
  Clocks = {7, 12, 15}
  Start = 12
  MaxNow = 18
  MaxKeys = 6
  MaxForeign = 1
  Interval = 2
  UintMod = 16
  Hundred = 10
  MaxTime = 7
  MaxReplies = 3
  BlockBytes = 4
  LengthBytes = 2
  WordMod = 64
  FileBuf = 5
  Md5Jobs <- MCMd5Jobs
  FmChannels = {0, 3, 8}
  FmTones = {440, 9000}
  FmTestTones = 3
  MaxCalls = 5
  TftpLines <- MCTftpLines
  ServerBlkMax = 600
  TftpFileSize = 700
  OpenLines <- MCOpenLines
  Handles = {0, 1}
  CharMod = 256
INVARIANTS TypeOK ClockSetRight AnswerLag DelayFromItsRequest LossIsShare
INVARIANTS DigestTrue ChannelsIndependent RequestAsAsked ConnectionReleased
PROPERTIES SntpEnds
CHECK_DEADLOCK FALSE
