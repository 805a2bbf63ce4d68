\* Pieces of at most three bytes, so that every context meets every cut.
SPECIFICATION Spec
CONSTANTS
  RecvBufLen = 3
  KanjiBytes = {36, 66}
  TextBytes = {66}
  JunkBytes = {10, 27, 36, 40, 66, 200}
  MaxItems = 5
INVARIANTS TypeOK SjisbufBound CutsDoNotMatter
