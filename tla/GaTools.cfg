SPECIFICATION FairSpec
CONSTANTS
  BuffSize = 24
  ByteMod = 16
  NibbleMod = 4
  MaxHeight = 4
  MouseX = {0, 1, 3}
  MouseY = {0, 1, 2}
  DefaultWidth = 3
  DefaultHeight = 2
  LutSize = 4
  LineBytes = 4
  X68Width = 2
  X68Height = 5
  HeadBytes = 12
  EntryBytes = 1
  ScreenWidth = 4
  BmpFiles <- MCBmpFiles
  RgbFiles <- MCRgbFiles
  X68Files <- MCX68Files
  TiffFiles <- MCTiffFiles
INVARIANT TypeOK
INVARIANT RowsInPlace
INVARIANT NoLightCreated
INVARIANT BoxErased
INVARIANT SavedReloads
PROPERTY RlePictureShown
CHECK_DEADLOCK FALSE
