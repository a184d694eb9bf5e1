\* Two rows per blob, two blobs, no panics.
CONSTANTS
  NumColumns = 2
  Value <- MCValue
  NoValue = NoValue
  Cell <- MCCell
  Enc <- MCEnc
  MaxRows = 2
  MaxZeroColumnRepeat = 1
  MaxBlobs = 2
  MaxPanics = 0
SPECIFICATION StreamSpec
INVARIANT ReadsBackWhatWasPushed
