\* Every blob of up to four data bytes, well formed or not.
CONSTANTS
  NumColumns = 3
  Value <- MCValue
  Cell <- MCCell
  Enc <- MCEnc
  Refused <- MCRefused
  Input <- MCInput
  MaxZeroColumnRepeat = 3
  MaxPanics = 1
SPECIFICATION Spec
INVARIANTS TypeOK BytesReadAreRowsYielded RowsWithinBytes
PROPERTY NothingAfterError
CHECK_DEADLOCK FALSE
