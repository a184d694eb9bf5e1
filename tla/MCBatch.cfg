\* Two rows of three shapes, one blob, one panic per batch.
CONSTANTS
  NumColumns = 2
  Value <- MCValue
  NoValue = NoValue
  Cell <- MCCell
  Enc <- MCEnc
  MaxRows = 2
  MaxBlobs = 1
  MaxPanics = 1
SPECIFICATION Spec
INVARIANTS TypeOK PartialRow
PROPERTY RefinesAtomicBatch
