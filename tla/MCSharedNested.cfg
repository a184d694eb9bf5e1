CONSTANTS
  T = T
  U = U
  O = O
  t1 = t1
  t2 = t2
  u1 = u1
  u2 = u2
  NoObject = NoObject
  Position <- MCPosition
  Object <- MCObject
  Kids <- MCKids
  RowData <- MCShortRow
  Foreign = {u1}
  Damaged = {}
  ReadAs = {"rc", "skip"}
  MaxDepth = 2
  MaxRows = 2
SPECIFICATION Spec
INVARIANTS SharingPreserved WrittenRowsReadThrough
