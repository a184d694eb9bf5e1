CONSTANTS
  T = T
  U = U
  O = O
  t1 = t1
  t2 = t2
  u1 = u1
  u2 = u2
  NoObject = NoObject
  Position <- MCPosition
  Object <- MCObject
  Kids <- MCKids
  RowData <- MCRowData
  Foreign = {u1}
  Damaged <- MCDamaged
  ReadAs = {"rc", "arc", "plain", "skip"}
  MaxDepth = 1
  MaxRows = 1
SPECIFICATION Spec
INVARIANTS TypeOK DictionariesDense NothingIsStale WrittenRowsReadThrough SharingPreserved RegistriesHoldOwnValues
