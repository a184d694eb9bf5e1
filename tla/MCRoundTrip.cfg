CONSTANTS
  Types <- MCTypes
  Values <- MCValues
  Damage = {0, 1, 2, 3, 4}
  MaxRows = 2
  MaxDamage = 1
  MaxZeroColumnRepeat = 2
SPECIFICATION Spec
INVARIANTS
  TypeOK
  WrittenRowsReadBack
  PathsAgree
  ReadIsCanonical
CHECK_DEADLOCK FALSE
