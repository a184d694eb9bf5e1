CONSTANTS
  FirstTypes <- Lists
  Families <- JustArrays
  Lengths <- TooMany
  MaxChanges = 3
  FieldNames = {"a", "b", "c"}
  PlainKinds = {"prim"}
  LeastVariant = 2
  KeepFirst = TRUE
  RetireAliases = TRUE
  PlaceholderDefault = TRUE
  ArrayLen = 2
  MaxZeroColumnRepeat = 8
SPECIFICATION Spec
INVARIANT NothingMisread
CHECK_DEADLOCK FALSE
