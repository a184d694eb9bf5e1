CONSTANTS
  FirstTypes <- OldNames
  Families <- RenameRemoveAdd
  Lengths <- TwoEach
  MaxChanges = 3
  FieldNames = {"a", "b", "c"}
  PlainKinds = {"prim"}
  LeastVariant = 2
  KeepFirst = TRUE
  RetireAliases = FALSE
  PlaceholderDefault = TRUE
  ArrayLen = 2
  MaxZeroColumnRepeat = 8
SPECIFICATION Spec
INVARIANT NothingMisread
CHECK_DEADLOCK FALSE
