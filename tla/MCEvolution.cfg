CONSTANTS
  FirstTypes <- AllTypes
  Families <- Composing
  Lengths <- TwoEach
  MaxChanges = 3
  FieldNames = {"a", "b", "c"}
  PlainKinds = {"prim"}
  LeastVariant = 2
  KeepFirst = TRUE
  RetireAliases = TRUE
  PlaceholderDefault = TRUE
  ArrayLen = 2
  MaxZeroColumnRepeat = 8
SPECIFICATION Spec
INVARIANTS
  NothingMisread
  OldFilesRead
  CursorsInStep
CHECK_DEADLOCK FALSE
