CONSTANTS
  FirstTypes <- AllTypes
  Families <- Composing
  MaxChanges = 2
  Cases = 8
  FieldNames = {"a", "b", "c"}
  PlainKinds = {"prim"}
  LeastVariant = 0
  KeepFirst = TRUE
  RetireAliases = TRUE
  PlaceholderDefault = TRUE
  ArrayLen = 1
  MaxZeroColumnRepeat = 4
  MaxProbeRows = 8
SPECIFICATION Spec
INVARIANTS
  ApprovedFilesRead
  AlarmsAreReal
  EveryVariantProbed
  StaticDecides
CHECK_DEADLOCK FALSE
