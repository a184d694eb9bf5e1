CONSTANTS
  TracedTypes <- AllTypes
  TraceDepth = 3
  MaxDepth = 3
  Utf8 <- Ascii
  Magic <- MagicBytes
  Places = 3
  Reserve = 1
  Spell <- Letters
  Data <- DataBytes
  DamageBytes <- Harm
  StrayBytes <- Strays
SPECIFICATION Spec
INVARIANTS
  TypeOK
  WorkWithinInput
  ReadIsWritten
  TracedIsDerived
  ShippedIsRead
  SplitsWhereWritten
PROPERTIES
  EveryPassExplores
  EverythingEnds
CHECK_DEADLOCK FALSE
