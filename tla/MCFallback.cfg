CONSTANTS
  Outer = Outer
  Inner = Inner
  Bad = Bad
  Thread = {h1, h2}
  Type <- MCType
  Reaches <- MCReaches
  Rank <- MCRank
  Untraceable = {Bad}
  NoEntry = NoEntry
  NoThread = NoThread
SPECIFICATION Spec
INVARIANTS TypeOK EveryCallerSeesOneEntry OneLeakPerThread
PROPERTIES EntriesAreForever EveryCallEnds
