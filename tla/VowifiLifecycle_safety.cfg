SPECIFICATION FairSpec
CONSTANTS
  a = a
  b = b
  c = c
  d = d
  Tasks = {a, b, c, d}
  Mixes <- SafetyMixes
  None = None
INVARIANTS NoOrphan OwnershipBoundary CardReleased InvalidationCancels StartingHasOwner
CHECK_DEADLOCK FALSE
PROPERTY EveryCallReturns
