CONSTANTS
  i1 = i1
  i2 = i2
  i3 = i3
  Ids = {i1, i2, i3}
  Requests <- AllCalls
  MaxSessions = 2
  MaxQMITransports = 2
SPECIFICATION Spec
SYMMETRY SymIds
CHECK_DEADLOCK FALSE
INVARIANTS Exclusion BarrierIsolation
PROPERTIES TouchedLeaseKept ImplementsAccess
