CONSTANTS
  i1 = i1
  i2 = i2
  i3 = i3
  Ids = {i1, i2, i3}
  Requests <- MixedPriorities
  MaxSessions = 2
  MaxQMITransports = 2
SPECIFICATION FairSpec
CHECK_DEADLOCK FALSE
PROPERTIES AgedTransportServed
