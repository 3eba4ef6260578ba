SPECIFICATION Spec
CONSTANTS
  a = a
  b = b
  c = c
  d = d
  Tasks = {a, b, c, d}
  Mixes <- RestartMixes
  None = None
INVARIANT InvalidationCancels
CHECK_DEADLOCK FALSE
