CONSTANTS
  Callers = {c1, c2}
  NoChan = NoChan
  MaxGeneration = 2
SPECIFICATION FairSpec
INVARIANTS ReadyIsFresh SuccessIsFresh
PROPERTIES CallsReturn
