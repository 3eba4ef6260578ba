SPECIFICATION Spec
CONSTANTS
    Callers = {c1, c2}
    Hour = 3
    Day = 6
    Limits <- MCLimits
    Units = {1, 2}
    MaxTime = 7
    MaxBack = 2
    None = None
SYMMETRY CallerSymmetry
INVARIANTS WindowRespected RetryExact
CHECK_DEADLOCK FALSE
