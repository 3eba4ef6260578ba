SPECIFICATION Spec
CONSTANTS
    Sims = {s1, s2}
    FirstSim = s1
    FirstProfile = "A"
    Profiles = {"A", "B", "C"}
    Requests <- MCRequests
    Offered <- MCOffered
    PolicyKeys = {s1}
    PolicyChoices <- MCPolicies
    Installed = {"A", "B"}
    MaxOps = 2
    MaxFaults = 2
    None = None
INVARIANTS RunningIsBacked
PROPERTIES NoBlindRewrite VerifiedEnding RightCard ChoiceKept ImplementsJobs
CHECK_DEADLOCK FALSE
