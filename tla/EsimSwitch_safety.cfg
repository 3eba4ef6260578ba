\* Both switches may overlap; one failure or outside event.
SPECIFICATION Spec
CONSTANTS
    a = a
    b = b
    None = None
    Switches <- MCSwitches
    Profiles <- MCProfiles
    Configs <- MCConfigs
    MaxFaults = 1
INVARIANTS
    IdentityHonest
    QuietCard
    PolicyFitsCard
    PolicyProjected
    RadioRestored
    NothingLeft
PROPERTIES
    MarkKept
