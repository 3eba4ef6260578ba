\* A live identity read during the switch is enough.
SPECIFICATION Spec
CONSTANTS
    a = a
    b = b
    None = None
    Switches <- MCSwitches
    Profiles <- MCProfiles
    Configs <- MCConfigs
    MaxFaults = 1
INVARIANT ConfirmedTargetApplied
