CONSTANTS
    Documents <- MCDocuments
    Environments <- MCEnvironments
    Settings <- MCSettings
    MaxEdits = 2
SPECIFICATION ReloadFairSpec
CHECK_DEADLOCK FALSE
INVARIANTS ReloadInv NoTornSnapshot
PROPERTIES EventuallyCurrent
