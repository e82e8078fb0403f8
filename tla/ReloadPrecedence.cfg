CONSTANTS
    Documents <- MCDocuments
    Environments <- MCEnvironments
    Settings = {}
    MaxEdits = 0
SPECIFICATION ReloadSpec
CHECK_DEADLOCK FALSE
INVARIANTS EnvironmentOverrides
