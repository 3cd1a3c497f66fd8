SPECIFICATION Spec
CONSTANTS
    FailAfter = 2
    RecoverAfter = 2
    Queued = TRUE
    Settings <- MCSettings
    MaxQueue = 1
    MaxRows = 2
INVARIANT TypeOK
INVARIANT RowsMatch
PROPERTY HealthyAfterRestart
 
PROPERTY BlipVanishes
