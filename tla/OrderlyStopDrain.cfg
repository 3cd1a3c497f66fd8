SPECIFICATION Spec
CONSTANTS
    Sensors <- MCSensors
    Remote <- MCRemote
    MaxSaves = 1
    MaxFails = 1
INVARIANT LastResultsLand
CHECK_DEADLOCK FALSE
