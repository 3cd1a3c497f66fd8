SPECIFICATION Spec
CONSTANTS
    Sensors <- MCSensors
    Remote <- MCRemote
    MaxSaves = 1
    MaxFails = 1
INVARIANT TypeOK
INVARIANT RunsAgain
INVARIANT DrainedIsKept
PROPERTY Stops
CHECK_DEADLOCK FALSE
