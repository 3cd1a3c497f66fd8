SPECIFICATION Spec
CONSTANTS
    Probes <- MCProbes
    Canary = 1
    Batch = 2
    Attempts = {"first"}
    MaxFaults = 1
INVARIANT TypeOK
 
 
PROPERTY ProbesAreManaged
 
CHECK_DEADLOCK FALSE
