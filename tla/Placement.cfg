SPECIFICATION Spec
CONSTANTS
    Sensors <- MCSensors
    Probes <- MCProbes
    Callers <- MCCallers
    Starts <- MCStarts
    MaxRequests = 2
INVARIANT TypeOK
INVARIANT AgentIsCurrent
INVARIANT NoGhost
 
CHECK_DEADLOCK FALSE
