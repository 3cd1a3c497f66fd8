SPECIFICATION Spec
CONSTANTS
    MaxResults = 3
    BatchMax = 2
    Cap = 2
    Overflow = 2
    Ops <- MCTear
    MaxFaults = 1
PROPERTY SpoolDrains
CHECK_DEADLOCK FALSE
