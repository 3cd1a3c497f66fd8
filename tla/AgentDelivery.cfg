SPECIFICATION Spec
CONSTANTS
    MaxResults = 4
    BatchMax = 2
    Cap = 2
    Overflow = 2
    Ops <- MCAll
    MaxFaults = 3
INVARIANT TypeOK
 
PROPERTY WholeSpoolDrains
CHECK_DEADLOCK FALSE
