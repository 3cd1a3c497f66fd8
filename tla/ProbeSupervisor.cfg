SPECIFICATION Spec
CONSTANTS
    Builds <- MCBuilds
    First = "A"
    Attempts <- MCAttempts
    Target <- MCTarget
    Bad <- MCBad
    Overlap = TRUE
    GoodCheckins = 2
    CrashMax = 2
    MaxCrashes = 2
    MaxExits = 1
INVARIANT TypeOK
INVARIANT RunsProven
PROPERTY PromisesKept
PROPERTY BadIsLeft
PROPERTY OutcomeIsHeard
