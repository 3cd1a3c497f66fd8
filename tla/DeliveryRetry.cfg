SPECIFICATION FairSpec
CONSTANTS
    Items = {a, b, c}
    Threshold = 2
    Cooldown = 2
    Recheck = 1
    Backoff <- MCBackoff
    MaxAge = 3
    QueueCap = 2
    SendTime = 1
    SubmitBy = 1
    MaxTime = 8
INVARIANT TypeOK
INVARIANT ProbeUnderWay
INVARIANT OneProbe
INVARIANT GivenUpAfterRetries
PROPERTY Settles
CHECK_DEADLOCK FALSE
