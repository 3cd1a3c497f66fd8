\* One sensor, two handlers whose requests do not overlap, fairness of the
\* scheduler, the workers and the handlers.
CONSTANTS
    Sensors = {s1}
    Callers = {c1, c2}
    Overlap = FALSE
    MaxChains = 3
SPECIFICATION FairSpec
INVARIANTS TypeOK NoLostChain HandBackNoticed
PROPERTIES NoFork ChainsFollow
CHECK_DEADLOCK FALSE
