\* Two calls that may be abandoned, one commit, one invalidation; copies and locks
\* expire, Redis may fail but keeps its counter.
SPECIFICATION FairSpec
CONSTANTS
    Requests = {r1, r2}
    MaxVersion = 1
    MaxEpoch = 1
    MayEvict = FALSE
    Nobody = Nobody
PROPERTIES ImplementsFreshAnswers EveryCallEnds
CHECK_DEADLOCK FALSE
