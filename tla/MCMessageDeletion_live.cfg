\* One key, two deliveries of its message, one sweep whose cursor is throttled or
\* one of whose deletions fails; liveness: no symmetry.
CONSTANTS
    Key = {k1}
    Writer = {w1, w2}
    Sweep = {s1}
    BatchSize = 2
    MaxTry = 1
    MaxFaults = 1
SPECIFICATION LiveSpec
CHECK_DEADLOCK FALSE
INVARIANTS
    AnsweredSweepLeavesNothing
    InProcessIsHeld
PROPERTIES
    DeliveryEndsCompleted
    EverySweepEnds
    EveryChainEnds
