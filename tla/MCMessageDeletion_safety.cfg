\* Two keys, batches of two, two sweeps beside a delivery; faults are in _live.
CONSTANTS
    Key = {k1, k2}
    Writer = {w1}
    Sweep = {s1, s2}
    BatchSize = 2
    MaxTry = 1
    MaxFaults = 0
SPECIFICATION Spec
SYMMETRY Interchangeable
CHECK_DEADLOCK FALSE
INVARIANTS
    IInv
    AnsweredSweepLeavesNothing
    OnlyMatchingAreRemoved
    CountIsExactWhenAlone
