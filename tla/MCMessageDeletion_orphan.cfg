\* One key, two deliveries of its message and one sweep.
CONSTANTS
    Key = {k1}
    Writer = {w1, w2}
    Sweep = {s1}
    BatchSize = 1
    MaxTry = 1
    MaxFaults = 0
SPECIFICATION LiveSpec
CHECK_DEADLOCK FALSE
PROPERTY
    ExhaustedIsPersisted
