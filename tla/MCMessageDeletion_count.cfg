\* One sweep alone, two documents at most, a throttled cursor.
CONSTANTS
    Key = {k1, k2}
    Writer = {}
    Sweep = {s1}
    BatchSize = 2
    MaxTry = 1
    MaxFaults = 1
SPECIFICATION Spec
CHECK_DEADLOCK FALSE
INVARIANT
    DeletedCountIsExact
