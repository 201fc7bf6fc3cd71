\* One notification, two faults: a fault in the recovery from another one.
CONSTANTS
    Message = {m1}
    Tpp = {t1}
    Listener = {c1, c2}
    MaxTry = 1
    MaxFaults = 2
SPECIFICATION Spec
SYMMETRY Interchangeable
CHECK_DEADLOCK FALSE
INVARIANTS
    CommittedIsCovered
    CompletedAreSkipped
    DuplicatesPaidByFaults
PROPERTIES
    ImplementsPromise
