\* One notification, two retries: a retry record publishes another one.  Liveness: no
\* symmetry.
CONSTANTS
    Message = {m1}
    Tpp = {t1}
    Listener = {c1, c2}
    MaxTry = 2
    MaxFaults = 1
SPECIFICATION LiveSpec
CHECK_DEADLOCK FALSE
INVARIANTS
    TypeOK
    ErrorOnlyAfterAllAttempts
    AttemptsBounded
PROPERTIES
    TerminalIsFinal
    BacklogDrains
    EveryNotificationSettles
