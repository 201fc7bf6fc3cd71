\* One notification, two concurrent requests, two listeners.  Liveness: no symmetry.
CONSTANTS
    Message = {m1}
    Tpp = {t1}
    Listener = {c1, c2}
    Request = {r1, r2}
    MaxTry = 0
    MaxFaults = 1
SPECIFICATION RLiveSpec
CHECK_DEADLOCK FALSE
INVARIANTS
    RInv
    OneHandAtATime
    InProcessIsCarried
    ManualRetriesNotifyOnce
PROPERTIES
    SentIsFinal
    FailedRequestRestoresError
    EveryClaimSettles
    ImplementsRetryPromise
