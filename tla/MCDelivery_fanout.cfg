\* One message for two TPPs: the inners of the flatMap.
CONSTANTS
    Message = {m1}
    Tpp = {t1, t2}
    Listener = {c1, c2}
    MaxTry = 1
    MaxFaults = 1
SPECIFICATION Spec
SYMMETRY Interchangeable
CHECK_DEADLOCK FALSE
INVARIANTS
    IInv
    SentWasAccepted
