\* The documented outcome of an exhausted core record: refuted.
CONSTANTS
    Message = {m1}
    Tpp = {t1}
    Listener = {c1, c2}
    MaxTry = 1
    MaxFaults = 0
SPECIFICATION Spec
CHECK_DEADLOCK FALSE
PROPERTY
    ExhaustedRecordIsDropped
