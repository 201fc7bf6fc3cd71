\* Two listeners that lose the partition to each other; liveness: no symmetry.
CONSTANTS
    Listener = {c1, c2}
    N = 3
    MaxPoll = 2
    MaxDisruptions = 2
SPECIFICATION LiveSpec
CHECK_DEADLOCK FALSE
INVARIANTS
    IInv
    CommittedWereProcessed
    ProcessedInOrder
    RepeatsPaidByDisruptions
PROPERTIES
    CommitNeverRewinds
    HealthyPrefixIsConsumed
    UnprocessableStopsEveryListener
