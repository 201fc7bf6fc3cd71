\* One record; the delays of application.yml, as many retries as reach the cap, and
\* a long so narrow that the product overflows after it.
\* MongoTime and PublishTime are examples, for which many sums coincide: nothing here
\* depends on them, and the theorems have every value.
CONSTANTS
    MaxTry = 7
    InitialDelay = 5
    MaxDelay = 60
    LongBits = 9
    MongoTime = 10000
    PublishTime = 60000
SPECIFICATION Spec
CHECK_DEADLOCK FALSE
INVARIANTS
    TypeOK
    PostArrivesOnce
    DeliveryKeepsSchedule
PROPERTY
    RetryKeepsItsDistance
