\* One record; the defaults of application.yml.  A database operation takes the two
\* seconds that WebClientConfig reckons with, a publication no time at all.
CONSTANTS
    MaxTry = 3
    InitialDelay = 5
    MaxDelay = 60
    LongBits = 16
    MongoTime = 2000
    PublishTime = 0
SPECIFICATION Spec
CHECK_DEADLOCK FALSE
INVARIANT
    LongestChainFitsShutdown
