\* Two clients, a third connection, batches of up to three, for which std::sort is not
\* stable, and messages of two cells: a read may end inside one.
CONSTANTS
    MaxNumClients = 2
    MaxPendingRequests = 3
    StableUpTo = 2
    Parts = 2
    MaxConnects = 3
    MaxRequests = 3
    MaxTroubles = 1
    MaxClock = 1
SPECIFICATION Spec
CHECK_DEADLOCK FALSE
INVARIANTS TypeOK FirstComeFirstServed ExactlyOnce RightIsTaken
PROPERTIES RequestsPublished
