SPECIFICATION FairSpec
CONSTANTS
    Users = {u1}
    Runs = {r1, r2}
    Attempts = 2
    Limit = 1
    MaxSyncs = 1
    MaxCrashes = 1
CHECK_DEADLOCK FALSE
INVARIANTS
    TypeOK
    ServiceAgrees
PROPERTIES
    SucceededStays
    EventsAreSettled
