SPECIFICATION Spec
CONSTANTS
    Requests = {r1, r2, r3}
    Devices = {d1}
    Users = {alice, bob}
    None = None
    Lifetime = 2
    MaxClock = 3
    MaxInterval = 4
SYMMETRY RowSymmetry
CHECK_DEADLOCK FALSE
INVARIANTS
    TypeOK
    DeliveredOnce
    DeliveryFollowsTheOnlyDecision
