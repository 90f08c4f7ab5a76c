SPECIFICATION Spec
CONSTANTS
    Handlers = {h1, h2}
    Clients = {a, b, c}
    Rates = {r1, r2}
    Off = Off
    MaxClients = 2
    Batch = 2
    StaleAfter = 1
    MaxTime = 1
    MaxSwaps = 2
    MaxRequests = 3
SYMMETRY Interchangeable
CHECK_DEADLOCK FALSE
INVARIANTS
    OneConfiguration
    LimitsNotOlder
    BucketsFollow
    ClientsBounded
    EveryRequestCounted
