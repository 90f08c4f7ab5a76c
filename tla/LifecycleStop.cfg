SPECIFICATION FairSpec
CONSTANTS
    Servers = {"http", "admin", "management"}
    Configurations <- StopConfigurations
    Public = {"http", "https"}
    Width <- MCWidth
    FineCapacity = 1
    MaxRequests = 1
    MaxFailures = 1
    MaxTicks = 0
    MaxStarts = 1
CHECK_DEADLOCK FALSE
INVARIANTS
    NothingLeft
    ExitStatus
    GracefulServesAll
PROPERTIES
    Stops
