SPECIFICATION Spec
CONSTANTS
    Servers = {"https"}
    Configurations <- SaveConfigurations
    Public = {"http", "https"}
    Width <- MCWidth
    FineCapacity = 2
    MaxRequests = 1
    MaxFailures = 0
    MaxTicks = 4
    MaxStarts = 3
CHECK_DEADLOCK FALSE
INVARIANTS
    FinalSave
    CountsHonest
    SamplesHonest
