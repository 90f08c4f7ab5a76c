SPECIFICATION Spec
CONSTANTS
    Capacity = 3
    MaxLimit = 2
    Levels <- MCLevels
    Records <- MCRecords
    NoRecord = NoRecord
    Rules <- MCRules
    Packs <- MCPacks
    Configurations <- MCConfigurations
    Requests <- MCRequests
    MaxBody = 6
INVARIANTS
    LogsNewest
    CaptureExact
    SecretsHidden
    FirstMatch
    PacksOnce
    LoggedAsSent
PROPERTIES
    RingIsWindow
