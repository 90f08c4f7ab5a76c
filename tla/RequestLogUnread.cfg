SPECIFICATION Spec
CONSTANTS
    Capacity = 1
    MaxLimit = 1
    Levels <- MCLevels
    Records <- MCRecords
    NoRecord = NoRecord
    Rules <- MCRules
    Packs <- MCPacks
    Configurations <- MCConfigurations
    Requests <- MCRequests
    MaxBody = 6
INVARIANTS
    UnreadableOmitted
