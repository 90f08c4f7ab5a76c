SPECIFICATION Spec
CONSTANTS
    Contents <- MCContents
    Startup <- MCStartup
    Rendered <- MCRendered
    Default = "default"
    Empty = "empty"
    Partial <- MCPartial
    Invalid = {"invalid"}
    BadRules = {"badrules"}
    NeedsBody = {"body"}
    NoAdmin = {"empty", "plain"}
    None = None
    Keep = 1
    MaxEdits = 1
    MaxSaves = 2
    MaxStops = 1
    MaxHups = 0
    MaxIOErrors = 1
INVARIANTS
    PendingExact
    GuiKeepsBootable
    BackupsBounded
PROPERTIES
    NoSilentOverwrite
    BackupHoldsReplaced
    RollbackRestores
