SPECIFICATION FairSpec
CONSTANTS
    Contents <- LiveContents
    Startup <- MCStartup
    Rendered <- MCRendered
    Default = "default"
    Empty = "empty"
    Partial <- LivePartial
    Invalid = {}
    BadRules = {}
    NeedsBody = {"body"}
    NoAdmin = {"empty", "plain"}
    None = None
    Keep = 1
    MaxEdits = 1
    MaxSaves = 1
    MaxStops = 0
    MaxHups = 1
    MaxIOErrors = 0
PROPERTIES
    EditApplied
    HupApplied
    SaveEnds
