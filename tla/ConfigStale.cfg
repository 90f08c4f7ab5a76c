SPECIFICATION FairSpec
CONSTANTS
    Contents <- MCContents
    Startup <- MCStartup
    Rendered <- MCRendered
    Default = "default"
    Empty = "empty"
    Partial <- MCPartial
    Invalid = {"invalid"}
    BadRules = {"badrules"}
    NeedsBody = {"body"}
    NoAdmin = {"empty", "plain"}
    None = None
    Keep = 1
    MaxEdits = 0
    MaxSaves = 2
    MaxStops = 0
    MaxHups = 1
    MaxIOErrors = 0
PROPERTIES
    ValidFileApplied
