SPECIFICATION Spec
CONSTANTS
    Handlers = {h1, h2}
    Passwords = {p1, p2}
    None = None
    Provided = {p1, None}
    MaxRotations = 3
    MaxStarts = 2
    MaxErrors = 1
    MaxDeletes = 1
SYMMETRY Interchangeable
CHECK_DEADLOCK FALSE
INVARIANTS
    SignedOut
    RestartSessionsMatch
    LiveSessionsMatch
PROPERTIES
    CredentialChain
