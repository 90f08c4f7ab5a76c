SPECIFICATION Spec
CONSTANTS
    Handlers = {h1, h2}
    Commands = {cli}
    Uploads = {u1, u2}
    Pairs = {p1, p2}
    NoPair = NoPair
    Starts = {"disabled", "static", "local-ca", "own-ca", "own-ca-gone"}
    MaxCAs = 2
    MaxCuts = 1
    MaxErrors = 2
SYMMETRY Symmetry
CHECK_DEADLOCK FALSE
INVARIANTS
    CertHasKey
    OneCa
    StartExplained
    PairSettled
