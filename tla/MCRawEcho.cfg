SPECIFICATION Spec
CONSTANTS
    Clients = {c1, c2}
    Ports = {p1, p2, sp}
    ServerPort = sp
    NoPort = NoPort
    MAX_CLIENTS = 1
    MaxLines = 2
    MaxLosses = 1
    MaxKills = 2
    MaxCount = 1
SYMMETRY Symmetry
CHECK_DEADLOCK FALSE
INVARIANTS
    AnswersInStep
    EntryHasOwner
    WaitsForSomething
