SPECIFICATION Spec
CONSTANTS
    Clients = {c1, c2}
    Nobody = Nobody
    MAX_CLIENTS = 2
    Capacity = 2
    MaxLines = 1
    MaxKills = 1
    MaxStops = 1
INVARIANTS
    NothingMissed
    IdsIdentify
SYMMETRY ClientSymmetry
\* Everybody may have gone, or wait on a full queue that nobody reads.
CHECK_DEADLOCK FALSE
