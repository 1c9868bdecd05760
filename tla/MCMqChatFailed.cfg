SPECIFICATION Spec
CONSTANTS
    Clients = {c1, c2}
    Nobody = Nobody
    MAX_CLIENTS = 2
    Capacity = 2
    MaxLines = 2
    MaxKills = 0
    MaxStops = 0
\* Everybody may have gone, or wait on a full queue that nobody reads.
CHECK_DEADLOCK FALSE
INVARIANT FailedIsNoMember
