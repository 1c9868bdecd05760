SPECIFICATION Spec
CONSTANTS
    Clients = {c1, c2}
    Names = {n1, n2}
    NoName = NoName
    MAX_CLIENTS = 2
    MAX_MESSAGES = 3
    MaxFaults = 1
INVARIANT EscReleases
\* Everybody may have gone, or wait for a semaphore nobody gives back.
CHECK_DEADLOCK FALSE
