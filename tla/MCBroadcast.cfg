SPECIFICATION GroupSpec
CONSTANTS
    Hosts = {"h1", "h2"}
    MaxMessages = 2
    MaxFaults = 0
\* Everybody may wait for a datagram that is not coming.
CHECK_DEADLOCK FALSE
INVARIANT EveryMessageIsBroadcast
