SPECIFICATION FairSpec
CONSTANTS
    Pids = {1, 2, 3}
    Timers = {0, 1}
    MaxCommands = 4
    MaxTime = 2
    MaxKills = 1
ACTION_CONSTRAINT InOrder
INVARIANTS
    NoLiveDriverLost
    ScanBlocksOnlyOnDrained
    TableAgrees
PROPERTIES
    AnswerArrives
    ShutdownCascades
\* The dispatcher may exit, be killed, or freeze in the last loop of main.
CHECK_DEADLOCK FALSE
