SPECIFICATION Spec
CONSTANTS
    Pids = {1}
    Timers = {1}
    MaxCommands = 5
    MaxTime = 2
    MaxKills = 0

\* The dispatcher may exit, be killed, or freeze in the last loop of main.
CHECK_DEADLOCK FALSE
INVARIANT AvailableIsFree
