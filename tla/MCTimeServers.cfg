SPECIFICATION TimeSpec
CONSTANTS
    Clients = {c1, c2, c3}
    Workers = {w1, w2}
    Main = main
    Size = 2
    BadFd = BadFd
    NoFd = NoFd
    Nobody = Nobody
    MaxWakeups = 1
    Callers = {c1, c2, c3}
    PoolSize = 2
    FailedFd = FailedFd
    MaxPoolWakeups = 1
INVARIANTS
    NoLostWakeup
    NothingLost
PROPERTIES
    ImplementsFifo
    ImplementsFairFifo
    DropsOnlyBehindUnserved
    FilledIsServed
    MainMovesOn
