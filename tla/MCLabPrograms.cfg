SPECIFICATION LabSpec
CONSTANTS
    Nodes = {n1, n2, n3}
    NULL = NULL
    Names = {anna, boris}
    All = All
    MAX_ABONENTS = 3
    DirNames = {"a"}
    FileNames = {"f"}
    MAX_ENTRIES = 2
    Depth = 3
    Servers = {"s1", "s2"}
    Clients = {"c1", "c2"}
    MaxCrashes = 1
    MaxStages = 3
    Users = {"u1", "u2", "u3"}
    MaxFailures = 1
    Peers = {"p1", "p2", "p3"}
    MaxDeaths = 1
    Hosts = {"h1", "h2"}
    MaxMessages = 3
    MaxFaults = 1
    RawClients = {"r1", "r2"}
    MaxKills = 1
    Bytes = {0, 1, 255}
    MaxLength = 6
CHECK_DEADLOCK FALSE
INVARIANTS
    ListShape
    LoopsFollowTheBook
    CountCoversTheBook
    PathFollowsTheWalk
    HeardTheAnswer
    NobodyWaitsInVain
    NothingLeftOver
    EachAnsweredOnce
    WaitsForASilentClient
    UndisturbedIsServed
    AnswersAreAccountedFor
    FirstAnswerIsTaken
    ReceiverAccepts
PROPERTIES
    LineEnds
