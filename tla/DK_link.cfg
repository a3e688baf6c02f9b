SPECIFICATION FairSpec
CONSTANTS
    s1 = s1
    s2 = s2
    Station <- Stations
    Socket = {1, 2}
    LineKind <- Lines
    CommandKind <- Commands
    Updates = {4, 5}
    Calls <- SomeCalls
    Driver = 3
    PerMessage = 2
    MaxLines = 2
    MaxCommands = 2
    MaxCloses = 1
    MaxServers = 1
    None = None
CHECK_DEADLOCK FALSE
INVARIANTS
    InOrderOnce
    LeftoversExplained
    UpdateComplete
    Addressed
PROPERTIES
    AllTaken
