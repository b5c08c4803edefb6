SPECIFICATION MCSpec
CONSTANTS
    Clients = {p1, p2}
    Names = {p1, p2}
    NameOf <- MCNameOf
    NoClient = NoClient
    NoName = NoName
    Handles = {h1, h2, h3}
    MaxConn = 3
    MaxSessions = 2
    MaxLines = 1
    LowestFd = FALSE
    MaxBacklog = 0
    MaxNames = 2
    MaxTransmits = 1
    MaxCommands = 2
    Faults = {"client", "center", "network"}
SYMMETRY Symmetry
INVARIANTS
    HandlesUnique
    OwnHandle
    AtMostOnce
    AcksAreTruthful
    NamedDelivery
PROPERTIES
    ResultReachesAsker
