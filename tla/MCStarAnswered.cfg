SPECIFICATION FairSpec
CONSTANTS
    Clients = {p1, p2}
    Names = {p1, p2}
    NameOf <- MCNameOf
    NoClient = NoClient
    NoName = NoName
    Handles = {4, 5}
    MaxConn = 2
    MaxSessions = 2
    MaxLines = 1
    LowestFd = TRUE
    MaxBacklog = 0
    MaxNames = 2
    MaxTransmits = 1
    MaxCommands = 0
    Faults = {"throw", "center", "client", "network"}
PROPERTIES
    TransmitAnswered
    ReconnectsUnlessThrown
