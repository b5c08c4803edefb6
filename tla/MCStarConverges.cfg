SPECIFICATION FairSpec
CONSTANTS
    Clients = {p1, p2}
    Names = {p1, p2}
    NameOf <- MCNameOf
    NoClient = NoClient
    NoName = NoName
    Handles = {4, 5, 6}
    MaxConn = 3
    MaxSessions = 3
    MaxLines = 1
    LowestFd = TRUE
    MaxBacklog = 1
    MaxNames = 2
    MaxTransmits = 0
    MaxCommands = 0
    Faults = {}
PROPERTIES
    DirectoryConverges
INVARIANTS
    DirectoryTracksCenter
