SPECIFICATION Spec
CONSTANTS
    Worlds = {"w1", "w2"}
    Addresses = {"a1", "a2"}
    Names = {"n1", "n2"}
    Missing = "missing"
    Configs <- MCConfigs
    MaxManagers = 2
    MaxConn = 2
    MaxReloads = 3
    MaxDepth = 1
INVARIANTS
    DeletedOnce
    SessionFollowsConfig
    EndsAreTold
PROPERTIES
    EveryWorldConnects
CHECK_DEADLOCK FALSE
