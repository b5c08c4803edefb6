SPECIFICATION FairSpec
CONSTANTS
    Size = 8
    Wrap = 16
    HeadSize = 2
    MaxPacketSize = 4
    PerTick = 2
    Lengths = {0, 1, 3}
    MaxPushes = 5
    MaxStarts = 2
    MaxThrows = 1
INVARIANTS
    ReleasedWhenUnused
PROPERTIES
    WholeAndInOrder
    QuitReturns
    MessagesArrive
CHECK_DEADLOCK FALSE
