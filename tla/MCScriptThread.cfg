SPECIFICATION MCSpec
CONSTANTS
    Lines = {"stmt", "loop", "quit", "open", "member", ".", "enabledebug", "runfile"}
    FileLines <- MCFileLines
    MaxScripts = 2
    MaxPushes = 4
    ToolLines = {"loop", "exit", "."}
    ToolScripts = 2
    ToolThreads = 2
    ToolStarts = 2
    ToolCalls = 3
INVARIANTS
    NothingRunsAfterStop
    NeverDeaf
    NothingHeldBack
    ToolObjectsHaveOneUser
PROPERTIES
    DotInterrupts
    ShutdownCompletes
    ToolThreadsEnd
CHECK_DEADLOCK FALSE
