SPECIFICATION Spec
CONSTANTS
    StartSize = 12
    MaxSize = 20
    Slack = 2
    LineCounts = 24
    Columns = 3
    Rows = 2
    EscMax = 8
    IntMax = 127
    Ring = 3
    PollMax = 2
    ReadMax = 4
    LogMax = 4
    Typed <- MCTyped
    StaleCodes <- MCStaleCodes
    StaleBytes = {"a"}
    Outputs <- MCOutputs
    Garbage <- MCGarbage
    JunkIndex = {0, 1}
    MaxLogs = 5
    MaxCalls = 1
CHECK_DEADLOCK FALSE
INVARIANTS KeysInOrder BytesInOrder CursorOnScreen
PROPERTIES LoopReturns
