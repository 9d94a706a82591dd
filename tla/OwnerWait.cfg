CONSTANTS
    Programs = {"register", "uninstall", "mcp", "sdk", "python", "aio", "paperclip"}
    Timeout = 6
    PollTime = 2
    RequestTime = 2
    ReadTimeout = 3
    Retry = 1
    BackOff = 2
SPECIFICATION Spec
INVARIANTS ToldTruth DecisionReported
PROPERTY EveryWaitEnds
\* A wait that is over stays over.
CHECK_DEADLOCK FALSE
