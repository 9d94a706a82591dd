CONSTANTS
    TimeoutMs = 7
    PollMs = 2
    FetchTime = 3
SPECIFICATION Spec
INVARIANTS TypeOK ReportsOwner OnTime
PROPERTY KeepsContract
CHECK_DEADLOCK FALSE
