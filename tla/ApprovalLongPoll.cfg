CONSTANTS
    Clients = {"mcp", "sdk"}
    Budget = 6
    Poll = 2
    ReqTimeout = 3
    BodyTime = 1
    MaxResumes = 1
SPECIFICATION Spec
INVARIANTS TypeOK TakenOnce OutcomeTruthful WaitBounded
PROPERTY EveryCallEnds
CHECK_DEADLOCK FALSE
