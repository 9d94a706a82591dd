CONSTANTS
    Segment = {"srv", "pay", "list"}
    Id = {"local"}
    NoPolicy = NoPolicy
    NoRole = NoRole
    Tool <- MCTool
    Ref = {"bank", "ledger"}
    NoRef = NoRef
    Server <- MCServer
    Call = {c1, c2}
    PolicyDocs <- OpenDocs
    SecretMaps <- MCSecretMaps
    Token = {"b1", "l1", "l2"}
    Missing = Missing
    Broken = Broken
    None = None
    FailMode = "open"
    HasApproval = FALSE
    IdentityMayThrow = TRUE
    RedactMayThrow = TRUE
    MaxEdits = 0
    MaxCrashes = 0
SPECIFICATION Spec
INVARIANT GateBeforeHandler
PROPERTY EveryCallEnds
CHECK_DEADLOCK FALSE
