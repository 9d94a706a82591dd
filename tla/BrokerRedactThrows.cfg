CONSTANTS
    Segment = {"srv", "pay", "list"}
    Id = {"local"}
    NoPolicy = NoPolicy
    NoRole = NoRole
    Tool <- MCTool
    Ref = {"bank", "ledger"}
    NoRef = NoRef
    Server <- MCServer
    Call = {c1}
    PolicyDocs <- MCDocs
    SecretMaps <- MCSecretMaps
    Token = {"b1", "l1", "l2"}
    Missing = Missing
    Broken = Broken
    None = None
    FailMode = "closed"
    HasApproval = TRUE
    IdentityMayThrow = FALSE
    RedactMayThrow = TRUE
    MaxEdits = 0
    MaxCrashes = 0
SPECIFICATION Spec
INVARIANT OneEventPerCall
CHECK_DEADLOCK FALSE
