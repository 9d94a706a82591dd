CONSTANTS
    Segment = {"srv", "pay", "list"}
    Id = {"local"}
    NoPolicy = NoPolicy
    NoRole = NoRole
    Tool <- MCTool
    Ref = {"bank", "ledger"}
    NoRef = NoRef
    Server <- MCServer
    Call = {c1, c2}
    PolicyDocs <- MCDocs
    SecretMaps <- MCSecretMaps
    Token = {"b1", "l1", "l2"}
    Missing = Missing
    Broken = Broken
    None = None
    FailMode = "closed"
    HasApproval = TRUE
    IdentityMayThrow = TRUE
    RedactMayThrow = FALSE
    MaxEdits = 1
    MaxCrashes = 1
SPECIFICATION Spec
INVARIANTS TypeOK RunsWithNamedCredential OneEventPerDecision LogSound
PROPERTIES KeepsGate FreshSinceRestart CacheStaysSettled
SYMMETRY CallSymmetry
CHECK_DEADLOCK FALSE
