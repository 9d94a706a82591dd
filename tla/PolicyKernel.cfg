CONSTANTS
    Segment = {"a", "b", "t"}
    Id = {"g1", "g2", "p"}
    NoPolicy = NoPolicy
    NoRole = NoRole
    NoId = NoId
    NoResult = NoResult
    Inputs <- MCInputs
SPECIFICATION Spec
INVARIANTS TypeOK DecisionCorrect TraceJustifies AttributedToFirst GuardrailsOnlyTighten
CHECK_DEADLOCK FALSE
