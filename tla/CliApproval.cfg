CONSTANTS
    Call = {c1, c2, c3}
    MaxOpen = 2
    MaxLines = 3
SPECIFICATION Spec
INVARIANTS TypeOK ApprovedWasAnswered
PROPERTY KeepsContract
CHECK_DEADLOCK FALSE
