CONSTANTS
    Call = {c1, c2, c3}
    MaxOpen = 2
    MaxLines = 3
SPECIFICATION Spec
INVARIANT AnswerDecidesItsCall
CHECK_DEADLOCK FALSE
