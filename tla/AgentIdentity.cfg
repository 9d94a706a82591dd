CONSTANTS
    a1 = a1
    a2 = a2
    a3 = a3
    o1 = o1
    o2 = o2
    None = None
    Agent <- MCAgent
    Owner <- MCOwner
    OwnerOf <- MCOwnerOf
    Proc = {p1}
    LosesReplies = TRUE
    MaxCrashes = 2
    MaxStarts = 4
SPECIFICATION Spec
INVARIANTS TypeOK ServerSignsAsItself CliSignsAsItself ProjectAgentIsUsed
\* The bound on the commands started is reached.
CHECK_DEADLOCK FALSE
