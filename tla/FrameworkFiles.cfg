CONSTANTS
    None = None
    Agent = {a1, a2}
    Dir <- MCDir
    Apps <- MCApps
    Edited <- MCEdited
    Limits <- MCLimits
SPECIFICATION Spec
INVARIANTS UninstallHolds InstalledAgentActs
PROPERTIES UserTextKept UserContentKept
SYMMETRY MCSymmetry
\* The bound on commands is reached.
CHECK_DEADLOCK FALSE
