CONSTANTS
    Handlers = {h1, h2, h3}
    Agent = {a1, a2, a3}
    None = None
SYMMETRY MCSymmetry
SPECIFICATION EditorSpec
INVARIANTS RegisteredHasKey BarTellsState
