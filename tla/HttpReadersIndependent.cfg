SPECIFICATION Spec
CONSTANTS
    Callers = {g1, g2}
    Nobody = nobody
    MaxCalls = 2
    MaxLines = 1
    DrainCap = 1
    UserClose = FALSE
SYMMETRY Symmetry
CHECK_DEADLOCK FALSE
INVARIANTS ReadersIndependent
