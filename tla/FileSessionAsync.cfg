SPECIFICATION Spec
CONSTANTS
    Versions = {"v0", "v2"}
    MaxLines = 1
    MaxCalls = 2
    MaxArgs = 1
    Disciplined = FALSE
    AsyncClose = TRUE
\* A Dial that fails leaves nothing to do; a call that hangs is the business
\* of CallsReturn and CloseEnds.
CHECK_DEADLOCK FALSE
INVARIANTS
    StoreOutlivesServer
    DeadIsClosed
PROPERTIES
    CallsReturn
    CloseEnds
