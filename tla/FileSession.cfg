SPECIFICATION Spec
CONSTANTS
    Versions = {"v0", "v2"}
    MaxLines = 2
    MaxCalls = 2
    MaxArgs = 2
    Disciplined = TRUE
    AsyncClose = FALSE
INVARIANTS
    TypeOK
    RefsComplete
    StreamDrained
    CloseReportsFaultsOnly
PROPERTIES
    CauseReported
    KeepsPromise
