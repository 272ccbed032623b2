SPECIFICATION DialSpec
CONSTANTS
    Limits <- MCLimits
    DefaultMaxRedirects = 2
    MaxCommands = 2
    MaxStreamCommands = 2
    None = None
INVARIANTS
    NothingLeaks
    RequestsBounded
    ExistsTruthful
PROPERTIES
    FailureExplained
    CancelUnblocks
    DialEnds
