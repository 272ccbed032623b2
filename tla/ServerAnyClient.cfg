SPECIFICATION PeerSpec
CONSTANTS
    Versions = {"v0", "v2"}
    MaxLines = 2
    MaxRequests = 2
    MaxPeerArgs = 1
    MaxWire = 3
INVARIANTS
    AnswersFramed
    RefusalIsTold
PROPERTIES
    HangUpEndsServer
