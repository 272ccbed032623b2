SPECIFICATION ObjSpec
CONSTANTS
    r1 = r1
    r2 = r2
    r3 = r3
    gone = gone
    tree = tree
    Repos <- MCRepos
    Root = r1
    Paths <- MCPaths
    Common <- MCCommon
    Oids <- MCOids
    TypeOf <- MCTypeOf
    None = None
    Wrong = Wrong
    Disks <- MCDisks
    VerifyCRC = TRUE
    MaxChainDepth = 3
    Callers = {c1, c2}
    MaxFaults = 1
    MaxCalls = 2
INVARIANTS
    OpenExact
    HandlesAccounted
    MissingExact
    AnswersTrue
PROPERTY CallsEnd
