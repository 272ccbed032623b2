SPECIFICATION StoreSpec
CONSTANTS
    NumRefs = 2
    Tags <- SecondIsTag
    DirOf <- MCDirOf
    Commit = Commit
    Tag = Tag
    Oids <- MCOids
    Target <- MCTarget
    None = None
    Bad = Bad
    Deleted = Deleted
    Backends <- BothBackends
    Contents <- AnyContent
    PackedOids <- AnyPacked
    Traits <- AllTraits
    MaxRefDepth = 1
    MaxGit = 2
    GitPrunesDirs = TRUE
INVARIANTS ListsRepository NoTableLeft PeelHintsTrue HeadMatchesList
PROPERTY OpeningEnds
