SPECIFICATION StoreSpec
CONSTANTS
    NumRefs = 2
    Tags <- SecondIsTag
    DirOf <- MCDirOf
    Commit = Commit
    Tag = Tag
    Oids <- MCOids
    Target <- MCTarget
    None = None
    Bad = Bad
    Deleted = Deleted
    Backends <- FilesOnly
    Contents <- AnyContent
    PackedOids <- AnyPacked
    Traits <- AllTraits
    MaxRefDepth = 5
    MaxGit = 1
    GitPrunesDirs = TRUE
INVARIANT NotHalfListed
