SPECIFICATION Spec
CONSTANTS
    NumRefs = 2
    Tags <- MCTags
    DirOf <- MCDirOf
    Commit = Commit
    Tag = Tag
    Outer = Outer
    Oids <- MCOids
    Target <- MCTarget
    None = None
    Bad = Bad
    Deleted = Deleted
    Backends <- MCBackends
    Contents <- MCContents
    PackedOids <- MCPacked
    Traits <- MCTraits
    MaxRefDepth = 5
    MaxGit = 0
    GitPrunesDirs = FALSE
    MaxPeelDepth = 1
    PrefixLists <- MCPrefixLists
    MaxPayload = 6
INVARIANTS ListExact PeelsTrue VersionsAgree
