SPECIFICATION ReadersSpec
CONSTANTS
    TableKeys <- MCKeys
    Probes <- MCProbes
    BlockSizes = {0, 2, 3}
    FooterLen = 2
    Intervals = {1, 2}
    MaxDepth = 3
    MaxOid = 5
    Span = 2
    MaxObjects = 3
    Offsets = {1, 4, 6}
    Direct = 4
    MaxOffset = 63
    PackEnd = 8
    FieldValues = {0, 1, 2, 3, 4, 5, 6, 7, 11}
    WordValues = {0, 1, 18, 30, 63, 64, 127}
    Group = 3
    FirstGroup = 2
    Width = 7
INVARIANTS
    TableExact
    LookupExact
    ReadsInside
    VarintExact
