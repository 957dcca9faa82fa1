SPECIFICATION FairSpec
CONSTANTS
    Names = {a, b}
    a = a
    b = b
    NoName = NoName
    Junk = Junk
    DirLength = 2
    FatSize = 5
    PerFat = 5
    BlockSize = 2
    MaxSize = 5
    Times = {0}
    Tags = {1}
    VcbEntry <- VcbWords
    Environment = {"rename", "rewrite", "exhaust"}
    Sizes = {1, 3}
    Offsets = {0}
INVARIANTS
    ChainsApart
    ChainsEnd
PROPERTIES
    OthersKeepTheirData
    CallsReturn
\* without room or without names that can be asked for nothing happens
CHECK_DEADLOCK FALSE
