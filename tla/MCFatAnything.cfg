SPECIFICATION Spec
CONSTANTS
    Names = {a, b}
    a = a
    b = b
    NoName = NoName
    Junk = Junk
    DirLength = 1
    FatSize = 3
    PerFat = 3
    BlockSize = 2
    MaxSize = 4
    Times = {0}
    Tags = {1}
    VcbEntry <- VcbWords
    Environment = {"rename", "rewrite", "cut", "exhaust", "full", "stale", "crash"}
    Sizes = {1, 4}
    Offsets = {0}
INVARIANTS
    TypeOK
PROPERTIES
    FirstBlockStays
\* without room or without names that can be asked for nothing happens
CHECK_DEADLOCK FALSE
