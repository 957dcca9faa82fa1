SPECIFICATION Spec
CONSTANTS
    Names = {a, b}
    a = a
    b = b
    NoName = NoName
    Junk = Junk
    DirLength = 2
    FatSize = 4
    PerFat = 4
    BlockSize = 2
    MaxSize = 4
    Times = {0}
    Tags = {1}
    VcbEntry <- VcbWords
    Environment = {"cut", "rewrite"}
    Sizes = {1, 3}
    Offsets = {0}
INVARIANTS
    ChainsApart
\* without room or without names that can be asked for nothing happens
CHECK_DEADLOCK FALSE
