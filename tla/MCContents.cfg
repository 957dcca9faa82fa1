SPECIFICATION UsedSpec
CONSTANTS
    Names = {a, b}
    a = a
    b = b
    NoName = NoName
    Junk = Junk
    DirLength = 2
    FatSize = 6
    PerFat = 6
    BlockSize = 2
    MaxSize = 5
    Times = {0}
    Tags = {1, 2}
    VcbEntry <- VcbWords
    Environment = {}
    PageBlocks = 2
    Sizes = {1, 3}
    Offsets = {0}
INVARIANTS
    ReadsBack
    ListedIsFound
\* without room or without names that can be asked for nothing happens
CHECK_DEADLOCK FALSE
