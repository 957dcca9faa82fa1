SPECIFICATION Spec
CONSTANTS
    Keys = {0, 3, 4, 7}
    Strings = {short, long}
    ElementSized = {long}
    NoString = NoString
    Elements = {1, 2, 3, 4}
    NULL = NULL
    Wild = Wild
    Ints = {0, 1, 5}
    MaxInts = 5
    Names = {n1, n2, n3}
    Ids = {1, 2, 3}
    Salaries = {0, 7}
    Slots = 3
    Width = 4
    Other = Other
    TwoAtOnce = FALSE
    Arguments <- MCArguments
INVARIANTS
    Linked
    CrashesOnlyOnReuse
    NoneTwice
    NameReadsBack
PROPERTIES
    ImplementsMap
    StaysSorted
    ImplementsDirectory
\* a program ends, or has room for no more
CHECK_DEADLOCK FALSE
