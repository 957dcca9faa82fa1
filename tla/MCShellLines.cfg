SPECIFICATION FairSpec
CONSTANTS
    a = a
    f = f
    Words = {a, f}
    Lines <- MCLines
    Pids = {p1, p2}
    NoPid = NoPid
    Junk = Junk
INVARIANTS
    TypeOK
    RunsAsWritten
    RefusesTheRest
    ForegroundWaits
    ShellInv
PROPERTIES
    NothingAfterBackground
    LineEnds
\* the shell exits or crashes
CHECK_DEADLOCK FALSE
