SPECIFICATION Spec
CONSTANTS
    a = a
    f = f
    Words = {a, f}
    Lines <- FewLines
    Pids = {p1, p2}
    NoPid = NoPid
    Junk = Junk
INVARIANTS
    EveryLineRuns
\* the shell exits or crashes
CHECK_DEADLOCK FALSE
