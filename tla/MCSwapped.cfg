SPECIFICATION Spec
CONSTANTS
    Blocks = 4
    WindowSize = 5
    MaxWord = 63
    ByteSwap <- SwapDigits
    Spill = 0
    Patience = 0
INVARIANTS
    OutputIsPrefix
\* both programs end
CHECK_DEADLOCK FALSE
