SPECIFICATION Spec
CONSTANTS
    Blocks = 3
    WindowSize = 4
    MaxWord = 63
    ByteSwap <- SwapDigits
    Spill = 1
    Patience = 0
INVARIANTS
    UnackedInWindow
    SenderNeverFails
\* both programs end
CHECK_DEADLOCK FALSE
