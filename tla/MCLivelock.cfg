SPECIFICATION FairSpec
CONSTANTS
    Blocks = 3
    WindowSize = 1
    MaxWord = 63
    ByteSwap <- SwapDigits
    Spill = 0
    Patience = 1
PROPERTIES
    SenderEnds
\* both programs end
CHECK_DEADLOCK FALSE
