SPECIFICATION FairSpec
CONSTANTS
    Blocks = 2
    WindowSize = 7
    MaxWord = 63
    ByteSwap <- SwapToTail
    Spill = 1
    Patience = 1
INVARIANTS
    TransferInv
    UnackedInWindow
    SenderNeverFails
PROPERTIES
    ImplementsStream
    SenderEnds
    ReceiverEnds
\* both programs end
CHECK_DEADLOCK FALSE
