SPECIFICATION Spec
CONSTANTS
    Blocks = 5
    WindowSize = 2
    MaxWord = 63
    ByteSwap <- SwapDigits
    Spill = 0
    Patience = 0
INVARIANTS
    TypeOK
    OutputIsPrefix
    AckedIsWritten
    SuccessMeansDelivered
    IgnoredIsHeld
    TransferInv
PROPERTIES
    KeptUntilWritten
    ImplementsStream
\* both programs end
CHECK_DEADLOCK FALSE
