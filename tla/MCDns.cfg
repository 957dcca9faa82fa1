SPECIFICATION FairSpec
CONSTANTS
    Clients = {c1, c2}
    Ports = {p1, p2}
    NoPort = NoPort
    NoName = NoName
    InFlight = 1
    StrayNames <- MCStrayNames
    OtherAnswers <- MCOtherAnswers
    Stranger = Stranger
    Names <- MCNames
    Zone <- MCZone
    Environment = {"stray"}
INVARIANTS
    WireAgrees
    OwnAnswerIsPrinted
PROPERTIES
    ImplementsLookup
    EveryClientEnds
\* every client ends
CHECK_DEADLOCK FALSE
