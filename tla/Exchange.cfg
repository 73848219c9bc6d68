\* One request and one response in pieces; both sides may die.
SPECIFICATION ExchangeSpec
CONSTANTS
    LENGTH_HEADER_SIZE = 2
    MAX_MESSAGE_SIZE = 3
    SIZES <- MCSizes
\* A connection ends.
CHECK_DEADLOCK FALSE
INVARIANTS
    CloseHasReason
PROPERTIES
    ImplementsCall
    CallerEnds
    ServerIsFreed
