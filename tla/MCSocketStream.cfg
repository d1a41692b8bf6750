\* Buffers of twelve bytes, three of them reserved: two small codes fill one.
\* Three codes and one new connection.
SPECIFICATION Spec
CONSTANTS
    Size = 12
    Blank = blank
    Reserve = 3
    SendLimits <- MCSendLimits
    DirectLength = 6
    MaxSends = 3
    MaxConnects = 1
INVARIANTS
    TypeOK
    WireAccounted
    FramesIntact
    NothingLeftBehind
CHECK_DEADLOCK FALSE
