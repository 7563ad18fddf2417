SPECIFICATION Spec
CONSTANTS
    Active = "a"
    Passive = "b"
    Transfers = {"x1", "y1"}
    Owner <- Owners
    Size <- ShortSizes
    Mru <- Mrus
    MaxId = 1
    ChanCap = 1
    WireCap = 1
    Impatient = {"x1"}
    LateCalls = {}
    Closers = {"b"}
    None = None
INVARIANTS TypeOK SentIsReceived ShutdownHasReason
CHECK_DEADLOCK FALSE
