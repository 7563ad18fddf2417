SPECIFICATION Spec
CONSTANTS
    Active = "a"
    Passive = "b"
    Transfers = {"x1"}
    Owner <- Owners
    Size <- FullSizes
    Mru <- Mrus
    MaxId = 1
    ChanCap = 2
    WireCap = 2
    Impatient = {}
    LateCalls = {}
    Closers = {}
    None = None
INVARIANTS SentIsReceived
CHECK_DEADLOCK FALSE
