SPECIFICATION Spec
CONSTANTS
    Active = "a"
    Passive = "b"
    Transfers = {"x1", "y1"}
    Owner <- Owners
    Size <- LongSizes
    Mru <- Mrus
    MaxId = 1
    ChanCap = 1
    WireCap = 1
    Impatient = {}
    LateCalls = {}
    Closers = {}
    None = None
INVARIANTS StallIsNoticed
CHECK_DEADLOCK FALSE
