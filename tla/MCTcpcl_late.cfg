SPECIFICATION Spec
CONSTANTS
    Active = "a"
    Passive = "b"
    Transfers = {"x1"}
    Owner <- Owners
    Size <- ShortSizes
    Mru <- Mrus
    MaxId = 1
    ChanCap = 2
    WireCap = 2
    Impatient = {}
    LateCalls = {"x1"}
    Closers = {"b"}
    None = None
INVARIANTS NoPanic
CHECK_DEADLOCK FALSE
