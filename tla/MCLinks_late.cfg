SPECIFICATION Spec
CONSTANTS
    Convs <- OneClient
    Servers = {}
    Permanent = {}
    Address <- OneAddress
    Endpoint <- OneEndpoint
    Senders = {"core", "cron"}
    Discoverers = {"d1"}
    QueueTtl = 1
    InCap = 2
    None = None
    MaxDowns = 1
    MaxSends = 1
    MaxBundles = 0
    MaxRegisters = 2
INVARIANT ClosedIsQuiet
CHECK_DEADLOCK FALSE
