SPECIFICATION Spec
CONSTANTS
    Convs <- TwoClients
    Servers = {}
    Permanent = {}
    Address <- TwoAddresses
    Endpoint <- TwoEndpoints
    Senders = {"core", "cron"}
    Discoverers = {"d1"}
    QueueTtl = 1
    InCap = 2
    None = None
    MaxDowns = 1
    MaxSends = 0
    MaxBundles = 0
    MaxRegisters = 2
INVARIANT RunningIsStored
CHECK_DEADLOCK FALSE
