SPECIFICATION Spec
CONSTANTS
    Convs <- AllConvs
    Servers = {"s1"}
    Permanent = {"c1"}
    Address <- TheAddresses
    Endpoint <- TheEndpoints
    Senders = {"core", "cron"}
    Discoverers = {"d1"}
    QueueTtl = 1
    InCap = 2
    None = None
    MaxDowns = 1
    MaxSends = 1
    MaxBundles = 1
    MaxRegisters = 2
INVARIANTS TypeOK RunningIsSupervised RunningIsAnnounced FailedIsRestarted
CHECK_DEADLOCK FALSE
