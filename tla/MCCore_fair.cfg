SPECIFICATION FairSpec
CONSTANTS
    Bundles = {"a", "bad", "rep"}
    Attr <- BrokenAttr
    Tuples = {"t1", "t2", "t3"}
    MaxSeq = 0
    Peers = {"p"}
    Self = "self"
    Elsewhere = {"far"}
    None = None
    Inbound = {"a", "bad"}
    Outbound = {}
    CronJobs = {"cron"}
    Leaving = {}
    AgentEids = {}
    Mortal = {}
    OldTuples = {}
    InspectAll = FALSE
    MaxReceptions = 1
    MaxCrashes = 0
PROPERTIES EventuallyDelivered
CHECK_DEADLOCK FALSE
