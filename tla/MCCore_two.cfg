SPECIFICATION FairSpec
CONSTANTS
    Bundles = {"a", "rep"}
    Attr <- DirectAttr
    Tuples = {"t1", "t2"}
    MaxSeq = 0
    Peers = {"p", "q"}
    Self = "self"
    Elsewhere = {"far"}
    None = None
    Inbound = {"a"}
    Outbound = {}
    CronJobs = {"cron"}
    Leaving = {}
    AgentEids = {}
    Mortal = {}
    OldTuples = {}
    InspectAll = FALSE
    MaxReceptions = 1
    MaxCrashes = 0
PROPERTIES EventuallyDelivered
CHECK_DEADLOCK FALSE
