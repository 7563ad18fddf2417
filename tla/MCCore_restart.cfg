SPECIFICATION FairSpec
CONSTANTS
    Bundles = {"a", "rep"}
    Attr <- DirectAttr
    Tuples = {"t1", "t2"}
    MaxSeq = 0
    Peers = {"p"}
    Self = "self"
    Elsewhere = {"far"}
    None = None
    Inbound = {"a"}
    Outbound = {}
    CronJobs = {"cron"}
    Leaving = {}
    AgentEids = {}
    Mortal = {}
    OldTuples = {}
    InspectAll = FALSE
    MaxReceptions = 2
    MaxCrashes = 1
INVARIANTS TypeOK
PROPERTIES PendingIsDelivered
CHECK_DEADLOCK FALSE
