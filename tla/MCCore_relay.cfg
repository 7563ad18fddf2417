SPECIFICATION Spec
CONSTANTS
    Bundles = {"a", "rep"}
    Attr <- RelayAttr
    Tuples = {"t1", "t2"}
    MaxSeq = 0
    Peers = {"p"}
    Self = "self"
    Elsewhere = {"far"}
    None = None
    Inbound = {"a"}
    Outbound = {}
    CronJobs = {"cron"}
    Leaving = {"p"}
    AgentEids = {}
    Mortal = {}
    OldTuples = {}
    InspectAll = FALSE
    MaxReceptions = 2
    MaxCrashes = 0
INVARIANTS Custody NoBundleForgotten ForwardedIsRetried
CHECK_DEADLOCK FALSE
