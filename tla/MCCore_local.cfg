SPECIFICATION Spec
CONSTANTS
    Bundles = {"a", "hop", "odd", "rep"}
    Attr <- LocalAttr
    Tuples = {"t1", "t2", "t3"}
    MaxSeq = 1
    Peers = {"p"}
    Self = "self"
    Elsewhere = {"far"}
    None = None
    Inbound = {"a", "hop", "odd"}
    Outbound = {}
    CronJobs = {}
    Leaving = {}
    AgentEids = {"self"}
    Mortal = {"a"}
    OldTuples = {"t2"}
    InspectAll = FALSE
    MaxReceptions = 1
    MaxCrashes = 0
INVARIANTS Custody
CHECK_DEADLOCK FALSE
