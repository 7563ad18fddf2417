SPECIFICATION Spec
CONSTANTS
    Bundles = {"a", "b", "ack", "rep"}
    Attr <- MixAttr
    Tuples = {"t1", "t2", "t3"}
    MaxSeq = 1
    Peers = {"p"}
    Self = "self"
    Elsewhere = {"far"}
    None = None
    Inbound = {"ack"}
    Outbound = {"a", "b"}
    CronJobs = {}
    Leaving = {}
    AgentEids = {}
    Mortal = {}
    OldTuples = {}
    InspectAll = TRUE
    MaxReceptions = 1
    MaxCrashes = 0
INVARIANTS Custody NoBundleForgotten
CHECK_DEADLOCK FALSE
