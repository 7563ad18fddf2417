SPECIFICATION Spec
CONSTANTS
    Bundles = {"a", "b", "rep"}
    Attr <- OutAttr
    Tuples = {"t1", "t2"}
    MaxSeq = 1
    Peers = {"p"}
    Self = "self"
    Elsewhere = {"far"}
    None = None
    Inbound = {}
    Outbound = {"a", "b"}
    CronJobs = {}
    Leaving = {}
    AgentEids = {}
    Mortal = {}
    OldTuples = {}
    InspectAll = FALSE
    MaxReceptions = 1
    MaxCrashes = 0
INVARIANTS NoBundleForgotten
CHECK_DEADLOCK FALSE
