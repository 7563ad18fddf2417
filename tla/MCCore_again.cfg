SPECIFICATION Spec
CONSTANTS
    Bundles = {"a", "rep"}
    Attr <- RelayAttr
    Tuples = {"t1", "t2"}
    MaxSeq = 0
    Peers = {"p", "q"}
    Self = "self"
    Elsewhere = {"far"}
    None = None
    Inbound = {"a"}
    Outbound = {}
    CronJobs = {}
    Leaving = {"p", "q"}
    AgentEids = {}
    Mortal = {}
    OldTuples = {}
    InspectAll = FALSE
    MaxReceptions = 2
    MaxCrashes = 0
PROPERTIES NoRedundantForward
CHECK_DEADLOCK FALSE
