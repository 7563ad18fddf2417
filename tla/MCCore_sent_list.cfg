SPECIFICATION Spec
CONSTANTS
    Bundles = {"a", "rep"}
    Attr <- RelayAttr
    Tuples = {"t1", "t2"}
    MaxSeq = 0
    Peers = {"p", "q"}
    Self = "self"
    Elsewhere = {"far"}
    None = None
    Inbound = {"a"}
    Outbound = {}
    CronJobs = {}
    Leaving = {"p"}
    AgentEids = {}
    Mortal = {}
    OldTuples = {}
    InspectAll = FALSE
    MaxReceptions = 1
    MaxCrashes = 0
INVARIANTS SentMeansReceived
CHECK_DEADLOCK FALSE
