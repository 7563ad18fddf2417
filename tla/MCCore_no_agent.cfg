SPECIFICATION Spec
CONSTANTS
    Bundles = {"a", "rep"}
    Attr <- SelfAttr
    Tuples = {"t1", "t2"}
    MaxSeq = 0
    Peers = {"p"}
    Self = "self"
    Elsewhere = {"far"}
    None = None
    Inbound = {"a"}
    Outbound = {}
    CronJobs = {}
    Leaving = {"p"}
    AgentEids = {}
    Mortal = {}
    OldTuples = {}
    InspectAll = FALSE
    MaxReceptions = 1
    MaxCrashes = 0
PROPERTIES DeliveredReportIsTrue
CHECK_DEADLOCK FALSE
