SPECIFICATION Spec
CONSTANTS
    Bundles <- AllBundles
    To <- AllTo
    ReportTo <- AllReportTo
    Network = {"n1"}
    Built = {"b1"}
    Spoken = {"s1"}
    Uuids = {"u1", "u2"}
    RestEid <- TheRestEid
    WsClients = {w1, w2}
    WsEid <- TheWsEid
    PingEid = "ping"
    Fetchers = {"f1"}
    None = None
    MaxClients = 1
SYMMETRY Names
INVARIANT NeverSpeaksOnClosed
CHECK_DEADLOCK FALSE
