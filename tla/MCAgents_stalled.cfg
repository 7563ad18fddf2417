SPECIFICATION FairSpec
CONSTANTS
    Bundles <- TwoBundles
    To <- TwoTo
    ReportTo <- TwoReportTo
    Network = {"n1", "n2"}
    Built = {}
    Spoken = {}
    Uuids = {}
    RestEid <- TheRestEid
    WsClients = {"w1"}
    WsEid <- TheWsEid
    PingEid = "ping"
    Fetchers = {}
    None = None
    MaxClients = 0
PROPERTY ShutdownIsUnregistered
CHECK_DEADLOCK FALSE
