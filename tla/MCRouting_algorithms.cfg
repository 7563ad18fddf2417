SPECIFICATION Spec
CONSTANTS
    Self = "self"
    Peers = {"d", "p", "q"}
    Dest = "d"
    Sensors = {"q"}
    None = None
    Multiplicity = 3
    One = 4
    PInit = 3
    Beta = 2
    Gamma = 3
    Vectors <- PeerVectors
    Reports <- PeerReports
    PurgeTime = 0
    MaxTime = 2
    Dispatchers = {"handler", "cron"}
    Setups <- AllSetups
    MaxForwards = 2
    MaxEvents = 3
INVARIANTS TypeOK CopiesNotCreated LastCopyKept HoldersAreListed ListedAreServed TableIsCurrent SensorsSpared
PROPERTY PredictabilityGrows
CHECK_DEADLOCK FALSE
