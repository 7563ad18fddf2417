SPECIFICATION Spec
CONSTANTS
    Checksum = TRUE
    None = None
    MaxBlocks = 3
    Setups <- AllSetups
INVARIANTS TypeOK BuiltStaysValid FragmentsAreFaithful LoadedIsSent CompleteIffAllStored StoredIsReadable
PROPERTY ImplementsKeyedStore
CHECK_DEADLOCK FALSE
