SPECIFICATION Spec
CONSTANTS
    Model = Model
    Misc = Misc
    Sectors <- MCSectors
    Mapped <- MCMapped
    Slots = 2
    Values <- MCValues
    MaxStores = 6
INVARIANT TypeOK
PROPERTY
    RetrievedIsLatest
CHECK_DEADLOCK FALSE
