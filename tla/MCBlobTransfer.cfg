SPECIFICATION Spec

CONSTANTS
    n1 = n1
    n2 = n2
    Proxy = Proxy
    NoCommand = NoCommand
    Nodes      <- MCNodes
    InitConfig <- MCInitConfig
    BlockNum = 2
    ChunkNum = 2
    RetryCnt = 1
    MaxLoss  = 2
    MaxLate  = 2
    MaxHold  = 1

CHECK_DEADLOCK FALSE

INVARIANTS TypeOK DeliveredToAll StoredInItsBlock BlocksInStep
PROPERTIES CompletedBlocksKept TransferEnds
