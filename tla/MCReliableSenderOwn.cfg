SPECIFICATION Spec

CONSTANTS
    n1 = n1
    n2 = n2
    all = all
    status = status
    ack = ack
    NoMessage = NoMessage
    NoOpcode = NoOpcode
    Messages <- MCMessages
    Nodes    <- MCNodes
    SegN     <- MCSegN
    RetryCnt <- MCRetryCnt
    MaxRx    <- MCMaxRx

INVARIANT FailureIsOwn
