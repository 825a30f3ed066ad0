SPECIFICATION Spec

CONSTANTS
    n1 = n1
    n2 = n2
    NoSource = NoSource
    Sources  <- MCSources
    SegN     <- MCSegN
    SeqZeros <- MCSeqZeros
    MaxSeq   <- MCMaxSeq
    MaxAir   <- MCMaxAir

INVARIANTS TypeOK AckTruthful FullAckMeansDecrypted BufferHoldsOneMessage HeldBufferIsTimed OutcomeAgrees
PROPERTIES MovedOnNotRedelivered BufferIsFreed
