SPECIFICATION Spec

CONSTANTS
    Step      <- MCStep
    Threshold <- MCThreshold
    MaxJump   <- MCMaxJump
    IvMissing <- MCIvMissing
    MaxPdus   <- MCMaxPdus
    MaxSeq    <- MCMaxSeq
    MaxIv     <- MCMaxIv

INVARIANT SequenceIncreases
