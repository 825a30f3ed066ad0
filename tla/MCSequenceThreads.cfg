SPECIFICATION SpecT

CONSTANTS
    app     = app
    handler = handler
    Threads   <- MCThreads
    Step      <- MCStep
    Threshold <- MCThreshold
    MaxJump   <- MCMaxJump
    IvMissing <- MCIvMissing
    MaxPdus   <- MCMaxPdus
    MaxSeq    <- MCMaxSeq
    MaxIv     <- MCMaxIv

INVARIANT PduNumbersDiffer
