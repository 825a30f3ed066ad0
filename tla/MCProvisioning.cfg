SPECIFICATION FairSpec
CONSTANTS
    d1 = d1
    d2 = d2
    d3 = d3
    d4 = d4
    Devices <- MCDevices
    NoDevice = NoDevice
    Certified <- MCCertified
    OobKey <- MCOobKey
    StaticOob <- MCStaticOob
    AuthValue <- MCAuthValue
    AutoUseNoOOB <- MCAutoUseNoOOB
    BadCert = {}
    Records = 1
    MaxAttempts = 2
CHECK_DEADLOCK FALSE
INVARIANTS
    TypeOK
    KeysAgree
    OutcomeOnce
PROPERTIES
    OutcomeOfThisAttempt
    ProvisionedNodeKept
    AttemptEnds
