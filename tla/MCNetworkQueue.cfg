SPECIFICATION Spec
CONSTANTS
    app = app
    Mesh = Mesh
    Binder = Binder
    Main = Main
    None = None
    p1 = p1
    p2 = p2
    n1 = n1
    Callers <- MCCallers
    Requests <- MCRequests
    Notify = {n1}
    Direct = {p2}
CHECK_DEADLOCK FALSE
INVARIANTS
    TypeOK
    CircularWaitNeedsTimeout
    ReportedTruly
    LeftBehindOnlyByEmptyPoll
