SPECIFICATION MCSpec
CONSTANTS
    Var = {"context"}
    Name = {"llm_query", "rlm_batch"}
    RequestBound = 3
    ChildBound = 2
    Main = m
    Others = {w}
    ExitChildren = 3
    RestartBound = 2
    Root = r0
    Siblings = {c1, c2}
    PoolWorkers = 1
INVARIANTS
    MCTypeOK
    KnownIsBound
    HostCallsReachGuest
    GuestHearsOnlyItsReply
    NothingOutlives
    ExitPathMissesNone
    ConstructorsKeepTheirWord
    FinalVarIsOwn
PROPERTIES
    ExecuteReturns
    FrameComesToAnEnd
CHECK_DEADLOCK FALSE
