CONSTANTS
    t1 = t1
    t2 = t2
    c1 = c1
    c2 = c2
    Tasks <- MCTasks
    Conns <- MCConns
    MinSize = 1
    MaxSize = 2
    Closers = {t1}
    MaxCalls = 2
    Forever = Forever
    NoTask = NoTask
    NoConn = NoConn
    Cancellable = {t1}
    ExplicitEnd = TRUE
    MaxTxLen = 2
    ServerErrors = {"query", "BEGIN", "stmt", "COMMIT", "ROLLBACK"}
    MaxDrops = 1
    KeepsTx = {t2}

SPECIFICATION ClientSpec
SYMMETRY TaskSymmetry
INVARIANT ClientTypeOK
INVARIANT ConnectionsAccounted
CHECK_DEADLOCK FALSE
