CONSTANTS
    t1 = t1
    t2 = t2
    c1 = c1
    c2 = c2
    Tasks <- MCTasks
    Conns <- MCConns
    MinSize = 1
    MaxSize = 2
    Closers = {}
    MaxCalls = 2
    Forever = Forever
    NoTask = NoTask
    NoConn = NoConn
    Cancellable = {}
    ExplicitEnd = FALSE
    MaxTxLen = 3
    ServerErrors = {"query", "stmt", "COMMIT", "ROLLBACK"}
    MaxDrops = 0
    KeepsTx = {t1}
SPECIFICATION ClientFairSpec
CHECK_DEADLOCK FALSE
PROPERTY CallsReturn
