CONSTANTS
    t1 = t1
    t2 = t2
    c1 = c1
    c2 = c2
    Tasks <- MCTasks
    Conns <- MCConns
    MinSize = 1
    MaxSize = 2
    Closers = {}
    MaxCalls = 2
    Forever = Forever
    NoTask = NoTask
    NoConn = NoConn
    Cancellable = {}
    ExplicitEnd = FALSE
    MaxTxLen = 3
    ServerErrors = {"query", "BEGIN", "stmt", "COMMIT", "ROLLBACK"}
    MaxDrops = 1
    KeepsTx = {}

SPECIFICATION ClientSpec
SYMMETRY TaskSymmetry
INVARIANT ReplyMatchesRequest
INVARIANT TxEndsOnce
CHECK_DEADLOCK FALSE
