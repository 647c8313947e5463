CONSTANTS
    t1 = t1
    t2 = t2
    t3 = t3
    c1 = c1
    c2 = c2
    Tasks <- MCTasks
    Conns <- MCConns
    MinSize = 1
    MaxSize = 2
    Closers = {t1}
    Cancellable = {t1}
    MaxCalls = 2
    Forever = Forever
    NoTask = NoTask
    NoConn = NoConn

SPECIFICATION Spec
INVARIANT TypeOK
INVARIANT NoDoubleCheckout
INVARIANT CapacityBound
INVARIANT NoLostWakeup
INVARIANT LockHeldByAcquirer
PROPERTY ImplementsPoolAbstract
CHECK_DEADLOCK FALSE
