CONSTANTS
    t1 = t1
    t2 = t2
    t3 = t3
    c1 = c1
    c2 = c2
    Tasks <- MCTasks
    Conns <- MCConns
    MinSize = 1
    MaxSize = 2
    Closers = {}
    Cancellable = {}
    MaxCalls = Forever
    Forever = Forever
    NoTask = NoTask
    NoConn = NoConn

SPECIFICATION FairSpec
PROPERTY AcquireCompletes
