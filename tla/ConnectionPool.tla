--------------------------- MODULE ConnectionPool ---------------------------
(***************************************************************************)
(* The ConnectionPool of src/clients/python/driftdb/client.py (lines       *)
(* 93-174), as seen by asyncio tasks that share one event loop.  A step of *)
(* this module is the code a task runs between two suspension points, so   *)
(* the interleavings are exactly the ones the event loop can produce.      *)
(*                                                                         *)
(* The pool's own state is _size, the asyncio.Queue _available (its items  *)
(* and its FIFO of pending getter futures) and the asyncio.Lock _lock (its *)
(* owner and its FIFO of waiters).  A getter future that put() has         *)
(* resolved but whose task has not yet resumed is "woken": asyncio.Queue   *)
(* pops it from _getters on wake-up, and the task re-checks emptiness when *)
(* it resumes, re-queueing itself at the back if another task took the     *)
(* item first.                                                             *)
(*                                                                         *)
(* Per task, phase records where the task is inside the pool's methods:   *)
(*   "idle"    not inside acquire/close                                    *)
(*   "poll"    awaiting wait_for(_available.get(), timeout=1.0)  (l.142)   *)
(*   "lock"    awaiting `async with self._lock`                   (l.149)  *)
(*   "connect" holding _lock, awaiting conn.connect()             (l.134)  *)
(*   "wait"    awaiting the unbounded _available.get()            (l.153)  *)
(*   "hold"    acquire returned held[t]                                    *)
(*   "failed"  acquire raised (connect failed or timed out)               *)
(*   "close"   inside the drain loop of close()                   (l.161)  *)
(***************************************************************************)
EXTENDS Naturals, Sequences, SequencesExt, FiniteSets

CONSTANTS
    Tasks,      \* the asyncio tasks that use the pool
    Conns,      \* identities of the Connection objects the pool may create
    MinSize,    \* ConnectionPool.min_size
    MaxSize,    \* ConnectionPool.max_size
    Closers,    \* the tasks whose program calls close() on the pool
    Cancellable,\* the tasks whose callers may cancel them (task.cancel())
    MaxCalls,   \* acquire() calls per task, or Forever for no bound
    Forever,
    NoTask,     \* "nobody" (lock free)
    NoConn      \* "no connection"

ASSUME /\ MinSize \in Nat /\ MaxSize \in Nat
       /\ Cardinality(Conns) >= MinSize /\ Cardinality(Conns) >= MaxSize
       /\ Closers \subseteq Tasks /\ Cancellable \subseteq Tasks
       /\ NoTask \notin Tasks /\ NoConn \notin Conns

VARIABLES
    pool,       \* "initializing" | "ready" | "failed": Client.connect's progress
    size,       \* ConnectionPool._size
    available,  \* items of the _available queue, oldest first
    getters,    \* tasks whose getter future is pending in _available._getters
    woken,      \* tasks whose getter future is resolved but not yet resumed
    lock,       \* the task holding _lock, or NoTask
    lockQ,      \* tasks waiting for _lock, FIFO
    linkState,  \* Connection state: "unconnected" | "connected" | "closed"
    phase,      \* where each task is inside the pool (see above)
    held        \* the connection acquire returned to each task

poolVars == <<pool, size, available, getters, woken, lock, lockQ,
              linkState, phase, held>>

Phases == {"idle", "poll", "lock", "connect", "wait", "hold", "failed", "close"}

-----------------------------------------------------------------------------
(* Helpers for the asyncio primitives the pool is built on.               *)

\* A fresh Connection object; it only gets an identity once connect()
\* succeeds, because a failed one is dropped (l.133-135).
NewConn == CHOOSE c \in Conns : linkState[c] = "unconnected"

\* Connection.connect (l.26-37): the stream opens and _connected becomes
\* True; a failure raises and leaves the object unconnected.
Connect(c) == linkState' = [linkState EXCEPT ![c] = "connected"]

\* _create_connection (l.131-136): connect, then _size += 1.
CreateConnection(c) ==
    /\ Connect(c)
    /\ size' = size + 1

\* Queue.put_nowait: append the item and wake the first pending getter.
PutAndWake(c) ==
    /\ available' = Append(available, c)
    /\ IF getters = <<>>
          THEN UNCHANGED <<getters, woken>>
          ELSE /\ woken' = woken \cup {Head(getters)}
               /\ getters' = Tail(getters)

\* Mutant: get() reads the head item without removing it.
TakeOrWaitPeek(t, ph, gs) ==
    IF available # <<>>
       THEN /\ held' = [held EXCEPT ![t] = Head(available)]
            /\ UNCHANGED available
            /\ phase' = [phase EXCEPT ![t] = "hold"]
            /\ getters' = gs
       ELSE /\ getters' = Append(gs, t)
            /\ phase' = [phase EXCEPT ![t] = ph]
            /\ UNCHANGED <<held, available>>

\* Queue.get() called by task t in phase ph, with gs the getters queue at
\* that moment: returns at once when the queue is non-empty, otherwise t's
\* new getter joins the back of _getters.
TakeOrWait(t, ph, gs) ==
    IF available # <<>>
       THEN /\ held' = [held EXCEPT ![t] = Head(available)]
            /\ available' = Tail(available)
            /\ phase' = [phase EXCEPT ![t] = "hold"]
            /\ getters' = gs
       ELSE /\ getters' = Append(gs, t)
            /\ phase' = [phase EXCEPT ![t] = ph]
            /\ UNCHANGED <<held, available>>

\* Leaving `async with self._lock`: the first waiter becomes the owner.
ReleaseLock ==
    IF lockQ = <<>>
       THEN lock' = NoTask /\ UNCHANGED lockQ
       ELSE lock' = Head(lockQ) /\ lockQ' = Tail(lockQ)

\* Task t owns _lock (l.149-153): create a connection if under max_size,
\* otherwise leave the lock and fall back to the unbounded get().
CheckCapacity(t, gs) ==
    IF size < MaxSize
       THEN /\ lock' = t
            /\ phase' = [phase EXCEPT ![t] = "connect"]
            /\ getters' = gs
            /\ UNCHANGED <<lockQ, available, held>>
       ELSE /\ ReleaseLock
            /\ TakeOrWait(t, "wait", gs)

-----------------------------------------------------------------------------
(* ConnectionPool.__init__ followed by Client.connect's initialize().     *)
Init ==
    /\ pool = IF MinSize = 0 THEN "ready" ELSE "initializing"
    /\ size = 0
    /\ available = <<>>
    /\ getters = <<>>
    /\ woken = {}
    /\ lock = NoTask
    /\ lockQ = <<>>
    /\ linkState = [c \in Conns |-> "unconnected"]
    /\ phase = [t \in Tasks |-> "idle"]
    /\ held = [t \in Tasks |-> NoConn]

\* One iteration of initialize(): _create_connection() then put().  Nothing
\* else runs while Client.connect awaits it.  A failed connect aborts
\* Client.connect, and the program has no client.
Initialize ==
    /\ pool = "initializing"
    /\ \/ LET c == NewConn IN
          /\ CreateConnection(c)
          /\ PutAndWake(c)
          /\ pool' = IF size + 1 = MinSize THEN "ready" ELSE "initializing"
       \/ /\ pool' = "failed"
          /\ UNCHANGED <<size, available, getters, woken, linkState>>
    /\ UNCHANGED <<lock, lockQ, phase, held>>

\* acquire() entry: wait_for(_available.get(), 1.0) either returns an idle
\* connection at once or suspends on a getter.
Acquire(t) ==
    /\ pool = "ready"
    /\ phase[t] = "idle"
    /\ TakeOrWait(t, "poll", getters)
    /\ UNCHANGED <<pool, size, woken, lock, lockQ, linkState>>

\* A woken getter's task resumes in Queue.get: it takes the head item, or,
\* when another task took it first, queues a new getter at the back.
Resume(t) ==
    /\ t \in woken
    /\ woken' = woken \ {t}
    /\ TakeOrWait(t, phase[t], getters)
    /\ UNCHANGED <<pool, size, lock, lockQ, linkState>>

\* Mutant: the cancelled getter does not pass its wake-up on.
PollTimeoutNoPass(t) ==
    /\ phase[t] = "poll"
    /\ Contains(getters, t) \/ t \in woken
    /\ woken' = woken \ {t}
    /\ IF lock = NoTask /\ lockQ = <<>>
          THEN CheckCapacity(t, Remove(getters, t))
          ELSE /\ lockQ' = Append(lockQ, t)
               /\ phase' = [phase EXCEPT ![t] = "lock"]
               /\ getters' = Remove(getters, t)
               /\ UNCHANGED <<lock, available, held>>
    /\ UNCHANGED <<pool, size, linkState>>

\* Mutant: the capacity check and the create are not guarded by _lock.
PollTimeoutNoLock(t) ==
    /\ phase[t] = "poll"
    /\ Contains(getters, t) \/ t \in woken
    /\ LET gs   == Remove(getters, t)
           pass == t \in woken /\ available # <<>> /\ gs # <<>>
           gs2  == IF pass THEN Tail(gs) ELSE gs
       IN  /\ woken' = (woken \ {t}) \cup (IF pass THEN {Head(gs)} ELSE {})
           /\ IF size < MaxSize
                 THEN /\ phase' = [phase EXCEPT ![t] = "connect"]
                      /\ getters' = gs2
                      /\ UNCHANGED <<available, held>>
                 ELSE TakeOrWait(t, "wait", gs2)
    /\ UNCHANGED <<pool, size, linkState, lock, lockQ>>

\* The 1.0s timeout of the first get fires (l.147).  Queue.get's cancel
\* path drops the getter and, when it had already been woken and items
\* remain, wakes the next getter.  Then `async with self._lock` (l.149):
\* an uncontended lock is taken without suspending.
PollTimeout(t) ==
    /\ phase[t] = "poll"
    /\ Contains(getters, t) \/ t \in woken
    /\ LET gs   == Remove(getters, t)
           pass == t \in woken /\ available # <<>> /\ gs # <<>>
           gs2  == IF pass THEN Tail(gs) ELSE gs
       IN  /\ woken' = (woken \ {t}) \cup (IF pass THEN {Head(gs)} ELSE {})
           /\ IF lock = NoTask /\ lockQ = <<>>
                 THEN CheckCapacity(t, gs2)
                 ELSE /\ lockQ' = Append(lockQ, t)
                      /\ phase' = [phase EXCEPT ![t] = "lock"]
                      /\ getters' = gs2
                      /\ UNCHANGED <<lock, available, held>>
    /\ UNCHANGED <<pool, size, linkState>>

\* A task queued on _lock runs once the lock was handed to it.
LockAcquired(t) ==
    /\ phase[t] = "lock"
    /\ lock = t
    /\ CheckCapacity(t, getters)
    /\ UNCHANGED <<pool, size, woken, linkState>>

\* _create_connection under _lock: conn.connect() returns (l.134-136) and
\* acquire returns the new connection, or it raises ConnectionError or
\* TimeoutError out of acquire.  Either way `async with` releases _lock.
ConnectDone(t) ==
    /\ phase[t] = "connect"
    /\ ReleaseLock
    /\ \/ LET c == NewConn IN
          /\ CreateConnection(c)
          /\ held' = [held EXCEPT ![t] = c]
          /\ phase' = [phase EXCEPT ![t] = "hold"]
       \/ /\ phase' = [phase EXCEPT ![t] = "failed"]
          /\ UNCHANGED <<size, linkState, held>>
    /\ UNCHANGED <<pool, available, getters, woken>>

\* Mutant: release() is reachable without a held connection.
releaseUnguarded(t) ==
    /\ PutAndWake(held[t])
    /\ held' = [held EXCEPT ![t] = NoConn]
    /\ phase' = [phase EXCEPT ![t] = "idle"]
    /\ UNCHANGED <<pool, size, lock, lockQ, linkState>>

\* release(conn): put the connection back, unconditionally (l.155-157).
release(t) ==
    /\ phase[t] = "hold"
    /\ PutAndWake(held[t])
    /\ held' = [held EXCEPT ![t] = NoConn]
    /\ phase' = [phase EXCEPT ![t] = "idle"]
    /\ UNCHANGED <<pool, size, lock, lockQ, linkState>>

\* The caller of a failed acquire() gets the exception.
AcquireRaised(t) ==
    /\ phase[t] = "failed"
    /\ phase' = [phase EXCEPT ![t] = "idle"]
    /\ UNCHANGED <<pool, size, available, getters, woken, lock, lockQ,
                   linkState, held>>

\* close() (l.159-166): while the queue is non-empty take an idle
\* connection and await its close(); other tasks run during that await.
\* Connections that are checked out are not touched, and _size is not
\* decremented.
CloseBegin(t) ==
    /\ pool = "ready"
    /\ t \in Closers
    /\ phase[t] = "idle"
    /\ phase' = [phase EXCEPT ![t] = "close"]
    /\ UNCHANGED <<pool, size, available, getters, woken, lock, lockQ,
                   linkState, held>>

\* Mutant: close() closes the connections it sees in the queue but leaves
\* them there (iterating the queue instead of draining it).
CloseStepKeep(t) ==
    /\ phase[t] = "close"
    /\ \E c \in ToSet(available) \ {c2 \in Conns : linkState[c2] = "closed"} :
          linkState' = [linkState EXCEPT ![c] = "closed"]
    /\ UNCHANGED <<pool, size, available, getters, woken, lock, lockQ, phase, held>>

CloseStep(t) ==
    /\ phase[t] = "close"
    /\ available # <<>>
    /\ linkState' = [linkState EXCEPT ![Head(available)] = "closed"]
    /\ available' = Tail(available)
    /\ UNCHANGED <<pool, size, getters, woken, lock, lockQ, phase, held>>

CloseDone(t) ==
    /\ phase[t] = "close"
    /\ available = <<>>
    /\ phase' = [phase EXCEPT ![t] = "idle"]
    /\ UNCHANGED <<pool, size, available, getters, woken, lock, lockQ,
                   linkState, held>>

\* Mutant: the lock is taken with acquire()/release() and no try/finally,
\* so a task cancelled inside it never releases it.
CancelAcquireKeepLock(t) ==
    /\ t \in Cancellable
    /\ phase[t] \in {"poll", "wait", "lock", "connect"}
    /\ LET gs   == Remove(getters, t)
           pass == t \in woken /\ available # <<>> /\ gs # <<>>
       IN  /\ woken' = (woken \ {t}) \cup (IF pass THEN {Head(gs)} ELSE {})
           /\ getters' = IF pass THEN Tail(gs) ELSE gs
    /\ lockQ' = Remove(lockQ, t)
    /\ UNCHANGED lock
    /\ phase' = [phase EXCEPT ![t] = "idle"]
    /\ UNCHANGED <<pool, size, available, linkState, held>>

\* The caller cancels a task suspended inside acquire() (l.142-153).
\*  - In a get() (poll or wait): Queue.get drops the getter and, if it had
\*    already been woken and items remain, wakes the next getter.
\*  - Waiting for _lock: Lock.acquire drops the waiter and, if the lock had
\*    already been handed to it, hands it on.
\*  - In connect() under _lock: `async with` releases the lock; _size was
\*    not incremented and the half-made Connection is dropped.
CancelAcquire(t) ==
    /\ t \in Cancellable
    /\ phase[t] \in {"poll", "wait", "lock", "connect"}
    /\ LET gs   == Remove(getters, t)
           pass == t \in woken /\ available # <<>> /\ gs # <<>>
       IN  /\ woken' = (woken \ {t}) \cup (IF pass THEN {Head(gs)} ELSE {})
           /\ getters' = IF pass THEN Tail(gs) ELSE gs
    /\ LET q == Remove(lockQ, t)
       IN  IF lock = t
              THEN IF q = <<>> THEN lock' = NoTask /\ lockQ' = q
                   ELSE lock' = Head(q) /\ lockQ' = Tail(q)
              ELSE lock' = lock /\ lockQ' = q
    /\ phase' = [phase EXCEPT ![t] = "idle"]
    /\ UNCHANGED <<pool, size, available, linkState, held>>

\* Client.connect raised: the program has no client and nothing happens.
StartupFailed ==
    /\ pool = "failed"
    /\ UNCHANGED poolVars

-----------------------------------------------------------------------------
(* The pool alone, used as `conn = await pool.acquire() ... release(conn)` *)
(* by each task; calls counts each task's acquire() calls.                 *)
VARIABLE calls
vars == <<poolVars, calls>>

MayCall(t) == IF MaxCalls = Forever THEN TRUE ELSE calls[t] < MaxCalls

CallAcquire(t) ==
    /\ MayCall(t)
    /\ Acquire(t)
    /\ calls' = IF MaxCalls = Forever THEN calls
                ELSE [calls EXCEPT ![t] = @ + 1]

PoolStep(t) ==
    \/ Resume(t) \/ PollTimeout(t) \/ LockAcquired(t) \/ ConnectDone(t)
    \/ release(t) \/ AcquireRaised(t)
    \/ CloseBegin(t) \/ CloseStep(t) \/ CloseDone(t)

PoolInit == Init /\ calls = [t \in Tasks |-> 0]

\* When every task has made its last call and the pool is quiet, the
\* program is over.
Finished ==
    /\ pool = "ready"
    /\ \A t \in Tasks : phase[t] = "idle" /\ ~MayCall(t)
    /\ UNCHANGED vars

Next ==
    \/ (Initialize \/ StartupFailed) /\ UNCHANGED calls
    \/ Finished
    \/ \E t \in Tasks :
          \/ CallAcquire(t)
          \/ (PoolStep(t) \/ CancelAcquire(t)) /\ UNCHANGED calls

Spec == PoolInit /\ [][Next]_vars

\* The event loop eventually runs every ready task and a pending wait_for
\* timer eventually fires; a holder eventually releases, as the pool's
\* borrowers do in a finally block.  Nothing forces a task to call
\* acquire() (CallAcquire has no fairness).
Fairness ==
    /\ WF_vars(Initialize /\ UNCHANGED calls)
    /\ \A t \in Tasks : WF_vars(PoolStep(t) /\ UNCHANGED calls)

FairSpec == Spec /\ Fairness

-----------------------------------------------------------------------------
(* Properties.                                                            *)

TypeOK ==
    /\ pool \in {"initializing", "ready", "failed"}
    /\ size \in 0..Cardinality(Conns)
    /\ available \in Seq(Conns)
    /\ getters \in Seq(Tasks)
    /\ woken \subseteq Tasks
    /\ lock \in Tasks \cup {NoTask}
    /\ lockQ \in Seq(Tasks)
    /\ linkState \in [Conns -> {"unconnected", "connected", "closed"}]
    /\ phase \in [Tasks -> Phases]
    /\ held \in [Tasks -> Conns \cup {NoConn}]

Live == {c \in Conns : linkState[c] = "connected"}
Connecting == {t \in Tasks : phase[t] = "connect"}

\* No double checkout (spec 8): a connection is handed to at most one task
\* at a time and is never idle in the queue while a task holds it, however
\* the poll timeout, the woken-getter hand-off and close() interleave.
NoDoubleCheckout ==
    /\ \A t, u \in Tasks : t # u /\ held[t] # NoConn => held[t] # held[u]
    /\ \A t \in Tasks : ~Contains(available, held[t])
    /\ \A i, j \in DOMAIN available : i # j => available[i] # available[j]

\* Capacity (spec 3, 4.2): the connections opened so far plus those being
\* opened under _lock never exceed max_size, though several tasks can time
\* out of their poll and race to create one.
CapacityBound ==
    Cardinality({c \in Conns : linkState[c] # "unconnected"})
        + Cardinality(Connecting) <= MaxSize

\* No lost wake-up: while a getter is pending in the idle queue, every idle
\* connection has a woken task on its way to take it.  A 1.0s poll timeout
\* that fires after release() woke that very getter must pass the wake-up
\* on, or an idle connection sits in the queue while acquirers wait.
NoLostWakeup ==
    getters # <<>> => Len(available) <= Cardinality(woken)

\* _lock is owned only by a task inside acquire()'s `async with` (queued
\* for it and already handed it, or connecting under it): no cancellation
\* or failed connect leaves it owned by a task that has left acquire(),
\* which would block every later creator.
LockHeldByAcquirer ==
    lock # NoTask => phase[lock] \in {"lock", "connect"}

\* Every acquire() eventually returns a connection or raises, provided
\* the tasks holding connections release them.
AcquireCompletes ==
    \A t \in Tasks :
        phase[t] \in {"poll", "lock", "connect", "wait"}
            ~> phase[t] \in {"hold", "failed"}


-----------------------------------------------------------------------------
(* Refinement: the pool's queue, lock and getters implement the contract  *)
(* of PoolAbstract.  The idle set is the queue's contents, a holder is the *)
(* task acquire() returned the connection to, a connection is opened once  *)
(* its connect() succeeded and retired once close() closed it.            *)
Abstract == INSTANCE PoolAbstract WITH
    idle    <- ToSet(available),
    holder  <- held,
    opened  <- {c \in Conns : linkState[c] # "unconnected"},
    retired <- {c \in Conns : linkState[c] = "closed"}

\* Every step of acquire/release/close, in every interleaving of poll
\* timeouts, wake-ups and lock hand-offs, is one step of the contract or
\* none: a connection goes to a task only from the idle set or fresh within
\* max_size, a release makes that very connection idle again, and close()
\* retires only idle ones.
ImplementsPoolAbstract == Abstract!Spec

=============================================================================
