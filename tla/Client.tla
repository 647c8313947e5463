------------------------------- MODULE Client -------------------------------
(***************************************************************************)
(* The query facade Client, the Transaction context manager and the wire   *)
(* exchange of Connection.execute (src/clients/python/driftdb/client.py),  *)
(* composed with the ConnectionPool they borrow connections from.          *)
(*                                                                         *)
(* Each task runs caller code that, when idle, calls Client.query, enters  *)
(* `async with client.transaction() as tx`, or (for Closers) calls         *)
(* Client.close.  Connection.execute writes one request line and awaits    *)
(* drain() and readline(); the server answers the requests of a connection *)
(* in the order it received them, so wire[c] holds the requests written on *)
(* c whose reply has not been read yet, and a readline() returns the reply *)
(* to Head(wire[c]).  A caller may cancel its task while it awaits a reply *)
(* (asyncio.wait_for or task.cancel around the call); CancelledError is    *)
(* not caught by execute's `except Exception`.                             *)
(*                                                                         *)
(* The server may reject the requests of the kinds in ServerErrors, and it *)
(* may drop up to MaxDrops connections: once dropped, a connection's       *)
(* readline() returns EOF, json.loads fails and execute raises QueryError  *)
(* for every request written on it, while _connected stays True.           *)
(*                                                                         *)
(* The caller code of the tasks in KeepsTx keeps its Transaction object    *)
(* and calls tx.execute/commit/rollback again after the scope: __aexit__   *)
(* never clears self._conn, so the `if not self._conn` check passes.       *)
(***************************************************************************)
EXTENDS ConnectionPool

CONSTANTS
    ExplicitEnd,   \* TRUE if the transaction body calls tx.commit()/rollback()
    MaxTxLen,      \* bound on the requests a transaction writes
    ServerErrors,  \* request kinds the server may answer with an error
    MaxDrops,      \* bound on the connections the server side drops
    KeepsTx        \* tasks that use their Transaction after its scope

Kinds == {"query", "BEGIN", "stmt", "COMMIT", "ROLLBACK"}

ASSUME ServerErrors \subseteq Kinds /\ MaxDrops \in Nat /\ KeepsTx \subseteq Tasks
ASSUME ExplicitEnd \in BOOLEAN /\ MaxTxLen \in Nat

Request == [who : Tasks, what : Kinds]

VARIABLES
    pc,       \* where the caller code of each task is
    req,      \* the request each task last wrote
    wire,     \* per connection: requests written whose reply is unread
    exc,      \* the exception flag __aexit__ receives (exc_type is not None)
    txLog,    \* requests written by the task's current transaction
    txDone,   \* the task's current transaction has run __aexit__
    leaked,   \* connections bound by a __aenter__ that raised
    dead,     \* connections whose server side has closed the stream
    txConn,   \* Transaction._conn of the task's latest Transaction object
    eofSeen   \* connections on which an execute has already read EOF

clientVars == <<pc, req, wire, exc, txLog, txDone, leaked, dead, txConn, eofSeen>>
allVars == <<vars, clientVars>>

PCs == {"idle", "q_acquire", "query", "tx_acquire", "tx_begin", "tx_body",
        "tx_stmt", "tx_end", "tx_late"}

-----------------------------------------------------------------------------
\* Connection.execute up to its first suspension (l.39-54): build the
\* message, write it, await drain().
\* The connection a task's exchange runs on: the one acquire() gave it, or
\* else the _conn its Transaction object still names.
Chan(t) == IF held[t] # NoConn THEN held[t] ELSE txConn[t]

\* w is the wire as the task finds it.
Exec(t, k, next, w) ==
    /\ wire' = [w EXCEPT ![Chan(t)] = Append(@, [who |-> t, what |-> k])]
    /\ req' = [req EXCEPT ![t] = k]
    /\ pc' = [pc EXCEPT ![t] = next]
    /\ txLog' = IF next \in {"tx_begin", "tx_stmt", "tx_end", "tx_late"}
                   THEN [txLog EXCEPT ![t] = Append(@, k)] ELSE txLog

\* Mutant: __aexit__ commits whatever exc_type is.
AExitAlwaysCommit(t, raised, w) ==
    /\ exc' = [exc EXCEPT ![t] = raised]
    /\ Exec(t, "COMMIT", "tx_end", w)

\* Transaction.__aexit__ (l.355-364): COMMIT when the scope raised nothing,
\* ROLLBACK otherwise; the finally clause releases after the reply.
AExit(t, raised, w) ==
    /\ exc' = [exc EXCEPT ![t] = raised]
    /\ Exec(t, IF raised THEN "ROLLBACK" ELSE "COMMIT", "tx_end", w)

\* __aenter__ raised after self._conn was bound (l.351-352): __aexit__ never
\* runs, nobody releases the connection.
Abandon(t) ==
    /\ leaked' = leaked \cup {held[t]}
    /\ held' = [held EXCEPT ![t] = NoConn]
    /\ phase' = [phase EXCEPT ![t] = "idle"]
    /\ pc' = [pc EXCEPT ![t] = "idle"]

\* The finally clause of Client.query (l.259-260) or of __aexit__ (l.362-364).
Finish(t) ==
    /\ release(t)
    /\ pc' = [pc EXCEPT ![t] = "idle"]
    /\ txDone' = IF pc[t] = "tx_end" THEN [txDone EXCEPT ![t] = TRUE] ELSE txDone

-----------------------------------------------------------------------------
ClientInit ==
    /\ PoolInit
    /\ pc = [t \in Tasks |-> "idle"]
    /\ req = [t \in Tasks |-> "query"]
    /\ wire = [c \in Conns |-> <<>>]
    /\ exc = [t \in Tasks |-> FALSE]
    /\ txLog = [t \in Tasks |-> <<>>]
    /\ txDone = [t \in Tasks |-> FALSE]
    /\ leaked = {}
    /\ dead = {}
    /\ txConn = [t \in Tasks |-> NoConn]
    /\ eofSeen = {}

Called(t) ==
    /\ MayCall(t)
    /\ calls' = IF MaxCalls = Forever THEN calls ELSE [calls EXCEPT ![t] = @ + 1]

\* Client.query (and query_at_seq, query_at_time, execute, which only
\* rewrite the SQL text or the result): `conn = await self._pool.acquire()`.
CallQuery(t) ==
    /\ pc[t] = "idle"
    /\ Called(t)
    /\ Acquire(t)
    /\ pc' = [pc EXCEPT ![t] = "q_acquire"]
    /\ UNCHANGED <<req, wire, exc, txLog, txDone, leaked, dead, txConn, eofSeen>>

\* `async with client.transaction() as tx`: Client.transaction builds a
\* Transaction (l.320-327); __aenter__ acquires (l.351).
CallTransaction(t) ==
    /\ pc[t] = "idle"
    /\ Called(t)
    /\ Acquire(t)
    /\ pc' = [pc EXCEPT ![t] = "tx_acquire"]
    /\ exc' = [exc EXCEPT ![t] = FALSE]
    /\ txLog' = [txLog EXCEPT ![t] = <<>>]
    /\ txDone' = [txDone EXCEPT ![t] = FALSE]
    /\ txConn' = [txConn EXCEPT ![t] = NoConn]
    /\ UNCHANGED <<req, wire, leaked, dead, eofSeen>>

\* Client.close -> pool.close (l.329-331).
CallClose(t) ==
    /\ pc[t] = "idle"
    /\ Called(t)
    /\ CloseBegin(t)
    /\ UNCHANGED clientVars

\* acquire() returned: Client.query calls conn.execute(sql) (l.257);
\* __aenter__ calls execute("BEGIN TRANSACTION") (l.352).
Acquired(t) ==
    /\ phase[t] = "hold"
    /\ pc[t] \in {"q_acquire", "tx_acquire"}
    /\ IF pc[t] = "q_acquire" THEN Exec(t, "query", "query", wire)
                              ELSE Exec(t, "BEGIN", "tx_begin", wire)
    /\ txConn' = IF pc[t] = "tx_acquire" THEN [txConn EXCEPT ![t] = held[t]]
                                         ELSE txConn
    /\ UNCHANGED <<poolVars, calls, exc, txDone, leaked, dead, eofSeen>>

\* Mutant: the caller releases in a finally that also covers acquire(),
\* so a failed acquire puts the unbound value None into the queue.
AcquireFailedRelease(t) ==
    /\ pc[t] \in {"q_acquire", "tx_acquire"}
    /\ phase[t] = "failed"
    /\ phase' = [phase EXCEPT ![t] = "idle"]
    /\ PutAndWake(NoConn)
    /\ pc' = [pc EXCEPT ![t] = "idle"]
    /\ UNCHANGED <<pool, size, lock, lockQ, linkState, held,
                   calls, req, wire, exc, txLog, txDone, leaked, dead, txConn, eofSeen>>

\* acquire() raised: the exception leaves Client.query or __aenter__ before
\* anything was bound.
AcquireFailed(t) ==
    /\ pc[t] \in {"q_acquire", "tx_acquire"}
    /\ AcquireRaised(t)
    /\ pc' = [pc EXCEPT ![t] = "idle"]
    /\ UNCHANGED <<calls, req, wire, exc, txLog, txDone, leaked, dead, txConn, eofSeen>>

\* Mutant: __aexit__ releases only after a successful COMMIT/ROLLBACK.
ReplyNoFinally(t, ok, w) ==
    \/ /\ pc[t] = "query" \/ (pc[t] = "tx_end" /\ ok)
       /\ Finish(t)
       /\ wire' = w
       /\ UNCHANGED <<calls, req, exc, txLog, leaked, dead, txConn>>
    \/ /\ pc[t] = "tx_end"
       /\ ~ok
       /\ pc' = [pc EXCEPT ![t] = "idle"]
       /\ phase' = [phase EXCEPT ![t] = "idle"]
       /\ held' = [held EXCEPT ![t] = NoConn]
       /\ txDone' = [txDone EXCEPT ![t] = TRUE]
       /\ wire' = w
       /\ UNCHANGED <<pool, size, available, getters, woken, lock, lockQ,
                      linkState, calls, req, exc, txLog, leaked, dead, txConn>>
    \/ /\ pc[t] \in {"tx_begin", "tx_stmt"}
       /\ ok
       /\ pc' = [pc EXCEPT ![t] = "tx_body"]
       /\ wire' = w
       /\ UNCHANGED <<vars, req, exc, txLog, txDone, leaked, dead, txConn>>
    \/ /\ pc[t] = "tx_begin"
       /\ ~ok
       /\ Abandon(t)
       /\ wire' = w
       /\ UNCHANGED <<pool, size, available, getters, woken, lock, lockQ,
                      linkState, calls, req, exc, txLog, txDone, dead, txConn>>
    \/ /\ pc[t] = "tx_stmt"
       /\ ~ok
       /\ AExit(t, TRUE, w)
       /\ UNCHANGED <<vars, txDone, leaked, dead, txConn>>
    \/ /\ pc[t] = "tx_late"
       /\ pc' = [pc EXCEPT ![t] = "idle"]
       /\ wire' = w
       /\ UNCHANGED <<vars, req, exc, txLog, txDone, leaked, dead, txConn>>

\* What follows a reply (ok: a result, ~ok: QueryError) or an exception
\* thrown into the awaiting task; w is the wire after the exchange.
\*  - Client.query returns or raises; finally: release (l.255-260);
\*  - after COMMIT/ROLLBACK in __aexit__: finally: release (l.357-364);
\*  - BEGIN failed: __aenter__ raises, the connection stays bound (l.351-353);
\*  - a statement in the body raised: __aexit__ writes ROLLBACK (l.361);
\*  - a call on a Transaction after its scope returns or raises.
Reply(t, ok, w) ==
    \/ /\ pc[t] \in {"query", "tx_end"}
       /\ Finish(t)
       /\ wire' = w
       /\ UNCHANGED <<calls, req, exc, txLog, leaked, dead, txConn>>
    \/ /\ pc[t] \in {"tx_begin", "tx_stmt"}
       /\ ok
       /\ pc' = [pc EXCEPT ![t] = "tx_body"]
       /\ wire' = w
       /\ UNCHANGED <<vars, req, exc, txLog, txDone, leaked, dead, txConn>>
    \/ /\ pc[t] = "tx_begin"
       /\ ~ok
       /\ Abandon(t)
       /\ wire' = w
       /\ UNCHANGED <<pool, size, available, getters, woken, lock, lockQ,
                      linkState, calls, req, exc, txLog, txDone, dead, txConn>>
    \/ /\ pc[t] = "tx_stmt"
       /\ ~ok
       /\ AExit(t, TRUE, w)
       /\ UNCHANGED <<vars, txDone, leaked, dead, txConn>>
    \/ /\ pc[t] = "tx_late"
       /\ pc' = [pc EXCEPT ![t] = "idle"]
       /\ wire' = w
       /\ UNCHANGED <<vars, req, exc, txLog, txDone, leaked, dead, txConn>>

AwaitingReply == {"query", "tx_begin", "tx_stmt", "tx_end", "tx_late"}

\* A stream that reads EOF: the server dropped it, or pool.close() closed
\* it under a task that still reads from it.
Broken(c) == c \in dead \/ linkState[c] = "closed"

\* The outcomes the server may give the reply to request r.
Outcomes(r) == IF r.what \in ServerErrors THEN BOOLEAN ELSE {TRUE}

\* Mutant: a failed read (e.g. a read timeout) leaves the reply unread.
ReceiveLeavesReply(t) ==
    /\ pc[t] \in AwaitingReply
    /\ ~Broken(Chan(t))
    /\ wire[Chan(t)] # <<>>
    /\ \/ Reply(t, TRUE, [wire EXCEPT ![Chan(t)] = Tail(@)])
       \/ Reply(t, FALSE, wire)
    /\ UNCHANGED eofSeen

\* Another task waits in readline() on the same stream: asyncio's
\* StreamReader raises RuntimeError for the second reader.
SharedReader(t) ==
    \E u \in Tasks \ {t} : pc[u] \in AwaitingReply /\ Chan(u) = Chan(t)

\* readline() returns the reply to the oldest unread request on the
\* connection (l.57-70); the server may answer it with an error (l.60-61).
\* On a dropped connection readline() returns b"" at once: json.loads
\* raises, and execute raises QueryError (l.72-75).  A second concurrent
\* reader fails the same way and leaves its reply unread.
Receive(t) ==
    /\ pc[t] \in AwaitingReply
    /\ IF Broken(Chan(t))
          THEN /\ Reply(t, FALSE, wire)
               /\ eofSeen' = IF Chan(t) \in dead THEN eofSeen \cup {Chan(t)}
                                                 ELSE eofSeen
          ELSE /\ \/ /\ wire[Chan(t)] # <<>>
                     /\ \E ok \in Outcomes(Head(wire[Chan(t)])) :
                           Reply(t, ok, [wire EXCEPT ![Chan(t)] = Tail(@)])
                  \/ /\ SharedReader(t)
                     /\ Reply(t, FALSE, wire)
               /\ UNCHANGED eofSeen

\* The server closes an open connection: the replies it owed are never
\* sent.  Nothing in the client notices until the next read.
Drop(c) ==
    /\ c \in Live \ dead
    /\ Cardinality(dead) < MaxDrops
    /\ dead' = dead \cup {c}
    /\ wire' = [wire EXCEPT ![c] = <<>>]
    /\ UNCHANGED <<vars, pc, req, exc, txLog, txDone, leaked, txConn, eofSeen>>

\* The caller cancels the task while it awaits drain() or readline(): the
\* CancelledError skips execute's handlers and the request stays unread.
Cancel(t) ==
    /\ t \in Cancellable
    /\ pc[t] \in AwaitingReply
    /\ Reply(t, FALSE, wire)
    /\ UNCHANGED eofSeen

\* The caller cancels the task inside acquire(): nothing was bound, so
\* neither Client.query's finally (entered only after acquire, l.256) nor
\* __aexit__ runs.
CancelInAcquire(t) ==
    /\ pc[t] \in {"q_acquire", "tx_acquire"}
    /\ CancelAcquire(t)
    /\ pc' = [pc EXCEPT ![t] = "idle"]
    /\ UNCHANGED <<calls, req, wire, exc, txLog, txDone, leaked, dead, txConn, eofSeen>>

\* The body of `async with client.transaction() as tx`.
\* tx.execute (l.366-370).
TxExecute(t) ==
    /\ pc[t] = "tx_body"
    /\ Len(txLog[t]) < MaxTxLen
    /\ Exec(t, "stmt", "tx_stmt", wire)
    /\ UNCHANGED <<vars, exc, txDone, leaked, dead, txConn, eofSeen>>

\* tx.commit() (l.372-376) and tx.rollback() (l.378-382): a plain execute,
\* the transaction keeps its connection and its scope.
TxCommit(t) ==
    /\ ExplicitEnd
    /\ pc[t] = "tx_body"
    /\ Len(txLog[t]) < MaxTxLen
    /\ Exec(t, "COMMIT", "tx_stmt", wire)
    /\ UNCHANGED <<vars, exc, txDone, leaked, dead, txConn, eofSeen>>

TxRollback(t) ==
    /\ ExplicitEnd
    /\ pc[t] = "tx_body"
    /\ Len(txLog[t]) < MaxTxLen
    /\ Exec(t, "ROLLBACK", "tx_stmt", wire)
    /\ UNCHANGED <<vars, exc, txDone, leaked, dead, txConn, eofSeen>>

\* tx.execute, tx.commit or tx.rollback after the scope (l.366-382): _conn
\* still names the released connection, which may be idle, held by another
\* task, or closed by pool.close(); on a closed one Connection.execute
\* raises ConnectionError before writing (l.41-42).
TxLate(t) ==
    /\ t \in KeepsTx
    /\ pc[t] = "idle"
    /\ txConn[t] # NoConn
    /\ Called(t)
    /\ IF linkState[txConn[t]] = "connected"
          THEN /\ \E k \in {"stmt", "COMMIT", "ROLLBACK"} : Exec(t, k, "tx_late", wire)
               /\ UNCHANGED <<poolVars, exc, txDone, leaked, dead, txConn, eofSeen>>
          ELSE UNCHANGED <<poolVars, clientVars>>

\* The body raises, or reaches the end of the scope.
TxRaise(t) ==
    /\ pc[t] = "tx_body"
    /\ AExit(t, TRUE, wire)
    /\ UNCHANGED <<vars, txDone, leaked, dead, txConn, eofSeen>>

TxLeave(t) ==
    /\ pc[t] = "tx_body"
    /\ AExit(t, FALSE, wire)
    /\ UNCHANGED <<vars, txDone, leaked, dead, txConn, eofSeen>>

\* Pool steps that do not involve the caller code.
PoolInternal(t) ==
    /\ \/ Resume(t) \/ PollTimeout(t) \/ LockAcquired(t) \/ ConnectDone(t)
       \/ CloseStep(t) \/ CloseDone(t)
    /\ UNCHANGED <<calls, clientVars>>

TaskStep(t) ==
    \/ PoolInternal(t) \/ Acquired(t) \/ AcquireFailed(t) \/ Receive(t)
    \/ TxExecute(t) \/ TxCommit(t) \/ TxRollback(t) \/ TxRaise(t) \/ TxLeave(t)

ClientFinished ==
    /\ pool = "ready"
    /\ \A t \in Tasks : pc[t] = "idle" /\ phase[t] = "idle" /\ ~MayCall(t)
    /\ UNCHANGED allVars

ClientNext ==
    \/ (Initialize \/ StartupFailed) /\ UNCHANGED <<calls, clientVars>>
    \/ ClientFinished
    \/ \E t \in Tasks :
          \/ CallQuery(t) \/ CallTransaction(t) \/ CallClose(t) \/ TxLate(t)
          \/ TaskStep(t) \/ Cancel(t) \/ CancelInAcquire(t)
    \/ \E c \in Conns : Drop(c)

ClientSpec == ClientInit /\ [][ClientNext]_allVars

\* The event loop runs every ready task: initialize() completes, and a task
\* that can take a step (a reply is readable, a timer fired, a waiter was
\* woken, the transaction body moves on) eventually takes it.  The server
\* is not assumed to drop anything, and nobody is forced to cancel.
ClientFairness ==
    /\ WF_allVars(Initialize /\ UNCHANGED <<calls, clientVars>>)
    /\ \A t \in Tasks : WF_allVars(TaskStep(t))

ClientFairSpec == ClientSpec /\ ClientFairness

-----------------------------------------------------------------------------
(* Properties.                                                            *)

ClientTypeOK ==
    /\ TypeOK
    /\ pc \in [Tasks -> PCs]
    /\ req \in [Tasks -> Kinds]
    /\ wire \in [Conns -> Seq(Request)]
    /\ exc \in [Tasks -> BOOLEAN]
    /\ txLog \in [Tasks -> Seq(Kinds)]
    /\ txDone \in [Tasks -> BOOLEAN]
    /\ leaked \subseteq Conns
    /\ dead \subseteq Conns
    /\ txConn \in [Tasks -> Conns \cup {NoConn}]
    /\ eofSeen \subseteq dead

\* Strict request-reply (spec 4.1): whenever a task awaits a reply, the next
\* reply its connection delivers is the one to the request this task wrote
\* last.  A connection released with an unread reply breaks this for its
\* next borrower.
ReplyMatchesRequest ==
    \A t \in Tasks :
        pc[t] \in AwaitingReply /\ ~Broken(Chan(t)) =>
            /\ wire[Chan(t)] # <<>>
            /\ Head(wire[Chan(t)]) = [who |-> t, what |-> req[t]]

Sent(t, k) == Len(SelectSeq(txLog[t], LAMBDA x : x = k))

\* Spec 8: a transaction whose scope completed sends exactly one COMMIT and
\* no ROLLBACK; one whose scope raised sends exactly one ROLLBACK and no
\* COMMIT, whatever the statements before did.
TxEndsOnce ==
    \A t \in Tasks :
        txDone[t] =>
            IF exc[t] THEN Sent(t, "ROLLBACK") = 1 /\ Sent(t, "COMMIT") = 0
                      ELSE Sent(t, "COMMIT") = 1 /\ Sent(t, "ROLLBACK") = 0

\* Every open connection is idle in the pool or checked out by a task,
\* except those bound by a __aenter__ whose BEGIN raised: Client.query's
\* finally and __aexit__'s finally hand back every other connection, also
\* when the query, the COMMIT or the ROLLBACK fails or is cancelled.
ConnectionsAccounted ==
    \A c \in Live :
        Contains(available, c) \/ (\E t \in Tasks : held[t] = c) \/ c \in leaked

\* Every query and transaction scope the caller enters, and every call on
\* a Transaction kept after its scope, eventually gives control back to the
\* caller, with a result or an exception, while the other tasks keep calling.
\* (close() keeps pc idle and is not covered.)
CallsReturn ==
    \A t \in Tasks : pc[t] # "idle" ~> pc[t] = "idle"

=============================================================================
