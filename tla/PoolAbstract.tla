---------------------------- MODULE PoolAbstract ----------------------------
(***************************************************************************)
(* What the connection pool promises its callers (spec.md 4.2, 8), with    *)
(* no queue, lock, timeout or getter in sight: connections are opened up   *)
(* to max_size, an idle one may be handed to a task that holds none, a     *)
(* holder gives its connection back and it is idle again, and close() may  *)
(* retire idle connections.  Every step moves one connection.              *)
(***************************************************************************)
EXTENDS Naturals, FiniteSets

CONSTANTS Tasks, Conns, MaxSize, NoConn

VARIABLES
    idle,    \* connections in the pool that nobody holds
    holder,  \* the connection each task holds, or NoConn
    opened,  \* every connection opened so far
    retired  \* connections close() has closed

absVars == <<idle, holder, opened, retired>>

Init ==
    /\ idle = {}
    /\ holder = [t \in Tasks |-> NoConn]
    /\ opened = {}
    /\ retired = {}

\* A new connection, within max_size, either goes idle or straight to a task.
Open(c) ==
    /\ c \notin opened
    /\ Cardinality(opened) < MaxSize
    /\ opened' = opened \cup {c}
    /\ \/ idle' = idle \cup {c} /\ UNCHANGED holder
       \/ \E t \in Tasks : holder[t] = NoConn /\ holder' = [holder EXCEPT ![t] = c]
                           /\ UNCHANGED idle
    /\ UNCHANGED retired

Take(t, c) ==
    /\ holder[t] = NoConn
    /\ c \in idle
    /\ idle' = idle \ {c}
    /\ holder' = [holder EXCEPT ![t] = c]
    /\ UNCHANGED <<opened, retired>>

GiveBack(t) ==
    /\ holder[t] # NoConn
    /\ idle' = idle \cup {holder[t]}
    /\ holder' = [holder EXCEPT ![t] = NoConn]
    /\ UNCHANGED <<opened, retired>>

Retire(c) ==
    /\ c \in idle
    /\ idle' = idle \ {c}
    /\ retired' = retired \cup {c}
    /\ UNCHANGED <<holder, opened>>

Next ==
    \/ \E c \in Conns : Open(c) \/ Retire(c)
    \/ \E t \in Tasks : GiveBack(t) \/ \E c \in Conns : Take(t, c)

Spec == Init /\ [][Next]_absVars

====
