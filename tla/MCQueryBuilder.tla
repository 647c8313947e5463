--------------------------- MODULE MCQueryBuilder ---------------------------
EXTENDS QueryBuilder

MCColumns == {"id", "name"}
MCOperators == {"=", ">"}
MCValues == {"alice", "bob"}
\* 0 is the value a truthiness test would drop.
MCNumbers == {0, 10}
====
