---------------------------- MODULE QueryBuilder ----------------------------
(***************************************************************************)
(* QueryBuilder of src/clients/python/driftdb/query.py (lines 82-169): a   *)
(* mutable builder whose select/where/order_by/limit/offset calls record   *)
(* clauses, whose build() renders them as SQL text with one "?" per WHERE  *)
(* clause, and whose params() returns the values those "?" are bound to,   *)
(* in the order the server binds them.                                     *)
(*                                                                         *)
(* SQL text is a sequence of tokens: a keyword, an identifier, an         *)
(* operator, a "?", a separator, or the decimal text of a number.  Only    *)
(* whitespace is left out.                                                 *)
(***************************************************************************)
EXTENDS Naturals, Sequences, SequencesExt, TLC

CONSTANTS
    Table,      \* QueryBuilder.table
    Columns,    \* column names passed to select/where/order_by
    Operators,  \* comparison operators passed to where
    Values,     \* values passed to where
    Numbers,    \* arguments of limit/offset
    MaxClauses, \* bound on each list of clauses
    None        \* Python's None

Directions == {"ASC", "DESC"}

VARIABLES selectColumns, whereClauses, orderByClauses, limitValue,
          offsetValue, params

builderVars == <<selectColumns, whereClauses, orderByClauses, limitValue,
                 offsetValue, params>>

WhereClause == [col : Columns, op : Operators, value : Values]
OrderClause == [col : Columns, direction : Directions]

\* QueryBuilder.__init__: no clauses, no limit, no offset, no parameters.
Init ==
    /\ selectColumns = <<>>
    /\ whereClauses = <<>>
    /\ orderByClauses = <<>>
    /\ limitValue = None
    /\ offsetValue = None
    /\ params = <<>>

\* select(*columns): extend the column list (possibly by nothing).
select ==
    \E cols \in BoundedSeq(Columns, MaxClauses - Len(selectColumns)) :
        /\ selectColumns' = selectColumns \o cols
        /\ UNCHANGED <<whereClauses, orderByClauses, limitValue, offsetValue, params>>

\* Mutant: the parameter is put in front of the earlier ones.
whereAppendPrepend(c) ==
    /\ whereClauses' = Append(whereClauses, c)
    /\ params' = <<c.value>> \o params

\* Mutant: the column, not the value, goes into _params.
whereAppendColumn(c) ==
    /\ whereClauses' = Append(whereClauses, c)
    /\ params' = Append(params, c.col)

\* where(column, operator, value): record the clause and its parameter.
whereAppend(c) ==
    /\ whereClauses' = Append(whereClauses, c)
    /\ params' = Append(params, c.value)

where ==
    /\ Len(whereClauses) < MaxClauses
    /\ \E c \in WhereClause : whereAppend(c)
    /\ UNCHANGED <<selectColumns, orderByClauses, limitValue, offsetValue>>

\* order_by(column, direction)
order_by ==
    /\ Len(orderByClauses) < MaxClauses
    /\ \E c \in OrderClause : orderByClauses' = Append(orderByClauses, c)
    /\ UNCHANGED <<selectColumns, whereClauses, limitValue, offsetValue, params>>

\* limit(n) and offset(n) overwrite the previous value.
limit ==
    /\ \E n \in Numbers : limitValue' = n
    /\ UNCHANGED <<selectColumns, whereClauses, orderByClauses, offsetValue, params>>

offset ==
    /\ \E n \in Numbers : offsetValue' = n
    /\ UNCHANGED <<selectColumns, whereClauses, orderByClauses, limitValue, params>>

Next == select \/ where \/ order_by \/ limit \/ offset

Spec == Init /\ [][Next]_builderVars

(***************************************************************************)
(* build()                                                                 *)
(***************************************************************************)
\* sep.join(parts), for parts that are themselves token sequences.
Join(parts, sep) ==
    IF parts = <<>> THEN <<>>
    ELSE FoldLeft(LAMBDA acc, p : acc \o sep \o p, Head(parts), Tail(parts))

\* Mutant: a truthiness test (`if self._limit_value:`) in place of `is not None`.
NumberClauseTruthy(keyword, v) ==
    IF v # None /\ v # 0 THEN <<keyword, ToString(v)>> ELSE <<>>

\* An optional "KEYWORD n" suffix, emitted when the value is not None; the
\* f-string renders n in decimal.
NumberClause(keyword, v) == IF v # None THEN <<keyword, ToString(v)>> ELSE <<>>

build ==
    LET columns   == IF selectColumns # <<>>
                     THEN Join([i \in DOMAIN selectColumns |-> <<selectColumns[i]>>], <<",">>)
                     ELSE <<"*">>
        whereSql  == IF whereClauses # <<>>
                     THEN <<"WHERE">> \o
                          Join([i \in DOMAIN whereClauses |->
                                  <<whereClauses[i].col, whereClauses[i].op, "?">>], <<"AND">>)
                     ELSE <<>>
        orderSql  == IF orderByClauses # <<>>
                     THEN <<"ORDER BY">> \o
                          Join([i \in DOMAIN orderByClauses |->
                                  <<orderByClauses[i].col, orderByClauses[i].direction>>], <<",">>)
                     ELSE <<>>
    IN  <<"SELECT">> \o columns \o <<"FROM", Table>> \o whereSql \o orderSql
          \o NumberClause("LIMIT", limitValue) \o NumberClause("OFFSET", offsetValue)

(***************************************************************************)
(* A reference reading of the SQL text: the parse the server's grammar     *)
(* gives it, written independently of build().                             *)
(***************************************************************************)
\* Items of width w separated by sep at the head of t: <<items, rest>>.
RECURSIVE ParseList(_, _, _)
ParseList(t, w, sep) ==
    IF Len(t) < w THEN <<<<>>, t>>
    ELSE LET more == Len(t) > w /\ t[w + 1] = sep
             tail == IF more THEN ParseList(SubSeq(t, w + 2, Len(t)), w, sep)
                     ELSE <<<<>>, SubSeq(t, w + 1, Len(t))>>
         IN  <<<<SubSeq(t, 1, w)>> \o tail[1], tail[2]>>

\* An optional clause introduced by keyword kw.
ParseClause(t, kw, w, sep) ==
    IF t # <<>> /\ Head(t) = kw THEN ParseList(Tail(t), w, sep) ELSE <<<<>>, t>>

\* The single value of an optional LIMIT/OFFSET clause, or None.
ValueOf(items) == IF items = <<>> THEN None ELSE items[1][1]

Parse(t) ==
    LET from  == CHOOSE i \in DOMAIN t : t[i] = "FROM"
        cols  == ParseList(SubSeq(t, 2, from - 1), 1, ",")
        w     == ParseClause(SubSeq(t, from + 2, Len(t)), "WHERE", 3, "AND")
        o     == ParseClause(w[2], "ORDER BY", 2, ",")
        l     == ParseClause(o[2], "LIMIT", 1, "")
        f     == ParseClause(l[2], "OFFSET", 1, "")
    IN  [columns |-> IF SubSeq(t, 2, from - 1) = <<"*">> THEN <<>>
                     ELSE [i \in DOMAIN cols[1] |-> cols[1][i][1]],
         table   |-> t[from + 1],
         where   |-> w[1],
         order   |-> o[1],
         limit   |-> ValueOf(l[1]),
         offset  |-> ValueOf(f[1]),
         rest    |-> f[2]]

(***************************************************************************)
(* Properties                                                              *)
(***************************************************************************)
TypeOK ==
    /\ selectColumns \in Seq(Columns)
    /\ whereClauses \in Seq(WhereClause)
    /\ orderByClauses \in Seq(OrderClause)
    /\ limitValue \in Numbers \cup {None}
    /\ offsetValue \in Numbers \cup {None}
    /\ params \in Seq(Values)

\* Every clause recorded by the builder's calls, and nothing else, is what
\* the server reads back from build()'s text: a falsy LIMIT 0 or OFFSET 0 is
\* still emitted (build() tests `is not None`), lists keep their call order
\* and separators, and no clause runs into the next.
BuildRoundTrip ==
    LET p == Parse(build)
    IN  /\ p.columns = selectColumns
        /\ p.table = Table
        /\ p.where = [i \in DOMAIN whereClauses |->
                        <<whereClauses[i].col, whereClauses[i].op, "?">>]
        /\ p.order = [i \in DOMAIN orderByClauses |->
                        <<orderByClauses[i].col, orderByClauses[i].direction>>]
        /\ p.limit = IF limitValue = None THEN None ELSE ToString(limitValue)
        /\ p.offset = IF offsetValue = None THEN None ELSE ToString(offsetValue)
        /\ p.rest = <<>>

\* The server binds params() to the "?" of build() by position: the k-th
\* placeholder of the text sits in a comparison on the column given to the
\* k-th where() call, and params()[k] is the value given to that same call.
PlaceholdersBindParams ==
    LET t     == build
        holes == SetToSortSeq({i \in DOMAIN t : t[i] = "?"}, <)
    IN  /\ Len(holes) = Len(params)
        /\ \A k \in DOMAIN holes :
              /\ t[holes[k] - 2] = whereClauses[k].col
              /\ params[k] = whereClauses[k].value

====
