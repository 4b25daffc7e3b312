-------------------------------- MODULE DbPool --------------------------------
(***************************************************************************)
(* The handlers of the api binary and the connections they share: at most  *)
(* MaxOpen of them, no deadline on a query but the client's patience.      *)
(*                                                                         *)
(* GET /users and GET /products run one query, POST /orders two, one after *)
(* the other; the other routes run none.  A module that says when requests *)
(* come in and what ends their process extends this one.                   *)
(***************************************************************************)
EXTENDS Integers, FiniteSets

CONSTANTS
    Handlers,   \* as many requests as are served at the same time
    MaxOpen     \* connections of the pool, 10 in the code

ASSUME DbPoolAssumption ==
    /\ IsFiniteSet(Handlers)
    /\ MaxOpen \in Nat \ {0}

VARIABLES
    pc,         \* pc[h]: "away", "asking" for a connection, "querying" or "replying"
    queries,    \* queries[h]: the queries h has still to run
    conns,      \* the handlers that hold a connection
    hung        \* those of them whose query PostgreSQL never answers

poolVars == <<pc, queries, conns, hung>>

InFlight == {h \in Handlers : pc[h] # "away"}
-------------------------------------------------------------------------------
PoolInit ==
    /\ pc = [h \in Handlers |-> "away"]
    /\ queries = [h \in Handlers |-> 0]
    /\ conns = {} /\ hung = {}

Goto(h, from, to) ==
    /\ pc[h] = from
    /\ pc' = [pc EXCEPT ![h] = to]

\* The connection of h goes back to the pool, if it has one.
Release(h) ==
    /\ conns' = conns \ {h}
    /\ hung' = hung \ {h}

Begin(h) ==
    /\ \/ Goto(h, "away", "replying") /\ UNCHANGED queries
       \/ /\ Goto(h, "away", "asking")
          /\ \E n \in 1 .. 2 : queries' = [queries EXCEPT ![h] = n]
    /\ UNCHANGED <<conns, hung>>

\* A connection is free, or handed over by the handler that releases it.
Acquire(h) ==
    /\ Cardinality(conns) < MaxOpen
    /\ Goto(h, "asking", "querying")
    /\ conns' = conns \cup {h}
    /\ hung' \in {hung, hung \cup {h}}
    /\ UNCHANGED queries

\* PostgreSQL refuses the connection the pool wanted to open.
DialFails(h) ==
    /\ Cardinality(conns) < MaxOpen
    /\ Goto(h, "asking", "replying")
    /\ UNCHANGED <<queries, conns, hung>>

\* Seeded fault: the rows of one query stay open during the next.
FaultyRowsRead(h) ==
    /\ h \notin hung
    /\ queries' = [queries EXCEPT ![h] = @ - 1]
    /\ IF queries[h] = 1
       THEN Goto(h, "querying", "replying") /\ Release(h)
       ELSE Goto(h, "querying", "asking") /\ UNCHANGED <<conns, hung>>

\* All rows are read and closed.  A product that does not exist is answered 404
\* without the second query.
RowsRead(h) ==
    /\ h \notin hung
    /\ queries' = [queries EXCEPT ![h] = @ - 1]
    /\ \/ Goto(h, "querying", "replying")
       \/ queries[h] > 1 /\ Goto(h, "querying", "asking")
    /\ Release(h)

\* Seeded fault: an error on the way through the rows leaves them open.
FaultyQueryFails(h) ==
    /\ h \notin hung
    /\ Goto(h, "querying", "replying")
    /\ UNCHANGED <<queries, conns, hung>>

\* The query or the scan of a row fails: rows.Close is deferred.
QueryFails(h) ==
    /\ h \notin hung
    /\ Goto(h, "querying", "replying")
    /\ Release(h)
    /\ UNCHANGED queries

\* The client disconnects: its context ends the wait for a connection, and a
\* query whether PostgreSQL answers or not.
ClientLeaves(h) ==
    /\ Goto(h, "asking", "replying") \/ Goto(h, "querying", "replying")
    /\ Release(h)
    /\ UNCHANGED queries

Reply(h) ==
    /\ Goto(h, "replying", "away")
    /\ queries' = [queries EXCEPT ![h] = 0]
    /\ UNCHANGED <<conns, hung>>

Answered(h) == RowsRead(h) \/ QueryFails(h)

Query(h) == Acquire(h) \/ DialFails(h) \/ Answered(h) \/ ClientLeaves(h)
-------------------------------------------------------------------------------
PoolTypeOK ==
    /\ pc \in [Handlers -> {"away", "asking", "querying", "replying"}]
    /\ queries \in [Handlers -> 0 .. 2]
    /\ conns \subseteq Handlers
    /\ hung \subseteq conns

\* A connection is held exactly by the handlers inside a query: no way out of a
\* query keeps one, and nobody holds one while it waits for another (deferred
\* rows.Close and Row.Scan in internal/store/store.go).
ConnectionsReturned ==
    /\ conns = {h \in Handlers : pc[h] = "querying"}
    /\ Cardinality(conns) <= MaxOpen

\* A handler waits for a connection for ever only if queries that PostgreSQL
\* never answers come to hold all of them: the limit in store.Open by itself
\* makes nobody wait for good.
WaitsOnlyBehindHung ==
    \A h \in Handlers :
        pc[h] = "asking" ~> (pc[h] # "asking" \/ Cardinality(hung) = MaxOpen)
===============================================================================
