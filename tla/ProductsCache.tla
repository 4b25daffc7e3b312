----------------------------- MODULE ProductsCache -----------------------------
(***************************************************************************)
(* GET /products through the read-through cache: one Redis key with a TTL  *)
(* in front of the table products, in a process that is restarted and      *)
(* decides at each start whether it uses Redis at all.                     *)
(*                                                                         *)
(* The api never writes the table; it is changed by hand.  Redis refuses,  *)
(* hangs, loses the key and executes a SET after its sender has given up.  *)
(***************************************************************************)
EXTENDS Integers

CONSTANTS
    Clients,    \* callers of GET /products, each with one request at a time
    Tables,     \* contents of the table products
    TTL,        \* 30 s, in ticks of the model
    MaxWire     \* bound on the SETs of one content on their way to Redis

ASSUME ProductsCacheAssumption ==
    /\ TTL \in Nat \ {0}
    /\ MaxWire \in Nat
    /\ Tables \cap {"none", "garbled", "500"} = {}

VARIABLES
    enabled,    \* Cache.enabled, fixed at start
    pc,         \* pc[c]: "idle", "looking", "loading", "storing" or "done"
    held,       \* held[c]: the content c has loaded and not answered with yet
    answer,     \* answer[c]: what the client was given, "none" for nothing yet
    counts,     \* counts[c]: what the request has added to the cache's counters
    failed      \* history: the store has failed the request of c

VARIABLES
    table,      \* the content of the table products
    quiet,      \* history: ticks since the table changed, up to TTL
    entry,      \* the key "products": a content, "garbled" or "none"
    age,        \* ticks since entry was set
    overtaken,  \* history: entry was not the table's content when it was set
    wire        \* wire[t]: SETs of t that Redis has not executed

requestVars == <<pc, held, answer, counts, failed>>
redisVars == <<entry, age, overtaken>>
tableVars == <<table, quiet>>
vars == <<enabled, requestVars, redisVars, tableVars, wire>>

Untold == [hit |-> 0, miss |-> 0, error |-> 0]
-------------------------------------------------------------------------------
Init ==
    /\ enabled \in BOOLEAN
    /\ pc = [c \in Clients |-> "idle"]
    /\ held = [c \in Clients |-> "none"]
    /\ answer = [c \in Clients |-> "none"]
    /\ counts = [c \in Clients |-> Untold]
    /\ failed = [c \in Clients |-> FALSE]
    /\ table \in Tables
    /\ quiet = 0
    /\ entry = "none" /\ age = 0 /\ overtaken = FALSE
    /\ wire = [t \in Tables |-> 0]

(***************************************************************************)
(* Cache.Products                                                          *)
(***************************************************************************)

Goto(c, from, to) ==
    /\ pc[c] = from
    /\ pc' = [pc EXCEPT ![c] = to]

Reply(c, a) == answer' = [answer EXCEPT ![c] = a]

\* CacheResult and CacheError: what a step adds to the counters.
Count(c, hits, misses, errors) ==
    counts' = [counts EXCEPT ![c] = [hit |-> @.hit + hits, miss |-> @.miss + misses,
                                     error |-> @.error + errors]]

Ask(c) ==
    /\ Goto(c, "idle", "looking") \/ Goto(c, "done", "looking")
    /\ held' = [held EXCEPT ![c] = "none"]
    /\ Reply(c, "none")
    /\ counts' = [counts EXCEPT ![c] = Untold]
    /\ failed' = [failed EXCEPT ![c] = FALSE]
    /\ UNCHANGED <<enabled, redisVars, tableVars, wire>>

\* Redis was not there when the process started: straight to the store.
Bypass(c) ==
    /\ ~enabled
    /\ Goto(c, "looking", "loading")
    /\ Count(c, 0, 1, 0)
    /\ UNCHANGED <<enabled, held, answer, failed, redisVars, tableVars, wire>>

\* Seeded fault: a hit renews the TTL.
FaultyHitRenews(c) ==
    /\ enabled
    /\ entry \in Tables
    /\ Goto(c, "looking", "done")
    /\ Reply(c, entry)
    /\ Count(c, 1, 0, 0)
    /\ age' = 0
    /\ UNCHANGED <<enabled, held, failed, entry, overtaken, tableVars, wire>>

Hit(c) ==
    /\ enabled
    /\ entry \in Tables
    /\ Goto(c, "looking", "done")
    /\ Reply(c, entry)
    /\ Count(c, 1, 0, 0)
    /\ UNCHANGED <<enabled, held, failed, redisVars, tableVars, wire>>

\* redis.Nil is no error.
Miss(c) ==
    /\ enabled
    /\ entry = "none"
    /\ Goto(c, "looking", "loading")
    /\ Count(c, 0, 1, 0)
    /\ UNCHANGED <<enabled, held, answer, failed, redisVars, tableVars, wire>>

\* Seeded fault: the hit is counted before the value is decoded.
FaultyGarbledCountsHit(c) ==
    /\ enabled
    /\ entry = "garbled"
    /\ Goto(c, "looking", "loading")
    /\ Count(c, 1, 1, 1)
    /\ UNCHANGED <<enabled, held, answer, failed, redisVars, tableVars, wire>>

\* What Redis has cannot be decoded.
Garbled(c) ==
    /\ enabled
    /\ entry = "garbled"
    /\ Goto(c, "looking", "loading")
    /\ Count(c, 0, 1, 1)
    /\ UNCHANGED <<enabled, held, answer, failed, redisVars, tableVars, wire>>

\* Redis refuses, its answer does not come in time or the caller has gone.
LookupFails(c) ==
    /\ enabled
    /\ Goto(c, "looking", "loading")
    /\ Count(c, 0, 1, 1)
    /\ UNCHANGED <<enabled, held, answer, failed, redisVars, tableVars, wire>>

\* The store has read the table; without Redis, or if the products cannot be
\* encoded, that is all.
Loaded(c) ==
    /\ \/ /\ enabled
          /\ Goto(c, "loading", "storing")
          /\ held' = [held EXCEPT ![c] = table]
          /\ UNCHANGED <<answer, counts>>
       \/ /\ enabled
          /\ Goto(c, "loading", "done")
          /\ Reply(c, table)
          /\ Count(c, 0, 0, 1)
          /\ UNCHANGED held
       \/ /\ ~enabled
          /\ Goto(c, "loading", "done")
          /\ Reply(c, table)
          /\ UNCHANGED <<held, counts>>
    /\ UNCHANGED <<enabled, failed, redisVars, tableVars, wire>>

\* The query fails or is cancelled with its request.
LoadFails(c) ==
    /\ Goto(c, "loading", "done")
    /\ Reply(c, "500")
    /\ failed' = [failed EXCEPT ![c] = TRUE]
    /\ UNCHANGED <<enabled, held, counts, redisVars, tableVars, wire>>

\* A SET leaves for Redis; the client of Redis sends it again after an error.
SendSet(c) ==
    /\ pc[c] = "storing"
    /\ wire[held[c]] < MaxWire
    /\ wire' = [wire EXCEPT ![held[c]] = @ + 1]
    /\ UNCHANGED <<enabled, requestVars, redisVars, tableVars>>

\* Seeded fault: a SET that fails, fails the request.
FaultyStoreFails(c) ==
    /\ Goto(c, "storing", "done")
    /\ \/ Reply(c, held[c]) /\ UNCHANGED counts
       \/ Reply(c, "500") /\ Count(c, 0, 0, 1)
    /\ held' = [held EXCEPT ![c] = "none"]
    /\ UNCHANGED <<enabled, failed, redisVars, tableVars, wire>>

\* Set returns, with an error that is counted or without; the products are
\* answered with either way.
StoreReturns(c) ==
    /\ Goto(c, "storing", "done")
    /\ Reply(c, held[c])
    /\ held' = [held EXCEPT ![c] = "none"]
    /\ \/ UNCHANGED counts
       \/ Count(c, 0, 0, 1)
    /\ UNCHANGED <<enabled, failed, redisVars, tableVars, wire>>

\* The process ends with its requests and another one starts; Redis answers its
\* Ping within the 10 s of startup or is not used for this life.
Restart ==
    /\ enabled' \in BOOLEAN
    /\ pc' = [c \in Clients |-> "idle"]
    /\ held' = [c \in Clients |-> "none"]
    /\ answer' = [c \in Clients |-> "none"]
    /\ counts' = [c \in Clients |-> Untold]
    /\ failed' = [c \in Clients |-> FALSE]
    /\ UNCHANGED <<redisVars, tableVars, wire>>
-------------------------------------------------------------------------------
(***************************************************************************)
(* Redis, the table and the clock                                          *)
(***************************************************************************)

\* A SET is lost, or executed however late it comes.
DeliverSet(t) ==
    /\ wire[t] > 0
    /\ wire' = [wire EXCEPT ![t] = @ - 1]
    /\ \/ UNCHANGED redisVars
       \/ entry' = t /\ age' = 0 /\ overtaken' = (t # table)
    /\ UNCHANGED <<enabled, requestVars, tableVars>>

\* FLUSHALL, eviction by allkeys-lru or a restart of Redis, which saves nothing.
LoseKey ==
    /\ entry # "none"
    /\ entry' = "none" /\ age' = 0 /\ overtaken' = FALSE
    /\ UNCHANGED <<enabled, requestVars, tableVars, wire>>

\* Something else writes the key.
Garble ==
    /\ entry # "garbled"
    /\ entry' = "garbled" /\ age' = 0 /\ overtaken' = FALSE
    /\ UNCHANGED <<enabled, requestVars, tableVars, wire>>

ChangeTable ==
    /\ \E t \in Tables \ {table} : table' = t
    /\ quiet' = 0
    /\ UNCHANGED <<enabled, requestVars, redisVars, wire>>

\* Seeded fault: the SET is given no expiration.
FaultyTick ==
    /\ quiet' = IF quiet < TTL THEN quiet + 1 ELSE quiet
    /\ UNCHANGED <<enabled, requestVars, redisVars, table, wire>>

\* Time passes, and with its last tick the key expires.
Tick ==
    /\ quiet' = IF quiet < TTL THEN quiet + 1 ELSE quiet
    /\ \/ entry \in Tables /\ age + 1 < TTL /\ age' = age + 1 /\ UNCHANGED <<entry, overtaken>>
       \/ entry \in Tables /\ age + 1 >= TTL /\ entry' = "none" /\ age' = 0 /\ overtaken' = FALSE
       \/ entry \notin Tables /\ UNCHANGED redisVars
    /\ UNCHANGED <<enabled, requestVars, table, wire>>
-------------------------------------------------------------------------------
Lookup(c) == Bypass(c) \/ Hit(c) \/ Miss(c) \/ Garbled(c) \/ LookupFails(c)

Products(c) ==
    Ask(c) \/ Lookup(c) \/ Loaded(c) \/ LoadFails(c) \/ SendSet(c) \/ StoreReturns(c)

Next ==
    \/ \E c \in Clients : Products(c)
    \/ \E t \in Tables : DeliverSet(t)
    \/ Restart \/ LoseKey \/ Garble \/ ChangeTable \/ Tick

Spec == Init /\ [][Next]_vars

\* Time passes, and a SET returns: Redis need not answer it, but go-redis gives
\* up by timeouts of its own.  Nothing is assumed of the lookup, nor of the
\* store, whose queries have no deadline.
Fairness == WF_vars(Tick) /\ \A c \in Clients : WF_vars(StoreReturns(c))

FairSpec == Spec /\ Fairness
-------------------------------------------------------------------------------
(***************************************************************************)
(* Properties                                                              *)
(***************************************************************************)

\* The variables keep their types; in particular a client is never given what
\* could not be decoded (cache.go:72-87).
TypeOK ==
    /\ enabled \in BOOLEAN
    /\ pc \in [Clients -> {"idle", "looking", "loading", "storing", "done"}]
    /\ held \in [Clients -> Tables \cup {"none"}]
    /\ \A c \in Clients : pc[c] = "storing" => held[c] \in Tables
    /\ answer \in [Clients -> Tables \cup {"none", "500"}]
    /\ counts \in [Clients -> [hit : Nat, miss : Nat, error : Nat]]
    /\ failed \in [Clients -> BOOLEAN]
    /\ table \in Tables
    /\ quiet \in 0 .. TTL
    /\ entry \in Tables \cup {"none", "garbled"}
    /\ age \in 0 .. TTL - 1
    /\ overtaken \in BOOLEAN
    /\ wire \in [Tables -> Nat]

\* "It should not return a 5xx unless Postgres itself fails"
\* (docs/08-infrastructure.md:42-44): however Redis fails, in the lookup, in the
\* SET or in what it has kept, an answer other than the products is the store's.
OnlyPostgresFails ==
    \A c \in Clients :
        pc[c] = "done" => (answer[c] \in Tables /\ ~failed[c])
                          \/ (answer[c] = "500" /\ failed[c])

\* A request is one hit or one miss whichever way its lookup failed, and only a
\* miss counts errors, at most one for the lookup and one for the SET: the hit
\* ratio of the dashboards is a ratio of requests.
LookupCountedOnce ==
    \A c \in Clients :
        pc[c] = "done" => /\ counts[c].hit + counts[c].miss = 1
                          /\ counts[c].error <= 2 * counts[c].miss

\* The products are stale for less than a TTL after a change of the table,
\* unless the change overtook the request that stored them between its query
\* and its SET (cache.go:88-100): nothing prolongs an entry.
StaleOnlyForTTL ==
    entry \in Tables /\ entry # table /\ ~overtaken => quiet < TTL

\* Once the table no longer changes, in the end no stale products are in Redis,
\* whatever late SETs and overtaken requests left there.
EventuallyFresh ==
    \A t \in Tables : <>[](table = t) => <>[](entry \in Tables => entry = t)
===============================================================================
