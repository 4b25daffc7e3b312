-------------------------- MODULE ProductsCacheProofs --------------------------
(***************************************************************************)
(* Proofs about ProductsCache, for any number of clients and contents, any *)
(* TTL and any number of SETs on the wire.                                 *)
(***************************************************************************)
EXTENDS ProductsCache, TLAPS

\* Where the request of c is, what it has counted and what has failed.
RequestInv(c) ==
    /\ pc[c] # "done" => ~failed[c]
    /\ pc[c] = "looking" => counts[c] = Untold
    /\ pc[c] \in {"loading", "storing"} =>
          /\ counts[c].hit = 0 /\ counts[c].miss = 1
          /\ counts[c].error <= 1
    /\ pc[c] = "done" =>
          /\ (answer[c] \in Tables /\ ~failed[c]) \/ (answer[c] = "500" /\ failed[c])
          /\ counts[c].hit + counts[c].miss = 1
          /\ counts[c].error <= 2 * counts[c].miss

RequestsInv == \A c \in Clients : RequestInv(c)

\* An entry that was the table's content when it was set and no longer is, is
\* older than the last change.
EntryInv ==
    entry \in Tables /\ entry # table /\ ~overtaken => quiet <= age

USE DEF requestVars, redisVars, tableVars, Untold

\* Counting adds what it is told to one request and nothing to the others.
LEMMA CountAdds ==
    ASSUME TypeOK, NEW c \in Clients, NEW h \in Nat, NEW m \in Nat, NEW e \in Nat,
           Count(c, h, m, e)
    PROVE  /\ counts' \in [Clients -> [hit : Nat, miss : Nat, error : Nat]]
           /\ \A d \in Clients : d # c => counts'[d] = counts[d]
           /\ counts'[c].hit = counts[c].hit + h
           /\ counts'[c].miss = counts[c].miss + m
           /\ counts'[c].error = counts[c].error + e
<1> DEFINE told == [hit |-> counts[c].hit + h, miss |-> counts[c].miss + m,
                    error |-> counts[c].error + e]
<1>1. counts \in [Clients -> [hit : Nat, miss : Nat, error : Nat]]
    BY DEF TypeOK
<1>2. told \in [hit : Nat, miss : Nat, error : Nat]
    BY <1>1
<1>3. counts' = [counts EXCEPT ![c] = told]
    BY DEF Count
<1>4. counts'[c] = told
    BY <1>1, <1>3
<1> HIDE DEF told
<1>5. /\ counts' \in [Clients -> [hit : Nat, miss : Nat, error : Nat]]
      /\ \A d \in Clients : d # c => counts'[d] = counts[d]
    BY <1>1, <1>2, <1>3
<1>6. QED
    BY <1>4, <1>5 DEF told

\* Every step keeps every variable in its type.
LEMMA TypeStep == TypeOK /\ [Next]_vars => TypeOK'
<1> SUFFICES ASSUME TypeOK, [Next]_vars
             PROVE  TypeOK'
    OBVIOUS
<1> USE DEF TypeOK
<1>1. CASE UNCHANGED vars
    BY <1>1 DEF vars
<1>2. ASSUME NEW c \in Clients, Ask(c)
      PROVE  TypeOK'
    BY <1>2 DEF Ask, Goto, Reply
<1>3. ASSUME NEW c \in Clients, Bypass(c) \/ Miss(c) \/ Garbled(c) \/ LookupFails(c)
      PROVE  TypeOK'
  <2>1. Count(c, 0, 1, 0) \/ Count(c, 0, 1, 1)
      BY <1>3 DEF Bypass, Miss, Garbled, LookupFails
  <2>2. counts' \in [Clients -> [hit : Nat, miss : Nat, error : Nat]]
      BY <2>1, CountAdds
  <2>3. pc' = [pc EXCEPT ![c] = "loading"]
      BY <1>3 DEF Bypass, Miss, Garbled, LookupFails, Goto
  <2>4. UNCHANGED <<enabled, held, answer, failed, redisVars, tableVars, wire>>
      BY <1>3 DEF Bypass, Miss, Garbled, LookupFails
  <2>5. QED
      BY <2>2, <2>3, <2>4
<1>4. ASSUME NEW c \in Clients, Hit(c)
      PROVE  TypeOK'
  <2>1. counts' \in [Clients -> [hit : Nat, miss : Nat, error : Nat]]
      BY <1>4, CountAdds DEF Hit
  <2>2. QED
      BY <1>4, <2>1 DEF Hit, Goto, Reply
<1>5. ASSUME NEW c \in Clients, Loaded(c)
      PROVE  TypeOK'
  <2>1. UNCHANGED counts \/ Count(c, 0, 0, 1)
      BY <1>5 DEF Loaded
  <2>2. counts' \in [Clients -> [hit : Nat, miss : Nat, error : Nat]]
      BY <2>1, CountAdds
  <2>3. /\ pc' \in [Clients -> {"idle", "looking", "loading", "storing", "done"}]
        /\ held' \in [Clients -> Tables \cup {"none"}]
        /\ answer' \in [Clients -> Tables \cup {"none", "500"}]
    <3>1. /\ table \in Tables
          /\ \E to \in {"storing", "done"} : pc' = [pc EXCEPT ![c] = to]
          /\ UNCHANGED held \/ held' = [held EXCEPT ![c] = table]
          /\ UNCHANGED answer \/ answer' = [answer EXCEPT ![c] = table]
        BY <1>5 DEF Loaded, Goto, Reply
    <3>2. pc' \in [Clients -> {"idle", "looking", "loading", "storing", "done"}]
        BY <3>1
    <3>3. held' \in [Clients -> Tables \cup {"none"}]
        BY <3>1
    <3>4. answer' \in [Clients -> Tables \cup {"none", "500"}]
        BY <3>1
    <3>5. QED
        BY <3>2, <3>3, <3>4
  <2>4. \A d \in Clients : pc'[d] = "storing" => held'[d] \in Tables
      BY <1>5 DEF Loaded, Goto
  <2>5. UNCHANGED <<enabled, failed, redisVars, tableVars, wire>>
      BY <1>5 DEF Loaded
  <2>6. QED
      BY <2>2, <2>3, <2>4, <2>5
<1>6. ASSUME NEW c \in Clients, LoadFails(c)
      PROVE  TypeOK'
    BY <1>6 DEF LoadFails, Goto, Reply
<1>7. ASSUME NEW c \in Clients, SendSet(c)
      PROVE  TypeOK'
    BY <1>7 DEF SendSet
<1>8. ASSUME NEW c \in Clients, StoreReturns(c)
      PROVE  TypeOK'
  <2>1. UNCHANGED counts \/ Count(c, 0, 0, 1)
      BY <1>8 DEF StoreReturns
  <2>2. counts' \in [Clients -> [hit : Nat, miss : Nat, error : Nat]]
      BY <2>1, CountAdds
  <2>3. QED
      BY <1>8, <2>2 DEF StoreReturns, Goto, Reply
<1>9. ASSUME NEW t \in Tables, DeliverSet(t)
      PROVE  TypeOK'
  <2>1. wire' \in [Tables -> Nat] /\ UNCHANGED <<enabled, requestVars, tableVars>>
      BY <1>9 DEF DeliverSet
  <2>2. entry' \in Tables \cup {"none", "garbled"} /\ age' \in 0 .. TTL - 1
      BY <1>9, ProductsCacheAssumption DEF DeliverSet
  <2>3. overtaken' \in BOOLEAN
    <3>1. CASE UNCHANGED redisVars
        BY <3>1
    <3>2. CASE overtaken' = (t # table)
        BY <3>2, ZenonT(20)
    <3>3. QED
        BY <1>9, <3>1, <3>2 DEF DeliverSet
  <2>4. QED
      BY <2>1, <2>2, <2>3
<1>10. CASE Restart
    BY <1>10, ProductsCacheAssumption DEF Restart
<1>11. CASE LoseKey \/ Garble
  <2>1. entry' \in {"none", "garbled"} /\ age' = 0 /\ overtaken' = FALSE
      BY <1>11 DEF LoseKey, Garble
  <2>2. UNCHANGED <<enabled, requestVars, tableVars, wire>>
      BY <1>11 DEF LoseKey, Garble
  <2>3. age' \in 0 .. TTL - 1
      BY <2>1, ProductsCacheAssumption
  <2>4. QED
      BY <2>1, <2>2, <2>3
<1>12. CASE ChangeTable
    BY <1>12, ProductsCacheAssumption DEF ChangeTable
<1>13. CASE Tick
  <2>1. quiet' \in 0 .. TTL
      BY <1>13, ProductsCacheAssumption DEF Tick
  <2>2. age' \in 0 .. TTL - 1
      BY <1>13, ProductsCacheAssumption DEF Tick
  <2>3. entry' \in Tables \cup {"none", "garbled"} /\ overtaken' \in BOOLEAN
      BY <1>13 DEF Tick
  <2>4. UNCHANGED <<enabled, requestVars, table, wire>>
      BY <1>13 DEF Tick
  <2>5. QED
      BY <2>1, <2>2, <2>3, <2>4
<1>14. QED
    BY <1>1, <1>2, <1>3, <1>4, <1>5, <1>6, <1>7, <1>8, <1>9, <1>10, <1>11, <1>12, <1>13
    DEF Next, Products, Lookup

\* A step of one request leaves the others as they are.
LEMMA OtherRequests ==
    ASSUME TypeOK, RequestsInv, NEW c \in Clients, Products(c), NEW d \in Clients, d # c
    PROVE  RequestInv(d)'
<1>1. /\ pc'[d] = pc[d]
      /\ answer'[d] = answer[d]
      /\ failed'[d] = failed[d]
    BY DEF TypeOK, Products, Lookup, Ask, Bypass, Hit, Miss, Garbled, LookupFails, Loaded,
           LoadFails, SendSet, StoreReturns, Goto, Reply
<1>2. \/ UNCHANGED counts
      \/ counts' = [counts EXCEPT ![c] = Untold]
      \/ \E h, m, e \in {0, 1} : Count(c, h, m, e)
    BY DEF Products, Lookup, Ask, Bypass, Hit, Miss, Garbled, LookupFails, Loaded,
           LoadFails, SendSet, StoreReturns
<1>3. counts'[d] = counts[d]
    BY <1>2, CountAdds DEF TypeOK
<1>4. RequestInv(d)
    BY DEF RequestsInv
<1>5. QED
    BY <1>1, <1>3, <1>4 DEF RequestInv

\* A step of a request keeps its own books.
LEMMA OwnRequest ==
    ASSUME TypeOK, RequestsInv, NEW c \in Clients, Products(c)
    PROVE  RequestInv(c)'
<1> USE DEF TypeOK, RequestInv
<1>0. RequestInv(c)
    BY DEF RequestsInv
<1>1. CASE Ask(c)
    BY <1>0, <1>1 DEF Ask, Goto, Reply
<1>2. CASE Bypass(c) \/ Miss(c) \/ Garbled(c) \/ LookupFails(c)
  <2>1. PICK n \in {0, 1} : Count(c, 0, 1, n)
      BY <1>2 DEF Bypass, Miss, Garbled, LookupFails
  <2>2. pc[c] = "looking" /\ pc'[c] = "loading" /\ failed' = failed
      BY <1>2 DEF Bypass, Miss, Garbled, LookupFails, Goto
  <2>3. counts[c] = Untold
      BY <1>0, <2>2
  <2>4. counts'[c].hit = 0 /\ counts'[c].miss = 1 /\ counts'[c].error = n
      BY <2>1, <2>3, CountAdds
  <2>5. QED
      BY <1>0, <2>2, <2>4
<1>3. CASE Hit(c)
  <2>1. pc[c] = "looking" /\ pc'[c] = "done" /\ answer'[c] \in Tables /\ failed' = failed
      BY <1>3 DEF Hit, Goto, Reply
  <2>2. counts[c] = Untold
      BY <1>0, <2>1
  <2>3. counts'[c].hit = 1 /\ counts'[c].miss = 0 /\ counts'[c].error = 0
      BY <1>3, <2>2, CountAdds DEF Hit
  <2>4. QED
      BY <1>0, <2>1, <2>3
<1>4. CASE Loaded(c) \/ StoreReturns(c)
  <2>1. /\ pc[c] \in {"loading", "storing"} /\ pc'[c] \in {"storing", "done"}
        /\ pc'[c] = "done" => answer'[c] \in Tables
        /\ failed' = failed
      BY <1>4 DEF Loaded, StoreReturns, Goto, Reply
  <2>2. \/ pc'[c] = "storing" /\ UNCHANGED counts
        \/ pc'[c] = "done" /\ (UNCHANGED counts \/ Count(c, 0, 0, 1))
      BY <1>4 DEF Loaded, StoreReturns, Goto
  <2>3. counts[c].hit = 0 /\ counts[c].miss = 1 /\ counts[c].error \in {0, 1} /\ ~failed[c]
      BY <1>0, <2>1
  <2>4. /\ counts'[c].hit = 0 /\ counts'[c].miss = 1
        /\ counts'[c].error \in {0, 1, 2}
        /\ pc'[c] = "storing" => counts'[c].error \in {0, 1}
      BY <2>2, <2>3, CountAdds
  <2>5. QED
      BY <2>1, <2>3, <2>4
<1>5. CASE LoadFails(c)
    BY <1>0, <1>5 DEF LoadFails, Goto, Reply
<1>6. CASE SendSet(c)
    BY <1>0, <1>6 DEF SendSet
<1>7. QED
    BY <1>1, <1>2, <1>3, <1>4, <1>5, <1>6 DEF Products, Lookup

\* The books of all requests are kept by every step.
LEMMA RequestsStep == TypeOK /\ RequestsInv /\ [Next]_vars => RequestsInv'
<1> SUFFICES ASSUME TypeOK, RequestsInv, [Next]_vars
             PROVE  RequestsInv'
    OBVIOUS
<1>1. ASSUME NEW c \in Clients, Products(c)
      PROVE  RequestsInv'
    BY <1>1, OtherRequests, OwnRequest DEF RequestsInv
<1>2. CASE Restart
    BY <1>2 DEF Restart, RequestsInv, RequestInv
<1>3. CASE UNCHANGED requestVars
    BY <1>3 DEF RequestsInv, RequestInv
<1>4. UNCHANGED vars => UNCHANGED requestVars
    BY DEF vars
<1>5. (\E t \in Tables : DeliverSet(t)) \/ LoseKey \/ Garble \/ ChangeTable \/ Tick
          => UNCHANGED requestVars
    BY DEF DeliverSet, LoseKey, Garble, ChangeTable, Tick
<1>6. QED
    BY <1>1, <1>2, <1>3, <1>4, <1>5 DEF Next

\* Neither time nor a change of the table makes an entry younger than the change
\* that made it stale.
LEMMA EntryStep == TypeOK /\ EntryInv /\ [Next]_vars => EntryInv'
<1> SUFFICES ASSUME TypeOK, EntryInv, [Next]_vars
             PROVE  EntryInv'
    OBVIOUS
<1> USE DEF EntryInv
<1>1. CASE UNCHANGED <<redisVars, tableVars>>
    BY <1>1
<1>2. ASSUME NEW t \in Tables, DeliverSet(t)
      PROVE  EntryInv'
  <2>1. table' = table
      BY <1>2 DEF DeliverSet
  <2>2. CASE UNCHANGED redisVars
      BY <1>2, <2>2 DEF DeliverSet
  <2>3. CASE entry' = t /\ overtaken' = (t # table)
    <3>1. entry' # table' => overtaken'
        BY <2>1, <2>3, ZenonT(20)
    <3>2. QED
        BY <3>1
  <2>4. QED
      BY <1>2, <2>2, <2>3 DEF DeliverSet
<1>3. CASE LoseKey \/ Garble
    BY <1>3, ProductsCacheAssumption DEF LoseKey, Garble
<1>4. CASE ChangeTable
    BY <1>4, ProductsCacheAssumption DEF ChangeTable, TypeOK
<1>5. CASE Tick
    BY <1>5, ProductsCacheAssumption DEF Tick, TypeOK
<1>6. \A c \in Clients : Products(c) => UNCHANGED <<redisVars, tableVars>>
    BY DEF Products, Lookup, Ask, Bypass, Hit, Miss, Garbled, LookupFails, Loaded,
           LoadFails, SendSet, StoreReturns
<1>7. Restart \/ UNCHANGED vars => UNCHANGED <<redisVars, tableVars>>
    BY DEF Restart, vars
<1>8. QED
    BY <1>1, <1>2, <1>3, <1>4, <1>5, <1>6, <1>7 DEF Next

\* The three parts hold together in every reachable state.
LEMMA CacheInvariant == Spec => [](TypeOK /\ RequestsInv /\ EntryInv)
<1>1. Init => TypeOK
  <2> SUFFICES ASSUME Init
               PROVE  TypeOK
      OBVIOUS
  <2>1. Untold \in [hit : Nat, miss : Nat, error : Nat]
      OBVIOUS
  <2>2. counts \in [Clients -> [hit : Nat, miss : Nat, error : Nat]]
      BY <2>1 DEF Init
  <2>3. quiet \in 0 .. TTL /\ age \in 0 .. TTL - 1
      BY ProductsCacheAssumption DEF Init
  <2>4. QED
      BY <2>2, <2>3 DEF Init, TypeOK
<1>2. Init => RequestsInv /\ EntryInv
    BY ProductsCacheAssumption DEF Init, RequestsInv, RequestInv, EntryInv
<1>3. QED
    BY <1>1, <1>2, TypeStep, RequestsStep, EntryStep, PTL DEF Spec

\* The variables of the cache keep their types: in particular no client is given
\* what could not be decoded.
THEOREM CacheTypeCorrect == Spec => []TypeOK
BY CacheInvariant, PTL

\* Whatever Redis does, a request is answered with products or has been failed by
\* the store.
THEOREM RedisFailsNoRequest == Spec => []OnlyPostgresFails
<1>1. RequestsInv => OnlyPostgresFails
    BY DEF RequestsInv, RequestInv, OnlyPostgresFails
<1>2. QED
    BY <1>1, CacheInvariant, PTL

\* Every answered request is one hit or one miss, and errors are counted on misses.
THEOREM HitsAndMissesAreRequests == Spec => []LookupCountedOnce
<1>1. RequestsInv => LookupCountedOnce
    BY DEF RequestsInv, RequestInv, LookupCountedOnce
<1>2. QED
    BY <1>1, CacheInvariant, PTL

\* Products that no change overtook are stale for less than a TTL.
THEOREM StalenessIsBounded == Spec => []StaleOnlyForTTL
<1>1. TypeOK /\ EntryInv => StaleOnlyForTTL
    BY ProductsCacheAssumption DEF TypeOK, EntryInv, StaleOnlyForTTL
<1>2. QED
    BY <1>1, CacheInvariant, PTL
===============================================================================
