------------------------------- MODULE OrderApi -------------------------------
(***************************************************************************)
(* The write path of the api binary: POST /orders from the decoded body to *)
(* the answer, the INSERT it waits for, the three order counters, and the  *)
(* goroutine that publishes the order event after the handler has moved    *)
(* on, all inside a process that can crash, drain and be started again.    *)
(*                                                                         *)
(* A request is named by the order it would insert, so an element of       *)
(* Orders is a request, a row of the table orders and an event, whichever  *)
(* of the three the program has got to.                                    *)
(***************************************************************************)
EXTENDS Integers, Sequences, FiniteSets

CONSTANTS
    Orders,         \* the POST /orders requests clients send
    MaxAttempts     \* produce requests the Kafka writer spends on one event

ASSUME OrderApiAssumption ==
    /\ IsFiniteSet(Orders)
    /\ MaxAttempts \in Nat \ {0}

\* State of the process, lost when it dies.
VARIABLES
    proc,           \* "down", "up", "draining" (srv.Shutdown) or "closing" (defers)
    producer,       \* "enabled" or "disabled": Producer.enabled, fixed at start
    req,            \* req[o]: where the handler of o is
    created,        \* orders_created_total
    published,      \* orders_published_total
    publishErrors,  \* orders_publish_errors_total
    job,            \* job[o]: the publishing of o, by a goroutine if at all
    batch           \* events held by the Kafka writer, not yet acknowledged

\* State outside the process, which survives it.
VARIABLES
    resp,           \* resp[o]: the answer the client of o was given
    stmts,          \* INSERTs the database has received and not yet decided
    rows,           \* committed rows of the table orders
    attempts,       \* attempts[o]: produce requests sent for o
    wire,           \* wire[o]: produce requests for o on their way to the broker
    log             \* the topic "orders" (one partition)

dbVars      == <<stmts, rows>>
counterVars == <<created, published, publishErrors>>
writerVars  == <<job, batch>>
brokerVars  == <<attempts, wire, log>>
handlerVars == <<req, resp>>
vars == <<proc, producer, handlerVars, counterVars, writerVars, dbVars, brokerVars>>

Active  == {"checking", "inserting", "counting", "publishing", "replying"}
Serving == {"up", "draining"}       \* the states in which handlers run
Running == {"spawned", "writing"}   \* a publishing goroutine that has not ended

Logged == {log[i] : i \in 1 .. Len(log)}
-------------------------------------------------------------------------------
Init ==
    /\ proc = "down"
    /\ producer = "disabled"
    /\ req = [o \in Orders |-> "idle"]
    /\ resp = [o \in Orders |-> "none"]
    /\ created = 0 /\ published = 0 /\ publishErrors = 0
    /\ job = [o \in Orders |-> "none"]
    /\ batch = {}
    /\ stmts = {} /\ rows = {}
    /\ attempts = [o \in Orders |-> 0]
    /\ wire = [o \in Orders |-> 0]
    /\ log = <<>>

(***************************************************************************)
(* The handler of one request                                              *)
(***************************************************************************)

\* The handler of o moves from one of its steps to the next.
Step(o, from, to) ==
    /\ proc \in Serving
    /\ req[o] = from
    /\ req' = [req EXCEPT ![o] = to]

\* The handler of o writes its answer and returns.
Answer(o, from, status) ==
    /\ Step(o, from, "done")
    /\ resp' = [resp EXCEPT ![o] = status]

\* The body is decoded; unknown fields, bad JSON and qty <= 0 are answered 400.
\* A connection accepted before Shutdown may still bring its request to here.
Receive(o) ==
    /\ \/ Answer(o, "idle", "400")
       \/ Step(o, "idle", "checking") /\ UNCHANGED resp
    /\ UNCHANGED <<proc, producer, counterVars, writerVars, dbVars, brokerVars>>

\* The product is missing (404) or the query fails or is cancelled (500).
RejectProduct(o) ==
    /\ \E status \in {"404", "500"} : Answer(o, "checking", status)
    /\ UNCHANGED <<proc, producer, counterVars, writerVars, dbVars, brokerVars>>

\* Seeded fault: the INSERT is sent and not waited for.
FaultyInsertNotAwaited(o) ==
    /\ Step(o, "checking", "counting")
    /\ stmts' = stmts \cup {o}
    /\ UNCHANGED <<proc, producer, resp, counterVars, writerVars, rows, brokerVars>>

\* The product exists: the INSERT goes to the database and the handler waits.
SendInsert(o) ==
    /\ Step(o, "checking", "inserting")
    /\ stmts' = stmts \cup {o}
    /\ UNCHANGED <<proc, producer, resp, counterVars, writerVars, rows, brokerVars>>

\* RETURNING id is read back: the row is committed.
InsertDone(o) ==
    /\ o \in rows
    /\ Step(o, "inserting", "counting")
    /\ UNCHANGED <<proc, producer, resp, counterVars, writerVars, dbVars, brokerVars>>

\* The database refuses, the connection breaks or the client's context is
\* cancelled.  The last two leave the statement to the database, which may
\* commit it before or after this answer.
InsertFailed(o) ==
    /\ Answer(o, "inserting", "500")
    /\ UNCHANGED <<proc, producer, counterVars, writerVars, dbVars, brokerVars>>

CountCreated(o) ==
    /\ Step(o, "counting", "publishing")
    /\ created' = created + 1
    /\ UNCHANGED <<proc, producer, resp, published, publishErrors, writerVars,
                   dbVars, brokerVars>>

\* PublishOrder returns at once: a disabled producer counts an error and the
\* event has failed, an enabled one starts the goroutine.  (Marshalling an
\* OrderEvent cannot fail.)
PublishOrder(o) ==
    /\ Step(o, "publishing", "replying")
    /\ \/ /\ producer = "disabled"
          /\ publishErrors' = publishErrors + 1
          /\ job' = [job EXCEPT ![o] = "failed"]
       \/ /\ producer = "enabled"
          /\ job' = [job EXCEPT ![o] = "spawned"]
          /\ UNCHANGED publishErrors
    /\ UNCHANGED <<proc, producer, resp, created, published, batch, dbVars, brokerVars>>

\* Seeded fault: a failed publication fails the request.
FaultyReplyAfterPublish(o) ==
    /\ Answer(o, "replying", IF job[o] = "failed" THEN "500" ELSE "201")
    /\ UNCHANGED <<proc, producer, counterVars, writerVars, dbVars, brokerVars>>

\* Seeded fault: the handler waits for the event to be delivered.
FaultyReplyAwaitsEvent(o) ==
    /\ o \in Logged
    /\ Answer(o, "replying", "201")
    /\ UNCHANGED <<proc, producer, counterVars, writerVars, dbVars, brokerVars>>

ReplyCreated(o) ==
    /\ Answer(o, "replying", "201")
    /\ UNCHANGED <<proc, producer, counterVars, writerVars, dbVars, brokerVars>>

-------------------------------------------------------------------------------
(***************************************************************************)
(* The publishing goroutine of one order, and the writer it calls          *)
(***************************************************************************)

\* The goroutine ends having counted a success, or an error.
EndJob(o, outcome) ==
    /\ job' = [job EXCEPT ![o] = outcome]
    /\ published' = published + (IF outcome = "ok" THEN 1 ELSE 0)
    /\ publishErrors' = publishErrors + (IF outcome = "failed" THEN 1 ELSE 0)
    /\ UNCHANGED created

\* WriteMessages hands the event to the writer, or fails before it does: no
\* partition is known, or main's deferred producer.Close came first.
EnterWrite(o) ==
    /\ proc # "down"
    /\ job[o] = "spawned"
    /\ \/ /\ job' = [job EXCEPT ![o] = "writing"]
          /\ batch' = batch \cup {o}
          /\ UNCHANGED counterVars
       \/ EndJob(o, "failed") /\ UNCHANGED batch
    /\ UNCHANGED <<proc, producer, handlerVars, dbVars, brokerVars>>

\* Seeded fault: the goroutine writes without a deadline.
FaultyNoDeadline(o) == FALSE /\ UNCHANGED vars

\* The 2 s context of the goroutine ends first.  The event stays in the
\* writer's batch and may still be delivered.
WriteTimeout(o) ==
    /\ proc # "down"
    /\ job[o] = "writing"
    /\ EndJob(o, "failed")
    /\ UNCHANGED <<proc, producer, handlerVars, batch, dbVars, brokerVars>>

\* Seeded fault: the writer retries without a limit.
FaultyRetryForever(o) ==
    /\ proc # "down"
    /\ o \in batch
    /\ attempts' = [attempts EXCEPT ![o] = @ + 1]
    /\ wire' = [wire EXCEPT ![o] = @ + 1]
    /\ UNCHANGED <<proc, producer, handlerVars, counterVars, writerVars, dbVars, log>>

\* The writer's own goroutine sends the batch, again after a lost answer.
SendProduce(o) ==
    /\ proc # "down"
    /\ o \in batch
    /\ attempts[o] < MaxAttempts
    /\ attempts' = [attempts EXCEPT ![o] = @ + 1]
    /\ wire' = [wire EXCEPT ![o] = @ + 1]
    /\ UNCHANGED <<proc, producer, handlerVars, counterVars, writerVars, dbVars, log>>

\* Seeded fault: the result is counted although the goroutine has timed out.
FaultyCountTwice(o, outcome) ==
    /\ proc # "down"
    /\ o \in batch
    /\ batch' = batch \ {o}
    /\ EndJob(o, outcome)
    /\ UNCHANGED <<proc, producer, handlerVars, dbVars, brokerVars>>

\* The batch is finished; whoever still waits in WriteMessages gets the result.
FinishBatch(o, outcome) ==
    /\ proc # "down"
    /\ o \in batch
    /\ batch' = batch \ {o}
    /\ IF job[o] = "writing"
       THEN EndJob(o, outcome)
       ELSE UNCHANGED <<job, counterVars>>
    /\ UNCHANGED <<proc, producer, handlerVars, dbVars, brokerVars>>

\* Seeded fault: RequiredAcks is RequireNone.
FaultyNoAcks(o) == attempts[o] >= 1 /\ FinishBatch(o, "ok")

\* RequiredAcks: RequireOne.  The broker acknowledges what it has appended.
Acknowledge(o) == o \in Logged /\ FinishBatch(o, "ok")

\* An error that is not retried, or the last attempt spent.
GiveUp(o) == attempts[o] >= 1 /\ FinishBatch(o, "failed")
-------------------------------------------------------------------------------
(***************************************************************************)
(* The database and the broker                                             *)
(***************************************************************************)

\* The database commits a statement, or refuses or loses it.
DecideInsert(o) ==
    /\ o \in stmts
    /\ stmts' = stmts \ {o}
    /\ rows' \in {rows, rows \cup {o}}
    /\ UNCHANGED <<proc, producer, handlerVars, counterVars, writerVars, brokerVars>>

\* The broker appends a produce request it received, or never receives it.
DeliverProduce(o) ==
    /\ wire[o] > 0
    /\ wire' = [wire EXCEPT ![o] = @ - 1]
    /\ log' \in {log, Append(log, o)}
    /\ UNCHANGED <<proc, producer, handlerVars, counterVars, writerVars, dbVars, attempts>>
-------------------------------------------------------------------------------
(***************************************************************************)
(* The life of the process                                                 *)
(***************************************************************************)

\* main has opened the store; Kafka was reachable within 2 s or publishing is
\* off until the next start.
Start ==
    /\ proc = "down"
    /\ proc' = "up"
    /\ producer' \in {"enabled", "disabled"}
    /\ created' = 0 /\ published' = 0 /\ publishErrors' = 0
    /\ UNCHANGED <<handlerVars, writerVars, dbVars, brokerVars>>

\* SIGINT or SIGTERM: the listener closes, requests in flight go on.
Signal ==
    /\ proc = "up"
    /\ proc' = "draining"
    /\ UNCHANGED <<producer, handlerVars, counterVars, writerVars, dbVars, brokerVars>>

\* Seeded fault: Shutdown is called and not waited for.
FaultyDrainNotAwaited ==
    /\ proc = "draining"
    /\ proc' = "closing"
    /\ UNCHANGED <<producer, handlerVars, counterVars, writerVars, dbVars, brokerVars>>

\* srv.Shutdown returns nil: no handler is left.  Goroutines are not waited for.
Drained ==
    /\ proc = "draining"
    /\ \A o \in Orders : req[o] \notin Active
    /\ proc' = "closing"
    /\ UNCHANGED <<producer, handlerVars, counterVars, writerVars, dbVars, brokerVars>>

\* Whatever ends the process ends its handlers, goroutines and writer with it.
Die ==
    /\ proc' = "down"
    /\ req' = [o \in Orders |-> IF req[o] \in Active THEN "done" ELSE req[o]]
    /\ resp' = [o \in Orders |-> IF req[o] \in Active THEN "cut" ELSE resp[o]]
    /\ job' = [o \in Orders |-> IF job[o] \in Running THEN "killed" ELSE job[o]]
    /\ batch' = {}
    /\ UNCHANGED <<producer, counterVars, dbVars, brokerVars>>

\* Seeded fault: Shutdown is given a context without a deadline.
FaultyUnboundedDrain == FALSE /\ UNCHANGED vars

\* The drain outlives SHUTDOWN_TIMEOUT: srv.Close and os.Exit(1), no defers.
DrainTimeout ==
    /\ proc = "draining"
    /\ \E o \in Orders : req[o] \in Active
    /\ Die

\* producer.Close has flushed the writer and waited for every WriteMessages
\* that had entered it; the other defers run and main returns.
Exit ==
    /\ proc = "closing"
    /\ batch = {}
    /\ \A o \in Orders : job[o] # "writing"
    /\ Die

Crash == proc # "down" /\ Die
-------------------------------------------------------------------------------
Handler(o) ==
    \/ RejectProduct(o)
    \/ SendInsert(o)
    \/ InsertDone(o)
    \/ InsertFailed(o)
    \/ CountCreated(o)
    \/ PublishOrder(o)
    \/ ReplyCreated(o)

Publisher(o) ==
    \/ EnterWrite(o)
    \/ WriteTimeout(o)
    \/ SendProduce(o)
    \/ Acknowledge(o)
    \/ GiveUp(o)

Next ==
    \/ \E o \in Orders :
          \/ Receive(o)
          \/ Handler(o)
          \/ Publisher(o)
          \/ DecideInsert(o)
          \/ DeliverProduce(o)
    \/ Start \/ Signal \/ Drained \/ DrainTimeout \/ Exit \/ Crash

Spec == Init /\ [][Next]_vars

(***************************************************************************)
(* Fair are the steps nothing outside the process can hold up: what a      *)
(* handler does once its INSERT has answered, the goroutine's call of      *)
(* WriteMessages and the end of its 2 s context, and the two ways out of   *)
(* srv.Shutdown.  The queries of a handler have no deadline of their own,  *)
(* so nothing is assumed of them, nor of clients, signals, crashes and     *)
(* restarts, the database, the broker and the writer's retries.            *)
(***************************************************************************)
Fairness ==
    /\ \A o \in Orders :
          /\ WF_vars(CountCreated(o))
          /\ WF_vars(PublishOrder(o))
          /\ WF_vars(ReplyCreated(o))
          /\ WF_vars(EnterWrite(o))
          /\ WF_vars(WriteTimeout(o))
    /\ WF_vars(Drained)
    /\ WF_vars(DrainTimeout)

FairSpec == Spec /\ Fairness
-------------------------------------------------------------------------------
(***************************************************************************)
(* Properties                                                              *)
(***************************************************************************)

\* The variables range over the values the comments beside them name.
TypeOK ==
    /\ proc \in {"down", "up", "draining", "closing"}
    /\ producer \in {"enabled", "disabled"}
    /\ req \in [Orders -> {"idle", "done"} \cup Active]
    /\ resp \in [Orders -> {"none", "201", "400", "404", "500", "cut"}]
    /\ created \in Nat /\ published \in Nat /\ publishErrors \in Nat
    /\ job \in [Orders -> {"none", "ok", "failed", "killed"} \cup Running]
    /\ batch \subseteq Orders
    /\ stmts \subseteq Orders
    /\ rows \subseteq Orders
    /\ attempts \in [Orders -> 0 .. MaxAttempts]
    /\ wire \in [Orders -> Nat]
    /\ log \in Seq(Orders)

\* Postgres is the source of truth: an event that is in the topic, on its way
\* to it or waiting in the writer is of an order whose row is committed,
\* whatever crashed, was retried or came late (handlers.go:65-76).
EventHasRow ==
    \A o \in Orders :
        (o \in Logged \/ wire[o] > 0 \/ o \in batch \/ job[o] \in Running) => o \in rows

\* What a client was told agrees with the table for good: a 201 has its row,
\* a 400 or a 404 never gets one, not even from a statement still in flight.
\* (A 500 or a cut connection promises nothing either way.)
AnswerMatchesTable ==
    \A o \in Orders :
        /\ resp[o] = "201" => o \in rows
        /\ resp[o] \in {"400", "404"} => o \notin rows \cup stmts

\* "A failure here never fails the request that already committed the order"
\* (producer.go:1-3): an order the handler went on to publish is answered 201
\* or not at all, however its event fared, in a goroutine or at once because the
\* producer is disabled.
PublishNeverFailsRequest ==
    \A o \in Orders :
        (o \in Logged \/ job[o] # "none") => resp[o] \in {"none", "201", "cut"}

\* Orders counted in orders_created_total whose publication has not been
\* counted in either of the other two counters yet.
Unsettled == {o \in Orders : req[o] = "publishing" \/ job[o] \in Running}

\* The three counters of a running process always balance: every created order
\* is published, failed, or has exactly one handler or goroutine left to say
\* which.  No race of the 2 s deadline with a late acknowledgement counts an
\* order twice or loses it.
PublishAccounting ==
    proc # "down" => created = published + publishErrors + Cardinality(Unsettled)

\* orders_published_total never overstates: there are at least as many distinct
\* orders in the topic as the process says it has published.
PublishedIsLogged ==
    proc # "down" => published <= Cardinality(Logged)

\* A created order is answered, and neither Kafka nor the publishing goroutine
\* can hold the answer up; only the end of the process can.
CreatedIsAnswered ==
    \A o \in Orders : req[o] = "counting" ~> resp[o] \in {"201", "cut"}

\* No publishing goroutine leaks: the broker may never answer and the writer
\* may never retry, the deadline ends it (producer.go:111).
JobSettles ==
    \A o \in Orders : job[o] \in Running ~> job[o] \notin Running

\* The drain is bounded: a signalled process stops serving although a handler
\* may wait for the database for ever (main.go:105-112).
DrainEnds == proc = "draining" ~> proc \notin Serving

\* The end of the process as the requests for orders see it: whatever else it
\* holds up, no way out that runs the deferred calls, producer.Close among them,
\* leaves a handler that may still publish (main.go:103-114).
InHandlers == {o \in Orders : req[o] \in Active}
Life == INSTANCE ProcessLife WITH Work <- Orders, life <- proc, active <- InHandlers
ImplementsProcessLife == Life!Spec
===============================================================================
