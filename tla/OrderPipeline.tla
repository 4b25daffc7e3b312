----------------------------- MODULE OrderPipeline -----------------------------
(***************************************************************************)
(* The api and the consumer together.  They share the topic "orders" and   *)
(* nothing else: each starts, fails and restarts on its own.               *)
(***************************************************************************)
EXTENDS OrderApi

CONSTANT MaxStarts      \* bound on the number of times the consumer is started

ASSUME OrderPipelineAssumption == MaxStarts \in Nat

VARIABLES committed, cproc, phase, position, consumed, starts, handled

\* The consumer of OrderConsumer, fed by the api instead of its Produce.
Consumer == INSTANCE OrderConsumer WITH
                Events <- Orders, MaxLog <- MaxAttempts * Cardinality(Orders)

apiVars ==
    <<proc, producer, handlerVars, counterVars, writerVars, dbVars, attempts, wire>>
consumerVars == <<committed, cproc, phase, position, consumed, starts, handled>>
pipelineVars == <<apiVars, log, consumerVars>>

PipelineInit == Init /\ Consumer!Init

PipelineNext ==
    \/ Next /\ UNCHANGED consumerVars
    \/ Consumer!Step /\ UNCHANGED apiVars

PipelineSpec == PipelineInit /\ [][PipelineNext]_pipelineVars
-------------------------------------------------------------------------------
\* The pipeline implements the ledger: rows, events and processed offsets are
\* its own, and an order is confirmed when its client has been answered 201.
Confirmed == {o \in Orders : resp[o] = "201"}
Ledger == INSTANCE OrderLedger WITH confirmed <- Confirmed
ImplementsLedger == Ledger!Spec

\* An order's event is processed at most as often as the writer tried to produce
\* it, which is MaxAttempts times: retries are the only source of repetition, and
\* no restart of the consumer, crash of the api or late delivery adds to it
\* (producer.go:47-52, cmd/consumer/main.go:94-112).
ProcessedPerAttempt ==
    \A o \in Orders :
        Cardinality({k \in 1 .. Len(handled) : log[handled[k]] = o}) <= attempts[o]

\* To the consumer the api is the producer that OrderConsumer assumes: it appends
\* events of orders, one at a time and never more than MaxAttempts for each, and
\* touches nothing of the consumer, so what holds of OrderConsumer holds here.
FeedsConsumer == Consumer!Spec
===============================================================================
