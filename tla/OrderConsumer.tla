----------------------------- MODULE OrderConsumer -----------------------------
(***************************************************************************)
(* The consumer binary: one member of the group "order-processors" reading *)
(* the topic "orders", in a process that can fail, be signalled, crash and *)
(* be started again.                                                       *)
(*                                                                         *)
(* reader.ReadMessage fetches a message and commits its offset before it   *)
(* returns, so an event is committed first and processed afterwards.  The  *)
(* offset of an event is its place in log, counted from 1.                 *)
(***************************************************************************)
EXTENDS Integers, Sequences

CONSTANTS
    Events,     \* what a producer may append
    MaxLog,     \* bound on the length of the topic
    MaxStarts   \* bound on the number of times the consumer is started

ASSUME OrderConsumerAssumption ==
    /\ MaxLog \in Nat
    /\ MaxStarts \in Nat

VARIABLES
    log,        \* the topic "orders" (one partition), only ever appended to
    committed,  \* the group's committed offset, kept by the broker
    cproc,      \* "down", "up", or "stopping" after a signal
    phase,      \* where the reading goroutine is, see Phases
    position,   \* offset of the last event the reader has handed over
    consumed,   \* orders_consumed_total of the running process
    starts,     \* history: how often the process was started
    handled     \* history: offsets in the order they were processed

\* "fetching":   in ReadMessage, waiting for a message
\* "committing": in ReadMessage, the commit of position + 1 not yet at the broker
\* "acking":     in ReadMessage, the broker has the commit, its answer is pending
\* "processing": ReadMessage has returned, the work sleeps for CONSUMER_DELAY_MS
\* "stopped":    the goroutine has returned
Phases == {"fetching", "committing", "acking", "processing", "stopped"}
InReadMessage == {"fetching", "committing", "acking"}

readerVars == <<phase, position, consumed>>
processVars == <<cproc, starts>>
vars == <<log, committed, handled, readerVars, processVars>>
-------------------------------------------------------------------------------
Init ==
    /\ log = <<>>
    /\ committed = 0
    /\ cproc = "down"
    /\ phase = "stopped"
    /\ position = 0
    /\ consumed = 0
    /\ starts = 0
    /\ handled = <<>>

\* Seeded fault: the reader begins at the first offset on every start.
FaultyStartFromFirst ==
    /\ cproc = "down"
    /\ starts < MaxStarts
    /\ starts' = starts + 1
    /\ cproc' = "up"
    /\ phase' = "fetching"
    /\ position' = 0
    /\ consumed' = 0
    /\ UNCHANGED <<log, committed, handled>>

\* The reader joins the group and begins where it committed (FirstOffset when
\* it never did); the metrics of the process begin at zero.
StartConsumer ==
    /\ cproc = "down"
    /\ starts < MaxStarts
    /\ starts' = starts + 1
    /\ cproc' = "up"
    /\ phase' = "fetching"
    /\ position' = committed
    /\ consumed' = 0
    /\ UNCHANGED <<log, committed, handled>>

\* A message has arrived and ReadMessage goes on to commit it.  A cancelled
\* context does not prevent this: the reader may find both ready.
Fetch ==
    /\ cproc # "down"
    /\ phase = "fetching"
    /\ position < Len(log)
    /\ phase' = "committing"
    /\ UNCHANGED <<log, committed, handled, position, consumed, processVars>>

\* Seeded fault: the end of the topic is committed instead of the message.
FaultyCommitEnd ==
    /\ cproc # "down"
    /\ phase = "committing"
    /\ committed' = Len(log)
    /\ phase' = "acking"
    /\ UNCHANGED <<log, handled, position, consumed, processVars>>

\* The broker records the offset of the message.
CommitOffset ==
    /\ cproc # "down"
    /\ phase = "committing"
    /\ committed' = position + 1
    /\ phase' = "acking"
    /\ UNCHANGED <<log, handled, position, consumed, processVars>>

\* ReadMessage returns the message and the work on it begins.
ReturnMessage ==
    /\ cproc # "down"
    /\ phase = "acking"
    /\ phase' = "processing"
    /\ position' = position + 1
    /\ UNCHANGED <<log, committed, handled, consumed, processVars>>

\* Seeded fault: the goroutine returns after its first event.
FaultyProcessOnce ==
    /\ cproc # "down"
    /\ phase = "processing"
    /\ handled' = Append(handled, position)
    /\ consumed' = consumed + 1
    /\ phase' = "stopped"
    /\ UNCHANGED <<log, committed, position, processVars>>

\* The sleep ends and the event is counted.
Process ==
    /\ cproc # "down"
    /\ phase = "processing"
    /\ handled' = Append(handled, position)
    /\ consumed' = consumed + 1
    /\ phase' = "fetching"
    /\ UNCHANGED <<log, committed, position, processVars>>

Die ==
    /\ cproc' = "down"
    /\ phase' = "stopped"
    /\ UNCHANGED <<log, committed, handled, position, consumed, starts>>

\* ReadMessage fails for a reason other than the signal, a refused or
\* unanswered commit included: consumerErr and os.Exit(1).
ReadFails ==
    /\ cproc = "up"
    /\ phase \in InReadMessage
    /\ Die

SignalConsumer ==
    /\ cproc = "up"
    /\ cproc' = "stopping"
    /\ UNCHANGED <<log, committed, handled, readerVars, starts>>

\* ReadMessage fails and the context is cancelled: the goroutine returns.
LoopEnds ==
    /\ cproc = "stopping"
    /\ phase \in InReadMessage
    /\ phase' = "stopped"
    /\ UNCHANGED <<log, committed, handled, position, consumed, processVars>>

\* main returns, or gives up on srv.Shutdown; neither waits for the goroutine.
ExitConsumer == cproc = "stopping" /\ Die

CrashConsumer == cproc # "down" /\ Die

\* The api appends an event; modelled in full by OrderApi.
Produce ==
    /\ Len(log) < MaxLog
    /\ \E e \in Events : log' = Append(log, e)
    /\ UNCHANGED <<committed, handled, readerVars, processVars>>
-------------------------------------------------------------------------------
Loop == Fetch \/ CommitOffset \/ ReturnMessage \/ Process

Step ==
    \/ StartConsumer
    \/ Loop
    \/ ReadFails
    \/ SignalConsumer
    \/ LoopEnds
    \/ ExitConsumer
    \/ CrashConsumer

Next == Step \/ Produce

Spec == Init /\ [][Next]_vars

\* The loop goes on as long as the broker serves it.  A failing read, a signal,
\* a crash, the end of main and a restart merely may happen.
Fairness == WF_vars(Loop)

FairSpec == Spec /\ Fairness
-------------------------------------------------------------------------------
(***************************************************************************)
(* Properties                                                              *)
(***************************************************************************)

TypeOK ==
    /\ log \in Seq(Events)
    /\ committed \in Nat
    /\ cproc \in {"down", "up", "stopping"}
    /\ phase \in Phases
    /\ position \in Nat
    /\ consumed \in Nat
    /\ starts \in Nat
    /\ handled \in Seq(Nat)

\* At most once, in order: over all lives of the process no offset is ever
\* processed twice and none is processed after a later one, because the commit
\* precedes the work (main.go:94, main.go:110-112).
HandledOnceInOrder ==
    \A i, j \in 1 .. Len(handled) : i < j => handled[i] < handled[j]

\* The event a running process has committed and not finished.
InHand ==
    IF phase \in {"acking", "processing"} \/ (cproc = "stopping" /\ phase = "stopped")
    THEN 1 ELSE 0

\* How often a process has ended.
Ends == starts - (IF cproc = "down" THEN 0 ELSE 1)

\* What at-most-once costs, bounded: each end of the process loses at most the
\* one event it had in hand, never a batch, however signals, failed commits and
\* crashes interleave with the loop.
LossBoundedByEnds == committed - Len(handled) <= Ends + InHand

\* An event in the topic is eventually processed if the consumer stays up; it
\* is lost, or left for a later process, only when the process is ended.
ProcessedWhileUp ==
    \A i \in 1 .. MaxLog :
        (cproc = "up" /\ Len(log) >= i /\ position < i)
            ~> ((\E k \in 1 .. Len(handled) : handled[k] = i) \/ cproc # "up")

\* "messages produced - messages consumed, expressed as
\* kafka_consumergroup_lag" (docs/phases/phase-8.md:35-36): with nothing in
\* hand, the lag the exporter computes from the committed offset is the number
\* of events that are not consumed yet.
LagCountsUnconsumed ==
    phase = "fetching" => Len(log) - committed = Len(log) - Len(handled)
===============================================================================
