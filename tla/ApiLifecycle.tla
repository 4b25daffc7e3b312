------------------------------ MODULE ApiLifecycle ------------------------------
(***************************************************************************)
(* func main of the api binary: the order in which it opens what the       *)
(* handlers use, the listener, the signal, the bounded drain, the deferred *)
(* calls, and the exits that skip them, around the handlers of DbPool.     *)
(*                                                                         *)
(* One life of the process, with an endpoint for its traces; without one   *)
(* nothing is exported and the tracer's shutdown does nothing.  The        *)
(* goroutines that publish events, which nobody waits for, and the spans   *)
(* they end are not here but in OrderApi and TraceContext.                 *)
(***************************************************************************)
EXTENDS DbPool, Sequences

VARIABLES
    phase,      \* what main opens next, then "serving", "draining", "returning", "exited"
    opened,     \* the resources that are open
    defers,     \* the deferred calls, the last one to run first
    signalled,  \* the context of signal.NotifyContext is done
    serverErr,  \* the listener has failed and its error is in the channel
    unsent,     \* handlers whose server span has ended and is not exported
    warned,     \* "tracer shutdown failed" was logged
    exit        \* "none", "0", "1" or "killed" by a signal

mainVars == <<phase, opened, defers, exit>>
spanVars == <<unsent, warned>>
vars == <<poolVars, mainVars, signalled, serverErr, spanVars>>

Startup == {"tracer", "store", "cache", "producer", "listen"}
Serving == {"serving", "draining"}

\* Signals are delivered to main and not to their default action.
Registered == \E i \in 1 .. Len(defers) : defers[i] = "stop"
-------------------------------------------------------------------------------
Init ==
    /\ PoolInit
    /\ phase = "tracer"
    /\ opened = {} /\ defers = <<>>
    /\ signalled = FALSE /\ serverErr = FALSE
    /\ unsent = {} /\ warned = FALSE
    /\ exit = "none"

\* The process ends, with whatever its handlers were doing.
Exit(code) ==
    /\ phase' = "exited"
    /\ exit' = code
    /\ opened' = {} /\ defers' = <<>>
    /\ pc' = [h \in Handlers |-> "away"]
    /\ queries' = [h \in Handlers |-> 0]
    /\ conns' = {} /\ hung' = {}
    /\ UNCHANGED <<signalled, serverErr, spanVars>>

(***************************************************************************)
(* Startup                                                                 *)
(***************************************************************************)

\* main gets past the resource it opens in this phase, and defers its closing.
Open(resource, next) ==
    /\ phase = resource
    /\ phase' = next
    /\ opened' = opened \cup {resource}
    /\ defers' = Append(defers, resource)
    /\ UNCHANGED <<poolVars, signalled, serverErr, spanVars, exit>>

\* Seeded fault: the shutdown of the tracer is not deferred.
FaultyInitTracer ==
    /\ phase = "tracer"
    /\ phase' = "store"
    /\ opened' = opened \cup {"tracer"}
    /\ UNCHANGED <<poolVars, defers, signalled, serverErr, spanVars, exit>>

InitTracer == Open("tracer", "store")

OpenStore == Open("store", "cache")

\* The tracer or the database is not there within 10 s: os.Exit(1).
StartFails == phase \in {"tracer", "store"} /\ Exit("1")

\* Redis and Kafka are optional: without them there is a disabled cache, a
\* disabled producer, and the same deferred Close.
OpenCache == Open("cache", "producer")
OpenProducer == Open("producer", "listen")

\* signal.NotifyContext, then the goroutine with ListenAndServe.
Listen ==
    /\ phase = "listen"
    /\ phase' = "serving"
    /\ defers' = Append(defers, "stop")
    /\ UNCHANGED <<poolVars, opened, signalled, serverErr, spanVars, exit>>

(***************************************************************************)
(* Requests, which an accepted connection may still bring after the         *)
(* listener has failed or Shutdown has closed it                           *)
(***************************************************************************)

Arrive(h) ==
    /\ phase \in Serving
    /\ Begin(h)
    /\ UNCHANGED <<mainVars, signalled, serverErr, spanVars>>

Handle(h) ==
    /\ phase \in Serving
    /\ Query(h)
    /\ UNCHANGED <<mainVars, signalled, serverErr, spanVars>>

\* The handler returns and TraceHTTP ends its span, which was sampled or not.
Leave(h) ==
    /\ phase \in Serving
    /\ Reply(h)
    /\ unsent' \in {unsent, unsent \cup {h}}
    /\ UNCHANGED <<mainVars, signalled, serverErr, warned>>

\* The batcher of the tracer provider gets rid of a span in the background.
Export(h) ==
    /\ "tracer" \in opened
    /\ h \in unsent
    /\ unsent' = unsent \ {h}
    /\ UNCHANGED <<poolVars, mainVars, signalled, serverErr, warned>>

(***************************************************************************)
(* The end                                                                 *)
(***************************************************************************)

ListenFails ==
    /\ phase = "serving"
    /\ serverErr' = TRUE
    /\ UNCHANGED <<poolVars, mainVars, signalled, spanVars>>

\* The select in main takes the error, although a signal may be there as well.
ServerFailed == phase = "serving" /\ serverErr /\ Exit("1")

Signal ==
    /\ phase = "serving"
    /\ signalled' = TRUE
    /\ UNCHANGED <<poolVars, mainVars, serverErr, spanVars>>

\* Before NotifyContext and after its stop a signal ends the process; in
\* between, every signal after the first is swallowed.
Kill == phase # "exited" /\ ~Registered /\ Exit("killed")

\* Seeded fault: stop is called as soon as the signal is there.
FaultyBeginDrain ==
    /\ phase = "serving" /\ signalled
    /\ phase' = "draining"
    /\ defers' = SubSeq(defers, 1, Len(defers) - 1)
    /\ UNCHANGED <<poolVars, opened, exit, signalled, serverErr, spanVars>>

BeginDrain ==
    /\ phase = "serving" /\ signalled
    /\ phase' = "draining"
    /\ UNCHANGED <<poolVars, opened, defers, exit, signalled, serverErr, spanVars>>

Drained ==
    /\ phase = "draining"
    /\ InFlight = {}
    /\ phase' = "returning"
    /\ UNCHANGED <<poolVars, opened, defers, exit, signalled, serverErr, spanVars>>

\* Seeded fault: main returns when the drain fails.
FaultyDrainTimeout ==
    /\ phase = "draining"
    /\ InFlight # {}
    /\ phase' = "returning"
    /\ UNCHANGED <<poolVars, opened, defers, exit, signalled, serverErr, spanVars>>

\* SHUTDOWN_TIMEOUT is over: srv.Close and os.Exit(1), which runs no defers.
DrainTimeout ==
    /\ phase = "draining"
    /\ InFlight # {}
    /\ Exit("1")

\* main returns.  The tracer's shutdown exports what is left, or fails.
RunDefer ==
    /\ phase = "returning"
    /\ defers # <<>>
    /\ LET last == defers[Len(defers)]
       IN /\ opened' = opened \ {last}
          /\ \/ last # "tracer" /\ UNCHANGED spanVars
             \/ last = "tracer" /\ unsent' = {} /\ UNCHANGED warned
             \/ last = "tracer" /\ warned' = TRUE /\ UNCHANGED unsent
    /\ defers' = SubSeq(defers, 1, Len(defers) - 1)
    /\ UNCHANGED <<poolVars, phase, signalled, serverErr, exit>>

Return == phase = "returning" /\ defers = <<>> /\ Exit("0")
-------------------------------------------------------------------------------
Main ==
    \/ InitTracer \/ OpenStore \/ OpenCache \/ OpenProducer \/ StartFails \/ Listen
    \/ ServerFailed \/ BeginDrain \/ Drained \/ DrainTimeout \/ RunDefer \/ Return

Next ==
    \/ Main
    \/ ListenFails \/ Signal \/ Kill
    \/ \E h \in Handlers : Arrive(h) \/ Handle(h) \/ Leave(h) \/ Export(h)

Spec == Init /\ [][Next]_vars

(***************************************************************************)
(* PostgreSQL answers a query that does not hang, and the pool hands a     *)
(* connection to one of its waiters at random, so that nobody is passed    *)
(* over for ever.  Nothing is assumed of clients, signals and queries that *)
(* hang.                                                                   *)
(***************************************************************************)
FairSpec ==
    /\ Spec
    /\ \A h \in Handlers :
          /\ WF_vars(Answered(h) /\ Handle(h))
          /\ SF_vars(Acquire(h) /\ Handle(h))
-------------------------------------------------------------------------------
TypeOK ==
    /\ PoolTypeOK
    /\ phase \in Startup \cup Serving \cup {"returning", "exited"}
    /\ opened \subseteq Startup
    /\ defers \in Seq(Startup \cup {"stop"})
    /\ signalled \in BOOLEAN /\ serverErr \in BOOLEAN /\ warned \in BOOLEAN
    /\ unsent \subseteq Handlers
    /\ exit \in {"none", "0", "1", "killed"}

\* As long as a request is in flight, all it may use is open: main opens it
\* before it listens, closes it only after the drain, and after a drain that
\* failed not at all (cmd/api/main.go).
HandlersHaveResources ==
    InFlight # {} => {"tracer", "store", "cache", "producer"} \subseteq opened

\* A process that ends with status 0 has exported the server span of every request
\* it served, or has said that it could not: the tracer is the first to be
\* deferred and thus the last to be closed (cmd/api/main.go:46-50).  The spans of
\* goroutines that still publish are outside: main does not wait for them.
CleanExitFlushes == exit = "0" => (unsent = {} \/ warned)

\* No signal cuts a request off, however many there are and whenever they come:
\* NotifyContext stays registered throughout the drain (cmd/api/main.go:82-83).
SignalCutsNobody == [][(exit = "none" /\ exit' = "killed") => InFlight = {}]_vars

\* main, with its phases and exits, is the process that OrderApi assumes: both
\* implement the same life.  What precedes the listener and what follows the
\* end of the process is being down.
LifeOfMain ==
    CASE phase = "serving" -> "up"
      [] phase = "draining" -> "draining"
      [] phase = "returning" -> "closing"
      [] OTHER -> "down"
Life == INSTANCE ProcessLife WITH Work <- Handlers, life <- LifeOfMain, active <- InFlight
ImplementsProcessLife == Life!Spec
===============================================================================
