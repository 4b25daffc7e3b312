----------------------------- MODULE RequestChain -----------------------------
(***************************************************************************)
(* The middleware every route of the api but GET /metrics is wrapped in,   *)
(* from the call by net/http down to the handler and back, whether the     *)
(* handler returns or panics, and the four signals it leaves: the request  *)
(* counter, the gauge of requests in progress, the span and the canonical  *)
(* "request" line.                                                         *)
(*                                                                         *)
(* Requests run concurrently and share only the gauge.  Each call of a     *)
(* layer is a frame on the stack of its goroutine, with the functions it   *)
(* has deferred; the layers that need the status wrap the ResponseWriter   *)
(* they were given in a recorder of their own and pass that on.            *)
(***************************************************************************)
EXTENDS Integers, Sequences, FiniteSets

CONSTANTS
    Requests,   \* requests to the api
    Routes,     \* route patterns
    Class,      \* Class[t]: how NewRouter wraps t
    Codes       \* status codes the handlers write

ASSUME RequestChainAssumption ==
    /\ IsFiniteSet(Requests)
    /\ Class \in [Routes -> {"business", "control", "plain"}]
    /\ Codes \subseteq 100 .. 599

\* business, control and plain of NewRouter, outermost layer first.
Layers ==
    [business |-> <<"guard", "trace", "log", "instrument", "chaos", "handler">>,
     control  |-> <<"guard", "trace", "log", "instrument", "admin", "handler">>,
     plain    |-> <<"guard", "log", "instrument", "handler">>]

\* The layers that pass a recorder on, and those that defer functions.
Recording == {"guard", "trace", "log", "instrument"}
Deferring == {"guard", "trace", "instrument"}

\* The least status whose line is written when the API_LOG_LEVEL is debug or
\* info, warn and error.
Thresholds == {0, 400, 500}

VARIABLES
    logFrom,    \* the threshold of the process
    route,      \* route[r]: the pattern r matched
    mode,       \* mode[r]: "idle", "calling", "returning", "panicking" or "over"
    depth,      \* depth[r]: the layer that has the control, 0 for net/http
    deferred,   \* deferred[r][l]: what layer l has deferred, in that order
    heard,      \* heard[r][l]: the header the recorder of l was told, 0 for none
    sent,       \* sent[r]: the status the client is given, 0 for none yet
    panicked,   \* history: the handler of r has panicked
    inProgress, \* http_requests_in_progress, by route
    counted,    \* counted[r]: the statuses http_requests_total counted r under
    span,       \* span[r]: "none", "open", "marked" (in error), "ok" or "error"
    lines       \* lines[r]: the statuses of the canonical lines of r

stackVars == <<route, mode, depth, deferred>>
answerVars == <<heard, sent>>
signalVars == <<inProgress, counted, span, lines>>
vars == <<logFrom, stackVars, answerVars, panicked, signalVars>>

Chain(r) == Layers[Class[route[r]]]
Traced(r) == Class[route[r]] # "plain"
Unwinding == {"returning", "panicking"}

\* The status a recorder holds: 200 until it is told one.
Status(r, layer) == IF heard[r][layer] = 0 THEN 200 ELSE heard[r][layer]
-------------------------------------------------------------------------------
Init ==
    /\ logFrom \in Thresholds
    /\ route \in [Requests -> Routes]
    /\ mode = [r \in Requests |-> "idle"]
    /\ depth = [r \in Requests |-> 0]
    /\ deferred = [r \in Requests |-> [l \in Deferring |-> <<>>]]
    /\ heard = [r \in Requests |-> [l \in Recording |-> 0]]
    /\ sent = [r \in Requests |-> 0]
    /\ panicked = [r \in Requests |-> FALSE]
    /\ inProgress = [t \in Routes |-> 0]
    /\ counted = [r \in Requests |-> <<>>]
    /\ span = [r \in Requests |-> "none"]
    /\ lines = [r \in Requests |-> <<>>]

\* The control is in the given layer of r, on the way in or on the way out.
At(r, layer, modes) ==
    /\ mode[r] \in modes
    /\ depth[r] > 0
    /\ Chain(r)[depth[r]] = layer

CallNext(r) ==
    /\ depth' = [depth EXCEPT ![r] = @ + 1]
    /\ UNCHANGED <<logFrom, route, mode>>

\* The defer statements of a layer, in their order.
Defer(r, layer, functions) == deferred' = [deferred EXCEPT ![r][layer] = functions]

\* A layer that has deferred nothing is left, by a return or by a panic.
Leave(r, how) ==
    /\ depth' = [depth EXCEPT ![r] = @ - 1]
    /\ mode' = [mode EXCEPT ![r] = how]
    /\ UNCHANGED <<logFrom, route, deferred>>

\* The deferred functions of a layer run on its way out, the last one first;
\* with the one that was deferred first the layer is left.
RunDeferred(r, layer, function, how) ==
    LET functions == deferred[r][layer]
    IN  /\ At(r, layer, Unwinding)
        /\ functions # <<>>
        /\ functions[Len(functions)] = function
        /\ deferred' = [deferred EXCEPT ![r][layer] =
                           SubSeq(functions, 1, Len(functions) - 1)]
        /\ mode' = [mode EXCEPT ![r] = how]
        /\ depth' = [depth EXCEPT ![r] = IF Len(functions) = 1 THEN @ - 1 ELSE @]
        /\ UNCHANGED <<logFrom, route>>

\* Seeded fault: Instrument passes on the writer it was given, not its recorder.
FaultyAround(r) ==
    {"guard", "trace", "log"} \cap {Chain(r)[i] : i \in 1 .. depth[r] - 1}

\* The recorders a writer at the layer in control has wrapped around it.
Around(r) == Recording \cap {Chain(r)[i] : i \in 1 .. depth[r] - 1}

\* A header passes the given recorders on its way out; each keeps the first
\* header it is told, and so does net/http for the client.
WriteHeader(r, recorders, code) ==
    /\ heard' = [heard EXCEPT ![r] =
                    [l \in DOMAIN @ |-> IF l \in recorders /\ @[l] = 0 THEN code ELSE @[l]]]
    /\ sent' = [sent EXCEPT ![r] = IF @ = 0 THEN code ELSE @]

(***************************************************************************)
(* The way in                                                              *)
(***************************************************************************)

\* net/http calls the handler the mux has matched.
Serve(r) ==
    /\ mode[r] = "idle"
    /\ mode' = [mode EXCEPT ![r] = "calling"]
    /\ depth' = [depth EXCEPT ![r] = 1]
    /\ UNCHANGED <<logFrom, route, deferred, answerVars, panicked, signalVars>>

\* PanicGuard defers its recover.
EnterGuard(r) ==
    /\ At(r, "guard", {"calling"})
    /\ CallNext(r)
    /\ Defer(r, "guard", <<"recover">>)
    /\ UNCHANGED <<answerVars, panicked, signalVars>>

\* RequestLogger prepares its logger.
EnterLog(r) ==
    /\ At(r, "log", {"calling"})
    /\ CallNext(r)
    /\ UNCHANGED <<deferred, answerVars, panicked, signalVars>>

StartSpan(r) ==
    /\ At(r, "trace", {"calling"})
    /\ CallNext(r)
    /\ Defer(r, "trace", <<"end", "mark">>)
    /\ span' = [span EXCEPT ![r] = "open"]
    /\ UNCHANGED <<answerVars, panicked, inProgress, counted, lines>>

\* Seeded fault: the two defer statements are the other way round.
FaultyIncInProgress(r) ==
    /\ At(r, "instrument", {"calling"})
    /\ CallNext(r)
    /\ Defer(r, "instrument", <<"count", "dec">>)
    /\ inProgress' = [inProgress EXCEPT ![route[r]] = @ + 1]
    /\ UNCHANGED <<answerVars, panicked, counted, span, lines>>

IncInProgress(r) ==
    /\ At(r, "instrument", {"calling"})
    /\ CallNext(r)
    /\ Defer(r, "instrument", <<"dec", "count">>)
    /\ inProgress' = [inProgress EXCEPT ![route[r]] = @ + 1]
    /\ UNCHANGED <<answerVars, panicked, counted, span, lines>>

\* Chaos passes the request on, fails it, or finds its client gone.
Chaos(r) ==
    /\ At(r, "chaos", {"calling"})
    /\ \/ CallNext(r) /\ UNCHANGED <<deferred, answerVars>>
       \/ Leave(r, "returning") /\ WriteHeader(r, Around(r), 500)
       \/ Leave(r, "returning") /\ UNCHANGED answerVars
    /\ UNCHANGED <<panicked, signalVars>>

\* The token is good or not needed, or the request is refused.
RequireAdmin(r) ==
    /\ At(r, "admin", {"calling"})
    /\ \/ CallNext(r) /\ UNCHANGED <<deferred, answerVars>>
       \/ Leave(r, "returning") /\ WriteHeader(r, Around(r), 401)
    /\ UNCHANGED <<panicked, signalVars>>

\* writeJSON, which a handler calls once.
HandlerWrites(r) ==
    /\ At(r, "handler", {"calling"})
    /\ sent[r] = 0
    /\ \E code \in Codes : WriteHeader(r, Around(r), code)
    /\ UNCHANGED <<logFrom, stackVars, panicked, signalVars>>

\* Without an answer when the client has gone away (handleSlow).
HandlerReturns(r) ==
    /\ At(r, "handler", {"calling"})
    /\ Leave(r, "returning")
    /\ UNCHANGED <<answerVars, panicked, signalVars>>

HandlerPanics(r) ==
    /\ At(r, "handler", {"calling"})
    /\ Leave(r, "panicking")
    /\ panicked' = [panicked EXCEPT ![r] = TRUE]
    /\ UNCHANGED <<answerVars, signalVars>>

(***************************************************************************)
(* The way out                                                             *)
(***************************************************************************)

\* Neither Chaos nor requireAdmin does anything on the way out.
PassUp(r) ==
    /\ At(r, "chaos", Unwinding) \/ At(r, "admin", Unwinding)
    /\ Leave(r, mode[r])
    /\ UNCHANGED <<answerVars, panicked, signalVars>>

\* Instrument recovers, counts the request, as a 500 if it has panicked, and
\* panics again.
CountRequest(r) ==
    /\ RunDeferred(r, "instrument", "count", mode[r])
    /\ counted' = [counted EXCEPT ![r] =
                      Append(@, IF mode[r] = "panicking" THEN 500
                                ELSE Status(r, "instrument"))]
    /\ UNCHANGED <<answerVars, panicked, inProgress, span, lines>>

\* Seeded fault: the decrement is not deferred, a panic passes it by.
FaultyDecInProgress(r) ==
    /\ RunDeferred(r, "instrument", "dec", mode[r])
    /\ inProgress' = [inProgress EXCEPT ![route[r]] =
                         IF mode[r] = "returning" THEN @ - 1 ELSE @]
    /\ UNCHANGED <<answerVars, panicked, counted, span, lines>>

DecInProgress(r) ==
    /\ RunDeferred(r, "instrument", "dec", mode[r])
    /\ inProgress' = [inProgress EXCEPT ![route[r]] = @ - 1]
    /\ UNCHANGED <<answerVars, panicked, counted, span, lines>>

\* RequestLogger logs after the return of the next layer, and only then, at the
\* level of the status.
LogLine(r) ==
    /\ At(r, "log", {"returning"})
    /\ Leave(r, "returning")
    /\ lines' = [lines EXCEPT ![r] =
                    IF Status(r, "log") >= logFrom THEN Append(@, Status(r, "log")) ELSE @]
    /\ UNCHANGED <<answerVars, panicked, inProgress, counted, span>>

\* A panic passes RequestLogger, which defers nothing.
SkipLine(r) ==
    /\ At(r, "log", {"panicking"})
    /\ Leave(r, "panicking")
    /\ UNCHANGED <<answerVars, panicked, signalVars>>

\* TraceHTTP sets the error status of the span after the return of the next
\* layer, or in the deferred recover, which panics again.  A span that has
\* ended takes no status.
MarkSpan(r) ==
    /\ RunDeferred(r, "trace", "mark", mode[r])
    /\ span' = [span EXCEPT ![r] =
                   IF /\ @ = "open"
                      /\ mode[r] = "panicking" \/ Status(r, "trace") >= 500
                   THEN "marked" ELSE @]
    /\ UNCHANGED <<answerVars, panicked, inProgress, counted, lines>>

EndSpan(r) ==
    /\ RunDeferred(r, "trace", "end", mode[r])
    /\ span' = [span EXCEPT ![r] = IF @ = "marked" THEN "error" ELSE "ok"]
    /\ UNCHANGED <<answerVars, panicked, inProgress, counted, lines>>

\* Seeded fault: the guard recovers and leaves the answer to net/http.
FaultySilentGuard(r) ==
    /\ RunDeferred(r, "guard", "recover", "returning")
    /\ UNCHANGED <<answerVars, panicked, signalVars>>

\* Seeded fault: the guard panics again, as the layers inside it do.
FaultyGuardPanics(r) ==
    /\ RunDeferred(r, "guard", "recover", mode[r])
    /\ UNCHANGED <<answerVars, panicked, signalVars>>

\* PanicGuard recovers and answers 500 if its recorder was told no header.
LeaveGuard(r) ==
    /\ RunDeferred(r, "guard", "recover", "returning")
    /\ IF mode[r] = "panicking" /\ heard[r]["guard"] = 0
       THEN WriteHeader(r, {"guard"}, 500)
       ELSE UNCHANGED answerVars
    /\ UNCHANGED <<panicked, signalVars>>

\* net/http finishes the answer: 200 if nobody has written a header.
Finish(r) ==
    /\ mode[r] = "returning"
    /\ depth[r] = 0
    /\ mode' = [mode EXCEPT ![r] = "over"]
    /\ sent' = [sent EXCEPT ![r] = IF @ = 0 THEN 200 ELSE @]
    /\ UNCHANGED <<logFrom, route, depth, deferred, heard, panicked, signalVars>>
-------------------------------------------------------------------------------
WayIn(r) ==
    \/ Serve(r) \/ EnterGuard(r) \/ EnterLog(r) \/ StartSpan(r) \/ IncInProgress(r)
    \/ Chaos(r) \/ RequireAdmin(r) \/ HandlerWrites(r) \/ HandlerReturns(r)
    \/ HandlerPanics(r)

WayOut(r) ==
    \/ PassUp(r) \/ CountRequest(r) \/ DecInProgress(r) \/ LogLine(r) \/ SkipLine(r)
    \/ MarkSpan(r) \/ EndSpan(r) \/ LeaveGuard(r) \/ Finish(r)

Next == \E r \in Requests : WayIn(r) \/ WayOut(r)

Spec == Init /\ [][Next]_vars

\* Nothing holds up a request on its way out.  A handler may never return.
FairSpec == Spec /\ \A r \in Requests : WF_vars(WayOut(r))
-------------------------------------------------------------------------------
(***************************************************************************)
(* Properties                                                              *)
(***************************************************************************)

TypeOK ==
    /\ logFrom \in Thresholds
    /\ route \in [Requests -> Routes]
    /\ mode \in [Requests -> {"idle", "calling", "over"} \cup Unwinding]
    /\ depth \in [Requests -> Nat]
    /\ \A r \in Requests : depth[r] <= Len(Chain(r))
    /\ deferred \in [Requests -> [Deferring ->
                        Seq({"recover", "end", "mark", "dec", "count"})]]
    /\ heard \in [Requests -> [Recording -> Nat]]
    /\ sent \in [Requests -> Nat]
    /\ panicked \in [Requests -> BOOLEAN]
    /\ inProgress \in [Routes -> Nat]
    /\ counted \in [Requests -> Seq(Nat)]
    /\ span \in [Requests -> {"none", "open", "marked", "ok", "error"}]
    /\ lines \in [Requests -> Seq(Nat)]

\* The number of layers of r that have called the next one and not left.
Entered(r) == IF mode[r] = "calling" THEN depth[r] - 1 ELSE depth[r]

\* The call of Instrument for r has called the next layer and not returned.
Inside(r) == \E i \in 1 .. Entered(r) : Chain(r)[i] = "instrument"

\* The gauge is exact for every route, through all interleavings of requests
\* that return, are cut short by a layer or panic (metrics/middleware.go:31-32).
InProgressExact ==
    \A t \in Routes :
        inProgress[t] = Cardinality({r \in Requests : route[r] = t /\ Inside(r)})

\* The requests of t that Instrument has seen and the counter has not.
Uncounted(t) ==
    {r \in Requests :
        /\ route[r] = t
        /\ Inside(r) \/ mode[r] \in Unwinding \cup {"over"}
        /\ counted[r] = <<>>}

\* A scrape at any moment finds each request Instrument has seen in the gauge or
\* in the counter: the deferred count runs before the deferred decrement, as
\* it is deferred after it, for a return and for a panic.
NeverOffTheBooks == \A t \in Routes : Cardinality(Uncounted(t)) <= inProgress[t]

\* Without a panic the counter, the line, the span and the client agree on the
\* status, although each comes from a recorder of its own, also when a layer
\* answered for the handler or nobody answered; a line is missing exactly when
\* the log level drops that status.
SignalsAgree ==
    \A r \in Requests :
        mode[r] = "over" /\ ~panicked[r]
            => /\ counted[r] = <<sent[r]>>
               /\ lines[r] = IF sent[r] >= logFrom THEN <<sent[r]>> ELSE <<>>
               /\ Traced(r) => span[r] = IF sent[r] >= 500 THEN "error" ELSE "ok"

\* A panic is counted as a 500 and marks the span; the client gets a clean 500
\* unless a header was out already, and that one stands (obs/middleware.go:47-68).
PanicIsReported ==
    \A r \in Requests :
        mode[r] = "over" /\ panicked[r]
            => /\ counted[r] = <<500>>
               /\ Traced(r) => span[r] = "error"
               /\ sent[r] = IF heard[r]["instrument"] = 0 THEN 500
                            ELSE heard[r]["instrument"]

\* A request on its way out gets out: no panic escapes to the connection.
UnwindingEnds == \A r \in Requests : mode[r] \in Unwinding ~> mode[r] = "over"

\* "emits exactly one canonical "request" line after the handler returns"
\* (obs/middleware.go:75-76); "Every business, health, and admin request produces
\* exactly one" such line (docs/09-structured-logging.md:13-14), at the default
\* log level, which drops none.
OneLinePerRequest ==
    \A r \in Requests : mode[r] = "over" /\ logFrom = 0 => Len(lines[r]) = 1
===============================================================================
