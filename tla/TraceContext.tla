------------------------------ MODULE TraceContext ------------------------------
(***************************************************************************)
(* How one trace spans the two binaries: TraceHTTP continues what the      *)
(* client sends, timed and PublishOrder start children, a Kafka header     *)
(* carries the context as text, the consumer continues it, and histograms  *)
(* point at it with exemplars.                                             *)
(*                                                                         *)
(* An id is a number: 0 is the all-zero id, Garbled one that is not hex or *)
(* has the wrong length.  A span gets an id no other span has, which the   *)
(* actions derive from what starts it instead of drawing it: request r has *)
(* 10 * r to 10 * r + 4, the consumption of foreign message n 10 * n + 5.  *)
(***************************************************************************)
EXTENDS Integers, FiniteSets, Sequences

CONSTANTS
    Requests,           \* requests, each made once: 1 .. n
    Upstream,           \* contexts that clients send and the otel propagator accepts
    ForeignHeaders,     \* traceparent headers of messages this api did not write
    MaxForeign          \* bound on such messages

VARIABLES
    exporting,  \* exporting[s]: service s has an OTLP endpoint
    pc,         \* pc[r]: how far the handler of r has come
    server,     \* server[r]: the context its handler runs in
    db,         \* db[r]: the context of its last query
    spans,      \* every span started
    publishing, \* the goroutines of PublishOrder, as contexts of their spans
    topic,      \* the messages that are not consumed, with the id their span will get
    foreign,    \* how many foreign messages were written
    exemplars,  \* the trace ids that histograms point at
    batch,      \* trace ids of ended spans that the api has still to export
    sent        \* the trace ids of which the api has sent a span to Tempo

vars == <<exporting, pc, server, db, spans, publishing, topic, foreign, exemplars, batch, sent>>

Contexts == [trace : Nat \ {0}, span : Nat \ {0}, sampled : BOOLEAN]
NoContext == [trace |-> 0, span |-> 0, sampled |-> FALSE]
Garbled == -1
IsValid(sc) == sc.trace # 0 /\ sc.span # 0
-------------------------------------------------------------------------------
(***************************************************************************)
(* The header, as its fields between dashes; no header is the empty        *)
(* sequence.                                                               *)
(***************************************************************************)

\* Seeded fault: the flags are not taken from the context.
FaultyFormatTraceparent(sc) == <<"00", sc.trace, sc.span, "01">>

FormatTraceparent(sc) == <<"00", sc.trace, sc.span, IF sc.sampled THEN "01" ELSE "00">>

\* What Sscanf with %02x reads from two characters: it stops at the first that
\* is not a hex digit, and fails only if it has none by then.
Flags == [f \in {"00", "01", "1z", "z1"} |->
    [ok |-> f # "z1", sampled |-> f \in {"01", "1z"}]]

\* ok and a context, or not ok.
ParseTraceparent(text) ==
    IF /\ Len(text) = 4
       /\ text[1] = "00"
       /\ text[2] \notin {0, Garbled} /\ text[3] \notin {0, Garbled}
       /\ text[4] \in DOMAIN Flags /\ Flags[text[4]].ok
    THEN [ok |-> TRUE,
          sc |-> [trace |-> text[2], span |-> text[3], sampled |-> Flags[text[4]].sampled]]
    ELSE [ok |-> FALSE, sc |-> NoContext]

\* The contexts of others that the two binaries may continue.
Outside ==
    Upstream \cup
        {ParseTraceparent(text).sc : text \in {h \in ForeignHeaders : ParseTraceparent(h).ok}}

\* Others decide once for a trace whether it is sampled, and the ids they draw
\* for their traces are none of those drawn here, which are multiples of 5.
ASSUME TraceContextAssumption ==
    /\ Requests \subseteq Nat \ {0}
    /\ MaxForeign \in Nat
    /\ Outside \subseteq Contexts
    /\ \A a, b \in Outside : a.trace = b.trace => a.sampled = b.sampled
    /\ \A a \in Outside : a.trace % 5 # 0
-------------------------------------------------------------------------------
Init ==
    /\ exporting \in [{"api", "consumer"} -> BOOLEAN]
    /\ pc = [r \in Requests |-> "new"]
    /\ server = [r \in Requests |-> NoContext]
    /\ db = [r \in Requests |-> NoContext]
    /\ spans = {} /\ publishing = {}
    /\ topic = <<>> /\ foreign = 0
    /\ exemplars = {}
    /\ batch = {} /\ sent = {}

\* The contexts a new span can get: a child is sampled as its parent is, a root
\* as the ratio decides, or always if InitTracer was given no endpoint.
NewContexts(service, parent, id) ==
    IF IsValid(parent)
    THEN {[parent EXCEPT !.span = id]}
    ELSE {[trace |-> id, span |-> id, sampled |-> s] :
             s \in IF exporting[service] THEN BOOLEAN ELSE {TRUE}}

\* cause is the context of the publishing that led to the span.
Start(kind, sc, parent, cause) ==
    spans' = spans \cup {[kind |-> kind, sc |-> sc, parent |-> parent, cause |-> cause]}

\* A span of the api ends.
End(sc) == batch' = IF exporting["api"] /\ sc.sampled THEN batch \cup {sc.trace} ELSE batch

\* Seeded fault: the check for a sampled span is left out.
FaultyexemplarFor(sc) == {sc.trace}

exemplarFor(sc) == IF IsValid(sc) /\ sc.sampled THEN {sc.trace} ELSE {}
-------------------------------------------------------------------------------
(***************************************************************************)
(* The api                                                                 *)
(***************************************************************************)

\* A business or control route, traced by TraceHTTP.
Receive(r) ==
    /\ pc[r] = "new"
    /\ \E parent \in Upstream \cup {NoContext} : \E sc \in NewContexts("api", parent, 10 * r) :
        /\ Start("server", sc, parent, NoContext)
        /\ server' = [server EXCEPT ![r] = sc]
    /\ pc' = [pc EXCEPT ![r] = "routed"]
    /\ UNCHANGED <<exporting, db, publishing, topic, foreign, exemplars, batch, sent>>

\* GET /health runs in the plain chain, without a span.
ReceivePlain(r) ==
    /\ pc[r] = "new"
    /\ pc' = [pc EXCEPT ![r] = "plain"]
    /\ UNCHANGED <<exporting, server, db, spans, publishing, topic, foreign, exemplars,
                   batch, sent>>

\* store.timed, the first query of a route or the second of POST /orders: its
\* span is started, and the histogram observes it when the query has returned,
\* with or without an error.
Query(r) ==
    /\ pc[r] \in {"routed", "checked"}
    /\ pc' = [pc EXCEPT ![r] = IF @ = "routed" THEN "check timed" ELSE "insert timed"]
    /\ \E sc \in NewContexts("api", server[r], 10 * r + IF pc[r] = "routed" THEN 1 ELSE 2) :
        /\ Start("db", sc, server[r], NoContext)
        /\ db' = [db EXCEPT ![r] = sc]
        /\ exemplars' = exemplars \cup exemplarFor(sc)
    /\ UNCHANGED <<exporting, server, publishing, topic, foreign, batch, sent>>

\* Seeded fault: the span of a query that fails is not ended.
FaultyEndQuery(r) ==
    /\ pc[r] \in {"check timed", "insert timed"}
    /\ pc' = [pc EXCEPT ![r] = IF @ = "check timed" THEN "checked" ELSE "inserted"]
    /\ End(db[r]) \/ UNCHANGED batch
    /\ UNCHANGED <<exporting, server, db, spans, publishing, topic, foreign, exemplars, sent>>

\* The deferred End of the span of a query.
EndQuery(r) ==
    /\ pc[r] \in {"check timed", "insert timed"}
    /\ pc' = [pc EXCEPT ![r] = IF @ = "check timed" THEN "checked" ELSE "inserted"]
    /\ End(db[r])
    /\ UNCHANGED <<exporting, server, db, spans, publishing, topic, foreign, exemplars, sent>>

\* PublishOrder: the span is started before the goroutine, which ends it.
PublishOrder(r) ==
    /\ pc[r] = "inserted"
    /\ pc' = [pc EXCEPT ![r] = "published"]
    /\ \E sc \in NewContexts("api", server[r], 10 * r + 3) :
        /\ Start("producer", sc, server[r], NoContext)
        /\ publishing' = publishing \cup {sc}
    /\ UNCHANGED <<exporting, server, db, topic, foreign, exemplars, batch, sent>>

\* The handler returns to Instrument, which observes its duration; the span it
\* ran in is still open.
Return(r) ==
    /\ pc[r] \in {"plain", "routed", "checked", "inserted", "published"}
    /\ pc' = [pc EXCEPT ![r] = "timed"]
    /\ exemplars' = exemplars \cup exemplarFor(server[r])
    /\ UNCHANGED <<exporting, server, db, spans, publishing, topic, foreign, batch, sent>>

\* TraceHTTP returns, and its deferred End ends the span if there is one.
EndServer(r) ==
    /\ pc[r] = "timed"
    /\ pc' = [pc EXCEPT ![r] = "done"]
    /\ End(server[r])
    /\ UNCHANGED <<exporting, server, db, spans, publishing, topic, foreign, exemplars, sent>>

\* The goroutine writes its message.  An error leaves open whether the broker
\* has it.
Write(sc) ==
    /\ publishing' = publishing \ {sc}
    /\ \/ topic' = Append(topic, [header |-> FormatTraceparent(sc), cause |-> sc,
                                  id |-> sc.span + 1])
       \/ UNCHANGED topic
    /\ End(sc)
    /\ UNCHANGED <<exporting, pc, server, db, spans, foreign, exemplars, sent>>
-------------------------------------------------------------------------------
(***************************************************************************)
(* The topic, the consumer and Tempo                                       *)
(***************************************************************************)

\* Somebody else writes to the topic.
WriteForeign ==
    /\ foreign < MaxForeign
    /\ foreign' = foreign + 1
    /\ \E text \in ForeignHeaders :
        topic' = Append(topic, [header |-> text, cause |-> NoContext, id |-> 10 * foreign' + 5])
    /\ UNCHANGED <<exporting, pc, server, db, spans, publishing, exemplars, batch, sent>>

\* One round of the loop: a header that is missing or refused makes a root.
Consume ==
    /\ topic # <<>>
    /\ topic' = Tail(topic)
    /\ LET message == Head(topic)
           parent == ParseTraceparent(message.header).sc
       IN \E sc \in NewContexts("consumer", parent, message.id) :
            Start("consumer", sc, parent, message.cause)
    /\ UNCHANGED <<exporting, pc, server, db, publishing, foreign, exemplars, batch, sent>>

\* The batcher sends what it has, and forgets it whether Tempo takes it or not.
Export ==
    /\ batch # {}
    /\ batch' = {}
    /\ sent' = sent \cup batch
    /\ UNCHANGED <<exporting, pc, server, db, spans, publishing, topic, foreign, exemplars>>

Next ==
    \/ \E r \in Requests :
        \/ Receive(r) \/ ReceivePlain(r) \/ Query(r) \/ EndQuery(r)
        \/ PublishOrder(r) \/ Return(r) \/ EndServer(r)
    \/ \E sc \in publishing : Write(sc)
    \/ WriteForeign \/ Consume \/ Export

Spec == Init /\ [][Next]_vars

\* The batcher exports every few seconds, and nothing holds up a deferred End.
FairSpec ==
    /\ Spec
    /\ WF_vars(Export)
    /\ \A r \in Requests : WF_vars(EndQuery(r) \/ EndServer(r))
-------------------------------------------------------------------------------
Kinds == {"server", "db", "producer", "consumer"}
Parents == Contexts \cup {NoContext}
Stages == {"new", "plain", "routed", "check timed", "checked", "insert timed", "inserted",
           "published", "timed", "done"}

\* The variables range over what the comments beside them name.
TypeOK ==
    /\ exporting \in [{"api", "consumer"} -> BOOLEAN]
    /\ pc \in [Requests -> Stages]
    /\ server \in [Requests -> Parents] /\ db \in [Requests -> Parents]
    /\ spans \subseteq [kind : Kinds, sc : Contexts, parent : Parents, cause : Parents]
    /\ publishing \subseteq Contexts
    /\ \A i \in 1 .. Len(topic) :
          /\ topic[i].cause \in Parents /\ topic[i].id \in Nat \ {0}
          /\ \/ topic[i].header \in ForeignHeaders
             \/ topic[i].header = FormatTraceparent(topic[i].cause)
    /\ foreign \in 0 .. MaxForeign
    /\ exemplars \subseteq Nat /\ batch \subseteq Nat /\ sent \subseteq Nat

\* A trace is one tree across HTTP and Kafka: queries and publishing hang from
\* the span of their request, the consumption of an order hangs from its very
\* publishing, also when that request has long returned, and all spans of a
\* trace are sampled alike, whatever ratio and endpoint the services have
\* (internal/obs/propagation.go, cmd/consumer/main.go:102-106).
TracesAreWhole ==
    \A s \in spans :
        /\ s.kind \in {"db", "producer"} =>
              \E p \in spans : p.kind = "server" /\ p.sc = s.parent
        /\ s.kind = "consumer" /\ s.cause # NoContext => s.parent = s.cause
        /\ IsValid(s.sc)
        /\ \A t \in spans : s.sc.trace = t.sc.trace => s.sc.sampled = t.sc.sampled

\* The traces a request can be of.
TraceIds == {sc.trace : sc \in Upstream} \cup {10 * r : r \in Requests}

\* The exemplars of the span of r that was observed and is still open.
Seen(r) ==
    CASE pc[r] \in {"check timed", "insert timed"} -> exemplarFor(db[r])
      [] pc[r] = "timed"                          -> exemplarFor(server[r])
      [] OTHER                                    -> {}

\* An exemplar of an api that exports leads to a trace of which Tempo is sent a
\* span: none points at a trace that is never recorded
\* (internal/metrics/exemplar.go:10-22), although it can be scraped before its
\* span has ended.
ExemplarsResolve ==
    \A id \in TraceIds :
        (id \in exemplars /\ exporting["api"]) ~> id \in sent

\* What can be said of it at any moment: the trace of an exemplar was sent, or
\* is waiting to be, or the span that was observed is about to end.
ExemplarsAccounted ==
    exporting["api"] =>
        exemplars \subseteq batch \cup sent \cup UNION {Seen(r) : r \in Requests}
===============================================================================
