-------------------------- MODULE TraceContextProofs --------------------------
(***************************************************************************)
(* Proofs about TraceContext for any number of requests and foreign        *)
(* messages, any upstream traces and any foreign headers.                  *)
(***************************************************************************)
EXTENDS TraceContext, SequenceTheorems, TLAPS

\* The contexts a span can get its trace from.
Started == {s.sc : s \in spans}
Known == Outside \cup Started

Messages ==
    [header : ForeignHeaders \cup {FormatTraceparent(sc) : sc \in Contexts},
     cause : Parents, id : Nat \ {0}]

\* A handler that may start children has its server span.
Handling == {"routed", "check timed", "checked", "insert timed", "inserted", "published"}
HandlersInv ==
    \A r \in Requests :
        pc[r] \in Handling => \E p \in spans : p.kind = "server" /\ p.sc = server[r]

\* A message of this api says of which span it is.
MessageInv(m) ==
    IF m.cause = NoContext
    THEN m.header \in ForeignHeaders
    ELSE m.header = FormatTraceparent(m.cause) /\ m.cause \in Started

TopicInv ==
    /\ topic \in Seq(Messages)
    /\ \A i \in 1 .. Len(topic) : MessageInv(topic[i])
    /\ publishing \subseteq Started

\* Foreign messages wait in the order of their ids, none of which is used yet.
WaitingInv ==
    \A i \in 1 .. Len(topic) :
        topic[i].cause = NoContext =>
            /\ topic[i].id % 10 = 5 /\ topic[i].id <= 10 * foreign + 5
            /\ \A j \in 1 .. i - 1 : topic[j].cause = NoContext => topic[j].id < topic[i].id

\* A trace id drawn here is of a request that has come, or of a foreign message
\* that waits no longer.
DrawnByRequest(id) == \E r \in Requests : id = 10 * r /\ pc[r] # "new"
DrawnForForeign(id) ==
    /\ id % 10 = 5 /\ id <= 10 * foreign + 5
    /\ \A i \in 1 .. Len(topic) : topic[i].cause = NoContext => id < topic[i].id

Drawn(id) == DrawnByRequest(id) \/ DrawnForForeign(id)

DrawnInv == \A sc \in Started : sc.trace % 5 = 0 => Drawn(sc.trace)

\* Spans of a trace are sampled alike, those of others included.
AlikeInv == \A a, b \in Known : a.trace = b.trace => a.sampled = b.sampled

\* Every span hangs where it should.
TreeInv ==
    \A s \in spans :
        /\ s.kind \in {"db", "producer"} =>
              \E p \in spans : p.kind = "server" /\ p.sc = s.parent
        /\ s.kind = "consumer" /\ s.cause # NoContext => s.parent = s.cause

TraceInv ==
    /\ TypeOK /\ HandlersInv /\ TopicInv /\ WaitingInv
    /\ DrawnInv /\ AlikeInv /\ TreeInv /\ ExemplarsAccounted
-------------------------------------------------------------------------------
USE DEF Garbled, NoContext, Contexts, Parents, IsValid

\* What this api writes into a header is what the consumer reads from it.
LEMMA HeaderRoundTrip ==
    ASSUME NEW sc \in Contexts
    PROVE  ParseTraceparent(FormatTraceparent(sc)) = [ok |-> TRUE, sc |-> sc]
<1> DEFINE flags == IF sc.sampled THEN "01" ELSE "00"
           text == FormatTraceparent(sc)
<1>1. /\ Len(text) = 4
      /\ text[1] = "00" /\ text[2] = sc.trace /\ text[3] = sc.span /\ text[4] = flags
    BY DEF FormatTraceparent
<1>2. /\ flags \in DOMAIN Flags
      /\ Flags[flags].ok
      /\ Flags[flags].sampled = sc.sampled
    <2>1. /\ ("00" # "z1") = TRUE /\ ("00" \in {"01", "1z"}) = FALSE
          /\ ("01" # "z1") = TRUE /\ ("01" \in {"01", "1z"}) = TRUE
      <3>1. "00" # "z1" /\ "00" \notin {"01", "1z"} /\ "01" # "z1" /\ "01" \in {"01", "1z"}
          OBVIOUS
      <3>2. QED
          BY <3>1
    <2>2. /\ DOMAIN Flags = {"00", "01", "1z", "z1"}
          /\ Flags["00"] = [ok |-> "00" # "z1", sampled |-> "00" \in {"01", "1z"}]
          /\ Flags["01"] = [ok |-> "01" # "z1", sampled |-> "01" \in {"01", "1z"}]
        BY DEF Flags
    <2>3. /\ Flags["00"] = [ok |-> TRUE, sampled |-> FALSE]
          /\ Flags["01"] = [ok |-> TRUE, sampled |-> TRUE]
        BY <2>1, <2>2, ZenonT(20)
    <2>4. CASE sc.sampled = TRUE
        BY <2>2, <2>3, <2>4
    <2>5. CASE sc.sampled = FALSE
        BY <2>2, <2>3, <2>5
    <2>6. QED
        BY <2>4, <2>5
<1>3. /\ sc.trace \notin {0, Garbled} /\ sc.span \notin {0, Garbled}
      /\ sc = [trace |-> sc.trace, span |-> sc.span, sampled |-> sc.sampled]
    OBVIOUS
<1> HIDE DEF text, flags
<1>4. ParseTraceparent(text) = [ok |-> TRUE, sc |-> sc]
    BY <1>1, <1>2, <1>3 DEF ParseTraceparent
<1>5. QED
    BY <1>4 DEF text

\* A foreign header is refused or continues a trace of others.
LEMMA ForeignParsed ==
    ASSUME NEW text \in ForeignHeaders
    PROVE  ParseTraceparent(text).sc \in Outside \cup {NoContext}
<1>1. CASE ParseTraceparent(text).ok
    BY <1>1 DEF Outside
<1>2. CASE ~ParseTraceparent(text).ok
    BY <1>2 DEF ParseTraceparent
<1>3. QED
    BY <1>1, <1>2

\* A child continues the trace of its parent and its sampling.
LEMMA ChildFollows ==
    ASSUME NEW service, NEW parent \in Contexts, NEW id \in Nat \ {0},
           NEW sc \in NewContexts(service, parent, id)
    PROVE  sc \in Contexts /\ sc.trace = parent.trace /\ sc.sampled = parent.sampled
    BY DEF NewContexts

\* A root begins the trace it is given the id of.
LEMMA RootDraws ==
    ASSUME NEW service, NEW id \in Nat \ {0}, NEW sc \in NewContexts(service, NoContext, id)
    PROVE  sc \in Contexts /\ sc.trace = id
<1>1. ~IsValid(NoContext)
    OBVIOUS
<1>2. PICK s \in BOOLEAN : sc = [trace |-> id, span |-> id, sampled |-> s]
    BY <1>1 DEF NewContexts
<1>3. QED
    BY <1>2

\* Spans stay alike when one more follows a known one or begins a new trace.
LEMMA AlikeGrows ==
    ASSUME AlikeInv, NEW sc \in Contexts, Known' = Known \cup {sc},
           \/ \E a \in Known : a.trace = sc.trace /\ a.sampled = sc.sampled
           \/ \A a \in Known : a.trace # sc.trace
    PROVE  AlikeInv'
    BY DEF AlikeInv

\* The traces of others are none of those drawn here.
LEMMA OutsideApart ==
    /\ Outside \subseteq Contexts
    /\ \A a \in Outside : a.trace % 5 # 0
    BY TraceContextAssumption

LEMMA StartedTyped == TypeOK => Started \subseteq Contexts /\ Known \subseteq Contexts
    BY OutsideApart DEF TypeOK, Started, Known

\* A span that is started is added to the known contexts, and no other.
LEMMA StartAdds ==
    ASSUME NEW kind \in Kinds, NEW sc \in Contexts, NEW parent \in Parents,
           NEW cause \in Parents, Start(kind, sc, parent, cause), TypeOK
    PROVE  /\ Started' = Started \cup {sc}
           /\ Known' = Known \cup {sc}
           /\ spans' \subseteq [kind : Kinds, sc : Contexts, parent : Parents, cause : Parents]
           /\ spans \subseteq spans'
           /\ \E s \in spans' : s.kind = kind /\ s.sc = sc
<1> DEFINE new == [kind |-> kind, sc |-> sc, parent |-> parent, cause |-> cause]
<1>1. spans' = spans \cup {new} /\ new.sc = sc /\ new.kind = kind
    BY DEF Start
<1>2. new \in [kind : Kinds, sc : Contexts, parent : Parents, cause : Parents]
    OBVIOUS
<1> HIDE DEF new
<1>3. Started' = Started \cup {sc}
    BY <1>1 DEF Started
<1>4. QED
    BY <1>1, <1>2, <1>3 DEF TypeOK, Known

\* Ending a span adds its trace to the batch if an exemplar can point at it.
LEMMA EndTyped ==
    ASSUME TypeOK, NEW sc \in Parents, End(sc)
    PROVE  /\ batch' \subseteq Nat /\ batch \subseteq batch'
           /\ exporting["api"] => exemplarFor(sc) \subseteq batch'
<1>1. batch \subseteq Nat /\ sc.trace \in Nat
    BY DEF TypeOK
<1>2. exemplarFor(sc) = {} \/ (exemplarFor(sc) = {sc.trace} /\ sc.sampled)
    BY DEF exemplarFor
<1>3. CASE exporting["api"] /\ sc.sampled
    <2>1. batch' = batch \cup {sc.trace}
        BY <1>3 DEF End
    <2>2. QED
        BY <1>1, <1>2, <2>1
<1>4. CASE ~(exporting["api"] /\ sc.sampled)
    <2>1. batch' = batch
        BY <1>4 DEF End
    <2>2. exporting["api"] => exemplarFor(sc) = {}
        BY <1>2, <1>4
    <2>3. QED
        BY <1>1, <2>1, <2>2
<1>5. QED
    BY <1>3, <1>4

\* Exemplars stay accounted for when a step gives none without an observed span,
\* and ends no such span without adding to the batch.
LEMMA AccountedStays ==
    ASSUME ExemplarsAccounted, exporting' = exporting, NEW new,
           exemplars' = exemplars \cup new,
           exporting["api"] => batch \cup sent \subseteq batch' \cup sent',
           exporting["api"] => \A q \in Requests : Seen(q) \subseteq Seen(q)' \cup batch',
           exporting["api"] => \E q \in Requests : new \subseteq Seen(q)'
    PROVE  ExemplarsAccounted'
    BY DEF ExemplarsAccounted

\* What a handler has open stays so while only others move.
LEMMA SeenStays ==
    ASSUME NEW q \in Requests, pc'[q] = pc[q], server'[q] = server[q], db'[q] = db[q]
    PROVE  Seen(q)' = Seen(q)
    BY DEF Seen, exemplarFor
-------------------------------------------------------------------------------
(***************************************************************************)
(* What keeps the parts of the invariant                                   *)
(***************************************************************************)

\* The topic is typed whenever its messages are what they should be.
LEMMA TopicTyped ==
    ASSUME TopicInv
    PROVE  \A i \in 1 .. Len(topic) :
              /\ topic[i].cause \in Parents /\ topic[i].id \in Nat \ {0}
              /\ \/ topic[i].header \in ForeignHeaders
                 \/ topic[i].header = FormatTraceparent(topic[i].cause)
<1> SUFFICES ASSUME NEW i \in 1 .. Len(topic)
             PROVE  /\ topic[i].cause \in Parents /\ topic[i].id \in Nat \ {0}
                    /\ \/ topic[i].header \in ForeignHeaders
                       \/ topic[i].header = FormatTraceparent(topic[i].cause)
    OBVIOUS
<1>1. topic[i] \in Messages /\ MessageInv(topic[i])
    BY DEF TopicInv
<1> DEFINE m == topic[i]
<1> HIDE DEF m
<1>2. m \in Messages => m.cause \in Parents /\ m.id \in Nat \ {0}
    BY DEF Messages
<1>3. QED
    BY <1>1, <1>2 DEF m, MessageInv

\* A topic that stays as it is, keeps its promises while spans are added.
LEMMA TopicStays ==
    ASSUME TopicInv, WaitingInv, Started \subseteq Started', publishing' \subseteq Started',
           UNCHANGED <<topic, foreign>>
    PROVE  TopicInv' /\ WaitingInv'
    BY DEF TopicInv, WaitingInv, MessageInv

\* The ids drawn for foreign messages grow with their number.
LEMMA ForeignIdsGrow ==
    ASSUME NEW m \in Nat, NEW n \in Nat, m <= n, NEW id \in Nat, id <= 10 * m + 5
    PROVE  id <= 10 * n + 5
    OBVIOUS

\* An id that is drawn stays drawn.
LEMMA DrawnStays ==
    ASSUME NEW id \in Nat, Drawn(id), foreign \in Nat, foreign' \in Nat, foreign <= foreign',
           \A r \in Requests : pc[r] # "new" => pc'[r] # "new",
           \A i \in 1 .. Len(topic') :
               topic'[i].cause = NoContext =>
                   /\ topic'[i].id \in Nat
                   /\ \/ \E j \in 1 .. Len(topic) : topic[j] = topic'[i]
                      \/ topic'[i].id > 10 * foreign + 5
    PROVE  Drawn(id)'
<1>1. CASE DrawnByRequest(id)
    BY <1>1 DEF DrawnByRequest, Drawn
<1>2. CASE DrawnForForeign(id)
    <2>1. id % 10 = 5 /\ id <= 10 * foreign' + 5
        BY <1>2, ForeignIdsGrow DEF DrawnForForeign
    <2>2. ASSUME NEW i \in 1 .. Len(topic'), topic'[i].cause = NoContext
          PROVE  id < topic'[i].id
        <3>1. CASE \E j \in 1 .. Len(topic) : topic[j] = topic'[i]
            BY <1>2, <2>2, <3>1 DEF DrawnForForeign
        <3>2. CASE topic'[i].id > 10 * foreign + 5
            BY <1>2, <2>2, <3>2 DEF DrawnForForeign
        <3>3. QED
            BY <2>2, <3>1, <3>2
    <2>3. QED
        BY <2>1, <2>2 DEF DrawnForForeign, Drawn
<1>3. QED
    BY <1>1, <1>2 DEF Drawn

\* A handler that has its server span keeps it, whatever spans are added.
LEMMA HandlersStay ==
    ASSUME HandlersInv, TypeOK, spans \subseteq spans', UNCHANGED server,
           \A r \in Requests : pc'[r] \in Handling => pc[r] \in Handling
    PROVE  HandlersInv'
    BY DEF HandlersInv

\* Old spans hang where they did.
LEMMA TreeGrows ==
    ASSUME TreeInv, NEW s, spans' = spans \cup {s},
           s.kind \in {"db", "producer"} => \E p \in spans : p.kind = "server" /\ p.sc = s.parent,
           s.kind = "consumer" /\ s.cause # NoContext => s.parent = s.cause
    PROVE  TreeInv'
    BY DEF TreeInv

\* A child of a known context.
LEMMA ChildStarts ==
    ASSUME TraceInv, NEW service, NEW kind \in Kinds, NEW parent \in Known,
           NEW cause \in Parents, NEW id \in Nat \ {0},
           NEW sc \in NewContexts(service, parent, id), Start(kind, sc, parent, cause),
           foreign' \in Nat, foreign <= foreign',
           \A r \in Requests : pc[r] # "new" => pc'[r] # "new",
           \A i \in 1 .. Len(topic') : \E j \in 1 .. Len(topic) : topic[j] = topic'[i]
    PROVE  sc \in Contexts /\ AlikeInv' /\ DrawnInv'
<1>1. parent \in Contexts
    BY StartedTyped DEF TraceInv
<1>2. sc \in Contexts /\ sc.trace = parent.trace /\ sc.sampled = parent.sampled
    BY <1>1, ChildFollows
<1>3. Started' = Started \cup {sc} /\ Known' = Known \cup {sc}
    BY <1>1, <1>2, StartAdds DEF TraceInv
<1>4. AlikeInv'
    BY <1>2, <1>3, AlikeGrows DEF TraceInv
<1>5. \A i \in 1 .. Len(topic') : topic'[i].id \in Nat
    BY TopicTyped DEF TraceInv
<1>6. foreign \in Nat
    BY DEF TraceInv, TypeOK
<1>7. ASSUME NEW old \in Started, old.trace % 5 = 0
      PROVE  Drawn(old.trace)'
    <2>1. Drawn(old.trace) /\ old.trace \in Nat
        BY <1>7, StartedTyped DEF TraceInv, DrawnInv
    <2>2. QED
        BY <2>1, <1>5, <1>6, DrawnStays
<1>8. sc.trace % 5 = 0 => parent \in Started
    BY <1>2, OutsideApart DEF Known
<1>9. DrawnInv'
    BY <1>2, <1>3, <1>7, <1>8 DEF DrawnInv
<1>10. QED
    BY <1>2, <1>4, <1>9
-------------------------------------------------------------------------------
(***************************************************************************)
(* Every step keeps the invariant                                          *)
(***************************************************************************)

\* The parts of the types that the lemmas above do not give.
OtherTypes ==
    /\ exporting \in [{"api", "consumer"} -> BOOLEAN]
    /\ pc \in [Requests -> Stages]
    /\ server \in [Requests -> Parents] /\ db \in [Requests -> Parents]
    /\ spans \subseteq [kind : Kinds, sc : Contexts, parent : Parents, cause : Parents]
    /\ publishing \subseteq Contexts
    /\ foreign \in 0 .. MaxForeign
    /\ exemplars \subseteq Nat /\ batch \subseteq Nat /\ sent \subseteq Nat

LEMMA TypesTogether == TopicInv' /\ OtherTypes' => TypeOK'
<1>1. TopicInv /\ OtherTypes => TypeOK
    BY TopicTyped DEF OtherTypes, TypeOK
<1>2. QED
    BY <1>1, PTL

\* A request without a parent takes an id that nobody has.
LEMMA RequestIdFresh ==
    ASSUME TraceInv, NEW r \in Requests, pc[r] = "new"
    PROVE  \A a \in Known : a.trace # 10 * r
<1>1. r \in Nat \ {0} /\ \A q \in Requests : q \in Nat
    BY TraceContextAssumption
<1>2. (10 * r) % 5 = 0 /\ (10 * r) % 10 = 0
    BY <1>1
<1>3. \A a \in Outside : a.trace # 10 * r
    BY <1>2, OutsideApart
<1>4. ~DrawnByRequest(10 * r)
    BY <1>1 DEF DrawnByRequest
<1>5. ~DrawnForForeign(10 * r)
    BY <1>2 DEF DrawnForForeign
<1>6. \A a \in Started : a.trace # 10 * r
    BY <1>2, <1>4, <1>5 DEF TraceInv, DrawnInv, Drawn
<1>7. QED
    BY <1>3, <1>6 DEF Known

\* A step of no handler, which may add to the batch or send it.
LEMMA OthersAccounted ==
    ASSUME TraceInv, UNCHANGED <<exporting, pc, server, db, exemplars>>,
           batch \cup sent \subseteq batch' \cup sent'
    PROVE  ExemplarsAccounted'
<1>1. \A q \in Requests : Seen(q)' = Seen(q)
    BY DEF Seen, exemplarFor
<1>2. QED
    BY <1>1 DEF TraceInv, ExemplarsAccounted

LEMMA ReceiveKeeps ==
    ASSUME TraceInv, NEW r \in Requests, Receive(r)
    PROVE  TraceInv'
<1> USE DEF TraceInv
<1>0. PICK parent \in Upstream \cup {NoContext} :
          \E sc \in NewContexts("api", parent, 10 * r) :
              /\ Start("server", sc, parent, NoContext)
              /\ server' = [server EXCEPT ![r] = sc]
    BY DEF Receive
<1>1. PICK sc \in NewContexts("api", parent, 10 * r) :
          /\ Start("server", sc, parent, NoContext)
          /\ server' = [server EXCEPT ![r] = sc]
    BY <1>0
<1>2. /\ pc[r] = "new" /\ pc' = [pc EXCEPT ![r] = "routed"]
      /\ UNCHANGED <<exporting, db, publishing, topic, foreign, exemplars, batch, sent>>
    BY DEF Receive
<1>3. 10 * r \in Nat \ {0} /\ (10 * r) % 5 = 0
    BY TraceContextAssumption
<1>4. /\ foreign \in Nat /\ foreign' \in Nat /\ foreign <= foreign'
      /\ \A q \in Requests : pc[q] # "new" => pc'[q] # "new"
      /\ \A i \in 1 .. Len(topic') : \E j \in 1 .. Len(topic) : topic[j] = topic'[i]
    BY <1>2, TraceContextAssumption DEF TypeOK
<1>5. sc \in Contexts /\ AlikeInv' /\ DrawnInv'
    <2>1. CASE parent \in Upstream
        <3>1. parent \in Known
            BY <2>1 DEF Known, Outside
        <3>2. QED
            BY <1>1, <1>3, <1>4, <3>1, ChildStarts DEF Kinds
    <2>2. CASE parent = NoContext
        <3>1. sc \in Contexts /\ sc.trace = 10 * r
            BY <1>1, <1>3, <2>2, RootDraws
        <3>2. Started' = Started \cup {sc} /\ Known' = Known \cup {sc}
            BY <1>1, <2>2, <3>1, StartAdds DEF Kinds
        <3>3. AlikeInv'
            BY <1>2, <3>1, <3>2, RequestIdFresh, AlikeGrows
        <3>4. ASSUME NEW old \in Started, old.trace % 5 = 0
              PROVE  Drawn(old.trace)'
            <4>1. Drawn(old.trace) /\ old.trace \in Nat
                BY <3>4, StartedTyped DEF DrawnInv
            <4>2. \A i \in 1 .. Len(topic') : topic'[i].id \in Nat
                BY <1>2, TopicTyped
            <4>3. QED
                BY <1>4, <4>1, <4>2, DrawnStays
        <3>5. DrawnByRequest(sc.trace)'
            BY <1>2, <3>1 DEF DrawnByRequest, TypeOK
        <3>6. DrawnInv'
            BY <3>2, <3>4, <3>5 DEF DrawnInv, Drawn
        <3>7. QED
            BY <3>1, <3>3, <3>6
    <2>3. QED
        BY <1>0, <2>1, <2>2
<1>6. parent \in Parents
    BY <1>0, OutsideApart DEF Outside
<1>7. /\ Started' = Started \cup {sc}
      /\ spans' \subseteq [kind : Kinds, sc : Contexts, parent : Parents, cause : Parents]
      /\ spans \subseteq spans'
      /\ \E s \in spans' : s.kind = "server" /\ s.sc = sc
    BY <1>1, <1>5, <1>6, StartAdds DEF Kinds
<1>8. TopicInv' /\ WaitingInv'
    BY <1>2, <1>7, TopicStays DEF TopicInv
<1>9. HandlersInv'
    <2>1. ASSUME NEW q \in Requests, pc'[q] \in Handling
          PROVE  \E p \in spans' : p.kind = "server" /\ p.sc = server'[q]
        <3>1. server \in [Requests -> Parents] /\ pc \in [Requests -> Stages]
            BY DEF TypeOK
        <3>2. CASE q = r
            BY <1>1, <1>7, <3>1, <3>2
        <3>3. CASE q # r
            <4>1. server'[q] = server[q] /\ pc'[q] = pc[q]
                BY <1>1, <1>2, <3>1, <3>3
            <4>2. \E p \in spans : p.kind = "server" /\ p.sc = server[q]
                BY <2>1, <4>1 DEF HandlersInv
            <4>3. QED
                BY <1>7, <4>1, <4>2
        <3>4. QED
            BY <3>2, <3>3
    <2>2. QED
        BY <2>1 DEF HandlersInv
<1>10. TreeInv'
    BY <1>1, TreeGrows DEF Start
<1>11. OtherTypes'
    BY <1>1, <1>2, <1>5, <1>7 DEF OtherTypes, TypeOK, Stages
<1>12. ExemplarsAccounted'
    <2>1. ASSUME NEW q \in Requests PROVE Seen(q) \subseteq Seen(q)'
        <3>1. CASE q = r
            BY <1>2, <3>1 DEF Seen
        <3>2. CASE q # r
            BY <1>1, <1>2, <3>2, SeenStays DEF TypeOK
        <3>3. QED
            BY <3>1, <3>2
    <2>2. exemplars' = exemplars \cup {} /\ \E q \in Requests : {} \subseteq Seen(q)'
        BY <1>2
    <2>3. QED
        BY <1>2, <2>1, <2>2, AccountedStays
<1>13. QED
    BY <1>5, <1>8, <1>9, <1>10, <1>11, <1>12, TypesTogether

\* A handler that goes on without starting a span.
LEMMA HandlerMoves ==
    ASSUME TraceInv, NEW r \in Requests, NEW to \in Stages, pc' = [pc EXCEPT ![r] = to],
           UNCHANGED <<exporting, server, db, spans, publishing, topic, foreign, sent>>,
           to \in Handling => pc[r] \in Handling, to # "new",
           NEW new \in SUBSET Nat, exemplars' = exemplars \cup new, new \subseteq Seen(r)',
           batch' \subseteq Nat, batch \subseteq batch',
           exporting["api"] => Seen(r) \subseteq Seen(r)' \cup batch'
    PROVE  TraceInv'
<1> USE DEF TraceInv
<1>1. /\ \A q \in Requests : pc[q] # "new" => pc'[q] # "new"
      /\ \A q \in Requests : pc'[q] \in Handling => pc[q] \in Handling
      /\ pc' \in [Requests -> Stages]
    BY DEF TypeOK
<1>2. Started' = Started /\ Known' = Known
    BY DEF Started, Known
<1>3. /\ foreign \in Nat /\ foreign' \in Nat /\ foreign <= foreign'
      /\ \A i \in 1 .. Len(topic') : \E j \in 1 .. Len(topic) : topic[j] = topic'[i]
      /\ \A i \in 1 .. Len(topic') : topic'[i].id \in Nat
    BY TopicTyped, TraceContextAssumption DEF TypeOK
<1>4. TopicInv' /\ WaitingInv'
    BY <1>2, TopicStays DEF TopicInv
<1>5. DrawnInv'
    BY <1>1, <1>2, <1>3, StartedTyped, DrawnStays DEF DrawnInv
<1>6. HandlersInv'
    BY <1>1, HandlersStay
<1>7. AlikeInv' /\ TreeInv'
    BY <1>2 DEF AlikeInv, TreeInv
<1>8. OtherTypes'
    BY <1>1 DEF OtherTypes, TypeOK
<1>9. ExemplarsAccounted'
    <2>1. ASSUME NEW q \in Requests, exporting["api"]
          PROVE  Seen(q) \subseteq Seen(q)' \cup batch'
        <3>1. CASE q = r
            BY <2>1, <3>1
        <3>2. CASE q # r
            BY <3>2, SeenStays DEF TypeOK
        <3>3. QED
            BY <3>1, <3>2
    <2>2. QED
        BY <2>1, AccountedStays
<1>10. QED
    BY <1>4, <1>5, <1>6, <1>7, <1>8, <1>9, TypesTogether

LEMMA ReceivePlainKeeps ==
    ASSUME TraceInv, NEW r \in Requests, ReceivePlain(r)
    PROVE  TraceInv'
<1>1. /\ pc[r] = "new" /\ pc' = [pc EXCEPT ![r] = "plain"]
      /\ UNCHANGED <<exporting, server, db, spans, publishing, topic, foreign, exemplars,
                     batch, sent>>
    BY DEF ReceivePlain
<1>2. Seen(r) = {} /\ batch' \subseteq Nat
    BY <1>1 DEF Seen, TraceInv, TypeOK
<1>3. "plain" \in Stages \ Handling
    BY DEF Stages, Handling
<1>4. exemplars' = exemplars \cup {} /\ {} \in SUBSET Nat
    BY <1>1
<1>5. QED
    BY <1>1, <1>2, <1>3, <1>4, HandlerMoves

LEMMA TopicUntouched ==
    ASSUME TypeOK, UNCHANGED <<topic, foreign>>
    PROVE  /\ foreign \in Nat /\ foreign' \in Nat /\ foreign <= foreign'
           /\ \A i \in 1 .. Len(topic') : \E j \in 1 .. Len(topic) : topic[j] = topic'[i]
    BY TraceContextAssumption DEF TypeOK

LEMMA QueryKeeps ==
    ASSUME TraceInv, NEW r \in Requests, Query(r)
    PROVE  TraceInv'
<1> USE DEF TraceInv
<1> DEFINE parent == server[r]
           id == 10 * r + IF pc[r] = "routed" THEN 1 ELSE 2
<1>1. PICK sc \in NewContexts("api", parent, id) :
          /\ Start("db", sc, parent, NoContext)
          /\ db' = [db EXCEPT ![r] = sc]
          /\ exemplars' = exemplars \cup exemplarFor(sc)
    BY DEF Query
<1>2. /\ pc[r] \in {"routed", "checked"}
      /\ pc' = [pc EXCEPT ![r] = IF @ = "routed" THEN "check timed" ELSE "insert timed"]
      /\ UNCHANGED <<exporting, server, publishing, topic, foreign, batch, sent>>
    BY DEF Query
<1>3. id \in Nat \ {0}
    BY TraceContextAssumption
<1>4. (\E p \in spans : p.kind = "server" /\ p.sc = parent) /\ parent \in Known
    BY <1>2 DEF HandlersInv, Handling, Started, Known
<1> HIDE DEF parent, id
<1>5. /\ foreign \in Nat /\ foreign' \in Nat /\ foreign <= foreign'
      /\ \A q \in Requests : pc[q] # "new" => pc'[q] # "new"
      /\ \A i \in 1 .. Len(topic') : \E j \in 1 .. Len(topic) : topic[j] = topic'[i]
    <2>1. PICK to \in {"check timed", "insert timed"} : pc' = [pc EXCEPT ![r] = to]
        BY <1>2
    <2>2. to # "new"
        BY <2>1
    <2>3. \A q \in Requests : pc[q] # "new" => pc'[q] # "new"
        BY <2>1, <2>2 DEF TypeOK
    <2>4. UNCHANGED <<topic, foreign>>
        BY <1>2
    <2>5. QED
        BY <2>3, <2>4, TopicUntouched
<1>6. sc \in Contexts /\ AlikeInv' /\ DrawnInv'
    BY <1>1, <1>3, <1>4, <1>5, ChildStarts DEF Kinds
<1>7. parent \in Contexts
    BY <1>4, StartedTyped
<1>8. /\ Started' = Started \cup {sc}
      /\ spans' \subseteq [kind : Kinds, sc : Contexts, parent : Parents, cause : Parents]
      /\ spans \subseteq spans'
    BY <1>1, <1>6, <1>7, StartAdds DEF Kinds
<1>9. TopicInv' /\ WaitingInv'
    BY <1>2, <1>8, TopicStays DEF TopicInv
<1>10. HandlersInv'
    BY <1>2, <1>8, HandlersStay DEF TypeOK, Handling
<1>11. TreeInv'
    BY <1>1, <1>4, TreeGrows DEF Start
<1>12. exemplarFor(sc) \subseteq Nat
    BY <1>6 DEF exemplarFor
<1>13. OtherTypes'
    BY <1>1, <1>2, <1>6, <1>8, <1>12 DEF OtherTypes, TypeOK, Stages
<1>14. ExemplarsAccounted'
    <2>1. Seen(r) = {} /\ Seen(r)' = exemplarFor(sc)
        <3>1. pc'[r] \in {"check timed", "insert timed"} /\ db'[r] = sc
            BY <1>1, <1>2 DEF TypeOK
        <3>2. QED
            BY <1>2, <3>1 DEF Seen, exemplarFor
    <2>2. ASSUME NEW q \in Requests PROVE Seen(q) \subseteq Seen(q)'
        <3>1. CASE q = r
            BY <2>1, <3>1
        <3>2. CASE q # r
            BY <1>1, <1>2, <3>2, SeenStays DEF TypeOK
        <3>3. QED
            BY <3>1, <3>2
    <2>3. QED
        BY <1>1, <1>2, <2>1, <2>2, AccountedStays
<1>15. QED
    BY <1>6, <1>9, <1>10, <1>11, <1>13, <1>14, TypesTogether

LEMMA PublishOrderKeeps ==
    ASSUME TraceInv, NEW r \in Requests, PublishOrder(r)
    PROVE  TraceInv'
<1> USE DEF TraceInv
<1> DEFINE parent == server[r]
           id == 10 * r + 3
<1>1. PICK sc \in NewContexts("api", parent, id) :
          /\ Start("producer", sc, parent, NoContext)
          /\ publishing' = publishing \cup {sc}
    BY DEF PublishOrder
<1>2. /\ pc[r] = "inserted" /\ pc' = [pc EXCEPT ![r] = "published"]
      /\ UNCHANGED <<exporting, server, db, topic, foreign, exemplars, batch, sent>>
    BY DEF PublishOrder
<1>3. id \in Nat \ {0}
    BY TraceContextAssumption
<1>4. (\E p \in spans : p.kind = "server" /\ p.sc = parent) /\ parent \in Known
    BY <1>2 DEF HandlersInv, Handling, Started, Known
<1> HIDE DEF parent, id
<1>5. /\ foreign \in Nat /\ foreign' \in Nat /\ foreign <= foreign'
      /\ \A q \in Requests : pc[q] # "new" => pc'[q] # "new"
      /\ \A i \in 1 .. Len(topic') : \E j \in 1 .. Len(topic) : topic[j] = topic'[i]
    BY <1>2, TraceContextAssumption DEF TypeOK
<1>6. sc \in Contexts /\ AlikeInv' /\ DrawnInv'
    BY <1>1, <1>3, <1>4, <1>5, ChildStarts DEF Kinds
<1>7. parent \in Contexts
    BY <1>4, StartedTyped
<1>8. /\ Started' = Started \cup {sc}
      /\ spans' \subseteq [kind : Kinds, sc : Contexts, parent : Parents, cause : Parents]
      /\ spans \subseteq spans'
    BY <1>1, <1>6, <1>7, StartAdds DEF Kinds
<1>9. TopicInv' /\ WaitingInv'
    BY <1>1, <1>2, <1>8, TopicStays DEF TopicInv
<1>10. HandlersInv'
    BY <1>2, <1>8, HandlersStay DEF TypeOK, Handling
<1>11. TreeInv'
    BY <1>1, <1>4, TreeGrows DEF Start
<1>12. OtherTypes'
    BY <1>1, <1>2, <1>6, <1>8 DEF OtherTypes, TypeOK, Stages
<1>13. ExemplarsAccounted'
    <2>1. ASSUME NEW q \in Requests PROVE Seen(q) \subseteq Seen(q)'
        <3>1. CASE q = r
            BY <1>2, <3>1 DEF Seen
        <3>2. CASE q # r
            BY <1>2, <3>2, SeenStays DEF TypeOK
        <3>3. QED
            BY <3>1, <3>2
    <2>2. exemplars' = exemplars \cup {} /\ {} \subseteq Seen(r)'
        BY <1>2
    <2>3. QED
        BY <1>2, <2>1, <2>2, AccountedStays
<1>14. QED
    BY <1>6, <1>9, <1>10, <1>11, <1>12, <1>13, TypesTogether

\* A step that starts no span and no request keeps what is said of the spans, as
\* long as the topic gets no id that is drawn.
LEMMA SpansStay ==
    ASSUME TraceInv, UNCHANGED <<spans, pc, server>>, foreign' \in Nat, foreign <= foreign',
           \A i \in 1 .. Len(topic') :
               topic'[i].cause = NoContext =>
                   /\ topic'[i].id \in Nat
                   /\ \/ \E j \in 1 .. Len(topic) : topic[j] = topic'[i]
                      \/ topic'[i].id > 10 * foreign + 5
    PROVE  HandlersInv' /\ DrawnInv' /\ AlikeInv' /\ TreeInv'
<1> USE DEF TraceInv
<1>1. Started' = Started /\ Known' = Known
    BY DEF Started, Known
<1>2. foreign \in Nat /\ \A r \in Requests : pc[r] # "new" => pc'[r] # "new"
    BY DEF TypeOK
<1>3. DrawnInv'
    <2>1. ASSUME NEW old \in Started, old.trace % 5 = 0
          PROVE  Drawn(old.trace)'
        <3>1. Drawn(old.trace) /\ old.trace \in Nat
            BY <2>1, StartedTyped DEF DrawnInv
        <3>2. QED
            BY <1>2, <3>1, DrawnStays
    <2>2. QED
        BY <1>1, <2>1 DEF DrawnInv
<1>4. QED
    BY <1>1, <1>3 DEF HandlersInv, AlikeInv, TreeInv

LEMMA EndQueryKeeps ==
    ASSUME TraceInv, NEW r \in Requests, EndQuery(r)
    PROVE  TraceInv'
<1> DEFINE to == IF pc[r] = "check timed" THEN "checked" ELSE "inserted"
<1>1. /\ pc[r] \in {"check timed", "insert timed"} /\ pc' = [pc EXCEPT ![r] = to]
      /\ End(db[r])
      /\ UNCHANGED <<exporting, server, db, spans, publishing, topic, foreign, exemplars, sent>>
    BY DEF EndQuery
<1>2. db[r] \in Parents
    BY DEF TraceInv, TypeOK
<1>3. /\ batch' \subseteq Nat /\ batch \subseteq batch'
      /\ exporting["api"] => exemplarFor(db[r]) \subseteq batch'
    BY <1>1, <1>2, EndTyped DEF TraceInv
<1>4. Seen(r) = exemplarFor(db[r])
    BY <1>1 DEF Seen
<1>5. to \in Stages /\ to # "new" /\ pc[r] \in Handling
    BY <1>1 DEF Stages, Handling
<1>6. exemplars' = exemplars \cup {} /\ {} \in SUBSET Nat
    BY <1>1
<1> HIDE DEF to
<1>7. QED
    BY <1>1, <1>3, <1>4, <1>5, <1>6, HandlerMoves

LEMMA ReturnKeeps ==
    ASSUME TraceInv, NEW r \in Requests, Return(r)
    PROVE  TraceInv'
<1>1. /\ pc[r] \in {"plain", "routed", "checked", "inserted", "published"}
      /\ pc' = [pc EXCEPT ![r] = "timed"]
      /\ exemplars' = exemplars \cup exemplarFor(server[r])
      /\ UNCHANGED <<exporting, server, db, spans, publishing, topic, foreign, batch, sent>>
    BY DEF Return
<1>2. server[r] \in Parents /\ pc'[r] = "timed" /\ server'[r] = server[r] /\ batch' \subseteq Nat
    BY <1>1 DEF TraceInv, TypeOK
<1>3. exemplarFor(server[r]) \in SUBSET Nat
    BY <1>2 DEF exemplarFor
<1>4. Seen(r) = {} /\ Seen(r)' = exemplarFor(server[r])
    BY <1>1, <1>2 DEF Seen, exemplarFor
<1>5. "timed" \in Stages \ Handling
    BY DEF Stages, Handling
<1>6. QED
    BY <1>1, <1>2, <1>3, <1>4, <1>5, HandlerMoves

LEMMA EndServerKeeps ==
    ASSUME TraceInv, NEW r \in Requests, EndServer(r)
    PROVE  TraceInv'
<1>1. /\ pc[r] = "timed" /\ pc' = [pc EXCEPT ![r] = "done"]
      /\ End(server[r])
      /\ UNCHANGED <<exporting, server, db, spans, publishing, topic, foreign, exemplars, sent>>
    BY DEF EndServer
<1>2. server[r] \in Parents
    BY DEF TraceInv, TypeOK
<1>3. /\ batch' \subseteq Nat /\ batch \subseteq batch'
      /\ exporting["api"] => exemplarFor(server[r]) \subseteq batch'
    BY <1>1, <1>2, EndTyped DEF TraceInv
<1>4. Seen(r) = exemplarFor(server[r])
    BY <1>1 DEF Seen
<1>5. "done" \in Stages \ Handling
    BY DEF Stages, Handling
<1>6. exemplars' = exemplars \cup {} /\ {} \in SUBSET Nat
    BY <1>1
<1>7. QED
    BY <1>1, <1>3, <1>4, <1>5, <1>6, HandlerMoves

\* What a message at the end of the topic leaves as it was.
LEMMA Appended ==
    ASSUME topic \in Seq(Messages), NEW m \in Messages, topic' = Append(topic, m)
    PROVE  /\ topic' \in Seq(Messages)
           /\ Len(topic) \in Nat /\ Len(topic') = Len(topic) + 1
           /\ \A i \in 1 .. Len(topic) : topic'[i] = topic[i]
           /\ topic'[Len(topic) + 1] = m
    OBVIOUS

\* The goroutine's message carries the context of its span, which is started.
LEMMA WriteKeepsTopic ==
    ASSUME TraceInv, NEW sc \in publishing, Write(sc)
    PROVE  /\ TopicInv' /\ WaitingInv'
           /\ \A i \in 1 .. Len(topic') :
                 topic'[i].cause = NoContext =>
                     \E j \in 1 .. Len(topic) : topic[j] = topic'[i]
<1> USE DEF TraceInv
<1> DEFINE m == [header |-> FormatTraceparent(sc), cause |-> sc, id |-> sc.span + 1]
<1>1. /\ topic' = Append(topic, m) \/ topic' = topic
      /\ publishing' \subseteq publishing /\ UNCHANGED <<spans, foreign>>
    BY DEF Write
<1>2. Started' = Started /\ sc \in Started /\ publishing' \subseteq Started'
    BY <1>1 DEF Started, TopicInv
<1>3. sc \in Contexts /\ sc # NoContext
    BY DEF TypeOK
<1>4. m \in Messages
    BY <1>3 DEF Messages
<1>5. m.cause = sc /\ m.header = FormatTraceparent(sc)
    OBVIOUS
<1> HIDE DEF m
<1>6. CASE topic' = topic
    BY <1>1, <1>2, <1>6, TopicStays
<1>7. CASE topic' = Append(topic, m)
    <2>1. topic \in Seq(Messages)
        BY DEF TopicInv
    <2>2. /\ topic' \in Seq(Messages)
          /\ Len(topic) \in Nat /\ Len(topic') = Len(topic) + 1
          /\ \A i \in 1 .. Len(topic) : topic'[i] = topic[i]
          /\ topic'[Len(topic) + 1] = m
        BY <1>4, <1>7, <2>1, Appended
    <2>3. ASSUME NEW i \in 1 .. Len(topic')
          PROVE  MessageInv(topic[i])'
        <3>1. CASE i \in 1 .. Len(topic)
            BY <1>2, <2>2, <3>1 DEF TopicInv, MessageInv
        <3>2. CASE i = Len(topic) + 1
            BY <1>2, <1>3, <1>5, <2>2, <3>2 DEF MessageInv
        <3>3. QED
            BY <2>2, <3>1, <3>2
    <2>4. ASSUME NEW i \in 1 .. Len(topic'), topic'[i].cause = NoContext
          PROVE  i \in 1 .. Len(topic) /\ topic'[i] = topic[i]
        BY <1>3, <1>5, <2>2, <2>4
    <2>5. WaitingInv'
        <3>1. ASSUME NEW i \in 1 .. Len(topic'), topic'[i].cause = NoContext
              PROVE  /\ topic'[i].id % 10 = 5 /\ topic'[i].id <= 10 * foreign' + 5
                     /\ \A j \in 1 .. i - 1 :
                           topic'[j].cause = NoContext => topic'[j].id < topic'[i].id
            BY <1>1, <2>2, <2>4, <3>1 DEF WaitingInv
        <3>2. QED
            BY <3>1 DEF WaitingInv
    <2>6. TopicInv'
        BY <1>2, <2>2, <2>3 DEF TopicInv
    <2>7. QED
        BY <2>4, <2>5, <2>6
<1>8. QED
    BY <1>1, <1>6, <1>7

LEMMA WriteKeeps ==
    ASSUME TraceInv, NEW sc \in publishing, Write(sc)
    PROVE  TraceInv'
<1> USE DEF TraceInv
<1>1. /\ publishing' \subseteq publishing /\ End(sc)
      /\ UNCHANGED <<exporting, pc, server, db, spans, foreign, exemplars, sent>>
    BY DEF Write
<1>2. /\ TopicInv' /\ WaitingInv'
      /\ \A i \in 1 .. Len(topic') :
            topic'[i].cause = NoContext => \E j \in 1 .. Len(topic) : topic[j] = topic'[i]
    BY WriteKeepsTopic
<1>3. foreign' \in Nat /\ foreign <= foreign' /\ sc \in Parents
    BY <1>1, TraceContextAssumption DEF TypeOK
<1>4. \A i \in 1 .. Len(topic') : topic'[i].cause = NoContext => topic'[i].id \in Nat
    BY <1>2, TopicTyped
<1>5. HandlersInv' /\ DrawnInv' /\ AlikeInv' /\ TreeInv'
    BY <1>1, <1>2, <1>3, <1>4, SpansStay
<1>6. batch' \subseteq Nat /\ batch \subseteq batch'
    BY <1>1, <1>3, EndTyped
<1>7. OtherTypes'
    BY <1>1, <1>6 DEF OtherTypes, TypeOK
<1>8. ExemplarsAccounted'
    BY <1>1, <1>6, OthersAccounted
<1>9. QED
    BY <1>2, <1>5, <1>7, <1>8, TypesTogether

LEMMA ExportKeeps ==
    ASSUME TraceInv, Export
    PROVE  TraceInv'
<1> USE DEF TraceInv
<1>1. /\ batch' = {} /\ sent' = sent \cup batch
      /\ UNCHANGED <<exporting, pc, server, db, spans, publishing, topic, foreign, exemplars>>
    BY DEF Export
<1>2. foreign' \in Nat /\ foreign <= foreign'
    BY <1>1, TraceContextAssumption DEF TypeOK
<1>3. \A i \in 1 .. Len(topic') :
          topic'[i].id \in Nat /\ \E j \in 1 .. Len(topic) : topic[j] = topic'[i]
    BY <1>1, TopicTyped
<1>4. HandlersInv' /\ DrawnInv' /\ AlikeInv' /\ TreeInv'
    BY <1>1, <1>2, <1>3, SpansStay
<1>5. Started' = Started
    BY <1>1 DEF Started
<1>6. TopicInv' /\ WaitingInv'
    BY <1>1, <1>5, TopicStays DEF TopicInv
<1>7. OtherTypes'
    BY <1>1 DEF OtherTypes, TypeOK
<1>8. ExemplarsAccounted'
    BY <1>1, OthersAccounted
<1>9. QED
    BY <1>4, <1>6, <1>7, <1>8, TypesTogether

\* The id of a foreign message is above all that were given before.
LEMMA NextForeignId ==
    ASSUME NEW n \in Nat, NEW id, id = 10 * (n + 1) + 5
    PROVE  id \in Nat \ {0} /\ id % 10 = 5 /\ id > 10 * n + 5
    OBVIOUS

LEMMA Below ==
    ASSUME NEW a \in Nat, NEW b \in Nat, NEW n \in Nat, a <= 10 * n + 5, b > 10 * n + 5
    PROVE  a < b
    OBVIOUS

LEMMA WriteForeignKeeps ==
    ASSUME TraceInv, WriteForeign
    PROVE  TraceInv'
<1> USE DEF TraceInv
<1>1. /\ foreign < MaxForeign /\ foreign' = foreign + 1
      /\ UNCHANGED <<exporting, pc, server, db, spans, publishing, exemplars, batch, sent>>
    BY DEF WriteForeign
<1>2. PICK text \in ForeignHeaders :
          topic' = Append(topic, [header |-> text, cause |-> NoContext, id |-> 10 * foreign' + 5])
    BY DEF WriteForeign
<1> DEFINE m == [header |-> text, cause |-> NoContext, id |-> 10 * foreign' + 5]
<1>3. foreign \in Nat /\ foreign' \in 0 .. MaxForeign
    BY <1>1, TraceContextAssumption DEF TypeOK
<1>4. /\ m.cause = NoContext /\ m.header \in ForeignHeaders /\ m.id = 10 * foreign' + 5
      /\ m.id \in Nat \ {0} /\ m.id % 10 = 5 /\ m.id > 10 * foreign + 5
    BY <1>1, <1>3, NextForeignId
<1>5. m \in Messages
    BY <1>4 DEF Messages
<1>6. topic' = Append(topic, m)
    BY <1>2
<1> HIDE DEF m
<1>7. Started' = Started
    BY <1>1 DEF Started
<1>8. topic \in Seq(Messages)
    BY DEF TopicInv
<1>9. /\ topic' \in Seq(Messages)
      /\ Len(topic) \in Nat /\ Len(topic') = Len(topic) + 1
      /\ \A i \in 1 .. Len(topic) : topic'[i] = topic[i]
      /\ topic'[Len(topic) + 1] = m
    BY <1>5, <1>6, <1>8, Appended
<1>10. TopicInv'
    <2>1. ASSUME NEW i \in 1 .. Len(topic')
          PROVE  MessageInv(topic[i])'
        <3>1. CASE i \in 1 .. Len(topic)
            BY <1>7, <1>9, <3>1 DEF TopicInv, MessageInv
        <3>2. CASE i = Len(topic) + 1
            BY <1>4, <1>9, <3>2 DEF MessageInv
        <3>3. QED
            BY <1>9, <3>1, <3>2
    <2>2. QED
        BY <1>1, <1>7, <1>9, <2>1 DEF TopicInv
<1>11. \A i \in 1 .. Len(topic) :
           topic[i].id \in Nat /\ (topic[i].cause = NoContext => topic[i].id <= 10 * foreign + 5)
    BY TopicTyped DEF WaitingInv
<1>12. WaitingInv'
    <2>1. ASSUME NEW i \in 1 .. Len(topic'), topic'[i].cause = NoContext
          PROVE  /\ topic'[i].id % 10 = 5 /\ topic'[i].id <= 10 * foreign' + 5
                 /\ \A j \in 1 .. i - 1 :
                       topic'[j].cause = NoContext => topic'[j].id < topic'[i].id
        <3>1. CASE i \in 1 .. Len(topic)
            <4>1. /\ topic[i].id % 10 = 5 /\ topic[i].id <= 10 * foreign + 5
                  /\ \A j \in 1 .. i - 1 :
                        topic[j].cause = NoContext => topic[j].id < topic[i].id
                BY <1>9, <2>1, <3>1 DEF WaitingInv
            <4>2. topic[i].id <= 10 * foreign' + 5
                BY <1>1, <1>3, <1>11, <3>1, <4>1, ForeignIdsGrow
            <4>3. QED
                BY <1>9, <3>1, <4>1, <4>2
        <3>2. CASE i = Len(topic) + 1
            <4>1. topic'[i] = m /\ i - 1 = Len(topic)
                BY <1>9, <3>2
            <4>2. \A j \in 1 .. i - 1 :
                      topic'[j].cause = NoContext => topic'[j].id < topic'[i].id
                <5>1. ASSUME NEW j \in 1 .. i - 1, topic'[j].cause = NoContext
                      PROVE  topic'[j].id < topic'[i].id
                    <6>1. j \in 1 .. Len(topic) /\ topic'[j] = topic[j]
                        BY <1>9, <4>1
                    <6>2. topic[j].id \in Nat /\ topic[j].id <= 10 * foreign + 5
                        BY <1>11, <5>1, <6>1
                    <6>3. QED
                        BY <1>3, <1>4, <4>1, <6>1, <6>2, Below
                <5>2. QED
                    BY <5>1
            <4>3. topic'[i].id % 10 = 5 /\ topic'[i].id <= 10 * foreign' + 5
                BY <1>3, <1>4, <4>1
            <4>4. QED
                BY <4>2, <4>3
        <3>3. QED
            BY <1>9, <3>1, <3>2
    <2>2. QED
        BY <2>1 DEF WaitingInv
<1>13. \A i \in 1 .. Len(topic') :
           /\ topic'[i].id \in Nat
           /\ (\E j \in 1 .. Len(topic) : topic[j] = topic'[i]) \/ topic'[i].id > 10 * foreign + 5
    <2>1. ASSUME NEW i \in 1 .. Len(topic')
          PROVE  /\ topic'[i].id \in Nat
                 /\ \/ \E j \in 1 .. Len(topic) : topic[j] = topic'[i]
                    \/ topic'[i].id > 10 * foreign + 5
        <3>1. CASE i \in 1 .. Len(topic)
            BY <1>9, <1>11, <3>1
        <3>2. CASE i = Len(topic) + 1
            BY <1>4, <1>9, <3>2
        <3>3. QED
            BY <1>9, <3>1, <3>2
    <2>2. QED
        BY <2>1
<1>14. HandlersInv' /\ DrawnInv' /\ AlikeInv' /\ TreeInv'
    <2>1. foreign' \in Nat /\ foreign <= foreign'
        BY <1>1, <1>3, TraceContextAssumption
    <2>2. QED
        BY <1>1, <1>13, <2>1, SpansStay
<1>15. OtherTypes'
    BY <1>1, <1>3 DEF OtherTypes, TypeOK
<1>16. ExemplarsAccounted'
    BY <1>1, OthersAccounted
<1>17. QED
    BY <1>10, <1>12, <1>14, <1>15, <1>16, TypesTogether

\* What the topic keeps when its first message is taken.
LEMMA Taken ==
    ASSUME topic \in Seq(Messages), topic # <<>>, topic' = Tail(topic)
    PROVE  /\ topic' \in Seq(Messages) /\ Head(topic) = topic[1]
           /\ 1 \in 1 .. Len(topic)
           /\ \A i \in 1 .. Len(topic') : i + 1 \in 1 .. Len(topic) /\ topic'[i] = topic[i + 1]
    OBVIOUS

\* The consumer continues the publishing of an order, or what others sent.
LEMMA ConsumedParent ==
    ASSUME TraceInv, NEW m \in Messages, MessageInv(m)
    PROVE  LET parent == ParseTraceparent(m.header).sc IN
           /\ parent \in Known \/ (parent = NoContext /\ m.cause = NoContext)
           /\ m.cause # NoContext => parent = m.cause
<1>1. CASE m.cause = NoContext
    BY <1>1, ForeignParsed DEF MessageInv, Known
<1>2. CASE m.cause # NoContext
    <2>1. m.header = FormatTraceparent(m.cause) /\ m.cause \in Started
        BY <1>2 DEF MessageInv
    <2>2. m.cause \in Contexts
        BY <2>1, StartedTyped DEF TraceInv
    <2>3. ParseTraceparent(m.header) = [ok |-> TRUE, sc |-> m.cause]
        BY <2>1, <2>2, HeaderRoundTrip
    <2>4. ParseTraceparent(m.header).sc = m.cause
        BY <2>3
    <2>5. QED
        BY <1>2, <2>1, <2>4 DEF Known
<1>3. QED
    BY <1>1, <1>2

\* The ids of foreign messages are none of requests.
LEMMA TensApart ==
    ASSUME NEW q \in Nat, NEW id \in Nat, id % 10 = 5
    PROVE  id # 10 * q
    OBVIOUS

\* A foreign message takes an id that nobody has, and leaves it behind.
LEMMA ForeignIdFresh ==
    ASSUME TraceInv, topic # <<>>, topic[1].cause = NoContext, topic' = Tail(topic),
           UNCHANGED foreign, NEW id, id = topic[1].id
    PROVE  /\ \A a \in Known : a.trace # id
           /\ DrawnForForeign(id)'
<1> USE DEF TraceInv
<1>1. topic \in Seq(Messages)
    BY DEF TopicInv
<1>2. /\ 1 \in 1 .. Len(topic)
      /\ \A i \in 1 .. Len(topic') : i + 1 \in 1 .. Len(topic) /\ topic'[i] = topic[i + 1]
    BY <1>1, Taken
<1>3. id \in Nat /\ id % 10 = 5 /\ id <= 10 * foreign + 5
    BY <1>2, TopicTyped DEF WaitingInv
<1>4. id % 5 = 0
    BY <1>3
<1>5. ~DrawnByRequest(id)
    <2>1. ASSUME NEW q \in Requests PROVE id # 10 * q
        <3>1. q \in Nat
            BY TraceContextAssumption
        <3>2. QED
            BY <1>3, <3>1, TensApart
    <2>2. QED
        BY <2>1 DEF DrawnByRequest
<1>6. ~DrawnForForeign(id)
    BY <1>2, <1>3 DEF DrawnForForeign
<1>7. \A a \in Known : a.trace # id
    BY <1>4, <1>5, <1>6, OutsideApart DEF DrawnInv, Drawn, Known
<1>8. ASSUME NEW i \in 1 .. Len(topic'), topic'[i].cause = NoContext
      PROVE  id < topic'[i].id
    <2>1. i + 1 \in 1 .. Len(topic) /\ topic'[i] = topic[i + 1] /\ 1 \in 1 .. (i + 1) - 1
        BY <1>2
    <2>2. QED
        BY <1>8, <2>1 DEF WaitingInv
<1>9. DrawnForForeign(id)'
    BY <1>3, <1>8 DEF DrawnForForeign
<1>10. QED
    BY <1>7, <1>9

LEMMA ConsumeKeeps ==
    ASSUME TraceInv, Consume
    PROVE  TraceInv'
<1> USE DEF TraceInv
<1> DEFINE message == topic[1]
           parent == ParseTraceparent(message.header).sc
<1>1. /\ topic # <<>> /\ topic' = Tail(topic)
      /\ UNCHANGED <<exporting, pc, server, db, publishing, foreign, exemplars, batch, sent>>
    BY DEF Consume
<1>2. topic \in Seq(Messages)
    BY DEF TopicInv
<1>3. /\ topic' \in Seq(Messages) /\ Head(topic) = message
      /\ 1 \in 1 .. Len(topic)
      /\ \A i \in 1 .. Len(topic') : i + 1 \in 1 .. Len(topic) /\ topic'[i] = topic[i + 1]
    BY <1>1, <1>2, Taken
<1>4. PICK sc \in NewContexts("consumer", parent, message.id) :
          Start("consumer", sc, parent, message.cause)
    BY <1>3 DEF Consume
<1>5. message \in Messages /\ MessageInv(message)
    BY <1>2, <1>3 DEF TopicInv
<1>6. /\ parent \in Known \/ (parent = NoContext /\ message.cause = NoContext)
      /\ message.cause # NoContext => parent = message.cause
    BY <1>5, ConsumedParent
<1>7. message.cause \in Parents /\ message.id \in Nat \ {0}
    BY <1>3, TopicTyped
<1>8. parent \in Parents
    BY <1>6, StartedTyped
<1>9. /\ foreign \in Nat /\ foreign' \in Nat /\ foreign <= foreign'
      /\ \A q \in Requests : pc[q] # "new" => pc'[q] # "new"
      /\ \A i \in 1 .. Len(topic') : \E j \in 1 .. Len(topic) : topic[j] = topic'[i]
    BY <1>1, <1>3, TraceContextAssumption DEF TypeOK
<1> HIDE DEF parent
<1>10. sc \in Contexts /\ AlikeInv' /\ DrawnInv'
    <2>1. CASE parent \in Known
        BY <1>4, <1>7, <1>9, <2>1, ChildStarts DEF Kinds
    <2>2. CASE parent = NoContext /\ message.cause = NoContext
        <3>1. sc \in Contexts /\ sc.trace = message.id
            BY <1>4, <1>7, <2>2, RootDraws
        <3>2. Started' = Started \cup {sc} /\ Known' = Known \cup {sc}
            BY <1>4, <1>7, <1>8, <3>1, StartAdds DEF Kinds
        <3>3. /\ \A a \in Known : a.trace # sc.trace
              /\ DrawnForForeign(sc.trace)'
            BY <1>1, <2>2, <3>1, ForeignIdFresh
        <3>4. AlikeInv'
            BY <3>1, <3>2, <3>3, AlikeGrows
        <3>5. ASSUME NEW old \in Started, old.trace % 5 = 0
              PROVE  Drawn(old.trace)'
            <4>1. Drawn(old.trace) /\ old.trace \in Nat
                BY <3>5, StartedTyped DEF DrawnInv
            <4>2. \A i \in 1 .. Len(topic') : topic'[i].id \in Nat
                BY <1>3, TopicTyped
            <4>3. QED
                BY <1>9, <4>1, <4>2, DrawnStays
        <3>6. Drawn(sc.trace)'
            BY <3>1, <3>3 DEF Drawn
        <3>7. DrawnInv'
            BY <3>2, <3>5, <3>6 DEF DrawnInv
        <3>8. QED
            BY <3>1, <3>4, <3>7
    <2>3. QED
        BY <1>6, <2>1, <2>2
<1>11. /\ Started' = Started \cup {sc}
       /\ spans' \subseteq [kind : Kinds, sc : Contexts, parent : Parents, cause : Parents]
       /\ spans \subseteq spans'
    BY <1>4, <1>7, <1>8, <1>10, StartAdds DEF Kinds
<1>12. TopicInv'
    BY <1>1, <1>3, <1>11 DEF TopicInv, MessageInv
<1>13. WaitingInv'
    <2>1. ASSUME NEW i \in 1 .. Len(topic'), topic'[i].cause = NoContext
          PROVE  /\ topic'[i].id % 10 = 5 /\ topic'[i].id <= 10 * foreign' + 5
                 /\ \A j \in 1 .. i - 1 :
                       topic'[j].cause = NoContext => topic'[j].id < topic'[i].id
        <3>1. /\ topic[i + 1].id % 10 = 5 /\ topic[i + 1].id <= 10 * foreign + 5
              /\ \A j \in 1 .. (i + 1) - 1 :
                    topic[j].cause = NoContext => topic[j].id < topic[i + 1].id
            BY <1>3, <2>1 DEF WaitingInv
        <3>2. ASSUME NEW j \in 1 .. i - 1, topic'[j].cause = NoContext
              PROVE  topic'[j].id < topic'[i].id
            <4>1. j \in 1 .. Len(topic') /\ j + 1 \in 1 .. (i + 1) - 1
                BY <1>3
            <4>2. QED
                BY <1>3, <3>1, <3>2, <4>1
        <3>3. QED
            BY <1>1, <1>3, <3>1, <3>2
    <2>2. QED
        BY <2>1 DEF WaitingInv
<1>14. HandlersInv'
    BY <1>1, <1>11, HandlersStay DEF TypeOK
<1>15. TreeInv'
    BY <1>4, <1>6, TreeGrows DEF Start
<1>16. OtherTypes'
    BY <1>1, <1>11 DEF OtherTypes, TypeOK
<1>17. ExemplarsAccounted'
    BY <1>1, OthersAccounted
<1>18. QED
    BY <1>10, <1>12, <1>13, <1>14, <1>15, <1>16, <1>17, TypesTogether
-------------------------------------------------------------------------------
LEMMA InitTraceInv == Init => TraceInv
<1> SUFFICES ASSUME Init PROVE TraceInv
    OBVIOUS
<1>1. TypeOK
    BY TraceContextAssumption DEF Init, TypeOK, Stages
<1>2. Started = {} /\ Known = Outside /\ publishing = {}
    BY DEF Init, Started, Known
<1>3. topic = <<>>
    BY DEF Init
<1>4. topic \in Seq(Messages) /\ Len(topic) = 0
    BY <1>3
<1>5. TopicInv /\ WaitingInv
    BY <1>2, <1>4 DEF TopicInv, WaitingInv
<1>6. HandlersInv /\ TreeInv /\ ExemplarsAccounted
    BY DEF Init, HandlersInv, Handling, TreeInv, ExemplarsAccounted
<1>7. DrawnInv /\ AlikeInv
    BY <1>2, TraceContextAssumption DEF DrawnInv, AlikeInv
<1>8. QED
    BY <1>1, <1>5, <1>6, <1>7 DEF TraceInv

LEMMA NextKeepsTraceInv == TraceInv /\ [Next]_vars => TraceInv'
<1> SUFFICES ASSUME TraceInv, [Next]_vars PROVE TraceInv'
    OBVIOUS
<1>1. ASSUME NEW r \in Requests,
             \/ Receive(r) \/ ReceivePlain(r) \/ Query(r) \/ EndQuery(r)
             \/ PublishOrder(r) \/ Return(r) \/ EndServer(r)
      PROVE  TraceInv'
    BY <1>1, ReceiveKeeps, ReceivePlainKeeps, QueryKeeps, EndQueryKeeps, PublishOrderKeeps,
       ReturnKeeps, EndServerKeeps
<1>2. CASE \E sc \in publishing : Write(sc)
    BY <1>2, WriteKeeps
<1>3. CASE WriteForeign
    BY <1>3, WriteForeignKeeps
<1>4. CASE Consume
    BY <1>4, ConsumeKeeps
<1>5. CASE Export
    BY <1>5, ExportKeeps
<1>6. CASE UNCHANGED vars
    <2>1. ExemplarsAccounted'
        BY <1>6, OthersAccounted DEF vars
    <2>2. QED
        BY <1>6, <2>1 DEF vars, TraceInv, TypeOK, HandlersInv, TopicInv, MessageInv, WaitingInv,
                          DrawnInv, Drawn, DrawnByRequest, DrawnForForeign, AlikeInv, TreeInv,
                          Known, Started
<1>7. QED
    BY <1>1, <1>2, <1>3, <1>4, <1>5, <1>6 DEF Next

LEMMA Invariance == Spec => []TraceInv
    BY InitTraceInv, NextKeepsTraceInv, PTL DEF Spec

\* Whatever clients and foreign messages say and however many there are, the
\* variables range over what they should: no header gives a span an id that is
\* zero or unreadable (internal/obs/propagation.go).
THEOREM TraceContextTyped == Spec => []TypeOK
    BY Invariance, PTL DEF TraceInv

\* A trace is one tree across HTTP and Kafka, and its spans are sampled alike,
\* for any number of requests, foreign messages and their headers, in any
\* interleaving of handlers, goroutines, consumer and exporters
\* (internal/obs/propagation.go, cmd/consumer/main.go:102-106).
THEOREM TracesWhole == Spec => []TracesAreWhole
<1>1. ASSUME TraceInv, NEW s \in spans
      PROVE  /\ s.kind \in {"db", "producer"} => \E p \in spans : p.kind = "server" /\ p.sc = s.parent
             /\ s.kind = "consumer" /\ s.cause # NoContext => s.parent = s.cause
             /\ IsValid(s.sc)
             /\ \A t \in spans : s.sc.trace = t.sc.trace => s.sc.sampled = t.sc.sampled
    <2>1. IsValid(s.sc)
        BY <1>1 DEF TraceInv, TypeOK
    <2>2. \A t \in spans : s.sc.trace = t.sc.trace => s.sc.sampled = t.sc.sampled
        BY <1>1 DEF TraceInv, AlikeInv, Known, Started
    <2>3. QED
        BY <1>1, <2>1, <2>2 DEF TraceInv, TreeInv
<1>2. TraceInv => TracesAreWhole
    BY <1>1 DEF TracesAreWhole
<1>3. QED
    BY <1>2, Invariance, PTL

\* An api that exports never has an exemplar that points at a trace of which no
\* span was sent, waits to be, or was observed and is about to end, although a
\* scrape can see it before that: what is left for ExemplarsResolve is that the
\* span ends and the batcher exports (internal/metrics/exemplar.go:10-22).
THEOREM ExemplarsLead == Spec => []ExemplarsAccounted
    BY Invariance, PTL DEF TraceInv
===============================================================================
