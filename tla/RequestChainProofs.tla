-------------------------- MODULE RequestChainProofs --------------------------
(***************************************************************************)
(* Proofs about RequestChain for any number of requests and routes.        *)
(***************************************************************************)
EXTENDS RequestChain, FiniteSetTheorems, SequenceTheorems, TLAPS

Functions == {"recover", "end", "mark", "dec", "count"}

\* The types that do not depend on how far the requests have got.
TypeInv ==
    /\ logFrom \in Thresholds
    /\ route \in [Requests -> Routes]
    /\ mode \in [Requests -> {"idle", "calling", "over"} \cup Unwinding]
    /\ depth \in [Requests -> Nat]
    /\ deferred \in [Requests -> [Deferring -> Seq(Functions)]]
    /\ heard \in [Requests -> [Recording -> Nat]]
    /\ sent \in [Requests -> Nat]
    /\ panicked \in [Requests -> BOOLEAN]
    /\ inProgress \in [Routes -> Int]
    /\ counted \in [Requests -> Seq(Nat)]
    /\ span \in [Requests -> {"none", "open", "marked", "ok", "error"}]
    /\ lines \in [Requests -> Seq(Nat)]

\* Where Instrument is in the chain of r.
Pos(r) == IF Traced(r) THEN 4 ELSE 3

\* r is on its way out, or has left, and Instrument is behind it.
Past(r) == mode[r] \in Unwinding \cup {"over"} /\ depth[r] < Pos(r)

\* The header the innermost recorder was told.
Told(r) == heard[r]["instrument"]

\* How far r has got.
StackInv(r) ==
    /\ depth[r] <= Pos(r) + 2 /\ (~Traced(r) => depth[r] <= 4)
    /\ mode[r] \in {"idle", "over"} => depth[r] = 0
    /\ mode[r] = "calling" => depth[r] > 0
    /\ mode[r] = "panicking" => panicked[r] /\ depth[r] > 0
    /\ panicked[r] => mode[r] = "panicking" \/ depth[r] = 0
    /\ mode[r] \in {"idle", "calling"} => ~panicked[r]
    /\ \/ mode[r] = "idle"
       \/ mode[r] = "calling" /\ depth[r] < Pos(r) + (IF Traced(r) THEN 2 ELSE 1)
       => Told(r) = 0

\* What the frames of Instrument and of TraceHTTP have left to do.
CountAndDec == <<"dec", "count">>
OnlyDec == <<"dec">>
MarkAndEnd == <<"end", "mark">>
OnlyEnd == <<"end">>
Nothing == <<>>

\* What each layer that has called the next one has left to do on its way out.
DeferInv(r) ==
    LET inside == deferred[r]["instrument"]
        traced == deferred[r]["trace"]
    IN  /\ Entered(r) > 0 => deferred[r]["guard"] = <<"recover">>
        /\ Entered(r) > Pos(r) \/ (Entered(r) = Pos(r) /\ mode[r] = "calling")
               => inside = CountAndDec
        /\ Entered(r) = Pos(r) => inside \in {CountAndDec, OnlyDec}
        /\ Entered(r) < Pos(r) => inside = Nothing
        /\ Traced(r) => /\ Entered(r) > 2 \/ (Entered(r) = 2 /\ mode[r] = "calling")
                               => traced = MarkAndEnd
                        /\ Entered(r) = 2 => traced \in {MarkAndEnd, OnlyEnd}

\* The recorders have all been told the same, but for the 500 of the guard.
AnswerInv(r) ==
    /\ heard[r]["log"] = Told(r)
    /\ Traced(r) => heard[r]["trace"] = Told(r)
    /\ heard[r]["guard"] = IF Told(r) # 0 THEN Told(r)
                           ELSE IF panicked[r] /\ depth[r] = 0 THEN 500 ELSE 0
    /\ sent[r] = IF mode[r] = "over" THEN Status(r, "guard") ELSE heard[r]["guard"]

\* What the request is counted as, and the span marked for.
Outcome(r) == IF panicked[r] THEN 500 ELSE Status(r, "instrument")

CountInv(r) ==
    counted[r] = IF Past(r) \/ deferred[r]["instrument"] = OnlyDec
                 THEN <<Outcome(r)>> ELSE <<>>

LineInv(r) ==
    lines[r] = IF /\ Past(r) /\ depth[r] < Pos(r) - 1
                  /\ ~panicked[r] /\ Status(r, "instrument") >= logFrom
               THEN <<Status(r, "instrument")>> ELSE <<>>

SpanInv(r) ==
    Traced(r) =>
        /\ Entered(r) >= 2
               => span[r] = IF deferred[r]["trace"] = OnlyEnd /\ Outcome(r) >= 500
                            THEN "marked" ELSE "open"
        /\ Past(r) /\ depth[r] < 2
               => span[r] = IF Outcome(r) >= 500 THEN "error" ELSE "ok"

RequestInv(r) ==
    /\ StackInv(r) /\ DeferInv(r) /\ AnswerInv(r)
    /\ CountInv(r) /\ LineInv(r) /\ SpanInv(r)

RequestsInv == \A r \in Requests : RequestInv(r)

USE DEF Unwinding, stackVars, answerVars, signalVars

\* The layer at place i of the chain of r, as NewRouter builds it.
Known(r, i) ==
    /\ Chain(r)[i] = "guard" <=> i = 1
    /\ Chain(r)[i] = "trace" <=> Traced(r) /\ i = 2
    /\ Chain(r)[i] = "log" <=> i = Pos(r) - 1
    /\ Chain(r)[i] = "instrument" <=> i = Pos(r)
    /\ Chain(r)[i] \in {"chaos", "admin"} <=> Traced(r) /\ i = 5
    /\ Chain(r)[i] = "handler" <=> i = Len(Chain(r))

\* Every layer is known by its place, whatever the class of the route.
LEMMA LayerAt ==
    ASSUME TypeInv, NEW r \in Requests
    PROVE  /\ Pos(r) = IF Traced(r) THEN 4 ELSE 3
           /\ Len(Chain(r)) = IF Traced(r) THEN 6 ELSE 4
           /\ \A i \in 1 .. Len(Chain(r)) : Known(r, i)
<1>1. Class[route[r]] \in {"business", "control", "plain"}
    BY RequestChainAssumption DEF TypeInv
<1>2. CASE Class[route[r]] = "business"
    <2>1. Chain(r) = <<"guard", "trace", "log", "instrument", "chaos", "handler">>
        BY <1>2 DEF Chain, Layers
    <2>2. Traced(r) /\ Pos(r) = 4 /\ Len(Chain(r)) = 6
        BY <1>2, <2>1 DEF Traced, Pos
    <2>3. /\ Chain(r)[1] = "guard" /\ Chain(r)[2] = "trace" /\ Chain(r)[3] = "log"
          /\ Chain(r)[4] = "instrument" /\ Chain(r)[5] = "chaos" /\ Chain(r)[6] = "handler"
        BY <2>1
    <2>4. ASSUME NEW i \in 1 .. 6 PROVE Known(r, i)
        <3>1. CASE i = 1
            BY <2>2, <2>3, <3>1 DEF Known
        <3>2. CASE i = 2
            BY <2>2, <2>3, <3>2 DEF Known
        <3>3. CASE i = 3
            BY <2>2, <2>3, <3>3 DEF Known
        <3>4. CASE i = 4
            BY <2>2, <2>3, <3>4 DEF Known
        <3>5. CASE i = 5
            BY <2>2, <2>3, <3>5 DEF Known
        <3>6. CASE i = 6
            BY <2>2, <2>3, <3>6 DEF Known
        <3>7. QED
            BY <3>1, <3>2, <3>3, <3>4, <3>5, <3>6
    <2>5. QED
        BY <2>2, <2>4
<1>3. CASE Class[route[r]] = "control"
    <2>1. Chain(r) = <<"guard", "trace", "log", "instrument", "admin", "handler">>
        BY <1>3 DEF Chain, Layers
    <2>2. Traced(r) /\ Pos(r) = 4 /\ Len(Chain(r)) = 6
        BY <1>3, <2>1 DEF Traced, Pos
    <2>3. /\ Chain(r)[1] = "guard" /\ Chain(r)[2] = "trace" /\ Chain(r)[3] = "log"
          /\ Chain(r)[4] = "instrument" /\ Chain(r)[5] = "admin" /\ Chain(r)[6] = "handler"
        BY <2>1
    <2>4. ASSUME NEW i \in 1 .. 6 PROVE Known(r, i)
        <3>1. CASE i = 1
            BY <2>2, <2>3, <3>1 DEF Known
        <3>2. CASE i = 2
            BY <2>2, <2>3, <3>2 DEF Known
        <3>3. CASE i = 3
            BY <2>2, <2>3, <3>3 DEF Known
        <3>4. CASE i = 4
            BY <2>2, <2>3, <3>4 DEF Known
        <3>5. CASE i = 5
            BY <2>2, <2>3, <3>5 DEF Known
        <3>6. CASE i = 6
            BY <2>2, <2>3, <3>6 DEF Known
        <3>7. QED
            BY <3>1, <3>2, <3>3, <3>4, <3>5, <3>6
    <2>5. QED
        BY <2>2, <2>4
<1>4. CASE Class[route[r]] = "plain"
    <2>1. Chain(r) = <<"guard", "log", "instrument", "handler">>
        BY <1>4 DEF Chain, Layers
    <2>2. ~Traced(r) /\ Pos(r) = 3 /\ Len(Chain(r)) = 4
        BY <1>4, <2>1 DEF Traced, Pos
    <2>3. /\ Chain(r)[1] = "guard" /\ Chain(r)[2] = "log"
          /\ Chain(r)[3] = "instrument" /\ Chain(r)[4] = "handler"
        BY <2>1
    <2>4. ASSUME NEW i \in 1 .. 4 PROVE Known(r, i)
        <3>1. CASE i = 1
            BY <2>2, <2>3, <3>1 DEF Known
        <3>2. CASE i = 2
            BY <2>2, <2>3, <3>2 DEF Known
        <3>3. CASE i = 3
            BY <2>2, <2>3, <3>3 DEF Known
        <3>4. CASE i = 4
            BY <2>2, <2>3, <3>4 DEF Known
        <3>5. QED
            BY <3>1, <3>2, <3>3, <3>4
    <2>5. QED
        BY <2>2, <2>4
<1>5. QED
    BY <1>1, <1>2, <1>3, <1>4

\* The layer that has the control, in numbers.
LEMMA PlaceOf ==
    ASSUME TypeInv, RequestsInv, NEW r \in Requests
    PROVE  /\ Pos(r) = IF Traced(r) THEN 4 ELSE 3
           /\ Len(Chain(r)) = IF Traced(r) THEN 6 ELSE 4
           /\ depth[r] \in 0 .. Len(Chain(r))
           /\ depth[r] > 0 => Known(r, depth[r])
<1>1. /\ Pos(r) = IF Traced(r) THEN 4 ELSE 3
      /\ Len(Chain(r)) = IF Traced(r) THEN 6 ELSE 4
    BY LayerAt
<1>2. depth[r] \in 0 .. Len(Chain(r))
    BY <1>1 DEF TypeInv, RequestsInv, RequestInv, StackInv
<1>3. ASSUME depth[r] > 0 PROVE Known(r, depth[r])
    <2>1. depth[r] \in 1 .. Len(Chain(r))
        BY <1>1, <1>2, <1>3
    <2>2. \A i \in 1 .. Len(Chain(r)) : Known(r, i)
        BY LayerAt
    <2>3. QED
        BY <2>1, <2>2
<1>4. QED
    BY <1>1, <1>2, <1>3

\* A request is inside Instrument when as many layers have called the next.
LEMMA InsideIff ==
    ASSUME TypeInv, RequestsInv, NEW r \in Requests
    PROVE  Inside(r) <=> Entered(r) >= Pos(r)
<1>1. /\ Entered(r) \in Int
      /\ Entered(r) <= Len(Chain(r))
      /\ Pos(r) \in {3, 4}
      /\ Pos(r) <= Len(Chain(r)) /\ Len(Chain(r)) \in Nat
    <2>1. depth[r] \in Nat /\ Entered(r) \in Int /\ Entered(r) <= depth[r]
        BY DEF TypeInv, Entered
    <2>2. /\ Pos(r) = IF Traced(r) THEN 4 ELSE 3
          /\ Len(Chain(r)) = IF Traced(r) THEN 6 ELSE 4
          /\ depth[r] \in 0 .. Len(Chain(r))
        BY PlaceOf
    <2>3. Len(Chain(r)) \in Nat /\ Pos(r) \in {3, 4} /\ Pos(r) <= Len(Chain(r))
        BY <2>2
    <2>4. QED
        BY <2>1, <2>2, <2>3
<1>2. ASSUME NEW i \in 1 .. Entered(r)
      PROVE  Chain(r)[i] = "instrument" <=> i = Pos(r)
    <2>1. i \in 1 .. Len(Chain(r))
        BY <1>1, <1>2
    <2>2. \A j \in 1 .. Len(Chain(r)) : Known(r, j)
        BY LayerAt
    <2>3. Known(r, i)
        BY <2>1, <2>2
    <2>4. QED
        BY <2>3 DEF Known
<1>3. QED
    BY <1>1, <1>2 DEF Inside

\* With the last of two functions gone the first one is left.
LEMMA FrontOfTwo == ASSUME NEW a, NEW b PROVE SubSeq(<<a, b>>, 1, 1) = <<a>>
<1> DEFINE t == SubSeq(<<a, b>>, 1, 1)
<1>1. <<a, b>> \in Seq({a, b})
    OBVIOUS
<1>2. t \in Seq({a, b}) /\ Len(t) = 1 /\ t[1] = a
    BY <1>1
<1>3. <<a>> \in Seq({a, b}) /\ Len(<<a>>) = 1 /\ <<a>>[1] = a
    OBVIOUS
<1>4. Len(t) = Len(<<a>>) /\ \A i \in 1 .. Len(t) : t[i] = <<a>>[i]
    BY <1>2, <1>3
<1>5. t = <<a>>
    <2> HIDE DEF t
    <2>1. QED
        BY <1>2, <1>3, <1>4, SeqEqual
<1>6. QED
    BY <1>5 DEF t

\* The functions of a frame run one after the other, and each is the last once.
LEMMA FramesRun ==
    /\ CountAndDec # OnlyDec /\ CountAndDec # Nothing /\ OnlyDec # Nothing
    /\ MarkAndEnd # OnlyEnd
    /\ \A s \in {CountAndDec, OnlyDec} :
           /\ s[Len(s)] = "count"
                  => s = CountAndDec /\ Len(s) # 1 /\ SubSeq(s, 1, Len(s) - 1) = OnlyDec
           /\ s[Len(s)] = "dec"
                  => s = OnlyDec /\ Len(s) = 1 /\ SubSeq(s, 1, Len(s) - 1) = Nothing
    /\ \A s \in {MarkAndEnd, OnlyEnd} :
           /\ s[Len(s)] = "mark"
                  => s = MarkAndEnd /\ Len(s) # 1 /\ SubSeq(s, 1, Len(s) - 1) = OnlyEnd
           /\ s[Len(s)] = "end"
                  => s = OnlyEnd /\ Len(s) = 1 /\ SubSeq(s, 1, Len(s) - 1) = Nothing
<1>1. "count" # "dec" /\ "mark" # "end"
    OBVIOUS
<1>2. /\ CountAndDec # OnlyDec /\ CountAndDec # Nothing /\ OnlyDec # Nothing
      /\ MarkAndEnd # OnlyEnd
    BY DEF CountAndDec, OnlyDec, MarkAndEnd, OnlyEnd, Nothing
<1>3. ASSUME NEW s \in {CountAndDec, OnlyDec}
      PROVE  /\ s[Len(s)] = "count"
                    => s = CountAndDec /\ Len(s) # 1 /\ SubSeq(s, 1, Len(s) - 1) = OnlyDec
             /\ s[Len(s)] = "dec"
                    => s = OnlyDec /\ Len(s) = 1 /\ SubSeq(s, 1, Len(s) - 1) = Nothing
    <2>1. CASE s = CountAndDec
        <3>1. s = <<"dec", "count">> /\ Len(s) = 2 /\ s[2] = "count"
            BY <2>1 DEF CountAndDec
        <3>2. SubSeq(s, 1, 1) = <<"dec">>
            BY <3>1, FrontOfTwo
        <3>3. QED
            BY <1>1, <2>1, <3>1, <3>2 DEF OnlyDec
    <2>2. CASE s = OnlyDec
        <3>1. s = <<"dec">> /\ Len(s) = 1 /\ s[1] = "dec"
            BY <2>2 DEF OnlyDec
        <3>2. SubSeq(s, 1, 0) = <<>>
            BY <3>1
        <3>3. QED
            BY <1>1, <2>2, <3>1, <3>2 DEF Nothing
    <2>3. QED
        BY <1>3, <2>1, <2>2
<1>4. ASSUME NEW s \in {MarkAndEnd, OnlyEnd}
      PROVE  /\ s[Len(s)] = "mark"
                    => s = MarkAndEnd /\ Len(s) # 1 /\ SubSeq(s, 1, Len(s) - 1) = OnlyEnd
             /\ s[Len(s)] = "end"
                    => s = OnlyEnd /\ Len(s) = 1 /\ SubSeq(s, 1, Len(s) - 1) = Nothing
    <2>1. CASE s = MarkAndEnd
        <3>1. s = <<"end", "mark">> /\ Len(s) = 2 /\ s[2] = "mark"
            BY <2>1 DEF MarkAndEnd
        <3>2. SubSeq(s, 1, 1) = <<"end">>
            BY <3>1, FrontOfTwo
        <3>3. QED
            BY <1>1, <2>1, <3>1, <3>2 DEF OnlyEnd
    <2>2. CASE s = OnlyEnd
        <3>1. s = <<"end">> /\ Len(s) = 1 /\ s[1] = "end"
            BY <2>2 DEF OnlyEnd
        <3>2. SubSeq(s, 1, 0) = <<>>
            BY <3>1
        <3>3. QED
            BY <1>1, <2>2, <3>1, <3>2 DEF Nothing
    <2>3. QED
        BY <1>4, <2>1, <2>2
<1>5. QED
    BY <1>2, <1>3, <1>4

\* A writer inside Instrument has all recorders around it.
LEMMA RecordersAround ==
    ASSUME TypeInv, RequestsInv, NEW r \in Requests, depth[r] > Pos(r)
    PROVE  /\ {"guard", "log", "instrument"} \subseteq Around(r)
           /\ Traced(r) => "trace" \in Around(r)
<1>1. /\ Pos(r) = IF Traced(r) THEN 4 ELSE 3
      /\ Len(Chain(r)) = IF Traced(r) THEN 6 ELSE 4
      /\ depth[r] \in 0 .. Len(Chain(r))
    BY PlaceOf
<1>2. \A i \in 1 .. Len(Chain(r)) : Known(r, i)
    BY LayerAt
<1>3. 1 \in 1 .. depth[r] - 1 /\ Chain(r)[1] = "guard"
    BY <1>1, <1>2 DEF Known
<1>4. Pos(r) - 1 \in 1 .. depth[r] - 1 /\ Chain(r)[Pos(r) - 1] = "log"
    BY <1>1, <1>2 DEF Known
<1>5. Pos(r) \in 1 .. depth[r] - 1 /\ Chain(r)[Pos(r)] = "instrument"
    BY <1>1, <1>2 DEF Known
<1>6. Traced(r) => 2 \in 1 .. depth[r] - 1 /\ Chain(r)[2] = "trace"
    BY <1>1, <1>2 DEF Known
<1>7. QED
    BY <1>3, <1>4, <1>5, <1>6 DEF Around, Recording

\* What a header changes.
LEMMA HeaderHeard ==
    ASSUME TypeInv, NEW r \in Requests, NEW recorders, NEW code \in Nat,
           WriteHeader(r, recorders, code)
    PROVE  /\ heard' \in [Requests -> [Recording -> Nat]]
           /\ sent' \in [Requests -> Nat]
           /\ \A l \in Recording :
                  heard'[r][l] = IF l \in recorders /\ heard[r][l] = 0 THEN code
                                 ELSE heard[r][l]
           /\ sent'[r] = IF sent[r] = 0 THEN code ELSE sent[r]
           /\ \A q \in Requests \ {r} : heard'[q] = heard[q] /\ sent'[q] = sent[q]
<1>1. heard[r] \in [Recording -> Nat] /\ DOMAIN heard[r] = Recording
    BY DEF TypeInv
<1> DEFINE told == [l \in Recording |-> IF l \in recorders /\ heard[r][l] = 0
                                         THEN code ELSE heard[r][l]]
<1>2. told \in [Recording -> Nat]
    BY <1>1
<1>3. heard' = [heard EXCEPT ![r] = told]
    BY <1>1 DEF WriteHeader
<1>4. \A l \in Recording :
          told[l] = IF l \in recorders /\ heard[r][l] = 0 THEN code ELSE heard[r][l]
    OBVIOUS
<1> HIDE DEF told
<1>5. /\ heard' \in [Requests -> [Recording -> Nat]]
      /\ heard'[r] = told
      /\ \A q \in Requests \ {r} : heard'[q] = heard[q]
    BY <1>2, <1>3 DEF TypeInv
<1>6. QED
    BY <1>4, <1>5 DEF WriteHeader, TypeInv

\* What the defer statements of a layer change.
LEMMA Deferral ==
    ASSUME TypeInv, NEW r \in Requests, NEW l \in Deferring, NEW fs \in Seq(Functions),
           Defer(r, l, fs)
    PROVE  /\ deferred' \in [Requests -> [Deferring -> Seq(Functions)]]
           /\ deferred'[r][l] = fs
           /\ \A m \in Deferring \ {l} : deferred'[r][m] = deferred[r][m]
           /\ \A q \in Requests \ {r} : deferred'[q] = deferred[q]
    BY DEF Defer, TypeInv

\* What running a deferred function changes.
LEMMA DeferredRun ==
    ASSUME TypeInv, NEW r \in Requests, NEW l \in Deferring, NEW f,
           NEW how \in Unwinding, RunDeferred(r, l, f, how)
    PROVE  /\ At(r, l, Unwinding)
           /\ deferred[r][l] # <<>> /\ deferred[r][l][Len(deferred[r][l])] = f
           /\ deferred' \in [Requests -> [Deferring -> Seq(Functions)]]
           /\ deferred'[r][l] = SubSeq(deferred[r][l], 1, Len(deferred[r][l]) - 1)
           /\ \A m \in Deferring \ {l} : deferred'[r][m] = deferred[r][m]
           /\ \A q \in Requests \ {r} : deferred'[q] = deferred[q]
           /\ mode' \in [Requests -> {"idle", "calling", "over"} \cup Unwinding]
           /\ mode'[r] = how
           /\ depth' \in [Requests -> Nat]
           /\ depth'[r] = IF Len(deferred[r][l]) = 1 THEN depth[r] - 1 ELSE depth[r]
           /\ logFrom' = logFrom /\ route' = route
<1> DEFINE s == deferred[r][l]
           t == SubSeq(s, 1, Len(s) - 1)
<1>1. s \in Seq(Functions) /\ s # <<>>
    BY DEF TypeInv, RunDeferred
<1>2. t \in Seq(Functions)
    BY <1>1
<1>3. deferred' = [deferred EXCEPT ![r][l] = t]
    BY DEF RunDeferred
<1> HIDE DEF t
<1>4. /\ deferred' \in [Requests -> [Deferring -> Seq(Functions)]]
      /\ deferred'[r][l] = t
      /\ \A m \in Deferring \ {l} : deferred'[r][m] = deferred[r][m]
      /\ \A q \in Requests \ {r} : deferred'[q] = deferred[q]
    BY <1>2, <1>3 DEF TypeInv
<1>5. depth[r] \in Nat /\ depth[r] > 0
    BY DEF TypeInv, RunDeferred, At
<1>6. /\ depth' \in [Requests -> Nat]
      /\ depth'[r] = IF Len(s) = 1 THEN depth[r] - 1 ELSE depth[r]
    <2>1. (IF Len(s) = 1 THEN depth[r] - 1 ELSE depth[r]) \in Nat
        BY <1>5
    <2>2. QED
        BY <2>1 DEF TypeInv, RunDeferred
<1>7. /\ mode' \in [Requests -> {"idle", "calling", "over"} \cup Unwinding]
      /\ mode'[r] = how
    BY DEF TypeInv, RunDeferred
<1>8. QED
    BY <1>4, <1>6, <1>7 DEF RunDeferred, t
-------------------------------------------------------------------------------
\* Every step keeps the types; the gauge is only known to be an integer here.
LEMMA TypeInvStep == TypeInv /\ [Next]_vars => TypeInv'
<1> SUFFICES ASSUME TypeInv, [Next]_vars
             PROVE  TypeInv'
    OBVIOUS
<1>1. ASSUME NEW r \in Requests, Serve(r)
      PROVE  TypeInv'
    BY <1>1 DEF TypeInv, Serve
<1>2. ASSUME NEW r \in Requests, EnterGuard(r)
      PROVE  TypeInv'
    <2>1. /\ "guard" \in Deferring /\ <<"recover">> \in Seq(Functions)
          /\ Defer(r, "guard", <<"recover">>)
        BY <1>2 DEF Deferring, Functions, EnterGuard
    <2>2. deferred' \in [Requests -> [Deferring -> Seq(Functions)]]
        BY <1>2, <2>1, Deferral
    <2>3. /\ depth' \in [Requests -> Nat]
          /\ mode' = mode /\ route' = route /\ logFrom' = logFrom
        BY <1>2 DEF TypeInv, CallNext, EnterGuard
    <2>4. QED
        BY <1>2, <2>2, <2>3 DEF TypeInv, EnterGuard
<1>3. ASSUME NEW r \in Requests, EnterLog(r)
      PROVE  TypeInv'
    BY <1>3 DEF TypeInv, CallNext, EnterLog
<1>4. ASSUME NEW r \in Requests, StartSpan(r)
      PROVE  TypeInv'
    <2>1. /\ "trace" \in Deferring /\ <<"end", "mark">> \in Seq(Functions)
          /\ Defer(r, "trace", <<"end", "mark">>)
        BY <1>4 DEF Deferring, Functions, StartSpan
    <2>2. deferred' \in [Requests -> [Deferring -> Seq(Functions)]]
        BY <1>4, <2>1, Deferral
    <2>3. /\ depth' \in [Requests -> Nat]
          /\ mode' = mode /\ route' = route /\ logFrom' = logFrom
        BY <1>4 DEF TypeInv, CallNext, StartSpan
    <2>4. QED
        BY <1>4, <2>2, <2>3 DEF TypeInv, StartSpan
<1>5. ASSUME NEW r \in Requests, IncInProgress(r)
      PROVE  TypeInv'
    <2>1. /\ "instrument" \in Deferring /\ <<"dec", "count">> \in Seq(Functions)
          /\ Defer(r, "instrument", <<"dec", "count">>)
        BY <1>5 DEF Deferring, Functions, IncInProgress
    <2>2. deferred' \in [Requests -> [Deferring -> Seq(Functions)]]
        BY <1>5, <2>1, Deferral
    <2>3. /\ depth' \in [Requests -> Nat]
          /\ mode' = mode /\ route' = route /\ logFrom' = logFrom
        BY <1>5 DEF TypeInv, CallNext, IncInProgress
    <2>4. QED
        BY <1>5, <2>2, <2>3 DEF TypeInv, IncInProgress
<1>6. ASSUME NEW r \in Requests, Chaos(r)
      PROVE  TypeInv'
    <2>1. CASE CallNext(r) /\ UNCHANGED <<deferred, answerVars>>
        BY <1>6, <2>1 DEF TypeInv, CallNext, Chaos
    <2>2. CASE Leave(r, "returning") /\ WriteHeader(r, Around(r), 500)
        <3>1. heard' \in [Requests -> [Recording -> Nat]] /\ sent' \in [Requests -> Nat]
            BY <1>6, <2>2, HeaderHeard
        <3>2. /\ depth' \in [Requests -> Nat]
              /\ mode' \in [Requests -> {"idle", "calling", "over"} \cup Unwinding]
              /\ deferred' = deferred /\ route' = route /\ logFrom' = logFrom
            BY <1>6, <2>2 DEF TypeInv, Leave, At, Chaos
        <3>3. QED
            BY <1>6, <3>1, <3>2 DEF TypeInv, Chaos
    <2>3. CASE Leave(r, "returning") /\ UNCHANGED answerVars
        BY <1>6, <2>3 DEF TypeInv, Leave, At, Chaos
    <2>4. QED
        BY <1>6, <2>1, <2>2, <2>3 DEF Chaos
<1>7. ASSUME NEW r \in Requests, RequireAdmin(r)
      PROVE  TypeInv'
    <2>1. CASE CallNext(r) /\ UNCHANGED <<deferred, answerVars>>
        BY <1>7, <2>1 DEF TypeInv, CallNext, RequireAdmin
    <2>2. CASE Leave(r, "returning") /\ WriteHeader(r, Around(r), 401)
        <3>1. heard' \in [Requests -> [Recording -> Nat]] /\ sent' \in [Requests -> Nat]
            BY <1>7, <2>2, HeaderHeard
        <3>2. /\ depth' \in [Requests -> Nat]
              /\ mode' \in [Requests -> {"idle", "calling", "over"} \cup Unwinding]
              /\ deferred' = deferred /\ route' = route /\ logFrom' = logFrom
            BY <1>7, <2>2 DEF TypeInv, Leave, At, RequireAdmin
        <3>3. QED
            BY <1>7, <3>1, <3>2 DEF TypeInv, RequireAdmin
    <2>4. QED
        BY <1>7, <2>1, <2>2 DEF RequireAdmin
<1>8. ASSUME NEW r \in Requests, HandlerWrites(r)
      PROVE  TypeInv'
    <2>1. PICK code \in Codes : WriteHeader(r, Around(r), code)
        BY <1>8 DEF HandlerWrites
    <2>2. code \in Nat
        BY RequestChainAssumption
    <2>3. heard' \in [Requests -> [Recording -> Nat]] /\ sent' \in [Requests -> Nat]
        BY <2>1, <2>2, HeaderHeard
    <2>4. QED
        BY <1>8, <2>3 DEF TypeInv, HandlerWrites
<1>9. ASSUME NEW r \in Requests, HandlerReturns(r)
      PROVE  TypeInv'
    BY <1>9 DEF TypeInv, Leave, At, HandlerReturns
<1>10. ASSUME NEW r \in Requests, HandlerPanics(r)
      PROVE  TypeInv'
    BY <1>10 DEF TypeInv, Leave, At, HandlerPanics
<1>11. ASSUME NEW r \in Requests, PassUp(r)
      PROVE  TypeInv'
    BY <1>11 DEF TypeInv, Leave, At, PassUp
<1>12. ASSUME NEW r \in Requests, CountRequest(r)
      PROVE  TypeInv'
    <2>1. /\ "instrument" \in Deferring /\ mode[r] \in Unwinding
          /\ RunDeferred(r, "instrument", "count", mode[r])
        BY <1>12 DEF Deferring, CountRequest, RunDeferred, At
    <2>2. /\ logFrom' = logFrom /\ route' = route
          /\ mode' \in [Requests -> {"idle", "calling", "over"} \cup Unwinding]
          /\ depth' \in [Requests -> Nat]
          /\ deferred' \in [Requests -> [Deferring -> Seq(Functions)]]
        BY <2>1, DeferredRun
    <2>3. counted' \in [Requests -> Seq(Nat)]
        <3>1. (IF mode[r] = "panicking" THEN 500 ELSE Status(r, "instrument")) \in Nat
            BY DEF TypeInv, Status, Recording
        <3>2. QED
            BY <1>12, <3>1 DEF TypeInv, CountRequest
    <2>4. QED
        BY <1>12, <2>2, <2>3 DEF TypeInv, CountRequest
<1>13. ASSUME NEW r \in Requests, DecInProgress(r)
      PROVE  TypeInv'
    <2>1. /\ "instrument" \in Deferring /\ mode[r] \in Unwinding
          /\ RunDeferred(r, "instrument", "dec", mode[r])
        BY <1>13 DEF Deferring, DecInProgress, RunDeferred, At
    <2>2. /\ logFrom' = logFrom /\ route' = route
          /\ mode' \in [Requests -> {"idle", "calling", "over"} \cup Unwinding]
          /\ depth' \in [Requests -> Nat]
          /\ deferred' \in [Requests -> [Deferring -> Seq(Functions)]]
        BY <2>1, DeferredRun
    <2>3. QED
        BY <1>13, <2>2 DEF TypeInv, DecInProgress
<1>14. ASSUME NEW r \in Requests, LogLine(r)
      PROVE  TypeInv'
    <2>1. Status(r, "log") \in Nat
        BY DEF TypeInv, Status, Recording
    <2>2. lines' \in [Requests -> Seq(Nat)]
        BY <1>14, <2>1 DEF TypeInv, LogLine
    <2>3. QED
        BY <1>14, <2>2 DEF TypeInv, Leave, At, LogLine
<1>15. ASSUME NEW r \in Requests, SkipLine(r)
      PROVE  TypeInv'
    BY <1>15 DEF TypeInv, Leave, At, SkipLine
<1>16. ASSUME NEW r \in Requests, MarkSpan(r)
      PROVE  TypeInv'
    <2>1. /\ "trace" \in Deferring /\ mode[r] \in Unwinding
          /\ RunDeferred(r, "trace", "mark", mode[r])
        BY <1>16 DEF Deferring, MarkSpan, RunDeferred, At
    <2>2. /\ logFrom' = logFrom /\ route' = route
          /\ mode' \in [Requests -> {"idle", "calling", "over"} \cup Unwinding]
          /\ depth' \in [Requests -> Nat]
          /\ deferred' \in [Requests -> [Deferring -> Seq(Functions)]]
        BY <2>1, DeferredRun
    <2>3. QED
        BY <1>16, <2>2 DEF TypeInv, MarkSpan
<1>17. ASSUME NEW r \in Requests, EndSpan(r)
      PROVE  TypeInv'
    <2>1. /\ "trace" \in Deferring /\ mode[r] \in Unwinding
          /\ RunDeferred(r, "trace", "end", mode[r])
        BY <1>17 DEF Deferring, EndSpan, RunDeferred, At
    <2>2. /\ logFrom' = logFrom /\ route' = route
          /\ mode' \in [Requests -> {"idle", "calling", "over"} \cup Unwinding]
          /\ depth' \in [Requests -> Nat]
          /\ deferred' \in [Requests -> [Deferring -> Seq(Functions)]]
        BY <2>1, DeferredRun
    <2>3. QED
        BY <1>17, <2>2 DEF TypeInv, EndSpan
<1>18. ASSUME NEW r \in Requests, LeaveGuard(r)
      PROVE  TypeInv'
    <2>1. /\ "guard" \in Deferring /\ "returning" \in Unwinding
          /\ RunDeferred(r, "guard", "recover", "returning")
        BY <1>18 DEF Deferring, LeaveGuard, RunDeferred, At
    <2>2. /\ logFrom' = logFrom /\ route' = route
          /\ mode' \in [Requests -> {"idle", "calling", "over"} \cup Unwinding]
          /\ depth' \in [Requests -> Nat]
          /\ deferred' \in [Requests -> [Deferring -> Seq(Functions)]]
        BY <2>1, DeferredRun
    <2>3. heard' \in [Requests -> [Recording -> Nat]] /\ sent' \in [Requests -> Nat]
        <3>1. CASE WriteHeader(r, {"guard"}, 500)
            BY <3>1, HeaderHeard
        <3>2. QED
            BY <1>18, <3>1 DEF TypeInv, LeaveGuard
    <2>4. QED
        BY <1>18, <2>2, <2>3 DEF TypeInv, LeaveGuard
<1>19. ASSUME NEW r \in Requests, Finish(r)
      PROVE  TypeInv'
    BY <1>19 DEF TypeInv, Finish
<1>20. CASE UNCHANGED vars
    BY <1>20 DEF TypeInv, vars
<1>21. QED
    BY <1>1, <1>2, <1>3, <1>4, <1>5, <1>6, <1>7, <1>8, <1>9, <1>10, <1>11, <1>12, <1>13,
       <1>14, <1>15, <1>16, <1>17, <1>18, <1>19, <1>20 DEF Next, WayIn, WayOut

\* A step of one request leaves everything that belongs to another alone.
LEMMA OthersUntouched ==
    ASSUME TypeInv, NEW r \in Requests, WayIn(r) \/ WayOut(r), NEW q \in Requests, q # r
    PROVE  /\ logFrom' = logFrom /\ route' = route
           /\ mode'[q] = mode[q] /\ depth'[q] = depth[q] /\ deferred'[q] = deferred[q]
           /\ heard'[q] = heard[q] /\ sent'[q] = sent[q]
           /\ panicked'[q] = panicked[q]
           /\ counted'[q] = counted[q] /\ span'[q] = span[q] /\ lines'[q] = lines[q]
<1> USE DEF TypeInv, CallNext, Leave, Defer
<1>1. ASSUME NEW recorders, NEW code, WriteHeader(r, recorders, code)
      PROVE  heard'[q] = heard[q] /\ sent'[q] = sent[q]
    BY <1>1 DEF WriteHeader
<1>2. ASSUME NEW l, NEW f, NEW how, RunDeferred(r, l, f, how)
      PROVE  /\ logFrom' = logFrom /\ route' = route
             /\ mode'[q] = mode[q] /\ depth'[q] = depth[q] /\ deferred'[q] = deferred[q]
    BY <1>2 DEF RunDeferred
<1>3. CASE Serve(r) \/ EnterGuard(r) \/ EnterLog(r) \/ StartSpan(r) \/ IncInProgress(r)
    BY <1>3 DEF Serve, EnterGuard, EnterLog, StartSpan, IncInProgress
<1>4. CASE Chaos(r) \/ RequireAdmin(r)
    BY <1>1, <1>4 DEF Chaos, RequireAdmin
<1>5. CASE HandlerWrites(r) \/ HandlerReturns(r) \/ HandlerPanics(r)
    BY <1>1, <1>5 DEF HandlerWrites, HandlerReturns, HandlerPanics
<1>6. CASE PassUp(r) \/ LogLine(r) \/ SkipLine(r) \/ Finish(r)
    BY <1>6 DEF PassUp, LogLine, SkipLine, Finish
<1>7. CASE CountRequest(r) \/ DecInProgress(r) \/ MarkSpan(r) \/ EndSpan(r)
    BY <1>2, <1>7 DEF CountRequest, DecInProgress, MarkSpan, EndSpan
<1>8. CASE LeaveGuard(r)
    BY <1>1, <1>2, <1>8 DEF LeaveGuard
<1>9. QED
    BY <1>3, <1>4, <1>5, <1>6, <1>7, <1>8 DEF WayIn, WayOut

\* A step of a request keeps its own part of the invariant.
LEMMA OwnStep ==
    ASSUME TypeInv, RequestsInv, NEW r \in Requests, WayIn(r) \/ WayOut(r)
    PROVE  RequestInv(r)'
<1>0. /\ Pos(r) = IF Traced(r) THEN 4 ELSE 3
      /\ Len(Chain(r)) = IF Traced(r) THEN 6 ELSE 4
      /\ depth[r] \in 0 .. Len(Chain(r))
      /\ depth[r] > 0 => Known(r, depth[r])
    BY PlaceOf
<1>1. /\ StackInv(r) /\ DeferInv(r) /\ AnswerInv(r)
      /\ CountInv(r) /\ LineInv(r) /\ SpanInv(r)
      /\ Pos(r) = IF Traced(r) THEN 4 ELSE 3
      /\ depth[r] \in Nat /\ sent[r] \in Nat /\ logFrom \in Nat
      /\ \A l \in Recording : heard[r][l] \in Nat
      /\ panicked[r] \in BOOLEAN /\ Traced(r) \in BOOLEAN
      /\ mode[r] \in {"idle", "calling", "over"} \cup Unwinding
    BY <1>0 DEF RequestsInv, RequestInv, TypeInv, Thresholds, Traced
<1>2. (Traced(r)' <=> Traced(r)) /\ Pos(r)' = Pos(r) /\ logFrom' = logFrom
    <2>1. route' = route /\ logFrom' = logFrom
        BY DEF WayIn, Serve, EnterGuard, EnterLog, StartSpan, IncInProgress, Chaos,
           RequireAdmin, HandlerWrites, HandlerReturns, HandlerPanics, CallNext, Leave,
           RunDeferred, WayOut, PassUp, CountRequest, DecInProgress, LogLine, SkipLine, MarkSpan,
           EndSpan, LeaveGuard, Finish
    <2>2. QED
        BY <2>1 DEF Traced, Pos
<1>3. /\ "guard" \in Recording /\ "trace" \in Recording
      /\ "log" \in Recording /\ "instrument" \in Recording
      /\ "guard" \in Deferring /\ "trace" \in Deferring /\ "instrument" \in Deferring
    BY DEF Recording, Deferring
<1>4. /\ CountAndDec # OnlyDec /\ CountAndDec # Nothing /\ OnlyDec # Nothing
      /\ MarkAndEnd # OnlyEnd
    BY FramesRun
<1>5. CASE Serve(r)
    <2>1. /\ mode[r] = "idle" /\ depth[r] = 0 /\ mode'[r] = "calling"
          /\ depth'[r] = 1 /\ deferred'[r] = deferred[r] /\ heard'[r] = heard[r]
          /\ sent'[r] = sent[r] /\ panicked'[r] = panicked[r]
          /\ counted'[r] = counted[r] /\ span'[r] = span[r] /\ lines'[r] = lines[r]
        BY <1>0, <1>1, <1>3, <1>5 DEF Serve, StackInv, TypeInv
    <2>2. StackInv(r)'
        BY <1>0, <1>1, <1>2, <1>3, <1>4, <2>1 DEF StackInv, Told
    <2>3. DeferInv(r)'
        BY <1>0, <1>1, <1>2, <1>3, <1>4, <2>1 DEF StackInv, DeferInv, Entered
    <2>4. AnswerInv(r)'
        BY <1>0, <1>1, <1>2, <1>3, <1>4, <2>1 DEF StackInv, AnswerInv, Told, Status
    <2>5. CountInv(r)'
        BY <1>0, <1>1, <1>2, <1>3, <1>4, <2>1
           DEF StackInv, DeferInv, CountInv, Past, Entered, Told, Outcome, Status
    <2>6. LineInv(r)'
        BY <1>0, <1>1, <1>2, <1>3, <1>4, <2>1
           DEF StackInv, AnswerInv, LineInv, Past, Told, Status
    <2>7. SpanInv(r)'
        BY <1>0, <1>1, <1>2, <1>3, <1>4, <2>1
           DEF StackInv, DeferInv, AnswerInv, SpanInv, Past, Entered, Told, Outcome, Status
    <2>8. QED
        BY <2>2, <2>3, <2>4, <2>5, <2>6, <2>7 DEF RequestInv
<1>6. CASE EnterGuard(r)
    <2>1. Defer(r, "guard", <<"recover">>) /\ <<"recover">> \in Seq(Functions)
        BY <1>6 DEF EnterGuard, Functions
    <2>2. /\ deferred'[r]["guard"] = <<"recover">>
          /\ deferred'[r]["trace"] = deferred[r]["trace"]
          /\ deferred'[r]["instrument"] = deferred[r]["instrument"]
        BY <1>3, <2>1, Deferral DEF Deferring
    <2>3. /\ mode[r] = "calling" /\ depth[r] = 1 /\ mode'[r] = mode[r]
          /\ depth'[r] = depth[r] + 1 /\ heard'[r] = heard[r] /\ sent'[r] = sent[r]
          /\ panicked'[r] = panicked[r] /\ counted'[r] = counted[r]
          /\ span'[r] = span[r] /\ lines'[r] = lines[r]
        BY <1>0, <1>1, <1>6 DEF EnterGuard, At, Known, TypeInv, CallNext
    <2>4. StackInv(r)'
        BY <1>0, <1>1, <1>2, <1>3, <1>4, <2>2, <2>3 DEF StackInv, Told
    <2>5. DeferInv(r)'
        BY <1>0, <1>1, <1>2, <1>3, <1>4, <2>2, <2>3 DEF StackInv, DeferInv, Entered
    <2>6. AnswerInv(r)'
        BY <1>0, <1>1, <1>2, <1>3, <1>4, <2>2, <2>3
           DEF StackInv, AnswerInv, Told, Status
    <2>7. CountInv(r)'
        BY <1>0, <1>1, <1>2, <1>3, <1>4, <2>2, <2>3
           DEF StackInv, DeferInv, CountInv, Past, Entered, Told, Outcome, Status
    <2>8. LineInv(r)'
        BY <1>0, <1>1, <1>2, <1>3, <1>4, <2>2, <2>3
           DEF StackInv, AnswerInv, LineInv, Past, Told, Status
    <2>9. SpanInv(r)'
        BY <1>0, <1>1, <1>2, <1>3, <1>4, <2>2, <2>3
           DEF StackInv, DeferInv, AnswerInv, SpanInv, Past, Entered, Told, Outcome, Status
    <2>10. QED
        BY <2>4, <2>5, <2>6, <2>7, <2>8, <2>9 DEF RequestInv
<1>7. CASE EnterLog(r)
    <2>1. /\ mode[r] = "calling" /\ depth[r] = Pos(r) - 1 /\ mode'[r] = mode[r]
          /\ depth'[r] = depth[r] + 1 /\ deferred'[r] = deferred[r]
          /\ heard'[r] = heard[r] /\ sent'[r] = sent[r]
          /\ panicked'[r] = panicked[r] /\ counted'[r] = counted[r]
          /\ span'[r] = span[r] /\ lines'[r] = lines[r]
        BY <1>0, <1>1, <1>3, <1>7 DEF EnterLog, At, Known, TypeInv, CallNext
    <2>2. StackInv(r)'
        BY <1>0, <1>1, <1>2, <1>3, <1>4, <2>1 DEF StackInv, Told
    <2>3. DeferInv(r)'
        BY <1>0, <1>1, <1>2, <1>3, <1>4, <2>1 DEF StackInv, DeferInv, Entered
    <2>4. AnswerInv(r)'
        BY <1>0, <1>1, <1>2, <1>3, <1>4, <2>1 DEF StackInv, AnswerInv, Told, Status
    <2>5. CountInv(r)'
        BY <1>0, <1>1, <1>2, <1>3, <1>4, <2>1
           DEF StackInv, DeferInv, CountInv, Past, Entered, Told, Outcome, Status
    <2>6. LineInv(r)'
        BY <1>0, <1>1, <1>2, <1>3, <1>4, <2>1
           DEF StackInv, AnswerInv, LineInv, Past, Told, Status
    <2>7. SpanInv(r)'
        BY <1>0, <1>1, <1>2, <1>3, <1>4, <2>1
           DEF StackInv, DeferInv, AnswerInv, SpanInv, Past, Entered, Told, Outcome, Status
    <2>8. QED
        BY <2>2, <2>3, <2>4, <2>5, <2>6, <2>7 DEF RequestInv
<1>8. CASE StartSpan(r)
    <2>1. Defer(r, "trace", <<"end", "mark">>) /\ <<"end", "mark">> \in Seq(Functions)
        BY <1>8 DEF StartSpan, Functions
    <2>2. /\ deferred'[r]["trace"] = MarkAndEnd
          /\ deferred'[r]["guard"] = deferred[r]["guard"]
          /\ deferred'[r]["instrument"] = deferred[r]["instrument"]
        BY <1>3, <2>1, Deferral DEF Deferring, MarkAndEnd
    <2>3. /\ mode[r] = "calling" /\ depth[r] = 2 /\ Traced(r) /\ mode'[r] = mode[r]
          /\ depth'[r] = depth[r] + 1 /\ heard'[r] = heard[r] /\ sent'[r] = sent[r]
          /\ panicked'[r] = panicked[r] /\ counted'[r] = counted[r]
          /\ span'[r] = "open" /\ lines'[r] = lines[r]
        BY <1>0, <1>1, <1>8 DEF StartSpan, At, Known, TypeInv, CallNext
    <2>4. StackInv(r)'
        BY <1>0, <1>1, <1>2, <1>3, <1>4, <2>2, <2>3 DEF StackInv, Told
    <2>5. DeferInv(r)'
        BY <1>0, <1>1, <1>2, <1>3, <1>4, <2>2, <2>3 DEF StackInv, DeferInv, Entered
    <2>6. AnswerInv(r)'
        BY <1>0, <1>1, <1>2, <1>3, <1>4, <2>2, <2>3
           DEF StackInv, AnswerInv, Told, Status
    <2>7. CountInv(r)'
        BY <1>0, <1>1, <1>2, <1>3, <1>4, <2>2, <2>3
           DEF StackInv, DeferInv, CountInv, Past, Entered, Told, Outcome, Status
    <2>8. LineInv(r)'
        BY <1>0, <1>1, <1>2, <1>3, <1>4, <2>2, <2>3
           DEF StackInv, AnswerInv, LineInv, Past, Told, Status
    <2>9. SpanInv(r)'
        BY <1>0, <1>1, <1>2, <1>3, <1>4, <2>2, <2>3
           DEF StackInv, DeferInv, AnswerInv, SpanInv, Past, Entered, Told, Outcome, Status
    <2>10. QED
        BY <2>4, <2>5, <2>6, <2>7, <2>8, <2>9 DEF RequestInv
<1>9. CASE IncInProgress(r)
    <2>1. Defer(r, "instrument", <<"dec", "count">>) /\ <<"dec", "count">> \in Seq(Functions)
        BY <1>9 DEF IncInProgress, Functions
    <2>2. /\ deferred'[r]["instrument"] = CountAndDec
          /\ deferred'[r]["guard"] = deferred[r]["guard"]
          /\ deferred'[r]["trace"] = deferred[r]["trace"]
        BY <1>3, <2>1, Deferral DEF Deferring, CountAndDec
    <2>3. /\ mode[r] = "calling" /\ depth[r] = Pos(r) /\ mode'[r] = mode[r]
          /\ depth'[r] = depth[r] + 1 /\ heard'[r] = heard[r] /\ sent'[r] = sent[r]
          /\ panicked'[r] = panicked[r] /\ counted'[r] = counted[r]
          /\ span'[r] = span[r] /\ lines'[r] = lines[r]
        BY <1>0, <1>1, <1>9 DEF IncInProgress, At, Known, TypeInv, CallNext
    <2>4. StackInv(r)'
        BY <1>0, <1>1, <1>2, <1>3, <1>4, <2>2, <2>3 DEF StackInv, Told
    <2>5. DeferInv(r)'
        BY <1>0, <1>1, <1>2, <1>3, <1>4, <2>2, <2>3 DEF StackInv, DeferInv, Entered
    <2>6. AnswerInv(r)'
        BY <1>0, <1>1, <1>2, <1>3, <1>4, <2>2, <2>3
           DEF StackInv, AnswerInv, Told, Status
    <2>7. CountInv(r)'
        BY <1>0, <1>1, <1>2, <1>3, <1>4, <2>2, <2>3
           DEF StackInv, DeferInv, CountInv, Past, Entered, Told, Outcome, Status
    <2>8. LineInv(r)'
        BY <1>0, <1>1, <1>2, <1>3, <1>4, <2>2, <2>3
           DEF StackInv, AnswerInv, LineInv, Past, Told, Status
    <2>9. SpanInv(r)'
        BY <1>0, <1>1, <1>2, <1>3, <1>4, <2>2, <2>3
           DEF StackInv, DeferInv, AnswerInv, SpanInv, Past, Entered, Told, Outcome, Status
    <2>10. QED
        BY <2>4, <2>5, <2>6, <2>7, <2>8, <2>9 DEF RequestInv
<1>10. CASE Chaos(r)
    <2>1. /\ mode[r] = "calling" /\ depth[r] = 5 /\ Traced(r) /\ Pos(r) = 4
          /\ panicked'[r] = panicked[r] /\ counted'[r] = counted[r]
          /\ span'[r] = span[r] /\ lines'[r] = lines[r]
        BY <1>0, <1>1, <1>10 DEF Chaos, At, Known, TypeInv
    <2>2. CASE CallNext(r) /\ UNCHANGED <<deferred, answerVars>>
        <3>1. /\ mode'[r] = mode[r] /\ depth'[r] = depth[r] + 1
              /\ deferred'[r] = deferred[r] /\ heard'[r] = heard[r]
              /\ sent'[r] = sent[r]
            BY <2>1, <2>2 DEF TypeInv, CallNext
        <3>2. StackInv(r)'
            BY <1>0, <1>1, <1>2, <1>3, <1>4, <2>1, <3>1 DEF StackInv, Told
        <3>3. DeferInv(r)'
            BY <1>0, <1>1, <1>2, <1>3, <1>4, <2>1, <3>1 DEF StackInv, DeferInv, Entered
        <3>4. AnswerInv(r)'
            BY <1>0, <1>1, <1>2, <1>3, <1>4, <2>1, <3>1
               DEF StackInv, AnswerInv, Told, Status
        <3>5. CountInv(r)'
            BY <1>0, <1>1, <1>2, <1>3, <1>4, <2>1, <3>1
               DEF StackInv, DeferInv, CountInv, Past, Entered, Told, Outcome, Status
        <3>6. LineInv(r)'
            BY <1>0, <1>1, <1>2, <1>3, <1>4, <2>1, <3>1
               DEF StackInv, AnswerInv, LineInv, Past, Told, Status
        <3>7. SpanInv(r)'
            BY <1>0, <1>1, <1>2, <1>3, <1>4, <2>1, <3>1
               DEF StackInv, DeferInv, AnswerInv, SpanInv, Past, Entered, Told, Outcome, Status
        <3>8. QED
            BY <3>2, <3>3, <3>4, <3>5, <3>6, <3>7 DEF RequestInv
    <2>3. CASE Leave(r, "returning") /\ WriteHeader(r, Around(r), 500)
        <3>1. /\ mode'[r] = "returning" /\ depth'[r] = depth[r] - 1
              /\ deferred'[r] = deferred[r]
            BY <2>1, <2>3 DEF TypeInv, Leave
        <3>2. /\ 500 \in Nat /\ Told(r) = 0 /\ sent[r] = 0 /\ heard[r]["guard"] = 0
            BY <1>1, <2>1 DEF StackInv, AnswerInv
        <3>3. /\ heard'[r]["guard"] = 500 /\ heard'[r]["log"] = 500
              /\ heard'[r]["instrument"] = 500 /\ heard'[r]["trace"] = 500
              /\ sent'[r] = 500
            <4>1. {"guard", "log", "instrument", "trace"} \subseteq Around(r)
                BY <2>1, RecordersAround
            <4>2. QED
                BY <1>1, <1>3, <2>1, <2>3, <3>2, <4>1, HeaderHeard DEF AnswerInv, Told
        <3>4. StackInv(r)'
            BY <1>0, <1>1, <1>2, <1>3, <1>4, <2>1, <3>1, <3>2, <3>3 DEF StackInv, Told
        <3>5. DeferInv(r)'
            BY <1>0, <1>1, <1>2, <1>3, <1>4, <2>1, <3>1, <3>2, <3>3
               DEF StackInv, DeferInv, Entered
        <3>6. AnswerInv(r)'
            BY <1>0, <1>1, <1>2, <1>3, <1>4, <2>1, <3>1, <3>2, <3>3
               DEF StackInv, AnswerInv, Told, Status
        <3>7. CountInv(r)'
            BY <1>0, <1>1, <1>2, <1>3, <1>4, <2>1, <3>1, <3>2, <3>3
               DEF StackInv, DeferInv, CountInv, Past, Entered, Told, Outcome, Status
        <3>8. LineInv(r)'
            BY <1>0, <1>1, <1>2, <1>3, <1>4, <2>1, <3>1, <3>2, <3>3
               DEF StackInv, AnswerInv, LineInv, Past, Told, Status
        <3>9. SpanInv(r)'
            BY <1>0, <1>1, <1>2, <1>3, <1>4, <2>1, <3>1, <3>2, <3>3
               DEF StackInv, DeferInv, AnswerInv, SpanInv, Past, Entered, Told, Outcome, Status
        <3>10. QED
            BY <3>4, <3>5, <3>6, <3>7, <3>8, <3>9 DEF RequestInv
    <2>4. CASE Leave(r, "returning") /\ UNCHANGED answerVars
        <3>1. /\ mode'[r] = "returning" /\ depth'[r] = depth[r] - 1
              /\ deferred'[r] = deferred[r] /\ heard'[r] = heard[r]
              /\ sent'[r] = sent[r]
            BY <2>1, <2>4 DEF TypeInv, Leave
        <3>2. StackInv(r)'
            BY <1>0, <1>1, <1>2, <1>3, <1>4, <2>1, <3>1 DEF StackInv, Told
        <3>3. DeferInv(r)'
            BY <1>0, <1>1, <1>2, <1>3, <1>4, <2>1, <3>1 DEF StackInv, DeferInv, Entered
        <3>4. AnswerInv(r)'
            BY <1>0, <1>1, <1>2, <1>3, <1>4, <2>1, <3>1
               DEF StackInv, AnswerInv, Told, Status
        <3>5. CountInv(r)'
            BY <1>0, <1>1, <1>2, <1>3, <1>4, <2>1, <3>1
               DEF StackInv, DeferInv, CountInv, Past, Entered, Told, Outcome, Status
        <3>6. LineInv(r)'
            BY <1>0, <1>1, <1>2, <1>3, <1>4, <2>1, <3>1
               DEF StackInv, AnswerInv, LineInv, Past, Told, Status
        <3>7. SpanInv(r)'
            BY <1>0, <1>1, <1>2, <1>3, <1>4, <2>1, <3>1
               DEF StackInv, DeferInv, AnswerInv, SpanInv, Past, Entered, Told, Outcome, Status
        <3>8. QED
            BY <3>2, <3>3, <3>4, <3>5, <3>6, <3>7 DEF RequestInv
    <2>5. QED
        BY <1>10, <2>2, <2>3, <2>4 DEF Chaos
<1>11. CASE RequireAdmin(r)
    <2>1. /\ mode[r] = "calling" /\ depth[r] = 5 /\ Traced(r) /\ Pos(r) = 4
          /\ panicked'[r] = panicked[r] /\ counted'[r] = counted[r]
          /\ span'[r] = span[r] /\ lines'[r] = lines[r]
        BY <1>0, <1>1, <1>11 DEF RequireAdmin, At, Known, TypeInv
    <2>2. CASE CallNext(r) /\ UNCHANGED <<deferred, answerVars>>
        <3>1. /\ mode'[r] = mode[r] /\ depth'[r] = depth[r] + 1
              /\ deferred'[r] = deferred[r] /\ heard'[r] = heard[r]
              /\ sent'[r] = sent[r]
            BY <2>1, <2>2 DEF TypeInv, CallNext
        <3>2. StackInv(r)'
            BY <1>0, <1>1, <1>2, <1>3, <1>4, <2>1, <3>1 DEF StackInv, Told
        <3>3. DeferInv(r)'
            BY <1>0, <1>1, <1>2, <1>3, <1>4, <2>1, <3>1 DEF StackInv, DeferInv, Entered
        <3>4. AnswerInv(r)'
            BY <1>0, <1>1, <1>2, <1>3, <1>4, <2>1, <3>1
               DEF StackInv, AnswerInv, Told, Status
        <3>5. CountInv(r)'
            BY <1>0, <1>1, <1>2, <1>3, <1>4, <2>1, <3>1
               DEF StackInv, DeferInv, CountInv, Past, Entered, Told, Outcome, Status
        <3>6. LineInv(r)'
            BY <1>0, <1>1, <1>2, <1>3, <1>4, <2>1, <3>1
               DEF StackInv, AnswerInv, LineInv, Past, Told, Status
        <3>7. SpanInv(r)'
            BY <1>0, <1>1, <1>2, <1>3, <1>4, <2>1, <3>1
               DEF StackInv, DeferInv, AnswerInv, SpanInv, Past, Entered, Told, Outcome, Status
        <3>8. QED
            BY <3>2, <3>3, <3>4, <3>5, <3>6, <3>7 DEF RequestInv
    <2>3. CASE Leave(r, "returning") /\ WriteHeader(r, Around(r), 401)
        <3>1. /\ mode'[r] = "returning" /\ depth'[r] = depth[r] - 1
              /\ deferred'[r] = deferred[r]
            BY <2>1, <2>3 DEF TypeInv, Leave
        <3>2. /\ 401 \in Nat /\ Told(r) = 0 /\ sent[r] = 0 /\ heard[r]["guard"] = 0
            BY <1>1, <2>1 DEF StackInv, AnswerInv
        <3>3. /\ heard'[r]["guard"] = 401 /\ heard'[r]["log"] = 401
              /\ heard'[r]["instrument"] = 401 /\ heard'[r]["trace"] = 401
              /\ sent'[r] = 401
            <4>1. {"guard", "log", "instrument", "trace"} \subseteq Around(r)
                BY <2>1, RecordersAround
            <4>2. QED
                BY <1>1, <1>3, <2>1, <2>3, <3>2, <4>1, HeaderHeard DEF AnswerInv, Told
        <3>4. StackInv(r)'
            BY <1>0, <1>1, <1>2, <1>3, <1>4, <2>1, <3>1, <3>2, <3>3 DEF StackInv, Told
        <3>5. DeferInv(r)'
            BY <1>0, <1>1, <1>2, <1>3, <1>4, <2>1, <3>1, <3>2, <3>3
               DEF StackInv, DeferInv, Entered
        <3>6. AnswerInv(r)'
            BY <1>0, <1>1, <1>2, <1>3, <1>4, <2>1, <3>1, <3>2, <3>3
               DEF StackInv, AnswerInv, Told, Status
        <3>7. CountInv(r)'
            BY <1>0, <1>1, <1>2, <1>3, <1>4, <2>1, <3>1, <3>2, <3>3
               DEF StackInv, DeferInv, CountInv, Past, Entered, Told, Outcome, Status
        <3>8. LineInv(r)'
            BY <1>0, <1>1, <1>2, <1>3, <1>4, <2>1, <3>1, <3>2, <3>3
               DEF StackInv, AnswerInv, LineInv, Past, Told, Status
        <3>9. SpanInv(r)'
            BY <1>0, <1>1, <1>2, <1>3, <1>4, <2>1, <3>1, <3>2, <3>3
               DEF StackInv, DeferInv, AnswerInv, SpanInv, Past, Entered, Told, Outcome, Status
        <3>10. QED
            BY <3>4, <3>5, <3>6, <3>7, <3>8, <3>9 DEF RequestInv
    <2>4. QED
        BY <1>11, <2>2, <2>3 DEF RequireAdmin
<1>12. CASE HandlerWrites(r)
    <2>1. PICK code \in Codes : WriteHeader(r, Around(r), code)
        BY <1>12 DEF HandlerWrites
    <2>2. code \in Nat /\ code > 0
        BY RequestChainAssumption
    <2>3. /\ mode[r] = "calling" /\ depth[r] = Pos(r) + (IF Traced(r) THEN 2 ELSE 1)
          /\ depth[r] > Pos(r) /\ sent[r] = 0 /\ mode'[r] = mode[r]
          /\ depth'[r] = depth[r] /\ deferred'[r] = deferred[r]
          /\ panicked'[r] = panicked[r] /\ counted'[r] = counted[r]
          /\ span'[r] = span[r] /\ lines'[r] = lines[r]
        BY <1>0, <1>1, <1>12 DEF HandlerWrites, At, Known, TypeInv
    <2>4. Told(r) = 0 /\ heard[r]["guard"] = 0
        BY <1>1, <2>3 DEF AnswerInv
    <2>5. /\ {"guard", "log", "instrument"} \subseteq Around(r)
          /\ Traced(r) => "trace" \in Around(r)
        BY <2>3, RecordersAround
    <2>6. /\ heard'[r]["guard"] = code /\ heard'[r]["log"] = code
          /\ heard'[r]["instrument"] = code
          /\ (Traced(r) => heard'[r]["trace"] = code) /\ sent'[r] = code
        BY <1>1, <1>3, <2>1, <2>2, <2>3, <2>4, <2>5, HeaderHeard DEF AnswerInv, Told
    <2>7. StackInv(r)'
        BY <1>0, <1>1, <1>2, <1>3, <1>4, <2>2, <2>3, <2>4, <2>6 DEF StackInv, Told
    <2>8. DeferInv(r)'
        BY <1>0, <1>1, <1>2, <1>3, <1>4, <2>2, <2>3, <2>4, <2>6
           DEF StackInv, DeferInv, Entered
    <2>9. AnswerInv(r)'
        BY <1>0, <1>1, <1>2, <1>3, <1>4, <2>2, <2>3, <2>4, <2>6
           DEF StackInv, AnswerInv, Told, Status
    <2>10. CountInv(r)'
        BY <1>0, <1>1, <1>2, <1>3, <1>4, <2>2, <2>3, <2>4, <2>6
           DEF StackInv, DeferInv, CountInv, Past, Entered, Told, Outcome, Status
    <2>11. LineInv(r)'
        BY <1>0, <1>1, <1>2, <1>3, <1>4, <2>2, <2>3, <2>4, <2>6
           DEF StackInv, AnswerInv, LineInv, Past, Told, Status
    <2>12. SpanInv(r)'
        BY <1>0, <1>1, <1>2, <1>3, <1>4, <2>2, <2>3, <2>4, <2>6
           DEF StackInv, DeferInv, AnswerInv, SpanInv, Past, Entered, Told, Outcome, Status
    <2>13. QED
        BY <2>7, <2>8, <2>9, <2>10, <2>11, <2>12 DEF RequestInv
<1>13. CASE HandlerReturns(r)
    <2>1. /\ mode[r] = "calling" /\ depth[r] = Pos(r) + (IF Traced(r) THEN 2 ELSE 1)
          /\ mode'[r] = "returning" /\ depth'[r] = depth[r] - 1
          /\ deferred'[r] = deferred[r] /\ heard'[r] = heard[r]
          /\ sent'[r] = sent[r] /\ panicked'[r] = panicked[r]
          /\ counted'[r] = counted[r] /\ span'[r] = span[r] /\ lines'[r] = lines[r]
        BY <1>0, <1>1, <1>3, <1>13 DEF HandlerReturns, At, Known, TypeInv, Leave
    <2>2. StackInv(r)'
        BY <1>0, <1>1, <1>2, <1>3, <1>4, <2>1 DEF StackInv, Told
    <2>3. DeferInv(r)'
        BY <1>0, <1>1, <1>2, <1>3, <1>4, <2>1 DEF StackInv, DeferInv, Entered
    <2>4. AnswerInv(r)'
        BY <1>0, <1>1, <1>2, <1>3, <1>4, <2>1 DEF StackInv, AnswerInv, Told, Status
    <2>5. CountInv(r)'
        BY <1>0, <1>1, <1>2, <1>3, <1>4, <2>1
           DEF StackInv, DeferInv, CountInv, Past, Entered, Told, Outcome, Status
    <2>6. LineInv(r)'
        BY <1>0, <1>1, <1>2, <1>3, <1>4, <2>1
           DEF StackInv, AnswerInv, LineInv, Past, Told, Status
    <2>7. SpanInv(r)'
        BY <1>0, <1>1, <1>2, <1>3, <1>4, <2>1
           DEF StackInv, DeferInv, AnswerInv, SpanInv, Past, Entered, Told, Outcome, Status
    <2>8. QED
        BY <2>2, <2>3, <2>4, <2>5, <2>6, <2>7 DEF RequestInv
<1>14. CASE HandlerPanics(r)
    <2>1. /\ mode[r] = "calling" /\ depth[r] = Pos(r) + (IF Traced(r) THEN 2 ELSE 1)
          /\ mode'[r] = "panicking" /\ depth'[r] = depth[r] - 1
          /\ deferred'[r] = deferred[r] /\ heard'[r] = heard[r]
          /\ sent'[r] = sent[r] /\ panicked'[r] = TRUE /\ counted'[r] = counted[r]
          /\ span'[r] = span[r] /\ lines'[r] = lines[r]
        BY <1>0, <1>1, <1>3, <1>14 DEF HandlerPanics, At, Known, TypeInv, Leave
    <2>2. StackInv(r)'
        BY <1>0, <1>1, <1>2, <1>3, <1>4, <2>1 DEF StackInv, Told
    <2>3. DeferInv(r)'
        BY <1>0, <1>1, <1>2, <1>3, <1>4, <2>1 DEF StackInv, DeferInv, Entered
    <2>4. AnswerInv(r)'
        BY <1>0, <1>1, <1>2, <1>3, <1>4, <2>1 DEF StackInv, AnswerInv, Told, Status
    <2>5. CountInv(r)'
        BY <1>0, <1>1, <1>2, <1>3, <1>4, <2>1
           DEF StackInv, DeferInv, CountInv, Past, Entered, Told, Outcome, Status
    <2>6. LineInv(r)'
        BY <1>0, <1>1, <1>2, <1>3, <1>4, <2>1
           DEF StackInv, AnswerInv, LineInv, Past, Told, Status
    <2>7. SpanInv(r)'
        BY <1>0, <1>1, <1>2, <1>3, <1>4, <2>1
           DEF StackInv, DeferInv, AnswerInv, SpanInv, Past, Entered, Told, Outcome, Status
    <2>8. QED
        BY <2>2, <2>3, <2>4, <2>5, <2>6, <2>7 DEF RequestInv
<1>15. CASE PassUp(r)
    <2>1. /\ mode[r] \in Unwinding /\ depth[r] = 5 /\ Traced(r)
          /\ mode'[r] = mode[r] /\ depth'[r] = depth[r] - 1
          /\ deferred'[r] = deferred[r] /\ heard'[r] = heard[r]
          /\ sent'[r] = sent[r] /\ panicked'[r] = panicked[r]
          /\ counted'[r] = counted[r] /\ span'[r] = span[r] /\ lines'[r] = lines[r]
        BY <1>0, <1>1, <1>3, <1>15 DEF PassUp, At, Known, TypeInv, Leave
    <2>2. StackInv(r)'
        BY <1>0, <1>1, <1>2, <1>3, <1>4, <2>1 DEF StackInv, Told
    <2>3. DeferInv(r)'
        BY <1>0, <1>1, <1>2, <1>3, <1>4, <2>1 DEF StackInv, DeferInv, Entered
    <2>4. AnswerInv(r)'
        BY <1>0, <1>1, <1>2, <1>3, <1>4, <2>1 DEF StackInv, AnswerInv, Told, Status
    <2>5. CountInv(r)'
        BY <1>0, <1>1, <1>2, <1>3, <1>4, <2>1
           DEF StackInv, DeferInv, CountInv, Past, Entered, Told, Outcome, Status
    <2>6. LineInv(r)'
        BY <1>0, <1>1, <1>2, <1>3, <1>4, <2>1
           DEF StackInv, AnswerInv, LineInv, Past, Told, Status
    <2>7. SpanInv(r)'
        BY <1>0, <1>1, <1>2, <1>3, <1>4, <2>1
           DEF StackInv, DeferInv, AnswerInv, SpanInv, Past, Entered, Told, Outcome, Status
    <2>8. QED
        BY <2>2, <2>3, <2>4, <2>5, <2>6, <2>7 DEF RequestInv
<1>16. CASE CountRequest(r)
    <2>1. RunDeferred(r, "instrument", "count", mode[r]) /\ mode[r] \in Unwinding
        BY <1>16 DEF CountRequest, RunDeferred, At
    <2>2. /\ At(r, "instrument", Unwinding)
          /\ deferred[r]["instrument"][Len(deferred[r]["instrument"])] = "count"
          /\ deferred'[r]["instrument"] =
                 SubSeq(deferred[r]["instrument"], 1, Len(deferred[r]["instrument"]) - 1)
          /\ \A m \in Deferring \ {"instrument"} : deferred'[r][m] = deferred[r][m]
          /\ mode'[r] = mode[r]
          /\ depth'[r] = IF Len(deferred[r]["instrument"]) = 1 THEN depth[r] - 1 ELSE depth[r]
        BY <1>3, <2>1, DeferredRun
    <2>3. mode[r] \in Unwinding /\ depth[r] = Pos(r) /\ Entered(r) = depth[r]
        BY <1>0, <2>2 DEF At, Known, Entered
    <2>4. deferred[r]["instrument"] \in {CountAndDec, OnlyDec}
        BY <1>1, <2>3 DEF DeferInv
    <2>5. /\ deferred[r]["instrument"] = CountAndDec
          /\ deferred'[r]["instrument"] = OnlyDec /\ depth'[r] = depth[r]
        BY <2>2, <2>4, FramesRun
    <2>6. /\ deferred'[r]["guard"] = deferred[r]["guard"]
          /\ deferred'[r]["trace"] = deferred[r]["trace"] /\ heard'[r] = heard[r]
          /\ sent'[r] = sent[r] /\ panicked'[r] = panicked[r]
          /\ counted'[r] = Append(counted[r], IF mode[r] = "panicking" THEN 500
                                                 ELSE Status(r, "instrument"))
          /\ span'[r] = span[r] /\ lines'[r] = lines[r]
        BY <1>3, <1>16, <2>2 DEF CountRequest, TypeInv, Deferring
    <2>7. counted'[r] = <<Outcome(r)>>
        <3>1. counted[r] = <<>>
            BY <1>1, <1>4, <2>3, <2>5 DEF CountInv, Past
        <3>2. Outcome(r) = IF mode[r] = "panicking" THEN 500 ELSE Status(r, "instrument")
            BY <1>1, <2>3, <1>0 DEF StackInv, Outcome
        <3>3. QED
            BY <2>6, <3>1, <3>2
    <2>8. StackInv(r)'
        BY <1>0, <1>1, <1>2, <1>3, <1>4, <2>2, <2>3, <2>5, <2>6, <2>7 DEF StackInv, Told
    <2>9. DeferInv(r)'
        BY <1>0, <1>1, <1>2, <1>3, <1>4, <2>2, <2>3, <2>5, <2>6, <2>7
           DEF StackInv, DeferInv, Entered
    <2>10. AnswerInv(r)'
        BY <1>0, <1>1, <1>2, <1>3, <1>4, <2>2, <2>3, <2>5, <2>6, <2>7
           DEF StackInv, AnswerInv, Told, Status
    <2>11. CountInv(r)'
        BY <1>0, <1>1, <1>2, <1>3, <1>4, <2>2, <2>3, <2>5, <2>6, <2>7
           DEF StackInv, DeferInv, CountInv, Past, Entered, Told, Outcome, Status
    <2>12. LineInv(r)'
        BY <1>0, <1>1, <1>2, <1>3, <1>4, <2>2, <2>3, <2>5, <2>6, <2>7
           DEF StackInv, AnswerInv, LineInv, Past, Told, Status
    <2>13. SpanInv(r)'
        BY <1>0, <1>1, <1>2, <1>3, <1>4, <2>2, <2>3, <2>5, <2>6, <2>7
           DEF StackInv, DeferInv, AnswerInv, SpanInv, Past, Entered, Told, Outcome, Status
    <2>14. QED
        BY <2>8, <2>9, <2>10, <2>11, <2>12, <2>13 DEF RequestInv
<1>17. CASE DecInProgress(r)
    <2>1. RunDeferred(r, "instrument", "dec", mode[r]) /\ mode[r] \in Unwinding
        BY <1>17 DEF DecInProgress, RunDeferred, At
    <2>2. /\ At(r, "instrument", Unwinding)
          /\ deferred[r]["instrument"][Len(deferred[r]["instrument"])] = "dec"
          /\ deferred'[r]["instrument"] =
                 SubSeq(deferred[r]["instrument"], 1, Len(deferred[r]["instrument"]) - 1)
          /\ \A m \in Deferring \ {"instrument"} : deferred'[r][m] = deferred[r][m]
          /\ mode'[r] = mode[r]
          /\ depth'[r] = IF Len(deferred[r]["instrument"]) = 1 THEN depth[r] - 1 ELSE depth[r]
        BY <1>3, <2>1, DeferredRun
    <2>3. mode[r] \in Unwinding /\ depth[r] = Pos(r) /\ Entered(r) = depth[r]
        BY <1>0, <2>2 DEF At, Known, Entered
    <2>4. deferred[r]["instrument"] \in {CountAndDec, OnlyDec}
        BY <1>1, <2>3 DEF DeferInv
    <2>5. /\ deferred[r]["instrument"] = OnlyDec
          /\ deferred'[r]["instrument"] = Nothing /\ depth'[r] = depth[r] - 1
        BY <2>2, <2>4, FramesRun
    <2>6. /\ deferred'[r]["guard"] = deferred[r]["guard"]
          /\ deferred'[r]["trace"] = deferred[r]["trace"] /\ heard'[r] = heard[r]
          /\ sent'[r] = sent[r] /\ panicked'[r] = panicked[r]
          /\ counted'[r] = counted[r] /\ span'[r] = span[r] /\ lines'[r] = lines[r]
        BY <1>3, <1>17, <2>2 DEF DecInProgress, TypeInv, Deferring
    <2>7. StackInv(r)'
        BY <1>0, <1>1, <1>2, <1>3, <1>4, <2>2, <2>3, <2>5, <2>6 DEF StackInv, Told
    <2>8. DeferInv(r)'
        BY <1>0, <1>1, <1>2, <1>3, <1>4, <2>2, <2>3, <2>5, <2>6
           DEF StackInv, DeferInv, Entered
    <2>9. AnswerInv(r)'
        BY <1>0, <1>1, <1>2, <1>3, <1>4, <2>2, <2>3, <2>5, <2>6
           DEF StackInv, AnswerInv, Told, Status
    <2>10. CountInv(r)'
        BY <1>0, <1>1, <1>2, <1>3, <1>4, <2>2, <2>3, <2>5, <2>6
           DEF StackInv, DeferInv, CountInv, Past, Entered, Told, Outcome, Status
    <2>11. LineInv(r)'
        BY <1>0, <1>1, <1>2, <1>3, <1>4, <2>2, <2>3, <2>5, <2>6
           DEF StackInv, AnswerInv, LineInv, Past, Told, Status
    <2>12. SpanInv(r)'
        BY <1>0, <1>1, <1>2, <1>3, <1>4, <2>2, <2>3, <2>5, <2>6
           DEF StackInv, DeferInv, AnswerInv, SpanInv, Past, Entered, Told, Outcome, Status
    <2>13. QED
        BY <2>7, <2>8, <2>9, <2>10, <2>11, <2>12 DEF RequestInv
<1>18. CASE LogLine(r)
    <2>1. /\ mode[r] = "returning" /\ depth[r] = Pos(r) - 1
          /\ mode'[r] = "returning" /\ depth'[r] = depth[r] - 1
          /\ deferred'[r] = deferred[r] /\ heard'[r] = heard[r]
          /\ sent'[r] = sent[r] /\ panicked'[r] = panicked[r]
          /\ counted'[r] = counted[r] /\ span'[r] = span[r]
          /\ lines'[r] = (IF Status(r, "log") >= logFrom
                         THEN Append(lines[r], Status(r, "log")) ELSE lines[r])
        BY <1>0, <1>1, <1>3, <1>18 DEF LogLine, At, Known, TypeInv, Leave
    <2>2. lines[r] = <<>> /\ lines'[r] = IF Status(r, "log") >= logFrom
                                            THEN <<Status(r, "log")>> ELSE <<>>
        <3>1. lines[r] = <<>>
            BY <1>1, <2>1 DEF LineInv, Past
        <3>2. QED
            BY <2>1, <3>1
    <2>3. LineInv(r)'
        <3>1. ~panicked'[r]
            BY <1>0, <1>1, <2>1 DEF StackInv
        <3>2. Past(r)' /\ depth'[r] < Pos(r)' - 1
            BY <1>0, <1>1, <1>2, <2>1 DEF Past
        <3>3. Status(r, "log") = Status(r, "instrument")
            BY <1>1 DEF AnswerInv, Told, Status
        <3>4. Status(r, "instrument")' = Status(r, "instrument") /\ logFrom' = logFrom
            BY <1>2, <2>1 DEF Status
        <3>5. QED
            BY <2>2, <3>1, <3>2, <3>3, <3>4 DEF LineInv
    <2>4. StackInv(r)'
        BY <1>0, <1>1, <1>2, <1>3, <1>4, <2>1, <2>2 DEF StackInv, Told
    <2>5. DeferInv(r)'
        BY <1>0, <1>1, <1>2, <1>3, <1>4, <2>1, <2>2 DEF StackInv, DeferInv, Entered
    <2>6. AnswerInv(r)'
        BY <1>0, <1>1, <1>2, <1>3, <1>4, <2>1, <2>2
           DEF StackInv, AnswerInv, Told, Status
    <2>7. CountInv(r)'
        BY <1>0, <1>1, <1>2, <1>3, <1>4, <2>1, <2>2
           DEF StackInv, DeferInv, CountInv, Past, Entered, Told, Outcome, Status
    <2>8. SpanInv(r)'
        BY <1>0, <1>1, <1>2, <1>3, <1>4, <2>1, <2>2
           DEF StackInv, DeferInv, AnswerInv, SpanInv, Past, Entered, Told, Outcome, Status
    <2>9. QED
        BY <2>3, <2>4, <2>5, <2>6, <2>7, <2>8 DEF RequestInv
<1>19. CASE SkipLine(r)
    <2>1. /\ mode[r] = "panicking" /\ depth[r] = Pos(r) - 1
          /\ mode'[r] = "panicking" /\ depth'[r] = depth[r] - 1
          /\ deferred'[r] = deferred[r] /\ heard'[r] = heard[r]
          /\ sent'[r] = sent[r] /\ panicked'[r] = panicked[r]
          /\ counted'[r] = counted[r] /\ span'[r] = span[r] /\ lines'[r] = lines[r]
        BY <1>0, <1>1, <1>3, <1>19 DEF SkipLine, At, Known, TypeInv, Leave
    <2>2. StackInv(r)'
        BY <1>0, <1>1, <1>2, <1>3, <1>4, <2>1 DEF StackInv, Told
    <2>3. DeferInv(r)'
        BY <1>0, <1>1, <1>2, <1>3, <1>4, <2>1 DEF StackInv, DeferInv, Entered
    <2>4. AnswerInv(r)'
        BY <1>0, <1>1, <1>2, <1>3, <1>4, <2>1 DEF StackInv, AnswerInv, Told, Status
    <2>5. CountInv(r)'
        BY <1>0, <1>1, <1>2, <1>3, <1>4, <2>1
           DEF StackInv, DeferInv, CountInv, Past, Entered, Told, Outcome, Status
    <2>6. LineInv(r)'
        BY <1>0, <1>1, <1>2, <1>3, <1>4, <2>1
           DEF StackInv, AnswerInv, LineInv, Past, Told, Status
    <2>7. SpanInv(r)'
        BY <1>0, <1>1, <1>2, <1>3, <1>4, <2>1
           DEF StackInv, DeferInv, AnswerInv, SpanInv, Past, Entered, Told, Outcome, Status
    <2>8. QED
        BY <2>2, <2>3, <2>4, <2>5, <2>6, <2>7 DEF RequestInv
<1>20. CASE MarkSpan(r)
    <2>1. RunDeferred(r, "trace", "mark", mode[r]) /\ mode[r] \in Unwinding
        BY <1>20 DEF MarkSpan, RunDeferred, At
    <2>2. /\ At(r, "trace", Unwinding)
          /\ deferred[r]["trace"][Len(deferred[r]["trace"])] = "mark"
          /\ deferred'[r]["trace"] = SubSeq(deferred[r]["trace"], 1, Len(deferred[r]["trace"]) - 1)
          /\ \A m \in Deferring \ {"trace"} : deferred'[r][m] = deferred[r][m]
          /\ mode'[r] = mode[r]
          /\ depth'[r] = IF Len(deferred[r]["trace"]) = 1 THEN depth[r] - 1 ELSE depth[r]
        BY <1>3, <2>1, DeferredRun
    <2>3. mode[r] \in Unwinding /\ depth[r] = 2 /\ Traced(r) /\ Entered(r) = depth[r]
        BY <1>0, <2>2 DEF At, Known, Entered
    <2>4. deferred[r]["trace"] \in {MarkAndEnd, OnlyEnd}
        BY <1>1, <2>3 DEF DeferInv
    <2>5. /\ deferred[r]["trace"] = MarkAndEnd /\ deferred'[r]["trace"] = OnlyEnd
          /\ depth'[r] = depth[r]
        BY <2>2, <2>4, FramesRun
    <2>6. /\ deferred'[r]["guard"] = deferred[r]["guard"]
          /\ deferred'[r]["instrument"] = deferred[r]["instrument"]
          /\ heard'[r] = heard[r] /\ sent'[r] = sent[r]
          /\ panicked'[r] = panicked[r] /\ counted'[r] = counted[r]
          /\ span'[r] = (IF span[r] = "open"
                           /\ (mode[r] = "panicking" \/ Status(r, "trace") >= 500)
                        THEN "marked" ELSE span[r])
          /\ lines'[r] = lines[r]
        BY <1>3, <1>20, <2>2 DEF MarkSpan, TypeInv, Deferring, Status
    <2>7. StackInv(r)'
        BY <1>0, <1>1, <1>2, <1>3, <1>4, <2>2, <2>3, <2>5, <2>6 DEF StackInv, Told
    <2>8. DeferInv(r)'
        BY <1>0, <1>1, <1>2, <1>3, <1>4, <2>2, <2>3, <2>5, <2>6
           DEF StackInv, DeferInv, Entered
    <2>9. AnswerInv(r)'
        BY <1>0, <1>1, <1>2, <1>3, <1>4, <2>2, <2>3, <2>5, <2>6
           DEF StackInv, AnswerInv, Told, Status
    <2>10. CountInv(r)'
        BY <1>0, <1>1, <1>2, <1>3, <1>4, <2>2, <2>3, <2>5, <2>6
           DEF StackInv, DeferInv, CountInv, Past, Entered, Told, Outcome, Status
    <2>11. LineInv(r)'
        BY <1>0, <1>1, <1>2, <1>3, <1>4, <2>2, <2>3, <2>5, <2>6
           DEF StackInv, AnswerInv, LineInv, Past, Told, Status
    <2>12. SpanInv(r)'
        BY <1>0, <1>1, <1>2, <1>3, <1>4, <2>2, <2>3, <2>5, <2>6
           DEF StackInv, DeferInv, AnswerInv, SpanInv, Past, Entered, Told, Outcome, Status
    <2>13. QED
        BY <2>7, <2>8, <2>9, <2>10, <2>11, <2>12 DEF RequestInv
<1>21. CASE EndSpan(r)
    <2>1. RunDeferred(r, "trace", "end", mode[r]) /\ mode[r] \in Unwinding
        BY <1>21 DEF EndSpan, RunDeferred, At
    <2>2. /\ At(r, "trace", Unwinding)
          /\ deferred[r]["trace"][Len(deferred[r]["trace"])] = "end"
          /\ deferred'[r]["trace"] = SubSeq(deferred[r]["trace"], 1, Len(deferred[r]["trace"]) - 1)
          /\ \A m \in Deferring \ {"trace"} : deferred'[r][m] = deferred[r][m]
          /\ mode'[r] = mode[r]
          /\ depth'[r] = IF Len(deferred[r]["trace"]) = 1 THEN depth[r] - 1 ELSE depth[r]
        BY <1>3, <2>1, DeferredRun
    <2>3. mode[r] \in Unwinding /\ depth[r] = 2 /\ Traced(r) /\ Entered(r) = depth[r]
        BY <1>0, <2>2 DEF At, Known, Entered
    <2>4. deferred[r]["trace"] \in {MarkAndEnd, OnlyEnd}
        BY <1>1, <2>3 DEF DeferInv
    <2>5. /\ deferred[r]["trace"] = OnlyEnd /\ deferred'[r]["trace"] = Nothing
          /\ depth'[r] = depth[r] - 1
        BY <2>2, <2>4, FramesRun
    <2>6. /\ deferred'[r]["guard"] = deferred[r]["guard"]
          /\ deferred'[r]["instrument"] = deferred[r]["instrument"]
          /\ heard'[r] = heard[r] /\ sent'[r] = sent[r]
          /\ panicked'[r] = panicked[r] /\ counted'[r] = counted[r]
          /\ span'[r] = IF span[r] = "marked" THEN "error" ELSE "ok"
          /\ lines'[r] = lines[r]
        BY <1>3, <1>21, <2>2 DEF EndSpan, TypeInv, Deferring
    <2>7. StackInv(r)'
        BY <1>0, <1>1, <1>2, <1>3, <1>4, <2>2, <2>3, <2>5, <2>6 DEF StackInv, Told
    <2>8. DeferInv(r)'
        BY <1>0, <1>1, <1>2, <1>3, <1>4, <2>2, <2>3, <2>5, <2>6
           DEF StackInv, DeferInv, Entered
    <2>9. AnswerInv(r)'
        BY <1>0, <1>1, <1>2, <1>3, <1>4, <2>2, <2>3, <2>5, <2>6
           DEF StackInv, AnswerInv, Told, Status
    <2>10. CountInv(r)'
        BY <1>0, <1>1, <1>2, <1>3, <1>4, <2>2, <2>3, <2>5, <2>6
           DEF StackInv, DeferInv, CountInv, Past, Entered, Told, Outcome, Status
    <2>11. LineInv(r)'
        BY <1>0, <1>1, <1>2, <1>3, <1>4, <2>2, <2>3, <2>5, <2>6
           DEF StackInv, AnswerInv, LineInv, Past, Told, Status
    <2>12. SpanInv(r)'
        BY <1>0, <1>1, <1>2, <1>3, <1>4, <2>2, <2>3, <2>5, <2>6
           DEF StackInv, DeferInv, AnswerInv, SpanInv, Past, Entered, Told, Outcome, Status
    <2>13. QED
        BY <2>7, <2>8, <2>9, <2>10, <2>11, <2>12 DEF RequestInv
<1>22. CASE LeaveGuard(r)
    <2>1. RunDeferred(r, "guard", "recover", "returning") /\ "returning" \in Unwinding
        BY <1>22 DEF LeaveGuard, RunDeferred, At
    <2>2. /\ At(r, "guard", Unwinding)
          /\ deferred[r]["guard"][Len(deferred[r]["guard"])] = "recover"
          /\ deferred'[r]["guard"] = SubSeq(deferred[r]["guard"], 1, Len(deferred[r]["guard"]) - 1)
          /\ \A m \in Deferring \ {"guard"} : deferred'[r][m] = deferred[r][m]
          /\ mode'[r] = "returning"
          /\ depth'[r] = IF Len(deferred[r]["guard"]) = 1 THEN depth[r] - 1 ELSE depth[r]
        BY <1>3, <2>1, DeferredRun
    <2>3. mode[r] \in Unwinding /\ depth[r] = 1 /\ Entered(r) = depth[r]
        BY <1>0, <2>2 DEF At, Known, Entered
    <2>4. deferred[r]["guard"] = <<"recover">>
        BY <1>1, <2>3 DEF DeferInv
    <2>5. depth'[r] = depth[r] - 1
        BY <2>2, <2>4
    <2>6. /\ deferred'[r]["trace"] = deferred[r]["trace"]
          /\ deferred'[r]["instrument"] = deferred[r]["instrument"]
          /\ panicked'[r] = panicked[r] /\ counted'[r] = counted[r]
          /\ span'[r] = span[r] /\ lines'[r] = lines[r]
        BY <1>3, <1>22, <2>2 DEF LeaveGuard, TypeInv, Deferring
    <2>7. /\ heard'[r]["log"] = heard[r]["log"]
          /\ heard'[r]["trace"] = heard[r]["trace"]
          /\ heard'[r]["instrument"] = heard[r]["instrument"]
          /\ heard'[r]["guard"] = (IF mode[r] = "panicking" /\ heard[r]["guard"] = 0
                                  THEN 500 ELSE heard[r]["guard"])
          /\ sent'[r] = IF mode[r] = "panicking" /\ heard[r]["guard"] = 0 THEN 500 ELSE sent[r]
        <3>1. CASE mode[r] = "panicking" /\ heard[r]["guard"] = 0
            <4>1. WriteHeader(r, {"guard"}, 500) /\ sent[r] = 0
                BY <1>1, <1>22, <2>3, <3>1 DEF LeaveGuard, AnswerInv
            <4>2. QED
                BY <1>3, <3>1, <4>1, HeaderHeard
        <3>2. CASE ~(mode[r] = "panicking" /\ heard[r]["guard"] = 0)
            BY <1>22, <3>2 DEF LeaveGuard
        <3>3. QED
            BY <3>1, <3>2
    <2>8. StackInv(r)'
        BY <1>0, <1>1, <1>2, <1>3, <1>4, <2>2, <2>3, <2>5, <2>6, <2>7 DEF StackInv, Told
    <2>9. DeferInv(r)'
        BY <1>0, <1>1, <1>2, <1>3, <1>4, <2>2, <2>3, <2>5, <2>6, <2>7
           DEF StackInv, DeferInv, Entered
    <2>10. AnswerInv(r)'
        BY <1>0, <1>1, <1>2, <1>3, <1>4, <2>2, <2>3, <2>5, <2>6, <2>7
           DEF StackInv, AnswerInv, Told, Status
    <2>11. CountInv(r)'
        BY <1>0, <1>1, <1>2, <1>3, <1>4, <2>2, <2>3, <2>5, <2>6, <2>7
           DEF StackInv, DeferInv, CountInv, Past, Entered, Told, Outcome, Status
    <2>12. LineInv(r)'
        BY <1>0, <1>1, <1>2, <1>3, <1>4, <2>2, <2>3, <2>5, <2>6, <2>7
           DEF StackInv, AnswerInv, LineInv, Past, Told, Status
    <2>13. SpanInv(r)'
        BY <1>0, <1>1, <1>2, <1>3, <1>4, <2>2, <2>3, <2>5, <2>6, <2>7
           DEF StackInv, DeferInv, AnswerInv, SpanInv, Past, Entered, Told, Outcome, Status
    <2>14. QED
        BY <2>8, <2>9, <2>10, <2>11, <2>12, <2>13 DEF RequestInv
<1>23. CASE Finish(r)
    <2>1. /\ mode[r] = "returning" /\ depth[r] = 0 /\ mode'[r] = "over"
          /\ depth'[r] = depth[r] /\ deferred'[r] = deferred[r]
          /\ heard'[r] = heard[r] /\ sent'[r] = IF sent[r] = 0 THEN 200 ELSE sent[r]
          /\ panicked'[r] = panicked[r] /\ counted'[r] = counted[r]
          /\ span'[r] = span[r] /\ lines'[r] = lines[r]
        BY <1>0, <1>1, <1>3, <1>23 DEF Finish, TypeInv
    <2>2. StackInv(r)'
        BY <1>0, <1>1, <1>2, <1>3, <1>4, <2>1 DEF StackInv, Told
    <2>3. DeferInv(r)'
        BY <1>0, <1>1, <1>2, <1>3, <1>4, <2>1 DEF StackInv, DeferInv, Entered
    <2>4. AnswerInv(r)'
        BY <1>0, <1>1, <1>2, <1>3, <1>4, <2>1 DEF StackInv, AnswerInv, Told, Status
    <2>5. CountInv(r)'
        BY <1>0, <1>1, <1>2, <1>3, <1>4, <2>1
           DEF StackInv, DeferInv, CountInv, Past, Entered, Told, Outcome, Status
    <2>6. LineInv(r)'
        BY <1>0, <1>1, <1>2, <1>3, <1>4, <2>1
           DEF StackInv, AnswerInv, LineInv, Past, Told, Status
    <2>7. SpanInv(r)'
        BY <1>0, <1>1, <1>2, <1>3, <1>4, <2>1
           DEF StackInv, DeferInv, AnswerInv, SpanInv, Past, Entered, Told, Outcome, Status
    <2>8. QED
        BY <2>2, <2>3, <2>4, <2>5, <2>6, <2>7 DEF RequestInv
<1>24. QED
    BY <1>5, <1>6, <1>7, <1>8, <1>9, <1>10, <1>11, <1>12, <1>13, <1>14, <1>15, <1>16,
       <1>17, <1>18, <1>19, <1>20, <1>21, <1>22, <1>23 DEF WayIn, WayOut

LEMMA RequestsInvStep == TypeInv /\ RequestsInv /\ [Next]_vars => RequestsInv'
<1> SUFFICES ASSUME TypeInv, RequestsInv, [Next]_vars, NEW q \in Requests
             PROVE  RequestInv(q)'
    BY DEF RequestsInv
<1>1. RequestInv(q)
    BY DEF RequestsInv
<1>2. ASSUME NEW r \in Requests, WayIn(r) \/ WayOut(r)
      PROVE  RequestInv(q)'
    <2>0. RequestInv(r)'
        BY <1>2, OwnStep
    <2> USE DEF RequestInv, StackInv, DeferInv, AnswerInv, CountInv, LineInv, SpanInv, Past,
                Pos, Traced, Entered, Told, Outcome, Status
    <2>1. CASE q = r
        BY <2>0, <2>1
    <2>2. CASE q # r
        <3>1. /\ logFrom' = logFrom /\ route' = route
              /\ mode'[q] = mode[q] /\ depth'[q] = depth[q] /\ deferred'[q] = deferred[q]
              /\ heard'[q] = heard[q] /\ sent'[q] = sent[q]
              /\ panicked'[q] = panicked[q]
              /\ counted'[q] = counted[q] /\ span'[q] = span[q] /\ lines'[q] = lines[q]
            BY <1>2, <2>2, OthersUntouched
        <3>2. QED
            BY <1>1, <3>1
    <2>3. QED
        BY <2>1, <2>2
<1>3. CASE UNCHANGED vars
    BY <1>1, <1>3
       DEF vars, stackVars, answerVars, signalVars, RequestInv, StackInv, DeferInv, AnswerInv,
           CountInv, LineInv, SpanInv, Past, Pos, Traced, Entered, Told, Outcome, Status
<1>4. QED
    BY <1>2, <1>3 DEF Next

LEMMA ChainInit == Init => TypeInv /\ RequestsInv
<1> SUFFICES ASSUME Init
             PROVE  TypeInv /\ RequestsInv
    OBVIOUS
<1>1. TypeInv
    BY DEF Init, TypeInv
<1>2. ASSUME NEW r \in Requests
      PROVE  RequestInv(r)
    <2>1. /\ mode[r] = "idle" /\ depth[r] = 0 /\ ~panicked[r] /\ sent[r] = 0
          /\ counted[r] = <<>> /\ lines[r] = <<>>
          /\ deferred[r]["instrument"] = Nothing
          /\ \A l \in Recording : heard[r][l] = 0
        BY <1>2 DEF Init, Nothing, Deferring
    <2>2. Pos(r) \in {3, 4} /\ Entered(r) = 0 /\ ~Past(r) /\ OnlyDec # Nothing
        BY <2>1, FramesRun DEF Pos, Entered, Past
    <2>3. StackInv(r) /\ AnswerInv(r)
        BY <2>1, <2>2 DEF StackInv, AnswerInv, Told, Recording, Pos
    <2>4. DeferInv(r)
        BY <2>1, <2>2 DEF DeferInv
    <2>5. CountInv(r) /\ LineInv(r) /\ SpanInv(r)
        BY <2>1, <2>2 DEF CountInv, LineInv, SpanInv
    <2>6. QED
        BY <2>3, <2>4, <2>5 DEF RequestInv
<1>3. QED
    BY <1>1, <1>2 DEF RequestsInv

LEMMA ChainInvariant == Spec => [](TypeInv /\ RequestsInv)
<1>1. TypeInv /\ RequestsInv /\ [Next]_vars => TypeInv' /\ RequestsInv'
    BY TypeInvStep, RequestsInvStep
<1>2. QED
    BY <1>1, ChainInit, PTL DEF Spec

\* The counter, the line, the span and the client agree on a request that did
\* not panic, each by the recorder of its own layer.
THEOREM SignalsAlwaysAgree == Spec => []SignalsAgree
<1>1. TypeInv /\ RequestsInv => SignalsAgree
    <2> SUFFICES ASSUME TypeInv, RequestsInv, NEW r \in Requests,
                        mode[r] = "over", ~panicked[r]
                 PROVE  /\ counted[r] = <<sent[r]>>
                        /\ lines[r] = IF sent[r] >= logFrom THEN <<sent[r]>> ELSE <<>>
                        /\ Traced(r) => span[r] = IF sent[r] >= 500 THEN "error" ELSE "ok"
        BY DEF SignalsAgree
    <2>1. /\ depth[r] = 0 /\ Pos(r) \in {3, 4}
          /\ AnswerInv(r) /\ CountInv(r) /\ LineInv(r) /\ SpanInv(r)
        BY DEF RequestsInv, RequestInv, StackInv, Pos
    <2>2. sent[r] = Status(r, "instrument") /\ Outcome(r) = sent[r]
        BY <2>1 DEF AnswerInv, Told, Status, Outcome
    <2>3. Past(r) /\ depth[r] < Pos(r) - 1 /\ depth[r] < 2
        BY <2>1 DEF Past
    <2>4. counted[r] = <<sent[r]>>
        BY <2>1, <2>2, <2>3 DEF CountInv
    <2>5. lines[r] = IF sent[r] >= logFrom THEN <<sent[r]>> ELSE <<>>
        BY <2>1, <2>2, <2>3 DEF LineInv
    <2>6. Traced(r) => span[r] = IF sent[r] >= 500 THEN "error" ELSE "ok"
        BY <2>1, <2>2, <2>3 DEF SpanInv
    <2>7. QED
        BY <2>4, <2>5, <2>6
<1>2. QED
    BY <1>1, ChainInvariant, PTL

\* A panic shows in the counter and in the span, and the answer is a clean 500
\* or the one that was out already.
THEOREM PanicsAreReported == Spec => []PanicIsReported
<1>1. TypeInv /\ RequestsInv => PanicIsReported
    <2> SUFFICES ASSUME TypeInv, RequestsInv, NEW r \in Requests,
                        mode[r] = "over", panicked[r]
                 PROVE  /\ counted[r] = <<500>>
                        /\ Traced(r) => span[r] = "error"
                        /\ sent[r] = IF heard[r]["instrument"] = 0 THEN 500
                                     ELSE heard[r]["instrument"]
        BY DEF PanicIsReported
    <2>1. /\ depth[r] = 0 /\ Pos(r) \in {3, 4}
          /\ AnswerInv(r) /\ CountInv(r) /\ SpanInv(r)
        BY DEF RequestsInv, RequestInv, StackInv, Pos
    <2>2. Past(r) /\ depth[r] < 2 /\ Outcome(r) = 500
        BY <2>1 DEF Past, Outcome
    <2>3. counted[r] = <<500>>
        BY <2>1, <2>2 DEF CountInv
    <2>4. Traced(r) => span[r] = "error"
        BY <2>1, <2>2 DEF SpanInv
    <2>5. sent[r] = IF Told(r) = 0 THEN 500 ELSE Told(r)
        BY <2>1 DEF AnswerInv, Told, Status
    <2>6. QED
        BY <2>3, <2>4, <2>5 DEF Told
<1>2. QED
    BY <1>1, ChainInvariant, PTL
-------------------------------------------------------------------------------
\* The requests the gauge of t stands for.
InsideOn(t) == {r \in Requests : route[r] = t /\ Inside(r)}

\* InsideIff, before and after a step.
LEMMA InsideAround ==
    TypeInv /\ RequestsInv /\ TypeInv' /\ RequestsInv' =>
        \A r \in Requests : /\ Inside(r) <=> Entered(r) >= Pos(r)
                            /\ Inside(r)' <=> Entered(r)' >= Pos(r)'
<1>1. TypeInv /\ RequestsInv => \A r \in Requests : Inside(r) <=> Entered(r) >= Pos(r)
    BY InsideIff
<1>2. (TypeInv /\ RequestsInv => \A r \in Requests : Inside(r) <=> Entered(r) >= Pos(r))'
    BY <1>1, PTL
<1>3. QED
    BY <1>1, <1>2

\* The frame of Instrument is left with its decrement and not before.
LEMMA InstrumentFrame ==
    ASSUME TypeInv, RequestsInv, NEW r \in Requests, NEW f, NEW how \in Unwinding,
           RunDeferred(r, "instrument", f, how)
    PROVE  /\ mode[r] \in Unwinding /\ mode'[r] = how /\ depth[r] = Pos(r)
           /\ f = "count" => depth'[r] = depth[r]
           /\ f = "dec" => depth'[r] = depth[r] - 1
<1>1. "instrument" \in Deferring
    BY DEF Deferring
<1>2. /\ At(r, "instrument", Unwinding)
      /\ deferred[r]["instrument"][Len(deferred[r]["instrument"])] = f
      /\ mode'[r] = how
      /\ depth'[r] = IF Len(deferred[r]["instrument"]) = 1 THEN depth[r] - 1 ELSE depth[r]
    BY <1>1, DeferredRun
<1>3. mode[r] \in Unwinding /\ depth[r] = Pos(r) /\ Entered(r) = Pos(r)
    BY <1>2, PlaceOf DEF At, Known, Entered
<1>4. deferred[r]["instrument"] \in {CountAndDec, OnlyDec}
    BY <1>3 DEF RequestsInv, RequestInv, DeferInv
<1>5. QED
    BY <1>2, <1>3, <1>4, FramesRun

\* The frames outside Instrument are.
LEMMA OuterFrames ==
    ASSUME TypeInv, RequestsInv, NEW r \in Requests, NEW l \in {"guard", "trace"}, NEW f,
           NEW how \in Unwinding, RunDeferred(r, l, f, how)
    PROVE  Entered(r) < Pos(r) /\ Entered(r)' < Pos(r)
<1>1. l \in Deferring
    BY DEF Deferring
<1>2. /\ At(r, l, Unwinding) /\ mode'[r] = how
      /\ depth'[r] = IF Len(deferred[r][l]) = 1 THEN depth[r] - 1 ELSE depth[r]
    BY <1>1, DeferredRun
<1>3. mode[r] \in Unwinding /\ depth[r] \in {1, 2} /\ Pos(r) \in {3, 4}
    BY <1>2, PlaceOf DEF At, Known
<1>4. QED
    BY <1>2, <1>3 DEF Entered

\* Only the Inc of Instrument lets a request in and only its Dec lets it out.
LEMMA InsideMoves ==
    ASSUME TypeInv, RequestsInv, TypeInv', RequestsInv',
           NEW r \in Requests, WayIn(r) \/ WayOut(r)
    PROVE  /\ IncInProgress(r) => ~Inside(r) /\ Inside(r)'
           /\ DecInProgress(r) => Inside(r) /\ ~Inside(r)'
           /\ ~IncInProgress(r) /\ ~DecInProgress(r) => (Inside(r)' <=> Inside(r))
           /\ \A q \in Requests \ {r} : Inside(q)' <=> Inside(q)
           /\ route' = route
<1>1. route' = route
    BY DEF WayIn, Serve, EnterGuard, EnterLog, StartSpan, IncInProgress, Chaos,
       RequireAdmin, HandlerWrites, HandlerReturns, HandlerPanics, CallNext, Leave,
       RunDeferred, WayOut, PassUp, CountRequest, DecInProgress, LogLine, SkipLine,
       MarkSpan, EndSpan, LeaveGuard, Finish
<1>2. ASSUME NEW q \in Requests, q # r
      PROVE  Inside(q)' <=> Inside(q)
    BY <1>1, <1>2, OthersUntouched DEF Inside, Entered, Chain
<1>3. /\ Inside(r) <=> Entered(r) >= Pos(r)
      /\ Inside(r)' <=> Entered(r)' >= Pos(r)'
    BY InsideAround
<1>4. /\ Pos(r) = IF Traced(r) THEN 4 ELSE 3
      /\ Len(Chain(r)) = IF Traced(r) THEN 6 ELSE 4
      /\ depth[r] \in 0 .. Len(Chain(r))
      /\ depth[r] > 0 => Known(r, depth[r])
      /\ Pos(r)' = Pos(r)
    BY <1>1, PlaceOf DEF Pos, Traced
<1>4a. /\ Entered(r) \in Int /\ Entered(r)' \in Int /\ Pos(r) \in {3, 4}
       /\ Pos(r)' = Pos(r)
    BY <1>4 DEF Entered, TypeInv
<1>5. IncInProgress(r) => ~Inside(r) /\ Inside(r)'
    <2>1. SUFFICES ASSUME IncInProgress(r)
                   PROVE  Entered(r) < Pos(r) /\ Entered(r)' >= Pos(r)
        BY <1>3, <1>4a
    <2>2. mode[r] = "calling" /\ depth[r] = Pos(r) /\ depth'[r] = depth[r] + 1 /\ mode' = mode
        BY <1>4, <2>1 DEF IncInProgress, At, Known, CallNext, TypeInv
    <2>3. QED
        BY <1>4, <2>2 DEF Entered
<1>6. DecInProgress(r) => Inside(r) /\ ~Inside(r)'
    <2>1. SUFFICES ASSUME DecInProgress(r)
                   PROVE  Entered(r) >= Pos(r) /\ Entered(r)' < Pos(r)
        BY <1>3, <1>4a
    <2>2. RunDeferred(r, "instrument", "dec", mode[r]) /\ mode[r] \in Unwinding
        BY <2>1 DEF DecInProgress, RunDeferred, At
    <2>3. /\ mode[r] \in Unwinding /\ mode'[r] = mode[r]
          /\ depth[r] = Pos(r) /\ depth'[r] = depth[r] - 1
        BY <2>2, InstrumentFrame
    <2>4. QED
        BY <1>4, <2>3 DEF Entered
<1>7. ~IncInProgress(r) /\ ~DecInProgress(r) => (Inside(r)' <=> Inside(r))
    <2> SUFFICES ASSUME ~IncInProgress(r), ~DecInProgress(r)
                 PROVE  Entered(r)' >= Pos(r) <=> Entered(r) >= Pos(r)
        BY <1>3, <1>4
    <2>0. CASE MarkSpan(r) \/ EndSpan(r) \/ LeaveGuard(r)
        <3>1. CASE MarkSpan(r) \/ EndSpan(r)
            <4>1. PICK f \in Functions : RunDeferred(r, "trace", f, mode[r])
                BY <3>1 DEF MarkSpan, EndSpan, Functions
            <4>2. mode[r] \in Unwinding
                BY <4>1 DEF RunDeferred, At
            <4>3. QED
                BY <1>4a, <4>1, <4>2, OuterFrames
        <3>2. CASE LeaveGuard(r)
            <4>1. RunDeferred(r, "guard", "recover", "returning")
                BY <3>2 DEF LeaveGuard
            <4>2. "returning" \in Unwinding
                BY DEF Unwinding
            <4>3. QED
                BY <1>4a, <4>1, <4>2, OuterFrames
        <3>3. QED
            BY <2>0, <3>1, <3>2
    <2> USE DEF Entered, TypeInv, At, Known, CallNext, Leave
    <2>1. CASE Serve(r)
        <3>1. depth[r] = 0 /\ depth'[r] = 1 /\ mode[r] = "idle" /\ mode'[r] = "calling"
            BY <2>1 DEF Serve, RequestsInv, RequestInv, StackInv
        <3>2. QED
            BY <1>4a, <3>1
    <2>2. CASE EnterGuard(r) \/ EnterLog(r) \/ StartSpan(r)
        BY <1>4, <2>2 DEF EnterGuard, EnterLog, StartSpan
    <2>3. CASE Chaos(r) \/ RequireAdmin(r)
        <3>1. mode[r] = "calling" /\ depth[r] = 5 /\ Pos(r) = 4
            BY <1>4, <2>3 DEF Chaos, RequireAdmin
        <3>2. \/ depth'[r] = 6 /\ mode'[r] = "calling"
              \/ depth'[r] = 4 /\ mode'[r] = "returning"
            <4>1. CallNext(r) \/ Leave(r, "returning")
                BY <2>3 DEF Chaos, RequireAdmin
            <4>2. CASE CallNext(r)
                BY <3>1, <4>2
            <4>3. CASE Leave(r, "returning")
                BY <3>1, <4>3
            <4>4. QED
                BY <4>1, <4>2, <4>3
        <3>3. QED
            BY <3>1, <3>2
    <2>4. CASE HandlerWrites(r)
        BY <1>4, <2>4 DEF HandlerWrites
    <2>5. CASE HandlerReturns(r) \/ HandlerPanics(r)
        BY <1>4, <2>5 DEF HandlerReturns, HandlerPanics
    <2>6. CASE PassUp(r) \/ LogLine(r) \/ SkipLine(r)
        <3>1. mode[r] # "calling" /\ mode'[r] # "calling" /\ depth'[r] = depth[r] - 1
            BY <2>6 DEF PassUp, LogLine, SkipLine
        <3>2. CASE PassUp(r)
            BY <1>4, <3>1, <3>2 DEF PassUp
        <3>3. CASE LogLine(r) \/ SkipLine(r)
            BY <1>4, <3>1, <3>3 DEF LogLine, SkipLine
        <3>4. QED
            BY <2>6, <3>2, <3>3
    <2>7. CASE CountRequest(r)
        <3>1. RunDeferred(r, "instrument", "count", mode[r]) /\ mode[r] \in Unwinding
            BY <2>7 DEF CountRequest, RunDeferred
        <3>2. mode'[r] = mode[r] /\ depth'[r] = depth[r]
            BY <3>1, InstrumentFrame
        <3>3. QED
            BY <3>2
    <2>9. CASE Finish(r)
        BY <1>4, <2>9 DEF Finish
    <2>10. QED
        BY <2>0, <2>1, <2>2, <2>3, <2>4, <2>5, <2>6, <2>7, <2>9 DEF WayIn, WayOut
<1>8. QED
    BY <1>1, <1>2, <1>5, <1>6, <1>7

\* The cardinalities of the sets the gauge stands for.
LEMMA CountedRequests ==
    ASSUME NEW S \in SUBSET Requests, NEW r \in Requests
    PROVE  /\ Cardinality(S) \in Nat
           /\ r \notin S => Cardinality(S \cup {r}) = Cardinality(S) + 1
           /\ r \in S => Cardinality(S \ {r}) = Cardinality(S) - 1
<1>1. IsFiniteSet(S)
    BY RequestChainAssumption, FS_Subset
<1>2. QED
    BY <1>1, FS_CardinalityType, FS_AddElement, FS_RemoveElement

LEMMA GaugeStep ==
    TypeInv /\ RequestsInv /\ InProgressExact /\ [Next]_vars => InProgressExact'
<1> SUFFICES ASSUME TypeInv, RequestsInv, InProgressExact, [Next]_vars, NEW t \in Routes
             PROVE  inProgress'[t] = Cardinality(InsideOn(t)')
    BY DEF InProgressExact, InsideOn
<1>1. TypeInv' /\ RequestsInv'
    BY TypeInvStep, RequestsInvStep
<1>2. inProgress[t] = Cardinality(InsideOn(t))
    BY DEF InProgressExact, InsideOn
<1>3. ASSUME NEW r \in Requests, WayIn(r) \/ WayOut(r)
      PROVE  inProgress'[t] = Cardinality(InsideOn(t)')
    <2> DEFINE S == InsideOn(t)
    <2>0. /\ IncInProgress(r) => ~Inside(r) /\ Inside(r)'
          /\ DecInProgress(r) => Inside(r) /\ ~Inside(r)'
          /\ ~IncInProgress(r) /\ ~DecInProgress(r) => (Inside(r)' <=> Inside(r))
          /\ \A q \in Requests \ {r} : Inside(q)' <=> Inside(q)
          /\ route' = route
        BY <1>1, <1>3, InsideMoves
    <2>1. S \in SUBSET Requests
        BY DEF InsideOn
    <2>2. CASE IncInProgress(r)
        <3>1. CASE route[r] = t
            <4>1. S' = S \cup {r} /\ r \notin S
                BY <2>0, <2>2, <3>1 DEF InsideOn
            <4>2. inProgress'[t] = inProgress[t] + 1
                BY <2>2, <3>1 DEF IncInProgress, TypeInv
            <4>3. QED
                BY <1>2, <2>1, <4>1, <4>2, CountedRequests
        <3>2. CASE route[r] # t
            <4>1. S' = S
                BY <2>0, <3>2 DEF InsideOn
            <4>2. inProgress'[t] = inProgress[t]
                BY <2>2, <3>2 DEF IncInProgress, TypeInv
            <4>3. QED
                BY <1>2, <4>1, <4>2
        <3>3. QED
            BY <3>1, <3>2
    <2>3. CASE DecInProgress(r)
        <3>1. CASE route[r] = t
            <4>1. S' = S \ {r} /\ r \in S
                BY <2>0, <2>3, <3>1 DEF InsideOn
            <4>2. inProgress'[t] = inProgress[t] - 1
                BY <2>3, <3>1 DEF DecInProgress, TypeInv
            <4>3. QED
                BY <1>2, <2>1, <4>1, <4>2, CountedRequests
        <3>2. CASE route[r] # t
            <4>1. S' = S
                BY <2>0, <3>2 DEF InsideOn
            <4>2. inProgress'[t] = inProgress[t]
                BY <2>3, <3>2 DEF DecInProgress, TypeInv
            <4>3. QED
                BY <1>2, <4>1, <4>2
        <3>3. QED
            BY <3>1, <3>2
    <2>4. CASE ~IncInProgress(r) /\ ~DecInProgress(r)
        <3>1. S' = S
            BY <2>0, <2>4 DEF InsideOn
        <3>2. inProgress' = inProgress
            BY <1>3, <2>4 DEF WayIn, Serve, EnterGuard, EnterLog, StartSpan, Chaos,
               RequireAdmin, HandlerWrites, HandlerReturns, HandlerPanics, WayOut, PassUp,
               CountRequest, LogLine, SkipLine, MarkSpan, EndSpan, LeaveGuard, Finish
        <3>3. QED
            BY <1>2, <3>1, <3>2
    <2>5. QED
        BY <2>2, <2>3, <2>4
<1>4. CASE UNCHANGED vars
    BY <1>2, <1>4 DEF vars, InsideOn, Inside, Entered, Chain
<1>5. QED
    BY <1>3, <1>4 DEF Next

\* The gauge of every route is exactly the number of requests inside Instrument.
THEOREM GaugeIsExact == Spec => []InProgressExact
<1>1. Init => InProgressExact
    <2> SUFFICES ASSUME Init, NEW t \in Routes
                 PROVE  inProgress[t] = Cardinality(InsideOn(t))
        BY DEF InProgressExact, InsideOn
    <2>1. \A r \in Requests : ~Inside(r)
        BY DEF Init, Inside, Entered
    <2>2. InsideOn(t) = {}
        BY <2>1 DEF InsideOn
    <2>3. QED
        BY <2>2, FS_EmptySet DEF Init
<1>2. QED
    BY <1>1, GaugeStep, ChainInvariant, PTL DEF Spec

\* No scrape misses a request Instrument has seen: until its deferred count has
\* run its decrement has not, whatever ends the request.
THEOREM NothingOffTheBooks == Spec => []NeverOffTheBooks
<1>1. TypeInv /\ RequestsInv /\ InProgressExact => NeverOffTheBooks
    <2> SUFFICES ASSUME TypeInv, RequestsInv, InProgressExact, NEW t \in Routes
                 PROVE  Cardinality(Uncounted(t)) <= inProgress[t]
        BY DEF NeverOffTheBooks
    <2>1. ASSUME NEW r \in Requests, counted[r] = <<>>,
                 mode[r] \in Unwinding \cup {"over"}
          PROVE  Inside(r)
        <3>1. ~Past(r)
            <4>1. CountInv(r)
                BY <2>1 DEF RequestsInv, RequestInv
            <4>2. counted[r] # <<Outcome(r)>>
                BY <2>1
            <4>3. QED
                BY <4>1, <4>2 DEF CountInv
        <3>2. depth[r] \in Nat /\ Pos(r) \in {3, 4}
            BY <2>1 DEF TypeInv, Pos
        <3>3. mode[r] # "calling" /\ depth[r] >= Pos(r)
            BY <2>1, <3>1, <3>2 DEF Past
        <3>4. QED
            BY <2>1, <3>2, <3>3, InsideIff DEF Entered
    <2>2. Uncounted(t) \subseteq InsideOn(t)
        BY <2>1 DEF Uncounted, InsideOn
    <2>3. IsFiniteSet(InsideOn(t))
        BY RequestChainAssumption, FS_Subset DEF InsideOn
    <2>4. inProgress[t] = Cardinality(InsideOn(t))
        BY DEF InProgressExact, InsideOn
    <2>5. QED
        BY <2>2, <2>3, <2>4, FS_Subset
<1>2. QED
    BY <1>1, ChainInvariant, GaugeIsExact, PTL

\* Every variable keeps its type; in particular no gauge falls below zero.
THEOREM ChainTypeCorrect == Spec => []TypeOK
<1>1. TypeInv /\ RequestsInv /\ InProgressExact => TypeOK
    <2> SUFFICES ASSUME TypeInv, RequestsInv, InProgressExact
                 PROVE  TypeOK
        OBVIOUS
    <2>1. ASSUME NEW t \in Routes
          PROVE  inProgress[t] \in Nat
        <3>1. IsFiniteSet(InsideOn(t))
            BY RequestChainAssumption, FS_Subset DEF InsideOn
        <3>2. inProgress[t] = Cardinality(InsideOn(t))
            BY DEF InProgressExact, InsideOn
        <3>3. QED
            BY <3>1, <3>2, FS_CardinalityType
    <2>2. inProgress \in [Routes -> Nat]
        BY <2>1 DEF TypeInv
    <2>3. \A r \in Requests : depth[r] <= Len(Chain(r))
        <3>1. ASSUME NEW r \in Requests PROVE depth[r] \in 0 .. Len(Chain(r))
            BY PlaceOf
        <3>2. ASSUME NEW r \in Requests PROVE Len(Chain(r)) \in Int
            BY LayerAt
        <3>3. QED
            BY <3>1, <3>2
    <2>4. QED
        BY <2>2, <2>3 DEF TypeInv, TypeOK, Functions
<1>2. QED
    BY <1>1, ChainInvariant, GaugeIsExact, PTL
===============================================================================
