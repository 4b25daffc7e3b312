------------------------------ MODULE InputBounds ------------------------------
(***************************************************************************)
(* What the api makes of text that comes from outside: environment         *)
(* variables in config.Load, query parameters in the load endpoints.       *)
(*                                                                         *)
(* A text is what the parsers of strconv see in it.  Rates are in percent, *)
(* milliseconds and the width of a time.Duration are scaled.               *)
(***************************************************************************)
EXTENDS Integers

CONSTANTS
    SlowMinDefault, SlowMaxDefault,     \* 50 and 2000 ms
    NsPerMs,                            \* 10^6
    DurationSpan                        \* 2^64, the values of a time.Duration

ASSUME InputBoundsAssumption ==
    /\ SlowMinDefault \in Nat /\ SlowMaxDefault \in Nat
    /\ NsPerMs \in Nat /\ DurationSpan \in Nat \ {0}

TextValues == [kind : {"unset", "junk", "nan", "number"}, n : Int]
Unset == [kind |-> "unset", n |-> 0]
Junk == [kind |-> "junk", n |-> 0]
NotANumber == [kind |-> "nan", n |-> 0]     \* ParseFloat accepts "NaN"
Number(n) == [kind |-> "number", n |-> n]

Smaller(a, b) == IF a < b THEN a ELSE b
Larger(a, b) == IF a > b THEN a ELSE b
-------------------------------------------------------------------------------
(***************************************************************************)
(* config.Load                                                             *)
(***************************************************************************)

GetenvInt(text, fallback) == IF text.kind = "number" THEN text.n ELSE fallback

GetenvFloat(text, fallback) ==
    IF text.kind \in {"number", "nan"} THEN text ELSE Number(fallback)

\* min(max(rate, 0), 1), which are NaN if one of their arguments is.
ClampRate(rate) ==
    IF rate.kind = "nan" THEN rate ELSE Number(Smaller(Larger(rate.n, 0), 100))

Load(env) ==
    LET slowMax == Larger(GetenvInt(env.slowMax, SlowMaxDefault), 0)
        slowMin == Larger(GetenvInt(env.slowMin, SlowMinDefault), 0)
    IN [slowMax |-> slowMax,
        slowMin |-> Smaller(slowMin, slowMax),
        errorRate |-> ClampRate(GetenvFloat(env.errorRate, 30)),
        adminToken |-> env.adminToken]
-------------------------------------------------------------------------------
(***************************************************************************)
(* Query parameters                                                        *)
(***************************************************************************)

clamp(n, minValue, maxValue) == Smaller(Larger(n, minValue), maxValue)

clampAtoi(text, fallback, minValue, maxValue) ==
    IF text.kind = "number" THEN clamp(text.n, minValue, maxValue) ELSE fallback

\* handleSlow: the query replaces the maximum if it is a number and not negative.
SlowMax(cfg, text) ==
    IF text.kind = "number" /\ text.n >= 0 THEN text.n ELSE cfg.slowMax

\* rand.IntN returns less than n, and panics if nothing is less.
Panic == -1
IntN(n) == IF n > 0 THEN 0 .. n - 1 ELSE {Panic}

\* The delays of handleSlow that begin at lowest, or its panic.
From(lowest, draws) == {IF k = Panic THEN Panic ELSE lowest + k : k \in draws}

\* Seeded fault: IntN is called whatever the bounds are.
FaultySlowDelays(minMs, maxMs) ==
    LET lowest == Smaller(minMs, maxMs) IN From(lowest, IntN(maxMs - lowest))

\* The delays handleSlow can draw: the minimum gives way to the maximum, and if
\* they are equal nothing is drawn.
SlowDelays(minMs, maxMs) ==
    LET lowest == Smaller(minMs, maxMs)
    IN IF maxMs > lowest THEN From(lowest, IntN(maxMs - lowest)) ELSE {lowest}

\* time.Duration(ms) * time.Millisecond, in the width of a Duration.
AsDuration(ms) ==
    LET ns == (ms * NsPerMs) % DurationSpan
    IN IF 2 * ns >= DurationSpan THEN ns - DurationSpan ELSE ns

\* handleError: the query replaces the rate if it is within 0 .. 1.
ErrorRate(cfg, text) ==
    IF text.kind = "number" /\ text.n \in 0 .. 100 THEN text ELSE cfg.errorRate

\* rand.Float64() < rate, with a draw from 0 up to but not including 1.
DrawFails(rate) ==
    {fails \in BOOLEAN :
        IF fails THEN rate.kind = "number" /\ rate.n > 0
                 ELSE rate.kind = "nan" \/ rate.n < 100}

\* requireAdmin: a Bearer header counts instead of the query, not besides it.
Admits(cfg, credentials) ==
    \/ cfg.adminToken = ""
    \/ /\ credentials.header = "none"
       /\ credentials.query = cfg.adminToken
    \/ credentials.header = cfg.adminToken
===============================================================================
