------------------------------ MODULE ProcessLife ------------------------------
(***************************************************************************)
(* What the end of the api binary promises, without saying what it serves: *)
(* a signal starts a drain in which requests still come and go, main goes  *)
(* on to its deferred calls only once none is left, and from then on none  *)
(* can come, so only an end that skips the deferred calls cuts any off.    *)
(***************************************************************************)

CONSTANT Work       \* the requests that may be in flight

VARIABLES
    life,           \* "down", "up", "draining" or "closing"
    active          \* the requests in flight

vars == <<life, active>>

Serving == {"up", "draining"}

Init == life = "down" /\ active = {}

\* The process listens.
Start ==
    /\ life = "down"
    /\ life' = "up"
    /\ UNCHANGED active

Enter(w) ==
    /\ life \in Serving
    /\ active' = active \cup {w}
    /\ UNCHANGED life

Leave(w) ==
    /\ life \in Serving
    /\ active' = active \ {w}
    /\ UNCHANGED life

Signal ==
    /\ life = "up"
    /\ life' = "draining"
    /\ UNCHANGED active

Drained ==
    /\ life = "draining"
    /\ active = {}
    /\ life' = "closing"
    /\ UNCHANGED active

\* The deferred calls have run, or something ends the process among them.
Return ==
    /\ life = "closing"
    /\ life' = "down"
    /\ UNCHANGED active

\* The listener fails, the drain takes too long, or the process crashes.
Break ==
    /\ life \in Serving
    /\ life' = "down"
    /\ active' = {}

Next ==
    \/ Start \/ Signal \/ Drained \/ Return \/ Break
    \/ \E w \in Work : Enter(w) \/ Leave(w)

Spec == Init /\ [][Next]_vars
===============================================================================
