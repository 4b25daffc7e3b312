----------------------------- MODULE ChaosControl -----------------------------
(***************************************************************************)
(* Runtime chaos injection: the setting that POST /admin/chaos replaces,   *)
(* the gauge that exposes it, and the middleware that treats every         *)
(* business request by it.                                                 *)
(*                                                                         *)
(* The setting is one atomic pointer: a request loads it once.  Storing    *)
(* the pointer and setting the gauge are two steps, and several POSTs may  *)
(* be in progress.  GET /admin/chaos loads the pointer and changes         *)
(* nothing; a POST answered 400 or 401 gets no further than that.          *)
(***************************************************************************)
EXTENDS Integers

CONSTANTS
    Admins,         \* callers of POST /admin/chaos, each with one call at a time
    Requests,       \* callers of the business routes, each with one at a time
    Posts,          \* the settings admins post, in range or not
    MaxLatency,     \* chaosMaxLatencyMs, in ticks of the model
    FullRatio       \* the error ratio 1.0, in units of the model

Settings == [enabled : BOOLEAN, latency : 0 .. MaxLatency, ratio : 0 .. FullRatio]

ASSUME ChaosAssumption ==
    /\ MaxLatency \in Nat
    /\ FullRatio \in Nat
    /\ Posts \subseteq [enabled : BOOLEAN, latency : Int, ratio : Int]

VARIABLES
    state,      \* Chaos.state: the setting in force
    gauge,      \* chaos_enabled
    admin,      \* admin[a]: "idle", "storing" or "exposing"
    posted,     \* posted[a]: the setting a has decoded and clamped
    pc,         \* pc[r]: where the request of r is
    snap,       \* snap[r]: the setting r has loaded
    waited,     \* waited[r]: ticks the middleware has held r up
    during,     \* history: the settings in force since r arrived
    raced       \* history: the last POST to store overlapped with another

adminVars == <<state, gauge, admin, posted, raced>>
requestVars == <<pc, snap, waited>>
vars == <<adminVars, requestVars, during>>

Off == [enabled |-> FALSE, latency |-> 0, ratio |-> 0]
InFlight == {"arrived", "waiting", "drawing"}
Ended == {"injected", "passed", "gone"}
-------------------------------------------------------------------------------
Init ==
    /\ state = Off
    /\ gauge = FALSE
    /\ admin = [a \in Admins |-> "idle"]
    /\ posted = [a \in Admins |-> Off]
    /\ pc = [r \in Requests |-> "idle"]
    /\ snap = [r \in Requests |-> Off]
    /\ waited = [r \in Requests |-> 0]
    /\ during = [r \in Requests |-> {}]
    /\ raced = FALSE

clamp(n, lo, hi) == IF n < lo THEN lo ELSE IF n > hi THEN hi ELSE n

(***************************************************************************)
(* POST /admin/chaos                                                       *)
(***************************************************************************)

\* Seeded fault: the latency is taken as it was posted.
FaultyPost(a) ==
    /\ admin[a] = "idle"
    /\ \E p \in Posts :
          posted' = [posted EXCEPT ![a] = [p EXCEPT !.ratio = clamp(@, 0, FullRatio)]]
    /\ admin' = [admin EXCEPT ![a] = "storing"]
    /\ UNCHANGED <<state, gauge, raced, requestVars, during>>

\* The body is decoded and its numbers are brought into range.
Post(a) ==
    /\ admin[a] = "idle"
    /\ \E p \in Posts :
          posted' = [posted EXCEPT ![a] =
              [p EXCEPT !.latency = clamp(@, 0, MaxLatency), !.ratio = clamp(@, 0, FullRatio)]]
    /\ admin' = [admin EXCEPT ![a] = "storing"]
    /\ UNCHANGED <<state, gauge, raced, requestVars, during>>

\* c.state.Store: from here on requests load the new setting.
Store(a) ==
    /\ admin[a] = "storing"
    /\ state' = posted[a]
    /\ admin' = [admin EXCEPT ![a] = "exposing"]
    /\ raced' = \E b \in Admins : admin[b] = "exposing"
    /\ during' = [r \in Requests |-> IF pc[r] \in InFlight THEN during[r] \cup {state'}
                                                           ELSE during[r]]
    /\ UNCHANGED <<gauge, posted, requestVars>>

\* Seeded fault: the gauge is only ever raised.
FaultyGaugeNeverCleared(a) ==
    /\ admin[a] = "exposing"
    /\ gauge' = (gauge \/ posted[a].enabled)
    /\ admin' = [admin EXCEPT ![a] = "idle"]
    /\ UNCHANGED <<state, posted, raced, requestVars, during>>

\* metrics.ChaosEnabled, and the answer 200.
SetGauge(a) ==
    /\ admin[a] = "exposing"
    /\ gauge' = posted[a].enabled
    /\ admin' = [admin EXCEPT ![a] = "idle"]
    /\ UNCHANGED <<state, posted, raced, requestVars, during>>

(***************************************************************************)
(* The middleware around the business handlers                             *)
(***************************************************************************)

\* A request reaches the middleware.
Arrive(r) ==
    /\ pc[r] \in {"idle"} \cup Ended
    /\ pc' = [pc EXCEPT ![r] = "arrived"]
    /\ waited' = [waited EXCEPT ![r] = 0]
    /\ during' = [during EXCEPT ![r] = {state}]
    /\ UNCHANGED <<adminVars, snap>>

\* The treatment of a request that has loaded the setting s.
Treatment(s) ==
    CASE ~s.enabled                  -> "passed"
      [] s.enabled /\ s.latency > 0  -> "waiting"
      [] s.enabled /\ s.latency <= 0 -> "drawing"

\* Seeded fault: a caller's setting is loaded again only while it is off.
FaultyLoadOnce(r) ==
    /\ pc[r] = "arrived"
    /\ snap' = [snap EXCEPT ![r] = IF snap[r].enabled THEN @ ELSE state]
    /\ pc' = [pc EXCEPT ![r] = Treatment(snap'[r])]
    /\ UNCHANGED <<adminVars, waited, during>>

\* s := c.get()
Load(r) ==
    /\ pc[r] = "arrived"
    /\ snap' = [snap EXCEPT ![r] = state]
    /\ pc' = [pc EXCEPT ![r] = Treatment(state)]
    /\ UNCHANGED <<adminVars, waited, during>>

\* A tick of the injected latency; the last one ends the wait.
Wait(r) ==
    /\ pc[r] = "waiting"
    /\ waited' = [waited EXCEPT ![r] = @ + 1]
    /\ pc' = [pc EXCEPT ![r] = IF waited[r] + 1 = snap[r].latency THEN "drawing" ELSE @]
    /\ UNCHANGED <<adminVars, snap, during>>

\* The client goes away during the wait: nothing is written.
Disconnect(r) ==
    /\ pc[r] = "waiting"
    /\ pc' = [pc EXCEPT ![r] = "gone"]
    /\ UNCHANGED <<adminVars, snap, waited, during>>

\* Seeded fault: the error ratio is read from the setting in force by now.
FaultyDrawReloads(r) ==
    /\ pc[r] = "drawing"
    /\ \/ state.ratio > 0 /\ pc' = [pc EXCEPT ![r] = "injected"]
       \/ state.ratio < FullRatio /\ pc' = [pc EXCEPT ![r] = "passed"]
    /\ UNCHANGED <<adminVars, snap, waited, during>>

\* rand.Float64() < s.ErrorRatio: never at 0, always at 1.0.
Draw(r) ==
    /\ pc[r] = "drawing"
    /\ \/ snap[r].ratio > 0 /\ pc' = [pc EXCEPT ![r] = "injected"]
       \/ snap[r].ratio < FullRatio /\ pc' = [pc EXCEPT ![r] = "passed"]
    /\ UNCHANGED <<adminVars, snap, waited, during>>
-------------------------------------------------------------------------------
Set(a) == Store(a) \/ SetGauge(a)
Treat(r) == Load(r) \/ Wait(r) \/ Draw(r)

Next ==
    \/ \E a \in Admins : Post(a) \/ Set(a)
    \/ \E r \in Requests : Arrive(r) \/ Treat(r) \/ Disconnect(r)

Spec == Init /\ [][Next]_vars

\* Nothing but the scheduler and the clock holds up a request in the middleware.
Fairness == \A r \in Requests : WF_vars(Treat(r))

FairSpec == Spec /\ Fairness
-------------------------------------------------------------------------------
(***************************************************************************)
(* Properties                                                              *)
(***************************************************************************)

\* Whatever is posted, the setting in force is in range, and no request is held
\* up longer than MaxLatency (chaos.go:88-89).
TypeOK ==
    /\ state \in Settings
    /\ gauge \in BOOLEAN
    /\ admin \in [Admins -> {"idle", "storing", "exposing"}]
    /\ posted \in [Admins -> Settings]
    /\ pc \in [Requests -> {"idle"} \cup InFlight \cup Ended]
    /\ snap \in [Requests -> Settings]
    /\ waited \in [Requests -> 0 .. MaxLatency]
    /\ during \in [Requests -> SUBSET Settings]
    /\ raced \in BOOLEAN

\* The setting s accounts for what has become of r.
Explains(s, r) ==
    CASE pc[r] = "passed"   -> IF s.enabled
                               THEN waited[r] = s.latency /\ s.ratio < FullRatio
                               ELSE waited[r] = 0
      [] pc[r] = "injected" -> s.enabled /\ waited[r] = s.latency /\ s.ratio > 0
      [] pc[r] = "gone"     -> s.enabled /\ waited[r] < s.latency
      [] pc[r] \notin Ended -> TRUE

\* A request is treated by one setting that was in force while it was there:
\* never by a mixture of two, although the setting may be replaced while the
\* request sleeps, and never by one that was gone when it arrived (chaos.go:56).
TreatedByOneSetting ==
    \A r \in Requests : pc[r] \in Ended => \E s \in during[r] : Explains(s, r)

Settled == \A a \in Admins : admin[a] # "exposing"

\* Once no POST is half done, the gauge agrees with the setting, unless the last
\* POST to store its setting overlapped with another (chaos.go:47-52).
GaugeAgreesUnlessRaced == Settled /\ ~raced => gauge = state.enabled

\* chaos_enabled is documented as "Whether runtime chaos injection is enabled."
\* (metrics.go:86): with no POST in progress it says so.
GaugeTellsEnabled == Settled => gauge = state.enabled

\* Once chaos is switched off for good, in the end no request is held up or
\* drawn for any more: no stale setting keeps it going.
OffStopsInjection ==
    <>[](~state.enabled) => <>[](\A r \in Requests : pc[r] \notin {"waiting", "drawing"})
===============================================================================
