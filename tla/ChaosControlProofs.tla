-------------------------- MODULE ChaosControlProofs --------------------------
(***************************************************************************)
(* Proofs about ChaosControl for any number of admins and requests.        *)
(***************************************************************************)
EXTENDS ChaosControl, TLAPS

\* A request in the middleware holds a setting that was in force since it
\* arrived, and has waited no longer than that setting says.
RequestInv(r) ==
    /\ pc[r] = "arrived" => state \in during[r] /\ waited[r] = 0
    /\ pc[r] = "waiting" => /\ snap[r] \in during[r]
                            /\ snap[r].enabled
                            /\ waited[r] < snap[r].latency
    /\ pc[r] = "drawing" => /\ snap[r] \in during[r]
                            /\ snap[r].enabled
                            /\ waited[r] = snap[r].latency
    /\ pc[r] \in Ended   => \E s \in during[r] : Explains(s, r)

RequestsInv == \A r \in Requests : RequestInv(r)

\* Without a race at most one POST is half done, and it is the last that stored.
GaugeInv ==
    ~raced => /\ \A a, b \in Admins :
                    admin[a] = "exposing" /\ admin[b] = "exposing" => a = b
              /\ \A a \in Admins : admin[a] = "exposing" => posted[a] = state
              /\ GaugeAgreesUnlessRaced

USE DEF Settings, Off, InFlight, Ended, adminVars, requestVars

\* Clamping brings any integer into the range.
LEMMA ClampInRange ==
    ASSUME NEW n \in Int, NEW hi \in Nat
    PROVE  clamp(n, 0, hi) \in 0 .. hi
    BY DEF clamp

\* Every step keeps every variable in its type: the wait is bounded by the
\* setting the request has loaded, and that by MaxLatency.
LEMMA TypeStep == TypeOK /\ RequestsInv /\ [Next]_vars => TypeOK'
<1> SUFFICES ASSUME TypeOK, RequestsInv, [Next]_vars
             PROVE  TypeOK'
    OBVIOUS
<1> USE DEF TypeOK
<1>1. ASSUME NEW a \in Admins, Post(a)       PROVE TypeOK'
    <2>1. PICK p \in Posts :
              posted' = [posted EXCEPT ![a] =
                  [p EXCEPT !.latency = clamp(@, 0, MaxLatency),
                            !.ratio = clamp(@, 0, FullRatio)]]
        BY <1>1 DEF Post
    <2>2. p \in [enabled : BOOLEAN, latency : Int, ratio : Int]
        BY ChaosAssumption
    <2>3. /\ clamp(p.latency, 0, MaxLatency) \in 0 .. MaxLatency
          /\ clamp(p.ratio, 0, FullRatio) \in 0 .. FullRatio
        BY <2>2, ClampInRange, ChaosAssumption
    <2>4. [p EXCEPT !.latency = clamp(@, 0, MaxLatency),
                    !.ratio = clamp(@, 0, FullRatio)] \in Settings
        BY <2>2, <2>3
    <2>5. posted' \in [Admins -> Settings]
        BY <2>1, <2>4
    <2>6. QED
        BY <1>1, <2>5 DEF Post
<1>2. ASSUME NEW a \in Admins, Store(a)      PROVE TypeOK'
    <2>1. raced' \in BOOLEAN /\ state' \in Settings
        BY <1>2 DEF Store
    <2>2. during' \in [Requests -> SUBSET Settings]
        BY <1>2, <2>1 DEF Store
    <2>3. QED
        BY <1>2, <2>1, <2>2 DEF Store
<1>3. ASSUME NEW a \in Admins, SetGauge(a)   PROVE TypeOK'
    <2>1. gauge' \in BOOLEAN
        BY <1>3 DEF SetGauge
    <2>2. QED
        BY <1>3, <2>1 DEF SetGauge
<1>4. ASSUME NEW r \in Requests, Arrive(r)   PROVE TypeOK'
    BY <1>4, ChaosAssumption DEF Arrive
<1>5. ASSUME NEW r \in Requests, Load(r)     PROVE TypeOK'
    <2>1. Treatment(state) \in {"passed", "waiting", "drawing"}
        BY ChaosAssumption DEF Treatment
    <2>2. QED
        BY <1>5, <2>1 DEF Load
<1>6. ASSUME NEW r \in Requests, Wait(r)     PROVE TypeOK'
    <2>1. waited[r] + 1 \in 0 .. MaxLatency
        <3>1. waited[r] \in Nat /\ snap[r].latency \in 0 .. MaxLatency
            BY ChaosAssumption
        <3>2. waited[r] < snap[r].latency
            BY <1>6 DEF Wait, RequestsInv, RequestInv
        <3>3. QED
            BY <3>1, <3>2, ChaosAssumption
    <2>2. waited' \in [Requests -> 0 .. MaxLatency]
        BY <1>6, <2>1 DEF Wait
    <2>3. pc' \in [Requests -> {"idle"} \cup InFlight \cup Ended]
        BY <1>6 DEF Wait
    <2>4. QED
        BY <1>6, <2>2, <2>3 DEF Wait
<1>7. ASSUME NEW r \in Requests, Draw(r)     PROVE TypeOK'
    BY <1>7 DEF Draw
<1>8. ASSUME NEW r \in Requests, Disconnect(r) PROVE TypeOK'
    BY <1>8 DEF Disconnect
<1>9. CASE UNCHANGED vars
    BY <1>9 DEF vars
<1>10. QED
    BY <1>1, <1>2, <1>3, <1>4, <1>5, <1>6, <1>7, <1>8, <1>9 DEF Next, Set, Treat

\* A step that leaves a request alone leaves its place in the invariant alone,
\* unless it replaces the setting in force.
LEMMA Untouched ==
    ASSUME NEW r \in Requests, RequestInv(r),
           pc'[r] = pc[r], snap'[r] = snap[r], waited'[r] = waited[r],
           during'[r] = during[r], state' = state
    PROVE  RequestInv(r)'
    BY DEF RequestInv, Explains

\* Every step keeps every request treated by a setting of its own time.
LEMMA RequestsStep == TypeOK /\ RequestsInv /\ [Next]_vars => RequestsInv'
<1> SUFFICES ASSUME TypeOK, RequestsInv, [Next]_vars,
                    NEW r \in Requests
             PROVE  RequestInv(r)'
    BY DEF RequestsInv
<1>0. RequestInv(r)
    BY DEF RequestsInv
<1>1. ASSUME NEW a \in Admins, Post(a) \/ SetGauge(a)
      PROVE  RequestInv(r)'
    BY <1>0, <1>1, Untouched DEF Post, SetGauge
<1>2. ASSUME NEW a \in Admins, Store(a)
      PROVE  RequestInv(r)'
    <2>1. /\ pc'[r] = pc[r] /\ snap'[r] = snap[r] /\ waited'[r] = waited[r]
          /\ during'[r] = IF pc[r] \in InFlight THEN during[r] \cup {state'} ELSE during[r]
        BY <1>2 DEF Store
    <2>2. CASE pc[r] \in InFlight
        BY <1>0, <2>1, <2>2 DEF RequestInv
    <2>3. CASE pc[r] \in Ended
        BY <1>0, <2>1, <2>3 DEF RequestInv, Explains
    <2>4. CASE pc[r] = "idle"
        BY <2>1, <2>4 DEF RequestInv
    <2>5. QED
        BY <2>2, <2>3, <2>4 DEF TypeOK
<1>3. ASSUME NEW q \in Requests, q # r, Arrive(q) \/ Treat(q) \/ Disconnect(q)
      PROVE  RequestInv(r)'
    <2>1. /\ pc'[r] = pc[r] /\ snap'[r] = snap[r] /\ waited'[r] = waited[r]
          /\ during'[r] = during[r] /\ state' = state
        BY <1>3 DEF TypeOK, Arrive, Treat, Load, Wait, Draw, Disconnect
    <2>2. QED
        BY <1>0, <2>1, Untouched
<1>4. CASE Arrive(r)
    BY <1>4 DEF TypeOK, Arrive, RequestInv
<1>5. CASE Load(r)
    <2>1. /\ snap'[r] = state /\ waited'[r] = 0 /\ during'[r] = during[r]
          /\ state \in during[r] /\ pc'[r] = Treatment(state) /\ state \in Settings
        BY <1>0, <1>5 DEF TypeOK, Load, RequestInv
    <2>2. CASE ~state.enabled
        BY <2>1, <2>2 DEF Treatment, RequestInv, Explains
    <2>3. CASE state.enabled /\ state.latency > 0
        BY <2>1, <2>3 DEF Treatment, RequestInv
    <2>4. CASE state.enabled /\ state.latency <= 0
        <3>1. state.latency = 0
            BY <2>1, <2>4, ChaosAssumption
        <3>2. QED
            BY <2>1, <2>4, <3>1 DEF Treatment, RequestInv
    <2>5. QED
        BY <2>1, <2>2, <2>3, <2>4, ChaosAssumption
<1>6. CASE Wait(r)
    <2>1. /\ snap'[r] = snap[r] /\ during'[r] = during[r] /\ waited'[r] = waited[r] + 1
          /\ pc'[r] = IF waited[r] + 1 = snap[r].latency THEN "drawing" ELSE "waiting"
          /\ snap[r] \in during[r] /\ snap[r].enabled /\ waited[r] < snap[r].latency
        BY <1>0, <1>6 DEF TypeOK, Wait, RequestInv
    <2>2. waited[r] \in Int /\ snap[r].latency \in Int
        BY ChaosAssumption DEF TypeOK
    <2>3. QED
        BY <2>1, <2>2 DEF RequestInv
<1>7. CASE Disconnect(r)
    <2>1. /\ pc'[r] = "gone" /\ waited'[r] = waited[r] /\ during'[r] = during[r]
          /\ snap[r] \in during[r] /\ snap[r].enabled /\ waited[r] < snap[r].latency
        BY <1>0, <1>7 DEF TypeOK, Disconnect, RequestInv
    <2>2. QED
        BY <2>1 DEF RequestInv, Explains
<1>8. CASE Draw(r)
    <2>1. /\ waited'[r] = waited[r] /\ during'[r] = during[r]
          /\ snap[r] \in during[r] /\ snap[r].enabled /\ waited[r] = snap[r].latency
          /\ \/ snap[r].ratio > 0 /\ pc'[r] = "injected"
             \/ snap[r].ratio < FullRatio /\ pc'[r] = "passed"
        BY <1>0, <1>8 DEF TypeOK, Draw, RequestInv
    <2>2. QED
        BY <2>1 DEF RequestInv, Explains
<1>9. CASE UNCHANGED vars
    BY <1>0, <1>9, Untouched DEF vars
<1>10. QED
    BY <1>1, <1>2, <1>3, <1>4, <1>5, <1>6, <1>7, <1>8, <1>9 DEF Next, Set, Treat

LEMMA ChaosInvariant == Spec => [](TypeOK /\ RequestsInv)
<1>1. Init => TypeOK /\ RequestsInv
    <2> SUFFICES ASSUME Init
                 PROVE  TypeOK /\ RequestsInv
        OBVIOUS
    <2>1. Off \in Settings
        BY ChaosAssumption
    <2>2. TypeOK
        BY <2>1, ChaosAssumption DEF Init, TypeOK
    <2>3. \A r \in Requests : pc[r] = "idle"
        BY DEF Init
    <2>4. QED
        BY <2>2, <2>3 DEF RequestsInv, RequestInv
<1>2. TypeOK /\ RequestsInv /\ [Next]_vars => TypeOK' /\ RequestsInv'
    BY TypeStep, RequestsStep
<1>3. QED
    BY <1>1, <1>2, PTL DEF Spec

\* The setting in force is always in range and bounds every wait.
THEOREM ChaosTypeCorrect == Spec => []TypeOK
    BY ChaosInvariant, PTL

\* No request is treated by a mixture of two settings, nor by a stale one.
THEOREM OneSettingPerRequest == Spec => []TreatedByOneSetting
<1>1. RequestsInv => TreatedByOneSetting
    BY DEF RequestsInv, RequestInv, TreatedByOneSetting
<1>2. QED
    BY <1>1, ChaosInvariant, PTL

\* POSTs that do not overlap leave the gauge in agreement with the setting.
THEOREM GaugeFollowsSerialPosts == Spec => []GaugeAgreesUnlessRaced
<1> USE DEF GaugeInv, GaugeAgreesUnlessRaced, Settled
<1>1. Init => GaugeInv
    <2> SUFFICES ASSUME Init
                 PROVE  GaugeInv
        OBVIOUS
    <2>1. \A a \in Admins : admin[a] = "idle"
        BY DEF Init
    <2>2. gauge = state.enabled
        BY DEF Init
    <2>3. QED
        BY <2>1, <2>2
<1>2. TypeOK /\ GaugeInv /\ [Next]_vars => GaugeInv'
    <2> SUFFICES ASSUME TypeOK, GaugeInv, [Next]_vars
                 PROVE  GaugeInv'
        OBVIOUS
    <2> USE DEF TypeOK
    <2>1. ASSUME NEW a \in Admins, Post(a)
          PROVE  GaugeInv'
        BY <2>1 DEF Post
    <2>2. ASSUME NEW a \in Admins, Store(a)
          PROVE  GaugeInv'
        BY <2>2 DEF Store
    <2>3. ASSUME NEW a \in Admins, SetGauge(a)
          PROVE  GaugeInv'
        BY <2>3 DEF SetGauge
    <2>4. CASE UNCHANGED adminVars
        BY <2>4
    <2>5. QED
        BY <2>1, <2>2, <2>3, <2>4
           DEF Next, Set, Treat, Arrive, Load, Wait, Draw, Disconnect, vars
<1>3. GaugeInv /\ TypeOK => GaugeAgreesUnlessRaced
    BY DEF TypeOK
<1>4. QED
    BY <1>1, <1>2, <1>3, ChaosTypeCorrect, PTL DEF Spec
===============================================================================
