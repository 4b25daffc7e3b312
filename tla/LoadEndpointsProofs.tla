--------------------------- MODULE LoadEndpointsProofs ---------------------------
(***************************************************************************)
(* LoadEndpoints for any number of clients, any texts and any environment: *)
(* the leak routes implement LeakLedger, and answers are within bounds.    *)
(***************************************************************************)
EXTENDS LoadEndpoints, TLAPS

Critical == {"leaking", "summing", "resetting", "unlocking"}
Places == {"idle", "toLeak", "toReset", "replying"} \cup Critical

LeakTypeOK ==
    /\ pc \in [Clients -> Places]
    /\ buf \in [Clients -> LeakSizes \cup {0}]
    /\ due = [c \in Clients |-> due[c]]
    /\ answer = [c \in Clients |-> answer[c]]
    /\ owner \in Clients \cup {NoOwner}

\* leakMu is held exactly by who is between Lock and Unlock.
MutexInv == \A c \in Clients : owner = c <=> pc[c] \in Critical

\* A total is there from its reading to its telling.
DueInv == \A c \in Clients : due[c] # <<>> <=> pc[c] \in {"unlocking", "replying"}

BufInv == \A c \in Clients : pc[c] \in {"toLeak", "leaking"} => buf[c] \in LeakSizes

LeakInv == LeakTypeOK /\ MutexInv /\ DueInv /\ BufInv
-------------------------------------------------------------------------------
(***************************************************************************)
(* The mutual exclusion                                                    *)
(***************************************************************************)

LEMMA InitLeakInv == Init => LeakInv
<1> SUFFICES ASSUME Init PROVE LeakInv
  OBVIOUS
<1>1. LeakTypeOK
  BY DEF Init, LeakTypeOK, Places
<1>2. MutexInv /\ DueInv /\ BufInv
  BY LoadEndpointsAssumption DEF Init, MutexInv, DueInv, BufInv, Critical
<1> QED
  BY <1>1, <1>2 DEF LeakInv

\* A route that shares nothing moves nobody.
LEMMA SimulateKeeps ==
    ASSUME LeakInv, NEW c \in Clients, NEW record, Simulate(c, record)
    PROVE  LeakInv'
BY DEF LeakInv, LeakTypeOK, MutexInv, DueInv, BufInv, Simulate, Answer

LEMMA AllocateKeeps == ASSUME LeakInv, NEW c \in Clients, Allocate(c) PROVE LeakInv'
<1> USE DEF LeakInv, Allocate, Enter, Goto, Answer
<1>1. LeakTypeOK'
  BY DEF LeakTypeOK, Places
<1>2. MutexInv' /\ DueInv'
  BY DEF LeakTypeOK, MutexInv, DueInv, Critical
<1>3. BufInv'
  BY DEF LeakTypeOK, BufInv
<1> QED
  BY <1>1, <1>2, <1>3

LEMMA AskResetKeeps == ASSUME LeakInv, NEW c \in Clients, AskReset(c) PROVE LeakInv'
<1> USE DEF LeakInv, AskReset, Enter, Goto, Answer
<1>1. LeakTypeOK'
  BY DEF LeakTypeOK, Places
<1>2. MutexInv' /\ DueInv' /\ BufInv'
  BY DEF LeakTypeOK, MutexInv, DueInv, BufInv, Critical
<1> QED
  BY <1>1, <1>2

LEMMA LockKeeps == ASSUME LeakInv, NEW c \in Clients, Lock(c) PROVE LeakInv'
<1> USE DEF LeakInv, Lock, Goto
<1>1. LeakTypeOK'
  BY DEF LeakTypeOK, Places, Critical
<1>2. MutexInv'
  BY LoadEndpointsAssumption DEF LeakTypeOK, MutexInv, Critical
<1>3. DueInv' /\ BufInv'
  BY DEF LeakTypeOK, DueInv, BufInv
<1> QED
  BY <1>1, <1>2, <1>3

LEMMA KeepKeeps == ASSUME LeakInv, NEW c \in Clients, Keep(c) PROVE LeakInv'
<1> USE DEF LeakInv, Keep, Goto
<1>1. LeakTypeOK'
  BY DEF LeakTypeOK, Places, Critical
<1>2. MutexInv' /\ DueInv' /\ BufInv'
  BY DEF LeakTypeOK, MutexInv, DueInv, BufInv, Critical
<1> QED
  BY <1>1, <1>2

LEMMA SumKeeps == ASSUME LeakInv, NEW c \in Clients, Sum(c) PROVE LeakInv'
<1> USE DEF LeakInv, Sum, Goto
<1>1. LeakTypeOK'
  BY DEF LeakTypeOK, Places, Critical
<1>2. MutexInv' /\ BufInv'
  BY DEF LeakTypeOK, MutexInv, BufInv, Critical
<1>3. DueInv'
  <2>1. <<Total(leaked)>> # <<>>
    OBVIOUS
  <2> QED
    BY <2>1 DEF LeakTypeOK, DueInv
<1> QED
  BY <1>1, <1>2, <1>3

LEMMA ClearKeeps == ASSUME LeakInv, NEW c \in Clients, Clear(c) PROVE LeakInv'
<1> USE DEF LeakInv, Clear, Goto
<1>1. LeakTypeOK'
  BY DEF LeakTypeOK, Places, Critical
<1>2. MutexInv' /\ BufInv'
  BY DEF LeakTypeOK, MutexInv, BufInv, Critical
<1>3. DueInv'
  <2>1. <<0>> # <<>>
    OBVIOUS
  <2> QED
    BY <2>1 DEF LeakTypeOK, DueInv
<1> QED
  BY <1>1, <1>2, <1>3

LEMMA UnlockKeeps == ASSUME LeakInv, NEW c \in Clients, Unlock(c) PROVE LeakInv'
<1> USE DEF LeakInv, Unlock, Goto
<1>1. LeakTypeOK'
  BY DEF LeakTypeOK, Places, Critical
<1>2. MutexInv'
  BY LoadEndpointsAssumption DEF LeakTypeOK, MutexInv, Critical
<1>3. DueInv' /\ BufInv'
  BY DEF LeakTypeOK, DueInv, BufInv
<1> QED
  BY <1>1, <1>2, <1>3

LEMMA TellTotalKeeps == ASSUME LeakInv, NEW c \in Clients, TellTotal(c) PROVE LeakInv'
<1> USE DEF LeakInv, TellTotal, Goto, Answer
<1>1. LeakTypeOK'
  BY DEF LeakTypeOK, Places
<1>2. MutexInv' /\ DueInv' /\ BufInv'
  BY DEF LeakTypeOK, MutexInv, DueInv, BufInv, Critical
<1> QED
  BY <1>1, <1>2

\* The routes without shared state, whatever they answer.
Stateless(c) == Slow(c) \/ Error(c) \/ Cpu(c) \/ Refuse(c)

LEMMA StatelessSimulates ==
    ASSUME NEW c \in Clients, Stateless(c)
    PROVE  \E record : Simulate(c, record) /\ record.route # "leak"
<1>1. CASE Slow(c)
  <2>1. PICK text \in Texts.max_ms : \E d \in SlowDelays(cfg.slowMin, SlowMax(cfg, text)) :
           Simulate(c, SlowAnswer(text, d))
    BY <1>1 DEF Slow
  <2>2. PICK d \in SlowDelays(cfg.slowMin, SlowMax(cfg, text)) :
           Simulate(c, SlowAnswer(text, d))
    BY <2>1
  <2>3. SlowAnswer(text, d).route # "leak"
    BY DEF SlowAnswer
  <2> QED
    BY <2>2, <2>3
<1>2. CASE Error(c)
  <2>1. PICK text \in Texts.rate : \E fails \in DrawFails(ErrorRate(cfg, text)) :
           Simulate(c, [route |-> "error", asked |-> text, fails |-> fails])
    BY <1>2 DEF Error
  <2>2. PICK fails \in DrawFails(ErrorRate(cfg, text)) :
           Simulate(c, [route |-> "error", asked |-> text, fails |-> fails])
    BY <2>1
  <2>3. [route |-> "error", asked |-> text, fails |-> fails].route # "leak"
    OBVIOUS
  <2> QED
    BY <2>2, <2>3
<1>3. CASE Cpu(c)
  <2>1. PICK text \in Texts.seconds :
           Simulate(c, [route |-> "cpu", seconds |-> clampAtoi(text, 5, 0, cpuMaxSeconds)])
    BY <1>3 DEF Cpu
  <2>2. [route |-> "cpu", seconds |-> clampAtoi(text, 5, 0, cpuMaxSeconds)].route # "leak"
    OBVIOUS
  <2> QED
    BY <2>1, <2>2
<1>4. CASE Refuse(c)
  <2>1. [route |-> "refused"].route # "leak"
    OBVIOUS
  <2> QED
    BY <1>4, <2>1 DEF Refuse
<1> QED
  BY <1>1, <1>2, <1>3, <1>4 DEF Stateless

LEMMA NextKeepsLeakInv == LeakInv /\ [Next]_vars => LeakInv'
<1> SUFFICES ASSUME LeakInv, [Next]_vars PROVE LeakInv'
  OBVIOUS
<1>1. ASSUME NEW c \in Clients, Stateless(c) PROVE LeakInv'
  BY <1>1, StatelessSimulates, SimulateKeeps
<1>2. CASE UNCHANGED vars
  BY <1>2 DEF vars, LeakInv, LeakTypeOK, MutexInv, DueInv, BufInv
<1> QED
  BY <1>1, <1>2, AllocateKeeps, AskResetKeeps, LockKeeps, KeepKeeps, SumKeeps, ClearKeeps,
     UnlockKeeps, TellTotalKeeps DEF Next, Stateless

LEMMA LeakInvariance == Spec => []LeakInv
BY InitLeakInv, NextKeepsLeakInv, PTL DEF Spec
-------------------------------------------------------------------------------
(***************************************************************************)
(* The refinement                                                          *)
(***************************************************************************)

LEMMA SameTotal == \A sizes : Ledger!Total(sizes) = Total(sizes)
BY DEF Ledger!Total, Total, FoldSeq, FoldFunction, FoldFunctionOnSet, MapThenFoldSet,
       Ledger!FoldSeq, Ledger!FoldFunction, Ledger!FoldFunctionOnSet, Ledger!MapThenFoldSet

receipts == [c \in Clients |-> ReceiptOf(c)]
tolds == [c \in Clients |-> ToldTo(c)]

LEMMA InitRefines == Init => Ledger!Init
<1> SUFFICES ASSUME Init PROVE Ledger!Init
  OBVIOUS
<1>1. receipts = [c \in Clients |-> <<>>]
  BY DEF Init, receipts, ReceiptOf
<1>2. tolds = [c \in Clients |-> <<>>]
  BY DEF Init, tolds, ToldTo, Nothing
<1> QED
  BY <1>1, <1>2 DEF Init, Ledger!Init, receipts, tolds

\* An answer without a total clears what c was told: c asks something else.
LEMMA AskRefines ==
    ASSUME LeakInv, NEW c \in Clients, NEW record, record.route # "leak",
           answer' = [answer EXCEPT ![c] = record],
           UNCHANGED <<leaked, due>>,
           \A k \in Clients : pc'[k] = "summing" <=> pc[k] = "summing"
    PROVE  Ledger!Ask(c)
<1>1. receipts' = receipts
  BY DEF receipts, ReceiptOf
<1>2. tolds' = [tolds EXCEPT ![c] = <<>>]
  BY DEF tolds, ToldTo, LeakInv, LeakTypeOK
<1> QED
  BY <1>1, <1>2 DEF Ledger!Ask, receipts, tolds

\* With everything told and read unchanged, only the locking moves.
LEMMA StutterRefines ==
    ASSUME UNCHANGED <<leaked, answer>>, receipts' = receipts
    PROVE  UNCHANGED Ledger!vars
BY DEF Ledger!vars, receipts, ToldTo

LEMMA KeepRefines == ASSUME LeakInv, NEW c \in Clients, Keep(c) PROVE Ledger!Leak(c)
<1> USE DEF Keep, Goto
<1>1. PICK mb \in LeakSizes : mb = buf[c]
  BY DEF LeakInv, BufInv
<1>2. leaked' = Append(leaked, mb)
  BY <1>1
<1>3. receipts[c] = <<>>
  BY DEF LeakInv, DueInv, receipts, ReceiptOf
<1>4. \A k \in Clients \ {c} : pc[k] # "summing" /\ pc'[k] # "summing"
  BY DEF LeakInv, LeakTypeOK, MutexInv, Critical
<1>5. receipts' = [receipts EXCEPT ![c] = <<Total(leaked')>>]
  <2>1. \A k \in Clients \ {c} : ReceiptOf(k)' = ReceiptOf(k)
    BY <1>4 DEF ReceiptOf
  <2>2. ReceiptOf(c)' = <<Total(leaked')>>
    BY DEF ReceiptOf, LeakInv, LeakTypeOK
  <2> QED
    BY <2>1, <2>2 DEF receipts
<1>6. Ledger!Total(leaked') = Total(leaked')
  BY SameTotal
<1>7. tolds' = tolds
  BY DEF tolds, ToldTo
<1>8. Ledger!Enter(c, Append(leaked, mb), Ledger!Total(Append(leaked, mb)))
  BY <1>2, <1>3, <1>5, <1>6, <1>7 DEF Ledger!Enter, receipts, tolds
<1> QED
  BY <1>8 DEF Ledger!Leak

LEMMA ClearRefines == ASSUME LeakInv, NEW c \in Clients, Clear(c) PROVE Ledger!Reset(c)
<1> USE DEF Clear, Goto
<1>1. receipts[c] = <<>>
  BY DEF LeakInv, DueInv, receipts, ReceiptOf
<1>2. \A k \in Clients \ {c} : pc[k] # "summing" /\ pc'[k] # "summing"
  BY DEF LeakInv, LeakTypeOK, MutexInv, Critical
<1>3. receipts' = [receipts EXCEPT ![c] = <<0>>]
  <2>1. \A k \in Clients \ {c} : ReceiptOf(k)' = ReceiptOf(k)
    BY <1>2 DEF ReceiptOf, LeakInv, LeakTypeOK
  <2>2. ReceiptOf(c)' = <<0>>
    BY DEF ReceiptOf, LeakInv, LeakTypeOK
  <2> QED
    BY <2>1, <2>2 DEF receipts
<1>4. tolds' = tolds
  BY DEF tolds, ToldTo
<1> QED
  BY <1>1, <1>3, <1>4 DEF Ledger!Reset, Ledger!Enter, receipts, tolds

LEMMA TellTotalRefines == ASSUME LeakInv, NEW c \in Clients, TellTotal(c) PROVE Ledger!Tell(c)
<1> USE DEF TellTotal, Goto, Answer
<1>1. receipts[c] = due[c] /\ due[c] # <<>>
  BY DEF LeakInv, DueInv, receipts, ReceiptOf
<1>2. receipts' = [receipts EXCEPT ![c] = <<>>]
  BY DEF receipts, ReceiptOf, LeakInv, LeakTypeOK
<1>3. tolds' = [tolds EXCEPT ![c] = due[c]]
  BY DEF tolds, ToldTo, LeakInv, LeakTypeOK
<1> QED
  BY <1>1, <1>2, <1>3 DEF Ledger!Tell, receipts, tolds

LEMMA NextRefines == LeakInv /\ [Next]_vars => [Ledger!Next]_(Ledger!vars)
<1> SUFFICES ASSUME LeakInv, [Next]_vars PROVE Ledger!Next \/ UNCHANGED Ledger!vars
  OBVIOUS
<1>1. ASSUME NEW c \in Clients, Stateless(c) PROVE Ledger!Ask(c)
  <2>1. PICK record : Simulate(c, record) /\ record.route # "leak"
    BY <1>1, StatelessSimulates
  <2> QED
    BY <2>1, AskRefines DEF Simulate, Answer
<1>2. ASSUME NEW c \in Clients, Allocate(c) \/ AskReset(c) PROVE Ledger!Ask(c)
  <2>1. Nothing.route # "leak"
    BY DEF Nothing
  <2>2. \A k \in Clients : pc'[k] = "summing" <=> pc[k] = "summing"
    BY <1>2 DEF Allocate, AskReset, Enter, Goto, LeakInv, LeakTypeOK
  <2> QED
    BY <1>2, <2>1, <2>2, AskRefines DEF Allocate, AskReset, Enter, Answer
<1>3. ASSUME NEW c \in Clients, Lock(c) \/ Sum(c) \/ Unlock(c) PROVE UNCHANGED Ledger!vars
  <2>1. receipts' = receipts
    <3>1. CASE Lock(c)
      BY <3>1 DEF receipts, ReceiptOf, Lock, Goto, LeakInv, LeakTypeOK
    <3>2. CASE Sum(c)
      BY <3>2 DEF receipts, ReceiptOf, Sum, Goto, LeakInv, LeakTypeOK
    <3>3. CASE Unlock(c)
      BY <3>3 DEF receipts, ReceiptOf, Unlock, Goto, LeakInv, LeakTypeOK
    <3> QED
      BY <1>3, <3>1, <3>2, <3>3
  <2> QED
    BY <1>3, <2>1, StutterRefines DEF Lock, Sum, Unlock
<1>4. CASE UNCHANGED vars
  <2>1. receipts' = receipts
    BY <1>4 DEF vars, receipts, ReceiptOf
  <2> QED
    BY <1>4, <2>1, StutterRefines DEF vars
<1> QED
  BY <1>1, <1>2, <1>3, <1>4, KeepRefines, ClearRefines, TellTotalRefines
  DEF Next, Stateless, Ledger!Next

\* Leaks and resets are one step each for whoever is told their totals, whatever
\* the number of clients: handleLeak reads its total in the critical section
\* that appends its buffer (internal/api/chaos.go:150-153).
THEOREM LeaksAreAtomic == Spec => ImplementsLeakLedger
BY InitRefines, NextRefines, LeakInvariance, PTL DEF Spec, ImplementsLeakLedger, Ledger!Spec
-------------------------------------------------------------------------------
(***************************************************************************)
(* The bounds                                                              *)
(***************************************************************************)

CfgInv ==
    /\ cfg.slowMin \in Nat /\ cfg.slowMax \in Nat
    /\ cfg.errorRate \in TextValues

Within(a) ==
    /\ a.route # "panicked"
    /\ a.route = "slow" => SlowInBounds(a)
    /\ a.route = "error" => ErrorAtTheEdges(a)
    /\ a.route = "cpu" => a.seconds \in 0 .. cpuMaxSeconds

BoundsInv == CfgInv /\ LeakInv /\ \A c \in Clients : Within(answer[c])

LEMMA InitCfgInv == Init => CfgInv
<1> SUFFICES ASSUME Init PROVE CfgInv
  OBVIOUS
<1>1. PICK env \in Environments : cfg = Load(env)
  BY DEF Init
<1>2. env.slowMin \in TextValues /\ env.slowMax \in TextValues /\ env.errorRate \in TextValues
  BY LoadEndpointsAssumption
<1>3. GetenvInt(env.slowMin, SlowMinDefault) \in Int /\ GetenvInt(env.slowMax, SlowMaxDefault) \in Int
  BY <1>2, InputBoundsAssumption DEF GetenvInt, TextValues
<1>4. cfg.slowMin \in Nat /\ cfg.slowMax \in Nat
  BY <1>1, <1>3 DEF Load, Smaller, Larger
<1>5. GetenvFloat(env.errorRate, 30) \in TextValues
  BY <1>2 DEF GetenvFloat, TextValues, Number
<1>6. ClampRate(GetenvFloat(env.errorRate, 30)) \in TextValues
  BY <1>5 DEF ClampRate, TextValues, Number, Smaller, Larger
<1> QED
  BY <1>1, <1>4, <1>6 DEF CfgInv, Load

\* A Duration of milliseconds is never longer than the milliseconds.
LEMMA DurationShrinks ==
    ASSUME NEW ms \in Nat
    PROVE  AsDuration(ms) <= ms * NsPerMs
<1> DEFINE ns == ms * NsPerMs
<1>1. ns \in Nat
  BY InputBoundsAssumption
<1>2. ns % DurationSpan \in Nat /\ ns % DurationSpan <= ns
  BY <1>1, InputBoundsAssumption
<1> QED
  BY <1>1, <1>2, InputBoundsAssumption DEF AsDuration

\* What handleSlow draws lies between the minimum, which gives way, and the
\* maximum; it never panics.
LEMMA SlowWithin ==
    ASSUME CfgInv, NEW text \in TextValues, NEW d \in SlowDelays(cfg.slowMin, SlowMax(cfg, text))
    PROVE  Within(SlowAnswer(text, d))
<1> DEFINE cap == SlowMax(cfg, text)
           lowest == Smaller(cfg.slowMin, cap)
<1>1. cap \in Nat /\ cfg.slowMin \in Nat
  BY DEF CfgInv, SlowMax, TextValues
<1>2. lowest \in 0 .. cap /\ (lowest = cfg.slowMin \/ (lowest = cap /\ cap <= cfg.slowMin))
  BY <1>1 DEF Smaller
<1>3. d \in IF cap > lowest THEN From(lowest, IntN(cap - lowest)) ELSE {lowest}
  BY DEF SlowDelays
<1> HIDE DEF cap, lowest
<1>4. d \in lowest .. cap
  <2>1. CASE cap > lowest
    <3>1. cap - lowest > 0 /\ IntN(cap - lowest) = 0 .. (cap - lowest) - 1
      BY <1>1, <1>2, <2>1 DEF IntN
    <3>2. PICK k \in 0 .. (cap - lowest) - 1 : d = IF k = Panic THEN Panic ELSE lowest + k
      BY <1>3, <2>1, <3>1 DEF From
    <3> QED
      BY <1>1, <1>2, <3>2 DEF Panic
  <2>2. CASE ~(cap > lowest)
    BY <1>1, <1>2, <1>3, <2>2
  <2> QED
    BY <2>1, <2>2
<1>5. d \in Nat /\ d \in 0 .. cap /\ (d >= cfg.slowMin \/ cap <= cfg.slowMin)
  BY <1>1, <1>2, <1>4
<1>6. AsDuration(d) <= d * NsPerMs
  BY <1>5, DurationShrinks
<1>7. d # Panic
  BY <1>5 DEF Panic
<1> DEFINE a == [route |-> "slow", asked |-> text, sleptMs |-> d, wait |-> AsDuration(d)]
<1>8. a.route = "slow" /\ a.asked = text /\ a.sleptMs = d /\ a.wait = AsDuration(d)
  OBVIOUS
<1>9. SlowAnswer(text, d) = a
  BY <1>7 DEF SlowAnswer
<1> HIDE DEF a
<1>10. SlowInBounds(a)
  BY <1>5, <1>6, <1>8 DEF SlowInBounds, cap
<1> QED
  BY <1>8, <1>9, <1>10 DEF Within

\* The two ends of the rate decide handleError's draw.
LEMMA ErrorWithin ==
    ASSUME CfgInv, NEW text \in TextValues, NEW fails \in DrawFails(ErrorRate(cfg, text))
    PROVE  Within([route |-> "error", asked |-> text, fails |-> fails])
<1>1. fails \in BOOLEAN
  BY DEF DrawFails
<1>2. text = Number(0) => fails = FALSE
  BY <1>1 DEF DrawFails, ErrorRate, Number
<1>3. text = Number(100) => fails = TRUE
  BY <1>1 DEF DrawFails, ErrorRate, Number
<1> QED
  BY <1>2, <1>3 DEF Within, ErrorAtTheEdges

LEMMA CpuWithin ==
    ASSUME NEW text \in TextValues
    PROVE  Within([route |-> "cpu", seconds |-> clampAtoi(text, 5, 0, cpuMaxSeconds)])
<1>1. clampAtoi(text, 5, 0, cpuMaxSeconds) \in 0 .. cpuMaxSeconds
  BY DEF clampAtoi, clamp, Smaller, Larger, cpuMaxSeconds, TextValues
<1> QED
  BY <1>1 DEF Within

\* Whatever c is answered next keeps the bounds if the answer does.
LEMMA AnswerKeeps ==
    ASSUME BoundsInv, NEW c \in Clients, NEW record, Within(record),
           Answer(c, record), UNCHANGED cfg
    PROVE  \A k \in Clients : Within(answer[k])'
<1>1. \A k \in Clients : answer'[k] = record \/ answer'[k] = answer[k]
  BY DEF Answer, BoundsInv, LeakInv, LeakTypeOK
<1>2. \A a : Within(a)' <=> Within(a)
  BY DEF Within, SlowInBounds, ErrorAtTheEdges, SlowMax
<1> QED
  BY <1>1, <1>2 DEF BoundsInv

LEMMA StatelessWithin ==
    ASSUME BoundsInv, NEW c \in Clients, Stateless(c)
    PROVE  \A k \in Clients : Within(answer[k])'
<1>0. CfgInv /\ \A p \in {"max_ms", "rate", "seconds", "mb"} : Texts[p] \subseteq TextValues
  BY LoadEndpointsAssumption DEF BoundsInv
<1>1. CASE Slow(c)
  <2>1. PICK text \in Texts.max_ms : \E d \in SlowDelays(cfg.slowMin, SlowMax(cfg, text)) :
           Simulate(c, SlowAnswer(text, d))
    BY <1>1 DEF Slow
  <2>2. PICK d \in SlowDelays(cfg.slowMin, SlowMax(cfg, text)) :
           Simulate(c, SlowAnswer(text, d))
    BY <2>1
  <2>3. text \in TextValues
    BY <1>0
  <2> QED
    BY <1>0, <2>2, <2>3, SlowWithin, AnswerKeeps DEF Simulate
<1>2. CASE Error(c)
  <2>1. PICK text \in Texts.rate : \E fails \in DrawFails(ErrorRate(cfg, text)) :
           Simulate(c, [route |-> "error", asked |-> text, fails |-> fails])
    BY <1>2 DEF Error
  <2>2. PICK fails \in DrawFails(ErrorRate(cfg, text)) :
           Simulate(c, [route |-> "error", asked |-> text, fails |-> fails])
    BY <2>1
  <2>3. text \in TextValues
    BY <1>0
  <2> QED
    BY <1>0, <2>2, <2>3, ErrorWithin, AnswerKeeps DEF Simulate
<1>3. CASE Cpu(c)
  <2>1. PICK text \in Texts.seconds :
           Simulate(c, [route |-> "cpu", seconds |-> clampAtoi(text, 5, 0, cpuMaxSeconds)])
    BY <1>3 DEF Cpu
  <2>2. text \in TextValues
    BY <1>0
  <2> QED
    BY <2>1, <2>2, CpuWithin, AnswerKeeps DEF Simulate
<1>4. CASE Refuse(c)
  <2>1. Within([route |-> "refused"])
    BY DEF Within
  <2> QED
    BY <1>4, <2>1, AnswerKeeps DEF Refuse, Simulate
<1> QED
  BY <1>1, <1>2, <1>3, <1>4 DEF Stateless

LEMMA NextKeepsBoundsInv == BoundsInv /\ [Next]_vars => BoundsInv'
<1> SUFFICES ASSUME BoundsInv, [Next]_vars PROVE BoundsInv'
  OBVIOUS
<1>1. LeakInv'
  BY NextKeepsLeakInv DEF BoundsInv
<1>2. UNCHANGED cfg
  BY DEF Next, Slow, Error, Cpu, Refuse, Simulate, Allocate, AskReset, Enter, Lock, Keep, Sum,
     Clear, Unlock, TellTotal, vars
<1>3. CfgInv'
  BY <1>2 DEF BoundsInv, CfgInv
<1>4. \A k \in Clients : Within(answer[k])'
  <2>1. ASSUME NEW c \in Clients, Stateless(c) PROVE \A k \in Clients : Within(answer[k])'
    BY <2>1, StatelessWithin
  <2>2. ASSUME NEW c \in Clients, Allocate(c) \/ AskReset(c)
        PROVE  \A k \in Clients : Within(answer[k])'
    <3>1. Within(Nothing)
      BY DEF Within, Nothing
    <3> QED
      BY <1>2, <2>2, <3>1, AnswerKeeps DEF Allocate, AskReset, Enter
  <2>3. ASSUME NEW c \in Clients, TellTotal(c) PROVE \A k \in Clients : Within(answer[k])'
    <3>1. Within([route |-> "leak", total |-> due[c]])
      BY DEF Within
    <3> QED
      BY <1>2, <2>3, <3>1, AnswerKeeps DEF TellTotal
  <2>4. CASE UNCHANGED answer
    BY <1>2, <2>4 DEF BoundsInv, Within, SlowInBounds, ErrorAtTheEdges, SlowMax
  <2> QED
    BY <2>1, <2>2, <2>3, <2>4 DEF Next, Stateless, Lock, Keep, Sum, Clear, Unlock, vars
<1> QED
  BY <1>1, <1>3, <1>4 DEF BoundsInv

\* Whatever the environment and the queries say, nobody is delayed or kept busy
\* beyond the bounds of handleSlow and handleCPU, and the ends of the rate of
\* handleError are certain.
THEOREM AnswersStayInBounds == Spec => []AnswersInBounds
<1>1. Init => BoundsInv
  <2> SUFFICES ASSUME Init PROVE BoundsInv
    OBVIOUS
  <2>1. \A c \in Clients : answer[c] = Nothing
    BY DEF Init
  <2>2. Within(Nothing)
    BY DEF Within, Nothing
  <2> QED
    BY <2>1, <2>2, InitLeakInv, InitCfgInv DEF BoundsInv
<1>2. BoundsInv => AnswersInBounds
  BY DEF BoundsInv, AnswersInBounds, Within
<1> QED
  BY <1>1, <1>2, NextKeepsBoundsInv, PTL DEF Spec
===============================================================================
