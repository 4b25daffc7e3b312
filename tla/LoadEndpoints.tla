------------------------------ MODULE LoadEndpoints ------------------------------
(***************************************************************************)
(* The routes that put load or failures on the process: GET /slow and      *)
(* GET /error, and behind the admin guard GET /cpu, GET /leak and          *)
(* POST /leak/reset, which share the buffers that were leaked.             *)
(***************************************************************************)
EXTENDS InputBounds, SequencesExt

CONSTANTS
    Clients,        \* callers, each with one request at a time
    Environments,   \* environments the process may be started in
    Texts,          \* Texts[p]: the texts a query gives for the parameter p
    Credentials,    \* what a caller presents to requireAdmin
    MaxLeaks,       \* bound: no leak is asked for once so many buffers are kept
    NoOwner         \* nobody has the mutex

ASSUME LoadEndpointsAssumption ==
    /\ NoOwner \notin Clients
    /\ MaxLeaks \in Nat
    /\ \A p \in {"max_ms", "rate", "seconds", "mb"} : Texts[p] \subseteq TextValues
    /\ \A env \in Environments : {env.slowMin, env.slowMax, env.errorRate} \subseteq TextValues

cpuMaxSeconds == 30
leakMaxMB == 512

VARIABLES
    cfg,        \* the configuration, fixed at start
    pc,         \* pc[c]: the statement the request of c has reached
    buf,        \* buf[c]: the size of the buffer c has allocated
    owner,      \* who has leakMu
    leaked,     \* the sizes of the buffers kept
    due,        \* due[c]: the total c has read, <<>> if it has none
    answer      \* answer[c]: what c was answered last

vars == <<cfg, pc, buf, owner, leaked, due, answer>>

Total(sizes) == FoldSeq(+, 0, sizes)

Nothing == [route |-> "none"]
-------------------------------------------------------------------------------
Init ==
    /\ \E env \in Environments : cfg = Load(env)
    /\ pc = [c \in Clients |-> "idle"]
    /\ buf = [c \in Clients |-> 0]
    /\ owner = NoOwner
    /\ leaked = <<>>
    /\ due = [c \in Clients |-> <<>>]
    /\ answer = [c \in Clients |-> Nothing]

Goto(c, from, to) ==
    /\ pc[c] = from
    /\ pc' = [pc EXCEPT ![c] = to]

Answer(c, record) == answer' = [answer EXCEPT ![c] = record]

\* A route that answers without touching what is shared.  A client that leaves
\* first is not answered.
Simulate(c, record) ==
    /\ pc[c] = "idle"
    /\ Answer(c, record)
    /\ UNCHANGED <<cfg, pc, buf, owner, leaked, due>>

\* A handler that panics is answered for by PanicGuard.
SlowAnswer(text, d) ==
    IF d = Panic
    THEN [route |-> "panicked"]
    ELSE [route |-> "slow", asked |-> text, sleptMs |-> d, wait |-> AsDuration(d)]

Slow(c) ==
    \E text \in Texts.max_ms : \E d \in SlowDelays(cfg.slowMin, SlowMax(cfg, text)) :
        Simulate(c, SlowAnswer(text, d))

Error(c) ==
    \E text \in Texts.rate : \E fails \in DrawFails(ErrorRate(cfg, text)) :
        Simulate(c, [route |-> "error", asked |-> text, fails |-> fails])

\* Every core spins for the seconds told, or until the client leaves.
Cpu(c) ==
    \E text \in Texts.seconds, credentials \in Credentials :
        /\ Admits(cfg, credentials)
        /\ Simulate(c, [route |-> "cpu", seconds |-> clampAtoi(text, 5, 0, cpuMaxSeconds)])

Refuse(c) ==
    \E credentials \in Credentials :
        /\ ~Admits(cfg, credentials)
        /\ Simulate(c, [route |-> "refused"])
-------------------------------------------------------------------------------
(***************************************************************************)
(* The leak                                                                *)
(***************************************************************************)

Enter(c, to) ==
    /\ \E credentials \in Credentials : Admits(cfg, credentials)
    /\ Goto(c, "idle", to)
    /\ Answer(c, Nothing)
    /\ UNCHANGED <<cfg, owner, leaked, due>>

\* The mb of the query, as bounded by clampAtoi.
LeakSizes == {clampAtoi(text, 10, 0, leakMaxMB) : text \in Texts.mb}

\* The buffer is allocated and touched before the mutex is taken.
Allocate(c) ==
    /\ Len(leaked) < MaxLeaks
    /\ Enter(c, "toLeak")
    /\ \E size \in LeakSizes : buf' = [buf EXCEPT ![c] = size]

AskReset(c) == Enter(c, "toReset") /\ UNCHANGED buf

Lock(c) ==
    /\ owner = NoOwner
    /\ Goto(c, "toLeak", "leaking") \/ Goto(c, "toReset", "resetting")
    /\ owner' = c
    /\ UNCHANGED <<cfg, buf, leaked, due, answer>>

\* Seeded fault: the mutex is released before the total is read.
FaultyKeep(c) ==
    /\ Goto(c, "leaking", "summing")
    /\ leaked' = Append(leaked, buf[c])
    /\ owner' = NoOwner
    /\ UNCHANGED <<cfg, buf, due, answer>>

Keep(c) ==
    /\ Goto(c, "leaking", "summing")
    /\ leaked' = Append(leaked, buf[c])
    /\ UNCHANGED <<cfg, buf, owner, due, answer>>

\* leakedMBLocked; sizes are whole megabytes.
Sum(c) ==
    /\ Goto(c, "summing", "unlocking")
    /\ due' = [due EXCEPT ![c] = <<Total(leaked)>>]
    /\ UNCHANGED <<cfg, buf, owner, leaked, answer>>

\* The answer to a reset is 0 whatever others have leaked by then.
Clear(c) ==
    /\ Goto(c, "resetting", "unlocking")
    /\ leaked' = <<>>
    /\ due' = [due EXCEPT ![c] = <<0>>]
    /\ UNCHANGED <<cfg, buf, owner, answer>>

Unlock(c) ==
    /\ Goto(c, "unlocking", "replying")
    /\ owner' = NoOwner
    /\ UNCHANGED <<cfg, buf, leaked, due, answer>>

TellTotal(c) ==
    /\ Goto(c, "replying", "idle")
    /\ Answer(c, [route |-> "leak", total |-> due[c]])
    /\ due' = [due EXCEPT ![c] = <<>>]
    /\ buf' = [buf EXCEPT ![c] = 0]
    /\ UNCHANGED <<cfg, owner, leaked>>

Next ==
    \E c \in Clients :
        \/ Slow(c) \/ Error(c) \/ Cpu(c) \/ Refuse(c)
        \/ Allocate(c) \/ AskReset(c) \/ Lock(c) \/ Keep(c) \/ Sum(c)
        \/ Clear(c) \/ Unlock(c) \/ TellTotal(c)

Spec == Init /\ [][Next]_vars
-------------------------------------------------------------------------------
\* GET /slow never sleeps, nor says it did, for more than the maximum in force,
\* nor for less than the minimum unless the query asks for less, whatever the
\* environment and the query say: the minimum gives way to the maximum
\* (internal/api/handlers.go:92-100).  A delay too long for a time.Duration
\* wraps around and is then shorter than the answer says, never longer.
SlowInBounds(a) ==
    LET cap == SlowMax(cfg, a.asked)
    IN /\ a.sleptMs \in 0 .. cap
       /\ a.sleptMs >= cfg.slowMin \/ cap <= cfg.slowMin
       /\ a.wait <= a.sleptMs * NsPerMs

\* A rate of 0 never fails a request and a rate of 1 fails every one, although
\* the draw includes 0 (internal/api/handlers.go:113-126).
ErrorAtTheEdges(a) ==
    /\ a.asked = Number(0) => ~a.fails
    /\ a.asked = Number(100) => a.fails

\* Every answer of a load route is within its bounds, and none is that of a
\* panic: rand.IntN is not called with the bounds equal or swapped.
AnswersInBounds ==
    \A c \in Clients : LET a == answer[c] IN
        /\ a.route # "panicked"
        /\ a.route = "slow" => SlowInBounds(a)
        /\ a.route = "error" => ErrorAtTheEdges(a)
        /\ a.route = "cpu" => a.seconds \in 0 .. cpuMaxSeconds

(***************************************************************************)
(* The refinement.  A leak takes effect when its buffer is appended; the   *)
(* total it will read is then already that of the books, because nobody    *)
(* else changes them before it has been read.                              *)
(***************************************************************************)
ReceiptOf(c) == IF pc[c] = "summing" THEN <<Total(leaked)>> ELSE due[c]
ToldTo(c) == IF answer[c].route = "leak" THEN answer[c].total ELSE <<>>

Ledger == INSTANCE LeakLedger WITH
    Amounts <- LeakSizes,
    held <- leaked,
    receipt <- [c \in Clients |-> ReceiptOf(c)],
    told <- [c \in Clients |-> ToldTo(c)]

\* Leaks and resets, with their buffers allocated before leakMu is taken and
\* answered after it is released, are told totals as if each were one step
\* (internal/api/chaos.go:143-172).
ImplementsLeakLedger == Ledger!Spec
===============================================================================
