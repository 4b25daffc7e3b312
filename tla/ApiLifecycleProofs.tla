--------------------------- MODULE ApiLifecycleProofs ---------------------------
(***************************************************************************)
(* ApiLifecycle for any number of handlers and connections: its type       *)
(* invariant, its safety invariants and what a signal may not do.          *)
(***************************************************************************)
EXTENDS ApiLifecycle, FiniteSetTheorems, TLAPS

\* The shutdown of the tracer is deferred first, and the stop of NotifyContext by
\* the time main serves.
DefersInv ==
    /\ phase \in {"store", "cache", "producer", "listen"} \cup Serving =>
          Len(defers) > 0 /\ defers[1] = "tracer"
    /\ phase \in Serving => Registered

StartInv == phase = "tracer" => defers = <<>>

OpenedInv ==
    /\ phase \in {"store", "cache", "producer", "listen"} \cup Serving => "tracer" \in opened
    /\ phase \in {"cache", "producer", "listen"} \cup Serving => "store" \in opened
    /\ phase \in {"producer", "listen"} \cup Serving => "cache" \in opened
    /\ phase \in {"listen"} \cup Serving => "producer" \in opened

QuietInv == phase \notin Serving => \A h \in Handlers : pc[h] = "away"

\* While the shutdown of the tracer is still to run, it is the last.
FlushInv ==
    phase = "returning" =>
        (Len(defers) > 0 /\ defers[1] = "tracer") \/ (unsent = {} \/ warned)

ExitInv ==
    /\ exit # "none" => phase = "exited"
    /\ CleanExitFlushes

MainTypeOK ==
    /\ phase \in Startup \cup Serving \cup {"returning", "exited"}
    /\ opened \subseteq Startup
    /\ defers \in Seq(Startup \cup {"stop"})
    /\ signalled \in BOOLEAN /\ serverErr \in BOOLEAN /\ warned \in BOOLEAN
    /\ unsent \subseteq Handlers
    /\ exit \in {"none", "0", "1", "killed"}

\* Who asks for a connection or has one has a query to run.
PendingInv == \A h \in Handlers : pc[h] \in {"asking", "querying"} => queries[h] > 0

PoolInv == PoolTypeOK /\ ConnectionsReturned /\ PendingInv

Inv ==
    /\ PoolInv /\ MainTypeOK
    /\ DefersInv /\ StartInv /\ OpenedInv /\ QuietInv /\ FlushInv /\ ExitInv
-------------------------------------------------------------------------------
(***************************************************************************)
(* The pool                                                                *)
(***************************************************************************)

\* Moving h to a place that is not a query, and giving its connection back,
\* keeps the books right.
LEMMA LeaveQuery ==
    ASSUME PoolInv, NEW h \in Handlers,
           NEW to \in {"away", "asking", "replying"}, NEW n \in 0 .. 2,
           to = "asking" => n > 0,
           pc' = [pc EXCEPT ![h] = to], queries' = [queries EXCEPT ![h] = n],
           Release(h)
    PROVE  PoolInv'
<1>1. PoolTypeOK'
  BY DEF PoolInv, PoolTypeOK, Release
<1>2. conns' = {k \in Handlers : pc'[k] = "querying"}
  BY DEF PoolInv, PoolTypeOK, ConnectionsReturned, Release
<1>3. Cardinality(conns') <= MaxOpen
  <2>1. IsFiniteSet(conns)
    BY FS_Subset, DbPoolAssumption DEF PoolInv, PoolTypeOK
  <2>2. IsFiniteSet(conns') /\ Cardinality(conns') <= Cardinality(conns)
    BY <2>1, FS_Subset DEF Release
  <2>3. Cardinality(conns) \in Nat /\ Cardinality(conns') \in Nat
    BY <2>1, <2>2, FS_CardinalityType
  <2> QED
    BY <2>2, <2>3, DbPoolAssumption DEF PoolInv, ConnectionsReturned
<1>4. PendingInv'
  BY DEF PoolInv, PoolTypeOK, PendingInv
<1> QED
  BY <1>1, <1>2, <1>3, <1>4 DEF PoolInv, ConnectionsReturned

\* So does moving h when it holds none.
LEMMA MoveOutside ==
    ASSUME PoolInv, NEW h \in Handlers, pc[h] # "querying",
           NEW to \in {"away", "asking", "replying"}, NEW n \in 0 .. 2,
           to = "asking" => n > 0,
           pc' = [pc EXCEPT ![h] = to], queries' = [queries EXCEPT ![h] = n],
           UNCHANGED <<conns, hung>>
    PROVE  PoolInv'
<1>1. h \notin conns /\ hung \subseteq conns
  BY DEF PoolInv, PoolTypeOK, ConnectionsReturned
<1>2. Release(h)
  BY <1>1 DEF Release
<1> QED
  BY <1>2, LeaveQuery

LEMMA AcquireKeeps ==
    ASSUME PoolInv, NEW h \in Handlers, Acquire(h)
    PROVE  PoolInv'
<1>1. PoolTypeOK'
  BY DEF PoolInv, PoolTypeOK, Acquire, Goto
<1>2. conns' = {k \in Handlers : pc'[k] = "querying"}
  BY DEF PoolInv, PoolTypeOK, ConnectionsReturned, Acquire, Goto
<1>3. Cardinality(conns') <= MaxOpen
  <2>1. IsFiniteSet(conns)
    BY FS_Subset, DbPoolAssumption DEF PoolInv, PoolTypeOK
  <2>2. h \notin conns
    BY DEF PoolInv, ConnectionsReturned, Acquire, Goto
  <2>3. Cardinality(conns') = Cardinality(conns) + 1
    BY <2>1, <2>2, FS_AddElement DEF Acquire
  <2>4. Cardinality(conns) \in Nat
    BY <2>1, FS_CardinalityType
  <2> QED
    BY <2>3, <2>4, DbPoolAssumption DEF Acquire
<1>4. PendingInv'
  BY DEF PoolInv, PoolTypeOK, PendingInv, Acquire, Goto
<1> QED
  BY <1>1, <1>2, <1>3, <1>4 DEF PoolInv, ConnectionsReturned

LEMMA BeginKeeps ==
    ASSUME PoolInv, NEW h \in Handlers, Begin(h)
    PROVE  PoolInv'
<1>1. CASE Goto(h, "away", "replying") /\ UNCHANGED queries
  <2>1. queries[h] \in 0 .. 2 /\ queries' = [queries EXCEPT ![h] = queries[h]]
    BY <1>1 DEF PoolInv, PoolTypeOK
  <2>2. pc[h] # "querying" /\ pc' = [pc EXCEPT ![h] = "replying"]
    BY <1>1 DEF Goto
  <2> QED
    BY <2>1, <2>2, MoveOutside DEF Begin
<1>2. CASE Goto(h, "away", "asking") /\ \E n \in 1 .. 2 : queries' = [queries EXCEPT ![h] = n]
  <2>1. PICK n \in 1 .. 2 : queries' = [queries EXCEPT ![h] = n]
    BY <1>2
  <2>2. n \in 0 .. 2 /\ n > 0
    OBVIOUS
  <2>3. pc[h] # "querying" /\ pc' = [pc EXCEPT ![h] = "asking"]
    BY <1>2 DEF Goto
  <2> QED
    BY <2>1, <2>2, <2>3, MoveOutside DEF Begin
<1> QED
  BY <1>1, <1>2 DEF Begin

LEMMA ReplyKeeps ==
    ASSUME PoolInv, NEW h \in Handlers, Reply(h)
    PROVE  PoolInv'
<1>1. pc[h] # "querying" /\ pc' = [pc EXCEPT ![h] = "away"]
  BY DEF Reply, Goto
<1>2. 0 \in 0 .. 2 /\ queries' = [queries EXCEPT ![h] = 0]
  BY DEF Reply
<1> QED
  BY <1>1, <1>2, MoveOutside DEF Reply

\* A query ends with a reply for each reason there is, or gives way to the next.
LEMMA QueryKeeps ==
    ASSUME PoolInv, NEW h \in Handlers, Query(h)
    PROVE  PoolInv'
<1>0. queries[h] \in 0 .. 2 /\ queries = [queries EXCEPT ![h] = queries[h]]
  BY DEF PoolInv, PoolTypeOK
<1>1. CASE Acquire(h)
  BY <1>1, AcquireKeeps
<1>2. CASE DialFails(h)
  BY <1>0, <1>2, MoveOutside DEF Goto, DialFails
<1>3. CASE RowsRead(h)
  <2>1. queries[h] - 1 \in 0 .. 2
    BY <1>0, <1>3 DEF PoolInv, PendingInv, RowsRead, Goto
  <2>2. PICK to \in {"asking", "replying"} :
           Goto(h, "querying", to) /\ (to = "asking" => queries[h] - 1 > 0)
    BY <1>0, <1>3 DEF RowsRead
  <2> QED
    BY <1>3, <2>1, <2>2, LeaveQuery DEF Goto, RowsRead
<1>4. CASE QueryFails(h)
  BY <1>0, <1>4, LeaveQuery DEF Goto, QueryFails
<1>5. CASE ClientLeaves(h)
  BY <1>0, <1>5, LeaveQuery DEF Goto, ClientLeaves
<1> QED
  BY <1>1, <1>2, <1>3, <1>4, <1>5 DEF Query, Answered
-------------------------------------------------------------------------------
(***************************************************************************)
(* main                                                                    *)
(***************************************************************************)

LEMMA InitEstablishesInv == Init => Inv
<1> SUFFICES ASSUME Init PROVE Inv
  OBVIOUS
<1> USE DEF Init, PoolInit
<1>1. PoolInv
  <2>1. Cardinality({}) = 0
    BY FS_EmptySet
  <2> QED
    BY <2>1, DbPoolAssumption DEF PoolInv, PoolTypeOK, ConnectionsReturned, PendingInv
<1>2. MainTypeOK
  <2>1. defers \in Seq(Startup \cup {"stop"}) /\ phase \in Startup /\ opened \subseteq Startup
    BY DEF Startup
  <2>2. signalled \in BOOLEAN /\ serverErr \in BOOLEAN /\ warned \in BOOLEAN
    BY ZenonT(20)
  <2> QED
    BY <2>1, <2>2 DEF MainTypeOK
<1>3. DefersInv /\ StartInv /\ OpenedInv /\ QuietInv /\ FlushInv /\ ExitInv
  BY DEF DefersInv, StartInv, OpenedInv, QuietInv, FlushInv, ExitInv, CleanExitFlushes, Serving
<1> QED
  BY <1>1, <1>2, <1>3 DEF Inv

\* What holds of a process that has ended.
LEMMA ExitKeeps ==
    ASSUME Inv, NEW code \in {"0", "1", "killed"}, Exit(code),
           code = "0" => phase = "returning" /\ defers = <<>>
    PROVE  Inv'
<1>1. PoolInv'
  <2>1. Cardinality({}) = 0
    BY FS_EmptySet
  <2>2. /\ conns' = {} /\ hung' = {}
        /\ pc' = [h \in Handlers |-> "away"] /\ queries' = [h \in Handlers |-> 0]
    BY DEF Exit
  <2> QED
    BY <2>1, <2>2, DbPoolAssumption DEF PoolInv, PoolTypeOK, ConnectionsReturned, PendingInv
<1>2. MainTypeOK'
  BY DEF Inv, MainTypeOK, Exit, spanVars
<1>3. (DefersInv /\ StartInv /\ OpenedInv /\ QuietInv /\ FlushInv)'
  BY DEF DefersInv, StartInv, OpenedInv, QuietInv, FlushInv, Exit, Startup, Serving
<1>4. ExitInv'
  <2>1. code = "0" => unsent = {} \/ warned
    <3>1. Len(<<>>) = 0
      OBVIOUS
    <3> QED
      BY <3>1 DEF Inv, FlushInv
  <2> QED
    BY <2>1 DEF ExitInv, CleanExitFlushes, Exit, spanVars
<1> QED
  BY <1>1, <1>2, <1>3, <1>4 DEF Inv

LEMMA PoolStays ==
    ASSUME PoolInv, UNCHANGED poolVars
    PROVE  PoolInv'
BY DEF PoolInv, PoolTypeOK, ConnectionsReturned, PendingInv, poolVars

\* main opens one thing after the other.
LEMMA OpenKeeps ==
    ASSUME Inv, NEW resource \in Startup, NEW next,
           <<resource, next>> \in {<<"tracer", "store">>, <<"store", "cache">>,
                                   <<"cache", "producer">>, <<"producer", "listen">>},
           Open(resource, next)
    PROVE  Inv'
<1> USE DEF Open
<1>1. PoolInv'
  BY PoolStays DEF Inv
<1>2. MainTypeOK'
  <2>1. next \in Startup /\ resource \in Startup
    BY DEF Startup
  <2>2. defers' \in Seq(Startup \cup {"stop"}) /\ opened' \subseteq Startup
    BY <2>1 DEF Inv, MainTypeOK
  <2>3. phase' \in Startup /\ UNCHANGED <<signalled, serverErr, unsent, warned, exit>>
    BY <2>1 DEF spanVars
  <2> QED
    BY <2>2, <2>3 DEF Inv, MainTypeOK
<1>3. defers \in Seq(Startup \cup {"stop"})
  BY DEF Inv, MainTypeOK
<1>4. DefersInv'
  <2>1. Len(defers') > 0
    BY <1>3
  <2>2. resource # "tracer" => Len(defers) > 0 /\ defers[1] = "tracer"
    BY DEF Inv, DefersInv
  <2>3. defers'[1] = "tracer"
    <3>1. CASE resource = "tracer"
      <4>1. defers = <<>>
        BY <3>1 DEF Inv, StartInv
      <4> QED
        BY <3>1, <4>1
    <3>2. CASE resource # "tracer"
      BY <1>3, <2>2, <3>2
    <3> QED
      BY <3>1, <3>2
  <2>4. phase' \notin Serving
    BY DEF Serving
  <2> QED
    BY <2>1, <2>3, <2>4 DEF DefersInv
<1>5. OpenedInv'
  BY DEF Inv, OpenedInv, Serving, Startup
<1>6. QuietInv' /\ FlushInv'
  BY DEF Inv, QuietInv, FlushInv, Serving, Startup, poolVars
<1>7. ExitInv' /\ StartInv'
  BY DEF Inv, ExitInv, CleanExitFlushes, StartInv, spanVars, Startup
<1> QED
  BY <1>1, <1>2, <1>4, <1>5, <1>6, <1>7 DEF Inv

LEMMA ListenKeeps == ASSUME Inv, Listen PROVE Inv'
<1> USE DEF Listen
<1>1. PoolInv'
  BY PoolStays DEF Inv
<1>2. MainTypeOK'
  <2>1. defers' \in Seq(Startup \cup {"stop"})
    BY DEF Inv, MainTypeOK
  <2> QED
    BY <2>1 DEF Inv, MainTypeOK, spanVars, Serving
<1>3. DefersInv'
  <2>1. defers \in Seq(Startup \cup {"stop"}) /\ Len(defers) > 0 /\ defers[1] = "tracer"
    BY DEF Inv, MainTypeOK, DefersInv
  <2>2. Len(defers') = Len(defers) + 1 /\ defers'[1] = "tracer" /\ defers'[Len(defers) + 1] = "stop"
    BY <2>1
  <2>3. Len(defers) + 1 \in 1 .. Len(defers') /\ Len(defers') > 0
    BY <2>1, <2>2
  <2> QED
    BY <2>2, <2>3 DEF DefersInv, Registered
<1>4. StartInv' /\ OpenedInv' /\ QuietInv' /\ FlushInv' /\ ExitInv'
  BY DEF Inv, StartInv, OpenedInv, QuietInv, FlushInv, ExitInv, CleanExitFlushes, Serving, spanVars
<1> QED
  BY <1>1, <1>2, <1>3, <1>4 DEF Inv

\* Handlers work only while main serves or drains, and touch nothing of main's.
LEMMA ServingKeeps ==
    ASSUME Inv, phase \in Serving, PoolInv', UNCHANGED <<mainVars, signalled, serverErr, warned>>,
           unsent' \subseteq Handlers
    PROVE  Inv'
<1>1. MainTypeOK'
  BY DEF Inv, MainTypeOK, mainVars
<1>2. (DefersInv /\ StartInv /\ OpenedInv /\ QuietInv)'
  BY DEF Inv, DefersInv, StartInv, Registered, OpenedInv, QuietInv, mainVars
<1>3. (FlushInv /\ ExitInv)'
  <2>1. exit = "none" /\ phase # "returning"
    BY DEF Inv, ExitInv, Serving
  <2> QED
    BY <2>1 DEF Inv, FlushInv, ExitInv, CleanExitFlushes, mainVars
<1> QED
  BY <1>1, <1>2, <1>3 DEF Inv

LEMMA HandlersKeep ==
    ASSUME Inv, NEW h \in Handlers, Arrive(h) \/ Handle(h) \/ Leave(h) \/ Export(h)
    PROVE  Inv'
<1>0. PoolInv /\ unsent \subseteq Handlers
  BY DEF Inv, MainTypeOK
<1>1. CASE Arrive(h)
  BY <1>0, <1>1, BeginKeeps, ServingKeeps DEF Arrive, Serving, spanVars
<1>2. CASE Handle(h)
  BY <1>0, <1>2, QueryKeeps, ServingKeeps DEF Handle, spanVars
<1>3. CASE Leave(h)
  BY <1>0, <1>3, ReplyKeeps, ServingKeeps DEF Leave
<1>4. CASE Export(h)
  <2>1. PoolInv'
    BY <1>0, <1>4, PoolStays DEF Export
  <2>2. MainTypeOK'
    BY <1>4 DEF Inv, MainTypeOK, Export, mainVars
  <2>3. (DefersInv /\ StartInv /\ OpenedInv /\ QuietInv)'
    BY <1>4 DEF Inv, DefersInv, StartInv, Registered, OpenedInv, QuietInv, Export, mainVars, poolVars
  <2>4. (FlushInv /\ ExitInv)'
    BY <1>4 DEF Inv, FlushInv, ExitInv, CleanExitFlushes, Export, mainVars
  <2> QED
    BY <2>1, <2>2, <2>3, <2>4 DEF Inv
<1> QED
  BY <1>1, <1>2, <1>3, <1>4

\* What changes only flags of the outside world, or goes on from serving to
\* draining to returning.
LEMMA EndingKeeps ==
    ASSUME Inv, ListenFails \/ Signal \/ BeginDrain \/ Drained
    PROVE  Inv'
<1> USE DEF ListenFails, Signal, BeginDrain, Drained
<1>1. PoolInv'
  BY PoolStays DEF Inv
<1>2. UNCHANGED <<opened, defers, exit, unsent, warned>>
  BY DEF mainVars, spanVars
<1>3. phase \in Serving /\ phase' \in Serving \cup {"returning"}
  BY DEF mainVars, Serving
<1>4. MainTypeOK'
  <2>1. signalled' \in BOOLEAN
    BY ZenonT(20) DEF Inv, MainTypeOK
  <2>2. serverErr' \in BOOLEAN
    BY ZenonT(20) DEF Inv, MainTypeOK
  <2> QED
    BY <1>2, <1>3, <2>1, <2>2 DEF Inv, MainTypeOK
<1>5. Len(defers) > 0 /\ defers[1] = "tracer" /\ Registered
  BY <1>3 DEF Inv, DefersInv
<1>6. DefersInv'
  BY <1>2, <1>5 DEF DefersInv, Registered
<1>7. OpenedInv'
  BY <1>2, <1>3 DEF Inv, OpenedInv, Serving
<1>8. QuietInv'
  <2>1. CASE Drained
    BY <2>1 DEF QuietInv, InFlight, poolVars
  <2>2. CASE ListenFails \/ Signal \/ BeginDrain
    BY <2>2 DEF QuietInv, mainVars, Serving
  <2> QED
    BY <2>1, <2>2
<1>9. (StartInv /\ FlushInv /\ ExitInv)'
  <2>1. exit = "none"
    BY <1>3 DEF Inv, ExitInv, Serving
  <2> QED
    BY <1>2, <1>3, <1>5, <2>1 DEF StartInv, Serving, FlushInv, ExitInv, CleanExitFlushes
<1> QED
  BY <1>1, <1>4, <1>6, <1>7, <1>8, <1>9 DEF Inv

LEMMA NonEmptyLen ==
    ASSUME NEW S, NEW s \in Seq(S), s # <<>>
    PROVE  Len(s) = 1 \/ Len(s) > 1
<1>1. Len(s) \in Nat /\ Len(s) # 0
  OBVIOUS
<1>2. \A n \in Nat : n # 0 => (n = 1 \/ n > 1)
  OBVIOUS
<1> QED
  BY <1>1, <1>2

LEMMA RunDeferKeeps == ASSUME Inv, RunDefer PROVE Inv'
<1> USE DEF RunDefer
<1>0. defers \in Seq(Startup \cup {"stop"}) /\ defers # <<>>
  BY DEF Inv, MainTypeOK
<1>1. PoolInv'
  BY PoolStays DEF Inv
<1>2. MainTypeOK'
  <2>1. defers' \in Seq(Startup \cup {"stop"})
    BY <1>0
  <2>2. unsent' \subseteq Handlers /\ opened' \subseteq Startup
    BY DEF Inv, MainTypeOK, spanVars
  <2>3. warned' \in BOOLEAN
    BY ZenonT(20) DEF Inv, MainTypeOK, spanVars
  <2> QED
    BY <2>1, <2>2, <2>3 DEF Inv, MainTypeOK
<1>3. (DefersInv /\ StartInv /\ OpenedInv /\ QuietInv /\ ExitInv)'
  BY DEF Inv, DefersInv, StartInv, Registered, OpenedInv, QuietInv, ExitInv,
         CleanExitFlushes, Startup, Serving, poolVars
<1>4. FlushInv'
  <2>1. CASE unsent = {} \/ warned
    <3>1. unsent' = {} \/ warned'
      BY <2>1 DEF spanVars
    <3> QED
      BY <3>1 DEF FlushInv
  <2>2. CASE Len(defers) > 0 /\ defers[1] = "tracer"
    <3>1. CASE Len(defers) = 1
      BY <2>2, <3>1 DEF FlushInv
    <3>2. CASE Len(defers) > 1
      <4>1. Len(defers') > 0 /\ defers'[1] = "tracer"
        BY <1>0, <2>2, <3>2
      <4> QED
        BY <4>1 DEF FlushInv
    <3>3. Len(defers) = 1 \/ Len(defers) > 1
      BY <1>0, NonEmptyLen
    <3> QED
      BY <3>1, <3>2, <3>3
  <2> QED
    BY <2>1, <2>2 DEF Inv, FlushInv
<1> QED
  BY <1>1, <1>2, <1>3, <1>4 DEF Inv

LEMMA NextKeepsInv == Inv /\ [Next]_vars => Inv'
<1> SUFFICES ASSUME Inv, [Next]_vars PROVE Inv'
  OBVIOUS
<1>1. CASE InitTracer \/ OpenStore \/ OpenCache \/ OpenProducer
  <2>1. CASE InitTracer
    BY <2>1, OpenKeeps DEF InitTracer, Startup
  <2>2. CASE OpenStore
    BY <2>2, OpenKeeps DEF OpenStore, Startup
  <2>3. CASE OpenCache
    BY <2>3, OpenKeeps DEF OpenCache, Startup
  <2>4. CASE OpenProducer
    BY <2>4, OpenKeeps DEF OpenProducer, Startup
  <2> QED
    BY <1>1, <2>1, <2>2, <2>3, <2>4
<1>2. CASE Listen
  BY <1>2, ListenKeeps
<1>3. CASE StartFails \/ ServerFailed \/ DrainTimeout \/ Return \/ Kill
  BY <1>3, ExitKeeps DEF StartFails, ServerFailed, DrainTimeout, Return, Kill
<1>4. CASE ListenFails \/ Signal \/ BeginDrain \/ Drained
  BY <1>4, EndingKeeps
<1>5. CASE RunDefer
  BY <1>5, RunDeferKeeps
<1>6. CASE \E h \in Handlers : Arrive(h) \/ Handle(h) \/ Leave(h) \/ Export(h)
  BY <1>6, HandlersKeep
<1>7. CASE UNCHANGED vars
  <2>1. PoolInv'
    BY <1>7, PoolStays DEF Inv, vars
  <2>2. MainTypeOK'
    BY <1>7 DEF Inv, MainTypeOK, vars, mainVars, spanVars
  <2>3. (DefersInv /\ StartInv /\ OpenedInv /\ QuietInv /\ FlushInv /\ ExitInv)'
    BY <1>7 DEF Inv, DefersInv, StartInv, Registered, OpenedInv, QuietInv, FlushInv,
                ExitInv, CleanExitFlushes,
         vars, mainVars, spanVars, poolVars
  <2> QED
    BY <2>1, <2>2, <2>3 DEF Inv
<1> QED
  BY <1>1, <1>2, <1>3, <1>4, <1>5, <1>6, <1>7 DEF Next, Main

LEMMA Invariance == Spec => []Inv
BY InitEstablishesInv, NextKeepsInv, PTL DEF Spec
-------------------------------------------------------------------------------
(***************************************************************************)
(* The theorems                                                            *)
(***************************************************************************)

\* The state is always of the shape TypeOK says.
THEOREM TypeCorrect == Spec => []TypeOK
<1>1. Inv => TypeOK
  BY DEF Inv, PoolInv, MainTypeOK, TypeOK
<1> QED
  BY <1>1, Invariance, PTL

\* No way out of a query keeps its connection, for any size of the pool: the
\* deferred rows.Close and Row.Scan of internal/store/store.go.
THEOREM ConnectionsComeBack == Spec => []ConnectionsReturned
<1>1. Inv => ConnectionsReturned
  BY DEF Inv, PoolInv
<1> QED
  BY <1>1, Invariance, PTL

\* The handlers never outlive what they use, by the order of opening, draining
\* and closing in main of cmd/api/main.go.
THEOREM ResourcesOutliveHandlers == Spec => []HandlersHaveResources
<1>1. Inv => HandlersHaveResources
  BY DEF Inv, OpenedInv, QuietInv, HandlersHaveResources, InFlight
<1> QED
  BY <1>1, Invariance, PTL

\* The deferred shutdown of the tracer, the last to run, lets no process end with
\* status 0 and silently unsent spans.
THEOREM FlushBeforeExit == Spec => []CleanExitFlushes
<1>1. Inv => CleanExitFlushes
  BY DEF Inv, ExitInv
<1> QED
  BY <1>1, Invariance, PTL

\* A signal kills only a process that serves nobody: while main serves or drains,
\* the stop of NotifyContext is still deferred and has not run.
THEOREM SignalsDrain == Spec => SignalCutsNobody
<1>1. ASSUME Inv, [Next]_vars
      PROVE  [(exit = "none" /\ exit' = "killed") => InFlight = {}]_vars
  <2> SUFFICES ASSUME Next, exit = "none", exit' = "killed" PROVE InFlight = {}
    BY <1>1
  <2>1. Kill
    BY DEF Next, Main, InitTracer, OpenStore, OpenCache, OpenProducer, Open, StartFails, Listen,
         ServerFailed, BeginDrain, Drained, DrainTimeout, RunDefer, Return, ListenFails, Signal,
         Arrive, Handle, Leave, Export, Exit, mainVars
  <2>2. CASE phase \in Serving
    BY <1>1, <2>1, <2>2 DEF Inv, DefersInv, Kill
  <2>3. CASE phase \notin Serving
    BY <1>1, <2>3 DEF Inv, QuietInv, InFlight
  <2> QED
    BY <2>2, <2>3
<1> QED
  BY <1>1, Invariance, PTL DEF Spec, SignalCutsNobody
-------------------------------------------------------------------------------
(***************************************************************************)
(* main implements the life of a process that cuts off no request unless   *)
(* its deferred calls are skipped.                                         *)
(***************************************************************************)

\* What the abstract life sees of main.
lifeVars == <<LifeOfMain, InFlight>>

\* Outside the phases in which main serves no request is in flight.
LEMMA QuietOutside == Inv /\ phase \notin Serving => InFlight = {}
  BY DEF Inv, QuietInv, InFlight

\* However main ends, it breaks off, returns, or was not yet or no longer up.
LEMMA ExitSimulates ==
    ASSUME Inv, NEW code, Exit(code)
    PROVE  [Life!Next]_lifeVars
<1>1. LifeOfMain' = "down" /\ InFlight' = {}
  BY DEF Exit, LifeOfMain, InFlight
<1>2. CASE phase \in Serving
  <2>1. LifeOfMain \in {"up", "draining"}
    BY <1>2 DEF LifeOfMain, Serving
  <2>2. Life!Break
    BY <1>1, <2>1 DEF Life!Break, Life!Serving
  <2> QED
    BY <2>2 DEF Life!Next
<1>3. CASE phase = "returning"
  <2>1. LifeOfMain = "closing" /\ InFlight = {}
    BY <1>3, QuietOutside DEF LifeOfMain, Serving
  <2>2. Life!Return
    BY <1>1, <2>1 DEF Life!Return
  <2> QED
    BY <2>2 DEF Life!Next
<1>4. CASE phase \notin Serving \cup {"returning"}
  <2>1. LifeOfMain = "down" /\ InFlight = {}
    BY <1>4, QuietOutside DEF LifeOfMain, Serving
  <2> QED
    BY <1>1, <2>1 DEF lifeVars
<1> QED
  BY <1>2, <1>3, <1>4

\* Requests enter and leave, and stay in flight while they query.
LEMMA RequestSimulates ==
    ASSUME Inv, NEW h \in Handlers, Arrive(h) \/ Handle(h) \/ Leave(h)
    PROVE  [Life!Next]_lifeVars
<1>1. LifeOfMain' = LifeOfMain /\ LifeOfMain \in {"up", "draining"}
  BY DEF Arrive, Handle, Leave, mainVars, LifeOfMain, Serving
<1>2. pc \in [Handlers -> {"away", "asking", "querying", "replying"}]
  BY DEF Inv, PoolInv, PoolTypeOK
<1>3. CASE Arrive(h)
  <2>1. \E to \in {"asking", "replying"} : pc' = [pc EXCEPT ![h] = to]
    BY <1>3 DEF Arrive, Begin, Goto
  <2>2. InFlight' = InFlight \cup {h}
    BY <1>2, <2>1 DEF InFlight
  <2>3. Life!Enter(h)
    BY <1>1, <2>2 DEF Life!Enter, Life!Serving
  <2> QED
    BY <2>3 DEF Life!Next
<1>4. CASE Handle(h)
  <2>1. /\ pc[h] # "away"
        /\ \E to \in {"asking", "querying", "replying"} : pc' = [pc EXCEPT ![h] = to]
    BY <1>4 DEF Handle, Query, Acquire, DialFails, Answered, RowsRead, QueryFails,
       ClientLeaves, Goto
  <2>2. InFlight' = InFlight
    BY <1>2, <2>1 DEF InFlight
  <2> QED
    BY <1>1, <2>2 DEF lifeVars
<1>5. CASE Leave(h)
  <2>1. pc' = [pc EXCEPT ![h] = "away"]
    BY <1>5 DEF Leave, Reply, Goto
  <2>2. InFlight' = InFlight \ {h}
    BY <1>2, <2>1 DEF InFlight
  <2>3. Life!Leave(h)
    BY <1>1, <2>2 DEF Life!Leave, Life!Serving
  <2> QED
    BY <2>3 DEF Life!Next
<1> QED
  BY <1>3, <1>4, <1>5

\* The other steps of main move its life on or are invisible to it.
LEMMA MainSimulates ==
    ASSUME Inv, InitTracer \/ OpenStore \/ OpenCache \/ OpenProducer \/ Listen \/ BeginDrain
                \/ Drained \/ RunDefer
    PROVE  [Life!Next]_lifeVars
<1>1. InFlight' = InFlight
  BY DEF InitTracer, OpenStore, OpenCache, OpenProducer, Open, Listen, BeginDrain, Drained,
     RunDefer, poolVars, InFlight
<1>2. CASE InitTracer \/ OpenStore \/ OpenCache \/ OpenProducer
  <2>1. LifeOfMain' = LifeOfMain
    BY <1>2 DEF InitTracer, OpenStore, OpenCache, OpenProducer, Open, LifeOfMain
  <2> QED
    BY <1>1, <2>1 DEF lifeVars
<1>3. CASE Listen
  <2>1. LifeOfMain = "down" /\ LifeOfMain' = "up"
    BY <1>3 DEF Listen, LifeOfMain
  <2> QED
    BY <1>1, <2>1 DEF Life!Next, Life!Start
<1>4. CASE BeginDrain
  <2>1. LifeOfMain = "up" /\ LifeOfMain' = "draining"
    BY <1>4 DEF BeginDrain, LifeOfMain
  <2> QED
    BY <1>1, <2>1 DEF Life!Next, Life!Signal
<1>5. CASE Drained
  <2>1. LifeOfMain = "draining" /\ LifeOfMain' = "closing" /\ InFlight = {}
    BY <1>5 DEF Drained, LifeOfMain
  <2> QED
    BY <1>1, <2>1 DEF Life!Next, Life!Drained
<1>6. CASE RunDefer
  <2>1. LifeOfMain' = LifeOfMain
    BY <1>6 DEF RunDefer, LifeOfMain
  <2> QED
    BY <1>1, <2>1 DEF lifeVars
<1> QED
  BY <1>2, <1>3, <1>4, <1>5, <1>6

LEMMA NextSimulates == Inv /\ [Next]_vars => [Life!Next]_lifeVars
<1> SUFFICES ASSUME Inv, [Next]_vars PROVE [Life!Next]_lifeVars
  OBVIOUS
<1>1. CASE \E h \in Handlers : Arrive(h) \/ Handle(h) \/ Leave(h)
  BY <1>1, RequestSimulates
<1>2. CASE \/ InitTracer \/ OpenStore \/ OpenCache \/ OpenProducer \/ Listen \/ BeginDrain
           \/ Drained \/ RunDefer
  BY <1>2, MainSimulates
<1>3. CASE StartFails \/ ServerFailed \/ DrainTimeout \/ Return \/ Kill
  BY <1>3, ExitSimulates DEF StartFails, ServerFailed, DrainTimeout, Return, Kill
<1>4. CASE (\E h \in Handlers : Export(h)) \/ ListenFails \/ Signal \/ UNCHANGED vars
  BY <1>4 DEF Export, ListenFails, Signal, vars, mainVars, poolVars, lifeVars, LifeOfMain,
     InFlight
<1> QED
  BY <1>1, <1>2, <1>3, <1>4 DEF Next, Main

\* main implements the life: it goes on to its deferred calls only when no
\* request is left, and none is in flight while they run.
THEOREM MainLivesAProcessLife == Spec => ImplementsProcessLife
<1>1. Init => Life!Init
  BY DEF Init, PoolInit, Life!Init, LifeOfMain, InFlight
<1>2. Inv /\ [Next]_vars => [Life!Next]_(Life!vars)
  <2>1. lifeVars = Life!vars
    BY DEF lifeVars, Life!vars
  <2> QED
    BY <2>1, NextSimulates DEF lifeVars, Life!vars
<1> QED
  BY <1>1, <1>2, Invariance, PTL DEF Spec, ImplementsProcessLife, Life!Spec
===============================================================================
