-------------------------- MODULE OrderPipelineProofs --------------------------
(***************************************************************************)
(* Proofs about the api's write path by itself, then about the pipeline of *)
(* both binaries, for every set of orders, number of attempts and number   *)
(* of restarts.                                                            *)
(***************************************************************************)
EXTENDS OrderPipeline, FiniteSetTheorems, SequenceTheorems, TLAPS

(***************************************************************************)
(* The api, whose module is OrderApi: first the theorems of its Spec       *)
(***************************************************************************)

\* The life of one order in step: how far its handler, its row and its event
\* have got together.  Inductive relative to TypeOK.
OrderInv(o) ==
    /\ req[o] = "done" <=> resp[o] # "none"
    /\ req[o] \in {"idle", "checking"} => o \notin rows \cup stmts
    /\ req[o] \in {"counting", "publishing", "replying"} => o \in rows
    /\ resp[o] = "201" => o \in rows
    /\ resp[o] \in {"400", "404"} => o \notin rows \cup stmts
    /\ job[o] # "none" => /\ o \in rows
                          /\ req[o] \in {"replying", "done"}
                          /\ resp[o] \in {"none", "201", "cut"}
    /\ (o \in batch \/ wire[o] > 0 \/ o \in Logged) => job[o] # "none"
    /\ job[o] = "ok" => o \in Logged
    /\ proc = "down" => req[o] \notin Active /\ job[o] \notin Running /\ o \notin batch

OrdersInv == \A o \in Orders : OrderInv(o)

\* Appending an event adds its order to the logged ones and no other.
LEMMA LoggedAppend ==
    ASSUME NEW S, NEW s \in Seq(S), NEW e \in S
    PROVE  {Append(s, e)[i] : i \in 1 .. Len(Append(s, e))}
                = {s[i] : i \in 1 .. Len(s)} \cup {e}
<1> DEFINE t == Append(s, e)
<1>1. /\ Len(t) = Len(s) + 1
      /\ Len(s) \in Nat
      /\ \A i \in 1 .. Len(s) : t[i] = s[i]
      /\ t[Len(s) + 1] = e
    OBVIOUS
<1>2. 1 .. Len(t) = 1 .. Len(s) \cup {Len(s) + 1}
    BY <1>1
<1> HIDE DEF t
<1>3. {t[i] : i \in 1 .. Len(t)} = {s[i] : i \in 1 .. Len(s)} \cup {e}
    BY <1>1, <1>2
<1>4. QED
    BY <1>3 DEF t
-------------------------------------------------------------------------------
USE DEF Active, Serving, Running

\* Ending a goroutine keeps its state and the counters in their types.
LEMMA EndJobType ==
    ASSUME TypeOK, NEW o \in Orders, NEW outcome \in {"ok", "failed"}, EndJob(o, outcome)
    PROVE  /\ job' \in [Orders -> {"none", "ok", "failed", "killed"} \cup Running]
           /\ created' \in Nat /\ published' \in Nat /\ publishErrors' \in Nat
<1>1. job' \in [Orders -> {"none", "ok", "failed", "killed"} \cup Running]
    BY DEF EndJob, TypeOK
<1>2. CASE outcome = "ok"
    BY <1>1, <1>2 DEF EndJob, TypeOK
<1>3. CASE outcome = "failed"
    BY <1>1, <1>3 DEF EndJob, TypeOK
<1>4. QED
    BY <1>2, <1>3

\* So does the end of a batch, which may find the goroutine gone.
LEMMA FinishBatchType ==
    ASSUME TypeOK, NEW o \in Orders, NEW outcome \in {"ok", "failed"},
           FinishBatch(o, outcome)
    PROVE  TypeOK'
<1>1. /\ job' \in [Orders -> {"none", "ok", "failed", "killed"} \cup Running]
      /\ created' \in Nat /\ published' \in Nat /\ publishErrors' \in Nat
    <2>1. CASE job[o] = "writing"
        BY <2>1, EndJobType DEF FinishBatch
    <2>2. CASE job[o] # "writing"
        BY <2>2 DEF FinishBatch, TypeOK, counterVars
    <2>3. QED
        BY <2>1, <2>2
<1>2. QED
    BY <1>1 DEF FinishBatch, TypeOK, handlerVars, dbVars, brokerVars

\* Every step keeps every variable in its type.
LEMMA TypeStep == TypeOK /\ [Next]_vars => TypeOK'
<1> SUFFICES ASSUME TypeOK, [Next]_vars
             PROVE  TypeOK'
    OBVIOUS
<1> USE DEF TypeOK, counterVars, writerVars, dbVars, brokerVars, handlerVars,
            Step, Answer
<1>1. ASSUME NEW o \in Orders, Receive(o)          PROVE TypeOK'
    BY <1>1 DEF Receive
<1>2. ASSUME NEW o \in Orders, RejectProduct(o)    PROVE TypeOK'
    BY <1>2 DEF RejectProduct
<1>3. ASSUME NEW o \in Orders, SendInsert(o)       PROVE TypeOK'
    BY <1>3 DEF SendInsert
<1>4. ASSUME NEW o \in Orders, InsertDone(o)       PROVE TypeOK'
    BY <1>4 DEF InsertDone
<1>5. ASSUME NEW o \in Orders, InsertFailed(o)     PROVE TypeOK'
    BY <1>5 DEF InsertFailed
<1>6. ASSUME NEW o \in Orders, CountCreated(o)     PROVE TypeOK'
    BY <1>6 DEF CountCreated
<1>7. ASSUME NEW o \in Orders, PublishOrder(o)     PROVE TypeOK'
    <2>1. req' \in [Orders -> {"idle", "done"} \cup Active]
        BY <1>7 DEF PublishOrder
    <2>2. job' \in [Orders -> {"none", "ok", "failed", "killed"} \cup Running]
        BY <1>7 DEF PublishOrder
    <2>3. publishErrors' \in Nat
        BY <1>7 DEF PublishOrder
    <2>4. QED
        BY <1>7, <2>1, <2>2, <2>3 DEF PublishOrder
<1>8. ASSUME NEW o \in Orders, ReplyCreated(o)     PROVE TypeOK'
    BY <1>8 DEF ReplyCreated
<1>9. ASSUME NEW o \in Orders, EnterWrite(o)       PROVE TypeOK'
    <2>1. CASE EndJob(o, "failed") /\ UNCHANGED batch
        BY <1>9, <2>1, EndJobType DEF EnterWrite
    <2>2. CASE ~(EndJob(o, "failed") /\ UNCHANGED batch)
        BY <1>9, <2>2 DEF EnterWrite
    <2>3. QED
        BY <2>1, <2>2
<1>10. ASSUME NEW o \in Orders, WriteTimeout(o)    PROVE TypeOK'
    BY <1>10, EndJobType DEF WriteTimeout
<1>11. ASSUME NEW o \in Orders, SendProduce(o)     PROVE TypeOK'
    BY <1>11, OrderApiAssumption DEF SendProduce
<1>12. ASSUME NEW o \in Orders, Acknowledge(o)     PROVE TypeOK'
    BY <1>12, FinishBatchType DEF Acknowledge
<1>13. ASSUME NEW o \in Orders, GiveUp(o)          PROVE TypeOK'
    BY <1>13, FinishBatchType DEF GiveUp
<1>14. ASSUME NEW o \in Orders, DecideInsert(o)    PROVE TypeOK'
    BY <1>14 DEF DecideInsert
<1>15. ASSUME NEW o \in Orders, DeliverProduce(o)  PROVE TypeOK'
    <2>1. log' \in Seq(Orders)
        <3>1. log \in Seq(Orders) /\ Append(log, o) \in Seq(Orders)
            BY AppendProperties
        <3>2. log' \in {log, Append(log, o)}
            BY <1>15 DEF DeliverProduce
        <3>3. QED
            BY <3>1, <3>2
    <2>2. wire' \in [Orders -> Nat]
        BY <1>15 DEF DeliverProduce
    <2>3. QED
        BY <1>15, <2>1, <2>2 DEF DeliverProduce
<1>16. CASE Start
    BY <1>16 DEF Start
<1>17. CASE Signal
    BY <1>17 DEF Signal
<1>18. CASE Drained
    BY <1>18 DEF Drained
<1>19. CASE DrainTimeout \/ Exit \/ Crash
    BY <1>19 DEF DrainTimeout, Exit, Crash, Die
<1>20. CASE UNCHANGED vars
    BY <1>20 DEF vars
<1>21. QED
    BY <1>1, <1>2, <1>3, <1>4, <1>5, <1>6, <1>7, <1>8, <1>9, <1>10, <1>11, <1>12,
       <1>13, <1>14, <1>15, <1>16, <1>17, <1>18, <1>19, <1>20
       DEF Next, Handler, Publisher

\* The variables keep their types: no handler, goroutine, writer or restart
\* leaves one out of range, and no event is sent more often than MaxAttempts.
THEOREM TypeCorrect == Spec => []TypeOK
<1>1. Init => TypeOK
    BY OrderApiAssumption DEF Init, TypeOK
<1>2. QED
    BY <1>1, TypeStep, PTL DEF Spec
-------------------------------------------------------------------------------
\* Steps that leave the topic alone leave the logged orders alone.
LEMMA LoggedUnchanged == UNCHANGED log => Logged' = Logged
    BY DEF Logged

\* A produce request that is delivered adds its order at most.
LEMMA LoggedDelivered ==
    ASSUME TypeOK, NEW o \in Orders, DeliverProduce(o)
    PROVE  Logged \subseteq Logged' /\ Logged' \subseteq Logged \cup {o}
<1>1. CASE log' = log
    BY <1>1 DEF Logged
<1>2. CASE log' = Append(log, o)
    <2>1. log \in Seq(Orders)
        BY DEF TypeOK
    <2>2. Logged' = Logged \cup {o}
        BY <1>2, <2>1, LoggedAppend DEF Logged
    <2>3. QED
        BY <2>2
<1>3. QED
    BY <1>1, <1>2 DEF DeliverProduce

LEMMA OrdersInvInit == Init => OrdersInv
    BY DEF Init, OrdersInv, OrderInv, Logged

LEMMA OrdersInvStep == TypeOK /\ OrdersInv /\ [Next]_vars => OrdersInv'
<1> SUFFICES ASSUME TypeOK, OrdersInv, [Next]_vars, NEW q \in Orders
             PROVE  OrderInv(q)'
    BY DEF OrdersInv
<1> USE DEF TypeOK, OrderInv, counterVars, writerVars, dbVars, brokerVars, handlerVars,
            Step, Answer, EndJob
<1>0. OrderInv(q)
    BY DEF OrdersInv
<1>1. ASSUME NEW o \in Orders, Receive(o)
      PROVE  OrderInv(q)'
    BY <1>0, <1>1, LoggedUnchanged DEF Receive
<1>2. ASSUME NEW o \in Orders, RejectProduct(o)
      PROVE  OrderInv(q)'
    BY <1>0, <1>2, LoggedUnchanged DEF RejectProduct
<1>3. ASSUME NEW o \in Orders, SendInsert(o)
      PROVE  OrderInv(q)'
    BY <1>0, <1>3, LoggedUnchanged DEF SendInsert
<1>4. ASSUME NEW o \in Orders, InsertDone(o)
      PROVE  OrderInv(q)'
    BY <1>0, <1>4, LoggedUnchanged DEF InsertDone
<1>5. ASSUME NEW o \in Orders, InsertFailed(o)
      PROVE  OrderInv(q)'
    BY <1>0, <1>5, LoggedUnchanged DEF InsertFailed
<1>6. ASSUME NEW o \in Orders, CountCreated(o)
      PROVE  OrderInv(q)'
    BY <1>0, <1>6, LoggedUnchanged DEF CountCreated
<1>7. ASSUME NEW o \in Orders, PublishOrder(o)
      PROVE  OrderInv(q)'
    BY <1>0, <1>7, LoggedUnchanged DEF PublishOrder
<1>8. ASSUME NEW o \in Orders, ReplyCreated(o)
      PROVE  OrderInv(q)'
    BY <1>0, <1>8, LoggedUnchanged DEF ReplyCreated
<1>9. ASSUME NEW o \in Orders, EnterWrite(o)
      PROVE  OrderInv(q)'
    BY <1>0, <1>9, LoggedUnchanged DEF EnterWrite
<1>10. ASSUME NEW o \in Orders, WriteTimeout(o)
      PROVE  OrderInv(q)'
    BY <1>0, <1>10, LoggedUnchanged DEF WriteTimeout
<1>11. ASSUME NEW o \in Orders, SendProduce(o)
      PROVE  OrderInv(q)'
    BY <1>0, <1>11, LoggedUnchanged DEF SendProduce
<1>12. ASSUME NEW o \in Orders, Acknowledge(o)
      PROVE  OrderInv(q)'
    BY <1>0, <1>12, LoggedUnchanged DEF Acknowledge, FinishBatch
<1>13. ASSUME NEW o \in Orders, GiveUp(o)
      PROVE  OrderInv(q)'
    BY <1>0, <1>13, LoggedUnchanged DEF GiveUp, FinishBatch
<1>14. ASSUME NEW o \in Orders, DecideInsert(o)
      PROVE  OrderInv(q)'
    BY <1>0, <1>14, LoggedUnchanged DEF DecideInsert
<1>15. ASSUME NEW o \in Orders, DeliverProduce(o)
      PROVE  OrderInv(q)'
    BY <1>0, <1>15, LoggedDelivered DEF DeliverProduce
<1>16. CASE Start
    BY <1>0, <1>16, LoggedUnchanged DEF Start
<1>17. CASE Signal
    BY <1>0, <1>17, LoggedUnchanged DEF Signal
<1>18. CASE Drained
    BY <1>0, <1>18, LoggedUnchanged DEF Drained
<1>19. CASE DrainTimeout \/ Exit \/ Crash
    BY <1>0, <1>19, LoggedUnchanged DEF DrainTimeout, Exit, Crash, Die
<1>20. CASE UNCHANGED vars
    BY <1>0, <1>20, LoggedUnchanged DEF vars
<1>21. QED
    BY <1>1, <1>2, <1>3, <1>4, <1>5, <1>6, <1>7, <1>8, <1>9, <1>10, <1>11, <1>12,
       <1>13, <1>14, <1>15, <1>16, <1>17, <1>18, <1>19, <1>20
       DEF Next, Handler, Publisher

\* Every order's handler, row and event stay in step.
LEMMA OrdersInvariant == Spec => []OrdersInv
<1>1. QED
    BY TypeCorrect, OrdersInvInit, OrdersInvStep, PTL DEF Spec

\* Whatever crashes, is retried or arrives late, an event is of a committed row.
THEOREM EventsHaveRows == Spec => []EventHasRow
<1>1. OrdersInv => EventHasRow
    BY DEF OrdersInv, OrderInv, EventHasRow, Running
<1>2. QED
    BY <1>1, OrdersInvariant, PTL

\* What clients were told agrees with the table for good.
THEOREM AnswersMatchTable == Spec => []AnswerMatchesTable
<1>1. OrdersInv => AnswerMatchesTable
    BY DEF OrdersInv, OrderInv, AnswerMatchesTable
<1>2. QED
    BY <1>1, OrdersInvariant, PTL

\* A request that got as far as publishing is never answered with an error.
THEOREM PublishingFailsNoRequest == Spec => []PublishNeverFailsRequest
<1>1. OrdersInv => PublishNeverFailsRequest
    BY DEF OrdersInv, OrderInv, PublishNeverFailsRequest
<1>2. QED
    BY <1>1, OrdersInvariant, PTL
-------------------------------------------------------------------------------
(***************************************************************************)
(* The life of the process.  The abstract one cannot end from "closing"    *)
(* with a request in flight, so the guard of the drain has to have lasted: *)
(* no handler starts once srv.Shutdown has returned.                       *)
(***************************************************************************)

QuietInv == proc = "closing" => InHandlers = {}

lifeVars == <<proc, InHandlers>>

\* A request enters a handler, moves on inside it, or leaves it.
LEMMA HandlerSteps ==
    ASSUME TypeOK, NEW o \in Orders, Receive(o) \/ Handler(o)
    PROVE  /\ proc \in Serving /\ proc' = proc
           /\ InHandlers' \in {InHandlers, InHandlers \cup {o}, InHandlers \ {o}}
<1>1. proc \in Serving /\ proc' = proc
    BY DEF Receive, Handler, RejectProduct, SendInsert, InsertDone, InsertFailed,
       CountCreated, PublishOrder, ReplyCreated, Answer, Step
<1>2. \E to \in Active \cup {"done"} : req' = [req EXCEPT ![o] = to]
    BY DEF Receive, Handler, RejectProduct, SendInsert, InsertDone, InsertFailed,
       CountCreated, PublishOrder, ReplyCreated, Answer, Step, Active
<1>3. ASSUME NEW to \in Active, req' = [req EXCEPT ![o] = to]
      PROVE  InHandlers' = InHandlers \cup {o}
    BY <1>3 DEF TypeOK, InHandlers
<1>4. ASSUME req' = [req EXCEPT ![o] = "done"]
      PROVE  InHandlers' = InHandlers \ {o}
    BY <1>4 DEF TypeOK, InHandlers, Active
<1>5. QED
    BY <1>1, <1>2, <1>3, <1>4

\* Goroutines, the writer, the database and the broker touch no handler.
LEMMA OtherSteps ==
    ASSUME NEW o \in Orders, Publisher(o) \/ DecideInsert(o) \/ DeliverProduce(o)
    PROVE  UNCHANGED lifeVars
    BY DEF Publisher, EnterWrite, WriteTimeout, SendProduce, Acknowledge, GiveUp,
       FinishBatch, DecideInsert, DeliverProduce, handlerVars, lifeVars, InHandlers

\* Whatever ends the process leaves no handler.
LEMMA DeathEndsHandlers == Die => proc' = "down" /\ InHandlers' = {}
    BY DEF Die, InHandlers, Active

LEMMA QuietStep == TypeOK /\ QuietInv /\ [Next]_vars => QuietInv'
<1> SUFFICES ASSUME TypeOK, QuietInv, [Next]_vars PROVE QuietInv'
    OBVIOUS
<1>1. ASSUME NEW o \in Orders, Receive(o) \/ Handler(o)
      PROVE  QuietInv'
    BY <1>1, HandlerSteps DEF QuietInv, Serving
<1>2. ASSUME NEW o \in Orders, Publisher(o) \/ DecideInsert(o) \/ DeliverProduce(o)
      PROVE  QuietInv'
    BY <1>2, OtherSteps DEF QuietInv, lifeVars
<1>3. CASE Start \/ Signal
    BY <1>3 DEF Start, Signal, QuietInv
<1>4. CASE Drained
    BY <1>4 DEF Drained, QuietInv, InHandlers, handlerVars
<1>5. CASE DrainTimeout \/ Exit \/ Crash
    BY <1>5, DeathEndsHandlers DEF DrainTimeout, Exit, Crash, QuietInv
<1>6. CASE UNCHANGED vars
    BY <1>6 DEF vars, handlerVars, QuietInv, InHandlers
<1>7. QED
    BY <1>1, <1>2, <1>3, <1>4, <1>5, <1>6 DEF Next

\* The end of the process is a return if the drain was over, else it breaks off.
LEMMA DeathSimulates == TypeOK /\ QuietInv /\ Die /\ proc # "down" => Life!Next
<1> SUFFICES ASSUME TypeOK, QuietInv, Die, proc # "down" PROVE Life!Next
    OBVIOUS
<1>1. proc' = "down" /\ InHandlers' = {}
    BY DeathEndsHandlers
<1>2. CASE proc = "closing"
    <2>1. Life!Return
        BY <1>1, <1>2 DEF Life!Return, QuietInv
    <2>2. QED
        BY <2>1 DEF Life!Next
<1>3. CASE proc \in Serving
    <2>1. Life!Break
        BY <1>1, <1>3 DEF Life!Break, Life!Serving, Serving
    <2>2. QED
        BY <2>1 DEF Life!Next
<1>4. QED
    BY <1>2, <1>3 DEF TypeOK, Serving

\* Every step of the api is one of the process life, or invisible to it.
LEMMA LifeStep == TypeOK /\ QuietInv /\ [Next]_vars => [Life!Next]_lifeVars
<1> SUFFICES ASSUME TypeOK, QuietInv, [Next]_vars PROVE [Life!Next]_lifeVars
    OBVIOUS
<1>1. ASSUME NEW o \in Orders, Receive(o) \/ Handler(o)
      PROVE  [Life!Next]_lifeVars
    <2>1. /\ proc \in Serving /\ proc' = proc
          /\ InHandlers' \in {InHandlers, InHandlers \cup {o}, InHandlers \ {o}}
        BY <1>1, HandlerSteps
    <2>2. Life!Enter(o) \/ Life!Leave(o) \/ UNCHANGED lifeVars
        BY <2>1 DEF Life!Enter, Life!Leave, Life!Serving, Serving, lifeVars
    <2>3. QED
        BY <2>2 DEF Life!Next
<1>2. ASSUME NEW o \in Orders, Publisher(o) \/ DecideInsert(o) \/ DeliverProduce(o)
      PROVE  [Life!Next]_lifeVars
    BY <1>2, OtherSteps
<1>3. CASE Start
    BY <1>3 DEF Start, handlerVars, InHandlers, Life!Next, Life!Start
<1>4. CASE Signal
    BY <1>4 DEF Signal, handlerVars, InHandlers, Life!Next, Life!Signal
<1>5. CASE Drained
    BY <1>5 DEF Drained, handlerVars, InHandlers, Life!Next, Life!Drained
<1>6. CASE DrainTimeout \/ Exit \/ Crash
    BY <1>6, DeathSimulates DEF DrainTimeout, Exit, Crash
<1>7. CASE UNCHANGED vars
    BY <1>7 DEF vars, handlerVars, lifeVars, InHandlers
<1>8. QED
    BY <1>1, <1>2, <1>3, <1>4, <1>5, <1>6, <1>7 DEF Next

\* The api implements the process life for its orders: producer.Close and the
\* other deferred calls never run beside a handler that may still publish.
THEOREM ApiLivesAProcessLife == Spec => ImplementsProcessLife
<1>1. Init => QuietInv /\ Life!Init
    BY DEF Init, QuietInv, InHandlers, Active, Life!Init
<1>2. TypeOK /\ QuietInv /\ [Next]_vars => [Life!Next]_(Life!vars)
    <2>1. lifeVars = Life!vars
        BY DEF lifeVars, Life!vars
    <2>2. QED
        BY <2>1, LifeStep DEF lifeVars, Life!vars
<1>3. QED
    BY <1>1, <1>2, TypeCorrect, QuietStep, PTL DEF Spec, ImplementsProcessLife, Life!Spec
-------------------------------------------------------------------------------
(***************************************************************************)
(* The counters.  Each of them is a number the program increments, each    *)
(* increment has to be matched with the one order that left or joined the  *)
(* set of orders still to be settled.                                      *)
(***************************************************************************)

\* One order joins a set of orders, leaves it, or nothing happens.
LEMMA CountedSet ==
    ASSUME NEW S \in SUBSET Orders, NEW o \in Orders
    PROVE  /\ Cardinality(S) \in Nat
           /\ o \notin S => Cardinality(S \cup {o}) = Cardinality(S) + 1
           /\ o \in S => Cardinality(S \ {o}) = Cardinality(S) - 1
<1>1. IsFiniteSet(S)
    BY OrderApiAssumption, FS_Subset
<1>2. QED
    BY <1>1, FS_CardinalityType, FS_AddElement, FS_RemoveElement

\* While no process runs nothing is left to be settled, so the counters of the
\* next one start out balanced.
LEMMA AccountingAtStart == TypeOK /\ OrdersInv /\ Start => PublishAccounting'
<1> SUFFICES ASSUME TypeOK, OrdersInv, Start
             PROVE  PublishAccounting'
    OBVIOUS
<1>1. Unsettled' = {}
    BY DEF Start, OrdersInv, OrderInv, Unsettled, handlerVars, writerVars
<1>2. Cardinality({}) = 0
    BY FS_EmptySet
<1>3. QED
    BY <1>1, <1>2 DEF Start, PublishAccounting

\* A goroutine that ends settles its own order, and counts it once.
LEMMA AccountingAtEndJob ==
    ASSUME TypeOK, OrdersInv, PublishAccounting, proc # "down",
           NEW o \in Orders, NEW outcome \in {"ok", "failed"},
           job[o] \in Running, EndJob(o, outcome), UNCHANGED <<proc, handlerVars>>
    PROVE  PublishAccounting'
<1>1. req[o] # "publishing"
    BY DEF OrdersInv, OrderInv
<1>2. o \in Unsettled
    BY DEF Unsettled
<1>3. Unsettled' = Unsettled \ {o}
    BY <1>1 DEF Unsettled, EndJob, TypeOK, handlerVars
<1>4. Cardinality(Unsettled') = Cardinality(Unsettled) - 1 /\ Cardinality(Unsettled) \in Nat
    BY <1>2, <1>3, CountedSet, Unsettled \in SUBSET Orders DEF Unsettled
<1>5. created' = created /\ created \in Nat /\ published \in Nat /\ publishErrors \in Nat
    BY DEF EndJob, TypeOK
<1>6. created = published + publishErrors + Cardinality(Unsettled)
    BY DEF PublishAccounting
<1>7. CASE outcome = "ok"
    <2>1. published' = published + 1 /\ publishErrors' = publishErrors
        BY <1>7, <1>5 DEF EndJob
    <2>2. created' = published' + publishErrors' + Cardinality(Unsettled')
        BY <1>4, <1>5, <1>6, <2>1
    <2>3. QED
        BY <2>2 DEF PublishAccounting
<1>8. CASE outcome = "failed"
    <2>1. published' = published /\ publishErrors' = publishErrors + 1
        BY <1>8, <1>5 DEF EndJob
    <2>2. created' = published' + publishErrors' + Cardinality(Unsettled')
        BY <1>4, <1>5, <1>6, <2>1
    <2>3. QED
        BY <2>2 DEF PublishAccounting
<1>9. QED
    BY <1>7, <1>8

\* A step that settles nothing and counts nothing keeps the balance.
LEMMA AccountingUnmoved ==
    ASSUME PublishAccounting, Unsettled' = Unsettled, UNCHANGED counterVars,
           proc' # "down" => proc # "down"
    PROVE  PublishAccounting'
    BY DEF PublishAccounting, counterVars

LEMMA AccountingStep ==
    TypeOK /\ OrdersInv /\ PublishAccounting /\ [Next]_vars => PublishAccounting'
<1> SUFFICES ASSUME TypeOK, OrdersInv, PublishAccounting, [Next]_vars
             PROVE  PublishAccounting'
    OBVIOUS
<1> USE DEF counterVars, writerVars, dbVars, brokerVars, handlerVars, Step, Answer
<1>1. ASSUME NEW o \in Orders, Receive(o)
      PROVE  PublishAccounting'
    BY <1>1, AccountingUnmoved DEF Receive, Unsettled, TypeOK
<1>2. ASSUME NEW o \in Orders, RejectProduct(o)
      PROVE  PublishAccounting'
    BY <1>2, AccountingUnmoved DEF RejectProduct, Unsettled, TypeOK
<1>3. ASSUME NEW o \in Orders, SendInsert(o)
      PROVE  PublishAccounting'
    BY <1>3, AccountingUnmoved DEF SendInsert, Unsettled, TypeOK
<1>4. ASSUME NEW o \in Orders, InsertDone(o)
      PROVE  PublishAccounting'
    BY <1>4, AccountingUnmoved DEF InsertDone, Unsettled, TypeOK
<1>5. ASSUME NEW o \in Orders, InsertFailed(o)
      PROVE  PublishAccounting'
    BY <1>5, AccountingUnmoved DEF InsertFailed, Unsettled, TypeOK
<1>6. ASSUME NEW o \in Orders, CountCreated(o)
      PROVE  PublishAccounting'
    <2>1. proc # "down" /\ o \notin Unsettled /\ Unsettled' = Unsettled \cup {o}
        BY <1>6 DEF CountCreated, Unsettled, TypeOK, OrdersInv, OrderInv
    <2>2. Cardinality(Unsettled') = Cardinality(Unsettled) + 1 /\ Cardinality(Unsettled) \in Nat
        BY <2>1, CountedSet, Unsettled \in SUBSET Orders DEF Unsettled
    <2>3. created' = created + 1 /\ published' = published /\ publishErrors' = publishErrors
        BY <1>6 DEF CountCreated
    <2>4. QED
        BY <2>1, <2>2, <2>3 DEF PublishAccounting, TypeOK
<1>7. ASSUME NEW o \in Orders, PublishOrder(o)
      PROVE  PublishAccounting'
    <2>1. job[o] = "none" /\ o \in Unsettled /\ proc # "down"
        BY <1>7 DEF PublishOrder, Unsettled, TypeOK, OrdersInv, OrderInv
    <2>2. CASE producer = "disabled"
        <3>1. Unsettled' = Unsettled \ {o}
            BY <1>7, <2>1, <2>2 DEF PublishOrder, Unsettled, TypeOK
        <3>2. Cardinality(Unsettled') = Cardinality(Unsettled) - 1 /\ Cardinality(Unsettled) \in Nat
            BY <2>1, <3>1, CountedSet, Unsettled \in SUBSET Orders DEF Unsettled
        <3>3. publishErrors' = publishErrors + 1 /\ created' = created /\ published' = published
            BY <1>7, <2>2 DEF PublishOrder
        <3>4. QED
            BY <2>1, <3>2, <3>3 DEF PublishAccounting, TypeOK
    <2>3. CASE producer = "enabled"
        <3>1. Unsettled' = Unsettled
            BY <1>7, <2>1, <2>3 DEF PublishOrder, Unsettled, TypeOK
        <3>2. QED
            BY <1>7, <2>1, <2>3, <3>1, AccountingUnmoved DEF PublishOrder
    <2>4. QED
        BY <2>2, <2>3 DEF TypeOK
<1>8. ASSUME NEW o \in Orders, ReplyCreated(o)
      PROVE  PublishAccounting'
    BY <1>8, AccountingUnmoved DEF ReplyCreated, Unsettled, TypeOK
<1>9. ASSUME NEW o \in Orders, EnterWrite(o)
      PROVE  PublishAccounting'
    <2>1. CASE EndJob(o, "failed")
        BY <1>9, <2>1, AccountingAtEndJob DEF EnterWrite
    <2>2. CASE ~EndJob(o, "failed")
        <3>1. Unsettled' = Unsettled
            BY <1>9, <2>2 DEF EnterWrite, Unsettled, TypeOK
        <3>2. QED
            BY <1>9, <2>2, <3>1, AccountingUnmoved DEF EnterWrite
    <2>3. QED
        BY <2>1, <2>2
<1>10. ASSUME NEW o \in Orders, WriteTimeout(o)
       PROVE  PublishAccounting'
    BY <1>10, AccountingAtEndJob DEF WriteTimeout
<1>11. ASSUME NEW o \in Orders, SendProduce(o)
       PROVE  PublishAccounting'
    BY <1>11, AccountingUnmoved DEF SendProduce, Unsettled, TypeOK
<1>12. ASSUME NEW o \in Orders, NEW outcome \in {"ok", "failed"}, FinishBatch(o, outcome)
       PROVE  PublishAccounting'
    <2>1. CASE job[o] = "writing"
        BY <1>12, <2>1, AccountingAtEndJob DEF FinishBatch
    <2>2. CASE job[o] # "writing"
        BY <1>12, <2>2, AccountingUnmoved DEF FinishBatch, Unsettled
    <2>3. QED
        BY <2>1, <2>2
<1>13. ASSUME NEW o \in Orders, DecideInsert(o)
       PROVE  PublishAccounting'
    BY <1>13, AccountingUnmoved DEF DecideInsert, Unsettled
<1>14. ASSUME NEW o \in Orders, DeliverProduce(o)
       PROVE  PublishAccounting'
    BY <1>14, AccountingUnmoved DEF DeliverProduce, Unsettled
<1>15. CASE Start
    BY <1>15, AccountingAtStart
<1>16. CASE Signal
    BY <1>16, AccountingUnmoved DEF Signal, Unsettled
<1>17. CASE Drained
    BY <1>17, AccountingUnmoved DEF Drained, Unsettled
<1>18. CASE DrainTimeout \/ Exit \/ Crash
    BY <1>18 DEF DrainTimeout, Exit, Crash, Die, PublishAccounting
<1>19. CASE UNCHANGED vars
    BY <1>19, AccountingUnmoved DEF vars, Unsettled
<1>20. QED
    BY <1>1, <1>2, <1>3, <1>4, <1>5, <1>6, <1>7, <1>8, <1>9, <1>10, <1>11, <1>12,
       <1>13, <1>14, <1>15, <1>16, <1>17, <1>18, <1>19
       DEF Next, Handler, Publisher, Acknowledge, GiveUp

\* The three order counters of a running process always balance.
THEOREM CountersBalance == Spec => []PublishAccounting
<1>1. Init => PublishAccounting
    BY DEF Init, PublishAccounting
<1>2. QED
    BY <1>1, TypeCorrect, OrdersInvariant, AccountingStep, PTL DEF Spec
-------------------------------------------------------------------------------
\* The orders whose success the present process or an earlier one counted.
Succeeded == {o \in Orders : job[o] = "ok"}

\* No success is counted but that of a goroutine which has ended with it.
PublishedInv == proc # "down" => published <= Cardinality(Succeeded)

LEMMA PublishedUnmoved ==
    ASSUME PublishedInv, Succeeded' = Succeeded, UNCHANGED published,
           proc' # "down" => proc # "down"
    PROVE  PublishedInv'
    BY DEF PublishedInv

LEMMA PublishedAtEndJob ==
    ASSUME TypeOK, PublishedInv, proc # "down",
           NEW o \in Orders, NEW outcome \in {"ok", "failed"},
           job[o] \in Running, EndJob(o, outcome), UNCHANGED proc
    PROVE  PublishedInv'
<1>1. CASE outcome = "ok"
    <2>1. o \notin Succeeded /\ Succeeded' = Succeeded \cup {o}
        BY <1>1 DEF Succeeded, EndJob, TypeOK
    <2>2. Cardinality(Succeeded') = Cardinality(Succeeded) + 1 /\ Cardinality(Succeeded) \in Nat
        BY <2>1, CountedSet, Succeeded \in SUBSET Orders DEF Succeeded
    <2>3. published' = published + 1 /\ published \in Nat
        BY <1>1 DEF EndJob, TypeOK
    <2>4. QED
        BY <2>2, <2>3 DEF PublishedInv
<1>2. CASE outcome = "failed"
    <2>1. Succeeded' = Succeeded
        BY <1>2 DEF Succeeded, EndJob, TypeOK
    <2>2. published' = published
        BY <1>2 DEF EndJob, TypeOK
    <2>3. QED
        BY <2>1, <2>2 DEF PublishedInv
<1>3. QED
    BY <1>1, <1>2

LEMMA PublishedStep == TypeOK /\ OrdersInv /\ PublishedInv /\ [Next]_vars => PublishedInv'
<1> SUFFICES ASSUME TypeOK, OrdersInv, PublishedInv, [Next]_vars
             PROVE  PublishedInv'
    OBVIOUS
<1> USE DEF counterVars, writerVars, dbVars, brokerVars, handlerVars, Step, Answer
<1>1. ASSUME NEW o \in Orders, Receive(o)
      PROVE  PublishedInv'
    BY <1>1, PublishedUnmoved DEF Receive, Succeeded
<1>2. ASSUME NEW o \in Orders, RejectProduct(o)
      PROVE  PublishedInv'
    BY <1>2, PublishedUnmoved DEF RejectProduct, Succeeded
<1>3. ASSUME NEW o \in Orders, SendInsert(o)
      PROVE  PublishedInv'
    BY <1>3, PublishedUnmoved DEF SendInsert, Succeeded
<1>4. ASSUME NEW o \in Orders, InsertDone(o)
      PROVE  PublishedInv'
    BY <1>4, PublishedUnmoved DEF InsertDone, Succeeded
<1>5. ASSUME NEW o \in Orders, InsertFailed(o)
      PROVE  PublishedInv'
    BY <1>5, PublishedUnmoved DEF InsertFailed, Succeeded
<1>6. ASSUME NEW o \in Orders, CountCreated(o)
      PROVE  PublishedInv'
    BY <1>6, PublishedUnmoved DEF CountCreated, Succeeded
<1>7. ASSUME NEW o \in Orders, ReplyCreated(o)
      PROVE  PublishedInv'
    BY <1>7, PublishedUnmoved DEF ReplyCreated, Succeeded
<1>8. ASSUME NEW o \in Orders, SendProduce(o)
      PROVE  PublishedInv'
    BY <1>8, PublishedUnmoved DEF SendProduce, Succeeded
<1>9. ASSUME NEW o \in Orders, DecideInsert(o)
      PROVE  PublishedInv'
    BY <1>9, PublishedUnmoved DEF DecideInsert, Succeeded
<1>10. ASSUME NEW o \in Orders, DeliverProduce(o)
      PROVE  PublishedInv'
    BY <1>10, PublishedUnmoved DEF DeliverProduce, Succeeded
<1>11. ASSUME NEW o \in Orders, PublishOrder(o)
       PROVE  PublishedInv'
    <2>1. job[o] = "none" /\ job' \in {[job EXCEPT ![o] = j] : j \in {"failed", "spawned"}}
        BY <1>11 DEF PublishOrder, OrdersInv, OrderInv, TypeOK
    <2>2. Succeeded' = Succeeded
        BY <2>1 DEF Succeeded, TypeOK
    <2>3. QED
        BY <1>11, <2>2, PublishedUnmoved DEF PublishOrder
<1>12. ASSUME NEW o \in Orders, EnterWrite(o)
       PROVE  PublishedInv'
    <2>1. CASE EndJob(o, "failed")
        BY <1>12, <2>1, PublishedAtEndJob DEF EnterWrite
    <2>2. CASE ~EndJob(o, "failed")
        <3>1. Succeeded' = Succeeded
            BY <1>12, <2>2 DEF EnterWrite, Succeeded, TypeOK
        <3>2. QED
            BY <1>12, <2>2, <3>1, PublishedUnmoved DEF EnterWrite
    <2>3. QED
        BY <2>1, <2>2
<1>13. ASSUME NEW o \in Orders, WriteTimeout(o)
       PROVE  PublishedInv'
    BY <1>13, PublishedAtEndJob DEF WriteTimeout
<1>14. ASSUME NEW o \in Orders, NEW outcome \in {"ok", "failed"}, FinishBatch(o, outcome)
       PROVE  PublishedInv'
    <2>1. CASE job[o] = "writing"
        BY <1>14, <2>1, PublishedAtEndJob DEF FinishBatch
    <2>2. CASE job[o] # "writing"
        BY <1>14, <2>2, PublishedUnmoved DEF FinishBatch, Succeeded
    <2>3. QED
        BY <2>1, <2>2
<1>15. CASE Start
    <2>1. published' = 0
        BY <1>15 DEF Start
    <2>2. Succeeded' \in SUBSET Orders
        BY DEF Succeeded
    <2>3. Cardinality(Succeeded') \in Nat
        BY <2>2, OrderApiAssumption, FS_Subset, FS_CardinalityType
    <2>4. QED
        BY <2>1, <2>3 DEF PublishedInv
<1>16. CASE Signal \/ Drained
    BY <1>16, PublishedUnmoved DEF Signal, Drained, Succeeded
<1>17. CASE DrainTimeout \/ Exit \/ Crash
    BY <1>17 DEF DrainTimeout, Exit, Crash, Die, PublishedInv
<1>18. CASE UNCHANGED vars
    BY <1>18, PublishedUnmoved DEF vars, Succeeded
<1>19. QED
    BY <1>1, <1>2, <1>3, <1>4, <1>5, <1>6, <1>7, <1>8, <1>9, <1>10, <1>11, <1>12,
       <1>13, <1>14, <1>15, <1>16, <1>17, <1>18
       DEF Next, Handler, Publisher, Acknowledge, GiveUp

\* orders_published_total never overstates what is in the topic.
THEOREM PublishedNeverOverstated == Spec => []PublishedIsLogged
<1>1. Init => PublishedInv
    BY DEF Init, PublishedInv
<1>2. TypeOK /\ OrdersInv /\ PublishedInv => PublishedIsLogged
    <2> SUFFICES ASSUME TypeOK, OrdersInv, PublishedInv, proc # "down"
                 PROVE  published <= Cardinality(Logged)
        BY DEF PublishedIsLogged
    <2>1. Succeeded \subseteq Logged
        BY DEF OrdersInv, OrderInv, Succeeded
    <2>2. Logged \in SUBSET Orders
        BY DEF TypeOK, Logged
    <2>3. IsFiniteSet(Logged)
        BY <2>2, OrderApiAssumption, FS_Subset
    <2>4. Cardinality(Succeeded) <= Cardinality(Logged)
        BY <2>1, <2>3, FS_Subset
    <2>5. /\ Cardinality(Succeeded) \in Nat
          /\ Cardinality(Logged) \in Nat
        BY <2>1, <2>3, FS_Subset, FS_CardinalityType
    <2>6. published <= Cardinality(Succeeded) /\ published \in Nat
        BY DEF PublishedInv, TypeOK
    <2>7. QED
        BY <2>4, <2>5, <2>6
<1>3. QED
    BY <1>1, <1>2, TypeCorrect, OrdersInvariant, PublishedStep, PTL DEF Spec

-------------------------------------------------------------------------------
(***************************************************************************)
(* The pipeline of both binaries                                           *)
(***************************************************************************)

\* The theorems about the consumer, in the pipeline's terms.
ConsumerFacts == INSTANCE OrderConsumerProofs WITH
                    Events <- Orders, MaxLog <- MaxAttempts * Cardinality(Orders)

\* The invariants of the two components, side by side.
PipelineInv ==
    /\ TypeOK
    /\ OrdersInv
    /\ ConsumerFacts!TypeOK
    /\ ConsumerFacts!ConsumerInv

\* The constants the consumer is given satisfy what it assumes of them.
LEMMA ConsumerConstants ==
    /\ MaxAttempts * Cardinality(Orders) \in Nat
    /\ MaxStarts \in Nat
<1>1. Cardinality(Orders) \in Nat
    BY OrderApiAssumption, FS_CardinalityType
<1>2. MaxAttempts \in Nat
    BY OrderApiAssumption
<1>3. QED
    BY <1>1, <1>2, OrderPipelineAssumption

\* The consumer of the composition and the one of the theorems are the same.
LEMMA SameConsumer ==
    /\ Consumer!Init <=> ConsumerFacts!Init
    /\ Consumer!Step <=> ConsumerFacts!Step
<1>1. Consumer!Init <=> ConsumerFacts!Init
    BY DEF Consumer!Init, ConsumerFacts!Init
<1>2. Consumer!Step <=> ConsumerFacts!Step
    BY DEF Consumer!Step, ConsumerFacts!Step, Consumer!Loop, ConsumerFacts!Loop,
       Consumer!StartConsumer, ConsumerFacts!StartConsumer,
       Consumer!Fetch, ConsumerFacts!Fetch,
       Consumer!CommitOffset, ConsumerFacts!CommitOffset,
       Consumer!ReturnMessage, ConsumerFacts!ReturnMessage,
       Consumer!Process, ConsumerFacts!Process,
       Consumer!ReadFails, ConsumerFacts!ReadFails,
       Consumer!SignalConsumer, ConsumerFacts!SignalConsumer,
       Consumer!LoopEnds, ConsumerFacts!LoopEnds,
       Consumer!ExitConsumer, ConsumerFacts!ExitConsumer,
       Consumer!CrashConsumer, ConsumerFacts!CrashConsumer,
       Consumer!Die, ConsumerFacts!Die,
       Consumer!readerVars, ConsumerFacts!readerVars,
       Consumer!processVars, ConsumerFacts!processVars,
       Consumer!InReadMessage, ConsumerFacts!InReadMessage
<1>3. QED
    BY <1>1, <1>2

\* The api sees the consumer as stuttering.
LEMMA ApiView == PipelineNext \/ UNCHANGED pipelineVars => [Next]_vars
<1>1. Consumer!Step => UNCHANGED log
    BY DEF Consumer!Step, Consumer!Loop, Consumer!StartConsumer, Consumer!Fetch,
       Consumer!CommitOffset, Consumer!ReturnMessage, Consumer!Process,
       Consumer!ReadFails, Consumer!SignalConsumer, Consumer!LoopEnds,
       Consumer!ExitConsumer, Consumer!CrashConsumer, Consumer!Die
<1>2. Consumer!Step /\ UNCHANGED apiVars => UNCHANGED vars
    BY <1>1 DEF apiVars, vars, brokerVars
<1>3. UNCHANGED pipelineVars => UNCHANGED vars
    BY DEF pipelineVars, apiVars, vars, brokerVars
<1>4. QED
    BY <1>2, <1>3 DEF PipelineNext

\* The topic only grows, and only by events of orders.
LEMMA TopicGrows ==
    ASSUME TypeOK, [Next]_vars
    PROVE  /\ log' \in Seq(Orders)
           /\ Len(log') \in Nat
           /\ Len(log) <= Len(log')
<1>1. log' = log \/ \E o \in Orders : log' = Append(log, o)
    BY DEF Next, Handler, Publisher, vars, brokerVars, Receive, RejectProduct, SendInsert,
       InsertDone, InsertFailed, CountCreated, PublishOrder, ReplyCreated, EnterWrite,
       WriteTimeout, SendProduce, Acknowledge, GiveUp, FinishBatch, DecideInsert,
       DeliverProduce, Start, Signal, Drained, DrainTimeout, Exit, Crash, Die
<1>2. log \in Seq(Orders)
    BY DEF TypeOK
<1>3. CASE log' = log
    BY <1>2, <1>3
<1>4. ASSUME NEW o \in Orders, log' = Append(log, o)
      PROVE  log' \in Seq(Orders) /\ Len(log') = Len(log) + 1
    BY <1>2, <1>4
<1>5. Len(log) \in Nat
    BY <1>2
<1>6. QED
    BY <1>1, <1>3, <1>4, <1>5

LEMMA PipelineInvInit == PipelineInit => PipelineInv
<1>1. ConsumerFacts!Init => ConsumerFacts!TypeOK
    BY DEF ConsumerFacts!Init, ConsumerFacts!TypeOK, ConsumerFacts!Phases
<1>2. Init => TypeOK
    BY OrderApiAssumption DEF Init, TypeOK
<1>3. QED
    BY <1>1, <1>2, SameConsumer, ConsumerConstants, OrdersInvInit, ConsumerFacts!ConsumerInvInit
       DEF PipelineInit, PipelineInv

LEMMA PipelineInvStep == PipelineInv /\ [PipelineNext]_pipelineVars => PipelineInv'
<1> SUFFICES ASSUME PipelineInv, [PipelineNext]_pipelineVars
             PROVE  PipelineInv'
    OBVIOUS
<1>1. [Next]_vars
    BY ApiView
<1>2. TypeOK' /\ OrdersInv'
    BY <1>1, TypeStep, OrdersInvStep DEF PipelineInv
<1>3. CASE Consumer!Step
    BY <1>2, <1>3, SameConsumer, ConsumerConstants, ConsumerFacts!ConsumerTypeStep,
       ConsumerFacts!ConsumerInvStep DEF PipelineInv
<1>4. CASE UNCHANGED consumerVars
    <2>1. UNCHANGED <<committed, handled, ConsumerFacts!readerVars, ConsumerFacts!processVars>>
        BY <1>4 DEF consumerVars, ConsumerFacts!readerVars, ConsumerFacts!processVars
    <2>2. Len(log') \in Nat /\ Len(log) <= Len(log') /\ log' \in Seq(Orders)
        BY <1>1, TopicGrows DEF PipelineInv
    <2>3. ConsumerFacts!TypeOK'
        BY <1>4, <2>2 DEF PipelineInv, ConsumerFacts!TypeOK, consumerVars
    <2>4. ConsumerFacts!ConsumerInv'
        BY <2>1, <2>2, ConsumerConstants, ConsumerFacts!ConsumerInvGrowth DEF PipelineInv
    <2>5. QED
        BY <1>2, <2>3, <2>4 DEF PipelineInv
<1>5. QED
    BY <1>3, <1>4 DEF PipelineNext, pipelineVars, consumerVars

\* What the ledger sees of the pipeline.
ledgerVars == <<rows, Confirmed, log, handled>>

\* An answer other than 201 confirms nothing, nor does the end of the process.
LEMMA OtherAnswer ==
    ASSUME TypeOK, OrdersInv, NEW o \in Orders, NEW from, from # "done",
           NEW status, status # "201", Answer(o, from, status)
    PROVE  Confirmed' = Confirmed
<1>1. resp[o] = "none"
    BY DEF OrdersInv, OrderInv, Answer, Step, TypeOK, Active
<1>2. resp'[o] # "201" /\ \A x \in Orders \ {o} : resp'[x] = resp[x]
    BY DEF Answer, TypeOK
<1>3. QED
    BY <1>1, <1>2 DEF Confirmed

LEMMA DeathConfirmsNothing == OrdersInv /\ Die => Confirmed' = Confirmed
<1> SUFFICES ASSUME OrdersInv, Die
             PROVE  Confirmed' = Confirmed
    OBVIOUS
<1>1. ASSUME NEW o \in Orders
      PROVE  resp'[o] = "201" <=> resp[o] = "201"
    <2>1. req[o] \in Active => resp[o] = "none"
        BY DEF OrdersInv, OrderInv, Active
    <2>2. resp'[o] = IF req[o] \in Active THEN "cut" ELSE resp[o]
        BY DEF Die
    <2>3. QED
        BY <2>1, <2>2
<1>2. QED
    BY <1>1 DEF Confirmed

\* The handler's and the publisher's other steps are invisible to the ledger.
LEMMA QuietApiStep ==
    ASSUME TypeOK, OrdersInv, NEW o \in Orders,
           \/ Receive(o) \/ RejectProduct(o) \/ SendInsert(o) \/ InsertDone(o)
           \/ InsertFailed(o) \/ CountCreated(o) \/ PublishOrder(o)
           \/ Publisher(o)
    PROVE  UNCHANGED <<rows, Confirmed, log>>
<1>1. UNCHANGED <<rows, log>>
    BY DEF Receive, RejectProduct, SendInsert, InsertDone, InsertFailed, CountCreated,
       PublishOrder, Publisher, EnterWrite, WriteTimeout, SendProduce, Acknowledge, GiveUp,
       FinishBatch, dbVars, brokerVars
<1>2. CASE UNCHANGED resp
    BY <1>1, <1>2 DEF Confirmed
<1>3. CASE Receive(o)
    BY <1>1, <1>2, <1>3, OtherAnswer DEF Receive
<1>4. CASE RejectProduct(o)
    BY <1>1, <1>4, OtherAnswer DEF RejectProduct
<1>5. CASE InsertFailed(o)
    BY <1>1, <1>5, OtherAnswer DEF InsertFailed
<1>6. QED
    BY <1>2, <1>3, <1>4, <1>5
       DEF SendInsert, InsertDone, CountCreated, PublishOrder, Publisher, EnterWrite,
           WriteTimeout, SendProduce, Acknowledge, GiveUp, FinishBatch, handlerVars

\* A step of the api is a commit, a confirmation, a notification or nothing.
LEMMA ApiStepSimulates ==
    ASSUME TypeOK, OrdersInv, Next, UNCHANGED handled
    PROVE  [Ledger!Next]_ledgerVars
<1> USE DEF ledgerVars
<1>1. ASSUME NEW o \in Orders,
             \/ Receive(o) \/ RejectProduct(o) \/ SendInsert(o) \/ InsertDone(o)
             \/ InsertFailed(o) \/ CountCreated(o) \/ PublishOrder(o)
             \/ Publisher(o)
      PROVE  [Ledger!Next]_ledgerVars
    BY <1>1, QuietApiStep
<1>2. ASSUME NEW o \in Orders, ReplyCreated(o)
      PROVE  [Ledger!Next]_ledgerVars
    <2>1. o \in rows
        BY <1>2 DEF ReplyCreated, Answer, Step, OrdersInv, OrderInv
    <2>2. resp' = [resp EXCEPT ![o] = "201"] /\ UNCHANGED <<rows, log>>
        BY <1>2 DEF ReplyCreated, Answer, dbVars, brokerVars
    <2>3. Confirmed' = Confirmed \cup {o}
        BY <2>2 DEF Confirmed, TypeOK
    <2>4. Ledger!Confirm(o)
        BY <2>1, <2>2, <2>3 DEF Ledger!Confirm
    <2>5. QED
        BY <2>4 DEF Ledger!Next
<1>3. ASSUME NEW o \in Orders, DecideInsert(o)
      PROVE  [Ledger!Next]_ledgerVars
    <2>1. UNCHANGED <<Confirmed, log>>
        BY <1>3 DEF DecideInsert, handlerVars, brokerVars, Confirmed
    <2>2. CASE rows' = rows
        BY <2>1, <2>2
    <2>3. CASE rows' # rows
        <3>1. rows' = rows \cup {o} /\ o \notin rows
            BY <1>3, <2>3 DEF DecideInsert
        <3>2. Ledger!Commit(o)
            BY <2>1, <3>1 DEF Ledger!Commit
        <3>3. QED
            BY <3>2 DEF Ledger!Next
    <2>4. QED
        BY <2>2, <2>3
<1>4. ASSUME NEW o \in Orders, DeliverProduce(o)
      PROVE  [Ledger!Next]_ledgerVars
    <2>1. UNCHANGED <<rows, Confirmed>>
        BY <1>4 DEF DeliverProduce, handlerVars, dbVars, Confirmed
    <2>2. o \in rows
        BY <1>4 DEF DeliverProduce, OrdersInv, OrderInv
    <2>3. CASE log' = log
        BY <2>1, <2>3
    <2>4. CASE log' # log
        <3>1. log' = Append(log, o)
            BY <1>4, <2>4 DEF DeliverProduce
        <3>2. Ledger!Notify(o)
            BY <2>1, <2>2, <3>1 DEF Ledger!Notify
        <3>3. QED
            BY <3>2 DEF Ledger!Next
    <2>5. QED
        BY <2>3, <2>4
<1>5. CASE Start \/ Signal \/ Drained
    BY <1>5 DEF Start, Signal, Drained, handlerVars, dbVars, brokerVars, Confirmed
<1>6. CASE DrainTimeout \/ Exit \/ Crash
    <2>1. Die
        BY <1>6 DEF DrainTimeout, Exit, Crash
    <2>2. QED
        BY <2>1, DeathConfirmsNothing DEF Die, dbVars, brokerVars
<1>7. QED
    BY <1>1, <1>2, <1>3, <1>4, <1>5, <1>6 DEF Next, Handler

\* A step of the consumer processes the next event or is invisible.
LEMMA ConsumerStepSimulates ==
    ASSUME ConsumerFacts!TypeOK, ConsumerFacts!ConsumerInv, Consumer!Step, UNCHANGED apiVars
    PROVE  [Ledger!Next]_ledgerVars
<1> USE DEF ledgerVars
<1>1. UNCHANGED <<rows, Confirmed>>
    BY DEF apiVars, dbVars, handlerVars, Confirmed
<1>2. CASE Consumer!Process
    <2>1. /\ handled' = Append(handled, position)
          /\ phase = "processing"
          /\ UNCHANGED log
        BY <1>2 DEF Consumer!Process
    <2>2. position \in 1 .. Len(log)
        BY <2>1 DEF ConsumerFacts!ConsumerInv, ConsumerFacts!ReaderInv, ConsumerFacts!TypeOK
    <2>3. \A k \in 1 .. Len(handled) : handled[k] < position
        BY <2>1, <2>2 DEF ConsumerFacts!ConsumerInv, ConsumerFacts!ReaderInv,
           ConsumerFacts!WorkInv, ConsumerFacts!TypeOK
    <2>4. Ledger!Handle(position)
        BY <1>1, <2>1, <2>3 DEF Ledger!Handle
    <2>5. QED
        BY <2>2, <2>4 DEF Ledger!Next
<1>3. CASE ~Consumer!Process
    <2>1. UNCHANGED <<log, handled>>
        BY <1>3 DEF Consumer!Step, Consumer!Loop, Consumer!StartConsumer, Consumer!Fetch,
           Consumer!CommitOffset, Consumer!ReturnMessage, Consumer!ReadFails,
           Consumer!SignalConsumer, Consumer!LoopEnds, Consumer!ExitConsumer,
           Consumer!CrashConsumer, Consumer!Die
    <2>2. QED
        BY <1>1, <2>1
<1>4. QED
    BY <1>2, <1>3

\* The pipeline implements the ledger: the table is the source of truth, the
\* topic notifies of committed rows only, a 201 is given for committed rows
\* only, and events are processed at most once and in order.
THEOREM PipelineImplementsLedger == PipelineSpec => ImplementsLedger
<1>1. PipelineInit => Ledger!Init
    BY DEF PipelineInit, Init, Consumer!Init, Ledger!Init, Confirmed
<1>2. PipelineInv /\ [PipelineNext]_pipelineVars => [Ledger!Next]_ledgerVars
    <2> SUFFICES ASSUME PipelineInv, [PipelineNext]_pipelineVars
                 PROVE  [Ledger!Next]_ledgerVars
        OBVIOUS
    <2>1. CASE Next /\ UNCHANGED consumerVars
        BY <2>1, ApiStepSimulates DEF PipelineInv, consumerVars
    <2>2. CASE Consumer!Step /\ UNCHANGED apiVars
        BY <2>2, ConsumerStepSimulates DEF PipelineInv
    <2>3. CASE UNCHANGED pipelineVars
        BY <2>3 DEF pipelineVars, apiVars, dbVars, handlerVars, consumerVars, Confirmed,
           ledgerVars
    <2>4. QED
        BY <2>1, <2>2, <2>3 DEF PipelineNext
<1>3. ledgerVars = Ledger!vars
    BY DEF ledgerVars, Ledger!vars
<1>4. PipelineInv /\ [PipelineNext]_pipelineVars => [Ledger!Next]_(Ledger!vars)
    BY <1>2, <1>3 DEF ledgerVars, Ledger!vars
<1>5. QED
    BY <1>1, <1>4, PipelineInvInit, PipelineInvStep, PTL
       DEF PipelineSpec, ImplementsLedger, Ledger!Spec
-------------------------------------------------------------------------------
(***************************************************************************)
(* How often an order can be processed.  Each event in the topic and each  *)
(* produce request on its way is one attempt of the writer; the processed  *)
(* offsets grow, so no event stands behind two of them.                    *)
(***************************************************************************)

Places(o) == {i \in 1 .. Len(log) : log[i] = o}

AttemptsInv == \A o \in Orders : Cardinality(Places(o)) + wire[o] <= attempts[o]

\* An event at the end of the topic takes one more place, for its order only.
LEMMA PlacesAppend ==
    ASSUME TypeOK, NEW o \in Orders, log' = Append(log, o), NEW q \in Orders
    PROVE  Places(q)' = IF q = o THEN Places(q) \cup {Len(log) + 1} ELSE Places(q)
<1>1. log \in Seq(Orders)
    BY DEF TypeOK
<1>2. /\ Len(log) \in Nat /\ Len(log') = Len(log) + 1
      /\ \A i \in 1 .. Len(log) : log'[i] = log[i]
      /\ log'[Len(log) + 1] = o
    BY <1>1
<1>3. 1 .. Len(log') = 1 .. Len(log) \cup {Len(log) + 1}
    BY <1>2
<1>4. QED
    BY <1>2, <1>3 DEF Places

LEMMA PlacesFinite ==
    ASSUME TypeOK, NEW q
    PROVE  /\ IsFiniteSet(Places(q)) /\ Cardinality(Places(q)) \in Nat
           /\ Len(log) + 1 \notin Places(q)
<1>1. Len(log) \in Nat
    BY DEF TypeOK
<1>2. IsFiniteSet(1 .. Len(log)) /\ Places(q) \subseteq 1 .. Len(log)
    BY <1>1, FS_Interval DEF Places
<1>3. QED
    BY <1>1, <1>2, FS_Subset, FS_CardinalityType

\* A produce request that is delivered moves from the wire to the topic or is
\* lost.
LEMMA AttemptsDelivered ==
    ASSUME TypeOK, AttemptsInv, NEW o \in Orders, DeliverProduce(o)
    PROVE  AttemptsInv'
<1> SUFFICES ASSUME NEW q \in Orders
             PROVE  Cardinality(Places(q)') + wire'[q] <= attempts'[q]
    BY DEF AttemptsInv
<1>1. /\ wire[o] > 0 /\ wire' = [wire EXCEPT ![o] = @ - 1]
      /\ log' \in {log, Append(log, o)} /\ UNCHANGED attempts
    BY DEF DeliverProduce
<1>2. /\ wire \in [Orders -> Nat] /\ attempts[q] \in Nat /\ wire[q] \in Nat
      /\ Cardinality(Places(q)) \in Nat
      /\ Cardinality(Places(q)) + wire[q] <= attempts[q]
    BY PlacesFinite, OrderApiAssumption DEF TypeOK, AttemptsInv
<1>3. CASE q # o
    <2>1. Places(q)' = Places(q)
        BY <1>1, <1>3, PlacesAppend DEF Places
    <2>2. QED
        BY <1>1, <1>2, <1>3, <2>1
<1>4. CASE q = o /\ log' = log
    <2>1. Places(q)' = Places(q)
        BY <1>4 DEF Places
    <2>2. wire'[q] = wire[q] - 1
        BY <1>1, <1>2, <1>4
    <2>3. QED
        BY <1>1, <1>2, <2>1, <2>2
<1>5. CASE q = o /\ log' = Append(log, o)
    <2>1. Places(q)' = Places(q) \cup {Len(log) + 1}
        BY <1>5, PlacesAppend
    <2>2. Cardinality(Places(q)') = Cardinality(Places(q)) + 1
        BY <2>1, PlacesFinite, FS_AddElement
    <2>3. wire'[q] = wire[q] - 1
        BY <1>1, <1>2, <1>5
    <2>4. QED
        BY <1>1, <1>2, <2>2, <2>3
<1>6. QED
    BY <1>1, <1>3, <1>4, <1>5

LEMMA AttemptsStep == TypeOK /\ AttemptsInv /\ [Next]_vars => AttemptsInv'
<1> SUFFICES ASSUME TypeOK, AttemptsInv, [Next]_vars
             PROVE  AttemptsInv'
    OBVIOUS
<1>1. ASSUME NEW o \in Orders, SendProduce(o)
      PROVE  AttemptsInv'
    <2> SUFFICES ASSUME NEW q \in Orders
                 PROVE  Cardinality(Places(q)') + wire'[q] <= attempts'[q]
        BY DEF AttemptsInv
    <2>1. /\ attempts' = [attempts EXCEPT ![o] = @ + 1]
          /\ wire' = [wire EXCEPT ![o] = @ + 1] /\ UNCHANGED log
        BY <1>1 DEF SendProduce
    <2>2. Places(q)' = Places(q)
        BY <2>1 DEF Places
    <2>3. /\ wire \in [Orders -> Nat] /\ attempts \in [Orders -> Nat]
          /\ Cardinality(Places(q)) \in Nat
          /\ Cardinality(Places(q)) + wire[q] <= attempts[q]
        BY PlacesFinite, OrderApiAssumption DEF TypeOK, AttemptsInv
    <2>4. CASE q = o
        BY <2>1, <2>2, <2>3, <2>4
    <2>5. CASE q # o
        BY <2>1, <2>2, <2>3, <2>5
    <2>6. QED
        BY <2>4, <2>5
<1>2. ASSUME NEW o \in Orders, DeliverProduce(o)
      PROVE  AttemptsInv'
    BY <1>2, AttemptsDelivered
<1>3. ASSUME UNCHANGED <<attempts, wire, log>>
      PROVE  AttemptsInv'
    BY <1>3 DEF AttemptsInv, Places
<1>4. CASE ~\E o \in Orders : SendProduce(o) \/ DeliverProduce(o)
    <2>1. UNCHANGED <<attempts, wire, log>>
        BY <1>4 DEF Next, Handler, Publisher, vars, brokerVars, Receive, RejectProduct,
           SendInsert, InsertDone, InsertFailed, CountCreated, PublishOrder, ReplyCreated,
           EnterWrite, WriteTimeout, Acknowledge, GiveUp, FinishBatch, DecideInsert,
           Start, Signal, Drained, DrainTimeout, Exit, Crash, Die
    <2>2. QED
        BY <1>3, <2>1
<1>5. QED
    BY <1>1, <1>2, <1>4

LEMMA AttemptsInit == Init => AttemptsInv
<1> SUFFICES ASSUME Init, NEW o \in Orders
             PROVE  Cardinality(Places(o)) + wire[o] <= attempts[o]
    BY DEF AttemptsInv
<1>1. Places(o) = {} /\ wire[o] = 0 /\ attempts[o] = 0
    BY DEF Init, Places
<1>2. Cardinality({}) = 0
    BY FS_EmptySet
<1>3. QED
    BY <1>1, <1>2

\* The processed offsets of an order's events are places of it, none of them
\* taken twice.
LEMMA HandledAreFewer ==
    ASSUME PipelineInv, NEW o \in Orders
    PROVE  LET K == {k \in 1 .. Len(handled) : log[handled[k]] = o} IN
           Cardinality(K) \in Nat /\ Cardinality(K) <= Cardinality(Places(o))
<1> DEFINE K == {k \in 1 .. Len(handled) : log[handled[k]] = o}
           f == [k \in K |-> handled[k]]
<1>1. /\ handled \in Seq(Nat) /\ Len(log) \in Nat
      /\ \A i, j \in 1 .. Len(handled) : i < j => handled[i] < handled[j]
    BY DEF PipelineInv, TypeOK, ConsumerFacts!TypeOK, ConsumerFacts!ConsumerInv,
       ConsumerFacts!HandledOnceInOrder
<1>2. \A k \in 1 .. Len(handled) : handled[k] \in 1 .. Len(log)
    BY <1>1 DEF PipelineInv, ConsumerFacts!TypeOK, ConsumerFacts!ConsumerInv,
       ConsumerFacts!WorkInv, ConsumerFacts!ReaderInv
<1>3. f \in [K -> Places(o)]
    BY <1>2 DEF Places
<1>4. ASSUME NEW i \in K, NEW j \in K, f[i] = f[j]
      PROVE  i = j
    <2>1. /\ i \in 1 .. Len(handled) /\ j \in 1 .. Len(handled)
          /\ handled[i] = handled[j] /\ handled[i] \in Nat
        BY <1>1, <1>4
    <2>2. ~(i < j) /\ ~(j < i)
        BY <1>1, <2>1
    <2>3. QED
        BY <2>1, <2>2
<1>5. f \in Injection(K, Places(o))
    BY <1>3, <1>4 DEF Injection, IsInjective
<1>6. TypeOK
    BY DEF PipelineInv
<1> HIDE DEF K, f
<1>7. IsFiniteSet(K) /\ Cardinality(K) <= Cardinality(Places(o))
    BY <1>5, <1>6, PlacesFinite, FS_Injection
<1>8. QED
    BY <1>7, FS_CardinalityType DEF K

LEMMA PipelineInvariant == PipelineSpec => [](PipelineInv /\ AttemptsInv)
<1>1. PipelineInit => AttemptsInv
    BY AttemptsInit DEF PipelineInit
<1>2. PipelineInv /\ AttemptsInv /\ [PipelineNext]_pipelineVars => AttemptsInv'
    BY ApiView, AttemptsStep DEF PipelineInv
<1>3. QED
    BY <1>1, <1>2, PipelineInvInit, PipelineInvStep, PTL DEF PipelineSpec

\* However the two processes crash and restart, whatever the broker loses or
\* takes twice: an order is processed at most as often as it was attempted.
THEOREM ProcessedNoMoreThanAttempted == PipelineSpec => []ProcessedPerAttempt
<1>1. PipelineInv /\ AttemptsInv => ProcessedPerAttempt
    <2> SUFFICES ASSUME PipelineInv, AttemptsInv, NEW o \in Orders
                 PROVE  Cardinality({k \in 1 .. Len(handled) : log[handled[k]] = o})
                            <= attempts[o]
        BY DEF ProcessedPerAttempt
    <2> DEFINE n == Cardinality({k \in 1 .. Len(handled) : log[handled[k]] = o})
    <2>1. n \in Nat /\ n <= Cardinality(Places(o))
        BY HandledAreFewer
    <2>2. Cardinality(Places(o)) \in Nat /\ wire[o] \in Nat /\ attempts[o] \in Nat
        BY PlacesFinite, OrderApiAssumption DEF PipelineInv, TypeOK
    <2>3. Cardinality(Places(o)) + wire[o] <= attempts[o]
        BY DEF AttemptsInv
    <2> HIDE DEF n
    <2>4. n <= attempts[o]
        BY <2>1, <2>2, <2>3
    <2>5. QED
        BY <2>4 DEF n
<1>2. QED
    BY <1>1, PipelineInvariant, PTL

\* Put beside the consumer the api does what it does alone, so every theorem
\* about Spec holds of the pipeline.
THEOREM PipelineKeepsApi == PipelineSpec => Spec
    BY ApiView, PTL DEF PipelineSpec, PipelineInit, Spec
-------------------------------------------------------------------------------
(***************************************************************************)
(* The api as the producer that OrderConsumer assumes.  The topic is       *)
(* bounded: the n-th event of an order stands for its n-th attempt, so the *)
(* places of the topic inject into the pairs of an order and an attempt.   *)
(***************************************************************************)

\* Which of the events of its order stands at place i.
Nth(i) == Cardinality({j \in Places(log[i]) : j <= i})

\* It is one of the first as many as the order has places.
LEMMA NthInRange ==
    ASSUME TypeOK, AttemptsInv, NEW i \in 1 .. Len(log)
    PROVE  log[i] \in Orders /\ Nth(i) \in 1 .. MaxAttempts
<1> DEFINE o == log[i]
           S == {j \in Places(o) : j <= i}
<1>1. o \in Orders /\ i \in Nat
    BY DEF TypeOK
<1>2. i \in S /\ S \in SUBSET Places(o)
    BY <1>1 DEF Places
<1>3. /\ IsFiniteSet(Places(o)) /\ Cardinality(Places(o)) \in Nat
      /\ Cardinality(Places(o)) + wire[o] <= attempts[o]
      /\ wire[o] \in Nat /\ attempts[o] \in 0 .. MaxAttempts /\ MaxAttempts \in Nat
    BY <1>1, PlacesFinite, OrderApiAssumption DEF TypeOK, AttemptsInv
<1> HIDE DEF S, o
<1>4. IsFiniteSet(S) /\ Cardinality(S) <= Cardinality(Places(o))
    BY <1>2, <1>3, FS_Subset
<1>5. Cardinality(S) \in Nat /\ Cardinality(S) # 0
    BY <1>2, <1>4, FS_CardinalityType, FS_EmptySet
<1>6. Cardinality(S) \in 1 .. MaxAttempts
    BY <1>3, <1>4, <1>5
<1>7. Nth(i) = Cardinality(S)
    BY DEF Nth, S, o
<1>8. QED
    BY <1>1, <1>6, <1>7 DEF o

\* Later events of the same order have higher numbers.
LEMMA NthGrows ==
    ASSUME TypeOK, NEW i \in 1 .. Len(log), NEW k \in 1 .. Len(log), i < k, log[i] = log[k]
    PROVE  Nth(i) # Nth(k)
<1> DEFINE o == log[k]
           S == {j \in Places(o) : j <= i}
           T == {j \in Places(o) : j <= k}
<1>1. i \in Nat /\ k \in Nat
    BY DEF TypeOK
<1>2. S \in SUBSET T /\ k \in T /\ k \notin S /\ T \in SUBSET Places(o)
    BY <1>1 DEF Places
<1>3. Nth(i) = Cardinality(S) /\ Nth(k) = Cardinality(T)
    BY DEF Nth
<1> HIDE DEF S, T, o
<1>4. IsFiniteSet(T)
    BY <1>2, PlacesFinite, FS_Subset
<1>5. Cardinality(T) = Cardinality(S) => T = S
    BY <1>2, <1>4, FS_Subset
<1>6. QED
    BY <1>2, <1>3, <1>5

TopicFits == Len(log) <= MaxAttempts * Cardinality(Orders)

\* There are n numbers up to n.
LEMMA CountUpTo ==
    ASSUME NEW n \in Nat
    PROVE  Cardinality(1 .. n) = n
<1>1. n \in Int /\ 1 \in Int
    OBVIOUS
<1>2. Cardinality(1 .. n) = IF 1 > n THEN 0 ELSE n - 1 + 1
    BY <1>1, FS_Interval
<1>3. QED
    BY <1>2

LEMMA TopicBounded ==
    ASSUME TypeOK, AttemptsInv
    PROVE  TopicFits
<1> DEFINE Attempts == 1 .. MaxAttempts
           f == [i \in 1 .. Len(log) |-> <<log[i], Nth(i)>>]
<1>1. Len(log) \in Nat
    BY DEF TypeOK
<1>2. /\ IsFiniteSet(Orders) /\ Cardinality(Orders) \in Nat /\ MaxAttempts \in Nat
      /\ IsFiniteSet(Attempts) /\ Cardinality(Attempts) = MaxAttempts
    <2>1. MaxAttempts \in Nat \ {0} /\ IsFiniteSet(Orders)
        BY OrderApiAssumption
    <2>2. /\ IsFiniteSet(1 .. MaxAttempts)
          /\ Cardinality(1 .. MaxAttempts) = IF 1 > MaxAttempts THEN 0 ELSE MaxAttempts - 1 + 1
        BY <2>1, FS_Interval
    <2>3. Cardinality(Orders) \in Nat
        BY <2>1, FS_CardinalityType
    <2>4. QED
        BY <2>1, <2>2, <2>3
<1>3. f \in [1 .. Len(log) -> Orders \X Attempts]
    BY NthInRange
<1>4. ASSUME NEW i \in 1 .. Len(log), NEW k \in 1 .. Len(log), f[i] = f[k]
      PROVE  i = k
    <2>1. log[i] = log[k] /\ Nth(i) = Nth(k)
        BY <1>4
    <2>2. ~(i < k) /\ ~(k < i)
        BY <2>1, NthGrows
    <2>3. QED
        BY <1>1, <2>2
<1>5. f \in Injection(1 .. Len(log), Orders \X Attempts)
    BY <1>3, <1>4 DEF Injection, IsInjective
<1> HIDE DEF f, Attempts
<1>6. /\ IsFiniteSet(Orders \X Attempts)
      /\ Cardinality(Orders \X Attempts) = Cardinality(Orders) * MaxAttempts
    BY <1>2, FS_Product
<1>7. Cardinality(1 .. Len(log)) <= Cardinality(Orders) * MaxAttempts
    BY <1>5, <1>6, FS_Injection
<1>8. Cardinality(1 .. Len(log)) = Len(log)
    BY <1>1, CountUpTo
<1>9. QED
    BY <1>2, <1>7, <1>8 DEF TopicFits

LEMMA TopicBoundedNext == TypeOK' /\ AttemptsInv' => TopicFits'
<1>1. TypeOK /\ AttemptsInv => TopicFits
    BY TopicBounded
<1>2. QED
    BY <1>1, PTL

\* A step of the api that the consumer sees is a Produce.
LEMMA ApiProduces ==
    ASSUME TypeOK, AttemptsInv, [Next]_vars, UNCHANGED consumerVars
    PROVE  Consumer!Produce \/ UNCHANGED Consumer!vars
<1>1. TypeOK' /\ AttemptsInv'
    BY TypeStep, AttemptsStep
<1>2. log' = log \/ \E o \in Orders : log' = Append(log, o)
    BY DEF Next, Handler, Publisher, vars, brokerVars, Receive, RejectProduct, SendInsert,
       InsertDone, InsertFailed, CountCreated, PublishOrder, ReplyCreated, EnterWrite,
       WriteTimeout, SendProduce, Acknowledge, GiveUp, FinishBatch, DecideInsert,
       DeliverProduce, Start, Signal, Drained, DrainTimeout, Exit, Crash, Die
<1>3. UNCHANGED <<committed, handled, Consumer!readerVars, Consumer!processVars>>
    BY DEF consumerVars, Consumer!readerVars, Consumer!processVars
<1>4. CASE log' = log
    BY <1>3, <1>4 DEF Consumer!vars
<1>5. ASSUME NEW o \in Orders, log' = Append(log, o)
      PROVE  Consumer!Produce
    <2>1. Len(log) \in Nat /\ Len(log') = Len(log) + 1
        BY <1>5 DEF TypeOK
    <2>2. MaxAttempts * Cardinality(Orders) \in Nat
        BY ConsumerConstants
    <2>3. Len(log') <= MaxAttempts * Cardinality(Orders)
        BY <1>1, TopicBoundedNext DEF TopicFits
    <2>4. Len(log) < MaxAttempts * Cardinality(Orders)
        BY <2>1, <2>2, <2>3
    <2>5. QED
        BY <1>3, <1>5, <2>4 DEF Consumer!Produce
<1>6. QED
    BY <1>2, <1>4, <1>5

\* OrderConsumer stands for the consumer in the pipeline: fed by the real api it
\* behaves as if fed by the producer assumed there, topic bound included.
THEOREM PipelineKeepsConsumer == PipelineSpec => FeedsConsumer
<1>1. PipelineInv /\ AttemptsInv /\ [PipelineNext]_pipelineVars
          => [Consumer!Next]_(Consumer!vars)
    <2> SUFFICES ASSUME PipelineInv, AttemptsInv, [PipelineNext]_pipelineVars
                 PROVE  Consumer!Next \/ UNCHANGED Consumer!vars
        OBVIOUS
    <2>1. [Next]_vars
        BY ApiView
    <2>2. CASE Consumer!Step
        BY <2>2 DEF Consumer!Next
    <2>3. CASE UNCHANGED consumerVars
        BY <2>1, <2>3, ApiProduces DEF PipelineInv, Consumer!Next
    <2>4. QED
        BY <2>2, <2>3 DEF PipelineNext, pipelineVars, consumerVars
<1>2. PipelineInit => Consumer!Init
    BY DEF PipelineInit
<1>3. QED
    BY <1>1, <1>2, PipelineInvariant, PTL DEF PipelineSpec, FeedsConsumer, Consumer!Spec

\* In the pipeline too no offset is processed twice or out of order, and each
\* end of the consumer costs at most the event it had in hand.
THEOREM PipelineProcessesAtMostOnce ==
    PipelineSpec => [](Consumer!HandledOnceInOrder /\ Consumer!LossBoundedByEnds)
<1>1. PipelineInv => Consumer!HandledOnceInOrder /\ Consumer!LossBoundedByEnds
    BY DEF PipelineInv, ConsumerFacts!ConsumerInv,
       ConsumerFacts!HandledOnceInOrder, Consumer!HandledOnceInOrder,
       ConsumerFacts!LossBoundedByEnds, Consumer!LossBoundedByEnds,
       ConsumerFacts!Ends, Consumer!Ends, ConsumerFacts!InHand, Consumer!InHand
<1>2. QED
    BY <1>1, PipelineInvariant, PTL
===============================================================================
