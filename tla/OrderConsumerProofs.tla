-------------------------- MODULE OrderConsumerProofs --------------------------
(***************************************************************************)
(* Proofs about OrderConsumer, for every topic length and every number of  *)
(* starts.                                                                 *)
(***************************************************************************)
EXTENDS OrderConsumer, SequenceTheorems, TLAPS

\* How the reader's place, the group's offset and the work done fit together.
ReaderInv ==
    /\ cproc = "down" => phase = "stopped"
    /\ phase \in {"fetching", "committing", "processing"} => committed = position
    /\ phase = "acking" => committed = position + 1
    /\ phase = "processing" => position >= 1
    /\ phase \in {"committing", "acking"} => position < Len(log)
    /\ committed <= Len(log)

\* Nothing is processed that is not committed, nor the event still in hand.
WorkInv ==
    \A i \in 1 .. Len(handled) :
        /\ 1 <= handled[i]
        /\ handled[i] <= committed - (IF phase \in {"acking", "processing"} THEN 1 ELSE 0)

ConsumerInv ==
    /\ ReaderInv
    /\ WorkInv
    /\ HandledOnceInOrder
    /\ LossBoundedByEnds

USE DEF Phases, InReadMessage, readerVars, processVars

\* Every step of the consumer keeps every variable in its type.
LEMMA ConsumerTypeStep == TypeOK /\ Step => TypeOK'
<1> SUFFICES ASSUME TypeOK, Step
             PROVE  TypeOK'
    OBVIOUS
<1> USE DEF TypeOK
<1>1. CASE StartConsumer
    BY <1>1 DEF StartConsumer
<1>2. CASE Fetch
    BY <1>2 DEF Fetch
<1>3. CASE CommitOffset
    BY <1>3 DEF CommitOffset
<1>4. CASE ReturnMessage
    BY <1>4 DEF ReturnMessage
<1>5. CASE Process
    BY <1>5 DEF Process
<1>6. CASE ReadFails \/ ExitConsumer \/ CrashConsumer
    BY <1>6 DEF ReadFails, ExitConsumer, CrashConsumer, Die
<1>7. CASE SignalConsumer
    BY <1>7 DEF SignalConsumer
<1>8. CASE LoopEnds
    BY <1>8 DEF LoopEnds
<1>9. QED
    BY <1>1, <1>2, <1>3, <1>4, <1>5, <1>6, <1>7, <1>8 DEF Step, Loop

\* The consumer's variables keep their types.
THEOREM ConsumerTypeCorrect == Spec => []TypeOK
<1>1. Init => TypeOK
    BY DEF Init, TypeOK
<1>2. TypeOK /\ Produce => TypeOK'
    BY DEF TypeOK, Produce
<1>3. TypeOK /\ UNCHANGED vars => TypeOK'
    BY DEF TypeOK, vars
<1>4. TypeOK /\ [Next]_vars => TypeOK'
    BY <1>2, <1>3, ConsumerTypeStep DEF Next
<1>5. QED
    BY <1>1, <1>4, PTL DEF Spec

LEMMA ConsumerInvInit == Init => ConsumerInv
    BY DEF Init, ConsumerInv, ReaderInv, WorkInv, HandledOnceInOrder, LossBoundedByEnds,
           Ends, InHand

\* A step of the consumer keeps the invariant, whoever writes the topic.
LEMMA ConsumerInvStep == TypeOK /\ ConsumerInv /\ Step => ConsumerInv'
<1> SUFFICES ASSUME TypeOK, ConsumerInv, Step
             PROVE  ConsumerInv'
    OBVIOUS
<1> USE DEF TypeOK, ConsumerInv, ReaderInv, WorkInv, HandledOnceInOrder, LossBoundedByEnds,
            Ends, InHand
<1>1. CASE StartConsumer
    BY <1>1 DEF StartConsumer
<1>2. CASE Fetch
    BY <1>2 DEF Fetch
<1>3. CASE CommitOffset
    BY <1>3 DEF CommitOffset
<1>4. CASE ReturnMessage
    BY <1>4 DEF ReturnMessage
<1>5. CASE Process
    BY <1>5 DEF Process
<1>6. CASE ReadFails \/ ExitConsumer \/ CrashConsumer
    <2>1. /\ cproc # "down" /\ cproc' = "down" /\ phase' = "stopped"
          /\ UNCHANGED <<log, committed, handled, position, consumed, starts>>
        BY <1>6 DEF ReadFails, ExitConsumer, CrashConsumer, Die
    <2>2. ReaderInv'
        BY <2>1
    <2>3. WorkInv'
        BY <2>1
    <2>4. HandledOnceInOrder'
        BY <2>1
    <2>5. LossBoundedByEnds'
        <3>1. committed - Len(handled) <= Ends + InHand
            OBVIOUS
        <3>2. Ends' = Ends + 1 /\ InHand' = 0 /\ InHand <= 1
            BY <2>1
        <3>3. QED
            BY <2>1, <3>1, <3>2
    <2>6. QED
        BY <2>2, <2>3, <2>4, <2>5
<1>7. CASE SignalConsumer
    BY <1>7 DEF SignalConsumer
<1>8. CASE LoopEnds
    BY <1>8 DEF LoopEnds
<1>9. QED
    BY <1>1, <1>2, <1>3, <1>4, <1>5, <1>6, <1>7, <1>8 DEF Step, Loop

\* So does a topic that grows, by whatever is appended to it.
LEMMA ConsumerInvGrowth ==
    ASSUME TypeOK, ConsumerInv, Len(log') \in Nat, Len(log) <= Len(log'),
           UNCHANGED <<committed, handled, readerVars, processVars>>
    PROVE  ConsumerInv'
    BY DEF TypeOK, ConsumerInv, ReaderInv, WorkInv, HandledOnceInOrder, LossBoundedByEnds,
           Ends, InHand

LEMMA ConsumerInvariant == Spec => []ConsumerInv
<1>1. TypeOK /\ ConsumerInv /\ [Next]_vars => ConsumerInv'
    <2> SUFFICES ASSUME TypeOK, ConsumerInv, [Next]_vars
                 PROVE  ConsumerInv'
        OBVIOUS
    <2>1. CASE Step
        BY <2>1, ConsumerInvStep
    <2>2. CASE Produce
        <3>1. Len(log) \in Nat /\ Len(log') = Len(log) + 1
            BY <2>2 DEF Produce, TypeOK
        <3>2. QED
            BY <2>2, <3>1, ConsumerInvGrowth DEF Produce
    <2>3. CASE UNCHANGED vars
        <3>1. Len(log) \in Nat /\ Len(log') = Len(log)
            BY <2>3 DEF vars, TypeOK
        <3>2. QED
            BY <2>3, <3>1, ConsumerInvGrowth DEF vars
    <2>4. QED
        BY <2>1, <2>2, <2>3 DEF Next
<1>2. QED
    BY <1>1, ConsumerInvInit, ConsumerTypeCorrect, PTL DEF Spec

\* No event is processed twice or out of order, over all lives of the process.
THEOREM AtMostOnceInOrder == Spec => []HandledOnceInOrder
<1>1. ConsumerInv => HandledOnceInOrder
    BY DEF ConsumerInv
<1>2. QED
    BY <1>1, ConsumerInvariant, PTL

\* The end of a process loses at most the one event it had in hand.
THEOREM LossIsBounded == Spec => []LossBoundedByEnds
<1>1. ConsumerInv => LossBoundedByEnds
    BY DEF ConsumerInv
<1>2. QED
    BY <1>1, ConsumerInvariant, PTL
===============================================================================
