------------------------------ MODULE OrderLedger ------------------------------
(***************************************************************************)
(* What the two binaries promise about an order together, without either   *)
(* of them: the table is the source of truth, the topic notifies of rows   *)
(* that are already in it, possibly several times or not at all, and an    *)
(* event is processed at most once and in the order of the topic.          *)
(***************************************************************************)
EXTENDS Integers, Sequences

CONSTANT Orders     \* the orders clients may send

VARIABLES
    rows,       \* committed orders
    confirmed,  \* orders whose client was told 201
    log,        \* events, oldest first
    handled     \* offsets of the processed events, in the order of processing

vars == <<rows, confirmed, log, handled>>

Init ==
    /\ rows = {}
    /\ confirmed = {}
    /\ log = <<>>
    /\ handled = <<>>

\* The order becomes a row of the table, and stays one.
Commit(o) ==
    /\ o \notin rows
    /\ rows' = rows \cup {o}
    /\ UNCHANGED <<confirmed, log, handled>>

\* Only a committed order is confirmed.
Confirm(o) ==
    /\ o \in rows
    /\ confirmed' = confirmed \cup {o}
    /\ UNCHANGED <<rows, log, handled>>

\* Only a committed order is notified of; a retry may do so again.
Notify(o) ==
    /\ o \in rows
    /\ log' = Append(log, o)
    /\ UNCHANGED <<rows, confirmed, handled>>

\* An event past every processed one is processed; those skipped are lost.
Handle(i) ==
    /\ \A k \in 1 .. Len(handled) : handled[k] < i
    /\ handled' = Append(handled, i)
    /\ UNCHANGED <<rows, confirmed, log>>

Next ==
    \/ \E o \in Orders : Commit(o) \/ Confirm(o) \/ Notify(o)
    \/ \E i \in 1 .. Len(log) : Handle(i)

Spec == Init /\ [][Next]_vars
===============================================================================
