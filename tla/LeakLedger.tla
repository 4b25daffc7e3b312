------------------------------- MODULE LeakLedger -------------------------------
(***************************************************************************)
(* What GET /leak and POST /leak/reset promise, as if each were one step:  *)
(* the buffer is on the books, and the total the caller is told is that of *)
(* the books with it; a reset clears them.                                 *)
(***************************************************************************)
EXTENDS Integers, SequencesExt

CONSTANTS
    Clients,    \* callers of the leak routes
    Amounts     \* the sizes in MB a call can ask for

VARIABLES
    held,       \* the sizes of the buffers that are kept, oldest first
    receipt,    \* receipt[c]: the total of the call of c, <<>> if it has none
    told        \* told[c]: the total c was answered with, <<>> before that

vars == <<held, receipt, told>>

Total(sizes) == FoldSeq(+, 0, sizes)
-------------------------------------------------------------------------------
Init ==
    /\ held = <<>>
    /\ receipt = [c \in Clients |-> <<>>]
    /\ told = [c \in Clients |-> <<>>]

\* The call of c takes effect: the books become sizes, with this total.
Enter(c, sizes, total) ==
    /\ receipt[c] = <<>>
    /\ held' = sizes
    /\ receipt' = [receipt EXCEPT ![c] = <<total>>]
    /\ UNCHANGED told

Leak(c) ==
    \E mb \in Amounts : LET sizes == Append(held, mb) IN Enter(c, sizes, Total(sizes))

Reset(c) == Enter(c, <<>>, 0)

Tell(c) ==
    /\ receipt[c] # <<>>
    /\ told' = [told EXCEPT ![c] = receipt[c]]
    /\ receipt' = [receipt EXCEPT ![c] = <<>>]
    /\ UNCHANGED held

\* c begins another request, of whatever kind.
Ask(c) ==
    /\ told' = [told EXCEPT ![c] = <<>>]
    /\ UNCHANGED <<held, receipt>>

Next == \E c \in Clients : Leak(c) \/ Reset(c) \/ Tell(c) \/ Ask(c)

Spec == Init /\ [][Next]_vars
===============================================================================
