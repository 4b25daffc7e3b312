---------------------------- MODULE MCOrderPipeline ----------------------------
(***************************************************************************)
(* Two orders, the event of one of them sent twice, and a consumer started *)
(* twice: both processes can be ended and started again around an event    *)
(* and its duplicate.                                                      *)
(***************************************************************************)
EXTENDS OrderPipeline

CONSTANTS o1, o2

MCOrders == {o1, o2}
MCMaxAttempts == 2
MCMaxStarts == 2

\* State constraint: only o1 is retried, which the run can finish with.
OneRetried == attempts[o2] <= 1
===============================================================================
