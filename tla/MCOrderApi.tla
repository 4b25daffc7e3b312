------------------------------ MODULE MCOrderApi ------------------------------
(***************************************************************************)
(* Two orders, each of whose events the writer may send twice: enough for  *)
(* two handlers, two publishing goroutines and a late duplicate to overlap *)
(* with each other, a drain, a crash and a restart.                        *)
(***************************************************************************)
EXTENDS OrderApi

CONSTANTS o1, o2

MCOrders == {o1, o2}
MCMaxAttempts == 2
===============================================================================
