---------------------------- MODULE MCLoadEndpoints ----------------------------
(***************************************************************************)
(* Two clients, so that a leak meets a leak or a reset; four environments, *)
(* and texts below, at and beyond every bound.  A millisecond is 8 of the  *)
(* 64 values of a Duration: a delay of 4 ms is the first to wrap around.   *)
(***************************************************************************)
EXTENDS LoadEndpoints

CONSTANTS c1, c2

MCClients == {c1, c2}
MCTexts ==
    [max_ms |-> {Unset, Junk, Number(-1), Number(0), Number(1), Number(5)},
     rate |-> {NotANumber, Number(-1), Number(0), Number(5), Number(100), Number(101)},
     seconds |-> {Number(-1), Number(31)},
     mb |-> {Junk, Number(600)}]
MCCredentials ==
    {[query |-> "", header |-> "none"], [query |-> "secret", header |-> "none"],
     [query |-> "secret", header |-> "guess"], [query |-> "", header |-> "secret"]}
MCEnvironments ==
    {[slowMin |-> Unset, slowMax |-> Unset, errorRate |-> Unset, adminToken |-> ""],
     [slowMin |-> Number(3), slowMax |-> Number(2), errorRate |-> NotANumber, adminToken |-> "secret"],
     [slowMin |-> Number(-3), slowMax |-> Number(-2), errorRate |-> Number(500), adminToken |-> ""],
     [slowMin |-> Number(2), slowMax |-> Junk, errorRate |-> Number(-1), adminToken |-> "secret"]}
MCSlowMinDefault == 1
MCSlowMaxDefault == 4
MCNsPerMs == 8
MCDurationSpan == 64
MCMaxLeaks == 2
===============================================================================
