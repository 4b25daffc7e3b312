----------------------------- MODULE MCTraceContext -----------------------------
(***************************************************************************)
(* Two requests, which may continue the same upstream trace, a sampled one *)
(* or one that is not, and a foreign message whose header is refused, as   *)
(* if it had none, or is odd but accepted.                                 *)
(***************************************************************************)
EXTENDS TraceContext

MCRequests == 1 .. 2
MCUpstream ==
    {[trace |-> 101, span |-> 201, sampled |-> TRUE],
     [trace |-> 102, span |-> 202, sampled |-> FALSE]}
MCForeignHeaders ==
    {<<"00", Garbled, 0, "z1">>, <<"00", 103, 203, "1z">>}
MCMaxForeign == 1
===============================================================================
