----------------------------- MODULE MCApiLifecycle -----------------------------
(***************************************************************************)
(* Three handlers share two connections: two of them can hold everything   *)
(* there is, with a hanging query or with a first query, while the third   *)
(* waits, leaves, or is served after them.                                 *)
(***************************************************************************)
EXTENDS ApiLifecycle

CONSTANTS h1, h2, h3

MCHandlers == {h1, h2, h3}
MCMaxOpen == 2
===============================================================================
