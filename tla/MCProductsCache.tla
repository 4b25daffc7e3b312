---------------------------- MODULE MCProductsCache ----------------------------
(***************************************************************************)
(* Two clients, two contents of the table, a TTL of two ticks and one SET  *)
(* of each content on the wire: a request can be overtaken by a change, by *)
(* the other request and by a SET left behind by a process before.         *)
(***************************************************************************)
EXTENDS ProductsCache

CONSTANTS c1, c2, t1, t2

MCClients == {c1, c2}
MCTables == {t1, t2}
MCTTL == 2
MCMaxWire == 1
===============================================================================
